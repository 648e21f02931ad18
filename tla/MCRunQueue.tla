----------------------------- MODULE MCRunQueue -----------------------------
(* Small instances of RunQueue for TLC; the .cfg files choose the sets.     *)
EXTENDS RunQueueRefinement, TLC

\* Goroutines and cancel calls are interchangeable; messages are not ordered
\* until they are queued.  Used by runs without liveness properties only.
Symmetry == Permutations(Procs) \cup Permutations(Manual) \cup Permutations(Scheduled)
=============================================================================
