---------------------------- MODULE MCInputBroker ----------------------------
(* Small instances of InputBroker.                                          *)
EXTENDS InputBroker, TLC

\* A provider uses no request id twice.
DistinctIds == [q \in Requests |-> q]

Symmetry ==
  UNION {Permutations(Runs), Permutations(Clients)}
=============================================================================
