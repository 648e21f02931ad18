-------------------------- MODULE MCSessionHistory --------------------------
(* Instances of SessionHistory for TLC: every window is a few events long, so
   that pages, trimming and disjoint windows appear within three events. *)
EXTENDS SessionHistory

Policy(n) == [turns |-> 2, events |-> n]
MCPage == Policy(2)
MCResident == Policy(4)
MCLive == Policy(3)
MCBounds == [faults |-> 1, visits |-> 3]
=============================================================================
