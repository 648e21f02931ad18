---------------------------- MODULE EventWindows ----------------------------
(* The bounded windows in which the web client keeps a session's events
   (web/src/lib/session-event-window.ts).  An event is its sequence number,
   a window a finite set of them: the code sorts and removes duplicates
   wherever it builds one.  Sizes in bytes are left out; the number of
   events stands for them. *)
EXTENDS Integers, FiniteSets

CONSTANTS
  TurnStarts     \* the sequence numbers of user messages, which open a turn

ASSUME TurnStartsAssumption == TurnStarts \subseteq Nat

(* The first and the last sequence number of a window, 0 when it is empty. *)
FirstSeq(W) == IF W = {} THEN 0 ELSE CHOOSE s \in W : \A t \in W : s <= t
LastSeq(W)  == IF W = {} THEN 0 ELSE CHOOSE s \in W : \A t \in W : s >= t

From(W, s) == {t \in W : t >= s}
UpTo(W, s) == {t \in W : t <= s}

TurnsIn(W) == Cardinality(W \cap TurnStarts)

Fits(W, policy) == /\ TurnsIn(W) <= policy.turns
                   /\ Cardinality(W) <= policy.events

(* boundEventWindow(..., 'latest'): the longest end of W that fits, at least
   its last event, and nothing before the message that opens the last turn
   the policy allows. *)
BoundLatest(W, policy) ==
  {s \in W : \/ s = LastSeq(W)
             \/ /\ Fits(From(W, s), policy)
                /\ TurnsIn(From(W, s + 1)) < policy.turns}

(* boundEventWindow(..., 'oldest'): the longest beginning that fits. *)
BoundOldest(W, policy) ==
  {s \in W : s = FirstSeq(W) \/ Fits(UpTo(W, s), policy)}
=============================================================================
