----------------------------- MODULE LaunchOnce -----------------------------
(***************************************************************************)
(* What a session promises for the messages sent to it, without handlers,  *)
(* rows, claims or crashes: one run at a time, each message is run at most *)
(* once, and a withdrawn message never is.                                 *)
(***************************************************************************)
CONSTANTS Messages, NoMsg

VARIABLES life,   \* what has become of each message
          slot    \* the message the session is running, or NoMsg

Lives == {"new", "waiting", "running", "done", "withdrawn"}

LaunchTypeOK ==
  /\ life \in [Messages -> Lives]
  /\ slot \in Messages \cup {NoMsg}

LInit == life = [m \in Messages |-> "new"] /\ slot = NoMsg

Accept(m) ==
  /\ life[m] = "new"
  /\ life' = [life EXCEPT ![m] = "waiting"]
  /\ slot' = slot

Start(m) ==
  /\ slot = NoMsg /\ life[m] \in {"new", "waiting"}
  /\ life' = [life EXCEPT ![m] = "running"]
  /\ slot' = m

End(m) ==
  /\ slot = m /\ life[m] = "running"
  /\ life' = [life EXCEPT ![m] = "done"]
  /\ slot' = NoMsg

\* One message by its sender, several when the session is archived.
Withdraw(S) ==
  /\ \A m \in S : life[m] = "waiting"
  /\ life' = [m \in Messages |-> IF m \in S THEN "withdrawn" ELSE life[m]]
  /\ slot' = slot

LNext ==
  \/ \E m \in Messages : Accept(m) \/ Start(m) \/ End(m)
  \/ \E S \in SUBSET Messages : Withdraw(S)

LSpec == LInit /\ [][LNext]_<<life, slot>>
=============================================================================
