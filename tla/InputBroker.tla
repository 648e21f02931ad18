----------------------------- MODULE InputBroker -----------------------------
(***************************************************************************)
(* What people send into a run while it is under way: answers to the       *)
(* questions of its agent, decisions on the permissions it asks for, and   *)
(* further input that steers it.  An HTTP handler looks at the run         *)
(* manager's entry of the session, records what was sent in the event log  *)
(* and then hands it over; meanwhile the agent withdraws questions, the    *)
(* run is cancelled or ends, and the session's next run begins.  A         *)
(* critical section of the manager, a write and a message to the provider  *)
(* are one action each.                                                    *)
(***************************************************************************)
EXTENDS Naturals

CONSTANTS
  Runs,         \* the runs of the session, one after the other
  Blocking,     \* questions whose agent waits for the answer
  Async,        \* questions answered by steering the turn that asked
  Permissions,  \* permission requests
  IdOf,         \* the request id the provider gives each of them
  Clients,      \* HTTP handlers at work at the same time
  Steers,       \* whether clients send steering input
  MaxFaults,    \* bound: events that cannot be appended
  NoRun, NoRequest

Questions == Blocking \cup Async
Requests == Questions \cup Permissions

ASSUME BrokerAssumption ==
  /\ Blocking \cap Async = {} /\ Permissions \cap Questions = {}
  /\ NoRun \notin Runs /\ NoRequest \notin Requests
  /\ Steers \in BOOLEAN /\ MaxFaults \in Nat

VARIABLES
  status,                \* sessions.status: "running" or "idle"
  active, cancelled,     \* Manager.runs[session] and run.cancelled
  past, closed,          \* runs registered so far; runs whose agent is closing
  owner, asked,          \* a request's run; what its agent makes of it
  listed,                \* requests in their run's maps of pending ones
  answering,             \* userInputRequest.answering
  given, taken,          \* answers handed to a request; accepted by its agent
  log,                   \* number of events about a request, by kind
  handler, busy,         \* per run: its steeringHandler; runs where it is busy
  pc, seen, held,        \* per client: position, request it read, one claimed
  target, onto,          \* per client: run it means to steer, entry it found
  verdict,               \* per client: the provider's reply
  accepted, steered,     \* per run: steering input accepted; recorded as sent
  faults

runVars == <<status, active, cancelled, past, closed>>
requestVars == <<owner, asked, listed, answering, given, taken, log>>
steeringVars == <<handler, busy, accepted, steered>>
clientVars == <<pc, seen, held, target, onto, verdict>>
jobVars == <<seen, held, target, onto, verdict>>
vars == <<status, active, cancelled, past, closed, owner, asked, listed,
          answering, given, taken, log, handler, busy, pc, seen, held, target,
          onto, verdict, accepted, steered, faults>>

Kinds == {"submitted", "answered", "failed", "resolved"}
Positions == {"idle", "claim", "persist", "check", "deliver", "sent", "confirm",
              "fail", "record", "resolve", "seize", "submit", "verify"}
Sat(n) == IF n < 2 THEN n + 1 ELSE 2    \* counters saturate at 2

\* The run is in the manager and its context is not done.
Live(r) == active = r /\ r # NoRun /\ ~cancelled
\* The manager has one map of questions and one of permissions per run.
SameKey(q, x) ==
  IdOf[q] = IdOf[x] /\ (q \in Permissions <=> x \in Permissions)
Entry(r, q) == {x \in listed : owner[x] = r /\ SameKey(q, x)}
Steering(c) == target[c] # NoRun
Works == faults' = faults
Fails == faults > 0 /\ faults' = faults - 1
Goto(c, place) == pc' = [pc EXCEPT ![c] = place]
Event(q, kind) == log' = [log EXCEPT ![q][kind] = Sat(@)]

Init ==
  /\ status = "idle" /\ active = NoRun /\ cancelled = FALSE
  /\ past = {} /\ closed = {}
  /\ owner = [q \in Requests |-> NoRun] /\ asked = [q \in Requests |-> "no"]
  /\ listed = {} /\ answering = {}
  /\ given = [q \in Requests |-> 0] /\ taken = [q \in Requests |-> 0]
  /\ log = [q \in Requests |-> [k \in Kinds |-> 0]]
  /\ handler = [r \in Runs |-> "none"] /\ busy = {}
  /\ pc = [c \in Clients |-> "idle"]
  /\ seen = [c \in Clients |-> NoRequest]
  /\ held = [c \in Clients |-> NoRequest]
  /\ target = [c \in Clients |-> NoRun] /\ onto = [c \in Clients |-> NoRun]
  /\ verdict = [c \in Clients |-> "none"]
  /\ accepted = [r \in Runs |-> 0] /\ steered = [r \in Runs |-> 0]
  /\ faults = MaxFaults
-----------------------------------------------------------------------------
(* The run: its entry in the manager, and its agent.                       *)

\* RegisterRun for a run of the session, whose row is then set running.
Register(r) ==
  /\ active = NoRun /\ r \in Runs \ past
  /\ active' = r /\ cancelled' = FALSE /\ past' = past \cup {r}
  /\ status' = "running"
  /\ UNCHANGED <<closed, requestVars, steeringVars, clientVars, faults>>

\* Cancel, CancelRun.
Cancel ==
  /\ active # NoRun /\ ~cancelled
  /\ cancelled' = TRUE
  /\ UNCHANGED <<status, active, past, closed, requestVars, steeringVars,
                 clientVars, faults>>

\* openUserInput, OpenPermission, followed by the requested event.  An id that
\* is already in the run's map is refused; a run that has been cancelled is, by
\* openUserInput.
Ask(q) ==
  /\ active # NoRun /\ active \notin closed /\ (q \in Questions => ~cancelled)
  /\ asked[q] = "no" /\ Entry(active, q) = {}
  /\ owner' = [owner EXCEPT ![q] = active]
  /\ asked' = [asked EXCEPT ![q] = "open"]
  /\ listed' = listed \cup {q}
  /\ UNCHANGED <<runVars, answering, given, taken, log, steeringVars,
                 clientVars, faults>>

\* Wait returns the answer; the agent passes it on and closes its waiter.
TakeAnswer(q) ==
  /\ q \notin Async /\ asked[q] = "open" /\ given[q] > taken[q]
  /\ active = owner[q] /\ active \notin closed
  /\ taken' = [taken EXCEPT ![q] = Sat(@)]
  /\ asked' = [asked EXCEPT ![q] = "closed"]
  /\ listed' = listed \ {q}
  /\ UNCHANGED <<runVars, owner, answering, given, log, steeringVars,
                 clientVars, faults>>

\* Close: the provider withdraws the request, or the agent gives up waiting
\* (for an async question, when it ends).  Only its own entry is deleted.
Close(q) ==
  /\ asked[q] = "open" /\ active = owner[q]
  /\ q \in Async => active \in closed
  /\ asked' = [asked EXCEPT ![q] = "closed"]
  /\ listed' = listed \ {q}
  /\ UNCHANGED <<runVars, owner, answering, given, taken, log, steeringVars,
                 clientVars, faults>>

\* RegisterSteering, once the agent has started its turn.
RegisterSteering(r) ==
  /\ Live(r) /\ r \notin closed /\ handler[r] = "none"
  /\ handler' = [handler EXCEPT ![r] = "registered"]
  /\ UNCHANGED <<runVars, requestVars, busy, accepted, steered, clientVars,
                 faults>>

\* The function RegisterSteering returns: deferred, so that it runs before the
\* agent has returned.
UnregisterSteering(r) ==
  /\ active = r /\ handler[r] = "registered"
  /\ handler' = [handler EXCEPT ![r] = "gone"]
  /\ UNCHANGED <<runVars, requestVars, busy, accepted, steered, clientVars,
                 faults>>

\* closeAsyncInput: the agent has ended its turn and accepts nothing more.
CloseAgent ==
  /\ active # NoRun /\ active \notin closed
  /\ closed' = closed \cup {active}
  /\ UNCHANGED <<status, active, cancelled, past, requestVars, steeringVars,
                 clientVars, faults>>

\* runAgent sets the session idle or failed ...
Settle ==
  /\ active \in closed /\ handler[active] # "registered" /\ status = "running"
  /\ status' = "idle"
  /\ UNCHANGED <<active, cancelled, past, closed, requestVars, steeringVars,
                 clientVars, faults>>

\* ... and cleanup() deletes the entry.
Cleanup ==
  /\ active \in closed /\ status = "idle"
  /\ active' = NoRun /\ cancelled' = FALSE
  /\ UNCHANGED <<status, past, closed, requestVars, steeringVars, clientVars,
                 faults>>
-----------------------------------------------------------------------------
(* answerUserInputHandler, AnswerUserInputWithPersistence.                 *)

\* The handler responds to its client.
Respond(c) ==
  /\ Goto(c, "idle")
  /\ seen' = [seen EXCEPT ![c] = NoRequest]
  /\ held' = [held EXCEPT ![c] = NoRequest]
  /\ target' = [target EXCEPT ![c] = NoRun]
  /\ onto' = [onto EXCEPT ![c] = NoRun]
  /\ verdict' = [verdict EXCEPT ![c] = "none"]

\* PendingUserInput or PendingPermission: the request is read and validated.
\* The session's row is read before, which makes no difference: it is running
\* whenever an agent asks.
Look(c, q) ==
  /\ pc[c] = "idle" /\ status = "running"
  /\ q \in listed /\ owner[q] = active
  /\ seen' = [seen EXCEPT ![c] = q]
  /\ Goto(c, IF q \in Permissions THEN "record" ELSE "claim")
  /\ UNCHANGED <<runVars, requestVars, steeringVars, held, target, onto,
                 verdict, faults>>

\* The request is looked up again, by its id, and claimed.
Claim(c) ==
  /\ pc[c] = "claim"
  /\ \/ \E q \in Entry(active, seen[c]) \ answering :
          /\ Live(active)
          /\ answering' = answering \cup {q}
          /\ held' = [held EXCEPT ![c] = q]
          /\ onto' = [onto EXCEPT ![c] = active]
          /\ Goto(c, "persist")
          /\ UNCHANGED <<seen, target, verdict>>
     \/ /\ ~Live(active) \/ Entry(active, seen[c]) \ answering = {}
        /\ Respond(c)
        /\ UNCHANGED answering
  /\ UNCHANGED <<runVars, owner, asked, listed, given, taken, log,
                 steeringVars, faults>>

\* agent.input.submitted or agent.input.answered; a failure gives the claim up.
Persist(c) ==
  /\ pc[c] = "persist"
  /\ \/ /\ Works
        /\ Event(seen[c], IF seen[c] \in Async THEN "submitted" ELSE "answered")
        /\ Goto(c, "check")
        /\ UNCHANGED <<answering, jobVars>>
     \/ /\ Fails
        /\ answering' = answering \ {held[c]}
        /\ Respond(c)
        /\ UNCHANGED log
  /\ UNCHANGED <<runVars, owner, asked, listed, given, taken, steeringVars>>

\* The entry under the id is deleted in any case, whoever it belongs to by now;
\* the answer goes on only if nothing has changed.
Check(c) ==
  /\ pc[c] = "check"
  /\ listed' = listed \ Entry(onto[c], held[c])
  /\ \/ /\ Live(onto[c]) /\ held[c] \in listed
        /\ Goto(c, "deliver")
        /\ UNCHANGED jobVars
     \/ /\ ~(Live(onto[c]) /\ held[c] \in listed)
        /\ IF seen[c] \in Async
           THEN Goto(c, "fail") /\ UNCHANGED jobVars
           ELSE Respond(c)
  /\ UNCHANGED <<runVars, owner, asked, answering, given, taken, log,
                 steeringVars, faults>>

\* pending.response <- response: the channel holds one.
DeliverBlocking(c) ==
  /\ pc[c] = "deliver" /\ held[c] # NoRequest /\ held[c] \notin Async
  /\ given[held[c]] = taken[held[c]]
  /\ given' = [given EXCEPT ![held[c]] = Sat(@)]
  /\ Respond(c)
  /\ UNCHANGED <<runVars, owner, asked, listed, answering, taken, log,
                 steeringVars, faults>>
-----------------------------------------------------------------------------
(* resolvePermissionHandler: records the decision, then resolves.          *)

RecordDecision(c) ==
  /\ pc[c] = "record"
  /\ \/ /\ Works /\ Event(seen[c], "resolved") /\ Goto(c, "resolve")
        /\ UNCHANGED jobVars
     \/ Fails /\ Respond(c) /\ UNCHANGED log
  /\ UNCHANGED <<runVars, owner, asked, listed, answering, given, taken,
                 steeringVars>>

\* Mutant: the entry stays in the map until the waiter is closed.
MutResolve(c) ==
  /\ pc[c] = "resolve"
  /\ \/ \E q \in Entry(active, seen[c]) :
          /\ held' = [held EXCEPT ![c] = q]
          /\ Goto(c, "deliver")
          /\ UNCHANGED <<seen, target, onto, verdict>>
     \/ Entry(active, seen[c]) = {} /\ Respond(c)
  /\ UNCHANGED <<runVars, requestVars, steeringVars, faults>>

\* ResolvePermission: also for a run that has been cancelled.
Resolve(c) ==
  /\ pc[c] = "resolve"
  /\ \/ \E q \in Entry(active, seen[c]) :
          /\ listed' = listed \ {q}
          /\ held' = [held EXCEPT ![c] = q]
          /\ Goto(c, "deliver")
          /\ UNCHANGED <<seen, target, onto, verdict>>
     \/ /\ Entry(active, seen[c]) = {}
        /\ Respond(c)
        /\ UNCHANGED listed
  /\ UNCHANGED <<runVars, owner, asked, answering, given, taken, log,
                 steeringVars, faults>>
-----------------------------------------------------------------------------
(* steerSessionMessage, SteerWithPersistence.                              *)

\* The client names the run it means to steer: one it has seen.
Steer(c, r) ==
  /\ Steers /\ pc[c] = "idle" /\ status = "running" /\ r \in past
  /\ target' = [target EXCEPT ![c] = r]
  /\ Goto(c, "seize")
  /\ UNCHANGED <<runVars, requestVars, steeringVars, seen, held, onto, verdict,
                 faults>>

\* The active run has a handler for that run, and it is not busy.
Steerable(r) == active = r /\ handler[r] = "registered" /\ r \notin busy

Seize(c) ==
  /\ pc[c] = "seize"
  /\ \/ /\ Live(active) /\ Steerable(target[c])
        /\ busy' = busy \cup {active}
        /\ onto' = [onto EXCEPT ![c] = active]
        /\ Goto(c, "submit")
        /\ UNCHANGED <<seen, held, target, verdict>>
     \/ /\ ~(Live(active) /\ Steerable(target[c]))
        /\ Respond(c)
        /\ UNCHANGED busy
  /\ UNCHANGED <<runVars, requestVars, handler, accepted, steered, faults>>

\* Mutant: the handler stays busy when the event cannot be appended.
MutSubmit(c) ==
  /\ pc[c] = "submit"
  /\ \/ Works /\ Goto(c, "verify") /\ UNCHANGED jobVars
     \/ Fails /\ Respond(c)
  /\ UNCHANGED <<runVars, requestVars, steeringVars>>

\* user.message.steer.submitted.
Submit(c) ==
  /\ pc[c] = "submit"
  /\ \/ /\ Works
        /\ Goto(c, "verify")
        /\ UNCHANGED <<busy, jobVars>>
     \/ /\ Fails
        /\ busy' = busy \ {onto[c]}
        /\ Respond(c)
  /\ UNCHANGED <<runVars, requestVars, handler, accepted, steered>>

\* The run and its handler are still the ones that were found.
Verify(c) ==
  /\ pc[c] = "verify"
  /\ \/ /\ Live(onto[c]) /\ handler[onto[c]] = "registered"
        /\ Goto(c, "deliver") /\ UNCHANGED busy
     \/ /\ ~(Live(onto[c]) /\ handler[onto[c]] = "registered")
        /\ Goto(c, "fail") /\ busy' = busy \ {onto[c]}
  /\ UNCHANGED <<runVars, requestVars, handler, accepted, steered, jobVars,
                 faults>>
-----------------------------------------------------------------------------
(* deliver and steerInput, for steering and for answers to async questions. *)

\* The handler lets go of what it holds while it delivers.
LetGo(c) == busy' = IF Steering(c) THEN busy \ {onto[c]} ELSE busy

\* The input is written, unless the run's context is done, the run has closed
\* or the handler's time is up.
Send(c) ==
  /\ pc[c] = "deliver" /\ (Steering(c) \/ held[c] \in Async)
  /\ \/ /\ Live(onto[c]) /\ onto[c] \notin closed
        /\ given' = IF Steering(c) THEN given
                    ELSE [given EXCEPT ![held[c]] = Sat(@)]
        /\ Goto(c, "sent") /\ UNCHANGED busy
     \/ Goto(c, "fail") /\ LetGo(c) /\ UNCHANGED given
  /\ UNCHANGED <<runVars, owner, asked, listed, answering, taken, log, handler,
                 accepted, steered, jobVars, faults>>

\* The provider accepts the input for the turn it names, or refuses it.
ProviderReplies(c, reply) ==
  /\ pc[c] = "sent" /\ verdict[c] = "none" /\ onto[c] \notin closed
  /\ verdict' = [verdict EXCEPT ![c] = reply]
  /\ IF Steering(c)
     THEN /\ accepted' = [accepted EXCEPT ![onto[c]] =
                           IF reply = "accepted" THEN Sat(@) ELSE @]
          /\ UNCHANGED taken
     ELSE /\ taken' = [taken EXCEPT ![held[c]] =
                        IF reply = "accepted" THEN Sat(@) ELSE @]
          /\ UNCHANGED accepted
  /\ UNCHANGED <<runVars, owner, asked, listed, answering, given, log, handler,
                 busy, steered, pc, seen, held, target, onto, faults>>

\* Mutant: the provider's reply is waited for.
MutWaits(c) ==
  /\ pc[c] = "sent"
  /\ \/ verdict[c] = "accepted" /\ Goto(c, "confirm")
     \/ verdict[c] = "refused" /\ Goto(c, "fail")
  /\ LetGo(c)
  /\ UNCHANGED <<runVars, requestVars, handler, accepted, steered, jobVars,
                 faults>>

\* The reply arrives; or the wait for it ends, by its timeout, with the run,
\* or with a refusal.
Returns(c) ==
  /\ pc[c] = "sent"
  /\ \/ verdict[c] = "accepted" /\ Goto(c, "confirm")
     \/ Goto(c, "fail")
  /\ LetGo(c)
  /\ UNCHANGED <<runVars, requestVars, handler, accepted, steered, jobVars,
                 faults>>

\* agent.input.answered, or the steering input as a user message; a failure
\* is reported to the client and nothing else.
Confirm(c) ==
  /\ pc[c] = "confirm"
  /\ \/ /\ Works
        /\ IF Steering(c)
           THEN /\ steered' = [steered EXCEPT ![target[c]] = Sat(@)]
                /\ UNCHANGED log
           ELSE Event(seen[c], "answered") /\ UNCHANGED steered
     \/ Fails /\ UNCHANGED <<log, steered>>
  /\ Respond(c)
  /\ UNCHANGED <<runVars, owner, asked, listed, answering, given, taken,
                 handler, busy, accepted>>

\* agent.input.failed, user.message.steer.failed.
Fail(c) ==
  /\ pc[c] = "fail"
  /\ \/ Works /\ Steering(c) /\ UNCHANGED log
     \/ Works /\ ~Steering(c) /\ Event(seen[c], "failed")
     \/ Fails /\ UNCHANGED log
  /\ Respond(c)
  /\ UNCHANGED <<runVars, owner, asked, listed, answering, given, taken,
                 steeringVars>>
-----------------------------------------------------------------------------
AgentStep ==
  \/ \E q \in Requests : Ask(q) \/ TakeAnswer(q) \/ Close(q)
  \/ \E r \in Runs : RegisterSteering(r) \/ UnregisterSteering(r)
  \/ CloseAgent
RunStep == (\E r \in Runs : Register(r)) \/ Cancel \/ Settle \/ Cleanup

\* What a handler does without waiting for anybody for ever.
ClientStep(c) ==
  \/ Claim(c) \/ Persist(c) \/ Check(c) \/ DeliverBlocking(c)
  \/ RecordDecision(c) \/ Resolve(c)
  \/ Seize(c) \/ Submit(c) \/ Verify(c)
  \/ Send(c) \/ Returns(c) \/ Confirm(c) \/ Fail(c)

Next ==
  \/ AgentStep \/ RunStep
  \/ \E c \in Clients : ClientStep(c) \/ \E q \in Requests : Look(c, q)
  \/ \E c \in Clients, r \in Runs : Steer(c, r)
  \/ \E c \in Clients, reply \in {"accepted", "refused"} :
       ProviderReplies(c, reply)

Spec == Init /\ [][Next]_vars

\* Handlers run: a write returns, and a wait for the provider times out.
FairSpec == Spec /\ \A c \in Clients : WF_vars(ClientStep(c))
-----------------------------------------------------------------------------
\* Every variable has its type.
TypeOK ==
  /\ status \in {"running", "idle"} /\ cancelled \in BOOLEAN
  /\ active \in Runs \cup {NoRun}
  /\ past \subseteq Runs /\ closed \subseteq Runs
  /\ owner \in [Requests -> Runs \cup {NoRun}]
  /\ asked \in [Requests -> {"no", "open", "closed"}]
  /\ listed \subseteq Requests /\ answering \subseteq Questions
  /\ given \in [Requests -> 0..2] /\ taken \in [Requests -> 0..2]
  /\ log \in [Requests -> [Kinds -> 0..2]]
  /\ handler \in [Runs -> {"none", "registered", "gone"}] /\ busy \subseteq Runs
  /\ pc \in [Clients -> Positions]
  /\ seen \in [Clients -> Requests \cup {NoRequest}]
  /\ held \in [Clients -> Requests \cup {NoRequest}]
  /\ target \in [Clients -> Runs \cup {NoRun}]
  /\ onto \in [Clients -> Runs \cup {NoRun}]
  /\ verdict \in [Clients -> {"none", "accepted", "refused"}]
  /\ accepted \in [Runs -> 0..2] /\ steered \in [Runs -> 0..2]
  /\ faults \in Nat

\* A question is handed at most one answer, a permission request at most one
\* decision, however many clients send one and whatever fails: nothing is
\* replayed (AnswerUserInputWithPersistence, ResolvePermission).  A second one
\* would also block its handler for ever on the one-place channel.
OneAnswer == \A q \in Requests : given[q] <= 1 /\ taken[q] <= given[q]

\* What an agent is given was recorded before, under the request it answers.
RecordedBeforeGiven ==
  \A q \in Requests : given[q] > 0 =>
    CASE q \in Async -> log[q]["submitted"] > 0
      [] q \in Blocking -> log[q]["answered"] > 0
      [] q \in Permissions -> log[q]["resolved"] > 0

\* A question is submitted once, and gets one outcome: never answered and
\* failed both, although the reply races the timeout and the end of the run.
OneOutcome ==
  \A q \in Async :
    /\ log[q]["submitted"] <= 1
    /\ log[q]["answered"] + log[q]["failed"] <= log[q]["submitted"]

\* "Persist agent.input.answered only after provider acknowledgement."
AnsweredMeansAccepted ==
  \A q \in Async : log[q]["answered"] > 0 => taken[q] > 0

\* A request its agent waits for can be answered, or a handler has it, or its
\* answer is on its way: none is dropped from the manager's maps or left
\* claimed by nobody.  (A question whose delivery failed is not offered again;
\* the event that says so may be lost.)
WaitingCanBeAnswered ==
  \A q \in Requests :
    asked[q] = "open" /\ Live(owner[q]) /\ owner[q] \notin closed =>
      \/ q \in listed \ answering \/ given[q] > 0 \/ log[q]["failed"] > 0
      \/ \E c \in Clients :
           held[c] = q /\ pc[c] \in {"persist", "check", "deliver", "fail"}
      \/ log[q]["submitted"] > 0 /\ faults < MaxFaults

\* Steering input is in the log of a run only if that run's provider accepted
\* it: not if it was refused, never confirmed, or meant for another run.
SteeredMeansAccepted == \A r \in Runs : steered[r] <= accepted[r]

\* A run is sent one steering input at a time, and a handler that is busy has
\* somebody who will release it.
SteeringExclusive ==
  LET Holders(r) == {c \in Clients : Steering(c) /\ onto[c] = r
                       /\ pc[c] \in {"submit", "verify", "deliver", "sent"}}
  IN \A r \in Runs :
       /\ r \in busy <=> Holders(r) # {}
       /\ \A c, d \in Holders(r) : c = d

\* What clients send counts once and is on record: an answer is recorded before it
\* is given, given once, has one outcome, and what waits can still be answered;
\* steering input counts when its own run took it, one at a time.
InputCounts ==
  /\ OneAnswer /\ RecordedBeforeGiven /\ OneOutcome /\ AnsweredMeansAccepted
  /\ WaitingCanBeAnswered /\ SteeredMeansAccepted /\ SteeringExclusive

\* Every handler responds to its client.
HandlersRespond == \A c \in Clients : pc[c] # "idle" ~> pc[c] = "idle"
-----------------------------------------------------------------------------
(* Why a request is handed one answer, and a run one input at a time: the  *)
(* invariant the theorems are proved from.                                 *)

HandsOver(c) == pc[c] \in {"deliver", "sent"} /\ ~Steering(c)
Seizes(c) == pc[c] \in {"submit", "verify", "deliver", "sent"} /\ Steering(c)

\* What a client holds at each of its positions.
Places ==
  \A c \in Clients :
    /\ pc[c] \in {"idle", "claim", "persist", "check", "record", "resolve"}
         => ~Steering(c)
    /\ pc[c] \in {"seize", "submit", "verify"} => Steering(c)
    /\ pc[c] \in {"idle", "claim", "record", "resolve"} \/ Steering(c)
         => held[c] = NoRequest
    /\ pc[c] = "claim" => seen[c] \in Questions
    /\ pc[c] \in {"persist", "check"} => held[c] \in Questions
    /\ HandsOver(c) => held[c] \in IF pc[c] = "sent" THEN Async ELSE Requests
    /\ Seizes(c) => onto[c] = target[c]

\* Whoever hands a request an answer has taken it out of the manager's maps,
\* and is the only one; the request has not had another.
Handing ==
  /\ \A q \in Requests :
       /\ q \in listed => asked[q] = "open" /\ given[q] = 0
       /\ asked[q] = "no" => given[q] = 0
  /\ \A c \in Clients : pc[c] \in {"persist", "check"} =>
       owner[held[c]] = onto[c] /\ asked[held[c]] # "no"
  /\ \A c \in Clients : HandsOver(c) =>
       /\ held[c] \notin listed /\ asked[held[c]] # "no"
       /\ pc[c] = "deliver" => given[held[c]] = 0
       /\ pc[c] = "sent" /\ verdict[c] = "none" =>
            given[held[c]] = 1 /\ taken[held[c]] = 0
  /\ \A c, d \in Clients :
       HandsOver(c) /\ HandsOver(d) /\ held[c] = held[d] => c = d

\* A busy handler belongs to the one client that steers its run.
Seizing ==
  /\ \A r \in busy : \E c \in Clients : Seizes(c) /\ onto[c] = r
  /\ \A c \in Clients : Seizes(c) => onto[c] \in busy
  /\ \A c, d \in Clients : Seizes(c) /\ Seizes(d) /\ onto[c] = onto[d] => c = d

\* The inductive invariant: places, answers on their way and busy handlers fit
\* together in every reachable state.
IInv == TypeOK /\ Places /\ Handing /\ OneAnswer /\ Seizing
-----------------------------------------------------------------------------
(* What InputCounts needs besides, if a request id is used once: a handler *)
(* then holds the request it has read.                                     *)

DistinctIdsUsed == \A q, x \in Requests : SameKey(q, x) => q = x

\* The event that has to be in the log before a request is given its answer.
Recorded(events, q) ==
  /\ q \in Async => events[q]["submitted"] > 0
  /\ q \in Blocking => events[q]["answered"] > 0
  /\ q \in Permissions => events[q]["resolved"] > 0

\* What a handler holds is what it read; it is recorded before it goes further.
ReadBy(c) ==
  /\ held[c] # NoRequest => held[c] = seen[c]
  /\ verdict[c] # "none" => pc[c] \in {"sent", "confirm", "fail"}
  /\ pc[c] \in {"record", "resolve"} => seen[c] \in Permissions
  /\ pc[c] \in {"confirm", "fail"} /\ ~Steering(c) => held[c] \in Async
  /\ pc[c] \in {"check", "deliver"} /\ ~Steering(c) => Recorded(log, held[c])
  /\ pc[c] = "resolve" => Recorded(log, seen[c])
  /\ pc[c] = "sent" /\ ~Steering(c) => given[held[c]] > 0
Reads == \A c \in Clients : ReadBy(c)

\* A claim is one client's, and for good once it is recorded.
Claims ==
  /\ \A q \in answering : asked[q] # "no"
  /\ \A q \in Async : log[q]["submitted"] > 0 => q \in answering
  /\ \A c \in Clients : held[c] \in Questions => held[c] \in answering
  /\ \A c, d \in Clients : held[c] \in Questions /\ held[c] = held[d] => c = d

\* While its client holds it a question has no outcome yet, but may have an answer
\* the provider has accepted.
UndecidedBy(c) ==
  held[c] \in Async =>
    /\ log[held[c]]["answered"] = 0 /\ log[held[c]]["failed"] = 0
    /\ log[held[c]]["submitted"] = IF pc[c] = "persist" THEN 0 ELSE 1
    /\ pc[c] = "confirm" \/ verdict[c] = "accepted" => taken[held[c]] > 0
Undecided == \A c \in Clients : UndecidedBy(c)

\* What was accepted and is not yet recorded as steered is still somebody's; the
\* counter of accepted inputs tells one from none.
Owes(c, r) ==
  /\ Steering(c) /\ target[c] = r
  /\ pc[c] = "confirm" \/ (pc[c] = "sent" /\ verdict[c] = "accepted")
Owed ==
  \A r \in Runs :
    /\ accepted[r] = 0 => steered[r] = 0 /\ \A c \in Clients : ~Owes(c, r)
    /\ accepted[r] = 1 =>
         /\ steered[r] <= 1
         /\ \A c, d \in Clients : Owes(c, r) /\ Owes(d, r) => c = d
         /\ steered[r] = 1 => \A c \in Clients : ~Owes(c, r)

\* Requests belong to runs that have been registered, and a question stays in the
\* maps, unless its agent closed it, until its handler takes it out.
Offered ==
  /\ faults <= MaxFaults
  /\ active # NoRun => active \in past
  /\ \A q \in Requests : asked[q] # "no" => owner[q] \in past
  /\ \A c \in Clients : pc[c] \in {"persist", "check"} =>
       (asked[held[c]] = "open" => held[c] \in listed)

\* IInv and the parts above: every step of the code preserves it.
CountsInv ==
  /\ IInv /\ Reads /\ Claims /\ Undecided /\ Owed /\ Offered
  /\ RecordedBeforeGiven /\ OneOutcome /\ AnsweredMeansAccepted
  /\ WaitingCanBeAnswered
=============================================================================
