-------------------------- MODULE InputBrokerProofs --------------------------
(***************************************************************************)
(* No request is handed a second answer and no run is sent two steering    *)
(* inputs at a time, for any number of runs, requests and clients and any  *)
(* request ids.  One lemma per action that touches a request or a client.  *)
(* If no id is used again, the log also agrees with what the agents took,  *)
(* and no open request is out of reach (the second half).                  *)
(***************************************************************************)
EXTENDS InputBroker, TLAPS

\* An event counts in the log of its request.
LEMMA EventType ==
  ASSUME NEW q, NEW kind, log \in [Requests -> [Kinds -> 0..2]], Event(q, kind)
  PROVE  log' \in [Requests -> [Kinds -> 0..2]]
<1>1. \A n \in 0..2 : Sat(n) \in 0..2
  BY DEF Sat
<1>2. [log[q] EXCEPT ![kind] = Sat(@)] \in [Kinds -> 0..2] \/ q \notin Requests
  BY <1>1
<1> QED BY <1>2 DEF Event

\* Under an id there are listed requests of the kind that is asked for.
LEMMA EntryKind ==
  ASSUME BrokerAssumption, listed \subseteq Requests, NEW r, NEW q
  PROVE  /\ Entry(r, q) \subseteq listed
         /\ q \in Questions => Entry(r, q) \subseteq Questions
         /\ \A x \in Entry(r, q) : owner[x] = r
         /\ q \in listed /\ owner[q] = r => q \in Entry(r, q)
BY DEF Entry, SameKey, Requests

\* Ask preserves IInv: a request that was never asked has had no answer.
LEMMA AskStep ==
  ASSUME IInv, NEW q \in Requests, Ask(q)
  PROVE  IInv'
<1> USE BrokerAssumption DEF IInv, Ask, Steering, runVars, steeringVars,
      clientVars
<1>1. TypeOK'
  BY DEF TypeOK
<1>2. Places'
  BY DEF Places, HandsOver, Seizes
<1>3. Handing'
  BY DEF TypeOK, Handing, HandsOver
<1>4. OneAnswer'
  BY DEF OneAnswer
<1>5. Seizing'
  BY DEF Seizing, Seizes
<1> QED BY <1>1, <1>2, <1>3, <1>4, <1>5

\* TakeAnswer preserves IInv: the agent takes the answer it was given.
LEMMA TakeAnswerStep ==
  ASSUME IInv, NEW q \in Requests, TakeAnswer(q)
  PROVE  IInv'
<1> USE BrokerAssumption DEF Requests, IInv, TakeAnswer, Steering, Sat,
      runVars, steeringVars, clientVars
<1>1. TypeOK'
  BY DEF TypeOK
<1>2. Places'
  BY DEF Places, HandsOver, Seizes
<1>3. Handing'
  BY DEF Places, Handing, HandsOver
<1>4. OneAnswer'
  BY DEF TypeOK, OneAnswer
<1>5. Seizing'
  BY DEF Seizing, Seizes
<1> QED BY <1>1, <1>2, <1>3, <1>4, <1>5

\* Close preserves IInv: a request leaves the maps.
LEMMA CloseStep ==
  ASSUME IInv, NEW q \in Requests, Close(q)
  PROVE  IInv'
<1> USE BrokerAssumption DEF IInv, Close, Steering, runVars, steeringVars,
      clientVars
<1>1. TypeOK'
  BY DEF TypeOK
<1>2. Places'
  BY DEF Places, HandsOver, Seizes
<1>3. Handing'
  BY DEF Handing, HandsOver
<1>4. OneAnswer'
  BY DEF OneAnswer
<1>5. Seizing'
  BY DEF Seizing, Seizes
<1> QED BY <1>1, <1>2, <1>3, <1>4, <1>5

\* Look preserves IInv: a client reads a request and holds nothing yet.
LEMMA LookStep ==
  ASSUME IInv, NEW c \in Clients, NEW q \in Requests, Look(c, q)
  PROVE  IInv'
<1> USE BrokerAssumption DEF Requests, IInv, Look, Goto, Steering, runVars,
      requestVars, steeringVars
<1>1. TypeOK'
  BY DEF TypeOK, Positions
<1>2. Places'
  BY DEF TypeOK, Places, HandsOver, Seizes
<1>3. Handing'
  BY DEF Handing, HandsOver
<1>4. OneAnswer'
  BY DEF OneAnswer
<1>5. Seizing'
  BY DEF Seizing, Seizes
<1> QED BY <1>1, <1>2, <1>3, <1>4, <1>5

\* Claim preserves IInv: a client takes up a question, or responds.
LEMMA ClaimStep ==
  ASSUME IInv, NEW c \in Clients, Claim(c)
  PROVE  IInv'
<1> USE BrokerAssumption DEF IInv, Goto, Steering, Respond, runVars,
      steeringVars
<1>1. pc[c] = "claim" /\ seen[c] \in Questions /\ listed \subseteq Requests
  BY DEF Claim, Places, TypeOK
<1>2. /\ Entry(active, seen[c]) \subseteq Questions \cap listed
      /\ \A q \in Entry(active, seen[c]) : owner[q] = active
  BY <1>1, EntryKind
<1>3. ASSUME NEW q \in Entry(active, seen[c]) \ answering,
             answering' = answering \cup {q},
             held' = [held EXCEPT ![c] = q],
             onto' = [onto EXCEPT ![c] = active],
             Goto(c, "persist"), UNCHANGED <<seen, target, verdict>>,
             UNCHANGED <<runVars, owner, asked, listed, given, taken, log,
                         steeringVars, faults>>
      PROVE  IInv'
  <2>1. TypeOK'
    BY <1>1, <1>2, <1>3 DEF TypeOK, Positions
  <2>2. Places'
    BY <1>1, <1>2, <1>3 DEF TypeOK, Places, HandsOver, Seizes
  <2>3. Handing'
    BY <1>1, <1>2, <1>3 DEF TypeOK, Handing, HandsOver
  <2>4. OneAnswer'
    BY <1>1, <1>2, <1>3 DEF OneAnswer
  <2>5. Seizing'
    BY <1>1, <1>2, <1>3 DEF Seizing, Seizes
  <2> QED BY <2>1, <2>2, <2>3, <2>4, <2>5
<1>4. ASSUME Respond(c), UNCHANGED answering,
             UNCHANGED <<runVars, owner, asked, listed, given, taken, log,
                         steeringVars, faults>>
      PROVE  IInv'
  <2>1. TypeOK'
    BY <1>1, <1>4 DEF TypeOK, Positions
  <2>2. Places'
    BY <1>1, <1>4 DEF TypeOK, Places, HandsOver, Seizes
  <2>3. Handing'
    BY <1>1, <1>4 DEF Handing, HandsOver
  <2>4. OneAnswer'
    BY <1>1, <1>4 DEF OneAnswer
  <2>5. Seizing'
    BY <1>1, <1>4 DEF Seizing, Seizes
  <2> QED BY <2>1, <2>2, <2>3, <2>4, <2>5
<1> QED BY <1>3, <1>4 DEF Claim

\* Persist preserves IInv: the claim is kept or given up; nothing is handed over.
LEMMA PersistStep ==
  ASSUME IInv, NEW c \in Clients, Persist(c)
  PROVE  IInv'
<1> USE BrokerAssumption DEF IInv, Persist, Goto, Steering, Respond, Works,
      Fails, runVars, steeringVars, jobVars
<1>1. TypeOK'
  <2>1. log' \in [Requests -> [Kinds -> 0..2]]
    BY EventType DEF TypeOK
  <2>2. faults' \in Nat
    BY DEF TypeOK
  <2>3. pc' \in [Clients -> Positions]
    BY DEF TypeOK, Positions
  <2> QED BY <2>1, <2>2, <2>3 DEF TypeOK
<1>2. Places'
  BY DEF TypeOK, Places, HandsOver, Seizes
<1>3. Handing'
  <2>1. CASE Goto(c, "check") /\ UNCHANGED <<answering, jobVars>>
    BY <2>1 DEF Handing, HandsOver
  <2>2. CASE Respond(c)
    BY <2>2 DEF TypeOK, Handing, HandsOver
  <2> QED BY <2>1, <2>2
<1>4. OneAnswer'
  BY DEF OneAnswer
<1>5. Seizing'
  <2>1. CASE Goto(c, "check") /\ UNCHANGED <<answering, jobVars>>
    BY <2>1 DEF Seizing, Seizes
  <2>2. CASE Respond(c)
    BY <2>2 DEF Seizing, Seizes
  <2> QED BY <2>1, <2>2
<1> QED BY <1>1, <1>2, <1>3, <1>4, <1>5

\* Check preserves IInv: the request leaves the maps before it can be handed an answer.
LEMMA CheckStep ==
  ASSUME IInv, NEW c \in Clients, Check(c)
  PROVE  IInv'
<1> USE BrokerAssumption DEF Requests, IInv, Goto, Steering, Respond, runVars,
      steeringVars, jobVars
<1>1. pc[c] = "check" /\ owner[held[c]] = onto[c] /\ held[c] \in Requests
  BY DEF Check, Places, Handing
<1>2. listed' = listed \ Entry(onto[c], held[c])
  BY DEF Check
<1>3. listed' \subseteq listed /\ held[c] \notin listed'
  BY <1>1, <1>2, EntryKind DEF TypeOK
<1>4. /\ UNCHANGED <<runVars, owner, asked, answering, given, taken, log,
                     steeringVars, faults>>
  BY DEF Check
<1>5. ASSUME held[c] \in listed, Goto(c, "deliver"), UNCHANGED jobVars
      PROVE  IInv'
  <2>1. TypeOK'
    BY <1>1, <1>3, <1>4, <1>5 DEF TypeOK, Positions
  <2>2. Places'
    BY <1>1, <1>3, <1>4, <1>5 DEF Places, HandsOver, Seizes
  <2>3. Handing'
    BY <1>1, <1>3, <1>4, <1>5 DEF Handing, HandsOver
  <2>4. OneAnswer'
    BY <1>1, <1>3, <1>4, <1>5 DEF OneAnswer
  <2>5. Seizing'
    BY <1>1, <1>3, <1>4, <1>5 DEF Places, Seizing, Seizes
  <2> QED BY <2>1, <2>2, <2>3, <2>4, <2>5
<1>6. ASSUME Goto(c, "fail"), UNCHANGED jobVars
      PROVE  IInv'
  <2>1. TypeOK'
    BY <1>1, <1>3, <1>4, <1>6 DEF TypeOK, Positions
  <2>2. Places'
    BY <1>1, <1>3, <1>4, <1>6 DEF Places, HandsOver, Seizes
  <2>3. Handing'
    BY <1>1, <1>3, <1>4, <1>6 DEF Handing, HandsOver
  <2>4. OneAnswer'
    BY <1>1, <1>3, <1>4, <1>6 DEF OneAnswer
  <2>5. Seizing'
    BY <1>1, <1>3, <1>4, <1>6 DEF Seizing, Seizes
  <2> QED BY <2>1, <2>2, <2>3, <2>4, <2>5
<1>7. ASSUME Respond(c)
      PROVE  IInv'
  <2>1. TypeOK'
    BY <1>1, <1>3, <1>4, <1>7 DEF TypeOK, Positions
  <2>2. Places'
    BY <1>1, <1>3, <1>4, <1>7 DEF TypeOK, Places, HandsOver, Seizes
  <2>3. Handing'
    BY <1>1, <1>3, <1>4, <1>7 DEF TypeOK, Handing, HandsOver
  <2>4. OneAnswer'
    BY <1>1, <1>3, <1>4, <1>7 DEF OneAnswer
  <2>5. Seizing'
    BY <1>1, <1>3, <1>4, <1>7 DEF Seizing, Seizes
  <2> QED BY <2>1, <2>2, <2>3, <2>4, <2>5
<1> QED BY <1>5, <1>6, <1>7 DEF Check

\* DeliverBlocking preserves IInv: the one client that took the request out of the maps hands the answer over.
LEMMA DeliverBlockingStep ==
  ASSUME IInv, NEW c \in Clients, DeliverBlocking(c)
  PROVE  IInv'
<1> USE BrokerAssumption DEF IInv, DeliverBlocking, Goto, Steering, Respond,
      Sat, runVars, steeringVars
<1>1. TypeOK'
  BY DEF TypeOK, Positions
<1>2. Places'
  BY DEF TypeOK, Places, HandsOver, Seizes
<1>3. Handing'
  BY DEF TypeOK, Places, Handing, HandsOver
<1>4. OneAnswer'
  BY DEF Places, Handing, HandsOver, OneAnswer
<1>5. Seizing'
  BY DEF Places, Seizing, Seizes
<1> QED BY <1>1, <1>2, <1>3, <1>4, <1>5

\* RecordDecision preserves IInv: a decision is recorded; nothing is held.
LEMMA RecordDecisionStep ==
  ASSUME IInv, NEW c \in Clients, RecordDecision(c)
  PROVE  IInv'
<1> USE BrokerAssumption DEF IInv, RecordDecision, Goto, Steering, Respond,
      Works, Fails, runVars, steeringVars, jobVars
<1>1. TypeOK'
  <2>1. log' \in [Requests -> [Kinds -> 0..2]]
    BY EventType DEF TypeOK
  <2>2. faults' \in Nat
    BY DEF TypeOK
  <2>3. pc' \in [Clients -> Positions]
    BY DEF TypeOK, Positions
  <2> QED BY <2>1, <2>2, <2>3 DEF TypeOK
<1>2. Places'
  BY DEF TypeOK, Places, HandsOver, Seizes
<1>3. Handing'
  <2>1. CASE Goto(c, "resolve") /\ UNCHANGED jobVars
    BY <2>1 DEF Handing, HandsOver
  <2>2. CASE Respond(c)
    BY <2>2 DEF Handing, HandsOver
  <2> QED BY <2>1, <2>2
<1>4. OneAnswer'
  BY DEF OneAnswer
<1>5. Seizing'
  <2>1. CASE Goto(c, "resolve") /\ UNCHANGED jobVars
    BY <2>1 DEF Seizing, Seizes
  <2>2. CASE Respond(c)
    BY <2>2 DEF Seizing, Seizes
  <2> QED BY <2>1, <2>2
<1> QED BY <1>1, <1>2, <1>3, <1>4, <1>5

\* Resolve preserves IInv: the request leaves the maps together with the decision to answer it.
LEMMA ResolveStep ==
  ASSUME IInv, NEW c \in Clients, Resolve(c)
  PROVE  IInv'
<1> USE BrokerAssumption DEF IInv, Goto, Steering, Respond, runVars,
      steeringVars
<1>1. pc[c] = "resolve"
  BY DEF Resolve
<1>2. Entry(active, seen[c]) \subseteq listed /\ listed \subseteq Requests
  BY EntryKind DEF TypeOK
<1>3. ASSUME NEW q \in Entry(active, seen[c]), listed' = listed \ {q},
             held' = [held EXCEPT ![c] = q], Goto(c, "deliver"),
             UNCHANGED <<seen, target, onto, verdict>>,
             UNCHANGED <<runVars, owner, asked, answering, given, taken, log,
                         steeringVars, faults>>
      PROVE  IInv'
  <2>1. TypeOK'
    BY <1>1, <1>2, <1>3 DEF TypeOK, Positions
  <2>2. Places'
    BY <1>1, <1>2, <1>3 DEF TypeOK, Places, HandsOver, Seizes
  <2>3. Handing'
    BY <1>1, <1>2, <1>3 DEF TypeOK, Handing, HandsOver
  <2>4. OneAnswer'
    BY <1>1, <1>2, <1>3 DEF OneAnswer
  <2>5. Seizing'
    BY <1>1, <1>2, <1>3 DEF Places, Seizing, Seizes
  <2> QED BY <2>1, <2>2, <2>3, <2>4, <2>5
<1>4. ASSUME Respond(c), UNCHANGED listed,
             UNCHANGED <<runVars, owner, asked, answering, given, taken, log,
                         steeringVars, faults>>
      PROVE  IInv'
  <2>1. TypeOK'
    BY <1>1, <1>4 DEF TypeOK, Positions
  <2>2. Places'
    BY <1>1, <1>4 DEF Places, HandsOver, Seizes
  <2>3. Handing'
    BY <1>1, <1>4 DEF Handing, HandsOver
  <2>4. OneAnswer'
    BY <1>1, <1>4 DEF OneAnswer
  <2>5. Seizing'
    BY <1>1, <1>4 DEF Seizing, Seizes
  <2> QED BY <2>1, <2>2, <2>3, <2>4, <2>5
<1> QED BY <1>3, <1>4 DEF Resolve

\* Steer preserves IInv: a client names a run.
LEMMA SteerStep ==
  ASSUME IInv, NEW c \in Clients, NEW r \in Runs, Steer(c, r)
  PROVE  IInv'
<1> USE BrokerAssumption DEF IInv, Steer, Goto, Steering, runVars,
      requestVars, steeringVars
<1>1. TypeOK'
  BY DEF TypeOK, Positions
<1>2. Places'
  BY DEF TypeOK, Places, HandsOver, Seizes
<1>3. Handing'
  BY DEF Handing, HandsOver
<1>4. OneAnswer'
  BY DEF OneAnswer
<1>5. Seizing'
  BY DEF Seizing, Seizes
<1> QED BY <1>1, <1>2, <1>3, <1>4, <1>5

\* Seize preserves IInv: the handler was not busy, so nobody steers the run yet.
LEMMA SeizeStep ==
  ASSUME IInv, NEW c \in Clients, Seize(c)
  PROVE  IInv'
<1> USE BrokerAssumption DEF Requests, Questions, IInv, Seize, Goto, Steering,
      Respond, Live, Steerable, runVars, requestVars
<1>1. TypeOK'
  BY DEF TypeOK, Positions
<1>2. Places'
  BY DEF TypeOK, Places, HandsOver, Seizes
<1>3. Handing'
  BY DEF TypeOK, Handing, HandsOver
<1>4. OneAnswer'
  BY DEF OneAnswer
<1>5. Seizing'
  <2>1. CASE Goto(c, "submit")
    BY <2>1 DEF TypeOK, Seizing, Seizes
  <2>2. CASE Respond(c) /\ UNCHANGED busy
    BY <2>2 DEF Seizing, Seizes
  <2> QED BY <2>1, <2>2
<1> QED BY <1>1, <1>2, <1>3, <1>4, <1>5

\* Submit preserves IInv: the client keeps the handler or lets go of it.
LEMMA SubmitStep ==
  ASSUME IInv, NEW c \in Clients, Submit(c)
  PROVE  IInv'
<1> USE BrokerAssumption DEF Requests, IInv, Submit, Goto, Steering, Respond,
      Works, Fails, runVars, requestVars, jobVars
<1>1. TypeOK'
  <2>1. faults' \in Nat
    BY DEF TypeOK
  <2>2. pc' \in [Clients -> Positions] /\ busy' \subseteq Runs
    BY DEF TypeOK, Positions
  <2>3. /\ seen' \in [Clients -> Requests \cup {NoRequest}]
        /\ held' \in [Clients -> Requests \cup {NoRequest}]
        /\ target' \in [Clients -> Runs \cup {NoRun}]
        /\ onto' \in [Clients -> Runs \cup {NoRun}]
        /\ verdict' \in [Clients -> {"none", "accepted", "refused"}]
    BY SMTT(30) DEF TypeOK
  <2> QED BY <2>1, <2>2, <2>3 DEF TypeOK
<1>2. Places'
  BY DEF TypeOK, Places, HandsOver, Seizes
<1>3. Handing'
  BY SMTT(30) DEF TypeOK, Places, Handing, HandsOver, OneAnswer
<1>4. OneAnswer'
  BY DEF OneAnswer
<1>5. Seizing'
  <2>1. CASE Goto(c, "verify") /\ UNCHANGED <<busy, jobVars>>
    BY <2>1 DEF Seizing, Seizes
  <2>2. CASE busy' = busy \ {onto[c]} /\ Respond(c)
    BY <2>2 DEF TypeOK, Places, Seizing, Seizes
  <2> QED BY <2>1, <2>2
<1> QED BY <1>1, <1>2, <1>3, <1>4, <1>5

\* Verify preserves IInv: the client keeps the handler or lets go of it.
LEMMA VerifyStep ==
  ASSUME IInv, NEW c \in Clients, Verify(c)
  PROVE  IInv'
<1> USE BrokerAssumption DEF Requests, Questions, IInv, Verify, Goto,
      Steering, runVars, requestVars, jobVars
<1>1. TypeOK'
  BY DEF TypeOK, Positions
<1>2. Places'
  BY DEF TypeOK, Places, HandsOver, Seizes
<1>3. Handing'
  BY DEF TypeOK, Places, Handing, HandsOver
<1>4. OneAnswer'
  BY DEF OneAnswer
<1>5. Seizing'
  BY DEF TypeOK, Places, Seizing, Seizes
<1> QED BY <1>1, <1>2, <1>3, <1>4, <1>5

\* Send preserves IInv: an answer goes to the provider, from the one client that has it.
LEMMA SendStep ==
  ASSUME IInv, NEW c \in Clients, Send(c)
  PROVE  IInv'
<1> USE BrokerAssumption DEF Requests, Questions, IInv, Send, Goto, Steering,
      Live, LetGo, Sat, runVars, jobVars
<1>1. TypeOK'
  BY DEF TypeOK, Positions
<1>2. Places'
  BY DEF TypeOK, Places, HandsOver, Seizes
<1>3. Handing'
  <2>1. CASE Goto(c, "sent") /\ Steering(c)
    BY <2>1 DEF Handing, HandsOver
  <2>2. CASE Goto(c, "sent") /\ ~Steering(c)
    <3>1. HandsOver(c) /\ given' = [given EXCEPT ![held[c]] = 1]
      BY <2>2 DEF TypeOK, Handing, HandsOver
    <3> QED BY <2>2, <3>1 DEF TypeOK, Handing, HandsOver, OneAnswer
  <2>3. CASE Goto(c, "fail") /\ UNCHANGED given
    BY <2>3 DEF Handing, HandsOver
  <2> QED BY <2>1, <2>2, <2>3
<1>4. OneAnswer'
  <2>1. CASE UNCHANGED given
    BY <2>1 DEF OneAnswer
  <2>2. CASE ~Steering(c) /\ given' = [given EXCEPT ![held[c]] = Sat(@)]
    <3>1. held[c] \in Requests /\ given[held[c]] = 0
      BY <2>2 DEF Handing, HandsOver
    <3> QED BY <2>2, <3>1 DEF TypeOK, OneAnswer
  <2> QED BY <2>1, <2>2
<1>5. Seizing'
  BY DEF TypeOK, Places, Seizing, Seizes
<1> QED BY <1>1, <1>2, <1>3, <1>4, <1>5

\* ProviderReplies preserves IInv: the provider accepts an answer at most once, as it replies once.
LEMMA ProviderRepliesStep ==
  ASSUME IInv, NEW c \in Clients, NEW reply \in {"accepted", "refused"}, ProviderReplies(c, reply)
  PROVE  IInv'
<1> USE BrokerAssumption DEF Requests, Questions, IInv, ProviderReplies,
      Steering, Sat, runVars
<1>1. TypeOK'
  BY DEF TypeOK
<1>2. Places'
  BY DEF Places, HandsOver, Seizes
<1>3. Handing'
  <2>1. CASE Steering(c)
    BY <2>1 DEF Handing, HandsOver
  <2>2. CASE ~Steering(c)
    <3>1. HandsOver(c) /\ verdict'[c] # "none"
      BY <2>2 DEF TypeOK, HandsOver
    <3> QED BY <2>2, <3>1 DEF TypeOK, Places, Handing, HandsOver
  <2> QED BY <2>1, <2>2
<1>4. OneAnswer'
  <2>1. CASE UNCHANGED taken
    BY <2>1 DEF OneAnswer
  <2>2. CASE ~Steering(c) /\ taken' = [taken EXCEPT ![held[c]] = Sat(@)]
    <3>1. /\ held[c] \in Requests
          /\ given[held[c]] = 1 /\ taken[held[c]] = 0
      BY <2>2 DEF Places, Handing, HandsOver
    <3> QED BY <2>2, <3>1 DEF TypeOK, OneAnswer
  <2> QED BY <2>1, <2>2 DEF TypeOK
<1>5. Seizing'
  BY DEF Seizing, Seizes
<1> QED BY <1>1, <1>2, <1>3, <1>4, <1>5

\* Returns preserves IInv: the client lets go of what it delivered.
LEMMA ReturnsStep ==
  ASSUME IInv, NEW c \in Clients, Returns(c)
  PROVE  IInv'
<1> USE BrokerAssumption DEF Requests, Questions, IInv, Returns, Goto,
      Steering, LetGo, runVars, requestVars, jobVars
<1>1. TypeOK'
  BY DEF TypeOK, Positions
<1>2. Places'
  BY DEF TypeOK, Places, HandsOver, Seizes
<1>3. Handing'
  BY SMTT(30) DEF TypeOK, Handing, HandsOver
<1>4. OneAnswer'
  BY DEF OneAnswer
<1>5. Seizing'
  BY DEF TypeOK, Places, Seizing, Seizes
<1> QED BY <1>1, <1>2, <1>3, <1>4, <1>5

\* Confirm preserves IInv: the client responds.
LEMMA ConfirmStep ==
  ASSUME IInv, NEW c \in Clients, Confirm(c)
  PROVE  IInv'
<1> USE BrokerAssumption DEF Requests, IInv, Confirm, Goto, Steering, Respond,
      Works, Fails, Sat, runVars
<1>1. TypeOK'
  <2>1. log' \in [Requests -> [Kinds -> 0..2]]
    BY EventType DEF TypeOK
  <2> QED BY <2>1 DEF TypeOK, Positions
<1>2. Places'
  BY DEF TypeOK, Places, HandsOver, Seizes
<1>3. Handing'
  BY DEF Handing, HandsOver
<1>4. OneAnswer'
  BY DEF OneAnswer
<1>5. Seizing'
  BY DEF Seizing, Seizes
<1> QED BY <1>1, <1>2, <1>3, <1>4, <1>5

\* Fail preserves IInv: the client responds.
LEMMA FailStep ==
  ASSUME IInv, NEW c \in Clients, Fail(c)
  PROVE  IInv'
<1> USE BrokerAssumption DEF IInv, Fail, Goto, Steering, Respond, Works,
      Fails, runVars, steeringVars
<1>1. TypeOK'
  <2>1. log' \in [Requests -> [Kinds -> 0..2]]
    BY EventType DEF TypeOK
  <2> QED BY <2>1 DEF TypeOK, Positions
<1>2. Places'
  BY DEF TypeOK, Places, HandsOver, Seizes
<1>3. Handing'
  BY DEF Handing, HandsOver
<1>4. OneAnswer'
  BY DEF OneAnswer
<1>5. Seizing'
  BY DEF Seizing, Seizes
<1> QED BY <1>1, <1>2, <1>3, <1>4, <1>5

\* The other steps of the run and its agent change no request and no client.
LEMMA Frame ==
  ASSUME IInv, TypeOK', UNCHANGED <<requestVars, busy, clientVars>>
  PROVE  IInv'
<1> USE DEF IInv, requestVars, clientVars, Steering
<1>1. Places'
  BY DEF Places, HandsOver, Seizes
<1>2. Handing' /\ OneAnswer'
  BY DEF Handing, HandsOver, OneAnswer
<1>3. Seizing'
  BY DEF Seizing, Seizes
<1> QED BY <1>1, <1>2, <1>3

\* Every step preserves IInv.
LEMMA NextInvariant == IInv /\ [Next]_vars => IInv'
<1> SUFFICES ASSUME IInv, [Next]_vars PROVE IInv'
  OBVIOUS
<1>1. ASSUME NEW q \in Requests, Ask(q) PROVE IInv'
  BY <1>1, AskStep
<1>2. ASSUME NEW q \in Requests, TakeAnswer(q) PROVE IInv'
  BY <1>2, TakeAnswerStep
<1>3. ASSUME NEW q \in Requests, Close(q) PROVE IInv'
  BY <1>3, CloseStep
<1>4. ASSUME NEW c \in Clients, NEW q \in Requests, Look(c, q) PROVE IInv'
  BY <1>4, LookStep
<1>5. ASSUME NEW c \in Clients, Claim(c) PROVE IInv'
  BY <1>5, ClaimStep
<1>6. ASSUME NEW c \in Clients, Persist(c) PROVE IInv'
  BY <1>6, PersistStep
<1>7. ASSUME NEW c \in Clients, Check(c) PROVE IInv'
  BY <1>7, CheckStep
<1>8. ASSUME NEW c \in Clients, DeliverBlocking(c) PROVE IInv'
  BY <1>8, DeliverBlockingStep
<1>9. ASSUME NEW c \in Clients, RecordDecision(c) PROVE IInv'
  BY <1>9, RecordDecisionStep
<1>10. ASSUME NEW c \in Clients, Resolve(c) PROVE IInv'
  BY <1>10, ResolveStep
<1>11. ASSUME NEW c \in Clients, NEW r \in Runs, Steer(c, r) PROVE IInv'
  BY <1>11, SteerStep
<1>12. ASSUME NEW c \in Clients, Seize(c) PROVE IInv'
  BY <1>12, SeizeStep
<1>13. ASSUME NEW c \in Clients, Submit(c) PROVE IInv'
  BY <1>13, SubmitStep
<1>14. ASSUME NEW c \in Clients, Verify(c) PROVE IInv'
  BY <1>14, VerifyStep
<1>15. ASSUME NEW c \in Clients, Send(c) PROVE IInv'
  BY <1>15, SendStep
<1>16. ASSUME NEW c \in Clients, NEW reply \in {"accepted", "refused"}, ProviderReplies(c, reply) PROVE IInv'
  BY <1>16, ProviderRepliesStep
<1>17. ASSUME NEW c \in Clients, Returns(c) PROVE IInv'
  BY <1>17, ReturnsStep
<1>18. ASSUME NEW c \in Clients, Confirm(c) PROVE IInv'
  BY <1>18, ConfirmStep
<1>19. ASSUME NEW c \in Clients, Fail(c) PROVE IInv'
  BY <1>19, FailStep
<1>20. ASSUME NEW r \in Runs, Register(r) PROVE IInv'
  <2>1. TypeOK'
    BY <1>20, BrokerAssumption DEF IInv, TypeOK, Register, requestVars,
       steeringVars, clientVars
  <2> QED BY <2>1, <1>20, Frame DEF Register, steeringVars
<1>21. ASSUME Cancel PROVE IInv'
  <2>1. TypeOK'
    BY <1>21, BrokerAssumption DEF IInv, TypeOK, Cancel, requestVars,
       steeringVars, clientVars
  <2> QED BY <2>1, <1>21, Frame DEF Cancel, steeringVars
<1>22. ASSUME NEW r \in Runs, RegisterSteering(r) PROVE IInv'
  <2>1. TypeOK'
    BY <1>22, BrokerAssumption DEF IInv, TypeOK, RegisterSteering, runVars,
       requestVars, clientVars
  <2> QED BY <2>1, <1>22, Frame DEF RegisterSteering
<1>23. ASSUME NEW r \in Runs, UnregisterSteering(r) PROVE IInv'
  <2>1. TypeOK'
    BY <1>23, BrokerAssumption DEF IInv, TypeOK, UnregisterSteering, runVars,
       requestVars, clientVars
  <2> QED BY <2>1, <1>23, Frame DEF UnregisterSteering
<1>24. ASSUME CloseAgent PROVE IInv'
  <2>1. TypeOK'
    BY <1>24, BrokerAssumption DEF IInv, TypeOK, CloseAgent, requestVars,
       steeringVars, clientVars
  <2> QED BY <2>1, <1>24, Frame DEF CloseAgent, steeringVars
<1>25. ASSUME Settle PROVE IInv'
  <2>1. TypeOK'
    BY <1>25, BrokerAssumption DEF IInv, TypeOK, Settle, requestVars,
       steeringVars, clientVars
  <2> QED BY <2>1, <1>25, Frame DEF Settle, steeringVars
<1>26. ASSUME Cleanup PROVE IInv'
  <2>1. TypeOK'
    BY <1>26, BrokerAssumption DEF IInv, TypeOK, Cleanup, requestVars,
       steeringVars, clientVars
  <2> QED BY <2>1, <1>26, Frame DEF Cleanup, steeringVars
<1>27. CASE UNCHANGED vars
  <2>1. TypeOK'
    BY <1>27 DEF IInv, TypeOK, vars
  <2> QED BY <2>1, <1>27, Frame DEF vars, requestVars, clientVars
<1> QED BY <1>1, <1>2, <1>3, <1>4, <1>5, <1>6, <1>7, <1>8, <1>9, <1>10, <1>11,
      <1>12, <1>13, <1>14, <1>15, <1>16, <1>17, <1>18, <1>19, <1>20, <1>21,
      <1>22, <1>23, <1>24, <1>25, <1>26, <1>27 DEF Next, AgentStep, RunStep,
      ClientStep

\* At first nobody holds anything.
LEMMA InitInvariant == Init => IInv
<1> SUFFICES ASSUME Init PROVE IInv
  OBVIOUS
<1> USE BrokerAssumption DEF Init, Steering
<1>1. TypeOK
  <2>1. log \in [Requests -> [Kinds -> 0..2]]
    OBVIOUS
  <2>2. /\ owner \in [Requests -> Runs \cup {NoRun}]
        /\ asked \in [Requests -> {"no", "open", "closed"}]
        /\ listed \subseteq Requests /\ answering \subseteq Questions
        /\ given \in [Requests -> 0..2] /\ taken \in [Requests -> 0..2]
    OBVIOUS
  <2>3. pc \in [Clients -> Positions]
    BY DEF Positions
  <2>4. /\ seen \in [Clients -> Requests \cup {NoRequest}]
        /\ held \in [Clients -> Requests \cup {NoRequest}]
        /\ target \in [Clients -> Runs \cup {NoRun}]
        /\ onto \in [Clients -> Runs \cup {NoRun}]
        /\ verdict \in [Clients -> {"none", "accepted", "refused"}]
    OBVIOUS
  <2>5. /\ status \in {"running", "idle"} /\ cancelled \in BOOLEAN
        /\ active \in Runs \cup {NoRun} /\ past \subseteq Runs
        /\ closed \subseteq Runs /\ busy \subseteq Runs /\ faults \in Nat
    OBVIOUS
  <2>6. /\ handler \in [Runs -> {"none", "registered", "gone"}]
        /\ accepted \in [Runs -> 0..2] /\ steered \in [Runs -> 0..2]
    OBVIOUS
  <2> QED BY <2>1, <2>2, <2>3, <2>4, <2>5, <2>6 DEF TypeOK
<1>2. Places
  BY DEF Places, HandsOver
<1>3. Handing /\ OneAnswer
  BY DEF Handing, HandsOver, OneAnswer
<1>4. Seizing
  BY DEF Seizing, Seizes
<1> QED BY <1>1, <1>2, <1>3, <1>4 DEF IInv

\* IInv holds in every reachable state.
THEOREM Invariance == Spec => []IInv
<1> QED BY InitInvariant, NextInvariant, PTL DEF Spec

\* Every variable has its type.
THEOREM TypeCorrect == Spec => []TypeOK
<1>1. IInv => TypeOK
  BY DEF IInv
<1> QED BY <1>1, Invariance, PTL

\* No question is handed a second answer and no permission request a second
\* decision, whoever sends one, whatever fails and however ids are used.
THEOREM AnswersOnce == Spec => []OneAnswer
<1>1. IInv => OneAnswer
  BY DEF IInv
<1> QED BY <1>1, Invariance, PTL

\* A run is sent one steering input at a time, and its handler is busy exactly
\* while somebody holds it.
THEOREM SteersOneAtATime == Spec => []SteeringExclusive
<1>1. IInv => SteeringExclusive
  <2> SUFFICES ASSUME IInv PROVE SteeringExclusive
    OBVIOUS
  <2> QED BY DEF IInv, Seizing, Seizes, SteeringExclusive
<1> QED BY <1>1, Invariance, PTL
-----------------------------------------------------------------------------
(* What the log says of requests, if no id is used again.  Each part of    *)
(* CountsInv is kept by every step, given IInv and itself.                 *)

\* An event adds to the count of its kind, of its request, and to no other.
LEMMA LogEvent ==
  ASSUME NEW q \in Requests, NEW kind \in Kinds, log \in [Requests -> [Kinds -> 0..2]],
         Event(q, kind)
  PROVE  \A x \in Requests, k \in Kinds :
           log'[x][k] = IF x = q /\ k = kind THEN Sat(log[x][k]) ELSE log[x][k]
BY DEF Event

\* Under an id used once there is at most the one request.
LEMMA OneEntry ==
  ASSUME DistinctIdsUsed, listed \subseteq Requests, NEW r, NEW q \in Requests
  PROVE  \A x \in Entry(r, q) : x = q /\ x \in listed /\ owner[x] = r
BY DEF Entry, DistinctIdsUsed

\* Which event a handler's write adds, if it adds one.
Adds(q, kind) ==
  \A x \in Requests, k \in Kinds :
    log'[x][k] = IF x = q /\ k = kind THEN Sat(log[x][k]) ELSE log[x][k]

\* An event once counted stays counted.
LEMMA AddingKeeps ==
  ASSUME IInv, NEW q, NEW kind, Adds(q, kind)
  PROVE  \A x \in Requests, k \in Kinds : log[x][k] > 0 => log'[x][k] > 0
<1> SUFFICES ASSUME NEW x \in Requests, NEW k \in Kinds, log[x][k] > 0
             PROVE  log'[x][k] > 0
  OBVIOUS
<1>1. log'[x][k] = Sat(log[x][k]) \/ log'[x][k] = log[x][k]
  BY DEF Adds
<1>2. log[x][k] \in 0..2
  BY DEF IInv, TypeOK
<1> QED BY <1>1, <1>2 DEF Sat

\* A claimed question is recorded, or the claim is given up.
LEMMA PersistAdds ==
  ASSUME IInv, Reads, NEW c \in Clients, Persist(c)
  PROVE  /\ held[c] = seen[c] /\ held[c] \in Questions /\ ~Steering(c)
         /\ \/ /\ Adds(held[c], IF held[c] \in Async THEN "submitted" ELSE "answered")
               /\ Goto(c, "check")
               /\ UNCHANGED <<answering, held, seen, target, onto, verdict, faults>>
            \/ /\ answering' = answering \ {held[c]} /\ Respond(c) /\ UNCHANGED log
               /\ Fails
         /\ UNCHANGED <<status, active, cancelled, past, closed, owner, asked, listed, given, taken,
                        handler, busy, accepted, steered>>
<1>1. /\ held[c] = seen[c] /\ held[c] \in Questions /\ ~Steering(c) /\ held[c] \in Requests
  BY BrokerAssumption DEF Persist, IInv, Places, Reads, ReadBy, Requests
<1>2. CASE Fails
  BY <1>1, <1>2 DEF Persist, runVars, steeringVars, Works, Fails, Goto, IInv,
     TypeOK, jobVars
<1>3. CASE Works /\ Event(seen[c], IF seen[c] \in Async THEN "submitted" ELSE "answered")
  <2>1. Adds(held[c], IF held[c] \in Async THEN "submitted" ELSE "answered")
    <3>1. CASE seen[c] \in Async
      BY <1>1, <1>3, <3>1, LogEvent DEF IInv, TypeOK, Adds, Kinds
    <3>2. CASE seen[c] \notin Async
      BY <1>1, <1>3, <3>2, LogEvent DEF IInv, TypeOK, Adds, Kinds
    <3> QED BY <3>1, <3>2
  <2> QED BY <1>1, <1>3, <2>1 DEF Persist, runVars, steeringVars, Works,
        jobVars
<1> QED BY <1>2, <1>3 DEF Persist

\* A decision is recorded before it is resolved, or the handler gives up.
LEMMA RecordAdds ==
  ASSUME IInv, Reads, NEW c \in Clients, RecordDecision(c)
  PROVE  /\ seen[c] \in Permissions /\ ~Steering(c) /\ held[c] = NoRequest
         /\ \/ /\ Adds(seen[c], "resolved")
               /\ Goto(c, "resolve")
               /\ UNCHANGED <<held, seen, target, onto, verdict, faults>>
            \/ Respond(c) /\ UNCHANGED log /\ Fails
         /\ UNCHANGED <<status, active, cancelled, past, closed, owner, asked, listed, answering, given, taken,
                        handler, busy, accepted, steered>>
<1>1. seen[c] \in Permissions /\ seen[c] \in Requests /\ ~Steering(c) /\ held[c] = NoRequest
  BY DEF RecordDecision, IInv, Places, Reads, ReadBy, Requests
<1>2. Event(seen[c], "resolved") => Adds(seen[c], "resolved")
  BY <1>1, LogEvent DEF IInv, TypeOK, Adds, Kinds
<1> QED BY <1>1, <1>2 DEF RecordDecision, runVars, steeringVars, Works, Fails,
      jobVars

\* The last event of a handler that heard its agent accept.
LEMMA ConfirmAdds ==
  ASSUME IInv, Reads, NEW c \in Clients, Confirm(c)
  PROVE  /\ Respond(c) /\ pc[c] = "confirm"
         /\ \/ /\ ~Steering(c) /\ held[c] \in Async /\ held[c] = seen[c]
               /\ Adds(held[c], "answered") /\ UNCHANGED steered
            \/ UNCHANGED log
         /\ UNCHANGED <<status, active, cancelled, past, closed, owner, asked, listed, answering, given, taken,
                        handler, busy, accepted>>
         /\ faults' \in Nat /\ faults' <= faults
<1>1. ~Steering(c) => held[c] \in Async /\ held[c] = seen[c] /\ seen[c] \in Requests
  BY BrokerAssumption DEF Confirm, Reads, ReadBy, Requests, Questions
<1>2. ~Steering(c) /\ Event(seen[c], "answered") => Adds(held[c], "answered")
  BY <1>1, LogEvent DEF IInv, TypeOK, Adds, Kinds
<1> QED BY <1>1, <1>2 DEF Confirm, runVars, Works, Fails, IInv, TypeOK

\* The last event of a handler that was refused, or heard nothing.
LEMMA FailAdds ==
  ASSUME IInv, Reads, NEW c \in Clients, Fail(c)
  PROVE  /\ Respond(c) /\ pc[c] = "fail"
         /\ ~Steering(c) => held[c] \in Async /\ held[c] = seen[c]
         /\ \/ ~Steering(c) /\ Adds(held[c], "failed") /\ UNCHANGED faults
            \/ Steering(c) /\ UNCHANGED <<log, faults>>
            \/ UNCHANGED log /\ Fails
         /\ UNCHANGED <<status, active, cancelled, past, closed, owner, asked, listed, answering, given, taken,
                        handler, busy, accepted, steered>>
<1>1. ~Steering(c) => held[c] \in Async /\ held[c] = seen[c] /\ seen[c] \in Requests
  BY BrokerAssumption DEF Fail, Reads, ReadBy, Requests, Questions
<1>2. ~Steering(c) /\ Event(seen[c], "failed") => Adds(held[c], "failed")
  BY <1>1, LogEvent DEF IInv, TypeOK, Adds, Kinds
<1> QED BY <1>1, <1>2 DEF Fail, runVars, steeringVars, Works, Fails

\* The property in the terms of Recorded.
LEMMA GivenRecorded ==
  /\ RecordedBeforeGiven <=> \A q \in Requests : given[q] > 0 => Recorded(log, q)
  /\ RecordedBeforeGiven' <=> \A q \in Requests : given'[q] > 0 => Recorded(log', q)
BY BrokerAssumption DEF RecordedBeforeGiven, Recorded, Requests, Questions

\* What is added to the log takes no record away.
LEMMA AddsKeeps ==
  ASSUME TypeOK, NEW q \in Requests, NEW kind \in Kinds, Adds(q, kind)
  PROVE  /\ \A x \in Requests : Recorded(log, x) => Recorded(log', x)
         /\ kind = "submitted" /\ q \in Async => Recorded(log', q)
         /\ kind = "answered" /\ q \in Blocking => Recorded(log', q)
         /\ kind = "resolved" /\ q \in Permissions => Recorded(log', q)
<1>1. \A x \in Requests, k \in Kinds : log[x][k] \in 0..2
  BY DEF TypeOK
<1>2. \A n \in 0..2 : Sat(n) > 0
  BY DEF Sat
<1>3. \A x \in Requests, k \in Kinds : log[x][k] > 0 => log'[x][k] > 0
  BY <1>1, <1>2 DEF Adds
<1>4. log'[q][kind] > 0
  BY <1>1, <1>2 DEF Adds
<1> QED BY <1>3, <1>4, BrokerAssumption DEF Recorded, Kinds, Questions

\* Neither the agent nor the run moves a handler, writes an event or withdraws an
\* answer that was taken.
LEMMA HandlersWait ==
  ASSUME TypeOK, AgentStep \/ RunStep
  PROVE  /\ pc' = pc /\ seen' = seen /\ held' = held
         /\ target' = target /\ onto' = onto /\ verdict' = verdict
         /\ answering' = answering /\ given' = given /\ log' = log
         /\ accepted' = accepted /\ steered' = steered /\ faults' = faults
         /\ \A q \in Async : taken'[q] = taken[q]
         /\ \A q \in Requests : asked[q] # "no" => asked'[q] # "no"
<1> USE DEF TypeOK, requestVars, steeringVars, clientVars
<1>1. CASE RunStep
  BY <1>1 DEF RunStep, Register, Cancel, Settle, Cleanup
<1>2. ASSUME NEW q \in Requests, Ask(q) \/ Close(q)
      PROVE  /\ pc' = pc /\ seen' = seen /\ held' = held
             /\ target' = target /\ onto' = onto /\ verdict' = verdict
             /\ answering' = answering /\ given' = given /\ log' = log
             /\ accepted' = accepted /\ steered' = steered /\ faults' = faults
             /\ taken' = taken
             /\ \A x \in Requests : asked[x] # "no" => asked'[x] # "no"
  BY <1>2 DEF Ask, Close
<1>3. ASSUME NEW q \in Requests, TakeAnswer(q)
      PROVE  /\ pc' = pc /\ seen' = seen /\ held' = held
             /\ target' = target /\ onto' = onto /\ verdict' = verdict
             /\ answering' = answering /\ given' = given /\ log' = log
             /\ accepted' = accepted /\ steered' = steered /\ faults' = faults
             /\ \A x \in Async : taken'[x] = taken[x]
             /\ \A x \in Requests : asked[x] # "no" => asked'[x] # "no"
  BY <1>3 DEF TakeAnswer
<1>4. CASE CloseAgent \/ \E r \in Runs : RegisterSteering(r) \/ UnregisterSteering(r)
  BY <1>4 DEF CloseAgent, RegisterSteering, UnregisterSteering
<1> QED BY <1>1, <1>2, <1>3, <1>4 DEF AgentStep

\* Four steps of the handlers write events; every other step leaves the log.
LEMMA LogStays ==
  ASSUME TypeOK, [Next]_vars,
         \A c \in Clients : ~Persist(c) /\ ~RecordDecision(c) /\ ~Confirm(c) /\ ~Fail(c)
  PROVE  log' = log
<1>1. ASSUME NEW c \in Clients, ClientStep(c) PROVE log' = log
  BY <1>1 DEF ClientStep, Claim, Check, DeliverBlocking, Resolve, Seize,
     Submit, Verify, Send, Returns, requestVars
<1>2. ASSUME NEW c \in Clients, NEW q \in Requests, Look(c, q) PROVE log' = log
  BY <1>2 DEF Look, requestVars
<1>3. ASSUME NEW c \in Clients, NEW r \in Runs, Steer(c, r) PROVE log' = log
  BY <1>3 DEF Steer, requestVars
<1>4. ASSUME NEW c \in Clients, NEW reply \in {"accepted", "refused"}, ProviderReplies(c, reply)
      PROVE  log' = log
  BY <1>4 DEF ProviderReplies
<1>5. CASE AgentStep \/ RunStep
  BY <1>5, HandlersWait
<1>6. CASE UNCHANGED vars
  BY <1>6 DEF vars
<1> QED BY <1>1, <1>2, <1>3, <1>4, <1>5, <1>6 DEF Next

\* An answer the provider has taken stays taken.
LEMMA TakenStays ==
  ASSUME TypeOK, [Next]_vars
  PROVE  \A q \in Async : taken[q] > 0 => taken'[q] > 0
<1>1. ASSUME NEW c \in Clients, ClientStep(c) PROVE taken' = taken
  BY <1>1 DEF ClientStep, Claim, Persist, Check, DeliverBlocking,
     RecordDecision, Resolve, Seize, Submit, Verify, Send, Returns, Confirm,
     Fail, requestVars
<1>2. ASSUME NEW c \in Clients, NEW q \in Requests, Look(c, q)
      PROVE  taken' = taken
  BY <1>2 DEF Look, requestVars
<1>3. ASSUME NEW c \in Clients, NEW r \in Runs, Steer(c, r)
      PROVE  taken' = taken
  BY <1>3 DEF Steer, requestVars
<1>4. ASSUME NEW c \in Clients, NEW reply \in {"accepted", "refused"}, ProviderReplies(c, reply)
      PROVE  \A q \in Async : taken[q] > 0 => taken'[q] > 0
  BY <1>4 DEF ProviderReplies, TypeOK, Sat, Requests, Questions
<1>5. CASE AgentStep \/ RunStep
  BY <1>5, HandlersWait
<1>6. CASE UNCHANGED vars
  BY <1>6 DEF vars
<1> QED BY <1>1, <1>2, <1>3, <1>4, <1>5, <1>6 DEF Next

\* No step takes a record away; and a handler that has persisted has recorded.
LEMMA RecordsStay ==
  ASSUME IInv, Reads, [Next]_vars
  PROVE  \A q \in Requests : Recorded(log, q) => Recorded(log', q)
<1>1. CASE log' = log
  BY <1>1 DEF Recorded
<1>2. ASSUME NEW c \in Clients, Persist(c), log' # log
      PROVE  \A q \in Requests : Recorded(log, q) => Recorded(log', q)
  <2>1. Adds(held[c], IF held[c] \in Async THEN "submitted" ELSE "answered") /\ held[c] \in Requests
    BY <1>2, PersistAdds DEF Requests
  <2> QED BY <2>1, AddsKeeps DEF IInv, Kinds
<1>3. ASSUME NEW c \in Clients, RecordDecision(c), log' # log
      PROVE  \A q \in Requests : Recorded(log, q) => Recorded(log', q)
  <2>1. Adds(seen[c], "resolved") /\ seen[c] \in Requests
    BY <1>3, RecordAdds DEF Requests
  <2> QED BY <2>1, AddsKeeps DEF IInv, Kinds
<1>4. ASSUME NEW c \in Clients, Confirm(c), log' # log
      PROVE  \A q \in Requests : Recorded(log, q) => Recorded(log', q)
  <2>1. Adds(held[c], "answered") /\ held[c] \in Requests
    BY <1>4, ConfirmAdds DEF Requests, Questions
  <2> QED BY <2>1, AddsKeeps DEF IInv, Kinds
<1>5. ASSUME NEW c \in Clients, Fail(c), log' # log
      PROVE  \A q \in Requests : Recorded(log, q) => Recorded(log', q)
  <2>1. Adds(held[c], "failed") /\ held[c] \in Requests
    BY <1>5, FailAdds DEF Requests, Questions
  <2> QED BY <2>1, AddsKeeps DEF IInv, Kinds
<1> QED BY <1>1, <1>2, <1>3, <1>4, <1>5, LogStays DEF IInv

\* A handler's step leaves what the other handlers hold alone.
LEMMA OthersStand ==
  ASSUME TypeOK, NEW c \in Clients, ClientStep(c), NEW d \in Clients, d # c
  PROVE  /\ pc'[d] = pc[d] /\ seen'[d] = seen[d] /\ held'[d] = held[d]
         /\ target'[d] = target[d] /\ onto'[d] = onto[d] /\ verdict'[d] = verdict[d]
<1> USE DEF TypeOK, Respond, Goto, jobVars, clientVars
<1>1. CASE Claim(c) \/ Persist(c) \/ Check(c)
  BY <1>1 DEF Claim, Persist, Check
<1>2. CASE DeliverBlocking(c) \/ RecordDecision(c) \/ Resolve(c)
  BY <1>2 DEF DeliverBlocking, RecordDecision, Resolve
<1>3. CASE Seize(c) \/ Submit(c) \/ Verify(c)
  BY <1>3 DEF Seize, Submit, Verify
<1>4. CASE Send(c) \/ Returns(c) \/ Confirm(c) \/ Fail(c)
  BY <1>4 DEF Send, Returns, Confirm, Fail
<1> QED BY <1>1, <1>2, <1>3, <1>4 DEF ClientStep

\* A handler that has responded holds nothing.
LEMMA Responded ==
  ASSUME TypeOK, NEW c \in Clients, Respond(c)
  PROVE  /\ pc'[c] = "idle" /\ seen'[c] = NoRequest /\ held'[c] = NoRequest
         /\ target'[c] = NoRun /\ onto'[c] = NoRun /\ verdict'[c] = "none"
BY DEF TypeOK, Respond, Goto

\* Only the two deliveries give an answer.
LEMMA GivenStays ==
  ASSUME [Next]_vars, \A c \in Clients : ~DeliverBlocking(c) /\ ~Send(c)
  PROVE  given' = given
<1>1. ASSUME NEW c \in Clients, ClientStep(c) PROVE given' = given
  BY <1>1 DEF ClientStep, Claim, Persist, Check, RecordDecision, Resolve,
     Seize, Submit, Verify, Returns, Confirm, Fail, requestVars
<1>2. ASSUME NEW c \in Clients, NEW q \in Requests, Look(c, q)
      PROVE  given' = given
  BY <1>2 DEF Look, requestVars
<1>3. ASSUME NEW c \in Clients, NEW r \in Runs, Steer(c, r)
      PROVE  given' = given
  BY <1>3 DEF Steer, requestVars
<1>4. ASSUME NEW c \in Clients, NEW reply \in {"accepted", "refused"}, ProviderReplies(c, reply)
      PROVE  given' = given
  BY <1>4 DEF ProviderReplies
<1>5. CASE AgentStep
  BY <1>5 DEF AgentStep, Ask, TakeAnswer, Close, RegisterSteering,
     UnregisterSteering, CloseAgent, requestVars
<1>6. CASE RunStep
  BY <1>6 DEF RunStep, Register, Cancel, Settle, Cleanup, requestVars
<1>7. CASE UNCHANGED vars
  BY <1>7 DEF vars
<1> QED BY <1>1, <1>2, <1>3, <1>4, <1>5, <1>6, <1>7 DEF Next

\* Only the two handlers that deliver hand a request over, and both have read it in
\* the log.
LEMMA RecordedKept ==
  ASSUME IInv, Reads, RecordedBeforeGiven, [Next]_vars
  PROVE  RecordedBeforeGiven'
<1>1. \A q \in Requests : Recorded(log, q) => Recorded(log', q)
  BY RecordsStay
<1>2. CASE given' = given
  BY <1>1, <1>2, GivenRecorded
<1>3. ASSUME NEW c \in Clients, DeliverBlocking(c) \/ Send(c), given' # given
      PROVE  RecordedBeforeGiven'
  <2>1. pc[c] = "deliver" /\ ~Steering(c)
    BY <1>3, BrokerAssumption DEF DeliverBlocking, Send, IInv, Places
  <2>2. given' = [given EXCEPT ![held[c]] = Sat(@)]
    BY <1>3, <2>1 DEF DeliverBlocking, Send
  <2>3. Recorded(log, held[c])
    BY <2>1 DEF Reads, ReadBy
  <2> QED BY <1>1, <2>2, <2>3, GivenRecorded DEF IInv
<1> QED BY <1>2, <1>3, GivenStays

\* After a claim is recorded its handler may deliver it.
LEMMA PersistRecords ==
  ASSUME IInv, Reads, NEW c \in Clients, Persist(c), Goto(c, "check")
  PROVE  Recorded(log', held'[c])
<1>1. /\ held[c] \in Requests /\ held[c] \in Questions
      /\ Adds(held[c], IF held[c] \in Async THEN "submitted" ELSE "answered")
      /\ held' = held
  BY PersistAdds DEF Requests, Goto, Respond, IInv, TypeOK, Persist
<1>2. CASE held[c] \in Async
  <2>1. Adds(held[c], "submitted")
    BY <1>1, <1>2
  <2> QED BY <1>1, <1>2, <2>1, AddsKeeps DEF IInv, Kinds, Questions
<1>3. CASE held[c] \in Blocking
  <2>1. Adds(held[c], "answered")
    BY <1>1, <1>3, BrokerAssumption
  <2> QED BY <1>1, <1>3, <2>1, AddsKeeps DEF IInv, Kinds
<1> QED BY <1>1, <1>2, <1>3 DEF Questions

\* After a decision is recorded its handler may resolve it.
LEMMA DecisionRecords ==
  ASSUME IInv, Reads, NEW c \in Clients, RecordDecision(c), Goto(c, "resolve")
  PROVE  Recorded(log', seen'[c])
<1>1. /\ seen[c] \in Requests /\ seen[c] \in Permissions
      /\ Adds(seen[c], "resolved") /\ seen' = seen
  BY RecordAdds DEF Requests, Goto, Respond, IInv, TypeOK, RecordDecision
<1> QED BY <1>1, AddsKeeps DEF IInv, Kinds

\* A handler changes what it holds only when it claims, and claims what it read.
LEMMA ReadsKept ==
  ASSUME DistinctIdsUsed, IInv, Reads, [Next]_vars
  PROVE  Reads'
<1> USE BrokerAssumption DEF IInv, TypeOK, Requests, Questions, Goto,
      Steering, Reads, ReadBy
<1>0. \A q \in Requests : Recorded(log, q) => Recorded(log', q)
  BY RecordsStay
<1>1. ASSUME NEW c \in Clients, Claim(c) PROVE Reads'
  BY <1>1, <1>0, OneEntry DEF Claim, Respond, Places
<1>2. ASSUME NEW c \in Clients, Persist(c) PROVE Reads'
  <2>1. ASSUME NEW d \in Clients, d # c PROVE ReadBy(d)'
    <3>1. /\ pc'[d] = pc[d] /\ seen'[d] = seen[d] /\ held'[d] = held[d]
          /\ target'[d] = target[d] /\ verdict'[d] = verdict[d]
      BY <1>2, <2>1, OthersStand DEF ClientStep
    <3>2. ReadBy(d) /\ given' = given
      BY <1>2, PersistAdds DEF Reads
    <3> QED BY <1>0, <3>1, <3>2 DEF ReadBy, Places, HandsOver
  <2>2. ASSUME Goto(c, "check"), held' = held, seen' = seen, target' = target, verdict' = verdict
        PROVE  ReadBy(c)'
    <3>1. Recorded(log', held'[c])
      BY <1>2, <2>2, PersistRecords
    <3>2. pc'[c] = "check" /\ pc[c] = "persist" /\ ReadBy(c)
      BY <1>2, <2>2 DEF Persist, Reads
    <3> QED BY <2>2, <3>1, <3>2 DEF ReadBy
  <2>3. ASSUME Respond(c) PROVE ReadBy(c)'
    BY <2>3, Responded DEF ReadBy
  <2>4. \/ Respond(c)
        \/ Goto(c, "check") /\ held' = held /\ seen' = seen /\ target' = target /\ verdict' = verdict
    BY <1>2, PersistAdds
  <2> QED BY <2>1, <2>2, <2>3, <2>4 DEF Reads
<1>3. ASSUME NEW c \in Clients, Check(c) PROVE Reads'
  BY <1>3, <1>0, OneEntry DEF Check, Respond, Places, jobVars
<1>4. ASSUME NEW c \in Clients, DeliverBlocking(c) PROVE Reads'
  BY <1>4, <1>0 DEF DeliverBlocking, Respond, Places, HandsOver
<1>5. ASSUME NEW c \in Clients, RecordDecision(c) PROVE Reads'
  <2>1. ASSUME NEW d \in Clients, d # c PROVE ReadBy(d)'
    <3>1. /\ pc'[d] = pc[d] /\ seen'[d] = seen[d] /\ held'[d] = held[d]
          /\ target'[d] = target[d] /\ verdict'[d] = verdict[d]
      BY <1>5, <2>1, OthersStand DEF ClientStep
    <3>2. ReadBy(d) /\ given' = given
      BY <1>5, RecordAdds DEF Reads
    <3> QED BY <1>0, <3>1, <3>2 DEF ReadBy, Places, HandsOver
  <2>2. ASSUME Goto(c, "resolve"), held' = held, seen' = seen, target' = target, verdict' = verdict
        PROVE  ReadBy(c)'
    <3>1. Recorded(log', seen'[c])
      BY <1>5, <2>2, DecisionRecords
    <3>2. pc'[c] = "resolve" /\ pc[c] = "record" /\ ReadBy(c)
      BY <1>5, <2>2 DEF RecordDecision, Reads
    <3> QED BY <2>2, <3>1, <3>2 DEF ReadBy
  <2>3. ASSUME Respond(c) PROVE ReadBy(c)'
    BY <2>3, Responded DEF ReadBy
  <2>4. \/ Respond(c)
        \/ Goto(c, "resolve") /\ held' = held /\ seen' = seen /\ target' = target /\ verdict' = verdict
    BY <1>5, RecordAdds
  <2> QED BY <2>1, <2>2, <2>3, <2>4 DEF Reads
<1>6. ASSUME NEW c \in Clients, Resolve(c) PROVE Reads'
  BY <1>6, <1>0, OneEntry DEF Resolve, Respond
<1>7. ASSUME NEW c \in Clients, Seize(c) PROVE Reads'
  BY <1>7, <1>0 DEF Seize, Respond, requestVars
<1>8. ASSUME NEW c \in Clients, Submit(c) PROVE Reads'
  BY <1>8, <1>0 DEF Submit, Respond, requestVars, jobVars
<1>9. ASSUME NEW c \in Clients, Verify(c) PROVE Reads'
  BY <1>9, <1>0 DEF Verify, Places, requestVars, jobVars
<1>10. ASSUME NEW c \in Clients, Send(c) PROVE Reads'
  BY <1>10, <1>0 DEF Send, Sat, Places, HandsOver, jobVars
<1>11. ASSUME NEW c \in Clients, Returns(c) PROVE Reads'
  BY <1>11, <1>0 DEF Returns, Places, HandsOver, requestVars, jobVars
<1>12. ASSUME NEW c \in Clients, Confirm(c) PROVE Reads'
  <2>1. ASSUME NEW d \in Clients, d # c PROVE ReadBy(d)'
    <3>1. /\ pc'[d] = pc[d] /\ seen'[d] = seen[d] /\ held'[d] = held[d]
          /\ target'[d] = target[d] /\ verdict'[d] = verdict[d]
      BY <1>12, <2>1, OthersStand DEF ClientStep
    <3>2. ReadBy(d) /\ given' = given
      BY <1>12, ConfirmAdds DEF Reads
    <3> QED BY <1>0, <3>1, <3>2 DEF ReadBy, Places, HandsOver
  <2>2. ReadBy(c)'
    BY <1>12, ConfirmAdds, Responded DEF ReadBy
  <2> QED BY <2>1, <2>2 DEF Reads
<1>13. ASSUME NEW c \in Clients, Fail(c) PROVE Reads'
  <2>1. ASSUME NEW d \in Clients, d # c PROVE ReadBy(d)'
    <3>1. /\ pc'[d] = pc[d] /\ seen'[d] = seen[d] /\ held'[d] = held[d]
          /\ target'[d] = target[d] /\ verdict'[d] = verdict[d]
      BY <1>13, <2>1, OthersStand DEF ClientStep
    <3>2. ReadBy(d) /\ given' = given
      BY <1>13, FailAdds DEF Reads
    <3> QED BY <1>0, <3>1, <3>2 DEF ReadBy, Places, HandsOver
  <2>2. ReadBy(c)'
    BY <1>13, FailAdds, Responded DEF ReadBy
  <2> QED BY <2>1, <2>2 DEF Reads
<1>14. ASSUME NEW c \in Clients, NEW q \in Requests, Look(c, q) PROVE Reads'
  BY <1>14, <1>0 DEF Look, Places, requestVars
<1>15. ASSUME NEW c \in Clients, NEW r \in Runs, Steer(c, r) PROVE Reads'
  BY <1>15, <1>0 DEF Steer, requestVars
<1>16. ASSUME NEW c \in Clients, NEW reply \in {"accepted", "refused"},
              ProviderReplies(c, reply)
       PROVE  Reads'
  BY <1>16, <1>0 DEF ProviderReplies
<1>17. CASE AgentStep \/ RunStep
  BY <1>17, <1>0, HandlersWait
<1>18. CASE UNCHANGED vars
  BY <1>18, <1>0 DEF vars
<1> QED BY <1>1, <1>2, <1>3, <1>4, <1>5, <1>6, <1>7, <1>8, <1>9, <1>10, <1>11,
      <1>12, <1>13, <1>14, <1>15, <1>16, <1>17, <1>18 DEF Next, ClientStep

\* A claim finds the request unclaimed; it is given up only before it was recorded.
LEMMA ClaimsKept ==
  ASSUME DistinctIdsUsed, IInv, Reads, Claims, Undecided, [Next]_vars
  PROVE  Claims'
<1> USE BrokerAssumption DEF IInv, TypeOK, Requests, Questions, Goto,
      Steering, Claims, Kinds
<1>1. ASSUME NEW c \in Clients, Claim(c) PROVE Claims'
  <2> USE DEF Claims
  <2>0. /\ listed' = listed /\ asked' = asked /\ log' = log
        /\ \A d \in Clients : d # c => held'[d] = held[d]
    BY <1>1, OthersStand DEF Claim, ClientStep
  <2>1. CASE Respond(c) /\ answering' = answering
    BY <2>0, <2>1, Responded
  <2>2. ASSUME NEW q \in Entry(active, seen[c]) \ answering,
               answering' = answering \cup {q}, held'[c] = q
        PROVE  Claims'
    <3>1. q \in listed /\ asked[q] # "no"
      BY <2>2 DEF Entry, Handing
    <3> QED BY <2>0, <2>2, <3>1
  <2> QED BY <1>1, <2>1, <2>2 DEF Claim
<1>2. ASSUME NEW c \in Clients, Persist(c) PROVE Claims'
  <2> USE DEF Claims
  <2>0. /\ asked' = asked /\ held[c] \in Questions
        /\ \A d \in Clients : d # c => held'[d] = held[d]
    BY <1>2, OthersStand, PersistAdds DEF ClientStep
  <2>1. CASE /\ Adds(held[c], IF held[c] \in Async THEN "submitted" ELSE "answered")
             /\ answering' = answering /\ held' = held
    <3>1. \A q \in Async : log'[q]["submitted"] > 0 => q = held[c] \/ log[q]["submitted"] > 0
      BY <2>1 DEF Adds, Kinds
    <3> QED BY <2>0, <2>1, <3>1
  <2>2. CASE answering' = answering \ {held[c]} /\ Respond(c) /\ log' = log
    <3>1. held'[c] = NoRequest
      BY <2>2, Responded
    <3>2. held[c] \in Async => log[held[c]]["submitted"] = 0
      BY <1>2 DEF Undecided, UndecidedBy, Persist
    <3> QED BY <2>0, <2>2, <3>1, <3>2, SMTT(30)
  <2> QED BY <1>2, <2>1, <2>2, PersistAdds
<1>3. ASSUME NEW c \in Clients, Check(c) PROVE Claims'
  <2> USE DEF Claims
  <2>0. /\ asked' = asked /\ answering' = answering /\ log' = log
        /\ \A d \in Clients : d # c => held'[d] = held[d]
    BY <1>3, OthersStand DEF Check, ClientStep
  <2>1. held'[c] = held[c] \/ held'[c] = NoRequest
    BY <1>3, Responded DEF Check, jobVars
  <2> QED BY <2>0, <2>1
<1>4. ASSUME NEW c \in Clients, DeliverBlocking(c) PROVE Claims'
  BY <1>4 DEF DeliverBlocking, Respond
<1>5. ASSUME NEW c \in Clients, RecordDecision(c) PROVE Claims'
  <2> USE DEF Claims
  <2>0. /\ asked' = asked /\ answering' = answering
        /\ \A d \in Clients : d # c => held'[d] = held[d]
    BY <1>5, OthersStand, RecordAdds DEF ClientStep
  <2>1. \A q \in Async : log'[q]["submitted"] = log[q]["submitted"]
    BY <1>5, RecordAdds DEF Adds, Kinds
  <2>2. held'[c] = held[c] \/ held'[c] = NoRequest
    BY <1>5, Responded, RecordAdds
  <2> QED BY <2>0, <2>1, <2>2
<1>6. ASSUME NEW c \in Clients, Resolve(c) PROVE Claims'
  <2> USE DEF Claims
  <2>0. /\ asked' = asked /\ answering' = answering /\ log' = log
        /\ \A d \in Clients : d # c => held'[d] = held[d]
    BY <1>6, OthersStand DEF Resolve, ClientStep
  <2>1. held'[c] \in Permissions \/ held'[c] = NoRequest
    <3>1. seen[c] \in Permissions
      BY <1>6 DEF Resolve, Reads, ReadBy
    <3>2. \A q \in Entry(active, seen[c]) : q = seen[c]
      BY <3>1, OneEntry
    <3> QED BY <1>6, <3>1, <3>2, Responded DEF Resolve
  <2> QED BY <2>0, <2>1
<1>7. ASSUME NEW c \in Clients, Seize(c) PROVE Claims'
  BY <1>7 DEF Seize, Respond, requestVars
<1>8. ASSUME NEW c \in Clients, Submit(c) PROVE Claims'
  BY <1>8 DEF Submit, Respond, requestVars, jobVars
<1>9. ASSUME NEW c \in Clients, Verify(c) PROVE Claims'
  BY <1>9 DEF Verify, requestVars, jobVars
<1>10. ASSUME NEW c \in Clients, Send(c) PROVE Claims'
  BY <1>10 DEF Send, jobVars
<1>11. ASSUME NEW c \in Clients, Returns(c) PROVE Claims'
  BY <1>11 DEF Returns, requestVars, jobVars
<1>12. ASSUME NEW c \in Clients, Confirm(c) PROVE Claims'
  <2> USE DEF Claims
  <2>0. /\ asked' = asked /\ answering' = answering
        /\ \A d \in Clients : d # c => held'[d] = held[d]
    BY <1>12, OthersStand, ConfirmAdds DEF ClientStep
  <2>1. \A q \in Async : log'[q]["submitted"] = log[q]["submitted"]
    BY <1>12, ConfirmAdds DEF Adds, Kinds
  <2>2. held'[c] = held[c] \/ held'[c] = NoRequest
    BY <1>12, Responded, ConfirmAdds
  <2> QED BY <2>0, <2>1, <2>2
<1>13. ASSUME NEW c \in Clients, Fail(c) PROVE Claims'
  <2> USE DEF Claims
  <2>0. /\ asked' = asked /\ answering' = answering
        /\ \A d \in Clients : d # c => held'[d] = held[d]
    BY <1>13, OthersStand, FailAdds DEF ClientStep
  <2>1. \A q \in Async : log'[q]["submitted"] = log[q]["submitted"]
    BY <1>13, FailAdds DEF Adds, Kinds
  <2>2. held'[c] = held[c] \/ held'[c] = NoRequest
    BY <1>13, Responded, FailAdds
  <2> QED BY <2>0, <2>1, <2>2
<1>14. ASSUME NEW c \in Clients, NEW q \in Requests, Look(c, q) PROVE Claims'
  BY <1>14 DEF Look, requestVars
<1>15. ASSUME NEW c \in Clients, NEW r \in Runs, Steer(c, r) PROVE Claims'
  BY <1>15 DEF Steer, requestVars
<1>16. ASSUME NEW c \in Clients, NEW reply \in {"accepted", "refused"},
              ProviderReplies(c, reply)
       PROVE  Claims'
  BY <1>16 DEF ProviderReplies
<1>17. CASE AgentStep \/ RunStep
  BY <1>17, HandlersWait
<1>18. CASE UNCHANGED vars
  BY <1>18 DEF vars
<1> QED BY <1>1, <1>2, <1>3, <1>4, <1>5, <1>6, <1>7, <1>8, <1>9, <1>10, <1>11,
      <1>12, <1>13, <1>14, <1>15, <1>16, <1>17, <1>18 DEF Next, ClientStep

\* The outcome of a question is written by the handler that holds it, in the step
\* that lets go of it.
LEMMA UndecidedKept ==
  ASSUME DistinctIdsUsed, IInv, Reads, Claims, Undecided, OneOutcome, [Next]_vars
  PROVE  Undecided'
<1> USE BrokerAssumption DEF IInv, TypeOK, Requests, Questions, Goto,
      Steering, Undecided, UndecidedBy, Claims, Kinds
<1>1. ASSUME NEW c \in Clients, Claim(c) PROVE Undecided'
  <2>1. ASSUME NEW d \in Clients, d # c PROVE UndecidedBy(d)'
    <3>1. /\ pc'[d] = pc[d] /\ held'[d] = held[d] /\ verdict'[d] = verdict[d]
      BY <1>1, <2>1, OthersStand DEF ClientStep
    <3>2. UndecidedBy(d) /\ taken' = taken
      BY <1>1 DEF Undecided, Claim
    <3>3. log' = log
      BY <1>1 DEF Claim
    <3> QED BY <3>1, <3>2, <3>3 DEF UndecidedBy
  <2>2. UndecidedBy(c)'
    <3>1. CASE Respond(c)
      BY <3>1, Responded DEF UndecidedBy
    <3>2. ASSUME NEW q \in Entry(active, seen[c]) \ answering,
                 held'[c] = q, pc'[c] = "persist", verdict'[c] = verdict[c]
          PROVE  UndecidedBy(c)'
      <4>1. verdict[c] = "none" /\ log' = log
        BY <1>1 DEF Claim, Reads, ReadBy
      <4>2. CASE q \in Async
        <5>1. /\ log[q]["submitted"] \in 0..2 /\ log[q]["answered"] \in 0..2
              /\ log[q]["failed"] \in 0..2
          BY <4>2
        <5>2. log[q]["submitted"] = 0
          BY <3>2, <4>2, <5>1 DEF Claims
        <5>3. log[q]["answered"] = 0 /\ log[q]["failed"] = 0
          BY <4>2, <5>1, <5>2 DEF OneOutcome
        <5> QED BY <3>2, <4>1, <5>2, <5>3 DEF UndecidedBy
      <4> QED BY <3>2, <4>2 DEF UndecidedBy
    <3> QED BY <1>1, <3>1, <3>2 DEF Claim
  <2> QED BY <2>1, <2>2 DEF Undecided
<1>2. ASSUME NEW c \in Clients, Persist(c) PROVE Undecided'
  <2>1. ASSUME NEW d \in Clients, d # c PROVE UndecidedBy(d)'
    <3>1. /\ pc'[d] = pc[d] /\ held'[d] = held[d] /\ verdict'[d] = verdict[d]
      BY <1>2, <2>1, OthersStand DEF ClientStep
    <3>2. UndecidedBy(d) /\ taken' = taken
      BY <1>2, PersistAdds DEF Undecided
    <3>3. held[d] \in Async => \A k \in Kinds : log'[held[d]][k] = log[held[d]][k]
      <4>1. held[d] \in Async => held[d] # held[c]
        BY <1>2, <2>1, PersistAdds DEF Claims
      <4> QED BY <1>2, <4>1, PersistAdds DEF Adds
    <3> QED BY <3>1, <3>2, <3>3 DEF UndecidedBy
  <2>2. UndecidedBy(c)'
    <3>1. CASE Respond(c)
      BY <3>1, Responded DEF UndecidedBy
    <3>2. CASE /\ Adds(held[c], IF held[c] \in Async THEN "submitted" ELSE "answered")
               /\ Goto(c, "check") /\ held' = held /\ verdict' = verdict
      <4>1. pc[c] = "persist" /\ pc'[c] = "check" /\ UndecidedBy(c) /\ taken' = taken
        BY <1>2, <3>2, PersistAdds DEF Persist, Undecided
      <4> QED BY <3>2, <4>1 DEF UndecidedBy, Adds, Sat
    <3> QED BY <1>2, <3>1, <3>2, PersistAdds
  <2> QED BY <2>1, <2>2 DEF Undecided
<1>3. ASSUME NEW c \in Clients, Check(c) PROVE Undecided'
  <2>1. ASSUME NEW d \in Clients, d # c PROVE UndecidedBy(d)'
    <3>1. /\ pc'[d] = pc[d] /\ held'[d] = held[d] /\ verdict'[d] = verdict[d]
      BY <1>3, <2>1, OthersStand DEF ClientStep
    <3>2. UndecidedBy(d) /\ taken' = taken
      BY <1>3 DEF Undecided, Check
    <3>3. log' = log
      BY <1>3 DEF Check
    <3> QED BY <3>1, <3>2, <3>3 DEF UndecidedBy
  <2>2. UndecidedBy(c)'
    <3>1. CASE Respond(c)
      BY <3>1, Responded DEF UndecidedBy
    <3>2. CASE held' = held /\ verdict' = verdict /\ pc'[c] \in {"deliver", "fail"} /\ pc[c] = "check"
      BY <1>3, <3>2 DEF UndecidedBy, Undecided, Check
    <3> QED BY <1>3, <3>1, <3>2 DEF Check, jobVars
  <2> QED BY <2>1, <2>2 DEF Undecided
<1>4. ASSUME NEW c \in Clients, DeliverBlocking(c) PROVE Undecided'
  BY <1>4 DEF DeliverBlocking, Respond
<1>5. ASSUME NEW c \in Clients, RecordDecision(c) PROVE Undecided'
  <2>0. \A q \in Async, k \in Kinds : log'[q][k] = log[q][k]
    BY <1>5, RecordAdds, SMTT(30) DEF Adds
  <2>1. ASSUME NEW d \in Clients, d # c PROVE UndecidedBy(d)'
    <3>1. /\ pc'[d] = pc[d] /\ held'[d] = held[d] /\ verdict'[d] = verdict[d]
      BY <1>5, <2>1, OthersStand DEF ClientStep
    <3>2. UndecidedBy(d) /\ taken' = taken
      BY <1>5, RecordAdds DEF Undecided
    <3>3. held[d] \in Async => \A k \in Kinds : log'[held[d]][k] = log[held[d]][k]
      BY <2>0
    <3> QED BY <3>1, <3>2, <3>3 DEF UndecidedBy
  <2>2. UndecidedBy(c)'
    BY <1>5, RecordAdds, Responded DEF UndecidedBy
  <2> QED BY <2>1, <2>2 DEF Undecided
<1>6. ASSUME NEW c \in Clients, Resolve(c) PROVE Undecided'
  <2>1. ASSUME NEW d \in Clients, d # c PROVE UndecidedBy(d)'
    <3>1. /\ pc'[d] = pc[d] /\ held'[d] = held[d] /\ verdict'[d] = verdict[d]
      BY <1>6, <2>1, OthersStand DEF ClientStep
    <3>2. UndecidedBy(d) /\ taken' = taken
      BY <1>6 DEF Undecided, Resolve
    <3>3. log' = log
      BY <1>6 DEF Resolve
    <3> QED BY <3>1, <3>2, <3>3 DEF UndecidedBy
  <2>2. UndecidedBy(c)'
    <3>1. seen[c] \in Permissions
      BY <1>6 DEF Resolve, Reads, ReadBy
    <3>2. held'[c] \in Permissions \/ held'[c] = NoRequest
      BY <1>6, <3>1, OneEntry, Responded DEF Resolve
    <3> QED BY <3>2 DEF UndecidedBy
  <2> QED BY <2>1, <2>2 DEF Undecided
<1>7. ASSUME NEW c \in Clients, Seize(c) PROVE Undecided'
  BY <1>7 DEF Seize, Respond, requestVars
<1>8. ASSUME NEW c \in Clients, Submit(c) PROVE Undecided'
  BY <1>8 DEF Submit, Respond, requestVars, jobVars
<1>9. ASSUME NEW c \in Clients, Verify(c) PROVE Undecided'
  BY <1>9 DEF Verify, requestVars, jobVars
<1>10. ASSUME NEW c \in Clients, Send(c) PROVE Undecided'
  BY <1>10 DEF Send, jobVars
<1>11. ASSUME NEW c \in Clients, Returns(c) PROVE Undecided'
  BY <1>11 DEF Returns, requestVars, jobVars
<1>12. ASSUME NEW c \in Clients, Confirm(c) PROVE Undecided'
  <2>1. ASSUME NEW d \in Clients, d # c PROVE UndecidedBy(d)'
    <3>1. /\ pc'[d] = pc[d] /\ held'[d] = held[d] /\ verdict'[d] = verdict[d]
      BY <1>12, <2>1, OthersStand DEF ClientStep
    <3>2. UndecidedBy(d) /\ taken' = taken
      BY <1>12, ConfirmAdds DEF Undecided
    <3>3. held[d] \in Async => \A k \in Kinds : log'[held[d]][k] = log[held[d]][k]
      <4>1. held[d] \in Async => held[d] # held[c]
        BY <2>1 DEF Claims
      <4> QED BY <1>12, <4>1, ConfirmAdds DEF Adds
    <3> QED BY <3>1, <3>2, <3>3 DEF UndecidedBy
  <2>2. UndecidedBy(c)'
    BY <1>12, ConfirmAdds, Responded DEF UndecidedBy
  <2> QED BY <2>1, <2>2 DEF Undecided
<1>13. ASSUME NEW c \in Clients, Fail(c) PROVE Undecided'
  <2>1. ASSUME NEW d \in Clients, d # c PROVE UndecidedBy(d)'
    <3>1. /\ pc'[d] = pc[d] /\ held'[d] = held[d] /\ verdict'[d] = verdict[d]
      BY <1>13, <2>1, OthersStand DEF ClientStep
    <3>2. UndecidedBy(d) /\ taken' = taken
      BY <1>13, FailAdds DEF Undecided
    <3>3. held[d] \in Async => \A k \in Kinds : log'[held[d]][k] = log[held[d]][k]
      <4>1. held[d] \in Async => held[d] # held[c]
        BY <2>1 DEF Claims
      <4> QED BY <1>13, <4>1, FailAdds DEF Adds
    <3> QED BY <3>1, <3>2, <3>3 DEF UndecidedBy
  <2>2. UndecidedBy(c)'
    BY <1>13, FailAdds, Responded DEF UndecidedBy
  <2> QED BY <2>1, <2>2 DEF Undecided
<1>14. ASSUME NEW c \in Clients, NEW q \in Requests, Look(c, q)
       PROVE  Undecided'
  BY <1>14 DEF Look, requestVars
<1>15. ASSUME NEW c \in Clients, NEW r \in Runs, Steer(c, r) PROVE Undecided'
  BY <1>15 DEF Steer, requestVars
<1>16. ASSUME NEW c \in Clients, NEW reply \in {"accepted", "refused"},
              ProviderReplies(c, reply)
       PROVE  Undecided'
  BY <1>16, SMTT(30) DEF ProviderReplies, Sat, Places
<1>17. CASE AgentStep \/ RunStep
  BY <1>17, HandlersWait
<1>18. CASE UNCHANGED vars
  BY <1>18 DEF vars
<1> QED BY SMTT(30), <1>1, <1>2, <1>3, <1>4, <1>5, <1>6, <1>7, <1>8, <1>9, <1>10, <1>11,
      <1>12, <1>13, <1>14, <1>15, <1>16, <1>17, <1>18 DEF Next, ClientStep

\* A run's handler takes one input at a time, and who hears "accepted" records it
\* before the next one.
LEMMA OwedKept ==
  ASSUME DistinctIdsUsed, IInv, Reads, Owed, [Next]_vars
  PROVE  Owed'
<1> USE BrokerAssumption DEF IInv, TypeOK, Requests, Questions, Goto, Works,
      Fails, Steering, Owed, Owes
<1>1. ASSUME NEW c \in Clients, Claim(c) PROVE Owed'
  BY <1>1, OneEntry DEF Claim, Respond, Handing, HandsOver, steeringVars
<1>2. ASSUME NEW c \in Clients, Persist(c) PROVE Owed'
  <2>0. /\ accepted' = accepted /\ steered' = steered /\ ~Steering(c)
        /\ \A d \in Clients : d # c =>
              pc'[d] = pc[d] /\ target'[d] = target[d] /\ verdict'[d] = verdict[d]
    BY <1>2, OthersStand, PersistAdds DEF ClientStep
  <2>1. target'[c] = NoRun
    BY <1>2, <2>0, PersistAdds, Responded
  <2>2. \A d \in Clients, r \in Runs : Owes(d, r)' => Owes(d, r)
    BY <2>0, <2>1
  <2> QED BY <2>0, <2>2
<1>3. ASSUME NEW c \in Clients, Check(c) PROVE Owed'
  BY <1>3, OneEntry DEF Check, Respond, Handing, runVars, steeringVars, jobVars
<1>4. ASSUME NEW c \in Clients, DeliverBlocking(c) PROVE Owed'
  BY <1>4 DEF DeliverBlocking, Respond, steeringVars
<1>5. ASSUME NEW c \in Clients, RecordDecision(c) PROVE Owed'
  <2>0. /\ accepted' = accepted /\ steered' = steered /\ ~Steering(c)
        /\ \A d \in Clients : d # c =>
              pc'[d] = pc[d] /\ target'[d] = target[d] /\ verdict'[d] = verdict[d]
    BY <1>5, OthersStand, RecordAdds DEF ClientStep
  <2>1. target'[c] = NoRun
    BY <1>5, <2>0, RecordAdds, Responded
  <2>2. \A d \in Clients, r \in Runs : Owes(d, r)' => Owes(d, r)
    BY <2>0, <2>1
  <2> QED BY <2>0, <2>2
<1>6. ASSUME NEW c \in Clients, Resolve(c) PROVE Owed'
  BY <1>6, OneEntry DEF Resolve, Respond, Handing, runVars, steeringVars
<1>7. ASSUME NEW c \in Clients, Seize(c) PROVE Owed'
  <2>0. /\ accepted' = accepted /\ steered' = steered
        /\ \A d \in Clients : d # c =>
              pc'[d] = pc[d] /\ target'[d] = target[d] /\ verdict'[d] = verdict[d]
    BY <1>7, OthersStand DEF Seize, ClientStep
  <2>1. pc'[c] \in {"submit", "idle"}
    BY <1>7, Responded DEF Seize
  <2>2. \A d \in Clients, r \in Runs : Owes(d, r)' => Owes(d, r)
    BY <2>0, <2>1
  <2> QED BY <2>0, <2>2
<1>8. ASSUME NEW c \in Clients, Submit(c) PROVE Owed'
  BY <1>8 DEF Submit, Respond, Handing, jobVars
<1>9. ASSUME NEW c \in Clients, Verify(c) PROVE Owed'
  BY <1>9 DEF Verify, jobVars
<1>10. ASSUME NEW c \in Clients, Send(c) PROVE Owed'
  <2>0. /\ accepted' = accepted /\ steered' = steered /\ target' = target /\ verdict' = verdict
        /\ \A d \in Clients : d # c => pc'[d] = pc[d]
    BY <1>10, OthersStand DEF Send, ClientStep, jobVars
  <2>1. pc'[c] \in {"sent", "fail"} /\ verdict[c] = "none"
    BY <1>10 DEF Send, Reads, ReadBy
  <2>2. \A d \in Clients, r \in Runs : Owes(d, r)' => Owes(d, r)
    BY <2>0, <2>1
  <2> QED BY <2>0, <2>2
<1>11. ASSUME NEW c \in Clients, Returns(c) PROVE Owed'
  BY <1>11 DEF Returns, jobVars
<1>12. ASSUME NEW c \in Clients, Confirm(c) PROVE Owed'
  <2>0. /\ accepted' = accepted /\ pc[c] = "confirm" /\ target'[c] = NoRun
        /\ \A d \in Clients : d # c =>
              pc'[d] = pc[d] /\ target'[d] = target[d] /\ verdict'[d] = verdict[d]
    BY <1>12, OthersStand, ConfirmAdds, Responded DEF ClientStep
  <2>1. \A d \in Clients, r \in Runs : Owes(d, r)' => Owes(d, r) /\ d # c
    BY <2>0
  <2>2. CASE steered' = steered
    BY <2>0, <2>1, <2>2
  <2>3. CASE Steering(c) /\ steered' = [steered EXCEPT ![target[c]] = Sat(@)]
    <3>1. target[c] \in Runs /\ Owes(c, target[c])
      BY <2>0, <2>3
    <3>2. \A r \in Runs : r # target[c] => steered'[r] = steered[r]
      BY <2>3
    <3>3. steered'[target[c]] = Sat(steered[target[c]])
      BY <2>3, <3>1
    <3>4. accepted[target[c]] = 1 => steered[target[c]] = 0
      BY <3>1
    <3> QED BY <2>0, <2>1, <3>1, <3>2, <3>3, <3>4 DEF Sat
  <2> QED BY <1>12, <2>2, <2>3 DEF Confirm
<1>13. ASSUME NEW c \in Clients, Fail(c) PROVE Owed'
  <2>0. /\ accepted' = accepted /\ steered' = steered
        /\ \A d \in Clients : d # c =>
              pc'[d] = pc[d] /\ target'[d] = target[d] /\ verdict'[d] = verdict[d]
    BY <1>13, OthersStand, FailAdds DEF ClientStep
  <2>1. pc'[c] = "idle"
    BY <1>13, FailAdds, Responded
  <2>2. \A d \in Clients, r \in Runs : Owes(d, r)' => Owes(d, r)
    BY <2>0, <2>1
  <2> QED BY <2>0, <2>2
<1>14. ASSUME NEW c \in Clients, NEW q \in Requests, Look(c, q) PROVE Owed'
  BY <1>14 DEF Look, steeringVars
<1>15. ASSUME NEW c \in Clients, NEW r \in Runs, Steer(c, r) PROVE Owed'
  BY <1>15 DEF Steer, steeringVars
<1>16. ASSUME NEW c \in Clients, NEW reply \in {"accepted", "refused"},
              ProviderReplies(c, reply)
       PROVE  Owed'
  <2>0. /\ pc[c] = "sent" /\ verdict[c] = "none" /\ steered' = steered /\ pc' = pc /\ target' = target
        /\ verdict' = [verdict EXCEPT ![c] = reply]
    BY <1>16 DEF ProviderReplies
  <2>1. \A d \in Clients, r \in Runs : Owes(d, r)' => Owes(d, r) \/ d = c
    BY <2>0
  <2>2. CASE Steering(c) /\ reply = "accepted"
    <3>1. target[c] \in Runs /\ onto[c] = target[c] /\ accepted' = [accepted EXCEPT ![target[c]] = Sat(@)]
      BY <1>16, <2>0, <2>2 DEF ProviderReplies, Places, Seizes
    <3>2. \A r \in Runs : r # target[c] => accepted'[r] = accepted[r] /\ ~Owes(c, r)'
      BY <2>0, <3>1
    <3>3. accepted'[target[c]] = Sat(accepted[target[c]])
      BY <3>1
    <3>4. accepted[target[c]] = 0 =>
            steered[target[c]] = 0 /\ \A d \in Clients : ~Owes(d, target[c])
      BY <3>1
    <3> QED BY <2>0, <2>1, <3>1, <3>2, <3>3, <3>4 DEF Sat
  <2>3. CASE ~(Steering(c) /\ reply = "accepted")
    <3>1. accepted' = accepted
      BY <1>16, <2>3, <2>0 DEF ProviderReplies
    <3>2. \A d \in Clients, r \in Runs : Owes(d, r)' => Owes(d, r)
      BY <2>0, <2>1, <2>3
    <3> QED BY <2>0, <3>1, <3>2
  <2> QED BY <2>2, <2>3
<1>17. CASE AgentStep \/ RunStep
  BY <1>17, HandlersWait
<1>18. CASE UNCHANGED vars
  BY <1>18 DEF vars
<1> QED BY <1>1, <1>2, <1>3, <1>4, <1>5, <1>6, <1>7, <1>8, <1>9, <1>10, <1>11,
      <1>12, <1>13, <1>14, <1>15, <1>16, <1>17, <1>18 DEF Next, ClientStep

\* A question leaves the maps by its handler's hand, or when its agent closes it.
LEMMA OfferedKept ==
  ASSUME DistinctIdsUsed, IInv, Reads, Claims, Offered, [Next]_vars
  PROVE  Offered'
<1> USE BrokerAssumption DEF IInv, TypeOK, Requests, Questions, Goto, Works,
      Fails, Steering, Offered, Reads, ReadBy, Claims
<1>1. ASSUME NEW c \in Clients, Claim(c) PROVE Offered'
  BY <1>1, OneEntry DEF Claim, Respond, Places, runVars
<1>2. ASSUME NEW c \in Clients, Persist(c) PROVE Offered'
  <2>0. /\ asked' = asked /\ listed' = listed /\ owner' = owner
        /\ active' = active /\ past' = past /\ faults' <= faults /\ faults' \in Nat
        /\ \A d \in Clients : d # c => pc'[d] = pc[d] /\ held'[d] = held[d]
    BY <1>2, OthersStand, PersistAdds DEF ClientStep
  <2>1. (held'[c] = held[c] /\ pc[c] = "persist") \/ pc'[c] = "idle"
    BY <1>2, Responded, PersistAdds DEF Persist
  <2> QED BY <2>0, <2>1
<1>3. ASSUME NEW c \in Clients, Check(c) PROVE Offered'
  BY <1>3, OneEntry DEF Check, Respond, Places, runVars, jobVars
<1>4. ASSUME NEW c \in Clients, DeliverBlocking(c) PROVE Offered'
  BY <1>4 DEF DeliverBlocking, Respond, runVars
<1>5. ASSUME NEW c \in Clients, RecordDecision(c) PROVE Offered'
  BY <1>5, RecordAdds DEF Adds, Respond, Fails, Sat, Places
<1>6. ASSUME NEW c \in Clients, Resolve(c) PROVE Offered'
  BY <1>6, OneEntry DEF Resolve, Respond, Places, runVars
<1>7. ASSUME NEW c \in Clients, Seize(c) PROVE Offered'
  BY <1>7 DEF Seize, Respond, runVars, requestVars
<1>8. ASSUME NEW c \in Clients, Submit(c) PROVE Offered'
  BY <1>8 DEF Submit, Respond, runVars, requestVars, jobVars
<1>9. ASSUME NEW c \in Clients, Verify(c) PROVE Offered'
  BY <1>9 DEF Verify, runVars, requestVars, jobVars
<1>10. ASSUME NEW c \in Clients, Send(c) PROVE Offered'
  BY <1>10 DEF Send, runVars, jobVars
<1>11. ASSUME NEW c \in Clients, Returns(c) PROVE Offered'
  BY <1>11 DEF Returns, runVars, requestVars, jobVars
<1>12. ASSUME NEW c \in Clients, Confirm(c) PROVE Offered'
  BY <1>12, ConfirmAdds DEF Adds, Respond, Fails, Sat, Places
<1>13. ASSUME NEW c \in Clients, Fail(c) PROVE Offered'
  BY <1>13, FailAdds DEF Adds, Respond, Fails, Sat, Places
<1>14. ASSUME NEW c \in Clients, NEW q \in Requests, Look(c, q) PROVE Offered'
  BY <1>14 DEF Look, runVars, requestVars
<1>15. ASSUME NEW c \in Clients, NEW r \in Runs, Steer(c, r) PROVE Offered'
  BY <1>15 DEF Steer, runVars, requestVars
<1>16. ASSUME NEW c \in Clients, NEW reply \in {"accepted", "refused"},
              ProviderReplies(c, reply)
       PROVE  Offered'
  BY <1>16 DEF ProviderReplies, runVars
<1>17. ASSUME NEW q \in Requests, Ask(q) PROVE Offered'
  BY <1>17 DEF Ask, runVars, clientVars
<1>18. ASSUME NEW q \in Requests, TakeAnswer(q) PROVE Offered'
  BY <1>18 DEF TakeAnswer, runVars, clientVars
<1>19. ASSUME NEW q \in Requests, Close(q) PROVE Offered'
  BY <1>19 DEF Close, runVars, clientVars
<1>20. ASSUME NEW r \in Runs, RegisterSteering(r) PROVE Offered'
  BY <1>20 DEF RegisterSteering, runVars, requestVars, clientVars
<1>21. ASSUME NEW r \in Runs, UnregisterSteering(r) PROVE Offered'
  BY <1>21 DEF UnregisterSteering, runVars, requestVars, clientVars
<1>22. ASSUME NEW r \in Runs, Register(r) PROVE Offered'
  BY <1>22 DEF Register, requestVars, clientVars
<1>23. CASE CloseAgent
  BY <1>23 DEF CloseAgent, requestVars, clientVars
<1>24. CASE Cancel
  BY <1>24 DEF Cancel, requestVars, clientVars
<1>25. CASE Settle
  BY <1>25 DEF Settle, requestVars, clientVars
<1>26. CASE Cleanup
  BY <1>26 DEF Cleanup, requestVars, clientVars
<1>27. CASE UNCHANGED vars
  BY <1>27 DEF vars
<1> QED BY <1>1, <1>2, <1>3, <1>4, <1>5, <1>6, <1>7, <1>8, <1>9, <1>10, <1>11,
      <1>12, <1>13, <1>14, <1>15, <1>16, <1>17, <1>18, <1>19, <1>20, <1>21,
      <1>22, <1>23, <1>24, <1>25, <1>26, <1>27 DEF Next, AgentStep, RunStep,
      ClientStep

\* An outcome is added by a handler whose question has none.
LEMMA OutcomeKept ==
  ASSUME DistinctIdsUsed, IInv, Reads, Claims, Undecided, OneOutcome, [Next]_vars
  PROVE  OneOutcome'
<1> USE BrokerAssumption DEF IInv, TypeOK, Requests, Questions, Goto, Works,
      Fails, Steering, OneOutcome, Kinds
<1>1. ASSUME NEW c \in Clients, Persist(c) PROVE OneOutcome'
  <2>1. CASE log' = log
    BY <2>1
  <2>2. CASE Adds(held[c], "submitted") /\ held[c] \in Async
    <3>1. /\ log[held[c]]["submitted"] = 0 /\ log[held[c]]["answered"] = 0
          /\ log[held[c]]["failed"] = 0
      BY <1>1, <2>2 DEF Persist, Undecided, UndecidedBy
    <3> QED BY <2>2, <3>1 DEF Adds, Sat
  <2>3. CASE Adds(held[c], "answered") /\ held[c] \notin Async
    BY <2>3 DEF Adds
  <2> QED BY <1>1, <2>1, <2>2, <2>3, PersistAdds
<1>2. ASSUME NEW c \in Clients, RecordDecision(c) PROVE OneOutcome'
  BY <1>2, RecordAdds DEF Adds, Respond, Fails, Sat, Places
<1>3. ASSUME NEW c \in Clients, Confirm(c) PROVE OneOutcome'
  <2>1. CASE log' = log
    BY <2>1
  <2>2. CASE Adds(held[c], "answered") /\ held[c] \in Async
    <3>1. /\ log[held[c]]["submitted"] = 1 /\ log[held[c]]["answered"] = 0
          /\ log[held[c]]["failed"] = 0
      BY <1>3, <2>2 DEF Confirm, Undecided, UndecidedBy
    <3> QED BY <2>2, <3>1 DEF Adds, Sat
  <2> QED BY <1>3, <2>1, <2>2, ConfirmAdds
<1>4. ASSUME NEW c \in Clients, Fail(c) PROVE OneOutcome'
  <2>1. CASE log' = log
    BY <2>1
  <2>2. CASE Adds(held[c], "failed") /\ held[c] \in Async
    <3>1. /\ log[held[c]]["submitted"] = 1 /\ log[held[c]]["answered"] = 0
          /\ log[held[c]]["failed"] = 0
      BY <1>4, <2>2 DEF Fail, Undecided, UndecidedBy
    <3> QED BY <2>2, <3>1 DEF Adds, Sat
  <2> QED BY <1>4, <2>1, <2>2, FailAdds
<1>5. CASE log' = log
  BY <1>5
<1> QED BY <1>1, <1>2, <1>3, <1>4, <1>5, LogStays

\* "Answered" is added by a handler that heard its agent accept.
LEMMA AnsweredKept ==
  ASSUME DistinctIdsUsed, IInv, Reads, Undecided, AnsweredMeansAccepted, [Next]_vars
  PROVE  AnsweredMeansAccepted'
<1> USE BrokerAssumption DEF IInv, TypeOK, Requests, Questions, Goto, Works,
      Fails, Steering, AnsweredMeansAccepted, Kinds
<1>1. ASSUME NEW c \in Clients, Persist(c) PROVE AnsweredMeansAccepted'
  <2>1. \A q \in Async : log'[q]["answered"] = log[q]["answered"]
    BY <1>1, PersistAdds DEF Adds, Kinds
  <2> QED BY <1>1, <2>1, PersistAdds
<1>2. ASSUME NEW c \in Clients, RecordDecision(c) PROVE AnsweredMeansAccepted'
  BY <1>2, RecordAdds DEF Adds, Respond, Fails, Sat, Places
<1>3. ASSUME NEW c \in Clients, Confirm(c) PROVE AnsweredMeansAccepted'
  <2>1. \A q \in Async : q # held[c] => log'[q]["answered"] = log[q]["answered"]
    BY <1>3, ConfirmAdds DEF Adds, Kinds
  <2>2. held[c] \in Async => taken[held[c]] > 0
    BY <1>3 DEF Confirm, Undecided, UndecidedBy
  <2> QED BY <1>3, <2>1, <2>2, ConfirmAdds
<1>4. ASSUME NEW c \in Clients, Fail(c) PROVE AnsweredMeansAccepted'
  BY <1>4, FailAdds DEF Adds, Respond, Fails, Sat, Places
<1>5. CASE log' = log
  BY <1>5, TakenStays
<1> QED BY <1>1, <1>2, <1>3, <1>4, <1>5, LogStays

\* An open request leaves the maps only into the hands of a handler, which lets
\* go of it when it was given or failed, or when a write has.
LEMMA WaitingKept ==
  ASSUME DistinctIdsUsed, IInv, Reads, Claims, Undecided, Offered, WaitingCanBeAnswered, [Next]_vars
  PROVE  WaitingCanBeAnswered'
<1> USE BrokerAssumption DEF IInv, TypeOK, Requests, Questions, Goto, Works,
      Fails, Steering, WaitingCanBeAnswered, Kinds
<1>1. ASSUME NEW c \in Clients, Claim(c) PROVE WaitingCanBeAnswered'
  <2>0. /\ asked' = asked /\ listed' = listed /\ owner' = owner /\ given' = given
        /\ active' = active /\ cancelled' = cancelled /\ closed' = closed /\ log' = log
        /\ faults' = faults /\ pc[c] = "claim"
        /\ \A d \in Clients : d # c => pc'[d] = pc[d] /\ held'[d] = held[d]
    BY <1>1, OthersStand DEF ClientStep, Claim, runVars, jobVars
  <2>1. \/ answering' = answering
        \/ \E q \in Requests : answering' = answering \cup {q} /\ held'[c] = q /\ pc'[c] = "persist"
    BY <1>1 DEF Claim, Entry
  <2> QED BY <2>0, <2>1 DEF Live
<1>2. ASSUME NEW c \in Clients, Persist(c) PROVE WaitingCanBeAnswered'
  <2>0. /\ asked' = asked /\ listed' = listed /\ owner' = owner /\ given' = given
        /\ active' = active /\ cancelled' = cancelled /\ closed' = closed
        /\ \A d \in Clients : d # c => pc'[d] = pc[d] /\ held'[d] = held[d]
    BY <1>2, OthersStand, PersistAdds DEF ClientStep
  <2>1. \A q \in Requests : /\ log[q]["failed"] > 0 => log'[q]["failed"] > 0
                            /\ log[q]["submitted"] > 0 => log'[q]["submitted"] > 0
    <3>1. log' = log \/ \E kind : Adds(held[c], kind)
      BY <1>2, PersistAdds
    <3> QED BY <3>1, AddingKeeps DEF Kinds
  <2>2. CASE answering' = answering /\ held' = held /\ pc'[c] = "check" /\ faults' = faults
    BY <2>0, <2>1, <2>2 DEF Live
  <2>3. CASE answering' = answering \ {held[c]} /\ Respond(c) /\ Fails
    <3>1. asked[held[c]] = "open" => held[c] \in listed
      BY <1>2 DEF Persist, Offered
    <3> QED BY <2>0, <2>1, <2>3, <3>1 DEF Live
  <2> QED BY <1>2, <2>2, <2>3, PersistAdds
<1>3. ASSUME NEW c \in Clients, Check(c) PROVE WaitingCanBeAnswered'
  <2>0. /\ asked' = asked /\ owner' = owner /\ given' = given /\ answering' = answering
        /\ active' = active /\ cancelled' = cancelled /\ closed' = closed /\ log' = log
        /\ faults' = faults /\ pc[c] = "check"
        /\ \A d \in Clients : d # c => pc'[d] = pc[d] /\ held'[d] = held[d]
    BY <1>3, OthersStand DEF ClientStep, Check, runVars, jobVars
  <2>1. \A q \in listed : q \in listed' \/ q \in answering
    <3>1. held[c] \in Questions /\ held[c] \in answering
      BY <2>0 DEF Places, Claims
    <3>2. \A x \in Entry(onto[c], held[c]) : x = held[c]
      BY <3>1, OneEntry
    <3> QED BY <1>3, <3>1, <3>2 DEF Check
  <2>2. CASE pc'[c] \in {"deliver", "fail"} /\ held' = held
    BY <2>0, <2>1, <2>2 DEF Live
  <2>3. CASE ~(Live(onto[c]) /\ held[c] \in listed)
    <3>1. owner[held[c]] = onto[c] /\ (asked[held[c]] = "open" => held[c] \in listed)
      BY <2>0 DEF Handing, Offered
    <3> QED BY <2>0, <2>1, <2>3, <3>1 DEF Live
  <2> QED BY <1>3, <2>2, <2>3 DEF Check, jobVars
<1>4. ASSUME NEW c \in Clients, DeliverBlocking(c) PROVE WaitingCanBeAnswered'
  BY <1>4 DEF DeliverBlocking, Respond, Live, Sat, runVars
<1>5. ASSUME NEW c \in Clients, RecordDecision(c) PROVE WaitingCanBeAnswered'
  <2>0. /\ asked' = asked /\ listed' = listed /\ owner' = owner /\ given' = given
        /\ active' = active /\ cancelled' = cancelled /\ closed' = closed
        /\ answering' = answering /\ pc[c] = "record"
        /\ \A d \in Clients : d # c => pc'[d] = pc[d] /\ held'[d] = held[d]
    BY <1>5, OthersStand, RecordAdds DEF ClientStep, RecordDecision
  <2>1. \A q \in Requests : /\ log[q]["failed"] > 0 => log'[q]["failed"] > 0
                            /\ log[q]["submitted"] > 0 => log'[q]["submitted"] > 0
    <3>1. log' = log \/ Adds(seen[c], "resolved")
      BY <1>5, RecordAdds
    <3> QED BY <3>1, AddingKeeps DEF Kinds
  <2>2. faults' \in Nat /\ faults' <= faults
    BY <1>5, RecordAdds
  <2> QED BY <2>0, <2>1, <2>2 DEF Live
<1>6. ASSUME NEW c \in Clients, Resolve(c) PROVE WaitingCanBeAnswered'
  <2>0. /\ asked' = asked /\ owner' = owner /\ given' = given /\ answering' = answering
        /\ active' = active /\ cancelled' = cancelled /\ closed' = closed /\ log' = log
        /\ faults' = faults /\ pc[c] = "resolve"
        /\ \A d \in Clients : d # c => pc'[d] = pc[d] /\ held'[d] = held[d]
    BY <1>6, OthersStand DEF ClientStep, Resolve, runVars
  <2>1. CASE listed' = listed
    BY <2>0, <2>1 DEF Live
  <2>2. ASSUME NEW q \in Entry(active, seen[c]),
               listed' = listed \ {q}, held'[c] = q, pc'[c] = "deliver"
        PROVE  WaitingCanBeAnswered'
    BY <2>0, <2>2, SMTT(30) DEF Live
  <2> QED BY <1>6, <2>1, <2>2 DEF Resolve
<1>7. ASSUME NEW c \in Clients, Seize(c) PROVE WaitingCanBeAnswered'
  BY <1>7 DEF Seize, Respond, Live, runVars, requestVars
<1>8. ASSUME NEW c \in Clients, Submit(c) PROVE WaitingCanBeAnswered'
  BY <1>8 DEF Submit, Respond, Live, runVars, requestVars, jobVars
<1>9. ASSUME NEW c \in Clients, Verify(c) PROVE WaitingCanBeAnswered'
  BY <1>9 DEF Verify, Live, runVars, requestVars, jobVars
<1>10. ASSUME NEW c \in Clients, Send(c) PROVE WaitingCanBeAnswered'
  BY <1>10 DEF Send, Live, Sat, Places, runVars, jobVars
<1>11. ASSUME NEW c \in Clients, Returns(c) PROVE WaitingCanBeAnswered'
  BY <1>11 DEF Returns, Live, runVars, requestVars, jobVars
<1>12. ASSUME NEW c \in Clients, Confirm(c) PROVE WaitingCanBeAnswered'
  <2>0. /\ asked' = asked /\ listed' = listed /\ owner' = owner /\ given' = given
        /\ active' = active /\ cancelled' = cancelled /\ closed' = closed
        /\ answering' = answering /\ faults' <= faults /\ faults' \in Nat
        /\ pc[c] = "confirm"
        /\ \A d \in Clients : d # c => pc'[d] = pc[d] /\ held'[d] = held[d]
    BY <1>12, OthersStand, ConfirmAdds DEF ClientStep
  <2>1. \A q \in Requests : /\ log[q]["failed"] > 0 => log'[q]["failed"] > 0
                            /\ log[q]["submitted"] > 0 => log'[q]["submitted"] > 0
    <3>1. log' = log \/ Adds(held[c], "answered")
      BY <1>12, ConfirmAdds
    <3> QED BY <3>1, AddingKeeps DEF Kinds
  <2> QED BY <2>0, <2>1 DEF Live
<1>13. ASSUME NEW c \in Clients, Fail(c) PROVE WaitingCanBeAnswered'
  <2>0. /\ asked' = asked /\ listed' = listed /\ owner' = owner /\ given' = given
        /\ active' = active /\ cancelled' = cancelled /\ closed' = closed
        /\ answering' = answering
        /\ \A d \in Clients : d # c => pc'[d] = pc[d] /\ held'[d] = held[d]
    BY <1>13, OthersStand, FailAdds DEF ClientStep
  <2>1. \A q \in Requests : /\ log[q]["failed"] > 0 => log'[q]["failed"] > 0
                            /\ log[q]["submitted"] > 0 => log'[q]["submitted"] > 0
    <3>1. log' = log \/ Adds(held[c], "failed")
      BY <1>13, FailAdds
    <3> QED BY <3>1, AddingKeeps DEF Kinds
  <2>2. faults' \in Nat /\ faults' <= faults
    BY <1>13, FailAdds
  <2>3. \A q \in Requests : q = held[c] =>
          log'[q]["failed"] > 0 \/ (log'[q]["submitted"] > 0 /\ faults' < MaxFaults)
    <3>1. CASE Steering(c)
      BY <1>13, <3>1 DEF Places
    <3>2. CASE ~Steering(c)
      <4>1. held[c] \in Async /\ log[held[c]]["submitted"] = 1
        BY <1>13, <3>2, FailAdds DEF Undecided, UndecidedBy
      <4>2. CASE Adds(held[c], "failed")
        BY <4>1, <4>2 DEF Adds, Kinds, Sat
      <4>3. CASE log' = log /\ Fails
        BY <4>1, <4>3 DEF Fails, Offered
      <4> QED BY <1>13, <3>2, <4>2, <4>3, FailAdds
    <3> QED BY <3>1, <3>2
  <2> QED BY <2>0, <2>1, <2>2, <2>3 DEF Live
<1>14. ASSUME NEW c \in Clients, NEW q \in Requests, Look(c, q)
       PROVE  WaitingCanBeAnswered'
  BY <1>14 DEF Look, Live, runVars, requestVars
<1>15. ASSUME NEW c \in Clients, NEW r \in Runs, Steer(c, r)
       PROVE  WaitingCanBeAnswered'
  BY <1>15 DEF Steer, Live, runVars, requestVars
<1>16. ASSUME NEW c \in Clients, NEW reply \in {"accepted", "refused"},
              ProviderReplies(c, reply)
       PROVE  WaitingCanBeAnswered'
  BY <1>16 DEF ProviderReplies, Live, runVars
<1>17. ASSUME NEW q \in Requests, Ask(q) PROVE WaitingCanBeAnswered'
  BY <1>17 DEF Ask, Live, Claims, runVars, clientVars
<1>18. ASSUME NEW q \in Requests, TakeAnswer(q) PROVE WaitingCanBeAnswered'
  BY <1>18 DEF TakeAnswer, Live, runVars, clientVars
<1>19. ASSUME NEW q \in Requests, Close(q) PROVE WaitingCanBeAnswered'
  BY <1>19 DEF Close, Live, runVars, clientVars
<1>20. ASSUME NEW r \in Runs, RegisterSteering(r) PROVE WaitingCanBeAnswered'
  BY <1>20 DEF RegisterSteering, Live, runVars, requestVars, clientVars
<1>21. ASSUME NEW r \in Runs, UnregisterSteering(r) PROVE WaitingCanBeAnswered'
  BY <1>21 DEF UnregisterSteering, Live, runVars, requestVars, clientVars
<1>22. ASSUME NEW r \in Runs, Register(r) PROVE WaitingCanBeAnswered'
  BY <1>22 DEF Register, Live, Offered, requestVars
<1>23. CASE CloseAgent
  BY <1>23 DEF CloseAgent, Live
<1>24. CASE Cancel
  BY <1>24 DEF Cancel, Live
<1>25. CASE Settle
  BY <1>25 DEF Settle, Live
<1>26. CASE Cleanup
  BY <1>26 DEF Cleanup, Live
<1>27. CASE UNCHANGED vars
  BY <1>27 DEF vars, Live
<1> QED BY <1>1, <1>2, <1>3, <1>4, <1>5, <1>6, <1>7, <1>8, <1>9, <1>10, <1>11,
      <1>12, <1>13, <1>14, <1>15, <1>16, <1>17, <1>18, <1>19, <1>20, <1>21,
      <1>22, <1>23, <1>24, <1>25, <1>26, <1>27 DEF Next, AgentStep, RunStep,
      ClientStep

\* Every part holds before anything has happened.
LEMMA CountsInit == Init => CountsInv
<1> SUFFICES ASSUME Init PROVE CountsInv
  OBVIOUS
<1> USE BrokerAssumption DEF Init, Requests, Questions, Steering, Kinds
<1>1. IInv
  BY InitInvariant
<1>2. Reads /\ Undecided
  BY DEF Reads, ReadBy, Undecided, UndecidedBy
<1>3. Claims
  BY DEF Claims
<1>4. Owed /\ Offered
  BY DEF Owed, Owes, Offered
<1>5. RecordedBeforeGiven /\ OneOutcome /\ AnsweredMeansAccepted
  <2>1. \A q \in Requests : given[q] = 0
    OBVIOUS
  <2>2. \A q \in Async :
          log[q]["submitted"] = 0 /\ log[q]["answered"] = 0 /\ log[q]["failed"] = 0
    OBVIOUS
  <2>3. RecordedBeforeGiven
    BY <2>1 DEF RecordedBeforeGiven
  <2> QED BY <2>2, <2>3 DEF OneOutcome, AnsweredMeansAccepted
<1>6. WaitingCanBeAnswered
  BY DEF WaitingCanBeAnswered
<1> QED BY <1>1, <1>2, <1>3, <1>4, <1>5, <1>6 DEF CountsInv

\* CountsInv holds in every reachable state, if ids are used once.
THEOREM CountsInvariance == ASSUME DistinctIdsUsed PROVE Spec => []CountsInv
<1>1. CountsInv /\ [Next]_vars => CountsInv'
  BY DistinctIdsUsed, NextInvariant, ReadsKept, ClaimsKept, UndecidedKept,
     OwedKept, OfferedKept, RecordedKept, OutcomeKept, AnsweredKept,
     WaitingKept DEF CountsInv
<1> QED BY <1>1, CountsInit, PTL DEF Spec

\* What people send counts once and is on record, whatever the clients, the
\* agent, the end of the run and failing writes do between two steps of a
\* handler: recorded before it is given, given once, with one outcome, and no
\* request its agent waits for is out of reach.
THEOREM InputCountsAlways == ASSUME DistinctIdsUsed PROVE Spec => []InputCounts
<1>1. CountsInv => InputCounts
  <2> SUFFICES ASSUME CountsInv PROVE InputCounts
    OBVIOUS
  <2>1. SteeredMeansAccepted
    <3>1. \A r \in Runs : accepted[r] \in 0..2 /\ steered[r] \in 0..2
      BY DEF CountsInv, IInv, TypeOK
    <3>2. \A r \in Runs : /\ accepted[r] = 0 => steered[r] = 0
                          /\ accepted[r] = 1 => steered[r] <= 1
      BY DEF CountsInv, Owed
    <3>3. \A n, k \in 0..2 : (n = 0 => k = 0) /\ (n = 1 => k <= 1) => k <= n
      OBVIOUS
    <3> QED BY <3>1, <3>2, <3>3 DEF SteeredMeansAccepted
  <2>2. SteeringExclusive
    BY DEF CountsInv, IInv, Seizing, Seizes, SteeringExclusive
  <2> QED BY <2>1, <2>2 DEF CountsInv, IInv, InputCounts
<1> QED BY <1>1, CountsInvariance, PTL
=============================================================================
