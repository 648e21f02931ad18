------------------------------ MODULE Composer ------------------------------
(* A message on its way from the prompt to the server (prompt-composer.tsx,
   session-detail.tsx, pending-submissions.ts, composer-drafts.ts, and the
   receipts of internal/httpapi/message_submissions.go).  The text is a
   draft of the tab, shared with the other tabs of the browser; when it is
   sent it becomes a record in IndexedDB, with an identity the server takes
   once; the record goes when the server is known to have the message.  A
   queued message can be taken back into the prompt.

   Tabs are reloaded and closed at any time, storage fails, requests arrive
   late or their answers are lost, and the server may stop at any point of
   taking a message. *)
EXTENDS Integers, Sequences, FiniteSets

CONSTANTS
  Tabs,     \* tabs of one browser that show the session
  Messages, \* what may be typed; each text once
  MaxPresses,
  Scenes    \* bounds, one of which is chosen at first: the tabs that are open, the texts
            \* to type, and how often there are presses (of Send or Queue), faults and leaves

Empty == ""

(* There are finitely many tabs, and what a scene allows stays in its bounds. *)
ASSUME ComposerAssumption ==
  /\ IsFiniteSet(Tabs) /\ MaxPresses \in Nat /\ Empty \notin Messages
  /\ Scenes \subseteq [tabs : SUBSET Tabs, texts : SUBSET Messages,
                     presses : 0 .. MaxPresses, faults : Nat, leaves : Nat]

VARIABLES
  box,       \* per tab: the draft, "" when empty; sessionStorage holds the same
  following, \* per tab: the draft is the one another tab shared (adoptedDraftRef)
  shared,    \* the draft in localStorage
  sub,       \* per tab: the submission under way (handleSubmitPrompt)
  check,     \* per tab: checkSubmission
  back,      \* per tab: the queued message that is taken back, or the stop before it
  records,   \* identities in IndexedDB
  known,     \* per tab: pendingSubmissions, the records it knows of
  heard,     \* per tab: identities whose acceptance arrived as an event
  refused,   \* per tab: rejectedSubmissionIDs
  sent,      \* per identity: the text and whether it was to be queued
  wire,      \* requests the server has not handled: <<tab, from, identity>>
  receipt,   \* per identity: message_submissions
  queued,    \* the server's queue, identities
  ran,       \* identities that became a run
  typed,     \* history: the texts that were typed
  forgotten, \* history: texts the user replaced, dismissed, or closed the last copy of
  pressed,   \* history: per text, how often it was sent
  taken,     \* history: per text, how often the server took it
  scene, promptSpent

promptVars == <<box, following, shared, sub, check, back, records, known, heard, refused, sent,
                wire, receipt, queued, ran, typed, forgotten, pressed, taken, scene, promptSpent>>
drafts == <<box, following, shared>>
server == <<wire, receipt, queued, ran, taken>>
told == <<heard, refused>>
user == <<typed, forgotten, pressed>>

Ids == 1 .. MaxPresses
Idle == [st |-> "idle", id |-> 0, text |-> Empty, queue |-> FALSE, ok |-> FALSE]

PromptSpends(kind) ==
  promptSpent[kind] < scene[kind] /\ promptSpent' = [promptSpent EXCEPT ![kind] = @ + 1]
NewId == Cardinality({i \in Ids : sent[i].text # Empty}) + 1

PromptInit ==
  /\ box = [t \in Tabs |-> Empty] /\ following = [t \in Tabs |-> FALSE] /\ shared = Empty
  /\ sub = [t \in Tabs |-> Idle] /\ check = [t \in Tabs |-> Idle] /\ back = [t \in Tabs |-> Idle]
  /\ records = {} /\ known = [t \in Tabs |-> {}]
  /\ heard = [t \in Tabs |-> {}] /\ refused = [t \in Tabs |-> {}]
  /\ sent = [i \in Ids |-> [text |-> Empty, queue |-> FALSE]]
  /\ wire = {} /\ receipt = [i \in Ids |-> "none"] /\ queued = <<>> /\ ran = {}
  /\ typed = {} /\ forgotten = {}
  /\ pressed = [m \in Messages |-> 0] /\ taken = [m \in Messages |-> 0]
  /\ scene \in Scenes /\ promptSpent = [presses |-> 0, faults |-> 0, leaves |-> 0]

-----------------------------------------------------------------------------
(* Drafts. *)

(* receiveDraft: another tab's draft is taken over by a tab that has none of
   its own and is not busy. *)
Receives(u, m) ==
  /\ u \in scene.tabs /\ sub[u].st = "idle" /\ back[u].st = "idle"
  /\ following[u] \/ (box[u] = Empty /\ m # Empty)

(* Every edit is saved for this tab and published to the others. *)
Publish(t, m) ==
  /\ shared' = m
  /\ box' = [u \in Tabs |-> IF u = t \/ Receives(u, m) THEN m ELSE box[u]]
  /\ following' = [u \in Tabs |-> IF u = t THEN FALSE ELSE following[u] \/ Receives(u, m)]

TypeDraft(t, m) ==
  /\ sub[t].st = "idle" /\ box[t] = Empty /\ m \notin typed
  /\ Publish(t, m) /\ typed' = typed \cup {m}
  /\ UNCHANGED <<sub, check, back, records, known, told, sent, server, forgotten, pressed,
                 promptSpent>>

-----------------------------------------------------------------------------
(* Sending. *)

(* submitPrompt and enqueueDraft: nothing else is pending in this tab. *)
Submit(t, q) ==
  /\ sub[t].st = "idle" /\ back[t].st = "idle" /\ known[t] = {} /\ box[t] # Empty
  /\ PromptSpends("presses")
  /\ sub' = [sub EXCEPT ![t] = [Idle EXCEPT !.st = "reading", !.text = box[t], !.queue = q]]
  /\ pressed' = [pressed EXCEPT ![box[t]] = @ + 1]
  /\ UNCHANGED <<drafts, check, back, records, known, told, sent, server, typed, forgotten>>

(* The records are read again: another tab may have left one.  When there is
   one, or they cannot be read, the draft stays in the prompt. *)
ReadRecords(t) ==
  /\ sub[t].st = "reading"
  /\ \/ records = {} /\ sub' = [sub EXCEPT ![t].st = "saving"] /\ UNCHANGED promptSpent
     \/ records # {} /\ sub' = [sub EXCEPT ![t] = Idle] /\ UNCHANGED promptSpent
     \/ sub' = [sub EXCEPT ![t] = Idle] /\ PromptSpends("faults")
  /\ UNCHANGED <<drafts, check, back, records, known, told, sent, server, user>>

SaveRecord(t) ==
  /\ sub[t].st = "saving"
  /\ \/ /\ records' = records \cup {NewId}
        /\ known' = [known EXCEPT ![t] = records']
        /\ sub' = [sub EXCEPT ![t].st = "saved", ![t].id = NewId]
        /\ sent' = [sent EXCEPT ![NewId] = [text |-> sub[t].text, queue |-> sub[t].queue]]
        /\ UNCHANGED promptSpent
     \/ /\ sub' = [sub EXCEPT ![t] = Idle] /\ PromptSpends("faults")
        /\ UNCHANGED <<records, known, sent>>
  /\ UNCHANGED <<drafts, check, back, told, server, user>>

(* onPrepared clears the prompt, and the request goes out; the prompt of a
   message that is to be queued is cleared after the answer. *)
Send(t) ==
  /\ sub[t].st = "saved"
  /\ sub' = [sub EXCEPT ![t].st = "sent"]
  /\ wire' = wire \cup {<<t, "sub", sub[t].id>>}
  /\ IF sub[t].queue THEN UNCHANGED drafts ELSE Publish(t, Empty)
  /\ UNCHANGED <<check, back, records, known, told, sent, receipt, queued, ran, user, taken,
                 promptSpent>>

(* What a tab hears of a request, when it still waits for it. *)
Hears(t, from, id, ok) ==
  /\ sub' = IF from = "sub" /\ sub[t].st = "sent" /\ sub[t].id = id
            THEN [sub EXCEPT ![t].st = "answered", ![t].ok = ok] ELSE sub
  /\ check' = IF from = "check" /\ check[t].st = "resent" /\ check[t].id = id
              THEN [check EXCEPT ![t].st = "answered", ![t].ok = ok] ELSE check

(* removePendingSubmission, and the list of records is read again in this tab;
   other tabs do not hear of it. *)
RemoveRecord(t, id) == /\ records' = records \ {id}
                       /\ known' = [known EXCEPT ![t] = records']

(* Mutant: an answer of any kind ends the submission. *)
SettlesAnyAnswer(t) == TRUE

(* The message is the server's once it said so, by its answer or an event. *)
Settles(t) == sub[t].ok \/ sub[t].id \in heard[t]

(* The prompt of a message that was to be queued is cleared now.  When the
   record of a message that an event accepted cannot be removed, the error
   reaches the prompt, which has the text back. *)
Clears(t) == IF sub[t].queue THEN Publish(t, Empty) ELSE UNCHANGED drafts
HasBack(t) == IF sub[t].queue THEN UNCHANGED drafts ELSE Publish(t, sub[t].text)

Answered(t) ==
  /\ sub[t].st = "answered"
  /\ sub' = [sub EXCEPT ![t] = Idle]
  /\ \/ Settles(t) /\ RemoveRecord(t, sub[t].id) /\ Clears(t) /\ UNCHANGED promptSpent
     \/ ~Settles(t) /\ Clears(t) /\ UNCHANGED <<records, known, promptSpent>>
     \/ /\ Settles(t) /\ PromptSpends("faults") /\ UNCHANGED <<records, known>>
        /\ IF sub[t].id \in heard[t] THEN HasBack(t) ELSE Clears(t)
  /\ UNCHANGED <<check, back, told, sent, server, user>>

(* The deadline of 30 seconds, or a lost connection: the request itself may
   be lost, or still arrive. *)
NoAnswer(t, from, id) ==
  /\ <<t, from, id>> \in wire /\ PromptSpends("faults")
  /\ Hears(t, from, id, FALSE)
  /\ \/ wire' = wire \ {<<t, from, id>>}
     \/ UNCHANGED wire
  /\ UNCHANGED <<drafts, back, records, known, told, sent, receipt, queued, ran, user, taken>>

-----------------------------------------------------------------------------
(* The server: a submission is claimed, done, and its receipt completed. *)

(* Mutant: the claim is not durable. *)
ClaimsAgain(id) == TRUE

Claims(id) == receipt[id] = "none"

Do(id) ==
  /\ taken' = [taken EXCEPT ![sent[id].text] = @ + 1]
  /\ IF sent[id].queue THEN queued' = Append(queued, id) /\ UNCHANGED ran
     ELSE ran' = ran \cup {id} /\ UNCHANGED queued

Handle(t, from, id) ==
  /\ <<t, from, id>> \in wire /\ wire' = wire \ {<<t, from, id>>}
  /\ \/ /\ Claims(id) /\ Do(id)
        /\ \/ receipt' = [receipt EXCEPT ![id] = "accepted"] /\ Hears(t, from, id, TRUE)
              /\ UNCHANGED promptSpent
           \/ receipt' = [receipt EXCEPT ![id] = "unknown"] /\ Hears(t, from, id, FALSE)
              /\ PromptSpends("faults")
     \/ /\ Claims(id)           \* rejected, or the server stops before the message is taken
        /\ \/ receipt' = [receipt EXCEPT ![id] = "rejected"]
           \/ receipt' = [receipt EXCEPT ![id] = "unknown"]
        /\ Hears(t, from, id, FALSE) /\ PromptSpends("faults")
        /\ UNCHANGED <<queued, ran, taken>>
     \/ /\ ~Claims(id)          \* the receipt answers
        /\ Hears(t, from, id, receipt[id] = "accepted")
        /\ UNCHANGED <<receipt, queued, ran, taken, promptSpent>>
  /\ UNCHANGED <<drafts, back, records, known, told, sent, user>>

(* GetMessageSubmission: an unsettled receipt is settled by what is there. *)
Elements(q) == {q[i] : i \in DOMAIN q}
Status(id) ==
  IF receipt[id] = "none" THEN "not_received"
  ELSE IF id \in ran \cup Elements(queued) THEN "accepted" ELSE receipt[id]

RunNext ==
  /\ queued # <<>>
  /\ ran' = ran \cup {Head(queued)} /\ queued' = Tail(queued)
  /\ UNCHANGED <<drafts, sub, check, back, records, known, told, sent, wire, receipt, user,
                 taken, promptSpent>>

-----------------------------------------------------------------------------
(* Recovery. *)

(* The acceptance of a message arrives as an event; the record goes, when this
   tab knows of it. *)
SeeAccepted(t, id) ==
  /\ id \in (ran \cup Elements(queued)) \ heard[t]
  /\ heard' = [heard EXCEPT ![t] = @ \cup {id}]
  /\ IF id \in known[t] THEN RemoveRecord(t, id) ELSE UNCHANGED <<records, known>>
  /\ UNCHANGED <<drafts, sub, check, back, refused, sent, server, user, promptSpent>>

(* A tab that knows of a record asks by itself while it is not sending. *)
AskUnprompted(t, id) ==
  /\ id \in known[t] /\ sub[t].st = "idle" /\ Status(id) = "accepted"
  /\ RemoveRecord(t, id)
  /\ UNCHANGED <<drafts, sub, check, back, told, sent, server, user, promptSpent>>

(* "Check delivery" and "Retry safely". *)
Check(t, id) ==
  /\ check[t].st = "idle" /\ id \in known[t] \ heard[t] /\ sub[t].id # id
  /\ check' = [check EXCEPT ![t] = [Idle EXCEPT !.st = "asked", !.id = id]]
  /\ UNCHANGED <<drafts, sub, back, records, known, told, sent, server, user, promptSpent>>

CheckAnswered(t) ==
  LET id == check[t].id
  IN  /\ check[t].st = "asked"
      /\ \/ /\ Status(id) = "accepted" /\ RemoveRecord(t, id)
            /\ check' = [check EXCEPT ![t] = Idle] /\ UNCHANGED <<refused, wire>>
         \/ /\ Status(id) = "not_received"     \* the same identity goes out again
            /\ wire' = wire \cup {<<t, "check", id>>}
            /\ check' = [check EXCEPT ![t].st = "resent"] /\ UNCHANGED <<records, known, refused>>
         \/ /\ Status(id) = "rejected"
            /\ refused' = [refused EXCEPT ![t] = @ \cup {id}]
            /\ check' = [check EXCEPT ![t] = Idle] /\ UNCHANGED <<records, known, wire>>
         \/ /\ Status(id) \in {"unknown", "not_received"}
            /\ check' = [check EXCEPT ![t] = Idle] /\ UNCHANGED <<records, known, refused, wire>>
      /\ UNCHANGED <<drafts, sub, back, heard, sent, receipt, queued, ran, user, taken,
                     promptSpent>>

RetryAnswered(t) ==
  /\ check[t].st = "answered"
  /\ check' = [check EXCEPT ![t] = Idle]
  /\ IF check[t].ok THEN RemoveRecord(t, check[t].id) ELSE UNCHANGED <<records, known>>
  /\ UNCHANGED <<drafts, sub, back, told, sent, server, user, promptSpent>>

(* "Dismiss rejected message": the user has copied what is still wanted. *)
Dismiss(t, id) ==
  /\ id \in refused[t] \cap known[t]
  /\ RemoveRecord(t, id) /\ forgotten' = forgotten \cup {sent[id].text}
  /\ UNCHANGED <<drafts, sub, check, back, told, sent, server, typed, pressed, promptSpent>>

-----------------------------------------------------------------------------
(* Taking a queued message back. *)

(* restoreQueuedDraft saves the draft before it asks the server to remove the
   message, and leaves the queue alone when it could not. *)
RestoreDraft(t, id) ==
  \/ /\ Publish(t, sent[id].text)
     /\ back' = [back EXCEPT ![t] = [Idle EXCEPT !.st = "removing", !.id = id]]
     /\ UNCHANGED promptSpent
  \/ back' = [back EXCEPT ![t] = Idle] /\ PromptSpends("faults") /\ UNCHANGED drafts

(* moveQueuedDraft replaces the draft: the user asked for it. *)
MoveBack(t, id) ==
  /\ id \in Elements(queued) /\ sub[t].st = "idle" /\ back[t].st = "idle"
  /\ RestoreDraft(t, id)
  /\ forgotten' = forgotten \cup ({box[t]} \ {Empty, sent[id].text})
  /\ UNCHANGED <<sub, check, records, known, told, sent, server, typed, pressed>>

(* handleCancel: after the run was stopped, the first queued message comes
   back by itself, into a prompt that was empty and still is. *)
Stop(t) ==
  /\ ran # {} /\ queued # <<>> /\ back[t].st = "idle" /\ sub[t].st = "idle" /\ box[t] = Empty
  /\ back' = [back EXCEPT ![t].st = "stopping"]
  /\ UNCHANGED <<drafts, sub, check, records, known, told, sent, server, user, promptSpent>>

StillEmpty(t) == box[t] = Empty /\ shared = Empty

Stopped(t) ==
  /\ back[t].st = "stopping"
  /\ IF StillEmpty(t) /\ queued # <<>> THEN RestoreDraft(t, Head(queued))
     ELSE back' = [back EXCEPT ![t] = Idle] /\ UNCHANGED <<drafts, promptSpent>>
  /\ UNCHANGED <<sub, check, records, known, told, sent, server, user>>

(* The queue without a message, when it is there. *)
Without(q, id) ==
  IF id \notin Elements(q) THEN q
  ELSE LET k == CHOOSE i \in DOMAIN q : q[i] = id
       IN  [i \in 1 .. Len(q) - 1 |-> IF i < k THEN q[i] ELSE q[i + 1]]

(* The queue gives a message away once: to this request, or to a run. *)
Removed(t) ==
  /\ back[t].st = "removing"
  /\ queued' = Without(queued, back[t].id)
  /\ back' = [back EXCEPT ![t] = Idle]
  /\ UNCHANGED <<drafts, sub, check, records, known, told, sent, wire, receipt, ran, user, taken,
                 promptSpent>>

-----------------------------------------------------------------------------
(* A tab is reloaded, or closed and opened again: the first keeps the tab's
   own draft, the second has what was shared last. *)
Leave(t) ==
  /\ PromptSpends("leaves")
  /\ sub' = [sub EXCEPT ![t] = Idle] /\ check' = [check EXCEPT ![t] = Idle]
  /\ back' = [back EXCEPT ![t] = Idle]
  /\ known' = [known EXCEPT ![t] = records] /\ refused' = [refused EXCEPT ![t] = {}]
  /\ following' = [following EXCEPT ![t] = FALSE]
  /\ \/ UNCHANGED <<box, forgotten>>
     \/ /\ box' = [box EXCEPT ![t] = shared]
        /\ forgotten' = forgotten \cup ({box[t]} \ {Empty, shared})
  /\ UNCHANGED <<shared, records, heard, sent, server, typed, pressed>>

-----------------------------------------------------------------------------
TabStep(t) ==
  \/ \E m \in scene.texts : TypeDraft(t, m)
  \/ \E q \in BOOLEAN : Submit(t, q)
  \/ ReadRecords(t) \/ SaveRecord(t) \/ Send(t) \/ Answered(t)
  \/ \E id \in Ids : SeeAccepted(t, id) \/ AskUnprompted(t, id) \/ Check(t, id)
                     \/ Dismiss(t, id) \/ MoveBack(t, id)
  \/ CheckAnswered(t) \/ RetryAnswered(t)
  \/ Stop(t) \/ Stopped(t) \/ Removed(t) \/ Leave(t)

PromptNext ==
  /\ \/ \E t \in scene.tabs : TabStep(t)
     \/ \E r \in wire : Handle(r[1], r[2], r[3]) \/ NoAnswer(r[1], r[2], r[3])
     \/ RunNext
  /\ UNCHANGED scene
PromptSpec == PromptInit /\ [][PromptNext]_promptVars

-----------------------------------------------------------------------------
(* A text is always somewhere: in a prompt, among the drafts, in a record, in
   the server's queue, or in a run; unless the user gave it up. *)
TextIsSomewhere ==
  \A m \in typed \ forgotten :
     \/ shared = m \/ \E t \in Tabs : box[t] = m
     \/ \E id \in records \cup Elements(queued) \cup ran : sent[id].text = m

(* However often it is retried, and from whichever tab, the server takes a
   message at most once for each time the user sent it. *)
TakenOncePerPress == \A m \in Messages : taken[m] <= pressed[m]
=============================================================================
