--------------------------- MODULE QueuedMessages ---------------------------
(* The list of queued messages above the prompt (prompt-composer.tsx, and
   queuedMessagesRequests of lib/api.ts).  The list is read over HTTP when
   the prompt is shown, from a cache when it was shown before, and follows the
   events of the stream, of which the page has a window only; an answer is older
   or newer than the events that were heard, so both are reconciled.  The user
   may leave, and return, while anything is under way. *)
EXTENDS Integers, Sequences, FiniteSets

CONSTANTS
  MaxMessages,  \* bound: messages that are ever queued
  QueueBounds   \* bound: how often something may happen, by kind; one of these

\* Messages are numbered, in the order in which they are queued.
ASSUME QueueAssumption == MaxMessages \in Nat

VARIABLES
  waiting,  \* the server's queue, a set of messages
  log,      \* its events: <<message, "queued" or "gone">>
  mounted,  \* the prompt is shown
  list,     \* queuedMessages
  events,   \* queueEventsRef: per message the newest event, or 0
  from,     \* history: the page has heard every event after this one
  upTo,     \* and no event after that one
  basis,    \* history: the list is right as of this event, or of a later one
  removed,  \* removedQueueIDsRef
  reads,    \* the requests for the list, and those that queue a message
  removals, \* the requests to take a message back
  cache,    \* queuedMessagesRequests: nothing, a request, or a list
  queueLeft \* how often something may still happen

queueVars == <<waiting, log, mounted, list, events, from, upTo, basis, removed, reads, removals,
               cache, queueLeft>>
serverVars == <<waiting, log>>
heardVars == <<events, from, upTo>>

QueueIds == 1 .. MaxMessages
NothingHeard == [m \in QueueIds |-> 0]
NoList == [st |-> "none", nr |-> 0, messages |-> {}, at |-> 0]

QueueInit ==
  /\ waiting = {} /\ log = <<>> /\ mounted = FALSE /\ list = {}
  /\ events = NothingHeard /\ from = 0 /\ upTo = 0 /\ basis = 0
  /\ removed = {} /\ reads = {} /\ removals = {} /\ cache = NoList /\ queueLeft \in QueueBounds

QueueSpends(kinds) ==
  /\ \A k \in kinds : queueLeft[k] > 0
  /\ queueLeft' = [k \in DOMAIN queueLeft |-> queueLeft[k] - (IF k \in kinds THEN 1 ELSE 0)]

-----------------------------------------------------------------------------
(* The server (external): messages are queued here or elsewhere, and leave the
   queue for a run or because somebody removed them. *)
Queued(m) == log' = Append(log, <<m, "queued">>) /\ waiting' = waiting \cup {m}
NextMessage == Cardinality({i \in DOMAIN log : log[i][2] = "queued"}) + 1

QueuedElsewhere ==
  /\ NextMessage \in QueueIds /\ Queued(NextMessage)
  /\ UNCHANGED <<mounted, list, heardVars, basis, removed, reads, removals, cache, queueLeft>>
Leaves(m) == /\ m \in waiting /\ waiting' = waiting \ {m} /\ log' = Append(log, <<m, "gone">>)
Launched ==
  /\ \E m \in waiting : Leaves(m)
  /\ UNCHANGED <<mounted, list, heardVars, basis, removed, reads, removals, cache, queueLeft>>

-----------------------------------------------------------------------------
(* reconcileQueuedMessages *)
Says(es, what) == {m \in QueueIds : es[m] # 0 /\ log[es[m]][2] = what}
Reconcile(messages, es) == (messages \cup Says(es, "queued")) \ Says(es, "gone")

(* Mutant: the answer is the list, whatever was heard since it was asked for. *)
TrustAnswer(messages, es) == messages

FromAnswer(messages, es) == Reconcile(messages, es)

(* commitQueuedMessages: what was removed here does not come back, and the
   cache has what is shown. *)
CommitList(messages, gone, at) ==
  /\ list' = messages \ gone /\ basis' = at
  /\ cache' = [st |-> "list", nr |-> 0, messages |-> messages \ gone, at |-> at]

(* The page has a window of the newest events, its queue events after f up to n.
   Of a message the newest one counts, and one heard before when the window has
   none: queueEventsRef. *)
Newest(f, n, es) ==
  [m \in QueueIds |->
     LET of == {i \in f + 1 .. n : log[i][1] = m}
     IN  IF of = {} THEN es[m] ELSE CHOOSE i \in of : \A j \in of : j <= i]

(* History: what the events heard make of a list that was right at b.  They have
   to join up with it, and none may be from before a gap in what was heard. *)
Joined(b, es, f, n) ==
  IF f <= b /\ (\A m \in QueueIds : es[m] = 0 \/ es[m] > f) THEN n ELSE 0
Overlooked == basis < from
Unreconciled == from <= basis /\ basis < upTo

(* Events that were not heard are not in the window any more. *)
Misses(f, heard) == IF f > heard THEN {"missed"} ELSE {}

(* Any event of the session moves the window, and the list is reconciled. *)
HearsWindow(f, n) ==
  /\ f <= n /\ mounted /\ QueueSpends(Misses(f, upTo)) /\ upTo' = n /\ events' = Newest(f, n, events)
  /\ from' = IF f > upTo \/ f < from THEN f ELSE from
  /\ CommitList(Reconcile(list, events'), removed, Joined(basis, events', from', n))
  /\ UNCHANGED <<serverVars, mounted, removed, reads, removals>>
Hear == \E n \in upTo .. Len(log), f \in 0 .. Len(log) : HearsWindow(f, n)

-----------------------------------------------------------------------------
(* A request, and who awaits its answer; before: what had been heard of each
   message when it was sent. *)
ReadAsked(why, mine, before) ==
  [nr |-> queueLeft["read"], why |-> why, mine |-> mine, st |-> "sent", messages |-> {}, at |-> 0,
   before |-> before]

Shared(r) == [r EXCEPT !.why = "show", !.mine = TRUE]

(* fetchQueuedMessages when the prompt is shown: a list that is cached answers at
   once, a request that is cached answers this mounting too.  The events are
   reconciled next, so that the cache has what is shown, an answer or not. *)
Show ==
  \E n \in 0 .. Len(log), f \in 0 .. Len(log) :
    /\ f <= n /\ ~mounted /\ mounted' = TRUE /\ removed' = {}
    /\ from' = f /\ upTo' = n /\ events' = Newest(f, n, NothingHeard)
    /\ \/ /\ cache.st = "list" /\ QueueSpends({"show"} \cup Misses(f, 0))
          /\ CommitList(FromAnswer(cache.messages, events'), {}, Joined(cache.at, events', f, n))
          /\ UNCHANGED reads
       \/ /\ cache.st = "request" /\ QueueSpends({"show"} \cup Misses(f, 0))
          /\ CommitList(Reconcile({}, events'), {}, Joined(0, events', f, n))
          /\ reads' = reads \cup {Shared(r) : r \in {q \in reads : q.why # "post" /\ q.nr = cache.nr}}
       \/ /\ cache.st = "none" /\ QueueSpends({"read"} \cup Misses(f, 0))
          /\ reads' = reads \cup {ReadAsked("show", TRUE, NothingHeard)}
          /\ CommitList(Reconcile({}, events'), {}, Joined(0, events', f, n))
    /\ UNCHANGED <<serverVars, removals>>

(* The user leaves; what is under way goes on.  The answer to a message that was
   queued would be put into the list as it was. *)
Left(r) ==
  IF r.mine /\ r.why = "post"
  THEN [r EXCEPT !.mine = FALSE, !.messages = @ \cup list, !.at = IF @ < basis THEN @ ELSE basis]
  ELSE [r EXCEPT !.mine = FALSE]
Hide ==
  /\ mounted /\ mounted' = FALSE /\ list' = {} /\ basis' = 0 /\ removed' = {}
  /\ events' = NothingHeard /\ from' = 0 /\ upTo' = 0
  /\ reads' = {Left(r) : r \in reads}
  /\ removals' = {[r EXCEPT !.mine = FALSE] : r \in removals}
  /\ UNCHANGED <<serverVars, cache, queueLeft>>

Serve(r) ==
  /\ r.st = "sent"
  /\ reads' = {IF q.nr = r.nr /\ q.st = "sent"
               THEN [q EXCEPT !.st = "answered", !.messages = waiting, !.at = Len(log)] ELSE q :
               q \in reads}
  /\ UNCHANGED <<serverVars, mounted, list, heardVars, basis, removed, removals, cache, queueLeft>>

(* A read that fails leaves the list to the events, and nothing in the cache. *)
Fail(r) ==
  /\ r.st = "sent" /\ QueueSpends({"lost"}) /\ reads' = {q \in reads : q.nr # r.nr} /\ cache' = NoList
  /\ UNCHANGED <<serverVars, mounted, list, heardVars, basis, removed, removals>>

-----------------------------------------------------------------------------
(* An answer that nobody shows is what the cache has, if it still has the request. *)
OnlyCached(r) ==
  /\ cache' = IF cache.st = "request" /\ cache.nr = r.nr
              THEN [st |-> "list", nr |-> 0, messages |-> r.messages, at |-> r.at] ELSE cache
  /\ UNCHANGED <<list, basis>>

ReadAnswered(r) ==
  /\ r.st = "answered" /\ reads' = reads \ {r}
  /\ UNCHANGED <<serverVars, mounted, heardVars, removed, queueLeft>>

ShowAnswer(r) ==
  /\ r.why = "show" /\ ReadAnswered(r) /\ UNCHANGED removals
  /\ IF r.mine
     THEN CommitList(FromAnswer(r.messages, events), removed, Joined(r.at, events, from, upTo))
     ELSE OnlyCached(r)

(* handleCancel: only with what was heard during the read.  The first message is
   taken back, unless something was written meanwhile or it cannot be stored. *)
During(r) == [m \in QueueIds |-> IF events[m] > r.before[m] THEN events[m] ELSE 0]
Removing(m) == [m |-> m, st |-> "asked", mine |-> TRUE]
StopAnswer(r) ==
  /\ r.why = "stop" /\ ReadAnswered(r)
  /\ \/ OnlyCached(r) /\ UNCHANGED removals
     \/ /\ r.mine
        /\ CommitList(FromAnswer(r.messages, During(r)), removed, Joined(r.at, events, from, upTo))
        /\ \/ UNCHANGED removals
           \/ \E m \in list' : /\ \A k \in list' : m <= k
                               /\ removals' = removals \cup {Removing(m)}

(* enqueueDraft shows the queue as it was read; after the user left that may
   still be put into the cache. *)
EnqueueAnswer(r) ==
  /\ r.why = "enqueue" /\ ReadAnswered(r) /\ UNCHANGED removals
  /\ \/ r.mine /\ CommitList(r.messages, removed, r.at)
     \/ ~r.mine /\ OnlyCached(r)
     \/ ~r.mine /\ cache' = [st |-> "list", nr |-> 0, messages |-> r.messages, at |-> r.at]
                /\ UNCHANGED <<list, basis>>

(* A message is queued; the answer usually carries it and it joins the list, even
   if it has left the queue since.  When it does not, the queue is read again; and
   it may be lost. *)
Busy == (\E r \in reads : r.mine /\ r.why # "show") \/ (\E r \in removals : r.mine)
Enqueue ==
  /\ mounted /\ ~Busy /\ QueueSpends({"press"}) /\ NextMessage \in QueueIds /\ Queued(NextMessage)
  /\ reads' = reads \cup
       {[nr |-> 0, why |-> "post", mine |-> TRUE, st |-> "answered", messages |-> {NextMessage},
         at |-> Len(log) + 1, before |-> NothingHeard]}
  /\ UNCHANGED <<mounted, list, heardVars, basis, removed, removals, cache>>
PostAnswer(r) ==
  /\ r.why = "post" /\ reads' = reads \ {r}
  /\ \/ /\ r.mine
        /\ CommitList(list \cup r.messages, removed, IF r.at < basis THEN r.at ELSE basis)
     \/ /\ ~r.mine /\ cache' = [st |-> "list", nr |-> 0, messages |-> r.messages, at |-> r.at]
        /\ UNCHANGED <<list, basis>>
     \/ UNCHANGED <<list, basis, cache>>
  /\ UNCHANGED <<serverVars, mounted, heardVars, removed, removals, queueLeft>>
ReadAfterPost(r) ==
  /\ r.why = "post" /\ QueueSpends({"read"})
  /\ reads' = (reads \ {r}) \cup {ReadAsked("enqueue", r.mine, NothingHeard)}
  /\ cache' = [st |-> "request", nr |-> queueLeft["read"], messages |-> {}, at |-> 0]
  /\ UNCHANGED <<serverVars, mounted, list, heardVars, basis, removed, removals>>

(* handleCancel reads the queue before it takes a message back. *)
ReadAfterStop ==
  /\ mounted /\ ~Busy /\ QueueSpends({"press", "read"})
  /\ reads' = reads \cup {ReadAsked("stop", TRUE, events)}
  /\ cache' = [st |-> "request", nr |-> queueLeft["read"], messages |-> {}, at |-> 0]
  /\ UNCHANGED <<serverVars, mounted, list, heardVars, basis, removed, removals>>

(* removeQueuedDraft, moveQueuedDraft: the message leaves the queue, or had left
   it before. *)
Remove(m) ==
  /\ mounted /\ ~Busy /\ QueueSpends({"press"})
  /\ m \in list /\ removals' = removals \cup {Removing(m)}
  /\ UNCHANGED <<serverVars, mounted, list, heardVars, basis, removed, reads, cache>>
ServeRemoval(r) ==
  /\ r.st = "asked"
  /\ \/ /\ Leaves(r.m) /\ UNCHANGED queueLeft
        /\ removals' = (removals \ {r}) \cup {[r EXCEPT !.st = "done"]}
     \/ /\ UNCHANGED serverVars /\ QueueSpends(IF r.m \in waiting THEN {"lost"} ELSE {})
        /\ removals' = (removals \ {r}) \cup {[r EXCEPT !.st = "failed"]}
  /\ UNCHANGED <<mounted, list, heardVars, basis, removed, reads, cache>>

(* Whatever came of it, and whoever is there, the cache is given up; then what
   was removed leaves the list of the prompt that asked. *)
RemovalAnswer(r) ==
  /\ r.st # "asked" /\ removals' = removals \ {r}
  /\ \/ /\ r.st = "done" /\ r.mine /\ removed' = removed \cup {r.m}
        /\ CommitList(list, removed', basis)
        /\ UNCHANGED queueLeft
     \/ /\ r.st = "failed" \/ ~r.mine
        /\ cache' = NoList /\ UNCHANGED <<list, basis, removed, queueLeft>>
     \/ /\ r.st = "done" /\ r.mine /\ QueueSpends({"lost"})
        /\ cache' = NoList /\ UNCHANGED <<list, basis, removed>>
  /\ UNCHANGED <<serverVars, mounted, heardVars, reads>>

QueueNext ==
  \/ QueuedElsewhere \/ Launched \/ Hear \/ Show \/ Hide \/ Enqueue \/ ReadAfterStop
  \/ \E m \in QueueIds : Remove(m)
  \/ \E r \in reads : \/ Serve(r) \/ Fail(r) \/ ShowAnswer(r) \/ StopAnswer(r) \/ EnqueueAnswer(r)
                       \/ PostAnswer(r) \/ ReadAfterPost(r)
  \/ \E r \in removals : ServeRemoval(r) \/ RemovalAnswer(r)
QueueSpec == QueueInit /\ [][QueueNext]_queueVars

-----------------------------------------------------------------------------
(* When the page has heard everything, the list is the server's queue, however
   answers and events overlapped, whatever window the page had of them and whenever
   the user left.  Given up when an answer and the events heard do not join, since
   the window lost events nobody read ("overlooked": so does a list without any
   answer); and, until the next event, when an answer was shown as it came although
   newer events were heard ("unreconciled"). *)
ListIsQueue ==
  mounted /\ upTo = Len(log) /\ ~Overlooked /\ ~Unreconciled => list = waiting
=============================================================================
