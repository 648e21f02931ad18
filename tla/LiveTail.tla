------------------------------ MODULE LiveTail ------------------------------
(* The live end of a session in the page: text that is still being written,
   and questions that wait for an answer (lib/client-event-store.ts,
   lib/session-event-window.ts, lib/input-events.ts, use-session-events.ts).
   Deltas are not stored by the server; it keeps the open items in memory
   and sends them as a snapshot, on the stream when it opens and in answer
   to a watch request, so a snapshot races with the deltas of the stream. *)
EXTENDS Integers, Sequences, SequencesExt

CONSTANTS
  Items,        \* messages the agent may write
  Questions,    \* questions it may ask
  MaxLog,       \* bound: events of the session
  MaxRequests,  \* bound: watch requests and history requests, of each
  MaxDrops      \* bound: lost streams

VARIABLES
  log,      \* the session's events; the sequence number is the index
  live,     \* liveEvents of the server: per open item the deltas so far
  conn,     \* the stream: "down", "opening" (no snapshot yet) or "up"
  wire,     \* what the stream still has to bring
  held,     \* what the subscription gathers while the stream is opening
  texts,    \* the page's transient events: per item its text segments
  durable,  \* its durable events
  inputs,   \* inputEvents
  cursor,   \* the newest durable event it knows of
  mark,     \* liveSnapshotCursors: the newest snapshot it has
  watch,    \* the watch request
  history,  \* the history request
  spent,    \* requests and losses so far
  crossed   \* history: a snapshot came after a newer one

server == <<log, live>>
stream == <<conn, wire, held>>
page == <<texts, durable, inputs, cursor, mark, crossed>>
vars == <<log, live, conn, wire, held, texts, durable, inputs, cursor, mark, watch, history,
          spent, crossed>>

Kinds == {"delta", "said", "asked", "answered", "withdrawn", "ended"}
Ids(kind) == CASE kind \in {"delta", "said"} -> Items [] kind = "ended" -> {"run"}
               [] OTHER -> Questions
IdleWatch == [st |-> "idle", live |-> [i \in Items |-> <<>>], at |-> 0]
IdleHistory == [st |-> "idle", inputs |-> {}, at |-> 0]

Init ==
  /\ log = <<>> /\ live = [i \in Items |-> <<>>]
  /\ conn = "down" /\ wire = <<>> /\ held = <<>>
  /\ texts = [i \in Items |-> <<>>] /\ durable = {} /\ inputs = {} /\ cursor = 0 /\ mark = 0
  /\ watch = IdleWatch /\ history = IdleHistory
  /\ spent = [watch |-> 0, history |-> 0, drop |-> 0] /\ crossed = FALSE

Spend(kind, max) == spent[kind] < max /\ spent' = [spent EXCEPT ![kind] = @ + 1]
Newest(S) == IF S = {} THEN 0 ELSE CHOOSE n \in S : \A m \in S : m <= n

-----------------------------------------------------------------------------
(* The server. *)
Of(kind) == {n \in DOMAIN log : log[n].kind = kind}
LastEnd(S) == Newest({n \in S : log[n].kind = "ended"})
Stored == {n \in DOMAIN log : log[n].kind # "delta"}

(* ListPendingInputEvents *)
Pending(upTo) ==
  LET end == LastEnd(1 .. upTo)
  IN  {n \in Of("asked") : /\ n \in end + 1 .. upTo
                           /\ ~ \E m \in end + 1 .. upTo : /\ log[m].kind \in {"answered", "withdrawn"}
                                                           /\ log[m].id = log[n].id}

(* updateLiveEventsLocked *)
LiveAfter(e, n) ==
  CASE e.kind = "delta" -> [live EXCEPT ![e.id] = Append(@, n)]
    [] e.kind = "said"  -> [live EXCEPT ![e.id] = <<>>]
    [] e.kind = "ended" -> [i \in Items |-> <<>>]
    [] OTHER            -> live

(* What an agent does in one run. *)
Allowed(e) ==
  LET ids == {log[n].id : n \in Of("asked")}
      open == {log[n].id : n \in Pending(Len(log))}
  IN  /\ Of("ended") = {}
      /\ CASE e.kind = "asked" -> e.id \notin ids
           [] e.kind \in {"answered", "withdrawn"} -> e.id \in open
           [] e.kind \in {"delta", "said"} -> ~ \E n \in Of("said") : log[n].id = e.id
           [] OTHER -> TRUE

(* Append and broadcastLocked: an event goes to the buffers and every stream. *)
Emit ==
  /\ Len(log) < MaxLog
  /\ \E kind \in Kinds, id \in Items \cup Questions \cup {"run"} :
       LET e == [kind |-> kind, id |-> id]
           n == Len(log) + 1
           message == [kind |-> "event", at |-> n, live |-> live]
       IN  /\ id \in Ids(kind) /\ Allowed(e)
           /\ log' = Append(log, e) /\ live' = LiveAfter(e, n)
           /\ wire' = IF conn = "up" THEN Append(wire, message) ELSE wire
           /\ held' = IF conn = "opening" THEN Append(held, message) ELSE held
  /\ UNCHANGED <<conn, page, watch, history, spent>>

(* The stream opens: first what is stored and newer than the cursor ... *)
Subscribe ==
  /\ conn = "down" /\ conn' = "opening" /\ held' = <<>>
  /\ wire' = [k \in 1 .. Len(SelectSeq([n \in DOMAIN log |-> n], LAMBDA n : n \in Stored /\ n > cursor)) |->
                [kind |-> "event", live |-> live,
                 at |-> SelectSeq([n \in DOMAIN log |-> n], LAMBDA n : n \in Stored /\ n > cursor)[k]]]
  /\ UNCHANGED <<server, page, watch, history, spent>>

(* ... then the open items, then what was sent since it was subscribed. *)
WriteSnapshot ==
  /\ conn = "opening" /\ conn' = "up" /\ held' = <<>>
  /\ wire' = wire \o <<[kind |-> "snapshot", at |-> Len(log), live |-> live]>> \o held
  /\ UNCHANGED <<server, page, watch, history, spent>>

Lose ==
  /\ conn # "down" /\ Spend("drop", MaxDrops)
  /\ conn' = "down" /\ wire' = <<>> /\ held' = <<>>
  /\ UNCHANGED <<server, page, watch, history>>

-----------------------------------------------------------------------------
(* lib/session-event-window.ts: a transient event is its item's segments of text. *)
Segment(n, toks) == [at |-> n, text |-> toks]
LastAt(segments) == IF segments = <<>> THEN 0 ELSE segments[Len(segments)].at
Shown(segments) == FlattenSeq([k \in DOMAIN segments |-> segments[k].text])
FromSnapshot(toks) == IF toks = <<>> THEN <<>> ELSE <<Segment(toks[Len(toks)], toks)>>

(* appendLiveEvent: the text of an item grows. *)
Grow(segments, more) == segments \o more
(* transientEventAfter: what is newer than a snapshot. *)
After(segments, n) == SelectSeq(segments, LAMBDA s : s.at > n)

(* appendBoundedEvent: a completed item drops its deltas, the end of a run all. *)
TextsAfter(ts, e, n) ==
  CASE e.kind = "said"  -> [ts EXCEPT ![e.id] = After(@, n)]
    [] e.kind = "ended" -> [i \in Items |-> <<>>]
    [] OTHER            -> ts

-----------------------------------------------------------------------------
(* lib/input-events.ts: unresolvedInputEvents keeps the last end of a run and,
   per question, what was heard of it last; a withdrawal is not looked at. *)
Unresolved(S) ==
  LET end == LastEnd(S)
      about == {n \in S : n > end /\ log[n].kind \in {"asked", "answered"}}
  IN  ({end} \ {0}) \cup {n \in about : \A m \in about : log[m].id = log[n].id => m <= n}

(* reconcileInputEvents: the server's word up to its watermark. *)
Reconcile(mine, theirs, at) == Unresolved(theirs \cup {n \in mine : n > at})

(* pendingUserInputRequest, of inputs and the live window without its inputs. *)
Asked ==
  LET all == inputs \cup {n \in durable : log[n].kind = "ended"}
  IN  {n \in all : /\ log[n].kind = "asked" /\ n > LastEnd(all)
                   /\ ~ \E m \in all : log[m].kind = "answered" /\ log[m].id = log[n].id}

-----------------------------------------------------------------------------
(* ingestClientEvent *)
IngestDelta(n) ==
  /\ UNCHANGED <<durable, inputs, cursor, mark, crossed>>
  /\ IF n <= mark \/ \E i \in Items : LastAt(texts[i]) = n
     THEN UNCHANGED texts
     ELSE texts' = [texts EXCEPT ![log[n].id] = Grow(@, <<Segment(n, <<n>>)>>)]

IngestDurable(n) ==
  /\ UNCHANGED <<mark, crossed>>
  /\ IF n <= cursor
     THEN UNCHANGED <<texts, durable, inputs, cursor>>
     ELSE /\ texts' = TextsAfter(texts, log[n], n)
          /\ durable' = durable \cup {n} /\ cursor' = n
          /\ inputs' = IF log[n].kind = "said" THEN inputs ELSE Unresolved(inputs \cup {n})

(* replaceClientLiveEvents: the open items are the snapshot's. *)
ReplaceLive(snapshot, at) ==
  /\ texts' = [i \in Items |-> FromSnapshot(snapshot[i])]
  /\ mark' = Newest({mark, at}) /\ crossed' = (crossed \/ at < mark)
  /\ UNCHANGED <<durable, inputs, cursor>>

Deliver ==
  /\ wire # <<>> /\ wire' = Tail(wire)
  /\ LET m == Head(wire)
     IN  IF m.kind = "snapshot" THEN ReplaceLive(m.live, m.at)
         ELSE IF log[m.at].kind = "delta" THEN IngestDelta(m.at) ELSE IngestDurable(m.at)
  /\ UNCHANGED <<server, conn, held, watch, history, spent>>

-----------------------------------------------------------------------------
(* watchSessionActivity: the open items of one session, in answer to a request. *)
AskWatch == /\ watch.st = "idle" /\ cursor > 0 /\ Spend("watch", MaxRequests)
            /\ watch' = [watch EXCEPT !.st = "asked"]
            /\ UNCHANGED <<server, stream, page, history>>
ServeWatch == /\ watch.st = "asked"
              /\ watch' = IF conn = "down" THEN IdleWatch
                          ELSE [st |-> "answered", live |-> live, at |-> Len(log)]
              /\ UNCHANGED <<server, stream, page, history, spent>>

(* Mutant: what the stream brought before the answer is forgotten. *)
ForgetRaced(snapshot, at) == [i \in Items |-> FromSnapshot(snapshot[i])]

(* replaceClientSessionLiveEvents: its items, and the deltas that raced ahead. *)
WithRaced(snapshot, at) == [i \in Items |-> Grow(FromSnapshot(snapshot[i]), After(texts[i], at))]

ApplyWatch ==
  /\ watch.st = "answered" /\ watch' = IdleWatch
  /\ texts' = WithRaced(watch.live, watch.at)
  /\ mark' = Newest({mark, watch.at})
  /\ crossed' = (crossed \/ watch.at < mark)
  /\ UNCHANGED <<server, stream, durable, inputs, cursor, history, spent>>

-----------------------------------------------------------------------------
(* A page of history: the stored events and the questions at its watermark. *)
AskHistory == /\ history.st = "idle" /\ Spend("history", MaxRequests)
              /\ history' = [history EXCEPT !.st = "asked"]
              /\ UNCHANGED <<server, stream, page, watch>>
ServeHistory == /\ history.st = "asked"
                /\ history' = [st |-> "answered", inputs |-> Pending(Len(log)), at |-> Newest(Stored)]
                /\ UNCHANGED <<server, stream, page, watch, spent>>

(* applyTail and seedClientSessionEvents *)
DropSaid(ts, upTo) ==
  [i \in Items |-> LET said == {n \in 1 .. upTo : log[n] = [kind |-> "said", id |-> i]}
                   IN  IF said = {} THEN ts[i] ELSE After(ts[i], Newest(said))]
ApplyHistory ==
  /\ history.st = "answered" /\ history' = IdleHistory
  /\ durable' = durable \cup {n \in Stored : n <= history.at}
  /\ texts' = DropSaid(texts, history.at)
  /\ cursor' = Newest({cursor, history.at})
  /\ inputs' = Reconcile(inputs, history.inputs, history.at)
  /\ UNCHANGED <<server, stream, mark, watch, spent, crossed>>

Next == \/ Emit \/ Subscribe \/ WriteSnapshot \/ Lose \/ Deliver
        \/ AskWatch \/ ServeWatch \/ ApplyWatch
        \/ AskHistory \/ ServeHistory \/ ApplyHistory

Spec == Init /\ [][Next]_vars

-----------------------------------------------------------------------------
Quiet == conn = "up" /\ wire = <<>> /\ watch.st = "idle" /\ history.st = "idle"

OpenTextIsWhole == \A i \in Items : live[i] # <<>> => Shown(texts[i]) = live[i]
AsksWhatWaits ==
  LET waits == Pending(Len(log))
  IN  /\ waits \subseteq Asked
      /\ \A n \in Asked \ waits :
           \E m \in Of("withdrawn") : log[m].id = log[n].id /\ m > LastEnd(DOMAIN log)

(* When nothing is under way the page shows of every open item what the server
   has of it: no delta is lost and none is shown twice, whatever snapshot the
   deltas raced with; a snapshot of the stream and one of a watch request that
   came in the other order are the named exception.  And every question that
   waits is asked, and none that was answered or whose run has ended; a withdrawn
   one may be. *)
RestingTailIsTrue == Quiet => (~crossed => OpenTextIsWhole) /\ AsksWhatWaits
=============================================================================
