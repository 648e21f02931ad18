--------------------------- MODULE SessionHistory ---------------------------
(* How a browser tab keeps the history of a session.  The server appends
   events; a stream delivers them to the whole page; the page keeps a tail
   per session (client-event-store.ts); the view of the selected session
   (use-session-events.ts) paints that tail or what an earlier visit left
   in IndexedDB, reads pages of history over HTTP, and follows the tail or
   not.  One session is modelled, which is selected or is not; what happens
   between the requests and their answers is what the module is about.

   Events are sequence numbers, and the global cursor of the stream is the
   session's own.  Live deltas are in LiveTail, the transactions of the
   storage in EventCache; debug events and byte budgets are left out. *)
EXTENDS EventWindows

CONSTANTS
  Page,       \* what a page of history holds: initialEventHistoryMaxTurns
  Resident,   \* residentEventWindowPolicy: what the transcript keeps
  Live,       \* liveEventWindowPolicy and sharedEventWindowPolicy
  Cached,     \* cachedEventWindowPolicy: what storage gives back
  Targets,    \* sequence numbers a link may open the session at
  FirstLog,   \* the events the session has when the page opens
  MaxLog,     \* bound: the events the server has in the end
  Bounds      \* bound: faults (failures, boundaries) and visits of the user

ASSUME HistoryAssumption ==
  /\ Targets \subseteq Nat \ {0} /\ FirstLog \in Nat /\ MaxLog \in Nat
  /\ Bounds \in [{"faults", "visits"} -> Nat]
  /\ {Page, Resident, Live, Cached} \subseteq [turns : Nat, events : Nat]

VARIABLES
  log,     \* the last sequence number the server has
  net,     \* activity stream, its cursor, and what App knows of the server
  list,    \* the session-list request, whose answer holds a cursor
  memo,    \* recentEventsRequests: the tail request a view may join
  tail,    \* the tail request the present view waits for
  jump,    \* the tail request of jumpToLatest
  around,  \* the requests of loadTarget
  page,    \* the request of loadOlderEvents or loadNewerEvents
  store,   \* the page's tail of the session and its cursor
  view,    \* the state of useSessionEvents
  due,     \* an effect of the view has to run again
  db,      \* what IndexedDB holds of the session
  seen,    \* history: how far applied tails reach, and the last event missed
  spent    \* how often each bounded kind of step has happened

vars == <<log, net, list, memo, tail, jump, around, page, store, view, due, db, seen,
          spent>>
requests == <<list, memo, tail, jump, around, page>>

Spend(kind) == /\ spent[kind] < Bounds[kind]
               /\ spent' = [spent EXCEPT ![kind] = @ + 1]

Max2(a, b) == IF a >= b THEN a ELSE b

(* A request is sent, then answered with what the server has at that time.
   "fresh" means that no boundary was adopted since it was sent. *)
Idle == [st |-> "idle", at |-> 0, keep |-> FALSE, fresh |-> FALSE]
Sent(keep) == [st |-> "sent", at |-> 0, keep |-> keep, fresh |-> TRUE]
Answered(r) == [r EXCEPT !.st = "answered", !.at = log]

NoPage == [st |-> "idle", kind |-> "older", from |-> 0, at |-> 0]
NoTail == [present |-> FALSE, events |-> {}, cursor |-> 0, hydrated |-> FALSE]
NoView == [selected |-> FALSE, loaded |-> FALSE, visible |-> {}, live |-> {},
           following |-> TRUE, newer |-> FALSE, hydrated |-> FALSE, target |-> 0,
           gotTarget |-> 0, durable |-> 0, hydrating |-> FALSE, error |-> FALSE]
OffLine == [source |-> "off", cursor |-> 0, ready |-> FALSE, reachable |-> TRUE]
FirstList == [st |-> "sent", at |-> 0, resync |-> FALSE]

Init ==
  /\ log = FirstLog /\ net = OffLine /\ list = FirstList
  /\ memo = Idle /\ tail = Idle /\ jump = Idle /\ around = Idle /\ page = NoPage
  /\ store = NoTail /\ view = NoView /\ due = FALSE
  /\ db = [records |-> {}, last |-> 0]
  /\ seen = [reach |-> 0, missed |-> 0]
  /\ spent = [faults |-> 0, visits |-> 0]

-----------------------------------------------------------------------------
(* What the server has. *)

TailPage(at) == BoundLatest(1 .. at, Page)
PageBefore(before) == BoundLatest(1 .. (before - 1), Page)
PageAfter(after, at) == BoundOldest((after + 1) .. at, Page)
PageAround(seq, at) == (seq - 1) .. (seq + 1) \cap 1 .. at

AppendEvent ==
  /\ log < MaxLog
  /\ log' = log + 1
  /\ UNCHANGED <<net, requests, store, view, due, db, seen, spent>>

-----------------------------------------------------------------------------
(* IndexedDB as the view sees it. *)

Put(d, events, serverLast) ==
  [records |-> d.records \cup events, last |-> Max2(d.last, Max2(serverLast, LastSeq(events)))]

(* readCachedSessionEventsBefore: the stretch without holes that reaches up
   to the sequence number. *)
CachedBefore(d, before) ==
  BoundLatest({s \in d.records : s < before /\ s .. (before - 1) \subseteq d.records}, Page)

-----------------------------------------------------------------------------
(* The page's tail of a session: client-event-store.ts. *)

Seed(s, events, last, hydrated) ==
  [present |-> TRUE, events |-> BoundLatest(events, Live),
   cursor |-> Max2(s.cursor, Max2(last, LastSeq(events))), hydrated |-> hydrated]

Ingested(s, e) ==
  [s EXCEPT !.present = TRUE, !.events = BoundLatest(@ \cup {e}, Live), !.cursor = e]

InvalidateTail(s) == [s EXCEPT !.hydrated = FALSE]

(* LRU eviction, which other sessions cause: the cursor stays.  That fifty of
   them are touched while a request is in flight is left out. *)
EvictEntry ==
  /\ store.present
  /\ \A r \in {tail, memo, jump, around} : r.st = "idle"
  /\ Spend("faults")
  /\ store' = [NoTail EXCEPT !.cursor = store.cursor]
  /\ UNCHANGED <<log, net, requests, view, due, db, seen>>

-----------------------------------------------------------------------------
(* The activity stream: App.tsx. *)

Applied(v, e) ==
  LET v1 == [v EXCEPT !.durable = Max2(@, e), !.live = BoundLatest(@ \cup {e}, Live)]
  IN IF v.following
       THEN [v1 EXCEPT !.visible = BoundLatest(@ \cup {e}, Resident), !.newer = FALSE]
       ELSE [v1 EXCEPT !.newer = TRUE]

Deliver ==
  /\ net.source = "open" /\ net.cursor < log
  /\ LET e == net.cursor + 1
     IN /\ net' = [net EXCEPT !.cursor = e]
        /\ IF e > store.cursor
             THEN /\ store' = Ingested(store, e)
                  /\ db' = Put(db, {e}, e)
                  /\ view' = IF view.selected THEN Applied(view, e) ELSE view
                  /\ seen' = seen
             ELSE /\ seen' = IF e > seen.reach THEN [seen EXCEPT !.missed = e] ELSE seen
                  /\ UNCHANGED <<store, db, view>>
  /\ UNCHANGED <<log, requests, due, spent>>

Connect ==
  /\ net.source = "waiting"
  /\ net' = [net EXCEPT !.source = "open", !.reachable = TRUE]
  /\ due' = (due \/ ~net.reachable)
  /\ UNCHANGED <<log, requests, store, view, db, seen, spent>>

StreamError ==
  /\ net.source = "open" /\ Spend("faults")
  /\ net' = [net EXCEPT !.source = "waiting"]
  /\ UNCHANGED <<log, requests, store, view, due, db, seen>>

(* stream.resync.required, or the page comes back to the foreground. *)
ResyncRequired ==
  /\ net.source # "off" /\ list.st = "idle" /\ Spend("faults")
  /\ net' = [net EXCEPT !.source = "off"]
  /\ list' = [st |-> "sent", at |-> 0, resync |-> TRUE]
  /\ UNCHANGED <<log, memo, tail, jump, around, page, store, view, due, db, seen>>

(* loadSessions after the server could not be reached. *)
RetryList ==
  /\ ~net.reachable /\ list.st = "idle"
  /\ list' = FirstList
  /\ UNCHANGED <<log, net, memo, tail, jump, around, page, store, view, due, db, seen,
                 spent>>

AnswerList ==
  /\ list.st = "sent"
  /\ list' = [list EXCEPT !.st = "answered", !.at = log]
  /\ UNCHANGED <<log, net, memo, tail, jump, around, page, store, view, due, db, seen,
                 spent>>

(* Mutant: the answer that is remembered outlives the boundary. *)
InvalidateKeepsMemo ==
  /\ store' = InvalidateTail(store)
  /\ memo' = memo
  /\ tail' = [tail EXCEPT !.fresh = FALSE]
  /\ jump' = [jump EXCEPT !.fresh = FALSE]
  /\ around' = [around EXCEPT !.fresh = FALSE]

(* invalidateSessionEventTails: of the requests that are under way, only the
   one that a view may join is forgotten. *)
Invalidate ==
  /\ store' = InvalidateTail(store)
  /\ memo' = Idle
  /\ tail' = [tail EXCEPT !.fresh = FALSE]
  /\ jump' = [jump EXCEPT !.fresh = FALSE]
  /\ around' = [around EXCEPT !.fresh = FALSE]

ApplyList ==
  /\ list.st = "answered"
  /\ LET boundary == ~net.ready \/ list.resync
     IN /\ net' = [source |-> "waiting", ready |-> TRUE, reachable |-> TRUE,
                   cursor |-> IF boundary THEN Max2(net.cursor, list.at) ELSE net.cursor]
        /\ IF boundary THEN Invalidate ELSE UNCHANGED <<store, memo, tail, jump, around>>
  /\ list' = [list EXCEPT !.st = "idle"]
  /\ due' = TRUE
  /\ UNCHANGED <<log, page, view, db, seen, spent>>

FailList ==
  /\ list.st # "idle" /\ Spend("faults")
  /\ list' = [list EXCEPT !.st = "idle"]
  /\ net' = [net EXCEPT !.reachable = FALSE, !.source = "off"]
  /\ due' = TRUE
  /\ UNCHANGED <<log, memo, tail, jump, around, page, store, view, db, seen>>

-----------------------------------------------------------------------------
(* The effect of the view: use-session-events.ts. *)

CanLoad == net.reachable /\ net.ready

(* loadTail: a request that is in flight or was answered within two seconds
   serves the same selection again. *)
LoadTail(v, keep) ==
  /\ view' = [v EXCEPT !.hydrated = FALSE]
  /\ tail' = IF memo.st = "answered" THEN [memo EXCEPT !.keep = keep] ELSE Sent(keep)
  /\ memo' = IF memo.st = "idle" THEN Sent(FALSE) ELSE memo
  /\ around' = Idle

LoadTarget(v) ==
  /\ view' = [v EXCEPT !.following = FALSE]
  /\ around' = Sent(FALSE) /\ tail' = Idle /\ memo' = memo

LoadNothing(v) ==
  /\ view' = v /\ tail' = Idle /\ around' = Idle /\ memo' = memo

(* Mutant: a cached tail is not loaded again. *)
StartTrustsCache(v, same, cached) ==
  IF v.target > 0 /\ CanLoad /\ v.gotTarget # v.target THEN LoadTarget(v)
  ELSE IF same THEN IF CanLoad THEN LoadTail(v, TRUE) ELSE LoadNothing(v)
  ELSE IF cached THEN LoadNothing(v)
  ELSE LoadNothing([v EXCEPT !.hydrating = TRUE])

(* The branches at the end of the effect. *)
Start(v, same, cached) ==
  IF v.target > 0 /\ CanLoad /\ v.gotTarget # v.target THEN LoadTarget(v)
  ELSE IF same THEN IF CanLoad THEN LoadTail(v, TRUE) ELSE LoadNothing(v)
  ELSE IF cached /\ v.hydrated THEN LoadNothing(v)
  ELSE LoadNothing([v EXCEPT !.hydrating = TRUE])

(* A selection paints the page's tail, or nothing yet. *)
Painted(s, target) ==
  [NoView EXCEPT !.selected = TRUE, !.target = target, !.following = target = 0,
     !.loaded = s.present, !.visible = s.events, !.live = s.events,
     !.durable = IF s.present THEN s.cursor ELSE 0, !.hydrated = s.hydrated]

Select(target) ==
  /\ ~view.selected /\ Spend("visits")
  /\ Start(Painted(store, target), FALSE, store.present)
  /\ due' = FALSE
  /\ UNCHANGED <<log, net, list, jump, page, store, db, seen>>

(* The next selection has an epoch of its own, and joins no earlier request. *)
Deselect ==
  /\ view.selected /\ Spend("visits")
  /\ view' = NoView
  /\ memo' = Idle /\ tail' = Idle /\ around' = Idle /\ due' = FALSE
  /\ UNCHANGED <<log, net, list, jump, page, store, db, seen>>

(* The effect for a selection it has seen before. *)
Again(v) == IF v.loaded THEN Start([v EXCEPT !.hydrating = FALSE, !.error = FALSE], TRUE, FALSE)
            ELSE Start(Painted(store, v.target), FALSE, store.present)

(* A new boundary, the server reachable or not, an answered question. *)
Rerun ==
  /\ due /\ due' = FALSE
  /\ IF view.selected THEN Again(view) ELSE UNCHANGED <<view, memo, tail, around>>
  /\ UNCHANGED <<log, net, list, jump, page, store, db, seen, spent>>

(* handleSelectConversationSeq and handleJumpToLatest: the target changes, and
   the effect follows the click at once. *)
Retarget(target) ==
  /\ view.selected /\ target # view.target /\ Spend("visits")
  /\ Again([view EXCEPT !.target = target, !.gotTarget = 0, !.following = target = 0])
  /\ due' = FALSE
  /\ UNCHANGED <<log, net, list, jump, page, store, db, seen>>

(* hydratePersistentCacheOrLoad, once storage has answered. *)
Hydrate ==
  /\ view.hydrating
  /\ LET W == BoundLatest(BoundLatest(db.records, Cached) \cup store.events, Cached)
         last == Max2(db.last, LastSeq(W))
         empty == [view EXCEPT !.hydrating = FALSE]
         painted == [empty EXCEPT !.visible = W, !.live = W, !.durable = last,
                                  !.loaded = TRUE, !.newer = FALSE, !.hydrated = FALSE]
     IN IF db.last > 0
          THEN /\ store' = Seed(store, W, last, FALSE)
               /\ IF CanLoad THEN LoadTail(painted, TRUE) ELSE LoadNothing(painted)
          ELSE /\ store' = store
               /\ IF CanLoad THEN LoadTail(empty, store.present) ELSE LoadNothing(empty)
  /\ UNCHANGED <<log, net, list, jump, page, due, db, seen, spent>>

-----------------------------------------------------------------------------
(* The answers of the tail request and what becomes of them. *)

AnswerTail ==
  /\ tail.st = "sent"
  /\ tail' = Answered(tail)
  /\ memo' = IF tail.fresh /\ memo.st = "sent" THEN Answered(memo) ELSE memo
  /\ UNCHANGED <<log, net, list, jump, around, page, store, view, due, db, seen, spent>>

(* The request of an effect that was closed is answered all the same. *)
AnswerMemo ==
  /\ memo.st = "sent" /\ tail.st # "sent"
  /\ memo' = Answered(memo)
  /\ UNCHANGED <<log, net, list, tail, jump, around, page, store, view, due, db, seen,
                 spent>>

ExpireMemo ==
  /\ memo.st = "answered"
  /\ memo' = Idle
  /\ UNCHANGED <<log, net, list, tail, jump, around, page, store, view, due, db, seen,
                 spent>>

(* What a tail leaves missing: a boundary was adopted after it was asked for,
   or the stream has been turned away beyond it. *)
Served(r) ==
  seen' = [reach  |-> Max2(seen.reach, r.at),
           missed |-> IF ~r.fresh THEN Max2(seen.missed, net.cursor)
                      ELSE IF r.at >= seen.missed THEN 0 ELSE seen.missed]

(* applyTail: the response owns its range, the stream what is newer. *)
ApplyTail ==
  /\ tail.st = "answered" /\ tail' = Idle /\ Served(tail)
  /\ LET H == TailPage(tail.at)
         norm == H \cup {e \in store.events : e > tail.at}
         durable == Max2(view.durable, Max2(tail.at, LastSeq(norm)))
         live == BoundLatest(norm, Live)
         overlaps == tail.keep /\ H # {} /\ FirstSeq(H) <= LastSeq(view.visible)
         v == [view EXCEPT !.durable = durable, !.live = live, !.loaded = TRUE,
                           !.hydrated = TRUE]
     IN /\ view' = IF v.following
                     THEN [v EXCEPT !.visible =
                             BoundLatest(IF overlaps THEN view.visible \cup norm ELSE norm,
                                         Resident),
                                    !.newer = FALSE]
                     ELSE [v EXCEPT !.newer = TRUE]
        /\ store' = Seed(store, live, durable, TRUE)
        /\ db' = Put(db, norm, tail.at)
  /\ UNCHANGED <<log, net, list, memo, jump, around, page, due, spent>>

AnswerTarget ==
  /\ around.st = "sent"
  /\ around' = Answered(around)
  /\ UNCHANGED <<log, net, list, memo, tail, jump, page, store, view, due, db, seen,
                 spent>>

(* loadTarget: a page around the event, and a tail joined to all the page has. *)
ApplyTarget ==
  /\ around.st = "answered" /\ around' = Idle /\ Served(around)
  /\ LET A == PageAround(view.target, around.at)
         merged == TailPage(around.at) \cup store.events
         live == BoundLatest(merged, Live)
         durable == Max2(view.durable, Max2(around.at, LastSeq(merged)))
     IN /\ view' = [view EXCEPT !.live = live, !.visible = BoundLatest(A, Resident),
                      !.durable = durable, !.newer = LastSeq(A) < around.at,
                      !.loaded = TRUE, !.gotTarget = view.target, !.hydrated = TRUE]
        /\ store' = Seed(store, live, durable, TRUE)
        /\ db' = Put(db, A \cup merged, around.at)
  /\ UNCHANGED <<log, net, list, memo, tail, jump, page, due, spent>>

(* A request of the view fails: the server may have gone, or it refused. *)
FailRequest(network) ==
  /\ Spend("faults")
  /\ \/ /\ tail.st # "idle" /\ tail' = Idle
        /\ memo' = IF tail.fresh THEN Idle ELSE memo
        /\ UNCHANGED <<jump, around>>
     \/ jump.st # "idle" /\ jump' = Idle /\ UNCHANGED <<memo, tail, around>>
     \/ around.st # "idle" /\ around' = Idle /\ UNCHANGED <<memo, tail, jump>>
  /\ view' = [view EXCEPT !.error = view.selected]
  /\ net' = IF network THEN [net EXCEPT !.reachable = FALSE, !.source = "off"] ELSE net
  /\ due' = (due \/ network)
  /\ UNCHANGED <<log, list, page, store, db, seen>>

-----------------------------------------------------------------------------
(* Scrolling: loadOlderEvents, loadNewerEvents, jumpToLatest. *)

Ask(kind, from) == [st |-> "sent", kind |-> kind, from |-> from, at |-> 0]

Extended(v, W) == [v EXCEPT !.visible = BoundOldest(W, Resident),
                            !.newer = @ \/ BoundOldest(W, Resident) # W]

LoadOlder ==
  /\ view.selected /\ FirstSeq(view.visible) > 1 /\ page.st = "idle" /\ Spend("visits")
  /\ LET before == FirstSeq(view.visible)
         C == CachedBefore(db, before)
     IN IF C # {}
          THEN view' = Extended(view, view.visible \cup C) /\ page' = page
          ELSE net.reachable /\ page' = Ask("older", before) /\ view' = view
  /\ UNCHANGED <<log, net, list, memo, tail, jump, around, store, due, db, seen>>

LoadNewer ==
  /\ view.selected /\ view.newer /\ net.reachable /\ page.st = "idle" /\ Spend("visits")
  /\ page' = Ask("newer", LastSeq(view.visible))
  /\ UNCHANGED <<log, net, list, memo, tail, jump, around, store, view, due, db, seen>>

AnswerPage ==
  /\ page.st = "sent"
  /\ page' = [page EXCEPT !.st = "answered", !.at = log]
  /\ UNCHANGED <<log, net, list, memo, tail, jump, around, store, view, due, db, seen,
                 spent>>

(* Whichever visit of the session asked, the present one takes the page, and
   what the server had then as its own watermark. *)
ApplyPage ==
  /\ page.st = "answered" /\ page' = NoPage
  /\ IF ~view.selected THEN UNCHANGED <<view, db>>
     ELSE LET C == IF page.kind = "older" THEN PageBefore(page.from)
                   ELSE PageAfter(page.from, page.at)
              v == [view EXCEPT !.durable = Max2(@, page.at)]
              more == LastSeq(C) < page.at
          IN IF C = {}
               THEN /\ view' = IF page.kind = "older" THEN view
                               ELSE [view EXCEPT !.newer = FALSE, !.following = TRUE]
                    /\ db' = db
               ELSE /\ view' = IF page.kind = "older" THEN Extended(v, v.visible \cup C)
                               ELSE [v EXCEPT !.visible = BoundLatest(@ \cup C, Resident),
                                              !.newer = more, !.following = ~more]
                    /\ db' = Put(db, C, page.at)
  /\ UNCHANGED <<log, net, list, memo, tail, jump, around, store, due, seen, spent>>

FailPage ==
  /\ page.st # "idle" /\ Spend("faults")
  /\ page' = NoPage
  /\ UNCHANGED <<log, net, list, memo, tail, jump, around, store, view, due, db, seen>>

(* mergeLiveTailWindow: disjoint windows are not joined. *)
Joined(W, latest) ==
  BoundLatest(IF latest # {} /\ FirstSeq(latest) <= LastSeq(W) THEN W \cup latest
              ELSE latest, Resident)

JumpToLatest ==
  /\ view.selected /\ view.target = 0 /\ jump.st = "idle" /\ Spend("visits")
  /\ view' = [view EXCEPT !.following = TRUE, !.newer = FALSE, !.error = FALSE,
                          !.visible = Joined(@, view.live)]
  /\ jump' = IF ~net.reachable \/ (net.source = "open" /\ view.hydrated) THEN jump
             ELSE Sent(FALSE)
  /\ UNCHANGED <<log, net, list, memo, tail, around, page, store, due, db, seen>>

AnswerJump ==
  /\ jump.st = "sent"
  /\ jump' = Answered(jump)
  /\ UNCHANGED <<log, net, list, memo, tail, around, page, store, view, due, db, seen,
                 spent>>

ApplyJump ==
  /\ jump.st = "answered" /\ jump' = Idle
  /\ IF ~view.selected THEN UNCHANGED <<view, store, db, seen>>
     ELSE LET H == TailPage(jump.at)
              combined == H \cup {e \in view.live : e > jump.at}
              durable == Max2(view.durable, Max2(jump.at, LastSeq(H)))
              live == BoundLatest(combined, Live)
          IN /\ Served(jump)
             /\ view' = [view EXCEPT !.live = live, !.hydrated = TRUE, !.durable = durable,
                                     !.visible = Joined(@, combined)]
             /\ store' = Seed(store, live, durable, TRUE)
             /\ db' = Put(db, H, jump.at)
  /\ UNCHANGED <<log, net, list, memo, tail, around, page, due, spent>>

(* The transcript reports whether it is scrolled to its end. *)
SetFollowingTail(following) ==
  /\ view.selected /\ following # view.following /\ Spend("visits")
  /\ following => ~view.newer
  /\ view' = [view EXCEPT !.following = following]
  /\ UNCHANGED <<log, net, requests, store, due, db, seen>>

(* The tab is reloaded: only IndexedDB survives. *)
Reload ==
  /\ Spend("faults")
  /\ net' = OffLine /\ list' = FirstList
  /\ memo' = Idle /\ tail' = Idle /\ jump' = Idle /\ around' = Idle /\ page' = NoPage
  /\ store' = NoTail /\ view' = NoView /\ due' = FALSE
  /\ seen' = [reach |-> 0, missed |-> 0]
  /\ UNCHANGED <<log, db>>

-----------------------------------------------------------------------------
ClientStep ==
  \/ Deliver \/ Connect \/ RetryList \/ AnswerList \/ ApplyList \/ Rerun \/ Hydrate
  \/ AnswerTail \/ AnswerMemo \/ ExpireMemo \/ ApplyTail
  \/ AnswerTarget \/ ApplyTarget \/ AnswerJump \/ ApplyJump \/ AnswerPage \/ ApplyPage

UserStep ==
  \/ \E target \in Targets \cup {0} : Select(target) \/ Retarget(target)
  \/ Deselect \/ LoadOlder \/ LoadNewer \/ JumpToLatest
  \/ \E following \in BOOLEAN : SetFollowingTail(following)

FaultStep ==
  \/ StreamError \/ ResyncRequired \/ FailList \/ Reload \/ EvictEntry \/ FailPage
  \/ \E network \in BOOLEAN : FailRequest(network)

Next == AppendEvent \/ ClientStep \/ UserStep \/ FaultStep

Spec == Init /\ [][Next]_vars

(* Connections are retried, effects run and requests are answered. *)
FairSpec == Spec /\ WF_vars(ClientStep)

-----------------------------------------------------------------------------
(* The end of the log up to an event, as far as a page of history, the page's
   tail and the storage all keep it. *)
Least(limits) == CHOOSE n \in limits : \A m \in limits : n <= m
Kept == [turns  |-> Least({Page.turns, Live.turns, Cached.turns}),
         events |-> Least({Page.events, Live.events, Cached.events})]
Latest(n) == BoundLatest(1 .. n, Kept)

(* A window that goes as far as the stream has come, and has no hole in the end
   that is kept. *)
Recent(W) == LastSeq(W) >= net.cursor /\ Latest(LastSeq(W)) \subseteq W

Settled == /\ view.selected /\ view.target = 0 /\ ~view.error /\ CanLoad
           /\ ~due /\ tail.st = "idle"

(* A tail that is marked hydrated lacks nothing that the stream will not send
   again: no event falls between an answer, the cursor of the stream and the
   cursor of the page, however selections, boundaries and answers interleave.
   The exception, seen.missed, is an answer that was asked for before a
   boundary, or an event the page turned away though no tail held it. *)
TailIsComplete ==
  seen.missed = 0 =>
    /\ store.hydrated => Recent(store.events)
    /\ Settled /\ view.hydrated => Recent(view.live)

(* Why TailIsComplete holds: an answer that no boundary has made stale fills
   every hole before the sequence number it was given at, and since then no
   window of the session has lost an event after it.  The server at its first
   event counts as such an answer. *)
Requested == {tail, memo, jump, around}
Anchor(a) ==
  \/ \E r \in Requested :
        r.st = "answered" /\ r.fresh /\ r.at = a /\ a >= seen.missed
  \/ /\ a = 0 /\ net.cursor = 0
     /\ net.ready \/ (list.st = "answered" /\ list.at = 0)
Whole(a, W) == \A s \in Latest(LastSeq(W)) : s > a => s \in W
Covered(a, W) == Whole(a, W) /\ net.cursor <= Max2(a, LastSeq(W))

Anchored ==
  \A a \in 0 .. log : Anchor(a) =>
    /\ Covered(a, store.events)
    /\ Covered(a, db.records)
    /\ view.selected => Covered(a, view.live)

States == {"idle", "sent", "answered"}
RequestsOf(n) == [st : States, at : 0 .. n, keep : BOOLEAN, fresh : BOOLEAN]
PagesOf(n) == [st : States, kind : {"older", "newer"}, from : 0 .. n, at : 0 .. n]
TailsOf(n) == [present : BOOLEAN, events : SUBSET (1 .. n), cursor : 0 .. n,
               hydrated : BOOLEAN]
ViewsOf(n) == [selected : BOOLEAN, loaded : BOOLEAN, visible : SUBSET (1 .. n),
               live : SUBSET (1 .. n), following : BOOLEAN, newer : BOOLEAN,
               hydrated : BOOLEAN, target : Nat, gotTarget : Nat, durable : 0 .. n,
               hydrating : BOOLEAN, error : BOOLEAN]
TypeOK ==
  /\ log \in Nat
  /\ net \in [source : {"off", "waiting", "open"}, cursor : 0 .. log, ready : BOOLEAN,
              reachable : BOOLEAN]
  /\ list \in [st : States, at : 0 .. log, resync : BOOLEAN]
  /\ Requested \subseteq RequestsOf(log)
  /\ page \in PagesOf(log)
  /\ store \in TailsOf(log)
  /\ view \in ViewsOf(log)
  /\ due \in BOOLEAN
  /\ db \in [records : SUBSET (1 .. log), last : 0 .. log]
  /\ seen \in [reach : 0 .. log, missed : 0 .. log]
  /\ spent \in [{"faults", "visits"} -> Nat]

(* What is asked for: only by a view that is there, and before a boundary only
   while the page has not heard of the server. *)
Asking ==
  /\ ~view.selected => view = NoView /\ tail.st = "idle" /\ around.st = "idle"
  /\ memo.st # "idle" => memo.fresh
  /\ \A r \in {tail, jump, around} : r.st # "idle" /\ ~r.fresh => net.ready
  /\ page.st # "idle" => IF page.kind = "older" THEN page.from > 0
                         ELSE page.from <= LastSeq(db.records)

(* Whatever the page shows has been stored. *)
Stored == /\ store.events \subseteq 1 .. LastSeq(db.records)
          /\ view.live \subseteq 1 .. LastSeq(db.records)
          /\ view.visible \subseteq 1 .. LastSeq(db.records)

(* How far an applied tail reached, every tail that is kept reaches. *)
Reaching ==
  /\ LastSeq(store.events) <= store.cursor
  /\ seen.missed <= net.cursor
  /\ seen.reach <= store.cursor /\ seen.reach <= LastSeq(db.records)
  /\ store.hydrated => store.present
  /\ store.present => seen.reach <= LastSeq(store.events)
  /\ ~store.present =>
       \A r \in Requested : r.st = "answered" => seen.reach <= r.at
  /\ view.selected => LastSeq(store.events) <= LastSeq(view.live)
  /\ view.hydrated => seen.reach <= LastSeq(view.live)

Hydrated ==
  seen.missed = 0 =>
    /\ store.hydrated => Recent(store.events)
    /\ view.hydrated /\ view.target = 0 /\ CanLoad /\ ~due => Recent(view.live)

IInv == TypeOK /\ Asking /\ Stored /\ Reaching /\ Anchored /\ Hydrated

(* The selected session catches up with the server again and again, whatever
   failed before: streams reconnect, lists are read again, effects run again. *)
CatchesUp ==
  []<>(view.selected /\ net.reachable /\ ~view.error /\ seen.missed = 0
         => LastSeq(view.live) = log)
=============================================================================
