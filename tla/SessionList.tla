---------------------------- MODULE SessionList -----------------------------
(* What the web client shows of a session in its list (web/src/App.tsx and
   the libraries it calls): the status, the pin, the archive mark and
   whether the session wants attention.  The list is fed from three sides
   that know nothing of each other: the stream of events, the answers of
   requests, and what the user just did, which is shown before the server
   has confirmed it.

   One session is modelled.  The server's part is what its handlers promise
   (external); of each kind of request one is under way at a time. *)
EXTENDS Integers, Sequences

CONSTANTS
  ShowArchived,   \* showArchivedSessions
  ListBounds      \* bounds: budgets of events, requests, failures, visits of the user

VARIABLES
  server,    \* the session's row
  log,       \* its events: <<type, ...>>, the position is the sequence number
  stream,    \* how many were delivered, and whether the stream is open
  cursor,    \* the cursor of client-event-store, which history raises too
  row,       \* the session in "sessions"; when it is not there, its sequence
             \* number says how far the page has heard of the session
  call,      \* per kind: the request under way
  viewed,    \* selectedSessionID is this session
  seen,      \* lastSeenSeqBySession
  held,      \* notificationAttentionSeqBySession
  screened,  \* history: the newest event the user had on the screen
  lost,      \* history: the row misses something or has it wrong until an answer
             \* has reached this sequence number; 0 when nothing is amiss
  listLeft   \* what is left of the bounds

listVars == <<server, log, stream, cursor, row, call, viewed, seen, held, screened, lost, listLeft>>
outside == <<server, log, stream, cursor>>

RequestKinds == {"list", "get", "submit", "pin", "archive", "attention", "dismiss"}
Terminal == {"completed", "failed"}

SpendList(kind) == /\ listLeft[kind] > 0
                   /\ listLeft' = [listLeft EXCEPT ![kind] = @ - 1]
Later(a, b) == IF a >= b THEN a ELSE b

NoSession == [seq |-> 0, status |-> "idle", pinned |-> "no", archived |-> FALSE, attn |-> 0]
NoCall == [st |-> "idle", ok |-> FALSE, snap |-> NoSession, resync |-> FALSE, was |-> "no",
           asked |-> FALSE, conflict |-> FALSE]
RowOf(known, s) == [known |-> known, seq |-> s.seq, status |-> s.status, pinned |-> s.pinned,
                    archived |-> s.archived, attn |-> s.attn]

(* The page opens with a list request; a session that was cached is shown at
   once, as it was when it was cached. *)
ListInit ==
  /\ server = NoSession
  /\ log = <<>> /\ stream = [at |-> 0, open |-> FALSE] /\ cursor = 0
  /\ row = RowOf(TRUE, server)
  /\ call = [k \in RequestKinds |->
               IF k = "list" THEN [NoCall EXCEPT !.st = "sent", !.resync = TRUE] ELSE NoCall]
  /\ viewed = FALSE /\ seen = 0 /\ held = 0 /\ screened = 0 /\ lost = 0
  /\ listLeft \in ListBounds

-----------------------------------------------------------------------------
(* The server (external): what its handlers do to the row and the log. *)

WithEvent(type) ==
  LET n == server.seq + 1
  IN [server EXCEPT !.seq = n,
        !.status = CASE type = "started" -> "running" [] type = "completed" -> "idle"
                     [] type = "failed" -> "failed" [] OTHER -> @,
        !.pinned = IF type = "pinned" THEN "yes" ELSE IF type = "unpinned" THEN "no" ELSE @,
        !.archived = IF type = "archived" THEN TRUE ELSE IF type = "restored" THEN FALSE ELSE @]
Write(type) == /\ log' = Append(log, type)
               /\ server' = WithEvent(type)

(* A run ends by itself; a notification of it asks for attention. *)
RunEnds ==
  /\ server.status = "running"
  /\ \E type \in Terminal, notify \in BOOLEAN :
       /\ log' = Append(log, type)
       /\ server' = [WithEvent(type) EXCEPT !.attn = IF notify THEN server.seq + 1 ELSE @]
  /\ UNCHANGED <<stream, cursor, row, call, viewed, seen, held, screened, lost, listLeft>>

(* A run that was started somewhere else: a schedule, another browser. *)
RunStarts ==
  /\ server.status # "running" /\ ~server.archived /\ SpendList("events")
  /\ Write("started")
  /\ UNCHANGED <<stream, cursor, row, call, viewed, seen, held, screened, lost>>

(* It is archived or restored in another browser. *)
MovedElsewhere ==
  /\ server.status # "running" /\ SpendList("events")
  /\ Write(IF server.archived THEN "restored" ELSE "archived")
  /\ UNCHANGED <<stream, cursor, row, call, viewed, seen, held, screened, lost>>

Answered(k, ok, snap) ==
  call' = [call EXCEPT ![k].st = "answered", ![k].ok = ok, ![k].snap = snap]

Serve(k) ==
  /\ call[k].st = "sent"
  /\ \/ /\ k \in {"list", "get"}
        /\ Answered(k, TRUE, server) /\ UNCHANGED <<server, log>>
     \/ /\ k = "submit" /\ ~server.archived
        /\ IF server.status = "running" THEN UNCHANGED <<server, log>> ELSE Write("started")
        /\ Answered(k, TRUE, server')
     \/ /\ k = "pin"
        /\ Write(IF call[k].was = "no" THEN "pinned" ELSE "unpinned")
        /\ Answered(k, TRUE, server')
     \/ /\ k = "archive" /\ server.status # "running" /\ server.archived = (call[k].was = "yes")
        /\ Write(IF server.archived THEN "restored" ELSE "archived")
        /\ Answered(k, TRUE, server')
     \/ /\ k \in {"attention", "dismiss"}
        /\ server' = [server EXCEPT !.attn = 0] /\ UNCHANGED log
        /\ Answered(k, TRUE, server')
  /\ UNCHANGED <<stream, cursor, row, viewed, seen, held, screened, lost, listLeft>>

(* A request is refused (an archived or running session, a conflict); or it
   gets lost, or its answer does. *)
Refuse(k) ==
  /\ \E conflict \in BOOLEAN :
       /\ IF conflict
          THEN /\ call[k].st = "sent" /\ UNCHANGED listLeft
               /\ \/ k = "submit" /\ server.archived
                  \/ k = "archive"
                     /\ (server.status = "running" \/ server.archived # (call[k].was = "yes"))
          ELSE call[k].st # "idle" /\ ~call[k].asked /\ SpendList("failures")
       /\ call' = [call EXCEPT ![k] = [@ EXCEPT !.st = "answered", !.ok = FALSE,
                                               !.snap = NoSession, !.conflict = conflict]]
  /\ UNCHANGED <<outside, row, viewed, seen, held, screened, lost>>

(* The list asked for the selected session as well, and gets no answer: it goes
   on with what it had. *)
IncludeFails ==
  /\ call["list"].st = "sent" /\ call["list"].asked /\ SpendList("failures")
  /\ Answered("list", TRUE, call["list"].snap)
  /\ UNCHANGED <<outside, row, viewed, seen, held, screened, lost>>

-----------------------------------------------------------------------------
(* Attention. *)

(* applyNotificationAttentionSeqs over what the server and the user's last
   notification hold back. *)
EffectiveSeen(r, s, h) ==
  LET attn == Later(r.attn, h)
  IN  IF attn > 0 /\ s > attn - 1 THEN attn - 1 ELSE s

SessionAttention(r, s, h) == r.known /\ r.status = "idle" /\ r.seq > EffectiveSeen(r, s, h)

(* Mutant: every change of the row is taken for seen. *)
MarkAnySeen(base) ==
  /\ seen' = IF row'.known THEN Later(base, row'.seq) ELSE base
  /\ screened' = IF viewed' /\ row'.known THEN Later(screened, row'.seq) ELSE screened

(* The effect that marks the selected session as seen, after every change of
   the row; "base" is what the step itself left in lastSeenSeqBySession. *)
MarkSeen(base) ==
  LET attn   == Later(row'.attn, held')
      latest == IF row'.known THEN row'.seq ELSE 0
      looks  == viewed' /\ ~(attn > 0 /\ latest <= attn)
  IN  /\ seen' = IF looks THEN Later(base, latest) ELSE base
      /\ screened' = IF viewed' THEN Later(screened, latest) ELSE screened

-----------------------------------------------------------------------------
(* The row: applySession, applySessionEvent, preferFresherSessionSnapshots. *)

Listed(r) == IF r.archived /\ ~ShowArchived THEN [r EXCEPT !.known = FALSE] ELSE r

(* What a log says of the session up to its n-th event. *)
LatestOf(l, types, n) == {i \in 1 .. n : l[i] \in types /\ \A j \in i + 1 .. n : l[j] \notin types}
PinnedOf(l, n) ==
  IF \E i \in LatestOf(l, {"pinned", "unpinned"}, n) : l[i] = "pinned" THEN "yes" ELSE "no"
ArchivedOf(l, n) == \E i \in LatestOf(l, {"archived", "restored"}, n) : l[i] = "archived"

Missed(wrong) == lost' = IF wrong THEN Later(lost, row.seq) ELSE lost

(* An answer that is older than the row takes something away from it, and one
   that is new enough brings back what was missing. *)
TakenOver(snap) ==
  lost' = IF snap.seq < row.seq THEN Later(lost, row.seq)
          ELSE IF snap.seq >= lost THEN 0 ELSE lost

ApplySession(snap) ==
  /\ row' = IF snap.archived /\ ~ShowArchived /\ ~viewed THEN RowOf(FALSE, snap)
            ELSE RowOf(TRUE, snap)
  /\ TakenOver(snap)

ApplyEvent(r, seq, type) ==
  IF seq <= r.seq THEN r
  ELSE [r EXCEPT !.seq = seq,
          !.status = CASE type = "started" -> "running" [] type = "completed" -> "idle"
                       [] type = "failed" -> "failed" [] OTHER -> @,
          !.pinned = IF type = "pinned" THEN "yes" ELSE IF type = "unpinned" THEN "no" ELSE @,
          !.archived = IF type = "archived" THEN TRUE ELSE IF type = "restored" THEN FALSE ELSE @]

(* Mutant: an answer replaces the row however old it is. *)
PreferAnswer(snap) == RowOf(TRUE, snap)

PreferFresher(snap) ==
  IF row.known /\ row.seq > snap.seq THEN row ELSE RowOf(TRUE, snap)

-----------------------------------------------------------------------------
(* The stream. *)

(* markSessionUnseenAfter: the end of a run that is not on the screen. *)
UnseenAfter(seq) == IF seen > seq - 1 THEN seq - 1 ELSE seen

Deliver ==
  /\ stream.open /\ stream.at < Len(log)
  /\ stream' = [stream EXCEPT !.at = @ + 1]
  /\ LET seq  == stream.at + 1
         type == log[seq]
     IN  \/ /\ seq <= cursor       \* ingestClientEvent has had it already
            /\ lost' = IF seq > row.seq THEN seq ELSE lost
            /\ UNCHANGED <<cursor, row, call, viewed, seen, screened>>
         \/ /\ seq > cursor
            /\ cursor' = seq
            /\ row' = IF row.known THEN Listed(ApplyEvent(row, seq, type))
                      ELSE [row EXCEPT !.seq = Later(@, seq)]
            /\ call' = IF row.known \/ call["get"].st # "idle" THEN call
                       ELSE [call EXCEPT !["get"].st = "sent"]
            /\ viewed' = (viewed /\ type # "archived")
            /\ LET base == IF type \in Terminal /\ ~viewed /\ (row.known => seq >= row.seq)
                           THEN UnseenAfter(seq) ELSE seen
               IN  /\ held' = held
                   /\ MarkSeen(base)
            /\ UNCHANGED lost
  /\ UNCHANGED <<server, log, held, listLeft>>

(* The transcript of the selected session is read over HTTP as well, and what
   it holds raises the cursor that events of the stream are compared with. *)
HistoryRead ==
  /\ viewed /\ server.seq > cursor /\ SpendList("visits")
  /\ cursor' = server.seq
  /\ UNCHANGED <<server, log, stream, row, call, viewed, seen, held, screened, lost>>

(* The server lost its place, or the page returns to the foreground. *)
Resync ==
  /\ stream.open /\ call["list"].st = "idle" /\ SpendList("failures")
  /\ stream' = [stream EXCEPT !.open = FALSE]
  /\ call' = [call EXCEPT !["list"] = [NoCall EXCEPT !.st = "sent", !.resync = TRUE]]
  /\ UNCHANGED <<server, log, cursor, row, viewed, seen, held, screened, lost>>

-----------------------------------------------------------------------------
(* Requests and their answers. *)

Send(k) == call' = [call EXCEPT ![k] = [NoCall EXCEPT !.st = "sent", !.was = row.pinned]]
Done(k) == call' = [call EXCEPT ![k] = NoCall]
ThenGet(k) == call' = [call EXCEPT ![k] = NoCall,
                         !["get"].st = IF @ = "idle" THEN "sent" ELSE @]

LoadSessions ==
  /\ call["list"].st = "idle" /\ SpendList("requests")
  /\ Send("list")
  /\ UNCHANGED <<outside, row, viewed, seen, held, screened, lost>>

(* Archived sessions are left out of a list that does not show them, whatever
   the row says. *)
Excluded(snap) == snap.archived /\ ~ShowArchived

(* A first answer, or one of a resynchronization, moves the stream's cursor. *)
MovedBy(c) == IF c.resync THEN Later(stream.at, c.snap.seq) ELSE stream.at

(* includeSelectedSession: the session on the screen is not in the answer and
   is asked for by itself. *)
IncludeSelected ==
  LET c == call["list"]
  IN  /\ c.st = "answered" /\ c.ok /\ Excluded(c.snap) /\ viewed /\ ~c.asked
      /\ stream' = [stream EXCEPT !.at = MovedBy(c)]
      /\ call' = [call EXCEPT !["list"] = [c EXCEPT !.st = "sent", !.resync = FALSE,
                                                  !.asked = TRUE]]
      /\ UNCHANGED <<server, log, cursor, row, viewed, seen, held, screened, lost, listLeft>>

(* The row after a list that has the session, and after one that leaves it
   out: what was fresher than that list is dropped with it. *)
FromList(snap) ==
  IF Excluded(snap)
  THEN IF row.seq > snap.seq
       THEN /\ row' = [row EXCEPT !.known = FALSE]
            /\ Missed(row.known)
       ELSE row' = RowOf(FALSE, snap) /\ TakenOver(snap)
  ELSE /\ row' = PreferFresher(snap)
       /\ IF row.known /\ row.seq > snap.seq THEN UNCHANGED lost ELSE TakenOver(snap)

(* A failed list is tried again. *)
ApplyList ==
  /\ call["list"].st = "answered"
  /\ LET c == call["list"]
     IN  IF c.ok
         THEN /\ Excluded(c.snap) /\ viewed => c.asked
              /\ FromList(c.snap)
              /\ stream' = [at |-> MovedBy(c), open |-> TRUE]
              /\ Done("list")
              /\ viewed' = (viewed /\ ~Excluded(c.snap))
         ELSE /\ call' = [call EXCEPT !["list"].st = "sent"]
              /\ UNCHANGED <<row, stream, lost, viewed>>
  /\ UNCHANGED held /\ MarkSeen(seen)
  /\ UNCHANGED <<server, log, cursor, listLeft>>

ApplyGet ==
  /\ call["get"].st = "answered"
  /\ IF call["get"].ok THEN ApplySession(call["get"].snap)
     ELSE /\ UNCHANGED row
          /\ Missed(~row.known /\ ~ArchivedOf(log, row.seq))
  /\ Done("get")
  /\ UNCHANGED <<viewed, held>> /\ MarkSeen(seen)
  /\ UNCHANGED <<outside, listLeft>>

(* handleSubmitPrompt: the status of the answer is shown at once. *)
Submit ==
  /\ viewed /\ row.known /\ call["submit"].st = "idle" /\ SpendList("requests")
  /\ Send("submit")
  /\ UNCHANGED <<outside, row, viewed, seen, held, screened, lost>>

ApplySubmit ==
  /\ call["submit"].st = "answered"
  /\ LET c == call["submit"]
     IN  IF c.ok
         THEN /\ row' = IF row.known THEN [row EXCEPT !.status = c.snap.status] ELSE row
              /\ lost' = IF c.snap.seq < row.seq THEN Later(lost, row.seq) ELSE lost
         ELSE UNCHANGED <<row, lost>>
  /\ Done("submit")
  /\ UNCHANGED <<viewed, held>> /\ MarkSeen(seen)
  /\ UNCHANGED <<outside, listLeft>>

(* handlePinSession: the change is shown, and taken back when it failed and
   is still what is shown: a time that the client made up, or none. *)
Optimistic(pinned) == IF pinned = "no" THEN "guess" ELSE "no"

Pin ==
  /\ row.known /\ call["pin"].st = "idle" /\ (row.pinned = "no" => ~row.archived)
  /\ SpendList("requests")
  /\ row' = [row EXCEPT !.pinned = Optimistic(@)]
  /\ Send("pin")
  /\ UNCHANGED <<outside, viewed, seen, held, screened, lost>>

ApplyPin ==
  /\ call["pin"].st = "answered"
  /\ LET c == call["pin"]
     IN  IF c.ok THEN ApplySession(c.snap)
         ELSE LET back == row.known /\ row.pinned = Optimistic(c.was)
              IN  /\ row' = IF back THEN [row EXCEPT !.pinned = c.was] ELSE row
                  /\ Missed(back /\ c.was # PinnedOf(log, row.seq))
  /\ Done("pin")
  /\ UNCHANGED <<viewed, held>> /\ MarkSeen(seen)
  /\ UNCHANGED <<outside, listLeft>>

(* handleConfirmArchiveSession archives or restores, whichever the row says. *)
ArchiveOrRestore ==
  /\ row.known /\ call["archive"].st = "idle" /\ SpendList("requests")
  /\ call' = [call EXCEPT !["archive"] =
                [NoCall EXCEPT !.st = "sent", !.was = IF row.archived THEN "yes" ELSE "no"]]
  /\ UNCHANGED <<outside, row, viewed, seen, held, screened, lost>>

ApplyArchive ==
  /\ call["archive"].st = "answered"
  /\ LET c == call["archive"]
     IN  IF c.ok
         THEN /\ Done("archive")
              /\ viewed' = (c.was = "yes")
              /\ row' = IF c.snap.archived /\ ~ShowArchived THEN RowOf(FALSE, c.snap)
                        ELSE RowOf(TRUE, c.snap)
              /\ TakenOver(c.snap)
         ELSE /\ IF c.conflict THEN ThenGet("archive") ELSE Done("archive")
              /\ UNCHANGED <<row, viewed, lost>>
  /\ UNCHANGED held /\ MarkSeen(seen)
  /\ UNCHANGED <<outside, listLeft>>

(* completeSessionSelection; clearNotificationAttentionForSession drops what
   was held back here, in the row and, with a request, on the server. *)
OpenSession ==
  /\ ~viewed /\ row.known /\ SpendList("visits")
  /\ viewed' = TRUE
  /\ held' = 0 /\ row' = [row EXCEPT !.attn = 0]
  /\ IF call["attention"].st = "idle" THEN Send("attention") ELSE UNCHANGED call
  /\ MarkSeen(seen)
  /\ UNCHANGED <<outside, lost>>

LeaveSession ==
  /\ viewed /\ viewed' = FALSE
  /\ UNCHANGED <<outside, row, call, seen, held, screened, lost, listLeft>>

ApplyAttention ==
  /\ call["attention"].st = "answered"
  /\ LET c == call["attention"]
     IN  IF c.ok /\ row.known
         THEN row' = RowOf(TRUE, c.snap) /\ TakenOver(c.snap)
         ELSE UNCHANGED <<row, lost>>
  /\ Done("attention")
  /\ UNCHANGED <<viewed, held>> /\ MarkSeen(seen)
  /\ UNCHANGED <<outside, listLeft>>

(* The page was opened from a notification, which holds the session back as
   unseen up to the event it was about. *)
OpenFromNotification ==
  /\ ~viewed /\ row.known /\ server.attn > 0 /\ SpendList("visits")
  /\ held' = server.attn /\ viewed' = TRUE
  /\ UNCHANGED row /\ MarkSeen(seen)
  /\ UNCHANGED <<outside, call, lost>>

(* handleComposerFocus: whoever types has seen it. *)
ComposerFocus ==
  /\ viewed /\ row.known /\ Later(row.attn, held) > 0
  /\ held' = 0 /\ row' = [row EXCEPT !.attn = 0]
  /\ IF call["attention"].st = "idle" THEN Send("attention") ELSE UNCHANGED call
  /\ UNCHANGED viewed /\ MarkSeen(Later(seen, row.seq))
  /\ UNCHANGED <<outside, lost, listLeft>>

(* handleDismissAllNotifications *)
DismissAll ==
  /\ row.known /\ call["dismiss"].st = "idle" /\ SpendList("requests")
  /\ held' = 0 /\ row' = [row EXCEPT !.attn = 0]
  /\ Send("dismiss")
  /\ seen' = Later(row.seq, IF row.seq = 0 THEN seen ELSE 0)
  /\ screened' = Later(screened, row.seq)
  /\ UNCHANGED <<outside, viewed, lost>>

ApplyDismiss ==
  /\ call["dismiss"].st = "answered"
  /\ IF call["dismiss"].ok \/ call["list"].st # "idle" THEN Done("dismiss")
     ELSE call' = [call EXCEPT !["dismiss"].st = "idle", !["list"] = [NoCall EXCEPT !.st = "sent"]]
  /\ UNCHANGED <<outside, row, viewed, seen, held, screened, lost, listLeft>>

-----------------------------------------------------------------------------
ServerSteps == \/ RunEnds \/ RunStarts \/ MovedElsewhere \/ IncludeFails
               \/ \E k \in RequestKinds : Serve(k) \/ Refuse(k)
Answers == \/ IncludeSelected \/ ApplyList \/ ApplyGet \/ ApplySubmit \/ ApplyPin \/ ApplyArchive
           \/ ApplyAttention \/ ApplyDismiss
UserSteps == \/ LoadSessions \/ Submit \/ Pin \/ ArchiveOrRestore \/ OpenSession \/ LeaveSession
             \/ OpenFromNotification \/ ComposerFocus \/ DismissAll

ListNext == ServerSteps \/ Deliver \/ HistoryRead \/ Resync \/ Answers \/ UserSteps
ListSpec == ListInit /\ [][ListNext]_listVars

-----------------------------------------------------------------------------
Quiet == /\ \A k \in RequestKinds : call[k].st = "idle"
         /\ stream.open /\ stream.at = Len(log)

(* When no request is under way and the stream has delivered everything, the
   list shows what the server has: optimistic changes were confirmed or taken
   back, and no older snapshot stayed.  Left out are the rows that took over
   an answer older than themselves, those that a list from while the session
   was archived dropped though they were fresher, the events that history
   swallowed, a failed pin that took back what had been confirmed meanwhile,
   and a failed refresh of a session that is not listed; each until a newer
   answer came. *)
QuietShowsServer ==
  (Quiet /\ lost = 0)
    => /\ ~server.archived => row.known
       /\ row.known => /\ row.status = server.status /\ row.pinned = server.pinned
                       /\ row.archived = server.archived

(* A session that came to rest after the user last had it on the screen, or
   dismissed it, asks for attention, whatever order the row, the stream and
   the notifications were updated in. *)
AttentionAsked ==
  (row.known /\ row.status = "idle" /\ ~viewed /\ row.seq > screened)
    => SessionAttention(row, seen, held)
=============================================================================
