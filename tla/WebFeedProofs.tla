--------------------------- MODULE WebFeedProofs ----------------------------
(* Of what the page shows of the sessions: the list, the row of a message that
   is being written, where a transcript is scrolled to, and the search.

   A row (TranscriptRow).  The newest text is always noted, and drawn unless it
   is selected; what is drawn can only be older while the text is selected or
   the page was not told yet that it no longer is.

   The search (SpotlightSearch): what the dialog shows at rest is the answer to
   its query, for any queries and results and however often they are typed,
   fail or arrive late.  The argument needs three facts.  A search that was not
   aborted is the one of the query on the screen (Current): every way to change
   the query aborts what is under way.  What a search has gathered is the answer
   to its own query, complete for the history once that was heard and did not
   fail (Gathered).  And while the dialog is at rest nobody changes what is
   shown, since an aborted search publishes nothing.

   The scroll position (TranscriptScroll).  What the code may not yet have seen
   of a scroll is in its refs: a gesture that began near the tail and last saw
   the view far from it has it still there, unless the code itself has moved it
   since (Traced); a snap that is pending belongs to a scroll or a jump under
   way (SnapEnds); a view that is at the tail without following it waits for
   something that will settle it (Unsettled).

   The list (SessionList).  The server's row, and each of its answers, is what
   the log says up to its own sequence number (AsLogged).  The row of the page
   is too, but for a status that a newer answer brought, which only the events
   up to that answer can change, and for a pin that waits for its answer
   (RowStands); as long as nothing got lost it is no older than the stream, so
   when the stream is through and nothing is waited for, it is the server's. *)
EXTENDS SessionList, TranscriptRow, TranscriptScroll, SpotlightSearch, TLAPS

RowIInv ==
  /\ selected \in BOOLEAN /\ changed \in BOOLEAN
  /\ latest = text
  /\ ~selected /\ ~changed => displayed = text

(* The steps that draw a text or have to do with the selection. *)
LEMMA TextStep ==
  ASSUME RowIInv, Written \/ Select \/ Deselect \/ SelectionChanged \/ Copy
  PROVE  RowIInv' /\ ShowsHeld
<1>1. CASE Written
  BY <1>1 DEF Written, Render, RowIInv, ShowsHeld, selection
<1>2. CASE Select \/ Deselect
  BY <1>2 DEF Select, Deselect, RowIInv, ShowsHeld, texts
<1>3. CASE SelectionChanged
  BY <1>3 DEF SelectionChanged, RowIInv, ShowsHeld
<1>4. CASE Copy
  BY <1>4 DEF Copy, RowIInv, ShowsHeld, texts
<1> QED BY <1>1, <1>2, <1>3, <1>4

LEMMA OtherRowStep ==
  ASSUME RowIInv, UNCHANGED <<texts, selection>>
  PROVE  RowIInv' /\ ShowsHeld
BY DEF RowIInv, ShowsHeld, texts, selection

LEMMA RowStep == ASSUME RowIInv, [RowNext]_rowVars PROVE RowIInv' /\ ShowsHeld
<1>1. CASE Written \/ Select \/ Deselect \/ SelectionChanged \/ Copy
  BY <1>1, TextStep
<1>2. CASE CopyTick \/ ToolStarts \/ Unfold
  BY <1>2, OtherRowStep DEF CopyTick, ToolStarts, Unfold
<1>3. ASSUME NEW n, Focus(n) \/ ToggleOutput(n) \/ LoadOutput(n) \/ OutputLoaded(n)
      PROVE  RowIInv' /\ ShowsHeld
  BY <1>3, OtherRowStep DEF Focus, ToggleOutput, LoadOutput, OutputLoaded
<1>4. CASE UNCHANGED rowVars
  BY <1>4, OtherRowStep DEF rowVars
<1> QED BY <1>1, <1>2, <1>3, <1>4 DEF RowNext

(* ChatMessageRow and MarkdownContent, for any number of deltas, selections and
   copies in any order: a text that is being selected is not redrawn, and once it
   is not and the page was told, all that was written is shown. *)
THEOREM TextIsHeldThenShown == RowSpec => HeldThenShown
<1>1. RowInit => RowIInv
  BY DEF RowInit, RowIInv
<1>2. RowIInv /\ [RowNext]_rowVars => RowIInv' /\ [ShowsHeld]_rowVars
  BY RowStep
<1> QED BY <1>1, <1>2, PTL DEF RowSpec, HeldThenShown

-----------------------------------------------------------------------------
(* The search. *)

(* A search is a record of its six fields; what their values are does not matter,
   but for the two flags. *)
IsSearch(s) ==
  /\ s = [query |-> s.query, from |-> s.from, aborted |-> s.aborted,
          results |-> s.results, fatal |-> s.fatal, number |-> s.number]
  /\ s.aborted \in BOOLEAN /\ s.fatal \in BOOLEAN

Gathered(s) ==
  /\ s.results \subseteq Hits[s.query]
  /\ "history" \notin s.from /\ ~s.fatal => HitsFrom(s.query, "history") \subseteq s.results

Current(s) == ~s.aborted => open /\ query = s.query /\ query # NoQuery /\ ~due

Searches == \A s \in streams : IsSearch(s) /\ Gathered(s) /\ Current(s)

IInv ==
  /\ open \in BOOLEAN /\ due \in BOOLEAN
  /\ ~open => query = NoQuery
  /\ due => open /\ query # NoQuery
  /\ Searches
  /\ AnswerIsTheQuerys

-----------------------------------------------------------------------------
LEMMA InitInvariant == SearchInit => IInv
BY DEF SearchInit, IInv, Searches, AnswerIsTheQuerys, Resting

LEMMA AbortedSearches ==
  ASSUME Searches, NEW t \in Aborted
  PROVE  IsSearch(t) /\ Gathered(t) /\ t.aborted
<1>1. PICK s \in streams : t = [s EXCEPT !.aborted = TRUE]
  BY DEF Aborted
<1>2. IsSearch(s) /\ Gathered(s)
  BY DEF Searches
<1>3. t = [query |-> s.query, from |-> s.from, aborted |-> TRUE,
           results |-> s.results, fatal |-> s.fatal, number |-> s.number]
  BY <1>1, <1>2 DEF IsSearch
<1> QED BY <1>2, <1>3 DEF IsSearch, Gathered

LEMMA OpenStep == ASSUME IInv, Open PROVE IInv'
BY DEF Open, IInv, Searches, IsSearch, Gathered, Current, AnswerIsTheQuerys, Resting

LEMMA CloseStep == ASSUME IInv, Close PROVE IInv'
<1>1. Searches'
  BY AbortedSearches DEF IInv, Close, Searches, Gathered, IsSearch, Current
<1>2. AnswerIsTheQuerys'
  BY DEF Close, AnswerIsTheQuerys, Resting
<1> QED BY <1>1, <1>2 DEF Close, IInv

(* While the new query waits, nothing rests. *)
LEMMA TypeStep == ASSUME IInv, NEW q, Type(q) PROVE IInv'
<1>1. Searches'
  BY AbortedSearches DEF IInv, Type, Searches, Gathered, IsSearch, Current
<1>2. AnswerIsTheQuerys'
  BY DEF Type, AnswerIsTheQuerys, Resting
<1>3. due' \in BOOLEAN /\ (due' => open' /\ query' # NoQuery) /\ open' = open /\ open
  BY DEF Type
<1> QED BY <1>1, <1>2, <1>3 DEF IInv

(* The only search that may go on after the pause is the one it starts. *)
LEMMA AskStep == ASSUME IInv, Ask PROVE IInv'
<1> DEFINE n == [query |-> query, from |-> Sources, aborted |-> FALSE,
                 results |-> {}, fatal |-> FALSE, number |-> searchSpent.queries]
<1>1. due /\ due' = FALSE /\ streams' = streams \cup {n} /\ UNCHANGED <<open, query>>
  BY DEF Ask
<1>2. IsSearch(n) /\ Gathered(n) /\ ~n.aborted /\ n.query = query
  BY DEF IsSearch, Gathered, Sources
<1>3. Searches'
  <2> SUFFICES ASSUME NEW s \in streams' PROVE IsSearch(s) /\ Gathered(s) /\ Current(s)'
    BY DEF Searches, IsSearch, Gathered
  <2>1. CASE s = n
    BY <1>1, <1>2, <2>1 DEF IInv, Current
  <2>2. CASE s \in streams
    BY <1>1, <2>2 DEF IInv, Searches, Current
  <2> QED BY <1>1, <2>1, <2>2
<1>4. ~Resting'
  BY <1>1, <1>2 DEF Resting
<1> QED BY <1>1, <1>3, <1>4 DEF IInv, AnswerIsTheQuerys

(* A step of one search, which becomes t or is over. *)
LEMMA OneSearch ==
  ASSUME IInv, NEW s \in streams, NEW t, IsSearch(t), Gathered(t),
         t.query = s.query, t.aborted = s.aborted,
         streams' \subseteq (streams \ {s}) \cup {t}, UNCHANGED <<open, query, due>>
  PROVE  Searches'
<1> SUFFICES ASSUME NEW u \in streams' PROVE IsSearch(u) /\ Gathered(u) /\ Current(u)'
  BY DEF Searches, IsSearch, Gathered
<1>1. CASE u = t
  BY <1>1 DEF IInv, Searches, Current
<1>2. CASE u \in streams
  BY <1>2 DEF IInv, Searches, Current
<1> QED BY <1>1, <1>2

(* Nothing is shown of an aborted search, and it keeps nothing from resting. *)
LEMMA Unseen ==
  ASSUME IInv, NEW s \in streams, s.aborted, streams \ {s} \subseteq streams',
         UNCHANGED <<open, query, due, shown>>
  PROVE  AnswerIsTheQuerys'
<1>1. Resting' => Resting
  BY DEF Resting
<1>2. Visible' = Visible
  BY DEF Visible, shown
<1> QED BY <1>1, <1>2 DEF IInv, AnswerIsTheQuerys, shown

(* What a search becomes when a source has answered, or could not. *)
LEMMA Heard ==
  ASSUME NEW s, IsSearch(s), NEW from, NEW found
  PROVE  [s EXCEPT !.from = from, !.results = found] =
           [query |-> s.query, from |-> from, aborted |-> s.aborted,
            results |-> found, fatal |-> s.fatal, number |-> s.number]
<1> DEFINE t == [s EXCEPT !.from = from, !.results = found]
<1>1. s \in [query : {s.query}, from : {s.from}, aborted : {s.aborted},
            results : {s.results}, fatal : {s.fatal}, number : {s.number}]
  BY DEF IsSearch
<1>2. t \in [query : {s.query}, from : {from}, aborted : {s.aborted},
            results : {found}, fatal : {s.fatal}, number : {s.number}]
  BY <1>1
<1> HIDE DEF t
<1>3. t = [query |-> s.query, from |-> from, aborted |-> s.aborted,
           results |-> found, fatal |-> s.fatal, number |-> s.number]
  BY <1>2
<1> QED BY <1>3 DEF t

LEMMA NotHeard ==
  ASSUME NEW s, IsSearch(s), NEW from, NEW fatal
  PROVE  [s EXCEPT !.from = from, !.fatal = fatal] =
           [query |-> s.query, from |-> from, aborted |-> s.aborted,
            results |-> s.results, fatal |-> fatal, number |-> s.number]
<1> DEFINE t == [s EXCEPT !.from = from, !.fatal = fatal]
<1>1. s \in [query : {s.query}, from : {s.from}, aborted : {s.aborted},
            results : {s.results}, fatal : {s.fatal}, number : {s.number}]
  BY DEF IsSearch
<1>2. t \in [query : {s.query}, from : {from}, aborted : {s.aborted},
            results : {s.results}, fatal : {fatal}, number : {s.number}]
  BY <1>1
<1> HIDE DEF t
<1>3. t = [query |-> s.query, from |-> from, aborted |-> s.aborted,
           results |-> s.results, fatal |-> fatal, number |-> s.number]
  BY <1>2
<1> QED BY <1>3 DEF t

LEMMA BatchStep ==
  ASSUME IInv, NEW s \in streams, NEW source \in Sources, Batch(s, source)
  PROVE  IInv'
<1> DEFINE t == Merged(s, source)
<1>0. IsSearch(s) /\ Gathered(s)
  BY DEF IInv, Searches
<1>1. t = [query |-> s.query, from |-> s.from \ {source}, aborted |-> s.aborted,
           results |-> s.results \cup HitsFrom(s.query, source),
           fatal |-> s.fatal, number |-> s.number]
  BY <1>0, Heard DEF Merged
<1>2. IsSearch(t) /\ t.query = s.query /\ t.aborted = s.aborted
  BY <1>0, <1>1 DEF IsSearch
<1>3. Gathered(t)
  BY <1>0, <1>1 DEF Gathered, HitsFrom
<1>4. streams' = (streams \ {s}) \cup {t} /\ UNCHANGED <<open, query, due>>
  BY DEF Batch
<1>5. Searches'
  BY <1>2, <1>3, <1>4, OneSearch
<1>6. AnswerIsTheQuerys'
  <2>1. CASE s.aborted
    <3>1. UNCHANGED shown
      BY <1>2, <2>1 DEF Batch, Publish
    <3> QED BY <1>4, <2>1, <3>1, Unseen
  <2>2. CASE ~s.aborted
    BY <1>2, <1>4, <2>2 DEF AnswerIsTheQuerys, Resting
  <2> QED BY <2>1, <2>2
<1> QED BY <1>4, <1>5, <1>6 DEF IInv

LEMMA BatchFailsStep ==
  ASSUME IInv, NEW s \in streams, NEW source \in Sources, BatchFails(s, source)
  PROVE  IInv'
<1> DEFINE t == [s EXCEPT !.from = @ \ {source}, !.fatal = @ \/ source = "history"]
<1>0. IsSearch(s) /\ Gathered(s)
  BY DEF IInv, Searches
<1>1. t = [query |-> s.query, from |-> s.from \ {source}, aborted |-> s.aborted,
           results |-> s.results, fatal |-> (s.fatal \/ source = "history"), number |-> s.number]
  BY <1>0, NotHeard
<1>2. IsSearch(t) /\ t.query = s.query /\ t.aborted = s.aborted
  BY <1>0, <1>1 DEF IsSearch
<1>3. Gathered(t)
  BY <1>0, <1>1 DEF Gathered
<1>4. streams' = (streams \ {s}) \cup {t} /\ UNCHANGED <<open, query, due>>
  BY DEF BatchFails
<1>5. Searches'
  BY <1>2, <1>3, <1>4, OneSearch
<1>6. AnswerIsTheQuerys'
  <2>1. CASE s.aborted
    <3>1. UNCHANGED shown
      BY <1>2, <2>1 DEF BatchFails, Publish
    <3> QED BY <1>4, <2>1, <3>1, Unseen
  <2>2. CASE ~s.aborted
    BY <1>2, <1>4, <2>2 DEF AnswerIsTheQuerys, Resting
  <2> QED BY <2>1, <2>2
<1> QED BY <1>4, <1>5, <1>6 DEF IInv

(* What a search that failed leaves: no results and a message. *)
LEMMA FailedShows ==
  ASSUME NEW s, ~s.aborted, Failed(s)
  PROVE  AnswerIsTheQuerys'
BY DEF Failed, AnswerIsTheQuerys

LEMMA EndStep == ASSUME IInv, NEW s \in streams, End(s) PROVE IInv'
<1>0. IsSearch(s) /\ Gathered(s) /\ Current(s)
  BY DEF IInv, Searches
<1>1. streams' = streams \ {s} /\ s.from = {} /\ UNCHANGED <<open, query, due>>
  BY DEF End
<1>2. Searches'
  BY <1>0, <1>1, OneSearch
<1>3. AnswerIsTheQuerys'
  <2>1. CASE s.aborted
    <3>1. UNCHANGED shown
      BY <2>1 DEF End, Publish, Failed
    <3> QED BY <1>1, <2>1, <3>1, Unseen
  <2>2. CASE ~s.aborted /\ s.fatal
    BY <2>2, FailedShows DEF End
  <2>3. CASE ~s.aborted /\ ~s.fatal
    <3>1. /\ results' = s.results /\ settled' = TRUE
          /\ filter' = IF \E r \in s.results : r.kind = filter THEN filter ELSE "all"
      BY <2>3 DEF End, Publish
    <3>2. query' = s.query
      BY <1>0, <1>1, <2>3 DEF Current
    <3>3. results' \subseteq Hits[query'] /\ HitsFrom(query', "history") \subseteq results'
      BY <1>0, <1>1, <2>3, <3>1, <3>2 DEF Gathered
    <3>4. results' # {} => Visible' # {}
      BY <3>1 DEF Visible
    <3> QED BY <3>1, <3>3, <3>4 DEF AnswerIsTheQuerys, HitsFrom
  <2> QED BY <1>0, <2>1, <2>2, <2>3 DEF IsSearch
<1> QED BY <1>1, <1>2, <1>3 DEF IInv

LEMMA BrokenStep == ASSUME IInv, NEW s \in streams, Broken(s) PROVE IInv'
<1>0. IsSearch(s) /\ Gathered(s)
  BY DEF IInv, Searches
<1>1. streams' = streams \ {s} /\ Failed(s) /\ UNCHANGED <<open, query, due>>
  BY DEF Broken
<1>2. Searches'
  BY <1>0, <1>1, OneSearch
<1>3. AnswerIsTheQuerys'
  <2>1. CASE s.aborted
    <3>1. UNCHANGED shown
      BY <1>1, <2>1 DEF Failed
    <3> QED BY <1>1, <2>1, <3>1, Unseen
  <2>2. CASE ~s.aborted
    BY <1>1, <2>2, FailedShows
  <2> QED BY <2>1, <2>2
<1> QED BY <1>1, <1>2, <1>3 DEF IInv

(* Only a filter that shows something can be chosen. *)
LEMMA FilterStep == ASSUME IInv, NEW kind, Filter(kind) PROVE IInv'
<1>1. UNCHANGED <<open, query, due, streams, results, settled, error>> /\ filter' = kind
  BY DEF Filter
<1>2. Searches'
  BY <1>1 DEF IInv, Searches, IsSearch, Gathered, Current
<1>3. results' # {} => Visible' # {}
  BY <1>1 DEF Filter, Visible
<1>4. AnswerIsTheQuerys'
  BY <1>1, <1>3 DEF IInv, AnswerIsTheQuerys, Resting, HitsFrom
<1> QED BY <1>1, <1>2, <1>4 DEF IInv

LEMMA NextInvariant == IInv /\ [SearchNext]_searchVars => IInv'
<1> SUFFICES ASSUME IInv, [SearchNext]_searchVars PROVE IInv'
  OBVIOUS
<1>1. CASE Open
  BY <1>1, OpenStep
<1>2. CASE Close \/ Choose
  BY <1>2, CloseStep DEF Choose
<1>3. CASE Ask
  BY <1>3, AskStep
<1>4. ASSUME NEW q, Type(q) PROVE IInv'
  BY <1>4, TypeStep
<1>5. ASSUME NEW s \in streams,
             \/ End(s) \/ Broken(s)
             \/ \E f \in Sources : Batch(s, f) \/ BatchFails(s, f)
      PROVE  IInv'
  BY <1>5, EndStep, BrokenStep, BatchStep, BatchFailsStep
<1>6. ASSUME NEW kind, Filter(kind) PROVE IInv'
  BY <1>6, FilterStep
<1>7. CASE UNCHANGED searchVars
  BY <1>7 DEF searchVars, shown, IInv, Searches, IsSearch, Gathered, Current, AnswerIsTheQuerys,
              Resting, Visible, HitsFrom
<1> QED BY <1>1, <1>2, <1>3, <1>4, <1>5, <1>6, <1>7 DEF SearchNext

(* At rest the dialog shows the answer to its query: for any queries, results,
   filters and failures, and any number of searches under way. *)
THEOREM ShowsTheAnswer == SearchSpec => []AnswerIsTheQuerys
<1>1. SearchSpec => []IInv
  BY InitInvariant, NextInvariant, PTL DEF SearchSpec
<1>2. IInv => AnswerIsTheQuerys
  BY DEF IInv
<1> QED BY <1>1, <1>2, PTL

-----------------------------------------------------------------------------
(* The scroll position (TranscriptScroll). *)

Gestures == [on : BOOLEAN, start : Distances, previous : Distances]
Views ==
  [dist : Distances, following : BOOLEAN, pin : BOOLEAN, snap : BOOLEAN, resuming : BOOLEAN,
   frame : BOOLEAN, moved : BOOLEAN, scrolling : BOOLEAN, detached : BOOLEAN,
   gesture : Gestures, intent : {"none", "forward", "backward"},
   pointer : {"none", "mouse", "touch"}, contact : BOOLEAN]

(* The tail is scrolled to only while it is followed; a touch is a contact. *)
Carried(s) == (s.frame \/ s.pin => s.following) /\ (s.pointer = "touch" => s.contact)

(* A gesture notes where it saw the view last, unless the code has moved it
   since; away from where it began, only the far end matters. *)
Traced(s, link) ==
  s.gesture.on /\ ~link.on /\ s.gesture.previous = Far /\ s.gesture.start # Far
    => s.moved \/ s.dist = Far

(* A snap that is pending belongs to a scroll or a jump. *)
SnapEnds(s) == s.snap => s.scrolling \/ s.resuming

(* A view at the live tail that does not follow it has not come to rest. *)
Unsettled(s, newerEvents, link) ==
  s.dist = AtTail /\ ~newerEvents /\ ~s.following
    => \/ s.scrolling \/ s.resuming \/ s.contact \/ link.on \/ link.returning
       \/ s.pointer # "none" \/ s.intent # "none"

Loose(s, link) == s \in Views /\ Carried(s) /\ Traced(s, link)
Fine(s, newerEvents, link) == Loose(s, link) /\ SnapEnds(s) /\ Unsettled(s, newerEvents, link)

Away(s) == ~s.following /\ s.dist > Reattach

ScrollIInv ==
  /\ hasNewer \in BOOLEAN /\ left \in BOOLEAN
  /\ focus \in [on : BOOLEAN, returning : BOOLEAN]
  /\ Fine(view, hasNewer, focus)
  /\ left => Away(view)

-----------------------------------------------------------------------------
LEMMA Thresholds ==
  /\ AtTail \in Distances /\ Far \in Distances /\ NoGesture \in Gestures /\ ~NoGesture.on
  /\ AtTail = 0 /\ Reattach = 1 /\ Detach = 2 /\ Far = 3 /\ Distances \subseteq Nat
BY DEF Distances, AtTail, Far, Reattach, Detach, Gestures, NoGesture

LEMMA Steps ==
  ASSUME ScrollIInv, NEW s, Fine(s, hasNewer, focus), Step(s),
         s.resuming /\ ~view.resuming => ~s.gesture.on,
         left' \in BOOLEAN, left' => Away(s)
  PROVE  ScrollIInv'
<1>1. view' = s
  BY DEF Step
<1>2. hasNewer' \in BOOLEAN /\ focus' \in [on : BOOLEAN, returning : BOOLEAN]
  BY DEF Step, ScrollIInv
<1>3. \/ s.resuming /\ ~s.gesture.on /\ focus' = [on |-> FALSE, returning |-> TRUE]
      \/ focus' = focus
  BY DEF Step
<1>4. hasNewer' = hasNewer \/ s.resuming
  BY DEF Step
<1>5. Unsettled(s, hasNewer', focus')
  BY <1>3, <1>4 DEF Fine, Unsettled
<1>6. Traced(s, focus')
  BY <1>3 DEF Fine, Loose, Traced
<1>7. Fine(s, hasNewer', focus')
  BY <1>5, <1>6 DEF Fine, Loose
<1>8. (Fine(view, hasNewer, focus))'
  BY <1>1, <1>7 DEF Fine, Loose, Carried, Unsettled, Traced, SnapEnds
<1> QED BY <1>1, <1>2, <1>8 DEF ScrollIInv, Away

-----------------------------------------------------------------------------
(* What the helpers of the handlers make of a view. *)
LEMMA AtTheEnd ==
  ASSUME NEW s \in Views
  PROVE  /\ ToEnd(s) \in Views
         /\ ToEnd(s).dist = AtTail /\ (ToEnd(s).moved <=> s.moved \/ s.dist # AtTail)
         /\ ToEnd(s).following = s.following /\ ToEnd(s).frame = s.frame
         /\ ToEnd(s).pin = s.pin /\ ToEnd(s).snap = s.snap /\ ToEnd(s).resuming = s.resuming
         /\ ToEnd(s).scrolling = s.scrolling /\ ToEnd(s).gesture = s.gesture
         /\ ToEnd(s).intent = s.intent /\ ToEnd(s).pointer = s.pointer
         /\ ToEnd(s).contact = s.contact
<1>1. (s.moved \/ s.dist # AtTail) \in BOOLEAN
  OBVIOUS
<1> QED BY <1>1, Thresholds DEF Views, ToEnd

LEMMA EndIsLoose ==
  ASSUME NEW s, NEW link, Loose(s, link)
  PROVE  Loose(ToEnd(s), link)
BY AtTheEnd, Thresholds DEF Loose, Carried, Traced

LEMMA FollowedIsFine ==
  ASSUME NEW s, NEW newerEvents, NEW link, Loose(s, link), s.following \/ s.scrolling,
         s.snap => s.scrolling \/ s.resuming
  PROVE  Fine(s, newerEvents, link)
BY DEF Fine, SnapEnds, Unsettled

LEMMA Scheduled ==
  ASSUME NEW s, NEW link, Loose(s, link), s.following
  PROVE  /\ Loose(ScheduleTailScroll(s), link) /\ ScheduleTailScroll(s).following
         /\ ScheduleTailScroll(s).snap = s.snap /\ ScheduleTailScroll(s).resuming = s.resuming
         /\ ScheduleTailScroll(s).scrolling = s.scrolling
         /\ ScheduleTailScroll(s).gesture = s.gesture
<1>1. s \in Views
  BY DEF Loose
<1> DEFINE e == ToEnd(s)
           r == ScheduleTailScroll(s)
<1>2. /\ e \in Views /\ e.following /\ e.resuming = s.resuming /\ e.snap = s.snap
      /\ e.scrolling = s.scrolling /\ e.gesture = s.gesture
  BY <1>1, AtTheEnd
<1>3. Loose(e, link)
  BY EndIsLoose
<1>4. r = [e EXCEPT !.frame = TRUE]
  BY DEF ScheduleTailScroll
<1> HIDE DEF e, r
<1>5. /\ r \in Views /\ r.dist = e.dist /\ r.moved = e.moved /\ r.following = e.following
      /\ r.pin = e.pin /\ r.snap = e.snap /\ r.resuming = e.resuming /\ r.frame
      /\ r.scrolling = e.scrolling /\ r.gesture = e.gesture
      /\ r.pointer = e.pointer /\ r.contact = e.contact
  BY <1>2, <1>4 DEF Views
<1>6. Loose(r, link)
  BY <1>2, <1>3, <1>5 DEF Loose, Carried, Traced
<1>7. /\ Loose(r, link) /\ r.following /\ r.snap = s.snap /\ r.resuming = s.resuming
      /\ r.scrolling = s.scrolling /\ r.gesture = s.gesture
  BY <1>2, <1>5, <1>6
<1> QED BY <1>7 DEF r

LEMMA ResumedIsFine ==
  ASSUME NEW s, NEW newerEvents, NEW link, Loose(s, link)
  PROVE  /\ Fine(Resumed(s), newerEvents, link) /\ ~Resumed(s).resuming
<1> DEFINE e == ToEnd(s)
           r == Resumed(s)
<1>1. e \in Views /\ Loose(e, link)
  BY EndIsLoose, AtTheEnd DEF Loose
<1>2. ScheduleTailScroll(s) = [e EXCEPT !.frame = TRUE]
  BY DEF ScheduleTailScroll
<1>3. r = [[e EXCEPT !.frame = TRUE] EXCEPT !.following = TRUE, !.snap = FALSE, !.resuming = FALSE]
  BY <1>2 DEF Resumed
<1> HIDE DEF e, r
<1>4. /\ r \in Views /\ r.dist = e.dist /\ r.moved = e.moved /\ r.following
      /\ ~r.snap /\ ~r.resuming /\ r.gesture = e.gesture
      /\ r.pointer = e.pointer /\ r.contact = e.contact
  BY <1>1, <1>3 DEF Views
<1>5. Loose(r, link)
  BY <1>1, <1>4 DEF Loose, Carried, Traced
<1>6. Fine(r, newerEvents, link) /\ ~r.resuming
  BY <1>4, <1>5, FollowedIsFine
<1> QED BY <1>6 DEF r

LEMMA ResumeIsFine ==
  ASSUME NEW s, NEW link, hasNewer \in BOOLEAN, Loose(s, link)
  PROVE  /\ Fine(Resume(s), hasNewer, link)
         /\ Resume(s).resuming /\ ~s.resuming => ~Resume(s).gesture.on
<1> DEFINE b == [s EXCEPT !.detached = FALSE, !.gesture = NoGesture, !.pin = FALSE,
                          !.snap = TRUE, !.resuming = TRUE]
           r == Resume(s)
<1>1. r = IF s.resuming THEN s ELSE IF hasNewer THEN b ELSE Resumed(b)
  BY DEF Resume
<1>2. s \in Views /\ s.resuming \in BOOLEAN
  BY DEF Loose, Views
<1>3. /\ b \in Views /\ b.gesture = NoGesture /\ ~b.pin /\ b.snap /\ b.resuming
      /\ b.frame = s.frame /\ b.following = s.following
      /\ b.pointer = s.pointer /\ b.contact = s.contact
  BY <1>2, Thresholds DEF Views
<1> HIDE DEF b, r
<1>4. Loose(b, link)
  BY <1>3, Thresholds DEF Loose, Carried, Traced
<1>5. Fine(b, hasNewer, link) /\ ~b.gesture.on
  BY <1>3, <1>4, Thresholds DEF Fine, SnapEnds, Unsettled
<1>6. Fine(r, hasNewer, link) /\ (r.resuming /\ ~s.resuming => ~r.gesture.on)
  <2>1. CASE s.resuming
    <3>1. Fine(s, hasNewer, link)
      BY <2>1 DEF Fine, SnapEnds, Unsettled
    <3>2. r = s
      BY <1>1, <2>1
    <3>3. Fine(r, hasNewer, link)
      BY <3>1, <3>2
    <3>4. ~(r.resuming /\ ~s.resuming)
      BY <2>1
    <3> QED BY <3>3, <3>4
  <2>2. CASE ~s.resuming /\ hasNewer
    BY <1>1, <1>5, <2>2
  <2>3. CASE ~s.resuming /\ ~hasNewer
    BY <1>1, <1>4, <2>3, ResumedIsFine
  <2> QED BY <2>1, <2>2, <2>3
<1> QED BY <1>6 DEF r

LEMMA TailIsKept ==
  ASSUME NEW s, NEW link, Loose(s, link)
  PROVE  /\ Loose(KeepTail(s), link)
         /\ KeepTail(s).resuming = s.resuming /\ KeepTail(s).intent = s.intent
         /\ KeepTail(s).scrolling = s.scrolling /\ KeepTail(s).snap = s.snap
         /\ KeepTail(s).following = s.following
         /\ s.intent # "none" \/ ~s.following => KeepTail(s) = s
<1>0. s \in Views
  BY DEF Loose
<1>1. CASE s.intent = "none" /\ s.following /\ ~hasNewer /\ s.dist > AtTail
  <2>1. KeepTail(s) = ToEnd(s)
    BY <1>1 DEF KeepTail
  <2>2. Loose(KeepTail(s), link)
    BY <2>1, EndIsLoose
  <2>3. ~(s.intent # "none" \/ ~s.following)
    BY <1>1
  <2> QED BY <1>0, <2>1, <2>2, <2>3, AtTheEnd
<1>2. CASE ~(s.intent = "none" /\ s.following /\ ~hasNewer /\ s.dist > AtTail)
  <2>1. KeepTail(s) = s
    BY <1>2 DEF KeepTail
  <2> QED BY <2>1
<1> QED BY <1>1, <1>2

LEMMA ReconciledIsFine ==
  ASSUME NEW s, NEW newerEvents, NEW link, Loose(s, link)
  PROVE  /\ Fine(Reconciled(s), newerEvents, link)
         /\ Reconciled(s).resuming = s.resuming
<1> DEFINE r == Reconciled(s)
<1>1. s \in Views
  BY DEF Loose
<1>2. /\ r \in Views /\ r.gesture = NoGesture /\ ~r.snap /\ r.following
      /\ r.pointer = s.pointer /\ r.contact = s.contact /\ r.resuming = s.resuming
  BY <1>1, Thresholds DEF Reconciled, Views
<1> HIDE DEF r
<1>3. Loose(r, link)
  BY <1>2, Thresholds DEF Loose, Carried, Traced
<1>4. Fine(r, newerEvents, link) /\ r.resuming = s.resuming
  BY <1>2, <1>3, FollowedIsFine
<1> QED BY <1>4 DEF r

LEMMA PausedIsLoose ==
  ASSUME NEW s, NEW link, Loose(s, link)
  PROVE  /\ Loose(Pause(s), link)
         /\ ~Pause(s).following /\ ~Pause(s).snap /\ Pause(s).dist = s.dist
         /\ Pause(s).scrolling = s.scrolling /\ Pause(s).resuming = s.resuming
         /\ Pause(s).intent = s.intent /\ Pause(s).gesture = s.gesture
         /\ Pause(s).pointer = s.pointer /\ Pause(s).contact = s.contact
         /\ Pause(s).moved = s.moved
<1>1. s \in Views
  BY DEF Loose
<1> DEFINE r == Pause(s)
<1>2. /\ r \in Views /\ r.dist = s.dist /\ r.moved = s.moved /\ ~r.following /\ ~r.pin
      /\ ~r.snap /\ r.resuming = s.resuming /\ ~r.frame /\ r.scrolling = s.scrolling
      /\ r.gesture = s.gesture /\ r.intent = s.intent /\ r.pointer = s.pointer
      /\ r.contact = s.contact
  BY <1>1 DEF Pause, Views
<1> HIDE DEF r
<1>3. Loose(r, link)
  BY <1>2 DEF Loose, Carried, Traced
<1>4. /\ Loose(r, link)
      /\ ~r.following /\ ~r.snap /\ r.dist = s.dist
      /\ r.scrolling = s.scrolling /\ r.resuming = s.resuming
      /\ r.intent = s.intent /\ r.gesture = s.gesture
      /\ r.pointer = s.pointer /\ r.contact = s.contact /\ r.moved = s.moved
  BY <1>2, <1>3
<1> QED BY <1>4 DEF r

LEMMA SettledIsFine ==
  ASSUME NEW s, hasNewer \in BOOLEAN, Loose(s, focus)
  PROVE  /\ Fine(Settled(s), hasNewer, focus)
         /\ Settled(s).resuming /\ ~s.resuming => ~Settled(s).gesture.on
         /\ Away(s) => Away(Settled(s))
<1> DEFINE q == [s EXCEPT !.intent = "none"]
           w == [q EXCEPT !.snap = FALSE]
           r == Settled(s)
<1>1. s \in Views
  BY DEF Loose
<1>2. /\ q \in Views /\ q.dist = s.dist /\ q.moved = s.moved /\ q.following = s.following
      /\ q.pin = s.pin /\ q.snap = s.snap /\ q.resuming = s.resuming /\ q.frame = s.frame
      /\ q.scrolling = s.scrolling /\ q.gesture = s.gesture /\ q.intent = "none"
      /\ q.pointer = s.pointer /\ q.contact = s.contact
  BY <1>1 DEF Views
<1>3. r = CASE AtSettledTail(q) -> Reconciled(q)
            [] ~AtSettledTail(q) /\ ~q.snap -> q
            [] OTHER -> IF q.following /\ ~hasNewer THEN ScheduleTailScroll(w)
                        ELSE IF q.dist <= Reattach THEN Resume(q) ELSE w
  BY DEF Settled
<1> HIDE DEF q, r
<1>4. /\ w \in Views /\ w.dist = q.dist /\ w.moved = q.moved /\ w.following = q.following
      /\ w.pin = q.pin /\ ~w.snap /\ w.resuming = q.resuming /\ w.frame = q.frame
      /\ w.scrolling = q.scrolling /\ w.gesture = q.gesture
      /\ w.pointer = q.pointer /\ w.contact = q.contact
  BY <1>2 DEF Views
<1> HIDE DEF w
<1>5. Loose(q, focus)
  BY <1>2 DEF Loose, Carried, Traced
<1>6. Loose(w, focus)
  BY <1>4, <1>5 DEF Loose, Carried, Traced
<1> DEFINE Goal(x) == /\ Fine(x, hasNewer, focus) /\ (x.resuming /\ ~s.resuming => ~x.gesture.on)
                      /\ Away(s) => Away(x)
<1>7. Goal(r)
  <2>1. CASE AtSettledTail(q)
    <3>1. r = Reconciled(q)
      BY <1>3, <2>1
    <3>2. ~Away(s)
      BY <1>2, <2>1, Thresholds DEF AtSettledTail, Away
    <3> QED BY <1>2, <1>5, <3>1, <3>2, ReconciledIsFine
  <2>2. CASE ~AtSettledTail(q) /\ ~q.snap
    <3>1. r = q
      BY <1>3, <2>2
    <3>2. Unsettled(q, hasNewer, focus)
      BY <1>2, <2>2 DEF AtSettledTail, Unsettled
    <3>3. Fine(q, hasNewer, focus)
      BY <1>5, <2>2, <3>2 DEF Fine, SnapEnds
    <3> QED BY <1>2, <3>1, <3>3 DEF Away
  <2>3. CASE ~AtSettledTail(q) /\ q.snap /\ q.following /\ ~hasNewer
    <3>1. r = ScheduleTailScroll(w)
      BY <1>3, <2>3
    <3>2. Fine(r, hasNewer, focus) /\ r.resuming = s.resuming
      BY <1>2, <1>4, <1>6, <2>3, <3>1, Scheduled, FollowedIsFine
    <3> QED BY <1>2, <2>3, <3>2 DEF Away
  <2>4. CASE ~AtSettledTail(q) /\ q.snap /\ ~(q.following /\ ~hasNewer) /\ q.dist <= Reattach
    <3>1. r = Resume(q)
      BY <1>3, <2>4
    <3>2. ~Away(s)
      <4>1. s.dist \in Nat
        BY <1>1, Thresholds DEF Views
      <4>2. ~(s.dist > Reattach)
        BY <1>2, <2>4, <4>1, Thresholds
      <4> QED BY <4>2 DEF Away
    <3> QED BY <1>2, <1>5, <3>1, <3>2, ResumeIsFine
  <2>5. CASE ~AtSettledTail(q) /\ q.snap /\ ~(q.following /\ ~hasNewer) /\ ~(q.dist <= Reattach)
    <3>1. r = w
      BY <1>3, <2>5
    <3>2. w.dist # AtTail
      BY <1>4, <2>5, Thresholds
    <3>3. Fine(w, hasNewer, focus)
      BY <1>4, <1>6, <3>2 DEF Fine, SnapEnds, Unsettled
    <3> QED BY <1>2, <1>4, <3>1, <3>3 DEF Away
  <2> QED BY <2>1, <2>2, <2>3, <2>4, <2>5
<1> QED BY <1>7 DEF r

(* What a gesture does to a view; it has then seen it where it is. *)
LEMMA TouchIsLoose ==
  ASSUME NEW s \in Views, Carried(s)
  PROVE  /\ Touch(s) \in Views /\ Carried(Touch(s))
         /\ Touch(s).gesture.on => Touch(s).gesture.previous = s.dist
         /\ Touch(s).gesture.on => s.gesture.on
         /\ Touch(s).dist = s.dist /\ Touch(s).moved = s.moved
         /\ Touch(s).scrolling = s.scrolling /\ Touch(s).resuming = s.resuming
         /\ ~s.following => ~Touch(s).following
         /\ ~s.snap => ~Touch(s).snap
         /\ s.gesture.on /\ s.dist > s.gesture.previous /\ s.dist > s.gesture.start
              => ~Touch(s).following
         /\ ~s.gesture.on => Touch(s) = s
<1> DEFINE m == [s EXCEPT !.gesture.previous = s.dist]
           b == [m EXCEPT !.intent = "backward", !.detached = TRUE]
           f == [m EXCEPT !.intent = "forward", !.detached = FALSE]
           far == s.dist > s.gesture.previous /\ s.dist > s.gesture.start
           near == s.dist < s.gesture.previous /\ s.dist < s.gesture.start
           r == Touch(s)
           Goal(x) == /\ x \in Views /\ Carried(x) /\ x.gesture.previous = s.dist
                      /\ x.dist = s.dist /\ x.moved = s.moved
                      /\ x.scrolling = s.scrolling /\ x.resuming = s.resuming
                      /\ ~s.following => ~x.following
                      /\ ~s.snap => ~x.snap
<1>1. /\ m \in Views /\ m.dist = s.dist /\ m.moved = s.moved /\ m.following = s.following
      /\ m.pin = s.pin /\ m.snap = s.snap /\ m.resuming = s.resuming /\ m.frame = s.frame
      /\ m.scrolling = s.scrolling /\ m.gesture.previous = s.dist
      /\ m.pointer = s.pointer /\ m.contact = s.contact
  BY DEF Views, Gestures
<1>2. r = CASE ~s.gesture.on -> s
            [] s.gesture.on /\ far -> IF s.following THEN Pause(b) ELSE b
            [] s.gesture.on /\ near -> f
            [] OTHER -> m
  BY DEF Touch
<1>3. /\ s.gesture.on \in BOOLEAN /\ s.dist \in Nat /\ s.gesture.start \in Nat
      /\ s.gesture.previous \in Nat
  BY Thresholds DEF Views, Gestures
<1>4. ~(far /\ near)
  BY <1>3
<1> HIDE DEF m, r
<1>5. /\ b \in Views /\ b.dist = m.dist /\ b.moved = m.moved /\ b.following = m.following
      /\ b.pin = m.pin /\ b.snap = m.snap /\ b.resuming = m.resuming /\ b.frame = m.frame
      /\ b.scrolling = m.scrolling /\ b.gesture = m.gesture
      /\ b.pointer = m.pointer /\ b.contact = m.contact
  BY <1>1 DEF Views
<1>6. /\ f \in Views /\ f.dist = m.dist /\ f.moved = m.moved /\ f.following = m.following
      /\ f.pin = m.pin /\ f.snap = m.snap /\ f.resuming = m.resuming /\ f.frame = m.frame
      /\ f.scrolling = m.scrolling /\ f.gesture = m.gesture
      /\ f.pointer = m.pointer /\ f.contact = m.contact
  BY <1>1 DEF Views
<1> HIDE DEF b, f
<1>7. Goal(m) /\ Goal(b) /\ Goal(f)
  BY <1>1, <1>5, <1>6 DEF Carried
<1>8. Loose(b, [on |-> TRUE])
  BY <1>7 DEF Loose, Traced
<1>9. Goal(Pause(b)) /\ ~Pause(b).following
  BY <1>7, <1>8, PausedIsLoose DEF Loose
<1>10. CASE ~s.gesture.on
  <2>1. r = s
    BY <1>2, <1>10
  <2> QED BY <1>10, <2>1 DEF r
<1>11. CASE s.gesture.on /\ far
  <2>1. r = IF s.following THEN Pause(b) ELSE b
    BY <1>2, <1>4, <1>11
  <2>2. Goal(r) /\ ~r.following
    <3>1. CASE s.following
      BY <1>9, <2>1, <3>1
    <3>2. CASE ~s.following
      BY <1>1, <1>5, <1>7, <2>1, <3>2
    <3> QED BY <3>1, <3>2
  <2> QED BY <1>11, <2>2 DEF r
<1>12. CASE s.gesture.on /\ ~far
  <2>1. r = m \/ r = f
    BY <1>2, <1>12
  <2>2. Goal(r)
    BY <1>7, <2>1
  <2> QED BY <1>12, <2>2 DEF r
<1> QED BY <1>10, <1>11, <1>12

LEMMA NativeScrollIsLoose ==
  ASSUME NEW s \in Views, Carried(s), focus.on \in BOOLEAN
  PROVE  /\ Loose(NativeScroll(s), focus)
         /\ NativeScroll(s).dist = s.dist
         /\ NativeScroll(s).scrolling = s.scrolling /\ NativeScroll(s).resuming = s.resuming
         /\ Away(s) => ~NativeScroll(s).following
         /\ ~focus.on /\ ~s.gesture.on /\ s.dist > Reattach
              => /\ NativeScroll(s).intent = s.intent
                 /\ NativeScroll(s).following = s.following
         /\ ~focus.on /\ s.gesture.on /\ s.dist > Reattach
            /\ s.dist > s.gesture.previous /\ s.dist > s.gesture.start
              => ~NativeScroll(s).following
<1> DEFINE g == Touch(s)
           a == [g EXCEPT !.snap = TRUE]
           b == [g EXCEPT !.snap = FALSE, !.following = TRUE]
           c == [g EXCEPT !.snap = FALSE]
           r == NativeScroll(s)
           Same(x) == x.dist = s.dist /\ x.scrolling = s.scrolling /\ x.resuming = s.resuming
<1>1. r = CASE focus.on -> s
            [] ~focus.on /\ s.dist <= Reattach ->
                 IF g.detached THEN g ELSE IF hasNewer THEN a ELSE b
            [] OTHER -> IF g.following THEN g ELSE c
  BY DEF NativeScroll
<1>2. /\ g \in Views /\ Carried(g) /\ Same(g)
      /\ g.gesture.on => g.gesture.previous = g.dist
      /\ ~s.following => ~g.following
      /\ s.gesture.on /\ s.dist > s.gesture.previous /\ s.dist > s.gesture.start => ~g.following
      /\ ~s.gesture.on => g = s
  BY TouchIsLoose
<1> HIDE DEF g, r
<1>3. /\ a \in Views /\ a.dist = g.dist /\ a.moved = g.moved /\ a.following = g.following
      /\ a.pin = g.pin /\ a.frame = g.frame /\ a.gesture = g.gesture /\ a.pointer = g.pointer
      /\ a.contact = g.contact /\ a.scrolling = g.scrolling /\ a.resuming = g.resuming
  BY <1>2 DEF Views
<1>4. /\ b \in Views /\ b.dist = g.dist /\ b.moved = g.moved /\ b.following
      /\ b.pin = g.pin /\ b.frame = g.frame /\ b.gesture = g.gesture /\ b.pointer = g.pointer
      /\ b.contact = g.contact /\ b.scrolling = g.scrolling /\ b.resuming = g.resuming
  BY <1>2 DEF Views
<1>5. /\ c \in Views /\ c.dist = g.dist /\ c.moved = g.moved /\ c.following = g.following
      /\ c.pin = g.pin /\ c.frame = g.frame /\ c.gesture = g.gesture /\ c.pointer = g.pointer
      /\ c.contact = g.contact /\ c.scrolling = g.scrolling /\ c.resuming = g.resuming
      /\ c.intent = g.intent
  BY <1>2 DEF Views
<1> HIDE DEF a, b, c
<1>6. /\ Loose(g, focus) /\ Loose(a, focus) /\ Loose(b, focus) /\ Loose(c, focus)
      /\ Same(g) /\ Same(a) /\ Same(b) /\ Same(c)
  BY <1>2, <1>3, <1>4, <1>5 DEF Loose, Carried, Traced
<1>7. s.dist \in Nat
  BY Thresholds DEF Views
<1> DEFINE Goal(x) ==
             /\ Loose(x, focus) /\ Same(x) /\ (Away(s) => ~x.following)
             /\ ~focus.on /\ ~s.gesture.on /\ s.dist > Reattach
                  => x.intent = s.intent /\ x.following = s.following
             /\ ~focus.on /\ s.gesture.on /\ s.dist > Reattach
                /\ s.dist > s.gesture.previous /\ s.dist > s.gesture.start => ~x.following
<1>8. Goal(r)
  <2>1. CASE focus.on
    <3>1. r = s
      BY <1>1, <2>1
    <3>2. Loose(s, focus)
      BY <2>1 DEF Loose, Traced
    <3>3. Away(s) => ~s.following
      BY DEF Away
    <3> QED BY <2>1, <3>1, <3>2, <3>3
  <2>2. CASE ~focus.on /\ s.dist <= Reattach
    <3>1. r = g \/ r = a \/ r = b
      BY <1>1, <2>2
    <3>2. ~Away(s) /\ ~(s.dist > Reattach)
      BY <1>7, <2>2, Thresholds DEF Away
    <3> QED BY <1>6, <3>1, <3>2
  <2>3. CASE ~focus.on /\ ~(s.dist <= Reattach)
    <3>1. r = g \/ r = c
      BY <1>1, <2>3
    <3>2. Goal(g)
      BY <1>2, <1>6 DEF Away
    <3>3. Goal(c)
      BY <1>2, <1>5, <1>6 DEF Away
    <3> QED BY <3>1, <3>2, <3>3
  <2> QED BY <2>1, <2>2, <2>3
<1> QED BY <1>8 DEF r

LEMMA MovesIsLoose ==
  ASSUME NEW s, NEW direction \in Directions, Loose(s, focus)
  PROVE  /\ Loose(Moves(s, direction), focus)
         /\ Moves(s, direction).dist = s.dist
         /\ Moves(s, direction).scrolling = s.scrolling
         /\ Moves(s, direction).resuming = s.resuming
         /\ Away(s) => Away(Moves(s, direction))
         /\ s.intent = direction /\ s.following /\ s.dist > Detach
              => ~Moves(s, direction).following
<1> DEFINE a == [s EXCEPT !.snap = direction = "backward" \/ s.dist > AtTail]
           b == [s EXCEPT !.snap = FALSE]
           c == [s EXCEPT !.snap = FALSE, !.following = TRUE]
           d == [s EXCEPT !.snap = s.dist <= Reattach]
           r == Moves(s, direction)
           Same(x) == /\ x.dist = s.dist /\ x.scrolling = s.scrolling /\ x.resuming = s.resuming
<1>1. r = CASE direction # s.intent -> s
            [] direction = s.intent /\ s.following -> IF s.dist > Detach THEN Pause(s) ELSE a
            [] direction = s.intent /\ ~s.following /\ direction = "backward" -> b
            [] OTHER -> IF s.dist = AtTail /\ ~hasNewer THEN c ELSE d
  BY DEF Moves
<1>2. s \in Views
  BY DEF Loose
<1>3. (direction = "backward" \/ s.dist > AtTail) \in BOOLEAN /\ (s.dist <= Reattach) \in BOOLEAN
  OBVIOUS
<1>4. s.dist \in Nat
  BY <1>2, Thresholds DEF Views
<1>5. /\ a \in Views /\ a.dist = s.dist /\ a.moved = s.moved /\ a.following = s.following
      /\ a.pin = s.pin /\ a.frame = s.frame /\ a.gesture = s.gesture /\ a.pointer = s.pointer
      /\ a.contact = s.contact /\ a.scrolling = s.scrolling /\ a.resuming = s.resuming
  BY <1>2, <1>3 DEF Views
<1>6. /\ b \in Views /\ b.dist = s.dist /\ b.moved = s.moved /\ b.following = s.following
      /\ b.pin = s.pin /\ b.frame = s.frame /\ b.gesture = s.gesture /\ b.pointer = s.pointer
      /\ b.contact = s.contact /\ b.scrolling = s.scrolling /\ b.resuming = s.resuming
  BY <1>2 DEF Views
<1>7. /\ c \in Views /\ c.dist = s.dist /\ c.moved = s.moved /\ c.following
      /\ c.pin = s.pin /\ c.frame = s.frame /\ c.gesture = s.gesture /\ c.pointer = s.pointer
      /\ c.contact = s.contact /\ c.scrolling = s.scrolling /\ c.resuming = s.resuming
  BY <1>2 DEF Views
<1>8. /\ d \in Views /\ d.dist = s.dist /\ d.moved = s.moved /\ d.following = s.following
      /\ d.pin = s.pin /\ d.frame = s.frame /\ d.gesture = s.gesture /\ d.pointer = s.pointer
      /\ d.contact = s.contact /\ d.scrolling = s.scrolling /\ d.resuming = s.resuming
  BY <1>2, <1>3 DEF Views
<1> HIDE DEF a, b, c, d, r
<1>9. /\ Loose(a, focus) /\ Loose(b, focus) /\ Loose(c, focus) /\ Loose(d, focus)
      /\ Same(a) /\ Same(b) /\ Same(c) /\ Same(d)
  BY <1>5, <1>6, <1>7, <1>8 DEF Loose, Carried, Traced
<1>10. /\ Loose(Pause(s), focus) /\ Same(Pause(s)) /\ ~Pause(s).following
  BY PausedIsLoose
<1> DEFINE Goal(x) ==
             /\ Loose(x, focus) /\ Same(x) /\ (Away(s) => Away(x))
             /\ s.intent = direction /\ s.following /\ s.dist > Detach => ~x.following
<1>11. Goal(r)
  <2>1. CASE direction # s.intent
    BY <1>1, <2>1
  <2>2. CASE direction = s.intent /\ s.following /\ s.dist > Detach
    <3>1. r = Pause(s)
      BY <1>1, <2>2
    <3> QED BY <1>10, <2>2, <3>1 DEF Away
  <2>3. CASE direction = s.intent /\ s.following /\ ~(s.dist > Detach)
    <3>1. r = a
      BY <1>1, <2>3
    <3> QED BY <1>5, <1>9, <2>3, <3>1 DEF Away
  <2>4. CASE direction = s.intent /\ ~s.following
    <3>1. r = b \/ r = d \/ (r = c /\ s.dist = AtTail)
      BY <1>1, <2>4
    <3>2. s.dist = AtTail => ~Away(s)
      BY Thresholds DEF Away
    <3> QED BY <1>6, <1>8, <1>9, <2>4, <3>1, <3>2 DEF Away
  <2> QED BY <2>1, <2>2, <2>3, <2>4
<1> QED BY <1>11 DEF r

LEMMA ScrollsIsFine ==
  ASSUME NEW s \in Views, NEW direction \in Directions, Carried(s), focus.on \in BOOLEAN
  PROVE  /\ Fine(Scrolls(s, direction), hasNewer, focus)
         /\ Scrolls(s, direction).resuming = s.resuming
         /\ Away(s) => Away(Scrolls(s, direction))
         /\ ~focus.on /\ ~s.gesture.on /\ s.intent = direction /\ s.dist = Far
              => Away(Scrolls(s, direction))
         /\ ~focus.on /\ s.gesture.on /\ s.dist = Far /\ s.gesture.previous # Far
            /\ s.dist > s.gesture.start => Away(Scrolls(s, direction))
<1> DEFINE p == [s EXCEPT !.scrolling = TRUE]
           n == NativeScroll(p)
           k == KeepTail(n)
           r == Moves(k, direction)
<1>1. Scrolls(s, direction) = r
  BY DEF Scrolls
<1>2. /\ p \in Views /\ p.dist = s.dist /\ p.following = s.following /\ p.pin = s.pin
      /\ p.resuming = s.resuming /\ p.frame = s.frame /\ p.scrolling
      /\ p.gesture = s.gesture /\ p.intent = s.intent /\ p.pointer = s.pointer
      /\ p.contact = s.contact
  BY DEF Views
<1>3. Carried(p)
  BY <1>2 DEF Carried
<1> HIDE DEF p
<1>4. /\ Loose(n, focus) /\ n.dist = s.dist /\ n.scrolling /\ n.resuming = s.resuming
      /\ Away(s) => ~n.following
      /\ ~focus.on /\ ~s.gesture.on /\ s.dist > Reattach
           => n.intent = s.intent /\ n.following = s.following
      /\ ~focus.on /\ s.gesture.on /\ s.dist > Reattach
         /\ s.dist > s.gesture.previous /\ s.dist > s.gesture.start => ~n.following
  BY <1>2, <1>3, NativeScrollIsLoose DEF Away
<1> HIDE DEF n
<1>5. /\ Loose(k, focus) /\ k.resuming = s.resuming /\ k.scrolling
      /\ n.intent # "none" \/ ~n.following => k = n
  BY <1>4, TailIsKept
<1> HIDE DEF k
<1>6. /\ Loose(r, focus) /\ r.resuming = s.resuming /\ r.scrolling
      /\ Away(k) => Away(r)
      /\ k.intent = direction /\ k.following /\ k.dist > Detach => ~r.following
      /\ r.dist = k.dist
  BY <1>5, MovesIsLoose
<1> HIDE DEF r
<1>7. Fine(r, hasNewer, focus)
  BY <1>6, FollowedIsFine
<1>8. Away(s) => Away(r)
  BY <1>4, <1>5, <1>6 DEF Away
<1>9. ASSUME ~focus.on, ~s.gesture.on, s.intent = direction, s.dist = Far
      PROVE  Away(r)
  <2>1. n.dist = Far /\ n.intent = direction /\ direction # "none" /\ k = n
    BY <1>4, <1>5, <1>9, Thresholds DEF Directions
  <2>2. CASE k.following
    BY <1>6, <2>1, <2>2, Thresholds DEF Away
  <2>3. CASE ~k.following
    BY <1>6, <2>1, <2>3, Thresholds DEF Away
  <2> QED BY <2>2, <2>3
<1>10. ASSUME ~focus.on, s.gesture.on, s.dist = Far, s.gesture.previous # Far,
              s.dist > s.gesture.start
       PROVE  Away(r)
  <2>1. s.dist > s.gesture.previous
    BY <1>10, Thresholds DEF Views, Gestures, Distances
  <2>2. ~n.following /\ k = n /\ n.dist = Far
    BY <1>4, <1>5, <1>10, <2>1, Thresholds
  <2> QED BY <1>6, <2>2, Thresholds DEF Away
<1> QED BY <1>1, <1>6, <1>7, <1>8, <1>9, <1>10

LEMMA ScrollEndsIsFine ==
  ASSUME NEW s, hasNewer \in BOOLEAN, focus.on \in BOOLEAN, Fine(s, hasNewer, focus), s.scrolling
  PROVE  /\ Fine(ScrollEnds(s), hasNewer, focus)
         /\ ScrollEnds(s).resuming /\ ~s.resuming => ~ScrollEnds(s).gesture.on
         /\ Away(s) => Away(ScrollEnds(s))
<1> DEFINE u == Touch(s)
           g == [u EXCEPT !.gesture = NoGesture]
           f == [g EXCEPT !.snap = FALSE, !.following = TRUE]
           r == ScrollEnds(s)
<1>1. r = CASE focus.on -> s
            [] ~focus.on /\ AtSettledTail(g) -> Reconciled(g)
            [] ~focus.on /\ ~AtSettledTail(g) /\ (g.detached \/ g.dist > Reattach) -> g
            [] OTHER -> IF hasNewer THEN Resume(g) ELSE f
  BY DEF ScrollEnds
<1>2. s \in Views /\ Carried(s)
  BY DEF Fine, Loose
<1>3. /\ u \in Views /\ Carried(u) /\ u.dist = s.dist /\ u.scrolling /\ u.resuming = s.resuming
      /\ ~s.following => ~u.following
  BY <1>2, TouchIsLoose
<1> HIDE DEF u
<1>4. /\ g \in Views /\ g.dist = u.dist /\ g.following = u.following
      /\ g.pin = u.pin /\ g.frame = u.frame /\ g.gesture = NoGesture /\ g.pointer = u.pointer
      /\ g.contact = u.contact /\ g.scrolling = u.scrolling /\ g.resuming = u.resuming
  BY <1>3, Thresholds DEF Views
<1> HIDE DEF g
<1>5. /\ f \in Views /\ f.following /\ ~f.snap
      /\ f.gesture = NoGesture /\ f.pointer = g.pointer
      /\ f.contact = g.contact /\ f.resuming = g.resuming
  BY <1>4 DEF Views
<1> HIDE DEF f, r
<1>6. Loose(g, focus) /\ Loose(f, focus)
  BY <1>3, <1>4, <1>5, Thresholds DEF Loose, Carried, Traced
<1>7. Fine(g, hasNewer, focus) /\ Fine(f, hasNewer, focus)
  BY <1>3, <1>4, <1>5, <1>6, FollowedIsFine
<1>8. /\ Fine(r, hasNewer, focus) /\ (r.resuming /\ ~s.resuming => ~r.gesture.on)
      /\ Away(s) => Away(r)
  <2>1. CASE focus.on
    <3>1. r = s
      BY <1>1, <2>1
    <3>2. Fine(r, hasNewer, focus) /\ (Away(s) => Away(r))
      BY <3>1
    <3>3. ~(r.resuming /\ ~s.resuming)
      BY <3>1, Zenon
    <3> QED BY <3>2, <3>3
  <2>2. CASE ~focus.on /\ AtSettledTail(g)
    <3>1. r = Reconciled(g)
      BY <1>1, <2>2
    <3>2. ~Away(s)
      BY <1>3, <1>4, <2>2, Thresholds DEF AtSettledTail, Away
    <3> QED BY <1>3, <1>4, <1>6, <3>1, <3>2, ReconciledIsFine
  <2>3. CASE ~focus.on /\ ~AtSettledTail(g) /\ (g.detached \/ g.dist > Reattach)
    <3>1. r = g
      BY <1>1, <2>3
    <3>2. Away(s) => Away(g)
      BY <1>3, <1>4 DEF Away
    <3> QED BY <1>3, <1>4, <1>7, <3>1, <3>2
  <2>4. CASE ~focus.on /\ ~AtSettledTail(g) /\ ~(g.detached \/ g.dist > Reattach)
    <3>1. r = IF hasNewer THEN Resume(g) ELSE f
      BY <1>1, <2>4
    <3>2. ~Away(s)
      BY <1>3, <1>4, <2>4 DEF Away
    <3>3. CASE hasNewer
      <4>1. r = Resume(g)
        BY <3>1, <3>3
      <4>2. Fine(r, hasNewer, focus) /\ (r.resuming /\ ~g.resuming => ~r.gesture.on)
        BY <1>6, <4>1, ResumeIsFine
      <4>3. g.resuming = s.resuming
        BY <1>3, <1>4
      <4> QED BY <3>2, <4>2, <4>3
    <3>4. CASE ~hasNewer
      BY <1>3, <1>4, <1>5, <1>7, <3>1, <3>2, <3>4
    <3> QED BY <3>3, <3>4
  <2> QED BY <2>1, <2>2, <2>3, <2>4
<1> QED BY <1>8 DEF r

-----------------------------------------------------------------------------
(* The steps. *)

LEMMA ReconcileIsFine ==
  ASSUME NEW s, hasNewer \in BOOLEAN, Loose(s, focus), SnapEnds(s)
  PROVE  /\ Fine(Reconcile(s), hasNewer, focus) \/ (Reconcile(s) = s /\ ~AtSettledTail(s))
         /\ Reconcile(s).resuming = s.resuming
         /\ Away(s) => Away(Reconcile(s))
<1>1. CASE AtSettledTail(s)
  <2>1. Reconcile(s) = Reconciled(s)
    BY <1>1 DEF Reconcile
  <2>2. ~Away(s)
    BY <1>1, Thresholds DEF AtSettledTail, Away
  <2> QED BY <2>1, <2>2, ReconciledIsFine
<1>2. CASE ~AtSettledTail(s)
  <2>1. Reconcile(s) = s
    BY <1>2 DEF Reconcile
  <2> QED BY <1>2, <2>1
<1> QED BY <1>1, <1>2

(* The reader's hand: a view that is only given another gesture and intent, or
   paused, is fine. *)
LEMMA HandStep ==
  ASSUME ScrollIInv,
         \/ \E direction \in Directions : \/ Wheel(direction) \/ PointerMove(direction)
                                          \/ \E page \in BOOLEAN : PressKey(direction, page)
         \/ \E kind \in {"mouse", "touch"} : PointerDown(kind)
  PROVE  ScrollIInv'
<1> USE DEF ScrollIInv
<1>0. /\ view \in Views /\ Loose(view, focus) /\ Carried(view) /\ SnapEnds(view)
  BY DEF Fine, Loose
<1>1. ASSUME NEW direction \in Directions, Wheel(direction) PROVE ScrollIInv'
  <2>s. PICK s : s = [view EXCEPT !.gesture = NoGesture, !.intent = direction]
    OBVIOUS
  <2>1. /\ s \in Views /\ s.dist = view.dist /\ s.following = view.following
        /\ s.pin = view.pin /\ s.snap = view.snap /\ s.frame = view.frame
        /\ s.gesture = NoGesture /\ s.pointer = view.pointer /\ s.contact = view.contact
        /\ s.scrolling = view.scrolling /\ s.resuming = view.resuming /\ s.intent = direction
    BY <2>s, <1>0, Thresholds DEF Views, Directions
  <2>2. Loose(s, focus)
    BY <1>0, <2>1, Thresholds DEF Loose, Carried, Traced
  <2>3. Fine(s, hasNewer, focus)
    BY <1>0, <2>1, <2>2 DEF Fine, SnapEnds, Unsettled, Directions
  <2>4. Step(s) /\ left' = left
    BY <2>s, <1>1 DEF Wheel
  <2>5. left => Away(s)
    BY <2>1 DEF Away
  <2> QED BY <2>1, <2>3, <2>4, <2>5, Steps
<1>2. ASSUME NEW direction \in Directions, NEW page \in BOOLEAN, PressKey(direction, page)
      PROVE  ScrollIInv'
  <2>p. PICK p : p = [view EXCEPT !.gesture = NoGesture, !.intent = direction]
    OBVIOUS
  <2>s. PICK s : s = IF page /\ direction = "backward" THEN Pause(p) ELSE p
    OBVIOUS
  <2>1. /\ p \in Views /\ p.dist = view.dist /\ p.following = view.following
        /\ p.pin = view.pin /\ p.snap = view.snap /\ p.frame = view.frame
        /\ p.gesture = NoGesture /\ p.pointer = view.pointer /\ p.contact = view.contact
        /\ p.scrolling = view.scrolling /\ p.resuming = view.resuming /\ p.intent = direction
    BY <2>p, <2>s, <1>0, Thresholds DEF Views, Directions
  <2>2. Loose(p, focus)
    BY <1>0, <2>1, Thresholds DEF Loose, Carried, Traced
  <2>3. /\ Loose(s, focus) /\ s.resuming = view.resuming /\ s.intent = direction
        /\ s.scrolling = view.scrolling /\ (s.snap => view.snap)
        /\ ~view.following => ~s.following
        /\ s.dist = view.dist
    BY <2>p, <2>s, <2>1, <2>2, PausedIsLoose
  <2>4. Fine(s, hasNewer, focus)
    BY <1>0, <2>3 DEF Fine, SnapEnds, Unsettled, Directions
  <2>5. Step(s) /\ left' = left
    BY <2>p, <2>s, <1>2 DEF PressKey
  <2>6. left => Away(s)
    BY <2>3 DEF Away
  <2> QED BY <2>3, <2>4, <2>5, <2>6, Steps
<1>3. ASSUME NEW direction \in Directions, PointerMove(direction) PROVE ScrollIInv'
  <2>0. ((IF view.pointer = "touch" THEN direction = "backward" ELSE view.detached) \in BOOLEAN)
    BY <1>0 DEF Views
  <2>p. PICK p : p = [view EXCEPT !.intent = direction,
                      !.detached = IF view.pointer = "touch" THEN direction = "backward" ELSE @]
    OBVIOUS
  <2>s. PICK s : s = IF view.pointer = "touch" /\ direction = "backward" /\ view.following
                   THEN Pause(p) ELSE p
    OBVIOUS
  <2>1. /\ p \in Views /\ p.dist = view.dist /\ p.following = view.following
        /\ p.pin = view.pin /\ p.snap = view.snap /\ p.frame = view.frame
        /\ p.gesture = view.gesture /\ p.pointer = view.pointer /\ p.contact = view.contact
        /\ p.scrolling = view.scrolling /\ p.resuming = view.resuming /\ p.intent = direction
        /\ p.moved = view.moved
    BY <2>p, <2>s, <1>0, <2>0 DEF Views, Directions
  <2>2. Loose(p, focus)
    BY <1>0, <2>1 DEF Loose, Carried, Traced
  <2>3. /\ Loose(s, focus) /\ s.resuming = view.resuming /\ s.intent = direction
        /\ s.scrolling = view.scrolling /\ (s.snap => view.snap)
        /\ ~view.following => ~s.following
        /\ s.dist = view.dist
    <3>0. s = p \/ s = Pause(p)
      BY <2>p, <2>s
    <3>1. CASE s = p
      BY <2>1, <2>2, <3>1
    <3>2. CASE s = Pause(p)
      BY <2>1, <2>2, <3>2, PausedIsLoose
    <3> QED BY <3>0, <3>1, <3>2
  <2>4. Fine(s, hasNewer, focus)
    BY <1>0, <2>3 DEF Fine, SnapEnds, Unsettled, Directions
  <2>5. Step(s) /\ left' = left
    BY <2>p, <2>s, <1>3 DEF PointerMove
  <2>6. left => Away(s)
    BY <2>3 DEF Away
  <2> QED BY <2>3, <2>4, <2>5, <2>6, Steps
<1>4. ASSUME NEW kind \in {"mouse", "touch"}, PointerDown(kind) PROVE ScrollIInv'
  <2>x. PICK x : x = IF kind = "mouse" THEN NoGesture
                   ELSE [on |-> TRUE, start |-> view.dist, previous |-> view.dist]
    OBVIOUS
  <2>0. x \in Gestures /\ (x.on => x.start = view.dist /\ x.previous = view.dist)
    BY <2>x, <1>0, Thresholds DEF Views, Gestures
  <2>s. PICK s : s = [view EXCEPT !.pointer = kind, !.contact = kind = "touch", !.gesture = x]
    OBVIOUS
  <2>1. /\ s \in Views /\ s.dist = view.dist /\ s.following = view.following
        /\ s.pin = view.pin /\ s.snap = view.snap /\ s.frame = view.frame
        /\ s.gesture = x /\ s.pointer = kind /\ (s.contact <=> kind = "touch")
        /\ s.scrolling = view.scrolling /\ s.resuming = view.resuming
        /\ s.moved = view.moved
    <3>1. (kind = "touch") \in BOOLEAN
      OBVIOUS
    <3> QED BY <2>x, <2>s, <1>0, <2>0, <3>1 DEF Views
  <2>2. Loose(s, focus)
    BY <1>0, <2>0, <2>1, Thresholds DEF Loose, Carried, Traced
  <2>3. Fine(s, hasNewer, focus)
    BY <1>0, <2>1, <2>2 DEF Fine, SnapEnds, Unsettled
  <2>4. Step(s) /\ left' = left
    BY <2>x, <2>s, <1>4 DEF PointerDown
  <2>5. left => Away(s)
    BY <2>1 DEF Away
  <2> QED BY <2>1, <2>3, <2>4, <2>5, Steps
<1> QED BY <1>1, <1>2, <1>3, <1>4, ZenonT(30)

(* A pointer or a finger is lifted. *)
LEMMA LiftStep ==
  ASSUME ScrollIInv, TouchLifted \/ \E lifted \in BOOLEAN : PointerEnd(lifted)
  PROVE  ScrollIInv'
<1> USE DEF ScrollIInv
<1>0. /\ view \in Views /\ Loose(view, focus) /\ SnapEnds(view)
      /\ Carried(view) /\ Unsettled(view, hasNewer, focus)
  BY DEF Fine, Loose
<1>1. ASSUME NEW lifted \in BOOLEAN, PointerEnd(lifted) PROVE ScrollIInv'
  <2>x. PICK x : x = IF lifted THEN NoGesture ELSE view.gesture
    OBVIOUS
  <2>0. x \in Gestures /\ (x = NoGesture \/ x = view.gesture)
    BY <2>x, <1>0, Thresholds DEF Views
  <2>p. PICK p : p = [view EXCEPT !.pointer = "none", !.gesture = x]
    OBVIOUS
  <2>s. PICK s : s = IF lifted /\ ~view.scrolling THEN Reconcile(p) ELSE p
    OBVIOUS
  <2>1. /\ p \in Views /\ p.dist = view.dist /\ p.following = view.following
        /\ p.pin = view.pin /\ p.snap = view.snap /\ p.frame = view.frame
        /\ p.gesture = x /\ p.pointer = "none" /\ p.contact = view.contact
        /\ p.scrolling = view.scrolling /\ p.resuming = view.resuming
        /\ p.moved = view.moved /\ p.intent = view.intent
    BY <2>x, <2>p, <2>s, <1>0, <2>0 DEF Views
  <2>2. Loose(p, focus) /\ SnapEnds(p)
    BY <1>0, <2>0, <2>1, Thresholds DEF Loose, Carried, Traced, SnapEnds
  <2>3. Step(s) /\ left' = left /\ (lifted \/ view.contact)
    <3>1. ~lifted => view.contact
      BY <1>0, <1>1 DEF PointerEnd, Carried
    <3> QED BY <2>x, <2>p, <2>s, <1>1, <3>1 DEF PointerEnd
  <2>4. Fine(p, hasNewer, focus) \/ (lifted /\ ~view.scrolling /\ (AtSettledTail(p) \/ Fine(p, hasNewer, focus)))
    <3>1. Unsettled(p, hasNewer, focus) \/ (lifted /\ ~view.scrolling /\ AtSettledTail(p))
                \/ (lifted /\ ~view.scrolling /\ Unsettled(p, hasNewer, focus))
      BY <2>1, <2>3 DEF Unsettled, AtSettledTail
    <3> QED BY <2>2, <3>1 DEF Fine
  <2>5. Fine(s, hasNewer, focus) /\ s.resuming = view.resuming /\ (Away(view) => Away(s))
    <3>1. CASE s = p /\ Fine(p, hasNewer, focus)
      BY <2>1, <3>1 DEF Away
    <3>2. CASE s = Reconcile(p)
      <4>1. Away(view) => Away(p)
        BY <2>1 DEF Away
      <4>2. Fine(Reconcile(p), hasNewer, focus)
        BY <2>2, <2>4, ReconcileIsFine
      <4>3. Reconcile(p).resuming = p.resuming /\ (Away(p) => Away(Reconcile(p)))
        BY <2>2, ReconcileIsFine
      <4> QED BY <2>1, <3>2, <4>1, <4>2, <4>3
    <3>3. s = Reconcile(p) \/ (s = p /\ ~(lifted /\ ~view.scrolling))
      BY <2>x, <2>p, <2>s
    <3> QED BY <2>4, <3>1, <3>2, <3>3
  <2> QED BY <2>3, <2>5, Steps
<1>2. CASE TouchLifted
  <2>p. PICK p : p = [view EXCEPT !.contact = FALSE]
    OBVIOUS
  <2>s. PICK s : s = IF ~view.scrolling THEN Reconcile(p) ELSE p
    OBVIOUS
  <2>0. view.pointer = "none" /\ Step(s) /\ left' = left
    BY <2>p, <2>s, <1>2 DEF TouchLifted
  <2>1. /\ p \in Views /\ p.dist = view.dist /\ p.following = view.following
        /\ p.pin = view.pin /\ p.snap = view.snap /\ p.frame = view.frame
        /\ p.gesture = view.gesture /\ p.pointer = view.pointer /\ ~p.contact
        /\ p.scrolling = view.scrolling /\ p.resuming = view.resuming
        /\ p.moved = view.moved /\ p.intent = view.intent
    BY <2>p, <2>s, <1>0 DEF Views
  <2>2. Loose(p, focus) /\ SnapEnds(p)
    BY <1>0, <2>0, <2>1 DEF Loose, Carried, Traced, SnapEnds
  <2>3. Fine(p, hasNewer, focus) \/ (~view.scrolling /\ AtSettledTail(p))
    <3>1. Unsettled(p, hasNewer, focus) \/ (~view.scrolling /\ AtSettledTail(p))
      BY <2>0, <2>1 DEF Unsettled, AtSettledTail
    <3> QED BY <2>2, <3>1 DEF Fine
  <2>4. Fine(s, hasNewer, focus) /\ s.resuming = view.resuming /\ (Away(view) => Away(s))
    <3>1. CASE s = p /\ Fine(p, hasNewer, focus)
      BY <2>1, <3>1 DEF Away
    <3>2. CASE s = Reconcile(p)
      <4>1. Away(view) => Away(p)
        BY <2>1 DEF Away
      <4>2. Fine(Reconcile(p), hasNewer, focus)
        BY <2>2, <2>3, ReconcileIsFine
      <4>3. Reconcile(p).resuming = p.resuming /\ (Away(p) => Away(Reconcile(p)))
        BY <2>2, ReconcileIsFine
      <4> QED BY <2>1, <3>2, <4>1, <4>2, <4>3
    <3>3. s = Reconcile(p) \/ (s = p /\ view.scrolling)
      BY <2>p, <2>s
    <3> QED BY <2>3, <3>1, <3>2, <3>3
  <2> QED BY <2>0, <2>4, Steps
<1> QED BY <1>1, <1>2

(* The view scrolls, by hand or by the code, and comes to rest. *)
LEMMA MovesStep ==
  ASSUME ScrollIInv,
         \/ CodeScrolled \/ Frame \/ ScrollEnd \/ Rest
         \/ \E d \in Distances, edge \in BOOLEAN : Scroll(d, edge)
  PROVE  ScrollIInv'
<1> USE DEF ScrollIInv
<1>0. /\ view \in Views /\ Loose(view, focus) /\ SnapEnds(view) /\ Traced(view, focus)
      /\ Carried(view) /\ focus.on \in BOOLEAN
  BY DEF Fine, Loose
<1>1. CASE CodeScrolled
  <2>p. PICK p : p = [view EXCEPT !.moved = FALSE]
    OBVIOUS
  <2>s. PICK s : s = Scrolls(p, "forward")
    OBVIOUS
  <2>1. /\ p \in Views /\ p.dist = view.dist /\ p.following = view.following
        /\ p.pin = view.pin /\ p.frame = view.frame /\ p.resuming = view.resuming
        /\ p.pointer = view.pointer /\ p.contact = view.contact
    BY <2>p, <2>s, <1>0 DEF Views
  <2>2. Carried(p) /\ (Away(view) => Away(p))
    BY <1>0, <2>1 DEF Carried, Away
  <2>3. Fine(s, hasNewer, focus) /\ s.resuming = view.resuming /\ (Away(p) => Away(s))
    BY <2>p, <2>s, <1>0, <2>1, <2>2, ScrollsIsFine DEF Directions
  <2>4. Step(s) /\ left' = left
    BY <2>p, <2>s, <1>1 DEF CodeScrolled
  <2> QED BY <2>2, <2>3, <2>4, Steps
<1>2. CASE Frame
  <2>e. PICK e : e = ToEnd(view)
    OBVIOUS
  <2>s. PICK s : s = [e EXCEPT !.frame = FALSE]
    OBVIOUS
  <2>1. Loose(e, focus) /\ e \in Views /\ e.following = view.following /\ e.snap = view.snap
        /\ e.resuming = view.resuming /\ e.scrolling = view.scrolling
    BY <2>e, <2>s, <1>0, EndIsLoose, AtTheEnd
  <2>2. /\ s \in Views /\ s.dist = e.dist /\ s.moved = e.moved /\ s.following = e.following
        /\ s.pin = e.pin /\ ~s.frame /\ s.resuming = e.resuming /\ s.snap = e.snap
        /\ s.scrolling = e.scrolling /\ s.gesture = e.gesture
        /\ s.pointer = e.pointer /\ s.contact = e.contact
    BY <2>e, <2>s, <2>1 DEF Views
  <2>3. Loose(s, focus)
    BY <2>1, <2>2 DEF Loose, Carried, Traced
  <2>4. Step(s) /\ left' = left /\ view.following
    <3>1. view.following
      BY <1>0, <1>2 DEF Frame, Carried
    <3> QED BY <2>e, <2>s, <1>2, <3>1 DEF Frame
  <2>5. Fine(s, hasNewer, focus) /\ ~left
    <3>1. ~left
      BY <2>4 DEF Away
    <3>2. s.snap => s.scrolling \/ s.resuming
      BY <1>0, <2>1, <2>2 DEF SnapEnds
    <3> QED BY <2>1, <2>2, <2>3, <2>4, <3>1, <3>2, FollowedIsFine
  <2> QED BY <2>1, <2>2, <2>4, <2>5, Steps
<1>3. CASE ScrollEnd
  <2>s. PICK s : s = ScrollEnds(view)
    OBVIOUS
  <2>1. view.scrolling /\ Step(s) /\ left' = left
    BY <2>s, <1>3 DEF ScrollEnd
  <2>2. /\ Fine(s, hasNewer, focus) /\ (s.resuming /\ ~view.resuming => ~s.gesture.on)
        /\ Away(view) => Away(s)
    BY <2>s, <1>0, <2>1, ScrollEndsIsFine
  <2> QED BY <2>1, <2>2, Steps
<1>4. CASE Rest
  <2>p. PICK p : p = [view EXCEPT !.scrolling = FALSE]
    OBVIOUS
  <2>k. PICK k : k = KeepTail(p)
    OBVIOUS
  <2>s. PICK s : s = Settled(k)
    OBVIOUS
  <2>1. /\ p \in Views /\ p.dist = view.dist /\ p.following = view.following
        /\ p.pin = view.pin /\ p.frame = view.frame /\ p.resuming = view.resuming
        /\ p.pointer = view.pointer /\ p.contact = view.contact
        /\ p.gesture = view.gesture /\ p.moved = view.moved
    BY <2>p, <2>k, <2>s, <1>0 DEF Views
  <2>2. Loose(p, focus)
    BY <1>0, <2>1 DEF Loose, Carried, Traced
  <2>3. Loose(k, focus) /\ k.resuming = view.resuming /\ (~p.following => k = p)
    BY <2>p, <2>k, <2>s, <2>1, <2>2, TailIsKept
  <2>4. Away(view) => Away(k)
    BY <2>1, <2>3 DEF Away
  <2>5. /\ Fine(s, hasNewer, focus) /\ (s.resuming /\ ~k.resuming => ~s.gesture.on)
        /\ Away(k) => Away(s)
    BY <2>p, <2>k, <2>s, <2>3, SettledIsFine
  <2>6. Step(s) /\ left' = left
    BY <2>p, <2>k, <2>s, <1>4 DEF Rest
  <2> QED BY <2>3, <2>4, <2>5, <2>6, Steps
<1>5. ASSUME NEW d \in Distances, NEW edge \in BOOLEAN, Scroll(d, edge) PROVE ScrollIInv'
  <2>direction. PICK direction : direction = IF d > view.dist THEN "backward" ELSE "forward"
    OBVIOUS
  <2>p. PICK p : p = [view EXCEPT !.dist = d]
    OBVIOUS
  <2>s. PICK s : s = Scrolls(p, direction)
    OBVIOUS
  <2>1. /\ p \in Views /\ p.dist = d /\ p.following = view.following
        /\ p.pin = view.pin /\ p.frame = view.frame /\ p.resuming = view.resuming
        /\ p.pointer = view.pointer /\ p.contact = view.contact
        /\ p.gesture = view.gesture /\ p.moved = view.moved /\ p.intent = view.intent
    BY <2>direction, <2>p, <2>s, <1>0 DEF Views
  <2>2. Carried(p) /\ direction \in Directions
    BY <2>direction, <2>p, <2>s, <1>0, <2>1 DEF Carried, Directions
  <2>3. /\ Step(s) /\ ~view.moved /\ d # view.dist /\ (view.gesture.on \/ view.intent = direction)
        /\ left' = CASE direction = "backward" /\ d = Far ->
                          left \/ (~focus.on /\ (view.gesture.on => d > view.gesture.start))
                     [] direction = "forward" /\ d <= Reattach -> FALSE
                     [] OTHER -> left
    BY <2>direction, <2>p, <2>s, <1>5 DEF Scroll
  <2>4. Fine(s, hasNewer, focus) /\ s.resuming = view.resuming /\ (Away(p) => Away(s))
    BY <2>direction, <2>p, <2>s, <1>0, <2>1, <2>2, ScrollsIsFine
  <2>5. d \in Nat /\ view.dist \in Nat /\ view.gesture.start \in Nat
    BY <1>0, Thresholds DEF Views, Gestures
  <2>6. left' \in BOOLEAN /\ (left' => Away(s))
    <3>1. CASE direction = "backward" /\ d = Far
      <4>1. left' = (left \/ (~focus.on /\ (view.gesture.on => d > view.gesture.start)))
        BY <2>3, <3>1
      <4>2. ASSUME left PROVE Away(s)
        <5>1. Away(view)
          BY <4>2
        <5> QED BY <2>1, <2>4, <3>1, <5>1, Thresholds DEF Away
      <4>3. ASSUME ~focus.on, view.gesture.on, d > view.gesture.start PROVE Away(s)
        <5>1. view.gesture.previous # Far
          BY <1>0, <2>3, <2>5, <3>1, <4>3, Thresholds DEF Traced
        <5>2. /\ p.gesture.on /\ p.dist = Far /\ p.gesture.previous # Far
              /\ p.dist > p.gesture.start
          BY <2>1, <3>1, <4>3, <5>1
        <5> QED BY <1>0, <2>s, <2>1, <2>2, <4>3, <5>2, ScrollsIsFine
      <4>4. ASSUME ~focus.on, ~view.gesture.on PROVE Away(s)
        BY <2>direction, <2>p, <2>s, <1>0, <2>1, <2>2, <2>3, <3>1, <4>4, ScrollsIsFine
      <4> QED BY <1>0, <4>1, <4>2, <4>3, <4>4
    <3>2. CASE direction = "forward" /\ d <= Reattach
      <4>1. ~left' /\ left' \in BOOLEAN
        BY <2>3, <3>2
      <4> QED BY <4>1
    <3>3. CASE ~(direction = "backward" /\ d = Far) /\ ~(direction = "forward" /\ d <= Reattach)
      <4>1. left' = left
        BY <2>3, <3>3
      <4>2. Away(view) => d > Reattach
        BY <2>direction, <2>p, <2>s, <2>5, <3>3, Thresholds DEF Away
      <4>3. Away(view) => Away(p)
        BY <2>1, <4>2 DEF Away
      <4> QED BY <2>4, <4>1, <4>3
    <3> QED BY <3>1, <3>2, <3>3
  <2> QED BY <2>3, <2>4, <2>6, Steps
<1> QED BY <1>1, <1>2, <1>3, <1>4, <1>5

(* Rows are added, measured and loaded. *)
LEMMA GrowStep ==
  ASSUME ScrollIInv,
         \/ AskUnderfilled \/ \E more, full, dropped \in BOOLEAN : OlderLoaded(more, full, dropped)
         \/ \E d \in Distances : \/ Appended(d) \/ Measured(d)
                                 \/ \E more \in BOOLEAN : NewerLoaded(more, d)
  PROVE  ScrollIInv'
<1> USE DEF ScrollIInv
<1>0. /\ view \in Views /\ Loose(view, focus) /\ SnapEnds(view) /\ Traced(view, focus)
      /\ Carried(view) /\ Unsettled(view, hasNewer, focus) /\ focus.on \in BOOLEAN
      /\ view.dist \in Nat /\ view.dist \in Distances
  BY Thresholds DEF Fine, Loose, Views
<1>1. CASE AskUnderfilled
  BY <1>1 DEF AskUnderfilled, Fine, Loose, Carried, Traced, SnapEnds, Unsettled, Away
<1>2. ASSUME NEW more \in BOOLEAN, NEW full \in BOOLEAN, NEW dropped \in BOOLEAN,
             OlderLoaded(more, full, dropped)
      PROVE  ScrollIInv'
  <2>1. /\ hasNewer' \in BOOLEAN /\ (hasNewer => hasNewer')
        /\ view' = view /\ focus' = focus /\ left' = left
    BY <1>2 DEF OlderLoaded
  <2>2. (Fine(view, hasNewer, focus))'
    BY <1>0, <2>1 DEF Fine, Loose, Carried, Traced, SnapEnds, Unsettled
  <2> QED BY <2>1, <2>2 DEF Away
<1>3. ASSUME NEW d \in Distances, d >= view.dist
      PROVE  /\ Loose([view EXCEPT !.dist = d], focus)
             /\ [view EXCEPT !.dist = d].dist = d
             /\ [view EXCEPT !.dist = d].following = view.following
             /\ [view EXCEPT !.dist = d].resuming = view.resuming
             /\ [view EXCEPT !.dist = d].scrolling = view.scrolling
             /\ [view EXCEPT !.dist = d].snap = view.snap
             /\ [view EXCEPT !.dist = d].contact = view.contact
             /\ [view EXCEPT !.dist = d].pointer = view.pointer
             /\ [view EXCEPT !.dist = d].intent = view.intent
             /\ Away(view) => Away([view EXCEPT !.dist = d])
  <2>p. PICK p : p = [view EXCEPT !.dist = d]
    OBVIOUS
  <2>1. /\ p \in Views /\ p.dist = d /\ p.following = view.following
        /\ p.pin = view.pin /\ p.frame = view.frame /\ p.resuming = view.resuming
        /\ p.pointer = view.pointer /\ p.contact = view.contact /\ p.snap = view.snap
        /\ p.gesture = view.gesture /\ p.moved = view.moved /\ p.intent = view.intent
        /\ p.scrolling = view.scrolling
    BY <1>0, <2>p DEF Views
  <2>2. view.dist = Far => d = Far
    BY <1>0, <1>3, Thresholds DEF Distances
  <2>3. Loose(p, focus)
    BY <1>0, <2>1, <2>2 DEF Loose, Carried, Traced
  <2>4. Away(view) => Away(p)
    BY <1>0, <1>3, <2>1, Thresholds DEF Away
  <2> QED BY <2>p, <2>1, <2>3, <2>4
<1>4. ASSUME NEW d \in Distances, Appended(d) PROVE ScrollIInv'
  <2>p. PICK p : p = [view EXCEPT !.dist = d]
    OBVIOUS
  <2>s. PICK s : s = IF view.following /\ ~view.pin THEN ScheduleTailScroll(p) ELSE p
    OBVIOUS
  <2>1. Step(s) /\ left' = left /\ ~hasNewer /\ d >= view.dist /\ d \in Nat
    BY <1>4, <2>p, <2>s, Thresholds DEF Appended
  <2>2. /\ Loose(p, focus) /\ p.dist = d /\ p.following = view.following
        /\ p.resuming = view.resuming /\ p.scrolling = view.scrolling /\ p.snap = view.snap
        /\ p.contact = view.contact /\ p.pointer = view.pointer /\ p.intent = view.intent
        /\ (Away(view) => Away(p))
    BY <1>3, <2>p, <2>1
  <2>3. CASE view.following /\ ~view.pin
    <3>1. s = ScheduleTailScroll(p)
      BY <2>s, <2>3
    <3>2. /\ Loose(s, focus) /\ s.following /\ s.snap = p.snap /\ s.resuming = p.resuming
          /\ s.scrolling = p.scrolling
      BY <2>2, <2>3, <3>1, Scheduled
    <3>3. s.snap => s.scrolling \/ s.resuming
      BY <1>0, <2>2, <3>2 DEF SnapEnds
    <3>4. Fine(s, hasNewer, focus) /\ ~left
      BY <2>3, <3>2, <3>3, FollowedIsFine DEF Away
    <3> QED BY <2>1, <2>2, <3>2, <3>4, Steps
  <2>4. CASE ~(view.following /\ ~view.pin)
    <3>1. s = p
      BY <2>s, <2>4
    <3>2. p.dist = AtTail => view.dist = AtTail
      BY <1>0, <2>1, <2>2, Thresholds
    <3>3. Fine(p, hasNewer, focus)
      BY <1>0, <2>2, <3>2 DEF Fine, SnapEnds, Unsettled
    <3>4. Step(p)
      BY <2>1, <3>1
    <3> QED BY <2>1, <2>2, <3>3, <3>4, Steps
  <2> QED BY <2>3, <2>4
<1>5. ASSUME NEW d \in Distances, Measured(d) PROVE ScrollIInv'
  <2>p. PICK p : p = [view EXCEPT !.dist = d]
    OBVIOUS
  <2>k. PICK k : k = KeepTail(p)
    OBVIOUS
  <2>s. PICK s : s = IF view.scrolling THEN k ELSE Settled(k)
    OBVIOUS
  <2>1. Step(s) /\ left' = left /\ d > view.dist /\ d >= view.dist
    <3>1. d \in Nat
      BY Thresholds
    <3> QED BY <1>0, <1>5, <2>p, <2>k, <2>s, <3>1 DEF Measured
  <2>2. /\ Loose(p, focus) /\ p.following = view.following
        /\ p.resuming = view.resuming /\ p.scrolling = view.scrolling /\ p.snap = view.snap
        /\ (Away(view) => Away(p))
    BY <1>3, <2>p, <2>1
  <2>3. /\ Loose(k, focus) /\ k.resuming = view.resuming /\ k.scrolling = view.scrolling
        /\ k.snap = view.snap
        /\ ~p.following => k = p
    BY <2>2, <2>k, TailIsKept
  <2>4. Away(view) => Away(k)
    BY <2>2, <2>3 DEF Away
  <2>5. CASE view.scrolling
    <3>1. s = k
      BY <2>s, <2>5
    <3>2. Fine(k, hasNewer, focus)
      BY <2>3, <2>5, FollowedIsFine
    <3>3. Step(k)
      BY <2>1, <3>1
    <3> QED BY <2>1, <2>3, <2>4, <3>2, <3>3, Steps
  <2>6. CASE ~view.scrolling
    <3>1. s = Settled(k)
      BY <2>s, <2>6
    <3>2. /\ Fine(s, hasNewer, focus) /\ (s.resuming /\ ~k.resuming => ~s.gesture.on)
          /\ Away(k) => Away(s)
      BY <2>3, <3>1, SettledIsFine
    <3> QED BY <2>1, <2>3, <2>4, <3>2, Steps
  <2> QED BY <2>5, <2>6
<1>6. ASSUME NEW d \in Distances, NEW more \in BOOLEAN, NewerLoaded(more, d) PROVE ScrollIInv'
  <2>p. PICK p : p = [view EXCEPT !.dist = d]
    OBVIOUS
  <2>n. PICK n \in BOOLEAN : n = (hasNewer /\ more)
    OBVIOUS
  <2>1. /\ hasNewer' = n /\ left' = left /\ focus' = focus /\ d >= view.dist /\ d > AtTail
        /\ view' = IF view.following /\ ~view.pin /\ ~n THEN ScheduleTailScroll(p) ELSE p
    BY <1>6, <2>p, <2>n DEF NewerLoaded
  <2>2. /\ Loose(p, focus) /\ p.dist = d /\ p.following = view.following
        /\ p.resuming = view.resuming /\ p.scrolling = view.scrolling /\ p.snap = view.snap
        /\ (Away(view) => Away(p))
    BY <1>3, <2>p, <2>1
  <2>3. PICK s : s = IF view.following /\ ~view.pin /\ ~n THEN ScheduleTailScroll(p) ELSE p
    OBVIOUS
  <2>4. Fine(s, n, focus) /\ (left => Away(s))
    <3>1. CASE s = p
      <4>1. Unsettled(p, n, focus)
        BY <2>1, <2>2, Thresholds DEF Unsettled
      <4>2. Fine(p, n, focus)
        BY <1>0, <2>2, <4>1 DEF Fine, SnapEnds
      <4> QED BY <2>2, <3>1, <4>2
    <3>2. CASE view.following /\ s = ScheduleTailScroll(p)
      <4>1. /\ Loose(s, focus) /\ s.following /\ s.snap = p.snap /\ s.resuming = p.resuming
            /\ s.scrolling = p.scrolling
        BY <2>2, <3>2, Scheduled
      <4>2. s.snap => s.scrolling \/ s.resuming
        BY <1>0, <2>2, <4>1 DEF SnapEnds
      <4> QED BY <3>2, <4>1, <4>2, FollowedIsFine DEF Away
    <3>3. s = p \/ (view.following /\ s = ScheduleTailScroll(p))
      BY <2>3
    <3> QED BY <3>1, <3>2, <3>3
  <2>5. view' = s
    BY <2>1, <2>3
  <2>6. (Fine(view, hasNewer, focus))'
    BY <2>1, <2>4, <2>5 DEF Fine, Loose, Carried, Traced, SnapEnds, Unsettled
  <2> QED BY <2>1, <2>4, <2>5, <2>6 DEF Away
<1> QED BY <1>1, <1>2, <1>4, <1>5, <1>6

(* A jump to the latest, and links. *)
LEMMA JumpStep ==
  ASSUME ScrollIInv,
         Loaded \/ Jump \/ Sent \/ Jumped \/ Returned \/ \E d \in Distances : FocusEvent(d)
  PROVE  ScrollIInv'
<1> USE DEF ScrollIInv
<1>0. /\ view \in Views /\ Loose(view, focus) /\ SnapEnds(view) /\ Carried(view)
  BY DEF Fine, Loose
<1>1. CASE Loaded \/ Jump \/ Sent
  <2>s. PICK s : s = Resume(view)
    OBVIOUS
  <2>1. Step(s) /\ ~left'
    <3>1. CASE Loaded
      <4>1. view.following
        BY <1>0, <3>1 DEF Loaded, Carried
      <4> QED BY <2>s, <3>1, <4>1 DEF Loaded, Away
    <3>2. CASE Jump \/ Sent
      BY <2>s, <3>2 DEF Jump, Sent
    <3> QED BY <1>1, <3>1, <3>2
  <2>2. left' \in BOOLEAN
    BY <1>1 DEF Loaded, Jump, Sent
  <2>3. Fine(s, hasNewer, focus) /\ (s.resuming /\ ~view.resuming => ~s.gesture.on)
    BY <1>0, <2>s, ResumeIsFine
  <2> QED BY <2>1, <2>2, <2>3, Steps
<1>2. CASE Jumped
  <2>s. PICK s : s = Resumed(view)
    OBVIOUS
  <2>1. view' = s /\ ~left' /\ left' \in BOOLEAN /\ hasNewer' = hasNewer /\ focus' = focus
    BY <1>2, <2>s DEF Jumped
  <2>2. Fine(s, hasNewer, focus)
    BY <1>0, <2>s, ResumedIsFine
  <2>3. (Fine(view, hasNewer, focus))'
    BY <2>1, <2>2 DEF Fine, Loose, Carried, Traced, SnapEnds, Unsettled
  <2> QED BY <2>1, <2>3
<1>3. CASE Returned
  <2>f. PICK f : f = [focus EXCEPT !.returning = FALSE]
    OBVIOUS
  <2>p. PICK p : p = [view EXCEPT !.dist = Far]
    OBVIOUS
  <2>s. PICK s : s = IF view.following /\ ~view.pin THEN ScheduleTailScroll(view) ELSE p
    OBVIOUS
  <2>1. /\ f \in [on : BOOLEAN, returning : BOOLEAN] /\ f.on = focus.on
        /\ focus' = f /\ hasNewer' = FALSE /\ left' = left /\ view' = s
    BY <1>3, <2>f, <2>p, <2>s DEF Returned
  <2>2. Loose(view, f)
    BY <1>0, <2>1 DEF Loose, Traced
  <2>3. /\ p \in Views /\ p.dist = Far /\ p.following = view.following
        /\ p.pin = view.pin /\ p.frame = view.frame /\ p.resuming = view.resuming
        /\ p.pointer = view.pointer /\ p.contact = view.contact /\ p.snap = view.snap
        /\ p.scrolling = view.scrolling
    BY <1>0, <2>p, Thresholds DEF Views
  <2>4. Loose(p, f)
    BY <1>0, <2>3 DEF Loose, Carried, Traced
  <2>5. Fine(s, FALSE, f) /\ (left => Away(s))
    <3>1. CASE s = p
      <4>1. Unsettled(p, FALSE, f)
        BY <2>3, Thresholds DEF Unsettled
      <4>2. Fine(p, FALSE, f)
        BY <1>0, <2>3, <2>4, <4>1 DEF Fine, SnapEnds
      <4>3. left => Away(p)
        BY <2>3, Thresholds DEF Away
      <4> QED BY <3>1, <4>2, <4>3
    <3>2. CASE view.following /\ s = ScheduleTailScroll(view)
      <4>1. /\ Loose(s, f) /\ s.following /\ s.snap = view.snap /\ s.resuming = view.resuming
            /\ s.scrolling = view.scrolling
        BY <2>2, <3>2, Scheduled
      <4>2. s.snap => s.scrolling \/ s.resuming
        BY <1>0, <4>1 DEF SnapEnds
      <4> QED BY <3>2, <4>1, <4>2, FollowedIsFine DEF Away
    <3>3. s = p \/ (view.following /\ s = ScheduleTailScroll(view))
      BY <2>s
    <3> QED BY <3>1, <3>2, <3>3
  <2>6. (Fine(view, hasNewer, focus))'
    BY <2>1, <2>5 DEF Fine, Loose, Carried, Traced, SnapEnds, Unsettled
  <2> QED BY <2>1, <2>5, <2>6 DEF Away
<1>4. ASSUME NEW d \in Distances, FocusEvent(d) PROVE ScrollIInv'
  <2>f. PICK f : f = [on |-> TRUE, returning |-> FALSE]
    OBVIOUS
  <2>p. PICK p : p = Pause(view)
    OBVIOUS
  <2>0. (p.moved \/ d # view.dist) \in BOOLEAN
    OBVIOUS
  <2>s. PICK s : s = [p EXCEPT !.dist = d, !.moved = @ \/ d # view.dist]
    OBVIOUS
  <2>1. /\ f \in [on : BOOLEAN, returning : BOOLEAN] /\ f.on
        /\ focus' = f /\ hasNewer' \in BOOLEAN /\ ~left' /\ left' \in BOOLEAN /\ view' = s
    BY <1>4, <2>f, <2>p, <2>s DEF FocusEvent
  <2>2. Loose(p, focus) /\ p \in Views /\ ~p.snap /\ ~p.following
    BY <1>0, <2>p, PausedIsLoose DEF Loose
  <2>3. /\ s \in Views /\ ~s.snap /\ s.frame = p.frame /\ s.pin = p.pin
        /\ s.following = p.following /\ s.pointer = p.pointer /\ s.contact = p.contact
    BY <2>0, <2>s, <2>2 DEF Views
  <2>4. /\ Loose(s, f) /\ SnapEnds(s) /\ Unsettled(s, FALSE, f)
    BY <2>1, <2>2, <2>3 DEF Loose, Carried, Traced, SnapEnds, Unsettled
  <2>5. (Fine(view, hasNewer, focus))'
    BY <2>1, <2>4 DEF Fine, Loose, Carried, Traced, SnapEnds, Unsettled
  <2> QED BY <2>1, <2>5
<1> QED BY <1>1, <1>2, <1>3, <1>4

LEMMA ScrollStep == ASSUME ScrollIInv, [ScrollNext]_scrollVars PROVE ScrollIInv'
<1>1. CASE UNCHANGED scrollVars
  BY <1>1 DEF ScrollIInv, scrollVars, Fine, Loose, Carried, Traced, SnapEnds, Unsettled, Away
<1>2. CASE ScrollNext
  BY <1>2, HandStep, LiftStep, MovesStep, GrowStep, JumpStep, ZenonT(30) DEF ScrollNext
<1> QED BY <1>1, <1>2

LEMMA ScrollStart == ScrollInit => ScrollIInv
<1> SUFFICES ASSUME ScrollInit PROVE ScrollIInv
  OBVIOUS
<1>1. /\ hasNewer \in BOOLEAN /\ left \in BOOLEAN /\ ~left
      /\ focus \in [on : BOOLEAN, returning : BOOLEAN]
  BY DEF ScrollInit
<1>2. view \in Views /\ ~view.snap /\ (~view.following => focus.on)
      /\ ~view.gesture.on /\ (view.frame \/ view.pin => view.following)
      /\ view.pointer = "none"
  <2>1. (~focus.on) \in BOOLEAN
    OBVIOUS
  <2> QED BY <2>1, Thresholds DEF ScrollInit, Views
<1> QED BY <1>1, <1>2 DEF ScrollIInv, Fine, Loose, Carried, Traced, SnapEnds, Unsettled

(* A reader who moved away from the tail is left alone: no native scroll, resize,
   history answer or timer makes the transcript follow the tail again before
   they came back to it or a jump to it that they began is done. *)
THEOREM ReadersAreLeftAlone == ScrollSpec => []ReaderIsLeftAlone
<1>1. ScrollIInv => ReaderIsLeftAlone
  BY DEF ScrollIInv, ReaderIsLeftAlone, Away
<1> QED BY <1>1, ScrollStart, ScrollStep, PTL DEF ScrollSpec

(* A transcript that came to rest follows its tail or shows the button that leads
   back to it. *)
THEOREM WayBackIsOffered == ScrollSpec => []RestsWithAWayBack
<1>1. ScrollIInv => RestsWithAWayBack
  BY DEF ScrollIInv, RestsWithAWayBack, AtRest, ButtonShown, Fine, SnapEnds, Unsettled
<1> QED BY <1>1, ScrollStart, ScrollStep, PTL DEF ScrollSpec

-----------------------------------------------------------------------------
(* The list of the sessions (SessionList). *)

EventTypes == {"started", "completed", "failed", "pinned", "unpinned", "archived", "restored"}
Snaps == [seq : Nat, status : {"idle", "running", "failed"}, pinned : {"no", "yes"},
          archived : BOOLEAN, attn : Nat]
Rows == [known : BOOLEAN, seq : Nat, status : {"idle", "running", "failed"},
         pinned : {"no", "guess", "yes"}, archived : BOOLEAN, attn : Nat]
Calls == [st : {"idle", "sent", "answered"}, ok : BOOLEAN, snap : Snaps, resync : BOOLEAN,
          was : {"no", "guess", "yes"}, asked : BOOLEAN, conflict : BOOLEAN]

ListTypeOK ==
  /\ server \in Snaps /\ log \in Seq(EventTypes)
  /\ stream \in [at : Nat, open : BOOLEAN] /\ cursor \in Nat
  /\ row \in Rows /\ call \in [RequestKinds -> Calls]
  /\ viewed \in BOOLEAN /\ lost \in Nat
  /\ seen \in Nat /\ held \in Nat /\ screened \in Nat
  /\ seen <= screened

(* What a log says of the session's runs up to its n-th event. *)
RunEvents == {"started", "completed", "failed"}
StatusOf(l, n) == IF \E i \in LatestOf(l, RunEvents, n) : l[i] = "started" THEN "running"
                  ELSE IF \E i \in LatestOf(l, RunEvents, n) : l[i] = "failed" THEN "failed"
                  ELSE "idle"
(* An answer of the server, and the server's own row, agree with the log. *)
AsLogged(l, s) == /\ s.seq <= Len(l)
                  /\ s.status = StatusOf(l, s.seq) /\ s.pinned = PinnedOf(l, s.seq)
                  /\ s.archived <=> ArchivedOf(l, s.seq)

(* A row that lost nothing is as old as it says, but for a status that a newer
   answer brought and a pin that waits for its answer.  One that is not listed
   is archived, or about to be fetched. *)
RowStands(l, r, pin, fetching) ==
  /\ r.known =>
       /\ \E k \in r.seq .. Len(l) : r.status = StatusOf(l, k)
       /\ r.archived <=> ArchivedOf(l, r.seq)
       /\ \/ r.pinned = PinnedOf(l, r.seq)
          \/ pin.st # "idle" /\ r.pinned = Optimistic(pin.was)
  /\ ~r.known => r.seq >= 1 /\ (ArchivedOf(l, r.seq) \/ fetching)
  /\ (r.seq = 0 /\ pin.st # "idle") => pin.was = "no"

Fetching == call["get"].st # "idle"

(* The stream is not ahead of the row (or of what is amiss with it), but for a
   list that asked for the selected session as well: it has moved the stream
   already, and what will answer is as new as that.  The stream is closed
   meanwhile. *)
Reached(s, c, upto) ==
  /\ c.resync => ~s.open
  /\ \/ s.at <= upto
     \/ ~s.open /\ c.st # "idle" /\ c.asked /\ s.at <= c.snap.seq
(* How a list request may go on. *)
OnTheWay(c, d) ==
  \/ /\ d.resync = c.resync /\ d.asked = c.asked
     /\ c.st # "idle" => d.st # "idle"
     /\ c.asked => c.snap.seq <= d.snap.seq
  \/ c.st = "idle" /\ ~d.resync

ListIInv ==
  /\ ListTypeOK
  /\ server.seq = Len(log) /\ AsLogged(log, server)
  /\ \A k \in RequestKinds : AsLogged(log, call[k].snap)
  /\ row.seq <= Len(log) /\ Reached(stream, call["list"], Later(lost, row.seq))
  /\ lost = 0 => RowStands(log, row, call["pin"], Fetching)

LEMMA LatestGrows ==
  ASSUME NEW l \in Seq(EventTypes), NEW types, NEW n \in 1 .. Len(l)
  PROVE  LatestOf(l, types, n) = IF l[n] \in types THEN {n} ELSE LatestOf(l, types, n - 1)
<1>1. CASE l[n] \in types
  <2>1. n \in LatestOf(l, types, n)
    BY <1>1 DEF LatestOf
  <2>2. ASSUME NEW i \in LatestOf(l, types, n), i # n PROVE FALSE
    <3>1. n \in i + 1 .. n
      BY <2>2 DEF LatestOf
    <3> QED BY <1>1, <2>2, <3>1 DEF LatestOf
  <2> QED BY <1>1, <2>1, <2>2
<1>2. CASE l[n] \notin types
  <2>1. ASSUME NEW i \in LatestOf(l, types, n) PROVE i \in LatestOf(l, types, n - 1)
    <3>1. i # n
      BY <1>2, <2>1 DEF LatestOf
    <3> QED BY <2>1, <3>1 DEF LatestOf
  <2>2. ASSUME NEW i \in LatestOf(l, types, n - 1) PROVE i \in LatestOf(l, types, n)
    <3>1. \A j \in i + 1 .. n : j \in i + 1 .. n - 1 \/ j = n
      BY <2>2 DEF LatestOf
    <3> QED BY <1>2, <2>2, <3>1 DEF LatestOf
  <2> QED BY <1>2, <2>1, <2>2
<1> QED BY <1>1, <1>2

LEMMA LogGrows ==
  ASSUME NEW l \in Seq(EventTypes), NEW n \in 1 .. Len(l)
  PROVE  /\ StatusOf(l, n) = CASE l[n] = "started" -> "running" [] l[n] = "completed" -> "idle"
                               [] l[n] = "failed" -> "failed" [] OTHER -> StatusOf(l, n - 1)
         /\ PinnedOf(l, n) = IF l[n] = "pinned" THEN "yes" ELSE IF l[n] = "unpinned" THEN "no"
                             ELSE PinnedOf(l, n - 1)
         /\ ArchivedOf(l, n) <=> \/ l[n] = "archived"
                                 \/ l[n] \notin {"archived", "restored"} /\ ArchivedOf(l, n - 1)
<1>1. StatusOf(l, n) = CASE l[n] = "started" -> "running" [] l[n] = "completed" -> "idle"
                               [] l[n] = "failed" -> "failed" [] OTHER -> StatusOf(l, n - 1)
  <2>1. LatestOf(l, RunEvents, n) = IF l[n] \in RunEvents THEN {n} ELSE LatestOf(l, RunEvents, n - 1)
    BY LatestGrows
  <2>2. CASE l[n] \in RunEvents
    <3>1. LatestOf(l, RunEvents, n) = {n}
      BY <2>1, <2>2
    <3> QED BY <2>2, <3>1 DEF StatusOf, RunEvents
  <2>3. CASE l[n] \notin RunEvents
    <3>1. LatestOf(l, RunEvents, n) = LatestOf(l, RunEvents, n - 1)
      BY <2>1, <2>3
    <3> QED BY <2>3, <3>1 DEF StatusOf, RunEvents
  <2> QED BY <2>2, <2>3
<1>2. PinnedOf(l, n) = IF l[n] = "pinned" THEN "yes" ELSE IF l[n] = "unpinned" THEN "no"
                             ELSE PinnedOf(l, n - 1)
  <2>t. PICK T : T = {"pinned", "unpinned"}
    OBVIOUS
  <2>1. LatestOf(l, T, n) = IF l[n] \in T THEN {n} ELSE LatestOf(l, T, n - 1)
    BY LatestGrows
  <2>2. CASE l[n] \in T
    <3>1. LatestOf(l, T, n) = {n}
      BY <2>1, <2>2
    <3> QED BY <2>t, <2>2, <3>1 DEF PinnedOf
  <2>3. CASE l[n] \notin T
    <3>1. LatestOf(l, T, n) = LatestOf(l, T, n - 1)
      BY <2>1, <2>3
    <3> QED BY <2>t, <2>3, <3>1 DEF PinnedOf
  <2> QED BY <2>2, <2>3
<1>3. ArchivedOf(l, n) <=> \/ l[n] = "archived"
                           \/ l[n] \notin {"archived", "restored"} /\ ArchivedOf(l, n - 1)
  <2>t. PICK T : T = {"archived", "restored"}
    OBVIOUS
  <2>1. LatestOf(l, T, n) = IF l[n] \in T THEN {n} ELSE LatestOf(l, T, n - 1)
    BY LatestGrows
  <2>2. CASE l[n] \in T
    <3>1. LatestOf(l, T, n) = {n}
      BY <2>1, <2>2
    <3> QED BY <2>t, <2>2, <3>1 DEF ArchivedOf
  <2>3. CASE l[n] \notin T
    <3>1. LatestOf(l, T, n) = LatestOf(l, T, n - 1)
      BY <2>1, <2>3
    <3> QED BY <2>t, <2>3, <3>1 DEF ArchivedOf
  <2> QED BY <2>2, <2>3
<1> QED BY <1>1, <1>2, <1>3

LEMMA LogStarts ==
  ASSUME NEW l
  PROVE  StatusOf(l, 0) = "idle" /\ PinnedOf(l, 0) = "no" /\ ~ArchivedOf(l, 0)
BY DEF StatusOf, PinnedOf, ArchivedOf, LatestOf

LEMMA LogTypes ==
  ASSUME NEW l, NEW n
  PROVE  /\ StatusOf(l, n) \in {"idle", "running", "failed"} /\ PinnedOf(l, n) \in {"no", "yes"}
         /\ ArchivedOf(l, n) \in BOOLEAN
BY DEF StatusOf, PinnedOf, ArchivedOf

LEMMA LogKeeps ==
  ASSUME NEW l \in Seq(EventTypes), NEW type \in EventTypes, NEW n \in 0 .. Len(l)
  PROVE  /\ StatusOf(Append(l, type), n) = StatusOf(l, n)
         /\ PinnedOf(Append(l, type), n) = PinnedOf(l, n)
         /\ ArchivedOf(Append(l, type), n) <=> ArchivedOf(l, n)
<1> DEFINE m == Append(l, type)
<1>1. \A i \in 1 .. n : m[i] = l[i]
  OBVIOUS
<1> HIDE DEF m
<1>2. ASSUME NEW types PROVE LatestOf(m, types, n) = LatestOf(l, types, n)
  <2>1. ASSUME NEW i \in 1 .. n PROVE \A j \in i + 1 .. n : m[j] = l[j]
    BY <1>1
  <2> QED BY <1>1, <2>1 DEF LatestOf
<1>3. \A types : \A i \in LatestOf(l, types, n) : m[i] = l[i]
  BY <1>1 DEF LatestOf
<1>4. StatusOf(m, n) = StatusOf(l, n)
  BY <1>2, <1>3 DEF StatusOf
<1>5. PinnedOf(m, n) = PinnedOf(l, n)
  BY <1>2, <1>3 DEF PinnedOf
<1>6. ArchivedOf(m, n) <=> ArchivedOf(l, n)
  BY <1>2, <1>3 DEF ArchivedOf
<1> QED BY <1>4, <1>5, <1>6 DEF m

-----------------------------------------------------------------------------
(* The types, and that nothing is taken for seen that was not on the screen. *)

LEMMA ListTypes ==
  /\ NoSession \in Snaps /\ NoCall \in Calls
  /\ \A k \in BOOLEAN, s \in Snaps :
       /\ RowOf(k, s) \in Rows /\ RowOf(k, s).known = k /\ RowOf(k, s).seq = s.seq
       /\ RowOf(k, s).status = s.status /\ RowOf(k, s).pinned = s.pinned
       /\ RowOf(k, s).archived = s.archived
  /\ \A a, b \in Nat : Later(a, b) \in Nat /\ Later(a, b) >= a /\ Later(a, b) >= b
                       /\ (Later(a, b) = a \/ Later(a, b) = b)
<1>1. NoSession \in Snaps
  BY DEF NoSession, Snaps
<1>2. NoCall \in Calls
  BY <1>1 DEF NoCall, Calls
<1>3. ASSUME NEW k \in BOOLEAN, NEW s \in Snaps
      PROVE  /\ RowOf(k, s) \in Rows /\ RowOf(k, s).known = k /\ RowOf(k, s).seq = s.seq
             /\ RowOf(k, s).status = s.status /\ RowOf(k, s).pinned = s.pinned
             /\ RowOf(k, s).archived = s.archived
  BY DEF Snaps, RowOf, Rows
<1>4. \A a, b \in Nat : Later(a, b) \in Nat /\ Later(a, b) >= a /\ Later(a, b) >= b
                       /\ (Later(a, b) = a \/ Later(a, b) = b)
  BY DEF Later
<1> QED BY <1>1, <1>2, <1>3, <1>4

LEMMA Marked ==
  ASSUME NEW base \in Nat, MarkSeen(base), row' \in Rows, held' \in Nat, viewed' \in BOOLEAN,
         screened \in Nat,
         base <= screened \/ (viewed' /\ row'.known /\ base <= row'.seq)
  PROVE  seen' \in Nat /\ screened' \in Nat /\ seen' <= screened'
<1>1. row'.seq \in Nat
  BY DEF Rows
<1>l. PICK newest : newest = IF row'.known THEN row'.seq ELSE 0
  OBVIOUS
<1>m. newest \in Nat
  BY <1>1, <1>l
<1>2. screened' = IF viewed' THEN Later(screened, newest) ELSE screened
  BY <1>l DEF MarkSeen
<1>3. seen' = base \/ (viewed' /\ seen' = Later(base, newest))
  BY <1>l DEF MarkSeen
<1>4. base <= screened \/ (viewed' /\ base <= newest)
  BY <1>l
<1> QED BY <1>m, <1>2, <1>3, <1>4 DEF Later

LEMMA OneMore ==
  ASSUME server \in Snaps, NEW type \in EventTypes
  PROVE  /\ WithEvent(type) \in Snaps
         /\ WithEvent(type).seq = server.seq + 1
         /\ WithEvent(type).status = CASE type = "started" -> "running" [] type = "completed" -> "idle"
                                       [] type = "failed" -> "failed" [] OTHER -> server.status
         /\ WithEvent(type).pinned = IF type = "pinned" THEN "yes" ELSE IF type = "unpinned" THEN "no"
                                     ELSE server.pinned
         /\ WithEvent(type).archived \in BOOLEAN
         /\ WithEvent(type).archived
              <=> (type = "archived" \/ (type # "restored" /\ server.archived))
<1>s. PICK s : s = CASE type = "started" -> "running" [] type = "completed" -> "idle"
                     [] type = "failed" -> "failed" [] OTHER -> server.status
  OBVIOUS
<1>p. PICK p : p = IF type = "pinned" THEN "yes" ELSE IF type = "unpinned" THEN "no"
                   ELSE server.pinned
  OBVIOUS
<1>a. PICK a : a = IF type = "archived" THEN TRUE
                   ELSE IF type = "restored" THEN FALSE ELSE server.archived
  OBVIOUS
<1>1. s \in {"idle", "running", "failed"} /\ p \in {"no", "yes"}
  BY <1>s, <1>p DEF Snaps, EventTypes
<1>b. server.archived \in BOOLEAN
  BY DEF Snaps
<1>2. a \in BOOLEAN /\ (a <=> (type = "archived" \/ (type # "restored" /\ server.archived)))
  <2>1. CASE type = "archived"
    BY <1>a, <2>1
  <2>2. CASE type = "restored"
    BY <1>a, <2>2
  <2>3. CASE type \notin {"archived", "restored"}
    <3>1. a = server.archived
      BY <1>a, <2>3
    <3> QED BY <1>b, <2>3, <3>1
  <2> QED BY <2>1, <2>2, <2>3
<1>3. WithEvent(type) = [server EXCEPT !.seq = server.seq + 1, !.status = s, !.pinned = p,
                                       !.archived = a]
  BY <1>s, <1>p, <1>a DEF WithEvent
<1>c. a \in BOOLEAN
  BY <1>2
<1>d. WithEvent(type) \in Snaps
  <2>1. WithEvent(type) = [seq |-> server.seq + 1, status |-> s, pinned |-> p, archived |-> a,
                           attn |-> server.attn]
    BY <1>3 DEF Snaps
  <2>2. server.seq + 1 \in Nat /\ server.attn \in Nat
    BY DEF Snaps
  <2> QED BY <1>1, <1>c, <2>1, <2>2 DEF Snaps
<1>e. /\ WithEvent(type).seq = server.seq + 1 /\ WithEvent(type).status = s
      /\ WithEvent(type).pinned = p
  BY <1>3 DEF Snaps
<1>f. WithEvent(type).archived = a
  BY <1>3 DEF Snaps
<1>4. /\ WithEvent(type) \in Snaps
      /\ WithEvent(type).seq = server.seq + 1 /\ WithEvent(type).status = s
      /\ WithEvent(type).pinned = p /\ WithEvent(type).archived = a
  BY <1>d, <1>e, <1>f
<1>5. WithEvent(type).archived \in BOOLEAN
  BY <1>2, <1>4
<1>6. WithEvent(type).archived <=> (type = "archived" \/ (type # "restored" /\ server.archived))
  BY <1>2, <1>4
<1>7. /\ WithEvent(type) \in Snaps /\ WithEvent(type).seq = server.seq + 1
      /\ WithEvent(type).status = CASE type = "started" -> "running" [] type = "completed" -> "idle"
                                    [] type = "failed" -> "failed" [] OTHER -> server.status
      /\ WithEvent(type).pinned = IF type = "pinned" THEN "yes" ELSE IF type = "unpinned" THEN "no"
                                  ELSE server.pinned
  BY <1>s, <1>p, <1>4
<1> QED BY <1>5, <1>6, <1>7

(* The steps that leave the marks alone but touch the server. *)
LEMMA ServerTypes ==
  ASSUME ListTypeOK, ServerSteps
  PROVE  ListTypeOK'
<1> USE DEF ListTypeOK
<1>1. ASSUME NEW type \in EventTypes
      PROVE  WithEvent(type) \in Snaps /\ Append(log, type) \in Seq(EventTypes)
  BY OneMore
<1>2. ASSUME NEW k \in RequestKinds, NEW ok \in BOOLEAN, NEW snap \in Snaps
      PROVE  [call EXCEPT ![k].st = "answered", ![k].ok = ok, ![k].snap = snap]
               \in [RequestKinds -> Calls]
  <2>c. PICK c : c = [call[k] EXCEPT !.st = "answered", !.ok = ok, !.snap = snap]
    OBVIOUS
  <2>1. c \in Calls
    <3>1. call[k] \in Calls
      OBVIOUS
    <3> QED BY <2>c, <3>1 DEF Calls
  <2>2. [call EXCEPT ![k].st = "answered", ![k].ok = ok, ![k].snap = snap] = [call EXCEPT ![k] = c]
    BY <2>c
  <2>3. [call EXCEPT ![k] = c] \in [RequestKinds -> Calls]
    BY <2>1
  <2> QED BY <2>2, <2>3
<1>3. CASE RunEnds
  <2>1. PICK type \in Terminal, notify \in BOOLEAN :
          /\ log' = Append(log, type)
          /\ server' = [WithEvent(type) EXCEPT !.attn = IF notify THEN server.seq + 1 ELSE @]
    BY <1>3 DEF RunEnds
  <2>2. type \in EventTypes
    BY DEF Terminal, EventTypes
  <2>a. PICK attn : attn = IF notify THEN server.seq + 1 ELSE WithEvent(type).attn
    OBVIOUS
  <2>b. attn \in Nat
    BY <1>1, <2>a, <2>2 DEF Snaps
  <2>c. server' = [WithEvent(type) EXCEPT !.attn = attn]
    BY <2>1, <2>a
  <2>3. server' \in Snaps
    BY <1>1, <2>b, <2>c, <2>2 DEF Snaps
  <2> QED BY <1>1, <1>3, <2>1, <2>2, <2>3 DEF RunEnds
<1>4. CASE RunStarts
  <2>1. "started" \in EventTypes
    BY DEF EventTypes
  <2> QED BY <1>1, <1>4, <2>1 DEF RunStarts, Write
<1>7. CASE MovedElsewhere
  <2>1. PICK type \in {"archived", "restored"} : Write(type)
    BY <1>7 DEF MovedElsewhere
  <2>2. type \in EventTypes
    BY DEF EventTypes
  <2> QED BY <1>1, <1>7, <2>1, <2>2 DEF MovedElsewhere, Write
<1>8. CASE IncludeFails
  <2>0. "list" \in RequestKinds /\ call["list"] \in Calls
    BY DEF RequestKinds
  <2>s. PICK snap : snap = call["list"].snap
    OBVIOUS
  <2>1. snap \in Snaps /\ Answered("list", TRUE, snap)
    BY <1>8, <2>0, <2>s DEF IncludeFails, Calls
  <2>2. call' \in [RequestKinds -> Calls]
    BY <1>2, <2>0, <2>1 DEF Answered
  <2> QED BY <1>8, <2>2 DEF IncludeFails, outside
<1>5. ASSUME NEW k \in RequestKinds, Serve(k) PROVE ListTypeOK'
  <2>1. /\ server' \in Snaps /\ log' \in Seq(EventTypes)
        /\ Answered(k, TRUE, server) \/ Answered(k, TRUE, server')
    <3>1. CASE k \in {"list", "get"}
      BY <1>5, <3>1 DEF Serve
    <3>2. CASE k = "submit"
      <4>1. "started" \in EventTypes
        BY DEF EventTypes
      <4> QED BY <1>1, <1>5, <3>2, <4>1 DEF Serve, Write
    <3>3. CASE k = "pin"
      <4>1. PICK type \in {"pinned", "unpinned"} : Write(type) /\ Answered(k, TRUE, server')
        BY <1>5, <3>3 DEF Serve
      <4>2. type \in EventTypes
        BY DEF EventTypes
      <4> QED BY <1>1, <4>1, <4>2 DEF Write
    <3>4. CASE k = "archive"
      <4>1. PICK type \in {"archived", "restored"} : Write(type) /\ Answered(k, TRUE, server')
        BY <1>5, <3>4 DEF Serve
      <4>2. type \in EventTypes
        BY DEF EventTypes
      <4> QED BY <1>1, <4>1, <4>2 DEF Write
    <3>5. CASE k \in {"attention", "dismiss"}
      <4>1. server' = [server EXCEPT !.attn = 0] /\ log' = log /\ Answered(k, TRUE, server')
        BY <1>5, <3>5 DEF Serve
      <4>2. server' \in Snaps
        BY <4>1 DEF Snaps
      <4> QED BY <4>1, <4>2
    <3> QED BY <3>1, <3>2, <3>3, <3>4, <3>5 DEF RequestKinds
  <2>s. PICK snap \in Snaps : Answered(k, TRUE, snap)
    BY <2>1
  <2>2. call' \in [RequestKinds -> Calls]
    BY <1>2, <2>s DEF Answered
  <2> QED BY <1>5, <2>1, <2>2 DEF Serve
<1>6. ASSUME NEW k \in RequestKinds, Refuse(k) PROVE ListTypeOK'
  <2>1. PICK conflict \in BOOLEAN :
          call' = [call EXCEPT ![k] = [call[k] EXCEPT !.st = "answered", !.ok = FALSE,
                                               !.snap = NoSession, !.conflict = conflict]]
    BY <1>6 DEF Refuse
  <2>c. PICK c : c = [call[k] EXCEPT !.st = "answered", !.ok = FALSE, !.snap = NoSession,
                                     !.conflict = conflict]
    OBVIOUS
  <2>2. c \in Calls
    <3>1. call[k] \in Calls /\ NoSession \in Snaps
      BY ListTypes
    <3> QED BY <2>c, <3>1 DEF Calls
  <2>3. call' \in [RequestKinds -> Calls]
    BY <2>1, <2>c, <2>2
  <2> QED BY <1>6, <2>3 DEF Refuse, outside
<1> QED BY <1>3, <1>4, <1>5, <1>6, <1>7, <1>8 DEF ServerSteps

-----------------------------------------------------------------------------
(* What the helpers of the client's steps return. *)

LEMMA ListedFacts ==
  ASSUME NEW r \in Rows
  PROVE  /\ Listed(r) \in Rows /\ Listed(r).seq = r.seq /\ Listed(r).status = r.status
         /\ Listed(r).pinned = r.pinned /\ Listed(r).archived = r.archived
         /\ Listed(r).known = r.known \/ (r.archived /\ Listed(r).known = FALSE)
<1>1. CASE Listed(r) = r
  BY <1>1
<1>2. CASE r.archived /\ Listed(r) = [r EXCEPT !.known = FALSE]
  <2>1. [r EXCEPT !.known = FALSE] \in Rows
    BY DEF Rows
  <2>2. Listed(r).known = FALSE
    BY <1>2 DEF Rows
  <2> QED BY <1>2, <2>1, <2>2 DEF Rows
<1> QED BY <1>1, <1>2 DEF Listed

LEMMA EventFacts ==
  ASSUME NEW r \in Rows, NEW n \in Nat, NEW type \in EventTypes, n > r.seq
  PROVE  LET e == ApplyEvent(r, n, type)
         IN  /\ e \in Rows /\ e.seq = n /\ e.known = r.known
             /\ e.status = CASE type = "started" -> "running" [] type = "completed" -> "idle"
                             [] type = "failed" -> "failed" [] OTHER -> r.status
             /\ e.pinned = IF type = "pinned" THEN "yes" ELSE IF type = "unpinned" THEN "no"
                           ELSE r.pinned
             /\ e.archived <=> (type = "archived" \/ (type # "restored" /\ r.archived))
<1> DEFINE e == ApplyEvent(r, n, type)
<1>s. PICK s : s = CASE type = "started" -> "running" [] type = "completed" -> "idle"
                     [] type = "failed" -> "failed" [] OTHER -> r.status
  OBVIOUS
<1>p. PICK p : p = IF type = "pinned" THEN "yes" ELSE IF type = "unpinned" THEN "no" ELSE r.pinned
  OBVIOUS
<1>a. PICK a : a = IF type = "archived" THEN TRUE
                   ELSE IF type = "restored" THEN FALSE ELSE r.archived
  OBVIOUS
<1>1. s \in {"idle", "running", "failed"} /\ p \in {"no", "guess", "yes"}
  BY <1>s, <1>p DEF Rows, EventTypes
<1>b. r.archived \in BOOLEAN
  BY DEF Rows
<1>2. a \in BOOLEAN /\ (a <=> (type = "archived" \/ (type # "restored" /\ r.archived)))
  <2>1. CASE type = "archived"
    BY <1>a, <2>1
  <2>2. CASE type = "restored"
    BY <1>a, <2>2
  <2>3. CASE type \notin {"archived", "restored"}
    <3>1. a = r.archived
      BY <1>a, <2>3
    <3> QED BY <1>b, <2>3, <3>1
  <2> QED BY <2>1, <2>2, <2>3
<1>c. a \in BOOLEAN
  BY <1>2
<1>0. ~(n <= r.seq)
  BY DEF Rows
<1>3. e = [r EXCEPT !.seq = n, !.status = s, !.pinned = p, !.archived = a]
  BY <1>s, <1>p, <1>a, <1>0 DEF ApplyEvent
<1>d. e \in Rows
  <2>1. e = [known |-> r.known, seq |-> n, status |-> s, pinned |-> p, archived |-> a,
             attn |-> r.attn]
    BY <1>3 DEF Rows
  <2>2. r.known \in BOOLEAN /\ r.attn \in Nat
    BY DEF Rows
  <2> QED BY <1>1, <1>c, <2>1, <2>2 DEF Rows
<1>e. e.seq = n /\ e.status = s /\ e.pinned = p /\ e.known = r.known
  BY <1>3 DEF Rows
<1>f. e.archived = a
  BY <1>3 DEF Rows
<1> HIDE DEF e
<1>6. e.archived <=> (type = "archived" \/ (type # "restored" /\ r.archived))
  BY <1>2, <1>f
<1>7. /\ e \in Rows /\ e.seq = n /\ e.known = r.known
      /\ e.status = CASE type = "started" -> "running" [] type = "completed" -> "idle"
                      [] type = "failed" -> "failed" [] OTHER -> r.status
      /\ e.pinned = IF type = "pinned" THEN "yes" ELSE IF type = "unpinned" THEN "no" ELSE r.pinned
  BY <1>s, <1>p, <1>d, <1>e
<1> QED BY <1>6, <1>7 DEF e

LEMMA SendFacts ==
  ASSUME call \in [RequestKinds -> Calls], row \in Rows, NEW k \in RequestKinds, Send(k)
  PROVE  /\ call' \in [RequestKinds -> Calls]
         /\ \A j \in RequestKinds \ {k} : call'[j] = call[j]
         /\ call'[k].st = "sent" /\ call'[k].was = row.pinned /\ call'[k].snap = NoSession
         /\ ~call'[k].resync
<1>c. PICK c : c = [NoCall EXCEPT !.st = "sent", !.was = row.pinned]
  OBVIOUS
<1>1. c \in Calls /\ c.st = "sent" /\ c.was = row.pinned /\ c.snap = NoSession /\ ~c.resync
  BY <1>c, ListTypes DEF Calls, NoCall, Rows
<1>2. call' = [call EXCEPT ![k] = c]
  BY <1>c DEF Send
<1> QED BY <1>1, <1>2

LEMMA DoneFacts ==
  ASSUME call \in [RequestKinds -> Calls], NEW k \in RequestKinds, Done(k)
  PROVE  /\ call' \in [RequestKinds -> Calls]
         /\ \A j \in RequestKinds \ {k} : call'[j] = call[j]
         /\ call'[k].st = "idle" /\ call'[k].snap = NoSession /\ ~call'[k].resync
<1>1. NoCall \in Calls /\ NoCall.st = "idle" /\ NoCall.snap = NoSession /\ ~NoCall.resync
  BY ListTypes DEF NoCall
<1>2. call' = [call EXCEPT ![k] = NoCall]
  BY DEF Done
<1> QED BY <1>1, <1>2

LEMMA ThenGetFacts ==
  ASSUME call \in [RequestKinds -> Calls], NEW k \in RequestKinds \ {"get"}, ThenGet(k)
  PROVE  /\ call' \in [RequestKinds -> Calls]
         /\ \A j \in RequestKinds \ {k, "get"} : call'[j] = call[j]
         /\ call'[k].st = "idle" /\ call'[k].snap = NoSession
         /\ call'["get"].st # "idle" /\ call'["get"].snap = call["get"].snap
<1>1. NoCall \in Calls /\ NoCall.st = "idle" /\ NoCall.snap = NoSession
  BY ListTypes DEF NoCall
<1>0. "get" \in RequestKinds
  BY DEF RequestKinds
<1>d. PICK d : d = IF call["get"].st = "idle" THEN "sent" ELSE call["get"].st
  OBVIOUS
<1>g. PICK g : g = [call["get"] EXCEPT !.st = d]
  OBVIOUS
<1>2. g \in Calls /\ g.st = d /\ g.snap = call["get"].snap
  BY <1>0, <1>d, <1>g DEF Calls
<1>3. call' = [call EXCEPT ![k] = NoCall, !["get"] = g]
  BY <1>0, <1>d, <1>g DEF ThenGet
<1>4. d # "idle"
  BY <1>d
<1> QED BY <1>0, <1>1, <1>2, <1>3, <1>4

-----------------------------------------------------------------------------
(* The types, step by step. *)

LEMMA AttnGone ==
  ASSUME row \in Rows, row' = [row EXCEPT !.attn = 0]
  PROVE  /\ row' \in Rows /\ row'.known = row.known /\ row'.seq = row.seq
         /\ row'.status = row.status /\ row'.pinned = row.pinned /\ row'.archived = row.archived
BY DEF Rows

LEMMA DeliverTypes ==
  ASSUME ListTypeOK, Deliver
  PROVE  ListTypeOK'
<1> USE DEF ListTypeOK
<1>n. PICK n : n = stream.at + 1
  OBVIOUS
<1>t. PICK type : type = log[n]
  OBVIOUS
<1>1. n \in 1 .. Len(log)
  BY <1>n DEF Deliver
<1>2. type \in EventTypes
  BY <1>1, <1>t
<1>3. stream' \in [at : Nat, open : BOOLEAN]
  BY DEF Deliver
<1>4. CASE n <= cursor
  <2>1. /\ lost' = IF n > row.seq THEN n ELSE lost
        /\ UNCHANGED <<cursor, row, call, viewed, seen, screened, server, log, held>>
    BY <1>4, <1>n DEF Deliver
  <2> QED BY <1>1, <1>3, <2>1
<1>5. CASE n > cursor
  <2>0. ~(n <= cursor)
    BY <1>1, <1>5
  <2>b. PICK base : base = IF type \in Terminal /\ ~viewed /\ (row.known => n >= row.seq)
                           THEN UnseenAfter(n) ELSE seen
    OBVIOUS
  <2>1. /\ cursor' = n
        /\ row' = IF row.known THEN Listed(ApplyEvent(row, n, type))
                  ELSE [row EXCEPT !.seq = Later(row.seq, n)]
        /\ call' = IF row.known \/ call["get"].st # "idle" THEN call
                   ELSE [call EXCEPT !["get"].st = "sent"]
        /\ viewed' = (viewed /\ type # "archived")
        /\ held' = held /\ MarkSeen(base) /\ UNCHANGED <<lost, server, log>>
    BY <1>n, <1>t, <2>0, <2>b DEF Deliver
  <2>2. row' \in Rows
    <3>1. CASE row.known
      <4>1. ApplyEvent(row, n, type) \in Rows
        <5>1. CASE n > row.seq
          BY <1>1, <1>2, <5>1, EventFacts
        <5>2. CASE n <= row.seq
          BY <5>2 DEF ApplyEvent
        <5> QED BY <1>1, <5>1, <5>2 DEF Rows
      <4> QED BY <2>1, <3>1, <4>1, ListedFacts
    <3>2. CASE ~row.known
      <4>s. PICK s : s = Later(row.seq, n)
        OBVIOUS
      <4>r. row.seq \in Nat
        BY DEF Rows
      <4>1. s \in Nat
        BY <1>1, <4>s, <4>r DEF Later
      <4> QED BY <2>1, <3>2, <4>s, <4>1 DEF Rows
    <3> QED BY <3>1, <3>2
  <2>3. call' \in [RequestKinds -> Calls]
    <3>1. CASE call' = [call EXCEPT !["get"].st = "sent"]
      <4>1. "get" \in RequestKinds
        BY DEF RequestKinds
      <4> QED BY <3>1, <4>1 DEF Calls
    <3> QED BY <2>1, <3>1
  <2>4. base \in Nat /\ base <= screened
    BY <1>1, <2>b DEF UnseenAfter
  <2>5. viewed' \in BOOLEAN
    BY <2>1
  <2>6. seen' \in Nat /\ screened' \in Nat /\ seen' <= screened'
    BY <2>1, <2>2, <2>4, <2>5, Marked
  <2> QED BY <1>1, <1>3, <2>1, <2>2, <2>3, <2>5, <2>6
<1> QED BY <1>1, <1>4, <1>5

LEMMA UserTypes ==
  ASSUME ListTypeOK, UserSteps
  PROVE  ListTypeOK'
<1> USE DEF ListTypeOK
<1>0. {"list", "submit", "pin", "archive", "attention", "dismiss"} \subseteq RequestKinds
  BY DEF RequestKinds
<1>1. CASE LoadSessions
  <2>1. call' \in [RequestKinds -> Calls]
    BY <1>0, <1>1, SendFacts DEF LoadSessions
  <2> QED BY <1>1, <2>1 DEF LoadSessions, outside
<1>2. CASE Submit
  <2>1. call' \in [RequestKinds -> Calls]
    BY <1>0, <1>2, SendFacts DEF Submit
  <2> QED BY <1>2, <2>1 DEF Submit, outside
<1>3. CASE Pin
  <2>1. call' \in [RequestKinds -> Calls]
    BY <1>0, <1>3, SendFacts DEF Pin
  <2>2. Optimistic(row.pinned) \in {"no", "guess", "yes"}
    BY DEF Optimistic
  <2>3. row' = [row EXCEPT !.pinned = Optimistic(row.pinned)]
    BY <1>3 DEF Pin
  <2>4. row' \in Rows
    BY <2>2, <2>3 DEF Rows
  <2> QED BY <1>3, <2>1, <2>4 DEF Pin, outside
<1>4. CASE ArchiveOrRestore
  <2>w. PICK w : w = IF row.archived THEN "yes" ELSE "no"
    OBVIOUS
  <2>c. PICK c : c = [NoCall EXCEPT !.st = "sent", !.was = w]
    OBVIOUS
  <2>1. c \in Calls
    BY <2>w, <2>c, ListTypes DEF Calls, NoCall
  <2>2. call' = [call EXCEPT !["archive"] = c]
    BY <1>4, <2>w, <2>c DEF ArchiveOrRestore
  <2>3. call' \in [RequestKinds -> Calls]
    BY <2>1, <2>2
  <2> QED BY <1>4, <2>3 DEF ArchiveOrRestore, outside
<1>5. CASE OpenSession
  <2>1. call' \in [RequestKinds -> Calls]
    BY <1>0, <1>5, SendFacts DEF OpenSession
  <2>2. row' \in Rows
    BY <1>5, AttnGone DEF OpenSession
  <2>3. /\ viewed' \in BOOLEAN /\ held' \in Nat /\ MarkSeen(seen)
        /\ UNCHANGED <<server, log, stream, cursor, lost>>
    BY <1>5 DEF OpenSession, outside
  <2>4. seen' \in Nat /\ screened' \in Nat /\ seen' <= screened'
    BY <2>2, <2>3, Marked
  <2> QED BY <2>1, <2>2, <2>3, <2>4
<1>6. CASE LeaveSession
  BY <1>6 DEF LeaveSession, outside
<1>7. CASE OpenFromNotification
  <2>1. /\ viewed' \in BOOLEAN /\ MarkSeen(seen) /\ held' = server.attn
        /\ UNCHANGED <<server, log, stream, cursor, lost, call, row>>
    BY <1>7 DEF OpenFromNotification, outside
  <2>2. held' \in Nat
    BY <2>1 DEF Snaps
  <2>3. row' \in Rows
    BY <2>1
  <2>4. seen' \in Nat /\ screened' \in Nat /\ seen' <= screened'
    BY <2>1, <2>2, <2>3, Marked
  <2> QED BY <2>1, <2>2, <2>4
<1>8. CASE ComposerFocus
  <2>1. call' \in [RequestKinds -> Calls]
    BY <1>0, <1>8, SendFacts DEF ComposerFocus
  <2>2. row' \in Rows /\ row'.known = row.known /\ row'.seq = row.seq
    BY <1>8, AttnGone DEF ComposerFocus
  <2>b. PICK base : base = Later(seen, row.seq)
    OBVIOUS
  <2>3. /\ viewed' = viewed /\ viewed /\ row.known /\ held' = 0 /\ MarkSeen(base)
        /\ UNCHANGED <<server, log, stream, cursor, lost>>
    BY <1>8, <2>b DEF ComposerFocus, outside
  <2>r. row.seq \in Nat
    BY DEF Rows
  <2>4. base \in Nat /\ (base <= screened \/ base <= row'.seq)
    BY <2>b, <2>2, <2>r DEF Later
  <2>5. viewed' \in BOOLEAN /\ held' \in Nat
    BY <2>3
  <2>6. seen' \in Nat /\ screened' \in Nat /\ seen' <= screened'
    BY <2>2, <2>3, <2>4, <2>5, Marked
  <2> QED BY <2>1, <2>2, <2>3, <2>5, <2>6
<1>9. CASE DismissAll
  <2>1. call' \in [RequestKinds -> Calls]
    BY <1>0, <1>9, SendFacts DEF DismissAll
  <2>2. row' \in Rows
    BY <1>9, AttnGone DEF DismissAll
  <2>3. /\ held' = 0 /\ seen' = Later(row.seq, IF row.seq = 0 THEN seen ELSE 0)
        /\ screened' = Later(screened, row.seq)
        /\ UNCHANGED <<server, log, stream, cursor, lost, viewed>>
    BY <1>9 DEF DismissAll, outside
  <2>s. row.seq \in Nat
    BY DEF Rows
  <2>4. seen' \in Nat /\ screened' \in Nat /\ seen' <= screened'
    BY <2>3, <2>s DEF Later
  <2> QED BY <2>1, <2>2, <2>3, <2>4
<1> QED BY <1>1, <1>2, <1>3, <1>4, <1>5, <1>6, <1>7, <1>8, <1>9 DEF UserSteps

LEMMA TakenOverTypes ==
  ASSUME row \in Rows, lost \in Nat, NEW snap \in Snaps, TakenOver(snap)
  PROVE  lost' \in Nat
<1>1. row.seq \in Nat
  BY DEF Rows
<1> QED BY <1>1 DEF TakenOver, Later

LEMMA FromListTypes ==
  ASSUME row \in Rows, lost \in Nat, NEW snap \in Snaps, FromList(snap)
  PROVE  row' \in Rows /\ lost' \in Nat
<1>0. row.seq \in Nat /\ \A known \in BOOLEAN : RowOf(known, snap) \in Rows
  BY ListTypes DEF Rows
<1>1. CASE Excluded(snap) /\ row.seq > snap.seq
  <2>1. row' = [row EXCEPT !.known = FALSE] /\ lost' \in {lost, Later(lost, row.seq)}
    BY <1>1 DEF FromList, Missed
  <2>2. row' \in Rows
    BY <2>1 DEF Rows
  <2> QED BY <1>0, <2>1, <2>2 DEF Later
<1>2. CASE Excluded(snap) /\ ~(row.seq > snap.seq)
  <2>1. row' = RowOf(FALSE, snap) /\ TakenOver(snap)
    BY <1>2 DEF FromList
  <2> QED BY <1>0, <2>1, TakenOverTypes
<1>3. CASE ~Excluded(snap)
  <2>1. row' = PreferFresher(snap) /\ (lost' = lost \/ TakenOver(snap))
    BY <1>3 DEF FromList
  <2>2. row' \in Rows
    BY <1>0, <2>1 DEF PreferFresher
  <2> QED BY <2>1, <2>2, TakenOverTypes
<1> QED BY <1>1, <1>2, <1>3

LEMMA AnswerTypes ==
  ASSUME ListTypeOK, Answers
  PROVE  ListTypeOK'
<1> USE DEF ListTypeOK
<1>0. RequestKinds = {"list", "get", "submit", "pin", "archive", "attention", "dismiss"}
  BY DEF RequestKinds
<1>k. \A k \in RequestKinds : call[k] \in Calls /\ call[k].snap \in Snaps
  BY DEF Calls
<1>r. row.seq \in Nat
  BY DEF Rows
<1>s. \A known \in BOOLEAN, snap \in Snaps : RowOf(known, snap) \in Rows
  BY ListTypes
<1>m. ASSUME row' \in Rows, MarkSeen(seen), held' = held, viewed' \in BOOLEAN
      PROVE  seen' \in Nat /\ screened' \in Nat /\ seen' <= screened'
  <2>1. held' \in Nat
    BY <1>m
  <2> QED BY <1>m, <2>1, Marked
<1>l. ASSUME NEW c \in Calls PROVE c.snap \in Snaps /\ c.snap.seq \in Nat /\ MovedBy(c) \in Nat
  <2>1. c.snap \in Snaps /\ c.snap.seq \in Nat
    BY DEF Calls, Snaps
  <2> QED BY <2>1 DEF MovedBy, Later
<1>1. CASE ApplyList
  <2>c. PICK c : c = call["list"]
    OBVIOUS
  <2>0. c \in Calls /\ c.snap \in Snaps
    BY <1>0, <1>k, <2>c
  <2>1. UNCHANGED <<held, server, log, cursor>> /\ MarkSeen(seen)
    BY <1>1 DEF ApplyList
  <2>2. CASE c.ok
    <3>1. /\ FromList(c.snap)
          /\ stream' = [at |-> MovedBy(c), open |-> TRUE]
          /\ Done("list") /\ viewed' = (viewed /\ ~Excluded(c.snap))
      BY <1>1, <2>c, <2>2 DEF ApplyList
    <3>2. row' \in Rows /\ lost' \in Nat
      BY <2>0, <3>1, FromListTypes
    <3>3. stream' \in [at : Nat, open : BOOLEAN]
      BY <1>l, <2>0, <3>1
    <3>4. call' \in [RequestKinds -> Calls]
      BY <1>0, <3>1, DoneFacts
    <3>6. viewed' \in BOOLEAN
      BY <3>1
    <3>7. seen' \in Nat /\ screened' \in Nat /\ seen' <= screened'
      BY <1>m, <2>1, <3>2, <3>6
    <3> QED BY <2>1, <3>2, <3>3, <3>4, <3>6, <3>7
  <2>3. CASE ~c.ok
    <3>1. /\ call' = [call EXCEPT !["list"] = [c EXCEPT !.st = "sent"]]
          /\ UNCHANGED <<row, stream, lost, viewed>>
      BY <1>1, <2>c, <2>3 DEF ApplyList
    <3>2. [c EXCEPT !.st = "sent"] \in Calls
      BY <2>0, ListTypes DEF Calls
    <3>3. call' \in [RequestKinds -> Calls]
      BY <1>0, <3>1, <3>2
    <3>4. row' \in Rows /\ viewed' \in BOOLEAN
      BY <2>1, <3>1
    <3>5. seen' \in Nat /\ screened' \in Nat /\ seen' <= screened'
      BY <1>m, <2>1, <3>4
    <3> QED BY <2>1, <3>1, <3>3, <3>5
  <2> QED BY <2>2, <2>3
<1>i. CASE IncludeSelected
  <2>c. PICK c : c = call["list"]
    OBVIOUS
  <2>0. c \in Calls /\ c.snap \in Snaps
    BY <1>0, <1>k, <2>c
  <2>d. PICK d : d = [c EXCEPT !.st = "sent", !.resync = FALSE, !.asked = TRUE]
    OBVIOUS
  <2>1. d \in Calls
    BY <2>0, <2>d DEF Calls
  <2>2. /\ stream' = [stream EXCEPT !.at = MovedBy(c)] /\ call' = [call EXCEPT !["list"] = d]
        /\ UNCHANGED <<server, log, cursor, row, viewed, seen, held, screened, lost>>
    BY <1>i, <2>c, <2>d DEF IncludeSelected
  <2>3. stream' \in [at : Nat, open : BOOLEAN]
    <3>m. PICK m : m = MovedBy(c)
      OBVIOUS
    <3>1. m \in Nat /\ stream' = [stream EXCEPT !.at = m]
      BY <1>l, <2>0, <2>2, <3>m
    <3> QED BY <3>1
  <2>4. call' \in [RequestKinds -> Calls]
    BY <1>0, <2>1, <2>2
  <2> QED BY <2>2, <2>3, <2>4
<1>2. ASSUME NEW k \in RequestKinds, Done(k) \/ (k = "archive" /\ ThenGet(k)),
             row' \in Rows, lost' \in Nat, viewed' \in BOOLEAN, held' = held, MarkSeen(seen),
             UNCHANGED outside
      PROVE  ListTypeOK'
  <2>1. call' \in [RequestKinds -> Calls]
    BY <1>2, DoneFacts, ThenGetFacts
  <2>2. seen' \in Nat /\ screened' \in Nat /\ seen' <= screened'
    BY <1>m, <1>2
  <2> QED BY <1>2, <2>1, <2>2 DEF outside
<1>3. ASSUME NEW snap \in Snaps, ApplySession(snap)
      PROVE  row' \in Rows /\ lost' \in Nat
  <2>1. row' \in Rows
    BY <1>s, <1>3 DEF ApplySession
  <2> QED BY <1>3, <2>1, TakenOverTypes DEF ApplySession
<1>4. CASE ApplyGet
  <2>1. row' \in Rows /\ lost' \in Nat
    <3>1. CASE call["get"].ok
      BY <1>0, <1>k, <1>3, <1>4, <3>1 DEF ApplyGet
    <3>2. CASE ~call["get"].ok
      <4>1. row' = row /\ lost' \in {lost, Later(lost, row.seq)}
        BY <1>4, <3>2 DEF ApplyGet, Missed
      <4> QED BY <1>r, <4>1 DEF Later
    <3> QED BY <3>1, <3>2
  <2>2. /\ Done("get") /\ viewed' = viewed /\ held' = held /\ MarkSeen(seen) /\ UNCHANGED outside
    BY <1>4 DEF ApplyGet
  <2>3. viewed' \in BOOLEAN
    BY <2>2
  <2> QED BY <1>0, <1>2, <2>1, <2>2, <2>3
<1>5. CASE ApplySubmit
  <2>c. PICK c : c = call["submit"]
    OBVIOUS
  <2>0. c \in Calls /\ c.snap \in Snaps /\ c.snap.status \in {"idle", "running", "failed"}
    BY <1>0, <1>k, <2>c DEF Snaps
  <2>1. row' \in {row, [row EXCEPT !.status = c.snap.status]} /\ lost' \in {lost, Later(lost, row.seq)}
    BY <1>5, <2>c DEF ApplySubmit
  <2>2. row' \in Rows
    BY <2>0, <2>1 DEF Rows
  <2>3. lost' \in Nat
    BY <1>r, <2>1 DEF Later
  <2>4. /\ Done("submit") /\ viewed' = viewed /\ held' = held /\ MarkSeen(seen) /\ UNCHANGED outside
    BY <1>5 DEF ApplySubmit
  <2>5. viewed' \in BOOLEAN
    BY <2>4
  <2> QED BY <1>0, <1>2, <2>2, <2>3, <2>4, <2>5
<1>6. CASE ApplyPin
  <2>c. PICK c : c = call["pin"]
    OBVIOUS
  <2>0. c \in Calls /\ c.snap \in Snaps /\ c.was \in {"no", "guess", "yes"}
    BY <1>0, <1>k, <2>c DEF Calls
  <2>1. row' \in Rows /\ lost' \in Nat
    <3>1. CASE c.ok
      BY <1>3, <1>6, <2>c, <2>0, <3>1 DEF ApplyPin
    <3>2. CASE ~c.ok
      <4>1. row' \in {row, [row EXCEPT !.pinned = c.was]} /\ lost' \in {lost, Later(lost, row.seq)}
        BY <1>6, <2>c, <3>2 DEF ApplyPin, Missed
      <4>2. row' \in Rows
        BY <2>0, <4>1 DEF Rows
      <4> QED BY <1>r, <4>1, <4>2 DEF Later
    <3> QED BY <3>1, <3>2
  <2>2. /\ Done("pin") /\ viewed' = viewed /\ held' = held /\ MarkSeen(seen) /\ UNCHANGED outside
    BY <1>6 DEF ApplyPin
  <2>3. viewed' \in BOOLEAN
    BY <2>2
  <2> QED BY <1>0, <1>2, <2>1, <2>2, <2>3
<1>7. CASE ApplyArchive
  <2>c. PICK c : c = call["archive"]
    OBVIOUS
  <2>0. c.snap \in Snaps
    BY <1>0, <1>k, <2>c
  <2>1. row' \in Rows /\ lost' \in Nat /\ viewed' \in BOOLEAN
    <3>1. CASE c.ok
      <4>1. /\ viewed' = (c.was = "yes") /\ TakenOver(c.snap)
            /\ row' \in {RowOf(FALSE, c.snap), RowOf(TRUE, c.snap)}
        BY <1>7, <2>c, <3>1 DEF ApplyArchive
      <4>2. row' \in Rows
        BY <1>s, <2>0, <4>1
      <4> QED BY <2>0, <4>1, <4>2, TakenOverTypes
    <3>2. CASE ~c.ok
      BY <1>7, <2>c, <3>2 DEF ApplyArchive
    <3> QED BY <3>1, <3>2
  <2>2. /\ Done("archive") \/ ThenGet("archive")
        /\ held' = held /\ MarkSeen(seen) /\ UNCHANGED outside
    BY <1>7 DEF ApplyArchive
  <2> QED BY <1>0, <1>2, <2>1, <2>2
<1>8. CASE ApplyAttention
  <2>c. PICK c : c = call["attention"]
    OBVIOUS
  <2>0. c.snap \in Snaps
    BY <1>0, <1>k, <2>c
  <2>1. (row' = RowOf(TRUE, c.snap) /\ TakenOver(c.snap)) \/ (row' = row /\ lost' = lost)
    BY <1>8, <2>c DEF ApplyAttention
  <2>2. row' \in Rows
    BY <1>s, <2>0, <2>1
  <2>3. lost' \in Nat
    BY <2>0, <2>1, TakenOverTypes
  <2>4. /\ Done("attention") /\ viewed' = viewed /\ held' = held /\ MarkSeen(seen) /\ UNCHANGED outside
    BY <1>8 DEF ApplyAttention
  <2>5. viewed' \in BOOLEAN
    BY <2>4
  <2> QED BY <1>0, <1>2, <2>2, <2>3, <2>4, <2>5
<1>9. CASE ApplyDismiss
  <2>1. Done("dismiss")
        \/ call' = [call EXCEPT !["dismiss"].st = "idle", !["list"] = [NoCall EXCEPT !.st = "sent"]]
    BY <1>9 DEF ApplyDismiss
  <2>2. call' \in [RequestKinds -> Calls]
    <3>1. CASE Done("dismiss")
      BY <1>0, <3>1, DoneFacts
    <3>2. CASE call' = [call EXCEPT !["dismiss"].st = "idle", !["list"] = [NoCall EXCEPT !.st = "sent"]]
      <4>c. PICK c : c = [NoCall EXCEPT !.st = "sent"]
        OBVIOUS
      <4>d. PICK d : d = [call["dismiss"] EXCEPT !.st = "idle"]
        OBVIOUS
      <4>1. c \in Calls /\ d \in Calls
        BY <1>0, <1>k, <4>c, <4>d, ListTypes DEF Calls
      <4>2. call' = [call EXCEPT !["dismiss"] = d, !["list"] = c]
        BY <1>0, <3>2, <4>c, <4>d
      <4> QED BY <4>1, <4>2
    <3> QED BY <2>1, <3>1, <3>2
  <2> QED BY <1>9, <2>2 DEF ApplyDismiss, outside
<1> QED BY <1>1, <1>i, <1>4, <1>5, <1>6, <1>7, <1>8, <1>9 DEF Answers

LEMMA ListTypesKept ==
  ASSUME ListTypeOK, [ListNext]_listVars
  PROVE  ListTypeOK'
<1>1. CASE HistoryRead
  <2>1. server.seq \in Nat
    BY DEF ListTypeOK, Snaps
  <2> QED BY <1>1, <2>1 DEF HistoryRead, ListTypeOK
<1>2. CASE Resync
  <2>c. PICK c : c = [NoCall EXCEPT !.st = "sent", !.resync = TRUE]
    OBVIOUS
  <2>1. c \in Calls
    BY <2>c, ListTypes DEF Calls, NoCall
  <2>2. call' = [call EXCEPT !["list"] = c] /\ stream' = [stream EXCEPT !.open = FALSE]
    BY <1>2, <2>c DEF Resync
  <2>3. call' \in [RequestKinds -> Calls]
    BY <2>1, <2>2 DEF ListTypeOK
  <2>4. stream' \in [at : Nat, open : BOOLEAN]
    BY <2>2 DEF ListTypeOK
  <2> QED BY <1>2, <2>3, <2>4 DEF Resync, ListTypeOK
<1>3. CASE UNCHANGED listVars
  BY <1>3 DEF listVars, ListTypeOK
<1> QED BY <1>1, <1>2, <1>3, ServerTypes, DeliverTypes, UserTypes, AnswerTypes DEF ListNext

LEMMA ListStarts ==
  ASSUME ListInit
  PROVE  ListIInv
<1>c. PICK c : c = [NoCall EXCEPT !.st = "sent", !.resync = TRUE]
  OBVIOUS
<1>1. c \in Calls /\ c.snap = NoSession /\ NoCall.snap = NoSession /\ NoCall.st = "idle"
  BY <1>c, ListTypes DEF Calls, NoCall
<1>2. /\ \A k \in RequestKinds : call[k] = c \/ call[k] = NoCall
      /\ call["list"] = c
      /\ call \in [RequestKinds -> Calls]
      /\ call["pin"] = NoCall
  BY <1>c, <1>1, ListTypes DEF ListInit, RequestKinds
<1>3. /\ server = NoSession /\ log = <<>> /\ stream = [at |-> 0, open |-> FALSE] /\ cursor = 0
      /\ row = RowOf(TRUE, NoSession) /\ viewed = FALSE /\ seen = 0 /\ held = 0
      /\ screened = 0 /\ lost = 0
  BY DEF ListInit
<1>4. /\ NoSession.seq = 0 /\ NoSession.status = "idle" /\ NoSession.pinned = "no"
      /\ NoSession.archived = FALSE
  BY DEF NoSession
<1>5. AsLogged(log, NoSession)
  <2>1. NoSession.archived <=> ArchivedOf(log, NoSession.seq)
    BY <1>4, LogStarts
  <2> QED BY <1>3, <1>4, <2>1, LogStarts DEF AsLogged
<1>6. /\ row \in Rows /\ row.known = TRUE /\ row.seq = 0 /\ row.status = "idle"
      /\ row.pinned = "no" /\ row.archived = FALSE
  BY <1>3, <1>4, ListTypes
<1>7. ListTypeOK
  <2>1. log \in Seq(EventTypes)
    BY <1>3
  <2>2. seen <= screened
    BY <1>3
  <2> QED BY <1>2, <1>3, <1>6, <2>1, <2>2, ListTypes DEF ListTypeOK
<1>8. RowStands(log, row, call["pin"], Fetching)
  <2>0. Len(log) = 0
    BY <1>3
  <2>1. 0 \in row.seq .. Len(log) /\ row.status = StatusOf(log, 0)
    BY <1>6, <2>0, LogStarts
  <2>2. row.archived <=> ArchivedOf(log, row.seq)
    BY <1>6, LogStarts
  <2> QED BY <1>1, <1>2, <1>6, <2>1, <2>2, LogStarts DEF RowStands
<1>9. \A k \in RequestKinds : AsLogged(log, call[k].snap)
  BY <1>1, <1>2, <1>5
<1>10. server.seq = Len(log) /\ row.seq <= Len(log)
       /\ Reached(stream, call["list"], Later(lost, row.seq))
  <2>1. Len(log) = 0 /\ stream.at = 0 /\ ~stream.open
    BY <1>3
  <2>2. server.seq = 0
    BY <1>3, <1>4
  <2>3. Later(lost, row.seq) = 0
    BY <1>3, <1>6 DEF Later
  <2>4. Reached(stream, call["list"], Later(lost, row.seq))
    BY <2>1, <2>3 DEF Reached
  <2> QED BY <1>6, <2>1, <2>2, <2>4
<1> QED BY <1>3, <1>5, <1>7, <1>8, <1>9, <1>10 DEF ListIInv

-----------------------------------------------------------------------------
(* The log grows. *)

LEMMA AsLoggedKept ==
  ASSUME NEW l \in Seq(EventTypes), NEW type \in EventTypes, NEW s \in Snaps, AsLogged(l, s)
  PROVE  AsLogged(Append(l, type), s)
<1>1. s.seq \in 0 .. Len(l)
  BY DEF AsLogged, Snaps
<1>2. PICK m : m = Append(l, type)
  OBVIOUS
<1>3. Len(m) = Len(l) + 1
  BY <1>2
<1>4. /\ StatusOf(m, s.seq) = StatusOf(l, s.seq) /\ PinnedOf(m, s.seq) = PinnedOf(l, s.seq)
      /\ ArchivedOf(m, s.seq) <=> ArchivedOf(l, s.seq)
  BY <1>1, <1>2, LogKeeps
<1>5. s.seq <= Len(m)
  BY <1>1, <1>3
<1>6. AsLogged(m, s)
  BY <1>4, <1>5 DEF AsLogged
<1> QED BY <1>2, <1>6

LEMMA StandsKept ==
  ASSUME NEW l \in Seq(EventTypes), NEW type \in EventTypes, NEW r \in Rows, r.seq <= Len(l),
         NEW pin, NEW fetching \in BOOLEAN, RowStands(l, r, pin, fetching)
  PROVE  RowStands(Append(l, type), r, pin, fetching)
<1>1. r.seq \in 0 .. Len(l)
  BY DEF Rows
<1>2. PICK m : m = Append(l, type)
  OBVIOUS
<1>3. Len(m) = Len(l) + 1
  BY <1>2
<1>4. ASSUME NEW n \in 0 .. Len(l)
      PROVE  /\ StatusOf(m, n) = StatusOf(l, n) /\ PinnedOf(m, n) = PinnedOf(l, n)
             /\ ArchivedOf(m, n) <=> ArchivedOf(l, n)
  BY <1>2, LogKeeps
<1>5. ASSUME NEW n \in r.seq .. Len(l) PROVE n \in r.seq .. Len(m) /\ n \in 0 .. Len(l)
  BY <1>1, <1>3
<1>6. r.known => \E n \in r.seq .. Len(m) : r.status = StatusOf(m, n)
  <2>1. ASSUME r.known PROVE \E n \in r.seq .. Len(m) : r.status = StatusOf(m, n)
    <3>1. PICK n \in r.seq .. Len(l) : r.status = StatusOf(l, n)
      BY <2>1 DEF RowStands
    <3>2. r.status = StatusOf(m, n)
      BY <1>4, <1>5, <3>1
    <3> QED BY <1>5, <3>2
  <2> QED BY <2>1
<1>7. PinnedOf(m, r.seq) = PinnedOf(l, r.seq)
  BY <1>1, <1>4
<1>8. ArchivedOf(m, r.seq) <=> ArchivedOf(l, r.seq)
  BY <1>1, <1>4
<1>9. RowStands(m, r, pin, fetching)
  <2>1. r.known => (r.archived <=> ArchivedOf(m, r.seq))
    BY <1>8 DEF RowStands
  <2>2. r.known => (r.pinned = PinnedOf(m, r.seq) \/ (pin.st # "idle" /\ r.pinned = Optimistic(pin.was)))
    BY <1>7 DEF RowStands
  <2>3. ~r.known => r.seq >= 1 /\ (ArchivedOf(m, r.seq) \/ fetching)
    BY <1>8 DEF RowStands
  <2>4. (r.seq = 0 /\ pin.st # "idle") => pin.was = "no"
    BY DEF RowStands
  <2> QED BY <1>6, <2>1, <2>2, <2>3, <2>4 DEF RowStands
<1> QED BY <1>2, <1>9

(* A row that only a wait for an answer is written on: another answer is
   waited for, or one more. *)
LEMMA StandsWith ==
  ASSUME NEW l, NEW r, NEW pin, NEW fetching, RowStands(l, r, pin, fetching),
         NEW q, NEW more, NEW s,
         pin.st # "idle" <=> q.st # "idle", q.was = pin.was, fetching => more,
         s.known = r.known, s.seq = r.seq, s.status = r.status, s.pinned = r.pinned,
         s.archived = r.archived
  PROVE  RowStands(l, s, q, more)
<1>1. s.known => \E k \in s.seq .. Len(l) : s.status = StatusOf(l, k)
  BY DEF RowStands
<1>2. s.known => (s.archived <=> ArchivedOf(l, s.seq))
  BY DEF RowStands
<1>3. s.known => (s.pinned = PinnedOf(l, s.seq) \/ (q.st # "idle" /\ s.pinned = Optimistic(q.was)))
  BY DEF RowStands
<1>4. ~s.known => s.seq >= 1 /\ (ArchivedOf(l, s.seq) \/ more)
  BY DEF RowStands
<1>5. (s.seq = 0 /\ q.st # "idle") => q.was = "no"
  BY DEF RowStands
<1> QED BY <1>1, <1>2, <1>3, <1>4, <1>5 DEF RowStands

LEMMA ServerLogged ==
  ASSUME server \in Snaps, log \in Seq(EventTypes), server.seq = Len(log), AsLogged(log, server),
         NEW type \in EventTypes, NEW s, s.seq = WithEvent(type).seq,
         s.status = WithEvent(type).status, s.pinned = WithEvent(type).pinned,
         s.archived = WithEvent(type).archived
  PROVE  s.seq = Len(Append(log, type)) /\ AsLogged(Append(log, type), s)
<1>m. PICK m : m = Append(log, type)
  OBVIOUS
<1>n. PICK n : n = Len(log) + 1
  OBVIOUS
<1>1. m \in Seq(EventTypes) /\ Len(m) = n /\ n \in 1 .. Len(m) /\ m[n] = type
      /\ n - 1 = Len(log) /\ Len(log) \in 0 .. Len(log)
  BY <1>m, <1>n
<1>2. s.seq = n
  BY <1>n, OneMore
<1>3. StatusOf(m, n - 1) = server.status /\ PinnedOf(m, n - 1) = server.pinned
  BY <1>1, <1>m, LogKeeps DEF AsLogged
<1>4. ArchivedOf(m, n - 1) <=> server.archived
  BY <1>1, <1>m, LogKeeps DEF AsLogged
<1>5. s.status = StatusOf(m, n)
  <2>1. s.status = CASE type = "started" -> "running" [] type = "completed" -> "idle"
                     [] type = "failed" -> "failed" [] OTHER -> server.status
    BY OneMore
  <2>2. StatusOf(m, n) = CASE type = "started" -> "running" [] type = "completed" -> "idle"
                           [] type = "failed" -> "failed" [] OTHER -> StatusOf(m, n - 1)
    BY <1>1, LogGrows
  <2> QED BY <1>3, <2>1, <2>2
<1>6. s.pinned = PinnedOf(m, n)
  <2>1. s.pinned = IF type = "pinned" THEN "yes" ELSE IF type = "unpinned" THEN "no"
                   ELSE server.pinned
    BY OneMore
  <2>2. PinnedOf(m, n) = IF type = "pinned" THEN "yes" ELSE IF type = "unpinned" THEN "no"
                         ELSE PinnedOf(m, n - 1)
    BY <1>1, LogGrows
  <2> QED BY <1>3, <2>1, <2>2
<1>7. s.archived <=> ArchivedOf(m, n)
  <2>1. s.archived <=> (type = "archived" \/ (type # "restored" /\ server.archived))
    BY OneMore
  <2>2. ArchivedOf(m, n) <=> (type = "archived" \/ (type \notin {"archived", "restored"}
                                                   /\ ArchivedOf(m, n - 1)))
    BY <1>1, LogGrows
  <2> QED BY <1>4, <2>1, <2>2
<1>8. AsLogged(m, s)
  BY <1>1, <1>2, <1>5, <1>6, <1>7 DEF AsLogged
<1> QED BY <1>1, <1>2, <1>8, <1>m

(* The parts of the invariant that speak of the page, in the next state. *)
PageStands == /\ row.seq <= Len(log)
              /\ Reached(stream, call["list"], Later(lost, row.seq))
              /\ lost = 0 => RowStands(log, row, call["pin"], Fetching)

LEMMA ReachedKept ==
  ASSUME NEW s, s.at \in Nat, NEW c \in Calls, NEW d \in Calls, NEW n \in Nat, NEW m \in Nat,
         n <= m, Reached(s, c, n), OnTheWay(c, d)
  PROVE  Reached(s, d, m)
<1>1. c.snap.seq \in Nat /\ d.snap.seq \in Nat
  BY DEF Calls, Snaps
<1> QED BY <1>1 DEF Reached, OnTheWay

LEMMA PageGrows ==
  ASSUME ListIInv, NEW type \in EventTypes, log' = log \/ log' = Append(log, type),
         UNCHANGED <<stream, row, lost>>,
         call' \in [RequestKinds -> Calls], OnTheWay(call["list"], call'["list"]),
         call["pin"].st # "idle" <=> call'["pin"].st # "idle", call'["pin"].was = call["pin"].was,
         Fetching => Fetching'
  PROVE  PageStands' /\ \A s \in Snaps : AsLogged(log, s) => AsLogged(log', s)
<1> USE DEF ListTypeOK
<1>1. /\ log \in Seq(EventTypes) /\ row \in Rows /\ row.seq <= Len(log) /\ row.seq \in Nat
      /\ Reached(stream, call["list"], Later(lost, row.seq))
      /\ stream.at \in Nat /\ lost \in Nat
  BY DEF ListIInv, Rows
<1>2. row'.seq <= Len(log')
  <2>1. Len(log') \in {Len(log), Len(log) + 1}
    BY <1>1
  <2>2. row'.seq = row.seq /\ Len(log) \in Nat
    BY <1>1
  <2> QED BY <1>1, <2>1, <2>2
<1>3. Reached(stream', call'["list"], Later(lost', row'.seq))
  <2>c. PICK c, d : c = call["list"] /\ d = call'["list"]
    OBVIOUS
  <2>n. PICK n : n = Later(lost, row.seq)
    OBVIOUS
  <2>1. c \in Calls /\ d \in Calls /\ n \in Nat /\ n <= n
    BY <1>1, <2>c, <2>n DEF ListIInv, RequestKinds, Later
  <2>2. Reached(stream, d, n)
    BY <1>1, <2>c, <2>n, <2>1, ReachedKept
  <2> QED BY <2>c, <2>n, <2>2
<1>4. ASSUME lost' = 0 PROVE RowStands(log', row', call'["pin"], Fetching')
  <2>1. RowStands(log, row, call["pin"], Fetching)
    BY <1>4 DEF ListIInv
  <2>f. Fetching \in BOOLEAN
    BY DEF Fetching
  <2>p. PICK p : p = call["pin"]
    OBVIOUS
  <2>q. PICK q : q = call'["pin"]
    OBVIOUS
  <2>2. RowStands(log', row, p, Fetching)
    <3>1. CASE log' = log
      BY <2>1, <2>p, <3>1
    <3>2. CASE log' = Append(log, type)
      <4>1. RowStands(Append(log, type), row, p, Fetching)
        BY <1>1, <2>1, <2>f, <2>p, StandsKept
      <4> QED BY <3>2, <4>1
    <3> QED BY <3>1, <3>2
  <2>3. RowStands(log', row', q, Fetching')
    <3>1. (p.st # "idle" <=> q.st # "idle") /\ q.was = p.was
      BY <2>p, <2>q
    <3>2. row' = row
      OBVIOUS
    <3> QED BY <2>2, <3>1, <3>2, StandsWith
  <2> QED BY <2>3, <2>q
<1>5. ASSUME NEW s \in Snaps, AsLogged(log, s) PROVE AsLogged(log', s)
  BY <1>1, <1>5, AsLoggedKept
<1> QED BY <1>2, <1>3, <1>4, <1>5 DEF PageStands

LEMMA ServerTruth ==
  ASSUME ListIInv, ServerSteps
  PROVE  ListIInv'
<1> USE DEF ListTypeOK
<1>t. ListTypeOK'
  BY ServerTypes DEF ListIInv
<1>1. /\ server \in Snaps /\ log \in Seq(EventTypes) /\ server.seq = Len(log)
      /\ AsLogged(log, server) /\ call \in [RequestKinds -> Calls]
      /\ \A k \in RequestKinds : AsLogged(log, call[k].snap) /\ call[k].snap \in Snaps
  BY DEF ListIInv, Calls
<1>2. ASSUME NEW type \in EventTypes, log' = log \/ log' = Append(log, type),
             server'.seq = Len(log'), AsLogged(log', server'),
             UNCHANGED <<stream, row, lost>>, OnTheWay(call["list"], call'["list"]),
             call["pin"].st # "idle" <=> call'["pin"].st # "idle",
             call'["pin"].was = call["pin"].was,
             Fetching => Fetching',
             \A k \in RequestKinds : call'[k].snap \in {call[k].snap, server, server', NoSession}
      PROVE  ListIInv'
  <2>0. call' \in [RequestKinds -> Calls]
    BY <1>t
  <2>1. PageStands' /\ \A s \in Snaps : AsLogged(log, s) => AsLogged(log', s)
    BY <1>2, <2>0, PageGrows
  <2>2. AsLogged(log', NoSession)
    <3>1. AsLogged(log, NoSession)
      <4>1. /\ NoSession.seq = 0 /\ NoSession.status = "idle" /\ NoSession.pinned = "no"
            /\ NoSession.archived = FALSE
        BY DEF NoSession
      <4>2. NoSession.archived <=> ArchivedOf(log, NoSession.seq)
        BY <4>1, LogStarts
      <4> QED BY <1>1, <4>1, <4>2, LogStarts DEF AsLogged
    <3> QED BY <2>1, <3>1, ListTypes
  <2>3. ASSUME NEW k \in RequestKinds PROVE AsLogged(log', call'[k].snap)
    BY <1>1, <1>2, <2>1, <2>2
  <2> QED BY <1>t, <1>2, <2>1, <2>3 DEF ListIInv, PageStands
<1>u. ASSUME UNCHANGED call PROVE OnTheWay(call["list"], call'["list"])
  <2>1. call["list"].snap.seq \in Nat
    BY <1>1 DEF RequestKinds, Snaps
  <2> QED BY <1>u, <2>1 DEF OnTheWay
<1>3. CASE RunEnds
  <2>1. PICK type \in Terminal, notify \in BOOLEAN :
          /\ log' = Append(log, type)
          /\ server' = [WithEvent(type) EXCEPT !.attn = IF notify THEN server.seq + 1 ELSE @]
    BY <1>3 DEF RunEnds
  <2>2. type \in EventTypes
    BY DEF Terminal, EventTypes
  <2>3. WithEvent(type) \in Snaps
    BY <1>1, <2>2, OneMore
  <2>4. /\ server'.seq = WithEvent(type).seq /\ server'.status = WithEvent(type).status
        /\ server'.pinned = WithEvent(type).pinned
    BY <2>1, <2>3 DEF Snaps
  <2>5. server'.archived = WithEvent(type).archived
    BY <2>1, <2>3 DEF Snaps
  <2>6. server'.seq = Len(log') /\ AsLogged(log', server')
    BY <1>1, <2>1, <2>2, <2>4, <2>5, ServerLogged
  <2>7. UNCHANGED <<stream, row, lost, call>>
    BY <1>3 DEF RunEnds
  <2> QED BY <1>2, <1>u, <2>1, <2>2, <2>6, <2>7 DEF Fetching
<1>w. ASSUME NEW type \in EventTypes, Write(type)
      PROVE  log' = Append(log, type) /\ server'.seq = Len(log') /\ AsLogged(log', server')
  <2>1. log' = Append(log, type) /\ server' = WithEvent(type)
    BY <1>w DEF Write
  <2>2. WithEvent(type).seq = Len(Append(log, type)) /\ AsLogged(Append(log, type), WithEvent(type))
    BY <1>1, ServerLogged
  <2> QED BY <2>1, <2>2
<1>4. CASE RunStarts
  <2>1. "started" \in EventTypes
    BY DEF EventTypes
  <2>2. UNCHANGED <<stream, row, lost, call>> /\ Write("started")
    BY <1>4 DEF RunStarts
  <2> QED BY <1>2, <1>u, <1>w, <2>1, <2>2 DEF Fetching
<1>7. CASE MovedElsewhere
  <2>1. PICK type \in {"archived", "restored"} : Write(type)
    BY <1>7 DEF MovedElsewhere
  <2>2. UNCHANGED <<stream, row, lost, call>>
    BY <1>7 DEF MovedElsewhere
  <2>3. type \in EventTypes
    BY DEF EventTypes
  <2> QED BY <1>2, <1>u, <1>w, <2>1, <2>2, <2>3 DEF Fetching
<1>a. ASSUME NEW k \in RequestKinds, NEW c, call' = [call EXCEPT ![k] = c],
             call[k].st # "idle", c.st = "answered",
             c.was = call[k].was, c.resync = call[k].resync, c.asked = call[k].asked,
             (k = "list" /\ c.asked) => call[k].snap.seq <= c.snap.seq
      PROVE  /\ call["pin"].st # "idle" <=> call'["pin"].st # "idle"
             /\ call'["pin"].was = call["pin"].was
             /\ Fetching => Fetching'
             /\ OnTheWay(call["list"], call'["list"])
             /\ \A j \in RequestKinds : call'[j].snap \in {call[j].snap, c.snap}
  <2>3. call'[k] = c /\ \A j \in RequestKinds \ {k} : call'[j] = call[j]
    BY <1>1, <1>a
  <2>4. "pin" \in RequestKinds /\ "get" \in RequestKinds /\ "list" \in RequestKinds
    BY DEF RequestKinds
  <2>5. call["pin"].st # "idle" <=> call'["pin"].st # "idle"
    BY <1>a, <2>3, <2>4
  <2>6. call'["pin"].was = call["pin"].was
    BY <1>a, <2>3, <2>4
  <2>7. Fetching => Fetching'
    BY <1>a, <2>3, <2>4 DEF Fetching
  <2>8. \A j \in RequestKinds : call'[j].snap \in {call[j].snap, c.snap}
    BY <2>3
  <2>9. OnTheWay(call["list"], call'["list"])
    <3>1. CASE k # "list"
      <4>1. call["list"].snap.seq \in Nat
        BY <1>1, <2>4 DEF Snaps
      <4> QED BY <2>3, <2>4, <3>1, <4>1 DEF OnTheWay
    <3>2. CASE k = "list"
      BY <1>a, <2>3, <3>2 DEF OnTheWay
    <3> QED BY <3>1, <3>2
  <2> QED BY <2>5, <2>6, <2>7, <2>8, <2>9
<1>5. ASSUME NEW k \in RequestKinds, Serve(k) PROVE ListIInv'
  <2>0. call[k].st # "idle" /\ UNCHANGED <<stream, row, lost>>
    BY <1>5 DEF Serve
  <2>e. {"started", "pinned", "unpinned", "archived", "restored"} \subseteq EventTypes
    BY DEF EventTypes
  <2>1. \E type \in EventTypes :
          /\ log' = log \/ log' = Append(log, type)
          /\ server'.seq = Len(log') /\ AsLogged(log', server')
          /\ Answered(k, TRUE, server) \/ Answered(k, TRUE, server')
    <3>1. CASE k \in {"list", "get"}
      <4>1. server' = server /\ log' = log /\ Answered(k, TRUE, server)
        BY <1>5, <3>1 DEF Serve
      <4>2. server'.seq = Len(log') /\ AsLogged(log', server')
        BY <1>1, <4>1
      <4> QED BY <2>e, <4>1, <4>2
    <3>2. CASE k = "submit"
      <4>1. Answered(k, TRUE, server') /\ (Write("started") \/ (server' = server /\ log' = log))
        BY <1>5, <3>2 DEF Serve
      <4>2. CASE Write("started")
        BY <1>w, <2>e, <4>1, <4>2
      <4>3. CASE server' = server /\ log' = log
        BY <1>1, <2>e, <4>1, <4>3
      <4> QED BY <4>1, <4>2, <4>3
    <3>3. CASE k = "pin"
      <4>1. PICK type \in {"pinned", "unpinned"} : Write(type) /\ Answered(k, TRUE, server')
        BY <1>5, <3>3 DEF Serve
      <4> QED BY <1>w, <2>e, <4>1
    <3>4. CASE k = "archive"
      <4>1. PICK type \in {"archived", "restored"} : Write(type) /\ Answered(k, TRUE, server')
        BY <1>5, <3>4 DEF Serve
      <4> QED BY <1>w, <2>e, <4>1
    <3>5. CASE k \in {"attention", "dismiss"}
      <4>1. server' = [server EXCEPT !.attn = 0] /\ log' = log /\ Answered(k, TRUE, server')
        BY <1>5, <3>5 DEF Serve
      <4>2. /\ server'.seq = server.seq /\ server'.status = server.status
            /\ server'.pinned = server.pinned
        BY <1>1, <4>1 DEF Snaps
      <4>3. server'.archived = server.archived
        BY <1>1, <4>1 DEF Snaps
      <4>4. server'.archived <=> ArchivedOf(log, server.seq)
        BY <1>1, <4>3 DEF AsLogged
      <4>5. server'.seq = Len(log') /\ AsLogged(log', server')
        BY <1>1, <4>1, <4>2, <4>4 DEF AsLogged
      <4> QED BY <2>e, <4>1, <4>5
    <3> QED BY <3>1, <3>2, <3>3, <3>4, <3>5 DEF RequestKinds
  <2>2. PICK type \in EventTypes :
          /\ log' = log \/ log' = Append(log, type)
          /\ server'.seq = Len(log') /\ AsLogged(log', server')
          /\ Answered(k, TRUE, server) \/ Answered(k, TRUE, server')
    BY <2>1
  <2>s. PICK snap \in {server, server'} : Answered(k, TRUE, snap)
    BY <2>2
  <2>c. PICK c : c = [call[k] EXCEPT !.st = "answered", !.ok = TRUE, !.snap = snap]
    OBVIOUS
  <2>4. /\ c.st = "answered" /\ c.was = call[k].was /\ c.resync = call[k].resync
        /\ c.asked = call[k].asked /\ c.snap = snap
    BY <1>1, <2>c DEF Calls
  <2>5. call' = [call EXCEPT ![k] = c]
    BY <1>1, <2>s, <2>c DEF Answered
  <2>6. call[k].snap.seq <= snap.seq
    <3>1. call[k].snap.seq <= Len(log) /\ Len(log) \in Nat
      BY <1>1 DEF AsLogged
    <3>2. Len(log') \in {Len(log), Len(log) + 1}
      BY <1>1, <2>2
    <3>3. call[k].snap.seq \in Nat
      BY <1>1 DEF Snaps
    <3>4. snap.seq \in {Len(log), Len(log')}
      BY <1>1, <2>2, <2>s
    <3> QED BY <3>1, <3>2, <3>3, <3>4
  <2>3. /\ call["pin"].st # "idle" <=> call'["pin"].st # "idle"
        /\ call'["pin"].was = call["pin"].was
        /\ Fetching => Fetching'
        /\ OnTheWay(call["list"], call'["list"])
        /\ \A j \in RequestKinds : call'[j].snap \in {call[j].snap, snap}
    BY <1>a, <2>0, <2>4, <2>5, <2>6
  <2> QED BY <1>2, <2>0, <2>2, <2>3
<1>6. ASSUME NEW k \in RequestKinds, Refuse(k) PROVE ListIInv'
  <2>1. PICK conflict \in BOOLEAN :
          /\ call' = [call EXCEPT ![k] = [call[k] EXCEPT !.st = "answered", !.ok = FALSE,
                                                  !.snap = NoSession, !.conflict = conflict]]
          /\ call[k].st # "idle" /\ (k = "list" => ~call[k].asked)
    BY <1>6 DEF Refuse
  <2>c. PICK c : c = [call[k] EXCEPT !.st = "answered", !.ok = FALSE, !.snap = NoSession,
                                     !.conflict = conflict]
    OBVIOUS
  <2>2. /\ c.st = "answered" /\ c.was = call[k].was /\ c.resync = call[k].resync
        /\ c.asked = call[k].asked /\ c.snap = NoSession
    BY <1>1, <2>c DEF Calls
  <2>0. UNCHANGED <<stream, row, lost, server, log>>
    BY <1>6 DEF Refuse, outside
  <2>3. /\ call["pin"].st # "idle" <=> call'["pin"].st # "idle"
        /\ call'["pin"].was = call["pin"].was
        /\ Fetching => Fetching'
        /\ OnTheWay(call["list"], call'["list"])
        /\ \A j \in RequestKinds : call'[j].snap \in {call[j].snap, NoSession}
    BY <1>a, <2>1, <2>2, <2>c
  <2>4. "started" \in EventTypes
    BY DEF EventTypes
  <2> QED BY <1>1, <1>2, <2>0, <2>3, <2>4
<1>8. CASE IncludeFails
  <2>k. PICK k \in RequestKinds : k = "list"
    BY DEF RequestKinds
  <2>0. UNCHANGED <<stream, row, lost, server, log>> /\ call[k].st # "idle"
    BY <1>8, <2>k DEF IncludeFails, outside
  <2>c. PICK c : c = [call[k] EXCEPT !.st = "answered", !.ok = TRUE, !.snap = call[k].snap]
    OBVIOUS
  <2>2. /\ c.st = "answered" /\ c.was = call[k].was /\ c.resync = call[k].resync
        /\ c.asked = call[k].asked /\ c.snap = call[k].snap /\ c.snap.seq \in Nat
    BY <1>1, <2>c DEF Calls, Snaps
  <2>1. call' = [call EXCEPT ![k] = c]
    BY <1>1, <1>8, <2>k, <2>c DEF IncludeFails, Answered
  <2>3. /\ call["pin"].st # "idle" <=> call'["pin"].st # "idle"
        /\ call'["pin"].was = call["pin"].was
        /\ Fetching => Fetching'
        /\ OnTheWay(call["list"], call'["list"])
        /\ \A j \in RequestKinds : call'[j].snap \in {call[j].snap, call[k].snap}
    <3>1. call[k].snap.seq <= c.snap.seq
      BY <2>2
    <3> QED BY <1>a, <2>0, <2>1, <2>2, <3>1
  <2>4. \A j \in RequestKinds : call'[j].snap \in {call[j].snap, NoSession}
    <3>1. call'[k].snap = call[k].snap /\ \A j \in RequestKinds \ {k} : call'[j] = call[j]
      BY <1>1, <2>1, <2>2
    <3> QED BY <3>1
  <2>5. "started" \in EventTypes
    BY DEF EventTypes
  <2> QED BY <1>1, <1>2, <2>0, <2>3, <2>4, <2>5
<1> QED BY <1>3, <1>4, <1>5, <1>6, <1>7, <1>8 DEF ServerSteps

-----------------------------------------------------------------------------
(* The page's steps. *)

LEMMA PageTruth ==
  ASSUME ListIInv, ListTypeOK', PageStands', UNCHANGED <<server, log>>,
         \A k \in RequestKinds : call'[k].snap \in {call[k].snap, NoSession}
  PROVE  ListIInv'
<1>1. AsLogged(log, NoSession)
  <2>1. /\ NoSession.seq = 0 /\ NoSession.status = "idle" /\ NoSession.pinned = "no"
        /\ NoSession.archived = FALSE
    BY DEF NoSession
  <2>2. NoSession.archived <=> ArchivedOf(log, NoSession.seq)
    BY <2>1, LogStarts
  <2>3. Len(log) >= 0
    BY DEF ListIInv, ListTypeOK
  <2> QED BY <2>1, <2>2, <2>3, LogStarts DEF AsLogged
<1>2. \A k \in RequestKinds : AsLogged(log', call'[k].snap)
  BY <1>1 DEF ListIInv
<1>3. server'.seq = Len(log') /\ AsLogged(log', server')
  BY DEF ListIInv
<1> QED BY <1>2, <1>3 DEF ListIInv, PageStands

LEMMA RowKept ==
  ASSUME ListIInv, log' = log, lost' \in {lost, Later(lost, row.seq)},
         call' \in [RequestKinds -> Calls], stream'.at \in Nat,
         \/ stream' = stream /\ OnTheWay(call["list"], call'["list"])
         \/ Reached(stream', call'["list"], Later(lost, row.seq)),
         row'.known = row.known, row'.seq = row.seq, row'.status = row.status,
         row'.pinned = row.pinned, row'.archived = row.archived,
         call'["pin"] = call["pin"], Fetching => Fetching'
  PROVE  PageStands'
<1>1. lost \in Nat /\ row.seq \in Nat /\ stream.at \in Nat
  BY DEF ListIInv, ListTypeOK, Rows
<1>2. row'.seq <= Len(log')
  BY DEF ListIInv
<1>3. lost' = 0 => lost = 0
  BY <1>1 DEF Later
<1>5. Reached(stream', call'["list"], Later(lost', row'.seq))
  <2>c. PICK c, d : c = call["list"] /\ d = call'["list"]
    OBVIOUS
  <2>n. PICK n, m : n = Later(lost, row.seq) /\ m = Later(lost', row'.seq)
    OBVIOUS
  <2>1. c \in Calls /\ d \in Calls /\ n \in Nat /\ m \in Nat /\ n <= m
    BY <1>1, <2>c, <2>n DEF ListIInv, ListTypeOK, RequestKinds, Later
  <2>2. CASE stream' = stream /\ OnTheWay(c, d)
    <3>1. Reached(stream, d, m)
      BY <1>1, <2>c, <2>n, <2>1, <2>2, ReachedKept DEF ListIInv
    <3> QED BY <2>c, <2>n, <2>2, <3>1
  <2>3. CASE Reached(stream', d, n)
    BY <2>c, <2>n, <2>1, <2>3 DEF Reached
  <2> QED BY <2>c, <2>n, <2>2, <2>3
<1>4. ASSUME lost' = 0 PROVE RowStands(log', row', call'["pin"], Fetching')
  <2>1. RowStands(log, row, call["pin"], Fetching)
    BY <1>3, <1>4 DEF ListIInv
  <2>p. PICK p : p = call["pin"]
    OBVIOUS
  <2>2. RowStands(log, row, p, Fetching)
    BY <2>1, <2>p
  <2>3. RowStands(log, row', p, Fetching')
    BY <2>2, StandsWith
  <2> QED BY <2>3, <2>p
<1> QED BY <1>2, <1>4, <1>5 DEF PageStands

LEMMA AnswerTaken ==
  ASSUME ListIInv, NEW snap \in Snaps, AsLogged(log, snap), TakenOver(snap), log' = log,
         call' \in [RequestKinds -> Calls], stream'.at \in Nat,
         \/ stream' = stream /\ OnTheWay(call["list"], call'["list"])
         \/ /\ ~call'["list"].resync
            /\ stream'.at <= Later(lost, row.seq) \/ stream'.at <= snap.seq,
         row'.known \/ snap.archived, row'.seq = snap.seq, row'.status = snap.status,
         row'.pinned = snap.pinned, row'.archived = snap.archived,
         call'["pin"] = call["pin"] \/ call'["pin"].st = "idle"
  PROVE  PageStands'
<1>1. /\ lost \in Nat /\ row.seq \in Nat /\ stream.at \in Nat /\ snap.seq \in Nat
      /\ Reached(stream, call["list"], Later(lost, row.seq))
  BY DEF ListIInv, ListTypeOK, Rows, Snaps
<1>2. row'.seq <= Len(log')
  BY DEF AsLogged
<1>n. PICK n, m : n = Later(lost, row.seq) /\ m = Later(lost', row'.seq)
  OBVIOUS
<1>5. n \in Nat /\ m \in Nat /\ n <= m /\ snap.seq <= m
  <2>1. CASE snap.seq < row.seq
    <3>1. lost' = Later(lost, row.seq)
      BY <2>1 DEF TakenOver
    <3> QED BY <1>1, <1>n, <2>1, <3>1 DEF Later
  <2>2. CASE snap.seq >= row.seq
    <3>1. lost' = IF snap.seq >= lost THEN 0 ELSE lost
      BY <1>1, <2>2 DEF TakenOver
    <3> QED BY <1>1, <1>n, <2>2, <3>1 DEF Later
  <2> QED BY <1>1, <2>1, <2>2
<1>3. Reached(stream', call'["list"], Later(lost', row'.seq))
  <2>c. PICK c, d : c = call["list"] /\ d = call'["list"]
    OBVIOUS
  <2>1. c \in Calls /\ d \in Calls
    BY <2>c DEF ListIInv, ListTypeOK, RequestKinds
  <2>2. CASE stream' = stream /\ OnTheWay(c, d)
    <3>1. Reached(stream, d, m)
      BY <1>1, <1>5, <1>n, <2>c, <2>1, <2>2, ReachedKept
    <3> QED BY <1>n, <2>c, <2>2, <3>1
  <2>3. CASE ~d.resync /\ (stream'.at <= n \/ stream'.at <= snap.seq)
    <3>1. stream'.at <= m
      BY <1>1, <1>5, <2>3
    <3> QED BY <1>n, <2>c, <2>3, <3>1 DEF Reached
  <2> QED BY <1>n, <2>c, <2>2, <2>3
<1>4. ASSUME lost' = 0 PROVE RowStands(log', row', call'["pin"], Fetching')
  <2>1. row.seq <= snap.seq /\ lost <= snap.seq
    <3>1. ~(snap.seq < row.seq)
      BY <1>1, <1>4 DEF TakenOver, Later
    <3>2. 0 = IF snap.seq >= lost THEN 0 ELSE lost
      BY <1>4, <3>1 DEF TakenOver
    <3> QED BY <1>1, <3>1, <3>2
  <2>2. snap.seq \in row'.seq .. Len(log') /\ row'.status = StatusOf(log', snap.seq)
    BY <1>1 DEF AsLogged
  <2>3. row'.archived <=> ArchivedOf(log', row'.seq)
    BY DEF AsLogged
  <2>4. row'.pinned = PinnedOf(log', row'.seq)
    BY DEF AsLogged
  <2>5. ~row'.known => row'.seq >= 1 /\ ArchivedOf(log', row'.seq)
    <3>1. ASSUME ~row'.known PROVE row'.seq >= 1 /\ ArchivedOf(log', row'.seq)
      <4>1. ArchivedOf(log', row'.seq)
        BY <2>3, <3>1
      <4>2. row'.seq # 0
        BY <4>1, LogStarts
      <4> QED BY <1>1, <4>1, <4>2
    <3> QED BY <3>1
  <2>6. (row'.seq = 0 /\ call'["pin"].st # "idle") => call'["pin"].was = "no"
    <3>1. ASSUME row'.seq = 0, call'["pin"].st # "idle" PROVE call["pin"].was = "no" /\ call'["pin"] = call["pin"]
      <4>1. lost = 0 /\ row.seq = 0
        BY <1>1, <2>1, <3>1
      <4>2. RowStands(log, row, call["pin"], Fetching)
        BY <4>1 DEF ListIInv
      <4>3. call'["pin"] = call["pin"]
        BY <3>1
      <4>4. call["pin"].st # "idle"
        BY <3>1, <4>3
      <4>5. call["pin"].was = "no"
        BY <4>1, <4>2, <4>4 DEF RowStands
      <4> QED BY <4>3, <4>5
    <3>2. SUFFICES ASSUME row'.seq = 0, call'["pin"].st # "idle" PROVE call'["pin"].was = "no"
      OBVIOUS
    <3> QED BY <3>1, <3>2
  <2> QED BY <2>2, <2>3, <2>4, <2>5, <2>6 DEF RowStands
<1> QED BY <1>2, <1>3, <1>4 DEF PageStands

LEMMA ListedStands ==
  ASSUME NEW l, NEW r \in Rows, NEW pin, NEW fetching, RowStands(l, r, pin, fetching)
  PROVE  RowStands(l, Listed(r), pin, fetching)
<1>r. PICK s : s = Listed(r)
  OBVIOUS
<1>1. /\ s.seq = r.seq /\ s.status = r.status /\ s.pinned = r.pinned /\ s.archived = r.archived
      /\ s.known = r.known \/ (r.archived /\ s.known = FALSE)
  BY <1>r, ListedFacts
<1>2. CASE s.known = r.known
  <2>1. RowStands(l, s, pin, fetching)
    BY <1>1, <1>2, StandsWith
  <2> QED BY <1>r, <2>1
<1>3. CASE s.known # r.known
  <2>1. r.archived /\ ~s.known
    BY <1>1, <1>3
  <2>2. r.known
    BY <1>3, <2>1, <1>1 DEF Rows
  <2>3. ArchivedOf(l, r.seq)
    BY <2>1, <2>2 DEF RowStands
  <2>4. r.seq # 0 /\ r.seq \in Nat
    BY <2>3, LogStarts DEF Rows
  <2>5. ArchivedOf(l, s.seq) /\ s.seq >= 1 /\ s.seq # 0
    BY <1>1, <2>3, <2>4
  <2>6. RowStands(l, s, pin, fetching)
    BY <2>1, <2>5 DEF RowStands
  <2> QED BY <1>r, <2>6
<1> QED BY <1>2, <1>3

LEMMA EventStands ==
  ASSUME NEW l \in Seq(EventTypes), NEW r \in Rows, r.known, NEW pin, NEW fetching,
         RowStands(l, r, pin, fetching), NEW n \in 1 .. Len(l), n = r.seq + 1
  PROVE  RowStands(l, ApplyEvent(r, n, l[n]), pin, fetching)
<1>t. PICK type : type = l[n]
  OBVIOUS
<1>e. PICK e : e = ApplyEvent(r, n, type)
  OBVIOUS
<1>0. r.seq \in Nat /\ n \in Nat /\ n > r.seq /\ n - 1 = r.seq /\ type \in EventTypes
  BY <1>t DEF Rows
<1>b. e.seq = n
  BY <1>e, <1>0, EventFacts
<1>k. e.known = r.known
  BY <1>e, <1>0, EventFacts, Zenon
<1>c. e.status = CASE type = "started" -> "running" [] type = "completed" -> "idle"
                   [] type = "failed" -> "failed" [] OTHER -> r.status
  BY <1>e, <1>0, EventFacts
<1>d. e.pinned = IF type = "pinned" THEN "yes" ELSE IF type = "unpinned" THEN "no" ELSE r.pinned
  BY <1>e, <1>0, EventFacts
<1>1. /\ e.seq = n
      /\ e.status = CASE type = "started" -> "running" [] type = "completed" -> "idle"
                      [] type = "failed" -> "failed" [] OTHER -> r.status
      /\ e.pinned = IF type = "pinned" THEN "yes" ELSE IF type = "unpinned" THEN "no" ELSE r.pinned
  BY <1>b, <1>c, <1>d
<1>a. e.archived <=> (type = "archived" \/ (type # "restored" /\ r.archived))
  BY <1>e, <1>0, EventFacts
<1>2. \E k \in n .. Len(l) : e.status = StatusOf(l, k)
  <2>1. StatusOf(l, n) = CASE type = "started" -> "running" [] type = "completed" -> "idle"
                           [] type = "failed" -> "failed" [] OTHER -> StatusOf(l, n - 1)
    BY <1>t, LogGrows
  <2>2. PICK k \in r.seq .. Len(l) : r.status = StatusOf(l, k)
    BY DEF RowStands
  <2>3. CASE type \in {"started", "completed", "failed"}
    <3>1. e.status = StatusOf(l, n)
      BY <1>1, <2>1, <2>3
    <3> QED BY <3>1
  <2>4. CASE type \notin {"started", "completed", "failed"}
    <3>1. e.status = r.status /\ StatusOf(l, n) = StatusOf(l, r.seq)
      BY <1>0, <1>1, <2>1, <2>4
    <3>2. CASE k = r.seq
      <4>1. e.status = StatusOf(l, n)
        BY <2>2, <3>1, <3>2
      <4> QED BY <4>1
    <3>3. CASE k # r.seq
      <4>1. k \in n .. Len(l)
        BY <1>0, <3>3
      <4> QED BY <2>2, <3>1, <4>1
    <3> QED BY <3>2, <3>3
  <2> QED BY <2>3, <2>4
<1>3. e.archived <=> ArchivedOf(l, n)
  <2>1. ArchivedOf(l, n) <=> (type = "archived" \/ (type \notin {"archived", "restored"}
                                                   /\ ArchivedOf(l, n - 1)))
    BY <1>t, LogGrows
  <2>2. r.archived <=> ArchivedOf(l, n - 1)
    BY <1>0 DEF RowStands
  <2> QED BY <1>a, <2>1, <2>2
<1>4. e.pinned = PinnedOf(l, n) \/ (pin.st # "idle" /\ e.pinned = Optimistic(pin.was))
  <2>1. PinnedOf(l, n) = IF type = "pinned" THEN "yes" ELSE IF type = "unpinned" THEN "no"
                         ELSE PinnedOf(l, n - 1)
    BY <1>t, LogGrows
  <2>2. r.pinned = PinnedOf(l, n - 1) \/ (pin.st # "idle" /\ r.pinned = Optimistic(pin.was))
    BY <1>0 DEF RowStands
  <2> QED BY <1>1, <2>1, <2>2
<1>5. e.known /\ e.seq # 0
  <2>1. e.known
    BY <1>k, Zenon
  <2> QED BY <1>b, <2>1
<1>6. RowStands(l, e, pin, fetching)
  BY <1>1, <1>2, <1>3, <1>4, <1>5 DEF RowStands
<1> QED BY <1>t, <1>e, <1>6

LEMMA DeliverTruth ==
  ASSUME ListIInv, Deliver
  PROVE  ListIInv'
<1>n. PICK n : n = stream.at + 1
  OBVIOUS
<1>t. PICK type : type = log[n]
  OBVIOUS
<1>0. /\ log \in Seq(EventTypes) /\ row \in Rows /\ row.seq \in Nat /\ lost \in Nat
      /\ stream.at \in Nat /\ stream.at <= Later(lost, row.seq) /\ row.seq <= Len(log)
      /\ call \in [RequestKinds -> Calls] /\ cursor \in Nat /\ ~call["list"].resync
  BY DEF ListIInv, ListTypeOK, Rows, Reached, Deliver
<1>1. n \in 1 .. Len(log) /\ stream'.at = n /\ UNCHANGED <<server, log>>
  BY <1>0, <1>n DEF Deliver, ListIInv, ListTypeOK
<1>2. type \in EventTypes
  BY <1>0, <1>1, <1>t
<1>3. ListTypeOK'
  BY DeliverTypes DEF ListIInv
<1>r. ASSUME stream'.at <= Later(lost', row'.seq), call'["list"] = call["list"]
      PROVE  Reached(stream', call'["list"], Later(lost', row'.seq))
  BY <1>0, <1>r DEF Reached
<1>4. CASE n <= cursor
  <2>1. /\ lost' = IF n > row.seq THEN n ELSE lost
        /\ UNCHANGED <<row, call>>
    BY <1>0, <1>1, <1>4, <1>n DEF Deliver
  <2>2. stream'.at <= Later(lost', row'.seq)
    BY <1>0, <1>1, <2>1 DEF Later
  <2>3. lost' = 0 => lost = 0
    BY <1>1, <2>1
  <2>4. ASSUME lost' = 0 PROVE RowStands(log', row', call'["pin"], Fetching')
    BY <1>1, <2>1, <2>3, <2>4 DEF ListIInv, Fetching
  <2>5. PageStands'
    BY <1>0, <1>1, <1>r, <2>1, <2>2, <2>4 DEF PageStands
  <2>6. \A k \in RequestKinds : call'[k].snap = call[k].snap
    BY <2>1
  <2> QED BY <1>1, <1>3, <2>5, <2>6, PageTruth
<1>5. CASE n > cursor
  <2>0. ~(n <= cursor)
    BY <1>1, <1>5 DEF ListIInv, ListTypeOK
  <2>1. /\ row' = IF row.known THEN Listed(ApplyEvent(row, n, type))
                  ELSE [row EXCEPT !.seq = Later(row.seq, n)]
        /\ call' = IF row.known \/ call["get"].st # "idle" THEN call
                   ELSE [call EXCEPT !["get"].st = "sent"]
        /\ lost' = lost
    BY <1>n, <1>t, <2>0 DEF Deliver
  <2>p. PICK p : p = call["pin"]
    OBVIOUS
  <2>2. CASE row.known
    <3>1. call' = call /\ row' = Listed(ApplyEvent(row, n, type))
      BY <2>1, <2>2
    <3>2. CASE n <= row.seq
      <4>1. row' = Listed(row)
        BY <3>1, <3>2 DEF ApplyEvent
      <4>2. row'.seq = row.seq
        BY <1>0, <4>1, ListedFacts
      <4>3. stream'.at <= Later(lost', row'.seq)
        BY <1>0, <1>1, <2>1, <3>2, <4>2 DEF Later
      <4>4. ASSUME lost' = 0 PROVE RowStands(log', row', call'["pin"], Fetching')
        <5>1. RowStands(log, row, p, Fetching)
          BY <2>1, <2>p, <4>4 DEF ListIInv
        <5>2. RowStands(log, Listed(row), p, Fetching)
          BY <1>0, <5>1, ListedStands
        <5> QED BY <1>1, <2>p, <3>1, <4>1, <5>2 DEF Fetching
      <4>5. PageStands'
        BY <1>0, <1>1, <1>r, <3>1, <4>2, <4>3, <4>4 DEF PageStands
      <4> QED BY <1>1, <1>3, <3>1, <4>5, PageTruth
    <3>3. CASE n > row.seq
      <4>e. PICK e : e = ApplyEvent(row, n, type)
        OBVIOUS
      <4>1. e \in Rows /\ e.seq = n
        BY <1>0, <1>1, <1>2, <3>3, <4>e, EventFacts
      <4>2. row' = Listed(e) /\ row'.seq = n
        BY <3>1, <4>e, <4>1, ListedFacts
      <4>3. stream'.at <= Later(lost', row'.seq) /\ row'.seq <= Len(log')
        BY <1>0, <1>1, <2>1, <4>2 DEF Later
      <4>4. ASSUME lost' = 0 PROVE RowStands(log', row', call'["pin"], Fetching')
        <5>1. RowStands(log, row, p, Fetching) /\ lost = 0
          BY <2>1, <2>p, <4>4 DEF ListIInv
        <5>2. n = row.seq + 1
          BY <1>0, <1>n, <3>3, <5>1 DEF Later
        <5>3. RowStands(log, e, p, Fetching)
          BY <1>0, <1>1, <1>t, <2>2, <4>e, <5>1, <5>2, EventStands
        <5>4. RowStands(log, Listed(e), p, Fetching)
          BY <4>1, <5>3, ListedStands
        <5> QED BY <1>1, <2>p, <3>1, <4>2, <5>4 DEF Fetching
      <4>5. PageStands'
        BY <1>r, <3>1, <4>3, <4>4 DEF PageStands
      <4> QED BY <1>1, <1>3, <3>1, <4>5, PageTruth
    <3> QED BY <1>0, <1>1, <3>2, <3>3
  <2>3. CASE ~row.known
    <3>s. PICK s : s = Later(row.seq, n)
      OBVIOUS
    <3>1. s \in Nat /\ s >= n /\ s <= Len(log) /\ s # 0 /\ s >= 1
      BY <1>0, <1>1, <3>s DEF Later
    <3>2. row'.seq = s /\ row'.known = row.known
      BY <1>0, <2>1, <2>3, <3>s DEF Rows
    <3>3. call'["get"].st # "idle" /\ \A k \in RequestKinds : call'[k].snap = call[k].snap
      <4>1. "get" \in RequestKinds
        BY DEF RequestKinds
      <4>2. CASE call["get"].st # "idle"
        BY <2>1, <2>3, <4>2
      <4>3. CASE call["get"].st = "idle"
        <5>g. PICK g : g = [call["get"] EXCEPT !.st = "sent"]
          OBVIOUS
        <5>1. g.st = "sent" /\ g.snap = call["get"].snap
          BY <1>0, <4>1, <5>g DEF Calls
        <5>2. call' = [call EXCEPT !["get"] = g]
          BY <2>1, <2>3, <4>3, <5>g
        <5> QED BY <1>0, <4>1, <5>1, <5>2
      <4> QED BY <4>2, <4>3
    <3>4. stream'.at <= Later(lost', row'.seq)
      BY <1>0, <1>1, <2>1, <3>1, <3>2 DEF Later
    <3>5. RowStands(log', row', call'["pin"], Fetching')
      <4>1. ~row'.known /\ row'.seq >= 1 /\ row'.seq # 0
        BY <2>3, <3>1, <3>2
      <4>2. Fetching'
        BY <3>3 DEF Fetching
      <4> QED BY <4>1, <4>2 DEF RowStands
    <3>7. call'["list"] = call["list"]
      BY <1>0, <2>1 DEF RequestKinds
    <3>6. PageStands'
      BY <1>1, <1>r, <3>1, <3>2, <3>4, <3>5, <3>7 DEF PageStands
    <3> QED BY <1>1, <1>3, <3>3, <3>6, PageTruth
  <2> QED BY <2>2, <2>3
<1> QED BY <1>1, <1>4, <1>5 DEF ListIInv, ListTypeOK

LEMMA SendKeeps ==
  ASSUME call \in [RequestKinds -> Calls], row \in Rows,
         NEW k \in {"list", "submit", "archive", "attention", "dismiss"},
         Send(k) \/ UNCHANGED call, k = "list" => call[k].st = "idle"
  PROVE  /\ call'["pin"] = call["pin"] /\ (Fetching => Fetching')
         /\ OnTheWay(call["list"], call'["list"])
         /\ \A j \in RequestKinds : call'[j].snap \in {call[j].snap, NoSession}
<1>0. k \in RequestKinds /\ "pin" \in RequestKinds \ {k} /\ "get" \in RequestKinds \ {k}
  BY DEF RequestKinds
<1>l. ASSUME call'["list"] = call["list"] PROVE OnTheWay(call["list"], call'["list"])
  <2>1. call["list"].snap.seq \in Nat
    BY DEF RequestKinds, Calls, Snaps
  <2> QED BY <1>l, <2>1 DEF OnTheWay
<1>1. CASE Send(k)
  <2>1. /\ \A j \in RequestKinds \ {k} : call'[j] = call[j]
        /\ call'[k].snap = NoSession /\ ~call'[k].resync
    BY <1>0, <1>1, SendFacts
  <2>2. OnTheWay(call["list"], call'["list"])
    <3>1. CASE k = "list"
      BY <2>1, <3>1 DEF OnTheWay
    <3>2. CASE k # "list"
      BY <1>l, <2>1, <3>2 DEF RequestKinds
    <3> QED BY <3>1, <3>2
  <2> QED BY <1>0, <2>1, <2>2 DEF Fetching
<1>2. CASE UNCHANGED call
  BY <1>l, <1>2 DEF Fetching
<1> QED BY <1>1, <1>2

LEMMA UserTruth ==
  ASSUME ListIInv, UserSteps
  PROVE  ListIInv'
<1>t. ListTypeOK'
  BY UserTypes DEF ListIInv
<1>0. call \in [RequestKinds -> Calls] /\ row \in Rows /\ lost \in Nat /\ row.seq \in Nat
  BY DEF ListIInv, ListTypeOK, Rows
<1>1. ASSUME UNCHANGED <<server, log, stream, lost>>, row' = row \/ row' = [row EXCEPT !.attn = 0],
             call'["pin"] = call["pin"], Fetching => Fetching',
             OnTheWay(call["list"], call'["list"]),
             \A j \in RequestKinds : call'[j].snap \in {call[j].snap, NoSession}
      PROVE  ListIInv'
  <2>1. /\ row'.known = row.known /\ row'.seq = row.seq
        /\ row'.status = row.status /\ row'.pinned = row.pinned /\ row'.archived = row.archived
    <3>1. CASE row' = row
      BY <3>1
    <3>2. CASE row' = [row EXCEPT !.attn = 0]
      BY <1>0, <3>2, AttnGone
    <3> QED BY <1>1, <3>1, <3>2
  <2>3. call' \in [RequestKinds -> Calls] /\ stream' = stream /\ stream'.at \in Nat
    BY <1>t, <1>1 DEF ListTypeOK
  <2>2. PageStands'
    BY <1>1, <2>1, <2>3, RowKept
  <2> QED BY <1>t, <1>1, <2>2, PageTruth
<1>2. ASSUME UNCHANGED <<server, log, stream, lost>>, row' = row \/ row' = [row EXCEPT !.attn = 0],
             NEW k \in {"list", "submit", "archive", "attention", "dismiss"},
             Send(k) \/ UNCHANGED call, k = "list" => call[k].st = "idle"
      PROVE  ListIInv'
  <2>1. /\ call'["pin"] = call["pin"] /\ (Fetching => Fetching')
        /\ OnTheWay(call["list"], call'["list"])
        /\ \A j \in RequestKinds : call'[j].snap \in {call[j].snap, NoSession}
    BY <1>0, <1>2, SendKeeps
  <2> QED BY <1>1, <1>2, <2>1
<1>3. CASE LoadSessions
  BY <1>2, <1>3 DEF LoadSessions, outside
<1>4. CASE Submit
  BY <1>2, <1>4 DEF Submit, outside
<1>5. CASE Pin
  <2>1. /\ row.known /\ call["pin"].st = "idle" /\ Send("pin")
        /\ row' = [row EXCEPT !.pinned = Optimistic(row.pinned)]
        /\ UNCHANGED <<server, log, stream, lost>>
    BY <1>5 DEF Pin, outside
  <2>2. /\ row'.known = row.known /\ row'.seq = row.seq /\ row'.status = row.status
        /\ row'.pinned = Optimistic(row.pinned) /\ row'.archived = row.archived
    BY <1>0, <2>1 DEF Rows
  <2>3. /\ call'["pin"].st = "sent" /\ call'["pin"].was = row.pinned /\ call'["pin"].snap = NoSession
        /\ \A j \in RequestKinds \ {"pin"} : call'[j] = call[j]
    <3>1. "pin" \in RequestKinds
      BY DEF RequestKinds
    <3> QED BY <1>0, <2>1, <3>1, SendFacts
  <2>4. ASSUME lost' = 0 PROVE RowStands(log', row', call'["pin"], Fetching')
    <3>1. RowStands(log, row, call["pin"], Fetching)
      BY <2>1, <2>4 DEF ListIInv
    <3>2. row.pinned = PinnedOf(log, row.seq)
      BY <2>1, <3>1 DEF RowStands
    <3>3. \E k \in row'.seq .. Len(log') : row'.status = StatusOf(log', k)
      BY <2>1, <2>2, <3>1 DEF RowStands
    <3>4. row.archived <=> ArchivedOf(log, row.seq)
      BY <2>1, <3>1 DEF RowStands
    <3>5. row'.archived <=> ArchivedOf(log', row'.seq)
      BY <2>1, <2>2, <3>4
    <3>6. row'.pinned = Optimistic(call'["pin"].was) /\ call'["pin"].st # "idle"
      BY <2>2, <2>3
    <3>7. row'.seq = 0 => call'["pin"].was = "no"
      BY <2>2, <2>3, <3>2, LogStarts
    <3>8. row'.known
      BY <2>1, <2>2
    <3> QED BY <3>3, <3>5, <3>6, <3>7, <3>8 DEF RowStands
  <2>7. Reached(stream', call'["list"], Later(lost', row'.seq))
    <3>1. call'["list"] = call["list"]
      BY <2>3 DEF RequestKinds
    <3> QED BY <2>1, <2>2, <3>1 DEF ListIInv
  <2>5. PageStands'
    BY <2>1, <2>2, <2>4, <2>7 DEF PageStands, ListIInv
  <2>6. \A j \in RequestKinds : call'[j].snap \in {call[j].snap, NoSession}
    BY <2>3
  <2> QED BY <1>t, <2>1, <2>5, <2>6, PageTruth
<1>6. CASE ArchiveOrRestore
  <2>w. PICK w : w = IF row.archived THEN "yes" ELSE "no"
    OBVIOUS
  <2>c. PICK c : c = [NoCall EXCEPT !.st = "sent", !.was = w]
    OBVIOUS
  <2>1. c.snap = NoSession
    BY <2>c DEF NoCall
  <2>2. call' = [call EXCEPT !["archive"] = c] /\ UNCHANGED <<server, log, stream, lost, row>>
    BY <1>6, <2>w, <2>c DEF ArchiveOrRestore, outside
  <2>3. "archive" \in RequestKinds /\ "pin" \in RequestKinds /\ "get" \in RequestKinds
    BY DEF RequestKinds
  <2>4. call'["pin"] = call["pin"] /\ call'["get"] = call["get"]
    BY <1>0, <2>2, <2>3
  <2>5. \A j \in RequestKinds : call'[j].snap \in {call[j].snap, NoSession}
    BY <1>0, <2>1, <2>2, <2>3
  <2>6. Fetching => Fetching'
    BY <2>4 DEF Fetching
  <2>7. OnTheWay(call["list"], call'["list"])
    <3>1. call["list"].snap.seq \in Nat
      BY <1>0 DEF RequestKinds, Calls, Snaps
    <3>2. call'["list"] = call["list"]
      BY <1>0, <2>2 DEF RequestKinds
    <3> QED BY <3>1, <3>2 DEF OnTheWay
  <2> QED BY <1>1, <2>2, <2>4, <2>5, <2>6, <2>7
<1>7. CASE OpenSession
  BY <1>2, <1>7 DEF OpenSession, outside
<1>8. CASE LeaveSession
  BY <1>2, <1>8 DEF LeaveSession, outside
<1>9. CASE OpenFromNotification
  BY <1>2, <1>9 DEF OpenFromNotification, outside
<1>10. CASE ComposerFocus
  BY <1>2, <1>10 DEF ComposerFocus, outside
<1>11. CASE DismissAll
  BY <1>2, <1>11 DEF DismissAll, outside
<1> QED BY <1>3, <1>4, <1>5, <1>6, <1>7, <1>8, <1>9, <1>10, <1>11 DEF UserSteps

LEMMA RowTaken ==
  ASSUME ListIInv, NEW snap \in Snaps, AsLogged(log, snap), TakenOver(snap), log' = log,
         stream' = stream, OnTheWay(call["list"], call'["list"]),
         call' \in [RequestKinds -> Calls], NEW known \in BOOLEAN, known \/ snap.archived,
         row' = RowOf(known, snap),
         call'["pin"] = call["pin"] \/ call'["pin"].st = "idle"
  PROVE  PageStands'
<1>1. /\ row'.seq = snap.seq /\ row'.status = snap.status /\ row'.pinned = snap.pinned
      /\ row'.archived = snap.archived /\ row'.known = known
  BY ListTypes
<1>2. row'.known \/ snap.archived
  BY <1>1
<1>3. stream'.at \in Nat
  BY DEF ListIInv, ListTypeOK
<1> QED BY <1>1, <1>2, <1>3, AnswerTaken

LEMMA DoneKeeps ==
  ASSUME call \in [RequestKinds -> Calls], NEW k \in RequestKinds,
         Done(k) \/ (k = "archive" /\ ThenGet(k))
  PROVE  /\ k # "pin" => call'["pin"] = call["pin"]
         /\ k = "pin" => call'["pin"].st = "idle"
         /\ k # "get" => (Fetching => Fetching')
         /\ IF k = "list" THEN ~call'[k].resync ELSE call'["list"] = call["list"]
         /\ call' \in [RequestKinds -> Calls]
         /\ \A j \in RequestKinds : call'[j].snap \in {call[j].snap, NoSession}
<1>0. "pin" \in RequestKinds /\ "get" \in RequestKinds /\ "list" \in RequestKinds
  BY DEF RequestKinds
<1>1. CASE Done(k)
  <2>1. /\ \A j \in RequestKinds \ {k} : call'[j] = call[j]
        /\ call'[k].st = "idle" /\ call'[k].snap = NoSession /\ ~call'[k].resync
        /\ call' \in [RequestKinds -> Calls]
    BY <1>1, DoneFacts
  <2> QED BY <1>0, <2>1 DEF Fetching
<1>2. CASE k = "archive" /\ ThenGet(k)
  <2>1. /\ \A j \in RequestKinds \ {k, "get"} : call'[j] = call[j]
        /\ call'[k].snap = NoSession /\ call' \in [RequestKinds -> Calls]
        /\ call'["get"].st # "idle" /\ call'["get"].snap = call["get"].snap
    BY <1>2, ThenGetFacts
  <2> QED BY <1>0, <1>2, <2>1 DEF Fetching
<1> QED BY <1>1, <1>2

(* A list that leaves out a fresher row makes it miss something; one that says
   nothing new of a session that is not shown leaves it alone. *)
LEMMA DroppedStands ==
  ASSUME ListIInv, row' = [row EXCEPT !.known = FALSE], Missed(row.known), log' = log,
         call' \in [RequestKinds -> Calls], stream'.at \in Nat, row.seq >= 1,
         Reached(stream', call'["list"], Later(lost, row.seq)),
         call'["pin"] = call["pin"], Fetching => Fetching'
  PROVE  PageStands'
<1>0. row \in Rows /\ row.seq \in Nat /\ lost \in Nat
  BY DEF ListIInv, ListTypeOK, Rows
<1>1. CASE ~row.known
  <2>1. row' = row /\ lost' = lost
    BY <1>0, <1>1 DEF Missed, Rows
  <2> QED BY <2>1, RowKept
<1>2. CASE row.known
  <2>1. lost' = Later(lost, row.seq) /\ row'.seq = row.seq
    BY <1>0, <1>2 DEF Missed, Rows
  <2>2. lost' # 0
    BY <1>0, <2>1 DEF Later
  <2>3. Later(lost', row'.seq) = Later(lost, row.seq)
    BY <1>0, <2>1 DEF Later
  <2>4. Reached(stream', call'["list"], Later(lost', row'.seq))
    BY <2>3
  <2> QED BY <2>1, <2>2, <2>4 DEF PageStands, ListIInv
<1> QED BY <1>0, <1>1, <1>2 DEF Rows

LEMMA FromListStands ==
  ASSUME ListIInv, NEW snap \in Snaps, AsLogged(log, snap), FromList(snap), log' = log,
         call' \in [RequestKinds -> Calls], stream'.at \in Nat, ~call'["list"].resync,
         stream'.at <= Later(lost, row.seq) \/ stream'.at <= snap.seq,
         call'["pin"] = call["pin"], Fetching => Fetching'
  PROVE  PageStands'
<1>0. row \in Rows /\ row.seq \in Nat /\ lost \in Nat /\ snap.seq \in Nat
  BY DEF ListIInv, ListTypeOK, Rows, Snaps
<1>r. ASSUME NEW known \in BOOLEAN
      PROVE  /\ RowOf(known, snap).known = known /\ RowOf(known, snap).seq = snap.seq
             /\ RowOf(known, snap).status = snap.status /\ RowOf(known, snap).pinned = snap.pinned
             /\ RowOf(known, snap).archived = snap.archived
  BY ListTypes
<1>1. ASSUME row.seq > snap.seq
      PROVE  Reached(stream', call'["list"], Later(lost, row.seq)) /\ row.seq >= 1
  <2>1. stream'.at <= Later(lost, row.seq)
    BY <1>0, <1>1 DEF Later
  <2> QED BY <1>0, <1>1, <2>1 DEF Reached
<1>2. CASE Excluded(snap) /\ row.seq > snap.seq
  BY <1>1, <1>2, DroppedStands DEF FromList
<1>3. CASE Excluded(snap) /\ ~(row.seq > snap.seq)
  <2>1. row' = RowOf(FALSE, snap) /\ TakenOver(snap) /\ snap.archived
    BY <1>3 DEF FromList, Excluded
  <2> QED BY <1>0, <1>r, <2>1, AnswerTaken
<1>4. CASE ~Excluded(snap) /\ row.known /\ row.seq > snap.seq
  <2>1. row' = row /\ lost' = lost
    BY <1>4 DEF FromList, PreferFresher
  <2> QED BY <1>1, <1>4, <2>1, RowKept
<1>5. CASE ~Excluded(snap) /\ ~(row.known /\ row.seq > snap.seq)
  <2>1. row' = RowOf(TRUE, snap) /\ TakenOver(snap)
    BY <1>5 DEF FromList, PreferFresher
  <2>2. row'.known
    BY <1>r, <2>1
  <2> QED BY <1>0, <1>r, <2>1, <2>2, AnswerTaken
<1> QED BY <1>2, <1>3, <1>4, <1>5

LEMMA ApplyListTruth ==
  ASSUME ListIInv, ApplyList \/ IncludeSelected
  PROVE  ListIInv'
<1>t. ListTypeOK'
  BY AnswerTypes DEF ListIInv, Answers
<1>0. /\ call \in [RequestKinds -> Calls] /\ row \in Rows /\ lost \in Nat /\ row.seq \in Nat
      /\ stream \in [at : Nat, open : BOOLEAN] /\ stream.at \in Nat
      /\ Reached(stream, call["list"], Later(lost, row.seq)) /\ Later(lost, row.seq) \in Nat
      /\ "list" \in RequestKinds /\ "pin" \in RequestKinds /\ "get" \in RequestKinds
  BY DEF ListIInv, ListTypeOK, Rows, RequestKinds, Later
<1>y. call' \in [RequestKinds -> Calls] /\ stream'.at \in Nat
  BY <1>t DEF ListTypeOK
<1>c. PICK c : c = call["list"]
  OBVIOUS
<1>s. PICK snap : snap = c.snap
  OBVIOUS
<1>1. c \in Calls /\ snap \in Snaps /\ AsLogged(log, snap) /\ snap.seq \in Nat
  BY <1>0, <1>c, <1>s DEF ListIInv, Calls, Snaps
<1>u. UNCHANGED <<server, log>>
  BY DEF ApplyList, IncludeSelected
<1>m. MovedBy(c) \in {stream.at, Later(stream.at, snap.seq)} /\ (~c.resync => MovedBy(c) = stream.at)
  BY <1>s DEF MovedBy
<1>2. CASE ApplyList /\ c.ok
  <2>1. /\ FromList(snap) /\ Done("list")
        /\ stream' = [at |-> MovedBy(c), open |-> TRUE]
    BY <1>2, <1>c, <1>s DEF ApplyList
  <2>2. stream'.at \in {stream.at, Later(stream.at, snap.seq)}
    BY <1>m, <2>1
  <2>3. stream.at <= Later(lost, row.seq) \/ stream.at <= snap.seq
    BY <1>0, <1>c, <1>s DEF Reached
  <2>4. stream'.at <= Later(lost, row.seq) \/ stream'.at <= snap.seq
    BY <1>0, <1>1, <2>2, <2>3 DEF Later
  <2>5. /\ call'["pin"] = call["pin"] /\ ~call'["list"].resync
        /\ Fetching => Fetching'
        /\ \A j \in RequestKinds : call'[j].snap \in {call[j].snap, NoSession}
    BY <1>0, <2>1, DoneKeeps
  <2>6. PageStands'
    BY <1>1, <1>u, <1>y, <2>1, <2>4, <2>5, FromListStands
  <2> QED BY <1>t, <1>u, <2>5, <2>6, PageTruth
<1>3. CASE ApplyList /\ ~c.ok
  <2>d. PICK d : d = [c EXCEPT !.st = "sent"]
    OBVIOUS
  <2>1. call' = [call EXCEPT !["list"] = d] /\ UNCHANGED <<row, stream, lost>>
    BY <1>3, <1>c, <2>d DEF ApplyList
  <2>2. d.snap = snap /\ d.resync = c.resync /\ d.asked = c.asked /\ d.st = "sent"
    BY <1>1, <1>s, <2>d DEF Calls
  <2>3. /\ call'["pin"] = call["pin"] /\ call'["get"] = call["get"] /\ call'["list"] = d
        /\ \A j \in RequestKinds : call'[j].snap \in {call[j].snap, NoSession}
    BY <1>0, <1>c, <1>s, <2>1, <2>2
  <2>4. Fetching => Fetching'
    BY <2>3 DEF Fetching
  <2>5. OnTheWay(call["list"], call'["list"])
    BY <1>1, <1>c, <1>s, <2>2, <2>3 DEF OnTheWay
  <2>6. PageStands'
    BY <1>u, <1>y, <2>1, <2>3, <2>4, <2>5, RowKept
  <2> QED BY <1>t, <1>u, <2>3, <2>6, PageTruth
<1>4. CASE IncludeSelected
  <2>d. PICK d : d = [c EXCEPT !.st = "sent", !.resync = FALSE, !.asked = TRUE]
    OBVIOUS
  <2>1. /\ stream' = [stream EXCEPT !.at = MovedBy(c)] /\ call' = [call EXCEPT !["list"] = d]
        /\ UNCHANGED <<row, lost>> /\ ~c.asked
    BY <1>4, <1>c, <2>d DEF IncludeSelected
  <2>2. d.snap = snap /\ ~d.resync /\ d.asked /\ d.st = "sent"
    BY <1>1, <1>s, <2>d DEF Calls
  <2>3. /\ call'["pin"] = call["pin"] /\ call'["get"] = call["get"] /\ call'["list"] = d
        /\ \A j \in RequestKinds : call'[j].snap = call[j].snap
    BY <1>0, <1>c, <1>s, <2>1, <2>2
  <2>4. Fetching => Fetching'
    BY <2>3 DEF Fetching
  <2>5. stream'.at = MovedBy(c) /\ stream'.open = stream.open
    BY <1>0, <2>1
  <2>6. stream.at <= Later(lost, row.seq) /\ (c.resync => ~stream.open)
    BY <1>0, <1>c, <2>1 DEF Reached
  <2>7. Reached(stream', d, Later(lost, row.seq))
    <3>1. CASE ~c.resync
      BY <1>m, <2>2, <2>5, <2>6, <3>1 DEF Reached
    <3>2. CASE c.resync
      <4>1. MovedBy(c) = stream.at \/ MovedBy(c) <= snap.seq
        BY <1>0, <1>1, <1>m DEF Later
      <4>2. ~stream'.open /\ d.st # "idle" /\ d.asked
        BY <2>2, <2>5, <2>6, <3>2
      <4>3. stream'.at <= Later(lost, row.seq) \/ stream'.at <= d.snap.seq
        BY <2>2, <2>5, <2>6, <4>1
      <4> QED BY <2>2, <4>2, <4>3 DEF Reached
    <3> QED BY <3>1, <3>2
  <2>8. Reached(stream', call'["list"], Later(lost, row.seq))
    BY <2>3, <2>7
  <2>9. PageStands'
    BY <1>u, <1>y, <2>1, <2>3, <2>4, <2>8, RowKept
  <2> QED BY <1>t, <1>u, <2>3, <2>9, PageTruth
<1> QED BY <1>2, <1>3, <1>4

LEMMA AnswerTruth ==
  ASSUME ListIInv, Answers
  PROVE  ListIInv'
<1>t. ListTypeOK'
  BY AnswerTypes DEF ListIInv
<1>0. /\ call \in [RequestKinds -> Calls] /\ row \in Rows /\ lost \in Nat /\ row.seq \in Nat
      /\ row.seq <= Len(log) /\ stream.at \in Nat
  BY DEF ListIInv, ListTypeOK, Rows
<1>k. RequestKinds = {"list", "get", "submit", "pin", "archive", "attention", "dismiss"}
  BY DEF RequestKinds
<1>s. \A k \in RequestKinds : /\ call[k].snap \in Snaps /\ AsLogged(log, call[k].snap)
                              /\ call[k].snap.seq \in Nat
  BY <1>0 DEF ListIInv, Calls, Snaps
<1>y. call' \in [RequestKinds -> Calls] /\ (UNCHANGED outside => stream'.at \in Nat)
  BY <1>t, <1>0 DEF ListTypeOK, outside
<1>l. ASSUME call'["list"] = call["list"] PROVE OnTheWay(call["list"], call'["list"])
  BY <1>k, <1>l, <1>s DEF OnTheWay
<1>r. ASSUME call'["list"] = call["list"], stream' = stream, row'.seq = row.seq,
             lost' \in {lost, Later(lost, row.seq)}
      PROVE  Reached(stream', call'["list"], Later(lost', row'.seq))
  <2>1. Later(lost', row'.seq) = Later(lost, row.seq)
    BY <1>0, <1>r DEF Later
  <2> QED BY <1>r, <2>1 DEF ListIInv
<1>1. ASSUME NEW k \in RequestKinds, Done(k) \/ (k = "archive" /\ ThenGet(k)),
             UNCHANGED outside, PageStands'
      PROVE  ListIInv'
  <2>1. \A j \in RequestKinds : call'[j].snap \in {call[j].snap, NoSession}
    BY <1>0, <1>1, DoneKeeps
  <2> QED BY <1>t, <1>1, <2>1, PageTruth DEF outside
<1>2. ASSUME NEW k \in RequestKinds \ {"list"}, Done(k) \/ (k = "archive" /\ ThenGet(k)),
             UNCHANGED outside,
             NEW known \in BOOLEAN, NEW snap \in Snaps, snap = call[k].snap,
             known \/ snap.archived, row' = RowOf(known, snap), TakenOver(snap)
      PROVE  ListIInv'
  <2>1. call'["pin"] = call["pin"] \/ call'["pin"].st = "idle"
    BY <1>0, <1>2, DoneKeeps
  <2>2. log' = log /\ stream' = stream /\ AsLogged(log, snap)
    BY <1>2, <1>s DEF outside
  <2>4. call'["list"] = call["list"]
    BY <1>0, <1>2, DoneKeeps
  <2>3. PageStands'
    BY <1>2, <1>l, <1>y, <2>1, <2>2, <2>4, RowTaken
  <2> QED BY <1>1, <1>2, <2>3
<1>3. ASSUME NEW k \in RequestKinds \ {"get", "pin", "list"}, Done(k) \/ (k = "archive" /\ ThenGet(k)),
             UNCHANGED outside, UNCHANGED row, lost' \in {lost, Later(lost, row.seq)}
      PROVE  ListIInv'
  <2>1. /\ call'["pin"] = call["pin"]
        /\ Fetching => Fetching'
        /\ call'["list"] = call["list"]
    BY <1>0, <1>3, DoneKeeps
  <2>2. log' = log /\ stream' = stream
    BY <1>3 DEF outside
  <2>3. PageStands'
    BY <1>3, <1>l, <1>y, <2>1, <2>2, RowKept
  <2> QED BY <1>1, <1>3, <2>3
<1>4. CASE ApplyList \/ IncludeSelected
  BY <1>4, ApplyListTruth
<1>5. CASE ApplyGet
  <2>1. Done("get") /\ UNCHANGED outside
    BY <1>5 DEF ApplyGet
  <2>s. PICK snap : snap = call["get"].snap
    OBVIOUS
  <2>2. CASE call["get"].ok
    <3>1. ApplySession(snap)
      BY <1>5, <2>2, <2>s DEF ApplyGet
    <3>2. PICK known \in BOOLEAN : (known \/ snap.archived) /\ row' = RowOf(known, snap)
      BY <3>1 DEF ApplySession
    <3>3. TakenOver(snap)
      BY <3>1 DEF ApplySession
    <3> QED BY <1>2, <1>k, <1>s, <2>1, <2>s, <3>2, <3>3
  <2>3. CASE ~call["get"].ok
    <3>1. row' = row /\ Missed(~row.known /\ ~ArchivedOf(log, row.seq))
      BY <1>5, <2>3 DEF ApplyGet
    <3>2. lost' \in {lost, Later(lost, row.seq)} /\ UNCHANGED <<log, stream>>
      BY <2>1, <3>1 DEF Missed, outside
    <3>4. call'["pin"] = call["pin"] /\ call'["list"] = call["list"]
      BY <1>0, <1>k, <2>1, DoneKeeps
    <3>3. Reached(stream', call'["list"], Later(lost', row'.seq))
      BY <1>r, <3>1, <3>2, <3>4
    <3>5. ASSUME lost' = 0 PROVE RowStands(log', row', call'["pin"], Fetching')
      <4>1. lost = 0 /\ Later(lost, row.seq) >= row.seq
        BY <1>0, <3>2, <3>5 DEF Later
      <4>2. RowStands(log, row, call["pin"], Fetching)
        BY <4>1 DEF ListIInv
      <4>3. ~row.known => ArchivedOf(log, row.seq)
        <5>1. SUFFICES ASSUME ~row.known, ~ArchivedOf(log, row.seq) PROVE FALSE
          OBVIOUS
        <5>2. lost' = Later(lost, row.seq)
          BY <3>1, <5>1 DEF Missed
        <5>3. row.seq >= 1
          BY <4>2, <5>1 DEF RowStands
        <5> QED BY <1>0, <3>5, <4>1, <5>2, <5>3
      <4> QED BY <3>1, <3>2, <3>4, <4>2, <4>3 DEF RowStands
    <3>6. PageStands'
      BY <1>0, <3>1, <3>2, <3>3, <3>5 DEF PageStands
    <3> QED BY <1>1, <1>k, <2>1, <3>6
  <2> QED BY <2>2, <2>3
<1>6. CASE ApplySubmit
  <2>c. PICK c : c = call["submit"]
    OBVIOUS
  <2>1. Done("submit") /\ UNCHANGED outside
    BY <1>6 DEF ApplySubmit
  <2>2. CASE ~c.ok \/ ~row.known
    <3>1. row' = row /\ lost' \in {lost, Later(lost, row.seq)}
      BY <1>6, <2>2, <2>c DEF ApplySubmit
    <3> QED BY <1>3, <1>k, <2>1, <3>1
  <2>3. CASE c.ok /\ row.known
    <3>1. /\ row' = [row EXCEPT !.status = c.snap.status]
          /\ lost' = IF c.snap.seq < row.seq THEN Later(lost, row.seq) ELSE lost
      BY <1>6, <2>3, <2>c DEF ApplySubmit
    <3>2. /\ row'.seq = row.seq /\ row'.status = c.snap.status /\ row'.pinned = row.pinned
          /\ row'.archived = row.archived /\ row'.known = row.known
      BY <1>0, <3>1 DEF Rows
    <3>4. call'["pin"] = call["pin"] /\ call'["list"] = call["list"]
      BY <1>0, <1>k, <2>1, DoneKeeps
    <3>3. Reached(stream', call'["list"], Later(lost', row'.seq))
      BY <1>r, <2>1, <3>1, <3>2, <3>4 DEF outside
    <3>5. ASSUME lost' = 0 PROVE RowStands(log', row', call'["pin"], Fetching')
      <4>0. c.snap.seq \in Nat /\ AsLogged(log, c.snap)
        BY <1>k, <1>s, <2>c
      <4>1. lost = 0 /\ row.seq <= c.snap.seq
        BY <1>0, <3>1, <3>5, <4>0 DEF Later
      <4>2. RowStands(log, row, call["pin"], Fetching)
        BY <4>1 DEF ListIInv
      <4>3. c.snap.seq \in row'.seq .. Len(log) /\ row'.status = StatusOf(log, c.snap.seq)
        BY <1>0, <3>2, <4>0, <4>1 DEF AsLogged
      <4>4. row.archived <=> ArchivedOf(log, row.seq)
        BY <2>3, <4>2 DEF RowStands
      <4>5. row'.archived <=> ArchivedOf(log, row'.seq)
        BY <3>2, <4>4
      <4>6. row'.known
        BY <2>3, <3>2
      <4>7. /\ row'.pinned = PinnedOf(log, row'.seq)
               \/ (call'["pin"].st # "idle" /\ row'.pinned = Optimistic(call'["pin"].was))
            /\ (row'.seq = 0 /\ call'["pin"].st # "idle") => call'["pin"].was = "no"
        BY <2>3, <3>2, <3>4, <4>2 DEF RowStands
      <4>8. log' = log
        BY <2>1 DEF outside
      <4>9. RowStands(log, row', call'["pin"], Fetching')
        BY <4>3, <4>5, <4>6, <4>7 DEF RowStands
      <4> QED BY <4>8, <4>9
    <3>6. PageStands'
      BY <1>0, <2>1, <3>2, <3>3, <3>5 DEF PageStands, outside
    <3> QED BY <1>1, <1>k, <2>1, <3>6
  <2> QED BY <2>2, <2>3
<1>7. CASE ApplyPin
  <2>c. PICK c : c = call["pin"]
    OBVIOUS
  <2>s. PICK snap : snap = c.snap
    OBVIOUS
  <2>1. Done("pin") /\ UNCHANGED outside /\ c.st # "idle"
    BY <1>7, <2>c DEF ApplyPin
  <2>2. CASE c.ok
    <3>1. ApplySession(snap)
      BY <1>7, <2>2, <2>c, <2>s DEF ApplyPin
    <3>2. PICK known \in BOOLEAN : (known \/ snap.archived) /\ row' = RowOf(known, snap)
      BY <3>1 DEF ApplySession
    <3>3. TakenOver(snap)
      BY <3>1 DEF ApplySession
    <3> QED BY <1>2, <1>k, <1>s, <2>1, <2>c, <2>s, <3>2, <3>3
  <2>3. CASE ~c.ok
    <3>b. PICK back : back = (row.known /\ row.pinned = Optimistic(c.was))
      OBVIOUS
    <3>1. /\ row' = IF back THEN [row EXCEPT !.pinned = c.was] ELSE row
          /\ Missed(back /\ c.was # PinnedOf(log, row.seq))
      BY <1>7, <2>3, <2>c, <3>b DEF ApplyPin
    <3>2. lost' \in {lost, Later(lost, row.seq)} /\ UNCHANGED <<log, stream>>
      BY <2>1, <3>1 DEF Missed, outside
    <3>3. /\ row'.seq = row.seq /\ row'.status = row.status
          /\ row'.pinned = (IF back THEN c.was ELSE row.pinned)
          /\ row'.archived = row.archived /\ row'.known = row.known
      BY <1>0, <3>1 DEF Rows
    <3>5. /\ call'["pin"].st = "idle" /\ (Fetching => Fetching')
          /\ call'["list"] = call["list"]
      BY <1>0, <1>k, <2>1, DoneKeeps
    <3>4. Reached(stream', call'["list"], Later(lost', row'.seq))
      BY <1>r, <3>2, <3>3, <3>5
    <3>6. ASSUME lost' = 0 PROVE RowStands(log', row', call'["pin"], Fetching')
      <4>1. lost = 0 /\ Later(lost, row.seq) >= row.seq
        BY <1>0, <3>2, <3>6 DEF Later
      <4>2. RowStands(log, row, c, Fetching)
        BY <2>c, <4>1 DEF ListIInv
      <4>3. row.known => row'.pinned = PinnedOf(log, row.seq)
        <5>1. SUFFICES ASSUME row.known PROVE row'.pinned = PinnedOf(log, row.seq)
          OBVIOUS
        <5>2. CASE row.pinned = Optimistic(c.was)
          <6>1. back
            BY <3>b, <5>1, <5>2
          <6>2. row'.pinned = c.was
            BY <3>3, <6>1
          <6>3. CASE c.was # PinnedOf(log, row.seq)
            <7>1. lost' = Later(lost, row.seq)
              BY <3>1, <6>1, <6>3 DEF Missed
            <7>2. row.seq = 0
              BY <1>0, <3>6, <4>1, <7>1
            <7>3. c.was = "no"
              BY <2>1, <4>2, <7>2 DEF RowStands
            <7> QED BY <6>3, <7>2, <7>3, LogStarts
          <6> QED BY <6>2, <6>3
        <5>3. CASE row.pinned # Optimistic(c.was)
          <6>1. ~back
            BY <3>b, <5>3
          <6>2. row'.pinned = row.pinned
            BY <3>3, <6>1
          <6>3. row.pinned = PinnedOf(log, row.seq)
            BY <4>2, <5>1, <5>3 DEF RowStands
          <6> QED BY <6>2, <6>3
        <5> QED BY <5>2, <5>3
      <4>4. row'.known => row'.pinned = PinnedOf(log, row'.seq)
        BY <3>3, <4>3
      <4>5. row'.known => \E k \in row'.seq .. Len(log) : row'.status = StatusOf(log, k)
        BY <3>3, <4>2 DEF RowStands
      <4>6. row.known => (row.archived <=> ArchivedOf(log, row.seq))
        BY <4>2 DEF RowStands
      <4>7. row'.known => (row'.archived <=> ArchivedOf(log, row'.seq))
        BY <3>3, <4>6
      <4>8. ~row'.known => row'.seq >= 1 /\ (ArchivedOf(log, row'.seq) \/ Fetching')
        BY <3>3, <3>5, <4>2 DEF RowStands
      <4>9. RowStands(log, row', call'["pin"], Fetching')
        BY <3>5, <4>4, <4>5, <4>7, <4>8 DEF RowStands
      <4> QED BY <3>2, <4>9
    <3>7. PageStands'
      BY <1>0, <3>2, <3>3, <3>4, <3>6 DEF PageStands
    <3> QED BY <1>1, <1>k, <2>1, <3>7
  <2> QED BY <2>2, <2>3
<1>8. CASE ApplyArchive
  <2>s. PICK snap : snap = call["archive"].snap
    OBVIOUS
  <2>1. (Done("archive") \/ ThenGet("archive")) /\ UNCHANGED outside
    BY <1>8 DEF ApplyArchive
  <2>2. CASE call["archive"].ok
    <3>1. TakenOver(snap) /\ \E known \in BOOLEAN : (known \/ snap.archived) /\ row' = RowOf(known, snap)
      BY <1>8, <2>2, <2>s DEF ApplyArchive
    <3>2. PICK known \in BOOLEAN : (known \/ snap.archived) /\ row' = RowOf(known, snap)
      BY <3>1
    <3> QED BY <1>2, <1>k, <1>s, <2>1, <2>s, <3>1, <3>2
  <2>3. CASE ~call["archive"].ok
    <3>1. UNCHANGED row /\ lost' = lost
      BY <1>8, <2>3 DEF ApplyArchive
    <3> QED BY <1>3, <1>k, <2>1, <3>1
  <2> QED BY <2>2, <2>3
<1>9. CASE ApplyAttention
  <2>s. PICK snap : snap = call["attention"].snap
    OBVIOUS
  <2>1. Done("attention") /\ UNCHANGED outside
    BY <1>9 DEF ApplyAttention
  <2>2. CASE row' = RowOf(TRUE, snap) /\ TakenOver(snap)
    BY <1>2, <1>k, <1>s, <2>1, <2>s, <2>2
  <2>3. CASE UNCHANGED <<row, lost>>
    BY <1>3, <1>k, <2>1, <2>3
  <2> QED BY <1>9, <2>s, <2>2, <2>3 DEF ApplyAttention
<1>10. CASE ApplyDismiss
  <2>0. UNCHANGED <<outside, row, lost>>
    BY <1>10 DEF ApplyDismiss
  <2>1. CASE Done("dismiss")
    BY <1>3, <1>k, <2>0, <2>1
  <2>2. CASE /\ call["list"].st = "idle"
             /\ call' = [call EXCEPT !["dismiss"].st = "idle", !["list"] = [NoCall EXCEPT !.st = "sent"]]
    <3>c. PICK c : c = [NoCall EXCEPT !.st = "sent"]
      OBVIOUS
    <3>d. PICK d : d = [call["dismiss"] EXCEPT !.st = "idle"]
      OBVIOUS
    <3>0. call["dismiss"] \in Calls
      BY <1>0, <1>k
    <3>1. c.snap = NoSession /\ ~c.resync /\ d.snap = call["dismiss"].snap
      BY <3>0, <3>c, <3>d DEF NoCall, Calls
    <3>2. call' = [call EXCEPT !["dismiss"] = d, !["list"] = c]
      BY <1>0, <1>k, <2>2, <3>c, <3>d
    <3>3. call'["pin"] = call["pin"] /\ call'["get"] = call["get"]
      BY <1>0, <1>k, <3>2
    <3>4. \A j \in RequestKinds : call'[j].snap \in {call[j].snap, NoSession}
      BY <1>0, <1>k, <3>1, <3>2
    <3>5. Fetching => Fetching'
      BY <3>3 DEF Fetching
    <3>7. OnTheWay(call["list"], call'["list"])
      BY <1>0, <1>k, <2>2, <3>1, <3>2 DEF OnTheWay
    <3>8. stream' = stream /\ log' = log /\ row' = row /\ lost' = lost
      BY <2>0 DEF outside
    <3>6. PageStands'
      BY <1>0, <1>y, <3>3, <3>5, <3>7, <3>8, RowKept
    <3> QED BY <1>t, <2>0, <3>4, <3>6, PageTruth DEF outside
  <2> QED BY <1>10, <2>1, <2>2 DEF ApplyDismiss
<1> QED BY <1>4, <1>5, <1>6, <1>7, <1>8, <1>9, <1>10 DEF Answers

-----------------------------------------------------------------------------

LEMMA ListInductive ==
  ASSUME ListIInv, [ListNext]_listVars
  PROVE  ListIInv'
<1>t. ListTypeOK'
  BY ListTypesKept DEF ListIInv
<1>1. CASE HistoryRead
  <2>1. UNCHANGED <<server, log, stream, row, call, lost>>
    BY <1>1 DEF HistoryRead
  <2>2. PageStands'
    BY <2>1 DEF ListIInv, PageStands, Fetching
  <2> QED BY <1>t, <2>1, <2>2, PageTruth
<1>2. CASE Resync
  <2>c. PICK c : c = [NoCall EXCEPT !.st = "sent", !.resync = TRUE]
    OBVIOUS
  <2>0. /\ call \in [RequestKinds -> Calls] /\ stream \in [at : Nat, open : BOOLEAN]
        /\ {"list", "pin", "get"} \subseteq RequestKinds
    BY DEF ListIInv, ListTypeOK, RequestKinds
  <2>1. /\ UNCHANGED <<server, log, row, lost>>
        /\ call' = [call EXCEPT !["list"] = c] /\ stream' = [stream EXCEPT !.open = FALSE]
    BY <1>2, <2>c DEF Resync
  <2>2. c.snap = NoSession /\ call["list"].st = "idle"
    BY <1>2, <2>c DEF NoCall, Resync
  <2>3. /\ call'["pin"] = call["pin"] /\ call'["get"] = call["get"]
        /\ \A j \in RequestKinds : call'[j].snap \in {call[j].snap, NoSession}
    BY <2>0, <2>1, <2>2
  <2>4. stream'.at = stream.at /\ ~stream'.open
    BY <2>0, <2>1
  <2>5. Fetching => Fetching'
    BY <2>3 DEF Fetching
  <2>7. Reached(stream', call'["list"], Later(lost, row.seq))
    BY <2>2, <2>4 DEF ListIInv, Reached
  <2>8. call' \in [RequestKinds -> Calls] /\ stream'.at \in Nat
    BY <1>t DEF ListTypeOK
  <2>6. PageStands'
    BY <2>1, <2>3, <2>4, <2>5, <2>7, <2>8, RowKept
  <2> QED BY <1>t, <2>1, <2>3, <2>6, PageTruth
<1>3. CASE UNCHANGED listVars
  <2>1. UNCHANGED <<server, log, stream, row, call, lost>>
    BY <1>3 DEF listVars
  <2>2. PageStands'
    BY <2>1 DEF ListIInv, PageStands, Fetching
  <2> QED BY <1>t, <2>1, <2>2, PageTruth
<1> QED BY <1>1, <1>2, <1>3, ServerTruth, DeliverTruth, UserTruth, AnswerTruth DEF ListNext

(* When no request is under way and the stream has delivered everything, the list
   shows the status, the pin and the archive mark that the server has, however
   events, answers and optimistic changes overtook each other; the rows of which
   something got lost are the named exception. *)
THEOREM QuietListIsTrue == ListSpec => []QuietShowsServer
<1>1. ListInit => ListIInv
  BY ListStarts
<1>2. ListIInv /\ [ListNext]_listVars => ListIInv'
  BY ListInductive
<1>3. ListIInv => QuietShowsServer
  <2>1. SUFFICES ASSUME ListIInv, Quiet, lost = 0
                 PROVE  /\ ~server.archived => row.known
                        /\ row.known => /\ row.status = server.status /\ row.pinned = server.pinned
                                        /\ row.archived = server.archived
    BY DEF QuietShowsServer
  <2>2. ~Fetching /\ call["pin"].st = "idle" /\ call["list"].st = "idle" /\ stream.at = Len(log)
    BY <2>1 DEF Quiet, Fetching, RequestKinds
  <2>3. row.seq = Len(log) /\ row.seq \in Nat
    BY <2>1, <2>2 DEF ListIInv, ListTypeOK, Rows, Later, Reached
  <2>4. RowStands(log, row, call["pin"], Fetching) /\ server.seq = row.seq /\ AsLogged(log, server)
    BY <2>1, <2>3 DEF ListIInv
  <2>5. server.archived <=> ArchivedOf(log, row.seq)
    BY <2>4 DEF AsLogged
  <2>6. ~server.archived => row.known
    BY <2>2, <2>4, <2>5 DEF RowStands
  <2>7. ASSUME row.known
        PROVE  /\ row.status = server.status /\ row.pinned = server.pinned
               /\ row.archived = server.archived
    <3>1. PICK k \in row.seq .. Len(log) : row.status = StatusOf(log, k)
      BY <2>4, <2>7 DEF RowStands
    <3>2. k = row.seq
      BY <2>3, <3>1
    <3>3. row.status = server.status
      BY <2>4, <3>1, <3>2 DEF AsLogged
    <3>4. row.pinned = server.pinned
      BY <2>2, <2>4, <2>7 DEF RowStands, AsLogged
    <3>5. row.archived <=> ArchivedOf(log, row.seq)
      BY <2>4, <2>7 DEF RowStands
    <3>6. row.archived \in BOOLEAN /\ server.archived \in BOOLEAN
      BY <2>1 DEF ListIInv, ListTypeOK, Rows, Snaps
    <3>7. row.archived = server.archived
      BY <2>5, <3>5, <3>6
    <3> QED BY <3>3, <3>4, <3>7
  <2> QED BY <2>6, <2>7
<1> QED BY <1>1, <1>2, <1>3, PTL DEF ListSpec

(* A session that came to rest after the user last had it on the screen asks for
   attention: no order of events, answers and notifications marks it as seen. *)
THEOREM RestAsksForAttention == ListSpec => []AttentionAsked
<1>1. ListInit => ListIInv
  BY ListStarts
<1>2. ListIInv /\ [ListNext]_listVars => ListIInv'
  BY ListInductive
<1>3. ListIInv => AttentionAsked
  <2>1. SUFFICES ASSUME ListIInv, row.known, row.status = "idle", row.seq > screened
                 PROVE  row.seq > EffectiveSeen(row, seen, held)
    BY DEF AttentionAsked, SessionAttention
  <2>2. /\ seen \in Nat /\ screened \in Nat /\ seen <= screened /\ held \in Nat
        /\ row.seq \in Nat /\ row.attn \in Nat
    BY <2>1 DEF ListIInv, ListTypeOK, Rows
  <2>a. PICK attn : attn = Later(row.attn, held)
    OBVIOUS
  <2>3. attn \in Nat
    BY <2>2, <2>a DEF Later
  <2>4. EffectiveSeen(row, seen, held) = IF attn > 0 /\ seen > attn - 1 THEN attn - 1 ELSE seen
    BY <2>a DEF EffectiveSeen
  <2> QED BY <2>1, <2>2, <2>3, <2>4
<1> QED BY <1>1, <1>2, <1>3, PTL DEF ListSpec
=============================================================================
