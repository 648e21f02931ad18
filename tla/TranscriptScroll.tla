-------------------------- MODULE TranscriptScroll --------------------------
(* The chat's scroll position (chat-transcript.tsx): the transcript follows
   its live tail, pauses when the reader scrolls away, and resumes at the
   tail or on "Jump to latest".  Native scroll events, the virtualizer's
   notifications, wheel, pointer, touch and key events, what grows the list
   and the answers of the history requests come in any order.  How far the
   view is from the end is known up to the code's three thresholds. *)
EXTENDS Naturals

CONSTANT ScrollBounds  \* bound: how often each kind of thing happens

AtTail == 0       \* PHYSICAL_TAIL_THRESHOLD_PX
Reattach == 1     \* AUTO_SCROLL_REATTACH_THRESHOLD_PX
Detach == 2       \* AUTO_SCROLL_DETACH_THRESHOLD_PX
Far == 3
Distances == AtTail .. Far
Directions == {"forward", "backward"}

VARIABLES
  view,          \* the transcript: its refs and where it is scrolled to
  hasNewer,   \* the window ends before the newest event
  older,      \* older events: none, more, or asked for
  newer,      \* newer events are asked for
  filled,     \* the rows are higher than the view
  focus,      \* an event is focused by a link, and its tail is being returned to
  left,       \* the reader's last move ended far from the tail, no link being open
  scrollSpent

scrollVars == <<view, hasNewer, older, newer, filled, focus, left, scrollSpent>>
NoGesture == [on |-> FALSE, start |-> AtTail, previous |-> AtTail]

SpendScroll(kind) == scrollSpent[kind] < ScrollBounds[kind] /\ scrollSpent' = [scrollSpent EXCEPT ![kind] = @ + 1]

-----------------------------------------------------------------------------
ToEnd(s) == [s EXCEPT !.moved = @ \/ s.dist # AtTail, !.dist = AtTail]
(* scheduleTailScroll: now and in the next frame. *)
ScheduleTailScroll(s) == [ToEnd(s) EXCEPT !.frame = TRUE]

(* pauseFollowing *)
Pause(s) == [s EXCEPT !.pin = FALSE, !.frame = FALSE, !.snap = FALSE, !.following = FALSE]

(* resumeFollowing, and what it does when the latest events are there. *)
Resumed(s) ==
  [ScheduleTailScroll(s) EXCEPT !.following = TRUE, !.snap = FALSE, !.resuming = FALSE]
Resume(s) ==
  LET begun == [s EXCEPT !.detached = FALSE, !.gesture = NoGesture, !.pin = FALSE,
                         !.snap = TRUE, !.resuming = TRUE]
  IN  CASE s.resuming -> s
        [] ~s.resuming /\ hasNewer -> begun
        [] OTHER -> Resumed(begun)

(* reconcileSettledLiveTail applies, and what it then does. *)
AtSettledTail(s) ==
  ~focus.on /\ ~hasNewer /\ s.pointer = "none" /\ ~s.contact /\ s.dist = AtTail
Reconciled(s) ==
  [s EXCEPT !.detached = FALSE, !.gesture = NoGesture, !.intent = "none",
            !.snap = FALSE, !.following = TRUE]
Reconcile(s) == IF AtSettledTail(s) THEN Reconciled(s) ELSE s

(* Mutant: the browser's own panning is not told from a rebound. *)
TouchIgnoresPanning(s) == [s EXCEPT !.gesture.previous = s.dist]

(* reconcileTouchScrollIntent: the gesture's physical progress. *)
Touch(s) ==
  LET g == s.gesture
      moved == [s EXCEPT !.gesture.previous = s.dist]
  IN  CASE ~g.on -> s
        [] g.on /\ s.dist > g.previous /\ s.dist > g.start ->
             LET back == [moved EXCEPT !.intent = "backward", !.detached = TRUE]
             IN  IF s.following THEN Pause(back) ELSE back
        [] g.on /\ s.dist < g.previous /\ s.dist < g.start ->
             [moved EXCEPT !.intent = "forward", !.detached = FALSE]
        [] OTHER -> moved

(* handleNativeScroll *)
NativeScroll(s) ==
  LET g == Touch(s)
  IN  CASE focus.on -> s
        [] ~focus.on /\ s.dist <= Reattach ->
             IF g.detached THEN g
             ELSE IF hasNewer THEN [g EXCEPT !.snap = TRUE]
             ELSE [g EXCEPT !.snap = FALSE, !.following = TRUE]
        [] OTHER -> IF g.following THEN g ELSE [g EXCEPT !.snap = FALSE]

(* handleVirtualizerChange: what keeps the tail in view without the reader's hand ... *)
KeepTail(s) ==
  IF s.intent = "none" /\ s.following /\ ~hasNewer /\ s.dist > AtTail THEN ToEnd(s) ELSE s

(* ... while it scrolls in a direction ... *)
Moves(s, direction) ==
  CASE direction # s.intent -> s
    [] direction = s.intent /\ s.following ->
         IF s.dist > Detach THEN Pause(s)
         ELSE [s EXCEPT !.snap = direction = "backward" \/ s.dist > AtTail]
    [] direction = s.intent /\ ~s.following /\ direction = "backward" -> [s EXCEPT !.snap = FALSE]
    [] OTHER -> IF s.dist = AtTail /\ ~hasNewer THEN [s EXCEPT !.snap = FALSE, !.following = TRUE]
                ELSE [s EXCEPT !.snap = s.dist <= Reattach]

(* Mutant: a snap that has nowhere to go stays pending. *)
SettledKeepsSnap(s) ==
  LET rest == [s EXCEPT !.intent = "none"]
  IN  CASE AtSettledTail(rest) -> Reconciled(rest)
        [] ~AtSettledTail(rest) /\ ~rest.snap -> rest
        [] OTHER -> IF rest.following /\ ~hasNewer
                    THEN ScheduleTailScroll([rest EXCEPT !.snap = FALSE])
                    ELSE IF rest.dist <= Reattach THEN Resume(rest) ELSE rest

(* ... and when it has come to rest. *)
Settled(s) ==
  LET rest == [s EXCEPT !.intent = "none"]
  IN  CASE AtSettledTail(rest) -> Reconciled(rest)
        [] ~AtSettledTail(rest) /\ ~rest.snap -> rest
        [] OTHER -> IF rest.following /\ ~hasNewer
                    THEN ScheduleTailScroll([rest EXCEPT !.snap = FALSE])
                    ELSE IF rest.dist <= Reattach THEN Resume(rest)
                    ELSE [rest EXCEPT !.snap = FALSE]

Scrolls(s, direction) == Moves(KeepTail(NativeScroll([s EXCEPT !.scrolling = TRUE])), direction)

(* handleNativeScrollEnd *)
ScrollEnds(s) ==
  LET g == [Touch(s) EXCEPT !.gesture = NoGesture]
  IN  CASE focus.on -> s
        [] ~focus.on /\ AtSettledTail(g) -> Reconciled(g)
        [] ~focus.on /\ ~AtSettledTail(g) /\ (g.detached \/ g.dist > Reattach) -> g
        [] OTHER -> IF hasNewer THEN Resume(g) ELSE [g EXCEPT !.snap = FALSE, !.following = TRUE]

(* requestOlderEvents, at the first rows or when they do not fill the view. *)
OlderAt(edge) == older' = IF edge /\ older = "more" THEN "asked" ELSE older
NewerAt(edge) == newer' = (newer \/ (edge /\ hasNewer))

(* A step of the transcript; resuming with newer events to come asks for the
   latest (onJumpToLatest), which on a link returns to the tail first. *)
Step(s) ==
  LET asks == s.resuming /\ ~view.resuming
  IN  /\ view' = s
      /\ hasNewer' = IF asks /\ ~focus.on THEN FALSE ELSE hasNewer
      /\ focus' = IF asks /\ focus.on THEN [on |-> FALSE, returning |-> TRUE] ELSE focus

ScrollInit ==
  /\ focus \in [on : BOOLEAN, returning : {FALSE}] /\ hasNewer = focus.on
  /\ view = [dist |-> AtTail, following |-> ~focus.on, pin |-> ~focus.on, snap |-> FALSE,
          resuming |-> FALSE, frame |-> FALSE, moved |-> FALSE, scrolling |-> FALSE,
          detached |-> FALSE, gesture |-> NoGesture, intent |-> "none",
          pointer |-> "none", contact |-> FALSE]
  /\ older = "more" /\ newer = FALSE /\ filled \in BOOLEAN /\ left = FALSE
  /\ scrollSpent = [kind \in DOMAIN ScrollBounds |-> 0]

-----------------------------------------------------------------------------
(* The first rows are there. *)
Loaded == /\ view.pin /\ ~focus.on /\ Step(Resume(view))
          /\ UNCHANGED <<older, newer, filled, left, scrollSpent>>

Wheel(direction) ==
  /\ SpendScroll("hand") /\ Step([view EXCEPT !.gesture = NoGesture, !.intent = direction])
  /\ UNCHANGED <<older, newer, filled, left>>
PressKey(direction, page) ==
  LET pressed == [view EXCEPT !.gesture = NoGesture, !.intent = direction]
  IN  /\ SpendScroll("hand") /\ Step(IF page /\ direction = "backward" THEN Pause(pressed) ELSE pressed)
      /\ UNCHANGED <<older, newer, filled, left>>
PointerDown(kind) ==
  /\ view.pointer = "none" /\ ~view.contact /\ SpendScroll("hand")
  /\ Step([view EXCEPT !.pointer = kind, !.contact = kind = "touch",
             !.gesture = IF kind = "mouse" THEN NoGesture
                         ELSE [on |-> TRUE, start |-> view.dist, previous |-> view.dist]])
  /\ UNCHANGED <<older, newer, filled, left>>
PointerMove(direction) ==
  LET drawn == [view EXCEPT !.intent = direction,
                         !.detached = IF view.pointer = "touch" THEN direction = "backward" ELSE @]
  IN  /\ view.pointer # "none" /\ view.intent # direction
      /\ Step(IF view.pointer = "touch" /\ direction = "backward" /\ view.following
              THEN Pause(drawn) ELSE drawn)
      /\ UNCHANGED <<older, newer, filled, left, scrollSpent>>
(* A touch is a pointer and a contact; the contact ends after the pointer.
   A lifted pointer, or one the browser took over to pan. *)
PointerEnd(lifted) ==
  LET gone == [view EXCEPT !.pointer = "none", !.gesture = IF lifted THEN NoGesture ELSE @]
  IN  /\ view.pointer # "none" /\ (~lifted => view.pointer = "touch")
      /\ Step(IF lifted /\ ~view.scrolling THEN Reconcile(gone) ELSE gone)
      /\ UNCHANGED <<older, newer, filled, left, scrollSpent>>
TouchLifted ==
  LET lifted == [view EXCEPT !.contact = FALSE]
  IN  /\ view.contact /\ view.pointer = "none"
      /\ Step(IF ~view.scrolling THEN Reconcile(lifted) ELSE lifted)
      /\ UNCHANGED <<older, newer, filled, left, scrollSpent>>

(* The view scrolls by the reader's hand or its momentum: the native handler,
   then the virtualizer's notification.  The event of a scroll the code made is
   dispatched first. *)
Scroll(d, edge) ==
  LET direction == IF d > view.dist THEN "backward" ELSE "forward"
      moved == Scrolls([view EXCEPT !.dist = d], direction)
  IN  /\ filled /\ ~view.moved /\ view.pointer # "touch" /\ d # view.dist /\ SpendScroll("scroll")
      /\ view.gesture.on \/ view.intent = direction
      /\ Step(moved)
      /\ OlderAt(edge /\ direction = "backward" /\ view.intent = direction)
      /\ NewerAt(edge /\ direction = "forward" /\ ~moved.following /\ d > Reattach)
      /\ left' = CASE direction = "backward" /\ d = Far ->
                      left \/ (~focus.on /\ (view.gesture.on => d > view.gesture.start))
                   [] direction = "forward" /\ d <= Reattach -> FALSE
                   [] OTHER -> left
      /\ UNCHANGED filled

(* The event of a scroll the code made; the second scroll of scheduleTailScroll. *)
CodeScrolled == /\ view.moved /\ Step(Scrolls([view EXCEPT !.moved = FALSE], "forward"))
                /\ UNCHANGED <<older, newer, filled, left, scrollSpent>>
Frame == /\ view.frame /\ Step([ToEnd(view) EXCEPT !.frame = FALSE])
         /\ UNCHANGED <<older, newer, filled, left, scrollSpent>>

(* Native scrollend, which Safari may not send; the virtualizer's own rest. *)
ScrollEnd == /\ view.scrolling /\ ~view.moved /\ Step(ScrollEnds(view))
             /\ UNCHANGED <<older, newer, filled, left, scrollSpent>>
Rest == /\ view.scrolling /\ ~view.moved
        /\ Step(Settled(KeepTail([view EXCEPT !.scrolling = FALSE])))
        /\ OlderAt(~filled) /\ UNCHANGED <<newer, filled, left, scrollSpent>>

-----------------------------------------------------------------------------
(* Rows are added or regrouped, or the composer grows over them: the layout
   effects keep a followed tail in view. *)
Appended(d) ==
  /\ ~hasNewer /\ filled /\ d >= view.dist /\ SpendScroll("grow")
  /\ Step(IF view.following /\ ~view.pin THEN ScheduleTailScroll([view EXCEPT !.dist = d])
          ELSE [view EXCEPT !.dist = d])
  /\ UNCHANGED <<older, newer, filled, left>>

(* A row turns out higher than it was. *)
Measured(d) ==
  LET kept == KeepTail([view EXCEPT !.dist = d])
  IN  /\ filled /\ d > view.dist /\ SpendScroll("grow")
      /\ Step(IF view.scrolling THEN kept ELSE Settled(kept))
      /\ UNCHANGED <<older, newer, filled, left>>

(* The view is not filled: older events are asked for without the reader. *)
AskUnderfilled == /\ ~filled /\ older = "more" /\ older' = "asked"
                  /\ UNCHANGED <<view, hasNewer, newer, filled, focus, left, scrollSpent>>
(* The window keeps its oldest events and may drop its newest. *)
OlderLoaded(more, full, dropped) ==
  /\ older = "asked" /\ older' = IF more THEN "more" ELSE "none"
  /\ filled' = (filled \/ full) /\ (dropped => filled') /\ hasNewer' = (hasNewer \/ dropped)
  /\ UNCHANGED <<view, newer, focus, left, scrollSpent>>
NewerLoaded(more, d) ==
  /\ newer /\ newer' = FALSE /\ hasNewer' = (hasNewer /\ more)
  /\ d >= view.dist /\ d > AtTail
  /\ view' = LET s == [view EXCEPT !.dist = d]
          IN  IF view.following /\ ~view.pin /\ ~hasNewer' THEN ScheduleTailScroll(s) ELSE s
  /\ UNCHANGED <<older, filled, focus, left, scrollSpent>>

(* The reader asks for the latest: the button, or a message of their own. *)
ButtonShown == (~view.following \/ hasNewer) /\ ~view.snap
Jump == /\ ButtonShown /\ filled /\ SpendScroll("ask") /\ Step(Resume(view)) /\ left' = FALSE
        /\ UNCHANGED <<older, newer, filled>>
Sent == /\ SpendScroll("ask") /\ Step(Resume(view)) /\ left' = FALSE
        /\ UNCHANGED <<older, newer, filled>>
(* The latest is there: the view goes to it, wherever the reader is by now. *)
Jumped == /\ view.resuming /\ view' = Resumed(view) /\ left' = FALSE
          /\ UNCHANGED <<hasNewer, older, newer, filled, focus, scrollSpent>>

(* A link to an event is opened: its rows are brought into the view. *)
FocusEvent(d) ==
  /\ SpendScroll("ask") /\ focus' = [on |-> TRUE, returning |-> FALSE] /\ hasNewer' \in BOOLEAN
  /\ view' = [Pause(view) EXCEPT !.dist = d, !.moved = @ \/ d # view.dist]
  /\ left' = FALSE /\ UNCHANGED <<older, newer, filled>>
(* The tail is loaded again after the link was left. *)
Returned ==
  /\ focus.returning /\ focus' = [focus EXCEPT !.returning = FALSE] /\ hasNewer' = FALSE
  /\ view' = IF view.following /\ ~view.pin THEN ScheduleTailScroll(view) ELSE [view EXCEPT !.dist = Far]
  /\ UNCHANGED <<older, newer, filled, left, scrollSpent>>

ScrollNext ==
  \/ Loaded \/ CodeScrolled \/ Frame \/ ScrollEnd \/ Rest \/ TouchLifted
  \/ \E direction \in Directions :
       Wheel(direction) \/ PointerMove(direction) \/ \E page \in BOOLEAN : PressKey(direction, page)
  \/ \E kind \in {"mouse", "touch"} : PointerDown(kind)
  \/ \E lifted \in BOOLEAN : PointerEnd(lifted)
  \/ \E d \in Distances : \/ \E edge \in BOOLEAN : Scroll(d, edge)
                          \/ Appended(d) \/ Measured(d) \/ FocusEvent(d)
                          \/ \E more \in BOOLEAN : NewerLoaded(more, d)
  \/ AskUnderfilled \/ \E more, full, dropped \in BOOLEAN : OlderLoaded(more, full, dropped)
  \/ Jump \/ Sent \/ Jumped \/ Returned
ScrollSpec == ScrollInit /\ [][ScrollNext]_scrollVars

-----------------------------------------------------------------------------
AtRest == /\ ~view.scrolling /\ ~view.moved /\ ~view.frame /\ ~view.resuming /\ ~view.pin
          /\ view.pointer = "none" /\ ~view.contact /\ view.intent = "none" /\ ~focus.on /\ ~focus.returning

(* A reader who moved away from the tail is left alone: whatever arrives, grows
   or comes to rest, the transcript does not follow the tail again until they
   have come back to it or a jump to it they began is done.  A touch counts once
   it is past where it began, which is how the code tells it from an elastic rebound. *)
ReaderIsLeftAlone == left => ~view.following

(* At rest, the view either follows the tail or offers the way back: at the live
   tail it follows, and a snap that will not happen never hides the button. *)
RestsWithAWayBack ==
  AtRest => /\ (view.dist = AtTail /\ ~hasNewer => view.following)
            /\ (~view.following \/ hasNewer => ButtonShown)
=============================================================================
