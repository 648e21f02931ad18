-------------------------- MODULE SessionSchedules --------------------------
(* The schedules of a session in its settings (components/
   session-schedules.tsx): a panel that reads the list and then the runs of
   each schedule, again after everything it does and whenever another number of
   the session's events that the page has at hand name a schedule, over the
   scheduler (internal/scheduler/service.go) that the occurrences and other
   clients change as well.

   One schedule at most; its prompt and cadence are a version number.  The
   session has had no schedule event before. *)
EXTENDS Integers, FiniteSets

CONSTANT PanelBounds   \* bound: presses, changes elsewhere, steps of the runs, lost answers,
                       \* moves of the window, loads at once; one of these

VARIABLES
  schedule, run,           \* the schedule, or Gone, and the status of its newest occurrence
  changes,                 \* the schedule events of the session
  window,                  \* the page has those after the first number, up to the second
  counted,                 \* history: how many there were when their number last changed there, or
                           \* an action of the panel was done
  schedules, occurrences,  \* the schedule and its newest occurrence, as shown
  editing,                 \* the version in the editor, or NotEditing
  busy, message,           \* what is being done; whether an error is shown
  press,                  \* the action that is on its way, or NoPress
  loads,                   \* the loads that are under way
  newest,                  \* the list and the runs that came last: whether nothing had changed
                           \* since they were read, and they could be read
  panelLeft

schedulerVars == <<schedule, run, changes>>
heardOf == <<window, counted>>
shown == <<schedules, occurrences>>
panelVars == <<schedulerVars, heardOf, shown, editing, busy, message, press, loads, newest,
               panelLeft>>

SpendPanel(kind) == panelLeft[kind] > 0 /\ panelLeft' = [panelLeft EXCEPT ![kind] = @ - 1]
Unspent == panelLeft' = panelLeft

Gone == [text |-> 0, enabled |-> FALSE]
NotEditing == 0
Creating == 1
NoPress == [by |-> "none", what |-> "none", input |-> Gone]

(* A load reads the list, then the runs; `for` is what waits for it. *)
LoadFor(for) == [for |-> for, n |-> 0, stage |-> "list", read |-> FALSE,
                 list |-> Gone, runs |-> "none", old |-> FALSE]

PanelInit ==
  /\ schedule \in {Gone, [text |-> 1, enabled |-> TRUE]} /\ run = "none"
  /\ changes = 0 /\ window = <<0, 0>> /\ counted = 0
  /\ schedules = Gone /\ occurrences = "none" /\ editing = NotEditing
  /\ busy = "none" /\ message = FALSE
  /\ press = NoPress
  /\ loads = {LoadFor("mount")}
  /\ newest = [list |-> TRUE, history |-> TRUE]
  /\ panelLeft \in PanelBounds

-----------------------------------------------------------------------------
(* Whatever changes the schedule or a run of it is followed by an event; what a
   load has read by then is old. *)
Aged == {IF l.stage = "list" /\ ~l.read THEN l ELSE [l EXCEPT !.old = TRUE] : l \in loads}
ChangeSchedule(to) == schedule' = to /\ changes' = changes + 1
ChangeRun(to) == run' = to /\ changes' = changes + 1
ServerStep == /\ loads' = Aged
              /\ UNCHANGED <<heardOf, shown, editing, busy, message, press, newest>>

Elsewhere ==
  /\ SpendPanel("elsewhere") /\ schedule # Gone
  /\ \/ ChangeSchedule([schedule EXCEPT !.text = @ + 1])
     \/ ChangeSchedule(Gone)
  /\ UNCHANGED run /\ ServerStep

RunStep ==
  /\ schedule # Gone /\ SpendPanel("runs")
  /\ \/ run \notin {"queued", "running"} /\ schedule.enabled /\ ChangeRun("queued")
     \/ run = "queued" /\ ChangeRun("running")
     \/ run = "running" /\ ChangeRun("completed")
  /\ UNCHANGED schedule /\ ServerStep

Possible(r) ==
  \/ r.what = "create"
  \/ r.what # "create" /\ schedule # Gone /\ (r.what = "cancel" => run = "queued")

Effect(r) ==
  CASE r.what \in {"create", "update"} -> ChangeSchedule(r.input) /\ UNCHANGED run
    [] r.what = "delete" -> ChangeSchedule(Gone) /\ run' = "none"
    [] r.what = "run"    -> ChangeRun("queued") /\ UNCHANGED schedule
    [] r.what = "cancel" -> ChangeRun("cancelled") /\ UNCHANGED schedule

-----------------------------------------------------------------------------
NewOrEdit ==
  /\ editing = NotEditing /\ Unspent
  /\ \/ schedules = Gone /\ schedule = Gone
     \/ schedules # Gone /\ busy = "none"
  /\ editing' = schedules.text + 1
  /\ UNCHANGED <<schedulerVars, heardOf, shown, busy, message, press, loads, newest>>

CancelEditing ==
  /\ editing # NotEditing /\ editing' = NotEditing /\ Unspent
  /\ UNCHANGED <<schedulerVars, heardOf, shown, busy, message, press, loads, newest>>

Ask(by, what, input) ==
  /\ press = NoPress /\ SpendPanel("presses") /\ busy' = by
  /\ press' = [by |-> by, what |-> what, input |-> input]
  /\ UNCHANGED <<schedulerVars, heardOf, shown, editing, message, loads, newest>>

SaveSchedule ==
  /\ editing # NotEditing /\ busy # "save"
  /\ \E enabled \in BOOLEAN :
       LET input == [text |-> editing, enabled |-> enabled]
       IN  \/ editing = Creating /\ schedule = Gone /\ Ask("save", "create", input)
           \/ editing # Creating /\ schedules # Gone /\ Ask("save", "update", input)

(* The buttons of a schedule; pausing sends all of it as it is listed. *)
Perform ==
  /\ schedules # Gone /\ editing = NotEditing /\ busy = "none"
  /\ \/ Ask("perform", "update", [schedules EXCEPT !.enabled = ~@])
     \/ Ask("perform", "run", Gone)
     \/ Ask("perform", "delete", Gone)
     \/ occurrences = "queued" /\ Ask("perform", "cancel", Gone)

(* Done, and the list is read again before the buttons come back. *)
Done ==
  /\ press # NoPress /\ Possible(press) /\ Unspent
  /\ Effect(press) /\ press' = NoPress
  /\ editing' = IF press.by = "save" THEN NotEditing ELSE editing
  /\ loads' = Aged \cup {LoadFor(press.by)}
  /\ counted' = changes'
  /\ UNCHANGED <<window, shown, busy, message, newest>>

(* Refused, or no answer: done or not, the list is not read. *)
Undone ==
  /\ press # NoPress
  /\ \/ ~Possible(press) /\ Unspent /\ UNCHANGED <<schedulerVars, loads>>
     \/ Possible(press) /\ SpendPanel("lost") /\ UNCHANGED <<schedulerVars, loads>>
     \/ Possible(press) /\ SpendPanel("lost") /\ Effect(press) /\ loads' = Aged
  /\ press' = NoPress /\ busy' = "none" /\ message' = TRUE
  /\ UNCHANGED <<heardOf, shown, editing, newest>>

-----------------------------------------------------------------------------
(* scheduleRefreshKey: the schedule events among those the page has at hand. *)
Count(w) == w[2] - w[1]

(* Mutant: the first schedule event is taken for none. *)
RefreshesLate(key) == key > 1
Refreshes(key) == key > 0

(* Events come, older ones leave the page's window; or it moves back to older ones. *)
WindowMoves(w) ==
  /\ w # window
  /\ IF window[1] = w[1] /\ window[2] <= w[2] THEN Unspent ELSE SpendPanel("windows")
  /\ window' = w

(* The panel reads again when the number has changed, and is not 0. *)
HearEvents ==
  /\ \E from \in 0 .. changes : \E to \in from .. changes : WindowMoves(<<from, to>>)
  /\ counted' = IF Count(window') # Count(window) /\ Count(window') > 0 THEN changes ELSE counted
  /\ \/ /\ Count(window') # Count(window) /\ Refreshes(Count(window'))
        /\ Cardinality(loads) < panelLeft.loads
        /\ \E n \in 1 .. panelLeft.loads :
             /\ \A l \in loads : l.n # n
             /\ \A m \in 1 .. n - 1 : \E l \in loads : l.n = m
             /\ loads' = loads \cup {[LoadFor("event") EXCEPT !.n = n]}
     \/ /\ ~(Count(window') # Count(window) /\ Refreshes(Count(window')))
        /\ UNCHANGED loads
  /\ UNCHANGED <<schedulerVars, shown, editing, busy, message, press, newest>>

ServeLoad(l) ==
  /\ ~l.read /\ Unspent /\ (l.stage = "history" => schedule # Gone)
  /\ loads' = (loads \ {l}) \cup
       {IF l.stage = "list" THEN [l EXCEPT !.read = TRUE, !.list = schedule]
        ELSE [l EXCEPT !.read = TRUE, !.runs = run]}
  /\ UNCHANGED <<schedulerVars, heardOf, shown, editing, busy, message, press, newest>>

(* What waits for the load goes on; after an action the message is cleared,
   the one of a load that just failed as well. *)
Ended(l, failed) ==
  /\ busy' = IF l.for \in {"save", "perform"} THEN "none" ELSE busy
  /\ message' = (failed /\ l.for # "perform")

Listed(l) ==
  /\ l.stage = "list" /\ l.read /\ Unspent
  /\ schedules' = l.list
  /\ IF l.list = Gone
     THEN /\ occurrences' = "none" /\ loads' = loads \ {l} /\ Ended(l, FALSE)
     ELSE /\ loads' = (loads \ {l}) \cup {[l EXCEPT !.stage = "history", !.read = FALSE]}
          /\ UNCHANGED <<occurrences, busy, message>>
  /\ newest' = [newest EXCEPT !.list = ~l.old]
  /\ UNCHANGED <<schedulerVars, heardOf, editing, press>>

HistoryRead(l) ==
  /\ l.stage = "history" /\ l.read /\ Unspent
  /\ occurrences' = l.runs /\ loads' = loads \ {l} /\ Ended(l, FALSE)
  /\ newest' = [newest EXCEPT !.history = ~l.old]
  /\ UNCHANGED <<schedulerVars, heardOf, schedules, editing, press>>

LoadFails(l) ==
  /\ \/ l.stage = "history" /\ ~l.read /\ schedule = Gone /\ Unspent
     \/ SpendPanel("lost")
  /\ loads' = loads \ {l} /\ Ended(l, TRUE)
  /\ newest' = [newest EXCEPT ![l.stage] = FALSE]
  /\ UNCHANGED <<schedulerVars, heardOf, shown, editing, press>>

PanelNext ==
  \/ Elsewhere \/ RunStep
  \/ NewOrEdit \/ CancelEditing \/ SaveSchedule \/ Perform \/ Done \/ Undone \/ HearEvents
  \/ \E l \in loads : ServeLoad(l) \/ Listed(l) \/ HistoryRead(l) \/ LoadFails(l)
PanelSpec == PanelInit /\ [][PanelNext]_panelVars

-----------------------------------------------------------------------------
Resting == loads = {} /\ press = NoPress /\ window[2] = changes /\ ~message
Uncounted == counted < changes

(* A panel that is at rest, without a message, shows the schedule and its runs as
   the server has them: none of its own actions, of the runs and of the changes
   made elsewhere is left out, unless what came last had been overtaken by a change, or
   could not be read and the message about it was cleared.  Given up when the events
   of a change came while as many others left the window, or left it at once, so
   that their number is the same or 0 ("uncounted"). *)
RestingListIsTrue ==
  Resting /\ ~Uncounted /\ newest.list /\ newest.history =>
    schedules = schedule /\ (schedule # Gone => occurrences = run)
=============================================================================
