---------------------------- MODULE PushNotices -----------------------------
(* Push notifications of one browser: switching them on and off and
   restoring them when the page loads (use-push-notifications.ts), the
   server's list of subscriptions, its waiting for the page to acknowledge
   an event before it pushes (internal/notifications), and the service
   worker that shows the push and remembers the session's attention.  The
   page may be hidden, reloaded or closed, requests may be lost, and the
   browser or the push service may drop a subscription. *)
EXTENDS Naturals, FiniteSets

CONSTANTS
  MaxSubscriptions,  \* bound: how often the browser subscribes
  MaxEvents,         \* bound: how many events ask for attention
  NoticesBounds      \* bound: how often something else happens, by kind

Nothing == 0
Events == 1 .. MaxEvents
Ops == {"restore", "enable", "disable"}

VARIABLES
  permission, \* what the user granted
  current,    \* the browser's subscription
  made,       \* how many there have been
  flag,       \* whether notifications were on, in the browser's storage
  registered, \* the subscriptions the server pushes to
  status,     \* what the page shows
  tasks,      \* per operation, how far it is and the subscription it took
  page,       \* "visible", "hidden" or "closed"
  happened,   \* how many events there were
  waiting,    \* the server's notices that are not sent yet
  hearing,    \* events a visible page is about to acknowledge
  acked,      \* what was acknowledged, per subscription
  noticed,    \* events that a visible page had
  alerted,    \* events that were shown as notifications
  attention,  \* the session's record in the worker's database
  excused,    \* why the page may be wrong about the subscription
  noticesSpent

switch == <<permission, current, made, flag, registered, status, tasks, excused>>
notices == <<happened, waiting, hearing, acked, noticed, alerted, attention>>
noticesVars == <<switch, page, notices, noticesSpent>>

IdleTask == [at |-> "idle", sub |-> Nothing]
Quiet == \A op \in Ops : tasks[op] = IdleTask

(* initialStatus: the stored flag, before the subscription is looked up. *)
StatusAtLoad == CASE permission = "denied" -> "denied"
                  [] permission = "granted" /\ flag -> "enabled"
                  [] OTHER -> "default"

NoticesInit ==
  /\ permission \in {"default", "granted"} /\ current = Nothing /\ made = 0 /\ flag = FALSE
  /\ registered = {} /\ status = "default" /\ page = "visible"
  /\ tasks = [op \in Ops |-> IdleTask]
  /\ happened = 0 /\ waiting = {} /\ hearing = {} /\ acked = {} /\ noticed = {}
  /\ alerted = {} /\ attention = Nothing /\ excused = {}
  /\ noticesSpent = [kind \in DOMAIN NoticesBounds |-> 0]

SpendNotice(kind) == /\ noticesSpent[kind] < NoticesBounds[kind]
                     /\ noticesSpent' = [noticesSpent EXCEPT ![kind] = @ + 1]
Task(op, at, sub) == tasks' = [tasks EXCEPT ![op] = [at |-> at, sub |-> sub]]
Finish(op) == tasks' = [tasks EXCEPT ![op] = IdleTask]

-----------------------------------------------------------------------------
(* The page loads: with permission, the browser's subscription is registered again. *)
LoadPage ==
  /\ page # "closed" => SpendNotice("reload")
  /\ page = "closed" => UNCHANGED noticesSpent
  /\ page' = "visible" /\ status' = StatusAtLoad /\ hearing' = {}
  /\ tasks' = [op \in Ops |-> IF op = "restore" /\ permission = "granted" /\ current # Nothing
                              THEN [at |-> "save", sub |-> current] ELSE IdleTask]
  /\ UNCHANGED <<permission, current, made, flag, registered, excused, happened, waiting, acked,
                 noticed, alerted, attention>>
Hide == /\ page = "visible" /\ page' = "hidden" /\ SpendNotice("hide")
        /\ UNCHANGED <<switch, notices>>
Show == /\ page = "hidden" /\ page' = "visible" /\ UNCHANGED <<switch, notices, noticesSpent>>
CloseTab == /\ page # "closed" /\ SpendNotice("close") /\ page' = "closed" /\ hearing' = {}
            /\ tasks' = [op \in Ops |-> IdleTask]
            /\ UNCHANGED <<permission, current, made, flag, registered, status, excused,
                           happened, waiting, acked, noticed, alerted, attention>>

(* The popover's switch: locked while enabling, and on or off by the status. *)
SwitchIs(on) == status \notin {"denied", "enabling"} /\ on = (status = "enabled")

(* enable: the user is asked for permission if there is none. *)
EnableStart ==
  /\ page # "closed" /\ SwitchIs(FALSE) /\ tasks["enable"] = IdleTask /\ SpendNotice("toggle")
  /\ \E answer \in IF permission = "default" THEN {"default", "granted", "denied"} ELSE {permission} :
       /\ permission' = answer
       /\ IF answer = "granted"
          THEN status' = "enabling" /\ Task("enable", "get", Nothing) /\ UNCHANGED flag
          ELSE status' = answer /\ flag' = FALSE /\ UNCHANGED tasks
  /\ UNCHANGED <<current, made, registered, excused, page, notices>>

(* Mutant: a subscription the browser has is taken for one the server has. *)
SubscribeTrusts ==
  /\ tasks["enable"].at = "get"
  /\ IF current # Nothing
     THEN Task("enable", "saved", current) /\ UNCHANGED <<current, made>>
     ELSE /\ made < MaxSubscriptions
          /\ current' = made + 1 /\ made' = made + 1 /\ Task("enable", "save", made + 1)
  /\ UNCHANGED <<permission, flag, registered, status, excused, page, notices, noticesSpent>>

(* ensurePushSubscription(false): the browser's subscription, or a new one. *)
Subscribe ==
  /\ tasks["enable"].at = "get"
  /\ IF current # Nothing
     THEN Task("enable", "save", current) /\ UNCHANGED <<current, made>>
     ELSE /\ made < MaxSubscriptions
          /\ current' = made + 1 /\ made' = made + 1 /\ Task("enable", "save", made + 1)
  /\ UNCHANGED <<permission, flag, registered, status, excused, page, notices, noticesSpent>>

(* The server saves or deletes a subscription. *)
ServeSave(op) ==
  /\ tasks[op].at = "save" /\ registered' = registered \cup {tasks[op].sub}
  /\ Task(op, "saved", tasks[op].sub)
  /\ excused' = IF tasks[op].sub = current /\ tasks["disable"] = IdleTask THEN {} ELSE excused
  /\ UNCHANGED <<permission, current, made, flag, status, page, notices, noticesSpent>>
ServeDelete ==
  /\ tasks["disable"].at = "delete" /\ registered' = registered \ {tasks["disable"].sub}
  /\ Task("disable", "unsubscribe", tasks["disable"].sub)
  /\ UNCHANGED <<permission, current, made, flag, status, excused, page, notices, noticesSpent>>
TaskFails(op) ==
  /\ tasks[op].at \in {"get", "save", "saved", "delete", "unsubscribe"} /\ SpendNotice("lost")
  /\ Task(op, "failed", tasks[op].sub)
  /\ UNCHANGED <<permission, current, made, flag, registered, status, excused, page, notices>>

TaskSaved(op) ==
  /\ tasks[op].at = "saved" /\ Finish(op)
  /\ flag' = TRUE /\ status' = "enabled"
  /\ UNCHANGED <<permission, current, made, registered, excused, page, notices, noticesSpent>>

DisableStart ==
  /\ page # "closed" /\ SwitchIs(TRUE) /\ tasks["disable"] = IdleTask /\ SpendNotice("toggle")
  /\ IF current = Nothing
     THEN status' = "default" /\ flag' = FALSE /\ UNCHANGED tasks
     ELSE Task("disable", "delete", current) /\ UNCHANGED <<status, flag>>
  /\ excused' = IF ~Quiet THEN excused \cup {"raced"} ELSE excused
  /\ UNCHANGED <<permission, current, made, registered, page, notices>>
Unsubscribe ==
  /\ tasks["disable"].at = "unsubscribe" /\ Finish("disable")
  /\ current' = IF current = tasks["disable"].sub THEN Nothing ELSE current
  /\ flag' = FALSE /\ status' = "default"
  /\ UNCHANGED <<permission, made, registered, excused, page, notices, noticesSpent>>

(* A failed restore is not shown; the others are. *)
TaskFailed(op) ==
  /\ tasks[op].at = "failed" /\ Finish(op)
  /\ status' = IF op = "restore" THEN status ELSE "error"
  /\ flag' = IF op = "enable" THEN FALSE ELSE flag
  /\ excused' = IF op = "restore" THEN excused \cup {"unrestored"} ELSE excused
  /\ UNCHANGED <<permission, current, made, registered, page, notices, noticesSpent>>

(* The browser gives a subscription up, or the push service says it is gone. *)
Dropped ==
  /\ current # Nothing /\ SpendNotice("drop")
  /\ \/ current' = Nothing /\ UNCHANGED registered
     \/ registered' = registered \ {current} /\ UNCHANGED current
  /\ excused' = excused \cup {"dropped"}
  /\ UNCHANGED <<permission, made, flag, status, tasks, page, notices>>

-----------------------------------------------------------------------------
(* An event asks for attention: the server waits before it pushes to those who
   are subscribed, and a visible page hears of it. *)
Happens ==
  /\ happened < MaxEvents /\ happened' = happened + 1
  /\ waiting' = waiting \cup {[seq |-> happened', sub |-> s] : s \in registered}
  /\ \/ /\ page = "visible"
        /\ hearing' = hearing \cup {happened'} /\ noticed' = noticed \cup {happened'}
     \/ UNCHANGED <<hearing, noticed>>
  /\ UNCHANGED <<switch, page, acked, alerted, attention, noticesSpent>>

(* acknowledgeSessionNotification: only if the page still is visible when the
   subscription is known, and never again if it fails. *)
Acknowledge(seq) ==
  /\ seq \in hearing /\ hearing' = hearing \ {seq}
  /\ \/ /\ permission = "granted" /\ page = "visible" /\ current \in registered
        /\ acked' = acked \cup {[seq |-> seq, sub |-> current]}
     \/ UNCHANGED acked
  /\ noticed' = IF page = "visible" THEN noticed ELSE noticed \ {seq}
  /\ UNCHANGED <<switch, page, happened, waiting, alerted, attention, noticesSpent>>

(* sendToActiveSubscriptions: the push, and the worker that shows it. *)
Push(notice) ==
  /\ notice \in waiting /\ waiting' = waiting \ {notice}
  /\ IF notice \in acked \/ notice.sub # current THEN UNCHANGED <<alerted, attention>>
     ELSE alerted' = alerted \cup {notice.seq} /\ attention' = notice.seq
  /\ UNCHANGED <<switch, page, happened, hearing, acked, noticed, noticesSpent>>

(* The user opens the session: its attention is over. *)
Look == /\ page = "visible" /\ attention # Nothing /\ attention' = Nothing
        /\ noticed' = noticed \cup alerted
        /\ UNCHANGED <<switch, page, happened, waiting, hearing, acked, alerted, noticesSpent>>

NoticesNext ==
  \/ LoadPage \/ Hide \/ Show \/ CloseTab
  \/ EnableStart \/ Subscribe \/ DisableStart \/ ServeDelete \/ Unsubscribe \/ Dropped
  \/ \E op \in {"restore", "enable"} : ServeSave(op) \/ TaskSaved(op)
  \/ \E op \in Ops : TaskFails(op) \/ TaskFailed(op)
  \/ Happens \/ Look
  \/ \E seq \in Events : Acknowledge(seq)
  \/ \E notice \in waiting : Push(notice)

NoticesSpec == NoticesInit /\ [][NoticesNext]_noticesVars

-----------------------------------------------------------------------------
OnMeansSubscribed ==
  page # "closed" /\ Quiet /\ status = "enabled" /\ excused = {} => current \in registered

SkippedWasNoticed == \A a \in acked : a.seq \in noticed \cup alerted

(* "This browser will alert you when a running session stops": once nothing is
   under way, that is so, whatever failed before.  Not when a subscription was
   dropped behind the page's back, when restoring it failed, which the page
   keeps to itself, or when notifications were switched off meanwhile.  And an
   event whose push was left out for an acknowledgement was had by a page that
   was visible when it acknowledged. *)
NoticesReachTheUser == OnMeansSubscribed /\ SkippedWasNoticed
=============================================================================
