------------------------------ MODULE DevStack ------------------------------
(* The persistent development stack: the supervisor that rebuilds the
   backend when its sources change (scripts/dev.ts), the launch agent it
   runs under (scripts/human-dev.ts), and the refresh of the frontend it
   serves (scripts/prod-refresh.ts, scripts/build.ts).  A source tree is a
   number that grows with every change; the signature the watcher compares
   grows only with what it looks at. *)
EXTENDS Integers

CONSTANT StackBounds   \* bound: edits, refreshes, sessions, unanswered requests, failed builds, stops

VARIABLES
  source,      \* what a build would read
  signature,   \* what backendSignature would read
  job,         \* the supervisor: "off", "starting", "up", "stopping"
  reading,     \* the signature a poll has read (checkingForChanges), or -1
  seen,        \* lastBackendSignature
  timer,       \* restartTimer: armed, and whether one it replaced is still armed
  restart,     \* restartBackend: "idle", "asking", "stopping", "building", "read"
  building,    \* the sources the running build has read
  backend,     \* the sources of the running backend, or -1
  session,     \* a session is running
  refresh,     \* prod-refresh: where it stands ("queued": said so of running sessions), what it expects
  missed,      \* a change came due while a restart was under way
  stackSpent

stackVars == <<source, signature, job, reading, seen, timer, restart, building, backend,
          session, refresh, missed, stackSpent>>

watcher == <<reading, seen, timer>>
tree == <<source, signature>>

StackSpends(kind) ==
  stackSpent[kind] < StackBounds[kind] /\ stackSpent' = [stackSpent EXCEPT ![kind] = @ + 1]
Free == stackSpent' = stackSpent

NoTimer == [armed |-> FALSE, stray |-> FALSE]

StackInit ==
  /\ source = 0 /\ signature = 0 /\ job = "off" /\ reading = -1 /\ seen = 0
  /\ timer = NoTimer /\ restart = "idle" /\ building = 0 /\ backend = -1
  /\ session = FALSE /\ refresh = [at |-> "idle", expects |-> 0] /\ missed = FALSE
  /\ stackSpent = [kind \in DOMAIN StackBounds |-> 0]

-----------------------------------------------------------------------------
(* The agent's commands. *)
Start ==
  /\ job = "off" /\ StackSpends("stops")
  /\ job' = "starting" /\ seen' = signature /\ restart' = "building" /\ missed' = FALSE
  /\ UNCHANGED <<source, signature, reading, timer, building, backend, session, refresh>>

Gone ==
  /\ job' = "off" /\ reading' = -1 /\ timer' = NoTimer /\ restart' = "idle"
  /\ backend' = -1 /\ session' = FALSE
  /\ UNCHANGED <<source, signature, seen, building, refresh, missed>>

(* Before the hooks are registered a signal ends the supervisor at once. *)
StopEarly == job = "starting" /\ Free /\ Gone

(* shutdown: the timers are cleared, then both processes are awaited.  The
   frontend's end begins it too.  A build that is running goes on. *)
Shutdown ==
  /\ job = "up" /\ Free
  /\ job' = "stopping" /\ timer' = [timer EXCEPT !.armed = FALSE]
  /\ backend' = -1 /\ session' = FALSE
  /\ UNCHANGED <<source, signature, reading, seen, restart, building, refresh, missed>>
Exit == job = "stopping" /\ Free /\ Gone

-----------------------------------------------------------------------------
(* What happens around the supervisor. *)
Edit ==
  /\ StackSpends("edits") /\ source' = source + 1 /\ signature' = signature + 1
  /\ UNCHANGED <<job, watcher, restart, building, backend, session, refresh, missed>>

SessionStarts ==
  /\ backend # -1 /\ ~session /\ StackSpends("sessions") /\ session' = TRUE
  /\ UNCHANGED <<tree, job, watcher, restart, building, backend, refresh, missed>>
SessionEnds ==
  /\ session /\ Free /\ session' = FALSE
  /\ UNCHANGED <<tree, job, watcher, restart, building, backend, refresh, missed>>

-----------------------------------------------------------------------------
(* startBackendWatcher: a poll reads the tree, then compares. *)
Poll ==
  /\ job = "up" /\ reading = -1 /\ signature # seen /\ Free
  /\ reading' = signature
  /\ UNCHANGED <<tree, job, seen, timer, restart, building, backend, session, refresh, missed>>

(* scheduleBackendRestart: the timer held is replaced. *)
Compare ==
  /\ reading # -1 /\ Free
  /\ reading' = -1 /\ seen' = reading
  /\ timer' = IF reading # seen THEN [timer EXCEPT !.armed = TRUE] ELSE timer
  /\ UNCHANGED <<tree, job, restart, building, backend, session, refresh, missed>>

(* restartBackend: a timer that comes due while a restart runs does nothing. *)
Fires(which) ==
  /\ timer[which] /\ Free
  /\ timer' = [timer EXCEPT ![which] = FALSE]
  /\ IF job = "up" /\ restart = "idle"
     THEN restart' = "asking" /\ UNCHANGED missed
     ELSE missed' = (missed \/ job = "up") /\ UNCHANGED restart
  /\ UNCHANGED <<tree, job, reading, seen, building, backend, session, refresh>>

(* Mutant: the restart is put off without being tried again. *)
PutOffForGood == UNCHANGED timer
(* The restart is tried again later; the timer held is not cleared. *)
PutOff == timer' = [armed |-> TRUE, stray |-> timer.armed \/ timer.stray]

(* hasRunningSessions: no answer, and a refusal, mean there is none. *)
Asked ==
  /\ restart = "asking"
  /\ \/ session /\ Free /\ PutOff /\ restart' = "idle"
     \/ ~session /\ Free /\ restart' = "stopping" /\ UNCHANGED timer
     \/ session /\ StackSpends("unanswered") /\ restart' = "stopping" /\ UNCHANGED timer
  /\ UNCHANGED <<tree, job, reading, seen, building, backend, session, refresh, missed>>

StopBackend ==
  /\ restart = "stopping" /\ Free
  /\ restart' = "building" /\ backend' = -1 /\ session' = FALSE
  /\ UNCHANGED <<tree, job, watcher, building, refresh, missed>>

(* buildBackend reads the tree and takes its time. *)
BuildReads ==
  /\ restart = "building" /\ Free
  /\ restart' = "read" /\ building' = source
  /\ UNCHANGED <<tree, job, watcher, backend, session, refresh, missed>>

Built ==
  /\ restart = "read" /\ restart' = "idle"
  /\ \/ Free /\ backend' = building
     \/ StackSpends("failures") /\ UNCHANGED backend
  /\ job' = IF job = "starting" THEN "up" ELSE job
  /\ UNCHANGED <<tree, watcher, building, session, refresh, missed>>

-----------------------------------------------------------------------------
(* prod-refresh: main *)
At(place) == refresh' = [refresh EXCEPT !.at = place]
RefreshStep(from) ==
  /\ refresh.at = from
  /\ UNCHANGED <<job, watcher, restart, building, backend, session, missed>>

(* requireHumanStack, then the frontend is built. *)
Require ==
  /\ RefreshStep("idle") /\ job # "off" /\ backend # -1 /\ StackSpends("refreshes")
  /\ At("building") /\ UNCHANGED tree

(* stageAssets: the watcher does not look where the assets are put. *)
Stage ==
  /\ RefreshStep("building") /\ Free
  /\ source' = source + 1 /\ UNCHANGED signature
  /\ refresh' = [at |-> "staged", expects |-> source']

Served == RefreshStep("staged") /\ Free /\ backend >= refresh.expects /\ At("updated") /\ UNCHANGED tree
Nudge ==
  /\ RefreshStep("staged") /\ Free /\ backend < refresh.expects
  /\ signature' = signature + 1 /\ UNCHANGED source /\ At("nudged")

(* A request that fails means that sessions may be running. *)
Busy == session \/ backend = -1
PutOffTold ==
  /\ RefreshStep("nudged") /\ Free /\ Busy /\ UNCHANGED tree
  /\ At(IF session THEN "queued" ELSE "told")
Await == RefreshStep("nudged") /\ Free /\ ~Busy /\ At("waiting") /\ UNCHANGED tree

(* waitForPromotion *)
Promotion ==
  /\ RefreshStep("waiting") /\ Free /\ UNCHANGED tree
  /\ \/ backend >= refresh.expects /\ At("updated")
     \/ backend < refresh.expects /\ Busy /\ At(IF session THEN "queued" ELSE "told")
     \/ backend < refresh.expects /\ At("timed out")

NewRefresh ==
  /\ refresh.at \in {"queued", "told", "updated", "timed out"} /\ stackSpent["refreshes"] < StackBounds["refreshes"]
  /\ RefreshStep(refresh.at) /\ Free /\ At("idle") /\ UNCHANGED tree

StackNext ==
  \/ Start \/ StopEarly \/ Shutdown \/ Exit \/ Edit \/ SessionStarts \/ SessionEnds
  \/ Poll \/ Compare \/ Fires("armed") \/ Fires("stray") \/ Asked \/ StopBackend
  \/ BuildReads \/ Built
  \/ Require \/ Stage \/ Served \/ Nudge \/ PutOffTold \/ Await \/ Promotion \/ NewRefresh
StackSpec == StackInit /\ [][StackNext]_stackVars

-----------------------------------------------------------------------------
(* The supervisor has nothing left to do. *)
Idle ==
  /\ job = "up" /\ restart = "idle" /\ timer = NoTimer /\ reading = -1
  /\ signature = seen /\ backend # -1 /\ refresh.at # "staged"

(* What the idle supervisor serves is built from the newest sources, whatever
   the sessions, the failed builds and the refreshes in between: only a change
   that came due while a restart was under way is not built. *)
IdleServesNewest == Idle /\ ~missed => backend = source
=============================================================================
