------------------------------ MODULE RunQueue ------------------------------
(***************************************************************************)
(* One session of the server: its row (sessions), its message queue        *)
(* (queued_messages), the occurrences of its schedules, the run manager's  *)
(* entry for it, and the goroutines that act on them.  A goroutine is a    *)
(* member of Procs.  It begins as a message handler, a schedule firing or  *)
(* a queue dispatcher; when it launches a run it becomes that run's        *)
(* goroutine, and after cleanup it may dispatch again.  The store keeps    *)
(* one SQLite connection, so a store call is one action; everything        *)
(* between two store calls can interleave.                                 *)
(***************************************************************************)
EXTENDS Naturals, FiniteSets

CONSTANTS
  Manual,        \* messages clients send (a compaction is one that is not queued)
  Scheduled,     \* messages schedules materialise, one per occurrence
  Procs,         \* goroutines that may be at work at the same time
  Cancellers,    \* concurrent calls of the session cancel endpoint
  Admin,         \* which session operations are called: "archive", "clear"
  Outcomes,      \* how agents may end: subset of RunOutcomes
  ExplicitQueue, \* whether clients set "queue" on their messages
  MaxPending,    \* maxQueuedMessages
  MaxFaults,     \* bound: store or event writes that fail
  MaxCrashes,    \* bound: crashes of the server
  NoMsg, NoProc

Messages == Manual \cup Scheduled
RunOutcomes == {"completed", "failed", "cancelled"}

ASSUME ConstantsAssumption ==
  /\ Manual \cap Scheduled = {}
  /\ NoMsg \notin Messages /\ NoProc \notin Procs
  /\ Admin \subseteq {"archive", "clear"}
  /\ Outcomes \subseteq RunOutcomes
  /\ ExplicitQueue \in BOOLEAN
  /\ MaxPending \in Nat /\ MaxFaults \in Nat /\ MaxCrashes \in Nat

VARIABLES
  status, archived,        \* the sessions row
  row, seq, lastSeq,       \* queued_messages: status and seq of each message
  occ,                     \* schedule_occurrences: status per scheduled message
  active, cancelled,       \* Manager.runs[session]: its owner, and run.cancelled
  pc, msg, outcome, emitted, \* per goroutine: position, message, result, terminalEventEmitted
  canceller, archiver, clearer, \* positions of the other handlers
  boot,                    \* "up", or the step of startup under way
  posted,                  \* messages already submitted or materialised
  said, launches,          \* user.message events, agent executions, per message
  ends, tail,              \* terminal events: of the goroutine's run; since the last start
  faults, crashes          \* what is left of the two bounds

sessionVars == <<status, archived>>
queueVars == <<row, seq, lastSeq>>
managerVars == <<active, cancelled>>
procVars == <<pc, msg, outcome, emitted>>
handlerVars == <<canceller, archiver, clearer>>
logVars == <<said, launches, ends, tail>>
vars == <<status, archived, row, seq, lastSeq, occ, active, cancelled, pc, msg,
          outcome, emitted, canceller, archiver, clearer, boot, posted, said,
          launches, ends, tail, faults, crashes>>

SessionStatuses == {"idle", "running", "failed"}
RowStatuses == {"none", "pending", "sending", "sent", "removed"}
OccStatuses == {"none", "queued", "running", "completed", "failed", "cancelled"}
BootSteps == {"up", "recover", "fail", "occurrences", "dispatch"}

\* Positions between RegisterRun and cleanup(): the goroutine owns the entry.
Owning == {"append", "status", "announce", "mark", "occurrence", "agent",
           "terminal", "settle", "cleanup", "undo"}
\* Positions of a dispatcher that holds a claimed row it has not marked sent.
Holding == {"load", "register", "append", "status", "announce", "mark",
            "undo", "release"}
\* Positions from which the agent has been, or is about to be, executed.
Launched == {"occurrence", "agent", "terminal", "settle", "cleanup", "finish"}
Positions == {"idle", "enqueue", "materialize", "claim", "load", "register",
              "append", "status", "announce", "mark", "occurrence", "agent",
              "terminal", "settle", "cleanup", "finish", "undo", "release"}

Queued(m) == m # NoMsg /\ row[m] # "none"
Direct(p) == msg[p] # NoMsg /\ row[msg[p]] = "none"
Pending == {m \in Messages : row[m] = "pending"}
Sat(n) == IF n < 2 THEN n + 1 ELSE 2    \* counters saturate at 2: "more than once"

Init ==
  /\ status = "idle" /\ archived = FALSE
  /\ row = [m \in Messages |-> "none"] /\ seq = [m \in Messages |-> 0]
  /\ lastSeq = 0
  /\ occ = [m \in Scheduled |-> "none"]
  /\ active = NoProc /\ cancelled = FALSE
  /\ pc = [p \in Procs |-> "idle"] /\ msg = [p \in Procs |-> NoMsg]
  /\ outcome = [p \in Procs |-> "none"] /\ emitted = [p \in Procs |-> FALSE]
  /\ canceller = [c \in Cancellers |-> "idle"]
  /\ archiver = "idle" /\ clearer = "idle"
  /\ boot = "up" /\ posted = {}
  /\ said = [m \in Messages |-> 0] /\ launches = [m \in Messages |-> 0]
  /\ ends = [p \in Procs |-> 0] /\ tail = 0
  /\ faults = MaxFaults /\ crashes = MaxCrashes

-----------------------------------------------------------------------------
\* The goroutine moves on; the goroutine returns.
Goto(p, place) == pc' = [pc EXCEPT ![p] = place]
Return(p) ==
  /\ pc' = [pc EXCEPT ![p] = "idle"]
  /\ msg' = [msg EXCEPT ![p] = NoMsg]
  /\ outcome' = [outcome EXCEPT ![p] = "none"]
  /\ emitted' = [emitted EXCEPT ![p] = FALSE]
\* Mutant: the entry of a cancelled run is not deleted.
MutDropRun(p) ==
  /\ active' = IF active = p /\ ~cancelled THEN NoProc ELSE active
  /\ cancelled' = IF active' = NoProc THEN FALSE ELSE cancelled
\* cleanup(): deletes the manager's entry only while it is still p's.
DropRun(p) ==
  /\ active' = IF active = p THEN NoProc ELSE active
  /\ cancelled' = IF active = p THEN FALSE ELSE cancelled
Works == faults' = faults
Fails == faults > 0 /\ faults' = faults - 1

\* submitDecodedMessage: the session row is read once; the branch to enqueue
\* or to start a run is decided on that reading.
Post(p, m) ==
  /\ boot = "up" /\ pc[p] = "idle" /\ m \in Manual \ posted /\ ~archived
  /\ posted' = posted \cup {m}
  /\ msg' = [msg EXCEPT ![p] = m]
  /\ \E queue \in {FALSE, ExplicitQueue} :
       Goto(p, IF queue \/ status = "running" THEN "enqueue" ELSE "register")
  /\ UNCHANGED <<sessionVars, queueVars, occ, managerVars, outcome, emitted,
                 handlerVars, boot, logVars, faults, crashes>>

\* EnqueueMessage: one transaction; nothing is dispatched afterwards.
Enqueue(p) ==
  /\ pc[p] = "enqueue"
  /\ \/ /\ Works
        /\ Cardinality(Pending \cap Manual) < MaxPending
        /\ row' = [row EXCEPT ![msg[p]] = "pending"]
        /\ lastSeq' = lastSeq + 1
        /\ seq' = [seq EXCEPT ![msg[p]] = lastSeq + 1]
     \/ /\ Works
        /\ Cardinality(Pending \cap Manual) >= MaxPending
        /\ UNCHANGED queueVars
     \/ Fails /\ UNCHANGED queueVars
  /\ Return(p)
  /\ UNCHANGED <<sessionVars, occ, managerVars, handlerVars, boot, posted,
                 logVars, crashes>>

\* RunNow and processDue (the scheduler's loop starts before the queues are
\* dispatched): the archived check reads the session ...
Fire(p, m) ==
  /\ boot \in {"dispatch", "up"} /\ pc[p] = "idle"
  /\ m \in Scheduled \ posted /\ ~archived
  /\ posted' = posted \cup {m}
  /\ msg' = [msg EXCEPT ![p] = m]
  /\ Goto(p, "materialize")
  /\ UNCHANGED <<sessionVars, queueVars, occ, managerVars, outcome, emitted,
                 handlerVars, boot, logVars, faults, crashes>>

\* ... and a later transaction inserts the queue row and the occurrence; the
\* session is then dispatched.
Materialize(p) ==
  /\ pc[p] = "materialize"
  /\ \/ /\ Works
        /\ row' = [row EXCEPT ![msg[p]] = "pending"]
        /\ lastSeq' = lastSeq + 1
        /\ seq' = [seq EXCEPT ![msg[p]] = lastSeq + 1]
        /\ occ' = [occ EXCEPT ![msg[p]] = "queued"]
        /\ Goto(p, "claim")
        /\ msg' = [msg EXCEPT ![p] = NoMsg]
        /\ UNCHANGED <<outcome, emitted>>
     \/ /\ Fails
        /\ UNCHANGED <<queueVars, occ>>
        /\ Return(p)
  /\ UNCHANGED <<sessionVars, managerVars, handlerVars, boot, posted, logVars,
                 crashes>>
-----------------------------------------------------------------------------
(* startQueuedMessageRun, and startSessionRunWithID from RegisterRun on.   *)

\* Mutant: the session row is asked instead of the map.
MutBusyByStatus == status = "running"
\* The session has an entry in the manager.
Busy == active # NoProc

\* ORDER BY: manual messages before scheduled ones, then seq.
Before(m, n) ==
  \/ m \in Manual /\ n \in Scheduled
  \/ (m \in Manual <=> n \in Manual) /\ seq[m] <= seq[n]
NextToClaim == {m \in Pending : \A n \in Pending : Before(m, n)}

Claim(p) ==
  /\ pc[p] = "claim"
  /\ \/ /\ Works
        /\ \E m \in NextToClaim :
             /\ row' = [row EXCEPT ![m] = "sending"]
             /\ msg' = [msg EXCEPT ![p] = m]
             /\ Goto(p, "load")
        /\ UNCHANGED <<outcome, emitted>>
     \/ /\ Works /\ Pending = {} /\ Return(p) /\ UNCHANGED row
     \/ /\ Fails /\ Return(p) /\ UNCHANGED row
  /\ UNCHANGED <<sessionVars, seq, lastSeq, occ, managerVars, handlerVars,
                 boot, posted, logVars, crashes>>

\* GetSession and the checks on it.  A failure here also stands for the
\* occurrence, options and agent lookups that follow: each only releases.
Load(p) ==
  /\ pc[p] = "load"
  /\ \/ /\ Works
        /\ Goto(p, IF status = "running" \/ archived THEN "release"
                                                      ELSE "register")
     \/ Fails /\ Goto(p, "release")
  /\ UNCHANGED <<sessionVars, queueVars, occ, managerVars, msg, outcome,
                 emitted, handlerVars, boot, posted, logVars, crashes>>

\* Manager.RegisterRun: refused while the session has an entry.
Register(p) ==
  /\ pc[p] = "register"
  /\ \/ /\ ~Busy
        /\ active' = p /\ cancelled' = FALSE
        /\ Goto(p, "append")
        /\ UNCHANGED <<msg, outcome, emitted>>
     \/ /\ Busy /\ Queued(msg[p])
        /\ Goto(p, "release")
        /\ UNCHANGED <<managerVars, msg, outcome, emitted>>
     \/ /\ Busy /\ Direct(p)
        /\ Return(p)
        /\ UNCHANGED managerVars
  /\ UNCHANGED <<sessionVars, queueVars, occ, handlerVars, boot, posted,
                 logVars, faults, crashes>>

\* appendUserMessage (appendBeforeRun of a direct run).
AppendUserMessage(p) ==
  /\ pc[p] = "append"
  /\ \/ /\ Works
        /\ said' = [said EXCEPT ![msg[p]] = Sat(@)]
        /\ Goto(p, "status")
     \/ Fails /\ Goto(p, "undo") /\ UNCHANGED said
  /\ UNCHANGED <<sessionVars, queueVars, occ, managerVars, msg, outcome,
                 emitted, handlerVars, boot, posted, launches, ends, tail,
                 crashes>>

\* UpdateSessionStatus(running): it does not look at archived_at.
SetRunning(p) ==
  /\ pc[p] = "status"
  /\ \/ Works /\ status' = "running" /\ Goto(p, "announce")
     \/ Fails /\ Goto(p, "undo") /\ UNCHANGED status
  /\ UNCHANGED <<archived, queueVars, occ, managerVars, msg, outcome, emitted,
                 handlerVars, boot, posted, logVars, crashes>>

\* appendSessionStatusUpdated with the run id: the start of the run in the
\* log.  The failure path leaves the session row "running".
Announce(p) ==
  /\ pc[p] = "announce"
  /\ \/ /\ Works
        /\ tail' = 0
        /\ ends' = [ends EXCEPT ![p] = 0]
        /\ Goto(p, IF Queued(msg[p]) THEN "mark" ELSE "agent")
        /\ launches' = IF Queued(msg[p]) THEN launches
                       ELSE [launches EXCEPT ![msg[p]] = Sat(@)]
     \/ Fails /\ Goto(p, "undo") /\ UNCHANGED <<launches, ends, tail>>
  /\ UNCHANGED <<sessionVars, queueVars, occ, managerVars, msg, outcome,
                 emitted, handlerVars, boot, posted, said, crashes>>

\* MarkQueuedMessageSent, refused for a row that is not being sent; then the goroutine that runs the agent is started
\* (for an occurrence, after one more store call).
MarkSent(p) ==
  /\ pc[p] = "mark"
  /\ \/ /\ Works /\ row[msg[p]] = "sending"
        /\ row' = [row EXCEPT ![msg[p]] = "sent"]
        /\ launches' = [launches EXCEPT ![msg[p]] = Sat(@)]
        /\ Goto(p, IF msg[p] \in Scheduled THEN "occurrence" ELSE "agent")
     \/ /\ IF row[msg[p]] = "sending" THEN Fails ELSE Works
        /\ Goto(p, "undo") /\ UNCHANGED <<row, launches>>
  /\ UNCHANGED <<sessionVars, seq, lastSeq, occ, managerVars, msg, outcome,
                 emitted, handlerVars, boot, posted, said, ends, tail, crashes>>

\* schedules.MarkRunning: only a queued occurrence; an error is only logged.
MarkRunning(p) ==
  /\ pc[p] = "occurrence"
  /\ \/ /\ Works
        /\ occ' = [occ EXCEPT ![msg[p]] = IF @ = "queued" THEN "running" ELSE @]
     \/ Fails /\ UNCHANGED occ
  /\ Goto(p, "agent")
  /\ UNCHANGED <<sessionVars, queueVars, managerVars, msg, outcome, emitted,
                 handlerVars, boot, posted, logVars, crashes>>

\* cleanup() on a failed launch, then release() of a claimed row.
Undo(p) ==
  /\ pc[p] = "undo"
  /\ DropRun(p)
  /\ \/ Queued(msg[p]) /\ Goto(p, "release") /\ UNCHANGED <<msg, outcome, emitted>>
     \/ ~Queued(msg[p]) /\ Return(p)
  /\ UNCHANGED <<sessionVars, queueVars, occ, handlerVars, boot, posted,
                 logVars, faults, crashes>>

\* ReleaseQueuedMessage: refused for a row that is not being sent.
Release(p) ==
  /\ pc[p] = "release"
  /\ \/ /\ Works
        /\ row' = [row EXCEPT ![msg[p]] = IF @ = "sending" THEN "pending" ELSE @]
     \/ Fails /\ UNCHANGED row
  /\ Return(p)
  /\ UNCHANGED <<sessionVars, seq, lastSeq, occ, managerVars, handlerVars,
                 boot, posted, logVars, crashes>>
-----------------------------------------------------------------------------
(* runAgent and what its goroutine does after it.                          *)

\* A terminal event is appended for p's run.
LogTerminal(p) ==
  /\ ends' = [ends EXCEPT ![p] = Sat(@)]
  /\ tail' = Sat(tail)

\* The agent emits its own terminal event: emit refuses a second one.  The
\* failure is an append error the agent sees.
AgentEmits(p) ==
  /\ pc[p] = "agent" /\ ~emitted[p]
  /\ \/ Works /\ LogTerminal(p) /\ emitted' = [emitted EXCEPT ![p] = TRUE]
     \/ Fails /\ UNCHANGED <<ends, tail, emitted>>
  /\ UNCHANGED <<sessionVars, queueVars, occ, managerVars, pc, msg, outcome,
                 handlerVars, boot, posted, said, launches, crashes>>

\* agent.Run returns: nil, an error, or context.Canceled.
AgentReturns(p, result) ==
  /\ pc[p] = "agent"
  /\ outcome' = [outcome EXCEPT ![p] = result]
  /\ Goto(p, "terminal")
  /\ UNCHANGED <<sessionVars, queueVars, occ, managerVars, msg, emitted,
                 handlerVars, boot, posted, logVars, faults, crashes>>

\* The terminal event of the outcome, unless the agent emitted one.  Failing
\* to append "completed" turns the run into a failed one.
AppendTerminal(p) ==
  /\ pc[p] = "terminal"
  /\ \/ emitted[p] /\ Works /\ UNCHANGED <<ends, tail, emitted, outcome>>
     \/ /\ ~emitted[p] /\ Works /\ LogTerminal(p)
        /\ emitted' = [emitted EXCEPT ![p] = TRUE]
        /\ UNCHANGED outcome
     \/ /\ ~emitted[p] /\ Fails
        /\ outcome' = [outcome EXCEPT ![p] =
                         IF @ = "completed" THEN "failed" ELSE @]
        /\ UNCHANGED <<ends, tail, emitted>>
  /\ Goto(p, "settle")
  /\ UNCHANGED <<sessionVars, queueVars, occ, managerVars, msg, handlerVars,
                 boot, posted, said, launches, crashes>>

\* The status a run leaves its session in.
FinalStatus(p) == IF outcome[p] = "failed" THEN "failed" ELSE "idle"

\* updateSessionStatus(idle or failed).  It fails before the row is updated or
\* after it (the status event is not appended); either way the run does not
\* count as completed.
Settle(p) ==
  /\ pc[p] = "settle"
  /\ LET demoted == [outcome EXCEPT ![p] = IF @ = "completed" THEN "failed" ELSE @]
     IN \/ Works /\ status' = FinalStatus(p) /\ UNCHANGED outcome
        \/ Fails /\ status' \in {status, FinalStatus(p)} /\ outcome' = demoted
  /\ Goto(p, "cleanup")
  /\ UNCHANGED <<archived, queueVars, occ, managerVars, msg, emitted,
                 handlerVars, boot, posted, logVars, crashes>>

\* cleanup(); a completed direct run dispatches, an occurrence is reported first.
Cleanup(p) ==
  /\ pc[p] = "cleanup"
  /\ DropRun(p)
  /\ \/ /\ msg[p] \in Scheduled
        /\ Goto(p, "finish") /\ UNCHANGED <<msg, outcome, emitted>>
     \/ /\ msg[p] \notin Scheduled /\ outcome[p] = "completed"
        /\ Goto(p, "claim")
        /\ msg' = [msg EXCEPT ![p] = NoMsg]
        /\ outcome' = [outcome EXCEPT ![p] = "none"]
        /\ emitted' = [emitted EXCEPT ![p] = FALSE]
     \/ /\ msg[p] \notin Scheduled /\ outcome[p] # "completed"
        /\ Return(p)
  /\ UNCHANGED <<sessionVars, queueVars, occ, handlerVars, boot, posted,
                 logVars, faults, crashes>>

\* MarkFinished: the status of an uncompleted run is read back from the
\* session row, after cleanup.  Only a running occurrence is updated.
Finish(p) ==
  /\ pc[p] = "finish"
  /\ LET verdict == CASE outcome[p] = "completed" -> "completed"
                      [] outcome[p] # "completed" /\ status = "idle" -> "cancelled"
                      [] OTHER -> "failed"
     IN \/ /\ Works
           /\ occ' = [occ EXCEPT ![msg[p]] = IF @ = "running" THEN verdict ELSE @]
        \/ Fails /\ UNCHANGED occ
  /\ Goto(p, "claim")
  /\ msg' = [msg EXCEPT ![p] = NoMsg]
  /\ outcome' = [outcome EXCEPT ![p] = "none"]
  /\ emitted' = [emitted EXCEPT ![p] = FALSE]
  /\ UNCHANGED <<sessionVars, queueVars, managerVars, handlerVars, boot,
                 posted, logVars, crashes>>
-----------------------------------------------------------------------------
(* The other handlers of the session.                                      *)

\* Mutant: the row is removed whatever it has become.
MutRemoveAny(m) ==
  /\ boot = "up" /\ m \in Manual /\ row[m] \notin {"none", "removed"}
  /\ row' = [row EXCEPT ![m] = "removed"]
  /\ UNCHANGED <<sessionVars, seq, lastSeq, occ, managerVars, procVars,
                 handlerVars, boot, posted, logVars, faults, crashes>>

\* removeQueuedMessageHandler: only a pending row can be removed.
RemoveQueuedMessage(m) ==
  /\ boot = "up" /\ m \in Manual /\ row[m] = "pending"
  /\ row' = [row EXCEPT ![m] = "removed"]
  /\ UNCHANGED <<sessionVars, seq, lastSeq, occ, managerVars, procVars,
                 handlerVars, boot, posted, logVars, faults, crashes>>

\* Mutant: only the row is withdrawn.
MutCancelRowOnly(m) ==
  /\ boot = "up" /\ occ[m] = "queued" /\ row[m] = "pending"
  /\ row' = [row EXCEPT ![m] = "removed"]
  /\ UNCHANGED <<sessionVars, seq, lastSeq, occ, managerVars, procVars,
                 handlerVars, boot, posted, logVars, faults, crashes>>

\* CancelScheduleOccurrence: row and occurrence in one transaction.
CancelOccurrence(m) ==
  /\ boot = "up" /\ occ[m] = "queued" /\ row[m] = "pending"
  /\ row' = [row EXCEPT ![m] = "removed"]
  /\ occ' = [occ EXCEPT ![m] = "cancelled"]
  /\ UNCHANGED <<sessionVars, seq, lastSeq, managerVars, procVars,
                 handlerVars, boot, posted, logVars, faults, crashes>>

\* cancelRunHandler: the exact run is the active one and not yet cancelled.
CancelRun ==
  /\ boot = "up" /\ Cancellers # {}
  /\ active # NoProc /\ pc[active] \notin {"append", "status", "announce"}
  /\ ~cancelled
  /\ cancelled' = TRUE
  /\ UNCHANGED <<sessionVars, queueVars, occ, active, procVars, handlerVars,
                 boot, posted, logVars, faults, crashes>>

\* cancelSessionHandler: reads the row ...
CancelRead(c) ==
  /\ boot = "up" /\ canceller[c] = "idle" /\ status = "running"
  /\ canceller' = [canceller EXCEPT ![c] = "cancel"]
  /\ UNCHANGED <<sessionVars, queueVars, occ, managerVars, procVars, archiver,
                 clearer, boot, posted, logVars, faults, crashes>>

\* ... asks the manager; without an entry the session is repaired ...
Cancel(c) ==
  /\ canceller[c] = "cancel"
  /\ \/ active = NoProc /\ canceller' = [canceller EXCEPT ![c] = "repair"]
                        /\ UNCHANGED cancelled
     \/ active # NoProc /\ canceller' = [canceller EXCEPT ![c] = "idle"]
                        /\ cancelled' = TRUE
  /\ UNCHANGED <<sessionVars, queueVars, occ, active, procVars, archiver,
                 clearer, boot, posted, logVars, faults, crashes>>

\* ... failRunningSessionWithoutActiveRun: the failed event, ...
RepairEvent(c) ==
  /\ canceller[c] = "repair"
  /\ canceller' = [canceller EXCEPT ![c] = "fail"]
  /\ \/ Works /\ tail' = Sat(tail)
     \/ Fails /\ UNCHANGED tail
  /\ UNCHANGED <<sessionVars, queueVars, occ, managerVars, procVars, archiver,
                 clearer, boot, posted, said, launches, ends, crashes>>

\* ... then the row, whatever it has become since it was read.
RepairStatus(c) ==
  /\ canceller[c] = "fail"
  /\ canceller' = [canceller EXCEPT ![c] = "idle"]
  /\ \/ Works /\ status' = "failed"
     \/ Fails /\ UNCHANGED status
  /\ UNCHANGED <<archived, queueVars, occ, managerVars, procVars, archiver,
                 clearer, boot, posted, logVars, crashes>>

\* archiveSessionHandler: checks the status, ...
ArchiveRead ==
  /\ "archive" \in Admin
  /\ boot = "up" /\ archiver = "idle" /\ status # "running"
  /\ archiver' = "pause"
  /\ UNCHANGED <<sessionVars, queueVars, occ, managerVars, procVars, canceller,
                 clearer, boot, posted, logVars, faults, crashes>>

\* The occurrences archiving withdraws.
Withdrawable == {m \in Scheduled \cap Pending : occ[m] = "queued"}

\* ... PauseSchedulesForArchive withdraws the pending occurrences, ...
PauseForArchive ==
  /\ archiver = "pause"
  /\ \/ /\ Works /\ archiver' = "archive"
        /\ row' = [m \in Messages |->
                    IF m \in Withdrawable THEN "removed" ELSE row[m]]
        /\ occ' = [m \in Scheduled |->
                    IF m \in Withdrawable THEN "cancelled" ELSE occ[m]]
     \/ Fails /\ archiver' = "idle" /\ UNCHANGED <<row, occ>>
  /\ UNCHANGED <<sessionVars, seq, lastSeq, managerVars, procVars, canceller,
                 clearer, boot, posted, logVars, crashes>>

\* ... and ArchiveSession sets archived_at whatever the status is by now.
Archive ==
  /\ archiver = "archive"
  /\ archiver' = "idle"
  /\ \/ Works /\ archived' = TRUE
     \/ Fails /\ UNCHANGED archived
  /\ UNCHANGED <<status, queueVars, occ, managerVars, procVars, canceller,
                 clearer, boot, posted, logVars, crashes>>

\* restoreSessionHandler: no dispatch of what is pending.
Restore ==
  /\ boot = "up" /\ archived
  /\ archived' = FALSE
  /\ UNCHANGED <<status, queueVars, occ, managerVars, procVars, handlerVars,
                 boot, posted, logVars, faults, crashes>>

\* clearSessionHandler: checks the row, ...
ClearRead ==
  /\ "clear" \in Admin
  /\ boot = "up" /\ clearer = "idle" /\ status # "running" /\ ~archived
  /\ clearer' = "clear"
  /\ UNCHANGED <<sessionVars, queueVars, occ, managerVars, procVars, canceller,
                 archiver, boot, posted, logVars, faults, crashes>>

\* ... clears the provider session and reloads the row, ...
ClearProvider ==
  /\ clearer = "clear"
  /\ \/ Works /\ clearer' = IF status = "idle" THEN "idle" ELSE "settle"
     \/ Fails /\ clearer' = "idle"
  /\ UNCHANGED <<sessionVars, queueVars, occ, managerVars, procVars, canceller,
                 archiver, boot, posted, logVars, crashes>>

\* ... and sets it idle when the reloaded status was anything else.
ClearSettle ==
  /\ clearer = "settle"
  /\ clearer' = "idle"
  /\ \/ Works /\ status' = "idle"
     \/ Fails /\ UNCHANGED status
  /\ UNCHANGED <<archived, queueVars, occ, managerVars, procVars, canceller,
                 archiver, boot, posted, logVars, crashes>>
-----------------------------------------------------------------------------
(* The server stops and starts.                                            *)

Crash ==
  /\ crashes > 0
  /\ crashes' = crashes - 1
  /\ boot' = "recover"
  /\ active' = NoProc /\ cancelled' = FALSE
  /\ pc' = [p \in Procs |-> "idle"] /\ msg' = [p \in Procs |-> NoMsg]
  /\ outcome' = [p \in Procs |-> "none"]
  /\ emitted' = [p \in Procs |-> FALSE]
  /\ canceller' = [c \in Cancellers |-> "idle"]
  /\ archiver' = "idle" /\ clearer' = "idle"
  /\ UNCHANGED <<sessionVars, queueVars, occ, posted, logVars, faults>>

\* recoverInterruptedRuns: ListSessions returns running sessions that are not
\* archived; each gets a failed event, ...
Recover ==
  /\ boot = "recover"
  /\ IF status = "running" /\ ~archived
     THEN boot' = "fail" /\ tail' = Sat(tail)
     ELSE boot' = "occurrences" /\ UNCHANGED tail
  /\ UNCHANGED <<sessionVars, queueVars, occ, managerVars, procVars,
                 handlerVars, posted, said, launches, ends, faults, crashes>>

\* ... and the status failed.
RecoverStatus ==
  /\ boot = "fail"
  /\ status' = "failed" /\ boot' = "occurrences"
  /\ UNCHANGED <<archived, queueVars, occ, managerVars, procVars, handlerVars,
                 posted, logVars, faults, crashes>>

\* Mutant: interrupted occurrences are put back in the queue.
MutRequeueInterrupted ==
  LET interrupted == {m \in Scheduled : occ[m] = "running"}
  IN /\ boot = "occurrences" /\ boot' = "dispatch"
     /\ occ' = [m \in Scheduled |-> IF m \in interrupted THEN "queued" ELSE occ[m]]
     /\ row' = [m \in Messages |-> IF m \in interrupted THEN "pending" ELSE row[m]]
     /\ UNCHANGED <<sessionVars, seq, lastSeq, managerVars, procVars,
                    handlerVars, posted, logVars, faults, crashes>>

\* FailInterruptedScheduleOccurrences.
FailInterrupted ==
  /\ boot = "occurrences"
  /\ occ' = [m \in Scheduled |-> IF occ[m] = "running" THEN "failed" ELSE occ[m]]
  /\ boot' = "dispatch"
  /\ UNCHANGED <<sessionVars, queueVars, managerVars, procVars, handlerVars,
                 posted, logVars, faults, crashes>>

\* ListPendingQueueSessionIDs: sessions with a pending row are dispatched; a
\* row left in "sending" is not looked for.
StartDispatch ==
  /\ boot = "dispatch"
  /\ boot' = "up"
  /\ \/ /\ Pending # {}
        /\ \E p \in Procs : pc[p] = "idle" /\ Goto(p, "claim")
     \/ Pending = {} /\ UNCHANGED pc
  /\ UNCHANGED <<sessionVars, queueVars, occ, managerVars, msg, outcome,
                 emitted, handlerVars, posted, logVars, faults, crashes>>
-----------------------------------------------------------------------------
\* What a goroutine does without waiting for the agent.
ProcStep(p) ==
  \/ Enqueue(p) \/ Materialize(p) \/ Claim(p) \/ Load(p) \/ Register(p)
  \/ AppendUserMessage(p) \/ SetRunning(p) \/ Announce(p) \/ MarkSent(p)
  \/ MarkRunning(p) \/ Undo(p) \/ Release(p) \/ AppendTerminal(p) \/ Settle(p)
  \/ Cleanup(p) \/ Finish(p)

AgentStep(p) == AgentEmits(p) \/ \E result \in Outcomes : AgentReturns(p, result)
CancelStep(c) == CancelRead(c) \/ Cancel(c) \/ RepairEvent(c) \/ RepairStatus(c)
BootStep == Recover \/ RecoverStatus \/ FailInterrupted \/ StartDispatch
AdminStep ==
  \/ ArchiveRead \/ PauseForArchive \/ Archive \/ Restore
  \/ ClearRead \/ ClearProvider \/ ClearSettle

Next ==
  \/ \E p \in Procs, m \in Messages : Post(p, m) \/ Fire(p, m)
  \/ \E p \in Procs : ProcStep(p) \/ AgentStep(p)
  \/ \E m \in Manual : RemoveQueuedMessage(m)
  \/ \E m \in Scheduled : CancelOccurrence(m)
  \/ CancelRun \/ \E c \in Cancellers : CancelStep(c)
  \/ AdminStep \/ Crash \/ BootStep

Spec == Init /\ [][Next]_vars

\* Goroutines and the startup sequence keep running; an agent whose context
\* is cancelled returns (it observes ctx.Done()); other agents may run on.
Fairness ==
  /\ \A p \in Procs : WF_vars(ProcStep(p))
  /\ \A p \in Procs : WF_vars(cancelled /\ \E r \in Outcomes : AgentReturns(p, r))
  /\ WF_vars(BootStep)
FairSpec == Spec /\ Fairness
-----------------------------------------------------------------------------
StoreTypes ==
  /\ status \in SessionStatuses /\ archived \in BOOLEAN
  /\ row \in [Messages -> RowStatuses]
  /\ seq \in [Messages -> Nat] /\ lastSeq \in Nat
  /\ occ \in [Scheduled -> OccStatuses]
ProcTypes ==
  /\ active \in Procs \cup {NoProc} /\ cancelled \in BOOLEAN
  /\ pc \in [Procs -> Positions] /\ msg \in [Procs -> Messages \cup {NoMsg}]
  /\ outcome \in [Procs -> RunOutcomes \cup {"none"}]
  /\ emitted \in [Procs -> BOOLEAN]
HandlerTypes ==
  /\ canceller \in [Cancellers -> {"idle", "cancel", "repair", "fail"}]
  /\ archiver \in {"idle", "pause", "archive"}
  /\ clearer \in {"idle", "clear", "settle"}
  /\ boot \in BootSteps /\ posted \in SUBSET Messages
LogTypes ==
  /\ said \in [Messages -> 0..2] /\ launches \in [Messages -> 0..2]
  /\ ends \in [Procs -> 0..2] /\ tail \in 0..2
  /\ faults \in Nat /\ crashes \in Nat

\* Every variable has its type; the saturating counters stay within 0..2.
TypeOK == StoreTypes /\ ProcTypes /\ HandlerTypes /\ LogTypes

\* The manager's entry belongs to the one goroutine that is launching, running
\* or finishing a run: no handler, dispatcher or schedule starts a second one
\* (Manager.RegisterRun; "Duplicate active runs ... are impossible").
RunOwnership == \A p \in Procs : active = p <=> pc[p] \in Owning

\* A claimed row is "sending" and has one holder: two dispatchers never carry
\* the same message, and a release cannot put back a row somebody else sent.
ClaimsExclusive ==
  \A p \in Procs : pc[p] \in Holding /\ Queued(msg[p]) =>
    /\ row[msg[p]] = "sending"
    /\ \A q \in Procs : msg[q] = msg[p] => q = p

\* A message is handed to an agent at most once, whatever is released,
\* retried, dispatched concurrently or interrupted by a crash.
NoDuplicateRun == \A m \in Messages : launches[m] <= 1

\* A message withdrawn from the queue has not been launched, and no goroutine
\* carries it: it cannot be launched later either.
WithdrawnNeverRuns ==
  \A m \in Messages : row[m] = "removed" =>
    launches[m] = 0 /\ \A p \in Procs : msg[p] # m

\* Work is exclusive: the session has one run, a claimed message one holder, and
\* a message that was withdrawn none, now or later.
ExclusiveWork == RunOwnership /\ ClaimsExclusive /\ WithdrawnNeverRuns

\* Whatever an agent is given is in the event log first.
PersistedBeforeRun ==
  \A m \in Messages : launches[m] > 0 => said[m] > 0

\* While no write fails, a message appears once in the transcript, although a
\* claimed message may be released and claimed again.
SaidOnceWithoutFaults ==
  faults = MaxFaults => \A m \in Messages : said[m] <= 1

\* A run's own terminal events: the agent's and runAgent's fallbacks together
\* append at most one.
OneTerminalPerRun == \A p \in Procs : ends[p] <= 1

\* Nothing happens twice, whatever fails, is retried or interrupted: no message
\* is launched again or unrecorded, no run ends twice of its own.
AtMostOnce == NoDuplicateRun /\ PersistedBeforeRun /\ OneTerminalPerRun

\* After a start of a run the log has at most one terminal event before the
\* next start (docs/sprint-6.md: "Exactly one terminal run event may be
\* emitted for each scheduled run").
TerminalOnce == tail <= 1

\* A session shown as running has a run in the manager, which will settle it.
\* Recovery looks for running sessions that are not archived: one that was
\* archived while its run was starting stays "running" after a crash.
RunningHasOwner ==
  boot = "up" /\ faults = MaxFaults /\ (crashes = MaxCrashes \/ "archive" \notin Admin)
    => (status = "running" => active # NoProc)

\* An occurrence shown as running is carried by a goroutine that will finish it.
RunningOccurrenceCarried ==
  boot = "up" /\ faults = MaxFaults =>
    \A m \in Scheduled : occ[m] = "running" =>
      \E p \in Procs : msg[p] = m /\ pc[p] \in Launched

\* An occurrence shown as queued can still be claimed, is being launched, or is
\* about to be marked running: none is left behind by the queue.
QueuedOccurrenceLive ==
  faults = MaxFaults /\ crashes = MaxCrashes =>
    \A m \in Scheduled : occ[m] = "queued" =>
      \/ row[m] \in {"pending", "sending"}
      \/ row[m] = "sent" /\ \E p \in Procs : msg[p] = m /\ pc[p] = "occurrence"

\* A row shown as "sending" is in the hands of a dispatcher, which will send or
\* release it.  A crash leaves rows behind that no recovery looks for, and so
\* does a release that fails.
SendingHeld ==
  faults = MaxFaults /\ crashes = MaxCrashes =>
    \A m \in Messages : row[m] = "sending" =>
      \E p \in Procs : msg[p] = m /\ pc[p] \in Holding

\* While no write fails, what the store shows is held by somebody who carries it
\* on: a running session and occurrence, a queued occurrence, a row that is being
\* sent; and no message is said twice.
WithoutFailures ==
  /\ SaidOnceWithoutFaults /\ RunningHasOwner /\ RunningOccurrenceCarried
  /\ QueuedOccurrenceLive /\ SendingHeld

\* Messages the queue holds are not forgotten: when every run has succeeded and
\* nothing is at work, an idle session has no pending message (a failed run
\* leaves the queue waiting by design).
NothingStranded ==
  boot = "up" /\ status = "idle" /\ ~archived
    /\ (\A p \in Procs : pc[p] = "idle") => Pending = {}

\* Sent and removed rows, and settled occurrences, are never changed again:
\* not by a late release, a second dispatcher, a late MarkFinished or a restart.
Settled ==
  [][ /\ \A m \in Messages : row[m] \in {"sent", "removed"} => row'[m] = row[m]
      /\ \A m \in Scheduled :
           occ[m] \in {"completed", "failed", "cancelled"} => occ'[m] = occ[m] ]_vars

\* The manager's entry never passes from one run to another directly, and a
\* cancelled run stays cancelled until it is gone: no successor inherits it.
CancellationStays ==
  [][ active # NoProc =>
        /\ active' \in {active, NoProc}
        /\ cancelled /\ active' = active => cancelled' ]_vars

\* A dispatcher that holds a claimed message marks it sent, releases it or
\* gives it up: it never sits on it.
ClaimsResolve ==
  \A p \in Procs : pc[p] \in Holding ~> pc[p] \notin Holding

\* A cancelled run leaves the manager.
CancelledRunEnds ==
  \A p \in Procs : (active = p /\ cancelled) ~> active # p

\* A restarted server comes up.
StartupCompletes == boot # "up" ~> boot = "up"

\* Whatever was begun comes to its end: a claimed message is sent or put back, a
\* cancelled run leaves the manager, a restarted server comes up.
WorkCompletes == ClaimsResolve /\ CancelledRunEnds /\ StartupCompletes

-----------------------------------------------------------------------------
(* The inductive invariant behind the safety theorems.                     *)

\* A goroutine carries a message exactly while it is not idle or claiming.
Carrying == \A p \in Procs : msg[p] = NoMsg <=> pc[p] \in {"idle", "claim"}

\* No two goroutines carry the same message, and the queue does not offer a
\* message that is carried.
OneCarrier ==
  \A p \in Procs : msg[p] # NoMsg =>
    /\ msg[p] \in posted
    /\ row[msg[p]] \in {"none", "sending", "sent"}
    /\ \A q \in Procs : msg[q] = msg[p] => q = p

\* What the position of a goroutine says of the message it carries.
Shape ==
  \A p \in Procs :
    /\ pc[p] = "enqueue" => msg[p] \in Manual
    /\ pc[p] \in {"materialize", "occurrence", "finish"} => msg[p] \in Scheduled
    /\ pc[p] \in {"enqueue", "materialize"} => row[msg[p]] = "none"
    /\ pc[p] \in {"load", "mark", "release"} => row[msg[p]] = "sending"
    /\ pc[p] \in Holding => row[msg[p]] \in {"none", "sending"}
    /\ pc[p] \in Launched => row[msg[p]] \in {"none", "sent"}
    /\ pc[p] \in Holding \cup {"enqueue", "materialize"} => launches[msg[p]] = 0
    /\ pc[p] \in Launched => launches[msg[p]] = 1
    /\ pc[p] \in {"status", "announce", "mark"} => said[msg[p]] > 0

\* What the queue and the log say of a message.
Ledger ==
  \A m \in Messages :
    /\ launches[m] <= 1
    /\ launches[m] = 1 => said[m] > 0
    /\ row[m] \in {"pending", "sending", "removed"} => launches[m] = 0
    /\ m \notin posted => row[m] = "none" /\ launches[m] = 0
    /\ m \in Scheduled /\ row[m] = "none" => occ[m] = "none"

\* terminalEventEmitted agrees with the log.
Terminals ==
  \A p \in Procs :
    /\ ends[p] <= 1
    /\ emitted[p] => pc[p] \in Launched
    /\ pc[p] \in {"mark", "occurrence", "agent", "terminal"} /\ ~emitted[p]
         => ends[p] = 0

\* The conjunction of the parts: every step of the code preserves it.
IInv == /\ TypeOK /\ RunOwnership /\ Carrying /\ OneCarrier /\ Shape /\ Ledger
        /\ Terminals

-----------------------------------------------------------------------------
(* What the parts of WithoutFailures need besides IInv.                    *)

\* The bounds are only spent; before the first crash the server is up; until
\* the interrupted occurrences have failed nothing is at work.
Startup ==
  /\ faults <= MaxFaults /\ crashes <= MaxCrashes
  /\ crashes = MaxCrashes => boot = "up"
  /\ boot \in {"recover", "fail", "occurrences"} => \A p \in Procs : pc[p] = "idle"
  /\ "archive" \notin Admin => ~archived /\ archiver = "idle"

\* A message that is offered, or carried towards its append, is not yet said, and
\* no launch is taken back once its message was said.
Unsaid ==
  faults = MaxFaults =>
    /\ \A m \in Messages :
         /\ said[m] <= 1
         /\ m \notin posted \/ row[m] = "pending" => said[m] = 0
    /\ \A p \in Procs :
         /\ pc[p] # "undo"
         /\ pc[p] \in {"enqueue", "materialize", "load", "register", "append", "release"}
              => said[msg[p]] = 0

\* Some run has yet to settle a running session, or recovery will.
RunningWillSettle ==
  /\ faults = MaxFaults /\ status = "running"
  /\ crashes = MaxCrashes \/ "archive" \notin Admin
  => \/ boot \in {"recover", "fail"}
     \/ \E p \in Procs : pc[p] \in {"announce", "mark", "occurrence", "agent",
                                   "terminal", "settle"}

\* Some run has yet to report a running occurrence, or recovery will.
RunningWillReport ==
  faults = MaxFaults =>
    \A m \in Scheduled : occ[m] = "running" =>
      \/ boot \in {"recover", "fail", "occurrences"}
      \/ \E p \in Procs : msg[p] = m /\ pc[p] \in Launched \ {"occurrence"}

\* IInv and the parts above: every step of the code preserves it.
SteadyInv ==
  /\ IInv /\ Startup /\ Unsaid /\ RunningWillSettle /\ RunningWillReport
  /\ QueuedOccurrenceLive /\ SendingHeld
=============================================================================
