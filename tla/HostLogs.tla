------------------------------ MODULE HostLogs ------------------------------
(* The output of a hosted preview on its way to the page: the ring that
   retains it and hands it to subscribers (internal/hosting/logs.go), the
   stream that replays and follows it (internal/httpapi/hosting.go), and the
   panel that merges what it reads and resumes after the last number it saw
   (components/host-preview.tsx).  A chunk of output is its number. *)
EXTENDS Integers, Sequences, FiniteSets, FiniteSetsExt

CONSTANTS
  Ring,       \* chunks the ring retains
  Buffer,     \* logSubscriberBuffer
  Rendered,   \* maxRenderedChunks
  LogBounds   \* bound: chunks, disconnects, loads, restarts of the server

\* The sizes of the ring, of a channel and of the panel are numbers.
ASSUME LogsAssumption == Ring \in Nat /\ Buffer \in Nat /\ Rendered \in Nat

VARIABLES
  nextSeq,            \* the number of the newest chunk
  stream,             \* "closed", "open", "lost": the panel's connection
  channel, wire,      \* the subscriber's channel, and what the stream has written
  logs, lastLogSeq,   \* what the panel shows, and where it resumes
  load,               \* "none", "asked", or the answer; and whether logsReady
  ready,
  dropped,            \* chunks a full channel did not take
  restarted,          \* the server was restarted, and its numbers began anew, since
                      \* the panel took up the preview
  logSpent

logVars == <<nextSeq, stream, channel, wire, logs, lastLogSeq, load, ready, dropped,
             restarted, logSpent>>

LogSpends(kind) ==
  logSpent[kind] < LogBounds[kind] /\ logSpent' = [logSpent EXCEPT ![kind] = @ + 1]
LogFree == logSpent' = logSpent

Newest(S, n) == {c \in S : Cardinality({d \in S : d > c}) < n}
Retained == Newest(1 .. nextSeq, Ring)
NoAnswer == [is |-> "none", chunks |-> {}]

LogInit ==
  /\ nextSeq = 0 /\ stream = "closed" /\ channel = <<>> /\ wire = <<>>
  /\ logs = {} /\ lastLogSeq = 0 /\ load = NoAnswer /\ ready = FALSE
  /\ dropped = {} /\ restarted = FALSE /\ logSpent = [kind \in DOMAIN LogBounds |-> 0]

-----------------------------------------------------------------------------
(* append: a subscriber whose channel is full goes without. *)
Output ==
  /\ LogSpends("chunks") /\ nextSeq' = nextSeq + 1
  /\ IF stream = "open" /\ Len(channel) < Buffer
     THEN channel' = Append(channel, nextSeq') /\ UNCHANGED dropped
     ELSE /\ UNCHANGED channel
          /\ dropped' = IF stream = "open" THEN dropped \cup {nextSeq'} ELSE dropped
  /\ UNCHANGED <<stream, wire, logs, lastLogSeq, load, ready, restarted>>

(* The handler writes what the channel holds. *)
Write ==
  /\ stream = "open" /\ channel # <<>> /\ LogFree
  /\ wire' = Append(wire, Head(channel)) /\ channel' = Tail(channel)
  /\ UNCHANGED <<nextSeq, stream, logs, lastLogSeq, load, ready, dropped, restarted>>

(* A restarted server restores the preview with an empty ring; the panel goes on
   from a number that is too high. *)
ServerRestarts ==
  /\ LogSpends("restarts") /\ nextSeq' = 0 /\ restarted' = TRUE
  /\ stream' = IF stream = "open" THEN "lost" ELSE stream
  /\ channel' = <<>> /\ wire' = <<>>
  /\ dropped' = {} /\ UNCHANGED <<logs, lastLogSeq, load, ready>>

-----------------------------------------------------------------------------
(* The panel takes up a preview, or tries again while it has no status: the answer
   to an older load is ignored, and the stream is opened once this one's is there. *)
Load ==
  /\ LogSpends("loads")
  /\ load' = [is |-> "asked", chunks |-> {}] /\ ready' = FALSE
  /\ logs' = {} /\ lastLogSeq' = 0
  /\ stream' = "closed" /\ channel' = <<>> /\ wire' = <<>> /\ restarted' = FALSE
  /\ UNCHANGED <<nextSeq, dropped>>
ServeLoad ==
  /\ load.is = "asked" /\ LogFree
  /\ load' = [is |-> "read", chunks |-> Retained]
  /\ UNCHANGED <<nextSeq, stream, channel, wire, logs, lastLogSeq, ready, dropped, restarted>>
Loaded ==
  /\ load.is = "read" /\ LogFree
  /\ load' = NoAnswer /\ ready' = TRUE
  /\ logs' = Newest(load.chunks, Rendered) /\ lastLogSeq' = Max(load.chunks \cup {0})
  /\ UNCHANGED <<nextSeq, stream, channel, wire, dropped, restarted>>
LoadFails ==
  /\ load.is # "none" /\ LogSpends("disconnects")
  /\ load' = NoAnswer /\ logs' = {}
  /\ ready' \in {ready, TRUE}
  /\ UNCHANGED <<nextSeq, stream, channel, wire, lastLogSeq, dropped, restarted>>

InOrder(S) ==
  [i \in 1 .. Cardinality(S) |-> CHOOSE c \in S : Cardinality({d \in S : d < c}) = i - 1]

(* Mutant: the replay misses the chunk after the last one seen. *)
ReplayLater == {c \in Retained : c > lastLogSeq + 1}
Replay == {c \in Retained : c > lastLogSeq}

(* subscribe: the replay and the channel are taken together. *)
Connect ==
  /\ ready /\ stream # "open" /\ LogFree
  /\ stream' = "open" /\ channel' = <<>> /\ wire' = InOrder(Replay)
  /\ UNCHANGED <<nextSeq, logs, lastLogSeq, load, ready, dropped, restarted>>

Disconnect ==
  /\ stream = "open" /\ LogSpends("disconnects")
  /\ stream' = "lost" /\ channel' = <<>> /\ wire' = <<>>
  /\ UNCHANGED <<nextSeq, logs, lastLogSeq, load, ready, dropped, restarted>>

(* appendLogs, mergeLogChunks *)
Read ==
  /\ stream = "open" /\ wire # <<>> /\ LogFree
  /\ logs' = Newest(logs \cup {Head(wire)}, Rendered)
  /\ lastLogSeq' = Max({lastLogSeq, Head(wire)}) /\ wire' = Tail(wire)
  /\ UNCHANGED <<nextSeq, stream, channel, load, ready, dropped, restarted>>

LogNext ==
  \/ Output \/ Write \/ ServerRestarts \/ Load \/ ServeLoad \/ Loaded \/ LoadFails
  \/ Connect \/ Disconnect \/ Read
LogSpec == LogInit /\ [][LogNext]_logVars

-----------------------------------------------------------------------------
CaughtUp == stream = "open" /\ channel = <<>> /\ wire = <<>> /\ ~restarted

(* A panel that has caught up shows the newest output of the preview, and every
   retained chunk that is newer than its oldest one, through every loss and
   resumption of the stream; only chunks that found the channel full are missing.
   Nothing is said of a panel that was open when the server restarted (~restarted):
   until it is taken up anew it resumes after a number the new server has yet to
   reach, and what is below that number is not replayed. *)
NoChunkIsSkipped ==
  CaughtUp /\ logs # {} =>
    \A c \in Newest(Retained, Rendered) \ dropped : c >= Min(logs) => c \in logs

(* "Slow subscribers reconnect with their last sequence and replay from the
   ring": what the ring retains reaches the panel. *)
SlowSubscribersReplay ==
  CaughtUp /\ logs # {} => \A c \in Newest(Retained, Rendered) : c >= Min(logs) => c \in logs
=============================================================================
