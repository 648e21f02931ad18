----------------------------- MODULE EventCache -----------------------------
(* What a browser keeps of the sessions' events in IndexedDB
   (web/src/lib/session-cache.ts): the events themselves, per session an
   entry with the cursor, the sequence numbers covered and the bytes used,
   and a hot window from which a session is painted at once.

   Page writes of a tab wait in one queue; reads, the migration of the old
   format and deletions do not.  Each of them is several transactions, and
   a step of this module is one transaction (a read of two stores that does
   not depend on each other is one as well).  An event takes one byte, and
   which other session is evicted first (the least recently used) is left
   open, so a touch of "usedAt" changes nothing here. *)
EXTENDS EventWindows, Sequences, FiniteSetsExt

CONSTANTS
  Sessions,
  Writes,         \* the writes of the view: consecutive events, and whether the
                  \* hot window is to have them
  Legacy,         \* sessions that have events in the format of before
  Cached,         \* cachedEventWindowPolicy
  SessionBytes,   \* persistentCachedEventBytesLimit
  GlobalBytes,    \* persistentGlobalEventBytesLimit
  HotWindows,     \* persistentHotWindowLimit
  CacheBounds     \* bound: writes, reads, faults (deletions, full storage), queue

(* Writes bring events, which are numbered from 1; limits are numbers. *)
ASSUME CacheAssumption ==
  /\ \A w \in Writes : /\ w.events \in SUBSET (Nat \ {0}) /\ w.events # {} /\ IsFiniteSet(w.events)
                       /\ w.hot \in BOOLEAN
  /\ SessionBytes \in Nat /\ Cached \in [turns : Nat, events : Nat]

VARIABLES
  records,   \* event-records: the sequence numbers stored per session
  meta,      \* event-meta
  hot,       \* event-hot-window
  legacy,    \* sessions whose old events were not migrated yet
  queue,     \* eventWriteQueue: page writes that have not begun
  job,       \* what the queue, the reader and a deletion are doing
  answer,    \* the last answer of a read
  done,      \* history: the newest cursor whose write has finished
  crossed,   \* history: an entry was written that was computed from an older
             \* one than it replaced, or written to or used while it was removed
  cacheSpent

cacheVars == <<records, meta, hot, legacy, queue, job, answer, done, crossed, cacheSpent>>

Agents == {"queue", "reader", "deletion"}

NoMeta == [present |-> FALSE, last |-> 0, bytes |-> 0, cov |-> {}]
NoHot == [present |-> FALSE, last |-> 0, events |-> {}]
IdleJob == [pc |-> "idle", s |-> "none", events |-> {}, hot |-> FALSE, attempt |-> 1,
            prev |-> NoMeta, replaced |-> 0, over |-> 0, left |-> {}, victim |-> "none",
            then |-> "idle", before |-> 0, least |-> 0, torn |-> FALSE]
NoAnswer == [s |-> "none", before |-> 0, got |-> {}, cursor |-> 0, least |-> 0, torn |-> FALSE]

CacheInit ==
  /\ records = [s \in Sessions |-> {}]
  /\ meta = [s \in Sessions |-> NoMeta]
  /\ hot = [s \in Sessions |-> NoHot]
  /\ legacy = Legacy
  /\ queue = <<>> /\ job = [a \in Agents |-> IdleJob] /\ answer = NoAnswer
  /\ done = [s \in Sessions |-> 0]
  /\ crossed = [s \in Sessions |-> FALSE]
  /\ cacheSpent = [k \in DOMAIN CacheBounds |-> 0]

CacheSpends(kind) == /\ cacheSpent[kind] < CacheBounds[kind]
                     /\ cacheSpent' = [cacheSpent EXCEPT ![kind] = @ + 1]

Max2(a, b) == IF a >= b THEN a ELSE b

Goto(a, pc) == job' = [job EXCEPT ![a].pc = pc]
Holds(a, s) == job[a].pc # "idle" /\ job[a].s = s
BeingRemoved(s) == \E a \in Agents : \/ job[a].pc = "evictMeta" /\ job[a].victim = s
                                     \/ job[a].pc = "deleted" /\ job[a].s = s

-----------------------------------------------------------------------------
(* Pure parts of the code. *)

(* Mutant: a page is joined to what is far from it. *)
BridgeCoverage(cov, page) == FirstSeq(cov \cup page) .. LastSeq(cov \cup page)

(* mergeCoverage: ranges are the runs of a set, and the runs that touch are
   joined by being one run of the union. *)
MergeCoverage(cov, page) == cov \cup page

(* The run that ends at a sequence number, of which a page is taken. *)
CoveredUpTo(cov, seq) == {s \in cov : s <= seq /\ s .. seq \subseteq cov}

(* Mutant: events that replace older ones are counted again. *)
NextMetaCountsTwice(prev, replaced, events) ==
  [present |-> TRUE, last |-> Max2(prev.last, LastSeq(events)),
   bytes |-> prev.bytes + Cardinality(events), cov |-> MergeCoverage(prev.cov, events)]

NextMeta(prev, replaced, events) ==
  [present |-> TRUE, last |-> Max2(prev.last, LastSeq(events)),
   bytes |-> Max2(0, prev.bytes - replaced + Cardinality(events)),
   cov |-> MergeCoverage(prev.cov, events)]

(* The hot window keeps the newer of two cursors, and its own events. *)
HotMerged(h, events, cursor) ==
  IF h.present /\ h.last > cursor THEN h
  ELSE LET window == BoundLatest(h.events \cup events, Cached)
       IN  [present |-> TRUE, last |-> Max2(h.last, cursor), events |-> window]

(* The hot window is written, then those of other sessions are removed until
   no more than the limit remain. *)
HotAfter(s, events, cursor) ==
  {h \in [Sessions -> {hot[t] : t \in Sessions} \cup {NoHot, HotMerged(hot[s], events, cursor)}] :
     /\ h[s] = HotMerged(hot[s], events, cursor)
     /\ \A t \in Sessions \ {s} : h[t] \in {hot[t], NoHot}
     /\ LET kept == {t \in Sessions : h[t].present}
            had == {t \in Sessions : hot[t].present} \cup {s}
        IN  IF Cardinality(had) <= HotWindows THEN kept = had
            ELSE Cardinality(kept) = Max2(1, HotWindows)}

TotalBytes == FoldSet(LAMBDA s, n : n + meta[s].bytes, 0, Sessions)
Others(s) == {<<t, meta[t].bytes>> : t \in {u \in Sessions \ {s} : meta[u].present}}

(* A put whose entry was computed from an older one undoes what came between. *)
PutMeta(s, prev, next) ==
  /\ meta' = [meta EXCEPT ![s] = next]
  /\ crossed' = [crossed EXCEPT ![s] = @ \/ meta[s] # prev]

-----------------------------------------------------------------------------
(* Page writes: writeCachedSessionEventPage. *)

Enqueue(s, w) ==
  /\ Len(queue) < CacheBounds.queue /\ CacheSpends("writes")
  /\ queue' = Append(queue, [s |-> s, events |-> w.events, hot |-> w.hot])
  /\ UNCHANGED <<records, meta, hot, legacy, job, answer, done, crossed>>

Dequeue ==
  /\ queue # <<>> /\ job["queue"].pc = "idle"
  /\ LET w == Head(queue)
     IN  job' = [job EXCEPT !["queue"] = [IdleJob EXCEPT !.s = w.s, !.events = w.events,
                   !.hot = w.hot, !.then = "prune", !.pc = IF w.hot THEN "hot" ELSE "existing"]]
  /\ queue' = Tail(queue)
  /\ UNCHANGED <<records, meta, hot, legacy, answer, done, crossed, cacheSpent>>

PutHot ==
  /\ job["queue"].pc = "hot"
  /\ LET j == job["queue"]
     IN  hot' \in HotAfter(j.s, j.events, LastSeq(j.events))
  /\ Goto("queue", "existing")
  /\ UNCHANGED <<records, meta, legacy, queue, answer, done, crossed, cacheSpent>>

(* writeCachedSessionEventWindow does not wait in the queue. *)
WriteWindow(s, w) ==
  /\ w.hot /\ CacheSpends("writes")
  /\ hot' \in HotAfter(s, w.events, LastSeq(w.events))
  /\ UNCHANGED <<records, meta, legacy, queue, job, answer, done, crossed>>

ReadExisting(a) ==
  /\ job[a].pc = "existing"
  /\ job' = [job EXCEPT ![a].replaced = Cardinality(records[job[a].s] \cap job[a].events),
                        ![a].pc = "previous"]
  /\ UNCHANGED <<records, meta, hot, legacy, queue, answer, done, crossed, cacheSpent>>

ReadPrevious(a) ==
  /\ job[a].pc = "previous"
  /\ job' = [job EXCEPT ![a].prev = meta[job[a].s], ![a].pc = "reserve"]
  /\ UNCHANGED <<records, meta, hot, legacy, queue, answer, done, crossed, cacheSpent>>

(* The entries of all sessions are read once; victims are removed while more
   than the limit is used. *)
Survey(a, added, then) ==
  LET over == TotalBytes + added - GlobalBytes
      left == Others(job[a].s)
  IN  IF over <= 0 \/ left = {} THEN Goto(a, then)
      ELSE job' = [job EXCEPT ![a].over = over, ![a].left = left, ![a].pc = "evict",
                              ![a].then = then]

Reserve(a) ==
  /\ job[a].pc = "reserve"
  /\ LET j == job[a]
         added == NextMeta(j.prev, j.replaced, j.events).bytes - j.prev.bytes
     IN  IF added <= 0 THEN Goto(a, "put") ELSE Survey(a, added, "put")
  /\ UNCHANGED <<records, meta, hot, legacy, queue, answer, done, crossed, cacheSpent>>

Enforce ==
  /\ job["queue"].pc = "enforce"
  /\ Survey("queue", 0, "finish")
  /\ UNCHANGED <<records, meta, hot, legacy, queue, answer, done, crossed, cacheSpent>>

(* Records first, then the entry: a victim is without records for a while. *)
EvictRecords(a) ==
  /\ job[a].pc = "evict"
  /\ \E v \in job[a].left :
       /\ records' = [records EXCEPT ![v[1]] = {}]
       /\ crossed' = [crossed EXCEPT ![v[1]] = @ \/ \E b \in Agents \ {a} : Holds(b, v[1])]
       /\ job' = [job EXCEPT ![a].pc = "evictMeta", ![a].victim = v[1],
                             ![a].over = @ - v[2], ![a].left = @ \ {v}]
  /\ UNCHANGED <<meta, hot, legacy, queue, answer, done, cacheSpent>>

EvictMeta(a) ==
  /\ job[a].pc = "evictMeta"
  /\ LET v == job[a].victim
     IN  /\ meta' = [meta EXCEPT ![v] = NoMeta]
         /\ done' = [done EXCEPT ![v] = 0]
         /\ crossed' = [crossed EXCEPT ![v] = @ \/ records[v] # {}
                                              \/ \E b \in Agents \ {a} : Holds(b, v)]
  /\ Goto(a, IF job[a].over <= 0 \/ job[a].left = {} THEN job[a].then ELSE "evict")
  /\ UNCHANGED <<records, hot, legacy, queue, answer, cacheSpent>>

(* History: a read that has the entry, but not yet the records, finds a hole if
   records that the entry covers were pruned before this page is written. *)
Tears(s) ==
  LET r == job["reader"]
  IN  /\ r.pc = "readBefore" /\ r.s = s
      /\ ~(CoveredUpTo(r.prev.cov, r.before - 1) \subseteq records[s])

(* putEventPage writes the records and the entry in one transaction. *)
PutPage(a) ==
  /\ job[a].pc = "put"
  /\ LET j == job[a]
     IN  /\ records' = [records EXCEPT ![j.s] = @ \cup j.events]
         /\ meta' = [meta EXCEPT ![j.s] = NextMeta(j.prev, j.replaced, j.events)]
         /\ crossed' = [crossed EXCEPT ![j.s] = @ \/ meta[j.s] # j.prev \/ BeingRemoved(j.s)
                           \/ Cardinality(records[j.s] \cap j.events) # j.replaced]
         /\ job' = [job EXCEPT ![a].pc = IF a = "queue" THEN "prune" ELSE "migrated",
                               !["reader"].torn = @ \/ Tears(j.s)]
  /\ UNCHANGED <<hot, legacy, queue, answer, done, cacheSpent>>

(* Storage is full: the other sessions are removed and the write is tried
   once more; then it is given up.  A migration is given up at once. *)
PutFails(a) ==
  /\ job[a].pc = "put" /\ CacheSpends("faults")
  /\ LET j == job[a]
         again == IF j.hot THEN "hot" ELSE "existing"
     IN  IF a = "queue" /\ j.attempt = 1
         THEN job' = [job EXCEPT ![a].attempt = 2, ![a].over = GlobalBytes,
                        ![a].left = Others(j.s), ![a].then = again,
                        ![a].pc = IF Others(j.s) = {} THEN again ELSE "evict"]
         ELSE job' = [job EXCEPT ![a] = IdleJob]
  /\ UNCHANGED <<records, meta, hot, legacy, queue, answer, done, crossed>>

(* pruneSessionEventRecords: the oldest records go until the session fits,
   then the entry that was read before is put back without them. *)
Retained(R) == {s \in R : Cardinality(From(R, s)) <= SessionBytes \/ s = LastSeq(R)}

Prune ==
  /\ job["queue"].pc = "prune"
  /\ LET s == job["queue"].s
     IN  IF ~meta[s].present \/ meta[s].bytes <= SessionBytes
         THEN Goto("queue", "enforce") /\ UNCHANGED records
         ELSE /\ records' = [records EXCEPT ![s] = Retained(@)]
              /\ job' = [job EXCEPT !["queue"].prev = meta[s], !["queue"].events = Retained(records[s]),
                                    !["queue"].pc = "pruned"]
  /\ UNCHANGED <<meta, hot, legacy, queue, answer, done, crossed, cacheSpent>>

PruneMeta ==
  /\ job["queue"].pc = "pruned"
  /\ LET j == job["queue"]
     IN  PutMeta(j.s, j.prev, [j.prev EXCEPT !.bytes = Cardinality(j.events),
                                             !.cov = From(@, FirstSeq(j.events))])
  /\ Goto("queue", "enforce")
  /\ UNCHANGED <<records, hot, legacy, queue, answer, done, cacheSpent>>

Finish ==
  /\ job["queue"].pc = "finish"
  /\ LET s == job["queue"].s
     IN  done' = [done EXCEPT ![s] = Max2(@, meta[s].last)]
  /\ job' = [job EXCEPT !["queue"] = IdleJob]
  /\ UNCHANGED <<records, meta, hot, legacy, queue, answer, crossed, cacheSpent>>

-----------------------------------------------------------------------------
(* Reads.  waitForSessionWrites: a read waits for the writes of its session
   that are queued when it begins. *)

NoWriteOf(s) == /\ ~Holds("queue", s)
                /\ \A i \in 1 .. Len(queue) : queue[i].s # s

Begin(s, before) ==
  /\ job["reader"].pc = "idle" /\ NoWriteOf(s) /\ CacheSpends("reads")
  /\ job' = [job EXCEPT !["reader"] = [IdleJob EXCEPT !.s = s, !.before = before,
               !.least = done[s], !.pc = IF before = 0 THEN "read" ELSE "readMeta"]]
  /\ UNCHANGED <<records, meta, hot, legacy, queue, answer, done, crossed>>

Answer(got, cursor) ==
  LET j == job["reader"]
  IN  answer' = [s |-> j.s, before |-> j.before, got |-> got, cursor |-> cursor,
                 least |-> j.least, torn |-> j.torn]

(* readCachedSessionEvents: the hot window, unless the entry is newer. *)
FromHot(h, m) == h.present /\ (~m.present \/ h.last >= m.last)

ReadCachedSessionEvents ==
  /\ job["reader"].pc = "read"
  /\ LET s == job["reader"].s
         window == BoundLatest(hot[s].events, Cached)
     IN  \/ /\ FromHot(hot[s], meta[s])
            /\ Answer(window, Max2(hot[s].last, LastSeq(window)))
            /\ job' = [job EXCEPT !["reader"] = IdleJob]
         \/ /\ ~FromHot(hot[s], meta[s]) /\ meta[s].present
            /\ job' = [job EXCEPT !["reader"].prev = meta[s], !["reader"].pc = "latest"]
            /\ UNCHANGED answer
         \/ /\ ~FromHot(hot[s], meta[s]) /\ ~meta[s].present
            /\ IF s \in legacy
               THEN job' = [job EXCEPT !["reader"].events = {1}, !["reader"].pc = "existing"]
               ELSE job' = [job EXCEPT !["reader"] = IdleJob]
            /\ UNCHANGED answer
  /\ UNCHANGED <<records, meta, hot, legacy, queue, done, crossed, cacheSpent>>

(* migrateLegacySessionEvents writes a page outside the queue, removes the old
   events and reads the entry it wrote. *)
Migrated ==
  /\ job["reader"].pc = "migrated"
  /\ LET s == job["reader"].s
     IN  /\ legacy' = legacy \ {s}
         /\ job' = [job EXCEPT !["reader"] = IF meta[s].present
                                             THEN [@ EXCEPT !.prev = meta[s], !.pc = "latest"]
                                             ELSE IdleJob]
  /\ UNCHANGED <<records, meta, hot, queue, answer, done, crossed, cacheSpent>>

ReadLatest ==
  /\ job["reader"].pc = "latest"
  /\ LET window == BoundLatest(records[job["reader"].s], Cached)
     IN  /\ Answer(window, Max2(job["reader"].prev.last, LastSeq(window)))
         /\ job' = [job EXCEPT !["reader"].events = window, !["reader"].pc = "putBack"]
  /\ UNCHANGED <<records, meta, hot, legacy, queue, done, crossed, cacheSpent>>

(* readCachedSessionEventsBefore *)
ReadMeta ==
  /\ job["reader"].pc = "readMeta"
  /\ LET j == job["reader"]
     IN  IF meta[j.s].present /\ j.before - 1 \in meta[j.s].cov
         THEN job' = [job EXCEPT !["reader"].prev = meta[j.s], !["reader"].pc = "readBefore"]
         ELSE job' = [job EXCEPT !["reader"] = IdleJob]
  /\ UNCHANGED <<records, meta, hot, legacy, queue, answer, done, crossed, cacheSpent>>

ReadBefore ==
  /\ job["reader"].pc = "readBefore"
  /\ LET j == job["reader"]
         from == FirstSeq(CoveredUpTo(j.prev.cov, j.before - 1))
         page == BoundLatest({s \in records[j.s] : from <= s /\ s < j.before}, Cached)
     IN  IF page = {} THEN job' = [job EXCEPT !["reader"] = IdleJob] /\ UNCHANGED answer
         ELSE /\ Answer(page, j.prev.last)
              /\ job' = [job EXCEPT !["reader"].pc = "putBack"]
  /\ UNCHANGED <<records, meta, hot, legacy, queue, done, crossed, cacheSpent>>

(* The whole entry that was read is put back to record the use of it. *)
PutBack ==
  /\ job["reader"].pc = "putBack"
  /\ LET j == job["reader"]
     IN  /\ PutMeta(j.s, j.prev, j.prev)
         /\ IF j.before = 0
            THEN hot' \in HotAfter(j.s, j.events, Max2(j.prev.last, LastSeq(j.events)))
            ELSE UNCHANGED hot
  /\ job' = [job EXCEPT !["reader"] = IdleJob]
  /\ UNCHANGED <<records, legacy, queue, answer, done, cacheSpent>>

-----------------------------------------------------------------------------
(* deleteCachedSession does not wait for the queue either. *)

DeleteRecords(s) ==
  /\ job["deletion"].pc = "idle" /\ CacheSpends("faults")
  /\ records' = [records EXCEPT ![s] = {}]
  /\ job' = [job EXCEPT !["deletion"].pc = "deleted", !["deletion"].s = s]
  /\ crossed' = [crossed EXCEPT ![s] = @ \/ \E a \in {"queue", "reader"} : Holds(a, s)]
  /\ UNCHANGED <<meta, hot, legacy, queue, answer, done>>

DeleteEntries ==
  /\ job["deletion"].pc = "deleted"
  /\ LET s == job["deletion"].s
     IN  /\ meta' = [meta EXCEPT ![s] = NoMeta]
         /\ hot' = [hot EXCEPT ![s] = NoHot]
         /\ legacy' = legacy \ {s}
         /\ done' = [done EXCEPT ![s] = 0]
         /\ crossed' = [crossed EXCEPT ![s] = @ \/ records[s] # {}
                                     \/ \E a \in {"queue", "reader"} : Holds(a, s)]
  /\ job' = [job EXCEPT !["deletion"] = IdleJob]
  /\ UNCHANGED <<records, queue, answer, cacheSpent>>

-----------------------------------------------------------------------------
QueueSteps == Dequeue \/ PutHot \/ Enforce \/ Prune \/ PruneMeta \/ Finish
ReaderSteps == ReadCachedSessionEvents \/ Migrated \/ ReadLatest \/ ReadMeta \/ ReadBefore \/ PutBack
WriteSteps(a) == \/ ReadExisting(a) \/ ReadPrevious(a) \/ Reserve(a)
                 \/ EvictRecords(a) \/ EvictMeta(a) \/ PutPage(a) \/ PutFails(a)

CacheNext ==
  \/ \E s \in Sessions :
       \/ \E w \in Writes : Enqueue(s, w) \/ WriteWindow(s, w)
       \/ \E b \in {0} \cup {LastSeq(w.events) + 1 : w \in Writes} : Begin(s, b)
       \/ DeleteRecords(s)
  \/ QueueSteps \/ ReaderSteps \/ DeleteEntries
  \/ \E a \in {"queue", "reader"} : WriteSteps(a)

CacheSpec == CacheInit /\ [][CacheNext]_cacheVars

-----------------------------------------------------------------------------
PageHasNoGap ==
  (answer.before > 0 /\ answer.got # {} /\ ~crossed[answer.s] /\ ~answer.torn)
    => answer.got = FirstSeq(answer.got) .. (answer.before - 1)

ReadSeesWrites ==
  (answer.before = 0 /\ answer.s # "none" /\ ~crossed[answer.s]) => answer.cursor >= answer.least

(* A page of history that is read from storage reaches up to the event that
   was asked for and has no hole: coverage never claims what is not there.  And
   a read is not older than a write that was finished when it began: the hot
   window, which some writes skip, never hides a newer entry.  Both as long as
   no entry was written from an older one; and a page has no hole unless its
   session was pruned and written to between the two transactions of the read. *)
AnswerIsWhole == PageHasNoGap /\ ReadSeesWrites

(* When nobody is at work, the bytes of an entry, from which all evictions are
   decided, are those of the records the session has. *)
AccountingExact ==
  (\A a \in Agents : job[a].pc = "idle")
    => \A s \in Sessions : crossed[s] \/ meta[s].bytes = Cardinality(records[s])
=============================================================================
