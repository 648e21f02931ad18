-------------------------- MODULE EventCacheProofs --------------------------
(* What the browser keeps of a session is exact and is read whole, for any
   sessions, writes and limits, and however the queue, a reader and a deletion
   interleave.

   Everything is said of one session at a time, unless an entry of it was
   computed from an older one or written while it was removed (crossed).  The
   entry counts the records and covers only what is there (Exact), but in two
   places where the code needs two transactions: while a session is being
   removed, when the records are gone already (Emptied), and while it is being
   pruned, when the records are those that the entry about to be put back counts
   (PrunedOf).  The cursor of an entry is never older than a finished write
   (Newest), nor is the one a reader holds (Following); and a reader that holds
   the coverage finds records without a hole below the event it asks for
   (Unbroken), since what is pruned meanwhile is a beginning and what is added
   lies in what was covered or tears the read. *)
EXTENDS EventCache, FiniteSetTheorems, WellFoundedInduction, TLAPS

Finite == {W \in SUBSET Nat : IsFiniteSet(W)}

Metas == {m \in [present : BOOLEAN, last : Nat, bytes : Nat, cov : Finite] :
            m.present \/ m.last = 0}

Hots == [present : BOOLEAN, last : Nat, events : Finite]

Pages == [s : Sessions, events : Finite, hot : BOOLEAN]

Removing == {"evict", "evictMeta"}
Writing == {"existing", "previous", "reserve", "put"} \cup Removing
QueuePcs == Writing \cup {"idle", "hot", "prune", "pruned", "enforce", "finish"}
ReaderPcs == Writing \cup {"idle", "read", "migrated", "latest", "putBack", "readMeta", "readBefore"}
DeletionPcs == {"idle", "deleted"}
Pcs == QueuePcs \cup ReaderPcs \cup DeletionPcs

JobShape(j) ==
  j \in [pc : Pcs, s : Sessions \cup {"none"}, events : Finite, hot : BOOLEAN, attempt : Nat,
         prev : Metas, replaced : Nat, over : {j.over}, left : SUBSET (Sessions \X Nat),
         victim : Sessions \cup {"none"}, then : Pcs, before : Nat, least : Nat, torn : BOOLEAN]

(* A job is one on a session, and removes others than that. *)
JobOK(j, then) ==
  /\ JobShape(j)
  /\ j.pc # "idle" => j.s \in Sessions
  /\ j.pc \in Removing => j.then \in then /\ \A v \in j.left : v[1] # j.s
  /\ j.pc = "evictMeta" => j.victim \in Sessions /\ j.victim # j.s

(* Only a read of a page of history has an event it reads up to. *)
PageOrWindow(j) ==
  /\ j.pc \in {"readMeta", "readBefore"} => j.before > 0
  /\ j.pc \in Writing \cup {"read", "migrated", "latest"} => j.before = 0
  /\ j.pc = "readBefore" => j.before - 1 \in j.prev.cov

PcsOf == [queue |-> QueuePcs, reader |-> ReaderPcs, deletion |-> DeletionPcs]
Then == [queue |-> {"put", "finish", "hot", "existing"}, reader |-> {"put"}, deletion |-> {}]

Jobs ==
  /\ job = [a \in Agents |-> job[a]]
  /\ \A a \in Agents : JobOK(job[a], Then[a]) /\ job[a].pc \in PcsOf[a]
  /\ PageOrWindow(job["reader"])

Store ==
  /\ records \in [Sessions -> Finite] /\ meta \in [Sessions -> Metas]
  /\ hot \in [Sessions -> Hots]
  /\ queue \in Seq(Pages)
  /\ done \in [Sessions -> Nat] /\ crossed \in [Sessions -> BOOLEAN]

CacheTypeOK == Store /\ Jobs /\ (answer.s \in Sessions \/ answer = NoAnswer)

-----------------------------------------------------------------------------
Emptied(s) == BeingRemoved(s) => records[s] = {}

Pruning(s) == job["queue"].pc = "pruned" /\ job["queue"].s = s

(* An entry that a migration wrote over m, which is not m and never will be. *)
Grown(m, n) ==
  n # m /\ n.bytes >= m.bytes /\ n.last >= m.last /\ m.cov \subseteq n.cov
        /\ (m.present => n.present)

PrunedOf(s) ==
  LET j == job["queue"]
  IN  Pruning(s) =>
        \/ /\ meta[s] = j.prev /\ records[s] = j.events
           /\ BeingRemoved(s) \/ From(j.prev.cov, FirstSeq(j.events)) \subseteq j.events
        \/ Grown(j.prev, meta[s]) /\ ~(Holds("reader", s) /\ job["reader"].before > 0)

Exact(s) ==
  \/ BeingRemoved(s) \/ Pruning(s)
  \/ meta[s].bytes = Cardinality(records[s]) /\ meta[s].cov \subseteq records[s]

Newest(s) == done[s] <= meta[s].last

Following(s) ==
  LET j == job["reader"]
  IN  Holds("reader", s) /\ j.before = 0 =>
        /\ j.least <= meta[s].last
        /\ j.pc = "latest" => j.least <= j.prev.last

Asked(j) == CoveredUpTo(j.prev.cov, j.before - 1)

Unbroken(s) ==
  LET j == job["reader"]
  IN  j.pc = "readBefore" /\ j.s = s /\ ~j.torn =>
        \A x \in Asked(j) \cap records[s] : x .. j.before - 1 \subseteq records[s]

Whole(s) ==
  answer.s = s =>
    /\ answer.before > 0 /\ answer.got # {} /\ ~answer.torn =>
         answer.got = FirstSeq(answer.got) .. answer.before - 1
    /\ answer.before = 0 => answer.cursor >= answer.least

Sound(s) ==
  /\ Emptied(s) /\ PrunedOf(s) /\ Exact(s)
  /\ Newest(s) /\ Following(s) /\ Unbroken(s) /\ Whole(s)

CacheIInv == CacheTypeOK /\ \A s \in Sessions : crossed[s] \/ Sound(s)
-----------------------------------------------------------------------------
(* Windows: finite sets of natural numbers and their ends. *)
Less == OpToRel(<, Nat)

LEMMA LessWellFounded == IsWellFoundedOn(Less, Nat)
BY NatLessThanWellFounded DEF Less

LEMMA Lesser == ASSUME NEW x \in Nat, NEW y \in Nat, y < x PROVE <<y, x>> \in Less
BY DEF Less, OpToRel

LEMMA LeastExists ==
  ASSUME NEW S \in SUBSET Nat, S # {}
  PROVE  \E x \in S : \A y \in S : x <= y
<1>1. PICK x \in S : \A y \in S : ~(<<y, x>> \in Less)
  BY LessWellFounded, WFMin
<1>2. ASSUME NEW y \in S PROVE x <= y
  <2>1. ~(y < x)
    BY <1>1, Lesser
  <2> QED BY <2>1
<1> QED BY <1>2

(* The greatest: the one that has the fewest above it. *)
LEMMA GreatestExists ==
  ASSUME NEW W \in Finite, W # {}
  PROVE  \E x \in W : \A y \in W : y <= x
<1> DEFINE Above(x) == {y \in W : y > x}
           sizes == {Cardinality(Above(x)) : x \in W}
<1>1. \A x \in W : Above(x) \in SUBSET W /\ IsFiniteSet(Above(x)) /\ Cardinality(Above(x)) \in Nat
  <2> TAKE x \in W
  <2>1. IsFiniteSet(W) /\ Above(x) \in SUBSET W
    BY DEF Finite
  <2>2. IsFiniteSet(Above(x))
    BY <2>1, FS_Subset
  <2> QED BY <2>1, <2>2, FS_CardinalityType
<1>2. sizes \in SUBSET Nat /\ sizes # {}
  BY <1>1
<1>3. PICK n \in sizes : \A m \in sizes : n <= m
  BY <1>2, LeastExists
<1>4. PICK x \in W : n = Cardinality(Above(x))
  BY <1>3
<1>5. ASSUME NEW y \in W, y > x PROVE FALSE
  <2>0. W \subseteq Nat
    BY DEF Finite
  <2>1. Above(y) \in SUBSET Above(x) /\ y \in Above(x) /\ y \notin Above(y)
    <3>1. \A z \in W : z > y => z > x
      BY <1>5, <2>0
    <3>2. y > x /\ ~(y > y)
      BY <1>5, <2>0
    <3> QED BY <3>1, <3>2
  <2>2. Cardinality(Above(y)) <= Cardinality(Above(x)) /\ Cardinality(Above(x)) # Cardinality(Above(y))
    BY <1>1, <2>1, FS_Subset
  <2>3. n <= Cardinality(Above(y))
    BY <1>3
  <2> QED BY <1>1, <1>4, <2>2, <2>3
<1>6. W \subseteq Nat
  BY DEF Finite
<1> QED BY <1>5, <1>6

LEMMA FirstIs ==
  ASSUME NEW W \in SUBSET Nat, W # {}
  PROVE  FirstSeq(W) \in W /\ \A x \in W : FirstSeq(W) <= x
BY LeastExists DEF FirstSeq

LEMMA LastIs ==
  ASSUME NEW W \in Finite, W # {}
  PROVE  LastSeq(W) \in W /\ \A x \in W : x <= LastSeq(W)
<1>1. PICK x \in W : \A y \in W : y <= x
  BY GreatestExists
<1>2. \A y \in W : x >= y
  BY <1>1 DEF Finite
<1>3. LastSeq(W) \in W /\ \A y \in W : LastSeq(W) >= y
  BY <1>2 DEF LastSeq
<1> QED BY <1>3 DEF Finite

LEMMA SeqTypes == ASSUME NEW W \in Finite PROVE FirstSeq(W) \in Nat /\ LastSeq(W) \in Nat
<1>1. CASE W = {}
  BY <1>1 DEF FirstSeq, LastSeq
<1>2. CASE W # {}
  BY <1>2, FirstIs, LastIs DEF Finite
<1> QED BY <1>1, <1>2

LEMMA PartIsFinite ==
  ASSUME NEW W \in Finite, NEW U, U \subseteq W
  PROVE  U \in Finite /\ Cardinality(U) \in Nat /\ Cardinality(U) <= Cardinality(W)
<1>1. IsFiniteSet(U) /\ Cardinality(U) <= Cardinality(W)
  BY FS_Subset DEF Finite
<1> QED BY <1>1, FS_CardinalityType DEF Finite

(* What a window keeps when it is bounded from below. *)
Upper(U, W) == U \subseteq W /\ \A x \in U, y \in W : x <= y => y \in U

LEMMA FromShrinks ==
  ASSUME NEW W \in Finite, NEW x \in Nat, NEW y \in Nat, x <= y
  PROVE  /\ Cardinality(From(W, y)) \in Nat /\ Cardinality(From(W, x)) \in Nat
         /\ Cardinality(From(W, y)) <= Cardinality(From(W, x))
         /\ TurnsIn(From(W, y)) \in Nat /\ TurnsIn(From(W, x)) \in Nat
         /\ TurnsIn(From(W, y)) <= TurnsIn(From(W, x))
<1>1. From(W, x) \in Finite
  BY PartIsFinite DEF From
<1>2. From(W, y) \subseteq From(W, x)
  <2>1. W \subseteq Nat
    BY DEF Finite
  <2>2. \A z \in W : z >= y => z >= x
    BY <2>1
  <2> QED BY <2>2 DEF From
<1>3. From(W, x) \cap TurnStarts \in Finite
  BY <1>1, PartIsFinite
<1>4. From(W, y) \cap TurnStarts \subseteq From(W, x) \cap TurnStarts
  BY <1>2
<1>5. Cardinality(From(W, x)) \in Nat /\ Cardinality(From(W, x) \cap TurnStarts) \in Nat
  BY <1>1, <1>3, PartIsFinite
<1>6. /\ Cardinality(From(W, y)) \in Nat
      /\ Cardinality(From(W, y)) <= Cardinality(From(W, x))
  BY <1>1, <1>2, PartIsFinite
<1>7. /\ Cardinality(From(W, y) \cap TurnStarts) \in Nat
      /\ Cardinality(From(W, y) \cap TurnStarts) <= Cardinality(From(W, x) \cap TurnStarts)
  BY <1>3, <1>4, PartIsFinite
<1> QED BY <1>5, <1>6, <1>7 DEF TurnsIn

LEMMA BoundIsUpper ==
  ASSUME NEW W \in Finite
  PROVE  Upper(BoundLatest(W, Cached), W) /\ BoundLatest(W, Cached) \in Finite
<1>1. Cached.turns \in Nat /\ Cached.events \in Nat
  BY CacheAssumption
<1>2. ASSUME NEW x \in BoundLatest(W, Cached), NEW y \in W, x <= y
      PROVE  y \in BoundLatest(W, Cached)
  <2>0. x \in W /\ x \in Nat /\ y \in Nat /\ W # {}
    BY DEF BoundLatest, Finite
  <2>1. CASE x = LastSeq(W)
    BY <1>2, <2>0, <2>1, LastIs
  <2>2. CASE Fits(From(W, x), Cached) /\ TurnsIn(From(W, x + 1)) < Cached.turns
    <3>1. /\ Cardinality(From(W, y)) <= Cardinality(From(W, x))
          /\ TurnsIn(From(W, y)) <= TurnsIn(From(W, x))
          /\ Cardinality(From(W, y)) \in Nat /\ Cardinality(From(W, x)) \in Nat
          /\ TurnsIn(From(W, y)) \in Nat /\ TurnsIn(From(W, x)) \in Nat
      BY <1>2, <2>0, FromShrinks
    <3>2. /\ TurnsIn(From(W, y + 1)) <= TurnsIn(From(W, x + 1))
          /\ TurnsIn(From(W, y + 1)) \in Nat /\ TurnsIn(From(W, x + 1)) \in Nat
      <4>1. x + 1 \in Nat /\ y + 1 \in Nat /\ x + 1 <= y + 1
        BY <1>2, <2>0
      <4> QED BY <4>1, FromShrinks
    <3>3. Fits(From(W, y), Cached) /\ TurnsIn(From(W, y + 1)) < Cached.turns
      BY <1>1, <2>2, <3>1, <3>2 DEF Fits
    <3> QED BY <3>3 DEF BoundLatest
  <2> QED BY <2>1, <2>2 DEF BoundLatest
<1>3. BoundLatest(W, Cached) \subseteq W
  BY DEF BoundLatest
<1> QED BY <1>2, <1>3, PartIsFinite DEF Upper

LEMMA RetainedIsUpper ==
  ASSUME NEW W \in Finite
  PROVE  /\ Upper(Retained(W), W) /\ Retained(W) \in Finite
         /\ W # {} => Retained(W) # {}
<1>1. SessionBytes \in Nat
  BY CacheAssumption
<1>2. ASSUME NEW x \in Retained(W), NEW y \in W, x <= y
      PROVE  y \in Retained(W)
  <2>0. x \in W /\ x \in Nat /\ y \in Nat /\ W # {}
    BY DEF Retained, Finite
  <2>1. CASE x = LastSeq(W)
    BY <1>2, <2>0, <2>1, LastIs
  <2>2. CASE Cardinality(From(W, x)) <= SessionBytes
    <3>1. /\ Cardinality(From(W, y)) <= Cardinality(From(W, x))
          /\ Cardinality(From(W, y)) \in Nat /\ Cardinality(From(W, x)) \in Nat
      BY <1>2, <2>0, FromShrinks
    <3>2. Cardinality(From(W, y)) <= SessionBytes
      BY <1>1, <2>2, <3>1
    <3> QED BY <3>2 DEF Retained
  <2> QED BY <2>1, <2>2 DEF Retained
<1>3. Retained(W) \subseteq W
  BY DEF Retained
<1>4. W # {} => LastSeq(W) \in Retained(W)
  BY LastIs DEF Retained
<1> QED BY <1>2, <1>3, <1>4, PartIsFinite DEF Upper

-----------------------------------------------------------------------------
(* Types. *)
LEMMA JobFields ==
  ASSUME NEW j, JobShape(j)
  PROVE  /\ j.pc \in Pcs /\ j.s \in Sessions \cup {"none"} /\ j.events \in Finite
         /\ j.hot \in BOOLEAN /\ j.attempt \in Nat /\ j.prev \in Metas /\ j.replaced \in Nat
         /\ j.left \in SUBSET (Sessions \X Nat) /\ j.victim \in Sessions \cup {"none"}
         /\ j.then \in Pcs /\ j.before \in Nat /\ j.least \in Nat /\ j.torn \in BOOLEAN
BY DEF JobShape

(* A step of a job keeps those of the others. *)
LEMMA OneJob ==
  ASSUME Jobs, NEW a \in Agents, NEW j, JobOK(j, Then[a]), j.pc \in PcsOf[a],
         a = "reader" => PageOrWindow(j), job' = [job EXCEPT ![a] = j]
  PROVE  Jobs' /\ job'[a] = j /\ \A b \in Agents \ {a} : job'[b] = job[b]
<1>1. job'[a] = j /\ \A b \in Agents \ {a} : job'[b] = job[b]
  BY DEF Jobs
<1>2. job' = [b \in Agents |-> job'[b]]
  BY DEF Jobs
<1>3. \A b \in Agents : JobOK(job'[b], Then[b]) /\ job'[b].pc \in PcsOf[b]
  BY <1>1 DEF Jobs
<1>4. PageOrWindow(job'["reader"])
  <2>1. "reader" \in Agents
    BY DEF Agents
  <2> QED BY <1>1, <2>1 DEF Jobs
<1> QED BY <1>1, <1>2, <1>3, <1>4 DEF Jobs

(* A job that goes on to another place of the code is otherwise as before. *)
Moved(j, p) == [j EXCEPT !.pc = p]

LEMMA MovedIs ==
  ASSUME NEW j, JobShape(j), NEW p \in Pcs
  PROVE  /\ JobShape(Moved(j, p)) /\ Moved(j, p).pc = p
         /\ Moved(j, p).s = j.s /\ Moved(j, p).events = j.events /\ Moved(j, p).prev = j.prev
         /\ Moved(j, p).before = j.before /\ Moved(j, p).least = j.least
         /\ Moved(j, p).torn = j.torn /\ Moved(j, p).left = j.left /\ Moved(j, p).then = j.then
         /\ Moved(j, p).victim = j.victim
BY DEF JobShape, Moved

LEMMA NoMetaType == NoMeta \in Metas /\ NoHot \in Hots /\ {} \in Finite
<1>1. {} \in Finite
  BY FS_EmptySet DEF Finite
<1> QED BY <1>1 DEF NoMeta, NoHot, Metas, Hots

LEMMA NextMetaType ==
  ASSUME NEW m \in Metas, NEW n \in Nat, NEW W \in Finite
  PROVE  /\ NextMeta(m, n, W) \in Metas /\ NextMeta(m, n, W).present
         /\ NextMeta(m, n, W).last >= m.last
         /\ NextMeta(m, n, W).cov = m.cov \cup W
         /\ NextMeta(m, n, W).bytes = Max2(0, m.bytes - n + Cardinality(W))
<1>1. m.last \in Nat /\ m.bytes \in Nat /\ m.cov \in Finite
  BY DEF Metas
<1>2. LastSeq(W) \in Nat /\ Cardinality(W) \in Nat
  BY SeqTypes, PartIsFinite
<1>3. m.cov \cup W \in Finite
  BY <1>1, FS_Union DEF Finite
<1>4. Max2(m.last, LastSeq(W)) \in Nat /\ Max2(m.last, LastSeq(W)) >= m.last
  BY <1>1, <1>2 DEF Max2
<1>5. Max2(0, m.bytes - n + Cardinality(W)) \in Nat
  BY <1>1, <1>2 DEF Max2
<1> QED BY <1>3, <1>4, <1>5 DEF NextMeta, Metas, MergeCoverage

LEMMA HotType ==
  ASSUME Store, NEW s \in Sessions, NEW W \in Finite, NEW n \in Nat,
         NEW h \in HotAfter(s, W, n)
  PROVE  h \in [Sessions -> Hots]
<1>1. HotMerged(hot[s], W, n) \in Hots
  <2>1. hot[s] \in Hots
    BY DEF Store
  <2>2. hot[s].last \in Nat /\ hot[s].events \in Finite
    BY <2>1 DEF Hots
  <2>3. hot[s].events \cup W \in Finite
    BY <2>2, FS_Union DEF Finite
  <2>4. BoundLatest(hot[s].events \cup W, Cached) \in Finite
    BY <2>3, BoundIsUpper
  <2>5. Max2(hot[s].last, n) \in Nat
    BY <2>2 DEF Max2
  <2> QED BY <2>1, <2>4, <2>5 DEF HotMerged, Hots
<1>2. h \in [Sessions -> {hot[t] : t \in Sessions} \cup {NoHot, HotMerged(hot[s], W, n)}]
  BY DEF HotAfter
<1>3. {hot[t] : t \in Sessions} \cup {NoHot, HotMerged(hot[s], W, n)} \subseteq Hots
  BY <1>1, NoMetaType DEF Store
<1> QED BY <1>2, <1>3

LEMMA IdleIsOK ==
  ASSUME NEW a \in Agents
  PROVE  /\ JobOK(IdleJob, Then[a]) /\ IdleJob.pc = "idle" /\ "idle" \in PcsOf[a]
         /\ JobShape(IdleJob) /\ PageOrWindow(IdleJob)
<1>1. JobShape(IdleJob)
  BY NoMetaType DEF JobShape, IdleJob, Pcs, QueuePcs
<1>2. IdleJob.pc = "idle"
  BY DEF IdleJob
<1>3. "idle" \in PcsOf[a]
  BY DEF PcsOf, QueuePcs, ReaderPcs, DeletionPcs, Agents
<1> QED BY <1>1, <1>2, <1>3 DEF JobOK, PageOrWindow, Removing, Writing

LEMMA OthersType ==
  ASSUME Store, NEW s \in Sessions
  PROVE  Others(s) \in SUBSET (Sessions \X Nat) /\ \A v \in Others(s) : v[1] # s
BY DEF Others, Store, Metas

LEMMA InitSound == CacheInit => CacheIInv
<1> SUFFICES ASSUME CacheInit PROVE CacheIInv
  OBVIOUS
<1>1. Store
  BY NoMetaType DEF CacheInit, Store
<1>2. Jobs
  <2>1. job = [a \in Agents |-> IdleJob]
    BY DEF CacheInit
  <2>2. "reader" \in Agents
    BY DEF Agents
  <2> QED BY <2>1, <2>2, IdleIsOK DEF Jobs
<1>3. \A a \in Agents : job[a] = IdleJob
  BY DEF CacheInit
<1>4. /\ job["queue"].pc = "idle" /\ job["reader"].pc = "idle" /\ job["deletion"].pc = "idle"
      /\ \A a \in Agents : job[a].pc = "idle"
  BY <1>3 DEF Agents, IdleJob
<1>5. ASSUME NEW s \in Sessions PROVE Sound(s)
  <2>1. ~BeingRemoved(s)
    BY <1>4 DEF BeingRemoved
  <2>2. ~Holds("reader", s) /\ ~Pruning(s)
    BY <1>4 DEF Holds, Pruning
  <2>3. meta[s] = NoMeta /\ records[s] = {} /\ done[s] = 0 /\ answer = NoAnswer
    BY DEF CacheInit
  <2>4. Exact(s) /\ Newest(s)
    BY <2>3, FS_EmptySet DEF Exact, Newest, NoMeta
  <2>5. Whole(s)
    BY <2>3 DEF Whole, NoAnswer
  <2> QED BY <1>4, <2>1, <2>2, <2>4, <2>5 DEF Sound, Emptied, PrunedOf, Following, Unbroken
<1> QED BY <1>1, <1>2, <1>5 DEF CacheIInv, CacheTypeOK, CacheInit

-----------------------------------------------------------------------------
(* What a step does not touch of a session stays sound. *)
SameJobs(s) ==
  /\ BeingRemoved(s)' <=> BeingRemoved(s)
  /\ Pruning(s) \/ Pruning(s)' => job'["queue"] = job["queue"]

ReaderKept(s) ==
  LET i == job["reader"]
      j == job'["reader"]
  IN  \/ j.pc = "idle" \/ j.s # s \/ j = i
      \/ /\ i.pc # "idle" /\ j.s = i.s /\ j.before = i.before /\ j.least = i.least
         /\ j.pc \notin {"readBefore", "latest"}

Untouched(s) ==
  /\ records'[s] = records[s] /\ meta'[s] = meta[s] /\ (crossed[s] => crossed'[s])
  /\ done'[s] = done[s] \/ done'[s] <= meta[s].last
  /\ answer' = answer \/ answer'.s # s
  /\ SameJobs(s) /\ ReaderKept(s)

LEMMA UntouchedIsSound ==
  ASSUME NEW s \in Sessions, crossed[s] \/ Sound(s), Untouched(s)
  PROVE  crossed'[s] \/ Sound(s)'
<1> SUFFICES ASSUME Sound(s) PROVE Sound(s)'
  BY DEF Untouched
<1> USE DEF Untouched, Sound
<1>1. Emptied(s)'
  BY DEF Emptied, SameJobs
<1>2. PrunedOf(s)'
  BY DEF PrunedOf, SameJobs, ReaderKept, Holds, Pruning
<1>3. Exact(s)'
  BY DEF Exact, SameJobs, Pruning
<1>4. Newest(s)'
  BY DEF Newest
<1>5. Following(s)'
  BY DEF Following, ReaderKept, Holds
<1>6. Unbroken(s)'
  BY DEF Unbroken, ReaderKept, Asked
<1>7. Whole(s)'
  BY DEF Whole
<1> QED BY <1>1, <1>2, <1>3, <1>4, <1>5, <1>6, <1>7

(* Nobody removes a session because a job went on that was not removing. *)
LEMMA SameRemovals ==
  ASSUME Jobs, Jobs', NEW a \in {"queue", "reader"},
         job[a].pc # "evictMeta", job'[a].pc # "evictMeta",
         \A b \in Agents \ {a} :
           job'[b].pc = job[b].pc /\ job'[b].s = job[b].s /\ job'[b].victim = job[b].victim,
         NEW s
  PROVE  BeingRemoved(s)' <=> BeingRemoved(s)
<1>1. job[a].pc # "deleted" /\ job'[a].pc # "deleted" /\ a \in Agents
  <2>1. a \in Agents
    BY DEF Agents
  <2>2. job[a].pc \in PcsOf[a] /\ job'[a].pc \in PcsOf[a]
    BY <2>1 DEF Jobs
  <2>3. "deleted" \notin PcsOf[a]
    BY DEF PcsOf, QueuePcs, ReaderPcs, Writing, Removing
  <2> QED BY <2>1, <2>2, <2>3
<1> QED BY <1>1 DEF BeingRemoved

(* A step of the queue or of a reader that only changes its own place. *)
LEMMA LocalStep ==
  ASSUME CacheIInv, NEW a \in {"queue", "reader"},
         NEW j, JobOK(j, Then[a]), j.pc \in PcsOf[a], job' = [job EXCEPT ![a] = j],
         j.pc \notin {"evictMeta", "pruned", "readBefore", "latest"},
         job[a].pc \notin {"evictMeta", "pruned"},
         a = "reader" =>
           /\ PageOrWindow(j)
           /\ \/ j.pc = "idle"
              \/ job[a].pc # "idle" /\ j.s = job[a].s /\ j.before = job[a].before
                                    /\ j.least = job[a].least,
         UNCHANGED <<records, meta, crossed, answer>>,
         done' \in [Sessions -> Nat],
         \A s \in Sessions : done'[s] = done[s] \/ done'[s] <= meta[s].last,
         hot' \in [Sessions -> Hots],
         queue' \in Seq(Pages)
  PROVE  CacheIInv'
<1>1. a \in Agents /\ "queue" \in Agents /\ "reader" \in Agents
  BY DEF Agents
<1>2. Jobs' /\ job'[a] = j /\ \A b \in Agents \ {a} : job'[b] = job[b]
  BY <1>1, OneJob DEF CacheIInv, CacheTypeOK
<1>3. Store'
  BY DEF CacheIInv, CacheTypeOK, Store
<1>4. ASSUME NEW s \in Sessions PROVE Untouched(s)
  <2>1. BeingRemoved(s)' <=> BeingRemoved(s)
    BY <1>2, SameRemovals DEF CacheIInv, CacheTypeOK
  <2>2. Pruning(s) \/ Pruning(s)' => job'["queue"] = job["queue"]
    BY <1>1, <1>2 DEF Pruning
  <2>3. ReaderKept(s)
    BY <1>1, <1>2 DEF ReaderKept
  <2> QED BY <2>1, <2>2, <2>3 DEF Untouched, SameJobs
<1>5. \A s \in Sessions : crossed'[s] \/ Sound(s)'
  BY <1>4, UntouchedIsSound DEF CacheIInv
<1> QED BY <1>2, <1>3, <1>5 DEF CacheIInv, CacheTypeOK

-----------------------------------------------------------------------------
(* The steps that only change places. *)
LEMMA EnqueueStep ==
  ASSUME CacheIInv, NEW s \in Sessions, NEW w \in Writes, Enqueue(s, w) \/ WriteWindow(s, w)
  PROVE  CacheIInv'
<1>1. w.events \in Finite /\ w.hot \in BOOLEAN
  BY CacheAssumption DEF Finite
<1>2. LastSeq(w.events) \in Nat
  BY <1>1, SeqTypes
<1>3. hot' \in [Sessions -> Hots]
  <2>1. Store
    BY DEF CacheIInv, CacheTypeOK
  <2>2. CASE Enqueue(s, w)
    BY <2>1, <2>2 DEF Enqueue, Store
  <2>3. CASE WriteWindow(s, w)
    BY <1>1, <1>2, <2>1, <2>3, HotType DEF WriteWindow
  <2> QED BY <2>2, <2>3
<1>4. queue' \in Seq(Pages)
  <2>1. queue \in Seq(Pages)
    BY DEF CacheIInv, CacheTypeOK, Store
  <2>2. [s |-> s, events |-> w.events, hot |-> w.hot] \in Pages
    BY <1>1 DEF Pages
  <2>3. queue' = queue \/ queue' = Append(queue, [s |-> s, events |-> w.events, hot |-> w.hot])
    BY DEF Enqueue, WriteWindow
  <2>4. Append(queue, [s |-> s, events |-> w.events, hot |-> w.hot]) \in Seq(Pages)
    BY <2>1, <2>2
  <2> QED BY <2>1, <2>3, <2>4
<1>5. UNCHANGED <<records, meta, job, answer, done, crossed>>
  BY DEF Enqueue, WriteWindow
<1>6. \A u \in Sessions : Untouched(u)
  BY <1>5 DEF Untouched, SameJobs, ReaderKept, BeingRemoved
<1>7. \A u \in Sessions : crossed'[u] \/ Sound(u)'
  BY <1>6, UntouchedIsSound DEF CacheIInv
<1>8. Store' /\ Jobs'
  BY <1>3, <1>4, <1>5 DEF CacheIInv, CacheTypeOK, Store, Jobs
<1> QED BY <1>5, <1>7, <1>8 DEF CacheIInv, CacheTypeOK

LEMMA DequeueStep ==
  ASSUME CacheIInv, Dequeue
  PROVE  CacheIInv'
<1> DEFINE w == Head(queue)
           j == [IdleJob EXCEPT !.s = w.s, !.events = w.events, !.hot = w.hot, !.then = "prune",
                                !.pc = IF w.hot THEN "hot" ELSE "existing"]
<1>1. /\ queue \in Seq(Pages) /\ queue # <<>>
      /\ Store
  BY DEF CacheIInv, CacheTypeOK, Store, Dequeue
<1>2. w \in Pages /\ queue' \in Seq(Pages)
  <2>1. Head(queue) \in Pages /\ Tail(queue) \in Seq(Pages)
    BY <1>1
  <2> QED BY <2>1 DEF Dequeue
<1>3. JobShape(IdleJob) /\ "queue" \in Agents
  BY IdleIsOK DEF Agents
<1>4. /\ j.pc \in {"hot", "existing"} /\ j.s = w.s
      /\ JobShape(j)
  BY <1>2, <1>3 DEF JobShape, Pcs, QueuePcs, Writing, IdleJob, Pages
<1>5. job' = [job EXCEPT !["queue"] = j] /\ job["queue"].pc = "idle"
  BY DEF Dequeue
<1> HIDE DEF j
<1>6. JobOK(j, Then["queue"]) /\ j.pc \in PcsOf["queue"]
  BY <1>2, <1>4 DEF JobOK, Removing, PcsOf, QueuePcs, Writing, Pages
<1>7. UNCHANGED <<records, meta, hot, answer, done, crossed>>
  BY DEF Dequeue
<1> QED BY <1>1, <1>2, <1>4, <1>5, <1>6, <1>7, LocalStep DEF Store

LEMMA PutHotStep ==
  ASSUME CacheIInv, PutHot
  PROVE  CacheIInv'
<1>1. Store /\ Jobs /\ "queue" \in Agents
  BY DEF CacheIInv, CacheTypeOK, Agents
<1>2. JobOK(job["queue"], Then["queue"]) /\ job["queue"].pc = "hot"
  BY <1>1 DEF Jobs, PutHot
<1>3. job["queue"].s \in Sessions /\ job["queue"].events \in Finite /\ JobShape(job["queue"])
  BY <1>2, JobFields DEF JobOK
<1>4. hot' \in [Sessions -> Hots]
  BY <1>1, <1>3, HotType, SeqTypes DEF PutHot
<1>5. job' = [job EXCEPT !["queue"] = Moved(job["queue"], "existing")]
  BY DEF PutHot, Goto, Moved
<1>6. /\ Moved(job["queue"], "existing").pc = "existing" /\ JobShape(Moved(job["queue"], "existing"))
      /\ Moved(job["queue"], "existing").s = job["queue"].s
  BY <1>3, MovedIs DEF Pcs, QueuePcs, Writing
<1>7. /\ JobOK(Moved(job["queue"], "existing"), Then["queue"])
      /\ Moved(job["queue"], "existing").pc \in PcsOf["queue"]
  BY <1>3, <1>6 DEF JobOK, Removing, PcsOf, QueuePcs, Writing
<1>8. UNCHANGED <<records, meta, queue, answer, done, crossed>>
  BY DEF PutHot
<1> QED BY <1>1, <1>2, <1>4, <1>5, <1>6, <1>7, <1>8, LocalStep DEF Store

LEMMA AgentFacts ==
  ASSUME CacheIInv, NEW a \in {"queue", "reader"}
  PROVE  /\ a \in Agents /\ Store /\ Jobs
         /\ JobOK(job[a], Then[a]) /\ JobShape(job[a]) /\ job[a].pc \in PcsOf[a]
         /\ job[a].pc # "idle" => job[a].s \in Sessions
         /\ a = "reader" => PageOrWindow(job[a])
<1>1. a \in Agents /\ Store /\ Jobs
  BY DEF CacheIInv, CacheTypeOK, Agents
<1> QED BY <1>1 DEF Jobs, JobOK

(* The same for a write that goes on. *)
LEMMA WriteGoesOn ==
  ASSUME CacheIInv, NEW a \in {"queue", "reader"}, job[a].pc \in Writing \cup {"enforce"},
         job[a].pc # "evictMeta",
         NEW j, JobShape(j), j.s = job[a].s, j.before = job[a].before, j.least = job[a].least,
         j.pc \in PcsOf[a],
         j.pc \in (Writing \cup {"finish"}) \ {"evictMeta"} \/ (a = "queue" /\ j.pc = "hot"),
         j.pc = "evict" => j.then \in Then[a] /\ \A v \in j.left : v[1] # j.s,
         job' = [job EXCEPT ![a] = j],
         UNCHANGED <<records, meta, hot, queue, answer, done, crossed>>
  PROVE  CacheIInv'
<1>1. /\ a \in Agents /\ Store /\ Jobs /\ job[a].s \in Sessions
      /\ job[a].pc # "idle" /\ job[a].pc # "pruned"
      /\ a = "reader" => PageOrWindow(job[a]) /\ job[a].pc \in ReaderPcs
  BY AgentFacts DEF Writing, Removing, PcsOf
<1>2. JobOK(j, Then[a])
  BY <1>1 DEF JobOK, Removing, Writing
<1>3. a = "reader" => PageOrWindow(j)
  <2> SUFFICES ASSUME a = "reader" PROVE PageOrWindow(j)
    OBVIOUS
  <2>1. job[a].pc \in Writing
    BY <1>1 DEF ReaderPcs, Writing, Removing
  <2>2. job[a].before = 0
    BY <1>1, <2>1 DEF PageOrWindow
  <2>3. j.pc \notin {"readMeta", "readBefore"}
    BY DEF Writing, Removing
  <2> QED BY <2>2, <2>3 DEF PageOrWindow
<1>4. j.pc \notin {"evictMeta", "pruned", "readBefore", "latest"}
  BY DEF Writing, Removing
<1>5. /\ done' \in [Sessions -> Nat] /\ hot' \in [Sessions -> Hots] /\ queue' \in Seq(Pages)
      /\ \A s \in Sessions : done'[s] = done[s]
  BY <1>1 DEF Store
<1> QED BY <1>1, <1>2, <1>3, <1>4, <1>5, LocalStep

LEMMA ReadExistingStep ==
  ASSUME CacheIInv, NEW a \in {"queue", "reader"}, ReadExisting(a)
  PROVE  CacheIInv'
<1> DEFINE n == Cardinality(records[job[a].s] \cap job[a].events)
           j == [job[a] EXCEPT !.replaced = n, !.pc = "previous"]
<1>1. /\ a \in Agents /\ Store /\ JobShape(job[a]) /\ job[a].pc = "existing"
      /\ job[a].s \in Sessions
  BY AgentFacts DEF ReadExisting
<1>2. n \in Nat
  <2>1. records[job[a].s] \in Finite
    BY <1>1 DEF Store
  <2> QED BY <2>1, PartIsFinite
<1>3. /\ JobShape(j) /\ j.s = job[a].s /\ j.before = job[a].before /\ j.least = job[a].least
      /\ j.pc = "previous"
  BY <1>1, <1>2 DEF JobShape, Pcs, QueuePcs, Writing
<1>4. job' = [job EXCEPT ![a] = j]
  BY DEF ReadExisting
<1>5. UNCHANGED <<records, meta, hot, queue, answer, done, crossed>>
  BY DEF ReadExisting
<1> HIDE DEF j
<1>6. /\ j.pc \in PcsOf[a] /\ j.pc \in Writing /\ job[a].pc \in Writing
      /\ j.pc # "evictMeta" /\ j.pc # "evict"
  BY <1>1, <1>3 DEF PcsOf, QueuePcs, ReaderPcs, Writing
<1> QED BY <1>1, <1>3, <1>4, <1>5, <1>6, WriteGoesOn

LEMMA ReadPreviousStep ==
  ASSUME CacheIInv, NEW a \in {"queue", "reader"}, ReadPrevious(a)
  PROVE  CacheIInv'
<1> DEFINE j == [job[a] EXCEPT !.prev = meta[job[a].s], !.pc = "reserve"]
<1>1. /\ a \in Agents /\ Store /\ JobShape(job[a]) /\ job[a].pc = "previous"
      /\ job[a].s \in Sessions
  BY AgentFacts DEF ReadPrevious
<1>2. meta[job[a].s] \in Metas
  BY <1>1 DEF Store
<1>3. /\ JobShape(j) /\ j.s = job[a].s /\ j.before = job[a].before /\ j.least = job[a].least
      /\ j.pc = "reserve"
  BY <1>1, <1>2 DEF JobShape, Pcs, QueuePcs, Writing
<1>4. job' = [job EXCEPT ![a] = j]
  BY DEF ReadPrevious
<1>5. UNCHANGED <<records, meta, hot, queue, answer, done, crossed>>
  BY DEF ReadPrevious
<1> HIDE DEF j
<1>6. /\ j.pc \in PcsOf[a] /\ j.pc \in Writing /\ job[a].pc \in Writing
      /\ j.pc # "evictMeta" /\ j.pc # "evict"
  BY <1>1, <1>3 DEF PcsOf, QueuePcs, ReaderPcs, Writing
<1> QED BY <1>1, <1>3, <1>4, <1>5, <1>6, WriteGoesOn

(* After a survey a write goes on, or removes other sessions first. *)
LEMMA SurveyStep ==
  ASSUME CacheIInv, NEW a \in {"queue", "reader"}, NEW added,
         NEW p \in (Writing \cup {"finish"}) \ Removing, p \in Then[a], p \in PcsOf[a],
         job[a].pc \in {"reserve", "enforce"},
         Survey(a, added, p) \/ Goto(a, p),
         UNCHANGED <<records, meta, hot, queue, answer, done, crossed>>
  PROVE  CacheIInv'
<1>1. a \in Agents /\ Store /\ JobShape(job[a]) /\ job[a].s \in Sessions
  BY AgentFacts
<1>2. /\ Others(job[a].s) \in SUBSET (Sessions \X Nat)
      /\ \A v \in Others(job[a].s) : v[1] # job[a].s
  BY <1>1, OthersType
<1>3. p \in Pcs
  BY DEF Pcs, QueuePcs, Writing
<1>4. CASE Goto(a, p)
  <2>1. job' = [job EXCEPT ![a] = Moved(job[a], p)]
    BY <1>4 DEF Goto, Moved
  <2>2. /\ JobShape(Moved(job[a], p)) /\ Moved(job[a], p).pc = p
        /\ Moved(job[a], p).s = job[a].s /\ Moved(job[a], p).before = job[a].before
        /\ Moved(job[a], p).least = job[a].least
    BY <1>1, <1>3, MovedIs
  <2>3. p # "evict" /\ p # "evictMeta"
    BY DEF Removing
  <2> QED BY <2>1, <2>2, <2>3, WriteGoesOn DEF Writing
<1>5. CASE ~Goto(a, p)
  <2> DEFINE over == TotalBytes + added - GlobalBytes
             j == [job[a] EXCEPT !.over = over, !.left = Others(job[a].s), !.pc = "evict",
                                 !.then = p]
  <2>1. job' = [job EXCEPT ![a] = j]
    BY <1>5 DEF Survey
  <2>2. /\ JobShape(j) /\ j.s = job[a].s /\ j.before = job[a].before /\ j.least = job[a].least
        /\ j.pc = "evict" /\ j.left = Others(job[a].s) /\ j.then = p
    <3>1. "evict" \in Pcs
      BY DEF Pcs, QueuePcs, Writing, Removing
    <3>2. JobShape(job[a]) /\ p \in Pcs /\ Others(job[a].s) \in SUBSET (Sessions \X Nat)
      BY <1>1, <1>2, <1>3
    <3> HIDE DEF over
    <3> QED BY <3>1, <3>2 DEF JobShape
  <2> HIDE DEF j
  <2>3. "evict" \in PcsOf[a] /\ "evict" \in Writing
    BY DEF PcsOf, QueuePcs, ReaderPcs, Writing, Removing
  <2> QED BY <1>2, <2>1, <2>2, <2>3, WriteGoesOn DEF Writing
<1> QED BY <1>4, <1>5

LEMMA ReserveStep ==
  ASSUME CacheIInv, NEW a \in {"queue", "reader"}, Reserve(a) \/ (a = "queue" /\ Enforce)
  PROVE  CacheIInv'
<1>1. UNCHANGED <<records, meta, hot, queue, answer, done, crossed>>
  BY DEF Reserve, Enforce
<1>2. CASE Reserve(a)
  <2>1. PICK added : Survey(a, added, "put") \/ Goto(a, "put")
    BY <1>2 DEF Reserve
  <2>2. "put" \in (Writing \cup {"finish"}) \ Removing /\ "put" \in Then[a] /\ "put" \in PcsOf[a]
    BY DEF Writing, Removing, Then, PcsOf, QueuePcs, ReaderPcs
  <2>3. job[a].pc \in {"reserve", "enforce"}
    BY <1>2 DEF Reserve
  <2> QED BY <1>1, <2>1, <2>2, <2>3, SurveyStep
<1>3. CASE a = "queue" /\ Enforce
  <2>1. Survey(a, 0, "finish") /\ job[a].pc \in {"reserve", "enforce"}
    BY <1>3 DEF Enforce
  <2>2. /\ "finish" \in (Writing \cup {"finish"}) \ Removing
        /\ "finish" \in Then[a] /\ "finish" \in PcsOf[a]
    BY <1>3 DEF Writing, Removing, Then, PcsOf, QueuePcs
  <2> QED BY <1>1, <2>1, <2>2, SurveyStep
<1> QED BY <1>2, <1>3

(* A job that ends. *)
LEMMA EndsStep ==
  ASSUME CacheIInv, NEW a \in {"queue", "reader"}, job[a].pc \notin {"evictMeta", "pruned"},
         job' = [job EXCEPT ![a] = IdleJob],
         UNCHANGED <<records, meta, hot, queue, answer, crossed>>,
         done' \in [Sessions -> Nat],
         \A s \in Sessions : done'[s] = done[s] \/ done'[s] <= meta[s].last
  PROVE  CacheIInv'
<1>1. a \in Agents /\ Store
  BY AgentFacts
<1>2. /\ JobOK(IdleJob, Then[a]) /\ IdleJob.pc = "idle" /\ "idle" \in PcsOf[a]
      /\ PageOrWindow(IdleJob)
  BY <1>1, IdleIsOK
<1>3. hot' \in [Sessions -> Hots] /\ queue' \in Seq(Pages)
  BY <1>1 DEF Store
<1> QED BY <1>1, <1>2, <1>3, LocalStep

LEMMA PutFailsStep ==
  ASSUME CacheIInv, NEW a \in {"queue", "reader"}, PutFails(a)
  PROVE  CacheIInv'
<1> DEFINE s == job[a].s
           again == IF job[a].hot THEN "hot" ELSE "existing"
           p == IF Others(s) = {} THEN again ELSE "evict"
           j == [job[a] EXCEPT !.attempt = 2, !.over = GlobalBytes, !.left = Others(s),
                               !.then = again, !.pc = p]
<1>1. /\ a \in Agents /\ Store /\ JobShape(job[a]) /\ job[a].pc = "put" /\ s \in Sessions
      /\ UNCHANGED <<records, meta, hot, queue, answer, done, crossed>>
  BY AgentFacts DEF PutFails
<1>2. /\ Others(s) \in SUBSET (Sessions \X Nat) /\ \A v \in Others(s) : v[1] # s
  BY <1>1, OthersType
<1>3. again \in {"hot", "existing"}
  OBVIOUS
<1>4. CASE a = "queue" /\ job' = [job EXCEPT ![a] = j]
  <2>1. p \in {"hot", "existing", "evict"}
    BY <1>3
  <2> HIDE DEF again, p
  <2>2. /\ JobShape(j) /\ j.s = job[a].s /\ j.before = job[a].before /\ j.least = job[a].least
        /\ j.pc = p /\ j.left = Others(s) /\ j.then = again
    <3>1. p \in Pcs /\ again \in Pcs
      BY <1>3, <2>1 DEF Pcs, QueuePcs, Writing, Removing
    <3>2. JobShape(job[a]) /\ Others(s) \in SUBSET (Sessions \X Nat)
      BY <1>1, <1>2
    <3> QED BY <3>1, <3>2 DEF JobShape
  <2> HIDE DEF j
  <2>3. p \in PcsOf[a] /\ again \in Then[a]
    BY <1>3, <1>4, <2>1 DEF PcsOf, QueuePcs, Writing, Removing, Then
  <2>4. "existing" \in Writing /\ "evict" \in Writing /\ "put" \in Writing
    BY DEF Writing, Removing
  <2> QED BY <1>1, <1>2, <1>4, <2>1, <2>2, <2>3, <2>4, WriteGoesOn
<1>5. CASE job' = [job EXCEPT ![a] = IdleJob]
  <2>1. done' \in [Sessions -> Nat] /\ \A u \in Sessions : done'[u] = done[u]
    BY <1>1 DEF Store
  <2> QED BY <1>1, <1>5, <2>1, EndsStep
<1> QED BY <1>4, <1>5 DEF PutFails

LEMMA FinishStep ==
  ASSUME CacheIInv, Finish
  PROVE  CacheIInv'
<1> DEFINE s == job["queue"].s
<1>1. /\ Store /\ s \in Sessions /\ job["queue"].pc = "finish"
      /\ job' = [job EXCEPT !["queue"] = IdleJob]
      /\ UNCHANGED <<records, meta, hot, queue, answer, crossed>>
      /\ done' = [done EXCEPT ![s] = Max2(done[s], meta[s].last)]
  BY AgentFacts DEF Finish
<1>2. done[s] \in Nat /\ meta[s].last \in Nat
  BY <1>1 DEF Store, Metas
<1>3. /\ Max2(done[s], meta[s].last) \in Nat
      /\ Max2(done[s], meta[s].last) = done[s] \/ Max2(done[s], meta[s].last) <= meta[s].last
  BY <1>2 DEF Max2
<1> HIDE DEF s
<1>4. /\ done' \in [Sessions -> Nat]
      /\ \A u \in Sessions : done'[u] = done[u] \/ done'[u] <= meta[u].last
  BY <1>1, <1>3 DEF Store
<1> QED BY <1>1, <1>4, EndsStep

-----------------------------------------------------------------------------
(* Removals. *)

(* Of a session on which nobody is at work. *)
LEMMA RestIsSound ==
  ASSUME NEW v, ~Holds("queue", v)', ~Holds("reader", v)',
         Emptied(v)', Exact(v)', Newest(v)', Whole(v), answer' = answer
  PROVE  Sound(v)'
<1>1. PrunedOf(v)'
  BY DEF PrunedOf, Pruning, Holds
<1>2. Following(v)' /\ Unbroken(v)'
  BY DEF Following, Unbroken, Holds
<1>3. Whole(v)'
  BY DEF Whole
<1> QED BY <1>1, <1>2, <1>3 DEF Sound

LEMMA EvictRecordsStep ==
  ASSUME CacheIInv, NEW a \in {"queue", "reader"}, EvictRecords(a)
  PROVE  CacheIInv'
<1>1. /\ a \in Agents /\ Store /\ Jobs /\ JobOK(job[a], Then[a]) /\ JobShape(job[a])
      /\ job[a].pc = "evict" /\ job[a].s \in Sessions
      /\ a = "reader" => PageOrWindow(job[a])
      /\ UNCHANGED <<meta, hot, queue, answer, done>>
  BY AgentFacts DEF EvictRecords
<1>2. PICK v \in job[a].left :
        /\ records' = [records EXCEPT ![v[1]] = {}]
        /\ crossed' = [crossed EXCEPT ![v[1]] = @ \/ \E b \in Agents \ {a} : Holds(b, v[1])]
        /\ job' = [job EXCEPT ![a].pc = "evictMeta", ![a].victim = v[1],
                              ![a].over = @ - v[2], ![a].left = @ \ {v}]
  BY DEF EvictRecords
<1> DEFINE j == [job[a] EXCEPT !.pc = "evictMeta", !.victim = v[1], !.over = @ - v[2],
                               !.left = @ \ {v}]
           s == v[1]
<1>3. s \in Sessions /\ s # job[a].s
  <2>1. job[a].left \in SUBSET (Sessions \X Nat)
    BY <1>1, JobFields
  <2>2. v[1] # job[a].s
    BY <1>1 DEF JobOK, Removing
  <2> QED BY <2>1, <2>2
<1>4. /\ JobShape(j) /\ j.pc = "evictMeta" /\ j.victim = s /\ j.left \subseteq job[a].left
      /\ j.s = job[a].s /\ j.before = job[a].before /\ j.least = job[a].least
      /\ j.then = job[a].then
  <2> DEFINE o == job[a].over - v[2]
             l == job[a].left \ {v}
  <2>1. j = [job[a] EXCEPT !.pc = "evictMeta", !.victim = s, !.over = o, !.left = l]
    OBVIOUS
  <2>2. l \in SUBSET (Sessions \X Nat)
    BY <1>1, JobFields
  <2> HIDE DEF o, s
  <2> QED BY <1>1, <1>3, <2>1, <2>2 DEF JobShape, Pcs, QueuePcs, Writing, Removing
<1>5. job' = [job EXCEPT ![a] = j]
  BY <1>2
<1> HIDE DEF j, s
<1>6. JobOK(j, Then[a]) /\ j.pc \in PcsOf[a]
  BY <1>1, <1>3, <1>4 DEF JobOK, Removing, PcsOf, QueuePcs, ReaderPcs, Writing
<1>7. a = "reader" => PageOrWindow(j)
  BY <1>1, <1>4 DEF PageOrWindow, Writing, Removing
<1>8. Jobs' /\ job'[a] = j /\ \A b \in Agents \ {a} : job'[b] = job[b]
  BY <1>1, <1>5, <1>6, <1>7, OneJob
<1>9. /\ records'[s] = {} /\ \A u \in Sessions \ {s} : records'[u] = records[u] /\ crossed'[u] = crossed[u]
      /\ records' \in [Sessions -> Finite] /\ crossed' \in [Sessions -> BOOLEAN]
      /\ crossed'[s] = (crossed[s] \/ \E b \in Agents \ {a} : Holds(b, s))
  BY <1>1, <1>2, <1>3, NoMetaType DEF Store, s
<1>10. Store'
  BY <1>1, <1>9 DEF Store
<1>11. ASSUME NEW u \in Sessions, u # s PROVE Untouched(u)
  <2>1. BeingRemoved(u)' <=> BeingRemoved(u)
    BY <1>1, <1>4, <1>8, <1>11 DEF BeingRemoved
  <2>2. Pruning(u) \/ Pruning(u)' => job'["queue"] = job["queue"]
    BY <1>1, <1>4, <1>8 DEF Pruning, Agents
  <2>3. ReaderKept(u)
    BY <1>1, <1>4, <1>8 DEF ReaderKept, Agents
  <2> QED BY <1>1, <1>9, <1>11, <2>1, <2>2, <2>3 DEF Untouched, SameJobs
<1>12. ASSUME ~crossed'[s] PROVE Sound(s)'
  <2>1. ~crossed[s] /\ Sound(s) /\ \A b \in Agents \ {a} : ~Holds(b, s)
    BY <1>3, <1>9, <1>12 DEF CacheIInv
  <2>2. ~Holds("queue", s)' /\ ~Holds("reader", s)'
    BY <1>3, <1>4, <1>8, <2>1 DEF Holds, Agents
  <2>3. BeingRemoved(s)'
    BY <1>1, <1>4, <1>8 DEF BeingRemoved
  <2>4. Emptied(s)' /\ Exact(s)' /\ Newest(s)' /\ Whole(s)
    BY <1>1, <1>9, <2>1, <2>3 DEF Emptied, Exact, Newest, Sound
  <2> QED BY <1>1, <2>2, <2>4, RestIsSound
<1>13. \A u \in Sessions : crossed'[u] \/ Sound(u)'
  BY <1>11, <1>12, UntouchedIsSound DEF CacheIInv
<1> QED BY <1>1, <1>8, <1>10, <1>13 DEF CacheIInv, CacheTypeOK

LEMMA EvictMetaStep ==
  ASSUME CacheIInv, NEW a \in {"queue", "reader"}, EvictMeta(a)
  PROVE  CacheIInv'
<1>0. PICK s : s = job[a].victim
  OBVIOUS
<1> DEFINE p == IF job[a].over <= 0 \/ job[a].left = {} THEN job[a].then ELSE "evict"
           j == Moved(job[a], p)
<1>1. /\ a \in Agents /\ Store /\ Jobs /\ JobOK(job[a], Then[a]) /\ JobShape(job[a])
      /\ job[a].pc = "evictMeta" /\ job[a].s \in Sessions
      /\ a = "reader" => PageOrWindow(job[a])
      /\ UNCHANGED <<records, hot, queue, answer>>
      /\ meta' = [meta EXCEPT ![s] = NoMeta] /\ done' = [done EXCEPT ![s] = 0]
      /\ crossed' = [crossed EXCEPT ![s] = @ \/ records[s] # {} \/ \E b \in Agents \ {a} : Holds(b, s)]
  BY <1>0, AgentFacts DEF EvictMeta
<1>2. job' = [job EXCEPT ![a] = j]
  BY DEF EvictMeta, Goto, Moved
<1>3. /\ s \in Sessions /\ s # job[a].s
      /\ job[a].then \in Then[a] /\ \A v \in job[a].left : v[1] # job[a].s
  BY <1>0, <1>1 DEF JobOK, Removing
<1>4. /\ p \in PcsOf[a] /\ p \in Then[a] \cup {"evict"} /\ p # "evictMeta" /\ p # "pruned"
      /\ p \in Pcs /\ p # "idle" /\ (a = "reader" => p \in {"put", "evict"})
  <2>1. a = "queue" \/ a = "reader"
    OBVIOUS
  <2> QED BY <1>3, <2>1 DEF Then, PcsOf, QueuePcs, ReaderPcs, Writing, Removing, Pcs
<1> HIDE DEF p
<1>5. /\ JobShape(j) /\ j.pc = p /\ j.s = job[a].s /\ j.before = job[a].before
      /\ j.least = job[a].least /\ j.left = job[a].left /\ j.then = job[a].then
  BY <1>1, <1>4, MovedIs
<1> HIDE DEF j
<1>6. JobOK(j, Then[a]) /\ j.pc \in PcsOf[a]
  BY <1>1, <1>3, <1>4, <1>5 DEF JobOK
<1>7. a = "reader" => PageOrWindow(j)
  BY <1>1, <1>4, <1>5 DEF PageOrWindow, Writing, Removing
<1>8. Jobs' /\ job'[a] = j /\ \A b \in Agents \ {a} : job'[b] = job[b]
  BY <1>1, <1>2, <1>6, <1>7, OneJob
<1>9. /\ meta'[s] = NoMeta /\ done'[s] = 0
      /\ \A u \in Sessions \ {s} : meta'[u] = meta[u] /\ crossed'[u] = crossed[u] /\ done'[u] = done[u]
      /\ crossed'[s] = (crossed[s] \/ records[s] # {} \/ \E b \in Agents \ {a} : Holds(b, s))
  BY <1>1, <1>3 DEF Store
<1>10. Store'
  BY <1>1, <1>3, NoMetaType DEF Store
<1>11. ASSUME NEW u \in Sessions, u # s PROVE Untouched(u)
  <2>1. BeingRemoved(u)' <=> BeingRemoved(u)
    <3>1. /\ ~(job[a].pc = "evictMeta" /\ job[a].victim = u) /\ ~(job[a].pc = "deleted")
          /\ job'[a].pc # "evictMeta"
      BY <1>0, <1>1, <1>4, <1>5, <1>8, <1>11
    <3>2. job'[a].pc # "deleted"
      BY <1>5, <1>6, <1>8 DEF PcsOf, QueuePcs, ReaderPcs, Writing, Removing
    <3> QED BY <1>8, <3>1, <3>2 DEF BeingRemoved
  <2>2. Pruning(u) \/ Pruning(u)' => job'["queue"] = job["queue"]
    BY <1>1, <1>4, <1>5, <1>8 DEF Pruning, Agents
  <2>3. ReaderKept(u)
    BY <1>1, <1>4, <1>5, <1>8 DEF ReaderKept, Agents
  <2> QED BY <1>1, <1>9, <1>11, <2>1, <2>2, <2>3 DEF Untouched, SameJobs
<1>12. ASSUME ~crossed'[s] PROVE Sound(s)'
  <2>1. ~crossed[s] /\ Sound(s) /\ records[s] = {} /\ \A b \in Agents \ {a} : ~Holds(b, s)
    BY <1>3, <1>9, <1>12 DEF CacheIInv
  <2>2. ~Holds("queue", s)' /\ ~Holds("reader", s)'
    BY <1>3, <1>5, <1>8, <2>1 DEF Holds, Agents
  <2>3. records'[s] = {} /\ meta'[s].bytes = 0 /\ meta'[s].cov = {} /\ meta'[s].last = 0
    BY <1>1, <1>9, <2>1 DEF NoMeta
  <2>4. Emptied(s)' /\ Exact(s)' /\ Newest(s)' /\ Whole(s)
    BY <1>9, <2>1, <2>3, FS_EmptySet DEF Emptied, Exact, Newest, Sound
  <2> QED BY <1>1, <2>2, <2>4, RestIsSound
<1>13. \A u \in Sessions : crossed'[u] \/ Sound(u)'
  BY <1>11, <1>12, UntouchedIsSound DEF CacheIInv
<1> QED BY <1>1, <1>8, <1>10, <1>13 DEF CacheIInv, CacheTypeOK

LEMMA DeleteRecordsStep ==
  ASSUME CacheIInv, NEW s \in Sessions, DeleteRecords(s)
  PROVE  CacheIInv'
<1> DEFINE d == "deletion"
           j == [job[d] EXCEPT !.pc = "deleted", !.s = s]
<1>1. /\ d \in Agents /\ Store /\ Jobs /\ JobShape(job[d]) /\ job[d].pc = "idle"
      /\ UNCHANGED <<meta, hot, queue, answer, done>>
      /\ records' = [records EXCEPT ![s] = {}] /\ job' = [job EXCEPT ![d] = j]
      /\ crossed' = [crossed EXCEPT ![s] = @ \/ \E a \in {"queue", "reader"} : Holds(a, s)]
  BY DEF DeleteRecords, CacheIInv, CacheTypeOK, Jobs, JobOK, Agents
<1>2. JobShape(j) /\ j.pc = "deleted" /\ j.s = s
  BY <1>1 DEF JobShape, Pcs, DeletionPcs
<1> HIDE DEF j
<1>3. JobOK(j, Then[d]) /\ j.pc \in PcsOf[d]
  BY <1>2 DEF JobOK, Removing, PcsOf, DeletionPcs
<1>4. Jobs' /\ job'[d] = j /\ \A b \in Agents \ {d} : job'[b] = job[b]
  BY <1>1, <1>3, OneJob
<1>5. job'["queue"] = job["queue"] /\ job'["reader"] = job["reader"]
  BY <1>4 DEF Agents
<1>6. /\ records'[s] = {}
      /\ \A u \in Sessions \ {s} : records'[u] = records[u] /\ crossed'[u] = crossed[u]
      /\ crossed'[s] = (crossed[s] \/ \E a \in {"queue", "reader"} : Holds(a, s))
  BY <1>1 DEF Store
<1>7. Store'
  BY <1>1, NoMetaType DEF Store
<1>8. ASSUME NEW u \in Sessions, u # s PROVE Untouched(u)
  <2>1. BeingRemoved(u)' <=> BeingRemoved(u)
    BY <1>1, <1>2, <1>4, <1>8 DEF BeingRemoved
  <2> QED BY <1>1, <1>5, <1>6, <1>8, <2>1 DEF Untouched, SameJobs, ReaderKept
<1>9. ASSUME ~crossed'[s] PROVE Sound(s)'
  <2>1. ~crossed[s] /\ Sound(s) /\ \A a \in {"queue", "reader"} : ~Holds(a, s)
    BY <1>6, <1>9 DEF CacheIInv
  <2>2. ~Holds("queue", s)' /\ ~Holds("reader", s)'
    BY <1>5, <2>1 DEF Holds
  <2>3. BeingRemoved(s)'
    BY <1>1, <1>2, <1>4 DEF BeingRemoved
  <2>4. Emptied(s)' /\ Exact(s)' /\ Newest(s)' /\ Whole(s)
    BY <1>1, <1>6, <2>1, <2>3 DEF Emptied, Exact, Newest, Sound
  <2> QED BY <1>1, <2>2, <2>4, RestIsSound
<1>10. \A u \in Sessions : crossed'[u] \/ Sound(u)'
  BY <1>8, <1>9, UntouchedIsSound DEF CacheIInv
<1> QED BY <1>1, <1>4, <1>7, <1>10 DEF CacheIInv, CacheTypeOK

LEMMA DeleteEntriesStep ==
  ASSUME CacheIInv, DeleteEntries
  PROVE  CacheIInv'
<1> DEFINE d == "deletion"
<1>0. PICK s : s = job[d].s
  OBVIOUS
<1>1. /\ d \in Agents /\ Store /\ Jobs /\ job[d].pc = "deleted" /\ s \in Sessions
      /\ UNCHANGED <<records, queue, answer>>
      /\ meta' = [meta EXCEPT ![s] = NoMeta] /\ done' = [done EXCEPT ![s] = 0]
      /\ hot' = [hot EXCEPT ![s] = NoHot] /\ job' = [job EXCEPT ![d] = IdleJob]
      /\ crossed' = [crossed EXCEPT ![s] = @ \/ records[s] # {}
                                             \/ \E a \in {"queue", "reader"} : Holds(a, s)]
  BY <1>0 DEF DeleteEntries, CacheIInv, CacheTypeOK, Jobs, JobOK, Agents
<1>2. Jobs' /\ job'[d] = IdleJob /\ \A b \in Agents \ {d} : job'[b] = job[b]
  BY <1>1, IdleIsOK, OneJob
<1>3. /\ job'["queue"] = job["queue"] /\ job'["reader"] = job["reader"]
      /\ job'[d].pc = "idle"
  BY <1>2 DEF Agents, IdleJob
<1>4. /\ meta'[s] = NoMeta /\ done'[s] = 0
      /\ \A u \in Sessions \ {s} : meta'[u] = meta[u] /\ crossed'[u] = crossed[u] /\ done'[u] = done[u]
      /\ crossed'[s] = (crossed[s] \/ records[s] # {} \/ \E a \in {"queue", "reader"} : Holds(a, s))
  BY <1>1 DEF Store
<1>5. Store'
  BY <1>1, NoMetaType DEF Store
<1>6. ASSUME NEW u \in Sessions, u # s PROVE Untouched(u)
  <2>1. BeingRemoved(u)' <=> BeingRemoved(u)
    BY <1>0, <1>1, <1>2, <1>3, <1>6 DEF BeingRemoved
  <2> QED BY <1>1, <1>3, <1>4, <1>6, <2>1 DEF Untouched, SameJobs, ReaderKept
<1>7. ASSUME ~crossed'[s] PROVE Sound(s)'
  <2>1. ~crossed[s] /\ Sound(s) /\ records[s] = {} /\ \A a \in {"queue", "reader"} : ~Holds(a, s)
    BY <1>1, <1>4, <1>7 DEF CacheIInv
  <2>2. ~Holds("queue", s)' /\ ~Holds("reader", s)'
    BY <1>3, <2>1 DEF Holds
  <2>3. records'[s] = {} /\ meta'[s].bytes = 0 /\ meta'[s].cov = {} /\ meta'[s].last = 0
    BY <1>1, <1>4, <2>1 DEF NoMeta
  <2>4. Emptied(s)' /\ Exact(s)' /\ Newest(s)' /\ Whole(s)
    BY <1>4, <2>1, <2>3, FS_EmptySet DEF Emptied, Exact, Newest, Sound
  <2> QED BY <1>1, <2>2, <2>4, RestIsSound
<1>8. \A u \in Sessions : crossed'[u] \/ Sound(u)'
  BY <1>6, <1>7, UntouchedIsSound DEF CacheIInv
<1> QED BY <1>1, <1>2, <1>5, <1>8 DEF CacheIInv, CacheTypeOK

-----------------------------------------------------------------------------
(* A page is written. *)
Torn(j, b) == [j EXCEPT !.torn = @ \/ b]

LEMMA TornIs ==
  ASSUME NEW j, JobShape(j), NEW b \in BOOLEAN
  PROVE  /\ JobShape(Torn(j, b)) /\ (~b => Torn(j, b) = j)
         /\ Torn(j, b).torn = (j.torn \/ b)
         /\ Torn(j, b).pc = j.pc /\ Torn(j, b).s = j.s /\ Torn(j, b).prev = j.prev
         /\ Torn(j, b).before = j.before /\ Torn(j, b).least = j.least
         /\ Torn(j, b).victim = j.victim /\ Torn(j, b).left = j.left /\ Torn(j, b).then = j.then
BY DEF JobShape, Torn

LEMMA TearsType ==
  ASSUME NEW s
  PROVE  /\ Tears(s) \in BOOLEAN
         /\ Tears(s) => job["reader"].pc = "readBefore" /\ job["reader"].s = s
BY DEF Tears

(* The queue goes on to prune; a reader that holds the coverage may be torn. *)
LEMMA QueuePutsJobs ==
  ASSUME CacheIInv, PutPage("queue"), NEW s, s = job["queue"].s
  PROVE  /\ Jobs' /\ job'["queue"].pc = "prune" /\ job'["deletion"] = job["deletion"]
         /\ job'["queue"].s = s /\ job'["queue"].victim = job["queue"].victim
         /\ job'["reader"] = Torn(job["reader"], Tears(s))
<1> DEFINE q == Moved(job["queue"], "prune")
           r == Torn(job["reader"], Tears(s))
<1>1. /\ Jobs /\ JobOK(job["queue"], Then["queue"]) /\ JobShape(job["queue"])
      /\ JobOK(job["reader"], Then["reader"]) /\ JobShape(job["reader"])
      /\ job["reader"].pc \in PcsOf["reader"] /\ PageOrWindow(job["reader"])
      /\ job["queue"].pc = "put" /\ s \in Sessions
  BY AgentFacts DEF PutPage
<1>2. job' = [job EXCEPT !["queue"] = q, !["reader"] = r]
  BY DEF PutPage, Moved, Torn
<1>3. /\ JobShape(q) /\ q.pc = "prune" /\ q.s = s /\ q.victim = job["queue"].victim
  BY <1>1, MovedIs DEF Pcs, QueuePcs
<1>4. /\ JobShape(r) /\ r.pc = job["reader"].pc /\ r.s = job["reader"].s
      /\ r.prev = job["reader"].prev /\ r.before = job["reader"].before
      /\ r.left = job["reader"].left /\ r.then = job["reader"].then
      /\ r.victim = job["reader"].victim
  BY <1>1, TornIs, TearsType
<1> HIDE DEF q, r
<1>5. JobOK(q, Then["queue"]) /\ q.pc \in PcsOf["queue"]
  BY <1>1, <1>3 DEF JobOK, Removing, PcsOf, QueuePcs
<1>6. JobOK(r, Then["reader"]) /\ r.pc \in PcsOf["reader"] /\ PageOrWindow(r)
  BY <1>1, <1>4 DEF JobOK, PageOrWindow
<1>7. /\ job'["queue"] = q /\ job'["reader"] = r /\ job'["deletion"] = job["deletion"]
      /\ job' = [a \in Agents |-> job'[a]]
  BY <1>1, <1>2 DEF Jobs, Agents
<1>8. Jobs'
  BY <1>1, <1>5, <1>6, <1>7 DEF Jobs, Agents
<1> QED BY <1>3, <1>7, <1>8 DEF r

(* A migration goes on to read what it wrote. *)
LEMMA ReaderPutsJobs ==
  ASSUME CacheIInv, PutPage("reader"), NEW s, s = job["reader"].s
  PROVE  /\ Jobs' /\ job'["reader"].pc = "migrated" /\ job'["deletion"] = job["deletion"]
         /\ job'["queue"] = job["queue"] /\ job'["reader"].victim = job["reader"].victim
         /\ job'["reader"].s = s /\ job'["reader"].before = 0
         /\ job'["reader"].least = job["reader"].least
<1> DEFINE i == Moved(job["reader"], "migrated")
           r == Torn(i, Tears(s))
<1>1. /\ Jobs /\ JobOK(job["reader"], Then["reader"]) /\ JobShape(job["reader"])
      /\ PageOrWindow(job["reader"]) /\ job["reader"].pc = "put" /\ s \in Sessions
      /\ "reader" \in Agents
  BY AgentFacts DEF PutPage
<1>2. job' = [job EXCEPT !["reader"] = r]
  BY <1>1 DEF PutPage, Moved, Torn, Jobs
<1>3. JobShape(i) /\ i.pc = "migrated" /\ i.s = s /\ i.before = job["reader"].before
      /\ i.least = job["reader"].least /\ i.victim = job["reader"].victim
  BY <1>1, MovedIs DEF Pcs, ReaderPcs
<1> HIDE DEF i
<1>4. JobShape(r) /\ r.pc = "migrated" /\ r.s = s /\ r.before = job["reader"].before
      /\ r.least = job["reader"].least /\ r.victim = job["reader"].victim
  BY <1>3, TornIs, TearsType
<1> HIDE DEF r
<1>5. job["reader"].before = 0
  BY <1>1 DEF PageOrWindow, Writing
<1>6. JobOK(r, Then["reader"]) /\ r.pc \in PcsOf["reader"] /\ PageOrWindow(r)
  BY <1>1, <1>4, <1>5 DEF JobOK, Removing, PcsOf, ReaderPcs, PageOrWindow
<1>7. Jobs' /\ job'["reader"] = r /\ \A b \in Agents \ {"reader"} : job'[b] = job[b]
  BY <1>1, <1>2, <1>6, OneJob
<1> QED BY <1>4, <1>5, <1>7 DEF Agents

(* The entry that is put counts what is stored then, if the entry it was computed
   from is still there and what it replaces is what was counted. *)
LEMMA CountsThePage ==
  ASSUME NEW R \in Finite, NEW E \in Finite, NEW m \in Metas, NEW n \in Nat,
         n = Cardinality(R \cap E)
  PROVE  /\ m.bytes = Cardinality(R) => NextMeta(m, n, E).bytes = Cardinality(R \cup E)
         /\ NextMeta(m, n, E).bytes >= m.bytes
         /\ NextMeta(m, n, E).bytes = m.bytes => E \subseteq R
<1>1. /\ IsFiniteSet(R) /\ IsFiniteSet(E) /\ Cardinality(R) \in Nat /\ Cardinality(E) \in Nat
      /\ Cardinality(R \cup E) = Cardinality(R) + Cardinality(E) - n
  BY FS_Union, FS_CardinalityType DEF Finite
<1>2. n <= Cardinality(E) /\ (n = Cardinality(E) => E \subseteq R)
  <2>1. R \cap E \in SUBSET E
    OBVIOUS
  <2>2. n <= Cardinality(E) /\ (Cardinality(E) = n => E = R \cap E)
    BY <1>1, <2>1, FS_Subset
  <2> QED BY <2>2
<1>3. n <= Cardinality(R)
  BY <1>1, FS_Subset
<1>4. m.bytes \in Nat
  BY DEF Metas
<1>5. NextMeta(m, n, E).bytes = Max2(0, m.bytes - n + Cardinality(E))
  BY NextMetaType
<1>6. NextMeta(m, n, E).bytes = m.bytes - n + Cardinality(E)
  BY <1>1, <1>2, <1>4, <1>5 DEF Max2
<1> QED BY <1>1, <1>2, <1>3, <1>4, <1>6

LEMMA PutPageStep ==
  ASSUME CacheIInv, NEW a \in {"queue", "reader"}, PutPage(a)
  PROVE  CacheIInv'
<1>0. PICK s, E, m, n : s = job[a].s /\ E = job[a].events /\ m = job[a].prev /\ n = job[a].replaced
  OBVIOUS
<1>1. /\ a \in Agents /\ Store /\ Jobs /\ JobShape(job[a]) /\ job[a].pc = "put" /\ s \in Sessions
      /\ JobShape(job["reader"])
      /\ UNCHANGED <<hot, queue, answer, done>>
      /\ records' = [records EXCEPT ![s] = @ \cup E]
      /\ meta' = [meta EXCEPT ![s] = NextMeta(m, n, E)]
      /\ crossed' = [crossed EXCEPT ![s] = @ \/ meta[s] # m \/ BeingRemoved(s)
                                             \/ Cardinality(records[s] \cap E) # n]
  BY <1>0, AgentFacts DEF PutPage
<1>2. E \in Finite /\ m \in Metas /\ n \in Nat
  BY <1>0, <1>1, JobFields
<1>3. PICK R, k : R = records[s] /\ k = NextMeta(m, n, E)
  OBVIOUS
<1>4. /\ R \in Finite /\ R \cup E \in Finite
      /\ k \in Metas /\ k.present /\ k.last >= m.last /\ k.cov = m.cov \cup E
  <2>1. R \in Finite
    BY <1>1, <1>3 DEF Store
  <2>2. R \cup E \in Finite
    BY <1>2, <2>1, FS_Union DEF Finite
  <2>3. /\ NextMeta(m, n, E) \in Metas /\ NextMeta(m, n, E).present
        /\ NextMeta(m, n, E).last >= m.last /\ NextMeta(m, n, E).cov = m.cov \cup E
    BY <1>2, NextMetaType
  <2> QED BY <1>3, <2>1, <2>2, <2>3
<1>5. /\ records'[s] = R \cup E /\ meta'[s] = k
      /\ \A u \in Sessions \ {s} : records'[u] = records[u] /\ meta'[u] = meta[u] /\ crossed'[u] = crossed[u]
      /\ crossed'[s] = (crossed[s] \/ meta[s] # m \/ BeingRemoved(s) \/ Cardinality(R \cap E) # n)
  BY <1>1, <1>3 DEF Store
<1>6. Store'
  <2>1. records' \in [Sessions -> Finite] /\ meta' \in [Sessions -> Metas]
    BY <1>1, <1>3, <1>4 DEF Store
  <2>2. crossed' \in [Sessions -> BOOLEAN]
    BY <1>1 DEF Store
  <2> QED BY <1>1, <2>1, <2>2 DEF Store
<1>q. CASE a = "queue"
  <2>1. /\ Jobs' /\ job'["queue"].pc = "prune" /\ job'["deletion"] = job["deletion"]
        /\ job'["queue"].s = s /\ job'["queue"].victim = job["queue"].victim
        /\ job'["reader"] = Torn(job["reader"], Tears(s))
    BY <1>q, <1>0, QueuePutsJobs
  <2>2. PICK i, j : i = job["reader"] /\ j = job'["reader"]
    OBVIOUS
  <2>3. /\ ~Tears(s) => j = i
        /\ j.torn = (i.torn \/ Tears(s)) /\ j.pc = i.pc /\ j.s = i.s /\ j.prev = i.prev
        /\ j.before = i.before /\ j.least = i.least /\ j.victim = i.victim
    BY <1>1, <2>1, <2>2, TornIs, TearsType
  <2>4. \A u : BeingRemoved(u)' <=> BeingRemoved(u)
    <3>1. \A b \in Agents \ {a} :
             job'[b].pc = job[b].pc /\ job'[b].s = job[b].s /\ job'[b].victim = job[b].victim
      BY <1>q, <2>1, <2>2, <2>3 DEF Agents
    <3>2. job'[a].pc # "evictMeta" /\ job[a].pc # "evictMeta"
      BY <1>q, <1>1, <2>1
    <3> QED BY <1>1, <2>1, <3>1, <3>2, SameRemovals
  <2>5. ASSUME NEW u \in Sessions, u # s PROVE Untouched(u)
    <3>1. Pruning(u) \/ Pruning(u)' => job'["queue"] = job["queue"]
      BY <1>q, <1>1, <2>1 DEF Pruning
    <3>2. ReaderKept(u)
      <4>1. CASE Tears(s)
        BY <2>2, <2>3, <2>5, <4>1, TearsType DEF ReaderKept
      <4>2. CASE ~Tears(s)
        BY <2>2, <2>3, <4>2 DEF ReaderKept
      <4> QED BY <4>1, <4>2
    <3> QED BY <1>1, <1>5, <2>4, <2>5, <3>1, <3>2 DEF Untouched, SameJobs
  <2>6. ASSUME ~crossed'[s] PROVE Sound(s)'
    <3>1. /\ Sound(s) /\ meta[s] = m /\ ~BeingRemoved(s) /\ Cardinality(R \cap E) = n
          /\ ~BeingRemoved(s)'
      BY <1>1, <1>5, <2>4, <2>6 DEF CacheIInv
    <3>2. ~Pruning(s) /\ ~Pruning(s)'
      BY <1>q, <1>1, <2>1 DEF Pruning
    <3>3. m.bytes = Cardinality(R) /\ m.cov \subseteq R
      BY <1>3, <3>1, <3>2 DEF Sound, Exact
    <3>4. k.bytes = Cardinality(R \cup E) /\ k.cov \subseteq R \cup E
      BY <1>2, <1>3, <1>4, <3>1, <3>3, CountsThePage
    <3>5. Emptied(s)' /\ PrunedOf(s)' /\ Exact(s)'
      BY <1>5, <3>1, <3>2, <3>4 DEF Emptied, PrunedOf, Exact
    <3>6. /\ done[s] \in Nat /\ m.last \in Nat /\ k.last \in Nat /\ i.least \in Nat
          /\ done'[s] = done[s] /\ i.before \in Nat
      BY <1>1, <1>2, <1>4, <2>2, JobFields DEF Store, Metas
    <3>7. Newest(s)'
      BY <1>4, <1>5, <3>1, <3>6 DEF Newest, Sound
    <3>8. Following(s)'
      <4>1. Following(s)
        BY <3>1 DEF Sound
      <4> QED BY <1>4, <1>5, <2>2, <2>3, <3>1, <3>6, <4>1 DEF Following, Holds
    <3>9. Unbroken(s)'
      <4> SUFFICES ASSUME i.pc = "readBefore", i.s = s, ~i.torn, ~Tears(s),
                          NEW x \in Asked(i) \cap (R \cup E)
                   PROVE  x .. i.before - 1 \subseteq R \cup E
        BY <1>5, <2>2, <2>3 DEF Unbroken, Asked
      <4>1. Asked(i) \subseteq R
        BY <1>3, <2>2 DEF Tears, Asked
      <4>2. x .. i.before - 1 \subseteq Asked(i)
        <5>1. i.prev.cov \subseteq Nat
          BY <1>1, <2>2, JobFields DEF Metas, Finite
        <5>2. x \in Nat /\ x .. i.before - 1 \subseteq i.prev.cov
          BY <5>1 DEF Asked, CoveredUpTo
        <5>3. ASSUME NEW y \in x .. i.before - 1
              PROVE  y \in i.prev.cov /\ y <= i.before - 1 /\ y .. i.before - 1 \subseteq i.prev.cov
          <6>1. y .. i.before - 1 \subseteq x .. i.before - 1
            BY <3>6, <5>2
          <6> QED BY <3>6, <5>2, <6>1
        <5> QED BY <5>3 DEF Asked, CoveredUpTo
      <4> QED BY <4>1, <4>2
    <3>10. Whole(s)'
      BY <1>1, <3>1 DEF Whole, Sound
    <3> QED BY <3>5, <3>7, <3>8, <3>9, <3>10 DEF Sound
  <2>7. \A u \in Sessions : crossed'[u] \/ Sound(u)'
    BY <2>5, <2>6, UntouchedIsSound DEF CacheIInv
  <2> QED BY <1>1, <1>6, <2>1, <2>7 DEF CacheIInv, CacheTypeOK
<1>r. CASE a = "reader"
  <2>1. /\ Jobs' /\ job'["reader"].pc = "migrated" /\ job'["deletion"] = job["deletion"]
        /\ job'["queue"] = job["queue"] /\ job'["reader"].victim = job["reader"].victim
        /\ job'["reader"].s = s /\ job'["reader"].before = 0
        /\ job'["reader"].least = job["reader"].least
    BY <1>r, <1>0, ReaderPutsJobs
  <2>2. \A u : BeingRemoved(u)' <=> BeingRemoved(u)
    <3>1. \A b \in Agents \ {a} :
             job'[b].pc = job[b].pc /\ job'[b].s = job[b].s /\ job'[b].victim = job[b].victim
      BY <1>r, <2>1 DEF Agents
    <3>2. job'[a].pc # "evictMeta" /\ job[a].pc # "evictMeta"
      BY <1>r, <1>1, <2>1
    <3> QED BY <1>1, <2>1, <3>1, <3>2, SameRemovals
  <2>3. ASSUME NEW u \in Sessions, u # s PROVE Untouched(u)
    <3>1. ReaderKept(u)
      BY <2>1, <2>3 DEF ReaderKept
    <3> QED BY <1>1, <1>5, <2>1, <2>2, <2>3, <3>1 DEF Untouched, SameJobs
  <2>4. ASSUME ~crossed'[s] PROVE Sound(s)'
    <3>1. /\ Sound(s) /\ meta[s] = m /\ ~BeingRemoved(s) /\ Cardinality(R \cap E) = n
          /\ ~BeingRemoved(s)'
      BY <1>1, <1>5, <2>2, <2>4 DEF CacheIInv
    <3>2. /\ m.bytes = Cardinality(R) => k.bytes = Cardinality(R \cup E)
          /\ k.bytes >= m.bytes /\ (k.bytes = m.bytes => E \subseteq R)
      BY <1>2, <1>3, <1>4, <3>1, CountsThePage
    <3>3. Pruning(s)' <=> Pruning(s)
      BY <2>1 DEF Pruning
    <3>4. Exact(s)'
      <4>1. CASE Pruning(s)
        BY <3>3, <4>1 DEF Exact
      <4>2. CASE ~Pruning(s)
        <5>1. m.bytes = Cardinality(R) /\ m.cov \subseteq R
          BY <1>3, <3>1, <4>2 DEF Sound, Exact
        <5>2. k.bytes = Cardinality(R \cup E) /\ k.cov \subseteq R \cup E
          BY <1>4, <3>2, <5>1
        <5> QED BY <1>5, <5>2 DEF Exact
      <4> QED BY <4>1, <4>2
    <3>5. PrunedOf(s)'
      <4> SUFFICES ASSUME Pruning(s)
                   PROVE  \/ /\ k = job["queue"].prev /\ R \cup E = job["queue"].events
                             /\ From(job["queue"].prev.cov, FirstSeq(job["queue"].events))
                                  \subseteq job["queue"].events
                          \/ Grown(job["queue"].prev, k)
        BY <1>5, <2>1, <3>3 DEF PrunedOf, Holds
      <4>0. PICK p, V : p = job["queue"].prev /\ V = job["queue"].events
        OBVIOUS
      <4>1. p \in Metas
        BY <1>1, <4>0, AgentFacts, JobFields
      <4>2. \/ m = p /\ R = V /\ From(p.cov, FirstSeq(V)) \subseteq V
            \/ Grown(p, m)
        BY <1>3, <3>1, <4>0 DEF Sound, PrunedOf
      <4>3. /\ m.bytes \in Nat /\ k.bytes \in Nat /\ p.bytes \in Nat
            /\ m.last \in Nat /\ k.last \in Nat /\ p.last \in Nat
        BY <1>2, <1>4, <4>1 DEF Metas
      <4>4. CASE m = p /\ R = V /\ From(p.cov, FirstSeq(V)) \subseteq V
        <5>1. k = p => E \subseteq R
          BY <3>2, <4>4
        <5>2. k # p => Grown(p, k)
          BY <1>4, <3>2, <4>4 DEF Grown
        <5> QED BY <4>0, <4>4, <5>1, <5>2
      <4>5. CASE Grown(p, m)
        <5>1. k.bytes >= p.bytes /\ k.last >= p.last /\ p.cov \subseteq k.cov
          BY <1>4, <3>2, <4>3, <4>5 DEF Grown
        <5>2. k # p
          <6> SUFFICES ASSUME k = p PROVE m = p
            BY <4>5 DEF Grown
          <6>1. m.bytes = p.bytes /\ m.last = p.last
            BY <1>4, <3>2, <4>3, <4>5 DEF Grown
          <6>2. m.cov = p.cov
            BY <1>4, <4>5 DEF Grown
          <6>3. m.present = p.present
            BY <1>2, <1>4, <4>1, <4>5 DEF Grown, Metas
          <6> QED BY <1>2, <4>1, <6>1, <6>2, <6>3 DEF Metas
        <5> QED BY <1>4, <4>0, <5>1, <5>2 DEF Grown
      <4> QED BY <4>2, <4>4, <4>5
    <3>6. Emptied(s)'
      BY <3>1 DEF Emptied
    <3>7. /\ done[s] \in Nat /\ m.last \in Nat /\ k.last \in Nat /\ job["reader"].least \in Nat
          /\ done'[s] = done[s]
      BY <1>1, <1>2, <1>4, JobFields DEF Store, Metas
    <3>8. Newest(s)'
      BY <1>4, <1>5, <3>1, <3>7 DEF Newest, Sound
    <3>9. Following(s)'
      <4>1. job["reader"].least <= m.last
        <5>1. job["reader"].before = 0 /\ Holds("reader", s)
          BY <1>r, <1>0, <1>1, AgentFacts DEF PageOrWindow, Writing, Holds
        <5> QED BY <3>1, <5>1 DEF Sound, Following
      <4> QED BY <1>4, <1>5, <2>1, <3>7, <4>1 DEF Following
    <3>10. Unbroken(s)' /\ Whole(s)'
      BY <1>1, <2>1, <3>1 DEF Unbroken, Whole, Sound
    <3> QED BY <3>4, <3>5, <3>6, <3>8, <3>9, <3>10 DEF Sound
  <2>5. \A u \in Sessions : crossed'[u] \/ Sound(u)'
    BY <2>3, <2>4, UntouchedIsSound DEF CacheIInv
  <2> QED BY <1>1, <1>6, <2>1, <2>5 DEF CacheIInv, CacheTypeOK
<1> QED BY <1>q, <1>r

-----------------------------------------------------------------------------
(* Pruning, in two transactions. *)
LEMMA PruneStep ==
  ASSUME CacheIInv, Prune
  PROVE  CacheIInv'
<1>0. PICK s, R, m, q : s = job["queue"].s /\ R = records[s] /\ m = meta[s] /\ q = job["queue"]
  OBVIOUS
<1>1. /\ "queue" \in Agents /\ "reader" \in Agents /\ Store /\ Jobs /\ JobShape(q)
      /\ q.pc = "prune" /\ s \in Sessions /\ q.s = s
      /\ UNCHANGED <<meta, hot, queue, answer, done, crossed>>
  BY <1>0, AgentFacts DEF Prune, Agents
<1>2. R \in Finite /\ m \in Metas
  BY <1>0, <1>1 DEF Store
<1>3. CASE Goto("queue", "enforce") /\ UNCHANGED records
  <2>1. job' = [job EXCEPT !["queue"] = Moved(q, "enforce")]
    BY <1>0, <1>3 DEF Goto, Moved
  <2>2. /\ JobShape(Moved(q, "enforce")) /\ Moved(q, "enforce").pc = "enforce"
        /\ Moved(q, "enforce").s = s
    BY <1>1, MovedIs DEF Pcs, QueuePcs
  <2>3. JobOK(Moved(q, "enforce"), Then["queue"]) /\ Moved(q, "enforce").pc \in PcsOf["queue"]
    BY <1>1, <2>2 DEF JobOK, Removing, PcsOf, QueuePcs
  <2>4. /\ done' \in [Sessions -> Nat] /\ hot' \in [Sessions -> Hots] /\ queue' \in Seq(Pages)
        /\ \A u \in Sessions : done'[u] = done[u]
    BY <1>1 DEF Store
  <2> QED BY <1>0, <1>1, <1>3, <2>1, <2>2, <2>3, <2>4, LocalStep
<1>4. CASE ~(Goto("queue", "enforce") /\ UNCHANGED records)
  <2> DEFINE j == [q EXCEPT !.prev = m, !.events = Retained(R), !.pc = "pruned"]
  <2>1. records' = [records EXCEPT ![s] = Retained(R)] /\ job' = [job EXCEPT !["queue"] = j]
    BY <1>0, <1>4 DEF Prune
  <2>2. Retained(R) \in Finite /\ Upper(Retained(R), R) /\ (R # {} => Retained(R) # {})
    BY <1>2, RetainedIsUpper
  <2>3. JobShape(j) /\ j.pc = "pruned" /\ j.s = s /\ j.prev = m /\ j.events = Retained(R)
    BY <1>1, <1>2, <2>2 DEF JobShape, Pcs, QueuePcs
  <2> HIDE DEF j
  <2>4. JobOK(j, Then["queue"]) /\ j.pc \in PcsOf["queue"]
    BY <1>1, <2>3 DEF JobOK, Removing, PcsOf, QueuePcs
  <2>5. Jobs' /\ job'["queue"] = j /\ \A b \in Agents \ {"queue"} : job'[b] = job[b]
    BY <1>1, <2>1, <2>4, OneJob
  <2>6. /\ records'[s] = Retained(R) /\ \A u \in Sessions \ {s} : records'[u] = records[u]
        /\ Store' /\ job'["reader"] = job["reader"]
    BY <1>1, <2>1, <2>2, <2>5 DEF Store
  <2>7. \A u : BeingRemoved(u)' <=> BeingRemoved(u)
    BY <1>0, <1>1, <2>3, <2>5, SameRemovals
  <2>8. ASSUME NEW u \in Sessions, u # s PROVE Untouched(u)
    <3>1. ~Pruning(u) /\ ~Pruning(u)'
      BY <1>0, <1>1, <2>3, <2>5, <2>8 DEF Pruning
    <3> QED BY <1>1, <2>6, <2>7, <2>8, <3>1 DEF Untouched, SameJobs, ReaderKept
  <2>9. ASSUME Sound(s) PROVE Sound(s)'
    <3>1. ~Pruning(s) /\ Pruning(s)'
      BY <1>0, <1>1, <2>3, <2>5 DEF Pruning
    <3>2. Retained(R) \subseteq R
      BY <2>2 DEF Upper
    <3>3. Emptied(s)' /\ Exact(s)'
      BY <1>0, <2>6, <2>7, <2>9, <3>1, <3>2 DEF Emptied, Exact, Sound
    <3>4. BeingRemoved(s) \/ From(m.cov, FirstSeq(Retained(R))) \subseteq Retained(R)
      <4> SUFFICES ASSUME ~BeingRemoved(s), NEW x \in From(m.cov, FirstSeq(Retained(R)))
                   PROVE  x \in Retained(R)
        OBVIOUS
      <4>1. m.cov \subseteq R
        BY <1>0, <2>9, <3>1 DEF Sound, Exact
      <4>2. x \in R /\ FirstSeq(Retained(R)) <= x
        <5>1. FirstSeq(Retained(R)) \in Nat /\ m.cov \subseteq Nat
          BY <1>2, <2>2, SeqTypes DEF Metas, Finite
        <5> QED BY <4>1, <5>1 DEF From
      <4>3. FirstSeq(Retained(R)) \in Retained(R)
        BY <2>2, <4>2, FirstIs DEF Finite
      <4> QED BY <2>2, <4>2, <4>3 DEF Upper
    <3>5. PrunedOf(s)'
      BY <1>0, <1>1, <2>3, <2>5, <2>6, <2>7, <3>4 DEF PrunedOf
    <3>6. Newest(s)' /\ Following(s)' /\ Whole(s)'
      BY <1>1, <2>6, <2>9 DEF Newest, Following, Whole, Sound, Holds
    <3>7. Unbroken(s)'
      <4>0. PICK r : r = job["reader"]
        OBVIOUS
      <4> SUFFICES ASSUME r.pc = "readBefore", r.s = s, ~r.torn,
                          NEW x \in Asked(r) \cap Retained(R), NEW y \in x .. r.before - 1
                   PROVE  y \in Retained(R)
        BY <2>6, <4>0 DEF Unbroken, Asked
      <4>1. x \in R /\ x .. r.before - 1 \subseteq R
        BY <1>0, <2>9, <3>2, <4>0 DEF Sound, Unbroken
      <4>2. y \in R /\ x <= y
        BY <1>2, <4>1 DEF Finite
      <4> QED BY <2>2, <4>2 DEF Upper
    <3> QED BY <3>3, <3>5, <3>6, <3>7 DEF Sound
  <2>10. \A u \in Sessions : crossed'[u] \/ Sound(u)'
    BY <1>1, <2>8, <2>9, UntouchedIsSound DEF CacheIInv
  <2> QED BY <1>1, <2>5, <2>6, <2>10 DEF CacheIInv, CacheTypeOK
<1> QED BY <1>3, <1>4

LEMMA PruneMetaStep ==
  ASSUME CacheIInv, PruneMeta
  PROVE  CacheIInv'
<1>0. PICK s, q, m : s = job["queue"].s /\ q = job["queue"] /\
                     m = [q.prev EXCEPT !.bytes = Cardinality(q.events),
                                        !.cov = From(q.prev.cov, FirstSeq(q.events))]
  OBVIOUS
<1>1. /\ "queue" \in Agents /\ "reader" \in Agents /\ Store /\ Jobs /\ JobShape(q)
      /\ q.pc = "pruned" /\ s \in Sessions /\ q.s = s
      /\ UNCHANGED <<records, hot, queue, answer, done>>
      /\ meta' = [meta EXCEPT ![s] = m]
      /\ crossed' = [crossed EXCEPT ![s] = @ \/ meta[s] # q.prev]
      /\ job' = [job EXCEPT !["queue"] = Moved(q, "enforce")]
  BY <1>0, AgentFacts DEF PruneMeta, PutMeta, Goto, Moved, Agents
<1>2. q.prev \in Metas /\ q.events \in Finite
  BY <1>1, JobFields
<1>3. /\ m \in Metas /\ m.last = q.prev.last /\ m.bytes = Cardinality(q.events)
      /\ m.cov = From(q.prev.cov, FirstSeq(q.events))
  <2>1. Cardinality(q.events) \in Nat
    BY <1>2, PartIsFinite
  <2>2. From(q.prev.cov, FirstSeq(q.events)) \in Finite
    BY <1>2, PartIsFinite DEF From, Metas
  <2> QED BY <1>0, <1>2, <2>1, <2>2 DEF Metas
<1>4. /\ JobShape(Moved(q, "enforce")) /\ Moved(q, "enforce").pc = "enforce"
      /\ Moved(q, "enforce").s = s
  BY <1>1, MovedIs DEF Pcs, QueuePcs
<1>5. JobOK(Moved(q, "enforce"), Then["queue"]) /\ Moved(q, "enforce").pc \in PcsOf["queue"]
  BY <1>1, <1>4 DEF JobOK, Removing, PcsOf, QueuePcs
<1>6. /\ Jobs' /\ job'["queue"].pc = "enforce" /\ job'["queue"].s = s
      /\ \A b \in Agents \ {"queue"} : job'[b] = job[b]
  BY <1>1, <1>4, <1>5, OneJob
<1>7. /\ meta'[s] = m /\ crossed'[s] = (crossed[s] \/ meta[s] # q.prev)
      /\ \A u \in Sessions \ {s} : meta'[u] = meta[u] /\ crossed'[u] = crossed[u]
      /\ Store' /\ job'["reader"] = job["reader"]
  BY <1>1, <1>3, <1>6 DEF Store
<1>8. \A u : BeingRemoved(u)' <=> BeingRemoved(u)
  BY <1>0, <1>1, <1>6, SameRemovals
<1>9. ASSUME NEW u \in Sessions, u # s PROVE Untouched(u)
  <2>1. ~Pruning(u) /\ ~Pruning(u)'
    BY <1>0, <1>1, <1>6, <1>9 DEF Pruning
  <2> QED BY <1>1, <1>7, <1>8, <1>9, <2>1 DEF Untouched, SameJobs, ReaderKept
<1>10. ASSUME ~crossed'[s] PROVE Sound(s)'
  <2>1. Sound(s) /\ meta[s] = q.prev /\ Pruning(s) /\ ~Pruning(s)'
    BY <1>0, <1>1, <1>6, <1>7, <1>10 DEF CacheIInv, Pruning
  <2>2. /\ records[s] = q.events
        /\ BeingRemoved(s) \/ m.cov \subseteq q.events
    BY <1>0, <1>3, <2>1 DEF Sound, PrunedOf, Grown
  <2>3. Exact(s)'
    BY <1>1, <1>3, <1>7, <1>8, <2>2 DEF Exact
  <2>4. Emptied(s)' /\ PrunedOf(s)'
    BY <1>1, <1>8, <2>1 DEF Emptied, PrunedOf, Sound
  <2>5. Newest(s)' /\ Following(s)'
    BY <1>1, <1>3, <1>7, <2>1 DEF Newest, Following, Holds, Sound
  <2>6. Unbroken(s)' /\ Whole(s)'
    BY <1>1, <1>7, <2>1 DEF Unbroken, Asked, Whole, Sound
  <2> QED BY <2>3, <2>4, <2>5, <2>6 DEF Sound
<1>11. \A u \in Sessions : crossed'[u] \/ Sound(u)'
  BY <1>9, <1>10, UntouchedIsSound DEF CacheIInv
<1> QED BY <1>1, <1>6, <1>7, <1>11 DEF CacheIInv, CacheTypeOK

-----------------------------------------------------------------------------
(* Reads. *)

(* A reader changes nothing but what it holds, what it answers and a hot window. *)
LEMMA ReaderStep ==
  ASSUME CacheIInv, NEW j, JobOK(j, Then["reader"]), j.pc \in ReaderPcs, PageOrWindow(j),
         job' = [job EXCEPT !["reader"] = j],
         j.pc # "evictMeta", job["reader"].pc # "evictMeta",
         UNCHANGED <<records, meta, queue, done, crossed, hot>>,
         answer'.s \in Sessions \/ answer' = NoAnswer,
         \A s \in Sessions : Sound(s) => Following(s)' /\ Unbroken(s)' /\ Whole(s)',
         j.pc # "idle" /\ j.before > 0 =>
           ~Pruning(j.s) \/ (Holds("reader", j.s) /\ job["reader"].before > 0)
  PROVE  CacheIInv'
<1>1. "queue" \in Agents /\ "reader" \in Agents /\ Store /\ Jobs /\ j.pc \in PcsOf["reader"]
  BY AgentFacts DEF PcsOf, Agents
<1>2. Jobs' /\ job'["reader"] = j /\ job'["queue"] = job["queue"]
      /\ \A b \in Agents \ {"reader"} : job'[b] = job[b]
  BY <1>1, OneJob
<1>3. \A u : BeingRemoved(u)' <=> BeingRemoved(u)
  BY <1>1, <1>2, SameRemovals
<1>4. ASSUME NEW s \in Sessions, Sound(s) PROVE Sound(s)'
  <2>1. Emptied(s)' /\ Exact(s)' /\ Newest(s)'
    BY <1>2, <1>3, <1>4 DEF Emptied, Exact, Newest, Pruning, Sound
  <2>2. PrunedOf(s)'
    BY <1>2, <1>3, <1>4 DEF PrunedOf, Pruning, Holds, Sound
  <2> QED BY <1>4, <2>1, <2>2 DEF Sound
<1>5. \A s \in Sessions : crossed'[s] \/ Sound(s)'
  BY <1>4 DEF CacheIInv
<1> QED BY <1>1, <1>2, <1>5 DEF CacheIInv, CacheTypeOK, Store

LEMMA BeginStep ==
  ASSUME CacheIInv, NEW s \in Sessions, NEW b \in {0} \cup {LastSeq(w.events) + 1 : w \in Writes},
         Begin(s, b)
  PROVE  CacheIInv'
<1>0. PICK j : j = [IdleJob EXCEPT !.s = s, !.before = b, !.least = done[s],
                                   !.pc = IF b = 0 THEN "read" ELSE "readMeta"]
  OBVIOUS
<1>1. /\ "reader" \in Agents /\ Store /\ job["reader"].pc = "idle" /\ NoWriteOf(s)
      /\ JobShape(IdleJob) /\ done[s] \in Nat
      /\ job' = [job EXCEPT !["reader"] = j]
      /\ UNCHANGED <<records, meta, hot, queue, answer, done, crossed>>
  BY <1>0, AgentFacts, IdleIsOK DEF Begin, Agents, Store
<1>2. b \in Nat
  <2>1. ASSUME NEW w \in Writes PROVE LastSeq(w.events) + 1 \in Nat
    <3>1. w.events \in Finite
      BY CacheAssumption DEF Finite
    <3> QED BY <3>1, SeqTypes
  <2> QED BY <2>1
<1>3. /\ JobShape(j) /\ j.s = s /\ j.before = b /\ j.least = done[s]
      /\ j.pc = IF b = 0 THEN "read" ELSE "readMeta"
  <2>1. "read" \in Pcs /\ "readMeta" \in Pcs
    BY DEF Pcs, ReaderPcs
  <2> QED BY <1>0, <1>1, <1>2, <2>1 DEF JobShape
<1>4. JobOK(j, Then["reader"]) /\ j.pc \in ReaderPcs /\ PageOrWindow(j)
  BY <1>2, <1>3 DEF JobOK, Removing, Writing, ReaderPcs, PageOrWindow
<1>5. job'["reader"] = j
  BY <1>1, <1>4, OneJob DEF CacheIInv, CacheTypeOK, PcsOf
<1>6. ASSUME NEW u \in Sessions, Sound(u) PROVE Following(u)' /\ Unbroken(u)' /\ Whole(u)'
  <2>1. Following(u)'
    BY <1>1, <1>3, <1>5, <1>6 DEF Following, Holds, Newest, Sound
  <2>2. Unbroken(u)' /\ Whole(u)'
    BY <1>1, <1>3, <1>5, <1>6 DEF Unbroken, Whole, Sound
  <2> QED BY <2>1, <2>2
<1>7. ~Pruning(s)
  BY <1>1 DEF NoWriteOf, Holds, Pruning
<1>8. answer'.s \in Sessions \/ answer' = NoAnswer
  BY <1>1 DEF CacheIInv, CacheTypeOK
<1> QED BY <1>1, <1>3, <1>4, <1>6, <1>7, <1>8, ReaderStep

(* The job of a reader, and what is known of the session it reads. *)
LEMMA ReaderFacts ==
  ASSUME CacheIInv, NEW r, r = job["reader"], r.pc # "idle"
  PROVE  /\ "reader" \in Agents /\ Store /\ Jobs /\ JobOK(r, Then["reader"]) /\ JobShape(r)
         /\ r.s \in Sessions /\ PageOrWindow(r) /\ r.pc \in ReaderPcs /\ Holds("reader", r.s)
         /\ r.prev \in Metas /\ r.before \in Nat /\ r.least \in Nat /\ r.events \in Finite
         /\ records[r.s] \in Finite /\ meta[r.s] \in Metas /\ hot[r.s] \in Hots
         /\ (answer.s \in Sessions \/ answer = NoAnswer)
<1>1. /\ "reader" \in Agents /\ Store /\ Jobs /\ JobOK(r, Then["reader"]) /\ JobShape(r)
      /\ r.s \in Sessions /\ PageOrWindow(r) /\ r.pc \in ReaderPcs
  BY AgentFacts DEF PcsOf, Agents
<1>2. Holds("reader", r.s)
  BY DEF Holds
<1>3. /\ r.prev \in Metas /\ r.before \in Nat /\ r.least \in Nat /\ r.events \in Finite
  BY <1>1, JobFields
<1>4. records[r.s] \in Finite /\ meta[r.s] \in Metas /\ hot[r.s] \in Hots
  BY <1>1 DEF Store
<1> QED BY <1>1, <1>2, <1>3, <1>4 DEF CacheIInv, CacheTypeOK

(* A reader that stops, having answered or not. *)
LEMMA ReaderEnds ==
  ASSUME CacheIInv, job["reader"].pc # "evictMeta", job' = [job EXCEPT !["reader"] = IdleJob],
         UNCHANGED <<records, meta, queue, done, crossed, hot>>,
         answer'.s \in Sessions \/ answer' = NoAnswer,
         \A s \in Sessions : Sound(s) => Whole(s)'
  PROVE  CacheIInv'
<1>1. "reader" \in Agents
  BY DEF Agents
<1>2. JobOK(IdleJob, Then["reader"]) /\ IdleJob.pc = "idle" /\ PageOrWindow(IdleJob)
  BY <1>1, IdleIsOK
<1>3. "idle" \in ReaderPcs
  BY DEF ReaderPcs
<1>4. job'["reader"] = IdleJob
  BY <1>1 DEF CacheIInv, CacheTypeOK, Jobs
<1>5. \A s \in Sessions : Following(s)' /\ Unbroken(s)'
  BY <1>2, <1>4 DEF Following, Unbroken, Holds
<1> QED BY <1>2, <1>3, <1>5, ReaderStep

(* A reader that goes on with an entry in hand. *)
LEMMA ReaderGoesOn ==
  ASSUME CacheIInv, NEW r, r = job["reader"], r.pc \in {"read", "migrated", "readMeta"},
         NEW j, JobShape(j), j.pc \in {"latest", "existing", "readBefore"},
         j.s = r.s, j.before = r.before, j.least = r.least,
         j.pc = "readBefore" <=> r.pc = "readMeta",
         j.pc = "readBefore" => j.before - 1 \in j.prev.cov,
         j.pc # "existing" => j.prev = meta[r.s],
         job' = [job EXCEPT !["reader"] = j],
         UNCHANGED <<records, meta, queue, done, crossed, hot, answer>>
  PROVE  CacheIInv'
<1>1. /\ "reader" \in Agents /\ Store /\ Jobs /\ r.s \in Sessions /\ PageOrWindow(r)
      /\ Holds("reader", r.s) /\ r.before \in Nat /\ r.least \in Nat
      /\ records[r.s] \in Finite /\ meta[r.s] \in Metas
      /\ answer'.s \in Sessions \/ answer' = NoAnswer
  BY ReaderFacts
<1>2. JobOK(j, Then["reader"]) /\ j.pc \in ReaderPcs /\ j.pc # "evictMeta" /\ r.pc # "evictMeta"
  BY <1>1 DEF JobOK, Removing, ReaderPcs, Writing
<1>3. PageOrWindow(j)
  BY <1>1 DEF PageOrWindow, Writing, Removing
<1>4. job'["reader"] = j
  BY <1>1 DEF Jobs
<1>5. ASSUME NEW s \in Sessions, Sound(s) PROVE Following(s)' /\ Unbroken(s)' /\ Whole(s)'
  <2>1. Following(s)'
    <3> SUFFICES ASSUME s = r.s, j.before = 0
                 PROVE  j.least <= meta[s].last /\ (j.pc = "latest" => j.least <= j.prev.last)
      BY <1>4 DEF Following, Holds
    <3>1. r.least <= meta[s].last
      BY <1>1, <1>5 DEF Sound, Following
    <3> QED BY <3>1
  <2>2. Unbroken(s)'
    <3> SUFFICES ASSUME j.pc = "readBefore", s = r.s,
                        NEW x \in Asked(j) \cap records[s], NEW y \in x .. j.before - 1
                 PROVE  y \in records[s]
      BY <1>4 DEF Unbroken, Asked
    <3>1. x \in Nat /\ y \in Int /\ x <= y /\ j.before \in Nat
      BY <1>1 DEF Finite
    <3>2. x .. j.before - 1 \subseteq meta[s].cov /\ y \in meta[s].cov
      BY <3>1 DEF Asked, CoveredUpTo
    <3>3. ~BeingRemoved(s)
      BY <1>5 DEF Sound, Emptied
    <3>4. CASE Pruning(s)
      <4>0. PICK q : q = job["queue"]
        OBVIOUS
      <4>1. r.before > 0
        BY <1>1 DEF PageOrWindow
      <4>2. meta[s] = q.prev /\ records[s] = q.events /\ From(q.prev.cov, FirstSeq(q.events)) \subseteq q.events
        BY <1>1, <1>5, <3>3, <3>4, <4>0, <4>1 DEF Sound, PrunedOf
      <4>3. FirstSeq(q.events) <= x /\ FirstSeq(q.events) \in Nat
        BY <1>1, <4>2, FirstIs, SeqTypes DEF Finite
      <4>4. FirstSeq(q.events) <= y
        BY <3>1, <4>3
      <4> QED BY <3>2, <4>2, <4>4 DEF From
    <3>5. CASE ~Pruning(s)
      BY <1>5, <3>2, <3>3, <3>5 DEF Sound, Exact
    <3> QED BY <3>4, <3>5
  <2>3. Whole(s)'
    BY <1>5 DEF Whole, Sound
  <2> QED BY <2>1, <2>2, <2>3
<1> QED BY <1>1, <1>2, <1>3, <1>5, ReaderStep

LEMMA ReadEventsStep ==
  ASSUME CacheIInv, ReadCachedSessionEvents
  PROVE  CacheIInv'
<1>0. PICK r, s : r = job["reader"] /\ s = r.s
  OBVIOUS
<1>1. /\ Store /\ s \in Sessions /\ JobShape(r) /\ PageOrWindow(r) /\ r.pc = "read" /\ r.least \in Nat
      /\ Holds("reader", s) /\ meta[s] \in Metas /\ hot[s] \in Hots /\ r.pc # "idle"
      /\ (answer.s \in Sessions \/ answer = NoAnswer)
      /\ UNCHANGED <<records, meta, hot, queue, done, crossed>>
  BY <1>0, ReaderFacts DEF ReadCachedSessionEvents
<1>2. r.before = 0
  BY <1>1 DEF PageOrWindow
<1> DEFINE window == BoundLatest(hot[s].events, Cached)
           cursor == Max2(hot[s].last, LastSeq(window))
<1>3. CASE FromHot(hot[s], meta[s]) /\ Answer(window, cursor)
           /\ job' = [job EXCEPT !["reader"] = IdleJob]
  <2>1. /\ answer'.s = s /\ answer'.before = 0 /\ answer'.cursor = cursor
        /\ answer'.least = r.least
    BY <1>0, <1>2, <1>3 DEF Answer
  <2>2. window \in Finite /\ hot[s].last \in Nat
    BY <1>1, BoundIsUpper DEF Hots
  <2>3. cursor >= hot[s].last /\ cursor \in Nat
    BY <2>2, SeqTypes DEF Max2
  <2> HIDE DEF cursor, window
  <2>4. ASSUME NEW u \in Sessions, Sound(u) PROVE Whole(u)'
    <3>1. CASE u = s
      <4>1. r.least <= meta[s].last
        BY <1>0, <1>1, <1>2, <2>4, <3>1 DEF Sound, Following
      <4>2. meta[s].last \in Nat /\ (meta[s].last <= hot[s].last \/ meta[s].last = 0)
        BY <1>1, <1>3, <2>2 DEF FromHot, Metas
      <4>3. cursor >= r.least
        BY <1>1, <2>2, <2>3, <4>1, <4>2
      <4> QED BY <2>1, <4>3 DEF Whole
    <3>2. CASE u # s
      BY <2>1, <3>2 DEF Whole
    <3> QED BY <3>1, <3>2
  <2> QED BY <1>0, <1>1, <1>3, <2>1, <2>4, ReaderEnds
<1>4. CASE /\ meta[s].present /\ UNCHANGED answer
           /\ job' = [job EXCEPT !["reader"].prev = meta[s], !["reader"].pc = "latest"]
  <2> DEFINE j == [r EXCEPT !.prev = meta[s], !.pc = "latest"]
  <2>1. job' = [job EXCEPT !["reader"] = j]
    BY <1>0, <1>4
  <2>2. JobShape(j) /\ j.pc = "latest" /\ j.s = r.s /\ j.before = r.before /\ j.least = r.least
        /\ j.prev = meta[s]
    BY <1>1 DEF JobShape, Pcs, ReaderPcs
  <2> HIDE DEF j
  <2> QED BY <1>0, <1>1, <1>4, <2>1, <2>2, ReaderGoesOn
<1>5. CASE /\ UNCHANGED answer
           /\ job' = [job EXCEPT !["reader"].events = {1}, !["reader"].pc = "existing"]
  <2> DEFINE j == [r EXCEPT !.events = {1}, !.pc = "existing"]
  <2>1. job' = [job EXCEPT !["reader"] = j]
    BY <1>0, <1>5
  <2>2. {1} \in Finite
    <3>1. IsFiniteSet({1})
      BY FS_Singleton
    <3>2. {1} \in SUBSET Nat
      OBVIOUS
    <3> QED BY <3>1, <3>2 DEF Finite
  <2>3. JobShape(j) /\ j.pc = "existing" /\ j.s = r.s /\ j.before = r.before /\ j.least = r.least
    BY <1>1, <2>2 DEF JobShape, Pcs, ReaderPcs, Writing
  <2> HIDE DEF j
  <2> QED BY <1>0, <1>1, <1>5, <2>1, <2>3, ReaderGoesOn
<1>6. CASE UNCHANGED answer /\ job' = [job EXCEPT !["reader"] = IdleJob]
  <2>1. \A u \in Sessions : Sound(u) => Whole(u)'
    BY <1>6 DEF Sound, Whole
  <2> QED BY <1>0, <1>1, <1>6, <2>1, ReaderEnds
<1> QED BY <1>0, <1>3, <1>4, <1>5, <1>6 DEF ReadCachedSessionEvents

LEMMA MigratedStep ==
  ASSUME CacheIInv, Migrated
  PROVE  CacheIInv'
<1>0. PICK r, s : r = job["reader"] /\ s = r.s
  OBVIOUS
<1>1. /\ s \in Sessions /\ JobShape(r) /\ r.pc = "migrated" /\ meta[s] \in Metas
      /\ (answer.s \in Sessions \/ answer = NoAnswer)
      /\ UNCHANGED <<records, meta, hot, queue, answer, done, crossed>>
  BY <1>0, ReaderFacts DEF Migrated
<1>2. CASE meta[s].present
  <2> DEFINE j == [r EXCEPT !.prev = meta[s], !.pc = "latest"]
  <2>1. job' = [job EXCEPT !["reader"] = j]
    BY <1>0, <1>2, ReaderFacts DEF Migrated, Jobs
  <2>2. JobShape(j) /\ j.pc = "latest" /\ j.s = r.s /\ j.before = r.before /\ j.least = r.least
        /\ j.prev = meta[s]
    BY <1>1 DEF JobShape, Pcs, ReaderPcs
  <2> HIDE DEF j
  <2> QED BY <1>0, <1>1, <2>1, <2>2, ReaderGoesOn
<1>3. CASE ~meta[s].present
  <2>1. job' = [job EXCEPT !["reader"] = IdleJob]
    BY <1>0, <1>3 DEF Migrated
  <2>2. \A u \in Sessions : Sound(u) => Whole(u)'
    BY <1>1 DEF Sound, Whole
  <2> QED BY <1>0, <1>1, <2>1, <2>2, ReaderEnds
<1> QED BY <1>2, <1>3

LEMMA ReadMetaStep ==
  ASSUME CacheIInv, ReadMeta
  PROVE  CacheIInv'
<1>0. PICK r, s : r = job["reader"] /\ s = r.s
  OBVIOUS
<1>1. /\ s \in Sessions /\ JobShape(r) /\ r.pc = "readMeta" /\ meta[s] \in Metas
      /\ (answer.s \in Sessions \/ answer = NoAnswer)
      /\ UNCHANGED <<records, meta, hot, queue, answer, done, crossed>>
  BY <1>0, ReaderFacts DEF ReadMeta
<1>2. CASE meta[s].present /\ r.before - 1 \in meta[s].cov
  <2> DEFINE j == [r EXCEPT !.prev = meta[s], !.pc = "readBefore"]
  <2>1. job' = [job EXCEPT !["reader"] = j]
    BY <1>0, <1>2 DEF ReadMeta
  <2>2. JobShape(j) /\ j.pc = "readBefore" /\ j.s = r.s /\ j.before = r.before /\ j.least = r.least
        /\ j.prev = meta[s]
    BY <1>1 DEF JobShape, Pcs, ReaderPcs
  <2> HIDE DEF j
  <2> QED BY <1>0, <1>1, <1>2, <2>1, <2>2, ReaderGoesOn
<1>3. CASE ~(meta[s].present /\ r.before - 1 \in meta[s].cov)
  <2>1. job' = [job EXCEPT !["reader"] = IdleJob]
    BY <1>0, <1>3 DEF ReadMeta
  <2>2. \A u \in Sessions : Sound(u) => Whole(u)'
    BY <1>1 DEF Sound, Whole
  <2> QED BY <1>0, <1>1, <2>1, <2>2, ReaderEnds
<1> QED BY <1>2, <1>3

(* The reader answers from the records and goes on to put the entry back. *)
LEMMA ReadLatestStep ==
  ASSUME CacheIInv, ReadLatest
  PROVE  CacheIInv'
<1>0. PICK r, s : r = job["reader"] /\ s = r.s
  OBVIOUS
<1>1. /\ Store /\ s \in Sessions /\ JobShape(r) /\ PageOrWindow(r) /\ r.pc = "latest"
      /\ r.least \in Nat /\ r.prev \in Metas /\ Holds("reader", s) /\ records[s] \in Finite
      /\ UNCHANGED <<records, meta, hot, queue, done, crossed>>
  BY <1>0, ReaderFacts DEF ReadLatest
<1>2. PICK window : window = BoundLatest(records[s], Cached)
  OBVIOUS
<1>3. PICK cursor : cursor = Max2(r.prev.last, LastSeq(window))
  OBVIOUS
<1>4. PICK j : j = [r EXCEPT !.events = window, !.pc = "putBack"]
  OBVIOUS
<1>5. r.before = 0 /\ window \in Finite
  BY <1>1, <1>2, BoundIsUpper DEF PageOrWindow, Writing
<1>6. cursor >= r.prev.last /\ r.prev.last \in Nat
  <2>1. LastSeq(window) \in Nat /\ r.prev.last \in Nat
    BY <1>1, <1>5, SeqTypes DEF Metas
  <2> QED BY <1>3, <2>1 DEF Max2
<1>7. /\ answer'.s = s /\ answer'.before = 0 /\ answer'.cursor = cursor
      /\ answer'.least = r.least
      /\ job' = [job EXCEPT !["reader"] = j]
  BY <1>0, <1>2, <1>3, <1>4, <1>5 DEF ReadLatest, Answer
<1>8. JobShape(j) /\ j.pc = "putBack" /\ j.s = s /\ j.before = 0 /\ j.least = r.least
  BY <1>0, <1>1, <1>4, <1>5 DEF JobShape, Pcs, ReaderPcs
<1>9. JobOK(j, Then["reader"]) /\ j.pc \in ReaderPcs /\ PageOrWindow(j)
  BY <1>1, <1>8 DEF JobOK, Removing, Writing, ReaderPcs, PageOrWindow
<1>10. job'["reader"] = j
  BY <1>7, <1>9, OneJob, ReaderFacts, <1>0, <1>1 DEF PcsOf
<1>11. ASSUME NEW u \in Sessions, Sound(u) PROVE Following(u)' /\ Unbroken(u)' /\ Whole(u)'
  <2>1. Following(u)'
    BY <1>0, <1>1, <1>5, <1>8, <1>10, <1>11 DEF Following, Holds, Sound
  <2>2. Unbroken(u)'
    BY <1>8, <1>10 DEF Unbroken
  <2>3. u = s => cursor >= r.least
    <3> HAVE u = s
    <3>1. r.least <= r.prev.last
      BY <1>0, <1>1, <1>5, <1>11 DEF Following, Sound
    <3>2. cursor \in Nat
      BY <1>1, <1>3, <1>5, SeqTypes DEF Max2, Metas
    <3> QED BY <1>1, <1>6, <3>1, <3>2
  <2>4. Whole(u)'
    <3>1. CASE u = s
      <4>1. answer'.before = 0 /\ answer'.cursor = cursor /\ answer'.least = r.least
        BY <1>7
      <4>2. cursor >= r.least
        BY <2>3, <3>1
      <4> QED BY <4>1, <4>2 DEF Whole
    <3>2. CASE u # s
      <4>1. answer'.s # u
        BY <1>7, <3>2
      <4> QED BY <4>1 DEF Whole
    <3> QED BY <3>1, <3>2
  <2> QED BY <2>1, <2>2, <2>4
<1>12. /\ answer'.s \in Sessions /\ job["reader"].pc # "evictMeta" /\ j.pc # "evictMeta"
       /\ ~(j.before > 0) /\ job' = [job EXCEPT !["reader"] = j]
       /\ UNCHANGED <<records, meta, queue, done, crossed, hot>>
  BY <1>0, <1>1, <1>7, <1>8
<1> QED BY <1>9, <1>11, <1>12, ReaderStep

(* A page of the records below an event reaches up to it without a hole, when
   those that were asked for and are there do. *)
LEMMA PageIsWhole ==
  ASSUME NEW R \in Finite, NEW A \in Finite, NEW b \in Nat, b > 0, NEW P,
         b - 1 \in A, A = CoveredUpTo(A, b - 1),
         \A x \in A \cap R : x .. b - 1 \subseteq R,
         P = BoundLatest({x \in R : FirstSeq(A) <= x /\ x < b}, Cached), P # {}
  PROVE  P = FirstSeq(P) .. b - 1
<1>1. PICK W : W = {x \in R : FirstSeq(A) <= x /\ x < b}
  OBVIOUS
<1>2. W \in Finite /\ W \subseteq Nat /\ R \subseteq Nat /\ A \subseteq Nat
  BY <1>1, PartIsFinite DEF Finite
<1>3. P \in Finite /\ P \subseteq W /\ P \subseteq Nat /\ \A x \in P, y \in W : x <= y => y \in P
  BY <1>1, <1>2, BoundIsUpper DEF Upper, Finite
<1>4. FirstSeq(A) \in A /\ FirstSeq(P) \in P /\ \A x \in P : FirstSeq(P) <= x
  BY <1>2, <1>3, FirstIs
<1>5. FirstSeq(A) .. b - 1 \subseteq A
  BY <1>4 DEF CoveredUpTo
<1>6. PICK f, g : f = FirstSeq(P) /\ g = FirstSeq(A)
  OBVIOUS
<1>7. f \in R /\ f \in Nat /\ g \in Nat /\ g <= f /\ f < b
  BY <1>1, <1>2, <1>3, <1>4, <1>6
<1>8. f \in A
  <2>1. f \in g .. b - 1
    BY <1>7
  <2> QED BY <1>5, <1>6, <2>1
<1>9. f .. b - 1 \subseteq R
  BY <1>7, <1>8
<1>10. ASSUME NEW y \in f .. b - 1 PROVE y \in P
  <2>1. y \in R /\ g <= y /\ y < b /\ f <= y
    BY <1>7, <1>9, <1>10
  <2> QED BY <1>1, <1>3, <1>4, <1>6, <2>1
<1>11. ASSUME NEW y \in P PROVE y \in f .. b - 1
  <2>1. y \in Nat /\ f <= y /\ y < b
    BY <1>1, <1>3, <1>4, <1>6, <1>11
  <2> QED BY <1>7, <2>1
<1> QED BY <1>6, <1>10, <1>11

LEMMA AskedIs ==
  ASSUME NEW c \in Finite, NEW b \in Nat, b - 1 \in c
  PROVE  /\ CoveredUpTo(c, b - 1) \in Finite /\ b - 1 \in CoveredUpTo(c, b - 1)
         /\ CoveredUpTo(c, b - 1) = CoveredUpTo(CoveredUpTo(c, b - 1), b - 1)
<1>1. c \subseteq Nat /\ b - 1 \in Nat
  BY DEF Finite
<1>2. PICK e : e = b - 1
  OBVIOUS
<1>3. PICK A : A = CoveredUpTo(c, e)
  OBVIOUS
<1>4. A \in Finite
  BY <1>3, PartIsFinite DEF CoveredUpTo
<1>5. e \in A
  <2>1. e .. e \subseteq c
    BY <1>1, <1>2
  <2> QED BY <1>1, <1>2, <1>3, <2>1 DEF CoveredUpTo
<1>6. ASSUME NEW x \in A PROVE x .. e \subseteq A
  <2>1. x \in Nat /\ x .. e \subseteq c
    BY <1>1, <1>3 DEF CoveredUpTo
  <2>2. \A y \in x .. e : y <= e /\ y .. e \subseteq x .. e
    BY <1>1, <1>2, <2>1
  <2> QED BY <1>3, <2>1, <2>2 DEF CoveredUpTo
<1>7. \A x \in A : x <= e
  BY <1>3 DEF CoveredUpTo
<1>8. A = CoveredUpTo(A, e)
  BY <1>6, <1>7 DEF CoveredUpTo
<1> QED BY <1>2, <1>3, <1>4, <1>5, <1>8

LEMMA ReadBeforeStep ==
  ASSUME CacheIInv, ReadBefore
  PROVE  CacheIInv'
<1>0. PICK r, s : r = job["reader"] /\ s = r.s
  OBVIOUS
<1>1. /\ Store /\ s \in Sessions /\ JobShape(r) /\ PageOrWindow(r) /\ r.pc = "readBefore"
      /\ r.before \in Nat /\ r.prev \in Metas /\ Holds("reader", s) /\ records[s] \in Finite
      /\ (answer.s \in Sessions \/ answer = NoAnswer)
      /\ UNCHANGED <<records, meta, hot, queue, done, crossed>>
  BY <1>0, ReaderFacts DEF ReadBefore
<1>2. /\ r.before > 0 /\ r.prev.cov \in Finite /\ r.before - 1 \in r.prev.cov
      /\ Holds("reader", s) /\ job["reader"].before > 0
  BY <1>0, <1>1 DEF PageOrWindow, Metas
<1>3. PICK page : page = BoundLatest({x \in records[s] : FirstSeq(Asked(r)) <= x /\ x < r.before}, Cached)
  OBVIOUS
<1>4. CASE page = {}
  <2>1. UNCHANGED answer /\ job' = [job EXCEPT !["reader"] = IdleJob]
    BY <1>0, <1>3, <1>4 DEF ReadBefore, Asked
  <2>2. \A u \in Sessions : Sound(u) => Whole(u)'
    BY <2>1 DEF Sound, Whole
  <2> QED BY <1>0, <1>1, <2>1, <2>2, ReaderEnds
<1>5. CASE page # {}
  <2>1. /\ answer'.s = s /\ answer'.before = r.before /\ answer'.got = page
        /\ answer'.torn = r.torn
        /\ job' = [job EXCEPT !["reader"] = Moved(r, "putBack")]
    BY <1>0, <1>3, <1>5 DEF ReadBefore, Asked, Answer, Moved
  <2>2. PICK j : j = Moved(r, "putBack")
    OBVIOUS
  <2>3. JobShape(j) /\ j.pc = "putBack" /\ j.s = s /\ j.before = r.before
    BY <1>0, <1>1, <2>2, MovedIs DEF Pcs, ReaderPcs
  <2>4. JobOK(j, Then["reader"]) /\ j.pc \in ReaderPcs /\ PageOrWindow(j)
    BY <1>1, <2>3 DEF JobOK, Removing, Writing, ReaderPcs, PageOrWindow
  <2>5. job'["reader"] = j
    BY <1>0, <1>1, <2>1, <2>2, <2>4, OneJob, ReaderFacts DEF PcsOf
  <2>6. ASSUME NEW u \in Sessions, Sound(u) PROVE Following(u)' /\ Unbroken(u)' /\ Whole(u)'
    <3>1. Following(u)' /\ Unbroken(u)'
      BY <1>2, <2>3, <2>5 DEF Following, Unbroken
    <3>2. ASSUME u = s, ~r.torn PROVE page = FirstSeq(page) .. r.before - 1
      <4>1. \A x \in Asked(r) \cap records[s] : x .. r.before - 1 \subseteq records[s]
        BY <1>0, <1>1, <2>6, <3>2 DEF Sound, Unbroken
      <4>2. /\ Asked(r) \in Finite /\ r.before - 1 \in Asked(r)
            /\ Asked(r) = CoveredUpTo(Asked(r), r.before - 1)
        BY <1>1, <1>2, AskedIs DEF Asked
      <4> QED BY <1>1, <1>2, <1>3, <1>5, <4>1, <4>2, PageIsWhole
    <3>3. Whole(u)'
      BY <1>2, <2>1, <3>2 DEF Whole
    <3> QED BY <3>1, <3>3
  <2> QED BY <1>0, <1>1, <1>2, <2>1, <2>2, <2>3, <2>4, <2>6, ReaderStep
<1> QED BY <1>4, <1>5

(* What is put back is what is there, or the session is crossed. *)
LEMMA PutBackStep ==
  ASSUME CacheIInv, PutBack
  PROVE  CacheIInv'
<1>0. PICK r, s : r = job["reader"] /\ s = r.s
  OBVIOUS
<1>1. /\ "reader" \in Agents /\ Store /\ Jobs /\ s \in Sessions /\ r.pc = "putBack"
      /\ r.prev \in Metas /\ r.events \in Finite /\ (answer.s \in Sessions \/ answer = NoAnswer)
      /\ UNCHANGED <<records, queue, answer, done>>
      /\ meta' = [meta EXCEPT ![s] = r.prev]
      /\ crossed' = [crossed EXCEPT ![s] = @ \/ meta[s] # r.prev]
      /\ job' = [job EXCEPT !["reader"] = IdleJob]
  BY <1>0, ReaderFacts DEF PutBack, PutMeta
<1>2. hot' \in [Sessions -> Hots]
  <2>1. CASE hot' = hot
    BY <1>1, <2>1 DEF Store
  <2>2. CASE hot' \in HotAfter(s, r.events, Max2(r.prev.last, LastSeq(r.events)))
    <3>1. LastSeq(r.events) \in Nat /\ r.prev.last \in Nat
      BY <1>1, SeqTypes DEF Metas
    <3>2. PICK n : n = Max2(r.prev.last, LastSeq(r.events))
      OBVIOUS
    <3>3. n \in Nat /\ hot' \in HotAfter(s, r.events, n)
      BY <2>2, <3>1, <3>2 DEF Max2
    <3>4. Store /\ s \in Sessions /\ r.events \in Finite
      BY <1>1
    <3> QED BY <3>3, <3>4, HotType
  <2> QED BY <1>0, <2>1, <2>2 DEF PutBack
<1>3. JobOK(IdleJob, Then["reader"]) /\ IdleJob.pc = "idle" /\ PageOrWindow(IdleJob)
      /\ IdleJob.pc \in PcsOf["reader"]
  BY <1>1, IdleIsOK
<1>4. /\ Jobs' /\ job'["reader"] = IdleJob /\ job'["queue"] = job["queue"]
      /\ \A b \in Agents \ {"reader"} : job'[b] = job[b]
  <2>1. Jobs' /\ job'["reader"] = IdleJob /\ \A b \in Agents \ {"reader"} : job'[b] = job[b]
    BY <1>1, <1>3, OneJob
  <2> QED BY <2>1 DEF Agents
<1>5. \A u : BeingRemoved(u)' <=> BeingRemoved(u)
  BY <1>0, <1>1, <1>3, <1>4, SameRemovals
<1>6. /\ meta' \in [Sessions -> Metas] /\ crossed' \in [Sessions -> BOOLEAN]
      /\ \A u \in Sessions \ {s} : meta'[u] = meta[u] /\ crossed'[u] = crossed[u]
      /\ meta'[s] = r.prev /\ crossed'[s] = (crossed[s] \/ meta[s] # r.prev)
  <2>1. meta \in [Sessions -> Metas] /\ crossed \in [Sessions -> BOOLEAN]
    BY <1>1 DEF Store
  <2>2. /\ meta' \in [Sessions -> Metas] /\ meta'[s] = r.prev
        /\ \A u \in Sessions \ {s} : meta'[u] = meta[u]
    BY <1>1, <2>1
  <2>3. /\ crossed' \in [Sessions -> BOOLEAN]
        /\ crossed'[s] = (crossed[s] \/ meta[s] # r.prev)
        /\ \A u \in Sessions \ {s} : crossed'[u] = crossed[u]
    BY <1>1, <2>1
  <2> QED BY <2>2, <2>3
<1>7. ASSUME NEW u \in Sessions, ~crossed'[u] PROVE Sound(u)'
  <2>1. Sound(u) /\ meta'[u] = meta[u]
    BY <1>6, <1>7 DEF CacheIInv
  <2>2. Emptied(u)' /\ Exact(u)' /\ Newest(u)'
    BY <1>1, <1>4, <1>5, <2>1 DEF Emptied, Exact, Newest, Pruning, Sound
  <2>3. ~Holds("reader", u)'
    BY <1>3, <1>4 DEF Holds
  <2>4. PrunedOf(u)'
    BY <1>1, <1>4, <1>5, <2>1, <2>3 DEF PrunedOf, Pruning, Sound
  <2>5. Following(u)' /\ Unbroken(u)'
    BY <1>3, <1>4, <2>3 DEF Following, Unbroken
  <2>6. Whole(u)'
    BY <1>1, <2>1 DEF Whole, Sound
  <2> QED BY <2>2, <2>4, <2>5, <2>6 DEF Sound
<1>8. Store'
  BY <1>1, <1>2, <1>6 DEF Store
<1> QED BY <1>1, <1>4, <1>7, <1>8 DEF CacheIInv, CacheTypeOK

-----------------------------------------------------------------------------
LEMMA StutterIsSound ==
  ASSUME CacheIInv, UNCHANGED cacheVars
  PROVE  CacheIInv'
<1>1. UNCHANGED <<records, meta, hot, queue, job, answer, done, crossed>>
  BY DEF cacheVars
<1>2. Store' /\ Jobs' /\ (answer'.s \in Sessions \/ answer' = NoAnswer)
  BY <1>1 DEF CacheIInv, CacheTypeOK, Store, Jobs
<1>3. ASSUME NEW s \in Sessions, Sound(s) PROVE Sound(s)'
  <2>1. BeingRemoved(s)' <=> BeingRemoved(s)
    BY <1>1 DEF BeingRemoved
  <2>2. Emptied(s)' /\ Exact(s)' /\ Newest(s)' /\ PrunedOf(s)'
    BY <1>1, <1>3, <2>1 DEF Emptied, Exact, Newest, PrunedOf, Pruning, Holds, Sound
  <2>3. Following(s)' /\ Unbroken(s)' /\ Whole(s)'
    BY <1>1, <1>3 DEF Following, Holds, Unbroken, Whole, Sound
  <2> QED BY <2>2, <2>3 DEF Sound
<1> QED BY <1>1, <1>2, <1>3 DEF CacheIInv, CacheTypeOK

LEMMA NextSound ==
  ASSUME CacheIInv, [CacheNext]_cacheVars
  PROVE  CacheIInv'
<1>1. CASE \E s \in Sessions, w \in Writes : Enqueue(s, w) \/ WriteWindow(s, w)
  BY <1>1, EnqueueStep
<1>2. CASE \E s \in Sessions : \E b \in {0} \cup {LastSeq(w.events) + 1 : w \in Writes} : Begin(s, b)
  BY <1>2, BeginStep
<1>3. CASE \E s \in Sessions : DeleteRecords(s)
  BY <1>3, DeleteRecordsStep
<1>4. CASE QueueSteps
  BY <1>4, DequeueStep, PutHotStep, ReserveStep, PruneStep, PruneMetaStep, FinishStep
     DEF QueueSteps
<1>5. CASE ReaderSteps
  BY <1>5, ReadEventsStep, MigratedStep, ReadLatestStep, ReadMetaStep, ReadBeforeStep, PutBackStep
     DEF ReaderSteps
<1>6. CASE DeleteEntries
  BY <1>6, DeleteEntriesStep
<1>7. CASE \E a \in {"queue", "reader"} : WriteSteps(a)
  <2>1. PICK a \in {"queue", "reader"} : WriteSteps(a)
    BY <1>7
  <2>2. CASE ReadExisting(a) \/ ReadPrevious(a) \/ Reserve(a)
    BY <2>2, ReadExistingStep, ReadPreviousStep, ReserveStep
  <2>3. CASE EvictRecords(a) \/ EvictMeta(a)
    BY <2>3, EvictRecordsStep, EvictMetaStep
  <2>4. CASE PutPage(a) \/ PutFails(a)
    BY <2>4, PutPageStep, PutFailsStep
  <2> QED BY <2>1, <2>2, <2>3, <2>4 DEF WriteSteps
<1>8. CASE UNCHANGED cacheVars
  BY <1>8, StutterIsSound
<1> QED BY <1>1, <1>2, <1>3, <1>4, <1>5, <1>6, <1>7, <1>8 DEF CacheNext

LEMMA SoundAnswers == CacheIInv => AnswerIsWhole
<1> SUFFICES ASSUME CacheIInv PROVE AnswerIsWhole
  OBVIOUS
<1>1. CASE answer.s \in Sessions
  <2>1. crossed[answer.s] \/ Whole(answer.s)
    BY <1>1 DEF CacheIInv, Sound
  <2> QED BY <2>1 DEF AnswerIsWhole, PageHasNoGap, ReadSeesWrites, Whole
<1>2. CASE answer = NoAnswer
  BY <1>2 DEF AnswerIsWhole, PageHasNoGap, ReadSeesWrites, NoAnswer
<1> QED BY <1>1, <1>2 DEF CacheIInv, CacheTypeOK

LEMMA SoundEntries == CacheIInv => AccountingExact
<1> SUFFICES ASSUME CacheIInv, \A a \in Agents : job[a].pc = "idle", NEW s \in Sessions,
                    ~crossed[s]
             PROVE  meta[s].bytes = Cardinality(records[s])
  BY DEF AccountingExact
<1>1. ~BeingRemoved(s) /\ ~Pruning(s)
  BY DEF BeingRemoved, Pruning, Agents
<1> QED BY <1>1 DEF CacheIInv, Sound, Exact

LEMMA CacheIsSound == CacheSpec => []CacheIInv
<1>1. CacheInit => CacheIInv
  BY InitSound
<1>2. CacheIInv /\ [CacheNext]_cacheVars => CacheIInv'
  BY NextSound
<1> QED BY <1>1, <1>2, PTL DEF CacheSpec

(* readCachedSessionEvents and readCachedSessionEventsBefore, beside the queue
   of writes, migrations, evictions and deletions: a page of stored history ends
   at the event before which it was asked for and has no hole, and a read of the
   latest events is not older than a write that had finished when it began. *)
THEOREM AnswersAreWhole == CacheSpec => []AnswerIsWhole
BY CacheIsSound, SoundAnswers, PTL

(* putEventPage, pruneSessionEventRecords and the removals: whenever nobody is at
   work, the bytes an entry says are those of the records that are stored, however
   pages were replaced, pruned, evicted, deleted and migrated. *)
THEOREM EntriesAreExact == CacheSpec => []AccountingExact
BY CacheIsSound, SoundEntries, PTL
=============================================================================
