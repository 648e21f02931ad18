------------------------ MODULE SessionHistoryProofs ------------------------
(* Why a tail that is marked hydrated lacks nothing.  The windows come first:
   what a bound keeps, and which windows have no hole after an event; then the
   types, the requests, and each step of SessionHistory. *)
EXTENDS SessionHistory, FiniteSetTheorems, WellFoundedInduction, TLAPS

-----------------------------------------------------------------------------
(* Windows. *)

\* A set of sequence numbers that is not empty has a first one.
LEMMA Earliest ==
  ASSUME NEW W, W \subseteq Nat, W # {}
  PROVE  \E s \in W : \A t \in W : s <= t
<1>1. PICK s \in W : \A t \in W : ~ (<<t, s>> \in OpToRel(<, Nat))
  BY WFMin, NatLessThanWellFounded
<1>2. \A t \in W : ~ (t < s)
  BY <1>1 DEF OpToRel
<1> QED BY <1>2

\* A window of the first n events has a last one.
LEMMA LastOf ==
  ASSUME NEW n \in Nat, NEW W, W \subseteq 1 .. n
  PROVE  /\ LastSeq(W) \in 0 .. n /\ W \subseteq 1 .. LastSeq(W)
         /\ \A s \in W : s <= LastSeq(W)
         /\ W # {} => LastSeq(W) \in W
         /\ LastSeq(W) # 0 => LastSeq(W) \in W
<1>1. CASE W = {}
  BY <1>1 DEF LastSeq
<1>2. CASE W # {}
  <2>1. PICK t \in W : TRUE
    BY <1>2
  <2>2. {n - s : s \in W} \subseteq Nat
    <3>1. \A s \in W : n - s \in Nat
      OBVIOUS
    <3> QED BY <3>1
  <2>3. n - t \in {n - s : s \in W}
    BY <2>1
  <2>4. PICK d \in {n - s : s \in W} : \A e \in {n - s : s \in W} : d <= e
    BY <2>2, <2>3, Earliest
  <2>5. PICK s \in W : d = n - s
    BY <2>4
  <2>6. \A u \in W : s >= u
    <3>1. \A u \in W : n - u \in {n - w : w \in W}
      OBVIOUS
    <3>2. \A u \in W : n - s <= n - u
      BY <2>4, <2>5, <3>1
    <3>3. \A u \in W : u \in Int
      OBVIOUS
    <3> QED BY <3>2, <3>3
  <2>7. LastSeq(W) \in W /\ \A u \in W : LastSeq(W) >= u
    BY <1>2, <2>6 DEF LastSeq
  <2>8. \A u \in W : u <= LastSeq(W)
    BY <2>7
  <2>9. LastSeq(W) \in 1 .. n
    BY <2>7
  <2>10. W \subseteq 1 .. LastSeq(W)
    BY <2>8, <2>9
  <2> QED BY <1>2, <2>7, <2>8, <2>9, <2>10
<1> QED BY <1>1, <1>2

\* An earlier end of the log leaves no event out of the later one.
LEMMA Longer ==
  ASSUME NEW n \in Nat, NEW m \in 0 .. n
  PROVE  1 .. m \subseteq 1 .. n
OBVIOUS

\* The last event of a window is the one no other follows.
LEMMA LastIs ==
  ASSUME NEW n \in Nat, NEW W, W \subseteq 1 .. n, NEW s \in W, \A t \in W : t <= s
  PROVE  LastSeq(W) = s
<1>1. LastSeq(W) \in W /\ s <= LastSeq(W)
  BY LastOf
<1>2. LastSeq(W) <= s
  BY <1>1
<1>3. s \in 1 .. n /\ LastSeq(W) \in 1 .. n
  BY <1>1
<1> QED BY <1>1, <1>2, <1>3

\* A longer window ends no earlier.
LEMMA LastGrows ==
  ASSUME NEW n \in Nat, NEW W, W \subseteq 1 .. n, NEW V, V \subseteq W
  PROVE  LastSeq(V) <= LastSeq(W)
<1>1. /\ \A s \in W : s <= LastSeq(W)
      /\ LastSeq(W) \in 0 .. n /\ LastSeq(V) \in 0 .. n
      /\ LastSeq(V) # 0 => LastSeq(V) \in V
  BY LastOf
<1> QED BY <1>1

\* Two windows together end where the longer of them does.
LEMMA LastOfBoth ==
  ASSUME NEW n \in Nat, NEW V \in SUBSET (1 .. n), NEW W \in SUBSET (1 .. n)
  PROVE  LastSeq(V \cup W) = Max2(LastSeq(V), LastSeq(W))
<1>1. V \cup W \subseteq 1 .. n
  OBVIOUS
<1>2. \A s \in V \cup W : s <= LastSeq(V \cup W)
  BY <1>1, LastOf
<1>3. LastSeq(V \cup W) # 0 => LastSeq(V \cup W) \in V \cup W
  BY <1>1, LastOf
<1>4. LastSeq(V \cup W) \in 0 .. n /\ LastSeq(V) \in 0 .. n /\ LastSeq(W) \in 0 .. n
  BY <1>1, LastOf
<1>5. /\ \A s \in V : s <= LastSeq(V)
      /\ \A s \in W : s <= LastSeq(W)
      /\ LastSeq(V) # 0 => LastSeq(V) \in V
      /\ LastSeq(W) # 0 => LastSeq(W) \in W
  BY LastOf
<1>6. LastSeq(V) <= LastSeq(V \cup W) /\ LastSeq(W) <= LastSeq(V \cup W)
  BY <1>2, <1>4, <1>5
<1>7. LastSeq(V \cup W) <= LastSeq(V) \/ LastSeq(V \cup W) <= LastSeq(W)
  BY <1>3, <1>4, <1>5
<1> QED BY <1>4, <1>6, <1>7 DEF Max2

\* The log up to an event ends with it.
LEMMA LastOfLog ==
  ASSUME NEW n \in Nat
  PROVE  LastSeq(1 .. n) = n
<1>1. CASE n = 0
  BY <1>1 DEF LastSeq
<1>2. CASE n # 0
  <2>1. n \in 1 .. n /\ \A t \in 1 .. n : t <= n
    BY <1>2
  <2> QED BY <2>1, LastIs
<1> QED BY <1>1, <1>2

\* Fewer events fit where more do.
LEMMA CountOf ==
  ASSUME NEW n \in Nat, NEW W, W \subseteq 1 .. n, NEW V, V \subseteq W
  PROVE  /\ Cardinality(V) \in Nat /\ Cardinality(W) \in Nat
         /\ Cardinality(V) <= Cardinality(W)
         /\ TurnsIn(V) \in Nat /\ TurnsIn(W) \in Nat /\ TurnsIn(V) <= TurnsIn(W)
<1>1. IsFiniteSet(1 .. n)
  BY FS_Interval
<1>2. IsFiniteSet(W) /\ IsFiniteSet(W \cap TurnStarts)
  BY <1>1, FS_Subset
<1>3. IsFiniteSet(V) /\ IsFiniteSet(V \cap TurnStarts)
      /\ Cardinality(V) <= Cardinality(W)
      /\ Cardinality(V \cap TurnStarts) <= Cardinality(W \cap TurnStarts)
  BY <1>2, FS_Subset
<1> QED BY <1>2, <1>3, FS_CardinalityType DEF TurnsIn

\* A bound keeps the last event and adds none.
LEMMA Bounded ==
  ASSUME NEW n \in Nat, NEW W, W \subseteq 1 .. n, NEW policy
  PROVE  /\ BoundLatest(W, policy) \subseteq W
         /\ LastSeq(BoundLatest(W, policy)) = LastSeq(W)
<1>1. BoundLatest(W, policy) \subseteq W
  BY DEF BoundLatest
<1>2. CASE W = {}
  BY <1>1, <1>2
<1>3. CASE W # {}
  <2>1. LastSeq(W) \in W /\ \A s \in W : s <= LastSeq(W)
    BY <1>3, LastOf
  <2>2. LastSeq(W) \in BoundLatest(W, policy)
    BY <2>1 DEF BoundLatest
  <2> QED BY <1>1, <2>1, <2>2, LastIs
<1> QED BY <1>1, <1>2, <1>3

Policies == [turns : Nat, events : Nat]

\* An event that a bound keeps of one window, it or a wider bound keeps of any
\* window that has fewer events from it on and ends with the same event or later...
LEMMA KeptOf ==
  ASSUME NEW n \in Nat, NEW V, V \subseteq 1 .. n, NEW W, W \subseteq 1 .. n,
         NEW P \in Policies, NEW Q \in Policies, P.turns <= Q.turns, P.events <= Q.events,
         NEW s \in W, s \in BoundLatest(V, P), From(W, s) \subseteq V
  PROVE  s \in BoundLatest(W, Q)
<1>1. From(W, s) \subseteq From(V, s) /\ From(W, s + 1) \subseteq From(V, s + 1)
  <2>1. \A t \in W : t >= s + 1 => t >= s
    OBVIOUS
  <2> QED BY <2>1 DEF From
<1>2. From(V, s) \subseteq 1 .. n /\ From(V, s + 1) \subseteq 1 .. n
  BY DEF From
<1>3. CASE s = LastSeq(V)
  <2>1. \A t \in W : t <= s
    <3>1. \A t \in W : t >= s => t \in V
      BY DEF From
    <3>2. \A t \in V : t <= s
      BY <1>3, LastOf
    <3> QED BY <3>1, <3>2
  <2>2. s = LastSeq(W)
    BY <2>1, LastIs
  <2> QED BY <2>2 DEF BoundLatest
<1>4. CASE Fits(From(V, s), P) /\ TurnsIn(From(V, s + 1)) < P.turns
  <2>1. /\ Cardinality(From(W, s)) \in Nat /\ Cardinality(From(V, s)) \in Nat
        /\ TurnsIn(From(W, s)) \in Nat /\ TurnsIn(From(V, s)) \in Nat
        /\ Cardinality(From(W, s)) <= Cardinality(From(V, s))
        /\ TurnsIn(From(W, s)) <= TurnsIn(From(V, s))
    BY <1>1, <1>2, CountOf
  <2>2. /\ TurnsIn(From(W, s + 1)) \in Nat /\ TurnsIn(From(V, s + 1)) \in Nat
        /\ TurnsIn(From(W, s + 1)) <= TurnsIn(From(V, s + 1))
    BY <1>1, <1>2, CountOf
  <2>3. Fits(From(W, s), Q) /\ TurnsIn(From(W, s + 1)) < Q.turns
    BY <1>4, <2>1, <2>2 DEF Fits, Policies
  <2> QED BY <2>3 DEF BoundLatest
<1> QED BY <1>3, <1>4 DEF BoundLatest

\* The beginning of a stretch of the log has no hole.
LEMMA OldestIsClosed ==
  ASSUME NEW f \in Nat, NEW at \in Nat, NEW policy \in Policies,
         NEW t \in BoundOldest((f + 1) .. at, policy), NEW s \in (f + 1) .. at, s <= t
  PROVE  s \in BoundOldest((f + 1) .. at, policy)
<1> DEFINE W == (f + 1) .. at
<1>1. t \in W /\ W \subseteq 1 .. at
  BY DEF BoundOldest
<1>2. FirstSeq(W) \in W /\ \A u \in W : FirstSeq(W) <= u
  <2>1. f + 1 \in W /\ \A u \in W : f + 1 <= u
    BY <1>1
  <2> QED BY <2>1 DEF FirstSeq
<1>3. CASE t = FirstSeq(W)
  <2>1. s = t
    BY <1>1, <1>2, <1>3
  <2> QED BY <2>1
<1>4. CASE Fits(UpTo(W, t), policy)
  <2>1. UpTo(W, s) \subseteq UpTo(W, t) /\ UpTo(W, t) \subseteq 1 .. at
    BY <1>1 DEF UpTo
  <2>2. /\ Cardinality(UpTo(W, s)) \in Nat /\ Cardinality(UpTo(W, t)) \in Nat
        /\ TurnsIn(UpTo(W, s)) \in Nat /\ TurnsIn(UpTo(W, t)) \in Nat
        /\ Cardinality(UpTo(W, s)) <= Cardinality(UpTo(W, t))
        /\ TurnsIn(UpTo(W, s)) <= TurnsIn(UpTo(W, t))
    BY <2>1, CountOf
  <2>3. Fits(UpTo(W, s), policy)
    BY <1>4, <2>2 DEF Fits, Policies
  <2> QED BY <2>3 DEF BoundOldest
<1> QED BY <1>3, <1>4 DEF BoundOldest

-----------------------------------------------------------------------------
(* The end of the log that every window keeps. *)

\* The least of three limits is none of more than they are.
LEMMA LeastOf ==
  ASSUME NEW a \in Nat, NEW b \in Nat, NEW c \in Nat
  PROVE  LET n == Least({a, b, c}) IN n \in Nat /\ n <= a /\ n <= b /\ n <= c
<1>1. {a, b, c} \subseteq Nat /\ {a, b, c} # {}
  OBVIOUS
<1>2. \E n \in {a, b, c} : \A m \in {a, b, c} : n <= m
  BY <1>1, Earliest
<1>3. Least({a, b, c}) \in {a, b, c} /\ \A m \in {a, b, c} : Least({a, b, c}) <= m
  BY <1>2 DEF Least
<1> QED BY <1>3

Keepers == {Page, Live, Cached}

\* What is kept is kept by a page of history, by the page's tail and by storage.
LEMMA KeptFits ==
  /\ Kept \in Policies
  /\ \A Q \in Keepers : Q \in Policies /\ Kept.turns <= Q.turns /\ Kept.events <= Q.events
<1>1. Page \in Policies /\ Live \in Policies /\ Cached \in Policies
  BY HistoryAssumption DEF Policies
<1>2. \A Q \in Policies : Q.turns \in Nat /\ Q.events \in Nat
  BY DEF Policies
<1>3. LET n == Least({Page.turns, Live.turns, Cached.turns})
      IN n \in Nat /\ n <= Page.turns /\ n <= Live.turns /\ n <= Cached.turns
  BY <1>1, <1>2, LeastOf
<1>4. LET n == Least({Page.events, Live.events, Cached.events})
      IN n \in Nat /\ n <= Page.events /\ n <= Live.events /\ n <= Cached.events
  BY <1>1, <1>2, LeastOf
<1> QED BY <1>1, <1>3, <1>4 DEF Kept, Keepers, Policies

\* What is kept of the log is part of it.
LEMMA LatestIs ==
  ASSUME NEW n \in Nat
  PROVE  Latest(n) \subseteq 1 .. n
BY DEF Latest, BoundLatest

\* What is kept of a longer log, a shorter one keeps as far as it goes.
LEMMA LatestEarlier ==
  ASSUME NEW m \in Nat, NEW n \in 0 .. m, NEW s \in Latest(m), s <= n
  PROVE  s \in Latest(n)
<1>1. s \in 1 .. n
  BY LatestIs
<1>2. 1 .. n \subseteq 1 .. m
  BY Longer
<1>3. From(1 .. n, s) \subseteq 1 .. m
  BY <1>2 DEF From
<1>4. Kept \in Policies /\ Kept.turns <= Kept.turns /\ Kept.events <= Kept.events
  BY KeptFits DEF Policies
<1>5. s \in BoundLatest(1 .. m, Kept)
  BY DEF Latest
<1>6. s \in BoundLatest(1 .. n, Kept)
  BY <1>1, <1>2, <1>3, <1>4, <1>5, KeptOf
<1> QED BY <1>6 DEF Latest

\* What is kept of the log, the bound of a window keeps if the window has it.
LEMMA LatestBounded ==
  ASSUME NEW n \in Nat, NEW W, W \subseteq 1 .. n, NEW Q \in Keepers,
         NEW s \in Latest(LastSeq(W)), s \in W
  PROVE  s \in BoundLatest(W, Q)
<1>1. LastSeq(W) \in 0 .. n /\ W \subseteq 1 .. LastSeq(W)
  BY LastOf
<1>2. 1 .. LastSeq(W) \subseteq 1 .. n
  BY <1>1, Longer
<1>3. From(W, s) \subseteq 1 .. LastSeq(W)
  BY <1>1 DEF From
<1>4. s \in BoundLatest(1 .. LastSeq(W), Kept)
  BY DEF Latest
<1>5. Kept \in Policies /\ Q \in Policies /\ Kept.turns <= Q.turns /\ Kept.events <= Q.events
  BY KeptFits
<1> DEFINE V == 1 .. LastSeq(W)
<1> HIDE DEF V
<1>6. V \subseteq 1 .. n /\ From(W, s) \subseteq V /\ s \in BoundLatest(V, Kept)
  BY <1>2, <1>3, <1>4 DEF V
<1> QED BY <1>5, <1>6, KeptOf

\* A page of the end of the log holds what is kept of it, and ends with it.
LEMMA PageHolds ==
  ASSUME NEW a \in Nat
  PROVE  Latest(a) \subseteq TailPage(a) /\ TailPage(a) \subseteq 1 .. a /\ LastSeq(TailPage(a)) = a
<1>1. \A s \in Latest(a) : s \in BoundLatest(1 .. a, Page)
  BY LatestBounded, LatestIs, LastOfLog DEF Keepers
<1> QED BY <1>1, Bounded, LastOfLog DEF TailPage

-----------------------------------------------------------------------------
(* Windows that have no hole after an event. *)

\* So is the bound of one.
LEMMA WholeBounded ==
  ASSUME NEW n \in Nat, NEW W, W \subseteq 1 .. n, NEW Q \in Keepers, NEW a, Whole(a, W)
  PROVE  Whole(a, BoundLatest(W, Q))
BY Bounded, LatestBounded DEF Whole

\* So are two of them together.
LEMMA WholeBoth ==
  ASSUME NEW n \in Nat, NEW V, V \subseteq 1 .. n, NEW W, W \subseteq 1 .. n,
         NEW a, Whole(a, V), Whole(a, W)
  PROVE  Whole(a, V \cup W)
<1>0. LastSeq(V \cup W) = Max2(LastSeq(V), LastSeq(W))
  <2>1. V \in SUBSET (1 .. n) /\ W \in SUBSET (1 .. n)
    OBVIOUS
  <2> QED BY <2>1, LastOfBoth
<1>1. LastSeq(V \cup W) = LastSeq(V) \/ LastSeq(V \cup W) = LastSeq(W)
  BY <1>0 DEF Max2
<1> QED BY <1>1 DEF Whole

\* So is one to which events before its end are added.
LEMMA WholeWith ==
  ASSUME NEW n \in Nat, NEW W, W \subseteq 1 .. n, NEW V, V \subseteq 1 .. LastSeq(W),
         NEW a, Whole(a, W)
  PROVE  Whole(a, W \cup V) /\ LastSeq(W \cup V) = LastSeq(W)
<1>1. LastSeq(W) \in 0 .. n
  BY LastOf
<1>2. LastSeq(V) \in 0 .. LastSeq(W)
  <2>1. LastSeq(W) \in Nat
    BY <1>1
  <2> QED BY <2>1, LastOf
<1>3. V \subseteq 1 .. n
  BY <1>1, Longer
<1>4. LastSeq(W \cup V) = Max2(LastSeq(W), LastSeq(V))
  <2>1. V \in SUBSET (1 .. n) /\ W \in SUBSET (1 .. n)
    BY <1>3
  <2> QED BY <2>1, LastOfBoth
<1>5. LastSeq(W \cup V) = LastSeq(W)
  BY <1>1, <1>2, <1>4 DEF Max2
<1> QED BY <1>5 DEF Whole

\* A page of the end of the log has no hole at all.
LEMMA WholePage ==
  ASSUME NEW b \in Nat, NEW a
  PROVE  Whole(a, TailPage(b))
BY PageHolds DEF Whole

\* A window that has no hole after an event, and holds what a page up to that
\* event does, has none at all.
LEMMA WholeFilled ==
  ASSUME NEW n \in Nat, NEW W, W \subseteq 1 .. n, NEW a \in 0 .. n, Whole(a, W),
         TailPage(a) \subseteq W
  PROVE  Whole(0, W) /\ a <= LastSeq(W)
<1>1. LastSeq(W) \in 0 .. n
  BY LastOf
<1>2. a <= LastSeq(W)
  <2>1. LastSeq(TailPage(a)) = a
    BY PageHolds
  <2> QED BY <2>1, LastGrows
<1>3. \A s \in Latest(LastSeq(W)) : s <= a => s \in W
  BY <1>1, <1>2, LatestEarlier, PageHolds
<1>4. \A s \in Latest(LastSeq(W)) : s \in Nat
  BY <1>1, LatestIs
<1> QED BY <1>2, <1>3, <1>4 DEF Whole

\* What no answer holds after its own end does not make a hole.
LEMMA WholeJoined ==
  ASSUME NEW n \in Nat, NEW W, W \subseteq 1 .. n, NEW b \in 0 .. n, NEW a, Whole(a, W)
  PROVE  LET norm == TailPage(b) \cup {e \in W : e > b}
         IN  /\ norm \subseteq 1 .. n /\ TailPage(b) \subseteq norm
             /\ Whole(a, norm) /\ LastSeq(norm) = Max2(b, LastSeq(W))
<1> DEFINE R == {e \in W : e > b}
           norm == TailPage(b) \cup R
<1>1. /\ TailPage(b) \subseteq 1 .. n /\ R \subseteq 1 .. n /\ norm \subseteq 1 .. n
      /\ LastSeq(TailPage(b)) = b
  <2>1. b \in Nat /\ 1 .. b \subseteq 1 .. n
    BY Longer
  <2> QED BY <2>1, PageHolds
<1>2. LastSeq(W) \in 0 .. n /\ LastSeq(R) \in 0 .. n
  BY <1>1, LastOf
<1>3. CASE LastSeq(W) > b
  <2>1. LastSeq(W) \in R
    <3>1. LastSeq(W) # 0
      BY <1>2, <1>3
    <3>2. LastSeq(W) \in W
      BY <3>1, LastOf
    <3> QED BY <1>3, <3>2
  <2>2. LastSeq(R) = LastSeq(W)
    <3>1. \A t \in R : t <= LastSeq(W)
      BY LastOf
    <3> QED BY <1>1, <2>1, <3>1, LastIs
  <2>3. LastSeq(norm) = LastSeq(W)
    <3>0. LastSeq(norm) = Max2(LastSeq(TailPage(b)), LastSeq(R))
      <4>1. TailPage(b) \in SUBSET (1 .. n) /\ R \in SUBSET (1 .. n)
        BY <1>1
      <4> HIDE DEF R
      <4> QED BY <4>1, LastOfBoth
    <3>1. LastSeq(norm) = Max2(b, LastSeq(W))
      BY <1>1, <2>2, <3>0
    <3> QED BY <1>2, <1>3, <3>1 DEF Max2
  <2>4. \A s \in Latest(LastSeq(W)) : s <= b => s \in norm
    BY <1>2, <1>3, LatestEarlier, PageHolds
  <2>5. \A s \in Latest(LastSeq(W)) : s \in Nat
    BY <1>2, LatestIs
  <2>6. Whole(a, norm)
    BY <2>3, <2>4, <2>5 DEF Whole
  <2> QED BY <1>1, <1>2, <1>3, <2>3, <2>6 DEF Max2
<1>4. CASE LastSeq(W) <= b
  <2>1. R = {}
    <3>1. ASSUME NEW e \in W PROVE ~ (e > b)
      <4>1. e <= LastSeq(W) /\ e \in 1 .. n
        BY LastOf
      <4> QED BY <1>2, <1>4, <4>1
    <3> QED BY <3>1
  <2>2. norm = TailPage(b)
    BY <2>1
  <2>3. b = Max2(b, LastSeq(W))
    BY <1>2, <1>4 DEF Max2
  <2>4. Whole(a, norm)
    BY <2>2, WholePage
  <2> QED BY <1>1, <2>2, <2>3, <2>4
<1> QED BY <1>2, <1>3, <1>4

\* A window that goes as far as the stream takes its next event without a hole.
LEMMA WholeNext ==
  ASSUME NEW n \in Nat, NEW W, W \subseteq 1 .. n, NEW a \in 0 .. n, Whole(a, W),
         NEW c \in 0 .. (n - 1), c <= Max2(a, LastSeq(W))
  PROVE  /\ Whole(a, W \cup {c + 1})
         /\ LastSeq(W \cup {c + 1}) = Max2(c + 1, LastSeq(W))
<1>1. LastSeq(W) \in 0 .. n
  BY LastOf
<1>2. {c + 1} \subseteq 1 .. n
  OBVIOUS
<1>3. LastSeq({c + 1}) = c + 1
  BY <1>2, LastIs
<1>4. LastSeq(W \cup {c + 1}) = Max2(c + 1, LastSeq(W))
  <2>1. LastSeq(W \cup {c + 1}) = Max2(LastSeq(W), LastSeq({c + 1}))
    <3>1. W \in SUBSET (1 .. n) /\ {c + 1} \in SUBSET (1 .. n)
      BY <1>2
    <3> QED BY <3>1, LastOfBoth
  <2> QED BY <1>1, <1>3, <2>1 DEF Max2
<1>5. CASE LastSeq(W) > c
  BY <1>1, <1>4, <1>5 DEF Max2, Whole
<1>6. CASE LastSeq(W) <= c
  <2>1. LastSeq(W \cup {c + 1}) = c + 1
    BY <1>1, <1>4, <1>6 DEF Max2
  <2>2. ASSUME NEW s \in Latest(c + 1), s > a PROVE s \in W \cup {c + 1}
    <3>1. s \in 1 .. (c + 1)
      BY LatestIs
    <3>2. CASE s # c + 1
      <4>1. s <= LastSeq(W)
        BY <1>1, <3>1, <3>2, <2>2 DEF Max2
      <4>2. s \in Latest(LastSeq(W))
        BY <1>1, <1>6, <4>1, LatestEarlier
      <4> QED BY <2>2, <4>2 DEF Whole
    <3> QED BY <3>2
  <2> QED BY <1>4, <2>1, <2>2 DEF Whole
<1> QED BY <1>1, <1>5, <1>6

\* A page that begins in the window lengthens it without a hole.
LEMMA WholeNewer ==
  ASSUME NEW n \in Nat, NEW W, W \subseteq 1 .. n, NEW f \in 0 .. n, NEW at \in 0 .. n,
         f <= LastSeq(W), NEW a, Whole(a, W)
  PROVE  /\ Whole(a, W \cup PageAfter(f, at)) /\ PageAfter(f, at) \subseteq 1 .. n
         /\ LastSeq(W) <= LastSeq(W \cup PageAfter(f, at))
<1> DEFINE C == PageAfter(f, at)
           L == LastSeq(W \cup C)
<1>1. C \subseteq (f + 1) .. at /\ C \subseteq 1 .. n
  BY DEF PageAfter, BoundOldest
<1>2. L = Max2(LastSeq(W), LastSeq(C)) /\ L \in 0 .. n
      /\ LastSeq(W) \in 0 .. n /\ LastSeq(C) \in 0 .. n
  <2>1. L = Max2(LastSeq(W), LastSeq(C))
    <3>1. W \in SUBSET (1 .. n) /\ C \in SUBSET (1 .. n)
      BY <1>1
    <3> HIDE DEF C
    <3> QED BY <3>1, LastOfBoth
  <2>2. LastSeq(W) \in 0 .. n /\ LastSeq(C) \in 0 .. n
    BY <1>1, LastOf
  <2> QED BY <2>1, <2>2 DEF Max2
<1>3. LastSeq(W) <= L
  BY <1>2 DEF Max2
<1>4. ASSUME NEW s \in Latest(L), s > a PROVE s \in W \cup C
  <2>0. s \in 1 .. L
    BY <1>2, LatestIs
  <2>1. CASE s <= LastSeq(W)
    <3>1. s \in Latest(LastSeq(W))
      BY <1>2, <1>3, <2>1, LatestEarlier
    <3> QED BY <1>4, <3>1 DEF Whole
  <2>2. CASE s > LastSeq(W)
    <3>1. L = LastSeq(C) /\ L # 0
      BY <1>2, <2>0, <2>2 DEF Max2
    <3>2. L \in C
      BY <1>1, <3>1, LastOf
    <3>3. s \in (f + 1) .. at /\ s <= L
      BY <1>1, <1>2, <2>0, <2>2, <3>2
    <3>4. f \in Nat /\ at \in Nat /\ Page \in Policies
      BY KeptFits DEF Keepers
    <3>5. L \in BoundOldest((f + 1) .. at, Page)
      BY <3>2 DEF PageAfter
    <3>6. s \in BoundOldest((f + 1) .. at, Page)
      BY <3>3, <3>4, <3>5, OldestIsClosed
    <3> QED BY <3>6 DEF PageAfter
  <2> QED BY <1>2, <2>0, <2>1, <2>2
<1> QED BY <1>1, <1>3, <1>4 DEF Whole

-----------------------------------------------------------------------------
(* The types of what the actions build. *)

NetsOf(n) == [source : {"off", "waiting", "open"}, cursor : 0 .. n, ready : BOOLEAN,
              reachable : BOOLEAN]
ListsOf(n) == [st : States, at : 0 .. n, resync : BOOLEAN]
StoragesOf(n) == [records : SUBSET (1 .. n), last : 0 .. n]
ReachesOf(n) == [reach : 0 .. n, missed : 0 .. n]

\* The later of two sequence numbers is one, and no earlier than either.
LEMMA MaxType ==
  ASSUME NEW n \in Nat, NEW a \in 0 .. n, NEW b \in 0 .. n
  PROVE  Max2(a, b) \in 0 .. n /\ a <= Max2(a, b) /\ b <= Max2(a, b)
BY DEF Max2

\* A bounded window is one of the log.
LEMMA BoundType ==
  ASSUME NEW n \in Nat, NEW W, W \subseteq 1 .. n, NEW policy
  PROVE  /\ BoundLatest(W, policy) \subseteq 1 .. n /\ BoundOldest(W, policy) \subseteq 1 .. n
         /\ LastSeq(W) \in 0 .. n
BY LastOf DEF BoundLatest, BoundOldest

\* A page of history holds events that the server has.
LEMMA PageType ==
  ASSUME NEW n \in Nat, NEW a \in 0 .. n, NEW b \in 0 .. n, NEW t
  PROVE  /\ TailPage(a) \subseteq 1 .. n /\ PageAround(t, a) \subseteq 1 .. a
         /\ PageAround(t, a) \subseteq 1 .. n
         /\ PageBefore(a) \subseteq 1 .. n /\ PageAfter(b, a) \subseteq 1 .. n
<1>1. 1 .. a \subseteq 1 .. n
  BY Longer
<1>2. (b + 1) .. a \subseteq 1 .. n
  OBVIOUS
<1>3. 1 .. (a - 1) \subseteq 1 .. n
  OBVIOUS
<1> QED BY <1>1, <1>2, <1>3
        DEF TailPage, PageAround, PageBefore, PageAfter, BoundLatest, BoundOldest

\* Requests that are forgotten, made, joined or made stale are requests.
LEMMA RequestType ==
  ASSUME NEW n \in Nat
  PROVE  /\ Idle \in RequestsOf(n) /\ NoPage \in PagesOf(n)
         /\ \A keep \in BOOLEAN : Sent(keep) \in RequestsOf(n)
         /\ \A r \in RequestsOf(n), keep \in BOOLEAN : [r EXCEPT !.keep = keep] \in RequestsOf(n)
         /\ \A r \in RequestsOf(n) : [r EXCEPT !.fresh = FALSE] \in RequestsOf(n)
<1>1. 0 \in 0 .. n
  OBVIOUS
<1>2. Idle \in RequestsOf(n) /\ \A keep \in BOOLEAN : Sent(keep) \in RequestsOf(n)
  BY <1>1 DEF Idle, Sent, RequestsOf, States
<1>3. NoPage \in PagesOf(n)
  BY <1>1 DEF NoPage, PagesOf, States
<1>4. \A r \in RequestsOf(n), keep \in BOOLEAN : [r EXCEPT !.keep = keep] \in RequestsOf(n)
  BY DEF RequestsOf
<1>5. \A r \in RequestsOf(n) : [r EXCEPT !.fresh = FALSE] \in RequestsOf(n)
  BY DEF RequestsOf
<1> QED BY <1>2, <1>3, <1>4, <1>5

\* An answered request is one, of the log as it is.
LEMMA AnsweredType ==
  ASSUME NEW r \in RequestsOf(log), log \in Nat
  PROVE  /\ Answered(r) \in RequestsOf(log)
         /\ Answered(r).st = "answered" /\ Answered(r).at = log
         /\ Answered(r).fresh = r.fresh
<1>1. log \in 0 .. log /\ "answered" \in States
  BY DEF States
<1> QED BY <1>1 DEF Answered, RequestsOf

\* Storage takes the events that are put and loses none.
LEMMA PutType ==
  ASSUME NEW n \in Nat, NEW d \in StoragesOf(n), NEW events \in SUBSET (1 .. n),
         NEW last \in 0 .. n
  PROVE  /\ Put(d, events, last) \in StoragesOf(n)
         /\ Put(d, events, last).records = d.records \cup events
<1>1. LastSeq(events) \in 0 .. n /\ d.last \in 0 .. n
  BY LastOf DEF StoragesOf
<1>2. Max2(d.last, Max2(last, LastSeq(events))) \in 0 .. n
  <2>1. Max2(last, LastSeq(events)) \in 0 .. n
    BY <1>1, MaxType
  <2> QED BY <1>1, <2>1, MaxType
<1> QED BY <1>2 DEF Put, StoragesOf

\* A seeded tail keeps the bound of its events; its cursor is no earlier than
\* the events, nor than it was.
LEMMA SeedType ==
  ASSUME NEW n \in Nat, NEW s \in TailsOf(n), NEW events, events \subseteq 1 .. n,
         NEW last \in 0 .. n, NEW hydrated \in BOOLEAN
  PROVE  LET t == Seed(s, events, last, hydrated)
         IN  /\ t \in TailsOf(n)
             /\ t.present /\ t.events = BoundLatest(events, Live) /\ t.hydrated = hydrated
             /\ s.cursor <= t.cursor /\ LastSeq(events) <= t.cursor
<1>1. LastSeq(events) \in 0 .. n /\ s.cursor \in 0 .. n
  BY LastOf DEF TailsOf
<1>2. /\ Max2(last, LastSeq(events)) \in 0 .. n
      /\ LastSeq(events) <= Max2(last, LastSeq(events))
  BY <1>1, MaxType
<1>3. /\ Max2(s.cursor, Max2(last, LastSeq(events))) \in 0 .. n
      /\ s.cursor <= Max2(s.cursor, Max2(last, LastSeq(events)))
      /\ Max2(last, LastSeq(events)) <= Max2(s.cursor, Max2(last, LastSeq(events)))
  BY <1>1, <1>2, MaxType
<1>4. LastSeq(events) <= Max2(s.cursor, Max2(last, LastSeq(events)))
  BY <1>1, <1>2, <1>3
<1>5. BoundLatest(events, Live) \subseteq 1 .. n
  BY BoundType
<1> QED BY <1>1, <1>3, <1>4, <1>5 DEF Seed, TailsOf

\* A tail takes an event that was delivered and bounds its events again.
LEMMA IngestedType ==
  ASSUME NEW n \in Nat, NEW s \in TailsOf(n), NEW e \in 1 .. n
  PROVE  LET t == Ingested(s, e)
         IN  /\ t \in TailsOf(n) /\ t.present /\ t.cursor = e /\ t.hydrated = s.hydrated
             /\ t.events = BoundLatest(s.events \cup {e}, Live)
<1>1. s.events \cup {e} \subseteq 1 .. n
  BY DEF TailsOf
<1>2. BoundLatest(s.events \cup {e}, Live) \subseteq 1 .. n
  BY <1>1, BoundType
<1>3. e \in 0 .. n
  OBVIOUS
<1> QED BY <1>2, <1>3 DEF Ingested, TailsOf

\* So does the live window of the view; the transcript gains no other event.
LEMMA AppliedType ==
  ASSUME NEW n \in Nat, NEW v \in ViewsOf(n), NEW e \in 1 .. n
  PROVE  LET w == Applied(v, e)
         IN  /\ w \in ViewsOf(n) /\ w.live = BoundLatest(v.live \cup {e}, Live)
             /\ w.selected = v.selected /\ w.hydrated = v.hydrated /\ w.target = v.target
             /\ w.visible \subseteq v.visible \cup {e}
<1>1. v.live \cup {e} \subseteq 1 .. n /\ v.visible \cup {e} \subseteq 1 .. n
      /\ v.durable \in 0 .. n
  BY DEF ViewsOf
<1>2. BoundLatest(v.live \cup {e}, Live) \subseteq 1 .. n
      /\ BoundLatest(v.visible \cup {e}, Resident) \subseteq 1 .. n
  BY <1>1, BoundType
<1>3. BoundLatest(v.visible \cup {e}, Resident) \subseteq v.visible \cup {e}
  BY DEF BoundLatest
<1>4. Max2(v.durable, e) \in 0 .. n
  <2>1. e \in 0 .. n
    OBVIOUS
  <2> QED BY <1>1, <2>1, MaxType
<1> DEFINE v1 == [v EXCEPT !.durable = Max2(@, e), !.live = BoundLatest(@ \cup {e}, Live)]
<1>5. /\ v1 \in ViewsOf(n) /\ v1.live = BoundLatest(v.live \cup {e}, Live)
      /\ v1.selected = v.selected /\ v1.hydrated = v.hydrated /\ v1.target = v.target
      /\ v1.visible = v.visible
  BY <1>2, <1>4 DEF ViewsOf
<1> HIDE DEF v1
<1>6. \A b \in BOOLEAN : LET w == [v1 EXCEPT !.newer = b]
        IN w \in ViewsOf(n) /\ w.live = v1.live /\ w.selected = v1.selected
           /\ w.hydrated = v1.hydrated /\ w.target = v1.target /\ w.visible = v1.visible
  BY <1>5 DEF ViewsOf
<1>7. LET w == [v1 EXCEPT !.visible = BoundLatest(@ \cup {e}, Resident), !.newer = FALSE]
      IN w \in ViewsOf(n) /\ w.live = v1.live /\ w.selected = v1.selected
         /\ w.hydrated = v1.hydrated /\ w.target = v1.target
         /\ w.visible = BoundLatest(v1.visible \cup {e}, Resident)
  BY <1>2, <1>5 DEF ViewsOf
<1>8. Applied(v, e) = IF v.following
        THEN [v1 EXCEPT !.visible = BoundLatest(@ \cup {e}, Resident), !.newer = FALSE]
        ELSE [v1 EXCEPT !.newer = TRUE]
  BY DEF Applied, v1
<1> QED BY <1>3, <1>5, <1>6, <1>7, <1>8

\* A tail joined to the transcript brings only its own events.
LEMMA JoinedType ==
  ASSUME NEW n \in Nat, NEW V \in SUBSET (1 .. n), NEW W \in SUBSET (1 .. n)
  PROVE  Joined(V, W) \subseteq 1 .. n
BY DEF Joined, BoundLatest

\* No session being selected is a state of the view.
LEMMA NoViewType ==
  ASSUME NEW n \in Nat
  PROVE  NoView \in ViewsOf(n) /\ NoTail \in TailsOf(n)
BY DEF NoView, ViewsOf, NoTail, TailsOf

\* A selection paints the page's tail: windows and hydration are the tail's.
LEMMA PaintedType ==
  ASSUME NEW n \in Nat, NEW s \in TailsOf(n), NEW target \in Nat
  PROVE  LET v == Painted(s, target)
         IN  /\ v \in ViewsOf(n) /\ v.selected /\ v.live = s.events /\ v.visible = s.events
             /\ v.hydrated = s.hydrated /\ v.target = target
<1>1. s.events \in SUBSET (1 .. n) /\ s.cursor \in 0 .. n /\ s.present \in BOOLEAN
      /\ s.hydrated \in BOOLEAN /\ 0 \in 0 .. n
  BY DEF TailsOf
<1>2. NoView \in ViewsOf(n)
  BY NoViewType
<1>4. (target = 0) \in BOOLEAN /\ (IF s.present THEN s.cursor ELSE 0) \in 0 .. n
  BY <1>1
<1> DEFINE f == target = 0
           c == IF s.present THEN s.cursor ELSE 0
<1>5. f \in BOOLEAN /\ c \in 0 .. n
  BY <1>4
<1>6. Painted(s, target) =
        [NoView EXCEPT !.selected = TRUE, !.target = target, !.following = f,
           !.loaded = s.present, !.visible = s.events, !.live = s.events,
           !.durable = c, !.hydrated = s.hydrated]
  BY DEF Painted
<1> HIDE DEF f, c
<1>7. LET v == [NoView EXCEPT !.selected = TRUE, !.target = target, !.following = f,
                  !.loaded = s.present, !.visible = s.events, !.live = s.events,
                  !.durable = c, !.hydrated = s.hydrated]
      IN  /\ v \in ViewsOf(n) /\ v.selected /\ v.live = s.events /\ v.visible = s.events
          /\ v.hydrated = s.hydrated /\ v.target = target
  BY <1>1, <1>2, <1>5 DEF ViewsOf
<1> QED BY <1>6, <1>7

\* The fields of the state.
LEMMA Fields ==
  ASSUME TypeOK
  PROVE  /\ log \in Nat
         /\ net.cursor \in 0 .. log /\ net.ready \in BOOLEAN /\ net.reachable \in BOOLEAN
         /\ list.at \in 0 .. log
         /\ \A r \in Requested : r \in RequestsOf(log) /\ r.at \in 0 .. log
                                 /\ r.fresh \in BOOLEAN /\ r.st \in States
         /\ page.from \in 0 .. log /\ page.at \in 0 .. log /\ page.kind \in {"older", "newer"}
         /\ page.st \in States
         /\ store.events \subseteq 1 .. log /\ store.cursor \in 0 .. log
         /\ store.present \in BOOLEAN /\ store.hydrated \in BOOLEAN
         /\ view.live \subseteq 1 .. log /\ view.visible \subseteq 1 .. log
         /\ view.selected \in BOOLEAN /\ view.hydrated \in BOOLEAN /\ view.target \in Nat
         /\ view.durable \in 0 .. log /\ view.hydrating \in BOOLEAN /\ view.newer \in BOOLEAN
         /\ view.following \in BOOLEAN
         /\ db.records \subseteq 1 .. log /\ db.last \in 0 .. log
         /\ seen.reach \in 0 .. log /\ seen.missed \in 0 .. log
         /\ LastSeq(store.events) \in 0 .. log /\ LastSeq(view.live) \in 0 .. log
         /\ LastSeq(view.visible) \in 0 .. log /\ LastSeq(db.records) \in 0 .. log
<1>1. store.events \subseteq 1 .. log /\ store.cursor \in 0 .. log
      /\ store.present \in BOOLEAN /\ store.hydrated \in BOOLEAN
  BY DEF TypeOK, TailsOf
<1>2. /\ view.live \subseteq 1 .. log /\ view.visible \subseteq 1 .. log
      /\ view.selected \in BOOLEAN /\ view.hydrated \in BOOLEAN /\ view.target \in Nat
      /\ view.durable \in 0 .. log /\ view.hydrating \in BOOLEAN /\ view.newer \in BOOLEAN
      /\ view.following \in BOOLEAN
  BY DEF TypeOK, ViewsOf
<1>3. \A r \in Requested : r \in RequestsOf(log) /\ r.at \in 0 .. log
                           /\ r.fresh \in BOOLEAN /\ r.st \in States
  BY DEF TypeOK, RequestsOf
<1>4. page.from \in 0 .. log /\ page.at \in 0 .. log /\ page.kind \in {"older", "newer"}
      /\ page.st \in States
  BY DEF TypeOK, PagesOf
<1>5. /\ log \in Nat /\ net.cursor \in 0 .. log /\ net.ready \in BOOLEAN /\ net.reachable \in BOOLEAN
      /\ list.at \in 0 .. log
      /\ db.records \subseteq 1 .. log /\ db.last \in 0 .. log
      /\ seen.reach \in 0 .. log /\ seen.missed \in 0 .. log
  BY DEF TypeOK
<1> QED BY <1>1, <1>2, <1>3, <1>4, <1>5, LastOf

-----------------------------------------------------------------------------
(* The effect of the view. *)

\* The requests an effect leaves are new, or joined to the one that is remembered.
Joins ==
  /\ {memo', tail', around'} \subseteq RequestsOf(log)
  /\ \A r \in {memo', tail', around'} :
       /\ r.st = "answered" => memo.st = "answered" /\ r.at = memo.at
       /\ r.st # "idle" => r.fresh

\* loadTail leaves the windows alone and is not hydrated until it is answered.
LEMMA LoadTailStep ==
  ASSUME TypeOK, Asking, NEW v \in ViewsOf(log), NEW keep \in BOOLEAN, LoadTail(v, keep)
  PROVE  /\ view' \in ViewsOf(log) /\ view'.selected = v.selected /\ view'.live = v.live
         /\ view'.visible = v.visible /\ view'.target = v.target /\ ~view'.hydrated
         /\ view'.hydrating = v.hydrating
         /\ Joins
<1>1. /\ view' \in ViewsOf(log) /\ view'.selected = v.selected /\ view'.live = v.live
      /\ view'.visible = v.visible /\ view'.target = v.target /\ ~view'.hydrated
      /\ view'.hydrating = v.hydrating
  BY DEF LoadTail, ViewsOf
<1>2. memo \in RequestsOf(log) /\ (memo.st # "idle" => memo.fresh)
  BY DEF TypeOK, Requested, Asking
<1>3. \A k \in BOOLEAN : Sent(k) \in RequestsOf(log) /\ Sent(k).st = "sent" /\ Sent(k).fresh
  BY RequestType DEF Sent, TypeOK
<1>4. Idle \in RequestsOf(log) /\ Idle.st = "idle"
  BY RequestType DEF Idle, TypeOK
<1>5. LET r == [memo EXCEPT !.keep = keep]
      IN r \in RequestsOf(log) /\ r.st = memo.st /\ r.at = memo.at /\ r.fresh = memo.fresh
  BY <1>2 DEF RequestsOf
<1>6. tail' \in RequestsOf(log) /\ (tail'.st # "idle" => tail'.fresh)
      /\ (tail'.st = "answered" => memo.st = "answered" /\ tail'.at = memo.at)
  BY <1>2, <1>3, <1>5 DEF LoadTail
<1>7. memo' \in RequestsOf(log) /\ (memo'.st # "idle" => memo'.fresh)
      /\ (memo'.st = "answered" => memo.st = "answered" /\ memo'.at = memo.at)
  BY <1>2, <1>3 DEF LoadTail
<1>8. around' = Idle
  BY DEF LoadTail
<1> QED BY <1>1, <1>4, <1>6, <1>7, <1>8 DEF Joins

\* An effect that loads nothing forgets the requests of the view.
LEMMA LoadNothingStep ==
  ASSUME TypeOK, Asking, NEW v, LoadNothing(v)
  PROVE  view' = v /\ Joins
<1>1. memo \in RequestsOf(log) /\ (memo.st # "idle" => memo.fresh)
  BY DEF TypeOK, Requested, Asking
<1>2. Idle \in RequestsOf(log) /\ Idle.st = "idle"
  BY RequestType DEF Idle, TypeOK
<1>3. view' = v /\ tail' = Idle /\ around' = Idle /\ memo' = memo
  BY DEF LoadNothing
<1> QED BY <1>1, <1>2, <1>3 DEF Joins

\* loadTarget leaves the windows alone, and hydrated what was hydrated.
LEMMA LoadTargetStep ==
  ASSUME TypeOK, Asking, NEW v \in ViewsOf(log), LoadTarget(v)
  PROVE  /\ view' \in ViewsOf(log) /\ view'.selected = v.selected /\ view'.live = v.live
         /\ view'.visible = v.visible /\ view'.target = v.target
         /\ view'.hydrated = v.hydrated
         /\ Joins
<1>1. /\ view' \in ViewsOf(log) /\ view'.selected = v.selected /\ view'.live = v.live
      /\ view'.visible = v.visible /\ view'.target = v.target
      /\ view'.hydrated = v.hydrated
  BY DEF LoadTarget, ViewsOf
<1>2. memo \in RequestsOf(log) /\ (memo.st # "idle" => memo.fresh)
  BY DEF TypeOK, Requested, Asking
<1>3. Sent(FALSE) \in RequestsOf(log) /\ Sent(FALSE).st = "sent" /\ Sent(FALSE).fresh
  BY RequestType DEF Sent, TypeOK
<1>4. Idle \in RequestsOf(log) /\ Idle.st = "idle"
  BY RequestType DEF Idle, TypeOK
<1>5. around' = Sent(FALSE) /\ tail' = Idle /\ memo' = memo
  BY DEF LoadTarget
<1> QED BY <1>1, <1>2, <1>3, <1>4, <1>5 DEF Joins

\* What an effect does with the state it starts from; a selection it has seen
\* before is not hydrated until its tail is loaded again.
LEMMA StartStep ==
  ASSUME TypeOK, Asking, NEW v \in ViewsOf(log), NEW same \in BOOLEAN, NEW cached \in BOOLEAN,
         Start(v, same, cached)
  PROVE  /\ view' \in ViewsOf(log) /\ view'.selected = v.selected /\ view'.live = v.live
         /\ view'.visible = v.visible /\ view'.target = v.target
         /\ view'.hydrated => v.hydrated
         /\ same /\ CanLoad /\ v.target = 0 => ~view'.hydrated
         /\ Joins
<1>1. CASE v.target > 0 /\ CanLoad /\ v.gotTarget # v.target
  <2>1. LoadTarget(v)
    BY <1>1 DEF Start
  <2>2. v.target # 0
    BY <1>1 DEF ViewsOf
  <2> QED BY <2>1, <2>2, LoadTargetStep
<1>2. CASE ~(v.target > 0 /\ CanLoad /\ v.gotTarget # v.target) /\ same /\ CanLoad
  <2>1. LoadTail(v, TRUE)
    BY <1>2 DEF Start
  <2> QED BY <2>1, LoadTailStep
<1>3. CASE ~(v.target > 0 /\ CanLoad /\ v.gotTarget # v.target) /\ ~(same /\ CanLoad)
  <2>1. LoadNothing(v) \/ LoadNothing([v EXCEPT !.hydrating = TRUE])
    BY <1>3 DEF Start
  <2>2. LET w == [v EXCEPT !.hydrating = TRUE]
        IN /\ w \in ViewsOf(log) /\ w.selected = v.selected /\ w.live = v.live
           /\ w.visible = v.visible /\ w.target = v.target /\ w.hydrated = v.hydrated
    BY DEF ViewsOf
  <2>3. (view' = v \/ view' = [v EXCEPT !.hydrating = TRUE]) /\ Joins
    BY <2>1, LoadNothingStep
  <2> QED BY <1>3, <2>2, <2>3
<1> QED BY <1>1, <1>2, <1>3

\* The effect starts from the view it has, or paints the page's tail.
LEMMA AgainStep ==
  ASSUME TypeOK, Asking, NEW v \in ViewsOf(log), v.selected, Again(v)
  PROVE  /\ view' \in ViewsOf(log) /\ view'.selected /\ view'.target = v.target
         /\ \/ /\ view'.live = v.live /\ view'.visible = v.visible
               /\ view'.hydrated => v.hydrated
               /\ CanLoad /\ v.target = 0 => ~view'.hydrated
            \/ /\ view'.live = store.events /\ view'.visible = store.events
               /\ view'.hydrated => store.hydrated
         /\ Joins
<1>1. CASE v.loaded
  <2> DEFINE w == [v EXCEPT !.hydrating = FALSE, !.error = FALSE]
  <2>1. /\ w \in ViewsOf(log) /\ w.selected = v.selected /\ w.live = v.live
        /\ w.visible = v.visible /\ w.target = v.target /\ w.hydrated = v.hydrated
    BY DEF ViewsOf
  <2>2. Start(w, TRUE, FALSE)
    BY <1>1 DEF Again
  <2> HIDE DEF w
  <2> QED BY <2>1, <2>2, StartStep
<1>2. CASE ~v.loaded
  <2> DEFINE w == Painted(store, v.target)
  <2>1. store \in TailsOf(log) /\ log \in Nat /\ store.present \in BOOLEAN
    BY Fields DEF TypeOK
  <2>2. v.target \in Nat
    BY DEF ViewsOf
  <2>3. w \in ViewsOf(log) /\ w.selected /\ w.live = store.events /\ w.visible = store.events
        /\ w.hydrated = store.hydrated /\ w.target = v.target
    BY <2>1, <2>2, PaintedType
  <2>4. Start(w, FALSE, store.present)
    BY <1>2 DEF Again
  <2> HIDE DEF w
  <2> QED BY <2>1, <2>3, <2>4, StartStep
<1> QED BY <1>1, <1>2

\* What storage gives back, joined to the page's tail.
FromStorage == BoundLatest(BoundLatest(db.records, Cached) \cup store.events, Cached)

\* What hydration does: it paints what storage has, or leaves the windows alone.
LEMMA HydrateStep ==
  ASSUME TypeOK, Asking, Hydrate
  PROVE  /\ view' \in ViewsOf(log) /\ view'.selected = view.selected
         /\ ~view'.hydrating \/ ~CanLoad
         /\ Joins /\ store' \in TailsOf(log)
         /\ FromStorage \subseteq 1 .. log
         /\ \/ /\ view'.live = FromStorage /\ view'.visible = FromStorage /\ ~view'.hydrated
               /\ \E last \in 0 .. log : store' = Seed(store, FromStorage, last, FALSE)
            \/ /\ store' = store /\ view'.live = view.live /\ view'.visible = view.visible
               /\ view'.target = view.target
               /\ view'.hydrated => view.hydrated /\ ~CanLoad
<1> DEFINE W == FromStorage
           last == Max2(db.last, LastSeq(W))
           empty == [view EXCEPT !.hydrating = FALSE]
           painted == [empty EXCEPT !.visible = W, !.live = W, !.durable = last,
                                    !.loaded = TRUE, !.newer = FALSE, !.hydrated = FALSE]
<1>1. /\ log \in Nat /\ store \in TailsOf(log) /\ view \in ViewsOf(log)
      /\ store.present \in BOOLEAN /\ db.last \in 0 .. log
      /\ store.events \subseteq 1 .. log /\ db.records \subseteq 1 .. log
  BY Fields DEF TypeOK
<1>2. W \subseteq 1 .. log
  BY <1>1 DEF BoundLatest, FromStorage
<1>3. last \in 0 .. log
  BY <1>1, <1>2, LastOf, MaxType
<1>4. /\ empty \in ViewsOf(log) /\ empty.selected = view.selected /\ empty.live = view.live
      /\ empty.visible = view.visible /\ empty.target = view.target
      /\ empty.hydrated = view.hydrated /\ ~empty.hydrating
  BY <1>1 DEF ViewsOf
<1> HIDE DEF W, last, empty
<1>5. /\ painted \in ViewsOf(log) /\ painted.selected = view.selected /\ painted.live = W
      /\ painted.visible = W /\ ~painted.hydrated /\ ~painted.hydrating
  BY <1>2, <1>3, <1>4 DEF ViewsOf
<1> HIDE DEF painted
<1>6. CASE db.last > 0
  <2>1. store' = Seed(store, W, last, FALSE)
    BY <1>6 DEF Hydrate, W, last, FromStorage
  <2>2. store' \in TailsOf(log)
    BY <1>1, <1>2, <1>3, <2>1, SeedType
  <2>3. LoadTail(painted, TRUE) \/ LoadNothing(painted)
    BY <1>6 DEF Hydrate, W, last, empty, painted, FromStorage
  <2>4. /\ view' \in ViewsOf(log) /\ view'.selected = view.selected /\ view'.live = W
        /\ view'.visible = W /\ ~view'.hydrated /\ ~view'.hydrating /\ Joins
    <3>1. CASE LoadTail(painted, TRUE)
      BY <1>5, <3>1, LoadTailStep
    <3>2. CASE LoadNothing(painted)
      BY <1>5, <3>2, LoadNothingStep
    <3> QED BY <2>3, <3>1, <3>2
  <2> QED BY <1>2, <1>3, <2>1, <2>2, <2>4 DEF W
<1>7. CASE ~(db.last > 0)
  <2>1. store' = store
    BY <1>7 DEF Hydrate
  <2>2. IF CanLoad THEN LoadTail(empty, store.present) ELSE LoadNothing(empty)
    BY <1>7 DEF Hydrate, empty
  <2>3. /\ view' \in ViewsOf(log) /\ view'.selected = view.selected
        /\ view'.live = view.live /\ view'.visible = view.visible
        /\ view'.target = view.target /\ (view'.hydrated => view.hydrated /\ ~CanLoad)
        /\ ~view'.hydrating /\ Joins
    BY <1>1, <1>4, <2>2, LoadTailStep, LoadNothingStep
  <2> QED BY <1>1, <1>2, <2>1, <2>3 DEF W
<1> QED BY <1>6, <1>7

\* Following a link, or going back to the end.
LEMMA RetargetStep ==
  ASSUME TypeOK, Asking, NEW target \in Targets \cup {0}, Retarget(target)
  PROVE  /\ view' \in ViewsOf(log) /\ view'.selected /\ view'.target = target
         /\ \/ /\ view'.live = view.live /\ view'.visible = view.visible
               /\ view'.hydrated => view.hydrated
               /\ CanLoad /\ target = 0 => ~view'.hydrated
            \/ /\ view'.live = store.events /\ view'.visible = store.events
               /\ view'.hydrated => store.hydrated
         /\ Joins
<1>0. target \in Nat
  BY HistoryAssumption
<1> DEFINE f == target = 0
           v == [view EXCEPT !.target = target, !.gotTarget = 0, !.following = f]
<1>1. target \in Nat /\ view \in ViewsOf(log) /\ f \in BOOLEAN
  <2>2. view \in ViewsOf(log)
    BY DEF TypeOK
  <2>3. f \in BOOLEAN
    OBVIOUS
  <2> QED BY <1>0, <2>2, <2>3
<1>2. Again(v) /\ view.selected
  BY DEF Retarget
<1> HIDE DEF f
<1>3. /\ v \in ViewsOf(log) /\ v.selected = view.selected /\ v.live = view.live
      /\ v.visible = view.visible /\ v.hydrated = view.hydrated /\ v.target = target
  BY <1>1 DEF ViewsOf
<1> HIDE DEF v
<1> QED BY <1>2, <1>3, AgainStep

-----------------------------------------------------------------------------
(* Types. *)

\* The types one by one.
Typed(n) ==
  /\ net \in NetsOf(n) /\ list \in ListsOf(n)
  /\ memo \in RequestsOf(n) /\ tail \in RequestsOf(n) /\ jump \in RequestsOf(n)
  /\ around \in RequestsOf(n) /\ page \in PagesOf(n)
  /\ store \in TailsOf(n) /\ view \in ViewsOf(n) /\ due \in BOOLEAN
  /\ db \in StoragesOf(n) /\ seen \in ReachesOf(n)

\* The types are those of the fields, variable by variable,
LEMMA TypesAre == TypeOK <=> /\ log \in Nat /\ Typed(log)
                             /\ spent \in [{"faults", "visits"} -> Nat]
BY DEF TypeOK, Typed, NetsOf, ListsOf, StoragesOf, ReachesOf, Requested

\* before and after a step.
LEMMA TypesAreNext == TypeOK' <=> /\ log' \in Nat /\ Typed(log)'
                                  /\ spent' \in [{"faults", "visits"} -> Nat]
BY DEF TypeOK, Typed, NetsOf, ListsOf, StoragesOf, ReachesOf, Requested

\* A fault or a visit is counted.
LEMMA SpendType ==
  ASSUME spent \in [{"faults", "visits"} -> Nat], NEW kind \in {"faults", "visits"}, Spend(kind)
  PROVE  spent' \in [{"faults", "visits"} -> Nat]
BY DEF Spend

\* How far an applied answer reaches and what it leaves missing.
LEMMA ServedType ==
  ASSUME TypeOK, NEW r \in Requested, Served(r)
  PROVE  /\ seen' \in ReachesOf(log)
         /\ seen'.reach = Max2(seen.reach, r.at)
         /\ seen'.missed = IF ~r.fresh THEN Max2(seen.missed, net.cursor)
                           ELSE IF r.at >= seen.missed THEN 0 ELSE seen.missed
<1>1. /\ seen.reach \in 0 .. log /\ r.at \in 0 .. log /\ seen.missed \in 0 .. log
      /\ net.cursor \in 0 .. log /\ log \in Nat
  BY Fields
<1>2. Max2(seen.reach, r.at) \in 0 .. log /\ Max2(seen.missed, net.cursor) \in 0 .. log
      /\ 0 \in 0 .. log
  <2>1. Max2(seen.reach, r.at) \in 0 .. log
    BY <1>1, MaxType
  <2>2. Max2(seen.missed, net.cursor) \in 0 .. log
    BY <1>1, MaxType
  <2> QED BY <1>1, <2>1, <2>2
<1> QED BY <1>1, <1>2 DEF Served, ReachesOf

\* What the stream does to the types.
LEMMA StreamTypes ==
  ASSUME TypeOK,
         \/ Deliver \/ Connect \/ StreamError \/ ResyncRequired \/ RetryList
         \/ AnswerList \/ ApplyList \/ FailList
  PROVE  TypeOK'
<1>0. log \in Nat /\ Typed(log) /\ spent \in [{"faults", "visits"} -> Nat] /\ 0 \in 0 .. log
      /\ log \in 0 .. log
  BY TypesAre
<1> USE <1>0 DEF Typed
<1>1. CASE Deliver
  <2> DEFINE e == net.cursor + 1
  <2>0. net.cursor \in 0 .. log /\ net.cursor < log
    BY <1>1 DEF Deliver, NetsOf
  <2>1. e \in 1 .. log /\ e \in 0 .. log
    BY <2>0
  <2>2. net' \in NetsOf(log)
    BY <1>1, <2>1 DEF Deliver, NetsOf
  <2>3. Ingested(store, e) \in TailsOf(log)
    BY <2>1, IngestedType
  <2>4. Applied(view, e) \in ViewsOf(log)
    <3>1. \A v \in ViewsOf(log), d \in 1 .. log : Applied(v, d) \in ViewsOf(log)
      BY AppliedType
    <3> QED BY <2>1, <3>1
  <2>5. {e} \subseteq 1 .. log
    BY <2>1
  <2>6. Put(db, {e}, e) \in StoragesOf(log)
    BY <2>1, <2>5, PutType
  <2>7. [seen EXCEPT !.missed = e] \in ReachesOf(log)
    BY <2>1 DEF ReachesOf
  <2> HIDE DEF e
  <2>8. store' \in TailsOf(log) /\ view' \in ViewsOf(log) /\ db' \in StoragesOf(log)
        /\ seen' \in ReachesOf(log)
    BY <1>1, <2>3, <2>4, <2>6, <2>7 DEF Deliver, e
  <2> QED BY <1>1, <2>2, <2>8, TypesAreNext DEF Deliver, requests
<1>2. CASE Connect
  <2>1. net' \in NetsOf(log) /\ due' \in BOOLEAN
    BY <1>2 DEF Connect, NetsOf
  <2> QED BY <1>2, <2>1, TypesAreNext DEF Connect, requests
<1>3. CASE StreamError
  <2>1. net' \in NetsOf(log)
    BY <1>3 DEF StreamError, NetsOf
  <2> QED BY <1>3, <2>1, TypesAreNext, SpendType DEF StreamError, requests
<1>4. CASE ResyncRequired
  <2>1. net' \in NetsOf(log) /\ list' \in ListsOf(log)
    BY <1>4 DEF ResyncRequired, NetsOf, ListsOf, States
  <2> QED BY <1>4, <2>1, TypesAreNext, SpendType DEF ResyncRequired
<1>5. CASE RetryList
  <2>1. list' \in ListsOf(log)
    BY <1>5 DEF RetryList, ListsOf, States, FirstList
  <2> QED BY <1>5, <2>1, TypesAreNext DEF RetryList
<1>6. CASE AnswerList
  <2>1. list' \in ListsOf(log)
    BY <1>6 DEF AnswerList, ListsOf, States
  <2> QED BY <1>6, <2>1, TypesAreNext DEF AnswerList
<1>7. CASE ApplyList
  <2>0. Max2(net.cursor, list.at) \in 0 .. log
    BY MaxType DEF NetsOf, ListsOf
  <2>1. net' \in NetsOf(log) /\ list' \in ListsOf(log)
    BY <1>7, <2>0 DEF ApplyList, NetsOf, ListsOf, States
  <2>2. store' \in TailsOf(log) /\ memo' \in RequestsOf(log) /\ tail' \in RequestsOf(log)
        /\ jump' \in RequestsOf(log) /\ around' \in RequestsOf(log)
    <3>1. InvalidateTail(store) \in TailsOf(log)
      BY DEF InvalidateTail, TailsOf
    <3>2. Idle \in RequestsOf(log)
          /\ \A r \in RequestsOf(log) : [r EXCEPT !.fresh = FALSE] \in RequestsOf(log)
      BY RequestType
    <3>3. Invalidate \/ UNCHANGED <<store, memo, tail, jump, around>>
      BY <1>7 DEF ApplyList
    <3> QED BY <3>1, <3>2, <3>3 DEF Invalidate
  <2> QED BY <1>7, <2>1, <2>2, TypesAreNext DEF ApplyList
<1>8. CASE FailList
  <2>1. net' \in NetsOf(log) /\ list' \in ListsOf(log)
    BY <1>8 DEF FailList, NetsOf, ListsOf, States
  <2> QED BY <1>8, <2>1, TypesAreNext, SpendType DEF FailList
<1> QED BY <1>1, <1>2, <1>3, <1>4, <1>5, <1>6, <1>7, <1>8

\* What the effect of the view does to them.
LEMMA EffectTypes ==
  ASSUME TypeOK, Asking,
         \/ \E target \in Targets \cup {0} : Select(target) \/ Retarget(target)
         \/ Deselect \/ Rerun \/ Hydrate
  PROVE  TypeOK'
<1>0. log \in Nat /\ Typed(log) /\ spent \in [{"faults", "visits"} -> Nat] /\ 0 \in 0 .. log
      /\ log \in 0 .. log
  BY TypesAre
<1> USE <1>0 DEF Typed
<1>1. ASSUME NEW target \in Targets \cup {0}, Select(target) PROVE TypeOK'
  <2>1. target \in Nat /\ store.present \in BOOLEAN
    BY HistoryAssumption, Fields
  <2>2. Painted(store, target) \in ViewsOf(log)
    BY <2>1, PaintedType
  <2>3. Start(Painted(store, target), FALSE, store.present)
    BY <1>1 DEF Select
  <2>4. view' \in ViewsOf(log) /\ Joins
    BY <2>1, <2>2, <2>3, StartStep
  <2> QED BY <1>1, <2>4, TypesAreNext, SpendType DEF Select, Joins
<1>2. ASSUME NEW target \in Targets \cup {0}, Retarget(target) PROVE TypeOK'
  <2>4. view' \in ViewsOf(log) /\ Joins
    BY <1>2, RetargetStep
  <2> QED BY <1>2, <2>4, TypesAreNext, SpendType DEF Retarget, Joins
<1>3. CASE Deselect
  <2>1. Idle \in RequestsOf(log) /\ NoView \in ViewsOf(log)
    BY RequestType, NoViewType
  <2> QED BY <1>3, <2>1, TypesAreNext, SpendType DEF Deselect
<1>4. CASE Rerun
  <2>1. CASE view.selected
    <3>1. Again(view)
      BY <1>4, <2>1 DEF Rerun
    <3>2. view' \in ViewsOf(log) /\ Joins
      BY <2>1, <3>1, AgainStep
    <3> QED BY <1>4, <3>2, TypesAreNext DEF Rerun, Joins
  <2>2. CASE ~view.selected
    BY <1>4, <2>2, TypesAreNext DEF Rerun
  <2> QED BY <2>1, <2>2
<1>5. CASE Hydrate
  <2>1. /\ \E s \in TailsOf(log) : store' = s
        /\ view' \in ViewsOf(log) /\ Joins
    BY <1>5, HydrateStep
  <2> QED BY <1>5, <2>1, TypesAreNext DEF Hydrate, Joins
<1> QED BY <1>1, <1>2, <1>3, <1>4, <1>5

-----------------------------------------------------------------------------
(* Answers that become the tail. *)

\* The tail an answer makes of N, when storage is left with D: the page's tail
\* and the live window are its bound, and both are marked hydrated.
Becomes(N, D) ==
  /\ \E last \in 0 .. log : store' = Seed(store, BoundLatest(N, Live), last, TRUE)
  /\ view' \in ViewsOf(log) /\ view'.selected = view.selected
  /\ view'.live = BoundLatest(N, Live)
  /\ view'.visible \subseteq view.visible \cup N \cup D
  /\ db' \in StoragesOf(log) /\ db'.records = D

JoinedTail == TailPage(tail.at) \cup {e \in store.events : e > tail.at}
JoinedTarget == TailPage(around.at) \cup store.events
JoinedJump == TailPage(jump.at) \cup {e \in view.live : e > jump.at}

\* The types as the answers need them.
LEMMA Facts ==
  ASSUME TypeOK
  PROVE  /\ log \in Nat /\ Typed(log) /\ spent \in [{"faults", "visits"} -> Nat]
         /\ 0 \in 0 .. log /\ log \in 0 .. log
         /\ store \in TailsOf(log) /\ view \in ViewsOf(log)
         /\ db \in StoragesOf(log)
         /\ \A r \in Requested : r.at \in 0 .. log
BY TypesAre, Fields DEF Typed, TypeOK

\* What storage has after a put that this log allows.
LEMMA Putting ==
  ASSUME TypeOK
  PROVE  \A events \in SUBSET (1 .. log), last \in 0 .. log :
           /\ Put(db, events, last) \in StoragesOf(log)
           /\ Put(db, events, last).records = db.records \cup events
<1> SUFFICES ASSUME NEW events \in SUBSET (1 .. log), NEW last \in 0 .. log
             PROVE  /\ Put(db, events, last) \in StoragesOf(log)
                    /\ Put(db, events, last).records = db.records \cup events
  OBVIOUS
<1>1. log \in Nat /\ db \in StoragesOf(log)
  BY Facts
<1>2. events \subseteq 1 .. log
  OBVIOUS
<1> QED BY <1>1, <1>2, PutType

\* An answered tail becomes the page's: its page, and what the stream has since.
LEMMA ApplyTailStep ==
  ASSUME TypeOK, ApplyTail
  PROVE  /\ Becomes(JoinedTail, db.records \cup JoinedTail)
         /\ JoinedTail \subseteq 1 .. log
<1> DEFINE N == JoinedTail
           H == TailPage(tail.at)
           durable == Max2(view.durable, Max2(tail.at, LastSeq(N)))
           live == BoundLatest(N, Live)
           v == [view EXCEPT !.durable = durable, !.live = live, !.loaded = TRUE,
                             !.hydrated = TRUE]
<1>1. /\ log \in Nat /\ tail.at \in 0 .. log /\ view.durable \in 0 .. log
      /\ store.events \subseteq 1 .. log /\ view.visible \subseteq 1 .. log
      /\ store \in TailsOf(log) /\ view \in ViewsOf(log)
  BY Facts, Fields DEF Requested
<1>2. N \subseteq 1 .. log
  <2>1. H \subseteq 1 .. log
    BY <1>1, PageType
  <2> QED BY <1>1, <2>1 DEF JoinedTail
<1>3. live \subseteq N /\ live \subseteq 1 .. log
  BY <1>2 DEF BoundLatest
<1>4. durable \in 0 .. log
  <2>1. LastSeq(N) \in 0 .. log
    BY <1>1, <1>2, LastOf
  <2>2. Max2(tail.at, LastSeq(N)) \in 0 .. log
    BY <1>1, <2>1, MaxType
  <2> QED BY <1>1, <2>2, MaxType
<1>5. store' = Seed(store, live, durable, TRUE)
  BY DEF ApplyTail, JoinedTail
<1>6. Put(db, N, tail.at) \in StoragesOf(log)
      /\ Put(db, N, tail.at).records = db.records \cup N
  BY <1>1, <1>2, Putting
<1>7. db' = Put(db, N, tail.at)
  BY DEF ApplyTail, JoinedTail
<1> DEFINE overlaps == tail.keep /\ H # {} /\ FirstSeq(H) <= LastSeq(view.visible)
           W == BoundLatest(IF overlaps THEN view.visible \cup N ELSE N, Resident)
<1>8. W \subseteq 1 .. log /\ W \subseteq view.visible \cup N
  BY <1>1, <1>2 DEF BoundLatest
<1>9. view' = IF v.following THEN [v EXCEPT !.visible = W, !.newer = FALSE]
              ELSE [v EXCEPT !.newer = TRUE]
  BY DEF ApplyTail, JoinedTail
<1> HIDE DEF live, durable, W, N
<1>10. /\ v \in ViewsOf(log) /\ v.selected = view.selected /\ v.live = live
       /\ v.visible = view.visible /\ v.hydrated
  BY <1>1, <1>3, <1>4 DEF ViewsOf
<1> HIDE DEF v
<1>11. /\ view' \in ViewsOf(log) /\ view'.selected = view.selected
       /\ view'.live = live
       /\ view'.visible = W \/ view'.visible = view.visible
  BY <1>8, <1>9, <1>10 DEF ViewsOf
<1> QED BY <1>2, <1>4, <1>5, <1>6, <1>7, <1>8, <1>11 DEF Becomes, live, N

\* So does the tail of a link, which is joined to all the page has; storage
\* also takes the page around the event.
LEMMA ApplyTargetStep ==
  ASSUME TypeOK, ApplyTarget
  PROVE  /\ \E A : /\ A \subseteq 1 .. around.at /\ A \subseteq 1 .. log
                   /\ Becomes(JoinedTarget, db.records \cup (A \cup JoinedTarget))
         /\ JoinedTarget \subseteq 1 .. log
<1> DEFINE N == JoinedTarget
           A == PageAround(view.target, around.at)
           durable == Max2(view.durable, Max2(around.at, LastSeq(N)))
           live == BoundLatest(N, Live)
           W == BoundLatest(A, Resident)
           newer == LastSeq(A) < around.at
<1>1. /\ log \in Nat /\ around.at \in 0 .. log /\ view.durable \in 0 .. log
      /\ store.events \subseteq 1 .. log /\ view.target \in Nat
      /\ store \in TailsOf(log) /\ view \in ViewsOf(log)
  BY Facts, Fields DEF Requested
<1>2. N \subseteq 1 .. log
  <2>1. TailPage(around.at) \subseteq 1 .. log
    BY <1>1, PageType
  <2> QED BY <1>1, <2>1 DEF JoinedTarget
<1>3. A \subseteq 1 .. around.at /\ A \subseteq 1 .. log
  BY <1>1, PageType
<1>4. live \subseteq 1 .. log /\ W \subseteq A
  BY <1>2 DEF BoundLatest
<1>5. durable \in 0 .. log
  <2>1. LastSeq(N) \in 0 .. log
    BY <1>1, <1>2, LastOf
  <2>2. Max2(around.at, LastSeq(N)) \in 0 .. log
    BY <1>1, <2>1, MaxType
  <2> QED BY <1>1, <2>2, MaxType
<1>6. store' = Seed(store, live, durable, TRUE)
  BY DEF ApplyTarget, JoinedTarget
<1>7. db' = Put(db, A \cup N, around.at)
  BY DEF ApplyTarget, JoinedTarget
<1>8. /\ db' \in StoragesOf(log) /\ db'.records = db.records \cup (A \cup N)
  <2>1. A \cup N \subseteq 1 .. log
    BY <1>2, <1>3
  <2>3. LET d == Put(db, A \cup N, around.at)
        IN d \in StoragesOf(log) /\ d.records = db.records \cup (A \cup N)
    BY <1>1, <2>1, Putting
  <2> QED BY <1>7, <2>3
<1>9. view' = [view EXCEPT !.live = live, !.visible = W, !.durable = durable,
                 !.newer = newer, !.loaded = TRUE, !.gotTarget = view.target,
                 !.hydrated = TRUE]
  BY DEF ApplyTarget, JoinedTarget
<1>10. newer \in BOOLEAN /\ W \subseteq 1 .. log
  BY <1>3, <1>4
<1> HIDE DEF live, durable, W, N, A, newer
<1>11. /\ view' \in ViewsOf(log) /\ view'.selected = view.selected
       /\ view'.live = live /\ view'.visible = W
  BY <1>1, <1>4, <1>5, <1>9, <1>10 DEF ViewsOf
<1>12. Becomes(N, db.records \cup (A \cup N))
  BY <1>4, <1>5, <1>6, <1>8, <1>11 DEF Becomes, live
<1> QED BY <1>2, <1>3, <1>12 DEF N

\* So does the tail of jumpToLatest, joined to the live window of the view.
LEMMA ApplyJumpStep ==
  ASSUME TypeOK, ApplyJump, view.selected
  PROVE  /\ Becomes(JoinedJump, db.records \cup TailPage(jump.at))
         /\ JoinedJump \subseteq 1 .. log
         /\ Served(jump)
<1> DEFINE N == JoinedJump
           H == TailPage(jump.at)
           durable == Max2(view.durable, Max2(jump.at, LastSeq(H)))
           live == BoundLatest(N, Live)
           W == Joined(view.visible, N)
<1>1. /\ log \in Nat /\ jump.at \in 0 .. log /\ view.durable \in 0 .. log
      /\ view.live \subseteq 1 .. log /\ view.visible \subseteq 1 .. log
      /\ store \in TailsOf(log) /\ view \in ViewsOf(log)
  BY Facts, Fields DEF Requested
<1>2. H \subseteq 1 .. log /\ N \subseteq 1 .. log
  <2>1. H \subseteq 1 .. log
    BY <1>1, PageType
  <2> QED BY <1>1, <2>1 DEF JoinedJump
<1>3. live \subseteq 1 .. log /\ W \subseteq view.visible \cup N
  BY <1>2 DEF BoundLatest, Joined
<1>4. durable \in 0 .. log
  <2>1. LastSeq(H) \in 0 .. log
    BY <1>1, <1>2, LastOf
  <2>2. Max2(jump.at, LastSeq(H)) \in 0 .. log
    BY <1>1, <2>1, MaxType
  <2> QED BY <1>1, <2>2, MaxType
<1>5. /\ store' = Seed(store, live, durable, TRUE) /\ db' = Put(db, H, jump.at)
      /\ view' = [view EXCEPT !.live = live, !.hydrated = TRUE, !.durable = durable,
                              !.visible = W]
      /\ Served(jump)
  BY DEF ApplyJump, JoinedJump
<1>6. /\ db' \in StoragesOf(log) /\ db'.records = db.records \cup H
  <2>1. db \in StoragesOf(log)
    BY Facts
  <2> QED BY <1>1, <1>2, <1>5, <2>1, PutType
<1>7. W \subseteq 1 .. log
  BY <1>1, <1>2, <1>3
<1> HIDE DEF live, durable, W, N
<1>8. /\ view' \in ViewsOf(log) /\ view'.selected
      /\ view'.live = live /\ view'.visible = W
  BY <1>1, <1>3, <1>4, <1>5, <1>7 DEF ViewsOf
<1> QED BY <1>2, <1>3, <1>4, <1>5, <1>6, <1>8 DEF Becomes, live, N

\* What the answers of the view's requests do to the types.
LEMMA AnswerTypes ==
  ASSUME TypeOK,
         \/ ApplyTail \/ ApplyTarget \/ ApplyJump \/ AnswerTail \/ AnswerMemo
         \/ ExpireMemo \/ AnswerTarget \/ AnswerJump
         \/ \E network \in BOOLEAN : FailRequest(network)
  PROVE  TypeOK'
<1>0. log \in Nat /\ Typed(log) /\ spent \in [{"faults", "visits"} -> Nat] /\ log \in 0 .. log
  BY TypesAre
<1>a. Idle \in RequestsOf(log)
      /\ \A r \in RequestsOf(log) : Answered(r) \in RequestsOf(log)
  BY <1>0, RequestType, AnsweredType
<1>b. \A N, D : N \subseteq 1 .. log /\ Becomes(N, D) =>
        store' \in TailsOf(log) /\ view' \in ViewsOf(log) /\ db' \in StoragesOf(log)
  <2> SUFFICES ASSUME NEW N, NEW D, N \subseteq 1 .. log, Becomes(N, D)
               PROVE  store' \in TailsOf(log) /\ view' \in ViewsOf(log) /\ db' \in StoragesOf(log)
    OBVIOUS
  <2>1. BoundLatest(N, Live) \subseteq 1 .. log
    BY DEF BoundLatest
  <2>2. PICK last \in 0 .. log : store' = Seed(store, BoundLatest(N, Live), last, TRUE)
    BY DEF Becomes
  <2>3. store \in TailsOf(log)
    BY <1>0 DEF Typed
  <2> QED BY <1>0, <2>1, <2>2, <2>3, SeedType DEF Becomes
<1> USE <1>0 DEF Typed
<1>1. CASE ApplyTail
  <2>1. store' \in TailsOf(log) /\ view' \in ViewsOf(log) /\ db' \in StoragesOf(log)
    BY <1>1, <1>b, ApplyTailStep
  <2>2. seen' \in ReachesOf(log)
    BY <1>1, ServedType DEF ApplyTail, Requested
  <2> QED BY <1>1, <1>a, <2>1, <2>2, TypesAreNext DEF ApplyTail
<1>2. CASE ApplyTarget
  <2>1. store' \in TailsOf(log) /\ view' \in ViewsOf(log) /\ db' \in StoragesOf(log)
    BY <1>2, <1>b, ApplyTargetStep
  <2>2. seen' \in ReachesOf(log)
    BY <1>2, ServedType DEF ApplyTarget, Requested
  <2> QED BY <1>2, <1>a, <2>1, <2>2, TypesAreNext DEF ApplyTarget
<1>3. CASE ApplyJump
  <2>1. CASE view.selected
    <3>1. store' \in TailsOf(log) /\ view' \in ViewsOf(log) /\ db' \in StoragesOf(log)
      BY <1>3, <1>b, <2>1, ApplyJumpStep
    <3>2. seen' \in ReachesOf(log)
      BY <1>3, <2>1, ApplyJumpStep, ServedType DEF Requested
    <3> QED BY <1>3, <1>a, <3>1, <3>2, TypesAreNext DEF ApplyJump
  <2>2. CASE ~view.selected
    BY <1>3, <1>a, <2>2, TypesAreNext DEF ApplyJump
  <2> QED BY <2>1, <2>2
<1>4. CASE AnswerTail
  BY <1>4, <1>a, TypesAreNext DEF AnswerTail
<1>5. CASE AnswerMemo
  BY <1>5, <1>a, TypesAreNext DEF AnswerMemo
<1>6. CASE ExpireMemo
  BY <1>6, <1>a, TypesAreNext DEF ExpireMemo
<1>7. CASE AnswerTarget
  BY <1>7, <1>a, TypesAreNext DEF AnswerTarget
<1>8. CASE AnswerJump
  BY <1>8, <1>a, TypesAreNext DEF AnswerJump
<1>9. ASSUME NEW network \in BOOLEAN, FailRequest(network) PROVE TypeOK'
  <2>1. net' \in NetsOf(log) /\ due' \in BOOLEAN
    BY <1>9 DEF FailRequest, NetsOf
  <2>2. view' \in ViewsOf(log)
    BY <1>9 DEF FailRequest, ViewsOf
  <2>3. memo' \in RequestsOf(log) /\ tail' \in RequestsOf(log) /\ jump' \in RequestsOf(log)
        /\ around' \in RequestsOf(log)
    BY <1>9, <1>a DEF FailRequest
  <2> QED BY <1>9, <2>1, <2>2, <2>3, TypesAreNext, SpendType DEF FailRequest
<1> QED BY <1>1, <1>2, <1>3, <1>4, <1>5, <1>6, <1>7, <1>8, <1>9

\* What an extended transcript is.
LEMMA ExtendedType ==
  ASSUME NEW n \in Nat, NEW v \in ViewsOf(n), NEW W, W \subseteq 1 .. n
  PROVE  LET w == Extended(v, W)
         IN  /\ w \in ViewsOf(n) /\ w.selected = v.selected /\ w.live = v.live
             /\ w.hydrated = v.hydrated /\ w.target = v.target /\ w.visible \subseteq W
<1> DEFINE O == BoundOldest(W, Resident)
           b == v.newer \/ O # W
<1>1. O \subseteq 1 .. n /\ O \subseteq W
  BY DEF BoundOldest
<1>2. b \in BOOLEAN
  BY DEF ViewsOf
<1>3. Extended(v, W) = [v EXCEPT !.visible = O, !.newer = b]
  BY DEF Extended
<1> HIDE DEF O, b
<1>4. LET w == [v EXCEPT !.visible = O, !.newer = b]
      IN  /\ w \in ViewsOf(n) /\ w.selected = v.selected /\ w.live = v.live
          /\ w.hydrated = v.hydrated /\ w.target = v.target /\ w.visible = O
  BY <1>1, <1>2 DEF ViewsOf
<1> QED BY <1>1, <1>3, <1>4

\* Reading pages: the transcript is extended by what storage or the server has.
LEMMA LoadOlderStep ==
  ASSUME TypeOK, LoadOlder
  PROVE  /\ view' \in ViewsOf(log) /\ page' \in PagesOf(log)
         /\ view'.selected = view.selected /\ view'.live = view.live
         /\ view'.hydrated = view.hydrated /\ view'.target = view.target
         /\ view'.visible \subseteq view.visible \cup db.records
         /\ page' = page \/ (page'.st = "sent" /\ page'.kind = "older" /\ page'.from > 0)
<1> DEFINE before == FirstSeq(view.visible)
           C == CachedBefore(db, before)
<1>1. log \in Nat /\ view.visible \subseteq 1 .. log /\ db.records \subseteq 1 .. log
      /\ view \in ViewsOf(log) /\ page \in PagesOf(log) /\ 0 \in 0 .. log
  BY Fields DEF TypeOK
<1>2. before > 1
  BY DEF LoadOlder
<1>3. before \in 0 .. log
  <2>1. view.visible # {}
    BY <1>2 DEF FirstSeq
  <2>2. view.visible \subseteq Nat
    BY <1>1
  <2>3. before \in view.visible
    BY <2>1, <2>2, Earliest DEF FirstSeq
  <2> QED BY <1>1, <2>3
<1>4. C \subseteq db.records
  BY DEF CachedBefore, BoundLatest
<1>5. Ask("older", before) \in PagesOf(log) /\ Ask("older", before).st = "sent"
      /\ Ask("older", before).kind = "older" /\ Ask("older", before).from = before
  BY <1>1, <1>3 DEF Ask, PagesOf, States
<1>6. LET w == Extended(view, view.visible \cup C)
      IN  /\ w \in ViewsOf(log) /\ w.selected = view.selected /\ w.live = view.live
          /\ w.hydrated = view.hydrated /\ w.target = view.target
          /\ w.visible \subseteq view.visible \cup C
  <2>1. view.visible \cup C \subseteq 1 .. log
    BY <1>1, <1>4
  <2> QED BY <1>1, <2>1, ExtendedType
<1>7. \/ view' = Extended(view, view.visible \cup C) /\ page' = page
      \/ page' = Ask("older", before) /\ view' = view
  BY DEF LoadOlder
<1> HIDE DEF before, C
<1>8. CASE view' = Extended(view, view.visible \cup C) /\ page' = page
  BY <1>1, <1>4, <1>6, <1>8
<1>9. CASE page' = Ask("older", before) /\ view' = view
  <2>1. before > 0
    BY <1>2, <1>3
  <2> QED BY <1>1, <1>5, <1>9, <2>1
<1> QED BY <1>7, <1>8, <1>9

\* The page that is applied.
Fetched == IF page.kind = "older" THEN PageBefore(page.from)
           ELSE PageAfter(page.from, page.at)

\* An applied page extends the transcript and what is stored, and no tail.
LEMMA ApplyPageStep ==
  ASSUME TypeOK, ApplyPage, view.selected
  PROVE  /\ view' \in ViewsOf(log) /\ view'.selected = view.selected /\ view'.live = view.live
         /\ view'.hydrated = view.hydrated /\ view'.target = view.target
         /\ view'.visible \subseteq view.visible \cup Fetched
         /\ Fetched \subseteq 1 .. log
         /\ db' \in StoragesOf(log) /\ db'.records = db.records \cup Fetched
<1> DEFINE C == Fetched
           more == LastSeq(C) < page.at
           v == [view EXCEPT !.durable = Max2(@, page.at)]
<1>1. /\ log \in Nat /\ view.visible \subseteq 1 .. log /\ view \in ViewsOf(log)
      /\ page.from \in 0 .. log /\ page.at \in 0 .. log /\ view.durable \in 0 .. log
      /\ db \in StoragesOf(log)
  BY Facts, Fields
<1>2. C \subseteq 1 .. log
  BY <1>1, PageType DEF Fetched
<1>3. Max2(view.durable, page.at) \in 0 .. log
  BY <1>1, MaxType
<1>4. /\ v \in ViewsOf(log) /\ v.selected = view.selected /\ v.live = view.live
      /\ v.hydrated = view.hydrated /\ v.target = view.target /\ v.visible = view.visible
  BY <1>1, <1>3 DEF ViewsOf
<1>5. CASE C = {}
  <2>1. /\ \/ view' = view
           \/ view' = [view EXCEPT !.newer = FALSE, !.following = TRUE]
        /\ db' = db
    BY <1>5 DEF ApplyPage, Fetched
  <2>2. LET w == [view EXCEPT !.newer = FALSE, !.following = TRUE]
        IN  /\ w \in ViewsOf(log) /\ w.selected = view.selected /\ w.live = view.live
            /\ w.hydrated = view.hydrated /\ w.target = view.target /\ w.visible = view.visible
    BY <1>1 DEF ViewsOf
  <2>3. db' \in StoragesOf(log) /\ db'.records = db.records \cup Fetched
    BY <1>1, <1>5, <2>1 DEF StoragesOf
  <2> QED BY <1>1, <1>2, <2>1, <2>2, <2>3
<1>6. CASE C # {}
  <2> DEFINE V == BoundLatest(view.visible \cup C, Resident)
             less == ~more
  <2>1. \/ view' = Extended(v, v.visible \cup C)
        \/ view' = [v EXCEPT !.visible = BoundLatest(v.visible \cup C, Resident),
                             !.newer = more, !.following = ~more]
    BY <1>6 DEF ApplyPage, Fetched
  <2>2. V \subseteq 1 .. log /\ V \subseteq view.visible \cup C
    BY <1>1, <1>2 DEF BoundLatest
  <2>3. more \in BOOLEAN /\ less \in BOOLEAN
    OBVIOUS
  <2>4. db' = Put(db, C, page.at)
    BY <1>6 DEF ApplyPage, Fetched
  <2>5. LET d == Put(db, C, page.at)
        IN d \in StoragesOf(log) /\ d.records = db.records \cup C
    BY <1>1, <1>2, Putting
  <2> HIDE DEF C, v
  <2>6. view' = Extended(v, v.visible \cup C)
        \/ view' = [v EXCEPT !.visible = V, !.newer = more, !.following = less]
    BY <1>4, <2>1
  <2>7. LET w == Extended(v, v.visible \cup C)
        IN  /\ w \in ViewsOf(log) /\ w.selected = v.selected /\ w.live = v.live
            /\ w.hydrated = v.hydrated /\ w.target = v.target
            /\ w.visible \subseteq v.visible \cup C
    <3>1. v.visible \cup C \subseteq 1 .. log
      BY <1>1, <1>2, <1>4
    <3> QED BY <1>1, <1>4, <3>1, ExtendedType
  <2> HIDE DEF V, more, less
  <2>8. LET w == [v EXCEPT !.visible = V, !.newer = more, !.following = less]
        IN  /\ w \in ViewsOf(log) /\ w.selected = v.selected /\ w.live = v.live
            /\ w.hydrated = v.hydrated /\ w.target = v.target /\ w.visible = V
    BY <1>4, <2>2, <2>3 DEF ViewsOf
  <2>9. /\ view' \in ViewsOf(log) /\ view'.selected = view.selected /\ view'.live = view.live
        /\ view'.hydrated = view.hydrated /\ view'.target = view.target
        /\ view'.visible \subseteq view.visible \cup C
    BY <1>4, <2>2, <2>6, <2>7, <2>8
  <2> QED BY <1>2, <2>4, <2>5, <2>9 DEF C
<1> QED BY <1>5, <1>6

\* A longer log is no matter to the types.
LEMMA TypesGrow ==
  ASSUME NEW n \in Nat
  PROVE  /\ NetsOf(n) \subseteq NetsOf(n + 1) /\ ListsOf(n) \subseteq ListsOf(n + 1)
         /\ RequestsOf(n) \subseteq RequestsOf(n + 1) /\ PagesOf(n) \subseteq PagesOf(n + 1)
         /\ TailsOf(n) \subseteq TailsOf(n + 1) /\ ViewsOf(n) \subseteq ViewsOf(n + 1)
         /\ StoragesOf(n) \subseteq StoragesOf(n + 1)
         /\ ReachesOf(n) \subseteq ReachesOf(n + 1)
<1>1. 0 .. n \subseteq 0 .. (n + 1) /\ 1 .. n \subseteq 1 .. (n + 1)
  OBVIOUS
<1>2. NetsOf(n) \subseteq NetsOf(n + 1)
  BY <1>1 DEF NetsOf
<1>3. ListsOf(n) \subseteq ListsOf(n + 1)
  BY <1>1 DEF ListsOf
<1>4. RequestsOf(n) \subseteq RequestsOf(n + 1)
  BY <1>1 DEF RequestsOf
<1>5. PagesOf(n) \subseteq PagesOf(n + 1)
  BY <1>1 DEF PagesOf
<1>6. TailsOf(n) \subseteq TailsOf(n + 1)
  BY <1>1 DEF TailsOf
<1>7. ViewsOf(n) \subseteq ViewsOf(n + 1)
  BY <1>1 DEF ViewsOf
<1>8. StoragesOf(n) \subseteq StoragesOf(n + 1)
  BY <1>1 DEF StoragesOf
<1>9. ReachesOf(n) \subseteq ReachesOf(n + 1)
  BY <1>1 DEF ReachesOf
<1> QED BY <1>2, <1>3, <1>4, <1>5, <1>6, <1>7, <1>8, <1>9

\* What the user's moves, pages and faults do to the types.
LEMMA OtherTypes ==
  ASSUME TypeOK,
         \/ AppendEvent \/ EvictEntry \/ Reload \/ AnswerPage \/ ApplyPage \/ FailPage
         \/ LoadOlder \/ LoadNewer \/ JumpToLatest
         \/ (\E following \in BOOLEAN : SetFollowingTail(following))
         \/ UNCHANGED vars
  PROVE  TypeOK'
<1>0. log \in Nat /\ Typed(log) /\ spent \in [{"faults", "visits"} -> Nat] /\ 0 \in 0 .. log
      /\ log \in 0 .. log
  BY TypesAre
<1>a. Idle \in RequestsOf(log) /\ NoPage \in PagesOf(log) /\ NoView \in ViewsOf(log)
      /\ NoTail \in TailsOf(log) /\ Sent(FALSE) \in RequestsOf(log)
  BY <1>0, RequestType, NoViewType
<1> USE <1>0 DEF Typed
<1>1. CASE AppendEvent
  <2>1. Typed(log + 1)
    BY TypesGrow
  <2>2. log' = log + 1 /\ log + 1 \in Nat
    BY <1>1 DEF AppendEvent
  <2> QED BY <1>1, <2>1, <2>2, TypesAreNext DEF AppendEvent, requests
<1>2. CASE EvictEntry
  <2>1. store' \in TailsOf(log)
    <3>1. store.cursor \in 0 .. log
      BY DEF TailsOf
    <3> QED BY <1>2, <1>a, <3>1 DEF EvictEntry, TailsOf
  <2> QED BY <1>2, <2>1, TypesAreNext, SpendType DEF EvictEntry, requests
<1>3. CASE Reload
  <2>1. OffLine \in NetsOf(log) /\ FirstList \in ListsOf(log)
        /\ [reach |-> 0, missed |-> 0] \in ReachesOf(log)
    BY DEF OffLine, NetsOf, FirstList, ListsOf, ReachesOf, States
  <2> QED BY <1>3, <1>a, <2>1, TypesAreNext, SpendType DEF Reload
<1>4. CASE AnswerPage
  <2>1. page' \in PagesOf(log)
    BY <1>4 DEF AnswerPage, PagesOf, States
  <2> QED BY <1>4, <2>1, TypesAreNext DEF AnswerPage
<1>5. CASE ApplyPage
  <2>1. view' \in ViewsOf(log) /\ db' \in StoragesOf(log)
    <3>1. CASE view.selected
      BY <1>5, <3>1, ApplyPageStep
    <3>2. CASE ~view.selected
      BY <1>5, <3>2 DEF ApplyPage
    <3> QED BY <3>1, <3>2
  <2> QED BY <1>5, <1>a, <2>1, TypesAreNext DEF ApplyPage
<1>6. CASE FailPage
  BY <1>6, <1>a, TypesAreNext, SpendType DEF FailPage
<1>7. CASE LoadOlder
  <2>1. Spend("visits")
    BY <1>7 DEF LoadOlder
  <2> QED BY <1>7, <2>1, LoadOlderStep, TypesAreNext, SpendType DEF LoadOlder
<1>8. CASE LoadNewer
  <2>1. LastSeq(view.visible) \in 0 .. log
    BY Fields
  <2>2. page' \in PagesOf(log)
    BY <1>8, <2>1 DEF LoadNewer, Ask, PagesOf, States
  <2> QED BY <1>8, <2>2, TypesAreNext, SpendType DEF LoadNewer
<1>9. CASE JumpToLatest
  <2>1. view.visible \subseteq 1 .. log /\ view.live \subseteq 1 .. log
    BY Fields
  <2>2. Joined(view.visible, view.live) \subseteq 1 .. log
    BY <2>1, JoinedType
  <2>3. view' \in ViewsOf(log)
    BY <1>9, <2>2 DEF JumpToLatest, ViewsOf
  <2>4. jump' \in RequestsOf(log)
    BY <1>9, <1>a DEF JumpToLatest
  <2> QED BY <1>9, <2>3, <2>4, TypesAreNext, SpendType DEF JumpToLatest
<1>10. ASSUME NEW following \in BOOLEAN, SetFollowingTail(following) PROVE TypeOK'
  <2>1. view' \in ViewsOf(log)
    BY <1>10 DEF SetFollowingTail, ViewsOf
  <2> QED BY <1>10, <2>1, TypesAreNext, SpendType DEF SetFollowingTail, requests
<1>11. CASE UNCHANGED vars
  BY <1>11, TypesAreNext DEF vars
<1> QED BY <1>1, <1>2, <1>3, <1>4, <1>5, <1>6, <1>7, <1>8, <1>9, <1>10, <1>11

\* Every step keeps the types.
LEMMA TypesKept ==
  ASSUME TypeOK, Asking, [Next]_vars
  PROVE  TypeOK'
<1>1. CASE ClientStep
  BY <1>1, StreamTypes, EffectTypes, AnswerTypes, OtherTypes DEF ClientStep
<1>2. CASE UserStep
  BY <1>2, StreamTypes, EffectTypes, AnswerTypes, OtherTypes DEF UserStep
<1>3. CASE FaultStep
  BY <1>3, StreamTypes, EffectTypes, AnswerTypes, OtherTypes DEF FaultStep
<1> QED BY <1>1, <1>2, <1>3, OtherTypes DEF Next

-----------------------------------------------------------------------------
(* Requests. *)

\* Storage loses nothing, so its end does not come back.
LEMMA StorageGrows ==
  ASSUME TypeOK, TypeOK', db.records \subseteq db'.records
  PROVE  LastSeq(db.records) <= LastSeq(db'.records)
<1>1. log' \in Nat /\ db'.records \subseteq 1 .. log'
  BY DEF TypeOK
<1> QED BY <1>1, LastGrows

\* A step that asks for no page and makes no request stale.
LEMMA AskingFrame ==
  ASSUME Asking, TypeOK, TypeOK',
         view'.selected = view.selected, view'.selected \/ view' = view,
         tail' \in {tail, Idle} \/ (tail.st = "sent" /\ tail' = Answered(tail)),
         around' \in {around, Idle} \/ (around.st = "sent" /\ around' = Answered(around)),
         jump' \in {jump, Idle} \/ (jump.st = "sent" /\ jump' = Answered(jump)),
         memo' \in {memo, Idle} \/ (memo.st = "sent" /\ memo' = Answered(memo)),
         net.ready => net'.ready,
         db.records \subseteq db'.records,
         \/ page'.st = "idle"
         \/ /\ page.st # "idle" /\ page'.kind = page.kind /\ page'.from = page.from
  PROVE  Asking'
<1>1. Idle.st = "idle"
  BY DEF Idle
<1>2. \A r \in RequestsOf(log) : Answered(r).fresh = r.fresh
  BY AnsweredType DEF TypeOK
<1>3. tail \in RequestsOf(log) /\ around \in RequestsOf(log) /\ jump \in RequestsOf(log)
      /\ memo \in RequestsOf(log)
  BY DEF TypeOK, Requested
<1>4. (~view.selected => view = NoView /\ tail.st = "idle" /\ around.st = "idle")'
  BY <1>1 DEF Asking
<1>5. (memo.st # "idle" => memo.fresh)'
  BY <1>1, <1>2, <1>3 DEF Asking
<1>6. (tail'.st # "idle" /\ ~tail'.fresh => net'.ready)
      /\ (jump'.st # "idle" /\ ~jump'.fresh => net'.ready)
      /\ (around'.st # "idle" /\ ~around'.fresh => net'.ready)
  BY <1>1, <1>2, <1>3 DEF Asking
<1>7. (page.st # "idle" => IF page.kind = "older" THEN page.from > 0
                           ELSE page.from <= LastSeq(db.records))'
  <2>1. LastSeq(db.records) <= LastSeq(db'.records)
    BY StorageGrows
  <2>2. LastSeq(db.records) \in 0 .. log /\ page.from \in 0 .. log
    BY Fields
  <2>3. LastSeq(db'.records) \in Nat
    <3>1. log' \in Nat /\ db'.records \subseteq 1 .. log'
      BY DEF TypeOK
    <3>2. LastSeq(db'.records) \in 0 .. log'
      BY <3>1, LastOf
    <3> QED BY <3>1, <3>2
  <2>4. log \in Nat
    BY Fields
  <2> QED BY <2>1, <2>2, <2>3, <2>4 DEF Asking
<1> QED BY <1>4, <1>5, <1>6, <1>7 DEF Asking

\* So is one in which the effect of a view runs.
LEMMA AskingJoins ==
  ASSUME Asking, TypeOK, Joins, view'.selected,
         jump' = jump, page' = page, db' = db, net' = net
  PROVE  Asking'
<1>1. \A r \in {memo', tail', around'} : r.st # "idle" => r.fresh
  BY DEF Joins
<1> QED BY <1>1 DEF Asking

\* Every step keeps what is known of the requests.
LEMMA AskingKept ==
  ASSUME TypeOK, Asking, Stored, TypeOK', [Next]_vars
  PROVE  Asking'
<1>0. log \in Nat /\ view \in ViewsOf(log) /\ view.selected \in BOOLEAN
      /\ Idle.st = "idle"
  BY Fields DEF TypeOK, Idle
<1>1. CASE Deliver
  <2>1. view'.selected = view.selected /\ (view'.selected \/ view' = view)
    <3>1. net.cursor + 1 \in 1 .. log
      BY <1>1, Fields DEF Deliver
    <3>2. Applied(view, net.cursor + 1).selected = view.selected
      BY <1>0, <3>1, AppliedType
    <3> QED BY <1>1, <3>2 DEF Deliver
  <2>2. db.records \subseteq db'.records
    BY <1>1 DEF Deliver, Put
  <2>3. net'.ready = net.ready
    BY <1>1 DEF Deliver, TypeOK
  <2> QED BY <1>1, <2>1, <2>2, <2>3, AskingFrame DEF Deliver, requests
<1>2. CASE Connect \/ StreamError \/ ResyncRequired \/ FailList
  <2>0. net \in NetsOf(log)
    BY DEF TypeOK, NetsOf
  <2>1. net'.ready = net.ready
    <3>1. CASE Connect
      BY <2>0, <3>1 DEF Connect, NetsOf
    <3>2. CASE StreamError
      BY <2>0, <3>2 DEF StreamError, NetsOf
    <3>3. CASE ResyncRequired
      BY <2>0, <3>3 DEF ResyncRequired, NetsOf
    <3>4. CASE FailList
      BY <2>0, <3>4 DEF FailList, NetsOf
    <3> QED BY <1>2, <3>1, <3>2, <3>3, <3>4
  <2> QED BY <1>2, <2>1, AskingFrame
          DEF Connect, StreamError, ResyncRequired, FailList, requests
<1>3. CASE RetryList \/ AnswerList \/ AppendEvent \/ EvictEntry \/ UNCHANGED vars
  BY <1>3, AskingFrame DEF RetryList, AnswerList, AppendEvent, EvictEntry, requests, vars
<1>4. CASE ApplyList
  <2>1. net'.ready
    BY <1>4 DEF ApplyList
  <2>2. memo' = memo \/ memo' = Idle
    BY <1>4 DEF ApplyList, Invalidate
  <2>3. tail'.st = tail.st /\ around'.st = around.st
    BY <1>4 DEF ApplyList, Invalidate, TypeOK, Requested, RequestsOf
  <2> QED BY <1>0, <1>4, <2>1, <2>2, <2>3 DEF ApplyList, Asking
<1>5. CASE Rerun
  <2>1. CASE view.selected
    <3>1. Again(view)
      BY <1>5, <2>1 DEF Rerun
    <3>2. view'.selected /\ Joins
      BY <1>0, <2>1, <3>1, AgainStep
    <3> QED BY <1>5, <3>2, AskingJoins DEF Rerun
  <2>2. CASE ~view.selected
    BY <1>5, <2>2, AskingFrame DEF Rerun
  <2> QED BY <2>1, <2>2
<1>6. CASE Hydrate
  <2>1. view'.selected = view.selected /\ Joins
    BY <1>6, HydrateStep
  <2>2. view.selected
    BY <1>6 DEF Hydrate, Asking, NoView
  <2> QED BY <1>6, <2>1, <2>2, AskingJoins DEF Hydrate
<1>7. CASE AnswerTail \/ AnswerMemo \/ ExpireMemo \/ AnswerTarget \/ AnswerJump
  BY <1>7, AskingFrame DEF AnswerTail, AnswerMemo, ExpireMemo, AnswerTarget, AnswerJump
<1>8. CASE ApplyTail
  <2>1. view.selected /\ view'.selected = view.selected /\ db.records \subseteq db'.records
    BY <1>8, ApplyTailStep DEF Becomes, Asking, ApplyTail
  <2> QED BY <1>8, <2>1, AskingFrame DEF ApplyTail
<1>9. CASE ApplyTarget
  <2>1. view.selected /\ view'.selected = view.selected /\ db.records \subseteq db'.records
    BY <1>9, ApplyTargetStep DEF Becomes, Asking, ApplyTarget
  <2> QED BY <1>9, <2>1, AskingFrame DEF ApplyTarget
<1>10. CASE ApplyJump
  <2>1. CASE view.selected
    <3>1. view'.selected = view.selected /\ db.records \subseteq db'.records
      BY <1>10, <2>1, ApplyJumpStep DEF Becomes
    <3> QED BY <1>10, <2>1, <3>1, AskingFrame DEF ApplyJump
  <2>2. CASE ~view.selected
    BY <1>10, <2>2, AskingFrame DEF ApplyJump
  <2> QED BY <2>1, <2>2
<1>11. CASE AnswerPage
  <2>1. page'.kind = page.kind /\ page'.from = page.from /\ page.st # "idle"
    BY <1>11 DEF AnswerPage, TypeOK, PagesOf
  <2> QED BY <1>11, <2>1, AskingFrame DEF AnswerPage
<1>12. CASE ApplyPage
  <2>1. page'.st = "idle"
    BY <1>12 DEF ApplyPage, NoPage
  <2>2. view'.selected = view.selected /\ (view'.selected \/ view' = view)
        /\ db.records \subseteq db'.records
    BY <1>12, ApplyPageStep DEF ApplyPage
  <2> QED BY <1>12, <2>1, <2>2, AskingFrame DEF ApplyPage
<1>13. CASE FailPage
  <2>1. page'.st = "idle"
    BY <1>13 DEF FailPage, NoPage
  <2> QED BY <1>13, <2>1, AskingFrame DEF FailPage
<1>14. ASSUME NEW target \in Targets \cup {0}, Select(target) PROVE Asking'
  <2>1. target \in Nat /\ store.present \in BOOLEAN /\ store \in TailsOf(log)
    BY HistoryAssumption, Fields DEF TypeOK
  <2>2. Painted(store, target) \in ViewsOf(log) /\ Painted(store, target).selected
    BY <1>0, <2>1, PaintedType
  <2>3. Start(Painted(store, target), FALSE, store.present)
    BY <1>14 DEF Select
  <2>4. view'.selected /\ Joins
    BY <2>1, <2>2, <2>3, StartStep
  <2> QED BY <1>14, <2>4, AskingJoins DEF Select
<1>15. ASSUME NEW target \in Targets \cup {0}, Retarget(target) PROVE Asking'
  <2>1. view'.selected /\ Joins
    BY <1>15, RetargetStep
  <2> QED BY <1>15, <2>1, AskingJoins DEF Retarget
<1>16. CASE Deselect
  BY <1>0, <1>16 DEF Deselect, Asking
<1>17. CASE LoadOlder
  <2>1. /\ view'.selected = view.selected /\ view.selected
        /\ page' = page \/ (page'.st = "sent" /\ page'.kind = "older" /\ page'.from > 0)
    BY <1>17, LoadOlderStep DEF LoadOlder
  <2>2. /\ UNCHANGED <<net, memo, tail, jump, around, db>>
    BY <1>17 DEF LoadOlder
  <2> QED BY <2>1, <2>2 DEF Asking
<1>18. CASE LoadNewer
  <2>1. page'.kind = "newer" /\ page'.from = LastSeq(view.visible) /\ view.selected
        /\ UNCHANGED <<net, memo, tail, jump, around, db, view>>
    BY <1>18 DEF LoadNewer, Ask
  <2>2. LastSeq(view.visible) <= LastSeq(db.records)
    <3>1. LastSeq(db.records) \in Nat /\ view.visible \subseteq 1 .. LastSeq(db.records)
      BY Fields DEF Stored
    <3>2. LastSeq(view.visible) \in 0 .. LastSeq(db.records)
      BY <3>1, LastOf
    <3> QED BY <3>1, <3>2
  <2> QED BY <2>1, <2>2 DEF Asking
<1>19. CASE JumpToLatest
  <2>1. view'.selected /\ view.selected
    BY <1>0, <1>19 DEF JumpToLatest, ViewsOf
  <2>2. jump' = jump \/ (jump'.fresh /\ jump'.st = "sent")
    BY <1>19 DEF JumpToLatest, Sent
  <2> QED BY <1>19, <2>1, <2>2 DEF JumpToLatest, Asking
<1>20. ASSUME NEW following \in BOOLEAN, SetFollowingTail(following) PROVE Asking'
  <2>1. view'.selected /\ view.selected
    BY <1>0, <1>20 DEF SetFollowingTail, ViewsOf
  <2> QED BY <1>20, <2>1, AskingFrame DEF SetFollowingTail, requests
<1>21. CASE Reload
  BY <1>0, <1>21 DEF Reload, Asking, NoPage
<1>22. ASSUME NEW network \in BOOLEAN, FailRequest(network) PROVE Asking'
  <2>1. view' = [view EXCEPT !.error = view.selected]
    BY <1>22 DEF FailRequest
  <2>2. view'.selected = view.selected /\ (view'.selected \/ view' = view)
    <3>1. view'.selected = view.selected
      BY <1>0, <2>1 DEF ViewsOf
    <3>2. CASE ~view.selected
      <4>1. view = NoView
        BY <3>2 DEF Asking
      <4>2. view.selected = FALSE /\ view.error = FALSE
        BY <1>0, <3>2, <4>1 DEF NoView
      <4>3. \A v \in ViewsOf(log) : v.error = FALSE => [v EXCEPT !.error = FALSE] = v
        BY DEF ViewsOf
      <4> QED BY <1>0, <2>1, <4>2, <4>3
    <3> QED BY <3>1, <3>2
  <2>3. net'.ready = net.ready
    BY <1>22 DEF FailRequest, TypeOK
  <2> QED BY <1>22, <2>2, <2>3, AskingFrame DEF FailRequest
<1> QED BY <1>1, <1>2, <1>3, <1>4, <1>5, <1>6, <1>7, <1>8, <1>9, <1>10, <1>11, <1>12,
           <1>13, <1>14, <1>15, <1>16, <1>17, <1>18, <1>19, <1>20, <1>21, <1>22
        DEF Next, ClientStep, UserStep, FaultStep

-----------------------------------------------------------------------------
(* Steps that leave the windows alone. *)

\* Nothing is missing before an event that the server has not.
LEMMA WholeAtEnd ==
  ASSUME NEW n \in Nat, NEW W, W \subseteq 1 .. n
  PROVE  Whole(n, W)
<1>1. LastSeq(W) \in 0 .. n
  BY LastOf
<1>2. Latest(LastSeq(W)) \subseteq 1 .. LastSeq(W)
  BY <1>1, LatestIs
<1> QED BY <1>1, <1>2 DEF Whole

\* A window lacks nothing if it has no hole at all and goes as far as the stream.
LEMMA RecentIs ==
  ASSUME NEW n \in Nat, NEW W, W \subseteq 1 .. n, net.cursor \in Nat
  PROVE  Recent(W) <=> Whole(0, W) /\ net.cursor <= LastSeq(W)
<1>1. LastSeq(W) \in 0 .. n
  BY LastOf
<1>2. Latest(LastSeq(W)) \subseteq 1 .. LastSeq(W)
  BY <1>1, LatestIs
<1>3. (Latest(LastSeq(W)) \subseteq W) <=> Whole(0, W)
  BY <1>1, <1>2 DEF Whole
<1> QED BY <1>1, <1>3 DEF Recent

\* What is covered with nothing missed is recent.
LEMMA CoveredIs ==
  ASSUME NEW n \in Nat, NEW W, W \subseteq 1 .. n, net.cursor \in Nat
  PROVE  Covered(0, W) <=> Recent(W)
<1>1. LastSeq(W) \in 0 .. n
  BY LastOf
<1>2. Max2(0, LastSeq(W)) = LastSeq(W)
  BY <1>1 DEF Max2
<1> QED BY <1>2, RecentIs DEF Covered

\* An answer of this step covers whatever the page has.
LEMMA CoveredAtEnd ==
  ASSUME TypeOK, NEW W, W \subseteq 1 .. log
  PROVE  Covered(log, W)
<1>1. LastSeq(W) \in 0 .. log /\ net.cursor \in 0 .. log /\ log \in Nat
  BY Fields, LastOf
<1>2. net.cursor <= Max2(log, LastSeq(W))
  BY <1>1 DEF Max2
<1> QED BY <1>1, <1>2, WholeAtEnd DEF Covered

\* Every answer that is waiting was given in this step, or waited before it and
\* was no staler.
Waiting == \A r \in Requested' : r.st = "answered" =>
             \/ r.at = log
             \/ \E q \in Requested : q.st = "answered" /\ q.at = r.at /\ (r.fresh => q.fresh)

\* The effect of a view asks, or joins the request that is remembered.
LEMMA JoinsWait ==
  ASSUME Asking, Joins, jump' = jump
  PROVE  Waiting
<1>1. ASSUME NEW r \in {memo', tail', around'}, r.st = "answered"
      PROVE  memo.st = "answered" /\ memo.at = r.at /\ memo.fresh
  BY <1>1 DEF Joins, Asking
<1>2. Requested' = {memo', tail', around'} \cup {jump}
  BY DEF Requested
<1> QED BY <1>1, <1>2 DEF Waiting, Requested

\* Requests are answered, forgotten, or made.
LEMMA AnswersWait ==
  ASSUME TypeOK,
         tail' \in {tail, Idle} \/ tail'.st = "sent" \/ tail' = Answered(tail),
         memo' \in {memo, Idle} \/ memo'.st = "sent" \/ memo' = Answered(memo),
         jump' \in {jump, Idle} \/ jump'.st = "sent" \/ jump' = Answered(jump),
         around' \in {around, Idle} \/ around'.st = "sent" \/ around' = Answered(around)
  PROVE  Waiting
<1>1. Idle.st = "idle"
  BY DEF Idle
<1>2. \A r \in RequestsOf(log) : Answered(r).at = log
  BY AnsweredType DEF TypeOK
<1>3. tail \in RequestsOf(log) /\ around \in RequestsOf(log) /\ jump \in RequestsOf(log)
      /\ memo \in RequestsOf(log)
  BY DEF TypeOK, Requested
<1>4. ASSUME NEW q \in Requested, NEW r, r \in {q, Idle} \/ r.st = "sent" \/ r = Answered(q),
             r.st = "answered"
      PROVE  r.at = log \/ (q.st = "answered" /\ q.at = r.at /\ (r.fresh => q.fresh))
  BY <1>1, <1>2, <1>3, <1>4 DEF Requested
<1>5. Requested' = {tail', memo', jump', around'}
  BY DEF Requested
<1> QED BY <1>4, <1>5 DEF Waiting, Requested

\* The view is left alone, or takes the page's tail, or goes; it is at rest
\* only if it was, or if it has just taken the page's tail.
Resting == view.hydrated /\ view.target = 0 /\ CanLoad /\ ~due
ViewKept ==
  /\ view'.live = view.live \/ view'.live = store.events \/ view'.live = {}
  /\ view'.visible \subseteq 1 .. LastSeq(db.records)
  /\ view'.selected => (view.selected /\ view'.live = view.live) \/ view'.live = store.events
  /\ view'.hydrated => \/ view.hydrated /\ view'.live = view.live
                       \/ store.hydrated /\ view'.live = store.events
  /\ Resting' => \/ Resting /\ view'.live = view.live
                 \/ store.hydrated /\ view'.live = store.events

\* The page's tail and storage are left alone, and the stream where it is.
WindowsKept ==
  /\ store'.events = store.events /\ store'.cursor = store.cursor
  /\ store'.present = store.present /\ (store'.hydrated => store.hydrated)
  /\ db' = db /\ seen' = seen /\ net'.cursor = net.cursor
  /\ log <= log'
  /\ net'.ready \/ (list'.st = "answered" /\ list'.at = 0) =>
       log = 0 \/ net.ready \/ (list.st = "answered" /\ list.at = 0)

Holding == Stored /\ Reaching /\ Anchored /\ Hydrated

\* An answer that anchors the windows after such a step anchored them before,
\* or has been given in it.
LEMMA AnchorKept ==
  ASSUME TypeOK, Waiting, WindowsKept
  PROVE  \A a \in 0 .. log' : Anchor(a)' => a = log \/ (a \in 0 .. log /\ Anchor(a))
<1> SUFFICES ASSUME NEW a \in 0 .. log', Anchor(a)'
             PROVE  a = log \/ (a \in 0 .. log /\ Anchor(a))
  OBVIOUS
<1>1. log \in Nat /\ net.cursor \in 0 .. log /\ \A q \in Requested : q.at \in 0 .. log
  BY Fields
<1>2. CASE \E r \in Requested' : r.st = "answered" /\ r.fresh /\ r.at = a /\ a >= seen'.missed
  <2>1. PICK r \in Requested' : r.st = "answered" /\ r.fresh /\ r.at = a /\ a >= seen'.missed
    BY <1>2
  <2>2. seen'.missed = seen.missed
    BY DEF WindowsKept
  <2>3. a = log \/ \E q \in Requested : q.st = "answered" /\ q.at = a /\ q.fresh
    BY <2>1 DEF Waiting
  <2> QED BY <1>1, <2>1, <2>2, <2>3 DEF Anchor
<1>3. CASE a = 0 /\ net'.cursor = 0 /\ (net'.ready \/ (list'.st = "answered" /\ list'.at = 0))
  BY <1>1, <1>3 DEF Anchor, WindowsKept
<1> QED BY <1>2, <1>3 DEF Anchor

\* A step that leaves the windows alone breaks nothing that holds of them.
LEMMA Frame ==
  ASSUME TypeOK, Holding, Waiting, ViewKept, WindowsKept
  PROVE  Holding'
<1>0. /\ log \in Nat /\ net.cursor \in 0 .. log /\ 0 \in 0 .. log /\ log \in 0 .. log
      /\ store.events \subseteq 1 .. log /\ db.records \subseteq 1 .. log
      /\ view.live \subseteq 1 .. log /\ seen.reach \in 0 .. log
  BY Fields
<1>a. /\ store'.events = store.events /\ store'.cursor = store.cursor
      /\ store'.present = store.present /\ (store'.hydrated => store.hydrated)
      /\ db' = db /\ seen' = seen /\ net'.cursor = net.cursor
  BY DEF WindowsKept
<1>1. Stored'
  <2>1. {} \subseteq 1 .. LastSeq(db.records)
    OBVIOUS
  <2> QED BY <1>a, <2>1 DEF Stored, Holding, ViewKept
<1>2. Reaching'
  <2>1. (~store.present => \A r \in Requested : r.st = "answered" => seen.reach <= r.at)'
    <3>1. ASSUME ~store.present, NEW r \in Requested', r.st = "answered"
          PROVE  seen.reach <= r.at
      BY <1>0, <3>1 DEF Waiting, Holding, Reaching
    <3> QED BY <1>a, <3>1
  <2>2. (view.selected => LastSeq(store.events) <= LastSeq(view.live))'
    <3>1. LastSeq(store.events) <= LastSeq(store.events)
      <4>1. LastSeq(store.events) \in 0 .. log
        BY Fields
      <4> QED BY <1>0, <4>1
    <3> QED BY <1>a, <3>1 DEF Holding, Reaching, ViewKept
  <2>3. (view.hydrated => seen.reach <= LastSeq(view.live))'
    BY <1>a DEF Holding, Reaching, ViewKept
  <2>4. (/\ LastSeq(store.events) <= store.cursor
         /\ seen.missed <= net.cursor
         /\ seen.reach <= store.cursor /\ seen.reach <= LastSeq(db.records)
         /\ store.hydrated => store.present
         /\ store.present => seen.reach <= LastSeq(store.events))'
    BY <1>a DEF Holding, Reaching
  <2> QED BY <2>1, <2>2, <2>3, <2>4 DEF Reaching
<1>3. Anchored'
  <2> SUFFICES ASSUME NEW a \in 0 .. log', Anchor(a)'
               PROVE  /\ Covered(a, store.events)'
                      /\ Covered(a, db.records)'
                      /\ (view.selected => Covered(a, view.live))'
    BY DEF Anchored
  <2>1. /\ Covered(a, store.events)
        /\ Covered(a, db.records)
        /\ view.selected => Covered(a, view.live)
    <3>1. CASE a = log
      BY <1>0, <3>1, CoveredAtEnd
    <3>2. CASE a \in 0 .. log /\ Anchor(a)
      BY <3>2 DEF Holding, Anchored
    <3> QED BY <3>1, <3>2, AnchorKept
  <2>2. Covered(a, store.events)' /\ Covered(a, db.records)'
    BY <1>a, <2>1 DEF Covered, Whole
  <2>3. (view.selected => Covered(a, view.live))'
    BY <1>a, <2>1 DEF Covered, Whole, ViewKept
  <2> QED BY <2>2, <2>3
<1>4. Hydrated'
  <2> SUFFICES ASSUME seen'.missed = 0
               PROVE  /\ store'.hydrated => Recent(store.events)'
                      /\ Resting' => Recent(view.live)'
    BY DEF Hydrated, Resting
  <2>1. /\ store.hydrated => Recent(store.events)
        /\ Resting => Recent(view.live)
    BY <1>a DEF Holding, Hydrated, Resting
  <2>2. store'.hydrated => Recent(store.events)'
    BY <1>a, <2>1 DEF Recent
  <2>3. Resting' => Recent(view.live)'
    BY <1>a, <2>1 DEF Recent, ViewKept
  <2> QED BY <2>2, <2>3
<1> QED BY <1>1, <1>2, <1>3, <1>4 DEF Holding

\* Most steps leave the tail, storage and the cursor as they are.
LEMMA WindowsSame ==
  ASSUME TypeOK, store' = store, db' = db, seen' = seen, log' = log,
         net'.cursor = net.cursor, net'.ready = net.ready,
         list' = list \/ list'.st # "answered" \/ list'.at = log
  PROVE  WindowsKept
<1>1. log \in Nat
  BY Fields
<1> QED BY <1>1 DEF WindowsKept

\* Most leave the windows of the view alone, and rouse it if they do anything.
LEMMA ViewSame ==
  ASSUME TypeOK, Stored, view'.live = view.live,
         view'.selected => view.selected, view'.hydrated => view.hydrated,
         view'.target = view.target, CanLoad' /\ ~due' => CanLoad /\ ~due,
         view'.visible \subseteq 1 .. LastSeq(db.records)
  PROVE  ViewKept
<1>1. Resting' => Resting
  BY DEF Resting
<1>2. view'.hydrated => view.hydrated /\ view'.live = view.live
  OBVIOUS
<1>3. view'.selected => view.selected /\ view'.live = view.live
  OBVIOUS
<1> QED BY <1>1, <1>2, <1>3 DEF ViewKept

\* A view that takes the page's tail is hydrated only if that was.
LEMMA ViewTaken ==
  ASSUME view'.live = store.events, view'.hydrated => store.hydrated,
         view'.visible \subseteq 1 .. LastSeq(db.records)
  PROVE  ViewKept
<1>1. Resting' => store.hydrated /\ view'.live = store.events
  BY DEF Resting
<1> QED BY <1>1 DEF ViewKept

\* An effect for a selection that was seen before is not at rest.
LEMMA ViewAgain ==
  ASSUME view.selected, Stored,
         view'.live = view.live, view'.visible = view.visible,
         view'.hydrated => view.hydrated,
         CanLoad' /\ view'.target = 0 => ~view'.hydrated
  PROVE  ViewKept
<1>1. ~Resting'
  BY DEF Resting
<1> QED BY <1>1 DEF ViewKept, Stored

\* What the stream and the list do, except that an event is delivered or a
\* boundary is adopted.
LEMMA StreamHolds ==
  ASSUME TypeOK, Holding,
         \/ Connect \/ StreamError \/ ResyncRequired \/ RetryList \/ AnswerList
         \/ ApplyList /\ net.ready /\ ~list.resync
         \/ FailList \/ AppendEvent \/ UNCHANGED vars
  PROVE  Holding'
<1>0. /\ net \in NetsOf(log) /\ log \in Nat /\ net.reachable \in BOOLEAN
      /\ net.ready \in BOOLEAN
  BY Fields DEF TypeOK, NetsOf
<1>1. Stored /\ view.visible \subseteq 1 .. LastSeq(db.records)
  BY DEF Holding, Stored
<1>2. CASE Connect
  <2>1. net'.cursor = net.cursor /\ net'.ready = net.ready /\ net'.reachable
    BY <1>0, <1>2 DEF Connect, NetsOf
  <2>2. Waiting
    BY <1>2, AnswersWait DEF Connect, requests
  <2>3. CanLoad' /\ ~due' => CanLoad /\ ~due
    BY <1>2, <2>1 DEF CanLoad, Connect
  <2> QED BY <1>1, <1>2, <2>1, <2>2, <2>3, WindowsSame, ViewSame, Frame
          DEF Connect, requests
<1>3. CASE StreamError
  <2>1. net'.cursor = net.cursor /\ net'.ready = net.ready /\ net'.reachable = net.reachable
    BY <1>0, <1>3 DEF StreamError, NetsOf
  <2>2. Waiting
    BY <1>3, AnswersWait DEF StreamError, requests
  <2>3. CanLoad' /\ ~due' => CanLoad /\ ~due
    BY <1>3, <2>1 DEF CanLoad, StreamError
  <2> QED BY <1>1, <1>3, <2>1, <2>2, <2>3, WindowsSame, ViewSame, Frame
          DEF StreamError, requests
<1>4. CASE ResyncRequired
  <2>1. net'.cursor = net.cursor /\ net'.ready = net.ready /\ net'.reachable = net.reachable
    BY <1>0, <1>4 DEF ResyncRequired, NetsOf
  <2>2. Waiting
    BY <1>4, AnswersWait DEF ResyncRequired
  <2>3. CanLoad' /\ ~due' => CanLoad /\ ~due
    BY <1>4, <2>1 DEF CanLoad, ResyncRequired
  <2>4. list'.st # "answered"
    BY <1>4 DEF ResyncRequired
  <2> QED BY <1>1, <1>4, <2>1, <2>2, <2>3, <2>4, WindowsSame, ViewSame, Frame
          DEF ResyncRequired
<1>5. CASE RetryList
  <2>1. Waiting
    BY <1>5, AnswersWait DEF RetryList
  <2>2. CanLoad' /\ ~due' => CanLoad /\ ~due
    BY <1>5 DEF CanLoad, RetryList
  <2>3. list'.st # "answered"
    BY <1>5 DEF RetryList, FirstList
  <2> QED BY <1>1, <1>5, <2>1, <2>2, <2>3, WindowsSame, ViewSame, Frame DEF RetryList
<1>6. CASE AnswerList
  <2>1. Waiting
    BY <1>6, AnswersWait DEF AnswerList
  <2>2. CanLoad' /\ ~due' => CanLoad /\ ~due
    BY <1>6 DEF CanLoad, AnswerList
  <2>3. list'.at = log
    BY <1>6 DEF AnswerList, TypeOK
  <2> QED BY <1>1, <1>6, <2>1, <2>2, <2>3, WindowsSame, ViewSame, Frame DEF AnswerList
<1>7. CASE ApplyList /\ net.ready /\ ~list.resync
  <2>1. net'.cursor = net.cursor /\ net'.ready = net.ready
    BY <1>0, <1>7 DEF ApplyList
  <2>2. UNCHANGED <<store, memo, tail, jump, around>>
    BY <1>7 DEF ApplyList
  <2>3. Waiting
    BY <2>2, AnswersWait
  <2>4. list'.st # "answered"
    BY <1>7 DEF ApplyList, TypeOK
  <2>5. due'
    BY <1>7 DEF ApplyList
  <2> QED BY <1>1, <1>7, <2>1, <2>2, <2>3, <2>4, <2>5, WindowsSame, ViewSame, Frame
          DEF ApplyList
<1>8. CASE FailList
  <2>1. net'.cursor = net.cursor /\ net'.ready = net.ready
    BY <1>0, <1>8 DEF FailList, NetsOf
  <2>2. Waiting
    BY <1>8, AnswersWait DEF FailList
  <2>3. list'.st # "answered"
    BY <1>8 DEF FailList, TypeOK
  <2>4. due'
    BY <1>8 DEF FailList
  <2> QED BY <1>1, <1>8, <2>1, <2>2, <2>3, <2>4, WindowsSame, ViewSame, Frame DEF FailList
<1>9. CASE AppendEvent
  <2>1. Waiting
    BY <1>9, AnswersWait DEF AppendEvent, requests
  <2>2. WindowsKept
    BY <1>0, <1>9 DEF AppendEvent, requests, WindowsKept
  <2>3. CanLoad' /\ ~due' => CanLoad /\ ~due
    BY <1>9 DEF CanLoad, AppendEvent
  <2> QED BY <1>1, <1>9, <2>1, <2>2, <2>3, ViewSame, Frame DEF AppendEvent
<1>10. CASE UNCHANGED vars
  <2>1. Waiting
    BY <1>10, AnswersWait DEF vars
  <2>2. CanLoad' /\ ~due' => CanLoad /\ ~due
    BY <1>10 DEF CanLoad, vars
  <2> QED BY <1>1, <1>10, <2>1, <2>2, WindowsSame, ViewSame, Frame DEF vars
<1> QED BY <1>2, <1>3, <1>4, <1>5, <1>6, <1>7, <1>8, <1>9, <1>10

\* Requests are answered, forgotten or refused.
LEMMA AnswersHold ==
  ASSUME TypeOK, Holding,
         \/ AnswerTail \/ AnswerMemo \/ ExpireMemo \/ AnswerTarget \/ AnswerJump
         \/ AnswerPage \/ FailPage
         \/ \E network \in BOOLEAN : FailRequest(network)
  PROVE  Holding'
<1>0. /\ net \in NetsOf(log) /\ view \in ViewsOf(log) /\ log \in Nat
  BY DEF TypeOK, NetsOf
<1>1. Stored /\ view.visible \subseteq 1 .. LastSeq(db.records)
  BY DEF Holding, Stored
<1>2. CASE AnswerTail \/ AnswerMemo \/ ExpireMemo \/ AnswerTarget \/ AnswerJump
           \/ AnswerPage \/ FailPage
  <2>1. /\ UNCHANGED <<log, net, list, store, view, due, db, seen>>
    BY <1>2 DEF AnswerTail, AnswerMemo, ExpireMemo, AnswerTarget, AnswerJump, AnswerPage,
                FailPage
  <2>2. Waiting
    BY <1>2, AnswersWait DEF AnswerTail, AnswerMemo, ExpireMemo, AnswerTarget, AnswerJump,
                             AnswerPage, FailPage
  <2>3. CanLoad' /\ ~due' => CanLoad /\ ~due
    BY <2>1 DEF CanLoad
  <2> QED BY <1>1, <2>1, <2>2, <2>3, WindowsSame, ViewSame, Frame
<1>3. ASSUME NEW network \in BOOLEAN, FailRequest(network) PROVE Holding'
  <2>1. view' = [view EXCEPT !.error = view.selected]
    BY <1>3 DEF FailRequest
  <2>2. /\ view'.live = view.live /\ view'.selected = view.selected
        /\ view'.hydrated = view.hydrated /\ view'.target = view.target
        /\ view'.visible = view.visible
    BY <1>0, <2>1 DEF ViewsOf
  <2>3. /\ UNCHANGED <<log, list, store, db, seen>>
    BY <1>3 DEF FailRequest
  <2>4. net'.cursor = net.cursor /\ net'.ready = net.ready
        /\ (net'.reachable /\ ~due' => net.reachable /\ ~due)
    <3>1. CASE network
      BY <1>0, <1>3, <3>1 DEF FailRequest, NetsOf
    <3>2. CASE ~network
      BY <1>3, <3>2 DEF FailRequest
    <3> QED BY <3>1, <3>2
  <2>5. Waiting
    BY <1>3, AnswersWait DEF FailRequest
  <2>6. CanLoad' /\ ~due' => CanLoad /\ ~due
    BY <2>4 DEF CanLoad
  <2> QED BY <1>1, <2>2, <2>3, <2>4, <2>5, <2>6, WindowsSame, ViewSame, Frame
<1> QED BY <1>2, <1>3

\* The user's moves, and effects of the view that load nothing from storage.
LEMMA MovesHold ==
  ASSUME TypeOK, Asking, Holding,
         \/ \E target \in Targets \cup {0} : Select(target) \/ Retarget(target)
         \/ Deselect \/ Rerun \/ LoadOlder \/ LoadNewer \/ JumpToLatest
         \/ \E following \in BOOLEAN : SetFollowingTail(following)
         \/ ApplyPage /\ ~view.selected
         \/ ApplyJump /\ ~view.selected
  PROVE  Holding'
<1>0. /\ log \in Nat /\ view \in ViewsOf(log) /\ store \in TailsOf(log)
      /\ store.present \in BOOLEAN /\ view.target \in Nat
      /\ store.events \subseteq 1 .. log /\ view.live \subseteq 1 .. log
      /\ view.visible \subseteq 1 .. log /\ db.records \subseteq 1 .. log
      /\ LastSeq(db.records) \in 0 .. log
  BY Fields DEF TypeOK
<1>1. /\ Stored /\ view.visible \subseteq 1 .. LastSeq(db.records)
      /\ store.events \subseteq 1 .. LastSeq(db.records)
      /\ view.live \subseteq 1 .. LastSeq(db.records)
      /\ db.records \subseteq 1 .. LastSeq(db.records)
  <2>1. db.records \subseteq 1 .. LastSeq(db.records)
    BY <1>0, LastOf
  <2> QED BY <2>1 DEF Holding, Stored
<1>2. ASSUME NEW target \in Targets \cup {0}, Select(target) PROVE Holding'
  <2>0. target \in Nat
    BY HistoryAssumption
  <2>1. /\ Painted(store, target) \in ViewsOf(log) /\ Painted(store, target).live = store.events
        /\ Painted(store, target).visible = store.events
        /\ Painted(store, target).hydrated = store.hydrated
    BY <1>0, <2>0, PaintedType
  <2>2. Start(Painted(store, target), FALSE, store.present)
    BY <1>2 DEF Select
  <2>3. /\ view'.live = store.events /\ view'.visible = store.events
        /\ view'.hydrated => store.hydrated
        /\ Joins
    BY <1>0, <2>1, <2>2, StartStep
  <2>4. ViewKept
    BY <1>1, <2>3, ViewTaken
  <2> QED BY <1>2, <2>3, <2>4, JoinsWait, WindowsSame, Frame DEF Select
<1>3. ASSUME NEW target \in Targets \cup {0}, Retarget(target) PROVE Holding'
  <2>1. /\ view'.selected /\ view'.target = target
        /\ \/ /\ view'.live = view.live /\ view'.visible = view.visible
              /\ view'.hydrated => view.hydrated
              /\ CanLoad /\ target = 0 => ~view'.hydrated
           \/ /\ view'.live = store.events /\ view'.visible = store.events
              /\ view'.hydrated => store.hydrated
        /\ Joins
    BY <1>3, RetargetStep
  <2>2. view.selected /\ net' = net
    BY <1>3 DEF Retarget
  <2>3. CanLoad' = CanLoad
    BY <2>2 DEF CanLoad
  <2>4. ViewKept
    BY <1>1, <2>1, <2>2, <2>3, ViewTaken, ViewAgain
  <2> QED BY <1>3, <2>1, <2>4, JoinsWait, WindowsSame, Frame DEF Retarget
<1>4. CASE Deselect
  <2>1. view' = NoView
    BY <1>4 DEF Deselect
  <2>2. ViewKept
    BY <2>1 DEF ViewKept, Resting, NoView
  <2>3. Waiting
    BY <1>4, AnswersWait DEF Deselect
  <2> QED BY <1>4, <2>2, <2>3, WindowsSame, Frame DEF Deselect
<1>5. CASE Rerun
  <2>1. CASE view.selected
    <3>1. Again(view)
      BY <1>5, <2>1 DEF Rerun
    <3>2. /\ view'.selected /\ view'.target = view.target
          /\ \/ /\ view'.live = view.live /\ view'.visible = view.visible
                /\ view'.hydrated => view.hydrated
                /\ CanLoad /\ view.target = 0 => ~view'.hydrated
             \/ /\ view'.live = store.events /\ view'.visible = store.events
                /\ view'.hydrated => store.hydrated
          /\ Joins
      BY <1>0, <2>1, <3>1, AgainStep
    <3>3. CanLoad' = CanLoad
      BY <1>5 DEF CanLoad, Rerun
    <3>4. ViewKept
      BY <1>1, <2>1, <3>2, <3>3, ViewTaken, ViewAgain
    <3> QED BY <1>5, <3>2, <3>4, JoinsWait, WindowsSame, Frame DEF Rerun
  <2>2. CASE ~view.selected
    <3>1. view' = view /\ ~view.hydrated
      BY <1>5, <2>2 DEF Rerun, Asking, NoView
    <3>2. Waiting
      BY <1>5, <2>2, AnswersWait DEF Rerun
    <3>3. ViewKept
      <4>1. ~view'.hydrated /\ ~view'.selected /\ view'.live = view.live
            /\ view'.visible = view.visible
        BY <2>2, <3>1
      <4>2. ~Resting'
        BY <4>1 DEF Resting
      <4> QED BY <1>1, <4>1, <4>2 DEF ViewKept
    <3> QED BY <1>5, <3>2, <3>3, WindowsSame, Frame DEF Rerun
  <2> QED BY <2>1, <2>2
<1>6. CASE LoadOlder
  <2>1. /\ view'.selected = view.selected /\ view'.live = view.live
        /\ view'.hydrated = view.hydrated /\ view'.target = view.target
        /\ view'.visible \subseteq view.visible \cup db.records
    BY <1>6, LoadOlderStep
  <2>2. view'.visible \subseteq 1 .. LastSeq(db.records)
    BY <1>1, <2>1
  <2>3. Waiting
    BY <1>6, AnswersWait DEF LoadOlder
  <2>4. CanLoad' /\ ~due' => CanLoad /\ ~due
    BY <1>6 DEF CanLoad, LoadOlder
  <2> QED BY <1>1, <1>6, <2>1, <2>2, <2>3, <2>4, WindowsSame, ViewSame, Frame DEF LoadOlder
<1>7. CASE LoadNewer
  <2>1. Waiting
    BY <1>7, AnswersWait DEF LoadNewer
  <2>2. CanLoad' /\ ~due' => CanLoad /\ ~due
    BY <1>7 DEF CanLoad, LoadNewer
  <2> QED BY <1>1, <1>7, <2>1, <2>2, WindowsSame, ViewSame, Frame DEF LoadNewer
<1>8. CASE JumpToLatest
  <2>1. view' = [view EXCEPT !.following = TRUE, !.newer = FALSE, !.error = FALSE,
                             !.visible = Joined(view.visible, view.live)]
    BY <1>8 DEF JumpToLatest
  <2>2. Joined(view.visible, view.live) \subseteq view.visible \cup view.live
    BY DEF Joined, BoundLatest
  <2>3. /\ view'.live = view.live /\ view'.selected = view.selected
        /\ view'.hydrated = view.hydrated /\ view'.target = view.target
        /\ view'.visible = Joined(view.visible, view.live)
    BY <1>0, <2>1 DEF ViewsOf
  <2>4. view'.visible \subseteq 1 .. LastSeq(db.records)
    BY <1>1, <2>2, <2>3
  <2>5. Waiting
    BY <1>8, AnswersWait DEF JumpToLatest, Sent
  <2>6. CanLoad' /\ ~due' => CanLoad /\ ~due
    BY <1>8 DEF CanLoad, JumpToLatest
  <2> QED BY <1>1, <1>8, <2>3, <2>4, <2>5, <2>6, WindowsSame, ViewSame, Frame
          DEF JumpToLatest
<1>9. ASSUME NEW following \in BOOLEAN, SetFollowingTail(following) PROVE Holding'
  <2>1. /\ view'.live = view.live /\ view'.selected = view.selected
        /\ view'.hydrated = view.hydrated /\ view'.target = view.target
        /\ view'.visible = view.visible
    BY <1>0, <1>9 DEF SetFollowingTail, ViewsOf
  <2>2. Waiting
    BY <1>9, AnswersWait DEF SetFollowingTail, requests
  <2>3. CanLoad' /\ ~due' => CanLoad /\ ~due
    BY <1>9 DEF CanLoad, SetFollowingTail
  <2> QED BY <1>1, <1>9, <2>1, <2>2, <2>3, WindowsSame, ViewSame, Frame
          DEF SetFollowingTail, requests
<1>10. CASE ApplyPage /\ ~view.selected
  <2>1. Waiting
    BY <1>10, AnswersWait DEF ApplyPage
  <2>2. CanLoad' /\ ~due' => CanLoad /\ ~due
    BY <1>10 DEF CanLoad, ApplyPage
  <2> QED BY <1>1, <1>10, <2>1, <2>2, WindowsSame, ViewSame, Frame DEF ApplyPage
<1>11. CASE ApplyJump /\ ~view.selected
  <2>1. Waiting
    BY <1>11, AnswersWait DEF ApplyJump
  <2>2. CanLoad' /\ ~due' => CanLoad /\ ~due
    BY <1>11 DEF CanLoad, ApplyJump
  <2> QED BY <1>1, <1>11, <2>1, <2>2, WindowsSame, ViewSame, Frame DEF ApplyJump
<1> QED BY <1>2, <1>3, <1>4, <1>5, <1>6, <1>7, <1>8, <1>9, <1>10, <1>11

-----------------------------------------------------------------------------
(* Answers fill the windows. *)

\* What has to hold of the window N an answer r leaves as the tail and of the
\* stored events D: each has the page of the answer, ends no earlier than what
\* was there, and has no hole where that had none.
Fills(r, N, D) ==
  /\ N \subseteq 1 .. LastSeq(D) /\ D \subseteq 1 .. log
  /\ TailPage(r.at) \subseteq N /\ TailPage(r.at) \subseteq D
  /\ r.at <= LastSeq(N) /\ LastSeq(store.events) <= LastSeq(N)
  /\ LastSeq(db.records) <= LastSeq(D)
  /\ \A b \in 0 .. log : Anchor(b) => Whole(b, N) /\ Whole(b, D)

\* The last events of the windows of such an answer, and how far it reaches.
LEMMA FillEnds ==
  ASSUME TypeOK, Holding, NEW r \in Requested, r.st = "answered", Served(r),
         NEW N, NEW D, Becomes(N, D), Fills(r, N, D)
  PROVE  /\ LastSeq(N) \in 0 .. log /\ LastSeq(D) \in 0 .. log /\ LastSeq(N) <= LastSeq(D)
         /\ N \subseteq 1 .. log
         /\ store'.events = BoundLatest(BoundLatest(N, Live), Live)
         /\ LastSeq(store'.events) = LastSeq(N) /\ store'.events \subseteq N
         /\ store'.present /\ store'.hydrated
         /\ store.cursor <= store'.cursor /\ LastSeq(N) <= store'.cursor
         /\ store'.cursor \in 0 .. log
         /\ view'.live = BoundLatest(N, Live)
         /\ LastSeq(view'.live) = LastSeq(N) /\ view'.live \subseteq N
         /\ db'.records = D
         /\ seen'.reach <= LastSeq(N) /\ seen'.missed <= net.cursor
<1>0. /\ log \in Nat /\ r.at \in 0 .. log /\ seen.reach \in 0 .. log
      /\ seen.missed \in 0 .. log /\ net.cursor \in 0 .. log /\ store \in TailsOf(log)
      /\ store.cursor \in 0 .. log
      /\ LastSeq(store.events) \in 0 .. log
  BY Fields DEF TypeOK
<1>1. LastSeq(D) \in 0 .. log
  BY <1>0, LastOf DEF Fills
<1>2. LastSeq(N) \in 0 .. LastSeq(D)
  <2>1. LastSeq(D) \in Nat /\ N \subseteq 1 .. LastSeq(D)
    BY <1>1 DEF Fills
  <2> QED BY <2>1, LastOf
<1>3. N \subseteq 1 .. log
  BY <1>0, <1>1 DEF Fills
<1> DEFINE B == BoundLatest(N, Live)
<1>4. B \subseteq N /\ LastSeq(B) = LastSeq(N)
  BY <1>0, <1>3, Bounded
<1>5. BoundLatest(B, Live) \subseteq B /\ LastSeq(BoundLatest(B, Live)) = LastSeq(B)
  <2>1. B \subseteq 1 .. log
    BY <1>3, <1>4
  <2> HIDE DEF B
  <2> QED BY <1>0, <2>1, Bounded
<1>6. PICK last \in 0 .. log : store' = Seed(store, B, last, TRUE)
  BY DEF Becomes
<1>7. /\ store' \in TailsOf(log) /\ store'.present /\ store'.events = BoundLatest(B, Live)
      /\ store'.hydrated = TRUE
      /\ store.cursor <= store'.cursor /\ LastSeq(B) <= store'.cursor
  <2>1. B \subseteq 1 .. log
    BY <1>3, <1>4
  <2> HIDE DEF B
  <2> QED BY <1>0, <1>6, <2>1, SeedType
<1>8. store'.cursor \in 0 .. log
  BY <1>7 DEF TailsOf
<1>9. seen'.reach <= LastSeq(N)
  <2>1. seen'.reach = Max2(seen.reach, r.at)
    BY ServedType
  <2>2. r.at <= LastSeq(N) /\ LastSeq(store.events) <= LastSeq(N)
    BY DEF Fills
  <2>3. seen.reach <= LastSeq(store.events) \/ seen.reach <= r.at
    BY DEF Holding, Reaching
  <2>4. seen.reach <= LastSeq(N)
    BY <1>0, <1>1, <1>2, <2>2, <2>3
  <2> QED BY <2>1, <2>2, <2>4 DEF Max2
<1>10. seen'.missed <= net.cursor
  <2>1. seen'.missed = IF ~r.fresh THEN Max2(seen.missed, net.cursor)
                       ELSE IF r.at >= seen.missed THEN 0 ELSE seen.missed
    BY ServedType
  <2>2. seen.missed <= net.cursor
    BY DEF Holding, Reaching
  <2> QED BY <1>0, <2>1, <2>2 DEF Max2
<1>11. view'.live = B /\ db'.records = D
  BY DEF Becomes
<1> HIDE DEF B
<1> QED BY <1>0, <1>1, <1>2, <1>3, <1>4, <1>5, <1>7, <1>8, <1>9, <1>10, <1>11 DEF B

\* A window that holds what is kept of the log, bounded like the page's tail, is
\* recent if it goes as far as the stream.
LEMMA RecentBounded ==
  ASSUME NEW n \in Nat, NEW W, W \subseteq 1 .. n, Whole(0, W),
         net.cursor \in Nat, net.cursor <= LastSeq(W)
  PROVE  Recent(BoundLatest(W, Live))
<1>1. Live \in Keepers
  BY DEF Keepers
<1>2. Whole(0, BoundLatest(W, Live)) /\ LastSeq(BoundLatest(W, Live)) = LastSeq(W)
      /\ BoundLatest(W, Live) \subseteq W
  BY <1>1, WholeBounded, Bounded
<1>3. BoundLatest(W, Live) \subseteq 1 .. n
  BY <1>2
<1> QED BY <1>2, <1>3, RecentIs

\* An answer that nothing makes stale, or one from before the page knew of any
\* event, leaves no hole at all.
LEMMA FillWhole ==
  ASSUME TypeOK, Asking, Holding, NEW r \in {tail, jump, around}, r.st = "answered", Served(r),
         NEW N, NEW D, Becomes(N, D), Fills(r, N, D), seen'.missed = 0,
         seen.missed = 0 \/ r.fresh
  PROVE  Whole(0, N) /\ Whole(0, D) /\ net.cursor <= LastSeq(N)
<1>0. /\ log \in Nat /\ 0 \in 0 .. log /\ r.at \in 0 .. log /\ r \in Requested
      /\ seen.missed \in 0 .. log /\ net.cursor \in 0 .. log /\ r.fresh \in BOOLEAN
      /\ LastSeq(store.events) \in 0 .. log
  <2>1. r \in Requested
    BY DEF Requested
  <2> QED BY <2>1, Fields
<1>1. seen'.missed = IF ~r.fresh THEN Max2(seen.missed, net.cursor)
                     ELSE IF r.at >= seen.missed THEN 0 ELSE seen.missed
  BY <1>0, ServedType
<1>2. /\ N \subseteq 1 .. log /\ D \subseteq 1 .. log /\ LastSeq(N) \in 0 .. log
      /\ LastSeq(store.events) <= LastSeq(N) /\ r.at <= LastSeq(N)
  BY <1>0, FillEnds DEF Fills
<1>3. CASE r.fresh
  <2>1. r.at >= seen.missed
    BY <1>0, <1>1, <1>3
  <2>2. Anchor(r.at)
    BY <1>0, <1>3, <2>1 DEF Anchor
  <2>3. Whole(r.at, N) /\ Whole(r.at, D) /\ TailPage(r.at) \subseteq N
        /\ TailPage(r.at) \subseteq D
    BY <1>0, <2>2 DEF Fills
  <2>4. net.cursor <= Max2(r.at, LastSeq(store.events))
    BY <1>0, <2>2 DEF Holding, Anchored, Covered
  <2>5. net.cursor <= LastSeq(N)
    BY <1>0, <1>2, <2>4 DEF Max2
  <2>6. Whole(0, N)
    BY <1>0, <1>2, <2>3, WholeFilled
  <2>7. Whole(0, D)
    BY <1>0, <1>2, <2>3, WholeFilled
  <2> QED BY <2>5, <2>6, <2>7
<1>4. CASE ~r.fresh
  <2>1. net.cursor = 0
    BY <1>0, <1>1, <1>4 DEF Max2
  <2>2. net.ready
    BY <1>4 DEF Asking
  <2>3. Anchor(0)
    BY <2>1, <2>2 DEF Anchor
  <2>4. Whole(0, N) /\ Whole(0, D)
    BY <1>0, <2>3 DEF Fills
  <2> QED BY <1>2, <2>1, <2>4
<1> QED BY <1>3, <1>4

\* An answer that fills the windows breaks nothing that holds of them.
LEMMA FillHolds ==
  ASSUME TypeOK, Asking, Holding, NEW r \in {tail, jump, around}, r.st = "answered", Served(r),
         NEW N, NEW D, Becomes(N, D), Fills(r, N, D),
         log' = log, net' = net, list' = list,
         \A q \in Requested' : q.st = "answered" => q \in Requested
  PROVE  Holding'
<1>0. /\ log \in Nat /\ 0 \in 0 .. log /\ r.at \in 0 .. log /\ r \in Requested
      /\ seen.missed \in 0 .. log /\ net.cursor \in 0 .. log /\ net.cursor \in Nat
      /\ r.fresh \in BOOLEAN
      /\ seen.reach \in 0 .. log /\ store.cursor \in 0 .. log
      /\ LastSeq(store.events) \in 0 .. log /\ LastSeq(db.records) \in 0 .. log
  <2>1. r \in Requested
    BY DEF Requested
  <2> QED BY <2>1, Fields
<1>1. /\ LastSeq(N) \in 0 .. log /\ LastSeq(D) \in 0 .. log /\ LastSeq(N) <= LastSeq(D)
      /\ N \subseteq 1 .. log
      /\ store'.events = BoundLatest(BoundLatest(N, Live), Live)
      /\ LastSeq(store'.events) = LastSeq(N) /\ store'.events \subseteq N
      /\ store'.present /\ store'.hydrated
      /\ store.cursor <= store'.cursor /\ LastSeq(N) <= store'.cursor
      /\ store'.cursor \in 0 .. log
      /\ view'.live = BoundLatest(N, Live)
      /\ LastSeq(view'.live) = LastSeq(N) /\ view'.live \subseteq N
      /\ db'.records = D
      /\ seen'.reach <= LastSeq(N) /\ seen'.missed <= net.cursor
  BY <1>0, FillEnds
<1>2. /\ seen'.reach \in 0 .. log
      /\ seen'.missed = IF ~r.fresh THEN Max2(seen.missed, net.cursor)
                        ELSE IF r.at >= seen.missed THEN 0 ELSE seen.missed
      /\ seen'.missed \in 0 .. log
  BY <1>0, ServedType DEF ReachesOf
<1>3. N \subseteq 1 .. LastSeq(D) /\ D \subseteq 1 .. log
  BY DEF Fills
<1>4. Stored'
  <2>1. view'.visible \subseteq view.visible \cup N \cup D
    BY DEF Becomes
  <2>2. view.visible \subseteq 1 .. LastSeq(db.records)
    BY DEF Holding, Stored
  <2>3. LastSeq(db.records) <= LastSeq(D)
    BY DEF Fills
  <2>4. view.visible \subseteq 1 .. LastSeq(D)
    BY <1>0, <1>1, <2>2, <2>3
  <2>5. D \subseteq 1 .. LastSeq(D)
    BY <1>0, <1>3, LastOf
  <2> QED BY <1>1, <1>3, <2>1, <2>4, <2>5 DEF Stored
<1>5. Reaching'
  <2>1. seen'.reach <= store'.cursor /\ seen'.reach <= LastSeq(D)
    BY <1>0, <1>1, <1>2
  <2>2. LastSeq(N) <= LastSeq(N)
    BY <1>0, <1>1
  <2> QED BY <1>1, <2>1, <2>2 DEF Reaching
<1>6. \A a : Whole(a, N) => Whole(a, store'.events) /\ Whole(a, view'.live)
  <2> SUFFICES ASSUME NEW a, Whole(a, N)
               PROVE  Whole(a, store'.events) /\ Whole(a, view'.live)
    OBVIOUS
  <2> DEFINE B == BoundLatest(N, Live)
  <2>0. Live \in Keepers
    BY DEF Keepers
  <2>1. Whole(a, B) /\ B \subseteq 1 .. log
    BY <1>0, <1>1, <2>0, WholeBounded
  <2>2. store'.events = BoundLatest(B, Live) /\ view'.live = B
    BY <1>1
  <2> HIDE DEF B
  <2> QED BY <1>0, <2>0, <2>1, <2>2, WholeBounded
<1>7. Anchored'
  <2> SUFFICES ASSUME NEW a \in 0 .. log, Anchor(a)'
               PROVE  /\ Covered(a, store.events)'
                      /\ Covered(a, db.records)'
                      /\ Covered(a, view.live)'
    BY DEF Anchored
  <2>1. Whole(a, N) /\ Whole(a, D) /\ net.cursor <= Max2(a, LastSeq(N))
    <3>1. CASE r.fresh /\ r.at >= seen.missed
      <4>1. seen'.missed = 0
        BY <1>2, <3>1
      <4>2. Whole(0, N) /\ Whole(0, D) /\ net.cursor <= LastSeq(N)
        BY <3>1, <4>1, FillWhole
      <4>3. \A s \in Latest(LastSeq(N)) : s > a => s > 0
        <5>1. Latest(LastSeq(N)) \subseteq 1 .. LastSeq(N)
          BY <1>1, LatestIs
        <5> QED BY <5>1
      <4>4. \A s \in Latest(LastSeq(D)) : s > a => s > 0
        <5>1. Latest(LastSeq(D)) \subseteq 1 .. LastSeq(D)
          BY <1>1, LatestIs
        <5> QED BY <5>1
      <4>5. Whole(a, N) /\ Whole(a, D)
        BY <4>2, <4>3, <4>4 DEF Whole
      <4>6. net.cursor <= Max2(a, LastSeq(N))
        BY <1>0, <1>1, <4>2 DEF Max2
      <4> QED BY <4>5, <4>6
    <3>2. CASE ~(r.fresh /\ r.at >= seen.missed)
      <4>1. seen.missed <= seen'.missed
        BY <1>0, <1>2, <3>2 DEF Max2
      <4>2. Anchor(a)
        <5>1. CASE \E q \in Requested' : q.st = "answered" /\ q.fresh /\ q.at = a
                                         /\ a >= seen'.missed
          <6>1. a >= seen'.missed => a >= seen.missed
            BY <1>0, <1>2, <4>1
          <6> QED BY <5>1, <6>1 DEF Anchor
        <5>2. CASE a = 0 /\ net.cursor = 0
                   /\ (net.ready \/ (list.st = "answered" /\ list.at = 0))
          BY <5>2 DEF Anchor
        <5> QED BY <5>1, <5>2 DEF Anchor
      <4>3. Whole(a, N) /\ Whole(a, D)
        BY <4>2 DEF Fills
      <4>4. net.cursor <= Max2(a, LastSeq(store.events))
        BY <4>2 DEF Holding, Anchored, Covered
      <4>5. LastSeq(store.events) <= LastSeq(N)
        BY DEF Fills
      <4>6. net.cursor <= Max2(a, LastSeq(N))
        BY <1>0, <1>1, <4>4, <4>5 DEF Max2
      <4> QED BY <4>3, <4>6
    <3> QED BY <3>1, <3>2
  <2>2. Whole(a, store'.events) /\ Whole(a, view'.live)
    BY <1>6, <2>1
  <2>3. net.cursor <= Max2(a, LastSeq(D))
    BY <1>0, <1>1, <2>1 DEF Max2
  <2> QED BY <1>1, <2>1, <2>2, <2>3 DEF Covered, Whole
<1>8. Hydrated'
  <2> SUFFICES ASSUME seen'.missed = 0
               PROVE  Recent(store.events)' /\ Recent(view.live)'
    BY DEF Hydrated
  <2>1. seen.missed = 0 \/ r.fresh
    BY <1>0, <1>2 DEF Max2
  <2>2. Whole(0, N) /\ net.cursor <= LastSeq(N)
    BY <2>1, FillWhole
  <2>3. Recent(view'.live)
    BY <1>0, <1>1, <2>2, RecentBounded
  <2>4. Recent(store'.events)
    <3>1. Whole(0, store'.events) /\ store'.events \subseteq 1 .. log
      BY <1>1, <1>6, <2>2
    <3> QED BY <1>0, <1>1, <2>2, <3>1, RecentIs
  <2> QED BY <2>3, <2>4 DEF Recent
<1> QED BY <1>4, <1>5, <1>7, <1>8 DEF Holding

\* A tail that has no hole where the windows had none.
LEMMA AnchoredWhole ==
  ASSUME Holding
  PROVE  \A b \in 0 .. log : Anchor(b) =>
           /\ Whole(b, store.events) /\ Whole(b, db.records)
           /\ view.selected => Whole(b, view.live)
BY DEF Holding, Anchored, Covered

\* The answer of a tail request fills them,
LEMMA TailHolds ==
  ASSUME TypeOK, Asking, Holding, ApplyTail
  PROVE  Holding'
<1> DEFINE N == JoinedTail
           D == db.records \cup N
<1>0. /\ log \in Nat /\ tail.at \in 0 .. log /\ tail \in Requested
      /\ store.events \subseteq 1 .. log /\ db.records \subseteq 1 .. log
      /\ LastSeq(store.events) \in 0 .. log
  <2>1. tail \in Requested
    BY DEF Requested
  <2> QED BY <2>1, Fields
<1>1. Becomes(N, D) /\ N \subseteq 1 .. log
  BY ApplyTailStep
<1>2. \A b : Whole(b, store.events) =>
        /\ TailPage(tail.at) \subseteq N /\ Whole(b, N)
        /\ LastSeq(N) = Max2(tail.at, LastSeq(store.events))
  BY <1>0, WholeJoined DEF JoinedTail
<1>3. Whole(log, store.events)
  BY <1>0, WholeAtEnd
<1>4. TailPage(tail.at) \subseteq N /\ LastSeq(N) = Max2(tail.at, LastSeq(store.events))
  BY <1>2, <1>3
<1> HIDE DEF N
<1>5. D \subseteq 1 .. log /\ N \subseteq D
  BY <1>0, <1>1
<1>6. N \subseteq 1 .. LastSeq(D) /\ LastSeq(db.records) <= LastSeq(D)
  <2>1. D \subseteq 1 .. LastSeq(D)
    BY <1>0, <1>5, LastOf
  <2>2. db.records \subseteq D
    OBVIOUS
  <2>3. LastSeq(db.records) <= LastSeq(D)
    BY <1>0, <1>5, <2>2, LastGrows
  <2> QED BY <1>5, <2>1, <2>3
<1>7. \A b \in 0 .. log : Anchor(b) => Whole(b, N) /\ Whole(b, D)
  BY <1>0, <1>1, <1>2, AnchoredWhole, WholeBoth
<1>8. tail.at <= LastSeq(N) /\ LastSeq(store.events) <= LastSeq(N)
  BY <1>0, <1>4 DEF Max2
<1>9. Fills(tail, N, D)
  BY <1>4, <1>5, <1>6, <1>7, <1>8 DEF Fills
<1>10. /\ tail.st = "answered" /\ Served(tail)
       /\ log' = log /\ net' = net /\ list' = list
       /\ \A q \in Requested' : q.st = "answered" => q \in Requested
  BY DEF ApplyTail, Requested, Idle
<1> HIDE DEF D
<1> QED BY <1>1, <1>9, <1>10, FillHolds

\* so does the tail of a link,
LEMMA TargetHolds ==
  ASSUME TypeOK, Asking, Holding, ApplyTarget
  PROVE  Holding'
<1> DEFINE N == JoinedTarget
           E == db.records \cup N
<1>0. /\ log \in Nat /\ around.at \in 0 .. log /\ around \in Requested
      /\ store.events \subseteq 1 .. log /\ db.records \subseteq 1 .. log
      /\ LastSeq(store.events) \in 0 .. log
  <2>1. around \in Requested
    BY DEF Requested
  <2> QED BY <2>1, Fields
<1>1. /\ N \subseteq 1 .. log
      /\ \E A : /\ A \subseteq 1 .. around.at /\ A \subseteq 1 .. log
                /\ Becomes(N, db.records \cup (A \cup N))
  BY ApplyTargetStep
<1>2. PICK A : /\ A \subseteq 1 .. around.at /\ A \subseteq 1 .. log
               /\ Becomes(N, db.records \cup (A \cup N))
  BY <1>1
<1> DEFINE D == E \cup A
<1>3. Becomes(N, D)
  <2>1. D = db.records \cup (A \cup N)
    OBVIOUS
  <2> QED BY <1>2, <2>1
<1>4. TailPage(around.at) \subseteq N /\ TailPage(around.at) \subseteq 1 .. log
      /\ LastSeq(N) = Max2(around.at, LastSeq(store.events))
  <2>1. TailPage(around.at) \subseteq 1 .. around.at /\ LastSeq(TailPage(around.at)) = around.at
    BY <1>0, PageHolds
  <2>2. TailPage(around.at) \subseteq 1 .. log
    BY <1>0, <2>1
  <2>3. LastSeq(N) = Max2(LastSeq(TailPage(around.at)), LastSeq(store.events))
    <3>1. TailPage(around.at) \in SUBSET (1 .. log) /\ store.events \in SUBSET (1 .. log)
      BY <1>0, <2>2
    <3> QED BY <1>0, <3>1, LastOfBoth DEF JoinedTarget
  <2> QED BY <2>1, <2>2, <2>3 DEF JoinedTarget
<1>5. \A b : Whole(b, store.events) => Whole(b, N)
  <2> SUFFICES ASSUME NEW b, Whole(b, store.events) PROVE Whole(b, N)
    OBVIOUS
  <2>1. Whole(b, TailPage(around.at))
    BY <1>0, WholePage
  <2> QED BY <1>0, <1>4, <2>1, WholeBoth DEF JoinedTarget
<1>6. around.at <= LastSeq(N) /\ LastSeq(store.events) <= LastSeq(N)
      /\ LastSeq(N) \in 0 .. log
  BY <1>0, <1>4 DEF Max2
<1> HIDE DEF N
<1>7. E \subseteq 1 .. log /\ LastSeq(E) \in 0 .. log /\ LastSeq(N) <= LastSeq(E)
  <2>1. E \subseteq 1 .. log /\ N \subseteq E
    BY <1>0, <1>1
  <2> QED BY <1>0, <2>1, LastOf, LastGrows
<1>8. A \subseteq 1 .. LastSeq(E)
  BY <1>0, <1>2, <1>6, <1>7
<1>9. \A b \in 0 .. log : Anchor(b) => Whole(b, N) /\ Whole(b, E)
  BY <1>0, <1>1, <1>5, AnchoredWhole, WholeBoth
<1>10. N \subseteq D /\ db.records \subseteq D /\ E \subseteq D
  OBVIOUS
<1> HIDE DEF E
<1>11. \A b \in 0 .. log : Anchor(b) => Whole(b, D)
  BY <1>0, <1>7, <1>8, <1>9, WholeWith
<1>12. D \subseteq 1 .. log
  BY <1>2, <1>7
<1> HIDE DEF D
<1>13. N \subseteq 1 .. LastSeq(D) /\ LastSeq(db.records) <= LastSeq(D)
  <2>1. D \subseteq 1 .. LastSeq(D)
    BY <1>0, <1>12, LastOf
  <2>2. LastSeq(db.records) <= LastSeq(D)
    BY <1>0, <1>10, <1>12, LastGrows
  <2> QED BY <1>10, <2>1, <2>2
<1>14. Fills(around, N, D)
  BY <1>4, <1>6, <1>9, <1>10, <1>11, <1>12, <1>13 DEF Fills
<1>15. /\ around.st = "answered" /\ Served(around)
       /\ log' = log /\ net' = net /\ list' = list
       /\ \A q \in Requested' : q.st = "answered" => q \in Requested
  BY DEF ApplyTarget, Requested, Idle
<1> QED BY <1>3, <1>14, <1>15, FillHolds

\* and so does the one of jumpToLatest.
LEMMA JumpHolds ==
  ASSUME TypeOK, Asking, Holding, ApplyJump, view.selected
  PROVE  Holding'
<1> DEFINE N == JoinedJump
           H == TailPage(jump.at)
           D == db.records \cup H
<1>0. /\ log \in Nat /\ jump.at \in 0 .. log /\ jump \in Requested
      /\ view.live \subseteq 1 .. log /\ db.records \subseteq 1 .. log
      /\ LastSeq(store.events) \in 0 .. log /\ LastSeq(view.live) \in 0 .. log
      /\ LastSeq(db.records) \in 0 .. log
  <2>1. jump \in Requested
    BY DEF Requested
  <2> QED BY <2>1, Fields
<1>1. Becomes(N, D) /\ N \subseteq 1 .. log
  BY ApplyJumpStep
<1>2. \A b : Whole(b, view.live) =>
        /\ TailPage(jump.at) \subseteq N /\ Whole(b, N)
        /\ LastSeq(N) = Max2(jump.at, LastSeq(view.live))
  BY <1>0, WholeJoined DEF JoinedJump
<1>3. Whole(log, view.live)
  BY <1>0, WholeAtEnd
<1>4. TailPage(jump.at) \subseteq N /\ LastSeq(N) = Max2(jump.at, LastSeq(view.live))
  BY <1>2, <1>3
<1>5. H \subseteq 1 .. log /\ D \subseteq 1 .. log /\ \A b : Whole(b, H)
  <2>1. H \subseteq 1 .. jump.at
    BY <1>0, PageHolds
  <2>2. H \subseteq 1 .. log
    BY <1>0, <2>1
  <2> QED BY <1>0, <2>2, WholePage
<1>6. N \subseteq 1 .. LastSeq(D) /\ LastSeq(db.records) <= LastSeq(D)
  <2>1. D \subseteq 1 .. LastSeq(D) /\ LastSeq(D) \in 0 .. log
    BY <1>0, <1>5, LastOf
  <2>2. db.records \subseteq D /\ H \subseteq D
    OBVIOUS
  <2>3. LastSeq(db.records) <= LastSeq(D)
    BY <1>0, <1>5, <2>2, LastGrows
  <2>4. view.live \subseteq 1 .. LastSeq(db.records)
    BY DEF Holding, Stored
  <2>5. view.live \subseteq 1 .. LastSeq(D)
    BY <1>0, <2>1, <2>3, <2>4
  <2>6. N \subseteq H \cup view.live
    BY DEF JoinedJump
  <2> QED BY <2>1, <2>2, <2>3, <2>5, <2>6
<1>7. \A b \in 0 .. log : Anchor(b) => Whole(b, N) /\ Whole(b, D)
  <2> SUFFICES ASSUME NEW b \in 0 .. log, Anchor(b) PROVE Whole(b, N) /\ Whole(b, D)
    OBVIOUS
  <2>1. Whole(b, view.live) /\ Whole(b, db.records)
    BY AnchoredWhole
  <2>2. Whole(b, H)
    BY <1>5
  <2> HIDE DEF H, N
  <2>3. Whole(b, db.records \cup H)
    BY <1>0, <1>5, <2>1, <2>2, WholeBoth
  <2> QED BY <1>2, <2>1, <2>3
<1>8. jump.at <= LastSeq(N) /\ LastSeq(store.events) <= LastSeq(N)
  <2>1. LastSeq(store.events) <= LastSeq(view.live)
    BY DEF Holding, Reaching
  <2> QED BY <1>0, <1>4, <2>1 DEF Max2
<1>9. Fills(jump, N, D)
  BY <1>4, <1>5, <1>6, <1>7, <1>8 DEF Fills
<1>10. /\ jump.st = "answered" /\ Served(jump)
       /\ log' = log /\ net' = net /\ list' = list
       /\ \A q \in Requested' : q.st = "answered" => q \in Requested
  BY ApplyJumpStep DEF ApplyJump, Requested, Idle
<1> HIDE DEF D, N
<1> QED BY <1>1, <1>9, <1>10, FillHolds

-----------------------------------------------------------------------------
(* The stream delivers. *)

\* An event that is delivered is no anchor, and takes none away.
LEMMA DeliverAnchors ==
  ASSUME TypeOK, Holding, Deliver
  PROVE  \A a \in 0 .. log : Anchor(a)' =>
           /\ Anchor(a) /\ a >= seen'.missed
           /\ \E r \in Requested : r.st = "answered" /\ r.at = a
<1> SUFFICES ASSUME NEW a \in 0 .. log, Anchor(a)'
             PROVE  /\ Anchor(a) /\ a >= seen'.missed
                    /\ \E r \in Requested : r.st = "answered" /\ r.at = a
  OBVIOUS
<1>1. /\ log \in Nat /\ net.cursor \in 0 .. log /\ seen.missed \in 0 .. log
  BY Fields
<1>2. net'.cursor # 0
  BY <1>1 DEF Deliver, TypeOK
<1>3. Requested' = Requested
  BY DEF Deliver, Requested, requests
<1>4. seen.missed <= seen'.missed /\ seen'.missed \in Nat
  <2>1. seen.missed <= net.cursor
    BY DEF Holding, Reaching
  <2>2. seen'.missed = seen.missed \/ seen'.missed = net.cursor + 1
    BY DEF Deliver, TypeOK
  <2> QED BY <1>1, <2>1, <2>2
<1>5. PICK r \in Requested : r.st = "answered" /\ r.fresh /\ r.at = a /\ a >= seen'.missed
  BY <1>2, <1>3 DEF Anchor
<1>6. a >= seen.missed
  BY <1>1, <1>4, <1>5
<1> QED BY <1>5, <1>6 DEF Anchor

\* A window that goes as far as the stream takes the next event.
LEMMA CoveredNext ==
  ASSUME TypeOK, NEW W, W \subseteq 1 .. log, NEW a \in 0 .. log, Covered(a, W),
         net.cursor < log
  PROVE  /\ Whole(a, W \cup {net.cursor + 1})
         /\ LastSeq(W \cup {net.cursor + 1}) = Max2(net.cursor + 1, LastSeq(W))
         /\ Whole(a, BoundLatest(W \cup {net.cursor + 1}, Live))
<1> DEFINE c == net.cursor
           V == W \cup {c + 1}
<1>1. log \in Nat /\ c \in 0 .. log /\ c \in 0 .. (log - 1)
  BY Fields
<1>2. Whole(a, V) /\ LastSeq(V) = Max2(c + 1, LastSeq(W))
  BY <1>1, WholeNext DEF Covered
<1>3. V \subseteq 1 .. log
  <2>1. c + 1 \in 1 .. log
    BY <1>1
  <2> QED BY <2>1
<1>4. Live \in Keepers
  BY DEF Keepers
<1> HIDE DEF V
<1>5. Whole(a, BoundLatest(V, Live))
  BY <1>1, <1>2, <1>3, <1>4, WholeBounded
<1> QED BY <1>2, <1>5 DEF V

\* The next event of a window, as far as its end goes.
LEMMA NextEnds ==
  ASSUME TypeOK, net.cursor < log, NEW W, W \subseteq 1 .. log
  PROVE  /\ W \cup {net.cursor + 1} \subseteq 1 .. log
         /\ LastSeq(W \cup {net.cursor + 1}) = Max2(LastSeq(W), net.cursor + 1)
         /\ BoundLatest(W \cup {net.cursor + 1}, Live) \subseteq W \cup {net.cursor + 1}
         /\ LastSeq(BoundLatest(W \cup {net.cursor + 1}, Live)) = Max2(LastSeq(W), net.cursor + 1)
<1> DEFINE e == net.cursor + 1
           V == W \cup {e}
<1>1. log \in Nat /\ net.cursor \in 0 .. log /\ e \in 1 .. log
  BY Fields
<1>2. {e} \subseteq 1 .. log /\ V \subseteq 1 .. log
  BY <1>1
<1>3. LastSeq({e}) = e
  BY <1>1, <1>2, LastIs
<1>4. LastSeq(V) = Max2(LastSeq(W), e)
  <2>0. W \in SUBSET (1 .. log) /\ {e} \in SUBSET (1 .. log) /\ log \in Nat
    BY <1>1, <1>2
  <2> HIDE DEF e
  <2>1. LastSeq(W \cup {e}) = Max2(LastSeq(W), LastSeq({e}))
    BY <2>0, LastOfBoth
  <2> QED BY <1>3, <2>1
<1> HIDE DEF V
<1>5. BoundLatest(V, Live) \subseteq V /\ LastSeq(BoundLatest(V, Live)) = LastSeq(V)
  BY <1>1, <1>2, Bounded
<1> QED BY <1>2, <1>4, <1>5 DEF V

\* The page takes an event that its tail has not.
LEMMA IngestHolds ==
  ASSUME TypeOK, Asking, Holding, Deliver, net.cursor + 1 > store.cursor
  PROVE  Holding'
<1> DEFINE e == net.cursor + 1
           S == store.events
           R == db.records
           V == view.live
<1>0. /\ log \in Nat /\ net.cursor \in 0 .. log /\ net.cursor < log /\ 0 \in 0 .. log
      /\ S \subseteq 1 .. log /\ R \subseteq 1 .. log /\ V \subseteq 1 .. log
      /\ LastSeq(S) \in 0 .. log /\ LastSeq(R) \in 0 .. log /\ LastSeq(V) \in 0 .. log
      /\ store.cursor \in 0 .. log /\ seen.reach \in 0 .. log /\ seen.missed \in 0 .. log
      /\ store \in TailsOf(log) /\ view \in ViewsOf(log) /\ db \in StoragesOf(log)
      /\ net \in NetsOf(log)
      /\ view.selected \in BOOLEAN
  <2>1. store \in TailsOf(log) /\ view \in ViewsOf(log) /\ db \in StoragesOf(log)
        /\ net \in NetsOf(log)
    BY DEF TypeOK, StoragesOf, NetsOf
  <2>2. net.cursor < log
    BY DEF Deliver
  <2> QED BY <2>1, <2>2, Fields
<1>a. e \in 1 .. log /\ e \in 0 .. log /\ {e} \in SUBSET (1 .. log)
  BY <1>0
<1>1. /\ net'.cursor = e /\ seen' = seen /\ due' = due /\ log' = log /\ list' = list
      /\ net'.ready = net.ready /\ net'.reachable = net.reachable
      /\ store' = Ingested(store, e) /\ db' = Put(db, {e}, e)
      /\ view' = IF view.selected THEN Applied(view, e) ELSE view
      /\ Requested' = Requested
  BY <1>0 DEF Deliver, NetsOf, Requested, requests
<1>2. /\ store'.present /\ store'.cursor = e /\ store'.hydrated = store.hydrated
      /\ store'.events = BoundLatest(S \cup {e}, Live)
  <2> HIDE DEF e
  <2> QED BY <1>0, <1>a, <1>1, IngestedType
<1>3. db'.records = R \cup {e}
  <2> HIDE DEF e
  <2> QED BY <1>0, <1>a, <1>1, PutType
<1>4. /\ view.selected => view'.live = BoundLatest(V \cup {e}, Live)
                          /\ view'.visible \subseteq view.visible \cup {e}
      /\ ~view.selected => view' = view /\ V = {} /\ ~view.hydrated
      /\ view'.selected = view.selected /\ view'.hydrated = view.hydrated
      /\ view'.target = view.target
  <2>1. CASE view.selected
    <3>1. view' = Applied(view, e)
      BY <1>1, <2>1
    <3> HIDE DEF e
    <3>2. LET w == Applied(view, e)
          IN  /\ w.live = BoundLatest(view.live \cup {e}, Live)
              /\ w.selected = view.selected /\ w.hydrated = view.hydrated
              /\ w.target = view.target /\ w.visible \subseteq view.visible \cup {e}
      BY <1>0, <1>a, AppliedType
    <3> QED BY <2>1, <3>1, <3>2
  <2>2. CASE ~view.selected
    BY <1>1, <2>2 DEF Asking, NoView
  <2> QED BY <2>1, <2>2
<1>5. \A W \in {S, R, V} :
        /\ W \cup {e} \subseteq 1 .. log /\ LastSeq(W \cup {e}) = Max2(LastSeq(W), e)
        /\ BoundLatest(W \cup {e}, Live) \subseteq W \cup {e}
        /\ LastSeq(BoundLatest(W \cup {e}, Live)) = Max2(LastSeq(W), e)
  BY <1>0, NextEnds
<1>b. \A W \in {S, R, V}, a \in 0 .. log : Covered(a, W) =>
        Whole(a, W \cup {e}) /\ Whole(a, BoundLatest(W \cup {e}, Live))
  <2> SUFFICES ASSUME NEW W \in {S, R, V}, NEW a \in 0 .. log, Covered(a, W)
               PROVE  Whole(a, W \cup {e}) /\ Whole(a, BoundLatest(W \cup {e}, Live))
    OBVIOUS
  <2>1. W \subseteq 1 .. log /\ net.cursor < log
    BY <1>0
  <2> QED BY <2>1, CoveredNext
<1>6. Stored'
  <2>1. LastSeq(R \cup {e}) = Max2(LastSeq(R), e)
    BY <1>5
  <2>2. /\ S \subseteq 1 .. LastSeq(R) /\ V \subseteq 1 .. LastSeq(R)
        /\ view.visible \subseteq 1 .. LastSeq(R)
    BY DEF Holding, Stored
  <2>3. 1 .. LastSeq(R) \subseteq 1 .. LastSeq(R \cup {e}) /\ e \in 1 .. LastSeq(R \cup {e})
    BY <1>0, <1>a, <2>1 DEF Max2
  <2>4. /\ store'.events \subseteq S \cup {e}
        /\ view'.live \subseteq V \cup {e} /\ view'.visible \subseteq view.visible \cup {e}
    BY <1>2, <1>4, <1>5
  <2> HIDE DEF e, S, R, V
  <2>5. /\ store'.events \subseteq 1 .. LastSeq(R \cup {e})
        /\ view'.live \subseteq 1 .. LastSeq(R \cup {e})
        /\ view'.visible \subseteq 1 .. LastSeq(R \cup {e})
    BY <2>2, <2>3, <2>4
  <2> QED BY <1>3, <2>5 DEF Stored
<1>7. Reaching'
  <2>1. LastSeq(S) <= store.cursor /\ seen.missed <= net.cursor /\ seen.reach <= store.cursor
        /\ seen.reach <= LastSeq(R)
    BY DEF Holding, Reaching
  <2>2. /\ LastSeq(store'.events) = e /\ LastSeq(db'.records) = Max2(LastSeq(R), e)
        /\ view.selected => LastSeq(view'.live) = Max2(LastSeq(V), e)
    <3>1. LastSeq(store'.events) = Max2(LastSeq(S), e)
      BY <1>2, <1>5
    <3>2. LastSeq(db'.records) = Max2(LastSeq(R), e)
      BY <1>3, <1>5
    <3>3. view.selected => LastSeq(view'.live) = Max2(LastSeq(V), e)
      BY <1>4, <1>5
    <3> QED BY <1>0, <2>1, <3>1, <3>2, <3>3 DEF Max2
  <2>3. /\ LastSeq(store'.events) <= store'.cursor /\ seen'.missed <= net'.cursor
        /\ seen'.reach <= store'.cursor /\ seen'.reach <= LastSeq(db'.records)
        /\ seen'.reach <= LastSeq(store'.events)
    BY <1>0, <1>1, <1>2, <2>1, <2>2 DEF Max2
  <2>4. view.selected => LastSeq(store'.events) <= LastSeq(view'.live)
                         /\ seen'.reach <= LastSeq(view'.live)
    BY <1>0, <1>1, <2>1, <2>2 DEF Max2
  <2> QED BY <1>2, <1>4, <2>3, <2>4 DEF Reaching
<1>8. Anchored'
  <2> SUFFICES ASSUME NEW a \in 0 .. log, Anchor(a)'
               PROVE  /\ Covered(a, store.events)'
                      /\ Covered(a, db.records)'
                      /\ (view.selected => Covered(a, view.live))'
    BY <1>1 DEF Anchored
  <2>1. Anchor(a)
    BY DeliverAnchors
  <2>2. Covered(a, S) /\ Covered(a, R) /\ (view.selected => Covered(a, V))
    BY <2>1 DEF Holding, Anchored
  <2>3. /\ Whole(a, store'.events) /\ Whole(a, db'.records)
        /\ view.selected => Whole(a, view'.live)
    BY <1>2, <1>3, <1>4, <1>b, <2>2
  <2>4. /\ e <= LastSeq(store'.events) /\ e <= LastSeq(db'.records)
        /\ view.selected => e <= LastSeq(view'.live)
    BY <1>0, <1>2, <1>3, <1>4, <1>5 DEF Max2
  <2>5. /\ LastSeq(store'.events) \in Nat /\ LastSeq(db'.records) \in Nat
        /\ view.selected => LastSeq(view'.live) \in Nat
    BY <1>0, <1>2, <1>3, <1>4, <1>5 DEF Max2
  <2>6. /\ e <= Max2(a, LastSeq(store'.events)) /\ e <= Max2(a, LastSeq(db'.records))
        /\ view.selected => e <= Max2(a, LastSeq(view'.live))
    BY <1>0, <2>4, <2>5 DEF Max2
  <2> QED BY <1>1, <1>4, <2>3, <2>6 DEF Covered, Whole
<1>9. Hydrated'
  <2> SUFFICES ASSUME seen'.missed = 0
               PROVE  /\ store'.hydrated => Recent(store.events)'
                      /\ Resting' => Recent(view.live)'
    BY DEF Hydrated, Resting
  <2>1. CanLoad' = CanLoad
    BY <1>1 DEF CanLoad
  <2>2. Resting' => Resting
    BY <1>1, <1>4, <2>1 DEF Resting
  <2>3. (store.hydrated => Covered(0, S)) /\ (Resting => Covered(0, V))
    <3>1. (store.hydrated => Recent(S)) /\ (Resting => Recent(V))
      BY <1>1 DEF Holding, Hydrated, Resting
    <3> QED BY <1>0, <3>1, CoveredIs
  <2>4. Resting' => view.selected
    BY <1>4, <2>2 DEF Resting
  <2>5. /\ store.hydrated => Whole(0, store'.events)
        /\ Resting' => Whole(0, view'.live)
    BY <1>0, <1>2, <1>4, <1>b, <2>2, <2>3, <2>4
  <2>6. /\ e <= LastSeq(store'.events)
        /\ view.selected => e <= LastSeq(view'.live)
    BY <1>0, <1>2, <1>4, <1>5 DEF Max2
  <2>7. \A W : W \subseteq 1 .. log /\ Whole(0, W) /\ e <= LastSeq(W) =>
          e <= LastSeq(W) /\ Latest(LastSeq(W)) \subseteq W
    <3> SUFFICES ASSUME NEW W, W \subseteq 1 .. log, Whole(0, W)
                 PROVE  Latest(LastSeq(W)) \subseteq W
      OBVIOUS
    <3>1. LastSeq(W) \in 0 .. log
      BY <1>0, LastOf
    <3>2. Latest(LastSeq(W)) \subseteq 1 .. LastSeq(W)
      BY <3>1, LatestIs
    <3> QED BY <3>1, <3>2 DEF Whole
  <2>8. store'.events \subseteq 1 .. log /\ (view.selected => view'.live \subseteq 1 .. log)
    BY <1>2, <1>4, <1>5, ZenonT(40)
  <2>9. store'.hydrated => Recent(store.events)'
    BY <1>1, <1>2, <2>5, <2>6, <2>7, <2>8 DEF Recent
  <2>10. Resting' => Recent(view.live)'
    BY <1>1, <2>4, <2>5, <2>6, <2>7, <2>8 DEF Recent
  <2> QED BY <2>9, <2>10
<1> QED BY <1>6, <1>7, <1>8, <1>9 DEF Holding

\* The page turns an event away that its tail ought to have.
LEMMA TurnedAwayHolds ==
  ASSUME TypeOK, Asking, Holding, Deliver, ~(net.cursor + 1 > store.cursor)
  PROVE  Holding'
<1> DEFINE e == net.cursor + 1
<1>0. /\ log \in Nat /\ net.cursor \in 0 .. log /\ e \in 1 .. log /\ 0 \in 0 .. log
      /\ store.events \subseteq 1 .. log /\ view.live \subseteq 1 .. log
      /\ LastSeq(store.events) \in 0 .. log /\ LastSeq(db.records) \in 0 .. log
      /\ LastSeq(view.live) \in 0 .. log
      /\ seen.reach \in 0 .. log /\ seen.missed \in 0 .. log /\ seen \in ReachesOf(log)
      /\ net \in NetsOf(log)
      /\ store.present \in BOOLEAN
  <2>1. seen \in ReachesOf(log) /\ net \in NetsOf(log)
    BY DEF TypeOK, ReachesOf, NetsOf
  <2>2. net.cursor < log
    BY DEF Deliver
  <2> QED BY <2>1, <2>2, Fields
<1>1. /\ net'.cursor = e /\ due' = due /\ log' = log /\ list' = list
      /\ net'.ready = net.ready /\ net'.reachable = net.reachable
      /\ store' = store /\ db' = db /\ view' = view
      /\ seen' = IF e > seen.reach THEN [seen EXCEPT !.missed = e] ELSE seen
      /\ Requested' = Requested
  BY <1>0 DEF Deliver, NetsOf, Requested, requests
<1>2. /\ seen'.reach = seen.reach
      /\ seen'.missed = IF e > seen.reach THEN e ELSE seen.missed
  BY <1>0, <1>1 DEF ReachesOf
<1>3. Stored'
  BY <1>1 DEF Holding, Stored
<1>4. Reaching'
  <2>1. seen.missed <= net.cursor
    BY DEF Holding, Reaching
  <2>2. seen'.missed <= net'.cursor
    BY <1>0, <1>1, <1>2, <2>1
  <2> QED BY <1>1, <1>2, <2>2 DEF Holding, Reaching
<1>5. \A a \in 0 .. log : Anchor(a)' => Anchor(a) /\ (e <= a \/ e <= seen.reach)
  <2> SUFFICES ASSUME NEW a \in 0 .. log, Anchor(a)'
               PROVE  Anchor(a) /\ (e <= a \/ e <= seen.reach)
    OBVIOUS
  <2>1. Anchor(a) /\ a >= seen'.missed
    BY DeliverAnchors
  <2> QED BY <1>0, <1>2, <2>1
<1>6. Anchored'
  <2> SUFFICES ASSUME NEW a \in 0 .. log, Anchor(a)'
               PROVE  /\ Covered(a, store.events)'
                      /\ Covered(a, db.records)'
                      /\ (view.selected => Covered(a, view.live))'
    BY <1>1 DEF Anchored
  <2>1. Anchor(a) /\ (e <= a \/ e <= seen.reach)
    BY <1>5
  <2>2. Covered(a, store.events) /\ Covered(a, db.records)
        /\ (view.selected => Covered(a, view.live))
    BY <2>1 DEF Holding, Anchored
  <2>3. /\ seen.reach <= LastSeq(db.records)
        /\ store.present => seen.reach <= LastSeq(store.events)
        /\ view.selected => LastSeq(store.events) <= LastSeq(view.live)
    BY DEF Holding, Reaching
  <2>4. ~store.present => seen.reach <= a
    <3>1. \E r \in Requested : r.st = "answered" /\ r.at = a
      BY DeliverAnchors
    <3> QED BY <3>1 DEF Holding, Reaching
  <2>5. e <= a \/ (e <= LastSeq(db.records) /\ e <= LastSeq(store.events)
                   /\ (view.selected => e <= LastSeq(view.live)))
    BY <1>0, <2>1, <2>3, <2>4
  <2>6. /\ e <= Max2(a, LastSeq(store.events)) /\ e <= Max2(a, LastSeq(db.records))
        /\ view.selected => e <= Max2(a, LastSeq(view.live))
    BY <1>0, <2>5 DEF Max2
  <2> QED BY <1>1, <2>2, <2>6 DEF Covered, Whole
<1>7. Hydrated'
  <2> SUFFICES ASSUME seen'.missed = 0
               PROVE  /\ store'.hydrated => Recent(store.events)'
                      /\ Resting' => Recent(view.live)'
    BY DEF Hydrated, Resting
  <2>1. seen.missed = 0 /\ e <= seen.reach
    BY <1>0, <1>2
  <2>2. CanLoad' = CanLoad
    BY <1>1 DEF CanLoad
  <2>3. Resting' => Resting /\ view.hydrated
    BY <1>1, <2>2 DEF Resting
  <2>4. /\ store.hydrated => seen.reach <= LastSeq(store.events)
        /\ view.hydrated => seen.reach <= LastSeq(view.live)
    BY DEF Holding, Reaching
  <2>5. /\ store.hydrated => e <= LastSeq(store.events)
        /\ view.hydrated => e <= LastSeq(view.live)
    BY <1>0, <2>1, <2>4
  <2>6. (store.hydrated => Recent(store.events)) /\ (Resting => Recent(view.live))
    BY <2>1 DEF Holding, Hydrated, Resting
  <2>7. store'.hydrated => Recent(store.events)'
    BY <1>1, <2>5, <2>6 DEF Recent
  <2>8. Resting' => Recent(view.live)'
    BY <1>1, <2>3, <2>5, <2>6 DEF Recent
  <2> QED BY <2>7, <2>8
<1> QED BY <1>3, <1>4, <1>6, <1>7 DEF Holding

-----------------------------------------------------------------------------
(* Boundaries, storage, pages and restarts. *)

\* A boundary makes every answer stale that was asked for before it.
LEMMA BoundaryHolds ==
  ASSUME TypeOK, Asking, Holding, ApplyList, ~net.ready \/ list.resync
  PROVE  Holding'
<1>0. /\ log \in Nat /\ net.cursor \in 0 .. log /\ list.at \in 0 .. log /\ 0 \in 0 .. log
      /\ store \in TailsOf(log) /\ LastSeq(view.live) \in 0 .. log
      /\ seen.missed \in 0 .. log
      /\ tail \in RequestsOf(log) /\ jump \in RequestsOf(log) /\ around \in RequestsOf(log)
  BY Fields DEF TypeOK, Requested
<1>1. /\ net'.cursor = Max2(net.cursor, list.at) /\ due' = TRUE
      /\ list'.st = "idle" /\ list.st = "answered"
      /\ log' = log /\ view' = view /\ db' = db /\ seen' = seen
      /\ Invalidate
  BY DEF ApplyList, TypeOK
<1>2. /\ store'.events = store.events /\ store'.cursor = store.cursor
      /\ store'.present = store.present /\ ~store'.hydrated
  BY <1>0, <1>1 DEF Invalidate, InvalidateTail, TailsOf
<1>3. /\ \A r \in Requested' : r.st = "answered" => ~r.fresh
      /\ \A r \in Requested' : r.st = "answered" =>
           \E q \in Requested : q.st = "answered" /\ q.at = r.at
  <2>1. memo'.st = "idle"
    BY <1>1 DEF Invalidate, Idle
  <2>2. /\ ~tail'.fresh /\ ~jump'.fresh /\ ~around'.fresh
        /\ tail'.st = tail.st /\ tail'.at = tail.at
        /\ jump'.st = jump.st /\ jump'.at = jump.at
        /\ around'.st = around.st /\ around'.at = around.at
    BY <1>0, <1>1 DEF Invalidate, RequestsOf
  <2> QED BY <2>1, <2>2 DEF Requested
<1>4. net'.cursor \in Nat /\ net.cursor <= net'.cursor
      /\ (net'.cursor = 0 => net.cursor = 0 /\ list.at = 0)
  BY <1>0, <1>1 DEF Max2
<1>5. Stored'
  BY <1>1, <1>2 DEF Holding, Stored
<1>6. Reaching'
  <2>1. seen'.missed <= net'.cursor
    <3>1. seen.missed <= net.cursor
      BY DEF Holding, Reaching
    <3> QED BY <1>0, <1>1, <1>4, <3>1
  <2>2. (~store.present => \A r \in Requested : r.st = "answered" => seen.reach <= r.at)'
    BY <1>1, <1>2, <1>3 DEF Holding, Reaching
  <2> QED BY <1>1, <1>2, <2>1, <2>2 DEF Holding, Reaching
<1>7. Anchored'
  <2> SUFFICES ASSUME NEW a \in 0 .. log, Anchor(a)'
               PROVE  /\ Covered(a, store.events)'
                      /\ Covered(a, db.records)'
                      /\ (view.selected => Covered(a, view.live))'
    BY <1>1 DEF Anchored
  <2>1. a = 0 /\ net'.cursor = 0
    BY <1>3 DEF Anchor
  <2>2. Anchor(0) /\ net'.cursor = net.cursor
    BY <1>1, <1>4, <2>1 DEF Anchor
  <2>3. /\ Covered(0, store.events) /\ Covered(0, db.records)
        /\ view.selected => Covered(0, view.live)
    BY <1>0, <2>2 DEF Holding, Anchored
  <2> QED BY <1>1, <1>2, <2>1, <2>2, <2>3 DEF Covered, Whole
<1>8. Hydrated'
  BY <1>1, <1>2 DEF Hydrated
<1> QED BY <1>5, <1>6, <1>7, <1>8 DEF Holding

\* What storage gives back has no hole where storage has none, and ends with it.
LEMMA FromStorageIs ==
  ASSUME TypeOK, Holding
  PROVE  /\ FromStorage \subseteq 1 .. LastSeq(db.records) /\ FromStorage \subseteq 1 .. log
         /\ LastSeq(FromStorage) = LastSeq(db.records)
         /\ \A a \in 0 .. log : Anchor(a) => Whole(a, FromStorage)
<1> DEFINE R == db.records
           C == BoundLatest(R, Cached)
           U == C \cup store.events
<1>0. /\ log \in Nat /\ R \subseteq 1 .. log /\ store.events \subseteq 1 .. log
      /\ LastSeq(R) \in 0 .. log /\ LastSeq(store.events) \in 0 .. log
  BY Fields
<1>1. Cached \in Keepers
  BY DEF Keepers
<1>2. C \subseteq R /\ LastSeq(C) = LastSeq(R)
  BY <1>0, Bounded
<1>3. store.events \subseteq 1 .. LastSeq(R) /\ R \subseteq 1 .. LastSeq(R)
  <2>1. R \subseteq 1 .. LastSeq(R)
    BY <1>0, LastOf
  <2> QED BY <2>1 DEF Holding, Stored
<1>4. LastSeq(store.events) <= LastSeq(R)
  <2>1. LastSeq(R) \in Nat
    BY <1>0
  <2>2. LastSeq(store.events) \in 0 .. LastSeq(R)
    BY <1>3, <2>1, LastOf
  <2> QED BY <2>1, <2>2
<1>5. \A a \in 0 .. log : Anchor(a) => Whole(a, C) /\ Whole(a, store.events)
  BY <1>0, <1>1, AnchoredWhole, WholeBounded
<1> HIDE DEF C
<1>6. U \subseteq 1 .. log /\ U \subseteq 1 .. LastSeq(R)
  BY <1>0, <1>2, <1>3
<1>7. LastSeq(U) = LastSeq(R)
  <2>1. C \subseteq 1 .. log
    BY <1>0, <1>2
  <2>2. LastSeq(U) = Max2(LastSeq(C), LastSeq(store.events))
    <3>1. C \in SUBSET (1 .. log) /\ store.events \in SUBSET (1 .. log)
      BY <1>0, <2>1
    <3> QED BY <1>0, <3>1, LastOfBoth
  <2> QED BY <1>0, <1>2, <1>4, <2>2 DEF Max2
<1>8. \A a \in 0 .. log : Anchor(a) => Whole(a, U)
  <2>1. C \subseteq 1 .. log
    BY <1>0, <1>2
  <2> QED BY <1>0, <1>5, <2>1, WholeBoth
<1>9. FromStorage = BoundLatest(U, Cached)
  BY DEF FromStorage, C
<1> HIDE DEF U
<1>10. FromStorage \subseteq U /\ LastSeq(FromStorage) = LastSeq(U)
  BY <1>0, <1>6, <1>9, Bounded
<1>11. \A a \in 0 .. log : Anchor(a) => Whole(a, FromStorage)
  BY <1>0, <1>1, <1>6, <1>8, <1>9, WholeBounded
<1> QED BY <1>6, <1>7, <1>10, <1>11

\* Hydration paints windows that have no hole where storage has none.
LEMMA HydrateHolds ==
  ASSUME TypeOK, Asking, Holding, Hydrate
  PROVE  Holding'
<1>0. /\ log \in Nat /\ store \in TailsOf(log) /\ store.cursor \in 0 .. log
      /\ seen.reach \in 0 .. log /\ LastSeq(db.records) \in 0 .. log
      /\ net.cursor \in 0 .. log /\ db.records \subseteq 1 .. log
  BY Fields DEF TypeOK
<1>1. Joins /\ jump' = jump /\ log' = log /\ net' = net /\ list' = list /\ db' = db
      /\ seen' = seen /\ due' = due /\ view'.selected = view.selected /\ view.selected
  <2>1. Joins /\ view'.selected = view.selected
    BY HydrateStep
  <2>2. view.selected
    BY DEF Hydrate, Asking, NoView
  <2> QED BY <2>1, <2>2 DEF Hydrate
<1>2. Waiting
  BY <1>1, JoinsWait
<1>3. CanLoad' = CanLoad
  BY <1>1 DEF CanLoad
<1>4. CASE /\ store' = store /\ view'.live = view.live /\ view'.visible = view.visible
           /\ view'.target = view.target
           /\ view'.hydrated => view.hydrated /\ ~CanLoad
  <2>1. Stored /\ view'.visible \subseteq 1 .. LastSeq(db.records)
    BY <1>4 DEF Holding, Stored
  <2>2. ViewKept
    BY <1>1, <1>3, <1>4, <2>1, ViewSame
  <2>3. WindowsKept
    BY <1>1, <1>4, WindowsSame
  <2> QED BY <1>2, <2>2, <2>3, Frame
<1>5. CASE /\ view'.live = FromStorage /\ view'.visible = FromStorage /\ ~view'.hydrated
           /\ \E last \in 0 .. log : store' = Seed(store, FromStorage, last, FALSE)
  <2> DEFINE W == FromStorage
  <2>1. /\ W \subseteq 1 .. LastSeq(db.records) /\ W \subseteq 1 .. log
        /\ LastSeq(W) = LastSeq(db.records)
        /\ \A a \in 0 .. log : Anchor(a) => Whole(a, W)
    BY FromStorageIs
  <2>2. PICK last \in 0 .. log : store' = Seed(store, W, last, FALSE)
    BY <1>5
  <2> HIDE DEF W
  <2>3. /\ store' \in TailsOf(log) /\ store'.events = BoundLatest(W, Live) /\ store'.present
        /\ ~store'.hydrated /\ store.cursor <= store'.cursor /\ LastSeq(W) <= store'.cursor
    BY <1>0, <2>1, <2>2, SeedType
  <2>4. store'.cursor \in 0 .. log
    BY <2>3 DEF TailsOf
  <2>5. store'.events \subseteq W /\ LastSeq(store'.events) = LastSeq(W)
    BY <1>0, <2>1, <2>3, Bounded
  <2>6. \A a \in 0 .. log : Anchor(a) => Whole(a, store'.events)
    <3>1. Live \in Keepers
      BY DEF Keepers
    <3> QED BY <1>0, <2>1, <2>3, <3>1, WholeBounded
  <2>7. view'.live = W /\ view'.visible = W
    BY <1>5 DEF W
  <2>8. Stored'
    BY <1>1, <2>1, <2>5, <2>7 DEF Stored
  <2>9. Reaching'
    <3>1. seen.reach <= store.cursor /\ seen.reach <= LastSeq(db.records)
          /\ seen.missed <= net.cursor
      BY DEF Holding, Reaching
    <3>2. seen.reach <= store'.cursor /\ LastSeq(W) <= LastSeq(W)
      BY <1>0, <2>1, <2>3, <2>4, <3>1
    <3> QED BY <1>1, <1>5, <2>1, <2>3, <2>5, <2>7, <3>1, <3>2 DEF Reaching
  <2>10. Anchored'
    <3> SUFFICES ASSUME NEW a \in 0 .. log, Anchor(a)'
                 PROVE  /\ Covered(a, store.events)'
                        /\ Covered(a, db.records)'
                        /\ Covered(a, view.live)'
      BY <1>1 DEF Anchored
    <3>1. Anchor(a)
      <4>1. CASE \E r \in Requested' : r.st = "answered" /\ r.fresh /\ r.at = a
                                       /\ a >= seen.missed
        <5>1. PICK r \in Requested' : r.st = "answered" /\ r.fresh /\ r.at = a
                                      /\ a >= seen.missed
          BY <4>1
        <5>2. r = jump \/ (memo.st = "answered" /\ memo.at = a /\ memo.fresh)
          BY <1>1, <5>1 DEF Joins, Asking, Requested
        <5> QED BY <5>1, <5>2 DEF Anchor, Requested
      <4>2. CASE a = 0 /\ net.cursor = 0
                 /\ (net.ready \/ (list.st = "answered" /\ list.at = 0))
        BY <4>2 DEF Anchor
      <4> QED BY <1>1, <4>1, <4>2 DEF Anchor
    <3>2. Covered(a, db.records) /\ Whole(a, W) /\ Whole(a, store'.events)
      BY <2>1, <2>6, <3>1 DEF Holding, Anchored
    <3>3. net.cursor <= Max2(a, LastSeq(W))
      BY <2>1, <3>2 DEF Covered
    <3> QED BY <1>1, <2>5, <2>7, <3>2, <3>3 DEF Covered, Whole
  <2>11. Hydrated'
    BY <1>5, <2>3 DEF Hydrated
  <2> QED BY <2>8, <2>9, <2>10, <2>11 DEF Holding
<1> QED BY <1>4, <1>5, HydrateStep

\* A page that was read lengthens what is stored, without a hole.
LEMMA FetchedHolds ==
  ASSUME TypeOK, Asking, Holding, ApplyPage, view.selected
  PROVE  Holding'
<1> DEFINE R == db.records
           C == Fetched
<1>0. /\ log \in Nat /\ R \subseteq 1 .. log /\ LastSeq(R) \in 0 .. log
      /\ page.from \in 0 .. log /\ page.at \in 0 .. log /\ page.kind \in {"older", "newer"}
      /\ net.cursor \in 0 .. log /\ seen.reach \in 0 .. log
      /\ C \subseteq 1 .. log
  BY Fields, ApplyPageStep
<1>1. /\ view'.selected = view.selected /\ view'.live = view.live
      /\ view'.hydrated = view.hydrated /\ view'.target = view.target
      /\ view'.visible \subseteq view.visible \cup C
      /\ db'.records = R \cup C
  BY ApplyPageStep
<1>2. /\ log' = log /\ net' = net /\ list' = list /\ store' = store /\ due' = due
      /\ seen' = seen /\ Requested' = Requested /\ page.st = "answered"
  BY DEF ApplyPage, Requested
<1>3. \A a : Whole(a, R) => Whole(a, R \cup C)
  <2> SUFFICES ASSUME NEW a, Whole(a, R) PROVE Whole(a, R \cup C)
    OBVIOUS
  <2>1. CASE page.kind = "older"
    <3>1. page.from > 0
      BY <1>2, <2>1 DEF Asking
    <3>2. page.from - 1 \in Nat /\ C = TailPage(page.from - 1)
      BY <1>0, <2>1, <3>1 DEF Fetched, PageBefore, TailPage
    <3>3. Whole(a, C)
      BY <3>2, WholePage
    <3> QED BY <1>0, <3>3, WholeBoth
  <2>2. CASE page.kind = "newer"
    <3>1. page.from <= LastSeq(R) /\ C = PageAfter(page.from, page.at)
      BY <1>2, <2>2 DEF Asking, Fetched
    <3> QED BY <1>0, <3>1, WholeNewer
  <2> QED BY <1>0, <2>1, <2>2
<1>4. /\ R \cup C \subseteq 1 .. log /\ LastSeq(R \cup C) \in 0 .. log
      /\ LastSeq(R) <= LastSeq(R \cup C) /\ R \cup C \subseteq 1 .. LastSeq(R \cup C)
  <2>1. R \cup C \subseteq 1 .. log /\ R \subseteq R \cup C
    BY <1>0
  <2> HIDE DEF R, C
  <2> QED BY <1>0, <2>1, LastOf, LastGrows
<1>5. Stored'
  <2>1. 1 .. LastSeq(R) \subseteq 1 .. LastSeq(R \cup C)
    BY <1>0, <1>4
  <2>2. /\ store.events \subseteq 1 .. LastSeq(R) /\ view.live \subseteq 1 .. LastSeq(R)
        /\ view.visible \subseteq 1 .. LastSeq(R)
    BY DEF Holding, Stored
  <2>3. C \subseteq 1 .. LastSeq(R \cup C)
    BY <1>4
  <2> HIDE DEF R, C
  <2>4. /\ store'.events \subseteq 1 .. LastSeq(R \cup C)
        /\ view'.live \subseteq 1 .. LastSeq(R \cup C)
        /\ view'.visible \subseteq 1 .. LastSeq(R \cup C)
    BY <1>1, <1>2, <2>1, <2>2, <2>3
  <2> QED BY <1>1, <2>4 DEF Stored
<1>6. Reaching'
  <2>1. seen.reach <= LastSeq(R \cup C)
    <3>1. seen.reach <= LastSeq(R)
      BY DEF Holding, Reaching
    <3> QED BY <1>0, <1>4, <3>1
  <2> QED BY <1>1, <1>2, <2>1 DEF Holding, Reaching
<1>7. Anchored'
  <2> SUFFICES ASSUME NEW a \in 0 .. log, Anchor(a)'
               PROVE  /\ Covered(a, store.events)'
                      /\ Covered(a, db.records)'
                      /\ Covered(a, view.live)'
    BY <1>2 DEF Anchored
  <2>1. Anchor(a)
    BY <1>2 DEF Anchor
  <2>2. Covered(a, store.events) /\ Covered(a, R) /\ Covered(a, view.live)
    BY <2>1 DEF Holding, Anchored
  <2>3. Whole(a, R \cup C)
    BY <1>3, <2>2 DEF Covered
  <2>4. net.cursor <= Max2(a, LastSeq(R \cup C))
    <3>1. net.cursor <= Max2(a, LastSeq(R))
      BY <2>2 DEF Covered
    <3> QED BY <1>0, <1>4, <3>1 DEF Max2
  <2> QED BY <1>1, <1>2, <2>2, <2>3, <2>4 DEF Covered, Whole
<1>8. Hydrated'
  <2>1. CanLoad' = CanLoad
    BY <1>2 DEF CanLoad
  <2> QED BY <1>1, <1>2, <2>1 DEF Holding, Hydrated, Recent
<1> QED BY <1>5, <1>6, <1>7, <1>8 DEF Holding

\* The page as it is opened, as far as the server's log goes.
Opened ==
  /\ log \in Nat /\ db.records \subseteq 1 .. log
  /\ net = OffLine /\ list = FirstList
  /\ memo = Idle /\ tail = Idle /\ jump = Idle /\ around = Idle
  /\ store = NoTail /\ view = NoView /\ seen = [reach |-> 0, missed |-> 0]

\* It has no window and no answer, whether it is opened first or again.
LEMMA OpenedHolds == (Opened => Holding) /\ (Opened' => Holding')
<1>1. LastSeq({}) = 0
  BY DEF LastSeq
<1>2. ASSUME Opened PROVE Holding
  <2>1. LastSeq(db.records) \in 0 .. log
    BY <1>2, LastOf DEF Opened
  <2>2. /\ store.events = {} /\ store.cursor = 0 /\ ~store.present /\ ~store.hydrated
        /\ view.live = {} /\ view.visible = {} /\ ~view.selected /\ ~view.hydrated
        /\ net.cursor = 0 /\ ~net.ready /\ list.st = "sent"
        /\ seen.reach = 0 /\ seen.missed = 0
        /\ \A r \in Requested : r.st = "idle"
    BY <1>2 DEF Opened, NoTail, NoView, OffLine, FirstList, Idle, Requested
  <2>3. Stored /\ Hydrated
    BY <2>2 DEF Stored, Hydrated
  <2>4. Reaching
    BY <1>1, <1>2, <2>1, <2>2 DEF Opened, Reaching
  <2>5. Anchored
    BY <2>2 DEF Anchored, Anchor
  <2> QED BY <2>3, <2>4, <2>5 DEF Holding
<1>3. ASSUME Opened' PROVE Holding'
  <2>1. LastSeq(db'.records) \in 0 .. log'
    BY <1>3, LastOf DEF Opened
  <2>2. /\ store'.events = {} /\ store'.cursor = 0 /\ ~store'.present /\ ~store'.hydrated
        /\ view'.live = {} /\ view'.visible = {} /\ ~view'.selected /\ ~view'.hydrated
        /\ net'.cursor = 0 /\ ~net'.ready /\ list'.st = "sent"
        /\ seen'.reach = 0 /\ seen'.missed = 0
        /\ \A r \in Requested' : r.st = "idle"
    BY <1>3 DEF Opened, NoTail, NoView, OffLine, FirstList, Idle, Requested
  <2>3. Stored' /\ Hydrated'
    BY <2>2 DEF Stored, Hydrated
  <2>4. Reaching'
    BY <1>1, <1>3, <2>1, <2>2 DEF Opened, Reaching
  <2>5. Anchored'
    BY <2>2 DEF Anchored, Anchor
  <2> QED BY <2>3, <2>4, <2>5 DEF Holding
<1> QED BY <1>2, <1>3

\* The tail of a session that is evicted is no tail, and no answer waits for it.
LEMMA EvictHolds ==
  ASSUME TypeOK, Holding, EvictEntry
  PROVE  Holding'
<1>0. /\ log \in Nat /\ store.cursor \in 0 .. log /\ LastSeq(view.live) \in 0 .. log
      /\ net.cursor \in 0 .. log /\ 0 \in 0 .. log
  BY Fields
<1>1. /\ store'.events = {} /\ ~store'.present /\ ~store'.hydrated
      /\ store'.cursor = store.cursor
  BY DEF EvictEntry, NoTail
<1>2. /\ log' = log /\ net' = net /\ list' = list /\ view' = view /\ due' = due
      /\ db' = db /\ seen' = seen /\ Requested' = Requested
      /\ \A r \in Requested : r.st = "idle"
  BY DEF EvictEntry, Requested, requests
<1>3. LastSeq({}) = 0
  BY DEF LastSeq
<1>4. Stored'
  BY <1>1, <1>2 DEF Holding, Stored
<1>5. Reaching'
  <2>1. LastSeq(store'.events) <= store'.cursor /\ LastSeq(store'.events) <= LastSeq(view.live)
    BY <1>0, <1>1, <1>3
  <2> QED BY <1>1, <1>2, <2>1 DEF Holding, Reaching
<1>6. Anchored'
  <2> SUFFICES ASSUME NEW a \in 0 .. log, Anchor(a)'
               PROVE  /\ Covered(a, store.events)'
                      /\ Covered(a, db.records)'
                      /\ (view.selected => Covered(a, view.live))'
    BY <1>2 DEF Anchored
  <2>1. a = 0 /\ net.cursor = 0 /\ Anchor(0)
    BY <1>2 DEF Anchor
  <2>2. Covered(0, db.records) /\ (view.selected => Covered(0, view.live))
    BY <1>0, <2>1 DEF Holding, Anchored
  <2>3. Covered(0, {})
    <3>1. Whole(0, {})
      <4>1. Latest(0) \subseteq 1 .. 0
        BY LatestIs
      <4>2. Latest(0) = {}
        BY <4>1
      <4> QED BY <1>3, <4>2 DEF Whole
    <3> QED BY <1>3, <2>1, <3>1 DEF Covered, Max2
  <2> QED BY <1>1, <1>2, <2>1, <2>2, <2>3 DEF Covered, Whole
<1>7. Hydrated'
  <2>1. CanLoad' = CanLoad
    BY <1>2 DEF CanLoad
  <2> QED BY <1>1, <1>2, <2>1 DEF Holding, Hydrated, Recent
<1> QED BY <1>4, <1>5, <1>6, <1>7 DEF Holding

-----------------------------------------------------------------------------
(* The theorems. *)

\* Every step keeps what holds of the windows.
LEMMA HoldingKept ==
  ASSUME TypeOK, Asking, Holding, [Next]_vars
  PROVE  Holding'
<1>1. CASE Deliver
  BY <1>1, IngestHolds, TurnedAwayHolds
<1>2. CASE ApplyList
  BY <1>2, BoundaryHolds, StreamHolds
<1>3. CASE ApplyPage
  BY <1>3, FetchedHolds, MovesHold
<1>4. CASE ApplyJump
  BY <1>4, JumpHolds, MovesHold
<1>5. CASE Reload
  <2>1. log' \in Nat /\ db'.records \subseteq 1 .. log'
    BY <1>5 DEF Reload, TypeOK
  <2> QED BY <1>5, <2>1, OpenedHolds DEF Reload, Opened
<1>6. CASE ClientStep
  BY <1>1, <1>2, <1>3, <1>4, <1>6, StreamHolds, AnswersHold, MovesHold, HydrateHolds,
     TailHolds, TargetHolds DEF ClientStep
<1>7. CASE UserStep
  BY <1>7, MovesHold DEF UserStep
<1>8. CASE FaultStep
  BY <1>5, <1>8, StreamHolds, AnswersHold, EvictHolds DEF FaultStep
<1> QED BY <1>6, <1>7, <1>8, StreamHolds DEF Next

\* The page is opened with the invariant.
LEMMA InitHolds ==
  ASSUME Init
  PROVE  IInv
<1>1. log \in Nat
  BY HistoryAssumption DEF Init
<1>2. TypeOK
  <2>1. /\ net \in NetsOf(log) /\ list \in ListsOf(log) /\ seen \in ReachesOf(log)
        /\ store \in TailsOf(log) /\ db \in StoragesOf(log)
    <3>1. {} \in SUBSET (1 .. log) /\ 0 \in 0 .. log
      BY <1>1
    <3> QED BY <3>1 DEF Init, OffLine, FirstList, NoTail, NetsOf, ListsOf, ReachesOf,
                         TailsOf, StoragesOf, States
  <2>2. Idle \in RequestsOf(log) /\ NoPage \in PagesOf(log) /\ NoView \in ViewsOf(log)
    BY <1>1, RequestType, NoViewType
  <2>3. due \in BOOLEAN
    BY DEF Init
  <2>4. spent \in [{"faults", "visits"} -> Nat]
    <3>1. [faults |-> 0, visits |-> 0] \in [{"faults", "visits"} -> Nat]
      BY SMT
    <3> QED BY <3>1 DEF Init
  <2> QED BY <1>1, <2>1, <2>2, <2>3, <2>4, TypesAre DEF Init, Typed
<1>3. Asking
  BY DEF Init, Asking, Idle, NoPage, NoView
<1>4. Holding
  <2>1. db.records \subseteq 1 .. log
    BY DEF Init
  <2> QED BY <1>1, <2>1, OpenedHolds DEF Init, Opened
<1> QED BY <1>2, <1>3, <1>4 DEF IInv, Holding

\* The invariant of a session's history: types, requests, what is stored, how far
\* the tails reach, and that each answer which is not stale fills the windows up
\* to its own end.
THEOREM Invariance == Spec => []IInv
<1>1. Init => IInv
  BY InitHolds
<1>2. IInv /\ [Next]_vars => IInv'
  <2> SUFFICES ASSUME IInv, [Next]_vars PROVE IInv'
    OBVIOUS
  <2>1. TypeOK /\ Asking /\ Holding /\ Stored
    BY DEF IInv, Holding
  <2>2. TypeOK'
    BY <2>1, TypesKept
  <2>3. Asking'
    BY <2>1, <2>2, AskingKept
  <2>4. Holding'
    BY <2>1, HoldingKept
  <2> QED BY <2>2, <2>3, <2>4 DEF IInv, Holding
<1> QED BY <1>1, <1>2, PTL DEF Spec

\* A tail marked hydrated lacks nothing that the stream will not send again.
THEOREM TailStaysComplete == Spec => []TailIsComplete
<1>1. IInv => TailIsComplete
  BY DEF IInv, Hydrated, TailIsComplete, Settled
<1> QED BY <1>1, Invariance, PTL
=============================================================================
