--------------------------- MODULE ComposerProofs ---------------------------
(* What is proved of the prompt: no text is lost, and none is taken more often
   than it was sent; for any tabs, identities, presses, faults and visits, and
   whatever answers are lost or late.

   A text that was typed is in a prompt of its own, which no submission is about
   to clear, in the queue or a run, or in a record that nothing can remove (Kept):
   a record is removed where its receipt is accepted, whose message is in the
   queue or a run or was taken back, or where a tab has heard of that
   (Removable).  That a tab may trust its own yes takes Confirmed; that a prompt
   may be cleared, because what it submits is what it shows, takes Drafted;
   and that a message taken back is in a prompt before it leaves the queue takes
   TakingBack.

   Every press is a submission on its way to a record, or an identity, and the
   server takes each identity once (Counted).  Identities are given in order
   (Numbered) and whatever has one was given it with a text (Recorded), so a new
   one was in no list before. *)
EXTENDS Composer, FiniteSetTheorems, TLAPS

Jobs(states) == [st : states, id : {0} \cup Ids, text : Messages \cup {Empty},
                 queue : BOOLEAN, ok : BOOLEAN]
SubStates == {"idle", "reading", "saving", "saved", "sent", "answered"}
CheckStates == {"idle", "asked", "resent", "answered"}
BackStates == {"idle", "stopping", "removing"}
Receipts == {"none", "accepted", "rejected", "unknown"}

TypeOK ==
  /\ box \in [Tabs -> Messages \cup {Empty}] /\ following \in [Tabs -> BOOLEAN]
  /\ shared \in Messages \cup {Empty}
  /\ sub \in [Tabs -> Jobs(SubStates)]
  /\ check \in [Tabs -> Jobs(CheckStates)]
  /\ back \in [Tabs -> Jobs(BackStates)]
  /\ records \in SUBSET Ids /\ known \in [Tabs -> SUBSET Ids]
  /\ heard \in [Tabs -> SUBSET Ids] /\ refused \in [Tabs -> SUBSET Ids]
  /\ sent \in [Ids -> [text : Messages \cup {Empty}, queue : BOOLEAN]]
  /\ wire \in SUBSET (Tabs \X {"sub", "check"} \X Ids)
  /\ receipt \in [Ids -> Receipts]
  /\ queued \in Seq(Ids) /\ ran \in SUBSET Ids
  /\ typed \in SUBSET Messages /\ forgotten \in SUBSET Messages
  /\ pressed \in [Messages -> Nat] /\ taken \in [Messages -> Nat]
  /\ scene \in Scenes
  /\ promptSpent \in [{"presses", "faults", "leaves"} -> Nat]

(* Identities are given in order. *)
Given == {i \in Ids : sent[i].text # Empty}
Numbered == \E k \in {0} \cup Ids : Given = 1 .. k

(* Whatever has an identity was given it with a text. *)
Committed == {"saved", "sent", "answered"}
Recorded ==
  /\ records \cup ran \cup Elements(queued) \subseteq Given
  /\ \A r \in wire : r[3] \in Given
  /\ \A i \in Ids : receipt[i] # "none" => i \in Given
  /\ \A t \in Tabs :
       /\ known[t] \subseteq Given /\ heard[t] \subseteq Given
       /\ sub[t].st \in Committed => sub[t].id \in Given
       /\ check[t].st # "idle" => check[t].id \in Given
       /\ back[t].st = "removing" => back[t].id \in Given

(* A tab that submits has its text still in the prompt until the record is
   saved, and takes nothing back. *)
Drafted ==
  \A t \in Tabs :
    /\ sub[t].st # "idle" => back[t].st = "idle"
    /\ sub[t].st \in {"reading", "saving"} => sub[t].text = box[t] /\ box[t] # Empty

(* A yes comes from the receipt. *)
Confirmed ==
  \A t \in Tabs :
    /\ sub[t].ok => sub[t].st = "answered" /\ receipt[sub[t].id] = "accepted"
    /\ check[t].ok => check[t].st = "answered" /\ receipt[check[t].id] = "accepted"

(* What is being taken back is in the prompt. *)
TakingBack ==
  \A t \in Tabs : back[t].st = "removing" =>
    box[t] = sent[back[t].id].text /\ ~following[t]

(* Where a text is in nobody's way: a prompt of its own that does not submit,
   the queue or a run, or a record that nothing can remove. *)
Removable(i) == receipt[i] = "accepted" \/ \E t \in Tabs : i \in heard[t]
Safe == Elements(queued) \cup ran \cup {i \in records : ~Removable(i)}
InPrompt(m) == \E t \in Tabs : box[t] = m /\ ~following[t] /\ sub[t].st \notin Committed
Kept == \A m \in typed \ forgotten : InPrompt(m) \/ \E i \in Safe : sent[i].text = m

(* Every press is a submission on its way to a record, or an identity; the server
   takes each identity once. *)
Pressing(S) == {t \in Tabs : sub[t].st \in {"reading", "saving"} /\ sub[t].text \in S}
GivenFor(S) == {i \in Ids : sent[i].text \in S}
TakenFor(m) == {i \in Ids : sent[i].text = m /\ receipt[i] # "none"}
Counted ==
  /\ Cardinality(GivenFor(Messages)) + Cardinality(Pressing(Messages)) <= promptSpent.presses
  /\ promptSpent.presses <= scene.presses
  /\ \A m \in Messages :
       /\ Cardinality(GivenFor({m})) + Cardinality(Pressing({m})) <= pressed[m]
       /\ taken[m] <= Cardinality(TakenFor(m))

IInv == /\ TypeOK /\ Numbered /\ Recorded /\ Drafted /\ Confirmed /\ TakingBack
        /\ Kept /\ Counted

-----------------------------------------------------------------------------
(* The queue. *)

\* What is appended is in the queue, with what was in it.
LEMMA AppendElements ==
  ASSUME NEW q \in Seq(Ids), NEW i \in Ids
  PROVE  Append(q, i) \in Seq(Ids) /\ Elements(Append(q, i)) = Elements(q) \cup {i}
<1>1. Append(q, i) \in Seq(Ids) /\ DOMAIN Append(q, i) = 1 .. Len(q) + 1
  OBVIOUS
<1>2. \A k \in 1 .. Len(q) : Append(q, i)[k] = q[k]
  OBVIOUS
<1>3. Append(q, i)[Len(q) + 1] = i
  OBVIOUS
<1>4. Len(q) \in Nat /\ DOMAIN q = 1 .. Len(q)
  OBVIOUS
<1> QED BY <1>1, <1>2, <1>3, <1>4 DEF Elements

\* The elements of a row are its first and those of the row shifted by one.
LEMMA ShiftedElements ==
  ASSUME NEW n \in Nat, NEW f, NEW g, DOMAIN f = 1 .. n + 1, DOMAIN g = 1 .. n,
         \A j \in 1 .. n : g[j] = f[j + 1]
  PROVE  Elements(f) = Elements(g) \cup {f[1]}
<1>1. \A i \in 1 .. n + 1 : i = 1 \/ \E j \in 1 .. n : i = j + 1
  OBVIOUS
<1>2. 1 \in 1 .. n + 1 /\ \A j \in 1 .. n : j + 1 \in 1 .. n + 1
  OBVIOUS
<1>3. Elements(f) = {f[i] : i \in 1 .. n + 1} /\ Elements(g) = {g[j] : j \in 1 .. n}
  BY DEF Elements
<1>4. ASSUME NEW i \in 1 .. n + 1 PROVE f[i] \in Elements(g) \cup {f[1]}
  <2>1. CASE i = 1
    BY <2>1
  <2>2. CASE i # 1
    <3>1. PICK j \in 1 .. n : i = j + 1
      BY <1>1, <2>2
    <3>2. g[j] = f[i] /\ g[j] \in Elements(g)
      BY <1>3, <3>1
    <3> QED BY <3>2
  <2> QED BY <2>1, <2>2
<1>5. ASSUME NEW j \in 1 .. n PROVE g[j] \in Elements(f)
  BY <1>2, <1>3
<1>6. f[1] \in Elements(f)
  BY <1>2, <1>3
<1>7. Elements(f) \subseteq Elements(g) \cup {f[1]}
  BY ONLY <1>3, <1>4
<1>8. Elements(g) \subseteq Elements(f)
  BY ONLY <1>3, <1>5
<1> QED BY <1>6, <1>7, <1>8

\* Taking the first leaves the others.
LEMMA TailElements ==
  ASSUME NEW q \in Seq(Ids), q # <<>>
  PROVE  /\ Tail(q) \in Seq(Ids) /\ Head(q) \in Ids
         /\ Elements(q) = Elements(Tail(q)) \cup {Head(q)}
<1> DEFINE rest == Tail(q)
           n == Len(rest)
<1>1. rest \in Seq(Ids) /\ Head(q) \in Ids /\ Head(q) = q[1]
  OBVIOUS
<1>2. n \in Nat /\ Len(q) = n + 1
  OBVIOUS
<1>3. \A j \in 1 .. n : rest[j] = q[j + 1]
  OBVIOUS
<1>4. DOMAIN q = 1 .. n + 1 /\ DOMAIN rest = 1 .. n
  BY <1>1, <1>2
<1> HIDE DEF n, rest
<1>5. Elements(q) = Elements(rest) \cup {q[1]}
  BY <1>2, <1>3, <1>4, ShiftedElements
<1> QED BY <1>1, <1>5 DEF rest

\* Removing an identity leaves the others.
LEMMA WithoutElements ==
  ASSUME NEW q \in Seq(Ids), NEW id
  PROVE  /\ Without(q, id) \in Seq(Ids)
         /\ Elements(Without(q, id)) \subseteq Elements(q)
         /\ \A i \in Elements(q) : i # id => i \in Elements(Without(q, id))
<1>1. CASE id \notin Elements(q)
  BY <1>1 DEF Without
<1>2. CASE id \in Elements(q)
  <2> DEFINE k == CHOOSE i \in DOMAIN q : q[i] = id
             w == [i \in 1 .. Len(q) - 1 |-> IF i < k THEN q[i] ELSE q[i + 1]]
  <2>1. k \in DOMAIN q /\ q[k] = id
    BY <1>2 DEF Elements
  <2>2. Without(q, id) = w
    BY <1>2 DEF Without
  <2>3. Len(q) \in Nat /\ DOMAIN q = 1 .. Len(q) /\ \A i \in 1 .. Len(q) : q[i] \in Ids
    OBVIOUS
  <2> HIDE DEF k
  <2>4. Len(q) - 1 \in Nat /\ k \in 1 .. Len(q)
    BY <2>1, <2>3
  <2>5. DOMAIN w = 1 .. Len(q) - 1
    OBVIOUS
  <2>6. \A i \in 1 .. Len(q) - 1 : i \in 1 .. Len(q) /\ i + 1 \in 1 .. Len(q)
    BY <2>3
  <2>7. \A i \in 1 .. Len(q) - 1 : w[i] \in Ids /\ w[i] \in Elements(q)
    BY <2>3, <2>6 DEF Elements
  <2>8. w \in Seq(Ids)
    BY <2>4, <2>7
  <2>9. ASSUME NEW i \in DOMAIN q, q[i] # id PROVE q[i] \in Elements(w)
    <3>1. i \in 1 .. Len(q) /\ i # k
      BY <2>1, <2>3, <2>9
    <3>2. CASE i < k
      <4>1. i \in 1 .. Len(q) - 1 /\ w[i] = q[i]
        BY <2>4, <3>1, <3>2
      <4> QED BY <2>5, <4>1 DEF Elements
    <3>3. CASE i > k
      <4>1. i - 1 \in 1 .. Len(q) - 1 /\ w[i - 1] = q[i]
        BY <2>4, <3>1, <3>3
      <4> QED BY <2>5, <4>1 DEF Elements
    <3> QED BY <2>4, <3>1, <3>2, <3>3
  <2> HIDE DEF w
  <2>10. Elements(w) \subseteq Elements(q)
    BY <2>5, <2>7 DEF Elements
  <2>11. \A i \in Elements(q) : i # id => i \in Elements(w)
    BY <2>9 DEF Elements
  <2> QED BY <2>2, <2>8, <2>10, <2>11
<1> QED BY <1>1, <1>2

\* The empty queue has none.
LEMMA NoElements == Elements(<<>>) = {}
BY DEF Elements

-----------------------------------------------------------------------------
(* Types. *)

\* The scene is one of those the bounds name.
LEMMA SceneFacts ==
  ASSUME TypeOK
  PROVE  /\ scene.tabs \subseteq Tabs /\ scene.texts \subseteq Messages
         /\ scene.presses \in 0 .. MaxPresses /\ MaxPresses \in Nat
         /\ \A kind \in {"presses", "faults", "leaves"} : scene[kind] \in Nat
BY ComposerAssumption DEF TypeOK

\* What a step may do to the counters.
Spends == \/ UNCHANGED promptSpent
          \/ \E kind \in {"presses", "faults", "leaves"} : PromptSpends(kind)
LEMMA SpendType ==
  ASSUME TypeOK, Spends
  PROVE  /\ promptSpent' \in [{"presses", "faults", "leaves"} -> Nat]
         /\ promptSpent'.presses >= promptSpent.presses
         /\ promptSpent'.presses # promptSpent.presses =>
              /\ promptSpent.presses < scene.presses
              /\ promptSpent'.presses = promptSpent.presses + 1
<1>1. promptSpent \in [{"presses", "faults", "leaves"} -> Nat]
  BY DEF TypeOK
<1>2. CASE UNCHANGED promptSpent
  BY <1>1, <1>2
<1>3. ASSUME NEW kind \in {"presses", "faults", "leaves"}, PromptSpends(kind)
      PROVE  /\ promptSpent' = [promptSpent EXCEPT ![kind] = promptSpent[kind] + 1]
             /\ promptSpent[kind] < scene[kind]
  BY <1>3 DEF PromptSpends
<1>4. ASSUME PromptSpends("presses")
      PROVE  /\ promptSpent' \in [{"presses", "faults", "leaves"} -> Nat]
             /\ promptSpent'.presses = promptSpent.presses + 1
             /\ promptSpent.presses < scene.presses
  BY <1>1, <1>3, <1>4
<1>5. ASSUME NEW kind \in {"faults", "leaves"}, PromptSpends(kind)
      PROVE  /\ promptSpent' \in [{"presses", "faults", "leaves"} -> Nat]
             /\ promptSpent'.presses = promptSpent.presses
  BY <1>1, <1>3, <1>5
<1> QED BY <1>1, <1>2, <1>4, <1>5 DEF Spends

\* A draft that is published is that of its tab; the others keep their own, and
\* what they have while they are busy.
LEMMA PublishType ==
  ASSUME TypeOK, NEW t \in Tabs, NEW m \in Messages \cup {Empty}, Publish(t, m)
  PROVE  /\ box' \in [Tabs -> Messages \cup {Empty}] /\ following' \in [Tabs -> BOOLEAN]
         /\ shared' \in Messages \cup {Empty}
         /\ box'[t] = m /\ ~following'[t]
         /\ \A u \in Tabs \ {t} :
              /\ sub[u].st # "idle" \/ back[u].st # "idle" =>
                   box'[u] = box[u] /\ following'[u] = following[u]
              /\ ~following[u] /\ box[u] # Empty => box'[u] = box[u] /\ ~following'[u]
BY DEF TypeOK, Publish, Receives

\* The answer of a submission clears its prompt, gives the text back or leaves the drafts.
LEMMA AnsweredDrafts ==
  ASSUME NEW t \in Tabs, Answered(t)
  PROVE  UNCHANGED drafts \/ Publish(t, Empty) \/ Publish(t, sub[t].text)
BY DEF Answered, Clears, HasBack

\* What is heard of a request: an answer, for the one that waits for it.
LEMMA HearsType ==
  ASSUME TypeOK, NEW t \in Tabs, NEW from, NEW id, NEW ok \in BOOLEAN, Hears(t, from, id, ok)
  PROVE  /\ sub' \in [Tabs -> Jobs(SubStates)] /\ check' \in [Tabs -> Jobs(CheckStates)]
         /\ \A u \in Tabs :
              /\ sub'[u].id = sub[u].id /\ sub'[u].text = sub[u].text
              /\ sub'[u].st = sub[u].st \/ (sub[u].st = "sent" /\ sub'[u].st = "answered")
              /\ sub'[u].ok => \/ sub[u].ok /\ sub'[u].st = sub[u].st
                               \/ ok /\ sub'[u].id = id /\ sub'[u].st = "answered"
              /\ check'[u].id = check[u].id
              /\ check'[u].st = check[u].st \/ (check[u].st = "resent" /\ check'[u].st = "answered")
              /\ check'[u].ok => \/ check[u].ok /\ check'[u].st = check[u].st
                                 \/ ok /\ check'[u].id = id /\ check'[u].st = "answered"
<1>1. \A u \in Tabs : /\ sub[u] \in Jobs(SubStates) /\ check[u] \in Jobs(CheckStates)
  BY DEF TypeOK
<1>2. /\ sub' = sub \/ (sub[t].st = "sent" /\ sub[t].id = id
                        /\ sub' = [sub EXCEPT ![t].st = "answered", ![t].ok = ok])
      /\ check' = check \/ (check[t].st = "resent" /\ check[t].id = id
                        /\ check' = [check EXCEPT ![t].st = "answered", ![t].ok = ok])
  BY DEF Hears
<1>3. /\ [sub[t] EXCEPT !.st = "answered", !.ok = ok] \in Jobs(SubStates)
      /\ [check[t] EXCEPT !.st = "answered", !.ok = ok] \in Jobs(CheckStates)
  BY <1>1 DEF Jobs, SubStates, CheckStates
<1>0. /\ sub \in [Tabs -> Jobs(SubStates)] /\ check \in [Tabs -> Jobs(CheckStates)]
      /\ DOMAIN sub = Tabs /\ DOMAIN check = Tabs
  BY DEF TypeOK
<1>4. sub' \in [Tabs -> Jobs(SubStates)] /\ check' \in [Tabs -> Jobs(CheckStates)]
  <2>1. sub' = sub \/ sub' = [sub EXCEPT ![t] = [sub[t] EXCEPT !.st = "answered", !.ok = ok]]
    BY <1>2
  <2>2. check' = check
          \/ check' = [check EXCEPT ![t] = [check[t] EXCEPT !.st = "answered", !.ok = ok]]
    BY <1>2
  <2> HIDE DEF Jobs, SubStates, CheckStates
  <2>3. sub' \in [Tabs -> Jobs(SubStates)]
    BY <1>0, <1>3, <2>1
  <2>4. check' \in [Tabs -> Jobs(CheckStates)]
    BY <1>0, <1>3, <2>2
  <2> QED BY <2>3, <2>4
<1>5. ASSUME NEW u \in Tabs
      PROVE  /\ sub'[u].id = sub[u].id /\ sub'[u].text = sub[u].text
             /\ sub'[u].st = sub[u].st \/ (sub[u].st = "sent" /\ sub'[u].st = "answered")
             /\ sub'[u].ok => \/ sub[u].ok /\ sub'[u].st = sub[u].st
                              \/ ok /\ sub'[u].id = id /\ sub'[u].st = "answered"
  <2>1. CASE sub'[u] = sub[u]
    BY <2>1
  <2>2. CASE sub'[u] # sub[u]
    <3>1. u = t /\ sub[t].st = "sent" /\ sub[t].id = id
      BY <1>2, <2>2 DEF TypeOK
    <3>2. sub'[t] = [sub[t] EXCEPT !.st = "answered", !.ok = ok]
      BY <1>2, <2>2, <3>1 DEF TypeOK
    <3> QED BY <1>1, <3>1, <3>2 DEF Jobs
  <2> QED BY <2>1, <2>2
<1>6. ASSUME NEW u \in Tabs
      PROVE  /\ check'[u].id = check[u].id
             /\ check'[u].st = check[u].st \/ (check[u].st = "resent" /\ check'[u].st = "answered")
             /\ check'[u].ok => \/ check[u].ok /\ check'[u].st = check[u].st
                                \/ ok /\ check'[u].id = id /\ check'[u].st = "answered"
  <2>1. CASE check'[u] = check[u]
    BY <2>1
  <2>2. CASE check'[u] # check[u]
    <3>1. u = t /\ check[t].st = "resent" /\ check[t].id = id
      BY <1>2, <2>2 DEF TypeOK
    <3>2. check'[t] = [check[t] EXCEPT !.st = "answered", !.ok = ok]
      BY <1>2, <2>2, <3>1 DEF TypeOK
    <3> QED BY <1>1, <3>1, <3>2 DEF Jobs
  <2> QED BY <2>1, <2>2
<1> QED BY <1>4, <1>5, <1>6

\* No job gets another identity, or starts or ends, when its answer is heard.
LEMMA HearsStates ==
  ASSUME TypeOK, NEW t \in Tabs, NEW from, NEW id, NEW ok \in BOOLEAN, Hears(t, from, id, ok)
  PROVE  \A u \in Tabs :
           /\ sub'[u].id = sub[u].id /\ check'[u].id = check[u].id
           /\ sub'[u].st = sub[u].st \/ (sub[u].st = "sent" /\ sub'[u].st = "answered")
           /\ check'[u].st = check[u].st \/ check[u].st = "resent"
<1>1. \A u \in Tabs :
        /\ sub'[u].id = sub[u].id /\ check'[u].id = check[u].id
        /\ sub'[u].st = sub[u].st \/ (sub[u].st = "sent" /\ sub'[u].st = "answered")
        /\ check'[u].st = check[u].st \/ (check[u].st = "resent" /\ check'[u].st = "answered")
  BY HearsType
<1> QED BY <1>1

\* The records of a tab are read again.
LEMMA RemoveType ==
  ASSUME TypeOK, NEW t \in Tabs, NEW id, RemoveRecord(t, id)
  PROVE  /\ records' \in SUBSET Ids /\ known' \in [Tabs -> SUBSET Ids]
         /\ records' = records \ {id}
         /\ \A u \in Tabs : known'[u] \in {known[u], records'}
BY DEF TypeOK, RemoveRecord

\* The next identity is one of Ids, and new: there are as many as presses.
LEMMA NewIdentity ==
  ASSUME TypeOK, Numbered, Drafted, Counted, NEW t \in Tabs, sub[t].st = "saving"
  PROVE  /\ NewId \in Ids /\ NewId \notin Given /\ Given = 1 .. NewId - 1
         /\ sub[t].text \in Messages
<1>1. PICK k \in {0} \cup Ids : Given = 1 .. k
  BY DEF Numbered
<1>2. MaxPresses \in Nat /\ k \in Nat /\ scene.presses \in 0 .. MaxPresses
  BY SceneFacts, ComposerAssumption DEF Ids
<1>3. IsFiniteSet(Given) /\ Cardinality(Given) = k
  BY <1>1, <1>2, FS_Interval
<1>4. NewId = k + 1
  BY <1>3 DEF NewId, Given
<1>5. Given = GivenFor(Messages)
  BY ComposerAssumption DEF Given, GivenFor, TypeOK
<1>6. sub[t].text \in Messages /\ t \in Pressing(Messages)
  BY DEF Drafted, TypeOK, Pressing
<1>7. IsFiniteSet(Pressing(Messages))
  BY FS_Subset, ComposerAssumption DEF Pressing
<1>8. Cardinality(Pressing(Messages)) \in Nat /\ Cardinality(Pressing(Messages)) # 0
  BY <1>6, <1>7, FS_CardinalityType, FS_EmptySet
<1>9. k + Cardinality(Pressing(Messages)) <= promptSpent.presses
      /\ promptSpent.presses <= scene.presses
  BY <1>3, <1>5 DEF Counted
<1>10. promptSpent.presses \in Nat
  BY DEF TypeOK
<1>11. k + 1 <= MaxPresses
  BY <1>2, <1>8, <1>9, <1>10
<1> QED BY <1>1, <1>2, <1>4, <1>6, <1>11 DEF Ids

\* What has an identity has its text, that of the job under way.
LEMMA GivenText == ASSUME TypeOK, NEW i \in Given PROVE i \in Ids /\ sent[i].text \in Messages
BY DEF TypeOK, Given

\* A job that starts anew is one.
LEMMA JobType ==
  ASSUME NEW states, "idle" \in states
  PROVE  /\ Idle \in Jobs(states)
         /\ \A st \in states, id \in Ids, m \in Messages \cup {Empty}, q \in BOOLEAN :
              /\ [Idle EXCEPT !.st = st, !.text = m, !.queue = q] \in Jobs(states)
              /\ [Idle EXCEPT !.st = st, !.id = id] \in Jobs(states)
         /\ \A j \in Jobs(states) :
              /\ \A st \in states : [j EXCEPT !.st = st] \in Jobs(states)
              /\ \A st \in states, id \in Ids : [j EXCEPT !.st = st, !.id = id] \in Jobs(states)
BY DEF Idle, Jobs

\* Every step keeps the types.
LEMMA TypesKept ==
  ASSUME TypeOK, Numbered, Recorded, Drafted, Counted, PromptNext
  PROVE  TypeOK'
<1> USE SceneFacts
<1>0. /\ "idle" \in SubStates /\ "idle" \in CheckStates /\ "idle" \in BackStates
      /\ \A u \in Tabs : /\ sub[u] \in Jobs(SubStates) /\ check[u] \in Jobs(CheckStates)
                         /\ back[u] \in Jobs(BackStates)
      /\ \A i \in Ids : sent[i].text \in Messages \cup {Empty} /\ sent[i].queue \in BOOLEAN
      /\ scene' = scene
  BY DEF TypeOK, SubStates, CheckStates, BackStates, PromptNext
<1>1. ASSUME NEW t \in Tabs, NEW m \in scene.texts, TypeDraft(t, m) PROVE TypeOK'
  <2>1. /\ box' \in [Tabs -> Messages \cup {Empty}] /\ following' \in [Tabs -> BOOLEAN]
        /\ shared' \in Messages \cup {Empty}
    BY <1>1, PublishType DEF TypeDraft
  <2> QED BY <1>0, <1>1, <2>1 DEF TypeOK, TypeDraft, told, server
<1>2. ASSUME NEW t \in Tabs, NEW q \in BOOLEAN, Submit(t, q) PROVE TypeOK'
  <2>1. Spends
    BY <1>2 DEF Submit, Spends
  <2>2. box[t] \in Messages
    BY <1>2 DEF Submit, TypeOK
  <2>3. [Idle EXCEPT !.st = "reading", !.text = box[t], !.queue = q] \in Jobs(SubStates)
    BY <2>2 DEF Jobs, SubStates, Idle
  <2>4. pressed' \in [Messages -> Nat]
    <3>1. pressed \in [Messages -> Nat] /\ pressed' = [pressed EXCEPT ![box[t]] = @ + 1]
      BY <1>2 DEF Submit, TypeOK
    <3> QED BY ONLY <2>2, <3>1
  <2> QED BY <1>0, <1>2, <2>1, <2>3, <2>4, SpendType DEF TypeOK, Submit, drafts, told, server
<1>3. ASSUME NEW t \in Tabs, ReadRecords(t) PROVE TypeOK'
  <2>1. Spends
    BY <1>3 DEF ReadRecords, Spends
  <2>2. [sub[t] EXCEPT !.st = "saving"] \in Jobs(SubStates) /\ Idle \in Jobs(SubStates)
    BY <1>0, JobType DEF SubStates
  <2> QED BY <1>0, <1>3, <2>1, <2>2, SpendType DEF TypeOK, ReadRecords, drafts, told, server, user
<1>4. ASSUME NEW t \in Tabs, SaveRecord(t) PROVE TypeOK'
  <2>1. Spends
    BY <1>4 DEF SaveRecord, Spends
  <2>2. NewId \in Ids /\ sub[t].text \in Messages
    BY <1>4, NewIdentity DEF SaveRecord
  <2>3. [sub[t] EXCEPT !.st = "saved", !.id = NewId] \in Jobs(SubStates) /\ Idle \in Jobs(SubStates)
    BY <1>0, <2>2, JobType DEF SubStates
  <2>4. [text |-> sub[t].text, queue |-> sub[t].queue]
          \in [text : Messages \cup {Empty}, queue : BOOLEAN]
    BY <1>0, <2>2 DEF Jobs
  <2> DEFINE new == NewId
  <2>5. NewId = new
    OBVIOUS
  <2> HIDE DEF new
  <2>6. records' \in SUBSET Ids /\ known' \in [Tabs -> SUBSET Ids]
    <3>1. records' \in SUBSET Ids
      BY <1>4, <2>2, <2>5 DEF TypeOK, SaveRecord
    <3>2. known' \in {known, [known EXCEPT ![t] = records']}
      BY <1>4 DEF SaveRecord
    <3> QED BY <3>1, <3>2 DEF TypeOK
  <2>7. sub' \in [Tabs -> Jobs(SubStates)]
    BY <1>4, <2>3 DEF TypeOK, SaveRecord
  <2>8. sent' \in [Ids -> [text : Messages \cup {Empty}, queue : BOOLEAN]]
    BY <1>4, <2>4 DEF TypeOK, SaveRecord
  <2> QED BY <1>0, <1>4, <2>1, <2>6, <2>7, <2>8, SpendType
          DEF TypeOK, SaveRecord, drafts, told, server, user
<1>5. ASSUME NEW t \in Tabs, Send(t) PROVE TypeOK'
  <2>1. [sub[t] EXCEPT !.st = "sent"] \in Jobs(SubStates)
    BY <1>0, JobType DEF SubStates
  <2>2. sub[t].id \in Ids
    BY <1>5 DEF Send, Recorded, Committed, Given
  <2>3. sub' \in [Tabs -> Jobs(SubStates)]
    BY <1>5, <2>1 DEF TypeOK, Send
  <2>4. wire' \in SUBSET (Tabs \X {"sub", "check"} \X Ids)
    BY <1>5, <2>2 DEF TypeOK, Send
  <2>5. /\ box' \in [Tabs -> Messages \cup {Empty}] /\ following' \in [Tabs -> BOOLEAN]
        /\ shared' \in Messages \cup {Empty}
    BY <1>5, PublishType DEF TypeOK, Send, drafts
  <2> QED BY <1>0, <1>5, <2>3, <2>4, <2>5 DEF TypeOK, Send, told, user
<1>6. ASSUME NEW t \in Tabs, Answered(t) PROVE TypeOK'
  <2>1. Spends
    BY <1>6 DEF Answered, Spends
  <2>2. Idle \in Jobs(SubStates)
    BY <1>0, JobType
  <2>3. records' \in SUBSET Ids /\ known' \in [Tabs -> SUBSET Ids]
    BY <1>6, RemoveType DEF Answered, TypeOK
  <2>4. /\ box' \in [Tabs -> Messages \cup {Empty}] /\ following' \in [Tabs -> BOOLEAN]
        /\ shared' \in Messages \cup {Empty}
    BY <1>0, <1>6, AnsweredDrafts, PublishType DEF TypeOK, drafts, Jobs
  <2> QED BY <1>0, <1>6, <2>1, <2>2, <2>3, <2>4, SpendType DEF TypeOK, Answered, told, server, user
<1>7. ASSUME NEW t \in Tabs, NEW id \in Ids,
             SeeAccepted(t, id) \/ AskUnprompted(t, id) \/ Check(t, id)
      PROVE  TypeOK'
  <2>1. records' \in SUBSET Ids /\ known' \in [Tabs -> SUBSET Ids]
    BY <1>7, RemoveType DEF SeeAccepted, AskUnprompted, Check, TypeOK
  <2>2. [Idle EXCEPT !.st = "asked", !.id = id] \in Jobs(CheckStates)
    BY <1>0, JobType DEF CheckStates
  <2>3. CASE SeeAccepted(t, id)
    BY <1>0, <2>1, <2>3 DEF TypeOK, SeeAccepted, drafts, server, user
  <2>4. CASE AskUnprompted(t, id)
    BY <1>0, <2>1, <2>4 DEF TypeOK, AskUnprompted, drafts, told, server, user
  <2>5. CASE Check(t, id)
    BY <1>0, <2>2, <2>5 DEF TypeOK, Check, drafts, told, server, user
  <2> QED BY <1>7, <2>3, <2>4, <2>5
<1>8. ASSUME NEW t \in Tabs, NEW id \in Ids, Dismiss(t, id) PROVE TypeOK'
  <2>1. records' \in SUBSET Ids /\ known' \in [Tabs -> SUBSET Ids]
    BY <1>8, RemoveType DEF Dismiss
  <2>2. sent[id].text \in Messages
    BY <1>8, GivenText DEF Dismiss, Recorded
  <2> QED BY <1>0, <1>8, <2>1, <2>2 DEF TypeOK, Dismiss, drafts, told, server
<1>9. ASSUME NEW t \in Tabs, NEW id \in Given, RestoreDraft(t, id)
      PROVE  /\ promptSpent' \in [{"presses", "faults", "leaves"} -> Nat]
             /\ back' \in [Tabs -> Jobs(BackStates)]
             /\ box' \in [Tabs -> Messages \cup {Empty}] /\ following' \in [Tabs -> BOOLEAN]
             /\ shared' \in Messages \cup {Empty}
  <2>1. Spends
    BY <1>9 DEF RestoreDraft, Spends
  <2>2. [Idle EXCEPT !.st = "removing", !.id = id] \in Jobs(BackStates) /\ Idle \in Jobs(BackStates)
    BY <1>0, JobType, GivenText DEF BackStates
  <2>3. back' \in [Tabs -> Jobs(BackStates)]
    BY <1>9, <2>2 DEF RestoreDraft, TypeOK
  <2>4. sent[id].text \in Messages
    BY GivenText
  <2>5. /\ box' \in [Tabs -> Messages \cup {Empty}] /\ following' \in [Tabs -> BOOLEAN]
        /\ shared' \in Messages \cup {Empty}
    <3>1. CASE Publish(t, sent[id].text)
      BY <2>4, <3>1, PublishType
    <3>2. CASE UNCHANGED drafts
      BY <3>2 DEF TypeOK, drafts
    <3> QED BY <1>9, <3>1, <3>2 DEF RestoreDraft
  <2> QED BY <2>1, <2>3, <2>5, SpendType
<1>10. ASSUME NEW t \in Tabs, NEW id \in Ids, MoveBack(t, id) PROVE TypeOK'
  <2>1. id \in Given
    BY <1>10 DEF MoveBack, Recorded
  <2>2. box[t] \in Messages \cup {Empty}
    BY DEF TypeOK
  <2> QED BY <1>0, <1>9, <1>10, <2>1, <2>2 DEF TypeOK, MoveBack, told, server
<1>11. ASSUME NEW t \in Tabs, CheckAnswered(t) PROVE TypeOK'
  <2> DEFINE id == check[t].id
  <2>1. id \in Ids
    BY <1>11 DEF CheckAnswered, Recorded, Given
  <2>2. [check[t] EXCEPT !.st = "resent"] \in Jobs(CheckStates) /\ Idle \in Jobs(CheckStates)
    BY <1>0, JobType DEF CheckStates
  <2>3. records' \in SUBSET Ids /\ known' \in [Tabs -> SUBSET Ids]
    BY <1>11, RemoveType DEF CheckAnswered, TypeOK
  <2>4. wire' \in SUBSET (Tabs \X {"sub", "check"} \X Ids)
    BY <1>11, <2>1 DEF CheckAnswered, TypeOK
  <2>5. check' \in [Tabs -> Jobs(CheckStates)] /\ refused' \in [Tabs -> SUBSET Ids]
    <3>1. check' \in {[check EXCEPT ![t] = Idle], [check EXCEPT ![t].st = "resent"]}
      BY <1>11 DEF CheckAnswered
    <3>2. refused' \in {refused, [refused EXCEPT ![t] = @ \cup {id}]}
      BY <1>11 DEF CheckAnswered
    <3> HIDE DEF id
    <3>3. refused' \in [Tabs -> SUBSET Ids]
      <4>1. refused \in [Tabs -> SUBSET Ids] /\ refused[t] \cup {id} \in SUBSET Ids
        BY <2>1 DEF TypeOK
      <4>2. CASE refused' = [refused EXCEPT ![t] = @ \cup {id}]
        BY <4>1, <4>2
      <4> QED BY <3>2, <4>1, <4>2
    <3>4. check' \in [Tabs -> Jobs(CheckStates)]
      BY <2>2, <3>1 DEF TypeOK
    <3> QED BY <3>3, <3>4
  <2> QED BY <1>0, <1>11, <2>3, <2>4, <2>5 DEF TypeOK, CheckAnswered, drafts, user
<1>12. ASSUME NEW t \in Tabs, RetryAnswered(t) PROVE TypeOK'
  <2>1. records' \in SUBSET Ids /\ known' \in [Tabs -> SUBSET Ids]
    BY <1>12, RemoveType DEF RetryAnswered, TypeOK
  <2>2. Idle \in Jobs(CheckStates)
    BY <1>0, JobType
  <2> QED BY <1>0, <1>12, <2>1, <2>2 DEF TypeOK, RetryAnswered, drafts, told, server, user
<1>13. ASSUME NEW t \in Tabs, Stop(t) PROVE TypeOK'
  <2>1. [back[t] EXCEPT !.st = "stopping"] \in Jobs(BackStates)
    BY <1>0, JobType DEF BackStates
  <2> QED BY <1>0, <1>13, <2>1 DEF TypeOK, Stop, drafts, told, server, user
<1>14. ASSUME NEW t \in Tabs, Stopped(t) PROVE TypeOK'
  <2>1. CASE StillEmpty(t) /\ queued # <<>>
    <3>1. Head(queued) \in Given
      BY <2>1, TailElements DEF Recorded, TypeOK
    <3> QED BY <1>0, <1>9, <1>14, <2>1, <3>1 DEF TypeOK, Stopped, told, server, user
  <2>2. CASE ~(StillEmpty(t) /\ queued # <<>>)
    <3>1. Idle \in Jobs(BackStates)
      BY <1>0, JobType
    <3> QED BY <1>0, <1>14, <2>2, <3>1 DEF TypeOK, Stopped, drafts, told, server, user
  <2> QED BY <2>1, <2>2
<1>15. ASSUME NEW t \in Tabs, Removed(t) PROVE TypeOK'
  <2>1. Idle \in Jobs(BackStates) /\ queued' \in Seq(Ids)
    BY <1>0, <1>15, JobType, WithoutElements DEF Removed, TypeOK
  <2> QED BY <1>0, <1>15, <2>1 DEF TypeOK, Removed, drafts, told, user
<1>16. ASSUME NEW t \in Tabs, Leave(t) PROVE TypeOK'
  <2>1. Spends
    BY <1>16 DEF Leave, Spends
  <2>2. Idle \in Jobs(SubStates) /\ Idle \in Jobs(CheckStates) /\ Idle \in Jobs(BackStates)
    BY <1>0, JobType
  <2>3. box[t] \in Messages \cup {Empty}
    BY DEF TypeOK
  <2> QED BY <1>0, <1>16, <2>1, <2>2, <2>3, SpendType DEF TypeOK, Leave, server
<1>17. ASSUME NEW t \in Tabs, NEW from, NEW id, Handle(t, from, id) PROVE TypeOK'
  <2>1. Spends
    BY <1>17 DEF Handle, Spends
  <2>2. id \in Given /\ id \in Ids /\ sent[id].text \in Messages
    <3>1. <<t, from, id>> \in wire
      BY <1>17 DEF Handle
    <3>2. id \in Given
      BY <3>1 DEF Recorded
    <3> QED BY <3>2, GivenText
  <2>3. sub' \in [Tabs -> Jobs(SubStates)] /\ check' \in [Tabs -> Jobs(CheckStates)]
    BY <1>17, HearsType DEF Handle
  <2>4. receipt' \in [Ids -> Receipts]
    BY <1>17, <2>2 DEF Handle, TypeOK, Receipts
  <2>5. Do(id) => taken' \in [Messages -> Nat] /\ queued' \in Seq(Ids) /\ ran' \in SUBSET Ids
    <3> SUFFICES ASSUME Do(id)
                 PROVE  taken' \in [Messages -> Nat] /\ queued' \in Seq(Ids) /\ ran' \in SUBSET Ids
      OBVIOUS
    <3>1. taken' \in [Messages -> Nat]
      <4>1. taken \in [Messages -> Nat] /\ taken' = [taken EXCEPT ![sent[id].text] = @ + 1]
        BY DEF Do, TypeOK
      <4> DEFINE m == sent[id].text
      <4>2. m \in Messages /\ taken' = [taken EXCEPT ![m] = taken[m] + 1] /\ taken[m] + 1 \in Nat
        BY <2>2, <4>1
      <4> HIDE DEF m
      <4> QED BY <4>1, <4>2
    <3>2. queued' \in Seq(Ids) /\ ran' \in SUBSET Ids
      BY <2>2, AppendElements DEF Do, TypeOK
    <3> QED BY <3>1, <3>2
  <2>6. taken' \in [Messages -> Nat] /\ queued' \in Seq(Ids) /\ ran' \in SUBSET Ids
    BY <1>17, <2>5 DEF Handle, TypeOK
  <2>7. wire' \in SUBSET (Tabs \X {"sub", "check"} \X Ids)
    BY <1>17 DEF Handle, TypeOK
  <2> QED BY <1>0, <1>17, <2>1, <2>3, <2>4, <2>6, <2>7, SpendType DEF TypeOK, Handle, drafts, told, user
<1>18. ASSUME NEW t \in Tabs, NEW from, NEW id, NoAnswer(t, from, id) PROVE TypeOK'
  <2>1. Spends
    BY <1>18 DEF NoAnswer, Spends
  <2>2. sub' \in [Tabs -> Jobs(SubStates)] /\ check' \in [Tabs -> Jobs(CheckStates)]
    BY <1>18, HearsType DEF NoAnswer
  <2>3. wire' \in SUBSET (Tabs \X {"sub", "check"} \X Ids)
    BY <1>18 DEF NoAnswer, TypeOK
  <2> QED BY <1>0, <1>18, <2>1, <2>2, <2>3, SpendType DEF TypeOK, NoAnswer, drafts, told, user
<1>19. ASSUME RunNext PROVE TypeOK'
  <2>1. Tail(queued) \in Seq(Ids) /\ Head(queued) \in Ids
    BY <1>19, TailElements DEF RunNext, TypeOK
  <2> QED BY <1>0, <1>19, <2>1 DEF TypeOK, RunNext, drafts, told, user
<1>20. \A r \in wire : r[1] \in Tabs
  BY DEF TypeOK
<1> QED BY <1>1, <1>2, <1>3, <1>4, <1>5, <1>6, <1>7, <1>8, <1>10, <1>11, <1>12, <1>13, <1>14,
           <1>15, <1>16, <1>17, <1>18, <1>19, <1>20 DEF PromptNext, TabStep

-----------------------------------------------------------------------------
(* Identities. *)

\* A step leaves the identities alone, or gives the next one to a text that is
\* saved.
Saves(t) ==
  /\ sub[t].st = "saving" /\ NewId \in Ids \ Given /\ sub[t].text \in Messages
  /\ records' = records \cup {NewId} /\ known' = [known EXCEPT ![t] = records']
  /\ sub' = [sub EXCEPT ![t].st = "saved", ![t].id = NewId]
  /\ sent' = [sent EXCEPT ![NewId] = [text |-> sub[t].text, queue |-> sub[t].queue]]
  /\ Given' = Given \cup {NewId} /\ Given' = 1 .. NewId
  /\ sent'[NewId].text = sub[t].text /\ \A i \in Ids \ {NewId} : sent'[i] = sent[i]
  /\ UNCHANGED <<drafts, check, back, told, server, user, promptSpent>>
LEMMA SavesFacts ==
  ASSUME TypeOK, Numbered, Drafted, Counted, NEW t \in Tabs, SaveRecord(t)
  PROVE  Saves(t) \/ (sub' = [sub EXCEPT ![t] = Idle] /\ UNCHANGED <<records, known, sent>>)
<1>1. NewId \in Ids \ Given /\ sub[t].text \in Messages /\ Given = 1 .. NewId - 1
  BY NewIdentity DEF SaveRecord
<1>2. CASE sent' = [sent EXCEPT ![NewId] = [text |-> sub[t].text, queue |-> sub[t].queue]]
  <2> DEFINE new == NewId
  <2>1. /\ new \in Ids \ Given /\ Given = 1 .. new - 1 /\ new \in Nat \ {0}
        /\ sent' = [sent EXCEPT ![new] = [text |-> sub[t].text, queue |-> sub[t].queue]]
    BY <1>1, <1>2 DEF Ids
  <2> HIDE DEF new
  <2>2. sent'[new].text = sub[t].text /\ \A i \in Ids \ {new} : sent'[i] = sent[i]
    BY <2>1 DEF TypeOK
  <2>3. sub[t].text # Empty
    BY <1>1, ComposerAssumption
  <2>4. Given' = Given \cup {new}
    BY <2>1, <2>2, <2>3 DEF Given
  <2>5. Given' = 1 .. new
    BY <2>1, <2>4
  <2> QED BY <1>1, <1>2, <2>2, <2>4, <2>5 DEF new, Saves, SaveRecord
<1> QED BY <1>1, <1>2 DEF SaveRecord

(* Only a record gives an identity. *)
LEMMA IdentityFacts ==
  ASSUME TypeOK, Numbered, Drafted, Counted, PromptNext
  PROVE  \/ sent' = sent /\ Given' = Given
         \/ \E t \in Tabs : Saves(t)
<1>1. ASSUME NEW t \in Tabs, SaveRecord(t), sent' # sent PROVE Saves(t)
  BY <1>1, SavesFacts
<1>2. sent' = sent \/ \E t \in Tabs : SaveRecord(t)
  <2>1. ASSUME NEW t \in Tabs, TabStep(t) PROVE sent' = sent \/ SaveRecord(t)
    <3>1. ASSUME NEW m, TypeDraft(t, m) PROVE sent' = sent
      BY <3>1 DEF TypeDraft
    <3>2. ASSUME NEW q, Submit(t, q) PROVE sent' = sent
      BY <3>2 DEF Submit
    <3>3. CASE ReadRecords(t) \/ Send(t) \/ Answered(t)
      BY <3>3 DEF ReadRecords, Send, Answered
    <3>4. ASSUME NEW id, SeeAccepted(t, id) \/ AskUnprompted(t, id) \/ Check(t, id)
                         \/ Dismiss(t, id) \/ MoveBack(t, id)
          PROVE  sent' = sent
      BY <3>4 DEF SeeAccepted, AskUnprompted, Check, Dismiss, MoveBack
    <3>5. CASE CheckAnswered(t) \/ RetryAnswered(t) \/ Stop(t) \/ Stopped(t) \/ Removed(t) \/ Leave(t)
      BY <3>5 DEF CheckAnswered, RetryAnswered, Stop, Stopped, Removed, Leave
    <3> QED BY <2>1, <3>1, <3>2, <3>3, <3>4, <3>5 DEF TabStep
  <2>2. ASSUME NEW r, Handle(r[1], r[2], r[3]) \/ NoAnswer(r[1], r[2], r[3]) PROVE sent' = sent
    BY <2>2 DEF Handle, NoAnswer
  <2> QED BY SceneFacts, <2>1, <2>2 DEF PromptNext, RunNext
<1>3. sent' = sent => Given' = Given
  BY DEF Given
<1> QED BY <1>1, <1>2, <1>3

\* They are given in order, and none is taken away.
LEMMA NumberedKept ==
  ASSUME TypeOK, Numbered, Drafted, Counted, PromptNext
  PROVE  /\ Numbered' /\ Given \subseteq Given'
         /\ \A i \in Given : sent'[i] = sent[i]
<1>1. CASE sent' = sent /\ Given' = Given
  BY <1>1 DEF Numbered
<1>2. ASSUME NEW t \in Tabs, Saves(t)
      PROVE  Numbered' /\ Given \subseteq Given' /\ \A i \in Given : sent'[i] = sent[i]
  BY <1>2 DEF Saves, Numbered, Given
<1> QED BY <1>1, <1>2, IdentityFacts

\* What the server has of a request is given.
LEMMA DoFacts ==
  ASSUME TypeOK, Recorded, NEW t, NEW from, NEW id, Handle(t, from, id)
  PROVE  /\ id \in Given /\ id \in Ids /\ t \in Tabs
         /\ \/ UNCHANGED <<queued, ran, taken>>
            \/ Claims(id) /\ Do(id) /\ receipt' \in {[receipt EXCEPT ![id] = "accepted"],
                                                     [receipt EXCEPT ![id] = "unknown"]}
         /\ Do(id) => ran' \cup Elements(queued') = ran \cup Elements(queued) \cup {id}
         /\ \A i \in Ids : receipt'[i] # receipt[i] => i = id /\ Claims(id) /\ receipt'[i] # "none"
<1>1. id \in Given /\ id \in Ids /\ t \in Tabs
  <2>1. <<t, from, id>> \in wire
    BY DEF Handle
  <2> QED BY <2>1 DEF Recorded, Given, TypeOK
<1>2. Do(id) => ran' \cup Elements(queued') = ran \cup Elements(queued) \cup {id}
  <2>1. Elements(Append(queued, id)) = Elements(queued) \cup {id}
    BY <1>1, AppendElements DEF TypeOK
  <2> QED BY <2>1 DEF Do
<1>3. \A i \in Ids : receipt'[i] # receipt[i] => i = id /\ Claims(id) /\ receipt'[i] # "none"
  BY <1>1 DEF Handle, TypeOK
<1>4. \/ UNCHANGED <<queued, ran, taken>>
      \/ Claims(id) /\ Do(id) /\ receipt' \in {[receipt EXCEPT ![id] = "accepted"],
                                               [receipt EXCEPT ![id] = "unknown"]}
  BY DEF Handle
<1> QED BY <1>1, <1>2, <1>3, <1>4

\* What has been given an identity has a text in its record.
LEMMA RecordedKept ==
  ASSUME TypeOK, Numbered, Recorded, Drafted, Counted, PromptNext
  PROVE  Recorded'
<1>0. Given \subseteq Given'
  BY NumberedKept
<1>r. ASSUME NEW t \in Tabs, NEW id, RemoveRecord(t, id)
      PROVE  records' \subseteq Given /\ \A u \in Tabs : known'[u] \subseteq Given
  BY <1>r, RemoveType DEF Recorded
<1>1. ASSUME NEW t \in Tabs, NEW m \in scene.texts, TypeDraft(t, m) PROVE Recorded'
  BY <1>0, <1>1 DEF Recorded, TypeDraft, told, server
<1>2. ASSUME NEW t \in Tabs, NEW q \in BOOLEAN, Submit(t, q) PROVE Recorded'
  BY <1>0, <1>2 DEF Recorded, Submit, told, server, TypeOK, Committed
<1>3. ASSUME NEW t \in Tabs, ReadRecords(t) PROVE Recorded'
  <2>1. \A u \in Tabs : sub'[u] = sub[u] \/ sub'[u].st \notin Committed
    BY <1>3 DEF ReadRecords, TypeOK, Committed, Idle, Jobs
  <2> QED BY <1>0, <1>3, <2>1 DEF Recorded, ReadRecords, told, server
<1>4. ASSUME NEW t \in Tabs, SaveRecord(t) PROVE Recorded'
  <2>1. CASE Saves(t)
    BY <1>0, <2>1 DEF Recorded, Saves, told, server, TypeOK
  <2>2. CASE sub' = [sub EXCEPT ![t] = Idle] /\ UNCHANGED <<records, known, sent>>
    BY <1>0, <1>4, <2>2 DEF Recorded, SaveRecord, told, server, TypeOK, Committed, Idle
  <2> QED BY <1>4, <2>1, <2>2, SavesFacts
<1>5. ASSUME NEW t \in Tabs, Send(t) PROVE Recorded'
  BY <1>0, <1>5 DEF Recorded, Send, told, TypeOK, Committed
<1>6. ASSUME NEW t \in Tabs, Answered(t) PROVE Recorded'
  <2>1. records' \subseteq Given /\ \A u \in Tabs : known'[u] \subseteq Given
    BY <1>6, <1>r DEF Answered, Recorded
  <2>2. \A u \in Tabs : sub'[u] \in {sub[u], Idle}
    BY <1>6 DEF Answered, TypeOK
  <2> QED BY <1>0, <1>6, <2>1, <2>2 DEF Recorded, Answered, told, server, Committed, Idle
<1>7. ASSUME NEW t \in Tabs, NEW id \in Ids,
             SeeAccepted(t, id) \/ AskUnprompted(t, id) \/ Dismiss(t, id)
      PROVE  Recorded'
  <2>1. records' \subseteq Given /\ \A u \in Tabs : known'[u] \subseteq Given
    BY <1>7, <1>r DEF SeeAccepted, AskUnprompted, Dismiss, Recorded
  <2>2. \A u \in Tabs : heard'[u] \subseteq Given
    <3>1. CASE SeeAccepted(t, id)
      BY <3>1 DEF SeeAccepted, Recorded, TypeOK
    <3>2. CASE UNCHANGED heard
      BY <3>2 DEF Recorded
    <3> QED BY <1>7, <3>1, <3>2 DEF AskUnprompted, Dismiss, told
  <2> QED BY <1>0, <1>7, <2>1, <2>2 DEF Recorded, SeeAccepted, AskUnprompted, Dismiss, server
<1>8. ASSUME NEW t \in Tabs, NEW id \in Ids, Check(t, id) PROVE Recorded'
  BY <1>0, <1>8 DEF Recorded, Check, told, server, TypeOK, Idle
<1>9. ASSUME NEW t \in Tabs, NEW id \in Given, RestoreDraft(t, id)
      PROVE  \A u \in Tabs : back'[u].st = "removing" => back'[u].id \in Given
  <2>1. back' \in {[back EXCEPT ![t] = [Idle EXCEPT !.st = "removing", !.id = id]],
                   [back EXCEPT ![t] = Idle]}
    BY <1>9 DEF RestoreDraft
  <2>2. \A u \in Tabs : \/ back'[u] = back[u] \/ back'[u].st # "removing" \/ back'[u].id = id
    <3>1. \A u \in Tabs \ {t} : back'[u] = back[u]
      BY <2>1 DEF TypeOK
    <3>2. back'[t] = Idle \/ back'[t] = [Idle EXCEPT !.st = "removing", !.id = id]
      BY <2>1 DEF TypeOK
    <3>3. Idle.st = "idle" /\ [Idle EXCEPT !.st = "removing", !.id = id].id = id
      BY DEF Idle
    <3> QED BY <3>1, <3>2, <3>3
  <2> QED BY <2>2 DEF Recorded
<1>10. ASSUME NEW t \in Tabs, NEW id \in Ids, MoveBack(t, id) PROVE Recorded'
  BY <1>0, <1>9, <1>10 DEF Recorded, MoveBack, told, server
<1>11. ASSUME NEW t \in Tabs, CheckAnswered(t) PROVE Recorded'
  <2>1. check[t].id \in Given
    BY <1>11 DEF CheckAnswered, Recorded
  <2>2. records' \subseteq Given /\ \A u \in Tabs : known'[u] \subseteq Given
    BY <1>11, <1>r DEF CheckAnswered, Recorded
  <2>3. wire' \subseteq wire \cup {<<t, "check", check[t].id>>}
    BY <1>11 DEF CheckAnswered
  <2>4. check' \in {[check EXCEPT ![t] = Idle], [check EXCEPT ![t].st = "resent"]}
    BY <1>11 DEF CheckAnswered
  <2>5. \A u \in Tabs : check'[u].st # "idle" => check'[u].id \in Given
    <3>1. \A u \in Tabs \ {t} : check'[u] = check[u]
      BY <2>4 DEF TypeOK
    <3>2. check'[t].st = "idle" \/ check'[t].id = check[t].id
      BY <2>4 DEF TypeOK, Idle, Jobs
    <3> QED BY <2>1, <3>1, <3>2 DEF Recorded
  <2>6. \A r \in wire' : r[3] \in Given
    BY <2>1, <2>3 DEF Recorded
  <2> QED BY <1>0, <1>11, <2>2, <2>5, <2>6 DEF Recorded, CheckAnswered
<1>12. ASSUME NEW t \in Tabs, RetryAnswered(t) PROVE Recorded'
  <2>1. records' \subseteq Given /\ \A u \in Tabs : known'[u] \subseteq Given
    BY <1>12, <1>r DEF RetryAnswered, Recorded
  <2> QED BY <1>0, <1>12, <2>1 DEF Recorded, RetryAnswered, told, server, TypeOK, Idle
<1>13. ASSUME NEW t \in Tabs, Stop(t) PROVE Recorded'
  BY <1>0, <1>13 DEF Recorded, Stop, told, server, TypeOK
<1>14. ASSUME NEW t \in Tabs, Stopped(t) PROVE Recorded'
  <2>1. CASE StillEmpty(t) /\ queued # <<>>
    <3>1. Head(queued) \in Given
      BY <2>1, TailElements DEF Recorded, TypeOK
    <3> QED BY <1>0, <1>9, <1>14, <2>1, <3>1 DEF Recorded, Stopped, told, server
  <2>2. CASE ~(StillEmpty(t) /\ queued # <<>>)
    <3>1. \A u \in Tabs : back'[u] = back[u] \/ back'[u].st # "removing"
      BY <1>14, <2>2 DEF Stopped, TypeOK, Idle
    <3> QED BY <1>0, <1>14, <2>2, <3>1 DEF Recorded, Stopped, told, server
  <2> QED BY <2>1, <2>2
<1>15. ASSUME NEW t \in Tabs, Removed(t) PROVE Recorded'
  <2>1. Elements(queued') \subseteq Elements(queued)
    BY <1>15, WithoutElements DEF Removed, TypeOK
  <2> QED BY <1>0, <1>15, <2>1 DEF Recorded, Removed, told, TypeOK, Idle
<1>16. ASSUME NEW t \in Tabs, Leave(t) PROVE Recorded'
  BY <1>0, <1>16 DEF Recorded, Leave, server, TypeOK, Idle, Committed
<1>17. ASSUME NEW t, NEW from, NEW id, Handle(t, from, id) PROVE Recorded'
  <2>1. ran' \cup Elements(queued') \subseteq Given
    BY <1>17, DoFacts DEF Recorded
  <2>2. \A i \in Ids : receipt'[i] # "none" => i \in Given
    BY <1>17, DoFacts DEF Recorded
  <2>3. t \in Tabs
    BY <1>17, DoFacts
  <2>4. \A u \in Tabs : /\ sub'[u].st \in Committed => sub'[u].id \in Given
                        /\ check'[u].st # "idle" => check'[u].id \in Given
    <3>1. \A u \in Tabs :
            /\ sub'[u].id = sub[u].id /\ check'[u].id = check[u].id
            /\ sub'[u].st = sub[u].st \/ (sub[u].st = "sent" /\ sub'[u].st = "answered")
            /\ check'[u].st = check[u].st \/ check[u].st = "resent"
      <4>1. Hears(t, from, id, TRUE) \/ Hears(t, from, id, FALSE)
        BY <1>17 DEF Handle
      <4>2. \E ok \in BOOLEAN : Hears(t, from, id, ok)
        BY <4>1
      <4> QED BY <2>3, <4>2, HearsStates
    <3> QED BY <3>1 DEF Recorded, Committed
  <2> QED BY <1>0, <1>17, <2>1, <2>2, <2>4 DEF Recorded, Handle, told
<1>18. ASSUME NEW t \in Tabs, NEW from, NEW id, NoAnswer(t, from, id) PROVE Recorded'
  <2>1. \A u \in Tabs : /\ sub'[u].st \in Committed => sub'[u].id \in Given
                        /\ check'[u].st # "idle" => check'[u].id \in Given
    <3>1. \A u \in Tabs :
            /\ sub'[u].id = sub[u].id /\ check'[u].id = check[u].id
            /\ sub'[u].st = sub[u].st \/ (sub[u].st = "sent" /\ sub'[u].st = "answered")
            /\ check'[u].st = check[u].st \/ check[u].st = "resent"
      <4>1. \E ok \in BOOLEAN : Hears(t, from, id, ok)
        BY <1>18 DEF NoAnswer
      <4> QED BY <4>1, HearsStates
    <3> QED BY <3>1 DEF Recorded, Committed
  <2> QED BY <1>0, <1>18, <2>1 DEF Recorded, NoAnswer, told
<1>19. ASSUME RunNext PROVE Recorded'
  <2>1. ran' \cup Elements(queued') \subseteq Given
    BY <1>19, TailElements DEF RunNext, Recorded, TypeOK
  <2> QED BY <1>0, <1>19, <2>1 DEF Recorded, RunNext, told
<1>20. \A r \in wire : r[1] \in Tabs
  BY DEF TypeOK
<1> QED BY <1>1, <1>2, <1>3, <1>4, <1>5, <1>6, <1>7, <1>8, <1>10, <1>11, <1>12, <1>13, <1>14,
           <1>15, <1>16, <1>17, <1>18, <1>19, <1>20, SceneFacts DEF PromptNext, TabStep

-----------------------------------------------------------------------------
(* A tab's submission, its checks, and what it takes back. *)

\* The steps that have to do with none of a tab's jobs and drafts.
Elsewhere == UNCHANGED <<sub, back, box, following>>
LEMMA ElsewhereFacts ==
  ASSUME NEW t, NEW id,
         SeeAccepted(t, id) \/ AskUnprompted(t, id) \/ Check(t, id) \/ Dismiss(t, id)
         \/ CheckAnswered(t) \/ RetryAnswered(t) \/ RunNext
  PROVE  Elsewhere
BY DEF Elsewhere, SeeAccepted, AskUnprompted, Check, Dismiss, CheckAnswered, RetryAnswered,
       RunNext, drafts

\* A draft that is restored is the tab's own, or nothing was.
LEMMA RestoreFacts ==
  ASSUME TypeOK, NEW t \in Tabs, NEW id \in Given, RestoreDraft(t, id)
  PROVE  \/ /\ Publish(t, sent[id].text) /\ sent[id].text \in Messages
            /\ back'[t].st = "removing" /\ back'[t].id = id
            /\ \A u \in Tabs \ {t} : back'[u] = back[u]
         \/ /\ UNCHANGED drafts /\ back'[t] = Idle
            /\ \A u \in Tabs \ {t} : back'[u] = back[u]
<1>1. CASE /\ Publish(t, sent[id].text)
           /\ back' = [back EXCEPT ![t] = [Idle EXCEPT !.st = "removing", !.id = id]]
  <2>1. [Idle EXCEPT !.st = "removing", !.id = id].id = id
        /\ [Idle EXCEPT !.st = "removing", !.id = id].st = "removing"
    BY DEF Idle
  <2>2. back'[t] = [Idle EXCEPT !.st = "removing", !.id = id]
        /\ \A u \in Tabs \ {t} : back'[u] = back[u]
    BY <1>1 DEF TypeOK
  <2> QED BY <1>1, <2>1, <2>2, GivenText
<1>2. CASE UNCHANGED drafts /\ back' = [back EXCEPT ![t] = Idle]
  BY <1>2 DEF TypeOK
<1> QED BY <1>1, <1>2 DEF RestoreDraft

\* A tab that submits keeps its text in the prompt until the record is saved.
LEMMA DraftedKept ==
  ASSUME TypeOK, Numbered, Recorded, Drafted, Counted, PromptNext
  PROVE  Drafted'
<1>0. /\ \A u \in Tabs : sub[u] \in Jobs(SubStates) /\ back[u] \in Jobs(BackStates)
      /\ Idle.st = "idle"
  BY DEF TypeOK, Idle
<1>e. ASSUME Elsewhere PROVE Drafted'
  BY <1>e DEF Elsewhere, Drafted
<1>1. ASSUME NEW t \in Tabs, NEW m \in scene.texts, TypeDraft(t, m) PROVE Drafted'
  <2>1. \A u \in Tabs \ {t} : sub[u].st # "idle" => box'[u] = box[u]
    BY <1>1, PublishType, SceneFacts DEF TypeDraft
  <2> QED BY <1>1, <2>1 DEF Drafted, TypeDraft
<1>2. ASSUME NEW t \in Tabs, NEW q \in BOOLEAN, Submit(t, q) PROVE Drafted'
  <2>1. \A u \in Tabs \ {t} : sub'[u] = sub[u]
    BY <1>2 DEF Submit, TypeOK
  <2>2. sub'[t].text = box[t] /\ box[t] # Empty /\ back[t].st = "idle"
    BY <1>2 DEF Submit, TypeOK, Idle
  <2> QED BY <1>2, <2>1, <2>2 DEF Drafted, Submit, drafts
<1>3. ASSUME NEW t \in Tabs, ReadRecords(t) PROVE Drafted'
  <2>1. \A u \in Tabs \ {t} : sub'[u] = sub[u]
    BY <1>3 DEF ReadRecords, TypeOK
  <2>2. sub'[t] = Idle \/ (sub'[t].st = "saving" /\ sub'[t].text = sub[t].text)
    BY <1>0, <1>3 DEF ReadRecords, TypeOK, Jobs
  <2> QED BY <1>0, <1>3, <2>1, <2>2 DEF Drafted, ReadRecords, drafts
<1>4. ASSUME NEW t \in Tabs, SaveRecord(t) PROVE Drafted'
  <2>1. \A u \in Tabs \ {t} : sub'[u] = sub[u]
    BY <1>4 DEF SaveRecord, TypeOK
  <2>2. sub'[t] = Idle \/ sub'[t].st = "saved"
    BY <1>0, <1>4 DEF SaveRecord, TypeOK, Jobs
  <2> QED BY <1>0, <1>4, <2>1, <2>2 DEF Drafted, SaveRecord, drafts
<1>5. ASSUME NEW t \in Tabs, Send(t) PROVE Drafted'
  <2>1. \A u \in Tabs \ {t} : sub'[u] = sub[u]
    BY <1>5 DEF Send, TypeOK
  <2>2. sub'[t].st = "sent"
    BY <1>0, <1>5 DEF Send, TypeOK, Jobs
  <2>3. \A u \in Tabs \ {t} : sub[u].st # "idle" => box'[u] = box[u]
    BY <1>5, PublishType DEF Send, drafts
  <2> QED BY <1>5, <2>1, <2>2, <2>3 DEF Drafted, Send
<1>6. ASSUME NEW t \in Tabs, Answered(t) PROVE Drafted'
  <2>1. /\ \A u \in Tabs \ {t} : sub'[u] = sub[u]
        /\ sub'[t].st = "idle"
    BY <1>0, <1>6 DEF Answered, TypeOK
  <2>2. \A u \in Tabs \ {t} : sub[u].st # "idle" => box'[u] = box[u]
    BY <1>0, <1>6, AnsweredDrafts, PublishType DEF TypeOK, Jobs, drafts
  <2> QED BY <1>6, <2>1, <2>2 DEF Drafted, Answered
<1>7. ASSUME NEW t \in Tabs, NEW id \in Given, RestoreDraft(t, id), sub[t].st = "idle", sub' = sub
      PROVE  Drafted'
  <2>1. /\ \A u \in Tabs \ {t} : back'[u] = back[u]
        /\ \A u \in Tabs \ {t} : sub[u].st # "idle" => box'[u] = box[u]
    <3>1. CASE Publish(t, sent[id].text) /\ sent[id].text \in Messages
      BY <1>7, <3>1, RestoreFacts, PublishType
    <3>2. CASE UNCHANGED drafts
      BY <1>7, <3>2, RestoreFacts DEF drafts
    <3> QED BY <1>7, <3>1, <3>2, RestoreFacts
  <2> QED BY <1>7, <2>1 DEF Drafted
<1>10. ASSUME NEW t \in Tabs, NEW id \in Ids, MoveBack(t, id) PROVE Drafted'
  BY <1>7, <1>10 DEF MoveBack, Recorded
<1>13. ASSUME NEW t \in Tabs, Stop(t) PROVE Drafted'
  <2>1. \A u \in Tabs \ {t} : back'[u] = back[u]
    BY <1>13 DEF Stop, TypeOK
  <2> QED BY <1>13, <2>1 DEF Drafted, Stop, drafts
<1>14. ASSUME NEW t \in Tabs, Stopped(t) PROVE Drafted'
  <2>1. sub[t].st = "idle"
    BY <1>14 DEF Stopped, Drafted
  <2>2. CASE StillEmpty(t) /\ queued # <<>>
    <3>1. Head(queued) \in Given
      BY <2>2, TailElements DEF Recorded, TypeOK
    <3> QED BY <1>7, <1>14, <2>1, <2>2, <3>1 DEF Stopped
  <2>3. CASE ~(StillEmpty(t) /\ queued # <<>>)
    <3>1. \A u \in Tabs : back'[u] \in {back[u], Idle}
      BY <1>14, <2>3 DEF Stopped, TypeOK
    <3> QED BY <1>0, <1>14, <2>3, <3>1 DEF Drafted, Stopped, drafts
  <2> QED BY <2>2, <2>3
<1>15. ASSUME NEW t \in Tabs, Removed(t) PROVE Drafted'
  <2>1. \A u \in Tabs : back'[u] \in {back[u], Idle}
    BY <1>15 DEF Removed, TypeOK
  <2> QED BY <1>0, <1>15, <2>1 DEF Drafted, Removed, drafts
<1>16. ASSUME NEW t \in Tabs, Leave(t) PROVE Drafted'
  <2>1. \A u \in Tabs \ {t} : sub'[u] = sub[u] /\ back'[u] = back[u] /\ box'[u] = box[u]
    BY <1>16 DEF Leave, TypeOK
  <2>2. sub'[t] = Idle
    BY <1>16 DEF Leave, TypeOK
  <2> QED BY <1>0, <2>1, <2>2 DEF Drafted
<1>17. ASSUME NEW t, NEW from, NEW id, Handle(t, from, id) \/ NoAnswer(t, from, id) PROVE Drafted'
  <2>1. t \in Tabs
    BY <1>17 DEF Handle, NoAnswer, TypeOK
  <2>2. Hears(t, from, id, TRUE) \/ Hears(t, from, id, FALSE)
    BY <1>17 DEF Handle, NoAnswer
  <2>3. \A u \in Tabs : sub'[u].text = sub[u].text
          /\ (sub'[u].st = sub[u].st \/ (sub[u].st = "sent" /\ sub'[u].st = "answered"))
    BY <2>1, <2>2, HearsType
  <2>4. UNCHANGED <<box, back>>
    BY <1>17 DEF Handle, NoAnswer, drafts
  <2> QED BY <2>3, <2>4 DEF Drafted
<1> QED BY <1>e, <1>1, <1>2, <1>3, <1>4, <1>5, <1>6, <1>10, <1>13, <1>14, <1>15, <1>16, <1>17,
           ElsewhereFacts, SceneFacts DEF PromptNext, TabStep

\* A text that is taken back stays in the prompt until the server has given it up.
LEMMA TakingBackKept ==
  ASSUME TypeOK, Numbered, Recorded, Drafted, TakingBack, Counted, PromptNext
  PROVE  TakingBack'
<1>0. /\ Idle.st = "idle"
      /\ \A u \in Tabs : back[u].st = "removing" =>
           box[u] # Empty /\ ~following[u] /\ sub[u].st = "idle"
      /\ \A i \in Given : sent'[i] = sent[i]
  BY NumberedKept DEF Idle, TakingBack, Recorded, Given, Drafted
<1>k. ASSUME \A u \in Tabs : back'[u].st = "removing" =>
                /\ back[u].st = "removing" /\ back'[u].id = back[u].id
                /\ box'[u] = box[u] /\ following'[u] = following[u]
      PROVE  TakingBack'
  BY <1>0, <1>k DEF TakingBack, Recorded
<1>p. ASSUME NEW t \in Tabs, NEW m \in Messages \cup {Empty}, Publish(t, m)
      PROVE  \A u \in Tabs \ {t} : back[u].st = "removing" =>
                box'[u] = box[u] /\ following'[u] = following[u]
  BY <1>p, PublishType
<1>e. ASSUME Elsewhere PROVE TakingBack'
  BY <1>e, <1>k DEF Elsewhere
<1>1. ASSUME NEW t \in Tabs, NEW m \in scene.texts, TypeDraft(t, m) PROVE TakingBack'
  BY <1>0, <1>1, <1>p, <1>k, SceneFacts DEF TypeDraft
<1>2. ASSUME NEW t \in Tabs, NEW q \in BOOLEAN, Submit(t, q) PROVE TakingBack'
  BY <1>2, <1>k DEF Submit, drafts
<1>3. ASSUME NEW t \in Tabs, ReadRecords(t) \/ SaveRecord(t) PROVE TakingBack'
  BY <1>3, <1>k DEF ReadRecords, SaveRecord, drafts
<1>5. ASSUME NEW t \in Tabs, Send(t) \/ Answered(t) PROVE TakingBack'
  <2>1. back' = back /\ back[t].st # "removing"
    BY <1>0, <1>5 DEF Send, Answered
  <2>2. Publish(t, Empty) \/ Publish(t, sub[t].text) \/ UNCHANGED drafts
    BY <1>5, AnsweredDrafts DEF Send
  <2>3. sub[t].text \in Messages \cup {Empty}
    BY DEF TypeOK, Jobs
  <2> QED BY <2>1, <2>2, <2>3, <1>k, <1>p DEF drafts
<1>7. ASSUME NEW t \in Tabs, NEW id \in Given, RestoreDraft(t, id)
      PROVE  TakingBack'
  <2>1. CASE /\ Publish(t, sent[id].text) /\ sent[id].text \in Messages
             /\ back'[t].st = "removing" /\ back'[t].id = id
             /\ \A u \in Tabs \ {t} : back'[u] = back[u]
    <3>1. box'[t] = sent'[id].text /\ ~following'[t]
      BY <1>0, <2>1, PublishType
    <3>2. ASSUME NEW u \in Tabs \ {t}, back'[u].st = "removing"
          PROVE  box'[u] = sent'[back'[u].id].text /\ ~following'[u]
      BY <1>0, <1>p, <2>1, <3>2 DEF TakingBack, Recorded
    <3> QED BY <2>1, <3>1, <3>2 DEF TakingBack
  <2>2. CASE /\ UNCHANGED drafts /\ back'[t] = Idle
             /\ \A u \in Tabs \ {t} : back'[u] = back[u]
    BY <1>0, <1>k, <2>2 DEF drafts
  <2> QED BY <1>7, <2>1, <2>2, RestoreFacts
<1>10. ASSUME NEW t \in Tabs, NEW id \in Ids, MoveBack(t, id) PROVE TakingBack'
  BY <1>7, <1>10 DEF MoveBack, Recorded
<1>13. ASSUME NEW t \in Tabs, Stop(t) PROVE TakingBack'
  <2>1. \A u \in Tabs \ {t} : back'[u] = back[u]
    BY <1>13 DEF Stop, TypeOK
  <2>2. back'[t].st = "stopping"
    BY <1>13 DEF Stop, TypeOK, Jobs
  <2> QED BY <1>13, <1>k, <2>1, <2>2 DEF Stop, drafts
<1>14. ASSUME NEW t \in Tabs, Stopped(t) PROVE TakingBack'
  <2>2. CASE StillEmpty(t) /\ queued # <<>>
    <3>1. Head(queued) \in Given
      BY <2>2, TailElements DEF Recorded, TypeOK
    <3> QED BY <1>7, <1>14, <2>2, <3>1 DEF Stopped
  <2>3. CASE ~(StillEmpty(t) /\ queued # <<>>)
    <3>1. \A u \in Tabs : back'[u] \in {back[u], Idle}
      BY <1>14, <2>3 DEF Stopped, TypeOK
    <3> QED BY <1>0, <1>k, <1>14, <2>3, <3>1 DEF Stopped, drafts
  <2> QED BY <2>2, <2>3
<1>15. ASSUME NEW t \in Tabs, Removed(t) PROVE TakingBack'
  <2>1. \A u \in Tabs : back'[u] \in {back[u], Idle}
    BY <1>15 DEF Removed, TypeOK
  <2> QED BY <1>0, <1>k, <1>15, <2>1 DEF Removed, drafts
<1>16. ASSUME NEW t \in Tabs, Leave(t) PROVE TakingBack'
  <2>1. \A u \in Tabs \ {t} : back'[u] = back[u] /\ box'[u] = box[u] /\ following'[u] = following[u]
    BY <1>16 DEF Leave, TypeOK
  <2>2. back'[t] = Idle
    BY <1>16 DEF Leave, TypeOK
  <2> QED BY <1>0, <1>k, <2>1, <2>2
<1>17. ASSUME NEW t, NEW from, NEW id, Handle(t, from, id) \/ NoAnswer(t, from, id) PROVE TakingBack'
  BY <1>17, <1>k DEF Handle, NoAnswer, drafts
<1> QED BY <1>e, <1>1, <1>2, <1>3, <1>5, <1>10, <1>13, <1>14, <1>15, <1>16, <1>17,
           ElsewhereFacts, SceneFacts DEF PromptNext, TabStep

\* A yes that a tab has heard is the receipt's.
LEMMA ConfirmedKept ==
  ASSUME TypeOK, Numbered, Recorded, Drafted, Confirmed, Counted, PromptNext
  PROVE  Confirmed'
<1>0. /\ \A u \in Tabs : sub[u] \in Jobs(SubStates) /\ check[u] \in Jobs(CheckStates)
      /\ Idle.st = "idle" /\ ~Idle.ok
  BY DEF TypeOK, Idle
<1>k. ASSUME receipt' = receipt,
             \A u \in Tabs : /\ sub'[u] = sub[u] \/ ~sub'[u].ok
                             /\ check'[u] = check[u] \/ ~check'[u].ok
      PROVE  Confirmed'
  BY <1>k DEF Confirmed
<1>s. ASSUME NEW t \in Tabs, UNCHANGED <<receipt, check>>, \A u \in Tabs \ {t} : sub'[u] = sub[u],
             sub'[t] = sub[t] \/ ~sub'[t].ok
      PROVE  Confirmed'
  BY <1>k, <1>s
<1>c. ASSUME NEW t \in Tabs, UNCHANGED <<receipt, sub>>, \A u \in Tabs \ {t} : check'[u] = check[u],
             check'[t] = check[t] \/ ~check'[t].ok
      PROVE  Confirmed'
  BY <1>k, <1>c
<1>1. ASSUME NEW t, NEW m, TypeDraft(t, m) PROVE Confirmed'
  BY <1>1, <1>k DEF TypeDraft, server
<1>2. ASSUME NEW t \in Tabs, NEW q \in BOOLEAN, Submit(t, q) PROVE Confirmed'
  <2>1. \A u \in Tabs \ {t} : sub'[u] = sub[u]
    BY <1>2 DEF Submit, TypeOK
  <2>2. ~sub'[t].ok
    BY <1>2 DEF Submit, TypeOK, Idle
  <2> QED BY <1>2, <1>s, <2>1, <2>2 DEF Submit, server
<1>3. ASSUME NEW t \in Tabs, ReadRecords(t) \/ SaveRecord(t) \/ Send(t) PROVE Confirmed'
  <2>1. \A u \in Tabs \ {t} : sub'[u] = sub[u]
    BY <1>3 DEF ReadRecords, SaveRecord, Send, TypeOK
  <2>2. ~sub[t].ok
    BY <1>3 DEF ReadRecords, SaveRecord, Send, Confirmed
  <2>3. sub'[t] = Idle \/ sub'[t].ok = sub[t].ok
    BY <1>0, <1>3 DEF ReadRecords, SaveRecord, Send, TypeOK, Jobs
  <2> QED BY <1>0, <1>3, <1>s, <2>1, <2>2, <2>3 DEF ReadRecords, SaveRecord, Send, server
<1>6. ASSUME NEW t \in Tabs, Answered(t) PROVE Confirmed'
  <2>1. /\ \A u \in Tabs \ {t} : sub'[u] = sub[u]
        /\ sub'[t] = Idle
    BY <1>6 DEF Answered, TypeOK
  <2> QED BY <1>0, <1>6, <1>s, <2>1 DEF Answered, server
<1>7. ASSUME NEW t \in Tabs, NEW id \in Ids,
             SeeAccepted(t, id) \/ AskUnprompted(t, id) \/ Dismiss(t, id) \/ MoveBack(t, id)
      PROVE  Confirmed'
  BY <1>7, <1>k DEF SeeAccepted, AskUnprompted, Dismiss, MoveBack, server
<1>8. ASSUME NEW t \in Tabs, NEW id \in Ids, Check(t, id) PROVE Confirmed'
  <2>1. \A u \in Tabs \ {t} : check'[u] = check[u]
    BY <1>8 DEF Check, TypeOK
  <2>2. ~check'[t].ok
    BY <1>8 DEF Check, TypeOK, Idle
  <2> QED BY <1>8, <1>c, <2>1, <2>2 DEF Check, server
<1>11. ASSUME NEW t \in Tabs, CheckAnswered(t) PROVE Confirmed'
  <2>1. check' \in {[check EXCEPT ![t] = Idle], [check EXCEPT ![t].st = "resent"]}
    BY <1>11 DEF CheckAnswered
  <2>2. \A u \in Tabs \ {t} : check'[u] = check[u]
    BY <2>1 DEF TypeOK
  <2>3. ~check[t].ok
    BY <1>11 DEF CheckAnswered, Confirmed
  <2>4. check'[t] = Idle \/ check'[t].ok = check[t].ok
    BY <1>0, <2>1 DEF TypeOK, Jobs
  <2> QED BY <1>0, <1>11, <1>c, <2>2, <2>3, <2>4 DEF CheckAnswered
<1>12. ASSUME NEW t \in Tabs, RetryAnswered(t) PROVE Confirmed'
  <2>1. /\ \A u \in Tabs \ {t} : check'[u] = check[u]
        /\ check'[t] = Idle
    BY <1>12 DEF RetryAnswered, TypeOK
  <2> QED BY <1>0, <1>12, <1>c, <2>1 DEF RetryAnswered, server
<1>13. ASSUME NEW t \in Tabs, Stop(t) \/ Stopped(t) \/ Removed(t) PROVE Confirmed'
  BY <1>13, <1>k DEF Stop, Stopped, Removed, server
<1>16. ASSUME NEW t \in Tabs, Leave(t) PROVE Confirmed'
  <2>1. \A u \in Tabs : sub'[u] \in {sub[u], Idle} /\ check'[u] \in {check[u], Idle}
    BY <1>16 DEF Leave, TypeOK
  <2> QED BY <1>0, <1>16, <1>k, <2>1 DEF Leave, server
<1>17. ASSUME NEW t \in Tabs, NEW from, NEW id, NEW ok \in BOOLEAN, Hears(t, from, id, ok),
              \A i \in Ids : receipt[i] = "accepted" => receipt'[i] = "accepted",
              ok => receipt'[id] = "accepted"
       PROVE  Confirmed'
  <2>1. \A u \in Tabs : receipt[sub[u].id] = "accepted" /\ sub[u].st = "answered"
                          => receipt'[sub[u].id] = "accepted"
    BY <1>17 DEF Recorded, Committed, Given
  <2>2. \A u \in Tabs : receipt[check[u].id] = "accepted" /\ check[u].st = "answered"
                          => receipt'[check[u].id] = "accepted"
    BY <1>17 DEF Recorded, Given
  <2>3. \A u \in Tabs : sub'[u].ok => sub'[u].st = "answered" /\ receipt'[sub'[u].id] = "accepted"
    BY <1>17, <2>1, HearsType DEF Confirmed
  <2>4. \A u \in Tabs : check'[u].ok =>
          check'[u].st = "answered" /\ receipt'[check'[u].id] = "accepted"
    BY <1>17, <2>2, HearsType DEF Confirmed
  <2> QED BY <2>3, <2>4 DEF Confirmed
<1>18. ASSUME NEW t, NEW from, NEW id, Handle(t, from, id) PROVE Confirmed'
  <2>1. t \in Tabs /\ id \in Ids
        /\ \A i \in Ids : receipt[i] = "accepted" => receipt'[i] = "accepted"
    BY <1>18, DoFacts DEF Claims
  <2>2. Hears(t, from, id, FALSE) \/ (Hears(t, from, id, TRUE) /\ receipt'[id] = "accepted")
    BY <1>18, <2>1 DEF Handle, TypeOK
  <2> QED BY <1>17, <2>1, <2>2
<1>19. ASSUME NEW t, NEW from, NEW id, NoAnswer(t, from, id) PROVE Confirmed'
  <2>1. t \in Tabs
    BY <1>19 DEF NoAnswer, TypeOK
  <2> QED BY <1>17, <1>19, <2>1 DEF NoAnswer
<1>20. ASSUME RunNext PROVE Confirmed'
  BY <1>20, <1>k DEF RunNext
<1> QED BY <1>1, <1>2, <1>3, <1>6, <1>7, <1>8, <1>11, <1>12, <1>13, <1>16, <1>18, <1>19, <1>20,
           SceneFacts DEF PromptNext, TabStep

-----------------------------------------------------------------------------
(* Where the texts are. *)

\* A record that is removed was the server's already.
LEMMA RemovedIsTaken ==
  ASSUME TypeOK, NEW t \in Tabs, NEW id, RemoveRecord(t, id),
         Removable(id) \/ id \in ran \cup Elements(queued),
         UNCHANGED <<queued, ran, receipt>>,
         \A u \in Tabs : heard'[u] \subseteq heard[u] \cup ran \cup Elements(queued)
  PROVE  Safe \subseteq Safe'
BY DEF Safe, Removable, RemoveRecord

\* What the server answers by its receipt, it has or had.
LEMMA StatusFacts ==
  ASSUME NEW id, Status(id) = "accepted"
  PROVE  Removable(id) \/ id \in ran \cup Elements(queued)
BY DEF Status, Removable

\* A text that the server or a record has is not lost: it is there after the
\* step, or in the prompt it was taken back into, or given up.
LEMMA SafeKept ==
  ASSUME TypeOK, Numbered, Recorded, Drafted, Confirmed, TakingBack, Counted, PromptNext,
         NEW i \in Safe
  PROVE  /\ sent'[i] = sent[i]
         /\ i \in Safe' \/ sent[i].text \in forgotten' \/ InPrompt(sent[i].text)'
<1> DEFINE Fine == i \in Safe' \/ sent[i].text \in forgotten' \/ InPrompt(sent[i].text)'
<1>0. i \in Given /\ i \in Ids
  BY DEF Safe, Recorded, Given
<1>k. ASSUME UNCHANGED <<queued, ran, receipt>>, records \subseteq records',
             \A u \in Tabs : heard'[u] \subseteq heard[u] \cup ran \cup Elements(queued)
      PROVE  Fine
  BY <1>k DEF Safe, Removable
<1>1. ASSUME NEW t \in Tabs, NEW m, TypeDraft(t, m) PROVE Fine
  BY <1>1, <1>k DEF TypeDraft, told, server
<1>2. ASSUME NEW t \in Tabs, NEW q, Submit(t, q) PROVE Fine
  BY <1>2, <1>k DEF Submit, told, server
<1>3. ASSUME NEW t \in Tabs, ReadRecords(t) \/ SaveRecord(t) \/ Send(t) PROVE Fine
  BY <1>3, <1>k DEF ReadRecords, SaveRecord, Send, told, server
<1>6. ASSUME NEW t \in Tabs, Answered(t) PROVE Fine
  <2>1. Settles(t) => Removable(sub[t].id)
    BY DEF Settles, Removable, Confirmed
  <2>2. UNCHANGED <<queued, ran, receipt, heard>>
    BY <1>6 DEF Answered, told, server
  <2>3. records' = records \/ (Settles(t) /\ RemoveRecord(t, sub[t].id))
    BY <1>6 DEF Answered
  <2> QED BY <1>k, <2>1, <2>2, <2>3, RemovedIsTaken
<1>7. ASSUME NEW t \in Tabs, NEW id \in Ids, SeeAccepted(t, id) PROVE Fine
  <2>1. \A u \in Tabs : heard'[u] \subseteq heard[u] \cup ran \cup Elements(queued)
    BY <1>7 DEF SeeAccepted, TypeOK
  <2>2. id \in ran \cup Elements(queued) /\ UNCHANGED <<queued, ran, receipt>>
    BY <1>7 DEF SeeAccepted, server
  <2>3. records' = records \/ RemoveRecord(t, id)
    BY <1>7 DEF SeeAccepted
  <2> QED BY <1>k, <2>1, <2>2, <2>3, RemovedIsTaken
<1>8. ASSUME NEW t \in Tabs, NEW id \in Ids, AskUnprompted(t, id) PROVE Fine
  BY <1>8, StatusFacts, RemovedIsTaken DEF AskUnprompted, told, server
<1>9. ASSUME NEW t \in Tabs, NEW id \in Ids, Check(t, id) \/ MoveBack(t, id) PROVE Fine
  BY <1>9, <1>k DEF Check, MoveBack, told, server
<1>10. ASSUME NEW t \in Tabs, NEW id \in Ids, Dismiss(t, id) PROVE Fine
  <2>1. CASE i = id
    BY <1>10, <2>1 DEF Dismiss
  <2>2. CASE i # id
    BY <1>10, <2>2 DEF Dismiss, RemoveRecord, Safe, Removable, told, server
  <2> QED BY <2>1, <2>2
<1>11. ASSUME NEW t \in Tabs, CheckAnswered(t) PROVE Fine
  <2>1. UNCHANGED <<queued, ran, receipt, heard>>
    BY <1>11 DEF CheckAnswered
  <2>2. records' = records \/ (Status(check[t].id) = "accepted" /\ RemoveRecord(t, check[t].id))
    BY <1>11 DEF CheckAnswered
  <2> QED BY <1>k, <2>1, <2>2, StatusFacts, RemovedIsTaken
<1>12. ASSUME NEW t \in Tabs, RetryAnswered(t) PROVE Fine
  <2>1. UNCHANGED <<queued, ran, receipt, heard>>
    BY <1>12 DEF RetryAnswered, told, server
  <2>2. records' = records \/ (check[t].ok /\ RemoveRecord(t, check[t].id))
    BY <1>12 DEF RetryAnswered
  <2>3. check[t].ok => Removable(check[t].id)
    BY DEF Removable, Confirmed
  <2> QED BY <1>k, <2>1, <2>2, <2>3, RemovedIsTaken
<1>13. ASSUME NEW t \in Tabs, Stop(t) \/ Stopped(t) PROVE Fine
  BY <1>13, <1>k DEF Stop, Stopped, told, server
<1>15. ASSUME NEW t \in Tabs, Removed(t) PROVE Fine
  <2>1. CASE i = back[t].id
    <3>1. box[t] = sent[i].text /\ ~following[t] /\ sub[t].st = "idle"
      BY <1>15, <2>1 DEF Removed, TakingBack, Drafted
    <3>2. UNCHANGED <<box, following, sub, sent>>
      BY <1>15 DEF Removed, drafts
    <3>3. InPrompt(sent[i].text)'
      BY <3>1, <3>2 DEF InPrompt, Committed
    <3> QED BY <3>3
  <2>2. CASE i # back[t].id
    <3>1. i \in Elements(queued) => i \in Elements(queued')
      BY <1>15, <2>2, WithoutElements DEF Removed, TypeOK
    <3> QED BY <1>15, <3>1 DEF Removed, Safe, Removable, told
  <2> QED BY <2>1, <2>2
<1>16. ASSUME NEW t \in Tabs, Leave(t) PROVE Fine
  BY <1>16, <1>k DEF Leave, server
<1>17. ASSUME NEW t, NEW from, NEW id, Handle(t, from, id) PROVE Fine
  <2>1. /\ id \in Ids /\ ran \cup Elements(queued) \subseteq ran' \cup Elements(queued')
        /\ Do(id) => id \in ran' \cup Elements(queued')
    BY <1>17, DoFacts
  <2>2. \A j \in Ids : receipt'[j] = "accepted" => receipt[j] = "accepted" \/ (j = id /\ Do(id))
    BY <1>17, <2>1 DEF Handle, TypeOK
  <2>3. UNCHANGED <<records, heard>>
    BY <1>17 DEF Handle, told
  <2> QED BY <1>0, <2>1, <2>2, <2>3 DEF Safe, Removable
<1>18. ASSUME NEW t, NEW from, NEW id, NoAnswer(t, from, id) PROVE Fine
  BY <1>18, <1>k DEF NoAnswer, told
<1>19. ASSUME RunNext PROVE Fine
  <2>1. ran \cup Elements(queued) = ran' \cup Elements(queued')
    BY <1>19, TailElements DEF RunNext, TypeOK
  <2> QED BY <1>19, <2>1 DEF RunNext, Safe, Removable, told
<1>20. Fine
  BY <1>1, <1>2, <1>3, <1>6, <1>7, <1>8, <1>9, <1>10, <1>11, <1>12, <1>13, <1>15, <1>16, <1>17,
     <1>18, <1>19, SceneFacts DEF PromptNext, TabStep
<1> QED BY <1>0, <1>20, NumberedKept

\* A text in a prompt stays in it, or is in a record that was just saved, or is
\* given up.
LEMMA PromptKept ==
  ASSUME TypeOK, Numbered, Recorded, Drafted, TakingBack, Counted, PromptNext,
         NEW m \in typed', m \notin forgotten', m \notin typed \/ InPrompt(m)
  PROVE  InPrompt(m)' \/ \E i \in Safe' : sent'[i].text = m
<1> DEFINE Fine == InPrompt(m)' \/ \E i \in Safe' : sent'[i].text = m
           In(u) == box[u] = m /\ ~following[u] /\ sub[u].st \notin Committed
<1>0. /\ m \in Messages /\ m # Empty /\ Idle.st \notin Committed
      /\ \A u \in Tabs : sub[u] \in Jobs(SubStates)
  BY TypesKept, ComposerAssumption DEF TypeOK, Idle, Committed
<1>k. ASSUME typed' = typed, \A u \in Tabs : In(u) => In(u)' PROVE Fine
  BY <1>k DEF InPrompt
<1>p. ASSUME NEW t \in Tabs, NEW n \in Messages \cup {Empty}, Publish(t, n),
             NEW u \in Tabs \ {t}, In(u)
      PROVE  box'[u] = m /\ ~following'[u]
  BY <1>0, <1>p, PublishType
<1>e. ASSUME Elsewhere, typed' = typed PROVE Fine
  BY <1>e, <1>k DEF Elsewhere
<1>1. ASSUME NEW t \in Tabs, NEW n \in scene.texts, TypeDraft(t, n) PROVE Fine
  <2>1. CASE m \in typed
    <3>1. PICK u \in Tabs : In(u)
      BY <2>1 DEF InPrompt
    <3>2. u # t
      BY <1>0, <1>1, <3>1 DEF TypeDraft
    <3>3. box'[u] = m /\ ~following'[u] /\ sub' = sub
      BY <1>1, <1>p, <3>1, <3>2, SceneFacts DEF TypeDraft
    <3> QED BY <3>1, <3>3 DEF InPrompt
  <2>2. CASE m \notin typed
    <3>1. m = n
      BY <1>1, <2>2 DEF TypeDraft
    <3>2. box'[t] = m /\ ~following'[t] /\ sub' = sub /\ sub[t].st = "idle"
      BY <1>1, <3>1, PublishType, SceneFacts DEF TypeDraft
    <3> QED BY <3>2 DEF InPrompt, Committed
  <2> QED BY <2>1, <2>2
<1>2. ASSUME NEW t \in Tabs, NEW q \in BOOLEAN, Submit(t, q) PROVE Fine
  <2>1. \A u \in Tabs : sub'[u] = sub[u] \/ sub'[u].st = "reading"
    BY <1>2 DEF Submit, TypeOK, Idle
  <2> QED BY <1>2, <1>k, <2>1 DEF Submit, drafts, Committed
<1>3. ASSUME NEW t \in Tabs, ReadRecords(t) PROVE Fine
  <2>1. \A u \in Tabs : sub'[u] = sub[u] \/ sub'[u].st \in {"saving", "idle"}
    BY <1>0, <1>3 DEF ReadRecords, TypeOK, Jobs, Idle
  <2> QED BY <1>3, <1>k, <2>1 DEF ReadRecords, drafts, user, Committed
<1>4. ASSUME NEW t \in Tabs, SaveRecord(t) PROVE Fine
  <2>1. CASE Saves(t)
    <3>1. PICK u \in Tabs : In(u)
      BY <2>1 DEF InPrompt, Saves, user
    <3>2. CASE u = t
      <4> DEFINE new == NewId
      <4>1. /\ new \in records' /\ new \in Ids \ Given /\ sent'[new].text = m
            /\ UNCHANGED <<receipt, heard>>
        BY <2>1, <3>1, <3>2 DEF Saves, Drafted, told, server
      <4> HIDE DEF new
      <4>2. receipt[new] = "none" /\ \A w \in Tabs : new \notin heard[w]
        BY <4>1 DEF Recorded
      <4>3. new \in Safe'
        BY <4>1, <4>2 DEF Safe, Removable
      <4> QED BY <4>1, <4>3
    <3>3. CASE u # t
      <4>1. sub'[u] = sub[u] /\ UNCHANGED drafts
        BY <2>1, <3>3 DEF Saves, TypeOK
      <4> QED BY <3>1, <4>1 DEF InPrompt, drafts
    <3> QED BY <3>2, <3>3
  <2>2. CASE sub' = [sub EXCEPT ![t] = Idle]
    <3>1. \A u \in Tabs : sub'[u] \in {sub[u], Idle}
      BY <2>2 DEF TypeOK
    <3> QED BY <1>0, <1>4, <1>k, <3>1 DEF SaveRecord, drafts, user
  <2> QED BY <1>4, <2>1, <2>2, SavesFacts
<1>5. ASSUME NEW t \in Tabs, Send(t) PROVE Fine
  <2>1. \A u \in Tabs \ {t} : sub'[u] = sub[u]
    BY <1>5 DEF Send, TypeOK
  <2>2. ~In(t) /\ typed' = typed /\ (Publish(t, Empty) \/ UNCHANGED drafts)
    BY <1>5 DEF Send, Committed, user
  <2> QED BY <1>k, <1>p, <2>1, <2>2 DEF drafts
<1>6. ASSUME NEW t \in Tabs, Answered(t) PROVE Fine
  <2>1. \A u \in Tabs \ {t} : sub'[u] = sub[u]
    BY <1>6 DEF Answered, TypeOK
  <2>2. ~In(t) /\ typed' = typed
    BY <1>6 DEF Answered, Committed, user
  <2>3. Publish(t, Empty) \/ Publish(t, sub[t].text) \/ UNCHANGED drafts
    BY <1>6, AnsweredDrafts
  <2>4. sub[t].text \in Messages \cup {Empty}
    BY DEF TypeOK, Jobs
  <2> QED BY <1>k, <1>p, <2>1, <2>2, <2>3, <2>4 DEF drafts
<1>7. ASSUME NEW t \in Tabs, NEW id \in Given, RestoreDraft(t, id), UNCHANGED <<sub, typed>>,
             ~In(t) \/ sent[id].text = m \/ UNCHANGED drafts
      PROVE  Fine
  <2>1. CASE Publish(t, sent[id].text) /\ sent[id].text \in Messages /\ ~UNCHANGED drafts
    <3>1. In(t) => In(t)'
      BY <1>7, <2>1, PublishType
    <3> QED BY <1>7, <1>k, <1>p, <2>1, <3>1
  <2>2. CASE UNCHANGED drafts
    BY <1>7, <1>k, <2>2 DEF drafts
  <2> QED BY <1>7, <2>1, <2>2, RestoreFacts
<1>10. ASSUME NEW t \in Tabs, NEW id \in Ids, MoveBack(t, id) PROVE Fine
  <2>1. id \in Given /\ RestoreDraft(t, id) /\ UNCHANGED <<sub, typed>>
    BY <1>10 DEF MoveBack, Recorded
  <2>2. In(t) => sent[id].text = m
    BY <1>0, <1>10 DEF MoveBack
  <2> QED BY <1>7, <2>1, <2>2
<1>13. ASSUME NEW t \in Tabs, Stop(t) \/ Removed(t) PROVE Fine
  BY <1>13, <1>k DEF Stop, Removed, drafts, user
<1>14. ASSUME NEW t \in Tabs, Stopped(t) PROVE Fine
  <2>1. CASE StillEmpty(t) /\ queued # <<>>
    <3>1. Head(queued) \in Given /\ RestoreDraft(t, Head(queued)) /\ UNCHANGED <<sub, typed>>
      BY <1>14, <2>1, TailElements DEF Recorded, TypeOK, Stopped, user
    <3>2. ~In(t)
      BY <1>0, <2>1 DEF StillEmpty
    <3> QED BY <1>7, <3>1, <3>2
  <2>2. CASE ~(StillEmpty(t) /\ queued # <<>>)
    BY <1>14, <1>k, <2>2 DEF Stopped, drafts, user
  <2> QED BY <2>1, <2>2
<1>16. ASSUME NEW t \in Tabs, Leave(t) PROVE Fine
  <2>1. \A u \in Tabs \ {t} : sub'[u] = sub[u] /\ box'[u] = box[u] /\ following'[u] = following[u]
    BY <1>16 DEF Leave, TypeOK
  <2>2. sub'[t] = Idle /\ ~following'[t] /\ typed' = typed
    BY <1>16 DEF Leave, TypeOK
  <2>3. box[t] = m => box'[t] = m
    BY <1>0, <1>16 DEF Leave, TypeOK
  <2> QED BY <1>0, <1>k, <2>1, <2>2, <2>3
<1>17. ASSUME NEW t, NEW from, NEW id, Handle(t, from, id) \/ NoAnswer(t, from, id) PROVE Fine
  <2>1. t \in Tabs
    BY <1>17 DEF Handle, NoAnswer, TypeOK
  <2>2. Hears(t, from, id, TRUE) \/ Hears(t, from, id, FALSE)
    BY <1>17 DEF Handle, NoAnswer
  <2>3. \A u \in Tabs : sub[u].st \notin Committed => sub'[u].st \notin Committed
    BY <2>1, <2>2, HearsType DEF Committed
  <2> QED BY <1>17, <1>k, <2>3 DEF Handle, NoAnswer, drafts, user
<1>18. ASSUME NEW t, NEW id,
              SeeAccepted(t, id) \/ AskUnprompted(t, id) \/ Check(t, id) \/ Dismiss(t, id)
              \/ CheckAnswered(t) \/ RetryAnswered(t) \/ RunNext
       PROVE  Fine
  <2>1. typed' = typed
    BY <1>18 DEF SeeAccepted, AskUnprompted, Check, Dismiss, CheckAnswered, RetryAnswered,
       RunNext, user
  <2> QED BY <1>e, <1>18, <2>1, ElsewhereFacts
<1> QED BY <1>1, <1>2, <1>3, <1>4, <1>5, <1>6, <1>10, <1>13, <1>14, <1>16, <1>17, <1>18,
           SceneFacts DEF PromptNext, TabStep

\* So no text is lost.
LEMMA KeptKept ==
  ASSUME TypeOK, Numbered, Recorded, Drafted, Confirmed, TakingBack, Kept, Counted, PromptNext
  PROVE  Kept'
<1> SUFFICES ASSUME NEW m \in typed', m \notin forgotten'
             PROVE  InPrompt(m)' \/ \E i \in Safe' : sent'[i].text = m
  BY DEF Kept
<1>1. CASE m \notin typed \/ InPrompt(m)
  BY <1>1, PromptKept
<1>2. CASE m \in typed /\ ~InPrompt(m)
  <2>1. m \notin forgotten
    <3>1. ASSUME NEW t, TabStep(t) PROVE forgotten \subseteq forgotten'
      <4>1. ASSUME NEW n, TypeDraft(t, n) PROVE forgotten' = forgotten
        BY <4>1 DEF TypeDraft
      <4>2. ASSUME NEW q, Submit(t, q) PROVE forgotten' = forgotten
        BY <4>2 DEF Submit
      <4>3. CASE ReadRecords(t) \/ SaveRecord(t) \/ Send(t) \/ Answered(t)
        BY <4>3 DEF ReadRecords, SaveRecord, Send, Answered, user
      <4>4. ASSUME NEW id, SeeAccepted(t, id) \/ AskUnprompted(t, id) \/ Check(t, id)
                           \/ Dismiss(t, id) \/ MoveBack(t, id)
            PROVE  forgotten \subseteq forgotten'
        BY <4>4 DEF SeeAccepted, AskUnprompted, Check, Dismiss, MoveBack, user
      <4>5. CASE CheckAnswered(t) \/ RetryAnswered(t) \/ Stop(t) \/ Stopped(t) \/ Removed(t)
        BY <4>5 DEF CheckAnswered, RetryAnswered, Stop, Stopped, Removed, user
      <4>6. CASE Leave(t)
        BY <4>6 DEF Leave
      <4> QED BY <3>1, <4>1, <4>2, <4>3, <4>4, <4>5, <4>6 DEF TabStep
    <3>2. ASSUME NEW r, Handle(r[1], r[2], r[3]) \/ NoAnswer(r[1], r[2], r[3])
          PROVE  forgotten' = forgotten
      BY <3>2 DEF Handle, NoAnswer, user
    <3> QED BY <3>1, <3>2 DEF PromptNext, RunNext, user
  <2>2. PICK i \in Safe : sent[i].text = m
    BY <1>2, <2>1 DEF Kept
  <2> QED BY <2>2, SafeKept
<1> QED BY <1>1, <1>2

-----------------------------------------------------------------------------
(* How often a text was sent, and taken. *)

\* What is counted is finite.
LEMMA CountsFinite ==
  ASSUME NEW S, NEW m
  PROVE  /\ IsFiniteSet(GivenFor(S)) /\ IsFiniteSet(Pressing(S)) /\ IsFiniteSet(TakenFor(m))
         /\ Cardinality(GivenFor(S)) \in Nat /\ Cardinality(Pressing(S)) \in Nat
         /\ Cardinality(TakenFor(m)) \in Nat
<1>1. IsFiniteSet(Ids) /\ IsFiniteSet(Tabs)
  BY FS_Interval, ComposerAssumption DEF Ids
<1>2. GivenFor(S) \subseteq Ids /\ Pressing(S) \subseteq Tabs /\ TakenFor(m) \subseteq Ids
  BY DEF GivenFor, Pressing, TakenFor
<1>3. IsFiniteSet(GivenFor(S)) /\ IsFiniteSet(Pressing(S)) /\ IsFiniteSet(TakenFor(m))
  BY <1>1, <1>2, FS_Subset
<1> QED BY <1>3, FS_CardinalityType

(* So they are after a step. *)
LEMMA CountsFiniteNext ==
  ASSUME NEW S, NEW m
  PROVE  /\ IsFiniteSet(GivenFor(S)') /\ IsFiniteSet(Pressing(S)') /\ IsFiniteSet(TakenFor(m)')
         /\ Cardinality(GivenFor(S)') \in Nat /\ Cardinality(Pressing(S)') \in Nat
         /\ Cardinality(TakenFor(m)') \in Nat
<1>1. IsFiniteSet(Ids) /\ IsFiniteSet(Tabs)
  BY FS_Interval, ComposerAssumption DEF Ids
<1>2. GivenFor(S)' \subseteq Ids /\ Pressing(S)' \subseteq Tabs /\ TakenFor(m)' \subseteq Ids
  BY DEF GivenFor, Pressing, TakenFor
<1>3. IsFiniteSet(GivenFor(S)') /\ IsFiniteSet(Pressing(S)') /\ IsFiniteSet(TakenFor(m)')
  BY <1>1, <1>2, FS_Subset
<1> QED BY <1>3, FS_CardinalityType

\* Only a press starts a submission; only a record gives it an identity.
PressesOn == \A u \in Tabs : sub'[u].st \in {"reading", "saving"} =>
               sub[u].st \in {"reading", "saving"} /\ sub'[u].text = sub[u].text
LEMMA PressFacts ==
  ASSUME TypeOK, Numbered, Recorded, Drafted, Counted, PromptNext
  PROVE  \/ PressesOn /\ sent' = sent /\ pressed' = pressed
            /\ promptSpent'.presses = promptSpent.presses
         \/ \E t \in Tabs : Saves(t)
         \/ \E t \in Tabs, q \in BOOLEAN : Submit(t, q)
<1> DEFINE Fine == PressesOn /\ pressed' = pressed /\ promptSpent'.presses = promptSpent.presses
<1>0. /\ \A u \in Tabs : sub[u] \in Jobs(SubStates)
      /\ promptSpent \in [{"presses", "faults", "leaves"} -> Nat] /\ Idle.st = "idle"
  BY DEF TypeOK, Idle
<1>f. ASSUME PromptSpends("faults") \/ PromptSpends("leaves") \/ UNCHANGED promptSpent
      PROVE  promptSpent'.presses = promptSpent.presses
  BY <1>0, <1>f DEF PromptSpends
<1>o. ASSUME NEW t \in Tabs, sub' = [sub EXCEPT ![t] = Idle] PROVE PressesOn
  <2>1. \A u \in Tabs : sub'[u] \in {sub[u], Idle}
    BY <1>o DEF TypeOK
  <2> QED BY <1>0, <2>1 DEF PressesOn
<1>s. sub' = sub => PressesOn
  BY DEF PressesOn
<1>1. ASSUME NEW t \in Tabs, NEW m, TypeDraft(t, m) PROVE Fine
  BY <1>1, <1>s DEF TypeDraft
<1>3. ASSUME NEW t \in Tabs, ReadRecords(t) PROVE Fine
  <2>1. CASE sub' = [sub EXCEPT ![t].st = "saving"]
    <3>1. \A u \in Tabs \ {t} : sub'[u] = sub[u]
      BY <2>1 DEF TypeOK
    <3>2. sub'[t].text = sub[t].text
      BY <1>0, <2>1 DEF TypeOK, Jobs
    <3> QED BY <1>3, <1>f, <3>1, <3>2 DEF ReadRecords, user, PressesOn
  <2>2. CASE sub' = [sub EXCEPT ![t] = Idle]
    BY <1>3, <1>f, <1>o, <2>2 DEF ReadRecords, user
  <2> QED BY <1>3, <2>1, <2>2 DEF ReadRecords
<1>4. ASSUME NEW t \in Tabs, SaveRecord(t), ~Saves(t) PROVE Fine
  <2>1. sub' = [sub EXCEPT ![t] = Idle]
    BY <1>4, SavesFacts
  <2> QED BY <1>4, <1>f, <1>o, <2>1 DEF SaveRecord, user
<1>5. ASSUME NEW t \in Tabs, Send(t) PROVE Fine
  <2>1. \A u \in Tabs \ {t} : sub'[u] = sub[u]
    BY <1>5 DEF Send, TypeOK
  <2>2. sub'[t].st = "sent"
    BY <1>0, <1>5 DEF Send, TypeOK, Jobs
  <2> QED BY <1>5, <2>1, <2>2 DEF Send, user, PressesOn
<1>6. ASSUME NEW t \in Tabs, Answered(t) PROVE Fine
  BY <1>6, <1>f, <1>o DEF Answered, user
<1>7. ASSUME NEW t \in Tabs, NEW id \in Ids,
             SeeAccepted(t, id) \/ AskUnprompted(t, id) \/ Check(t, id) \/ Dismiss(t, id)
      PROVE  Fine
  BY <1>7, <1>s DEF SeeAccepted, AskUnprompted, Check, Dismiss, user
<1>8. ASSUME NEW t \in Tabs, NEW id \in Ids, MoveBack(t, id) PROVE Fine
  BY <1>8, <1>f, <1>s DEF MoveBack, RestoreDraft, user
<1>11. ASSUME NEW t \in Tabs, CheckAnswered(t) \/ RetryAnswered(t) PROVE Fine
  BY <1>11, <1>s DEF CheckAnswered, RetryAnswered, user
<1>13. ASSUME NEW t \in Tabs, Stop(t) \/ Stopped(t) \/ Removed(t) PROVE Fine
  BY <1>13, <1>f, <1>s DEF Stop, Stopped, RestoreDraft, Removed, user
<1>16. ASSUME NEW t \in Tabs, Leave(t) PROVE Fine
  BY <1>16, <1>f, <1>o DEF Leave
<1>17. ASSUME NEW t, NEW from, NEW id, Handle(t, from, id) \/ NoAnswer(t, from, id) PROVE Fine
  <2>1. t \in Tabs
    BY <1>17 DEF Handle, NoAnswer, TypeOK
  <2>2. Hears(t, from, id, TRUE) \/ Hears(t, from, id, FALSE)
    BY <1>17 DEF Handle, NoAnswer
  <2>3. PressesOn
    BY <2>1, <2>2, HearsType DEF PressesOn
  <2> QED BY <1>17, <1>f, <2>3 DEF Handle, NoAnswer, user
<1>19. ASSUME RunNext PROVE Fine
  BY <1>19, <1>s DEF RunNext, user
<1>20. \/ Fine \/ \E t \in Tabs : Saves(t)
       \/ \E t \in Tabs, q \in BOOLEAN : Submit(t, q)
  BY <1>1, <1>3, <1>4, <1>5, <1>6, <1>7, <1>8, <1>11, <1>13, <1>16, <1>17, <1>19, SceneFacts
     DEF PromptNext, TabStep
<1> QED BY <1>20, IdentityFacts

\* A step adds at most the press to what is counted.
LEMMA PressCounted ==
  ASSUME TypeOK, NEW S \in SUBSET Messages,
         NEW t \in Tabs, NEW q \in BOOLEAN, Submit(t, q)
  PROVE  /\ box[t] \in Messages
         /\ Cardinality(GivenFor(S)') = Cardinality(GivenFor(S))
         /\ Cardinality(Pressing(S)') = Cardinality(Pressing(S)) + IF box[t] \in S THEN 1 ELSE 0
<1>1. sent' = sent /\ box[t] \in Messages /\ t \notin Pressing(S)
  BY DEF Submit, TypeOK, Pressing
<1>2. \A u \in Tabs \ {t} : sub'[u] = sub[u]
  BY DEF Submit, TypeOK
<1>3. sub'[t].st = "reading" /\ sub'[t].text = box[t]
  BY DEF Submit, TypeOK, Idle
<1>4. Pressing(S)' = IF box[t] \in S THEN Pressing(S) \cup {t} ELSE Pressing(S)
  BY <1>1, <1>2, <1>3 DEF Pressing
<1>5. GivenFor(S)' = GivenFor(S)
  BY <1>1 DEF GivenFor
<1>6. Cardinality(Pressing(S) \cup {t}) = Cardinality(Pressing(S)) + 1
  BY <1>1, CountsFinite, FS_AddElement
<1> QED BY <1>1, <1>4, <1>5, <1>6, CountsFinite

(* No other step presses, or gives an identity without a press. *)
LEMMA OthersCounted ==
  ASSUME TypeOK, NEW S \in SUBSET Messages,
         (PressesOn /\ sent' = sent) \/ \E t \in Tabs : Saves(t)
  PROVE  Cardinality(GivenFor(S)') + Cardinality(Pressing(S)')
           <= Cardinality(GivenFor(S)) + Cardinality(Pressing(S))
<1>0. /\ Cardinality(GivenFor(S)) \in Nat /\ Cardinality(Pressing(S)) \in Nat
      /\ Cardinality(GivenFor(S)') \in Nat /\ Cardinality(Pressing(S)') \in Nat
      /\ IsFiniteSet(GivenFor(S)) /\ IsFiniteSet(Pressing(S))
  BY CountsFinite, CountsFiniteNext
<1>1. CASE PressesOn /\ sent' = sent
  <2>1. GivenFor(S)' = GivenFor(S)
    BY <1>1 DEF GivenFor
  <2>2. Pressing(S)' \subseteq Pressing(S)
    BY <1>1 DEF Pressing, PressesOn
  <2>3. Cardinality(Pressing(S)') <= Cardinality(Pressing(S))
    BY <1>0, <2>2, FS_Subset
  <2> QED BY <1>0, <2>1, <2>3
<1>2. ASSUME NEW t \in Tabs, Saves(t)
      PROVE  Cardinality(GivenFor(S)') + Cardinality(Pressing(S)')
               <= Cardinality(GivenFor(S)) + Cardinality(Pressing(S))
  <2> DEFINE new == NewId
  <2>1. /\ new \in Ids \ Given /\ sent'[new].text = sub[t].text
        /\ \A i \in Ids \ {new} : sent'[i] = sent[i]
        /\ sub[t].st = "saving"
    BY <1>2 DEF Saves
  <2> HIDE DEF new
  <2>2. \A u \in Tabs \ {t} : sub'[u] = sub[u]
    BY <1>2 DEF Saves, TypeOK
  <2>3. sub'[t].st = "saved"
    BY <1>2 DEF Saves, TypeOK, Jobs
  <2>4. Pressing(S)' = Pressing(S) \ {t}
    BY <2>2, <2>3 DEF Pressing
  <2>5. new \notin GivenFor(S)
    BY <2>1, ComposerAssumption DEF Given, GivenFor
  <2>6. CASE sub[t].text \in S
    <3>1. GivenFor(S)' = GivenFor(S) \cup {new} /\ t \in Pressing(S)
      BY <2>1, <2>6 DEF GivenFor, Pressing
    <3>2. Cardinality(GivenFor(S)') = Cardinality(GivenFor(S)) + 1
      BY <1>0, <2>5, <3>1, FS_AddElement
    <3>3. Cardinality(Pressing(S)') = Cardinality(Pressing(S)) - 1
      BY <1>0, <2>4, <3>1, FS_RemoveElement
    <3> QED BY <1>0, <3>2, <3>3
  <2>7. CASE sub[t].text \notin S
    <3>1. GivenFor(S)' = GivenFor(S) /\ Pressing(S)' = Pressing(S)
      BY <2>1, <2>4, <2>5, <2>7 DEF GivenFor, Pressing
    <3> QED BY <1>0, <3>1
  <2> QED BY <2>6, <2>7
<1> QED BY <1>1, <1>2

\* The server takes what it had not.
LEMMA TakenCounted ==
  ASSUME TypeOK, Numbered, Recorded, Drafted, Counted, PromptNext, NEW m \in Messages
  PROVE  taken'[m] <= Cardinality(TakenFor(m)')
<1>0. /\ taken[m] <= Cardinality(TakenFor(m)) /\ taken[m] \in Nat
      /\ IsFiniteSet(TakenFor(m)) /\ IsFiniteSet(TakenFor(m)')
      /\ Cardinality(TakenFor(m)) \in Nat /\ Cardinality(TakenFor(m)') \in Nat
  BY CountsFinite, CountsFiniteNext DEF Counted, TypeOK
<1>1. \A i \in Given : sent'[i] = sent[i]
  BY NumberedKept
<1>2. ASSUME UNCHANGED <<taken, receipt>> PROVE taken'[m] <= Cardinality(TakenFor(m)')
  <2>1. TakenFor(m) \subseteq TakenFor(m)'
    BY <1>1, <1>2 DEF TakenFor, Recorded
  <2>2. Cardinality(TakenFor(m)) <= Cardinality(TakenFor(m)')
    BY <1>0, <2>1, FS_Subset
  <2> QED BY <1>0, <1>2, <2>2
<1>3. ASSUME NEW t, NEW from, NEW id, Handle(t, from, id)
      PROVE  taken'[m] <= Cardinality(TakenFor(m)')
  <2>1. TakenFor(m) \subseteq TakenFor(m)'
    BY <1>1, <1>3, DoFacts DEF TakenFor, Recorded, Claims
  <2>2. Cardinality(TakenFor(m)) <= Cardinality(TakenFor(m)')
    BY <1>0, <2>1, FS_Subset
  <2>3. CASE UNCHANGED taken
    BY <1>0, <2>2, <2>3
  <2>4. CASE Claims(id) /\ Do(id)
    <3>1. id \in Given /\ id \in Ids /\ sent[id].text \in Messages
      BY <1>3, DoFacts, GivenText
    <3> DEFINE n == sent[id].text
    <3>2. n \in Messages /\ taken' = [taken EXCEPT ![n] = taken[n] + 1]
      BY <2>4, <3>1 DEF Do
    <3> HIDE DEF n
    <3>3. CASE m = n
      <4>1. taken'[m] = taken[m] + 1
        BY <3>2, <3>3 DEF TypeOK
      <4>2. id \notin TakenFor(m) /\ id \in TakenFor(m)'
        <5>1. receipt'[id] # "none"
          BY <1>3, <2>4, <3>1 DEF Handle, TypeOK
        <5>2. sent'[id].text = m
          BY <1>1, <3>1, <3>3 DEF n
        <5> QED BY <2>4, <3>1, <5>1, <5>2 DEF TakenFor, Claims
      <4>3. Cardinality(TakenFor(m) \cup {id}) = Cardinality(TakenFor(m)) + 1
        BY <1>0, <4>2, FS_AddElement
      <4>4. Cardinality(TakenFor(m) \cup {id}) <= Cardinality(TakenFor(m)')
        BY <1>0, <2>1, <4>2, FS_Subset
      <4> QED BY <1>0, <4>1, <4>3, <4>4
    <3>4. CASE m # n
      <4>1. taken'[m] = taken[m]
        BY <3>2, <3>4 DEF TypeOK
      <4> QED BY <1>0, <2>2, <4>1
    <3> QED BY <3>3, <3>4
  <2> QED BY <1>3, <2>3, <2>4, DoFacts
<1>4. UNCHANGED <<taken, receipt>> \/ \E t, from, id : Handle(t, from, id)
  <2>1. ASSUME NEW t, TabStep(t) PROVE UNCHANGED <<taken, receipt>>
    <3>1. ASSUME NEW n, TypeDraft(t, n) PROVE UNCHANGED <<taken, receipt>>
      BY <3>1 DEF TypeDraft, server
    <3>2. ASSUME NEW q, Submit(t, q) PROVE UNCHANGED <<taken, receipt>>
      BY <3>2 DEF Submit, server
    <3>3. CASE ReadRecords(t) \/ SaveRecord(t) \/ Send(t) \/ Answered(t)
      BY <3>3 DEF ReadRecords, SaveRecord, Send, Answered, server
    <3>4. ASSUME NEW id, SeeAccepted(t, id) \/ AskUnprompted(t, id) \/ Check(t, id)
                         \/ Dismiss(t, id) \/ MoveBack(t, id)
          PROVE  UNCHANGED <<taken, receipt>>
      BY <3>4 DEF SeeAccepted, AskUnprompted, Check, Dismiss, MoveBack, server
    <3>5. CASE CheckAnswered(t) \/ RetryAnswered(t) \/ Stop(t) \/ Stopped(t) \/ Removed(t) \/ Leave(t)
      BY <3>5 DEF CheckAnswered, RetryAnswered, Stop, Stopped, Removed, Leave, server
    <3> QED BY <2>1, <3>1, <3>2, <3>3, <3>4, <3>5 DEF TabStep
  <2>2. ASSUME NEW t, NEW from, NEW id, NoAnswer(t, from, id) PROVE UNCHANGED <<taken, receipt>>
    BY <2>2 DEF NoAnswer
  <2> QED BY <2>1, <2>2 DEF PromptNext, RunNext
<1> QED BY <1>2, <1>3, <1>4

(* The counts stay in order. *)
LEMMA CountedKept ==
  ASSUME TypeOK, Numbered, Recorded, Drafted, Counted, PromptNext
  PROVE  Counted'
<1>0. /\ promptSpent.presses \in Nat /\ scene.presses \in Nat /\ scene' = scene
      /\ \A m \in Messages : pressed[m] \in Nat
      /\ promptSpent \in [{"presses", "faults", "leaves"} -> Nat]
  BY SceneFacts DEF TypeOK, PromptNext
<1>1. ASSUME NEW t \in Tabs, NEW q \in BOOLEAN, Submit(t, q)
      PROVE  /\ Cardinality(GivenFor(Messages)') + Cardinality(Pressing(Messages)')
                  <= promptSpent'.presses
             /\ promptSpent'.presses <= scene'.presses
             /\ \A m \in Messages :
                  Cardinality(GivenFor({m})') + Cardinality(Pressing({m})') <= pressed'[m]
  <2>1. promptSpent'.presses = promptSpent.presses + 1 /\ promptSpent.presses < scene.presses
    BY <1>0, <1>1 DEF Submit, PromptSpends
  <2>2. Cardinality(GivenFor(Messages)') + Cardinality(Pressing(Messages)')
          <= promptSpent'.presses
    <3>1. /\ Cardinality(GivenFor(Messages)') = Cardinality(GivenFor(Messages))
          /\ Cardinality(Pressing(Messages)') = Cardinality(Pressing(Messages)) + 1
      BY <1>1, PressCounted
    <3>2. Cardinality(GivenFor(Messages)) + Cardinality(Pressing(Messages)) <= promptSpent.presses
      BY DEF Counted
    <3>3. /\ Cardinality(GivenFor(Messages)) \in Nat
          /\ Cardinality(Pressing(Messages)) \in Nat
      BY CountsFinite
    <3> QED BY <1>0, <2>1, <3>1, <3>2, <3>3
  <2>3. ASSUME NEW m \in Messages
        PROVE  Cardinality(GivenFor({m})') + Cardinality(Pressing({m})') <= pressed'[m]
    <3>1. /\ Cardinality(GivenFor({m})') = Cardinality(GivenFor({m})) /\ box[t] \in Messages
          /\ Cardinality(Pressing({m})') = Cardinality(Pressing({m})) + IF box[t] = m THEN 1 ELSE 0
      BY <1>1, PressCounted
    <3>2. pressed'[m] = pressed[m] + IF box[t] = m THEN 1 ELSE 0
      BY <1>0, <1>1, <3>1 DEF Submit, TypeOK
    <3>3. Cardinality(GivenFor({m})) + Cardinality(Pressing({m})) <= pressed[m]
      BY DEF Counted
    <3>4. Cardinality(GivenFor({m})) \in Nat /\ Cardinality(Pressing({m})) \in Nat
      BY CountsFinite
    <3> QED BY <1>0, <3>1, <3>2, <3>3, <3>4
  <2> QED BY <1>0, <2>1, <2>2, <2>3
<1>2. ASSUME \/ PressesOn /\ sent' = sent /\ pressed' = pressed
                /\ promptSpent'.presses = promptSpent.presses
             \/ \E t \in Tabs : Saves(t)
      PROVE  /\ Cardinality(GivenFor(Messages)') + Cardinality(Pressing(Messages)')
                  <= promptSpent'.presses
             /\ promptSpent'.presses <= scene'.presses
             /\ \A m \in Messages :
                  Cardinality(GivenFor({m})') + Cardinality(Pressing({m})') <= pressed'[m]
  <2>1. pressed' = pressed /\ promptSpent'.presses = promptSpent.presses
    BY <1>2 DEF Saves, user
  <2>2. \A S \in SUBSET Messages :
          Cardinality(GivenFor(S)') + Cardinality(Pressing(S)')
            <= Cardinality(GivenFor(S)) + Cardinality(Pressing(S))
    BY <1>2, OthersCounted
  <2>3. \A S \in SUBSET Messages :
          /\ Cardinality(GivenFor(S)) \in Nat /\ Cardinality(Pressing(S)) \in Nat
          /\ Cardinality(GivenFor(S)') \in Nat /\ Cardinality(Pressing(S)') \in Nat
    BY CountsFinite, CountsFiniteNext
  <2>4. Cardinality(GivenFor(Messages)') + Cardinality(Pressing(Messages)') <= promptSpent.presses
    <3>1. Cardinality(GivenFor(Messages)) + Cardinality(Pressing(Messages)) <= promptSpent.presses
      BY DEF Counted
    <3> QED BY <1>0, <2>2, <2>3, <3>1
  <2>5. ASSUME NEW m \in Messages
        PROVE  Cardinality(GivenFor({m})') + Cardinality(Pressing({m})') <= pressed[m]
    <3>1. Cardinality(GivenFor({m})) + Cardinality(Pressing({m})) <= pressed[m]
      BY DEF Counted
    <3>2. {m} \in SUBSET Messages
      OBVIOUS
    <3> QED BY <1>0, <2>2, <2>3, <3>1, <3>2
  <2>6. promptSpent.presses <= scene.presses
    BY DEF Counted
  <2> QED BY <1>0, <2>1, <2>4, <2>5, <2>6
<1>3. \A m \in Messages : taken'[m] <= Cardinality(TakenFor(m)')
  BY TakenCounted
<1> QED BY <1>1, <1>2, <1>3, PressFacts DEF Counted

-----------------------------------------------------------------------------
(* The invariant, and what follows from it. *)

\* At first no text is anywhere, and nothing is counted.
LEMMA InitInvariant == PromptInit => IInv
<1> SUFFICES ASSUME PromptInit PROVE IInv
  OBVIOUS
<1>0. /\ Given = {} /\ \A S \in SUBSET Messages : GivenFor(S) = {} /\ Pressing(S) = {}
      /\ Elements(queued) = {} /\ Idle.st = "idle" /\ ~Idle.ok
  BY ComposerAssumption, NoElements DEF PromptInit, Given, GivenFor, Pressing, Idle
<1>1. TypeOK
  <2>1. Idle \in Jobs(SubStates) /\ Idle \in Jobs(CheckStates) /\ Idle \in Jobs(BackStates)
    BY JobType DEF SubStates, CheckStates, BackStates
  <2> QED BY <2>1 DEF PromptInit, TypeOK, Receipts
<1>2. Numbered
  <2>1. Given = 1 .. 0
    BY <1>0
  <2> QED BY <2>1 DEF Numbered
<1>3. Recorded /\ Drafted /\ Confirmed /\ TakingBack
  BY <1>0 DEF PromptInit, Recorded, Drafted, Confirmed, TakingBack, Committed, Idle
<1>4. Kept
  BY DEF PromptInit, Kept
<1>5. Counted
  <2>1. scene.presses \in Nat /\ promptSpent.presses = 0
        /\ \A m \in Messages : pressed[m] = 0 /\ taken[m] = 0
    BY SceneFacts, <1>1 DEF PromptInit
  <2>2. Cardinality({}) = 0
    BY FS_EmptySet
  <2>3. \A m \in Messages : Cardinality(TakenFor(m)) \in Nat
    BY CountsFinite
  <2>4. \A S \in SUBSET Messages : Cardinality(GivenFor(S)) = 0 /\ Cardinality(Pressing(S)) = 0
    BY <1>0, <2>2
  <2>5. /\ Cardinality(GivenFor(Messages)) = 0 /\ Cardinality(Pressing(Messages)) = 0
        /\ \A m \in Messages : Cardinality(GivenFor({m})) = 0 /\ Cardinality(Pressing({m})) = 0
    BY <2>4
  <2> QED BY <2>1, <2>3, <2>5 DEF Counted
<1> QED BY <1>1, <1>2, <1>3, <1>4, <1>5 DEF IInv

(* No step breaks the invariant. *)
LEMMA NextInvariant == IInv /\ [PromptNext]_promptVars => IInv'
<1>1. ASSUME IInv, PromptNext PROVE IInv'
  BY <1>1, TypesKept, NumberedKept, RecordedKept, DraftedKept, ConfirmedKept, TakingBackKept,
     KeptKept, CountedKept DEF IInv
<1>2. ASSUME IInv, UNCHANGED promptVars PROVE IInv'
  <2> USE <1>2 DEF IInv, promptVars
  <2>1. TypeOK' /\ Numbered'
    BY DEF TypeOK, Numbered, Given
  <2>2. Recorded' /\ Drafted'
    BY DEF Recorded, Given, Drafted
  <2>3. Confirmed' /\ TakingBack'
    BY DEF Confirmed, TakingBack
  <2>4. Kept'
    BY DEF Kept, InPrompt, Safe, Removable
  <2>5. Counted'
    BY DEF Counted, GivenFor, Pressing, TakenFor
  <2> QED BY <2>1, <2>2, <2>3, <2>4, <2>5
<1> QED BY <1>1, <1>2

(* So it holds always. *)
LEMMA Invariant == PromptSpec => []IInv
BY InitInvariant, NextInvariant, PTL DEF PromptSpec

\* A text that was typed is in a prompt, a record, the queue or a run, unless
\* the user gave it up: for any tabs, messages, presses, faults and leaves.
THEOREM TextsKept == PromptSpec => []TextIsSomewhere
<1>1. IInv => TextIsSomewhere
  BY DEF IInv, Kept, InPrompt, Safe, TextIsSomewhere
<1> QED BY Invariant, <1>1, PTL

\* The server takes a message at most once for each press of the user, however
\* often the request is repeated.
THEOREM NothingTakenTwice == PromptSpec => []TakenOncePerPress
<1>1. ASSUME IInv, NEW m \in Messages PROVE taken[m] <= pressed[m]
  <2>1. TakenFor(m) \subseteq GivenFor({m})
    BY DEF TakenFor, GivenFor
  <2>2. Cardinality(TakenFor(m)) <= Cardinality(GivenFor({m}))
    BY <2>1, CountsFinite, FS_Subset
  <2>3. /\ taken[m] <= Cardinality(TakenFor(m))
        /\ Cardinality(GivenFor({m})) + Cardinality(Pressing({m})) <= pressed[m]
    BY <1>1 DEF IInv, Counted
  <2>4. /\ Cardinality(TakenFor(m)) \in Nat /\ Cardinality(GivenFor({m})) \in Nat
        /\ Cardinality(Pressing({m})) \in Nat /\ taken[m] \in Nat /\ pressed[m] \in Nat
    BY <1>1, CountsFinite DEF IInv, TypeOK
  <2> QED BY <2>2, <2>3, <2>4
<1>2. IInv => TakenOncePerPress
  BY <1>1 DEF TakenOncePerPress
<1> QED BY Invariant, <1>2, PTL
=============================================================================
