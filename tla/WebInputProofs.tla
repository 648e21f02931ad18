--------------------------- MODULE WebInputProofs ----------------------------
(* What is proved of what the user does with a session (MCWebInput), apart from
   the prompt (ComposerProofs): the editor of a file, the cards of questions and
   permissions, the list of what waits in the queue, the panel of the schedules
   and that of the skills. *)
EXTENDS FileEditor, RequestCards, QueuedMessages, SessionSchedules, RepositorySkills,
        FiniteSetTheorems, WellFoundedInduction, TLAPS

-----------------------------------------------------------------------------
(* A save never overwrites a text its user has not seen, and what the user typed
   last is not lost: for any texts, any number of edits, saves, reloads and lost
   answers, and saves of one view or of several that are answered in any order.

   What the server compares is the text a save expects, which is the base of
   the view's draft.  So every base has to be a text that was shown (Based):
   the view's, that of the stored draft, from which the next view takes its own,
   and the one of each save.  That what the conflict panel shows and what was
   saved are seen (Reviewed) gives the two places where a base is replaced.  One
   place gives up: a draft typed back to its base leaves no stored draft, and
   the next one starts from the content the view was opened with, which a
   stored draft may have hidden ("rebased").

   The storage holds what was typed last, and an open view shows it (Stored).
   The answer of a save replaces the stored draft with what remains of its view:
   that is the newest as long as that view is open, of which there is only one
   (Following), and if it is not, the step says so ("crossed").  It leaves none
   when what remains is what was saved: that is saved indeed, unless a later save
   was done since ("overtaken"). *)

(* The agent's texts are not what the user types, and NoAgent is no text. *)
Distinct == Agents \cap (Typed \cup {Original}) = {} /\ NoAgent \notin Texts

Values == Texts \cup {NoAgent}
Drafts == [base : Values, draft : Values]
Views == [open : BOOLEAN, file : Values, draft : Values, base : Values, conflict : Values,
          saving : BOOLEAN]
Openings == [st : {"idle", "asked", "answered"}, content : Values]
SaveStages == {"asked", "orphan", "saved", "changed", "failed", "latest", "read"}
Saves == [nr : Nat, st : SaveStages, content : Values, expected : Values, mounted : BOOLEAN,
          draft : Values, turn : Nat]

EditorTypeOK ==
  /\ disk \in Texts
  /\ stored \in Drafts
  /\ view \in Views
  /\ opening \in Openings
  /\ saves \in SUBSET Saves
  /\ order \in [sent : Nat, done : Nat]

(* What is under way or open has a text. *)
Filled ==
  /\ stored # NoDraft => stored.draft \in Texts
  /\ view.open => view.draft \in Texts
  /\ opening.st = "answered" => opening.content \in Texts
  /\ \A s \in saves : s.content \in Texts

(* What remains of a save's view is its draft. *)
Following ==
  \A s \in saves : /\ s.mounted => view.open
                   /\ ~s.mounted /\ s.st # "orphan" => s.draft \in Texts

Based ==
  /\ stored # NoDraft => stored.base \in seen
  /\ view.open => view.base \in seen
  /\ \A s \in saves : s.st \in {"asked", "orphan"} => s.expected \in seen

Reviewed ==
  /\ view.conflict # NoAgent => view.conflict \in seen
  /\ \A s \in saves : s.st = "saved" => s.content \in seen

EditorIInv ==
  /\ EditorTypeOK /\ Filled /\ Following /\ Reviewed
  /\ "rebased" \notin excused => Based

-----------------------------------------------------------------------------
LEMMA EditorInitInvariant == ASSUME Distinct PROVE EditorInit => EditorIInv
BY DEF EditorInit, EditorIInv, EditorTypeOK, Filled, Following, Based, Reviewed, Values, Texts, NoDraft,
       NoView, Distinct, Drafts, Views, Openings

(* A draft starts from the base it was given, if it is one. *)
LEMMA Drafted ==
  ASSUME NEW base \in Values, NEW draft \in Texts
  PROVE  /\ Draft(base, draft) \in Drafts
         /\ Draft(base, draft) # NoDraft =>
              Draft(base, draft).base = base /\ Draft(base, draft).draft = draft
BY DEF Draft, NoDraft, Values, Drafts

(* A view that is opened shows its draft, and its base if there is none. *)
LEMMA OpenedView ==
  ASSUME Distinct, NEW opened \in Values, NEW draft \in Drafts,
         draft # NoDraft => draft.draft \in Texts,
         draft = NoDraft => opened \in Texts
  PROVE  LET v == Showing(opened, draft)
         IN  /\ v \in Views
             /\ v.open /\ v.draft \in Texts /\ v.conflict = NoAgent
             /\ draft # NoDraft => v.base = draft.base
             /\ draft = NoDraft => v.base \in Shown(v)
<1>1. CASE draft = NoDraft
  BY <1>1 DEF Showing, Shown, Values, Distinct, Views
<1>2. CASE draft # NoDraft
  BY <1>2 DEF Showing, Shown, Values, Drafts, Views
<1> QED BY <1>1, <1>2

(* What a step does to the view, while the saves, the storage and the file rest. *)
LEMMA ViewChanges ==
  ASSUME EditorIInv, view' \in Views,
         view'.open => view'.draft \in Texts,
         view.open => view'.open,
         "rebased" \notin excused /\ Based /\ view'.open => view'.base \in seen',
         view'.conflict # NoAgent => view'.conflict \in seen',
         opening' \in Openings, opening'.st = "answered" => opening'.content \in Texts,
         seen \subseteq seen', UNCHANGED <<disk, stored, saves, order, excused>>
  PROVE  EditorIInv'
<1>1. EditorTypeOK' /\ Filled' /\ Following'
  BY DEF EditorIInv, EditorTypeOK, Filled, Following
<1>2. Reviewed' /\ ("rebased" \notin excused' => Based')
  BY DEF EditorIInv, Reviewed, Based
<1> QED BY <1>1, <1>2 DEF EditorIInv

(* A save that goes on as r, of which no more is known, or that is over; what
   the view shows of it is seen. *)
LEMMA SaveGoesOn ==
  ASSUME EditorIInv, NEW s \in saves,
         \A r \in saves' : r \in saves \/
           /\ r \in Saves /\ r.content \in Texts /\ r.mounted = s.mounted /\ r.draft = s.draft
           /\ r.st \notin {"asked", "orphan"} /\ s.st # "orphan"
           /\ r.st = "saved" => r.content \in seen',
         view' \in Views,
         view'.open = view.open, view'.draft = view.draft, view'.base = view.base,
         view'.conflict # NoAgent => view'.conflict \in seen',
         disk' \in Texts, order' \in [sent : Nat, done : Nat],
         seen \subseteq seen', UNCHANGED <<stored, opening, excused>>
  PROVE  EditorIInv'
<1>1. EditorTypeOK' /\ Filled' /\ Following'
  BY DEF EditorIInv, EditorTypeOK, Filled, Following
<1>2. Reviewed'
  BY DEF EditorIInv, Reviewed
<1>3. "rebased" \notin excused' => Based'
  BY DEF EditorIInv, Based
<1> QED BY <1>1, <1>2, <1>3 DEF EditorIInv

-----------------------------------------------------------------------------
LEMMA OpenedStep == ASSUME Distinct, EditorIInv, Opened PROVE EditorIInv'
<1> DEFINE v == Showing(opening.content, stored)
<1>1. /\ opening.content \in Texts /\ opening.content \in Values
      /\ stored \in Drafts
      /\ stored # NoDraft => stored.draft \in Texts
  BY DEF Opened, EditorIInv, EditorTypeOK, Filled, Values
<1>2. /\ v \in Views
      /\ v.open /\ v.draft \in Texts /\ v.conflict = NoAgent
      /\ stored # NoDraft => v.base = stored.base
      /\ stored = NoDraft => v.base \in Shown(v)
  BY <1>1, OpenedView
<1>3. /\ view' = v /\ seen' = seen \cup Shown(v)
      /\ opening' = [st |-> "idle", content |-> NoAgent]
      /\ UNCHANGED <<disk, stored, saves, order, excused>>
  BY DEF Opened
<1> HIDE DEF v
<1>4. opening' \in Openings /\ opening'.st = "idle"
  BY <1>3 DEF Openings, Values
<1>5. Based => v.base \in seen'
  BY <1>2, <1>3 DEF Based
<1> QED BY <1>2, <1>3, <1>4, <1>5, ViewChanges

LEMMA OpenFailsStep == ASSUME Distinct, EditorIInv, OpenFails PROVE EditorIInv'
<1>1. /\ opening' \in Openings
      /\ opening'.st = "idle" /\ UNCHANGED <<disk, stored, saves, order, excused>>
  BY DEF OpenFails, EditorIInv, EditorTypeOK, Openings
<1>2. CASE stored = NoDraft
  <2>1. view' = view /\ seen' = seen
    BY <1>2 DEF OpenFails
  <2> QED BY <1>1, <2>1, ViewChanges DEF EditorIInv, EditorTypeOK, Filled, Based, Reviewed
<1>3. CASE stored # NoDraft
  <2> DEFINE v == Showing(stored.base, stored)
  <2>1. /\ stored.base \in Values /\ stored \in Drafts
        /\ stored.draft \in Texts
    BY <1>3 DEF EditorIInv, EditorTypeOK, Filled, Drafts
  <2>2. /\ v \in Views
        /\ v.open /\ v.draft \in Texts /\ v.conflict = NoAgent /\ v.base = stored.base
    BY <1>3, <2>1, OpenedView
  <2>3. view' = v /\ seen' = seen \cup Shown(v)
    BY <1>3 DEF OpenFails
  <2> HIDE DEF v
  <2> QED BY <1>1, <1>3, <2>2, <2>3, ViewChanges DEF Based
<1> QED BY <1>2, <1>3

(* The next draft starts where the stored one did, or from what the view was opened
   with: that is its base, unless the step says so. *)
LEMMA EditorTypeStep ==
  ASSUME Distinct, EditorIInv, NEW text \in {Original} \cup Typed, Type(text) PROVE EditorIInv'
<1> DEFINE base == IF stored = NoDraft THEN view.file ELSE stored.base
<1>1. text \in Texts /\ text \in Values /\ base \in Values
  BY DEF Texts, Values, EditorIInv, EditorTypeOK, Drafts, Views
<1>2. /\ view.open /\ view' = [[view EXCEPT !.draft = text] EXCEPT !.saving = FALSE]
      /\ seen \subseteq seen' /\ UNCHANGED <<disk, opening, saves, order>>
      /\ \/ /\ stored' = Draft(base, text)
            /\ excused' = IF base # view.base THEN excused \cup {"rebased"} ELSE excused
         \/ stored' = stored /\ excused' = excused \cup {"unstored"}
  BY DEF Type
<1> HIDE DEF base
<1>3. /\ Draft(base, text) \in Drafts
      /\ Draft(base, text) # NoDraft =>
           Draft(base, text).base = base /\ Draft(base, text).draft = text
  BY <1>1, Drafted
<1>4. /\ view' \in Views /\ view'.open
      /\ view'.draft = text /\ view'.base = view.base /\ view'.conflict = view.conflict
  BY <1>1, <1>2 DEF EditorIInv, EditorTypeOK, Views
<1>5. EditorTypeOK' /\ Filled' /\ Following'
  BY <1>1, <1>2, <1>3, <1>4 DEF EditorIInv, EditorTypeOK, Filled, Following
<1>6. Reviewed'
  BY <1>2, <1>4 DEF EditorIInv, Reviewed
<1>7. ASSUME "rebased" \notin excused' PROVE Based'
  <2>1. Based /\ (stored' = stored \/ (stored' = Draft(base, text) /\ base = view.base))
    BY <1>2, <1>7 DEF EditorIInv
  <2> QED BY <1>2, <1>3, <1>4, <2>1 DEF Based
<1> QED BY <1>5, <1>6, <1>7 DEF EditorIInv

LEMMA SaveStep == ASSUME EditorIInv, Save PROVE EditorIInv'
<1> DEFINE r == [nr |-> order.sent + 1, st |-> "asked", content |-> view.draft, expected |-> view.base,
                 mounted |-> TRUE, draft |-> NoAgent, turn |-> 0]
<1>1. /\ view.open /\ view' = [view EXCEPT !.saving = TRUE]
      /\ order' = [order EXCEPT !.sent = @ + 1]
      /\ UNCHANGED <<disk, stored, opening, seen, excused>>
  BY DEF Save, Sends
<1>2. order' \in [sent : Nat, done : Nat] /\ order'.sent = order.sent + 1 /\ order.sent + 1 \in Nat
  BY <1>1 DEF EditorIInv, EditorTypeOK
<1>3. saves' = saves \cup {r}
  BY <1>2 DEF Save, Sends
<1>4. /\ view' \in Views
      /\ view'.draft = view.draft /\ view'.base = view.base /\ view'.conflict = view.conflict
      /\ view'.open = view.open
  BY <1>1 DEF EditorIInv, EditorTypeOK, Views
<1>5. view.draft \in Values /\ view.base \in Values /\ view.draft \in Texts
  BY <1>1 DEF EditorIInv, EditorTypeOK, Filled, Views
<1>6. r \in Saves
  BY <1>2, <1>5 DEF Saves, SaveStages, Values
<1>7. r.st = "asked" /\ r.content = view.draft /\ r.expected = view.base /\ r.mounted
  OBVIOUS
<1> HIDE DEF r
<1>8. EditorTypeOK' /\ Filled' /\ Following'
  BY <1>1, <1>2, <1>3, <1>4, <1>5, <1>6, <1>7 DEF EditorIInv, EditorTypeOK, Filled, Following
<1>9. Reviewed' /\ ("rebased" \notin excused' => Based')
  BY <1>1, <1>3, <1>4, <1>7 DEF EditorIInv, Reviewed, Based
<1> QED BY <1>8, <1>9 DEF EditorIInv

LEMMA ServeSaveStep == ASSUME EditorIInv, NEW s \in saves, ServeSave(s) PROVE EditorIInv'
<1>1. s \in Saves /\ s.content \in Texts /\ view \in Views
      /\ (view.conflict # NoAgent => view.conflict \in seen)
  BY DEF EditorIInv, EditorTypeOK, Filled, Reviewed
<1>2. /\ disk' \in {disk, s.content} /\ seen \subseteq seen' /\ order' \in [sent : Nat, done : Nat]
      /\ UNCHANGED <<stored, view, opening, excused>>
  BY DEF ServeSave, EditorIInv, EditorTypeOK
<1>3. disk' \in Texts
  BY <1>1, <1>2 DEF EditorIInv, EditorTypeOK
<1>4. CASE saves' = saves \ {s}
  <2>1. \A r \in saves' : r \in saves
    BY <1>4
  <2> QED BY <1>1, <1>2, <1>3, <2>1, SaveGoesOn
<1>5. CASE saves' # saves \ {s}
  <2>1. PICK r : /\ saves' = (saves \ {s}) \cup {r}
                 /\ \/ r = [s EXCEPT !.st = "saved", !.turn = order'.done] /\ s.content \in seen'
                    \/ r = [s EXCEPT !.st = "changed"]
    BY <1>5 DEF ServeSave, Becoming, Ends
  <2>2. s.st # "orphan"
    BY <1>5 DEF ServeSave, Ends
  <2>3. order'.done \in Nat
    BY <1>2
  <2>4. /\ r \in Saves /\ r.content = s.content /\ r.mounted = s.mounted /\ r.draft = s.draft
        /\ r.st \in {"saved", "changed"} /\ (r.st = "saved" => s.content \in seen')
    BY <1>1, <2>1, <2>3 DEF Saves, SaveStages
  <2> QED BY <1>1, <1>2, <1>3, <2>1, <2>2, <2>4, SaveGoesOn
<1> QED BY <1>4, <1>5

(* What remains of the view that sent a save. *)
LEMMA RemainingText ==
  ASSUME EditorIInv, NEW s \in saves, s.st # "orphan"
  PROVE  Remaining(s) \in Texts
BY DEF Remaining, EditorIInv, Filled, Following

(* What was saved is the base of what was typed meanwhile. *)
LEMMA SavedStep == ASSUME Distinct, EditorIInv, NEW s \in saves, Saved(s) PROVE EditorIInv'
<1>1. PICK d : d \in {Draft(s.content, Remaining(s)), stored} /\ SaveAnswers(s, d)
               /\ (d = stored => Remaining(s) # s.content \/ d = Draft(s.content, Remaining(s)))
  BY DEF Saved
<1> DEFINE v == Showing(s.content, d)
<1>2. /\ s \in Saves /\ s.content \in Texts /\ s.content \in Values /\ s.st = "saved"
      /\ s.content \in seen /\ Remaining(s) \in Texts
  BY <1>1, RemainingText DEF SaveAnswers, EditorIInv, EditorTypeOK, Filled, Reviewed, Values
<1>3. /\ d \in Drafts
      /\ d # NoDraft => d.draft \in Texts /\ (d.base = s.content \/ d = stored)
  BY <1>1, <1>2, Drafted DEF EditorIInv, EditorTypeOK, Filled
<1>4. /\ v \in Views
      /\ v.open /\ v.draft \in Texts /\ v.conflict = NoAgent
      /\ d # NoDraft => v.base = d.base
      /\ d = NoDraft => v.base \in Shown(v)
  BY <1>2, <1>3, OpenedView
<1>5. /\ stored' = d /\ view' = IF s.mounted THEN v ELSE view
      /\ seen' = IF s.mounted THEN seen \cup Shown(v) ELSE seen
      /\ saves' = saves \ {s} /\ excused \subseteq excused' /\ UNCHANGED <<disk, opening, order>>
  BY <1>1 DEF SaveAnswers, Ends
<1>6. seen \subseteq seen' /\ (s.mounted => view.open)
  BY <1>5 DEF EditorIInv, Following
<1> HIDE DEF v
<1>7. EditorTypeOK' /\ Filled' /\ Following'
  BY <1>3, <1>4, <1>5, <1>6 DEF EditorIInv, EditorTypeOK, Filled, Following
<1>8. Reviewed'
  BY <1>4, <1>5, <1>6 DEF EditorIInv, Reviewed
<1>9. ASSUME "rebased" \notin excused' PROVE Based'
  <2>1. Based
    BY <1>5, <1>9 DEF EditorIInv
  <2>2. d # NoDraft => d.base \in seen
    BY <1>2, <1>3, <2>1 DEF Based
  <2> QED BY <1>4, <1>5, <1>6, <2>1, <2>2 DEF Based
<1> QED BY <1>7, <1>8, <1>9 DEF EditorIInv

LEMMA SaveIsLostStep == ASSUME EditorIInv, NEW s \in saves, SaveIsLost(s) PROVE EditorIInv'
<1> DEFINE r == [s EXCEPT !.st = "failed"]
<1>1. /\ saves' = (saves \ {s}) \cup {r} /\ s.st # "orphan"
      /\ UNCHANGED <<disk, stored, view, opening, order, seen, excused>>
  BY DEF SaveIsLost, Becoming
<1>2. s \in Saves /\ s.content \in Texts
  BY DEF EditorIInv, EditorTypeOK, Filled
<1>3. /\ r \in Saves /\ r.st = "failed" /\ r.content = s.content /\ r.mounted = s.mounted
      /\ r.draft = s.draft
  BY <1>2 DEF Saves, SaveStages
<1> HIDE DEF r
<1> QED BY <1>1, <1>2, <1>3, SaveGoesOn DEF EditorIInv, EditorTypeOK, Reviewed

LEMMA SaveRefusedStep == ASSUME EditorIInv, NEW s \in saves, SaveRefused(s) PROVE EditorIInv'
<1>1. /\ view' \in Views
      /\ view'.open = view.open /\ view'.draft = view.draft /\ view'.base = view.base
      /\ view'.conflict = view.conflict
  BY DEF SaveRefused, EditorIInv, EditorTypeOK, Views
<1>2. UNCHANGED <<disk, stored, opening, order, seen, excused>> /\ s.st # "orphan"
  BY DEF SaveRefused
<1>3. /\ s \in Saves /\ s.content \in Texts /\ disk \in Texts /\ order \in [sent : Nat, done : Nat]
      /\ (view.conflict # NoAgent => view.conflict \in seen)
  BY DEF EditorIInv, EditorTypeOK, Filled, Reviewed
<1>4. CASE s.mounted /\ s.st = "changed"
  <2> DEFINE r == [s EXCEPT !.st = "latest"]
  <2>1. saves' = (saves \ {s}) \cup {r}
    BY <1>4 DEF SaveRefused, Becoming
  <2>2. /\ r \in Saves /\ r.st = "latest" /\ r.content = s.content /\ r.mounted = s.mounted
        /\ r.draft = s.draft
    BY <1>3 DEF Saves, SaveStages
  <2> HIDE DEF r
  <2> QED BY <1>1, <1>2, <1>3, <2>1, <2>2, SaveGoesOn
<1>5. CASE ~(s.mounted /\ s.st = "changed")
  <2>1. \A r \in saves' : r \in saves
    BY <1>5 DEF SaveRefused, Ends
  <2> QED BY <1>1, <1>2, <1>3, <2>1, SaveGoesOn
<1> QED BY <1>4, <1>5

LEMMA ServeLatestStep == ASSUME EditorIInv, NEW s \in saves, ServeLatest(s) PROVE EditorIInv'
<1>1. /\ s \in Saves /\ view \in Views /\ disk \in Texts /\ order \in [sent : Nat, done : Nat]
      /\ (view.conflict # NoAgent => view.conflict \in seen)
  BY DEF EditorIInv, EditorTypeOK, Reviewed
<1>2. UNCHANGED <<disk, stored, view, opening, order, seen, excused>> /\ s.st # "orphan"
  BY DEF ServeLatest
<1>3. CASE Becoming(s, [s EXCEPT !.st = "read", !.content = disk])
  <2> DEFINE r == [s EXCEPT !.st = "read", !.content = disk]
  <2>1. saves' = (saves \ {s}) \cup {r}
    BY <1>3 DEF Becoming
  <2>2. /\ r \in Saves /\ r.st = "read" /\ r.content = disk /\ r.mounted = s.mounted
        /\ r.draft = s.draft
    BY <1>1 DEF Saves, SaveStages, Values
  <2> HIDE DEF r
  <2> QED BY <1>1, <1>2, <2>1, <2>2, SaveGoesOn
<1>4. CASE Ends(s)
  <2>1. \A r \in saves' : r \in saves
    BY <1>4 DEF Ends
  <2> QED BY <1>1, <1>2, <2>1, SaveGoesOn
<1> QED BY <1>3, <1>4 DEF ServeLatest

(* The panel shows what it will become the base. *)
LEMMA ShowLatestStep == ASSUME Distinct, EditorIInv, NEW s \in saves, ShowLatest(s) PROVE EditorIInv'
<1>1. /\ (\A r \in saves' : r \in saves) /\ seen \subseteq seen'
      /\ UNCHANGED <<disk, stored, opening, order, excused>>
  BY DEF ShowLatest, Ends
<1>2. s.content \in Texts /\ disk \in Texts /\ order \in [sent : Nat, done : Nat]
  BY DEF EditorIInv, EditorTypeOK, Filled
<1>3. /\ view' \in Views
      /\ view'.open = view.open /\ view'.draft = view.draft /\ view'.base = view.base
      /\ view'.conflict # NoAgent => view'.conflict \in seen'
  <2>1. CASE s.mounted
    <3>1. view' = [view EXCEPT !.conflict = s.content] /\ seen' = seen \cup Shown(view')
      BY <2>1 DEF ShowLatest
    <3> QED BY <1>2, <3>1 DEF EditorIInv, EditorTypeOK, Shown, Values, Views
  <2>2. CASE ~s.mounted
    BY <2>2 DEF ShowLatest, EditorIInv, EditorTypeOK, Reviewed
  <2> QED BY <2>1, <2>2
<1> QED BY <1>1, <1>2, <1>3, SaveGoesOn

LEMMA CloseStep == ASSUME EditorIInv, Close PROVE EditorIInv'
<1>1. /\ view.open /\ view' = NoView /\ view.draft \in Texts /\ view.draft \in Values
      /\ saves' = {IF s.mounted THEN [s EXCEPT !.mounted = FALSE, !.draft = view.draft] ELSE s :
                   s \in saves}
      /\ UNCHANGED <<disk, stored, opening, order, seen, excused>>
  BY DEF Close, EditorIInv, Filled, Values
<1>2. view' \in Views /\ view'.open = FALSE /\ view'.conflict = NoAgent
  BY <1>1 DEF NoView, Values, Views
<1>3. ASSUME NEW r \in saves'
      PROVE  /\ r \in Saves /\ ~r.mounted
             /\ \E s \in saves : /\ r.st = s.st /\ r.content = s.content /\ r.expected = s.expected
                                 /\ (r.draft = view.draft \/ (r.draft = s.draft /\ ~s.mounted))
  <2>1. PICK s \in saves : r = IF s.mounted THEN [s EXCEPT !.mounted = FALSE, !.draft = view.draft]
                               ELSE s
    BY <1>1
  <2>2. s \in Saves
    BY DEF EditorIInv, EditorTypeOK
  <2> QED BY <1>1, <2>1, <2>2 DEF Saves
<1>4. EditorTypeOK' /\ Filled'
  BY <1>1, <1>2, <1>3 DEF EditorIInv, EditorTypeOK, Filled
<1>5. Following'
  <2>1. \A r \in saves' : ~r.mounted /\ (r.st # "orphan" => r.draft \in Texts)
    BY <1>1, <1>3 DEF EditorIInv, Following
  <2> QED BY <2>1 DEF Following
<1>6. Reviewed'
  <2>1. \A r \in saves' : r.st = "saved" => r.content \in seen'
    <3> SUFFICES ASSUME NEW r \in saves', r.st = "saved" PROVE r.content \in seen'
      OBVIOUS
    <3>1. PICK s \in saves : r.st = s.st /\ r.content = s.content
      BY <1>3
    <3> QED BY <1>1, <3>1 DEF EditorIInv, Reviewed
  <2> QED BY <1>2, <2>1 DEF Reviewed
<1>7. ASSUME "rebased" \notin excused' PROVE Based'
  <2>1. \A r \in saves' : r.st \in {"asked", "orphan"} => r.expected \in seen'
    BY <1>1, <1>3, <1>7 DEF EditorIInv, Based
  <2> QED BY <1>1, <1>2, <1>7, <2>1 DEF EditorIInv, Based
<1> QED BY <1>4, <1>5, <1>6, <1>7 DEF EditorIInv

LEMMA ReloadStep == ASSUME EditorIInv, Reload PROVE EditorIInv'
<1>1. /\ view' = NoView /\ opening' = [st |-> "idle", content |-> NoAgent]
      /\ saves' = {[s EXCEPT !.st = "orphan", !.mounted = FALSE] :
                   s \in {r \in saves : r.st \in {"asked", "orphan"}}}
      /\ UNCHANGED <<disk, stored, order, seen, excused>>
  BY DEF Reload
<1>2. view' \in Views /\ view'.open = FALSE /\ view'.conflict = NoAgent
      /\ opening' \in Openings /\ opening'.st = "idle"
  BY <1>1 DEF NoView, Values, Views, Openings
<1>3. ASSUME NEW r \in saves'
      PROVE  /\ r \in Saves /\ ~r.mounted /\ r.st = "orphan"
             /\ \E s \in saves : /\ s.st \in {"asked", "orphan"} /\ r.content = s.content
                                 /\ r.expected = s.expected
  <2>1. PICK s \in {q \in saves : q.st \in {"asked", "orphan"}} :
          r = [s EXCEPT !.st = "orphan", !.mounted = FALSE]
    BY <1>1
  <2>2. s \in Saves /\ s \in saves /\ s.st \in {"asked", "orphan"}
    BY DEF EditorIInv, EditorTypeOK
  <2>3. /\ r \in Saves /\ ~r.mounted /\ r.st = "orphan" /\ r.content = s.content
        /\ r.expected = s.expected
    BY <2>1, <2>2 DEF Saves, SaveStages
  <2> QED BY <2>2, <2>3
<1>4. EditorTypeOK' /\ Filled'
  <2>1. \A r \in saves' : r \in Saves /\ r.content \in Texts
    BY <1>3 DEF EditorIInv, Filled
  <2> QED BY <1>1, <1>2, <2>1 DEF EditorIInv, EditorTypeOK, Filled
<1>5. Following' /\ Reviewed'
  BY <1>2, <1>3 DEF Following, Reviewed
<1>6. ASSUME "rebased" \notin excused' PROVE Based'
  <2>1. \A r \in saves' : r.expected \in seen'
    BY <1>1, <1>3, <1>6 DEF EditorIInv, Based
  <2> QED BY <1>1, <1>2, <1>6, <2>1 DEF EditorIInv, Based
<1> QED BY <1>4, <1>5, <1>6 DEF EditorIInv

LEMMA KeepEditsStep == ASSUME EditorIInv, KeepEdits PROVE EditorIInv'
<1>1. /\ view.open /\ view.conflict \in Values /\ view.draft \in Texts
      /\ view.conflict \in seen
  BY DEF KeepEdits, EditorIInv, EditorTypeOK, Filled, Reviewed, Views
<1>2. /\ Draft(view.conflict, view.draft) \in Drafts
      /\ Draft(view.conflict, view.draft) # NoDraft =>
           /\ Draft(view.conflict, view.draft).base = view.conflict
           /\ Draft(view.conflict, view.draft).draft = view.draft
  BY <1>1, Drafted
<1>3. /\ stored' = Draft(view.conflict, view.draft)
      /\ UNCHANGED <<disk, opening, saves, order, seen, excused>>
  BY DEF KeepEdits
<1>4. view' = [[[view EXCEPT !.base = view.conflict] EXCEPT !.conflict = NoAgent] EXCEPT !.saving = FALSE]
  BY DEF KeepEdits
<1>5. /\ view' \in Views
      /\ view'.open = view.open /\ view'.draft = view.draft
      /\ view'.base = view.conflict /\ view'.conflict = NoAgent
  BY <1>1, <1>4 DEF EditorIInv, EditorTypeOK, Values, Views
<1>6. EditorTypeOK' /\ Filled' /\ Following'
  BY <1>1, <1>2, <1>3, <1>5 DEF EditorIInv, EditorTypeOK, Filled, Following
<1>7. Reviewed' /\ ("rebased" \notin excused' => Based')
  BY <1>1, <1>2, <1>3, <1>5 DEF EditorIInv, Reviewed, Based
<1> QED BY <1>6, <1>7 DEF EditorIInv

LEMMA EditorNextInvariant == ASSUME Distinct PROVE EditorIInv /\ [EditorNext]_editorVars => EditorIInv'
<1> SUFFICES ASSUME EditorIInv, [EditorNext]_editorVars PROVE EditorIInv'
  OBVIOUS
<1>1. ASSUME NEW text \in Agents, AgentWrites(text) PROVE EditorIInv'
  BY <1>1 DEF AgentWrites, EditorIInv, EditorTypeOK, Filled, Following, Based, Reviewed, Texts
<1>2. ASSUME NEW text \in {Original} \cup Typed, Type(text) PROVE EditorIInv'
  BY <1>2, EditorTypeStep
<1>3. CASE Open \/ ServeContent
  BY <1>3 DEF Open, ServeContent, EditorIInv, EditorTypeOK, Filled, Following, Based, Reviewed, Values,
              Openings
<1>4. CASE Opened \/ OpenFails
  BY <1>4, OpenedStep, OpenFailsStep
<1>5. CASE Close \/ Reload \/ Save \/ KeepEdits
  BY <1>5, CloseStep, ReloadStep, SaveStep, KeepEditsStep
<1>6. ASSUME NEW s \in saves,
             \/ ServeSave(s) \/ SaveIsLost(s) \/ Saved(s) \/ SaveRefused(s)
             \/ ServeLatest(s) \/ ShowLatest(s)
      PROVE  EditorIInv'
  BY <1>6, ServeSaveStep, SaveIsLostStep, SavedStep, SaveRefusedStep, ServeLatestStep, ShowLatestStep
<1>7. CASE UNCHANGED editorVars
  BY <1>7 DEF editorVars, EditorIInv, EditorTypeOK, Filled, Following, Based, Reviewed
<1> QED BY <1>1, <1>2, <1>3, <1>4, <1>5, <1>6, <1>7 DEF EditorNext

-----------------------------------------------------------------------------
(* Only the server and the agent write the file. *)
LEMMA StepOverwritesSeen == ASSUME Distinct, EditorIInv, [EditorNext]_editorVars PROVE OverwritesSeen
<1>1. ASSUME NEW text \in Agents, AgentWrites(text) PROVE OverwritesSeen
  BY <1>1 DEF AgentWrites, OverwritesSeen, Distinct
<1>2. ASSUME NEW s \in saves, ServeSave(s) PROVE OverwritesSeen
  <2>1. disk' # disk => disk = s.expected /\ s.st \in {"asked", "orphan"}
    BY <1>2 DEF ServeSave
  <2> QED BY <2>1 DEF OverwritesSeen, EditorIInv, Based
<1>3. ASSUME disk' = disk PROVE OverwritesSeen
  BY <1>3 DEF OverwritesSeen
<1>4. ASSUME NEW text \in {Original} \cup Typed, Type(text) PROVE disk' = disk
  BY <1>4 DEF Type
<1>5. CASE Open \/ ServeContent \/ Opened \/ OpenFails \/ Close \/ Reload \/ KeepEdits \/ Save
  BY <1>3, <1>5 DEF Open, ServeContent, Opened, OpenFails, Close, Reload, KeepEdits, Save, Sends
<1>6. ASSUME NEW s \in saves,
             SaveIsLost(s) \/ Saved(s) \/ SaveRefused(s) \/ ServeLatest(s) \/ ShowLatest(s)
      PROVE  OverwritesSeen
  BY <1>3, <1>6 DEF SaveIsLost, Saved, SaveAnswers, SaveRefused, ServeLatest, ShowLatest
<1>7. CASE UNCHANGED editorVars
  BY <1>3, <1>7 DEF editorVars
<1> QED BY <1>1, <1>2, <1>3, <1>4, <1>5, <1>6, <1>7 DEF EditorNext

(* A save replaces only a text its user has seen: for any texts and failures, and
   any saves in flight together, as long as the agent's texts are its own and no
   draft was rebased unseen. *)
THEOREM SavesOverSeen == ASSUME Distinct PROVE EditorSpec => OnlySeenIsOverwritten
<1>1. EditorSpec => []EditorIInv
  BY EditorInitInvariant, EditorNextInvariant, PTL DEF EditorSpec
<1>2. EditorIInv /\ [EditorNext]_editorVars => [OverwritesSeen]_editorVars
  BY StepOverwritesSeen
<1> QED BY <1>1, <1>2, PTL DEF EditorSpec, OnlySeenIsOverwritten

-----------------------------------------------------------------------------
(* No view is open while one is being opened. *)
OneView == opening.st # "idle" => ~view.open

(* What was typed last is the stored draft, and what an open view shows of it. *)
Stored ==
  last # NoAgent => stored.draft = last /\ (view.open => view.draft = last)

GivenUp == {"unstored", "crossed", "overtaken"}
KeepInv ==
  /\ EditorIInv /\ OneView
  /\ excused \cap GivenUp = {} => Stored

LEMMA KeepInit == ASSUME Distinct PROVE EditorInit => KeepInv
BY EditorInitInvariant DEF EditorInit, KeepInv, OneView, Stored, NoView

(* A draft that is not what it started from is stored as it is. *)
LEMMA DraftIsStored ==
  ASSUME NEW base, NEW draft, draft # base
  PROVE  Draft(base, draft).draft = draft
BY DEF Draft

(* A view is opened with the stored draft. *)
LEMMA ShowsDraft ==
  ASSUME NEW opened, NEW draft
  PROVE  /\ Showing(opened, draft).open
         /\ draft.draft # NoAgent => Showing(opened, draft).draft = draft.draft
BY DEF Showing, NoDraft

LEMMA TypeKeeps ==
  ASSUME KeepInv, NEW text \in {Original} \cup Typed, Type(text)
  PROVE  OneView' /\ (excused' \cap GivenUp = {} => Stored')
<1> DEFINE base == IF stored = NoDraft THEN view.file ELSE stored.base
<1>1. /\ view.open /\ view' = [[view EXCEPT !.draft = text] EXCEPT !.saving = FALSE]
      /\ last' = IF text = base THEN NoAgent ELSE text
      /\ opening' = opening
      /\ stored' = Draft(base, text) \/ "unstored" \in excused'
  BY DEF Type
<1>2. view'.open /\ view'.draft = text
  BY <1>1 DEF KeepInv, EditorIInv, EditorTypeOK, Views
<1>3. OneView'
  BY <1>1, <1>2 DEF KeepInv, OneView
<1> HIDE DEF base
<1>4. ASSUME "unstored" \notin excused' PROVE Stored'
  BY <1>1, <1>2, <1>4, DraftIsStored DEF Stored
<1> QED BY <1>3, <1>4 DEF GivenUp

(* The answer leaves what was typed last where it is, or it was saved. *)
LEMMA SavedKeeps ==
  ASSUME Distinct, KeepInv, NEW s \in saves, Saved(s)
  PROVE  OneView' /\ (excused' \cap GivenUp = {} => Stored')
<1>1. PICK d : d \in {Draft(s.content, Remaining(s)), stored} /\ SaveAnswers(s, d)
  BY DEF Saved
<1> DEFINE v == Showing(s.content, d)
<1>2. /\ stored' = d /\ opening' = opening /\ s.st = "saved"
      /\ view' = IF s.mounted THEN v ELSE view
      /\ excused' = excused \cup SaveExcuses(s)
      /\ last' = IF Remaining(s) = s.content /\ last = s.content /\ ~Overtaken(s) THEN NoAgent ELSE last
  BY <1>1 DEF SaveAnswers
<1>3. /\ v.open
      /\ d.draft # NoAgent => v.draft = d.draft
  BY ShowsDraft
<1> HIDE DEF v
<1>4. s.mounted => view.open
  BY DEF KeepInv, EditorIInv, Following
<1>5. OneView'
  BY <1>2, <1>3, <1>4 DEF KeepInv, OneView
<1>6. ASSUME excused' \cap GivenUp = {}, last' # NoAgent PROVE Stored'
  <2>1. last' = last /\ stored.draft = last /\ (view.open => view.draft = last)
    BY <1>2, <1>6 DEF KeepInv, Stored
  <2>2. ~CrossesDraft(s) /\ ~Overtaken(s)
    BY <1>2, <1>6 DEF SaveExcuses, GivenUp
  <2>3. Remaining(s) = last
    <3>1. CASE s.mounted
      BY <1>4, <2>1, <3>1 DEF Remaining
    <3>2. CASE ~s.mounted
      <4>1. stored # NoDraft
        BY <1>6, <2>1 DEF NoDraft
      <4> QED BY <2>1, <2>2, <3>2, <4>1 DEF Remaining, CrossesDraft
    <3> QED BY <3>1, <3>2
  <2>4. d.draft = last
    <3>1. Remaining(s) # s.content
      BY <1>2, <1>6, <2>1, <2>2, <2>3
    <3> QED BY <1>1, <2>1, <2>3, <3>1, DraftIsStored
  <2> QED BY <1>2, <1>3, <1>6, <2>1, <2>4 DEF Stored
<1> QED BY <1>5, <1>6 DEF Stored

LEMMA OpenedKeeps ==
  ASSUME KeepInv, Opened \/ OpenFails
  PROVE  OneView' /\ (excused' \cap GivenUp = {} => Stored')
<1>1. /\ opening.st # "idle" /\ opening'.st = "idle"
      /\ UNCHANGED <<stored, last, excused>>
      /\ \/ view' = Showing(opening.content, stored) \/ view' = Showing(stored.base, stored)
         \/ stored = NoDraft /\ view' = view
  BY DEF Opened, OpenFails, KeepInv, EditorIInv, EditorTypeOK, Openings
<1>2. ~view.open
  BY <1>1 DEF KeepInv, OneView
<1>3. ASSUME Stored PROVE Stored'
  BY <1>1, <1>3, ShowsDraft DEF Stored, NoDraft
<1> QED BY <1>1, <1>3 DEF KeepInv, OneView

LEMMA KeepEditsKeeps ==
  ASSUME KeepInv, KeepEdits
  PROVE  OneView' /\ (excused' \cap GivenUp = {} => Stored')
<1>1. /\ view.open /\ stored' = Draft(view.conflict, view.draft)
      /\ view' = [[[view EXCEPT !.base = view.conflict] EXCEPT !.conflict = NoAgent] EXCEPT !.saving = FALSE]
      /\ last' = IF last = view.conflict THEN NoAgent ELSE last
      /\ UNCHANGED <<opening, excused>>
  BY DEF KeepEdits
<1>2. view'.open = view.open /\ view'.draft = view.draft
  BY <1>1 DEF KeepInv, EditorIInv, EditorTypeOK, Views
<1>3. ASSUME Stored PROVE Stored'
  BY <1>1, <1>2, <1>3, DraftIsStored DEF Stored
<1> QED BY <1>1, <1>2, <1>3 DEF KeepInv, OneView

(* A step that types nothing and leaves the storage alone. *)
LEMMA OtherKeeps ==
  ASSUME KeepInv,
         last' \in {last, NoAgent}, stored' = stored, excused' = excused,
         view'.open => view.open /\ view'.draft = view.draft,
         opening'.st # "idle" => ~view'.open
  PROVE  OneView' /\ (excused' \cap GivenUp = {} => Stored')
BY DEF KeepInv, OneView, Stored

LEMMA KeepNext == ASSUME Distinct PROVE KeepInv /\ [EditorNext]_editorVars => KeepInv'
<1> SUFFICES ASSUME KeepInv, [EditorNext]_editorVars
             PROVE  OneView' /\ (excused' \cap GivenUp = {} => Stored')
  BY EditorNextInvariant DEF KeepInv
<1>0. view \in Views /\ opening \in Openings
  BY DEF KeepInv, EditorIInv, EditorTypeOK
<1>1. CASE (\E text \in Agents : AgentWrites(text)) \/ UNCHANGED editorVars
  BY <1>1 DEF AgentWrites, editorVars, KeepInv, OneView, Stored
<1>2. ASSUME NEW text \in {Original} \cup Typed, Type(text)
      PROVE  OneView' /\ (excused' \cap GivenUp = {} => Stored')
  BY <1>2, TypeKeeps
<1>3. CASE Open \/ ServeContent
  BY <1>0, <1>3 DEF Open, ServeContent, KeepInv, OneView, Stored, Openings
<1>4. CASE Opened \/ OpenFails
  BY <1>4, OpenedKeeps
<1>5. CASE Close \/ Reload
  <2>1. view' = NoView /\ UNCHANGED <<stored, last, excused>>
    BY <1>5 DEF Close, Reload
  <2>2. view'.open = FALSE
    BY <2>1 DEF NoView
  <2> QED BY <2>1, <2>2, OtherKeeps
<1>6. CASE Save
  <2>1. /\ view'.open = view.open /\ view'.draft = view.draft
        /\ UNCHANGED <<stored, opening, last, excused>>
    BY <1>0, <1>6 DEF Save, Sends, Views
  <2> QED BY <2>1, OtherKeeps DEF KeepInv, OneView
<1>7. ASSUME NEW s \in saves, ServeSave(s) \/ SaveIsLost(s) \/ SaveRefused(s) \/ ServeLatest(s) \/ ShowLatest(s)
      PROVE  OneView' /\ (excused' \cap GivenUp = {} => Stored')
  <2>1. view'.open = view.open /\ view'.draft = view.draft
    BY <1>0, <1>7 DEF ServeSave, SaveIsLost, SaveRefused, ServeLatest, ShowLatest, Views
  <2>2. last' \in {last, NoAgent} /\ UNCHANGED <<stored, opening, excused>>
    BY <1>7 DEF ServeSave, SaveIsLost, SaveRefused, ServeLatest, ShowLatest
  <2> QED BY <2>1, <2>2, OtherKeeps DEF KeepInv, OneView
<1>8. ASSUME NEW s \in saves, Saved(s)
      PROVE  OneView' /\ (excused' \cap GivenUp = {} => Stored')
  BY <1>8, SavedKeeps
<1>9. CASE KeepEdits
  BY <1>9, KeepEditsKeeps
<1> QED BY <1>1, <1>2, <1>3, <1>4, <1>5, <1>6, <1>7, <1>8, <1>9 DEF EditorNext

(* What the user typed last is not lost: for any texts and any number of edits,
   saves, conflicts, reloads and lost answers, and any saves in flight together. *)
THEOREM EditsAreKept == ASSUME Distinct PROVE EditorSpec => []EditIsKept
<1>1. EditorSpec => []KeepInv
  BY KeepInit, KeepNext, PTL DEF EditorSpec
<1>2. KeepInv => EditIsKept
  BY DEF KeepInv, Stored, GivenUp, EditIsKept
<1> QED BY <1>1, <1>2, PTL

-----------------------------------------------------------------------------
(* What the cards send is what their user decided: for any number of questions,
   options and permissions, and whatever fails or is answered elsewhere.

   For the answers: only one set of them is on its way, and while it is the card
   does not change (Sending).  It was sent when every question was confirmed, and
   a confirmed one shows what was approved (Approved).
   For the permissions: what is being decided or was decided is the oldest one or
   is no longer asked for (InTurn), since requests leave from the front; of the
   oldest, the card knows what became of it unless another answer came in between
   (Known). *)

(* There is a question, and a permission is asked for once. *)
Sensible ==
  /\ Questions \in Nat \ {0}
  /\ Requests \in Seq(Int \ {NoRequest})
  /\ \A i, j \in 1 .. Len(Requests) : Requests[i] = Requests[j] => i = j

Waiting == {permissions[i] : i \in 1 .. Len(permissions)}

CardsTypeOK ==
  /\ page \in Asked /\ submitting \in BOOLEAN
  /\ DOMAIN selections = Asked /\ selections = [q \in Asked |-> selections[q]]
  /\ confirmed \in [Asked -> BOOLEAN]
  /\ otherValues = [q \in Asked |-> otherValues[q]]
  /\ approved = [q \in Asked |-> approved[q]]
  /\ permissions \in Seq(Int \ {NoRequest})
  /\ \A i, j \in 1 .. Len(permissions) : permissions[i] = permissions[j] => i = j

Approved ==
  \A q \in Asked : confirmed[q] => selections[q] = approved[q] /\ CardShows(q) = selections[q]

Sending ==
  /\ ~submitting => posted = {}
  /\ posted # {} => \A q \in Asked : confirmed[q]
  /\ \A a \in posted : a = selections

InTurn == \A r \in deciding \cup decided : r \in Waiting => r = Oldest

Known ==
  /\ \A r \in deciding \ crossed : r \in Waiting => submission = r
  /\ \A r \in decided \ crossed : r \in Waiting => resolved = r

CardInv == CardsTypeOK /\ Approved /\ Sending
QueueInv == InTurn /\ Known
CardsIInv == CardInv /\ QueueInv

-----------------------------------------------------------------------------
(* The first of several questions is one of them. *)
Less == OpToRel(<, Nat)

LEMMA LessWellFounded == IsWellFoundedOn(Less, Nat)
BY NatLessThanWellFounded DEF Less

LEMMA Lesser == ASSUME NEW x \in Nat, NEW y \in Nat, y < x PROVE <<y, x>> \in Less
BY DEF Less, OpToRel

LEMMA FirstIsOne ==
  ASSUME NEW S \in SUBSET Nat, S # {}
  PROVE  (CHOOSE q \in S : \A r \in S : q <= r) \in S
<1>1. PICK x \in S : \A y \in S : ~(<<y, x>> \in Less)
  BY LessWellFounded, WFMin
<1>2. ASSUME NEW y \in S PROVE x <= y
  <2>1. ~(y < x)
    BY <1>1, Lesser
  <2> QED BY <2>1
<1> QED BY <1>2

(* The requests that wait when the oldest leaves. *)
LEMMA OldestLeaves ==
  ASSUME CardsTypeOK, permissions # <<>>, permissions' = Tail(permissions)
  PROVE  /\ permissions' \in Seq(Int \ {NoRequest})
         /\ \A i, j \in 1 .. Len(permissions') : permissions'[i] = permissions'[j] => i = j
         /\ Waiting' \subseteq Waiting \ {Oldest}
<1>1. /\ permissions' \in Seq(Int \ {NoRequest}) /\ Len(permissions') = Len(permissions) - 1
      /\ Len(permissions) \in Nat \ {0}
      /\ \A i \in 1 .. Len(permissions') : permissions'[i] = permissions[i + 1]
  BY DEF CardsTypeOK
<1>2. \A i, j \in 1 .. Len(permissions') : permissions'[i] = permissions'[j] => i = j
  BY <1>1, SMTT(30) DEF CardsTypeOK
<1>3. ASSUME NEW i \in 1 .. Len(permissions')
      PROVE  permissions'[i] \in Waiting /\ permissions'[i] # Oldest
  <2>1. i + 1 \in 1 .. Len(permissions) /\ 1 \in 1 .. Len(permissions) /\ i + 1 # 1
    BY <1>1
  <2>2. permissions'[i] = permissions[i + 1] /\ Oldest = permissions[1]
    BY <1>1 DEF Oldest
  <2>3. \A k, l \in 1 .. Len(permissions) : permissions[k] = permissions[l] => k = l
    BY DEF CardsTypeOK
  <2>4. permissions[i + 1] # permissions[1]
    BY <2>1, <2>3
  <2> QED BY <2>1, <2>2, <2>4 DEF Waiting
<1>4. Waiting' \subseteq Waiting \ {Oldest}
  BY <1>3 DEF Waiting
<1> QED BY <1>1, <1>2, <1>4

LEMMA OldestWaits ==
  ASSUME CardsTypeOK, permissions # <<>>
  PROVE  Oldest \in Waiting /\ Oldest # NoRequest
<1>1. 1 \in 1 .. Len(permissions) /\ Oldest = permissions[1] /\ permissions[1] \in Int \ {NoRequest}
  BY DEF Oldest, CardsTypeOK
<1> QED BY <1>1 DEF Waiting

LEMMA CardsInitInvariant == ASSUME Sensible PROVE CardsInit => CardsIInv
<1> SUFFICES ASSUME CardsInit PROVE CardsIInv
  OBVIOUS
<1>1. CardsTypeOK
  <2>1. 1 \in Asked
    BY DEF Sensible, Asked
  <2>2. page \in Asked /\ submitting \in BOOLEAN
    BY <2>1 DEF CardsInit
  <2>3. /\ DOMAIN selections = Asked /\ selections = [q \in Asked |-> selections[q]]
        /\ confirmed \in [Asked -> BOOLEAN]
        /\ otherValues = [q \in Asked |-> otherValues[q]]
        /\ approved = [q \in Asked |-> approved[q]]
    BY DEF CardsInit
  <2>4. /\ permissions \in Seq(Int \ {NoRequest})
        /\ \A i, j \in 1 .. Len(permissions) : permissions[i] = permissions[j] => i = j
    BY DEF CardsInit, Sensible
  <2> QED BY <2>2, <2>3, <2>4 DEF CardsTypeOK
<1>2. Approved /\ Sending
  BY DEF CardsInit, Approved, Sending, Asked
<1>3. InTurn /\ Known
  BY DEF CardsInit, InTurn, Known
<1> QED BY <1>1, <1>2, <1>3 DEF CardsIInv, CardInv, QueueInv

-----------------------------------------------------------------------------
(* The queue's own steps leave the card alone, and the other way round. *)
LEMMA SameCard ==
  ASSUME CardInv, page' \in Asked,
         UNCHANGED <<selections, confirmed, otherValues, submitting, posted, approved>>,
         permissions' \in Seq(Int \ {NoRequest}),
         \A i, j \in 1 .. Len(permissions') : permissions'[i] = permissions'[j] => i = j
  PROVE  CardInv'
<1>1. CardsTypeOK'
  BY DEF CardInv, CardsTypeOK
<1>2. Approved'
  BY DEF CardInv, Approved, CardShows, MultiValues
<1>3. Sending'
  BY DEF CardInv, Sending
<1> QED BY <1>1, <1>2, <1>3 DEF CardInv

LEMMA CardAlone ==
  ASSUME CardInv, UNCHANGED <<card, answer>>,
         permissions' \in Seq(Int \ {NoRequest}),
         \A i, j \in 1 .. Len(permissions') : permissions'[i] = permissions'[j] => i = j
  PROVE  CardInv'
<1>1. UNCHANGED <<page, selections, confirmed, otherValues, submitting, posted, approved>>
  BY DEF card, answer
<1>2. page' \in Asked
  BY <1>1 DEF CardInv, CardsTypeOK
<1> QED BY <1>1, <1>2, SameCard

LEMMA QueueAlone ==
  ASSUME QueueInv, UNCHANGED queue
  PROVE  QueueInv' /\ permissions' = permissions
BY DEF QueueInv, queue, InTurn, Known, Waiting, Oldest

(* A question is answered: it shows what was approved, and if it was the last
   one the answers go out. *)
LEMMA CommitStep ==
  ASSUME Sensible, CardInv, Enabled, NEW values, Commit(values),
         IF page \in Multi THEN values = MultiValues(page) ELSE TRUE,
         UNCHANGED <<otherValues, delivery, permissions>>
  PROVE  CardInv'
<1> DEFINE chosen == [selections EXCEPT ![page] = values]
           sure == [confirmed EXCEPT ![page] = TRUE]
           open == {q \in Asked : ~sure[q]}
<1>1. /\ selections' = chosen /\ confirmed' = sure /\ approved' = [approved EXCEPT ![page] = values]
      /\ IF open # {}
         THEN /\ page' = CHOOSE q \in open : \A r \in open : q <= r
              /\ UNCHANGED <<submitting, posted>>
         ELSE submitting' = TRUE /\ posted' = posted \cup {chosen} /\ UNCHANGED page
  BY DEF Commit
<1>2. page \in Asked /\ ~submitting /\ posted = {}
  BY DEF Enabled, CardInv, CardsTypeOK, Sending
<1>3. /\ sure \in [Asked -> BOOLEAN] /\ DOMAIN chosen = Asked
      /\ chosen = [q \in Asked |-> chosen[q]] /\ chosen[page] = values /\ sure[page]
      /\ approved' = [q \in Asked |-> approved'[q]] /\ approved'[page] = values
      /\ \A q \in Asked \ {page} : /\ chosen[q] = selections[q] /\ sure[q] = confirmed[q]
                                   /\ approved'[q] = approved[q]
  BY <1>1, <1>2 DEF CardInv, CardsTypeOK
<1> HIDE DEF chosen, sure
<1>4. page' \in Asked
  <2>1. CASE open # {}
    <3>1. open \in SUBSET Nat /\ open \subseteq Asked
      BY DEF Asked, Sensible
    <3> QED BY <1>1, <2>1, <3>1, FirstIsOne
  <2>2. CASE open = {}
    BY <1>1, <1>2, <2>2
  <2> QED BY <2>1, <2>2
<1>5. CardsTypeOK'
  BY <1>1, <1>2, <1>3, <1>4 DEF CardInv, CardsTypeOK
<1>6. Approved'
  <2> SUFFICES ASSUME NEW q \in Asked, confirmed'[q]
               PROVE  selections'[q] = approved'[q] /\ CardShows(q)' = selections'[q]
    BY DEF Approved
  <2>1. CASE q = page
    <3>1. selections'[q] = values /\ approved'[q] = values
      BY <1>1, <1>3, <2>1
    <3>2. CASE q \in Multi
      <4> DEFINE typed == {otherValues[q]} \ {""}
      <4>1. values = (selections[q] \cap Options) \cup typed
        BY <2>1, <3>2 DEF MultiValues
      <4>2. CardShows(q)' = (values \cap Options) \cup typed
        BY <3>1, <3>2 DEF CardShows, MultiValues
      <4> HIDE DEF typed
      <4>3. CardShows(q)' = values
        BY <4>1, <4>2
      <4> QED BY <3>1, <4>3
    <3>3. CASE q \notin Multi
      BY <3>1, <3>3 DEF CardShows
    <3> QED BY <3>1, <3>2, <3>3
  <2>2. CASE q # page
    <3>1. selections'[q] = selections[q] /\ approved'[q] = approved[q] /\ confirmed[q]
      BY <1>1, <1>3, <2>2
    <3> QED BY <3>1 DEF CardInv, Approved, CardShows, MultiValues
  <2> QED BY <2>1, <2>2
<1>7. Sending'
  <2>1. CASE open # {}
    BY <1>1, <1>2, <2>1 DEF Sending
  <2>2. CASE open = {}
    BY <1>1, <1>2, <2>2 DEF Sending
  <2> QED BY <2>1, <2>2
<1> QED BY <1>5, <1>6, <1>7 DEF CardInv

(* A question that is changed is asked again. *)
LEMMA Changed ==
  ASSUME CardInv, Enabled, UNCHANGED <<page, submitting, delivery, posted, approved, permissions>>,
         NEW S, NEW t,
         selections' = [selections EXCEPT ![page] = S],
         otherValues' = [otherValues EXCEPT ![page] = t],
         \/ confirmed' = [confirmed EXCEPT ![page] = FALSE]
         \/ confirmed' = confirmed /\ page \notin Multi /\ S = selections[page]
  PROVE  CardInv'
<1>1. page \in Asked /\ posted = {}
  BY DEF Enabled, CardInv, CardsTypeOK, Sending
<1>2. /\ DOMAIN selections' = Asked /\ selections' = [q \in Asked |-> selections'[q]]
      /\ otherValues' = [q \in Asked |-> otherValues'[q]] /\ confirmed' \in [Asked -> BOOLEAN]
      /\ selections'[page] = S
      /\ \A q \in Asked \ {page} : /\ selections'[q] = selections[q] /\ confirmed'[q] = confirmed[q]
                                   /\ otherValues'[q] = otherValues[q]
  BY <1>1 DEF CardInv, CardsTypeOK
<1>3. CardsTypeOK'
  BY <1>1, <1>2 DEF CardInv, CardsTypeOK
<1>4. Approved'
  <2> SUFFICES ASSUME NEW q \in Asked, confirmed'[q]
               PROVE  selections'[q] = approved'[q] /\ CardShows(q)' = selections'[q]
    BY DEF Approved
  <2>1. CASE q = page
    <3>1. confirmed[q] /\ q \notin Multi /\ selections'[q] = selections[q]
      BY <1>1, <1>2, <2>1 DEF CardInv, CardsTypeOK
    <3> QED BY <3>1 DEF CardInv, Approved, CardShows
  <2>2. CASE q # page
    <3>1. /\ selections'[q] = selections[q] /\ confirmed[q] /\ otherValues'[q] = otherValues[q]
          /\ approved'[q] = approved[q]
      BY <1>2, <2>2
    <3> QED BY <3>1 DEF CardInv, Approved, CardShows, MultiValues
  <2> QED BY <2>1, <2>2
<1>5. Sending'
  BY <1>1 DEF Sending
<1> QED BY <1>3, <1>4, <1>5 DEF CardInv

LEMMA ChooseStep == ASSUME Sensible, CardsIInv, NEW v, Choose(v) PROVE CardsIInv'
<1>1. QueueInv' /\ permissions' = permissions
  BY QueueAlone DEF Choose, CardsIInv
<1>2. CASE page \in Multi
  <2>1. otherValues' = [otherValues EXCEPT ![page] = otherValues[page]]
    BY DEF Choose, CardsIInv, CardInv, CardsTypeOK
  <2>2. /\ selections' = [selections EXCEPT ![page] = Toggled(selections[page], v)]
        /\ confirmed' = [confirmed EXCEPT ![page] = FALSE]
        /\ Enabled /\ UNCHANGED <<page, submitting, delivery, posted, approved>>
    BY <1>2 DEF Choose, Unconfirm
  <2> QED BY <1>1, <2>1, <2>2, Changed DEF CardsIInv
<1>3. CASE page \notin Multi
  BY <1>1, <1>3, CommitStep DEF Choose, CardsIInv
<1> QED BY <1>2, <1>3

LEMMA CardsTypeStep == ASSUME CardsIInv, NEW text, TypeOther(text) PROVE CardsIInv'
<1>1. QueueInv' /\ permissions' = permissions
  BY QueueAlone DEF TypeOther, CardsIInv
<1>2. selections' = [selections EXCEPT ![page] = selections[page]]
  BY DEF TypeOther, CardsIInv, CardInv, CardsTypeOK
<1>3. /\ otherValues' = [otherValues EXCEPT ![page] = text]
      /\ Enabled /\ UNCHANGED <<page, submitting, delivery, posted, approved>>
      /\ \/ confirmed' = [confirmed EXCEPT ![page] = FALSE]
         \/ confirmed' = confirmed /\ page \notin Multi
  BY DEF TypeOther, Unconfirm, answer
<1> QED BY <1>1, <1>2, <1>3, Changed DEF CardsIInv

LEMMA ConfirmStep == ASSUME Sensible, CardsIInv, Confirm PROVE CardsIInv'
<1>1. QueueInv' /\ permissions' = permissions
  BY QueueAlone DEF Confirm, CardsIInv
<1>2. CASE page \in Multi
  BY <1>1, <1>2, CommitStep DEF Confirm, CardsIInv
<1>3. CASE page \notin Multi
  BY <1>1, <1>3, CommitStep DEF Confirm, CardsIInv
<1> QED BY <1>2, <1>3

LEMMA TurnStep == ASSUME CardsIInv, NEW to, Turn(to) PROVE CardsIInv'
<1>1. QueueInv' /\ permissions' = permissions
  BY QueueAlone DEF Turn, CardsIInv
<1>2. /\ page' \in Asked
      /\ UNCHANGED <<selections, confirmed, otherValues, submitting, posted, approved>>
  BY DEF Turn, answer
<1> QED BY <1>1, <1>2, SameCard DEF CardsIInv, CardInv, CardsTypeOK

(* The answers arrive or not; the press can be made again when none is out. *)
LEMMA PostedStep ==
  ASSUME CardsIInv, NEW a \in posted, Arrives(a) \/ Fails(a)
  PROVE  CardsIInv'
<1>1. QueueInv' /\ permissions' = permissions
  BY QueueAlone DEF Arrives, Fails, CardsIInv
<1>2. /\ posted' = posted \ {a} /\ submitting' \in BOOLEAN
      /\ UNCHANGED <<page, selections, confirmed, otherValues, approved>>
      /\ submitting' = submitting \/ submitting' = FALSE
  BY DEF Arrives, Fails, card, CardsIInv, CardInv, CardsTypeOK
<1>3. posted' = {}
  BY <1>2 DEF CardsIInv, CardInv, Sending
<1>4. CardsTypeOK'
  BY <1>1, <1>2 DEF CardsIInv, CardInv, CardsTypeOK
<1>5. Approved'
  BY <1>2 DEF CardsIInv, CardInv, Approved, CardShows, MultiValues
<1>6. Sending'
  BY <1>2, <1>3 DEF Sending
<1> QED BY <1>1, <1>4, <1>5, <1>6 DEF CardsIInv, CardInv

LEMMA NotDeliveredStep == ASSUME CardsIInv, NotDelivered PROVE CardsIInv'
<1>1. QueueInv' /\ permissions' = permissions
  BY QueueAlone DEF NotDelivered, CardsIInv
<1>2. UNCHANGED <<page, selections, confirmed, otherValues, submitting, posted, approved>>
  BY DEF NotDelivered, card
<1> QED BY <1>1, <1>2, SameCard DEF CardsIInv, CardInv, CardsTypeOK

-----------------------------------------------------------------------------
LEMMA Decidable ==
  ASSUME CardsIInv, CanDecide
  PROVE  /\ permissions # <<>> /\ Oldest \in Waiting
         /\ Oldest \notin (deciding \cup decided) \ crossed
<1>1. permissions # <<>> /\ resolved # Oldest /\ submission # Oldest
  BY DEF CanDecide, Offered
<1>2. Oldest \in Waiting
  BY <1>1, OldestWaits DEF CardsIInv, CardInv
<1> QED BY <1>1, <1>2 DEF CardsIInv, QueueInv, Known

(* A decision is about the oldest; one that is under way for another request is
   for one that no longer waits. *)
LEMMA DecideStep == ASSUME CardsIInv, Decide PROVE CardsIInv'
<1>1. /\ submission' = Oldest /\ deciding' = deciding \cup {Oldest}
      /\ UNCHANGED <<card, answer, permissions, resolved, decided, crossed>> /\ CanDecide
  BY DEF Decide
<1>2. CardInv'
  BY <1>1, CardAlone DEF CardsIInv, CardInv, CardsTypeOK
<1>3. Waiting' = Waiting /\ Oldest' = Oldest
  BY <1>1 DEF Waiting, Oldest
<1>4. InTurn'
  BY <1>1, <1>3 DEF CardsIInv, QueueInv, InTurn
<1>5. Known'
  BY <1>1, <1>3, Decidable DEF CardsIInv, QueueInv, InTurn, Known
<1> QED BY <1>2, <1>4, <1>5 DEF CardsIInv, QueueInv

(* Of the request that was answered the card knows it; for the others the answer
   came in between. *)
LEMMA DecisionStep ==
  ASSUME CardsIInv, NEW r \in deciding, DecisionTaken(r) \/ DecisionFails(r)
  PROVE  CardsIInv'
<1>1. /\ deciding' = deciding \ {r} /\ crossed' = crossed \cup ((deciding \cup decided) \ {r})
      /\ UNCHANGED <<card, answer, permissions>>
      /\ \/ decided' = decided \cup {r} /\ resolved' = r
         \/ decided' = decided /\ resolved' = resolved
  BY DEF DecisionTaken, DecisionFails, Crossing
<1>2. CardInv'
  BY <1>1, CardAlone DEF CardsIInv, CardInv, CardsTypeOK
<1>3. Waiting' = Waiting /\ Oldest' = Oldest
  BY <1>1 DEF Waiting, Oldest
<1>4. InTurn'
  BY <1>1, <1>3 DEF CardsIInv, QueueInv, InTurn
<1>5. Known'
  BY <1>1, <1>3 DEF CardsIInv, QueueInv, Known
<1> QED BY <1>2, <1>4, <1>5 DEF CardsIInv, QueueInv

LEMMA WithdrawnStep == ASSUME CardsIInv, Withdrawn PROVE CardsIInv'
<1>1. /\ permissions # <<>> /\ permissions' = Tail(permissions)
      /\ UNCHANGED <<card, answer, submission, resolved, deciding, decided, crossed>>
  BY DEF Withdrawn
<1>2. /\ permissions' \in Seq(Int \ {NoRequest})
      /\ \A i, j \in 1 .. Len(permissions') : permissions'[i] = permissions'[j] => i = j
      /\ Waiting' \subseteq Waiting \ {Oldest}
  BY <1>1, OldestLeaves DEF CardsIInv, CardInv
<1>3. CardInv'
  BY <1>1, <1>2, CardAlone DEF CardsIInv
<1>4. InTurn' /\ Known'
  BY <1>1, <1>2 DEF CardsIInv, QueueInv, InTurn, Known
<1> QED BY <1>3, <1>4 DEF CardsIInv, QueueInv

LEMMA CardsNextInvariant == ASSUME Sensible PROVE CardsIInv /\ [CardsNext]_cardsVars => CardsIInv'
<1> SUFFICES ASSUME CardsIInv, [CardsNext]_cardsVars PROVE CardsIInv'
  OBVIOUS
<1>1. ASSUME NEW v \in Options, Choose(v) PROVE CardsIInv'
  BY <1>1, ChooseStep
<1>2. ASSUME NEW text \in OtherTexts, TypeOther(text) PROVE CardsIInv'
  BY <1>2, CardsTypeStep
<1>3. CASE Confirm \/ NotDelivered
  BY <1>3, ConfirmStep, NotDeliveredStep
<1>4. CASE Turn(page - 1) \/ Turn(page + 1)
  BY <1>4, TurnStep
<1>5. ASSUME NEW a \in posted, Arrives(a) \/ Fails(a) PROVE CardsIInv'
  BY <1>5, PostedStep
<1>6. CASE Decide \/ Withdrawn
  BY <1>6, DecideStep, WithdrawnStep
<1>7. ASSUME NEW r \in deciding, DecisionTaken(r) \/ DecisionFails(r) PROVE CardsIInv'
  BY <1>7, DecisionStep
<1>8. CASE UNCHANGED cardsVars
  <2>1. QueueInv' /\ permissions' = permissions
    BY <1>8, QueueAlone DEF cardsVars, CardsIInv
  <2>2. CardInv'
    BY <1>8, <2>1, CardAlone DEF cardsVars, CardsIInv, CardInv, CardsTypeOK
  <2> QED BY <2>1, <2>2 DEF CardsIInv
<1> QED BY <1>1, <1>2, <1>3, <1>4, <1>5, <1>6, <1>7, <1>8 DEF CardsNext

(* What goes out was confirmed as shown, and a decided permission is not offered
   again: for any questions, options and permissions, and any failures. *)
THEOREM DecidedByUser == ASSUME Sensible PROVE CardsSpec => []DecisionsAreTheUsers
<1>1. CardsSpec => []CardsIInv
  BY CardsInitInvariant, CardsNextInvariant, PTL DEF CardsSpec
<1>2. CardsIInv => DecisionsAreTheUsers
  <2> SUFFICES ASSUME CardsIInv PROVE SentIsConfirmed /\ DecidedIsNotOffered
    BY DEF DecisionsAreTheUsers
  <2>1. SentIsConfirmed
    BY DEF CardsIInv, CardInv, Sending, Approved, SentIsConfirmed
  <2>2. DecidedIsNotOffered
    BY Decidable DEF DecidedIsNotOffered
  <2> QED BY <2>1, <2>2
<1> QED BY <1>1, <1>2, PTL

-----------------------------------------------------------------------------
(* The list above the prompt is the server's queue once everything was heard, for
   any number of messages, visits, reads and removals, whatever order answers and
   events come in and whenever the user leaves.

   The log is the server's word: a message is queued once and gone at most once
   after that, and the queue is what it says (LogOK).  What the page heard is that
   word, with nothing left out between the two ends of what it heard (MapOK).  A
   list agrees with the log up to an event if it has nothing that was gone by then
   and all that waits and was queued by then (Agrees).  So does each answer, what
   is cached and what is shown (QueueIInv), since reconciling with what was heard
   carries the agreement on to the last event heard if the two join up
   (ReconciledAgrees); when that is the last event of all, the list is the queue. *)

(* The log says a thing of a message among its first n entries. *)
Entry(m, what, n) == \E i \in 1 .. n : i \in 1 .. Len(log) /\ log[i][1] = m /\ log[i][2] = what
WaitingAt(n) == {m \in QueueIds : Entry(m, "queued", n) /\ ~Entry(m, "gone", n)}
Ever == {m \in QueueIds : Entry(m, "queued", Len(log))}
Queuings == {i \in DOMAIN log : log[i][2] = "queued"}

(* A message is queued once, and after that it is gone at most once. *)
LogOK ==
  /\ log \in Seq(QueueIds \X {"queued", "gone"})
  /\ \A i, j \in 1 .. Len(log) :
       i < j /\ log[i][1] = log[j][1] => log[i][2] = "queued" /\ log[j][2] = "gone"
  /\ \A i \in 1 .. Len(log) : log[i][1] \in Ever
  /\ \A m \in Ever : m <= Cardinality(Queuings)
  /\ waiting = WaitingAt(Len(log))

(* What was heard of each message is of it, and nothing newer of it is among the
   events after f up to n. *)
MapOK(es, f, n) ==
  /\ es \in [QueueIds -> 0 .. n]
  /\ \A m \in QueueIds : es[m] # 0 => log[es[m]][1] = m
  /\ \A m \in QueueIds : \A i \in f + 1 .. n : log[i][1] = m => i <= es[m]

(* A list that has nothing that was gone by the n-th event, and all that waits and
   was queued by then. *)
Agrees(messages, n) ==
  /\ messages \subseteq Ever /\ \A m \in messages : ~Entry(m, "gone", n)
  /\ \A m \in waiting : Entry(m, "queued", n) => m \in messages

IsRead(r) == r = [nr |-> r.nr, why |-> r.why, mine |-> r.mine, st |-> r.st, messages |-> r.messages,
                  at |-> r.at, before |-> r.before]
IsRemoval(r) == r = [m |-> r.m, st |-> r.st, mine |-> r.mine]

(* An answer agrees with the moment it is from; that to a queued message, until its
   prompt is left, is that message only. *)
ReadOK(r) ==
  /\ IsRead(r) /\ r.at \in 0 .. Len(log) /\ r.before \in [QueueIds -> Nat]
  /\ r.why = "stop" => \A m \in QueueIds : r.before[m] <= IF r.st = "answered" THEN r.at ELSE Len(log)
  /\ IF r.why = "post" /\ r.mine
     THEN r.messages \subseteq Ever /\ \A m \in r.messages : ~Entry(m, "gone", r.at)
     ELSE Agrees(r.messages, r.at)

QueueIInv ==
  /\ LogOK
  /\ upTo \in 0 .. Len(log) /\ from \in 0 .. upTo /\ MapOK(events, from, upTo)
  /\ basis \in 0 .. Len(log) /\ Agrees(list, basis)
  /\ cache.st = "list" => cache.at \in 0 .. Len(log) /\ Agrees(cache.messages, cache.at)
  /\ \A r \in reads : ReadOK(r)
  /\ \A m \in removed : Entry(m, "gone", Len(log))
  /\ \A r \in removals : IsRemoval(r) /\ (r.st = "done" => Entry(r.m, "gone", Len(log)))

(* What every step leaves of the log: what was said stays said. *)
LogGrows ==
  /\ LogOK' /\ Len(log) <= Len(log')
  /\ \A i \in 1 .. Len(log) : log'[i] = log[i]
  /\ \A m, what : \A n \in 0 .. Len(log) : Entry(m, what, n)' <=> Entry(m, what, n)
  /\ \A m \in waiting' : m \in waiting \/ ~Entry(m, "queued", Len(log))

-----------------------------------------------------------------------------
(* The log. *)

LEMMA LengthType ==
  ASSUME LogOK
  PROVE  Len(log) \in Nat /\ log \in Seq(QueueIds \X {"queued", "gone"})
BY DEF LogOK

(* What an entry says. *)
LEMMA EntryType ==
  ASSUME LogOK, NEW i \in 1 .. Len(log)
  PROVE  log[i][1] \in QueueIds /\ log[i][2] \in {"queued", "gone"}
<1>1. log[i] \in QueueIds \X {"queued", "gone"}
  BY LengthType
<1> QED BY <1>1

(* What was said stays said further on. *)
LEMMA EntryStays ==
  ASSUME NEW m, NEW what, NEW n \in Nat, NEW k \in Nat, n <= k, Entry(m, what, n)
  PROVE  Entry(m, what, k)
<1>1. \A i \in 1 .. n : i \in 1 .. k
  OBVIOUS
<1> QED BY <1>1 DEF Entry

(* A message that is gone was queued before. *)
LEMMA GoneWasQueued ==
  ASSUME LogOK, NEW m, NEW n \in 0 .. Len(log), Entry(m, "gone", n)
  PROVE  Entry(m, "queued", n) /\ m \in Ever
<1>0. Len(log) \in Nat /\ n \in Nat
  BY LengthType
<1>1. PICK i \in 1 .. n : i \in 1 .. Len(log) /\ log[i][1] = m /\ log[i][2] = "gone"
  BY DEF Entry
<1>2. m \in Ever
  BY <1>1 DEF LogOK
<1>3. PICK j \in 1 .. Len(log) : log[j][1] = m /\ log[j][2] = "queued"
  BY <1>2 DEF Ever, Entry
<1>4. ~(i < j)
  BY <1>1, <1>3 DEF LogOK
<1>5. j \in 1 .. n
  BY <1>0, <1>1, <1>3, <1>4
<1> QED BY <1>2, <1>3, <1>5 DEF Entry

LEMMA WaitingFacts ==
  ASSUME LogOK, NEW m \in waiting, NEW n \in 0 .. Len(log)
  PROVE  m \in QueueIds /\ m \in Ever /\ ~Entry(m, "gone", n)
<1>1. Len(log) \in Nat /\ n \in Nat
  BY LengthType
<1>2. m \in QueueIds /\ Entry(m, "queued", Len(log)) /\ ~Entry(m, "gone", Len(log))
  BY DEF LogOK, WaitingAt
<1> QED BY <1>1, <1>2, EntryStays DEF Ever

-----------------------------------------------------------------------------
LEMMA AppendFacts ==
  ASSUME LogOK, NEW m \in QueueIds, NEW what \in {"queued", "gone"}, log' = Append(log, <<m, what>>)
  PROVE  /\ log' \in Seq(QueueIds \X {"queued", "gone"}) /\ Len(log') = Len(log) + 1
         /\ \A i \in 1 .. Len(log) : log'[i] = log[i]
         /\ log'[Len(log) + 1][1] = m /\ log'[Len(log) + 1][2] = what
         /\ \A q, v : \A n \in 0 .. Len(log) : Entry(q, v, n)' <=> Entry(q, v, n)
         /\ \A q, v, n : n = Len(log) + 1 =>
              (Entry(q, v, n)' <=> Entry(q, v, Len(log)) \/ (q = m /\ v = what))
<1>1. Len(log) \in Nat /\ log \in Seq(QueueIds \X {"queued", "gone"})
  BY LengthType
<1>2. /\ log' \in Seq(QueueIds \X {"queued", "gone"}) /\ Len(log') = Len(log) + 1
      /\ \A i \in 1 .. Len(log) : log'[i] = log[i]
      /\ log'[Len(log) + 1] = <<m, what>>
  BY <1>1
<1>3. log'[Len(log) + 1][1] = m /\ log'[Len(log) + 1][2] = what
  BY <1>2
<1>4. ASSUME NEW q, NEW v, NEW n \in 0 .. Len(log) PROVE Entry(q, v, n)' <=> Entry(q, v, n)
  <2>1. \A i \in 1 .. n : i \in 1 .. Len(log) /\ i \in 1 .. Len(log')
    BY <1>1, <1>2
  <2> QED BY <1>2, <2>1 DEF Entry
<1>5. ASSUME NEW q, NEW v, NEW n, n = Len(log) + 1
      PROVE  Entry(q, v, n)' <=> Entry(q, v, Len(log)) \/ (q = m /\ v = what)
  <2>1. \A i \in 1 .. n : i \in 1 .. Len(log) \/ i = Len(log) + 1
    BY <1>1, <1>5
  <2>2. \A i \in 1 .. Len(log) : i \in 1 .. n /\ i \in 1 .. Len(log')
    BY <1>1, <1>2, <1>5
  <2>3. n \in 1 .. n /\ n \in 1 .. Len(log')
    BY <1>1, <1>2, <1>5
  <2>4. Entry(q, v, n)' <=> \E i \in 1 .. n : log'[i][1] = q /\ log'[i][2] = v
    BY <1>2, <1>5, <2>1, <2>2, <2>3 DEF Entry
  <2> QED BY <1>2, <1>3, <1>5, <2>1, <2>2, <2>3, <2>4 DEF Entry
<1> QED BY <1>2, <1>3, <1>4, <1>5

(* A step that leaves the log alone. *)
LEMMA LogSame == ASSUME LogOK, UNCHANGED <<log, waiting>> PROVE LogGrows
<1>1. \A m, what, n : Entry(m, what, n)' <=> Entry(m, what, n)
  BY DEF Entry
<1>2. LogOK'
  BY <1>1 DEF LogOK, Ever, WaitingAt, Queuings
<1> QED BY <1>1, <1>2, LengthType DEF LogGrows

(* An entry is not new when it is said earlier. *)
LEMMA Earlier ==
  ASSUME NEW n \in Nat, NEW i \in 1 .. n + 1, NEW j \in 1 .. n + 1, i < j
  PROVE  i \in 1 .. n /\ (j \in 1 .. n \/ j = n + 1)
OBVIOUS

(* The messages that were ever queued can be counted. *)
LEMMA QueuingsFinite == ASSUME LogOK PROVE IsFiniteSet(Queuings) /\ Cardinality(Queuings) \in Nat
<1>1. Len(log) \in Nat /\ log \in Seq(QueueIds \X {"queued", "gone"})
  BY LengthType
<1>2. IsFiniteSet(1 .. Len(log))
  BY <1>1, FS_Interval
<1>3. Queuings \in SUBSET (1 .. Len(log))
  BY <1>1 DEF Queuings
<1>4. IsFiniteSet(Queuings)
  BY <1>2, <1>3, FS_Subset
<1> QED BY <1>4, FS_CardinalityType

(* A message that is queued is new. *)
LEMMA NextIsNew == ASSUME LogOK PROVE NextMessage \notin Ever
<1>1. NextMessage = Cardinality(Queuings) + 1
  BY DEF NextMessage, Queuings
<1>2. \A q \in Ever : q \in QueueIds /\ q <= Cardinality(Queuings)
  BY DEF LogOK, Ever
<1> QED BY <1>1, <1>2, QueuingsFinite

(* What is asked of an entry that is added. *)
LEMMA LogAppended ==
  ASSUME LogOK, NEW m \in QueueIds, NEW what \in {"queued", "gone"}, log' = Append(log, <<m, what>>),
         what = "gone" => m \in waiting /\ waiting' = waiting \ {m},
         what = "queued" => m = NextMessage /\ waiting' = waiting \cup {m}
  PROVE  LogGrows
<1>1. Len(log) \in Nat /\ log \in Seq(QueueIds \X {"queued", "gone"})
  BY LengthType
<1>2. /\ log' \in Seq(QueueIds \X {"queued", "gone"}) /\ Len(log') = Len(log) + 1
      /\ \A i \in 1 .. Len(log) : log'[i] = log[i]
      /\ log'[Len(log) + 1][1] = m /\ log'[Len(log) + 1][2] = what
      /\ \A q, v : \A n \in 0 .. Len(log) : Entry(q, v, n)' <=> Entry(q, v, n)
      /\ \A q, v, n : n = Len(log) + 1 =>
           (Entry(q, v, n)' <=> Entry(q, v, Len(log)) \/ (q = m /\ v = what))
  BY AppendFacts
<1>3. \A q, v : Entry(q, v, Len(log))' <=> Entry(q, v, Len(log)) \/ (q = m /\ v = what)
  BY <1>2
<1>4. IsFiniteSet(Queuings) /\ Cardinality(Queuings) \in Nat
  BY QueuingsFinite
<1>5. what = "queued" => m \notin Ever
  BY NextIsNew
<1>6. what = "gone" => m \in Ever /\ ~Entry(m, "gone", Len(log))
  BY <1>1, WaitingFacts
<1>7. Ever' = Ever \cup {m}
  <2>1. \A q : Entry(q, "queued", Len(log))' <=> Entry(q, "queued", Len(log)) \/ (q = m /\ what = "queued")
    BY <1>3
  <2> QED BY <1>6, <2>1 DEF Ever
<1>8. LogOK'
  <2>1. ASSUME NEW i \in 1 .. Len(log'), NEW j \in 1 .. Len(log'), i < j, log'[i][1] = log'[j][1]
        PROVE  log'[i][2] = "queued" /\ log'[j][2] = "gone"
    <3>0. i \in 1 .. Len(log) + 1 /\ j \in 1 .. Len(log) + 1 /\ i < j
      BY <1>2, <2>1
    <3>1. i \in 1 .. Len(log) /\ log'[i] = log[i] /\ (j \in 1 .. Len(log) \/ j = Len(log) + 1)
      <4>1. i \in 1 .. Len(log) /\ (j \in 1 .. Len(log) \/ j = Len(log) + 1)
        BY <1>1, <3>0, Earlier
      <4> QED BY <1>2, <4>1
    <3>2. CASE j \in 1 .. Len(log)
      BY <1>2, <2>1, <3>1, <3>2 DEF LogOK
    <3>3. CASE j = Len(log) + 1
      <4>1. log[i][1] = m /\ m \in Ever
        BY <1>2, <2>1, <3>1, <3>3 DEF LogOK
      <4>2. what = "gone"
        BY <1>5, <4>1
      <4>3. log[i][2] # "gone"
        BY <1>6, <3>1, <4>1, <4>2 DEF Entry
      <4>4. log[i][2] \in {"queued", "gone"}
        BY <3>1, EntryType
      <4> QED BY <1>2, <3>1, <3>3, <4>2, <4>3, <4>4
    <3> QED BY <3>1, <3>2, <3>3
  <2>2. \A i \in 1 .. Len(log') : log'[i][1] \in Ever'
    <3>1. \A i \in 1 .. Len(log') : i \in 1 .. Len(log) \/ i = Len(log) + 1
      BY <1>1, <1>2
    <3> QED BY <1>2, <1>7, <3>1 DEF LogOK
  <2>3. \A q \in Ever' : q <= Cardinality(Queuings')
    <3>1. DOMAIN log = 1 .. Len(log) /\ DOMAIN log' = 1 .. Len(log) + 1
      BY <1>1, <1>2
    <3>2. \A q \in Ever : q \in QueueIds /\ q <= Cardinality(Queuings) /\ q \in Nat
      BY DEF LogOK, Ever, QueueIds
    <3>3. CASE what = "gone"
      <4>1. Queuings' = Queuings
        BY <1>1, <1>2, <3>1, <3>3 DEF Queuings
      <4> QED BY <1>6, <1>7, <3>2, <3>3, <4>1
    <3>4. CASE what = "queued"
      <4>1. Queuings' = Queuings \cup {Len(log) + 1} /\ Len(log) + 1 \notin Queuings
        BY <1>1, <1>2, <3>1, <3>4 DEF Queuings
      <4>2. Cardinality(Queuings') = Cardinality(Queuings) + 1
        BY <1>4, <4>1, FS_AddElement
      <4>3. m = Cardinality(Queuings) + 1
        BY <3>4 DEF NextMessage, Queuings
      <4> QED BY <1>4, <1>7, <3>2, <4>2, <4>3
    <3> QED BY <3>3, <3>4
  <2>4. waiting' = WaitingAt(Len(log))'
    <3>1. waiting = {q \in QueueIds : Entry(q, "queued", Len(log)) /\ ~Entry(q, "gone", Len(log))}
      BY DEF LogOK, WaitingAt
    <3>2. WaitingAt(Len(log))'
            = {q \in QueueIds : Entry(q, "queued", Len(log))' /\ ~Entry(q, "gone", Len(log))'}
      BY DEF WaitingAt
    <3>3. CASE what = "gone"
      BY <1>3, <3>1, <3>2, <3>3
    <3>4. CASE what = "queued"
      <4>1. ~Entry(m, "gone", Len(log))
        BY <1>1, <1>5, <3>4, GoneWasQueued
      <4> QED BY <1>3, <3>1, <3>2, <3>4, <4>1
    <3> QED BY <3>3, <3>4
  <2> QED BY <1>2, <2>1, <2>2, <2>3, <2>4 DEF LogOK
<1>9. \A q \in waiting' : q \in waiting \/ ~Entry(q, "queued", Len(log))
  BY <1>5 DEF Ever
<1> QED BY <1>1, <1>2, <1>8, <1>9 DEF LogGrows

(* A message that is queued is a new one. *)
LEMMA QueuedGrows == ASSUME LogOK, NextMessage \in QueueIds, Queued(NextMessage) PROVE LogGrows
BY LogAppended DEF Queued

(* A message that leaves was queued, and is gone once. *)
LEMMA LeavesGrows == ASSUME LogOK, NEW m, Leaves(m) PROVE LogGrows
<1>1. m \in QueueIds
  BY DEF Leaves, LogOK, WaitingAt
<1> QED BY <1>1, LogAppended DEF Leaves

-----------------------------------------------------------------------------
(* What was heard tells the fate of what it joins up with. *)
Tells(es, b, n) ==
  /\ es \in [QueueIds -> 0 .. n]
  /\ \A m \in QueueIds : es[m] # 0 =>
       log[es[m]][1] = m /\ \A i \in 1 .. n : log[i][1] = m => i <= es[m]
  /\ \A m \in QueueIds : \A i \in b + 1 .. n : log[i][1] = m => es[m] # 0

(* Reconciling carries the agreement on to the last event heard. *)
LEMMA ReconciledAgrees ==
  ASSUME LogOK, NEW n \in 0 .. Len(log), NEW b \in Nat, NEW messages, Agrees(messages, b),
         NEW es, Tells(es, b, n), NEW gone, \A m \in gone : Entry(m, "gone", Len(log))
  PROVE  Agrees(Reconcile(messages, es) \ gone, n)
<1>0. Len(log) \in Nat /\ n \in Nat /\ \A i \in 1 .. n : i \in 1 .. Len(log)
  BY LengthType
<1>1. \A m \in QueueIds : es[m] \in 0 .. n /\ (es[m] # 0 => es[m] \in 1 .. n /\ es[m] \in 1 .. Len(log))
  BY <1>0 DEF Tells
<1>2. ASSUME NEW m \in QueueIds, es[m] # 0, log[es[m]][2] = "queued"
      PROVE  m \in Ever /\ ~Entry(m, "gone", n)
  <2>1. es[m] \in 1 .. Len(log) /\ log[es[m]][1] = m
    BY <1>1, <1>2 DEF Tells
  <2>2. Entry(m, "queued", Len(log))
    BY <1>2, <2>1 DEF Entry
  <2>3. ASSUME NEW i \in 1 .. n, log[i][1] = m, log[i][2] = "gone" PROVE FALSE
    <3>1. i <= es[m] /\ i \in 1 .. Len(log)
      BY <1>0, <1>2, <2>3 DEF Tells
    <3>2. i # es[m]
      BY <1>2, <2>3
    <3>3. i < es[m]
      BY <1>0, <2>1, <3>1, <3>2
    <3> QED BY <2>1, <2>3, <3>1, <3>3 DEF LogOK
  <2> QED BY <2>2, <2>3 DEF Ever, Entry
<1>3. ASSUME NEW m \in Reconcile(messages, es) PROVE m \in Ever /\ ~Entry(m, "gone", n)
  <2>1. CASE m \in Says(es, "queued")
    BY <1>2, <2>1 DEF Says
  <2>2. CASE m \in messages /\ m \notin Says(es, "queued")
    <3>1. m \in Ever /\ m \in QueueIds /\ ~Entry(m, "gone", b)
      BY <2>2 DEF Agrees, Ever
    <3>2. es[m] = 0
      <4>1. m \notin Says(es, "gone")
        BY <1>3 DEF Reconcile
      <4>2. es[m] # 0 => log[es[m]][2] \in {"queued", "gone"}
        BY <1>1, <3>1, EntryType
      <4> QED BY <2>2, <3>1, <4>1, <4>2 DEF Says
    <3>3. ASSUME NEW i \in 1 .. n, log[i][1] = m, log[i][2] = "gone" PROVE FALSE
      <4>1. i \in 1 .. Len(log)
        BY <1>0
      <4>2. i \notin 1 .. b
        BY <3>1, <3>3, <4>1 DEF Entry
      <4>3. i \in b + 1 .. n
        BY <1>0, <4>2
      <4> QED BY <3>1, <3>2, <3>3, <4>3 DEF Tells
    <3> QED BY <3>1, <3>3 DEF Entry
  <2> QED BY <2>1, <2>2 DEF Reconcile
<1>4. ASSUME NEW m \in waiting, Entry(m, "queued", n)
      PROVE  m \in Reconcile(messages, es) /\ m \notin gone
  <2>1. m \in QueueIds /\ ~Entry(m, "gone", n) /\ ~Entry(m, "gone", Len(log))
    BY <1>0, WaitingFacts
  <2>2. m \notin Says(es, "gone")
    <3>1. es[m] # 0 => es[m] \in 1 .. n /\ es[m] \in 1 .. Len(log) /\ log[es[m]][1] = m
      BY <1>1, <2>1 DEF Tells
    <3> QED BY <2>1, <3>1 DEF Says, Entry
  <2>3. m \in messages \/ m \in Says(es, "queued")
    <3>1. PICK j \in 1 .. n : j \in 1 .. Len(log) /\ log[j][1] = m /\ log[j][2] = "queued"
      BY <1>4 DEF Entry
    <3>2. CASE j <= b
      <4>1. j \in 1 .. b
        BY <1>0, <3>2
      <4> QED BY <3>1, <4>1 DEF Agrees, Entry
    <3>3. CASE ~(j <= b)
      <4>1. j \in b + 1 .. n
        BY <1>0, <3>3
      <4>2. es[m] # 0
        BY <2>1, <3>1, <4>1 DEF Tells
      <4>3. log[es[m]][2] \in {"queued", "gone"}
        BY <1>1, <2>1, <4>2, EntryType
      <4> QED BY <2>1, <2>2, <4>2, <4>3 DEF Says
    <3> QED BY <3>2, <3>3
  <2> QED BY <2>1, <2>2, <2>3 DEF Reconcile
<1> QED BY <1>3, <1>4 DEF Agrees

(* Any list of messages agrees with the start of the log. *)
LEMMA AnyAgrees ==
  ASSUME LogOK, NEW messages, messages \subseteq Ever PROVE Agrees(messages, 0)
BY DEF Agrees, Entry

(* What a list that agrees is after messages that are gone were taken from it. *)
LEMMA WithoutAgrees ==
  ASSUME LogOK, NEW n \in 0 .. Len(log), NEW messages, Agrees(messages, n),
         NEW gone, \A m \in gone : Entry(m, "gone", Len(log))
  PROVE  Agrees(messages \ gone, n)
<1>1. \A m \in waiting : ~Entry(m, "gone", Len(log))
  BY LengthType, WaitingFacts
<1> QED BY <1>1 DEF Agrees

LEMMA EarlierAgrees ==
  ASSUME LogOK, NEW n \in Nat, NEW k \in 0 .. n, NEW messages, Agrees(messages, n)
  PROVE  Agrees(messages, k)
<1>1. \A m : (Entry(m, "gone", k) => Entry(m, "gone", n)) /\ (Entry(m, "queued", k) => Entry(m, "queued", n))
  BY EntryStays
<1> QED BY <1>1 DEF Agrees

(* What is reconciled is of messages that were queued. *)
LEMMA ReconciledEver ==
  ASSUME LogOK, NEW f, NEW n \in 0 .. Len(log), NEW es, MapOK(es, f, n), NEW messages \in SUBSET Ever
  PROVE  Reconcile(messages, es) \subseteq Ever
<1>1. ASSUME NEW m \in Says(es, "queued") PROVE m \in Ever
  <2>1. m \in QueueIds /\ es[m] \in 1 .. Len(log) /\ log[es[m]][1] = m
    BY LengthType DEF Says, MapOK
  <2> QED BY <2>1 DEF LogOK
<1> QED BY <1>1 DEF Reconcile

(* The events heard of each message, when nothing is from before a gap. *)
LEMMA MapTells ==
  ASSUME LogOK, NEW n \in 0 .. Len(log), NEW f \in 0 .. n, NEW b \in Nat, f <= b,
         NEW es, MapOK(es, f, n), \A m \in QueueIds : es[m] = 0 \/ es[m] > f
  PROVE  Tells(es, b, n)
<1>0. n \in Nat /\ f \in Nat /\ Len(log) \in Nat
  BY LengthType
<1>1. ASSUME NEW m \in QueueIds, es[m] # 0, NEW i \in 1 .. n, log[i][1] = m PROVE i <= es[m]
  <2>0. es[m] \in Nat
    BY <1>0 DEF MapOK
  <2>1. CASE i \in f + 1 .. n
    BY <1>1, <2>1 DEF MapOK
  <2>2. CASE i <= f
    BY <1>0, <1>1, <2>0, <2>2
  <2> QED BY <1>0, <2>1, <2>2
<1>2. ASSUME NEW m \in QueueIds, NEW i \in b + 1 .. n, log[i][1] = m PROVE es[m] # 0
  <2>1. i \in f + 1 .. n /\ es[m] \in Nat
    BY <1>0 DEF MapOK
  <2>2. i <= es[m]
    BY <1>2, <2>1 DEF MapOK
  <2> QED BY <1>0, <2>1, <2>2
<1> QED BY <1>1, <1>2 DEF Tells, MapOK

(* What CommitList shows of a list that is reconciled. *)
LEMMA JoinedAgrees ==
  ASSUME LogOK, NEW n \in 0 .. Len(log), NEW f \in 0 .. n, NEW b \in Nat,
         NEW es, MapOK(es, f, n), NEW messages, Agrees(messages, b),
         NEW gone, \A m \in gone : Entry(m, "gone", Len(log))
  PROVE  /\ Joined(b, es, f, n) \in 0 .. Len(log)
         /\ Agrees(Reconcile(messages, es) \ gone, Joined(b, es, f, n))
<1>0. n \in Nat /\ f \in Nat /\ Len(log) \in Nat
  BY LengthType
<1>1. CASE f <= b /\ \A m \in QueueIds : es[m] = 0 \/ es[m] > f
  <2>1. Joined(b, es, f, n) = n
    BY <1>1 DEF Joined
  <2> QED BY <1>0, <1>1, <2>1, MapTells, ReconciledAgrees
<1>2. CASE ~(f <= b /\ \A m \in QueueIds : es[m] = 0 \/ es[m] > f)
  <2>1. Joined(b, es, f, n) = 0
    BY <1>2 DEF Joined
  <2>2. Reconcile(messages, es) \ gone \subseteq Ever
    BY ReconciledEver DEF Agrees
  <2> QED BY <1>0, <2>1, <2>2, AnyAgrees
<1> QED BY <1>1, <1>2

-----------------------------------------------------------------------------
(* The newest event of each message that is in the window or was heard before. *)
LEMMA NewestMap ==
  ASSUME LogOK, NEW n \in 0 .. Len(log), NEW f \in 0 .. n, NEW u \in 0 .. n, NEW g \in 0 .. u,
         NEW es, MapOK(es, g, u), NEW h, h = IF f > u \/ f < g THEN f ELSE g
  PROVE  h \in 0 .. n /\ MapOK(Newest(f, n, es), h, n)
<1>0. /\ n \in Nat /\ f \in Nat /\ u \in Nat /\ g \in Nat /\ Len(log) \in Nat /\ h \in 0 .. n
      /\ \A i \in 1 .. n : i \in 1 .. Len(log)
  BY LengthType
<1>1. ASSUME NEW m \in QueueIds
      PROVE  /\ Newest(f, n, es)[m] \in 0 .. n
             /\ Newest(f, n, es)[m] # 0 => log[Newest(f, n, es)[m]][1] = m
             /\ \A i \in h + 1 .. n : log[i][1] = m => i <= Newest(f, n, es)[m]
  <2> DEFINE of == {i \in f + 1 .. n : log[i][1] = m}
             top == CHOOSE i \in of : \A j \in of : j <= i
  <2>1. Newest(f, n, es)[m] = IF of = {} THEN es[m] ELSE top
    BY DEF Newest
  <2>2. \A i \in of : i \in f + 1 .. n /\ i \in 1 .. Len(log) /\ log[i][1] = m
    BY <1>0
  <2>3. \A i \in f + 1 .. n : log[i][1] = m => i \in of
    OBVIOUS
  <2>4. \A i, j \in of : i < j => log[i][2] = "queued" /\ log[j][2] = "gone"
    BY <2>2 DEF LogOK
  <2> HIDE DEF of
  <2>5. CASE of = {}
    <3>1. es[m] \in 0 .. u /\ (es[m] # 0 => log[es[m]][1] = m)
      BY DEF MapOK
    <3>2. ASSUME NEW i \in h + 1 .. n, log[i][1] = m PROVE i <= es[m]
      <4>1. i \notin f + 1 .. n
        BY <2>3, <2>5, <3>2
      <4>2. i \in g + 1 .. u
        BY <1>0, <4>1
      <4> QED BY <3>2, <4>2 DEF MapOK
    <3> QED BY <1>0, <2>1, <2>5, <3>1, <3>2
  <2>6. CASE of # {}
    <3>1. \E i \in of : \A j \in of : j <= i
      <4>1. PICK i \in of : TRUE
        BY <2>6
      <4>2. CASE \A j \in of : j <= i
        BY <4>2
      <4>3. CASE \E k \in of : ~(k <= i)
        <5>1. PICK k \in of : ~(k <= i)
          BY <4>3
        <5>2. log[k][2] = "gone"
          BY <1>0, <2>2, <2>4, <5>1
        <5>3. \A j \in of : j <= k
          BY <1>0, <2>2, <2>4, <5>2
        <5> QED BY <5>3
      <4> QED BY <4>2, <4>3
    <3>2. top \in of /\ \A j \in of : j <= top
      BY <3>1
    <3> HIDE DEF top
    <3>3. top \in f + 1 .. n /\ log[top][1] = m
      BY <2>2, <3>2
    <3>4. ASSUME NEW i \in h + 1 .. n, log[i][1] = m PROVE i <= top
      <4>1. CASE i \in f + 1 .. n
        BY <2>3, <3>2, <3>4, <4>1
      <4>2. CASE i \notin f + 1 .. n
        BY <1>0, <3>3, <4>2
      <4> QED BY <4>1, <4>2
    <3> QED BY <1>0, <2>1, <2>6, <3>3, <3>4
  <2> QED BY <2>5, <2>6
<1>2. Newest(f, n, es) = [m \in QueueIds |-> Newest(f, n, es)[m]]
  BY DEF Newest
<1>3. Newest(f, n, es) \in [QueueIds -> 0 .. n]
  BY <1>1, <1>2
<1> QED BY <1>0, <1>1, <1>3 DEF MapOK

(* What was heard during a read. *)
LEMMA DuringTells ==
  ASSUME QueueIInv, NEW r \in reads, r.st = "answered", r.why = "stop", Joined(r.at, events, from, upTo) # 0
  PROVE  Tells(During(r), r.at, upTo) /\ Joined(r.at, events, from, upTo) = upTo
<1>0. /\ LogOK /\ upTo \in 0 .. Len(log) /\ from \in 0 .. upTo /\ MapOK(events, from, upTo)
      /\ r.at \in Nat /\ r.before \in [QueueIds -> Nat] /\ Len(log) \in Nat
      /\ \A m \in QueueIds : r.before[m] <= r.at
  BY LengthType DEF QueueIInv, ReadOK
<1>1. from <= r.at /\ \A m \in QueueIds : events[m] = 0 \/ events[m] > from
  BY DEF Joined
<1>2. Tells(events, r.at, upTo)
  BY <1>0, <1>1, MapTells
<1>3. Joined(r.at, events, from, upTo) = upTo
  BY <1>1 DEF Joined
<1>4. \A m \in QueueIds : During(r)[m] = IF events[m] > r.before[m] THEN events[m] ELSE 0
  BY DEF During
<1>5. During(r) \in [QueueIds -> 0 .. upTo]
  <2>1. \A m \in QueueIds : events[m] \in 0 .. upTo /\ 0 \in 0 .. upTo
    BY <1>0 DEF MapOK
  <2> QED BY <2>1 DEF During
<1>6. ASSUME NEW m \in QueueIds, NEW i \in r.at + 1 .. upTo, log[i][1] = m PROVE During(r)[m] # 0
  <2>1. i \in from + 1 .. upTo
    BY <1>0, <1>1
  <2>2. i <= events[m] /\ events[m] \in Nat
    BY <1>0, <1>6, <2>1 DEF MapOK
  <2>3. events[m] > r.before[m]
    BY <1>0, <2>2
  <2> QED BY <1>0, <1>4, <2>2, <2>3
<1>7. ASSUME NEW m \in QueueIds, During(r)[m] # 0
      PROVE  log[During(r)[m]][1] = m /\ \A i \in 1 .. upTo : log[i][1] = m => i <= During(r)[m]
  BY <1>2, <1>4, <1>7 DEF Tells
<1> QED BY <1>3, <1>5, <1>6, <1>7 DEF Tells

(* What handleCancel shows. *)
LEMMA StopAgrees ==
  ASSUME QueueIInv, NEW r \in reads, r.st = "answered", r.why = "stop"
  PROVE  /\ Joined(r.at, events, from, upTo) \in 0 .. Len(log)
         /\ Agrees(FromAnswer(r.messages, During(r)) \ removed, Joined(r.at, events, from, upTo))
<1>0. /\ LogOK /\ upTo \in 0 .. Len(log) /\ from \in 0 .. upTo /\ MapOK(events, from, upTo)
      /\ r.at \in Nat /\ Agrees(r.messages, r.at) /\ \A m \in removed : Entry(m, "gone", Len(log))
      /\ Len(log) \in Nat
  BY LengthType DEF QueueIInv, ReadOK
<1>1. CASE Joined(r.at, events, from, upTo) # 0
  BY <1>0, <1>1, DuringTells, ReconciledAgrees DEF FromAnswer
<1>2. CASE Joined(r.at, events, from, upTo) = 0
  <2>1. ASSUME NEW m \in Says(During(r), "queued") PROVE m \in Ever
    <3>1. m \in QueueIds /\ During(r)[m] # 0
      BY DEF Says
    <3>2. events[m] # 0 /\ events[m] \in 0 .. upTo
      BY <1>0, <3>1 DEF During, MapOK
    <3>3. events[m] \in 1 .. Len(log) /\ log[events[m]][1] = m
      BY <1>0, <3>1, <3>2 DEF MapOK
    <3> QED BY <1>0, <3>3 DEF LogOK
  <2>2. FromAnswer(r.messages, During(r)) \ removed \subseteq Ever
    BY <1>0, <2>1 DEF FromAnswer, Reconcile, Agrees
  <2> QED BY <1>0, <1>2, <2>2, AnyAgrees
<1> QED BY <1>1, <1>2

-----------------------------------------------------------------------------
(* What was known stays true when the log grows. *)
LEMMA Grown ==
  ASSUME QueueIInv, LogGrows
  PROVE  /\ Len(log) \in Nat /\ Len(log') \in Nat /\ Len(log) <= Len(log')
         /\ \A m : Entry(m, "gone", Len(log)) => Entry(m, "gone", Len(log))'
         /\ \A m : m \in Ever => m \in Ever'
         /\ \A messages : \A k \in 0 .. Len(log) : Agrees(messages, k) => Agrees(messages, k)'
<1>1. Len(log) \in Nat /\ Len(log') \in Nat /\ Len(log) <= Len(log')
  BY DEF QueueIInv, LogOK, LogGrows
<1>2. \A i \in 1 .. Len(log) : i \in 1 .. Len(log')
  BY <1>1
<1>3. ASSUME NEW m, NEW what, Entry(m, what, Len(log)) PROVE Entry(m, what, Len(log))'
  <2>1. PICK i \in 1 .. Len(log) : log[i][1] = m /\ log[i][2] = what
    BY <1>3 DEF Entry
  <2>2. i \in 1 .. Len(log') /\ log'[i] = log[i]
    BY <1>2 DEF LogGrows
  <2> QED BY <2>1, <2>2 DEF Entry
<1>4. \A m : m \in Ever => m \in Ever'
  BY <1>3 DEF Ever
<1>5. ASSUME NEW messages, NEW k \in 0 .. Len(log), Agrees(messages, k) PROVE Agrees(messages, k)'
  <2>1. \A m \in messages : m \in Ever' /\ ~Entry(m, "gone", k)'
    BY <1>4, <1>5 DEF Agrees, LogGrows
  <2>2. ASSUME NEW m \in waiting', Entry(m, "queued", k)' PROVE m \in messages
    <3>1. Entry(m, "queued", k)
      BY <2>2 DEF LogGrows
    <3>2. Entry(m, "queued", Len(log))
      BY <1>1, <3>1, EntryStays
    <3>3. m \in waiting
      BY <3>2 DEF LogGrows
    <3> QED BY <1>5, <3>1, <3>3 DEF Agrees
  <2> QED BY <2>1, <2>2 DEF Agrees
<1> QED BY <1>1, <1>3, <1>4, <1>5

LEMMA HeardStays ==
  ASSUME QueueIInv, LogGrows, UNCHANGED heardVars
  PROVE  (upTo \in 0 .. Len(log) /\ from \in 0 .. upTo /\ MapOK(events, from, upTo))'
<1>1. /\ upTo \in 0 .. Len(log) /\ from \in 0 .. upTo /\ MapOK(events, from, upTo)
      /\ upTo' = upTo /\ from' = from /\ events' = events
  BY DEF QueueIInv, heardVars
<1>2. Len(log) \in Nat /\ Len(log') \in Nat /\ Len(log) <= Len(log')
  BY Grown
<1>3. \A i \in 1 .. upTo : log'[i] = log[i]
  BY <1>1, <1>2 DEF LogGrows
<1>4. \A m \in QueueIds : events[m] # 0 => events[m] \in 1 .. upTo
  BY <1>1 DEF MapOK
<1>5. \A i \in from + 1 .. upTo : i \in 1 .. upTo
  BY <1>1, <1>2
<1>6. MapOK(events, from, upTo)'
  BY <1>1, <1>3, <1>4, <1>5 DEF MapOK
<1> QED BY <1>1, <1>2, <1>6

LEMMA ListStays ==
  ASSUME QueueIInv, LogGrows, UNCHANGED <<list, basis>>
  PROVE  (basis \in 0 .. Len(log) /\ Agrees(list, basis))'
<1>1. PICK l, b : l = list /\ b = basis
  OBVIOUS
<1>2. b \in 0 .. Len(log) /\ Agrees(l, b)
  BY <1>1 DEF QueueIInv
<1>3. Agrees(l, b)'
  BY <1>2, Grown
<1>4. Agrees(list, basis)'
  BY <1>1, <1>3 DEF Agrees
<1> QED BY <1>1, <1>2, <1>4, Grown

CacheOK == cache.st = "list" => cache.at \in 0 .. Len(log) /\ Agrees(cache.messages, cache.at)

LEMMA CacheStays == ASSUME QueueIInv, LogGrows, UNCHANGED cache PROVE CacheOK'
<1>1. PICK l, b : l = cache.messages /\ b = cache.at
  OBVIOUS
<1>2. SUFFICES ASSUME cache.st = "list" PROVE (cache.at \in 0 .. Len(log) /\ Agrees(cache.messages, cache.at))'
  BY DEF CacheOK
<1>3. b \in 0 .. Len(log) /\ Agrees(l, b)
  BY <1>1, <1>2 DEF QueueIInv
<1>4. Agrees(l, b)'
  BY <1>3, Grown
<1>5. l = cache'.messages /\ b = cache'.at
  BY <1>1
<1>6. Agrees(cache.messages, cache.at)'
  BY <1>4, <1>5 DEF Agrees
<1> QED BY <1>3, <1>5, <1>6, Grown

(* What is committed agrees. *)
LEMMA Committed ==
  ASSUME QueueIInv, LogGrows, NEW messages, NEW gone, NEW at \in 0 .. Len(log), Agrees(messages \ gone, at),
         CommitList(messages, gone, at)
  PROVE  (basis \in 0 .. Len(log) /\ Agrees(list, basis))' /\ CacheOK'
<1>1. PICK l : l = messages \ gone
  OBVIOUS
<1>2. list' = l /\ basis' = at /\ cache'.messages = l /\ cache'.at = at
  BY <1>1 DEF CommitList
<1>3. Agrees(l, at)'
  BY <1>1, Grown
<1>4. Agrees(list, basis)' /\ Agrees(cache.messages, cache.at)'
  BY <1>2, <1>3 DEF Agrees
<1> QED BY <1>2, <1>4, Grown DEF CacheOK

(* What becomes of the requests. *)
LEMMA ReadStays ==
  ASSUME QueueIInv, LogGrows, NEW r, ReadOK(r) PROVE ReadOK(r)'
<1>1. Len(log) \in Nat /\ Len(log') \in Nat /\ Len(log) <= Len(log')
  BY Grown
<1>2. r.at \in 0 .. Len(log') /\ r.before \in [QueueIds -> Nat] /\ IsRead(r)
  BY <1>1 DEF ReadOK
<1>3. r.why = "stop" => \A m \in QueueIds : r.before[m] <= IF r.st = "answered" THEN r.at ELSE Len(log')
  <2>1. \A m \in QueueIds : r.before[m] \in Nat
    BY <1>2
  <2> QED BY <1>1, <2>1 DEF ReadOK
<1>4. CASE r.why = "post" /\ r.mine
  <2>1. r.messages \subseteq Ever' /\ \A m \in r.messages : ~Entry(m, "gone", r.at)'
    BY <1>4, Grown DEF ReadOK, LogGrows
  <2> QED BY <1>2, <1>3, <1>4, <2>1 DEF ReadOK
<1>5. CASE ~(r.why = "post" /\ r.mine)
  <2>1. PICK l, b : l = r.messages /\ b = r.at
    OBVIOUS
  <2>2. Agrees(l, b)'
    BY <1>5, <2>1, Grown DEF ReadOK
  <2>3. Agrees(r.messages, r.at)'
    BY <2>1, <2>2 DEF Agrees
  <2> QED BY <1>2, <1>3, <1>5, <2>3 DEF ReadOK
<1> QED BY <1>4, <1>5

ReadsOK == \A r \in reads : ReadOK(r)
LEMMA ReadsStay == ASSUME QueueIInv, LogGrows, \A r \in reads' : r \in reads \/ ReadOK(r) PROVE ReadsOK'
BY ReadStays DEF QueueIInv, ReadsOK

RemovedOK ==
  /\ \A m \in removed : Entry(m, "gone", Len(log))
  /\ \A r \in removals : IsRemoval(r) /\ (r.st = "done" => Entry(r.m, "gone", Len(log)))
LEMMA RemovedStays ==
  ASSUME QueueIInv, LogGrows, \A m \in removed' : m \in removed \/ Entry(m, "gone", Len(log)),
         \A r \in removals' : \/ r \in removals
                              \/ IsRemoval(r) /\ (r.st = "done" => Entry(r.m, "gone", Len(log)))
  PROVE  RemovedOK'
BY Grown DEF QueueIInv, RemovedOK

-----------------------------------------------------------------------------
(* The invariant, by what a step touches. *)
LEMMA QueueKept ==
  ASSUME QueueIInv, LogGrows, (upTo \in 0 .. Len(log) /\ from \in 0 .. upTo /\ MapOK(events, from, upTo))',
         (basis \in 0 .. Len(log) /\ Agrees(list, basis))', CacheOK', ReadsOK', RemovedOK'
  PROVE  QueueIInv'
BY DEF LogGrows, QueueIInv, CacheOK, ReadsOK, RemovedOK

LEMMA QueueFacts ==
  ASSUME QueueIInv
  PROVE  /\ LogOK /\ Len(log) \in Nat /\ upTo \in 0 .. Len(log) /\ upTo \in Nat /\ from \in 0 .. upTo
         /\ from \in Nat /\ MapOK(events, from, upTo)
         /\ basis \in 0 .. Len(log) /\ basis \in Nat /\ Agrees(list, basis)
         /\ \A m \in removed : Entry(m, "gone", Len(log))
         /\ UNCHANGED serverVars => LogGrows
<1>1. LogOK /\ Len(log) \in Nat
  BY LengthType DEF QueueIInv
<1>2. UNCHANGED serverVars => LogGrows
  BY <1>1, LogSame DEF serverVars
<1> QED BY <1>1, <1>2 DEF QueueIInv

(* Messages are queued elsewhere, or leave. *)
LEMMA ServerStepKeeps == ASSUME QueueIInv, QueuedElsewhere \/ Launched PROVE QueueIInv'
<1>1. LogGrows
  BY QueueFacts, QueuedGrows, LeavesGrows DEF QueuedElsewhere, Launched
<1>2. UNCHANGED <<list, heardVars, basis, removed, reads, removals, cache>>
  BY DEF QueuedElsewhere, Launched
<1>3. (upTo \in 0 .. Len(log) /\ from \in 0 .. upTo /\ MapOK(events, from, upTo))'
  BY <1>1, <1>2, HeardStays
<1>4. (basis \in 0 .. Len(log) /\ Agrees(list, basis))' /\ CacheOK'
  BY <1>1, <1>2, ListStays, CacheStays
<1>5. ReadsOK' /\ RemovedOK'
  BY <1>1, <1>2, ReadsStay, RemovedStays DEF QueueIInv
<1> QED BY <1>1, <1>3, <1>4, <1>5, QueueKept

LEMMA HearKeeps == ASSUME QueueIInv, Hear PROVE QueueIInv'
<1>1. PICK n \in upTo .. Len(log), f \in 0 .. Len(log) : HearsWindow(f, n)
  BY DEF Hear
<1>2. LogGrows /\ UNCHANGED <<removed, reads, removals>> /\ n \in 0 .. Len(log) /\ f \in 0 .. n /\ upTo \in 0 .. n
  BY <1>1, QueueFacts DEF HearsWindow
<1>3. PICK es, h : es = events' /\ h = from'
  OBVIOUS
<1>4. h \in 0 .. n /\ MapOK(es, h, n) /\ upTo' = n
  <2>1. es = Newest(f, n, events) /\ h = (IF f > upTo \/ f < from THEN f ELSE from) /\ upTo' = n
    BY <1>1, <1>3 DEF HearsWindow
  <2> QED BY <1>2, <2>1, QueueFacts, NewestMap
<1>5. CommitList(Reconcile(list, es), removed, Joined(basis, es, h, n))
  BY <1>1, <1>3 DEF HearsWindow
<1>6. /\ Joined(basis, es, h, n) \in 0 .. Len(log)
      /\ Agrees(Reconcile(list, es) \ removed, Joined(basis, es, h, n))
  BY <1>2, <1>4, QueueFacts, JoinedAgrees
<1>7. (basis \in 0 .. Len(log) /\ Agrees(list, basis))' /\ CacheOK'
  BY <1>2, <1>5, <1>6, Committed
<1>8. log' = log
  BY <1>1 DEF HearsWindow, serverVars
<1>9. (upTo \in 0 .. Len(log) /\ from \in 0 .. upTo /\ MapOK(events, from, upTo))'
  BY <1>2, <1>3, <1>4, <1>8 DEF MapOK
<1>10. ReadsOK' /\ RemovedOK'
  BY <1>2, ReadsStay, RemovedStays DEF QueueIInv
<1> QED BY <1>2, <1>7, <1>9, <1>10, QueueKept

(* A request that is sent knows nothing yet. *)
LEMMA AskedOK ==
  ASSUME QueueIInv, NEW why, NEW mine, NEW before \in [QueueIds -> Nat],
         \A m \in QueueIds : before[m] <= Len(log), why # "post"
  PROVE  ReadOK(ReadAsked(why, mine, before))
<1>1. Agrees({}, 0)
  BY QueueFacts, AnyAgrees
<1> QED BY <1>1, QueueFacts DEF ReadOK, ReadAsked, IsRead

(* A request, by what it is made of. *)
LEMMA ReadFields ==
  ASSUME NEW nr, NEW why, NEW mine, NEW st, NEW messages, NEW at, NEW before,
         NEW r, r = [nr |-> nr, why |-> why, mine |-> mine, st |-> st, messages |-> messages,
                     at |-> at, before |-> before]
  PROVE  /\ r.nr = nr /\ r.why = why /\ r.mine = mine /\ r.st = st /\ r.messages = messages
         /\ r.at = at /\ r.before = before
         /\ IsRead(r)
BY DEF IsRead

LEMMA UnheardMap == ASSUME LogOK PROVE MapOK(NothingHeard, 0, 0) /\ NothingHeard \in [QueueIds -> Nat]
BY DEF MapOK, NothingHeard

LEMMA ShowKeeps == ASSUME QueueIInv, Show PROVE QueueIInv'
<1>1. PICK n \in 0 .. Len(log), f \in 0 .. Len(log) :
        /\ f <= n /\ removed' = {} /\ from' = f /\ upTo' = n /\ events' = Newest(f, n, NothingHeard)
        /\ \/ /\ cache.st = "list" /\ UNCHANGED reads
              /\ CommitList(FromAnswer(cache.messages, events'), {}, Joined(cache.at, events', f, n))
           \/ /\ CommitList(Reconcile({}, events'), {}, Joined(0, events', f, n))
              /\ reads' = reads \cup {Shared(r) : r \in {q \in reads : q.why # "post" /\ q.nr = cache.nr}}
           \/ /\ reads' = reads \cup {ReadAsked("show", TRUE, NothingHeard)}
              /\ CommitList(Reconcile({}, events'), {}, Joined(0, events', f, n))
        /\ UNCHANGED <<serverVars, removals>>
  BY DEF Show
<1>2. LogGrows /\ log' = log /\ n \in 0 .. Len(log) /\ f \in 0 .. n
  <2>1. f <= n /\ UNCHANGED serverVars
    BY <1>1
  <2> QED BY <2>1, QueueFacts DEF serverVars
<1>3. PICK es : es = events'
  OBVIOUS
<1>4. MapOK(es, f, n)
  <2>0. es = Newest(f, n, NothingHeard)
    BY <1>1, <1>3
  <2>1. es = Newest(f, n, NothingHeard) /\ n \in Nat /\ f \in Nat
    BY <2>0, QueueFacts
  <2>2. f = IF f > 0 \/ f < 0 THEN f ELSE 0
    BY <2>1
  <2>3. 0 \in 0 .. n /\ 0 \in 0 .. 0 /\ MapOK(NothingHeard, 0, 0)
    BY <2>1, QueueFacts, UnheardMap
  <2> QED BY <1>2, <2>1, <2>2, <2>3, QueueFacts, NewestMap
<1>5. (upTo \in 0 .. Len(log) /\ from \in 0 .. upTo /\ MapOK(events, from, upTo))'
  BY <1>1, <1>2, <1>3, <1>4 DEF MapOK
<1>6. \A messages, b : b \in Nat /\ Agrees(messages, b) =>
        /\ Joined(b, es, f, n) \in 0 .. Len(log)
        /\ Agrees(Reconcile(messages, es) \ {}, Joined(b, es, f, n))
  BY <1>2, <1>4, QueueFacts, JoinedAgrees
<1>7. (basis \in 0 .. Len(log) /\ Agrees(list, basis))' /\ CacheOK'
  <2>1. CASE cache.st = "list" /\ CommitList(FromAnswer(cache.messages, events'), {}, Joined(cache.at, events', f, n))
    <3>1. cache.at \in Nat /\ Agrees(cache.messages, cache.at)
      BY <2>1, QueueFacts DEF QueueIInv
    <3>2. CommitList(Reconcile(cache.messages, es), {}, Joined(cache.at, es, f, n))
      BY <1>3, <2>1 DEF FromAnswer
    <3> QED BY <1>2, <1>6, <3>1, <3>2, Committed
  <2>2. CASE CommitList(Reconcile({}, events'), {}, Joined(0, events', f, n))
    <3>1. CommitList(Reconcile({}, es), {}, Joined(0, es, f, n))
      BY <1>3, <2>2
    <3>2. Agrees({}, 0)
      BY QueueFacts, AnyAgrees
    <3> QED BY <1>2, <1>6, <3>1, <3>2, Committed
  <2> QED BY <1>1, <2>1, <2>2
<1>8. \A r \in reads' : r \in reads \/ ReadOK(r)
  <2>1. ReadOK(ReadAsked("show", TRUE, NothingHeard))
    <3>1. \A m \in QueueIds : NothingHeard[m] <= Len(log)
      BY QueueFacts DEF NothingHeard
    <3> QED BY <3>1, QueueFacts, UnheardMap, AskedOK
  <2>2. ASSUME NEW q \in reads, q.why # "post", NEW r, r = Shared(q) PROVE ReadOK(r)
    <3>1. ReadOK(q)
      BY DEF QueueIInv
    <3>2. /\ r.at = q.at /\ r.before = q.before /\ r.st = q.st /\ r.messages = q.messages /\ r.why = "show"
          /\ IsRead(r)
      <4>1. IsRead(q)
        BY <3>1 DEF ReadOK
      <4>2. PICK p : p = [q EXCEPT !.why = "show"]
        OBVIOUS
      <4>3. p = [nr |-> q.nr, why |-> "show", mine |-> q.mine, st |-> q.st, messages |-> q.messages,
                 at |-> q.at, before |-> q.before]
        BY <4>1, <4>2 DEF IsRead
      <4>4. r = [p EXCEPT !.mine = TRUE]
        BY <2>2, <4>2 DEF Shared
      <4>5. r = [nr |-> q.nr, why |-> "show", mine |-> TRUE, st |-> q.st, messages |-> q.messages,
                 at |-> q.at, before |-> q.before]
        BY <4>3, <4>4
      <4> QED BY <4>5, ReadFields
    <3> QED BY <2>2, <3>1, <3>2 DEF ReadOK
  <2> QED BY <1>1, <2>1, <2>2
<1>9. ReadsOK' /\ RemovedOK'
  <2>1. removed' = {} /\ removals' = removals
    BY <1>1
  <2> QED BY <1>2, <1>8, <2>1, ReadsStay, RemovedStays
<1> QED BY <1>2, <1>5, <1>7, <1>9, QueueKept

-----------------------------------------------------------------------------
(* What a request becomes. *)
LEMMA LeftOK ==
  ASSUME QueueIInv, NEW q \in reads, NEW r, r = Left(q) PROVE ReadOK(r)
<1>1. ReadOK(q) /\ IsRead(q)
  BY DEF QueueIInv, ReadOK
<1>2. CASE q.mine /\ q.why = "post"
  <2> DEFINE at == IF q.at < basis THEN q.at ELSE basis
  <2>1. /\ IsRead(r) /\ r.mine = FALSE /\ r.messages = q.messages \cup list /\ r.at = at
        /\ r.before = q.before /\ r.st = q.st
    BY <1>1, <1>2 DEF Left, IsRead
  <2>2. at \in 0 .. q.at /\ at \in 0 .. basis /\ q.at \in 0 .. Len(log) /\ at \in 0 .. Len(log)
    BY <1>1, QueueFacts DEF ReadOK
  <2>3. \A m \in q.messages : m \in Ever /\ ~Entry(m, "gone", at)
    <3>1. q.at \in Nat /\ at \in Nat /\ at <= q.at
      BY <2>2
    <3> HIDE DEF at
    <3> QED BY <1>1, <1>2, <3>1, EntryStays DEF ReadOK
  <2>4. Agrees(list, at)
    BY <2>2, QueueFacts, EarlierAgrees
  <2> HIDE DEF at
  <2>5. Agrees(r.messages, r.at)
    BY <2>1, <2>3, <2>4 DEF Agrees
  <2>6. r.why = "post"
    BY <1>1, <1>2 DEF Left, IsRead
  <2> QED BY <1>1, <2>1, <2>2, <2>5, <2>6 DEF ReadOK
<1>3. CASE ~(q.mine /\ q.why = "post")
  <2>1. /\ IsRead(r) /\ r.mine = FALSE /\ r.messages = q.messages /\ r.at = q.at
        /\ r.before = q.before /\ r.st = q.st /\ r.why = q.why
    BY <1>1, <1>3 DEF Left, IsRead
  <2> QED BY <1>1, <1>3, <2>1 DEF ReadOK
<1> QED BY <1>2, <1>3

(* The page is left: nothing is heard, nothing shown. *)
LEMMA HideKeeps == ASSUME QueueIInv, Hide PROVE QueueIInv'
<1>1. /\ LogGrows /\ log' = log /\ list' = {} /\ basis' = 0 /\ removed' = {} /\ UNCHANGED cache
      /\ events' = NothingHeard /\ from' = 0 /\ upTo' = 0
      /\ reads' = {Left(r) : r \in reads}
      /\ removals' = {[r EXCEPT !.mine = FALSE] : r \in removals}
  BY QueueFacts DEF Hide, serverVars
<1>2. (upTo \in 0 .. Len(log) /\ from \in 0 .. upTo /\ MapOK(events, from, upTo))'
  BY <1>1, QueueFacts DEF MapOK, NothingHeard
<1>3. (basis \in 0 .. Len(log) /\ Agrees(list, basis))'
  <2>1. PICK none : none = {}
    OBVIOUS
  <2>2. PICK start : start = 0
    OBVIOUS
  <2>3. Agrees(none, start) /\ start \in 0 .. Len(log)
    BY <2>1, <2>2, QueueFacts, AnyAgrees
  <2>4. Agrees(none, start)'
    BY <1>1, <2>3, Grown
  <2>5. list' = none /\ basis' = start
    BY <1>1, <2>1, <2>2
  <2> QED BY <1>1, <2>3, <2>4, <2>5 DEF Agrees
<1>4. CacheOK'
  BY <1>1, CacheStays
<1>5. ReadsOK'
  BY <1>1, ReadsStay, LeftOK
<1>6. RemovedOK'
  <2>1. ASSUME NEW q \in removals, NEW r, r = [q EXCEPT !.mine = FALSE]
        PROVE  IsRemoval(r) /\ (r.st = "done" => Entry(r.m, "gone", Len(log)))
    <3>1. IsRemoval(q) /\ (q.st = "done" => Entry(q.m, "gone", Len(log)))
      BY DEF QueueIInv
    <3>2. r = [m |-> q.m, st |-> q.st, mine |-> FALSE]
      BY <2>1, <3>1 DEF IsRemoval
    <3>3. r.m = q.m /\ r.st = q.st /\ r.mine = FALSE
      BY <3>2
    <3> QED BY <3>1, <3>2, <3>3 DEF IsRemoval
  <2> QED BY <1>1, <2>1, RemovedStays
<1> QED BY <1>1, <1>2, <1>3, <1>4, <1>5, <1>6, QueueKept

(* An answer is what the server has. *)
ReadServed(r) == [r EXCEPT !.st = "answered", !.messages = waiting, !.at = Len(log)]
LEMMA ServedOK == ASSUME QueueIInv, NEW q \in reads, q.st = "sent", NEW r, r = ReadServed(q) PROVE ReadOK(r)
<1>1. ReadOK(q) /\ IsRead(q)
  BY DEF QueueIInv, ReadOK
<1>2. /\ r.at = Len(log) /\ r.before = q.before /\ r.st = "answered" /\ r.messages = waiting
      /\ r.why = q.why /\ r.mine = q.mine /\ IsRead(r)
  <2>1. PICK p : p = [q EXCEPT !.st = "answered"]
    OBVIOUS
  <2>2. PICK o : o = [p EXCEPT !.messages = waiting]
    OBVIOUS
  <2>3. p = [nr |-> q.nr, why |-> q.why, mine |-> q.mine, st |-> "answered", messages |-> q.messages,
             at |-> q.at, before |-> q.before]
    BY <1>1, <2>1 DEF IsRead
  <2>4. o = [nr |-> q.nr, why |-> q.why, mine |-> q.mine, st |-> "answered", messages |-> waiting,
             at |-> q.at, before |-> q.before]
    BY <2>2, <2>3
  <2>5. r = [o EXCEPT !.at = Len(log)]
    BY <2>1, <2>2 DEF ReadServed
  <2>6. r = [nr |-> q.nr, why |-> q.why, mine |-> q.mine, st |-> "answered", messages |-> waiting,
             at |-> Len(log), before |-> q.before]
    BY <2>4, <2>5
  <2> QED BY <2>6, ReadFields
<1>3. Agrees(waiting, Len(log))
  BY QueueFacts, WaitingFacts DEF Agrees
<1>4. waiting \subseteq Ever /\ \A m \in waiting : ~Entry(m, "gone", Len(log))
  BY <1>3 DEF Agrees
<1>5. Len(log) \in 0 .. Len(log)
  BY QueueFacts
<1> QED BY <1>1, <1>2, <1>3, <1>4, <1>5 DEF ReadOK

LEMMA ServeKeeps == ASSUME QueueIInv, NEW r \in reads, Serve(r) PROVE QueueIInv'
<1>1. /\ LogGrows /\ UNCHANGED <<heardVars, list, basis, removed, removals, cache>>
      /\ \A q \in reads' : q \in reads \/ \E p \in reads : p.st = "sent" /\ q = ReadServed(p)
  BY QueueFacts DEF Serve, ReadServed
<1>2. (upTo \in 0 .. Len(log) /\ from \in 0 .. upTo /\ MapOK(events, from, upTo))'
  BY <1>1, HeardStays
<1>3. (basis \in 0 .. Len(log) /\ Agrees(list, basis))' /\ CacheOK'
  BY <1>1, ListStays, CacheStays
<1>4. ReadsOK' /\ RemovedOK'
  BY <1>1, ServedOK, ReadsStay, RemovedStays DEF QueueIInv
<1> QED BY <1>1, <1>2, <1>3, <1>4, QueueKept

LEMMA FailKeeps == ASSUME QueueIInv, NEW r \in reads, Fail(r) PROVE QueueIInv'
<1>1. /\ LogGrows /\ UNCHANGED <<heardVars, list, basis, removed, removals>> /\ cache' = NoList
      /\ reads' \subseteq reads
  BY QueueFacts DEF Fail
<1>2. (upTo \in 0 .. Len(log) /\ from \in 0 .. upTo /\ MapOK(events, from, upTo))'
  BY <1>1, HeardStays
<1>3. (basis \in 0 .. Len(log) /\ Agrees(list, basis))' /\ CacheOK'
  BY <1>1, ListStays DEF CacheOK, NoList
<1>4. ReadsOK' /\ RemovedOK'
  BY <1>1, ReadsStay, RemovedStays DEF QueueIInv
<1> QED BY <1>1, <1>2, <1>3, <1>4, QueueKept

-----------------------------------------------------------------------------
(* What an answer leaves in the cache. *)
LEMMA CachedOK ==
  ASSUME QueueIInv, LogGrows, NEW messages, NEW at \in 0 .. Len(log), Agrees(messages, at),
         cache' = [st |-> "list", nr |-> 0, messages |-> messages, at |-> at]
  PROVE  CacheOK'
<1>1. Agrees(messages, at)'
  BY Grown
<1>2. cache'.messages = messages /\ cache'.at = at
  OBVIOUS
<1>3. Agrees(cache.messages, cache.at)'
  BY <1>1, <1>2 DEF Agrees
<1> QED BY <1>2, <1>3, Grown DEF CacheOK

LEMMA OnlyCachedKeeps ==
  ASSUME QueueIInv, LogGrows, NEW r, r.at \in 0 .. Len(log), Agrees(r.messages, r.at), OnlyCached(r)
  PROVE  (basis \in 0 .. Len(log) /\ Agrees(list, basis))' /\ CacheOK'
<1>1. (basis \in 0 .. Len(log) /\ Agrees(list, basis))'
  BY ListStays DEF OnlyCached
<1>2. PICK messages, at : messages = r.messages /\ at = r.at
  OBVIOUS
<1>3. UNCHANGED cache \/ cache' = [st |-> "list", nr |-> 0, messages |-> messages, at |-> at]
  BY <1>2 DEF OnlyCached
<1> QED BY <1>1, <1>2, <1>3, CacheStays, CachedOK

(* What an answer is when it comes. *)
LEMMA AnswerFacts ==
  ASSUME QueueIInv, NEW r \in reads, r.why # "post"
  PROVE  r.at \in 0 .. Len(log) /\ r.at \in Nat /\ Agrees(r.messages, r.at)
BY QueueFacts DEF QueueIInv, ReadOK

LEMMA AnsweredKeeps ==
  ASSUME QueueIInv, NEW r \in reads, ReadAnswered(r), RemovedOK',
         (basis \in 0 .. Len(log) /\ Agrees(list, basis))', CacheOK'
  PROVE  QueueIInv'
<1>1. LogGrows /\ UNCHANGED heardVars /\ reads' \subseteq reads
  BY QueueFacts DEF ReadAnswered
<1>2. (upTo \in 0 .. Len(log) /\ from \in 0 .. upTo /\ MapOK(events, from, upTo))'
  BY <1>1, HeardStays
<1> QED BY <1>1, <1>2, ReadsStay, QueueKept

LEMMA ShowAnswerKeeps == ASSUME QueueIInv, NEW r \in reads, ShowAnswer(r) PROVE QueueIInv'
<1>1. LogGrows /\ UNCHANGED <<removed, removals>> /\ ReadAnswered(r) /\ r.why # "post"
  BY QueueFacts DEF ShowAnswer, ReadAnswered
<1>2. (basis \in 0 .. Len(log) /\ Agrees(list, basis))' /\ CacheOK'
  <2>1. CASE CommitList(FromAnswer(r.messages, events), removed, Joined(r.at, events, from, upTo))
    <3>1. /\ Joined(r.at, events, from, upTo) \in 0 .. Len(log)
          /\ Agrees(FromAnswer(r.messages, events) \ removed, Joined(r.at, events, from, upTo))
      BY <1>1, AnswerFacts, QueueFacts, JoinedAgrees DEF FromAnswer
    <3> QED BY <1>1, <2>1, <3>1, Committed
  <2>2. CASE OnlyCached(r)
    BY <1>1, <2>2, AnswerFacts, OnlyCachedKeeps
  <2> QED BY <2>1, <2>2 DEF ShowAnswer
<1>3. RemovedOK'
  BY <1>1, RemovedStays DEF QueueIInv
<1> QED BY <1>1, <1>2, <1>3, AnsweredKeeps

LEMMA StopAnswerKeeps == ASSUME QueueIInv, NEW r \in reads, StopAnswer(r) PROVE QueueIInv'
<1>1. /\ LogGrows /\ UNCHANGED removed /\ ReadAnswered(r) /\ r.why = "stop" /\ r.st = "answered"
      /\ \A q \in removals' : q \in removals \/ \E m \in QueueIds \cup list' : q = Removing(m)
  BY QueueFacts DEF StopAnswer, ReadAnswered
<1>2. (basis \in 0 .. Len(log) /\ Agrees(list, basis))' /\ CacheOK'
  <2>1. CASE CommitList(FromAnswer(r.messages, During(r)), removed, Joined(r.at, events, from, upTo))
    <3>1. /\ Joined(r.at, events, from, upTo) \in 0 .. Len(log)
          /\ Agrees(FromAnswer(r.messages, During(r)) \ removed, Joined(r.at, events, from, upTo))
      BY <1>1, StopAgrees
    <3> QED BY <1>1, <2>1, <3>1, Committed
  <2>2. CASE OnlyCached(r)
    BY <1>1, <2>2, AnswerFacts, OnlyCachedKeeps
  <2> QED BY <2>1, <2>2 DEF StopAnswer
<1>3. RemovedOK'
  <2>1. \A m : IsRemoval(Removing(m)) /\ Removing(m).st # "done"
    BY DEF IsRemoval, Removing
  <2> QED BY <1>1, <2>1, RemovedStays DEF QueueIInv
<1> QED BY <1>1, <1>2, <1>3, AnsweredKeeps

LEMMA EnqueueAnswerKeeps == ASSUME QueueIInv, NEW r \in reads, EnqueueAnswer(r) PROVE QueueIInv'
<1>1. LogGrows /\ UNCHANGED <<removed, removals>> /\ ReadAnswered(r) /\ r.why # "post"
  BY QueueFacts DEF EnqueueAnswer, ReadAnswered
<1>2. PICK messages, at : messages = r.messages /\ at = r.at
  OBVIOUS
<1>3. at \in 0 .. Len(log) /\ Agrees(messages, at)
  BY <1>1, <1>2, AnswerFacts
<1>4. (basis \in 0 .. Len(log) /\ Agrees(list, basis))' /\ CacheOK'
  <2>1. CASE CommitList(messages, removed, at)
    <3>1. Agrees(messages \ removed, at)
      BY <1>3, QueueFacts, WithoutAgrees
    <3> QED BY <1>1, <1>3, <2>1, <3>1, Committed
  <2>2. CASE OnlyCached(r)
    BY <1>1, <2>2, AnswerFacts, OnlyCachedKeeps
  <2>3. CASE /\ cache' = [st |-> "list", nr |-> 0, messages |-> messages, at |-> at]
             /\ UNCHANGED <<list, basis>>
    BY <1>1, <1>3, <2>3, CachedOK, ListStays
  <2> QED BY <1>2, <2>1, <2>2, <2>3 DEF EnqueueAnswer
<1>5. RemovedOK'
  BY <1>1, RemovedStays DEF QueueIInv
<1> QED BY <1>1, <1>4, <1>5, AnsweredKeeps

-----------------------------------------------------------------------------
(* A message is queued from here: it waits, so it is not gone. *)
LEMMA EnqueueKeeps == ASSUME QueueIInv, Enqueue PROVE QueueIInv'
<1>1. /\ Queued(NextMessage) /\ NextMessage \in QueueIds
      /\ UNCHANGED <<list, heardVars, basis, removed, removals, cache>>
      /\ reads' = reads \cup {[nr |-> 0, why |-> "post", mine |-> TRUE, st |-> "answered",
                               messages |-> {NextMessage}, at |-> Len(log) + 1, before |-> NothingHeard]}
  BY DEF Enqueue
<1>2. LogGrows
  BY <1>1, QueueFacts, QueuedGrows
<1>3. PICK m : m = NextMessage
  OBVIOUS
<1>4. PICK at : at = Len(log) + 1
  OBVIOUS
<1>5. at = Len(log') /\ at \in 0 .. Len(log') /\ m \in waiting' /\ LogOK'
  BY <1>1, <1>2, <1>3, <1>4, QueueFacts, AppendFacts DEF Queued, LogGrows
<1>6. m \in Ever' /\ ~Entry(m, "gone", at)'
  <2>1. LogOK' => (m \in waiting' => m \in Ever' /\ ~Entry(m, "gone", Len(log))')
    BY DEF LogOK, WaitingAt, Ever
  <2> QED BY <1>5, <2>1 DEF Entry
<1>7. ASSUME NEW r, r = [nr |-> 0, why |-> "post", mine |-> TRUE, st |-> "answered",
                         messages |-> {m}, at |-> at, before |-> NothingHeard]
      PROVE  ReadOK(r)'
  <2>1. /\ r.why = "post" /\ r.mine = TRUE /\ r.messages = {m} /\ r.at = at /\ r.before = NothingHeard
        /\ IsRead(r)
    BY <1>7, ReadFields
  <2>2. NothingHeard \in [QueueIds -> Nat]
    BY DEF NothingHeard
  <2>3. ~Entry(m, "gone", r.at)'
    BY <1>6, <2>1 DEF Entry
  <2> QED BY <1>5, <1>6, <2>1, <2>2, <2>3 DEF ReadOK
<1>8. ReadsOK'
  BY <1>1, <1>2, <1>3, <1>4, <1>7, ReadStays DEF QueueIInv, ReadsOK
<1>9. (upTo \in 0 .. Len(log) /\ from \in 0 .. upTo /\ MapOK(events, from, upTo))'
  BY <1>1, <1>2, HeardStays
<1>10. (basis \in 0 .. Len(log) /\ Agrees(list, basis))' /\ CacheOK' /\ RemovedOK'
  BY <1>1, <1>2, ListStays, CacheStays, RemovedStays DEF QueueIInv
<1> QED BY <1>2, <1>8, <1>9, <1>10, QueueKept

LEMMA PostAnswerKeeps == ASSUME QueueIInv, NEW r \in reads, PostAnswer(r) PROVE QueueIInv'
<1>1. LogGrows /\ UNCHANGED <<heardVars, removed, removals>> /\ reads' \subseteq reads /\ r.why = "post"
  BY QueueFacts DEF PostAnswer
<1>2. ReadOK(r)
  BY DEF QueueIInv
<1>3. (basis \in 0 .. Len(log) /\ Agrees(list, basis))' /\ CacheOK'
  <2>1. CASE r.mine /\ CommitList(list \cup r.messages, removed, IF r.at < basis THEN r.at ELSE basis)
    <3>1. PICK at : at = IF r.at < basis THEN r.at ELSE basis
      OBVIOUS
    <3>2. /\ r.at \in Nat /\ at \in 0 .. basis /\ at \in 0 .. Len(log) /\ at \in Nat /\ at <= r.at
      BY <1>2, <3>1, QueueFacts DEF ReadOK
    <3>3. Agrees(list, at)
      BY <3>2, QueueFacts, EarlierAgrees
    <3>4. \A m \in r.messages : m \in Ever /\ ~Entry(m, "gone", at)
      BY <1>1, <1>2, <2>1, <3>2, EntryStays DEF ReadOK
    <3>5. Agrees(list \cup r.messages, at)
      BY <3>3, <3>4 DEF Agrees
    <3>6. Agrees((list \cup r.messages) \ removed, at)
      BY <3>2, <3>5, QueueFacts, WithoutAgrees
    <3> QED BY <1>1, <2>1, <3>1, <3>2, <3>6, Committed
  <2>2. CASE /\ ~r.mine /\ cache' = [st |-> "list", nr |-> 0, messages |-> r.messages, at |-> r.at]
             /\ UNCHANGED <<list, basis>>
    <3>1. PICK messages, at : messages = r.messages /\ at = r.at
      OBVIOUS
    <3>2. at \in 0 .. Len(log) /\ Agrees(messages, at)
      BY <1>2, <2>2, <3>1 DEF ReadOK
    <3> QED BY <1>1, <2>2, <3>1, <3>2, CachedOK, ListStays
  <2>3. CASE UNCHANGED <<list, basis, cache>>
    BY <1>1, <2>3, ListStays, CacheStays
  <2> QED BY <2>1, <2>2, <2>3 DEF PostAnswer
<1>4. (upTo \in 0 .. Len(log) /\ from \in 0 .. upTo /\ MapOK(events, from, upTo))'
  BY <1>1, HeardStays
<1>5. ReadsOK' /\ RemovedOK'
  BY <1>1, ReadsStay, RemovedStays DEF QueueIInv
<1> QED BY <1>1, <1>3, <1>4, <1>5, QueueKept

(* A request for the list is sent. *)
LEMMA AskedKeeps ==
  ASSUME QueueIInv, UNCHANGED <<serverVars, list, heardVars, basis, removed, removals>>, cache'.st # "list",
         \A q \in reads' : q \in reads \/ ReadOK(q)
  PROVE  QueueIInv'
<1>1. LogGrows
  BY QueueFacts
<1>2. (upTo \in 0 .. Len(log) /\ from \in 0 .. upTo /\ MapOK(events, from, upTo))'
  BY <1>1, HeardStays
<1>3. (basis \in 0 .. Len(log) /\ Agrees(list, basis))' /\ CacheOK'
  BY <1>1, ListStays DEF CacheOK
<1>4. ReadsOK' /\ RemovedOK'
  BY <1>1, ReadsStay, RemovedStays DEF QueueIInv
<1> QED BY <1>1, <1>2, <1>3, <1>4, QueueKept

LEMMA ReadAfterPostKeeps == ASSUME QueueIInv, NEW r \in reads, ReadAfterPost(r) PROVE QueueIInv'
<1>1. \A m \in QueueIds : NothingHeard[m] <= Len(log)
  BY QueueFacts DEF NothingHeard
<1>2. ReadOK(ReadAsked("enqueue", r.mine, NothingHeard))
  BY <1>1, QueueFacts, UnheardMap, AskedOK
<1> QED BY <1>2, AskedKeeps DEF ReadAfterPost

LEMMA ReadAfterStopKeeps == ASSUME QueueIInv, ReadAfterStop PROVE QueueIInv'
<1>1. events \in [QueueIds -> Nat] /\ \A m \in QueueIds : events[m] <= Len(log)
  <2>1. events \in [QueueIds -> 0 .. upTo] /\ \A n \in 0 .. upTo : n \in Nat /\ n <= Len(log)
    BY QueueFacts DEF MapOK
  <2> QED BY <2>1
<1>2. ReadOK(ReadAsked("stop", TRUE, events))
  BY <1>1, AskedOK
<1> QED BY <1>2, AskedKeeps DEF ReadAfterStop

-----------------------------------------------------------------------------
(* A message is taken back. *)
LEMMA RemoveKeeps == ASSUME QueueIInv, NEW m, Remove(m) PROVE QueueIInv'
<1>1. LogGrows /\ UNCHANGED <<list, heardVars, basis, removed, reads, cache>>
  BY QueueFacts DEF Remove
<1>2. (upTo \in 0 .. Len(log) /\ from \in 0 .. upTo /\ MapOK(events, from, upTo))'
  BY <1>1, HeardStays
<1>3. (basis \in 0 .. Len(log) /\ Agrees(list, basis))' /\ CacheOK' /\ ReadsOK'
  BY <1>1, ListStays, CacheStays, ReadsStay
<1>4. IsRemoval(Removing(m)) /\ Removing(m).st # "done"
  BY DEF IsRemoval, Removing
<1>5. RemovedOK'
  BY <1>1, <1>4, RemovedStays DEF Remove, QueueIInv
<1> QED BY <1>1, <1>2, <1>3, <1>5, QueueKept

(* What has left the queue is gone. *)
LEMMA LeftIsGone == ASSUME LogOK, NEW m, Leaves(m) PROVE Entry(m, "gone", Len(log))'
<1>1. m \in QueueIds
  BY DEF Leaves, LogOK, WaitingAt
<1> QED BY <1>1, AppendFacts DEF Leaves

LEMMA ServeRemovalKeeps == ASSUME QueueIInv, NEW r \in removals, ServeRemoval(r) PROVE QueueIInv'
<1>1. UNCHANGED <<list, heardVars, basis, removed, reads, cache>>
  BY DEF ServeRemoval
<1>2. LogGrows
  BY QueueFacts, LeavesGrows DEF ServeRemoval
<1>3. (upTo \in 0 .. Len(log) /\ from \in 0 .. upTo /\ MapOK(events, from, upTo))'
  BY <1>1, <1>2, HeardStays
<1>4. (basis \in 0 .. Len(log) /\ Agrees(list, basis))' /\ CacheOK' /\ ReadsOK'
  BY <1>1, <1>2, ListStays, CacheStays, ReadsStay
<1>5. ASSUME NEW st \in {"done", "failed"}, NEW q, q = [r EXCEPT !.st = st],
             st = "done" => Entry(r.m, "gone", Len(log))'
      PROVE  IsRemoval(q) /\ (q.st = "done" => Entry(q.m, "gone", Len(log))')
  <2>1. IsRemoval(r)
    BY DEF QueueIInv
  <2>2. q = [m |-> r.m, st |-> st, mine |-> r.mine]
    BY <1>5, <2>1 DEF IsRemoval
  <2>3. q.m = r.m /\ q.st = st /\ q.mine = r.mine
    BY <2>2
  <2> QED BY <1>5, <2>2, <2>3 DEF IsRemoval
<1>6. \A q \in removals' : q \in removals \/ (IsRemoval(q) /\ (q.st = "done" => Entry(q.m, "gone", Len(log))'))
  <2>1. CASE Leaves(r.m) /\ removals' = (removals \ {r}) \cup {[r EXCEPT !.st = "done"]}
    <3>1. Entry(r.m, "gone", Len(log))'
      <4>1. PICK m : m = r.m
        OBVIOUS
      <4>2. Entry(m, "gone", Len(log))'
        BY <2>1, <4>1, QueueFacts, LeftIsGone
      <4> QED BY <4>1, <4>2
    <3> QED BY <1>5, <2>1, <3>1
  <2>2. CASE removals' = (removals \ {r}) \cup {[r EXCEPT !.st = "failed"]}
    BY <1>5, <2>2
  <2> QED BY <2>1, <2>2 DEF ServeRemoval
<1>7. RemovedOK'
  BY <1>1, <1>2, <1>6, Grown DEF QueueIInv, RemovedOK, IsRemoval
<1> QED BY <1>2, <1>3, <1>4, <1>7, QueueKept

LEMMA RemovalAnswerKeeps == ASSUME QueueIInv, NEW r \in removals, RemovalAnswer(r) PROVE QueueIInv'
<1>1. LogGrows /\ UNCHANGED <<heardVars, reads>> /\ removals' \subseteq removals
  BY QueueFacts DEF RemovalAnswer
<1>2. (upTo \in 0 .. Len(log) /\ from \in 0 .. upTo /\ MapOK(events, from, upTo))' /\ ReadsOK'
  BY <1>1, HeardStays, ReadsStay
<1>3. CASE r.st = "done" /\ removed' = removed \cup {r.m} /\ CommitList(list, removed', basis)
  <2>1. PICK gone : gone = removed'
    OBVIOUS
  <2>2. \A m \in gone : Entry(m, "gone", Len(log))
    BY <1>3, <2>1 DEF QueueIInv
  <2>3. Agrees(list \ gone, basis) /\ CommitList(list, gone, basis)
    BY <1>3, <2>1, <2>2, QueueFacts, WithoutAgrees
  <2>4. (basis \in 0 .. Len(log) /\ Agrees(list, basis))' /\ CacheOK'
    BY <1>1, <2>3, QueueFacts, Committed
  <2>5. RemovedOK'
    BY <1>1, <2>1, <2>2, RemovedStays DEF QueueIInv
  <2> QED BY <1>1, <1>2, <2>4, <2>5, QueueKept
<1>4. CASE cache' = NoList /\ UNCHANGED <<list, basis, removed>>
  <2>1. (basis \in 0 .. Len(log) /\ Agrees(list, basis))' /\ CacheOK'
    BY <1>1, <1>4, ListStays DEF CacheOK, NoList
  <2>2. RemovedOK'
    BY <1>1, <1>4, RemovedStays DEF QueueIInv
  <2> QED BY <1>1, <1>2, <2>1, <2>2, QueueKept
<1> QED BY <1>3, <1>4 DEF RemovalAnswer

-----------------------------------------------------------------------------
LEMMA QueueStarts == QueueInit => QueueIInv
<1> SUFFICES ASSUME QueueInit PROVE QueueIInv
  OBVIOUS
<1>1. /\ waiting = {} /\ log = <<>> /\ list = {} /\ events = NothingHeard /\ from = 0 /\ upTo = 0 /\ basis = 0
      /\ removed = {} /\ reads = {} /\ removals = {} /\ cache.st = "none"
  BY DEF QueueInit, NoList
<1>2. Len(log) = 0 /\ log \in Seq(QueueIds \X {"queued", "gone"})
  BY <1>1
<1>3. \A m, what, n : ~Entry(m, what, n)
  BY <1>2 DEF Entry
<1>4. LogOK
  BY <1>1, <1>2, <1>3 DEF LogOK, Ever, WaitingAt
<1>5. MapOK(events, from, upTo) /\ Agrees(list, basis)
  BY <1>1, <1>2 DEF MapOK, NothingHeard, Agrees
<1> QED BY <1>1, <1>2, <1>4, <1>5 DEF QueueIInv

LEMMA QueueStutters == ASSUME QueueIInv, UNCHANGED queueVars PROVE QueueIInv'
<1>1. LogGrows /\ UNCHANGED <<list, heardVars, basis, removed, reads, removals, cache>>
  BY QueueFacts DEF queueVars, serverVars, heardVars
<1>2. (upTo \in 0 .. Len(log) /\ from \in 0 .. upTo /\ MapOK(events, from, upTo))'
  BY <1>1, HeardStays
<1>3. (basis \in 0 .. Len(log) /\ Agrees(list, basis))' /\ CacheOK' /\ ReadsOK'
  BY <1>1, ListStays, CacheStays, ReadsStay
<1>4. RemovedOK'
  BY <1>1, RemovedStays DEF QueueIInv
<1> QED BY <1>1, <1>2, <1>3, <1>4, QueueKept

LEMMA QueueSteps == QueueIInv /\ [QueueNext]_queueVars => QueueIInv'
<1> SUFFICES ASSUME QueueIInv, [QueueNext]_queueVars PROVE QueueIInv'
  OBVIOUS
<1>1. CASE QueuedElsewhere \/ Launched \/ Hear \/ Show \/ Hide \/ Enqueue \/ ReadAfterStop
  BY <1>1, ServerStepKeeps, HearKeeps, ShowKeeps, HideKeeps, EnqueueKeeps, ReadAfterStopKeeps
<1>2. CASE \E m \in QueueIds : Remove(m)
  BY <1>2, RemoveKeeps
<1>3. CASE \E r \in reads : Serve(r) \/ Fail(r) \/ ShowAnswer(r) \/ StopAnswer(r) \/ EnqueueAnswer(r)
                            \/ PostAnswer(r) \/ ReadAfterPost(r)
  BY <1>3, ServeKeeps, FailKeeps, ShowAnswerKeeps, StopAnswerKeeps, EnqueueAnswerKeeps, PostAnswerKeeps,
     ReadAfterPostKeeps
<1>4. CASE \E r \in removals : ServeRemoval(r) \/ RemovalAnswer(r)
  BY <1>4, ServeRemovalKeeps, RemovalAnswerKeeps
<1>5. CASE UNCHANGED queueVars
  BY <1>5, QueueStutters
<1> QED BY <1>1, <1>2, <1>3, <1>4, <1>5 DEF QueueNext

(* A list that is right as of the last event is the queue. *)
LEMMA QueueInvSays == QueueIInv => ListIsQueue
<1> SUFFICES ASSUME QueueIInv, mounted, upTo = Len(log), ~Overlooked, ~Unreconciled PROVE list = waiting
  BY DEF ListIsQueue
<1>1. basis = Len(log)
  <2>1. ~(basis < from) /\ ~(from <= basis /\ basis < upTo)
    BY DEF Overlooked, Unreconciled
  <2> QED BY <2>1, QueueFacts
<1>2. Agrees(list, Len(log)) /\ waiting = WaitingAt(Len(log))
  BY <1>1, QueueFacts DEF LogOK
<1> QED BY <1>2 DEF Agrees, WaitingAt, Ever

(* Once the page has heard everything, the list above the prompt is the server's
   queue: prompt-composer.tsx's reconciliation of the answers of fetchQueuedMessages
   with the events of its window. *)
THEOREM ListIsTheQueue == QueueSpec => []ListIsQueue
<1>1. QueueSpec => []QueueIInv
  BY QueueStarts, QueueSteps, PTL DEF QueueSpec
<1> QED BY <1>1, QueueInvSays, PTL

-----------------------------------------------------------------------------
(* A panel that is at rest shows the schedule and its runs as they are: for any
   number of changes, of presses and of loads at once.

   What a load has read is what the server has until something changes, which
   makes it old (Fresh).  So what the list shows is right if what came last was
   not old when it came, or else something has changed since: then the number of
   events at hand has yet to change, or a load that has not listed yet is under way
   (ListComes), and the same holds of the runs (RunsCome). *)
Entries == [text : Nat, enabled : BOOLEAN]
RunStates == {"none", "queued", "running", "completed", "cancelled"}
Loads == [for : {"mount", "event", "save", "perform"}, n : Int, stage : {"list", "history"},
          read : BOOLEAN, list : Entries, runs : RunStates, old : BOOLEAN]
Presses == [by : {"save", "perform"}, what : {"create", "update", "delete", "run", "cancel"},
          input : Entries]

PanelTypeOK ==
  /\ schedule \in Entries /\ run \in RunStates
  /\ changes \in Nat /\ counted \in Nat /\ counted <= changes
  /\ schedules \in Entries /\ occurrences \in RunStates /\ editing \in Nat
  /\ loads \subseteq Loads /\ newest \in [list : BOOLEAN, history : BOOLEAN]
  /\ press = NoPress \/ press \in Presses

Fresh(l) ==
  ~l.old /\ l.read =>
    IF l.stage = "list" THEN l.list = schedule ELSE l.runs = run

Listing == \E l \in loads : l.stage = "list"
ListComes == newest.list => schedules = schedule \/ Uncounted \/ Listing
RunsCome ==
  newest.list /\ newest.history /\ schedule # Gone => occurrences = run \/ Uncounted \/ loads # {}

PanelIInv == PanelTypeOK /\ (\A l \in loads : Fresh(l)) /\ ListComes /\ RunsCome

LEMMA Ages ==
  ASSUME PanelTypeOK
  PROVE  /\ Aged \subseteq Loads
         /\ \A l \in Aged : l.old \/ (l.stage = "list" /\ ~l.read)
         /\ Listing => \E l \in Aged : l.stage = "list"
<1> DEFINE A(l) == IF l.stage = "list" /\ ~l.read THEN l ELSE [l EXCEPT !.old = TRUE]
<1>1. ASSUME NEW l \in loads
      PROVE  /\ A(l) \in Loads /\ A(l) \in Aged
             /\ A(l).old \/ (A(l).stage = "list" /\ ~A(l).read)
             /\ A(l).stage = l.stage
  <2>1. l \in Loads
    BY DEF PanelTypeOK
  <2>2. A(l) \in Aged
    BY DEF Aged
  <2>3. CASE l.stage = "list" /\ ~l.read
    BY <2>1, <2>2, <2>3
  <2>4. CASE ~(l.stage = "list" /\ ~l.read)
    <3>1. A(l) = [l EXCEPT !.old = TRUE]
      BY <2>4
    <3> QED BY <2>1, <2>2, <3>1 DEF Loads
  <2> QED BY <2>3, <2>4
<1>2. Aged = {A(l) : l \in loads}
  BY DEF Aged
<1> QED BY <1>1, <1>2 DEF Listing

(* A change ages the loads and is still to be heard of. *)
LEMMA ScheduleChanged ==
  ASSUME PanelIInv, schedule' \in Entries, run' \in RunStates, changes' = changes + 1,
         \/ loads' = Aged /\ counted' = counted
         \/ /\ \E l \in Loads : loads' = Aged \cup {l} /\ ~l.read /\ l.stage = "list"
            /\ counted' = changes',
         UNCHANGED <<shown, newest>>,
         editing' \in Nat, press' = NoPress \/ press' \in Presses
  PROVE  PanelIInv'
<1>1. PanelTypeOK'
  BY Ages DEF PanelIInv, PanelTypeOK, shown
<1>2. (\A l \in loads : Fresh(l))'
  BY Ages DEF PanelIInv, Fresh
<1>3. Uncounted' \/ (Listing' /\ loads' # {})
  BY DEF PanelIInv, PanelTypeOK, Uncounted, Listing
<1> QED BY <1>1, <1>2, <1>3 DEF PanelIInv, ListComes, RunsCome

(* What the loads and the shown lists have nothing to do with. *)
LEMMA Aside ==
  ASSUME PanelIInv, UNCHANGED <<schedulerVars, heardOf, shown, loads, newest>>,
         editing' \in Nat, press' = NoPress \/ press' \in Presses
  PROVE  PanelIInv'
BY DEF PanelIInv, PanelTypeOK, Fresh, ListComes, RunsCome, Uncounted, Listing, schedulerVars, heardOf,
       shown

LEMMA Effects ==
  ASSUME PanelTypeOK, press # NoPress, Effect(press)
  PROVE  schedule' \in Entries /\ run' \in RunStates /\ changes' = changes + 1
<1>1. Gone \in Entries
  BY DEF Gone, Entries
<1>2. press \in Presses
  BY DEF PanelTypeOK
<1> QED BY <1>1, <1>2 DEF PanelTypeOK, Presses, Effect, ChangeSchedule, ChangeRun, RunStates

LEMMA New ==
  ASSUME PanelTypeOK, NEW for \in {"mount", "event", "save", "perform"}
  PROVE  /\ LoadFor(for) \in Loads /\ LoadFor(for).stage = "list"
         /\ ~LoadFor(for).read /\ ~LoadFor(for).old
BY DEF PanelTypeOK, LoadFor, Loads, Gone, Entries, RunStates

LEMMA ServerActs ==
  ASSUME PanelIInv, Elsewhere \/ RunStep
  PROVE  PanelIInv'
<1>1. /\ loads' = Aged /\ UNCHANGED <<counted, shown, editing, press, newest>>
  BY DEF Elsewhere, RunStep, ServerStep, heardOf
<1>2. schedule' \in Entries /\ run' \in RunStates /\ changes' = changes + 1
  <2>1. schedule \in Entries /\ run \in RunStates
    BY DEF PanelIInv, PanelTypeOK
  <2>2. Gone \in Entries /\ [schedule EXCEPT !.text = @ + 1] \in Entries
    BY <2>1 DEF Gone, Entries
  <2>3. CASE Elsewhere
    BY <2>1, <2>2, <2>3 DEF Elsewhere, ChangeSchedule
  <2>4. CASE RunStep
    BY <2>1, <2>4 DEF RunStep, ChangeRun, RunStates
  <2> QED BY <2>3, <2>4
<1> QED BY <1>1, <1>2, ScheduleChanged DEF PanelIInv, PanelTypeOK

LEMMA UserActs ==
  ASSUME PanelIInv, NewOrEdit \/ CancelEditing \/ SaveSchedule \/ Perform
  PROVE  PanelIInv'
<1>1. UNCHANGED <<schedulerVars, heardOf, shown, loads, newest>>
  BY DEF NewOrEdit, CancelEditing, SaveSchedule, Perform, Ask
<1>2. editing' \in Nat
  BY DEF PanelIInv, PanelTypeOK, NewOrEdit, CancelEditing, SaveSchedule, Perform, Ask,
         Entries, NotEditing
<1>3. press' = NoPress \/ press' \in Presses
  <2>1. /\ editing \in Nat /\ schedules \in Entries /\ Gone \in Entries
        /\ press = NoPress \/ press \in Presses
    BY DEF PanelIInv, PanelTypeOK, Gone, Entries
  <2>2. [schedules EXCEPT !.enabled = ~@] \in Entries
    BY <2>1 DEF Entries
  <2>3. CASE SaveSchedule
    <3>1. PICK enabled \in BOOLEAN, what \in {"create", "update"} :
            press' = [by |-> "save", what |-> what,
                       input |-> [text |-> editing, enabled |-> enabled]]
      BY <2>3 DEF SaveSchedule, Ask
    <3> QED BY <2>1, <3>1 DEF Presses, Entries
  <2>4. CASE Perform
    <3>1. PICK what \in {"update", "run", "delete", "cancel"}, input \in Entries :
            press' = [by |-> "perform", what |-> what, input |-> input]
      BY <2>1, <2>2, <2>4 DEF Perform, Ask
    <3> QED BY <3>1 DEF Presses
  <2>5. CASE NewOrEdit \/ CancelEditing
    BY <2>1, <2>5 DEF NewOrEdit, CancelEditing
  <2> QED BY <2>3, <2>4, <2>5
<1> QED BY <1>1, <1>2, <1>3, Aside

LEMMA Outcomes ==
  ASSUME PanelIInv, Done \/ Undone
  PROVE  PanelIInv'
<1>1. editing' \in Nat /\ press' = NoPress /\ press # NoPress
  BY DEF PanelIInv, PanelTypeOK, Done, Undone, NotEditing
<1>2. UNCHANGED <<shown, newest>>
  BY DEF Done, Undone
<1>3. CASE Effect(press) /\ ((loads' = Aged /\ UNCHANGED heardOf) \/ Done)
  <2>1. press.by \in {"save", "perform"}
    BY <1>1 DEF PanelIInv, PanelTypeOK, Presses
  <2>2. \/ loads' = Aged /\ counted' = counted
        \/ loads' = Aged \cup {LoadFor(press.by)} /\ counted' = changes'
    BY <1>3 DEF Done, heardOf
  <2> QED BY <1>1, <1>2, <1>3, <2>1, <2>2, Effects, New, ScheduleChanged DEF PanelIInv
<1>4. CASE UNCHANGED <<schedulerVars, heardOf, loads>>
  BY <1>1, <1>2, <1>4, Aside
<1> QED BY <1>3, <1>4 DEF Done, Undone

(* The number of events changes and the panel reads again, or it does not. *)
LEMMA PanelHears ==
  ASSUME PanelIInv, HearEvents
  PROVE  PanelIInv'
<1>1. /\ UNCHANGED <<schedulerVars, shown, editing, press, newest>>
      /\ \/ /\ counted' = counted \/ counted' = changes
            /\ \E n \in Int : loads' = loads \cup {[LoadFor("event") EXCEPT !.n = n]}
         \/ counted' = counted /\ loads' = loads
  BY DEF HearEvents, Refreshes
<1>2. CASE /\ counted' = counted \/ counted' = changes
           /\ \E n \in Int : loads' = loads \cup {[LoadFor("event") EXCEPT !.n = n]}
  <2>1. PICK n \in Int : loads' = loads \cup {[LoadFor("event") EXCEPT !.n = n]}
    BY <1>2
  <2>2. PICK l : l = [LoadFor("event") EXCEPT !.n = n]
    OBVIOUS
  <2>3. l \in Loads /\ l.stage = "list" /\ ~l.read /\ loads' = loads \cup {l}
    BY <2>1, <2>2, New DEF PanelIInv, Loads
  <2>4. PanelTypeOK'
    BY <1>1, <1>2, <2>3 DEF PanelIInv, PanelTypeOK, schedulerVars, shown
  <2>5. (\A m \in loads : Fresh(m))'
    BY <1>1, <2>3 DEF PanelIInv, Fresh, schedulerVars
  <2>6. Listing' /\ loads' # {}
    BY <2>3 DEF Listing
  <2> QED BY <2>4, <2>5, <2>6 DEF PanelIInv, ListComes, RunsCome
<1>3. CASE counted' = counted /\ loads' = loads
  <2>1. PanelTypeOK'
    BY <1>1, <1>3 DEF PanelIInv, PanelTypeOK, schedulerVars, shown
  <2> QED BY <1>1, <1>3, <2>1
          DEF PanelIInv, Fresh, ListComes, RunsCome, Uncounted, Listing, schedulerVars, shown
<1> QED BY <1>1, <1>2, <1>3

LEMMA Served ==
  ASSUME PanelIInv, NEW l \in loads, ServeLoad(l)
  PROVE  PanelIInv'
<1> DEFINE m == IF l.stage = "list" THEN [l EXCEPT !.read = TRUE, !.list = schedule]
                ELSE [l EXCEPT !.read = TRUE, !.runs = run]
<1>1. l \in Loads /\ schedule \in Entries /\ run \in RunStates
  BY DEF PanelIInv, PanelTypeOK
<1>2. /\ m \in Loads /\ m.stage = l.stage
      /\ IF m.stage = "list" THEN m.list = schedule ELSE m.runs = run
  BY <1>1 DEF Loads
<1>3. loads' = (loads \ {l}) \cup {m}
  BY DEF ServeLoad
<1> HIDE DEF m
<1>4. UNCHANGED <<schedulerVars, counted, shown, editing, press, newest>>
  BY DEF ServeLoad, heardOf
<1>5. PanelTypeOK'
  BY <1>2, <1>3, <1>4 DEF PanelIInv, PanelTypeOK, schedulerVars, shown
<1>6. (\A k \in loads : Fresh(k))'
  BY <1>2, <1>3, <1>4 DEF PanelIInv, Fresh, schedulerVars
<1>7. (Listing => Listing') /\ loads' # {}
  BY <1>2, <1>3 DEF Listing
<1> QED BY <1>4, <1>5, <1>6, <1>7
        DEF PanelIInv, ListComes, RunsCome, Uncounted, schedulerVars, shown

(* A load that has listed or ended. *)
LEMMA Applied ==
  ASSUME PanelIInv, NEW l \in loads, Listed(l) \/ HistoryRead(l) \/ LoadFails(l)
  PROVE  PanelIInv'
<1>1. /\ l \in Loads /\ l.old \in BOOLEAN /\ l.list \in Entries /\ l.runs \in RunStates
      /\ l.stage \in {"list", "history"} /\ Fresh(l)
      /\ newest \in [list : BOOLEAN, history : BOOLEAN]
  BY DEF PanelIInv, PanelTypeOK, Loads
<1>2. UNCHANGED <<schedulerVars, counted, editing, press>>
  BY DEF Listed, HistoryRead, LoadFails, heardOf
<1>3. CASE Listed(l)
  <2> DEFINE m == [l EXCEPT !.stage = "history", !.read = FALSE]
  <2>1. m \in Loads /\ ~m.read
    BY <1>1 DEF Loads
  <2>2. /\ schedules' = l.list /\ newest' = [newest EXCEPT !.list = ~l.old]
        /\ IF l.list = Gone THEN occurrences' = "none" /\ loads' = loads \ {l}
           ELSE occurrences' = occurrences /\ loads' = (loads \ {l}) \cup {m}
    BY <1>3 DEF Listed
  <2> HIDE DEF m
  <2>3. ~l.old => schedules' = schedule'
    BY <1>1, <1>2, <1>3, <2>2 DEF Fresh, Listed, schedulerVars
  <2>4. PanelTypeOK'
    BY <1>1, <1>2, <2>1, <2>2 DEF PanelIInv, PanelTypeOK, schedulerVars, RunStates
  <2>5. (\A k \in loads : Fresh(k))'
    BY <1>2, <2>1, <2>2 DEF PanelIInv, Fresh, schedulerVars
  <2>6. newest'.list <=> ~l.old
    BY <1>1, <2>2
  <2>7. l.list = Gone \/ loads' # {}
    BY <2>2
  <2> QED BY <2>2, <2>3, <2>4, <2>5, <2>6, <2>7 DEF PanelIInv, ListComes, RunsCome
<1>4. CASE HistoryRead(l)
  <2>1. /\ l.stage = "history" /\ l.read /\ schedules' = schedules
        /\ occurrences' = l.runs /\ loads' = loads \ {l}
        /\ newest' = [newest EXCEPT !.history = ~l.old]
    BY <1>4 DEF HistoryRead
  <2>2. PanelTypeOK'
    BY <1>1, <1>2, <2>1 DEF PanelIInv, PanelTypeOK, schedulerVars
  <2>3. (\A k \in loads : Fresh(k))'
    BY <1>2, <2>1 DEF PanelIInv, Fresh, schedulerVars
  <2>4. newest'.list = newest.list /\ (newest'.history <=> ~l.old)
    BY <1>1, <2>1
  <2>5. Listing => Listing'
    BY <2>1 DEF Listing
  <2>6. ~l.old => occurrences' = run'
    BY <1>1, <1>2, <2>1 DEF Fresh, schedulerVars
  <2> QED BY <1>2, <2>1, <2>2, <2>3, <2>4, <2>5, <2>6
          DEF PanelIInv, ListComes, RunsCome, Uncounted, schedulerVars
<1>5. CASE LoadFails(l)
  <2>1. /\ UNCHANGED <<schedules, occurrences>> /\ loads' = loads \ {l}
        /\ newest' = [newest EXCEPT ![l.stage] = FALSE]
    BY <1>5 DEF LoadFails, shown
  <2>2. PanelTypeOK'
    BY <1>1, <1>2, <2>1 DEF PanelIInv, PanelTypeOK, schedulerVars
  <2>3. (\A k \in loads : Fresh(k))'
    BY <1>2, <2>1 DEF PanelIInv, Fresh, schedulerVars
  <2>4. /\ l.stage = "list" => ~newest'.list
        /\ l.stage = "history" => ~newest'.history /\ newest'.list = newest.list
    BY <1>1, <2>1
  <2>5. l.stage = "history" => (Listing => Listing')
    BY <2>1 DEF Listing
  <2> QED BY <1>1, <1>2, <2>1, <2>2, <2>3, <2>4, <2>5
          DEF PanelIInv, ListComes, RunsCome, Uncounted, schedulerVars
<1> QED BY <1>3, <1>4, <1>5

LEMMA PanelStarts == PanelInit => PanelIInv
<1> SUFFICES ASSUME PanelInit PROVE PanelIInv
  OBVIOUS
<1>1. Gone \in Entries /\ [text |-> 1, enabled |-> TRUE] \in Entries
  BY DEF Gone, Entries
<1>2. /\ LoadFor("mount") \in Loads /\ LoadFor("mount").stage = "list"
      /\ ~LoadFor("mount").read
  BY <1>1 DEF PanelInit, LoadFor, Loads, RunStates
<1>3. newest \in [list : BOOLEAN, history : BOOLEAN] /\ loads \subseteq Loads
  BY <1>2 DEF PanelInit
<1>4. PanelTypeOK
  <2>1. /\ schedule \in Entries /\ schedules \in Entries
        /\ run \in RunStates /\ occurrences \in RunStates
        /\ changes = 0 /\ counted = 0 /\ editing = 0 /\ press = NoPress
    BY <1>1 DEF PanelInit, RunStates, NotEditing
  <2> QED BY <1>3, <2>1 DEF PanelTypeOK
<1>5. loads = {LoadFor("mount")}
  BY DEF PanelInit
<1>6. Listing /\ loads # {} /\ \A l \in loads : Fresh(l)
  BY <1>2, <1>5 DEF Listing, Fresh
<1> QED BY <1>4, <1>6 DEF PanelIInv, ListComes, RunsCome

LEMMA PanelKept == PanelIInv /\ [PanelNext]_panelVars => PanelIInv'
<1> SUFFICES ASSUME PanelIInv, [PanelNext]_panelVars PROVE PanelIInv'
  OBVIOUS
<1>1. CASE UNCHANGED panelVars
  <2>1. /\ UNCHANGED <<schedulerVars, heardOf, shown, loads, newest, editing, press>>
    BY <1>1 DEF panelVars
  <2> QED BY <2>1, Aside DEF PanelIInv, PanelTypeOK
<1>2. CASE PanelNext
  BY <1>2, ServerActs, UserActs, Outcomes, PanelHears, Served, Applied DEF PanelNext
<1> QED BY <1>1, <1>2

(* A panel that is at rest, without a message, shows the schedule and its runs
   as the server has them (RestingListIsTrue): of loadSchedules and the
   scheduler's events, for any bounds and whatever window of them the page has. *)
THEOREM PanelAtRestIsTrue == PanelSpec => []RestingListIsTrue
<1>1. PanelIInv => RestingListIsTrue
  BY DEF PanelIInv, RestingListIsTrue, Resting, ListComes, RunsCome, Uncounted, Listing
<1> QED BY <1>1, PanelStarts, PanelKept, PTL DEF PanelSpec

-----------------------------------------------------------------------------
(* Saving a skill replaces only what its editor was opened on, and what others
   put at Claude's path is never lost: for any skills, and any number of presses
   and of writes by others.

   Between the comparison and the write of an update the file is what the
   comparison found, or somebody else wrote it (Unaltered); no other action
   of the panel can come between the two.  The bridges' actions turn a missing
   entry into a link and back, and replace a conflict only to count it as a
   backup (EntriesCount); one that is Crossed is no entry until the removal has
   left it there. *)
Conflicts(b) == {n \in Names : b[n] = "conflict"}
Theirs(b, r) == {n \in Names : b[n] = "conflict" /\ ~(r.what = "unbridge" /\ r.name = n)}

Unaltered == request.what = "write" => content[request.form.from] = request.form.revision \/ raced

IsForm(f) ==
  /\ f = [from |-> f.from, name |-> f.name, text |-> f.text, revision |-> f.revision]
  /\ f.from \in Names \cup {NoName}
IsRequest(r) ==
  /\ r = [what |-> r.what, name |-> r.name, form |-> r.form]
  /\ IsForm(r.form) /\ r.name \in Names \cup {NoName}
  /\ r.what = "write" => r.form.from \in Names
  /\ r.what \in {"delete", "unbridge"} => r.name \in Names
Sources == IsForm(form) /\ IsRequest(request)

SkillsIInv ==
  /\ Sources
  /\ content = [n \in Names |-> content[n]] /\ bridge = [n \in Names |-> bridge[n]]
  /\ placed \in Nat /\ backups \in Nat
  /\ Unaltered /\ EntriesAreKept

LEMMA Blanks ==
  /\ IsForm(NoForm) /\ IsRequest(NoAsking) /\ NoAsking.what = "none"
  /\ \A what : what \notin {"write", "delete", "unbridge"} =>
       IsRequest(Asking(what)) /\ Asking(what).what = what
<1>1. IsForm(NoForm)
  BY DEF IsForm, NoForm
<1> QED BY <1>1 DEF IsRequest, NoAsking, Asking

LEMMA SkillsStart == SkillsInit => SkillsIInv
<1> SUFFICES ASSUME SkillsInit PROVE SkillsIInv
  OBVIOUS
<1>1. Theirs(bridge, request) = {}
  BY DEF SkillsInit, Theirs
<1>2. Cardinality(Theirs(bridge, request)) = 0
  BY <1>1, FS_EmptySet
<1>3. EntriesAreKept
  BY <1>2 DEF SkillsInit, EntriesAreKept, Theirs, Crossed
<1>6. Sources /\ Unaltered
  BY Blanks DEF SkillsInit, Sources, Unaltered
<1>7. content = [n \in Names |-> content[n]] /\ bridge = [n \in Names |-> bridge[n]]
  BY DEF SkillsInit
<1> QED BY <1>3, <1>6, <1>7 DEF SkillsInit, SkillsIInv

(* The entries of others, when conflicts come and go. *)
LEMMA EntriesCount ==
  ASSUME SkillsIInv, NEW n, placed' \in Nat, backups' \in Nat,
         \/ Theirs(bridge', request') = Theirs(bridge, request) /\ UNCHANGED <<placed, backups>>
         \/ /\ Theirs(bridge', request') = Theirs(bridge, request) \cup {n} /\ n \notin Theirs(bridge, request)
            /\ placed' = placed + 1 /\ backups' = backups
         \/ /\ Theirs(bridge', request') = Theirs(bridge, request) \ {n} /\ placed' = placed
            /\ backups' = backups + Cardinality({n} \cap Theirs(bridge, request))
  PROVE  EntriesAreKept'
<1> DEFINE C == Theirs(bridge, request)
           D == Theirs(bridge', request')
<1>1. IsFiniteSet(C) /\ Cardinality(C) \in Nat
  BY SkillsAssumption, FS_Subset, FS_CardinalityType DEF Theirs
<1>2. placed = Cardinality(C) + backups /\ placed \in Nat /\ backups \in Nat
  BY DEF SkillsIInv, EntriesAreKept, Theirs, Crossed
<1>4. D = {m \in Names : bridge'[m] = "conflict" /\ ~(request'.what = "unbridge" /\ request'.name = m)}
  BY DEF Theirs
<1>5. IsFiniteSet(D) /\ Cardinality(D) \in Nat
  BY SkillsAssumption, FS_Subset, FS_CardinalityType DEF Theirs
<1>6. \/ D = C /\ UNCHANGED <<placed, backups>>
      \/ D = C \cup {n} /\ n \notin C /\ placed' = placed + 1 /\ backups' = backups
      \/ D = C \ {n} /\ placed' = placed /\ backups' = backups + Cardinality({n} \cap C)
  OBVIOUS
<1> HIDE DEF C, D
<1>3. placed' = Cardinality(D) + backups'
  <2>1. CASE D = C /\ UNCHANGED <<placed, backups>>
    BY <1>2, <2>1
  <2>2. CASE D = C \cup {n} /\ n \notin C /\ placed' = placed + 1 /\ backups' = backups
    <3>1. Cardinality(D) = Cardinality(C) + 1
      BY <1>1, <2>2, FS_AddElement
    <3> QED BY <1>1, <1>2, <2>2, <3>1
  <2>3. CASE D = C \ {n} /\ placed' = placed /\ backups' = backups + Cardinality({n} \cap C)
    <3>1. CASE n \in C
      <4>1. {n} \cap C = {n} /\ Cardinality({n}) = 1
        BY <3>1, FS_Singleton
      <4>2. Cardinality(D) = Cardinality(C) - 1
        BY <1>1, <2>3, <3>1, FS_RemoveElement
      <4> QED BY <1>1, <1>2, <2>3, <4>1, <4>2
    <3>2. CASE n \notin C
      <4>1. {n} \cap C = {} /\ D = C
        BY <2>3, <3>2
      <4>2. Cardinality({n} \cap C) = 0
        BY <4>1, FS_EmptySet
      <4> QED BY <1>1, <1>2, <2>3, <4>1, <4>2
    <3> QED BY <3>1, <3>2
  <2> QED BY <1>6, <2>1, <2>2, <2>3
<1> QED BY <1>3, <1>4, <1>5 DEF EntriesAreKept, Crossed

LEMMA Uncrossed ==
  ASSUME NEW b, NEW r
  PROVE  /\ r.what # "unbridge" => Theirs(b, r) = Conflicts(b)
         /\ b[r.name] # "conflict" => Theirs(b, r) = Conflicts(b)
BY DEF Theirs, Conflicts

(* A step that leaves the files alone. *)
LEMMA SkillsAside ==
  ASSUME SkillsIInv, UNCHANGED <<content, bridge, placed, backups>>, Sources',
         \/ request' = request /\ raced' = raced
         \/ /\ request.what # "unbridge" /\ request'.what # "unbridge"
            /\ request'.what = "write" => content[request'.form.from] = request'.form.revision
  PROVE  SkillsIInv' /\ KeepsOthersWork
<1>1. EntriesAreKept'
  <2>2. Theirs(bridge', request') = Theirs(bridge, request)
    BY Uncrossed
  <2>3. Theirs(bridge, request) = {n \in Names : bridge[n] = "conflict" /\ ~Crossed(n)}
    BY DEF Theirs, Crossed
  <2>4. Theirs(bridge', request') = {n \in Names : bridge[n] = "conflict" /\ ~Crossed(n)}'
    BY DEF Theirs, Crossed
  <2> QED BY <2>2, <2>3, <2>4 DEF SkillsIInv, EntriesAreKept
<1> QED BY <1>1 DEF SkillsIInv, KeepsOthersWork, ReplacesRead, Unaltered

(* A step of the server that may change them, and the bridges, when no update
   is between comparison and write. *)
LEMMA SkillsServed ==
  ASSUME SkillsIInv, Sources', NEW n,
         content' = [m \in Names |-> content'[m]], bridge' = [m \in Names |-> bridge'[m]],
         placed' = placed, backups' \in Nat,
         \/ Conflicts(bridge') = Conflicts(bridge) /\ backups' = backups
         \/ /\ Conflicts(bridge') = Conflicts(bridge) \ {n}
            /\ backups' = backups + Cardinality({n} \cap Conflicts(bridge)),
         request.what # "unbridge", request'.what \notin {"write", "unbridge"}, ReplacesRead
  PROVE  SkillsIInv' /\ KeepsOthersWork
<1>1. /\ Theirs(bridge, request) = Conflicts(bridge)
      /\ Theirs(bridge', request') = Conflicts(bridge')
  BY Uncrossed
<1>2. EntriesAreKept'
  BY <1>1, EntriesCount DEF SkillsIInv
<1> QED BY <1>2 DEF SkillsIInv, KeepsOthersWork, Unaltered

LEMMA BridgesStay ==
  ASSUME NEW b, b = [k \in Names |-> b[k]], NEW n
  PROVE  /\ Conflicts(Ensured(b, n)) = Conflicts(b)
         /\ Ensured(b, n) = [k \in Names |-> Ensured(b, n)[k]]
BY DEF Ensured, Conflicts

LEMMA Answering ==
  ASSUME SkillsIInv, Succeeded \/ ActionFailed, form' = form \/ form' = NoForm
  PROVE  Sources' /\ request'.what \notin {"write", "unbridge"}
BY Blanks DEF SkillsIInv, Sources, Succeeded, ActionFailed

LEMMA OthersAct ==
  ASSUME SkillsIInv, NEW n \in Names, OthersWrite(n) \/ OthersPlace(n)
  PROVE  SkillsIInv' /\ KeepsOthersWork
<1>1. UNCHANGED <<form, request>> /\ Sources'
  BY DEF SkillsIInv, Sources, OthersWrite, OthersPlace
<1>2. CASE OthersWrite(n)
  <2>1. /\ content' = [content EXCEPT ![n] = Written] /\ UNCHANGED <<bridge, placed, backups>>
        /\ raced' = (raced \/ (request.what = "write" /\ request.form.from = n))
    BY <1>2 DEF OthersWrite
  <2>2. content' = [m \in Names |-> content'[m]]
    BY <2>1 DEF SkillsIInv
  <2>3. Unaltered'
    BY <1>1, <2>1 DEF SkillsIInv, Sources, IsRequest, Unaltered
  <2>4. ReplacesRead
    BY <2>1 DEF SkillsIInv, ReplacesRead
  <2>5. EntriesAreKept'
    BY <1>1, <2>1 DEF SkillsIInv, EntriesAreKept, Crossed
  <2> QED BY <1>1, <2>1, <2>2, <2>3, <2>4, <2>5 DEF SkillsIInv, KeepsOthersWork
<1>3. CASE OthersPlace(n)
  <2>1. /\ bridge[n] # "conflict" /\ bridge' = [bridge EXCEPT ![n] = "conflict"]
        /\ placed' = IF Crossed(n) THEN placed ELSE placed + 1
        /\ UNCHANGED <<content, backups, raced>>
    BY <1>3 DEF OthersPlace
  <2>2. bridge = [m \in Names |-> bridge[m]]
    BY DEF SkillsIInv
  <2>3. bridge' = [m \in Names |-> bridge'[m]]
    BY <2>1, <2>2
  <2>4. \/ /\ Theirs(bridge', request') = Theirs(bridge, request) \cup {n}
           /\ n \notin Theirs(bridge, request) /\ placed' = placed + 1
        \/ Theirs(bridge', request') = Theirs(bridge, request) /\ placed' = placed
    BY <1>1, <2>1, <2>2 DEF Theirs, Crossed
  <2>5. placed' \in Nat /\ backups' \in Nat
    BY <2>1 DEF SkillsIInv
  <2>6. EntriesAreKept'
    BY <2>1, <2>4, <2>5, EntriesCount
  <2> QED BY <1>1, <2>1, <2>3, <2>5, <2>6 DEF SkillsIInv, Unaltered, ReplacesRead, KeepsOthersWork
<1> QED BY <1>2, <1>3

LEMMA ReaderActs ==
  ASSUME SkillsIInv,
         \/ RepairAll \/ CancelSkill \/ SaveSkill
         \/ \E n \in Names : Keep(n) \/ NewSkill(n) \/ Change(n)
         \/ \E what \in {"edit", "delete", "link", "replace"}, n \in Names : Press(what, n)
  PROVE  SkillsIInv' /\ KeepsOthersWork
<1>1. UNCHANGED <<content, bridge, placed, backups, raced>>
  BY DEF Keep, NewSkill, Change, RepairAll, CancelSkill, SaveSkill, Press, workspace
<1>2. IsForm(form) /\ IsRequest(request)
  BY DEF SkillsIInv, Sources
<1>3. IsForm(form')
  BY <1>2, Blanks
     DEF Keep, NewSkill, Change, RepairAll, CancelSkill, SaveSkill, Press, IsForm, NoForm
<1>4. /\ IsRequest(request')
      /\ \/ request' = request
         \/ request.what # "unbridge" /\ request'.what \notin {"write", "unbridge"}
  <2>1. CASE CancelSkill \/ \E n \in Names : Keep(n) \/ NewSkill(n) \/ Change(n)
    BY <1>2, <2>1 DEF Keep, NewSkill, Change, CancelSkill
  <2>2. CASE RepairAll
    BY <2>2, Blanks DEF RepairAll
  <2>3. CASE SaveSkill
    BY <1>2, <2>3, Blanks DEF SaveSkill, Asking, NoAsking, IsRequest
  <2>4. CASE \E what \in {"edit", "delete", "link", "replace"}, n \in Names : Press(what, n)
    <3>1. PICK what \in {"edit", "delete", "link", "replace"}, n \in Names :
            request = NoAsking /\ request' = [Asking(what) EXCEPT !.name = n]
      BY <2>4 DEF Press
    <3>2. request' = [what |-> what, name |-> n, form |-> NoForm]
      BY <3>1 DEF Asking, NoAsking
    <3>3. request.what = "none" /\ IsForm(NoForm)
      BY <3>1, Blanks
    <3> QED BY <3>2, <3>3 DEF IsRequest
  <2> QED BY <2>1, <2>2, <2>3, <2>4
<1> QED BY <1>1, <1>3, <1>4, SkillsAside DEF Sources

LEMMA Answers ==
  ASSUME SkillsIInv, Loaded \/ OpenedSkill \/ Compared \/ Lost
  PROVE  SkillsIInv' /\ KeepsOthersWork
<1>1. UNCHANGED <<content, bridge, placed, backups>>
  BY DEF Loaded, OpenedSkill, Compared, Lost, workspace
<1>2. IsForm(form) /\ IsRequest(request)
  BY DEF SkillsIInv, Sources
<1>3. CASE Loaded
  BY <1>1, <1>2, <1>3, Blanks, SkillsAside DEF Loaded, Sources
<1>4. CASE Lost
  BY <1>1, <1>2, <1>4, Blanks, SkillsAside DEF Lost, ActionFailed, Sources
<1>5. CASE OpenedSkill
  <2>1. request' = NoAsking /\ request.what = "edit"
    BY <1>5 DEF OpenedSkill, ActionFailed
  <2>2. IsForm(form')
    BY <1>2, <1>5 DEF OpenedSkill, IsForm, IsRequest
  <2> QED BY <1>1, <2>1, <2>2, Blanks, SkillsAside DEF Sources
<1>6. CASE Compared
  <2>1. form' = form /\ request.form.from # NoName /\ request.what = "save"
    BY <1>6 DEF Compared
  <2>2. CASE Stale(request.form)
    <3>1. request' = NoAsking
      BY <1>6, <2>2 DEF Compared, ActionFailed
    <3> QED BY <1>1, <1>2, <2>1, <3>1, Blanks, SkillsAside DEF Sources
  <2>3. CASE ~Stale(request.form)
    <3>1. request' = [what |-> "write", name |-> request.name, form |-> request.form]
      BY <1>2, <1>6, <2>3 DEF Compared, IsRequest
    <3>2. content[request.form.from] = request.form.revision
      BY <2>3 DEF Stale
    <3>3. IsRequest(request')
      BY <1>2, <2>1, <3>1 DEF IsRequest, IsForm
    <3> QED BY <1>1, <1>2, <2>1, <3>1, <3>2, <3>3, SkillsAside DEF Sources
  <2> QED BY <2>2, <2>3
<1> QED BY <1>3, <1>4, <1>5, <1>6

LEMMA Writes ==
  ASSUME SkillsIInv, Created \/ Updated \/ Deleted \/ Unbridged
  PROVE  SkillsIInv' /\ KeepsOthersWork
<1> DEFINE f == request.form
           Looked(n) == /\ Unbridge(n) /\ bridge[n] = "linked" /\ UNCHANGED <<bridge, placed, form>>
                        /\ request.what # "unbridge"
<1>1. content = [m \in Names |-> content[m]] /\ bridge = [m \in Names |-> bridge[m]]
  BY DEF SkillsIInv
<1>2. /\ backups' = backups /\ backups' \in Nat
      /\ placed' \in Nat
  BY DEF SkillsIInv, Created, Updated, Deleted, Unbridged
<1>3. IsForm(form) /\ IsRequest(request)
  BY DEF SkillsIInv, Sources
<1>4. \/ /\ Succeeded \/ ActionFailed
         /\ form' = form \/ form' = NoForm
      \/ \E n \in Names : Looked(n)
  BY <1>3 DEF Created, Updated, Deleted, Unbridged, SaveHeard, ActionHeard, IsRequest
<1>5. Sources' /\ request'.what # "write"
  <2>1. CASE (Succeeded \/ ActionFailed) /\ (form' = form \/ form' = NoForm)
    BY <2>1, Answering
  <2>2. ASSUME NEW n \in Names, Looked(n) PROVE Sources' /\ request'.what # "write"
    <3>1. request' = [what |-> "unbridge", name |-> n, form |-> request.form]
      BY <1>3, <2>2 DEF Unbridge, IsRequest
    <3> QED BY <1>3, <2>2, <3>1 DEF IsRequest, Sources
  <2> QED BY <1>4, <2>1, <2>2
<1>6. /\ content' = [k \in Names |-> content'[k]]
      /\ bridge' = [k \in Names |-> bridge'[k]]
  BY <1>1 DEF Created, Updated, Deleted, Unbridged, Ensured
<1>7. EntriesAreKept'
  <2>1. ASSUME NEW n \in Names, Looked(n) PROVE EntriesAreKept'
    <3>1. request'.name = n
      BY <1>3, <2>1 DEF Unbridge, IsRequest
    <3>2. /\ Theirs(bridge', request') = Conflicts(bridge)
          /\ Theirs(bridge, request) = Conflicts(bridge)
      BY <2>1, <3>1, Uncrossed
    <3> QED BY <1>2, <2>1, <3>2, EntriesCount
  <2>2. CASE /\ Created \/ Updated \/ Deleted
             /\ Succeeded \/ ActionFailed
             /\ form' = form \/ form' = NoForm
    <3>1. request.what # "unbridge" /\ request'.what # "unbridge" /\ placed' = placed
      BY <2>2, Answering DEF Created, Updated, Deleted
    <3>2. \/ bridge' = bridge
          \/ \E n : bridge' = Ensured(bridge, n)
      BY <2>2 DEF Created, Updated, Deleted
    <3>3. Conflicts(bridge') = Conflicts(bridge)
      BY <1>1, <3>2, BridgesStay
    <3> QED BY <1>2, <3>1, <3>3, Uncrossed, EntriesCount
  <2>3. CASE Unbridged
    <3> DEFINE n == request.name
               Over(left) == [bridge EXCEPT ![n] = left]
    <3>1. PICK left \in {"missing"} \cup ({bridge[n]} \cap {"conflict"}) :
            /\ placed' = IF left = "conflict" THEN placed + 1 ELSE placed
            /\ bridge' \in {Over(left), Ensured(Over(left), f.name)}
      BY <2>3 DEF Unbridged
    <3>2. n \in Names /\ request.what = "unbridge" /\ request'.what # "unbridge"
      <4>1. Succeeded \/ ActionFailed
        BY <2>3 DEF Unbridged, SaveHeard, ActionHeard
      <4>2. request'.what # "unbridge"
        BY <4>1, Blanks DEF Succeeded, ActionFailed
      <4> QED BY <1>3, <2>3, <4>2 DEF Unbridged, IsRequest
    <3>3. Over(left) = [k \in Names |-> Over(left)[k]]
      BY <1>1
    <3>4. Conflicts(bridge') = Conflicts(Over(left))
      BY <3>1, <3>3, BridgesStay
    <3>5. \/ /\ Conflicts(Over(left)) = Theirs(bridge, request) \cup {n}
             /\ n \notin Theirs(bridge, request) /\ placed' = placed + 1
          \/ Conflicts(Over(left)) = Theirs(bridge, request) /\ placed' = placed
      BY <1>1, <3>1, <3>2 DEF Theirs, Conflicts
    <3>6. Theirs(bridge', request') = Conflicts(bridge')
      BY <3>2, Uncrossed
    <3> HIDE DEF Over
    <3> QED BY <1>2, <3>4, <3>5, <3>6, EntriesCount
  <2> QED BY <1>4, <2>1, <2>2, <2>3
<1>8. ReplacesRead
  <2>1. CASE request.what # "write"
    BY <2>1 DEF ReplacesRead
  <2>2. CASE request.what = "write"
    <3>1. Updated
      BY <2>2 DEF Created, Deleted, Unbridged
    <3>2. \/ content' = [content EXCEPT ![f.from] = f.text]
          \/ content[f.name] = Absent
             /\ content' = [content EXCEPT ![f.name] = f.text, ![f.from] = Absent]
          \/ content' = content
      BY <3>1 DEF Updated
    <3>3. ASSUME NEW k \in Names, k # f.from, content[k] # Absent
          PROVE  content'[k] = content[k]
      BY <1>1, <3>2, <3>3
    <3>4. content[f.from] = f.revision \/ raced
      BY <2>2 DEF SkillsIInv, Unaltered
    <3> QED BY <3>3, <3>4 DEF ReplacesRead
  <2> QED BY <2>1, <2>2
<1> QED BY <1>2, <1>5, <1>6, <1>7, <1>8 DEF SkillsIInv, KeepsOthersWork, Unaltered

LEMMA Bridges ==
  ASSUME SkillsIInv, Bridged \/ Repaired
  PROVE  SkillsIInv' /\ KeepsOthersWork
<1> DEFINE n == request.name
<1>1. content = [m \in Names |-> content[m]] /\ bridge = [m \in Names |-> bridge[m]]
  BY DEF SkillsIInv
<1>2. /\ UNCHANGED <<content, placed, form>> /\ (Succeeded \/ ActionFailed)
      /\ request.what # "unbridge"
  BY DEF Bridged, Repaired, ActionHeard
<1>3. ReplacesRead
  BY <1>2 DEF ReplacesRead
<1>4. CASE Repaired
  <2>1. /\ backups' = backups
        /\ bridge' = [m \in Names |-> IF content[m] # Absent THEN Ensured(bridge, m)[m] ELSE bridge[m]]
    BY <1>4 DEF Repaired
  <2>2. \A m \in Names : bridge'[m] = "conflict" <=> bridge[m] = "conflict"
    BY <1>1, <2>1 DEF Ensured
  <2>3. Conflicts(bridge') = Conflicts(bridge) /\ bridge' = [m \in Names |-> bridge'[m]]
    BY <2>1, <2>2 DEF Conflicts
  <2>4. backups' \in Nat
    BY <2>1 DEF SkillsIInv
  <2> QED BY <1>1, <1>2, <1>3, <2>1, <2>3, <2>4, Answering, SkillsServed
<1>5. CASE Bridged
  <2>1. CASE UNCHANGED <<bridge, backups>>
    <3>1. backups' \in Nat
      BY <2>1 DEF SkillsIInv
    <3> QED BY <1>1, <1>2, <1>3, <2>1, <3>1, Answering, SkillsServed
  <2>2. CASE ~UNCHANGED <<bridge, backups>>
    <3>1. /\ backups' = backups + Cardinality({n} \cap Conflicts(bridge))
          /\ bridge' = [bridge EXCEPT ![n] = "linked"]
      BY <1>5, <2>2 DEF Bridged, Conflicts
    <3>2. IsFiniteSet({n} \cap Conflicts(bridge))
      BY SkillsAssumption, FS_Subset DEF Conflicts
    <3>3. backups' \in Nat
      BY <3>1, <3>2, FS_CardinalityType DEF SkillsIInv
    <3>4. /\ bridge' = [m \in Names |-> bridge'[m]]
          /\ Conflicts(bridge') = Conflicts(bridge) \ {n}
      BY <1>1, <3>1 DEF Conflicts
    <3> QED BY <1>1, <1>2, <1>3, <3>1, <3>3, <3>4, Answering, SkillsServed
  <2> QED BY <2>1, <2>2
<1> QED BY <1>4, <1>5

(* What others wrote, and what they put at Claude's path, is kept
   (OthersWorkIsKept): of reposkills' Update and RepairBridge under everything the
   panel asks, for any finite set of skills and any bounds. *)
THEOREM WorkIsKept == SkillsSpec => OthersWorkIsKept
<1>1. SkillsIInv /\ [SkillsNext]_skillsVars => SkillsIInv' /\ [KeepsOthersWork]_skillsVars
  <2> SUFFICES ASSUME SkillsIInv, [SkillsNext]_skillsVars
               PROVE  SkillsIInv' /\ KeepsOthersWork
    OBVIOUS
  <2>2. CASE UNCHANGED skillsVars
    <3>1. UNCHANGED <<content, bridge, placed, backups, form, request, raced>>
      BY <2>2 DEF skillsVars, workspace
    <3>2. Sources'
      BY <3>1 DEF SkillsIInv, Sources
    <3> QED BY <3>1, <3>2, SkillsAside
  <2>3. CASE SkillsNext
    BY <2>3, OthersAct, ReaderActs, Answers, Writes, Bridges DEF SkillsNext
  <2> QED BY <2>2, <2>3
<1> QED BY <1>1, SkillsStart, PTL DEF SkillsSpec, OthersWorkIsKept
=============================================================================
