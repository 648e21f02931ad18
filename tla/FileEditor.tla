----------------------------- MODULE FileEditor -----------------------------
(* Editing one workspace file in the page while an agent writes it too:
   the editor's view (workspace-files.tsx), the draft kept in the browser's
   storage (file-drafts.ts) and the server, that writes a file only if it
   still is what the editor started from.  Typing makes the editor ready to
   save again, so that saves of one view, and of views that are closed since,
   may be on their way together and be answered in any order.  The editor may
   be closed and opened again, the page reloaded, a request lost, the storage
   full. *)
EXTENDS Naturals, FiniteSets

CONSTANTS
  Original,  \* what is in the file at first
  Typed,     \* what the user types
  Agents,    \* what the agent writes
  NoAgent,
  EditorBounds  \* bound: how often something may happen, by kind; one of these

Texts == {Original} \cup Typed \cup Agents

VARIABLES
  disk,      \* what is in the file
  stored,    \* the draft in the browser's storage, with what it started from
  view,      \* the open editor
  opening,   \* the request for the file's content
  saves,     \* the requests to write it, each with the draft of its view when that was closed
  order,     \* how many saves were sent, and how many were done
  seen,      \* texts the editor or the conflict panel has shown, or the user saved
  last,      \* the text typed last, until it is saved or typed back
  excused,   \* what of the storage's guarantees was given up, and how
  editorLeft \* how often something may still happen

editorVars == <<disk, stored, view, opening, saves, order, seen, last, excused, editorLeft>>

NoView == [open |-> FALSE, file |-> NoAgent, draft |-> NoAgent, base |-> NoAgent, conflict |-> NoAgent,
           saving |-> FALSE]
NoDraft == [base |-> NoAgent, draft |-> NoAgent]

EditorInit ==
  /\ disk = Original /\ stored = NoDraft /\ view = NoView
  /\ saves = {} /\ order = [sent |-> 0, done |-> 0]
  /\ opening = [st |-> "idle", content |-> NoAgent]
  /\ seen = {} /\ last = NoAgent /\ excused = {}
  /\ editorLeft \in EditorBounds

EditorSpends(kind) ==
  editorLeft[kind] > 0 /\ editorLeft' = [editorLeft EXCEPT ![kind] = @ - 1]

(* writeFileDraft: a draft that is the file's own content is no draft. *)
Draft(base, draft) == IF draft = base THEN NoDraft ELSE [base |-> base, draft |-> draft]

(* What the editor shows of a file: the stored draft, if there is one. *)
Showing(content, draft) ==
  [open |-> TRUE, file |-> content, conflict |-> NoAgent, saving |-> FALSE,
   draft |-> IF draft = NoDraft THEN content ELSE draft.draft,
   base |-> IF draft = NoDraft THEN content ELSE draft.base]
Dirty == view.draft # view.file

(* What the user reads: the editor and, after a conflict, what is in the file. *)
Shown(v) == {v.draft, v.conflict} \ {NoAgent}

-----------------------------------------------------------------------------
(* The agent, which is external, writes the file. *)
AgentWrites(text) ==
  /\ EditorSpends("agent") /\ disk' = text
  /\ UNCHANGED <<stored, view, opening, saves, order, seen, last, excused>>

(* A link or the file list opens the file. *)
Open == /\ ~view.open /\ opening.st = "idle" /\ EditorSpends("open")
        /\ opening' = [opening EXCEPT !.st = "asked"]
        /\ UNCHANGED <<disk, stored, view, saves, order, seen, last, excused>>
ServeContent == /\ opening.st = "asked" /\ opening' = [st |-> "answered", content |-> disk]
                /\ UNCHANGED <<disk, stored, view, saves, order, seen, last, excused, editorLeft>>
Opened ==
  /\ opening.st = "answered"
  /\ opening' = [st |-> "idle", content |-> NoAgent]
  /\ view' = Showing(opening.content, stored) /\ seen' = seen \cup Shown(view')
  /\ UNCHANGED <<disk, stored, saves, order, last, excused, editorLeft>>

(* The request fails: a stored draft is opened with what it started from. *)
OpenFails ==
  /\ opening.st = "asked" /\ EditorSpends("lost")
  /\ opening' = [opening EXCEPT !.st = "idle"]
  /\ IF stored = NoDraft THEN UNCHANGED <<view, seen>>
     ELSE view' = Showing(stored.base, stored) /\ seen' = seen \cup Shown(view')
  /\ UNCHANGED <<disk, stored, saves, order, last, excused>>

(* Closing unmounts the view; its saves in flight keep the draft as it was. *)
Close == /\ view.open /\ view' = NoView
         /\ saves' = {IF s.mounted THEN [s EXCEPT !.mounted = FALSE, !.draft = view.draft] ELSE s :
                      s \in saves}
         /\ UNCHANGED <<disk, stored, opening, order, seen, last, excused, editorLeft>>
(* The page is loaded again: nothing that is answered is heard, but what it
   asked for may still be done. *)
Reload == /\ EditorSpends("reload") /\ view' = NoView
          /\ saves' = {[s EXCEPT !.st = "orphan", !.mounted = FALSE] :
                       s \in {r \in saves : r.st \in {"asked", "orphan"}}}
          /\ opening' = [st |-> "idle", content |-> NoAgent]
          /\ UNCHANGED <<disk, stored, order, seen, last, excused>>

(* handleDraftChange: the draft keeps the base of the stored one, and without
   one starts from the content the view was opened with.  The storage may be
   full, which the editor says.  Saving is possible again at once. *)
Type(text) ==
  LET base == IF stored = NoDraft THEN view.file ELSE stored.base
  IN  /\ view.open /\ text # view.draft /\ EditorSpends("type")
      /\ view' = [view EXCEPT !.draft = text, !.saving = FALSE]
      /\ seen' = seen \cup Shown(view') /\ last' = IF text = base THEN NoAgent ELSE text
      /\ \/ /\ stored' = Draft(base, text)
            /\ excused' = IF base # view.base THEN excused \cup {"rebased"} ELSE excused
         \/ /\ text # base
            /\ UNCHANGED stored /\ excused' = excused \cup {"unstored"}
      /\ UNCHANGED <<disk, opening, saves, order>>

-----------------------------------------------------------------------------
(* handleSave: not twice, unless something was typed in between. *)
Sends(expected) ==
  /\ view.open /\ Dirty /\ ~view.saving /\ EditorSpends("save")
  /\ view' = [view EXCEPT !.saving = TRUE] /\ order' = [order EXCEPT !.sent = @ + 1]
  /\ saves' = saves \cup
       {[nr |-> order'.sent, st |-> "asked", content |-> view.draft, expected |-> expected,
         mounted |-> TRUE, draft |-> NoAgent, turn |-> 0]}
  /\ UNCHANGED <<disk, stored, opening, seen, last, excused>>

(* Mutant: the save expects what the server sent last, not what the draft started from. *)
SaveExpectsNewest == Sends(view.file)

Save == Sends(view.base)

Becoming(s, r) == saves' = (saves \ {s}) \cup {r}
Ends(s) == saves' = saves \ {s}

(* writeWorkspaceFile: under the lock, only over the content it was told. *)
ServeSave(s) ==
  /\ s.st \in {"asked", "orphan"}
  /\ IF disk = s.expected
     THEN /\ disk' = s.content /\ seen' = seen \cup {s.content}
          /\ order' = [order EXCEPT !.done = @ + 1]
          /\ last' = IF last = s.content THEN NoAgent ELSE last
          /\ IF s.st = "orphan" THEN Ends(s)
             ELSE Becoming(s, [s EXCEPT !.st = "saved", !.turn = order'.done])
     ELSE /\ UNCHANGED <<disk, order, seen, last>>
          /\ IF s.st = "orphan" THEN Ends(s) ELSE Becoming(s, [s EXCEPT !.st = "changed"])
  /\ UNCHANGED <<stored, view, opening, excused, editorLeft>>
SaveIsLost(s) ==
  /\ s.st \in {"asked", "saved", "changed"} /\ EditorSpends("lost")
  /\ Becoming(s, [s EXCEPT !.st = "failed"])
  /\ UNCHANGED <<disk, stored, view, opening, order, seen, last, excused>>

(* The draft of the view that sent the save: draftRef. *)
Remaining(s) == IF s.mounted THEN view.draft ELSE s.draft

(* Of an answer that comes after that of a later save, or after a reopened view's
   draft, the guarantees do not hold. *)
CrossesDraft(s) == ~s.mounted /\ stored # NoDraft /\ stored.draft # s.draft
Overtaken(s) == s.turn # order.done /\ Remaining(s) = s.content /\ last = s.content
SaveExcuses(s) == {e \in {"crossed", "overtaken"} :
                 (e = "crossed" /\ CrossesDraft(s)) \/ (e = "overtaken" /\ Overtaken(s))}

SaveAnswers(s, kept) ==
  /\ s.st = "saved" /\ Ends(s) /\ stored' = kept
  /\ view' = IF s.mounted THEN Showing(s.content, kept) ELSE view
  /\ seen' = IF s.mounted THEN seen \cup Shown(view') ELSE seen
  /\ excused' = excused \cup SaveExcuses(s)
  /\ last' = IF Remaining(s) = s.content /\ last = s.content /\ ~Overtaken(s) THEN NoAgent ELSE last
  /\ UNCHANGED <<disk, opening, order, editorLeft>>

(* Mutant: what was typed during the save is not kept. *)
SavedForgets(s) == SaveAnswers(s, NoDraft)

(* The answer: what was typed meanwhile becomes a draft of what was saved, unless
   the storage is full.  It is written even if the view is gone, and then over the
   draft of a view opened since. *)
Saved(s) == \/ SaveAnswers(s, Draft(s.content, Remaining(s)))
            \/ Remaining(s) # s.content /\ SaveAnswers(s, stored)

(* A refused save asks for what is in the file now; another failure is shown. *)
SaveRefused(s) ==
  /\ s.st \in {"changed", "failed"}
  /\ view' = IF s.mounted THEN [view EXCEPT !.saving = FALSE] ELSE view
  /\ IF s.mounted /\ s.st = "changed" THEN Becoming(s, [s EXCEPT !.st = "latest"]) ELSE Ends(s)
  /\ UNCHANGED <<disk, stored, opening, order, seen, last, excused, editorLeft>>
ServeLatest(s) ==
  /\ s.st = "latest"
  /\ \/ Becoming(s, [s EXCEPT !.st = "read", !.content = disk]) /\ UNCHANGED editorLeft
     \/ Ends(s) /\ EditorSpends("lost")
  /\ UNCHANGED <<disk, stored, view, opening, order, seen, last, excused>>
ShowLatest(s) ==
  /\ s.st = "read" /\ Ends(s)
  /\ IF s.mounted THEN view' = [view EXCEPT !.conflict = s.content] /\ seen' = seen \cup Shown(view')
                  ELSE UNCHANGED <<view, seen>>
  /\ UNCHANGED <<disk, stored, opening, order, last, excused, editorLeft>>

(* "I reviewed the changes": the draft is now based on what the panel showed. *)
KeepEdits ==
  /\ view.open /\ view.conflict # NoAgent
  /\ stored' = Draft(view.conflict, view.draft)
  /\ view' = [view EXCEPT !.base = view.conflict, !.conflict = NoAgent, !.saving = FALSE]
  /\ last' = IF last = view.conflict THEN NoAgent ELSE last
  /\ UNCHANGED <<disk, opening, saves, order, seen, excused, editorLeft>>

EditorNext ==
  \/ \E text \in Agents : AgentWrites(text)
  \/ \E text \in {Original} \cup Typed : Type(text)
  \/ Open \/ ServeContent \/ Opened \/ OpenFails \/ Close \/ Reload
  \/ Save \/ KeepEdits
  \/ \E s \in saves : \/ ServeSave(s) \/ SaveIsLost(s) \/ Saved(s) \/ SaveRefused(s)
                      \/ ServeLatest(s) \/ ShowLatest(s)

EditorSpec == EditorInit /\ [][EditorNext]_editorVars

-----------------------------------------------------------------------------
(* What the user typed last is in the editor, in the storage or saved, across
   closing, reloading, conflicts and lost answers.  Given up only when the
   storage was full, which the editor says; when the answer of a closed view's
   save replaced a newer draft ("crossed"); and when one that a later save
   overtook took a text that was typed again since for the saved one
   ("overtaken"). *)
EditIsKept ==
  last # NoAgent /\ excused \cap {"unstored", "crossed", "overtaken"} = {} =>
    (view.open /\ view.draft = last) \/ stored.draft = last

OverwritesSeen ==
  disk' # disk /\ disk' \in Typed \cup {Original} /\ disk \notin seen => "rebased" \in excused

(* A save replaces only a text its user has seen: the agent's work is never
   overwritten unread.  Given up when a draft was typed back to what it started from: the
   next one starts from content that was never shown. *)
OnlySeenIsOverwritten == [][OverwritesSeen]_editorVars
=============================================================================
