--------------------------- MODULE TranscriptRow ----------------------------
(* One row of the transcript while its message is still written
   (components/chat-transcript.tsx: ChatMessageRow, MarkdownContent,
   FloatingCopyButton, ToolCallRow; lib/clipboard.ts).  A text that is being
   selected is not redrawn; the tools beyond the last few are folded away
   and with them what was opened there. *)
EXTENDS Integers, FiniteSets

CONSTANTS
  Kept,     \* tools shown when the others are folded away
  RowBounds    \* bound: deltas, tools, selections, copies, presses, failures

VARIABLES
  text,        \* message.text: how much has been written
  latest,      \* latestContentRef
  displayed,   \* displayedContent
  selected,    \* a selection lies within the row
  changed,     \* a selectionchange event is due
  tools,       \* message.tools, numbered as they came
  unfolded,    \* showAllTools
  focused,     \* focusedTool, or 0
  opened,      \* tools whose output is open (outputOpen)
  loading, loaded,   \* their full outputs: asked for, and there
  copied,      \* what the copy button shows: "", "copied", "failed"
  ticks,       \* timers that clear it
  clipboard,
  rowSpent

texts == <<text, latest, displayed>>
selection == <<selected, changed>>
rows == <<tools, unfolded, focused, opened, loading, loaded>>
button == <<copied, ticks, clipboard>>
rowVars == <<texts, selection, rows, button, rowSpent>>

RowSpends(kind) == rowSpent[kind] < RowBounds[kind] /\ rowSpent' = [rowSpent EXCEPT ![kind] = @ + 1]
RowFree == rowSpent' = rowSpent

RowInit ==
  /\ text = 1 /\ latest = 1 /\ displayed = 1 /\ selected = FALSE /\ changed = FALSE
  /\ tools = 0 /\ unfolded = FALSE /\ focused = 0
  /\ opened = {} /\ loading = {} /\ loaded = {}
  /\ copied = "" /\ ticks = 0 /\ clipboard = 0
  /\ rowSpent = [kind \in DOMAIN RowBounds |-> 0]

-----------------------------------------------------------------------------
(* Mutant: the text that is held back is not noted. *)
NoteShown(new) ==
  /\ latest' = IF selected THEN latest ELSE new
  /\ displayed' = IF selected THEN displayed ELSE new

(* The layout effect: the newest text is noted, and drawn unless it is selected. *)
Render(new) ==
  /\ latest' = new
  /\ displayed' = IF selected THEN displayed ELSE new

Written ==
  /\ RowSpends("deltas") /\ text' = text + 1 /\ Render(text')
  /\ UNCHANGED <<selection, rows, button>>

Select ==
  /\ ~selected /\ RowSpends("selections") /\ selected' = TRUE /\ changed' = TRUE
  /\ UNCHANGED <<texts, rows, button>>
Deselect ==
  /\ selected /\ RowFree /\ selected' = FALSE /\ changed' = TRUE
  /\ UNCHANGED <<texts, rows, button>>

(* flushHeldContent *)
SelectionChanged ==
  /\ changed /\ RowFree /\ changed' = FALSE
  /\ displayed' = IF selected THEN displayed ELSE latest
  /\ UNCHANGED <<text, latest, selected, rows, button>>

-----------------------------------------------------------------------------
(* copyText: the clipboard, or a selection of a text area put back afterwards;
   the selection of the row is as it was before anything is told of it. *)
Copy ==
  /\ RowSpends("copies")
  /\ \/ copied' = "copied" /\ clipboard' = text /\ ticks' = ticks + 1
     \/ copied' = "failed" /\ UNCHANGED <<clipboard, ticks>>
  /\ changed' = (changed \/ selected)
  /\ UNCHANGED <<texts, selected, rows>>
CopyTick ==
  /\ ticks > 0 /\ RowFree /\ ticks' = ticks - 1
  /\ copied' = IF copied = "copied" THEN "" ELSE copied
  /\ UNCHANGED <<texts, selection, rows, clipboard>>

-----------------------------------------------------------------------------
Folds(n) == n > Kept
VisibleIn(n, all) == IF Folds(n) /\ ~all THEN n - Kept + 1 .. n ELSE 1 .. n
VisibleTools == VisibleIn(tools, unfolded)

(* What is not shown is unmounted: what was opened or loaded there is forgotten. *)
KeepMounted(S) == opened' = opened \cap S /\ loading' = loading \cap S /\ loaded' = loaded \cap S

(* The tools built anew may count as a new link to the one that has focus. *)
ToolStarts ==
  /\ RowSpends("tools") /\ tools' = tools + 1
  /\ unfolded' \in {unfolded, unfolded \/ focused # 0}
  /\ KeepMounted(VisibleIn(tools', unfolded'))
  /\ UNCHANGED <<texts, selection, focused, button>>

Unfold ==
  /\ Folds(tools) /\ RowSpends("presses") /\ unfolded' = ~unfolded
  /\ KeepMounted(VisibleIn(tools, ~unfolded))
  /\ UNCHANGED <<texts, selection, tools, focused, button>>

(* A link to a tool unfolds the row and opens its output. *)
Focus(t) ==
  /\ focused # t /\ RowSpends("presses") /\ focused' = t
  /\ unfolded' = TRUE /\ opened' = opened \cup {t}
  /\ UNCHANGED <<texts, selection, tools, loading, loaded, button>>

ToggleOutput(t) ==
  /\ t \in VisibleTools /\ RowSpends("presses")
  /\ opened' = IF t \in opened THEN opened \ {t} ELSE opened \cup {t}
  /\ UNCHANGED <<texts, selection, tools, unfolded, focused, loading, loaded, button>>

LoadOutput(t) ==
  /\ t \in (VisibleTools \cap opened) \ (loading \cup loaded) /\ RowFree
  /\ loading' = loading \cup {t}
  /\ UNCHANGED <<texts, selection, tools, unfolded, focused, opened, loaded, button>>
OutputLoaded(t) ==
  /\ t \in loading /\ loading' = loading \ {t}
  /\ \/ RowFree /\ loaded' = loaded \cup {t}
     \/ RowSpends("failures") /\ UNCHANGED loaded
  /\ UNCHANGED <<texts, selection, tools, unfolded, focused, opened, button>>

RowNext ==
  \/ Written \/ Select \/ Deselect \/ SelectionChanged \/ Copy \/ CopyTick
  \/ ToolStarts \/ Unfold
  \/ \E t \in 1 .. tools : Focus(t) \/ ToggleOutput(t) \/ LoadOutput(t) \/ OutputLoaded(t)
RowSpec == RowInit /\ [][RowNext]_rowVars

-----------------------------------------------------------------------------
ShowsHeld ==
  /\ (selected /\ selected') => displayed' = displayed
  /\ (~selected' /\ ~changed') => displayed' = text'

(* A text that is being selected does not change under the reader's hands, and
   once it is not selected and the page has been told, all that was written in
   the meantime is shown. *)
HeldThenShown == [][ShowsHeld]_rowVars
=============================================================================
