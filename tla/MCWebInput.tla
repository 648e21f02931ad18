----------------------------- MODULE MCWebInput -----------------------------
(* What the user does with a session, one component at a time: what they write
   and queue, the agent's options, what it asks, its files, skills and schedules.
   The component that runs is chosen at first; the others rest.  In AgentOptions
   vk is the component's k-th variable, in the order in which its module declares
   them; the other components have variables of their own. *)
EXTENDS Integers, Sequences, FiniteSets, Composer, QueuedMessages, FileEditor, RequestCards,
        RepositorySkills, SessionSchedules

MCScenes ==
  {[tabs |-> {"A"}, texts |-> {"m", "n"}, presses |-> 2, faults |-> 1, leaves |-> 1],
   [tabs |-> {"A", "B"}, texts |-> {"m"}, presses |-> 1, faults |-> 1, leaves |-> 1],
   [tabs |-> {"A", "B"}, texts |-> {"m"}, presses |-> 2, faults |-> 0, leaves |-> 0]}
MCQueueBounds ==
  {[show |-> 1, read |-> 1, lost |-> 1, missed |-> 1, press |-> 0],
   [show |-> 1, read |-> 1, lost |-> 0, missed |-> 1, press |-> 1],
   [show |-> 1, read |-> 2, lost |-> 0, missed |-> 0, press |-> 1],
   [show |-> 0, read |-> 2, lost |-> 1, missed |-> 0, press |-> 1],
   [show |-> 0, read |-> 2, lost |-> 0, missed |-> 0, press |-> 2]}
MCEditorBounds ==
  {[agent |-> 1, open |-> 2, lost |-> 1, reload |-> 1, type |-> 2, save |-> 2],
   [agent |-> 1, open |-> 2, lost |-> 0, reload |-> 0, type |-> 3, save |-> 2],
   [agent |-> 0, open |-> 2, lost |-> 0, reload |-> 0, type |-> 3, save |-> 3]}
MCCardsBounds == [presses |-> 5, typing |-> 2, failures |-> 1, turns |-> 2]
MCRequests == <<1, 2>>
MCSkillsBounds == [presses |-> 3, contents |-> 2, entries |-> 1, lost |-> 1]
MCPanelBounds ==
  {[presses |-> 1, elsewhere |-> 1, runs |-> 0, lost |-> 1, windows |-> 0, loads |-> 2],
   [presses |-> 1, elsewhere |-> 0, runs |-> 1, lost |-> 1, windows |-> 0, loads |-> 2],
   [presses |-> 1, elsewhere |-> 1, runs |-> 1, lost |-> 0, windows |-> 0, loads |-> 1],
   [presses |-> 0, elsewhere |-> 1, runs |-> 1, lost |-> 0, windows |-> 2, loads |-> 2],
   [presses |-> 0, elsewhere |-> 1, runs |-> 1, lost |-> 1, windows |-> 1, loads |-> 2],
   [presses |-> 1, elsewhere |-> 1, runs |-> 0, lost |-> 0, windows |-> 1, loads |-> 2]}

VARIABLES
  component,
  v1, v2, v3, v4, v5, v6, v7, v8, v9

pooled == <<v1, v2, v3, v4, v5, v6, v7, v8, v9>>
Unneeded ==
  /\ v1 = 0 /\ v2 = 0 /\ v3 = 0 /\ v4 = 0 /\ v5 = 0 /\ v6 = 0 /\ v7 = 0 /\ v8 = 0
  /\ v9 = 0

StartPrompt ==
  /\ component = "Composer" /\ Unneeded
StepPrompt ==
  /\ component = "Composer" /\ PromptNext
  /\ UNCHANGED <<component, pooled, queueVars, editorVars, cardsVars, skillsVars, panelVars>>

StartQueue ==
  /\ component = "QueuedMessages" /\ Unneeded
StepQueue ==
  /\ component = "QueuedMessages" /\ QueueNext
  /\ UNCHANGED <<component, pooled, promptVars, editorVars, cardsVars, skillsVars, panelVars>>

Agent == INSTANCE AgentOptions WITH
  Agents <- {"codex", "claude", "opencode", "pi"}, Models <- {"a", "b"},
  DefaultModel <- "a",
  Efforts <- [a |-> {"low", "high"}, b |-> {"low"}],
  Foreign <- {[model |-> "a", effort |-> "high", fast |-> FALSE, plan |-> FALSE],
              [model |-> "gone", effort |-> "low", fast |-> TRUE, plan |-> FALSE]},
  Bounds <- [edits |-> 2, writes |-> 1, failures |-> 1],
  agent <- v1, catalog <- v2, sel <- v3, log <- v4, row <- v5, sync <- v6,
  call <- v7, touched <- v8, spent <- v9
StartAgent ==
  /\ component = "AgentOptions" /\ Agent!Init
StepAgent ==
  /\ component = "AgentOptions" /\ Agent!Next
  /\ UNCHANGED <<component, promptVars, queueVars, editorVars, cardsVars, skillsVars, panelVars>>

StartSkills ==
  /\ component = "RepositorySkills" /\ Unneeded
StepSkills ==
  /\ component = "RepositorySkills" /\ SkillsNext
  /\ UNCHANGED <<component, pooled, promptVars, queueVars, editorVars, cardsVars, panelVars>>

StartPanel ==
  /\ component = "SessionSchedules" /\ Unneeded
StepPanel ==
  /\ component = "SessionSchedules" /\ PanelNext
  /\ UNCHANGED <<component, pooled, promptVars, queueVars, editorVars, cardsVars, skillsVars>>

StartEditor ==
  /\ component = "FileEditor" /\ Unneeded
StepEditor ==
  /\ component = "FileEditor" /\ EditorNext
  /\ UNCHANGED <<component, pooled, promptVars, queueVars, cardsVars, skillsVars, panelVars>>

StartCards ==
  /\ component = "RequestCards" /\ Unneeded
StepCards ==
  /\ component = "RequestCards" /\ CardsNext
  /\ UNCHANGED <<component, pooled, promptVars, queueVars, editorVars, skillsVars, panelVars>>

-----------------------------------------------------------------------------
\* What a component may start with is chosen when it is what runs.
OneScene == CHOOSE s \in MCScenes : TRUE
OneQueue == CHOOSE b \in MCQueueBounds : TRUE
OnePanel == CHOOSE b \in MCPanelBounds : TRUE
OneEditor == CHOOSE b \in MCEditorBounds : TRUE
Init ==
  /\ StartPrompt \/ StartQueue \/ StartAgent \/ StartSkills \/ StartPanel \/
     StartEditor \/ StartCards
  /\ PromptInit /\ (component # "Composer" => scene = OneScene)
  /\ SkillsInit /\ (component # "RepositorySkills" => content = [n \in Names |-> Absent])
  /\ PanelInit /\ (component # "SessionSchedules" => schedule = Gone /\ panelLeft = OnePanel)
  /\ QueueInit /\ (component # "QueuedMessages" => queueLeft = OneQueue)
  /\ EditorInit /\ (component # "FileEditor" => editorLeft = OneEditor)
  /\ CardsInit
Next ==
  \/ StepPrompt \/ StepQueue \/ StepAgent \/ StepEditor \/ StepCards \/ StepSkills \/ StepPanel

vars == <<component, pooled, promptVars, queueVars, editorVars, cardsVars, skillsVars, panelVars>>
Spec == Init /\ [][Next]_vars

-----------------------------------------------------------------------------
(* The properties: each of a component, as its module states it.  Those of the
   components with variables of their own are checked as they are. *)
(* At rest, and with no edit that went unheard, the page shows what the server
   has saved last, as far as the catalog allows. *)
SettledShowsServer == component = "AgentOptions" => Agent!SettledShowsServer

(* A page never replaces options that were saved by options the user of the
   page did not pick: repairing a selection with the catalog, or adopting the
   one of another browser, is not an edit. *)
OnlyChosenOptionsSaved == [][component = "AgentOptions" => Agent!SavesChosen]_vars
=============================================================================
