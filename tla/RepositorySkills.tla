-------------------------- MODULE RepositorySkills --------------------------
(* The skills of a workspace: the panel that edits them (components/
   repository-skills.tsx) over the files and the bridges through which
   Claude finds them (internal/reposkills/manager.go), which agents and the
   user's own tools write at the same time.  A skill's content is a number;
   an update is a comparison of revisions and, later, a write. *)
EXTENDS Integers, FiniteSets

CONSTANTS
  Names,         \* directory names of skills
  SkillsBounds   \* bound: presses, contents written, entries put at Claude's path, lost answers

ASSUME SkillsAssumption == IsFiniteSet(Names)

VARIABLES
  content,         \* what the SKILL.md of each name holds, or Absent
  bridge,          \* .claude/skills/<name>: "missing", "linked" or "conflict"
  placed, backups, \* entries others have put there (Crossed: counted when it is
                   \* left in place); those moved to a backup
  skills,          \* the catalog shown: names, and the state of their bridges
  ignored,         \* conflicts the reader keeps
  form,            \* the editor, or NoForm
  request,         \* what is on its way, or NoAsking: busy
  error, raced,    \* a message is shown; the file changed after the comparison
  skillsSpent

workspace == <<content, bridge, placed, backups>>
skillsVars == <<workspace, skills, ignored, form, request, error, raced, skillsSpent>>

SpendSkills(kind) == /\ skillsSpent[kind] < SkillsBounds[kind]
                     /\ skillsSpent' = [skillsSpent EXCEPT ![kind] = @ + 1]
NoneSpent == skillsSpent' = skillsSpent

Absent == 0
NoName == "none"
NoForm == [from |-> NoName, name |-> NoName, text |-> Absent, revision |-> Absent]
NoAsking == [what |-> "none", name |-> NoName, form |-> NoForm]
Asking(what) == [NoAsking EXCEPT !.what = what]
Written == skillsSpent.contents + 2     \* a content no file had before

SkillsInit ==
  /\ content \in [Names -> {Absent, 1}] /\ bridge = [n \in Names |-> "missing"]
  /\ placed = 0 /\ backups = 0 /\ skills = [n \in {} |-> "missing"] /\ ignored = {}
  /\ form = NoForm /\ request = Asking("load") /\ error = FALSE /\ raced = FALSE
  /\ skillsSpent = [kind \in DOMAIN SkillsBounds |-> 0]

-----------------------------------------------------------------------------
(* Others write skills, and entries of their own at Claude's path. *)
OthersWrite(n) ==
  /\ SpendSkills("contents")
  /\ content' = [content EXCEPT ![n] = Written]
  /\ raced' = (raced \/ (request.what = "write" /\ request.form.from = n))
  /\ UNCHANGED <<bridge, placed, backups, skills, ignored, form, request, error>>
(* The server has found its link there and is about to remove it. *)
Crossed(n) == request.what = "unbridge" /\ request.name = n
OthersPlace(n) ==
  /\ bridge[n] # "conflict" /\ SpendSkills("entries")
  /\ bridge' = [bridge EXCEPT ![n] = "conflict"]
  /\ placed' = IF Crossed(n) THEN placed ELSE placed + 1
  /\ UNCHANGED <<content, backups, skills, ignored, form, request, error, raced>>

Ensured(b, n) == [b EXCEPT ![n] = IF @ = "missing" THEN "linked" ELSE @]

-----------------------------------------------------------------------------
(* What the buttons ask, one thing at a time. *)
Press(what, n) ==
  /\ request = NoAsking /\ n \in DOMAIN skills /\ SpendSkills("presses")
  /\ \/ what = "edit" /\ form = NoForm
     \/ what = "delete"
     \/ what = "link" /\ skills[n] = "missing"
     \/ what = "replace" /\ skills[n] = "conflict"
  /\ request' = [Asking(what) EXCEPT !.name = n] /\ error' = FALSE
  /\ UNCHANGED <<workspace, skills, ignored, form, raced>>

RepairAll ==
  /\ request = NoAsking /\ \E n \in DOMAIN skills : skills[n] = "missing"
  /\ SpendSkills("presses") /\ request' = Asking("repair") /\ error' = FALSE
  /\ UNCHANGED <<workspace, skills, ignored, form, raced>>

Keep(n) ==
  /\ request = NoAsking /\ n \in DOMAIN skills /\ skills[n] = "conflict"
  /\ SpendSkills("presses")
  /\ ignored' = IF n \in ignored THEN ignored \ {n} ELSE ignored \cup {n}
  /\ UNCHANGED <<workspace, skills, form, request, error, raced>>

NewSkill(n) ==
  /\ request = NoAsking /\ form = NoForm /\ SpendSkills("presses")
  /\ form' = [NoForm EXCEPT !.name = n, !.text = 1]
  /\ UNCHANGED <<workspace, skills, ignored, request, error, raced>>
Change(n) ==
  /\ form # NoForm /\ SpendSkills("contents")
  /\ form' = [form EXCEPT !.name = n, !.text = Written]
  /\ UNCHANGED <<workspace, skills, ignored, request, error, raced>>
CancelSkill ==
  /\ form # NoForm /\ form' = NoForm /\ NoneSpent
  /\ UNCHANGED <<workspace, skills, ignored, request, error, raced>>
SaveSkill ==
  /\ form # NoForm /\ request = NoAsking /\ SpendSkills("presses")
  /\ request' = [Asking("save") EXCEPT !.form = form] /\ error' = FALSE
  /\ UNCHANGED <<workspace, skills, ignored, form, raced>>

-----------------------------------------------------------------------------
ActionFailed == request' = NoAsking /\ error' = TRUE
(* After an action the catalog is read again. *)
Succeeded == request' = Asking("load") /\ UNCHANGED error

(* What was done is heard of, or its answer is lost; a save that is heard of
   closes the editor. *)
ActionHeard == \/ NoneSpent /\ Succeeded
               \/ SpendSkills("lost") /\ ActionFailed
SaveHeard ==
  \/ NoneSpent /\ form' = NoForm /\ Succeeded
  \/ SpendSkills("lost") /\ ActionFailed /\ UNCHANGED form

Loaded ==
  /\ request.what = "load" /\ NoneSpent
  /\ skills' = [n \in {m \in Names : content[m] # Absent} |-> bridge[n]]
  /\ request' = NoAsking /\ error' = FALSE
  /\ UNCHANGED <<workspace, ignored, form, raced>>

OpenedSkill ==
  /\ request.what = "edit" /\ NoneSpent
  /\ IF content[request.name] = Absent
     THEN ActionFailed /\ UNCHANGED form
     ELSE /\ form' = [from |-> request.name, name |-> request.name,
                      text |-> content[request.name], revision |-> content[request.name]]
          /\ request' = NoAsking /\ UNCHANGED error
  /\ UNCHANGED <<workspace, skills, ignored, raced>>

(* Create *)
Created ==
  LET f == request.form IN
  /\ request.what = "save" /\ f.from = NoName
  /\ IF content[f.name] # Absent
     THEN NoneSpent /\ ActionFailed /\ UNCHANGED <<content, bridge, form>>
     ELSE /\ content' = [content EXCEPT ![f.name] = f.text]
          /\ bridge' = Ensured(bridge, f.name)
          /\ SaveHeard
  /\ UNCHANGED <<placed, backups, skills, ignored, raced>>

(* removeOwnedBridge: the look at the bridge; the removal is a step of its own. *)
Unbridge(n) == request' = [request EXCEPT !.what = "unbridge", !.name = n] /\ UNCHANGED error

(* Mutant: the revision the editor was opened on does not matter. *)
StaleIfGone(f) == content[f.from] = Absent
Stale(f) == content[f.from] = Absent \/ f.revision # content[f.from]

(* Update: the comparison, *)
Compared ==
  LET f == request.form IN
  /\ request.what = "save" /\ f.from # NoName /\ NoneSpent
  /\ IF Stale(f) THEN ActionFailed
     ELSE request' = [request EXCEPT !.what = "write"] /\ UNCHANGED error
  /\ raced' = FALSE
  /\ UNCHANGED <<workspace, skills, ignored, form>>
(* and the write, over whatever is there by then. *)
Updated ==
  LET f == request.form IN
  /\ request.what = "write"
  /\ \/ /\ f.name = f.from
        /\ content' = [content EXCEPT ![f.from] = f.text] /\ UNCHANGED bridge
        /\ SaveHeard
     \/ /\ f.name # f.from /\ content[f.name] = Absent
        /\ content' = [content EXCEPT ![f.name] = f.text, ![f.from] = Absent]
        /\ \/ bridge[f.from] = "linked" /\ NoneSpent /\ Unbridge(f.from)
              /\ UNCHANGED <<bridge, form>>
           \/ bridge[f.from] # "linked" /\ bridge' = Ensured(bridge, f.name) /\ SaveHeard
     \/ /\ f.name # f.from /\ content[f.name] # Absent
        /\ NoneSpent /\ ActionFailed /\ UNCHANGED <<content, bridge, form>>
  /\ UNCHANGED <<placed, backups, skills, ignored, raced>>

Deleted ==
  LET n == request.name IN
  /\ request.what = "delete"
  /\ \/ content[n] = Absent /\ NoneSpent /\ ActionFailed /\ UNCHANGED content
     \/ /\ content[n] # Absent /\ bridge[n] = "linked" /\ NoneSpent /\ Unbridge(n)
        /\ UNCHANGED content
     \/ /\ content[n] # Absent /\ bridge[n] # "linked" /\ ActionHeard
        /\ content' = [content EXCEPT ![n] = Absent]
  /\ UNCHANGED <<bridge, placed, backups, skills, ignored, form, raced>>

(* os.Remove takes what is at Claude's path by then, but for a directory with
   something in it; then the deletion or the rename is finished. *)
Unbridged ==
  LET n == request.name
      f == request.form IN
  /\ request.what = "unbridge"
  /\ \E left \in {"missing"} \cup ({bridge[n]} \cap {"conflict"}) :
       LET b == [bridge EXCEPT ![n] = left] IN
       /\ placed' = IF left = "conflict" THEN placed + 1 ELSE placed
       /\ \/ /\ f = NoForm /\ ActionHeard
             /\ content' = [content EXCEPT ![n] = Absent] /\ bridge' = b /\ UNCHANGED form
          \/ /\ f # NoForm /\ SaveHeard
             /\ bridge' = Ensured(b, f.name) /\ UNCHANGED content
  /\ UNCHANGED <<backups, skills, ignored, raced>>

(* RepairBridge; a conflict is moved out of the way only when that was asked. *)
Bridged ==
  LET n == request.name IN
  /\ request.what \in {"link", "replace"}
  /\ IF content[n] = Absent \/ (request.what = "link" /\ bridge[n] = "conflict")
     THEN NoneSpent /\ ActionFailed /\ UNCHANGED <<bridge, backups, ignored>>
     ELSE /\ backups' = backups + Cardinality({n} \cap {m \in Names : bridge[m] = "conflict"})
          /\ bridge' = [bridge EXCEPT ![n] = "linked"] /\ ActionHeard
          /\ ignored' = IF request.what = "replace" /\ ~error' THEN ignored \ {n} ELSE ignored
  /\ UNCHANGED <<content, placed, skills, form, raced>>
Repaired ==
  /\ request.what = "repair" /\ ActionHeard
  /\ bridge' = [n \in Names |-> IF content[n] # Absent THEN Ensured(bridge, n)[n] ELSE bridge[n]]
  /\ UNCHANGED <<content, placed, backups, skills, ignored, form, raced>>

(* No answer: the editor stays open. *)
Lost ==
  /\ request # NoAsking /\ request.what \notin {"write", "unbridge"} /\ SpendSkills("lost") /\ ActionFailed
  /\ UNCHANGED <<workspace, skills, ignored, form, raced>>

SkillsNext ==
  \/ \E n \in Names : OthersWrite(n) \/ OthersPlace(n) \/ Keep(n) \/ NewSkill(n) \/ Change(n)
  \/ \E what \in {"edit", "delete", "link", "replace"}, n \in Names : Press(what, n)
  \/ RepairAll \/ CancelSkill \/ SaveSkill
  \/ Loaded \/ OpenedSkill \/ Created \/ Compared \/ Updated \/ Deleted \/ Unbridged
  \/ Bridged \/ Repaired \/ Lost
SkillsSpec == SkillsInit /\ [][SkillsNext]_skillsVars

-----------------------------------------------------------------------------
ReplacesRead ==
  \A n \in Names :
    request.what = "write" /\ content[n] # Absent /\ content'[n] \notin {content[n], Written}
      => content[n] = request.form.revision \/ raced
EntriesAreKept ==
  Cardinality({n \in Names : bridge[n] = "conflict" /\ ~Crossed(n)}) + backups = placed
KeepsOthersWork == ReplacesRead /\ EntriesAreKept'

(* A save replaces only the content its editor was opened on, however the file, the
   catalog and the editor changed in between, unless the file was written between
   the server's comparison and its write.  And what others put at Claude's path is
   there or in a backup, through every edit, rename, deletion and repair, unless it
   was put there (Crossed) between the server's look at its own link and the
   removal of that link. *)
OthersWorkIsKept == [][KeepsOthersWork]_skillsVars
=============================================================================
