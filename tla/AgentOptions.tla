---------------------------- MODULE AgentOptions ----------------------------
(* The agent settings below the prompt (web/src/components/prompt-composer,
   RuntimeAgentOptionsSyncState): the page shows a selection, repairs it
   with the agent's catalog, saves what the user picks on the server, and
   adopts what another browser saved.  Both directions end in the same
   selection, so the page must tell a change of the user from one it made
   itself.

   A selection is a record of model, effort, fast and plan; an agent that
   has no such setting leaves it as it is.  The server is external. *)
EXTENDS Integers, Sequences

CONSTANTS
  Agents,         \* the agent types the page may show: a subset of Types
  Models,         \* the catalog's models; the first one offered is DefaultModel
  DefaultModel,
  Efforts,        \* per model of the catalog, the efforts it supports
  Foreign,        \* the options another browser may save
  Bounds          \* bound: edits, writes (of other browsers), failures

VARIABLES
  agent,    \* agentType
  catalog,  \* "loading", "ready" or "failed": codexOptions and its siblings
  sel,      \* the selection that is shown
  log,      \* the options the server has saved; its length is the sequence number
  row,      \* the session's row in this page: which of them it shows
  sync,     \* runtimeSyncRef
  call,     \* the request under way
  touched,  \* history: the user edited after the last adoption
  spent

vars == <<agent, catalog, sel, log, row, sync, call, touched, spent>>

Types == {"codex", "claude", "opencode", "pi"}
DefaultEffort == "low"

None == [model |-> "none", effort |-> "none", fast |-> FALSE, plan |-> FALSE]
NoCall == [st |-> "idle", opt |-> None, init |-> FALSE, asked |-> FALSE, ok |-> FALSE, seq |-> 0]

Spend(kind) == /\ spent[kind] < Bounds[kind]
               /\ spent' = [spent EXCEPT ![kind] = @ + 1]

Saved(seq) == IF seq = 0 THEN None ELSE log[seq]

-----------------------------------------------------------------------------
(* Selections. *)

KnownModel(o) == IF o.model \in Models THEN o.model ELSE DefaultModel
KnownEffort(o) == IF o.effort \in Efforts[KnownModel(o)] THEN o.effort ELSE DefaultEffort

ReconcileCodex(o) == [o EXCEPT !.model = KnownModel(o), !.effort = KnownEffort(o),
                        !.fast = @ /\ KnownModel(o) = DefaultModel]
ReconcileOpenCode(o) == [o EXCEPT !.model = KnownModel(o)]
ReconcilePi(o) == [o EXCEPT !.model = KnownModel(o), !.effort = KnownEffort(o)]

(* What the page makes of options, once the agent's catalog is there. *)
Reconcile(o) == CASE agent = "codex" -> ReconcileCodex(o)
                  [] agent = "opencode" -> ReconcileOpenCode(o)
                  [] agent = "pi" -> ReconcilePi(o)
                  [] OTHER -> o
WithCatalog(ready, o) == IF ready THEN Reconcile(o) ELSE o

(* runtimeAgentOptionsFromSession: claude's empty settings get the picker's
   defaults, the others stay away, which is not the same key as "". *)
ServerKey(o) ==
  IF agent = "claude" THEN [o EXCEPT !.effort = IF @ = "" THEN DefaultEffort ELSE @]
  ELSE [o EXCEPT !.model = IF @ = "" THEN "absent" ELSE @, !.effort = IF @ = "" THEN "absent" ELSE @]

(* applyRuntimeAgentOptions *)
Adopted(ready, o) ==
  IF agent = "claude" THEN [o EXCEPT !.effort = IF @ = "" THEN DefaultEffort ELSE @]
  ELSE WithCatalog(ready, o)

Ready(c) == agent = "claude" \/ c = "ready"

-----------------------------------------------------------------------------
(* The effects that run after every render, over what the page holds. *)

Page == [sel |-> sel, sync |-> sync, call |-> call, touched |-> touched]
Becomes(p) == sel' = p.sel /\ sync' = p.sync /\ call' = p.call /\ touched' = p.touched

Idle(p) == p.call.st = "idle"

SendQueued(p) ==
  IF p.sync.queued = None THEN [p EXCEPT !.call = NoCall]
  ELSE [p EXCEPT !.sync.queued = None,
                 !.call = [NoCall EXCEPT !.st = "sent", !.opt = p.sync.queued, !.asked = p.touched,
                                         !.init = ~p.sync.initialized]]

(* enqueueRuntimeAgentOptions *)
Enqueue(p, o) ==
  IF Idle(p) /\ p.sync.initialized /\ o = p.sync.key THEN p
  ELSE LET q == [p EXCEPT !.sync.queued = o]
       IN  IF Idle(p) THEN SendQueued(q) ELSE q

(* Mutant: the page takes every change of the selection for an edit. *)
EditEffectAnyway(c, p, shown) == IF ~Ready(c) THEN p ELSE Enqueue(p, shown)

(* The page's own change of the selection is not sent back. *)
EditEffect(c, p, shown) ==
  IF ~Ready(c) THEN p
  ELSE IF p.sync.adopting # None
  THEN IF shown = p.sync.adopting THEN [p EXCEPT !.sync.adopting = None] ELSE p
  ELSE Enqueue(p, shown)

Adopt(c, p) == [p EXCEPT !.sync.adopting = p.sync.key, !.touched = FALSE,
                         !.sel = Adopted(c = "ready", p.sync.confirmed)]

(* The effect over the session's row, unless an answer was newer. *)
Heeded(p, r) == Saved(r) # None /\ r >= p.sync.seq
Adopts(p, r) == Heeded(p, r) /\ Idle(p) /\ p.sync.queued = None

AdoptEffect(c, p, r) ==
  IF ~Heeded(p, r) THEN p
  ELSE LET q == [p EXCEPT !.sync.seq = r, !.sync.initialized = TRUE,
                          !.sync.confirmed = log[r], !.sync.key = ServerKey(log[r])]
       IN  IF Adopts(p, r) THEN Adopt(c, q) ELSE q

(* What was adopted is shown, and looked at, in the next round of rendering;
   a new row alone does not make the page look at its own selection. *)
Settle(c, p) == EditEffect(c, p, p.sel)
ShowRow(c, p, r) == LET q == AdoptEffect(c, p, r)
                    IN  IF Adopts(p, r) THEN Settle(c, q) ELSE q
Render(c, p, r) == LET q == EditEffect(c, AdoptEffect(c, p, r), p.sel)
                   IN  IF Adopts(p, r) THEN Settle(c, q) ELSE q

-----------------------------------------------------------------------------
(* The page opens with what the server has, or what the browser stored. *)
Init ==
  /\ agent \in Agents
  /\ catalog = IF agent = "claude" THEN "ready" ELSE "loading"
  /\ \E before \in {<<>>} \cup {<<o>> : o \in Foreign}, stored \in Foreign :
       /\ log = before /\ row = Len(before)
       /\ LET first == IF before = <<>> THEN stored ELSE before[1]
              p == [sel |-> Adopted(FALSE, first),
                    sync |-> [queued |-> None, initialized |-> before # <<>>,
                              confirmed |-> IF before = <<>> THEN None ELSE first,
                              key |-> IF before = <<>> THEN None ELSE ServerKey(first),
                              seq |-> row, adopting |-> None],
                    call |-> NoCall, touched |-> FALSE]
              q == Render(catalog, p, row)
          IN  sel = q.sel /\ sync = q.sync /\ call = q.call /\ touched = q.touched
  /\ spent = [k \in DOMAIN Bounds |-> 0]

(* fetchAgentOptions answers, or fails for as long as the page stays. *)
CatalogArrives ==
  /\ catalog = "loading"
  /\ \/ catalog' = "ready" /\ UNCHANGED spent
     \/ catalog' = "failed" /\ Spend("failures")
  /\ Becomes(IF catalog' = "failed" THEN Page
             ELSE Render("ready", [Page EXCEPT !.sel = Reconcile(sel)], row))
  /\ UNCHANGED <<agent, log, row>>

(* The toolbars: a model brings its efforts along, the rest is a field each. *)
Edit(o) == /\ o # sel /\ Spend("edits")
           /\ Becomes(Settle(catalog, [Page EXCEPT !.sel = o, !.touched = TRUE]))
           /\ UNCHANGED <<agent, catalog, log, row>>
Offers == agent # "claude" /\ catalog = "ready"

EditCodex ==
  /\ agent = "codex" /\ Offers
  /\ \/ \E m \in Models : Edit(ReconcileCodex([sel EXCEPT !.model = m]))
     \/ \E e \in Efforts[KnownModel(sel)] : Edit([sel EXCEPT !.effort = e])
     \/ KnownModel(sel) = DefaultModel /\ Edit([sel EXCEPT !.fast = ~@])
     \/ Edit([sel EXCEPT !.plan = ~@])
EditOpenCode ==
  /\ agent = "opencode" /\ Offers
  /\ \/ \E m \in Models : Edit(ReconcileOpenCode([sel EXCEPT !.model = m]))
     \/ Edit([sel EXCEPT !.plan = ~@])
EditPi ==
  /\ agent = "pi" /\ Offers
  /\ \/ \E m \in Models : Edit(ReconcilePi([sel EXCEPT !.model = m]))
     \/ \E e \in Efforts[KnownModel(sel)] : Edit([sel EXCEPT !.effort = e])
EditClaude ==
  /\ agent = "claude"
  /\ \/ \E m \in Models : Edit([sel EXCEPT !.model = m])
     \/ \E e \in UNION {Efforts[m] : m \in Models} : Edit([sel EXCEPT !.effort = e])
     \/ Edit([sel EXCEPT !.plan = ~@])

(* The server (external) saves the options, unless they were only meant to
   initialize and there are some; its answer may be lost. *)
Serve ==
  /\ call.st = "sent"
  /\ log' = IF call.init /\ log # <<>> THEN log ELSE Append(log, call.opt)
  /\ \/ call' = [call EXCEPT !.st = "answered", !.ok = TRUE, !.seq = Len(log')] /\ UNCHANGED spent
     \/ call' = [call EXCEPT !.st = "answered"] /\ Spend("failures")
  /\ UNCHANGED <<agent, catalog, sel, row, sync, touched>>
Refuse ==
  /\ call.st = "sent" /\ Spend("failures")
  /\ call' = [call EXCEPT !.st = "answered"]
  /\ UNCHANGED <<agent, catalog, sel, log, row, sync, touched>>
OtherBrowser ==
  /\ Spend("writes")
  /\ \E o \in Foreign : log' = Append(log, o)
  /\ UNCHANGED <<agent, catalog, sel, row, sync, call, touched>>

(* An event or an answer changes the row; an answer may be older than it. *)
RowChanges ==
  /\ \E r \in 1 .. Len(log) :
       /\ r # row /\ row' = r
       /\ Becomes(ShowRow(catalog, Page, r))
  /\ UNCHANGED <<agent, catalog, log, spent>>

(* Mutant: an answer counts however old it is. *)
ConfirmAny(p, c) ==
  [p EXCEPT !.sync.initialized = TRUE, !.sync.seq = c.seq, !.sync.confirmed = log[c.seq],
            !.sync.key = ServerKey(log[c.seq])]

(* The answer: an older one than the page has heard of confirms nothing, and
   what the user picked meanwhile is sent before anything is adopted. *)
Confirm(p, c) ==
  LET q == [p EXCEPT !.sync.initialized = TRUE]
  IN  IF c.seq < p.sync.seq THEN q
      ELSE [q EXCEPT !.sync.seq = c.seq, !.sync.confirmed = log[c.seq],
                     !.sync.key = ServerKey(log[c.seq])]
Answered ==
  /\ call.st = "answered" /\ call.ok
  /\ LET q == Confirm(Page, call)
     IN  Becomes(IF q.sync.queued # None THEN SendQueued(q)
                 ELSE Settle(catalog, Adopt(catalog, [q EXCEPT !.call = NoCall])))
  /\ UNCHANGED <<agent, catalog, log, row, spent>>

(* A failed request takes the selection back to what is confirmed. *)
Failed ==
  /\ call.st = "answered" /\ ~call.ok
  /\ LET q == [Page EXCEPT !.sync.queued = None, !.call = NoCall, !.touched = FALSE]
     IN  Becomes(IF q.sync.confirmed = None THEN q ELSE Settle(catalog, Adopt(catalog, q)))
  /\ UNCHANGED <<agent, catalog, log, row, spent>>

Next == \/ CatalogArrives \/ EditCodex \/ EditOpenCode \/ EditPi \/ EditClaude
        \/ Serve \/ Refuse \/ OtherBrowser \/ RowChanges \/ Answered \/ Failed
Spec == Init /\ [][Next]_vars

-----------------------------------------------------------------------------
SavesChosen ==
  (call.st = "sent" /\ log' # log /\ log # <<>> /\ call'.st = "answered") => call.asked

(* A page never replaces options that were saved by options the user of the
   page did not pick: repairing a selection with the catalog, or adopting the
   one of another browser, is not an edit. *)
OnlyChosenOptionsSaved == [][SavesChosen]_vars

(* At rest, and with no edit that went unheard, the page shows what the server
   has saved last, as far as the catalog allows. *)
SettledShowsServer ==
  (call.st = "idle" /\ row = Len(log) /\ log # <<>> /\ ~touched)
    => sel = Adopted(catalog = "ready", log[Len(log)])
=============================================================================
