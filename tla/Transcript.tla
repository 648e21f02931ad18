----------------------------- MODULE Transcript -----------------------------
(* What the page makes of a session's events (lib/events.ts): groups, the
   chat timeline with its messages, tools, errors and breaks, what the
   agent is doing now, the permissions it waits for and the tokens it used.
   Everything is computed anew from the events the page holds.  Payloads
   are reduced to an id, a text, a label and an amount; a text is a
   sequence of characters, a label is a name or empty. *)
EXTENDS Integers, Sequences, SequencesExt

ToolTypes == {"tool.call.started", "tool.call.delta", "tool.call.completed"}
FileTypes == {"file.change.started", "file.change.delta", "file.change.completed"}
MessageTypes == {"agent.message.delta", "agent.message.completed"}
PlanTypes == {"agent.plan.delta", "agent.plan.completed"}
ThinkingTypes == {"agent.thinking.started", "agent.thinking.delta", "agent.thinking.completed"}
TerminalTypes == {"agent.run.completed", "agent.run.failed", "agent.run.cancelled"}
ActionTypes == {"session.action.completed", "user.action.completed"}
FailedTypes == {"agent.run.failed", "agent.input.failed", "user.message.steer.failed"}
UserTypes == {"user.message.completed", "user.action.completed", "user.message.steer.failed"}
DeltaTypes == {"agent.message.delta", "agent.plan.delta", "agent.thinking.delta",
               "tool.call.delta", "file.change.delta", "agent.log.delta"}

IsTerminalEvent(e) == e.type \in TerminalTypes
IsTransientEvent(e) == e.type \in DeltaTypes

(* A plan of an old Codex session is in its raw events, a piece or the whole. *)
TypeOf(e) == CASE e.type = "provider.codex.event" /\ e.tool = "plan delta" -> "agent.plan.delta"
               [] e.type = "provider.codex.event" /\ e.tool = "plan"       -> "agent.plan.completed"
               [] OTHER -> e.type
IsPlan(e) == TypeOf(e) \in PlanTypes
IsPlanDelta(e) == TypeOf(e) = "agent.plan.delta"

(* A question the agent does not wait for is something said in the chat. *)
IsAsync(e) == e.type \in {"agent.input.requested", "agent.input.answered"} /\ e.label = "async"

(* deltaTypeCompletedBy *)
DeltaTypeCompletedBy(type) ==
  CASE type = "agent.message.completed"  -> "agent.message.delta"
    [] type = "agent.plan.completed"     -> "agent.plan.delta"
    [] type = "agent.thinking.completed" -> "agent.thinking.delta"
    [] type = "tool.call.completed"      -> "tool.call.delta"
    [] type = "file.change.completed"    -> "file.change.delta"
    [] OTHER                             -> "none"

(* eventsWithoutCompletedTransient: a completed item has no deltas. *)
Superseded(old, e) ==
  /\ IsTransientEvent(old) /\ old.type = DeltaTypeCompletedBy(e.type) /\ old.seq < e.seq
  /\ e.id = "" \/ old.id = e.id

(* appendBoundedEvent: a delta grows the one of its item, the end of a run
   leaves no deltas. *)
AppendLive(events, e) ==
  LET same(old) == IsTransientEvent(old) /\ old.type = e.type /\ old.id = e.id
      before == SelectSeq(events, same)
  IN  IF IsTransientEvent(e)
      THEN SelectSeq(events, LAMBDA old : ~same(old))
             \o <<[e EXCEPT !.text = (IF before = <<>> THEN <<>> ELSE before[1].text) \o @]>>
      ELSE Append(SelectSeq(events, LAMBDA old : /\ ~Superseded(old, e)
                                                 /\ IsTerminalEvent(e) => ~IsTransientEvent(old)), e)

-----------------------------------------------------------------------------
(* Tool use of old Claude sessions, that is only in the raw events: a block
   that starts a tool, or its result, becomes a tool event after the raw one,
   unless the session has tool events of that id. *)
LegacyType(e) ==
  CASE e.type = "provider.claude.event" /\ e.tool = "use"    -> "tool.call.started"
    [] e.type = "provider.claude.event" /\ e.tool = "result" -> "tool.call.completed"
    [] OTHER -> "none"
LegacyToolEvents(e, canonical) ==
  IF LegacyType(e) = "none" \/ e.id \in canonical THEN <<>>
  ELSE <<[e EXCEPT !.type = LegacyType(e)]>>
WithLegacyTools(events) ==
  LET canonical == {events[k].id : k \in {j \in DOMAIN events : events[j].type \in ToolTypes}}
  IN  FlattenSeq([k \in DOMAIN events |-> <<events[k]>> \o LegacyToolEvents(events[k], canonical)])

Status(e) ==
  CASE IsTransientEvent(e)     -> "delta"
    [] e.type \in FailedTypes  -> "failed"
    [] e.type \in {"tool.call.started", "file.change.started", "agent.input.requested"} -> "started"
    [] OTHER -> "completed"
IsErrorEvent(e) == Status(e) = "failed"

(* groupKind *)
GroupKind(e) ==
  CASE e.type \in ActionTypes                -> "action-break"
    [] e.type = "user.message.completed"     -> "user-message"
    [] IsAsync(e)                            -> IF e.type = "agent.input.requested"
                                                THEN "agent-message" ELSE "user-message"
    [] e.type = "agent.message.completed" /\ e.tool # "" /\ e.text = <<>> -> "unknown"
    [] e.type \in MessageTypes               -> "agent-message"
    [] IsPlan(e)                             -> "plan"
    [] e.type \in ThinkingTypes              -> "thinking"
    [] e.type \in ToolTypes                  -> "tool-call"
    [] e.type \in FileTypes                  -> "file-change"
    [] IsErrorEvent(e)                       -> "error"
    [] e.type = "agent.log.delta"            -> "log"
    [] IsTerminalEvent(e)                    -> "terminal"
    [] OTHER                                 -> "unknown"

NewGroup(e) == [kind |-> GroupKind(e), id |-> e.id, status |-> Status(e), text |-> e.text,
                from |-> e.seq, to |-> e.seq, events |-> <<e>>]

AppendToGroup(group, e) ==
  [group EXCEPT !.events = Append(@, e), !.to = e.seq, !.status = Status(e), !.text = @ \o e.text]

(* groupEvents: the group an event joins, or 0.  A delta joins the group just
   before it, a tool or a file change the group of its id wherever that is, and
   without an id the one just before if it is near. *)
SameItem(a, b) == a.id = "" \/ b.id = "" \/ a.id = b.id
Joins(groups, e) ==
  LET k == Len(groups)
      last == groups[k].events[Len(groups[k].events)]
      after(type) == k > 0 /\ last.type = type
      sameId(kind) == {j \in DOMAIN groups : groups[j].kind = kind /\ groups[j].id = e.id}
      near(kind) == k > 0 /\ groups[k].kind = kind /\ e.seq - groups[k].to <= 2
      byId(kind) == IF e.id = "" THEN IF near(kind) THEN k ELSE 0
                    ELSE IF sameId(kind) = {} THEN 0 ELSE CHOOSE j \in sameId(kind) : TRUE
  IN  CASE e.type = "agent.message.delta" ->
             IF after(e.type) /\ SameItem(last, e) THEN k ELSE 0
        [] IsPlanDelta(e) -> IF k > 0 /\ IsPlanDelta(last) THEN k ELSE 0
        [] e.type \in {"agent.thinking.delta", "agent.log.delta"} ->
             IF after(e.type) THEN k ELSE 0
        [] e.type \in ToolTypes -> byId("tool-call")
        [] e.type \in FileTypes -> byId("file-change")
        [] OTHER -> 0

GroupEvents(events) ==
  FoldLeft(LAMBDA groups, e : LET k == Joins(groups, e)
                              IN  IF k = 0 THEN Append(groups, NewGroup(e))
                                  ELSE [groups EXCEPT ![k] = AppendToGroup(@, e)],
           <<>>, WithLegacyTools(events))

-----------------------------------------------------------------------------
(* toolLabelFromEvents: the newest label; chatToolText: its lines, a repeated
   one once; what toolTextLines finds in a payload is its text. *)
EventLines(e) == IF e.text = <<>> THEN <<>> ELSE <<e.text>>
ToolLabel(group) ==
  LET labelled == SelectSeq(group.events, LAMBDA e : e.label # "")
  IN  IF labelled = <<>> THEN "Tool call" ELSE labelled[Len(labelled)].label
ToolLines(group) ==
  FoldLeft(LAMBDA lines, e : IF lines # <<>> /\ EventLines(e) = <<lines[Len(lines)]>>
                             THEN lines ELSE lines \o EventLines(e),
           <<>>, group.events)
ChatTool(group) == [id |-> group.id, kind |-> group.kind, status |-> group.status,
                    label |-> ToolLabel(group), lines |-> ToolLines(group), from |-> group.from]

(* chatMessageFromGroup *)
ChatMessage(role, group) ==
  [role |-> role, text |-> IF role = "user" THEN group.text ELSE <<>>, tools |-> <<>>,
   opencode |-> FALSE, streaming |-> group.status \in {"delta", "started"}, plan |-> FALSE,
   from |-> group.from, to |-> group.to]

(* mergeChatText and isSameAssistantTextStream: providers send a text more than
   once, as a whole or as its end. *)
MergeChatText(current, next) ==
  IF next = <<>> \/ IsSuffix(next, current) THEN current
  ELSE IF IsPrefix(current, next) THEN next
  ELSE IF current = <<>> THEN next ELSE current \o <<"/">> \o next
SameTextStream(current, next) ==
  /\ current # <<>> /\ next # <<>>
  /\ IsPrefix(current, next) \/ IsSuffix(next, current)

(* buildChatTimeline: the state of the fold. *)
NoTimeline == [items |-> <<>>, messages |-> <<>>, current |-> 0, byId |-> {}]
Add(t, message) == [t EXCEPT !.messages = Append(@, message), !.current = Len(t.messages) + 1,
                             !.items = Append(@, [kind |-> "message", at |-> Len(t.messages) + 1])]

(* ensureAssistantMessage and assistantMessageForGroup: the item's own message,
   else the current one if it has the same text or no text yet, else a new one. *)
EnsureAssistant(t, group) ==
  IF t.current # 0 THEN t ELSE Add(t, ChatMessage("assistant", group))
AssistantFor(t, group) ==
  LET own == {p \in t.byId : p[1] = group.id}
      joins == /\ t.current # 0
               /\ LET m == t.messages[t.current]
                  IN  \/ SameTextStream(m.text, group.text)
                      \/ m.text = <<>> /\ m.tools # <<>>
      chosen == IF joins THEN t ELSE Add(t, ChatMessage("assistant", group))
  IN  IF group.id = "" THEN EnsureAssistant(t, group)
      ELSE IF own # {} THEN [t EXCEPT !.current = (CHOOSE p \in own : TRUE)[2]]
      ELSE [chosen EXCEPT !.byId = @ \cup {<<group.id, chosen.current>>}]

Widen(message, group) == [message EXCEPT !.from = IF group.from < @ THEN group.from ELSE @,
                                         !.to = IF group.to > @ THEN group.to ELSE @]

(* mergeAssistantMessage *)
MergeAssistant(message, group) ==
  Widen([message EXCEPT
           !.text = MergeChatText(@, group.text), !.plan = @ \/ group.kind = "plan",
           !.opencode = @ \/ \E k \in DOMAIN group.events : group.events[k].label = "opencode",
           !.streaming = /\ \E k \in DOMAIN group.events :
                               \/ group.events[k].type = "agent.message.delta"
                               \/ IsPlanDelta(group.events[k])
                         /\ group.status # "completed"], group)
AddTool(message, group) ==
  Widen([message EXCEPT !.tools = Append(@, ChatTool(group)),
                        !.streaming = group.status # "completed"], group)

(* Mutant: the prompt of the next turn leaves the assistant's message open. *)
AddGroupToOpenTurn(t, group) ==
  LET answer == AssistantFor(t, group)
      host == EnsureAssistant(t, group)
  IN  CASE group.kind \in {"action-break", "error"} ->
             [t EXCEPT !.items = Append(@, [kind |-> group.kind, at |-> group.from]), !.current = 0]
        [] group.kind = "user-message" ->
             [Add(t, ChatMessage("user", group)) EXCEPT !.current = t.current]
        [] group.kind \in {"agent-message", "plan"} ->
             [answer EXCEPT !.messages[answer.current] = MergeAssistant(@, group)]
        [] group.kind \in {"tool-call", "file-change"} ->
             [host EXCEPT !.messages[host.current] = AddTool(@, group)]
        [] OTHER -> t

AddGroup(t, group) ==
  LET answer == AssistantFor(t, group)
      host == EnsureAssistant(t, group)
  IN  CASE group.kind \in {"action-break", "error"} ->
             [t EXCEPT !.items = Append(@, [kind |-> group.kind, at |-> group.from]), !.current = 0]
        [] group.kind = "user-message" ->
             [Add(t, ChatMessage("user", group)) EXCEPT !.current = 0]
        [] group.kind \in {"agent-message", "plan"} ->
             [answer EXCEPT !.messages[answer.current] = MergeAssistant(@, group)]
        [] group.kind \in {"tool-call", "file-change"} ->
             [host EXCEPT !.messages[host.current] = AddTool(@, group)]
        [] OTHER -> t

Timeline(events) == FoldLeft(AddGroup, NoTimeline, GroupEvents(events))

(* isOpenCodeCompactionSummary: all the headings of a summary, in their order. *)
Headings == <<"#1", "#2">>
IsCompaction(text) ==
  /\ text # <<>> /\ text[1] = Headings[1]
  /\ \E i \in DOMAIN text : i > 1 /\ text[i] = Headings[2]

(* The messages that are drawn: not those without text and tools, and not
   OpenCode's summaries of what it compacted. *)
Messages(events) ==
  LET t == Timeline(events)
      items == SelectSeq(t.items, LAMBDA i : i.kind = "message")
  IN  SelectSeq([k \in DOMAIN items |-> t.messages[items[k].at]],
                LAMBDA m : /\ m.text # <<>> \/ m.tools # <<>>
                           /\ ~(m.opencode /\ IsCompaction(m.text)))

-----------------------------------------------------------------------------
(* runStartedAtBefore *)
RunStartedBefore(events, seq) ==
  LET upTo == SelectSeq(events, LAMBDA e : e.seq <= seq /\
                                           (e.type = "agent.run.started" \/ IsTerminalEvent(e)))
  IN  IF upTo = <<>> \/ upTo[Len(upTo)].type # "agent.run.started" THEN 0 ELSE upTo[Len(upTo)].seq
FirstOf(a, b, c) == IF a # 0 THEN a ELSE IF b # 0 THEN b ELSE c

(* applyAssistantBlockDurations, with the sequence number for the time. *)
Durations(events) ==
  FoldLeft(LAMBDA acc, m :
             IF m.role = "user" THEN [acc EXCEPT !.user = m.from, !.done = 0]
             ELSE IF m.streaming THEN acc
             ELSE LET start == FirstOf(acc.done, RunStartedBefore(events, m.from), acc.user)
                  IN  [acc EXCEPT !.done = m.to,
                                  !.spans = IF m.text # <<>> /\ start # 0 /\ m.to >= start
                                            THEN @ \cup {<<start, m.to>>} ELSE @],
           [user |-> 0, done |-> 0, spans |-> {}], Timeline(events).messages).spans

-----------------------------------------------------------------------------
(* What the agent is doing.  Each is a fold over the events. *)
ClearsThinking(e) ==
  \/ e.type \in MessageTypes \cup ToolTypes \cup FileTypes \/ IsPlan(e) \/ IsTerminalEvent(e)
  \/ e.type = "agent.input.requested" /\ ~IsAsync(e)

ActiveThinking(events) ==
  FoldLeft(LAMBDA acc, e :
             CASE e.type = "agent.status.started" -> acc \cup {""}
               [] e.type \in {"agent.thinking.started", "agent.thinking.delta"} -> acc \cup {e.id}
               [] e.type = "agent.thinking.completed" -> acc \ {"", e.id}
               [] ClearsThinking(e) -> {}
               [] OTHER -> acc,
           {}, events) # {}

(* Mutant: the end of a run closes nothing. *)
OpenItemsOutliveRun(events, opens, closes) ==
  FoldLeft(LAMBDA acc, e : IF TypeOf(e) \in opens THEN acc \cup {e.id}
                           ELSE IF TypeOf(e) \in closes THEN acc \ {e.id} ELSE acc, {}, events)

(* activeStreamingResponse, activeToolActivity: items opened in this run and not completed. *)
OpenItems(events, opens, closes) ==
  FoldLeft(LAMBDA acc, e :
             IF e.type = "agent.run.started" THEN [run |-> TRUE, open |-> {}]
             ELSE IF ~acc.run THEN acc
             ELSE IF IsTerminalEvent(e) THEN [run |-> FALSE, open |-> {}]
             ELSE IF TypeOf(e) \in opens THEN [acc EXCEPT !.open = @ \cup {e.id}]
             ELSE IF TypeOf(e) \in closes THEN [acc EXCEPT !.open = @ \ {e.id}]
             ELSE acc,
           [run |-> FALSE, open |-> {}], events).open
ActiveStreamingResponse(events) ==
  OpenItems(events, {"agent.message.delta", "agent.plan.delta"},
            {"agent.message.completed", "agent.plan.completed"}) # {}
ActiveToolActivity(events) ==
  OpenItems(events, (ToolTypes \cup FileTypes) \ {"tool.call.completed", "file.change.completed"},
            {"tool.call.completed", "file.change.completed"}) # {}

(* activeRunActivity: the newest visible activity of the run, 0 without a run. *)
IsVisible(e) ==
  \/ e.type \in MessageTypes \cup ThinkingTypes \cup ToolTypes \cup FileTypes \/ IsPlan(e)
  \/ e.type \in {"agent.status.started", "agent.log.delta", "agent.input.requested"}
ActiveRunActivity(events) ==
  FoldLeft(LAMBDA at, e : IF e.type = "agent.run.started" THEN e.seq
                          ELSE IF at = 0 \/ IsTerminalEvent(e) THEN 0
                          ELSE IF IsVisible(e) THEN e.seq ELSE at,
           0, events)

(* activeRunID: whether the newest event of an agent that ends a run or names
   one (has a run, which is not 0) names one. *)
RunIsActive(events) ==
  LET named == SelectSeq(events, LAMBDA e : /\ e.type \notin UserTypes
                                            /\ IsTerminalEvent(e) \/ e.run # 0)
  IN  named # <<>> /\ ~IsTerminalEvent(named[Len(named)])

(* pendingPermissionRequests *)
PendingPermissions(events) ==
  LET ends == {k \in DOMAIN events : IsTerminalEvent(events[k])}
  IN  {events[k].id : k \in {j \in DOMAIN events :
         /\ events[j].type = "agent.permission.requested"
         /\ \A k \in ends : k < j
         /\ ~ \E k \in DOMAIN events : /\ events[k].id = events[j].id
                                       /\ events[k].type \in {"agent.permission.resolved",
                                                              "agent.permission.cancelled"}}}

(* statusFromEvent *)
StatusFromEvents(events) ==
  FoldLeft(LAMBDA status, e :
             CASE e.type = "agent.run.started" -> "running"
               [] e.type = "agent.run.failed"  -> "failed"
               [] e.type \in {"agent.run.completed", "agent.run.cancelled"} -> "idle"
               [] OTHER -> status,
           "idle", events)

-----------------------------------------------------------------------------
(* claudeTokenUsageReducer: the events with a report are Claude's, and name the
   run they are of.  The first of another run, or an init, starts the account
   anew; a start of a run that is not Claude's does not.  Claude repeats a
   message's usage, its output count grows, and the finished message may repeat
   the first count; the usage of the result is the run's total. *)
Reports == {"init", "usage", "result"}
NoUsage(run) == [run |-> run, messages |-> {}, total |-> 0]
Sum(messages) == FoldSet(LAMBDA p, n : p[2] + n, 0, messages)

(* Mutant: the newest usage of a message, not the largest. *)
NewestOutput(known, amount) == amount

OutputTokens(known, amount) == IF known > amount THEN known ELSE amount

Account(acc, e) ==
  LET of == IF e.label = "init" \/ (e.run # 0 /\ e.run # acc.run) THEN NoUsage(e.run) ELSE acc
      old == {p \in of.messages : p[1] = e.id}
      known == IF old = {} THEN 0 ELSE (CHOOSE p \in old : TRUE)[2]
      messages == (of.messages \ old) \cup {<<e.id, OutputTokens(known, e.amount)>>}
  IN  CASE e.label = "usage"  -> [of EXCEPT !.messages = messages, !.total = Sum(messages)]
        [] e.label = "result" -> [of EXCEPT !.total = e.amount]
        [] e.label = "init"   -> of
        [] OTHER              -> acc
LatestTokenUsage(events) == FoldLeft(Account, NoUsage(0), events).total
=============================================================================
