-------------------------- MODULE TranscriptOfRun ---------------------------
(* An agent's run as it is heard by a page, event by event, and what
   lib/events.ts makes of it.  The agent is external: it starts and ends
   runs, sends deltas and then the whole of an item, opens tools, asks for
   permission or with a question, and reports the tokens it used, in any order
   it may; the user sends prompts, steers a run and answers. *)
EXTENDS Transcript

CONSTANTS
  Scenes     \* bounds: what an agent does in a scene, and how many events there are

VARIABLES
  scene,     \* the one of Scenes that is played
  log,       \* the session's events
  page,      \* those the page holds
  used       \* the agent's own account: per message its run and the tokens, first and now

vars == <<scene, log, page, used>>

(* Events of an agent name their run, those of the user and of the session do not. *)
RunNumber == Len(SelectSeq(log, LAMBDA e : e.type = "agent.run.started"))
Event(type, id, text) == [type |-> type, id |-> id, text |-> text, seq |-> Len(log) + 1,
                          label |-> "", tool |-> "", amount |-> 0, run |-> RunNumber]
NotOfRun(e, label) == [e EXCEPT !.run = 0, !.label = label]

Init == scene \in Scenes /\ log = <<>> /\ page = <<>> /\ used = {}

Happens(e) == /\ log' = Append(log, e) /\ page' = AppendLive(page, e) /\ UNCHANGED scene
May(what) == what \in scene.what /\ Len(log) < scene.max

-----------------------------------------------------------------------------
At(types) == {n \in DOMAIN log : log[n].type \in types}
Newest(S) == IF S = {} THEN 0 ELSE CHOOSE n \in S : \A m \in S : m <= n
RunStart == Newest(At({"agent.run.started"}))
Running == RunStart > Newest(At(TerminalTypes))
After(types, n) == {m \in At(types) : m > n}
Ids(types) == {log[n].id : n \in After(types, RunStart)}
DeltasOf(id) == FlattenSeq([n \in DOMAIN log |->
                  IF log[n].type = "agent.message.delta" /\ log[n].id = id THEN log[n].text ELSE <<>>])
EverUsed(types, id) == \E n \in At(types) : log[n].id = id

(* A prompt, and the run it starts, which says what it is if it is Claude's. *)
Prompts == {n \in At({"user.message.completed"}) : log[n].label = ""}
Prompt == /\ May("prompt") /\ ~Running /\ Newest(Prompts) <= Newest(At(TerminalTypes))
          /\ Happens(NotOfRun(Event("user.message.completed", "", <<"u">>), "")) /\ UNCHANGED used
Starts == /\ May("prompt") /\ ~Running /\ Newest(Prompts) > Newest(At(TerminalTypes))
          /\ \E report \in IF "usage" \in scene.what THEN {"init", ""} ELSE {""} :
               Happens([Event("agent.run.started", "", <<>>) EXCEPT !.run = @ + 1, !.label = report])
          /\ UNCHANGED used
Ends == /\ May("prompt") /\ Running
        /\ \E type \in TerminalTypes : Happens(Event(type, "", <<>>))
        /\ UNCHANGED used

(* A message steered into a run, or that could not be: it is confirmed while
   the run goes on, or later. *)
Steers ==
  /\ May("steer") /\ RunStart # 0 /\ \A n \in DOMAIN log : log[n].label # "steer"
  /\ \E type \in {"user.message.completed", "user.message.steer.failed"} :
       Happens(NotOfRun(Event(type, "", <<"s">>), "steer"))
  /\ UNCHANGED used

(* A question, and its answer: to one the agent does not wait for, at any later
   time, and its delivery may fail. *)
Asks ==
  /\ May("question") /\ Running /\ ~EverUsed({"agent.input.requested"}, "q1")
  /\ \E label \in {"", "async"} :
       Happens([Event("agent.input.requested", "q1", <<"b">>) EXCEPT !.label = label])
  /\ UNCHANGED used
Answers ==
  /\ May("question") /\ ~EverUsed({"agent.input.answered", "agent.input.failed"}, "q1")
  /\ \E n \in At({"agent.input.requested"}) :
       \E type \in {"agent.input.answered", "agent.input.failed"} :
         /\ ~IsAsync(log[n]) => Running /\ n > RunStart /\ type = "agent.input.answered"
         /\ Happens(NotOfRun(Event(type, "q1", <<"s">>), log[n].label))
  /\ UNCHANGED used

(* A message is sent in pieces and then as a whole, or only as a whole. *)
Says == /\ May("talk") /\ Running
        /\ \E id \in {"m1", "m2"}, c \in {"a", "b"} :
             /\ ~EverUsed({"agent.message.completed"}, id)
             /\ id \in Ids({"agent.message.delta"}) \/ ~EverUsed({"agent.message.delta"}, id)
             /\ Happens(Event("agent.message.delta", id, <<c>>))
        /\ UNCHANGED used
Said == /\ May("talk") \/ May("say")
        /\ Running
        /\ \E id \in {"m1", "m2"} \cup (IF May("say") THEN {"m4"} ELSE {}),
              more \in {<<>>, <<"a">>} \cup (IF May("say") THEN {<<"b">>} ELSE {}) :
             /\ ~EverUsed({"agent.message.completed"}, id)
             /\ id \in Ids({"agent.message.delta"}) \/ ~EverUsed({"agent.message.delta"}, id)
             /\ DeltasOf(id) \o more # <<>>
             /\ Happens(Event("agent.message.completed", id, DeltasOf(id) \o more))
        /\ UNCHANGED used
Compacts == /\ May("compact") /\ Running /\ ~EverUsed({"agent.message.completed"}, "m3")
            /\ Happens([Event("agent.message.completed", "m3", <<"#1", "b", "#2">>) EXCEPT
                          !.label = "opencode"])
            /\ UNCHANGED used
Tool == /\ May("tool") /\ Running
        /\ \E id \in {"t1", "t2"} :
             \/ /\ ~EverUsed({"tool.call.started"}, id)
                /\ Happens([Event("tool.call.started", id, <<>>) EXCEPT !.label = "run"])
             \/ /\ id \in Ids({"tool.call.started"}) \ Ids({"tool.call.completed"})
                /\ \E type \in {"tool.call.delta", "tool.call.completed"} :
                     Happens(Event(type, id, <<"o">>))
        /\ UNCHANGED used
(* Tool use of an old session, in raw events only. *)
OldTool == /\ May("old") /\ Running
           /\ \E use \in {"use", "result"} :
                /\ use = "result" => EverUsed({"provider.claude.event"}, "t3")
                /\ Happens([Event("provider.claude.event", "t3", <<"o">>) EXCEPT !.tool = use])
           /\ UNCHANGED used
Thinks == /\ May("think") /\ Running
          /\ \/ Happens(Event("agent.status.started", "", <<>>))
             \/ \E type \in ThinkingTypes, id \in {"r1", "r2"} : Happens(Event(type, id, <<>>))
          /\ UNCHANGED used
(* A plan, and one of an old Codex session, in its raw events only. *)
Plans == /\ May("plan") /\ Running
         /\ \E id \in {"l1", "l2"} :
              /\ \A n \in DOMAIN log : log[n].id = id => n > RunStart /\ IsPlanDelta(log[n])
              /\ IF id = "l1"
                 THEN \E type \in PlanTypes : Happens(Event(type, id, <<"p">>))
                 ELSE \E what \in {"plan delta", "plan"} :
                        Happens([Event("provider.codex.event", id, <<"p">>) EXCEPT !.tool = what])
         /\ UNCHANGED used
Breaks == /\ May("break") /\ ~Running /\ Happens(NotOfRun(Event("session.action.completed", "", <<>>), ""))
          /\ UNCHANGED used
Permission ==
  /\ May("ask") /\ Running
  /\ \/ /\ ~EverUsed({"agent.permission.requested"}, "p1")
        /\ Happens(Event("agent.permission.requested", "p1", <<>>))
     \/ /\ "p1" \in Ids({"agent.permission.requested"})
        /\ \E type \in {"agent.permission.resolved", "agent.permission.cancelled"} :
             Happens(Event(type, "p1", <<>>))
  /\ UNCHANGED used

(* Claude's account of a message: it grows, and the whole message may repeat
   what the first event said. *)
Uses(id, amount) == [Event("provider.claude.event", id, <<>>) EXCEPT !.label = "usage", !.amount = amount]
OfThisRun == {u \in used : u.run = RunNumber}
Usage ==
  /\ May("usage") /\ Running
  /\ \/ \E id \in {"m1", "m2"}, n \in 1 .. 2 :
          /\ \A u \in used : u.id # id
          /\ used' = used \cup {[run |-> RunNumber, id |-> id, first |-> n, now |-> n]}
          /\ Happens(Uses(id, n))
     \/ \E u \in OfThisRun, more \in 0 .. 1 :
          /\ used' = (used \ {u}) \cup {[u EXCEPT !.now = @ + more]} /\ Happens(Uses(u.id, u.now + more))
     \/ \E u \in OfThisRun : Happens(Uses(u.id, u.first)) /\ UNCHANGED used
TokensOf(run) == FoldSet(LAMBDA u, n : n + u.now, 0, {u \in used : u.run = run})
Result ==
  /\ May("usage") /\ Running /\ OfThisRun # {} /\ UNCHANGED used
  /\ Happens([Event("provider.claude.event", "", <<>>) EXCEPT !.label = "result", !.amount = TokensOf(RunNumber)])

Next == \/ Prompt \/ Starts \/ Ends \/ Steers \/ Asks \/ Answers \/ Says \/ Said \/ Compacts
        \/ Plans \/ Tool \/ OldTool \/ Thinks \/ Breaks \/ Permission \/ Usage \/ Result
Spec == Init /\ [][Next]_vars

-----------------------------------------------------------------------------
(* A turn begins with what the user says: a prompt, what was steered into a run
   and an answer that is part of the chat. *)
UserSays(e) == GroupKind(e) = "user-message"
Turn(n) == Len(SelectSeq(SubSeq(log, 1, n), UserSays))
TurnOfMessage(ms, k) == Len(SelectSeq(SubSeq(ms, 1, k), LAMBDA m : m.role = "user"))
HasPart(text, part) == \E i \in 0 .. Len(text) - Len(part) : SubSeq(text, i + 1, i + Len(part)) = part

(* A tool in the message that becomes a summary of what OpenCode compacted is
   left out with the summary: the code hides the whole message. *)
HiddenWithSummary(id) ==
  LET ms == Timeline(page).messages
  IN  \E k \in DOMAIN ms : /\ ms[k].opencode /\ IsCompaction(ms[k].text)
                           /\ \E j \in DOMAIN ms[k].tools : ms[k].tools[j].id = id

(* Everything that was said is in the timeline, in its own turn: the text of
   every whole message and plan and of every question the agent does not wait
   for in one of the assistant's messages, and every tool in
   exactly one card.  What is left out or merged is only a repetition, a
   summary of what OpenCode compacted, or a tool hidden with it. *)
EverythingSaidIsShown ==
  LET ms == Messages(page)
      cards == {<<k, j>> \in (DOMAIN ms) \X (1 .. Len(log)) : j \in DOMAIN ms[k].tools}
      toolsOf == {n \in DOMAIN log : \/ log[n].type = "tool.call.started"
                                     \/ log[n].type = "provider.claude.event" /\ log[n].tool = "use"}
      said == {n \in DOMAIN log : \/ log[n].type = "agent.message.completed" /\ log[n].label # "opencode"
                                  \/ IsPlan(log[n]) /\ ~IsPlanDelta(log[n])
                                  \/ log[n].type = "agent.input.requested" /\ IsAsync(log[n])}
  IN  /\ \A n \in said :
           \E k \in DOMAIN ms : /\ ms[k].role = "assistant" /\ TurnOfMessage(ms, k) = Turn(n)
                                /\ HasPart(ms[k].text, log[n].text)
      /\ \A id \in {i \in {log[n].id : n \in toolsOf} : ~HiddenWithSummary(i)} :
           LET own == {c \in cards : ms[c[1]].tools[c[2]].id = id}
               first == CHOOSE n \in toolsOf : log[n].id = id /\ \A m \in toolsOf : log[m].id = id => n <= m
           IN  \E c \in own : own = {c} /\ TurnOfMessage(ms, c[1]) = Turn(first)

Open(opens, closes) ==
  Running /\ \E id \in Ids(opens) : Newest({n \in At(closes) : log[n].id = id}) < Newest({n \in At(opens) : log[n].id = id})
PlanIsOpen == Running /\ \E n \in DOMAIN log : /\ n > RunStart /\ IsPlanDelta(log[n])
                                              /\ \A m \in DOMAIN log : log[m].id = log[n].id => IsPlanDelta(log[m])

(* What the page says the agent is doing is what it does: a reply is streaming
   and a tool is working exactly while one is open in a run that goes on, a
   permission is asked exactly while it waits, and merging or dropping deltas
   does not change whether it thinks. *)
ActivityIsAgents ==
  /\ ActiveStreamingResponse(page) =
       (Open({"agent.message.delta"}, {"agent.message.completed"}) \/ PlanIsOpen)
  /\ ActiveToolActivity(page) = Open({"tool.call.started"}, {"tool.call.completed"})
  /\ (PendingPermissions(page) # {}) =
       Open({"agent.permission.requested"}, {"agent.permission.resolved", "agent.permission.cancelled"})
  /\ ActiveThinking(page) = ActiveThinking(log)
  /\ Running = RunIsActive(page) /\ Running = (ActiveRunActivity(page) # 0)
  /\ Running = (StatusFromEvents(page) = "running")

(* Time that may be counted twice, as the code has it: when the user speaks
   while a run goes on, the next block is counted from the start of the run
   again; and a tool, or an old session's plan, that outlives the message after it
   carries the end of its own block over the blocks that follow. *)
SteeredInto(span) == \E n \in DOMAIN log : span[1] < n /\ n < span[2] /\ UserSays(log[n])
Outlived(span) ==
  LET item == log[span[2]].id
  IN  \E n \in DOMAIN log :
        /\ GroupKind(log[n]) \in {"agent-message", "plan"} /\ log[n].id # item /\ n < span[2]
        /\ item # "" /\ \E s \in 1 .. n : log[s].id = item

(* What a run took is counted once: no time for two blocks of a turn, but for
   the two cases above, and the tokens are those used in the run that reported
   last, however often and in whatever order a message's usage is repeated. *)
CountedOnce ==
  /\ \A a, b \in Durations(page) :
       \/ a = b \/ a[2] <= b[1] \/ b[2] <= a[1]
       \/ \E span \in {a, b} : SteeredInto(span) \/ Outlived(span)
  /\ LET newest == Newest({n \in DOMAIN log : log[n].label \in Reports})
     IN  LatestTokenUsage(page) = IF newest = 0 THEN 0 ELSE TokensOf(log[newest].run)
=============================================================================
