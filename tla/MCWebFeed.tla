----------------------------- MODULE MCWebFeed ------------------------------
(* What the page shows of the sessions, one component at a time: the list of the
   sessions, the history the browser keeps, the live end of a session, its transcript
   as it is built, unfolded and scrolled, and the search.
   The component that runs is chosen at first; the others rest. LiveTail and
   TranscriptOfRun share variables: vk is the k-th of the component that runs, in
   the order in which its module declares them, and those it does not need stay 0. *)
EXTENDS SessionList, EventCache, TranscriptRow, TranscriptScroll, SpotlightSearch

MCListBounds == {[events |-> 1, requests |-> 1, failures |-> 1, visits |-> 1],
                 [events |-> 2, requests |-> 1, failures |-> 0, visits |-> 0]}
OneList == CHOOSE b \in MCListBounds : TRUE

MCCached == [turns |-> 2, events |-> 3]
MCWrites == {[events |-> {1}, hot |-> TRUE], [events |-> {3, 4}, hot |-> FALSE],
             [events |-> 1 .. 4, hot |-> FALSE]}
MCCacheBounds == [writes |-> 2, reads |-> 1, faults |-> 1, queue |-> 1]

MCRowBounds == [deltas |-> 3, tools |-> 2, selections |-> 2,
                copies |-> 1, presses |-> 2, failures |-> 1]

MCScrollBounds == [hand |-> 1, scroll |-> 2, grow |-> 1, ask |-> 1]

MCHits == [q1 |-> {[source |-> "history", kind |-> "session"],
                   [source |-> "workspace", kind |-> "file"]},
           q2 |-> {[source |-> "history", kind |-> "message"]}]
MCSearchBounds == [queries |-> 3, failures |-> 1, filters |-> 1]

VARIABLES
  component,
  v1, v2, v3, v4, v5, v6, v7, v8, v9, v10, v11, v12, v13, v14

pooled == <<v1, v2, v3, v4, v5, v6, v7, v8, v9, v10, v11, v12, v13, v14>>
Unneeded ==
  /\ v1 = 0 /\ v2 = 0 /\ v3 = 0 /\ v4 = 0 /\ v5 = 0 /\ v6 = 0 /\ v7 = 0 /\ v8 = 0
  /\ v9 = 0 /\ v10 = 0 /\ v11 = 0 /\ v12 = 0 /\ v13 = 0 /\ v14 = 0

StartList ==
  /\ component = "SessionList" /\ Unneeded
StepList ==
  /\ component = "SessionList" /\ ListNext
  /\ UNCHANGED <<component, pooled>>

StartCache ==
  /\ component = "EventCache" /\ Unneeded
StepCache ==
  /\ component = "EventCache" /\ CacheNext
  /\ UNCHANGED <<component, pooled>>

Live == INSTANCE LiveTail WITH
  Items <- {"message"}, Questions <- {"question"},
  MaxLog <- 3, MaxRequests <- 1, MaxDrops <- 1,
  log <- v1, live <- v2, conn <- v3, wire <- v4, held <- v5, texts <- v6,
  durable <- v7, inputs <- v8, cursor <- v9, mark <- v10, watch <- v11,
  history <- v12, spent <- v13, crossed <- v14
StartLive ==
  /\ component = "LiveTail" /\ Live!Init
StepLive ==
  /\ component = "LiveTail" /\ Live!Next
  /\ UNCHANGED <<component>>

Run == INSTANCE TranscriptOfRun WITH
  Scenes <-
  {[what |-> {"prompt", "steer", "talk", "tool"}, max |-> 6],
   [what |-> {"prompt", "tool"}, max |-> 8],
   [what |-> {"prompt", "talk", "old", "break"}, max |-> 6],
   [what |-> {"prompt", "talk", "tool", "compact"}, max |-> 6],
   [what |-> {"prompt", "think", "talk", "tool", "ask"}, max |-> 5],
   [what |-> {"prompt", "say", "tool"}, max |-> 7],
   [what |-> {"prompt", "steer", "question", "say"}, max |-> 6],
   [what |-> {"prompt", "question", "think"}, max |-> 5],
   [what |-> {"prompt", "talk", "plan"}, max |-> 6],
   [what |-> {"prompt", "usage"}, max |-> 7]},
  scene <- v1, log <- v2, page <- v3, used <- v4
StartRun ==
  /\ component = "TranscriptOfRun" /\ Run!Init
  /\ v5 = 0 /\ v6 = 0 /\ v7 = 0 /\ v8 = 0 /\ v9 = 0 /\ v10 = 0 /\ v11 = 0 /\ v12 = 0
  /\ v13 = 0 /\ v14 = 0
StepRun ==
  /\ component = "TranscriptOfRun" /\ Run!Next
  /\ UNCHANGED <<component, v5, v6, v7, v8, v9, v10, v11, v12, v13, v14>>

StartRow ==
  /\ component = "TranscriptRow" /\ Unneeded
StepRow ==
  /\ component = "TranscriptRow" /\ RowNext
  /\ UNCHANGED <<component, pooled>>

StartScroll ==
  /\ component = "TranscriptScroll" /\ Unneeded
StepScroll ==
  /\ component = "TranscriptScroll" /\ ScrollNext
  /\ UNCHANGED <<component, pooled>>

StartSearch ==
  /\ component = "SpotlightSearch" /\ Unneeded
StepSearch ==
  /\ component = "SpotlightSearch" /\ SearchNext
  /\ UNCHANGED <<component, pooled>>

-----------------------------------------------------------------------------
Init ==
  /\ ListInit /\ CacheInit /\ RowInit /\ ScrollInit /\ SearchInit
  /\ StartList \/ StartCache \/ StartLive \/ StartRun \/ StartRow \/ StartScroll \/
     StartSearch
  /\ component # "TranscriptScroll" => filled /\ ~focus.on
  /\ component # "SessionList" => listLeft = OneList
Next ==
  \/ StepList /\ UNCHANGED <<cacheVars, rowVars, scrollVars, searchVars>>
  \/ StepCache /\ UNCHANGED <<listVars, rowVars, scrollVars, searchVars>>
  \/ /\ StepLive \/ StepRun
     /\ UNCHANGED <<listVars, cacheVars, rowVars, scrollVars, searchVars>>
  \/ StepRow /\ UNCHANGED <<listVars, cacheVars, scrollVars, searchVars>>
  \/ StepScroll /\ UNCHANGED <<listVars, cacheVars, rowVars, searchVars>>
  \/ StepSearch /\ UNCHANGED <<listVars, cacheVars, rowVars, scrollVars>>

vars == <<component, pooled, listVars, cacheVars, rowVars, scrollVars, searchVars>>
Spec == Init /\ [][Next]_vars

-----------------------------------------------------------------------------
(* The properties of LiveTail and TranscriptOfRun, as their modules state them.
   Those of the other components are checked as they are. *)
(* When nothing is under way the page shows of every open item what the server
   has of it: no delta is lost and none is shown twice, whatever snapshot the
   deltas raced with; a snapshot of the stream and one of a watch request that
   came in the other order are the named exception.  And every question that
   waits is asked, and none that was answered or whose run has ended; a withdrawn
   one may be. *)
RestingTailIsTrue == component = "LiveTail" => Live!RestingTailIsTrue

(* Everything that was said is in the timeline, in its own turn: the text of
   every whole message and plan and of every question the agent does not wait
   for in one of the assistant's messages, and every tool in
   exactly one card.  What is left out or merged is only a repetition, a
   summary of what OpenCode compacted, or a tool hidden with it. *)
EverythingSaidIsShown == component = "TranscriptOfRun" => Run!EverythingSaidIsShown

(* What the page says the agent is doing is what it does: a reply is streaming
   and a tool is working exactly while one is open in a run that goes on, a
   permission is asked exactly while it waits, and merging or dropping deltas
   does not change whether it thinks. *)
ActivityIsAgents == component = "TranscriptOfRun" => Run!ActivityIsAgents

(* What a run took is counted once: no time for two blocks of a turn, unless
   the user spoke while the run went on or a tool outlived the message after it,
   and the tokens are those used in the run that reported last, however often
   and in whatever order a message's usage is repeated. *)
CountedOnce == component = "TranscriptOfRun" => Run!CountedOnce

=============================================================================
