# Threave (Gorchestra): a verification development

Threave runs coding agents on a developer's own machine: a Go server keeps
sessions, their event log, a queue of messages and schedules in SQLite, starts
one agent process per session at a time, and serves a web client. The page keeps
a copy of much of that state, shows the user's changes before they are
confirmed, and must agree with the server again after every lost stream, late
answer and reload. The modules in this directory model both sides: who may
start a run, what becomes of a message and what survives a failed write or a
restart on the server; what the page shows, keeps and sends in the browser. TLC
checks them on small instances; TLAPS proves the safety of the server's core for
all instances.

## 1. The system

### The server

| Component (source) | State | Operations | What makes it correct |
|---|---|---|---|
| Message queue and run launching (`internal/httpapi/sessions.go`, `internal/store/store.go`) | `sessions.status`, `archived_at`; `queued_messages` rows pending, sending, sent, removed | post, enqueue, claim, launch, settle, remove, cancel, archive, restore, clear | one run per session, each message run at most once, nothing forgotten, rows and status agree with what is going on |
| Run manager (`internal/session/`) | one entry per session: run id, cancel function, open questions, permissions, steering handler | register, cancel, cancel an exact run, ask/answer, permit, steer, cleanup | an entry has one owner; a cancellation, answer or steering never reaches another run |
| Schedules (`internal/scheduler/`, `internal/store/schedules.go`) | `session_schedules`, `schedule_occurrences`, the timer | create, update, delete, run now, due, occurrence life cycle | an occurrence is queued once, settled once, and its row and status agree |
| Startup (`cmd/app/main.go`) | - | settle interrupted runs, occurrences and submissions; dispatch waiting queues | nothing is shown as running without a run |
| Event service and storage (`internal/events/`, `internal/store/`) | per-session sequence, global cursor, replay buffer, subscribers, open items, counters | append, subscribe, snapshot, drop | gap-free order per session; a subscriber sees every event or learns that it must resume |
| Submissions (`message_submissions`, `run_control`) | claimed and completed receipts | claim, complete, replay, fail at startup | a retried request has one effect |
| Lineage (`internal/store/store.go`, `lineage.go`) | parent, depth | create child, move | a forest of bounded depth |
| Hosted previews (`internal/hosting/`) | runtimes with a generation, processes, a ring of output | start, stop, restart, exit, restore, follow logs | a late exit touches nothing; output is not lost silently |
| Notifications (`internal/notifications/`) | subscriptions, acknowledgements, waiting notices | subscribe, acknowledge, push | at most one push per unseen event, and one for every unseen one |
| Skills (`internal/reposkills/`) | `SKILL.md` files and their bridges for Claude | create, update, delete, repair | what others put there is kept |
| Agent adapters (`internal/agents/`) | provider processes and protocols | run, emit | one terminal event, return when cancelled |
| Maintenance, console, router, workspaces, dashboard, CLI | batches, terminals, projections | - | mostly I/O |

### The web client and the development stack

| Component (source under `web/src/`) | State | What makes it correct |
|---|---|---|
| History (`hooks/use-session-events.ts`, `lib/client-event-store.ts`, `lib/session-event-window.ts`) | a tail per session, the view's window, requests, the stream's cursor | windows without holes that catch up with the server |
| Stored history (`lib/session-cache.ts`) | IndexedDB: events, per session an entry with coverage and bytes, hot windows | coverage claims nothing that is not there, accounting is exact |
| Session list (`App.tsx`, `lib/session-events.ts`, `lib/session-attention.ts`) | rows, attention, optimistic changes | the server's state when all is quiet, attention exactly when due |
| Live tail (`lib/client-event-store.ts`, `lib/input-events.ts`) | transient deltas, waiting questions, snapshot marks | no delta lost or shown twice, every waiting question asked |
| Transcript (`lib/events.ts`, `components/chat-transcript.tsx`) | none but the events; per row what is unfolded or held; scroll refs | everything said is shown once; the reader is left alone |
| Prompt (`components/prompt-composer.tsx`, `lib/pending-submissions.ts`, `lib/composer-drafts.ts`) | drafts, submission records, queued messages, agent options | text is never lost nor taken twice; options are the user's |
| Questions and permissions (`user-input-card.tsx`, `permission-queue.tsx`) | selections, confirmations, the request being decided | what is sent is what the user confirmed |
| Files (`workspace-files.tsx`, `lib/file-drafts.ts`) | list cache, editor, draft | edits survive, unread work is not overwritten, lists are not stale |
| Settings: skills, schedules, preview (`repository-skills.tsx`, `session-schedules.tsx`, `host-preview.tsx`) | catalog, list, runtime status, logs | at rest the panel shows what the server has |
| Navigation and search (`lib/routes.ts`, `spotlight-search.tsx`) | browser history, open file; streams of results | the page is its URL's, the answer the query's |
| Push and offline (`use-push-notifications.ts`, `public/service-worker.js`) | subscription, flag, cached shell | notices reach the user, the offline shell is whole |
| Game (`lib/blocks-game.ts`) | board, piece, bag | squares add up |
| Development stack (`scripts/dev.ts`, `human-dev.ts`, `prod-refresh.ts`) | signature, timers, running build | the idle stack serves the newest sources |

On the server the parts interact through *store calls* (the pool has one
connection, `SetMaxOpenConns(1)`, so each is atomic and anything may happen
between two), *the manager's map* under one mutex, and *goroutines*: a handler
that launches a run leaves one behind that runs the agent, settles the session,
cleans up and dispatches the queue; schedules and startup dispatch as well. What
is hard is what happens between a check and the write that relies on it, what a
failing write undoes, and what a crash leaves for a recovery that looks at only
some of it.

In the page JavaScript runs to completion, so a step is what runs between two
`await`s, event handlers or effects. It hears of the server on three ways that
are not ordered among each other: the stream of events, the answers to its
requests, and its own storage; and it shows the user's change before any of
them. What is hard is an answer that is older than what is shown, an answer
that comes after the user has moved on, and a second tab. `PROJECT.json` lists
these hazards line by line with the properties that cover them.

## 2. The modules

| Module | Models |
|---|---|
| `RunQueue` | one session on the server: its row, its queue, the occurrences of its schedules, the manager's entry, and every goroutine and handler that acts on them |
| `LaunchOnce` | what such a session promises: one run at a time, each message run at most once, a withdrawn one never |
| `RunQueueRefinement` | the mapping under which `RunQueue` implements `LaunchOnce` |
| `InputBroker` | what people send into a run under way: answers, permission decisions, steering |
| `RunQueueProofs`, `InputBrokerProofs` | the theorems about the server's modules |
| `SessionHistoryProofs`, `EventCacheProofs`, `ComposerProofs`, `WebFeedProofs`, `WebInputProofs`, `WebPlatformProofs` | the theorems about the page's: the first three about the module they are named for, the last three about the other components of `MCWebFeed`, `MCWebInput` and `MCWebPlatform` that have proofs |
| `EventWindows`, `SessionHistory`, `EventCache`, `LiveTail`, `SessionList` | what the page knows of sessions and their events |
| `Transcript`, `TranscriptOfRun`, `TranscriptRow`, `TranscriptScroll`, `SpotlightSearch` | what it makes of them |
| `Composer`, `QueuedMessages`, `AgentOptions`, `RequestCards`, `FileEditor`, `RepositorySkills`, `SessionSchedules`, `SessionRoutes` | what the user does with them |
| `PushNotices`, `AppShell`, `FileBrowser`, `BlocksGame`, `HostLogs`, `HostPreview`, `DevStack` | what surrounds them |
| `MCRunQueue`, `MCInputBroker`, `MCSessionHistory`, `MCHostLogs` | instances for TLC |
| `MCWebFeed`, `MCWebInput`, `MCWebPlatform` | one run each for a group of the page's components |

### RunQueue and the code

State: `status` and `archived` are the `sessions` row; `row`, `seq`, `lastSeq`
are `queued_messages`; `occ` is `schedule_occurrences.status`; `active` and
`cancelled` are `Manager.runs[session]`. Each goroutine `p` has a position
`pc[p]`, the message it carries `msg[p]`, the result of its agent `outcome[p]`
and `runAgent`'s `terminalEventEmitted` (`emitted[p]`). `canceller`, `archiver`
and `clearer` are the positions of the other multi-step handlers; `boot` is the
step of startup. `said`, `launches`, `ends` and `tail` summarise the event log
(user messages, agent executions, terminal events per run and since the last
start) and saturate at two.

| Code | Actions |
|---|---|
| `submitDecodedMessage` → `enqueueSessionMessage` | `Post`, `Enqueue` |
| `processDue`, `RunNow` → `MaterializeScheduleOccurrence` | `Fire`, `Materialize` |
| `startQueuedMessageRun`, `startSessionRunWithID` | `Claim`, `Load`, `Register`, `AppendUserMessage`, `SetRunning`, `Announce`, `MarkSent`, `MarkRunning`; on failure `Undo`, `Release` |
| `runAgent` | `AgentEmits`, `AgentReturns`, `AppendTerminal`, `Settle` |
| the run's goroutine after `runAgent` | `Cleanup`, `Finish`, then `Claim` again |
| `removeQueuedMessageHandler`, `CancelScheduleOccurrence` | `RemoveQueuedMessage`, `CancelOccurrence` |
| `cancelRunHandler`, `cancelSessionHandler` | `CancelRun`; `CancelRead`, `Cancel`, `RepairEvent`, `RepairStatus` |
| `archiveSessionHandler`, `restoreSessionHandler` | `ArchiveRead`, `PauseForArchive`, `Archive`; `Restore` |
| `clearSessionHandler` | `ClearRead`, `ClearProvider`, `ClearSettle` |
| process end; `recoverInterruptedRuns`, `Service.Start` | `Crash`; `Recover`, `RecoverStatus`, `FailInterrupted`, `StartDispatch` |

One action is one store call, one critical section of the manager, or one step
of the agent. A store call that may fail has a disjunct `Fails`, which takes one
of `MaxFaults`; the early return of the code is that disjunct. Where several
reads in a row only lead to the same early return (the lookups after `Load`)
they are one action.

Abstractions: message contents, options, attachments, skills and provider
sessions are dropped; a message is a model value. A compaction is a message that
is never queued. A call that is refused before it changes anything is no step.
Failed writes are failures before the write, except for `Settle`, where the code
can also fail after it. `CancelRun` may also find a run whose launch is being
undone, as the handler's reading of the run record can be older. Steering is in
`InputBroker`, the receipts of submissions in `Composer`; the delegation report
to a parent session is left out.

### InputBroker and the code

`RunQueue` knows the manager's entry as a lock on the session; `InputBroker`
opens it. State: `active`, `cancelled` are the entry, `listed` its maps
`inputRequests` and `permissionRequests`, `answering` the flag of a question,
`handler` and `busy` its `steeringHandler`. A request has the run that asked
(`owner`) and what its agent makes of it (`asked`); `given` counts what was handed
to it, `taken` what its agent accepted, `log` the events about it. Each HTTP
handler `c` has a position `pc[c]`, the request it read (`seen`), the one it
claimed (`held`), the run it was told to steer (`target`) and the entry it found
(`onto`).

| Code | Actions |
|---|---|
| `RegisterRun`, `Cancel`, `runAgent`'s last write, `cleanup` | `Register`, `Cancel`, `Settle`, `Cleanup` |
| `openUserInput`, `OpenPermission`; `Wait`; `Close` | `Ask`; `TakeAnswer`; `Close` |
| `RegisterSteering` and what it returns; `closeAsyncInput` | `RegisterSteering`, `UnregisterSteering`; `CloseAgent` |
| `answerUserInputHandler`, `AnswerUserInputWithPersistence` | `Look`, `Claim`, `Persist`, `Check`, `DeliverBlocking` or `Send` |
| `resolvePermissionHandler`, `ResolvePermission` | `Look`, `RecordDecision`, `Resolve`, `DeliverBlocking` |
| `steerSessionMessage`, `SteerWithPersistence` | `Steer`, `Seize`, `Submit`, `Verify`, `Send` |
| `steerInput`, `resolveAsyncAnswer` | `Send`, `ProviderReplies`, `Returns` |
| the handlers' last events | `Confirm`, `Fail` |

A handler finds a request twice by its id, first to validate and then to claim,
so that it may claim another request than the one it validated when a provider
uses an id again (`IdOf`). The entry it found stays in its hands as a pointer:
`onto` may name a run that is over. An agent that has closed accepts nothing
more, and whatever waits for its reply may also give up at any moment (the
handler's 20 seconds, the run's context). A reply that comes after its waiter has
gone is nobody's: `taken` and `accepted` count those a handler was still waiting
for. Answers, options and messages are dropped; a request that fails validation
is no step.

### The page's modules

Each keeps to one component and takes the rest of the world (server, browser,
agent, user) as actions that may happen at any time, within `Bounds` (or another
constant that its comment calls a bound). A request has a state of its own,
usually `idle`, `sent` or `asked`, `answered`, and carries the answer as the
server gave it then; applying it is a later action, so that answers may be late,
overtaken or lost. Variables named *history* in their comments (`crossed`,
`missed`, `raced`, `excused`, ...) are not in the code: they remember that one of
the cases happened in which the code does give up a guarantee, and the property
names that case as its exception. A reader who wants to know where the code falls
short can look at just these; section 3 lists them.

| Module | State and the code | Actions and handlers |
|---|---|---|
| `EventWindows` | pure: `boundEventWindow` on sets of sequence numbers | - |
| `SessionHistory` | `store`: the tail in `client-event-store`; `view`: the refs and state of `useSessionEvents`; `memo`, `tail`, `jump`, `around`, `page`: its requests; `net`: stream and cursor; `db`: what was stored | `Select`, `Start`, `Hydrate`, `ApplyTail`, `ApplyTarget`, `ApplyPage`, `ApplyJump`; `Deliver`, `Connect`, `StreamError`, `ResyncRequired`; `ApplyList`, `RetryList` |
| `EventCache` | `records`, `meta`, `hot`: the object stores; `queue`: `eventWriteQueue`; `job`: where the writer, a reader and a deletion are | one action per transaction: `ReadPrevious`, `Reserve`, `EvictRecords`, `EvictMeta`, `PutPage`, `Prune`, `PutHot`, `Migrated`, `PutBack`, ... |
| `LiveTail` | `live`: open items of the event service; `texts`, `durable`, `inputs`, `cursor`, `mark`: the page | `Emit`, `Subscribe`, `WriteSnapshot`, stream and watch answers, history |
| `SessionList` | `row`: the session in `sessions`; `seen`, `held`: the attention marks; `call`: the requests | `Deliver`, `IncludeSelected`, `ApplyList`, `ApplySession`, `ApplySubmit`, `ApplyPin`, `ApplyArchive`, `OpenSession`, `DismissAll`, ... |
| `Transcript` | pure: grouping, timeline, activity, permissions, tokens | - |
| `TranscriptOfRun` | an agent that emits in any order it may, a user who prompts, steers and answers, and what the page holds | one action per kind of event |
| `TranscriptRow` | refs and state of one row | deltas, selection, folding, copying |
| `TranscriptScroll` | `view`: the scroll refs, and the distance from the end up to the code's thresholds | one action per browser event and callback |
| `SpotlightSearch` | `streams`: searches under way, aborted ones included | `Publish` and the typing, filtering, closing around it |
| `Composer` | drafts of a tab and shared, `records` in IndexedDB, `receipt` on the server | submit, retry, check, take back; the server's `Claims`, `Do`, `Handle` |
| `QueuedMessages` | `list`, `queueEventsRef`, `removedQueueIDsRef`, the request cache; the window of events the page has | show, hide at any moment, hear a window, queue, stop, remove, and their answers |
| `AgentOptions` | selection, catalog, `runtimeSyncRef` | edit, reconcile, save, adopt |
| `RequestCards` | the two cards | page, select, confirm, submit; decide |
| `FileEditor` | the file, the stored draft, the open editor; `saves`: those on their way, of this view and of closed ones | type, save (again after typing), reopen, resolve a conflict; answers in any order |
| `RepositorySkills` | files, bridges, catalog, editor | the panel's actions and the manager's |
| `SessionSchedules` | schedule and newest run, the panel's copy, `loads`, `window`: the schedule events the page has | the panel's actions, loads, runs, `HearEvents` |
| `SessionRoutes` | where the page is, the browser's entries | navigation, `Popped`, files that arrive |
| `PushNotices` | subscription, flag, the server's list, notices, the worker's record | restore, enable, disable; push, acknowledge |
| `AppShell` | cached shell and assets, `appShellRequestVersion` | deploy, fetch, put, navigate |
| `FileBrowser` | folders, reads, `cache` | list, refresh, upload, search |
| `BlocksGame` | board, piece, bag | the reducer's, on timer and keys |
| `HostLogs`, `HostPreview` | ring, channel, wire, panel; runtime, shown status, requests | output, stream, resume; buttons, polls |
| `DevStack` | sources, signature, timers, running build | poll, compare, restart, build, refresh |

Data that no property tells apart is dropped: an event is its sequence number, a
text a model value or the number of its version, a size the number of events. The
pure modules (`EventWindows`, `Transcript`) hold what the code computes anew from
its events each time.

Operators whose comment begins with "Mutant" (in the server's modules, whose
names begin with `Mut`) are wrong variants of the definition that follows them;
they are used nowhere in the specification. Substituted one at a time for that
definition they show that each checked property can fail.

### One run for several components

`MCWebFeed`, `MCWebInput` and `MCWebPlatform` each put several components side by
side: `component` is chosen at first, that one runs and the others rest. The
components do not interact there: a behaviour is one of one component, and the run
is the union of as many small checks. The components with proofs are extended, and the
configuration names their properties themselves; a name that several modules would
have (`Init`, `Next`, `Bounds`, ...) carries the component's there (`EditorInit`,
`PromptInit`). The others (`LiveTail` and `TranscriptOfRun`, `AgentOptions` and
`SessionRoutes`) are instantiated over one pool of variables: `vk` stands for the k-th
variable of that component, in the order in which its module declares them, and those it does
not need stay 0. A property `P` of such a component reads `component = "C" => C!P`.
Types are not stated for these modules: TLC evaluates every action on the values it
meets.

## 3. What is checked

| Run | Instance | Result |
|---|---|---|
| `RunQueueInterleavings` | 2 client messages, 1 occurrence, 2 goroutines, a cancel, an archive and a clear call, queue limit 1, no failures | `ExclusiveWork`, `WithoutFailures` hold |
| `RunQueueFaults` | 2 + 1 messages, 2 goroutines, 1 cancel call, 1 failed write, 1 crash | `AtMostOnce` holds, `LaunchOnce` is implemented |
| `RunQueueLiveness` | 1 + 1 messages, 2 goroutines, 1 crash, fairness | `WorkCompletes` holds |
| `InputBrokerHandlers` | 1 steered question, 1 permission request, 1 run, 2 clients, 1 failed write, fairness | `InputCounts`, `HandlersRespond` hold |
| `InputBrokerRuns` | 1 waiting question, steering, 2 runs, 2 clients, 1 failed write | `InputCounts` holds |
| `SessionHistory` | a log of 2 that grows to 3, pages of 2 events, a resident window of 4, 3 moves of the user, 1 fault, fairness | `TailIsComplete`, `CatchesUp` hold |
| `WebFeed` | seven components, bounds in `MCWebFeed` | twelve properties hold |
| `WebInput` | seven components, bounds in `MCWebInput` | ten properties hold |
| `WebPlatform` | eight components, bounds in `MCWebPlatform` | eight properties hold |
| `RunQueueStaleCancel` | 1 message, 1 cancel call | `TerminalOnce` is violated |
| `RunQueueStranded` | 2 messages, successful agents only | `NothingStranded` is violated |
| `HostLogsSlow` | a ring of 3, a channel of 1 | `SlowSubscribersReplay` is violated |

The properties of the server's runs are conjunctions of named parts; each part
has its own definition and comment in the module:

- `ExclusiveWork`: `RunOwnership`, `ClaimsExclusive`, `WithdrawnNeverRuns`.
- `AtMostOnce`: `NoDuplicateRun`, `PersistedBeforeRun`, `OneTerminalPerRun`.
- `WithoutFailures`: `SaidOnceWithoutFaults`, `RunningHasOwner`,
  `RunningOccurrenceCarried`, `QueuedOccurrenceLive`, `SendingHeld`. They hold as
  long as no write failed, which is the code's own limit: a failed write in `Settle`
  or `Announce` does leave the row running. `RunningHasOwner` leaves out a crash of a
  server whose sessions may be archived (below); `QueuedOccurrenceLive` and
  `SendingHeld` hold until the first crash, as it leaves rows in sending behind.
  `AtMostOnce` and `ExclusiveWork` survive all of this.
- `WorkCompletes`: `ClaimsResolve`, `CancelledRunEnds`, `StartupCompletes`.
- `InputCounts`: `OneAnswer`, `RecordedBeforeGiven`, `OneOutcome`,
  `AnsweredMeansAccepted`, `WaitingCanBeAnswered`, `SteeredMeansAccepted`,
  `SteeringExclusive`.

Those of the page are of three kinds. *At rest it is true*: when nothing is under
way and the stream has delivered everything, what is shown is what the server has
(`QuietShowsServer`, `RestingTailIsTrue`, `ListIsQueue`, `SettledShowsServer`,
`RestingListIsTrue`, `RestingStatusIsTrue`, `ListIsNotStale`, `PageIsTheUrls`,
`AnswerIsTheQuerys`, `IdleServesNewest`). *Nothing is lost or taken twice*
(`TailIsComplete`, `AnswerIsWhole`, `AccountingExact`, `NoChunkIsSkipped`,
`EverythingSaidIsShown`, `CountedOnce`, `TextIsSomewhere`, `TakenOncePerPress`,
`EditIsKept`, `OnlySeenIsOverwritten`, `OthersWorkIsKept`, `NoticesReachTheUser`,
`OfflineShellIsWhole`, `SquaresAddUp`). *The user decides* (`AttentionAsked`,
`ActivityIsAgents`, `HeldThenShown`, `ReaderIsLeftAlone`, `RestsWithAWayBack`,
`OnlyChosenOptionsSaved`, `DecisionsAreTheUsers`).

### Where the code falls short

The three violations are disagreements between the code and what its documents,
comments or tests say; `PROJECT.json` quotes both sides: a cancel call that
repairs a run that has just settled; a message that is queued after the last
dispatch has looked; a slow subscriber whose chunk is dropped and that never
learns it.

These further cases were met while modelling. The first group is reached by a model
but has no run of its own; the second is the named exceptions of the properties.

- A message posted in the middle of an archive runs in an archived session, and a
  restart then never settles it, as recovery does not list archived sessions
  (`sessions.go:808`, `main.go:806`). A launch that fails after the user message
  was recorded releases the row, and the message is recorded again
  (`sessions.go:2112`).
- `SessionHistory`: an answer asked for before a boundary marks the tail as
  hydrated (`use-session-events.ts:70`, 705), and a page of history raises the
  cursor below which stream events are refused (599, 649;
  `client-event-store.ts:64`).
- `EventCache`: readers put an older entry back (`session-cache.ts:246`), a
  deletion races a queued write (174), a second tab has its own queue (833). A page
  of history is read in two transactions (287, 294): what a pruning (783) and a
  write leave between them may have a hole (`torn`).
- `SessionList`: a list answer from before an archive brings the session back
  (`App.tsx:2675`), and one from while it was archived drops the row of a session that
  was restored since, however fresh (1017: archived sessions are left out of the answer
  before rows are compared). A submit's answer sets the status after the run ended (1392). A pin
  that fails is taken back if the row still shows it (1498), even when an event or an
  answer has confirmed it since; a session that is not listed and whose refresh fails
  stays away; an event that a page of history was ahead of is not applied. All of
  these set `lost`, until an answer comes that is new enough.
- `LiveTail`: a stream snapshot and a watch snapshot that come in the other order;
  a card stays for a question that was withdrawn (`docs/claude-input.md` says it
  goes).
- `TranscriptOfRun`: time is counted twice when the user speaks while a run goes on
  (`events.ts:2334`: the next block starts at the start of the run again, since
  `user.message.completed` of a steered message ends the block before), and when a tool or
  an old session's plan outlives the message after it.
- `AgentOptions`: an edit made before the options were loaded is not heard
  (`prompt-composer.tsx:3415`). `Composer`: a draft another tab overwrote
  (`composer-drafts.ts:37`).
- `QueuedMessages`: the page reconciles with the queue events of its window (50 turns or
  1000 events, `session-event-window.ts:13`). An answer and those events may not join:
  events that left the window unread are not made up for (`Overlooked`), as when a list from the
  cache still has a message whose launch is not in the window any more. An answer that is
  shown as it came, while newer events were heard, is wrong until the next event
  (`Unreconciled`; 993, 1103).
- `FileEditor`: typing enables Save again while a save is on its way
  (`workspace-files.tsx:525`). The answer of a closed view's save replaces a newer draft (547,
  `crossed`). An answer that a later save has overtaken takes a text that was typed again for
  saved (`overtaken`). A draft that the full storage did not take is only in the editor (532,
  `unstored`); one typed back is based on unseen content (529, `rebased`).
  `FileBrowser`: an invalidated request's answer is cached (1210).
- `RequestCards`: a late failure unlocks a permission that was decided
  (`permission-queue.tsx:22`). `RepositorySkills`: a write between comparison and
  write (`reposkills/manager.go:155`), an entry put at Claude's path between the look at
  the server's own link there and its removal (710, `Crossed`). `SessionSchedules`: a message
  cleared by an action (`session-schedules.tsx:103`); events that come while as many leave the
  page's window do not change their number, which is what reloads the panel (`App.tsx:2003`,
  `Uncounted`).
- `SessionRoutes`: a file that arrives late opens under another session
  (`App.tsx:1643`; `docs/browser-testing-routine.md:76` says it must not), Back
  between two files of a session leaves the file open (709).
- `PushNotices`: switching off races restoring (`use-push-notifications.ts:54`).
  `HostPreview`: an older poll's answer rests (`host-preview.tsx:77`), and so does what
  somebody else or a restarted server made of the preview (`elsewhere`). `HostLogs`: numbers
  begin anew in a restarted server, and a panel that was open resumes after one that is too
  high (`restarted`, until it is taken up anew); `NoChunkIsSkipped` says nothing of it. `DevStack`:
  a change that comes due during a restart is not built (`scripts/dev.ts:217`).

### Bounds

`RunQueue`: two goroutines on one message each, plus a third message, give every
pair of a claim, a release, a launch, a removal and a cleanup. One failed write at
any of the launch's steps and one crash at any point reach each recovery path; a
second crash finds the tables in a state the first can produce. The queue limit
`maxQueuedMessages` is 5 in the code and 1 or 2 here, so that it is met. Counters
of the log saturate at 2. `InputBroker`: two clients race for one claim, and a
second run is what a late answer could reach. Every run gives each request an id
of its own; that reused ids do no harm to `OneAnswer` is what the theorem
`AnswersOnce` shows.

`SessionHistory`: windows of 2 to 4 events over a log of 3 are trimmed, disjoint
and joined within a few steps; one fault and three moves allow a boundary between
a request and its answer, and a link away and back. `EventCache`: storage for three
events and one hot window makes the second write evict. The other components'
bounds are written in the run's module: of each kind of disturbance (a lost answer,
a failed request, another client's change) one, of the user's moves two to five,
which is the length at which the mutants and the named exceptions appear with a
step to spare. `Composer`, `TranscriptOfRun`, `QueuedMessages`, `FileEditor`,
`SessionSchedules` and `SessionList` take one of several scenes, each large in another
direction, since all at once would be out of reach: the editor's have three texts typed, two or
three saves that overlap and the agent's write or a lost answer; those of the list have either
a request of each kind or a session that is archived and restored elsewhere during a list. `BlocksGame`
is a board of 7 by 3 and two of the seven pieces, with their own shapes and kicks.

Symmetry permutes goroutines, client messages and occurrences, or runs and
clients, in the server's runs without liveness; the specifications treat them
alike. `CHECK_DEADLOCK` is off because a session whose messages are used up, or
a page whose bounds are spent, has nothing left to do.

### Fairness

`RunQueue`, `WF(ProcStep(p))`: the Go scheduler runs every goroutine that can take
a step and store calls return; `WF` of an agent's return *once cancelled*: the
adapters stop on `ctx.Done()`, one that is not cancelled may run for ever;
`WF(BootStep)`: startup is straight-line code. Clients, cancel calls, crashes and
archive calls are never fair. `InputBroker`, `WF(ClientStep(c))`: a handler that can
go on does, its writes return and its wait for a provider times out; that a
provider replies or a run ends is not assumed. `SessionHistory`,
`WF(ClientStep)`: effects run, connections are retried by `EventSource` and by the
list's timer, and requests are answered or fail; neither the user nor the server's
appending is fair. The other modules state no liveness: "at rest" properties say
where the page ends up if it comes to rest.

## 4. What is proved

`RunQueueProofs` assumes only `ConstantsAssumption`: clients' and schedules'
messages are disjoint, the two sentinels are not messages or goroutines, and the
bounds are naturals. The sets may be infinite.

The safety properties are not inductive by themselves. That a message is
launched once (`NoDuplicateRun`) needs that a dispatcher about to launch it holds
a row that has not been launched (`Shape`, `Ledger`); that no other goroutine
releases or sends that row needs that a message has one carrier (`OneCarrier`);
and that the carrier of a pending row is nobody needs to know which positions
carry a message at all (`Carrying`). `Terminals` ties `emitted` to the log.
`IInv` is the conjunction of these with `TypeOK` and `RunOwnership`. Each action
that touches a goroutine, a row or the log has a lemma (`PostStep` ...
`CrashStep`), the others change only the session row and the handlers'
positions and share `Frame`. `NextInvariant` puts them together, and the theorems
are consequences of `Invariance`.

`WithoutFailures` speaks of the store while no write has failed, and needs to know
who will still act: `SteadyInv` adds to `IInv` that some run has yet to settle a
running session (`RunningWillSettle`) and to report a running occurrence
(`RunningWillReport`), or recovery will, since nothing else is at work before
recovery is over (`Startup`); and that a message on its way to its append is not said
yet, and none is taken back once it was (`Unsaid`). The premises are the same as
those of the parts: without them the additions do not hold either. The lemmas
`UnsaidKept`, `SettleKept`, `ReportKept`, `QueuedKept`, `SendingKept` and
`StartupKept` each show that a step keeps one part.

| Theorem | Property |
|---|---|
| `WorkIsExclusive` | `ExclusiveWork` (checked by `RunQueueInterleavings`) |
| `NothingTwice` | `AtMostOnce` (checked by `RunQueueFaults`) |
| `NothingOrphaned` | `WithoutFailures` (checked by `RunQueueInterleavings`) |
| `SteadyInvariance` | `SteadyInv` |
| `Invariance`, `TypeCorrect` | `IInv`, `TypeOK` |
| `OneRunAtATime` | `RunOwnership` |
| `ClaimsAreExclusive` | `ClaimsExclusive` |
| `AtMostOneLaunch` | `NoDuplicateRun` |
| `WithdrawnStaysOut` | `WithdrawnNeverRuns` |
| `UserMessageFirst` | `PersistedBeforeRun` |
| `AtMostOneTerminal` | `OneTerminalPerRun` |
| `SettledForGood` | `Settled` (action property, from `IInv`) |
| `CancellationIsKept` | `CancellationStays` (action property) |
| `ImplementsLaunchOnce` | `LaunchesOnce`: `RunQueue` implements `LaunchOnce` |

The refinement, in the same module, maps each message to its life and the
entry's owner, once it has committed to run, to the slot. `SlotFacts` says what
`IInv` knows about the slot; five lemmas say what a step must do to rows,
launches and slot to be an `Accept`, `Start`, `End`, `Withdraw` or stutter
(`EntersQueue`, `TakesSlot`, `LeavesSlot`, `LeavesQueue`, `Quiet`), and
`ProcRefines` and `NextRefines` assign one of them to every action.

`InputBrokerProofs` assumes only `BrokerAssumption`: the three kinds of requests
are disjoint and the sentinels are neither runs nor requests. Nothing is assumed
of the request ids, so that the theorems cover a provider that reuses them.
`IInv` of `InputBroker` says why an answer is given once: whoever is about to hand
it over has taken the request out of the manager's maps (`Handing`), so nobody
can find it any more; a request enters the maps only before it was ever asked;
and what a client holds at which position (`Places`) keeps answers and steering
apart. `answering` plays no part in it: it keeps the log right (`OneOutcome`), not
the agent. `Seizing` is the same argument for the steering handler.

The other parts of `InputCounts` tie the log to what the agent took, and there ids
matter: events carry the id, so that two requests with one id share their events.
`InputCountsAlways` therefore has a hypothesis, `DistinctIdsUsed`: no two requests
have the same id, as the runs have it too. `CountsInv` adds to `IInv` what each
handler knows at its position: what it read is what the manager had (`Reads`), a
claim it holds is its own (`Claims`), whoever has not heard from the agent has no
outcome in the log yet (`Undecided`), and what a run accepted and nobody recorded as
steered so far is still in some handler's hands (`Owed`).
That nothing is handed over unrecorded (`Recorded`) and that an open question waits in
the maps (`Offered`) complete it. One lemma per part shows that every step keeps it.

| Theorem | Property |
|---|---|
| `InputCountsAlways` | `InputCounts` (checked by `InputBrokerHandlers`, `InputBrokerRuns`), from `DistinctIdsUsed` |
| `CountsInvariance` | `CountsInv`, from `DistinctIdsUsed` |
| `Invariance`, `TypeCorrect` | `IInv`, `TypeOK` |
| `AnswersOnce` | `OneAnswer` |
| `SteersOneAtATime` | `SteeringExclusive` |

`SessionHistoryProofs` assumes `HistoryAssumption`: the log's lengths, the limits of
the windows, the bounds and the links' targets are naturals. So the theorems
hold for logs of any length, any four windows and any links, faults and moves of the
user. `TailIsComplete` compares a window with the end of the log up to its last event, as
far as a page of history, the page's tail and the storage all keep it (`Latest`,
by the smallest of their limits, `Kept`; TLC's instance has that in the page of history). It is
not inductive, as the mark "hydrated" is set by an answer that knows nothing of what the
window was before. `IInv` of `SessionHistory` adds why it may be:

- an answer that no boundary has made stale fills every hole before the sequence
  number it was given at (`Anchor`), and since it was given no window of the session has
  lost an event after it (`Anchored`, of `Whole` and `Covered`). The stream delivers
  in order from its cursor, so that an event it gives up is one the answer has, or
  a boundary makes the answer stale;
- as far as an applied tail reached, every tail that is kept reaches (`Reaching`):
  an event that is turned away as old is in the window, or it was counted in
  `seen.missed`, where the property ends, as the findings of this module say;
- whatever is shown is stored (`Stored`), so that a view opened later loses nothing;
  requests and views come and go together (`Asking`).

The windows have a theory of their own. `BoundLatest` and `BoundOldest` are said by
what they keep, `Latest` is kept by every larger bound and grows with the log, and
what a union of two windows lacks, one of them lacks. It is stated for any log in the lemmas
at the head of the module and cited by name from then on. Steps that leave the windows
alone share one lemma, `Frame`; those that take an answer share `FillHolds`; each of
the others has a lemma of its own (`IngestHolds`, `TurnedAwayHolds`, `BoundaryHolds`,
`HydrateHolds`, `FetchedHolds`, `EvictHolds`, `OpenedHolds`).

| Theorem | Property |
|---|---|
| `TailStaysComplete` | `TailIsComplete` (checked by `SessionHistory`) |
| `Invariance` | `IInv` |

`EventCacheProofs` assumes `CacheAssumption`: a page is a finite set of positive
numbers and not empty, and the limits are numbers; sessions, pages and bounds are any.
The invariant is said of one session at a time, unless an entry of it was computed from
an older one, or written or used while it was removed (`crossed`). An entry counts the
records and covers only what is stored (`Exact`), but where the code needs two
transactions: while a session is being removed its records are gone already
(`Emptied`), and while it is being pruned the records are those that the entry about to
be put back will count (`PrunedOf`), or a migration has written over the entry in between,
and then it is never the same again (`Grown`), so that putting it back is the crossing
that is named. No entry is older than a finished write (`Newest`), nor is the one a
reader has in hand (`Following`). A reader of a page of history that has the entry and
not yet the records finds no hole among them (`Unbroken`): what is pruned meanwhile is
a beginning, since `Retained` keeps an upper part, and what is written meanwhile either
lies in what it was told is covered and still there, or tears the read. That last case is
what the proof found: an earlier `AnswerIsWhole` did not name it, and TLC showed the hole
once the bounds were large enough. The run's pages are now chosen so that it happens.

| Theorem | Property |
|---|---|
| `AnswersAreWhole` | `AnswerIsWhole` |
| `EntriesAreExact` | `AccountingExact` |

Seventeen more of the page's components have proofs. They leave the bounds of the
runs open, which TLC cannot: any number of requests, edits, presses or searches, any
texts, builds, queries and results, any sizes of rings and channels. `Composer`
assumes finitely many tabs and a number of presses that is bounded, if by any number
(`ComposerAssumption`); `QueuedMessages` and `HostLogs`, that their sizes are numbers;
two theorems have a hypothesis that is named below. Each inductive invariant names
what a step relies on:

- `ComposerProofs`, that no text is lost: a text that was typed is in a prompt of its
  own that no submission is about to clear, in the queue or a run, or in a record
  that nothing can remove (`Kept`). It takes that a tab's yes comes from the receipt
  (`Confirmed`), that what is submitted is what the prompt shows until its record is
  saved (`Drafted`), and that a message is in a prompt before it leaves the queue
  (`TakingBack`). That none is taken twice: a press is a submission on its way to a
  record, or an identity, and the server takes an identity once (`Counted`).
  Identities are given in order, and whatever has one was given it with a text
  (`Numbered`, `Recorded`).
- `WebInputProofs`, of `QueuedMessages`: the log queues a message once and drops it
  at most once after that (`LogOK`). Every list, whether shown, cached or on its way in an answer, has
  nothing that was gone at some event `n` and all that still waits of what was queued by then
  (`Agrees`); what was heard of a message is the newest that the windows had (`MapOK`), so
  that reconciling carries the agreement on to the last event heard, if the two join
  (`Tells`). Nothing is assumed of the windows, nor of when the user leaves.
- `WebPlatformProofs`, of `HostLogs`: on an open stream what is neither shown nor lost
  is under way (`RestComes`), in order and newer than what was read (`InTransit`);
  so between the oldest chunk shown and the newest read none is missing
  (`ShownWhole`). Of `HostPreview`: a status that is not the preview's any more is an
  active one, which is polled, or somebody else changed it, or something newer is
  shown, under way or lost (`Holds`), for every answer on its way and for what is
  shown.
- `WebInputProofs`, of `RequestCards`, if there is a question and permissions are distinct
  (`Sensible`): answers are on their way only while the card is locked
  (`Sending`), and a confirmed question shows what was approved (`Approved`). A
  permission under decision is the oldest or gone (`InTurn`), so that the one
  remembered request is enough (`Known`).
- `WebInputProofs`, of `FileEditor`, if the agent's texts are not the user's (`Distinct`), for any
  number of saves on their way at once: what a save is compared with is the base of a
  draft, and every base was shown (`Based`), except after a draft was typed back to its
  base. What was typed last is the stored draft (`Stored`): an answer puts there what
  remains of its save's view, which is the newest as long as that view is open
  (`Following`), and of which there is one at a time (`OneView`); the exceptions are the
  property's own.
- `WebInputProofs`, of `SessionSchedules`: what a load has read is what the server has,
  or it is marked old (`Fresh`). So the list that came last is right, or a load is
  still to list, or a change was not counted yet (`ListComes`); likewise the runs
  (`RunsCome`).
- `WebInputProofs`, of `RepositorySkills`, for finitely many names: between the comparison
  and the write of an update nobody but others writes the file (`Unaltered`), and
  no action of a bridge takes a conflict away but into a backup (`EntriesAreKept`), as
  one that is `Crossed` is counted when its removal has left it there.
- `WebPlatformProofs`, of `PushNotices`: a page that says notifications are on is right, or a
  task is under way that will set it right (`Remedied`); a subscription that was saved
  is the registered one (`Certain`), since switching off runs alone (`Alone`) and
  drops the flag that a loading page goes by (`Flagged`).
- `WebPlatformProofs`, of `FileBrowser`, if its first folder is one and it may ask at all
  (`BrowserAssumption`): what a list must have is asked of the lists of the present key
  only (`Needed`), and the server has it by now (`KnownOK`). So an entry of the cache is
  as new as needed, or the request it stands for will be, or it was cached late
  (`EntryOK`); the list waits for the request its own entry has (`WaitOK`).
- `WebPlatformProofs`, of `BlocksGame`, for a board and pieces as the source's
  (`GameAssumption`: four squares, in every rotation, that come in on an empty board): a piece locks
  where it lies free, at the least depth that holds it (`FallsFree`), and adds four
  squares. Clearing takes `Width` squares a full row and moves the others one to one,
  as the rows stay in order (`ShiftsInOrder`, `ClearingKeeps`, `NoRowIsFull`).
- `WebPlatformProofs`, of `AppShell`: the cache only grows, and a fetch accounts for what it has
  not yet cached (`Accounted`), so that a shell is put when it is whole (`Whole`).
- `WebFeedProofs`, of `SpotlightSearch`: a search that was not aborted is that of the
  query on the screen (`Current`), and has gathered only and all of its answer
  (`Gathered`). Of `TranscriptRow`: the newest text is always noted, and what is drawn is
  older only while it is selected or the page was not told yet (`RowIInv`).
- `WebFeedProofs`, of `TranscriptScroll`: a view that is at the live tail and does not
  follow it has something that will let it settle: a scroll, a touch, a link
  (`Unsettled`). A pending snap, which hides the button, belongs to a scroll or a jump
  (`SnapEnds`). Who scrolled away is left alone as no gesture can be taken for one
  towards the end: what it noted last is where the view is, or the code has moved it
  (`Traced`).
- `WebFeedProofs`, of `SessionList`: answers and the server's row are what the log says
  up to their sequence number (`AsLogged`). So is a row of which nothing is `lost`, but
  for a status from a newer answer and a pin that awaits its answer (`RowStands`); and
  the stream is never ahead of it (`Reached`), but while a list asks for the selected session as
  well, with the stream closed; so that at rest the row is the newest. The proof
  refuted an earlier `QuietShowsServer`: a failed pin and a failed refresh were not among
  its exceptions, and the model did not lose an answer once the server had given it.
  `AttentionAsked` needs only that nothing is seen that was not on the screen.
- `WebPlatformProofs`, of `DevStack`: a change that is not served is remembered by the watcher, a
  timer, a restart, a refresh or a failed build (`Remembered`); the signature only
  grows, so that the watcher can see it (`Growing`).

| Theorem | Property |
|---|---|
| `QuietListIsTrue` | `QuietShowsServer` |
| `RestAsksForAttention` | `AttentionAsked` |
| `ReadersAreLeftAlone` | `ReaderIsLeftAlone` |
| `WayBackIsOffered` | `RestsWithAWayBack` |
| `TextsKept` | `TextIsSomewhere` |
| `NothingTakenTwice` | `TakenOncePerPress` |
| `ListIsTheQueue` | `ListIsQueue` |
| `LogsAreWhole` | `NoChunkIsSkipped` |
| `StatusIsTrue` | `RestingStatusIsTrue` |
| `DecidedByUser` | `DecisionsAreTheUsers` |
| `PanelAtRestIsTrue` | `RestingListIsTrue` |
| `WorkIsKept` | `OthersWorkIsKept` (action property) |
| `NoticesArrive` | `NoticesReachTheUser` |
| `ListsAreFresh` | `ListIsNotStale` |
| `SquaresAreKept` | `SquaresAddUp` |
| `SavesOverSeen` | `OnlySeenIsOverwritten` (action property) |
| `EditsAreKept` | `EditIsKept` |
| `ShellIsWhole` | `OfflineShellIsWhole` |
| `ShowsTheAnswer` | `AnswerIsTheQuerys` |
| `TextIsHeldThenShown` | `HeldThenShown` (action property) |
| `IdleIsNewest` | `IdleServesNewest` |

The properties of the server's safety runs are all proved, with the hypothesis on ids
for `InputCounts`, and so is the safety of a session's history. Only model-checked:
every other property of the page, which are `RestingTailIsTrue`,
`EverythingSaidIsShown`, `ActivityIsAgents`, `CountedOnce`, `SettledShowsServer`,
`OnlyChosenOptionsSaved` and `PageIsTheUrls`; and
liveness (`WorkCompletes`, `HandlersRespond`, `CatchesUp`), which is outside the prover's reach. What `Transcript` computes, a fold
over the events of any length, would need an induction over data and is checked on
bounded runs only.

## 5. Not modelled

- Provider protocols and normalizers: translation of other programs' data.
- The event service's sequence allocation and replay buffer: the page's modules
  take it as a log that is delivered in order and may break off.
- The scheduler's timer loop, cadences, session lineage, event maintenance, run
  submissions of the control API: sequential code in single transactions, or pure
  functions with tests case by case.
- Generations and processes of hosted previews, consoles: processes and
  terminals.
- Of the page: dialogs, the dashboard, the signal field, the conversation map,
  titles and ordering of the list, attachments and mentions, markdown, themes:
  presentation, or a form with one request. Focused messages in routes, the offline
  case of the options and byte budgets of windows are left out of modules that
  model the rest.
- Router, dashboard, search and history pages, the CLI, packaging and the site:
  projections, clients and build programs.

`PROJECT.json` gives the status of each component. What would come next: the event
service under slow subscribers with `SessionHistory` as its reader, generations of
hosted previews, and proofs for `LiveTail` and `SessionRoutes`.
