# TLA+ verification of agent-prism

agent-prism runs the same task on several agent configurations ("columns") side
by side and streams their events to a browser; its builder lets a user assemble
one agent from blocks and chat with it. The server is one Node.js process. What
is hard in it is not data but control: chains of async generators that a client
can leave at any yield, worker tasks that feed bounded channels, counting gates
with hand-over, abort signals linked over three levels, child processes that die
in the middle of a reply, stores that must survive a kill, and a page whose
streams outlive the turns they belong to. This directory models that control.

## 1. Inventory

| part (packages/...) | state it keeps | operations | what makes it correct | module |
|---|---|---|---|---|
| `runtime/semaphore` | free permits, queue of waiters | acquire, abort of a queued call, release | permits conserved, no lost wake-up, first come first served | `Semaphore` |
| `runtime/event-channel` | bounded buffer, parked receivers, drop count | push, receive with timeout, close | nothing lost uncounted, order kept, receive returns | `EventChannel` |
| `runtime/ask-user-channel` | pending question batches per key | ask, answer, expire, abort, supersede | every call ends once, with its own reply | `AskUser` |
| `runtime/circuit-breaker`, `resilience` | failure counts, cool-down, bounded registry | record, isOpen, forKey with eviction | a breaker tells what its endpoint's calls showed | `Breaker` |
| `runtime/workspace`, `application/thread-*` | workspaces on disk, holds and pins; threads | create, get, clone, remove, evict; run, fork, delete | nothing in use is evicted, copied trees rest | `ThreadWorkspaces` |
| `arena-runner`, `arena-service`, `route-arena`, `agent-execution` | gates, abort controllers, ledger row, held `complete` | run, workers, stop, disconnect, finalize | slots conserved, one terminal per column, every run closes | `ArenaRun` |
| `builder-service`, `builder-turns`, `route-builder` | sessions, notices, pump | chat, compact, patch, delete, abort | one driver per session on an unchanged session, history and ledger agree | `BuilderTurn` |
| `builder-service` stores | journal, snapshot file, timers | append, flush, clear, save, restart | what was kept is read, snapshots only move forward | `BuilderStorage` |
| `session-persistence` | op log, snapshot, blobs | create, append, close, delete, checkpoint, load | a crash loses what was in flight and nothing else | `SessionLedger` |
| `persistence/json-store` | file, `.tmp`, `.bak` | write, read with fallback | one of the last two good versions is always readable | `JsonFile` |
| `apps/server` lifecycle | handlers, watchdogs | signal, crash, stop | the process exits, and a clean exit has saved | `ServerShutdown` |
| `tool-mcp` | request table, timers, pipe | handshake, request, pump, close | each call gets its own reply once | `McpClient` |
| `tool-builtins` bash session, run_job | shells, queues, buffers, cursors | start, send, poll, kill, reap | output is told once, to its owner; jobs end | `BashSession`, `BackgroundJobs` |
| `environment/process-runner` | child, timers | run, abort, timeout | one outcome, and the true one | `ProcessRunner` |
| `harness/verification` | attempts, feedback, held terminal | attempt, judge, reflect, settle | attempts come out as one run | `HarnessLoop` |
| `harness/context` | none: pure functions of a transcript | eight strategies and their common tail | a cut transcript is a transcript, losses are told | `ContextPipeline` |
| `driver-native`, `-plan-execute`, `-self-critique` | loop counters, phase, plans, samples | turn, tools, plan, critique, vote | models that ask for nothing are left, the best plan and answer win | `DriverLoops` |
| `driver-crewai`, `-autogen`, `child-bridge` | child, watchdogs, event queue | request, final, error, abort, close | the session's end is the child's | `FrameworkBridge` |
| `driver-langgraph`, `arena-view` | run state, callback queue; segments | drain, translate, merge | texts once, results at their call | `TraceFlow` |
| `apps/web` arena page, `client` SSE | transcripts, columns, stream | ask, stop, commit, copy, clear | a column shows its own turn | `ArenaPage` |
| `apps/web` builder page | chat, live tail, reads under way | select, create, delete, send, stop, read | the chat is the selected agent's | `BuilderPage` |
| sandbox, scoped file system, file and web tools | none | checks and single calls | | not modelled |
| other drivers, providers | none the server relies on | run(context) yields events | | external: any events |
| evaluation, dimensions, compaction, memory, config, telemetry, projects, matrix, other pages | files, browser state | read, write, render | | not modelled |

How they interact: the SSE route pulls `ArenaService.run`, which pulls
`ArenaRunner.streamParallel`, one chain of generators per request. Column
workers are promises started by `streamParallel`; each pulls
`runAgentExecution`, which pulls the verification loop and through it a driver,
and pushes into the channel the generator receives from. Runs and columns of all
requests meet in two semaphores. A disconnect aborts a signal that is forwarded
to the run and its columns, and from there to model calls, tools and children; a
stop aborts one column. The builder has the same shape with one pump instead of
many workers, and a per-session slot instead of the gates. Both write a row of
the session ledger; threads and builder sessions are files of their own.

## 2. Modules

| module | what it is |
|---|---|
| `PermitGate`, `ChannelOps`, `WorkspaceOps` | the data of a semaphore, a channel and a workspace registry as pure operators, used alone and in the compositions |
| `Admission` | abstract specification: at most `Permits` owners, one line, nobody left standing; `Semaphore` implements it |
| `Semaphore`, `EventChannel`, `AskUser`, `Breaker` | the primitives alone |
| `ArenaRun` | composition: route, service, runner, workers and agent execution over two `PermitGate`s and one channel per run |
| `BuilderTurn` | composition: chat route, builder service, turn runner and pump on one session, over a channel |
| `ThreadWorkspaces` | composition: durable threads, arena columns, subagents, forks and readers over one registry |
| `SessionLedger`, `BuilderStorage`, `JsonFile`, `ServerShutdown` | the stores with their crashes, and the end of the process |
| `McpClient`, `BashSession`, `BackgroundJobs`, `ProcessRunner` | what runs outside the process on behalf of a column |
| `HarnessLoop`, `DriverLoops`, `FrameworkBridge`, `ContextPipeline` | what runs inside a column |
| `TraceFlow`, `ArenaPage`, `BuilderPage` | what a reader gets to see |
| `SharedLemmas` | lemmas about queues that lose an element, channels with one receiver, and induction over the naturals |
| `RuntimeProofs` | proofs about `MCRuntime`: the semaphore, the event channel, the ask_user channel and the breakers |
| `ArenaRunProofs`, `BuilderTurnProofs`, `ThreadWorkspacesProofs` | proofs about the three compositions |
| `StorageProofs` | proofs about `MCStorage`: the ledger, the journal and session file, the JSON file, the end of the process |
| `ToolsProofs` | proofs about `MCTools`: MCP client, process, bridge, verification loop, jobs, shells and drivers |
| `ContextProofs` | proofs about the context pipeline, which `ToolsProofs` puts beside the others |
| `MCArenaRun`, `MCBuilderTurn`, `MCThreadWorkspaces` | instances for TLC |
| `MCRuntime`, `MCArena`, `MCStorage`, `MCTools`, `MCConversations` | instances that bundle components without common state: `subject` says which one moves in a behaviour, each with its own fairness. Their product would only interleave steps that cannot affect each other |

### Reading the models against the code

An action is one synchronous stretch of JavaScript, from one `await` or `yield`
to the next, with the calls it makes. A promise that is resolved continues in a
microtask, and Node drains microtasks before the next request, socket event or
timer; so the actions that stand for such outside events (`Disconnect`,
`StopColumn`, `Patch`, ...) carry the guard `Drained`, and nothing else does.

In `ArenaRun`, `gen[r]` is where the generator chain of a run stands: `slot`
(queued in `acquireSlot`), `admitted`, `receiving` (in `channel.receive`),
`writing` (the route awaits `writeSSE`), `publishing`, `reporting`, `teardown`
(the bounded wait of the `finally`), `settling` (ledger), `throwing` (the catch)
and `closed`. `col[c]` is where a worker stands: `queued` for a column slot,
`granted`, `driving`, `finalizing` (structured answer), `recording` (episodic
settlement), `failing` and `done`. `exit` tells a stream that ended from one the
route returned, because JavaScript skips both the code behind the loop and the
catch in the second case. `verdict` and `seen` are history variables.

In `BuilderTurn`, `pc[q]` is the chain of one request, `pump[q]` the driver task
beside it, `slot` and `running` the two flags `assertIdle` reads. `turn[q]` holds
what the turn read from the session at its start, so that properties can compare
it with the session later.

In `ThreadWorkspaces` a turn has two sides that the event channel decouples:
`worker` is the agent execution, which holds the workspace until its own
`finally`, and `stream` is the generator of `ThreadService.run`, which commits
the transcript and pins. Access times only order the names of a registry, so
`resident` is a sequence, least recently used first; what is past the TTL is then
a prefix of it. The copy of a fork is the one `await` inside the registry.
`Restart` is an orderly one: directories stay, holds, pins and flags are gone.

In the stores a file is what a reader would get from it: a sequence of lines
with possibly a torn one at its end, or the number of the write it holds. A crash
may come between any two steps and inside an append; a rejected append leaves the
file unchanged or with an unparsable part. `BuilderStorage` and `SessionLedger`
keep a serial queue by letting one call be under way.

In the child-process modules the child's own actions (`Writes`, `PipesEnd`,
`ServerReplies`, ...) are external and may happen at any time; an action of the
host is one event handler. Output is counted, not spelled: a piece has an owner
and a number.

In `ContextPipeline` a message is known by its position and size; transcripts are
exactly those the drivers build. What a filter keeps is `Chosen` by its place and what
a loop adds up is a `Weight`, both recursive functions over the places, so that they
can be reasoned about. In `TraceFlow` a text is the sequence of its
chunks, so "split", "lost" and "twice" can be told apart. In `ArenaPage` runs are
numbered in the order they are asked for, and every event and column remembers
its run. `BuilderPage` numbers messages; a bubble is a message and who speaks, and
a detail read carries the history the server had when it answered.

`DriverLoops` lets the model say anything at every turn: a text or none, a score,
a word that asks for a retry, tool calls in phases that offer no tools.

## 3. Runs

| run | instance | what it shows |
|---|---|---|
| `runtime` | 5 calls, 2 permits, queue of 2; 2 receivers, 6 pushes into 2 places; 3 batches under 2 keys; 3 columns on 3 endpoints with a registry of 2 | permits, wake-ups and refinement of `Admission`; the stream is accounted for; each ask_user call ends with its reply; breakers tell history; every wait ends |
| `arena` | 2 runs of 1 column, or 1 run of 2 columns, 1 run slot, 1 column slot, a channel of 2 places; a page with 2 turns over 2 columns; a timeline of 2 model calls with 2 chunks and a tool | both gates conserved, terminals told, nothing left behind a disconnect, every run and column ends; screen and timeline tell of the right run |
| `builder` | 3 requests with a history cap of 2, or 2 requests with 2 swaps, a notice queue and a channel of 1 place | one driver, unchanged session under it, history and ledger agree, swaps announced, the slot is freed |
| `conversations` | 2 threads, 3 turns, quota 2, a restart; a page with 2 agents, 2 messages and 2 reads | holds counted, room made fairly, copied trees rest, the busy flag is true, pins stay; the chat shown is the one the server keeps |
| `storage` | 4 ledger calls with 2 upsets; a builder session with a mishap; 4 file writes with 3 faults; a shutdown with a failure | stores survive, files agree, the journal is kept, a clean exit keeps turns, saved state only moves forward, every write settles |
| `tools` | see the head of `MCTools.cfg` | replies reach their calls, output is told once, children's outcomes are true, columns end well, cuts are sound, every tool call ends |
| `arena_ledger`, `builder_slot`, `workspace_loss`, `ledger_torn`, `mcp_ids`, `page_commit` | one run, session, registry place, ledger, server or column | six statements of comments and docs that the code does not keep, section 6 |

Why the bounds are enough. Both gates treat acquirers alike, so one holder, one
waiter and one that joins or leaves the queue between them show every
interleaving of a hand-over; five calls over two permits and a queue of two add
concurrent owners, two waiters and a refusal. A channel of two places drops at
the third push, which is where terminators vanish. Two columns are needed to tell
"the last terminator" from "a terminator", two runs to let one hold what the
other waits for. Three requests on a builder session are a predecessor, a turn
and a rival, and with a history cap of two the third trims. Three turns over a
registry of two places are one that holds, one that evicts and one that is
refused; two threads are a parent and its fork. A registry of two breakers for
three endpoints evicts one in use. Four ledger calls fill a log of two lines, so
that a checkpoint, an entry and a deletion meet. Three shell sends are one that
runs, one that waits and one that was given up. Five characters overflow a job
buffer of three between polls. A transcript of eight messages holds a replayed
turn, a batch of two with its results and a redirect, against budgets that three
or four messages exceed. Two agents of the builder page are the
one whose turn streams and the one selected meanwhile, two messages a turn and a
compaction of it, and two reads one that is overtaken by the other. Two runs of
the arena page are the stale one and the current one; with three the state space is ten times as large and shows nothing new. Two
branches, three attempts and two turns with tools make ties, majorities and
phases that are interrupted by tools. `TraceFlow` was also run without
`MaxWaiting` and with two tools in one call (4 million states).

The bounds are named constants in the module they belong to, marked "bound".
`CHECK_DEADLOCK FALSE` is set because every instance has a finite supply of
requests: when the last one is answered the system has stopped.

### Fairness

Weak fairness is assumed of generators and workers (awaited promises settle and
continuations run), of timers (receive, poll, grace, deadlines, debounce,
escalation to SIGKILL, watchdogs) and of owners of a permit, whose release sits
in a `finally`. Of drivers and the builder's pump it is assumed because every
model call carries a timeout; in `ArenaRun` that is a conjunct of its own
(`DriverFairness`), because a tool that never returns breaks it. Of child
processes nothing is assumed but that nobody survives SIGKILL: a command may
ignore SIGTERM, hold its pipes, or never answer. `FrameworkBridge` further needs
that the consumer reads the generator and that the idle budget, if there is one,
is longer than the three seconds of the escalation. The shutdown ends by its
watchdogs alone. Nothing is assumed of clients, users, stops, crashes or
restarts. `ThreadWorkspaces`, `HarnessLoop`, `DriverLoops`, `ContextPipeline`,
`ArenaPage`, `BuilderPage` and `TraceFlow` state safety only; that drivers end is
`QuietModelsEnd`, a bound on how often a model that asks for nothing is called.

## 4. Proofs

A theorem holds for every value of the constants that the named assumptions
allow: any number of calls, runs, columns, requests, readers, sessions or jobs,
any capacity, quota and budget, and any number of failures, kills and restarts.
What a run checks is hardly ever inductive as it stands. For each component
there is a stronger invariant that is, `...Inv` or `Inv`, proved in three facts:
the initial states satisfy it, every step keeps it (one step of the proof per
action), and it implies what the run checks.

`RuntimeProofs` (`Semaphore`, `EventChannel`, `AskUser`, `Breaker`):

* `SafetyInvariant`, of the semaphore, adds to `TypeOK` and `PermitsConserved` that the queue is free
  of repetitions, is exactly the set of waiting calls, and is empty unless the pool
  is: a release hands its permit to the head of the queue, so the head must be a
  call that waits, there once, and nobody may wait while a permit is free.
* `PermitsAlwaysConserved` and `WakeupNeverLost` follow from it;
* `ImplementsAdmission`: every behaviour is one of `Admission`, under the mapping
  of owners to admitted calls. The step proof uses the invariant for the
  hand-over: the woken call was waiting and the number of owners does not grow.
* `ChannelInv`: the buffer is the run of numbers behind what is past, and what is
  past was delivered, in order, or dropped and counted; a receiver is parked once,
  with no result waiting for it, and only while the buffer is empty. Hence
  `ChannelKeepsStream`.
* `AskInv`: a batch's reply agrees with its answers and its timer runs only while
  it is live; a key waits on the batch asked last under it if that one is live, and
  on none otherwise; under a stopped key nothing lives. Hence
  `AskChannelKeepsAnswers`: no call gets another one's reply, or two.
* `BreakerInv`: a breaker counts the reports since its last success and is timed by
  its last one (`CountsReports`); the registry is in the order of the last requests,
  and an endpoint it has lost was asked for before all it has, when it was full
  (`KeepsOrder`); as long as nothing had to go, endpoint and breaker are one and the
  same for reports and columns (`SharedBreakers`). A hit, a miss with room and a
  miss without are one lemma each and then one fact (`Follows`). Hence
  `BreakersKeepHistory`; that the endpoints asked for since e are those behind it in
  the registry (`SinceIsAfter`) gives the eviction rule its count.
* `RuntimeIsSafe` puts the four side by side, as the run has them.

`ArenaRunProofs` (`ArenaRun`, `ArenaPage`, the types of `TraceFlow`):

* `Fits`, of each gate: free permits and owners add up, the queue names exactly
  those who wait, each once, and nobody waits while a permit is free. The step
  that is hard is a run that starts all its columns at once and one that is
  aborted with several of them in the queue; the lemmas on `Withdraw` and
  `WithdrawAll` go through the queue one column at a time.
* `Told`, of each run: the terminators counted, in hand and buffered are no more
  than the workers done, and once all workers are done the last thing buffered is
  a terminator. Without it the drain loop, which stops by count or by a quiet
  poll, could stop early. Hence `SlotsAreConserved` and `NothingIsLeftBehind`.
* `Voice`, of each column: its complete is wherever the verdict has brought it, in
  the channel or at the route, with nothing of the column behind it; before the
  verdict it is nowhere. With what `Told` says of a drain loop that ended by itself,
  and with the ledger saying `completed` only for such a run or for one that was
  refused before a worker was born, this gives `TerminalsAreTold`.
* `PageInv`, of the arena page: the newest run is the only one that runs, is pending
  or has a report, and it is clean once all its columns are settled unless its turn
  was forgotten (`RunsInTurn`); what a column shows under its current turn is of the
  newest run, and there is something as long as the turn is to be committed
  (`ShowsTurn`); a committed pair is of a clean run, carries that run's answer and
  stands behind those of earlier runs (`PairsAreTold`). Stopped columns are stripped
  turn by turn and transcripts copied, so turn numbers recur; the proof shows for
  each of these steps that no event of a dead run is left under a number that comes
  again. Hence `PageKeepsHistory`.
* `ArenaIsSafe` puts run, page and timeline side by side, as the run has them: all
  types, and `RunsToldAndShown` while the run or the page moves.

`BuilderTurnProofs` (`BuilderTurn`): `Inv` says that a request that lives holds the
slot, so that at most one does (`Held`); that the terminator is in the channel only
once the pump is done (`Heard`); where pump, output and ledger row stand at each
stage (`Stage`); that what a turn has read still holds (`Read`); that completed
chats have numbers of their own up to the counter (`Numbered`, `Counted`); and that
a notice that waits has been told nobody (`Notices`). It gives all five safety
properties of the run: `OneDriverRuns`, `SnapshotIsKept`, `HistoryIsTold`,
`SwapsAreAnnounced` and the types.

`ThreadWorkspacesProofs` (`ThreadWorkspaces`; finitely many threads and turns).
None of the properties is inductive, and they need each other:

* `Shape`: types, and what the fields of one record say about each other (a
  queued worker has an open stream, a running copy has a parent in the store);
* `Busy`: a thread is busy with one thing, the stream of one turn or one fork.
  It gives `FlagTellsTruth` (`RunningTellsTruth`);
* `Owned`: a name belongs to one thread or column, the name of a clone to its
  fork, and a fresh name to nobody;
* `HoldsMatchHolders` (`HoldsAreCounted`): what may be evicted has no hold, so
  evictions, lookups, pins and registrations leave every count alone (lemmas
  `DropKeepsHolds` to `SweptKeepsHolds`), and each action that protects or
  unprotects moves one of the counted sets by one;
* `CopiedTreeIsStill` (`CopiesAreStill`): a fork finds no hold on its source, so
  by the counts nobody works there; a turn that begins to work there during the
  copy would by `Owned` be a turn of the parent, which by `Busy` has none;
* `Room` (`EvictionIsFair`): the registry's type, the quota and the trees of the
  workers. A step is several stages (sweep, make room, register, protect). A
  stage `Spares` what may not be evicted, and a registry `Covers` the workers as
  long as it holds what they hold; by the counts it does before the step, and by
  `CopiedTreeIsStill` still does when a copy has let go of its source. The same
  argument gives `PinsAreKept` (`PinnedStays`). What is left of the order of
  access when names go (`Without`) is a recursive function, and
  `WithoutProperties` is proved by induction over it with `SetInduction`.

In the same module, of `BuilderPage` (any number of agents, messages and reads):

* `PageReads`: a read that no turn of its agent overtook, and that was answered, got
  what the history of that agent still tells; and as long as such a read is under
  way, no turn of that agent is being told. It is what lets a late read fill the
  chat.
* `PageChat`: unless the chat will be filled again (`Awaiting`), it is the history of
  the agent in view, with the message of the stream behind it while the turn runs,
  and without the answer while that is on its way. Stories are compared as sets of
  bubbles that leave out what was settled late (`Left`), and put in order by the
  numbers of their messages (`InOrder`), which `PageNumbers` keeps: the turn that
  runs is numbered behind the history of its agent, and is the stream's if it has
  its number. Each way the chat changes is a lemma on stories (`FitsSent`,
  `FitsSettled`, `FitsAnswered`, `FitsFilled`, `FitsLater`).
* Hence `BuilderPageTells`, and with the threads side by side
  `ConversationsAreTold`.

`StorageProofs` (of the specification `MCStorage` that the run checks):

* `SnapInv`: the session file, the queue from its head on, and the memory: each is
  not newer than the next; and an orderly stop has queued what the memory holds.
  Hence the action property `SavedMovesForward` and the first half of
  `ExitIsOrderly`; `ShutdownInv` is the other half: behind a drain that worked
  nobody is connected, and what the last flush leaves out belongs to turns whose
  client had left.
* `JournalInv`: the lines on disk, in the queue and pending are in order and each
  piece precedes the next; what was accepted is in one of them or counted as lost,
  never both; batches are in the order they were handed over; a read that waits has
  everything older on disk once its batch has left the queue; a deleted session's
  last write is the rewrite. Hence `JournalIsKept`.
* `JsonInv`: what the three files hold at each stage of a write.
* `LedgerInv`: the ledger's invariant must say of a disk that can hold any number of
  lines what a replay of all of them gives. `Told` is its core: the disk *tells of*
  the memory, either by a snapshot and lines whose replay gives the memory with
  active sessions failed, or, between the snapshot and the truncation of a
  checkpoint, by a snapshot that is the memory and lines that *agree* with it:
  what they create is there or deleted further on, what they add is there, the
  last finish has the say, and what they delete is gone (`Agrees`). `ReplayAgain`
  proves that such a replay changes nothing, which is the claim "replay is
  idempotent" of `checkpoint`. The other parts say that queued calls are queued
  once (`Requested`, `Queued`), that the operation being written is accepted by the
  memory (`Doing`), that the names to come are nowhere (`Fresh`: a line for an id
  that the log has deleted would bring it back), that spilled bodies are in the
  sidecar (`Spilled`) and what has been appended since when (`Counting`). Hence
  `WhatIsAckedSurvives`, `LedgerAgrees` and `StoresAreTyped`.

`ToolsProofs` (of the specification `MCTools`):

* `McpInv`: pipe and queue hold only what the server can have written, the reply it
  gave to a call or a request under an id of its own, whatever ids those are;
* `ProcessInv`: before the outcome, the first thing that came to a command is why it
  is killed, and the promise has settled at most once;
* `BridgeInv`: the promise settles when the child is gone, a signal before that
  leaves a failure and never a success, and a paid completion is a turn, a turn a
  request;
* `HarnessInv`: errors are forwarded until the run is done; the complete that is
  held back is the last attempt's; the feedback is that of the attempt just
  rejected, and the reader's projection holds what the attempts said;
* `JobsInv`: the cursor is where the polls told up to, and no spill file behind it
  is ahead of the cursor; a live job that no registry lists is being killed;
* `ShellInv`: the commands a shell has are, in turn, in its output or its input,
  and so are those queued; the cursor stands on the marker of a send that is done,
  and what was shown lies behind it; shells that have exited are forgotten;
* `DriverInv`: the model turns without a tool so far and those that are left add up
  to no more than the limit. What is left depends on the mode: a turn for each phase
  of chain of thought, two for each branch that lacks its score, two for each round
  of reflexion (`TurnsLeft`); a plan has its replans and three quiet turns in a row,
  a critic its redirects. Mode, phase, plans and scores fit each other (`Reasoned`),
  so a branch is never scored for another. `Leading`, the loop of both choices, is a
  recursive function that ends at the first of the largest (by `SetInduction`), which
  makes the mounted plan a best one and the voted answer the majority's. Hence
  `DriversEndWell`.

`ColumnsComeToTheirEnd`, `ToolsAreTyped` and `CutsComeOutSound` put all eight side by
side, as the run has them.

`ContextProofs` (`ContextPipeline`; any window, budgets, batches, sizes and length):

* `TrailInv`: messages know their places, and the calls that are owed a result were
  turned for, each once, and have none yet. It is what the types need.
* `TaleInv`: the transcript is a `Story`: one system message, of no size, at its
  front; calls only in model turns, each made once; a result behind the turn that
  asked for it with nothing but results between. A call is answered or owed, and what
  is owed belongs to the last turn. When the next model turn is due nothing is owed,
  so every call is answered.
* A list is `Drawn` from a story if each of its messages is the pipeline's own or a
  copy that lost calls or size at most, in the story's order, and no note stands
  between a turn and a result of it. Windows, spans, selections, notes and prunings
  are each shown to draw; the lemmas `SubSeqIsBody`, `ChosenIsBody`, `AddedFirst`,
  `JoinIsDrawn` do the work and every strategy is put together from them.
* The repair makes what is drawn `Balanced`, every result with its call and every
  call with its result (`PairedIsBalanced`). Drawn and balanced is wired
  (`BalancedIsWired`): what stood between turn and result in the story were results
  of the same turn, so each call has its result right behind its turn. It is only
  together with the order that the repair, which looks at ids and not at places,
  is enough. The flattening keeps it (`FlattenedIsSound`).
* Losses: a window keeps everything behind its cut (`Whole`); what a budget leaves
  weighs no more than the places it is from (`WeightOfCopies`), which for the
  character budget are within it or all pinned, since the messages are sacrificed
  in a linear order (`SacrificesSuffice`), and for the sources are within grants
  that add up to the budget (`GrantsFit`); and whoever cuts adds a note that the
  repair lets stand. Hence `EveryCutIsSound`, and `CutsComeOutSound` for the run.

Assumptions used are the named ones of the modules. They are numbers being
numbers, and: finitely many questions, requests, threads and turns; lineups that
name no column twice; the markers of `SessionLedger` and of other modules being
different from what they mark (`MarkerAssumption`).

A replay of a log is a function defined by recursion on the number of lines, and
what is proved of it goes by induction over that number. The induction theorems of
the library take an operator and cannot be used here; `SetInduction` of
`SharedLemmas` says the same of a set, from the fact that the naturals are well
founded, and the lemmas define the set of lengths for which they hold.

Model-checked only:

* liveness (`EveryWaitEnds`, `EverythingEnds`, `SlotIsFreed`, `EveryWriteSettles`,
  `EveryToolEnds`), since fairness and ENABLED are out of the prover's reach;
* the part of `RunsToldAndShown` about the timeline: it says what folds and filters
  compute from the events of a column (`SelectSeq`, `FoldLeft`, `FlattenSeq` of the
  community modules), induction over data that the library's theorems cannot be
  instantiated for. The types of the component are proved.

Proving changed three models. `LossIsTold` (`ContextPipeline`) demanded of a character
budget that cannot be met that only pinned messages are left, and forgot the note that
tells of it; the runs had no budget that the pinned messages exceed by themselves. Now
the note is allowed for and the run has such a budget. The arms of `QuietLimit` (`DriverLoops`) overlapped for
drivers other than native, and a `CASE` whose guards overlap has no defined value; the
arms for the reasoning modes now name the native driver. `ChatIsOfAgent` (`BuilderPage`) compared filtered sequences
and now compares what they tell and that both are in order, which says the same and in
addition orders what was settled late.

## 5. Not modelled, and the plan

Proofs left: the timeline, which would take recursive functions in place of its folds,
as they were put in the context pipeline, and lemmas on each kind of event.

Candidates for a model: the matrix of selections, delegation
inside a driver, path and command rules of the sandbox as a function over
bounded inputs, the judge's verdict.

Left out for good: external frameworks and providers (they are the
nondeterministic driver here), rendering, translations, prompts, configuration
forms and environment probing, file formats, spill files. What each modelled
part leaves out is in the notes of the components in `PROJECT.json`; what holds
for all: event contents, metrics, wording, token counts and costs.

## 6. Where code and documentation disagree

Six runs show a disagreement:

* `arena_ledger`: a client that leaves during a run leaves its session `active`;
  `arena-service.ts:191` says the session closes when the stream settles. The
  route returns the generators, and JavaScript then runs only the `finally`.
* `builder_slot`: the first chunk of a turn is yielded in front of the `try`
  that frees the session. A client that is gone by then leaves the session busy
  until the process restarts.
* `workspace_loss`: an execution gives its workspace up in its own `finally`,
  while the commit and the pin wait for the consumer of the stream. With a slow
  client the directory can be evicted in between, and the thread keeps a
  workspace that is gone.
* `ledger_torn`: an append goes behind a line torn by a crash, the two read as one
  unparsable line, and a committed mutation is lost.
* `mcp_ids`: a request of the MCP server that carries the id of a pending client
  request is taken for its reply.
* `page_commit`: a question asked while the report of the last turn is still to
  come has its turn cancelled by the old stream's teardown.

Remarks met while modelling, without a run of their own:

Arena and agents
* a run whose columns were still queued when the client left drains to its end
  without an event and is recorded `completed`, not cancelled;
* a stop acknowledged while the structured finalize or the episode is in flight
  comes behind the only checkpoint (`agent-execution.ts:678`), and the column
  finishes normally, although `runner.ts:329` says that a stopped column emits an
  error and a failed complete;
* the disconnect grace of the runner is inside its `finally`, which a run reaches
  only when an event arrives or all workers are done, so a tool that never
  returns outlives it;
* a throw between the protection of the workspace and the `try`
  (`agent-execution.ts:306`) leaves it protected;
* `loop.ts` speaks of "suppressing intermediate complete/error", but errors of an
  attempt that is repeated are forwarded, and `runDelegated`
  (`agent-execution.ts:379`) counts any error as the outcome;
* when a repeated attempt passes, its own complete was suppressed and a success is
  synthesized, even if it said `success: false`; a rejected attempt's thought stays
  the answer if the accepted one has only an observation, and leftover streamed
  text is glued to the next attempt's;
* the matrix reports an abort during a cell that still ends normally as `scored`.

Drivers and context
* native reflexion and tree-of-thought stream critiques, plans and scores on the
  channel the answer is taken from: a run that ends on a critique without a retry
  word, on its step budget, or on a last turn without text answers with one;
* plan_execute asks again after a final answer, up to `2 * replans + 3` quiet
  turns; tool calls of a phase that offers no tools are executed all the same; an
  attempt of self_consistency without a text votes with its last observation;
* `extractOriginalQuestion` takes the first user message, so with replayed history
  the "[Unique task]" of the system prompt names an earlier turn's question;
* calls without an id are named `call_<index>` per response
  (`llm-message.ts:100`), so ids recur and an old call may pass for answered;
* `checkpoint-strategy.ts:30` pins user turns and the final exchange in words, in
  code a user message at the very end; its "oldest pair-safe span" is the one with
  fewest messages; `token-budget.ts:9` keeps the newest turns unless a batch is
  larger than `keepTurns`, and its record of drops misses what pair repair drops;
  the budget strategy drops a newest message larger than its allowance;
* the wrap-up reminder is never switched on (`assemble.ts:419`);
* LangGraph: a graph failure drops queued tool results, because the rejection
  comes before the splice; tool callbacks overtake queued model events, so a
  thought can be split and a result stand alone.

Children and tools
* `finish` on `exit` ends an MCP stream before `close`, so the tail in between is
  lost although `transport.ts:174` says `close` guarantees it;
* the timer of `runProcess` does not look whether the child has exited, so an
  external signal followed by the timer is reported as a timeout; a child that
  ignores SIGTERM and exits 0 is `aborted` after an abort and `ok` after a timeout;
* exit digits of a shell split across chunks give a truncated code; `reapExited`
  on start drops output nobody polled; the `dropped` note counts output already
  shown; a spill body is capped while the cursor passes all of it;
* an error line or the idle timer after an abort overwrites the abort's reason
  (`child-bridge.ts:10`); a handler still running when the child dies outlives the
  complete; a watchdog under three seconds can postpone SIGKILL for ever; a
  signal aborted before the start never kills the child;
* ask_user answers are addressed by key and question id, so a late answer can
  reach a newer batch; `withRetry` and `withTimeout` have no caller;
* apply_patch drops a trailing newline on update, and its fallback search can hit
  lines an earlier chunk inserted.

Sessions and stores
* a builder turn that is left early keeps its ledger row `active`;
* a failed append after a spill leaves an orphan blob that a later inline entry of
  the same number returns; the count of lines since the last checkpoint is not
  seeded from the log found at the start;
* the journal's read misses the batch of a timer that is in flight
  (`session-trace-store.ts:8`), and its sequence restarts after a restart though
  `contracts/builder.ts:243` calls it monotonic;
* a crash during a signalled shutdown can still exit 0 if the orderly path ends
  first (`lifecycle.ts:94`); a rejected first flush skips the stop; a turn that
  commits during the last flush is lost;
* `clone` makes room before it protects its source (`workspace.ts:378`), so a
  fork under a full registry can evict what it is about to copy; after a restart a
  pin is renewed only by a read or a success; a turn may start on a fork while its
  directory is still being copied.

Page
* clearing, or changing a dimension, while the report is still to come lets the old
  run's report appear on the cleared page; judge results of an earlier run can be
  written into the columns of a newer one; with a transcript at its cap the turn
  number stops growing and the previous trace is stripped;
* the builder page fills its chat from any detail read of a selection, also when
  another agent has been selected since (`BuilderClient.tsx:178`), and the draft
  that a hot-swap would send is then the other agent's; a failed one deselects. A
  read after a failed turn that is answered when the next one streams removes that
  turn's question and live events (`:393`), though the comment there says "without
  clobbering the fresh bubble". In the model such a chat is `blurred` and excepted;
* a question window stays open when an agent is created during the turn, and its
  answer then goes to the new agent (`:427`); a refused send aborts the turn that
  runs (`:368`);
* the timeline pairs observations with the last open action; keys are turn and
  step, and an attempt that is repeated restarts its steps, so its thinking is
  appended to the first attempt's row; a silent model call's marker is never
  settled.
