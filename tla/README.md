# PleiadeAI: a verification project

PleiadeAI runs a fleet of LLM agents on a few GPU boxes. Its backend (`backend/src`, one Node
process over MongoDB) lets an operator chat with the agents, wakes them by itself (cron, forum
mentions, GitLab events, standing goals), streams their inference from llama.cpp servers, and keeps
them off each other's toes. Most of what can go wrong is not in a function but between two of its
`await`s. These modules model that: **a step ends where the code awaits**. A request to the database
takes effect in one step and its reply is acted on in a later one, and anything else of the same
process may run in between.

Paths below are relative to the repository; `B/` stands for `backend/src/`.

## 1. Inventory

| Component | State it keeps | Operations | Hard behaviour | What makes it correct |
|---|---|---|---|---|
| **Run lane** `B/domain/run-queue` | the `run_queue` collection; `started`, `paused`, `held`, `draining` of the singleton; the stored pause switch | enqueue, drain (claim, run, finish), cancel, promote, setPaused, hold, start/recover | kicks race the drain's replies; crash in the middle of a turn; boot overlaps Agenda; every request may be refused | one turn at a time; no turn twice; outcomes final; what reads `running` is running; the switch is obeyed; no row stranded |
| **Inference gate** `B/inference/endpoint-gate.ts` | per URL: queue, count of slots, limit | acquire, pump, success/fail | the limit belongs to the call and moves under the running ones; an admitted caller resumes later than it is counted | slots conserved, none idle while calls wait, never over-admitted, arrival order |
| **Health breaker** `B/inference/endpoint-health.ts` | per URL: failures, down since, last trial | isAvailable, reportSuccess/Failure, poll | the answer is stale by the time the call is sent | a box known down is gone around, and gets its trials |
| **Streaming with failover** `B/inference/LlamaClient.ts` | the pass's candidates, what was emitted, the handle | streamChat, attemptStream, complete | failures before and after the first output, stops, parked calls | the slot ends with the attempt; one voice per pass; every pass ends |
| **Autonomous loops** `B/autonomy/AutoLoopRunner.ts`, `B/domain/auto-loops`, `B/tools/core/loopDone.ts` | the loop's document; its timer | start, stop, delete, queueTick, tick, loop_done, resume | operator, agent and tick write one document; timers die with the process | stop and done are final; a failing loop is parked; an active loop goes on |
| **Session lock** `B/core/session/SessionLock.ts` | count of live sessions per agent, waiters | acquire, release, waitUntilFree | released on every path; a wait that times out | balanced; nobody waits for a free agent |
| **GPU broker** `gpu-broker/broker.mjs`, a process of its own | active service, readiness, admission queue, in-flight counts, idle timers | arrive, acquire, pump, swap, idle stop, replay, release | a swap against drains, idle timers, replays and Docker errors | one service is loaded; none is stopped under a request; no waiter forgotten or starved |
| Turn orchestration `B/orchestrator` | the run's messages, hop count, image pool | run, delegate, tool batches | parallel tools, aborts, nested agents | ends within its ceiling; a batch's results in call order |
| **Forum** `B/domain/forum` | threads with their allowance, mentions, `inFlight` | post, mention, wake, run, answer, dismiss, delete | a press of Run against the lane, edits under a run, an answer looked up by agent and time, budget claimed before the run | one run and one answer per mention; a window's allowance bounds the wakes and its exhaustion is told once |
| **GitLab wakes** `B/domain/gitlab` | a cursor per source, the deliveries seen, the rows handed to the lane | poll (to-dos, events, pipelines), webhook, catch-up, re-baseline | overlapping polls, a budget that ends a page anywhere, crashes between wake and cursor, GitLab's retries | a delivery is one turn; the cursor passes nothing over; a baseline wakes nobody |
| Cron `B/autonomy/agenda.setup.ts` | Agenda's jobs | schedule, fire, run row | the deferral to the lane, the lock | a fired schedule ends as a recorded run |
| **Flows** `B/flows/FlowRunner.ts`, `FlowApprovalBroker.ts` | the run's document, node states and outputs, the pending gate | start, schedule, skip, iterate, ask, answer, stop, sweep | parallel branches and passes, a first failure that leaves its siblings running, two gates at once, a stop in the middle of writes | exactly the taken nodes run; nothing reads what is undecided; a run ends and leaves nothing behind |
| **Flow timers** `B/flows/TimerScheduler.ts` | the armed map, its intervals, `timer_armed` | arm, tick, disarm, restore, stopAll | arm, tick and disarm interleave at their awaits; a run arms its own flow | one live interval, and the document knows; no timed runs overlap; a restart resumes |
| Turn recorder `B/transport/ws`, `frontend/src/store/stream.ts` | blocks of the turn so far, live runs | events, snapshot, join, stop | a late joiner gets a snapshot and the events after it | a joiner sees each block once, in order |
| Maintenance and restore `B/domain/migration` | the mode, the job | enter, restore, leave, restart | work in flight while collections are replaced | nothing writes during a restore; everything comes back after a failed one |
| Flow streams `B/streaming` | clips, playout, subscribers | push, subscribe, stop, respawn | ingest overlaps stop | nothing plays after a stop |
| Skills `B/tools/sandbox`, `B/core/circuit-breaker` | failures per skill | run, trip, re-enable | overlapping runs around the trip | disabled once, at the threshold |
| Containers and builds, media jobs, Telegram, monitoring, finetune, memory, scoring, administration | see `PROJECT.json` | | mostly I/O | |

How they interact. Every autonomous source (`cron`, `forum`, `gitlab`, `auto_loop`) registers a
handler with the run lane and enqueues rows with a dedupe key; the lane runs one row's handler at a
time. A handler yields to an operator's session through the session lock, then runs a turn
(`AgentRunner`), which resolves its endpoints once and makes pass after pass through
`LlamaClient.streamChat`; each attempt holds a slot of the gate for as long as it streams and feeds
the breaker. Operator chats do not go through the lane; they share the gate, the breaker and the
lock. Maintenance mode holds the lane. A llama.cpp or image server that shares its GPU with another
is reached through the GPU broker, which loads one of them at a time. The process may die at any point: the collections survive,
everything else is rebuilt by `index.ts`.

## 2. The modules

| Module | Models | Builds on |
|---|---|---|
| `RunLane` | what the run lane promises: an exclusive lane, abstractly | |
| `RunQueue` | the run lane as it is coded | refines `RunLane` |
| `EndpointGate` | the gate | |
| `StreamChat` | a pass with failover, the breaker, turns, side calls and stops | extends `EndpointGate`, refines its `GateSpec` |
| `AutoLoop` | one loop, its lock, its timer, its rows in the lane | |
| `GpuLane` | what the GPU broker promises its clients, abstractly | |
| `GpuBroker` | admission, swaps, idle stops and replays of the GPU broker | refines `GpuLane` |
| `FlowRunner` | one run of a flow: scheduler, loops, approval gates | |
| `FlowTimer` | the Time trigger of one flow and all that arms or stops it | |
| `GitLabPoll` | from an event on GitLab, polled or delivered, to a row of the lane | |
| `ForumMention` | from a post that names agents to the answers on its thread | |
| `RunQueueProofs`, `StreamChatProofs`, `FlowTimerProofs`, `FlowRunnerProofs`, `AutoLoopProofs`, `GpuBrokerProofs`, `ForumMentionProofs`, `GitLabPollProofs` | theorems | the module they are about; `StreamChatProofs` is about the gate as well as the turns |
| `MCRunQueue`, `MCEndpointGate`, `MCStreamChat`, `MCAutoLoop`, `MCGpuBroker`, `MCFlowRunner`, `MCFlowTimer`, `MCGitLabPoll`, `MCForumMention` | instances for TLC | |

Definitions called *Mutant of ...* in the modules are plausible bugs, kept next to the definition
they would spoil: they document what each property is able to notice.

### RunQueue

`status`, `prio`, `at` are the columns of `run_queue`; `pausedSetting` is the settings document;
`started`, `paused`, `held`, `draining` are the fields of the `RunQueue` singleton. Every element of
`Rows` is one call of `enqueue()`, with its dedupe key `KeyOf` and its priority. A drain loop `l`
walks through `pc[l]`: *claim* (the request is on its way), *got* or *empty* (the reply is), *run*
(in the handler), *finish* (the outcome's write is on its way). `Drain` is the synchronous part of
`drain()`: the guard, the flag, the first request.

| Code | Action |
|---|---|
| `drain` / `claim` | `Drain`, `Claim`, `DrainDone` |
| `runOne` / `finish` | `RunOne`, `HandlerEnds`, `Finish`, `RequestFails` |
| `enqueue` / `isPending` / `insert` | `EnqueueCheck`, `EnqueueInsert`, `EnqueueKick` |
| `cancel`, `promote` | `Cancel`, `PromoteRead`, `PromoteWrite` |
| `setPaused`, `hold` | `SetPaused`, then `PressStored` (the write), `PressAnswered` (the kick) or `PressRefused`; `Hold` |
| `start`, `recover` | `Boot`, `StartBegins`, `StartReadsPause`, `Recover`, `StartKicks` |
| death of the process | `Crash` |

`EarlyRows` are rows of Agenda jobs. `index.ts` starts Agenda before it calls `runQueue.start()`, so
such a row can enter a lane that is still booting; every other source is idle until boot has ended
(HTTP does not listen yet, the loops resume later). With `EarlyRows = {}` the lane keeps all it
promises; with one early row it does not (`RunQueue_boot_window.cfg`).

`press[b]` is one call of `setPaused()`: it flips the flag at once and sends its write, and waits for
no other. `Presses` bounds how many are under way together; their writes land in any order, and
`crossed` remembers that the last press was made while another one's write was under way. A write
whose process has died has landed, or not, by the time the next process reads the settings.

### EndpointGate

`queue`, `active`, `slots`, `running` are the fields of the per-URL statistics and the queue of
parked calls; `call` and `where` are the callers' side. `Acquire` is `acquire()` up to its await,
including the `pump()` it ends with; `Start` is the microtask in which an admitted caller resumes;
`Finish` is `success()` or `fail()`, idempotent by the handle's `done` flag. `Pump` is given the
queue, the count, the limit and the call states *at that point of the handler*, because the code
calls it in the middle of one.

### StreamChat

A turn is *idle*, *ready* (between passes), *trying* (in an attempt, whose progress is the gate's
`call`), *won* or *lost* (the attempt has settled and the caller's continuation has not run yet) or
in a *side* call (`complete()`, which has neither breaker nor failover). `current` is the candidate
being tried and `chain` the set of those left; `Before` is their order, the agent's own endpoint
first and then the chain by `fallback_order`, and `Try` takes the first. The breaker's times are ages: `downFor` and `trialFor` count ticks and stop at
`Cooldown`, since the code only compares them with it. `Enter` takes any of `SlotChoices`: a turn
declares the slots it resolved when it began, which the operator may have edited since.
`Probe` is the reply of the background poll. A `Stop` changes the abort signal and nothing else,
because `acquire()` does not listen to it: a parked turn stays parked.
JavaScript would run a continuation (*won*, *lost*) before the next network event; the model lets
other events come first. It therefore has more behaviours than the code, and what it satisfies the
code satisfies.

### AutoLoop

`status` and `streak` are the loop's document, `timer` the armed countdown, `qt` the `queueTick()`
invocations in flight, `waiting` the number of this loop's rows queued in the lane, `tick` the place
the running row has reached in `tick()`, from *read* to *return* (the handler has returned, the lane
has not recorded it yet). `busy` is `SessionLock.active` of the agent. A waiter of the lock is woken
by the last release (`ChatEnds` sends a waiting tick on) or times out (`WaitTimesOut`).
`request` is the operator's start, stop or delete in the middle of its await: one of them at a time.
`RequestRefused` refuses any one database request of the loop; the lane's own write of a finished
row is granted here, refusals of that one are RunQueue's. A loop's interval is at least ten seconds,
so a countdown armed by a tick fires only after the lane has recorded that tick's row; the
immediate tick of `start()` has no such margin.

### GpuBroker

`active`, `ready`, `admitting`, `queue`, `inflight`, `idle` are the module-level variables of
`broker.mjs` (`ready` is `activeReady`), `running` is Docker's side. `pump[p]` is the await an
invocation of `pump()` has reached: *drain*, *grace*, *stop*, *settle*, *inspect*, *start*, *probe*
are those of `ensureLoaded()`, *pick* is the loop between two waiters, which has no await that lets
another event in (`Quiet`). `req[r]` is a client's request: its *body* is read, it is *queued*, *open*
at the upstream, or dropped and waiting for a *retry*.

| Code | Action |
|---|---|
| `pump`, `pickNext` | `PickLoaded`, `PickOther`, `PumpDone`; outcomes `Admit`, `Reject` |
| `ensureLoaded`: drain, deferral, stop, start | `Drained`, `Defer`, `Commit`, `StopOut`, `Settle`, `Inspect`, `StartUp` |
| `probe`, `waitReady` | `GetsReady`, `GivesUp` |
| idle timer of `scheduleIdle` | `IdleFires`, `Unloaded` |
| `handle` / `readBody` / `acquire` | `Arrive`, `BodyLost`, `Join` |
| `handle` / `forward` / `release` | `Ends`, `Dropped`, `Replayed`, `NotReplayed` |
| `main` | `Init` |

`line` and `stray` are history: who came when (a waiter's `at`), and which containers run although
their start was given up. Waiting for `maxWaitSec` is `Age`, in the order of arrival. A restart of
the broker is `Init` again: boot stops every container.

`GpuLane` knows a `holder` of the GPU and the service that is `losing` it. The refinement
`LaneIsImplemented` maps them: a service a pump has drained and is turning out, or one whose idle
timer is stopping it, is losing; otherwise the active one holds; a client is *away*, *waits* or is *served*.

### FlowRunner

A *scope* is one execution of a region: the whole graph (`Main`, 0) or pass `i` of a `for_each` body.
`pending`, `todo`, `ready` and `batch` are the locals of `executeRegion()`, per scope, as sets: its lists
keep the order of the document, and `First`, `Upto` and `Slice` read it off. `node` is where
`executeNode()` is with a node, and `Status` reads `NodeRuntime.status` off it. Values are abstracted
to the set of output ports a node filled, which is all the scheduler looks at. `View` and `Filled`
are what a scope sees: the body through the pass's own runtime, the rest through the outer one.

| Code | Action |
|---|---|
| `settle` | `Verdict`, from `QuotesUnsettled`, `Awaits` and `Unfed` (with `Quoted`, `Incoming`, `Satisfied`) |
| `executeRegion` | `LoopHead`, `Pass`, `Launch`, `PassGoesOn`, `Drain`, `BatchDone`, `BatchFails` |
| `executeNode`, `markSkipped` | `Starts`, `HandlerReturns`, `HandlerThrows`, `Stored`, `FailureStored`, `Skip` |
| `runLoop`, `runIteration` | `LoopGoesOn`, `PassBegins`, `LoopCloses`, `CollectStored`, `LoopFails` |
| `FlowApprovalBroker` ask, answer, timer, cancel | `Asks`, `Answer`, `AnswerLands`, `GateTimesOut`, `Cancelled` |
| `start`, `stop`, `sweepInterrupted` | `Begin`, `Conclude`, `Finish`, `Stop`, `Sweep`; death of the process: `Crash` |

A flow is a record: order of the document, edges with their ports, template references, required and
signal ports, and the outcomes a node may have. `validateFlow()` is the assumption on `Flows`: the
graph is acyclic (`findCycles`), a loop has its collect, and no wire leaves a body but into it
(`loopBody`). A wire from outside a loop straight into its body is only warned of, so it is allowed
here (`FedFromOutside`): the scheduler of a pass does not look at it (`Incoming`), the node reads it.
The broker keeps one gate per run: a second one replaces the entry, and the first can then only end
by its 24-hour timer, which deletes the entry of the other. `Taken` is the reference definition of
what a run should execute: it reads the graph and the filled ports and knows nothing of scheduling.
It is the set of nodes that agrees with itself: a node is in it exactly when it is fed from within it
(`TakenFrom`). The graph is acyclic, so there is one such set and no other.

### FlowTimer

`entry` is the flow's `ArmedTimer` in the `armed` map, `timers` the intervals that are live, `info`
what the entries hold: the two can differ, since a tick keeps the entry it found in hand over its
await. An arming is two steps, the read of the flow (`ArmReads`) and what is done with the answer
(`ArmActs`), and perhaps a third, its write.

| Code | Action |
|---|---|
| `arm` | `StartArm`, `ArmReads`, `ArmActs`, `ArmPersists` |
| `disarm` | `Forget`, then `DisarmPersists` or `TickPersists` |
| `tick` | `TickFires`, `TickReads`, `TickActs`, `RunEnds`, `TickPersists` |
| the timer node's `run` | `NodeArms` |
| routes: arm, stop the stream, save, delete | `OperatorArms`, `OperatorDisarms`, `OperatorSaves`, `OperatorDeletes` |
| maintenance: `stopAll`, leave; `restore` | `EnterMaintenance`, `StopAll`, `LeaveMaintenance`; `Crash`, `Restore` |

The page saves the switch and the graph in separate requests, and so does `OperatorSaves`; a save of
the graph may take the Time node away (`NoTimer`) or put it back. A flow without it cannot be armed
(`ArmReads` throws), but ticks on if it was. An interval is at least five seconds, and a tick's read of
the flow may take longer: then the next tick fires before `running` is set (`TickFires`, `Undecided`).
`max_failures` is the same in every version of the flow. Four histories bound what is claimed:
`replaced`, an entry was created while a tick was under way; `crowded`, a tick fired before an earlier
one had decided, and ticks have been under way since; `nodeless`, an armed flow that was not ticking
was found without its Time node, and no entry was created since; `disturbed`, two calls overlapped or
one was refused.

### GitLabPoll

To-dos, events and pipelines are numbered in the order of their ids. `cursor` is the collection
`gitlab_poll_state` (*Never*: no document), `seen` the set of deliveries of this process, `tick[k]`
a call of `pollOnce()`, by the job or the button: *list*, *state* (the cursor is read), *baseline*,
*items*, *mark* (the to-do is being acknowledged). `enq` are the calls of the lane's `enqueue()`
nobody waits for, `rows` the turns they became.

| Code | Action |
|---|---|
| `pollOnce` | `PollBegins`, `NextSource` |
| `pollTodos`, `pollEvents`, `pollMrPipelines` | `List`, `ReadCursor`, `Wakes`, `Marks`, `Saves` |
| `Tick.wake`, `gitlabWakeQueue.enqueue` | `Wakes`, `HandOver`; the lane's answer: `Enqueue` |
| the webhook route | `HookArrives` (looked up in `seen`), `HookWakes` (after `decide()`) |
| `catchUpTodos`, `rebaseline` | `CatchUp`, `Rebaseline` |
| GitLab itself | `RaiseTodo`, `EventHappens`, `PipelineFails`; death of the process: `Crash` |

The three sources share their shape, so one set of actions is given the source: `Listed` is what its
request returns, `KeyOf` the delivery's key, `Reached` what its cursor has come to. Every listing is
cut, newest first (`NewestOf`): to-dos at `TodoPage` (`paginate: 100`, `gitlab-poll.service.ts:301`),
events at `Page`, failed pipelines at `PipePage` (`per_page: 20`, line 743). `unlisted` remembers the
to-dos that were pending when a poll listed them and beyond its page.

### ForumMention

`thread`, `account` and `mention` are documents: a thread's status, its allowance (`spent`, the age
of its `window`, whether the operator was `told`), a mention's `status`, whether it has a `session`,
was `blocked`, and whose run wrote its `reply`. `post[p]` is how far a post is recorded, `rows` the
rows that wait in the lane, `inFlight` the set of that name. `run[r]` is a run, the lane's or one of
the operator's `Hands`, and the await it has reached: *switch*, *mention*, *thread*, *claim* and, when
refused, *block*, *notice*, *alert* are `runOne()`; *check*, *open*, *link* are `begin()`; the rest is
`drive()`.

| Code | Action |
|---|---|
| `addPost`, `record`, `forumWakeQueue.enqueue` | `OperatorPosts`, `TurnPosts`; `Stores`, `ReadsFleetSwitch`, `HandsOver` |
| `runOne`, `claimAutoRun`, `notifyExhausted` | `TakesRow`, `Looks`, `Claims`, `Blocks`, `Notices`, `Alerts` |
| `start`, `begin` | `Press`, `Checks`, `Opens`, `Links` |
| `drive` | `Turns`, `LooksForOwn`, `Rereads`, `PostsBack`, `Marks`; a refused request: `Refused` |
| the operator's routes | `FlipSwitch`, `Moderates`, `DeletesThread`, `DeletesPost`, `Triages` |
| the age of a window, death of the process | `WindowAges`, `Crash` |

`Heard` is `latestByAgentSince()` seen from the other side: a post of the agent counts for each of its
runs on that thread that is still listening, whichever session wrote it. The lane is reduced to what
the forum sees of it: rows in order, one handler at a time, the waiting ones kept over a restart;
`overlapped` remembers the mentions two runs of which passed the guard together, and `tally` counts
the runs and alerts of a window.

## 3. What is checked

Between them the passing runs fire every action of every module. Deadlock is checked in all of them
but three, where the system really may stop: a flow's run ends (`FlowRunner`), a flow that was
deleted with nothing armed has nothing left to do (`FlowTimer`), and so has a forum whose threads were
closed or deleted (`ForumMention`).

| Run (cfg) | Instance | Shows |
|---|---|---|
| `RunQueue_safety` | 2 rows with one key, both with a handler, 2 loops, 2 presses of the switch at once, 2 restarts, priorities to 1 | `OneTurnAtATime`, `RunAtMostOnce`, `HeldRowIsRunning`, `ShutLetsOneThrough`, `PausedLaneStaysShut`, and the refinement `LaneIsImplemented` |
| `RunQueue_liveness` | 2 rows, one of them without a handler, 1 loop, 1 restart, any request may be refused | `TurnSettles`, `LaneKeepsMoving` |
| `StreamChat_pass` | 2 turns, each other's fallback, over the gates of 2 boxes that every call declares to have 0 slots (read as 1) or 2 | the gate's `SlotsConserved`, `NoIdleSlot`, `NeverOverAdmit`; the turns' `RoutedAround`, `PassEnds`, and that no attempt leaks its slot: `SlotEndsWithAttempt` |
| `AutoLoop_pass` | 2 chats, 2 ticks in flight, 2 starts, 1 restart, 1 refused request | `LockBalanced`, `FailingLoopIsParked`, `DoneStaysDone`, `LoopGoesOn` |
| `GpuBroker_pass` | 2 services, 2 clients of one of them (one a poller) and 1 of the other, 1 retry, idle stop, slow starts, Docker errors, dying containers | `InflightExact`, `OneLoadedButStrays`, the refinement `LaneIsImplemented` (which has `StoppedWhenDrained` in it), `AdmissionEnds` |
| `FlowRunner_pass` | 4 flows: a condition around a loop of two passes with a template reference across it; two gates on parallel branches; a gate in a loop of two passes at once; a loop whose body is wired from outside as well. 1 refused write, stops, a restart | `RunsExactlyTheTaken`, `SuccessLeavesNothing`, `ReadsSettled`, `StoppedStartsNothing`, `RunSettles` |
| `FlowTimer_pass` | 1 arming and 2 ticks at a time, 2 intervals or no Time node, 2 requests of the operator, 1 restart, refused request or slow read, failures to the limit | `OneTimedRun`, `SoleTimer`, `FlagMatchesTimer`, `SuspendedFallsSilent`, `RestartResumes` |
| `GitLabPoll_overlap` | 2 polls at a time, 2 to-dos, a page of 2, a budget of one wake, 1 death or refused request | `NothingPassedOver`, `BaselineWakesNobody`, `AcknowledgedStaysQuiet`, `EveryAssignmentIsServed` |
| `GitLabPoll_sources` | 1 poll over all three sources, one item of each, a webhook sent twice, 1 catch-up or re-baseline, `seen` cleared at three | `OneTurnPerDelivery` |
| `ForumMention_pass` | a project's thread, 2 posts that wake one agent each, an allowance of 1, 1 press of Run, 1 window aged, 1 edit, 1 restart or refused request | `SoleRun`, `BudgetHolds`, `WithheldIsTold` |

Two runs find a disagreement between the code and what its documents say (the second one two), each in
the one property it checks:

| Run (cfg) | Property | What the code does |
|---|---|---|
| `AutoLoop_stop_undone` | `StopIsTerminal` | A tick that has read the loop and waits for the agent writes `running` over the operator's `stopped`, and re-arms the loop after its turn. |
| `FlowRunner_drained` | `RunsExactlyTheTaken` | A pass that finds no node ready skips all that is left, fed or not, and the run reads `success`. The counterexample shows both ways there. A condition has a `for_each` on one side, and both sides join: when the other side is taken, the loop is skipped but its collect is never settled, and the join waits for it. And a node listed before the last node of the longer side (`late` before `side`): the same pass has found `late` waiting, skips `side`, and does not look at `late` again. |

The remaining configurations are instances to run by hand. Of these, each violates the one property
it names:

| cfg | Property | What the code does |
|---|---|---|
| `RunQueue_lost_wakeup` | `NoStrandedRow` | An enqueue whose row arrives after the claim found nothing, and whose kick comes before the drain has acted on that reply, returns at the `draining` guard; the drain then ends. The row waits in an idle, open lane until something else kicks it. |
| `RunQueue_boot_window` | `HeldRowIsRunning` | `start()` opens the lane before it recovers: a row claimed in between is written off as interrupted while its handler runs. |
| `RunQueue_crossed_presses` | `SwitchIsObeyed` | `setPaused()` waits for no other: the writes of a pause and of a resume made right after it may land in the other order. The lane then runs while the stored switch says paused, and is shut by the next restart; or the reverse. |
| `FlowRunner_fed_from_outside` | `EveryWireSettled` | `settle()` looks at the wires of its region only: a node in a loop's body that is also wired from outside starts before that wire has a value, and reads nothing, although "a node becomes ready when every incoming edge has settled" (`FlowRunner.ts:226`). `validateFlow()` warns of such a wire. |
| `FlowRunner_quote_skips` | `QuotesOnlyDelay` | A node in a loop's body quotes one outside that is still running; when nothing else of the pass is left, the pass skips it. "It delays but never skips", says `FLOWS_PLAN.md:164`. |
| `FlowTimer_slow_read` | `TicksNeverOverlap` | `tick()` tests `running` before it reads the flow and sets it after: when the read takes longer than the interval, two ticks pass the test and two runs go on at once. |
| `GitLabPoll_beyond_the_page` | `ContiguousTail` | A poll lists the newest to-dos up to its page. The cursor it leaves passes an older assignment that had no room, which is then never served, although the cursor "has to leave a contiguous tail behind it" (`gitlab-poll.service.ts:314`). |
| `GpuBroker_two_loaded` | `OneLoaded` | A start that times out leaves its container running with `active` null; the next request for the other service has nothing to stop and starts that one beside it. |
| `GpuBroker_poll_loads` | `PollNeverLoads` | While a service is being swapped out it still reads active and ready: a poll that comes then is queued like a request and later has it swapped in again. |
| `GpuBroker_starved` | `OldWaiterServed` | A waiter older than `maxWaitSec` is deferred for a younger one of the loaded service and re-queued at the end: two clients that ask again at once keep it out for ever. |
| `GitLabPoll_both_ways` | `BothWaysWakeOnce` | An assignment that arrives by webhook and by poll has two delivery ids and wakes the agent twice, although the two share `seen` (`GITLAB_PLAN.md`, section 13). |
| `ForumMention_double_run` | `OneRunPerMention` | `begin()` tests `inFlight` before four awaits and adds to it after them: two presses that overlap both pass, and the question gets two sessions and two answers, which the comment at `forum-mention-runner.ts:32` says the set is there to prevent. |
| `ForumMention_other_answer` | `AnswerIsItsOwn` | Any post the agent writes on the thread while the mention runs is taken for its answer, from a chat as well: the turn's own text is dropped. |
| `ForumMention_hub_gone` | `OperatorWasTold` | Deleting the hub of a project leaves its threads charged to it: their mentions are withheld as out of budget, and no alert says so, although `forum-mention.repository.ts:68` relies on the operator having been told. |

and these hold, each on an instance that the listed runs leave out:

| cfg | Instance | Properties |
|---|---|---|
| `EndpointGate` | 5 callers, 2 boxes, limits 0, 2, 3: three calls stream while two are parked, and the limit falls under them | `SlotsConserved`, `NoIdleSlot`, `NeverOverAdmit`, `AdmittedInOrder` |
| `ForumMention_runs` | 1 mention, 2 presses of Run against each other and the lane, an edit, a fault, under fairness | `SoleRun`, `AnsweredIsNotRunAgain`, `RunReleases` |
| `ForumMention_wakes` | 2 posts that wake 3 agents, an allowance of 2, under fairness | `BudgetHolds`, `WokenInOrder`, `WakeSettles` |
| `ForumMention_windows` | a post that wakes 4 agents, an allowance of 1, two windows | `OneAlertPerWindow`, `WithheldIsTold` |

Properties marked *(Not so.)* in the modules state what a reader of the code might expect and what
does not hold: a tick never overlaps a run (`TicksNeverOverlap`: it does after a re-arm too); a flow
whose document is armed ticks (`ArmedTicks`: not when its Time node was missing at the boot and was
put back later);
leaving maintenance puts the timers back (`LeftMaintenanceResumes`); an ended run never reads as
live again (`EndedReadsEnded`: a sibling of the failed node may still ask at a gate); a to-do wakes
once even across a restart (`TodoWakesOnce`); the backlog of events and of red builds is kept
(`BacklogIsKept`, `RedBuildIsSeen`: a page is cut, and an item listed before a baseline of the other
poll is left behind).

Three more disagreements are states of the models, and the properties above allow for them. Two
overlapping deliveries of one event both pass the lane's duplicate check, a request of its own
before the insert. A turn parked in the gate of a box that goes down meanwhile is sent to it all the
same: the breaker is asked before the wait only. A loop started again while the lane is recording
its previous row has its first tick dropped as a duplicate of it, and says `waiting` until a restart.

### Bounds, and why they are enough

- **Two rows, two loops.** The lane's hazards are between one row and the next one, or between two
  drains; rows differ in their key, priority and handler only. A second loop is enough to see two
  drains at once, and is never used (that is `OneTurnAtATime`). The proofs cover any number.
- **`MaxPrio` 1** lets a promotion overtake a row; **two restarts** let a crash hit during the
  recovery from a crash; **two presses** let the writes of a pause and a resume cross.
- **Two turns at a gate of 0 or 2 slots**: both stream, or one is parked behind the other, and the
  limit falls or rises between the two calls, also through a fallback. The order of several parked
  calls needs more callers: it is proved (`GateAdmitsInOrder`), and `EndpointGate.cfg` has five.
- **`Threshold` 2, `Cooldown` 1**: one failure is not enough to park a box, and a trial may be
  handed out and refused; larger values only repeat ticks.
- **Two starts, two error slots, one restart, one refusal** for the loop: a second start meets the
  remains of the first, a streak reaches its limit in two turns, and the restart or the refusal
  falls on every step once.
- **Three clients, two services, one retry** for the broker: two of one service follow each other
  while the third waits, and a replay that fails again is the last. `Pumps` has two members so that
  two pumps could run; the admission flag never lets them.
- **Four flows** for the runner, one of each shape its scheduler distinguishes: branches, template
  references, a loop run pass after pass and two at a time, gates side by side and inside a loop, a
  body fed from outside.
  `BRANCH_CONCURRENCY` is 2, so a batch of three ready nodes is cut in two. One for_each per flow.
- **Two ticks and one arming at a time** for the timer: an overlap needs two ticks, the entry that
  changes under one of them needs one arming. Two requests of the operator meet at any await of each
  other, and one of them can take the Time node away that the other puts back. One mishap is a death, a
  refused request or a read slower than its interval. `MaxFailures` 1 makes a failing run disarm;
  counting further repeats ticks.
- **Two polls, two to-dos, a budget of one** for GitLab: the budget ends a page in the middle, the
  other poll goes on from a cursor that is then overwritten. `Page` 1 makes a page of events that is
  cut; `SeenCap` 3 lets `seen` be cleared. With two to-dos a page of 2 is never cut. With three of them
  it is, and the same four properties hold without mishaps (221,000 states, 85 s), the three of safety
  with one as well (2.3 million states, 74 s); with both the liveness check takes longer than the five minutes a run has.
  The theorems cover every page.
- **Two mentions, one press, one window aged, one edit, one fault** for the forum: a press meets the
  lane's run or the other mention's at every await, the second wake finds the project's allowance
  spent or its window aged, and the edit or the fault falls between any two steps. Both mentions are
  on one thread of the project: the hub is charged as it would be from several. The instances run by
  hand have two presses, or three and four mentions (`MCForumMention` names the bounds of each).
- `clock` of `RunQueue` grows by one per accepted call and is bounded by the number of rows.

### Fairness, and why the code justifies it

Requests are answered or refused, continuations and microtasks run, timers fire, the container is
restarted (compose's policy), and a turn ends: the agent's loop has an iteration ceiling, the first
token has a timeout in `attemptStream` and the rest of a stream the HTTP client's own (external).
`RunQueue` needs strong fairness of `Claim`: a claim that is asked for again and again is not
refused every time. `AutoLoop` needs it of `TurnEnds`: an agent may call `loop_done` repeatedly, but
not for ever. In `GpuBroker` a request being served ends, by its answer or by its client giving up
(external: the broker sets no timeout on it). Nothing is assumed of the operator, of the clients, of
the sources or of crashes. In `StreamChat` no fairness is assumed of emission, probes or the passage
of time. In `FlowRunner` handlers return, writes are answered or refused and a gate's own 24-hour
timer fires; that somebody answers the gate is not assumed. In `FlowTimer` intervals fire and runs
end. In `GitLabPoll` the Agenda job comes round (weak fairness of `PollBegins`, as part of a poll's
steps) and requests are answered. `ForumMention_pass` checks safety and assumes none; the instances run
by hand assume that a post is recorded, the lane goes on (what `RunQueue_liveness` shows of it), and
turns end.

Several properties name what they excuse, and the excuse is what the code does not promise.
`LaneKeepsMoving` and `LoopGoesOn`: the first excuses a closed lane and the
sleep that `NoStrandedRow` is about; it shows that a refused request or a throwing handler never
leaves the `draining` flag set. The second excuses a row cancelled in the lane, the dropped first
tick of a loop started again, and a refused request outside the turn's own `try` (`dropped`): in
these cases the loop does stay asleep until the next restart, which `resume()` then ends.
`RunSettles` excuses a refused write: an answered gate whose write is refused is lost with its timer,
and such a run hangs until a restart. `NothingPassedOver` and `EveryAssignmentIsServed` count a
hand-over that died with the process or was refused (`lost`) as handed over: the poller does not
wait for the lane. They also count a to-do that a listing had no room for (`unlisted`): the poller never
sees it. `PausedLaneStaysShut` excuses presses that were made while another's write was under way
(`crossed`), `OneTimedRun` a re-arm under a tick and a slow read (`replaced`, `crowded`),
`FlagMatchesTimer` a missing Time node (`nodeless`), `ReadsSettled` the wires from outside a loop into
its body. `RunsExactlyTheTaken` speaks of the nodes outside the loop's body: inside it a node may run, or
be drained, with the order in which the branches outside finish (`QuotesOnlyDelay`).
`BaselineWakesNobody` is claimed while the operator has not asked for what was left behind, and not of
two first polls that overlap.

## 4. What is proved

TLAPS checks the following for every value of the constants, under the assumptions stated in the
modules (`ConstAssumption`, `GateAssumption`, `FiniteCallers`, `ChatAssumption`, `FlowAssumption`,
`FlowTimerAssumption`, `AutoLoopAssumption`, `BrokerAssumption`, `ForumAssumption`, `GitLabPollAssumption`).

**The gate** (`StreamChatProofs`, first part): `GateTypeOK`, `SlotsConserved`, `NoIdleSlot`, `NeverOverAdmit`
and `AdmittedInOrder`. The inductive invariant is `GateInv`: the three invariants with `WhereInv` (a
call under way is at some endpoint) and `QueueInv` (the queue of an endpoint is exactly its parked
calls, each once). `QueueInv` is what makes the count right: an admission takes `k` distinct parked
calls, so it adds `k` holders to the `k` slots. The argument about `pump()` is one lemma, `PumpStep`,
used by the arrival and by the release; `StepProperties` collects what every step guarantees.

**The run lane** (`RunQueueProofs`). `LoopInv` is inductive as the code stands:

- `FlagInv`: a busy loop means `draining`, and there is one of them;
- `HandInv`: a loop has a row exactly between the reply to its claim and the outcome's write;
- `FreshInv`: a row that could still be claimed, or has just been, has never been run.

It gives `TypeOK`, `OneTurnAtATime` and `RunAtMostOnce` with no hypothesis: over any number of
callers, restarts and refused requests. The rest needs `BootInv` (until boot has ended no loop is
busy and no call is under way; and the row under a handler reads `running`), which holds only if
nothing enqueues while the lane boots. That is the hypothesis `NoEarlyRows` of `HeldRowIsRunning`,
`TerminalIsFinal`, `ShutLetsOneThrough` and the refinement `LaneIsImplemented`; the boot-window run
shows that it cannot be dropped. `RunningIsHeld`, `PauseInSync` and `PausedLaneStaysShut` also assume
`DbNeverFails`: a refused write of an outcome, a refused recovery or a refused read of the settings
breaks each of them. `ShutInv` and `SyncInv` strengthen the two properties about the switches.
`SyncInv` follows any number of presses: unless the last one `crossed` another, at most its own write is
under way and says what the flag says; a death ends them all, and the boot reads the switch again.

The refinement maps the abstract `holder` to the row some loop is busy with. `holder` is a `CHOOSE`
over loops, which `OneTurnAtATime` makes unique (`HolderIs`); `EveryStepMaps` shows, action by
action, that a step of the lane is a step of `RunLane` or leaves its variables alone.

The lane's theorems also cover the invariants no listed run checks any more, because they restate
part of the inductive invariant: `TypeOK`, `RunningIsHeld`, `PauseInSync`, `TerminalIsFinal`.

**The turns** (`StreamChatProofs`). `NoSlotOutlivesItsAttempt`: whichever way an attempt or a side call
ends, it leaves no call behind in any gate, for every set of turns, endpoints and failover chains. The
invariant is `ChatInv`: the gate's own `GateInv`, the types of the turns, and `SlotEndsWithAttempt`,
which is inductive given the other two. `TryArrives` says that trying a candidate is one arrival at one
gate. The actions are built from the gate's, so every step is one of the gate or leaves it alone
(`TurnsStepTheGate`, a lemma), and its theorems carry over (`TurnsConserveSlots`). `RoutedAround`, an action property, needs no more than who can
try: `WhoTries` says which actions send a candidate, and `RouteGoesAround` that a box known to be down
is sent one only as its trial, or when every box of the pass is down. `OneVoice` (a pass that has been heard is
not tried elsewhere) and the types follow from `ChatInv`.

**The timer** (`FlowTimerProofs`). Behind `SoleTimer` and `OneTimedRun` is `TickInv`, which holds while
no entry was created under a tick (`~replaced`): a tick with an entry in hand has the one that is
armed, if any is (`InHand`); and while no tick fired before an earlier one had decided (`~crowded`) it
is alone, and its run is marked on that entry (`Single`). The steps that could disturb it are `ArmActs`
(`ArmActsStep`), a firing (`TickFiresStep`), and the clean-up of a tick, which clears the interval of
the entry in hand and deletes the entry of the map: under the invariant these are the same. Nothing is
assumed about how long a read takes: `SoleTimer` holds whatever it takes, and when the last tick of a
crowd has gone, `Single` holds again (`CrowdEnds`).

`FlagMatchesTimer` holds while no two calls overlapped and none was refused (`~disturbed`). Behind it
is `FlagInv`: one call at a time (`OneCall`), nothing armed before boot has restored it (`BootInv`),
and `Owing`: the entry and the document differ only in the hands of the call that is going to bring
the one after the other, or the entry is missing because the Time node was (`nodeless`).
`TimerTypeCorrect` makes no such hypothesis; `failures` has no upper bound
in it, since ticks that overlap on one entry may each count past the limit.

**The loop** (`AutoLoopProofs`). `LoopInv` is `TypeOK`, `LockBalanced`, `StreakInv` and `DoneInv`:

- `StreakInv`: a tick past its read and not parking has less than `MaxErrors` failures behind it, but
  for those a crash or a refused write kept it from parking at. It also speaks of a loop that was
  stopped under its tick, since the tick's last write makes that loop active again;
- `DoneInv`: a loop is done only by its own turn, past which the tick reads it before it acts.

The lock is counted with `FS_AddElement` and `FS_RemoveElement`: `TickLock` says when a step of the
tick takes or gives a claim, `Aside` covers every step that leaves the tick, the chats and the streak
alone. `LockIsBalanced`, `FailingLoopParks`, `DoneIsFinal` and the types follow, with no hypothesis.

**The broker** (`GpuBrokerProofs`). `InflightExact`, `StoppedWhenDrained`, `NoForgottenWaiter` and
`OneLoadedButStrays`, whatever Docker refuses, whichever containers die. `BrokerInv` adds to the
types and to the runs' invariants:

- `OneAdmission`: one pump, or one idle stop, has the mutex `admitting`;
- `WaitersOnce`: a waiter is in the queue once or in the pump's hands, never both. An admission then
  adds exactly one request in service, which is what makes the count right;
- `Outgoing`: the service that a pump or an idle stop turns out is loaded, is another than the
  waiter's, and past the drain serves nobody;
- `Accounted`: what runs is loaded, being probed, or was given up.

`SpliceOnce` says what taking a waiter out of the line leaves. `Swaps`, `Rejects`, `Admits` and
`RequestMoves` each argue about one kind of step, and the actions cite them.

`ImplementsGpuLane` is the refinement, for any services, clients and pumps. `NobodyServed` is where
`InflightExact` is used: a service whose drain is over, or whose idle timer fired, has no client at
its upstream, so the abstract stop may begin. `PumpMaps`, `RequestMaps` and `IdleStopMaps` take the
actions to steps of `GpuLane`: a stop that Docker refuses is `Kept`, a waiter rejected in the middle
of a swap takes the stop with it (`Refused`), an admission is `Serves`.

**The forum** (`ForumMentionProofs`). `SoleRun`, `AnsweredIsNotRunAgain`, `BudgetHolds` and
`OneAlertPerWindow`, for any posts, threads, hubs and requests of the operator. `ForumInv` adds to the
types:

- `HandInv`: a run that is not idle has a mention in hand;
- `BegunInv`: `SoleRun` seen from the guard of `begin()` on, four awaits before `inFlight` knows. It
  is what makes the late entry harmless for the mentions outside `overlapped`;
- `SpentInv`: the runs a window has started, with the unit the lane's handler has in hand, are paid
  for, and no more than the ceiling is paid. A crash loses a unit and never gains one;
- `ToldInv`: who alerts, or has alerted in this window, holds the stamp.

A step either leaves the runs of a mention where they are (`Keeps`, `RunsAside`), ends one (`RunEnds`),
or is one of the two that bring one on its way (`ChecksRuns`, `LinksRuns`). For the allowance,
`SpendsAside` covers every step but the claim, the stamp, the alert and the start, which have a lemma
each. `WithheldIsTold` has an invariant of its own, `StampInv`: while no request was refused
and the process lived, the stamp of a window stands for an alert that was sent or that the lane's run is
about to send.

**The poller** (`GitLabPollProofs`). `OneTurnPerDelivery`, `NothingPassedOver`, `AcknowledgedStaysQuiet`
and `BaselineWakesNobody`, for any plan, budget, page, number of polls at once, deaths of the process
and refused requests. Each stands on `Typed`, which adds to the types that what a poll has in hand is
listed by its source, and on an invariant of its own:

- `DeliveryInv`: the keys under way or turned into rows are among `seen`, each once, and a webhook's
  delivery still being decided is not;
- `OwedInv`: a to-do nobody was woken for, and that no listing had to leave out, lies above the cursor and is not done; every poll has it in
  its page or above the whole page, and has not reached it. That is why a cursor written late, by the
  slower of two polls, can go back but never passes an owed to-do;
- `AckInv`: what is done, and still in the page of some poll, was seen by this process;
- `QuietInv`: before the baseline nothing was handed over and no poll is past it; after, the cursor and
  what the polls have in hand lie above it.

The cut of a listing is no assumption: the page is any number, and `unlisted` is what it left out.
`HandsNothing` and `HandsKey` say what each step hands over; `OwedBefore` that nothing becomes owed but
what is raised.

**Flows** (`FlowRunnerProofs`). `ReadsSettled`, `SuccessLeavesNothing`, `StoppedStartsNothing` and the
types, for every flow `validateFlow()` passes, any branch and loop width, any stop, restart and
refused write. `FlowInv` is `StructInv`, `ReadyInv` and `WiresSettled`, which is `ReadsSettled` for what
`settle()` looks at: the wires of the region and the references. `ReadsSettled` speaks of every wire that
`gatherInputs()` reads but those of `FedFromOutside`, and follows from it. `StructInv` is, per region,
`RegionInv`:

- `Waits`: what a list holds is pending and belongs to the scheduler of that scope;
- `Accounted`: a node is still to come, in the batch under way, or decided: none is lost, which is
  what lets *done* mean that everything is decided;
- `Unbegun` and `Outside`: a region that has not begun has touched nothing, and no scheduler touches
  the nodes of another;

and then `LoopInv` (what the phase of the for_each says of its passes: those started and not awaited
are done, past its passes all are), `GateHeld` (the broker's entry waits for its answer) and `RunInv`.
`SuccessIsQuiet` follows from it: a finished outer region has decided its loop, and a decided loop its
passes. `ReadyInv` is `WiresSettled` seen from the moment a node is found ready, perhaps a whole batch
before it runs; that it stays true is `Settles`: what is decided stays decided, through every step,
also the one in which a loop replaces what the outer scope sees of its body. `RegionMoves` says what
any step of a scheduler may do, `PassStep`, `LaunchStep`, `SkipStep` and `HaltStep` that its parts do.

`RunsExactlyTheTaken` is proved under the two conditions that `FlowRunner_drained` shows to be needed:
the document lists a node after what it waits for, unless that waits for nothing (`ListedInOrder`), and
the run has not skipped its loop (`TakenRuns`). Without them one half of it is left, and proved of every
flow: no run executes a node that is not taken (`NothingElseRuns`). The invariant is `FlowInv` with
`OrderInv`:

- `FedInv`: what the scheduler has found ready or started has all its wires decided, and is fed;
- `OwnedInv`: the nodes of a loop are pending until it closes, then its collect has its value;
- `SkipInv`: under the two conditions only what is dead is skipped, and nothing is ever drained. The
  heart of it is `InTurn`: a pass that has found nobody yet has passed nobody over, since the first of
  the nodes that are left never waits (`FirstNeedNotWait`);
- `OutShape`, the shape of the values.

What is decided stays so, with its values (`MainMoves`), so a verdict once reached stays right. At the
end the nodes executed account for themselves (`DoneAccounts`), and two sets that do and agree with the
graph are equal, because the first node of the one outside the other would be fed from within both
(`FirstDisagreement`, from `Acyclic`). `TakenAgrees` shows that `Taken` exists.

**Only model-checked**: liveness (`TurnSettles`, `LaneKeepsMoving`, `PassEnds`, `LoopGoesOn`,
`AdmissionEnds`, `RunSettles`, `SuspendedFallsSilent`, `RestartResumes`, `EveryAssignmentIsServed`),
which needs fairness and `ENABLED`; and the history `line` in the types of `GpuBroker`, which goes through `SelectSeq`, a
recursive definition of the library (the rest of those types is part of `BrokerInv`).

## 5. What is not modelled, and the plan

Left out of the modelled components: the text of messages, errors and logs; counters that only a
page shows; `attachSession` (a label on a row); token accounting and tool-call assembly in
`LlamaClient`; the routing of modes. The other components of section 1 are not modelled yet.
`PROJECT.json` lists each with its reason, and the hazards found in them while reading.

Of the modules for flows, GitLab and the forum: `FlowRunner` leaves out artifacts, logs, the coercion of
values between port types, nested flows (their depth guard) and flows with more than one `for_each`;
`FlowTimer` the stream that is stopped with a timer that keeps failing; `GitLabPoll` the default
branch's pipelines (the same shape as the merge requests'), several identities and projects, routing
and the settings that arm a source; `ForumMention` who may wake whom (`planSummons`, the pair cap),
settings and hubs that change, agents that are deleted, replies that are deleted under a run, the
measure of the repeat guard (a post-back is refused or not), and what an agent reads on the thread.
Its lane neither cancels nor promotes: `RunQueue` does.

Next, in this order:

1. **Recorder and joiner**: the snapshot and the events after it, folded by the frontend.
2. **Maintenance**: enter, restore and leave over `RunQueue`'s hold.
3. Skill breaker, streams, tool batches, the resolver's modes as pure operators.

Out of the prover's reach, and left to TLC: liveness under fairness, and what the recursive function
`LoopBody` computes for every graph.

## 6. Running it

    tlc -config RunQueue_safety.cfg MCRunQueue
    tlapm RunQueueProofs.tla

`PROJECT.json` names the module of every cfg, the mutant of every property and, under `map`, the
source lines each definition was translated from.
