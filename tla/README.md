# A TLA+ model of the WUPHF office

WUPHF runs a team of coding bots beside a person. One Go process holds an
office: a *broker* (all shared state behind one mutex, HTTP and SSE) and a
*launcher* that turns messages and task updates into runs of an external agent
CLI. These modules model four parts of it in which several goroutines, callers
and people act on the same state:

- **dispatch**: which bot runs when, how often, and what happens to turns that
  fail, wait or are interrupted (headless queue, session governor, panes);
- **tasks**: the state machine every piece of work goes through, with its two
  encodings, its gates, its dependencies and a restart;
- **entity briefs**: the shared files that bots, two archivists and people
  write through one bounded git queue;
- **computer desktops**: the lease that lets one turn at a time drive a bot's
  container.

All source paths below are relative to `src/internal/team/` unless they start
with `src/`.

## Inventory

| Component | State | Operations | Talks to | Hard about it |
|---|---|---|---|---|
| Headless dispatch queue (`headless_codex.go`, `headless_codex_queue.go`) | per lane (bot + worktree or task): queue, worker flag, active turn; one deferred lead turn | enqueue, worker loop, begin, finish, wake lead, cancel, stop | governor (gate, note), broker tasks, runners | goroutines come and go with a flag, caps park lanes, three mutexes |
| Turn recovery (`headless_codex_recovery.go`) | retry counters in the turn | retry, block the task, leave it | queue, task lifecycle | two retry ladders through one queue |
| Session governor (`governor.go`, `broker_governor.go`) | pause, reason, resume channel, checkpoint baseline, limits | gate, note turn, pause, stop, resume, resume with more, publish | queue, usage totals, SSE | wakeups, stale snapshots, event order |
| Pane dispatcher (`pane_dispatch.go`) | per bot: queue, worker flag, last send | enqueue or merge, worker loop | tmux | merging into a turn that is being sent, retries after a timeout |
| Drain (`launcher_drain.go`) | draining flag | drain | queue, panes, scheduler | waits for goroutines it must be able to reach |
| Task lifecycle (`broker_lifecycle_transition.go`, `broker_tasks_*.go`, `broker_decision_packet.go`) | typed state and legacy tuple, dependencies, objection, pending note | verbs, decisions, block, resume, cascade, restart | queue, self-healing, requests | two encodings, gates before the lock, cascades after it |
| Task verification (`task_verification.go`) | checks of a task | the gate of complete and approve | task lifecycle | runs commands outside the lock |
| Requests and interviews (`broker_requests_interviews.go`) | pending questions, answers | ask, answer, dismiss, deduplicate | tasks, notifier | blocking state, duplicates |
| Scheduler (`scheduler*.go`) | jobs, due times, runs | tick, run, lease, stop | queue, broker | missed and double runs |
| Wiki worker (`wiki_worker.go`) | bounded queue, git repository | enqueue with reply, drain | all knowledge writers | reply timeout after which the write still lands |
| Fact log (`entity_facts.go`, `entity_commit.go`) | one JSONL file per entity, a mutex | append, list | wiki worker, synthesizer | every append rewrites the whole file, and waits for it under the mutex; reads take no lock of the repository, and an unreadable file counts as empty |
| Entity synthesizer, article generator (`entity_synthesizer.go`, `entity_article.go`) | inflight, queued, bounded job queue; the brief | enqueue with coalescing, run, follow-up, regenerate | wiki worker, fact log | coalesced request lost when the queue is full, stale reads of a shared file |
| Obsidian watcher, web editor (`wiki_obsidian_watcher.go`, `wiki_git.go`) | debounce timers, expected SHA | commit an outside edit, save | the same files | edits behind the repository's back |
| Playbook synthesizer (`playbook_synthesizer.go`) | as the entity synthesizer | as above, marks before it sends | wiki worker | the gap between mark and send |
| Extraction and dead letters (`wiki_extractor.go`, `wiki_dlq.go`) | queue file, retry counters | enqueue, replay, promote | wiki worker | replay with backoff |
| Self-healing (`self_healing.go`) | repair tasks | request, coalesce | tasks | repair of a repair |
| Persistence and resume (`broker_persistence.go`, `resume.go`) | JSON snapshot | save, load, resume | everything | crash between save and effect |
| Computer desktop (`src/internal/computer/lease.go`, `broker_computer*.go`) | lease, poller, idle timer, container | mount, capture, release, suspend, wake, remove | turns, web UI | several turns share what is kept per bot |

The remaining parts (transports, provider runners, user interfaces, onboarding,
storage back ends, packaging) are listed in `PROJECT.json` with the reason they
stay outside.

## Modules

| Module | Role |
|---|---|
| `HeadlessQueue` | queue, recovery and drain |
| `HeadlessQueueProofs`, `HeadlessTurnProofs` | its inductive invariant; what steps do with turns, slots, retries and copies |
| `Governor` | governor with its workers and HTTP callers |
| `DispatchGate` | what the governor promises the queue (abstract) |
| `GovernorProofs` | invariant, action property and refinement |
| `PaneDispatch`, `PaneDispatchProofs` | pane dispatcher of one bot |
| `TaskLifecycle`, `TaskLifecycleProofs` | tasks: verbs, gates, decisions, cascades, notes, restart |
| `EntityBriefs`, `EntityBriefsProofs` | fact log, wiki worker, synthesizer, article generator, watcher and editor, composed over one file per entity |
| `ComputerDesktop`, `ComputerDesktopProofs` | turns, lease, poller, idle timer and routes of one bot's desktop |
| `MC...` | instances for TLC |

`DispatchGate` joins the first two: `HeadlessQueue` uses the governor only
through `paused` and `PassGate`, `Governor` is shown to implement that gate, and
`HeadlessQueue` to keep to it: every goroutine that gets to a turn went through.

### HeadlessQueue

A *lane* is a pair of a bot and the thing its turns serialize on: nothing (the
default lane), a worktree path or a task (`laneForTurn`). `queues`, `workers`,
`active` and `deferredLead` are the fields of `headlessWorkerPool`. Goroutines
are explicit in `gor`, because `workers[l]` is only what the code *believes*; a
goroutine's program counter names the critical section it is about to enter:

| pc | Code |
|---|---|
| `top` | stop check and governor gate |
| `begin` | `beginHeadlessCodexTurn` |
| `running` | the runner; then the switch of `runHeadlessCodexQueue`, with recovery |
| `finish` | `finishHeadlessTurn` under the lock |
| `wake` | `finishHeadlessTurn` after the unlock |
| `recheck` | `governorNoteTurn` and the re-read of the worker flag |

`Enqueue` has one disjunct per way `enqueueHeadlessCodexTurnRecord` returns:
dropped, replaced, held, at the lead's cap, appended. It is used by `Notify`, by
retries in `EndTurn` and by `WakeLead`, so a worker enqueues from inside its own
turn just as in the code. A turn is its notification's number, task, origin and
two retry counters. Elapsed time is a choice (`stale`, the outcome `timeout`).
The runner is external: `Outcomes` are what its caller distinguishes. Task state
is what the queue reads: open, handed off (review or blocked), done. Sending the
cancellation and starting a goroutine happen right after the unlock in the code
and are folded into the step; each turn's cancel function reaches only that turn,
so the delay is not observable by the properties. The first half of `WakeLead`
picks any task, because the code recomputes it from prompt and channel.

### Governor and DispatchGate

Processes are dispatch workers and HTTP requests. `resumeCh` is a generation
number. `governorNoteTurn` and `GovernorResume` read the usage totals under
`b.mu` (`Snapshot`) before they take `g.mu` (`NoteTurn`, `Resume`), and
`publishGovernorEvent` reads the status before it delivers it: each is two steps.
`Place` maps a worker to waiting, inside or gone; `paused` is `shut`.

### PaneDispatch

Bots share nothing but the mutex, so one bot is modelled. A turn's text is the
sequence of notifications merged into it, and `sent` what reached the pane. Time
is one fact: whether the last successful send is within the coalesce window. A
failed tmux command may still have submitted its text.

### TaskLifecycle

A task carries its state twice: `life` is the typed `LifecycleState`, and
`stage`, `review`, `status`, `blocked` are the older tuple. `Row` is the table
`lifecycleDerivedFields`, `Enter` is `applyLifecycleStateLocked`, and `Derived`
the way back. Most verbs write the tuple, and then `Reconcile`, `Reindex` and
`NormalizePlan` run in that order (`Finish`), as at the end of `MutateTask`; a
new stage therefore comes from a pipeline template, not from the table, and the
next derivation sees that. `Apply` has one case per verb.

One critical section is one step. The code lets go of the broker's mutex in
three places, and so does the model: `Gate` (the definition-of-done check) comes
before `LandRefused`, `LandTurnedAway`, `LandStart` or `LandDone`; a decision
comes before its cascade (`OnDecisionRecorded`); `BuildPacket` copies the pending
note before `ConsumeTaskHumanNote` clears it. `disk` is the state file: steps
that do not save leave it, and `Restart` loads it and repairs what
`normalizeLoadedStateLocked` and `migrateLifecycleStatesLocked` repair.
`wait`, `stop` and `lost` are history that only properties read.

A task is created with the dependencies `DependsOn` gives it. A plan that finds an
open task of the same title (`PlanAgain`) replaces them by the ones the request
names, perhaps none, and sets the status by the new ones; `Replans` gives, for each
task, the sets such a request may name.

Left out: artifact and Definition gates, sub-issues and channels, the memory
workflow, worktree preparation, the texts. `Human` stands for any creator of
own work, `Bot` for every owner, `Reviewer` for a member of a task's reviewers.

### EntityBriefs

Of a brief the model keeps what code reads back: whether it has frontmatter, the
stamped fact count, whether a person's edit is newer than the last synthesis, the
form of the body, and which user text stands in it. `ver` numbers writes of the
file and `head` is the write the last commit holds, so a file that differs from
HEAD and a stale SHA are both expressible. `FactLog.mu` is `logLock`: a recorder
keeps it from `AppendFact` until its reply or until it gives up, and a caller
that gives up leaves its write in `requests`. `EnqueueSynthesis`, `Receive`,
`BeginRun`, `FinishRun` and `FollowUp` are the critical sections of the
synthesizer; between `SynthReadBrief`, `SynthListFacts` and `SynthWrite` anybody
may write. The watcher commits past the queue, under the repository's mutex.
`gitFails` is a write that reaches the file and not HEAD.

The fact log's file operations are neither atomic nor infallible. A write of a log
is two steps, `StartFactWrite` (`os.WriteFile` truncates) and `ProcessFact`, with
`filling` between them; who reads meanwhile, without the repository's mutex, finds
some beginning of what is being written (`Seen`). A read that fails is an empty file
to `readExistingLocked` (`ReadExisting`), too few facts or none to the handler, which
ignores the error, and a failed run or too few facts to the synthesizer and the
generator (`readFails`); a write that the disk refuses at the start or half-way
(`diskFails`) leaves the file as it was or with a part of the new lines. `cut` is
history: the entities whose log an append has read short or a write has left short.

Left out: stopping the synthesizer, demand mode, the entity graph, folding of
adjacent writes, second-resolution timestamps (`newer` is exact), normalisation
of links and embeds, order and times inside the log, and failing or partial reads and
writes of the brief itself (only its git commands fail). A path has one watcher fire
at a time.

### ComputerDesktop

`lease` holds the turn and the ticks it has left; `Current` drops it when it has
expired or the bot is not busy, as `currentLocked` does, and every operation that
looks at a lease goes through it. A turn's `pc` follows `mountForTurn` and
`releaseTurn`; `poller`, `busy` and `timer` are per bot, so turns of two lanes
meet in them. A stop (`remove` or the timer's expiry, `idle`) looks at the lease,
acts on the container and settles the timer in three steps. A tick stands for 45
seconds and is longer than a capture and the pause after it, so an undisturbed
poller renews the lease in every tick.

Left out: desktops on a Mac or in the cloud, several bots (they share nothing
but the container daemon), the content of the screen. Starting the container and
the touch of the timer after it are one step. The `stop` route behaves like an
idle suspend that finds the bot idle; `Routes` may name it.

## Runs

| Run | Instance | Shows |
|---|---|---|
| `dispatch` | 2 bots, 1 office task, 3 goroutines, both caps 1, 2 notifications, panics, pause, stop, drain, shutdown | served lanes have goroutines, slots are released after panics, parked work is never forgotten, the registered slots of bot turns stay within both caps, no notification in two places, no queued turn of a bot discarded, no turn but through the gate; queues drain once unpaused, shutdown ends every goroutine |
| `recovery` | 1 worktree task whose tree comes and goes, 2 goroutines, no cap, all failures | no lane parks without a cap; a specialist's failed turn leaves its open task handed off, queued again or with another registered turn |
| `governor` | 2 workers, 1 caller, 1 gauge | no lost wakeup, bounded overrun, earned budget pauses, refinement of the gate with liveness |
| `pane_dispatch` | 3 goroutine identities, merges, failures, retries | one typist, served, spaced, in order with bounded repetition, settles |
| `task_verbs` | 1 task, every verb, decision, actor and restart, with and without checks and structured review | the two encodings agree on whether a task is over; nobody but the human retires a human's objection |
| `task_deps` | 2 tasks, the second depends on the first; create, a second plan that keeps or drops the dependency, reject, cancel, decide, block, resume, crash | no dependent waits for an upstream that is over; a release leaves no open upstream among the dependencies the task then has |
| `entity_briefs` | 2 facts about one entity, a second entity that can fill the job channel, one disturbance (edit, regeneration, failing read, disk, git or LLM, retry, request), two callers that give up, reads during a write | marks match the channel, accepted requests are kept and served, confirmed facts stay in a log that was not cut short, stamps never run ahead of such a log, no brief rests a threshold behind |
| `computer_desktop` | 2 turns, remove and wake routes, idle timer, one failing command | leases are not leaked, not taken from a live owner; a turn is never kept from its work |

Four runs reproduce disagreements between the code and what the repository says
of it (`findings` in `PROJECT.json`):

| Run | Statement of the source | What happens |
|---|---|---|
| `lane_race` | a shared worktree "collapses to one serialized lane" | a leaving worker mistakes its successor's flag for its own and both run turns of the lane |
| `user_text` | user edits to the brief body are never stomped | a synthesis keeps an edit and restamps the brief, so the next one no longer sees an edit and replaces the body |
| `stop_orders` | a bot's submit and complete are blocked until a packet has consumed the note | a stop order posted while a packet is built is cleared unread |
| `unchecked_done` | a parked task is let through the check because a later gate refuses it | that gate refuses drafting and planning; a ready or queued task is completed unchecked |

Other disagreements met while modelling, and not kept as runs:

- queue: a bot notification for the same task replaces a queued human turn, and so
  does the retry of an older bot turn that failed with the human one queued behind it
  (`headless_codex_queue.go:183`, `:317`), and at the lead's cap a later human or
  urgent message takes the last queued turn's place, a person's included, although a
  person's message "must always be absorbed, never silently coalesced" (`:161`) and
  "must not stomp on a previously-queued one" (`:180`);
- queue: after the lane race a turn runs without a slot, because the second goroutine's
  registration overwrites the first one's and its finish frees the lane (`:614`,
  `:863`), so more turns run than the caps allow, which are to "bound how many dispatch
  lanes may run a turn at once" (`headless_codex.go:233`); a held lead turn is handed
  over as a new notification, with both retry counters at zero (`:709`), so the two
  retry limits bound one stay in the queue and not one notification; the lead's own
  retry can be dropped at the lead's cap (`:251`);
- queue: a drain does not reach workers parked
  at the gate (`launcher_drain.go:47`); a held lead turn stays held when the lead
  has queued work at the last finish (`headless_codex_queue.go:650`);
- governor and panes: two requests can deliver their events in the wrong order
  (`broker_governor.go:202`); text merged into a turn while it is being sent is
  dropped with it (`pane_dispatch.go:350`);
- briefs: facts are new by count over a list sorted by a time that is taken
  before the log's mutex, so a prompt can hold a fact twice and miss another
  (`entity_synthesizer.go:384`); the last follow-up of an accepted request loses it
  when it finds the job channel full (`entity_synthesizer.go:357`);
- fact log: the append's comment says that it reads "the existing file under the same
  lock that commits the result" (`entity_facts.go:168`), but that lock is the log's
  and the write takes the repository's. When a caller gives up while its write is
  under way and posts again, it can read the file half written, and its next
  whole-file write erases facts that were confirmed to others; so does an append whose
  read failed, which takes the file for empty (`entity_facts.go:206`), and a write that
  the disk cuts short. Without the exemption of `cut`, TLC finds the first of these in
  `ConfirmedFactsStay`. Moreover, when two callers give up and the first retries
  after its abandoned write has landed, it is told its fact is recorded, and the
  second one's older whole-file write then erases it (`entity_facts.go:168`);
- desktop: two turns can drive one desktop, because `waitReady` may take longer
  than the lease lives and a held wheel stops its renewal (`lease.go:86`);
  the idle timer is not armed again after a suspend that a live lease refused
  (`lease.go:113`), and a stop's cancel can land after a wake's touch; a
  successor's poller is stopped by its predecessor's release, and two overlapping
  starts leave a poller nobody can stop (`broker_computer_turn.go`);
- tasks: an approving decision, and the verb `resume`, start a queued task before
  its upstream is over; a refused complete or approve has already cleared the
  objection; a comment re-derives the state and can move the task; an owner
  escapes planning by `reopen` or by block and resume; a crash between a decision
  and its cascade leaves dependents waiting, because the repair at start looks
  only at status "blocked"; removing a member makes waiting tasks ready; a second
  plan of a rejected task revives its status and not its typed state; a cancelled
  task's typed state is approved; a second plan that leaves out a dependency starts the
  waiting task while that upstream still runs (`broker_tasks_plan.go:141`, `:333`).

The properties name these exceptions in their statements, so what they claim holds
of the code as it is. `UpstreamFirst` speaks of the dependencies a task has after the
step and exempts an override on the task itself, `NoOrphans` a crash between decision
and cascade. `SlotsWithinCaps` counts registered slots, as the code does.
`QueuedTurnsLast` is about bots' turns. `RequestsAreKept` and `RequestsAreServed` owe a
request until a run begins or its last follow-up finds the channel full, and nothing
else discharges it. `BriefsRest` has more excuses (`excused`): a full channel, a failed
run or reading, a write of a fact whose caller was told it failed, an older brief put
back. `ConfirmedFactsStay` is about facts confirmed by the reply to their own write, and
with `CountWithinLog` exempts the logs in `cut`: they show that short reads and
half-way failures are all that can lose a fact or put a stamp ahead of the log.

### Bounds

Two goroutines on one lane and a third elsewhere are enough for every hand-over
of a flag (leaving, arriving, re-spawned); a notification running or queued and
one arriving meet in every `Enqueue` case, and retries and the deferred lead turn
add turns of their own. A cap of one makes every second lane park. `MaxTurns`,
`MaxCalls`, `MaxUsage`, `MaxNotes`, `MaxInputs`, `MaxGiveUps` and `MaxFailures`
bound the inputs only: no guard inside a component depends on them, except that
`WakeLead`'s message from a specialist counts as a notification. `Workers` bounds
goroutines alive at once; a step that would need one more is not taken, which the
proofs do not rely on: they hold for every `Workers`.

`task_verbs` has no counter: the states of one task are finite and all of them
are explored. In `task_deps` one dependency is enough for a wait, a release, an
override and a crash in between; longer chains release one task at a time in the
code, too; the second plan names the first task or nothing. Only one call is between
its two critical sections at a time, so two decisions that overlap there are not
explored. `entity_briefs` uses a job channel of one and a request queue of two,
so both fill up; the threshold of one makes every fact a trigger. In
`computer_desktop` lease and wait of one tick let each expire before the other.

Workers are interchangeable, so the safety runs use symmetry; the runs with
liveness do not. Deadlock checking is off because an idle office stops
legitimately; what must go on is stated by the liveness properties.

### Fairness

Weak fairness of each worker goroutine: the Go scheduler runs it, every turn
context carries a timeout that kills the subprocess, every tmux command has a
timeout. For panes also the passing of the coalesce window, for the governor the
requests in progress and the SSE loop. For briefs the wiki worker's loop, the
synthesizer's loop (its LLM call has a timeout) and the follow-up goroutines. For
the desktop the goroutine that mounts: every container command and `waitReady`
have a deadline. Nobody is obliged to resume a paused session, to send a request,
to shut down, to post, to edit or to give up, and no container is obliged to
boot. The drain properties therefore assume `<>[]~paused` where they need it.

## Proofs

Every theorem holds for every value of the constants under the named assumptions
of the modules (`ConstantsAssumption`, `GovernorAssumption`, `PaneAssumption`;
`EntityOfType`, `NamesDiffer`, `BoundsAreNat` of the briefs; `NoTurnIsNone`,
`TicksType`, `MaxFailuresType` of the desktop; `DependenciesAreTasks`,
`ReplansAreTasks`, `StructuredType`, `ChecksType` of the tasks). They say that the
constants have their types, that placeholders such as `NoOne` or `NoTurn` are not
names, and that no task is created with itself as a dependency; nothing bounds the number of tasks, lanes, workers,
callers or facts. `PROJECT.json` lists the theorems; every safety property a
passing run checks is stated by one.

*Queue* (`HeadlessQueueProofs`). `NoStrandedWork` says that while some lane is
parked, a turn is registered or a served lane has a turn to begin. It is not
inductive. A finish re-spawns parked lanes only if a cap is set, so without caps
one needs that no lane is parked at all (`UncappedNeverParks`). With a cap, the
last finish leaves no active turn, `FitsCaps` holds for zero turns and
`Admissible` must have re-spawned somebody; conversely a lane is parked in
`BeginNothing` only if the caps are full, hence a turn is registered
(`FullHasActive`). `FlagHasWorker` and `ActiveOwned` tie flags and slots to
goroutines that exist: slots need it because two goroutines can share a lane
(`lane_race`). `QueueInv` is the conjunction with `TypeOK`; its parts are theorems
of their own.

*Turns* (`HeadlessTurnProofs`). `TurnFlow` says once what a step does with turns:
a notification is enqueued, one turn moves from the head of a queue to a
goroutine, a turn ends and is dropped or comes back with one retry counter raised
below its limit, a slot is freed, the held lead turn is handed over, or nothing
moves. Over these flows: `SlotsAreBounded` for both caps, whose invariant is the caps
themselves and that the set of slots is finite, because a slot is taken only in
`BeginTurn` under the same lock that counted; `NotificationsAreSingle`,
from "each number is in at most one place and numbers not yet given out are
nowhere". `FailedTurnsAreFollowedUp` is an action property: a retry carries a counter
above that of the turn it repeats, so the same-task drop does not take it for a
duplicate, and replace and append both leave a turn of the task in a queue of the bot,
whatever lane the worktree's state sends it to. `QueuedWorkIsKept` is another: each
enqueue leaves a bot's queued
turn where it is or puts one in its place that supersedes it (`EnqueueStays`), only
`BeginTurn` shortens a queue and then runs its head, and the other flows do not
touch queues. `QueueUsesGate` maps a goroutine to inside the gate from `PassGate` to
`Recheck`: goroutines are created outside it only, and no other step crosses it.
Together with `GovernorImplementsGate` this joins the two components through
`DispatchGate`: the governor provides what the queue relies on. The queue's half has
no fairness, since an idle lane waits outside an open gate for ever.

*Governor.* `GovInv` adds to `TypeOK` and `NoLostWakeup` that every snapshot and
the baseline are at most the usage recorded, and counts workers past the gate: a
worker enters only while unpaused, when `turns` is below the checkpoint. From it
follow `OverrunIsBounded`, the action property `BudgetPausesAreEarned`, and
`GovernorImplementsGate` (initial states and every step of every action).

*Panes.* `OneWorkerServes` and `SendsAreSpaced`: the flag is handed over in the
critical section that saw the empty queue, and only a goroutine between `Wake` and
its return to the top can open the window, which is the single one alive.
`SendsAreOrdered` needs more (`OrderInv`): no number is used before it is handed
out (`Numbered`); the text being typed is a beginning of the pending text, since
merging only adds later notifications (`Typed`); what is pending is in order after
what was sent (`Ordered`); and the attempts of the pending turn, which merging does
not reset, count the sends of everything in it (`Counted`).

*Tasks* (`TaskLifecycleProofs`). The invariant `TaskInv` speaks of one record at a
time (`Fit`), for memory and for the state file. `TerminalAgrees` alone is not
inductive: the fallback of `deriveLifecycleStateFromLegacy` looks at `blocked`
before the status, so one needs that a task that is over is never blocked.
`HumanNoStands` needs that an objected task is not done. For dependents, a task
that waits is blocked, not in its own right, and has no ad-hoc blockers; and whoever waits in memory waits in the file,
since only saved steps start a wait. The lemmas of the first part say what each
operator does to a record: normalising and reconciling touch only stage and review
state, re-deriving makes the encodings agree, and so on for all verbs
(`ApplyEdits`). `StepFlows` then reduces every step to five kinds: one record is
rewritten, one is rewritten and its dependents released, nothing changes, an owner
is removed, the broker restarts. `EncodingsAgree`, `ObjectionsStand` and
`DependentsStartAfter` are cases over these. `DependentsAreServed` has an invariant
of its own (`OrphanInv`): `NoOrphans` must hold of the file as well, because a
restart brings its tasks back, and a cascade that was under way is then lost.

*Briefs* (`EntityBriefsProofs`). `Base` is the types, and that the synthesizer has
at most one request of its own in the queue, for the entity it works on. `Marks`
relates marks, job channel and the synthesizer's place: `EnqueueSynthesis` marks
and sends under one lock, and the step that takes a job off the channel before it is marked in flight is the only
gap. `FactsAreKept` rests on `FactInv`: every write of the log in the queue
carries every confirmed fact (`Carried`). That survives a confirmation because the
recorder holds the log's mutex until its reply, so no other write of the log is
queued behind its own (`LogReply`), and because the log already is what the write
under way puts there (`Fills`). All of it is for entities outside `cut`, which only
grows. `StampsAreBounded` rests on `CountInv`: a queued write of a log that was not cut
is as long as the log or one longer (`LogGrows`), so only cuts shorten a log
(`OnlyCutsShrinkLogs`), and every stamp a writer carries stays behind it
(`ReadersBehind`), also one computed from a part of the log. `RequestsStayKept` is
inductive beside `Base`: only the start of a run clears a mark without a follow-up, what
a finished run leaves marked becomes one, and only a refused last follow-up gives the
request up.
`BriefsAreCurrent` rests on `RestInv`: an entity that nothing excuses is `Covered`,
that is, its brief is less than a threshold behind its log, or a handler has still
to compare with a stamp no younger than the brief's, or a mark or follow-up stands
for it, or a run is under way that has not yet listed the facts or has listed
enough of them, or its log is being written. Each step hands the cover on: the write
that covers a short read to the handler of its fact, the
handler to the mark, the mark to the run, and the run to the stamp it writes, which
is the number of facts it listed (`StampMatches`). That the stamps are compared as
numbers is what makes the stale reads harmless: a stamp that has grown since leaves
fewer facts new, and a writer that puts back a smaller one is an excuse.

*Desktop.* `NoLeakedLease` is inductive beside `TypeOK`: only `Claim` writes a new
name into the lease, and it moves the claimant inside; every other operation on
the lease returns the same name or none (`LeaseOperations`, `SettledLeases`), and
every way out of the mounted places passes `Released`. `LeasesAreFenced` needs
the types only: with time left and a busy bot `Current` is the lease itself, so
`MayClaim` admits nobody but its owner.

Only model-checked: all liveness (`QueuesDrain`, `StopDrains`, `QueueSettles`,
`RequestsAreServed`, `TurnsGoOn` and the fairness half of `ImplementsGate`), which
needs ENABLED.

The proofs corrected the model twice. In `TaskLifecycle` several cases overlapped
in a `CASE`, whose meaning is then any of them (TLC takes the first): they are now
nested as in the code. And a repeated plan counted a task with ad-hoc blockers as
waiting for its dependencies only.

## Not modelled

The wording of prompts, logs and progress reports; usage persistence; what counts
as durable evidence of a finished turn; process handling of runners and tmux;
several SSE subscribers (they are independent); for each module the items its
section lists as left out. The map covers a small share of the repository's lines:
most of the rest is user interfaces, assets, provider and transport adapters,
storage formats, prompt texts and benchmarks, whose behaviour is sequential
input and output. `PROJECT.json` gives the reason for each part. Parts with state
worth modelling that are still missing are in the plan.

## Plan

1. `Requests`: questions, answers, dismissal and deduplication, composed with the
   tasks they block and with plan approval.
2. `Scheduler`: due times, leases and runs; missed and doubled runs after a
   restart.
3. Dead letters of the extractor (replay with backoff, promotion), and the
   playbook synthesizer with its gap between mark and send.
4. Self-healing: repair tasks and their coalescing, on top of `TaskLifecycle`,
   which would also replace `TaskUpdate` as the environment of the queue.
5. Proofs: the safety of the modules above.
