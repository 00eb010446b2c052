--------------------------- MODULE HeadlessQueue ---------------------------
(***************************************************************************)
(* The per-bot headless dispatch queue: internal/team/                     *)
(* headless_codex_queue.go (enqueue, worker loop, begin/finish),           *)
(* headless_codex.go (lanes, concurrency caps), headless_codex_recovery.go *)
(* (retry or block after a failed turn) and launcher_drain.go.             *)
(*                                                                         *)
(* Every action is one critical section of l.headless.mu, or one step of a *)
(* worker goroutine between two of them.  Goroutines are explicit: the     *)
(* map workers only says that the code believes a lane has one.            *)
(*                                                                         *)
(* Abstractions.  A prompt is the number of the notification it came from. *)
(* Time is a choice: an active turn may or may not be stale, a turn may    *)
(* time out whenever it runs.  The runner (claude, codex, ...) is external *)
(* and is modelled by the outcomes its caller tells apart.  Task state is  *)
(* what the queue reads of it: open, handed off (review or blocked), done. *)
(***************************************************************************)
EXTENDS Integers, Sequences, FiniteSets

CONSTANTS
  Bots,        \* office members that have a runner (session members have none)
  Lead,        \* targeter().LeadSlug()
  Builders,    \* bots for which isAppBuilderSlug holds
  Coders,      \* codingBotSlugs: their turns need durable evidence
  Tasks,       \* task ids
  NoTask,      \* TaskID = "", and the key of a bot's default lane
  Isolated,    \* tasks whose ExecutionMode is local_worktree
  External,    \* tasks that require real external execution
  Trees,       \* worktree paths
  TreeOf,      \* the path each isolated task is given when it is prepared
  Workers,     \* goroutine identities: bounds the goroutines alive at once
  NoWorker,    \* no active turn in a lane
  GlobalCap,   \* maxConcurrent, 0 = unlimited
  PerBotCap,   \* maxConcurrentPerBot, 0 = unlimited
  Inputs,      \* the notifications offered: <<bot, task or NoTask, from a human>>
  MaxTurns,    \* bound: notifications offered to the queue
  Outcomes,    \* what the runner may do: a subset of AllOutcomes
  Controls     \* environment operations enabled: a subset of AllControls

AllOutcomes == {"ok", "undurable", "timeout", "canceled", "transient", "failed", "panic"}
AllControls == {"pause", "stopTurns", "drain", "shutdown", "prepare", "status"}

ASSUME ConstantsAssumption ==
  /\ Lead \in Bots
  /\ Builders \subseteq Bots /\ Coders \subseteq Bots
  /\ NoTask \notin Tasks
  /\ Isolated \subseteq Tasks /\ External \subseteq Tasks
  /\ TreeOf \in [Isolated -> Trees]
  /\ NoWorker \notin Workers
  /\ Inputs \subseteq Bots \X (Tasks \cup {NoTask}) \X BOOLEAN
  /\ GlobalCap \in Nat /\ PerBotCap \in Nat /\ MaxTurns \in Nat
  /\ Outcomes \subseteq AllOutcomes
  /\ Controls \subseteq AllControls

VARIABLES
  queues,        \* lane -> pending turns
  workers,       \* lane -> the code believes a worker serves the lane
  active,        \* lane -> the goroutine whose turn is registered, or NoWorker
  deferredLead,  \* the one lead notification held back, or NoTurn
  gor,           \* goroutine -> its program counter and local variables
  status,        \* task -> broker task state, as far as the queue reads it
  prepared,      \* isolated tasks whose WorktreePath is set
  paused,        \* the governor's pause flag
  ctxDone,       \* l.headless.ctx is cancelled (Drain, stopHeadlessWorkers)
  stopped,       \* l.headless.stopCh is closed (stopHeadlessWorkers)
  nextId         \* number of the next notification

vars == <<queues, workers, active, deferredLead, gor, status, prepared,
          paused, ctxDone, stopped, nextId>>
taskVars == <<status, prepared>>
controlVars == <<paused, ctxDone, stopped>>

-----------------------------------------------------------------------------
(* Turns, lanes and goroutines *)

\* headlessCodexTurn; id stands for the prompt.
Turn == [id : Nat, task : Tasks \cup {NoTask}, human : BOOLEAN,
         attempts : Nat, retries : Nat]
NoTurn == [id |-> 0, task |-> NoTask, human |-> FALSE, attempts |-> 0, retries |-> 0]
NewTurn(i, k, h) == [NoTurn EXCEPT !.id = i, !.task = k, !.human = h]

\* headlessLane: a bot and the resource its turns serialize on.
Lanes == Bots \X ({NoTask} \cup Trees \cup Tasks)
Slug(l) == l[1]

\* laneForTurn: chat and unprepared worktree turns share the default lane.
LaneFor(b, k) ==
  << b, IF k \in prepared THEN TreeOf[k]
        ELSE IF k \in Isolated THEN NoTask ELSE k >>

PCs == {"none", "top", "begin", "running", "finish", "wake", "recheck"}
Goroutine == [pc : PCs, lane : Lanes, turn : Turn,
              cancelled : BOOLEAN,   \* the turn context is cancelled
              count : BOOLEAN]       \* countTurn
Idle == [pc |-> "none", lane |-> <<Lead, NoTask>>, turn |-> NoTurn,
         cancelled |-> FALSE, count |-> FALSE]
Fresh(l) == [Idle EXCEPT !.pc = "top", !.lane = l]

ActiveLanes == {l \in Lanes : active[l] # NoWorker}
LanesOf(b, S) == {l \in S : Slug(l) = b}

\* Mutants of FitsCaps: one turn too many, and 0 read as "none".
FitsCapsOffByOne(n, m) ==
  /\ GlobalCap > 0 => n <= GlobalCap
  /\ PerBotCap > 0 => m <= PerBotCap
FitsCapsZeroIsNone(n, m) == n < GlobalCap /\ m < PerBotCap

\* One more turn fits beside n turns of the office, m of them of its bot.
FitsCaps(n, m) ==
  /\ GlobalCap > 0 => n < GlobalCap
  /\ PerBotCap > 0 => m < PerBotCap

\* headlessLaneMayStartLocked counts the registered turns.
MayStart(l) ==
  FitsCaps(Cardinality(ActiveLanes), Cardinality(LanesOf(Slug(l), ActiveLanes)))

\* headlessLeadTurnNeedsImmediateWakeLocked
Urgent(b, t) == b = Lead /\ t.task # NoTask /\ status[t.task] = "handoff"

\* The scan of every non-lead lane for queued or running work.
SpecialistsBusy(q, a) ==
  \E l \in Lanes : Slug(l) # Lead /\ (q[l] # << >> \/ a[l] # NoWorker)

Init ==
  /\ queues = [l \in Lanes |-> << >>]
  /\ workers = [l \in Lanes |-> FALSE]
  /\ active = [l \in Lanes |-> NoWorker]
  /\ deferredLead = NoTurn
  /\ gor = [w \in Workers |-> Idle]
  /\ status = [k \in Tasks |-> "open"]
  /\ prepared = {}
  /\ paused = FALSE
  /\ ctxDone = FALSE
  /\ stopped = FALSE
  /\ nextId = 1

-----------------------------------------------------------------------------
(* enqueueHeadlessCodexTurnRecord.  g is the goroutines' state after the   *)
(* caller's own step: the caller may be a worker.                          *)

\* Claim the lane and start a goroutine for it unless one is believed to run.
StartWorker(g, l) ==
  IF workers[l]
  THEN gor' = g /\ UNCHANGED workers
  ELSE /\ workers' = [workers EXCEPT ![l] = TRUE]
       /\ \E w \in Workers : g[w].pc = "none" /\ gor' = [g EXCEPT ![w] = Fresh(l)]

CancelActive(g, l) ==
  IF active[l] = NoWorker THEN g ELSE [g EXCEPT ![active[l]].cancelled = TRUE]

\* Mutant of AlreadyHandling: a retry is taken for a duplicate of its own turn.
AlreadyHandlingRetry(g, b, t) ==
  LET l == LaneFor(b, t.task) IN
  /\ t.task # NoTask /\ active[l] # NoWorker
  /\ ~t.human /\ ~Urgent(b, t)
  /\ g[active[l]].turn.task = t.task

\* The bot is already running this task and the new turn is no retry of it.
AlreadyHandling(g, b, t) ==
  LET l == LaneFor(b, t.task) IN
  /\ t.task # NoTask /\ active[l] # NoWorker
  /\ ~t.human /\ ~Urgent(b, t)
  /\ LET cur == g[active[l]].turn
     IN cur.task = t.task /\ t.attempts <= cur.attempts /\ t.retries <= cur.retries

SameTask(q, t) == {i \in DOMAIN q : q[i].task = t.task}

\* replaceDuplicateTaskTurnLocked.  Its second half looks for the task in
\* deferredLead, which only ever holds a turn without one.
Replaceable(q, t) == ~t.human /\ t.task # NoTask /\ SameTask(q, t) # {}
ReplaceFirst(q, t) ==
  LET i == CHOOSE i \in SameTask(q, t) : \A j \in SameTask(q, t) : i <= j
  IN [q EXCEPT ![i] = t]

\* A taskless lead notification waits until the specialists are done.
HeldForSpecialists(b, t) ==
  b = Lead /\ ~t.human /\ t.task = NoTask /\ SpecialistsBusy(queues, active)

leadMaxPending == 1

EnqueueDrop(g, b, t) ==
  /\ AlreadyHandling(g, b, t)
  /\ gor' = g
  /\ UNCHANGED <<queues, workers, deferredLead>>

\* Mutant of EnqueueReplace: it goes on to the append after the replacement.
EnqueueReplaceAndAppend(g, b, t) ==
  LET l == LaneFor(b, t.task) IN
  /\ ~AlreadyHandling(g, b, t)
  /\ Replaceable(queues[l], t)
  /\ queues' = [queues EXCEPT ![l] = Append(ReplaceFirst(@, t), t)]
  /\ StartWorker(g, l)
  /\ UNCHANGED deferredLead

EnqueueReplace(g, b, t) ==
  LET l == LaneFor(b, t.task) IN
  /\ ~AlreadyHandling(g, b, t)
  /\ Replaceable(queues[l], t)
  /\ queues' = [queues EXCEPT ![l] = ReplaceFirst(@, t)]
  /\ StartWorker(g, l)
  /\ UNCHANGED deferredLead

EnqueueHold(g, b, t) ==
  /\ HeldForSpecialists(b, t)
  /\ deferredLead' = t
  /\ gor' = g
  /\ UNCHANGED <<queues, workers>>

Passes(g, b, t) ==
  /\ ~AlreadyHandling(g, b, t)
  /\ ~Replaceable(queues[LaneFor(b, t.task)], t)
  /\ ~HeldForSpecialists(b, t)

EnqueueAtLeadCap(g, b, t) ==
  LET l == LaneFor(b, t.task)
      n == Len(queues[l]) IN
  /\ Passes(g, b, t)
  /\ b = Lead /\ n >= leadMaxPending
  /\ IF Urgent(b, t) \/ t.human
     THEN queues' = [queues EXCEPT ![l][n] = t] /\ StartWorker(g, l)
     ELSE gor' = g /\ UNCHANGED <<queues, workers>>
  /\ UNCHANGED deferredLead

\* stale: the active turn is past the stale-cancel and minimum-age floors.
EnqueueAppend(g, b, t, stale) ==
  LET l == LaneFor(b, t.task) IN
  /\ Passes(g, b, t)
  /\ ~(b = Lead /\ Len(queues[l]) >= leadMaxPending)
  /\ queues' = [queues EXCEPT ![l] = Append(@, t)]
  /\ StartWorker(IF t.human \/ stale THEN CancelActive(g, l) ELSE g, l)
  /\ UNCHANGED deferredLead

Enqueue(g, b, t) ==
  \/ EnqueueDrop(g, b, t)
  \/ EnqueueReplace(g, b, t)
  \/ EnqueueHold(g, b, t)
  \/ EnqueueAtLeadCap(g, b, t)
  \/ \E stale \in BOOLEAN : EnqueueAppend(g, b, t, stale)

\* A notification reaches the queue (sendChannelUpdate, sendTaskUpdate,
\* EnqueueHeadlessTurn, resume): from a person or from a bot, for a task or not.
Notify(b, k, h) ==
  /\ nextId <= MaxTurns
  /\ Enqueue(gor, b, NewTurn(nextId, k, h))
  /\ nextId' = nextId + 1
  /\ UNCHANGED <<active, taskVars, controlVars>>

-----------------------------------------------------------------------------
(* runHeadlessCodexQueue: one worker goroutine *)

\* Mutants of ExitOnStop: the flag is left set; a parked worker misses stop.
ExitLeavesFlag(w) ==
  /\ gor[w].pc = "top" /\ stopped
  /\ gor' = [gor EXCEPT ![w] = Idle]
  /\ UNCHANGED <<queues, workers, active, deferredLead, taskVars, controlVars, nextId>>
ExitUnlessPaused(w) ==
  /\ gor[w].pc = "top" /\ stopped /\ ~paused
  /\ workers' = [workers EXCEPT ![gor[w].lane] = FALSE]
  /\ gor' = [gor EXCEPT ![w] = Idle]
  /\ UNCHANGED <<queues, active, deferredLead, taskVars, controlVars, nextId>>

\* The goroutine leaves because stop fired, at the top of the loop or parked
\* at the governor's gate.
ExitOnStop(w) ==
  /\ gor[w].pc = "top" /\ stopped
  /\ workers' = [workers EXCEPT ![gor[w].lane] = FALSE]
  /\ gor' = [gor EXCEPT ![w] = Idle]
  /\ UNCHANGED <<queues, active, deferredLead, taskVars, controlVars, nextId>>

\* Mutant of PassGate: the gate is checked for shutdown only.
PassWhilePaused(w) ==
  /\ gor[w].pc = "top" /\ ~stopped
  /\ gor' = [gor EXCEPT ![w].pc = "begin"]
  /\ UNCHANGED <<queues, workers, active, deferredLead, taskVars, controlVars, nextId>>

\* governorGate returns; while paused the goroutine stays parked in front of it.
PassGate(w) ==
  /\ gor[w].pc = "top" /\ ~stopped /\ ~paused
  /\ gor' = [gor EXCEPT ![w].pc = "begin"]
  /\ UNCHANGED <<queues, workers, active, deferredLead, taskVars, controlVars, nextId>>

\* Mutant of BeginNothing: a lane that is given up loses its queue.
BeginNothingClears(w) ==
  LET l == gor[w].lane IN
  /\ gor[w].pc = "begin"
  /\ \/ stopped
     \/ queues[l] = << >>
     \/ queues[l] # << >> /\ ~Head(queues[l]).human /\ ~MayStart(l)
  /\ workers' = [workers EXCEPT ![l] = FALSE]
  /\ queues' = [queues EXCEPT ![l] = << >>]
  /\ gor' = [gor EXCEPT ![w].pc = "recheck", ![w].count = FALSE]
  /\ UNCHANGED <<active, deferredLead, taskVars, controlVars, nextId>>

\* beginHeadlessCodexTurn finds nothing to run and gives the lane up: shutdown,
\* an empty queue, or a lane parked by the caps with its queue intact.
BeginNothing(w) ==
  LET l == gor[w].lane IN
  /\ gor[w].pc = "begin"
  /\ \/ stopped
     \/ queues[l] = << >>
     \/ queues[l] # << >> /\ ~Head(queues[l]).human /\ ~MayStart(l)
  /\ workers' = [workers EXCEPT ![l] = FALSE]
  /\ gor' = [gor EXCEPT ![w].pc = "recheck", ![w].count = FALSE]
  /\ UNCHANGED <<queues, active, deferredLead, taskVars, controlVars, nextId>>

\* beginHeadlessCodexTurn dequeues and registers the turn; its context is a
\* child of l.headless.ctx.
BeginTurn(w) ==
  LET l == gor[w].lane IN
  /\ gor[w].pc = "begin" /\ ~stopped
  /\ queues[l] # << >>
  /\ Head(queues[l]).human \/ MayStart(l)
  /\ queues' = [queues EXCEPT ![l] = Tail(@)]
  /\ active' = [active EXCEPT ![l] = w]
  /\ gor' = [gor EXCEPT ![w].pc = "running", ![w].turn = Head(queues[l]),
                        ![w].cancelled = ctxDone]
  /\ UNCHANGED <<workers, deferredLead, taskVars, controlVars, nextId>>

TransientTurnRetryLimit == 2

\* shouldRetryHeadlessTurn and the App Builder carve-outs beside it.
RetryLimit(b, k, transient) ==
  IF k \in Isolated \/ b \in Builders THEN 2
  ELSE IF k \in External \/ transient THEN 1 ELSE 0

\* timedOutTaskForTurn: the turn's task, else some open task of the bot.
RecoveryTasks(t) ==
  IF t.task # NoTask THEN {t.task} ELSE {NoTask} \cup {k \in Tasks : status[k] = "open"}

\* timedOutTurnAlreadyRecovered; posted: the bot wrote a message meanwhile.
AlreadyRecovered(k, posted) ==
  IF k \in Isolated THEN status[k] # "open" ELSE posted

\* recoverTimedOutHeadlessTurn and recoverFailedHeadlessTurn: leave the task,
\* enqueue another attempt, or block the task.
Recover(g, b, t, o) ==
  \E k \in RecoveryTasks(t), posted \in BOOLEAN :
    LET retry == o # "undurable" /\ t.attempts < RetryLimit(b, k, o = "transient") IN
    \/ /\ k = NoTask \/ AlreadyRecovered(k, posted)
       /\ gor' = g
       /\ UNCHANGED <<queues, workers, deferredLead, status>>
    \/ /\ k # NoTask /\ ~AlreadyRecovered(k, posted) /\ retry
       /\ Enqueue(g, b, [t EXCEPT !.attempts = @ + 1])
       /\ UNCHANGED status
    \/ /\ k # NoTask /\ ~AlreadyRecovered(k, posted) /\ ~retry
       /\ status' = [status EXCEPT ![k] = IF @ = "done" THEN @ ELSE "handoff"]
       /\ gor' = g
       /\ UNCHANGED <<queues, workers, deferredLead>>

\* The runner's possible ends: a cancelled context turns every error into
\* "canceled", unless its deadline had passed before; only guarded work can be
\* undurable.
MayEnd(b, t, cancelled, o) ==
  /\ o \in Outcomes
  /\ IF cancelled THEN o \in {"ok", "canceled", "timeout", "panic"} ELSE o # "canceled"
  /\ o = "undurable" => b \in Coders \/ RecoveryTasks(t) \cap (Isolated \cup External) # {}

\* Mutant of Finishing: a panic unwinds past finishHeadlessTurn.
PanicSkipsFinish(w, o) ==
  [gor EXCEPT ![w].pc = IF o = "panic" THEN "recheck" ELSE "finish", ![w].count = (o # "canceled")]

\* The goroutine goes on to finishHeadlessTurn, also after a panic; only a
\* cancelled turn is not counted.
Finishing(w, o) == [gor EXCEPT ![w].pc = "finish", ![w].count = (o # "canceled")]

\* headlessCodexRunTurn returns (or panics) and the switch after it runs; the
\* turn stays registered until finishHeadlessTurn.
EndTurn(w, o) ==
  LET b == Slug(gor[w].lane)
      t == gor[w].turn
      g == Finishing(w, o) IN
  /\ gor[w].pc = "running"
  /\ MayEnd(b, t, gor[w].cancelled, o)
  /\ CASE o \in {"ok", "canceled", "panic"} ->
            gor' = g /\ UNCHANGED <<queues, workers, deferredLead, status>>
       [] o = "transient" /\ t.retries < TransientTurnRetryLimit ->
            Enqueue(g, b, [t EXCEPT !.retries = @ + 1]) /\ UNCHANGED status
       [] OTHER -> Recover(g, b, t, o)
  /\ UNCHANGED <<active, prepared, controlVars, nextId>>

\* Queued work that no worker serves.
Parked == {l \in Lanes : queues[l] # << >> /\ ~workers[l]}

\* Mutant of Admissible: finishing a turn re-spawns nobody.
RespawnNobody(S, a) == S = {}

\* The parked lanes finishHeadlessTurn re-spawns beside the turns still active
\* in a: admitted one by one in map order until no other lane fits the caps.
Admissible(S, a) ==
  LET running == {l \in Lanes : a[l] # NoWorker}
      total == Cardinality(running) + Cardinality(S)
      ofBot(b) == Cardinality(LanesOf(b, running)) + Cardinality(LanesOf(b, S)) IN
  IF GlobalCap > 0 \/ PerBotCap > 0
  THEN /\ \A l \in S : FitsCaps(total - 1, ofBot(Slug(l)) - 1)
       /\ \A l \in Parked \ S : ~FitsCaps(total, ofBot(Slug(l)))
  ELSE S = {}

\* A specialist finished, no other specialist is queued or running, and the
\* lead has nothing queued.
LeadShouldWake(b, a) ==
  /\ b # Lead
  /\ ~SpecialistsBusy(queues, a)
  /\ \A l \in Lanes : Slug(l) = Lead => queues[l] = << >>

\* finishHeadlessTurn up to its unlock: cancel and clear the slot, take the
\* deferred lead turn, re-spawn parked lanes.
FinishTurn(w) ==
  LET l == gor[w].lane
      a == [active EXCEPT ![l] = NoWorker]
      wake == LeadShouldWake(Slug(l), a)
      g == [CancelActive(gor, l) EXCEPT
              ![w].pc = IF wake THEN "wake" ELSE "recheck",
              ![w].turn = IF wake THEN deferredLead ELSE NoTurn,
              ![w].cancelled = FALSE] IN
  /\ gor[w].pc = "finish"
  /\ active' = a
  /\ deferredLead' = IF wake THEN NoTurn ELSE deferredLead
  /\ \E S \in SUBSET Parked :
       /\ Admissible(S, a)
       /\ workers' = [m \in Lanes |-> workers[m] \/ m \in S]
       /\ \E f \in [S -> {v \in Workers : g[v].pc = "none"}] :
            /\ \A m, n \in S : m # n => f[m] # f[n]
            /\ gor' = [v \in Workers |->
                         IF \E m \in S : f[m] = v
                         THEN Fresh(CHOOSE m \in S : f[m] = v) ELSE g[v]]
  /\ UNCHANGED <<queues, taskVars, controlVars, nextId>>

\* finishHeadlessTurn after its unlock: the deferred turn is enqueued again
\* (its task is re-read from its channel), or wakeLeadAfterSpecialist delivers
\* the specialist's last message, if it left one.
WakeLead(w) ==
  LET t == gor[w].turn
      g == [gor EXCEPT ![w].pc = "recheck", ![w].turn = NoTurn] IN
  /\ gor[w].pc = "wake"
  /\ \/ /\ t # NoTurn
        /\ \E k \in Tasks \cup {NoTask} : Enqueue(g, Lead, NewTurn(t.id, k, FALSE))
        /\ UNCHANGED nextId
     \/ /\ t = NoTurn /\ nextId <= MaxTurns
        /\ \E k \in Tasks \cup {NoTask} : Enqueue(g, Lead, NewTurn(nextId, k, FALSE))
        /\ nextId' = nextId + 1
     \/ /\ t = NoTurn
        /\ gor' = g
        /\ UNCHANGED <<queues, workers, deferredLead, nextId>>
  /\ UNCHANGED <<active, taskVars, controlVars>>

\* The tail of the loop: governorNoteTurn may pause the session, then the
\* goroutine goes on only if the lane is still marked as served.
Recheck(w) ==
  /\ gor[w].pc = "recheck"
  /\ paused' \in IF gor[w].count /\ "pause" \in Controls THEN {paused, TRUE} ELSE {paused}
  /\ gor' = [gor EXCEPT ![w] = IF workers[@.lane] THEN Fresh(@.lane) ELSE Idle]
  /\ UNCHANGED <<queues, workers, active, deferredLead, taskVars, ctxDone, stopped, nextId>>

-----------------------------------------------------------------------------
(* The office around the queue *)

\* pauseManual, for Pause and for the first half of Stop.
GovernorPause ==
  /\ "pause" \in Controls /\ ~paused
  /\ paused' = TRUE
  /\ UNCHANGED <<queues, workers, active, deferredLead, gor, taskVars, ctxDone, stopped, nextId>>

GovernorResume ==
  /\ paused
  /\ paused' = FALSE
  /\ UNCHANGED <<queues, workers, active, deferredLead, gor, taskVars, ctxDone, stopped, nextId>>

\* Cancel every registered turn of the bots in B.
CancelLanes(B) ==
  [w \in Workers |->
     IF \E l \in Lanes : Slug(l) \in B /\ active[l] = w
     THEN [gor[w] EXCEPT !.cancelled = TRUE] ELSE gor[w]]

\* CancelHeadlessTurns, for one bot or for all.  The dock calls it alone; a
\* governor Stop calls it after GovernorPause, and a resume may come between.
CancelHeadlessTurns(B) ==
  /\ "stopTurns" \in Controls
  /\ gor' = CancelLanes(B)
  /\ UNCHANGED <<queues, workers, active, deferredLead, taskVars, controlVars, nextId>>

CancelAllContexts ==
  gor' = [w \in Workers |->
            IF gor[w].pc = "running" THEN [gor[w] EXCEPT !.cancelled = TRUE] ELSE gor[w]]

\* Launcher.Drain cancels the dispatch context and waits for the goroutines.
Drain ==
  /\ "drain" \in Controls /\ ~ctxDone
  /\ ctxDone' = TRUE
  /\ CancelAllContexts
  /\ UNCHANGED <<queues, workers, active, deferredLead, taskVars, paused, stopped, nextId>>

\* stopHeadlessWorkers closes stopCh, cancels the context and waits.
StopHeadlessWorkers ==
  /\ "shutdown" \in Controls /\ ~stopped
  /\ stopped' = TRUE
  /\ ctxDone' = TRUE
  /\ CancelAllContexts
  /\ UNCHANGED <<queues, workers, active, deferredLead, taskVars, paused, nextId>>

\* Mutant of PrepareWorktree: any task is given a worktree.
PrepareAnyTask(k) ==
  /\ "prepare" \in Controls /\ k \notin prepared
  /\ prepared' = prepared \cup {k}
  /\ UNCHANGED <<queues, workers, active, deferredLead, gor, status, controlVars, nextId>>

\* The broker assigns an isolated task its worktree path.
PrepareWorktree(k) ==
  /\ "prepare" \in Controls /\ k \in Isolated \ prepared
  /\ prepared' = prepared \cup {k}
  /\ UNCHANGED <<queues, workers, active, deferredLead, gor, status, controlVars, nextId>>

\* The path is cleared again: the task is reopened or loses its owner, or its
\* tree is no longer usable.
ReleaseWorktree(k) ==
  /\ "prepare" \in Controls /\ k \in prepared
  /\ prepared' = prepared \ {k}
  /\ UNCHANGED <<queues, workers, active, deferredLead, gor, status, controlVars, nextId>>

\* A bot or a person moves the task.
TaskUpdate(k, s) ==
  /\ "status" \in Controls /\ status[k] # s
  /\ status' = [status EXCEPT ![k] = s]
  /\ UNCHANGED <<queues, workers, active, deferredLead, gor, prepared, controlVars, nextId>>

WorkerStep(w) ==
  \/ ExitOnStop(w) \/ PassGate(w) \/ BeginNothing(w) \/ BeginTurn(w)
  \/ \E o \in Outcomes : EndTurn(w, o)
  \/ FinishTurn(w) \/ WakeLead(w) \/ Recheck(w)

Next ==
  \/ \E in \in Inputs : Notify(in[1], in[2], in[3])
  \/ \E w \in Workers : WorkerStep(w)
  \/ GovernorPause \/ GovernorResume
  \/ \E B \in {Bots} \cup {{b} : b \in Bots} : CancelHeadlessTurns(B)
  \/ Drain \/ StopHeadlessWorkers
  \/ \E k \in Tasks : PrepareWorktree(k) \/ ReleaseWorktree(k)
  \/ \E k \in Tasks, s \in {"open", "handoff", "done"} : TaskUpdate(k, s)

Spec == Init /\ [][Next]_vars

\* Goroutines are scheduled, and a runner returns: every turn context carries
\* a timeout and a cancelled context kills the subprocess.
FairSpec == Spec /\ \A w \in Workers : WF_vars(WorkerStep(w))

-----------------------------------------------------------------------------
(* Safety *)

TypeOK ==
  /\ queues \in [Lanes -> Seq(Turn)]
  /\ workers \in [Lanes -> BOOLEAN]
  /\ active \in [Lanes -> Workers \cup {NoWorker}]
  /\ deferredLead \in Turn
  /\ gor \in [Workers -> Goroutine]
  /\ status \in [Tasks -> {"open", "handoff", "done"}]
  /\ prepared \subseteq Isolated
  /\ paused \in BOOLEAN /\ ctxDone \in BOOLEAN /\ stopped \in BOOLEAN
  /\ nextId \in Nat

\* A lane marked as served has a goroutine that will come back to it: enqueue
\* never relies on a worker that has already left (the comment in
\* beginHeadlessCodexTurn on marking the worker as done under the lock).
FlagHasWorker ==
  \A l \in Lanes : workers[l] => \E w \in Workers : gor[w].pc # "none" /\ gor[w].lane = l

\* A registered slot belongs to a goroutine still inside its turn, so that
\* finishHeadlessTurn will free it, also after a panic.
ActiveOwned ==
  \A l \in Lanes : active[l] # NoWorker =>
    gor[active[l]].lane = l /\ gor[active[l]].pc \in {"running", "finish"}

\* Work parked by the concurrency caps is never forgotten: until shutdown, some
\* turn is registered whose finish re-spawns it, or some served lane still has
\* a turn to begin.
NoStrandedWork ==
  stopped \/ Parked = {} \/ ActiveLanes # {}
          \/ \E l \in Lanes : workers[l] /\ queues[l] # << >>

\* Without caps no lane is ever parked ("with no cap every queued lane already
\* has a worker", finishHeadlessTurn).
UncappedNeverParks ==
  stopped \/ GlobalCap > 0 \/ PerBotCap > 0 \/ Parked = {}

\* The slots of the cost guard: bot-originated turns never hold more of them
\* than the global cap, nor those of one bot more than the per-bot cap; only a
\* human turn may go over them.  This bounds what the code counts: a turn whose
\* slot a second goroutine of its lane has taken over (see LaneSerialized) runs
\* on uncounted.
BotLanes == {l \in ActiveLanes : ~gor[active[l]].turn.human}
SlotsWithinCaps ==
  /\ GlobalCap > 0 => Cardinality(BotLanes) <= GlobalCap
  /\ PerBotCap > 0 => \A b \in Bots : Cardinality(LanesOf(b, BotLanes)) <= PerBotCap

\* Where the turns of notification i are waiting, running or being handed over.
Copies(i) ==
  {p \in Lanes \X (1 .. MaxTurns) : p[2] \in DOMAIN queues[p[1]] /\ queues[p[1]][p[2]].id = i}
  \cup {w \in Workers : gor[w].pc \in {"running", "wake"} /\ gor[w].turn.id = i}
  \cup {d \in {"deferred"} : deferredLead.id = i}

\* Retries, replacements and the deferred lead turn never multiply a
\* notification: it is in one place at a time.
SingleCopy == \A i \in 1 .. MaxTurns : Cardinality(Copies(i)) <= 1

\* u may take the place of a bot's queued turn t of bot b: a bot's notification
\* for the same task, or an urgent or human one at the lead's cap.
Supersedes(b, u, t) ==
  \/ ~u.human /\ u.task # NoTask /\ u.task = t.task
  \/ b = Lead /\ (u.human \/ Urgent(b, u))

\* A bot's queued turn is not discarded ("left intact and parked at the governor
\* gate", CancelHeadlessTurns): no parking, pause, cancel, drain, shutdown,
\* retry or failure takes it out of its queue.  It leaves from the head, by
\* being run, or in its place, superseded.  Of a person's turn this says only
\* that something stays in its place.
QueuedTurnsLast ==
  [][\A l \in Lanes :
       \/ \A i \in DOMAIN queues[l] :
            /\ i \in DOMAIN queues'[l]
            /\ \/ queues'[l][i] = queues[l][i]
               \/ queues[l][i].human
               \/ Supersedes(Slug(l), queues'[l][i], queues[l][i])
       \/ /\ queues[l] # << >> /\ queues'[l] = Tail(queues[l])
          /\ \E w \in Workers : /\ active'[l] = w /\ gor'[w].pc = "running"
                                /\ gor'[w].turn = Head(queues[l])]_vars

\* A failed turn does not strand its task ("dropping the retry here would
\* silently strand the task", enqueueHeadlessCodexTurnRecord): when a
\* specialist's turn for an open worktree task fails, the step that ends it
\* hands the task off, leaves a turn for it in a queue of that bot, or has found
\* another turn for it registered.  The retry passes the same drop, replace and
\* lane choice as any notification, while its own turn is still registered and
\* its worktree may have come or gone since it was queued.  (The lead's retry
\* may be dropped at the lead's cap.)
Failures == {"undurable", "timeout", "transient", "failed"}
FollowedUp(w, b, k) ==
  \/ status'[k] # "open"
  \/ \E l \in Lanes : Slug(l) = b /\ SameTask(queues'[l], gor[w].turn) # {}
  \/ \E l \in Lanes : /\ Slug(l) = b /\ active[l] \notin {w, NoWorker}
                      /\ gor[active[l]].turn.task = k
FailuresAreFollowedUp ==
  [][\A w \in Workers :
       LET b == Slug(gor[w].lane)
           k == gor[w].turn.task
       IN  /\ b # Lead /\ k \in Isolated /\ status[k] = "open"
           /\ \E o \in Failures : EndTurn(w, o)
           => FollowedUp(w, b, k)]_vars

\* One turn at a time runs in a lane (laneForTurn: "collapses to one serialized
\* lane").
LaneSerialized ==
  \A v, w \in Workers :
    gor[v].pc = "running" /\ gor[w].pc = "running" /\ gor[v].lane = gor[w].lane => v = w

-----------------------------------------------------------------------------
(* Refinement *)

\* A goroutine is inside the gate from governorGate's return to the tail of its
\* loop, through the begin that may find nothing, the turn, the finish and the
\* wake-up of the lead; a lane without a goroutine waits outside.
Place == [w \in Workers |-> IF gor[w].pc \in {"none", "top"} THEN "waiting" ELSE "inside"]
Gate == INSTANCE DispatchGate WITH shut <- paused, closed <- stopped, place <- Place

\* The queue keeps the gate's contract, which the governor implements: no new,
\* re-spawned, retried or resumed goroutine gets to a turn but through
\* governorGate, and none passes it while the session is paused.
UsesGate == Gate!Spec

-----------------------------------------------------------------------------
(* Liveness *)

\* Every queue drains once nobody pauses the session any more.
QueuesDrain ==
  (<>[]~paused /\ []~stopped) => <>[](\A l \in Lanes : queues[l] = << >>)

\* After stopHeadlessWorkers every goroutine exits, also from the governor's
\* gate: the wait on workerWg returns.
StopDrains == stopped ~> \A w \in Workers : gor[w].pc = "none"

=============================================================================
