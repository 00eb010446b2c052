------------------------------ MODULE Governor ------------------------------
(***************************************************************************)
(* The session governor: internal/team/governor.go and broker_governor.go. *)
(* Every action is one critical section of g.mu or b.mu.  The broker reads *)
(* the usage totals under b.mu before it calls the governor under g.mu, so *)
(* noting a turn, resuming and publishing are two steps each, and Stop     *)
(* cancels in-flight turns in a step of its own.                           *)
(*                                                                         *)
(* Abstractions.  A usage gauge (tokens, cost) is a natural number.  The   *)
(* channel resumeCh is its generation: resume closes the current one and   *)
(* installs the next.  A status event is the paused flag it carries.       *)
(***************************************************************************)
EXTENDS Integers, Sequences, FiniteSets

CONSTANTS
  Workers,      \* dispatch goroutines at the gate
  Callers,      \* HTTP requests on /governor in flight
  Gauges,       \* the usage totals that have a threshold: tokens, cost
  Limits,       \* initial threshold of each gauge, 0 = gate disabled
  MaxTurnsPerGate,  \* 0 = no turn checkpoint
  Disabled,     \* automatic pausing is off (the default)
  Bumps,        \* amounts a "Continue +budget" may add to a threshold
  EventBuffer,  \* capacity of the SSE subscriber's channel
  MaxCalls,     \* bound: control requests
  MaxTurns,     \* bound: turns started
  MaxUsage      \* bound: units of usage recorded per gauge

ASSUME GovernorAssumption ==
  /\ Workers \cap Callers = {}
  /\ IsFiniteSet(Workers)
  /\ Limits \in [Gauges -> Nat] /\ MaxTurnsPerGate \in Nat /\ Disabled \in BOOLEAN
  /\ Bumps \subseteq Nat /\ EventBuffer \in Nat /\ MaxCalls \in Nat /\ MaxTurns \in Nat
  /\ MaxUsage \in Nat

VARIABLES
  paused, reason,   \* the pause state and why
  generation,       \* of resumeCh
  turns,            \* completed turns since the last checkpoint
  base,             \* usage at the last checkpoint
  limit,            \* the thresholds in force
  used,             \* b.usage.Session: usage recorded so far
  stopped,          \* the workers' stop channel is closed
  proc,             \* worker or caller -> program counter and local variables
  events, shown,    \* SSE channel; the last status the browser received
  calls, started    \* counters of the two bounds

vars == <<paused, reason, generation, turns, base, limit, used, stopped, proc,
          events, shown, calls, started>>
pauseVars == <<paused, reason>>
checkpointVars == <<turns, base>>
eventVars == <<events, shown>>
boundVars == <<calls, started>>

Procs == Workers \cup Callers
Reasons == {"none", "manual", "stop", "budget", "turns"}
Usage == [Gauges -> Nat]

WorkerPCs == {"gate", "parked", "through", "running", "ended", "note", "exited"}
CallerPCs == {"idle", "cancel", "snapshot", "resume"}
PublishPCs == {"publish", "deliver"}
Proc == [pc : WorkerPCs \cup CallerPCs \cup PublishPCs,
         gen : Nat,             \* the channel a parked worker selects on
         seen : Usage,          \* the usage snapshot taken before the lock
         cancelled : BOOLEAN,   \* the running turn was cancelled
         status : BOOLEAN]      \* the status about to be published

Zero == [g \in Gauges |-> 0]
\* Where a process starts and returns to, its local variables dead.
Home(p) == [pc |-> IF p \in Workers THEN "gate" ELSE "idle", gen |-> 0, seen |-> Zero,
            cancelled |-> FALSE, status |-> FALSE]

\* newGovernor and initGovernor: baselined to the usage restored from disk.
Init ==
  /\ paused = FALSE /\ reason = "none"
  /\ generation = 0 /\ turns = 0
  /\ base = Zero /\ used = Zero
  /\ limit = Limits
  /\ stopped = FALSE
  /\ proc = [p \in Procs |-> Home(p)]
  /\ events = << >> /\ shown = FALSE
  /\ calls = 0 /\ started = 0

Goto(p, pc) == proc' = [proc EXCEPT ![p] = [Home(p) EXCEPT !.pc = pc]]
Return(p) == proc' = [proc EXCEPT ![p] = Home(p)]

-----------------------------------------------------------------------------
(* gate, and the worker's turn around it *)

\* Mutant of GatePass: the gate does not look at the pause.
GatePassUnchecked(w) ==
  /\ proc[w].pc = "gate"
  /\ Goto(w, "through")
  /\ UNCHANGED <<pauseVars, generation, checkpointVars, limit, used, stopped, eventVars, boundVars>>

GatePass(w) ==
  /\ proc[w].pc = "gate" /\ ~paused
  /\ Goto(w, "through")
  /\ UNCHANGED <<pauseVars, generation, checkpointVars, limit, used, stopped, eventVars, boundVars>>

GatePark(w) ==
  /\ proc[w].pc = "gate" /\ paused
  /\ proc' = [proc EXCEPT ![w].pc = "parked", ![w].gen = generation]
  /\ UNCHANGED <<pauseVars, generation, checkpointVars, limit, used, stopped, eventVars, boundVars>>

\* The channel the worker selects on has been closed: look at paused again.
GateWake(w) ==
  /\ proc[w].pc = "parked" /\ proc[w].gen < generation
  /\ Return(w)
  /\ UNCHANGED <<pauseVars, generation, checkpointVars, limit, used, stopped, eventVars, boundVars>>

\* gate returns false, or the loop's own check of stop fires.
GateStop(w) ==
  /\ proc[w].pc \in {"gate", "parked"} /\ stopped
  /\ Goto(w, "exited")
  /\ UNCHANGED <<pauseVars, generation, checkpointVars, limit, used, stopped, eventVars, boundVars>>

\* beginHeadlessCodexTurn registers the turn; Stop can cancel it from here on.
BeginTurn(w) ==
  /\ proc[w].pc = "through" /\ started < MaxTurns
  /\ Goto(w, "running")
  /\ started' = started + 1
  /\ UNCHANGED <<pauseVars, generation, checkpointVars, limit, used, stopped, eventVars, calls>>

\* Nothing to run: an idle pass, not credited to the checkpoint.
BeginNothing(w) ==
  /\ proc[w].pc = "through"
  /\ Return(w)
  /\ UNCHANGED <<pauseVars, generation, checkpointVars, limit, used, stopped, eventVars, boundVars>>

\* Mutant of RecordUsage: the usage is taken off the total.
UsageSubtracted(w, g) ==
  /\ proc[w].pc = "running" /\ used[g] < MaxUsage
  /\ used' = [used EXCEPT ![g] = @ - 1]
  /\ UNCHANGED <<pauseVars, generation, checkpointVars, limit, stopped, proc, eventVars, boundVars>>

\* RecordBotUsage while the turn runs: one more unit of one gauge.
RecordUsage(w, g) ==
  /\ proc[w].pc = "running" /\ used[g] < MaxUsage
  /\ used' = [used EXCEPT ![g] = @ + 1]
  /\ UNCHANGED <<pauseVars, generation, checkpointVars, limit, stopped, proc, eventVars, boundVars>>

\* The runner returns, by itself or although it was cancelled.
TurnEnds(w) ==
  /\ proc[w].pc = "running"
  /\ Goto(w, "ended")
  /\ UNCHANGED <<pauseVars, generation, checkpointVars, limit, used, stopped, eventVars, boundVars>>

\* A cancelled turn is a restart and is not noted.
TurnCancelled(w) ==
  /\ proc[w].pc = "running" /\ proc[w].cancelled
  /\ Return(w)
  /\ UNCHANGED <<pauseVars, generation, checkpointVars, limit, used, stopped, eventVars, boundVars>>

\* sessionUsageSnapshot, for a worker noting a turn or a caller resuming.
Snapshot(p) ==
  /\ proc[p].pc \in {"ended", "snapshot"}
  /\ proc' = [proc EXCEPT ![p].seen = used,
                          ![p].pc = IF p \in Workers THEN "note" ELSE "resume"]
  /\ UNCHANGED <<pauseVars, generation, checkpointVars, limit, used, stopped, eventVars, boundVars>>

\* pauseLocked: a Stop is never downgraded.
PauseFor(r) ==
  /\ paused' = TRUE
  /\ reason' = IF reason = "stop" THEN "stop" ELSE r

\* Mutants of OverBudget and OverTurns: lifetime spend, and one turn late.
OverLifetimeBudget(tok) == \E g \in Gauges : limit[g] > 0 /\ tok[g] >= limit[g]
OverTurnsLate(n) == MaxTurnsPerGate > 0 /\ n > MaxTurnsPerGate

\* The thresholds of noteTurnComplete, in the order of its switch.
OverBudget(tok) == \E g \in Gauges : limit[g] > 0 /\ tok[g] - base[g] >= limit[g]
OverTurns(n) == MaxTurnsPerGate > 0 /\ n >= MaxTurnsPerGate

\* noteTurnComplete; a checkpoint that trips posts a notice and publishes.
NoteTurn(w) ==
  LET over == OverBudget(proc[w].seen)
      trips == ~Disabled /\ ~paused /\ (over \/ OverTurns(turns + 1)) IN
  /\ proc[w].pc = "note"
  /\ turns' = turns + 1
  /\ IF trips
     THEN PauseFor(IF over THEN "budget" ELSE "turns") /\ Goto(w, "publish")
     ELSE UNCHANGED pauseVars /\ Return(w)
  /\ UNCHANGED <<generation, base, limit, used, stopped, eventVars, boundVars>>

-----------------------------------------------------------------------------
(* The manual controls: POST /governor *)

Call(c) ==
  /\ proc[c].pc = "idle" /\ calls < MaxCalls
  /\ calls' = calls + 1

GovernorPause(c) ==
  /\ Call(c)
  /\ PauseFor("manual")
  /\ Goto(c, "publish")
  /\ UNCHANGED <<generation, checkpointVars, limit, used, stopped, eventVars, started>>

GovernorStop(c) ==
  /\ Call(c)
  /\ PauseFor("stop")
  /\ Goto(c, "cancel")
  /\ UNCHANGED <<generation, checkpointVars, limit, used, stopped, eventVars, started>>

\* cancelInFlight: every registered turn of the bots stopped.
CancelInFlight(c, B) ==
  /\ proc[c].pc = "cancel"
  /\ proc' = [p \in Procs |->
                IF p = c THEN [proc[p] EXCEPT !.pc = "publish"]
                ELSE IF p \in B /\ proc[p].pc = "running" THEN [proc[p] EXCEPT !.cancelled = TRUE]
                ELSE proc[p]]
  /\ UNCHANGED <<pauseVars, generation, checkpointVars, limit, used, stopped, eventVars, boundVars>>

GovernorResume(c) ==
  /\ Call(c)
  /\ Goto(c, "snapshot")
  /\ UNCHANGED <<pauseVars, generation, checkpointVars, limit, used, stopped, eventVars, started>>

\* bumpBudget raises each threshold by its amount, only where it is enabled; the
\* caller then resumes.
GovernorResumeMore(c, add) ==
  /\ Call(c)
  /\ limit' = [g \in Gauges |-> IF limit[g] > 0 THEN limit[g] + add[g] ELSE 0]
  /\ Goto(c, "snapshot")
  /\ UNCHANGED <<pauseVars, generation, checkpointVars, used, stopped, eventVars, started>>

\* Mutant of Resume: the pause ends but the channel is not closed.
ResumeWithoutClose(c) ==
  /\ proc[c].pc = "resume"
  /\ turns' = 0 /\ base' = proc[c].seen
  /\ paused' = FALSE
  /\ reason' = IF paused THEN "none" ELSE reason
  /\ Goto(c, "publish")
  /\ UNCHANGED <<generation, limit, used, stopped, eventVars, boundVars>>

\* resume: rebaseline, and wake the parked workers if the session was paused.
Resume(c) ==
  /\ proc[c].pc = "resume"
  /\ turns' = 0 /\ base' = proc[c].seen
  /\ paused' = FALSE
  /\ reason' = IF paused THEN "none" ELSE reason
  /\ generation' = IF paused THEN generation + 1 ELSE generation
  /\ Goto(c, "publish")
  /\ UNCHANGED <<limit, used, stopped, eventVars, boundVars>>

\* publishGovernorEvent reads the status, then sends it without blocking.
Publish(p) ==
  /\ proc[p].pc = "publish"
  /\ proc' = [proc EXCEPT ![p].pc = "deliver", ![p].status = paused]
  /\ UNCHANGED <<pauseVars, generation, checkpointVars, limit, used, stopped, eventVars, boundVars>>

Deliver(p) ==
  /\ proc[p].pc = "deliver"
  /\ events' = IF Len(events) < EventBuffer THEN Append(events, proc[p].status) ELSE events
  /\ Return(p)
  /\ UNCHANGED <<pauseVars, generation, checkpointVars, limit, used, stopped, shown, boundVars>>

\* The SSE loop forwards an event to the browser.
Receive ==
  /\ events # << >>
  /\ shown' = Head(events)
  /\ events' = Tail(events)
  /\ UNCHANGED <<pauseVars, generation, checkpointVars, limit, used, stopped, proc, boundVars>>

\* stopHeadlessWorkers closes the stop channel.
CloseStop ==
  /\ ~stopped
  /\ stopped' = TRUE
  /\ UNCHANGED <<pauseVars, generation, checkpointVars, limit, used, proc, eventVars, boundVars>>

WorkerStep(w) ==
  \/ GatePass(w) \/ GatePark(w) \/ GateWake(w) \/ GateStop(w)
  \/ BeginTurn(w) \/ BeginNothing(w) \/ TurnEnds(w) \/ TurnCancelled(w)
  \/ \E g \in Gauges : RecordUsage(w, g)
  \/ Snapshot(w) \/ NoteTurn(w) \/ Publish(w) \/ Deliver(w)

\* Stop names one bot (a worker stands for its bot here) or the whole team.
CallerStep(c) ==
  \/ \E B \in {Workers} \cup {{w} : w \in Workers} : CancelInFlight(c, B)
  \/ Snapshot(c) \/ Resume(c) \/ Publish(c) \/ Deliver(c)

Request(c) ==
  \/ GovernorPause(c) \/ GovernorStop(c) \/ GovernorResume(c)
  \/ \E add \in [Gauges -> Bumps] : GovernorResumeMore(c, add)

Next ==
  \/ \E w \in Workers : WorkerStep(w)
  \/ \E c \in Callers : CallerStep(c) \/ Request(c)
  \/ Receive \/ CloseStop

Spec == Init /\ [][Next]_vars

\* Goroutines are scheduled and the SSE loop runs; nobody is obliged to send a
\* request or to shut the office down.
FairSpec ==
  /\ Spec
  /\ \A w \in Workers : WF_vars(WorkerStep(w))
  /\ \A c \in Callers : WF_vars(CallerStep(c))
  /\ WF_vars(Receive)

-----------------------------------------------------------------------------
(* Properties *)

TypeOK ==
  /\ paused \in BOOLEAN /\ reason \in Reasons
  /\ generation \in Nat /\ turns \in Nat
  /\ base \in Usage /\ limit \in Usage /\ used \in Usage
  /\ stopped \in BOOLEAN
  /\ proc \in [Procs -> Proc]
  /\ \A w \in Workers : proc[w].pc \in WorkerPCs \cup PublishPCs
  /\ \A c \in Callers : proc[c].pc \in CallerPCs \cup PublishPCs
  /\ events \in Seq(BOOLEAN) /\ shown \in BOOLEAN
  /\ calls \in Nat /\ started \in Nat

\* No lost wakeup: a worker that selects on a channel nobody has closed is
\* parked because the session is paused now, so the resume that ends this pause
\* closes that very channel (the invariant stated at resumeCh in governor.go).
NoLostWakeup ==
  \A w \in Workers : proc[w].pc = "parked" =>
    proc[w].gen <= generation /\ (proc[w].gen = generation => paused)

\* Workers past the gate whose turn is not noted yet.
InTurn == {w \in Workers : proc[w].pc \in {"through", "running", "ended", "note"}}

\* The turn checkpoint overshoots by at most the turns already past the gate:
\* between two checkpoints fewer than MaxTurnsPerGate + |Workers| turns are run,
\* whatever pauses, resumes and stale snapshots interleave.
CheckpointOverrun ==
  ~Disabled /\ MaxTurnsPerGate > 0 =>
    turns + Cardinality(InTurn) < MaxTurnsPerGate + Cardinality(Workers)

\* A budget pause is never spurious: the snapshot may be stale and the baseline
\* may move after it was taken, but what was really spent since the last
\* checkpoint has reached a threshold.
BudgetPauseIsEarned ==
  [][~paused /\ paused' /\ reason' = "budget" =>
       \E g \in Gauges : limit[g] > 0 /\ used[g] - base[g] >= limit[g]]_vars

\* Refinement: the gate the dispatch workers rely on.
Place == [w \in Workers |-> IF w \in InTurn THEN "inside"
                            ELSE IF proc[w].pc = "exited" THEN "gone" ELSE "waiting"]
Gate == INSTANCE DispatchGate WITH shut <- paused, closed <- stopped, place <- Place

\* No worker passes while the session is paused, and a worker at the gate gets
\* through once it stays resumed.
ImplementsGate == Gate!LiveSpec

=============================================================================
