---------------------------- MODULE PaneDispatch ----------------------------
(***************************************************************************)
(* The pane dispatcher: internal/team/pane_dispatch.go.  It types          *)
(* notifications into the tmux pane of an interactive Claude session, one  *)
(* worker goroutine per bot, and merges what arrives while a turn waits.   *)
(*                                                                         *)
(* Bots share nothing but the mutex, so the module follows one of them.    *)
(* Every action is one critical section of d.mu, one read of the draining  *)
(* flag, or the tmux commands between two critical sections.               *)
(*                                                                         *)
(* Abstractions.  A notification is its number in order of arrival, and a  *)
(* turn's text the sequence of the notifications merged into it.  Time is  *)
(* one fact: whether the last successful send is younger than the coalesce *)
(* window.  The minimum gap only delays a worker, so it is left to time.   *)
(***************************************************************************)
EXTENDS Integers, Sequences, FiniteSets, Functions

CONSTANTS
  Panes,        \* tmux targets the bot's pane may have
  Workers,      \* goroutine identities: bounds the goroutines alive at once
  MaxAttempts,  \* paneDispatchMaxAttempts
  MaxCalls,     \* bound: Enqueue calls past the draining check at once
  MaxNotes      \* bound: notifications

ASSUME PaneAssumption ==
  Panes # {} /\ MaxAttempts \in Nat \ {0} /\ MaxCalls \in Nat /\ MaxNotes \in Nat

VARIABLES
  queue,     \* pending turns of the bot
  worker,    \* d.workers[slug]: the code believes a goroutine drains the queue
  gor,       \* goroutine -> program counter and the turn it holds
  recent,    \* d.lastSent[slug] is younger than paneDispatchCoalesceWindow
  draining,  \* drainingFlag
  entering,  \* Enqueue calls that have passed the IsDraining check
  sent,      \* the texts typed into a pane and submitted, in order
  next       \* number of the next notification

vars == <<queue, worker, gor, recent, draining, entering, sent, next>>

\* paneDispatchTurn
Turn == [pane : Panes, text : Seq(Nat), attempts : Nat]
PCs == {"none", "top", "waiting", "ready", "typing", "landed", "failed"}
Nowhere == CHOOSE p \in Panes : TRUE
NoTurn == [pane |-> Nowhere, text |-> << >>, attempts |-> 0]
Idle == [pc |-> "none", turn |-> NoTurn]

Init ==
  /\ queue = << >>
  /\ worker = FALSE
  /\ gor = [w \in Workers |-> Idle]
  /\ recent = FALSE
  /\ draining = FALSE
  /\ entering = 0
  /\ sent = << >>
  /\ next = 1

Goto(w, pc) == gor' = [gor EXCEPT ![w].pc = pc]

-----------------------------------------------------------------------------
(* Enqueue *)

\* The call reads the draining flag before it takes the lock.
EnqueueChecked ==
  /\ ~draining /\ entering < MaxCalls
  /\ entering' = entering + 1
  /\ UNCHANGED <<queue, worker, gor, recent, draining, sent, next>>

\* Mutants of StartWorker: the flag is not consulted; nobody is started.
StartAnother == worker' = TRUE /\ \E w \in Workers : gor[w].pc = "none" /\ Goto(w, "top")
StartNobody == UNCHANGED <<worker, gor>>

\* Start a goroutine unless one drains the queue.
StartWorker ==
  \/ worker /\ UNCHANGED <<worker, gor>>
  \/ /\ ~worker /\ worker' = TRUE
     /\ \E w \in Workers : gor[w].pc = "none" /\ Goto(w, "top")

\* Mutant of Arrives: a call that never passed the check.
ArrivesUnchecked ==
  /\ next <= MaxNotes
  /\ entering' = entering - 1
  /\ next' = next + 1
  /\ UNCHANGED <<recent, draining, sent>>

\* The call gets the lock with the next notification.
Arrives ==
  /\ entering > 0 /\ next <= MaxNotes
  /\ entering' = entering - 1
  /\ next' = next + 1
  /\ UNCHANGED <<recent, draining, sent>>

\* Merge into the pending turn, and refresh its target.
EnqueueMerge(p) ==
  LET n == Len(queue) IN
  /\ Arrives /\ n > 0
  /\ queue' = [queue EXCEPT ![n].pane = p, ![n].text = Append(@, next)]
  /\ UNCHANGED <<worker, gor>>

\* No pending turn.  The code has one branch for a send within the window and
\* one for a cold pane; they do the same.
EnqueueNew(p) ==
  /\ Arrives /\ queue = << >>
  /\ queue' = << [pane |-> p, text |-> <<next>>, attempts |-> 0] >>
  /\ StartWorker

-----------------------------------------------------------------------------
(* runQueue *)

\* Nothing left: the flag is cleared under the lock that saw the empty queue.
PeekExit(w) ==
  /\ gor[w].pc = "top" /\ queue = << >>
  /\ worker' = FALSE
  /\ gor' = [gor EXCEPT ![w] = Idle]
  /\ UNCHANGED <<queue, recent, draining, entering, sent, next>>

PeekWait(w) ==
  /\ gor[w].pc = "top" /\ queue # << >>
  /\ Goto(w, "waiting")
  /\ UNCHANGED <<queue, worker, recent, draining, entering, sent, next>>

\* Mutant of Wake: only the minimum gap is waited for.
WakeEarly(w) ==
  /\ gor[w].pc = "waiting"
  /\ Goto(w, "ready")
  /\ UNCHANGED <<queue, worker, recent, draining, entering, sent, next>>

\* The minimum gap and the coalesce window are over.
Wake(w) ==
  /\ gor[w].pc = "waiting" /\ ~recent
  /\ Goto(w, "ready")
  /\ UNCHANGED <<queue, worker, recent, draining, entering, sent, next>>

\* Re-read the head, which stays in the queue; an empty queue starts over.
Take(w) ==
  /\ gor[w].pc = "ready"
  /\ gor' = [gor EXCEPT ![w] = IF queue = << >> THEN [Idle EXCEPT !.pc = "top"]
                               ELSE [pc |-> "typing", turn |-> Head(queue)]]
  /\ UNCHANGED <<queue, worker, recent, draining, entering, sent, next>>

\* sendNotificationToPane: /clear, the text, Enter.
SendOk(w) ==
  /\ gor[w].pc = "typing"
  /\ Goto(w, "landed")
  /\ sent' = Append(sent, gor[w].turn.text)
  /\ UNCHANGED <<queue, worker, recent, draining, entering, next>>

\* One of the tmux commands fails or times out; a timeout may come after the
\* text was submitted.
SendError(w) ==
  /\ gor[w].pc = "typing"
  /\ Goto(w, "failed")
  /\ sent' \in {sent, Append(sent, gor[w].turn.text)}
  /\ UNCHANGED <<queue, worker, recent, draining, entering, next>>

\* Mutant of Landed: the head is left in the queue.
LandedKeepsHead(w) ==
  /\ gor[w].pc = "landed"
  /\ recent' = TRUE
  /\ gor' = [gor EXCEPT ![w] = [Idle EXCEPT !.pc = "top"]]
  /\ UNCHANGED <<queue, worker, draining, entering, sent, next>>

\* The success path dequeues the head and opens the coalesce window.
Landed(w) ==
  /\ gor[w].pc = "landed"
  /\ queue' = IF queue = << >> THEN queue ELSE Tail(queue)
  /\ recent' = TRUE
  /\ gor' = [gor EXCEPT ![w] = [Idle EXCEPT !.pc = "top"]]
  /\ UNCHANGED <<worker, draining, entering, sent, next>>

\* Mutant of Bumped: the head is retried for ever.
BumpedForever(q) == q

\* One more attempt of the head, dropped at the limit.
Bumped(q) ==
  IF q = << >> THEN q
  ELSE IF Head(q).attempts + 1 >= MaxAttempts THEN Tail(q)
  ELSE [q EXCEPT ![1].attempts = @ + 1]

Failed(w) ==
  /\ gor[w].pc = "failed"
  /\ queue' = Bumped(queue)
  /\ gor' = [gor EXCEPT ![w] = [Idle EXCEPT !.pc = "top"]]
  /\ UNCHANGED <<worker, recent, draining, entering, sent, next>>

\* Launcher.Drain flips the flag.
Drain ==
  /\ ~draining
  /\ draining' = TRUE
  /\ UNCHANGED <<queue, worker, gor, recent, entering, sent, next>>

\* paneDispatchCoalesceWindow after the last send.
WindowEnds ==
  /\ recent
  /\ recent' = FALSE
  /\ UNCHANGED <<queue, worker, gor, draining, entering, sent, next>>

WorkerStep(w) ==
  \/ PeekExit(w) \/ PeekWait(w) \/ Wake(w) \/ Take(w)
  \/ SendOk(w) \/ SendError(w) \/ Landed(w) \/ Failed(w)

Next ==
  \/ EnqueueChecked
  \/ \E p \in Panes : EnqueueMerge(p) \/ EnqueueNew(p)
  \/ \E w \in Workers : WorkerStep(w)
  \/ Drain \/ WindowEnds

Spec == Init /\ [][Next]_vars

\* Goroutines are scheduled, tmux commands end (each has a timeout), and time
\* passes.
FairSpec == Spec /\ WF_vars(WindowEnds) /\ \A w \in Workers : WF_vars(WorkerStep(w))

-----------------------------------------------------------------------------
(* Properties *)

Live == {w \in Workers : gor[w].pc # "none"}

TypeOK ==
  /\ queue \in Seq(Turn)
  /\ worker \in BOOLEAN /\ recent \in BOOLEAN /\ draining \in BOOLEAN
  /\ gor \in [Workers -> [pc : PCs, turn : Turn]]
  /\ entering \in Nat /\ next \in Nat
  /\ sent \in Seq(Seq(Nat))

\* Two goroutines never type into the same pane: the hand-over of the worker
\* flag inside the mutex leaves exactly one live while it is set.
OneWorker ==
  /\ \A v, w \in Live : v = w
  /\ worker <=> Live # {}

\* A pending turn always has a goroutine that will come to it ("a fresh enqueue
\* spawns a new one"), and there is never more than one: bursts merge.
PendingServed == Len(queue) <= 1 /\ (queue # << >> => worker)

\* /clear is never typed within the coalesce window of a successful send, also
\* by a fresh goroutine or after a retry ("the defence against mid-turn /clear").
SpacedSends == \A w \in Workers : gor[w].pc \in {"ready", "typing", "landed", "failed"} => ~recent

\* What the pane receives is in order of arrival, up to repetitions of what
\* failed sends had in fact submitted, and those are bounded: merging into a
\* turn that is being retried does not reset its attempts.
InOrderBounded ==
  /\ \A i, j \in DOMAIN sent : \A m \in Range(sent[i]), n \in Range(sent[j]) :
       i < j /\ n < m => n \in Range(sent[i])
  /\ \A n \in 1 .. MaxNotes :
       Cardinality({i \in DOMAIN sent : n \in Range(sent[i])}) <= MaxAttempts

\* The dispatcher comes to rest even if the pane is wedged for ever.
QueueSettles == <>[](queue = << >> /\ Live = {})

=============================================================================
