--------------------------- MODULE GovernorProofs ---------------------------
(***************************************************************************)
(* Theorems about Governor for any number of workers and callers and any   *)
(* thresholds: no lost wakeup, the checkpoint's overrun, budget pauses are *)
(* earned, and the governor implements DispatchGate.                       *)
(***************************************************************************)
EXTENDS Governor, FiniteSetTheorems, TLAPS

\* What a snapshot saw is no more than what has been used since.
SnapshotsAreOld ==
  \A p \in Procs : proc[p].pc \in {"note", "resume"} =>
    \A g \in Gauges : proc[p].seen[g] <= used[g]

\* An open gate means the turn checkpoint has not been reached.
OpenBelowCheckpoint ==
  ~Disabled /\ MaxTurnsPerGate > 0 /\ ~paused => turns < MaxTurnsPerGate

GovInv ==
  TypeOK /\ NoLostWakeup /\ SnapshotsAreOld /\ OpenBelowCheckpoint /\ CheckpointOverrun

-----------------------------------------------------------------------------
(* Records *)

AllPCs == WorkerPCs \cup CallerPCs \cup PublishPCs

\* Sequences stay sequences over their set when an element is put in or taken.
LEMMA SeqTypes ==
  ASSUME NEW S, NEW q \in Seq(S)
  PROVE  /\ \A e \in S : Append(q, e) \in Seq(S)
         /\ q # << >> => Head(q) \in S /\ Tail(q) \in Seq(S)
OBVIOUS

\* No usage is a usage.
LEMMA UsageType == Zero \in Usage
BY DEF Zero, Usage

\* Home records, and a program counter put into one.
LEMMA HomeType ==
  ASSUME NEW p \in Procs
  PROVE  /\ Home(p) \in Proc
         /\ p \in Workers => Home(p).pc = "gate"
         /\ p \notin Workers => Home(p).pc = "idle"
BY UsageType DEF Home, Proc, WorkerPCs, CallerPCs

\* Updates of one field of a process record.
LEMMA ProcUpdates ==
  ASSUME NEW r \in Proc
  PROVE  /\ \A x \in AllPCs : [r EXCEPT !.pc = x] \in Proc /\ [r EXCEPT !.pc = x].pc = x
                              /\ [r EXCEPT !.pc = x].gen = r.gen
                              /\ [r EXCEPT !.pc = x].seen = r.seen
         /\ \A n \in Nat : [r EXCEPT !.gen = n] \in Proc /\ [r EXCEPT !.gen = n].gen = n
                           /\ [r EXCEPT !.gen = n].pc = r.pc
         /\ \A u \in Usage : [r EXCEPT !.seen = u] \in Proc /\ [r EXCEPT !.seen = u].seen = u
                             /\ [r EXCEPT !.seen = u].pc = r.pc
         /\ \A c \in BOOLEAN : [r EXCEPT !.cancelled = c] \in Proc
                               /\ [r EXCEPT !.cancelled = c].pc = r.pc
                               /\ [r EXCEPT !.cancelled = c].gen = r.gen
                               /\ [r EXCEPT !.cancelled = c].seen = r.seen
         /\ \A c \in BOOLEAN : [r EXCEPT !.status = c] \in Proc
                               /\ [r EXCEPT !.status = c].pc = r.pc
<1>1. ASSUME NEW x \in AllPCs
      PROVE  [r EXCEPT !.pc = x] \in Proc /\ [r EXCEPT !.pc = x].pc = x
             /\ [r EXCEPT !.pc = x].gen = r.gen /\ [r EXCEPT !.pc = x].seen = r.seen
  BY DEF Proc, AllPCs
<1>2. ASSUME NEW n \in Nat
      PROVE  [r EXCEPT !.gen = n] \in Proc /\ [r EXCEPT !.gen = n].gen = n
             /\ [r EXCEPT !.gen = n].pc = r.pc
  BY DEF Proc
<1>3. ASSUME NEW u \in Usage
      PROVE  [r EXCEPT !.seen = u] \in Proc /\ [r EXCEPT !.seen = u].seen = u
             /\ [r EXCEPT !.seen = u].pc = r.pc
  BY DEF Proc
<1>4. ASSUME NEW c \in BOOLEAN
      PROVE  [r EXCEPT !.cancelled = c] \in Proc /\ [r EXCEPT !.cancelled = c].pc = r.pc
             /\ [r EXCEPT !.cancelled = c].gen = r.gen /\ [r EXCEPT !.cancelled = c].seen = r.seen
  BY DEF Proc
<1>5. ASSUME NEW c \in BOOLEAN
      PROVE  [r EXCEPT !.status = c] \in Proc /\ [r EXCEPT !.status = c].pc = r.pc
  BY DEF Proc
<1>6. QED
  BY <1>1, <1>2, <1>3, <1>4, <1>5

\* A process moves to the program counter x.
Moves(p, x) ==
  /\ proc' \in [Procs -> Proc]
  /\ proc'[p].pc = x
  /\ \A q \in Procs : q # p => proc'[q] = proc[q]

\* Goto moves the process, whatever it was doing.
LEMMA GotoMoves ==
  ASSUME TypeOK, NEW p \in Procs, NEW x \in AllPCs, Goto(p, x)
  PROVE  Moves(p, x)
<1> DEFINE h == Home(p)
           r == [h EXCEPT !.pc = x]
<1>1. h \in Proc
  BY HomeType
<1>2. proc' = [proc EXCEPT ![p] = r]
  BY DEF Goto
<1> HIDE DEF h
<1>3. r \in Proc /\ r.pc = x
  BY <1>1, ProcUpdates
<1> HIDE DEF r
<1>4. QED
  BY <1>2, <1>3 DEF Moves, TypeOK

\* Return moves the process home.
LEMMA ReturnMoves ==
  ASSUME TypeOK, NEW p \in Procs, Return(p)
  PROVE  Moves(p, Home(p).pc)
<1>1. Home(p) \in Proc
  BY HomeType
<1>2. QED
  BY <1>1 DEF Return, Moves, TypeOK

-----------------------------------------------------------------------------
(* One process moves *)

Fits(p, x) ==
  /\ p \in Workers => x \in WorkerPCs \cup PublishPCs
  /\ p \in Callers => x \in CallerPCs \cup PublishPCs

\* The pause state goes forward: a pause ends only with a new channel.
Forward ==
  /\ generation' \in Nat /\ generation' >= generation
  /\ generation' = generation /\ paused => paused'

\* One process's move keeps types, wakeups and snapshots.
LEMMA MoveKeeps ==
  ASSUME GovInv, NEW p \in Procs, NEW x, Moves(p, x), Fits(p, x), Forward,
         x # "parked" \/ (proc'[p].gen = generation' /\ paused'),
         x \notin {"note", "resume"} \/ proc'[p].seen = used,
         \A g \in Gauges : used'[g] >= used[g], used' \in Usage
  PROVE  /\ proc' \in [Procs -> Proc]
         /\ \A w \in Workers : proc'[w].pc \in WorkerPCs \cup PublishPCs
         /\ \A c \in Callers : proc'[c].pc \in CallerPCs \cup PublishPCs
         /\ NoLostWakeup' /\ SnapshotsAreOld'
<1> USE DEF GovInv
<1>1. \A q \in Procs : q # p => proc'[q] = proc[q]
  BY DEF Moves
<1>2. \A w \in Workers : proc'[w].pc \in WorkerPCs \cup PublishPCs
  BY <1>1 DEF Moves, Fits, TypeOK, Procs
<1>3. \A c \in Callers : proc'[c].pc \in CallerPCs \cup PublishPCs
  BY <1>1 DEF Moves, Fits, TypeOK, Procs
<1>4. NoLostWakeup'
  <2>1. SUFFICES ASSUME NEW w \in Workers, proc'[w].pc = "parked"
                 PROVE  proc'[w].gen <= generation' /\ (proc'[w].gen = generation' => paused')
    BY DEF NoLostWakeup
  <2>2. CASE w = p
    BY <2>1, <2>2 DEF Moves, Forward
  <2>3. CASE w # p
    <3>1. proc'[w] = proc[w] /\ proc[w].gen \in Nat /\ generation \in Nat
      BY <2>3, <1>1 DEF Procs, TypeOK, Proc
    <3>2. proc[w].gen <= generation /\ (proc[w].gen = generation => paused)
      BY <2>1, <3>1 DEF NoLostWakeup
    <3>3. QED
      BY <3>1, <3>2 DEF Forward
  <2>4. QED
    BY <2>2, <2>3
<1>5. SnapshotsAreOld'
  <2>1. SUFFICES ASSUME NEW q \in Procs, proc'[q].pc \in {"note", "resume"}, NEW g \in Gauges
                 PROVE  proc'[q].seen[g] <= used'[g]
    BY DEF SnapshotsAreOld
  <2>2. used[g] \in Nat /\ used'[g] \in Nat /\ used'[g] >= used[g]
    BY DEF TypeOK, Usage
  <2>3. CASE q = p
    BY <2>1, <2>2, <2>3 DEF Moves
  <2>4. CASE q # p
    <3>1. proc'[q] = proc[q] /\ proc[q].seen[g] \in Nat
      BY <2>4, <1>1 DEF TypeOK, Proc, Usage
    <3>2. QED
      BY <2>1, <2>2, <3>1 DEF SnapshotsAreOld
  <2>5. QED
    BY <2>3, <2>4
<1>6. QED
  BY <1>2, <1>3, <1>4, <1>5 DEF Moves

Inside == {"through", "running", "ended", "note"}

\* The workers inside are finitely many, at most all of them.
LEMMA InTurnFinite ==
  /\ IsFiniteSet(InTurn)
  /\ Cardinality(InTurn) \in Nat /\ Cardinality(Workers) \in Nat
  /\ Cardinality(InTurn) <= Cardinality(Workers)
<1>1. InTurn \subseteq Workers
  BY DEF InTurn
<1>2. QED
  BY <1>1, GovernorAssumption, FS_Subset, FS_CardinalityType

\* A worker that stays inside or comes out does not raise the count.
LEMMA InTurnShrinks ==
  ASSUME TypeOK, NEW p \in Procs, NEW x, Moves(p, x),
         x \notin Inside \/ proc[p].pc \in Inside \/ p \notin Workers
  PROVE  Cardinality(InTurn') <= Cardinality(InTurn)
<1>1. InTurn' \subseteq InTurn
  BY DEF InTurn, Moves, Procs, Inside
<1>2. QED
  BY <1>1, InTurnFinite, FS_Subset

\* A worker that leaves lowers the count.
LEMMA InTurnLeaves ==
  ASSUME TypeOK, NEW p \in Workers, NEW x, Moves(p, x),
         x \notin Inside, proc[p].pc \in Inside
  PROVE  Cardinality(InTurn') <= Cardinality(InTurn) - 1
<1>1. InTurn' = InTurn \ {p} /\ p \in InTurn
  BY DEF InTurn, Moves, Procs, Inside
<1>2. Cardinality(InTurn \ {p}) = Cardinality(InTurn) - 1
  BY <1>1, InTurnFinite, FS_RemoveElement
<1>3. Cardinality(InTurn') = Cardinality(InTurn) - 1
  BY <1>1, <1>2
<1>4. QED
  BY <1>3, InTurnFinite

\* The two checkpoint invariants survive a step that counts no turn, resets
\* nothing and lets nobody in.
LEMMA CountKeeps ==
  ASSUME GovInv, turns' = turns, paused' = paused \/ paused' = TRUE,
         Cardinality(InTurn') <= Cardinality(InTurn), Cardinality(InTurn') \in Nat
  PROVE  OpenBelowCheckpoint' /\ CheckpointOverrun'
<1>1. OpenBelowCheckpoint'
  BY DEF GovInv, OpenBelowCheckpoint
<1>2. CheckpointOverrun'
  BY InTurnFinite, GovernorAssumption DEF GovInv, TypeOK, CheckpointOverrun
<1>3. QED
  BY <1>1, <1>2

\* The same after the step.
LEMMA InTurnFinitePrime == IsFiniteSet(InTurn') /\ Cardinality(InTurn') \in Nat
                           /\ Cardinality(InTurn') <= Cardinality(Workers)
<1>1. InTurn' \subseteq Workers
  BY DEF InTurn
<1>2. QED
  BY <1>1, GovernorAssumption, FS_Subset, FS_CardinalityType

-----------------------------------------------------------------------------
(* From one process's move to the whole invariant *)

\* The part of the type invariant that is not about processes.
OfficeTypes ==
  /\ paused \in BOOLEAN /\ reason \in Reasons
  /\ generation \in Nat /\ turns \in Nat
  /\ base \in Usage /\ limit \in Usage /\ used \in Usage
  /\ stopped \in BOOLEAN
  /\ events \in Seq(BOOLEAN) /\ shown \in BOOLEAN
  /\ calls \in Nat /\ started \in Nat

\* What MoveKeeps asks of the step in which p moves to x.
GoodMove(p, x) ==
  /\ Moves(p, x) /\ Fits(p, x) /\ Forward
  /\ x # "parked" \/ (proc'[p].gen = generation' /\ paused')
  /\ x \notin {"note", "resume"} \/ proc'[p].seen = used
  /\ \A g \in Gauges : used'[g] >= used[g]

\* A good move that leaves the checkpoint invariants true keeps all of GovInv.
LEMMA MoveInv ==
  ASSUME GovInv, NEW p \in Procs, NEW x, GoodMove(p, x), OfficeTypes',
         OpenBelowCheckpoint', CheckpointOverrun'
  PROVE  GovInv'
<1>1. used' \in Usage
  BY DEF OfficeTypes
<1>2. /\ proc' \in [Procs -> Proc]
      /\ \A w \in Workers : proc'[w].pc \in WorkerPCs \cup PublishPCs
      /\ \A c \in Callers : proc'[c].pc \in CallerPCs \cup PublishPCs
      /\ NoLostWakeup' /\ SnapshotsAreOld'
  BY <1>1, MoveKeeps DEF GoodMove
<1>3. TypeOK'
  BY <1>2 DEF TypeOK, OfficeTypes
<1>4. QED
  BY <1>2, <1>3 DEF GovInv

\* A move by a process that is not let through the gate, with no turn counted.
LEMMA QuietInv ==
  ASSUME GovInv, NEW p \in Procs, NEW x, GoodMove(p, x), OfficeTypes',
         x \notin Inside \/ proc[p].pc \in Inside \/ p \notin Workers,
         turns' = turns, paused' = paused \/ paused' = TRUE
  PROVE  GovInv'
<1>1. Cardinality(InTurn') <= Cardinality(InTurn)
  BY InTurnShrinks DEF GoodMove, GovInv
<1>2. OpenBelowCheckpoint' /\ CheckpointOverrun'
  BY <1>1, InTurnFinitePrime, CountKeeps
<1>3. QED
  BY <1>2, MoveInv

\* The move is good when no usage, generation or pause is undone.
LEMMA PlainMove ==
  ASSUME GovInv, NEW p \in Procs, NEW x, Moves(p, x), Fits(p, x),
         x \notin {"parked", "note", "resume"},
         generation' = generation, paused => paused', used' = used
  PROVE  GoodMove(p, x)
<1>1. \A g \in Gauges : used'[g] >= used[g]
  BY DEF GovInv, TypeOK, Usage
<1>2. Forward
  BY DEF Forward, GovInv, TypeOK
<1>3. QED
  BY <1>1, <1>2 DEF GoodMove

-----------------------------------------------------------------------------
(* One lemma per group of actions *)

\* The initial state satisfies the invariant.
LEMMA GovInit == Init => GovInv
<1> SUFFICES ASSUME Init PROVE GovInv
  OBVIOUS
<1>1. \A p \in Procs : Home(p) \in Proc
  BY HomeType
<1>2. \A p \in Procs : proc[p] = Home(p) /\ proc[p].pc \in {"gate", "idle"}
  BY HomeType DEF Init
<1>3. proc \in [Procs -> Proc]
  BY <1>1 DEF Init
<1>4. \A w \in Workers : proc[w].pc = "gate"
  BY <1>2, HomeType DEF Procs
<1>5. \A c \in Callers : proc[c].pc = "idle"
  BY <1>2, HomeType, GovernorAssumption DEF Procs
<1>6. TypeOK
  <2>1. base \in Usage /\ limit \in Usage /\ used \in Usage
    BY UsageType, GovernorAssumption DEF Init, Usage
  <2>2. events \in Seq(BOOLEAN) /\ reason \in Reasons
    BY DEF Init, Reasons
  <2>3. /\ \A w \in Workers : proc[w].pc \in WorkerPCs \cup PublishPCs
        /\ \A c \in Callers : proc[c].pc \in CallerPCs \cup PublishPCs
    BY <1>4, <1>5 DEF WorkerPCs, CallerPCs
  <2>4. QED
    BY <1>3, <2>1, <2>2, <2>3 DEF Init, TypeOK
<1>7. NoLostWakeup /\ SnapshotsAreOld
  BY <1>2, <1>4 DEF NoLostWakeup, SnapshotsAreOld
<1>8. InTurn = {}
  BY <1>4 DEF InTurn
<1>9. Cardinality(InTurn) = 0
  BY <1>8, FS_EmptySet
<1>10. OpenBelowCheckpoint
  BY GovernorAssumption DEF Init, OpenBelowCheckpoint
<1>11. CheckpointOverrun
  BY <1>9, InTurnFinite, GovernorAssumption DEF Init, CheckpointOverrun
<1>12. QED
  BY <1>6, <1>7, <1>10, <1>11 DEF GovInv

\* Passing the open gate: the checkpoint has not been reached, so even a gate
\* full of workers stays below the overrun.
LEMMA GatePassInv ==
  ASSUME GovInv, NEW w \in Workers, GatePass(w)
  PROVE  GovInv'
<1>1. w \in Procs /\ "through" \in AllPCs
  BY DEF Procs, AllPCs, WorkerPCs
<1>2. Moves(w, "through")
  BY <1>1, GotoMoves DEF GatePass, GovInv
<1>3. Fits(w, "through")
  BY GovernorAssumption DEF Fits, WorkerPCs
<1>4. GoodMove(w, "through")
  BY <1>1, <1>2, <1>3, PlainMove DEF GatePass, pauseVars
<1>5. OfficeTypes'
  BY DEF GatePass, GovInv, TypeOK, OfficeTypes, pauseVars, checkpointVars, eventVars, boundVars
<1>6. OpenBelowCheckpoint'
  BY DEF GatePass, GovInv, OpenBelowCheckpoint, pauseVars, checkpointVars
<1>7. CheckpointOverrun'
  <2>1. SUFFICES ASSUME ~Disabled /\ MaxTurnsPerGate > 0
                 PROVE  turns' + Cardinality(InTurn') < MaxTurnsPerGate + Cardinality(Workers)
    BY DEF CheckpointOverrun
  <2>2. turns' \in Nat /\ turns' < MaxTurnsPerGate
    BY <2>1, <1>5 DEF GatePass, GovInv, OpenBelowCheckpoint, checkpointVars, OfficeTypes
  <2>3. QED
    BY <2>2, InTurnFinite, InTurnFinitePrime, GovernorAssumption
<1>8. QED
  BY <1>1, <1>4, <1>5, <1>6, <1>7, MoveInv

\* Parking under the lock records the channel in force.
LEMMA GateParkInv ==
  ASSUME GovInv, NEW w \in Workers, GatePark(w)
  PROVE  GovInv'
<1> DEFINE a == [proc[w] EXCEPT !.pc = "parked"]
           r == [a EXCEPT !.gen = generation]
<1>1. w \in Procs /\ proc[w] \in Proc /\ "parked" \in AllPCs /\ generation \in Nat
  BY DEF Procs, AllPCs, WorkerPCs, GovInv, TypeOK
<1>2. proc' = [proc EXCEPT ![w] = r]
  BY DEF GatePark
<1>3. a \in Proc /\ a.pc = "parked"
  BY <1>1, ProcUpdates
<1> HIDE DEF a
<1>4. r \in Proc /\ r.pc = "parked" /\ r.gen = generation
  BY <1>1, <1>3, ProcUpdates
<1> HIDE DEF r
<1>5. Moves(w, "parked") /\ proc'[w].gen = generation
  BY <1>1, <1>2, <1>4 DEF Moves, GovInv, TypeOK
<1>6. Fits(w, "parked")
  BY GovernorAssumption DEF Fits, WorkerPCs
<1>7. \A g \in Gauges : used'[g] >= used[g]
  BY DEF GatePark, GovInv, TypeOK, Usage
<1>8. Forward
  BY <1>1 DEF Forward, GatePark, pauseVars
<1>9. GoodMove(w, "parked")
  BY <1>5, <1>6, <1>7, <1>8 DEF GoodMove, GatePark, pauseVars
<1>10. OfficeTypes'
  BY DEF GatePark, GovInv, TypeOK, OfficeTypes, pauseVars, checkpointVars, eventVars, boundVars
<1>11. QED
  BY <1>1, <1>9, <1>10, QuietInv DEF GatePark, pauseVars, checkpointVars, Inside

\* A process that goes to x, or back home, without touching the checkpoint.
LEMMA GotoInv ==
  ASSUME GovInv, NEW p \in Procs, NEW x \in AllPCs, Goto(p, x), Fits(p, x),
         x \notin {"parked", "note", "resume"},
         x \notin Inside \/ proc[p].pc \in Inside \/ p \notin Workers,
         generation' = generation, paused' = paused \/ paused' = TRUE,
         used' = used, turns' = turns, OfficeTypes'
  PROVE  GovInv'
<1>1. Moves(p, x)
  BY GotoMoves DEF GovInv
<1>2. GoodMove(p, x)
  BY <1>1, PlainMove
<1>3. QED
  BY <1>2, QuietInv

\* A process that returns home keeps the invariant.
LEMMA ReturnInv ==
  ASSUME GovInv, NEW p \in Procs, Return(p),
         generation' = generation, paused' = paused \/ paused' = TRUE,
         used' = used, turns' = turns, OfficeTypes'
  PROVE  GovInv'
<1> DEFINE x == Home(p).pc
<1>1. x \in {"gate", "idle"} /\ Fits(p, x)
  BY HomeType, GovernorAssumption DEF Fits, WorkerPCs, CallerPCs
<1>2. Moves(p, x)
  BY ReturnMoves DEF GovInv
<1> HIDE DEF x
<1>3. GoodMove(p, x)
  BY <1>1, <1>2, PlainMove
<1>4. QED
  BY <1>1, <1>3, QuietInv DEF Inside

\* The worker's other steps in which nothing is counted.
LEMMA WorkerQuietInv ==
  ASSUME GovInv, NEW w \in Workers,
         GateWake(w) \/ GateStop(w) \/ BeginTurn(w) \/ BeginNothing(w)
         \/ TurnEnds(w) \/ TurnCancelled(w)
  PROVE  GovInv'
<1> USE DEF pauseVars, checkpointVars, eventVars, boundVars
<1>1. w \in Procs /\ \A x \in WorkerPCs : x \in AllPCs /\ Fits(w, x)
  BY GovernorAssumption DEF Procs, AllPCs, Fits
<1>2. CASE GateWake(w)
  BY <1>1, <1>2, ReturnInv DEF GateWake, GovInv, TypeOK, OfficeTypes
<1>3. CASE GateStop(w)
  <2>1. OfficeTypes'
    BY <1>3 DEF GateStop, GovInv, TypeOK, OfficeTypes
  <2>2. "exited" \in WorkerPCs
    BY DEF WorkerPCs
  <2>3. QED
    BY <1>1, <1>3, <2>1, <2>2, GotoInv DEF GateStop, Inside
<1>4. CASE BeginTurn(w)
  <2>1. OfficeTypes'
    BY <1>4 DEF BeginTurn, GovInv, TypeOK, OfficeTypes
  <2>2. "running" \in WorkerPCs
    BY DEF WorkerPCs
  <2>3. QED
    BY <1>1, <1>4, <2>1, <2>2, GotoInv DEF BeginTurn, Inside
<1>5. CASE BeginNothing(w)
  BY <1>1, <1>5, ReturnInv DEF BeginNothing, GovInv, TypeOK, OfficeTypes
<1>6. CASE TurnCancelled(w)
  BY <1>1, <1>6, ReturnInv DEF TurnCancelled, GovInv, TypeOK, OfficeTypes
<1>7. CASE TurnEnds(w)
  <2>1. OfficeTypes'
    BY <1>7 DEF TurnEnds, GovInv, TypeOK, OfficeTypes
  <2>2. "ended" \in WorkerPCs
    BY DEF WorkerPCs
  <2>3. QED
    BY <1>1, <1>7, <2>1, <2>2, GotoInv DEF TurnEnds, Inside
<1>8. QED
  BY <1>2, <1>3, <1>4, <1>5, <1>6, <1>7

\* Recorded usage only grows.
LEMMA RecordUsageInv ==
  ASSUME GovInv, NEW w \in Workers, NEW g \in Gauges, RecordUsage(w, g)
  PROVE  GovInv'
<1> USE DEF pauseVars, checkpointVars, eventVars, boundVars
<1>1. used' \in Usage /\ \A h \in Gauges : used'[h] >= used[h] /\ used[h] \in Nat /\ used'[h] \in Nat
  BY DEF RecordUsage, GovInv, TypeOK, Usage
<1>2. TypeOK'
  BY <1>1 DEF RecordUsage, GovInv, TypeOK
<1>3. InTurn' = InTurn
  BY DEF RecordUsage, InTurn
<1>4. SnapshotsAreOld'
  <2>1. SUFFICES ASSUME NEW q \in Procs, proc[q].pc \in {"note", "resume"}, NEW h \in Gauges
                 PROVE  proc[q].seen[h] <= used'[h]
    BY DEF SnapshotsAreOld, RecordUsage
  <2>2. proc[q].seen[h] <= used[h] /\ proc[q].seen[h] \in Nat
    BY <2>1 DEF GovInv, SnapshotsAreOld, TypeOK, Proc, Usage
  <2>3. QED
    BY <1>1, <2>2
<1>5. QED
  BY <1>2, <1>3, <1>4
  DEF RecordUsage, GovInv, NoLostWakeup, OpenBelowCheckpoint, CheckpointOverrun

\* A snapshot shows the usage of the moment it is taken.
LEMMA SnapshotInv ==
  ASSUME GovInv, NEW p \in Procs, Snapshot(p)
  PROVE  GovInv'
<1> USE DEF pauseVars, checkpointVars, eventVars, boundVars
<1> DEFINE x == IF p \in Workers THEN "note" ELSE "resume"
           a == [proc[p] EXCEPT !.seen = used]
           r == [a EXCEPT !.pc = x]
<1>1. proc[p] \in Proc /\ x \in AllPCs /\ used \in Usage
  BY DEF AllPCs, WorkerPCs, CallerPCs, GovInv, TypeOK
<1>2. proc' = [proc EXCEPT ![p] = r]
  BY DEF Snapshot
<1>3. a \in Proc /\ a.seen = used
  BY <1>1, ProcUpdates
<1>4. Fits(p, x)
  BY GovernorAssumption DEF Fits, WorkerPCs, CallerPCs
<1>5. x # "parked" /\ (x \notin Inside \/ proc[p].pc \in Inside \/ p \notin Workers)
  BY DEF Snapshot, GovInv, TypeOK, WorkerPCs, PublishPCs, Inside
<1> HIDE DEF a, x
<1>6. r \in Proc /\ r.pc = x /\ r.seen = used
  BY <1>1, <1>3, ProcUpdates
<1> HIDE DEF r
<1>7. Moves(p, x) /\ proc'[p].seen = used
  BY <1>2, <1>6 DEF Moves, GovInv, TypeOK
<1>8. OfficeTypes' /\ Forward /\ \A g \in Gauges : used'[g] >= used[g]
  BY DEF Snapshot, GovInv, TypeOK, OfficeTypes, Forward, Usage
<1>9. GoodMove(p, x)
  BY <1>4, <1>5, <1>7, <1>8 DEF GoodMove
<1>10. QED
  BY <1>5, <1>8, <1>9, QuietInv DEF Snapshot

\* A noted turn moves from the workers inside to the count.
LEMMA NoteTurnInv ==
  ASSUME GovInv, NEW w \in Workers, NoteTurn(w)
  PROVE  GovInv'
<1> USE DEF pauseVars, checkpointVars, eventVars, boundVars
<1>1. w \in Procs /\ proc[w].pc \in Inside
  BY DEF Procs, NoteTurn, Inside
<1>2. paused' \in BOOLEAN /\ reason' \in Reasons /\ (paused => paused')
  BY DEF NoteTurn, PauseFor, GovInv, TypeOK, Reasons
<1>3. OfficeTypes'
  BY <1>2 DEF NoteTurn, GovInv, TypeOK, OfficeTypes
<1>4. PICK x \in {"publish", "gate"} : Moves(w, x)
  <2>1. "publish" \in AllPCs
    BY DEF AllPCs, PublishPCs
  <2>2. CASE Goto(w, "publish")
    BY <2>1, <2>2, <1>1, GotoMoves DEF GovInv
  <2>3. CASE Return(w)
    BY <2>3, <1>1, ReturnMoves, HomeType DEF GovInv
  <2>4. QED
    BY <2>2, <2>3 DEF NoteTurn
<1>5. Fits(w, x) /\ x \notin Inside
  BY <1>4, GovernorAssumption DEF Fits, WorkerPCs, PublishPCs, Inside
<1>6. GoodMove(w, x)
  BY <1>1, <1>2, <1>4, <1>5, PlainMove DEF NoteTurn
<1>7. Cardinality(InTurn') <= Cardinality(InTurn) - 1
  BY <1>1, <1>4, <1>5, InTurnLeaves DEF GovInv
<1>8. OpenBelowCheckpoint'
  BY GovernorAssumption
  DEF NoteTurn, PauseFor, OverTurns, GovInv, TypeOK, OpenBelowCheckpoint
<1>9. CheckpointOverrun'
  <2>1. turns' = turns + 1 /\ turns \in Nat
    BY DEF NoteTurn, GovInv, TypeOK
  <2>2. QED
    BY <2>1, <1>7, InTurnFinite, InTurnFinitePrime, GovernorAssumption DEF GovInv, CheckpointOverrun
<1>10. QED
  BY <1>1, <1>3, <1>6, <1>8, <1>9, MoveInv

\* Publishing reads the status; delivering ends the call.
LEMMA PublishInv ==
  ASSUME GovInv, NEW p \in Procs, Publish(p) \/ Deliver(p)
  PROVE  GovInv'
<1> USE DEF pauseVars, checkpointVars, eventVars, boundVars
<1>1. CASE Publish(p)
  <2> DEFINE a == [proc[p] EXCEPT !.pc = "deliver"]
             r == [a EXCEPT !.status = paused]
  <2>1. proc[p] \in Proc /\ "deliver" \in AllPCs /\ paused \in BOOLEAN
    BY DEF AllPCs, PublishPCs, GovInv, TypeOK
  <2>2. proc' = [proc EXCEPT ![p] = r]
    BY <1>1 DEF Publish
  <2>3. a \in Proc /\ a.pc = "deliver"
    BY <2>1, ProcUpdates
  <2> HIDE DEF a
  <2>4. r \in Proc /\ r.pc = "deliver"
    BY <2>1, <2>3, ProcUpdates
  <2> HIDE DEF r
  <2>5. Moves(p, "deliver")
    BY <2>2, <2>4 DEF Moves, GovInv, TypeOK
  <2>6. Fits(p, "deliver")
    BY DEF Fits, PublishPCs
  <2>7. GoodMove(p, "deliver")
    BY <1>1, <2>5, <2>6, PlainMove DEF Publish
  <2>8. OfficeTypes'
    BY <1>1 DEF Publish, GovInv, TypeOK, OfficeTypes
  <2>9. QED
    BY <1>1, <2>7, <2>8, QuietInv DEF Publish, Inside
<1>2. CASE Deliver(p)
  <2>1. proc[p].status \in BOOLEAN
    BY DEF GovInv, TypeOK, Proc
  <2>2. events' \in Seq(BOOLEAN)
    <3>1. events \in Seq(BOOLEAN)
      BY DEF GovInv, TypeOK
    <3>2. Append(events, proc[p].status) \in Seq(BOOLEAN)
      BY <2>1, <3>1, SeqTypes
    <3>3. QED
      BY <1>2, <3>1, <3>2 DEF Deliver
  <2>3. OfficeTypes'
    BY <1>2, <2>2 DEF Deliver, GovInv, TypeOK, OfficeTypes
  <2>4. QED
    BY <1>2, <2>3, ReturnInv DEF Deliver
<1>3. QED
  BY <1>1, <1>2

\* A request takes the lock, and a pause only ever sets the flag.
LEMMA RequestInv ==
  ASSUME GovInv, NEW c \in Callers, Request(c)
  PROVE  GovInv'
<1> USE DEF pauseVars, checkpointVars, eventVars, boundVars, Call
<1>1. c \in Procs /\ c \notin Workers
  BY GovernorAssumption DEF Procs
<1>2. \A x \in {"publish", "cancel", "snapshot"} : x \in AllPCs /\ Fits(c, x)
  BY <1>1 DEF AllPCs, CallerPCs, PublishPCs, Fits
<1>3. CASE GovernorPause(c)
  <2>1. OfficeTypes' /\ paused' = TRUE
    BY <1>3 DEF GovernorPause, PauseFor, Reasons, GovInv, TypeOK, OfficeTypes
  <2>2. QED
    BY <1>1, <1>2, <1>3, <2>1, GotoInv DEF GovernorPause
<1>4. CASE GovernorStop(c)
  <2>1. OfficeTypes' /\ paused' = TRUE
    BY <1>4 DEF GovernorStop, PauseFor, Reasons, GovInv, TypeOK, OfficeTypes
  <2>2. QED
    BY <1>1, <1>2, <1>4, <2>1, GotoInv DEF GovernorStop
<1>5. CASE GovernorResume(c)
  <2>1. OfficeTypes'
    BY <1>5 DEF GovernorResume, GovInv, TypeOK, OfficeTypes
  <2>2. QED
    BY <1>1, <1>2, <1>5, <2>1, GotoInv DEF GovernorResume
<1>6. ASSUME NEW add \in [Gauges -> Bumps], GovernorResumeMore(c, add)
      PROVE  GovInv'
  <2>1. limit' \in Usage
    <3>1. \A g \in Gauges : add[g] \in Nat /\ limit[g] \in Nat
      BY <1>6, GovernorAssumption DEF GovInv, TypeOK, Usage
    <3>2. QED
      BY <1>6, <3>1 DEF GovernorResumeMore, Usage
  <2>2. OfficeTypes'
    BY <1>6, <2>1 DEF GovernorResumeMore, GovInv, TypeOK, OfficeTypes
  <2>3. QED
    BY <1>1, <1>2, <1>6, <2>2, GotoInv DEF GovernorResumeMore
<1>7. QED
  BY <1>3, <1>4, <1>5, <1>6 DEF Request

\* Resume starts a new checkpoint and, when it ends a pause, a new channel.
LEMMA ResumeInv ==
  ASSUME GovInv, NEW c \in Callers, Resume(c)
  PROVE  GovInv'
<1> USE DEF pauseVars, checkpointVars, eventVars, boundVars
<1>1. c \in Procs /\ "publish" \in AllPCs /\ Fits(c, "publish")
  BY DEF Procs, AllPCs, Fits, PublishPCs
<1>2. Moves(c, "publish")
  BY <1>1, GotoMoves DEF Resume, GovInv
<1>3. Forward
  BY DEF Forward, Resume, GovInv, TypeOK
<1>4. base' \in Usage
  BY <1>1 DEF Resume, GovInv, TypeOK, Proc
<1>5. OfficeTypes'
  BY <1>3, <1>4 DEF Resume, GovInv, TypeOK, OfficeTypes, Forward, Reasons
<1>6. \A g \in Gauges : used'[g] >= used[g]
  BY DEF Resume, GovInv, TypeOK, Usage
<1>7. GoodMove(c, "publish")
  BY <1>1, <1>2, <1>3, <1>6 DEF GoodMove
<1>8. OpenBelowCheckpoint' /\ CheckpointOverrun'
  BY InTurnFinite, InTurnFinitePrime, GovernorAssumption
  DEF Resume, OpenBelowCheckpoint, CheckpointOverrun
<1>9. QED
  BY <1>1, <1>5, <1>7, <1>8, MoveInv

\* Cancelling marks running turns; it moves no worker.
LEMMA CancelInv ==
  ASSUME GovInv, NEW c \in Callers, NEW B, CancelInFlight(c, B)
  PROVE  GovInv'
<1> USE DEF pauseVars, checkpointVars, eventVars, boundVars
<1>1. c \in Procs /\ c \notin Workers /\ "publish" \in AllPCs
  BY GovernorAssumption DEF Procs, AllPCs, PublishPCs
<1>2. ASSUME NEW p \in Procs
      PROVE  /\ proc'[p] \in Proc /\ proc'[p].gen = proc[p].gen /\ proc'[p].seen = proc[p].seen
             /\ proc'[p].pc = IF p = c THEN "publish" ELSE proc[p].pc
  <2>1. proc[p] \in Proc
    BY DEF GovInv, TypeOK
  <2>2. proc'[p] = IF p = c THEN [proc[p] EXCEPT !.pc = "publish"]
                   ELSE IF p \in B /\ proc[p].pc = "running"
                        THEN [proc[p] EXCEPT !.cancelled = TRUE]
                   ELSE proc[p]
    BY DEF CancelInFlight
  <2> DEFINE a == [proc[p] EXCEPT !.pc = "publish"]
             b == [proc[p] EXCEPT !.cancelled = TRUE]
  <2>3. a \in Proc /\ a.pc = "publish" /\ a.gen = proc[p].gen /\ a.seen = proc[p].seen
    BY <1>1, <2>1, ProcUpdates
  <2>4. b \in Proc /\ b.pc = proc[p].pc /\ b.gen = proc[p].gen /\ b.seen = proc[p].seen
    BY <2>1, ProcUpdates
  <2>5. proc'[p] = IF p = c THEN a ELSE IF p \in B /\ proc[p].pc = "running" THEN b ELSE proc[p]
    BY <2>2
  <2> HIDE DEF a, b
  <2>6. QED
    BY <2>1, <2>3, <2>4, <2>5
<1>3. proc' \in [Procs -> Proc]
  <2>1. proc' = [p \in Procs |-> proc'[p]]
    BY DEF CancelInFlight
  <2>2. QED
    BY <1>2, <2>1
<1>4. \A w \in Workers : proc'[w].pc = proc[w].pc /\ proc'[w].gen = proc[w].gen
  BY <1>1, <1>2 DEF Procs
<1>5. InTurn' = InTurn
  BY <1>4 DEF InTurn
<1>6. TypeOK'
  <2>1. \A w \in Workers : proc'[w].pc \in WorkerPCs \cup PublishPCs
    BY <1>4 DEF GovInv, TypeOK
  <2>2. \A d \in Callers : proc'[d].pc \in CallerPCs \cup PublishPCs
    BY <1>2 DEF GovInv, TypeOK, Procs, PublishPCs
  <2>3. QED
    BY <1>3, <2>1, <2>2 DEF CancelInFlight, GovInv, TypeOK
<1>7. NoLostWakeup'
  BY <1>4 DEF CancelInFlight, GovInv, NoLostWakeup
<1>8. SnapshotsAreOld'
  BY <1>2 DEF CancelInFlight, GovInv, SnapshotsAreOld
<1>9. OpenBelowCheckpoint' /\ CheckpointOverrun'
  BY <1>5 DEF CancelInFlight, GovInv, OpenBelowCheckpoint, CheckpointOverrun
<1>10. QED
  BY <1>6, <1>7, <1>8, <1>9 DEF GovInv

\* Steps that move no process at all: the browser, shutdown, stuttering.
LEMMA StillInv ==
  ASSUME GovInv, UNCHANGED <<pauseVars, generation, checkpointVars, limit, used, proc, boundVars>>,
         stopped' \in BOOLEAN, events' \in Seq(BOOLEAN), shown' \in BOOLEAN
  PROVE  GovInv'
<1> USE DEF pauseVars, checkpointVars, boundVars
<1>1. TypeOK'
  BY DEF GovInv, TypeOK
<1>2. InTurn' = InTurn
  BY DEF InTurn
<1>3. QED
  BY <1>1, <1>2 DEF GovInv, NoLostWakeup, SnapshotsAreOld, OpenBelowCheckpoint, CheckpointOverrun

\* Every step keeps the invariant.
LEMMA GovNext ==
  ASSUME GovInv, [Next]_vars
  PROVE  GovInv'
<1>1. ASSUME NEW w \in Workers, WorkerStep(w)
      PROVE  GovInv'
  <2>1. w \in Procs
    BY DEF Procs
  <2>2. QED
    BY <1>1, <2>1, GatePassInv, GateParkInv, WorkerQuietInv, RecordUsageInv, SnapshotInv,
       NoteTurnInv, PublishInv DEF WorkerStep
<1>2. ASSUME NEW c \in Callers, CallerStep(c) \/ Request(c)
      PROVE  GovInv'
  <2>1. c \in Procs
    BY DEF Procs
  <2>2. QED
    BY <1>2, <2>1, CancelInv, SnapshotInv, ResumeInv, PublishInv, RequestInv DEF CallerStep
<1>3. CASE Receive
  <2>1. events \in Seq(BOOLEAN) /\ events # << >> /\ stopped \in BOOLEAN
    BY <1>3 DEF Receive, GovInv, TypeOK
  <2>2. Head(events) \in BOOLEAN /\ Tail(events) \in Seq(BOOLEAN)
    BY <2>1, SeqTypes
  <2>3. events' \in Seq(BOOLEAN) /\ shown' \in BOOLEAN /\ stopped' \in BOOLEAN
    BY <1>3, <2>1, <2>2 DEF Receive
  <2>4. QED
    BY <1>3, <2>3, StillInv DEF Receive
<1>4. CASE CloseStop
  BY <1>4, StillInv DEF CloseStop, GovInv, TypeOK, eventVars
<1>5. CASE UNCHANGED vars
  BY <1>5, StillInv DEF vars, pauseVars, checkpointVars, boundVars, GovInv, TypeOK
<1>6. QED
  BY <1>1, <1>2, <1>3, <1>4, <1>5 DEF Next

-----------------------------------------------------------------------------
(* The theorems *)

\* The governor's invariant, for any number of workers and requests: no lost
\* wakeup in gate/resume, and the turn checkpoint's overrun is bounded by the
\* workers already past the gate.
THEOREM GovernorInvariant == Spec => []GovInv
<1>1. GovInv /\ [Next]_vars => GovInv'
  BY GovNext
<1>2. QED
  BY GovInit, <1>1, PTL DEF Spec

\* A worker parked in gate() is woken by the resume that ends its pause.
THEOREM WakeupsAreKept == Spec => []NoLostWakeup
<1>1. GovInv => NoLostWakeup
  BY DEF GovInv
<1>2. QED
  BY GovernorInvariant, <1>1, PTL

\* noteTurnComplete's checkpoint overshoots by fewer turns than there are workers.
THEOREM OverrunIsBounded == Spec => []CheckpointOverrun
<1>1. GovInv => CheckpointOverrun
  BY DEF GovInv
<1>2. QED
  BY GovernorInvariant, <1>1, PTL

\* A budget pause set by noteTurnComplete was earned: the stale snapshot never
\* shows more than what was used.
THEOREM BudgetPausesAreEarned == Spec => BudgetPauseIsEarned
<1> DEFINE Earned == ~paused /\ paused' /\ reason' = "budget" =>
                       \E g \in Gauges : limit[g] > 0 /\ used[g] - base[g] >= limit[g]
<1>1. GovInv /\ [Next]_vars => Earned
  <2> SUFFICES ASSUME GovInv, [Next]_vars, ~paused, paused', reason' = "budget"
               PROVE  \E g \in Gauges : limit[g] > 0 /\ used[g] - base[g] >= limit[g]
    OBVIOUS
  <2> USE DEF pauseVars
  <2>1. ASSUME NEW w \in Workers, NoteTurn(w)
        PROVE  \E g \in Gauges : limit[g] > 0 /\ used[g] - base[g] >= limit[g]
    <3>1. OverBudget(proc[w].seen)
      BY <2>1 DEF NoteTurn, PauseFor
    <3>2. PICK g \in Gauges : limit[g] > 0 /\ proc[w].seen[g] - base[g] >= limit[g]
      BY <3>1 DEF OverBudget
    <3>3. w \in Procs /\ proc[w].seen[g] <= used[g]
      BY <2>1 DEF NoteTurn, GovInv, SnapshotsAreOld, Procs
    <3>4. /\ used[g] \in Nat /\ base[g] \in Nat /\ limit[g] \in Nat
          /\ proc[w].seen[g] \in Nat
      BY <3>3 DEF GovInv, TypeOK, Proc, Usage
    <3>5. QED
      BY <3>2, <3>3, <3>4
  <2>2. ASSUME NEW c \in Callers, Request(c)
        PROVE  FALSE
    BY <2>2 DEF Request, GovernorPause, GovernorStop, GovernorResume, GovernorResumeMore, PauseFor
  <2>3. ASSUME NEW w \in Workers, WorkerStep(w), ~NoteTurn(w)
        PROVE  FALSE
    BY <2>3 DEF WorkerStep, GatePass, GatePark, GateWake, GateStop, BeginTurn, BeginNothing,
       TurnEnds, TurnCancelled, RecordUsage, Snapshot, Publish, Deliver
  <2>4. ASSUME NEW c \in Callers, CallerStep(c)
        PROVE  FALSE
    BY <2>4 DEF CallerStep, CancelInFlight, Snapshot, Resume, Publish, Deliver
  <2>5. ~Receive /\ ~CloseStop /\ ~UNCHANGED vars
    BY DEF Receive, CloseStop, vars
  <2>6. QED
    BY <2>1, <2>2, <2>3, <2>4, <2>5 DEF Next
<1>2. GovInv /\ [Next]_vars => [Earned]_vars
  BY <1>1
<1>3. QED
  BY GovernorInvariant, <1>2, PTL DEF Spec, BudgetPauseIsEarned

-----------------------------------------------------------------------------
(* The governor implements DispatchGate *)

\* Where DispatchGate sees a worker with program counter x.
PlaceOf(x) == IF x \in Inside THEN "inside" ELSE IF x = "exited" THEN "gone" ELSE "waiting"

\* A worker's move is a move in the abstract gate.
LEMMA PlaceMoves ==
  ASSUME NEW w \in Workers, NEW x, Moves(w, x)
  PROVE  /\ Place[w] = PlaceOf(proc[w].pc)
         /\ Place' = [Place EXCEPT ![w] = PlaceOf(x)]
         /\ PlaceOf(x) = PlaceOf(proc[w].pc) => Place' = Place
<1>1. \A v \in Workers : v # w => proc'[v] = proc[v]
  BY DEF Moves, Procs
<1>2. proc'[w].pc = x
  BY DEF Moves
<1>3. Place = [v \in Workers |-> PlaceOf(proc[v].pc)]
  BY DEF Place, InTurn, Inside, PlaceOf
<1>4. Place' = [v \in Workers |-> PlaceOf(proc'[v].pc)]
  BY DEF Place, InTurn, Inside, PlaceOf
<1> HIDE DEF PlaceOf
<1>5. QED
  BY <1>1, <1>2, <1>3, <1>4

\* A step that leaves every worker's place alone.
LEMMA PlaceStays ==
  ASSUME \A w \in Workers : proc'[w].pc = proc[w].pc
  PROVE  Place' = Place
BY DEF Place, InTurn

\* Every worker step is a step of the abstract gate or a stutter.
LEMMA WorkerRefines ==
  ASSUME GovInv, NEW w \in Workers, WorkerStep(w)
  PROVE  [Gate!Next]_(Gate!gateVars)
<1> USE DEF pauseVars
<1>1. w \in Procs /\ TypeOK /\ Home(w).pc = "gate" /\ \A x \in WorkerPCs : x \in AllPCs
  BY HomeType DEF Procs, GovInv, AllPCs
<1>2. ASSUME Return(w) PROVE Moves(w, "gate")
  BY <1>1, <1>2, ReturnMoves
<1>3. ASSUME NEW x \in WorkerPCs \cup PublishPCs, Goto(w, x) PROVE Moves(w, x)
  BY <1>1, <1>3, GotoMoves DEF AllPCs
<1>4. ASSUME NEW x, Moves(w, x), PlaceOf(x) = PlaceOf(proc[w].pc), UNCHANGED <<paused, stopped>>
      PROVE  UNCHANGED Gate!gateVars
  BY <1>4, PlaceMoves DEF Gate!gateVars
<1>5. CASE GatePass(w)
  <2>1. Moves(w, "through")
    BY <1>3, <1>5 DEF GatePass, WorkerPCs
  <2>2. Place[w] = "waiting" /\ Place' = [Place EXCEPT ![w] = "inside"]
    BY <1>5, <2>1, PlaceMoves DEF GatePass, PlaceOf, Inside
  <2>3. Gate!Enter(w)
    BY <1>5, <2>2 DEF GatePass, Gate!Enter
  <2>4. QED
    BY <2>3 DEF Gate!Next
<1>6. CASE GatePark(w)
  <2>1. Moves(w, "parked")
    <3> DEFINE a == [proc[w] EXCEPT !.pc = "parked"]
               r == [a EXCEPT !.gen = generation]
    <3>1. proc[w] \in Proc /\ "parked" \in AllPCs /\ generation \in Nat
      BY <1>1 DEF AllPCs, WorkerPCs, TypeOK
    <3>2. proc' = [proc EXCEPT ![w] = r]
      BY <1>6 DEF GatePark
    <3>3. a \in Proc /\ a.pc = "parked"
      BY <3>1, ProcUpdates
    <3> HIDE DEF a
    <3>4. r \in Proc /\ r.pc = "parked"
      BY <3>1, <3>3, ProcUpdates
    <3> HIDE DEF r
    <3>5. QED
      BY <1>1, <3>2, <3>4 DEF Moves, TypeOK
  <2>2. QED
    BY <1>4, <1>6, <2>1 DEF GatePark, PlaceOf, Inside
<1>7. CASE GateWake(w)
  BY <1>2, <1>4, <1>7 DEF GateWake, PlaceOf, Inside
<1>8. CASE GateStop(w)
  <2>1. Moves(w, "exited")
    BY <1>3, <1>8 DEF GateStop, WorkerPCs
  <2>2. Place[w] = "waiting" /\ Place' = [Place EXCEPT ![w] = "gone"]
    BY <1>8, <2>1, PlaceMoves DEF GateStop, PlaceOf, Inside
  <2>3. Gate!Quit(w)
    BY <1>8, <2>2 DEF GateStop, Gate!Quit
  <2>4. QED
    BY <2>3 DEF Gate!Next
<1>9. CASE BeginTurn(w) \/ TurnEnds(w)
  BY <1>3, <1>4, <1>9 DEF BeginTurn, TurnEnds, PlaceOf, Inside, WorkerPCs
<1>10. CASE BeginNothing(w) \/ TurnCancelled(w) \/ NoteTurn(w)
  <2>1. PICK x \in {"gate", "publish"} : Moves(w, x)
    BY <1>2, <1>3, <1>10 DEF BeginNothing, TurnCancelled, NoteTurn, PublishPCs
  <2>2. Place[w] = "inside" /\ Place' = [Place EXCEPT ![w] = "waiting"]
    BY <1>10, <2>1, PlaceMoves DEF BeginNothing, TurnCancelled, NoteTurn, PlaceOf, Inside
  <2>3. paused' \in {paused, TRUE} /\ UNCHANGED stopped
    BY <1>10 DEF BeginNothing, TurnCancelled, NoteTurn, PauseFor
  <2>4. Gate!Leave(w)
    BY <2>2, <2>3 DEF Gate!Leave
  <2>5. QED
    BY <2>4 DEF Gate!Next
<1>11. ASSUME NEW g \in Gauges, RecordUsage(w, g)
       PROVE  [Gate!Next]_(Gate!gateVars)
  BY <1>11, PlaceStays DEF RecordUsage, Gate!gateVars
<1>12. CASE Snapshot(w) \/ Publish(w) \/ Deliver(w)
  <2>1. /\ \A v \in Workers : v # w => proc'[v].pc = proc[v].pc
        /\ PlaceOf(proc'[w].pc) = PlaceOf(proc[w].pc)
    <3>1. CASE Deliver(w)
      BY <1>2, <3>1 DEF Deliver, Moves, PlaceOf, Inside, Procs
    <3>2. CASE Snapshot(w)
      <4>1. proc[w].pc = "ended"
        BY <1>1, <3>2 DEF Snapshot, TypeOK, WorkerPCs, PublishPCs
      <4> DEFINE a == [proc[w] EXCEPT !.seen = used]
      <4>2. proc'[w].pc = "note"
        <5>1. a \in Proc
          BY <1>1, ProcUpdates DEF TypeOK
        <5>2. proc'[w] = [a EXCEPT !.pc = "note"]
          BY <1>1, <3>2 DEF Snapshot, TypeOK
        <5> HIDE DEF a
        <5>3. QED
          BY <1>1, <5>1, <5>2, ProcUpdates DEF WorkerPCs
      <4>3. \A v \in Workers : v # w => proc'[v] = proc[v]
        BY <1>1, <3>2 DEF Snapshot, TypeOK, Procs
      <4>4. QED
        BY <4>1, <4>2, <4>3 DEF PlaceOf, Inside
    <3>3. CASE Publish(w)
      <4> DEFINE a == [proc[w] EXCEPT !.pc = "deliver"]
      <4>1. proc'[w].pc = "deliver"
        <5>1. a \in Proc /\ a.pc = "deliver"
          BY <1>1, ProcUpdates DEF TypeOK, AllPCs, PublishPCs
        <5>2. proc'[w] = [a EXCEPT !.status = paused] /\ paused \in BOOLEAN
          BY <1>1, <3>3 DEF Publish, TypeOK
        <5> HIDE DEF a
        <5>3. QED
          BY <5>1, <5>2, ProcUpdates
      <4>2. \A v \in Workers : v # w => proc'[v] = proc[v]
        BY <1>1, <3>3 DEF Publish, TypeOK, Procs
      <4>3. QED
        BY <3>3, <4>1, <4>2 DEF Publish, PlaceOf, Inside
    <3>4. QED
      BY <1>12, <3>1, <3>2, <3>3
  <2>2. Place' = Place
    BY <2>1 DEF Place, InTurn, PlaceOf, Inside
  <2>3. UNCHANGED <<paused, stopped>>
    BY <1>12 DEF Snapshot, Publish, Deliver
  <2>4. QED
    BY <2>2, <2>3 DEF Gate!gateVars
<1>13. QED
  BY <1>5, <1>6, <1>7, <1>8, <1>9, <1>10, <1>11, <1>12 DEF WorkerStep

\* A request or a step of its handler shuts or opens the gate, or stutters.
LEMMA CallerRefines ==
  ASSUME GovInv, NEW c \in Callers, CallerStep(c) \/ Request(c)
  PROVE  [Gate!Next]_(Gate!gateVars)
<1> USE DEF pauseVars
<1>1. \A w \in Workers : w # c
  BY GovernorAssumption
<1>2. \A w \in Workers : w \in Procs
  BY DEF Procs
<1>3. Place' = Place
  <2>1. CASE \E B : CancelInFlight(c, B)
    <3>1. ASSUME NEW w \in Workers PROVE proc'[w].pc = proc[w].pc
      <4>1. proc[w] \in Proc
        BY <1>2 DEF GovInv, TypeOK
      <4>2. [proc[w] EXCEPT !.cancelled = TRUE].pc = proc[w].pc
        BY <4>1, ProcUpdates
      <4>3. proc'[w] = proc[w] \/ proc'[w] = [proc[w] EXCEPT !.cancelled = TRUE]
        BY <1>1, <1>2, <2>1 DEF CancelInFlight
      <4>4. QED
        BY <4>2, <4>3
    <3>2. QED
      BY <3>1, PlaceStays
  <2>2. CASE ~\E B : CancelInFlight(c, B)
    <3>1. \A w \in Workers : proc'[w] = proc[w]
      BY <1>1, <1>2, <2>2 DEF CallerStep, Request, Snapshot, Resume, Publish, Deliver, Goto,
         Return, GovernorPause, GovernorStop, GovernorResume, GovernorResumeMore, GovInv, TypeOK
    <3>2. QED
      BY <3>1, PlaceStays
  <2>3. QED
    BY <2>1, <2>2
<1>4. stopped' = stopped /\ (paused' = paused \/ paused' = TRUE \/ paused' = FALSE)
  BY DEF CallerStep, Request, CancelInFlight, Snapshot, Resume, Publish, Deliver, PauseFor,
     GovernorPause, GovernorStop, GovernorResume, GovernorResumeMore
<1>5. Gate!Shut \/ Gate!Open \/ UNCHANGED Gate!gateVars
  BY <1>3, <1>4 DEF Gate!Shut, Gate!Open, Gate!gateVars
<1>6. QED
  BY <1>5 DEF Gate!Next

\* The governor's mutex-and-channel gate implements the abstract gate: no worker
\* enters while the session is paused, and none gives up except on shutdown.
THEOREM GovernorImplementsGate == Spec => Gate!Spec
<1>1. Init => Gate!Init
  <2> SUFFICES ASSUME Init PROVE Gate!Init
    OBVIOUS
  <2>1. \A w \in Workers : proc[w].pc = "gate"
    BY HomeType DEF Init, Procs
  <2>2. Place = [w \in Workers |-> "waiting"]
    BY <2>1 DEF Place, InTurn
  <2>3. QED
    BY <2>2 DEF Init, Gate!Init
<1>2. GovInv /\ [Next]_vars => [Gate!Next]_(Gate!gateVars)
  <2> SUFFICES ASSUME GovInv, [Next]_vars PROVE [Gate!Next]_(Gate!gateVars)
    OBVIOUS
  <2>1. CASE Receive \/ CloseStop \/ UNCHANGED vars
    <3>1. Place' = Place
      BY <2>1, PlaceStays DEF Receive, CloseStop, vars
    <3>2. Gate!Close \/ UNCHANGED Gate!gateVars
      BY <2>1, <3>1 DEF Receive, CloseStop, vars, pauseVars, Gate!Close, Gate!gateVars
    <3>3. QED
      BY <3>2 DEF Gate!Next
  <2>2. QED
    BY <2>1, WorkerRefines, CallerRefines DEF Next
<1>3. QED
  BY GovernorInvariant, <1>1, <1>2, PTL DEF Spec, Gate!Spec

\* The governor's state keeps its type.
THEOREM GovernorTypes == Spec => []TypeOK
<1>1. GovInv => TypeOK
  BY DEF GovInv
<1> QED  BY <1>1, GovernorInvariant, PTL

=============================================================================
