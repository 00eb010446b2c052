------------------------ MODULE HeadlessQueueProofs ------------------------
(***************************************************************************)
(* Theorems about HeadlessQueue for every set of bots, tasks and workers   *)
(* and every pair of caps.  QueueInv is inductive: NoStrandedWork needs    *)
(* UncappedNeverParks (a finish respawns nothing without a cap), and       *)
(* FlagHasWorker and ActiveOwned say that the goroutines it counts on      *)
(* exist.                                                                  *)
(***************************************************************************)
EXTENDS HeadlessQueue, FiniteSetTheorems, SequenceTheorems, TLAPS

QueueInv ==
  TypeOK /\ FlagHasWorker /\ ActiveOwned /\ NoStrandedWork /\ UncappedNeverParks

-----------------------------------------------------------------------------
(* The operators the model is built from *)

\* laneForTurn always resolves to a lane of the bot.
LEMMA LaneForType ==
  ASSUME TypeOK, NEW b \in Bots, NEW k \in Tasks \cup {NoTask}
  PROVE  LaneFor(b, k) \in Lanes
BY ConstantsAssumption DEF TypeOK, LaneFor, Lanes

\* Turns built by the queue are turns.
LEMMA TurnTypes ==
  /\ NoTurn \in Turn
  /\ \A i \in Nat, k \in Tasks \cup {NoTask}, h \in BOOLEAN : NewTurn(i, k, h) \in Turn
  /\ \A t \in Turn : [t EXCEPT !.attempts = @ + 1] \in Turn
  /\ \A t \in Turn : [t EXCEPT !.retries = @ + 1] \in Turn
<1>1. NoTurn \in Turn
  BY DEF NoTurn, Turn
<1>2. ASSUME NEW i \in Nat, NEW k \in Tasks \cup {NoTask}, NEW h \in BOOLEAN
      PROVE  NewTurn(i, k, h) \in Turn
  BY DEF NoTurn, NewTurn, Turn
<1>3. ASSUME NEW t \in Turn
      PROVE  [t EXCEPT !.attempts = @ + 1] \in Turn
  BY DEF Turn
<1>4. ASSUME NEW t \in Turn
      PROVE  [t EXCEPT !.retries = @ + 1] \in Turn
  BY DEF Turn
<1>5. QED
  BY <1>1, <1>2, <1>3, <1>4

\* The goroutine records the actions write are goroutine records.
LEMMA GoroutineTypes ==
  /\ Idle \in Goroutine
  /\ \A l \in Lanes : Fresh(l) \in Goroutine /\ Fresh(l).pc = "top" /\ Fresh(l).lane = l
  /\ Idle.pc = "none"
<1>1. <<Lead, NoTask>> \in Lanes
  BY ConstantsAssumption DEF Lanes
<1>2. QED
  BY <1>1, TurnTypes DEF Idle, Fresh, Goroutine, PCs

\* Updating a field of a goroutine record.
LEMMA GoroutineUpdates ==
  ASSUME NEW r \in Goroutine
  PROVE  /\ \A p \in PCs : /\ [r EXCEPT !.pc = p] \in Goroutine
                           /\ [r EXCEPT !.pc = p].pc = p /\ [r EXCEPT !.pc = p].lane = r.lane
         /\ \A t \in Turn : /\ [r EXCEPT !.turn = t] \in Goroutine
                            /\ [r EXCEPT !.turn = t].pc = r.pc
                            /\ [r EXCEPT !.turn = t].lane = r.lane
         /\ \A c \in BOOLEAN : /\ [r EXCEPT !.cancelled = c] \in Goroutine
                               /\ [r EXCEPT !.cancelled = c].pc = r.pc
                               /\ [r EXCEPT !.cancelled = c].lane = r.lane
         /\ \A c \in BOOLEAN : /\ [r EXCEPT !.count = c] \in Goroutine
                               /\ [r EXCEPT !.count = c].pc = r.pc
                               /\ [r EXCEPT !.count = c].lane = r.lane
<1>1. ASSUME NEW p \in PCs
      PROVE  /\ [r EXCEPT !.pc = p] \in Goroutine
             /\ [r EXCEPT !.pc = p].pc = p /\ [r EXCEPT !.pc = p].lane = r.lane
  BY DEF Goroutine
<1>2. ASSUME NEW t \in Turn
      PROVE  /\ [r EXCEPT !.turn = t] \in Goroutine
             /\ [r EXCEPT !.turn = t].pc = r.pc /\ [r EXCEPT !.turn = t].lane = r.lane
  BY DEF Goroutine
<1>3. ASSUME NEW c \in BOOLEAN
      PROVE  /\ [r EXCEPT !.cancelled = c] \in Goroutine
             /\ [r EXCEPT !.cancelled = c].pc = r.pc /\ [r EXCEPT !.cancelled = c].lane = r.lane
  BY DEF Goroutine
<1>4. ASSUME NEW c \in BOOLEAN
      PROVE  /\ [r EXCEPT !.count = c] \in Goroutine
             /\ [r EXCEPT !.count = c].pc = r.pc /\ [r EXCEPT !.count = c].lane = r.lane
  BY DEF Goroutine
<1>5. QED
  BY <1>1, <1>2, <1>3, <1>4

\* Replacing an entry of a queue keeps a queue of the same length.
LEMMA ExceptQueue ==
  ASSUME NEW q \in Seq(Turn), NEW i, NEW t \in Turn
  PROVE  /\ [q EXCEPT ![i] = t] \in Seq(Turn)
         /\ q # << >> => [q EXCEPT ![i] = t] # << >>
<1>1. CASE i \in 1 .. Len(q)
  <2>1. [q EXCEPT ![i] = t] \in Seq(Turn) /\ Len([q EXCEPT ![i] = t]) = Len(q)
    BY <1>1, ExceptSeq
  <2>2. QED
    BY <2>1, EmptySeq
<1>2. CASE i \notin 1 .. Len(q)
  <2>1. DOMAIN q = 1 .. Len(q)
    BY LenProperties
  <2>2. [q EXCEPT ![i] = t] = q
    BY <1>2, <2>1
  <2>3. QED
    BY <2>2
<1>3. QED
  BY <1>1, <1>2

\* A lane over the caps has a registered turn to wait for.
LEMMA FullHasActive ==
  ASSUME NEW l \in Lanes, NEW S \in SUBSET Lanes, NEW R \in SUBSET Lanes, R = {}, S = {}
  PROVE  FitsCaps(Cardinality(R) + Cardinality(S),
                  Cardinality(LanesOf(Slug(l), R)) + Cardinality(LanesOf(Slug(l), S)))
<1>1. LanesOf(Slug(l), R) = {} /\ LanesOf(Slug(l), S) = {}
  BY DEF LanesOf
<1>2. Cardinality({}) = 0
  BY FS_EmptySet
<1>3. GlobalCap \in Nat /\ PerBotCap \in Nat
  BY ConstantsAssumption
<1>4. FitsCaps(0 + 0, 0 + 0)
  BY <1>3 DEF FitsCaps
<1>5. QED
  BY <1>1, <1>2, <1>4

-----------------------------------------------------------------------------
(* Enqueueing *)

\* What claiming a lane does to the goroutines g of the caller.
Claims(g, l) ==
  /\ workers' \in [Lanes -> BOOLEAN] /\ gor' \in [Workers -> Goroutine]
  /\ workers'[l]
  /\ \A m \in Lanes : m # l => workers'[m] = workers[m]
  /\ \A v \in Workers : g[v].pc # "none" => gor'[v].pc = g[v].pc /\ gor'[v].lane = g[v].lane
  /\ workers[l] \/ \E v \in Workers : gor'[v].pc = "top" /\ gor'[v].lane = l

\* StartWorker claims the lane and leaves every other goroutine alone.
LEMMA StartWorkerClaims ==
  ASSUME TypeOK, NEW g \in [Workers -> Goroutine], NEW l \in Lanes, StartWorker(g, l)
  PROVE  Claims(g, l)
<1>1. CASE workers[l]
  BY <1>1 DEF StartWorker, Claims, TypeOK
<1>2. CASE ~workers[l]
  <2>1. PICK w \in Workers : g[w].pc = "none" /\ gor' = [g EXCEPT ![w] = Fresh(l)]
    BY <1>2 DEF StartWorker
  <2>2. workers' = [workers EXCEPT ![l] = TRUE]
    BY <1>2 DEF StartWorker
  <2>3. workers' \in [Lanes -> BOOLEAN] /\ workers'[l]
        /\ \A m \in Lanes : m # l => workers'[m] = workers[m]
    BY <2>2 DEF TypeOK
  <2>4. gor' \in [Workers -> Goroutine]
    BY <2>1, GoroutineTypes
  <2>5. gor'[w].pc = "top" /\ gor'[w].lane = l
    BY <2>1, GoroutineTypes
  <2>6. \A v \in Workers : g[v].pc # "none" => gor'[v].pc = g[v].pc /\ gor'[v].lane = g[v].lane
    BY <2>1
  <2>7. QED
    BY <2>3, <2>4, <2>5, <2>6 DEF Claims
<1>3. QED
  BY <1>1, <1>2

\* Cancelling a lane's turn moves no goroutine.
LEMMA CancelActiveKeeps ==
  ASSUME NEW g \in [Workers -> Goroutine], NEW l \in Lanes
  PROVE  /\ CancelActive(g, l) \in [Workers -> Goroutine]
         /\ \A v \in Workers : CancelActive(g, l)[v].pc = g[v].pc
                               /\ CancelActive(g, l)[v].lane = g[v].lane
<1>1. CASE active[l] = NoWorker
  BY <1>1 DEF CancelActive
<1>2. CASE active[l] # NoWorker
  BY <1>2 DEF CancelActive, Goroutine
<1>3. QED
  BY <1>1, <1>2

\* Every path of enqueueHeadlessCodexTurnRecord: a queue that changes is not
\* empty afterwards and its lane is served; nothing else is disturbed.
EnqueueEffect(g) ==
  /\ queues' \in [Lanes -> Seq(Turn)] /\ workers' \in [Lanes -> BOOLEAN]
  /\ deferredLead' \in Turn /\ gor' \in [Workers -> Goroutine]
  /\ \A v \in Workers : g[v].pc # "none" => gor'[v].pc = g[v].pc /\ gor'[v].lane = g[v].lane
  /\ \A m \in Lanes : \/ queues'[m] = queues[m] /\ workers'[m] = workers[m]
                      \/ queues'[m] # << >> /\ workers'[m]
  /\ \A m \in Lanes : workers'[m] =>
       workers[m] \/ \E v \in Workers : gor'[v].pc = "top" /\ gor'[v].lane = m

\* Putting work into a lane and claiming it is an enqueue effect.
LEMMA ClaimEffect ==
  ASSUME TypeOK, NEW g \in [Workers -> Goroutine], NEW l \in Lanes, Claims(g, l),
         NEW q \in Seq(Turn), q # << >>, queues' = [queues EXCEPT ![l] = q],
         deferredLead' = deferredLead
  PROVE  EnqueueEffect(g)
BY DEF TypeOK, Claims, EnqueueEffect

\* Whatever branch enqueueHeadlessCodexTurnRecord takes, it is one.
LEMMA EnqueueStep ==
  ASSUME TypeOK, NEW g \in [Workers -> Goroutine], NEW b \in Bots, NEW t \in Turn,
         Enqueue(g, b, t)
  PROVE  EnqueueEffect(g)
<1> DEFINE l == LaneFor(b, t.task)
<1>1. l \in Lanes /\ queues[l] \in Seq(Turn)
  BY LaneForType DEF Turn, TypeOK
<1> HIDE DEF l
<1>2. CASE EnqueueDrop(g, b, t)
  BY <1>2 DEF EnqueueDrop, TypeOK, EnqueueEffect
<1>3. CASE EnqueueReplace(g, b, t)
  <2>1. queues' = [queues EXCEPT ![l] = ReplaceFirst(queues[l], t)] /\ StartWorker(g, l)
        /\ Replaceable(queues[l], t) /\ deferredLead' = deferredLead
    BY <1>3, <1>1 DEF EnqueueReplace, l, TypeOK
  <2>2. queues[l] # << >>
    BY <2>1, <1>1 DEF Replaceable, SameTask
  <2>3. ReplaceFirst(queues[l], t) \in Seq(Turn) /\ ReplaceFirst(queues[l], t) # << >>
    BY <1>1, <2>2, ExceptQueue DEF ReplaceFirst
  <2>4. Claims(g, l)
    BY <1>1, <2>1, StartWorkerClaims
  <2>5. QED
    BY <1>1, <2>1, <2>3, <2>4, ClaimEffect
<1>4. CASE EnqueueHold(g, b, t)
  BY <1>4 DEF EnqueueHold, TypeOK, EnqueueEffect
<1>5. CASE EnqueueAtLeadCap(g, b, t)
  <2>1. CASE Urgent(b, t) \/ t.human
    <3>1. queues' = [queues EXCEPT ![l][Len(queues[l])] = t] /\ StartWorker(g, l)
          /\ Len(queues[l]) >= 1 /\ deferredLead' = deferredLead
      BY <1>5, <2>1 DEF EnqueueAtLeadCap, l, leadMaxPending
    <3> DEFINE q == [queues[l] EXCEPT ![Len(queues[l])] = t]
    <3>2. queues' = [queues EXCEPT ![l] = q]
      BY <3>1
    <3>3. queues[l] # << >>
      BY <3>1, <1>1
    <3>4. q \in Seq(Turn) /\ q # << >>
      BY <1>1, <3>3, ExceptQueue
    <3>5. Claims(g, l)
      BY <1>1, <3>1, StartWorkerClaims
    <3> HIDE DEF q
    <3>6. QED
      BY <1>1, <3>1, <3>2, <3>4, <3>5, ClaimEffect
  <2>2. CASE ~(Urgent(b, t) \/ t.human)
    BY <1>5, <2>2 DEF EnqueueAtLeadCap, TypeOK, EnqueueEffect
  <2>3. QED
    BY <2>1, <2>2
<1>6. ASSUME NEW stale \in BOOLEAN, EnqueueAppend(g, b, t, stale)
      PROVE  EnqueueEffect(g)
  <2> DEFINE h == IF t.human \/ stale THEN CancelActive(g, l) ELSE g
  <2>1. queues' = [queues EXCEPT ![l] = Append(queues[l], t)] /\ StartWorker(h, l)
        /\ deferredLead' = deferredLead
    BY <1>6, <1>1 DEF EnqueueAppend, l, TypeOK
  <2>2. h \in [Workers -> Goroutine]
        /\ \A v \in Workers : h[v].pc = g[v].pc /\ h[v].lane = g[v].lane
    BY <1>1, CancelActiveKeeps
  <2>3. Append(queues[l], t) \in Seq(Turn) /\ Append(queues[l], t) # << >>
    BY <1>1, AppendProperties
  <2> HIDE DEF h
  <2>4. Claims(h, l)
    BY <1>1, <2>1, <2>2, StartWorkerClaims
  <2>5. Claims(g, l)
    BY <2>2, <2>4 DEF Claims
  <2>6. QED
    BY <1>1, <2>1, <2>3, <2>5, ClaimEffect
<1>7. QED
  BY <1>2, <1>3, <1>4, <1>5, <1>6 DEF Enqueue

-----------------------------------------------------------------------------
(* The invariant *)

\* g is gor after a step of one goroutine that stays in its lane, does not end
\* and does not leave its turn.
Advances(g) ==
  /\ g \in [Workers -> Goroutine]
  /\ \A v \in Workers : gor[v].pc # "none" => g[v].pc # "none" /\ g[v].lane = gor[v].lane
  /\ \A v \in Workers : gor[v].pc \in {"running", "finish"} => g[v].pc \in {"running", "finish"}

\* Enqueueing preserves the invariant, whoever calls it.
LEMMA EnqueuePreserves ==
  ASSUME QueueInv, NEW g, Advances(g), EnqueueEffect(g),
         active' = active, stopped' = stopped
  PROVE  FlagHasWorker' /\ ActiveOwned' /\ NoStrandedWork' /\ UncappedNeverParks'
<1> USE DEF QueueInv
<1>1. FlagHasWorker'
  <2>1. SUFFICES ASSUME NEW m \in Lanes, workers'[m]
                 PROVE  \E w \in Workers : gor'[w].pc # "none" /\ gor'[w].lane = m
    BY DEF FlagHasWorker
  <2>2. CASE workers[m]
    <3>1. PICK w \in Workers : gor[w].pc # "none" /\ gor[w].lane = m
      BY <2>2 DEF FlagHasWorker
    <3>a. g[w].pc # "none" /\ g[w].lane = m
      BY <3>1 DEF Advances
    <3>2. gor'[w].pc # "none" /\ gor'[w].lane = m
      BY <3>a DEF EnqueueEffect
    <3>3. QED
      BY <3>2
  <2>3. CASE ~workers[m]
    BY <2>1, <2>3 DEF EnqueueEffect
  <2>4. QED
    BY <2>2, <2>3
<1>2. ActiveOwned'
  <2>1. SUFFICES ASSUME NEW m \in Lanes, active[m] # NoWorker
                 PROVE  gor'[active[m]].lane = m /\ gor'[active[m]].pc \in {"running", "finish"}
    BY DEF ActiveOwned
  <2>2. active[m] \in Workers /\ gor[active[m]].lane = m
        /\ gor[active[m]].pc \in {"running", "finish"}
    BY <2>1 DEF ActiveOwned, TypeOK
  <2>a. g[active[m]].lane = m /\ g[active[m]].pc \in {"running", "finish"}
    BY <2>2 DEF Advances
  <2>3. QED
    BY <2>2, <2>a DEF EnqueueEffect
<1>3. \A m \in Lanes : m \in Parked' => m \in Parked
  BY DEF Parked, EnqueueEffect
<1>4. NoStrandedWork'
  <2>1. ASSUME NEW m \in Lanes, workers[m], queues[m] # << >>
        PROVE  workers'[m] /\ queues'[m] # << >>
    BY <2>1 DEF EnqueueEffect
  <2>2. ActiveLanes' = ActiveLanes
    BY DEF ActiveLanes
  <2>3. Parked = {} => Parked' = {}
    BY <1>3 DEF Parked
  <2>4. QED
    BY <2>1, <2>2, <2>3 DEF NoStrandedWork
<1>5. UncappedNeverParks'
  BY <1>3 DEF UncappedNeverParks, Parked
<1>6. QED
  BY <1>1, <1>2, <1>4, <1>5

\* A step that leaves the queues and the slots alone, and moves goroutines only
\* as Advances allows.
LEMMA QuietPreserves ==
  ASSUME QueueInv, Advances(gor'), UNCHANGED <<queues, workers, active, stopped>>
  PROVE  FlagHasWorker' /\ ActiveOwned' /\ NoStrandedWork' /\ UncappedNeverParks'
<1> USE DEF QueueInv
<1>1. FlagHasWorker'
  BY DEF FlagHasWorker, Advances
<1>2. ActiveOwned'
  BY DEF ActiveOwned, Advances, TypeOK
<1>3. NoStrandedWork' /\ UncappedNeverParks'
  BY DEF NoStrandedWork, UncappedNeverParks, Parked, ActiveLanes
<1>4. QED
  BY <1>1, <1>2, <1>3

\* An empty office satisfies the invariant.
LEMMA InitInv == Init => QueueInv
<1> SUFFICES ASSUME Init PROVE QueueInv
  OBVIOUS
<1>1. TypeOK
  BY ConstantsAssumption, GoroutineTypes, TurnTypes, EmptySeq DEF Init, TypeOK
<1>2. FlagHasWorker /\ ActiveOwned
  BY DEF Init, FlagHasWorker, ActiveOwned
<1>3. NoStrandedWork /\ UncappedNeverParks
  BY DEF Init, NoStrandedWork, UncappedNeverParks, Parked
<1>4. QED
  BY <1>1, <1>2, <1>3 DEF QueueInv

\* A notification keeps the invariant: its caller is outside the queue.
LEMMA NotifyInv ==
  ASSUME QueueInv, NEW in \in Inputs, Notify(in[1], in[2], in[3])
  PROVE  QueueInv'
<1> USE DEF QueueInv
<1>1. in[1] \in Bots /\ in[2] \in Tasks \cup {NoTask} /\ in[3] \in BOOLEAN
  BY ConstantsAssumption
<1>2. NewTurn(nextId, in[2], in[3]) \in Turn
  BY <1>1, TurnTypes DEF TypeOK
<1>3. EnqueueEffect(gor)
  BY <1>1, <1>2, EnqueueStep DEF Notify, TypeOK
<1>4. Advances(gor)
  BY DEF Advances, TypeOK
<1>5. FlagHasWorker' /\ ActiveOwned' /\ NoStrandedWork' /\ UncappedNeverParks'
  BY <1>3, <1>4, EnqueuePreserves DEF Notify, controlVars
<1>6. TypeOK'
  BY <1>3 DEF Notify, TypeOK, EnqueueEffect, taskVars, controlVars
<1>7. QED
  BY <1>5, <1>6

\* A worker that leaves on stop takes its flag with it.
LEMMA ExitOnStopInv ==
  ASSUME QueueInv, NEW w \in Workers, ExitOnStop(w)
  PROVE  QueueInv'
<1> USE DEF QueueInv
<1>1. gor[w].lane \in Lanes
  BY DEF TypeOK, Goroutine
<1>2. TypeOK'
  BY <1>1, GoroutineTypes DEF ExitOnStop, TypeOK, taskVars, controlVars
<1>3. FlagHasWorker'
  <2>1. SUFFICES ASSUME NEW m \in Lanes, workers'[m]
                 PROVE  \E v \in Workers : gor'[v].pc # "none" /\ gor'[v].lane = m
    BY DEF FlagHasWorker
  <2>2. m # gor[w].lane /\ workers[m]
    BY <1>1, <2>1 DEF ExitOnStop, TypeOK
  <2>3. PICK v \in Workers : gor[v].pc # "none" /\ gor[v].lane = m
    BY <2>2 DEF FlagHasWorker
  <2>4. v # w
    BY <2>2, <2>3
  <2>5. gor'[v] = gor[v]
    BY <2>4 DEF ExitOnStop, TypeOK
  <2>6. QED
    BY <2>3, <2>5
<1>4. ActiveOwned'
  <2>1. SUFFICES ASSUME NEW m \in Lanes, active[m] # NoWorker
                 PROVE  gor'[active[m]].lane = m /\ gor'[active[m]].pc \in {"running", "finish"}
    BY DEF ActiveOwned, ExitOnStop
  <2>2. active[m] # w
    BY <2>1 DEF ActiveOwned, ExitOnStop
  <2>3. active[m] \in Workers /\ gor'[active[m]] = gor[active[m]]
    BY <2>1, <2>2 DEF ExitOnStop, TypeOK
  <2>4. QED
    BY <2>1, <2>3 DEF ActiveOwned
<1>5. NoStrandedWork' /\ UncappedNeverParks'
  BY DEF ExitOnStop, controlVars, NoStrandedWork, UncappedNeverParks
<1>6. QED
  BY <1>2, <1>3, <1>4, <1>5

\* Passing the governor's gate changes nothing the queue relies on.
LEMMA PassGateInv ==
  ASSUME QueueInv, NEW w \in Workers, PassGate(w)
  PROVE  QueueInv'
<1> USE DEF QueueInv
<1> DEFINE r == [gor[w] EXCEPT !.pc = "begin"]
<1>a. gor \in [Workers -> Goroutine] /\ gor[w] \in Goroutine /\ "begin" \in PCs
  BY DEF TypeOK, PCs
<1>b. r \in Goroutine /\ r.pc = "begin" /\ r.lane = gor[w].lane
  BY <1>a, GoroutineUpdates
<1>c. gor' = [gor EXCEPT ![w] = r] /\ gor[w].pc = "top"
  BY DEF PassGate
<1> HIDE DEF r
<1>1. gor' \in [Workers -> Goroutine]
  BY <1>a, <1>b, <1>c
<1>2. Advances(gor')
  BY <1>1, <1>a, <1>b, <1>c DEF Advances
<1>3. TypeOK'
  BY <1>1 DEF PassGate, TypeOK, taskVars, controlVars
<1>4. QED
  BY <1>2, <1>3, QuietPreserves DEF PassGate, controlVars

\* A worker that gives its lane up leaves work behind only when the caps are
\* full, and then some registered turn is there to re-spawn it.
LEMMA BeginNothingInv ==
  ASSUME QueueInv, NEW w \in Workers, BeginNothing(w)
  PROVE  QueueInv'
<1> USE DEF QueueInv
<1> DEFINE l == gor[w].lane
<1>1. l \in Lanes
  BY DEF TypeOK, Goroutine
<1>2. /\ gor[w].pc = "begin"
      /\ workers' = [workers EXCEPT ![l] = FALSE]
      /\ gor' = [gor EXCEPT ![w].pc = "recheck", ![w].count = FALSE]
      /\ UNCHANGED <<queues, active, deferredLead, status, prepared, paused, ctxDone, stopped, nextId>>
  BY DEF BeginNothing, taskVars, controlVars
<1> DEFINE p == [gor[w] EXCEPT !.pc = "recheck"]
           r == [p EXCEPT !.count = FALSE]
<1>b. gor' = [gor EXCEPT ![w] = r]
  BY <1>2
<1>c. p \in Goroutine /\ p.pc = "recheck" /\ p.lane = l
  <2>1. gor[w] \in Goroutine /\ "recheck" \in PCs
    BY DEF TypeOK, PCs
  <2>2. QED
    BY <2>1, GoroutineUpdates
<1> HIDE DEF p
<1>a. r \in Goroutine /\ r.pc = "recheck" /\ r.lane = l
  BY <1>c, GoroutineUpdates
<1> HIDE DEF r
<1>3. gor' \in [Workers -> Goroutine]
  BY <1>a, <1>b DEF TypeOK
<1>4. TypeOK'
  BY <1>1, <1>2, <1>3 DEF TypeOK
<1>5. Advances(gor')
  BY <1>2, <1>3, <1>a, <1>b DEF Advances, TypeOK
<1>6. FlagHasWorker'
  <2>1. \A m \in Lanes : workers'[m] => workers[m]
    BY <1>1, <1>2 DEF TypeOK
  <2>2. QED
    BY <2>1, <1>5 DEF FlagHasWorker, Advances
<1>7. ActiveOwned'
  BY <1>2, <1>5 DEF ActiveOwned, Advances, TypeOK
<1>8. stopped \/ queues[l] = << >> \/ ~MayStart(l)
  BY DEF BeginNothing
<1>9. ~MayStart(l) => ActiveLanes # {} /\ (GlobalCap > 0 \/ PerBotCap > 0)
  <2>1. SUFFICES ASSUME ActiveLanes = {} \/ ~(GlobalCap > 0 \/ PerBotCap > 0)
                 PROVE  MayStart(l)
    OBVIOUS
  <2>2. CASE ActiveLanes = {}
    <3>1. LanesOf(Slug(l), ActiveLanes) = {} /\ Cardinality({}) = 0
      BY <2>2, FS_EmptySet DEF LanesOf
    <3>2. QED
      BY <2>2, <3>1, ConstantsAssumption DEF MayStart, FitsCaps
  <2>3. CASE ~(GlobalCap > 0 \/ PerBotCap > 0)
    BY <2>3 DEF MayStart, FitsCaps
  <2>4. QED
    BY <2>1, <2>2, <2>3
<1>10. ActiveLanes' = ActiveLanes
  BY <1>2 DEF ActiveLanes
<1>11. ASSUME queues[l] = << >>
       PROVE  /\ Parked' = Parked
              /\ \A m \in Lanes : workers[m] /\ queues[m] # << >> =>
                                  workers'[m] /\ queues'[m] # << >>
  BY <1>1, <1>2, <1>11 DEF Parked, TypeOK
<1>12. NoStrandedWork'
  BY <1>2, <1>8, <1>9, <1>10, <1>11 DEF NoStrandedWork
<1>13. UncappedNeverParks'
  BY <1>2, <1>8, <1>9, <1>11 DEF UncappedNeverParks
<1>14. QED
  BY <1>4, <1>6, <1>7, <1>12, <1>13

\* A registered turn covers the work that is parked.
LEMMA BeginTurnInv ==
  ASSUME QueueInv, NEW w \in Workers, BeginTurn(w)
  PROVE  QueueInv'
<1> USE DEF QueueInv
<1> DEFINE l == gor[w].lane
<1>1. l \in Lanes /\ w # NoWorker /\ queues[l] \in Seq(Turn) /\ queues[l] # << >>
  BY ConstantsAssumption DEF BeginTurn, TypeOK, Goroutine
<1>2. /\ gor[w].pc = "begin"
      /\ queues' = [queues EXCEPT ![l] = Tail(queues[l])]
      /\ active' = [active EXCEPT ![l] = w]
      /\ gor' = [gor EXCEPT ![w].pc = "running", ![w].turn = Head(queues[l]),
                            ![w].cancelled = ctxDone]
      /\ UNCHANGED <<workers, deferredLead, status, prepared, paused, ctxDone, stopped, nextId>>
  BY <1>1 DEF BeginTurn, taskVars, controlVars, TypeOK
<1>3. Head(queues[l]) \in Turn /\ Tail(queues[l]) \in Seq(Turn)
  BY <1>1, HeadTailProperties
<1> DEFINE p == [gor[w] EXCEPT !.pc = "running"]
           q == [p EXCEPT !.turn = Head(queues[l])]
           r == [q EXCEPT !.cancelled = ctxDone]
<1>4. gor' = [gor EXCEPT ![w] = r]
  BY <1>2
<1>5. p \in Goroutine /\ p.pc = "running" /\ p.lane = l
  <2>1. gor[w] \in Goroutine /\ "running" \in PCs
    BY DEF TypeOK, PCs
  <2>2. QED
    BY <2>1, GoroutineUpdates
<1> HIDE DEF p
<1>6. q \in Goroutine /\ q.pc = "running" /\ q.lane = l
  BY <1>3, <1>5, GoroutineUpdates
<1> HIDE DEF q
<1>7. r \in Goroutine /\ r.pc = "running" /\ r.lane = l
  BY <1>6, GoroutineUpdates DEF TypeOK
<1> HIDE DEF r
<1>8. gor' \in [Workers -> Goroutine]
  BY <1>4, <1>7 DEF TypeOK
<1>9. Advances(gor')
  BY <1>2, <1>4, <1>7, <1>8 DEF Advances, TypeOK
<1>10. TypeOK'
  BY <1>1, <1>2, <1>3, <1>8 DEF TypeOK
<1>11. FlagHasWorker'
  BY <1>2, <1>9 DEF FlagHasWorker, Advances
<1>12. ActiveOwned'
  <2>1. SUFFICES ASSUME NEW m \in Lanes, active'[m] # NoWorker
                 PROVE  gor'[active'[m]].lane = m /\ gor'[active'[m]].pc \in {"running", "finish"}
    BY DEF ActiveOwned
  <2>2. CASE m = l
    BY <2>2, <1>1, <1>2, <1>4, <1>7 DEF TypeOK
  <2>3. CASE m # l
    <3>1. active'[m] = active[m] /\ active[m] \in Workers
      BY <2>1, <2>3, <1>2 DEF TypeOK
    <3>2. gor[active[m]].lane = m /\ gor[active[m]].pc \in {"running", "finish"}
      BY <2>1, <3>1 DEF ActiveOwned
    <3>3. QED
      BY <3>1, <3>2, <1>9 DEF Advances
  <2>4. QED
    BY <2>2, <2>3
<1>13. l \in ActiveLanes'
  BY <1>1, <1>2 DEF ActiveLanes, TypeOK
<1>14. Parked = {} => Parked' = {}
  <2>1. \A m \in Lanes : queues'[m] # << >> => queues[m] # << >>
    BY <1>1, <1>2 DEF TypeOK
  <2>2. QED
    BY <1>2, <2>1 DEF Parked
<1>15. NoStrandedWork' /\ UncappedNeverParks'
  BY <1>2, <1>13, <1>14 DEF NoStrandedWork, UncappedNeverParks
<1>16. QED
  BY <1>10, <1>11, <1>12, <1>15

\* What recovery does beside moving the task: nothing, or another enqueue.
LEMMA RecoverStep ==
  ASSUME TypeOK, NEW g \in [Workers -> Goroutine], NEW b \in Bots, NEW t \in Turn, NEW o,
         Recover(g, b, t, o)
  PROVE  EnqueueEffect(g) /\ status' \in [Tasks -> {"open", "handoff", "done"}]
<1>1. ASSUME gor' = g, UNCHANGED <<queues, workers, deferredLead>>
      PROVE  EnqueueEffect(g)
  BY <1>1 DEF TypeOK, EnqueueEffect
<1>2. ASSUME Enqueue(g, b, [t EXCEPT !.attempts = @ + 1])
      PROVE  EnqueueEffect(g)
  BY <1>2, TurnTypes, EnqueueStep
<1>3. ASSUME NEW k \in Tasks,
             status' = [status EXCEPT ![k] = IF @ = "done" THEN @ ELSE "handoff"]
      PROVE  status' \in [Tasks -> {"open", "handoff", "done"}]
  BY <1>3 DEF TypeOK
<1>4. RecoveryTasks(t) \subseteq Tasks \cup {NoTask}
  BY DEF RecoveryTasks, Turn
<1>5. PICK k \in RecoveryTasks(t), posted \in BOOLEAN :
        \/ gor' = g /\ UNCHANGED <<queues, workers, deferredLead, status>>
        \/ Enqueue(g, b, [t EXCEPT !.attempts = @ + 1]) /\ UNCHANGED status
        \/ /\ k # NoTask
           /\ status' = [status EXCEPT ![k] = IF @ = "done" THEN @ ELSE "handoff"]
           /\ gor' = g /\ UNCHANGED <<queues, workers, deferredLead>>
  BY DEF Recover
<1>6. QED
  BY <1>1, <1>2, <1>3, <1>4, <1>5 DEF TypeOK

\* The slot stays registered while the runner's error is handled.
LEMMA EndTurnInv ==
  ASSUME QueueInv, NEW w \in Workers, NEW o \in Outcomes, EndTurn(w, o)
  PROVE  QueueInv'
<1> USE DEF QueueInv
<1> DEFINE b == Slug(gor[w].lane)
           t == gor[w].turn
           c == (o # "canceled")
           p == [gor[w] EXCEPT !.pc = "finish"]
           r == [p EXCEPT !.count = c]
           g == [gor EXCEPT ![w] = r]
           h == [gor EXCEPT ![w].pc = "finish", ![w].count = (o # "canceled")]
<1>1. gor[w] \in Goroutine /\ b \in Bots /\ t \in Turn
  BY DEF TypeOK, Goroutine, Lanes, Slug
<1>2. p \in Goroutine /\ p.pc = "finish" /\ p.lane = gor[w].lane
  BY <1>1, GoroutineUpdates DEF PCs
<1>3. g = h
  BY DEF TypeOK
<1>4. /\ gor[w].pc = "running"
      /\ \/ gor' = h /\ UNCHANGED <<queues, workers, deferredLead, status>>
         \/ Enqueue(h, b, [t EXCEPT !.retries = @ + 1]) /\ UNCHANGED status
         \/ Recover(h, b, t, o)
      /\ UNCHANGED <<active, prepared, paused, ctxDone, stopped, nextId>>
  BY DEF EndTurn, Finishing, controlVars
<1> HIDE DEF p
<1>5. r \in Goroutine /\ r.pc = "finish" /\ r.lane = gor[w].lane
  <2>1. c \in BOOLEAN
    OBVIOUS
  <2> HIDE DEF c
  <2>2. QED
    BY <1>2, <2>1, GoroutineUpdates
<1> HIDE DEF r, h, b, t, c
<1>6. Advances(g) /\ g \in [Workers -> Goroutine]
  BY <1>4, <1>5 DEF Advances, TypeOK
<1> HIDE DEF g
<1>7. EnqueueEffect(g) /\ status' \in [Tasks -> {"open", "handoff", "done"}]
  <2>1. CASE gor' = h /\ UNCHANGED <<queues, workers, deferredLead, status>>
    BY <2>1, <1>3, <1>6 DEF EnqueueEffect, TypeOK
  <2>2. CASE Enqueue(h, b, [t EXCEPT !.retries = @ + 1]) /\ UNCHANGED status
    <3>1. [t EXCEPT !.retries = @ + 1] \in Turn
      BY <1>1, TurnTypes
    <3>2. QED
      BY <2>2, <3>1, <1>1, <1>3, <1>6, EnqueueStep DEF TypeOK
  <2>3. CASE Recover(h, b, t, o)
    BY <2>3, <1>1, <1>3, <1>6, RecoverStep
  <2>4. QED
    BY <1>4, <2>1, <2>2, <2>3
<1>8. TypeOK'
  BY <1>4, <1>7 DEF TypeOK, EnqueueEffect
<1>9. FlagHasWorker' /\ ActiveOwned' /\ NoStrandedWork' /\ UncappedNeverParks'
  BY <1>4, <1>6, <1>7, EnqueuePreserves
<1>10. QED
  BY <1>8, <1>9

\* Freeing the slot re-spawns parked lanes until none fits, so work stays
\* parked only beside another registered turn or a served lane.
LEMMA FinishTurnInv ==
  ASSUME QueueInv, NEW w \in Workers, FinishTurn(w)
  PROVE  QueueInv'
<1> USE DEF QueueInv
<1> DEFINE l == gor[w].lane
           a == [active EXCEPT ![l] = NoWorker]
           wake == LeadShouldWake(Slug(l), a)
           pc1 == IF wake THEN "wake" ELSE "recheck"
           turn1 == IF wake THEN deferredLead ELSE NoTurn
           c == CancelActive(gor, l)
           p == [c[w] EXCEPT !.pc = pc1]
           q == [p EXCEPT !.turn = turn1]
           r == [q EXCEPT !.cancelled = FALSE]
           g == [c EXCEPT ![w] = r]
           h == [c EXCEPT ![w].pc = pc1, ![w].turn = turn1, ![w].cancelled = FALSE]
<1>1. l \in Lanes
  BY DEF TypeOK, Goroutine
<1>2. /\ gor[w].pc = "finish"
      /\ active' = a
      /\ deferredLead' = IF wake THEN NoTurn ELSE deferredLead
      /\ UNCHANGED <<queues, status, prepared, paused, ctxDone, stopped, nextId>>
  BY DEF FinishTurn, taskVars, controlVars
<1>a. PICK S \in SUBSET Parked :
        /\ Admissible(S, a)
        /\ workers' = [m \in Lanes |-> workers[m] \/ m \in S]
        /\ \E f \in [S -> {v \in Workers : h[v].pc = "none"}] :
             /\ \A m, n \in S : m # n => f[m] # f[n]
             /\ gor' = [v \in Workers |->
                          IF \E m \in S : f[m] = v
                          THEN Fresh(CHOOSE m \in S : f[m] = v) ELSE h[v]]
  BY DEF FinishTurn
<1>b. PICK f \in [S -> {v \in Workers : h[v].pc = "none"}] :
        /\ \A m, n \in S : m # n => f[m] # f[n]
        /\ gor' = [v \in Workers |->
                     IF \E m \in S : f[m] = v THEN Fresh(CHOOSE m \in S : f[m] = v) ELSE h[v]]
  BY <1>a
<1>3. /\ Admissible(S, a)
      /\ workers' = [m \in Lanes |-> workers[m] \/ m \in S]
      /\ \A m, n \in S : m # n => f[m] # f[n]
      /\ gor' = [v \in Workers |->
                   IF \E m \in S : f[m] = v THEN Fresh(CHOOSE m \in S : f[m] = v) ELSE h[v]]
  BY <1>a, <1>b
<1>4. c \in [Workers -> Goroutine] /\ \A v \in Workers : c[v].pc = gor[v].pc /\ c[v].lane = gor[v].lane
  BY <1>1, CancelActiveKeeps DEF TypeOK
<1> HIDE DEF c
<1>5. g = h
  BY <1>4
<1>6. pc1 \in PCs /\ pc1 # "none" /\ turn1 \in Turn
  BY TurnTypes DEF PCs, TypeOK
<1> HIDE DEF wake, pc1, turn1
<1>7. p \in Goroutine /\ p.pc = pc1 /\ p.lane = l
  BY <1>4, <1>6, GoroutineUpdates
<1> HIDE DEF p
<1>8. q \in Goroutine /\ q.pc = pc1 /\ q.lane = l
  BY <1>6, <1>7, GoroutineUpdates
<1> HIDE DEF q
<1>9. r \in Goroutine /\ r.pc = pc1 /\ r.lane = l
  BY <1>8, GoroutineUpdates
<1> HIDE DEF r
<1>10. /\ h \in [Workers -> Goroutine]
       /\ \A v \in Workers : gor[v].pc # "none" => h[v].pc # "none" /\ h[v].lane = gor[v].lane
       /\ \A v \in Workers : v # w => h[v].pc = gor[v].pc
  BY <1>4, <1>5, <1>6, <1>9
<1> HIDE DEF h, g
<1>11. \A m \in S : f[m] \in Workers /\ h[f[m]].pc = "none"
  OBVIOUS
<1>12. \A m \in S : gor'[f[m]] = Fresh(m)
  <2>1. SUFFICES ASSUME NEW m \in S PROVE gor'[f[m]] = Fresh(m)
    OBVIOUS
  <2>2. (CHOOSE n \in S : f[n] = f[m]) = m
    BY <1>3
  <2>3. QED
    BY <1>3, <1>11, <2>2
<1>13. \A v \in Workers : h[v].pc # "none" => gor'[v] = h[v]
  BY <1>3, <1>11
<1>14. S \subseteq Lanes
  BY DEF Parked
<1>15. gor' \in [Workers -> Goroutine]
  <2>1. SUFFICES ASSUME NEW v \in Workers PROVE gor'[v] \in Goroutine
    BY <1>3
  <2>2. CASE \E m \in S : f[m] = v
    BY <2>2, <1>12, <1>14, GoroutineTypes
  <2>3. CASE ~ \E m \in S : f[m] = v
    BY <2>3, <1>3, <1>10
  <2>4. QED
    BY <2>2, <2>3
<1>16. workers' \in [Lanes -> BOOLEAN]
  BY <1>3 DEF TypeOK
<1>17. deferredLead' \in Turn /\ active' \in [Lanes -> Workers \cup {NoWorker}]
  BY <1>1, <1>2, TurnTypes DEF TypeOK
<1>18. TypeOK'
  BY <1>2, <1>15, <1>16, <1>17 DEF TypeOK
<1>19. FlagHasWorker'
  <2>1. SUFFICES ASSUME NEW m \in Lanes, workers'[m]
                 PROVE  \E v \in Workers : gor'[v].pc # "none" /\ gor'[v].lane = m
    BY DEF FlagHasWorker
  <2>2. CASE m \in S
    BY <2>2, <1>11, <1>12, <1>14, GoroutineTypes
  <2>3. CASE workers[m]
    <3>1. PICK v \in Workers : gor[v].pc # "none" /\ gor[v].lane = m
      BY <2>3 DEF FlagHasWorker
    <3>2. QED
      BY <3>1, <1>10, <1>13
  <2>4. QED
    BY <2>1, <2>2, <2>3, <1>3
<1>20. ActiveOwned'
  <2>1. SUFFICES ASSUME NEW m \in Lanes, active'[m] # NoWorker
                 PROVE  gor'[active'[m]].lane = m /\ gor'[active'[m]].pc \in {"running", "finish"}
    BY DEF ActiveOwned
  <2>2. m # l /\ active'[m] = active[m] /\ active[m] \in Workers
    BY <1>1, <1>2, <2>1 DEF TypeOK
  <2>3. gor[active[m]].lane = m /\ gor[active[m]].pc \in {"running", "finish"}
    BY <2>1, <2>2 DEF ActiveOwned
  <2>4. active[m] # w
    BY <2>2, <2>3
  <2>5. QED
    BY <2>2, <2>3, <2>4, <1>10, <1>13
<1>21. Parked' = Parked \ S
  BY <1>2, <1>3, <1>14 DEF Parked, TypeOK
<1>22. CASE GlobalCap > 0 \/ PerBotCap > 0
  <2>1. UncappedNeverParks'
    BY <1>22 DEF UncappedNeverParks
  <2>2. CASE S # {}
    <3>1. PICK m \in S : TRUE
      BY <2>2
    <3>2. m \in Lanes /\ workers'[m] /\ queues'[m] # << >>
      BY <3>1, <1>2, <1>3, <1>14 DEF Parked
    <3>3. QED
      BY <2>1, <3>2, <1>18, <1>19, <1>20 DEF NoStrandedWork
  <2>3. CASE S = {} /\ Parked' # {}
    <3> DEFINE R == {m \in Lanes : a[m] # NoWorker}
    <3>1. PICK m \in Parked : TRUE
      BY <2>3, <1>21
    <3>2. m \in Lanes
      BY <3>1 DEF Parked
    <3>3. ~FitsCaps(Cardinality(R) + Cardinality(S),
                    Cardinality(LanesOf(Slug(m), R)) + Cardinality(LanesOf(Slug(m), S)))
      BY <3>1, <1>3, <1>22, <2>3 DEF Admissible
    <3>4. R # {}
      BY <3>2, <3>3, <2>3, <1>14, FullHasActive
    <3>5. ActiveLanes' = R
      BY <1>2 DEF ActiveLanes
    <3>6. QED
      BY <2>1, <3>4, <3>5, <1>18, <1>19, <1>20 DEF NoStrandedWork
  <2>4. CASE Parked' = {}
    BY <2>1, <2>4, <1>18, <1>19, <1>20 DEF NoStrandedWork
  <2>5. QED
    BY <2>2, <2>3, <2>4
<1>23. CASE ~(GlobalCap > 0 \/ PerBotCap > 0)
  <2>1. stopped' \/ Parked' = {}
    BY <1>2, <1>21, <1>23 DEF UncappedNeverParks
  <2>2. QED
    BY <2>1, <1>18, <1>19, <1>20 DEF NoStrandedWork, UncappedNeverParks
<1>24. QED
  BY <1>22, <1>23

\* Waking the lead is an enqueue by a worker that holds no slot.
LEMMA WakeLeadInv ==
  ASSUME QueueInv, NEW w \in Workers, WakeLead(w)
  PROVE  QueueInv'
<1> USE DEF QueueInv
<1> DEFINE p == [gor[w] EXCEPT !.pc = "recheck"]
           r == [p EXCEPT !.turn = NoTurn]
           g == [gor EXCEPT ![w] = r]
           h == [gor EXCEPT ![w].pc = "recheck", ![w].turn = NoTurn]
<1>1. gor[w] \in Goroutine /\ gor[w].turn.id \in Nat /\ nextId \in Nat /\ Lead \in Bots
  BY ConstantsAssumption DEF TypeOK, Goroutine, Turn
<1>2. p \in Goroutine /\ p.pc = "recheck" /\ p.lane = gor[w].lane
  BY <1>1, GoroutineUpdates DEF PCs
<1>3. g = h
  BY DEF TypeOK
<1>a. /\ gor[w].pc = "wake"
      /\ UNCHANGED <<active, status, prepared, paused, ctxDone, stopped>>
      /\ nextId' = nextId \/ nextId' = nextId + 1
      /\ \/ \E k \in Tasks \cup {NoTask} : Enqueue(h, Lead, NewTurn(gor[w].turn.id, k, FALSE))
         \/ \E k \in Tasks \cup {NoTask} : Enqueue(h, Lead, NewTurn(nextId, k, FALSE))
         \/ gor' = h /\ UNCHANGED <<queues, workers, deferredLead>>
  BY DEF WakeLead, taskVars, controlVars
<1> HIDE DEF h
<1>b. nextId' \in Nat
  BY <1>a, <1>1
<1>c. \/ \E k \in Tasks \cup {NoTask}, i \in Nat : Enqueue(h, Lead, NewTurn(i, k, FALSE))
      \/ gor' = h /\ UNCHANGED <<queues, workers, deferredLead>>
  BY <1>a, <1>1
<1>4. gor[w].pc = "wake" /\ UNCHANGED <<active, status, prepared, paused, ctxDone, stopped>>
  BY <1>a
<1> HIDE DEF p
<1>5. r \in Goroutine /\ r.pc = "recheck" /\ r.lane = gor[w].lane
  BY <1>2, GoroutineUpdates, TurnTypes
<1> HIDE DEF r, h
<1>6. Advances(g) /\ g \in [Workers -> Goroutine]
  BY <1>4, <1>5 DEF Advances, TypeOK
<1> HIDE DEF g
<1>7. EnqueueEffect(g)
  <2>1. CASE \E k \in Tasks \cup {NoTask}, i \in Nat : Enqueue(h, Lead, NewTurn(i, k, FALSE))
    <3>1. PICK k \in Tasks \cup {NoTask}, i \in Nat : Enqueue(h, Lead, NewTurn(i, k, FALSE))
      BY <2>1
    <3>2. NewTurn(i, k, FALSE) \in Turn
      BY TurnTypes
    <3>3. QED
      BY <3>1, <3>2, <1>1, <1>3, <1>6, EnqueueStep
  <2>2. CASE gor' = h /\ UNCHANGED <<queues, workers, deferredLead>>
    BY <2>2, <1>3, <1>6 DEF EnqueueEffect, TypeOK
  <2>3. QED
    BY <1>c, <2>1, <2>2
<1>8. TypeOK'
  BY <1>4, <1>b, <1>7 DEF TypeOK, EnqueueEffect
<1>9. FlagHasWorker' /\ ActiveOwned' /\ NoStrandedWork' /\ UncappedNeverParks'
  BY <1>4, <1>6, <1>7, EnqueuePreserves
<1>10. QED
  BY <1>8, <1>9

\* A worker leaves at the end of the loop only when its lane's flag is gone.
LEMMA RecheckInv ==
  ASSUME QueueInv, NEW w \in Workers, Recheck(w)
  PROVE  QueueInv'
<1> USE DEF QueueInv
<1> DEFINE l == gor[w].lane
           r == IF workers[l] THEN Fresh(l) ELSE Idle
<1>1. l \in Lanes
  BY DEF TypeOK, Goroutine
<1>2. /\ gor[w].pc = "recheck"
      /\ gor' = [gor EXCEPT ![w] = r]
      /\ paused' \in BOOLEAN
      /\ UNCHANGED <<queues, workers, active, deferredLead, status, prepared, ctxDone, stopped, nextId>>
  BY DEF Recheck, taskVars, TypeOK
<1>3. r \in Goroutine /\ (workers[l] => r.pc # "none" /\ r.lane = l)
  BY <1>1, GoroutineTypes
<1> HIDE DEF r
<1>4. TypeOK'
  BY <1>2, <1>3 DEF TypeOK
<1>5. FlagHasWorker'
  <2>1. SUFFICES ASSUME NEW m \in Lanes, workers[m]
                 PROVE  \E v \in Workers : gor'[v].pc # "none" /\ gor'[v].lane = m
    BY <1>2 DEF FlagHasWorker
  <2>2. PICK v \in Workers : gor[v].pc # "none" /\ gor[v].lane = m
    BY <2>1 DEF FlagHasWorker
  <2>3. gor'[w] = r /\ \A u \in Workers \ {w} : gor'[u] = gor[u]
    BY <1>2 DEF TypeOK
  <2>4. gor'[v].pc # "none" /\ gor'[v].lane = m
    <3>1. CASE v = w
      BY <2>1, <2>2, <2>3, <3>1, <1>3
    <3>2. CASE v # w
      BY <2>2, <2>3, <3>2
    <3>3. QED
      BY <3>1, <3>2
  <2>5. QED
    BY <2>4
<1>6. ActiveOwned'
  <2>1. SUFFICES ASSUME NEW m \in Lanes, active[m] # NoWorker
                 PROVE  gor'[active[m]].lane = m /\ gor'[active[m]].pc \in {"running", "finish"}
    BY <1>2 DEF ActiveOwned
  <2>a. active[m] \in Workers
    BY <2>1 DEF TypeOK
  <2>b. gor[active[m]].pc \in {"running", "finish"}
    BY <2>1 DEF ActiveOwned
  <2>2. active[m] \in Workers /\ active[m] # w
    BY <2>a, <2>b, <1>2
  <2>3. QED
    BY <2>1, <2>2, <1>2 DEF ActiveOwned, TypeOK
<1>7. NoStrandedWork' /\ UncappedNeverParks'
  BY <1>2 DEF NoStrandedWork, UncappedNeverParks, Parked, ActiveLanes
<1>8. QED
  BY <1>4, <1>5, <1>6, <1>7

\* The office around the queue only cancels turns, pauses, stops or moves tasks.
LEMMA OfficeInv ==
  ASSUME QueueInv,
         \/ GovernorPause \/ GovernorResume
         \/ \E B \in {Bots} \cup {{b} : b \in Bots} : CancelHeadlessTurns(B)
         \/ Drain \/ StopHeadlessWorkers
         \/ \E k \in Tasks : PrepareWorktree(k) \/ ReleaseWorktree(k)
         \/ \E k \in Tasks, s \in {"open", "handoff", "done"} : TaskUpdate(k, s)
  PROVE  QueueInv'
<1> USE DEF QueueInv
<1> DEFINE Cancels == /\ gor' \in [Workers -> Goroutine]
                      /\ \A v \in Workers : gor'[v].pc = gor[v].pc /\ gor'[v].lane = gor[v].lane
<1>1. ASSUME Cancels, UNCHANGED <<queues, workers, active>>, stopped' \in BOOLEAN,
             stopped => stopped'
      PROVE  FlagHasWorker' /\ ActiveOwned' /\ NoStrandedWork' /\ UncappedNeverParks'
  <2>1. FlagHasWorker'
    BY <1>1 DEF FlagHasWorker
  <2>2. ActiveOwned'
    BY <1>1 DEF ActiveOwned, TypeOK
  <2>3. Parked' = Parked /\ ActiveLanes' = ActiveLanes
    BY <1>1 DEF Parked, ActiveLanes
  <2>4. NoStrandedWork' /\ UncappedNeverParks'
    BY <1>1, <2>3 DEF NoStrandedWork, UncappedNeverParks
  <2>5. QED
    BY <2>1, <2>2, <2>4
<1>2. ASSUME UNCHANGED gor PROVE Cancels
  BY <1>2 DEF TypeOK
<1>3. \A v \in Workers : LET r == [gor[v] EXCEPT !.cancelled = TRUE]
                         IN r \in Goroutine /\ r.pc = gor[v].pc /\ r.lane = gor[v].lane
  BY GoroutineUpdates DEF TypeOK
<1>4. ASSUME NEW B, gor' = CancelLanes(B) PROVE Cancels
  BY <1>3, <1>4 DEF CancelLanes, TypeOK
<1>5. ASSUME CancelAllContexts PROVE Cancels
  BY <1>3, <1>5 DEF CancelAllContexts, TypeOK
<1> HIDE DEF Cancels
<1>6. CASE GovernorPause \/ GovernorResume
  <2>1. TypeOK'
    BY <1>6 DEF GovernorPause, GovernorResume, TypeOK, taskVars
  <2>2. UNCHANGED <<queues, workers, active, gor, stopped>>
    BY <1>6 DEF GovernorPause, GovernorResume
  <2>3. QED
    BY <2>1, <2>2, <1>1, <1>2 DEF TypeOK
<1>7. ASSUME NEW B, CancelHeadlessTurns(B) PROVE QueueInv'
  <2>1. UNCHANGED <<queues, workers, active, stopped, deferredLead, status, prepared, paused,
                  ctxDone, nextId>>
        /\ gor' = CancelLanes(B)
    BY <1>7 DEF CancelHeadlessTurns, taskVars, controlVars
  <2>2. Cancels
    BY <2>1, <1>4
  <2>3. TypeOK'
    BY <2>1, <2>2 DEF TypeOK, Cancels
  <2>4. QED
    BY <2>1, <2>2, <2>3, <1>1 DEF TypeOK
<1>8. CASE Drain \/ StopHeadlessWorkers
  <2>1. /\ UNCHANGED <<queues, workers, active, deferredLead, status, prepared, paused, nextId>>
        /\ ctxDone' = TRUE /\ CancelAllContexts /\ (stopped' = stopped \/ stopped' = TRUE)
    BY <1>8 DEF Drain, StopHeadlessWorkers, taskVars
  <2>2. Cancels
    BY <2>1, <1>5
  <2>3. TypeOK'
    BY <2>1, <2>2 DEF TypeOK, Cancels
  <2>4. QED
    BY <2>1, <2>2, <2>3, <1>1 DEF TypeOK
<1>9. ASSUME NEW k \in Tasks, NEW s \in {"open", "handoff", "done"},
             PrepareWorktree(k) \/ ReleaseWorktree(k) \/ TaskUpdate(k, s)
      PROVE  QueueInv'
  <2>1. UNCHANGED <<queues, workers, active, gor, stopped, deferredLead, paused, ctxDone, nextId>>
        /\ prepared' \subseteq Isolated /\ status' \in [Tasks -> {"open", "handoff", "done"}]
    BY <1>9 DEF PrepareWorktree, ReleaseWorktree, TaskUpdate, controlVars, TypeOK
  <2>2. TypeOK'
    BY <2>1 DEF TypeOK
  <2>3. QED
    BY <2>1, <2>2, <1>1, <1>2 DEF TypeOK
<1>10. QED
  BY <1>6, <1>7, <1>8, <1>9

\* Every step keeps the invariant.
LEMMA NextInv == QueueInv /\ [Next]_vars => QueueInv'
<1> SUFFICES ASSUME QueueInv, [Next]_vars PROVE QueueInv'
  OBVIOUS
<1>1. CASE UNCHANGED vars
  BY <1>1 DEF vars, QueueInv, TypeOK, FlagHasWorker, ActiveOwned, NoStrandedWork,
              UncappedNeverParks, Parked, ActiveLanes
<1>2. ASSUME NEW in \in Inputs, Notify(in[1], in[2], in[3]) PROVE QueueInv'
  BY <1>2, NotifyInv
<1>3. ASSUME NEW w \in Workers, WorkerStep(w) PROVE QueueInv'
  BY <1>3, ExitOnStopInv, PassGateInv, BeginNothingInv, BeginTurnInv, EndTurnInv,
     FinishTurnInv, WakeLeadInv, RecheckInv DEF WorkerStep
<1>4. QED
  BY <1>1, <1>2, <1>3, OfficeInv DEF Next

\* For every office, cap and interleaving: types are kept, a served lane has a
\* goroutine, a registered slot has an owner that will free it, and no queued
\* work is stranded by the concurrency caps before shutdown.
THEOREM QueueInvariant == Spec => []QueueInv
<1>1. QED
  BY InitInv, NextInv, PTL DEF Spec

\* Work parked by the caps is never forgotten (NoStrandedWork), and slots never
\* leak (ActiveOwned).
THEOREM ParkedWorkIsServed == Spec => [](NoStrandedWork /\ ActiveOwned)
<1>1. QueueInv => NoStrandedWork /\ ActiveOwned
  BY DEF QueueInv
<1>2. QED
  BY <1>1, QueueInvariant, PTL

\* A lane marked as served has a goroutine that comes back to it.
THEOREM ServedLanesHaveWorkers == Spec => []FlagHasWorker
<1>1. QueueInv => FlagHasWorker
  BY DEF QueueInv
<1>2. QED
  BY <1>1, QueueInvariant, PTL

\* Every registered slot has an owner inside its turn, which will free it.
THEOREM SlotsAreOwned == Spec => []ActiveOwned
<1>1. QueueInv => ActiveOwned
  BY DEF QueueInv
<1>2. QED
  BY <1>1, QueueInvariant, PTL

\* Without a cap no lane is parked, so finishing a turn need not look for any.
THEOREM UncappedLanesAreServed == Spec => []UncappedNeverParks
<1>1. QueueInv => UncappedNeverParks
  BY DEF QueueInv
<1>2. QED
  BY <1>1, QueueInvariant, PTL

\* The queue's state keeps its type.
THEOREM QueueTypes == Spec => []TypeOK
<1>1. QueueInv => TypeOK
  BY DEF QueueInv
<1>2. QED
  BY <1>1, QueueInvariant, PTL

=============================================================================
