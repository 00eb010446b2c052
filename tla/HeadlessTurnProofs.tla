------------------------- MODULE HeadlessTurnProofs -------------------------
(***************************************************************************)
(* Theorems about the turns in HeadlessQueue, for every set of bots, tasks *)
(* and workers and every pair of caps: bot-originated turns never hold     *)
(* more slots than the global cap, no notification is in two places, no    *)
(* bot's queued turn is discarded and no failed worktree turn strands its  *)
(* task.  TurnFlow says once what a step does with turns; each property is *)
(* then a few cases over it.                                               *)
(***************************************************************************)
EXTENDS HeadlessQueueProofs

-----------------------------------------------------------------------------
(* Where turns go *)

\* Nothing is queued, or t takes position n of lane l and nothing else moves.
Puts(l, n, t) ==
  /\ \A m \in Lanes : m # l => queues'[m] = queues[m]
  /\ \A i \in DOMAIN queues'[l] :
       \/ i = n /\ queues'[l][i] = t
       \/ i # n /\ i \in DOMAIN queues[l] /\ queues'[l][i] = queues[l][i]

\* Goroutines that ran in g keep their step and turn, others may have started.
KeepsTurns(g) ==
  \A v \in Workers :
    IF g[v].pc # "none" THEN gor'[v].pc = g[v].pc /\ gor'[v].turn = g[v].turn
    ELSE gor'[v].pc \in {"none", "top"} /\ gor'[v].turn \in {g[v].turn, NoTurn}

\* Every turn of lane l keeps its place, or is superseded in it.
Stays(l) ==
  \A i \in DOMAIN queues[l] :
    /\ i \in DOMAIN queues'[l]
    /\ \/ queues'[l][i] = queues[l][i]
       \/ Supersedes(Slug(l), queues'[l][i], queues[l][i])

\* What an enqueue of t does with t, and with the turns already queued.
EnqueueTurns(g, t) ==
  /\ KeepsTurns(g)
  /\ \/ UNCHANGED <<queues, deferredLead>>
     \/ queues' = queues /\ deferredLead' = t
     \/ deferredLead' = deferredLead /\ \E l \in Lanes : \E n : Puts(l, n, t)
  /\ \A m \in Lanes : Stays(m)

\* The turn field of an updated goroutine.
LEMMA TurnUpdates ==
  ASSUME NEW r \in Goroutine
  PROVE  /\ \A p \in PCs : [r EXCEPT !.pc = p].turn = r.turn
         /\ \A t \in Turn : [r EXCEPT !.turn = t].turn = t
         /\ \A c \in BOOLEAN : [r EXCEPT !.cancelled = c].turn = r.turn
         /\ \A c \in BOOLEAN : [r EXCEPT !.count = c].turn = r.turn
  BY DEF Goroutine

LEMMA FreshTurns ==
  /\ Idle.pc = "none" /\ Idle.turn = NoTurn
  /\ \A l \in Lanes : Fresh(l).pc = "top" /\ Fresh(l).turn = NoTurn
<1>1. Idle \in Goroutine /\ <<Lead, NoTask>> \in Lanes
  BY GoroutineTypes, ConstantsAssumption DEF Lanes
<1>2. Idle.pc = "none" /\ Idle.turn = NoTurn
  BY DEF Idle
<1>3. \A l \in Lanes : Fresh(l).pc = "top" /\ Fresh(l).turn = NoTurn
  BY DEF Fresh, Idle
<1> QED  BY <1>2, <1>3

LEMMA StartWorkerTurns ==
  ASSUME NEW g \in [Workers -> Goroutine], NEW l \in Lanes, StartWorker(g, l)
  PROVE  KeepsTurns(g)
<1>1. CASE gor' = g
  <2>1. \A v \in Workers : g[v].pc = "none" => gor'[v].pc \in {"none", "top"}
    BY <1>1
  <2> QED  BY <1>1, <2>1 DEF KeepsTurns
<1>2. ASSUME NEW w \in Workers, g[w].pc = "none", gor' = [g EXCEPT ![w] = Fresh(l)]
      PROVE  KeepsTurns(g)
  <2>1. gor'[w].pc = "top" /\ gor'[w].turn = NoTurn /\ \A v \in Workers : v # w => gor'[v] = g[v]
    BY <1>2, FreshTurns
  <2> QED  BY <1>2, <2>1 DEF KeepsTurns
<1> QED  BY <1>1, <1>2 DEF StartWorker

LEMMA CancelActiveTurns ==
  ASSUME NEW g \in [Workers -> Goroutine], NEW l \in Lanes
  PROVE  \A v \in Workers : CancelActive(g, l)[v].pc = g[v].pc
                            /\ CancelActive(g, l)[v].turn = g[v].turn
<1>1. CASE active[l] = NoWorker
  BY <1>1 DEF CancelActive
<1>2. CASE active[l] # NoWorker
  BY <1>2 DEF CancelActive, Goroutine
<1> QED  BY <1>1, <1>2

\* Replacing an entry of a queue puts it there.
LEMMA ExceptPuts ==
  ASSUME TypeOK, NEW l \in Lanes, NEW i, NEW t,
         queues' = [queues EXCEPT ![l] = [queues[l] EXCEPT ![i] = t]]
  PROVE  Puts(l, i, t)
<1>1. queues \in [Lanes -> Seq(Turn)]
  BY DEF TypeOK
<1>2. queues'[l] = [queues[l] EXCEPT ![i] = t] /\ \A m \in Lanes : m # l => queues'[m] = queues[m]
  BY <1>1
<1> QED  BY <1>2 DEF Puts

LEMMA AppendPuts ==
  ASSUME TypeOK, NEW l \in Lanes, NEW t \in Turn,
         queues' = [queues EXCEPT ![l] = Append(queues[l], t)]
  PROVE  Puts(l, Len(queues[l]) + 1, t) /\ Len(queues[l]) + 1 \in Nat
<1>1. queues \in [Lanes -> Seq(Turn)] /\ queues[l] \in Seq(Turn)
  BY DEF TypeOK
<1>2. queues'[l] = Append(queues[l], t) /\ \A m \in Lanes : m # l => queues'[m] = queues[m]
  BY <1>1
<1> DEFINE q == queues[l]
           n == Len(q) + 1
           r == Append(q, t)
<1>a. q \in Seq(Turn) /\ DOMAIN q = 1 .. Len(q) /\ Len(q) \in Nat
  BY <1>1, LenProperties
<1>b. /\ Len(r) = Len(q) + 1 /\ DOMAIN r = 1 .. Len(r)
      /\ \A i \in 1 .. Len(q) : r[i] = q[i]
      /\ r[Len(q) + 1] = t
  BY <1>a, AppendProperties
<1> HIDE DEF q, r
<1>3. n \in Nat /\ \A i \in DOMAIN r : (i = n /\ r[i] = t) \/ (i # n /\ i \in DOMAIN q /\ r[i] = q[i])
  BY <1>a, <1>b
<1> HIDE DEF n
<1>4. Puts(l, n, t) /\ n \in Nat
  BY <1>2, <1>3 DEF Puts, q, r
<1> QED  BY <1>4 DEF n, q

\* A nonempty set of naturals has a least element.
LEMMA LeastNatural ==
  ASSUME NEW S \in SUBSET Nat, S # {}
  PROVE  \E n \in S : \A m \in S : n <= m
<1> DEFINE R == OpToRel(<, Nat)
<1>1. IsWellFoundedOn(R, Nat)
  BY NatLessThanWellFounded, Zenon
<1>2. \A x, y \in Nat : x < y => <<x, y>> \in R
  BY DEF OpToRel
<1> HIDE DEF R
<1>3. PICK n \in S : \A m \in S : <<m, n>> \notin R
  BY <1>1, WFMin
<1>4. \A m \in S : ~(m < n)
  BY <1>2, <1>3
<1> QED  BY <1>4

LEMMA UntouchedStays ==
  ASSUME NEW l \in Lanes, queues'[l] = queues[l]
  PROVE  Stays(l)
  BY DEF Stays

\* An entry replaced by one that supersedes it.
LEMMA ReplacedStays ==
  ASSUME TypeOK, NEW l \in Lanes, NEW i \in DOMAIN queues[l], NEW t \in Turn,
         queues' = [queues EXCEPT ![l] = [queues[l] EXCEPT ![i] = t]],
         Supersedes(Slug(l), t, queues[l][i])
  PROVE  \A m \in Lanes : Stays(m)
<1>1. queues \in [Lanes -> Seq(Turn)]
  BY DEF TypeOK
<1>2. /\ queues'[l] = [queues[l] EXCEPT ![i] = t]
      /\ \A m \in Lanes : m # l => queues'[m] = queues[m]
  BY <1>1
<1>3. Stays(l)
  BY <1>2 DEF Stays
<1> QED  BY <1>2, <1>3, UntouchedStays

LEMMA AppendedStays ==
  ASSUME TypeOK, NEW l \in Lanes, NEW t \in Turn,
         queues' = [queues EXCEPT ![l] = Append(queues[l], t)]
  PROVE  \A m \in Lanes : Stays(m)
<1>1. queues \in [Lanes -> Seq(Turn)] /\ queues[l] \in Seq(Turn)
  BY DEF TypeOK
<1>2. /\ queues'[l] = Append(queues[l], t)
      /\ \A m \in Lanes : m # l => queues'[m] = queues[m]
  BY <1>1
<1> DEFINE q == queues[l]
           r == Append(q, t)
<1>3. q \in Seq(Turn) /\ DOMAIN q = 1 .. Len(q) /\ Len(q) \in Nat
  BY <1>1, LenProperties
<1>4. /\ Len(r) = Len(q) + 1 /\ DOMAIN r = 1 .. Len(r)
      /\ \A i \in 1 .. Len(q) : r[i] = q[i]
  BY <1>3, AppendProperties
<1> HIDE DEF q, r
<1>5. \A i \in DOMAIN q : i \in DOMAIN r /\ r[i] = q[i]
  BY <1>3, <1>4
<1>6. Stays(l)
  BY <1>2, <1>5 DEF Stays, q, r
<1> QED  BY <1>2, <1>6, UntouchedStays

\* A lane is named after its bot.
LEMMA LaneSlug ==
  ASSUME NEW b \in Bots, NEW k
  PROVE  Slug(LaneFor(b, k)) = b
  BY DEF Slug, LaneFor

\* An enqueue discards no queued turn: it appends, or supersedes one.
LEMMA EnqueueStays ==
  ASSUME TypeOK, NEW g \in [Workers -> Goroutine], NEW b \in Bots, NEW t \in Turn,
         Enqueue(g, b, t)
  PROVE  \A m \in Lanes : Stays(m)
<1> DEFINE l == LaneFor(b, t.task)
<1>1. /\ l \in Lanes /\ queues[l] \in Seq(Turn) /\ queues \in [Lanes -> Seq(Turn)]
      /\ Slug(l) = b
  BY LaneForType, LaneSlug DEF Turn, TypeOK
<1>2. queues' = queues => \A m \in Lanes : Stays(m)
  BY UntouchedStays
<1>3. CASE EnqueueReplace(g, b, t)
  <2> DEFINE S == SameTask(queues[l], t)
             i == CHOOSE i \in S : \A j \in S : i <= j
  <2>1. /\ queues' = [queues EXCEPT ![l] = [queues[l] EXCEPT ![i] = t]]
        /\ ~t.human /\ t.task # NoTask /\ S # {}
    BY <1>1, <1>3 DEF EnqueueReplace, ReplaceFirst, Replaceable
  <2>2. S \in SUBSET Nat
    <3>1. DOMAIN queues[l] = 1 .. Len(queues[l]) /\ Len(queues[l]) \in Nat
      BY <1>1, LenProperties
    <3> QED  BY <3>1 DEF SameTask
  <2> HIDE DEF S
  <2>3. \E n \in S : \A j \in S : n <= j
    BY <2>1, <2>2, LeastNatural
  <2>4. i \in S
    BY <2>3
  <2> HIDE DEF i
  <2>5. i \in DOMAIN queues[l] /\ queues[l][i].task = t.task
    BY <2>4 DEF S, SameTask
  <2>6. Supersedes(Slug(l), t, queues[l][i])
    BY <2>1, <2>5 DEF Supersedes
  <2> HIDE DEF l
  <2> QED  BY <1>1, <2>1, <2>5, <2>6, ReplacedStays
<1>4. CASE EnqueueAtLeadCap(g, b, t)
  <2> DEFINE n == Len(queues[l])
  <2>1. /\ b = Lead /\ n >= 1
        /\ \/ queues' = queues
           \/ /\ Urgent(b, t) \/ t.human
              /\ queues' = [queues EXCEPT ![l] = [queues[l] EXCEPT ![n] = t]]
    BY <1>1, <1>4 DEF EnqueueAtLeadCap, leadMaxPending
  <2>2. n \in DOMAIN queues[l]
    <3>1. DOMAIN queues[l] = 1 .. n /\ n \in Nat
      BY <1>1, LenProperties
    <3> QED  BY <2>1, <3>1
  <2> HIDE DEF n, l
  <2>3. Urgent(b, t) \/ t.human => Supersedes(Slug(l), t, queues[l][n])
    BY <1>1, <2>1 DEF Supersedes
  <2> QED  BY <1>1, <1>2, <2>1, <2>2, <2>3, ReplacedStays
<1>5. ASSUME NEW stale \in BOOLEAN, EnqueueAppend(g, b, t, stale)
      PROVE  \A m \in Lanes : Stays(m)
  <2>1. queues' = [queues EXCEPT ![l] = Append(queues[l], t)]
    BY <1>1, <1>5 DEF EnqueueAppend
  <2> HIDE DEF l
  <2> QED  BY <1>1, <2>1, AppendedStays
<1>6. CASE EnqueueDrop(g, b, t) \/ EnqueueHold(g, b, t)
  BY <1>2, <1>6 DEF EnqueueDrop, EnqueueHold
<1> QED  BY <1>3, <1>4, <1>5, <1>6 DEF Enqueue

LEMMA EnqueueFlow ==
  ASSUME TypeOK, NEW g \in [Workers -> Goroutine], NEW b \in Bots, NEW t \in Turn,
         Enqueue(g, b, t)
  PROVE  EnqueueTurns(g, t)
<1> DEFINE l == LaneFor(b, t.task)
<1>1. l \in Lanes /\ queues[l] \in Seq(Turn) /\ queues \in [Lanes -> Seq(Turn)]
  BY LaneForType DEF Turn, TypeOK
<1> HIDE DEF l
<1>a. \A m \in Lanes : Stays(m)
  BY EnqueueStays
<1> USE <1>a
<1>2. gor' = g => KeepsTurns(g)
  BY DEF KeepsTurns
<1>3. CASE EnqueueDrop(g, b, t)
  BY <1>2, <1>3 DEF EnqueueDrop, EnqueueTurns
<1>4. CASE EnqueueReplace(g, b, t)
  <2>1. /\ queues' = [queues EXCEPT ![l] = ReplaceFirst(queues[l], t)] /\ StartWorker(g, l)
        /\ Replaceable(queues[l], t) /\ deferredLead' = deferredLead
    BY <1>4, <1>1 DEF EnqueueReplace, l
  <2> DEFINE S == SameTask(queues[l], t)
             i == CHOOSE i \in S : \A j \in S : i <= j
  <2>4. queues' = [queues EXCEPT ![l] = [queues[l] EXCEPT ![i] = t]]
    BY <2>1 DEF ReplaceFirst
  <2> HIDE DEF i
  <2>5. Puts(l, i, t)
    BY <1>1, <2>4, ExceptPuts
  <2>6. KeepsTurns(g)
    BY <1>1, <2>1, StartWorkerTurns
  <2> QED  BY <1>1, <2>1, <2>5, <2>6 DEF EnqueueTurns
<1>5. CASE EnqueueHold(g, b, t)
  BY <1>2, <1>5 DEF EnqueueHold, EnqueueTurns
<1>6. CASE EnqueueAtLeadCap(g, b, t)
  <2> DEFINE n == Len(queues[l])
  <2>1. CASE queues' = [queues EXCEPT ![l][n] = t] /\ StartWorker(g, l)
    <3>1. queues' = [queues EXCEPT ![l] = [queues[l] EXCEPT ![n] = t]] /\ n \in Nat
      BY <1>1, <2>1
    <3> HIDE DEF n
    <3>2. Puts(l, n, t)
      BY <1>1, <3>1, ExceptPuts
    <3>3. KeepsTurns(g) /\ deferredLead' = deferredLead
      BY <1>1, <1>6, <2>1, StartWorkerTurns DEF EnqueueAtLeadCap
    <3> QED  BY <1>1, <3>1, <3>2, <3>3 DEF EnqueueTurns
  <2>2. CASE gor' = g /\ UNCHANGED <<queues, workers>>
    BY <1>2, <1>6, <2>2 DEF EnqueueAtLeadCap, EnqueueTurns
  <2> QED  BY <1>6, <2>1, <2>2 DEF EnqueueAtLeadCap, l
<1>7. ASSUME NEW stale \in BOOLEAN, EnqueueAppend(g, b, t, stale)
      PROVE  EnqueueTurns(g, t)
  <2> DEFINE h == IF t.human \/ stale THEN CancelActive(g, l) ELSE g
  <2>1. queues' = [queues EXCEPT ![l] = Append(queues[l], t)] /\ StartWorker(h, l)
        /\ deferredLead' = deferredLead
    BY <1>7, <1>1 DEF EnqueueAppend, l
  <2>2. h \in [Workers -> Goroutine]
        /\ \A v \in Workers : h[v].pc = g[v].pc /\ h[v].turn = g[v].turn
    BY <1>1, CancelActiveKeeps, CancelActiveTurns
  <2> HIDE DEF h
  <2>3. KeepsTurns(h)
    BY <1>1, <2>1, <2>2, StartWorkerTurns
  <2>4. KeepsTurns(g)
    BY <2>2, <2>3 DEF KeepsTurns
  <2>5. Puts(l, Len(queues[l]) + 1, t) /\ Len(queues[l]) + 1 \in Nat
    BY <1>1, <2>1, AppendPuts
  <2> QED  BY <1>1, <2>1, <2>4, <2>5 DEF EnqueueTurns
<1> QED  BY <1>3, <1>4, <1>5, <1>6, <1>7 DEF Enqueue

-----------------------------------------------------------------------------
(* What a step does with turns: six flows *)

\* g is gor after w's own step to p with turn t.
Moves(g, w, p, t) ==
  /\ g \in [Workers -> Goroutine]
  /\ g[w].pc = p /\ g[w].turn = t
  /\ \A v \in Workers : v # w => g[v].pc = gor[v].pc /\ g[v].turn = gor[v].turn

NotifyFlow ==
  \E t \in Turn :
    /\ t.id = nextId /\ t.attempts = 0 /\ t.retries = 0
    /\ EnqueueTurns(gor, t)
    /\ nextId' = nextId + 1 /\ active' = active

BeginFlow(w) ==
  LET l == gor[w].lane IN
  /\ gor[w].pc = "begin" /\ l \in Lanes /\ queues[l] # << >>
  /\ Head(queues[l]).human \/ MayStart(l)
  /\ queues' = [queues EXCEPT ![l] = Tail(queues[l])]
  /\ active' = [active EXCEPT ![l] = w]
  /\ Moves(gor', w, "running", Head(queues[l]))
  /\ UNCHANGED <<deferredLead, nextId>>

\* t is old once more, within the limits of the two retry ladders.
Again(t, old) ==
  /\ t.id = old.id
  /\ t.attempts = old.attempts \/ (old.attempts < 2 /\ t.attempts = old.attempts + 1)
  /\ t.retries = old.retries \/ (old.retries < 2 /\ t.retries = old.retries + 1)

EndFlow(w) ==
  /\ gor[w].pc = "running"
  /\ \E g \in [Workers -> Goroutine], t \in Turn :
       /\ Moves(g, w, "finish", gor[w].turn)
       /\ Again(t, gor[w].turn)
       /\ EnqueueTurns(g, t)
  /\ UNCHANGED <<active, nextId>>

\* The finishing worker takes the deferred lead turn along, or none.
FinishFlow(w) ==
  /\ gor[w].pc = "finish" /\ gor[w].lane \in Lanes
  /\ active' = [active EXCEPT ![gor[w].lane] = NoWorker]
  /\ \E g \in [Workers -> Goroutine] :
       /\ \/ Moves(g, w, "wake", deferredLead) /\ deferredLead' = NoTurn
          \/ Moves(g, w, "recheck", NoTurn) /\ deferredLead' = deferredLead
       /\ KeepsTurns(g)
  /\ UNCHANGED <<queues, nextId>>

WakeFlow(w) ==
  /\ gor[w].pc = "wake"
  /\ \E g \in [Workers -> Goroutine], t \in Turn :
       /\ Moves(g, w, "recheck", NoTurn)
       /\ t.attempts = 0 /\ t.retries = 0
       /\ \/ t.id = gor[w].turn.id /\ nextId' = nextId
          \/ t.id = nextId /\ nextId' = nextId + 1
       /\ EnqueueTurns(g, t)
  /\ active' = active

\* A step that moves no turn; a goroutine may drop one that is over.
QuietFlow ==
  /\ UNCHANGED <<queues, deferredLead, active, nextId>>
  /\ \A v \in Workers :
       /\ gor'[v].turn \in {gor[v].turn, NoTurn}
       /\ gor[v].pc \in {"running", "finish"} \/ gor'[v].pc \in {"running", "wake"} =>
            gor'[v].pc = gor[v].pc /\ gor'[v].turn = gor[v].turn

\* A new turn starts with both ladders at zero.
LEMMA NewTurnFields ==
  ASSUME NEW i \in Nat, NEW k \in Tasks \cup {NoTask}, NEW h \in BOOLEAN
  PROVE  /\ NewTurn(i, k, h).id = i
         /\ NewTurn(i, k, h).attempts = 0 /\ NewTurn(i, k, h).retries = 0
<1> DEFINE t1 == [NoTurn EXCEPT !.id = i]
           t2 == [t1 EXCEPT !.task = k]
           t3 == [t2 EXCEPT !.human = h]
<1>1. t1 \in Turn /\ t1.id = i /\ t1.attempts = 0 /\ t1.retries = 0
  BY TurnTypes DEF NoTurn, Turn
<1>2. NewTurn(i, k, h) = t3
  BY DEF NewTurn
<1> HIDE DEF t1
<1>3. t2 \in Turn /\ t2.id = i /\ t2.attempts = 0 /\ t2.retries = 0
  BY <1>1 DEF Turn
<1> HIDE DEF t2
<1>4. t3.id = i /\ t3.attempts = 0 /\ t3.retries = 0
  BY <1>3 DEF Turn
<1> QED  BY <1>2, <1>4

LEMMA NotifyFlows ==
  ASSUME TypeOK, NEW in \in Inputs, Notify(in[1], in[2], in[3])
  PROVE  NotifyFlow
<1> DEFINE t == NewTurn(nextId, in[2], in[3])
<1>1. in[1] \in Bots /\ in[2] \in Tasks \cup {NoTask} /\ in[3] \in BOOLEAN
  BY ConstantsAssumption
<1>2. t \in Turn /\ t.id = nextId /\ t.attempts = 0 /\ t.retries = 0
  BY <1>1, TurnTypes, NewTurnFields DEF TypeOK
<1>3. Enqueue(gor, in[1], t) /\ nextId' = nextId + 1 /\ active' = active
  BY DEF Notify
<1> HIDE DEF t
<1>4. EnqueueTurns(gor, t)
  BY <1>1, <1>2, <1>3, EnqueueFlow DEF TypeOK
<1> QED  BY <1>2, <1>3, <1>4 DEF NotifyFlow

LEMMA BeginFlows ==
  ASSUME TypeOK, NEW w \in Workers, BeginTurn(w)
  PROVE  BeginFlow(w)
<1> DEFINE l == gor[w].lane
           p == [gor[w] EXCEPT !.pc = "running"]
           q == [p EXCEPT !.turn = Head(queues[l])]
           r == [q EXCEPT !.cancelled = ctxDone]
<1>1. l \in Lanes /\ queues[l] \in Seq(Turn) /\ queues[l] # << >> /\ gor[w] \in Goroutine
  BY DEF BeginTurn, TypeOK, Goroutine
<1>2. Head(queues[l]) \in Turn
  BY <1>1, HeadTailProperties
<1>3. /\ gor[w].pc = "begin"
      /\ Head(queues[l]).human \/ MayStart(l)
      /\ queues' = [queues EXCEPT ![l] = Tail(queues[l])]
      /\ active' = [active EXCEPT ![l] = w]
      /\ UNCHANGED <<deferredLead, nextId>>
  BY <1>1 DEF BeginTurn, TypeOK
<1>4. gor' = [gor EXCEPT ![w] = r]
  BY DEF BeginTurn, TypeOK
<1>5. p \in Goroutine /\ p.pc = "running"
  BY <1>1, GoroutineUpdates DEF PCs
<1> HIDE DEF p
<1>6. q \in Goroutine /\ q.pc = "running" /\ q.turn = Head(queues[l])
  BY <1>2, <1>5, GoroutineUpdates, TurnUpdates
<1> HIDE DEF q
<1>7. r \in Goroutine /\ r.pc = "running" /\ r.turn = Head(queues[l])
  BY <1>6, GoroutineUpdates, TurnUpdates DEF TypeOK
<1> HIDE DEF r
<1>8. Moves(gor', w, "running", Head(queues[l]))
  BY <1>4, <1>7 DEF Moves, TypeOK
<1> QED  BY <1>1, <1>3, <1>8 DEF BeginFlow

LEMMA EndFlows ==
  ASSUME TypeOK, NEW w \in Workers, NEW o \in Outcomes, EndTurn(w, o)
  PROVE  EndFlow(w)
<1> DEFINE b == Slug(gor[w].lane)
           t == gor[w].turn
           c == (o # "canceled")
           p == [gor[w] EXCEPT !.pc = "finish"]
           r == [p EXCEPT !.count = c]
           g == [gor EXCEPT ![w] = r]
           h == [gor EXCEPT ![w].pc = "finish", ![w].count = (o # "canceled")]
           again == [t EXCEPT !.retries = @ + 1]
           retry == [t EXCEPT !.attempts = @ + 1]
<1>1. gor[w] \in Goroutine /\ b \in Bots /\ t \in Turn
  BY DEF TypeOK, Goroutine, Lanes, Slug
<1>2. p \in Goroutine /\ p.pc = "finish" /\ p.turn = t
  BY <1>1, GoroutineUpdates, TurnUpdates DEF PCs
<1>3. g = h
  BY DEF TypeOK
<1>4. /\ gor[w].pc = "running"
      /\ \/ gor' = h /\ UNCHANGED <<queues, deferredLead>>
         \/ Enqueue(h, b, again) /\ t.retries < 2
         \/ Recover(h, b, t, o)
      /\ UNCHANGED <<active, nextId>>
  BY DEF EndTurn, Finishing, controlVars, TransientTurnRetryLimit
<1>5. ASSUME Recover(h, b, t, o)
      PROVE  \/ gor' = h /\ UNCHANGED <<queues, deferredLead>>
             \/ Enqueue(h, b, retry) /\ t.attempts < 2
  <2>1. PICK k \in RecoveryTasks(t), posted \in BOOLEAN :
          \/ gor' = h /\ UNCHANGED <<queues, deferredLead>>
          \/ Enqueue(h, b, retry) /\ t.attempts < RetryLimit(b, k, o = "transient")
    BY <1>5 DEF Recover
  <2>2. RetryLimit(b, k, o = "transient") \in 0 .. 2
    BY DEF RetryLimit
  <2>3. t.attempts \in Nat
    BY <1>1 DEF Turn
  <2> QED  BY <2>1, <2>2, <2>3
<1> HIDE DEF p
<1>6. r \in Goroutine /\ r.pc = "finish" /\ r.turn = t
  <2>1. c \in BOOLEAN
    OBVIOUS
  <2> HIDE DEF c
  <2> QED  BY <1>2, <2>1, GoroutineUpdates, TurnUpdates
<1>7. t.retries < 2 => again \in Turn /\ Again(again, t)
  BY <1>1 DEF Turn, Again
<1>8. t.attempts < 2 => retry \in Turn /\ Again(retry, t)
  BY <1>1 DEF Turn, Again
<1> HIDE DEF again, retry, r, h, c
<1>9. Moves(g, w, "finish", t) /\ g \in [Workers -> Goroutine]
  BY <1>1, <1>6 DEF Moves, TypeOK
<1> HIDE DEF g, b
<1>10. ASSUME gor' = h, UNCHANGED <<queues, deferredLead>>
       PROVE  Again(t, t) /\ EnqueueTurns(g, t)
  BY <1>3, <1>10, UntouchedStays DEF Again, EnqueueTurns, KeepsTurns
<1>11. ASSUME NEW u \in Turn, Enqueue(h, b, u)
       PROVE  EnqueueTurns(g, u)
  BY <1>1, <1>3, <1>9, <1>11, EnqueueFlow
<1>12. \E u \in Turn : Again(u, t) /\ EnqueueTurns(g, u)
  BY <1>1, <1>4, <1>5, <1>7, <1>8, <1>10, <1>11
<1> QED  BY <1>4, <1>9, <1>12 DEF EndFlow

LEMMA WakeFlows ==
  ASSUME TypeOK, NEW w \in Workers, WakeLead(w)
  PROVE  WakeFlow(w)
<1> DEFINE t == gor[w].turn
           p == [gor[w] EXCEPT !.pc = "recheck"]
           r == [p EXCEPT !.turn = NoTurn]
           g == [gor EXCEPT ![w] = r]
           h == [gor EXCEPT ![w].pc = "recheck", ![w].turn = NoTurn]
<1>1. gor[w] \in Goroutine /\ t.id \in Nat /\ nextId \in Nat /\ Lead \in Bots
  BY ConstantsAssumption DEF TypeOK, Goroutine, Turn
<1>2. p \in Goroutine /\ p.pc = "recheck"
  BY <1>1, GoroutineUpdates DEF PCs
<1>3. g = h
  BY DEF TypeOK
<1>4. /\ gor[w].pc = "wake" /\ active' = active
      /\ \/ \E k \in Tasks \cup {NoTask} :
              Enqueue(h, Lead, NewTurn(t.id, k, FALSE)) /\ nextId' = nextId
         \/ \E k \in Tasks \cup {NoTask} :
              Enqueue(h, Lead, NewTurn(nextId, k, FALSE)) /\ nextId' = nextId + 1
         \/ gor' = h /\ UNCHANGED <<queues, deferredLead, nextId>>
  BY DEF WakeLead
<1> HIDE DEF p
<1>5. r \in Goroutine /\ r.pc = "recheck" /\ r.turn = NoTurn
  BY <1>2, GoroutineUpdates, TurnUpdates, TurnTypes
<1> HIDE DEF r, h
<1>6. Moves(g, w, "recheck", NoTurn) /\ g \in [Workers -> Goroutine]
  BY <1>5 DEF Moves, TypeOK
<1> HIDE DEF g
<1>7. ASSUME NEW k \in Tasks \cup {NoTask}, NEW i \in Nat
      PROVE  /\ NewTurn(i, k, FALSE) \in Turn /\ NewTurn(i, k, FALSE).id = i
             /\ NewTurn(i, k, FALSE).attempts = 0 /\ NewTurn(i, k, FALSE).retries = 0
             /\ Enqueue(h, Lead, NewTurn(i, k, FALSE)) => EnqueueTurns(g, NewTurn(i, k, FALSE))
  <2> DEFINE u == NewTurn(i, k, FALSE)
  <2>1. u \in Turn /\ u.id = i /\ u.attempts = 0 /\ u.retries = 0
    BY TurnTypes, NewTurnFields
  <2> HIDE DEF u
  <2>2. Enqueue(h, Lead, u) => EnqueueTurns(g, u)
    BY <1>1, <1>3, <1>6, <2>1, EnqueueFlow
  <2> QED  BY <2>1, <2>2 DEF u
<1>8. ASSUME gor' = h, UNCHANGED <<queues, deferredLead>>, NEW u
      PROVE  EnqueueTurns(g, u)
  BY <1>3, <1>8, UntouchedStays DEF EnqueueTurns, KeepsTurns
<1>9. \E u \in Turn : /\ u.attempts = 0 /\ u.retries = 0
                      /\ \/ u.id = t.id /\ nextId' = nextId
                         \/ u.id = nextId /\ nextId' = nextId + 1
                      /\ EnqueueTurns(g, u)
  <2>1. CASE \E k \in Tasks \cup {NoTask} :
              Enqueue(h, Lead, NewTurn(t.id, k, FALSE)) /\ nextId' = nextId
    BY <1>1, <1>7, <2>1
  <2>2. CASE \E k \in Tasks \cup {NoTask} :
              Enqueue(h, Lead, NewTurn(nextId, k, FALSE)) /\ nextId' = nextId + 1
    BY <1>1, <1>7, <2>2
  <2>3. CASE gor' = h /\ UNCHANGED <<queues, deferredLead, nextId>>
    <3>1. NewTurn(t.id, NoTask, FALSE) \in Turn /\ EnqueueTurns(g, NewTurn(t.id, NoTask, FALSE))
      BY <1>1, <1>7, <1>8, <2>3
    <3> QED  BY <1>1, <1>7, <2>3, <3>1
  <2> QED  BY <1>4, <2>1, <2>2, <2>3
<1> QED  BY <1>4, <1>6, <1>9 DEF WakeFlow

LEMMA FinishFlows ==
  ASSUME TypeOK, NEW w \in Workers, FinishTurn(w)
  PROVE  FinishFlow(w)
<1> DEFINE l == gor[w].lane
           a == [active EXCEPT ![l] = NoWorker]
           wake == LeadShouldWake(Slug(l), a)
           pc1 == IF wake THEN "wake" ELSE "recheck"
           turn1 == IF wake THEN deferredLead ELSE NoTurn
           c == CancelActive(gor, l)
           p == [c[w] EXCEPT !.pc = pc1]
           q == [p EXCEPT !.turn = turn1]
           r == [q EXCEPT !.cancelled = FALSE]
           g == [c EXCEPT ![w] = r]
           h == [c EXCEPT ![w].pc = pc1, ![w].turn = turn1, ![w].cancelled = FALSE]
<1>1. l \in Lanes
  BY DEF TypeOK, Goroutine
<1>2. /\ gor[w].pc = "finish"
      /\ active' = a
      /\ deferredLead' = IF wake THEN NoTurn ELSE deferredLead
      /\ UNCHANGED <<queues, nextId>>
  BY DEF FinishTurn
<1>a. PICK S \in SUBSET Parked :
        \E f \in [S -> {v \in Workers : h[v].pc = "none"}] :
          gor' = [v \in Workers |->
                    IF \E m \in S : f[m] = v THEN Fresh(CHOOSE m \in S : f[m] = v) ELSE h[v]]
  BY DEF FinishTurn
<1>3. PICK f \in [S -> {v \in Workers : h[v].pc = "none"}] :
        gor' = [v \in Workers |->
                  IF \E m \in S : f[m] = v THEN Fresh(CHOOSE m \in S : f[m] = v) ELSE h[v]]
  BY <1>a
<1>4. /\ c \in [Workers -> Goroutine]
      /\ \A v \in Workers : c[v].pc = gor[v].pc /\ c[v].turn = gor[v].turn
  BY <1>1, CancelActiveKeeps, CancelActiveTurns DEF TypeOK
<1> HIDE DEF c
<1>5. g = h
  BY <1>4
<1>6. /\ pc1 \in PCs /\ turn1 \in Turn
      /\ \/ pc1 = "wake" /\ turn1 = deferredLead /\ deferredLead' = NoTurn
         \/ pc1 = "recheck" /\ turn1 = NoTurn /\ deferredLead' = deferredLead
  BY <1>2, TurnTypes DEF PCs, TypeOK
<1> HIDE DEF wake, pc1, turn1
<1>7. p \in Goroutine /\ p.pc = pc1
  BY <1>4, <1>6, GoroutineUpdates
<1> HIDE DEF p
<1>8. q \in Goroutine /\ q.pc = pc1 /\ q.turn = turn1
  BY <1>6, <1>7, GoroutineUpdates, TurnUpdates
<1> HIDE DEF q
<1>9. r \in Goroutine /\ r.pc = pc1 /\ r.turn = turn1
  BY <1>8, GoroutineUpdates, TurnUpdates
<1> HIDE DEF r
<1>10. Moves(g, w, pc1, turn1) /\ g \in [Workers -> Goroutine]
  BY <1>4, <1>9 DEF Moves
<1> HIDE DEF g, h
<1>11. KeepsTurns(g)
  <2>1. SUFFICES ASSUME NEW v \in Workers
                 PROVE  IF g[v].pc # "none"
                        THEN gor'[v].pc = g[v].pc /\ gor'[v].turn = g[v].turn
                        ELSE gor'[v].pc \in {"none", "top"} /\ gor'[v].turn \in {g[v].turn, NoTurn}
    BY DEF KeepsTurns
  <2>2. CASE \E m \in S : f[m] = v
    <3>1. g[v].pc = "none" /\ (CHOOSE m \in S : f[m] = v) \in S /\ S \subseteq Lanes
      BY <1>5, <2>2 DEF Parked
    <3>2. gor'[v] = Fresh(CHOOSE m \in S : f[m] = v)
      BY <1>3, <2>2
    <3> QED  BY <3>1, <3>2, FreshTurns
  <2>3. CASE ~ \E m \in S : f[m] = v
    <3>1. gor'[v] = g[v]
      BY <1>3, <1>5, <2>3
    <3> QED  BY <3>1
  <2> QED  BY <2>2, <2>3
<1> QED  BY <1>1, <1>2, <1>6, <1>10, <1>11 DEF FinishFlow

\* The steps of a worker that take no turn.
LEMMA WorkerQuiet ==
  ASSUME TypeOK, NEW w \in Workers, ExitOnStop(w) \/ PassGate(w) \/ BeginNothing(w) \/ Recheck(w)
  PROVE  QuietFlow
<1>1. gor[w] \in Goroutine /\ gor[w].lane \in Lanes
  BY DEF TypeOK, Goroutine
<1>2. ASSUME NEW r \in Goroutine, gor' = [gor EXCEPT ![w] = r],
             r.pc \notin {"running", "wake"}, r.turn \in {gor[w].turn, NoTurn},
             gor[w].pc \notin {"running", "finish"},
             UNCHANGED <<queues, deferredLead, active, nextId>>
      PROVE  QuietFlow
  <2>1. gor'[w] = r /\ \A v \in Workers : v # w => gor'[v] = gor[v]
    BY <1>2 DEF TypeOK
  <2> QED  BY <1>2, <2>1 DEF QuietFlow
<1>3. CASE ExitOnStop(w)
  BY <1>2, <1>3, GoroutineTypes, FreshTurns DEF ExitOnStop
<1>4. CASE PassGate(w)
  <2> DEFINE r == [gor[w] EXCEPT !.pc = "begin"]
  <2>1. gor' = [gor EXCEPT ![w] = r] /\ r \in Goroutine /\ r.pc = "begin" /\ r.turn = gor[w].turn
    BY <1>1, <1>4, GoroutineUpdates, TurnUpdates DEF PassGate, PCs
  <2> HIDE DEF r
  <2> QED  BY <1>2, <1>4, <2>1 DEF PassGate
<1>5. CASE BeginNothing(w)
  <2> DEFINE p == [gor[w] EXCEPT !.pc = "recheck"]
             r == [p EXCEPT !.count = FALSE]
  <2>1. gor' = [gor EXCEPT ![w] = r]
    BY <1>5 DEF BeginNothing, TypeOK
  <2>2. p \in Goroutine /\ p.pc = "recheck" /\ p.turn = gor[w].turn
    BY <1>1, GoroutineUpdates, TurnUpdates DEF PCs
  <2> HIDE DEF p
  <2>3. r \in Goroutine /\ r.pc = "recheck" /\ r.turn = gor[w].turn
    BY <2>2, GoroutineUpdates, TurnUpdates
  <2> HIDE DEF r
  <2> QED  BY <1>2, <1>5, <2>1, <2>3 DEF BeginNothing
<1>6. CASE Recheck(w)
  <2> DEFINE r == IF workers[gor[w].lane] THEN Fresh(gor[w].lane) ELSE Idle
  <2>1. gor' = [gor EXCEPT ![w] = r]
    BY <1>6 DEF Recheck
  <2>2. r \in Goroutine /\ r.pc \in {"none", "top"} /\ r.turn = NoTurn
    BY <1>1, GoroutineTypes, FreshTurns
  <2> HIDE DEF r
  <2> QED  BY <1>2, <1>6, <2>1, <2>2 DEF Recheck
<1> QED  BY <1>3, <1>4, <1>5, <1>6

\* The office around the queue takes no turn.
LEMMA OfficeQuiet ==
  ASSUME TypeOK,
         \/ GovernorPause \/ GovernorResume
         \/ \E B \in {Bots} \cup {{b} : b \in Bots} : CancelHeadlessTurns(B)
         \/ Drain \/ StopHeadlessWorkers
         \/ \E k \in Tasks : PrepareWorktree(k) \/ ReleaseWorktree(k)
         \/ \E k \in Tasks, s \in {"open", "handoff", "done"} : TaskUpdate(k, s)
  PROVE  QuietFlow
<1>1. ASSUME \A v \in Workers : gor'[v].pc = gor[v].pc /\ gor'[v].turn = gor[v].turn,
             UNCHANGED <<queues, deferredLead, active, nextId>>
      PROVE  QuietFlow
  BY <1>1 DEF QuietFlow
<1>2. \A v \in Workers : LET r == [gor[v] EXCEPT !.cancelled = TRUE]
                         IN r.pc = gor[v].pc /\ r.turn = gor[v].turn
  BY GoroutineUpdates, TurnUpdates DEF TypeOK
<1>3. ASSUME NEW B, CancelHeadlessTurns(B) PROVE QuietFlow
  BY <1>1, <1>2, <1>3 DEF CancelHeadlessTurns, CancelLanes
<1>4. CASE Drain \/ StopHeadlessWorkers
  BY <1>1, <1>2, <1>4 DEF Drain, StopHeadlessWorkers, CancelAllContexts
<1>5. CASE GovernorPause \/ GovernorResume
  BY <1>1, <1>5 DEF GovernorPause, GovernorResume
<1>6. ASSUME NEW k \in Tasks, PrepareWorktree(k) \/ ReleaseWorktree(k) PROVE QuietFlow
  BY <1>1, <1>6 DEF PrepareWorktree, ReleaseWorktree
<1>7. ASSUME NEW k \in Tasks, NEW s \in {"open", "handoff", "done"}, TaskUpdate(k, s)
      PROVE  QuietFlow
  BY <1>1, <1>7 DEF TaskUpdate
<1> QED  BY <1>3, <1>4, <1>5, <1>6, <1>7

\* Every step is one of the six flows.
LEMMA TurnFlow ==
  ASSUME TypeOK, [Next]_vars
  PROVE  \/ NotifyFlow \/ QuietFlow
         \/ \E w \in Workers : BeginFlow(w) \/ EndFlow(w) \/ FinishFlow(w) \/ WakeFlow(w)
<1>1. CASE UNCHANGED vars
  BY <1>1 DEF vars, QuietFlow
<1>2. ASSUME NEW in \in Inputs, Notify(in[1], in[2], in[3]) PROVE NotifyFlow
  BY <1>2, NotifyFlows
<1>3. ASSUME NEW w \in Workers, WorkerStep(w)
      PROVE  QuietFlow \/ BeginFlow(w) \/ EndFlow(w) \/ FinishFlow(w) \/ WakeFlow(w)
  BY <1>3, WorkerQuiet, BeginFlows, EndFlows, FinishFlows, WakeFlows DEF WorkerStep
<1> QED  BY <1>1, <1>2, <1>3, OfficeQuiet DEF Next

-----------------------------------------------------------------------------
(* The slots of the cost guard *)

CostInv == IsFiniteSet(ActiveLanes) /\ SlotsWithinCaps

\* Registered turns only end or go on.
Shrinks ==
  /\ \A l \in Lanes : active'[l] \in {active[l], NoWorker}
  /\ \A v \in Workers : gor[v].pc \in {"running", "finish"} =>
        gor'[v].turn = gor[v].turn \/ \A l \in Lanes : active'[l] # v

\* A set of lanes with at most one more than another.
LEMMA OneMore ==
  ASSUME NEW S, NEW T, NEW l, IsFiniteSet(S), T \subseteq S \cup {l}
  PROVE  /\ IsFiniteSet(T) /\ Cardinality(S) \in Nat /\ Cardinality(T) \in Nat
         /\ Cardinality(T) <= Cardinality(S) + 1
         /\ T \subseteq S => Cardinality(T) <= Cardinality(S)
<1> DEFINE x == Cardinality(S)
           y == Cardinality(S \cup {l})
           z == Cardinality(T)
<1>1. IsFiniteSet(S \cup {l}) /\ (y = x \/ y = x + 1)
  BY FS_AddElement
<1>2. IsFiniteSet(T) /\ z <= y
  BY <1>1, FS_Subset
<1>3. x \in Nat /\ y \in Nat /\ z \in Nat
  BY <1>1, <1>2, FS_CardinalityType
<1>4. T \subseteq S => z <= x
  BY FS_Subset
<1> HIDE DEF x, y, z
<1>5. z <= x + 1
  BY <1>1, <1>2, <1>3
<1> QED  BY <1>2, <1>3, <1>4, <1>5 DEF x, z

\* The guard after a step that takes no lane to the registered bot turns.
LEMMA CostKept ==
  ASSUME CostInv, IsFiniteSet(ActiveLanes'), BotLanes' \subseteq BotLanes
  PROVE  CostInv'
<1>1. IsFiniteSet(BotLanes) /\ \A b \in Bots : IsFiniteSet(LanesOf(b, BotLanes))
  BY FS_Subset DEF CostInv, BotLanes, LanesOf
<1>2. Cardinality(BotLanes') <= Cardinality(BotLanes)
      /\ Cardinality(BotLanes) \in Nat /\ Cardinality(BotLanes') \in Nat
  BY <1>1, OneMore
<1>3. GlobalCap > 0 => Cardinality(BotLanes') <= GlobalCap
  BY <1>2, ConstantsAssumption DEF CostInv, SlotsWithinCaps
<1>4. ASSUME NEW b \in Bots, PerBotCap > 0
      PROVE  Cardinality(LanesOf(b, BotLanes')) <= PerBotCap
  <2>1. LanesOf(b, BotLanes') \subseteq LanesOf(b, BotLanes)
    BY DEF LanesOf
  <2>2. /\ Cardinality(LanesOf(b, BotLanes')) <= Cardinality(LanesOf(b, BotLanes))
        /\ Cardinality(LanesOf(b, BotLanes)) \in Nat
        /\ Cardinality(LanesOf(b, BotLanes')) \in Nat
    BY <1>1, <2>1, OneMore
  <2>3. Cardinality(LanesOf(b, BotLanes)) <= PerBotCap
    BY <1>4 DEF CostInv, SlotsWithinCaps
  <2> QED  BY <2>2, <2>3, ConstantsAssumption
<1>5. \A b \in Bots : LanesOf(b, BotLanes)' = LanesOf(b, BotLanes')
  BY DEF LanesOf
<1> QED  BY <1>3, <1>4, <1>5 DEF CostInv, SlotsWithinCaps

\* Where registered turns only end or go on, no bot turn is added.
LEMMA CostShrinks ==
  ASSUME QueueInv, CostInv, Shrinks
  PROVE  CostInv'
<1>1. ActiveLanes' \subseteq ActiveLanes /\ IsFiniteSet(ActiveLanes)
  BY DEF ActiveLanes, CostInv, Shrinks
<1>2. BotLanes' \subseteq BotLanes
  <2>1. SUFFICES ASSUME NEW l \in Lanes, active'[l] # NoWorker, ~gor'[active'[l]].turn.human
                 PROVE  active[l] # NoWorker /\ ~gor[active[l]].turn.human
    BY DEF BotLanes, ActiveLanes
  <2>2. active'[l] = active[l] /\ active[l] \in Workers
    BY <2>1 DEF QueueInv, TypeOK, Shrinks
  <2>3. gor[active[l]].pc \in {"running", "finish"}
    BY <2>1, <2>2 DEF QueueInv, ActiveOwned
  <2> QED  BY <2>1, <2>2, <2>3 DEF Shrinks
<1> QED  BY <1>1, <1>2, FS_Subset, CostKept

\* A turn that begins leaves the bot turns registered in other lanes as they were.
LEMMA OldSlots ==
  ASSUME QueueInv, NEW w \in Workers, NEW t, gor[w].pc = "begin",
         Moves(gor', w, "running", t),
         NEW m \in Lanes, active'[m] = active[m], active'[m] # NoWorker,
         ~gor'[active'[m]].turn.human
  PROVE  m \in BotLanes
<1>1. active[m] \in Workers
  BY DEF QueueInv, TypeOK
<1>2. gor[active[m]].pc \in {"running", "finish"}
  BY DEF QueueInv, ActiveOwned
<1>3. active[m] # w
  BY <1>2
<1>4. gor'[active[m]].turn = gor[active[m]].turn
  BY <1>1, <1>3 DEF Moves
<1> QED  BY <1>4 DEF BotLanes, ActiveLanes

\* A bot turn begins only below the caps.
LEMMA CostBegins ==
  ASSUME QueueInv, CostInv, NEW w \in Workers, BeginFlow(w)
  PROVE  CostInv'
<1> DEFINE l == gor[w].lane
           t == Head(queues[l])
<1>1. /\ gor[w].pc = "begin" /\ l \in Lanes
      /\ t.human \/ MayStart(l)
      /\ active' = [active EXCEPT ![l] = w]
      /\ Moves(gor', w, "running", t)
  BY DEF BeginFlow
<1> HIDE DEF t
<1>2. active'[l] = w /\ \A m \in Lanes : m # l => active'[m] = active[m]
  BY <1>1 DEF QueueInv, TypeOK
<1> HIDE DEF l
<1>3. ActiveLanes' \subseteq ActiveLanes \cup {l} /\ IsFiniteSet(ActiveLanes)
  BY <1>2 DEF ActiveLanes, CostInv
<1>4. IsFiniteSet(ActiveLanes')
  BY <1>3, OneMore
<1>5. CASE MayStart(l)
  <2>1. BotLanes' \subseteq ActiveLanes \cup {l}
    BY <1>3 DEF BotLanes
  <2>2. FitsCaps(Cardinality(ActiveLanes), Cardinality(LanesOf(Slug(l), ActiveLanes)))
    BY <1>5 DEF MayStart
  <2>3. GlobalCap > 0 => Cardinality(BotLanes') <= GlobalCap
    <3>1. Cardinality(BotLanes') <= Cardinality(ActiveLanes) + 1
          /\ Cardinality(BotLanes') \in Nat /\ Cardinality(ActiveLanes) \in Nat
      BY <1>3, <2>1, OneMore
    <3> QED  BY <2>2, <3>1, ConstantsAssumption DEF FitsCaps
  <2>4. ASSUME NEW b \in Bots, PerBotCap > 0
        PROVE  Cardinality(LanesOf(b, BotLanes')) <= PerBotCap
    <3> DEFINE S == LanesOf(b, ActiveLanes)
               T == LanesOf(b, BotLanes')
    <3>1. IsFiniteSet(S)
      BY <1>3, FS_Subset DEF LanesOf
    <3>2. CASE b = Slug(l)
      <4>1. T \subseteq S \cup {l}
        BY <2>1 DEF LanesOf
      <4>2. Cardinality(T) <= Cardinality(S) + 1
            /\ Cardinality(T) \in Nat /\ Cardinality(S) \in Nat
        BY <3>1, <4>1, OneMore
      <4>3. Cardinality(S) < PerBotCap
        BY <2>2, <2>4, <3>2 DEF FitsCaps
      <4> QED  BY <4>2, <4>3, ConstantsAssumption
    <3>3. CASE b # Slug(l)
      <4>1. T \subseteq LanesOf(b, BotLanes)
        <5>1. SUFFICES ASSUME NEW m \in BotLanes', Slug(m) = b PROVE m \in BotLanes
          BY DEF LanesOf
        <5>2. /\ m \in Lanes /\ m # l /\ active'[m] # NoWorker
              /\ ~gor'[active'[m]].turn.human
          BY <3>3, <5>1 DEF BotLanes, ActiveLanes
        <5> QED  BY <1>1, <1>2, <5>2, OldSlots
      <4>2. IsFiniteSet(LanesOf(b, BotLanes))
        BY <1>3, FS_Subset DEF LanesOf, BotLanes
      <4>3. /\ Cardinality(T) <= Cardinality(LanesOf(b, BotLanes))
            /\ Cardinality(T) \in Nat /\ Cardinality(LanesOf(b, BotLanes)) \in Nat
        BY <4>1, <4>2, OneMore
      <4>4. Cardinality(LanesOf(b, BotLanes)) <= PerBotCap
        BY <2>4 DEF CostInv, SlotsWithinCaps
      <4> QED  BY <4>3, <4>4, ConstantsAssumption
    <3> QED  BY <3>2, <3>3
  <2>5. \A b \in Bots : LanesOf(b, BotLanes)' = LanesOf(b, BotLanes')
    BY DEF LanesOf
  <2> QED  BY <1>4, <2>3, <2>4, <2>5 DEF CostInv, SlotsWithinCaps
<1>6. CASE t.human
  <2>1. BotLanes' \subseteq BotLanes
    <3>1. SUFFICES ASSUME NEW m \in Lanes, active'[m] # NoWorker, ~gor'[active'[m]].turn.human
                   PROVE  m \in BotLanes
      BY DEF BotLanes, ActiveLanes
    <3>2. m # l
      BY <1>1, <1>2, <1>6, <3>1 DEF Moves
    <3> QED  BY <1>1, <1>2, <3>1, <3>2, OldSlots
  <2> QED  BY <1>4, <2>1, CostKept
<1> QED  BY <1>1, <1>5, <1>6

LEMMA CostNext == QueueInv /\ CostInv /\ [Next]_vars => CostInv'
<1> SUFFICES ASSUME QueueInv, CostInv, [Next]_vars PROVE CostInv'
  OBVIOUS
<1>1. TypeOK
  BY DEF QueueInv
<1>2. CASE NotifyFlow
  BY <1>2, CostShrinks DEF Shrinks, NotifyFlow, EnqueueTurns, KeepsTurns
<1>3. CASE QuietFlow
  BY <1>3, CostShrinks DEF Shrinks, QuietFlow
<1>4. ASSUME NEW w \in Workers, EndFlow(w) PROVE CostInv'
  BY <1>4, CostShrinks DEF Shrinks, EndFlow, EnqueueTurns, KeepsTurns, Moves
<1>5. ASSUME NEW w \in Workers, WakeFlow(w) PROVE CostInv'
  BY <1>5, CostShrinks DEF Shrinks, WakeFlow, EnqueueTurns, KeepsTurns, Moves
<1>6. ASSUME NEW w \in Workers, FinishFlow(w) PROVE CostInv'
  <2>1. gor[w].lane \in Lanes /\ active' = [active EXCEPT ![gor[w].lane] = NoWorker]
    BY <1>6 DEF FinishFlow
  <2>2. \A l \in Lanes : active'[l] \in {active[l], NoWorker}
    BY <1>1, <2>1 DEF TypeOK
  <2>3. \A l \in Lanes : active'[l] # w
    <3>1. w # NoWorker
      BY ConstantsAssumption
    <3>2. \A l \in Lanes : active[l] = w => l = gor[w].lane
      BY <3>1 DEF QueueInv, ActiveOwned
    <3> QED  BY <1>1, <2>1, <3>1, <3>2 DEF TypeOK
  <2>4. \A v \in Workers : v # w /\ gor[v].pc \in {"running", "finish"} => gor'[v].turn = gor[v].turn
    BY <1>6 DEF FinishFlow, KeepsTurns, Moves
  <2> QED  BY <2>2, <2>3, <2>4, CostShrinks DEF Shrinks
<1>7. ASSUME NEW w \in Workers, BeginFlow(w) PROVE CostInv'
  BY <1>7, CostBegins
<1> QED  BY <1>1, <1>2, <1>3, <1>4, <1>5, <1>6, <1>7, TurnFlow

\* Bot-originated turns never hold more registered slots than the global cap,
\* nor those of one bot more than the per-bot cap, however human turns, retries
\* and re-spawned lanes interleave.  (A turn that lost its slot to a second
\* goroutine of its lane is not counted, by the code or here.)
THEOREM SlotsAreBounded == Spec => []SlotsWithinCaps
<1>1. Init => CostInv
  <2> SUFFICES ASSUME Init PROVE CostInv
    OBVIOUS
  <2>1. ActiveLanes = {}
    BY DEF Init, ActiveLanes
  <2>2. BotLanes = {}
    BY <2>1 DEF BotLanes
  <2>3. IsFiniteSet({}) /\ Cardinality({}) = 0
    BY FS_EmptySet
  <2>4. \A b \in Bots : LanesOf(b, BotLanes) = {}
    BY <2>2 DEF LanesOf
  <2>5. GlobalCap > 0 => Cardinality(BotLanes) <= GlobalCap
    BY <2>2, <2>3, ConstantsAssumption
  <2>a. \A b \in Bots : Cardinality(LanesOf(b, BotLanes)) = 0
    BY <2>3, <2>4, Zenon
  <2>b. PerBotCap \in Nat
    BY ConstantsAssumption
  <2>6. PerBotCap > 0 => \A b \in Bots : Cardinality(LanesOf(b, BotLanes)) <= PerBotCap
    BY <2>a, <2>b
  <2> QED  BY <2>1, <2>3, <2>5, <2>6 DEF CostInv, SlotsWithinCaps
<1>2. CostInv => SlotsWithinCaps
  BY DEF CostInv
<1> QED  BY <1>1, <1>2, CostNext, QueueInvariant, PTL DEF Spec

-----------------------------------------------------------------------------
(* One notification, one place *)

\* Notification i is at position n of lane l, with goroutine v, or deferred.
InQueue(q, l, n, i) == n \in DOMAIN q[l] /\ q[l][n].id = i
AtWorker(g, v, i) == g[v].pc \in {"running", "wake"} /\ g[v].turn.id = i

Nowhere(q, g, d, i) ==
  /\ \A l \in Lanes : \A n : ~InQueue(q, l, n, i)
  /\ \A v \in Workers : ~AtWorker(g, v, i)
  /\ d.id # i

Once(q, g, d, i) ==
  /\ \A l, m \in Lanes : \A n, k : InQueue(q, l, n, i) /\ InQueue(q, m, k, i) => l = m /\ n = k
  /\ \A v, w \in Workers : AtWorker(g, v, i) /\ AtWorker(g, w, i) => v = w
  /\ (\E l \in Lanes : \E n : InQueue(q, l, n, i)) =>
       d.id # i /\ \A v \in Workers : ~AtWorker(g, v, i)
  /\ d.id = i => \A v \in Workers : ~AtWorker(g, v, i)

\* Every notification is in at most one place and no number is used before it
\* is handed out.
OnceInv ==
  /\ nextId > 0
  /\ \A i \in Nat \ {0} : Once(queues, gor, deferredLead, i)
  /\ \A i \in Nat : i >= nextId => Nowhere(queues, gor, deferredLead, i)

\* Enqueueing t leaves every other notification where it was.
LEMMA EnqueueElsewhere ==
  ASSUME NEW g, NEW t \in Turn, EnqueueTurns(g, t), NEW i \in Nat \ {0}, i # t.id
  PROVE  /\ Nowhere(queues, g, deferredLead, i) => Nowhere(queues', gor', deferredLead', i)
         /\ Once(queues, g, deferredLead, i) => Once(queues', gor', deferredLead', i)
<1>1. \A v \in Workers : AtWorker(gor', v, i) => AtWorker(g, v, i)
  BY DEF EnqueueTurns, KeepsTurns, AtWorker
<1>2. deferredLead'.id = i => deferredLead.id = i
  BY DEF EnqueueTurns
<1>3. \A l \in Lanes : \A n : InQueue(queues', l, n, i) => InQueue(queues, l, n, i)
  BY DEF EnqueueTurns, Puts, InQueue
<1> QED  BY <1>1, <1>2, <1>3 DEF Nowhere, Once

\* A notification that is nowhere is in at most one place once it is enqueued.
LEMMA EnqueueHere ==
  ASSUME NEW g, NEW t \in Turn, EnqueueTurns(g, t), t.id # 0,
         Nowhere(queues, g, deferredLead, t.id)
  PROVE  Once(queues', gor', deferredLead', t.id)
<1>1. \A v \in Workers : ~AtWorker(gor', v, t.id)
  BY DEF EnqueueTurns, KeepsTurns, AtWorker, Nowhere
<1>2. CASE UNCHANGED <<queues, deferredLead>>
  BY <1>1, <1>2 DEF Once, Nowhere
<1>3. CASE queues' = queues /\ deferredLead' = t
  BY <1>1, <1>3 DEF Once, Nowhere
<1>4. CASE deferredLead' = deferredLead /\ \E l \in Lanes : \E n : Puts(l, n, t)
  <2>1. PICK l \in Lanes : \E n : Puts(l, n, t)
    BY <1>4
  <2>2. PICK n : Puts(l, n, t)
    BY <2>1
  <2>3. \A m \in Lanes : \A k : InQueue(queues', m, k, t.id) => m = l /\ k = n
    BY <2>2 DEF Puts, InQueue, Nowhere
  <2> QED  BY <1>1, <1>4, <2>3 DEF Once, Nowhere
<1> QED  BY <1>2, <1>3, <1>4 DEF EnqueueTurns

\* Enqueueing a notification that is nowhere keeps every one in one place.
LEMMA EnqueueOnce ==
  ASSUME NEW g, NEW t \in Turn, EnqueueTurns(g, t),
         nextId \in Nat, nextId > 0, nextId' \in {nextId, nextId + 1}, t.id < nextId',
         \A i \in Nat \ {0} : Once(queues, g, deferredLead, i),
         \A i \in Nat : i >= nextId => Nowhere(queues, g, deferredLead, i),
         t.id # 0 => Nowhere(queues, g, deferredLead, t.id)
  PROVE  OnceInv'
<1>1. t.id \in Nat /\ nextId' > 0 /\ nextId' \in Nat
  BY DEF Turn
<1>2. ASSUME NEW i \in Nat \ {0} PROVE Once(queues', gor', deferredLead', i)
  BY <1>2, EnqueueElsewhere, EnqueueHere
<1>3. ASSUME NEW i \in Nat, i >= nextId' PROVE Nowhere(queues', gor', deferredLead', i)
  <2>1. i \in Nat \ {0} /\ i >= nextId /\ i # t.id
    BY <1>1, <1>3
  <2> QED  BY <2>1, EnqueueElsewhere
<1> QED  BY <1>1, <1>2, <1>3 DEF OnceInv

\* The caller's own step lets go of its notification and nothing else moves.
LEMMA LetGo ==
  ASSUME OnceInv, NEW w \in Workers, NEW g,
         \A v \in Workers : v # w => g[v].pc = gor[v].pc /\ g[v].turn = gor[v].turn,
         g[w].pc \notin {"running", "wake"},
         gor[w].pc \in {"running", "wake"}, gor[w].turn.id \in Nat
  PROVE  /\ \A i \in Nat \ {0} : Once(queues, g, deferredLead, i)
         /\ \A i \in Nat : i >= nextId => Nowhere(queues, g, deferredLead, i)
         /\ gor[w].turn.id # 0 => Nowhere(queues, g, deferredLead, gor[w].turn.id)
<1>1. \A v \in Workers : \A i : AtWorker(g, v, i) => AtWorker(gor, v, i) /\ v # w
  BY DEF AtWorker
<1>2. AtWorker(gor, w, gor[w].turn.id)
  BY DEF AtWorker
<1>3. ASSUME NEW i \in Nat \ {0} PROVE Once(queues, g, deferredLead, i)
  <2>1. Once(queues, gor, deferredLead, i)
    BY DEF OnceInv
  <2> QED  BY <1>1, <2>1 DEF Once
<1>4. ASSUME NEW i \in Nat, i >= nextId PROVE Nowhere(queues, g, deferredLead, i)
  <2>1. Nowhere(queues, gor, deferredLead, i)
    BY <1>4 DEF OnceInv
  <2> QED  BY <1>1, <2>1 DEF Nowhere
<1>5. ASSUME gor[w].turn.id # 0 PROVE Nowhere(queues, g, deferredLead, gor[w].turn.id)
  <2> DEFINE j == gor[w].turn.id
  <2>1. Once(queues, gor, deferredLead, j)
    BY <1>5 DEF OnceInv
  <2> HIDE DEF j
  <2>2. AtWorker(gor, w, j)
    BY <1>2 DEF j
  <2>3. Nowhere(queues, g, deferredLead, j)
    BY <1>1, <2>1, <2>2 DEF Once, Nowhere
  <2> QED  BY <2>3 DEF j
<1> QED  BY <1>3, <1>4, <1>5

\* The dequeued notification moves from the head of the queue to the worker.
LEMMA BeginOnce ==
  ASSUME TypeOK, OnceInv, NEW w \in Workers, BeginFlow(w)
  PROVE  OnceInv'
<1> DEFINE l == gor[w].lane
           q == queues[l]
<1>1. /\ gor[w].pc = "begin" /\ l \in Lanes /\ q # << >> /\ q \in Seq(Turn)
      /\ queues' = [queues EXCEPT ![l] = Tail(q)]
      /\ Moves(gor', w, "running", Head(q))
      /\ deferredLead' = deferredLead /\ nextId' = nextId
  BY DEF BeginFlow, TypeOK
<1>2. Head(q) = q[1] /\ 1 \in DOMAIN q
  BY <1>1
<1>3. \A n \in DOMAIN Tail(q) : n \in Nat /\ n # 0 /\ n + 1 \in DOMAIN q /\ Tail(q)[n] = q[n + 1]
  BY <1>1
<1>4. \A i : AtWorker(gor', w, i) => InQueue(queues, l, 1, i)
  BY <1>1, <1>2 DEF AtWorker, InQueue, Moves
<1>5. \A v \in Workers : v # w => \A i : AtWorker(gor', v, i) => AtWorker(gor, v, i)
  BY <1>1 DEF AtWorker, Moves
<1>6. queues'[l] = Tail(q) /\ \A m \in Lanes : m # l => queues'[m] = queues[m]
  BY <1>1 DEF TypeOK
<1>7. \A n, i : InQueue(queues', l, n, i) =>
              n \in Nat /\ n + 1 # 1 /\ InQueue(queues, l, n + 1, i)
  BY <1>3, <1>6 DEF InQueue
<1>8. \A m \in Lanes : m # l => \A n, i : InQueue(queues', m, n, i) => InQueue(queues, m, n, i)
  BY <1>6 DEF InQueue
<1> HIDE DEF l, q
<1>9. ASSUME NEW i \in Nat, Nowhere(queues, gor, deferredLead, i)
      PROVE  Nowhere(queues', gor', deferredLead', i)
  BY <1>1, <1>4, <1>5, <1>7, <1>8, <1>9 DEF Nowhere
<1>10. ASSUME NEW i \in Nat \ {0} PROVE Once(queues', gor', deferredLead', i)
  <2>1. Once(queues, gor, deferredLead, i)
    BY DEF OnceInv
  <2>2. ASSUME NEW m \in Lanes, NEW k \in Lanes, NEW n, NEW j,
               InQueue(queues', m, n, i), InQueue(queues', k, j, i)
        PROVE  m = k /\ n = j
    <3>1. m = k
      <4>1. (\E x : InQueue(queues, m, x, i)) /\ \E x : InQueue(queues, k, x, i)
        BY <1>7, <1>8, <2>2
      <4> QED  BY <2>1, <4>1 DEF Once
    <3>2. CASE m = l
      <4>1. n \in Nat /\ j \in Nat /\ n + 1 = j + 1
        BY <1>1, <1>7, <2>1, <2>2, <3>1, <3>2 DEF Once
      <4> QED  BY <3>1, <4>1
    <3>3. CASE m # l
      BY <1>8, <2>1, <2>2, <3>1, <3>3 DEF Once
    <3> QED  BY <3>2, <3>3
  <2>3. (\E m \in Lanes : \E n : InQueue(queues', m, n, i)) =>
          \E m \in Lanes : \E n : InQueue(queues, m, n, i) /\ (m # l \/ n # 1)
    <3>1. SUFFICES ASSUME NEW m \in Lanes, NEW n, InQueue(queues', m, n, i)
                   PROVE  \E k \in Lanes : \E j : InQueue(queues, k, j, i) /\ (k # l \/ j # 1)
      OBVIOUS
    <3>2. CASE m = l
      <4>1. InQueue(queues, m, n + 1, i) /\ n + 1 # 1
        BY <1>7, <3>1, <3>2
      <4> QED  BY <4>1
    <3>3. CASE m # l
      BY <1>8, <3>1, <3>3
    <3> QED  BY <3>2, <3>3
  <2>4. (\E m \in Lanes : \E n : InQueue(queues', m, n, i)) => ~AtWorker(gor', w, i)
    BY <1>1, <1>4, <2>1, <2>3 DEF Once
  <2>5. (\E m \in Lanes : \E n : InQueue(queues', m, n, i)) =>
          deferredLead.id # i /\ \A v \in Workers : v # w => ~AtWorker(gor', v, i)
    BY <1>5, <2>1, <2>3 DEF Once
  <2>6. ASSUME NEW v \in Workers, NEW u \in Workers, AtWorker(gor', v, i), AtWorker(gor', u, i)
        PROVE  v = u
    BY <1>1, <1>4, <1>5, <2>1, <2>6 DEF Once
  <2>7. deferredLead.id = i => \A v \in Workers : ~AtWorker(gor', v, i)
    BY <1>1, <1>4, <1>5, <2>1 DEF Once
  <2> QED  BY <1>1, <2>2, <2>4, <2>5, <2>6, <2>7 DEF Once
<1> QED  BY <1>1, <1>9, <1>10 DEF OnceInv

\* The finishing worker takes the deferred notification along.
LEMMA FinishOnce ==
  ASSUME TypeOK, OnceInv, NEW w \in Workers, FinishFlow(w)
  PROVE  OnceInv'
<1>1. PICK g \in [Workers -> Goroutine] :
        /\ \/ Moves(g, w, "wake", deferredLead) /\ deferredLead' = NoTurn
           \/ Moves(g, w, "recheck", NoTurn) /\ deferredLead' = deferredLead
        /\ KeepsTurns(g)
  BY DEF FinishFlow
<1>2. gor[w].pc = "finish" /\ queues' = queues /\ nextId' = nextId
  BY DEF FinishFlow
<1>3. NoTurn.id = 0
  BY DEF NoTurn
<1>4. \A v \in Workers : v # w => \A i : AtWorker(gor', v, i) => AtWorker(gor, v, i)
  BY <1>1 DEF AtWorker, Moves, KeepsTurns
<1>5. \/ deferredLead' = NoTurn /\ \A i : AtWorker(gor', w, i) => deferredLead.id = i
      \/ deferredLead' = deferredLead /\ \A i : ~AtWorker(gor', w, i)
  BY <1>1 DEF AtWorker, Moves, KeepsTurns
<1>6. ASSUME NEW i \in Nat \ {0}, Once(queues, gor, deferredLead, i)
      PROVE  Once(queues', gor', deferredLead', i)
  BY <1>2, <1>3, <1>4, <1>5, <1>6 DEF Once
<1>7. ASSUME NEW i \in Nat \ {0}, Nowhere(queues, gor, deferredLead, i)
      PROVE  Nowhere(queues', gor', deferredLead', i)
  BY <1>2, <1>3, <1>4, <1>5, <1>7 DEF Nowhere
<1>8. \A i \in Nat : i >= nextId' => i \in Nat \ {0} /\ i >= nextId
  BY <1>2 DEF OnceInv, TypeOK
<1> QED  BY <1>2, <1>6, <1>7, <1>8 DEF OnceInv

LEMMA OnceNext == TypeOK /\ OnceInv /\ [Next]_vars => OnceInv'
<1> SUFFICES ASSUME TypeOK, OnceInv, [Next]_vars PROVE OnceInv'
  OBVIOUS
<1>1. nextId \in Nat /\ nextId > 0 /\ \A v \in Workers : gor[v].turn.id \in Nat
  BY DEF TypeOK, OnceInv, Goroutine, Turn
<1>2. CASE NotifyFlow
  <2>1. PICK t \in Turn : t.id = nextId /\ nextId' = nextId + 1 /\ EnqueueTurns(gor, t)
    BY <1>2 DEF NotifyFlow
  <2>2. t.id < nextId' /\ Nowhere(queues, gor, deferredLead, t.id)
    BY <1>1, <2>1 DEF OnceInv
  <2> QED  BY <1>1, <2>1, <2>2, EnqueueOnce DEF OnceInv
<1>3. CASE QuietFlow
  <2>1. queues' = queues /\ deferredLead' = deferredLead /\ nextId' = nextId
        /\ \A v \in Workers : \A i : AtWorker(gor', v, i) => AtWorker(gor, v, i)
    BY <1>3 DEF QuietFlow, AtWorker
  <2>2. ASSUME NEW i, Once(queues, gor, deferredLead, i) PROVE Once(queues', gor', deferredLead', i)
    BY <2>1, <2>2 DEF Once
  <2>3. ASSUME NEW i, Nowhere(queues, gor, deferredLead, i)
        PROVE  Nowhere(queues', gor', deferredLead', i)
    BY <2>1, <2>3 DEF Nowhere
  <2> QED  BY <2>1, <2>2, <2>3 DEF OnceInv
<1>4. ASSUME NEW w \in Workers, EndFlow(w) PROVE OnceInv'
  <2>1. PICK g \in [Workers -> Goroutine] : \E t \in Turn :
          Moves(g, w, "finish", gor[w].turn) /\ Again(t, gor[w].turn) /\ EnqueueTurns(g, t)
    BY <1>4 DEF EndFlow
  <2>2. PICK t \in Turn :
          Moves(g, w, "finish", gor[w].turn) /\ Again(t, gor[w].turn) /\ EnqueueTurns(g, t)
    BY <2>1
  <2>3. gor[w].pc = "running" /\ nextId' = nextId /\ t.id = gor[w].turn.id
    BY <1>4, <2>2 DEF EndFlow, Again
  <2>4. t.id < nextId
    <3>1. AtWorker(gor, w, t.id) /\ t.id \in Nat
      BY <1>1, <2>3 DEF AtWorker
    <3> QED  BY <1>1, <3>1 DEF OnceInv, Nowhere
  <2>5. /\ \A i \in Nat \ {0} : Once(queues, g, deferredLead, i)
        /\ \A i \in Nat : i >= nextId => Nowhere(queues, g, deferredLead, i)
        /\ t.id # 0 => Nowhere(queues, g, deferredLead, t.id)
    BY <1>1, <2>2, <2>3, LetGo DEF Moves
  <2> QED  BY <1>1, <2>2, <2>3, <2>4, <2>5, EnqueueOnce
<1>5. ASSUME NEW w \in Workers, WakeFlow(w) PROVE OnceInv'
  <2>1. PICK g \in [Workers -> Goroutine] : \E t \in Turn :
          /\ Moves(g, w, "recheck", NoTurn) /\ EnqueueTurns(g, t)
          /\ \/ t.id = gor[w].turn.id /\ nextId' = nextId
             \/ t.id = nextId /\ nextId' = nextId + 1
    BY <1>5 DEF WakeFlow
  <2>2. PICK t \in Turn :
          /\ Moves(g, w, "recheck", NoTurn) /\ EnqueueTurns(g, t)
          /\ \/ t.id = gor[w].turn.id /\ nextId' = nextId
             \/ t.id = nextId /\ nextId' = nextId + 1
    BY <2>1
  <2>3. gor[w].pc = "wake"
    BY <1>5 DEF WakeFlow
  <2>4. gor[w].turn.id < nextId
    <3>1. AtWorker(gor, w, gor[w].turn.id)
      BY <2>3 DEF AtWorker
    <3> QED  BY <1>1, <3>1 DEF OnceInv, Nowhere
  <2>5. /\ \A i \in Nat \ {0} : Once(queues, g, deferredLead, i)
        /\ \A i \in Nat : i >= nextId => Nowhere(queues, g, deferredLead, i)
        /\ gor[w].turn.id # 0 => Nowhere(queues, g, deferredLead, gor[w].turn.id)
    BY <1>1, <2>2, <2>3, LetGo DEF Moves
  <2>6. t.id < nextId' /\ nextId' \in {nextId, nextId + 1}
    BY <1>1, <2>2, <2>4
  <2>7. t.id # 0 => Nowhere(queues, g, deferredLead, t.id)
    BY <1>1, <2>2, <2>5
  <2> QED  BY <1>1, <2>2, <2>5, <2>6, <2>7, EnqueueOnce
<1>6. ASSUME NEW w \in Workers, FinishFlow(w) \/ BeginFlow(w) PROVE OnceInv'
  BY <1>6, FinishOnce, BeginOnce
<1> QED  BY <1>2, <1>3, <1>4, <1>5, <1>6, TurnFlow

\* Two copies of one notification are the same copy.
LEMMA OnceIsSingle == OnceInv => SingleCopy
<1> SUFFICES ASSUME OnceInv, NEW i \in 1 .. MaxTurns PROVE Cardinality(Copies(i)) <= 1
  BY DEF SingleCopy
<1>1. Once(queues, gor, deferredLead, i)
  BY ConstantsAssumption DEF OnceInv
<1>2. ASSUME NEW p \in Copies(i), NEW r \in Copies(i) PROVE p = r
  <2> DEFINE Queued(x) == x \in Lanes \X (1 .. MaxTurns) /\ InQueue(queues, x[1], x[2], i)
             Held(x) == x \in Workers /\ AtWorker(gor, x, i)
             Back(x) == x = "deferred" /\ deferredLead.id = i
  <2>1. \A x \in Copies(i) : Queued(x) \/ Held(x) \/ Back(x)
    BY DEF Copies, InQueue, AtWorker
  <2>2. Queued(p) /\ Queued(r) => p = r
    <3>1. SUFFICES ASSUME Queued(p), Queued(r) PROVE p = r
      OBVIOUS
    <3>2. p[1] = r[1] /\ p[2] = r[2]
      BY <1>1, <3>1 DEF Once
    <3> QED  BY <3>1, <3>2
  <2>3. Held(p) /\ Held(r) => p = r
    BY <1>1 DEF Once
  <2>4. ~(Queued(p) /\ Held(r)) /\ ~(Queued(r) /\ Held(p))
    BY <1>1 DEF Once
  <2>5. \A x : Queued(x) => deferredLead.id # i
    BY <1>1 DEF Once
  <2>6. \A x : Held(x) => deferredLead.id # i
    BY <1>1 DEF Once
  <2> QED  BY <2>1, <2>2, <2>3, <2>4, <2>5, <2>6
<1>3. CASE Copies(i) = {}
  BY <1>3, FS_EmptySet
<1>4. CASE Copies(i) # {}
  <2>1. PICK p \in Copies(i) : TRUE
    BY <1>4
  <2>2. Copies(i) = {p}
    BY <1>2, <2>1
  <2> QED  BY <2>2, FS_Singleton
<1> QED  BY <1>3, <1>4

\* Retries, replacements, the deferred lead turn and its hand-over never put
\* one notification in two places, for any number of lanes and workers.
THEOREM NotificationsAreSingle == Spec => []SingleCopy
<1>1. Init => OnceInv
  <2> SUFFICES ASSUME Init PROVE OnceInv
    OBVIOUS
  <2>1. /\ \A l \in Lanes : \A n, i : ~InQueue(queues, l, n, i)
        /\ \A v \in Workers : \A i : ~AtWorker(gor, v, i)
        /\ deferredLead.id = 0 /\ nextId = 1
    BY FreshTurns DEF Init, InQueue, AtWorker, NoTurn
  <2> QED  BY <2>1 DEF OnceInv, Once, Nowhere
<1>2. QueueInv => TypeOK
  BY DEF QueueInv
<1> QED  BY <1>1, <1>2, OnceNext, OnceIsSingle, QueueInvariant, PTL DEF Spec

-----------------------------------------------------------------------------
(* The gate *)

Outside(r) == r.pc \in {"none", "top"}

\* Where no goroutine crosses the gate, the gate does not see the step.
LEMMA SamePlace ==
  ASSUME \A v \in Workers : Outside(gor'[v]) <=> Outside(gor[v])
  PROVE  Place' = Place
  BY DEF Place, Outside

\* An enqueue starts goroutines outside the gate only.
LEMMA EnqueueOutside ==
  ASSUME NEW g, KeepsTurns(g)
  PROVE  \A v \in Workers : Outside(gor'[v]) <=> Outside(g[v])
  BY DEF KeepsTurns, Outside

\* The steps of a turn, from its begin to the wake-up of the lead, are inside.
LEMMA TurnInside ==
  ASSUME TypeOK, NEW w \in Workers,
         \/ BeginTurn(w) \/ BeginNothing(w) \/ FinishTurn(w) \/ WakeLead(w)
         \/ \E o \in Outcomes : EndTurn(w, o)
  PROVE  UNCHANGED Gate!gateVars
<1>1. CASE BeginTurn(w)
  <2>1. gor[w].pc = "begin" /\ gor'[w].pc = "running"
        /\ \A v \in Workers : v # w => gor'[v].pc = gor[v].pc
    BY <1>1, BeginFlows DEF BeginFlow, Moves
  <2>2. Place' = Place
    BY <2>1, SamePlace DEF Outside
  <2> QED  BY <1>1, <2>2 DEF BeginTurn, controlVars, Gate!gateVars
<1>2. CASE BeginNothing(w)
  <2> DEFINE p == [gor[w] EXCEPT !.pc = "recheck"]
             r == [p EXCEPT !.count = FALSE]
  <2>1. gor' = [gor EXCEPT ![w] = r] /\ gor[w].pc = "begin"
    BY <1>2 DEF BeginNothing, TypeOK
  <2>2. gor[w] \in Goroutine
    BY DEF TypeOK
  <2>3. p \in Goroutine /\ p.pc = "recheck"
    BY <2>2, GoroutineUpdates DEF PCs
  <2> HIDE DEF p
  <2>4. r.pc = "recheck"
    BY <2>3, GoroutineUpdates
  <2> HIDE DEF r
  <2>5. gor'[w].pc = "recheck" /\ \A v \in Workers : v # w => gor'[v] = gor[v]
    BY <2>1, <2>4 DEF TypeOK
  <2>6. Place' = Place
    BY <2>1, <2>5, SamePlace DEF Outside
  <2> QED  BY <1>2, <2>6 DEF BeginNothing, controlVars, Gate!gateVars
<1>3. CASE FinishTurn(w)
  <2>1. PICK g \in [Workers -> Goroutine] :
             /\ g[w].pc \in {"wake", "recheck"} /\ KeepsTurns(g)
             /\ \A v \in Workers : v # w => g[v].pc = gor[v].pc
    BY <1>3, FinishFlows DEF FinishFlow, Moves
  <2>2. gor[w].pc = "finish"
    BY <1>3 DEF FinishTurn
  <2>3. \A v \in Workers : Outside(g[v]) <=> Outside(gor[v])
    BY <2>1, <2>2 DEF Outside
  <2>4. Place' = Place
    BY <2>1, <2>3, EnqueueOutside, SamePlace
  <2> QED  BY <1>3, <2>4 DEF FinishTurn, controlVars, Gate!gateVars
<1>4. CASE WakeLead(w)
  <2>1. PICK g \in [Workers -> Goroutine] :
             /\ g[w].pc = "recheck" /\ KeepsTurns(g)
             /\ \A v \in Workers : v # w => g[v].pc = gor[v].pc
    BY <1>4, WakeFlows DEF WakeFlow, Moves, EnqueueTurns
  <2>2. gor[w].pc = "wake"
    BY <1>4 DEF WakeLead
  <2>3. \A v \in Workers : Outside(g[v]) <=> Outside(gor[v])
    BY <2>1, <2>2 DEF Outside
  <2>4. Place' = Place
    BY <2>1, <2>3, EnqueueOutside, SamePlace
  <2> QED  BY <1>4, <2>4 DEF WakeLead, controlVars, Gate!gateVars
<1>5. ASSUME NEW o \in Outcomes, EndTurn(w, o) PROVE UNCHANGED Gate!gateVars
  <2>1. PICK g \in [Workers -> Goroutine] :
             /\ g[w].pc = "finish" /\ KeepsTurns(g)
             /\ \A v \in Workers : v # w => g[v].pc = gor[v].pc
    BY <1>5, EndFlows DEF EndFlow, Moves, EnqueueTurns
  <2>2. gor[w].pc = "running"
    BY <1>5 DEF EndTurn
  <2>3. \A v \in Workers : Outside(g[v]) <=> Outside(gor[v])
    BY <2>1, <2>2 DEF Outside
  <2>4. Place' = Place
    BY <2>1, <2>3, EnqueueOutside, SamePlace
  <2> QED  BY <1>5, <2>4 DEF EndTurn, controlVars, Gate!gateVars
<1> QED  BY <1>1, <1>2, <1>3, <1>4, <1>5

\* A goroutine crosses the gate at governorGate and at the tail of its loop.
LEMMA WorkerCrosses ==
  ASSUME TypeOK, NEW w \in Workers, ExitOnStop(w) \/ PassGate(w) \/ Recheck(w)
  PROVE  Gate!Enter(w) \/ Gate!Leave(w) \/ UNCHANGED Gate!gateVars
<1>1. gor[w] \in Goroutine /\ gor[w].lane \in Lanes /\ gor \in [Workers -> Goroutine]
  BY DEF TypeOK, Goroutine
<1>2. Place \in [Workers -> {"waiting", "inside"}]
  BY DEF Place
<1>3. CASE ExitOnStop(w)
  <2>1. gor[w].pc = "top" /\ gor'[w].pc = "none" /\ \A v \in Workers : v # w => gor'[v] = gor[v]
    BY <1>1, <1>3, FreshTurns DEF ExitOnStop
  <2>2. Place' = Place
    BY <2>1, SamePlace DEF Outside
  <2> QED  BY <1>3, <2>2 DEF ExitOnStop, controlVars, Gate!gateVars
<1>4. CASE PassGate(w)
  <2>1. [gor[w] EXCEPT !.pc = "begin"].pc = "begin"
    BY <1>1, GoroutineUpdates DEF PCs
  <2>2. gor[w].pc = "top" /\ gor'[w].pc = "begin" /\ \A v \in Workers : v # w => gor'[v] = gor[v]
    BY <1>1, <1>4, <2>1 DEF PassGate
  <2>3. Place[w] = "waiting" /\ Place' = [Place EXCEPT ![w] = "inside"]
    BY <2>2 DEF Place
  <2> QED  BY <1>4, <2>3 DEF PassGate, controlVars, Gate!Enter
<1>5. CASE Recheck(w)
  <2> DEFINE r == IF workers[gor[w].lane] THEN Fresh(gor[w].lane) ELSE Idle
  <2>1. gor' = [gor EXCEPT ![w] = r] /\ gor[w].pc = "recheck"
    BY <1>5 DEF Recheck
  <2>2. r.pc \in {"none", "top"}
    BY <1>1, FreshTurns
  <2> HIDE DEF r
  <2>3. gor'[w].pc \in {"none", "top"} /\ \A v \in Workers : v # w => gor'[v] = gor[v]
    BY <1>1, <2>1, <2>2
  <2>4. Place[w] = "inside" /\ Place' = [Place EXCEPT ![w] = "waiting"]
    BY <2>1, <2>3 DEF Place
  <2>5. paused' \in {paused, TRUE} /\ stopped' = stopped
    BY <1>5 DEF Recheck
  <2> QED  BY <2>4, <2>5 DEF Gate!Leave
<1> QED  BY <1>3, <1>4, <1>5

\* The office pauses and resumes the session, closes the queue, or does not
\* touch the gate.
LEMMA OfficeGate ==
  ASSUME TypeOK,
         \/ GovernorPause \/ GovernorResume
         \/ \E B \in {Bots} \cup {{b} : b \in Bots} : CancelHeadlessTurns(B)
         \/ Drain \/ StopHeadlessWorkers
         \/ \E k \in Tasks : PrepareWorktree(k) \/ ReleaseWorktree(k)
         \/ \E k \in Tasks, s \in {"open", "handoff", "done"} : TaskUpdate(k, s)
  PROVE  Gate!Shut \/ Gate!Open \/ Gate!Close \/ UNCHANGED Gate!gateVars
<1>1. \A v \in Workers : [gor[v] EXCEPT !.cancelled = TRUE].pc = gor[v].pc
  BY GoroutineUpdates DEF TypeOK
<1>2. ASSUME NEW B, CancelHeadlessTurns(B) PROVE UNCHANGED Gate!gateVars
  <2>1. \A v \in Workers : gor'[v].pc = gor[v].pc
    BY <1>1, <1>2 DEF CancelHeadlessTurns, CancelLanes
  <2>2. Place' = Place
    BY <2>1, SamePlace DEF Outside
  <2> QED  BY <1>2, <2>2 DEF CancelHeadlessTurns, controlVars, Gate!gateVars
<1>3. CASE Drain \/ StopHeadlessWorkers
  <2>1. \A v \in Workers : gor'[v].pc = gor[v].pc
    BY <1>1, <1>3 DEF Drain, StopHeadlessWorkers, CancelAllContexts
  <2>2. Place' = Place
    BY <2>1, SamePlace DEF Outside
  <2> QED  BY <1>3, <2>2 DEF Drain, StopHeadlessWorkers, Gate!Close, Gate!gateVars
<1>4. CASE GovernorPause \/ GovernorResume
  <2>1. Place' = Place
    BY <1>4 DEF GovernorPause, GovernorResume, Place
  <2> QED  BY <1>4, <2>1 DEF GovernorPause, GovernorResume, Gate!Shut, Gate!Open
<1>5. ASSUME NEW k \in Tasks, PrepareWorktree(k) \/ ReleaseWorktree(k)
      PROVE  UNCHANGED Gate!gateVars
  <2>1. Place' = Place
    BY <1>5 DEF PrepareWorktree, ReleaseWorktree, Place
  <2> QED  BY <1>5, <2>1 DEF PrepareWorktree, ReleaseWorktree, controlVars, Gate!gateVars
<1>6. ASSUME NEW k \in Tasks, NEW s \in {"open", "handoff", "done"}, TaskUpdate(k, s)
      PROVE  UNCHANGED Gate!gateVars
  <2>1. Place' = Place
    BY <1>6 DEF TaskUpdate, Place
  <2> QED  BY <1>6, <2>1 DEF TaskUpdate, controlVars, Gate!gateVars
<1> QED  BY <1>2, <1>3, <1>4, <1>5, <1>6

\* For any bots, lanes, workers and caps the queue takes its workers through
\* the dispatch gate that the governor implements: no enqueue, requeue,
\* re-spawn or wake-up starts a turn past governorGate or during a pause.
THEOREM QueueUsesGate == Spec => UsesGate
<1>1. Init => Gate!Init
  <2> SUFFICES ASSUME Init PROVE Gate!Init
    OBVIOUS
  <2>1. \A w \in Workers : gor[w].pc = "none"
    BY FreshTurns DEF Init
  <2>2. Place = [w \in Workers |-> "waiting"]
    BY <2>1 DEF Place
  <2> QED  BY <2>2 DEF Init, Gate!Init
<1>2. TypeOK /\ [Next]_vars => [Gate!Next]_(Gate!gateVars)
  <2> SUFFICES ASSUME TypeOK, [Next]_vars PROVE [Gate!Next]_(Gate!gateVars)
    OBVIOUS
  <2>1. CASE UNCHANGED vars
    BY <2>1 DEF vars, Place, Gate!gateVars
  <2>2. ASSUME NEW in \in Inputs, Notify(in[1], in[2], in[3])
        PROVE  UNCHANGED Gate!gateVars
    <3>1. KeepsTurns(gor)
      BY <2>2, NotifyFlows DEF NotifyFlow, EnqueueTurns
    <3>2. Place' = Place
      BY <3>1, EnqueueOutside, SamePlace
    <3> QED  BY <2>2, <3>2 DEF Notify, controlVars, Gate!gateVars
  <2>3. ASSUME NEW w \in Workers, WorkerStep(w)
        PROVE  Gate!Enter(w) \/ Gate!Leave(w) \/ UNCHANGED Gate!gateVars
    BY <2>3, WorkerCrosses, TurnInside DEF WorkerStep
  <2> QED  BY <2>1, <2>2, <2>3, OfficeGate DEF Next, Gate!Next
<1> QED  BY <1>1, <1>2, QueueTypes, PTL DEF Spec, UsesGate, Gate!Spec

-----------------------------------------------------------------------------
(* Queued work *)

\* The head of lane l is taken out and run.
Dispatched(l) ==
  /\ queues[l] # << >> /\ queues'[l] = Tail(queues[l])
  /\ \E w \in Workers : /\ active'[l] = w /\ gor'[w].pc = "running"
                        /\ gor'[w].turn = Head(queues[l])

LEMMA BeginDispatches ==
  ASSUME TypeOK, NEW w \in Workers, BeginFlow(w)
  PROVE  \A l \in Lanes : Stays(l) \/ Dispatched(l)
<1> DEFINE m == gor[w].lane
<1>1. /\ m \in Lanes /\ queues[m] # << >>
      /\ queues' = [queues EXCEPT ![m] = Tail(queues[m])]
      /\ active' = [active EXCEPT ![m] = w]
      /\ gor'[w].pc = "running" /\ gor'[w].turn = Head(queues[m])
  BY DEF BeginFlow, Moves
<1> HIDE DEF m
<1>2. /\ queues'[m] = Tail(queues[m]) /\ active'[m] = w
      /\ \A l \in Lanes : l # m => queues'[l] = queues[l]
  BY <1>1 DEF TypeOK
<1>3. Dispatched(m)
  BY <1>1, <1>2 DEF Dispatched
<1> QED  BY <1>2, <1>3, UntouchedStays

\* For any bots, lanes and caps, no step takes a bot's turn out of its queue but
\* to run it from the head or to put one that supersedes it in its place:
\* parking, pausing, cancelling, draining, shutting down, retrying and blocking
\* a task all leave the bots' turns whole and in order.
THEOREM QueuedWorkIsKept == Spec => QueuedTurnsLast
<1>1. TypeOK /\ [Next]_vars => [\A l \in Lanes : Stays(l) \/ Dispatched(l)]_vars
  <2> SUFFICES ASSUME TypeOK, [Next]_vars PROVE \A l \in Lanes : Stays(l) \/ Dispatched(l)
    OBVIOUS
  <2>1. CASE NotifyFlow
    BY <2>1 DEF NotifyFlow, EnqueueTurns
  <2>2. CASE QuietFlow
    BY <2>2, UntouchedStays DEF QuietFlow
  <2>3. ASSUME NEW w \in Workers, EndFlow(w) \/ WakeFlow(w)
        PROVE  \A l \in Lanes : Stays(l)
    BY <2>3 DEF EndFlow, WakeFlow, EnqueueTurns
  <2>4. ASSUME NEW w \in Workers, FinishFlow(w)
        PROVE  \A l \in Lanes : Stays(l)
    BY <2>4, UntouchedStays DEF FinishFlow
  <2> QED  BY <2>1, <2>2, <2>3, <2>4, BeginDispatches, TurnFlow
<1>2. [\A l \in Lanes : Stays(l) \/ Dispatched(l)]_vars
      => [\A l \in Lanes :
            \/ \A i \in DOMAIN queues[l] :
                 /\ i \in DOMAIN queues'[l]
                 /\ \/ queues'[l][i] = queues[l][i]
                    \/ queues[l][i].human
                    \/ Supersedes(Slug(l), queues'[l][i], queues[l][i])
            \/ /\ queues[l] # << >> /\ queues'[l] = Tail(queues[l])
               /\ \E w \in Workers : /\ active'[l] = w /\ gor'[w].pc = "running"
                                     /\ gor'[w].turn = Head(queues[l])]_vars
  BY DEF Stays, Dispatched
<1> QED  BY <1>1, <1>2, QueueTypes, PTL DEF Spec, QueuedTurnsLast

-----------------------------------------------------------------------------
(* Failed turns *)

\* A turn put into lane l waits there.
LEMMA PutWaits ==
  ASSUME NEW l \in Lanes, NEW i \in DOMAIN queues'[l], NEW u,
         queues'[l][i].task = u.task
  PROVE  SameTask(queues'[l], u) # {}
  BY DEF SameTask

\* The next attempt of a specialist's turn, enqueued while the turn is still
\* registered, is not taken for a duplicate of it.
LEMMA RetryFollowed ==
  ASSUME TypeOK, NEW w \in Workers, NEW g \in [Workers -> Goroutine],
         \A v \in Workers : g[v].turn = gor[v].turn,
         NEW t \in Turn, t.task = gor[w].turn.task, t.task \in Tasks,
         \/ t.attempts > gor[w].turn.attempts
         \/ t.retries > gor[w].turn.retries,
         NEW b \in Bots, b # Lead, Enqueue(g, b, t)
  PROVE  FollowedUp(w, b, t.task)
<1> DEFINE l == LaneFor(b, t.task)
           u == gor[w].turn
<1>1. /\ l \in Lanes /\ Slug(l) = b
      /\ queues \in [Lanes -> Seq(Turn)] /\ queues[l] \in Seq(Turn)
  BY LaneForType, LaneSlug DEF TypeOK
<1>2. u \in Turn /\ t.task = u.task
  BY DEF TypeOK, Goroutine
<1>3. CASE EnqueueDrop(g, b, t)
  <2>1. /\ active[l] # NoWorker /\ g[active[l]].turn.task = t.task
        /\ t.attempts <= g[active[l]].turn.attempts
        /\ t.retries <= g[active[l]].turn.retries
    BY <1>3 DEF EnqueueDrop, AlreadyHandling
  <2>2. active[l] \in Workers
    BY <1>1, <2>1 DEF TypeOK
  <2>3. active[l] # w
    <3> HIDE DEF l
    <3> SUFFICES ASSUME active[l] = w PROVE FALSE
      OBVIOUS
    <3>1. t.attempts <= u.attempts /\ t.retries <= u.retries
      BY <2>1
    <3> QED  BY <1>2, <3>1 DEF Turn
  <2> HIDE DEF l
  <2> QED  BY <1>1, <2>1, <2>2, <2>3 DEF FollowedUp
<1>4. CASE EnqueueReplace(g, b, t)
  <2> DEFINE S == SameTask(queues[l], t)
             i == CHOOSE i \in S : \A j \in S : i <= j
  <2>1. queues' = [queues EXCEPT ![l] = [queues[l] EXCEPT ![i] = t]] /\ S # {}
    BY <1>1, <1>4 DEF EnqueueReplace, ReplaceFirst, Replaceable
  <2>2. S \in SUBSET Nat
    <3>1. DOMAIN queues[l] = 1 .. Len(queues[l]) /\ Len(queues[l]) \in Nat
      BY <1>1, LenProperties
    <3> QED  BY <3>1 DEF SameTask
  <2> HIDE DEF S
  <2>3. \E n \in S : \A j \in S : n <= j
    BY <2>1, <2>2, LeastNatural
  <2>4. i \in S
    BY <2>3
  <2> HIDE DEF i
  <2>5. i \in DOMAIN queues[l]
    BY <2>4 DEF S, SameTask
  <2> HIDE DEF l
  <2>6. i \in DOMAIN queues'[l] /\ queues'[l][i] = t
    BY <1>1, <2>1, <2>5
  <2>7. SameTask(queues'[l], u) # {}
    BY <1>1, <1>2, <2>6, PutWaits
  <2> QED  BY <1>1, <2>7 DEF FollowedUp
<1>5. ASSUME NEW stale \in BOOLEAN, EnqueueAppend(g, b, t, stale)
      PROVE  FollowedUp(w, b, t.task)
  <2>1. queues' = [queues EXCEPT ![l] = Append(queues[l], t)]
    BY <1>1, <1>5 DEF EnqueueAppend
  <2> HIDE DEF l
  <2>2. queues'[l] = Append(queues[l], t)
    BY <1>1, <2>1
  <2>3. Len(queues[l]) + 1 \in DOMAIN queues'[l] /\ queues'[l][Len(queues[l]) + 1] = t
    BY <1>1, <2>2, AppendProperties, LenProperties
  <2>4. SameTask(queues'[l], u) # {}
    BY <1>1, <1>2, <2>3, PutWaits
  <2> QED  BY <1>1, <2>4 DEF FollowedUp
<1>6. ~EnqueueHold(g, b, t) /\ ~EnqueueAtLeadCap(g, b, t)
  BY DEF EnqueueHold, HeldForSpecialists, EnqueueAtLeadCap
<1> QED  BY <1>3, <1>4, <1>5, <1>6 DEF Enqueue

\* The end of a failed turn of a specialist on an open worktree task.
LEMMA EndFollowed ==
  ASSUME TypeOK, NEW w \in Workers, NEW o \in Failures, EndTurn(w, o),
         Slug(gor[w].lane) # Lead,
         gor[w].turn.task \in Isolated, status[gor[w].turn.task] = "open"
  PROVE  FollowedUp(w, Slug(gor[w].lane), gor[w].turn.task)
<1> DEFINE b == Slug(gor[w].lane)
           t == gor[w].turn
           k == t.task
           g == Finishing(w, o)
           again == [t EXCEPT !.retries = @ + 1]
           retry == [t EXCEPT !.attempts = @ + 1]
<1>1. gor[w] \in Goroutine /\ b \in Bots /\ t \in Turn /\ gor \in [Workers -> Goroutine]
  BY DEF TypeOK, Goroutine, Lanes, Slug
<1>2. k \in Tasks /\ k # NoTask
  BY ConstantsAssumption
<1>3. g \in [Workers -> Goroutine] /\ \A v \in Workers : g[v].turn = gor[v].turn
  <2> DEFINE c == (o # "canceled")
             p == [gor[w] EXCEPT !.pc = "finish"]
             r == [p EXCEPT !.count = c]
  <2>1. g = [gor EXCEPT ![w] = r]
    BY DEF Finishing, TypeOK
  <2>2. p \in Goroutine /\ p.turn = t
    BY <1>1, GoroutineUpdates, TurnUpdates DEF PCs
  <2>3. c \in BOOLEAN
    OBVIOUS
  <2> HIDE DEF p, c
  <2>4. r \in Goroutine /\ r.turn = t
    BY <2>2, <2>3, GoroutineUpdates, TurnUpdates
  <2> HIDE DEF r, g
  <2> QED  BY <1>1, <2>1, <2>4
<1>4. again \in Turn /\ again.task = k /\ again.retries > t.retries
  BY <1>1 DEF Turn
<1>5. retry \in Turn /\ retry.task = k /\ retry.attempts > t.attempts
  BY <1>1 DEF Turn
<1>6. Enqueue(g, b, again) \/ Recover(g, b, t, o)
  BY DEF EndTurn, Failures
<1> HIDE DEF g, again, retry
<1>7. ASSUME Recover(g, b, t, o)
      PROVE  Enqueue(g, b, retry) \/ status'[k] # "open"
  <2>1. RecoveryTasks(t) = {k}
    BY <1>2 DEF RecoveryTasks
  <2>2. \A posted \in BOOLEAN : ~AlreadyRecovered(k, posted)
    BY DEF AlreadyRecovered
  <2>3. \/ Enqueue(g, b, retry)
        \/ status' = [status EXCEPT ![k] = IF @ = "done" THEN @ ELSE "handoff"]
    BY <1>2, <1>7, <2>1, <2>2 DEF Recover, retry
  <2>4. status \in [Tasks -> {"open", "handoff", "done"}]
    BY DEF TypeOK
  <2> HIDE DEF k
  <2> QED  BY <1>2, <2>3, <2>4
<1>8. CASE Enqueue(g, b, again)
  <2> HIDE DEF b
  <2>1. FollowedUp(w, b, again.task)
    BY <1>1, <1>2, <1>3, <1>4, <1>8, RetryFollowed DEF b
  <2> QED  BY <1>4, <2>1 DEF b
<1>9. CASE Enqueue(g, b, retry)
  <2> HIDE DEF b
  <2>1. FollowedUp(w, b, retry.task)
    BY <1>1, <1>2, <1>3, <1>5, <1>9, RetryFollowed DEF b
  <2> QED  BY <1>5, <2>1 DEF b
<1>10. CASE status'[k] # "open"
  BY <1>10 DEF FollowedUp
<1> QED  BY <1>6, <1>7, <1>8, <1>9, <1>10

\* For any bots, tasks, worktrees and outcomes, a specialist's failed turn on an
\* open worktree task leaves the task handed off, queued again or with another
\* registered turn: no retry is dropped as a duplicate of the turn it repeats.
THEOREM FailedTurnsAreFollowedUp == Spec => FailuresAreFollowedUp
<1>1. TypeOK /\ [Next]_vars
      => [\A w \in Workers :
            LET b == Slug(gor[w].lane)
                k == gor[w].turn.task
            IN  /\ b # Lead /\ k \in Isolated /\ status[k] = "open"
                /\ \E o \in Failures : EndTurn(w, o)
                => FollowedUp(w, b, k)]_vars
  BY EndFollowed
<1> QED  BY <1>1, QueueTypes, PTL DEF Spec, FailuresAreFollowedUp

=============================================================================
