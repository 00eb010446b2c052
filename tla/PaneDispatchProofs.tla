------------------------- MODULE PaneDispatchProofs -------------------------
(***************************************************************************)
(* Proofs about PaneDispatch: for every set of panes, every number of      *)
(* goroutines, calls and notifications, one goroutine drains the queue, a  *)
(* pending turn is never left without it, and sends keep their distance.   *)
(***************************************************************************)
EXTENDS PaneDispatch, FiniteSetTheorems, SequenceTheorems, TLAPS

\* The inductive invariant.  OneWorker carries the other two: only the one live
\* goroutine can open the window or give the queue up.
PaneInv == TypeOK /\ OneWorker /\ PendingServed /\ SpacedSends

\* The empty turn of an idle goroutine is a turn.
LEMMA NoTurnType == NoTurn \in Turn
<1>1. Nowhere \in Panes
  BY PaneAssumption DEF Nowhere
<1>2. << >> \in Seq(Nat)
  OBVIOUS
<1> QED
  BY <1>1, <1>2 DEF NoTurn, Turn

\* One more attempt of a turn is a turn.
LEMMA AttemptType == ASSUME NEW t \in Turn PROVE [t EXCEPT !.attempts = @ + 1] \in Turn
<1>1. t.attempts + 1 \in Nat
  BY DEF Turn
<1> QED
  BY <1>1 DEF Turn

\* Only the empty queue has length 0.
LEMMA EmptyQueue == ASSUME NEW q \in Seq(Turn) PROVE q = << >> <=> Len(q) = 0
  BY EmptySeq

\* A nonempty queue of at most one turn has one.
LEMMA ShortQueue ==
  ASSUME NEW q \in Seq(Turn), Len(q) <= 1, q # << >> PROVE Len(q) = 1
<1>1. \A n \in Nat : n <= 1 /\ n # 0 => n = 1
  OBVIOUS
<1>2. Len(q) \in Nat /\ Len(q) # 0
  BY EmptyQueue, LenProperties
<1> QED
  BY <1>1, <1>2, Zenon

\* What the actions do to a turn and to the queue keeps their types: merging
\* into the last turn, dequeuing or bumping the first.
LEMMA QueueTypes ==
  ASSUME NEW q \in Seq(Turn), Len(q) = 1, NEW p \in Panes, NEW i \in Nat
  PROVE  /\ [q EXCEPT ![Len(q)].pane = p, ![Len(q)].text = Append(@, i)] \in Seq(Turn)
         /\ Len([q EXCEPT ![Len(q)].pane = p, ![Len(q)].text = Append(@, i)]) = 1
         /\ Tail(q) = << >>
         /\ Head(q) \in Turn
         /\ Bumped(q) \in Seq(Turn)
         /\ Len(Bumped(q)) <= 1
<1> DEFINE t == q[1]
           m == [q EXCEPT ![1].pane = p]
           u == [t EXCEPT !.pane = p]
           v == [u EXCEPT !.text = Append(@, i)]
<1>1. t \in Turn /\ Head(q) = t /\ DOMAIN q = {1}
  <2>1. DOMAIN q = 1 .. 1
    BY LenProperties
  <2>2. 1 .. 1 = {1}
    OBVIOUS
  <2>3. t \in Turn /\ Head(q) = t
    BY LenProperties
  <2> QED  BY <2>1, <2>2, <2>3
<1>2. u \in Turn /\ u.text = t.text
  BY <1>1 DEF Turn
<1>3. Append(u.text, i) \in Seq(Nat)
  BY <1>2 DEF Turn
<1>4. v \in Turn
  BY <1>2, <1>3 DEF Turn
<1>5. m \in Seq(Turn) /\ Len(m) = 1 /\ m[1] = u
  BY <1>1, <1>2
<1>6. [m EXCEPT ![1].text = Append(@, i)] \in Seq(Turn)
      /\ Len([m EXCEPT ![1].text = Append(@, i)]) = 1
  <2> HIDE DEF m, v, u, t
  <2>1. [m EXCEPT ![1] = v] \in Seq(Turn) /\ Len([m EXCEPT ![1] = v]) = 1
    BY <1>4, <1>5
  <2>2. [m EXCEPT ![1].text = Append(@, i)] = [m EXCEPT ![1] = v]
    BY <1>5 DEF v
  <2> QED
    BY <2>1, <2>2
<1>7. Tail(q) = << >> /\ Tail(q) \in Seq(Turn)
  <2>1. Tail(q) \in Seq(Turn) /\ Len(Tail(q)) = 0
    BY EmptyQueue
  <2> QED
    BY <2>1, EmptyQueue
<1>8. [t EXCEPT !.attempts = @ + 1] \in Turn
  BY <1>1, AttemptType
<1>9. [q EXCEPT ![1].attempts = @ + 1] \in Seq(Turn)
      /\ Len([q EXCEPT ![1].attempts = @ + 1]) = 1
  BY <1>8
<1>10. Bumped(q) \in Seq(Turn) /\ Len(Bumped(q)) <= 1
  BY <1>7, <1>9 DEF Bumped
<1> QED
  BY <1>1, <1>6, <1>7, <1>10

\* The initial state.
LEMMA InitInv == Init => PaneInv
<1> SUFFICES ASSUME Init PROVE PaneInv
  OBVIOUS
<1>1. TypeOK
  <2>1. gor \in [Workers -> [pc : PCs, turn : Turn]]
    BY NoTurnType DEF Init, Idle, PCs
  <2>2. queue \in Seq(Turn) /\ sent \in Seq(Seq(Nat))
    BY DEF Init
  <2> QED
    BY <2>1, <2>2 DEF Init, TypeOK
<1>2. OneWorker /\ PendingServed /\ SpacedSends
  BY DEF Init, OneWorker, PendingServed, SpacedSends, Live, Idle
<1> QED
  BY <1>1, <1>2 DEF PaneInv

\* An Enqueue call, up to the start of a goroutine.
LEMMA EnqueueInv ==
  ASSUME PaneInv,
         NEW p \in Panes, EnqueueChecked \/ EnqueueMerge(p) \/ EnqueueNew(p)
  PROVE  PaneInv'
<1> USE DEF PaneInv
<1>1. CASE EnqueueChecked
  BY <1>1 DEF EnqueueChecked, TypeOK, OneWorker, PendingServed, SpacedSends, Live
<1>2. CASE EnqueueMerge(p)
  <2>1. Len(queue) = 1 /\ next \in Nat /\ queue \in Seq(Turn)
    <3>1. queue \in Seq(Turn) /\ next \in Nat /\ Len(queue) <= 1
      BY DEF PendingServed, TypeOK
    <3>2. Len(queue) > 0 /\ Len(queue) \in Nat
      BY <1>2, <3>1 DEF EnqueueMerge
    <3> QED
      BY <3>1, <3>2
  <2>2. queue' \in Seq(Turn) /\ Len(queue') = 1
    BY <1>2, <2>1, QueueTypes DEF EnqueueMerge
  <2>0. Arrives /\ UNCHANGED <<worker, gor>>
    BY <1>2 DEF EnqueueMerge
  <2>3. TypeOK'
    BY <2>0, <2>2 DEF Arrives, TypeOK
  <2>4. OneWorker' /\ SpacedSends'
    BY <1>2 DEF EnqueueMerge, Arrives, OneWorker, SpacedSends, Live
  <2>5. PendingServed'
    BY <2>0, <2>1, <2>2, EmptyQueue DEF PendingServed
  <2> QED
    BY <2>3, <2>4, <2>5
<1>3. CASE EnqueueNew(p)
  <2> DEFINE t == [pane |-> p, text |-> <<next>>, attempts |-> 0]
  <2>1. t \in Turn
    BY DEF TypeOK, Turn
  <2>2. queue' \in Seq(Turn) /\ Len(queue') = 1
    BY <1>3, <2>1 DEF EnqueueNew
  <2>3. ~worker /\ Live = {}
        => \E w \in Workers : gor' = [gor EXCEPT ![w].pc = "top"] /\ worker' = TRUE
    BY <1>3 DEF EnqueueNew, StartWorker, Goto
  <2>4. worker => UNCHANGED <<gor, worker>>
    BY <1>3 DEF EnqueueNew, StartWorker, TypeOK
  <2>5. CASE worker
    BY <1>3, <2>2, <2>4, <2>5
       DEF EnqueueNew, Arrives, TypeOK, OneWorker, PendingServed, SpacedSends, Live
  <2>6. CASE ~worker
    <3>1. Live = {}
      BY <2>6 DEF OneWorker
    <3>2. PICK w \in Workers : gor' = [gor EXCEPT ![w].pc = "top"] /\ worker' = TRUE
      BY <2>3, <2>6, <3>1
    <3>3. \A v \in Workers : gor'[v].pc = IF v = w THEN "top" ELSE "none"
      BY <3>1, <3>2 DEF TypeOK, Live
    <3>4. TypeOK'
      BY <1>3, <2>2, <3>2 DEF EnqueueNew, Arrives, TypeOK, PCs
    <3>5. Live' = {w}
      BY <3>3 DEF Live
    <3>6. OneWorker' /\ PendingServed'
      BY <2>2, <3>2, <3>5 DEF OneWorker, PendingServed
    <3>7. SpacedSends'
      BY <1>3, <3>3 DEF EnqueueNew, Arrives, SpacedSends
    <3> QED
      BY <3>4, <3>6, <3>7
  <2> QED
    BY <2>5, <2>6
<1> QED
  BY <1>1, <1>2, <1>3

\* A step of the goroutine, from its first look at the queue to the end of a
\* send.
LEMMA WorkerInv ==
  ASSUME PaneInv, NEW w \in Workers, WorkerStep(w)
  PROVE  PaneInv'
<1> USE DEF PaneInv
<1>1. Live = {w} /\ worker /\ \A v \in Workers : v # w => gor[v].pc = "none"
  BY DEF WorkerStep, PeekExit, PeekWait, Wake, Take, SendOk, SendError, Landed, Failed,
         OneWorker, Live
<1>2. Idle \in [pc : PCs, turn : Turn] /\ [Idle EXCEPT !.pc = "top"] \in [pc : PCs, turn : Turn]
  BY NoTurnType DEF Idle, PCs
<1>3. queue # << >> => Len(queue) = 1
  <2>1. queue \in Seq(Turn) /\ Len(queue) <= 1
    BY DEF PendingServed, TypeOK
  <2> QED
    BY <2>1, ShortQueue
<1>4. CASE PeekExit(w)
  <2>1. TypeOK'
    BY <1>2, <1>4 DEF PeekExit, TypeOK
  <2>2. \A v \in Workers : gor'[v].pc = "none"
    BY <1>1, <1>4 DEF PeekExit, TypeOK, Idle
  <2>3. OneWorker' /\ PendingServed' /\ SpacedSends'
    BY <1>4, <2>2 DEF PeekExit, OneWorker, PendingServed, SpacedSends, Live
  <2> QED
    BY <2>1, <2>3
<1>5. ASSUME NEW pc \in PCs, pc # "none", gor' = [gor EXCEPT ![w].pc = pc],
             UNCHANGED <<worker, recent, draining, entering, next>>,
             sent' \in Seq(Seq(Nat)), queue' = queue,
             pc \in {"ready", "typing", "landed", "failed"} => ~recent
      PROVE  PaneInv'
  <2>1. TypeOK'
    BY <1>5 DEF TypeOK
  <2>2. \A v \in Workers : gor'[v].pc = IF v = w THEN pc ELSE "none"
    BY <1>1, <1>5 DEF TypeOK
  <2>3. Live' = {w}
    BY <1>5, <2>2 DEF Live
  <2>4. OneWorker' /\ PendingServed'
    BY <1>1, <1>5, <2>3 DEF OneWorker, PendingServed
  <2>5. SpacedSends'
    BY <1>5, <2>2 DEF SpacedSends
  <2> QED
    BY <2>1, <2>4, <2>5
<1>6. gor[w].turn.text \in Seq(Nat) /\ Append(sent, gor[w].turn.text) \in Seq(Seq(Nat))
  BY DEF TypeOK, Turn
<1>7. CASE PeekWait(w)
  BY <1>5, <1>7 DEF PeekWait, Goto, PCs, TypeOK
<1>8. CASE Wake(w)
  BY <1>5, <1>8 DEF Wake, Goto, PCs, TypeOK
<1>9. CASE SendOk(w)
  <2>1. ~recent
    BY <1>9 DEF SendOk, SpacedSends
  <2> QED
    BY <1>5, <1>6, <1>9, <2>1 DEF SendOk, Goto, PCs
<1>10. CASE SendError(w)
  <2>1. ~recent
    BY <1>10 DEF SendError, SpacedSends
  <2> QED
    BY <1>5, <1>6, <1>10, <2>1 DEF SendError, Goto, PCs, TypeOK
<1>11. ASSUME NEW g \in [pc : PCs, turn : Turn], g.pc # "none",
              gor' = [gor EXCEPT ![w] = g],
              UNCHANGED <<worker, draining, entering, sent, next>>,
              queue' \in Seq(Turn), Len(queue') <= 1, recent' \in BOOLEAN,
              g.pc \in {"ready", "typing", "landed", "failed"} => ~recent'
       PROVE  PaneInv'
  <2>1. TypeOK'
    BY <1>11 DEF TypeOK
  <2>2. \A v \in Workers : gor'[v].pc = IF v = w THEN g.pc ELSE "none"
    BY <1>1, <1>11 DEF TypeOK
  <2>3. Live' = {w}
    BY <1>11, <2>2 DEF Live
  <2>4. OneWorker' /\ PendingServed'
    BY <1>1, <1>11, <2>3 DEF OneWorker, PendingServed
  <2>5. SpacedSends'
    BY <1>11, <2>2 DEF SpacedSends
  <2> QED
    BY <2>1, <2>4, <2>5
<1>12. ([Idle EXCEPT !.pc = "top"]).pc = "top"
  BY DEF Idle
<1>13. CASE Take(w)
  <2>1. ~recent /\ recent \in BOOLEAN /\ queue \in Seq(Turn) /\ Len(queue) <= 1
    BY <1>13 DEF Take, SpacedSends, PendingServed, TypeOK
  <2>2. CASE queue = << >>
    <3>1. gor' = [gor EXCEPT ![w] = [Idle EXCEPT !.pc = "top"]]
      BY <1>13, <2>2 DEF Take
    <3> QED
      BY <1>2, <1>11, <1>12, <1>13, <2>1, <3>1 DEF Take
  <2>3. CASE queue # << >>
    <3> DEFINE g == [pc |-> "typing", turn |-> Head(queue)]
    <3>1. gor' = [gor EXCEPT ![w] = g]
      BY <1>13, <2>3 DEF Take
    <3>2. g \in [pc : PCs, turn : Turn] /\ g.pc = "typing"
      BY <2>1, <2>3 DEF PCs
    <3> HIDE DEF g
    <3> QED
      BY <1>11, <1>13, <2>1, <3>1, <3>2 DEF Take
  <2> QED
    BY <2>2, <2>3
<1>14. CASE Landed(w)
  <2>1. queue' \in Seq(Turn) /\ Len(queue') <= 1
    <3>1. queue \in Seq(Turn)
      BY DEF TypeOK
    <3>2. CASE queue = << >>
      BY <1>14, <3>1, <3>2 DEF Landed
    <3>3. CASE queue # << >>
      <4>1. queue' = Tail(queue) /\ Len(queue) = 1
        BY <1>3, <1>14, <3>3 DEF Landed
      <4> QED
        BY <3>1, <3>3, <4>1
    <3> QED
      BY <3>2, <3>3
  <2> QED
    BY <1>2, <1>11, <1>12, <1>14, <2>1 DEF Landed
<1>15. CASE Failed(w)
  <2>1. queue' \in Seq(Turn) /\ Len(queue') <= 1
    <3>1. CASE queue = << >>
      BY <1>15, <3>1 DEF Failed, Bumped, TypeOK
    <3>2. CASE queue # << >>
      BY <1>3, <1>15, <3>2, QueueTypes, PaneAssumption DEF Failed, TypeOK
    <3> QED
      BY <3>1, <3>2
  <2> QED
    BY <1>2, <1>11, <1>12, <1>15, <2>1 DEF Failed, TypeOK
<1> QED
  BY <1>4, <1>7, <1>8, <1>9, <1>10, <1>13, <1>14, <1>15 DEF WorkerStep

\* Every step of the specification.
LEMMA NextInv == PaneInv /\ [Next]_vars => PaneInv'
<1> SUFFICES ASSUME PaneInv, [Next]_vars PROVE PaneInv'
  OBVIOUS
<1>1. CASE \E p \in Panes : EnqueueMerge(p) \/ EnqueueNew(p)
  BY <1>1, EnqueueInv
<1>2. CASE EnqueueChecked
  BY <1>2, EnqueueInv, PaneAssumption
<1>3. CASE \E w \in Workers : WorkerStep(w)
  BY <1>3, WorkerInv
<1>4. CASE Drain
  BY <1>4 DEF Drain, PaneInv, TypeOK, OneWorker, PendingServed, SpacedSends, Live
<1>6. CASE WindowEnds
  <2>1. TypeOK'
    BY <1>6 DEF WindowEnds, PaneInv, TypeOK
  <2>2. OneWorker' /\ PendingServed'
    BY <1>6 DEF WindowEnds, PaneInv, OneWorker, PendingServed, Live
  <2>3. SpacedSends'
    BY <1>6 DEF WindowEnds, SpacedSends
  <2> QED
    BY <2>1, <2>2, <2>3 DEF PaneInv
<1>5. CASE UNCHANGED vars
  BY <1>5 DEF vars, PaneInv, TypeOK, OneWorker, PendingServed, SpacedSends, Live
<1> QED
  BY <1>1, <1>2, <1>3, <1>4, <1>5, <1>6 DEF Next

\* The worker flag, the goroutines and the queue agree in every reachable
\* state: one goroutine at most types into the pane and a pending turn has one.
THEOREM OneWorkerServes == Spec => [](TypeOK /\ OneWorker /\ PendingServed)
<1>1. PaneInv => TypeOK /\ OneWorker /\ PendingServed
  BY DEF PaneInv
<1> QED
  BY <1>1, InitInv, NextInv, PTL DEF Spec

\* No goroutine is about to type, typing or settling a send while the coalesce
\* window of an earlier successful send is open.
THEOREM SendsAreSpaced == Spec => []SpacedSends
<1>1. PaneInv => SpacedSends
  BY DEF PaneInv
<1> QED
  BY <1>1, InitInv, NextInv, PTL DEF Spec

-----------------------------------------------------------------------------
(* What the pane receives *)

\* The sends that carried notification n.
Hits(n) == {i \in DOMAIN sent : n \in Range(sent[i])}

Sending(w) == gor[w].pc \in {"typing", "landed", "failed"}
Settling == \E w \in Workers : gor[w].pc \in {"landed", "failed"}

\* Nothing is queued or sent before its number is handed out.
Numbered ==
  /\ \A i \in DOMAIN sent : \A n \in Range(sent[i]) : n \in Nat /\ n < next
  /\ queue # << >> => \A n \in Range(queue[1].text) : n \in Nat /\ n < next

\* The text being typed is a beginning of the pending text: merging only adds
\* later notifications to what a send has already read.
Typed ==
  \A w \in Workers : Sending(w) =>
    /\ queue # << >>
    /\ Range(gor[w].turn.text) \subseteq Range(queue[1].text)
    /\ \A m \in Range(gor[w].turn.text), n \in Range(queue[1].text) :
         n < m => n \in Range(gor[w].turn.text)

\* What has been sent, and what is pending after it, are in order.
Ordered ==
  /\ \A i, j \in DOMAIN sent : \A m \in Range(sent[i]), n \in Range(sent[j]) :
       i < j /\ n < m => n \in Range(sent[i])
  /\ queue # << >> =>
       \A i \in DOMAIN sent : \A m \in Range(sent[i]), n \in Range(queue[1].text) :
         n < m => n \in Range(sent[i])

\* The attempts of the pending turn count the sends of everything in it.
Counted ==
  /\ \A n \in Nat : Cardinality(Hits(n)) <= MaxAttempts
  /\ queue # << >> =>
       /\ queue[1].attempts < MaxAttempts
       /\ \A n \in Range(queue[1].text) :
            Cardinality(Hits(n)) <= queue[1].attempts + (IF Settling THEN 1 ELSE 0)

OrderInv == Numbered /\ Typed /\ Ordered /\ Counted

\* The sends that carried a notification are finitely many.
LEMMA HitsFinite ==
  ASSUME TypeOK, NEW n
  PROVE  IsFiniteSet(Hits(n)) /\ Cardinality(Hits(n)) \in Nat
<1>1. sent \in Seq(Seq(Nat)) /\ DOMAIN sent = 1 .. Len(sent) /\ Len(sent) \in Nat
  BY LenProperties DEF TypeOK
<1>2. IsFiniteSet(1 .. Len(sent))
  BY <1>1, FS_Interval
<1>3. IsFiniteSet(Hits(n))
  BY <1>1, <1>2, FS_Subset DEF Hits
<1> QED  BY <1>3, FS_CardinalityType

\* A step that sends nothing and leaves the queue, the numbers and the settling
\* goroutines as they are.
LEMMA OrderStays ==
  ASSUME OrderInv, UNCHANGED <<queue, sent, next>>,
         \A v \in Workers : Sending(v)' => Sending(v) /\ gor'[v].turn = gor[v].turn,
         Settling' <=> Settling
  PROVE  OrderInv'
<1>1. Numbered' /\ Ordered'
  BY DEF OrderInv, Numbered, Ordered
<1>2. Typed'
  BY DEF OrderInv, Typed
<1>3. \A n : Hits(n)' = Hits(n)
  BY DEF Hits
<1>4. Counted'
  BY <1>3 DEF OrderInv, Counted
<1> QED  BY <1>1, <1>2, <1>4 DEF OrderInv

\* The queue becomes empty and nobody is sending.
LEMMA OrderEmpties ==
  ASSUME OrderInv, queue' = << >>, UNCHANGED <<sent, next>>, \A v \in Workers : ~Sending(v)'
  PROVE  OrderInv'
<1>1. Numbered' /\ Ordered' /\ Typed'
  BY DEF OrderInv, Numbered, Ordered, Typed
<1>2. \A n : Hits(n)' = Hits(n)
  BY DEF Hits
<1>3. Counted'
  BY <1>2 DEF OrderInv, Counted
<1> QED  BY <1>1, <1>3 DEF OrderInv

\* What appending to a sequence does to its entries.
LEMMA AppendEntries ==
  ASSUME NEW S, NEW s \in Seq(S), NEW x \in S
  PROVE  /\ Len(s) + 1 \notin DOMAIN s /\ \A i \in DOMAIN s : i \in Nat /\ i < Len(s) + 1
         /\ DOMAIN Append(s, x) = DOMAIN s \cup {Len(s) + 1}
         /\ Append(s, x)[Len(s) + 1] = x
         /\ \A i \in DOMAIN s : Append(s, x)[i] = s[i]
         /\ Range(Append(s, x)) = Range(s) \cup {x}
<1> DEFINE a == Append(s, x)
           k == Len(s)
<1>1. k \in Nat /\ DOMAIN s = 1 .. k
  BY LenProperties
<1>2. /\ a \in Seq(S) /\ Len(a) = k + 1 /\ DOMAIN a = 1 .. Len(a)
      /\ a[k + 1] = x /\ \A i \in 1 .. k : a[i] = s[i]
  BY AppendProperties, LenProperties
<1> HIDE DEF a, k
<1>3. k + 1 \notin 1 .. k /\ 1 .. (k + 1) = (1 .. k) \cup {k + 1}
      /\ \A i \in 1 .. k : i \in Nat /\ i < k + 1
  BY <1>1
<1>4. Range(a) = Range(s) \cup {x}
  <2>1. \A i \in DOMAIN a : (i \in DOMAIN s /\ a[i] = s[i]) \/ a[i] = x
    BY <1>1, <1>2, <1>3
  <2>2. \A i \in DOMAIN s : i \in DOMAIN a /\ a[i] = s[i]
    BY <1>1, <1>2, <1>3
  <2>3. k + 1 \in DOMAIN a
    BY <1>2, <1>3
  <2> QED  BY <1>2, <2>1, <2>2, <2>3 DEF Range
<1> QED  BY <1>1, <1>2, <1>3, <1>4 DEF a, k

\* Merging adds the new notification and keeps the attempts.
LEMMA MergedTurn ==
  ASSUME NEW q \in Seq(Turn), Len(q) = 1, NEW p \in Panes, NEW i \in Nat
  PROVE  \A r : r = [q EXCEPT ![Len(q)].pane = p, ![Len(q)].text = Append(@, i)] =>
           r # << >> /\ r[1].attempts = q[1].attempts /\ r[1].text = Append(q[1].text, i)
<1> DEFINE t == q[1]
           m == [q EXCEPT ![1].pane = p]
           u == [t EXCEPT !.pane = p]
           v == [u EXCEPT !.text = Append(@, i)]
<1>1. t \in Turn /\ DOMAIN q = {1} /\ Len(q) = 1
  <2>1. DOMAIN q = 1 .. 1
    BY LenProperties
  <2>2. 1 .. 1 = {1}
    OBVIOUS
  <2>3. t \in Turn
    BY LenProperties
  <2> QED  BY <2>1, <2>2, <2>3
<1>2. u \in Turn /\ u.text = t.text /\ u.attempts = t.attempts
  BY <1>1 DEF Turn
<1>3. m \in Seq(Turn) /\ Len(m) = 1 /\ m[1] = u /\ DOMAIN m = {1}
  BY <1>1, <1>2
<1> SUFFICES ASSUME NEW r,
                    r = [q EXCEPT ![Len(q)].pane = p, ![Len(q)].text = Append(@, i)]
             PROVE  r # << >> /\ r[1].attempts = q[1].attempts /\ r[1].text = Append(q[1].text, i)
  OBVIOUS
<1>4. r = [m EXCEPT ![1].text = Append(@, i)]
  BY <1>1
<1> HIDE DEF u
<1>5. v.text = Append(t.text, i) /\ v.attempts = t.attempts
  BY <1>2 DEF Turn
<1> HIDE DEF m, v
<1>6. r[1] = v
  BY <1>3, <1>4 DEF v
<1>7. r # << >>
  <2>1. DOMAIN r = DOMAIN m
    BY <1>4
  <2> QED  BY <1>3, <2>1
<1> QED  BY <1>5, <1>6, <1>7

\* A notification joins the pending turn, or starts one.
LEMMA OrderArrives ==
  ASSUME TypeOK, OrderInv,
         queue' # << >>, sent' = sent, next' = next + 1,
         \A v \in Workers : Sending(v)' => Sending(v) /\ gor'[v].turn = gor[v].turn,
         Settling' <=> Settling,
         queue # << >> => /\ Range(queue'[1].text) = Range(queue[1].text) \cup {next}
                          /\ queue'[1].attempts = queue[1].attempts,
         queue = << >> => Range(queue'[1].text) = {next} /\ queue'[1].attempts = 0
  PROVE  OrderInv'
<1> USE DEF OrderInv
<1>1. next \in Nat /\ next < next' /\ \A n \in Nat : n < next => n < next' /\ ~(next < n)
  BY DEF TypeOK
<1>2. Numbered'
  BY <1>1 DEF Numbered
<1>3. Typed'
  <2>1. SUFFICES ASSUME NEW w \in Workers, Sending(w)'
                 PROVE  /\ Range(gor[w].turn.text) \subseteq Range(queue'[1].text)
                        /\ \A m \in Range(gor[w].turn.text), n \in Range(queue'[1].text) :
                             n < m => n \in Range(gor[w].turn.text)
    BY DEF Typed
  <2>2. /\ queue # << >> /\ Range(gor[w].turn.text) \subseteq Range(queue[1].text)
        /\ \A m \in Range(gor[w].turn.text), n \in Range(queue[1].text) :
             n < m => n \in Range(gor[w].turn.text)
    BY <2>1 DEF Typed
  <2>3. \A m \in Range(gor[w].turn.text) : ~(next < m)
    BY <1>1, <2>2 DEF Numbered
  <2> QED  BY <2>2, <2>3
<1>4. Ordered'
  BY <1>1 DEF Ordered, Numbered
<1>5. \A n : Hits(n)' = Hits(n)
  BY DEF Hits
<1>6. Hits(next) = {}
  BY <1>1 DEF Hits, Numbered
<1>7. Cardinality(Hits(next)) = 0
  BY <1>6, FS_EmptySet
<1>8. Counted'
  <2>1. \A n \in Nat : Cardinality(Hits(n)') <= MaxAttempts
    BY <1>5 DEF Counted
  <2>2. queue'[1].attempts < MaxAttempts
    BY PaneAssumption DEF Counted
  <2>3. ASSUME NEW n \in Range(queue'[1].text)
        PROVE  Cardinality(Hits(n)') <= queue'[1].attempts + (IF Settling THEN 1 ELSE 0)
    <3>1. CASE queue # << >> /\ n \in Range(queue[1].text)
      BY <1>5, <3>1 DEF Counted
    <3>2. CASE n = next
      <4>1. queue'[1].attempts \in Nat
        <5>1. queue # << >> => queue[1] \in Turn
          BY DEF TypeOK
        <5> QED  BY <5>1 DEF Turn
      <4> QED  BY <1>5, <1>7, <3>2, <4>1
    <3> QED  BY <2>3, <3>1, <3>2
  <2> QED  BY <2>1, <2>2, <2>3 DEF Counted
<1> QED  BY <1>2, <1>3, <1>4, <1>8

\* A text reaches the pane: it begins the pending text, so everything sent
\* stays in order, and one more attempt of the pending turn pays for it.
LEMMA OrderSends ==
  ASSUME TypeOK, OrderInv, ~Settling, NEW w \in Workers, gor[w].pc = "typing",
         gor' = [gor EXCEPT ![w].pc = gor'[w].pc], gor'[w].pc \in {"landed", "failed"},
         sent' = Append(sent, gor[w].turn.text), UNCHANGED <<queue, next>>
  PROVE  OrderInv'
<1> USE DEF OrderInv
<1> DEFINE T == gor[w].turn.text
           k == Len(sent) + 1
<1>1. T \in Seq(Nat) /\ sent \in Seq(Seq(Nat))
  BY DEF TypeOK, Turn
<1>2. /\ k \notin DOMAIN sent /\ \A i \in DOMAIN sent : i \in Nat /\ i < k
      /\ DOMAIN sent' = DOMAIN sent \cup {k} /\ sent'[k] = T
      /\ \A i \in DOMAIN sent : sent'[i] = sent[i]
  BY <1>1, AppendEntries
<1>k. k \in Nat
  BY <1>1, LenProperties
<1>g. \A v \in Workers \ {w} : gor'[v] = gor[v]
  BY DEF TypeOK
<1>3. \A v \in Workers : gor'[v].turn = gor[v].turn
  <2>1. gor'[w].turn = gor[w].turn
    BY DEF TypeOK
  <2> QED  BY <1>g, <2>1
<1>4. \A v \in Workers : Sending(v)' => Sending(v)
  BY <1>g DEF Sending
<1>5. Settling'
  BY DEF Settling
<1> HIDE DEF T, k
<1>6. /\ queue # << >> /\ Range(T) \subseteq Range(queue[1].text)
      /\ \A m \in Range(T), n \in Range(queue[1].text) : n < m => n \in Range(T)
  BY DEF Typed, Sending, T
<1>7. Numbered'
  BY <1>2, <1>6 DEF Numbered
<1>8. Typed'
  BY <1>3, <1>4 DEF Typed
<1>9. Ordered'
  <2>1. ASSUME NEW i \in DOMAIN sent', NEW j \in DOMAIN sent',
               NEW m \in Range(sent'[i]), NEW n \in Range(sent'[j]), i < j, n < m
        PROVE  n \in Range(sent'[i])
    <3>1. i # k
      <4>1. \A x \in DOMAIN sent : ~(k < x)
        BY <1>2, <1>k
      <4> QED  BY <1>2, <1>k, <2>1, <4>1
    <3>2. CASE j = k
      BY <1>2, <1>6, <2>1, <3>1, <3>2 DEF Ordered
    <3>3. CASE j # k
      BY <1>2, <2>1, <3>1, <3>3 DEF Ordered
    <3> QED  BY <3>2, <3>3
  <2>2. ASSUME NEW i \in DOMAIN sent', NEW m \in Range(sent'[i]),
               NEW n \in Range(queue[1].text), n < m
        PROVE  n \in Range(sent'[i])
    <3>1. CASE i = k
      BY <1>2, <1>6, <2>2, <3>1
    <3>2. CASE i # k
      BY <1>2, <1>6, <2>2, <3>2 DEF Ordered
    <3> QED  BY <3>1, <3>2
  <2> QED  BY <2>1, <2>2 DEF Ordered
<1>10. \A n : n \notin Range(T) => Hits(n)' = Hits(n)
  BY <1>2 DEF Hits
<1>11. \A n : Hits(n)' \subseteq Hits(n) \cup {k}
  BY <1>2 DEF Hits
<1>12. \A n : /\ Cardinality(Hits(n)) \in Nat /\ Cardinality(Hits(n)') \in Nat
              /\ Cardinality(Hits(n)') <= Cardinality(Hits(n)) + 1
  <2>1. SUFFICES ASSUME NEW n
                 PROVE  /\ Cardinality(Hits(n)) \in Nat /\ Cardinality(Hits(n)') \in Nat
                        /\ Cardinality(Hits(n)') <= Cardinality(Hits(n)) + 1
    OBVIOUS
  <2>2. IsFiniteSet(Hits(n)) /\ Cardinality(Hits(n)) \in Nat
    BY HitsFinite
  <2> DEFINE a == Cardinality(Hits(n))
             b == Cardinality(Hits(n) \cup {k})
             c == Cardinality(Hits(n)')
  <2>3. IsFiniteSet(Hits(n) \cup {k}) /\ (b = a \/ b = a + 1)
    BY <2>2, FS_AddElement
  <2>4. b \in Nat /\ c \in Nat /\ c <= b
    BY <1>11, <2>3, FS_Subset, FS_CardinalityType
  <2>5. a \in Nat
    BY <2>2
  <2> HIDE DEF a, b, c
  <2>6. c <= a + 1
    BY <2>3, <2>4, <2>5
  <2> QED  BY <2>4, <2>5, <2>6 DEF a, c
<1>13. queue[1].attempts \in Nat /\ MaxAttempts \in Nat
  <2>1. queue[1] \in Turn
    BY <1>6 DEF TypeOK
  <2> QED  BY <2>1, PaneAssumption DEF Turn
<1>14. ASSUME NEW n \in Range(queue[1].text)
       PROVE  Cardinality(Hits(n)') <= queue[1].attempts + 1
  <2>1. Cardinality(Hits(n)) <= queue[1].attempts
    <3>1. Cardinality(Hits(n)) <= queue[1].attempts + (IF Settling THEN 1 ELSE 0)
      BY <1>6, <1>14 DEF Counted
    <3>2. (IF Settling THEN 1 ELSE 0) = 0
      OBVIOUS
    <3>3. Cardinality(Hits(n)) <= queue[1].attempts + 0
      BY <3>1, <3>2
    <3> QED  BY <1>13, <3>3
  <2> QED  BY <1>12, <1>13, <2>1
<1>15. ASSUME NEW n \in Nat PROVE Cardinality(Hits(n)') <= MaxAttempts
  <2>1. CASE n \in Range(T)
    <3>1. Cardinality(Hits(n)') <= queue[1].attempts + 1 /\ queue[1].attempts < MaxAttempts
      BY <1>6, <1>14, <2>1 DEF Counted
    <3> QED  BY <1>12, <1>13, <3>1
  <2>2. CASE n \notin Range(T)
    BY <1>10, <2>2 DEF Counted
  <2> QED  BY <2>1, <2>2
<1>16. Counted'
  BY <1>5, <1>6, <1>14, <1>15 DEF Counted
<1> QED  BY <1>7, <1>8, <1>9, <1>16

\* A failed send is counted: the turn is retried with one more attempt, or
\* dropped.
LEMMA OrderFails ==
  ASSUME TypeOK, OrderInv, PendingServed, NEW w \in Workers, gor[w].pc = "failed",
         queue' = Bumped(queue), UNCHANGED <<sent, next>>, \A v \in Workers : ~Sending(v)'
  PROVE  OrderInv'
<1> USE DEF OrderInv
<1>1. queue # << >> /\ Len(queue) = 1 /\ queue \in Seq(Turn)
  BY ShortQueue DEF Typed, Sending, TypeOK, PendingServed
<1>2. queue[1] \in Turn /\ Head(queue) = queue[1] /\ DOMAIN queue = {1}
  BY <1>1
<1>3. CASE queue[1].attempts + 1 >= MaxAttempts
  <2>1. queue' = << >>
    BY <1>1, <1>2, <1>3, QueueTypes, PaneAssumption DEF Bumped
  <2> QED  BY <2>1, OrderEmpties
<1>4. CASE ~(queue[1].attempts + 1 >= MaxAttempts)
  <2>1. queue' = [queue EXCEPT ![1].attempts = @ + 1]
    BY <1>1, <1>2, <1>4 DEF Bumped
  <2>2. queue' = [queue EXCEPT ![1] = [queue[1] EXCEPT !.attempts = queue[1].attempts + 1]]
    BY <2>1
  <2>3. /\ queue' # << >> /\ queue'[1].text = queue[1].text
        /\ queue'[1].attempts = queue[1].attempts + 1
    <3> DEFINE t == [queue[1] EXCEPT !.attempts = queue[1].attempts + 1]
    <3>1. t.text = queue[1].text /\ t.attempts = queue[1].attempts + 1
      BY <1>2 DEF Turn
    <3> HIDE DEF t
    <3>2. queue' = [queue EXCEPT ![1] = t]
      BY <2>2 DEF t
    <3>3. queue'[1] = t /\ DOMAIN queue' = {1}
      BY <1>2, <3>2
    <3>4. queue' # << >>
      BY <3>3
    <3> QED  BY <3>1, <3>3, <3>4
  <2>4. Numbered' /\ Ordered'
    BY <1>1, <2>3 DEF Numbered, Ordered
  <2>5. Typed'
    BY DEF Typed
  <2>6. \A n : Hits(n)' = Hits(n)
    BY DEF Hits
  <2>7. Settling
    BY DEF Settling
  <2>8. queue'[1].attempts < MaxAttempts
    <3>1. queue[1].attempts \in Nat /\ MaxAttempts \in Nat
      BY <1>2, PaneAssumption DEF Turn
    <3> QED  BY <1>4, <2>3, <3>1
  <2>9. ASSUME NEW n \in Range(queue'[1].text)
        PROVE  Cardinality(Hits(n)') <= queue'[1].attempts + (IF Settling' THEN 1 ELSE 0)
    <3>1. Cardinality(Hits(n)) <= queue[1].attempts + 1
      BY <1>1, <2>3, <2>7, <2>9 DEF Counted
    <3>2. ~Settling'
      BY DEF Settling, Sending
    <3>3. Cardinality(Hits(n)') <= queue'[1].attempts /\ queue'[1].attempts \in Nat
      BY <1>2, <2>3, <2>6, <3>1 DEF Turn
    <3>4. (IF Settling' THEN 1 ELSE 0) = 0
      BY <3>2
    <3>5. queue'[1].attempts + 0 = queue'[1].attempts
      BY <3>3
    <3> QED  BY <3>3, <3>4, <3>5
  <2>10. Counted'
    BY <2>3, <2>6, <2>8, <2>9 DEF Counted
  <2> QED  BY <2>4, <2>5, <2>10
<1> QED  BY <1>3, <1>4

\* Steps of the goroutine.
LEMMA OrderWorker ==
  ASSUME PaneInv, OrderInv, NEW w \in Workers, WorkerStep(w)
  PROVE  OrderInv'
<1> USE DEF PaneInv
<1>1. \A v \in Workers : v # w => gor[v].pc = "none"
  BY DEF WorkerStep, PeekExit, PeekWait, Wake, Take, SendOk, SendError, Landed, Failed,
         OneWorker, Live
<1>2. ASSUME NEW r, gor' = [gor EXCEPT ![w] = r] PROVE \A v \in Workers : v # w => gor'[v] = gor[v]
  BY <1>2 DEF TypeOK
<1>3. ASSUME NEW p, gor' = [gor EXCEPT ![w].pc = p]
      PROVE  gor'[w].pc = p /\ gor'[w].turn = gor[w].turn /\ \A v \in Workers : v # w => gor'[v] = gor[v]
  BY <1>3 DEF TypeOK
<1>4. ([Idle EXCEPT !.pc = "top"]).pc = "top" /\ Idle.pc = "none"
  BY DEF Idle
<1>5. CASE PeekExit(w)
  <2>1. gor'[w].pc = "none" /\ \A v \in Workers : v # w => gor'[v] = gor[v]
    BY <1>2, <1>4, <1>5 DEF PeekExit, TypeOK
  <2>2. ~Settling /\ ~Settling' /\ \A v \in Workers : ~Sending(v)'
    BY <1>1, <1>5, <2>1 DEF PeekExit, Settling, Sending
  <2> QED  BY <1>5, <2>2, OrderStays DEF PeekExit
<1>6. CASE PeekWait(w) \/ Wake(w)
  <2>1. PICK p \in {"waiting", "ready"} : gor' = [gor EXCEPT ![w].pc = p]
    BY <1>6 DEF PeekWait, Wake, Goto
  <2>2. ~Settling /\ ~Settling' /\ \A v \in Workers : ~Sending(v)'
    BY <1>1, <1>3, <1>6, <2>1 DEF PeekWait, Wake, Settling, Sending
  <2> QED  BY <1>6, <2>2, OrderStays DEF PeekWait, Wake
<1>7. CASE Take(w)
  <2>1. CASE queue = << >>
    <3>1. gor' = [gor EXCEPT ![w] = [Idle EXCEPT !.pc = "top"]]
      BY <1>7, <2>1 DEF Take
    <3>2. ~Settling /\ ~Settling' /\ \A v \in Workers : ~Sending(v)'
      BY <1>1, <1>2, <1>4, <1>7, <3>1 DEF Take, Settling, Sending, TypeOK
    <3> QED  BY <1>7, <3>2, OrderStays DEF Take
  <2>2. CASE queue # << >>
    <3> DEFINE g == [pc |-> "typing", turn |-> Head(queue)]
    <3>1. gor' = [gor EXCEPT ![w] = g]
      BY <1>7, <2>2 DEF Take
    <3>2. gor'[w].pc = "typing" /\ gor'[w].turn = queue[1] /\ \A v \in Workers : v # w => gor'[v] = gor[v]
      BY <1>2, <2>2, <3>1 DEF TypeOK
    <3>3. ~Settling /\ ~Settling' /\ \A v \in Workers : Sending(v)' => v = w
      BY <1>1, <1>7, <3>2 DEF Take, Settling, Sending
    <3>4. UNCHANGED <<queue, sent, next>>
      BY <1>7 DEF Take
    <3>5. Numbered' /\ Ordered'
      BY <3>4 DEF OrderInv, Numbered, Ordered
    <3>6. Typed'
      BY <2>2, <3>2, <3>3, <3>4 DEF Typed
    <3>7. \A n : Hits(n)' = Hits(n)
      BY <3>4 DEF Hits
    <3>8. Counted'
      BY <3>3, <3>4, <3>7 DEF OrderInv, Counted
    <3> QED  BY <3>5, <3>6, <3>8 DEF OrderInv
  <2> QED  BY <2>1, <2>2
<1>8. ASSUME gor[w].pc = "typing" PROVE ~Settling
  BY <1>1, <1>8 DEF Settling
<1>9. ASSUME gor[w].pc = "typing", NEW p \in {"landed", "failed"}, gor' = [gor EXCEPT ![w].pc = p],
             sent' = Append(sent, gor[w].turn.text), UNCHANGED <<queue, next>>
      PROVE  OrderInv'
  BY <1>3, <1>8, <1>9, OrderSends
<1>10. CASE SendOk(w)
  BY <1>9, <1>10 DEF SendOk, Goto
<1>11. CASE SendError(w)
  <2>1. CASE sent' = Append(sent, gor[w].turn.text)
    BY <1>9, <1>11, <2>1 DEF SendError, Goto
  <2>2. CASE sent' = sent
    <3>1. gor[w].pc = "typing" /\ gor' = [gor EXCEPT ![w].pc = "failed"] /\ UNCHANGED <<queue, sent, next>>
      BY <1>11, <2>2 DEF SendError, Goto
    <3>2. ~Settling /\ Settling' /\ \A v \in Workers : Sending(v)' => Sending(v) /\ gor'[v].turn = gor[v].turn
      BY <1>3, <1>8, <3>1 DEF Settling, Sending
    <3>3. Numbered' /\ Ordered' /\ Typed'
      BY <3>1, <3>2 DEF OrderInv, Numbered, Ordered, Typed
    <3>4. \A n : Hits(n)' = Hits(n)
      BY <3>1 DEF Hits
    <3>5. ASSUME queue # << >>, NEW n \in Range(queue[1].text)
          PROVE  Cardinality(Hits(n)) <= queue[1].attempts + 1
      <4>1. Cardinality(Hits(n)) <= queue[1].attempts + 0
        BY <3>2, <3>5 DEF OrderInv, Counted
      <4>2. Cardinality(Hits(n)) \in Nat
        BY HitsFinite
      <4>3. queue[1] \in Turn
        BY <3>5 DEF TypeOK
      <4> QED  BY <4>1, <4>2, <4>3 DEF Turn
    <3>6. Counted'
      BY <3>1, <3>2, <3>4, <3>5 DEF OrderInv, Counted
    <3> QED  BY <3>3, <3>6 DEF OrderInv
  <2> QED  BY <1>11, <2>1, <2>2 DEF SendError
<1>12. ASSUME gor' = [gor EXCEPT ![w] = [Idle EXCEPT !.pc = "top"]] PROVE \A v \in Workers : ~Sending(v)'
  BY <1>1, <1>2, <1>4, <1>12 DEF Sending, TypeOK
<1>13. CASE Landed(w)
  <2>1. queue # << >> /\ Len(queue) = 1 /\ queue \in Seq(Turn)
    BY <1>13, ShortQueue DEF Landed, OrderInv, Typed, Sending, TypeOK, PendingServed
  <2>2. queue' = << >>
    BY <1>13, <2>1, QueueTypes, PaneAssumption DEF Landed
  <2> QED  BY <1>12, <1>13, <2>2, OrderEmpties DEF Landed
<1>14. CASE Failed(w)
  BY <1>12, <1>14, OrderFails DEF Failed
<1> QED  BY <1>5, <1>6, <1>7, <1>10, <1>11, <1>13, <1>14 DEF WorkerStep

\* Arrivals.
LEMMA OrderEnqueue ==
  ASSUME PaneInv, OrderInv, NEW p \in Panes, EnqueueMerge(p) \/ EnqueueNew(p)
  PROVE  OrderInv'
<1> USE DEF PaneInv
<1>1. sent' = sent /\ next' = next + 1 /\ next \in Nat
  BY DEF EnqueueMerge, EnqueueNew, Arrives, TypeOK
<1>2. CASE EnqueueMerge(p)
  <2>1. queue \in Seq(Turn) /\ Len(queue) = 1 /\ queue # << >>
    <3>1. queue \in Seq(Turn) /\ Len(queue) <= 1
      BY DEF PendingServed, TypeOK
    <3>2. Len(queue) > 0
      BY <1>2 DEF EnqueueMerge
    <3>3. queue # << >>
      BY <3>1, <3>2, EmptyQueue
    <3> QED  BY <3>1, <3>3, ShortQueue
  <2>2. /\ queue' # << >> /\ queue'[1].attempts = queue[1].attempts
        /\ queue'[1].text = Append(queue[1].text, next)
    BY <1>1, <1>2, <2>1, MergedTurn DEF EnqueueMerge
  <2>3. Range(queue'[1].text) = Range(queue[1].text) \cup {next}
    <3>1. queue[1] \in Turn
      BY <2>1
    <3>2. queue[1].text \in Seq(Nat)
      BY <3>1 DEF Turn
    <3> QED  BY <1>1, <2>2, <3>2, AppendEntries
  <2>4. gor' = gor
    BY <1>2 DEF EnqueueMerge
  <2>5. (\A v \in Workers : Sending(v)' => Sending(v)) /\ (Settling' <=> Settling)
    BY <2>4 DEF Sending, Settling
  <2> QED  BY <1>1, <2>1, <2>2, <2>3, <2>4, <2>5, OrderArrives
<1>3. CASE EnqueueNew(p)
  <2> DEFINE t == [pane |-> p, text |-> <<next>>, attempts |-> 0]
  <2>1. queue = << >> /\ queue' = <<t>> /\ StartWorker
    BY <1>3 DEF EnqueueNew
  <2>2. queue' # << >> /\ queue'[1].attempts = 0 /\ queue'[1].text = <<next>>
    BY <2>1
  <2>3. Range(<<next>>) = {next}
    BY DEF Range
  <2>4. \/ gor' = gor
        \/ \E w \in Workers : gor[w].pc = "none" /\ gor' = [gor EXCEPT ![w].pc = "top"]
    BY <2>1 DEF StartWorker, Goto
  <2>5. /\ \A v \in Workers : Sending(v)' => Sending(v) /\ gor'[v].turn = gor[v].turn
        /\ Settling' <=> Settling
    BY <2>4 DEF Sending, Settling, TypeOK
  <2> HIDE DEF t
  <2> QED  BY <1>1, <2>1, <2>2, <2>3, <2>5, OrderArrives
<1> QED  BY <1>2, <1>3

LEMMA OrderNext == PaneInv /\ OrderInv /\ [Next]_vars => OrderInv'
<1> SUFFICES ASSUME PaneInv, OrderInv, [Next]_vars PROVE OrderInv'
  OBVIOUS
<1>1. ASSUME UNCHANGED <<queue, gor, sent, next>> PROVE OrderInv'
  <2>1. (\A v \in Workers : Sending(v)' => Sending(v)) /\ (Settling' <=> Settling)
    BY <1>1 DEF Sending, Settling
  <2> QED  BY <1>1, <2>1, OrderStays
<1>2. CASE EnqueueChecked \/ Drain \/ WindowEnds \/ UNCHANGED vars
  BY <1>1, <1>2 DEF EnqueueChecked, Drain, WindowEnds, vars
<1> QED  BY <1>2, OrderEnqueue, OrderWorker DEF Next

\* For any number of notifications, bursts and failing sends: the pane receives
\* them in order of arrival up to repetitions, and each at most
\* paneDispatchMaxAttempts times, also when it was merged into a retried turn.
THEOREM SendsAreOrdered == Spec => []InOrderBounded
<1>1. Init => OrderInv
  <2> SUFFICES ASSUME Init PROVE OrderInv
    OBVIOUS
  <2>1. queue = << >> /\ DOMAIN sent = {} /\ \A w \in Workers : gor[w].pc = "none"
    BY DEF Init, Idle
  <2>2. \A n : Hits(n) = {}
    BY <2>1 DEF Hits
  <2>3. Cardinality({}) = 0
    BY FS_EmptySet
  <2>4. Numbered /\ Ordered /\ Typed
    BY <2>1 DEF Numbered, Ordered, Typed, Sending
  <2>5. Counted
    BY <2>1, <2>2, <2>3, PaneAssumption DEF Counted
  <2> QED  BY <2>4, <2>5 DEF OrderInv
<1>2. OrderInv => InOrderBounded
  <2>1. 1 .. MaxNotes \subseteq Nat
    BY PaneAssumption
  <2> QED  BY <2>1 DEF OrderInv, Ordered, Counted, Hits, InOrderBounded
<1>3. Init /\ [][Next]_vars => [](PaneInv /\ OrderInv)
  BY <1>1, InitInv, NextInv, OrderNext, PTL
<1> QED  BY <1>2, <1>3, PTL DEF Spec

\* A pending turn always has a goroutine that comes to it, and there is never
\* more than one turn pending.
THEOREM PendingTurnsAreServed == Spec => []PendingServed
  BY OneWorkerServes, PTL

\* The dispatcher's state keeps its type.
THEOREM PaneTypes == Spec => []TypeOK
  BY OneWorkerServes, PTL

=============================================================================
