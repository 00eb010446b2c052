------------------------- MODULE ComputerDesktopProofs -------------------------
(***************************************************************************)
(* The lease of a bot's desktop, for any number of turns and any lease and *)
(* wait times: no turn that is over is named by it, and no turn loses a    *)
(* live lease to the steps of another.                                     *)
(***************************************************************************)
EXTENDS ComputerDesktop, TLAPS

Leases == [turn : Turns \union {NoTurn}, left : 0..LeaseTTL]
Desktops == Asleep \union {"booting", "ready"}

\* What the operations on a lease return: leases, and only Claimed puts a
\* turn's name into one that did not have it.
LEMMA LeaseOperations ==
  ASSUME lease \in Leases, NEW t \in Turns
  PROVE  /\ Free \in Leases /\ Claimed(t) \in Leases /\ Touched(t) \in Leases
         /\ Released(t) \in Leases /\ Current \in {lease, Free}
         /\ Claimed(t).turn = t /\ Free.turn = NoTurn
         /\ Touched(t).turn \in {lease.turn, NoTurn}
         /\ lease.left > 0 => Touched(t).turn = lease.turn
         /\ Released(t) = IF lease.turn = t THEN Free ELSE lease
         /\ lease.left > 0 /\ busy => Current = lease
  BY TicksType DEF Leases, Free, Claimed, Touched, Released, Current

\* The capture a stopped poller still makes renews a lease or leaves it.
LEMMA SettledLeases ==
  ASSUME lease \in Leases, poller \in Turns \union {NoTurn}, NEW l \in Settled
  PROVE  /\ l \in Leases /\ l.turn \in {lease.turn, NoTurn}
         /\ lease.left > 0 => l.turn = lease.turn
<1>1. CASE l = lease
  BY <1>1 DEF Leases
<1>2. CASE poller # NoTurn /\ l = Touched(poller)
  BY <1>2, LeaseOperations
<1> QED  BY <1>1, <1>2 DEF Settled

\* Where a turn goes after its claim.
LEMMA ClaimPlaces ==
  ASSUME NEW t \in Turns, TypeOK, Claim(t)
  PROVE  /\ pc' \in [Turns -> Places]
         /\ \A u \in Turns \ {t} : pc'[u] = pc[u]
         /\ MayClaim(t) => pc'[t] \in {"provision", "wait", "mount"}
         /\ ~MayClaim(t) => pc'[t] = "without"
         /\ pc[t] = "inspected"
<1>1. CASE ~MayClaim(t)
  BY <1>1 DEF Claim, Goto, TypeOK, Places
<1>2. CASE MayClaim(t) /\ seen[t] \in Asleep
  BY <1>2 DEF Claim, Goto, TypeOK, Places
<1>3. CASE MayClaim(t) /\ seen[t] \notin Asleep /\ seen[t] = "booting"
  BY <1>3 DEF Claim, Goto, TypeOK, Places
<1>4. CASE MayClaim(t) /\ seen[t] \notin Asleep /\ seen[t] # "booting"
  BY <1>4 DEF Claim, Goto, TypeOK, Places
<1> QED  BY <1>1, <1>2, <1>3, <1>4

\* The state keeps its type in every step of every operation.
LEMMA TypeStep == TypeOK /\ [Next]_vars => TypeOK'
<1> SUFFICES ASSUME TypeOK, [Next]_vars PROVE TypeOK'
  OBVIOUS
<1> USE NoTurnIsNone, TicksType, MaxFailuresType
<1>l. lease \in Leases /\ Free \in Leases /\ Current \in Leases
  BY DEF TypeOK, Leases, Free, Current
<1>1. ASSUME NEW t \in Turns, Begin(t) PROVE TypeOK'
  BY <1>1
     DEF Begin, TypeOK, Places, Asleep, Stops, Goto, Sees, Forgets, Waits, turnVars, screenVars, opVars
<1>2. ASSUME NEW t \in Turns, Claim(t) PROVE TypeOK'
  <2>1. lease' \in Leases
    BY <1>2, <1>l, LeaseOperations DEF Claim
  <2>2. pc' \in [Turns -> Places]
    BY <1>2, ClaimPlaces
  <2>3. seen' \in [Turns -> Desktops] /\ budget' \in [Turns -> 0..ReadyWait]
    BY <1>2 DEF Claim, Forgets, Sees, Waits, TypeOK, Asleep, Desktops
  <2>4. UNCHANGED <<desktop, busy, screenVars, timer, op, failures>>
    BY <1>2 DEF Claim
  <2> QED  BY <2>1, <2>2, <2>3, <2>4 DEF TypeOK, Leases, Desktops, screenVars
<1>3. ASSUME NEW t \in Turns, Provision(t) PROVE TypeOK'
  BY <1>3
     DEF Provision, TypeOK, Places, Asleep, Stops, Goto, Sees, Forgets, Waits, turnVars, screenVars, opVars
<1>4. ASSUME NEW t \in Turns, Apply(t) PROVE TypeOK'
  BY <1>4
     DEF Apply, TypeOK, Places, Asleep, Stops, Goto, Sees, Forgets, Waits, turnVars, screenVars, opVars
<1>5. ASSUME NEW t \in Turns, ApplyRefused(t) PROVE TypeOK'
  BY <1>5, LeaseOperations, <1>l
     DEF ApplyRefused, TypeOK, Places, Asleep, Stops, GiveUp, Forgets, Goto, Sees, Waits, Leases, turnVars, screenVars, opVars
<1>6. ASSUME NEW t \in Turns, ApplyFails(t) PROVE TypeOK'
  BY <1>6, LeaseOperations, <1>l
     DEF ApplyFails, TypeOK, Places, Asleep, Stops, GiveUp, Forgets, Goto, Sees, Waits, Leases, turnVars, screenVars, opVars
<1>7. ASSUME NEW t \in Turns, WaitReady(t) PROVE TypeOK'
  BY <1>7
     DEF WaitReady, TypeOK, Places, Asleep, Stops, Goto, Sees, Forgets, Waits, turnVars, screenVars, opVars
<1>8. ASSUME NEW t \in Turns, WaitFails(t) PROVE TypeOK'
  BY <1>8, LeaseOperations, <1>l
     DEF WaitFails, TypeOK, Places, Asleep, Stops, GiveUp, Forgets, Goto, Sees, Waits, Leases, turnVars, screenVars, opVars
<1>9. ASSUME NEW t \in Turns, Mount(t) PROVE TypeOK'
  BY <1>9, SettledLeases, <1>l
     DEF Mount, TypeOK, Places, Asleep, Stops, Goto, Leases, turnVars, screenVars, opVars
<1>10. ASSUME NEW t \in Turns, StartPoller(t) PROVE TypeOK'
  BY <1>10
     DEF StartPoller, TypeOK, Places, Asleep, Stops, Goto, Sees, Forgets, Waits, turnVars, screenVars, opVars
<1>11. ASSUME NEW t \in Turns, Progress(t) PROVE TypeOK'
  BY <1>11
     DEF Progress, TypeOK, Places, Asleep, Stops, Goto, Sees, Forgets, Waits, turnVars, screenVars, opVars
<1>12. ASSUME NEW t \in Turns, End(t) PROVE TypeOK'
  BY <1>12
     DEF End, TypeOK, Places, Asleep, Stops, Goto, Sees, Forgets, Waits, turnVars, screenVars, opVars
<1>13. ASSUME NEW t \in Turns, StopPoller(t) PROVE TypeOK'
  BY <1>13, SettledLeases, <1>l
     DEF StopPoller, TypeOK, Places, Asleep, Stops, Goto, Leases, turnVars, screenVars, opVars
<1>14. ASSUME NEW t \in Turns, ReleaseTurn(t) PROVE TypeOK'
  BY <1>14, LeaseOperations, <1>l
     DEF ReleaseTurn, TypeOK, Places, Asleep, Stops, Goto, Leases, turnVars, screenVars, opVars
<1>15. ASSUME NEW t \in Turns, WorkerIdle(t) PROVE TypeOK'
  BY <1>15
     DEF WorkerIdle, TypeOK, Places, Asleep, Stops, Goto, Sees, Forgets, Waits, turnVars, screenVars, opVars
<1>16. ASSUME NEW t \in Turns, StartCapture(t) PROVE TypeOK'
  BY <1>16
     DEF StartCapture, TypeOK, Places, Asleep, Stops, Goto, Sees, Forgets, Waits, turnVars, screenVars, opVars
<1>17. ASSUME NEW t \in Turns, EndCapture(t) PROVE TypeOK'
  BY <1>17, LeaseOperations, <1>l
     DEF EndCapture, TypeOK, Places, Asleep, Stops, Leases, turnVars, screenVars, opVars
<1>18. ASSUME NEW k \in Stops, StopCheck(k) PROVE TypeOK'
  BY <1>18, <1>l
     DEF StopCheck, TypeOK, Places, Asleep, Stops, OpTo, Leases, turnVars, screenVars, opVars
<1>19. ASSUME NEW k \in Stops, StopApply(k) PROVE TypeOK'
  BY <1>19
     DEF StopApply, TypeOK, Places, Asleep, Stops, OpTo, turnVars, screenVars, opVars
<1>20. ASSUME NEW k \in Stops, StopFails(k) PROVE TypeOK'
  BY <1>20
     DEF StopFails, TypeOK, Places, Asleep, Stops, OpTo, turnVars, screenVars, opVars
<1>21. ASSUME NEW k \in Stops, StopSettle(k) PROVE TypeOK'
  BY <1>21
     DEF StopSettle, TypeOK, Places, Asleep, Stops, OpTo, turnVars, screenVars, opVars
<1>22. CASE TakeWheel
  BY <1>22
     DEF TakeWheel, TypeOK, Places, Asleep, Stops, turnVars, screenVars, opVars
<1>23. CASE Fire
  BY <1>23
     DEF Fire, TypeOK, Places, Asleep, Stops, OpTo, turnVars, screenVars, opVars
<1>24. CASE Expire
  BY <1>24
     DEF Expire, TypeOK, Places, Asleep, Stops, OpTo, turnVars, screenVars, opVars
<1>25. CASE Wake
  BY <1>25
     DEF Wake, TypeOK, Places, Asleep, Stops, turnVars, screenVars, opVars
<1>26. CASE Boot
  BY <1>26
     DEF Boot, TypeOK, Places, Asleep, Stops, turnVars, screenVars, opVars
<1>27. CASE Tick
  BY <1>27, LeaseOperations, <1>l
     DEF Tick, TypeOK, Places, Asleep, Stops, Waiting, Leases, turnVars, screenVars, opVars
<1>28. CASE UNCHANGED vars
  BY <1>28 DEF vars, TypeOK
<1> QED
  BY <1>1, <1>2, <1>3, <1>4, <1>5, <1>6, <1>7, <1>8, <1>9, <1>10, <1>11, <1>12, <1>13, <1>14, <1>15, <1>16, <1>17, <1>18, <1>19, <1>20, <1>21, <1>22, <1>23, <1>24, <1>25, <1>26, <1>27, <1>28
     DEF Next, Mounting, Leaving

\* Outside its critical steps a turn has no lease.
Outside == {"new", "inspected", "over", "gone", "without"}

DesktopInv == TypeOK /\ NoLeakedLease

\* No step leaves the lease with a turn that has no use for it.
LEMMA LeakStep == DesktopInv /\ [Next]_vars => NoLeakedLease'
<1> SUFFICES ASSUME DesktopInv, [Next]_vars PROVE NoLeakedLease'
  OBVIOUS
<1> USE NoTurnIsNone
<1>t. TypeOK /\ NoLeakedLease /\ pc \in [Turns -> Places] /\ lease \in Leases
  BY DEF DesktopInv, TypeOK, Leases
\* A step that names nobody new and takes no turn outside keeps it.
<1>k. ASSUME lease'.turn \in {lease.turn, NoTurn},
             \A u \in Turns : pc'[u] \in Outside =>
               pc[u] \in Outside \/ lease'.turn # u
      PROVE  NoLeakedLease'
  BY <1>t, <1>k DEF NoLeakedLease, Outside
<1>1. ASSUME NEW t \in Turns, Begin(t) PROVE NoLeakedLease'
  BY <1>1, <1>t, <1>k
     DEF Begin, Outside, NoLeakedLease, Places, Goto, turnVars, screenVars, opVars
<1>2. ASSUME NEW t \in Turns, Claim(t) PROVE NoLeakedLease'
  <2>1. CASE MayClaim(t)
    <3>1. lease'.turn = t
      BY <1>2, <1>t, <2>1, LeaseOperations DEF Claim
    <3>2. pc'[t] \notin Outside
      BY <1>2, <1>t, <2>1, ClaimPlaces DEF Outside
    <3> QED  BY <3>1, <3>2 DEF NoLeakedLease, Outside
  <2>2. CASE ~MayClaim(t)
    <3>1. lease' = lease /\ lease.turn # t
      BY <1>2, <1>t, <2>2 DEF Claim, MayClaim, Current, Free
    <3>2. \A u \in Turns \ {t} : pc'[u] = pc[u]
      BY <1>2, <1>t, ClaimPlaces
    <3> QED  BY <3>1, <3>2, <1>t DEF NoLeakedLease
  <2> QED  BY <2>1, <2>2
<1>3. ASSUME NEW t \in Turns, Provision(t) PROVE NoLeakedLease'
  BY <1>3, <1>t, <1>k
     DEF Provision, Outside, NoLeakedLease, Places, Goto, turnVars, screenVars, opVars
<1>4. ASSUME NEW t \in Turns, Apply(t) PROVE NoLeakedLease'
  BY <1>4, <1>t, <1>k
     DEF Apply, Outside, NoLeakedLease, Places, Goto, turnVars, screenVars, opVars
<1>5. ASSUME NEW t \in Turns, ApplyRefused(t) PROVE NoLeakedLease'
  BY <1>5, <1>t, <1>k, LeaseOperations
     DEF ApplyRefused, Outside, NoLeakedLease, Places, Goto, GiveUp, turnVars, screenVars, opVars
<1>6. ASSUME NEW t \in Turns, ApplyFails(t) PROVE NoLeakedLease'
  BY <1>6, <1>t, <1>k, LeaseOperations
     DEF ApplyFails, Outside, NoLeakedLease, Places, Goto, GiveUp, turnVars, screenVars, opVars
<1>7. ASSUME NEW t \in Turns, WaitReady(t) PROVE NoLeakedLease'
  BY <1>7, <1>t, <1>k
     DEF WaitReady, Outside, NoLeakedLease, Places, Goto, turnVars, screenVars, opVars
<1>8. ASSUME NEW t \in Turns, WaitFails(t) PROVE NoLeakedLease'
  BY <1>8, <1>t, <1>k, LeaseOperations
     DEF WaitFails, Outside, NoLeakedLease, Places, Goto, GiveUp, turnVars, screenVars, opVars
<1>9. ASSUME NEW t \in Turns, Mount(t) PROVE NoLeakedLease'
  BY <1>9, <1>t, <1>k, SettledLeases
     DEF Mount, Outside, NoLeakedLease, Places, Goto, TypeOK, turnVars, screenVars, opVars
<1>10. ASSUME NEW t \in Turns, StartPoller(t) PROVE NoLeakedLease'
  BY <1>10, <1>t, <1>k
     DEF StartPoller, Outside, NoLeakedLease, Places, Goto, turnVars, screenVars, opVars
<1>11. ASSUME NEW t \in Turns, Progress(t) PROVE NoLeakedLease'
  BY <1>11, <1>t, <1>k
     DEF Progress, Outside, NoLeakedLease, Places, Goto, turnVars, screenVars, opVars
<1>12. ASSUME NEW t \in Turns, End(t) PROVE NoLeakedLease'
  BY <1>12, <1>t, <1>k
     DEF End, Outside, NoLeakedLease, Places, Goto, turnVars, screenVars, opVars
<1>13. ASSUME NEW t \in Turns, StopPoller(t) PROVE NoLeakedLease'
  BY <1>13, <1>t, <1>k, SettledLeases
     DEF StopPoller, Outside, NoLeakedLease, Places, Goto, TypeOK, turnVars, screenVars, opVars
<1>14. ASSUME NEW t \in Turns, ReleaseTurn(t) PROVE NoLeakedLease'
  BY <1>14, <1>t, <1>k, LeaseOperations
     DEF ReleaseTurn, Outside, NoLeakedLease, Places, Goto, turnVars, screenVars, opVars
<1>15. ASSUME NEW t \in Turns, WorkerIdle(t) PROVE NoLeakedLease'
  BY <1>15, <1>t, <1>k
     DEF WorkerIdle, Outside, NoLeakedLease, Places, Goto, turnVars, screenVars, opVars
<1>16. ASSUME NEW t \in Turns, StartCapture(t) PROVE NoLeakedLease'
  BY <1>16, <1>t, <1>k
     DEF StartCapture, Outside, NoLeakedLease, Places, Goto, turnVars, screenVars, opVars
<1>17. ASSUME NEW t \in Turns, EndCapture(t) PROVE NoLeakedLease'
  BY <1>17, <1>t, <1>k, LeaseOperations
     DEF EndCapture, Outside, NoLeakedLease, Places, Goto, turnVars, screenVars, opVars
<1>18. ASSUME NEW k \in Stops, StopCheck(k) PROVE NoLeakedLease'
  BY <1>18, <1>t, <1>k, LeaseOperations
     DEF StopCheck, Outside, NoLeakedLease, Places, Current, Free, turnVars, screenVars, opVars
<1>19. ASSUME NEW k \in Stops, StopApply(k) PROVE NoLeakedLease'
  BY <1>19, <1>t, <1>k
     DEF StopApply, Outside, NoLeakedLease, Places, turnVars, screenVars, opVars
<1>20. ASSUME NEW k \in Stops, StopFails(k) PROVE NoLeakedLease'
  BY <1>20, <1>t, <1>k
     DEF StopFails, Outside, NoLeakedLease, Places, turnVars, screenVars, opVars
<1>21. ASSUME NEW k \in Stops, StopSettle(k) PROVE NoLeakedLease'
  BY <1>21, <1>t, <1>k
     DEF StopSettle, Outside, NoLeakedLease, Places, turnVars, screenVars, opVars
<1>22. CASE TakeWheel
  BY <1>22, <1>t, <1>k
     DEF TakeWheel, Outside, NoLeakedLease, Places, turnVars, screenVars, opVars
<1>23. CASE Fire
  BY <1>23, <1>t, <1>k
     DEF Fire, Outside, NoLeakedLease, Places, turnVars, screenVars, opVars
<1>24. CASE Expire
  BY <1>24, <1>t, <1>k
     DEF Expire, Outside, NoLeakedLease, Places, turnVars, screenVars, opVars
<1>25. CASE Wake
  BY <1>25, <1>t, <1>k
     DEF Wake, Outside, NoLeakedLease, Places, turnVars, screenVars, opVars
<1>26. CASE Boot
  BY <1>26, <1>t, <1>k
     DEF Boot, Outside, NoLeakedLease, Places, turnVars, screenVars, opVars
<1>27. CASE Tick
  BY <1>27, <1>t, <1>k, LeaseOperations
     DEF Tick, Outside, NoLeakedLease, Places, Leases, TypeOK, turnVars, screenVars, opVars
<1>28. CASE UNCHANGED vars
  BY <1>28, <1>t DEF vars, NoLeakedLease
<1> QED
  BY <1>1, <1>2, <1>3, <1>4, <1>5, <1>6, <1>7, <1>8, <1>9, <1>10, <1>11, <1>12, <1>13, <1>14, <1>15, <1>16, <1>17, <1>18, <1>19, <1>20, <1>21, <1>22, <1>23, <1>24, <1>25, <1>26, <1>27, <1>28
     DEF Next, Mounting, Leaving

\* NoLeakedLease is inductive beside the types, which makes it an invariant.
LEMMA DesktopInvStep == DesktopInv /\ [Next]_vars => DesktopInv'
  BY TypeStep, LeakStep DEF DesktopInv

LEMMA DesktopInvInit == Init => DesktopInv
<1> SUFFICES ASSUME Init PROVE DesktopInv
  OBVIOUS
<1>1. lease \in Leases /\ lease.turn = NoTurn
  BY TicksType DEF Init, Free, Leases
<1>2. budget \in [Turns -> 0..ReadyWait] /\ failures \in 0..MaxFailures
  BY TicksType, MaxFailuresType DEF Init
<1>3. /\ desktop \in Desktops /\ pc \in [Turns -> Places]
      /\ seen \in [Turns -> Desktops]
      /\ op \in [Stops -> {"none", "fired", "check", "apply", "settle"}]
  BY DEF Init, Desktops, Asleep, Places
<1>4. /\ busy \in BOOLEAN /\ held \in BOOLEAN /\ timer \in BOOLEAN
      /\ poller \in Turns \union {NoTurn}
      /\ polling \subseteq Turns /\ shot \subseteq Turns
  BY DEF Init
<1>5. TypeOK
  BY <1>1, <1>2, <1>3, <1>4 DEF TypeOK, Leases, Desktops
<1>6. NoLeakedLease
  BY <1>1, NoTurnIsNone DEF NoLeakedLease
<1> QED  BY <1>5, <1>6 DEF DesktopInv

(***************************************************************************)
(* For any number of turns, whoever the lease names is between its claim   *)
(* and its release: no error return of mountForTurn, no late capture and   *)
(* no release of another turn leaves it with a turn that is over.          *)
(***************************************************************************)
THEOREM LeasesAreNotLeaked == Spec => [](TypeOK /\ NoLeakedLease)
<1>1. Spec => []DesktopInv
  BY DesktopInvInit, DesktopInvStep, PTL DEF Spec
<1> QED  BY <1>1, PTL DEF DesktopInv

\* A turn with a live lease is still named by it, or has made a step itself.
Fenced ==
  \A t \in Turns :
    lease.turn = t /\ lease.left > 0 /\ busy /\ lease'.turn # t
      => pc'[t] # pc[t]

\* One case per operation that writes the lease; the others leave it alone.
LEMMA FenceStep == TypeOK /\ [Next]_vars => Fenced
<1> SUFFICES ASSUME TypeOK, [Next]_vars,
                    NEW o \in Turns, lease.turn = o, lease.left > 0, busy,
                    lease'.turn # o
             PROVE  pc'[o] # pc[o]
  BY DEF Fenced
<1> USE NoTurnIsNone
<1>t. pc \in [Turns -> Places] /\ lease \in Leases
  BY DEF TypeOK, Leases
<1>c. Current = lease
  BY DEF Current
<1>1. ASSUME NEW t \in Turns, Claim(t) PROVE pc'[o] # pc[o]
  <2>1. MayClaim(t) /\ t = o
    BY <1>1, <1>c DEF Claim, MayClaim
  <2> QED  BY <1>1, <2>1, ClaimPlaces
<1>2. ASSUME NEW t \in Turns, GiveUp(t), pc[t] \in {"apply", "wait"}
      PROVE  pc'[o] # pc[o]
  BY <1>2, <1>t, LeaseOperations DEF GiveUp, Goto
<1>3. ASSUME NEW t \in Turns, ReleaseTurn(t) PROVE pc'[o] # pc[o]
  BY <1>3, <1>t, LeaseOperations DEF ReleaseTurn, Goto
<1>4. ASSUME NEW t \in Turns, Mount(t) \/ StopPoller(t) PROVE FALSE
  BY <1>4, <1>t, SettledLeases DEF Mount, StopPoller, TypeOK
<1>5. ASSUME NEW t \in Turns, EndCapture(t) PROVE FALSE
  BY <1>5, <1>t, LeaseOperations DEF EndCapture
<1>6. ASSUME NEW k \in Stops, StopCheck(k) PROVE FALSE
  BY <1>6, <1>c DEF StopCheck
<1>7. CASE Tick
  BY <1>7, <1>t, LeaseOperations DEF Tick, Leases
<1>8. CASE lease' = lease
  BY <1>8
<1>9. ASSUME NEW t \in Turns,
             \/ Begin(t) \/ Provision(t) \/ Apply(t) \/ WaitReady(t)
             \/ StartPoller(t) \/ Progress(t) \/ End(t) \/ WorkerIdle(t)
             \/ StartCapture(t)
      PROVE  lease' = lease
  BY <1>9 DEF Begin, Provision, Apply, WaitReady, StartPoller, Progress, End,
              WorkerIdle, StartCapture
<1>10. ASSUME NEW k \in Stops, StopApply(k) \/ StopFails(k) \/ StopSettle(k)
       PROVE  lease' = lease
  BY <1>10 DEF StopApply, StopFails, StopSettle
<1>11. ASSUME TakeWheel \/ Fire \/ Expire \/ Wake \/ Boot \/ UNCHANGED vars
       PROVE  lease' = lease
  BY <1>11 DEF TakeWheel, Fire, Expire, Wake, Boot, vars
<1>12. ASSUME NEW t \in Turns, ApplyRefused(t) \/ ApplyFails(t) \/ WaitFails(t)
       PROVE  GiveUp(t) /\ pc[t] \in {"apply", "wait"}
  BY <1>12 DEF ApplyRefused, ApplyFails, WaitFails
<1> QED
  BY <1>1, <1>2, <1>3, <1>4, <1>5, <1>6, <1>7, <1>8, <1>9, <1>10, <1>11, <1>12
     DEF Next, Mounting, Leaving

(***************************************************************************)
(* For any number of turns, a turn that holds a live lease of a busy bot   *)
(* loses it by nothing but its own steps (lease.go, Claim and Release).    *)
(***************************************************************************)
THEOREM LeasesAreFenced == Spec => LeaseIsFenced
<1>1. Spec => []TypeOK
  BY LeasesAreNotLeaked, PTL
<1>2. TypeOK /\ [Next]_vars => [Fenced]_vars
  BY FenceStep
<1>3. Spec => [][Fenced]_vars
  BY <1>1, <1>2, PTL DEF Spec
<1> QED  BY <1>3, PTL DEF LeaseIsFenced, Fenced

\* The desktop's state keeps its type.
THEOREM DesktopTypes == Spec => []TypeOK
  BY LeasesAreNotLeaked, PTL

================================================================================
