---------------------------- MODULE ComputerDesktop ----------------------------
(***************************************************************************)
(* The desktop of one bot and the turns that use it: the lease             *)
(* (internal/computer/lease.go), mounting and releasing it around a turn   *)
(* (broker_computer_turn.go), the screen poller that renews the lease, the *)
(* idle timer that suspends the desktop, and the wake, stop and remove     *)
(* operations of the web UI (broker_computer.go).                          *)
(*                                                                         *)
(* A bot can run several turns at a time, one per lane, and all of them    *)
(* share what is kept by the bot's slug: its activity, its poller and its  *)
(* idle timer.  Time is counted in ticks; a tick may come before any other *)
(* step, since captures, containers and providers can be slow, except that *)
(* waitReady keeps its deadline.                                           *)
(***************************************************************************)
EXTENDS Naturals, FiniteSets

CONSTANTS
  Turns,       \* the turns of the bot that get as far as its desktop
  NoTurn,
  Routes,      \* the operations of the web UI that people use
  LeaseTTL,    \* computerLeaseTTL, in ticks
  ReadyWait,   \* computerReadyWait, in ticks
  MaxFailures  \* bound: container commands that fail

ASSUME NoTurnIsNone == NoTurn \notin Turns
ASSUME RoutesType == Routes \subseteq {"stop", "remove", "wake"}
ASSUME TicksType == LeaseTTL \in Nat \ {0} /\ ReadyWait \in Nat
ASSUME MaxFailuresType == MaxFailures \in Nat

VARIABLES
  desktop,   \* the container: missing, stopped, booting or ready
  lease,     \* the record of the desktop's Lease and the ticks it has left
  busy,      \* botBusy: the activity of the bot is "active"
  pc,        \* where each turn is
  seen,      \* the desktop as the turn's last Inspect saw it
  budget,    \* ticks left of the turn's waitReady
  poller,    \* pollers[slug]: the turn whose poller can be stopped
  polling,   \* turns whose poller runs
  shot,      \* turns with a capture in flight
  held,      \* the person holds the wheel
  timer,     \* the idle timer is armed
  op,        \* where each operation that stops the container is
  failures

vars == <<desktop, lease, busy, pc, seen, budget, poller, polling, shot, held,
          timer, op, failures>>
turnVars == <<pc, seen, budget>>
screenVars == <<poller, polling, shot, held>>

\* The operations that stop the container, "idle" being the timer's expiry.
Stops == (Routes \ {"wake"}) \union {"idle"}
Asleep == {"missing", "stopped"}
Free == [turn |-> NoTurn, left |-> 0]

Init ==
  /\ desktop \in Asleep
  /\ lease = Free
  /\ busy = FALSE
  /\ pc = [t \in Turns |-> "new"]
  /\ seen = [t \in Turns |-> "missing"]
  /\ budget = [t \in Turns |-> 0]
  /\ poller = NoTurn
  /\ polling = {}
  /\ shot = {}
  /\ held = FALSE
  /\ timer = FALSE
  /\ op = [k \in Stops |-> "none"]
  /\ failures = 0

(***************************************************************************)
(* Lease: currentLocked, Claim, Touch and Release.                         *)
(***************************************************************************)
Current == IF lease.left = 0 \/ ~busy THEN Free ELSE lease

\* mutant of Claimed: the expiry is set a tick late
ClaimedLonger(t) == [turn |-> t, left |-> LeaseTTL + 1]
Claimed(t) == [turn |-> t, left |-> LeaseTTL]

MayClaim(t) == Current.turn \in {NoTurn, t}

Touched(t) ==
  CASE lease.left = 0 -> Free
    [] lease.left > 0 /\ lease.turn = t -> Claimed(t)
    [] OTHER -> lease

\* mutant of Released: whoever holds the lease
ReleasedByAnyone(t) == Free
Released(t) == IF lease.turn = t THEN Free ELSE lease

(***************************************************************************)
(* mountForTurn.  The turn has set the bot's activity; it inspects the     *)
(* desktop, claims the lease, wakes or creates the desktop and waits for   *)
(* it if it has to, then starts its poller in the place of any other.      *)
(***************************************************************************)
Goto(t, place) == pc' = [pc EXCEPT ![t] = place]

\* What an Inspect returned is dropped once used, a deadline once met.
Sees(t, d) == seen' = [seen EXCEPT ![t] = d]
Forgets(t) == Sees(t, "missing")
Waits(t, ticks) == budget' = [budget EXCEPT ![t] = ticks]

Begin(t) ==
  /\ pc[t] = "new"
  /\ Goto(t, "inspected")
  /\ Sees(t, desktop)
  /\ busy' = TRUE
  /\ UNCHANGED <<desktop, lease, budget, screenVars, timer, op, failures>>

Claim(t) ==
  /\ pc[t] = "inspected"
  /\ lease' = IF MayClaim(t) THEN Claimed(t) ELSE Current
  /\ Goto(t, CASE ~MayClaim(t) -> "without"
               [] MayClaim(t) /\ seen[t] \in Asleep -> "provision"
               [] MayClaim(t) /\ seen[t] = "booting" -> "wait"
               [] OTHER -> "mount")
  /\ Forgets(t)
  /\ Waits(t, IF MayClaim(t) /\ seen[t] = "booting" THEN ReadyWait ELSE 0)
  /\ UNCHANGED <<desktop, busy, screenVars, timer, op, failures>>

\* A step that fails gives the lease back; the turn goes on without a desktop.
\* mutant of GiveUp: an error return that forgets the lease
GiveUpHolding(t) ==
  Goto(t, "without") /\ Forgets(t) /\ Waits(t, 0) /\ UNCHANGED lease
GiveUp(t) ==
  Goto(t, "without") /\ Forgets(t) /\ Waits(t, 0) /\ lease' = Released(t)

\* provision inspects again: there is nothing to do if the desktop runs by now.
Provision(t) ==
  /\ pc[t] = "provision"
  /\ IF desktop \in Asleep
     THEN Goto(t, "apply") /\ Sees(t, desktop) /\ UNCHANGED budget
     ELSE Goto(t, "wait") /\ Waits(t, ReadyWait) /\ UNCHANGED seen
  /\ UNCHANGED <<desktop, lease, busy, screenVars, timer, op, failures>>

\* Run or Start under the manager's lock, then the idle timer is touched.
Apply(t) ==
  /\ pc[t] = "apply" /\ desktop = seen[t]
  /\ desktop' = "booting"
  /\ Goto(t, "wait") /\ Waits(t, ReadyWait) /\ Forgets(t)
  /\ timer' = TRUE
  /\ UNCHANGED <<lease, busy, screenVars, op, failures>>

\* The manager refuses what no longer fits the desktop.
ApplyRefused(t) ==
  /\ pc[t] = "apply" /\ desktop # seen[t]
  /\ GiveUp(t)
  /\ UNCHANGED <<desktop, busy, screenVars, timer, op, failures>>

ApplyFails(t) ==
  /\ pc[t] = "apply" /\ failures < MaxFailures
  /\ failures' = failures + 1
  /\ GiveUp(t)
  /\ UNCHANGED <<desktop, busy, screenVars, timer, op>>

WaitReady(t) ==
  /\ pc[t] = "wait" /\ desktop = "ready"
  /\ Goto(t, "mount") /\ Waits(t, 0)
  /\ UNCHANGED <<desktop, lease, busy, seen, screenVars, timer, op, failures>>

\* The desktop went away, the deadline passed or the turn was cancelled.
\* mutant of WaitFails: only a desktop that is still booting is given up
WaitFailsBooting(t) ==
  /\ pc[t] = "wait"
  /\ desktop = "booting"
  /\ GiveUp(t)
  /\ UNCHANGED <<desktop, busy, screenVars, timer, op, failures>>
WaitFails(t) ==
  /\ pc[t] = "wait"
  /\ desktop # "ready"
  /\ GiveUp(t)
  /\ UNCHANGED <<desktop, busy, screenVars, timer, op, failures>>

\* finish: the last capture of a poller, which its turn may have no use for.
Settled == {lease} \union
  IF poller # NoTurn /\ ~held /\ desktop = "ready" THEN {Touched(poller)} ELSE {}

\* startPoller stops the poller it finds, then stores its own.
Mount(t) ==
  /\ pc[t] = "mount"
  /\ Goto(t, "starting")
  /\ timer' = TRUE
  /\ poller' = NoTurn
  /\ polling' = polling \ {poller}
  /\ lease' \in Settled
  /\ UNCHANGED <<desktop, busy, seen, budget, shot, held, op, failures>>

StartPoller(t) ==
  /\ pc[t] = "starting"
  /\ Goto(t, "mounted")
  /\ poller' = t
  /\ polling' = polling \union {t}
  /\ UNCHANGED <<desktop, lease, busy, seen, budget, shot, held, timer, op,
                 failures>>

(***************************************************************************)
(* The turn's progress marks the bot active; its end marks it idle, then   *)
(* releaseTurn stops the bot's poller, releases the lease and arms the     *)
(* idle timer.  The lane's worker marks the bot idle again when it finds   *)
(* its queue empty.                                                        *)
(***************************************************************************)
Progress(t) ==
  /\ pc[t] \in {"mounted", "without"} /\ ~busy
  /\ busy' = TRUE
  /\ UNCHANGED <<desktop, lease, turnVars, screenVars, timer, op, failures>>

End(t) ==
  /\ pc[t] \in {"mounted", "without"}
  /\ busy' = FALSE
  /\ Goto(t, IF pc[t] = "mounted" THEN "ended" ELSE "over")
  /\ UNCHANGED <<desktop, lease, seen, budget, screenVars, timer, op, failures>>

StopPoller(t) ==
  /\ pc[t] = "ended"
  /\ Goto(t, "leaving")
  /\ poller' = NoTurn
  /\ polling' = polling \ {poller}
  /\ lease' \in Settled
  /\ UNCHANGED <<desktop, busy, seen, budget, shot, held, timer, op, failures>>

ReleaseTurn(t) ==
  /\ pc[t] = "leaving"
  /\ Goto(t, "over")
  /\ lease' = Released(t)
  /\ timer' = TRUE
  /\ UNCHANGED <<desktop, busy, seen, budget, screenVars, op, failures>>

WorkerIdle(t) ==
  /\ pc[t] = "over"
  /\ Goto(t, "gone")
  /\ busy' = FALSE
  /\ UNCHANGED <<desktop, lease, seen, budget, screenVars, timer, op, failures>>

(***************************************************************************)
(* The screen poller.  A capture touches the lease when it succeeds, which *)
(* may be after its turn is over; none starts while the person drives.     *)
(***************************************************************************)
StartCapture(t) ==
  /\ t \in polling /\ ~held /\ t \notin shot
  /\ shot' = shot \union {t}
  /\ UNCHANGED <<desktop, lease, busy, turnVars, poller, polling, held, timer,
                 op, failures>>

EndCapture(t) ==
  /\ t \in shot
  /\ shot' = shot \ {t}
  /\ lease' = IF desktop = "ready" THEN Touched(t) ELSE lease
  /\ UNCHANGED <<desktop, busy, turnVars, poller, polling, held, timer, op,
                 failures>>

TakeWheel ==
  /\ held' = ~held
  /\ UNCHANGED <<desktop, lease, busy, turnVars, poller, polling, shot, timer,
                 op, failures>>

(***************************************************************************)
(* The idle timer and the operations of the web UI.  A stop looks at the   *)
(* lease once, acts under the manager's lock, and then cancels the timer.  *)
(***************************************************************************)
opVars == <<desktop, busy, turnVars, screenVars>>
OpTo(k, place) == op' = [op EXCEPT ![k] = place]

Fire ==
  /\ timer /\ op["idle"] = "none"
  /\ timer' = FALSE
  /\ OpTo("idle", "fired")
  /\ UNCHANGED <<opVars, lease, failures>>

\* expire: a busy bot gets another full window.
Expire ==
  /\ op["idle"] = "fired"
  /\ OpTo("idle", IF busy THEN "none" ELSE "check")
  /\ timer' = (timer \/ busy)
  /\ UNCHANGED <<opVars, lease, failures>>

\* apply refuses to stop the desktop of a live turn, for the timer for good.
StopCheck(k) ==
  /\ op[k] = IF k = "idle" THEN "check" ELSE "none"
  /\ lease' = Current
  /\ OpTo(k, IF Current.turn = NoTurn THEN "apply" ELSE "none")
  /\ UNCHANGED <<opVars, timer, failures>>

StopApply(k) ==
  /\ op[k] = "apply"
  /\ IF k = "remove" \/ desktop \notin Asleep
     THEN /\ desktop' = IF k = "remove" THEN "missing" ELSE "stopped"
          /\ OpTo(k, "settle")
     ELSE OpTo(k, "none") /\ UNCHANGED desktop
  /\ UNCHANGED <<lease, busy, turnVars, screenVars, timer, failures>>

\* The container command fails: a suspend gets another full window.
StopFails(k) ==
  /\ op[k] = "apply" /\ failures < MaxFailures
  /\ failures' = failures + 1
  /\ OpTo(k, "none")
  /\ timer' = (timer \/ k = "idle")
  /\ UNCHANGED <<opVars, lease>>

StopSettle(k) ==
  /\ op[k] = "settle"
  /\ OpTo(k, "none")
  /\ timer' = FALSE
  /\ UNCHANGED <<opVars, lease, failures>>

\* The wake route: provision without a lease.
Wake ==
  /\ "wake" \in Routes /\ desktop \in Asleep
  /\ desktop' = "booting"
  /\ timer' = TRUE
  /\ UNCHANGED <<lease, busy, turnVars, screenVars, op, failures>>

Boot ==
  /\ desktop = "booting"
  /\ desktop' = "ready"
  /\ UNCHANGED <<lease, busy, turnVars, screenVars, timer, op, failures>>

Waiting == {t \in Turns : pc[t] = "wait"}

\* No wait outlives its deadline, and the steps around it take no time.  A
\* tick is longer than a capture and the pause before the next: while the
\* owner's poller runs undisturbed, the lease is renewed.
Tick ==
  /\ \A t \in Turns : pc[t] \notin {"inspected", "mount", "starting"}
  /\ lease.left > 0 \/ Waiting # {}
  /\ \A t \in Waiting : budget[t] > 0
  /\ lease' = IF lease.turn \in polling /\ ~held /\ desktop = "ready"
              THEN Touched(lease.turn)
              ELSE [lease EXCEPT !.left = IF @ > 0 THEN @ - 1 ELSE 0]
  /\ budget' = [t \in Turns |-> IF t \in Waiting THEN budget[t] - 1
                                ELSE budget[t]]
  /\ UNCHANGED <<desktop, busy, pc, seen, screenVars, timer, op, failures>>

\* mountForTurn after its first Inspect; the end of the turn.
Mounting(t) ==
  \/ Claim(t) \/ Provision(t) \/ Apply(t) \/ ApplyRefused(t) \/ ApplyFails(t)
  \/ WaitReady(t) \/ WaitFails(t) \/ Mount(t) \/ StartPoller(t)
Leaving(t) == End(t) \/ StopPoller(t) \/ ReleaseTurn(t) \/ WorkerIdle(t)

Next ==
  \/ \E t \in Turns : \/ Begin(t) \/ Mounting(t) \/ Progress(t) \/ Leaving(t)
                      \/ StartCapture(t) \/ EndCapture(t)
  \/ \E k \in Stops :
       StopCheck(k) \/ StopApply(k) \/ StopFails(k) \/ StopSettle(k)
  \/ TakeWheel \/ Fire \/ Expire \/ Wake \/ Boot \/ Tick

Spec == Init /\ [][Next]_vars

\* The goroutine that mounts goes on: every call it makes has a deadline.
FairSpec == Spec /\ \A t \in Turns : WF_vars(Mounting(t))
-----------------------------------------------------------------------------
(***************************************************************************)
(* The state of the desktop, its lease, its turns and its operations.      *)
(***************************************************************************)
Places == {"new", "inspected", "provision", "apply", "wait", "mount",
           "starting", "mounted", "ended", "leaving", "over", "gone", "without"}

TypeOK ==
  /\ desktop \in Asleep \union {"booting", "ready"}
  /\ lease \in [turn : Turns \union {NoTurn}, left : 0..LeaseTTL]
  /\ busy \in BOOLEAN /\ held \in BOOLEAN /\ timer \in BOOLEAN
  /\ pc \in [Turns -> Places]
  /\ seen \in [Turns -> Asleep \union {"booting", "ready"}]
  /\ budget \in [Turns -> 0..ReadyWait]
  /\ poller \in Turns \union {NoTurn}
  /\ polling \subseteq Turns /\ shot \subseteq Turns
  /\ op \in [Stops -> {"none", "fired", "check", "apply", "settle"}]
  /\ failures \in 0..MaxFailures

(***************************************************************************)
(* A turn that holds a live lease loses it by nothing but its own steps:   *)
(* no late capture, release or failed mount of another turn takes it while *)
(* the bot is busy and the lease has time left (lease.go, Release).        *)
(***************************************************************************)
LeaseIsFenced ==
  [][\A t \in Turns :
       lease.turn = t /\ lease.left > 0 /\ busy /\ lease'.turn # t
         => pc'[t] # pc[t]]_vars

(***************************************************************************)
(* Whoever the lease names is still between its claim and its release: no  *)
(* error path of mountForTurn and no late touch leaves the desktop with a  *)
(* turn that is over, which would refuse it to the next one.               *)
(***************************************************************************)
NoLeakedLease ==
  \A t \in Turns : lease.turn = t =>
    pc[t] \notin {"new", "inspected", "over", "gone", "without"}

(***************************************************************************)
(* A turn is not kept from its work by its desktop: whatever happens to    *)
(* the container while it mounts (another turn, a stop, a remove, a slow   *)
(* boot, a failed command), it gets the desktop or goes on without         *)
(* (launcher_computer.go, mountComputerForTurn).                           *)
(***************************************************************************)
TurnsGoOn == \A t \in Turns :
  pc[t] = "inspected" ~> pc[t] \in {"mounted", "without"}
================================================================================
