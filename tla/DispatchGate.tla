---------------------------- MODULE DispatchGate ----------------------------
(***************************************************************************)
(* What the session governor promises the dispatch workers: a gate that    *)
(* admits nobody while it is shut and, once it stays open, everybody.      *)
(* HeadlessQueue relies on exactly this (paused and PassGate); Governor    *)
(* implements it with a mutex and a channel that resume closes.            *)
(***************************************************************************)
CONSTANTS Workers

VARIABLES
  shut,    \* the session is paused
  closed,  \* the workers' stop channel is closed
  place    \* worker -> "waiting" at the gate, "inside" a turn or "gone"

gateVars == <<shut, closed, place>>

Init ==
  /\ shut = FALSE
  /\ closed = FALSE
  /\ place = [w \in Workers |-> "waiting"]

Shut == shut' = TRUE /\ UNCHANGED <<closed, place>>
Open == shut' = FALSE /\ UNCHANGED <<closed, place>>
Close == closed' = TRUE /\ UNCHANGED <<shut, place>>

\* A worker may start its next turn.
Enter(w) ==
  /\ place[w] = "waiting" /\ ~shut
  /\ place' = [place EXCEPT ![w] = "inside"]
  /\ UNCHANGED <<shut, closed>>

\* A turn is over; the checkpoint may shut the gate in the same step.
Leave(w) ==
  /\ place[w] = "inside"
  /\ place' = [place EXCEPT ![w] = "waiting"]
  /\ shut' \in {shut, TRUE}
  /\ UNCHANGED closed

\* A worker gives up waiting, only because of shutdown.
Quit(w) ==
  /\ place[w] = "waiting" /\ closed
  /\ place' = [place EXCEPT ![w] = "gone"]
  /\ UNCHANGED <<shut, closed>>

Next ==
  \/ Shut \/ Open \/ Close
  \/ \E w \in Workers : Enter(w) \/ Leave(w) \/ Quit(w)

Spec == Init /\ [][Next]_gateVars

\* An open gate lets a waiting worker through (or shutdown takes it away).
LiveSpec == Spec /\ \A w \in Workers : WF_gateVars(Enter(w))

=============================================================================
