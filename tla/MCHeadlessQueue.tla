-------------------------- MODULE MCHeadlessQueue --------------------------
(***************************************************************************)
(* Instances of HeadlessQueue for TLC.  The constants that are sets or     *)
(* functions of model values are defined here; the .cfg files choose the   *)
(* caps, the runner's outcomes and the environment's operations.           *)
(***************************************************************************)
EXTENDS HeadlessQueue, TLC

CONSTANTS lead, eng, k1, tree, w1, w2, w3

MCTreeOf == [k \in Isolated |-> tree]
\* The notifications of each instance: <<bot, task, from a human>>.
ChatInputs == {<<eng, NoTask, FALSE>>}
EngTaskInputs == {<<eng, k1, FALSE>>, <<eng, k1, TRUE>>}
RecoveryInputs == EngTaskInputs \cup {<<eng, NoTask, FALSE>>}
LiveInputs == {<<eng, k1, FALSE>>, <<eng, NoTask, FALSE>>, <<lead, NoTask, FALSE>>, <<lead, NoTask, TRUE>>}

WorkerSymmetry == Permutations(Workers)

=============================================================================
