----------------------------- MODULE TaskLifecycle -----------------------------
(***************************************************************************)
(* The life of a task in the broker: the verbs of MutateTask               *)
(* (broker_tasks_mutation_service.go), decisions                           *)
(* (broker_decision_packet.go), BlockTask, ResumeTask and the cascade that *)
(* releases dependents (broker_tasks_lifecycle.go), plan approval, the     *)
(* human's notes, reviewer convergence, and a crash with the repairs made  *)
(* at the next start.  A task carries its state twice: the typed           *)
(* LifecycleState, and the older tuple (pipelineStage, reviewState,        *)
(* status, blocked) which most verbs write and the typed state is then     *)
(* re-derived from.                                                        *)
(*                                                                         *)
(* Every operation runs under the broker's mutex and is one step, except   *)
(* where the code lets go of it: the definition-of-done check runs before  *)
(* the locked part of complete and approve, a decision releases dependents *)
(* in a second critical section, and a work packet is built from a copy of *)
(* the task whose pending note it clears afterwards.                       *)
(*                                                                         *)
(* An operation that fails after its first write restores the snapshot it  *)
(* took and is no step of the model; where the code returns without        *)
(* restoring, the model keeps what was written.                            *)
(***************************************************************************)
EXTENDS Naturals, FiniteSets

CONSTANTS
  Tasks,
  DependsOn,    \* the upstream tasks a task is created with
  Replans,      \* task -> the sets of upstream tasks a repeated plan may name
  Structured,   \* may a task need structured review, as a feature in a local
                \* worktree does?  The others are issues of the office
  NoOne,
  Actors,       \* who calls
  Verbs,        \* the verbs, decisions and events of the instance
  Checks        \* BOOLEAN or {FALSE}: may a task require a check to be done?

ASSUME DependenciesAreTasks ==
  /\ DependsOn \in [Tasks -> SUBSET Tasks]
  /\ \A t \in Tasks : t \notin DependsOn[t]
ASSUME ReplansAreTasks == Replans \in [Tasks -> SUBSET SUBSET Tasks]
ASSUME StructuredType == Structured \subseteq BOOLEAN /\ Structured # {}
ASSUME ChecksType == Checks \subseteq BOOLEAN /\ Checks # {}

VARIABLES
  tasks,   \* the broker's tasks
  disk,    \* the tasks in the state file
  call,    \* a gated verb or a decision between two critical sections
  packet,  \* the owner's work packet while it is built
  lost     \* history: upstream tasks whose cascade a crash cut off

vars == <<tasks, disk, call, packet, lost>>

Human == "human"
Lead == "lead"
Bot == "bot"            \* a specialist; the owner of tasks that have one
Reviewer == "reviewer"  \* a specialist among every task's Reviewers
System == "system"      \* internal recovery
ASSUME ActorsType == Actors \subseteq {Human, Lead, Bot, Reviewer, System}

(***************************************************************************)
(* lifecycleDerivedFields: the tuple that goes with each typed state.      *)
(* "none" is a task that does not exist, "" one without a typed state.     *)
(***************************************************************************)
Row == [
  drafting |-> <<"draft", "pending_review", "open", FALSE>>,
  planning |-> <<"plan", "pending_review", "in_progress", FALSE>>,
  ready    |-> <<"triage", "pending_review", "open", FALSE>>,
  running  |-> <<"implement", "pending_review", "in_progress", FALSE>>,
  review   |-> <<"review", "ready_for_review", "in_progress", FALSE>>,
  decision |-> <<"review", "ready_for_review", "in_progress", FALSE>>,
  blocked  |-> <<"review", "ready_for_review", "blocked", TRUE>>,
  queued   |-> <<"triage", "pending_review", "open", TRUE>>,
  changes  |-> <<"implement", "pending_review", "in_progress", FALSE>>,
  approved |-> <<"ship", "approved", "done", FALSE>>,
  rejected |-> <<"review", "rejected", "rejected", TRUE>>,
  archived |-> <<"archived", "approved", "archived", FALSE>>]
States == DOMAIN Row

\* wait, stop: history, whether it is blocked because of its dependencies
\* only, and whether the owner has yet to read the human's last stop order.
NoTask == [life |-> "none", stage |-> "", review |-> "", status |-> "",
           blocked |-> FALSE, owner |-> NoOne, deps |-> {}, blockedOn |-> {},
           objection |-> FALSE, note |-> "none", check |-> FALSE,
           structured |-> FALSE, wait |-> FALSE, stop |-> FALSE]

IdleCall == [pc |-> "idle", verb |-> "", by |-> NoOne, t |-> NoOne,
             checked |-> FALSE]
IdlePacket == [t |-> NoOne, note |-> "none"]

Tuple(k) == <<k.stage, k.review, k.status, k.blocked>>
Exists(t) == tasks[t].life # "none"
IsTerminal(k) == k.status \in {"done", "canceled", "archived"}
IsPreExecution(k) == k.life \in {"drafting", "ready", "queued", "planning"}

(***************************************************************************)
(* applyLifecycleStateLocked.                                              *)
(***************************************************************************)
Enter(k, s) ==
  [k EXCEPT !.life = s, !.stage = Row[s][1], !.review = Row[s][2],
            !.status = Row[s][3], !.blocked = Row[s][4]]

(***************************************************************************)
(* deriveLifecycleStateFromLegacy and the fallback of                      *)
(* reindexTaskLifecycleFromLegacyLocked.  The map inverts the table, but   *)
(* for decision, whose row is review's, and changes, which it knows by a   *)
(* review state the table never writes; its rows for status "blocked" say  *)
(* what the fallback says.                                                 *)
(***************************************************************************)
Derivable == States \ {"decision", "changes"}
Matching(k) ==
  {s \in Derivable : Row[s] = Tuple(k)} \union
  {s \in {"changes"} :
     Tuple(k) = <<"implement", "changes_requested", "in_progress", FALSE>>}
Derived(k) ==
  IF Matching(k) # {} THEN CHOOSE s \in Matching(k) : TRUE
  ELSE IF k.blocked \/ k.status = "blocked" THEN "blocked"
  ELSE IF IsTerminal(k) THEN "approved"
  ELSE IF k.status = "review" \/ k.review = "ready_for_review" THEN "review"
  ELSE IF k.status = "in_progress" \/ k.owner # NoOne THEN "running"
  ELSE "ready"

\* mutant of Reindex: planning sticks whatever the status
ReindexSticky(k) ==
  [k EXCEPT !.life = IF @ = "planning" /\ ~k.blocked THEN @ ELSE Derived(k)]
Reindex(k) ==
  LET keeps == /\ k.life = "planning" /\ ~k.blocked
               /\ k.status \in {"open", "in_progress"}
      s == IF keeps THEN "planning" ELSE Derived(k)
  IN  [k EXCEPT !.life = s]

(***************************************************************************)
(* normalizeTaskPlan: the stage comes from the pipeline template of the    *)
(* task's type, not from the table.                                        *)
(***************************************************************************)
\* mutant of Template: the follow-up pipeline's stages
TemplateFollowUp(k) ==
  [open |-> "triage", active |-> "execute", review |-> "review",
   done |-> "close"]
Template(k) ==
  IF k.structured
  THEN [open |-> "triage", active |-> "implement", review |-> "review",
        done |-> "ship"]
  ELSE [open |-> "draft", active |-> "breakdown", review |-> "approve",
        done |-> "approved"]
NormalizePlan(k) ==
  LET unset == IF k.structured THEN "pending_review" ELSE "not_required"
      review == IF k.review = "" THEN unset ELSE k.review
  IN  [k EXCEPT
        !.review = CASE k.status = "review" -> "ready_for_review"
                     [] k.status = "done" /\ review \in
                          {"pending_review", "ready_for_review"} -> "approved"
                     [] OTHER -> review,
        !.stage = CASE k.status = "in_progress" -> Template(k).active
                    [] k.status = "review" -> Template(k).review
                    [] k.status = "done" -> Template(k).done
                    [] OTHER -> Template(k).open]

(***************************************************************************)
(* reconcileTaskReviewState.                                               *)
(***************************************************************************)
Reconcile(k, verb) ==
  IF verb \in {"request_changes", "submit_for_review", "comment", "reject",
               "archive", "define", "reopen"}
  THEN k
  ELSE [k EXCEPT !.review =
         IF ~k.structured
         THEN IF verb = "create" /\ @ = "" THEN "" ELSE "not_required"
         ELSE CASE k.status = "review" -> "ready_for_review"
                [] k.status = "done" ->
                     IF verb \in {"approve", "complete"} \/ @ = "approved"
                     THEN "approved" ELSE "ready_for_review"
                [] OTHER ->
                     IF @ \in {"pending_review", "ready_for_review", "approved"}
                     THEN @ ELSE "pending_review"]

\* The history of a wait for upstream: it ends when the task is no longer
\* blocked, or is blocked or rejected in its own right.
Waits(k) == k.wait /\ k.blocked /\ k.status \notin {"blocked", "rejected"}
Settle(k) == [k EXCEPT !.wait = Waits(k)]

Finish(k, verb) == Settle(NormalizePlan(Reindex(Reconcile(k, verb))))
Start(k) == Settle(NormalizePlan(Enter(k, "running")))

(***************************************************************************)
(* hasUnresolvedDepsLocked and unblockDependentsLocked.                    *)
(***************************************************************************)
\* mutant of Unresolved: a rejected upstream counts as resolved
UnresolvedOpen(ts, deps) ==
  {d \in deps : ~IsTerminal(ts[d]) /\ ts[d].status # "rejected"}
Unresolved(ts, deps) == {d \in deps : ~IsTerminal(ts[d])}

\* mutant of Released: only a task that is done releases its dependents
ReleasedByDone(ts, t) ==
  IF ts[t].status # "done" THEN ts
  ELSE [d \in Tasks |->
    LET k == ts[d]
    IN  IF ~k.blocked \/ t \notin k.deps \/ Unresolved(ts, k.deps) # {} THEN k
        ELSE Settle(NormalizePlan(Enter(k, "running")))]
Released(ts, t) ==
  IF ~IsTerminal(ts[t]) THEN ts
  ELSE [d \in Tasks |->
    LET k == ts[d]
        on == k.blockedOn \ {t}
        held == k.blocked \/ k.life = "blocked"
    IN  IF ~held \/ t \notin k.deps \union k.blockedOn THEN k
        ELSE IF Unresolved(ts, k.deps) # {} \/ on # {}
        THEN [k EXCEPT !.blockedOn = on]
        ELSE Settle(NormalizePlan(Enter([k EXCEPT !.blockedOn = on],
               IF k.life = "blocked" THEN "review"
               ELSE IF k.owner # NoOne THEN "running" ELSE "ready")))]

Save(ts) == tasks' = ts /\ disk' = ts
Write(t, k) == Save([tasks EXCEPT ![t] = k])

Init ==
  /\ tasks = [t \in Tasks |-> NoTask]
  /\ disk = tasks
  /\ call = IdleCall
  /\ packet = IdlePacket
  /\ lost = {}

(***************************************************************************)
(* MutateTask's create: the task is indexed under the state its fields     *)
(* derive to, then, for an issue, its typed state is blanked and its       *)
(* landing state applied.  The lead, the human or internal recovery may    *)
(* name any owner; internal tasks skip planning.                           *)
(***************************************************************************)
Create(t, by, owner, check, structured) ==
  /\ "create" \in Verbs /\ ~Exists(t) /\ by \in {Human, System}
  /\ LET waits == Unresolved(tasks, DependsOn[t]) # {}
         new == [NoTask EXCEPT
           !.life = "", !.owner = owner, !.deps = DependsOn[t],
           !.check = check, !.structured = structured,
           !.blocked = waits, !.wait = waits,
           !.status = IF ~waits /\ owner # NoOne THEN "in_progress"
                      ELSE "open"]
         k == Reindex(NormalizePlan(Reconcile(new, "create")))
         landing == IF waits THEN "queued"
                    ELSE IF owner = NoOne THEN "ready"
                    ELSE IF by = System THEN "running" ELSE "planning"
     IN  Write(t, IF k.structured THEN k
                  ELSE Enter(k, landing))
  /\ UNCHANGED <<call, packet, lost>>

\* A create that finds an open task of the same title refreshes that one.
Reusable(t, owner) ==
  /\ Exists(t) /\ ~IsTerminal(tasks[t])
  /\ NoOne \in {owner, tasks[t].owner} \/ owner = tasks[t].owner

CreateAgain(t, owner) ==
  /\ "createAgain" \in Verbs /\ Reusable(t, owner)
  /\ LET k == IF owner = NoOne THEN tasks[t]
              ELSE [tasks[t] EXCEPT !.owner = owner, !.status = "in_progress"]
     IN  Write(t, Finish(k, "create"))
  /\ UNCHANGED <<call, packet, lost>>

\* handleTaskPlan: parked tasks land in drafting, tasks that can start are
\* stamped running; the others keep an empty typed state.
Plan(t, park, owner, structured) ==
  /\ "plan" \in Verbs /\ ~Exists(t)
  /\ LET waits == Unresolved(tasks, DependsOn[t]) # {}
         new == [NoTask EXCEPT
           !.life = "", !.owner = owner, !.deps = DependsOn[t],
           !.structured = structured, !.blocked = waits, !.wait = waits,
           !.status = IF ~waits /\ owner # NoOne THEN "in_progress"
                      ELSE "open"]
         k == IF park THEN Enter(new, "drafting")
              ELSE IF new.status = "in_progress" THEN Enter(new, "running")
              ELSE new
     IN  Write(t, Settle(NormalizePlan(k)))
  /\ UNCHANGED <<call, packet, lost>>

\* A plan that finds an open task of the same title replaces its dependencies
\* by the ones the request names, perhaps none, sets its status by them and
\* leaves its typed state as it is.
PlanAgain(t, owner, deps) ==
  /\ "planAgain" \in Verbs /\ Reusable(t, owner)
  /\ LET waits == Unresolved(tasks, deps) # {}
         k == [tasks[t] EXCEPT
           !.deps = deps, !.blocked = waits,
           !.wait = waits /\ tasks[t].blockedOn = {},
           !.status = CASE waits -> "open"
                        [] ~waits /\ tasks[t].owner # NoOne -> "in_progress"
                        [] OTHER -> IF @ = "blocked" THEN "open" ELSE @]
     IN  Write(t, NormalizePlan(k))
  /\ UNCHANGED <<call, packet, lost>>

(***************************************************************************)
(* checkTaskActionAuthLocked.                                              *)
(***************************************************************************)
OwnerVerbs == {"submit_for_review", "review", "complete", "resume", "release",
               "claim", "block", "cancel", "reopen"}
ReviewerVerbs == {"request_changes", "approve", "reject"}
MayAct(verb, by, k) ==
  \/ by \in {Human, Lead, System}
  \/ verb = "comment"
  \/ verb \in OwnerVerbs /\ by = k.owner
  \/ verb \in ReviewerVerbs /\ by = Reviewer

(***************************************************************************)
(* The gates on a task that has not started, and on one whose owner has    *)
(* not read a stop order.                                                  *)
(***************************************************************************)
NotStarted(k) == k.life \in {"drafting", "planning"}
Halted(k, by) == k.note = "halt" /\ by # Human
TurnedAway(verb, by, k) ==
  IF verb = "approve" THEN NotStarted(k) /\ by \notin {Human, System}
  ELSE (NotStarted(k) /\ by # System) \/ Halted(k, by)
HumanReads(k, by) ==
  IF by = Human THEN [k EXCEPT !.note = "none", !.stop = FALSE] ELSE k

Done(k) ==
  [k EXCEPT !.status = "done", !.blocked = FALSE,
            !.review = IF k.structured THEN "approved" ELSE @]
UnderReview(k) == [k EXCEPT !.status = "review", !.review = "ready_for_review"]
Unblocked(k) ==
  [k EXCEPT !.blocked = FALSE,
            !.status = IF @ # "blocked" THEN @
                       ELSE IF k.owner # NoOne THEN "in_progress" ELSE "open"]

\* The switch of MutateTask for the verbs that are one critical section.
Apply(k, verb, by) ==
  CASE verb = "claim" ->
         [k EXCEPT !.owner = Bot, !.status = "in_progress",
                   !.review = IF k.structured THEN "pending_review"
                              ELSE "not_required"]
    [] verb = "reassign" ->
         [k EXCEPT !.owner = Bot,
                   !.status = IF @ \in {"done", "review"} THEN @
                              ELSE "in_progress"]
    [] verb \in {"review", "submit_for_review"} -> UnderReview(k)
    [] verb = "block" -> [k EXCEPT !.status = "blocked", !.blocked = TRUE]
    [] verb = "resume" -> Unblocked(k)
    [] verb = "reopen" ->
         Enter(k, IF k.owner # NoOne THEN "running" ELSE "ready")
    [] verb = "release" ->
         [k EXCEPT !.owner = NoOne, !.status = "open", !.blocked = FALSE]
    [] verb = "cancel" -> [k EXCEPT !.status = "canceled", !.blocked = FALSE]
    [] verb = "request_changes" ->
         [k EXCEPT !.status = "in_progress", !.review = "changes_requested",
                   !.blocked = FALSE, !.objection = @ \/ by = Human]
    [] verb = "reject" -> Enter(k, "rejected")
    [] verb = "archive" -> Enter(k, "archived")
    [] verb = "define" -> [k EXCEPT !.check = @ \/ TRUE \in Checks]
    [] verb = "comment" -> k      \* and edit

UngatedVerbs == (OwnerVerbs \ {"complete"}) \union
  {"reassign", "request_changes", "reject", "archive", "define", "comment"}

Mutate(t, verb, by) ==
  /\ verb \in Verbs /\ Exists(t) /\ MayAct(verb, by, tasks[t])
  /\ verb = "submit_for_review" => ~TurnedAway(verb, by, tasks[t])
  /\ LET k == IF verb = "submit_for_review" THEN HumanReads(tasks[t], by)
              ELSE tasks[t]
         done == Finish(Apply(k, verb, by), verb)
     IN  Save(Released([tasks EXCEPT ![t] = done], t))
  /\ UNCHANGED <<call, packet, lost>>

(***************************************************************************)
(* gateTaskCompletionVerification, before the locked part of complete and  *)
(* approve and of an approving decision: a task that has not started is    *)
(* let through unchecked, and a required check that fails ends the call.   *)
(***************************************************************************)
GateExempts(k, verb, by) ==
  IsPreExecution(k) /\ ~(verb = "complete" /\ by = System)

Gate(t, verb, by, next) ==
  /\ verb \in Verbs /\ Exists(t) /\ call.pc = "idle"
  /\ next = "mutate" => MayAct(verb, by, tasks[t])
  /\ call' = [pc |-> next, verb |-> verb, by |-> by, t |-> t,
              checked |-> tasks[t].check /\ ~GateExempts(tasks[t], verb, by)]
  /\ disk' = IF call'.checked THEN tasks ELSE disk
  /\ UNCHANGED <<tasks, packet, lost>>

(***************************************************************************)
(* The locked part of complete and approve in MutateTask.  It checks the   *)
(* actor and the human's objection again, and clears the objection before  *)
(* the gates that may still refuse the call without restoring it.          *)
(***************************************************************************)
\* mutant of Objected: the lead may overrule the human
ObjectedNotLead(k, by) == k.objection /\ by \notin {Human, Lead}
Objected(k, by) == k.objection /\ by # Human
Cleared(k) == [k EXCEPT !.objection = FALSE]
Starts(verb, by, k) ==
  verb = "approve" /\ NotStarted(k) /\ by \in {Human, System}

\* complete on a task that needs structured review only hands it to review,
\* unless it is there or done already.
Completes(k, verb) ==
  \/ verb = "approve" \/ ~k.structured
  \/ k.status \in {"done", "review"} \/ k.review = "ready_for_review"

Landing(admitted) ==
  /\ call.pc = "mutate"
  /\ admitted = (/\ ~Objected(tasks[call.t], call.by)
                 /\ MayAct(call.verb, call.by, tasks[call.t]))
  /\ call' = IdleCall
  /\ UNCHANGED <<packet, lost>>

LandRefused == Landing(FALSE) /\ UNCHANGED <<tasks, disk>>

LandTurnedAway ==
  /\ Landing(TRUE)
  /\ TurnedAway(call.verb, call.by, tasks[call.t])
  /\ tasks' = [tasks EXCEPT ![call.t] = Cleared(@)]
  /\ UNCHANGED disk

LandStart ==
  /\ Landing(TRUE)
  /\ Starts(call.verb, call.by, tasks[call.t])
  /\ Write(call.t, Start(Cleared(tasks[call.t])))

LandDone ==
  /\ Landing(TRUE)
  /\ ~TurnedAway(call.verb, call.by, tasks[call.t])
  /\ ~Starts(call.verb, call.by, tasks[call.t])
  /\ LET t == call.t
         k == Cleared(tasks[t])
         read == IF call.verb = "complete" THEN HumanReads(k, call.by) ELSE k
         done == IF Completes(read, call.verb) THEN Done(read)
                 ELSE UnderReview(read)
     IN  Save(Released([tasks EXCEPT ![t] = Finish(done, call.verb)], t))

(***************************************************************************)
(* recordTaskDecisionInternal: the first critical section writes no file;  *)
(* OnDecisionRecorded then releases dependents and saves.  A caller with   *)
(* the broker's token may be a bot.                                        *)
(***************************************************************************)
Outcome(verb, k) ==
  CASE verb = "approve" -> IF IsPreExecution(k) THEN "running" ELSE "approved"
    [] verb = "request_changes" -> "changes"
    [] verb = "block" -> "blocked"
    [] verb = "defer" -> "review"

Decided(t, verb, by) ==
  LET k == Enter(tasks[t], Outcome(verb, tasks[t]))
  IN  CASE verb = "approve" -> [k EXCEPT !.objection = @ /\ by # Human]
        [] verb = "request_changes" ->
             [k EXCEPT !.objection = @ \/ by = Human]
        [] OTHER -> k

Decide(t, verb, by) ==
  /\ verb = "approve" =>
       ~Objected(tasks[t], by) /\ tasks[t].life # "running"
  /\ tasks' = [tasks EXCEPT ![t] = Settle(Decided(t, verb, by))]
  /\ call' = [IdleCall EXCEPT !.pc = "cascade", !.t = t]
  /\ UNCHANGED <<disk, packet, lost>>

DecideApprove == call.pc = "decide" /\ Decide(call.t, call.verb, call.by)
DecideRefused ==
  /\ call.pc = "decide"
  /\ \/ Objected(tasks[call.t], call.by)
     \/ tasks[call.t].life = "running"
  /\ call' = IdleCall
  /\ UNCHANGED <<tasks, disk, packet, lost>>
DecideOther(t, verb, by) ==
  /\ "decide" \in Verbs /\ call.pc = "idle" /\ Exists(t) /\ Decide(t, verb, by)

OnDecisionRecorded ==
  /\ call.pc = "cascade"
  /\ call' = IdleCall
  /\ Save(Released(tasks, call.t))
  /\ UNCHANGED <<packet, lost>>

(***************************************************************************)
(* BlockTask, on an upstream task or on nothing, and ResumeTask.           *)
(***************************************************************************)
BlockTask(t, on) ==
  /\ "BlockTask" \in Verbs /\ Exists(t) /\ ~IsTerminal(tasks[t])
  /\ LET k == [tasks[t] EXCEPT !.blockedOn = @ \union (on \ {t})]
     IN  Write(t, Settle(NormalizePlan(Enter(k, "blocked"))))
  /\ UNCHANGED <<call, packet, lost>>

ResumeTask(t) ==
  /\ "ResumeTask" \in Verbs /\ Exists(t)
  /\ tasks[t].blocked \/ tasks[t].status = "blocked"
  /\ Unresolved(tasks, tasks[t].deps) = {}
  /\ LET s == IF tasks[t].owner # NoOne THEN "running" ELSE "ready"
     IN  Write(t, Settle(NormalizePlan(Enter(tasks[t], s))))
  /\ UNCHANGED <<call, packet, lost>>

\* The owner is removed from the office: its tasks go back to ready.
RemoveOwner ==
  /\ "RemoveOwner" \in Verbs /\ \E t \in Tasks : tasks[t].owner = Bot
  /\ Save([t \in Tasks |-> IF tasks[t].owner # Bot THEN tasks[t]
             ELSE Settle(Enter([tasks[t] EXCEPT !.owner = NoOne], "ready"))])
  /\ UNCHANGED <<call, packet, lost>>

\* evaluateConvergenceLocked: reviewers graded or timed out; not saved.
Converge(t) ==
  /\ "Converge" \in Verbs /\ tasks[t].life = "review"
  /\ tasks' = [tasks EXCEPT ![t] = Settle(Enter(@, "decision"))]
  /\ UNCHANGED <<disk, call, packet, lost>>

\* The human approves the plan in its interview: startApprovedPlanTaskLocked.
ApprovePlan(t) ==
  /\ "ApprovePlan" \in Verbs /\ tasks[t].life = "planning"
  /\ Write(t, Start(tasks[t]))
  /\ UNCHANGED <<call, packet, lost>>

(***************************************************************************)
(* A human message in the task's channel, and the owner's work packet: it  *)
(* is rendered from a copy of the task, then ConsumeTaskHumanNote clears   *)
(* whatever note is pending by then.                                       *)
(***************************************************************************)
Hears(k) ==
  \/ k.life = "running"
  \/ /\ k.owner # NoOne /\ k.life # "archived"
     /\ \/ k.life \in {"review", "decision", "changes", "blocked", "approved"}
        \/ k.status = "done"

PostNote(t, note) ==
  /\ note \in Verbs /\ Exists(t) /\ Hears(tasks[t])
  /\ Write(t, [tasks[t] EXCEPT !.note = note, !.stop = note = "halt"])
  /\ UNCHANGED <<call, packet, lost>>

BuildPacket(t) ==
  /\ packet.t = NoOne /\ Exists(t)
  /\ tasks[t].owner # NoOne /\ tasks[t].note # "none"
  /\ packet' = [t |-> t, note |-> tasks[t].note]
  /\ UNCHANGED <<tasks, disk, call, lost>>

ConsumeTaskHumanNote ==
  /\ packet.t # NoOne
  /\ packet' = IdlePacket
  /\ LET k == tasks[packet.t]
     IN  Write(packet.t, [k EXCEPT !.note = "none",
                                   !.stop = @ /\ packet.note # "halt"])
  /\ UNCHANGED <<call, lost>>

(***************************************************************************)
(* The broker stops and starts again: normalizeLoadedStateLocked unblocks  *)
(* tasks of status "blocked" whose dependencies are resolved, leaving      *)
(* their typed state, and migrateLifecycleStatesLocked lists every task    *)
(* anew, deriving typed states that are missing from tuple or status.      *)
(***************************************************************************)
ByStatus(k) ==
  CASE k.status = "open" -> IF k.blocked THEN "queued" ELSE "ready"
    [] k.status = "in_progress" /\ ~k.blocked -> "running"
    [] OTHER -> Derived(k)
Loaded(k) ==
  LET n == NormalizePlan(k)
      frees == n.blocked /\ n.status = "blocked" /\ Unresolved(disk, n.deps) = {}
      r == IF frees THEN [n EXCEPT !.blocked = FALSE, !.status = "in_progress"]
           ELSE n
      s == IF r.life # "" THEN r.life
           ELSE IF Matching(r) # {} THEN Derived(r) ELSE ByStatus(r)
  IN  IF k.life = "none" THEN k
      ELSE Settle([r EXCEPT !.life = s])

Restart ==
  /\ "Restart" \in Verbs
  /\ tasks' = [t \in Tasks |-> Loaded(disk[t])]
  /\ call' = IdleCall /\ packet' = IdlePacket
  /\ lost' = IF call.pc = "cascade" THEN lost \union {call.t} ELSE lost
  /\ UNCHANGED disk

Next ==
  \/ \E t \in Tasks, by \in Actors, owner \in {NoOne, Bot}, check \in Checks,
        structured \in Structured : Create(t, by, owner, check, structured)
  \/ \E t \in Tasks, owner \in {NoOne, Bot} :
       \/ CreateAgain(t, owner)
       \/ \E deps \in Replans[t] : PlanAgain(t, owner, deps)
  \/ \E t \in Tasks, park \in BOOLEAN, owner \in {NoOne, Bot},
        structured \in Structured : Plan(t, park, owner, structured)
  \/ \E t \in Tasks, verb \in UngatedVerbs, by \in Actors : Mutate(t, verb, by)
  \/ \E t \in Tasks, verb \in {"complete", "approve"}, by \in Actors :
       Gate(t, verb, by, "mutate")
  \/ \E t \in Tasks, by \in {Human, Bot} \intersect Actors :
       "decide" \in Verbs /\ Gate(t, "approve", by, "decide")
  \/ LandRefused \/ LandTurnedAway \/ LandStart \/ LandDone
  \/ DecideApprove \/ DecideRefused \/ OnDecisionRecorded
  \/ \E t \in Tasks, verb \in {"request_changes", "block", "defer"},
        by \in {Human, Bot} \intersect Actors : DecideOther(t, verb, by)
  \/ \E t \in Tasks, on \in {{}} \union {{u} : u \in Tasks} : BlockTask(t, on)
  \/ \E t \in Tasks : \/ ResumeTask(t) \/ Converge(t) \/ ApprovePlan(t)
                      \/ PostNote(t, "plain") \/ PostNote(t, "halt")
                      \/ BuildPacket(t)
  \/ ConsumeTaskHumanNote \/ RemoveOwner \/ Restart

Spec == Init /\ [][Next]_vars

-----------------------------------------------------------------------------
Statuses == {"", "open", "in_progress", "review", "blocked", "done",
             "canceled", "rejected", "archived"}
Stages == {"", "draft", "triage", "plan", "implement", "breakdown", "review",
           "approve", "ship", "approved", "archived"}
Reviews == {"", "not_required", "pending_review", "ready_for_review",
            "changes_requested", "approved", "rejected"}
Task ==
  [life : States \union {"none", ""}, stage : Stages, review : Reviews,
   status : Statuses, blocked : BOOLEAN, owner : {NoOne, Bot},
   deps : SUBSET Tasks, blockedOn : SUBSET Tasks, objection : BOOLEAN,
   note : {"none", "plain", "halt"}, check : BOOLEAN, wait : BOOLEAN,
   stop : BOOLEAN, structured : BOOLEAN]

\* The fields a task can have, and the calls that can be under way.
TypeOK ==
  /\ tasks \in [Tasks -> Task]
  /\ disk \in [Tasks -> Task]
  /\ call.pc \in {"idle", "mutate", "decide", "cascade"}
  /\ call.t \in Tasks \union {NoOne}
  /\ packet.t \in Tasks \union {NoOne}
  /\ lost \subseteq Tasks

\* The human's no is sovereign: from the moment a human asks for changes, no
\* step of anyone else retires the objection or gets the task to done, by any
\* verb or decision, also one that passed its first gate before the objection
\* was made.  A crash may lose an objection that was never saved.
HumanNoStands ==
  [][\A t \in Tasks : tasks[t].objection =>
       \/ tasks'[t].objection /\ tasks'[t].status # "done"
       \/ call.t = t /\ call.by = Human
       \/ Restart]_vars

\* The two encodings never disagree on whether a task is over: whatever verbs
\* rewrote the tuple, its status is terminal exactly when the typed state
\* that boards and inboxes group by is approved or archived.
TerminalAgrees ==
  \A t \in Tasks : tasks[t].life \in States =>
    (IsTerminal(tasks[t]) <=> tasks[t].life \in {"approved", "archived"})

\* No dependent is left behind: a task that waits for its upstream tasks only
\* has one that is still open, or one whose cascade is about to run, unless
\* the broker crashed between that decision and its cascade.
NoOrphans ==
  \A d \in Tasks : tasks[d].wait =>
    \/ \E u \in tasks[d].deps : ~IsTerminal(tasks[u])
    \/ call.pc = "cascade" /\ call.t \in tasks[d].deps
    \/ lost \intersect tasks[d].deps # {}

\* A dependent starts after its upstream: what releases a waiting task, other
\* than a verb, a decision or a review of that task itself or the removal of
\* its owner, leaves it without an upstream task that is still open.  Cascades,
\* ResumeTask and restarts are such releases; so is a plan that names the task
\* again, of which the upstream tasks are the ones the new request names: it
\* frees the task of those it leaves out, whatever their state.
Overrides(d) ==
  \/ \E verb \in UngatedVerbs, by \in Actors : Mutate(d, verb, by)
  \/ d \in {call.t, call'.t}
  \/ ApprovePlan(d) \/ Converge(d) \/ RemoveOwner
UpstreamFirst ==
  [][\A d \in Tasks :
       tasks[d].wait /\ ~tasks'[d].blocked /\ ~Overrides(d) =>
         \A u \in tasks'[d].deps : IsTerminal(tasks'[u])]_vars

\* "submit_for_review and complete by any bot are blocked until a packet build
\* has consumed the note" (broker_types.go, HumanNotePending): a stop order
\* that no packet has carried is still pending.  It is not when it was posted
\* between the copy of the task a packet renders and the packet's clearing of
\* the note.
StopOrdersAreRead ==
  \A t \in Tasks : tasks[t].stop => tasks[t].note = "halt"

\* A task with a required check becomes done only by a call that ran it.  The
\* gate lets pre-execution tasks through because "the parked-task gate"
\* refuses them later (task_verification.go), and that gate refuses drafting
\* and planning only.
ChecksGateDone ==
  [][\A t \in Tasks :
       /\ tasks[t].check /\ tasks[t].status # "done"
       /\ tasks'[t].status = "done"
       => call.t = t /\ call.checked]_vars
================================================================================
