-------------------------- MODULE TaskLifecycleProofs --------------------------
(***************************************************************************)
(* Theorems about TaskLifecycle, for every set of tasks, every dependency  *)
(* relation among them and every set of verbs: the records are well typed  *)
(* and their two encodings agree, the human's objection stands, dependents *)
(* start after their upstream and none is left behind.  The first part     *)
(* says what each operator does to one record, StepFlows what a step does  *)
(* with the tasks; each property is then a few cases over the flows.       *)
(***************************************************************************)
EXTENDS TaskLifecycle, TLAPS

-----------------------------------------------------------------------------
(* The table and the operators on one record *)

\* The typed states, spelt out.
LEMMA StateNames ==
  States = {"drafting", "planning", "ready", "running", "review", "decision",
            "blocked", "queued", "changes", "approved", "rejected", "archived"}
BY DEF States, Row

\* The tuple of a row of lifecycleDerivedFields, field by field.
RowIs(s, stage, review, status, blocked) ==
  /\ Row[s][1] = stage /\ Row[s][2] = review
  /\ Row[s][3] = status /\ Row[s][4] = blocked

\* The twelve rows.
LEMMA Rows ==
  /\ RowIs("drafting", "draft", "pending_review", "open", FALSE)
  /\ RowIs("planning", "plan", "pending_review", "in_progress", FALSE)
  /\ RowIs("ready", "triage", "pending_review", "open", FALSE)
  /\ RowIs("running", "implement", "pending_review", "in_progress", FALSE)
  /\ RowIs("review", "review", "ready_for_review", "in_progress", FALSE)
  /\ RowIs("decision", "review", "ready_for_review", "in_progress", FALSE)
  /\ RowIs("blocked", "review", "ready_for_review", "blocked", TRUE)
  /\ RowIs("queued", "triage", "pending_review", "open", TRUE)
  /\ RowIs("changes", "implement", "pending_review", "in_progress", FALSE)
  /\ RowIs("approved", "ship", "approved", "done", FALSE)
  /\ RowIs("rejected", "review", "rejected", "rejected", TRUE)
  /\ RowIs("archived", "archived", "approved", "archived", FALSE)
BY DEF RowIs, Row

\* What the proofs need of a row: its types, and that it is a terminal one,
\* never blocked, exactly for approved and archived.
RowOK(s) ==
  /\ Row[s][1] \in Stages /\ Row[s][2] \in Reviews
  /\ Row[s][3] \in Statuses /\ Row[s][4] \in BOOLEAN
  /\ Row[s][3] \in {"done", "canceled", "archived"} <=>
       s \in {"approved", "archived"}
  /\ Row[s][3] \in {"done", "canceled", "archived"} => ~Row[s][4]
  /\ Row[s][3] = "done" => s = "approved"
  /\ Row[s][3] = "blocked" => s = "blocked"

\* Every row of lifecycleDerivedFields is such a row.
LEMMA RowFacts ==
  ASSUME NEW s \in States
  PROVE  RowOK(s)
<1> USE Rows DEF RowIs, RowOK, Stages, Reviews, Statuses
<1>1. RowOK("drafting")
  OBVIOUS
<1>2. RowOK("planning")
  OBVIOUS
<1>3. RowOK("ready")
  OBVIOUS
<1>4. RowOK("running")
  OBVIOUS
<1>5. RowOK("review")
  OBVIOUS
<1>6. RowOK("decision")
  OBVIOUS
<1>7. RowOK("blocked")
  OBVIOUS
<1>8. RowOK("queued")
  OBVIOUS
<1>9. RowOK("changes")
  OBVIOUS
<1>10. RowOK("approved")
  OBVIOUS
<1>11. RowOK("rejected")
  OBVIOUS
<1>12. RowOK("archived")
  OBVIOUS
<1> HIDE Rows DEF RowIs, RowOK
<1> QED BY StateNames, <1>1, <1>2, <1>3, <1>4, <1>5, <1>6, <1>7, <1>8, <1>9, <1>10, <1>11, <1>12

\* applyLifecycleStateLocked writes the row and leaves the rest of the task.
LEMMA EnterTask ==
  ASSUME NEW k \in Task, NEW s \in States
  PROVE  /\ Enter(k, s) \in Task
         /\ Enter(k, s).life = s
         /\ Enter(k, s).status = Row[s][3]
         /\ Enter(k, s).blocked = Row[s][4]
         /\ Enter(k, s).objection = k.objection
         /\ Enter(k, s).deps = k.deps
         /\ Enter(k, s).blockedOn = k.blockedOn
         /\ Enter(k, s).wait = k.wait
<1> USE RowFacts DEF RowOK
<1>1. Enter(k, s) \in Task
  BY DEF Enter, Task
<1> QED BY DEF Enter, Task

\* The fields normalising and re-deriving leave alone.
Rest(k, l) ==
  /\ l.status = k.status /\ l.blocked = k.blocked /\ l.objection = k.objection
  /\ l.deps = k.deps /\ l.blockedOn = k.blockedOn
\* l differs from k at most in fields no invariant speaks of.
Same(k, l) == l \in Task /\ Rest(k, l) /\ l.life = k.life /\ l.wait = k.wait

\* normalizeTaskPlan changes only the stage and the review state.
LEMMA NormalizeSame ==
  ASSUME NEW k \in Task
  PROVE  Same(k, NormalizePlan(k))
<1> DEFINE unset == IF k.structured THEN "pending_review" ELSE "not_required"
           review == IF k.review = "" THEN unset ELSE k.review
           newReview == CASE k.status = "review" -> "ready_for_review"
                     [] k.status = "done" /\ review \in
                          {"pending_review", "ready_for_review"} -> "approved"
                     [] OTHER -> review
           newStage == CASE k.status = "in_progress" -> Template(k).active
                    [] k.status = "review" -> Template(k).review
                    [] k.status = "done" -> Template(k).done
                    [] OTHER -> Template(k).open
<1>1. newReview \in Reviews
  BY DEF Task, Reviews
<1>2. newStage \in Stages
  BY DEF Task, Stages, Template
<1>3. NormalizePlan(k) = [k EXCEPT !.review = newReview, !.stage = newStage]
  BY DEF NormalizePlan
<1> HIDE DEF newReview, newStage
<1> QED BY <1>1, <1>2, <1>3 DEF Same, Rest, Task

\* reconcileTaskReviewState changes only the review state.
LEMMA ReconcileSame ==
  ASSUME NEW k \in Task, NEW verb
  PROVE  Same(k, Reconcile(k, verb))
<1> DEFINE r ==
      IF ~k.structured
      THEN IF verb = "create" /\ k.review = "" THEN "" ELSE "not_required"
      ELSE CASE k.status = "review" -> "ready_for_review"
             [] k.status = "done" ->
                  IF verb \in {"approve", "complete"} \/ k.review = "approved"
                  THEN "approved" ELSE "ready_for_review"
             [] OTHER -> IF k.review \in {"pending_review",
                                         "ready_for_review", "approved"}
                         THEN k.review ELSE "pending_review"
<1>1. r \in Reviews
  BY DEF Task, Reviews
<1>2. Reconcile(k, verb) \in {k, [k EXCEPT !.review = r]}
  BY DEF Reconcile, Task
<1> HIDE DEF r
<1> QED BY <1>1, <1>2 DEF Same, Rest, Task

\* The derived state is approved or archived exactly when the status is
\* terminal, whether a row matches or the fallback decides, provided a terminal
\* task is not blocked: the fallback looks at blocked first.
LEMMA DerivedFits ==
  ASSUME NEW k \in Task, IsTerminal(k) => ~k.blocked
  PROVE  /\ Derived(k) \in States
         /\ Derived(k) \in {"approved", "archived"} <=> IsTerminal(k)
<1>1. CASE Matching(k) # {}
  <2>1. Derived(k) \in Matching(k)
    BY <1>1 DEF Derived
  <2>2. Derived(k) \in States
    BY <2>1, StateNames DEF Matching, Derivable
  <2>3. \/ Row[Derived(k)] = Tuple(k)
        \/ Derived(k) = "changes" /\ k.status = "in_progress"
    BY <2>1 DEF Matching, Tuple
  <2>4. \/ Row[Derived(k)][3] = k.status
        \/ Derived(k) = "changes" /\ k.status = "in_progress"
    BY <2>3 DEF Tuple
  <2> QED BY <2>2, <2>4, RowFacts DEF RowOK, IsTerminal
<1>2. CASE Matching(k) = {}
  <2>1. Derived(k) \in {"blocked", "approved", "review", "running", "ready"}
    BY <1>2 DEF Derived
  <2>2. Derived(k) = "approved" <=> IsTerminal(k)
    BY <1>2 DEF Derived, IsTerminal
  <2> QED BY <2>1, <2>2, StateNames
<1> QED BY <1>1, <1>2

\* Re-deriving the typed state makes the two encodings agree.
LEMMA ReindexFits ==
  ASSUME NEW k \in Task, IsTerminal(k) => ~k.blocked
  PROVE  /\ Reindex(k) \in Task /\ Rest(k, Reindex(k))
         /\ Reindex(k).wait = k.wait
         /\ Reindex(k).life \in States
         /\ Reindex(k).life \in {"approved", "archived"} <=> IsTerminal(k)
<1> DEFINE keeps == /\ k.life = "planning" /\ ~k.blocked
                    /\ k.status \in {"open", "in_progress"}
           s == IF keeps THEN "planning" ELSE Derived(k)
<1>1. s \in States /\ (s \in {"approved", "archived"} <=> IsTerminal(k))
  BY DerivedFits, StateNames DEF IsTerminal
<1>2. Reindex(k) = [k EXCEPT !.life = s]
  BY DEF Reindex
<1> HIDE DEF s
<1> QED BY <1>1, <1>2 DEF Task, Rest

\* Settle changes the history of the wait only.
LEMMA SettleFits ==
  ASSUME NEW k \in Task
  PROVE  /\ Settle(k) \in Task /\ Rest(k, Settle(k))
         /\ Settle(k).life = k.life
         /\ Settle(k).wait = Waits(k)
<1>1. Waits(k) \in BOOLEAN
  BY DEF Waits, Task
<1> QED BY <1>1 DEF Settle, Task, Rest

\* A task that is over is not blocked.
Ends(k) == IsTerminal(k) => ~k.blocked
\* A task with a standing objection is not done.
Stands(k) == k.objection => k.status # "done"
\* What holds of one task record: the two encodings agree on whether it is
\* over, and an absent task has neither objection nor wait.
Sound(k) ==
  /\ k \in Task
  /\ k.life \in States =>
       (IsTerminal(k) <=> k.life \in {"approved", "archived"})
  /\ Ends(k) /\ Stands(k)
  /\ k.life = "none" => ~k.objection /\ ~k.wait
\* A task that waits does so for its dependencies only.
Plain(k) == k.wait => k.blockedOn = {}
\* The invariant of task t's record.
Fit(t, k) ==
  /\ Sound(k) /\ Plain(k)
  /\ k.wait => k.blocked /\ k.status \notin {"blocked", "rejected"}

\* The common tail of MutateTask restores the invariant of the record.
LEMMA FinishFits ==
  ASSUME NEW t \in Tasks, NEW k \in Task, NEW verb,
         Ends(k), Stands(k), Plain(k)
  PROVE  /\ Fit(t, Finish(k, verb)) /\ Rest(k, Finish(k, verb))
         /\ Finish(k, verb).wait => k.wait
<1> DEFINE a == Reconcile(k, verb)
           b == Reindex(a)
           c == NormalizePlan(b)
           d == Settle(c)
<1>1. Same(k, a)
  BY ReconcileSame
<1> HIDE DEF a
<1>2. Ends(a) /\ a \in Task
  BY <1>1 DEF Same, Rest, Ends, IsTerminal
<1>3. /\ b \in Task /\ Rest(a, b) /\ b.wait = a.wait /\ b.life \in States
      /\ b.life \in {"approved", "archived"} <=> IsTerminal(a)
  BY <1>2, ReindexFits DEF Ends
<1> HIDE DEF b
<1>4. Same(b, c)
  BY <1>3, NormalizeSame
<1> HIDE DEF c
<1>5. /\ d \in Task /\ Rest(c, d) /\ d.life = c.life /\ d.wait = Waits(c)
  BY <1>4, SettleFits DEF Same
<1>6. Finish(k, verb) = d
  BY DEF Finish, a, b, c, d
<1> HIDE DEF d
<1>7. Rest(k, d) /\ (d.wait => Waits(c) /\ k.wait)
  <2>1. Rest(k, d)
    BY <1>1, <1>3, <1>4, <1>5 DEF Same, Rest
  <2>2. c.wait = k.wait
    BY <1>1, <1>3, <1>4 DEF Same
  <2>3. d.wait => Waits(c) /\ k.wait
    BY <1>5, <2>2 DEF Waits
  <2> QED BY <2>1, <2>3
<1>8. /\ d.life \in States
      /\ d.life \in {"approved", "archived"} <=> IsTerminal(d)
  BY <1>1, <1>3, <1>4, <1>5 DEF Same, Rest, IsTerminal
<1>9. Sound(d)
  BY <1>5, <1>7, <1>8, StateNames DEF Sound, Ends, Stands, IsTerminal, Rest
<1>10. Fit(t, d)
  BY <1>4, <1>5, <1>7, <1>9 DEF Fit, Plain, Rest, Waits
<1> QED BY <1>6, <1>7, <1>10

\* So does entering a typed state, unless it approves an objected task,
LEMMA EnterFits ==
  ASSUME NEW t \in Tasks, NEW k \in Task, NEW s \in States,
         k.objection => s # "approved", Plain(k)
  PROVE  /\ Fit(t, Settle(Enter(k, s)))
         /\ Settle(Enter(k, s)).status = Row[s][3]
         /\ Settle(Enter(k, s)).blocked = Row[s][4]
         /\ Settle(Enter(k, s)).objection = k.objection
         /\ Settle(Enter(k, s)).deps = k.deps
         /\ Settle(Enter(k, s)).wait => k.wait
<1> DEFINE a == Enter(k, s)
           d == Settle(a)
<1>1. /\ a \in Task /\ a.life = s /\ a.status = Row[s][3]
      /\ a.blocked = Row[s][4] /\ a.objection = k.objection
      /\ a.deps = k.deps /\ a.blockedOn = k.blockedOn /\ a.wait = k.wait
  BY EnterTask
<1> HIDE DEF a
<1>2. d \in Task /\ Rest(a, d) /\ d.life = a.life /\ d.wait = Waits(a)
  BY <1>1, SettleFits
<1> HIDE DEF d
<1>3. RowOK(s)
  BY RowFacts
<1>4. Sound(d)
  BY <1>1, <1>2, <1>3, StateNames
  DEF Sound, Ends, Stands, IsTerminal, Rest, RowOK
<1>5. Fit(t, d)
  BY <1>1, <1>2, <1>4 DEF Fit, Plain, Rest, Waits
<1>6. /\ d.status = Row[s][3] /\ d.blocked = Row[s][4]
      /\ d.objection = k.objection /\ d.deps = k.deps /\ (d.wait => k.wait)
  BY <1>1, <1>2 DEF Rest, Waits
<1> QED BY <1>5, <1>6 DEF d, a

\* also when the plan is normalised after it.
LEMMA StartFits ==
  ASSUME NEW t \in Tasks, NEW k \in Task, NEW s \in States,
         k.objection => s # "approved", Plain(k)
  PROVE  /\ Fit(t, Settle(NormalizePlan(Enter(k, s))))
         /\ Settle(NormalizePlan(Enter(k, s))).status = Row[s][3]
         /\ Settle(NormalizePlan(Enter(k, s))).blocked = Row[s][4]
         /\ Settle(NormalizePlan(Enter(k, s))).objection = k.objection
         /\ Settle(NormalizePlan(Enter(k, s))).deps = k.deps
         /\ Settle(NormalizePlan(Enter(k, s))).wait => k.wait
<1> DEFINE a == Enter(k, s)
           b == NormalizePlan(a)
           d == Settle(b)
<1>1. /\ a \in Task /\ a.life = s /\ a.status = Row[s][3]
      /\ a.blocked = Row[s][4] /\ a.objection = k.objection
      /\ a.deps = k.deps /\ a.blockedOn = k.blockedOn /\ a.wait = k.wait
  BY EnterTask
<1> HIDE DEF a
<1>2. Same(a, b)
  BY <1>1, NormalizeSame
<1> HIDE DEF b
<1>3. d \in Task /\ Rest(b, d) /\ d.life = b.life /\ d.wait = Waits(b)
  BY <1>2, SettleFits DEF Same
<1> HIDE DEF d
<1>4. /\ d.life = s /\ d.status = Row[s][3] /\ d.blocked = Row[s][4]
      /\ d.objection = k.objection /\ d.deps = k.deps
      /\ d.blockedOn = k.blockedOn
      /\ d.wait => /\ k.wait /\ d.blocked
                   /\ d.status \notin {"blocked", "rejected"}
  BY <1>1, <1>2, <1>3 DEF Same, Rest, Waits
<1>5. RowOK(s)
  BY RowFacts
<1>6. Sound(d)
  BY <1>3, <1>4, <1>5, StateNames
  DEF Sound, Ends, Stands, IsTerminal, RowOK
<1>7. Fit(t, d)
  BY <1>4, <1>6 DEF Fit, Plain
<1> QED BY <1>4, <1>7 DEF d, b, a

\* What a verb leaves of the record k before the common tail.
Edit(k, l) ==
  /\ l \in Task /\ Ends(l) /\ Stands(l)
  /\ l.deps = k.deps /\ l.blockedOn = k.blockedOn /\ l.wait = k.wait
  /\ k.objection => l.objection

\* Every verb of MutateTask: none retires an objection, and none leaves a
\* terminal task blocked.
LEMMA ApplyEdits ==
  ASSUME NEW t \in Tasks, NEW k, Fit(t, k), NEW verb \in UngatedVerbs, NEW by
  PROVE  Edit(k, Apply(k, verb, by))
<1> DEFINE l == Apply(k, verb, by)
<1> SUFFICES Edit(k, l)
  OBVIOUS
<1> HIDE DEF l
<1> USE DEF Edit, Ends, Stands, IsTerminal
<1>0. k \in Task /\ Ends(k) /\ Stands(k)
  BY DEF Fit, Sound
<1>1. CASE verb = "claim"
  <2> DEFINE r == IF k.structured THEN "pending_review" ELSE "not_required"
  <2>1. r \in Reviews
    BY DEF Reviews
  <2>2. l = [k EXCEPT !.owner = Bot, !.status = "in_progress", !.review = r]
    BY <1>1 DEF l, Apply
  <2> HIDE DEF r
  <2>3. l \in Task /\ l.status = "in_progress"
    BY <1>0, <2>1, <2>2 DEF Task, Statuses
  <2> QED BY <1>0, <2>2, <2>3 DEF Task
<1>2. CASE verb = "reassign"
  <2> DEFINE s == IF k.status \in {"done", "review"} THEN k.status
                  ELSE "in_progress"
  <2>1. s \in Statuses
    BY DEF Statuses
  <2>2. l = [k EXCEPT !.owner = Bot, !.status = s]
    BY <1>0, <1>2 DEF l, Apply, Task
  <2>3. s # "done" \/ s = k.status
    OBVIOUS
  <2>4. s \notin {"canceled", "archived"}
    OBVIOUS
  <2> HIDE DEF s
  <2>5. l \in Task /\ l.status = s
    BY <1>0, <2>1, <2>2 DEF Task
  <2> QED BY <1>0, <2>2, <2>3, <2>4, <2>5 DEF Task
<1>3. CASE verb \in {"review", "submit_for_review"}
  <2>1. l = [k EXCEPT !.status = "review", !.review = "ready_for_review"]
    BY <1>3 DEF l, Apply, UnderReview
  <2> QED BY <1>0, <2>1 DEF Task, Statuses, Reviews
<1>4. CASE verb = "block"
  <2>1. l = [k EXCEPT !.status = "blocked", !.blocked = TRUE]
    BY <1>4 DEF l, Apply
  <2> QED BY <1>0, <2>1 DEF Task, Statuses
<1>5. CASE verb = "resume"
  <2> DEFINE s == IF k.status # "blocked" THEN k.status
                  ELSE IF k.owner # NoOne THEN "in_progress" ELSE "open"
  <2>1. s \in Statuses /\ (s = "done" => k.status = "done")
    BY <1>0 DEF Statuses, Task
  <2>2. l = [k EXCEPT !.blocked = FALSE, !.status = s]
    BY <1>0, <1>5 DEF l, Apply, Unblocked, Task
  <2> HIDE DEF s
  <2> QED BY <1>0, <2>1, <2>2 DEF Task
<1>6. CASE verb = "reopen"
  <2>1. PICK s \in {"running", "ready"} : l = Enter(k, s)
    BY <1>6 DEF l, Apply
  <2>2. s \in States /\ Row[s][3] \in {"open", "in_progress"}
    BY StateNames, Rows DEF RowIs
  <2> QED BY <1>0, <2>1, <2>2, EnterTask
<1>7. CASE verb = "release"
  <2>1. l = [k EXCEPT !.owner = NoOne, !.status = "open", !.blocked = FALSE]
    BY <1>7 DEF l, Apply
  <2> QED BY <1>0, <2>1 DEF Task, Statuses
<1>8. CASE verb = "cancel"
  <2>1. l = [k EXCEPT !.status = "canceled", !.blocked = FALSE]
    BY <1>8 DEF l, Apply
  <2> QED BY <1>0, <2>1 DEF Task, Statuses
<1>9. CASE verb = "request_changes"
  <2> DEFINE o == k.objection \/ by = Human
  <2>1. l = [k EXCEPT !.status = "in_progress", !.review = "changes_requested",
                      !.blocked = FALSE, !.objection = o]
    BY <1>0, <1>9 DEF l, Apply, Task
  <2>2. o \in BOOLEAN /\ (k.objection => o)
    BY <1>0 DEF Task
  <2> HIDE DEF o
  <2>3. l \in Task
    BY <1>0, <2>1, <2>2 DEF Task, Statuses, Reviews
  <2>4. l.status = "in_progress" /\ l.objection = o
    BY <1>0, <2>1, <2>2 DEF Task
  <2>5. l.deps = k.deps /\ l.blockedOn = k.blockedOn /\ l.wait = k.wait
    BY <1>0, <2>1, <2>2 DEF Task
  <2> QED BY <2>2, <2>3, <2>4, <2>5
<1>10. CASE verb = "reject"
  <2>1. l = Enter(k, "rejected")
    BY <1>10 DEF l, Apply
  <2> QED BY <1>0, <2>1, EnterTask, StateNames, Rows DEF RowIs
<1>11. CASE verb = "archive"
  <2>1. l = Enter(k, "archived")
    BY <1>11 DEF l, Apply
  <2> QED BY <1>0, <2>1, EnterTask, StateNames, Rows DEF RowIs
<1>12. CASE verb = "define"
  <2> DEFINE c == k.check \/ TRUE \in Checks
  <2>1. l = [k EXCEPT !.check = c]
    BY <1>0, <1>12 DEF l, Apply, Task
  <2>2. c \in BOOLEAN
    BY <1>0 DEF Task
  <2> HIDE DEF c
  <2> QED BY <1>0, <2>1, <2>2 DEF Task
<1>13. CASE verb = "comment"
  <2>1. l = k
    BY <1>13 DEF l, Apply
  <2> QED BY <1>0, <2>1
<1> HIDE DEF Edit
<1> QED BY <1>1, <1>2, <1>3, <1>4, <1>5, <1>6, <1>7, <1>8, <1>9, <1>10, <1>11,
           <1>12, <1>13 DEF UngatedVerbs, OwnerVerbs

\* The invariant of every record of a task list.
All(ts) == ts \in [Tasks -> Task] /\ \A t \in Tasks : Fit(t, ts[t])

\* What unblockDependentsLocked for t makes of d's record: it frees d only when
\* no upstream is open, ends no task, and leaves d waiting after a terminal t
\* only for another upstream.
Freed(ts, t, d, l) ==
  LET k == ts[d] IN
  /\ Fit(d, l)
  /\ IsTerminal(l) <=> IsTerminal(k)
  /\ l.objection = k.objection /\ l.deps = k.deps /\ (l.wait => k.wait)
  /\ l.wait /\ t \in l.deps /\ IsTerminal(ts[t]) => Unresolved(ts, l.deps) # {}
  /\ k.wait /\ ~l.blocked => Unresolved(ts, k.deps) = {}

\* unblockDependentsLocked does that to every task.
LEMMA ReleasedFrees ==
  ASSUME NEW ts, All(ts), NEW t \in Tasks
  PROVE  /\ Released(ts, t) \in [Tasks -> Task]
         /\ \A d \in Tasks : Freed(ts, t, d, Released(ts, t)[d])
<1>1. CASE ~IsTerminal(ts[t])
  <2>1. Released(ts, t) = ts
    BY <1>1 DEF Released
  <2> QED BY <1>1, <2>1 DEF All, Freed, Fit
<1>2. CASE IsTerminal(ts[t])
  <2> DEFINE on(d) == ts[d].blockedOn \ {t}
             held(d) == ts[d].blocked \/ ts[d].life = "blocked"
             s(d) == IF ts[d].life = "blocked" THEN "review"
                     ELSE IF ts[d].owner # NoOne THEN "running" ELSE "ready"
             m(d) == [ts[d] EXCEPT !.blockedOn = on(d)]
             l(d) == IF ~held(d) \/ t \notin ts[d].deps \union ts[d].blockedOn
                     THEN ts[d]
                     ELSE IF Unresolved(ts, ts[d].deps) # {} \/ on(d) # {}
                     THEN m(d)
                     ELSE Settle(NormalizePlan(Enter(m(d), s(d))))
  <2>1. Released(ts, t) = [d \in Tasks |-> l(d)]
    BY <1>2 DEF Released
  <2>2. ASSUME NEW d \in Tasks
        PROVE  Freed(ts, t, d, l(d))
    <3>1. Fit(d, ts[d]) /\ ts[d] \in Task
      BY DEF All
    <3>2. /\ m(d) \in Task /\ m(d).life = ts[d].life
          /\ m(d).status = ts[d].status /\ m(d).blocked = ts[d].blocked
          /\ m(d).objection = ts[d].objection /\ m(d).deps = ts[d].deps
          /\ m(d).wait = ts[d].wait /\ m(d).blockedOn = on(d)
      BY <3>1 DEF Task
    <3>3. s(d) \in {"review", "running", "ready"}
      OBVIOUS
    <3> HIDE DEF m, s
    <3>4. Plain(m(d))
      BY <3>1, <3>2 DEF Plain, Fit
    <3>5. CASE ~held(d) \/ t \notin ts[d].deps \union ts[d].blockedOn
      <4>1. l(d) = ts[d]
        BY <3>5
      <4>2. ts[d].wait => ts[d].blocked
        BY <3>1 DEF Fit
      <4>3. ts[d].wait => t \notin ts[d].deps
        BY <3>5, <4>2
      <4> HIDE DEF l, held
      <4> QED BY <3>1, <4>1, <4>2, <4>3 DEF Freed
    <3>6. CASE /\ held(d) /\ t \in ts[d].deps \union ts[d].blockedOn
               /\ Unresolved(ts, ts[d].deps) # {} \/ on(d) # {}
      <4>1. l(d) = m(d)
        BY <3>6
      <4>2. ts[d].wait => on(d) = {} /\ ts[d].blocked
        BY <3>1 DEF Fit, Plain
      <4>3. ts[d].wait => Unresolved(ts, ts[d].deps) # {}
        BY <3>6, <4>2
      <4> HIDE DEF l, held, on
      <4>4. Sound(m(d))
        BY <3>1, <3>2 DEF Fit, Sound, Ends, Stands, IsTerminal
      <4>5. Fit(d, m(d))
        BY <3>1, <3>2, <3>4, <4>4 DEF Fit
      <4>6. IsTerminal(m(d)) <=> IsTerminal(ts[d])
        BY <3>2 DEF IsTerminal
      <4> QED BY <3>2, <4>1, <4>2, <4>3, <4>5, <4>6 DEF Freed
    <3>7. CASE /\ held(d) /\ t \in ts[d].deps \union ts[d].blockedOn
               /\ Unresolved(ts, ts[d].deps) = {} /\ on(d) = {}
      <4>1. l(d) = Settle(NormalizePlan(Enter(m(d), s(d))))
        BY <3>7
      <4>2. s(d) \in States /\ s(d) # "approved"
        BY <3>3, StateNames
      <4>3. Row[s(d)][3] \in {"open", "in_progress"} /\ ~Row[s(d)][4]
        BY <3>3, Rows DEF RowIs
      <4>4. ~IsTerminal(ts[d])
        BY <3>1, <3>7, StateNames DEF Fit, Sound, Ends
      <4> HIDE DEF l
      <4>5. /\ Fit(d, l(d)) /\ l(d).status = Row[s(d)][3]
            /\ l(d).blocked = Row[s(d)][4]
            /\ l(d).objection = m(d).objection /\ l(d).deps = m(d).deps
            /\ l(d).wait => m(d).wait
        BY <3>2, <3>4, <4>1, <4>2, StartFits
      <4>6. ~IsTerminal(l(d)) /\ ~l(d).wait
        BY <4>3, <4>5 DEF Fit, IsTerminal
      <4> QED BY <3>2, <3>7, <4>4, <4>5, <4>6 DEF Freed
    <3> QED BY <3>5, <3>6, <3>7
  <2>3. \A d \in Tasks : Released(ts, t)[d] = l(d)
    BY <2>1
  <2> HIDE DEF l
  <2>4. \A d \in Tasks : l(d) \in Task
    BY <2>2 DEF Freed, Fit, Sound
  <2> QED BY <2>1, <2>2, <2>3, <2>4
<1> QED BY <1>1, <1>2

\* Loading a record keeps its invariant, its wait and whether it is over.
LEMMA LoadedFits ==
  ASSUME NEW t \in Tasks, NEW k, Fit(t, k)
  PROVE  /\ Fit(t, Loaded(k))
         /\ IsTerminal(Loaded(k)) <=> IsTerminal(k)
         /\ Loaded(k).deps = k.deps /\ Loaded(k).wait = k.wait
         /\ k.wait => Loaded(k).blocked
<1> DEFINE n == NormalizePlan(k)
           frees == /\ n.blocked /\ n.status = "blocked"
                    /\ Unresolved(disk, n.deps) = {}
           r == IF frees
                THEN [n EXCEPT !.blocked = FALSE, !.status = "in_progress"]
                ELSE n
           s == IF r.life # "" THEN r.life
                ELSE IF Matching(r) # {} THEN Derived(r) ELSE ByStatus(r)
           m == [r EXCEPT !.life = s]
           l == Settle(m)
<1>0. k \in Task /\ Sound(k)
  BY DEF Fit, Sound
<1>1. CASE k.life = "none"
  <2>1. Loaded(k) = k
    BY <1>1 DEF Loaded
  <2> QED BY <2>1 DEF Fit
<1>2. CASE k.life # "none"
  <2>1. Loaded(k) = l
    BY <1>2 DEF Loaded
  <2>2. Same(k, n)
    BY <1>0, NormalizeSame
  <2> HIDE DEF n
  <2>3. /\ r \in Task /\ r.life = k.life /\ r.objection = k.objection
        /\ r.deps = k.deps /\ r.blockedOn = k.blockedOn /\ r.wait = k.wait
        /\ \/ r.status = k.status /\ r.blocked = k.blocked
           \/ /\ k.status = "blocked" /\ r.status = "in_progress"
              /\ r.blocked = FALSE
    <3>1. CASE frees
      <4>1. r = [n EXCEPT !.blocked = FALSE, !.status = "in_progress"]
        BY <3>1
      <4>2. k.status = "blocked" /\ n \in Task
        BY <3>1, <2>2 DEF Same, Rest
      <4> HIDE DEF r
      <4>3. r \in Task
        BY <4>1, <4>2 DEF Task, Statuses
      <4> QED BY <2>2, <4>1, <4>2, <4>3 DEF Same, Rest, Task
    <3>2. CASE ~frees
      BY <2>2, <3>2 DEF Same, Rest
    <3> QED BY <3>1, <3>2
  <2> HIDE DEF r
  <2>4. /\ Ends(r) /\ Stands(r) /\ (IsTerminal(r) <=> IsTerminal(k))
    BY <1>0, <2>3 DEF Sound, Ends, Stands, IsTerminal
  <2>5. s \in States \union {""} /\ s # "none"
    <3>1. r.life \in States \union {"", "none"}
      BY <2>3 DEF Task
    <3>2. Derived(r) \in States
      BY <2>3, <2>4, DerivedFits DEF Ends
    <3>3. ByStatus(r) \in States
      BY <3>2, StateNames DEF ByStatus
    <3> QED BY <1>2, <2>3, <3>1, <3>2, <3>3, StateNames
  <2>6. s \in States => (IsTerminal(r) <=> s \in {"approved", "archived"})
    <3>1. CASE r.life # ""
      BY <3>1, <2>3, <2>4, <1>0 DEF Sound
    <3>2. CASE r.life = ""
      <4>1. Derived(r) \in {"approved", "archived"} <=> IsTerminal(r)
        BY <2>3, <2>4, DerivedFits DEF Ends
      <4>2. ByStatus(r) \in {"approved", "archived"} <=> IsTerminal(r)
        BY <4>1 DEF ByStatus, IsTerminal
      <4> QED BY <3>2, <4>1, <4>2
    <3> QED BY <3>1, <3>2
  <2> HIDE DEF s
  <2>7. /\ m \in Task /\ Rest(r, m) /\ m.life = s /\ m.wait = r.wait
    BY <2>3, <2>5 DEF Task, Rest
  <2> HIDE DEF m
  <2>8. l \in Task /\ Rest(m, l) /\ l.life = m.life /\ l.wait = Waits(m)
    BY <2>7, SettleFits
  <2> HIDE DEF l
  <2>9. Sound(l) /\ (IsTerminal(l) <=> IsTerminal(k))
    BY <2>4, <2>5, <2>6, <2>7, <2>8 DEF Sound, Ends, Stands, IsTerminal, Rest
  <2>10. k.wait => l.wait /\ l.blocked
    BY <2>3, <2>7, <2>8 DEF Fit, Waits, Rest
  <2>11. l.wait => /\ k.wait /\ l.blocked
                   /\ l.status \notin {"blocked", "rejected"}
    BY <2>3, <2>7, <2>8 DEF Waits, Rest
  <2>12. l.wait = k.wait
    BY <2>10, <2>11, <2>8, <1>0 DEF Task
  <2>13. l.deps = k.deps /\ l.blockedOn = k.blockedOn
    BY <2>3, <2>7, <2>8 DEF Rest
  <2>14. Fit(t, l)
    BY <2>9, <2>11, <2>13 DEF Fit, Plain
  <2> QED BY <2>1, <2>9, <2>10, <2>12, <2>13, <2>14
<1> QED BY <1>1, <1>2

-----------------------------------------------------------------------------
(* What a step does with the tasks *)

\* The calls under way; only approve comes to a decision through the gate.
CallInv ==
  /\ call.pc \in {"idle", "mutate", "decide", "cascade"}
  /\ call.t \in Tasks \union {NoOne}
  /\ call.pc # "idle" => call.t \in Tasks
  /\ call.pc = "decide" => call.verb = "approve"
  /\ packet.t \in Tasks \union {NoOne}
  /\ lost \subseteq Tasks
\* The inductive invariant.  The file's records satisfy it too, for a restart
\* brings them back, and whoever waits in memory waits in the file.
TaskInv ==
  /\ All(tasks) /\ All(disk)
  /\ \A t \in Tasks : tasks[t].wait => disk[t].wait
  /\ CallInv

\* An objection to t stands in l, or the call under way is the human's on t.
Answered(t, l) ==
  tasks[t].objection => l.objection \/ (call.t = t /\ call.by = Human)
\* A wait in l is the wait t had.
Inherits(t, l) == l.wait => tasks[t].wait /\ l.deps = tasks[t].deps
\* A cascade that is still to run is still to run.
CallGoesOn == lost' = lost /\ (call.pc = "cascade" => call' = call)

\* A step that rewrites one record, saved or not.
EditFlow(t, l) ==
  /\ tasks' = [tasks EXCEPT ![t] = l]
  /\ disk' \in {disk, tasks'}
  /\ Fit(t, l) /\ Answered(t, l) /\ CallGoesOn
  /\ \/ ~IsTerminal(l) \/ IsTerminal(tasks[t])
     \/ call'.pc = "cascade" /\ call'.t = t
  /\ \/ Inherits(t, l)
     \/ disk' = tasks' /\ ~IsTerminal(l) /\ Unresolved(tasks, l.deps) # {}
  /\ tasks[t].wait /\ ~l.blocked =>
       Overrides(t) \/ Unresolved(tasks, l.deps) = {}

\* A step that rewrites one record and releases its dependents.
CascadeFlow(t, l) ==
  /\ tasks' = Released([tasks EXCEPT ![t] = l], t)
  /\ disk' = tasks'
  /\ Fit(t, l) /\ Answered(t, l) /\ Inherits(t, l) /\ Overrides(t)
  /\ lost' = lost
  /\ call.pc = "cascade" => call' = call \/ call.t = t

\* A step that leaves the tasks alone; the gate may save them.
QuietFlow == tasks' = tasks /\ disk' \in {disk, tasks} /\ CallGoesOn

\* What a step of the broker does with tasks.
Flow ==
  \/ \E t \in Tasks, l \in Task : EditFlow(t, l) \/ CascadeFlow(t, l)
  \/ QuietFlow \/ RemoveOwner \/ Restart

\* The record of the first two flows is a task.
LEMMA FlowIntro ==
  ASSUME NEW t \in Tasks, NEW l, EditFlow(t, l) \/ CascadeFlow(t, l)
  PROVE  Flow
<1>1. l \in Task
  BY DEF EditFlow, CascadeFlow, Fit, Sound
<1> QED BY <1>1 DEF Flow

\* The blank record a new task starts from is a task.
LEMMA BlankTask ==
  NoTask \in Task /\ NoTask.blockedOn = {} /\ ~NoTask.objection
<1>1. "none" \in States \union {"none", ""} /\ "" \in Stages \intersect Reviews
  BY DEF Stages, Reviews
<1>2. "" \in Statuses
  BY DEF Statuses
<1> QED BY <1>1, <1>2 DEF NoTask, Task

\* create writes a fitting record, waiting only for an open upstream.
LEMMA CreateFlow ==
  ASSUME TaskInv, NEW t \in Tasks, NEW by \in Actors,
         NEW owner \in {NoOne, Bot}, NEW check \in Checks,
         NEW structured \in Structured, Create(t, by, owner, check, structured)
  PROVE  Flow
<1> DEFINE waits == Unresolved(tasks, DependsOn[t]) # {}
           status == IF ~waits /\ owner # NoOne THEN "in_progress" ELSE "open"
           new == [NoTask EXCEPT
             !.life = "", !.owner = owner, !.deps = DependsOn[t],
             !.check = check, !.structured = structured,
             !.blocked = waits, !.wait = waits, !.status = status]
           a == Reconcile(new, "create")
           b == NormalizePlan(a)
           k == Reindex(b)
           landing == IF waits THEN "queued"
                      ELSE IF owner = NoOne THEN "ready"
                      ELSE IF by = System THEN "running" ELSE "planning"
           l == IF k.structured THEN k ELSE Enter(k, landing)
<1>1. /\ tasks' = [tasks EXCEPT ![t] = l] /\ disk' = tasks'
      /\ call' = call /\ lost' = lost /\ tasks[t].life = "none"
  BY DEF Create, Write, Save, Exists
<1>2. waits \in BOOLEAN /\ status \in {"in_progress", "open"}
  OBVIOUS
<1>3. landing \in States /\ landing \in {"queued", "ready", "running", "planning"}
  BY StateNames
<1>4. waits <=> landing = "queued"
  OBVIOUS
<1>5. waits => Unresolved(tasks, DependsOn[t]) # {}
  OBVIOUS
<1> HIDE DEF waits, status, landing
<1>6. /\ new \in Task /\ new.life = "" /\ new.deps = DependsOn[t]
      /\ new.blockedOn = {} /\ ~new.objection
      /\ new.blocked = waits /\ new.wait = waits /\ new.status = status
  <2>1. check \in BOOLEAN /\ structured \in BOOLEAN /\ DependsOn[t] \in SUBSET Tasks
    BY ChecksType, StructuredType, DependenciesAreTasks
  <2>2. status \in Statuses
    BY <1>2 DEF Statuses
  <2> DEFINE u == [NoTask EXCEPT !.life = "", !.owner = owner, !.deps = DependsOn[t]]
             v == [u EXCEPT !.check = check, !.structured = structured]
             n == [v EXCEPT !.blocked = waits, !.wait = waits, !.status = status]
  <2> HIDE DEF n, v, u, new
  <2>3. /\ u \in Task /\ u.life = "" /\ u.deps = DependsOn[t]
        /\ u.blockedOn = {} /\ ~u.objection
    BY <2>1, BlankTask DEF Task, u
  <2>4. /\ v \in Task /\ v.life = "" /\ v.deps = DependsOn[t]
        /\ v.blockedOn = {} /\ ~v.objection
    BY <2>1, <2>3 DEF Task, v
  <2>5. /\ n \in Task /\ n.life = "" /\ n.deps = DependsOn[t]
        /\ n.blockedOn = {} /\ ~n.objection
    BY <1>2, <2>2, <2>4 DEF Task, n
  <2>6. n.blocked = waits /\ n.wait = waits /\ n.status = status
    BY <2>4 DEF Task, n
  <2>7. new = n
    BY Zenon DEF u, v, n, new
  <2> QED BY <2>5, <2>6, <2>7
<1> HIDE DEF new
<1>7. Same(new, a)
  BY <1>6, ReconcileSame
<1> HIDE DEF a
<1>8. Same(a, b)
  BY <1>7, NormalizeSame DEF Same
<1> HIDE DEF b
<1>9. b \in Task /\ Rest(new, b) /\ b.wait = new.wait
  BY <1>7, <1>8 DEF Same, Rest
<1>10. ~IsTerminal(b)
  BY <1>2, <1>6, <1>9 DEF Rest, IsTerminal
<1>11. /\ k \in Task /\ Rest(b, k) /\ k.wait = b.wait /\ k.life \in States
       /\ k.life \in {"approved", "archived"} <=> IsTerminal(b)
  BY <1>9, <1>10, ReindexFits
<1> HIDE DEF k
<1>12. /\ k.status = status /\ k.blocked = waits /\ ~k.objection
       /\ k.deps = DependsOn[t] /\ k.blockedOn = {} /\ k.wait = waits
  BY <1>6, <1>9, <1>11 DEF Rest
<1>13. Row[landing][3] \in {"open", "in_progress"} /\ (waits => Row[landing][4])
  BY <1>3, <1>4, Rows DEF RowIs
<1>14. /\ l \in Task /\ l.life \in States \ {"approved", "archived"}
       /\ l.status \in {"open", "in_progress"} /\ (waits => l.blocked)
       /\ ~l.objection /\ l.deps = DependsOn[t] /\ l.blockedOn = {}
       /\ l.wait = waits
  <2>1. CASE k.structured
    <3>1. l = k
      BY <2>1
    <3> QED BY <3>1, <1>2, <1>10, <1>11, <1>12
  <2>2. CASE ~k.structured
    <3>1. l = Enter(k, landing)
      BY <2>2
    <3> HIDE DEF l
    <3> QED BY <3>1, <1>3, <1>11, <1>12, <1>13, EnterTask, StateNames
  <2> QED BY <2>1, <2>2
<1> HIDE DEF l
<1>15. Fit(t, l)
  BY <1>14, StateNames DEF Fit, Sound, Plain, Ends, Stands, IsTerminal
<1>16. ~tasks[t].objection /\ ~tasks[t].wait
  BY <1>1 DEF TaskInv, All, Fit, Sound
<1>17. EditFlow(t, l)
  BY <1>1, <1>5, <1>14, <1>15, <1>16, DependenciesAreTasks
  DEF EditFlow, Answered, Inherits, CallGoesOn, IsTerminal
<1> QED BY <1>17, FlowIntro

\* create on a task that exists keeps its block and its objection.
LEMMA CreateAgainFlow ==
  ASSUME TaskInv, NEW t \in Tasks, NEW owner \in {NoOne, Bot},
         CreateAgain(t, owner)
  PROVE  Flow
<1> DEFINE k == IF owner = NoOne THEN tasks[t]
                ELSE [tasks[t] EXCEPT !.owner = owner, !.status = "in_progress"]
           l == Finish(k, "create")
<1>1. /\ tasks' = [tasks EXCEPT ![t] = l] /\ disk' = tasks'
      /\ call' = call /\ lost' = lost /\ ~IsTerminal(tasks[t])
  BY DEF CreateAgain, Reusable, Write, Save
<1>2. Fit(t, tasks[t]) /\ tasks[t] \in Task
  BY DEF TaskInv, All
<1>3. /\ k \in Task /\ k.objection = tasks[t].objection
      /\ k.deps = tasks[t].deps /\ k.blockedOn = tasks[t].blockedOn
      /\ k.wait = tasks[t].wait /\ k.blocked = tasks[t].blocked
      /\ k.status \in {tasks[t].status, "in_progress"}
  <2>1. CASE owner = NoOne
    <3>1. k = tasks[t]
      BY <2>1
    <3> QED BY <1>2, <3>1
  <2>2. CASE owner # NoOne
    <3>1. k = [tasks[t] EXCEPT !.owner = owner, !.status = "in_progress"]
      BY <2>2
    <3> HIDE DEF k
    <3> QED BY <1>2, <3>1 DEF Task, Statuses
  <2> QED BY <2>1, <2>2
<1> HIDE DEF k
<1>4. Ends(k) /\ Stands(k) /\ Plain(k) /\ ~IsTerminal(k)
  BY <1>1, <1>2, <1>3 DEF Fit, Sound, Ends, Stands, Plain, IsTerminal
<1>5. Fit(t, l) /\ Rest(k, l) /\ (l.wait => k.wait)
  BY <1>3, <1>4, FinishFits
<1> HIDE DEF l
<1>6. tasks[t].wait => l.blocked
  BY <1>2, <1>3, <1>5 DEF Rest, Fit
<1>7. ~IsTerminal(l)
  BY <1>4, <1>5 DEF Rest, IsTerminal
<1>8. Inherits(t, l) /\ Answered(t, l)
  BY <1>3, <1>5 DEF Inherits, Answered, Rest
<1>9. EditFlow(t, l)
  BY <1>1, <1>5, <1>6, <1>7, <1>8 DEF EditFlow, CallGoesOn
<1> QED BY <1>9, FlowIntro

\* A plan's new task, parked, started or waiting.
LEMMA PlanFlow ==
  ASSUME TaskInv, NEW t \in Tasks, NEW park \in BOOLEAN,
         NEW owner \in {NoOne, Bot}, NEW structured \in Structured,
         Plan(t, park, owner, structured)
  PROVE  Flow
<1> DEFINE waits == Unresolved(tasks, DependsOn[t]) # {}
           status == IF ~waits /\ owner # NoOne THEN "in_progress" ELSE "open"
           new == [NoTask EXCEPT
             !.life = "", !.owner = owner, !.deps = DependsOn[t],
             !.structured = structured,
             !.blocked = waits, !.wait = waits, !.status = status]
           k == IF park THEN Enter(new, "drafting")
                ELSE IF new.status = "in_progress" THEN Enter(new, "running")
                ELSE new
           b == NormalizePlan(k)
           l == Settle(b)
<1>1. /\ tasks' = [tasks EXCEPT ![t] = l] /\ disk' = tasks'
      /\ call' = call /\ lost' = lost /\ tasks[t].life = "none"
  BY DEF Plan, Write, Save, Exists
<1>2. waits \in BOOLEAN /\ status \in {"in_progress", "open"}
  OBVIOUS
<1>3. waits => Unresolved(tasks, DependsOn[t]) # {}
  OBVIOUS
<1> HIDE DEF waits, status
<1>4. /\ new \in Task /\ new.life = "" /\ new.deps = DependsOn[t]
      /\ new.blockedOn = {} /\ ~new.objection
      /\ new.blocked = waits /\ new.wait = waits /\ new.status = status
  <2>1. structured \in BOOLEAN /\ DependsOn[t] \in SUBSET Tasks
    BY StructuredType, DependenciesAreTasks
  <2>2. status \in Statuses
    BY <1>2 DEF Statuses
  <2> DEFINE u == [NoTask EXCEPT !.life = "", !.owner = owner, !.deps = DependsOn[t]]
             v == [u EXCEPT !.structured = structured]
             n == [v EXCEPT !.blocked = waits, !.wait = waits, !.status = status]
  <2> HIDE DEF n, v, u, new
  <2>3. /\ u \in Task /\ u.life = "" /\ u.deps = DependsOn[t]
        /\ u.blockedOn = {} /\ ~u.objection
    BY <2>1, BlankTask DEF Task, u
  <2>4. /\ v \in Task /\ v.life = "" /\ v.deps = DependsOn[t]
        /\ v.blockedOn = {} /\ ~v.objection
    BY <2>1, <2>3 DEF Task, v
  <2>5. /\ n \in Task /\ n.life = "" /\ n.deps = DependsOn[t]
        /\ n.blockedOn = {} /\ ~n.objection
    BY <1>2, <2>2, <2>4 DEF Task, n
  <2>6. n.blocked = waits /\ n.wait = waits /\ n.status = status
    BY <2>4 DEF Task, n
  <2>7. new = n
    BY Zenon DEF u, v, n, new
  <2> QED BY <2>5, <2>6, <2>7
<1> HIDE DEF new
<1>5. /\ k \in Task /\ k.deps = DependsOn[t] /\ k.blockedOn = {}
      /\ ~k.objection /\ k.wait = waits
      /\ k.life \in {"", "drafting", "running"}
      /\ k.status \in {"open", "in_progress"}
  <2>1. /\ {"drafting", "running"} \subseteq States
        /\ Row["drafting"][3] = "open" /\ Row["running"][3] = "in_progress"
    BY StateNames, Rows DEF RowIs
  <2>2. \/ \E s \in {"drafting", "running"} : k = Enter(new, s)
        \/ k = new
    OBVIOUS
  <2> HIDE DEF k
  <2>3. CASE k = new
    BY <1>2, <1>4, <2>3
  <2>4. CASE \E s \in {"drafting", "running"} : k = Enter(new, s)
    <3>1. PICK s \in {"drafting", "running"} : k = Enter(new, s)
      BY <2>4
    <3>2. /\ k \in Task /\ k.life = s /\ k.status = Row[s][3]
          /\ k.objection = new.objection /\ k.deps = new.deps
          /\ k.blockedOn = new.blockedOn /\ k.wait = new.wait
      BY <1>4, <2>1, <3>1, EnterTask
    <3> QED BY <1>4, <2>1, <3>2
  <2> QED BY <2>2, <2>3, <2>4
<1> HIDE DEF k
<1>6. Same(k, b)
  BY <1>5, NormalizeSame
<1> HIDE DEF b
<1>7. l \in Task /\ Rest(b, l) /\ l.life = b.life /\ l.wait = Waits(b)
  BY <1>6, SettleFits DEF Same
<1> HIDE DEF l
<1>8. /\ l.deps = DependsOn[t] /\ l.blockedOn = {} /\ ~l.objection
      /\ l.life \in {"", "drafting", "running"}
      /\ l.status \in {"open", "in_progress"}
      /\ l.wait => waits /\ l.blocked
  BY <1>5, <1>6, <1>7 DEF Same, Rest, Waits
<1>9. Fit(t, l)
  BY <1>7, <1>8 DEF Fit, Sound, Plain, Ends, Stands, IsTerminal
<1>10. ~tasks[t].objection /\ ~tasks[t].wait
  BY <1>1 DEF TaskInv, All, Fit, Sound
<1>11. EditFlow(t, l)
  BY <1>1, <1>3, <1>8, <1>9, <1>10, DependenciesAreTasks
  DEF EditFlow, Answered, Inherits, CallGoesOn, IsTerminal
<1> QED BY <1>11, FlowIntro

\* A plan that names an open task again frees it only when no upstream it
\* names is open.
LEMMA PlanAgainFlow ==
  ASSUME TaskInv, NEW t \in Tasks, NEW owner \in {NoOne, Bot},
         NEW deps \in Replans[t], PlanAgain(t, owner, deps)
  PROVE  Flow
<1> DEFINE waits == Unresolved(tasks, deps) # {}
           waiting == waits /\ tasks[t].blockedOn = {}
           status == CASE waits -> "open"
                       [] ~waits /\ tasks[t].owner # NoOne -> "in_progress"
                       [] OTHER -> IF tasks[t].status = "blocked" THEN "open"
                                   ELSE tasks[t].status
           k == [tasks[t] EXCEPT
                  !.deps = deps, !.blocked = waits, !.wait = waiting,
                  !.status = status]
           l == NormalizePlan(k)
<1>0. Fit(t, tasks[t]) /\ tasks[t] \in Task
  BY DEF TaskInv, All
<1>1. /\ tasks' = [tasks EXCEPT ![t] = l] /\ disk' = tasks'
      /\ call' = call /\ lost' = lost
      /\ tasks[t].life # "none" /\ ~IsTerminal(tasks[t])
  BY <1>0 DEF PlanAgain, Reusable, Exists, Write, Save, Task
<1>2. /\ waits \in BOOLEAN /\ waiting \in BOOLEAN /\ status \in Statuses
      /\ status \in {"open", "in_progress", tasks[t].status}
      /\ waits => status = "open"
  BY <1>0 DEF Task, Statuses
<1>3. waits <=> Unresolved(tasks, deps) # {}
  OBVIOUS
<1>4. waiting => waits /\ tasks[t].blockedOn = {}
  OBVIOUS
<1> HIDE DEF waits, waiting, status
<1>5. /\ k \in Task /\ k.life = tasks[t].life /\ k.deps = deps
      /\ k.blockedOn = tasks[t].blockedOn
      /\ k.objection = tasks[t].objection
      /\ k.blocked = waits /\ k.wait = waiting /\ k.status = status
  <2>1. deps \in SUBSET Tasks
    BY ReplansAreTasks
  <2> QED BY <1>0, <1>2, <2>1 DEF Task
<1> HIDE DEF k
<1>6. Same(k, l)
  BY <1>5, NormalizeSame
<1> HIDE DEF l
<1>7. /\ l \in Task /\ l.life = tasks[t].life /\ l.deps = deps
      /\ l.blockedOn = tasks[t].blockedOn
      /\ l.objection = tasks[t].objection
      /\ l.blocked = waits /\ l.wait = waiting /\ l.status = status
  BY <1>5, <1>6 DEF Same, Rest
<1>8. ~IsTerminal(l)
  BY <1>1, <1>2, <1>7 DEF IsTerminal
<1>9. Sound(l)
  BY <1>0, <1>1, <1>7, <1>8 DEF Fit, Sound, Ends, Stands, IsTerminal
<1>10. Fit(t, l)
  BY <1>2, <1>4, <1>7, <1>9 DEF Fit, Plain
<1>11. EditFlow(t, l)
  BY <1>1, <1>3, <1>4, <1>7, <1>8, <1>10
  DEF EditFlow, Answered, Inherits, CallGoesOn
<1> QED BY <1>11, FlowIntro

\* Reading the human's note touches no field of the invariant,
LEMMA HumanReadsSame ==
  ASSUME NEW k \in Task, NEW by
  PROVE  Same(k, HumanReads(k, by))
<1>1. HumanReads(k, by) \in {k, [k EXCEPT !.note = "none", !.stop = FALSE]}
  BY DEF HumanReads
<1> QED BY <1>1 DEF Same, Rest, Task

\* and such changes keep the invariant.
LEMMA SameFits ==
  ASSUME NEW t \in Tasks, NEW k, Fit(t, k), NEW l, Same(k, l)
  PROVE  Fit(t, l)
BY DEF Fit, Same, Rest, Sound, Plain, Ends, Stands, IsTerminal

\* Every verb of one critical section rewrites one record, then cascades.
LEMMA MutateFlow ==
  ASSUME TaskInv, NEW t \in Tasks, NEW verb \in UngatedVerbs, NEW by \in Actors,
         Mutate(t, verb, by)
  PROVE  Flow
<1> DEFINE k == IF verb = "submit_for_review" THEN HumanReads(tasks[t], by)
                ELSE tasks[t]
           a == Apply(k, verb, by)
           l == Finish(a, verb)
<1>0. Fit(t, tasks[t]) /\ tasks[t] \in Task
  BY DEF TaskInv, All
<1>1. /\ tasks' = Released([tasks EXCEPT ![t] = l], t) /\ disk' = tasks'
      /\ call' = call /\ lost' = lost
  BY DEF Mutate, Save
<1>2. Same(tasks[t], k)
  BY <1>0, HumanReadsSame DEF Same, Rest
<1> HIDE DEF k
<1>3. Edit(k, a)
  BY <1>0, <1>2, SameFits, ApplyEdits
<1> HIDE DEF a
<1>4. Plain(a)
  BY <1>0, <1>2, <1>3 DEF Plain, Edit, Same, Rest, Fit
<1>5. Fit(t, l) /\ Rest(a, l) /\ (l.wait => a.wait)
  BY <1>3, <1>4, FinishFits DEF Edit
<1> HIDE DEF l
<1>6. Inherits(t, l)
  BY <1>2, <1>3, <1>5 DEF Inherits, Same, Rest, Edit
<1>7. Answered(t, l)
  BY <1>2, <1>3, <1>5 DEF Answered, Same, Rest, Edit
<1>8. Overrides(t)
  BY DEF Overrides
<1>9. CascadeFlow(t, l)
  BY <1>1, <1>5, <1>6, <1>7, <1>8 DEF CascadeFlow
<1> QED BY <1>9, FlowIntro

\* The gate, refusals and the building of a packet change no task.
LEMMA QuietSteps ==
  ASSUME TaskInv,
         \/ \E verb, by, next : \E t \in Tasks : Gate(t, verb, by, next)
         \/ \E t \in Tasks : BuildPacket(t)
         \/ LandRefused \/ DecideRefused \/ UNCHANGED vars
  PROVE  Flow
<1>1. QuietFlow
  BY DEF Gate, BuildPacket, LandRefused, Landing, DecideRefused, vars,
         QuietFlow, CallGoesOn
<1> QED BY <1>1 DEF Flow

\* Clearing the objection keeps the invariant.
LEMMA ClearedFits ==
  ASSUME NEW t \in Tasks, NEW k, Fit(t, k)
  PROVE  /\ Fit(t, Cleared(k)) /\ ~Cleared(k).objection
         /\ Cleared(k).status = k.status /\ Cleared(k).blocked = k.blocked
         /\ Cleared(k).deps = k.deps /\ Cleared(k).blockedOn = k.blockedOn
         /\ Cleared(k).life = k.life /\ Cleared(k).wait = k.wait
<1> DEFINE l == Cleared(k)
<1>1. k \in Task
  BY DEF Fit, Sound
<1>2. /\ l \in Task /\ ~l.objection
      /\ l.status = k.status /\ l.blocked = k.blocked /\ l.life = k.life
      /\ l.deps = k.deps /\ l.blockedOn = k.blockedOn /\ l.wait = k.wait
  BY <1>1 DEF Cleared, Task
<1> HIDE DEF l
<1>3. Fit(t, l)
  BY <1>2 DEF Fit, Sound, Plain, Ends, Stands, IsTerminal
<1> QED BY <1>2, <1>3 DEF l

\* The locked part of complete and approve goes on only when no objection
\* stands or the caller is the human.
LEMMA LandingFacts ==
  ASSUME TaskInv, Landing(TRUE)
  PROVE  /\ call.t \in Tasks /\ Fit(call.t, tasks[call.t])
         /\ tasks[call.t] \in Task /\ Overrides(call.t) /\ CallGoesOn
         /\ \A l : Answered(call.t, l)
<1>1. call.pc = "mutate" /\ call.t \in Tasks
  BY DEF Landing, TaskInv, CallInv
<1>2. Fit(call.t, tasks[call.t]) /\ tasks[call.t] \in Task
  BY <1>1 DEF TaskInv, All
<1>3. ~Objected(tasks[call.t], call.by)
  BY DEF Landing
<1>4. Overrides(call.t)
  BY DEF Overrides
<1>5. CallGoesOn
  BY <1>1 DEF Landing, CallGoesOn
<1>6. \A l : Answered(call.t, l)
  BY <1>3 DEF Answered, Objected
<1> QED BY <1>1, <1>2, <1>4, <1>5, <1>6

\* It may refuse after it cleared the objection,
LEMMA LandTurnedAwayFlow ==
  ASSUME TaskInv, LandTurnedAway
  PROVE  Flow
<1> DEFINE t == call.t
           l == Cleared(tasks[t])
<1>1. /\ t \in Tasks /\ Fit(t, tasks[t])
      /\ tasks[t] \in Task /\ Overrides(t) /\ CallGoesOn
      /\ Answered(t, l)
  BY LandingFacts DEF LandTurnedAway
<1>2. tasks' = [tasks EXCEPT ![t] = l] /\ disk' = disk
  BY DEF LandTurnedAway
<1>3. /\ Fit(t, l) /\ l.status = tasks[t].status
      /\ l.deps = tasks[t].deps /\ l.wait = tasks[t].wait
  BY <1>1, ClearedFits
<1> HIDE DEF l, t
<1>4. EditFlow(t, l)
  BY <1>1, <1>2, <1>3 DEF EditFlow, Inherits, IsTerminal
<1> QED BY <1>1, <1>4, FlowIntro

\* start a task instead of finishing it,
LEMMA LandStartFlow ==
  ASSUME TaskInv, LandStart
  PROVE  Flow
<1> DEFINE t == call.t
           k == Cleared(tasks[t])
           l == Start(k)
<1>1. /\ t \in Tasks /\ Fit(t, tasks[t])
      /\ tasks[t] \in Task /\ Overrides(t) /\ CallGoesOn
      /\ Answered(t, l)
  BY LandingFacts DEF LandStart
<1>2. tasks' = [tasks EXCEPT ![t] = l] /\ disk' = tasks'
  BY DEF LandStart, Write, Save
<1>3. /\ Fit(t, k) /\ k.deps = tasks[t].deps /\ k.wait = tasks[t].wait
  BY <1>1, ClearedFits
<1> HIDE DEF k
<1>4. "running" \in States /\ Row["running"][3] = "in_progress"
  BY StateNames, Rows DEF RowIs
<1>5. /\ Fit(t, l) /\ l.status = "in_progress" /\ l.deps = k.deps
      /\ l.wait => k.wait
  <2>1. k \in Task /\ Plain(k)
    BY <1>3 DEF Fit, Sound
  <2> QED BY <1>1, <1>4, <2>1, StartFits DEF Start
<1> HIDE DEF l, t
<1>6. EditFlow(t, l)
  BY <1>1, <1>2, <1>3, <1>5 DEF EditFlow, Inherits, IsTerminal
<1> QED BY <1>1, <1>6, FlowIntro

\* or finish it, or hand it to review, and cascade.
LEMMA LandDoneFlow ==
  ASSUME TaskInv, LandDone
  PROVE  Flow
<1> DEFINE t == call.t
           k == Cleared(tasks[t])
           read == IF call.verb = "complete" THEN HumanReads(k, call.by) ELSE k
           done == IF Completes(read, call.verb) THEN Done(read)
                   ELSE UnderReview(read)
           l == Finish(done, call.verb)
<1>1. /\ t \in Tasks /\ Fit(t, tasks[t])
      /\ tasks[t] \in Task /\ Overrides(t) /\ CallGoesOn
      /\ Answered(t, l)
  BY LandingFacts DEF LandDone
<1>2. /\ tasks' = Released([tasks EXCEPT ![t] = l], t) /\ disk' = tasks'
  BY DEF LandDone, Save
<1>3. /\ Fit(t, k) /\ k.deps = tasks[t].deps /\ k.wait = tasks[t].wait
      /\ ~k.objection /\ k.blockedOn = tasks[t].blockedOn /\ k \in Task
  BY <1>1, ClearedFits DEF Fit, Sound
<1> HIDE DEF k
<1>4. Same(k, read)
  BY <1>3, HumanReadsSame DEF Same, Rest
<1> HIDE DEF read
<1>5. /\ done \in Task /\ ~done.objection /\ Ends(done)
      /\ done.deps = read.deps /\ done.blockedOn = read.blockedOn
      /\ done.wait = read.wait
  <2>1. read \in Task /\ ~read.objection
    BY <1>3, <1>4 DEF Same, Rest
  <2>2. CASE Completes(read, call.verb)
    <3> DEFINE r == IF read.structured THEN "approved" ELSE read.review
    <3>1. r \in Reviews
      BY <2>1 DEF Task, Reviews
    <3>2. done = [read EXCEPT !.status = "done", !.blocked = FALSE, !.review = r]
      BY <2>1, <2>2 DEF Done, Task
    <3> HIDE DEF r, done
    <3> QED BY <2>1, <3>1, <3>2 DEF Task, Statuses, Ends
  <2>3. CASE ~Completes(read, call.verb)
    <3>1. done = [read EXCEPT !.status = "review", !.review = "ready_for_review"]
      BY <2>3 DEF UnderReview
    <3> HIDE DEF done
    <3> QED BY <2>1, <3>1 DEF Task, Statuses, Reviews, Ends, IsTerminal
  <2> QED BY <2>2, <2>3
<1> HIDE DEF done
<1>6. Stands(done) /\ Plain(done)
  BY <1>3, <1>4, <1>5 DEF Stands, Plain, Same, Rest, Fit
<1>7. Fit(t, l) /\ Rest(done, l) /\ (l.wait => done.wait)
  BY <1>1, <1>5, <1>6, FinishFits
<1> HIDE DEF l
<1>8. Inherits(t, l)
  BY <1>3, <1>4, <1>5, <1>7 DEF Inherits, Same, Rest
<1> HIDE DEF t
<1>9. CascadeFlow(t, l)
  BY <1>1, <1>2, <1>7, <1>8 DEF CascadeFlow, CallGoesOn
<1> QED BY <1>1, <1>9, FlowIntro

\* A decision rewrites its task and leaves the cascade to be run.
LEMMA DecideFlow ==
  ASSUME TaskInv, NEW t \in Tasks, NEW by,
         NEW verb \in {"approve", "request_changes", "block", "defer"},
         Decide(t, verb, by), call.pc # "cascade",
         verb = "approve" => call.t = t /\ call.by = by
  PROVE  Flow
<1> DEFINE s == Outcome(verb, tasks[t])
           k == Enter(tasks[t], s)
           o == IF verb = "approve" THEN tasks[t].objection /\ by # Human
                ELSE IF verb = "request_changes"
                THEN tasks[t].objection \/ by = Human
                ELSE tasks[t].objection
           d == Decided(t, verb, by)
           l == Settle(d)
<1>0. Fit(t, tasks[t]) /\ tasks[t] \in Task
  BY DEF TaskInv, All
<1>1. /\ tasks' = [tasks EXCEPT ![t] = l] /\ disk' = disk
      /\ call'.pc = "cascade" /\ call'.t = t /\ lost' = lost
      /\ verb = "approve" => ~Objected(tasks[t], by)
  BY DEF Decide, IdleCall
<1>2. s \in States /\ (s = "approved" => verb = "approve")
  BY StateNames DEF Outcome
<1>3. o \in BOOLEAN /\ (verb = "approve" => ~o)
  BY <1>0, <1>1 DEF Objected, Task
<1>4. tasks[t].objection => o \/ (call.t = t /\ call.by = Human)
  BY <1>1 DEF Objected
<1>5. /\ k \in Task /\ k.life = s /\ k.status = Row[s][3]
      /\ k.blocked = Row[s][4] /\ k.objection = tasks[t].objection
      /\ k.deps = tasks[t].deps /\ k.blockedOn = tasks[t].blockedOn
      /\ k.wait = tasks[t].wait
  BY <1>0, <1>2, EnterTask
<1>6. d = [k EXCEPT !.objection = o]
  <2>1. k.objection = tasks[t].objection /\ k \in Task
    BY <1>5
  <2>2. d = CASE verb = "approve" ->
                   [k EXCEPT !.objection = k.objection /\ by # Human]
              [] verb = "request_changes" ->
                   [k EXCEPT !.objection = k.objection \/ by = Human]
              [] OTHER -> k
    <3> HIDE DEF s
    <3>1. k.objection \in BOOLEAN
      BY <2>1 DEF Task
    <3> QED BY <2>1 DEF Decided, s, Task
  <2> HIDE DEF k, d
  <2>3. k = [k EXCEPT !.objection = k.objection]
    BY <2>1 DEF Task
  <2> QED BY <2>1, <2>2, <2>3
<1> HIDE DEF s, k, o, d
<1>7. /\ d \in Task /\ d.life = s /\ d.status = Row[s][3]
      /\ d.blocked = Row[s][4] /\ d.objection = o
      /\ d.deps = tasks[t].deps /\ d.blockedOn = tasks[t].blockedOn
      /\ d.wait = tasks[t].wait
  BY <1>3, <1>5, <1>6 DEF Task
<1>8. l \in Task /\ Rest(d, l) /\ l.life = s /\ l.wait = Waits(d)
  BY <1>7, SettleFits
<1> HIDE DEF l
<1>9. RowOK(s)
  BY <1>2, RowFacts
<1>10. Sound(l)
  BY <1>2, <1>3, <1>7, <1>8, <1>9, StateNames
  DEF Sound, Ends, Stands, IsTerminal, Rest, RowOK
<1>11. l.wait => /\ tasks[t].wait /\ l.blocked
                 /\ l.status \notin {"blocked", "rejected"}
  BY <1>7, <1>8 DEF Rest, Waits
<1>12. l.deps = tasks[t].deps /\ l.blockedOn = tasks[t].blockedOn
  BY <1>7, <1>8 DEF Rest
<1>13. Fit(t, l)
  BY <1>0, <1>10, <1>11, <1>12 DEF Fit, Plain
<1>14. Answered(t, l)
  BY <1>4, <1>7, <1>8 DEF Answered, Rest
<1>15. Overrides(t)
  BY <1>1 DEF Overrides
<1>16. EditFlow(t, l)
  BY <1>1, <1>11, <1>12, <1>13, <1>14, <1>15
  DEF EditFlow, CallGoesOn, Inherits
<1> QED BY <1>16, FlowIntro

\* The second critical section of a decision is a cascade of an unchanged task.
LEMMA CascadeStep ==
  ASSUME TaskInv, OnDecisionRecorded
  PROVE  Flow
<1> DEFINE t == call.t
           l == tasks[t]
<1>1. t \in Tasks
  BY DEF OnDecisionRecorded, TaskInv, CallInv
<1>2. Fit(t, l) /\ tasks = [tasks EXCEPT ![t] = l]
  BY <1>1 DEF TaskInv, All
<1>3. tasks' = Released(tasks, t) /\ disk' = tasks' /\ lost' = lost
  BY DEF OnDecisionRecorded, Save
<1>4. Overrides(t)
  BY DEF Overrides
<1>5. CascadeFlow(t, l)
  BY <1>2, <1>3, <1>4 DEF CascadeFlow, Answered, Inherits
<1> QED BY <1>1, <1>5, FlowIntro

\* BlockTask ends the wait: the task is blocked in its own right.
LEMMA BlockTaskFlow ==
  ASSUME TaskInv, NEW t \in Tasks, NEW on \in SUBSET Tasks, BlockTask(t, on)
  PROVE  Flow
<1> DEFINE b == tasks[t].blockedOn \union (on \ {t})
           k == [tasks[t] EXCEPT !.blockedOn = b]
           d == NormalizePlan(Enter(k, "blocked"))
           l == Settle(d)
<1>0. Fit(t, tasks[t]) /\ tasks[t] \in Task
  BY DEF TaskInv, All
<1>1. /\ tasks' = [tasks EXCEPT ![t] = l] /\ disk' = tasks'
      /\ call' = call /\ lost' = lost
  BY <1>0 DEF BlockTask, Write, Save, Task
<1>2. /\ "blocked" \in States /\ Row["blocked"][3] = "blocked"
      /\ Row["blocked"][4] = TRUE
  BY StateNames, Rows DEF RowIs
<1>3. b \subseteq Tasks
  BY <1>0 DEF Task
<1> HIDE DEF b
<1>4. k \in Task /\ k.objection = tasks[t].objection
  BY <1>0, <1>3 DEF Task
<1> HIDE DEF k
<1>5. /\ Enter(k, "blocked") \in Task /\ Enter(k, "blocked").life = "blocked"
      /\ Enter(k, "blocked").status = "blocked"
      /\ Enter(k, "blocked").blocked = TRUE
      /\ Enter(k, "blocked").objection = k.objection
  BY <1>2, <1>4, EnterTask
<1>6. Same(Enter(k, "blocked"), d)
  BY <1>5, NormalizeSame
<1> HIDE DEF d
<1>7. l \in Task /\ Rest(d, l) /\ l.life = d.life /\ l.wait = Waits(d)
  BY <1>6, SettleFits DEF Same
<1> HIDE DEF l
<1>8. /\ l.status = "blocked" /\ l.blocked = TRUE /\ l.life = "blocked"
      /\ l.objection = tasks[t].objection /\ ~l.wait
  BY <1>4, <1>5, <1>6, <1>7 DEF Same, Rest, Waits
<1>9. Fit(t, l)
  BY <1>7, <1>8 DEF Fit, Sound, Plain, Ends, Stands, IsTerminal
<1>10. EditFlow(t, l)
  BY <1>1, <1>8, <1>9
  DEF EditFlow, CallGoesOn, Inherits, Answered, IsTerminal
<1> QED BY <1>10, FlowIntro

\* Entering running, ready or decision from outside the verbs.
LEMMA EnterFlow ==
  ASSUME TaskInv, NEW t \in Tasks, NEW l,
         NEW s \in {"running", "ready", "decision"},
         \/ l = Settle(NormalizePlan(Enter(tasks[t], s)))
         \/ l = Settle(Enter(tasks[t], s)),
         tasks' = [tasks EXCEPT ![t] = l], disk' \in {disk, tasks'},
         call' = call, lost' = lost,
         Overrides(t) \/ Unresolved(tasks, tasks[t].deps) = {}
  PROVE  Flow
<1>1. Fit(t, tasks[t]) /\ tasks[t] \in Task /\ Plain(tasks[t])
  BY DEF TaskInv, All, Fit
<1>2. s \in States /\ s # "approved" /\ Row[s][3] \in {"open", "in_progress"}
  BY StateNames, Rows DEF RowIs
<1>3. /\ Fit(t, l) /\ l.status = Row[s][3]
      /\ l.objection = tasks[t].objection /\ l.deps = tasks[t].deps
      /\ l.wait => tasks[t].wait
  BY <1>1, <1>2, EnterFits, StartFits
<1>4. EditFlow(t, l)
  BY <1>2, <1>3 DEF EditFlow, CallGoesOn, Inherits, Answered, IsTerminal
<1> QED BY <1>4, FlowIntro

\* ResumeTask, convergence and the approval of a plan are such entries.
LEMMA StartSteps ==
  ASSUME TaskInv, NEW t \in Tasks, ResumeTask(t) \/ Converge(t) \/ ApprovePlan(t)
  PROVE  Flow
<1>1. CASE ResumeTask(t)
  <2>1. PICK s \in {"running", "ready"} :
          Write(t, Settle(NormalizePlan(Enter(tasks[t], s))))
    BY <1>1 DEF ResumeTask
  <2>2. /\ call' = call /\ lost' = lost
        /\ Unresolved(tasks, tasks[t].deps) = {}
    BY <1>1 DEF ResumeTask
  <2> QED BY <2>1, <2>2, EnterFlow DEF Write, Save
<1>2. CASE Converge(t)
  <2>1. Overrides(t)
    BY <1>2 DEF Overrides
  <2>2. /\ tasks' = [tasks EXCEPT ![t] = Settle(Enter(tasks[t], "decision"))]
        /\ disk' = disk /\ call' = call /\ lost' = lost
    BY <1>2 DEF Converge, TaskInv, All
  <2> QED BY <2>1, <2>2, EnterFlow
<1>3. CASE ApprovePlan(t)
  <2>1. Overrides(t)
    BY <1>3 DEF Overrides
  <2>2. /\ Write(t, Settle(NormalizePlan(Enter(tasks[t], "running"))))
        /\ call' = call /\ lost' = lost
    BY <1>3 DEF ApprovePlan, Start
  <2> QED BY <2>1, <2>2, EnterFlow DEF Write, Save
<1> QED BY <1>1, <1>2, <1>3

\* A step that changes no field of the invariant is an edit.
LEMMA NoteFlow ==
  ASSUME TaskInv, NEW t \in Tasks, NEW l, Same(tasks[t], l),
         Write(t, l), call' = call, lost' = lost
  PROVE  Flow
<1>1. Fit(t, tasks[t])
  BY DEF TaskInv, All
<1>2. Fit(t, l)
  BY <1>1, SameFits
<1>3. tasks[t].wait => l.blocked
  BY <1>1 DEF Same, Rest, Fit
<1>4. EditFlow(t, l)
  BY <1>2, <1>3 DEF EditFlow, Write, Save, CallGoesOn, Answered, Inherits,
                    Same, Rest, IsTerminal
<1> QED BY <1>4, FlowIntro

\* The human's notes and the packet that clears them are such steps.
LEMMA NoteSteps ==
  ASSUME TaskInv,
         \/ ConsumeTaskHumanNote
         \/ \E t \in Tasks, note \in {"plain", "halt"} : PostNote(t, note)
  PROVE  Flow
<1>1. CASE ConsumeTaskHumanNote
  <2> DEFINE t == packet.t
             x == tasks[t].stop /\ packet.note # "halt"
             l == [tasks[t] EXCEPT !.note = "none", !.stop = x]
  <2>1. t \in Tasks
    BY <1>1 DEF ConsumeTaskHumanNote, TaskInv, CallInv
  <2>2. tasks[t] \in Task
    BY <2>1 DEF TaskInv, All
  <2>3. Write(t, l) /\ call' = call /\ lost' = lost
    BY <1>1, <2>2 DEF ConsumeTaskHumanNote, Task
  <2>4. x \in BOOLEAN
    OBVIOUS
  <2> HIDE DEF x, t
  <2>5. Same(tasks[t], l)
    BY <2>2, <2>4 DEF Same, Rest, Task
  <2> QED BY <2>1, <2>3, <2>5, NoteFlow
<1>2. CASE \E t \in Tasks, note \in {"plain", "halt"} : PostNote(t, note)
  <2>1. PICK t \in Tasks, note \in {"plain", "halt"} : PostNote(t, note)
    BY <1>2
  <2> DEFINE x == note = "halt"
             l == [tasks[t] EXCEPT !.note = note, !.stop = x]
  <2>2. tasks[t] \in Task
    BY DEF TaskInv, All
  <2>3. Write(t, l) /\ call' = call /\ lost' = lost
    BY <2>1 DEF PostNote
  <2>4. x \in BOOLEAN
    OBVIOUS
  <2> HIDE DEF x
  <2>5. Same(tasks[t], l)
    BY <2>2, <2>4 DEF Same, Rest, Task
  <2> QED BY <2>3, <2>5, NoteFlow
<1> QED BY <1>1, <1>2

\* Every step is one of the flows.
LEMMA StepFlows ==
  ASSUME TaskInv, [Next]_vars
  PROVE  Flow
<1> USE TaskInv
<1>1. CASE \E t \in Tasks, by \in Actors, owner \in {NoOne, Bot},
        check \in Checks, structured \in Structured :
        Create(t, by, owner, check, structured)
  BY <1>1, CreateFlow
<1>2. CASE \E t \in Tasks, owner \in {NoOne, Bot} :
             \/ CreateAgain(t, owner)
              \/ \E deps \in Replans[t] : PlanAgain(t, owner, deps)
  BY <1>2, CreateAgainFlow, PlanAgainFlow
<1>3. CASE \E t \in Tasks, park \in BOOLEAN, owner \in {NoOne, Bot},
        structured \in Structured : Plan(t, park, owner, structured)
  BY <1>3, PlanFlow
<1>4. CASE \E t \in Tasks, verb \in UngatedVerbs, by \in Actors :
             Mutate(t, verb, by)
  BY <1>4, MutateFlow
<1>5. CASE \/ \E t \in Tasks, verb \in {"complete", "approve"}, by \in Actors :
                Gate(t, verb, by, "mutate")
           \/ \E t \in Tasks, by \in {Human, Bot} \intersect Actors :
                "decide" \in Verbs /\ Gate(t, "approve", by, "decide")
  BY <1>5, QuietSteps
<1>6. CASE LandRefused \/ DecideRefused \/ UNCHANGED vars
  BY <1>6, QuietSteps
<1>7. CASE LandTurnedAway \/ LandStart \/ LandDone
  BY <1>7, LandTurnedAwayFlow, LandStartFlow, LandDoneFlow
<1>8. CASE DecideApprove
  <2>1. /\ call.t \in Tasks /\ call.verb = "approve" /\ call.pc # "cascade"
        /\ Decide(call.t, call.verb, call.by)
    BY <1>8 DEF DecideApprove, TaskInv, CallInv
  <2> QED BY <2>1, DecideFlow
<1>9. CASE OnDecisionRecorded
  BY <1>9, CascadeStep
<1>10. CASE \E t \in Tasks, verb \in {"request_changes", "block", "defer"},
              by \in {Human, Bot} \intersect Actors : DecideOther(t, verb, by)
  <2>1. PICK t \in Tasks, verb \in {"request_changes", "block", "defer"},
             by \in {Human, Bot} \intersect Actors : DecideOther(t, verb, by)
    BY <1>10
  <2>2. Decide(t, verb, by) /\ call.pc # "cascade"
    BY <2>1 DEF DecideOther
  <2> QED BY <2>2, DecideFlow
<1>11. CASE \E t \in Tasks, on \in {{}} \union {{u} : u \in Tasks} :
              BlockTask(t, on)
  <2>1. PICK t \in Tasks, on \in {{}} \union {{u} : u \in Tasks} :
              BlockTask(t, on)
    BY <1>11
  <2>2. on \in SUBSET Tasks
    OBVIOUS
  <2> QED BY <2>1, <2>2, BlockTaskFlow
<1>12. CASE \E t \in Tasks : ResumeTask(t) \/ Converge(t) \/ ApprovePlan(t)
  BY <1>12, StartSteps
<1>13. CASE \E t \in Tasks : PostNote(t, "plain") \/ PostNote(t, "halt")
  BY <1>13, NoteSteps
<1>14. CASE \E t \in Tasks : BuildPacket(t)
  BY <1>14, QuietSteps
<1>15. CASE ConsumeTaskHumanNote
  BY <1>15, NoteSteps
<1>16. CASE RemoveOwner \/ Restart
  BY <1>16 DEF Flow
<1> QED BY <1>1, <1>2, <1>3, <1>4, <1>5, <1>6, <1>7, <1>8, <1>9, <1>10,
           <1>11, <1>12, <1>13, <1>14, <1>15, <1>16 DEF Next

-----------------------------------------------------------------------------
(* The invariant and the theorems *)

\* The empty office satisfies the invariant.
LEMMA TaskInit ==
  Init => TaskInv
<1> SUFFICES ASSUME Init PROVE TaskInv
  OBVIOUS
<1>1. NoTask \in Task
  BY DEF NoTask, Task, Statuses, Stages, Reviews
<1>2. /\ NoTask.life = "none" /\ ~NoTask.objection /\ ~NoTask.wait
      /\ ~NoTask.blocked /\ NoTask.status = ""
  BY DEF NoTask
<1>3. \A t \in Tasks : Fit(t, NoTask)
  BY <1>1, <1>2, StateNames DEF Fit, Sound, Plain, Ends, Stands, IsTerminal
<1>4. All(tasks) /\ All(disk) /\ \A t \in Tasks : ~tasks[t].wait
  BY <1>1, <1>2, <1>3 DEF Init, All
<1>5. CallInv
  BY DEF Init, CallInv, IdleCall, IdlePacket
<1> QED BY <1>4, <1>5 DEF TaskInv

\* Every step keeps the calls in order.
LEMMA CallStep ==
  ASSUME TaskInv, [Next]_vars
  PROVE  CallInv'
<1> USE DEF CallInv, IdleCall, IdlePacket
<1>0. CallInv
  BY DEF TaskInv
<1>1. ASSUME NEW t \in Tasks, NEW verb, NEW by, NEW next \in {"mutate", "decide"},
             Gate(t, verb, by, next), next = "decide" => verb = "approve"
      PROVE  CallInv'
  BY <1>0, <1>1 DEF Gate
<1>2. ASSUME Landing(TRUE) \/ Landing(FALSE) \/ DecideRefused \/ OnDecisionRecorded
      PROVE  CallInv'
  <2>1. call' = IdleCall /\ UNCHANGED <<packet, lost>>
    BY <1>2 DEF Landing, DecideRefused, OnDecisionRecorded
  <2> QED BY <1>0, <2>1
<1>3. ASSUME NEW t \in Tasks, NEW verb, NEW by, Decide(t, verb, by)
      PROVE  CallInv'
  BY <1>0, <1>3 DEF Decide
<1>4. CASE Restart
  BY <1>0, <1>4 DEF Restart
<1>5. ASSUME NEW t \in Tasks, BuildPacket(t)
      PROVE  CallInv'
  BY <1>0, <1>5 DEF BuildPacket
<1>6. CASE ConsumeTaskHumanNote
  BY <1>0, <1>6 DEF ConsumeTaskHumanNote
<1>7. CASE UNCHANGED <<call, packet, lost>>
  BY <1>0, <1>7
<1>8. CASE DecideApprove
  BY <1>0, <1>3, <1>8 DEF DecideApprove
<1> HIDE DEF CallInv
<1>9. CASE \E t \in Tasks, by \in Actors, owner \in {NoOne, Bot},
         check \in Checks, structured \in Structured :
         Create(t, by, owner, check, structured)
  BY <1>7, <1>9 DEF Create
<1>10. CASE \E t \in Tasks, owner \in {NoOne, Bot} :
              \/ CreateAgain(t, owner)
              \/ \E deps \in Replans[t] : PlanAgain(t, owner, deps)
  BY <1>7, <1>10 DEF CreateAgain, PlanAgain
<1>11. CASE \E t \in Tasks, park \in BOOLEAN, owner \in {NoOne, Bot},
         structured \in Structured : Plan(t, park, owner, structured)
  BY <1>7, <1>11 DEF Plan
<1>12. CASE \E t \in Tasks, verb \in UngatedVerbs, by \in Actors :
              Mutate(t, verb, by)
  BY <1>7, <1>12 DEF Mutate
<1>13. CASE \/ \E t \in Tasks, verb \in {"complete", "approve"}, by \in Actors :
                 Gate(t, verb, by, "mutate")
            \/ \E t \in Tasks, by \in {Human, Bot} \intersect Actors :
                 "decide" \in Verbs /\ Gate(t, "approve", by, "decide")
  BY <1>1, <1>13
<1>14. CASE LandRefused \/ LandTurnedAway \/ LandStart \/ LandDone
  BY <1>2, <1>14 DEF LandRefused, LandTurnedAway, LandStart, LandDone
<1>15. CASE \E t \in Tasks, verb \in {"request_changes", "block", "defer"},
              by \in {Human, Bot} \intersect Actors : DecideOther(t, verb, by)
  BY <1>3, <1>15 DEF DecideOther
<1>16. CASE \E t \in Tasks, on \in {{}} \union {{u} : u \in Tasks} :
              BlockTask(t, on)
  BY <1>7, <1>16 DEF BlockTask
<1>17. CASE \E t \in Tasks : \/ ResumeTask(t) \/ Converge(t) \/ ApprovePlan(t)
                             \/ PostNote(t, "plain") \/ PostNote(t, "halt")
  BY <1>7, <1>17 DEF ResumeTask, Converge, ApprovePlan, PostNote
<1>18. CASE RemoveOwner \/ UNCHANGED vars
  BY <1>7, <1>18 DEF RemoveOwner, vars
<1> QED BY <1>2, <1>4, <1>5, <1>6, <1>8, <1>9, <1>10, <1>11, <1>12, <1>13,
           <1>14, <1>15, <1>16, <1>17, <1>18 DEF Next

\* A removed owner's task goes back to ready, open and not waiting,
LEMMA RemovedFits ==
  ASSUME NEW t \in Tasks, NEW k, Fit(t, k)
  PROVE  LET l == Settle(Enter([k EXCEPT !.owner = NoOne], "ready"))
         IN  /\ Fit(t, l) /\ ~IsTerminal(l) /\ ~l.wait
             /\ l.objection = k.objection
<1> DEFINE m == [k EXCEPT !.owner = NoOne]
<1>1. k \in Task /\ Plain(k)
  BY DEF Fit, Sound
<1>2. /\ m \in Task /\ m.objection = k.objection /\ m.wait = k.wait
      /\ m.blockedOn = k.blockedOn /\ m.deps = k.deps
  BY <1>1 DEF Task
<1> HIDE DEF m
<1>3. Plain(m)
  BY <1>1, <1>2 DEF Plain
<1>4. /\ "ready" \in States /\ Row["ready"][3] = "open"
      /\ Row["ready"][4] = FALSE
  BY StateNames, Rows DEF RowIs
<1> DEFINE l == Settle(Enter(m, "ready"))
<1>5. /\ Fit(t, l) /\ l.status = "open" /\ l.blocked = FALSE
      /\ l.objection = m.objection
  BY <1>2, <1>3, <1>4, EnterFits
<1> HIDE DEF l
<1>6. ~IsTerminal(l) /\ ~l.wait
  BY <1>5 DEF Fit, IsTerminal
<1> QED BY <1>2, <1>5, <1>6 DEF l, m

\* and the other tasks stay as they are.
LEMMA RemovedTasks ==
  ASSUME TaskInv, RemoveOwner
  PROVE  /\ disk' = tasks' /\ call' = call /\ lost' = lost
         /\ tasks' \in [Tasks -> Task]
         /\ \A t \in Tasks :
              \/ tasks'[t] = tasks[t]
              \/ /\ Fit(t, tasks'[t]) /\ ~IsTerminal(tasks'[t])
                 /\ ~tasks'[t].wait /\ tasks'[t].objection = tasks[t].objection
<1> DEFINE l(t) == IF tasks[t].owner # Bot THEN tasks[t]
             ELSE Settle(Enter([tasks[t] EXCEPT !.owner = NoOne], "ready"))
<1>1. /\ tasks' = [t \in Tasks |-> l(t)] /\ disk' = tasks'
      /\ call' = call /\ lost' = lost
  BY DEF RemoveOwner, Save
<1>2. ASSUME NEW t \in Tasks
      PROVE  \/ l(t) = tasks[t]
             \/ /\ Fit(t, l(t)) /\ ~IsTerminal(l(t))
                /\ ~l(t).wait /\ l(t).objection = tasks[t].objection
  <2>1. Fit(t, tasks[t])
    BY DEF TaskInv, All
  <2> QED BY <2>1, RemovedFits
<1> HIDE DEF l
<1>3. \A t \in Tasks : l(t) \in Task
  BY <1>2 DEF TaskInv, All, Fit, Sound
<1> QED BY <1>1, <1>2, <1>3

\* The tasks after a cascade.
LEMMA CascadedTasks ==
  ASSUME TaskInv, NEW t \in Tasks, NEW l, CascadeFlow(t, l)
  PROVE  LET ts == [tasks EXCEPT ![t] = l]
         IN  /\ All(ts) /\ All(tasks')
             /\ \A d \in Tasks : Freed(ts, t, d, tasks'[d])
<1> DEFINE ts == [tasks EXCEPT ![t] = l]
<1>1. All(ts)
  BY DEF TaskInv, All, CascadeFlow, Fit, Sound
<1> HIDE DEF ts
<1>2. tasks' = Released(ts, t)
  BY DEF CascadeFlow, ts
<1>3. /\ tasks' \in [Tasks -> Task]
      /\ \A d \in Tasks : Freed(ts, t, d, tasks'[d])
  BY <1>1, <1>2, ReleasedFrees
<1>4. All(tasks')
  BY <1>3 DEF All, Freed
<1> QED BY <1>1, <1>3, <1>4 DEF ts

\* The tasks after a restart are those of the file, as far as the properties go.
LEMMA RestartedTasks ==
  ASSUME TaskInv, Restart
  PROVE  /\ All(tasks')
         /\ \A t \in Tasks :
              /\ IsTerminal(tasks'[t]) <=> IsTerminal(disk[t])
              /\ tasks'[t].deps = disk[t].deps /\ tasks'[t].wait = disk[t].wait
              /\ disk[t].wait => tasks'[t].blocked
<1>1. tasks' = [t \in Tasks |-> Loaded(disk[t])]
  BY DEF Restart
<1>2. \A t \in Tasks : Fit(t, disk[t])
  BY DEF TaskInv, All
<1>3. \A t \in Tasks : Fit(t, tasks'[t]) /\ tasks'[t] = Loaded(disk[t])
  BY <1>1, <1>2, LoadedFits
<1>4. All(tasks')
  BY <1>1, <1>3 DEF All, Fit, Sound
<1> QED BY <1>2, <1>3, <1>4, LoadedFits

\* The invariant is kept by every flow.
LEMMA TaskStep ==
  TaskInv /\ [Next]_vars => TaskInv'
<1> SUFFICES ASSUME TaskInv, [Next]_vars PROVE TaskInv'
  OBVIOUS
<1>1. CallInv'
  BY CallStep
<1>2. Flow
  BY StepFlows
<1>3. ASSUME NEW t \in Tasks, NEW l \in Task, EditFlow(t, l)
      PROVE  TaskInv'
  <2>1. All(tasks)' /\ \A d \in Tasks : tasks'[d] = IF d = t THEN l ELSE tasks[d]
    BY <1>3 DEF EditFlow, TaskInv, All
  <2>2. CASE disk' = tasks'
    BY <1>1, <2>1, <2>2 DEF TaskInv, All
  <2>3. CASE disk' = disk /\ disk' # tasks'
    <3>1. l.wait => tasks[t].wait
      BY <1>3, <2>3 DEF EditFlow, Inherits
    <3>2. \A d \in Tasks : tasks'[d].wait => disk[d].wait
      BY <2>1, <3>1 DEF TaskInv
    <3> QED BY <1>1, <2>1, <2>3, <3>2 DEF TaskInv, All
  <2> QED BY <1>3, <2>2, <2>3 DEF EditFlow
<1>4. ASSUME NEW t \in Tasks, NEW l \in Task, CascadeFlow(t, l)
      PROVE  TaskInv'
  <2>1. All(tasks') /\ disk' = tasks'
    BY <1>4, CascadedTasks DEF CascadeFlow
  <2> QED BY <1>1, <2>1 DEF TaskInv, All
<1>5. CASE QuietFlow
  BY <1>1, <1>5 DEF QuietFlow, TaskInv, All
<1>6. CASE RemoveOwner
  <2>1. All(tasks') /\ disk' = tasks'
    BY <1>6, RemovedTasks DEF TaskInv, All
  <2> QED BY <1>1, <2>1 DEF TaskInv, All
<1>7. CASE Restart
  <2>1. All(tasks') /\ \A t \in Tasks : tasks'[t].wait = disk[t].wait
    BY <1>7, RestartedTasks
  <2>2. disk' = disk
    BY <1>7 DEF Restart
  <2> QED BY <1>1, <2>1, <2>2 DEF TaskInv, All
<1> QED BY <1>2, <1>3, <1>4, <1>5, <1>6, <1>7 DEF Flow

\* The records in memory and in the file satisfy TaskInv in every behaviour of
\* MutateTask, decisions, plans, cascades and restarts, for any tasks, any
\* dependencies among them and any mix of verbs.
THEOREM TaskInvariant == Spec => []TaskInv
BY TaskInit, TaskStep, PTL DEF Spec

\* Every verb, decision and repair writes a well-typed task record.
THEOREM TaskTypes == Spec => []TypeOK
<1>1. TaskInv => TypeOK
  BY DEF TaskInv, CallInv, All, TypeOK
<1> QED BY <1>1, TaskInvariant, PTL

\* The typed state and the tuple never disagree on whether a task is over,
\* however verbs, plans, decisions and restarts rewrite the tuple.
THEOREM EncodingsAgree == Spec => []TerminalAgrees
<1>1. TaskInv => TerminalAgrees
  BY DEF TaskInv, All, Fit, Sound, TerminalAgrees
<1> QED BY <1>1, TaskInvariant, PTL

\* A step retires an objection only as the human's call or by a restart.
LEMMA ObjectionStep ==
  ASSUME TaskInv, [Next]_vars, NEW t \in Tasks, tasks[t].objection
  PROVE  \/ tasks'[t].objection /\ tasks'[t].status # "done"
         \/ call.t = t /\ call.by = Human
         \/ Restart
<1>1. Fit(t, tasks'[t])
  BY TaskStep DEF TaskInv, All
<1>2. tasks'[t].objection => tasks'[t].status # "done"
  BY <1>1 DEF Fit, Sound, Stands
<1>3. Flow
  BY StepFlows
<1>4. ASSUME NEW d \in Tasks, NEW l \in Task, EditFlow(d, l)
      PROVE  tasks'[t].objection \/ (call.t = t /\ call.by = Human)
  BY <1>4 DEF EditFlow, Answered, TaskInv, All
<1>5. ASSUME NEW d \in Tasks, NEW l \in Task, CascadeFlow(d, l)
      PROVE  tasks'[t].objection \/ (call.t = t /\ call.by = Human)
  <2> DEFINE ts == [tasks EXCEPT ![d] = l]
  <2>0. Freed(ts, d, t, tasks'[t])
    BY <1>5, CascadedTasks
  <2>1. tasks'[t].objection = ts[t].objection
    <3> HIDE DEF ts
    <3> QED BY <2>0 DEF Freed
  <2>2. ts[t].objection \/ (call.t = t /\ call.by = Human)
    BY <1>5 DEF CascadeFlow, Answered, TaskInv, All
  <2> QED BY <2>1, <2>2
<1>6. CASE QuietFlow
  BY <1>2, <1>6 DEF QuietFlow
<1>7. CASE RemoveOwner
  BY <1>2, <1>7, RemovedTasks
<1> QED BY <1>2, <1>3, <1>4, <1>5, <1>6, <1>7 DEF Flow

\* The human's no is sovereign in every behaviour: no step of anyone else
\* retires an objection or gets the task to done, a call that passed its gate
\* before the objection included.
THEOREM ObjectionsStand == Spec => HumanNoStands
<1>1. TaskInv /\ [Next]_vars =>
        [\A t \in Tasks : tasks[t].objection =>
           \/ tasks'[t].objection /\ tasks'[t].status # "done"
           \/ call.t = t /\ call.by = Human
           \/ Restart]_vars
  BY ObjectionStep
<1> QED BY <1>1, TaskInvariant, PTL DEF Spec, HumanNoStands

\* A step that frees a waiting task other than by overriding the wait leaves
\* every upstream it then has over.
LEMMA UpstreamStep ==
  ASSUME TaskInv, [Next]_vars, NEW d \in Tasks,
         tasks[d].wait, ~tasks'[d].blocked, ~Overrides(d),
         NEW u \in tasks'[d].deps
  PROVE  IsTerminal(tasks'[u])
<1>0. /\ Fit(d, tasks[d]) /\ tasks[d] \in Task /\ tasks[d].blocked
      /\ ~IsTerminal(tasks[d]) /\ tasks[d].deps \subseteq Tasks
  BY DEF TaskInv, All, Fit, Sound, Ends, Task
<1>1. Flow
  BY StepFlows
<1>2. ASSUME NEW t \in Tasks, NEW l \in Task, EditFlow(t, l)
      PROVE  IsTerminal(tasks'[u])
  <2>1. \A x \in Tasks : tasks'[x] = IF x = t THEN l ELSE tasks[x]
    BY <1>2 DEF EditFlow, TaskInv, All
  <2>2. d = t
    BY <1>0, <2>1
  <2>3. u \in l.deps /\ u \in Tasks /\ Unresolved(tasks, l.deps) = {}
    BY <1>2, <2>1, <2>2 DEF EditFlow, Task
  <2>4. IsTerminal(tasks[u])
    BY <2>3 DEF Unresolved
  <2> QED BY <1>0, <2>1, <2>2, <2>3, <2>4
<1>3. ASSUME NEW t \in Tasks, NEW l \in Task, CascadeFlow(t, l)
      PROVE  IsTerminal(tasks'[u])
  <2> DEFINE ts == [tasks EXCEPT ![t] = l]
  <2>1. d # t
    BY <1>3 DEF CascadeFlow
  <2>2. ts[d] = tasks[d]
    BY <2>1 DEF TaskInv, All
  <2>0. Freed(ts, t, d, tasks'[d])
    BY <1>3, CascadedTasks
  <2>6. u \in tasks[d].deps /\ u \in Tasks
    BY <1>0, <2>0, <2>2 DEF Freed
  <2>3. Freed(ts, t, d, tasks'[d]) /\ Freed(ts, t, u, tasks'[u])
    BY <1>3, <2>6, CascadedTasks
  <2> HIDE DEF ts
  <2>4. Unresolved(ts, tasks[d].deps) = {}
    BY <2>2, <2>3 DEF Freed
  <2>5. IsTerminal(ts[u])
    BY <2>4, <2>6 DEF Unresolved
  <2> QED BY <2>3, <2>5 DEF Freed
<1>4. CASE QuietFlow
  BY <1>0, <1>4 DEF QuietFlow
<1>5. CASE RemoveOwner
  BY <1>5 DEF Overrides
<1>6. CASE Restart
  BY <1>6, RestartedTasks DEF TaskInv
<1> QED BY <1>1, <1>2, <1>3, <1>4, <1>5, <1>6 DEF Flow

\* A cascade, a ResumeTask or a restart frees a waiting task only when every
\* upstream task is over, and a plan that names the task again only when every
\* upstream task it names is.
THEOREM DependentsStartAfter == Spec => UpstreamFirst
<1>1. TaskInv /\ [Next]_vars =>
        [\A d \in Tasks :
           tasks[d].wait /\ ~tasks'[d].blocked /\ ~Overrides(d) =>
             \A u \in tasks'[d].deps : IsTerminal(tasks'[u])]_vars
  BY UpstreamStep
<1> QED BY <1>1, TaskInvariant, PTL DEF Spec, UpstreamFirst

-----------------------------------------------------------------------------
(* No dependent is left behind *)

\* A cascade of one of deps is to be run, or was cut off by a crash.
Pending(c, gone, deps) ==
  (c.pc = "cascade" /\ c.t \in deps) \/ gone \intersect deps # {}
\* Whoever waits in ts has an open upstream or such a cascade.
Served(ts, c, gone) ==
  \A d \in Tasks : ts[d].wait =>
    Unresolved(ts, ts[d].deps) # {} \/ Pending(c, gone, ts[d].deps)
\* NoOrphans alone is not inductive: a restart brings the file's tasks back, so
\* the same must hold of them.
OrphanInv == Served(tasks, call, lost) /\ Served(disk, call, lost)

\* A cascade to be run stays to be run.
LEMMA StillPending ==
  ASSUME CallGoesOn, NEW deps, Pending(call, lost, deps)
  PROVE  Pending(call', lost', deps)
BY DEF CallGoesOn, Pending

\* Ending a task outside a cascade leaves one to be run.
LEMMA EditServes ==
  ASSUME TaskInv, OrphanInv, NEW t \in Tasks, NEW l \in Task, EditFlow(t, l)
  PROVE  OrphanInv'
<1>1. \A x \in Tasks : tasks'[x] = IF x = t THEN l ELSE tasks[x]
  BY DEF EditFlow, TaskInv, All
<1>2. CallGoesOn
  BY DEF EditFlow
<1>3. ASSUME NEW d \in Tasks, tasks'[d].wait
      PROVE  \/ Unresolved(tasks', tasks'[d].deps) # {}
             \/ Pending(call', lost', tasks'[d].deps)
  <2>1. CASE d = t /\ ~Inherits(t, l)
    <3>1. ~IsTerminal(l) /\ Unresolved(tasks, l.deps) # {}
      BY <2>1 DEF EditFlow
    <3>2. PICK u \in l.deps : ~IsTerminal(tasks[u])
      BY <3>1 DEF Unresolved
    <3>3. u \in Tasks /\ ~IsTerminal(tasks'[u])
      BY <1>1, <3>1, <3>2 DEF Task
    <3> QED BY <1>1, <2>1, <3>2, <3>3 DEF Unresolved
  <2>2. CASE d # t \/ Inherits(t, l)
    <3>1. tasks[d].wait /\ tasks'[d].deps = tasks[d].deps
      BY <1>1, <1>3, <2>2 DEF Inherits
    <3>2. CASE Pending(call, lost, tasks[d].deps)
      BY <1>2, <3>1, <3>2, StillPending
    <3>3. CASE Unresolved(tasks, tasks[d].deps) # {}
      <4>1. PICK u \in tasks[d].deps : ~IsTerminal(tasks[u])
        BY <3>3 DEF Unresolved
      <4>2. u \in Tasks
        BY DEF TaskInv, All, Task
      <4>3. CASE IsTerminal(tasks'[u])
        <5>1. u = t /\ call'.pc = "cascade" /\ call'.t = t
          BY <1>1, <4>1, <4>2, <4>3 DEF EditFlow
        <5> QED BY <3>1, <4>1, <5>1 DEF Pending
      <4>4. CASE ~IsTerminal(tasks'[u])
        BY <3>1, <4>1, <4>4 DEF Unresolved
      <4> QED BY <4>3, <4>4
    <3> QED BY <3>1, <3>2, <3>3 DEF OrphanInv, Served
  <2> QED BY <2>1, <2>2
<1>4. Served(tasks', call', lost')
  BY <1>3 DEF Served
<1>5. Served(disk, call', lost')
  BY <1>2, StillPending DEF OrphanInv, Served
<1> QED BY <1>4, <1>5 DEF OrphanInv, EditFlow

\* A cascade leaves no dependent of its task behind.
LEMMA CascadeServes ==
  ASSUME TaskInv, OrphanInv, NEW t \in Tasks, NEW l \in Task, CascadeFlow(t, l)
  PROVE  OrphanInv'
<1> DEFINE ts == [tasks EXCEPT ![t] = l]
<1>1. \A x \in Tasks : ts[x] = IF x = t THEN l ELSE tasks[x]
  BY DEF TaskInv, All
<1>2. \A x \in Tasks : Freed(ts, t, x, tasks'[x])
  BY CascadedTasks
<1>3. All(ts)
  BY CascadedTasks
<1> HIDE DEF ts
<1>4. \A x \in Tasks : IsTerminal(tasks'[x]) <=> IsTerminal(ts[x])
  BY <1>2 DEF Freed
<1>5. ASSUME NEW d \in Tasks, tasks'[d].wait
      PROVE  \/ Unresolved(tasks', tasks'[d].deps) # {}
             \/ Pending(call', lost', tasks'[d].deps)
  <2>1. /\ ts[d].wait /\ tasks'[d].deps = ts[d].deps /\ ts[d].deps \subseteq Tasks
        /\ t \in ts[d].deps /\ IsTerminal(ts[t]) =>
             Unresolved(ts, ts[d].deps) # {}
    BY <1>2, <1>3, <1>5 DEF Freed, All, Task
  <2>2. tasks[d].wait /\ ts[d].deps = tasks[d].deps
    BY <1>1, <2>1 DEF CascadeFlow, Inherits
  <2>3. CASE Unresolved(ts, ts[d].deps) # {}
    <3>1. PICK u \in ts[d].deps : ~IsTerminal(ts[u])
      BY <2>3 DEF Unresolved
    <3>2. ~IsTerminal(tasks'[u])
      BY <1>4, <2>1, <3>1
    <3> QED BY <2>1, <3>1, <3>2 DEF Unresolved
  <2>4. t \in ts[d].deps => Unresolved(ts, ts[d].deps) # {}
    BY <2>1 DEF Unresolved
  <2>5. CASE Unresolved(tasks, tasks[d].deps) # {} /\ t \notin ts[d].deps
    <3>1. PICK u \in tasks[d].deps : ~IsTerminal(tasks[u])
      BY <2>5 DEF Unresolved
    <3>2. ~IsTerminal(ts[u])
      BY <1>1, <2>1, <2>2, <2>5, <3>1
    <3>3. Unresolved(ts, ts[d].deps) # {}
      BY <2>2, <3>1, <3>2 DEF Unresolved
    <3> QED BY <2>3, <3>3
  <2>6. CASE Pending(call, lost, tasks[d].deps) /\ t \notin ts[d].deps
    BY <2>1, <2>2, <2>6 DEF CascadeFlow, Pending
  <2> QED BY <2>2, <2>3, <2>4, <2>5, <2>6 DEF OrphanInv, Served
<1>6. Served(tasks', call', lost')
  BY <1>5 DEF Served
<1> QED BY <1>6 DEF OrphanInv, CascadeFlow

\* So do the other flows.
LEMMA OrphanStep ==
  TaskInv /\ OrphanInv /\ [Next]_vars => OrphanInv'
<1> SUFFICES ASSUME TaskInv, OrphanInv, [Next]_vars PROVE OrphanInv'
  OBVIOUS
<1>1. Flow
  BY StepFlows
<1>2. CASE QuietFlow
  <2>1. Served(tasks, call', lost') /\ Served(disk, call', lost')
    BY <1>2, StillPending DEF QuietFlow, OrphanInv, Served
  <2> QED BY <1>2, <2>1 DEF QuietFlow, OrphanInv
<1>3. CASE RemoveOwner
  <2>1. /\ disk' = tasks' /\ call' = call /\ lost' = lost
        /\ \A t \in Tasks :
              \/ tasks'[t] = tasks[t]
              \/ ~IsTerminal(tasks'[t]) /\ ~tasks'[t].wait
    BY <1>3, RemovedTasks
  <2>2. ASSUME NEW d \in Tasks, tasks'[d].wait
        PROVE  \/ Unresolved(tasks', tasks'[d].deps) # {}
               \/ Pending(call, lost, tasks'[d].deps)
    <3>1. tasks'[d] = tasks[d]
      BY <2>1, <2>2
    <3>2. CASE Unresolved(tasks, tasks[d].deps) # {}
      <4>1. PICK u \in tasks[d].deps : ~IsTerminal(tasks[u])
        BY <3>2 DEF Unresolved
      <4>2. u \in Tasks
        BY DEF TaskInv, All, Task
      <4>3. ~IsTerminal(tasks'[u])
        BY <2>1, <4>1, <4>2
      <4> QED BY <3>1, <4>1, <4>3 DEF Unresolved
    <3> QED BY <2>2, <3>1, <3>2 DEF OrphanInv, Served
  <2> QED BY <2>1, <2>2 DEF OrphanInv, Served
<1>4. CASE Restart
  <2>1. /\ disk' = disk
        /\ \A deps : Pending(call, lost, deps) => Pending(call', lost', deps)
    BY <1>4 DEF Restart, Pending
  <2>2. Served(disk, call', lost')
    BY <2>1 DEF OrphanInv, Served
  <2>3. \A t \in Tasks :
          /\ IsTerminal(tasks'[t]) <=> IsTerminal(disk[t])
          /\ tasks'[t].deps = disk[t].deps /\ tasks'[t].wait = disk[t].wait
    BY <1>4, RestartedTasks
  <2>4. \A d \in Tasks : disk[d].deps \subseteq Tasks
    BY DEF TaskInv, All, Task
  <2>5. \A d \in Tasks :
          Unresolved(disk, disk[d].deps) = Unresolved(tasks', tasks'[d].deps)
    BY <2>3, <2>4 DEF Unresolved
  <2>6. Served(tasks', call', lost')
    BY <2>2, <2>3, <2>5 DEF Served
  <2> QED BY <2>1, <2>2, <2>6 DEF OrphanInv
<1> QED BY <1>1, <1>2, <1>3, <1>4, EditServes, CascadeServes DEF Flow

\* No dependent is left behind by unblockDependentsLocked or by a decision
\* whose cascade runs in a second critical section, unless a crash came between.
THEOREM DependentsAreServed == Spec => []NoOrphans
<1>1. Init => OrphanInv
  <2> SUFFICES ASSUME Init PROVE OrphanInv
    OBVIOUS
  <2>1. ~NoTask.wait
    BY DEF NoTask
  <2>2. disk = tasks /\ \A d \in Tasks : ~tasks[d].wait
    BY <2>1 DEF Init
  <2> QED BY <2>2 DEF OrphanInv, Served
<1>2. TaskInv /\ OrphanInv => NoOrphans
  <2> SUFFICES ASSUME OrphanInv, NEW d \in Tasks, tasks[d].wait
               PROVE  \/ \E u \in tasks[d].deps : ~IsTerminal(tasks[u])
                      \/ call.pc = "cascade" /\ call.t \in tasks[d].deps
                      \/ lost \intersect tasks[d].deps # {}
    BY DEF NoOrphans
  <2>1. \/ Unresolved(tasks, tasks[d].deps) # {}
        \/ Pending(call, lost, tasks[d].deps)
    BY DEF OrphanInv, Served
  <2>2. CASE Unresolved(tasks, tasks[d].deps) # {}
    BY <2>2 DEF Unresolved
  <2>3. CASE Pending(call, lost, tasks[d].deps)
    BY <2>3 DEF Pending
  <2> QED BY <2>1, <2>2, <2>3
<1> QED BY <1>1, <1>2, OrphanStep, TaskInvariant, PTL DEF Spec
================================================================================
