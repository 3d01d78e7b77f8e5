------------------------------- MODULE CardView -------------------------------
(***************************************************************************)
(* What a card shows, as a function of the issue's row, its sessions and    *)
(* what the assembler has in memory.  Sessions are in the order in which    *)
(* they were started; the code reads them newest first.                     *)
(***************************************************************************)
EXTENDS Integers, Sequences, FiniteSetsExt

Columns == {"todo", "plan", "in_progress", "blocked", "review", "done"}
Modes   == {"plan", "execute"}
States  == {"running", "waiting", "paused", "blocked", "failed", "completed", "needs_pr"}

SessionRows == [mode : Modes, state : States, reason : BOOLEAN, cause : BOOLEAN, acked : BOOLEAN]
Plans == {"none", "ready", "approved"}

\* file: the question file of the paused session is on disk.
Cards == [column : Columns, pr : BOOLEAN, pool : BOOLEAN, needsPR : BOOLEAN, plan : Plans,
          tests : BOOLEAN, conflicts : BOOLEAN, retry : BOOLEAN, dep : BOOLEAN, file : BOOLEAN]

NoSession == 0
Newest(ids) == IF ids = {} THEN NoSession ELSE Max(ids)
In(ss, states) == {i \in DOMAIN ss : ss[i].state \in states}

-----------------------------------------------------------------------------
\* selectSessions

Active(card, ss) == IF card.column = "done" THEN NoSession ELSE Newest(In(ss, {"running", "waiting"}))
Paused(ss)       == Newest(In(ss, {"paused"}))
LastSession(ss)  == Newest(In(ss, {"completed", "failed", "blocked"}))

\* Mutation: a session that was killed without a word is no failure.
FailuresWithReason(ss) == {i \in In(ss, {"failed", "blocked"}) : ss[i].reason /\ ~ss[i].acked}

Failures(ss) == {i \in In(ss, {"failed", "blocked"}) : (ss[i].reason \/ ss[i].cause) /\ ~ss[i].acked}

LastFailure(card, ss) ==
  IF card.column \in {"review", "done"} \/ Newest(In(ss, {"completed"})) > Newest(Failures(ss))
  THEN NoSession ELSE Newest(Failures(ss))

\* derivePlanFailed
PlanFailed(card, ss) ==
  LET ofPlan(states) == {i \in In(ss, states) : ss[i].mode = "plan"}
      failed == Newest({i \in ofPlan({"failed"}) : ~ss[i].reason /\ ~ss[i].acked})
      active == Active(card, ss)
  IN /\ card.column \notin {"review", "done"}
     /\ ~(active # NoSession /\ ss[active].mode = "plan")
     /\ failed > Newest(ofPlan({"completed"}))

\* derivedColumn
DerivedColumn(card, ss) ==
  LET active == Active(card, ss)
      failed == LastFailure(card, ss)
  IN CASE card.pr -> card.column
       [] ~card.pr /\ active # NoSession
            -> IF ss[active].mode = "plan" THEN "plan" ELSE "in_progress"
       [] ~card.pr /\ active = NoSession /\ failed # NoSession /\ ss[failed].mode = "execute" -> "blocked"
       [] OTHER -> IF card.plan = "ready" THEN "plan" ELSE card.column

-----------------------------------------------------------------------------
\* DeriveCardState: the first rung whose condition holds.
Ladder(card, ss) ==
  LET column == DerivedColumn(card, ss)
      active == Active(card, ss)
      doing(state) == active # NoSession /\ ss[active].state = state
      failed == LastFailure(card, ss) # NoSession
  IN << <<column = "done", "done">>,
        <<Paused(ss) # NoSession /\ ~card.file, "orphan_question">>,
        <<Paused(ss) # NoSession, "plan_ready">>,
        <<doing("waiting"), "needs_answer">>,
        <<doing("running") /\ ss[active].mode = "plan", "planning">>,
        <<doing("running"), "in_progress">>,
        <<card.pool, "waiting_for_pool">>,
        <<card.needsPR /\ ~card.pr, "needs_pr">>,
        <<card.conflicts /\ card.pr, "merge_conflict">>,
        <<card.tests /\ card.pr, "tests_failing">>,
        <<failed /\ card.retry, "retry_scheduled">>,
        <<failed, "blocked">>,
        <<PlanFailed(card, ss), "plan_failed">>,
        <<card.plan = "ready" /\ column # "review", "plan_ready">>,
        <<card.dep /\ column = "review", "waiting_for_dep">>,
        <<column = "review" /\ card.pr, "review">>,
        <<TRUE, "todo">> >>

CardState(card, ss) ==
  LET l == Ladder(card, ss) IN l[Min({n \in DOMAIN l : l[n][1]})][2]

\* AcknowledgeLatestFailure: the newest failure that is not acknowledged, whether it
\* has anything to say or not.
Acknowledged(ss) ==
  LET s == Newest({i \in In(ss, {"failed", "blocked"}) : ~ss[i].acked})
  IN IF s = NoSession THEN ss ELSE [ss EXCEPT ![s].acked = TRUE]

\* TerminateOrphanPausedSession: the newest paused session, whichever question it is about.
OrphanTerminated(ss) ==
  LET s == Newest({i \in In(ss, {"paused"}) : ~ss[i].acked})
  IN IF s = NoSession THEN ss
     ELSE [ss EXCEPT ![s].state = "failed", ![s].reason = TRUE, ![s].acked = TRUE]
===============================================================================
