-------------------------------- MODULE PlanDesk --------------------------------
(***************************************************************************)
(* The plans of one issue: planners write files and announce them, the       *)
(* conductor takes them over as rows, the user answers their questions, asks *)
(* for another plan, approves one or rejects it, and an execute worker runs  *)
(* it.  A plan file and its row carry the number of the planner that wrote   *)
(* them, which stands for their text.                                        *)
(***************************************************************************)
EXTENDS Naturals, FiniteSetsExt

CONSTANTS MaxRev,   \* bound: revisions
          MaxRuns,  \* bound: planners
          MaxWorks, \* bound: execute workers
          Rejects,  \* the conductor may refuse a plan that it reads
          Replays   \* a restart may hear the announcement of a plan again

PlanDeskAssumption ==
  /\ {MaxRev, MaxRuns, MaxWorks} \subseteq Nat \ {0} /\ {Rejects, Replays} \subseteq BOOLEAN

Revs == 1..MaxRev

VARIABLES
  files,    \* rev -> the planner whose plan file it is, 0: none
  answers,  \* the revisions with an answers file
  rows,     \* rev -> [run, approved]: the plans table
  runs,     \* planners so far
  planner,  \* the live plan session: [run, at, rev]
  sess,     \* planner -> the state of its session row
  acked,    \* planners whose failure is acknowledged
  column,
  approval, \* a call that starts a worker: [at, rev, run, by]
  queued,   \* requests in pending_pool_for: "plan", "work"
  work,     \* the live execute session: [rev, run, by]
  works,    \* execute workers so far
  consents, \* history: [rev, run] the user has approved
  taken     \* history: [rev, run] of the answers that were accepted, and their planner

plans    == <<files, answers, rows>>
sessions == <<runs, planner, sess, acked>>
vars     == <<plans, sessions, column, approval, queued, work, works, consents, taken>>

NoPlanner  == [run |-> 0, at |-> "none", rev |-> 0]
NoApproval == [at |-> "none", rev |-> 0, run |-> 0, by |-> "none"]
NoWork     == [rev |-> 0, run |-> 0, by |-> "none"]

Stored == {r \in Revs : rows[r].run # 0}

\* LatestPlan
Latest == Max(Stored)

-----------------------------------------------------------------------------
\* Starting a planner.

\* hasActivePlanSession, and the guard of the session manager, which outlasts it.
Active == planner.at \notin {"none", "killed"}
Taken  == planner.at # "none"

Start ==
  /\ runs < MaxRuns /\ ~Taken
  /\ runs' = runs + 1
  /\ planner' = [run |-> runs', at |-> "started", rev |-> 0]
  /\ sess' = [sess EXCEPT ![runs'] = "running"]

\* No plan pool is free, or the planner does not start.
NoStart == UNCHANGED <<runs, planner, sess>>

Failed == {n \in 1..MaxRuns \ acked : sess[n] \in {"failed", "blocked"}}

\* AcknowledgeLatestFailure: that of an execute worker may be the latest.
Acknowledge ==
  \/ acked' = IF Failed = {} THEN acked ELSE acked \cup {Max(Failed)}
  \/ works > 0 /\ acked' = acked

\* HasRecentFailedPlanSession: the last session that is not acknowledged has failed,
\* if it has not long been over.
RecentlyFailed ==
  LET seen == {n \in 1..MaxRuns \ acked' : sess[n] # "none"}
  IN  seen # {} /\ sess[Max(seen)] \in {"failed", "blocked"}

\* A card is dragged to PLAN.
DragToPlan ==
  /\ Acknowledge
  /\ \/ /\ Active \/ Stored # {} \/ RecentlyFailed
        /\ NoStart /\ column' = "plan" /\ UNCHANGED queued
     \/ /\ ~Active /\ Stored = {}
        /\ \/ Start /\ column' = "plan" /\ UNCHANGED queued
           \/ NoStart /\ column' = "plan" /\ queued' = queued \cup {"plan"}
           \/ NoStart /\ column' = "todo" /\ UNCHANGED queued
  /\ UNCHANGED <<plans, approval, work, works, consents, taken>>

\* The drain's spawn callback.
DrainPlan ==
  /\ "plan" \in queued /\ Start /\ queued' = queued \ {"plan"}
  /\ UNCHANGED <<plans, acked, column, approval, work, works, consents, taken>>

\* Replan, SpawnPlanForIssue
Replan ==
  /\ ~Active /\ Start
  /\ UNCHANGED <<plans, acked, column, approval, queued, work, works, consents, taken>>

\* ReplanForce: the kill is a signal, and the session is still there when the new
\* one is asked for, unless it has gone by itself.
ReplanForce ==
  /\ \/ Active /\ planner' = [planner EXCEPT !.at = "killed"] /\ UNCHANGED <<runs, sess>>
     \/ ~Active /\ Start
  /\ UNCHANGED <<plans, acked, column, approval, queued, work, works, consents, taken>>

WriteAnswersOnly(r) ==
  /\ r \in Stored /\ answers' = answers \cup {r}
  /\ UNCHANGED <<files, rows, sessions, column, approval, queued, work, works, consents, taken>>

\* Mutation: the answers are written when the planner has been started.
SubmitAnswersLate(r) ==
  /\ r \in Stored /\ Start
  /\ \E written \in BOOLEAN : answers' = IF written THEN answers \cup {r} ELSE answers
  /\ taken' = taken \cup {[rev |-> r, run |-> runs']}
  /\ UNCHANGED <<files, rows, acked, column, approval, queued, work, works, consents>>

\* The answers are written, whether or not the planner then starts.
SubmitAnswers(r) ==
  /\ r \in Stored /\ answers' = answers \cup {r}
  /\ \/ Start /\ taken' = taken \cup {[rev |-> r, run |-> runs']}
     \/ NoStart /\ UNCHANGED taken
  /\ UNCHANGED <<files, rows, acked, column, approval, queued, work, works, consents>>
-----------------------------------------------------------------------------
\* The planner, by its skill, and what the conductor makes of its announcement.

\* The revision after the last one that has answers.
NextRev == 1 + Max({0} \cup answers)

ReadAnswers ==
  /\ planner.at = "started" /\ NextRev \in Revs
  /\ planner' = [planner EXCEPT !.at = "writing", !.rev = NextRev]
  /\ UNCHANGED <<plans, runs, sess, acked, column, approval, queued, work, works, consents, taken>>

WritePlan ==
  /\ planner.at = "writing"
  /\ files' = [files EXCEPT ![planner.rev] = planner.run]
  /\ planner' = [planner EXCEPT !.at = "said"]
  /\ UNCHANGED <<answers, rows, runs, sess, acked, column, approval, queued, work, works, consents, taken>>

\* handlePlanReady up to SavePlan.
Ingested(r) == rows' = [rows EXCEPT ![r] = [run |-> files[r], approved |-> FALSE]]

Ingest ==
  /\ planner.at = "said"
  /\ \/ Ingested(planner.rev) /\ planner' = [planner EXCEPT !.at = "stored"] /\ UNCHANGED sess
     \/ Rejects /\ sess' = [sess EXCEPT ![planner.run] = "blocked"] /\ planner' = [planner EXCEPT !.at = "rest"] /\ UNCHANGED rows
  /\ UNCHANGED <<files, answers, runs, acked, column, approval, queued, work, works, consents, taken>>

\* The rest of it.
ShowPlan ==
  /\ planner.at = "stored" /\ planner' = [planner EXCEPT !.at = "rest"] /\ column' = "plan"
  /\ UNCHANGED <<plans, runs, sess, acked, approval, queued, work, works, consents, taken>>

\* The tail loop's final state.
PlannerEnds ==
  /\ planner.at = "rest" /\ planner' = NoPlanner
  /\ sess' = [sess EXCEPT ![planner.run] = "completed"]
  /\ UNCHANGED <<plans, runs, acked, column, approval, queued, work, works, consents, taken>>

PlannerFails ==
  /\ planner.at \in {"started", "writing", "killed"}
  /\ planner' = NoPlanner
  /\ sess' = [sess EXCEPT ![planner.run] = "failed"]
  /\ UNCHANGED <<plans, runs, acked, column, approval, queued, work, works, consents, taken>>

\* After a restart the line is read again.
HearAgain(r) ==
  /\ Replays /\ planner.at = "none" /\ r \in Stored
  /\ Ingested(r) /\ column' = "plan"
  /\ UNCHANGED <<files, answers, sessions, approval, queued, work, works, consents, taken>>
-----------------------------------------------------------------------------
\* Approval and the execute worker.

\* GetPlan: the row is copied.
Approve(r) ==
  /\ approval = NoApproval /\ r \in Stored
  /\ approval' = [at |-> "read", rev |-> r, run |-> rows[r].run, by |-> "user"]
  /\ consents' = consents \cup {[rev |-> r, run |-> rows[r].run]}
  /\ UNCHANGED <<plans, sessions, column, queued, work, works, taken>>

\* SavePlan writes the copy back.
SaveApproved ==
  /\ approval.at = "read"
  /\ rows' = [rows EXCEPT ![approval.rev] = [run |-> approval.run, approved |-> TRUE]]
  /\ column' = "in_progress" /\ approval' = [approval EXCEPT !.at = "spawn"]
  /\ UNCHANGED <<files, answers, sessions, queued, work, works, consents, taken>>

\* Mutation: the last plan is run whether or not it is approved.
RetryAnyPlan ==
  /\ approval = NoApproval /\ Stored # {}
  /\ approval' = [at |-> "spawn", rev |-> Latest, run |-> rows[Latest].run, by |-> "retry"]
  /\ UNCHANGED <<plans, sessions, column, queued, work, works, consents, taken>>

\* RetryExecuteForApprovedPlan, of the user or of the retry scheduler.
RetryExecute ==
  /\ approval = NoApproval /\ Stored # {} /\ rows[Latest].approved
  /\ approval' = [at |-> "spawn", rev |-> Latest, run |-> rows[Latest].run, by |-> "retry"]
  /\ UNCHANGED <<plans, sessions, column, queued, work, works, consents, taken>>

\* No work pool is free.
Enqueue ==
  /\ approval.at = "spawn" /\ approval' = NoApproval /\ queued' = queued \cup {"work"}
  /\ UNCHANGED <<plans, sessions, column, work, works, consents, taken>>

\* The worker reads the file of the revision.
Works(r, asked) ==
  /\ works < MaxWorks /\ work = NoWork /\ files[r] # 0
  /\ works' = works + 1 /\ work' = [rev |-> r, run |-> files[r], by |-> asked]

SpawnExecute ==
  /\ approval.at = "spawn" /\ approval' = NoApproval
  /\ \/ Works(approval.rev, approval.by) /\ column' = "in_progress"
     \/ UNCHANGED <<work, works>> /\ column' = "plan"
  /\ UNCHANGED <<plans, sessions, queued, consents, taken>>

\* The drain takes the last plan there is.
DrainWork ==
  /\ "work" \in queued /\ Stored # {}
  /\ queued' = queued \ {"work"} /\ column' = "in_progress" /\ Works(Latest, "drain")
  /\ UNCHANGED <<plans, sessions, approval, consents, taken>>

WorkEnds ==
  /\ work # NoWork /\ work' = NoWork
  /\ UNCHANGED <<plans, sessions, column, approval, queued, works, consents, taken>>

RejectPlan ==
  /\ column' = "todo"
  /\ UNCHANGED <<plans, sessions, approval, queued, work, works, consents, taken>>
-----------------------------------------------------------------------------
Init ==
  /\ files = [r \in Revs |-> 0] /\ answers = {}
  /\ rows = [r \in Revs |-> [run |-> 0, approved |-> FALSE]]
  /\ runs = 0 /\ planner = NoPlanner
  /\ sess = [n \in 1..MaxRuns |-> "none"] /\ acked = {} /\ column = "todo"
  /\ approval = NoApproval /\ queued = {} /\ work = NoWork /\ works = 0
  /\ consents = {} /\ taken = {}

Planner == ReadAnswers \/ WritePlan \/ Ingest \/ ShowPlan \/ PlannerEnds

Next ==
  \/ DragToPlan \/ DrainPlan \/ Replan \/ ReplanForce \/ RejectPlan
  \/ \E r \in Revs : WriteAnswersOnly(r) \/ SubmitAnswers(r) \/ HearAgain(r) \/ Approve(r)
  \/ Planner \/ PlannerFails
  \/ SaveApproved \/ RetryExecute \/ Enqueue \/ SpawnExecute
  \/ DrainWork \/ WorkEnds

Spec == Init /\ [][Next]_vars
-----------------------------------------------------------------------------
TypeOK ==
  /\ files \in [Revs -> 0..MaxRuns] /\ answers \subseteq Revs
  /\ rows \in [Revs -> [run : 0..MaxRuns, approved : BOOLEAN]]
  /\ runs \in 0..MaxRuns /\ works \in 0..MaxWorks
  /\ sess \in [1..MaxRuns -> {"none", "running", "blocked", "completed", "failed"}] /\ acked \subseteq 1..runs
  /\ column \in {"todo", "plan", "in_progress"}
  /\ approval.at \in {"none", "read", "spawn"} /\ queued \subseteq {"plan", "work"}

\* A worker that a retry starts runs a revision the user has approved
\* (RetryExecuteForApprovedPlan, app.go:4228-4247), through every new plan, revision and
\* approval that comes in between.
ApprovedOnlyRuns ==
  work.by \in {"user", "retry"} => \E c \in consents : c.rev = work.rev

\* The plan of a planner that was started for answers is a later revision than the one
\* that was answered: it has read them, and it replaces no plan the user has seen
\* questions of (SubmitAnswers, app.go:4101-4123; conductor-plan.md:146).
AnswersTaken ==
  \A t \in taken, r \in Revs : rows[r].run = t.run => r > t.rev

\* conductor-execute.md:18: the drain, too, starts an approved plan.
DrainedWasApproved == work.by = "drain" => \E c \in consents : c.rev = work.rev

\* The worker reads the text that the user has approved.
ReadWhatIsApproved ==
  work.by = "user" => [rev |-> work.rev, run |-> work.run] \in consents

\* ApprovePlan: an approval is not taken back by an announcement that is heard again.
ApprovalKept == [][\A r \in Revs : rows[r].approved => rows'[r].approved \/ rows'[r].run # rows[r].run]_vars

\* ApprovePlan writes back the plan that is in the table.
NoPlanLost == [][\A r \in Revs : rows'[r].run >= rows[r].run]_vars

\* app.go:2025-2028: a card that has a plan gets no planner but by the Re-plan button.
DragHoldsBack == [][planner.at = "none" /\ planner' # planner /\ queued' # queued => Stored = {}]_vars

\* app.go:2034-2040: nor does one whose last plan run has just failed.
FailureHoldsBack ==
  [][column # "plan" /\ column' = "plan" /\ runs' > runs => (runs > 0 => sess[runs] \notin {"failed", "blocked"} \/ runs \in acked)]_vars

\* app.go:5008-5014: the session of a plan that was refused ends as blocked.
RefusalShown == [][planner.at = "rest" /\ planner'.at = "none" => sess'[planner.run] = sess[planner.run] \/ sess[planner.run] = "running"]_vars

\* ReplanForce cancels the planner and starts a fresh one.
ForceStarts == [][planner.at # "killed" /\ planner'.at = "killed" => runs' > runs]_vars
===============================================================================
