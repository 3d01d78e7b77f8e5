------------------------------- MODULE Attempts -------------------------------
(***************************************************************************)
(* The execute workers of one card: the plan is approved, a worker is       *)
(* started, fails and is tried again by the scheduler or the user, or asks  *)
(* a question in mid-run and is resumed with the answer.  Whether a pool    *)
(* has a free slot is up to the other cards, so any try for one may be      *)
(* refused.                                                                 *)
(***************************************************************************)
EXTENDS CardView, SequencesExt

CONSTANTS MaxSessions,  \* bound: execute sessions of the card
          MaxAsks,      \* bound: buttons pressed, files removed
          MaxFaults,    \* bound: spawns that fail for reasons of their own, and restarts
          Cap           \* retries that the policy allows

ASSUME AttemptsAssumption ==
  /\ MaxSessions \in Nat \ {0} /\ {MaxAsks, MaxFaults, Cap} \subseteq Nat

Ids     == 1..MaxSessions
Callers == {"user", "retry", "answer"}
Idle    == [pc |-> "idle", of |-> NoSession]
NoRetry == [of |-> NoSession, due |-> FALSE]

VARIABLES column, approved, pr, queued, \* the issue's row, its plan, its row in the spawn queue
          ss,              \* session rows
          live,            \* session manager: [Ids -> "none", or the state it has registered]
          asking,          \* rows with a pending_question_id
          files, answers,  \* question files and answer files on disk, by session
          op,              \* [Callers -> what the call does next, and for which session]
          pending, fires,  \* scheduler: the retry that waits, those dispatched
          shown, bus,      \* assembler: the retry it shows; retry events not handled yet
          answered, orphaned, \* watcher: sessions it has fired for
          finished,        \* history: workers that said they were done
          resumed,         \* history: [Ids -> workers started with the answer]
          retried,         \* history: retries dispatched
          lost, crossed,   \* history: see NeverBlank and BadgeGoes
          asked, faults

row     == <<column, approved, pr, queued>>
watcher == <<answered, orphaned>>
sched   == <<pending, fires, retried>>
badge   == <<shown, bus, crossed>>
bounds  == <<asked, faults>>
disk    == <<files, answers>>
vars    == <<row, ss, live, asking, disk, op, sched, badge, watcher, finished, resumed, lost, bounds>>

Ask   == asked < MaxAsks /\ asked' = asked + 1 /\ UNCHANGED faults
Fault == faults < MaxFaults /\ faults' = faults + 1 /\ UNCHANGED asked

\* The card as CardView sees it.
Card ==
  [column |-> column, pr |-> pr, pool |-> queued, needsPR |-> FALSE,
   plan |-> IF approved THEN "approved" ELSE "ready", tests |-> FALSE, conflicts |-> FALSE,
   retry |-> shown # NoSession, dep |-> FALSE,
   file |-> Paused(ss) \in files]

-----------------------------------------------------------------------------
\* spawnWithDir: one worker at a time, and a paused one counts until it has exited.
Guarded == \E s \in Ids : live[s] \in {"running", "paused"}

Worker == [mode |-> "execute", state |-> "running", reason |-> FALSE, cause |-> FALSE, acked |-> FALSE]

Started ==
  /\ ~Guarded /\ Len(ss) < MaxSessions
  /\ ss' = Append(ss, Worker)
  /\ live' = [live EXCEPT ![Len(ss) + 1] = "running"]

\* A spawn is refused because of a worker that is there, or fails for its own reasons.
Refused == (Guarded /\ UNCHANGED bounds) \/ (~Guarded /\ Fault)

Goto(c, pc) == op' = [op EXCEPT ![c].pc = pc]
Return(c)   == op' = [op EXCEPT ![c] = Idle]

-----------------------------------------------------------------------------
\* ApprovePlan, RetryExecuteForApprovedPlan.

ApprovePlan ==
  /\ op["user"] = Idle /\ column = "plan" /\ ~approved
  /\ approved' = TRUE /\ column' = "in_progress"
  /\ Goto("user", "approve")
  /\ UNCHANGED <<pr, queued, ss, live, asking, disk, sched, badge, watcher, finished, resumed, lost, bounds>>

RetryExecute ==
  /\ Ask /\ op["user"] = Idle /\ approved
  /\ Goto("user", "acquire")
  /\ UNCHANGED <<row, ss, live, asking, disk, sched, badge, watcher, finished, resumed, lost>>

\* doAutoRetry
AutoRetry ==
  /\ op["retry"] = Idle /\ \E s \in fires : fires' = fires \ {s}
  /\ Goto("retry", "acquire")
  /\ UNCHANGED <<row, ss, live, asking, disk, pending, retried, badge, watcher, finished, resumed, lost, bounds>>

\* A call that gets no slot leaves a row in the queue.
Acquire(c) ==
  /\ \/ op[c].pc = "approve" /\ Goto(c, "start") /\ UNCHANGED <<column, queued>>
     \/ op[c].pc = "acquire" /\ column' = "in_progress" /\ Goto(c, "spawn") /\ UNCHANGED queued
     \/ op[c].pc \in {"approve", "acquire"} /\ queued' = TRUE /\ Return(c) /\ UNCHANGED column
  /\ UNCHANGED <<approved, pr, ss, live, asking, disk, sched, badge, watcher, finished, resumed, lost, bounds>>

SpawnExecute(c) ==
  /\ op[c].pc \in {"start", "spawn"}
  /\ Started
  /\ IF op[c].pc = "spawn" THEN Goto(c, "clear") ELSE Return(c)
  /\ UNCHANGED <<row, asking, disk, sched, badge, watcher, finished, resumed, lost, bounds>>

\* handleSpawnExecuteFailure
SpawnFails(c) ==
  /\ op[c].pc \in {"start", "spawn"} /\ Refused
  /\ column' = "plan" /\ Return(c)
  /\ UNCHANGED <<approved, pr, queued, ss, live, asking, disk, sched, badge, watcher, finished, resumed, lost>>

ClearReason(c) ==
  /\ op[c].pc = "clear" /\ Return(c)
  /\ UNCHANGED <<row, ss, live, asking, disk, sched, badge, watcher, finished, resumed, lost, bounds>>

\* The queue is drained: a spawn that fails takes the card back to PLAN and leaves the row.
Drain ==
  /\ queued
  /\ \/ Started /\ queued' = FALSE /\ column' = "in_progress" /\ UNCHANGED bounds
     \/ Refused /\ column' = "plan" /\ UNCHANGED <<queued, ss, live>>
  /\ UNCHANGED <<approved, pr, asking, disk, op, sched, badge, watcher, finished, resumed, lost>>

-----------------------------------------------------------------------------
\* The worker.

OpenPR(s) ==
  /\ live[s] = "running" /\ ~pr
  /\ pr' = TRUE /\ column' = "review"
  /\ UNCHANGED <<approved, queued, ss, live, asking, disk, op, sched, badge, watcher, finished, resumed, lost, bounds>>

\* QUESTION_PENDING: the row is saved with the question, and the worker is to exit.
AskQuestion(s) ==
  /\ live[s] = "running" /\ s \notin files
  /\ live' = [live EXCEPT ![s] = "paused"] /\ ss' = [ss EXCEPT ![s].state = "paused"]
  /\ asking' = asking \cup {s} /\ files' = files \cup {s}
  /\ UNCHANGED <<row, answers, op, sched, badge, watcher, finished, resumed, lost, bounds>>

\* A paused worker exits: its row is written with the state that the manager has in memory.
PausedExits(s) ==
  /\ live[s] = "paused" /\ live' = [live EXCEPT ![s] = "none"]
  /\ ss' = [ss EXCEPT ![s].state = "paused"]
  /\ lost' = (lost \/ ss[s].state # "paused")
  /\ UNCHANGED <<row, asking, disk, op, sched, badge, watcher, finished, resumed, bounds>>

Completes(s) ==
  /\ live[s] = "running" /\ live' = [live EXCEPT ![s] = "none"]
  /\ ss' = [ss EXCEPT ![s].state = "completed"] /\ finished' = finished \cup {s}
  /\ UNCHANGED <<row, asking, disk, op, sched, badge, watcher, resumed, lost, bounds>>

\* Schedule: nothing if a retry waits.  The attempt is one more than the session's
\* RetryAttempt, which is 0 in every session; so the cap is compared with 1.
RetryAttempt(s) == 0

Scheduled(s) ==
  IF pending = NoRetry /\ RetryAttempt(s) + 1 <= Cap
  THEN pending' = [of |-> s, due |-> FALSE] /\ bus' = Append(bus, [type |-> "scheduled", of |-> s])
  ELSE UNCHANGED <<pending, bus>>

\* handleSessionStateChange.  A failure may be for good (IsRetryable).
Fails(s) ==
  /\ live[s] = "running" /\ live' = [live EXCEPT ![s] = "none"]
  /\ \E blocked \in BOOLEAN :
       ss' = [ss EXCEPT ![s].state = IF blocked THEN "blocked" ELSE "failed",
                        ![s].reason = blocked, ![s].cause = TRUE]
  /\ column' = IF pr THEN "review" ELSE column
  /\ \/ Scheduled(s)
     \/ UNCHANGED <<pending, bus>>
  /\ UNCHANGED <<approved, pr, queued, asking, disk, op, fires, retried, shown, crossed, watcher,
                 finished, resumed, lost, bounds>>

-----------------------------------------------------------------------------
\* The retry scheduler.

Elapse ==
  /\ pending # NoRetry /\ ~pending.due /\ pending' = [pending EXCEPT !.due = TRUE]
  /\ UNCHANGED <<row, ss, live, asking, disk, op, fires, retried, badge, watcher, finished, resumed, lost, bounds>>

Dispatched ==
  /\ pending' = NoRetry /\ fires' = fires \cup {pending.of} /\ retried' = retried + 1
  /\ bus' = Append(bus, [type |-> "fired", of |-> pending.of])
  /\ UNCHANGED <<row, ss, live, asking, disk, op, shown, crossed, watcher, finished, resumed, lost>>

Tick    == pending.due /\ Dispatched /\ UNCHANGED bounds
FireNow == Ask /\ pending # NoRetry /\ Dispatched

Cancel ==
  /\ Ask /\ pending # NoRetry /\ pending' = NoRetry
  /\ bus' = Append(bus, [type |-> "cancelled", of |-> pending.of])
  /\ UNCHANGED <<row, ss, live, asking, disk, op, fires, retried, shown, crossed, watcher, finished, resumed, lost>>

\* Mutation: a retry that is cancelled stays on the card.
BadgeKept(e) == CASE e.type = "scheduled" -> e.of
                  [] e.type = "fired" -> NoSession
                  [] OTHER -> shown

Badge(e) == IF e.type = "scheduled" THEN e.of ELSE NoSession

\* Assembler.handleEvent
Deliver(n) ==
  /\ n \in DOMAIN bus /\ shown' = Badge(bus[n]) /\ bus' = RemoveAt(bus, n)
  /\ crossed' = (crossed \/ n > 1)
  /\ UNCHANGED <<row, ss, live, asking, disk, op, sched, watcher, finished, resumed, lost, bounds>>

\* ClearIssueFailure
ClearFailure ==
  /\ Ask /\ ss' = Acknowledged(ss) /\ ss' # ss
  /\ UNCHANGED <<row, live, asking, disk, op, sched, badge, watcher, finished, resumed, lost>>

-----------------------------------------------------------------------------
\* The answer watcher, and what its callback does.

\* The user, or an architect, writes the answer.
SubmitMidRunAnswer(s) ==
  /\ s \in files \ answers /\ answers' = answers \cup {s}
  /\ UNCHANGED <<row, ss, live, asking, files, op, sched, badge, watcher, finished, resumed, lost, bounds>>

RemoveQuestion(s) ==
  /\ Ask /\ s \in files /\ files' = files \ {s}
  /\ UNCHANGED <<row, ss, live, asking, answers, op, sched, badge, watcher, finished, resumed, lost>>

\* Mutation: the question file has to be there too.
WaitingWithFile(s) == s \in DOMAIN ss \cap files /\ ss[s].state = "paused" /\ s \in asking

\* ListPausedForQuestionSessions
Waiting(s) == s \in DOMAIN ss /\ ss[s].state = "paused" /\ s \in asking

TickAnswer(s) ==
  /\ op["answer"] = Idle /\ Waiting(s) /\ s \in answers \ answered
  /\ answered' = answered \cup {s}
  /\ op' = [op EXCEPT !["answer"] = [pc |-> "unpend", of |-> s]]
  /\ UNCHANGED <<row, ss, live, asking, disk, sched, badge, orphaned, finished, resumed, lost, bounds>>

\* Mutation: the row keeps its question.
Unasked(s) == asking

StillAsking(s) == asking \ {s}

Unpend ==
  /\ op["answer"].pc = "unpend" /\ asking' = StillAsking(op["answer"].of)
  /\ Goto("answer", "seal")
  /\ UNCHANGED <<row, ss, live, disk, sched, badge, watcher, finished, resumed, lost, bounds>>

Seal ==
  /\ op["answer"].pc = "seal" /\ ss' = [ss EXCEPT ![op["answer"].of].state = "completed"]
  /\ Goto("answer", "resume")
  /\ UNCHANGED <<row, live, asking, disk, sched, badge, watcher, finished, resumed, lost, bounds>>

Resume ==
  /\ op["answer"].pc = "resume" /\ Started
  /\ resumed' = [resumed EXCEPT ![op["answer"].of] = @ + 1] /\ Return("answer")
  /\ UNCHANGED <<row, asking, disk, sched, badge, watcher, finished, lost, bounds>>

\* No pool, or no spawn: the question has been taken off the row, and nobody tries again.
ResumeFails ==
  /\ op["answer"].pc = "resume" /\ Return("answer") /\ lost' = TRUE
  /\ UNCHANGED <<row, ss, live, asking, disk, sched, badge, watcher, finished, resumed, bounds>>

\* handleOrphanQuestion, when the file has been missing for a minute.
RecoverOrphan(s) ==
  /\ op["answer"] = Idle /\ Waiting(s) /\ s \notin files \cup answers \cup orphaned
  /\ orphaned' = orphaned \cup {s} /\ ss' = OrphanTerminated(ss) /\ lost' = TRUE
  /\ UNCHANGED <<row, live, asking, disk, op, sched, badge, answered, finished, resumed, bounds>>

-----------------------------------------------------------------------------
\* What only memory holds is gone; a worker that has died meanwhile is found to have failed.
Restart ==
  /\ Fault
  /\ \E dead \in SUBSET {s \in Ids : live[s] = "running"} :
       /\ ss' = [s \in DOMAIN ss |-> IF s \in dead
                                     THEN [ss[s] EXCEPT !.state = "failed", !.cause = TRUE] ELSE ss[s]]
       /\ live' = [s \in Ids |-> IF live[s] = "running" /\ s \notin dead THEN "running" ELSE "none"]
  /\ op' = [c \in Callers |-> Idle] /\ lost' = (lost \/ op # op')
  /\ pending' = NoRetry /\ fires' = {} /\ bus' = <<>> /\ shown' = NoSession
  /\ answered' = {} /\ orphaned' = {}
  /\ UNCHANGED <<row, asking, disk, retried, crossed, finished, resumed>>
-----------------------------------------------------------------------------
Init ==
  /\ column = "plan" /\ approved = FALSE /\ pr = FALSE /\ queued = FALSE
  /\ ss = <<>> /\ live = [s \in Ids |-> "none"]
  /\ asking = {} /\ files = {} /\ answers = {}
  /\ op = [c \in Callers |-> Idle]
  /\ pending = NoRetry /\ fires = {} /\ retried = 0
  /\ shown = NoSession /\ bus = <<>> /\ crossed = FALSE
  /\ answered = {} /\ orphaned = {} /\ finished = {}
  /\ resumed = [s \in Ids |-> 0] /\ lost = FALSE
  /\ asked = 0 /\ faults = 0

Calls == (\E c \in Callers : Acquire(c) \/ SpawnExecute(c) \/ SpawnFails(c) \/ ClearReason(c)) \/ AutoRetry
Watch == (\E s \in Ids : TickAnswer(s) \/ RecoverOrphan(s)) \/ Unpend \/ Seal \/ Resume \/ ResumeFails
Timer == Elapse \/ Tick \/ \E n \in DOMAIN bus : Deliver(n)

Next ==
  \/ Calls \/ Watch \/ Timer \/ Drain \/ Restart
  \/ ApprovePlan \/ RetryExecute \/ FireNow \/ Cancel \/ ClearFailure
  \/ \E s \in Ids : \/ OpenPR(s) \/ AskQuestion(s) \/ PausedExits(s) \/ Completes(s) \/ Fails(s)
                    \/ SubmitMidRunAnswer(s) \/ RemoveQuestion(s)

Spec == Init /\ [][Next]_vars

\* Goroutines run, and the watcher and the scheduler tick.
FairSpec == Spec /\ WF_vars(Calls) /\ WF_vars(Watch) /\ WF_vars(Timer)
-----------------------------------------------------------------------------
\* Type invariant.
TypeOK ==
  /\ column \in Columns /\ {approved, pr, queued, lost, crossed} \subseteq BOOLEAN
  /\ ss \in Seq(SessionRows) /\ Len(ss) <= MaxSessions
  /\ live \in [Ids -> {"none", "running", "paused"}]
  /\ \A s \in Ids : live[s] # "none" => s \in DOMAIN ss
  /\ asking \cup files \cup answers \cup answered \cup orphaned \cup finished \cup fires \subseteq DOMAIN ss
  /\ \A c \in Callers :
       op[c] \in [pc : {"idle", "approve", "acquire", "start", "spawn", "clear", "unpend", "seal", "resume"},
                  of : Ids \cup {NoSession}]
  /\ {shown, pending.of} \subseteq Ids \cup {NoSession} /\ resumed \in [Ids -> Nat] /\ retried \in Nat

AtRest == \A c \in Callers : op[c] = Idle
Latest == Len(ss)

\* A card in IN_PROGRESS always shows why: a worker, a question, a failure or the queue
\* (DeriveCardState), unless its worker said it was done, the user has cleared the
\* failure, or the code has lost the work: an answer that could not be used, a question
\* that disappeared, a restart in the middle of a call.
NeverBlank ==
  (column = "in_progress" /\ AtRest /\ ~lost)
    => \/ CardState(Card, ss) # "todo"
       \/ Latest > 0 /\ (Latest \in finished \/ ss[Latest].acked)

\* An answer that a worker has been started with is not taken up again, though the
\* watcher forgets at a restart what it has fired for and the exit of the paused worker
\* writes the row again (AnswerWatcher.Tick, handleMidRunAnswerArrived); and whatever is
\* tried at once -- a retry, an answer, an approval, an orphan's recovery -- one session at
\* most has a process (spawnWithDir).
ResumedOnce ==
  /\ op["answer"] # Idle => resumed[op["answer"].of] = 0
  /\ \A s, t \in Ids : (live[s] # "none" /\ live[t] # "none") => s = t

\* A question that is answered while its session waits gets its worker, unless lost.
AnsweredResumes ==
  \A s \in Ids : (s \in answers \cap asking /\ ss[s].state = "paused")
                   ~> (resumed[s] > 0 \/ lost \/ Len(ss) = MaxSessions)

\* The countdown of a retry goes off the card once the retry has been fired or
\* cancelled, unless its events have overtaken each other.
BadgeGoes == (shown # NoSession /\ pending = NoRetry)
               ~> (shown = NoSession \/ pending # NoRetry \/ crossed)

\* app.go:4297-4298: the scheduler has already enforced the cap.
CapEnforced == retried <= Cap

\* app.go:3752-3753: once the question is answered, the new session is the source of truth.
AnswerNotLost == op["answer"].pc = "idle" /\ answered # {} => \A s \in answered : resumed[s] > 0

\* app.go:4209: a failed spawn undoes the move to IN_PROGRESS that was made for it, so no
\* card goes back to PLAN while its worker runs.
RunningInProgress == (\E s \in Ids : live[s] = "running") => column # "plan"
===============================================================================
