---------------------------- MODULE AttemptsProofs ----------------------------
(***************************************************************************)
(* The execute workers of a card, however many sessions, buttons, faults and *)
(* retries there are.                                                        *)
(*                                                                           *)
(* One worker.  A worker is started when no session has a process; so one at *)
(* most has, and a row whose process runs says so (Rows, Workers).           *)
(* One answer.  A session whose answer is being used has a row, does not run *)
(* and, once its question is off the row, asks no more; only such a session  *)
(* is resumed, and the watcher takes up none that does not ask (Answering,   *)
(* Resumes).                                                                 *)
(* No blank card.  In IN_PROGRESS without a session there is a call under    *)
(* way or a row in the queue, and a last session that is completed said so   *)
(* itself or is being resumed (Explained); any other last session stands on  *)
(* a rung of the ladder above the last, and the first rung that holds is not *)
(* below it (Rungs, FirstRung, Shows).                                       *)
(***************************************************************************)
EXTENDS Attempts, WellFoundedInduction, TLAPS

-----------------------------------------------------------------------------
\* Rows and workers: a worker that runs has a row that says so, and one at most has a process.
Rows ==
  /\ ss \in Seq(SessionRows) /\ Len(ss) <= MaxSessions
  /\ \A s \in DOMAIN ss :
       /\ ss[s].state \in {"running", "paused", "blocked", "failed", "completed"}
       /\ ss[s].state \in {"blocked", "failed"} => ss[s].cause \/ ss[s].acked

Workers ==
  /\ live \in [Ids -> {"none", "running", "paused"}]
  /\ \A s \in Ids : live[s] # "none" => s \in DOMAIN ss
  /\ \A s \in Ids : live[s] = "running" => ss[s].state = "running"
  /\ \A s, t \in Ids : (live[s] # "none" /\ live[t] # "none") => s = t

\* The calls that the answer watcher makes are its own.
CallsOf(c) == IF c = "answer" THEN {"idle", "unpend", "seal", "resume"}
              ELSE {"idle", "approve", "acquire", "start", "spawn", "clear"}

CallRecords ==
  [pc : {"idle", "approve", "acquire", "start", "spawn", "clear", "unpend", "seal", "resume"},
   of : Ids \cup {NoSession}]

Callings ==
  /\ op \in [Callers -> CallRecords]
  /\ \A c \in Callers : op[c].pc \in CallsOf(c) /\ (op[c].pc = "idle" => op[c] = Idle)
  /\ \A c \in Callers : op[c].pc = "clear" => Len(ss) > 0

\* A session whose answer is being used has not been resumed, does not run and, once that is
\* noted, asks no longer.
Answering ==
  op["answer"] # Idle =>
    /\ op["answer"].of \in DOMAIN ss
    /\ live[op["answer"].of] # "running"
    /\ resumed[op["answer"].of] = 0
    /\ op["answer"].pc # "unpend" => op["answer"].of \notin asking

\* A resumed session is over: it neither asks nor runs.
Resumes ==
  /\ resumed \in [Ids -> Nat]
  /\ \A s \in Ids : resumed[s] > 0 => s \in DOMAIN ss /\ s \notin asking /\ live[s] # "running"

\* What a card in IN_PROGRESS waits for: a call under way, the queue or its last session.
Explained ==
  ~lost =>
    /\ column = "in_progress" /\ ss = <<>> => queued \/ \E c \in Callers : op[c] # Idle
    /\ ss # <<>> /\ ss[Len(ss)].state = "completed" =>
         Len(ss) \in finished \/ op["answer"] = [pc |-> "resume", of |-> Len(ss)]

AttemptInv ==
  lost \in BOOLEAN /\ Rows /\ Workers /\ Callings /\ Answering /\ Resumes /\ Explained

-----------------------------------------------------------------------------
\* Sequences and rows

LEMMA Replaced ==
  ASSUME NEW S, NEW s \in Seq(S), NEW i \in DOMAIN s, NEW r \in S, NEW t, t = [s EXCEPT ![i] = r]
  PROVE  /\ t \in Seq(S) /\ Len(t) = Len(s) /\ DOMAIN t = DOMAIN s /\ t[i] = r
         /\ \A j \in DOMAIN s : j # i => t[j] = s[j]
OBVIOUS

LEMMA Added ==
  ASSUME NEW S, NEW s \in Seq(S), NEW r \in S, NEW t, t = Append(s, r)
  PROVE  /\ t \in Seq(S) /\ Len(t) = Len(s) + 1 /\ DOMAIN t = 1..(Len(s) + 1) /\ t[Len(s) + 1] = r
         /\ \A j \in DOMAIN s : j \in DOMAIN t /\ t[j] = s[j]
         /\ Len(s) \in Nat /\ DOMAIN s = 1..Len(s)
OBVIOUS

LEMMA IdsNumbered == MaxSessions \in Nat \ {0} /\ Ids \subseteq Nat \ {0} /\ NoSession \notin Ids
BY AttemptsAssumption DEF Ids, NoSession

\* Rows of sessions as numbers.
LEMMA RowsNumbered ==
  ASSUME Rows
  PROVE  /\ DOMAIN ss = 1..Len(ss) /\ Len(ss) \in Nat /\ Len(ss) <= MaxSessions /\ DOMAIN ss \subseteq Ids
         /\ \A s \in DOMAIN ss : ss[s] \in SessionRows
         /\ ss # <<>> => Len(ss) \in DOMAIN ss /\ Len(ss) > 0
         /\ Len(ss) > 0 => ss # <<>>
<1>1. ss \in Seq(SessionRows) /\ Len(ss) <= MaxSessions
  BY DEF Rows
<1>2. PICK s \in Seq(SessionRows) : s = ss
  BY <1>1
<1>3. /\ DOMAIN s = 1..Len(s) /\ Len(s) \in Nat /\ \A i \in DOMAIN s : s[i] \in SessionRows
      /\ s # <<>> => Len(s) \in 1..Len(s) /\ Len(s) > 0
      /\ Len(s) > 0 => s # <<>>
  OBVIOUS
<1>4. 1..Len(ss) \subseteq Ids
  BY <1>1, <1>2, <1>3, IdsNumbered DEF Ids
<1> QED BY <1>1, <1>2, <1>3, <1>4

RowOK(r) ==
  /\ r.state \in {"running", "paused", "blocked", "failed", "completed"}
  /\ r.state \in {"blocked", "failed"} => r.cause \/ r.acked

\* A row is written anew.
LEMMA Rewritten ==
  ASSUME Rows, NEW s \in DOMAIN ss, NEW r \in SessionRows, RowOK(r), ss' = [ss EXCEPT ![s] = r]
  PROVE  /\ Rows' /\ Len(ss') = Len(ss) /\ DOMAIN ss' = DOMAIN ss /\ ss'[s] = r
         /\ \A j \in DOMAIN ss : j # s => ss'[j] = ss[j]
         /\ (ss' = <<>>) = (ss = <<>>)
<1>1. ss \in Seq(SessionRows) /\ Len(ss) <= MaxSessions
  BY DEF Rows
<1>2. PICK u, t : u = ss /\ t = ss'
  OBVIOUS
<1>3. u \in Seq(SessionRows) /\ t = [u EXCEPT ![s] = r] /\ s \in DOMAIN u
  BY <1>1, <1>2
<1>4. /\ t \in Seq(SessionRows) /\ Len(t) = Len(u) /\ DOMAIN t = DOMAIN u /\ t[s] = r
      /\ \A j \in DOMAIN u : j # s => t[j] = u[j]
  BY <1>3, Replaced
<1>5. (t = <<>>) = (u = <<>>)
  BY <1>3, <1>4
<1>6. \A j \in DOMAIN ss : RowOK(ss'[j])
  BY <1>2, <1>4 DEF Rows, RowOK
<1> QED BY <1>1, <1>2, <1>4, <1>5, <1>6 DEF Rows, RowOK

\* A worker is started: the only one, with a row of its own at the end.
LEMMA Spawned ==
  ASSUME Rows, Workers, Started
  PROVE  /\ Rows' /\ Workers' /\ Len(ss') = Len(ss) + 1 /\ ss' # <<>> /\ ss'[Len(ss')].state = "running"
         /\ \A s \in DOMAIN ss : s \in DOMAIN ss' /\ live[s] = "none" /\ live'[s] = "none"
         /\ \A s \in Ids : live[s] = "none"
<1> DEFINE n == Len(ss) + 1
<1>1. /\ \A s \in Ids : live[s] = "none"
      /\ Len(ss) < MaxSessions /\ ss' = Append(ss, Worker) /\ live' = [live EXCEPT ![n] = "running"]
      /\ live \in [Ids -> {"none", "running", "paused"}]
  BY DEF Started, Guarded, Workers
<1>2. Worker \in SessionRows /\ RowOK(Worker) /\ Worker.state = "running"
  BY DEF Worker, SessionRows, Modes, States, RowOK
<1>3. n \in Ids /\ n \in Nat /\ n > 0
  BY <1>1, RowsNumbered, IdsNumbered DEF Ids
<1>4. ss \in Seq(SessionRows)
  BY DEF Rows
<1>5. PICK u, t, w : u = ss /\ t = ss' /\ w = Worker
  OBVIOUS
<1>6. u \in Seq(SessionRows) /\ w \in SessionRows /\ t = Append(u, w)
  BY <1>1, <1>2, <1>4, <1>5
<1>7. /\ t \in Seq(SessionRows) /\ Len(t) = Len(u) + 1 /\ DOMAIN t = 1..(Len(u) + 1) /\ t[Len(u) + 1] = w
      /\ \A j \in DOMAIN u : j \in DOMAIN t /\ t[j] = u[j]
      /\ Len(u) \in Nat /\ DOMAIN u = 1..Len(u)
  BY <1>6, Added
<1>8. \A j \in DOMAIN ss' : RowOK(ss'[j])
  <2>1. \A j \in DOMAIN t : j \in DOMAIN u \/ j = Len(u) + 1
    BY <1>7
  <2> QED BY <1>2, <1>5, <1>7, <2>1 DEF Rows, RowOK
<1>9. Rows'
  BY IdsNumbered, <1>1, <1>5, <1>7, <1>8 DEF Rows, RowOK
<1>10. /\ live' \in [Ids -> {"none", "running", "paused"}] /\ live'[n] = "running"
       /\ \A s \in Ids : s # n => live'[s] = "none"
  BY <1>1, <1>3
<1>11. n \in DOMAIN ss' /\ ss'[n] = Worker /\ Len(ss') = n
  BY <1>3, <1>5, <1>7
<1>12. Workers'
  BY <1>2, <1>10, <1>11 DEF Workers
<1>13. ss' # <<>>
  BY <1>5, <1>7
<1>14. \A s \in DOMAIN ss : s \in DOMAIN ss' /\ s # n /\ s \in Ids
  BY <1>5, <1>7, RowsNumbered
<1> QED BY <1>1, <1>2, <1>9, <1>10, <1>11, <1>12, <1>13, <1>14

-----------------------------------------------------------------------------
\* Calls

\* A call goes on, or returns.
LEMMA Called ==
  ASSUME Callings, NEW c \in Callers,
         NEW r \in CallRecords,
         r.pc \in CallsOf(c), r.pc = "idle" => r = Idle, op' = [op EXCEPT ![c] = r],
         Len(ss') >= Len(ss), r.pc = "clear" => Len(ss') > 0, Len(ss) \in Nat, Len(ss') \in Nat
  PROVE  /\ Callings' /\ op'[c] = r /\ \A d \in Callers : d # c => op'[d] = op[d]
<1>1. /\ op' \in [Callers -> CallRecords]
      /\ op'[c] = r /\ \A d \in Callers : d # c => op'[d] = op[d]
  BY DEF Callings
<1>2. \A d \in Callers : op'[d].pc \in CallsOf(d) /\ (op'[d].pc = "idle" => op'[d] = Idle)
  BY <1>1 DEF Callings
<1>3. \A d \in Callers : op'[d].pc = "clear" => Len(ss') > 0
  BY <1>1 DEF Callings
<1> QED BY <1>1, <1>2, <1>3 DEF Callings

LEMMA Goes ==
  ASSUME Callings, NEW c \in Callers, NEW x \in CallsOf(c) \ {"idle"}, Goto(c, x)
  PROVE  \E r \in CallRecords :
           r.pc = x /\ r.of = op[c].of /\ r # Idle /\ op' = [op EXCEPT ![c] = r]
<1>1. op[c] \in CallRecords
  BY DEF Callings
<1>2. x \in {"approve", "acquire", "start", "spawn", "clear", "unpend", "seal", "resume"}
  BY DEF CallsOf
<1>3. PICK r : r = [op[c] EXCEPT !.pc = x]
  OBVIOUS
<1>4. r \in CallRecords /\ r.pc = x /\ r.of = op[c].of
  BY <1>1, <1>2, <1>3 DEF CallRecords
<1>5. op' = [op EXCEPT ![c] = r]
  BY <1>3 DEF Goto
<1>6. r # Idle
  BY <1>2, <1>4 DEF Idle
<1> QED BY <1>4, <1>5, <1>6

LEMMA IdleTyped ==
  /\ Idle \in CallRecords
  /\ Idle.pc = "idle" /\ \A c : "idle" \in CallsOf(c)
BY DEF Idle, CallsOf, CallRecords

\* Steps that leave sessions and calls alone.
LEMMA Aside ==
  ASSUME AttemptInv, UNCHANGED <<ss, live, op, asking, resumed, finished>>,
         lost' \in BOOLEAN, lost => lost',
         column' = "in_progress" => column = "in_progress", queued => queued'
  PROVE  AttemptInv'
BY DEF AttemptInv, Rows, Workers, Callings, Answering, Resumes, Explained

\* Steps of calls other than the watcher's that leave the sessions alone.
LEMMA CallMoves ==
  ASSUME AttemptInv, UNCHANGED <<ss, live, asking, resumed, finished, lost>>,
         NEW c \in Callers \ {"answer"},
         NEW r \in CallRecords,
         r.pc \in CallsOf(c) \ {"clear"}, r.pc = "idle" => r = Idle, op' = [op EXCEPT ![c] = r],
         column' = "in_progress" => column = "in_progress" \/ r # Idle,
         queued => queued',
         r = Idle => queued' \/ column' # "in_progress" \/ ss # <<>>
  PROVE  AttemptInv'
<1>0. lost \in BOOLEAN /\ Rows /\ Workers /\ Callings /\ Answering /\ Resumes /\ Explained
  BY DEF AttemptInv
<1>1. Rows' /\ Workers' /\ Resumes' /\ lost' \in BOOLEAN
  BY <1>0 DEF Rows, Workers, Resumes
<1>2. Len(ss) \in Nat /\ Len(ss') = Len(ss)
  BY <1>0, RowsNumbered
<1>3. Callings' /\ op'[c] = r /\ \A d \in Callers : d # c => op'[d] = op[d]
  <2>1. /\ Len(ss') >= Len(ss) /\ Len(ss') \in Nat /\ r.pc \in CallsOf(c) /\ r.pc # "clear"
        /\ c \in Callers
    BY <1>2
  <2> QED BY <1>0, <1>2, <2>1, Called
<1>4. "answer" \in Callers /\ op'["answer"] = op["answer"]
  BY <1>3 DEF Callers
<1>5. Answering'
  BY <1>0, <1>4 DEF Answering
<1>6. Explained'
  <2>1. ASSUME ~lost, column' = "in_progress", ss = <<>>
        PROVE  queued' \/ \E d \in Callers : op'[d] # Idle
    BY <1>0, <1>3, <2>1 DEF Explained
  <2>2. ASSUME ~lost, ss # <<>>, ss[Len(ss)].state = "completed"
        PROVE  Len(ss) \in finished \/ op'["answer"] = [pc |-> "resume", of |-> Len(ss)]
    BY <1>0, <1>4, <2>2 DEF Explained
  <2> QED BY <2>1, <2>2 DEF Explained
<1> QED BY <1>1, <1>3, <1>5, <1>6 DEF AttemptInv

-----------------------------------------------------------------------------
\* The calls of the user and of a retry.

LEMMA OpTyped ==
  ASSUME Callings, NEW c \in Callers
  PROVE  /\ op[c] \in CallRecords
         /\ op[c].pc \in CallsOf(c)
         /\ op[c].pc \in {"approve", "acquire", "start", "spawn", "clear"} => c \in Callers \ {"answer"}
         /\ op[c].pc \in {"unpend", "seal", "resume"} => c = "answer"
BY DEF Callings, CallsOf, Callers

LEMMA UserCalls ==
  ASSUME AttemptInv, ApprovePlan \/ RetryExecute \/ AutoRetry
  PROVE  AttemptInv'
<1>0. Callings /\ "user" \in Callers \ {"answer"} /\ "retry" \in Callers \ {"answer"}
  BY DEF AttemptInv, Callers
<1>1. PICK c \in {"user", "retry"}, x \in {"approve", "acquire"} : Goto(c, x)
  BY DEF ApprovePlan, RetryExecute, AutoRetry
<1>2. UNCHANGED <<ss, live, asking, resumed, finished, lost, queued>>
  BY DEF ApprovePlan, RetryExecute, AutoRetry, row
<1>3. x \in CallsOf(c) \ {"idle"} /\ x # "clear"
  BY DEF CallsOf
<1>4. PICK r \in CallRecords :
           r.pc = x /\ r # Idle /\ op' = [op EXCEPT ![c] = r]
  BY <1>0, <1>1, <1>3, Goes
<1> QED BY <1>0, <1>1, <1>2, <1>3, <1>4, CallMoves

LEMMA AcquireStep ==
  ASSUME AttemptInv, NEW c \in Callers, Acquire(c)
  PROVE  AttemptInv'
<1>0. /\ Callings /\ c \in Callers \ {"answer"}
      /\ queued => queued'
      /\ UNCHANGED <<ss, live, asking, resumed, finished, lost>>
  BY OpTyped DEF AttemptInv, Acquire
<1>1. CASE queued' = TRUE /\ Return(c) /\ UNCHANGED column
  <2>1. op' = [op EXCEPT ![c] = Idle]
    BY <1>1 DEF Return
  <2>2. Idle.pc \in CallsOf(c) \ {"clear"}
    BY IdleTyped
  <2> QED BY <1>0, <1>1, <2>1, <2>2, IdleTyped, CallMoves
<1>2. CASE \E x \in {"start", "spawn"} : Goto(c, x)
  <2>1. PICK x \in {"start", "spawn"} : Goto(c, x)
    BY <1>2
  <2>2. x \in CallsOf(c) \ {"idle"} /\ x # "clear"
    BY <1>0 DEF CallsOf
  <2>3. PICK r \in CallRecords :
             r.pc = x /\ r # Idle /\ op' = [op EXCEPT ![c] = r]
    BY <1>0, <2>1, <2>2, Goes
  <2>4. UNCHANGED queued \/ queued' = TRUE
    BY DEF Acquire
  <2> QED BY <1>0, <2>1, <2>2, <2>3, <2>4, CallMoves
<1> QED BY <1>1, <1>2 DEF Acquire

LEMMA CallEnds ==
  ASSUME AttemptInv, NEW c \in Callers, SpawnFails(c) \/ ClearReason(c)
  PROVE  AttemptInv'
<1>0. /\ Rows /\ Callings /\ c \in Callers \ {"answer"}
      /\ UNCHANGED <<ss, live, asking, resumed, finished, lost, queued>>
      /\ op' = [op EXCEPT ![c] = Idle]
  BY OpTyped DEF AttemptInv, SpawnFails, ClearReason, Return, row
<1>1. Idle.pc \in CallsOf(c) \ {"clear"}
  BY IdleTyped
<1>2. column' = "in_progress" => column = "in_progress" /\ ss # <<>>
  <2>1. CASE SpawnFails(c)
    BY <2>1 DEF SpawnFails
  <2>2. CASE ClearReason(c)
    <3>1. op[c].pc = "clear" /\ column' = column
      BY <2>2 DEF ClearReason, row
    <3> QED BY <1>0, <3>1, RowsNumbered DEF Callings
  <2> QED BY <2>1, <2>2
<1> QED BY <1>0, <1>1, <1>2, IdleTyped, CallMoves

-----------------------------------------------------------------------------
\* Workers that are started.

\* A start touches no session that was there.
LEMMA StartKeeps ==
  ASSUME AttemptInv, Started, UNCHANGED <<asking, finished>>, Callings',
         op'["answer"] = op["answer"] \/ op'["answer"] = Idle,
         \A s \in Ids : resumed'[s] > 0 => resumed[s] > 0 \/ (s \in DOMAIN ss /\ s \notin asking),
         resumed' \in [Ids -> Nat],
         op'["answer"] # Idle => resumed' = resumed,
         lost' = lost
  PROVE  AttemptInv'
<1>0. lost \in BOOLEAN /\ Rows /\ Workers /\ Callings /\ Answering /\ Resumes
  BY DEF AttemptInv
<1>1. /\ Rows' /\ Workers' /\ Len(ss') = Len(ss) + 1 /\ ss' # <<>> /\ ss'[Len(ss')].state = "running"
      /\ \A s \in DOMAIN ss : s \in DOMAIN ss' /\ live[s] = "none" /\ live'[s] = "none"
  BY <1>0, Spawned
<1>2. Answering'
  BY <1>0, <1>1 DEF Answering
<1>3. Resumes'
  BY <1>0, <1>1 DEF Resumes
<1>4. Explained'
  BY <1>1 DEF Explained
<1> QED BY <1>0, <1>1, <1>2, <1>3, <1>4 DEF AttemptInv

LEMMA SpawnStep ==
  ASSUME AttemptInv, NEW c \in Callers, SpawnExecute(c)
  PROVE  AttemptInv'
<1>0. /\ Rows /\ Workers /\ Callings /\ Resumes /\ c \in Callers \ {"answer"} /\ Started
      /\ UNCHANGED <<asking, resumed, finished, lost>>
      /\ Goto(c, "clear") \/ Return(c)
  BY OpTyped DEF AttemptInv, SpawnExecute
<1>1. Len(ss') = Len(ss) + 1 /\ Len(ss) \in Nat
  BY <1>0, Spawned, RowsNumbered
<1>2. PICK r \in CallRecords :
        r.pc \in CallsOf(c) /\ (r.pc = "idle" => r = Idle) /\ op' = [op EXCEPT ![c] = r]
  <2>1. CASE Goto(c, "clear")
    <3>1. "clear" \in CallsOf(c) \ {"idle"}
      BY <1>0 DEF CallsOf
    <3> QED BY <1>0, <2>1, <3>1, Goes
  <2>2. CASE Return(c)
    BY <2>2, IdleTyped DEF Return
  <2> QED BY <1>0, <2>1, <2>2
<1>3. /\ Callings' /\ \A d \in Callers : d # c => op'[d] = op[d]
  <2>1. Len(ss') >= Len(ss) /\ Len(ss') > 0 /\ Len(ss') \in Nat /\ c \in Callers
    BY <1>1
  <2> QED BY <1>0, <1>1, <1>2, <2>1, Called
<1>4. op'["answer"] = op["answer"]
  <2>1. "answer" \in Callers /\ "answer" # c
    BY <1>0 DEF Callers
  <2> QED BY <1>3, <2>1
<1>5. /\ resumed' \in [Ids -> Nat] /\ resumed' = resumed /\ lost' = lost
      /\ \A s \in Ids : resumed'[s] > 0 => resumed[s] > 0
  BY <1>0 DEF Resumes
<1>6. Callings' /\ Started /\ UNCHANGED <<asking, finished>>
  BY <1>0, <1>3
<1> QED BY <1>4, <1>5, <1>6, StartKeeps

LEMMA DrainStep ==
  ASSUME AttemptInv, Drain
  PROVE  AttemptInv'
<1>1. CASE Started
  <2>1. Rows /\ Workers /\ Callings /\ Resumes /\ UNCHANGED <<asking, op, resumed, finished, lost>>
    BY DEF AttemptInv, Drain
  <2>2. Len(ss') = Len(ss) + 1 /\ Len(ss) \in Nat
    BY <1>1, <2>1, Spawned, RowsNumbered
  <2>3. Callings'
    BY <2>1, <2>2 DEF Callings
  <2> QED BY <1>1, <2>1, <2>3, StartKeeps DEF Resumes
<1>2. CASE Refused /\ column' = "plan" /\ UNCHANGED <<queued, ss, live>>
  <2>1. lost' = lost /\ lost \in BOOLEAN /\ UNCHANGED <<ss, live, op, asking, resumed, finished, queued>>
    BY <1>2 DEF Drain, AttemptInv
  <2> QED BY <1>2, <2>1, Aside
<1> QED BY <1>1, <1>2 DEF Drain

\* A session is resumed that has not been, and that asks no longer.
LEMMA ResumeStep ==
  ASSUME AttemptInv, Resume
  PROVE  AttemptInv'
<1> DEFINE s == op["answer"].of
<1>0. /\ Rows /\ Workers /\ Callings /\ Answering /\ Resumes /\ op["answer"].pc = "resume" /\ Started
      /\ UNCHANGED <<asking, finished, lost>>
      /\ op' = [op EXCEPT !["answer"] = Idle] /\ resumed' = [resumed EXCEPT ![s] = @ + 1]
  BY DEF AttemptInv, Resume, Return
<1>1. Len(ss') = Len(ss) + 1 /\ Len(ss) \in Nat
  BY <1>0, Spawned, RowsNumbered
<1>2. Callings' /\ op'["answer"] = Idle
  <2>1. Len(ss') >= Len(ss) /\ Len(ss') \in Nat /\ "answer" \in Callers /\ Idle.pc # "clear"
    BY <1>1, IdleTyped DEF Callers
  <2>2. Idle.pc \in CallsOf("answer")
    BY IdleTyped
  <2> QED BY <1>0, <1>1, <2>1, <2>2, IdleTyped, Called
<1>3. s \in DOMAIN ss /\ s \notin asking /\ s \in Ids
  BY <1>0, RowsNumbered DEF Answering, Idle
<1>4. resumed' \in [Ids -> Nat]
  BY <1>0, <1>3 DEF Resumes
<1>5. \A t \in Ids : resumed'[t] > 0 => resumed[t] > 0 \/ (t \in DOMAIN ss /\ t \notin asking)
  BY <1>0, <1>3 DEF Resumes
<1> QED BY <1>0, <1>2, <1>4, <1>5, StartKeeps

-----------------------------------------------------------------------------
\* Sessions whose row changes.

\* A set of numbers that has an upper bound has a greatest member.
LEMMA GreatestMember ==
  ASSUME NEW n \in Nat, NEW S \in SUBSET (0..n), S # {}
  PROVE  \E m \in S : \A x \in S : m >= x
<1> DEFINE T == {x \in 0..n : n - x \in S}
<1>1. ASSUME NEW x \in S PROVE x \in 0..n /\ n - x \in 0..n /\ n - (n - x) = x
  <2>1. x \in 0..n
    OBVIOUS
  <2> QED BY <2>1
<1>2. T \subseteq Nat /\ T # {}
  <2>1. PICK x : x \in S
    OBVIOUS
  <2>2. n - x \in T
    BY <1>1, <2>1
  <2> QED BY <2>2
<1>3. PICK t \in T : \A y \in T : ~(<<y, t>> \in OpToRel(<, Nat))
  <2> HIDE DEF T
  <2> QED BY <1>2, NatLessThanWellFounded, WFMin
<1>4. \A y \in T : ~(y < t)
  BY <1>2, <1>3 DEF OpToRel
<1>5. n - t \in S /\ t \in 0..n
  OBVIOUS
<1>6. ASSUME NEW x \in S PROVE n - t >= x
  <2>1. n - x \in T
    BY <1>1
  <2> HIDE DEF T
  <2>2. ~(n - x < t)
    BY <1>4, <2>1
  <2> QED BY <1>1, <1>5, <2>2
<1> QED BY <1>5, <1>6

LEMMA NewestOf ==
  ASSUME NEW n \in Nat, NEW S \in SUBSET (1..n)
  PROVE  /\ S = {} => Newest(S) = NoSession
         /\ S # {} => Newest(S) \in S /\ Newest(S) # NoSession /\ \A x \in S : Newest(S) >= x
<1>1. CASE S = {}
  BY <1>1 DEF Newest
<1>2. CASE S # {}
  <2>1. S \in SUBSET (0..n)
    OBVIOUS
  <2>2. \E m \in S : \A x \in S : m >= x
    BY <1>2, <2>1, GreatestMember
  <2>3. Max(S) \in S /\ \A x \in S : Max(S) >= x
    BY <2>2 DEF Max
  <2>4. Newest(S) = Max(S)
    <3> HIDE DEF Max
    <3> QED BY <1>2 DEF Newest
  <2>5. 0 \notin S
    OBVIOUS
  <2> HIDE DEF Newest
  <2> QED BY <1>2, <2>3, <2>4, <2>5 DEF NoSession
<1> QED BY <1>1, <1>2

\* The row of one session changes, and with it perhaps its process ends.
LEMMA RowStep ==
  ASSUME AttemptInv, NEW s \in DOMAIN ss, NEW r \in SessionRows, RowOK(r), ss' = [ss EXCEPT ![s] = r],
         live' \in [Ids -> {"none", "running", "paused"}],
         \A t \in Ids : live'[t] # live[t] => t = s /\ live[t] # "none" /\ live'[t] # "running",
         live'[s] = "running" => r.state = "running",
         UNCHANGED resumed, asking' \subseteq asking \cup {s}, live[s] = "running" \/ asking' \subseteq asking
  PROVE  /\ Rows' /\ Workers' /\ Resumes' /\ DOMAIN ss' = DOMAIN ss /\ Len(ss') = Len(ss) /\ ss'[s] = r
         /\ \A j \in DOMAIN ss : j # s => ss'[j] = ss[j]
         /\ (ss' = <<>>) = (ss = <<>>)
<1>0. Rows /\ Workers /\ Resumes
  BY DEF AttemptInv
<1>1. /\ Rows' /\ Len(ss') = Len(ss) /\ DOMAIN ss' = DOMAIN ss /\ ss'[s] = r
      /\ \A j \in DOMAIN ss : j # s => ss'[j] = ss[j]
      /\ (ss' = <<>>) = (ss = <<>>)
  BY <1>0, Rewritten
<1>2. \A t \in Ids : live'[t] # "none" => live[t] # "none"
  BY <1>0 DEF Workers
<1>3. \A t \in Ids : live'[t] = "running" => ss'[t].state = "running"
  <2>1. ASSUME NEW t \in Ids, live'[t] = "running" PROVE ss'[t].state = "running"
    <3>1. live[t] = "running" /\ t \in DOMAIN ss
      BY <1>0, <2>1 DEF Workers
    <3> QED BY <1>0, <1>1, <2>1, <3>1 DEF Workers
  <2> QED BY <2>1
<1>4. Workers'
  BY <1>0, <1>1, <1>2, <1>3 DEF Workers
<1>5. Resumes'
  <2>1. ASSUME NEW t \in Ids, resumed[t] > 0
        PROVE  t \in DOMAIN ss' /\ t \notin asking' /\ live'[t] # "running"
    <3>1. t \in DOMAIN ss /\ t \notin asking /\ live[t] # "running"
      BY <1>0, <2>1 DEF Resumes
    <3> QED BY <1>1, <3>1
  <2> QED BY <1>0, <2>1 DEF Resumes
<1> QED BY <1>1, <1>4, <1>5

LEMMA SessionStep ==
  ASSUME AttemptInv, NEW s \in DOMAIN ss, NEW r \in SessionRows, RowOK(r), ss' = [ss EXCEPT ![s] = r],
         live' \in [Ids -> {"none", "running", "paused"}],
         \A t \in Ids : live'[t] # live[t] => t = s /\ live[t] # "none" /\ live'[t] # "running",
         live'[s] = "running" => r.state = "running",
         UNCHANGED <<resumed, op>>,
         asking' \subseteq asking \cup {s}, live[s] = "running" \/ asking' \subseteq asking,
         finished \subseteq finished', lost' \in BOOLEAN, lost => lost',
         column' = "in_progress" => column = "in_progress", queued => queued',
         lost' \/ (r.state = "completed" => s \in finished' \/ ss[s].state = "completed")
  PROVE  AttemptInv'
<1>0. Rows /\ Workers /\ Callings /\ Answering /\ Resumes /\ Explained
  BY DEF AttemptInv
<1>1. /\ Rows' /\ Workers' /\ Resumes' /\ DOMAIN ss' = DOMAIN ss /\ Len(ss') = Len(ss) /\ ss'[s] = r
      /\ \A j \in DOMAIN ss : j # s => ss'[j] = ss[j]
      /\ (ss' = <<>>) = (ss = <<>>)
  BY RowStep
<1>2. Callings'
  BY <1>0, <1>1 DEF Callings
<1>3. Answering'
  <2>1. ASSUME op["answer"] # Idle
        PROVE  LET t == op["answer"].of
               IN  /\ t \in DOMAIN ss' /\ live'[t] # "running"
                   /\ op["answer"].pc # "unpend" => t \notin asking'
    <3>1. PICK t : t = op["answer"].of
      OBVIOUS
    <3>2. t \in DOMAIN ss /\ live[t] # "running" /\ (op["answer"].pc # "unpend" => t \notin asking) /\ t \in Ids
      BY <1>0, <2>1, <3>1, RowsNumbered DEF Answering
    <3>3. live'[t] # "running"
      BY <3>2
    <3> QED BY <1>1, <3>1, <3>2, <3>3
  <2> QED BY <1>0, <2>1 DEF Answering
<1>4. Explained'
  <2>1. ASSUME ~lost', ss # <<>>, ss'[Len(ss)].state = "completed"
        PROVE  Len(ss) \in finished' \/ op["answer"] = [pc |-> "resume", of |-> Len(ss)]
    <3>1. Len(ss) \in DOMAIN ss
      BY <1>0, <2>1, RowsNumbered
    <3>2. CASE Len(ss) = s /\ s \in finished'
      BY <3>2
    <3>3. CASE Len(ss) # s \/ ss[s].state = "completed"
      <4>1. ss[Len(ss)].state = "completed"
        BY <1>1, <2>1, <3>1, <3>3
      <4> QED BY <1>0, <2>1, <4>1 DEF Explained
    <3> QED BY <1>1, <2>1, <3>2, <3>3
  <2>2. ASSUME ~lost', column' = "in_progress", ss = <<>>
        PROVE  queued' \/ \E c \in Callers : op[c] # Idle
    BY <1>0, <2>2 DEF Explained
  <2> QED BY <1>1, <2>1, <2>2 DEF Explained
<1> QED BY <1>1, <1>2, <1>3, <1>4 DEF AttemptInv

-----------------------------------------------------------------------------
\* What the worker does.

LEMMA StateWritten ==
  ASSUME Rows, NEW s \in DOMAIN ss, NEW x \in {"running", "paused", "completed"}
  PROVE  \E r \in SessionRows :
           RowOK(r) /\ r.state = x /\ [ss EXCEPT ![s].state = x] = [ss EXCEPT ![s] = r]
<1>1. ss[s] \in SessionRows
  BY RowsNumbered
<1>2. PICK r : r = [ss[s] EXCEPT !.state = x]
  OBVIOUS
<1>3. r \in SessionRows /\ r.state = x
  BY <1>1, <1>2 DEF SessionRows, States
<1>4. [ss EXCEPT ![s].state = x] = [ss EXCEPT ![s] = r]
  BY <1>2
<1> QED BY <1>3, <1>4 DEF RowOK

\* The worker has a row, and its end is the end of a process that was there.
LEMMA WorkerHasRow ==
  ASSUME AttemptInv, NEW s \in Ids, NEW x \in {"none", "paused"}, live[s] # "none",
         live' = [live EXCEPT ![s] = x]
  PROVE  /\ Rows /\ s \in DOMAIN ss /\ live' \in [Ids -> {"none", "running", "paused"}] /\ live'[s] = x
         /\ \A t \in Ids : live'[t] # live[t] => t = s /\ live[t] # "none" /\ live'[t] # "running"
         /\ live[s] = "running" => ss[s].state = "running"
         /\ lost \in BOOLEAN
BY DEF AttemptInv, Workers

LEMMA AskStep ==
  ASSUME AttemptInv, NEW s \in Ids, AskQuestion(s)
  PROVE  AttemptInv'
<1>1. /\ live' = [live EXCEPT ![s] = "paused"] /\ live[s] = "running" /\ live[s] # "none"
      /\ ss' = [ss EXCEPT ![s].state = "paused"]
      /\ asking' = asking \cup {s} /\ UNCHANGED <<resumed, op, finished, lost, column, queued>>
  BY DEF AskQuestion, row
<1>2. /\ Rows /\ s \in DOMAIN ss /\ live' \in [Ids -> {"none", "running", "paused"}] /\ live'[s] = "paused"
      /\ \A t \in Ids : live'[t] # live[t] => t = s /\ live[t] # "none" /\ live'[t] # "running"
      /\ lost \in BOOLEAN
  BY <1>1, WorkerHasRow
<1>3. PICK r \in SessionRows : RowOK(r) /\ r.state = "paused" /\ ss' = [ss EXCEPT ![s] = r]
  BY <1>1, <1>2, StateWritten
<1> QED BY <1>1, <1>2, <1>3, SessionStep

LEMMA PausedExitStep ==
  ASSUME AttemptInv, NEW s \in Ids, PausedExits(s)
  PROVE  AttemptInv'
<1>1. /\ live' = [live EXCEPT ![s] = "none"] /\ live[s] # "none"
      /\ ss' = [ss EXCEPT ![s].state = "paused"]
      /\ lost' = (lost \/ ss[s].state # "paused")
      /\ UNCHANGED <<resumed, op, asking, finished, column, queued>>
  BY DEF PausedExits, row
<1>2. /\ Rows /\ s \in DOMAIN ss /\ live' \in [Ids -> {"none", "running", "paused"}] /\ live'[s] = "none"
      /\ \A t \in Ids : live'[t] # live[t] => t = s /\ live[t] # "none" /\ live'[t] # "running"
      /\ lost \in BOOLEAN
  BY <1>1, WorkerHasRow
<1>3. PICK r \in SessionRows : RowOK(r) /\ r.state = "paused" /\ ss' = [ss EXCEPT ![s] = r]
  BY <1>1, <1>2, StateWritten
<1>4. lost' \in BOOLEAN /\ (lost => lost') /\ asking' \subseteq asking
  BY <1>1, <1>2
<1> QED BY <1>1, <1>2, <1>3, <1>4, SessionStep

LEMMA CompleteStep ==
  ASSUME AttemptInv, NEW s \in Ids, Completes(s)
  PROVE  AttemptInv'
<1>1. /\ live' = [live EXCEPT ![s] = "none"] /\ live[s] # "none"
      /\ ss' = [ss EXCEPT ![s].state = "completed"] /\ finished' = finished \cup {s}
      /\ UNCHANGED <<resumed, op, asking, lost, column, queued>>
  BY DEF Completes, row
<1>2. /\ Rows /\ s \in DOMAIN ss /\ live' \in [Ids -> {"none", "running", "paused"}] /\ live'[s] = "none"
      /\ \A t \in Ids : live'[t] # live[t] => t = s /\ live[t] # "none" /\ live'[t] # "running"
      /\ lost \in BOOLEAN
  BY <1>1, WorkerHasRow
<1>3. PICK r \in SessionRows : RowOK(r) /\ r.state = "completed" /\ ss' = [ss EXCEPT ![s] = r]
  BY <1>1, <1>2, StateWritten
<1>4. s \in finished' /\ finished \subseteq finished' /\ asking' \subseteq asking
  BY <1>1
<1> QED BY <1>1, <1>2, <1>3, <1>4, SessionStep

LEMMA FailStep ==
  ASSUME AttemptInv, NEW s \in Ids, Fails(s)
  PROVE  AttemptInv'
<1>1. /\ live' = [live EXCEPT ![s] = "none"] /\ live[s] # "none"
      /\ UNCHANGED <<resumed, op, asking, finished, lost, queued>>
      /\ column' = "in_progress" => column = "in_progress"
  BY DEF Fails
<1>2. /\ Rows /\ s \in DOMAIN ss /\ live' \in [Ids -> {"none", "running", "paused"}] /\ live'[s] = "none"
      /\ \A t \in Ids : live'[t] # live[t] => t = s /\ live[t] # "none" /\ live'[t] # "running"
      /\ lost \in BOOLEAN
  BY <1>1, WorkerHasRow
<1>3. PICK blocked \in BOOLEAN :
        ss' = [ss EXCEPT ![s].state = IF blocked THEN "blocked" ELSE "failed",
                         ![s].reason = blocked, ![s].cause = TRUE]
  BY DEF Fails
<1>4. ss[s] \in SessionRows
  BY <1>2, RowsNumbered
<1>5. PICK x \in {"blocked", "failed"} : x = IF blocked THEN "blocked" ELSE "failed"
  OBVIOUS
<1>6. PICK r : r = [ss[s] EXCEPT !.state = x, !.reason = blocked, !.cause = TRUE]
  OBVIOUS
<1>7. r \in SessionRows /\ r.state = x /\ r.cause = TRUE
  BY <1>4, <1>6 DEF SessionRows, States
<1>8. RowOK(r) /\ r.state # "completed"
  BY <1>7 DEF RowOK
<1>9. ss \in Seq(SessionRows)
  BY <1>2 DEF Rows
<1>10. ss' = [ss EXCEPT ![s] = r]
  BY <1>2, <1>3, <1>5, <1>6, <1>9
<1>11. /\ asking' \subseteq asking /\ finished \subseteq finished' /\ lost' \in BOOLEAN
       /\ lost => lost'
       /\ queued => queued'
  BY <1>1, <1>2
<1> QED BY <1>1, <1>2, <1>7, <1>8, <1>10, <1>11, SessionStep

-----------------------------------------------------------------------------
\* Rows that the user or the watcher writes.

LEMMA InRows ==
  ASSUME Rows, NEW S, S \subseteq DOMAIN ss, Newest(S) # NoSession
  PROVE  Newest(S) \in S /\ Newest(S) \in DOMAIN ss
<1>1. Len(ss) \in Nat /\ S \in SUBSET (1..Len(ss))
  BY RowsNumbered
<1> QED BY <1>1, NewestOf

LEMMA ClearStep ==
  ASSUME AttemptInv, ClearFailure
  PROVE  AttemptInv'
<1>0. Rows /\ Workers /\ lost \in BOOLEAN
  BY DEF AttemptInv
<1>1. /\ UNCHANGED <<live, resumed, op, asking, finished, lost, column, queued>>
      /\ ss' = Acknowledged(ss) /\ ss' # ss
  BY DEF ClearFailure, row
<1> DEFINE F == {i \in In(ss, {"failed", "blocked"}) : ~ss[i].acked}
<1>2. PICK s : s = Newest(F)
  OBVIOUS
<1>3. s # NoSession /\ ss' = [ss EXCEPT ![s].acked = TRUE]
  BY <1>1, <1>2 DEF Acknowledged
<1>4. F \subseteq DOMAIN ss /\ \A i \in F : ss[i].state \in {"failed", "blocked"}
  BY DEF In
<1>5. s \in DOMAIN ss /\ ss[s].state \in {"failed", "blocked"}
  <2> HIDE DEF F
  <2> QED BY <1>0, <1>2, <1>3, <1>4, InRows
<1>6. PICK r : r = [ss[s] EXCEPT !.acked = TRUE]
  OBVIOUS
<1>7. ss[s] \in SessionRows
  BY <1>0, <1>5, RowsNumbered
<1>8. r \in SessionRows /\ r.state = ss[s].state /\ r.acked = TRUE
  BY <1>6, <1>7 DEF SessionRows
<1>9. ss' = [ss EXCEPT ![s] = r]
  BY <1>3, <1>6
<1>10. RowOK(r) /\ r.state # "completed"
  BY <1>5, <1>8 DEF RowOK
<1>11. s \in Ids /\ live[s] # "running"
  BY <1>0, <1>5, RowsNumbered DEF Workers
<1>12. live' \in [Ids -> {"none", "running", "paused"}] /\ (\A t \in Ids : live'[t] = live[t])
  BY <1>0, <1>1 DEF Workers
<1>13. /\ \A t \in Ids : live'[t] # live[t] => t = s /\ live[t] # "none" /\ live'[t] # "running"
       /\ live'[s] # "running"
       /\ asking' \subseteq asking /\ finished \subseteq finished' /\ lost' \in BOOLEAN /\ (lost => lost')
       /\ queued => queued'
       /\ column' = "in_progress" => column = "in_progress"
  BY <1>0, <1>1, <1>11, <1>12
<1> QED BY <1>1, <1>5, <1>8, <1>9, <1>10, <1>12, <1>13, SessionStep

LEMMA OrphanStep ==
  ASSUME AttemptInv, NEW q \in Ids, RecoverOrphan(q)
  PROVE  AttemptInv'
<1>0. Rows /\ Workers /\ lost \in BOOLEAN
  BY DEF AttemptInv
<1>1. /\ UNCHANGED <<live, resumed, op, asking, finished, column, queued>> /\ lost' = TRUE
      /\ ss' = OrphanTerminated(ss)
  BY DEF RecoverOrphan, row
<1> DEFINE F == {i \in In(ss, {"paused"}) : ~ss[i].acked}
<1>2. PICK s : s = Newest(F)
  OBVIOUS
<1>3. CASE s = NoSession
  <2>1. ss' = ss
    BY <1>1, <1>2, <1>3 DEF OrphanTerminated
  <2> QED BY <1>0, <1>1, <2>1, Aside
<1>4. CASE s # NoSession
  <2>1. ss' = [ss EXCEPT ![s].state = "failed", ![s].reason = TRUE, ![s].acked = TRUE]
    BY <1>1, <1>2, <1>4 DEF OrphanTerminated
  <2>2. F \subseteq DOMAIN ss /\ \A i \in F : ss[i].state = "paused"
    BY DEF In
  <2>3. s \in DOMAIN ss /\ ss[s].state = "paused"
    <3> HIDE DEF F
    <3> QED BY <1>0, <1>2, <1>4, <2>2, InRows
  <2>4. PICK r : r = [ss[s] EXCEPT !.state = "failed", !.reason = TRUE, !.acked = TRUE]
    OBVIOUS
  <2>5. ss[s] \in SessionRows
    BY <1>0, <2>3, RowsNumbered
  <2>6. r \in SessionRows /\ r.state = "failed" /\ r.acked = TRUE
    BY <2>4, <2>5 DEF SessionRows, States
  <2>7. ss \in Seq(SessionRows)
    BY <1>0 DEF Rows
  <2>8. ss' = [ss EXCEPT ![s] = r]
    BY <2>1, <2>3, <2>4, <2>7
  <2>9. RowOK(r)
    BY <2>6 DEF RowOK
  <2>10. s \in Ids /\ live[s] # "running"
    BY <1>0, <2>3, RowsNumbered DEF Workers
  <2>11. live' \in [Ids -> {"none", "running", "paused"}] /\ (\A t \in Ids : live'[t] = live[t])
    BY <1>0, <1>1 DEF Workers
  <2>12. /\ \A t \in Ids : live'[t] # live[t] => t = s /\ live[t] # "none" /\ live'[t] # "running"
         /\ live'[s] # "running"
         /\ asking' \subseteq asking /\ finished \subseteq finished' /\ lost' \in BOOLEAN /\ (lost => lost')
         /\ queued => queued'
         /\ column' = "in_progress" => column = "in_progress"
    BY <1>0, <1>1, <2>10, <2>11
  <2> QED BY <1>1, <2>3, <2>6, <2>8, <2>9, <2>11, <2>12, SessionStep
<1> QED BY <1>3, <1>4

-----------------------------------------------------------------------------
\* The answer watcher.

\* The watcher's call goes on.
LEMMA WatcherCalls ==
  ASSUME Rows, Callings, NEW r \in CallRecords, r.pc \in CallsOf("answer"),
         r.pc = "idle" => r = Idle, op' = [op EXCEPT !["answer"] = r], Len(ss') = Len(ss)
  PROVE  Callings' /\ op'["answer"] = r
<1>1. Len(ss) \in Nat /\ Len(ss') \in Nat /\ Len(ss') >= Len(ss)
  BY RowsNumbered
<1>2. r.pc # "clear" /\ "answer" \in Callers
  BY DEF CallsOf, Callers
<1> QED BY <1>1, <1>2, Called

LEMMA TickStep ==
  ASSUME AttemptInv, NEW s \in Ids, TickAnswer(s)
  PROVE  AttemptInv'
<1>0. Rows /\ Workers /\ Callings /\ Resumes /\ Explained /\ lost \in BOOLEAN
  BY DEF AttemptInv
<1>1. /\ UNCHANGED <<ss, live, asking, finished, resumed, lost>> /\ op["answer"] = Idle
      /\ s \in DOMAIN ss /\ ss[s].state = "paused" /\ s \in asking
  BY DEF TickAnswer, Waiting
<1>2. PICK r : r = [pc |-> "unpend", of |-> s]
  OBVIOUS
<1>3. /\ r \in CallRecords /\ r.pc \in CallsOf("answer") /\ r.pc = "unpend" /\ r.of = s
      /\ op' = [op EXCEPT !["answer"] = r]
  BY <1>2 DEF CallRecords, CallsOf, TickAnswer
<1>4. Callings' /\ op'["answer"] = r
  BY <1>0, <1>1, <1>3, WatcherCalls
<1>5. Rows' /\ Workers' /\ Resumes' /\ lost' \in BOOLEAN
  BY <1>0, <1>1 DEF Rows, Workers, Resumes
<1>6. Answering'
  <2>1. live[s] # "running"
    BY <1>0, <1>1 DEF Workers
  <2>2. resumed[s] = 0
    BY <1>0, <1>1 DEF Resumes
  <2> QED BY <1>1, <1>3, <1>4, <2>1, <2>2 DEF Answering
<1>7. Explained'
  <2>1. ss # <<>>
    BY <1>1
  <2>2. Idle # [pc |-> "resume", of |-> Len(ss)]
    BY DEF Idle
  <2> QED BY <1>0, <1>1, <2>1, <2>2 DEF Explained
<1> QED BY <1>4, <1>5, <1>6, <1>7 DEF AttemptInv

\* The session whose answer is being used.
LEMMA OnAnswer ==
  ASSUME AttemptInv, op["answer"].pc \in {"unpend", "seal", "resume"}
  PROVE  LET s == op["answer"].of
         IN  /\ s \in DOMAIN ss /\ s \in Ids /\ live[s] # "running" /\ resumed[s] = 0 /\ ss # <<>>
             /\ op["answer"].pc # "unpend" => s \notin asking
<1>1. Rows /\ Answering /\ op["answer"] # Idle
  BY DEF AttemptInv, Idle
<1>2. PICK s : s = op["answer"].of
  OBVIOUS
<1>3. /\ s \in DOMAIN ss /\ live[s] # "running" /\ resumed[s] = 0
      /\ op["answer"].pc # "unpend" => s \notin asking
  BY <1>1, <1>2 DEF Answering
<1>4. s \in Ids /\ ss # <<>>
  BY <1>1, <1>3, RowsNumbered
<1> QED BY <1>2, <1>3, <1>4

LEMMA UnpendStep ==
  ASSUME AttemptInv, Unpend
  PROVE  AttemptInv'
<1>0. Rows /\ Workers /\ Callings /\ Resumes /\ Explained /\ lost \in BOOLEAN /\ "answer" \in Callers
  BY DEF AttemptInv, Callers
<1>1. PICK s : s = op["answer"].of
  OBVIOUS
<1>2. /\ UNCHANGED <<ss, live, finished, resumed, lost>> /\ op["answer"].pc = "unpend"
      /\ asking' = asking \ {s} /\ Goto("answer", "seal")
  BY <1>1 DEF Unpend, StillAsking
<1>3. s \in DOMAIN ss /\ s \in Ids /\ live[s] # "running" /\ resumed[s] = 0 /\ ss # <<>>
  BY <1>1, <1>2, OnAnswer
<1>4. "seal" \in CallsOf("answer") \ {"idle"}
  BY DEF CallsOf
<1>5. PICK r \in CallRecords :
        r.pc = "seal" /\ r.of = s /\ r # Idle /\ op' = [op EXCEPT !["answer"] = r]
  BY <1>0, <1>1, <1>2, <1>4, Goes
<1>6. Callings' /\ op'["answer"] = r
  BY <1>0, <1>2, <1>4, <1>5, WatcherCalls
<1>7. Rows' /\ Workers' /\ Resumes' /\ lost' \in BOOLEAN
  BY <1>0, <1>2 DEF Rows, Workers, Resumes
<1>8. Answering'
  BY <1>2, <1>3, <1>5, <1>6 DEF Answering
<1>9. Explained'
  <2>1. op["answer"] # [pc |-> "resume", of |-> Len(ss)]
    BY <1>2
  <2> QED BY <1>0, <1>2, <1>3, <2>1 DEF Explained
<1> QED BY <1>6, <1>7, <1>8, <1>9 DEF AttemptInv

LEMMA SealStep ==
  ASSUME AttemptInv, Seal
  PROVE  AttemptInv'
<1>0. Rows /\ Workers /\ Callings /\ Resumes /\ Explained /\ lost \in BOOLEAN /\ "answer" \in Callers
  BY DEF AttemptInv, Callers
<1>1. PICK s : s = op["answer"].of
  OBVIOUS
<1>2. /\ UNCHANGED <<live, asking, finished, resumed, lost>> /\ op["answer"].pc = "seal"
      /\ ss' = [ss EXCEPT ![s].state = "completed"] /\ Goto("answer", "resume")
  BY <1>1 DEF Seal
<1>3. s \in DOMAIN ss /\ s \in Ids /\ live[s] # "running" /\ resumed[s] = 0 /\ ss # <<>> /\ s \notin asking
  BY <1>1, <1>2, OnAnswer
<1>4. PICK x \in SessionRows : RowOK(x) /\ x.state = "completed" /\ ss' = [ss EXCEPT ![s] = x]
  BY <1>0, <1>2, <1>3, StateWritten
<1>5. live' \in [Ids -> {"none", "running", "paused"}] /\ (\A t \in Ids : live'[t] = live[t])
  BY <1>0, <1>2 DEF Workers
<1>6. /\ Rows' /\ Workers' /\ Resumes' /\ DOMAIN ss' = DOMAIN ss /\ Len(ss') = Len(ss)
      /\ \A j \in DOMAIN ss : j # s => ss'[j] = ss[j]
  <2>1. /\ \A t \in Ids : live'[t] # live[t] => t = s /\ live[t] # "none" /\ live'[t] # "running"
        /\ live'[s] # "running"
        /\ asking' \subseteq asking
    BY <1>2, <1>3, <1>5
  <2> QED BY <1>2, <1>3, <1>4, <1>5, <2>1, RowStep
<1>7. "resume" \in CallsOf("answer") \ {"idle"}
  BY DEF CallsOf
<1>8. PICK r \in CallRecords :
        r.pc = "resume" /\ r.of = s /\ r # Idle /\ op' = [op EXCEPT !["answer"] = r]
  BY <1>0, <1>1, <1>2, <1>7, Goes
<1>9. Callings' /\ op'["answer"] = r
  BY <1>0, <1>6, <1>7, <1>8, WatcherCalls
<1>10. Answering'
  BY <1>2, <1>3, <1>6, <1>8, <1>9 DEF Answering
<1>11. Explained'
  <2>1. r = [pc |-> "resume", of |-> s]
    BY <1>8 DEF CallRecords
  <2>2. ASSUME ~lost, ss'[Len(ss)].state = "completed"
        PROVE  Len(ss) \in finished \/ r = [pc |-> "resume", of |-> Len(ss)]
    <3>1. CASE s = Len(ss)
      BY <2>1, <3>1
    <3>2. CASE s # Len(ss)
      <4>1. Len(ss) \in DOMAIN ss
        BY <1>0, <1>3, RowsNumbered
      <4>2. ss[Len(ss)].state = "completed"
        BY <1>6, <2>2, <3>2, <4>1
      <4>3. op["answer"] # [pc |-> "resume", of |-> Len(ss)]
        BY <1>2
      <4> QED BY <1>0, <1>3, <2>2, <4>2, <4>3 DEF Explained
    <3> QED BY <3>1, <3>2
  <2>3. ss' # <<>>
    BY <1>3, <1>6
  <2> QED BY <1>2, <1>6, <1>9, <2>2, <2>3 DEF Explained
<1> QED BY <1>0, <1>2, <1>6, <1>9, <1>10, <1>11 DEF AttemptInv

LEMMA ResumeFailsStep ==
  ASSUME AttemptInv, ResumeFails
  PROVE  AttemptInv'
<1>0. Rows /\ Workers /\ Callings /\ Resumes
  BY DEF AttemptInv
<1>1. /\ UNCHANGED <<ss, live, asking, finished, resumed>> /\ lost' = TRUE
      /\ op' = [op EXCEPT !["answer"] = Idle]
  BY DEF ResumeFails, Return
<1>2. Callings' /\ op'["answer"] = Idle
  <2>1. Idle \in CallRecords /\ Idle.pc \in CallsOf("answer")
    BY IdleTyped
  <2> QED BY <1>0, <1>1, <2>1, WatcherCalls
<1>3. Rows' /\ Workers' /\ Resumes'
  BY <1>0, <1>1 DEF Rows, Workers, Resumes
<1> QED BY <1>1, <1>2, <1>3 DEF AttemptInv, Answering, Explained

-----------------------------------------------------------------------------
\* A restart: workers that have died are found to have failed.

LEMMA RestartStep ==
  ASSUME AttemptInv, Restart
  PROVE  AttemptInv'
<1>0. Rows /\ Workers /\ Callings /\ Resumes /\ Explained /\ lost \in BOOLEAN
  BY DEF AttemptInv
<1>1. PICK dead \in SUBSET {s \in Ids : live[s] = "running"} :
       /\ ss' = [s \in DOMAIN ss |-> IF s \in dead
                                     THEN [ss[s] EXCEPT !.state = "failed", !.cause = TRUE] ELSE ss[s]]
       /\ live' = [s \in Ids |-> IF live[s] = "running" /\ s \notin dead THEN "running" ELSE "none"]
  BY DEF Restart
<1>2. /\ op' = [c \in Callers |-> Idle] /\ lost' = (lost \/ op # op')
      /\ UNCHANGED <<asking, finished, resumed, column, queued>>
  BY DEF Restart, row
<1>3. ss \in Seq(SessionRows) /\ Len(ss) \in Nat /\ DOMAIN ss = 1..Len(ss)
  BY <1>0, RowsNumbered DEF Rows
<1>4. ASSUME NEW s \in DOMAIN ss
      PROVE  /\ ss'[s] \in SessionRows /\ RowOK(ss'[s])
             /\ s \notin dead => ss'[s] = ss[s]
             /\ s \in dead => ss'[s].state = "failed"
  <2>1. ss[s] \in SessionRows /\ RowOK(ss[s])
    BY <1>0, RowsNumbered DEF Rows, RowOK
  <2>2. CASE s \in dead
    <3>1. PICK r : r = [ss[s] EXCEPT !.state = "failed", !.cause = TRUE]
      OBVIOUS
    <3>2. r \in SessionRows /\ r.state = "failed" /\ r.cause = TRUE
      BY <2>1, <3>1 DEF SessionRows, States
    <3>3. ss'[s] = r
      BY <1>1, <2>2, <3>1
    <3> QED BY <2>2, <3>2, <3>3 DEF RowOK
  <2>3. CASE s \notin dead
    BY <1>1, <2>1, <2>3
  <2> QED BY <2>2, <2>3
<1>5. /\ ss' \in Seq(SessionRows) /\ DOMAIN ss' = DOMAIN ss /\ Len(ss') = Len(ss)
      /\ (ss' = <<>>) = (ss = <<>>)
  <2>1. PICK u, t : u = ss /\ t = ss'
    OBVIOUS
  <2>2. PICK n \in Nat : n = Len(ss)
    BY <1>3
  <2>3. t \in [1..n -> SessionRows]
    BY <1>1, <1>3, <1>4, <2>1, <2>2
  <2>4. t \in Seq(SessionRows) /\ Len(t) = n /\ DOMAIN t = 1..n
    BY <2>3
  <2>5. (t = <<>>) = (u = <<>>)
    BY <1>3, <2>1, <2>2, <2>4
  <2> QED BY <1>3, <2>1, <2>2, <2>4, <2>5
<1>6. Rows'
  BY <1>0, <1>4, <1>5 DEF Rows, RowOK
<1>7. /\ live' \in [Ids -> {"none", "running", "paused"}]
      /\ \A s \in Ids : live'[s] # "none" => live[s] = "running" /\ s \notin dead
  BY <1>1
<1>8. Workers'
  <2>1. \A s \in Ids : live'[s] # "none" => s \in DOMAIN ss /\ ss'[s].state = "running"
    BY <1>0, <1>4, <1>7 DEF Workers
  <2> QED BY <1>0, <1>5, <1>7, <2>1 DEF Workers
<1>9. Resumes'
  BY <1>0, <1>2, <1>5, <1>7 DEF Resumes
<1>10. Callings' /\ \A c \in Callers : op'[c] = Idle
  BY <1>2, IdleTyped DEF Callings
<1>11. Answering'
  BY <1>10 DEF Answering, Callers
<1>12. Explained'
  <2>1. SUFFICES ASSUME ~lost, op = op' PROVE Explained'
    BY <1>2 DEF Explained
  <2>2. ASSUME column = "in_progress", ss = <<>> PROVE queued
    BY <1>0, <1>10, <2>1, <2>2 DEF Explained
  <2>3. ASSUME ss # <<>>, ss'[Len(ss)].state = "completed" PROVE Len(ss) \in finished
    <3>1. Len(ss) \in DOMAIN ss
      BY <1>0, <2>3, RowsNumbered
    <3>2. ss[Len(ss)].state = "completed"
      BY <1>4, <2>3, <3>1
    <3>3. op["answer"] # [pc |-> "resume", of |-> Len(ss)]
      BY <1>10, <2>1 DEF Idle, Callers
    <3> QED BY <1>0, <2>1, <2>3, <3>2, <3>3 DEF Explained
  <2> QED BY <1>2, <1>5, <2>2, <2>3 DEF Explained
<1>13. lost' \in BOOLEAN
  BY <1>0, <1>2
<1> QED BY <1>6, <1>8, <1>9, <1>10, <1>11, <1>12, <1>13 DEF AttemptInv

LEMMA AttemptInit == Init => AttemptInv
<1> SUFFICES ASSUME Init PROVE AttemptInv
  OBVIOUS
<1>1. /\ ss = <<>> /\ live = [s \in Ids |-> "none"] /\ asking = {} /\ op = [c \in Callers |-> Idle]
      /\ resumed = [s \in Ids |-> 0] /\ lost = FALSE /\ column = "plan"
  BY DEF Init
<1>2. Rows
  <2>1. ss \in Seq(SessionRows) /\ Len(ss) = 0 /\ DOMAIN ss = {}
    BY <1>1
  <2> QED BY <2>1, IdsNumbered DEF Rows
<1>3. Workers /\ Resumes
  BY <1>1 DEF Workers, Resumes
<1>4. Callings
  BY <1>1, IdleTyped DEF Callings
<1>5. Answering
  BY <1>1 DEF Answering, Callers
<1>6. Explained
  BY <1>1 DEF Explained
<1> QED BY <1>1, <1>2, <1>3, <1>4, <1>5, <1>6 DEF AttemptInv

LEMMA AttemptStep ==
  ASSUME AttemptInv, [Next]_vars
  PROVE  AttemptInv'
<1>0. lost \in BOOLEAN
  BY DEF AttemptInv
<1>1. CASE Calls
  BY <1>1, AcquireStep, SpawnStep, CallEnds, UserCalls DEF Calls
<1>2. CASE Watch
  BY <1>2, TickStep, OrphanStep, UnpendStep, SealStep, ResumeStep, ResumeFailsStep DEF Watch
<1>3. CASE Timer
  BY <1>0, <1>3, Aside DEF Timer, Elapse, Tick, Dispatched, Deliver, row
<1>4. CASE Drain
  BY <1>4, DrainStep
<1>5. CASE Restart
  BY <1>5, RestartStep
<1>6. CASE ApprovePlan \/ RetryExecute
  BY <1>6, UserCalls
<1>7. CASE FireNow \/ Cancel
  BY <1>0, <1>7, Aside DEF FireNow, Dispatched, Cancel, row
<1>8. CASE ClearFailure
  BY <1>8, ClearStep
<1>9. ASSUME NEW s \in Ids, OpenPR(s) \/ SubmitMidRunAnswer(s) \/ RemoveQuestion(s)
      PROVE  AttemptInv'
  BY <1>0, <1>9, Aside DEF OpenPR, SubmitMidRunAnswer, RemoveQuestion, row
<1>10. ASSUME NEW s \in Ids, AskQuestion(s) \/ PausedExits(s) \/ Completes(s) \/ Fails(s)
       PROVE  AttemptInv'
  BY <1>10, AskStep, PausedExitStep, CompleteStep, FailStep
<1>11. CASE UNCHANGED vars
  BY <1>0, <1>11, Aside DEF vars, row
<1> QED BY <1>1, <1>2, <1>3, <1>4, <1>5, <1>6, <1>7, <1>8, <1>9, <1>10, <1>11 DEF Next

-----------------------------------------------------------------------------
\* The invariant of the attempts on a card: rows and processes agree, one process at most, the
\* answer watcher's call is about a session that waits no longer and runs no longer, and a card in
\* IN_PROGRESS has something under way (spawnWithDir, handleMidRunAnswerArrived, handleSessionStateChange).
THEOREM AttemptsInvariance == Spec => []AttemptInv
<1>1. Init => AttemptInv
  BY AttemptInit
<1>2. AttemptInv /\ [Next]_vars => AttemptInv'
  BY AttemptStep
<1> QED BY <1>1, <1>2, PTL DEF Spec

\* An answer starts one worker, however often the watcher is restarted and however often the row
\* is written again, and no two sessions of a card have a process (AnswerWatcher.Tick, spawnWithDir).
THEOREM AnswersUsedOnce == Spec => []ResumedOnce
<1>1. AttemptInv => ResumedOnce
  BY DEF AttemptInv, Answering, Workers, ResumedOnce
<1> QED BY <1>1, AttemptsInvariance, PTL

-----------------------------------------------------------------------------
\* What the card shows

\* A set of numbers has a least member.
LEMMA LeastMember ==
  ASSUME NEW n \in Nat, NEW S \in SUBSET (1..n), S # {}
  PROVE  Min(S) \in S /\ \A x \in S : Min(S) <= x
<1>1. S \subseteq Nat
  OBVIOUS
<1>2. PICK t \in S : \A y \in S : ~(<<y, t>> \in OpToRel(<, Nat))
  BY <1>1, NatLessThanWellFounded, WFMin
<1>3. \A y \in S : ~(y < t)
  BY <1>1, <1>2 DEF OpToRel
<1>4. \A y \in S : t <= y
  BY <1>1, <1>3
<1>5. \E m \in S : \A x \in S : m <= x
  BY <1>4
<1> QED BY <1>5 DEF Min

\* The first rung that holds is not below one that holds.
LEMMA FirstRung ==
  ASSUME NEW L, NEW n \in Nat, DOMAIN L = 1..n, NEW m \in 1..n, L[m][1]
  PROVE  Min({k \in DOMAIN L : L[k][1]}) \in 1..m
<1> DEFINE S == {k \in DOMAIN L : L[k][1]}
<1>1. S \in SUBSET (1..n) /\ m \in S
  OBVIOUS
<1> HIDE DEF S
<1>2. Min(S) \in S /\ \A x \in S : Min(S) <= x
  BY <1>1, LeastMember
<1>3. Min(S) \in 1..n /\ Min(S) <= m
  BY <1>1, <1>2
<1>4. Min(S) \in 1..m
  BY <1>3
<1> QED BY <1>4 DEF S

LEMMA Rungs ==
  ASSUME NEW L, NEW c1, NEW c2, NEW c3, NEW c4, NEW c5, NEW c6, NEW c7, NEW c8, NEW c9, NEW c10, NEW c11,
         NEW c12, NEW c13, NEW c14, NEW c15, NEW c16,
         L = << <<c1, "done">>, <<c2, "orphan_question">>, <<c3, "plan_ready">>, <<c4, "needs_answer">>,
                <<c5, "planning">>, <<c6, "in_progress">>, <<c7, "waiting_for_pool">>, <<c8, "needs_pr">>,
                <<c9, "merge_conflict">>, <<c10, "tests_failing">>, <<c11, "retry_scheduled">>,
                <<c12, "blocked">>, <<c13, "plan_failed">>, <<c14, "plan_ready">>,
                <<c15, "waiting_for_dep">>, <<c16, "review">>, <<TRUE, "todo">> >>
  PROVE  /\ DOMAIN L = 1..17
         /\ L[3][1] = c3 /\ L[6][1] = c6 /\ L[7][1] = c7 /\ L[12][1] = c12
         /\ \A k \in 1..12 : L[k][2] # "todo"
<1>1. DOMAIN L = 1..17
  OBVIOUS
<1>2. L[3] = <<c3, "plan_ready">> /\ L[6] = <<c6, "in_progress">> /\ L[7] = <<c7, "waiting_for_pool">>
      /\ L[12] = <<c12, "blocked">>
  OBVIOUS
<1>3. /\ L[1][2] # "todo" /\ L[2][2] # "todo" /\ L[3][2] # "todo" /\ L[4][2] # "todo" /\ L[5][2] # "todo"
      /\ L[6][2] # "todo" /\ L[7][2] # "todo" /\ L[8][2] # "todo" /\ L[9][2] # "todo" /\ L[10][2] # "todo"
      /\ L[11][2] # "todo" /\ L[12][2] # "todo"
  OBVIOUS
<1>4. \A k \in 1..12 : k \in {1, 2, 3, 4, 5, 6, 7, 8, 9, 10, 11, 12}
  OBVIOUS
<1>5. \A k \in 1..12 : L[k][2] # "todo"
  BY <1>3, <1>4
<1> QED BY <1>1, <1>2, <1>5

\* A card with a paused or running session, with a row in the queue or with a failure shows it.
LEMMA Shows ==
  ASSUME NEW c, NEW rs, c.column # "done",
         \/ Paused(rs) # NoSession
         \/ Active(c, rs) # NoSession /\ rs[Active(c, rs)].state = "running"
         \/ c.pool = TRUE
         \/ LastFailure(c, rs) # NoSession
  PROVE  CardState(c, rs) # "todo"
<1>1. PICK L : L = Ladder(c, rs)
  OBVIOUS
<1>2. /\ DOMAIN L = 1..17
      /\ L[3][1] = (Paused(rs) # NoSession)
      /\ L[6][1] = (Active(c, rs) # NoSession /\ rs[Active(c, rs)].state = "running")
      /\ L[7][1] = c.pool /\ L[12][1] = (LastFailure(c, rs) # NoSession)
      /\ \A k \in 1..12 : L[k][2] # "todo"
  <2> HIDE DEF Paused, Active, LastFailure, DerivedColumn, PlanFailed, NoSession
  <2> QED BY ONLY <1>1, Rungs DEF Ladder
<1>3. \E m \in {3, 6, 7, 12} : L[m][1]
  BY <1>2
<1>4. PICK m \in 1..12 : m \in 1..17 /\ L[m][1]
  BY <1>3
<1>5. PICK f : f = Min({k \in DOMAIN L : L[k][1]})
  OBVIOUS
<1>6. f \in 1..m
  BY <1>2, <1>4, <1>5, FirstRung
<1>7. L[f][2] # "todo"
  BY <1>2, <1>4, <1>6
<1> QED BY <1>1, <1>5, <1>7 DEF CardState

\* The last session says why the card is in IN_PROGRESS.
LEMMA LastShows ==
  ASSUME Rows, NEW c, c.column = "in_progress", ss # <<>>, ss[Len(ss)].state # "completed",
         ~ss[Len(ss)].acked
  PROVE  CardState(c, ss) # "todo"
<1> DEFINE n == Len(ss)
<1>1. n \in DOMAIN ss /\ n > 0 /\ n \in Nat /\ DOMAIN ss = 1..n
  BY RowsNumbered
<1>2. ss[n].state \in {"running", "paused", "blocked", "failed"}
  BY <1>1 DEF Rows
<1>3. \A S \in SUBSET States : In(ss, S) \in SUBSET (1..n)
  BY <1>1 DEF In
<1>4. CASE ss[n].state = "paused"
  <2>1. n \in In(ss, {"paused"}) /\ In(ss, {"paused"}) \in SUBSET (1..n)
    BY <1>1, <1>3, <1>4 DEF In, States
  <2>2. Paused(ss) # NoSession
    BY <1>1, <2>1, NewestOf DEF Paused
  <2> QED BY <2>2, Shows
<1>5. CASE ss[n].state = "running"
  <2>1. n \in In(ss, {"running", "waiting"}) /\ In(ss, {"running", "waiting"}) \in SUBSET (1..n)
    BY <1>1, <1>3, <1>5 DEF In, States
  <2>2. PICK a : a = Newest(In(ss, {"running", "waiting"}))
    OBVIOUS
  <2>3. a # NoSession /\ a \in In(ss, {"running", "waiting"})
    BY <1>1, <2>1, <2>2, NewestOf
  <2>4. a # NoSession /\ ss[a].state = "running"
    BY <2>3 DEF In, Rows
  <2>5. Active(c, ss) = a
    BY <2>2 DEF Active
  <2> QED BY <2>4, <2>5, Shows
<1>6. CASE ss[n].state \in {"blocked", "failed"}
  <2> DEFINE D == In(ss, {"completed"})
             F == Failures(ss)
  <2>1. ss[n].cause
    BY <1>1, <1>6 DEF Rows
  <2>2. n \in F
    BY <1>1, <1>6, <2>1 DEF In, Failures
  <2>3. D \in SUBSET (1..n) /\ F \in SUBSET (1..n) /\ n \notin D
    BY <1>1, <1>6 DEF In, Failures
  <2> HIDE DEF D, F, n
  <2>4. Newest(F) \in 1..n /\ Newest(F) >= n /\ Newest(F) # NoSession
    BY <1>1, <2>2, <2>3, NewestOf
  <2>5. Newest(D) \in 1..n \/ Newest(D) = NoSession
    BY <1>1, <2>3, NewestOf
  <2>6. ~(Newest(D) > Newest(F))
    BY <1>1, <2>4, <2>5 DEF NoSession
  <2>7. LastFailure(c, ss) = Newest(F)
    BY <2>6 DEF LastFailure, D, F
  <2> QED BY <2>4, <2>7, Shows
<1> QED BY <1>2, <1>4, <1>5, <1>6

\* A card in IN_PROGRESS whose calls have all returned shows why, or its worker said it was done, or
\* its failure has been cleared, or the work is known to be lost (DeriveCardState, handleSessionStateChange).
THEOREM CardsExplained == Spec => []NeverBlank
<1>1. ASSUME AttemptInv, column = "in_progress", AtRest, ~lost,
             ~(Len(ss) > 0 /\ (Len(ss) \in finished \/ ss[Len(ss)].acked))
      PROVE  CardState(Card, ss) # "todo"
  <2>1. Rows /\ Explained
    BY <1>1 DEF AttemptInv
  <2>2. PICK c : c = Card
    OBVIOUS
  <2>3. c.column = "in_progress" /\ c.pool = queued
    BY <1>1, <2>2 DEF Card
  <2>4. CASE ss = <<>>
    <3>1. queued
      BY <1>1, <2>1, <2>4 DEF Explained, AtRest
    <3>2. c.column # "done" /\ c.pool
      BY <2>3, <3>1
    <3> QED BY <2>2, <3>2, Shows
  <2>5. CASE ss # <<>>
    <3>1. Len(ss) > 0
      BY <2>1, <2>5, RowsNumbered
    <3>2. op["answer"] # [pc |-> "resume", of |-> Len(ss)]
      BY <1>1 DEF AtRest, Idle, Callers
    <3>3. ss[Len(ss)].state # "completed" /\ ~ss[Len(ss)].acked
      BY <1>1, <2>1, <2>5, <3>1, <3>2 DEF Explained
    <3> QED BY <2>1, <2>2, <2>3, <2>5, <3>3, LastShows
  <2> QED BY <2>4, <2>5
<1>2. AttemptInv => NeverBlank
  BY <1>1 DEF NeverBlank, Latest
<1> QED BY <1>2, AttemptsInvariance, PTL

=============================================================================
