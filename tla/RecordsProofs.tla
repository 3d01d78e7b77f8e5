---------------------------- MODULE RecordsProofs ----------------------------
(****************************************************************************)
(* What holds of the sets of records, however many calls, keys, plans,      *)
(* comments, proposals and starts there are.                                *)
(*                                                                          *)
(* Workspaces.  Provisioning calls run one at a time (Careful), so a call   *)
(* that creates is alone with the worker; where it is in its list of steps  *)
(* says what it has left there.                                             *)
(* Fan-out.  A proposal that is being filed is not on record yet.           *)
(* Plan desk.  A worker is started on a revision that has its consent, and  *)
(* consents are only given; a revision that answers is later than the one it*)
(* answers from the moment the answers are read.                            *)
(* Review.  What a poll has not reached is still to come in its list; what it*)
(* has reached has its row, was said in between, or was passed over.        *)
(* Database file.  By its place an Open knows which statements are done, and*)
(* a table of pools without the check has no column that its rebuild drops. *)
(* Pipelines.  Where a card goes, in a pipeline that has passed Validate.   *)
(****************************************************************************)
EXTENDS MCRecords, WellFoundedInduction, TLAPS

-----------------------------------------------------------------------------
\* Numbers

\* A set of numbers that has an upper bound has a greatest member.
LEMMA GreatestMember ==
  ASSUME NEW n \in Nat, NEW S \in SUBSET (0..n), S # {}
  PROVE  \E m \in S : \A x \in S : m >= x
<1> DEFINE T == {x \in 0..n : n - x \in S}
<1>1. ASSUME NEW x \in S PROVE x \in 0..n /\ n - x \in 0..n /\ n - (n - x) = x
  <2>1. x \in 0..n
    OBVIOUS
  <2> QED BY <2>1
<1>2. T \subseteq Nat /\ T # {}
  <2>1. PICK x : x \in S
    OBVIOUS
  <2>2. n - x \in T
    BY <1>1, <2>1
  <2> QED BY <2>2
<1>3. PICK t \in T : \A y \in T : ~(<<y, t>> \in OpToRel(<, Nat))
  BY <1>2, NatLessThanWellFounded, WFMin
<1>4. \A y \in T : ~(y < t)
  BY <1>2, <1>3 DEF OpToRel
<1>5. n - t \in S /\ t \in 0..n
  OBVIOUS
<1>6. ASSUME NEW x \in S PROVE n - t >= x
  <2>1. n - x \in T
    BY <1>1
  <2> HIDE DEF T
  <2>2. ~(n - x < t)
    BY <1>4, <2>1
  <2> QED BY <1>1, <1>5, <2>2
<1> QED BY <1>5, <1>6

\* Max of such a set.
LEMMA GreatestIsMax ==
  ASSUME NEW n \in Nat, NEW S \in SUBSET (0..n), S # {}
  PROVE  Desk!Max(S) \in S /\ \A x \in S : Desk!Max(S) >= x
BY GreatestMember DEF Desk!Max

-----------------------------------------------------------------------------
\* Workspaces: a call that makes a workspace is alone with the worker.

CreateSteps == <<"put", "enable", "pat", "anthropic", "token", "ckey", "setkey", "row">>

\* What a call has to go that is not one of the provisioning calls.
LightSteps == {"forget", "token", "file", "row", "insert"}
AllSteps   == LightSteps \cup {"put", "enable", "pat", "anthropic", "ckey", "setkey", "cleanup", "unkey",
                               "secrets", "members", "pools", "drop"}

IsCall(c) ==
  /\ {"op", "todo", "fate", "copy", "key", "into"} \subseteq DOMAIN c
  /\ c.key \in Keys \cup {None}
  /\ c.op # "none" => c.todo \in Seq(AllSteps) /\ c.todo # <<>>
  /\ c.op \notin Provisioning \cup {"none"} => \A j \in 1..Len(c.todo) : c.todo[j] \in LightSteps

\* The steps that a creation has to go are the last ones of its list.
OnItsWay(c) ==
  /\ c.copy \in RowRecords
  /\ Len(c.todo) \in 1..8
  /\ \A j \in 1..Len(c.todo) : c.todo[j] = CreateSteps[8 - Len(c.todo) + j]

\* What the steps behind it have left, when it has n steps to go.
Left(n, key) ==
  /\ n <= 7 => worker # None
  /\ n <= 6 => worker.enabled
  /\ n <= 5 => "GITHUB_PAT" \in worker.secrets
  /\ n <= 4 => "ANTHROPIC_API_KEY" \in worker.secrets
  /\ n <= 2 => worker.key = key
  /\ n <= 1 => keyFile = key

Reached(c) == Left(Len(c.todo), c.key)

Creating(c) == c.op = "create" /\ c.fate = "ok"

Calls   == call = [p \in Callers |-> call[p]] /\ \A p \in Callers : IsCall(call[p])
OneByOne == \A p, q \in Callers : call[p].op \in Provisioning /\ call[q].op \in Provisioning => p = q
Creations == \A p \in Callers : Creating(call[p]) => OnItsWay(call[p]) /\ Reached(call[p])

WorkspaceInv == Calls /\ worker \in WorkerRecords \cup {None} /\ OneByOne /\ Creations

LEMMA NoCallIsCall ==
  ASSUME NEW fate
  PROVE  IsCall(NoCall(fate)) /\ NoCall(fate).op = "none" /\ NoCall(fate).fate = fate
BY DEF NoCall, IsCall, Provisioning

\* What a call starts with.
LEMMA StepsTyped ==
  ASSUME NEW op \in {"create", "add", "deploy", "rotate", "replace", "fallback", "update",
                     "convert", "probe", "remove"}
  PROVE  /\ Steps(op) \in Seq(AllSteps) /\ Steps(op) # <<>>
         /\ op = "create" => Steps(op) = CreateSteps /\ Len(CreateSteps) = 8
         /\ op \notin Provisioning => \A j \in 1..Len(Steps(op)) : Steps(op)[j] \in LightSteps
<1>1. CASE op = "create"
  BY <1>1 DEF Steps, CreateSteps, Provisioning, AllSteps, LightSteps
<1>2. CASE op = "deploy"
  BY <1>2 DEF Steps, Provisioning, AllSteps, LightSteps
<1>3. CASE op = "rotate"
  BY <1>3 DEF Steps, Provisioning, AllSteps, LightSteps
<1>7. CASE op = "remove"
  BY <1>7 DEF Steps, Provisioning, AllSteps, LightSteps
<1>4. CASE op = "replace"
  BY <1>4 DEF Steps, LightSteps, AllSteps
<1>5. CASE op = "fallback"
  BY <1>5 DEF Steps, LightSteps, AllSteps
<1>6. CASE op \in {"add", "update", "convert", "probe"}
  <2>1. Steps(op) = <<"row">>
    BY <1>6 DEF Steps
  <2> QED BY <1>6, <2>1 DEF LightSteps, AllSteps
<1> QED BY <1>1, <1>2, <1>3, <1>4, <1>5, <1>6, <1>7

LEMMA StartStep ==
  ASSUME WorkspaceInv, Careful = TRUE, NEW p \in Callers,
         NEW op \in {"create", "add", "deploy", "rotate", "replace", "fallback", "update",
                     "convert", "probe", "remove"},
         NEW copy, NEW key \in Keys \cup {None},
         op = "create" => copy \in RowRecords,
         Start(p, op, copy, key)
  PROVE  WorkspaceInv' /\ call[p].op = "none" /\ \A q \in Callers \ {p} : call'[q] = call[q]
<1> DEFINE c == [NoCall("ok") EXCEPT !.op = op, !.todo = Steps(op), !.copy = copy, !.key = key]
<1>0. /\ Calls /\ OneByOne /\ Creations /\ worker \in WorkerRecords \cup {None}
      /\ call[p].op = "none" /\ UNCHANGED <<worker, keyFile>>
      /\ op \in Provisioning => \A q \in Callers : call[q].op \notin Provisioning
      /\ call' = [call EXCEPT ![p] = c]
  BY DEF WorkspaceInv, Start, Free, remote
<1>1. /\ c.op = op /\ c.todo = Steps(op) /\ c.copy = copy /\ c.key = key /\ c.fate = "ok"
      /\ {"op", "todo", "fate", "copy", "key", "into"} \subseteq DOMAIN c
  BY DEF NoCall
<1> HIDE DEF c
<1>2. IsCall(c)
  <2>1. /\ Steps(op) \in Seq(AllSteps) /\ Steps(op) # <<>>
        /\ op \notin Provisioning => \A j \in 1..Len(Steps(op)) : Steps(op)[j] \in LightSteps
    BY StepsTyped
  <2>2. c.key \in Keys \cup {None} /\ c.todo \in Seq(AllSteps) /\ c.todo # <<>>
    BY <1>1, <2>1
  <2>3. c.op \notin Provisioning \cup {"none"} => \A j \in 1..Len(c.todo) : c.todo[j] \in LightSteps
    BY <1>1, <2>1
  <2>4. {"op", "todo", "fate", "copy", "key", "into"} \subseteq DOMAIN c
    BY <1>1
  <2> QED BY <2>2, <2>3, <2>4 DEF IsCall
<1>3. ASSUME Creating(c) PROVE OnItsWay(c) /\ Reached(c)
  <2>1. c.todo = CreateSteps /\ Len(CreateSteps) = 8 /\ c.copy \in RowRecords
    BY <1>1, <1>3, StepsTyped DEF Creating
  <2> QED BY <2>1 DEF OnItsWay, Reached, Left
<1>4. call'[p] = c /\ (\A q \in Callers \ {p} : call'[q] = call[q]) /\ call' = [q \in Callers |-> call'[q]]
  BY <1>0 DEF Calls
<1>5. Calls'
  BY <1>0, <1>2, <1>4 DEF Calls
<1>6. OneByOne'
  BY <1>0, <1>1, <1>4 DEF OneByOne
<1>7. Creations'
  BY <1>0, <1>3, <1>4 DEF Creations, Reached, Left
<1> QED BY <1>0, <1>4, <1>5, <1>6, <1>7 DEF WorkspaceInv

LEMMA BeginStep ==
  ASSUME WorkspaceInv, Careful = TRUE, NEW p \in Callers, Begin(p)
  PROVE  /\ WorkspaceInv' /\ call[p].op = "none"
         /\ \A q \in Callers \ {p} : call'[q] = call[q]
<1>1. NewKeys \subseteq Keys /\ [LocalRow EXCEPT !.remote = TRUE] \in RowRecords
  <2>1. NewKeys \subseteq Keys
    BY DEF NewKeys
  <2>2. [LocalRow EXCEPT !.remote = TRUE] \in RowRecords
    BY DEF LocalRow, RowRecords
  <2> QED BY <2>1, <2>2
<1>2. CASE CreateRemoteWorkspace(p)
  <2>1. PICK k \in NewKeys : Start(p, "create", [LocalRow EXCEPT !.remote = TRUE], k)
    BY <1>1, <1>2 DEF CreateRemoteWorkspace
  <2> QED BY <1>1, <2>1, StartStep
<1>3. CASE DeployRemoteWorker(p) \/ RotateRemoteWorkerKey(p)
  BY <1>1, <1>3, StartStep DEF DeployRemoteWorker, RotateRemoteWorkerKey
<1>4. CASE \/ AddWorkspace(p) \/ ReplaceCFToken(p) \/ StoreCFTokenFileFallback(p) \/ UpdateWorkspace(p)
           \/ ConvertWorkspaceToLocal(p) \/ ProbeEndpoint(p) \/ RemoveWorkspace(p)
  BY <1>4, StartStep DEF AddWorkspace, ReplaceCFToken, StoreCFTokenFileFallback, UpdateWorkspace,
                         ConvertWorkspaceToLocal, ProbeEndpoint, RemoveWorkspace
<1>5. ASSUME NEW d \in Collections, JoinCollection(p, d)
      PROVE  WorkspaceInv' /\ call[p].op = "none" /\ \A q \in Callers \ {p} : call'[q] = call[q]
  <2> DEFINE c == [NoCall("ok") EXCEPT !.op = "join", !.todo = <<"insert">>, !.into = d]
  <2>0. /\ Calls /\ OneByOne /\ Creations /\ worker \in WorkerRecords \cup {None}
        /\ call[p].op = "none" /\ UNCHANGED <<worker, keyFile>>
        /\ call' = [call EXCEPT ![p] = c]
    BY <1>5 DEF WorkspaceInv, JoinCollection, Free, remote
  <2>1. /\ c.op = "join" /\ c.todo = <<"insert">> /\ c.key = None
        /\ {"op", "todo", "fate", "copy", "key", "into"} \subseteq DOMAIN c
    BY DEF NoCall
  <2> HIDE DEF c
  <2>2. IsCall(c) /\ ~Creating(c) /\ c.op \notin Provisioning
    <3>1. c.todo \in Seq(AllSteps) /\ Len(c.todo) = 1 /\ c.todo[1] = "insert"
      BY <2>1 DEF AllSteps, LightSteps
    <3> QED BY <2>1, <3>1 DEF IsCall, Creating, LightSteps, Provisioning
  <2>3. call'[p] = c /\ (\A q \in Callers \ {p} : call'[q] = call[q]) /\ call' = [q \in Callers |-> call'[q]]
    BY <2>0 DEF Calls
  <2> QED BY <2>0, <2>2, <2>3 DEF WorkspaceInv, Calls, OneByOne, Creations, Reached, Left
<1> QED BY <1>2, <1>3, <1>4, <1>5 DEF Begin

\* A call that goes on, or returns.
LEMMA GoesStep ==
  ASSUME Calls, NEW p \in Callers, call[p].op # "none", NEW copy, Goes(p, copy)
  PROVE  /\ Calls' /\ \A q \in Callers \ {p} : call'[q] = call[q]
         /\ Len(call[p].todo) = 1 => call'[p].op = "none" /\ call'[p].fate = call[p].fate
         /\ Len(call[p].todo) # 1 =>
              LET c == call[p]
                  d == call'[p]
              IN  /\ d.op = c.op /\ d.fate = c.fate /\ d.key = c.key /\ d.copy = copy
                  /\ Len(c.todo) > 1 /\ Len(d.todo) = Len(c.todo) - 1
                  /\ \A j \in 1..Len(d.todo) : d.todo[j] = c.todo[j + 1]
<1> DEFINE c == call[p]
           d == IF Len(c.todo) = 1 THEN NoCall(c.fate) ELSE [c EXCEPT !.todo = Tail(c.todo), !.copy = copy]
<1>1. /\ IsCall(c) /\ c.todo \in Seq(AllSteps) /\ c.todo # <<>> /\ Len(c.todo) \in Nat \ {0}
      /\ call = [q \in Callers |-> call[q]]
  BY DEF Calls, IsCall
<1>2. call'[p] = d /\ (\A q \in Callers \ {p} : call'[q] = call[q]) /\ call' = [q \in Callers |-> call'[q]]
  <2>1. call' = [call EXCEPT ![p] = d]
    BY DEF Goes
  <2> HIDE DEF d
  <2> QED BY <1>1, <2>1
<1>3. /\ Tail(c.todo) \in Seq(AllSteps) /\ Len(Tail(c.todo)) = Len(c.todo) - 1
      /\ \A j \in 1..Len(Tail(c.todo)) : Tail(c.todo)[j] = c.todo[j + 1]
  BY <1>1
<1>4. CASE Len(c.todo) = 1
  <2>1. IsCall(d) /\ d.op = "none" /\ d.fate = c.fate
    BY <1>4, NoCallIsCall
  <2> HIDE DEF d
  <2> QED BY <1>2, <1>4, <2>1 DEF Calls
<1>5. CASE Len(c.todo) # 1
  <2>1. /\ d.op = c.op /\ d.fate = c.fate /\ d.key = c.key /\ d.copy = copy /\ d.todo = Tail(c.todo)
        /\ {"op", "todo", "fate", "copy", "key", "into"} \subseteq DOMAIN d
    BY <1>1, <1>5 DEF IsCall
  <2> HIDE DEF d
  <2>2. Tail(c.todo) # <<>> /\ Len(c.todo) > 1
    <3> DEFINE n == Len(c.todo)
               m == Len(Tail(c.todo))
    <3>3. n \in Nat \ {0} /\ n # 1 /\ m = n - 1
      BY <1>1, <1>3, <1>5
    <3> HIDE DEF n, m
    <3>1. n > 1 /\ m # 0
      BY <3>3
    <3>2. Len(<<>>) = 0
      OBVIOUS
    <3> QED BY <3>1, <3>2, Zenon DEF n, m
  <2>3. \A j \in 1..Len(d.todo) : j + 1 \in 1..Len(c.todo)
    BY <1>1, <1>3, <2>1
  <2>4. IsCall(d)
    BY <1>1, <1>3, <2>1, <2>2, <2>3 DEF IsCall
  <2> QED BY <1>2, <1>3, <1>5, <2>1, <2>2, <2>4 DEF Calls
<1> QED BY <1>4, <1>5

\* A call that fails is over, or cleans up.
LEMMA FailsStep ==
  ASSUME Calls, NEW p \in Callers, call[p].op # "none", Fails(p)
  PROVE  /\ Calls' /\ \A q \in Callers \ {p} : call'[q] = call[q]
         /\ call'[p].op \in {"none", call[p].op} /\ call'[p].fate = "error"
<1> DEFINE c == call[p]
           left == IF Head(c.todo) = "row" THEN <<"cleanup", "unkey">> ELSE <<"cleanup">>
           d == IF c.op # "create" \/ Head(c.todo) \in {"put", "enable"} THEN NoCall("error")
                ELSE [c EXCEPT !.fate = "error", !.todo = left]
<1>1. IsCall(c) /\ call = [q \in Callers |-> call[q]]
  BY DEF Calls
<1>2. call'[p] = d /\ (\A q \in Callers \ {p} : call'[q] = call[q]) /\ call' = [q \in Callers |-> call'[q]]
  <2>1. call' = [call EXCEPT ![p] = d]
    BY DEF Fails
  <2> HIDE DEF d
  <2> QED BY <1>1, <2>1
<1>3. IsCall(d) /\ d.op \in {"none", c.op} /\ d.fate = "error"
  <2>1. CASE c.op # "create" \/ Head(c.todo) \in {"put", "enable"}
    <3>1. d = NoCall("error")
      BY <2>1
    <3> HIDE DEF d
    <3> QED BY <3>1, NoCallIsCall
  <2>2. CASE ~(c.op # "create" \/ Head(c.todo) \in {"put", "enable"})
    <3>1. left \in Seq(AllSteps) /\ left # <<>>
      <4>1. <<"cleanup", "unkey">> \in Seq(AllSteps) /\ <<"cleanup">> \in Seq(AllSteps)
        BY DEF AllSteps, LightSteps
      <4> QED BY <4>1
    <3> HIDE DEF left
    <3>2. /\ d.op = "create" /\ d.fate = "error" /\ d.key = c.key /\ d.todo = left /\ c.op = "create"
          /\ {"op", "todo", "fate", "copy", "key", "into"} \subseteq DOMAIN d
      BY <1>1, <2>2 DEF IsCall
    <3> HIDE DEF d
    <3> QED BY <1>1, <3>1, <3>2 DEF IsCall, Provisioning
  <2> QED BY <2>1, <2>2
<1> HIDE DEF d
<1> QED BY <1>2, <1>3 DEF Calls

\* The step that a call is at.
LEMMA AtStep ==
  ASSUME WorkspaceInv, NEW p \in Callers, NEW s, At(p, s)
  PROVE  /\ call[p].op # "none"
         /\ s \notin LightSteps => call[p].op \in Provisioning
         /\ Creating(call[p]) => /\ Len(call[p].todo) \in 1..8
                                 /\ s = CreateSteps[9 - Len(call[p].todo)]
<1>1. /\ IsCall(call[p]) /\ call[p].op # "none" /\ Head(call[p].todo) = s
      /\ Creating(call[p]) => OnItsWay(call[p])
  BY DEF WorkspaceInv, Calls, Creations, At, Free
<1>2. /\ call[p].todo \in Seq(AllSteps) /\ call[p].todo # <<>>
      /\ Len(call[p].todo) \in Nat \ {0} /\ call[p].todo[1] = s
  BY <1>1 DEF IsCall
<1>3. ASSUME Creating(call[p])
      PROVE  /\ Len(call[p].todo) \in 1..8
             /\ s = CreateSteps[9 - Len(call[p].todo)]
  <2>1. Len(call[p].todo) \in 1..8 /\ s = CreateSteps[8 - Len(call[p].todo) + 1]
    <3>1. Len(call[p].todo) \in 1..8 /\ 1 \in 1..Len(call[p].todo)
          /\ \A j \in 1..Len(call[p].todo) : call[p].todo[j] = CreateSteps[8 - Len(call[p].todo) + j]
      <4>1. OnItsWay(call[p])
        BY <1>1, <1>3
      <4>2. Len(call[p].todo) \in 1..8
            /\ \A j \in 1..Len(call[p].todo) : call[p].todo[j] = CreateSteps[8 - Len(call[p].todo) + j]
        BY <4>1, Zenon DEF OnItsWay
      <4>3. 1 \in 1..Len(call[p].todo)
        BY <4>2
      <4> QED BY <4>2, <4>3, Zenon
    <3> QED BY <1>2, <3>1
  <2>2. 8 - Len(call[p].todo) + 1 = 9 - Len(call[p].todo)
    BY <2>1
  <2> QED BY <2>1, <2>2
<1>4. s \notin LightSteps => call[p].op \in Provisioning
  BY <1>1, <1>2 DEF IsCall
<1> QED BY <1>1, <1>3, <1>4

\* A step of a call keeps the invariant, if it leaves what its place in the list promises
\* and if only a provisioning call touches the worker and the key.
LEMMA StepKeeps ==
  ASSUME WorkspaceInv, NEW p \in Callers, call[p].op # "none", NEW copy,
         Goes(p, copy) \/ Fails(p),
         worker' \in WorkerRecords \cup {None},
         call[p].op \notin Provisioning => UNCHANGED <<worker, keyFile>>,
         NEW n, n = Len(call[p].todo) - 1, NEW key, key = call[p].key,
         Goes(p, copy) /\ Creating(call[p]) => copy \in RowRecords /\ Left(n, key)'
  PROVE  WorkspaceInv'
<1>0. Calls /\ OneByOne /\ Creations
  BY DEF WorkspaceInv
<1>1. /\ Calls' /\ \A q \in Callers \ {p} : call'[q] = call[q]
      /\ call'[p].op \in {"none", call[p].op}
  BY <1>0, GoesStep, FailsStep
<1>2. OneByOne'
  BY <1>0, <1>1 DEF OneByOne, Provisioning
<1>3. ASSUME NEW q \in Callers, q # p, Creating(call'[q])
      PROVE  OnItsWay(call'[q]) /\ Reached(call[q])'
  <2>1. call'[q] = call[q] /\ OnItsWay(call[q]) /\ Reached(call[q])
    BY <1>0, <1>1, <1>3 DEF Creations
  <2>2. call[p].op \notin Provisioning
    BY <1>0, <1>3, <2>1 DEF OneByOne, Creating, Provisioning
  <2> QED BY <2>1, <2>2 DEF Reached, Left
<1>4. ASSUME Creating(call'[p])
      PROVE  OnItsWay(call'[p]) /\ Reached(call[p])'
  <2>1. Goes(p, copy) /\ Len(call[p].todo) # 1 /\ Creating(call[p])
    BY <1>0, <1>4, GoesStep, FailsStep DEF Creating
  <2>2. LET c == call[p]
            d == call'[p]
        IN  /\ d.key = c.key /\ d.copy = copy
            /\ Len(c.todo) > 1 /\ Len(d.todo) = Len(c.todo) - 1
            /\ \A j \in 1..Len(d.todo) : d.todo[j] = c.todo[j + 1]
    BY <1>0, <2>1, GoesStep
  <2>3. OnItsWay(call[p])
    BY <1>0, <2>1 DEF Creations
  <2>4. OnItsWay(call'[p])
    <3> DEFINE m == Len(call'[p].todo)
    <3>1. Len(call[p].todo) = m + 1 /\ m \in 1..8
      BY <2>2, <2>3 DEF OnItsWay
    <3>2. ASSUME NEW j \in 1..m PROVE call'[p].todo[j] = CreateSteps[8 - m + j]
      <4>1. /\ call'[p].todo[j] = call[p].todo[j + 1] /\ j + 1 \in 1..(m + 1)
            /\ 8 - (m + 1) + (j + 1) = 8 - m + j
        BY <2>2, <3>1
      <4>2. call[p].todo[j + 1] = CreateSteps[8 - (m + 1) + (j + 1)]
        BY <2>3, <3>1, <4>1 DEF OnItsWay
      <4> QED BY <4>1, <4>2
    <3> QED BY <2>1, <2>2, <3>1, <3>2 DEF OnItsWay
  <2> QED BY <2>1, <2>2, <2>4 DEF Reached
<1> QED BY <1>1, <1>2, <1>3, <1>4 DEF WorkspaceInv, Creations

\* The place in the list of each step, with n to go.
InPlace(s, n) ==
  /\ n = 8 <=> s = "put"
  /\ n = 7 <=> s = "enable"
  /\ n = 6 <=> s = "pat"
  /\ n = 5 <=> s = "anthropic"
  /\ n = 4 <=> s = "token"
  /\ n = 3 <=> s = "ckey"
  /\ n = 2 <=> s = "setkey"
  /\ n = 1 <=> s = "row"

LEMMA StepPlace ==
  ASSUME NEW n \in 1..8, NEW s, s = CreateSteps[9 - n]
  PROVE  InPlace(s, n)
<1>1. n = 1 \/ n = 2 \/ n = 3 \/ n = 4 \/ n = 5 \/ n = 6 \/ n = 7 \/ n = 8
  OBVIOUS
<1> QED BY <1>1 DEF CreateSteps, InPlace

\* A step of a call, by its name: a creation is where it stands in the list.
LEMMA NamedStep ==
  ASSUME WorkspaceInv, NEW p \in Callers, NEW s, At(p, s), NEW copy,
         Goes(p, copy) \/ Fails(p),
         worker' \in WorkerRecords \cup {None},
         s \in LightSteps => UNCHANGED <<worker, keyFile>>,
         Goes(p, copy) /\ Creating(call[p]) => copy \in RowRecords,
         ASSUME NEW m \in 1..8, NEW key, Goes(p, copy), key = call[p].key,
                InPlace(s, m), worker \in WorkerRecords \cup {None}, Left(m, key)
         PROVE  Left(m - 1, key)'
  PROVE  WorkspaceInv'
<1>1. PICK m, n, key : m = Len(call[p].todo) /\ n = Len(call[p].todo) - 1 /\ key = call[p].key
  OBVIOUS
<1>2. /\ call[p].op # "none"
      /\ call[p].op \notin Provisioning => UNCHANGED <<worker, keyFile>>
  BY AtStep
<1>3. ASSUME Goes(p, copy), Creating(call[p]) PROVE Left(n, key)'
  <2>1. m \in 1..8 /\ s = CreateSteps[9 - m]
    BY <1>1, <1>3, AtStep
  <2>2. InPlace(s, m)
    BY <2>1, StepPlace
  <2>3. Left(m, key) /\ worker \in WorkerRecords \cup {None}
    BY <1>1, <1>3 DEF WorkspaceInv, Creations, Reached
  <2>4. n = m - 1
    BY <1>1, <2>1
  <2> QED BY <1>1, <1>3, <2>1, <2>2, <2>3, <2>4
<1> QED BY <1>1, <1>2, <1>3, StepKeeps

\* A step of the Cloudflare API.
LEMMA ApiStep ==
  ASSUME WorkspaceInv, NEW p \in Callers, NEW s, At(p, s), s \notin LightSteps,
         NEW w \in WorkerRecords, Api(p, w),
         ASSUME NEW m \in 1..8, NEW key, key = call[p].key, InPlace(s, m),
                worker \in WorkerRecords \cup {None}, Left(m, key), worker' = w, UNCHANGED keyFile
         PROVE  Left(m - 1, key)'
  PROVE  WorkspaceInv'
<1>1. /\ UNCHANGED keyFile
      /\ (worker' = w /\ Goes(p, call[p].copy)) \/ (worker' \in {worker, w} /\ Fails(p))
  BY DEF Api, Done, remote
<1>2. worker' \in WorkerRecords \cup {None} /\ Calls
  BY <1>1 DEF WorkspaceInv
<1>3. Creating(call[p]) => call[p].copy \in RowRecords
  BY DEF WorkspaceInv, Creations, OnItsWay
<1>4. CASE Fails(p)
  <2>1. ~Goes(p, call[p].copy) \/ ~Creating(call[p])
    BY <1>2, <1>4, AtStep, GoesStep, FailsStep DEF Creating
  <2> QED BY <1>2, <1>3, <1>4, <2>1, AtStep, StepKeeps
<1>5. CASE worker' = w /\ Goes(p, call[p].copy)
  BY <1>1, <1>2, <1>3, <1>5, NamedStep
<1> QED BY <1>1, <1>4, <1>5

LEMMA WorkerSteps ==
  ASSUME WorkspaceInv, NEW p \in Callers,
         Put(p) \/ Enable(p) \/ StorePAT(p) \/ StoreAPIKey(p) \/ StoreKey(p)
  PROVE  WorkspaceInv' /\ UNCHANGED row
<1>0. worker \in WorkerRecords \cup {None} /\ Calls /\ call[p].key \in Keys \cup {None} /\ None \notin WorkerRecords
  BY WorkspacesAssumption DEF WorkspaceInv, Calls, IsCall
<1>t. UNCHANGED row
  BY DEF Put, Enable, StorePAT, StoreAPIKey, StoreKey, OnWorker, Api, registry
<1>1. CASE Put(p)
  <2> DEFINE new == [secrets |-> {}, key |-> None, enabled |-> FALSE]
  <2>1. PICK w \in {new} \cup ({worker} \ {None}) : Api(p, w)
    BY <1>1 DEF Put
  <2>2. new \in WorkerRecords
    BY DEF WorkerRecords
  <2>3. w \in WorkerRecords /\ At(p, "put") /\ "put" \notin LightSteps
    BY <1>0, <1>1, <2>2 DEF Put, LightSteps
  <2>4. ASSUME NEW m \in 1..8, NEW key, InPlace("put", m), worker' = w
        PROVE  Left(m - 1, key)'
    BY <1>0, <2>3, <2>4 DEF Left, InPlace
  <2> QED BY <1>t, <2>1, <2>3, <2>4, ApiStep
<1>2. ASSUME NEW s, At(p, s), s \notin LightSteps, NEW w, worker # None => w \in WorkerRecords, OnWorker(p, w),
             ASSUME NEW m \in 1..8, NEW key, key = call[p].key, InPlace(s, m),
                    worker \in WorkerRecords, Left(m, key), worker' = w, UNCHANGED keyFile
             PROVE  Left(m - 1, key)'
      PROVE  WorkspaceInv'
  <2>1. CASE worker # None
    BY <1>0, <1>2, <2>1, ApiStep DEF OnWorker
  <2>2. CASE worker = None
    <3>1. Fails(p) /\ UNCHANGED <<worker, keyFile>>
      BY <1>2, <2>2 DEF OnWorker, remote
    <3>2. ~Goes(p, None) \/ ~Creating(call[p])
      BY <1>0, <1>2, <3>1, AtStep, GoesStep, FailsStep DEF Creating
    <3> QED BY <1>0, <1>2, <3>1, <3>2, AtStep, StepKeeps
  <2> QED BY <2>1, <2>2
<1>3. CASE Enable(p)
  <2> DEFINE w == [worker EXCEPT !.enabled = TRUE]
  <2>1. worker \in WorkerRecords => w \in WorkerRecords /\ w.enabled
    BY DEF WorkerRecords
  <2>2. At(p, "enable") /\ OnWorker(p, w) /\ "enable" \notin LightSteps
    BY <1>3 DEF Enable, LightSteps
  <2> HIDE DEF w
  <2>3. ASSUME NEW m \in 1..8, NEW key, InPlace("enable", m), worker \in WorkerRecords, worker' = w
        PROVE  Left(m - 1, key)'
    BY <1>0, <2>1, <2>3 DEF Left, InPlace
  <2> QED BY <1>0, <1>t, <1>2, <2>1, <2>2, <2>3
<1>4. CASE StorePAT(p)
  <2> DEFINE w == [worker EXCEPT !.secrets = @ \cup {"GITHUB_PAT"}]
  <2>1. worker \in WorkerRecords => w \in WorkerRecords /\ w.enabled = worker.enabled /\ "GITHUB_PAT" \in w.secrets
    BY DEF WorkerRecords
  <2>2. At(p, "pat") /\ OnWorker(p, w) /\ "pat" \notin LightSteps
    BY <1>4 DEF StorePAT, LightSteps
  <2> HIDE DEF w
  <2>3. ASSUME NEW m \in 1..8, NEW key, InPlace("pat", m), Left(m, key), worker \in WorkerRecords, worker' = w
        PROVE  Left(m - 1, key)'
    BY <1>0, <2>1, <2>3 DEF Left, InPlace
  <2> QED BY <1>0, <1>t, <1>2, <2>1, <2>2, <2>3
<1>5. CASE StoreAPIKey(p)
  <2> DEFINE w == [worker EXCEPT !.secrets = @ \cup {"ANTHROPIC_API_KEY"}]
  <2>1. worker \in WorkerRecords => /\ w \in WorkerRecords /\ w.enabled = worker.enabled
                                    /\ worker.secrets \cup {"ANTHROPIC_API_KEY"} = w.secrets
    BY DEF WorkerRecords
  <2>2. At(p, "anthropic") /\ OnWorker(p, w) /\ "anthropic" \notin LightSteps
    BY <1>5 DEF StoreAPIKey, LightSteps
  <2> HIDE DEF w
  <2>3. ASSUME NEW m \in 1..8, NEW key, InPlace("anthropic", m), Left(m, key), worker \in WorkerRecords, worker' = w
        PROVE  Left(m - 1, key)'
    BY <1>0, <2>1, <2>3 DEF Left, InPlace
  <2> QED BY <1>0, <1>t, <1>2, <2>1, <2>2, <2>3
<1>6. CASE StoreKey(p)
  <2> DEFINE w == [worker EXCEPT !.key = call[p].key]
  <2>1. worker \in WorkerRecords => /\ w \in WorkerRecords /\ w.enabled = worker.enabled
                                    /\ w.secrets = worker.secrets /\ w.key = call[p].key
    BY <1>0 DEF WorkerRecords
  <2>2. At(p, "ckey") /\ OnWorker(p, w) /\ "ckey" \notin LightSteps
    BY <1>6 DEF StoreKey, LightSteps
  <2> HIDE DEF w
  <2>3. ASSUME NEW m \in 1..8, NEW key, key = call[p].key, InPlace("ckey", m), Left(m, key),
               worker \in WorkerRecords, worker' = w
        PROVE  Left(m - 1, key)'
    BY <1>0, <2>1, <2>3 DEF Left, InPlace
  <2> QED BY <1>0, <1>t, <1>2, <2>1, <2>2, <2>3
<1> QED BY <1>1, <1>3, <1>4, <1>5, <1>6

LEMMA RefOfRow ==
  ASSUME NEW r \in RowRecords, NEW ref \in {"", "keyring", "file"}
  PROVE  [r EXCEPT !.ref = ref] \in RowRecords
BY DEF RowRecords

\* The steps that do not touch the worker.
LEMMA OwnSteps ==
  ASSUME WorkspaceInv, NEW p \in Callers, Step(p),
         ~(Put(p) \/ Enable(p) \/ StorePAT(p) \/ StoreAPIKey(p) \/ StoreKey(p))
  PROVE  WorkspaceInv'
<1>0. /\ worker \in WorkerRecords \cup {None} /\ Calls
      /\ Creating(call[p]) => call[p].copy \in RowRecords
  BY DEF WorkspaceInv, Creations, OnItsWay
<1>1. ASSUME NEW s, At(p, s), Goes(p, call[p].copy) \/ Fails(p), UNCHANGED worker,
             s \in LightSteps => UNCHANGED keyFile,
             s \notin {"put", "enable", "pat", "anthropic", "ckey"},
             Goes(p, call[p].copy) /\ s = "setkey" => keyFile' = call[p].key,
             s = "row" \/ s = "token" => UNCHANGED keyFile
      PROVE  WorkspaceInv'
  <2>1. ASSUME NEW m \in 1..8, NEW key, Goes(p, call[p].copy), key = call[p].key, InPlace(s, m), Left(m, key)
        PROVE  Left(m - 1, key)'
    BY <1>1, <2>1 DEF Left, InPlace
  <2>2. /\ worker' \in WorkerRecords \cup {None}
        /\ s \in LightSteps => UNCHANGED <<worker, keyFile>>
        /\ Goes(p, call[p].copy) /\ Creating(call[p]) => call[p].copy \in RowRecords
    BY <1>0, <1>1
  <2>3. PICK copy : copy = call[p].copy
    OBVIOUS
  <2> QED BY <1>1, <2>1, <2>2, <2>3, NamedStep
<1>2. ASSUME NEW s \in {"token", "file"}, At(p, s), NEW copy, Goes(p, copy), UNCHANGED <<worker, keyFile>>,
             Creating(call[p]) => copy \in RowRecords
      PROVE  WorkspaceInv'
  <2>1. ASSUME NEW m \in 1..8, NEW key, InPlace(s, m), Left(m, key)
        PROVE  Left(m - 1, key)'
    BY <1>2, <2>1 DEF Left, InPlace
  <2>2. /\ worker' \in WorkerRecords \cup {None}
        /\ s \in LightSteps => UNCHANGED <<worker, keyFile>>
        /\ Goes(p, copy) \/ Fails(p)
        /\ Goes(p, copy) /\ Creating(call[p]) => copy \in RowRecords
    BY <1>0, <1>2
  <2> QED BY <1>2, <2>1, <2>2, NamedStep
<1>3. CASE StoreToken(p)
  <2>1. UNCHANGED <<worker, keyFile>> /\ At(p, "token")
    BY <1>3 DEF StoreToken
  <2>2. \/ Goes(p, [call[p].copy EXCEPT !.ref = "keyring"])
        \/ Goes(p, [call[p].copy EXCEPT !.ref = ""])
        \/ Fails(p)
    BY <1>3 DEF StoreToken
  <2>3. CASE Fails(p)
    BY <1>1, <2>1, <2>3
  <2>4. ASSUME NEW ref \in {"keyring", ""}, Goes(p, [call[p].copy EXCEPT !.ref = ref])
        PROVE  WorkspaceInv'
    <3>1. PICK copy : copy = [call[p].copy EXCEPT !.ref = ref]
      OBVIOUS
    <3>2. Creating(call[p]) => copy \in RowRecords
      BY <1>0, <3>1, RefOfRow
    <3> QED BY <1>2, <2>1, <2>4, <3>1, <3>2
  <2> QED BY <2>2, <2>3, <2>4
<1>4. CASE StoreTokenFile(p)
  <2>1. UNCHANGED <<worker, keyFile>> /\ At(p, "file")
        /\ (Goes(p, [call[p].copy EXCEPT !.ref = "file"]) \/ Fails(p))
    BY <1>4 DEF StoreTokenFile
  <2>2. PICK copy : copy = [call[p].copy EXCEPT !.ref = "file"]
    OBVIOUS
  <2>3. Creating(call[p]) => copy \in RowRecords
    BY <1>0, <2>2, RefOfRow
  <2>4. CASE Fails(p)
    BY <1>1, <2>1, <2>4
  <2>5. CASE Goes(p, copy)
    BY <1>2, <2>1, <2>3, <2>5
  <2> QED BY <2>1, <2>2, <2>4, <2>5
<1>5. CASE SetKey(p)
  <2>1. /\ At(p, "setkey") /\ UNCHANGED worker /\ "setkey" \notin LightSteps
        /\ \/ keyFile' = call[p].key /\ Goes(p, call[p].copy)
           \/ Fails(p) /\ UNCHANGED keyFile
    BY <1>5 DEF SetKey, Done, LightSteps
  <2>2. PICK copy, n, key : copy = call[p].copy /\ n = Len(call[p].todo) - 1 /\ key = call[p].key
    OBVIOUS
  <2>3. CASE Fails(p) /\ UNCHANGED keyFile
    <3>1. ~Goes(p, copy) \/ ~Creating(call[p])
      BY <1>0, <2>1, <2>3, AtStep, GoesStep, FailsStep DEF Creating
    <3> QED BY <1>0, <2>1, <2>2, <2>3, <3>1, AtStep, StepKeeps
  <2>4. CASE keyFile' = call[p].key /\ Goes(p, copy)
    BY <1>1, <2>1, <2>2, <2>4
  <2> QED BY <2>1, <2>2, <2>3, <2>4
<1>6. CASE Unkey(p) \/ RemoveSecrets(p)
  <2>1. /\ Goes(p, call[p].copy) /\ UNCHANGED worker
        /\ At(p, "unkey") \/ At(p, "secrets")
    BY <1>6 DEF Unkey, RemoveSecrets, Done
  <2> QED BY <1>1, <2>1 DEF LightSteps
<1>7. CASE Cleanup(p)
  <2>1. /\ Goes(p, call[p].copy) /\ worker' \in {worker, None}
        /\ At(p, "cleanup") /\ "cleanup" \notin LightSteps
    BY <1>7 DEF Cleanup, Done, LightSteps
  <2>2. PICK copy, n, key : copy = call[p].copy /\ n = Len(call[p].todo) - 1 /\ key = call[p].key
    OBVIOUS
  <2>3. ~Creating(call[p])
    <3>1. ASSUME NEW m \in 1..8 PROVE ~InPlace("cleanup", m)
      BY DEF InPlace
    <3>2. PICK m : m = Len(call[p].todo)
      OBVIOUS
    <3>3. Creating(call[p]) => m \in 1..8 /\ "cleanup" = CreateSteps[9 - m]
      BY <2>1, <3>2, AtStep
    <3> QED BY <3>1, <3>3, StepPlace
  <2>4. worker' \in WorkerRecords \cup {None}
    BY <1>0, <2>1
  <2>5. call[p].op # "none" /\ call[p].op \in Provisioning
    BY <2>1, AtStep
  <2> QED BY <2>1, <2>2, <2>3, <2>4, <2>5, StepKeeps
<1>8. CASE ForgetToken(p) \/ WriteRow(p) \/ DropRow(p) \/ RemoveMembers(p) \/ RebindPools(p) \/ InsertMember(p)
  <2>1. /\ Goes(p, call[p].copy) \/ Fails(p)
        /\ UNCHANGED <<worker, keyFile>>
        /\ \E s \in {"forget", "row", "drop", "members", "pools", "insert"} : At(p, s)
    BY <1>8 DEF ForgetToken, WriteRow, DropRow, RemoveMembers, RebindPools, InsertMember, Done, Save, remote
  <2> QED BY <1>1, <2>1
<1> QED BY <1>3, <1>4, <1>5, <1>6, <1>7, <1>8 DEF Step

\* What a step of a call is.
LEMMA StepShape ==
  ASSUME NEW p \in Callers, Step(p)
  PROVE  \E s, copy : /\ At(p, s)
                      /\ Goes(p, copy) \/ Fails(p)
                      /\ s \in {"row", "drop"} \/ UNCHANGED row
                      /\ s = "row" => WriteRow(p)
<1>1. CASE Put(p) \/ Enable(p) \/ StorePAT(p) \/ StoreAPIKey(p) \/ StoreKey(p)
  <2>1. /\ Goes(p, call[p].copy) \/ Fails(p)
        /\ UNCHANGED row
        /\ \E s \in {"put", "enable", "pat", "anthropic", "ckey"} : At(p, s)
    BY <1>1 DEF Put, Enable, StorePAT, StoreAPIKey, StoreKey, OnWorker, Api, Done, registry
  <2> QED BY <2>1
<1>2. CASE Cleanup(p) \/ SetKey(p) \/ Unkey(p) \/ ForgetToken(p) \/ RemoveSecrets(p) \/ RemoveMembers(p)
           \/ RebindPools(p) \/ InsertMember(p)
  <2>1. /\ Goes(p, call[p].copy) \/ Fails(p)
        /\ UNCHANGED row
        /\ \E s \in {"cleanup", "setkey", "unkey", "forget", "secrets", "members", "pools", "insert"} : At(p, s)
    BY <1>2 DEF Cleanup, SetKey, Unkey, ForgetToken, RemoveSecrets, RemoveMembers, RebindPools,
                InsertMember, Done, registry
  <2> QED BY <2>1
<1>3. CASE StoreToken(p) \/ StoreTokenFile(p)
  <2>1. /\ \/ Fails(p)
           \/ \E ref \in {"keyring", "", "file"} : Goes(p, [call[p].copy EXCEPT !.ref = ref])
        /\ UNCHANGED row
        /\ \E s \in {"token", "file"} : At(p, s)
    BY <1>3 DEF StoreToken, StoreTokenFile, registry
  <2> QED BY <2>1
<1>4. CASE WriteRow(p)
  <2>1. At(p, "row") /\ (Goes(p, call[p].copy) \/ Fails(p))
    BY <1>4 DEF WriteRow, Save, Done
  <2> QED BY <1>4, <2>1
<1>5. CASE DropRow(p)
  <2>1. At(p, "drop") /\ (Goes(p, call[p].copy) \/ Fails(p))
    BY <1>5 DEF DropRow, Save, Done
  <2> QED BY <2>1
<1> QED BY <1>1, <1>2, <1>3, <1>4, <1>5 DEF Step

LEMMA WorkspaceStarts ==
  ASSUME Init
  PROVE  WorkspaceInv
BY NoCallIsCall DEF Init, WorkspaceInv, Calls, OneByOne, Creations, Creating, Provisioning

\* What happens beside the calls.
LEMMA AsideSteps ==
  ASSUME Next, \A p \in Callers : ~Begin(p) /\ ~Step(p)
  PROVE  \/ UNCHANGED <<worker, keyFile, call, row>>
         \/ UNCHANGED <<worker, keyFile>> /\ call' = [p \in Callers |-> NoCall("crashed")]
BY DEF Next, LeaveCollection, CreateCollection, DeleteCollection, BindPool, Crash, registry, remote

LEMMA WorkspaceKept ==
  ASSUME WorkspaceInv, Careful = TRUE, [Next]_vars
  PROVE  WorkspaceInv'
<1>1. CASE UNCHANGED <<worker, keyFile, call>>
  BY <1>1 DEF WorkspaceInv, Calls, OneByOne, Creations, Reached, Left
<1>2. CASE \E p \in Callers : Begin(p)
  BY <1>2, BeginStep
<1>3. CASE \E p \in Callers : Step(p)
  BY <1>3, WorkerSteps, OwnSteps
<1>4. CASE UNCHANGED <<worker, keyFile>> /\ call' = [p \in Callers |-> NoCall("crashed")]
  BY <1>4, NoCallIsCall DEF WorkspaceInv, Calls, OneByOne, Creations, Creating, Provisioning
<1> QED BY <1>1, <1>2, <1>3, <1>4, AsideSteps DEF vars, remote

\* A creation that gets on: it writes the row last, and then all that it promises is there.
LEMMA CreationStep ==
  ASSUME WorkspaceInv, Careful = TRUE, [Next]_vars, NEW p \in Callers,
         call[p].op = "create", call'[p] # call[p], call'[p].fate = "ok"
  PROVE  /\ row' # row => call'[p].op = "none"
         /\ call'[p].op = "none" => row' # None /\ Backed'
<1>0. Calls /\ Creations /\ worker \in WorkerRecords \cup {None} /\ call[p].op # "none"
  BY DEF WorkspaceInv
<1>1. ~ UNCHANGED call /\ call' # [q \in Callers |-> NoCall("crashed")]
  BY NoCallIsCall
<1>2. \A q \in Callers : ~Begin(q)
  BY BeginStep
<1>3. PICK q \in Callers : Step(q)
  BY <1>1, <1>2, AsideSteps DEF vars
<1>4. PICK s, copy : /\ At(q, s)
                     /\ Goes(q, copy) \/ Fails(q)
                     /\ s \in {"row", "drop"} \/ UNCHANGED row
                     /\ s = "row" => WriteRow(q)
  BY <1>3, StepShape
<1>5. q = p /\ call[q].op # "none" /\ Goes(p, copy)
  BY <1>0, <1>4, AtStep, GoesStep, FailsStep
<1>6. PICK n, key : n = Len(call[p].todo) /\ key = call[p].key
  OBVIOUS
<1>7. /\ call[p].fate = "ok"
      /\ n = 1 <=> call'[p].op = "none"
  BY <1>0, <1>5, <1>6, GoesStep
<1>8. /\ Creating(call[p]) /\ Left(n, key) /\ call[p].copy \in RowRecords
      /\ n \in 1..8 /\ InPlace(s, n)
  BY <1>0, <1>4, <1>5, <1>6, <1>7, AtStep, StepPlace DEF Creating, Creations, OnItsWay, Reached
<1>9. row' # row => call'[p].op = "none"
  BY <1>4, <1>7, <1>8 DEF InPlace
<1>10. ASSUME call'[p].op = "none"
       PROVE  row' # None /\ Backed'
  <2>1. n = 1 /\ s = "row" /\ WriteRow(p)
    BY <1>4, <1>5, <1>7, <1>8, <1>10 DEF InPlace
  <2>2. UNCHANGED <<worker, keyFile>> /\ (row' = call[p].copy \/ (UNCHANGED row /\ Fails(p)))
    <3>1. UNCHANGED <<worker, keyFile>> /\ (Save(p, call[p].copy) \/ (Fails(p) /\ UNCHANGED registry))
      BY <2>1 DEF WriteRow, remote
    <3> QED BY <3>1 DEF Save, registry
  <2>3. ~Fails(p)
    BY <1>0, FailsStep
  <2>4. row' \in RowRecords
    BY <1>8, <2>2, <2>3
  <2>5. Backed
    BY <1>0, <1>8, <2>1 DEF Left, Backed, Secrets, WorkerRecords
  <2> QED BY <2>2, <2>4, <2>5, WorkspacesAssumption DEF Backed
<1> QED BY <1>9, <1>10

\* A step of the whole is a step of each part, or leaves it alone.
recordsVars == <<scene, vars, plansOf, storeOf, reviewOf, fanoutOf, boundsOf>>

LEMMA PartSteps ==
  ASSUME [RecordsNext]_recordsVars
  PROVE  /\ [Next]_vars /\ [Desk!Next]_plansOf /\ [Store!Next]_storeOf
         /\ [Follow!Next]_fanoutOf /\ [Review!Next]_reviewOf
<1>1. [Next]_vars
  BY DEF RecordsNext, recordsVars
<1>2. [Desk!Next]_plansOf
  BY DEF RecordsNext, recordsVars
<1>3. [Follow!Next]_fanoutOf /\ [Review!Next]_reviewOf
  BY DEF RecordsNext, recordsVars
<1>4. [Store!Next]_storeOf
  BY DEF RecordsNext, recordsVars
<1> QED BY <1>1, <1>2, <1>3, <1>4

\* A call that creates a workspace is alone with the worker and knows what it has left there
\* (CreateRemoteWorkspace and its RemoteCleanup), when calls come one at a time.
THEOREM WorkspaceInvariance ==
  ASSUME Careful = TRUE
  PROVE  RecordsSpec => []WorkspaceInv
<1>1. RecordsInit => WorkspaceInv
  BY WorkspaceStarts DEF RecordsInit
<1>2. WorkspaceInv /\ [RecordsNext]_recordsVars => WorkspaceInv'
  BY PartSteps, WorkspaceKept
<1> QED BY <1>1, <1>2, PTL DEF RecordsSpec, recordsVars

\* A call of CreateRemoteWorkspace that returns without an error leaves a worker that is up,
\* has every secret and knows the conductor's key; and it writes the row last.  Provisioning
\* calls run one at a time, and create new ids only.
THEOREM CreationsAreWhole ==
  ASSUME Careful = TRUE
  PROVE  RecordsSpec => CreateIsAtomic
<1>1. WorkspaceInv /\ [RecordsNext]_recordsVars =>
        [\A p \in Callers :
           (call[p].op = "create" /\ call'[p] # call[p] /\ call'[p].fate = "ok") =>
             /\ row' # row => call'[p].op = "none"
             /\ call'[p].op = "none" => row' # None /\ Backed']_vars
  BY PartSteps, CreationStep
<1> QED BY <1>1, WorkspaceInvariance, PTL DEF RecordsSpec, recordsVars, CreateIsAtomic

\* A workspace is in one collection at most, whoever adds it and whatever was checked before.
THEOREM MemberOfOne == RecordsSpec => []SingleMembership
<1>1. RecordsInit => SingleMembership
  BY DEF RecordsInit, Init, SingleMembership
<1>2. ASSUME SingleMembership, [RecordsNext]_recordsVars
      PROVE  SingleMembership'
  <2>1. [Next]_vars
    BY <1>2, PartSteps
  <2>2. members' \subseteq members \/ (members = {} /\ \E c : members' = {c})
    <3>1. CASE \E p \in Callers : Begin(p)
      BY <3>1 DEF Begin, CreateRemoteWorkspace, AddWorkspace, DeployRemoteWorker, RotateRemoteWorkerKey,
                  ReplaceCFToken, StoreCFTokenFileFallback, UpdateWorkspace, ConvertWorkspaceToLocal,
                  ProbeEndpoint, RemoveWorkspace, JoinCollection, Start, groups
    <3>2. ASSUME NEW p \in Callers, Step(p)
          PROVE  members' \subseteq members \/ (members = {} /\ \E c : members' = {c})
      <4>1. CASE InsertMember(p)
        BY <4>1 DEF InsertMember, Admitted
      <4>2. CASE ~InsertMember(p)
        BY <3>2, <4>2 DEF Step, Put, Enable, StorePAT, StoreAPIKey, StoreKey, OnWorker, Api, Cleanup,
                          SetKey, Unkey, StoreToken, StoreTokenFile, ForgetToken, RemoveSecrets, WriteRow,
                          DropRow, RemoveMembers, RebindPools, groups
      <4> QED BY <4>1, <4>2
    <3>3. CASE (\E c \in Collections : LeaveCollection(c) \/ CreateCollection(c) \/ DeleteCollection(c))
               \/ BindPool \/ Crash
      BY <3>3 DEF LeaveCollection, CreateCollection, DeleteCollection, BindPool, Crash, groups
    <3>4. CASE UNCHANGED vars
      BY <3>4 DEF vars, groups
    <3> QED BY <2>1, <3>1, <3>2, <3>3, <3>4 DEF Next
  <2> QED BY <1>2, <2>2 DEF SingleMembership
<1> QED BY <1>1, <1>2, PTL DEF RecordsSpec, recordsVars

-----------------------------------------------------------------------------
\* Follow-up issues.  A proposal is not on record as filed while a request files it; so
\* what the record says of it when the request is through is not said over again.

FanoutTypes ==
  /\ issues \in Seq(Proposals)
  /\ status = [p \in Proposals |-> status[p]]
  /\ number = [p \in Proposals |-> number[p]]
  /\ {"pc", "of", "as"} \subseteq DOMAIN filing
  /\ filing.pc # "idle" => filing.of \in Proposals

FilingOne ==
  /\ filing.pc \in {"create", "record"} => status[filing.of] # "approved"
  /\ filing.pc = "record" => filing.as \in DOMAIN issues /\ issues[filing.as] = filing.of

FanoutInv == FanoutTypes /\ FilingOne /\ FiledOnRecord

LEMMA FanoutStarts ==
  ASSUME Follow!Init
  PROVE  FanoutInv
BY DEF Follow!Init, Follow!Idle, FanoutInv, FanoutTypes, FilingOne, FiledOnRecord, Follow!FiledOnRecord

LEMMA FanoutKept ==
  ASSUME FanoutInv, [Follow!Next]_fanoutOf
  PROVE  FanoutInv'
<1> USE DEF FanoutInv, FanoutTypes, FilingOne, FiledOnRecord, Follow!FiledOnRecord
<1>0. issues \in Seq(Proposals) /\ DOMAIN issues = 1..Len(issues) /\ Len(issues) \in Nat
  OBVIOUS
<1>1. CASE UNCHANGED fanoutOf
  BY <1>1 DEF fanoutOf
<1>2. CASE \E s \in Analyses : Follow!TriggerFanoutAnalysis(s) \/ Follow!AnalysisEnds(s)
                               \/ \E ps \in SUBSET Proposals : Follow!Write(s, ps)
  BY <1>2 DEF Follow!TriggerFanoutAnalysis, Follow!AnalysisEnds, Follow!Write, Follow!rows
<1>3. ASSUME NEW s \in Analyses, Follow!HandleFanoutWritten(s)
      PROVE  FanoutInv'
  <2>1. CASE UNCHANGED <<status, number, unrecorded>>
    BY <1>3, <2>1 DEF Follow!HandleFanoutWritten
  <2>2. CASE /\ status' = Follow!Emitted
             /\ number' = [p \in Proposals |-> IF p \in file THEN 0 ELSE number[p]]
             /\ unrecorded' = unrecorded \cup {p \in file : number[p] # 0}
    <3>1. UNCHANGED <<filing, issues>>
      BY <1>3 DEF Follow!HandleFanoutWritten
    <3>2. \A p \in Proposals : /\ status'[p] = IF p \in file THEN "pending" ELSE status[p]
                               /\ number'[p] = IF p \in file THEN 0 ELSE number[p]
      BY <2>2 DEF Follow!Emitted
    <3>3. FanoutTypes' /\ FilingOne'
      BY <2>2, <3>1, <3>2 DEF Follow!Emitted
    <3>4. ASSUME NEW n \in DOMAIN issues
          PROVE  \/ issues[n] \in unrecorded'
                 \/ status'[issues[n]] = "approved" /\ number'[issues[n]] = n
                 \/ filing.pc = "record" /\ filing.as = n
      <4>1. issues[n] \in Proposals /\ n # 0
        BY <1>0
      <4> QED BY <2>2, <3>2, <4>1
    <3> QED BY <3>1, <3>3, <3>4
  <2> QED BY <1>3, <2>1, <2>2 DEF Follow!HandleFanoutWritten, Follow!rows
<1>4. ASSUME NEW p \in Proposals, Follow!ApproveFanoutProposal(p)
      PROVE  FanoutInv'
  <2>1. UNCHANGED <<issues, status, number, unrecorded>> /\ filing.pc = "idle"
    BY <1>4 DEF Follow!ApproveFanoutProposal, Follow!rows
  <2>2. \/ UNCHANGED filing
        \/ /\ status[p] # "approved" /\ filing'.pc = "create" /\ filing'.of = p
           /\ {"pc", "of", "as"} \subseteq DOMAIN filing'
    BY <1>4 DEF Follow!ApproveFanoutProposal, Follow!ToFile, Follow!Idle
  <2> QED BY <2>1, <2>2
<1>5. ASSUME NEW p \in Proposals, Follow!DismissFanoutProposal(p)
      PROVE  FanoutInv'
  <2>1. /\ UNCHANGED <<issues, number, filing>> /\ filing.pc = "idle"
        /\ status' = [status EXCEPT ![p] = "dismissed"]
        /\ unrecorded' = IF number[p] # 0 THEN unrecorded \cup {p} ELSE unrecorded
    BY <1>5 DEF Follow!DismissFanoutProposal
  <2>2. \A o \in Proposals : status'[o] = IF o = p THEN "dismissed" ELSE status[o]
    BY <2>1
  <2>3. FanoutTypes' /\ FilingOne'
    BY <2>1, <2>2
  <2>4. ASSUME NEW n \in DOMAIN issues
        PROVE  issues[n] \in unrecorded' \/ (status'[issues[n]] = "approved" /\ number[issues[n]] = n)
    <3>1. issues[n] \in Proposals /\ n # 0
      BY <1>0
    <3>2. issues[n] \in unrecorded \/ (status[issues[n]] = "approved" /\ number[issues[n]] = n)
      BY <2>1
    <3>3. CASE issues[n] # p
      BY <2>1, <2>2, <3>1, <3>2, <3>3
    <3>4. CASE issues[n] = p
      BY <2>1, <3>1, <3>2, <3>4
    <3> QED BY <3>3, <3>4
  <2>5. FiledOnRecord'
    BY <2>1, <2>4
  <2> QED BY <2>3, <2>5
<1>6. CASE Follow!ListFanoutProposals
  BY <1>6 DEF Follow!ListFanoutProposals, Follow!rows
<1>7. CASE Follow!CreateIssue
  <2>1. UNCHANGED <<status, number>> /\ filing.pc = "create" /\ filing.of \in Proposals
    BY <1>7 DEF Follow!CreateIssue, Follow!rows
  <2>2. CASE filing' = Follow!Idle /\ UNCHANGED <<issues, unrecorded>>
    BY <2>1, <2>2 DEF Follow!Idle
  <2>3. ASSUME issues' = Append(issues, filing.of)
        PROVE  /\ issues' \in Seq(Proposals) /\ DOMAIN issues' = 1..(Len(issues) + 1)
               /\ issues'[Len(issues) + 1] = filing.of
               /\ \A n \in DOMAIN issues : issues'[n] = issues[n]
    BY <1>0, <2>1, <2>3
  <2>4. CASE filing' = Follow!Idle /\ issues' = Append(issues, filing.of) /\ unrecorded' = unrecorded \cup {filing.of}
    <3>1. FanoutTypes' /\ FilingOne'
      BY <2>1, <2>3, <2>4 DEF Follow!Idle
    <3>2. ASSUME NEW n \in DOMAIN issues'
          PROVE  \/ issues'[n] \in unrecorded'
                 \/ status'[issues'[n]] = "approved" /\ number'[issues'[n]] = n
      <4>1. n = Len(issues) + 1 \/ n \in DOMAIN issues
        BY <1>0, <2>3, <2>4
      <4> QED BY <2>1, <2>3, <2>4, <4>1
    <3> QED BY <3>1, <3>2
  <2>5. CASE /\ issues' = Append(issues, filing.of) /\ UNCHANGED unrecorded
             /\ filing' = [filing EXCEPT !.pc = "record", !.as = Len(issues) + 1]
    <3>1. /\ filing'.pc = "record" /\ filing'.of = filing.of /\ filing'.as = Len(issues) + 1
          /\ {"pc", "of", "as"} \subseteq DOMAIN filing'
      BY <2>5
    <3>2. FanoutTypes' /\ FilingOne'
      BY <1>0, <2>1, <2>3, <2>5, <3>1
    <3>3. ASSUME NEW n \in DOMAIN issues'
          PROVE  \/ issues'[n] \in unrecorded'
                 \/ status'[issues'[n]] = "approved" /\ number'[issues'[n]] = n
                 \/ n = filing'.as
      <4>1. n = Len(issues) + 1 \/ n \in DOMAIN issues
        BY <1>0, <2>3, <2>5
      <4> QED BY <2>1, <2>3, <2>5, <3>1, <4>1
    <3> QED BY <3>1, <3>2, <3>3
  <2> QED BY <1>7, <2>2, <2>4, <2>5 DEF Follow!CreateIssue
<1>8. CASE Follow!RecordApproval
  <2>1. /\ UNCHANGED issues /\ filing.pc = "record" /\ filing.of \in Proposals
        /\ filing.as \in DOMAIN issues /\ issues[filing.as] = filing.of /\ status[filing.of] # "approved"
    BY <1>8 DEF Follow!RecordApproval
  <2>2. CASE filing' = Follow!Idle /\ unrecorded' = unrecorded \cup {filing.of} /\ UNCHANGED <<status, number>>
    BY <2>1, <2>2 DEF Follow!Idle
  <2>3. CASE /\ status' = [status EXCEPT ![filing.of] = "approved"]
             /\ number' = [number EXCEPT ![filing.of] = filing.as]
             /\ filing' = [filing EXCEPT !.pc = "save"]
             /\ UNCHANGED unrecorded
    <3>1. filing'.pc = "save" /\ filing'.of = filing.of /\ {"pc", "of", "as"} \subseteq DOMAIN filing'
      BY <2>3
    <3>2. \A p \in Proposals : /\ status'[p] = IF p = filing.of THEN "approved" ELSE status[p]
                               /\ number'[p] = IF p = filing.of THEN filing.as ELSE number[p]
      BY <2>1, <2>3
    <3>3. FanoutTypes' /\ FilingOne'
      BY <2>1, <2>3, <3>1
    <3>4. ASSUME NEW n \in DOMAIN issues
          PROVE  \/ issues[n] \in unrecorded
                 \/ status'[issues[n]] = "approved" /\ number'[issues[n]] = n
      <4>1. issues[n] \in Proposals
        BY <1>0
      <4> QED BY <2>1, <3>2, <4>1
    <3> QED BY <2>1, <2>3, <3>3, <3>4
  <2> QED BY <1>8, <2>2, <2>3 DEF Follow!RecordApproval, Follow!rows
<1>9. CASE Follow!SaveFiledIssue
  <2>1. UNCHANGED <<issues, status, number, unrecorded>> /\ filing.pc = "save" /\ filing' = Follow!Idle
    BY <1>9 DEF Follow!SaveFiledIssue, Follow!rows
  <2> QED BY <2>1 DEF Follow!Idle
<1>10. CASE Follow!Restart
  <2>1. /\ UNCHANGED <<issues, status, number>> /\ filing' = Follow!Idle
        /\ unrecorded' = IF filing.pc = "record" THEN unrecorded \cup {filing.of} ELSE unrecorded
    BY <1>10 DEF Follow!Restart, Follow!rows
  <2> QED BY <2>1 DEF Follow!Idle
<1> QED BY <1>1, <1>2, <1>3, <1>4, <1>5, <1>6, <1>7, <1>8, <1>9, <1>10 DEF Follow!Next

\* A proposal that a request is filing is not on record as filed, and the issue that the request
\* has created is that proposal's (ApproveFanoutProposal).
THEOREM FanoutInvariance == RecordsSpec => []FanoutInv
<1>1. RecordsInit => FanoutInv
  BY FanoutStarts DEF RecordsInit
<1>2. FanoutInv /\ [RecordsNext]_recordsVars => FanoutInv'
  BY PartSteps, FanoutKept
<1> QED BY <1>1, <1>2, PTL DEF RecordsSpec, recordsVars

\* An issue that was filed for a proposal is on record, or is about to be: no list that is
\* old and no request that is repeated has it filed again.
THEOREM FiledIsRecorded == RecordsSpec => []FiledOnRecord
<1>1. FanoutInv => FiledOnRecord
  BY DEF FanoutInv
<1> QED BY <1>1, FanoutInvariance, PTL

-----------------------------------------------------------------------------
\* The plans of an issue.

DeskTypes ==
  /\ files \in [Desk!Revs -> Nat] /\ answers \subseteq Desk!Revs
  /\ rows \in [Desk!Revs -> [run : Nat, approved : BOOLEAN]]
  /\ runs \in Nat
  /\ planner \in [run : Nat, at : {"none", "started", "writing", "said", "stored", "rest", "killed"}, rev : Nat]
  /\ approval \in [at : {"none", "read", "spawn"}, rev : Nat, run : Nat, by : {"none", "user", "retry"}]
  /\ approval.at # "none" => approval.rev \in Desk!Revs

Consented(r) == \E c \in consents : c.rev = r

\* What is approved in the table, and what an approval is about, the user has approved.
Consents ==
  /\ \A r \in Desk!Revs : rows[r].approved => Consented(r)
  /\ approval.at # "none" => Consented(approval.rev)
  /\ ApprovedOnlyRuns

\* A planner that was started for answers finds them, and the plan that it writes is one of
\* a later revision wherever it goes: into its file, the table, an approval.
Answering ==
  /\ planner.run <= runs /\ approval.run <= runs
  /\ \A r \in Desk!Revs : files[r] <= runs /\ rows[r].run <= runs
  /\ \A t \in taken :
       /\ t.rev \in answers /\ t.run \in 1..runs
       /\ planner.at \in {"writing", "said", "stored"} /\ planner.run = t.run => planner.rev > t.rev
       /\ \A r \in Desk!Revs : (files[r] = t.run \/ rows[r].run = t.run) => r > t.rev
       /\ approval.at = "read" /\ approval.run = t.run => approval.rev > t.rev

DeskInv == DeskTypes /\ Consents /\ Answering

LEMMA DeskStarts ==
  ASSUME Desk!Init
  PROVE  DeskInv
<1>1. DeskTypes
  BY DEF Desk!Init, Desk!NoPlanner, Desk!NoApproval, DeskTypes
<1>2. Consents /\ Answering
  BY DEF Desk!Init, Desk!NoPlanner, Desk!NoApproval, Desk!NoWork, Consents, Answering, ApprovedOnlyRuns,
         Desk!ApprovedOnlyRuns
<1> QED BY <1>1, <1>2 DEF DeskInv

\* The latest revision is one of the table, and the next one comes after all answers.
LEMMA LatestIsStored ==
  ASSUME DeskTypes, Desk!Stored # {}
  PROVE  Desk!Latest \in Desk!Stored /\ Desk!Stored \subseteq Desk!Revs
<1>1. MaxRev \in Nat /\ Desk!Stored \in SUBSET (0..MaxRev)
  BY RecordsAssumption DEF Desk!PlanDeskAssumption, Desk!Stored, Desk!Revs
<1> QED BY <1>1, GreatestIsMax DEF Desk!Latest, Desk!Stored

LEMMA NextIsLater ==
  ASSUME DeskTypes
  PROVE  Desk!NextRev \in Nat /\ \A r \in answers : Desk!NextRev > r
<1>1. MaxRev \in Nat /\ {0} \cup answers \in SUBSET (0..MaxRev)
  BY RecordsAssumption DEF Desk!PlanDeskAssumption, DeskTypes, Desk!Revs
<1>2. /\ Desk!Max({0} \cup answers) \in 0..MaxRev
      /\ \A x \in {0} \cup answers : Desk!Max({0} \cup answers) >= x
  BY <1>1, GreatestIsMax
<1> QED BY <1>1, <1>2 DEF Desk!NextRev

\* A planner that is started: no answers are taken for it yet.
LEMMA PlannerStarts ==
  ASSUME DeskInv, Desk!Start
  PROVE  /\ runs' = runs + 1 /\ runs' \in Nat
         /\ planner' = [run |-> runs', at |-> "started", rev |-> 0]
         /\ planner'.run = runs' /\ planner'.at = "started"
BY DEF Desk!Start, DeskInv, DeskTypes

\* What the start of a planner, or its end, does to the invariant.
LEMMA PlannersKeep ==
  ASSUME DeskInv, UNCHANGED <<files, answers, rows, approval, work, consents>>,
         \/ /\ UNCHANGED taken
            /\ \/ UNCHANGED <<runs, planner>>
               \/ Desk!Start
               \/ /\ UNCHANGED runs
                  /\ planner' \in {Desk!NoPlanner, [planner EXCEPT !.at = "rest"], [planner EXCEPT !.at = "killed"]}
  PROVE  DeskInv'
<1> USE DEF DeskInv
<1>0. Consents'
  BY DEF Consents, Consented, ApprovedOnlyRuns, Desk!ApprovedOnlyRuns
<1>1. CASE UNCHANGED <<runs, planner>>
  BY <1>0, <1>1 DEF DeskTypes, Answering
<1>2. CASE Desk!Start
  BY <1>0, <1>2, PlannerStarts DEF DeskTypes, Answering
<1>3. ASSUME UNCHANGED runs,
             planner' \in {Desk!NoPlanner, [planner EXCEPT !.at = "rest"], [planner EXCEPT !.at = "killed"]}
      PROVE  DeskInv'
  <2>1. /\ planner' \in [run : Nat, at : {"none", "started", "writing", "said", "stored", "rest", "killed"},
                         rev : Nat]
        /\ planner'.run <= runs /\ planner'.at \notin {"writing", "said", "stored"}
    BY <1>3 DEF Desk!NoPlanner, DeskTypes, Answering
  <2> QED BY <1>0, <1>3, <2>1 DEF DeskTypes, Answering
<1> QED BY <1>1, <1>2, <1>3

LEMMA StartsKeep ==
  ASSUME DeskInv,
         \/ Desk!DragToPlan \/ Desk!DrainPlan \/ Desk!Replan \/ Desk!ReplanForce \/ Desk!RejectPlan
         \/ Desk!PlannerEnds \/ Desk!PlannerFails
  PROVE  DeskInv'
<1>1. CASE Desk!DragToPlan \/ Desk!DrainPlan
  BY <1>1, PlannersKeep DEF Desk!DragToPlan, Desk!DrainPlan, Desk!NoStart, Desk!plans
<1>2. CASE Desk!Replan \/ Desk!ReplanForce
  BY <1>2, PlannersKeep DEF Desk!Replan, Desk!ReplanForce, Desk!plans
<1>3. CASE Desk!RejectPlan \/ Desk!PlannerEnds \/ Desk!PlannerFails
  BY <1>3, PlannersKeep DEF Desk!RejectPlan, Desk!PlannerEnds, Desk!PlannerFails, Desk!plans, Desk!sessions
<1> QED BY <1>1, <1>2, <1>3

LEMMA AnswersKeep ==
  ASSUME DeskInv, NEW r \in Desk!Revs, Desk!WriteAnswersOnly(r) \/ Desk!SubmitAnswers(r)
  PROVE  DeskInv'
<1> USE DEF DeskInv
<1>1. /\ r \in Desk!Stored /\ answers' = answers \cup {r}
      /\ UNCHANGED <<files, rows, approval, work, consents>>
      /\ \/ UNCHANGED <<runs, planner, taken>>
         \/ Desk!Start /\ taken' = taken \cup {[rev |-> r, run |-> runs']}
  BY DEF Desk!WriteAnswersOnly, Desk!SubmitAnswers, Desk!NoStart, Desk!sessions
<1>2. Consents'
  BY <1>1 DEF Consents, Consented, ApprovedOnlyRuns, Desk!ApprovedOnlyRuns
<1>3. CASE UNCHANGED <<runs, planner, taken>>
  BY <1>1, <1>2, <1>3 DEF DeskTypes, Answering
<1>4. CASE Desk!Start /\ taken' = taken \cup {[rev |-> r, run |-> runs']}
  <2>1. DeskTypes'
    BY <1>1, <1>4, PlannerStarts DEF DeskTypes
  <2>2. ASSUME NEW t \in taken'
        PROVE  /\ t.rev \in answers' /\ t.run \in 1..runs'
               /\ \A q \in Desk!Revs : (files[q] = t.run \/ rows[q].run = t.run) => q > t.rev
               /\ approval.at = "read" /\ approval.run = t.run => approval.rev > t.rev
    <3>1. CASE t \in taken
      BY <1>1, <1>4, <3>1, PlannerStarts DEF DeskTypes, Answering
    <3>2. CASE t = [rev |-> r, run |-> runs']
      <4>1. t.run = runs + 1 /\ t.rev = r /\ runs' = runs + 1 /\ runs \in Nat
        BY <1>4, <3>2, PlannerStarts DEF DeskTypes
      <4>2. ASSUME NEW q \in Desk!Revs PROVE files[q] # t.run /\ rows[q].run # t.run
        BY <4>1 DEF DeskTypes, Answering
      <4>3. approval.run # t.run
        BY <4>1 DEF DeskTypes, Answering
      <4> QED BY <1>1, <4>1, <4>2, <4>3
    <3> QED BY <1>4, <3>1, <3>2
  <2>3. /\ planner'.run <= runs' /\ planner'.at = "started" /\ approval.run <= runs'
        /\ \A q \in Desk!Revs : files[q] <= runs' /\ rows[q].run <= runs'
    BY <1>4, PlannerStarts DEF DeskTypes, Answering
  <2>4. Answering'
    BY <1>1, <2>2, <2>3 DEF Answering
  <2> QED BY <1>2, <2>1, <2>4
<1> QED BY <1>1, <1>3, <1>4

\* The planner at work.
LEMMA PlannerKeeps ==
  ASSUME DeskInv, Desk!ReadAnswers \/ Desk!WritePlan \/ Desk!ShowPlan
  PROVE  DeskInv'
<1> USE DEF DeskInv
<1>1. /\ UNCHANGED <<answers, rows, runs, approval, work, consents, taken>>
      /\ planner'.run = planner.run
      /\ planner' \in [run : Nat, at : {"none", "started", "writing", "said", "stored", "rest", "killed"}, rev : Nat]
  BY NextIsLater DEF Desk!ReadAnswers, Desk!WritePlan, Desk!ShowPlan, Desk!plans, Desk!sessions, DeskTypes
<1>2. Consents'
  BY <1>1 DEF Consents, Consented, ApprovedOnlyRuns, Desk!ApprovedOnlyRuns
<1>3. CASE Desk!ReadAnswers
  <2>1. UNCHANGED files /\ planner'.rev = Desk!NextRev
    BY <1>3 DEF Desk!ReadAnswers, Desk!plans, DeskTypes
  <2>2. \A t \in taken : planner'.rev > t.rev
    BY <2>1, NextIsLater DEF Answering
  <2> QED BY <1>1, <1>2, <2>1, <2>2 DEF DeskTypes, Answering
<1>4. CASE Desk!WritePlan
  <2>1. /\ planner.at = "writing" /\ planner'.rev = planner.rev
        /\ files' = [files EXCEPT ![planner.rev] = planner.run]
    BY <1>4 DEF Desk!WritePlan, DeskTypes
  <2>2. files' \in [Desk!Revs -> Nat]
        /\ \A r \in Desk!Revs : files'[r] = IF r = planner.rev THEN planner.run ELSE files[r]
    BY <2>1 DEF DeskTypes
  <2> QED BY <1>1, <1>2, <2>1, <2>2 DEF DeskTypes, Answering
<1>5. CASE Desk!ShowPlan
  <2>1. UNCHANGED files /\ planner'.at = "rest"
    BY <1>5 DEF Desk!ShowPlan, Desk!plans, DeskTypes
  <2> QED BY <1>1, <1>2, <2>1 DEF DeskTypes, Answering
<1> QED BY <1>3, <1>4, <1>5

\* The text of a file, or of an approval, gets into the table.
LEMMA RowsKeep ==
  ASSUME DeskInv, UNCHANGED <<files, answers, runs, work, consents, taken>>,
         NEW r, NEW new \in [run : Nat, approved : BOOLEAN], rows' = [rows EXCEPT ![r] = new],
         new.run <= runs, new.approved => Consented(r),
         r \in Desk!Revs => \A t \in taken : new.run = t.run => r > t.rev,
         \/ UNCHANGED <<planner, approval>>
         \/ UNCHANGED approval /\ planner' = [planner EXCEPT !.at = "stored"] /\ planner.at = "said"
         \/ UNCHANGED planner /\ approval' = [approval EXCEPT !.at = "spawn"] /\ approval.at = "read"
  PROVE  DeskInv'
<1> USE DEF DeskInv
<1>1. /\ rows' \in [Desk!Revs -> [run : Nat, approved : BOOLEAN]]
      /\ \A q \in Desk!Revs : rows'[q] = IF q = r THEN new ELSE rows[q]
  BY DEF DeskTypes
<1>2. /\ planner' \in [run : Nat, at : {"none", "started", "writing", "said", "stored", "rest", "killed"}, rev : Nat]
      /\ planner'.run = planner.run /\ planner'.rev = planner.rev
      /\ planner'.at \in {"writing", "said", "stored"} => planner.at \in {"writing", "said", "stored"}
  BY DEF DeskTypes
<1>3. /\ approval' \in [at : {"none", "read", "spawn"}, rev : Nat, run : Nat, by : {"none", "user", "retry"}]
      /\ approval'.run = approval.run /\ approval'.rev = approval.rev
      /\ approval'.at # "none" => approval.at # "none"
      /\ approval'.at = "read" => approval.at = "read"
  BY DEF DeskTypes
<1>4. DeskTypes'
  BY <1>1, <1>2, <1>3 DEF DeskTypes
<1>5. Consents'
  BY <1>1, <1>3 DEF Consents, Consented, ApprovedOnlyRuns, Desk!ApprovedOnlyRuns
<1>6. Answering'
  BY <1>1, <1>2, <1>3 DEF Answering, DeskTypes
<1> QED BY <1>4, <1>5, <1>6

\* The announcement of a plan, heard or heard again.
LEMMA AnnouncementsKeep ==
  ASSUME DeskInv, Desk!Ingest \/ \E r \in Desk!Revs : Desk!HearAgain(r)
  PROVE  DeskInv'
<1>1. ASSUME NEW r, r \in Desk!Revs \/ r = planner.rev, Desk!Ingested(r),
             UNCHANGED <<files, answers, runs, approval, work, consents, taken>>,
             UNCHANGED planner \/ (planner' = [planner EXCEPT !.at = "stored"] /\ planner.at = "said")
      PROVE  DeskInv'
  <2>1. CASE r \in Desk!Revs
    <3>1. PICK new : new = [run |-> files[r], approved |-> FALSE]
      OBVIOUS
    <3>2. /\ new \in [run : Nat, approved : BOOLEAN] /\ new.run = files[r] /\ ~new.approved
          /\ new.run <= runs /\ rows' = [rows EXCEPT ![r] = new]
          /\ \A t \in taken : new.run = t.run => r > t.rev
      BY <1>1, <2>1, <3>1 DEF Desk!Ingested, DeskInv, DeskTypes, Answering
    <3> QED BY <1>1, <3>2, RowsKeep
  <2>2. CASE r \notin Desk!Revs
    <3>1. PICK new : new = [run |-> 0, approved |-> FALSE]
      OBVIOUS
    <3>2. rows' = [rows EXCEPT ![r] = new]
      <4>1. DOMAIN rows = Desk!Revs
        BY DEF DeskInv, DeskTypes
      <4>2. ASSUME NEW other PROVE [rows EXCEPT ![r] = other] = rows
        <5>1. rows \in [Desk!Revs -> [run : Nat, approved : BOOLEAN]]
          BY DEF DeskInv, DeskTypes
        <5> QED BY <2>2, <5>1
      <4> QED BY <1>1, <4>2 DEF Desk!Ingested
    <3>3. new \in [run : Nat, approved : BOOLEAN] /\ new.run = 0 /\ ~new.approved /\ 0 <= runs
      BY <3>1 DEF DeskInv, DeskTypes
    <3> QED BY <1>1, <2>2, <3>2, <3>3, RowsKeep
  <2> QED BY <2>1, <2>2
<1>2. ASSUME NEW r \in Desk!Revs, Desk!HearAgain(r)
      PROVE  DeskInv'
  BY <1>1, <1>2 DEF Desk!HearAgain, Desk!sessions
<1>3. CASE Desk!Ingest
  <2>1. CASE Desk!Ingested(planner.rev) /\ planner' = [planner EXCEPT !.at = "stored"]
    <3>1. PICK r : r = planner.rev
      OBVIOUS
    <3>2. Desk!Ingested(r)
      BY <2>1, <3>1 DEF Desk!Ingested
    <3> QED BY <1>1, <1>3, <2>1, <3>1, <3>2 DEF Desk!Ingest
  <2>2. CASE UNCHANGED rows /\ planner' = [planner EXCEPT !.at = "rest"]
    BY <1>3, <2>2, PlannersKeep DEF Desk!Ingest
  <2> QED BY <1>3, <2>1, <2>2 DEF Desk!Ingest
<1> QED BY <1>2, <1>3

\* An approval, by the user or for a retry.
LEMMA ApprovalsKeep ==
  ASSUME DeskInv, NEW new,
         new \in [at : {"none", "read", "spawn"}, rev : Nat, run : Nat, by : {"none", "user", "retry"}],
         approval' = new, UNCHANGED <<files, answers, rows, runs, planner, work, taken>>,
         consents \subseteq consents',
         new.run <= runs,
         new.at # "none" => new.rev \in Desk!Revs /\ Consented(new.rev)',
         new.at = "read" => new.run = rows[new.rev].run
  PROVE  DeskInv'
<1> USE DEF DeskInv
<1>1. DeskTypes'
  BY DEF DeskTypes
<1>2. Consents'
  BY DEF Consents, Consented, ApprovedOnlyRuns, Desk!ApprovedOnlyRuns
<1>3. Answering'
  BY DEF Answering
<1> QED BY <1>1, <1>2, <1>3

LEMMA ApproveKeeps ==
  ASSUME DeskInv, Desk!RetryExecute \/ Desk!Enqueue \/ \E r \in Desk!Revs : Desk!Approve(r)
  PROVE  DeskInv'
<1>1. ASSUME NEW r \in Desk!Revs, Desk!Approve(r)
      PROVE  DeskInv'
  <2>1. PICK new : new = [at |-> "read", rev |-> r, run |-> rows[r].run, by |-> "user"]
    OBVIOUS
  <2>2. /\ new \in [at : {"none", "read", "spawn"}, rev : Nat, run : Nat, by : {"none", "user", "retry"}]
        /\ new.rev = r /\ new.run = rows[r].run /\ new.run <= runs
    BY <2>1, RecordsAssumption
       DEF DeskInv, DeskTypes, Answering, Desk!Revs, Desk!PlanDeskAssumption
  <2>3. \E c \in consents' : c.rev = r
    <3>1. [rev |-> r, run |-> rows[r].run] \in consents'
      BY <1>1 DEF Desk!Approve
    <3> QED BY <3>1
  <2>4. approval' = new /\ consents \subseteq consents'
        /\ UNCHANGED <<files, answers, rows, runs, planner, work, taken>>
    BY <1>1, <2>1 DEF Desk!Approve, Desk!plans, Desk!sessions
  <2> QED BY <2>2, <2>3, <2>4, ApprovalsKeep DEF Consented
<1>2. CASE Desk!RetryExecute
  <2>1. PICK r : r = Desk!Latest
    OBVIOUS
  <2>2. r \in Desk!Revs /\ rows[r].approved /\ Consented(r)
    BY <1>2, <2>1, LatestIsStored DEF Desk!RetryExecute, DeskInv, Consents
  <2>3. PICK new : new = [at |-> "spawn", rev |-> r, run |-> rows[r].run, by |-> "retry"]
    OBVIOUS
  <2>4. /\ new \in [at : {"none", "read", "spawn"}, rev : Nat, run : Nat, by : {"none", "user", "retry"}]
        /\ new.rev = r /\ new.at = "spawn" /\ new.run <= runs
    BY <2>2, <2>3, RecordsAssumption
       DEF DeskInv, DeskTypes, Answering, Desk!Revs, Desk!PlanDeskAssumption
  <2>5. approval' = new /\ UNCHANGED <<files, answers, rows, runs, planner, work, consents, taken>>
    BY <1>2, <2>1, <2>3 DEF Desk!RetryExecute, Desk!plans, Desk!sessions
  <2> QED BY <2>2, <2>4, <2>5, ApprovalsKeep DEF Consented
<1>3. CASE Desk!Enqueue
  <2>1. PICK new : new = Desk!NoApproval
    OBVIOUS
  <2>2. /\ new \in [at : {"none", "read", "spawn"}, rev : Nat, run : Nat, by : {"none", "user", "retry"}]
        /\ new.at = "none" /\ new.run <= runs
    BY <2>1 DEF Desk!NoApproval, DeskInv, DeskTypes
  <2>3. approval' = new /\ UNCHANGED <<files, answers, rows, runs, planner, work, consents, taken>>
    BY <1>3, <2>1 DEF Desk!Enqueue, Desk!plans, Desk!sessions
  <2> QED BY <2>2, <2>3, ApprovalsKeep
<1> QED BY <1>1, <1>2, <1>3

LEMMA SaveKeeps ==
  ASSUME DeskInv, Desk!SaveApproved
  PROVE  DeskInv'
<1>1. PICK r, new : r = approval.rev /\ new = [run |-> approval.run, approved |-> TRUE]
  OBVIOUS
<1>2. /\ rows' = [rows EXCEPT ![r] = new] /\ approval.at = "read"
      /\ approval' = [approval EXCEPT !.at = "spawn"]
      /\ UNCHANGED <<files, answers, runs, planner, work, consents, taken>>
  BY <1>1 DEF Desk!SaveApproved, Desk!sessions
<1>3. /\ new \in [run : Nat, approved : BOOLEAN] /\ new.run = approval.run /\ new.run <= runs
      /\ Consented(r) /\ \A t \in taken : new.run = t.run => r > t.rev
  BY <1>1, <1>2 DEF DeskInv, DeskTypes, Consents, Answering
<1> QED BY <1>2, <1>3, RowsKeep

\* The execute worker.
LEMMA WorkKeeps ==
  ASSUME DeskInv, Desk!SpawnExecute \/ Desk!DrainWork \/ Desk!WorkEnds
  PROVE  DeskInv'
<1>1. /\ UNCHANGED <<files, answers, rows, runs, planner, consents, taken>>
      /\ approval' \in {approval, Desk!NoApproval}
      /\ \/ work' = work
         \/ work'.by = approval.by /\ work'.rev = approval.rev /\ approval.at = "spawn"
         \/ work'.by \in {"drain", "none"}
  BY DEF Desk!SpawnExecute, Desk!DrainWork, Desk!WorkEnds, Desk!Works, Desk!NoWork, Desk!plans, Desk!sessions
<1>2. /\ approval' \in [at : {"none", "read", "spawn"}, rev : Nat, run : Nat, by : {"none", "user", "retry"}]
      /\ approval' = approval \/ (approval'.at = "none" /\ approval'.run <= runs)
  BY <1>1 DEF Desk!NoApproval, DeskInv, DeskTypes
<1>3. DeskTypes'
  BY <1>1, <1>2 DEF DeskInv, DeskTypes
<1>4. Consents'
  BY <1>1, <1>2 DEF DeskInv, Consents, Consented, ApprovedOnlyRuns, Desk!ApprovedOnlyRuns
<1>5. Answering'
  BY <1>1, <1>2 DEF DeskInv, Answering
<1> QED BY <1>3, <1>4, <1>5 DEF DeskInv

LEMMA DeskKept ==
  ASSUME DeskInv, [Desk!Next]_plansOf
  PROVE  DeskInv'
<1>1. CASE UNCHANGED plansOf
  BY <1>1, PlannersKeep DEF plansOf
<1> QED BY <1>1, StartsKeep, AnswersKeep, PlannerKeeps, AnnouncementsKeep, ApproveKeeps, SaveKeeps, WorkKeeps
        DEF Desk!Next, Desk!Planner

\* What is known of a card's planner, its revisions and its approval (SavePlan, ApprovePlan, SubmitAnswers).
THEOREM DeskInvariance == RecordsSpec => []DeskInv
<1>1. RecordsInit => DeskInv
  BY DeskStarts DEF RecordsInit
<1>2. DeskInv /\ [RecordsNext]_recordsVars => DeskInv'
  BY PartSteps, DeskKept
<1> QED BY <1>1, <1>2, PTL DEF RecordsSpec, recordsVars

\* An execute worker that the user or a retry starts runs a revision the user has approved.
THEOREM RunsAreApproved == RecordsSpec => []ApprovedOnlyRuns
<1>1. DeskInv => ApprovedOnlyRuns
  BY DEF DeskInv, Consents
<1> QED BY <1>1, DeskInvariance, PTL

\* A plan that was asked for with answers is of a later revision than the plan they answer.
THEOREM AnswersAreRead == RecordsSpec => []AnswersTaken
<1>1. DeskInv => AnswersTaken
  BY DEF DeskInv, Answering, AnswersTaken, Desk!AnswersTaken
<1> QED BY <1>1, DeskInvariance, PTL

-----------------------------------------------------------------------------
\* The comments of a PR.

Entries == [thread : {"issue", "pr", "review"}, by : {"me", "other", "bot"}, at : Nat]

\* Comments are in the order in which they were written.
SaidInOrder ==
  /\ said \in Seq(Entries)
  /\ \A c, d \in DOMAIN said : c <= d => said[c].at <= said[d].at

\* A comment that no poll has to bring any more.
Settled(c) == c \in noted \cup between \cup passedOver

\* Comments that are older than the second to ask for.
Past(second) ==
  /\ second \in Nat
  /\ second # 0 => said # <<>> /\ second <= said[Len(said)].at
  /\ \A c \in DOMAIN said : said[c].thread # "pr" /\ said[c].at < second => Settled(c)

Fetching(q) == q.pc \in {"rev", "save"}

\* What a poll has asked for: all of its threads that was there when it began is settled or
\* still to be saved; and what is later than that, up to what it has been given, was written
\* between its two calls.
PollOK(q) ==
  /\ {"pc", "from", "since", "given", "todo"} \subseteq DOMAIN q
  /\ q.given \subseteq DOMAIN said
  /\ Fetching(q) =>
       /\ q.from \in 0..Len(said) /\ Past(q.since)
       /\ \A c \in 1..q.from :
            said[c].thread = "issue" \/ (q.pc = "save" /\ said[c].thread = "review") => Settled(c) \/ c \in q.todo
       /\ q.pc = "rev" => \A c \in DOMAIN said : c > q.from => c \in between
       /\ \A g \in q.given, c \in DOMAIN said : c > q.from /\ c <= g => c \in between

ToldOnce ==
  /\ told \in [Review!Ids -> Nat]
  /\ \A c \in Review!Ids : told[c] <= 1 /\ (c \notin noted => told[c] = 0)

ReviewInv ==
  /\ SaidInOrder /\ Past(since) /\ ToldOnce
  /\ poll = [k \in Review!Polls |-> poll[k]]
  /\ \A k \in Review!Polls : PollOK(poll[k])

LEMMA ReviewStarts ==
  ASSUME Review!Init
  PROVE  ReviewInv
<1>1. said = <<>> /\ said \in Seq(Entries) /\ DOMAIN said = {} /\ since = 0
  BY DEF Review!Init
<1>2. SaidInOrder /\ Past(since)
  BY <1>1 DEF SaidInOrder, Past
<1>3. ToldOnce
  BY DEF Review!Init, ToldOnce, Review!Ids
<1>4. PollOK(Review!Idle)
  BY <1>1 DEF Review!Idle, PollOK, Fetching
<1> QED BY <1>2, <1>3, <1>4 DEF Review!Init, ReviewInv

\* What settles comments and leaves the rest.
LEMMA SettlesMore ==
  ASSUME ReviewInv, UNCHANGED <<said, since, poll, between>>,
         noted \subseteq noted', passedOver \subseteq passedOver',
         ToldOnce'
  PROVE  ReviewInv'
<1>1. \A c : Settled(c) => Settled(c)'
  BY DEF Settled
<1>2. \A s : Past(s) => Past(s)'
  BY <1>1 DEF Past
<1>3. \A q : PollOK(q) => PollOK(q)'
  BY <1>1, <1>2 DEF PollOK
<1> QED BY <1>1, <1>2, <1>3 DEF ReviewInv, SaidInOrder

LEMMA SaidTyped ==
  ASSUME SaidInOrder
  PROVE  /\ Len(said) \in Nat /\ DOMAIN said = 1..Len(said)
         /\ Len(said) = 0 => said = <<>>
         /\ \A c \in DOMAIN said : said[c].at \in Nat
<1>1. said \in Seq(Entries)
  BY DEF SaidInOrder
<1>2. \A c \in 1..Len(said) : said[c] \in Entries
  BY <1>1
<1>3. \A e \in Entries : e.at \in Nat
  BY DEF Entries
<1> QED BY <1>1, <1>2, <1>3

LEMMA ThreadTyped ==
  ASSUME SaidInOrder, NEW c \in DOMAIN said
  PROVE  said[c].thread \in {"issue", "pr", "review"}
<1>1. said[c] \in Entries
  BY DEF SaidInOrder
<1> QED BY <1>1 DEF Entries

\* A comment is written.
LEMMA SaysKeeps ==
  ASSUME ReviewInv, NEW thread \in {"issue", "pr", "review"}, NEW by \in {"me", "other", "bot"},
         NEW second \in Review!Seconds, Review!Says(thread, by, second),
         UNCHANGED <<noted, since, poll, told, passedOver>>
  PROVE  ReviewInv'
<1> DEFINE n == Len(said)
           new == [thread |-> thread, by |-> by, at |-> second]
<1> USE DEF ReviewInv
<1>1. /\ said \in Seq(Entries) /\ n \in Nat /\ DOMAIN said = 1..n /\ said' = Append(said, new)
      /\ \A c \in 1..n : said[c].at \in Nat
      /\ n = 0 => said = <<>>
  BY SaidTyped DEF SaidInOrder, Review!Says
<1>2. /\ second \in Nat /\ new \in Entries /\ new.at = second
      /\ n # 0 => second >= said[n].at
  BY <1>1 DEF Review!Seconds, Entries
<1> HIDE DEF new
<1>3. /\ said' \in Seq(Entries) /\ Len(said') = n + 1 /\ DOMAIN said' = 1..(n + 1)
      /\ said'[n + 1] = new
      /\ \A c \in 1..n : said'[c] = said[c]
  BY <1>1, <1>2
<1>4. ASSUME NEW c \in 1..n PROVE said[c].at <= second /\ said[c].at \in Nat /\ n # 0
  BY <1>1, <1>2 DEF SaidInOrder
<1>5. SaidInOrder'
  <2>1. ASSUME NEW c \in 1..(n + 1), NEW d \in 1..(n + 1), c <= d
        PROVE  said'[c].at <= said'[d].at
    <3>1. CASE d = n + 1 /\ c = n + 1
      BY <1>2, <1>3, <3>1
    <3>2. CASE d = n + 1 /\ c # n + 1
      BY <1>1, <1>2, <1>3, <1>4, <2>1, <3>2
    <3>3. CASE d # n + 1
      BY <1>1, <1>3, <2>1, <3>3 DEF SaidInOrder
    <3> QED BY <3>1, <3>2, <3>3
  <2> QED BY <1>3, <2>1 DEF SaidInOrder
<1>6. \A c : Settled(c) => Settled(c)'
  BY DEF Settled, Review!Says
<1>7. ASSUME NEW s, Past(s) PROVE Past(s)'
  <2>1. s \in Nat /\ (s # 0 => n # 0 /\ s <= said[n].at)
    BY <1>1, <1>7 DEF Past
  <2>2. s <= second
    BY <1>1, <1>2, <2>1
  <2>3. s # 0 => said' # <<>> /\ s <= said'[n + 1].at
    BY <1>2, <1>3, <2>2
  <2>4. ASSUME NEW c \in 1..(n + 1), said'[c].thread # "pr", said'[c].at < s
        PROVE  Settled(c)'
    <3>1. c # n + 1
      BY <1>2, <1>3, <2>1, <2>2, <2>4
    <3> QED BY <1>1, <1>3, <1>6, <1>7, <2>4, <3>1 DEF Past
  <2> QED BY <1>3, <2>1, <2>3, <2>4 DEF Past
<1>8. ASSUME NEW k \in Review!Polls PROVE PollOK(poll[k])'
  <2> DEFINE q == poll[k]
  <2>1. PollOK(q) /\ q = q'
    OBVIOUS
  <2>2. between \subseteq between' /\ (q.pc = "rev" => n + 1 \in between')
    BY DEF Review!Says
  <2> HIDE DEF q
  <2>3. q.given \subseteq DOMAIN said'
    BY <1>1, <1>3, <2>1 DEF PollOK
  <2>4. ASSUME Fetching(q)
        PROVE  /\ q.from \in 0..(n + 1) /\ Past(q.since)'
               /\ \A c \in 1..q.from :
                    said'[c].thread = "issue" \/ (q.pc = "save" /\ said'[c].thread = "review")
                      => Settled(c)' \/ c \in q.todo
               /\ q.pc = "rev" => \A c \in 1..(n + 1) : c > q.from => c \in between'
               /\ \A g \in q.given, c \in 1..(n + 1) : c > q.from /\ c <= g => c \in between'
    <3>1. q.from \in 0..n /\ Past(q.since)
      BY <2>1, <2>4 DEF PollOK
    <3>2. q.from \in 0..(n + 1) /\ Past(q.since)'
      <4>1. PICK s : s = q.since
        OBVIOUS
      <4>2. Past(s) /\ q.since' = s
        BY <2>1, <3>1, <4>1
      <4>3. Past(s)'
        BY <1>7, <4>2
      <4> QED BY <1>1, <3>1, <4>2, <4>3 DEF Past
    <3>3. ASSUME NEW c \in 1..q.from,
                 said'[c].thread = "issue" \/ (q.pc = "save" /\ said'[c].thread = "review")
          PROVE  Settled(c)' \/ c \in q.todo
      <4>1. c \in 1..n
        BY <1>1, <3>1
      <4> QED BY <1>3, <1>6, <2>1, <2>4, <3>3, <4>1 DEF PollOK
    <3>4. ASSUME q.pc = "rev", NEW c \in 1..(n + 1), c > q.from PROVE c \in between'
      <4>1. c = n + 1 \/ c \in 1..n
        BY <1>1
      <4> QED BY <1>1, <2>1, <2>2, <2>4, <3>4, <4>1 DEF PollOK
    <3>5. ASSUME NEW g \in q.given, NEW c \in 1..(n + 1), c > q.from /\ c <= g PROVE c \in between'
      <4>1. g \in 1..n
        BY <1>1, <2>1 DEF PollOK
      <4>2. c \in 1..n
        BY <1>1, <3>5, <4>1
      <4> QED BY <1>1, <2>1, <2>2, <2>4, <3>5, <4>2 DEF PollOK
    <3> QED BY <3>2, <3>3, <3>4, <3>5
  <2>5. PollOK(q)'
    BY <1>3, <2>1, <2>3, <2>4 DEF PollOK, Fetching
  <2> QED BY <2>5 DEF q
<1>9. Past(since)'
  BY <1>7 DEF Past
<1> QED BY <1>5, <1>8, <1>9 DEF ToldOnce

\* A poll goes on: it is right by itself, and the rest has only more comments settled.
LEMMA PollMoves ==
  ASSUME ReviewInv, NEW k \in Review!Polls, NEW q,
         UNCHANGED <<said, between>>, poll' = [poll EXCEPT ![k] = q],
         noted \subseteq noted', passedOver \subseteq passedOver',
         ToldOnce', PollOK(q)', Past(since)'
  PROVE  ReviewInv'
<1>1. \A c : Settled(c) => Settled(c)'
  BY DEF Settled
<1>2. \A s : Past(s) => Past(s)'
  BY <1>1 DEF Past
<1>3. \A o : PollOK(o) => PollOK(o)'
  BY <1>1, <1>2 DEF PollOK
<1>4. /\ poll' = [j \in Review!Polls |-> poll'[j]]
      /\ \A j \in Review!Polls : poll'[j] = IF j = k THEN q ELSE poll[j]
  BY DEF ReviewInv
<1>5. ASSUME NEW j \in Review!Polls PROVE PollOK(poll[j])'
  <2>1. PICK o : o = poll'[j]
    OBVIOUS
  <2>2. PollOK(o)'
    BY <1>3, <1>4, <2>1 DEF ReviewInv
  <2> QED BY <2>1, <2>2 DEF PollOK, Fetching
<1> QED BY <1>4, <1>5 DEF ReviewInv, SaidInOrder

\* The calls of a poll, with their answers.
LEMMA FetchKeeps ==
  ASSUME ReviewInv, NEW k \in Review!Polls, NEW q, NEW thread,
         Review!Fetch(k, q, thread),
         {"pc", "from", "since", "given", "todo"} \subseteq DOMAIN q,
         q.given \subseteq DOMAIN said, q.from \in 0..Len(said), Past(q.since),
         \/ /\ q.pc = "rev" /\ thread = "issue" /\ q.from = Len(said)
         \/ /\ q.pc = "save" /\ thread = "review"
            /\ \A c \in 1..q.from : said[c].thread = "issue" => Settled(c) \/ c \in q.todo
            /\ \A c \in DOMAIN said : c > q.from => c \in between
  PROVE  ReviewInv'
<1>1. PICK cs : cs = Review!Given(thread, q.since)
  OBVIOUS
<1>2. PICK got : /\ got \in {cs, {}}
                 /\ poll' = [poll EXCEPT ![k] = [q EXCEPT !.given = q.given \cup got, !.todo = q.todo \cup got]]
                 /\ (got = cs /\ UNCHANGED passedOver) \/ passedOver' = passedOver \cup cs
  BY <1>1 DEF Review!Fetch
<1>3. UNCHANGED <<said, between, noted, since, told>>
  BY DEF Review!Fetch
<1>4. PICK new : new = [q EXCEPT !.given = q.given \cup got, !.todo = q.todo \cup got]
  OBVIOUS
<1>5. /\ new.given = q.given \cup got /\ new.todo = q.todo \cup got
      /\ new.pc = q.pc /\ new.from = q.from /\ new.since = q.since
      /\ {"pc", "from", "since", "given", "todo"} \subseteq DOMAIN new
  BY <1>4
<1>6. /\ cs \subseteq DOMAIN said
      /\ \A c \in DOMAIN said : said[c].thread = thread /\ said[c].at >= q.since => c \in cs
  BY <1>1 DEF Review!Given
<1>7. /\ DOMAIN said = 1..Len(said) /\ Len(said) \in Nat
      /\ \A c \in DOMAIN said : said[c].at \in Nat
  BY SaidTyped DEF ReviewInv
<1>8. \A c : Settled(c) => Settled(c)'
  BY <1>2, <1>3 DEF Settled
<1>9. ASSUME NEW c \in 1..new.from, said[c].thread = "issue" \/ (new.pc = "save" /\ said[c].thread = "review")
      PROVE  Settled(c)' \/ c \in new.todo
  <2>1. c \in DOMAIN said /\ q.since \in Nat
    BY <1>5, <1>7 DEF Past
  <2>2. CASE said[c].thread # thread
    BY <1>5, <1>8, <1>9, <2>2
  <2>3. CASE said[c].thread = thread /\ said[c].at < q.since
    <3>1. Settled(c)
      BY <1>9, <2>1, <2>3 DEF Past
    <3> QED BY <1>8, <3>1
  <2>4. CASE said[c].thread = thread /\ said[c].at >= q.since
    <3>1. c \in cs
      BY <1>6, <2>1, <2>4
    <3> QED BY <1>2, <1>5, <3>1 DEF Settled
  <2> QED BY <1>7, <2>1, <2>2, <2>3, <2>4
<1>10. Past(new.since)' /\ Past(since)'
  BY <1>3, <1>5, <1>8 DEF Past, ReviewInv
<1>11. /\ new.pc = "rev" => \A c \in DOMAIN said : c > new.from => c \in between
       /\ \A g \in new.given, c \in DOMAIN said : c > new.from /\ c <= g => c \in between
  <2>1. CASE new.from = Len(said)
    <3>1. \A c \in DOMAIN said : ~(c > new.from)
      BY <1>7, <2>1
    <3> QED BY <3>1
  <2>2. CASE new.from # Len(said)
    BY <1>5, <2>2
  <2> QED BY <2>1, <2>2
<1>12. PollOK(new)'
  BY <1>2, <1>3, <1>5, <1>6, <1>9, <1>10, <1>11 DEF PollOK, Fetching
<1>13. ToldOnce'
  BY <1>3 DEF ReviewInv, ToldOnce
<1> QED BY <1>2, <1>3, <1>4, <1>10, <1>12, <1>13, PollMoves

LEMMA CallsKeep ==
  ASSUME ReviewInv, NEW k \in Review!Polls, Review!FetchIssueComments(k) \/ Review!FetchPRReviewComments(k)
  PROVE  ReviewInv'
<1>0. Len(said) \in Nat /\ DOMAIN said = 1..Len(said) /\ Past(since) /\ PollOK(poll[k])
  BY DEF ReviewInv, SaidInOrder
<1>1. CASE Review!FetchIssueComments(k)
  <2>1. PICK q : q = [Review!Idle EXCEPT !.pc = "rev", !.from = Len(said), !.since = since]
    OBVIOUS
  <2>2. /\ q.pc = "rev" /\ q.from = Len(said) /\ q.since = since /\ q.given = {} /\ q.todo = {}
        /\ {"pc", "from", "since", "given", "todo"} \subseteq DOMAIN q
    BY <2>1 DEF Review!Idle
  <2>3. Past(q.since)
    BY <1>0, <2>2
  <2>4. Review!Fetch(k, q, "issue")
    BY <1>1, <2>1 DEF Review!FetchIssueComments
  <2> QED BY <1>0, <2>2, <2>3, <2>4, FetchKeeps
<1>2. CASE Review!FetchPRReviewComments(k)
  <2>1. PICK q : q = [poll[k] EXCEPT !.pc = "save"]
    OBVIOUS
  <2>2. poll[k].pc = "rev" /\ Review!Fetch(k, q, "review")
    BY <1>2, <2>1 DEF Review!FetchPRReviewComments
  <2>3. /\ q.pc = "save" /\ q.from = poll[k].from /\ q.since = poll[k].since /\ q.given = poll[k].given
        /\ q.todo = poll[k].todo
        /\ {"pc", "from", "since", "given", "todo"} \subseteq DOMAIN q
    BY <1>0, <2>1 DEF PollOK
  <2>4. /\ q.given \subseteq DOMAIN said /\ q.from \in 0..Len(said) /\ Past(q.since)
        /\ \A c \in 1..q.from : said[c].thread = "issue" => Settled(c) \/ c \in q.todo
        /\ \A c \in DOMAIN said : c > q.from => c \in between
    BY <1>0, <2>2, <2>3 DEF PollOK, Fetching
  <2> QED BY <2>2, <2>3, <2>4, FetchKeeps
<1> QED BY <1>1, <1>2

LEMMA SaveKeepsReview ==
  ASSUME ReviewInv, NEW k \in Review!Polls, Review!SaveComment(k)
  PROVE  ReviewInv'
<1>1. PICK c, q : c = Review!Min(poll[k].todo) /\ q = [poll[k] EXCEPT !.todo = poll[k].todo \ {c}]
  OBVIOUS
<1>2. /\ poll[k].pc = "save" /\ poll' = [poll EXCEPT ![k] = q]
      /\ UNCHANGED <<said, since, between>>
      /\ \/ /\ noted' = noted \cup {c} /\ UNCHANGED passedOver
            /\ told' = IF Review!Announced(c) THEN [told EXCEPT ![c] = told[c] + 1] ELSE told
         \/ passedOver' = passedOver \cup {c} /\ UNCHANGED <<noted, told>>
  BY <1>1 DEF Review!SaveComment
<1>3. PollOK(poll[k]) /\ Past(since) /\ ToldOnce
  BY DEF ReviewInv
<1>4. /\ q.pc = "save" /\ q.from = poll[k].from /\ q.since = poll[k].since /\ q.given = poll[k].given
      /\ q.todo = poll[k].todo \ {c}
      /\ {"pc", "from", "since", "given", "todo"} \subseteq DOMAIN q
  BY <1>1, <1>2, <1>3 DEF PollOK
<1>5. (\A d : Settled(d) => Settled(d)') /\ Settled(c)'
  BY <1>2 DEF Settled
<1>6. Past(since)' /\ Past(q.since)'
  BY <1>2, <1>3, <1>4, <1>5 DEF Past, PollOK, Fetching
<1>7. PollOK(q)'
  BY <1>2, <1>3, <1>4, <1>5, <1>6 DEF PollOK, Fetching
<1>8. ToldOnce'
  <2>1. CASE UNCHANGED told
    BY <1>2, <1>3, <2>1 DEF ToldOnce
  <2>2. CASE c \notin noted /\ noted' = noted \cup {c} /\ told' = [told EXCEPT ![c] = told[c] + 1]
    <3>1. told \in [Review!Ids -> Nat] /\ \A d \in Review!Ids : told[d] \in Nat
      BY <1>3 DEF ToldOnce
    <3>2. CASE c \in Review!Ids
      <4>1. /\ told' \in [Review!Ids -> Nat]
            /\ \A d \in Review!Ids : told'[d] = IF d = c THEN 1 ELSE told[d]
        <5>1. told[c] = 0
          BY <1>3, <2>2, <3>2 DEF ToldOnce
        <5> QED BY <2>2, <3>1, <3>2, <5>1
      <4> QED BY <1>3, <2>2, <4>1 DEF ToldOnce
    <3>3. CASE c \notin Review!Ids
      <4>1. told' = told
        BY <2>2, <3>1, <3>3
      <4> QED BY <1>3, <2>2, <4>1 DEF ToldOnce
    <3> QED BY <3>2, <3>3
  <2> QED BY <1>2, <2>1, <2>2 DEF Review!Announced
<1>9. noted \subseteq noted' /\ passedOver \subseteq passedOver'
  BY <1>2
<1> QED BY <1>2, <1>6, <1>7, <1>8, <1>9, PollMoves

\* A poll that is over: what is older than the newest comment it was given is settled.
LEMMA EndKeeps ==
  ASSUME ReviewInv, NEW k \in Review!Polls, Review!EndPoll(k)
  PROVE  ReviewInv'
<1>1. /\ poll[k].pc = "save" /\ poll[k].todo = {}
      /\ UNCHANGED <<said, between, noted, passedOver, told>>
      /\ since' = IF poll[k].given = {} THEN since ELSE Review!Newest(poll[k].given)
      /\ poll' = [poll EXCEPT ![k] = IF k = "loop" THEN Review!Idle ELSE [Review!Idle EXCEPT !.pc = "over"]]
  BY DEF Review!EndPoll
<1>2. PICK q : q = IF k = "loop" THEN Review!Idle ELSE [Review!Idle EXCEPT !.pc = "over"]
  OBVIOUS
<1>3. PollOK(q)
  BY <1>2 DEF Review!Idle, PollOK, Fetching
<1>4. Past(since) /\ PollOK(poll[k]) /\ ToldOnce /\ SaidInOrder
  BY DEF ReviewInv
<1>5. ASSUME poll[k].given # {}
      PROVE  Past(Review!Newest(poll[k].given))
  <2>1. PICK gs : gs = poll[k].given
    OBVIOUS
  <2>2. /\ gs # {} /\ gs \subseteq DOMAIN said
        /\ Len(said) \in Nat /\ DOMAIN said = 1..Len(said) /\ said # <<>>
        /\ \A c \in DOMAIN said : said[c].at \in Nat
    BY <1>4, <1>5, <2>1, SaidTyped DEF PollOK
  <2>3. PICK ats : ats = {said[c].at : c \in gs}
    OBVIOUS
  <2>4. PICK last : last = said[Len(said)].at
    OBVIOUS
  <2>5. last \in Nat /\ ats \in SUBSET (0..last) /\ ats # {}
    <3>1. Len(said) \in DOMAIN said /\ last \in Nat
      BY <2>2, <2>4
    <3>2. \A c \in DOMAIN said : said[c].at \in 0..last
      BY <1>4, <2>2, <2>4, <3>1 DEF SaidInOrder
    <3> QED BY <2>2, <2>3, <3>1, <3>2
  <2>6. PICK newest : newest = Desk!Max(ats)
    OBVIOUS
  <2>7. newest \in ats
    BY <2>5, <2>6, GreatestIsMax
  <2>8. PICK g \in gs : newest = said[g].at
    BY <2>3, <2>7
  <2>9. newest = Review!Newest(poll[k].given)
    BY <2>1, <2>3, <2>6 DEF Review!Newest, Review!Max, Desk!Max
  <2>10. newest \in Nat /\ newest <= last
    BY <2>5, <2>7
  <2>11. ASSUME NEW c \in DOMAIN said, said[c].thread # "pr", said[c].at < newest
         PROVE  Settled(c)
    <3>1. c <= g
      <4>1. CASE g <= c
        BY <1>4, <2>2, <2>8, <2>11, <4>1 DEF SaidInOrder
      <4> QED BY <2>2, <4>1
    <3>2. poll[k].from \in 0..Len(said)
      BY <1>1, <1>4 DEF PollOK, Fetching
    <3>3. CASE c <= poll[k].from
      <4>1. c \in 1..poll[k].from
        BY <2>2, <3>2, <3>3
      <4>2. said[c].thread \in {"issue", "review"}
        BY <1>4, <2>2, <2>11, ThreadTyped
      <4> QED BY <1>1, <1>4, <4>1, <4>2 DEF PollOK, Fetching
    <3>4. CASE c > poll[k].from
      BY <1>1, <1>4, <2>1, <3>1, <3>4 DEF PollOK, Fetching, Settled
    <3> QED BY <2>2, <3>2, <3>3, <3>4
  <2>12. Past(newest)
    BY <2>2, <2>4, <2>10, <2>11 DEF Past
  <2> QED BY <2>9, <2>12
<1>6. PICK s : s = IF poll[k].given = {} THEN since ELSE Review!Newest(poll[k].given)
  OBVIOUS
<1>7. Past(s) /\ since' = s
  BY <1>1, <1>4, <1>5, <1>6
<1>8. Past(since)' /\ PollOK(q)' /\ ToldOnce'
  BY <1>1, <1>3, <1>4, <1>7 DEF Past, Settled, PollOK, Fetching, ToldOnce
<1> QED BY <1>1, <1>2, <1>8, PollMoves

LEMMA ReviewKept ==
  ASSUME ReviewInv, [Review!Next]_reviewOf
  PROVE  ReviewInv'
<1>0. ToldOnce
  BY DEF ReviewInv
<1>1. CASE UNCHANGED <<said, noted, since, poll, told, between, passedOver>>
  BY <1>0, <1>1, SettlesMore DEF ToldOnce
<1>2. ASSUME NEW k \in Review!Polls, Review!PollStep(k)
      PROVE  ReviewInv'
  BY <1>2, CallsKeep, SaveKeepsReview, EndKeeps DEF Review!PollStep
<1>3. ASSUME NEW r \in Remarks, Review!Comment(r)
      PROVE  ReviewInv'
  <2>1. r.thread \in {"issue", "pr", "review"} /\ r.by \in {"me", "other", "bot"}
    BY RecordsAssumption DEF Review!ReviewCommentsAssumption
  <2>2. PICK thread, by : thread = r.thread /\ by = r.by
    OBVIOUS
  <2>3. \E second \in Review!Seconds : Review!Says(thread, by, second)
    BY <1>3, <2>2 DEF Review!Comment
  <2>4. UNCHANGED <<noted, since, poll, told, passedOver>>
    BY <1>3 DEF Review!Comment
  <2> QED BY <2>1, <2>2, <2>3, <2>4, SaysKeeps
<1>4. CASE Review!PostPRComment
  <2>1. UNCHANGED <<noted, since, poll, told, passedOver>>
    BY <1>4 DEF Review!PostPRComment
  <2>2. UNCHANGED <<said, between>> \/ \E second \in Review!Seconds : Review!Says("issue", "me", second)
    BY <1>4 DEF Review!PostPRComment
  <2> QED BY <1>1, <2>1, <2>2, SaysKeeps
<1>5. CASE Review!RecordPost
  <2>1. UNCHANGED <<said, since, poll, told, between, passedOver>> /\ noted' = noted \cup {post}
    BY <1>5 DEF Review!RecordPost
  <2>2. ToldOnce'
    BY <1>0, <2>1 DEF ToldOnce
  <2> QED BY <2>1, <2>2, SettlesMore
<1>6. CASE Review!Restart
  <2>1. /\ since' = 0 /\ poll' = [k \in Review!Polls |-> Review!Idle]
        /\ UNCHANGED <<said, noted, told>>
    BY <1>6 DEF Review!Restart
  <2>2. PICK q : q = Review!Idle
    OBVIOUS
  <2>3. PollOK(q)'
    BY <2>2 DEF Review!Idle, PollOK, Fetching
  <2>4. SaidInOrder' /\ ToldOnce'
    BY <2>1 DEF ReviewInv, SaidInOrder, ToldOnce
  <2>5. Past(since)'
    <3>1. \A c \in DOMAIN said : said[c].at \in Nat
      BY SaidTyped DEF ReviewInv
    <3> QED BY <2>1, <3>1 DEF Past
  <2>6. \A k \in Review!Polls : poll'[k] = q
    BY <2>1, <2>2
  <2>7. ASSUME NEW k \in Review!Polls PROVE PollOK(poll[k])'
    BY <2>3, <2>6 DEF PollOK, Fetching
  <2> QED BY <2>1, <2>4, <2>5, <2>7 DEF ReviewInv
<1>7. CASE \/ Review!AskLogin \/ \E c \in noted : Review!AcknowledgeComment(c)
           \/ \E cs \in SUBSET noted : Review!RequestFixForComments(cs)
  BY <1>1, <1>7 DEF Review!AskLogin, Review!AcknowledgeComment, Review!RequestFixForComments
<1>8. CASE UNCHANGED reviewOf
  BY <1>1, <1>8 DEF reviewOf
<1> QED BY <1>2, <1>3, <1>4, <1>5, <1>6, <1>7, <1>8 DEF Review!Next

\* Where each comment of a PR stands with the polls that list it (Poller.probeComments).
THEOREM ReviewInvariance == RecordsSpec => []ReviewInv
<1>1. RecordsInit => ReviewInv
  BY ReviewStarts DEF RecordsInit
<1>2. ReviewInv /\ [RecordsNext]_recordsVars => ReviewInv'
  BY PartSteps, ReviewKept
<1> QED BY <1>1, <1>2, PTL DEF RecordsSpec, recordsVars

\* A comment that was there when a poll began is kept when it ends, unless a failed call or
\* the time between the two calls of a poll excuses it; and no comment is announced twice.
THEOREM CommentsAreNoticed == RecordsSpec => []NoticedOnce
<1>1. ASSUME ReviewInv PROVE NoticedOnce
  <2>1. ASSUME NEW k \in Review!Polls, poll[k].pc = "save", poll[k].todo = {},
               NEW c \in 1..poll[k].from, said[c].thread # "pr"
        PROVE  c \in noted \cup between \cup passedOver
    <3>1. PollOK(poll[k]) /\ SaidInOrder
      BY <1>1 DEF ReviewInv
    <3>2. c \in DOMAIN said /\ poll[k].from \in 0..Len(said)
      BY <2>1, <3>1, SaidTyped DEF PollOK, Fetching
    <3>3. said[c].thread \in {"issue", "review"}
      BY <2>1, <3>1, <3>2, ThreadTyped
    <3> QED BY <2>1, <3>1, <3>3 DEF PollOK, Fetching, Settled
  <2>2. \A c \in Review!Ids : told[c] <= 1
    BY <1>1 DEF ReviewInv, ToldOnce
  <2> QED BY <2>1, <2>2 DEF NoticedOnce, Review!NoticedOnce
<1> QED BY <1>1, ReviewInvariance, PTL

-----------------------------------------------------------------------------
\* The database file.  Its statements, by their place.

LEMMA Joined ==
  ASSUME NEW S, NEW s \in Seq(S), NEW t \in Seq(S)
  PROVE  /\ s \o t \in Seq(S) /\ Len(s \o t) = Len(s) + Len(t)
         /\ \A i \in 1..Len(s) : (s \o t)[i] = s[i]
         /\ \A i \in 1..Len(t) : (s \o t)[Len(s) + i] = t[i]
OBVIOUS

LEMMA Concatenation ==
  ASSUME NEW S, NEW s \in Seq(S), NEW t \in Seq(S), NEW m \in Nat, NEW n \in Nat, m = Len(s), n = Len(t),
         NEW u, u = s \o t
  PROVE  /\ u \in Seq(S) /\ Len(u) = m + n
         /\ \A i \in 1..m : u[i] = s[i]
         /\ \A i \in 1..n : u[m + i] = t[i]
<1>1. s \o t \in Seq(S) /\ Len(s \o t) = Len(s) + Len(t)
  BY Joined
<1>2. \A i \in 1..Len(s) : (s \o t)[i] = s[i]
  BY Joined
<1>3. \A i \in 1..Len(t) : (s \o t)[Len(s) + i] = t[i]
  BY Joined
<1> QED BY <1>1, <1>2, <1>3

LEMMA ElementTyped ==
  ASSUME NEW S, NEW s \in Seq(S), NEW i \in 1..Len(s)
  PROVE  s[i] \in S
OBVIOUS

LEMMA OneListed ==
  ASSUME NEW S, NEW a \in S
  PROVE  <<a>> \in Seq(S) /\ Len(<<a>>) = 1 /\ <<a>>[1] = a
OBVIOUS

LEMMA ThreeListed ==
  ASSUME NEW S, NEW a \in S, NEW b \in S, NEW c \in S
  PROVE  LET t == <<a, b, c>> IN t \in Seq(S) /\ Len(t) = 3 /\ t[1] = a /\ t[2] = b /\ t[3] = c
OBVIOUS

LEMMA FourListed ==
  ASSUME NEW S, NEW a \in S, NEW b \in S, NEW c \in S, NEW d \in S
  PROVE  LET t == <<a, b, c, d>>
         IN  t \in Seq(S) /\ Len(t) = 4 /\ t[1] = a /\ t[2] = b /\ t[3] = c /\ t[4] = d
OBVIOUS

LEMMA ThirteenListed ==
  ASSUME NEW S, NEW a \in S, NEW b \in S, NEW c \in S, NEW d \in S, NEW e \in S, NEW f \in S, NEW g \in S,
         NEW h \in S, NEW i \in S, NEW j \in S, NEW k \in S, NEW l \in S, NEW m \in S
  PROVE  LET t == <<a, b, c, d, e, f, g, h, i, j, k, l, m>>
         IN  /\ t \in Seq(S) /\ Len(t) = 13
             /\ t[1] = a /\ t[2] = b /\ t[3] = c /\ t[4] = d /\ t[5] = e /\ t[6] = f /\ t[7] = g
             /\ t[8] = h /\ t[9] = i /\ t[10] = j /\ t[11] = k /\ t[12] = l /\ t[13] = m
OBVIOUS

LEMMA NineListed ==
  ASSUME NEW a, NEW b, NEW c, NEW d, NEW e, NEW f, NEW g, NEW h, NEW i
  PROVE  LET t == <<a, b, c, d, e, f, g, h, i>>
         IN  /\ t[1] = a /\ t[2] = b /\ t[3] = c /\ t[4] = d /\ t[5] = e /\ t[6] = f /\ t[7] = g
             /\ t[8] = h /\ t[9] = i
             /\ Len(t) = 9
OBVIOUS

Tables  == {"settings", "issues", "sessions", "pools", "pending_pool_for", "pool_usage", "pr_comments"}
Columns == {"pending_question_id", "role", "archived_at", "transcript_offset", "priority", "temperature",
            "max_turns", "acknowledged_at", "closed_at", "input_tokens", "scope", "provider_id"}
Orders  == [what : {"create", "add", "check", "fill"}, table : Tables, columns : SUBSET Columns]

LEMMA CreateTyped ==
  ASSUME NEW t \in Tables, NEW cols \in SUBSET Columns
  PROVE  LET s == Store!Create(t, cols)
         IN  s \in Orders /\ s.what = "create" /\ s.table = t /\ s.columns = cols
BY DEF Store!Create, Orders

LEMMA AddTyped ==
  ASSUME NEW t \in Tables, NEW c \in Columns
  PROVE  LET s == Store!Add(t, c)
         IN  s \in Orders /\ s.what = "add" /\ s.table = t /\ s.columns = {c}
BY DEF Store!Add, Orders

LEMMA OthersTyped ==
  /\ LET s == Store!RoleCheck
     IN  s \in Orders /\ s.what = "check" /\ s.table = "pools" /\ s.columns = {}
  /\ LET s == Store!Backfill
     IN  s \in Orders /\ s.what = "fill" /\ s.table = "sessions" /\ s.columns = {}
BY DEF Store!RoleCheck, Store!Backfill, Orders, Tables

LEMMA ListOfBase ==
  /\ Store!BaseTables \in Seq(Orders) /\ Len(Store!BaseTables) = 4
  /\ Store!BaseTables[1] = Store!Create("settings", {})
  /\ Store!BaseTables[2] = Store!Create("issues", {})
  /\ Store!BaseTables[3] = Store!Create("sessions", {"pending_question_id"})
  /\ Store!BaseTables[4] = Store!Create("pools", {"role"})
<1> DEFINE a == Store!Create("settings", {})
           b == Store!Create("issues", {})
           c == Store!Create("sessions", {"pending_question_id"})
           d == Store!Create("pools", {"role"})
<1>1. {a, b, c, d} \subseteq Orders
  BY CreateTyped, AddTyped, OthersTyped DEF Tables, Columns
<1>2. Store!BaseTables = <<a, b, c, d>>
  BY DEF Store!BaseTables
<1> HIDE DEF a, b, c, d
<1>3. LET t == Store!BaseTables
      IN  t \in Seq(Orders) /\ Len(t) = 4 /\ t[1] = a /\ t[2] = b /\ t[3] = c /\ t[4] = d
  BY <1>1, <1>2, FourListed
<1> QED BY <1>3 DEF a, b, c, d

LEMMA ListOfRoles ==
  /\ Store!RoleColumns \in Seq(Orders) /\ Len(Store!RoleColumns) = 3
  /\ Store!RoleColumns[1] = Store!Add("issues", "archived_at")
  /\ Store!RoleColumns[2] = Store!Add("sessions", "pending_question_id")
  /\ Store!RoleColumns[3] = Store!Add("pools", "role")
<1> DEFINE a == Store!Add("issues", "archived_at")
           b == Store!Add("sessions", "pending_question_id")
           c == Store!Add("pools", "role")
<1>1. {a, b, c} \subseteq Orders
  BY CreateTyped, AddTyped, OthersTyped DEF Tables, Columns
<1>2. Store!RoleColumns = <<a, b, c>>
  BY DEF Store!RoleColumns
<1> HIDE DEF a, b, c
<1>3. LET t == Store!RoleColumns
      IN  t \in Seq(Orders) /\ Len(t) = 3 /\ t[1] = a /\ t[2] = b /\ t[3] = c
  BY <1>1, <1>2, ThreeListed
<1> QED BY <1>3 DEF a, b, c

\* The later ones, by what matters of them.
LEMMA ListOfLater ==
  /\ Store!Later \in Seq(Orders) /\ Len(Store!Later) = 13
  /\ Store!Later[10] = Store!Backfill
  /\ \A i \in 1..13 : i # 10 =>
       \/ Store!Later[i].what = "add"
       \/ Store!Later[i].what = "create" /\ Store!Later[i].columns = {} /\ Store!Later[i].table # "pools"
<1> DEFINE a == Store!Add("sessions", "transcript_offset")
           b == Store!Add("pools", "priority")
           c == Store!Create("pending_pool_for", {})
           d == Store!Create("pool_usage", {})
           e == Store!Add("pools", "temperature")
           f == Store!Add("pools", "max_turns")
           g == Store!Add("sessions", "acknowledged_at")
           h == Store!Add("issues", "closed_at")
           i == Store!Add("sessions", "input_tokens")
           j == Store!Backfill
           k == Store!Add("pools", "scope")
           l == Store!Add("pools", "provider_id")
           m == Store!Create("pr_comments", {})
           Plain(s) == s.what = "add" \/ (s.what = "create" /\ s.columns = {} /\ s.table # "pools")
<1>1. {a, b, c, d, e, f, g, h, i, j, k, l, m} \subseteq Orders
  BY CreateTyped, AddTyped, OthersTyped DEF Tables, Columns
<1>2. Plain(a) /\ Plain(b) /\ Plain(c) /\ Plain(d) /\ Plain(e) /\ Plain(f) /\ Plain(g) /\ Plain(h) /\ Plain(i)
      /\ Plain(k) /\ Plain(l) /\ Plain(m)
  BY CreateTyped, AddTyped, OthersTyped DEF Tables, Columns
<1>3. Store!Later = <<a, b, c, d, e, f, g, h, i, j, k, l, m>>
  BY DEF Store!Later
<1> HIDE DEF a, b, c, d, e, f, g, h, i, j, k, l, m
<1>4. LET t == Store!Later
      IN  /\ t \in Seq(Orders) /\ Len(t) = 13
          /\ t[1] = a /\ t[2] = b /\ t[3] = c /\ t[4] = d /\ t[5] = e /\ t[6] = f /\ t[7] = g
          /\ t[8] = h /\ t[9] = i /\ t[10] = j /\ t[11] = k /\ t[12] = l /\ t[13] = m
  BY <1>1, <1>3, ThirteenListed
<1>5. ASSUME NEW n \in 1..13, n # 10 PROVE Plain(Store!Later[n])
  <2> HIDE DEF Plain
  <2>1. n = 1 \/ n = 2 \/ n = 3 \/ n = 4 \/ n = 5 \/ n = 6 \/ n = 7 \/ n = 8 \/ n = 9 \/ n = 11 \/ n = 12 \/ n = 13
    BY <1>5
  <2> QED BY <1>2, <1>4, <2>1
<1>6. Store!Later[10] = Store!Backfill
  BY <1>4 DEF j
<1> QED BY <1>4, <1>5, <1>6

LEMMA ListOfAll ==
  /\ Store!Statements \in Seq(Orders) /\ Len(Store!Statements) = 21 /\ DOMAIN Store!Statements = 1..21
  /\ \A i \in 1..21 : Store!Statements[i] \in Orders
  /\ \A i \in 1..4 : Store!Statements[i] = Store!BaseTables[i]
  /\ \A i \in 1..3 : Store!Statements[4 + i] = Store!RoleColumns[i]
  /\ Store!Statements[8] = Store!RoleCheck
  /\ \A i \in 1..13 : Store!Statements[8 + i] = Store!Later[i]
<1> DEFINE check == <<Store!RoleCheck>>
           front == Store!RoleColumns \o check
           rest  == front \o Store!Later
<1>1. check \in Seq(Orders) /\ Len(check) = 1 /\ check[1] = Store!RoleCheck
  <2>1. PICK o \in Orders : o = Store!RoleCheck
    BY OthersTyped
  <2> QED BY <2>1, OneListed
<1> HIDE DEF check
<1>2. /\ front \in Seq(Orders) /\ Len(front) = 4
      /\ \A i \in 1..3 : front[i] = Store!RoleColumns[i]
      /\ front[4] = Store!RoleCheck
  <2>1. PICK s, t, u : s = Store!RoleColumns /\ t = check /\ u = front
    OBVIOUS
  <2>0. PICK m \in Nat, n \in Nat : m = 3 /\ n = 1
    OBVIOUS
  <2>2. s \in Seq(Orders) /\ t \in Seq(Orders) /\ m = Len(s) /\ n = Len(t) /\ u = s \o t
    BY <2>0, <2>1, <1>1, ListOfRoles
  <2>3. /\ u \in Seq(Orders) /\ Len(u) = m + n
        /\ \A i \in 1..m : u[i] = s[i]
        /\ \A i \in 1..n : u[m + i] = t[i]
    BY <2>2, Concatenation
  <2>4. u[4] = t[1]
    <3>1. 1 \in 1..1 /\ 3 + 1 = 4
      OBVIOUS
    <3> QED BY <2>0, <2>3, <3>1
  <2> HIDE DEF front
  <2> QED BY <1>1, <2>0, <2>1, <2>3, <2>4
<1> HIDE DEF front
<1>3. /\ rest \in Seq(Orders) /\ Len(rest) = 17
      /\ \A i \in 1..4 : rest[i] = front[i]
      /\ \A i \in 1..13 : rest[4 + i] = Store!Later[i]
  <2>1. PICK s, t, u : s = front /\ t = Store!Later /\ u = rest
    OBVIOUS
  <2>0. PICK m \in Nat, n \in Nat : m = 4 /\ n = 13
    OBVIOUS
  <2>2. s \in Seq(Orders) /\ t \in Seq(Orders) /\ m = Len(s) /\ n = Len(t) /\ u = s \o t
    BY <2>0, <2>1, <1>2, ListOfLater
  <2>3. /\ u \in Seq(Orders) /\ Len(u) = m + n
        /\ \A i \in 1..m : u[i] = s[i]
        /\ \A i \in 1..n : u[m + i] = t[i]
    BY <2>2, Concatenation
  <2> HIDE DEF rest
  <2> QED BY <2>0, <2>1, <2>3
<1>4. Store!Statements = Store!BaseTables \o rest
  BY DEF Store!Statements, Store!Altered, rest, front, check
<1> HIDE DEF rest
<1>5. /\ Store!Statements \in Seq(Orders) /\ Len(Store!Statements) = 21
      /\ \A i \in 1..4 : Store!Statements[i] = Store!BaseTables[i]
      /\ \A i \in 1..17 : Store!Statements[4 + i] = rest[i]
  <2>1. PICK s, t, u : s = Store!BaseTables /\ t = rest /\ u = Store!Statements
    OBVIOUS
  <2>0. PICK m \in Nat, n \in Nat : m = 4 /\ n = 17
    OBVIOUS
  <2>2. s \in Seq(Orders) /\ t \in Seq(Orders) /\ m = Len(s) /\ n = Len(t) /\ u = s \o t
    BY <2>0, <2>1, <1>3, <1>4, ListOfBase
  <2>3. /\ u \in Seq(Orders) /\ Len(u) = m + n
        /\ \A i \in 1..m : u[i] = s[i]
        /\ \A i \in 1..n : u[m + i] = t[i]
    BY <2>2, Concatenation
  <2> QED BY <2>0, <2>1, <2>3
<1>6. \A i \in 1..3 : i \in 1..17 /\ i \in 1..4
  OBVIOUS
<1>7. \A i \in 1..13 : 4 + i \in 1..17 /\ 4 + (4 + i) = 8 + i
  OBVIOUS
<1>8. Store!Statements[8] = rest[4]
  <2>1. 4 \in 1..17 /\ 4 + 4 = 8
    OBVIOUS
  <2> QED BY <1>5, <2>1
<1>9. \A i \in 1..3 : Store!Statements[4 + i] = Store!RoleColumns[i]
  BY <1>2, <1>3, <1>5, <1>6
<1>10. ASSUME NEW i \in 1..13 PROVE Store!Statements[8 + i] = Store!Later[i]
  <2>1. Store!Statements[4 + (4 + i)] = rest[4 + i]
    BY <1>5, <1>7
  <2> QED BY <1>3, <1>7, <2>1
<1>11. DOMAIN Store!Statements = 1..21
  BY <1>5
<1>12. \A i \in 1..21 : Store!Statements[i] \in Orders
  BY <1>5, ElementTyped
<1> QED BY <1>2, <1>3, <1>5, <1>8, <1>9, <1>10, <1>11, <1>12

\* What the statements are like: only the eighth checks the roles, the ones before it add no
\* column to the pools but the role, and none after the fourth creates the pools.
LEMMA StatementsAre ==
  ASSUME NEW i \in 1..21
  PROVE  LET s == Store!Statements[i]
         IN  /\ s \in Orders
             /\ s.what = "check" <=> i = 8
             /\ s.what = "check" => s.table = "pools"
             /\ s.what = "fill" <=> i = 18
             /\ i = 18 => s.table = "sessions"
             /\ i < 8 /\ s.table = "pools" => s.columns \subseteq {"role"}
             /\ s.what = "create" /\ s.columns # {} => i \in {3, 4}
             /\ s.what = "check" \/ s.what = "fill" => s.columns = {}
<1> DEFINE s == Store!Statements[i]
<1>1. s \in Orders
  BY ListOfAll
<1>2. CASE i = 1
  <2>1. s.what = "create" /\ s.table = "settings" /\ s.columns = {}
    BY <1>2, ListOfAll, ListOfBase, CreateTyped DEF Tables
  <2> QED BY <1>1, <1>2, <2>1
<1>3. CASE i = 2
  <2>1. s.what = "create" /\ s.table = "issues" /\ s.columns = {}
    BY <1>3, ListOfAll, ListOfBase, CreateTyped DEF Tables
  <2> QED BY <1>1, <1>3, <2>1
<1>4. CASE i = 3
  <2>1. s.what = "create" /\ s.table = "sessions" /\ s.columns = {"pending_question_id"}
    BY <1>4, ListOfAll, ListOfBase, CreateTyped DEF Tables, Columns
  <2> QED BY <1>1, <1>4, <2>1
<1>5. CASE i = 4
  <2>1. s.what = "create" /\ s.table = "pools" /\ s.columns = {"role"}
    <3>1. s = Store!Create("pools", {"role"})
      BY <1>5, ListOfAll, ListOfBase
    <3> QED BY <3>1, CreateTyped DEF Tables, Columns
  <2> QED BY <1>1, <1>5, <2>1
<1>6. CASE i \in 5..7
  <2>1. PICK j \in 1..3 : j = i - 4 /\ s = Store!RoleColumns[j]
    <3>1. i - 4 \in 1..3 /\ 4 + (i - 4) = i
      BY <1>6
    <3> QED BY <3>1, ListOfAll
  <2>2. s.what = "add" /\ (s.table = "pools" => s.columns = {"role"})
    <3>1. j = 1 \/ j = 2 \/ j = 3
      OBVIOUS
    <3> QED BY <2>1, <3>1, ListOfRoles, AddTyped DEF Tables, Columns
  <2> QED BY <1>1, <1>6, <2>2
<1>7. CASE i = 8
  <2>1. s.what = "check" /\ s.table = "pools" /\ s.columns = {}
    BY <1>7, ListOfAll, OthersTyped
  <2> QED BY <1>1, <1>7, <2>1
<1>8. CASE i \in 9..21
  <2>1. PICK j \in 1..13 : j = i - 8 /\ s = Store!Later[j]
    <3>1. i - 8 \in 1..13 /\ 8 + (i - 8) = i
      BY <1>8
    <3> QED BY <3>1, ListOfAll
  <2>2. i = 18 <=> j = 10
    BY <2>1
  <2>3. CASE j = 10
    <3>1. s.what = "fill" /\ s.table = "sessions" /\ s.columns = {}
      BY <2>1, <2>3, ListOfLater, OthersTyped
    <3> QED BY <1>1, <1>8, <2>2, <2>3, <3>1
  <2>4. CASE j # 10
    <3>1. s.what = "add" \/ (s.what = "create" /\ s.columns = {})
      BY <2>1, <2>4, ListOfLater
    <3> QED BY <1>1, <1>8, <2>2, <2>4, <3>1
  <2> QED BY <2>3, <2>4
<1> QED BY <1>2, <1>3, <1>4, <1>5, <1>6, <1>7, <1>8

\* The versioned migrations bring columns to two tables only.
LEMMA MigrationsBring ==
  ASSUME NEW i \in 1..9, NEW c \in Store!Brought(Store!Migrations[i]), Len(c) = 2
  PROVE  <<c[1]>> \in {<<"pools">>, <<"issues">>}
<1> DEFINE none == [tables |-> {}, up |-> <<>>]
           two  == [tables |-> {"card_state_transitions"}, up |-> <<>>]
           thr  == [tables |-> {"collections", "collection_members"}, up |-> <<>>]
           fou  == [tables |-> {"cross_workspace_deps"}, up |-> <<>>]
           fiv  == [tables |-> {"providers"}, up |-> <<"pools", "provider_id">>]
           six  == [tables |-> {"pool_daily_usage"}, up |-> <<>>]
           sev  == [tables |-> {"skill_outcomes"}, up |-> <<>>]
           eig  == [tables |-> {}, up |-> <<"issues", "tracker_ref">>]
           nin  == [tables |-> {"fanout_proposals"}, up |-> <<"issues", "depends_on_external">>]
           m    == Store!Migrations[i]
           Ups  == {<<>>, <<"pools", "provider_id">>, <<"issues", "tracker_ref">>,
                    <<"issues", "depends_on_external">>}
<1>0. Store!Migrations = <<none, two, thr, fou, fiv, six, sev, eig, nin>>
  BY DEF Store!Migrations
<1>7. none.up \in Ups /\ two.up \in Ups /\ thr.up \in Ups /\ fou.up \in Ups /\ fiv.up \in Ups /\ six.up \in Ups
      /\ sev.up \in Ups /\ eig.up \in Ups /\ nin.up \in Ups
  OBVIOUS
<1> HIDE DEF none, two, thr, fou, fiv, six, sev, eig, nin
<1>1. m.up \in Ups
  <2> HIDE DEF Ups
  <2>1. LET t == Store!Migrations
        IN  t[1] = none /\ t[2] = two /\ t[3] = thr /\ t[4] = fou /\ t[5] = fiv /\ t[6] = six
             /\ t[7] = sev /\ t[8] = eig
            /\ t[9] = nin
    BY <1>0, NineListed
  <2>2. i = 1 \/ i = 2 \/ i = 3 \/ i = 4 \/ i = 5 \/ i = 6 \/ i = 7 \/ i = 8 \/ i = 9
    OBVIOUS
  <2> QED BY <1>7, <2>1, <2>2
<1> HIDE DEF m
<1>2. c # <<>> /\ (c = m.up \/ \E t \in m.tables : c = <<t>>)
  <2>1. c \in {<<t>> : t \in m.tables} \cup {x \in {m.up} : x # <<>>}
    BY DEF Store!Brought, m
  <2>2. \A t : <<t>> # <<>>
    OBVIOUS
  <2> QED BY <2>1, <2>2
<1>3. \A t : Len(<<t>>) = 1
  OBVIOUS
<1>4. c = m.up
  BY <1>2, <1>3
<1>5. c \in {<<"pools", "provider_id">>, <<"issues", "tracker_ref">>,
                    <<"issues", "depends_on_external">>}
  BY <1>1, <1>2, <1>4
<1> QED BY <1>5

LEMMA NineMigrations == Len(Store!Migrations) = 9
<1>1. \A a, b, c, d, e, f, g, h, i : Len(<<a, b, c, d, e, f, g, h, i>>) = 9
  OBVIOUS
<1> QED BY <1>1 DEF Store!Migrations

\* The statements that are about the tables with columns of their own.
LEMMA Cornerstones ==
  LET s == Store!Statements
  IN  /\ s[3].what = "create" /\ s[3].table = "sessions" /\ s[3].columns = {"pending_question_id"}
      /\ s[4].what = "create" /\ s[4].table = "pools" /\ s[4].columns = {"role"}
      /\ s[2].what = "create" /\ s[2].table = "issues"
      /\ s[6].what = "add" /\ s[6].table = "sessions" /\ s[6].columns = {"pending_question_id"}
      /\ s[7].what = "add" /\ s[7].table = "pools" /\ s[7].columns = {"role"}
<1> DEFINE s == Store!Statements
<1>0. 4 + 2 = 6 /\ 4 + 3 = 7 /\ 2 \in 1..3 /\ 3 \in 1..3 /\ 2 \in 1..4 /\ 3 \in 1..4 /\ 4 \in 1..4
  OBVIOUS
<1>1. /\ s[2] = Store!Create("issues", {}) /\ s[3] = Store!Create("sessions", {"pending_question_id"})
      /\ s[4] = Store!Create("pools", {"role"})
  BY <1>0, ListOfAll, ListOfBase
<1>2. s[6] = Store!Add("sessions", "pending_question_id") /\ s[7] = Store!Add("pools", "role")
  BY <1>0, ListOfAll, ListOfRoles
<1> QED BY <1>1, <1>2, CreateTyped, AddTyped DEF Tables, Columns

\* What a statement leaves in the file: one that creates a table leaves the columns of a
\* table alone that is there.
DoneBy(s) == IF s.what = "create" THEN {<<s.table>>} ELSE IF s.what = "add" THEN Store!Items(s) ELSE {}

\* The first n statements have been carried out on the file.
Through(d, n) ==
  /\ \A i \in 1..n : DoneBy(Store!Statements[i]) \subseteq d.have
  /\ n >= 8 => d.checked
  /\ n >= 18 => ~d.drifted

\* The pools have no columns but those that a rebuild of their table keeps.
Roleless(have) == \A i \in have : i[1] = "pools" => i \in {<<"pools">>, <<"pools", "role">>}

\* What is true of every file and of every backup, whoever has opened it.
FileOK(d) ==
  /\ {"have", "checked", "flagged", "drifted", "ledger", "stamp", "opened"} \subseteq DOMAIN d
  /\ d.flagged => d.checked
  /\ ~d.checked => Roleless(d.have) /\ d.ledger = {}
  /\ \A i \in d.ledger : i \in 1..9 /\ Store!Brought(Store!Migrations[i]) \subseteq d.have
  /\ d.opened \in Nat /\ d.stamp = d.opened

Copies == \E S : backups \in Seq(S) /\ \A d \in S : FileOK(d)

\* How far an Open is, and what it has seen to.
Progress ==
  /\ release \in 1..9
  /\ pc \in {"off", "legacy", "run", "open", "failed"}
  /\ pc = "legacy" => at \in 1..22 /\ Through(db, at - 1)
  /\ pc \in {"run", "open"} => Through(db, 21) /\ db.opened <= release
  /\ pc = "open" => 1..release \subseteq db.ledger
  /\ pc = "failed" => db.opened > release

StoreInv == FileOK(db) /\ Copies /\ Progress

LEMMA ItemsAre ==
  ASSUME NEW s, NEW x \in Store!Items(s)
  PROVE  /\ x[1] = s.table
         /\ x = <<s.table>> \/ \E c \in s.columns : x = <<s.table, c>>
BY DEF Store!Items

\* All tables and columns are there when all statements have been carried out.
LEMMA AllThere ==
  ASSUME NEW d, Through(d, 21), NEW i \in 1..21
  PROVE  Store!Items(Store!Statements[i]) \subseteq d.have
<1> DEFINE s == Store!Statements[i]
<1>1. \A j \in 1..21 : DoneBy(Store!Statements[j]) \subseteq d.have
  BY DEF Through
<1>2. <<"sessions">> \in d.have /\ <<"pools">> \in d.have
  <2>1. 3 \in 1..21 /\ 4 \in 1..21
    OBVIOUS
  <2> QED BY <1>1, <2>1, Cornerstones DEF DoneBy
<1>3. <<"sessions", "pending_question_id">> \in d.have /\ <<"pools", "role">> \in d.have
  <2>1. 6 \in 1..21 /\ 7 \in 1..21
    OBVIOUS
  <2>2. /\ Store!Items(Store!Statements[6]) \subseteq d.have
        /\ Store!Items(Store!Statements[7]) \subseteq d.have
    BY <1>1, <2>1, Cornerstones DEF DoneBy
  <2> QED BY <2>2, Cornerstones DEF Store!Items
<1>4. s \in Orders
  BY ListOfAll
<1>5. CASE s.what = "add"
  BY <1>1, <1>5 DEF DoneBy
<1>6. CASE s.what = "create" /\ s.columns = {}
  BY <1>1, <1>6 DEF DoneBy, Store!Items
<1>7. CASE s.what = "create" /\ s.columns # {}
  <2>1. i = 3 \/ i = 4
    BY <1>7, StatementsAre
  <2> QED BY <1>2, <1>3, <2>1, Cornerstones DEF Store!Items
<1>8. CASE s.what \in {"check", "fill"}
  <2>1. s.columns = {} /\ s.table \in {"pools", "sessions"}
    BY <1>8, StatementsAre
  <2> QED BY <1>2, <2>1 DEF Store!Items
<1> QED BY <1>4, <1>5, <1>6, <1>7, <1>8 DEF Orders

\* Before the check of the roles no statement gives the pools another column.
LEMMA EarlyItems ==
  ASSUME NEW i \in 1..7
  PROVE  Roleless(Store!Items(Store!Statements[i]))
<1> DEFINE s == Store!Statements[i]
<1>1. s.table = "pools" => s.columns \subseteq {"role"}
  <2>1. i \in 1..21 /\ i < 8
    OBVIOUS
  <2> QED BY <2>1, StatementsAre
<1>2. ASSUME NEW x \in Store!Items(s), x[1] = "pools"
      PROVE  x \in {<<"pools">>, <<"pools", "role">>}
  <2>1. s.table = "pools"
    BY <1>2, ItemsAre
  <2> HIDE DEF s
  <2> QED BY <1>1, <1>2, <2>1, ItemsAre
<1> QED BY <1>2 DEF Roleless

LEMMA ThroughKept ==
  ASSUME NEW d, NEW e, NEW n \in Nat, Through(d, n),
         d.have \subseteq e.have, d.checked => e.checked, e.drifted => d.drifted
  PROVE  Through(e, n)
BY DEF Through

LEMMA ThroughNext ==
  ASSUME NEW d, NEW n \in 1..21, Through(d, n - 1), DoneBy(Store!Statements[n]) \subseteq d.have,
         n = 8 => d.checked, n = 18 => ~d.drifted
  PROVE  Through(d, n)
<1>1. ASSUME NEW i \in 1..n PROVE DoneBy(Store!Statements[i]) \subseteq d.have
  <2>1. i = n \/ i \in 1..(n - 1)
    OBVIOUS
  <2> QED BY <2>1 DEF Through
<1>2. n >= 8 => d.checked
  BY DEF Through
<1>3. n >= 18 => ~d.drifted
  BY DEF Through
<1> QED BY <1>1, <1>2, <1>3 DEF Through

\* A statement leaves the file a good one.
LEMMA FileKept ==
  ASSUME NEW d, NEW e, FileOK(d), DOMAIN e = DOMAIN d,
         d.have \subseteq e.have, d.checked => e.checked, e.flagged => d.flagged \/ e.checked,
         e.ledger = d.ledger, e.stamp = d.stamp, e.opened = d.opened,
         ~e.checked => Roleless(e.have)
  PROVE  FileOK(e)
BY DEF FileOK

LEMMA CreateStep ==
  ASSUME StoreInv, NEW k \in 1..21, NEW s, s = Store!Statements[k], k = at, pc = "legacy",
         Store!CreateTable(s)
  PROVE  FileOK(db') /\ Through(db', k) /\ db.have \subseteq db'.have /\ at' = k + 1 /\ pc' = "legacy"
<1>1. FileOK(db) /\ Through(db, k - 1) /\ s.what = "create" /\ at' = k + 1 /\ pc' = "legacy"
  BY DEF StoreInv, Progress, Store!CreateTable, Store!Onward
<1>2. k # 8 /\ k # 18
  BY <1>1, StatementsAre
<1>3. CASE <<s.table>> \in db.have
  <2>1. db' = db
    BY <1>3 DEF Store!CreateTable
  <2>2. Through(db, k)
    BY <1>1, <1>2, <1>3, ThroughNext DEF DoneBy
  <2> QED BY <1>1, <2>1, <2>2
<1>4. CASE <<s.table>> \notin db.have
  <2>1. db' = [db EXCEPT !.have = @ \cup Store!Items(s), !.checked = @ \/ s.table = "pools"]
    BY <1>4 DEF Store!CreateTable
  <2>2. /\ DOMAIN db' = DOMAIN db /\ db'.have = db.have \cup Store!Items(s)
        /\ db'.checked <=> (db.checked \/ s.table = "pools")
        /\ db'.flagged = db.flagged /\ db'.drifted = db.drifted /\ db'.ledger = db.ledger
        /\ db'.stamp = db.stamp /\ db'.opened = db.opened
    BY <1>1, <2>1 DEF FileOK
  <2>3. ~db'.checked => Roleless(db'.have)
    <3>1. ASSUME ~db'.checked, NEW x \in db'.have, x[1] = "pools"
          PROVE  x \in {<<"pools">>, <<"pools", "role">>}
      <4>1. ~db.checked /\ s.table # "pools" /\ Roleless(db.have)
        BY <1>1, <2>2, <3>1 DEF FileOK
      <4>2. x \notin Store!Items(s)
        BY <3>1, <4>1, ItemsAre
      <4> QED BY <2>2, <3>1, <4>1, <4>2 DEF Roleless
    <3> QED BY <3>1 DEF Roleless
  <2>4. FileOK(db')
    <3>1. PICK d, e : d = db /\ e = db'
      OBVIOUS
    <3>2. /\ DOMAIN e = DOMAIN d /\ d.have \subseteq e.have /\ (d.checked => e.checked)
          /\ e.flagged = d.flagged /\ (d.flagged => e.checked)
          /\ e.ledger = d.ledger /\ e.stamp = d.stamp /\ e.opened = d.opened
          /\ (~e.checked => Roleless(e.have)) /\ FileOK(d)
      BY <1>1, <2>2, <2>3, <3>1 DEF FileOK
    <3>3. FileOK(e)
      BY <3>2, FileKept
    <3> QED BY <3>1, <3>3
  <2>5. Through(db', k - 1)
    BY <1>1, <2>2, ThroughKept
  <2>6. DoneBy(s) \subseteq db'.have
    BY <1>1, <2>2 DEF DoneBy, Store!Items
  <2>7. Through(db', k)
    BY <1>2, <2>5, <2>6, ThroughNext
  <2> QED BY <1>1, <2>2, <2>4, <2>7
<1> QED BY <1>3, <1>4

LEMMA AddStep ==
  ASSUME StoreInv, NEW k \in 1..21, NEW s, s = Store!Statements[k], k = at, pc = "legacy",
         Store!AddColumn(s)
  PROVE  FileOK(db') /\ Through(db', k) /\ db.have \subseteq db'.have /\ at' = k + 1 /\ pc' = "legacy"
<1>1. FileOK(db) /\ Through(db, k - 1) /\ s.what = "add" /\ at' = k + 1 /\ pc' = "legacy"
  BY DEF StoreInv, Progress, Store!AddColumn, Store!Onward
<1>2. k # 8 /\ k # 18
  BY <1>1, StatementsAre
<1>3. db' = [db EXCEPT !.have = @ \cup Store!Items(s)]
  BY DEF Store!AddColumn
<1>4. /\ DOMAIN db' = DOMAIN db /\ db'.have = db.have \cup Store!Items(s)
      /\ db'.checked = db.checked /\ db'.flagged = db.flagged /\ db'.drifted = db.drifted
      /\ db'.ledger = db.ledger /\ db'.stamp = db.stamp /\ db'.opened = db.opened
  BY <1>1, <1>3 DEF FileOK
<1>5. ASSUME ~db'.checked PROVE Roleless(db'.have)
  <2>1. Roleless(db.have) /\ ~db.checked
    BY <1>1, <1>4, <1>5 DEF FileOK
  <2>2. k \in 1..7
    BY <1>1, <1>2, <2>1 DEF Through
  <2>3. Roleless(Store!Items(s))
    BY <2>2, EarlyItems
  <2> QED BY <1>4, <2>1, <2>3 DEF Roleless
<1>6. FileOK(db')
  <2>1. PICK d, e : d = db /\ e = db'
    OBVIOUS
  <2>2. /\ DOMAIN e = DOMAIN d /\ d.have \subseteq e.have /\ e.checked = d.checked
        /\ e.flagged = d.flagged
        /\ e.ledger = d.ledger /\ e.stamp = d.stamp /\ e.opened = d.opened
        /\ (~e.checked => Roleless(e.have)) /\ FileOK(d)
    BY <1>1, <1>4, <1>5, <2>1
  <2>3. FileOK(e)
    BY <2>2, FileKept
  <2> QED BY <2>1, <2>3
<1>7. Through(db', k - 1)
  BY <1>1, <1>4, ThroughKept
<1>8. DoneBy(s) \subseteq db'.have
  BY <1>1, <1>4 DEF DoneBy
<1>9. Through(db', k)
  BY <1>2, <1>7, <1>8, ThroughNext
<1> QED BY <1>1, <1>4, <1>6, <1>9

\* A rebuild of the pools table takes nothing away: no other column can be there yet.
LEMMA CheckStep ==
  ASSUME StoreInv, NEW k \in 1..21, NEW s, s = Store!Statements[k], k = at, pc = "legacy",
         Store!EnsureRoleCheck(s)
  PROVE  /\ FileOK(db') /\ db.have \subseteq db'.have /\ pc' = "legacy"
         /\ \/ Through(db', k) /\ at' = k + 1
            \/ Through(db', k - 1) /\ at' = k
<1>1. FileOK(db) /\ Through(db, k - 1) /\ s.what = "check"
  BY DEF StoreInv, Progress, Store!EnsureRoleCheck
<1>2. k = 8 /\ k # 18 /\ DoneBy(s) = {}
  BY <1>1, StatementsAre DEF DoneBy
<1>3. CASE db.flagged /\ UNCHANGED db /\ Store!Onward
  <2>1. db.checked
    BY <1>1, <1>3 DEF FileOK
  <2>2. Through(db, k)
    BY <1>1, <1>2, <2>1, ThroughNext
  <2> QED BY <1>1, <1>3, <2>2 DEF Store!Onward
<1>4. CASE ~db.flagged /\ db.checked /\ db' = [db EXCEPT !.flagged = TRUE] /\ Store!Onward
  <2>1. /\ DOMAIN db' = DOMAIN db /\ db'.have = db.have
        /\ db'.checked = db.checked /\ db'.drifted = db.drifted
        /\ db'.ledger = db.ledger /\ db'.stamp = db.stamp /\ db'.opened = db.opened
    BY <1>1, <1>4 DEF FileOK
  <2>2. db'.checked
    BY <1>4, <2>1
  <2>3. FileOK(db')
    BY <1>1, <2>1, <2>2 DEF FileOK
  <2>4. Through(db', k - 1)
    BY <1>1, <2>1, ThroughKept
  <2>5. Through(db', k)
    BY <1>2, <2>2, <2>4, ThroughNext
  <2> QED BY <1>4, <2>1, <2>3, <2>5 DEF Store!Onward
<1>5. CASE /\ ~db.flagged /\ ~db.checked
           /\ db' = [db EXCEPT !.checked = TRUE,
                               !.have = {i \in @ : i[1] = "pools" => i \in {<<"pools">>, <<"pools", "role">>}}]
           /\ UNCHANGED <<pc, at>>
  <2>1. Roleless(db.have)
    BY <1>1, <1>5 DEF FileOK
  <2>2. /\ DOMAIN db' = DOMAIN db /\ db'.checked = TRUE /\ db'.flagged = db.flagged
        /\ db'.have = {i \in db.have : i[1] = "pools" => i \in {<<"pools">>, <<"pools", "role">>}}
        /\ db'.drifted = db.drifted
        /\ db'.ledger = db.ledger /\ db'.stamp = db.stamp /\ db'.opened = db.opened
    BY <1>1, <1>5 DEF FileOK
  <2>3. db'.have = db.have
    BY <2>1, <2>2 DEF Roleless
  <2>4. FileOK(db')
    BY <1>1, <2>2, <2>3 DEF FileOK
  <2>5. Through(db', k - 1)
    BY <1>1, <2>2, <2>3, ThroughKept
  <2> QED BY <1>5, <2>3, <2>4, <2>5
<1> QED BY <1>3, <1>4, <1>5 DEF Store!EnsureRoleCheck

LEMMA FillStep ==
  ASSUME StoreInv, NEW k \in 1..21, NEW s, s = Store!Statements[k], k = at, pc = "legacy",
         Store!FillState(s)
  PROVE  FileOK(db') /\ Through(db', k) /\ db.have \subseteq db'.have /\ at' = k + 1 /\ pc' = "legacy"
<1>1. FileOK(db) /\ Through(db, k - 1) /\ s.what = "fill" /\ at' = k + 1 /\ pc' = "legacy"
  BY DEF StoreInv, Progress, Store!FillState, Store!Onward
<1>2. k # 8 /\ DoneBy(s) = {}
  BY <1>1, StatementsAre DEF DoneBy
<1>3. /\ DOMAIN db' = DOMAIN db /\ db'.have = db.have
      /\ db'.checked = db.checked /\ db'.flagged = db.flagged /\ db'.drifted = FALSE
      /\ db'.ledger = db.ledger /\ db'.stamp = db.stamp /\ db'.opened = db.opened
  BY <1>1 DEF FileOK, Store!FillState
<1>4. FileOK(db')
  BY <1>1, <1>3 DEF FileOK
<1>5. Through(db', k - 1)
  BY <1>1, <1>3, ThroughKept
<1>6. Through(db', k)
  BY <1>2, <1>3, <1>5, ThroughNext
<1> QED BY <1>1, <1>3, <1>4, <1>6

LEMMA LegacyStep ==
  ASSUME StoreInv, Store!Legacy
  PROVE  StoreInv' /\ db.have \subseteq db'.have
<1>0. Len(Store!Statements) = 21
  BY ListOfAll
<1>1. /\ pc = "legacy" /\ at \in 1..22 /\ at <= 21 /\ UNCHANGED <<backups, release, faults>>
      /\ Copies /\ release \in 1..9
  BY <1>0 DEF StoreInv, Progress, Store!Legacy
<1>2. PICK k, s : k \in 1..21 /\ k = at /\ s = Store!Statements[k]
  BY <1>1
<1>3. Store!CreateTable(s) \/ Store!AddColumn(s) \/ Store!EnsureRoleCheck(s) \/ Store!FillState(s)
  BY <1>2 DEF Store!Legacy
<1>4. /\ FileOK(db') /\ db.have \subseteq db'.have /\ pc' = "legacy"
      /\ \/ Through(db', k) /\ at' = k + 1
         \/ Through(db', k - 1) /\ at' = k
  BY <1>1, <1>2, <1>3, CreateStep, AddStep, CheckStep, FillStep
<1>5. at' \in 1..22 /\ Through(db', at' - 1)
  <2>1. k + 1 \in 1..22 /\ (k + 1) - 1 = k /\ k \in 1..22
    BY <1>2
  <2> QED BY <1>4, <2>1
<1>6. Copies'
  BY <1>1 DEF Copies
<1>7. Progress'
  BY <1>1, <1>4, <1>5 DEF Progress
<1> QED BY <1>4, <1>6, <1>7 DEF StoreInv

LEMMA Cut ==
  ASSUME NEW S, NEW s \in Seq(S), NEW a \in Nat \ {0}
  PROVE  SubSeq(s, a, Len(s)) \in Seq(S)
OBVIOUS

LEMMA Appended ==
  ASSUME NEW S, NEW s \in Seq(S), NEW e
  PROVE  Append(s, e) \in Seq(S \cup {e})
<1>1. s \in Seq(S \cup {e}) /\ e \in S \cup {e}
  OBVIOUS
<1> QED BY <1>1

\* The copies that are kept are copies of files.
LEMMA CopiesKept ==
  ASSUME Copies, FileOK(db), backups' \in {Store!BackedUp, backups}
  PROVE  Copies'
<1>1. PICK S : backups \in Seq(S) /\ \A d \in S : FileOK(d)
  BY DEF Copies
<1>2. CASE backups' = backups
  BY <1>2 DEF Copies
<1>3. CASE backups' = Store!BackedUp
  <2>1. PICK copies : copies = Append(backups, db)
    OBVIOUS
  <2>2. PICK T : T = S \cup {db}
    OBVIOUS
  <2>3. copies \in Seq(T) /\ \A d \in T : FileOK(d)
    BY <1>1, <2>1, <2>2, Appended
  <2>4. PICK x \in Int : x = Len(copies) - Store!KeptBackups + 1
    BY <2>3 DEF Store!KeptBackups
  <2>5. Store!Max({1, x}) \in Nat \ {0}
    <3>1. \E m \in {1, x} : \A y \in {1, x} : m >= y
      OBVIOUS
    <3>2. Store!Max({1, x}) \in {1, x} /\ \A y \in {1, x} : Store!Max({1, x}) >= y
      BY <3>1 DEF Store!Max
    <3> HIDE DEF Store!Max
    <3> QED BY <3>2
  <2>6. PICK a \in Nat \ {0} : a = Store!Max({1, x})
    BY <2>5
  <2>7. backups' = SubSeq(copies, a, Len(copies))
    BY <1>3, <2>1, <2>4, <2>6 DEF Store!BackedUp, Store!Rotated
  <2>8. backups' \in Seq(T)
    BY <2>3, <2>7, Cut
  <2> QED BY <2>3, <2>8 DEF Copies
<1> QED BY <1>2, <1>3

LEMMA OpenStarts ==
  ASSUME StoreInv, Store!StoreOpenAssumption, NEW r \in Releases, Store!Start(r)
  PROVE  StoreInv'
<1>1. FileOK(db) /\ Copies /\ UNCHANGED db /\ release' = r /\ pc' = "legacy" /\ at' = 1
  BY DEF StoreInv, Store!Start
<1>2. r \in 1..9
  BY NineMigrations DEF Store!StoreOpenAssumption
<1>3. backups' \in {Store!BackedUp, backups}
  BY DEF Store!Start
<1>4. Copies'
  BY <1>1, <1>3, CopiesKept
<1>5. Through(db', 0)
  BY DEF Through
<1>6. Progress'
  BY <1>1, <1>2, <1>5 DEF Progress
<1> QED BY <1>1, <1>4, <1>6 DEF StoreInv

LEMMA VersionChecked ==
  ASSUME StoreInv, Store!CheckVersion
  PROVE  StoreInv'
<1>0. Len(Store!Statements) = 21
  BY ListOfAll
<1>1. /\ FileOK(db) /\ Copies /\ Progress /\ UNCHANGED <<db, backups, release>>
      /\ pc' = IF db.stamp > release THEN "failed" ELSE "run"
      /\ pc = "legacy" /\ at > 21
  BY <1>0 DEF StoreInv, Store!CheckVersion
<1>2. at = 22 /\ Through(db, 21) /\ release \in 1..9 /\ db.opened \in Nat /\ db.stamp = db.opened
  BY <1>1 DEF Progress, FileOK
<1>3. Progress'
  BY <1>1, <1>2 DEF Progress
<1> QED BY <1>1, <1>3 DEF StoreInv, Copies

\* Both tables that migrations add columns to are there, so nothing of a migration is left out.
LEMMA MigrationApplied ==
  ASSUME StoreInv, Store!Apply
  PROVE  StoreInv' /\ db.have \subseteq db'.have
<1> DEFINE i    == Store!Min(Store!Pending)
           m    == Store!Migrations[i]
           here == {c \in Store!Brought(m) : Len(c) = 2 => <<c[1]>> \in db.have}
<1>1. /\ FileOK(db) /\ Copies /\ Progress /\ pc = "run" /\ Store!Pending # {}
      /\ UNCHANGED <<backups, release, pc, at, faults>>
      /\ db' = [db EXCEPT !.have = @ \cup here, !.ledger = @ \cup {i}]
      /\ Through(db, 21) /\ db.opened <= release /\ release \in 1..9
  BY DEF StoreInv, Progress, Store!Apply
<1>2. i \in 1..9
  <2>1. Store!Pending \subseteq 1..9 /\ Store!Pending \subseteq Nat
    BY <1>1 DEF Store!Pending
  <2>2. PICK x \in Store!Pending : \A y \in Store!Pending : ~(<<y, x>> \in OpToRel(<, Nat))
    BY <1>1, <2>1, NatLessThanWellFounded, WFMin
  <2>3. \A y \in Store!Pending : x =< y
    <3> HIDE DEF i
    <3>1. \A y \in Store!Pending : ~(y < x)
      BY <2>1, <2>2 DEF OpToRel
    <3> QED BY <2>1, <3>1
  <2>4. i \in Store!Pending
    BY <2>3 DEF Store!Min
  <2> QED BY <2>1, <2>4
<1>3. <<"pools">> \in db.have /\ <<"issues">> \in db.have
  <2>1. 2 \in 1..21 /\ 4 \in 1..21
    OBVIOUS
  <2>2. /\ DoneBy(Store!Statements[2]) \subseteq db.have
        /\ DoneBy(Store!Statements[4]) \subseteq db.have
    BY <1>1, <2>1 DEF Through
  <2> QED BY <2>2, Cornerstones DEF DoneBy
<1> HIDE DEF i
<1>4. here = Store!Brought(m)
  BY <1>2, <1>3, MigrationsBring
<1> HIDE DEF here
<1>5. /\ DOMAIN db' = DOMAIN db /\ db'.have = db.have \cup Store!Brought(m)
      /\ db'.ledger = db.ledger \cup {i}
      /\ db'.checked = db.checked /\ db'.flagged = db.flagged /\ db'.drifted = db.drifted
      /\ db'.stamp = db.stamp /\ db'.opened = db.opened
  BY <1>1, <1>4 DEF FileOK
<1>6. db.checked
  BY <1>1 DEF Through
<1>7. FileOK(db')
  BY <1>1, <1>2, <1>5, <1>6 DEF FileOK
<1>8. Through(db', 21)
  BY <1>1, <1>5, ThroughKept
<1>9. Progress'
  BY <1>1, <1>5, <1>8 DEF Progress
<1> QED BY <1>1, <1>5, <1>7, <1>9 DEF StoreInv, Copies

LEMMA Stamped ==
  ASSUME StoreInv, Store!Stamp
  PROVE  StoreInv' /\ db.have \subseteq db'.have
<1>1. /\ FileOK(db) /\ Copies /\ Progress /\ pc = "run" /\ Store!Pending = {}
      /\ UNCHANGED <<backups, release, at, faults>> /\ pc' = "open"
      /\ db' = [db EXCEPT !.stamp = release, !.opened = Store!Max({@, release})]
      /\ Through(db, 21) /\ db.opened <= release /\ release \in 1..9
  BY DEF StoreInv, Progress, Store!Stamp
<1>2. PICK o \in Nat, r \in 1..9 : o = db.opened /\ r = release /\ o <= r
  BY <1>1 DEF FileOK
<1>3. Store!Max({o, r}) = r
  <2>1. r \in {o, r} /\ \A y \in {o, r} : r >= y
    BY <1>2
  <2>2. /\ Store!Max({o, r}) \in {o, r}
        /\ \A y \in {o, r} : Store!Max({o, r}) >= y
    BY <2>1 DEF Store!Max
  <2> HIDE DEF Store!Max
  <2> QED BY <1>2, <2>2
<1>4. /\ DOMAIN db' = DOMAIN db /\ db'.have = db.have /\ db'.ledger = db.ledger
      /\ db'.checked = db.checked /\ db'.flagged = db.flagged /\ db'.drifted = db.drifted
      /\ db'.stamp = release /\ db'.opened = release
  BY <1>1, <1>2, <1>3 DEF FileOK
<1>5. FileOK(db')
  BY <1>1, <1>4 DEF FileOK
<1>6. Through(db', 21)
  BY <1>1, <1>4, ThroughKept
<1>7. 1..release \subseteq db.ledger
  BY <1>1 DEF Store!Pending
<1>8. Progress'
  BY <1>1, <1>4, <1>6, <1>7 DEF Progress
<1> QED BY <1>1, <1>4, <1>5, <1>8 DEF StoreInv, Copies

LEMMA OpenEnds ==
  ASSUME StoreInv, Store!Quit \/ Store!CutShort
  PROVE  StoreInv' /\ UNCHANGED db
<1>1. UNCHANGED <<db, backups, release>> /\ pc' = "off"
  BY DEF Store!Quit, Store!CutShort
<1> QED BY <1>1 DEF StoreInv, Copies, Progress, FileOK

LEMMA PutBack ==
  ASSUME StoreInv, Store!Restore
  PROVE  StoreInv'
<1>1. pc = "off" /\ UNCHANGED <<backups, release, pc, at>> /\ Copies /\ Progress
  BY DEF StoreInv, Store!Restore
<1>2. PICK i \in DOMAIN backups : db' = backups[i]
  BY DEF Store!Restore
<1>3. PICK S : backups \in Seq(S) /\ \A d \in S : FileOK(d)
  BY <1>1 DEF Copies
<1>4. db' \in S
  <2>1. i \in 1..Len(backups)
    BY <1>2, <1>3
  <2> QED BY <1>2, <1>3, <2>1, ElementTyped
<1>5. FileOK(db')
  BY <1>3, <1>4
<1> QED BY <1>1, <1>5 DEF StoreInv, Copies, Progress

LEMMA StoreStep ==
  ASSUME StoreInv, Store!StoreOpenAssumption, [Store!Next]_storeOf
  PROVE  StoreInv' /\ (pc # "off" => db.have \subseteq db'.have)
<1>1. CASE UNCHANGED storeOf
  BY <1>1 DEF storeOf, StoreInv, Copies, Progress, FileOK
<1>2. ASSUME NEW r \in Releases, Store!Start(r)
      PROVE  StoreInv' /\ (pc # "off" => db.have \subseteq db'.have)
  BY <1>2, OpenStarts DEF Store!Start
<1>3. CASE Store!Legacy
  BY <1>3, LegacyStep
<1>4. CASE Store!CheckVersion
  BY <1>4, VersionChecked DEF Store!CheckVersion
<1>5. CASE Store!Apply
  BY <1>5, MigrationApplied
<1>6. CASE Store!Stamp
  BY <1>6, Stamped
<1>7. CASE Store!Quit \/ Store!CutShort
  BY <1>7, OpenEnds
<1>8. CASE Store!Restore
  BY <1>8, PutBack DEF Store!Restore
<1> QED BY <1>1, <1>2, <1>3, <1>4, <1>5, <1>6, <1>7, <1>8 DEF Store!Next

\* The first n elements of a sequence.
LEMMA FirstOnes ==
  ASSUME NEW S, NEW s \in Seq(S), NEW n \in 0..Len(s)
  PROVE  {SubSeq(s, 1, n)[i] : i \in DOMAIN SubSeq(s, 1, n)} = {s[i] : i \in 1..n}
<1>1. /\ DOMAIN SubSeq(s, 1, n) = 1..n
      /\ \A i \in 1..n : SubSeq(s, 1, n)[i] = s[i]
  OBVIOUS
<1> QED BY <1>1

\* A file that earlier conductors may have left is a good one.
LEMMA LeftIsOK ==
  ASSUME NEW n \in 0..21, NEW old \in BOOLEAN
  PROVE  FileOK(Store!Left(n, old))
<1> DEFINE S     == Store!Statements
           done  == Store!ToSet(SubSeq(S, 1, n))
           later == IF old THEN {<<"pools", "role">>, <<"sessions", "pending_question_id">>} ELSE {}
           first == (UNION {Store!Items(s) : s \in done \cap Store!ToSet(Store!BaseTables)}) \ later
           d     == Store!Left(n, old)
<1>1. done = {S[i] : i \in 1..n}
  <2>1. n \in 0..Len(S) /\ S \in Seq(Orders)
    BY ListOfAll
  <2>2. PICK s : s = S
    OBVIOUS
  <2>3. s \in Seq(Orders) /\ n \in 0..Len(s)
    BY <2>1, <2>2
  <2>4. {SubSeq(s, 1, n)[i] : i \in DOMAIN SubSeq(s, 1, n)} = {s[i] : i \in 1..n}
    BY <2>3, FirstOnes
  <2> QED BY <2>2, <2>4 DEF Store!ToSet
<1>2. d.have = first \cup (UNION {Store!Items(s) : s \in done \ Store!ToSet(Store!BaseTables)})
  BY DEF Store!Left
<1>3. /\ d.checked <=> (n > 0 /\ (~old \/ Store!RoleCheck \in done))
      /\ d.flagged <=> Store!RoleCheck \in done
      /\ d.ledger = {} /\ d.stamp = 0 /\ d.opened = 0
      /\ {"have", "checked", "flagged", "drifted", "ledger", "stamp", "opened"} \subseteq DOMAIN d
  BY DEF Store!Left
<1> HIDE DEF d, done
<1>4. d.have \subseteq (UNION {Store!Items(s) : s \in done})
  BY <1>2
<1>5. Store!RoleCheck \in done => n > 0
  BY <1>1
<1>6. n >= 8 => Store!RoleCheck \in done
  <2>1. n >= 8 => 8 \in 1..n
    OBVIOUS
  <2> QED BY <1>1, <2>1, ListOfAll
<1>7. ASSUME ~d.checked, NEW x \in d.have, x[1] = "pools"
      PROVE  x \in {<<"pools">>, <<"pools", "role">>}
  <2>1. PICK i \in 1..n : x \in Store!Items(S[i])
    BY <1>1, <1>4, <1>7
  <2>2. i \in 1..7
    BY <1>3, <1>6, <1>7
  <2> QED BY <1>7, <2>1, <2>2, EarlyItems DEF Roleless
<1>8. ~d.checked => Roleless(d.have)
  BY <1>7 DEF Roleless
<1>9. FileOK(d)
  BY <1>3, <1>5, <1>8 DEF FileOK
<1> QED BY <1>9 DEF d

LEMMA StoreStarts ==
  ASSUME Store!StoreOpenAssumption, Store!Init
  PROVE  StoreInv
<1>1. Ages \subseteq 0..21 /\ Releases \subseteq 1..9
  <2>1. Len(Store!BaseTables) = 4 /\ Len(Store!Statements) = 21 /\ Len(Store!Migrations) = 9
    BY ListOfBase, ListOfAll, NineMigrations
  <2> QED BY <2>1 DEF Store!StoreOpenAssumption
<1>2. FileOK(db)
  <2>1. PICK n \in Ages, old \in BOOLEAN : db = Store!Left(n, old)
    BY DEF Store!Init
  <2>2. n \in 0..21
    BY <1>1
  <2> QED BY <2>1, <2>2, LeftIsOK
<1>3. Copies
  <2>1. backups = <<>>
    BY DEF Store!Init
  <2>2. <<>> \in Seq({})
    OBVIOUS
  <2> QED BY <2>1, <2>2 DEF Copies
<1> QED BY <1>1, <1>2, <1>3 DEF Store!Init, StoreInv, Progress

\* Where an Open stands in its statements and what the file then has (Open, Run, Store.migrate).
THEOREM StoreInvariance == RecordsSpec => []StoreInv
<1>1. RecordsInit => StoreInv
  BY StoreStarts, RecordsAssumption DEF RecordsInit
<1>2. StoreInv /\ [RecordsNext]_recordsVars => StoreInv'
  BY PartSteps, StoreStep, RecordsAssumption
<1> QED BY <1>1, <1>2, PTL DEF RecordsSpec, recordsVars

\* A store that Open returns has every table and column that its release reads, however often
\* earlier starts were cut short and whatever backup has been put back; and Open refuses a file
\* only if a newer release has opened it.
THEOREM OpenedIsComplete == RecordsSpec => []OpensWhatItKnows
<1>1. ASSUME StoreInv PROVE OpensWhatItKnows
  <2>1. FileOK(db) /\ Progress
    BY <1>1 DEF StoreInv
  <2>2. ASSUME pc = "open"
        PROVE  /\ Store!Needed(release) \subseteq db.have
               /\ db.checked /\ ~db.drifted
               /\ 1..release \subseteq db.ledger
               /\ db.opened <= release
    <3>1. Through(db, 21) /\ 1..release \subseteq db.ledger /\ db.opened <= release
      BY <2>1, <2>2 DEF Progress
    <3>2. \A i \in DOMAIN Store!Statements : Store!Items(Store!Statements[i]) \subseteq db.have
      <4>1. DOMAIN Store!Statements = 1..21
        BY ListOfAll
      <4> QED BY <3>1, <4>1, AllThere
    <3>3. \A i \in 1..release : Store!Brought(Store!Migrations[i]) \subseteq db.have
      BY <2>1, <3>1 DEF FileOK
    <3>4. db.checked /\ ~db.drifted
      BY <3>1 DEF Through
    <3>5. ASSUME NEW x \in Store!Needed(release) PROVE x \in db.have
      <4>1. \/ \E i \in DOMAIN Store!Statements : x \in Store!Items(Store!Statements[i])
            \/ \E i \in 1..release : x \in Store!Brought(Store!Migrations[i])
        BY <3>5 DEF Store!Needed
      <4> QED BY <3>2, <3>3, <4>1
    <3> QED BY <3>1, <3>4, <3>5
  <2> QED BY <2>1, <2>2 DEF OpensWhatItKnows, Store!OpensWhatItKnows, Progress
<1> QED BY <1>1, StoreInvariance, PTL

\* No statement of an Open takes away a column that is in the file, and what is stored in it.
THEOREM NothingDropped == RecordsSpec => ColumnsKept
<1>1. StoreInv /\ [RecordsNext]_recordsVars => [pc # "off" => db.have \subseteq db'.have]_storeOf
  BY PartSteps, StoreStep, RecordsAssumption
<1> QED BY <1>1, StoreInvariance, PTL DEF RecordsSpec, recordsVars, ColumnsKept, Store!ColumnsKept, Store!vars,
                                          storeOf

-----------------------------------------------------------------------------
\* Pipelines that have passed Validate

\* The step that an id stands for is the one that has it.
LEMMA FindStepFinds ==
  ASSUME NEW p, Pipes!IsPipeline(p), Pipes!Unique(p), NEW id \in Pipes!Ids(p)
  PROVE  /\ Pipes!FindStep(p, id).id = id
         /\ \E i \in DOMAIN p : Pipes!FindStep(p, id) = p[i]
         /\ Pipes!FindStep(p, id).cap \in Nat
<1>1. PICK n \in Nat : p \in [1 .. n -> [id : STRING, success : STRING, fail : STRING, cap : Nat]]
  BY DEF Pipes!IsPipeline
<1>2. PICK k \in DOMAIN p : p[k].id = id
  BY DEF Pipes!Ids
<1>3. \A j \in DOMAIN p : p[j].id = id => k <= j
  BY <1>1, <1>2 DEF Pipes!Unique
<1>4. \E i \in DOMAIN p : p[i].id = id /\ \A j \in DOMAIN p : p[j].id = id => i <= j
  BY <1>2, <1>3
<1> QED
  BY <1>1, <1>4 DEF Pipes!FindStep

GoodRoute(p, loops, move) ==
  /\ move.type = "spawn_step" =>
       /\ move.step \in Pipes!Ids(p)
       /\ Pipes!FindStep(p, move.step).cap > 0 => loops[move.step] < Pipes!FindStep(p, move.step).cap
  /\ move.type = "blocked" => move.why \in {"no_route", "cap"}

\* A step of a pipeline whose ids are unique and whose routes lead to steps (what Validate
\* lets through) never ends with the card blocked for want of a step, and the card is
\* never sent to a step that has had as many runs as it may.
THEOREM ValidRoutes ==
  ASSUME NEW p, Pipes!IsPipeline(p), Pipes!Validate(p), NEW current \in Pipes!Ids(p),
         NEW outcome \in {"success", "fail"}, NEW loops \in [Pipes!Ids(p) -> Nat]
  PROVE  GoodRoute(p, loops, Pipes!NextAction(p, current, outcome, loops))
<1> DEFINE step   == Pipes!FindStep(p, current)
           target == Pipes!Route(step, outcome)
           cap    == Pipes!FindStep(p, target).cap
           move   == Pipes!NextAction(p, current, outcome, loops)
<1>1. Pipes!Unique(p) /\ Pipes!Linked(p)
  BY DEF Pipes!Validate
<1>2. target \in Pipes!Ids(p) \union {Pipes!NoStep}
  BY <1>1, FindStepFinds DEF Pipes!Route, Pipes!Linked
<1>3. CASE target = Pipes!NoStep
  <2>1. move = Pipes!Done \/ move = Pipes!Blocked("no_route")
    BY <1>3 DEF Pipes!NextAction
  <2>2. CASE move = Pipes!Done
    <3>1. move.type = "done"
      BY <2>2 DEF Pipes!Done
    <3> QED
      BY <3>1 DEF GoodRoute
  <2>3. CASE move = Pipes!Blocked("no_route")
    <3>1. move.type = "blocked" /\ move.why = "no_route"
      BY <2>3 DEF Pipes!Blocked
    <3> QED
      BY <3>1 DEF GoodRoute
  <2> QED
    BY <2>1, <2>2, <2>3
<1>4. CASE target # Pipes!NoStep
  <2>1. target \in Pipes!Ids(p)
    BY <1>2, <1>4
  <2>2. cap \in Nat /\ loops[target] \in Nat
    BY <1>1, <2>1, FindStepFinds
  <2>3. CASE cap > 0 /\ loops[target] >= cap
    <3>1. move = Pipes!Blocked("cap")
      BY <1>4, <2>1, <2>3 DEF Pipes!NextAction
    <3> QED
      BY <3>1 DEF Pipes!Blocked, GoodRoute
  <2>4. CASE ~(cap > 0 /\ loops[target] >= cap)
    <3>1. move = Pipes!Spawn(target)
      BY <1>4, <2>1, <2>4 DEF Pipes!NextAction
    <3>2. cap > 0 => loops[target] < cap
      BY <2>2, <2>4
    <3> QED
      BY <2>1, <3>1, <3>2 DEF Pipes!Spawn, GoodRoute
  <2> QED
    BY <2>3, <2>4
<1> QED
  BY <1>3, <1>4

=============================================================================
