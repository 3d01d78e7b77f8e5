--------------------------- MODULE SlotQueueProofs ---------------------------
(***************************************************************************)
(* No card is forgotten, for any number of issues, drains and reconcilers, *)
(* any capacities and any bounds.                                          *)
(*                                                                         *)
(* The argument follows a request.  A row leaves the queue only in the     *)
(* hands of a drain that has started a worker for it (Dequeuing), and what *)
(* a drain still has to do was a row when it was listed, so it still is    *)
(* one or has been served (Listings).  Hence a card that a drain moves is  *)
(* accounted for (Cards).  The call that made the request relies on the    *)
(* same while it raises the flag (Flagging).  Drains may overlap, act on   *)
(* stale lists and undo the same failure twice: none of this matters.      *)
(***************************************************************************)
EXTENDS SlotQueue, FiniteSetTheorems, SequenceTheorems, TLAPS

Types ==
  /\ queue \in Seq(Issues)
  /\ call \in [Issues -> {"idle", "acquire", "spawn", "starting", "enqueue", "flag"}]
  /\ drain \in [Drains -> [pc : {"idle", "list", "next", "spawn", "starting", "dequeue",
                                 "clear"},
                           todo : Seq(Issues)]]

\* What is queued, or has had its worker.
Settled(i) == Row(i) \/ i \in served

Listings  == \A d \in Drains : \A n \in DOMAIN drain[d].todo : Settled(drain[d].todo[n])
Dequeuing == \A d \in Drains : At(d, "dequeue") \/ At(d, "clear") => Current(d) \in served
Flagging  == \A i \in Issues : call[i] = "flag" => Settled(i)
Cards     == \A i \in moved : i \in broken \/ Settled(i) \/ (i \in Issues /\ call[i] # "idle")

IInv == Types /\ Listings /\ Dequeuing /\ Flagging /\ Cards

-----------------------------------------------------------------------------
\* The sequence operations of the queue.

\* Appending a row keeps the others.
LEMMA AppendedRows ==
  ASSUME NEW S, NEW q \in Seq(S), NEW x \in S
  PROVE  /\ Append(q, x) \in Seq(S)
         /\ ToSet(Append(q, x)) = ToSet(q) \cup {x}
<1>1. Append(q, x) \in Seq(S) /\ Len(Append(q, x)) = Len(q) + 1
      /\ (\A n \in 1..Len(q) : Append(q, x)[n] = q[n]) /\ Append(q, x)[Len(q) + 1] = x
  BY AppendProperties
<1>2. DOMAIN q = 1..Len(q) /\ DOMAIN Append(q, x) = 1..(Len(q) + 1) /\ Len(q) \in Nat
  BY <1>1, LenProperties
<1>3. ASSUME NEW y PROVE y \in ToSet(Append(q, x)) <=> y \in ToSet(q) \cup {x}
  BY <1>1, <1>2 DEF ToSet
<1> QED BY <1>1, <1>3

\* What a drain lists are rows.
LEMMA ListedRows ==
  ASSUME queue \in Seq(Issues), ListLimit \in Nat
  PROVE  Listed \in Seq(Issues) /\ \A n \in DOMAIN Listed : Row(Listed[n])
<1> DEFINE top == IF ListLimit < Len(queue) THEN ListLimit ELSE Len(queue)
<1>1. Len(queue) \in Nat /\ DOMAIN queue = 1..Len(queue)
  BY LenProperties
<1>2. top \in Nat /\ top <= Len(queue)
  BY <1>1
<1>3. Listed = SubSeq(queue, 1, top)
  BY DEF Listed
<1>4. SubSeq(queue, 1, top) \in Seq(Issues) /\ Len(SubSeq(queue, 1, top)) = top
      /\ \A n \in 1..top : SubSeq(queue, 1, top)[n] = queue[n]
  BY <1>1, <1>2
<1>5. DOMAIN SubSeq(queue, 1, top) = 1..top
  BY <1>4, LenProperties
<1> HIDE DEF top
<1> QED BY <1>1, <1>2, <1>3, <1>4, <1>5 DEF Row, ToSet

\* What is left when the row at m is removed.
LEMMA Removal ==
  ASSUME queue \in Seq(Issues), NEW m \in 1..Len(queue)
  PROVE  LET w == RemoveAt(queue, m)
         IN  /\ w \in Seq(Issues) /\ Len(w) = Len(queue) - 1
             /\ \A n \in 1..(m - 1) : w[n] = queue[n]
             /\ \A n \in m..(Len(queue) - 1) : w[n] = queue[n + 1]
<1> DEFINE w == RemoveAt(queue, m)
<1>1. Len(queue) \in Nat /\ DOMAIN queue = 1..Len(queue)
  BY LenProperties
<1> DEFINE a == SubSeq(queue, 1, m - 1)
           b == SubSeq(queue, m + 1, Len(queue))
<1>2. w = a \o b /\ m \in Int /\ 1 <= m /\ m <= Len(queue) /\ Len(queue) \in Int
  BY <1>1 DEF RemoveAt
<1>3. /\ a \in Seq(Issues) /\ Len(a) = m - 1
      /\ \A n \in 1..(m - 1) : a[n] = queue[n]
  BY <1>1, <1>2
<1>4. m + 1 \in Int /\ (IF m + 1 <= Len(queue) THEN Len(queue) - (m + 1) + 1 ELSE 0)
                        = Len(queue) - m
  BY <1>2
<1>5. /\ b \in Seq(Issues) /\ Len(b) = Len(queue) - m
      /\ \A n \in 1..(Len(queue) - m) : b[n] = queue[n + m]
  <2>1. ASSUME NEW k \in (m + 1)..Len(queue) PROVE queue[k] \in Issues
    <3>1. k \in 1..Len(queue)
      BY <1>2
    <3> QED BY <3>1, ElementOfSeq
  <2>2. b \in Seq(Issues) /\ Len(b) = Len(queue) - m
    BY <1>2, <1>4, <2>1, SubSeqProperties
  <2>3. \A n \in 1..(Len(queue) - (m + 1) + 1) : b[n] = queue[(m + 1) + n - 1]
    BY <1>2, <1>4, <2>1, SubSeqProperties
  <2>4. Len(queue) - (m + 1) + 1 = Len(queue) - m
        /\ \A n \in 1..(Len(queue) - m) : (m + 1) + n - 1 = n + m
    BY <1>2
  <2> QED BY <2>2, <2>3, <2>4
<1> HIDE DEF a, b
<1>6. /\ a \o b \in Seq(Issues) /\ Len(a \o b) = Len(a) + Len(b)
      /\ \A n \in 1..Len(a) : (a \o b)[n] = a[n]
  <2>1. Len(a) \in Nat /\ Len(b) \in Nat
    BY <1>3, <1>5, LenProperties
  <2>2. \A n \in 1..Len(a) : n \in 1..(Len(a) + Len(b)) /\ n <= Len(a)
    BY <2>1
  <2> QED BY <1>3, <1>5, <2>2, ConcatProperties
<1>7. ASSUME NEW n \in m..(Len(queue) - 1) PROVE (a \o b)[n] = queue[n + 1]
  <2>1. n \in Int /\ m <= n /\ n <= Len(queue) - 1 /\ m \in Int /\ m >= 1
    BY <1>1, <1>2
  <2>2. Len(a) = m - 1 /\ Len(b) = Len(queue) - m
    BY <1>3, <1>5
  <2>3. n \in 1..(Len(a) + Len(b)) /\ ~(n <= Len(a)) /\ n - Len(a) = n - m + 1
    BY <1>1, <2>1, <2>2
  <2>4. (a \o b)[n] = b[n - Len(a)]
    BY <1>3, <1>5, <2>3, ConcatProperties
  <2>5. n - m + 1 \in 1..(Len(queue) - m) /\ (n - m + 1) + m = n + 1
    BY <1>1, <2>1
  <2> QED BY <1>5, <2>3, <2>4, <2>5
<1>8. Len(w) = Len(queue) - 1
  BY <1>1, <1>2, <1>3, <1>5, <1>6
<1> QED BY <1>2, <1>3, <1>6, <1>7, <1>8

\* Deleting the row of i leaves the others.
LEMMA RemainingRows ==
  ASSUME queue \in Seq(Issues), NEW i
  PROVE  /\ Without(i) \in Seq(Issues)
         /\ \A j : Row(j) /\ j # i => j \in ToSet(Without(i))
<1>1. CASE ~Row(i)
  BY <1>1 DEF Without, Row
<1>2. CASE Row(i)
  <2> DEFINE m == CHOOSE n \in DOMAIN queue : queue[n] = i
  <2>1. Len(queue) \in Nat /\ DOMAIN queue = 1..Len(queue)
    BY LenProperties
  <2>2. m \in DOMAIN queue /\ queue[m] = i
    BY <1>2 DEF Row, ToSet
  <2>3. Without(i) = RemoveAt(queue, m)
    BY <1>2 DEF Without
  <2> HIDE DEF m
  <2> DEFINE w == RemoveAt(queue, m)
  <2>4. /\ w \in Seq(Issues) /\ Len(w) = Len(queue) - 1
        /\ \A n \in 1..(m - 1) : w[n] = queue[n]
        /\ \A n \in m..(Len(queue) - 1) : w[n] = queue[n + 1]
    BY <2>1, <2>2, Removal
  <2>5. DOMAIN w = 1..(Len(queue) - 1)
    BY <2>4, LenProperties
  <2>6. ASSUME NEW j, Row(j), j # i PROVE j \in ToSet(w)
    <3>1. PICK n \in DOMAIN queue : queue[n] = j
      BY <2>6 DEF Row, ToSet
    <3>2. n \in 1..(m - 1) \/ n - 1 \in m..(Len(queue) - 1)
      BY <2>1, <2>2, <2>6, <3>1
    <3>3. \E k \in DOMAIN w : w[k] = j
      <4>1. CASE n \in 1..(m - 1)
        BY <2>1, <2>2, <2>4, <2>5, <3>1, <4>1
      <4>2. CASE n - 1 \in m..(Len(queue) - 1)
        <5>1. w[n - 1] = queue[(n - 1) + 1] /\ n - 1 \in DOMAIN w /\ (n - 1) + 1 = n
          BY <2>1, <2>2, <2>4, <2>5, <3>1, <4>2
        <5> QED BY <3>1, <5>1
      <4> QED BY <3>2, <4>1, <4>2
    <3> QED BY <3>3 DEF ToSet
  <2> QED BY <2>3, <2>4, <2>6
<1> QED BY <1>1, <1>2

\* Deleting a row makes none.
LEMMA FewerRows ==
  ASSUME queue \in Seq(Issues), NEW i, NEW j \in ToSet(Without(i))
  PROVE  Row(j)
<1>1. CASE ~Row(i)
  BY <1>1 DEF Without, Row
<1>2. CASE Row(i)
  <2> DEFINE m == CHOOSE n \in DOMAIN queue : queue[n] = i
  <2>1. m \in DOMAIN queue /\ Len(queue) \in Nat /\ DOMAIN queue = 1..Len(queue)
    BY <1>2, LenProperties DEF Row, ToSet
  <2>2. Without(i) = RemoveAt(queue, m)
    BY <1>2 DEF Without
  <2> HIDE DEF m
  <2>3. m \in 1..Len(queue)
    BY <2>1
  <2> DEFINE w == RemoveAt(queue, m)
  <2>4. /\ w \in Seq(Issues) /\ Len(w) = Len(queue) - 1
        /\ \A n \in 1..(m - 1) : w[n] = queue[n]
        /\ \A n \in m..(Len(queue) - 1) : w[n] = queue[n + 1]
    BY <2>3, Removal
  <2>5. PICK n \in 1..(Len(queue) - 1) : w[n] = j
    BY <2>2, <2>4, LenProperties DEF ToSet
  <2>6. n \in 1..(m - 1) \/ n \in m..(Len(queue) - 1)
    BY <2>1, <2>3, <2>5
  <2>7. n \in 1..Len(queue) /\ n + 1 \in 1..Len(queue)
    BY <2>1, <2>5
  <2>8. \E k \in DOMAIN queue : queue[k] = j
    BY <2>1, <2>4, <2>5, <2>6, <2>7
  <2> QED BY <2>8 DEF Row, ToSet
<1> QED BY <1>1, <1>2

-----------------------------------------------------------------------------
\* No step takes a row away before it is served: only CallEnqueue and
\* DrainDequeue write the queue.
LEMMA SettledStays ==
  ASSUME IInv, [Next]_vars
  PROVE  /\ queue' \in Seq(Issues)
         /\ served \subseteq served'
         /\ \A j : Settled(j) => Settled(j)'
<1> USE DEF IInv, Types
<1>1. ASSUME NEW i \in Issues, CallEnqueue(i)
      PROVE  queue' \in Seq(Issues) /\ served' = served /\ \A j : Row(j) => Row(j)'
  BY <1>1, AppendedRows DEF CallEnqueue, Row, workVars
<1>2. ASSUME NEW d \in Drains, DrainDequeue(d)
      PROVE  queue' \in Seq(Issues) /\ served' = served /\ \A j : Settled(j) => Settled(j)'
  BY <1>2, RemainingRows DEF DrainDequeue, Dequeuing, Settled, Row, workVars
<1>3. ASSUME NEW i \in Issues, Started(i)
      PROVE  queue' = queue /\ served \subseteq served'
  BY <1>3 DEF Started, queueVars
<1>4. CASE queue' = queue /\ served \subseteq served'
  BY <1>4 DEF Settled, Row
<1>5. CASE UNCHANGED vars
  BY <1>5, <1>4 DEF vars, queueVars, workVars
<1>6. ASSUME NEW i \in Issues, CallStep(i)
      PROVE  (queue' = queue /\ served \subseteq served') \/ CallEnqueue(i)
  BY <1>6, <1>3 DEF CallStep, CallAcquire, CallSpawn, CallStarted, CallFlag, CallFail, Start,
     queueVars, workVars
<1>7. ASSUME NEW d \in Drains, DrainStep(d)
      PROVE  (queue' = queue /\ served \subseteq served') \/ DrainDequeue(d)
  <2>1. CASE DrainStarted(d)
    <3>1. CASE Started(Current(d))
      BY <3>1 DEF Started, queueVars
    <3> QED BY <2>1, <3>1 DEF DrainStarted, DrainFail
  <2> QED BY <1>7, <2>1 DEF DrainStep, DrainList, DrainEnd, DrainAcquire, DrainSpawn, DrainClear,
          DrainFail, Start, queueVars, workVars
<1>8. ASSUME NEW i \in Issues, CallBegin(i) \/ SlotFreed(i) \/ Reattach(i) \/ WorkerEnds(i)
                              \/ SurvivorEnds(i)
      PROVE  queue' = queue /\ served \subseteq served'
  BY <1>8 DEF CallBegin, SlotFreed, Reattach, WorkerEnds, SurvivorEnds, queueVars, workVars
<1>9. ASSUME NEW d \in Drains, NEW r \in Roles, HandleSlotFreed(r, d)
      PROVE  queue' = queue /\ served \subseteq served'
  BY <1>9 DEF HandleSlotFreed, queueVars, workVars
<1>10. ASSUME NEW k \in Reconcilers, ReconcileRead(k) \/ ReconcileWrite(k)
       PROVE  queue' = queue /\ served \subseteq served'
  BY <1>10 DEF ReconcileRead, ReconcileWrite, queueVars, workVars
<1>11. CASE Restart
  BY <1>11, <1>4 DEF Restart, queueVars
<1>12. CASE ResetCounters
  BY <1>12, <1>4 DEF ResetCounters, queueVars, workVars
<1>13. CASE \E i \in Issues : CallEnqueue(i)
  BY <1>1, <1>13 DEF Settled
<1>14. CASE \E d \in Drains : DrainDequeue(d)
  BY <1>2, <1>14
<1> QED BY <1>4, <1>5, <1>6, <1>7, <1>8, <1>9, <1>10, <1>11, <1>12, <1>13, <1>14
        DEF Next, GoroutineStep, WorkerStep

-----------------------------------------------------------------------------
\* The initial states satisfy the invariant: there are no rows and no cards.
THEOREM InitIInv == Init => IInv
<1> SUFFICES ASSUME Init PROVE IInv
  OBVIOUS
<1>1. Types
  BY DEF Init, Types, Asleep
<1>2. Listings /\ Dequeuing
  BY DEF Init, Listings, Dequeuing, At, Asleep
<1>3. Flagging /\ Cards
  BY DEF Init, Flagging, Cards
<1> QED BY <1>1, <1>2, <1>3 DEF IInv

\* A step that leaves the drains, the calls and the cards alone.
LEMMA Elsewhere ==
  ASSUME IInv, [Next]_vars, UNCHANGED <<drain, call, moved, broken>>
  PROVE  IInv'
<1>1. queue' \in Seq(Issues) /\ served \subseteq served' /\ \A j : Settled(j) => Settled(j)'
  BY SettledStays
<1>2. Types'
  BY <1>1 DEF IInv, Types
<1>3. Listings'
  BY <1>1 DEF IInv, Listings
<1>4. Dequeuing'
  BY <1>1 DEF IInv, Dequeuing, At, Current
<1>5. Flagging' /\ Cards'
  BY <1>1 DEF IInv, Flagging, Cards
<1> QED BY <1>2, <1>3, <1>4, <1>5 DEF IInv

\* A step of the call of i that leaves the drains alone.  What it owes is what
\* the two conditions on its new place say.
LEMMA Calling ==
  ASSUME IInv, [Next]_vars, NEW i \in Issues,
         NEW pc \in {"idle", "acquire", "spawn", "starting", "enqueue", "flag"},
         call' = [call EXCEPT ![i] = pc],
         UNCHANGED <<drain, broken>>,
         pc = "flag" => Settled(i)',
         \A j \in moved' : j \in moved \/ (j = i /\ pc # "idle"),
         pc = "idle" => i \notin moved' \/ Settled(i)'
  PROVE  IInv'
<1>1. queue' \in Seq(Issues) /\ served \subseteq served' /\ \A j : Settled(j) => Settled(j)'
  BY SettledStays
<1>2. Types'
  BY <1>1 DEF IInv, Types
<1>3. Listings'
  BY <1>1 DEF IInv, Listings
<1>4. Dequeuing'
  BY <1>1 DEF IInv, Dequeuing, At, Current
<1>5. \A j \in Issues : call'[j] = IF j = i THEN pc ELSE call[j]
  BY DEF IInv, Types
<1>6. Flagging'
  BY <1>1, <1>5 DEF IInv, Flagging
<1>7. Cards'
  BY <1>1, <1>5 DEF IInv, Cards
<1> QED BY <1>2, <1>3, <1>4, <1>6, <1>7 DEF IInv

\* A step of drain d that leaves the calls alone: what it has to do is settled,
\* and a card that it moves is the one it is at.
LEMMA Draining ==
  ASSUME IInv, [Next]_vars, NEW d \in Drains, NEW pc, NEW todo \in Seq(Issues),
         pc \in {"idle", "list", "next", "spawn", "starting", "dequeue", "clear"},
         drain' = [drain EXCEPT ![d] = [pc |-> pc, todo |-> todo]],
         UNCHANGED <<call, broken>>,
         \A n \in DOMAIN todo : Settled(todo[n]),
         pc \in {"dequeue", "clear"} /\ todo # <<>> => Head(todo) \in served',
         \A j \in moved' : j \in moved \/ Settled(j)
  PROVE  IInv'
<1>1. queue' \in Seq(Issues) /\ served \subseteq served' /\ \A j : Settled(j) => Settled(j)'
  BY SettledStays
<1>2. /\ drain'[d] = [pc |-> pc, todo |-> todo]
      /\ \A e \in Drains : e # d => drain'[e] = drain[e]
      /\ drain'[d].pc = pc /\ drain'[d].todo = todo
  BY DEF IInv, Types
<1>3. Types'
  BY <1>1, <1>2 DEF IInv, Types
<1>4. Listings'
  BY <1>1, <1>2 DEF IInv, Listings
<1>5. Dequeuing'
  BY <1>1, <1>2 DEF IInv, Dequeuing, At, Current
<1>6. Flagging' /\ Cards'
  BY <1>1 DEF IInv, Flagging, Cards
<1> QED BY <1>3, <1>4, <1>5, <1>6 DEF IInv

-----------------------------------------------------------------------------
\* Every step keeps the invariant.
THEOREM NextIInv == IInv /\ [Next]_vars => IInv'
<1> SUFFICES ASSUME IInv, [Next]_vars PROVE IInv'
  OBVIOUS
<1> USE DEF IInv, Types
<1>0. queue' \in Seq(Issues) /\ served \subseteq served' /\ \A j : Settled(j) => Settled(j)'
  BY SettledStays
<1>1. CASE UNCHANGED vars
  BY <1>1, Elsewhere DEF vars, queueVars, bounds
<1>2. ASSUME NEW i \in Issues, CallBegin(i) PROVE IInv'
  BY <1>2, Calling DEF CallBegin
<1>3. ASSUME NEW i \in Issues, CallAcquire(i) PROVE IInv'
  BY <1>3, Calling DEF CallAcquire, queueVars, bounds
<1>4. ASSUME NEW i \in Issues, CallFail(i) PROVE IInv'
  BY <1>4, Calling DEF CallFail, bounds
<1>5. ASSUME NEW i \in Issues, CallSpawn(i) PROVE IInv'
  <2>1. CASE CallFail(i)
    BY <2>1, <1>4
  <2>2. CASE Start(i) /\ call' = [call EXCEPT ![i] = "starting"] /\ UNCHANGED drain
    BY <2>2, Calling DEF Start, queueVars, bounds
  <2> QED BY <1>5, <2>1, <2>2 DEF CallSpawn
<1>6. ASSUME NEW i \in Issues, CallStarted(i) PROVE IInv'
  <2>1. CASE CallFail(i)
    BY <2>1, <1>4
  <2>2. CASE Started(i) /\ call' = [call EXCEPT ![i] = "idle"] /\ UNCHANGED drain
    <3>1. Settled(i)' /\ UNCHANGED <<moved, broken>>
      BY <2>2 DEF Started, Settled, queueVars, bounds
    <3> QED BY <2>2, <3>1, Calling
  <2> QED BY <1>6, <2>1, <2>2 DEF CallStarted
<1>7. ASSUME NEW i \in Issues, CallEnqueue(i) PROVE IInv'
  <2>1. Settled(i)'
    BY <1>7, AppendedRows DEF CallEnqueue, Settled, Row
  <2> QED BY <1>7, <2>1, Calling DEF CallEnqueue, bounds
<1>8. ASSUME NEW i \in Issues, CallFlag(i) PROVE IInv'
  <2>1. Settled(i)'
    BY <1>0, <1>8 DEF CallFlag, Flagging
  <2> QED BY <1>8, <2>1, Calling DEF CallFlag, bounds
<1>9. ASSUME NEW d \in Drains, DrainList(d) PROVE IInv'
  <2>1. Listed \in Seq(Issues) /\ \A n \in DOMAIN Listed : Settled(Listed[n])
    BY ListedRows, QueueAssumption DEF Settled
  <2> QED BY <1>9, <2>1, Draining DEF DrainList, queueVars, bounds
<1>10. ASSUME NEW d \in Drains, drain[d].todo # <<>>
       PROVE  /\ Current(d) \in Issues /\ Settled(Current(d))
              /\ Tail(drain[d].todo) \in Seq(Issues)
              /\ \A n \in DOMAIN Tail(drain[d].todo) : Settled(Tail(drain[d].todo)[n])
  <2> DEFINE t == drain[d].todo
  <2>1. t \in Seq(Issues) /\ t # <<>> /\ \A n \in DOMAIN t : Settled(t[n])
    BY <1>10 DEF Listings
  <2> HIDE DEF t
  <2>2. /\ Head(t) \in Issues /\ Tail(t) \in Seq(Issues) /\ Len(t) \in Nat \ {0}
        /\ Head(t) = t[1] /\ Len(Tail(t)) = Len(t) - 1 /\ DOMAIN t = 1..Len(t)
        /\ \A n \in 1..(Len(t) - 1) : Tail(t)[n] = t[n + 1]
    BY <2>1, HeadTailProperties, LenProperties, EmptySeq
  <2>3. DOMAIN Tail(t) = 1..(Len(t) - 1)
    BY <2>2, LenProperties
  <2>4. \A n \in 1..(Len(t) - 1) : n + 1 \in 1..Len(t)
    BY <2>2
  <2>5. \A n \in DOMAIN Tail(t) : Settled(Tail(t)[n])
    BY <2>1, <2>2, <2>3, <2>4
  <2>6. Settled(Head(t))
    <3>1. 1 \in DOMAIN t
      BY <2>2
    <3>2. Settled(t[1])
      BY <2>1, <3>1
    <3>3. Head(t) = t[1]
      BY <2>2
    <3> QED BY <3>2, <3>3
  <2> QED BY <2>2, <2>5, <2>6 DEF t, Current
<1>11. ASSUME NEW d \in Drains, drain[d].todo # <<>>, GoesOn(d), UNCHANGED <<call, broken>>,
              \A j \in moved' : j \in moved \/ Settled(j)
       PROVE  IInv'
  <2>1. drain' = [drain EXCEPT ![d] = [pc |-> "next", todo |-> Tail(drain[d].todo)]]
    BY <1>11 DEF GoesOn
  <2> QED BY <1>10, <1>11, <2>1, Draining
<1>12. ASSUME NEW d \in Drains, drain[d].todo # <<>>,
              NEW pc \in {"spawn", "starting", "dequeue", "clear"}, Goes(d, pc),
              UNCHANGED <<call, broken>>, pc \in {"dequeue", "clear"} => Current(d) \in served',
              \A j \in moved' : j \in moved \/ Settled(j)
       PROVE  IInv'
  <2>1. drain' = [drain EXCEPT ![d] = [pc |-> pc, todo |-> drain[d].todo]]
    BY <1>12 DEF Goes
  <2>2. drain[d].todo \in Seq(Issues) /\ \A n \in DOMAIN drain[d].todo : Settled(drain[d].todo[n])
    BY DEF Listings
  <2> QED BY <1>12, <2>1, <2>2, Draining DEF Current
<1>13. ASSUME NEW d \in Drains, DrainEnd(d) PROVE IInv'
  <2>1. <<>> \in Seq(Issues) /\ DOMAIN <<>> = {}
    BY EmptySeq
  <2> QED BY <1>13, <2>1, Draining DEF DrainEnd, Asleep, queueVars, bounds
<1>14. ASSUME NEW d \in Drains, DrainAcquire(d) PROVE IInv'
  <2>1. drain[d].todo # <<>> /\ UNCHANGED <<call, broken>>
    BY <1>14 DEF DrainAcquire, At, bounds
  <2>2. \A j \in moved' : j \in moved \/ Settled(j)
    BY <1>10, <1>14, <2>1 DEF DrainAcquire
  <2> QED BY <1>11, <1>12, <1>14, <2>1, <2>2 DEF DrainAcquire
<1>15. ASSUME NEW d \in Drains, drain[d].todo # <<>>, DrainFail(d) PROVE IInv'
  BY <1>11, <1>15 DEF DrainFail, bounds
<1>16. ASSUME NEW d \in Drains, DrainSpawn(d) PROVE IInv'
  <2>1. drain[d].todo # <<>>
    BY <1>16 DEF DrainSpawn, At
  <2>2. CASE DrainFail(d)
    BY <2>1, <2>2, <1>15
  <2>3. CASE Start(Current(d)) /\ Goes(d, "starting") /\ UNCHANGED call
    BY <2>1, <2>3, <1>12 DEF Start, queueVars, bounds
  <2> QED BY <1>16, <2>2, <2>3 DEF DrainSpawn
<1>17. ASSUME NEW d \in Drains, DrainStarted(d) PROVE IInv'
  <2>1. drain[d].todo # <<>>
    BY <1>17 DEF DrainStarted, At
  <2>2. CASE DrainFail(d)
    BY <2>1, <2>2, <1>15
  <2>3. CASE Started(Current(d)) /\ Goes(d, "dequeue") /\ UNCHANGED call
    BY <2>1, <2>3, <1>12 DEF Started, queueVars, bounds
  <2> QED BY <1>17, <2>2, <2>3 DEF DrainStarted
<1>18. ASSUME NEW d \in Drains, DrainDequeue(d) PROVE IInv'
  <2>1. Current(d) \in served'
    BY <1>0, <1>18 DEF DrainDequeue, Dequeuing
  <2> QED BY <1>12, <1>18, <2>1 DEF DrainDequeue, At, bounds
<1>19. ASSUME NEW d \in Drains, DrainClear(d) PROVE IInv'
  BY <1>11, <1>19 DEF DrainClear, At, bounds
<1>20. ASSUME NEW d \in Drains, NEW r \in Roles, HandleSlotFreed(r, d) PROVE IInv'
  <2>1. <<>> \in Seq(Issues) /\ DOMAIN <<>> = {}
    BY EmptySeq
  <2> QED BY <1>20, <2>1, Draining DEF HandleSlotFreed, Listing, queueVars, bounds
<1>21. ASSUME NEW i \in Issues,
              SlotFreed(i) \/ Reattach(i) \/ WorkerEnds(i) \/ SurvivorEnds(i)
       PROVE  IInv'
  BY <1>21, Elsewhere DEF SlotFreed, Reattach, WorkerEnds, SurvivorEnds, queueVars, bounds
<1>22. ASSUME NEW k \in Reconcilers, ReconcileRead(k) \/ ReconcileWrite(k) PROVE IInv'
  BY <1>22, Elsewhere DEF ReconcileRead, ReconcileWrite, queueVars, bounds
<1>23. CASE Restart
  <2>1. <<>> \in Seq(Issues) /\ DOMAIN <<>> = {}
    BY EmptySeq
  <2>2. \A d \in Drains : drain'[d].todo = <<>> /\ drain'[d].pc \in {"list", "idle"}
    BY <1>23 DEF Restart, Listing, Asleep
  <2>3. Types'
    BY <1>23, <1>0, <2>1 DEF Restart, Listing, Asleep
  <2>4. Listings' /\ Dequeuing'
    BY <2>1, <2>2 DEF Listings, Dequeuing, At
  <2>5. Flagging'
    BY <1>23 DEF Restart, Flagging
  <2>6. Cards'
    BY <1>23, <1>0 DEF Restart, Cards, queueVars
  <2> QED BY <2>3, <2>4, <2>5, <2>6
<1>24. ASSUME NEW i \in Issues, CallStep(i) PROVE IInv'
  BY <1>24, <1>3, <1>5, <1>6, <1>7, <1>8 DEF CallStep
<1>25. ASSUME NEW d \in Drains, DrainStep(d) PROVE IInv'
  BY <1>25, <1>9, <1>13, <1>14, <1>16, <1>17, <1>18, <1>19 DEF DrainStep
<1>26. CASE ResetCounters
  BY <1>26, Elsewhere DEF ResetCounters, queueVars, bounds
<1> HIDE DEF IInv, Types
<1> QED BY <1>1, <1>2, <1>20, <1>21, <1>22, <1>23, <1>24, <1>25, <1>26
        DEF Next, GoroutineStep, WorkerStep

\* The invariant holds in every reachable state.
THEOREM Invariance == Spec => []IInv
BY InitIInv, NextIInv, PTL DEF Spec

\* No card is forgotten: a card that was moved for work, and for which no worker
\* was ever started and no crash cut the call short, is in a call or in the
\* queue, for all parameters.
THEOREM CardsKept == Spec => []NoCardForgotten
<1>1. IInv => NoCardForgotten
  BY DEF IInv, Cards, Settled, NoCardForgotten
<1> QED BY <1>1, Invariance, PTL

-----------------------------------------------------------------------------
\* A step keeps the flags up.
LEMMA NextWaits == IInv /\ QueuedCardWaits /\ [Next]_vars => QueuedCardWaits'
<1> SUFFICES ASSUME IInv, QueuedCardWaits, [Next]_vars PROVE QueuedCardWaits'
  OBVIOUS
<1>0. /\ Types /\ served \subseteq served'
      /\ \A i : Row(i) /\ i \notin served \cup broken => call[i] = "flag" \/ i \in waiting
  BY SettledStays DEF IInv, QueuedCardWaits, Row
<1>1. SUFFICES ASSUME NEW i, Row(i)', i \notin served' \cup broken'
               PROVE  call'[i] = "flag" \/ i \in waiting'
  BY DEF QueuedCardWaits, Row
<1>2. i \in Issues
  BY <1>1, SettledStays DEF Row, ToSet
<1>3. CASE queue' = queue /\ broken' = broken /\ waiting \subseteq waiting'
           /\ (call[i] = "flag" => call'[i] = "flag" \/ i \in waiting')
  BY <1>0, <1>1, <1>3 DEF Row
<1>4. CASE queue' = queue /\ UNCHANGED <<broken, waiting, call>>
  BY <1>3, <1>4
<1>5. ASSUME NEW j \in Issues,
             CallBegin(j) \/ CallAcquire(j) \/ CallSpawn(j) \/ CallStarted(j)
      PROVE  queue' = queue /\ UNCHANGED <<broken, waiting>> /\ call[j] # "flag"
             /\ \E pc : call' = [call EXCEPT ![j] = pc]
  BY <1>5 DEF CallBegin, CallAcquire, CallSpawn, CallStarted, CallFail, Start, Started,
     queueVars, bounds
<1>6. ASSUME NEW j \in Issues,
             CallBegin(j) \/ CallAcquire(j) \/ CallSpawn(j) \/ CallStarted(j)
      PROVE  call'[i] = "flag" \/ i \in waiting'
  BY <1>0, <1>2, <1>3, <1>5, <1>6 DEF Types
<1>7. ASSUME NEW j \in Issues, CallEnqueue(j) PROVE call'[i] = "flag" \/ i \in waiting'
  <2>1. i = j \/ Row(i)
    BY <1>0, <1>1, <1>7, AppendedRows DEF CallEnqueue, Row, Types
  <2> QED BY <1>0, <1>1, <1>2, <1>7, <2>1 DEF CallEnqueue, Types, workVars, bounds
<1>8. ASSUME NEW j \in Issues, CallFlag(j) PROVE call'[i] = "flag" \/ i \in waiting'
  BY <1>0, <1>2, <1>3, <1>8 DEF CallFlag, Types, bounds
<1>9. ASSUME NEW d \in Drains, DrainDequeue(d) PROVE call'[i] = "flag" \/ i \in waiting'
  <2>1. Row(i)
    BY <1>0, <1>1, <1>9, FewerRows DEF DrainDequeue, Row, Types
  <2> QED BY <1>0, <1>1, <1>9, <2>1 DEF DrainDequeue, bounds
<1>10. ASSUME NEW d \in Drains, DrainClear(d) PROVE call'[i] = "flag" \/ i \in waiting'
  <2>1. Current(d) \in served /\ queue' = queue /\ UNCHANGED <<broken, call>>
        /\ waiting' = waiting \ {Current(d)}
    BY <1>10 DEF DrainClear, IInv, Dequeuing, bounds
  <2> QED BY <1>0, <1>1, <2>1 DEF Row
<1>11. ASSUME NEW d \in Drains,
              DrainList(d) \/ DrainEnd(d) \/ DrainAcquire(d) \/ DrainSpawn(d) \/ DrainStarted(d)
       PROVE  queue' = queue /\ UNCHANGED <<broken, waiting, call>>
  BY <1>11 DEF DrainList, DrainEnd, DrainAcquire, DrainSpawn, DrainStarted, DrainFail, Start,
     Started, queueVars, bounds
<1>12. ASSUME NEW j \in Issues,
              SlotFreed(j) \/ Reattach(j) \/ WorkerEnds(j) \/ SurvivorEnds(j)
       PROVE  queue' = queue /\ UNCHANGED <<broken, waiting, call>>
  BY <1>12 DEF SlotFreed, Reattach, WorkerEnds, SurvivorEnds, queueVars, bounds
<1>13. ASSUME NEW d \in Drains, NEW r \in Roles, HandleSlotFreed(r, d)
       PROVE  queue' = queue /\ UNCHANGED <<broken, waiting, call>>
  BY <1>13 DEF HandleSlotFreed, queueVars, bounds
<1>14. ASSUME NEW k \in Reconcilers, ReconcileRead(k) \/ ReconcileWrite(k)
       PROVE  queue' = queue /\ UNCHANGED <<broken, waiting, call>>
  BY <1>14 DEF ReconcileRead, ReconcileWrite, queueVars, bounds
<1>15. CASE UNCHANGED vars
  BY <1>15, <1>4 DEF vars, queueVars, bounds
<1>16. CASE Restart
  BY <1>0, <1>1, <1>2, <1>16 DEF Restart, Row, queueVars
<1>17. CASE ResetCounters
  BY <1>17, <1>4 DEF ResetCounters, queueVars, bounds
<1> QED BY <1>4, <1>6, <1>7, <1>8, <1>9, <1>10, <1>11, <1>12, <1>13, <1>14, <1>15, <1>16, <1>17
        DEF Next, GoroutineStep, WorkerStep, CallStep, DrainStep

\* The card of a queued request shows that it waits, for all parameters.
THEOREM FlagsKept == Spec => []QueuedCardWaits
<1>1. Init => QueuedCardWaits
  BY DEF Init, QueuedCardWaits, ToSet
<1> QED BY <1>1, NextWaits, Invariance, PTL DEF Spec

-----------------------------------------------------------------------------
(***************************************************************************)
(* The types.  What is not obvious of them: an issue never has two rows,   *)
(* since a call adds none beside one and a deletion moves none onto        *)
(* another; and a counter is never negative, since every release stops at  *)
(* zero and a count of rows is a number.                                   *)
(***************************************************************************)
Fields ==
  /\ active \in [Roles -> Nat]
  /\ waiting \subseteq Issues /\ moved \subseteq Issues /\ served \subseteq Issues
  /\ worker \in [Issues -> {"none", "starting", "running", "ended"}]
  /\ boot \subseteq old /\ old \subseteq Issues
  /\ freed \in [Roles -> Nat]
  /\ recon \in [Reconcilers -> [pc : {"idle", "due", "read"}, read : [Roles -> Nat]]]
  /\ asked \in 0..MaxAsks /\ restarts \in 0..MaxRestarts

RowsUnique == IsInjective(queue)

LEMMA RowsCount ==
  ASSUME old \subseteq Issues, NEW r
  PROVE  RunningRows(r) \in Nat
<1> DEFINE A == {i \in Issues : RoleOf[i] = r /\ worker[i] = "running"}
           B == {i \in old : RoleOf[i] = r}
<1>1. IsFiniteSet(A) /\ IsFiniteSet(B)
  <2>1. A \subseteq Issues /\ B \subseteq Issues
    OBVIOUS
  <2> QED BY <2>1, QueueAssumption, FS_Subset
<1>2. Cardinality(A) \in Nat /\ Cardinality(B) \in Nat
  BY <1>1, FS_CardinalityType
<1> QED BY <1>2 DEF RunningRows

LEMMA CurrentIsIssue ==
  ASSUME Types, NEW d \in Drains, drain[d].todo # <<>>
  PROVE  Current(d) \in Issues
<1>1. drain[d].todo \in Seq(Issues)
  BY DEF Types
<1> QED BY <1>1, HeadTailProperties DEF Current

LEMMA Reconciled ==
  ASSUME Fields, StateChanged
  PROVE  recon' \in [Reconcilers -> [pc : {"idle", "due", "read"}, read : [Roles -> Nat]]]
BY DEF Fields, StateChanged

LEMMA StartKeepsFields ==
  ASSUME Fields, NEW i \in Issues, Start(i)
  PROVE  Fields'
BY DEF Fields, Start, queueVars, bounds

LEMMA StartedKeepsFields ==
  ASSUME Fields, NEW i \in Issues, Started(i)
  PROVE  Fields'
BY Reconciled DEF Fields, Started, queueVars, bounds

LEMMA FieldsKept == IInv /\ Fields /\ [Next]_vars => Fields'
<1> SUFFICES ASSUME IInv, Fields, [Next]_vars PROVE Fields'
  OBVIOUS
<1>0. Types
  BY DEF IInv
<1>r. RoleOf \in [Issues -> Roles] /\ MaxAsks \in Nat /\ MaxRestarts \in Nat
  BY QueueAssumption
<1>1. CASE UNCHANGED vars
  BY <1>1 DEF Fields, vars, queueVars, workVars, bounds
<1>2. ASSUME NEW i \in Issues, CallBegin(i) PROVE Fields'
  BY <1>2, <1>r DEF Fields, CallBegin, workVars
<1>3. ASSUME NEW i \in Issues,
             CallAcquire(i) \/ CallEnqueue(i) \/ CallFlag(i)
      PROVE  Fields'
  <2>1. CASE CallAcquire(i)
    <3>1. active' \in [Roles -> Nat]
      BY <1>r, <2>1 DEF Fields, CallAcquire, TryAcquire, Refused
    <3> QED BY <2>1, <3>1 DEF Fields, CallAcquire, queueVars, workVars, bounds
  <2>2. CASE CallEnqueue(i)
    BY <2>2 DEF Fields, CallEnqueue, workVars, bounds
  <2>3. CASE CallFlag(i)
    BY <2>3 DEF Fields, CallFlag, workVars, bounds
  <2> QED BY <1>3, <2>1, <2>2, <2>3
<1>4. ASSUME NEW i \in Issues, CallFail(i), worker' \in [Issues -> {"none", "starting", "running", "ended"}]
      PROVE  Fields'
  BY <1>4, <1>r DEF Fields, CallFail, Release, Decrement, bounds
<1>5. ASSUME NEW i \in Issues, CallSpawn(i) \/ CallStarted(i) PROVE Fields'
  <2>1. CASE CallFail(i) /\ (worker' = worker \/ worker' = [worker EXCEPT ![i] = "none"])
    <3>1. worker' \in [Issues -> {"none", "starting", "running", "ended"}]
      BY <2>1 DEF Fields
    <3> QED BY <2>1, <3>1, <1>4
  <2> QED BY <1>5, <2>1, StartKeepsFields, StartedKeepsFields DEF CallSpawn, CallStarted
<1>6. ASSUME NEW d \in Drains,
             DrainList(d) \/ DrainEnd(d) \/ DrainDequeue(d) \/ DrainClear(d)
      PROVE  Fields'
  BY <1>6 DEF Fields, DrainList, DrainEnd, DrainDequeue, DrainClear, queueVars, workVars, bounds
<1>7. ASSUME NEW d \in Drains, DrainAcquire(d) PROVE Fields'
  <2>1. Current(d) \in Issues
    BY <1>0, <1>7, CurrentIsIssue DEF DrainAcquire, At
  <2> QED BY <1>7, <1>r, <2>1 DEF Fields, DrainAcquire, TryAcquire, Refused, workVars, bounds
<1>8. ASSUME NEW d \in Drains, DrainFail(d), Current(d) \in Issues,
             worker' \in [Issues -> {"none", "starting", "running", "ended"}]
      PROVE  Fields'
  <2>1. active' \in [Roles -> Nat]
    BY <1>8, <1>r DEF Fields, DrainFail, Release, ReleaseTwice, Decrement, Roles
  <2> QED BY <1>8, <2>1 DEF Fields, DrainFail, bounds
<1>9. ASSUME NEW d \in Drains, DrainSpawn(d) \/ DrainStarted(d) PROVE Fields'
  <2>1. Current(d) \in Issues
    BY <1>0, <1>9, CurrentIsIssue DEF DrainSpawn, DrainStarted, At
  <2>2. CASE DrainFail(d) /\ (worker' = worker \/ worker' = [worker EXCEPT ![Current(d)] = "none"])
    <3>1. worker' \in [Issues -> {"none", "starting", "running", "ended"}]
      BY <2>1, <2>2 DEF Fields
    <3> QED BY <2>1, <2>2, <3>1, <1>8
  <2> QED BY <1>9, <2>1, <2>2, StartKeepsFields, StartedKeepsFields DEF DrainSpawn, DrainStarted
<1>10. ASSUME NEW i \in Issues, WorkerEnds(i) \/ SlotFreed(i) PROVE Fields'
  <2>1. recon' \in [Reconcilers -> [pc : {"idle", "due", "read"}, read : [Roles -> Nat]]]
    BY <1>10, Reconciled DEF WorkerEnds, SlotFreed
  <2>2. freed' \in [Roles -> Nat]
    BY <1>10, <1>r DEF Fields, WorkerEnds, SlotFreed
  <2>3. worker' \in [Issues -> {"none", "starting", "running", "ended"}]
    BY <1>10 DEF Fields, WorkerEnds, SlotFreed
  <2> QED BY <1>10, <2>1, <2>2, <2>3 DEF Fields, WorkerEnds, SlotFreed, queueVars, bounds
<1>11. ASSUME NEW i \in Issues, Reattach(i) \/ SurvivorEnds(i) PROVE Fields'
  <2>1. recon' \in [Reconcilers -> [pc : {"idle", "due", "read"}, read : [Roles -> Nat]]]
    BY <1>11, Reconciled DEF Reattach, SurvivorEnds, Fields
  <2>2. active' \in [Roles -> Nat] /\ freed' \in [Roles -> Nat]
    BY <1>11, <1>r DEF Fields, Reattach, SurvivorEnds
  <2>3. boot' \subseteq old' /\ old' \subseteq Issues
    BY <1>11 DEF Fields, Reattach, SurvivorEnds
  <2> QED BY <1>11, <2>1, <2>2, <2>3 DEF Fields, Reattach, SurvivorEnds, queueVars, bounds
<1>12. ASSUME NEW d \in Drains, NEW r \in Roles, HandleSlotFreed(r, d) PROVE Fields'
  BY <1>12 DEF Fields, HandleSlotFreed, Release, Decrement, queueVars, workVars, bounds
<1>13. ASSUME NEW k \in Reconcilers, ReconcileRead(k) PROVE Fields'
  <2>1. [r \in Roles |-> RunningRows(r)] \in [Roles -> Nat]
    BY RowsCount DEF Fields
  <2> QED BY <1>13, <2>1 DEF Fields, ReconcileRead, queueVars, workVars, bounds
<1>14. ASSUME NEW k \in Reconcilers, ReconcileWrite(k) PROVE Fields'
  BY <1>14 DEF Fields, ReconcileWrite, Zero, queueVars, workVars, bounds
<1>15. CASE Restart
  <2>1. recon' \in [Reconcilers -> [pc : {"idle", "due", "read"}, read : [Roles -> Nat]]]
    BY <1>15 DEF Restart, Zero
  <2> QED BY <1>15, <1>r, <2>1 DEF Fields, Restart, Zero, queueVars
<1>16. CASE ResetCounters
  BY <1>16 DEF Fields, ResetCounters, Zero, queueVars, workVars, bounds
<1> QED BY <1>1, <1>2, <1>3, <1>5, <1>6, <1>7, <1>9, <1>10, <1>11, <1>12, <1>13, <1>14, <1>15,
           <1>16 DEF Next, GoroutineStep, WorkerStep, CallStep, DrainStep

\* A row appended for an issue without one, and a row removed.
LEMMA AppendedOnce ==
  ASSUME NEW q \in Seq(Issues), IsInjective(q), NEW x \in Issues, x \notin ToSet(q)
  PROVE  IsInjective(Append(q, x))
<1>1. Len(q) \in Nat /\ DOMAIN q = 1..Len(q)
  BY LenProperties
<1>2. /\ Append(q, x) \in Seq(Issues) /\ Len(Append(q, x)) = Len(q) + 1
      /\ \A n \in 1..Len(q) : Append(q, x)[n] = q[n]
      /\ Append(q, x)[Len(q) + 1] = x
  BY AppendProperties
<1>3. DOMAIN Append(q, x) = 1..(Len(q) + 1)
  BY <1>2, LenProperties
<1>4. \A n \in 1..Len(q) : q[n] # x
  BY <1>1 DEF ToSet
<1>5. \A n \in 1..(Len(q) + 1) : n \in 1..Len(q) \/ n = Len(q) + 1
  BY <1>1
<1> QED BY <1>1, <1>2, <1>3, <1>4, <1>5 DEF IsInjective

LEMMA RemovedOnce ==
  ASSUME queue \in Seq(Issues), IsInjective(queue), NEW i
  PROVE  IsInjective(Without(i))
<1>1. CASE ~Row(i)
  BY <1>1 DEF Without
<1>2. CASE Row(i)
  <2> DEFINE m == CHOOSE n \in DOMAIN queue : queue[n] = i
  <2>1. m \in DOMAIN queue /\ Len(queue) \in Nat /\ DOMAIN queue = 1..Len(queue)
    BY <1>2, LenProperties DEF Row, ToSet
  <2>2. Without(i) = RemoveAt(queue, m)
    BY <1>2 DEF Without
  <2> HIDE DEF m
  <2>3. m \in 1..Len(queue)
    BY <2>1
  <2> DEFINE w == RemoveAt(queue, m)
             From(n) == IF n < m THEN n ELSE n + 1
  <2>4. /\ w \in Seq(Issues) /\ Len(w) = Len(queue) - 1
        /\ \A n \in 1..(m - 1) : w[n] = queue[n]
        /\ \A n \in m..(Len(queue) - 1) : w[n] = queue[n + 1]
    BY <2>3, Removal
  <2>5. DOMAIN w = 1..(Len(queue) - 1)
    BY <2>4, LenProperties
  <2> HIDE DEF w
  <2>6. ASSUME NEW n \in DOMAIN w PROVE From(n) \in DOMAIN queue /\ w[n] = queue[From(n)]
    <3>1. n \in Int /\ 1 <= n /\ n <= Len(queue) - 1 /\ m \in Int /\ 1 <= m
      BY <2>1, <2>3, <2>5
    <3>2. CASE n < m
      <4>1. n \in 1..(m - 1) /\ n \in 1..Len(queue)
        BY <2>1, <3>1, <3>2
      <4> QED BY <2>1, <2>4, <3>2, <4>1
    <3>3. CASE ~(n < m)
      <4>1. n \in m..(Len(queue) - 1) /\ n + 1 \in 1..Len(queue)
        BY <2>1, <3>1, <3>3
      <4> QED BY <2>1, <2>4, <3>3, <4>1
    <3> QED BY <3>2, <3>3
  <2>7. ASSUME NEW n \in DOMAIN w, NEW k \in DOMAIN w, w[n] = w[k] PROVE n = k
    <3>1. From(n) = From(k)
      BY <2>6, <2>7 DEF IsInjective
    <3>2. n \in Int /\ k \in Int /\ m \in Int
      BY <2>1, <2>3, <2>5
    <3> QED BY <3>1, <3>2
  <2> QED BY <2>2, <2>7 DEF IsInjective, w
<1> QED BY <1>1, <1>2

LEMMA RowsStayUnique == IInv /\ RowsUnique /\ [Next]_vars => RowsUnique'
<1> SUFFICES ASSUME IInv, IsInjective(queue), [Next]_vars PROVE IsInjective(queue')
  BY DEF RowsUnique
<1>0. queue \in Seq(Issues)
  BY DEF IInv, Types
<1>1. CASE queue' = queue
  BY <1>1
<1>2. ASSUME NEW i \in Issues, CallEnqueue(i) PROVE IsInjective(queue')
  BY <1>0, <1>2, AppendedOnce DEF CallEnqueue, Row
<1>3. ASSUME NEW d \in Drains, DrainDequeue(d) PROVE IsInjective(queue')
  BY <1>0, <1>3, RemovedOnce DEF DrainDequeue
<1>4. ASSUME NEW i \in Issues, CallStep(i) PROVE queue' = queue \/ CallEnqueue(i)
  BY <1>4 DEF CallStep, CallAcquire, CallSpawn, CallStarted, CallFlag, CallFail, Start,
     Started, queueVars
<1>5. ASSUME NEW d \in Drains, DrainStep(d) PROVE queue' = queue \/ DrainDequeue(d)
  BY <1>5 DEF DrainStep, DrainList, DrainEnd, DrainAcquire, DrainSpawn, DrainStarted, DrainClear,
          DrainFail, Start, Started, queueVars
<1>6. ASSUME NEW i \in Issues, CallBegin(i) \/ SlotFreed(i) \/ Reattach(i) \/ WorkerEnds(i)
                               \/ SurvivorEnds(i)
      PROVE  queue' = queue
  BY <1>6 DEF CallBegin, SlotFreed, Reattach, WorkerEnds, SurvivorEnds, queueVars
<1>7. ASSUME NEW d \in Drains, NEW r \in Roles, HandleSlotFreed(r, d) PROVE queue' = queue
  BY <1>7 DEF HandleSlotFreed, queueVars
<1>8. ASSUME NEW k \in Reconcilers, ReconcileRead(k) \/ ReconcileWrite(k) PROVE queue' = queue
  BY <1>8 DEF ReconcileRead, ReconcileWrite, queueVars
<1>9. CASE Restart \/ ResetCounters \/ UNCHANGED vars
  BY <1>9 DEF Restart, ResetCounters, vars, queueVars
<1> QED BY <1>1, <1>2, <1>3, <1>4, <1>5, <1>6, <1>7, <1>8, <1>9 DEF Next, GoroutineStep, WorkerStep

\* The types hold for all parameters: in particular an issue has one row at the most,
\* and no counter is negative although slots are released twice.
THEOREM QueueTypes == Spec => []TypeOK
<1>1. Init => Fields /\ RowsUnique
  BY QueueAssumption DEF Init, Fields, RowsUnique, IsInjective, Zero
<1>2. IInv /\ Fields /\ RowsUnique => TypeOK
  BY DEF IInv, Types, Fields, RowsUnique, TypeOK
<1> QED BY <1>1, <1>2, FieldsKept, RowsStayUnique, Invariance, PTL DEF Spec
=============================================================================
