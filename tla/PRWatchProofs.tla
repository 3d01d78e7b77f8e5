---------------------------- MODULE PRWatchProofs ----------------------------
(****************************************************************************)
(* No head of a PR gets more workers than the cap, however many polls run,  *)
(* as long as neither polls nor events overtake each other.                 *)
(*                                                                          *)
(* The count of a head may be written late, and to whatever failure the     *)
(* card shows; but while it is not written no other worker is sent for      *)
(* (Counts), and a failure that the card shows without "max" is of a head   *)
(* that has workers left (Room).  A failure that is on its way to the card  *)
(* is of a head that has had no worker since its last recovery (Fresh):     *)
(* the poller reports a head again only after it has reported its recovery, *)
(* and the recovery is handled first.                                       *)
(****************************************************************************)
EXTENDS PRWatch, SequenceTheorems, TLAPS

-----------------------------------------------------------------------------
\* Types

CheckRecords    == [head : Heads \cup {Never}, failed : BOOLEAN]
ConflictRecords == [state : {"none", "clean", "dirty"}, files : 0..2]
PollRecords     == [pc : {"idle", "checks", "publish", "conflicts", "merge"}, head : Heads \cup {Never},
                    merge : {"clean", "unknown", "dirty"}, failed : BOOLEAN,
                    prev : CheckRecords, was : ConflictRecords]
FailRecords     == [head : Heads \cup {Never}, attempts : Nat, max : BOOLEAN]
Events          == [type : {"failed", "recovered", "conflicts", "resolved", "ended"}, to : {"assembler", "app"},
                    head : Heads, files : 0..2]

WatchTypes ==
  /\ head \in Heads /\ merge \in {"clean", "unknown", "dirty"} /\ files \in {1, 2}
  /\ checkCache \in CheckRecords /\ conflCache \in ConflictRecords
  /\ poll \in [Polls -> PollRecords] /\ (\A k \in Polls : poll[k].pc # "idle" => poll[k].head \in Heads)
  /\ bus \in Seq(Events) /\ checkFails \in FailRecords /\ (checkFails # None => checkFails.head \in Heads)
  /\ healAttempts \in [Heads -> Nat] /\ healed \in [Heads -> Nat] /\ counting \in Heads \cup {Never}
  /\ crossed \in BOOLEAN

\* While a worker has not been counted none is sent for, and it is the only one.
Counts ==
  /\ counting # Never => active
  /\ \A h \in Heads : healed[h] <= healAttempts[h] + (IF counting = h THEN 1 ELSE 0)

-----------------------------------------------------------------------------
\* Nothing has been overtaken, and the card is still watched.
Calm == ~crossed /\ column # "done"

IsCheck(e)   == e.type \in {"failed", "recovered"}
Fail(e, h)   == e.type = "failed" /\ e.to = "assembler" /\ e.head = h
Back(e, h)   == e.type = "recovered" /\ e.to = "app" /\ e.head = h
First(n)     == \A m \in DOMAIN bus : m < n => ~IsCheck(bus[m])

Kinds == \A n \in DOMAIN bus : bus[n].type # "ended" /\ (bus[n].to = "app" => IsCheck(bus[n]))

\* What is said of the checks is said to the assembler and to the application, in this order.
Twins ==
  \A n \in DOMAIN bus : (IsCheck(bus[n]) /\ bus[n].to = "app") =>
    \/ First(n)
    \/ n - 1 \in DOMAIN bus /\ bus[n - 1].type = bus[n].type /\ bus[n - 1].to = "assembler"

\* A recovery that only the application has still to handle is off the card.
Recovering ==
  \A n \in DOMAIN bus : (bus[n].type = "recovered" /\ bus[n].to = "app" /\ First(n)) => checkFails = None

\* When the events before n are handled, h has had no worker since its recovery, and is not shown.
Fresh(h, n) ==
  \/ healed[h] = 0 /\ checkFails.head # h /\ \A m \in DOMAIN bus : m < n => ~Fail(bus[m], h)
  \/ \E m \in DOMAIN bus : m < n /\ Back(bus[m], h) /\ \A j \in DOMAIN bus : (m < j /\ j < n) => ~Fail(bus[j], h)

FreshFails == \A h \in Heads : \A n \in DOMAIN bus : Fail(bus[n], h) => Fresh(h, n)
FreshCache == \A h \in Heads : (checkCache.head = h /\ ~checkCache.failed) => Fresh(h, Len(bus) + 1)

\* A head that the poller has not reported yet.
Unseen ==
  \A h \in Heads : h > checkCache.head =>
    healed[h] = 0 /\ checkFails.head # h /\ \A n \in DOMAIN bus : IsCheck(bus[n]) => bus[n].head # h

\* A failure that the card shows without "max", or while a worker of another head has still to be
\* counted, is of a head that has workers left.
Room ==
  \A h \in Heads : (checkFails.head = h /\ counting # h /\ (~checkFails.max \/ counting # Never)) => healed[h] < Cap

Orderly == Kinds /\ Twins /\ Recovering /\ FreshFails /\ FreshCache /\ Unseen /\ Room

WatchInv == WatchTypes /\ Counts /\ HealCapped /\ (Calm => Orderly)

-----------------------------------------------------------------------------
\* The bus without event n: what comes after it moves up by one.

Old(n, m) == IF m < n THEN m ELSE m + 1

LEMMA Removal ==
  ASSUME NEW S, NEW s \in Seq(S), NEW n \in 1..Len(s)
  PROVE  LET w == RemoveAt(s, n)
         IN  /\ w \in Seq(S) /\ Len(w) = Len(s) - 1
             /\ \A m \in 1..Len(w) : Old(n, m) \in 1..Len(s) /\ w[m] = s[Old(n, m)]
<1> DEFINE w == RemoveAt(s, n)
           a == SubSeq(s, 1, n - 1)
           b == SubSeq(s, n + 1, Len(s))
<1>1. Len(s) \in Nat /\ DOMAIN s = 1..Len(s)
  BY LenProperties
<1>2. w = a \o b /\ n \in Int /\ 1 <= n /\ n <= Len(s) /\ Len(s) \in Int
  BY <1>1 DEF RemoveAt
<1>3. /\ a \in Seq(S) /\ Len(a) = n - 1
      /\ \A m \in 1..(n - 1) : a[m] = s[m]
  BY <1>1, <1>2
<1>4. n + 1 \in Int /\ (IF n + 1 <= Len(s) THEN Len(s) - (n + 1) + 1 ELSE 0) = Len(s) - n
  BY <1>2
<1>5. /\ b \in Seq(S) /\ Len(b) = Len(s) - n
      /\ \A m \in 1..(Len(s) - n) : b[m] = s[m + n]
  <2>1. ASSUME NEW k \in (n + 1)..Len(s) PROVE s[k] \in S
    <3>1. k \in 1..Len(s)
      BY <1>2
    <3> QED BY <3>1, ElementOfSeq
  <2>2. b \in Seq(S) /\ Len(b) = Len(s) - n
    BY <1>2, <1>4, <2>1, SubSeqProperties
  <2>3. \A m \in 1..(Len(s) - (n + 1) + 1) : b[m] = s[(n + 1) + m - 1]
    BY <1>2, <1>4, <2>1, SubSeqProperties
  <2>4. Len(s) - (n + 1) + 1 = Len(s) - n /\ \A m \in 1..(Len(s) - n) : (n + 1) + m - 1 = m + n
    BY <1>2
  <2> QED BY <2>2, <2>3, <2>4
<1> HIDE DEF a, b
<1>6. /\ a \o b \in Seq(S) /\ Len(a \o b) = Len(a) + Len(b)
      /\ \A m \in 1..Len(a) : (a \o b)[m] = a[m]
  <2>1. Len(a) \in Nat /\ Len(b) \in Nat
    BY <1>3, <1>5, LenProperties
  <2>2. \A m \in 1..Len(a) : m \in 1..(Len(a) + Len(b)) /\ m <= Len(a)
    BY <2>1
  <2> QED BY <1>3, <1>5, <2>2, ConcatProperties
<1>7. ASSUME NEW m \in n..(Len(s) - 1) PROVE (a \o b)[m] = s[m + 1]
  <2>1. m \in Int /\ n <= m /\ m <= Len(s) - 1 /\ n \in Int /\ n >= 1
    BY <1>1, <1>2
  <2>2. Len(a) = n - 1 /\ Len(b) = Len(s) - n
    BY <1>3, <1>5
  <2>3. m \in 1..(Len(a) + Len(b)) /\ ~(m <= Len(a)) /\ m - Len(a) = m - n + 1
    BY <1>1, <2>1, <2>2
  <2>4. (a \o b)[m] = b[m - Len(a)]
    BY <1>3, <1>5, <2>3, ConcatProperties
  <2>5. m - n + 1 \in 1..(Len(s) - n) /\ (m - n + 1) + n = m + 1
    BY <1>1, <2>1
  <2> QED BY <1>5, <2>3, <2>4, <2>5
<1>8. Len(w) = Len(s) - 1
  BY <1>1, <1>2, <1>3, <1>5, <1>6
<1>9. ASSUME NEW m \in 1..Len(w) PROVE Old(n, m) \in 1..Len(s) /\ w[m] = s[Old(n, m)]
  <2>1. m \in Nat /\ 1 <= m /\ m <= Len(s) - 1
    BY <1>1, <1>8
  <2>2. CASE m < n
    BY <1>2, <1>3, <1>6, <2>1, <2>2 DEF Old
  <2>3. CASE ~(m < n)
    BY <1>2, <1>7, <2>1, <2>3 DEF Old
  <2> QED BY <2>2, <2>3
<1> QED BY <1>2, <1>6, <1>8, <1>9

LEMMA Appending ==
  ASSUME NEW S, NEW s \in Seq(S), NEW x \in S
  PROVE  LET t == Append(s, x)
         IN  /\ t \in Seq(S) /\ Len(t) = Len(s) + 1 /\ DOMAIN t = 1..(Len(s) + 1)
             /\ t[Len(s) + 1] = x /\ \A m \in 1..Len(s) : t[m] = s[m]
OBVIOUS

\* What a probe of the checks adds.
LEMMA AppendingTwo ==
  ASSUME NEW S, NEW s \in Seq(S), NEW x \in S, NEW y \in S
  PROVE  LET t == s \o <<x, y>>
         IN  /\ t \in Seq(S) /\ Len(t) = Len(s) + 2 /\ DOMAIN t = 1..(Len(s) + 2)
             /\ t[Len(s) + 1] = x /\ t[Len(s) + 2] = y /\ \A m \in 1..Len(s) : t[m] = s[m]
<1>1. s \o <<x, y>> = Append(Append(s, x), y)
  OBVIOUS
<1>2. Append(s, x) \in Seq(S) /\ Len(Append(s, x)) = Len(s) + 1
  OBVIOUS
<1> QED BY <1>1, <1>2, Appending

-----------------------------------------------------------------------------
\* An event is handled.

LEMMA Handling ==
  ASSUME bus \in Seq(Events), NEW n \in DOMAIN bus, bus' = RemoveAt(bus, n)
  PROVE  /\ bus' \in Seq(Events) /\ Len(bus) \in Nat /\ n \in 1..Len(bus) /\ Len(bus') = Len(bus) - 1
         /\ DOMAIN bus = 1..Len(bus) /\ DOMAIN bus' = 1..(Len(bus) - 1)
         /\ \A m \in DOMAIN bus' : Old(n, m) \in DOMAIN bus /\ bus'[m] = bus[Old(n, m)]
         /\ \A k \in DOMAIN bus \ {n} : \E m \in DOMAIN bus' : Old(n, m) = k /\ bus'[m] = bus[k]
<1>1. Len(bus) \in Nat /\ DOMAIN bus = 1..Len(bus) /\ n \in 1..Len(bus)
  BY LenProperties
<1>2. /\ bus' \in Seq(Events) /\ Len(bus') = Len(bus) - 1
      /\ \A m \in 1..Len(bus') : Old(n, m) \in 1..Len(bus) /\ bus'[m] = bus[Old(n, m)]
  BY <1>1, Removal
<1>3. DOMAIN bus' = 1..(Len(bus) - 1)
  BY <1>2, LenProperties
<1>4. ASSUME NEW k \in DOMAIN bus \ {n} PROVE \E m \in DOMAIN bus' : Old(n, m) = k /\ bus'[m] = bus[k]
  <2>1. CASE k < n
    <3>1. k \in DOMAIN bus' /\ Old(n, k) = k
      BY <1>1, <1>3, <2>1 DEF Old
    <3> QED BY <1>2, <1>3, <3>1
  <2>2. CASE k > n
    <3>1. k - 1 \in DOMAIN bus' /\ Old(n, k - 1) = k
      BY <1>1, <1>3, <2>2 DEF Old
    <3> QED BY <1>2, <1>3, <3>1
  <2> QED BY <1>1, <2>1, <2>2
<1> QED BY <1>1, <1>2, <1>3, <1>4

\* The order of what is left.
LEMMA OrderKept ==
  ASSUME bus \in Seq(Events), Kinds, Twins, NEW n \in DOMAIN bus, bus' = RemoveAt(bus, n),
         IsCheck(bus[n]) => First(n)
  PROVE  /\ Kinds' /\ Twins'
         /\ \A i \in DOMAIN bus' : (bus'[i].type = "recovered" /\ bus'[i].to = "app" /\ First(i)') =>
              \/ Old(n, i) \in DOMAIN bus /\ First(Old(n, i)) /\ bus[Old(n, i)] = bus'[i]
              \/ bus[n].type = "recovered" /\ bus[n].to = "assembler"
<1>1. /\ Len(bus) \in Nat /\ n \in 1..Len(bus)
      /\ DOMAIN bus = 1..Len(bus) /\ DOMAIN bus' = 1..(Len(bus) - 1)
      /\ \A m \in DOMAIN bus' : Old(n, m) \in DOMAIN bus /\ bus'[m] = bus[Old(n, m)]
  BY Handling
<1>2. Kinds'
  BY <1>1 DEF Kinds, IsCheck
<1>3. ASSUME NEW i \in DOMAIN bus', IsCheck(bus'[i]), bus'[i].to = "app"
      PROVE  \/ First(i)'
             \/ i - 1 \in DOMAIN bus' /\ bus'[i - 1].type = bus'[i].type /\ bus'[i - 1].to = "assembler"
  <2> DEFINE k == Old(n, i)
  <2>1. k \in DOMAIN bus /\ bus'[i] = bus[k] /\ i \in 1..(Len(bus) - 1)
    BY <1>1
  <2>2. CASE First(k)
    <3>1. ASSUME NEW m \in DOMAIN bus', m < i PROVE ~IsCheck(bus'[m])
      <4>1. Old(n, m) \in DOMAIN bus /\ Old(n, m) < k
        BY <1>1, <3>1 DEF Old
      <4> QED BY <1>1, <2>2, <4>1 DEF First
    <3> QED BY <3>1 DEF First
  <2>3. CASE k - 1 \in DOMAIN bus /\ bus[k - 1].type = bus[k].type /\ bus[k - 1].to = "assembler"
    <3>1. CASE k - 1 = n
      <4>1. i = n /\ First(n)
        BY <1>1, <1>3, <2>1, <2>3, <3>1 DEF Old, IsCheck
      <4>2. ASSUME NEW m \in DOMAIN bus', m < i PROVE ~IsCheck(bus'[m])
        <5>1. Old(n, m) = m /\ m \in DOMAIN bus /\ m < n
          BY <1>1, <4>1, <4>2 DEF Old
        <5> QED BY <1>1, <4>1, <5>1 DEF First
      <4> QED BY <4>2 DEF First
    <3>2. CASE k - 1 # n
      <4>1. i - 1 \in DOMAIN bus' /\ Old(n, i - 1) = k - 1
        BY <1>1, <2>1, <2>3, <3>2 DEF Old
      <4> QED BY <1>1, <2>1, <2>3, <4>1
    <3> QED BY <3>1, <3>2
  <2> QED BY <1>3, <2>1, <2>2, <2>3 DEF Twins
<1>4. Twins'
  BY <1>3 DEF Twins, IsCheck
<1>5. ASSUME NEW i \in DOMAIN bus', bus'[i].type = "recovered", bus'[i].to = "app", First(i)'
      PROVE  \/ Old(n, i) \in DOMAIN bus /\ First(Old(n, i)) /\ bus[Old(n, i)] = bus'[i]
             \/ bus[n].type = "recovered" /\ bus[n].to = "assembler"
  <2> DEFINE k == Old(n, i)
  <2>1. k \in DOMAIN bus /\ bus'[i] = bus[k] /\ i \in 1..(Len(bus) - 1)
    BY <1>1
  <2>2. CASE k - 1 \in DOMAIN bus /\ bus[k - 1].type = bus[k].type /\ bus[k - 1].to = "assembler" /\ k - 1 # n
    <3>1. i - 1 \in DOMAIN bus' /\ Old(n, i - 1) = k - 1 /\ i - 1 < i
      BY <1>1, <2>1, <2>2 DEF Old
    <3>2. IsCheck(bus'[i - 1])
      BY <1>1, <1>5, <2>1, <2>2, <3>1 DEF IsCheck
    <3> QED BY <1>5, <3>1, <3>2 DEF First
  <2>3. \/ First(k)
        \/ k - 1 \in DOMAIN bus /\ bus[k - 1].type = bus[k].type /\ bus[k - 1].to = "assembler"
    BY <1>5, <2>1 DEF Twins, IsCheck
  <2> QED BY <1>5, <2>1, <2>2, <2>3
<1> QED BY <1>2, <1>4, <1>5

\* A head stays fresh.
LEMMA FreshKept ==
  ASSUME bus \in Seq(Events), NEW n \in DOMAIN bus, bus' = RemoveAt(bus, n),
         IsCheck(bus[n]) => First(n),
         NEW g \in Heads,
         healed'[g] \in {healed[g], 0},
         checkFails.head # g => checkFails'.head # g \/ Fail(bus[n], g),
         Back(bus[n], g) => healed'[g] = 0 /\ checkFails'.head # g,
         NEW i \in 1..(Len(bus') + 1), i >= n \/ ~Fail(bus[n], g),
         Fresh(g, Old(n, i))
  PROVE  Fresh(g, i)'
<1>1. /\ Len(bus) \in Nat /\ n \in 1..Len(bus) /\ Len(bus') = Len(bus) - 1
      /\ DOMAIN bus = 1..Len(bus) /\ DOMAIN bus' = 1..(Len(bus) - 1)
      /\ \A m \in DOMAIN bus' : Old(n, m) \in DOMAIN bus /\ bus'[m] = bus[Old(n, m)]
  BY Handling
<1> DEFINE k == Old(n, i)
<1>2. i \in 1..Len(bus)
  BY <1>1
<1>3. CASE healed[g] = 0 /\ checkFails.head # g /\ \A m \in DOMAIN bus : m < k => ~Fail(bus[m], g)
  <2>1. ~Fail(bus[n], g)
    BY <1>1, <1>2, <1>3 DEF Old
  <2>2. ASSUME NEW m \in DOMAIN bus', m < i PROVE ~Fail(bus'[m], g)
    <3>1. Old(n, m) \in DOMAIN bus /\ Old(n, m) < k
      BY <1>1, <1>2, <2>2 DEF Old
    <3> QED BY <1>1, <1>3, <3>1
  <2> QED BY <1>3, <2>1, <2>2 DEF Fresh
<1>4. ASSUME NEW m \in DOMAIN bus, m < k, Back(bus[m], g),
             \A j \in DOMAIN bus : (m < j /\ j < k) => ~Fail(bus[j], g)
      PROVE  Fresh(g, i)'
  <2>1. CASE m = n
    <3>1. healed'[g] = 0 /\ checkFails'.head # g /\ First(n)
      BY <1>4, <2>1 DEF Back, IsCheck
    <3>2. ASSUME NEW j \in DOMAIN bus', j < i PROVE ~Fail(bus'[j], g)
      <4>1. CASE j < n
        <5>1. ~IsCheck(bus[j]) /\ bus'[j] = bus[j]
          BY <1>1, <3>1, <4>1 DEF First, Old
        <5> QED BY <5>1 DEF IsCheck, Fail
      <4>2. CASE j >= n
        <5>1. j + 1 \in DOMAIN bus /\ n < j + 1 /\ j + 1 < k /\ bus'[j] = bus[j + 1]
          BY <1>1, <1>2, <3>2, <4>2 DEF Old
        <5> QED BY <1>4, <2>1, <5>1
      <4> QED BY <1>1, <4>1, <4>2
    <3> QED BY <3>1, <3>2 DEF Fresh
  <2>2. CASE m # n
    <3>1. PICK p \in DOMAIN bus' : Old(n, p) = m /\ bus'[p] = bus[m]
      BY <2>2, Handling
    <3>2. p < i
      BY <1>1, <1>2, <1>4, <3>1 DEF Old
    <3>3. ASSUME NEW j \in DOMAIN bus', p < j, j < i PROVE ~Fail(bus'[j], g)
      <4>1. Old(n, j) \in DOMAIN bus /\ m < Old(n, j) /\ Old(n, j) < k
        BY <1>1, <1>2, <3>1, <3>3 DEF Old
      <4> QED BY <1>1, <1>4, <4>1
    <3>4. Back(bus'[p], g)
      BY <1>4, <3>1
    <3> QED BY <3>2, <3>3, <3>4 DEF Fresh
  <2> QED BY <2>1, <2>2
<1> QED BY <1>3, <1>4 DEF Fresh

\* What a handler does with an event, types and counts.
LEMMA DeliverCounts ==
  ASSUME WatchTypes, Counts, HealCapped, NEW n \in DOMAIN bus, Deliver(n)
  PROVE  /\ WatchTypes' /\ Counts' /\ HealCapped'
         /\ \A g \in Heads : healed'[g] \in {healed[g], 0}
<1> USE PRWatchAssumption
<1> DEFINE e == bus[n]
<1>1. e \in Events /\ e.head \in Heads
  <2>1. e \in Events
    BY ElementOfSeq, LenProperties DEF WatchTypes
  <2> QED BY <2>1 DEF Events
<1>2. bus' \in Seq(Events)
  BY Handling DEF WatchTypes, Deliver
<1>3. /\ UNCHANGED <<hub, column, checkCache, conflCache, poll, counting, active>>
      /\ crossed' \in BOOLEAN /\ (crossed => crossed')
  BY DEF Deliver, watched, WatchTypes
<1>4. /\ healAttempts' \in [Heads -> Nat] /\ healed' \in [Heads -> Nat]
      /\ checkFails' \in FailRecords /\ (checkFails' # None => checkFails'.head \in Heads)
      /\ \/ UNCHANGED <<healAttempts, healed>>
         \/ /\ healAttempts' = [healAttempts EXCEPT ![e.head] = 0]
            /\ healed' = [healed EXCEPT ![e.head] = 0]
  <2>1. CASE e.to = "assembler" /\ Assembled(e)
    <3>1. checkFails' \in {Fails(e), None, checkFails} /\ UNCHANGED <<healAttempts, healed>>
      BY <2>1 DEF Assembled
    <3>2. Fails(e) \in FailRecords /\ (Fails(e) # None => Fails(e).head \in Heads)
      BY <1>1 DEF Fails, None, FailRecords, WatchTypes, Never
    <3>3. None \in FailRecords
      BY DEF None, FailRecords, Never
    <3> QED BY <3>1, <3>2, <3>3 DEF WatchTypes
  <2>2. CASE e.to = "app" /\ Failed(e)
    BY <1>1, <2>2 DEF Failed, WatchTypes, FailRecords, None
  <2>3. CASE e.to = "app" /\ Recovered(e)
    BY <1>1, <2>3 DEF Recovered, WatchTypes
  <2> QED BY <2>1, <2>2, <2>3 DEF Deliver
<1>5. \A g \in Heads : healed'[g] \in {healed[g], 0}
  BY <1>4 DEF WatchTypes
<1>6. WatchTypes'
  BY <1>2, <1>3, <1>4 DEF WatchTypes, hub
<1>7. Counts'
  <2>1. CASE UNCHANGED <<healAttempts, healed>>
    BY <1>3, <2>1 DEF Counts
  <2>2. CASE /\ healAttempts' = [healAttempts EXCEPT ![e.head] = 0]
             /\ healed' = [healed EXCEPT ![e.head] = 0]
    BY <1>1, <1>3, <2>2 DEF Counts, WatchTypes
  <2> QED BY <1>4, <2>1, <2>2
<1>8. ASSUME NEW h \in Heads, ~crossed' PROVE healed'[h] <= Cap
  <2>1. healed[h] <= Cap /\ 0 <= Cap
    BY <1>3, <1>8 DEF HealCapped
  <2> QED BY <1>5, <2>1
<1> QED BY <1>5, <1>6, <1>7, <1>8 DEF HealCapped

\* The first event of the checks is handled, or one of the conflicts.
LEMMA DeliverFirst ==
  ASSUME WatchTypes, Kinds, NEW n \in DOMAIN bus, Deliver(n), Calm'
  PROVE  /\ IsCheck(bus[n]) => First(n)
         /\ ~IsCheck(bus[n]) => bus[n].to = "assembler" /\ bus[n].type \in {"conflicts", "resolved"}
<1> DEFINE e == bus[n]
<1>1. e \in Events /\ e.type # "ended" /\ (e.to = "app" => IsCheck(e))
  BY ElementOfSeq, LenProperties DEF WatchTypes, Kinds
<1>2. \A m \in 1..(n - 1) : Topics(bus[m]) \cap Topics(e) = {}
  BY DEF Deliver, Calm
<1>3. ASSUME IsCheck(e), NEW m \in DOMAIN bus, m < n PROVE ~IsCheck(bus[m])
  <2>1. m \in 1..(n - 1)
    BY <1>3, LenProperties DEF WatchTypes
  <2>2. "checks" \in Topics(e)
    BY <1>3 DEF Topics, IsCheck
  <2>3. IsCheck(bus[m]) => "checks" \in Topics(bus[m])
    BY DEF Topics, IsCheck
  <2> QED BY <1>2, <2>1, <2>2, <2>3
<1> QED BY <1>1, <1>3 DEF First, IsCheck, Events

\* What a handler leaves on the card.
LEMMA DeliverShows ==
  ASSUME WatchTypes, Kinds, Recovering, NEW n \in DOMAIN bus, Deliver(n), Calm'
  PROVE  LET e == bus[n]
         IN  \/ e.type = "failed" /\ e.to = "assembler" /\ checkFails'.head = e.head
             \/ e.type = "recovered" /\ e.to = "assembler" /\ checkFails' = None
             \/ ~IsCheck(e) /\ checkFails' = checkFails
             \/ /\ e.type = "failed" /\ e.to = "app" /\ checkFails'.head = checkFails.head
                /\ checkFails' = checkFails \/ checkFails'.max
             \/ /\ e.type = "recovered" /\ e.to = "app" /\ checkFails = None /\ checkFails' = None
                /\ healed'[e.head] = 0
<1> DEFINE e == bus[n]
<1>1. /\ e \in Events /\ e.head \in Heads
  <2>1. e \in Events
    BY ElementOfSeq, LenProperties DEF WatchTypes
  <2> QED BY <2>1 DEF Events
<1>2. /\ IsCheck(e) => First(n)
      /\ ~IsCheck(e) => e.to = "assembler" /\ e.type \in {"conflicts", "resolved"}
  BY DeliverFirst
<1>3. e.type \in {"failed", "recovered", "conflicts", "resolved"}
  BY <1>2 DEF IsCheck
<1>4. CASE e.to = "assembler" /\ Assembled(e)
  <2>1. CASE e.type = "failed"
    <3>1. checkFails' = Fails(e) /\ Fails(e).head = e.head
      BY <1>4, <2>1 DEF Assembled, Fails, None
    <3> QED BY <1>4, <2>1, <3>1
  <2>2. CASE e.type = "recovered"
    BY <1>4, <2>2 DEF Assembled
  <2>3. CASE e.type \in {"conflicts", "resolved"}
    BY <1>4, <2>3 DEF Assembled, IsCheck
  <2> QED BY <1>3, <2>1, <2>2, <2>3
<1>5. CASE e.to = "app" /\ e.type = "failed" /\ Failed(e)
  BY <1>5 DEF Failed, WatchTypes, FailRecords
<1>6. CASE e.to = "app" /\ e.type # "failed" /\ Recovered(e)
  <2>1. e.type = "recovered" /\ First(n)
    BY <1>2, <1>3, <1>6 DEF IsCheck
  <2>2. checkFails = None /\ checkFails' = checkFails
    BY <1>6, <2>1 DEF Recovering, Recovered
  <2>3. healed'[e.head] = 0
    BY <1>1, <1>6 DEF Recovered, WatchTypes
  <2> QED BY <1>6, <2>1, <2>2, <2>3
<1> QED BY <1>4, <1>5, <1>6 DEF Deliver

LEMMA DeliverOrder ==
  ASSUME WatchTypes, Counts, HealCapped, Orderly, NEW n \in DOMAIN bus, Deliver(n), Calm'
  PROVE  Orderly'
<1> USE PRWatchAssumption
<1> DEFINE e == bus[n]
<1>1. /\ bus \in Seq(Events) /\ bus' = RemoveAt(bus, n)
      /\ UNCHANGED <<checkCache, counting>>
  BY DEF WatchTypes, Deliver, watched
<1>2. IsCheck(e) => First(n)
  BY DeliverFirst DEF Orderly
<1>3. \A g \in Heads : healed'[g] \in {healed[g], 0} /\ healed[g] \in Nat
  BY DeliverCounts DEF WatchTypes
<1>4. /\ Len(bus) \in Nat /\ n \in 1..Len(bus) /\ Len(bus') = Len(bus) - 1
      /\ DOMAIN bus = 1..Len(bus) /\ DOMAIN bus' = 1..(Len(bus) - 1)
      /\ \A m \in DOMAIN bus' : Old(n, m) \in DOMAIN bus /\ bus'[m] = bus[Old(n, m)]
  BY <1>1, Handling
<1>5. \/ e.type = "failed" /\ e.to = "assembler" /\ checkFails'.head = e.head
      \/ e.type = "recovered" /\ e.to = "assembler" /\ checkFails' = None
      \/ ~IsCheck(e) /\ checkFails' = checkFails
      \/ /\ e.type = "failed" /\ e.to = "app" /\ checkFails'.head = checkFails.head
         /\ checkFails' = checkFails \/ checkFails'.max
      \/ /\ e.type = "recovered" /\ e.to = "app" /\ checkFails = None /\ checkFails' = None
         /\ healed'[e.head] = 0
  BY DeliverShows DEF Orderly
<1>6. ASSUME NEW g \in Heads
      PROVE  /\ checkFails.head # g => checkFails'.head # g \/ Fail(e, g)
             /\ Back(e, g) => healed'[g] = 0 /\ checkFails'.head # g
  <2>1. None.head # g
    BY DEF None, Never, Heads
  <2> QED BY <1>5, <2>1 DEF Fail, Back, IsCheck
<1>7. /\ Kinds' /\ Twins'
      /\ \A i \in DOMAIN bus' : (bus'[i].type = "recovered" /\ bus'[i].to = "app" /\ First(i)') =>
           \/ Old(n, i) \in DOMAIN bus /\ First(Old(n, i)) /\ bus[Old(n, i)] = bus'[i]
           \/ e.type = "recovered" /\ e.to = "assembler"
  BY <1>1, <1>2, OrderKept DEF Orderly
<1>8. ASSUME NEW i \in DOMAIN bus', bus'[i].type = "recovered", bus'[i].to = "app", First(i)'
      PROVE  checkFails' = None
  <2>1. CASE e.type = "recovered" /\ e.to = "assembler"
    BY <1>5, <2>1 DEF IsCheck
  <2>2. CASE Old(n, i) \in DOMAIN bus /\ First(Old(n, i)) /\ bus[Old(n, i)] = bus'[i]
    <3>1. checkFails = None
      BY <1>8, <2>2 DEF Orderly, Recovering
    <3>2. Old(n, i) < n \/ n < Old(n, i)
      BY <1>4 DEF Old
    <3>3. ~IsCheck(e)
      <4>1. IsCheck(bus[Old(n, i)])
        BY <1>8, <2>2 DEF IsCheck
      <4> QED BY <1>2, <2>2, <3>2, <4>1 DEF First
    <3> QED BY <1>5, <3>1, <3>3 DEF IsCheck
  <2> QED BY <1>7, <1>8, <2>1, <2>2
<1>9. ASSUME NEW g \in Heads, NEW i \in DOMAIN bus', Fail(bus'[i], g) PROVE Fresh(g, i)'
  <2>1. Fail(bus[Old(n, i)], g) /\ Old(n, i) \in DOMAIN bus
    BY <1>4, <1>9
  <2>2. Fresh(g, Old(n, i))
    BY <2>1 DEF Orderly, FreshFails
  <2>3. i >= n \/ ~Fail(e, g)
    <3>1. ASSUME i < n, Fail(e, g) PROVE FALSE
      <4>1. Old(n, i) = i /\ First(n)
        BY <1>2, <3>1 DEF Old, Fail, IsCheck
      <4> QED BY <2>1, <3>1, <4>1 DEF First, Fail, IsCheck
    <3> QED BY <1>4, <3>1
  <2>4. i \in 1..(Len(bus') + 1)
    BY <1>4
  <2> QED BY <1>1, <1>2, <1>3, <1>6, <2>2, <2>3, <2>4, FreshKept
<1>10. ASSUME NEW g \in Heads, checkCache.head = g, ~checkCache.failed PROVE Fresh(g, Len(bus) + 1)'
  <2>0. PICK i : i = Len(bus') + 1
    OBVIOUS
  <2>1. i \in 1..(Len(bus') + 1) /\ i >= n /\ Old(n, i) = Len(bus) + 1
    BY <1>4, <2>0 DEF Old
  <2>2. Fresh(g, Old(n, i))
    BY <1>10, <2>1 DEF Orderly, FreshCache
  <2>3. Fresh(g, i)'
    BY <1>1, <1>2, <1>3, <1>6, <2>1, <2>2, FreshKept
  <2> QED BY <2>0, <2>3 DEF Fresh
<1>11. Unseen'
  <2>1. ASSUME NEW g \in Heads, g > checkCache.head
        PROVE  /\ healed'[g] = 0 /\ checkFails'.head # g
               /\ \A i \in DOMAIN bus' : IsCheck(bus'[i]) => bus'[i].head # g
    <3>1. /\ healed[g] = 0 /\ checkFails.head # g
          /\ \A m \in DOMAIN bus : IsCheck(bus[m]) => bus[m].head # g
      BY <2>1 DEF Orderly, Unseen
    <3>2. ~Fail(e, g)
      BY <3>1 DEF Fail, IsCheck
    <3> QED BY <1>3, <1>4, <1>6, <3>1, <3>2
  <2> QED BY <1>1, <2>1 DEF Unseen
<1>12. ASSUME NEW g \in Heads, checkFails'.head = g, counting # g, ~checkFails'.max \/ counting # Never
       PROVE  healed'[g] < Cap
  <2>1. Cap \in Nat /\ 0 < Cap
    OBVIOUS
  <2>2. CASE Fail(e, g)
    <3>1. Fresh(g, n) /\ First(n)
      BY <1>2, <2>2 DEF Orderly, FreshFails, Fail, IsCheck
    <3>2. \A m \in DOMAIN bus : m < n => ~Back(bus[m], g)
      BY <3>1 DEF First, Back, IsCheck
    <3>3. healed[g] = 0
      BY <3>1, <3>2 DEF Fresh
    <3> QED BY <1>3, <2>1, <3>3
  <2>3. CASE checkFails.head = g /\ (~checkFails.max \/ counting # Never)
    <3>1. healed[g] < Cap
      BY <1>12, <2>3 DEF Orderly, Room
    <3> QED BY <1>3, <2>1, <3>1
  <2>4. None.head # g
    BY DEF None, Never, Heads
  <2> QED BY <1>5, <1>12, <2>2, <2>3, <2>4 DEF Fail
<1>13. Recovering' /\ FreshFails' /\ FreshCache'
  BY <1>1, <1>8, <1>9, <1>10 DEF Recovering, FreshFails, FreshCache
<1>14. Room'
  BY <1>1, <1>12 DEF Room
<1> QED BY <1>7, <1>11, <1>13, <1>14 DEF Orderly

-----------------------------------------------------------------------------
\* Events are published.

\* What was under way is as it was.
LEMMA Longer ==
  ASSUME bus \in Seq(Events), bus' \in Seq(Events), Len(bus') >= Len(bus),
         \A m \in 1..Len(bus) : bus'[m] = bus[m],
         UNCHANGED <<healed, checkFails>>
  PROVE  /\ DOMAIN bus = 1..Len(bus) /\ DOMAIN bus' = 1..Len(bus')
         /\ Len(bus) \in Nat /\ Len(bus') \in Nat
         /\ \A n \in 1..(Len(bus) + 1) : First(n)' <=> First(n)
         /\ \A n \in 1..(Len(bus) + 1) : \A h \in Heads : Fresh(h, n) => Fresh(h, n)'
<1>1. /\ DOMAIN bus = 1..Len(bus) /\ DOMAIN bus' = 1..Len(bus')
      /\ Len(bus) \in Nat /\ Len(bus') \in Nat
  BY LenProperties
<1>2. ASSUME NEW n \in 1..(Len(bus) + 1), NEW m \in Nat, m < n
      PROVE  (m \in DOMAIN bus <=> m \in DOMAIN bus') /\ (m \in DOMAIN bus => bus'[m] = bus[m])
  BY <1>1, <1>2
<1>3. ASSUME NEW n \in 1..(Len(bus) + 1) PROVE First(n)' <=> First(n)
  BY <1>1, <1>2 DEF First
<1>4. ASSUME NEW n \in 1..(Len(bus) + 1), NEW h \in Heads, Fresh(h, n) PROVE Fresh(h, n)'
  <2>1. CASE healed[h] = 0 /\ checkFails.head # h /\ \A m \in DOMAIN bus : m < n => ~Fail(bus[m], h)
    BY <1>1, <1>2, <2>1 DEF Fresh
  <2>2. ASSUME NEW m \in DOMAIN bus, m < n, Back(bus[m], h),
               \A j \in DOMAIN bus : (m < j /\ j < n) => ~Fail(bus[j], h)
        PROVE  Fresh(h, n)'
    <3>1. m \in DOMAIN bus' /\ Back(bus'[m], h)
      BY <1>1, <2>2
    <3>2. \A j \in DOMAIN bus' : (m < j /\ j < n) => ~Fail(bus'[j], h)
      BY <1>1, <1>2, <2>2
    <3> QED BY <2>2, <3>1, <3>2 DEF Fresh
  <2> QED BY <1>4, <2>1, <2>2 DEF Fresh
<1> QED BY <1>1, <1>3, <1>4

\* A probe of the checks has something to say.
LEMMA TwoChecks ==
  ASSUME WatchTypes, Orderly, NEW h \in Heads, NEW type \in {"failed", "recovered"},
         bus' = bus \o <<Event(type, "assembler", h, 0), Event(type, "app", h, 0)>>,
         UNCHANGED <<healed, checkFails>>,
         type = "failed" => Fresh(h, Len(bus) + 1)
  PROVE  /\ Kinds' /\ Twins' /\ Recovering' /\ FreshFails'
         /\ type = "recovered" => Fresh(h, Len(bus) + 1)'
         /\ \A m \in DOMAIN bus' : (m \in DOMAIN bus /\ bus'[m] = bus[m]) \/ bus'[m].head = h
<1> DEFINE x == Event(type, "assembler", h, 0)
           y == Event(type, "app", h, 0)
<1>1. /\ x \in Events /\ x.type = type /\ x.to = "assembler" /\ x.head = h
      /\ y \in Events /\ y.type = type /\ y.to = "app" /\ y.head = h
  BY DEF Event, Events
<1>2. bus \in Seq(Events) /\ bus' = bus \o <<x, y>>
  BY DEF WatchTypes
<1> HIDE DEF x, y
<1>3. /\ bus' \in Seq(Events) /\ Len(bus') = Len(bus) + 2
      /\ bus'[Len(bus) + 1] = x /\ bus'[Len(bus) + 2] = y /\ \A m \in 1..Len(bus) : bus'[m] = bus[m]
  BY <1>1, <1>2, AppendingTwo
<1>4. Len(bus) \in Nat /\ Len(bus') >= Len(bus)
  BY <1>2, <1>3, LenProperties
<1>5. /\ DOMAIN bus = 1..Len(bus) /\ DOMAIN bus' = 1..Len(bus')
      /\ \A n \in 1..(Len(bus) + 1) : First(n)' <=> First(n)
      /\ \A n \in 1..(Len(bus) + 1) : \A g \in Heads : Fresh(g, n) => Fresh(g, n)'
  BY <1>2, <1>3, <1>4, Longer
<1>6. \A m \in DOMAIN bus' :
        \/ m \in DOMAIN bus /\ m \in 1..(Len(bus) + 1) /\ bus'[m] = bus[m]
        \/ m = Len(bus) + 1 /\ bus'[m] = x
        \/ m = Len(bus) + 2 /\ bus'[m] = y
  BY <1>3, <1>4, <1>5
<1>7. Kinds'
  BY <1>1, <1>6 DEF Kinds, Orderly, IsCheck
<1>8. ASSUME NEW n \in DOMAIN bus', IsCheck(bus'[n]), bus'[n].to = "app"
      PROVE  \/ First(n)'
             \/ n - 1 \in DOMAIN bus' /\ bus'[n - 1].type = bus'[n].type /\ bus'[n - 1].to = "assembler"
  <2>1. CASE n \in DOMAIN bus /\ n \in 1..(Len(bus) + 1) /\ bus'[n] = bus[n]
    <3>1. \/ First(n)
          \/ n - 1 \in DOMAIN bus /\ bus[n - 1].type = bus[n].type /\ bus[n - 1].to = "assembler"
      BY <1>8, <2>1 DEF Orderly, Twins
    <3>2. n - 1 \in DOMAIN bus => n - 1 \in DOMAIN bus' /\ bus'[n - 1] = bus[n - 1]
      BY <1>3, <1>4, <1>5
    <3> QED BY <1>5, <2>1, <3>1, <3>2
  <2>2. CASE n = Len(bus) + 1 /\ bus'[n] = x
    BY <1>1, <1>8, <2>2
  <2>3. CASE n = Len(bus) + 2 /\ bus'[n] = y
    <3>1. n - 1 = Len(bus) + 1 /\ n - 1 \in DOMAIN bus'
      BY <1>3, <1>4, <1>5, <2>3
    <3> QED BY <1>1, <1>3, <2>3, <3>1
  <2> QED BY <1>6, <2>1, <2>2, <2>3
<1>9. ASSUME NEW n \in DOMAIN bus', bus'[n].type = "recovered", bus'[n].to = "app", First(n)'
      PROVE  checkFails' = None
  <2>1. CASE n \in DOMAIN bus /\ n \in 1..(Len(bus) + 1) /\ bus'[n] = bus[n]
    BY <1>5, <1>9, <2>1 DEF Orderly, Recovering
  <2>2. CASE n = Len(bus) + 1 /\ bus'[n] = x
    BY <1>1, <1>9, <2>2
  <2>3. CASE n = Len(bus) + 2 /\ bus'[n] = y
    <3>1. Len(bus) + 1 \in DOMAIN bus' /\ Len(bus) + 1 < n /\ IsCheck(bus'[Len(bus) + 1])
      BY <1>1, <1>3, <1>4, <1>5, <2>3 DEF IsCheck
    <3> QED BY <1>9, <3>1 DEF First
  <2> QED BY <1>6, <2>1, <2>2, <2>3
<1>10. ASSUME NEW g \in Heads, NEW n \in DOMAIN bus', Fail(bus'[n], g) PROVE Fresh(g, n)'
  <2>1. CASE n \in DOMAIN bus /\ n \in 1..(Len(bus) + 1) /\ bus'[n] = bus[n]
    <3>1. Fresh(g, n)
      BY <1>10, <2>1 DEF Orderly, FreshFails
    <3> QED BY <1>5, <2>1, <3>1
  <2>2. CASE n = Len(bus) + 1 /\ bus'[n] = x
    <3>1. g = h /\ type = "failed"
      BY <1>1, <1>10, <2>2 DEF Fail
    <3>2. n \in 1..(Len(bus) + 1) /\ Fresh(g, n)
      BY <1>4, <2>2, <3>1
    <3> QED BY <1>5, <3>2
  <2>3. CASE n = Len(bus) + 2 /\ bus'[n] = y
    BY <1>1, <1>10, <2>3 DEF Fail
  <2> QED BY <1>6, <2>1, <2>2, <2>3
<1>11. ASSUME type = "recovered" PROVE Fresh(h, Len(bus) + 1)'
  <2>1. PICK m \in DOMAIN bus' : m = Len(bus) + 2
    BY <1>3, <1>4, <1>5
  <2>2. Back(bus'[m], h) /\ m < Len(bus') + 1
    BY <1>1, <1>3, <1>4, <1>11, <2>1 DEF Back
  <2>3. \A j \in DOMAIN bus' : ~(m < j)
    BY <1>3, <1>4, <1>5, <2>1
  <2> QED BY <2>2, <2>3 DEF Fresh
<1>12. Twins'
  BY <1>8 DEF Twins
<1>13. Recovering' /\ FreshFails'
  BY <1>9, <1>10 DEF Recovering, FreshFails
<1> QED BY <1>1, <1>6, <1>7, <1>11, <1>12, <1>13

\* A probe of the conflicts has something to say.
LEMMA OneConflict ==
  ASSUME WatchTypes, Orderly, NEW x \in Events, x.to = "assembler", x.type \in {"conflicts", "resolved"},
         bus' = Append(bus, x), UNCHANGED <<healed, checkFails, checkCache, counting>>
  PROVE  Orderly'
<1>1. bus \in Seq(Events) /\ Len(bus) \in Nat /\ ~IsCheck(x) /\ x.type # "ended"
  BY LenProperties DEF WatchTypes, IsCheck
<1>2. /\ bus' \in Seq(Events) /\ Len(bus') = Len(bus) + 1 /\ Len(bus') >= Len(bus)
      /\ bus'[Len(bus) + 1] = x /\ \A m \in 1..Len(bus) : bus'[m] = bus[m]
  BY <1>1, Appending
<1>3. /\ DOMAIN bus = 1..Len(bus) /\ DOMAIN bus' = 1..Len(bus')
      /\ \A n \in 1..(Len(bus) + 1) : First(n)' <=> First(n)
      /\ \A n \in 1..(Len(bus) + 1) : \A g \in Heads : Fresh(g, n) => Fresh(g, n)'
  BY <1>1, <1>2, Longer
<1>4. \A m \in DOMAIN bus' :
        \/ m \in DOMAIN bus /\ m \in 1..(Len(bus) + 1) /\ bus'[m] = bus[m]
        \/ m = Len(bus) + 1 /\ bus'[m] = x
  BY <1>1, <1>2, <1>3
<1>5. Kinds'
  BY <1>1, <1>4 DEF Kinds, Orderly
<1>6. ASSUME NEW n \in DOMAIN bus', IsCheck(bus'[n])
      PROVE  n \in DOMAIN bus /\ n \in 1..(Len(bus) + 1) /\ bus'[n] = bus[n] /\ IsCheck(bus[n])
  BY <1>1, <1>4, <1>6
<1>7. Twins'
  <2>1. ASSUME NEW n \in DOMAIN bus', IsCheck(bus'[n]), bus'[n].to = "app"
        PROVE  \/ First(n)'
               \/ n - 1 \in DOMAIN bus' /\ bus'[n - 1].type = bus'[n].type /\ bus'[n - 1].to = "assembler"
    <3>1. n \in DOMAIN bus /\ n \in 1..(Len(bus) + 1) /\ bus'[n] = bus[n]
      BY <1>6, <2>1
    <3>2. \/ First(n)
          \/ n - 1 \in DOMAIN bus /\ bus[n - 1].type = bus[n].type /\ bus[n - 1].to = "assembler"
      BY <2>1, <3>1 DEF Orderly, Twins
    <3>3. n - 1 \in DOMAIN bus => n - 1 \in DOMAIN bus' /\ bus'[n - 1] = bus[n - 1]
      BY <1>1, <1>2, <1>3
    <3> QED BY <1>3, <3>1, <3>2, <3>3
  <2> QED BY <2>1 DEF Twins
<1>8. Recovering'
  <2>1. ASSUME NEW n \in DOMAIN bus', bus'[n].type = "recovered", bus'[n].to = "app", First(n)'
        PROVE  checkFails' = None
    <3>1. n \in DOMAIN bus /\ n \in 1..(Len(bus) + 1) /\ bus'[n] = bus[n]
      BY <1>6, <2>1 DEF IsCheck
    <3> QED BY <1>3, <2>1, <3>1 DEF Orderly, Recovering
  <2> QED BY <2>1 DEF Recovering
<1>9. FreshFails'
  <2>1. ASSUME NEW g \in Heads, NEW n \in DOMAIN bus', Fail(bus'[n], g) PROVE Fresh(g, n)'
    <3>1. n \in DOMAIN bus /\ n \in 1..(Len(bus) + 1) /\ bus'[n] = bus[n]
      BY <1>6, <2>1 DEF IsCheck, Fail
    <3>2. Fresh(g, n)
      BY <2>1, <3>1 DEF Orderly, FreshFails
    <3> QED BY <1>3, <3>1, <3>2
  <2> QED BY <2>1 DEF FreshFails
<1>10. FreshCache'
  <2>1. ASSUME NEW g \in Heads, checkCache.head = g, ~checkCache.failed PROVE Fresh(g, Len(bus) + 1)'
    <3>1. PICK n \in 1..(Len(bus) + 1) : n = Len(bus) + 1
      BY <1>1
    <3>2. Fresh(g, n)
      BY <2>1, <3>1 DEF Orderly, FreshCache
    <3>3. Fresh(g, n)'
      BY <1>3, <3>2
    <3>4. Len(bus') + 1 = n + 1 /\ n \in Nat /\ ~Fail(bus'[n], g)
      BY <1>1, <1>2, <3>1 DEF Fail, IsCheck
    <3>5. CASE healed'[g] = 0 /\ checkFails'.head # g /\ \A m \in DOMAIN bus' : m < n => ~Fail(bus'[m], g)
      <4>1. ASSUME NEW m \in DOMAIN bus', m < n + 1 PROVE ~Fail(bus'[m], g)
        <5>1. m < n \/ m = n
          BY <1>3, <3>4, <4>1
        <5> QED BY <3>4, <3>5, <4>1, <5>1
      <4> QED BY <3>4, <3>5, <4>1 DEF Fresh
    <3>6. ASSUME NEW m \in DOMAIN bus', m < n, Back(bus'[m], g),
                 \A j \in DOMAIN bus' : (m < j /\ j < n) => ~Fail(bus'[j], g)
          PROVE  Fresh(g, Len(bus) + 1)'
      <4>1. ASSUME NEW j \in DOMAIN bus', m < j, j < n + 1 PROVE ~Fail(bus'[j], g)
        <5>1. j < n \/ j = n
          BY <1>3, <3>4, <4>1
        <5> QED BY <3>4, <3>6, <4>1, <5>1
      <4>2. m < n + 1
        BY <1>3, <3>4, <3>6
      <4> QED BY <3>4, <3>6, <4>1, <4>2 DEF Fresh
    <3> QED BY <3>3, <3>5, <3>6 DEF Fresh
  <2> QED BY <2>1 DEF FreshCache
<1>11. Unseen'
  BY <1>4, <1>6 DEF Orderly, Unseen
<1>12. Room'
  BY DEF Orderly, Room
<1> QED BY <1>5, <1>7, <1>8, <1>9, <1>10, <1>11, <1>12 DEF Orderly

\* A probe of the checks.
LEMMA ChecksOrder ==
  ASSUME WatchTypes, Orderly, NEW k \in Polls, PublishChecks(k), Calm'
  PROVE  Orderly'
<1>0. PICK p : p = poll[k]
  OBVIOUS
<1>1. /\ p \in PollRecords /\ p.head \in Heads /\ p.prev = checkCache /\ p.head >= checkCache.head
      /\ p.failed \in BOOLEAN
  <2>1. p \in PollRecords /\ p.pc = "publish" /\ (p.pc # "idle" => p.head \in Heads)
    BY <1>0 DEF PublishChecks, WatchTypes
  <2>2. p.prev = checkCache /\ ~(p.head < checkCache.head)
    BY <1>0 DEF PublishChecks, Calm
  <2>3. checkCache.head \in Heads \cup {Never} /\ p.failed \in BOOLEAN
    BY <2>1 DEF WatchTypes, CheckRecords, PollRecords
  <2> QED BY <2>1, <2>2, <2>3, PRWatchAssumption DEF Heads, Never
<1>2. /\ checkCache' = [head |-> p.head, failed |-> p.failed] /\ UNCHANGED <<healed, checkFails, counting>>
      /\ bus' = bus \o CheckEvents(p) /\ bus \in Seq(Events)
  BY <1>0 DEF PublishChecks, CheckCache, heal, shown, WatchTypes
<1>3. checkCache.head \in Heads \cup {Never} /\ checkCache.failed \in BOOLEAN
  BY DEF WatchTypes, CheckRecords
<1>4. \A h \in Heads : h > p.head => h > checkCache.head
  BY <1>1, <1>3, PRWatchAssumption DEF Heads, Never
\* A head that was not reported, or reported as passing, has had no worker.
<1>5. ASSUME ~(checkCache.head = p.head /\ checkCache.failed) PROVE Fresh(p.head, Len(bus) + 1)
  <2>1. CASE checkCache.head = p.head
    BY <1>1, <1>5, <2>1 DEF Orderly, FreshCache
  <2>2. CASE checkCache.head # p.head
    <3>1. p.head > checkCache.head
      BY <1>1, <1>3, <2>2, PRWatchAssumption DEF Heads, Never
    <3>2. healed[p.head] = 0 /\ checkFails.head # p.head /\ \A n \in DOMAIN bus : IsCheck(bus[n]) => bus[n].head # p.head
      BY <1>1, <3>1 DEF Orderly, Unseen
    <3> QED BY <3>2 DEF Fresh, Fail, IsCheck
  <2> QED BY <2>1, <2>2
<1>6. Room'
  BY <1>2 DEF Orderly, Room
<1>7. CASE p.failed /\ ~(checkCache.head = p.head /\ checkCache.failed)
  <2>1. bus' = bus \o <<Event("failed", "assembler", p.head, 0), Event("failed", "app", p.head, 0)>>
    BY <1>1, <1>2, <1>7 DEF CheckEvents
  <2>2. /\ Kinds' /\ Twins' /\ Recovering' /\ FreshFails'
        /\ \A m \in DOMAIN bus' : (m \in DOMAIN bus /\ bus'[m] = bus[m]) \/ bus'[m].head = p.head
    BY <1>1, <1>2, <1>5, <1>7, <2>1, TwoChecks
  <2>3. FreshCache'
    BY <1>2, <1>7 DEF FreshCache
  <2>4. Unseen'
    <3>1. \A h \in Heads : h > p.head => h # p.head
      BY <1>1 DEF Heads
    <3> QED BY <1>2, <1>4, <2>2, <3>1 DEF Orderly, Unseen
  <2> QED BY <1>6, <2>2, <2>3, <2>4 DEF Orderly
<1>8. CASE ~p.failed /\ checkCache.head = p.head /\ checkCache.failed
  <2>1. bus' = bus \o <<Event("recovered", "assembler", p.head, 0), Event("recovered", "app", p.head, 0)>>
    BY <1>1, <1>2, <1>8 DEF CheckEvents
  <2>2. /\ Kinds' /\ Twins' /\ Recovering' /\ FreshFails' /\ Fresh(p.head, Len(bus) + 1)'
        /\ \A m \in DOMAIN bus' : (m \in DOMAIN bus /\ bus'[m] = bus[m]) \/ bus'[m].head = p.head
    BY <1>1, <1>2, <2>1, TwoChecks
  <2>3. FreshCache'
    BY <1>2, <2>2 DEF FreshCache
  <2>4. Unseen'
    <3>1. \A h \in Heads : h > p.head => h # p.head
      BY <1>1 DEF Heads
    <3> QED BY <1>2, <1>4, <2>2, <3>1 DEF Orderly, Unseen
  <2> QED BY <1>6, <2>2, <2>3, <2>4 DEF Orderly
<1>9. CASE p.failed = (checkCache.head = p.head /\ checkCache.failed)
  <2>1. bus' = bus
    <3>1. CheckEvents(p) = <<>>
      BY <1>1, <1>3, <1>9 DEF CheckEvents
    <3> QED BY <1>2, <3>1
  <2>2. FreshCache'
    <3>1. ASSUME ~p.failed PROVE Fresh(p.head, Len(bus) + 1)
      BY <1>5, <1>9, <3>1
    <3>2. \A h \in Heads : \A n \in 1..(Len(bus) + 1) : Fresh(h, n) => Fresh(h, n)'
      BY <1>2, <2>1, Longer
    <3>3. ASSUME NEW h \in Heads, p.head = h, ~p.failed PROVE Fresh(h, Len(bus) + 1)'
      BY <1>2, <2>1, <3>1, <3>3 DEF Fresh
    <3> QED BY <1>2, <3>3 DEF FreshCache
  <2>3. Kinds' /\ Twins' /\ Recovering' /\ FreshFails'
    BY <1>2, <2>1 DEF Orderly, Kinds, Twins, First, Recovering, FreshFails, Fresh
  <2>4. Unseen'
    BY <1>2, <1>4, <2>1 DEF Orderly, Unseen
  <2> QED BY <1>6, <2>2, <2>3, <2>4 DEF Orderly
<1> QED BY <1>1, <1>3, <1>7, <1>8, <1>9

\* The polls, but for the probe of an ended PR.
LEMMA PollKept ==
  ASSUME WatchInv, NEW k \in Polls, FetchPR(k) \/ FetchChecks(k) \/ ChecksUnavailable(k) \/ PublishChecks(k)
                                    \/ LoadConflicts(k) \/ PublishConflicts(k)
  PROVE  WatchInv'
<1> USE PRWatchAssumption
<1>0. /\ WatchTypes /\ Counts /\ HealCapped /\ (Calm => Orderly)
      /\ poll[k] \in PollRecords /\ (poll[k].pc # "idle" => poll[k].head \in Heads)
      /\ bus \in Seq(Events)
  BY DEF WatchInv, WatchTypes
<1>1. /\ UNCHANGED <<head, merge, files, checkFails, healAttempts, healed, counting, active>>
      /\ (Calm' => Calm) /\ (~crossed' => ~crossed)
  <2>1. UNCHANGED <<head, merge, files, checkFails, healAttempts, healed, counting, active>>
    BY DEF FetchPR, FetchChecks, ChecksUnavailable, PublishChecks, LoadConflicts, PublishConflicts,
           hub, shown, heal
  <2>2. column' = "done" \/ column' = column
    BY DEF FetchPR, FetchChecks, ChecksUnavailable, PublishChecks, LoadConflicts, PublishConflicts
  <2>3. CASE PublishChecks(k)
    BY <2>1, <2>2, <2>3 DEF PublishChecks, Calm
  <2>4. CASE PublishConflicts(k)
    BY <2>1, <2>2, <2>4 DEF PublishConflicts, Calm
  <2>5. CASE FetchPR(k) \/ FetchChecks(k) \/ ChecksUnavailable(k) \/ LoadConflicts(k)
    <3>1. UNCHANGED crossed
      BY <2>5 DEF FetchPR, FetchChecks, ChecksUnavailable, LoadConflicts
    <3> QED BY <2>1, <2>2, <3>1 DEF Calm
  <2> QED BY <2>3, <2>4, <2>5
<1>2. Counts' /\ HealCapped'
  BY <1>0, <1>1 DEF Counts, HealCapped
<1>3. CASE UNCHANGED <<bus, checkCache, conflCache, crossed>> /\ poll' \in [Polls -> PollRecords]
           /\ \A j \in Polls : poll'[j].pc # "idle" => poll'[j].head \in Heads
  <2>1. WatchTypes'
    BY <1>0, <1>1, <1>3 DEF WatchTypes
  <2>2. Calm' => Orderly'
    BY <1>0, <1>1, <1>3 DEF Orderly, Kinds, Twins, First, Recovering, FreshFails, FreshCache, Fresh,
                            Unseen, Room
  <2> QED BY <1>2, <2>1, <2>2 DEF WatchInv
<1>4. CASE FetchPR(k) /\ ended
  <2>1. /\ bus' = Append(bus, Event("ended", "assembler", head, 0)) /\ column' = "done"
        /\ checkCache' = NoCheck /\ conflCache' = NoConflict /\ UNCHANGED <<poll, crossed>>
    BY <1>4 DEF FetchPR
  <2>2. Event("ended", "assembler", head, 0) \in Events
    BY <1>0 DEF Event, Events, WatchTypes
  <2>3. bus' \in Seq(Events)
    BY <1>0, <2>1, <2>2
  <2>4. NoCheck \in CheckRecords /\ NoConflict \in ConflictRecords
    BY DEF NoCheck, NoConflict, CheckRecords, ConflictRecords
  <2>5. WatchTypes'
    BY <1>0, <1>1, <2>1, <2>3, <2>4 DEF WatchTypes
  <2> QED BY <1>2, <2>1, <2>5 DEF WatchInv, Calm
<1>5. CASE PublishChecks(k)
  <2>1. poll[k].head \in Heads /\ poll[k].failed \in BOOLEAN
    BY <1>0, <1>5 DEF PublishChecks, PollRecords
  <2>2. checkCache' \in CheckRecords
    BY <1>5, <2>1 DEF PublishChecks, CheckCache, CheckRecords
  <2>3. poll' \in [Polls -> PollRecords] /\ \A j \in Polls : poll'[j].pc # "idle" => poll'[j].head \in Heads
    BY <1>0, <1>5, <2>1 DEF PublishChecks, WatchTypes, PollRecords
  <2>4. CheckEvents(poll[k]) \in Seq(Events)
    <3>1. \A type \in {"failed", "recovered"}, to \in {"assembler", "app"} :
            Event(type, to, poll[k].head, 0) \in Events
      BY <2>1 DEF Event, Events
    <3> QED BY <3>1 DEF CheckEvents
  <2>5. bus' \in Seq(Events) /\ UNCHANGED conflCache /\ crossed' \in BOOLEAN
    BY <1>0, <1>5, <2>4 DEF PublishChecks, WatchTypes
  <2>6. WatchTypes'
    BY <1>0, <1>1, <2>2, <2>3, <2>5 DEF WatchTypes
  <2>7. Calm' => Orderly'
    BY <1>0, <1>1, <1>5, ChecksOrder
  <2> QED BY <1>2, <2>6, <2>7 DEF WatchInv
<1>6. CASE PublishConflicts(k)
  <2>1. poll[k].head \in Heads /\ poll[k].merge \in {"clean", "unknown", "dirty"} /\ files \in {1, 2}
    BY <1>0, <1>6 DEF PublishConflicts, PollRecords, WatchTypes
  <2>2. conflCache' \in ConflictRecords
    BY <1>0, <1>6, <2>1 DEF PublishConflicts, ConflictCache, ConflictRecords, WatchTypes
  <2>3. Idle \in PollRecords /\ Idle.pc = "idle"
    BY DEF Idle, PollRecords, NoCheck, NoConflict, CheckRecords, ConflictRecords
  <2>4. poll' \in [Polls -> PollRecords] /\ \A j \in Polls : poll'[j].pc # "idle" => poll'[j].head \in Heads
    BY <1>0, <1>6, <2>3 DEF PublishConflicts, WatchTypes
  <2>5. UNCHANGED checkCache /\ crossed' \in BOOLEAN /\ bus' = bus \o ConflictEvents(poll[k])
    BY <1>0, <1>6 DEF PublishConflicts, WatchTypes
  <2>6. \/ bus' = bus
        \/ \E x \in Events : x.to = "assembler" /\ x.type \in {"conflicts", "resolved"} /\ bus' = Append(bus, x)
    <3> DEFINE x == Event("conflicts", "assembler", poll[k].head, files)
               y == Event("resolved", "assembler", poll[k].head, 0)
    <3>1. /\ x \in Events /\ x.to = "assembler" /\ x.type = "conflicts"
          /\ y \in Events /\ y.to = "assembler" /\ y.type = "resolved"
      BY <2>1 DEF Event, Events
    <3>2. ConflictEvents(poll[k]) \in {<<x>>, <<y>>, <<>>}
      BY DEF ConflictEvents
    <3> HIDE DEF x, y
    <3>3. \A z \in Events : bus \o <<z>> = Append(bus, z)
      BY <1>0
    <3>4. bus \o <<>> = bus
      BY <1>0
    <3> QED BY <2>5, <3>1, <3>2, <3>3, <3>4
  <2>7. bus' \in Seq(Events)
    BY <1>0, <2>6, Appending
  <2>8. WatchTypes'
    BY <1>0, <1>1, <2>2, <2>4, <2>5, <2>7 DEF WatchTypes
  <2>9. ASSUME Calm' PROVE Orderly'
    <3>1. CASE bus' = bus
      BY <1>0, <1>1, <2>5, <2>9, <3>1 DEF Orderly, Kinds, Twins, First, Recovering, FreshFails, FreshCache,
                                           Fresh, Unseen, Room
    <3>2. ASSUME NEW x \in Events, x.to = "assembler", x.type \in {"conflicts", "resolved"}, bus' = Append(bus, x)
          PROVE  Orderly'
      BY <1>0, <1>1, <2>5, <2>9, <3>2, OneConflict
    <3> QED BY <2>6, <3>1, <3>2
  <2> QED BY <1>2, <2>8, <2>9 DEF WatchInv
<1>7. CASE FetchPR(k) /\ ~ended
  <2>1. /\ poll' = [poll EXCEPT ![k].pc = "checks", ![k].head = head, ![k].merge = merge]
        /\ UNCHANGED <<bus, checkCache, conflCache, crossed>>
    BY <1>7 DEF FetchPR
  <2>2. [poll[k] EXCEPT !.pc = "checks", !.head = head, !.merge = merge] \in PollRecords
    BY <1>0 DEF WatchTypes, PollRecords
  <2> QED BY <1>0, <1>3, <2>1, <2>2 DEF WatchTypes
<1>8. CASE FetchChecks(k)
  <2>0. PICK f \in BOOLEAN : f = (poll[k].head \in fails)
    <3>1. (poll[k].head \in fails) = TRUE \/ (poll[k].head \in fails) = FALSE
      OBVIOUS
    <3> QED BY <3>1, Zenon
  <2>1. /\ poll' = [poll EXCEPT ![k].pc = "publish", ![k].prev = checkCache, ![k].failed = f]
        /\ poll[k].pc = "checks" /\ UNCHANGED <<bus, checkCache, conflCache, crossed>>
    BY <1>8, <2>0 DEF FetchChecks
  <2>2. [poll[k] EXCEPT !.pc = "publish", !.prev = checkCache, !.failed = f] \in PollRecords
    BY <1>0 DEF WatchTypes, PollRecords
  <2> QED BY <1>0, <1>3, <2>1, <2>2 DEF WatchTypes
<1>9. CASE ChecksUnavailable(k)
  BY <1>0, <1>3, <1>9 DEF ChecksUnavailable, WatchTypes, PollRecords
<1>10. CASE LoadConflicts(k)
  BY <1>0, <1>3, <1>10 DEF LoadConflicts, WatchTypes, PollRecords
<1> QED BY <1>4, <1>5, <1>6, <1>7, <1>8, <1>9, <1>10

-----------------------------------------------------------------------------
\* Workers, buttons, GitHub and restarts.

\* A worker is sent for.
LEMMA SelfHealKept ==
  ASSUME WatchInv, SelfHeal
  PROVE  WatchInv'
<1> USE PRWatchAssumption
<1> DEFINE h == checkFails.head
<1>0. /\ WatchTypes /\ Counts /\ HealCapped /\ (Calm => Orderly)
      /\ UNCHANGED <<hub, watched, bus, shown, healAttempts, crossed>>
  BY DEF WatchInv, SelfHeal
<1>1. CASE UNCHANGED <<column, active, counting, healed>>
  <2>1. WatchTypes' /\ Counts' /\ HealCapped'
    BY <1>0, <1>1 DEF WatchTypes, Counts, HealCapped, hub, watched, shown
  <2>2. Calm' => Orderly'
    BY <1>0, <1>1 DEF Calm, Orderly, Kinds, Twins, First, Recovering, FreshFails, FreshCache, Fresh,
                      Unseen, Room, watched, shown
  <2> QED BY <2>1, <2>2 DEF WatchInv
<1>2. CASE /\ checkFails # None /\ ~checkFails.max /\ column = "review" /\ ~active
           /\ column' = "in_progress" /\ active' = TRUE /\ counting' = h
           /\ healed' = [healed EXCEPT ![h] = @ + 1]
  <2>1. /\ h \in Heads /\ counting = Never /\ healed \in [Heads -> Nat] /\ healAttempts \in [Heads -> Nat]
        /\ healed' \in [Heads -> Nat] /\ healed'[h] = healed[h] + 1
        /\ \A g \in Heads : g # h => healed'[g] = healed[g]
    BY <1>0, <1>2 DEF WatchTypes, Counts
  <2>2. WatchTypes'
    BY <1>0, <1>2, <2>1 DEF WatchTypes, hub, watched, shown
  <2>3. Counts'
    <3>1. ASSUME NEW g \in Heads PROVE healed[g] <= healAttempts[g]
      <4>1. counting # g
        BY <2>1 DEF Heads, Never
      <4> QED BY <1>0, <2>1, <4>1 DEF Counts
    <3>2. UNCHANGED healAttempts
      BY <1>0
    <3> QED BY <1>2, <2>1, <3>1, <3>2 DEF Counts
  <2>4. ASSUME ~crossed' PROVE Orderly /\ healed[h] < Cap
    <3>1. Orderly
      BY <1>0, <1>2, <2>4 DEF Calm
    <3> QED BY <1>2, <2>1, <3>1 DEF Orderly, Room, Heads, Never
  <2>5. HealCapped'
    <3>1. ASSUME NEW g \in Heads, ~crossed' PROVE healed'[g] <= Cap
      BY <1>0, <2>1, <2>4, <3>1 DEF HealCapped
    <3> QED BY <3>1 DEF HealCapped
  <2>6. ASSUME Calm' PROVE Orderly'
    <3>1. Orderly /\ UNCHANGED <<bus, checkCache, checkFails>>
      BY <1>0, <2>4, <2>6 DEF Calm, watched, shown
    <3>2. Kinds' /\ Twins' /\ Recovering'
      BY <3>1 DEF Orderly, Kinds, Twins, First, Recovering
    <3>3. ASSUME NEW g \in Heads, NEW n \in Nat, Fresh(g, n) PROVE Fresh(g, n)'
      BY <2>1, <3>1, <3>3 DEF Fresh
    <3>4. DOMAIN bus = 1..Len(bus) /\ Len(bus) \in Nat
      BY <1>0, LenProperties DEF WatchTypes
    <3>5. FreshFails'
      BY <3>1, <3>3, <3>4 DEF Orderly, FreshFails
    <3>6. FreshCache'
      <4>1. PICK n \in Nat : n = Len(bus) + 1
        BY <3>4
      <4>2. ASSUME NEW g \in Heads, checkCache.head = g, ~checkCache.failed PROVE Fresh(g, n)'
        BY <3>1, <3>3, <4>1, <4>2 DEF Orderly, FreshCache
      <4>3. n = Len(bus') + 1
        BY <3>1, <4>1
      <4> QED BY <3>1, <4>2, <4>3 DEF FreshCache, Fresh
    <3>7. Unseen'
      BY <2>1, <3>1 DEF Orderly, Unseen
    <3>8. Room'
      BY <1>2, <3>1 DEF Room
    <3> QED BY <3>2, <3>5, <3>6, <3>7, <3>8 DEF Orderly
  <2> QED BY <2>2, <2>3, <2>5, <2>6 DEF WatchInv
<1> QED BY <1>1, <1>2 DEF SelfHeal

\* The worker is counted.
LEMMA CountHealKept ==
  ASSUME WatchInv, CountHeal
  PROVE  WatchInv'
<1> USE PRWatchAssumption
<1>0. /\ WatchTypes /\ Counts /\ HealCapped /\ (Calm => Orderly)
      /\ UNCHANGED <<hub, column, watched, bus, active, healed, crossed>>
  BY DEF WatchInv, CountHeal
<1>1. PICK c : c = counting
  OBVIOUS
<1>2. PICK n : n = healAttempts[c] + 1
  OBVIOUS
<1>3. /\ c \in Heads /\ c # Never /\ n \in Nat /\ counting' = Never
      /\ healAttempts' = [healAttempts EXCEPT ![c] = n] /\ healAttempts \in [Heads -> Nat]
      /\ healed \in [Heads -> Nat]
      /\ checkFails' = IF checkFails = None THEN None
                       ELSE [checkFails EXCEPT !.attempts = n, !.max = n >= Cap]
  BY <1>0, <1>1, <1>2 DEF CountHeal, WatchTypes
<1>4. PICK full \in BOOLEAN : full = (n >= Cap)
  <2>1. (n >= Cap) = TRUE \/ (n >= Cap) = FALSE
    OBVIOUS
  <2> QED BY <2>1, Zenon
<1>5. /\ checkFails' \in FailRecords /\ checkFails'.head = checkFails.head
      /\ (checkFails = None <=> checkFails' = None) \/ checkFails # None
      /\ checkFails # None => checkFails'.max = full
  <2>1. CASE checkFails = None
    BY <1>0, <1>3, <2>1 DEF WatchTypes
  <2>2. CASE checkFails # None
    <3>1. checkFails' = [checkFails EXCEPT !.attempts = n, !.max = full]
      BY <1>3, <1>4, <2>2
    <3> QED BY <1>0, <1>3, <2>2, <3>1 DEF WatchTypes, FailRecords
  <2> QED BY <2>1, <2>2
<1>6. WatchTypes'
  <2>1. checkFails' # None => checkFails # None
    BY <1>3
  <2>2. healAttempts' \in [Heads -> Nat] /\ counting' \in Heads \cup {Never}
    BY <1>3
  <2>3. checkFails' # None => checkFails'.head \in Heads
    BY <1>0, <1>5, <2>1 DEF WatchTypes
  <2> QED BY <1>0, <1>5, <2>2, <2>3 DEF WatchTypes, hub, watched
\* All workers are counted now.
<1>7. ASSUME NEW g \in Heads PROVE healed[g] <= healAttempts'[g]
  BY <1>0, <1>1, <1>2, <1>3 DEF Counts
<1>8. Counts' /\ HealCapped'
  <2>1. \A g \in Heads : g # Never
    BY DEF Heads, Never
  <2> QED BY <1>0, <1>3, <1>7, <2>1 DEF Counts, HealCapped
<1>9. ASSUME Calm' PROVE Orderly'
  <2>1. Orderly /\ UNCHANGED <<bus, checkCache, healed>> /\ checkFails'.head = checkFails.head
    BY <1>0, <1>5, <1>9 DEF Calm, watched
  <2>2. Kinds' /\ Twins' /\ FreshFails' /\ FreshCache' /\ Unseen'
    BY <2>1 DEF Orderly, Kinds, Twins, First, FreshFails, FreshCache, Fresh, Unseen
  <2>3. Recovering'
    BY <1>3, <2>1 DEF Orderly, Recovering, First
  <2>4. ASSUME NEW g \in Heads, checkFails'.head = g, ~checkFails'.max PROVE healed[g] < Cap
    <3>1. checkFails # None
      <4>1. None.head = Never /\ g # Never
        BY DEF None, Never, Heads
      <4> QED BY <2>1, <2>4, <4>1
    <3>2. ~full /\ ~(n >= Cap)
      BY <1>4, <1>5, <2>4, <3>1
    <3>3. CASE g = c
      BY <1>3, <1>7, <3>2, <3>3
    <3>4. CASE g # c
      BY <1>1, <1>3, <2>1, <2>4, <3>4 DEF Orderly, Room
    <3> QED BY <3>3, <3>4
  <2>5. Room'
    BY <1>3, <2>1, <2>4 DEF Room
  <2> QED BY <2>2, <2>3, <2>5 DEF Orderly
<1> QED BY <1>6, <1>8, <1>9 DEF WatchInv

\* Everything in memory is forgotten.
LEMMA Forgotten ==
  ASSUME WatchTypes, bus' = <<>>, checkCache' = NoCheck, conflCache' = NoConflict,
         poll' = [k \in Polls |-> Idle], checkFails' = None, UNCHANGED <<head, merge, files, crossed>>,
         healAttempts' = [h \in Heads |-> 0], healed' = [h \in Heads |-> 0], counting' = Never
  PROVE  WatchInv'
<1> USE PRWatchAssumption
<1>1. WatchTypes'
  <2>1. Idle \in PollRecords /\ Idle.pc = "idle" /\ NoCheck \in CheckRecords /\ NoConflict \in ConflictRecords
    BY DEF Idle, PollRecords, NoCheck, NoConflict, CheckRecords, ConflictRecords
  <2>2. None \in FailRecords
    BY DEF None, FailRecords, Never
  <2> QED BY <2>1, <2>2 DEF WatchTypes
<1>2. Counts' /\ HealCapped'
  <2>1. \A h \in Heads : h # Never
    BY DEF Heads, Never
  <2> QED BY <2>1 DEF Counts, HealCapped, Never
<1>3. DOMAIN bus' = {} /\ checkCache'.head = Never /\ checkFails'.head = Never
  BY DEF NoCheck, None
<1>4. \A h \in Heads : h # Never /\ healed'[h] = 0
  BY DEF Heads, Never
<1>5. Kinds' /\ Twins' /\ Recovering' /\ FreshFails'
  BY <1>3 DEF Kinds, Twins, Recovering, FreshFails
<1>6. FreshCache' /\ Unseen' /\ Room'
  BY <1>3, <1>4 DEF FreshCache, Unseen, Room
<1> QED BY <1>1, <1>2, <1>5, <1>6 DEF WatchInv, Orderly

\* What is said of the PR, and other workers.
LEMMA OthersKept ==
  ASSUME WatchInv,
         UNCHANGED <<watched, bus, checkFails, healAttempts, healed, counting, crossed>>,
         counting # Never => active',
         head' \in Heads, merge' \in {"clean", "unknown", "dirty"}, files' \in {1, 2},
         column = "done" => column' = "done"
  PROVE  WatchInv'
<1>0. WatchTypes /\ Counts /\ HealCapped /\ (Calm => Orderly) /\ (Calm' => Calm)
  BY DEF WatchInv, Calm
<1>1. WatchTypes'
  BY <1>0 DEF WatchTypes, watched
<1>2. Counts' /\ HealCapped'
  BY <1>0 DEF Counts, HealCapped
<1>3. Calm' => Orderly'
  BY <1>0 DEF Orderly, Kinds, Twins, First, Recovering, FreshFails, FreshCache, Fresh, Unseen, Room, watched
<1> QED BY <1>1, <1>2, <1>3 DEF WatchInv

LEMMA DeliverKept ==
  ASSUME WatchInv, NEW n \in DOMAIN bus, Deliver(n)
  PROVE  WatchInv'
<1>1. WatchTypes /\ Counts /\ HealCapped /\ (Calm => Orderly) /\ (Calm' => Calm)
  BY DEF WatchInv, Calm, Deliver
<1>2. WatchTypes' /\ Counts' /\ HealCapped'
  BY <1>1, DeliverCounts
<1>3. Calm' => Orderly'
  BY <1>1, DeliverOrder
<1> QED BY <1>2, <1>3 DEF WatchInv

LEMMA WatchKept ==
  ASSUME WatchInv, [Next]_vars
  PROVE  WatchInv'
<1> USE PRWatchAssumption
<1>0. /\ head \in Heads /\ merge \in {"clean", "unknown", "dirty"} /\ files \in {1, 2}
      /\ counting # Never => active
  BY DEF WatchInv, WatchTypes, Counts
<1>1. ASSUME NEW k \in Polls, PollStep(k) \/ ChecksUnavailable(k) PROVE WatchInv'
  BY <1>1, PollKept DEF PollStep
<1>2. ASSUME NEW n \in DOMAIN bus, Deliver(n) PROVE WatchInv'
  BY <1>2, DeliverKept
<1>3. CASE SelfHeal
  BY <1>3, SelfHealKept
<1>4. CASE CountHeal
  BY <1>4, CountHealKept
<1>5. CASE PressSelfHeal
  BY <1>0, <1>5, OthersKept DEF PressSelfHeal, hub, shown
<1>6. CASE ResolveConflicts
  BY <1>0, <1>6, OthersKept DEF ResolveConflicts, hub, shown
<1>7. CASE WorkerEnds
  <2>1. UNCHANGED <<hub, watched, bus, checkFails, healAttempts, healed, counting, crossed>> /\ counting = Never
    BY <1>7 DEF WorkerEnds
  <2>2. column = "done" => column' = "done"
    BY <1>7 DEF WorkerEnds
  <2> QED BY <1>0, <2>1, <2>2, OthersKept DEF hub
<1>8. CASE Restart
  BY <1>8, Forgotten DEF Restart, hub, WatchInv
<1>9. ASSUME NEW failing \in BOOLEAN, Push(failing) PROVE WatchInv'
  <2>1. head' \in Heads
    BY <1>0, <1>9 DEF Push, Heads
  <2> QED BY <1>0, <1>9, <2>1, OthersKept DEF Push, Hub, shown, heal
<1>10. CASE ChecksTurn \/ EndPR
  BY <1>0, <1>10, OthersKept DEF ChecksTurn, EndPR, Hub, shown, heal
<1>11. CASE BaseMoves
  BY <1>0, <1>11, OthersKept DEF BaseMoves, Hub, shown, heal
<1>12. CASE Settles
  BY <1>0, <1>12, OthersKept DEF Settles, Hub, shown, heal
<1>13. CASE UNCHANGED vars
  BY <1>0, <1>13, OthersKept DEF vars, hub, shown, heal
<1> QED BY <1>1, <1>2, <1>3, <1>4, <1>5, <1>6, <1>7, <1>8, <1>9, <1>10, <1>11, <1>12, <1>13 DEF Next, Handlers

\* For any polls at a time, heads, caps and buttons: what the counters, the card, the bus and the
\* poller's memory say of a head agrees, as long as nothing is overtaken.
THEOREM WatchInvariance == Spec => []WatchInv
<1>1. Init => WatchInv
  <2> SUFFICES ASSUME Init PROVE WatchInv
    OBVIOUS
  <2> USE PRWatchAssumption DEF Init
  <2>1. WatchTypes
    <3>1. Idle \in PollRecords /\ Idle.pc = "idle" /\ NoCheck \in CheckRecords /\ NoConflict \in ConflictRecords
      BY DEF Idle, PollRecords, NoCheck, NoConflict, CheckRecords, ConflictRecords
    <3>2. None \in FailRecords /\ 1 \in Heads
      BY DEF None, FailRecords, Never, Heads
    <3>3. poll \in [Polls -> PollRecords] /\ \A k \in Polls : poll[k].pc # "idle" => poll[k].head \in Heads
      BY <3>1
    <3>4. bus \in Seq(Events) /\ healAttempts \in [Heads -> Nat] /\ healed \in [Heads -> Nat]
      OBVIOUS
    <3> QED BY <3>1, <3>2, <3>3, <3>4 DEF WatchTypes
  <2>2. Counts /\ HealCapped
    <3>1. \A h \in Heads : h # Never
      BY DEF Heads, Never
    <3> QED BY <3>1 DEF Counts, HealCapped, Never
  <2>3. DOMAIN bus = {} /\ checkCache.head = Never /\ checkFails.head = Never
    BY DEF NoCheck, None
  <2>4. \A h \in Heads : h # Never /\ healed[h] = 0
    BY DEF Heads, Never
  <2>5. Kinds /\ Twins /\ Recovering /\ FreshFails
    BY <2>3 DEF Kinds, Twins, Recovering, FreshFails
  <2>6. FreshCache /\ Unseen /\ Room
    BY <2>3, <2>4 DEF FreshCache, Unseen, Room
  <2> QED BY <2>1, <2>2, <2>5, <2>6 DEF WatchInv, Orderly
<1>2. WatchInv /\ [Next]_vars => WatchInv'
  BY WatchKept
<1> QED BY <1>1, <1>2, PTL DEF Spec

\* Not more than Cap workers are sent to mend a head between two recoveries of its checks, whoever
\* asks for them and however many polls run, as long as nothing is overtaken.
THEOREM HealsCapped == Spec => []HealCapped
<1>1. WatchInv => HealCapped
  BY DEF WatchInv
<1> QED BY <1>1, WatchInvariance, PTL

=============================================================================
