---------------------------- MODULE BacklogProofs ----------------------------
(***************************************************************************)
(* The plan slots balance and the gates hold, for any number of issues,    *)
(* pulling passes and slots, any answers of the model and any bounds.      *)
(*                                                                         *)
(* Slots: a slot is counted once more for every worker that is started and *)
(* for every pass that holds one, so every step that moves a slot moves it *)
(* from one of three counts to another (Balanced).  Gates: the rows that a *)
(* ranking or a recomputation saves are old, and it does not matter how    *)
(* old: Merged keeps the gate of a row that is known (MergedKeepsGate), so *)
(* it is enough that a gate is only ever on a known row, and that nothing  *)
(* anywhere, table or copy, has an open gate before the source is merged.  *)
(* What a pass has on its list needs no typing for this: a number that is  *)
(* no issue would change no row.  The second part is about the polls.      *)
(***************************************************************************)
EXTENDS MCBoard, FiniteSetTheorems, TLAPS

\* A row that a writer of the table may leave, as far as the gate goes.
Sound(r) ==
  /\ {"known", "gate"} \subseteq DOMAIN r
  /\ r.gate # "none" => r.known
  /\ r.gate = "open" => source = "merged"

\* Rows that somebody has listed and not saved.
Copies(rows) ==
  /\ DOMAIN rows \subseteq Issues
  /\ \A i \in DOMAIN rows : Sound(rows[i]) /\ rows[i].known

Holding == {k \in Pullers : pull[k].pc = "holding"}

Table    == row = [i \in Issues |-> row[i]] /\ \A i \in Issues : Sound(row[i])
Ranking  == "rows" \in DOMAIN rank /\ Copies(rank.rows)
PassType == /\ pull = [k \in Pullers |-> pull[k]]
            /\ \A k \in Pullers : {"pc", "rows"} \subseteq DOMAIN pull[k]
Wakes    == DOMAIN events = {"slot_freed", "issue_closed", "kick"}
Listings == \A k \in Pullers : Copies(pull[k].rows)
Balanced == free \in Nat /\ IsFiniteSet(plans) /\ SlotsBalanced

IInv == Table /\ Ranking /\ PassType /\ Wakes /\ Listings /\ Balanced

-----------------------------------------------------------------------------
\* Saving a row over another.

LEMMA MergedKeepsGate ==
  ASSUME NEW prev, NEW r, Sound(prev), Sound(r), r.known
  PROVE  /\ Sound(Merged(prev, r))
         /\ prev.gate # "none" => Merged(prev, r).gate = prev.gate
BY DEF Sound, Merged

\* What a poll and the filing of an issue save.
LEMMA FetchedIsSound ==
  /\ Sound(Fetched) /\ Fetched.known /\ Sound(Absent)
  /\ Sound([Fetched EXCEPT !.gate = "held"]) /\ [Fetched EXCEPT !.gate = "held"].known
BY DEF Sound, Fetched, Absent

\* SavedOver leaves a sound table, and every gate as it is.
LEMMA SaveStep ==
  ASSUME Table, NEW i \in Issues, NEW r, Sound(r), r.known, SavedOver(i, r), UNCHANGED source
  PROVE  /\ row' = [j \in Issues |-> row'[j]] /\ \A j \in Issues : Sound(row'[j])
         /\ \A j \in Issues : row[j].gate # "none" => row'[j].gate = row[j].gate
<1>1. row' = [row EXCEPT ![i] = Merged(row[i], r)]
  BY DEF SavedOver
<1>2. Sound(Merged(row[i], r)) /\ (row[i].gate # "none" => Merged(row[i], r).gate = row[i].gate)
  BY MergedKeepsGate DEF Table
<1> QED BY <1>1, <1>2 DEF Table, Sound

\* A row with another column, flag or state is as sound as before.
LEMMA Touched ==
  ASSUME NEW r, Sound(r), NEW c
  PROVE  /\ Sound(Moved(r, c)) /\ Moved(r, c).gate = r.gate
         /\ LET w == [Moved(r, c) EXCEPT !.waiting = FALSE]
            IN  Sound(w) /\ w.gate = r.gate
         /\ Sound(Closed(r)) /\ Closed(r).gate = r.gate
BY DEF Sound, Moved, Closed

\* What a step leaves of the table.
RowsKept ==
  /\ row' = [i \in Issues |-> row'[i]]
  /\ \A i \in Issues : /\ Sound(row'[i])
                       /\ row[i].gate # "none" => row'[i].gate = row[i].gate

\* One row changes and stays sound, with its gate.
LEMMA OneRow ==
  ASSUME Table, NEW i, NEW w, row' = [row EXCEPT ![i] = w],
         i \in Issues => Sound(w) /\ w.gate = row[i].gate
  PROVE  RowsKept
BY DEF Table, RowsKept

LEMMA RowsUntouched ==
  ASSUME Table, UNCHANGED row
  PROVE  RowsKept
BY DEF Table, RowsKept

-----------------------------------------------------------------------------
\* The steps of a pass.

LEMMA PassRows ==
  ASSUME IInv, NEW k \in Pullers, PassStep(k)
  PROVE  RowsKept /\ UNCHANGED <<source, rank>>
<1>0. Table /\ Copies(pull[k].rows)
  BY DEF IInv, Listings
<1>1. UNCHANGED <<source, rank>>
  BY DEF PassStep, Handle, Drain, Drained, Recompute, Prune, List, Check, Acquire, Enqueue, PullCard, world
<1>2. CASE Handle(k) \/ Drained(k) \/ Recompute(k) \/ List(k) \/ Check(k) \/ Acquire(k)
  BY <1>0, <1>1, <1>2, RowsUntouched DEF Handle, Drained, Recompute, List, Check, Acquire
<1>3. CASE Drain(k)
  <2> DEFINE i == Head(pull[k].todo)
             w == IF row[i].column = "todo" THEN Moved(row[i], "plan") ELSE row[i]
  <2>1. UNCHANGED row \/ row' = [row EXCEPT ![i] = w] \/ row' = [row EXCEPT ![i] = [w EXCEPT !.waiting = FALSE]]
    BY <1>3 DEF Drain
  <2>2. ASSUME i \in Issues PROVE Sound(w) /\ w.gate = row[i].gate
    BY <1>0, <2>2, Touched DEF Table
  <2>3. ASSUME i \in Issues
        PROVE  Sound([w EXCEPT !.waiting = FALSE]) /\ [w EXCEPT !.waiting = FALSE].gate = row[i].gate
    <3> HIDE DEF w, i
    <3> QED BY <2>2, <2>3 DEF Sound
  <2> HIDE DEF w, i
  <2> QED BY <1>0, <1>1, <2>1, <2>2, <2>3, OneRow, RowsUntouched
<1>4. CASE Prune(k)
  <2>1. CASE pull[k].rows = <<>>
    BY <1>0, <1>1, <1>4, <2>1, RowsUntouched DEF Prune
  <2>2. CASE pull[k].rows # <<>>
    <3>1. PICK i \in DOMAIN pull[k].rows : SavedOver(i, pull[k].rows[i])
      BY <1>4, <2>2 DEF Prune
    <3> QED BY <1>0, <1>1, <3>1, SaveStep DEF Copies, RowsKept
  <2> QED BY <2>1, <2>2
<1>5. CASE Enqueue(k)
  <2> DEFINE i == Head(pull[k].todo)
             w == [row[i] EXCEPT !.waiting = TRUE]
  <2>1. row' = [row EXCEPT ![i] = w]
    BY <1>5 DEF Enqueue
  <2>2. ASSUME i \in Issues PROVE Sound(w) /\ w.gate = row[i].gate
    BY <1>0, <2>2 DEF Table, Sound
  <2> HIDE DEF w, i
  <2> QED BY <1>0, <1>1, <2>1, <2>2, OneRow
<1>6. CASE PullCard(k)
  <2> DEFINE i == Head(pull[k].todo)
             w == [Moved(row[i], "plan") EXCEPT !.waiting = FALSE]
  <2>1. row' = [row EXCEPT ![i] = w]
    BY <1>6 DEF PullCard
  <2>2. ASSUME i \in Issues PROVE Sound(w) /\ w.gate = row[i].gate
    BY <1>0, <2>2, Touched DEF Table
  <2> HIDE DEF w, i
  <2> QED BY <1>0, <1>1, <2>1, <2>2, OneRow
<1> QED BY <1>2, <1>3, <1>4, <1>5, <1>6 DEF PassStep

\* Every step of a pass writes the record of that pass only.
LEMMA PassRecords ==
  ASSUME IInv, NEW k \in Pullers, PassStep(k)
  PROVE  /\ PassType' /\ Listings'
         /\ \A j \in Pullers \ {k} : pull'[j] = pull[j]
<1>0. /\ PassType /\ Wakes /\ Listings /\ Copies(pull[k].rows) /\ Table /\ UNCHANGED source
      /\ {"pc", "rows"} \subseteq DOMAIN pull[k]
  BY PassRows DEF IInv, Listings, PassType
<1> DEFINE Whole(p) == {"pc", "rows"} \subseteq DOMAIN p
<1>1. ASSUME NEW p, pull' = [pull EXCEPT ![k] = p], Whole(p), Copies(p.rows)
      PROVE  PassType' /\ Listings' /\ \A j \in Pullers \ {k} : pull'[j] = pull[j]
  <2>1. pull'[k] = p /\ (\A j \in Pullers \ {k} : pull'[j] = pull[j])
        /\ pull' = [j \in Pullers |-> pull'[j]]
    BY <1>0, <1>1 DEF PassType
  <2>2. \A j \in Pullers : Copies(pull'[j].rows)
    BY <1>0, <1>1, <2>1 DEF Listings
  <2>3. Listings'
    BY <1>0, <2>2 DEF Listings, Copies, Sound
  <2> QED BY <1>0, <1>1, <2>1, <2>3 DEF PassType
<1>2. Copies(<<>>) /\ Whole(IdlePull) /\ IdlePull.rows = <<>>
  BY DEF Copies, IdlePull
<1>3. CASE Handle(k)
  <2>1. PICK e \in DOMAIN events : pull' = [pull EXCEPT ![k] = Pass(e)]
    BY <1>3 DEF Handle
  <2>2. \E t : DrainPass = [IdlePull EXCEPT !.pc = "drain", !.todo = t]
    BY Zenon DEF DrainPass
  <2>3. Whole(DrainPass) /\ DrainPass.rows = <<>>
    BY <2>2 DEF IdlePull
  <2>4. Whole(Pass(e)) /\ Pass(e).rows = <<>>
    BY <1>0, <1>2, <2>3 DEF Pass, Wakes, IdlePull
  <2> HIDE DEF Whole
  <2> QED BY <1>1, <1>2, <2>1, <2>4
<1>4. CASE List(k)
  <2> DEFINE p == [IdlePull EXCEPT !.pc = "check", !.first = TRUE, !.todo = Pullable(row)]
  <2>1. pull' = [pull EXCEPT ![k] = p]
    BY <1>4 DEF List
  <2>2. Whole(p) /\ p.rows = <<>>
    BY DEF IdlePull
  <2> HIDE DEF p, Whole
  <2> QED BY <1>1, <1>2, <2>1, <2>2 DEF p
<1>5. CASE Recompute(k)
  <2> DEFINE listed == [i \in {j \in Issues : Listed(row[j]) /\ Pruned(row[j]) # row[j]} |-> Pruned(row[i])]
             p == [pull[k] EXCEPT !.pc = "prune", !.rows = listed]
  <2>1. pull' = [pull EXCEPT ![k] = p]
    BY <1>0, <1>5 DEF Recompute, PassType
  <2>2. Copies(listed)
    BY <1>0 DEF Table, Copies, Sound, Pruned, Listed
  <2> HIDE DEF listed
  <2>3. Whole(p) /\ p.rows = listed
    BY <1>0
  <2> HIDE DEF p
  <2> QED BY <1>1, <2>1, <2>2, <2>3
<1>6. CASE Prune(k)
  <2>1. CASE pull[k].rows = <<>>
    <3> DEFINE p == [pull[k] EXCEPT !.pc = "list"]
    <3>1. pull' = [pull EXCEPT ![k] = p]
      BY <1>0, <1>6, <2>1 DEF Prune, PassType
    <3>2. Whole(p) /\ p.rows = pull[k].rows
      BY <1>0
    <3> HIDE DEF p
    <3> QED BY <1>0, <1>1, <3>1, <3>2
  <2>2. CASE pull[k].rows # <<>>
    <3>1. PICK i \in DOMAIN pull[k].rows :
            pull' = [pull EXCEPT ![k].rows = Restrict(@, DOMAIN @ \ {i})]
      BY <1>6, <2>2 DEF Prune
    <3> DEFINE left == Restrict(pull[k].rows, DOMAIN pull[k].rows \ {i})
               p == [pull[k] EXCEPT !.rows = left]
    <3>2. pull' = [pull EXCEPT ![k] = p]
      BY <1>0, <3>1 DEF PassType
    <3>3. Copies(left)
      BY <1>0 DEF Copies, Restrict
    <3> HIDE DEF left
    <3>4. Whole(p) /\ p.rows = left
      BY <1>0
    <3> HIDE DEF p
    <3> QED BY <1>1, <3>2, <3>3, <3>4
  <2> QED BY <2>1, <2>2
<1>7. CASE Drain(k) \/ Drained(k) \/ Check(k) \/ Acquire(k) \/ Enqueue(k) \/ PullCard(k)
  <2> DEFINE p == pull'[k]
  <2>1. pull' = [pull EXCEPT ![k] = p] /\ Whole(p) /\ (p.rows = pull[k].rows \/ p.rows = <<>>)
    <3>1. CASE Drain(k)
      BY <1>0, <3>1 DEF Drain, PassType
    <3>2. CASE Drained(k)
      BY <1>0, <3>2 DEF Drained, PassType
    <3>3. CASE Check(k)
      BY <1>0, <3>3 DEF Check, PassType, IdlePull
    <3>4. CASE Acquire(k)
      BY <1>0, <3>4 DEF Acquire, PassType
    <3>5. CASE Enqueue(k)
      BY <1>0, <3>5 DEF Enqueue, PassType, IdlePull
    <3>6. CASE PullCard(k)
      BY <1>0, <3>6 DEF PullCard, PassType, IdlePull
    <3> QED BY <1>7, <3>1, <3>2, <3>3, <3>4, <3>5, <3>6
  <2> HIDE DEF p, Whole
  <2> QED BY <1>0, <1>1, <1>2, <2>1
<1> QED BY <1>3, <1>4, <1>5, <1>6, <1>7 DEF PassStep

\* A slot that a pass takes or gives up is counted elsewhere.
LEMMA PassSlots ==
  ASSUME IInv, NEW k \in Pullers, PassStep(k)
  PROVE  Balanced'
<1>0. /\ free \in Nat /\ IsFiniteSet(plans) /\ PassType /\ Wakes
      /\ free + Cardinality(plans) + Cardinality(Holding) = Slots
  BY DEF IInv, Balanced, SlotsBalanced, Holding
<1>1. IsFiniteSet(Holding) /\ Cardinality(Holding) \in Nat /\ Cardinality(plans) \in Nat
  BY <1>0, BacklogAssumption, FS_Subset, FS_CardinalityType DEF Holding
<1>2. Holding' = IF pull'[k].pc = "holding" THEN Holding \cup {k} ELSE Holding \ {k}
  BY PassRecords DEF Holding
<1>3. k \in Holding <=> pull[k].pc = "holding"
  BY DEF Holding
<1>4. /\ IsFiniteSet(Holding \cup {k}) /\ IsFiniteSet(Holding \ {k})
      /\ Cardinality(Holding \cup {k}) = IF k \in Holding THEN Cardinality(Holding) ELSE Cardinality(Holding) + 1
      /\ Cardinality(Holding \ {k}) = IF k \in Holding THEN Cardinality(Holding) - 1 ELSE Cardinality(Holding)
  BY <1>1, FS_AddElement, FS_RemoveElement
<1>5. ASSUME NEW i PROVE
        /\ IsFiniteSet(plans \cup {i})
        /\ i \notin plans => Cardinality(plans \cup {i}) = Cardinality(plans) + 1
  BY <1>0, FS_AddElement
<1>6. SUFFICES free' \in Nat /\ IsFiniteSet(plans')
               /\ free' + Cardinality(plans') + Cardinality(Holding') = Slots
  BY DEF Balanced, SlotsBalanced, Holding
<1>7. CASE Handle(k) \/ Drained(k) \/ Recompute(k) \/ Prune(k) \/ List(k) \/ Check(k) \/ Enqueue(k)
  <2>1. UNCHANGED <<free, plans>> /\ pull[k].pc # "holding"
    BY <1>7 DEF Handle, Drained, Recompute, Prune, List, Check, Enqueue
  <2>2. pull'[k].pc # "holding"
    <3>1. CASE Handle(k)
      <4>1. PICK e \in DOMAIN events : pull' = [pull EXCEPT ![k] = Pass(e)]
        BY <3>1 DEF Handle
      <4>2. \E t : DrainPass = [IdlePull EXCEPT !.pc = "drain", !.todo = t]
        BY Zenon DEF DrainPass
      <4>3. DrainPass.pc = "drain"
        BY <4>2 DEF IdlePull
      <4> QED BY <1>0, <4>1, <4>3 DEF PassType, Wakes, Pass, IdlePull
    <3>2. CASE Drained(k) \/ Prune(k)
      BY <1>0, <3>2 DEF Drained, Prune, PassType
    <3>3. CASE Recompute(k)
      BY <1>0, <3>3 DEF Recompute, PassType
    <3>4. CASE Enqueue(k)
      BY <1>0, <3>4 DEF Enqueue, PassType, IdlePull
    <3>5. CASE List(k)
      <4> DEFINE p == [IdlePull EXCEPT !.pc = "check", !.first = TRUE, !.todo = Pullable(row)]
      <4>1. pull' = [pull EXCEPT ![k] = p]
        BY <3>5 DEF List
      <4>2. p.pc = "check"
        BY DEF IdlePull
      <4> HIDE DEF p
      <4> QED BY <1>0, <4>1, <4>2 DEF PassType
    <3>6. CASE Check(k)
      BY <1>0, <3>6 DEF Check, PassType, IdlePull
    <3> QED BY <1>7, <3>1, <3>2, <3>3, <3>4, <3>5, <3>6
  <2> QED BY <1>0, <1>1, <1>2, <1>3, <1>4, <2>1, <2>2
<1>8. CASE Drain(k)
  <2> DEFINE i == Head(pull[k].todo)
  <2>1. pull[k].pc # "holding" /\ pull'[k].pc # "holding"
    BY <1>0, <1>8 DEF Drain, PassType
  <2>2. \/ UNCHANGED <<plans, free>>
        \/ free # 0 /\ i \notin plans /\ plans' = plans \cup {i} /\ free' = free - 1
    BY <1>8 DEF Drain
  <2> HIDE DEF i
  <2>3. Holding' = Holding
    BY <1>2, <1>3, <2>1
  <2>4. i \notin plans => Cardinality(plans \cup {i}) = Cardinality(plans) + 1
    BY <1>5
  <2> QED BY <1>0, <1>1, <1>5, <2>2, <2>3, <2>4
<1>9. CASE Acquire(k)
  <2>1. /\ pull[k].pc # "holding" /\ UNCHANGED plans
        /\ \/ free > 0 /\ free' = free - 1 /\ pull'[k].pc = "holding"
           \/ UNCHANGED free /\ pull'[k].pc # "holding"
    BY <1>0, <1>9 DEF Acquire, PassType
  <2> QED BY <1>0, <1>1, <1>2, <1>3, <1>4, <2>1
<1>10. CASE PullCard(k)
  <2> DEFINE i == Head(pull[k].todo)
  <2>1. /\ pull[k].pc = "holding" /\ pull'[k].pc # "holding"
        /\ \/ i \notin plans /\ plans' = plans \cup {i} /\ UNCHANGED free
           \/ UNCHANGED plans /\ free' = free + 1
    BY <1>0, <1>10 DEF PullCard, PassType, IdlePull
  <2> HIDE DEF i
  <2> QED BY <1>0, <1>1, <1>2, <1>3, <1>4, <1>5, <2>1
<1> QED BY <1>7, <1>8, <1>9, <1>10 DEF PassStep

-----------------------------------------------------------------------------
\* The other writers.

\* What the other writers leave alone.
PassesKept == UNCHANGED <<pull, plans, free>> /\ DOMAIN events' = DOMAIN events

\* The gate of a filed issue opens in one step, when the source has merged.
LEMMA OpeningStep ==
  ASSUME Table, SourceMerged
  PROVE  /\ Table'
         /\ \A i \in Issues : row'[i].gate = row[i].gate
                              \/ (row[i].gate = "held" /\ row'[i].gate = "open" /\ source' = "merged")
BY DEF SourceMerged, Table, Sound

LEMMA WriterRows ==
  ASSUME IInv,
         \/ StartRank \/ Answer \/ SaveRank \/ KickAutoPull
         \/ \E i \in Issues : \/ WorkerEnds(i) \/ PollSaves(i) \/ PollCloses(i) \/ CloseIssue(i)
                              \/ FileIssue(i) \/ SaveFiled(i)
                              \/ \E column \in DragTo : Drag(i, column)
  PROVE  RowsKept /\ UNCHANGED source
<1>0. Table /\ Ranking
  BY DEF IInv
<1>1. CASE StartRank \/ Answer \/ KickAutoPull \/ \E i \in Issues : WorkerEnds(i) \/ CloseIssue(i) \/ FileIssue(i)
  <2>1. UNCHANGED <<row, source>>
    BY <1>1 DEF StartRank, Answer, KickAutoPull, WorkerEnds, CloseIssue, FileIssue, world
  <2> QED BY <1>0, <2>1, RowsUntouched
<1>2. CASE SaveRank
  <2>1. UNCHANGED source /\ (UNCHANGED row \/ \E i \in DOMAIN rank.rows : SavedOver(i, rank.rows[i]))
    BY <1>2 DEF SaveRank, world
  <2> QED BY <1>0, <2>1, RowsUntouched, SaveStep DEF Ranking, Copies, RowsKept
<1>3. ASSUME NEW i \in Issues, PollSaves(i) \/ SaveFiled(i)
      PROVE  RowsKept /\ UNCHANGED source
  <2>1. UNCHANGED source /\ (SavedOver(i, Fetched) \/ SavedOver(i, [Fetched EXCEPT !.gate = "held"]))
    BY <1>3 DEF PollSaves, SaveFiled, world
  <2> DEFINE filed == [Fetched EXCEPT !.gate = "held"]
  <2>2. Sound(filed) /\ filed.known
    BY FetchedIsSound
  <2> HIDE DEF filed
  <2> QED BY <1>0, <2>1, <2>2, FetchedIsSound, SaveStep DEF filed, RowsKept
<1>4. ASSUME NEW i \in Issues, PollCloses(i)
      PROVE  RowsKept /\ UNCHANGED source
  BY <1>0, <1>4, Touched, OneRow DEF PollCloses, Table, world
<1>5. ASSUME NEW i \in Issues, NEW column \in DragTo, Drag(i, column)
      PROVE  RowsKept /\ UNCHANGED source
  BY <1>0, <1>5, Touched, OneRow DEF Drag, Table
<1> QED BY <1>1, <1>2, <1>3, <1>4, <1>5

\* A ranking keeps copies of sound rows, with other ranks.
LEMMA RankingSteps ==
  ASSUME IInv, StartRank \/ Answer \/ SaveRank
  PROVE  Ranking' /\ PassesKept
<1>0. Table /\ Ranking /\ UNCHANGED source
  BY WriterRows DEF IInv
<1>1. PassesKept
  BY DEF StartRank, Answer, SaveRank, PassesKept
<1>2. SUFFICES Ranking'
  BY <1>1
<1>3. ASSUME NEW rows, Copies(rows), "rows" \in DOMAIN rank', rank'.rows = rows
      PROVE  Ranking'
  BY <1>0, <1>3 DEF Ranking, Copies, Sound
<1>4. CASE rank' = IdleRank
  <2>1. Copies(<<>>)
    BY DEF Copies
  <2> QED BY <1>3, <1>4, <2>1 DEF IdleRank
<1>5. CASE StartRank
  <2> DEFINE rows == [i \in {j \in Issues : Candidate(row[j])} |-> row[i]]
  <2>1. Copies(rows)
    BY <1>0 DEF Table, Copies, Candidate, Listed
  <2>2. "rows" \in DOMAIN rank' /\ rank'.rows = rows
    BY <1>5 DEF StartRank
  <2> HIDE DEF rows
  <2> QED BY <1>3, <2>1, <2>2
<1>6. CASE Answer /\ rank' # IdleRank
  <2>1. PICK r \in Rankings : rank' = [pc |-> "saving", rows |-> [i \in DOMAIN rank.rows |->
          [rank.rows[i] EXCEPT !.prio = Priority(r, i), !.deps = r.deps[i]]]]
    BY <1>6 DEF Answer
  <2> DEFINE rows == [i \in DOMAIN rank.rows |->
          [rank.rows[i] EXCEPT !.prio = Priority(r, i), !.deps = r.deps[i]]]
  <2>2. Copies(rows)
    BY <1>0 DEF Ranking, Copies, Sound
  <2> HIDE DEF rows
  <2> QED BY <1>3, <2>1, <2>2 DEF rows
<1>7. CASE SaveRank /\ rank' # IdleRank
  <2>1. PICK i : rank' = [rank EXCEPT !.rows = Restrict(@, DOMAIN @ \ {i})]
    BY <1>7 DEF SaveRank
  <2> DEFINE rows == Restrict(rank.rows, DOMAIN rank.rows \ {i})
  <2>2. Copies(rows)
    BY <1>0 DEF Ranking, Copies, Restrict
  <2>3. "rows" \in DOMAIN rank' /\ rank'.rows = rows
    BY <1>0, <2>1 DEF Ranking
  <2> HIDE DEF rows
  <2> QED BY <1>3, <2>2, <2>3
<1> QED BY <1>4, <1>5, <1>6, <1>7

-----------------------------------------------------------------------------

\* A plan worker that ends leaves its slot free.
LEMMA EndingStep ==
  ASSUME Balanced, Wakes, NEW i \in Issues, WorkerEnds(i)
  PROVE  Balanced' /\ Wakes' /\ UNCHANGED <<pull, rank>>
<1>1. /\ i \in plans /\ plans' = plans \ {i} /\ free' = free + 1 /\ UNCHANGED <<pull, rank>>
      /\ events' = [events EXCEPT !["slot_freed"] = @ + 1]
  BY DEF WorkerEnds, Publish
<1>2. IsFiniteSet(plans \ {i}) /\ Cardinality(plans \ {i}) = Cardinality(plans) - 1
      /\ Cardinality(plans) \in Nat
  BY <1>1, FS_RemoveElement, FS_CardinalityType DEF Balanced
<1>3. Holding' = Holding /\ Cardinality(Holding) \in Nat
  <2>1. IsFiniteSet(Holding)
    BY BacklogAssumption, FS_Subset DEF Holding
  <2> QED BY <1>1, <2>1, FS_CardinalityType DEF Holding
<1>4. Slots \in Nat
  BY BacklogAssumption
<1> QED BY <1>1, <1>2, <1>3, <1>4 DEF Balanced, SlotsBalanced, Holding, Wakes

LEMMA InitInv == Init => IInv
<1> SUFFICES ASSUME Init PROVE IInv
  OBVIOUS
<1>1. Table
  BY FetchedIsSound DEF Init, Table
<1>2. Copies(<<>>)
  BY DEF Copies
<1>3. Ranking /\ Listings /\ PassType /\ Wakes
  BY <1>2 DEF Init, Ranking, IdleRank, IdlePull, Listings, PassType, Wakes
<1>4. Balanced
  <2>1. {k \in Pullers : pull[k].pc = "holding"} = {} /\ plans = {} /\ free = Slots
    BY DEF Init, IdlePull
  <2>2. IsFiniteSet({}) /\ Cardinality({}) = 0
    BY FS_EmptySet
  <2>3. Slots \in Nat
    BY BacklogAssumption
  <2>4. free \in Nat /\ IsFiniteSet(plans) /\ Cardinality(plans) = 0
        /\ Cardinality({k \in Pullers : pull[k].pc = "holding"}) = 0
    BY <2>1, <2>2, <2>3, Zenon
  <2>5. free + 0 + 0 = Slots
    BY <2>1, <2>3
  <2> QED BY <2>4, <2>5 DEF Balanced, SlotsBalanced
<1> QED BY <1>1, <1>3, <1>4 DEF IInv

\* What GateKept asks of one step.
GatesKept ==
  \A i \in Issues : row[i].gate # "none" /\ row'[i].gate # row[i].gate =>
    row[i].gate = "held" /\ row'[i].gate = "open" /\ source' = "merged"

LEMMA NextInv == IInv /\ [Next]_vars => IInv' /\ GatesKept
<1> SUFFICES ASSUME IInv, [Next]_vars PROVE IInv' /\ GatesKept
  OBVIOUS
<1>0. Table /\ Ranking /\ PassType /\ Wakes /\ Listings /\ Balanced
  BY DEF IInv
<1>1. ASSUME RowsKept, UNCHANGED source PROVE Table' /\ GatesKept
  BY <1>1 DEF RowsKept, Table, GatesKept, Sound
<1>2. ASSUME UNCHANGED pull, source' = source \/ source' = "merged" PROVE PassType' /\ Listings'
  BY <1>0, <1>2 DEF PassType, Listings, Copies, Sound
<1>3. ASSUME UNCHANGED rank, source' = source \/ source' = "merged" PROVE Ranking'
  BY <1>0, <1>3 DEF Ranking, Copies, Sound
<1>4. ASSUME UNCHANGED <<pull, plans, free>> PROVE Balanced'
  BY <1>0, <1>4 DEF Balanced, SlotsBalanced
<1>5. ASSUME NEW k \in Pullers, PassStep(k) PROVE IInv' /\ GatesKept
  <2>1. RowsKept /\ UNCHANGED <<source, rank>> /\ PassType' /\ Listings' /\ Balanced'
    BY <1>5, PassRows, PassRecords, PassSlots
  <2>2. Wakes'
    BY <1>0, <1>5 DEF PassStep, Handle, Drain, Drained, Recompute, Prune, List, Check, Acquire,
                      Enqueue, PullCard, Wakes
  <2> QED BY <1>1, <1>3, <2>1, <2>2 DEF IInv
<1>6. CASE StartRank \/ Answer \/ SaveRank
  <2>1. RowsKept /\ UNCHANGED source /\ Ranking' /\ PassesKept
    BY <1>6, WriterRows, RankingSteps
  <2> QED BY <1>0, <1>1, <1>2, <1>4, <2>1 DEF IInv, PassesKept, Wakes
<1>7. CASE SourceMerged
  <2>1. Table' /\ GatesKept
    BY <1>0, <1>7, OpeningStep DEF GatesKept
  <2>2. UNCHANGED <<rank, events, pull, plans, free>> /\ source' = "merged"
    BY <1>7 DEF SourceMerged
  <2> QED BY <1>0, <1>2, <1>3, <1>4, <2>1, <2>2 DEF IInv, Wakes
<1>8. ASSUME NEW i \in Issues, WorkerEnds(i) PROVE IInv' /\ GatesKept
  <2>1. RowsKept /\ UNCHANGED source
    BY <1>8, WriterRows
  <2>2. Balanced' /\ Wakes' /\ UNCHANGED <<pull, rank>>
    BY <1>0, <1>8, EndingStep
  <2> QED BY <1>1, <1>2, <1>3, <2>1, <2>2 DEF IInv
<1>9. ASSUME NEW i \in Issues,
             \/ PollSaves(i) \/ PollCloses(i) \/ CloseIssue(i) \/ FileIssue(i) \/ SaveFiled(i)
             \/ \E column \in DragTo : Drag(i, column)
      PROVE  IInv' /\ GatesKept
  <2>1. RowsKept /\ UNCHANGED source
    BY <1>9, WriterRows
  <2>2. UNCHANGED <<rank, pull, plans, free>> /\ DOMAIN events' = DOMAIN events
    BY <1>9 DEF PollSaves, PollCloses, CloseIssue, FileIssue, SaveFiled, Drag, Publish
  <2> QED BY <1>0, <1>1, <1>2, <1>3, <1>4, <2>1, <2>2 DEF IInv, Wakes
<1>10. CASE UNCHANGED vars
  <2>1. UNCHANGED <<row, source, rank, events, pull, plans, free>>
    BY <1>10 DEF vars
  <2>2. RowsKept
    BY <1>0, <2>1, RowsUntouched
  <2> QED BY <1>0, <1>1, <1>2, <1>3, <1>4, <2>1, <2>2 DEF IInv, Wakes
<1>11. CASE KickAutoPull
  <2>1. RowsKept /\ UNCHANGED source
    BY <1>11, WriterRows
  <2>2. UNCHANGED <<rank, pull, plans, free>> /\ DOMAIN events' = DOMAIN events
    BY <1>11 DEF KickAutoPull, Publish
  <2> QED BY <1>0, <1>1, <1>2, <1>3, <1>4, <2>1, <2>2 DEF IInv, Wakes
<1> QED BY <1>5, <1>6, <1>7, <1>8, <1>9, <1>10, <1>11 DEF Next

-----------------------------------------------------------------------------

\* In every reachable state the table and the listed copies are sound, and every
\* plan slot is free, with a worker or with a pass.
THEOREM BacklogInvariance == Spec => []IInv
BY InitInv, NextInv, PTL DEF Spec

\* For any number of issues, passes and slots: whatever way a pass ends, no plan
\* slot is lost and none is given twice (autoPull, drainPendingPools).
THEOREM PlanSlotsBalance == Spec => []SlotsBalanced
<1>1. IInv => SlotsBalanced
  BY DEF IInv, Balanced
<1> QED BY <1>1, BacklogInvariance, PTL

\* For any number of issues and any listings: a gate opens when the source merges and
\* no save of an older copy touches it (SaveIssue, ClearExternalDep).
THEOREM GatesHold == Spec => GateKept
<1>1. IInv /\ [Next]_vars => [GatesKept]_vars
  BY NextInv
<1>2. Spec => [][GatesKept]_vars
  BY <1>1, BacklogInvariance, PTL DEF Spec
<1>3. [GatesKept]_vars =>
        [\A i \in Issues : LET old == row[i].gate
                               new == row'[i].gate
                           IN old # "none" /\ new # old => old = "held" /\ new = "open" /\ source' = "merged"]_vars
  BY DEF GatesKept
<1> QED BY <1>2, <1>3, PTL DEF GateKept

-----------------------------------------------------------------------------
(***************************************************************************)
(* The same table under the polls of GitHub (module Board).  A poll writes *)
(* what it has read before, so it matters whose PR a copy carries: the     *)
(* invariant says that it is one of the card's own branch, and GitHub      *)
(* lets at most one of those be open.  Hence a PR that a poll attaches     *)
(* replaces none that is open (AttachedSpares), and the rest is what each  *)
(* writer keeps of a row.                                                  *)
(***************************************************************************)
PollRecs == [pc : {"idle", "list", "work"}, save : SUBSET Issues,
             saving : Issues \cup {Board!Nobody}, read : Board!Rows, close : SUBSET Issues,
             probe : [Issues -> PRs \cup {Board!NoPR}],
             needy : SUBSET Issues, orphan : SUBSET Issues]

\* A row of card i: a PR it has is of a branch of i.
OfCard(i, r) == r \in Board!Rows /\ (r.pr # Board!NoPR => OwnerOf[r.pr] = i)

CardTable == cards = [i \in Issues |-> cards[i]] /\ \A i \in Issues : OfCard(i, cards[i])

\* What a poll keeps, and the row that it has read and not yet written.
PollOK(q) == q \in PollRecs /\ (q.saving # Board!Nobody => OfCard(q.saving, q.read))

PollsSound == poll = [k \in Polls |-> poll[k]] /\ \A k \in Polls : PollOK(poll[k])

\* GitHub lets one open PR be made of a branch.
HubSound ==
  /\ issue \in [Issues -> {"open", "closed"}]
  /\ pulls \in [PRs -> {"unborn", "open", "merged", "closed"}]
  /\ \A p, q \in PRs :
       OwnerOf[p] = OwnerOf[q] /\ pulls[p] = "open" /\ pulls[q] = "open" => p = q

RestSound ==
  /\ parked \subseteq Issues /\ failed \subseteq Issues /\ lost \subseteq Issues
  /\ stirs \in 0..MaxAsks /\ slips \in 0..MaxFaults

BoardInv == Board!BoardAssumption /\ CardTable /\ PollsSound /\ HubSound /\ RestSound

LEMMA BoardInvTypes == BoardInv => Board!TypeOK
<1> SUFFICES ASSUME BoardInv PROVE Board!TypeOK
  OBVIOUS
<1>1. cards \in [Issues -> Board!Rows]
  BY DEF BoardInv, CardTable, OfCard
<1>2. poll \in [Polls -> PollRecs]
  BY DEF BoardInv, PollsSound, PollOK
<1> QED BY <1>1, <1>2 DEF BoardInv, PollRecs, HubSound, RestSound, Board!TypeOK

\* What UpsertIssue's COALESCEs make of a fetched row.
Filled(f, c, a, z, p, n, w, g, x) ==
    [f EXCEPT !.column = c, !.archived = a, !.closedAt = z, !.pr = p, !.needsPR = n,
              !.waiting = w, !.gate = g, !.waitsFor = x]

\* A row filled with what another row holds is a row.
LEMMA FilledRow ==
  ASSUME NEW f \in Board!Rows, NEW c \in Board!Columns, NEW a \in BOOLEAN, NEW z \in BOOLEAN,
         NEW p \in PRs \cup {Board!NoPR}, NEW n \in BOOLEAN, NEW w \in BOOLEAN,
         NEW g \in {"none"}, NEW x \in {Board!NoDep}
  PROVE  Filled(f, c, a, z, p, n, w, g, x) \in Board!Rows
BY DEF Board!Rows, Filled

\* What each writer of a row makes of a card's row.
LEMMA WritersKeepCard ==
  ASSUME NEW i \in Issues, NEW r, OfCard(i, r)
  PROVE  /\ OfCard(i, Board!Merged(r, Board!Fetched)) /\ OfCard(i, Board!Closed(r))
         /\ OfCard(i, Board!PRMerged(r)) /\ OfCard(i, Board!PRClosedUnmerged(r))
         /\ OfCard(i, Board!NeedsPR(r))
         /\ \A c \in Board!Columns : OfCard(i, Board!Moved(r, c))
         /\ \A w \in BOOLEAN : OfCard(i, [Board!Moved(r, "in_progress") EXCEPT !.waiting = w])
         /\ OfCard(i, Board!ArchivedDone(r)) /\ OfCard(i, Board!ArchivedByAge(r))
         /\ OfCard(i, Board!Unarchived(r))
         /\ OfCard(i, Board!Healed(r))
         /\ \A p \in PRs : OwnerOf[p] = i => OfCard(i, Board!PROpened(r, p))
<1> USE DEF OfCard, Board!Rows, Board!Columns
<1>1. OfCard(i, Board!Merged(r, Board!Fetched))
  <2>1. CASE ~r.known
    BY <2>1 DEF Board!Merged, Board!Fetched
  <2>2. CASE r.known
    <3> DEFINE column   == r.column
               archived == r.archived
               closedAt == r.closedAt
               pr       == IF r.pr # Board!NoPR THEN r.pr ELSE Board!Fetched.pr
               needs    == r.needsPR \/ Board!Fetched.needsPR
               waits    == r.waiting \/ Board!Fetched.waiting
               gate     == IF r.gate # "none" THEN r.gate ELSE Board!Fetched.gate
               wait     == IF r.waitsFor # Board!NoDep THEN r.waitsFor ELSE Board!Fetched.waitsFor
               m        == Filled(Board!Fetched, column, archived, closedAt, pr, needs, waits,
                                  gate, wait)
    <3>1. needs \in BOOLEAN /\ waits \in BOOLEAN
      OBVIOUS
    <3>2. pr = r.pr /\ gate = "none" /\ wait = Board!NoDep
      BY DEF Board!Fetched
    <3>3. Board!Merged(r, Board!Fetched) = m
      BY <2>2 DEF Board!Merged, Filled
    <3>4. Board!Fetched \in Board!Rows
      BY DEF Board!Fetched
    <3>5. /\ column \in Board!Columns /\ archived \in BOOLEAN /\ closedAt \in BOOLEAN
          /\ r.pr \in PRs \cup {Board!NoPR} /\ (r.pr # Board!NoPR => OwnerOf[r.pr] = i)
      OBVIOUS
    <3> HIDE DEF column, archived, closedAt, pr, needs, waits, gate, wait, Board!Columns, OfCard
    <3>6. pr \in PRs \cup {Board!NoPR} /\ gate \in {"none"} /\ wait \in {Board!NoDep}
      BY ONLY <3>2, <3>5
    <3>8. m \in Board!Rows
      <4> HIDE DEF Board!Rows
      <4> QED BY ONLY <3>1, <3>4, <3>5, <3>6, FilledRow
    <3>p. m.pr = pr
      BY <3>4 DEF Board!Rows, Filled
    <3>7. OfCard(i, m)
      BY ONLY <3>2, <3>5, <3>8, <3>p DEF OfCard
    <3> QED BY <3>3, <3>7
  <2> QED BY <2>1, <2>2
<1>2. OfCard(i, Board!Closed(r))
  BY DEF Board!Closed
<1>3. /\ OfCard(i, Board!PRMerged(r)) /\ OfCard(i, Board!PRClosedUnmerged(r))
      /\ OfCard(i, Board!NeedsPR(r))
  BY DEF Board!PRMerged, Board!PRClosedUnmerged, Board!NeedsPR
<1>4. \A c \in Board!Columns : OfCard(i, Board!Moved(r, c))
  BY DEF Board!Moved
<1>5. \A w \in BOOLEAN : OfCard(i, [Board!Moved(r, "in_progress") EXCEPT !.waiting = w])
  BY DEF Board!Moved
<1>6. OfCard(i, Board!ArchivedDone(r)) /\ OfCard(i, Board!Unarchived(r))
  <2>1. OfCard(i, [r EXCEPT !.archived = TRUE]) /\ OfCard(i, [r EXCEPT !.archived = FALSE])
    OBVIOUS
  <2> HIDE DEF OfCard, Board!Rows
  <2> QED BY <2>1 DEF Board!ArchivedDone, Board!Unarchived
<1>7. OfCard(i, Board!ArchivedByAge(r))
  BY <1>6 DEF Board!ArchivedByAge
<1>8. OfCard(i, Board!Healed(r))
  <2> DEFINE c == IF Board!Listed(r) /\ r.state = "closed" THEN Board!Closed(r) ELSE r
  <2>1. OfCard(i, c)
    BY <1>2
  <2>2. Board!Healed(r) =
          IF c.column \in {"review", "done"} THEN [c EXCEPT !.waiting = FALSE] ELSE c
    BY DEF Board!Healed
  <2> HIDE DEF c
  <2>3. OfCard(i, [c EXCEPT !.waiting = FALSE])
    BY <2>1
  <2> QED BY ONLY <2>1, <2>2, <2>3
<1>9. \A p \in PRs : OwnerOf[p] = i => OfCard(i, Board!PROpened(r, p))
  BY DEF Board!PROpened
<1> QED BY <1>1, <1>2, <1>3, <1>4, <1>5, <1>6, <1>7, <1>8, <1>9

LEMMA AbsentIsRow == Board!Absent \in Board!Rows /\ Board!Absent.pr = Board!NoPR
BY DEF Board!Absent, Board!Fetched, Board!Rows, Board!Columns

LEMMA IdleIsSound == PollOK(Board!Idle)
BY AbsentIsRow DEF Board!Idle, PollRecs, PollOK

LEMMA BoardStarts == Board!BoardAssumption /\ Board!Init => BoardInv
<1> SUFFICES ASSUME Board!BoardAssumption, Board!Init PROVE BoardInv
  OBVIOUS
<1>2. CardTable
  BY AbsentIsRow DEF Board!Init, CardTable, OfCard
<1>4. PollsSound
  BY IdleIsSound DEF Board!Init, PollsSound
<1>5. HubSound /\ RestSound
  BY DEF Board!BoardAssumption, Board!Init, HubSound, RestSound
<1> QED BY <1>2, <1>4, <1>5 DEF BoardInv

\* One card is written.
LEMMA CardWritten ==
  ASSUME CardTable, NEW i \in Issues, NEW r, OfCard(i, r), cards' = [cards EXCEPT ![i] = r]
  PROVE  CardTable' /\ \A j \in Issues \ {i} : cards'[j] = cards[j]
BY DEF CardTable, OfCard

LEMMA PollMoves ==
  ASSUME PollsSound, NEW k \in Polls, NEW q, PollOK(q), poll' = [poll EXCEPT ![k] = q]
  PROVE  PollsSound'
BY DEF PollsSound

\* What a poll owes the cards it writes.
SparesCard(i) ==
  cards[i].known =>
    /\ cards[i].archived => cards'[i].archived
    /\ cards[i].pr # Board!NoPR /\ pulls[cards[i].pr] = "open" => cards'[i].pr = cards[i].pr
    /\ cards'[i].column # cards[i].column => cards'[i].column \in {"review", "done"}

LEMMA AttachedSpares ==
  ASSUME BoardInv, NEW i \in Issues, Board!Attached(i),
         \A j \in Issues : j # i => cards'[j] = cards[j]
  PROVE  CardTable' /\ \A j \in Issues : SparesCard(j)
<1> USE DEF BoardInv
<1>1. CASE Board!OpenPRs(i) = {}
  <2>1. cards' = cards
    BY <1>1 DEF Board!Attached
  <2> QED BY <2>1 DEF CardTable, OfCard, SparesCard
<1>2. CASE Board!OpenPRs(i) # {}
  <2>1. PICK p \in Board!OpenPRs(i) : cards' = [cards EXCEPT ![i] = Board!PROpened(cards[i], p)]
    BY <1>2 DEF Board!Attached
  <2>2. p \in PRs /\ OwnerOf[p] = i /\ pulls[p] = "open"
    BY DEF Board!OpenPRs
  <2>3. OfCard(i, cards[i]) /\ OfCard(i, Board!PROpened(cards[i], p))
    BY <2>2, WritersKeepCard DEF CardTable
  <2>4. CardTable' /\ \A j \in Issues \ {i} : cards'[j] = cards[j]
    BY <2>1, <2>3, CardWritten
  <2>5. cards'[i] = Board!PROpened(cards[i], p)
    BY <2>1 DEF CardTable
  <2>6. cards[i].pr # Board!NoPR /\ pulls[cards[i].pr] = "open" => cards[i].pr = p
    BY <2>2, <2>3 DEF HubSound, OfCard, Board!Rows
  <2>7. SparesCard(i)
    BY <2>3, <2>5, <2>6 DEF SparesCard, Board!PROpened, OfCard, Board!Rows
  <2>8. \A j \in Issues \ {i} : SparesCard(j)
    BY <2>4 DEF SparesCard
  <2> QED BY <2>4, <2>7, <2>8
<1> QED BY <1>1, <1>2

LEMMA SaveSpares ==
  ASSUME BoardInv, NEW k \in Polls, Board!SaveWrite(k)
  PROVE  BoardInv' /\ \A i \in Issues \ lost' : SparesCard(i)
<1> USE DEF BoardInv
<1> DEFINE i == poll[k].saving
           r == poll[k].read
<1>1. i \in Issues /\ OfCard(i, r)
  BY DEF Board!SaveWrite, PollsSound, PollOK, PollRecs
<1>2. OfCard(i, Board!Merged(r, Board!Fetched))
  BY <1>1, WritersKeepCard
<1>3. CardTable' /\ \A j \in Issues \ {i} : cards'[j] = cards[j]
  BY <1>1, <1>2, CardWritten DEF Board!SaveWrite
<1>4. PollsSound'
  <2> DEFINE q == [poll[k] EXCEPT !.saving = Board!Nobody, !.read = Board!Absent,
                                  !.save = @ \ {i}]
  <2>1. poll' = [poll EXCEPT ![k] = q]
    BY DEF Board!SaveWrite
  <2>2. PollOK(q)
    BY AbsentIsRow DEF PollsSound, PollOK, PollRecs
  <2> HIDE DEF q
  <2> QED BY <2>1, <2>2, PollMoves
<1>5. HubSound' /\ RestSound'
  BY <1>1 DEF Board!SaveWrite, Board!hubVars, HubSound, RestSound
<1>6. i \notin lost' => SparesCard(i)
  <2> SUFFICES ASSUME i \notin lost' PROVE SparesCard(i)
    OBVIOUS
  <2>1. cards[i] = r /\ cards'[i] = Board!Merged(cards[i], Board!Fetched)
    BY <1>1 DEF Board!SaveWrite, CardTable
  <2> HIDE DEF i, r
  <2> QED BY <1>1, <2>1 DEF SparesCard, Board!Merged, Board!Fetched, OfCard, Board!Rows
<1>7. \A j \in Issues \ {i} : SparesCard(j)
  BY <1>3 DEF SparesCard
<1> QED BY <1>3, <1>4, <1>5, <1>6, <1>7

LEMMA CloseSpares ==
  ASSUME BoardInv, NEW k \in Polls, Board!CloseMissing(k)
  PROVE  BoardInv' /\ \A i \in Issues : SparesCard(i)
<1> USE DEF BoardInv
<1>1. PICK i \in poll[k].close : /\ cards' = [cards EXCEPT ![i] = Board!Closed(cards[i])]
                                 /\ poll' = [poll EXCEPT ![k].close = @ \ {i}]
  BY DEF Board!CloseMissing
<1>2. i \in Issues
  BY <1>1 DEF PollsSound, PollOK, PollRecs
<1>3. OfCard(i, cards[i]) /\ OfCard(i, Board!Closed(cards[i]))
  BY <1>2, WritersKeepCard DEF CardTable
<1>4. CardTable' /\ \A j \in Issues \ {i} : cards'[j] = cards[j]
  BY <1>1, <1>2, <1>3, CardWritten
<1>5. PollsSound'
  <2> DEFINE q == [poll[k] EXCEPT !.close = @ \ {i}]
  <2>1. poll' = [poll EXCEPT ![k] = q]
    BY <1>1
  <2>2. PollOK(q)
    BY DEF PollsSound, PollOK, PollRecs
  <2> HIDE DEF q
  <2> QED BY <2>1, <2>2, PollMoves
<1>6. HubSound' /\ RestSound'
  BY DEF Board!CloseMissing, Board!hubVars, HubSound, RestSound
<1>7. cards'[i] = Board!Closed(cards[i])
  BY <1>1, <1>2 DEF CardTable
<1>8. SparesCard(i)
  BY <1>3, <1>7 DEF SparesCard, Board!Closed, OfCard, Board!Rows
<1>9. \A j \in Issues \ {i} : SparesCard(j)
  BY <1>4 DEF SparesCard
<1> QED BY <1>4, <1>5, <1>6, <1>8, <1>9

LEMMA ProbeSpares ==
  ASSUME BoardInv, NEW k \in Polls, Board!ProbePR(k)
  PROVE  BoardInv' /\ \A i \in Issues \ lost' : SparesCard(i)
<1> USE DEF BoardInv
<1>1. PICK i \in Board!Probes(k) :
        LET p == poll[k].probe[i]
        IN  /\ \/ /\ pulls[p] = "merged"
                  /\ cards' = [cards EXCEPT ![i] = Board!PRMerged(@)]
                  /\ parked' = parked \ {i}
                  /\ lost' = IF cards[i].pr = p THEN lost ELSE lost \cup {i}
               \/ /\ pulls[p] = "closed"
                  /\ cards' = [cards EXCEPT ![i] = Board!PRClosedUnmerged(@)]
                  /\ parked' = parked \ {i}
                  /\ lost' = IF cards[i].pr = p THEN lost ELSE lost \cup {i}
               \/ pulls[p] = "open" /\ UNCHANGED <<cards, parked, lost>>
            /\ poll' = [poll EXCEPT ![k].probe[i] = Board!NoPR]
  BY DEF Board!ProbePR
<1> DEFINE p == poll[k].probe[i]
<1>2. i \in Issues
  BY <1>1 DEF Board!Probes
<1>3. /\ OfCard(i, cards[i]) /\ OfCard(i, Board!PRMerged(cards[i]))
      /\ OfCard(i, Board!PRClosedUnmerged(cards[i]))
  BY <1>2, WritersKeepCard DEF CardTable
<1>4. PollsSound'
  <2> DEFINE q == [poll[k] EXCEPT !.probe[i] = Board!NoPR]
  <2>1. poll' = [poll EXCEPT ![k] = q]
    BY <1>1
  <2>2. PollOK(q)
    BY DEF PollsSound, PollOK, PollRecs
  <2> HIDE DEF q
  <2> QED BY <2>1, <2>2, PollMoves
<1>5. HubSound' /\ RestSound'
  BY <1>1, <1>2 DEF Board!ProbePR, Board!hubVars, HubSound, RestSound
<1>6. CASE /\ pulls[p] \in {"merged", "closed"}
           /\ cards' = [cards EXCEPT ![i] = Board!PRMerged(cards[i])]
              \/ cards' = [cards EXCEPT ![i] = Board!PRClosedUnmerged(cards[i])]
           /\ lost' = IF cards[i].pr = p THEN lost ELSE lost \cup {i}
  <2>1. CardTable' /\ \A j \in Issues \ {i} : cards'[j] = cards[j]
    BY <1>2, <1>3, <1>6, CardWritten
  <2>2. cards'[i] \in {Board!PRMerged(cards[i]), Board!PRClosedUnmerged(cards[i])}
    BY <1>2, <1>6 DEF CardTable
  <2>3. i \notin lost' => pulls[cards[i].pr] # "open"
    BY <1>6
  <2>4. i \notin lost' => SparesCard(i)
    <3>1. CASE cards'[i] = Board!PRMerged(cards[i])
      BY <1>3, <2>3, <3>1 DEF SparesCard, Board!PRMerged, OfCard, Board!Rows
    <3>2. CASE cards'[i] = Board!PRClosedUnmerged(cards[i])
      BY <1>3, <2>3, <3>2 DEF SparesCard, Board!PRClosedUnmerged, OfCard, Board!Rows
    <3> QED BY <2>2, <3>1, <3>2
  <2>5. \A j \in Issues \ {i} : SparesCard(j)
    BY <2>1 DEF SparesCard
  <2> QED BY <1>4, <1>5, <2>1, <2>4, <2>5
<1>7. CASE cards' = cards
  BY <1>4, <1>5, <1>7 DEF CardTable, SparesCard
<1> QED BY <1>1, <1>6, <1>7

LEMMA AttachSpares ==
  ASSUME BoardInv, NEW k \in Polls, Board!AttachNeedsPR(k) \/ Board!AttachOrphan(k)
  PROVE  BoardInv' /\ \A i \in Issues : SparesCard(i)
<1> USE DEF BoardInv
<1>1. \E i \in Issues : Board!Attached(i) \/ UNCHANGED cards
  BY DEF Board!AttachNeedsPR, Board!AttachOrphan, PollsSound, PollOK, PollRecs
<1>2. ASSUME UNCHANGED cards PROVE CardTable' /\ \A i \in Issues : SparesCard(i)
  BY <1>2 DEF CardTable, SparesCard
<1>3. ASSUME NEW i \in Issues, Board!Attached(i)
      PROVE  CardTable' /\ \A j \in Issues : SparesCard(j)
  <2>1. \A j \in Issues : j # i => cards'[j] = cards[j]
    BY <1>3 DEF Board!Attached, CardTable
  <2> QED BY <1>3, <2>1, AttachedSpares
<1>4. PollsSound'
  <2>1. PICK i : \/ poll' = [poll EXCEPT ![k] = [poll[k] EXCEPT !.needy = @ \ {i}]]
                 \/ poll' = [poll EXCEPT ![k] = [poll[k] EXCEPT !.orphan = @ \ {i}]]
    BY DEF Board!AttachNeedsPR, Board!AttachOrphan
  <2>2. /\ PollOK([poll[k] EXCEPT !.needy = @ \ {i}])
        /\ PollOK([poll[k] EXCEPT !.orphan = @ \ {i}])
    BY DEF PollsSound, PollOK, PollRecs
  <2> QED BY <2>1, <2>2, PollMoves
<1>5. HubSound' /\ RestSound'
  BY DEF Board!AttachNeedsPR, Board!AttachOrphan, Board!hubVars, HubSound, RestSound
<1> QED BY <1>1, <1>2, <1>3, <1>4, <1>5

LEMMA RowsUnread ==
  ASSUME BoardInv, NEW k \in Polls,
         Board!FetchOpenIssues(k) \/ Board!ListIssues(k) \/ Board!SaveRead(k) \/ Board!Finish(k)
  PROVE  BoardInv' /\ \A i \in Issues : SparesCard(i)
<1> USE DEF BoardInv
<1>1. CardTable' /\ HubSound' /\ RestSound' /\ cards' = cards
  BY DEF Board!FetchOpenIssues, Board!ListIssues, Board!SaveRead, Board!Finish, Board!hubVars,
         CardTable, HubSound, RestSound
<1>q. PollOK(poll[k])
  BY DEF PollsSound
<1>2. ASSUME Board!FetchOpenIssues(k) PROVE PollsSound'
  <2> DEFINE q == [poll[k] EXCEPT !.pc = "list", !.save = {i \in Issues : issue[i] = "open"}]
  <2>1. poll' = [poll EXCEPT ![k] = q]
    BY <1>2 DEF Board!FetchOpenIssues
  <2>2. PollOK(q)
    BY <1>q DEF PollOK, PollRecs
  <2> HIDE DEF q
  <2> QED BY <2>1, <2>2, PollMoves
<1>3. ASSUME Board!ListIssues(k) PROVE PollsSound'
  <2>1. Board!InReview \in [Issues -> PRs \cup {Board!NoPR}]
    BY DEF Board!InReview, CardTable, OfCard, Board!Rows
  <2>2. Board!Missing(poll[k].save) \subseteq Issues /\ Board!WithoutPR \subseteq Issues
    BY DEF Board!Missing, Board!WithoutPR
  <2> DEFINE q == [poll[k] EXCEPT !.pc = "work", !.close = Board!Missing(poll[k].save),
                     !.probe = Board!InReview,
                     !.needy = {i \in Board!WithoutPR : cards[i].needsPR},
                     !.orphan = {i \in Board!WithoutPR : ~cards[i].needsPR}]
  <2>3. poll' = [poll EXCEPT ![k] = q]
    BY <1>3 DEF Board!ListIssues
  <2>4. PollOK(q)
    BY <1>q, <2>1, <2>2 DEF PollOK, PollRecs
  <2> HIDE DEF q
  <2> QED BY <2>3, <2>4, PollMoves
<1>4. ASSUME Board!SaveRead(k) PROVE PollsSound'
  <2>1. PICK i \in poll[k].save :
          poll' = [poll EXCEPT ![k] = [poll[k] EXCEPT !.saving = i, !.read = cards[i]]]
    BY <1>4 DEF Board!SaveRead
  <2>2. i \in Issues /\ OfCard(i, cards[i]) /\ cards[i] \in Board!Rows
    BY <1>q DEF PollOK, PollRecs, CardTable, OfCard
  <2>3. PollOK([poll[k] EXCEPT !.saving = i, !.read = cards[i]])
    BY <1>q, <2>2 DEF PollOK, PollRecs
  <2> QED BY <2>1, <2>3, PollMoves
<1>5. ASSUME Board!Finish(k) PROVE PollsSound'
  BY <1>5, IdleIsSound, PollMoves DEF Board!Finish
<1>6. PollsSound'
  BY <1>2, <1>3, <1>4, <1>5
<1> QED BY <1>1, <1>6 DEF SparesCard

LEMMA PollStepSpares ==
  ASSUME BoardInv, NEW k \in Polls, Board!PollStep(k)
  PROVE  BoardInv' /\ \A i \in Issues \ lost' : SparesCard(i)
BY RowsUnread, SaveSpares, CloseSpares, ProbeSpares, AttachSpares DEF Board!PollStep

\* Everybody else.
LEMMA OthersKeep ==
  ASSUME BoardInv, Board!Next, \A k \in Polls : ~Board!PollStep(k)
  PROVE  BoardInv'
<1> USE DEF BoardInv, Board!BoardAssumption
<1>c. ASSUME NEW i \in Issues, NEW r, OfCard(i, r), cards' = [cards EXCEPT ![i] = r],
             poll' = poll, HubSound', RestSound'
      PROVE  BoardInv'
  BY <1>c, CardWritten DEF PollsSound
<1>p. \A i \in Issues : OfCard(i, cards[i])
  BY DEF CardTable
<1>1. ASSUME NEW k \in Polls, Board!CallFails(k)
      PROVE  BoardInv'
  <2>1. PollsSound'
    <3>1. PICK i : \/ /\ i \in Issues
                      /\ poll' = [poll EXCEPT ![k] = [poll[k] EXCEPT !.probe[i] = Board!NoPR]]
                   \/ poll' = [poll EXCEPT ![k] = [poll[k] EXCEPT !.needy = @ \ {i}]]
                   \/ poll' = [poll EXCEPT ![k] = [poll[k] EXCEPT !.orphan = @ \ {i}]]
      BY <1>1 DEF Board!CallFails, Board!Probes
    <3>2. /\ PollOK([poll[k] EXCEPT !.probe[i] = Board!NoPR])
          /\ PollOK([poll[k] EXCEPT !.needy = @ \ {i}])
          /\ PollOK([poll[k] EXCEPT !.orphan = @ \ {i}])
      BY DEF PollsSound, PollOK, PollRecs
    <3> QED BY <3>1, <3>2, PollMoves
  <2> QED BY <1>1, <2>1 DEF Board!CallFails, Board!hubVars, CardTable, HubSound, RestSound
<1>2. ASSUME NEW i \in Issues,
             Board!ReopenIssue(i) \/ Board!CloseIssue(i) \/ Board!ExecuteFailed(i)
      PROVE  BoardInv'
  BY <1>2 DEF Board!ReopenIssue, Board!CloseIssue, Board!ExecuteFailed, Board!Ask,
              Board!hubVars, CardTable,
                               PollsSound, HubSound, RestSound
<1>3. ASSUME NEW i \in Issues, Board!HandleNeedsPR(i)
      PROVE  BoardInv'
  <2>1. OfCard(i, Board!NeedsPR(cards[i]))
    BY <1>p, WritersKeepCard
  <2>2. HubSound' /\ RestSound'
    BY <1>3 DEF Board!HandleNeedsPR, Board!Ask, Board!hubVars, HubSound, RestSound
  <2> QED BY <1>3, <1>c, <2>1, <2>2 DEF Board!HandleNeedsPR
<1>4. ASSUME NEW i \in Issues, Board!ApproveQueued(i) \/ Board!DrainServes(i)
      PROVE  BoardInv'
  <2>1. \A w \in BOOLEAN :
          OfCard(i, [Board!Moved(cards[i], "in_progress") EXCEPT !.waiting = w])
    BY <1>p, WritersKeepCard
  <2>2. HubSound' /\ RestSound'
    BY <1>4 DEF Board!ApproveQueued, Board!DrainServes, Board!Ask, Board!hubVars, HubSound,
                RestSound
  <2> QED BY <1>4, <1>c, <2>1, <2>2 DEF Board!ApproveQueued, Board!DrainServes
<1>5. ASSUME NEW i \in Issues, Board!Unarchive(i)
      PROVE  BoardInv'
  <2>1. OfCard(i, Board!Unarchived(cards[i]))
    BY <1>p, WritersKeepCard
  <2>2. HubSound' /\ RestSound'
    BY <1>5 DEF Board!Unarchive, Board!hubVars, HubSound, RestSound
  <2> QED BY <1>5, <1>c, <2>1, <2>2 DEF Board!Unarchive
<1>6. ASSUME NEW i \in Issues, NEW column \in DragTo, Board!Drag(i, column)
      PROVE  BoardInv'
  <2>1. OfCard(i, Board!Moved(cards[i], column))
    BY <1>p, WritersKeepCard
  <2>2. HubSound' /\ RestSound'
    BY <1>6 DEF Board!Drag, Board!Ask, Board!hubVars, HubSound, RestSound
  <2> QED BY <1>6, <1>c, <2>1, <2>2 DEF Board!Drag
<1>7. ASSUME NEW p \in PRs, Board!OpenPR(p) \/ Board!OpenOrphanPR(p)
      PROVE  BoardInv'
  <2>1. /\ pulls' = [pulls EXCEPT ![p] = "open"] /\ issue' = issue
        /\ Board!OpenPRs(OwnerOf[p]) = {}
    BY <1>7 DEF Board!OpenPR, Board!OpenOrphanPR
  <2>2. HubSound'
    BY <2>1 DEF HubSound, Board!OpenPRs
  <2>3. RestSound' /\ poll' = poll
    BY <1>7 DEF Board!OpenPR, Board!OpenOrphanPR, RestSound
  <2>4. OwnerOf[p] \in Issues /\ OfCard(OwnerOf[p], Board!PROpened(cards[OwnerOf[p]], p))
    BY <1>p, WritersKeepCard
  <2>5. \/ cards' = cards
        \/ cards' = [cards EXCEPT ![OwnerOf[p]] = Board!PROpened(cards[OwnerOf[p]], p)]
    BY <1>7 DEF Board!OpenPR, Board!OpenOrphanPR
  <2> QED BY <1>c, <2>2, <2>3, <2>4, <2>5 DEF CardTable, PollsSound
<1>8. ASSUME NEW p \in PRs, Board!MergePR(p) \/ Board!ClosePR(p)
      PROVE  BoardInv'
  <2>1. HubSound'
    BY <1>8 DEF Board!MergePR, Board!ClosePR, HubSound
  <2> QED BY <1>8, <2>1 DEF Board!MergePR, Board!ClosePR, CardTable, PollsSound, RestSound
<1>9. ASSUME NEW p \in PRs, Board!HandlePROpened(p) \/ Board!AttachManualPR(p)
      PROVE  BoardInv'
  <2>1. OwnerOf[p] \in Issues /\ OfCard(OwnerOf[p], Board!PROpened(cards[OwnerOf[p]], p))
    BY <1>p, WritersKeepCard
  <2>2. HubSound' /\ RestSound'
    BY <1>9 DEF Board!HandlePROpened, Board!AttachManualPR, Board!AttachPR, Board!Ask,
                Board!hubVars, HubSound, RestSound
  <2> QED BY <1>9, <1>c, <2>1, <2>2 DEF Board!HandlePROpened, Board!AttachManualPR,
                                        Board!AttachPR
<1>10. CASE Board!Archive
  <2>1. CardTable'
    BY <1>10, <1>p, WritersKeepCard DEF Board!Archive, CardTable
  <2> QED BY <1>10, <2>1 DEF Board!Archive, Board!Ask, Board!hubVars, PollsSound, HubSound,
                             RestSound
<1>11. CASE Board!Restart
  <2>1. CardTable'
    BY <1>11, <1>p, WritersKeepCard DEF Board!Restart, CardTable
  <2>3. PollsSound'
    BY <1>11, IdleIsSound DEF Board!Restart, PollsSound
  <2> QED BY <1>11, <2>1, <2>3 DEF Board!Restart, Board!hubVars, HubSound, RestSound
<1> QED BY <1>1, <1>2, <1>3, <1>4, <1>5, <1>6, <1>7, <1>8, <1>9, <1>10, <1>11 DEF Board!Next

LEMMA BoardStep ==
  BoardInv /\ [Board!Next]_(Board!vars) =>
    /\ BoardInv'
    /\ [\A k \in Polls : Board!PollStep(k) =>
          \A i \in Issues \ lost' : SparesCard(i)]_(Board!vars)
<1>1. ASSUME BoardInv, UNCHANGED Board!vars PROVE BoardInv'
  BY <1>1 DEF Board!vars, Board!hubVars, BoardInv, CardTable, PollsSound, HubSound, RestSound
<1> QED BY <1>1, PollStepSpares, OthersKeep

\* Every row stays well-formed; the PR of a card, and of a copy that a poll has yet to write,
\* is one of the card's own branch.
THEOREM BoardInvariance == Board!Spec => []BoardInv
<1>1. Board!Init => BoardInv
  BY BoardStarts, TableAssumption
<1> QED BY <1>1, BoardStep, PTL DEF Board!Spec

\* The types of the board.
THEOREM BoardTypes == Board!Spec => []Board!TypeOK
<1>1. BoardInv => Board!TypeOK
  BY DEF BoardInv, CardTable, OfCard, PollsSound, PollOK, PollRecs, HubSound, RestSound,
         Board!TypeOK
<1> QED BY <1>1, BoardInvariance, PTL

\* A poll takes nothing from a card that GitHub does not know, however many polls overlap,
\* outside the two windows that `lost' marks.
THEOREM PollsSpareCards == Board!Spec => PollsUndoNothing
<1>1. BoardInv /\ [Board!Next]_(Board!vars) =>
        [\A k \in Polls : Board!PollStep(k) => \A i \in Issues \ lost' :
           cards[i].known =>
             /\ cards[i].archived => cards'[i].archived
             /\ cards[i].pr # Board!NoPR /\ pulls[cards[i].pr] = "open" =>
                  cards'[i].pr = cards[i].pr
             /\ cards'[i].column # cards[i].column =>
                  cards'[i].column \in {"review", "done"}]_(Board!vars)
  BY BoardStep DEF SparesCard
<1> QED
  BY <1>1, BoardInvariance, PTL DEF Board!Spec, PollsUndoNothing, Board!PollsUndoNothing
=============================================================================
