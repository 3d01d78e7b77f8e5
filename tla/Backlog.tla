-------------------------------- MODULE Backlog --------------------------------
(***************************************************************************)
(* What stands in TODO and how it gets out of it.  The orchestrator ranks   *)
(* the open issues of the active goal by asking a language model, and pulls *)
(* the best unblocked ones into PLAN while a plan slot is free.  Both work  *)
(* on a copy of the rows that they listed before.  Polls, closings, edits   *)
(* of dependencies and the filing of fan-out issues write the same rows.    *)
(***************************************************************************)
EXTENDS IssueRow, SequencesExt

CONSTANTS Issues,     \* numbers of the workspace's issues
          Filed,      \* those of them that the fan-out files
          Rankings,   \* answers of the model: [order |-> a permutation, deps |-> ...]
          Pullers,    \* bound: auto-pull passes at a time
          Slots,      \* plan slots
          Closable,   \* bound: issues that are closed on GitHub
          DragTo,     \* bound: columns that the user drags to
          MaxAsks,    \* bound: steps of the user and of GitHub
          MaxFaults   \* bound: spawns that fail

ASSUME BacklogAssumption ==
  /\ Issues \subseteq Nat /\ Filed \subseteq Issues /\ IsFiniteSet(Issues) /\ IsFiniteSet(Pullers)
  /\ \A r \in Rankings : /\ r.order \in [1..Cardinality(Issues) -> Issues]
                         /\ r.deps \in [Issues -> SUBSET Issues]
  /\ Slots \in Nat \ {0} /\ Closable \subseteq Issues /\ DragTo \subseteq Columns /\ {MaxAsks, MaxFaults} \subseteq Nat

VARIABLES hub,      \* GitHub: [Issues -> unborn, open, closed]
          source,   \* the PR whose fan-out files the issues: open, merged
          row,      \* table issues
          rank,     \* the ranking under way: [pc, and the rows that it has listed and not saved]
          events,   \* bag of what wakes passes: [slot_freed, issue_closed, kick -> Nat]
          pull,     \* [Pullers -> [pc, todo, first, rows]]: requests to drain, or cards to
                    \* pull, and the rows that it has listed and not saved
          queued,   \* issues with a row in pending_pool_for (role plan)
          plans,    \* issues with a live plan worker
          free,     \* free plan slots
          stale,    \* history: issues that a late save has set back to open
          asked, faults
vars == <<hub, source, row, rank, events, pull, queued, plans, free, stale, asked, faults>>
world == <<hub, source, asked, faults>>

\* openIssues
Candidate(r) == Listed(r) /\ r.state = "open"

\* sortByOrchestratorPriority: by priority, then by number.
Before(all, i, j) ==
  all[i].prio > all[j].prio \/ (all[i].prio = all[j].prio /\ i < j)

\* An open dependency blocks a card in TODO, and so does a source that is not merged.
Unblocked(all, i) ==
  /\ all[i].column = "todo"
  /\ \A d \in all[i].deps : ~Candidate(all[d])
  /\ all[i].gate # "held"

\* pickNextUnblocked, again and again on the same list.
Pullable(all) ==
  LET ready == {i \in Issues : Candidate(all[i]) /\ Unblocked(all, i)}
  IN  SetToSortSeq(ready, LAMBDA i, j : Before(all, i, j))

IdlePull == [pc |-> "idle", todo |-> <<>>, first |-> FALSE, rows |-> <<>>]
IdleRank == [pc |-> "idle", rows |-> <<>>]

Publish(e) == events' = [events EXCEPT ![e] = @ + 1]

-----------------------------------------------------------------------------
\* The handler starts a goroutine: a freed slot drains the queue first, a closed
\* issue prunes dependencies first.

\* The requests are listed oldest first (order of numbers, here).
DrainPass == [IdlePull EXCEPT !.pc = "drain", !.todo = SetToSortSeq(queued, <)]

\* Mutation: the queue is thought to hold whatever is worth pulling.
DrainOnly(e) == CASE e = "slot_freed"   -> IF queued = {} THEN IdlePull ELSE DrainPass
                  [] e = "issue_closed" -> [IdlePull EXCEPT !.pc = "recompute"]
                  [] e = "kick"         -> [IdlePull EXCEPT !.pc = "list"]

Pass(e) == CASE e = "slot_freed"   -> DrainPass
             [] e = "issue_closed" -> [IdlePull EXCEPT !.pc = "recompute"]
             [] e = "kick"         -> [IdlePull EXCEPT !.pc = "list"]

Handle(k) ==
  /\ pull[k].pc = "idle"
  /\ \E e \in DOMAIN events : /\ events[e] > 0
                              /\ events' = [events EXCEPT ![e] = @ - 1]
                              /\ pull' = [pull EXCEPT ![k] = Pass(e)]
  /\ UNCHANGED <<world, row, rank, queued, plans, free, stale>>

\* drainPendingPools: the listed requests are served while there are slots.  A worker
\* that is there already makes the spawn fail, and the request stays.
Drain(k) ==
  /\ pull[k].pc = "drain" /\ pull[k].todo # <<>>
  /\ pull' = [pull EXCEPT ![k].todo = Tail(@)]
  /\ LET i == Head(pull[k].todo)
         in_plan == IF row[i].column = "todo" THEN Moved(row[i], "plan") ELSE row[i] IN
     IF free = 0 THEN UNCHANGED <<row, queued, plans, free>>
     ELSE IF i \in plans
     THEN row' = [row EXCEPT ![i] = in_plan] /\ UNCHANGED <<queued, plans, free>>
     ELSE /\ row' = [row EXCEPT ![i] = [in_plan EXCEPT !.waiting = FALSE]]
          /\ queued' = queued \ {i}
          /\ plans' = plans \cup {i} /\ free' = free - 1
  /\ UNCHANGED <<world, rank, events, stale>>

Drained(k) ==
  /\ pull[k].pc = "drain" /\ pull[k].todo = <<>>
  /\ pull' = [pull EXCEPT ![k].pc = "list"]
  /\ UNCHANGED <<world, row, rank, events, queued, plans, free, stale>>

\* Saving a row as it was listed may set back what has happened to the issue since.
SavedOver(i, r) ==
  /\ row' = [row EXCEPT ![i] = Merged(@, r)]
  /\ stale' = IF row[i].state = "closed" /\ r.state = "open" THEN stale \cup {i} ELSE stale

\* recomputeBlocked: closed dependencies are pruned from the rows as they were listed.
Pruned(r) == [r EXCEPT !.deps = {d \in @ : Candidate(row[d])}]

Recompute(k) ==
  /\ pull[k].pc = "recompute"
  /\ pull' = [pull EXCEPT ![k].pc = "prune", ![k].rows =
       [i \in {j \in Issues : Listed(row[j]) /\ Pruned(row[j]) # row[j]} |-> Pruned(row[i])]]
  /\ UNCHANGED <<world, row, rank, events, queued, plans, free, stale>>

Prune(k) ==
  LET rows == pull[k].rows IN
  /\ pull[k].pc = "prune"
  /\ IF rows = <<>>
     THEN pull' = [pull EXCEPT ![k].pc = "list"] /\ UNCHANGED <<row, stale>>
     ELSE \E i \in DOMAIN rows :
            /\ SavedOver(i, rows[i])
            /\ pull' = [pull EXCEPT ![k].rows = Restrict(@, DOMAIN @ \ {i})]
  /\ UNCHANGED <<world, rank, events, queued, plans, free>>

-----------------------------------------------------------------------------
\* autoPull

List(k) ==
  /\ pull[k].pc = "list"
  /\ pull' = [pull EXCEPT ![k] = [IdlePull EXCEPT !.pc = "check", !.first = TRUE, !.todo = Pullable(row)]]
  /\ UNCHANGED <<world, row, rank, events, queued, plans, free, stale>>

\* Without a free slot the best candidate is queued, if nothing has been pulled yet;
\* without a candidate the pass is over.
Check(k) ==
  /\ pull[k].pc = "check"
  /\ pull' = [pull EXCEPT ![k] =
       IF @.todo = <<>> \/ (free = 0 /\ ~@.first) THEN IdlePull
       ELSE [@ EXCEPT !.first = FALSE, !.pc = IF free = 0 THEN "enqueue" ELSE "acquire"]]
  /\ UNCHANGED <<world, row, rank, events, queued, plans, free, stale>>

Acquire(k) ==
  /\ pull[k].pc = "acquire"
  /\ IF free > 0 THEN free' = free - 1 /\ pull' = [pull EXCEPT ![k].pc = "holding"]
     ELSE UNCHANGED free /\ pull' = [pull EXCEPT ![k].pc = "enqueue"]
  /\ UNCHANGED <<world, row, rank, events, queued, plans, stale>>

Enqueue(k) ==
  LET i == Head(pull[k].todo) IN
  /\ pull[k].pc = "enqueue"
  /\ queued' = queued \cup {i}
  /\ row' = [row EXCEPT ![i].waiting = TRUE]
  /\ pull' = [pull EXCEPT ![k] = IdlePull]
  /\ UNCHANGED <<world, rank, events, plans, free, stale>>

\* Mutation: the slot stays with the pass whose spawn failed.
PullCardLeaking(k) ==
  LET i == Head(pull[k].todo) IN
  /\ pull[k].pc = "holding"
  /\ row' = [row EXCEPT ![i] = [Moved(@, "plan") EXCEPT !.waiting = FALSE]]
  /\ queued' = queued \ {i}
  /\ \/ /\ i \notin plans /\ plans' = plans \cup {i}
        /\ pull' = [pull EXCEPT ![k].pc = "check", ![k].todo = Tail(@)]
        /\ UNCHANGED <<free, faults>>
     \/ /\ IF i \in plans THEN UNCHANGED faults ELSE faults < MaxFaults /\ faults' = faults + 1
        /\ pull' = [pull EXCEPT ![k] = IdlePull]
        /\ UNCHANGED <<plans, free>>
  /\ UNCHANGED <<hub, source, asked, rank, events, stale>>

\* The request is deleted, the card is moved and the worker spawned, whatever has
\* become of the card since it was listed.  A spawn that fails, because the card's
\* worker is there already or for another reason, ends the pass.
PullCard(k) ==
  LET i == Head(pull[k].todo) IN
  /\ pull[k].pc = "holding"
  /\ row' = [row EXCEPT ![i] = [Moved(@, "plan") EXCEPT !.waiting = FALSE]]
  /\ queued' = queued \ {i}
  /\ \/ /\ i \notin plans /\ plans' = plans \cup {i}
        /\ pull' = [pull EXCEPT ![k].pc = "check", ![k].todo = Tail(@)]
        /\ UNCHANGED <<free, faults>>
     \/ /\ IF i \in plans THEN UNCHANGED faults ELSE faults < MaxFaults /\ faults' = faults + 1
        /\ pull' = [pull EXCEPT ![k] = IdlePull] /\ free' = free + 1
        /\ UNCHANGED plans
  /\ UNCHANGED <<hub, source, asked, rank, events, stale>>

\* A plan worker ends: the slot is released in the handler of the event itself.
WorkerEnds(i) ==
  /\ i \in plans /\ plans' = plans \ {i} /\ free' = free + 1
  /\ Publish("slot_freed")
  /\ UNCHANGED <<world, row, rank, pull, queued, stale>>

Ask == asked < MaxAsks /\ asked' = asked + 1

\* Auto-pull is resumed, a plan is rejected, the number of agents changes.
KickAutoPull ==
  /\ Ask /\ Publish("kick")
  /\ UNCHANGED <<hub, source, faults, row, rank, pull, queued, plans, free, stale>>

-----------------------------------------------------------------------------
\* runRank: one at a time.  The model is asked for up to five minutes.

StartRank ==
  /\ Ask /\ rank.pc = "idle"
  /\ LET cand == {i \in Issues : Candidate(row[i])} IN
     cand # {} /\ rank' = [pc |-> "asking", rows |-> [i \in cand |-> row[i]]]
  /\ UNCHANGED <<hub, source, faults, row, events, pull, queued, plans, free, stale>>

Priority(r, i) ==
  LET n == Cardinality(Issues) IN n - CHOOSE x \in 1..n : r.order[x] = i

\* Ranked by position, with the dependencies of the answer (or of the cache, for a text
\* that has been ranked before).  A failed call ends the ranking.
Answer ==
  /\ rank.pc = "asking"
  /\ \/ rank' = IdleRank
     \/ \E r \in Rankings : rank' = [pc |-> "saving", rows |-> [i \in DOMAIN rank.rows |->
          [rank.rows[i] EXCEPT !.prio = Priority(r, i), !.deps = r.deps[i]]]]
  /\ UNCHANGED <<world, row, events, pull, queued, plans, free, stale>>

\* applyResult: the rows as they were listed, with their new rank.
SaveRank ==
  /\ rank.pc = "saving"
  /\ IF rank.rows = <<>> THEN rank' = IdleRank /\ UNCHANGED <<row, stale>>
     ELSE \E i \in DOMAIN rank.rows :
       /\ SavedOver(i, rank.rows[i])
       /\ rank' = [rank EXCEPT !.rows = Restrict(@, DOMAIN @ \ {i})]
  /\ UNCHANGED <<world, events, pull, queued, plans, free>>

-----------------------------------------------------------------------------
\* The other writers of the rows.

\* A poll saves an issue that was open when it was fetched (see Board; a late one
\* counts as a step of GitHub).  What GitHub does not send and SaveIssue does not
\* preserve is gone: rank and dependencies.
PollSaves(i) ==
  /\ hub[i] # "unborn" /\ SavedOver(i, Fetched)
  /\ IF hub[i] = "closed" THEN Ask ELSE UNCHANGED asked
  /\ UNCHANGED <<hub, source, faults, rank, events, pull, queued, plans, free>>

\* A poll finds it closed.
PollCloses(i) ==
  /\ hub[i] = "closed" /\ Listed(row[i]) /\ row[i].column # "done"
  /\ row' = [row EXCEPT ![i] = Closed(@)] /\ Publish("issue_closed")
  /\ UNCHANGED <<world, rank, pull, queued, plans, free, stale>>

CloseIssue(i) ==
  /\ i \in Closable /\ hub[i] = "open" /\ hub' = [hub EXCEPT ![i] = "closed"]
  /\ UNCHANGED <<source, asked, faults, row, rank, events, pull, queued, plans, free, stale>>

\* ApproveFanoutProposal: the issue is created on GitHub, and saved with its gate
\* afterwards; a poll may come in between.
FileIssue(i) ==
  /\ i \in Filed /\ hub[i] = "unborn" /\ hub' = [hub EXCEPT ![i] = "open"]
  /\ UNCHANGED <<source, asked, faults, row, rank, events, pull, queued, plans, free, stale>>

SaveFiled(i) ==
  /\ i \in Filed /\ hub[i] # "unborn" /\ row[i].gate = "none"
  /\ SavedOver(i, [Fetched EXCEPT !.gate = "held"])
  /\ UNCHANGED <<world, rank, events, pull, queued, plans, free>>

\* The source PR is found merged: ClearExternalDep, in the poll that finds it.
SourceMerged ==
  /\ source = "open" /\ source' = "merged"
  /\ row' = [i \in Issues |-> IF row[i].gate = "held" THEN [row[i] EXCEPT !.gate = "open"] ELSE row[i]]
  /\ UNCHANGED <<hub, asked, faults, rank, events, pull, queued, plans, free, stale>>

Drag(i, column) ==
  /\ Ask /\ Listed(row[i]) /\ row[i].column # column
  /\ row' = [row EXCEPT ![i] = Moved(@, column)]
  /\ UNCHANGED <<hub, source, faults, rank, events, pull, queued, plans, free, stale>>
-----------------------------------------------------------------------------
Init ==
  /\ hub = [i \in Issues |-> IF i \in Filed THEN "unborn" ELSE "open"]
  /\ source = "open"
  /\ row = [i \in Issues |-> IF i \in Filed THEN Absent ELSE Fetched]
  /\ rank = IdleRank
  /\ events = [slot_freed |-> 0, issue_closed |-> 0, kick |-> 1]
  /\ pull = [k \in Pullers |-> IdlePull]
  /\ queued = {} /\ plans = {} /\ free = Slots /\ stale = {} /\ asked = 0 /\ faults = 0

PassStep(k) == \/ Handle(k) \/ Drain(k) \/ Drained(k) \/ Recompute(k) \/ Prune(k) \/ List(k)
               \/ Check(k) \/ Acquire(k) \/ Enqueue(k) \/ PullCard(k)

Next ==
  \/ \E k \in Pullers : PassStep(k)
  \/ StartRank \/ Answer \/ SaveRank \/ KickAutoPull \/ SourceMerged
  \/ \E i \in Issues : \/ WorkerEnds(i) \/ PollSaves(i) \/ PollCloses(i) \/ CloseIssue(i)
                       \/ FileIssue(i) \/ SaveFiled(i)
                       \/ \E column \in DragTo : Drag(i, column)

Spec == Init /\ [][Next]_vars

\* Goroutines run, polls come back, plan workers end.
FairSpec ==
  /\ Spec
  /\ \A k \in Pullers : WF_vars(PassStep(k))
  /\ \A i \in Issues : WF_vars(PollCloses(i)) /\ WF_vars(WorkerEnds(i))
-----------------------------------------------------------------------------
Rows == [known : BOOLEAN, column : Columns, state : {"open", "closed"}, archived : {FALSE},
         closedAt : BOOLEAN, pr : {NoPR}, needsPR : {FALSE}, waiting : BOOLEAN,
         deps : SUBSET Issues, prio : Nat, gate : {"none", "held", "open"}, waitsFor : {NoDep}]

\* Type invariant: every writer of the backlog leaves well-formed rows.
TypeOK ==
  /\ hub \in [Issues -> {"unborn", "open", "closed"}] /\ source \in {"open", "merged"}
  /\ row \in [Issues -> Rows]
  /\ rank.pc \in {"idle", "asking", "saving"}
  /\ DOMAIN rank.rows \subseteq Issues /\ \A i \in DOMAIN rank.rows : rank.rows[i] \in Rows
  /\ events \in [{"slot_freed", "issue_closed", "kick"} -> Nat]
  /\ \A k \in Pullers :
       /\ pull[k].pc \in {"idle", "drain", "recompute", "prune", "list", "check", "acquire",
                          "enqueue", "holding"}
       /\ pull[k].todo \in Seq(Issues) /\ pull[k].first \in BOOLEAN
       /\ pull[k].pc \in {"acquire", "enqueue", "holding"} => pull[k].todo # <<>>
       /\ DOMAIN pull[k].rows \subseteq Issues
       /\ \A i \in DOMAIN pull[k].rows : pull[k].rows[i] \in Rows
  /\ queued \subseteq Issues /\ plans \subseteq Issues /\ stale \subseteq Issues
  /\ free \in 0..Slots /\ asked \in 0..MaxAsks /\ faults \in 0..MaxFaults

\* Whatever way a pass ends (autoPull, drainPendingPools), no plan slot is lost and
\* none is given twice: each is free, with a live worker, or with a pass about to spawn.
SlotsBalanced ==
  free + Cardinality(plans) + Cardinality({k \in Pullers : pull[k].pc = "holding"}) = Slots

\* The gate of an issue that a fan-out has filed opens when its source merges, and
\* not before; no save of an older copy, by a poll, a ranking or a recomputation,
\* takes it away or closes it again (SaveIssue, ClearExternalDep).
GateKept ==
  [][\A i \in Issues : LET old == row[i].gate
                           new == row'[i].gate
                       IN old # "none" /\ new # old => old = "held" /\ new = "open" /\ source' = "merged"]_vars

\* An issue does not wait for ever for one that has been closed on GitHub
\* (MarkIssueClosed, recomputeBlocked, pickNextUnblocked), unless a late save has set
\* that one back to open.
Blocks(d) == Candidate(row[d]) /\ \E i \in Issues : d \in row[i].deps

ClosedDepUnblocks ==
  \A d \in Issues : (hub[d] = "closed" /\ Blocks(d)) ~> (~Blocks(d) \/ d \in stale)

Ready(i) == Candidate(row[i]) /\ Unblocked(row, i)

\* An issue that is ready while every plan slot is taken gets one of them, or stops
\* being ready: the slots that are freed are offered to the backlog again and again.
ReadyGetsSlot == \A i \in Issues : (Ready(i) /\ free = 0) ~> ~Ready(i)

\* autoPull's comment (orchestrator.go:176-178): a card that the user has dragged into
\* PLAN, or on, is no longer in TODO, so it is not pulled again.
ManualMoveRespected ==
  [][\A k \in Pullers : PullCard(k) => row[Head(pull[k].todo)].column = "todo"]_vars

\* The gate's comment (orchestrator.go:292-293): an issue filed by the fan-out flow
\* holds at TODO until the source PR merges.
FiledIssueHeld == \A i \in Filed : i \in plans => source = "merged"
===============================================================================
