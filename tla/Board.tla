-------------------------------- MODULE Board --------------------------------
(***************************************************************************)
(* The board of one workspace against GitHub.  A poll fetches the open      *)
(* issues, lists its own rows, saves the former, closes the cards that are  *)
(* gone, asks for the state of the PRs in review, and looks for PRs that    *)
(* were opened by hand.  It works on what it fetched and listed at its      *)
(* start, and several polls run at once (ticker, second fetch 15 s after    *)
(* startup, FetchNow), while event handlers and the user write the same     *)
(* rows.                                                                   *)
(***************************************************************************)
EXTENDS IssueRow, FiniteSets

CONSTANTS Issues, PRs,
          OwnerOf,      \* [PRs -> Issues]: whose branch the PR is made of
          Polls,        \* bound: polls at a time
          DragTo,       \* bound: columns that the user drags to
          MaxAsks,      \* bound: interventions of users and workers
          MaxFaults     \* bound: GitHub calls that fail, and restarts

Nobody == 0           \* issues have numbers from 1

BoardAssumption ==
  /\ OwnerOf \in [PRs -> Issues] /\ DragTo \subseteq Columns
  /\ NoPR \notin PRs /\ Nobody \notin Issues
  /\ MaxAsks \in Nat /\ MaxFaults \in Nat

VARIABLES issue,     \* GitHub: [Issues -> open, closed]
          pull,      \* GitHub: [PRs -> unborn, open, merged, closed]
          row,       \* table issues
          queued,    \* issues with a row in pending_pool_for
          failed,    \* issues whose latest execute failed, unacknowledged, with a branch
          poll,      \* [Polls -> where the poll is, and what it fetched and listed]
          lost,      \* history: issues whose row a poll overwrote with older contents
          asked, faults

hubVars == <<issue, pull>>
vars    == <<hubVars, row, queued, failed, poll, lost, asked, faults>>

\* A PR can be asked for by its branch as long as it is open.
OpenPRs(i)    == {p \in PRs : OwnerOf[p] = i /\ pull[p] = "open"}
Unattached(i) == row[i].pr = NoPR /\ (row[i].needsPR \/ i \in failed)

-----------------------------------------------------------------------------
\* A poll.  What its loops go through follows from what it fetched and listed at
\* its start: the issues to save, the cards whose issue is gone, the PRs in review,
\* the NEEDS_PR cards without a PR, the other cards without one.

Idle == [pc |-> "idle", save |-> {}, saving |-> Nobody, read |-> Absent, close |-> {},
         probe |-> [i \in Issues |-> NoPR], needy |-> {}, orphan |-> {}]

FetchOpenIssues(k) ==
  /\ poll[k].pc = "idle"
  /\ poll' = [poll EXCEPT ![k].pc = "list", ![k].save = {i \in Issues : issue[i] = "open"}]
  /\ UNCHANGED <<hubVars, row, queued, failed, lost, asked, faults>>

\* Mutation: a card whose issue is known to be closed needs no closing, as an earlier
\* version had it.
MissingByState(fresh) == {i \in Issues \ fresh : Listed(row[i]) /\ row[i].state = "open"}

\* A card in DONE needs no closing.
Missing(fresh) == {i \in Issues \ fresh : Listed(row[i]) /\ row[i].column # "done"}

InReview ==
  [i \in Issues |-> IF Listed(row[i]) /\ row[i].column = "review" THEN row[i].pr ELSE NoPR]

\* Mutation: only cards in review can lack a PR.
WithoutPRInReview ==
  {i \in Issues : Listed(row[i]) /\ row[i].pr = NoPR /\ row[i].column = "review"}

WithoutPR == {i \in Issues : Listed(row[i]) /\ row[i].pr = NoPR}

ListIssues(k) ==
  /\ poll[k].pc = "list"
  /\ poll' = [poll EXCEPT ![k].pc = "work", ![k].close = Missing(poll[k].save),
                ![k].probe = InReview,
                ![k].needy = {i \in WithoutPR : row[i].needsPR},
                ![k].orphan = {i \in WithoutPR : ~row[i].needsPR}]
  /\ UNCHANGED <<hubVars, row, queued, failed, lost, asked, faults>>

\* The loops run one after the other.
Probes(k) == {i \in Issues : poll[k].probe[i] # NoPR}
In(k, loop) ==
  /\ poll[k].pc = "work"
  /\ loop # "save"   => poll[k].save = {}
  /\ loop \in {"probe", "needy", "orphan"} => poll[k].close = {}
  /\ loop \in {"needy", "orphan"} => Probes(k) = {}
  /\ loop = "orphan" => poll[k].needy = {}

\* The two statements of SaveIssue.
SaveRead(k) ==
  /\ In(k, "save") /\ poll[k].saving = Nobody
  /\ \E i \in poll[k].save : poll' = [poll EXCEPT ![k].saving = i, ![k].read = row[i]]
  /\ UNCHANGED <<hubVars, row, queued, failed, lost, asked, faults>>

SaveWrite(k) ==
  LET i == poll[k].saving IN
  /\ i # Nobody
  /\ row' = [row EXCEPT ![i] = Merged(poll[k].read, Fetched)]
  /\ lost' = IF row[i] = poll[k].read THEN lost ELSE lost \cup {i}
  /\ poll' = [poll EXCEPT ![k].saving = Nobody, ![k].read = Absent, ![k].save = @ \ {i}]
  /\ UNCHANGED <<hubVars, queued, failed, asked, faults>>

CloseMissing(k) ==
  /\ In(k, "close")
  /\ \E i \in poll[k].close : /\ row' = [row EXCEPT ![i] = Closed(@)]
                              /\ poll' = [poll EXCEPT ![k].close = @ \ {i}]
  /\ UNCHANGED <<hubVars, queued, failed, lost, asked, faults>>

\* The PR that is asked for is the listed one; the row that is written is the
\* issue's, whatever PR it has by now.
ProbePR(k) ==
  /\ In(k, "probe")
  /\ \E i \in Probes(k) : LET p == poll[k].probe[i] IN
       /\ \/ /\ pull[p] = "merged"
             /\ row' = [row EXCEPT ![i] = PRMerged(@)]
             /\ queued' = queued \ {i}
             /\ lost' = IF row[i].pr = p THEN lost ELSE lost \cup {i}
          \/ /\ pull[p] = "closed"
             /\ row' = [row EXCEPT ![i] = PRClosedUnmerged(@)]
             /\ queued' = queued \ {i}
             /\ lost' = IF row[i].pr = p THEN lost ELSE lost \cup {i}
          \/ pull[p] = "open" /\ UNCHANGED <<row, queued, lost>>
       /\ poll' = [poll EXCEPT ![k].probe[i] = NoPR]
  /\ UNCHANGED <<hubVars, failed, asked, faults>>

\* Is there an open PR of the branch?  The first one is attached.
Attached(i) == IF OpenPRs(i) = {} THEN UNCHANGED row
               ELSE \E p \in OpenPRs(i) : row' = [row EXCEPT ![i] = PROpened(@, p)]

AttachNeedsPR(k) ==
  /\ In(k, "needy")
  /\ \E i \in poll[k].needy : Attached(i) /\ poll' = [poll EXCEPT ![k].needy = @ \ {i}]
  /\ UNCHANGED <<hubVars, queued, failed, lost, asked, faults>>

AttachOrphan(k) ==
  /\ In(k, "orphan")
  /\ \E i \in poll[k].orphan : /\ IF i \in failed THEN Attached(i) ELSE UNCHANGED row
                               /\ poll' = [poll EXCEPT ![k].orphan = @ \ {i}]
  /\ UNCHANGED <<hubVars, queued, failed, lost, asked, faults>>

\* A call for one card fails: the error is logged and the poll goes on.
CallFails(k) ==
  /\ faults < MaxFaults /\ faults' = faults + 1
  /\ \/ /\ In(k, "probe")
        /\ \E i \in Probes(k) : poll' = [poll EXCEPT ![k].probe[i] = NoPR]
     \/ /\ In(k, "needy")
        /\ \E i \in poll[k].needy : poll' = [poll EXCEPT ![k].needy = @ \ {i}]
     \/ /\ In(k, "orphan")
        /\ \E i \in poll[k].orphan : poll' = [poll EXCEPT ![k].orphan = @ \ {i}]
  /\ UNCHANGED <<hubVars, row, queued, failed, lost, asked>>

Finish(k) ==
  /\ In(k, "orphan") /\ poll[k].orphan = {}
  /\ poll' = [poll EXCEPT ![k] = Idle]
  /\ UNCHANGED <<hubVars, row, queued, failed, lost, asked, faults>>

-----------------------------------------------------------------------------
\* GitHub: what its users and the workers do there.

Ask == asked < MaxAsks /\ asked' = asked + 1

ReopenIssue(i) ==
  /\ Ask /\ issue[i] = "closed"
  /\ issue' = [issue EXCEPT ![i] = "open"]
  /\ UNCHANGED <<pull, row, queued, failed, poll, lost, faults>>

CloseIssue(i) ==
  /\ issue[i] = "open"
  /\ issue' = [issue EXCEPT ![i] = "closed"]
  /\ UNCHANGED <<pull, row, queued, failed, poll, lost, asked, faults>>

OpenPR(p) ==
  /\ pull[p] = "unborn" /\ OpenPRs(OwnerOf[p]) = {}
  /\ pull' = [pull EXCEPT ![p] = "open"]
  /\ UNCHANGED <<issue, row, queued, failed, poll, lost, asked, faults>>

\* A merge closes the issue if the PR says that it fixes it.
MergePR(p) ==
  /\ pull[p] = "open"
  /\ pull' = [pull EXCEPT ![p] = "merged"]
  /\ \/ issue' = [issue EXCEPT ![OwnerOf[p]] = "closed"]
     \/ UNCHANGED issue
  /\ UNCHANGED <<row, queued, failed, poll, lost, asked, faults>>

ClosePR(p) ==
  /\ pull[p] = "open"
  /\ pull' = [pull EXCEPT ![p] = "closed"]
  /\ UNCHANGED <<issue, row, queued, failed, poll, lost, asked, faults>>

-----------------------------------------------------------------------------
\* The conductor's other writers.

\* A worker's PR_OPENED, and the URL that a user pastes.
AttachPR(p) ==
  /\ Ask /\ row[OwnerOf[p]].known /\ pull[p] # "unborn"
  /\ row' = [row EXCEPT ![OwnerOf[p]] = PROpened(@, p)]
  /\ UNCHANGED <<hubVars, queued, failed, poll, lost, faults>>

HandlePROpened(p) == AttachPR(p)
AttachManualPR(p) == AttachPR(p)

\* A draft PR is created for the branch of a failed worker.
OpenOrphanPR(p) ==
  LET i == OwnerOf[p] IN
  /\ i \in failed /\ pull[p] = "unborn" /\ OpenPRs(i) = {}
  /\ pull' = [pull EXCEPT ![p] = "open"]
  /\ row' = [row EXCEPT ![i] = PROpened(@, p)]
  /\ UNCHANGED <<issue, queued, failed, poll, lost, asked, faults>>

HandleNeedsPR(i) ==
  /\ Ask /\ row[i].known
  /\ row' = [row EXCEPT ![i] = NeedsPR(@)]
  /\ UNCHANGED <<hubVars, queued, failed, poll, lost, faults>>

ExecuteFailed(i) ==
  /\ Ask /\ row[i].known
  /\ failed' = failed \cup {i}
  /\ UNCHANGED <<hubVars, row, queued, poll, lost, faults>>

\* A card dragged to TODO or PLAN has its failure acknowledged.
Drag(i, column) ==
  /\ Ask /\ Listed(row[i])
  /\ row' = [row EXCEPT ![i] = Moved(@, column)]
  /\ failed' = IF column \in {"todo", "plan"} THEN failed \ {i} ELSE failed
  /\ UNCHANGED <<hubVars, queued, poll, lost, faults>>

\* ApprovePlan with every slot taken (see SlotQueue), and a drain that serves the request.
ApproveQueued(i) ==
  /\ Ask /\ Listed(row[i])
  /\ row' = [row EXCEPT ![i] = [Moved(@, "in_progress") EXCEPT !.waiting = TRUE]]
  /\ queued' = queued \cup {i}
  /\ UNCHANGED <<hubVars, failed, poll, lost, faults>>

DrainServes(i) ==
  /\ i \in queued
  /\ row' = [row EXCEPT ![i] = [Moved(@, "in_progress") EXCEPT !.waiting = FALSE]]
  /\ queued' = queued \ {i}
  /\ UNCHANGED <<hubVars, failed, poll, lost, asked, faults>>

Archive ==
  /\ Ask
  /\ \/ row' = [i \in Issues |-> ArchivedDone(row[i])]
     \/ row' = [i \in Issues |-> ArchivedByAge(row[i])]
  /\ UNCHANGED <<hubVars, queued, failed, poll, lost, faults>>

Unarchive(i) ==
  /\ row[i].archived
  /\ row' = [row EXCEPT ![i] = Unarchived(@)]
  /\ UNCHANGED <<hubVars, queued, failed, poll, lost, asked, faults>>

\* startup: closed issues go to DONE; what waits in REVIEW or DONE waits no more.
Healed(r) ==
  LET c == IF Listed(r) /\ r.state = "closed" THEN Closed(r) ELSE r
  IN  IF c.column \in {"review", "done"} THEN [c EXCEPT !.waiting = FALSE] ELSE c

Restart ==
  /\ faults < MaxFaults /\ faults' = faults + 1
  /\ poll' = [k \in Polls |-> Idle]
  /\ row' = [i \in Issues |-> Healed(row[i])]
  /\ queued' = {i \in queued : row'[i].column \notin {"review", "done"}}
  /\ UNCHANGED <<hubVars, failed, lost, asked>>

-----------------------------------------------------------------------------
Init ==
  /\ issue = [i \in Issues |-> "open"]
  /\ pull = [p \in PRs |-> "unborn"]
  /\ row = [i \in Issues |-> Absent]
  /\ queued = {} /\ failed = {} /\ lost = {}
  /\ poll = [k \in Polls |-> Idle]
  /\ asked = 0 /\ faults = 0

PollStep(k) ==
  \/ FetchOpenIssues(k) \/ ListIssues(k) \/ SaveRead(k) \/ SaveWrite(k)
  \/ CloseMissing(k) \/ ProbePR(k) \/ AttachNeedsPR(k) \/ AttachOrphan(k) \/ Finish(k)

Next ==
  \/ \E k \in Polls : PollStep(k) \/ CallFails(k)
  \/ \E i \in Issues : \/ ReopenIssue(i) \/ CloseIssue(i) \/ HandleNeedsPR(i)
                       \/ ExecuteFailed(i) \/ ApproveQueued(i) \/ DrainServes(i)
                       \/ Unarchive(i)
                       \/ \E column \in DragTo : Drag(i, column)
  \/ \E p \in PRs : OpenPR(p) \/ MergePR(p) \/ ClosePR(p)
                    \/ HandlePROpened(p) \/ AttachManualPR(p) \/ OpenOrphanPR(p)
  \/ Archive \/ Restart

Spec == Init /\ [][Next]_vars

\* Some poll or other goes on; nobody else owes anything.
FairSpec == Spec /\ WF_vars(\E k \in Polls : PollStep(k))
-----------------------------------------------------------------------------
Rows == [known : BOOLEAN, column : Columns, state : {"open", "closed"}, archived : BOOLEAN,
         closedAt : BOOLEAN, pr : PRs \cup {NoPR}, needsPR : BOOLEAN, waiting : BOOLEAN,
         deps : {{}}, prio : {0}, gate : {"none"}, waitsFor : {NoDep}]

\* Type invariant: every writer leaves a well-formed row.
TypeOK ==
  /\ issue \in [Issues -> {"open", "closed"}]
  /\ pull \in [PRs -> {"unborn", "open", "merged", "closed"}]
  /\ row \in [Issues -> Rows]
  /\ queued \subseteq Issues /\ failed \subseteq Issues /\ lost \subseteq Issues
  /\ poll \in [Polls -> [pc : {"idle", "list", "work"}, save : SUBSET Issues,
                         saving : Issues \cup {Nobody}, read : Rows, close : SUBSET Issues,
                         probe : [Issues -> PRs \cup {NoPR}],
                         needy : SUBSET Issues, orphan : SUBSET Issues]]
  /\ asked \in 0..MaxAsks /\ faults \in 0..MaxFaults

\* A poll never takes from a card what GitHub does not know -- its column while the
\* issue is open, its archive, an open PR -- unless it saves over a write that came
\* between its read and its write, or asked for a PR that had been replaced (SaveIssue
\* preserves, pollOne acts on what it listed).  Those two windows are all there is.
PollsUndoNothing ==
  [][\A k \in Polls : PollStep(k) => \A i \in Issues \ lost' :
       row[i].known =>
         /\ row[i].archived => row'[i].archived
         /\ row[i].pr # NoPR /\ pull[row[i].pr] = "open" => row'[i].pr = row[i].pr
         /\ row'[i].column # row[i].column => row'[i].column \in {"review", "done"}]_vars

\* An issue that is closed on GitHub does not stay on the board, wherever the user
\* drags its card and whatever polls overlap (pollOne gates on the column).
ClosedReachesDone ==
  \A i \in Issues : (issue[i] = "closed" /\ Listed(row[i]))
                      ~> (issue[i] = "open" \/ row[i].column = "done" \/ row[i].archived)

\* A PR that a human opened for a worker's branch is found and attached, although the poll
\* may miss it, or its row may be overwritten, any number of times; and a card in REVIEW
\* does not keep showing a PR that has been merged or closed.
PRsNoticed ==
  \A p \in PRs :
    LET i == OwnerOf[p]
        shown == Listed(row[i]) /\ row[i].pr = p /\ row[i].column = "review"
    IN /\ (pull[p] = "open" /\ Listed(row[i]) /\ Unattached(i))
            ~> (pull[p] # "open" \/ ~Listed(row[i]) \/ ~Unattached(i))
       /\ (shown /\ pull[p] \in {"merged", "closed"}) ~> ~shown

\* Poller's comment (poll.go:67): anything previously open and now missing is
\* marked as closed.
ClosedIsMarked ==
  \A i \in Issues : (issue[i] = "closed" /\ Listed(row[i]))
                      ~> (issue[i] = "open" \/ row[i].state = "closed" \/ row[i].archived)

\* ReconcileStalePoolQueueForClosedIssues (issues.go:514-516): a queued spawn for an
\* issue whose work has shipped is moot.
MootNotServed ==
  [][\A i \in Issues : DrainServes(i) => row[i].state = "open"]_vars
=============================================================================
