------------------------------- MODULE MCRecords -------------------------------
(***************************************************************************)
(* Sets of records that the conductor keeps in files and in rows, each in    *)
(* scenes of its own: a workspace, the plans of an issue, the comments of its *)
(* PR, the issues that are to follow from it, and the database file itself.    *)
(* The keys of a workspace are random numbers and interchangeable.  What is    *)
(* computed from pipelines and from lists of labels is compared for all short  *)
(* ones.                                                                       *)
(***************************************************************************)
EXTENDS Workspaces, TLC

CONSTANTS p1, p2, c1, c2, k1, k2, k3, a1, a2, f1, f2,
          MaxRev, MaxRuns, MaxWorks, Rejects, Replays,
          Releases, Ages, MaxFaults,
          MaxComments, MaxSlips, Asks,
          Proposals, Analyses, Slots, Requests

VARIABLES scene, files, answers, rows, runs, planner, sess, acked, column, approval, queued,
          work, works, consents, taken,
          db, backups, release, pc, at, faults,
          said, noted, read, unsent, since, self, poll, post, told, between, passedOver,
          analyses, used, file, ids, status, number, listed, filing, issues, gated, unrecorded,
          asks, slips

plansOf == <<files, answers, rows, runs, planner, sess, acked, column, approval, queued,
             work, works, consents, taken>>
storeOf == <<db, backups, release, pc, at, faults>>
reviewOf == <<said, noted, read, unsent, since, self, poll, post, told, between, passedOver>>
fanoutOf == <<analyses, used, file, ids, status, number, listed, filing, issues, gated, unrecorded>>
boundsOf == <<asks, slips>>

\* Two people write: one on the issue, and a bot in the review.
Remarks == {[thread |-> "issue", by |-> "other"], [thread |-> "review", by |-> "bot"]}

Desk  == INSTANCE PlanDesk
Store == INSTANCE StoreOpen
Review == INSTANCE ReviewComments WITH rows <- noted, excused <- passedOver,
            MaxAsks <- Asks, faults <- slips, MaxFaults <- MaxSlips
Follow == INSTANCE Fanout WITH sess <- analyses, approval <- filing, excused <- unrecorded,
            MaxAsks <- Requests, faults <- slips, MaxFaults <- MaxSlips
Pipes == INSTANCE PipelineDriver
Lists == INSTANCE IssueLabels

ASSUME RecordsAssumption ==
  /\ Desk!PlanDeskAssumption /\ Store!StoreOpenAssumption
  /\ Review!ReviewCommentsAssumption /\ Follow!FanoutAssumption

\* Pipelines of at most two steps with any ids and caps; with three steps, at most one of
\* which has a cap.
ASSUME \A names \in {<<>>, <<"a">>, <<"a", "a">>, <<"a", "">>, <<"a", "b">>} :
         Pipes!ValidatesKnots(Pipes!Pipelines(names, [1 .. Len(names) -> {0, 2}]))
ASSUME Pipes!ValidatesKnots(Pipes!Pipelines(<<"a", "b", "c">>, {<<0, 0, 0>>, <<2, 0, 0>>}))

ASSUME Lists!PlanLabelsRight({"x", "y", "z"}, 2)
ASSUME Lists!DepsRight({"x", "y", "z"}, 3)

Symmetric == Permutations(Keys)

\* The file is of any age where it matters.
RecordsInit ==
  /\ scene \in {"workspace", "plans", "store", "comments", "fanout"}
  /\ Init /\ Desk!Init /\ Store!Init /\ Review!Init /\ Follow!Init
  /\ scene # "store" => db = Store!Left(0, FALSE) /\ release = 9

RecordsNext ==
  /\ UNCHANGED scene
  /\ \/ scene = "workspace" /\ Next /\ UNCHANGED <<plansOf, storeOf, reviewOf, fanoutOf, boundsOf>>
     \/ scene = "plans" /\ Desk!Next /\ UNCHANGED <<vars, storeOf, reviewOf, fanoutOf, boundsOf>>
     \/ scene = "store" /\ Store!Next /\ UNCHANGED <<vars, plansOf, reviewOf, fanoutOf, boundsOf>>
     \/ scene = "comments" /\ Review!Next /\ UNCHANGED <<vars, plansOf, storeOf, fanoutOf>>
     \/ scene = "fanout" /\ Follow!Next /\ UNCHANGED <<vars, plansOf, storeOf, reviewOf>>

RecordsSpec ==
  RecordsInit /\ [][RecordsNext]_<<scene, vars, plansOf, storeOf, reviewOf, fanoutOf, boundsOf>>

\* A retry runs an approved revision (PlanDesk).
ApprovedOnlyRuns == Desk!ApprovedOnlyRuns

\* A plan made for answers comes after the plan they answer (PlanDesk).
AnswersTaken == Desk!AnswersTaken

\* A comment has its row when a poll is over, and is announced once (ReviewComments).
NoticedOnce == Review!NoticedOnce

\* The issue that was filed for a proposal is on record (Fanout).
FiledOnRecord == Follow!FiledOnRecord

\* An opened store has what its release reads, and a refused one a newer release has
\* opened (StoreOpen).
OpensWhatItKnows == Store!OpensWhatItKnows

\* No statement of an Open takes a column away (StoreOpen).
ColumnsKept == Store!ColumnsKept
===============================================================================
