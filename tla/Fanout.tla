-------------------------------- MODULE Fanout --------------------------------
(***************************************************************************)
(* The follow-up issues of a PR.  Analyses of its diff write proposals to   *)
(* one file and announce it; the conductor keeps a row for each; the user    *)
(* has them filed as issues of another repository, one request at a time, or  *)
(* dismisses them.                                                            *)
(***************************************************************************)
EXTENDS Integers, Sequences

CONSTANTS Proposals,   \* bound: the ids that analyses may give
          Analyses,    \* bound: analyses of the PR
          Slots,       \* slots of the work pools
          MaxAsks,     \* bound: requests of the user
          MaxFaults    \* bound: calls that fail, restarts

FanoutAssumption == {Slots, MaxAsks, MaxFaults} \subseteq Nat

VARIABLES sess,            \* [Analyses -> none, running, written, handled, ended]
          used,            \* slots that analyses hold
          file, ids,       \* the output file, and all ids that were given
          status, number,  \* rows of proposals, and the filed issue of each, or 0
          listed,          \* what the modal offers
          approval,        \* ApproveFanoutProposal: how far it is, of what, as which issue
          issues,          \* on GitHub: the proposals that were filed, one issue each
          gated,           \* the issues whose rows wait for the PR
          excused,         \* history: proposals whose filing was not, or is no more, on record
          asks, faults

vars == <<sess, used, file, ids, status, number, listed, approval, issues, gated, excused, asks, faults>>

rows == <<status, number>>
Idle == [pc |-> "idle", of |-> "none", as |-> 0]

Fault == faults < MaxFaults /\ faults' = faults + 1
Ask   == asks < MaxAsks /\ asks' = asks + 1

-----------------------------------------------------------------------------
\* The analyses.  They carry no issue number, so the duplicate guard lets several run.

TriggerFanoutAnalysis(s) ==
  /\ Ask /\ sess[s] = "none" /\ used < Slots
  /\ sess' = [sess EXCEPT ![s] = "running"] /\ used' = used + 1
  /\ UNCHANGED <<file, ids, rows, listed, approval, issues, gated, excused, faults>>

\* The skill writes the file, which is the same for all analyses of the PR, and says so.
Write(s, ps) ==
  /\ sess[s] = "running" /\ ps \cap ids = {}
  /\ file' = ps /\ ids' = ids \cup ps /\ sess' = [sess EXCEPT ![s] = "written"]
  /\ UNCHANGED <<used, rows, listed, approval, issues, gated, excused, asks, faults>>

\* Every proposal of the file is pending, whatever its row said.
Emitted == [p \in Proposals |-> IF p \in file THEN "pending" ELSE status[p]]

HandleFanoutWritten(s) ==
  /\ sess[s] = "written" /\ sess' = [sess EXCEPT ![s] = "handled"]
  /\ \/ /\ status' = Emitted
        /\ number' = [p \in Proposals |-> IF p \in file THEN 0 ELSE number[p]]
        /\ excused' = excused \cup {p \in file : number[p] # 0}
        /\ UNCHANGED faults
     \/ Fault /\ UNCHANGED <<rows, excused>>
  /\ UNCHANGED <<used, file, ids, listed, approval, issues, gated, asks>>

AnalysisEnds(s) ==
  /\ sess[s] \in {"running", "handled"}
  /\ sess' = [sess EXCEPT ![s] = "ended"] /\ used' = used - 1
  /\ UNCHANGED <<file, ids, rows, listed, approval, issues, gated, excused, asks, faults>>

-----------------------------------------------------------------------------
\* The modal takes one request at a time, and lists the pending proposals after it.

Pending == {p \in Proposals : status[p] = "pending"}

ListFanoutProposals ==
  /\ approval.pc = "idle" /\ listed # Pending /\ listed' = Pending
  /\ UNCHANGED <<sess, used, file, ids, rows, approval, issues, gated, excused, asks, faults>>

\* Mutation: a proposal that was filed is filed.
ToFileAlways(p) == TRUE

ToFile(p) == status[p] # "approved"

ApproveFanoutProposal(p) ==
  /\ Ask /\ approval.pc = "idle" /\ p \in listed
  /\ IF ToFile(p) THEN approval' = [Idle EXCEPT !.pc = "create", !.of = p] /\ UNCHANGED listed
                  ELSE listed' = Pending /\ UNCHANGED approval
  /\ UNCHANGED <<sess, used, file, ids, rows, issues, gated, excused, faults>>

\* Client.CreateIssue, which may fail, or succeed without the conductor hearing of it.
CreateIssue ==
  /\ approval.pc = "create"
  /\ \/ /\ issues' = Append(issues, approval.of)
        /\ approval' = [approval EXCEPT !.pc = "record", !.as = Len(issues) + 1]
        /\ UNCHANGED <<excused, faults>>
     \/ Fault /\ approval' = Idle /\ UNCHANGED <<issues, excused>>
     \/ /\ Fault /\ approval' = Idle
        /\ issues' = Append(issues, approval.of) /\ excused' = excused \cup {approval.of}
  /\ UNCHANGED <<sess, used, file, ids, rows, listed, gated, asks>>

RecordApproval ==
  /\ approval.pc = "record"
  /\ \/ /\ status' = [status EXCEPT ![approval.of] = "approved"]
        /\ number' = [number EXCEPT ![approval.of] = approval.as]
        /\ approval' = [approval EXCEPT !.pc = "save"]
        /\ UNCHANGED <<excused, faults>>
     \/ Fault /\ approval' = Idle /\ excused' = excused \cup {approval.of} /\ UNCHANGED rows
  /\ UNCHANGED <<sess, used, file, ids, listed, issues, gated, asks>>

\* The row of the issue, with its gate; that it cannot be saved is logged only.  The
\* modal lists anew, if it can.
SaveFiledIssue ==
  /\ approval.pc = "save" /\ approval' = Idle
  /\ \/ gated' = gated \cup {approval.as} /\ listed' = Pending /\ UNCHANGED faults
     \/ Fault /\ \/ listed' = Pending /\ UNCHANGED gated
                 \/ gated' = gated \cup {approval.as} /\ UNCHANGED listed
  /\ UNCHANGED <<sess, used, file, ids, rows, issues, excused, asks>>

DismissFanoutProposal(p) ==
  /\ Ask /\ approval.pc = "idle" /\ p \in listed
  /\ status' = [status EXCEPT ![p] = "dismissed"]
  /\ excused' = IF number[p] # 0 THEN excused \cup {p} ELSE excused
  /\ listed' = {q \in Pending : q # p}
  /\ UNCHANGED <<sess, used, file, ids, number, approval, issues, gated, faults>>

\* A transcript whose offset was not saved yet is read again from before the announcement.
Restart ==
  /\ Fault
  /\ \E again \in SUBSET {s \in Analyses : sess[s] = "handled"} :
       sess' = [s \in Analyses |-> IF s \in again THEN "written" ELSE sess[s]]
  /\ approval' = Idle /\ listed' = Pending
  /\ excused' = IF approval.pc = "record" THEN excused \cup {approval.of} ELSE excused
  /\ UNCHANGED <<used, file, ids, rows, issues, gated, asks>>
-----------------------------------------------------------------------------
Init ==
  /\ sess = [s \in Analyses |-> "none"] /\ used = 0 /\ file = {} /\ ids = {}
  /\ status = [p \in Proposals |-> "none"] /\ number = [p \in Proposals |-> 0]
  /\ listed = {} /\ approval = Idle /\ issues = <<>> /\ gated = {} /\ excused = {}
  /\ asks = 0 /\ faults = 0

Next ==
  \/ \E s \in Analyses :
       \/ TriggerFanoutAnalysis(s) \/ HandleFanoutWritten(s) \/ AnalysisEnds(s)
       \/ \E ps \in SUBSET Proposals : Write(s, ps)
  \/ \E p \in Proposals : ApproveFanoutProposal(p) \/ DismissFanoutProposal(p)
  \/ ListFanoutProposals \/ CreateIssue \/ RecordApproval \/ SaveFiledIssue \/ Restart

Spec == Init /\ [][Next]_vars
-----------------------------------------------------------------------------
\* Type invariant.
TypeOK ==
  /\ sess \in [Analyses -> {"none", "running", "written", "handled", "ended"}] /\ used \in 0..Slots
  /\ file \subseteq ids /\ ids \subseteq Proposals /\ listed \subseteq ids /\ excused \subseteq ids
  /\ status \in [Proposals -> {"none", "pending", "approved", "dismissed"}]
  /\ issues \in Seq(Proposals) /\ number \in [Proposals -> 0..Len(issues)]
  /\ gated \subseteq DOMAIN issues /\ (approval.pc = "idle" <=> approval = Idle)

\* An issue that was filed for a proposal is the one its row names, or the call that filed
\* it is about to record it: nobody can have the proposal filed a second time, from a list
\* that is old or through an approval that repeats (ApproveFanoutProposal), unless the
\* record was lost to a failing call, a crash, a late dismissal or a repeated announcement.
FiledOnRecord ==
  \A n \in DOMAIN issues :
    LET p == issues[n] IN
      \/ p \in excused
      \/ status[p] = "approved" /\ number[p] = n
      \/ approval.pc = "record" /\ approval.as = n

\* fanout.go:13-14: the skill can repeat its proposals without creating duplicates.
NoDuplicates ==
  \A m, n \in DOMAIN issues : m # n /\ issues[m] = issues[n] => faults > 0

\* app.go:5710-5711: a filed issue waits for the PR.
FiledWaits ==
  approval.pc = "idle" => \A p \in Proposals : number[p] # 0 => number[p] \in gated
===============================================================================
