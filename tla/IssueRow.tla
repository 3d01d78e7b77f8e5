------------------------------- MODULE IssueRow -------------------------------
(***************************************************************************)
(* One row of the table `issues': the part of an issue that GitHub knows    *)
(* and the part that only the conductor knows, side by side in one JSON     *)
(* blob, and what each writer of store/issues.go does to it.  An operator   *)
(* is one transaction, but for SaveIssue: it reads the row (its argument    *)
(* `prev') in a statement of its own and writes later what Merged returns.  *)
(***************************************************************************)
EXTENDS Integers

NoPR  == "no PR"
NoDep == "no dependency"

Columns == {"todo", "plan", "in_progress", "review", "done"}

\* A row that SaveIssue writes for an issue it has never seen.  A poll knows
\* nothing but the GitHub half; `deps', `prio' and `gate' are not in it.
Fetched ==
  [known |-> TRUE, column |-> "todo", state |-> "open", archived |-> FALSE,
   closedAt |-> FALSE, pr |-> NoPR, needsPR |-> FALSE, waiting |-> FALSE,
   deps |-> {}, prio |-> 0, gate |-> "none", waitsFor |-> NoDep]

Absent == [Fetched EXCEPT !.known = FALSE]

\* Mutation: an upsert that leaves the column to the caller.
MergedColumn(prev, incoming) ==
  [incoming EXCEPT !.archived = prev.archived, !.closedAt = prev.closedAt,
                   !.pr = IF prev.pr # NoPR THEN prev.pr ELSE @]

\* SaveIssue: what the incoming issue may not change, it takes from the row it has read.
Merged(prev, incoming) ==
  IF ~prev.known THEN [incoming EXCEPT !.archived = FALSE, !.closedAt = FALSE]
  ELSE [incoming EXCEPT
    !.column   = prev.column,
    !.archived = prev.archived,
    !.closedAt = prev.closedAt,
    !.pr       = IF prev.pr # NoPR THEN prev.pr ELSE @,
    !.needsPR  = prev.needsPR \/ @,
    !.waiting  = prev.waiting \/ @,
    !.gate     = IF prev.gate # "none" THEN prev.gate ELSE @,
    !.waitsFor = IF prev.waitsFor # NoDep THEN prev.waitsFor ELSE @]

Moved(row, column) == [row EXCEPT !.column = column]

PROpened(row, pr) == [row EXCEPT !.pr = pr, !.column = "review", !.needsPR = FALSE]

NeedsPR(row) == [row EXCEPT !.needsPR = TRUE, !.column = "review"]

PRMerged(row) ==
  [row EXCEPT !.state = "closed", !.column = "done", !.waiting = FALSE, !.closedAt = TRUE]

PRClosedUnmerged(row) == [row EXCEPT !.pr = NoPR, !.waiting = FALSE]

\* Mutation: the card is put away, as MoveIssueColumn does it.
ClosedByColumn(row) == IF row.archived THEN row ELSE [row EXCEPT !.column = "done"]

\* An archived card is not disturbed.  The request in pending_pool_for, and the
\* flag that says so, stay.
Closed(row) ==
  IF row.archived THEN row
  ELSE [row EXCEPT !.state = "closed", !.column = "done", !.closedAt = TRUE]

\* ListIssues.
Listed(row) == row.known /\ ~row.archived

\* ArchiveDone; ArchiveClosedByAge asks for a recorded time of closing, too.
ArchivedDone(row)  == IF row.known /\ row.column = "done" THEN [row EXCEPT !.archived = TRUE] ELSE row
ArchivedByAge(row) == IF row.closedAt THEN ArchivedDone(row) ELSE row
Unarchived(row)    == [row EXCEPT !.archived = FALSE]
===============================================================================
