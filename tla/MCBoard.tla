------------------------------- MODULE MCBoard -------------------------------
(***************************************************************************)
(* The two writers of the table of issues beside each other: the backlog,   *)
(* which rests here, and the polls of GitHub, which move.  The run has one  *)
(* issue and one PR of its branch, polled twice at a time.  What a poll     *)
(* does for one issue does not depend on another one.                       *)
(***************************************************************************)
EXTENDS Backlog

CONSTANTS PRs, OwnerOf, Polls

VARIABLES issue, pulls, cards, parked, failed, poll, lost, stirs, slips

Board == INSTANCE Board WITH pull <- pulls, row <- cards, queued <- parked,
                             asked <- stirs, faults <- slips

ASSUME TableAssumption == Board!BoardAssumption

BoardSpec ==
  /\ Init /\ Board!Init
  /\ [][Board!Next /\ UNCHANGED vars]_<<vars, Board!vars>>
  /\ WF_(Board!vars)(\E k \in Polls : Board!PollStep(k))

\* Outside two windows no poll takes from a card what GitHub does not know (Board).
PollsUndoNothing == Board!PollsUndoNothing

\* A closed issue does not stay on the board (Board).
ClosedReachesDone == Board!ClosedReachesDone

\* PRs that were opened or ended unseen are noticed (Board).
PRsNoticed == Board!PRsNoticed

OneOwner == [p \in PRs |-> CHOOSE i \in Issues : TRUE]
=============================================================================
