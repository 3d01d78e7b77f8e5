------------------------------ MODULE MCBacklog ------------------------------
(* Issue 1 is on the board; issue 2 is filed by a fan-out.  The model ranks 2  *)
(* first, and has 1 wait for it.                                              *)
EXTENDS Backlog
OneRanking == {[order |-> <<2, 1>>, deps |-> <<{2}, {}>>]}
=============================================================================
