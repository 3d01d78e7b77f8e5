--------------------------- MODULE MCSessionGuard ---------------------------
(* Three calls that want an execute worker for the same issue within one run   *)
(* of the conductor: a fresh execute, a continue and a resume.                 *)
EXTENDS SessionManager

CONSTANTS s1, s2, s3, i1

MCSessions == {s1, s2, s3}
MCIssueOf  == [s \in MCSessions |-> i1]
MCEntryOf  == [s \in MCSessions |-> CASE s = s1 -> "execute" [] s = s2 -> "continue"
                                      [] s = s3 -> "resume"]
MCSays     == [s \in MCSessions |-> CASE s = s1 -> {"pr"} [] s = s2 -> {"complete"}
                                      [] s = s3 -> {"ask"}]
MCMaxLines == [s \in MCSessions |-> 1]
=============================================================================
