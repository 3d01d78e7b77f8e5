-------------------------- MODULE MCSessionRecovery --------------------------
(* An execute worker that may say what its skill has it say, through a crash at any    *)
(* point, and a silent harness-run resume for the same issue.                *)
EXTENDS SessionManager

CONSTANTS s1, s2, i1

MCSessions == {s1, s2}
MCIssueOf  == [s \in MCSessions |-> i1]
MCEntryOf  == [s \in MCSessions |-> IF s = s1 THEN "execute" ELSE "resume"]
MCSays     == [s \in MCSessions |-> IF s = s1 THEN Sentinels \ {"ask"} ELSE {}]
MCMaxLines == [s \in MCSessions |-> IF s = s1 THEN 2 ELSE 0]
=============================================================================
