----------------------------- MODULE MCSlotQueue -----------------------------
(* Small instances of SlotQueue: two cards for work and one for a plan. *)
EXTENDS SlotQueue

CONSTANTS w1, w2, p1, d1, d2, k1, k2

MCRoleOf   == (w1 :> "work") @@ (w2 :> "work") @@ (p1 :> "plan")
NoPlanPool == [r \in Roles |-> IF r = "work" THEN 1 ELSE 0]
OneOfEach  == [r \in Roles |-> 1]
==============================================================================
