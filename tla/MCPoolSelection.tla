--------------------------- MODULE MCPoolSelection ---------------------------
(* Two equal shared plan pools that rotate, one of them preferred by w2, and a *)
(* pool bound to w1 that the user may turn into a shared work pool.            *)
EXTENDS PoolSelection

CONSTANTS p1, p2, p3, w1, w2

PlanRow(capacity, priority, scope, enabled) ==
  [role |-> "plan", enabled |-> enabled, spawnable |-> TRUE, capacity |-> capacity,
   priority |-> priority, scope |-> scope]
WorkRow == [PlanRow(1, 1, Shared, TRUE) EXCEPT !.role = "work"]

MCPools      == {p1, p2, p3}
MCWorkspaces == {w1, w2}
MCFirstRows  == [p \in {p2, p3} |-> PlanRow(1, 1, IF p = p3 THEN w1 ELSE Shared, TRUE)]
MCRows ==
  [p \in MCPools |->
     CASE p = p1 -> {PlanRow(1, 1, Shared, TRUE)}
       [] p = p2 -> {PlanRow(2, 2, Shared, TRUE)}
       [] p = p3 -> {WorkRow}]
MCPreferred ==
  [w \in MCWorkspaces |->
     IF w = w2 THEN [plan |-> p2, work |-> NoPool] ELSE [plan |-> NoPool, work |-> NoPool]]

MCRequests == {[role |-> "plan", ws |-> w1], [role |-> "plan", ws |-> w2]}

AllSame == Permutations(Callers \ Survivors)
=============================================================================
