----------------------------- MODULE WorkerPool -----------------------------
(***************************************************************************)
(* internal/workerpool/pool.go: the registry of worker pools.  A caller    *)
(* that wants a slot walks up to three candidate lists (the workspace's    *)
(* preferred pool, the pools bound to the workspace, the shared pools).    *)
(* Each list is computed under the registry lock, which is then dropped;   *)
(* the slots are tried one by one under each pool's own mutex.  Between    *)
(* any two of those steps other callers take and return slots and the      *)
(* user edits or deletes pools.  The two ways the counters are overwritten *)
(* from outside (ReconcileActive, ResetAllActive) are in SlotQueue.        *)
(***************************************************************************)
EXTENDS Integers, SequencesExt

CONSTANTS Pools,       \* pool ids; an id is never reused after its pool is deleted
          Callers,     \* concurrent spawn attempts
          Survivors,   \* the callers that are workers found alive at startup
          Workspaces,
          Shared,      \* the scope of a pool that belongs to no workspace
          NoPool,
          Deletable,   \* the pools the user may delete
          Rows,        \* [Pools -> set of rows the user may save for the pool]
          Requests,    \* the acquires callers make: a set of [role, ws]
          Preferred,   \* [Workspaces -> [plan, work : Pools \cup {NoPool}]]
          FirstRows    \* the rows at startup: [subset of Pools -> row]

Roles  == {"plan", "work", "architect"}
Stages == {"preferred", "scoped", "shared"}
Row    == [role : Roles, enabled : BOOLEAN, spawnable : BOOLEAN, capacity : Nat,
           priority : Int, scope : Workspaces \cup {Shared}]
NoRow  == [role |-> "none"]

ASSUME PoolAssumption ==
  /\ IsFiniteSet(Callers) /\ IsFiniteSet(DOMAIN FirstRows)
  /\ Survivors \subseteq Callers
  /\ NoPool \notin Pools /\ Shared \notin Workspaces
  /\ Preferred \in [Workspaces -> [{"plan", "work"} -> Pools \cup {NoPool}]]
  /\ Requests \subseteq [role : Roles, ws : Workspaces]
  /\ Rows \in [Pools -> SUBSET Row]
  /\ DOMAIN FirstRows \subseteq Pools
  /\ \A p \in DOMAIN FirstRows : FirstRows[p] \in Row

VARIABLES meta,     \* r.meta and the pools' capacities: [Pools -> row or NoRow]
          order,    \* r.order: the registered ids, oldest first
          active,   \* Pool.active of each registered pool
          next,     \* nextPlanIdx, nextWorkIdx, nextArchitectIdx
          call,     \* where each caller is in AcquireForPlan / Work / Architect
          doomed,   \* pools whose DeletePool has passed its busy check
          retired   \* ids of deleted pools

registryVars == <<meta, order, active, next>>
vars == <<meta, order, active, next, call, doomed, retired>>

Registered == {p \in Pools : meta[p] # NoRow}

\* A call at `pc', on the list `stage' of which `ids' are still to be tried.
CallAt(pc, role, ws, stage, ids) ==
  [pc |-> pc, role |-> role, ws |-> ws, stage |-> stage, ids |-> ids, pool |-> NoPool]
Resting(pc, p) ==
  [pc |-> pc, role |-> "plan", ws |-> Shared, stage |-> "preferred", ids |-> <<>>, pool |-> p]
IdleCall == Resting("idle", NoPool)

Holders(p) == {c \in Callers : call[c].pc = "holding" /\ call[c].pool = p}

-----------------------------------------------------------------------------
\* Which pools a list holds, and in which order they are tried.

Eligible(p, role) ==
  /\ p \in Registered
  /\ meta[p].role = role
  /\ meta[p].enabled
  /\ meta[p].capacity > 0
  /\ meta[p].spawnable

\* Mutation of Full: the pool takes one caller too many.
FullOffByOne(p) == active[p] > meta[p].capacity

Full(p) == active[p] >= meta[p].capacity

Position(p) == CHOOSE i \in DOMAIN order : order[i] = p

\* Mutation of Precedes: the priorities are forgotten.
PrecedesByAge(p, q) == Position(p) < Position(q)

\* SliceStable by priority over r.order.
Precedes(p, q) ==
  \/ meta[p].priority < meta[q].priority
  \/ meta[p].priority = meta[q].priority /\ Position(p) < Position(q)

Ranked(S) ==
  CHOOSE s \in [1..Cardinality(S) -> S] : \A i, j \in DOMAIN s : i < j => Precedes(s[i], s[j])

ScopedPools(role, ws) == {p \in Pools : Eligible(p, role) /\ meta[p].scope = ws}

SharedPools(role) == {p \in Pools : Eligible(p, role) /\ meta[p].scope = Shared}

\* The pools tied for the best priority; only they rotate.
TopGroup(S) == {p \in S : \A q \in S : meta[p].priority <= meta[q].priority}

\* Mutation of RotateBy: the pool the index points at is left out.
RotatePast(s, n, k) == SubSeq(s, k + 2, n) \o SubSeq(s, 1, k) \o SubSeq(s, n + 1, Len(s))

RotateBy(s, n, k) == SubSeq(s, k + 1, n) \o SubSeq(s, 1, k) \o SubSeq(s, n + 1, Len(s))

SharedOrder(role) ==
  LET S == SharedPools(role)
      n == Cardinality(TopGroup(S))
  IN  IF S = {} THEN <<>> ELSE RotateBy(Ranked(S), n, next[role] % n)

PreferredPool(role, ws) ==
  IF role \in DOMAIN Preferred[ws] THEN Preferred[ws][role] ELSE NoPool

Candidates(role, ws, stage) ==
  CASE stage = "preferred" ->
         IF Eligible(PreferredPool(role, ws), role) THEN <<PreferredPool(role, ws)>> ELSE <<>>
    [] stage = "scoped" -> Ranked(ScopedPools(role, ws))
    [] stage = "shared" -> SharedOrder(role)

-----------------------------------------------------------------------------
\* A caller's steps.

\* The list `ids' of a stage is what is left to try: go on with it, with the
\* next stage, or return ("", false).  There is no fallback to another role.
Onward(req, ids) ==
  CASE ids # <<>> -> CallAt("try", req.role, req.ws, req.stage, ids)
    [] ids = <<>> /\ req.stage = "preferred" ->
         CallAt("select", req.role, req.ws, "scoped", <<>>)
    [] ids = <<>> /\ req.stage = "scoped" ->
         CallAt("select", req.role, req.ws, "shared", <<>>)
    [] ids = <<>> /\ req.stage = "shared" -> IdleCall

Begin(c, role, ws) ==
  /\ c \notin Survivors
  /\ call[c].pc = "idle"
  /\ call' = [call EXCEPT ![c] =
                CallAt("select", role, ws,
                       IF role = "architect" THEN "shared" ELSE "preferred", <<>>)]
  /\ UNCHANGED <<registryVars, doomed, retired>>

\* The round-robin index moves on even when no slot is got in the end.
Select(c) ==
  LET req == call[c]
      ids == Candidates(req.role, req.ws, req.stage)
  IN  /\ req.pc = "select"
      /\ call' = [call EXCEPT ![c] = Onward(req, ids)]
      /\ next' = IF req.stage = "shared" /\ ids # <<>>
                 THEN [next EXCEPT ![req.role] =
                         (@ + 1) % Cardinality(TopGroup(SharedPools(req.role)))]
                 ELSE next
      /\ UNCHANGED <<meta, order, active, doomed, retired>>

\* Pool.TryAcquire on the head of the list; a pool that has left the registry
\* is passed over.
CanTake(p) == p \in Registered /\ ~Full(p)

TryAcquire(c) ==
  LET req == call[c]
      p   == Head(req.ids)
  IN  /\ req.pc = "try"
      /\ \/ /\ CanTake(p)
            /\ active' = [active EXCEPT ![p] = @ + 1]
            /\ call' = [call EXCEPT ![c] = Resting("holding", p)]
         \/ /\ ~CanTake(p)
            /\ call' = [call EXCEPT ![c] = Onward(req, Tail(req.ids))]
            /\ UNCHANGED active
      /\ UNCHANGED <<meta, order, next, doomed, retired>>

\* Registry.ReleaseByPool: a pool deleted in the meantime is a no-op, and the
\* counter never goes below zero.
Decrement(n) == IF n > 0 THEN n - 1 ELSE n

ReleaseByPool(c) ==
  LET p == call[c].pool
  IN  /\ call[c].pc = "holding"
      /\ active' = IF p \in Registered THEN [active EXCEPT ![p] = Decrement(@)] ELSE active
      /\ call' = [call EXCEPT ![c] = IdleCall]
      /\ UNCHANGED <<meta, order, next, doomed, retired>>

\* Registry.AcquireSpecific: Reattach enters a worker that is still alive, at
\* its old pool and whatever the pool's capacity.
AcquireSpecific(c, p) ==
  /\ call[c].pc = "survivor"
  /\ p \in Registered
  /\ active' = [active EXCEPT ![p] = @ + 1]
  /\ call' = [call EXCEPT ![c] = Resting("holding", p)]
  /\ UNCHANGED <<meta, order, next, doomed, retired>>

-----------------------------------------------------------------------------
\* The user's edits, each ending in Registry.Sync of the rows in the database.

\* Mutation of SavePool: every edit starts the counter afresh.
SavePoolAfresh(p, row) ==
  /\ p \notin retired
  /\ row # meta[p]
  /\ meta' = [meta EXCEPT ![p] = row]
  /\ order' = IF p \in Registered THEN order ELSE Append(order, p)
  /\ active' = [active EXCEPT ![p] = 0]
  /\ UNCHANGED <<next, call, doomed, retired>>

\* Sync keeps the counter of a surviving pool and starts a new one at zero.
SavePool(p, row) ==
  /\ p \notin retired
  /\ row # meta[p]
  /\ meta' = [meta EXCEPT ![p] = row]
  /\ order' = IF p \in Registered THEN order ELSE Append(order, p)
  /\ active' = IF p \in Registered THEN active ELSE [active EXCEPT ![p] = 0]
  /\ UNCHANGED <<next, call, doomed, retired>>

\* DeletePool refuses a busy pool: the check ...
DeletePoolCheck(p) ==
  /\ p \in (Deletable \cap Registered) \ doomed
  /\ active[p] = 0
  /\ doomed' = doomed \cup {p}
  /\ UNCHANGED <<registryVars, call, retired>>

\* Mutation of DeletePool: the pool stays in r.order.
DeletePoolStaleOrder(p) ==
  /\ p \in doomed
  /\ meta' = [meta EXCEPT ![p] = NoRow]
  /\ active' = [active EXCEPT ![p] = 0]
  /\ doomed' = doomed \ {p}
  /\ retired' = retired \cup {p}
  /\ UNCHANGED <<order, next, call>>

\* ... and, later, the row's deletion and the Sync that drops the pool.
DeletePool(p) ==
  /\ p \in doomed
  /\ meta' = [meta EXCEPT ![p] = NoRow]
  /\ order' = RemoveAt(order, Position(p))
  /\ active' = [active EXCEPT ![p] = 0]
  /\ doomed' = doomed \ {p}
  /\ retired' = retired \cup {p}
  /\ UNCHANGED <<next, call>>

-----------------------------------------------------------------------------
Init ==
  /\ meta = [p \in Pools |-> IF p \in DOMAIN FirstRows THEN FirstRows[p] ELSE NoRow]
  /\ order = SetToSeq(DOMAIN FirstRows)
  /\ active = [p \in Pools |-> 0]
  /\ next = [r \in Roles |-> 0]
  /\ call = [c \in Callers |-> IF c \in Survivors THEN Resting("survivor", NoPool)
                                                  ELSE IdleCall]
  /\ doomed = {}
  /\ retired = {}

CallerStep(c) ==
  \/ \E req \in Requests : Begin(c, req.role, req.ws)
  \/ Select(c)
  \/ TryAcquire(c)
  \/ ReleaseByPool(c)
  \/ \E p \in Pools : AcquireSpecific(c, p)

UserStep(p) ==
  \/ \E row \in Rows[p] : SavePool(p, row)
  \/ DeletePoolCheck(p)
  \/ DeletePool(p)

Next == (\E c \in Callers : CallerStep(c)) \/ (\E p \in Pools : UserStep(p))

Spec == Init /\ [][Next]_vars

-----------------------------------------------------------------------------
Call == [pc : {"idle", "survivor", "select", "try", "holding"},
         role : Roles, ws : Workspaces \cup {Shared}, stage : Stages,
         ids : Seq(Pools), pool : Pools \cup {NoPool}]

\* The types of the registry's fields; r.order lists the registered ids once each.
TypeOK ==
  /\ meta \in [Pools -> Row \cup {NoRow}]
  /\ order \in Seq(Pools)
  /\ ToSet(order) = Registered
  /\ Len(order) = Cardinality(Registered)
  /\ active \in [Pools -> Nat]
  /\ next \in [Roles -> Nat]
  /\ call \in [Callers -> Call]
  /\ doomed \subseteq Registered
  /\ retired \subseteq Pools \ Registered

\* Pool.active is a hand-kept counter.  While every slot that is taken is
\* returned once, it counts exactly the callers that hold a slot of the pool,
\* whatever the user does to the pools in between.
SlotConservation == \A p \in Registered : active[p] = Cardinality(Holders(p))

\* The registry implements the ledger: the counter never lets a caller in that
\* the set of holders would not.
Ledger == INSTANCE SlotLedger WITH
  holders <- [p \in Pools |-> IF p \in Registered THEN Holders(p) ELSE {}],
  limit   <- [p \in Pools |-> IF p \in Registered THEN meta[p].capacity ELSE 0]

RegistryIsALedger == Ledger!LedgerSpec

=============================================================================
