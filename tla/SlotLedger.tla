----------------------------- MODULE SlotLedger -----------------------------
(***************************************************************************)
(* What the worker-pool registry promises its callers, with no counters,   *)
(* locks or candidate lists: every pool has a limit and a set of claimants *)
(* that hold one of its slots.  A claimant takes a slot only while the     *)
(* pool has fewer holders than its limit; only a worker that was already   *)
(* running before a restart may be entered regardless of the limit.        *)
(***************************************************************************)
EXTENDS Naturals, FiniteSets

CONSTANTS Pools,      \* pool ids
          Callers,    \* claimants: one spawn attempt or one running worker each
          Survivors   \* those of the claimants that were running before the restart

VARIABLES holders,    \* [Pools -> SUBSET Callers]
          limit       \* [Pools -> Nat]

ledgerVars == <<holders, limit>>

Idle(c) == \A p \in Pools : c \notin holders[p]

LedgerInit ==
  /\ holders = [p \in Pools |-> {}]
  /\ limit \in [Pools -> Nat]

Take(c, p) ==
  /\ Idle(c)
  /\ Cardinality(holders[p]) < limit[p]
  /\ holders' = [holders EXCEPT ![p] = @ \cup {c}]
  /\ UNCHANGED limit

Adopt(c, p) ==
  /\ c \in Survivors
  /\ Idle(c)
  /\ holders' = [holders EXCEPT ![p] = @ \cup {c}]
  /\ UNCHANGED limit

Return(c, p) ==
  /\ c \in holders[p]
  /\ holders' = [holders EXCEPT ![p] = @ \ {c}]
  /\ UNCHANGED limit

\* Lowering a limit evicts nobody: the pool is over its limit until slots return.
Resize(p) ==
  /\ limit'[p] \in Nat
  /\ limit' = [limit EXCEPT ![p] = limit'[p]]
  /\ UNCHANGED holders

Drop(p) ==
  /\ holders' = [holders EXCEPT ![p] = {}]
  /\ limit' = [limit EXCEPT ![p] = 0]

LedgerNext ==
  \E p \in Pools :
    \/ \E c \in Callers : Take(c, p) \/ Adopt(c, p) \/ Return(c, p)
    \/ Resize(p)
    \/ Drop(p)

LedgerSpec == LedgerInit /\ [][LedgerNext]_ledgerVars
=============================================================================
