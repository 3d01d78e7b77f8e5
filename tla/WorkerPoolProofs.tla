-------------------------- MODULE WorkerPoolProofs --------------------------
(***************************************************************************)
(* The pool counters count, the registry implements the ledger, and a call *)
(* ends with the pool it is owed, for every set of pools, callers and      *)
(* workspaces and every rows the user may save.                            *)
(*                                                                         *)
(* The counters: the counter of a pool and the set of callers that hold    *)
(* one of its slots change together, and a pool that has never been        *)
(* registered has no holders.  The second half is what makes the counter   *)
(* of a pool the user has just created right: ids are not reused.          *)
(*                                                                         *)
(* The calls (WatchInv): a pool that has had a free slot since the call    *)
(* began stands on the list being tried or on a later one.  It rests on    *)
(* what a list holds (CandidatesAre), hence on r.order listing every       *)
(* registered pool once (RegistryInv) and on the round robin moving none   *)
(* but the pools that tie for the best priority (TopFirst, Rotated).       *)
(***************************************************************************)
EXTENDS PoolSelection, FiniteSetTheorems, SequenceTheorems, WellFoundedInduction, TLAPS

CallsTyped ==
  /\ call = [c \in Callers |-> call[c]]
  /\ \A c \in Callers :
       /\ call[c].stage \in Stages
       /\ call[c].pc = "holding" => call[c].pool \in Pools
       /\ call[c].pc = "survivor" => c \in Survivors

PoolsTyped ==
  /\ meta \in [Pools -> Row \cup {NoRow}]
  /\ active \in [Pools -> Nat]
  /\ doomed \subseteq Pools
  /\ retired \subseteq Pools \ Registered

\* Only a pool that is or was registered can be held.
NewPoolsAreUnheld == \A p \in Pools \ (Registered \cup retired) : Holders(p) = {}

IInv == CallsTyped /\ PoolsTyped /\ NewPoolsAreUnheld /\ SlotConservation

-----------------------------------------------------------------------------
LEMMA HoldersFinite ==
  \A p : IsFiniteSet(Holders(p)) /\ Cardinality(Holders(p)) \in Nat
PROOF
  <1> TAKE p
  <1>1. Holders(p) \subseteq Callers
    BY DEF Holders
  <1>2. IsFiniteSet(Holders(p))
    BY <1>1, PoolAssumption, FS_Subset
  <1> QED BY <1>2, FS_CardinalityType

LEMMA RowIsNotNoRow == \A row \in Row : row # NoRow /\ row.capacity \in Nat
BY DEF Row, NoRow, Roles

LEMMA InitIInv == Init => IInv
PROOF
  <1> SUFFICES ASSUME Init PROVE IInv
    OBVIOUS
  <1> USE DEF Init, Resting, IdleCall
  <1>1. CallsTyped
    BY DEF CallsTyped, Stages
  <1>2. PoolsTyped
    BY PoolAssumption DEF PoolsTyped
  <1>3. \A p : Holders(p) = {}
    BY DEF Holders
  <1>4. NewPoolsAreUnheld
    BY <1>3 DEF NewPoolsAreUnheld
  <1>5. SlotConservation
    BY <1>3, FS_EmptySet DEF SlotConservation, Registered
  <1> QED BY <1>1, <1>2, <1>4, <1>5 DEF IInv

-----------------------------------------------------------------------------
\* The three things a step can do to the holders.

\* A caller that holds nothing before and after the step.
LEMMA HoldersKept ==
  ASSUME CallsTyped, NEW c \in Callers, NEW k,
         call[c].pc # "holding", k.pc # "holding",
         call' = [call EXCEPT ![c] = k]
  PROVE  \A p : Holders(p)' = Holders(p)
BY DEF Holders, CallsTyped

LEMMA HoldersGrow ==
  ASSUME CallsTyped, NEW c \in Callers, NEW p,
         call[c].pc # "holding",
         call' = [call EXCEPT ![c] = Resting("holding", p)]
  PROVE  /\ c \notin Holders(p)
         /\ Holders(p)' = Holders(p) \cup {c}
         /\ \A q : q # p => Holders(q)' = Holders(q)
BY DEF Holders, CallsTyped, Resting

LEMMA HoldersShrink ==
  ASSUME CallsTyped, NEW c \in Callers, NEW p,
         call[c].pc = "holding", call[c].pool = p,
         call' = [call EXCEPT ![c] = IdleCall]
  PROVE  /\ c \in Holders(p)
         /\ Holders(p)' = Holders(p) \ {c}
         /\ \A q : q # p => Holders(q)' = Holders(q)
BY DEF Holders, CallsTyped, Resting, IdleCall

\* Onward never makes a caller a holder, and keeps its place in a known list.
LEMMA OnwardHoldsNothing ==
  ASSUME NEW req, NEW ids, req.stage \in Stages
  PROVE  Onward(req, ids).pc \in {"idle", "select", "try"} /\ Onward(req, ids).stage \in Stages
BY DEF Onward, CallAt, Resting, IdleCall, Stages

-----------------------------------------------------------------------------
\* One lemma per action: what it does to the counters and to the holders.

\* Begin, Select, and TryAcquire on a full pool.
LEMMA CallOnly ==
  ASSUME IInv, NEW c \in Callers, NEW k,
         call[c].pc # "holding", k.pc \in {"idle", "select", "try"}, k.stage \in Stages,
         call' = [call EXCEPT ![c] = k],
         UNCHANGED <<meta, active, doomed, retired>>
  PROVE  IInv'
PROOF
  <1> USE DEF IInv
  <1>1. \A p : Holders(p)' = Holders(p)
    BY HoldersKept
  <1>2. CallsTyped'
    BY DEF CallsTyped
  <1>3. PoolsTyped' /\ Registered' = Registered
    BY DEF PoolsTyped, Registered
  <1>4. NewPoolsAreUnheld'
    BY <1>1, <1>3 DEF NewPoolsAreUnheld
  <1>5. SlotConservation'
    BY <1>1, <1>3 DEF SlotConservation
  <1> QED BY <1>2, <1>3, <1>4, <1>5

\* A slot is taken: by TryAcquire or AcquireSpecific.
LEMMA TakeSlot ==
  ASSUME IInv, NEW c \in Callers, NEW p \in Registered,
         call[c].pc # "holding",
         call' = [call EXCEPT ![c] = Resting("holding", p)],
         active' = [active EXCEPT ![p] = @ + 1],
         UNCHANGED <<meta, doomed, retired>>
  PROVE  IInv'
PROOF
  <1> USE DEF IInv
  <1>0. p \in Pools
    BY DEF Registered
  <1>1. /\ c \notin Holders(p)
        /\ Holders(p)' = Holders(p) \cup {c}
        /\ \A q : q # p => Holders(q)' = Holders(q)
    BY HoldersGrow
  <1>2. CallsTyped'
    BY <1>0 DEF CallsTyped, Resting, Stages
  <1>3. PoolsTyped' /\ Registered' = Registered
    BY <1>0 DEF PoolsTyped, Registered
  <1>4. NewPoolsAreUnheld'
    BY <1>1, <1>3 DEF NewPoolsAreUnheld
  <1>5. Cardinality(Holders(p)') = Cardinality(Holders(p)) + 1
    BY <1>1, HoldersFinite, FS_AddElement
  <1>6. SlotConservation'
    BY <1>0, <1>1, <1>3, <1>5 DEF SlotConservation, PoolsTyped, Registered
  <1> QED BY <1>2, <1>3, <1>4, <1>6

LEMMA ReturnSlot ==
  ASSUME IInv, NEW c \in Callers, NEW p, p = call[c].pool, ReleaseByPool(c)
  PROVE  IInv'
PROOF
  <1> USE DEF IInv
  <1>0. p \in Pools
    BY DEF CallsTyped, ReleaseByPool
  <1>1. /\ c \in Holders(p)
        /\ Holders(p)' = Holders(p) \ {c}
        /\ \A q : q # p => Holders(q)' = Holders(q)
    BY HoldersShrink DEF ReleaseByPool
  <1>2. CallsTyped'
    BY DEF CallsTyped, ReleaseByPool, Resting, IdleCall, Stages
  <1>3. PoolsTyped' /\ Registered' = Registered
    BY <1>0 DEF PoolsTyped, Registered, ReleaseByPool, Decrement
  <1>4. NewPoolsAreUnheld'
    BY <1>1, <1>3 DEF NewPoolsAreUnheld, ReleaseByPool
  <1>5. /\ Cardinality(Holders(p)') = Cardinality(Holders(p)) - 1
        /\ Cardinality(Holders(p)) > 0
    <2>1. Cardinality(Holders(p) \ {c}) = Cardinality(Holders(p)) - 1
      BY <1>1, HoldersFinite, FS_RemoveElement
    <2>2. IsFiniteSet(Holders(p) \ {c})
      BY HoldersFinite, FS_Subset
    <2>3. Cardinality(Holders(p) \ {c}) \in Nat
      BY <2>2, FS_CardinalityType
    <2> QED BY <1>1, <2>1, <2>3, HoldersFinite
  <1>6. SlotConservation'
    <2> SUFFICES ASSUME NEW q \in Registered
                 PROVE  active'[q] = Cardinality(Holders(q)')
      BY <1>3 DEF SlotConservation
    <2>0. active \in [Pools -> Nat] /\ q \in Pools
      BY DEF PoolsTyped, Registered
    <2>1. active[q] = Cardinality(Holders(q))
      BY DEF SlotConservation
    <2>2. CASE q = p
      BY <2>0, <2>1, <2>2, <1>0, <1>5 DEF ReleaseByPool, Decrement
    <2>3. CASE q # p
      BY <2>0, <2>1, <2>3, <1>1 DEF ReleaseByPool
    <2> QED BY <2>2, <2>3
  <1> QED BY <1>2, <1>3, <1>4, <1>6

LEMMA SaveKeeps ==
  ASSUME IInv, NEW p \in Pools, NEW row \in Rows[p], SavePool(p, row)
  PROVE  IInv'
PROOF
  <1> USE DEF IInv
  <1>0. row \in Row /\ row # NoRow
    BY PoolAssumption, RowIsNotNoRow
  <1>1. \A q : Holders(q)' = Holders(q)
    BY DEF SavePool, Holders
  <1>2. CallsTyped'
    BY DEF SavePool, CallsTyped
  <1>3. Registered' = Registered \cup {p}
    BY <1>0 DEF SavePool, Registered, PoolsTyped
  <1>4. PoolsTyped'
    BY <1>0, <1>3 DEF SavePool, PoolsTyped
  <1>5. NewPoolsAreUnheld'
    BY <1>1, <1>3 DEF NewPoolsAreUnheld, SavePool
  <1>6. SlotConservation'
    <2> SUFFICES ASSUME NEW q \in Registered \cup {p}
                 PROVE  active'[q] = Cardinality(Holders(q))
      BY <1>1, <1>3 DEF SlotConservation
    <2>1. CASE q \in Registered
      BY <2>1 DEF SlotConservation, SavePool, PoolsTyped
    <2>2. CASE q \notin Registered
      <3>1. q = p /\ Holders(q) = {}
        BY <2>2 DEF NewPoolsAreUnheld, SavePool
      <3>2. active'[q] = 0
        BY <2>2, <3>1 DEF SavePool, PoolsTyped
      <3> QED BY <3>1, <3>2, FS_EmptySet
    <2> QED BY <2>1, <2>2
  <1> QED BY <1>2, <1>4, <1>5, <1>6

\* The busy check of a deletion changes nothing the invariant looks at.
LEMMA DoomKeeps ==
  ASSUME IInv, UNCHANGED <<meta, active, call, retired>>, doomed' \subseteq Pools
  PROVE  IInv'
PROOF
  <1> USE DEF IInv
  <1>1. \A q : Holders(q)' = Holders(q)
    BY DEF Holders
  <1>2. Registered' = Registered
    BY DEF Registered
  <1>3. CallsTyped'
    BY DEF CallsTyped
  <1>4. PoolsTyped'
    BY <1>2 DEF PoolsTyped
  <1>5. NewPoolsAreUnheld' /\ SlotConservation'
    BY <1>1, <1>2 DEF NewPoolsAreUnheld, SlotConservation
  <1> QED BY <1>3, <1>4, <1>5

LEMMA DeleteKeeps ==
  ASSUME IInv, NEW p \in Pools, DeletePool(p)
  PROVE  IInv'
PROOF
  <1> USE DEF IInv
  <1>1. \A q : Holders(q)' = Holders(q)
    BY DEF DeletePool, Holders
  <1>2. CallsTyped'
    BY DEF DeletePool, CallsTyped
  <1>3. Registered' = Registered \ {p}
    BY DEF DeletePool, Registered, PoolsTyped
  <1>4. PoolsTyped'
    BY <1>3 DEF DeletePool, PoolsTyped
  <1>5. NewPoolsAreUnheld'
    BY <1>1, <1>3 DEF NewPoolsAreUnheld, DeletePool
  <1>6. SlotConservation'
    BY <1>1, <1>3 DEF SlotConservation, DeletePool, PoolsTyped
  <1> QED BY <1>2, <1>4, <1>5, <1>6

-----------------------------------------------------------------------------
LEMMA NextIInv == IInv /\ [Next]_vars => IInv'
PROOF
  <1> SUFFICES ASSUME IInv, [Next]_vars PROVE IInv'
    OBVIOUS
  <1> USE DEF IInv
  <1>0. \A c \in Callers : call[c].stage \in Stages
    BY DEF CallsTyped
  <1>1. ASSUME NEW c \in Callers, NEW req \in Requests, Begin(c, req.role, req.ws)
        PROVE  IInv'
    <2> DEFINE k == CallAt("select", req.role, req.ws,
                           IF req.role = "architect" THEN "shared" ELSE "preferred", <<>>)
    <2>1. k.pc = "select" /\ k.stage \in Stages
      BY DEF CallAt, Stages
    <2>2. call' = [call EXCEPT ![c] = k]
      BY <1>1 DEF Begin
    <2> HIDE DEF k
    <2> QED BY <1>1, <2>1, <2>2, CallOnly DEF Begin, registryVars
  <1>2. ASSUME NEW c \in Callers, Select(c)
        PROVE  IInv'
    <2> DEFINE k == Onward(call[c], Candidates(call[c].role, call[c].ws, call[c].stage))
    <2>1. k.pc \in {"idle", "select", "try"} /\ k.stage \in Stages
      BY <1>0, OnwardHoldsNothing
    <2>2. call' = [call EXCEPT ![c] = k]
      BY <1>2 DEF Select
    <2> HIDE DEF k
    <2> QED BY <1>2, <2>1, <2>2, CallOnly DEF Select
  <1>3. ASSUME NEW c \in Callers, TryAcquire(c)
        PROVE  IInv'
    <2> DEFINE p == Head(call[c].ids)
    <2>1. CASE CanTake(p)
      BY <1>3, <2>1, TakeSlot DEF TryAcquire, CanTake
    <2>2. CASE ~CanTake(p)
      <3> DEFINE k == Onward(call[c], Tail(call[c].ids))
      <3>1. k.pc \in {"idle", "select", "try"} /\ k.stage \in Stages
        BY <1>0, OnwardHoldsNothing
      <3>2. call' = [call EXCEPT ![c] = k] /\ UNCHANGED active
        BY <1>3, <2>2 DEF TryAcquire
      <3> HIDE DEF k
      <3> QED BY <1>3, <3>1, <3>2, CallOnly DEF TryAcquire
    <2> QED BY <2>1, <2>2
  <1>4. ASSUME NEW c \in Callers, ReleaseByPool(c)
        PROVE  IInv'
    BY <1>4, ReturnSlot
  <1>5. ASSUME NEW c \in Callers, NEW p \in Pools, AcquireSpecific(c, p)
        PROVE  IInv'
    BY <1>5, TakeSlot DEF AcquireSpecific
  <1>6. ASSUME NEW p \in Pools, NEW row \in Rows[p], SavePool(p, row)
        PROVE  IInv'
    BY <1>6, SaveKeeps
  <1>7. ASSUME NEW p \in Pools, DeletePoolCheck(p)
        PROVE  IInv'
    BY <1>7, DoomKeeps DEF DeletePoolCheck, registryVars, PoolsTyped
  <1>8. ASSUME NEW p \in Pools, DeletePool(p)
        PROVE  IInv'
    BY <1>8, DeleteKeeps
  <1>9. CASE UNCHANGED vars
    BY <1>9, DoomKeeps DEF vars, PoolsTyped
  <1> QED
    BY <1>1, <1>2, <1>3, <1>4, <1>5, <1>6, <1>7, <1>8, <1>9 DEF Next, CallerStep, UserStep

\* The strengthening of the pool's invariants holds in every reachable state.
THEOREM Invariance == Spec => []IInv
PROOF
  <1>1. Init => IInv
    BY InitIInv
  <1>2. IInv /\ [Next]_vars => IInv'
    BY NextIInv
  <1> QED BY <1>1, <1>2, PTL DEF Spec

\* Every pool's counter equals the number of callers that hold one of its slots.
THEOREM CountersCount == Spec => []SlotConservation
PROOF
  <1>1. IInv => SlotConservation
    BY DEF IInv
  <1> QED BY <1>1, Invariance, PTL
-----------------------------------------------------------------------------
\* The registry implements the ledger.  These are what Ledger puts for the
\* ledger's variables.

AbsHolders == [p \in Pools |-> IF p \in Registered THEN Holders(p) ELSE {}]
AbsLimit   == [p \in Pools |-> IF p \in Registered THEN meta[p].capacity ELSE 0]

LEMMA LimitsAreNat == PoolsTyped => AbsLimit \in [Pools -> Nat]
PROOF
  <1> SUFFICES ASSUME PoolsTyped, NEW p \in Pools
               PROVE  (IF p \in Registered THEN meta[p].capacity ELSE 0) \in Nat
    BY DEF AbsLimit
  <1>1. p \in Registered => meta[p] \in Row
    BY DEF PoolsTyped, Registered
  <1> QED BY <1>1, RowIsNotNoRow

LEMMA TryAcquireTakes ==
  ASSUME IInv, NEW c \in Callers, NEW p, CanTake(p),
         call[c].pc # "holding",
         call' = [call EXCEPT ![c] = Resting("holding", p)],
         active' = [active EXCEPT ![p] = @ + 1],
         UNCHANGED meta
  PROVE  p \in Pools /\ Ledger!Take(c, p)
PROOF
  <1> USE DEF IInv
  <1>1. p \in Pools /\ p \in Registered /\ Registered' = Registered
    BY DEF CanTake, Registered
  <1>2. /\ Holders(p)' = Holders(p) \cup {c}
        /\ \A q : q # p => Holders(q)' = Holders(q)
    BY HoldersGrow
  <1>3. Ledger!Idle(c)
    BY DEF Ledger!Idle, Holders
  <1>4. Cardinality(AbsHolders[p]) < AbsLimit[p]
    <2>1. active[p] = Cardinality(Holders(p)) /\ active[p] \in Nat
      BY <1>1 DEF SlotConservation, PoolsTyped
    <2>2. meta[p].capacity \in Nat
      BY <1>1, RowIsNotNoRow DEF PoolsTyped, Registered
    <2> QED BY <1>1, <2>1, <2>2 DEF CanTake, Full, AbsHolders, AbsLimit
  <1>5. AbsHolders' = [AbsHolders EXCEPT ![p] = @ \cup {c}]
    BY <1>1, <1>2 DEF AbsHolders
  <1>6. AbsLimit' = AbsLimit
    BY <1>1 DEF AbsLimit
  <1>7. Ledger!Cardinality(AbsHolders[p]) = Cardinality(AbsHolders[p])
    BY DEF Ledger!Cardinality, Cardinality
  <1> QED BY <1>1, <1>3, <1>4, <1>5, <1>6, <1>7 DEF Ledger!Take, AbsHolders, AbsLimit

LEMMA AcquireSpecificAdopts ==
  ASSUME IInv, NEW c \in Callers, NEW p \in Pools, AcquireSpecific(c, p)
  PROVE  Ledger!Adopt(c, p)
PROOF
  <1> USE DEF IInv
  <1>1. /\ p \in Registered /\ Registered' = Registered
        /\ call[c].pc # "holding" /\ c \in Survivors
    BY DEF AcquireSpecific, Registered, CallsTyped
  <1>2. /\ Holders(p)' = Holders(p) \cup {c}
        /\ \A q : q # p => Holders(q)' = Holders(q)
    BY <1>1, HoldersGrow DEF AcquireSpecific
  <1>3. Ledger!Idle(c)
    BY <1>1 DEF Ledger!Idle, Holders
  <1>4. AbsHolders' = [AbsHolders EXCEPT ![p] = @ \cup {c}]
    BY <1>1, <1>2 DEF AbsHolders
  <1>5. AbsLimit' = AbsLimit
    BY <1>1 DEF AbsLimit, AcquireSpecific
  <1> QED BY <1>1, <1>3, <1>4, <1>5 DEF Ledger!Adopt, AbsHolders, AbsLimit

\* The slot of a pool that has been deleted is nobody's: then nothing happens.
LEMMA ReleaseReturns ==
  ASSUME IInv, NEW c \in Callers, NEW p, p = call[c].pool, ReleaseByPool(c)
  PROVE  p \in Pools /\ (Ledger!Return(c, p) \/ UNCHANGED <<AbsHolders, AbsLimit>>)
PROOF
  <1> USE DEF IInv
  <1>1. p \in Pools /\ Registered' = Registered
    BY DEF CallsTyped, ReleaseByPool, Registered
  <1>2. /\ c \in Holders(p)
        /\ Holders(p)' = Holders(p) \ {c}
        /\ \A q : q # p => Holders(q)' = Holders(q)
    BY HoldersShrink DEF ReleaseByPool
  <1>3. AbsLimit' = AbsLimit
    BY <1>1 DEF AbsLimit, ReleaseByPool
  <1>4. CASE p \in Registered
    <2>1. AbsHolders' = [AbsHolders EXCEPT ![p] = @ \ {c}]
      BY <1>1, <1>2, <1>4 DEF AbsHolders
    <2> QED BY <1>1, <1>2, <1>3, <1>4, <2>1 DEF Ledger!Return, AbsHolders, AbsLimit
  <1>5. CASE p \notin Registered
    <2>1. AbsHolders' = AbsHolders
      BY <1>1, <1>2, <1>5 DEF AbsHolders
    <2> QED BY <1>1, <1>3, <2>1
  <1> QED BY <1>4, <1>5

LEMMA SaveResizes ==
  ASSUME IInv, IInv', NEW p \in Pools, NEW row \in Rows[p], SavePool(p, row)
  PROVE  Ledger!Resize(p)
PROOF
  <1> USE DEF IInv
  <1>0. row \in Row /\ row # NoRow
    BY PoolAssumption, RowIsNotNoRow
  <1>1. Registered' = Registered \cup {p}
    BY <1>0 DEF SavePool, Registered, PoolsTyped
  <1>2. \A q : Holders(q)' = Holders(q)
    BY DEF SavePool, Holders
  <1>3. p \notin Registered => Holders(p) = {}
    BY DEF NewPoolsAreUnheld, SavePool
  <1>4. AbsHolders' = AbsHolders
    BY <1>1, <1>2, <1>3 DEF AbsHolders
  <1>5. AbsLimit'[p] \in Nat
    <2>1. PoolsTyped'
      OBVIOUS
    <2>2. (AbsLimit \in [Pools -> Nat])'
      BY <2>1, LimitsAreNat, PTL
    <2> QED BY <2>2
  <1>6. AbsLimit' = [AbsLimit EXCEPT ![p] = AbsLimit'[p]]
    BY <1>1 DEF AbsLimit, SavePool, PoolsTyped
  <1> QED BY <1>4, <1>5, <1>6 DEF Ledger!Resize, AbsHolders, AbsLimit

LEMMA DeleteDrops ==
  ASSUME IInv, NEW p \in Pools, DeletePool(p)
  PROVE  Ledger!Drop(p)
PROOF
  <1> USE DEF IInv
  <1>1. Registered' = Registered \ {p}
    BY DEF DeletePool, Registered, PoolsTyped
  <1>2. \A q : Holders(q)' = Holders(q)
    BY DEF DeletePool, Holders
  <1>3. AbsHolders' = [AbsHolders EXCEPT ![p] = {}]
    BY <1>1, <1>2 DEF AbsHolders
  <1>4. AbsLimit' = [AbsLimit EXCEPT ![p] = 0]
    BY <1>1 DEF AbsLimit, DeletePool, PoolsTyped
  <1> QED BY <1>3, <1>4 DEF Ledger!Drop, AbsHolders, AbsLimit

\* Looking for a pool is invisible in the ledger.
LEMMA SearchStutters ==
  ASSUME IInv, NEW c \in Callers, NEW k, call[c].pc # "holding", k.pc # "holding",
         call' = [call EXCEPT ![c] = k], UNCHANGED meta
  PROVE  UNCHANGED <<AbsHolders, AbsLimit>>
PROOF
  <1>1. \A p : Holders(p)' = Holders(p)
    BY HoldersKept DEF IInv
  <1>2. Registered' = Registered
    BY DEF Registered
  <1> QED BY <1>1, <1>2 DEF AbsHolders, AbsLimit

LEMMA StepMaps ==
  IInv /\ IInv' /\ [Next]_vars => [Ledger!LedgerNext]_(Ledger!ledgerVars)
PROOF
  <1> SUFFICES ASSUME IInv, IInv', [Next]_vars
               PROVE  Ledger!LedgerNext \/ UNCHANGED <<AbsHolders, AbsLimit>>
    BY DEF Ledger!ledgerVars, AbsHolders, AbsLimit
  <1>0. \A c \in Callers : call[c].stage \in Stages
    BY DEF IInv, CallsTyped
  <1> USE DEF Ledger!LedgerNext
  <1>1. ASSUME NEW c \in Callers, NEW req \in Requests, Begin(c, req.role, req.ws)
        PROVE  UNCHANGED <<AbsHolders, AbsLimit>>
    BY <1>1, SearchStutters DEF Begin, CallAt, registryVars
  <1>2. ASSUME NEW c \in Callers, Select(c)
        PROVE  UNCHANGED <<AbsHolders, AbsLimit>>
    <2> DEFINE k == Onward(call[c], Candidates(call[c].role, call[c].ws, call[c].stage))
    <2>1. k.pc # "holding"
      BY <1>0, OnwardHoldsNothing
    <2>2. call' = [call EXCEPT ![c] = k]
      BY <1>2 DEF Select
    <2> HIDE DEF k
    <2> QED BY <1>2, <2>1, <2>2, SearchStutters DEF Select
  <1>3. ASSUME NEW c \in Callers, TryAcquire(c)
        PROVE  Ledger!LedgerNext \/ UNCHANGED <<AbsHolders, AbsLimit>>
    <2>1. CASE CanTake(Head(call[c].ids))
      BY <1>3, <2>1, TryAcquireTakes DEF TryAcquire
    <2>2. CASE ~CanTake(Head(call[c].ids))
      <3> DEFINE k == Onward(call[c], Tail(call[c].ids))
      <3>1. k.pc # "holding"
        BY <1>0, OnwardHoldsNothing
      <3>2. call' = [call EXCEPT ![c] = k]
        BY <1>3, <2>2 DEF TryAcquire
      <3> HIDE DEF k
      <3> QED BY <1>3, <3>1, <3>2, SearchStutters DEF TryAcquire
    <2> QED BY <2>1, <2>2
  <1>4. ASSUME NEW c \in Callers, ReleaseByPool(c)
        PROVE  Ledger!LedgerNext \/ UNCHANGED <<AbsHolders, AbsLimit>>
    BY <1>4, ReleaseReturns
  <1>5. ASSUME NEW c \in Callers, NEW p \in Pools, AcquireSpecific(c, p)
        PROVE  Ledger!LedgerNext
    BY <1>5, AcquireSpecificAdopts
  <1>6. ASSUME NEW p \in Pools, NEW row \in Rows[p], SavePool(p, row)
        PROVE  Ledger!LedgerNext
    BY <1>6, SaveResizes
  <1>7. ASSUME NEW p \in Pools, DeletePoolCheck(p)
        PROVE  UNCHANGED <<AbsHolders, AbsLimit>>
    BY <1>7 DEF DeletePoolCheck, registryVars, AbsHolders, AbsLimit, Holders, Registered
  <1>8. ASSUME NEW p \in Pools, DeletePool(p)
        PROVE  Ledger!LedgerNext
    BY <1>8, DeleteDrops
  <1>9. CASE UNCHANGED vars
    BY <1>9 DEF vars, AbsHolders, AbsLimit, Holders, Registered
  <1> QED
    BY <1>1, <1>2, <1>3, <1>4, <1>5, <1>6, <1>7, <1>8, <1>9 DEF Next, CallerStep, UserStep

LEMMA InitMaps == Init => Ledger!LedgerInit
PROOF
  <1> SUFFICES ASSUME Init PROVE Ledger!LedgerInit
    OBVIOUS
  <1>1. IInv
    BY InitIInv
  <1>2. \A p : Holders(p) = {}
    BY DEF Init, Holders, Resting, IdleCall
  <1>3. AbsLimit \in [Pools -> Nat]
    BY <1>1, LimitsAreNat DEF IInv
  <1> QED BY <1>2, <1>3 DEF Ledger!LedgerInit, AbsLimit

\* Whatever lists a call walks and whatever the user edits meanwhile, the registry
\* lets a caller in exactly when a ledger of holders would.
THEOREM Refinement == Spec => RegistryIsALedger
PROOF
  <1>1. Init => Ledger!LedgerInit
    BY InitMaps
  <1>2. IInv /\ IInv' /\ [Next]_vars => [Ledger!LedgerNext]_(Ledger!ledgerVars)
    BY StepMaps
  <1> QED BY <1>1, <1>2, Invariance, PTL DEF Spec, RegistryIsALedger, Ledger!LedgerSpec

-----------------------------------------------------------------------------
\* The order of the registry, and the lists that are cut from it.

\* r.order lists the registered pools, each once.
Ordered ==
  /\ order \in Seq(Pools)
  /\ ToSet(order) = Registered
  /\ \A i, j \in DOMAIN order : order[i] = order[j] => i = j

\* The registered pools are finitely many, as they are listed.
LEMMA FewRegistered ==
  ASSUME Ordered
  PROVE  /\ IsFiniteSet(Registered) /\ Cardinality(Registered) = Len(order)
<1>1. /\ Len(order) \in Nat /\ DOMAIN order = 1..Len(order)
      /\ order \in [1..Len(order) -> Registered]
  <2>1. Len(order) \in Nat /\ DOMAIN order = 1..Len(order) /\ order \in [1..Len(order) -> Pools]
    BY LenProperties DEF Ordered
  <2>2. \A n \in 1..Len(order) : order[n] \in Registered
    BY <2>1 DEF Ordered, ToSet
  <2> QED BY <2>1, <2>2
<1>2. IsFiniteSet(1..Len(order)) /\ Cardinality(1..Len(order)) = Len(order)
  BY <1>1, FS_Interval
<1>3. order \in Bijection(1..Len(order), Registered)
  BY <1>1 DEF Ordered, ToSet, Bijection, Injection, Surjection, IsInjective
<1> QED BY <1>2, <1>3, FS_Bijection DEF ExistsBijection

LEMMA PositionIs ==
  ASSUME Ordered, NEW p \in Registered
  PROVE  Position(p) \in DOMAIN order /\ order[Position(p)] = p
BY DEF Ordered, ToSet, Position

\* On the registered pools Precedes is a strict order, by priority and then by age.
LEMMA PrecedesOrders ==
  ASSUME Ordered, PoolsTyped
  PROVE  /\ \A p \in Registered : ~Precedes(p, p)
         /\ \A p, q \in Registered : p # q => Precedes(p, q) \/ Precedes(q, p)
         /\ \A p, q, r \in Registered : Precedes(p, q) /\ Precedes(q, r) => Precedes(p, r)
<1>1. \A p \in Registered : meta[p].priority \in Int
  BY DEF Registered, PoolsTyped, Row
<1>2. \A p \in Registered : Position(p) \in Int /\ order[Position(p)] = p
  BY PositionIs, LenProperties DEF Ordered
<1> QED BY <1>1, <1>2 DEF Precedes

\* A sorted sequence of the pools of S exists, and Ranked(S) is one.
LEMMA SortedExists ==
  ASSUME Ordered, PoolsTyped, NEW S, S \subseteq Registered
  PROVE  /\ IsFiniteSet(S) /\ Cardinality(S) \in Nat
         /\ \E s \in [1..Cardinality(S) -> S] : \A i, j \in DOMAIN s : i < j => Precedes(s[i], s[j])
<1> DEFINE n == Cardinality(S)
           Before(p) == {q \in S : Precedes(q, p)}
           rank == [p \in S |-> Cardinality(Before(p)) + 1]
<1>1. IsFiniteSet(S) /\ n \in Nat
  BY FewRegistered, FS_Subset, FS_CardinalityType
<1>2. ASSUME NEW p \in S
      PROVE  /\ IsFiniteSet(Before(p)) /\ Cardinality(Before(p)) \in Nat
             /\ Cardinality(Before(p)) <= n - 1
  <2>1. IsFiniteSet(S \ {p}) /\ Cardinality(S \ {p}) = n - 1
    BY <1>1, FS_RemoveElement
  <2>2. Before(p) \subseteq S \ {p}
    BY PrecedesOrders
  <2> QED BY <2>1, <2>2, FS_Subset, FS_CardinalityType
<1>3. ASSUME NEW p \in S, NEW q \in S, Precedes(p, q)
      PROVE  rank[p] < rank[q]
  <2>1. /\ IsFiniteSet(Before(p) \cup {p})
        /\ Cardinality(Before(p) \cup {p}) = Cardinality(Before(p)) + 1
    <3>1. p \notin Before(p)
      BY PrecedesOrders
    <3> HIDE DEF Before
    <3> QED BY <1>2, <3>1, FS_AddElement
  <2>2. Before(p) \cup {p} \subseteq Before(q)
    BY <1>3, PrecedesOrders
  <2>3. Cardinality(Before(p) \cup {p}) <= Cardinality(Before(q))
    BY <2>2, <1>2, FS_Subset
  <2> HIDE DEF Before
  <2> QED BY <2>1, <2>3, <1>2
<1>4. rank \in [S -> 1..n]
  <2> HIDE DEF Before
  <2> QED BY <1>1, <1>2
<1>5. \A p, q \in S : p # q => rank[p] # rank[q]
  <2> HIDE DEF rank
  <2> QED BY <1>3, <1>4, <1>1, PrecedesOrders
<1>6. \A i \in 1..n : \E p \in S : rank[p] = i
  <2> HIDE DEF rank
  <2>1. rank \in Injection(S, 1..n)
    BY <1>4, <1>5 DEF Injection, IsInjective
  <2>2. IsFiniteSet(1..n) /\ Cardinality(1..n) = n
    BY <1>1, FS_Interval
  <2>3. rank \in Surjection(S, 1..n)
    BY <2>1, <2>2, FS_Injection
  <2> QED BY <2>3 DEF Surjection
<1> DEFINE s == [i \in 1..n |-> CHOOSE p \in S : rank[p] = i]
<1>7. s \in [1..n -> S] /\ \A i \in 1..n : rank[s[i]] = i
  <2> HIDE DEF rank
  <2> QED BY <1>6
<1>8. ASSUME NEW i \in DOMAIN s, NEW j \in DOMAIN s, i < j
      PROVE  Precedes(s[i], s[j])
  <2> HIDE DEF rank, s
  <2>1. i \in 1..n /\ j \in 1..n /\ s[i] \in S /\ s[j] \in S
    BY <1>7
  <2>2. s[i] # s[j] /\ ~Precedes(s[j], s[i])
    BY <2>1, <1>1, <1>3, <1>7, <1>8
  <2> QED BY <2>1, <2>2, PrecedesOrders
<1> HIDE DEF s
<1> QED BY <1>1, <1>7, <1>8

LEMMA RankedIs ==
  ASSUME Ordered, PoolsTyped, NEW S, S \subseteq Registered
  PROVE  /\ Ranked(S) \in Seq(Pools) /\ Len(Ranked(S)) = Cardinality(S)
         /\ ToSet(Ranked(S)) = S
         /\ \A i, j \in DOMAIN Ranked(S) : i < j => Precedes(Ranked(S)[i], Ranked(S)[j])
         /\ \A i, j \in DOMAIN Ranked(S) : i # j => Ranked(S)[i] # Ranked(S)[j]
<1> DEFINE n == Cardinality(S)
           s == Ranked(S)
<1>1. IsFiniteSet(S) /\ n \in Nat
  BY SortedExists
<1>2. s \in [1..n -> S] /\ \A i, j \in DOMAIN s : i < j => Precedes(s[i], s[j])
  BY SortedExists DEF Ranked
<1> HIDE DEF s
<1>3. \A i, j \in 1..n : i # j => s[i] # s[j]
  BY <1>1, <1>2, PrecedesOrders
<1>4. s \in Injection(1..n, S)
  BY <1>2, <1>3 DEF Injection, IsInjective
<1>5. IsFiniteSet(1..n) /\ Cardinality(1..n) = n
  BY <1>1, FS_Interval
<1>6. s \in Surjection(1..n, S)
  BY <1>1, <1>4, <1>5, FS_Injection
<1>7. ToSet(s) = S
  BY <1>2, <1>6 DEF Surjection, ToSet
<1>8. s \in [1..n -> Pools]
  BY <1>2 DEF Registered
<1>9. s \in Seq(Pools) /\ Len(s) = n
  <2>1. s \in Seq(Pools)
    BY <1>1, <1>8, SeqDef
  <2> QED BY <1>1, <1>8, <2>1, LenProperties
<1> QED BY <1>2, <1>3, <1>7, <1>9 DEF s

\* Rotating the first n of a sequence by k puts its members in other places.
LEMMA Rotated ==
  ASSUME NEW s \in Seq(Pools), NEW n \in 1..Len(s), NEW k \in 0..(n - 1)
  PROVE  LET r == RotateBy(s, n, k)
         IN  /\ r \in Seq(Pools) /\ Len(r) = Len(s)
             /\ \A i \in 1..n : r[i] = s[IF i <= n - k THEN i + k ELSE i - (n - k)]
             /\ \A i \in (n + 1)..Len(s) : r[i] = s[i]
<1> DEFINE a == SubSeq(s, k + 1, n)
           b == SubSeq(s, 1, k)
           c == SubSeq(s, n + 1, Len(s))
<1>0. Len(s) \in Nat /\ DOMAIN s = 1..Len(s) /\ \A i \in 1..Len(s) : s[i] \in Pools
  BY LenProperties, ElementOfSeq
<1>n. n \in Int /\ n <= Len(s) /\ Len(s) \in Int
  BY <1>0
<1>1. a \in Seq(Pools) /\ Len(a) = n - k /\ \A i \in 1..(n - k) : a[i] = s[i + k]
  <2>1. \A i \in (k + 1)..n : s[i] \in Pools
    BY <1>0
  <2>2. /\ SubSeq(s, k + 1, n) \in Seq(Pools)
        /\ Len(SubSeq(s, k + 1, n)) = IF k + 1 <= n THEN n - (k + 1) + 1 ELSE 0
        /\ \A i \in 1..(n - (k + 1) + 1) : SubSeq(s, k + 1, n)[i] = s[k + 1 + i - 1]
    BY <2>1, <1>0, SubSeqProperties
  <2> HIDE DEF a
  <2> QED BY <2>2, <1>0 DEF a
<1>2. b \in Seq(Pools) /\ Len(b) = k /\ \A i \in 1..k : b[i] = s[i]
  <2>1. \A i \in 1..k : s[i] \in Pools
    BY <1>0
  <2>2. /\ SubSeq(s, 1, k) \in Seq(Pools)
        /\ Len(SubSeq(s, 1, k)) = IF 1 <= k THEN k - 1 + 1 ELSE 0
        /\ \A i \in 1..(k - 1 + 1) : SubSeq(s, 1, k)[i] = s[1 + i - 1]
    BY <2>1, <1>0, SubSeqProperties
  <2> QED BY <2>2, <1>0
<1>3. /\ c \in Seq(Pools) /\ Len(c) = Len(s) - n
      /\ \A i \in 1..(Len(s) - n) : c[i] = s[i + n]
  <2> HIDE DEF c
  <2>1. \A i \in (n + 1)..Len(s) : s[i] \in Pools
    BY <1>0
  <2>2. /\ SubSeq(s, n + 1, Len(s)) \in Seq(Pools)
        /\ Len(SubSeq(s, n + 1, Len(s))) = IF n + 1 <= Len(s) THEN Len(s) - (n + 1) + 1 ELSE 0
        /\ \A i \in 1..(Len(s) - (n + 1) + 1) : SubSeq(s, n + 1, Len(s))[i] = s[n + 1 + i - 1]
    BY <2>1, <1>0, SubSeqProperties
  <2>3. Len(s) - (n + 1) + 1 = Len(s) - n /\ \A i \in 1..(Len(s) - n) : n + 1 + i - 1 = i + n
    BY <1>0
  <2>4. (IF n + 1 <= Len(s) THEN Len(s) - (n + 1) + 1 ELSE 0) = Len(s) - n
    <3>1. CASE n + 1 <= Len(s)
      BY <2>3, <3>1
    <3>2. CASE ~(n + 1 <= Len(s))
      <4>1. n = Len(s)
        BY ONLY <1>n, <3>2
      <4>2. Len(s) - n = 0
        BY ONLY <1>n, <4>1
      <4> QED BY <3>2, <4>2
    <3> QED BY <3>1, <3>2
  <2> QED BY <2>2, <2>3, <2>4 DEF c
<1> HIDE DEF a, b, c
<1>4. /\ a \o b \in Seq(Pools) /\ Len(a \o b) = n
      /\ \A i \in 1..n : (a \o b)[i] = IF i <= n - k THEN a[i] ELSE b[i - (n - k)]
  <2>1. /\ a \o b \in Seq(Pools) /\ Len(a \o b) = Len(a) + Len(b)
        /\ \A i \in 1..(Len(a) + Len(b)) :
             (a \o b)[i] = IF i <= Len(a) THEN a[i] ELSE b[i - Len(a)]
    BY <1>1, <1>2, ConcatProperties
  <2>2. Len(a) + Len(b) = n
    BY <1>0, <1>1, <1>2
  <2> QED BY <1>1, <2>1, <2>2
<1>5. /\ (a \o b) \o c \in Seq(Pools) /\ Len((a \o b) \o c) = Len(s)
      /\ \A i \in 1..Len(s) : ((a \o b) \o c)[i] = IF i <= n THEN (a \o b)[i] ELSE c[i - n]
  <2> DEFINE d == a \o b
  <2> HIDE DEF d
  <2>1. d \in Seq(Pools) /\ Len(d) = n
    BY <1>4 DEF d
  <2>2. /\ d \o c \in Seq(Pools) /\ Len(d \o c) = Len(d) + Len(c)
        /\ \A i \in 1..(Len(d) + Len(c)) :
             (d \o c)[i] = IF i <= Len(d) THEN d[i] ELSE c[i - Len(d)]
    <3>1. d \in Seq(Pools) /\ c \in Seq(Pools)
      BY <1>3, <2>1
    <3> QED BY ONLY <3>1, ConcatProperties
  <2>3. Len(d) + Len(c) = Len(s)
    BY <1>0, <1>3, <2>1
  <2> QED BY <2>1, <2>2, <2>3 DEF d
<1>6. RotateBy(s, n, k) = (a \o b) \o c
  BY DEF RotateBy, a, b, c
<1>7. \A i \in 1..n : ((a \o b) \o c)[i] = s[IF i <= n - k THEN i + k ELSE i - (n - k)]
  BY <1>0, <1>1, <1>2, <1>4, <1>5
<1>8. \A i \in (n + 1)..Len(s) : ((a \o b) \o c)[i] = s[i]
  BY <1>0, <1>3, <1>5
<1> QED BY <1>5, <1>6, <1>7, <1>8

\* The pools tied for the best priority come first.
LEMMA TopFirst ==
  ASSUME Ordered, PoolsTyped, NEW S, S \subseteq Registered, S # {}
  PROVE  /\ Cardinality(TopGroup(S)) \in 1..Len(Ranked(S))
         /\ \A i \in DOMAIN Ranked(S) :
              Ranked(S)[i] \in TopGroup(S) <=> i <= Cardinality(TopGroup(S))
<1> DEFINE s == Ranked(S)
           N == Len(s)
           out == {i \in 1..(N + 1) : i = N + 1 \/ s[i] \notin TopGroup(S)}
<1>1. /\ s \in Seq(Pools) /\ N \in Nat /\ DOMAIN s = 1..N
      /\ \A p \in S : \E i \in 1..N : s[i] = p
      /\ \A i \in 1..N : s[i] \in S
      /\ \A i, j \in 1..N : i # j => s[i] # s[j]
  BY RankedIs, LenProperties DEF ToSet
<1>2. \A i, j \in 1..N : i < j => meta[s[i]].priority <= meta[s[j]].priority
  <2>1. \A p \in S : meta[p].priority \in Int
    BY DEF Registered, PoolsTyped, Row
  <2> QED BY <1>1, <2>1, RankedIs DEF Precedes
<1> HIDE DEF s
<1>3. \A p \in S : meta[p].priority \in Int
  BY DEF Registered, PoolsTyped, Row
<1>4. N >= 1 /\ s[1] \in TopGroup(S)
  BY <1>1, <1>2, <1>3 DEF TopGroup
<1>5. PICK m \in out : \A x \in out : ~(<<x, m>> \in OpToRel(<, Nat))
  <2>1. out \subseteq Nat /\ N + 1 \in out
    BY <1>1
  <2> HIDE DEF out
  <2> QED BY <2>1, NatLessThanWellFounded, WFMin
<1>6. m \in 1..(N + 1) /\ \A x \in out : m <= x
  <2>1. out \subseteq Nat
    BY <1>1
  <2>2. m \in 1..(N + 1)
    BY <1>5
  <2> HIDE DEF out
  <2>3. \A x \in out : x \in Nat /\ m \in Nat /\ ~(x < m)
    BY <1>5, <2>1 DEF OpToRel
  <2> QED BY <2>2, <2>3
<1>7. m \in 2..(N + 1)
  <2>1. 1 \notin out
    BY <1>1, <1>4
  <2>2. m # 1
    BY <1>5, <2>1
  <2> QED BY <1>1, <1>6, <2>2
<1>8. \A i \in 1..N : s[i] \in TopGroup(S) <=> i <= m - 1
  <2>1. ASSUME NEW i \in 1..N, i < m PROVE s[i] \in TopGroup(S)
    BY <1>1, <1>6, <2>1
  <2>2. ASSUME NEW i \in 1..N, m <= i PROVE s[i] \notin TopGroup(S)
    <3>1. m \in 1..N /\ s[m] \notin TopGroup(S)
      <4>1. m \in 1..N /\ m # N + 1
        BY <1>1, <1>7, <2>2
      <4> QED BY <1>5, <4>1
    <3>2. meta[s[m]].priority <= meta[s[i]].priority
      BY <1>1, <1>2, <1>3, <2>2, <3>1
    <3> QED BY <1>1, <1>3, <3>1, <3>2 DEF TopGroup
  <2> QED BY <1>1, <1>7, <2>1, <2>2
<1>9. Cardinality(TopGroup(S)) = m - 1
  <2> DEFINE f == [i \in 1..(m - 1) |-> s[i]]
  <2>1. \A i \in 1..(m - 1) : i \in 1..N /\ s[i] \in TopGroup(S)
    BY <1>1, <1>7, <1>8
  <2>2. f \in [1..(m - 1) -> TopGroup(S)]
    BY <2>1
  <2>3. \A i, j \in 1..(m - 1) : f[i] = f[j] => i = j
    BY <1>1, <2>1
  <2>4. \A p \in TopGroup(S) : \E i \in 1..(m - 1) : f[i] = p
    <3> SUFFICES ASSUME NEW p \in TopGroup(S) PROVE \E i \in 1..(m - 1) : f[i] = p
      OBVIOUS
    <3>1. PICK i \in 1..N : s[i] = p
      BY <1>1 DEF TopGroup
    <3>2. i \in 1..(m - 1)
      BY <1>7, <1>8, <3>1
    <3> QED BY <3>1, <3>2
  <2> HIDE DEF f
  <2>5. f \in Bijection(1..(m - 1), TopGroup(S))
    BY <2>2, <2>3, <2>4 DEF Bijection, Injection, Surjection, IsInjective
  <2>6. IsFiniteSet(1..(m - 1)) /\ Cardinality(1..(m - 1)) = m - 1
    <3>1. m - 1 \in Int /\ 1 \in Int /\ ~(1 > m - 1) /\ (m - 1) - 1 + 1 = m - 1
      BY <1>1, <1>7
    <3> QED BY <3>1, FS_Interval
  <2> QED BY <2>5, <2>6, FS_Bijection DEF ExistsBijection
<1> QED BY <1>1, <1>7, <1>8, <1>9 DEF s

\* The pools on a list, and that they stand on it by priority.
Offered(role, ws, stage) ==
  CASE stage = "preferred" -> {p \in Pools : p = PreferredPool(role, ws) /\ Eligible(p, role)}
    [] stage = "scoped" -> ScopedPools(role, ws)
    [] stage = "shared" -> SharedPools(role)

ByPriority(ids) ==
  \A i, j \in DOMAIN ids : i < j => meta[ids[i]].priority <= meta[ids[j]].priority

LEMMA RankedByPriority ==
  ASSUME Ordered, PoolsTyped, NEW S, S \subseteq Registered
  PROVE  ByPriority(Ranked(S))
<1>1. \A p \in S : meta[p].priority \in Int
  BY DEF Registered, PoolsTyped, Row
<1>2. \A i \in DOMAIN Ranked(S) : Ranked(S)[i] \in S
  BY RankedIs DEF ToSet
<1> QED BY <1>1, <1>2, RankedIs DEF Precedes, ByPriority

LEMMA SharedOrderIs ==
  ASSUME Ordered, PoolsTyped, next \in [Roles -> Nat], NEW role \in Roles
  PROVE  /\ SharedOrder(role) \in Seq(Pools) /\ ToSet(SharedOrder(role)) = SharedPools(role)
         /\ ByPriority(SharedOrder(role))
<1> DEFINE S == SharedPools(role)
           n == Cardinality(TopGroup(S))
           k == next[role] % n
           s == Ranked(S)
           r == RotateBy(s, n, k)
<1>1. S \subseteq Registered
  BY DEF SharedPools, Eligible
<1>2. CASE S = {}
  <2>1. SharedOrder(role) = <<>> /\ DOMAIN SharedOrder(role) = {}
    BY <1>2 DEF SharedOrder
  <2> QED BY <1>2, <2>1 DEF ToSet, ByPriority
<1>3. CASE S # {}
  <2> HIDE DEF S
  <2>1. n \in 1..Len(s) /\ \A i \in DOMAIN s : s[i] \in TopGroup(S) <=> i <= n
    BY <1>1, <1>3, TopFirst
  <2>2. /\ s \in Seq(Pools) /\ Len(s) \in Nat /\ DOMAIN s = 1..Len(s)
        /\ ToSet(s) = S /\ ByPriority(s)
    BY <1>1, RankedIs, RankedByPriority, LenProperties
  <2>3. k \in 0..(n - 1)
    BY <2>1, <2>2
  <2>4. SharedOrder(role) = r
    BY <1>3 DEF SharedOrder, S
  <2> HIDE DEF n, k, s
  <2>5. /\ r \in Seq(Pools) /\ Len(r) = Len(s)
        /\ \A i \in 1..n : r[i] = s[IF i <= n - k THEN i + k ELSE i - (n - k)]
        /\ \A i \in (n + 1)..Len(s) : r[i] = s[i]
    BY <2>1, <2>2, <2>3, Rotated
  <2> HIDE DEF r
  <2>6. DOMAIN r = 1..Len(s)
    BY <2>5, LenProperties
  <2> DEFINE to(i) == IF i > n THEN i ELSE IF i <= n - k THEN i + k ELSE i - (n - k)
             from(j) == IF j > n THEN j ELSE IF j > k THEN j - k ELSE j + (n - k)
  <2>7. \A i \in 1..Len(s) : to(i) \in 1..Len(s) /\ r[i] = s[to(i)] /\ (i <= n <=> to(i) <= n)
    BY <2>1, <2>2, <2>3, <2>5
  <2>8. \A j \in 1..Len(s) : from(j) \in 1..Len(s) /\ to(from(j)) = j
    BY <2>1, <2>2, <2>3
  <2>9. ToSet(r) = S
    <3> HIDE DEF to, from
    <3> QED BY <2>2, <2>6, <2>7, <2>8 DEF ToSet
  <2>10. ByPriority(r)
    <3> SUFFICES ASSUME NEW i \in 1..Len(s), NEW j \in 1..Len(s), i < j
                 PROVE  meta[r[i]].priority <= meta[r[j]].priority
      BY <2>6 DEF ByPriority
    <3>1. \A p \in S : meta[p].priority \in Int
      BY <1>1 DEF Registered, PoolsTyped, Row
    <3>2. CASE j <= n
      <4>1. s[to(i)] \in TopGroup(S) /\ s[to(j)] \in TopGroup(S)
        <5>1. i <= n
          BY <3>2, <2>1, <2>2
        <5> HIDE DEF to
        <5> QED BY <5>1, <3>2, <2>1, <2>2, <2>7
      <4>2. r[i] \in TopGroup(S) /\ r[j] \in TopGroup(S)
        <5> HIDE DEF to
        <5> QED BY <4>1, <2>7
      <4> QED BY <4>2 DEF TopGroup
    <3>3. CASE n < j
      <4>1. to(i) \in 1..Len(s) /\ to(i) < j /\ r[i] = s[to(i)] /\ r[j] = s[j]
        BY <3>3, <2>1, <2>2, <2>3, <2>5, <2>7
      <4> HIDE DEF to
      <4> QED BY <4>1, <2>2 DEF ByPriority
    <3> QED BY <3>2, <3>3, <2>1, <2>2
  <2> QED BY <2>4, <2>5, <2>9, <2>10 DEF S
<1> QED BY <1>2, <1>3

LEMMA CandidatesAre ==
  ASSUME Ordered, PoolsTyped, next \in [Roles -> Nat],
         NEW role \in Roles, NEW ws, NEW stage \in Stages
  PROVE  /\ Candidates(role, ws, stage) \in Seq(Pools)
         /\ ToSet(Candidates(role, ws, stage)) = Offered(role, ws, stage)
         /\ ByPriority(Candidates(role, ws, stage))
<1>1. CASE stage = "preferred"
  <2> DEFINE p == PreferredPool(role, ws)
  <2>1. CASE Eligible(p, role)
    <3>1. p \in Pools /\ Candidates(role, ws, stage) = <<p>>
      BY <1>1, <2>1 DEF Candidates, Eligible, Registered
    <3> HIDE DEF p
    <3>2. <<p>> \in Seq(Pools) /\ DOMAIN <<p>> = {1} /\ ToSet(<<p>>) = {p}
      BY <3>1 DEF ToSet
    <3>3. ByPriority(<<p>>)
      BY <3>2 DEF ByPriority
    <3> QED BY <1>1, <2>1, <3>1, <3>2, <3>3 DEF Offered, p
  <2>2. CASE ~Eligible(p, role)
    <3>1. Candidates(role, ws, stage) = <<>> /\ <<>> \in Seq(Pools) /\ DOMAIN <<>> = {}
      BY <1>1, <2>2 DEF Candidates
    <3>2. ToSet(<<>>) = {} /\ ByPriority(<<>>)
      BY <3>1 DEF ToSet, ByPriority
    <3> QED BY <1>1, <2>2, <3>1, <3>2 DEF Offered
  <2> QED BY <2>1, <2>2
<1>2. CASE stage = "scoped"
  <2>1. ScopedPools(role, ws) \subseteq Registered
    BY DEF ScopedPools, Eligible
  <2> QED BY <1>2, <2>1, RankedIs, RankedByPriority DEF Candidates, Offered
<1>3. CASE stage = "shared"
  BY <1>3, SharedOrderIs DEF Candidates, Offered
<1> QED BY <1>1, <1>2, <1>3 DEF Stages

-----------------------------------------------------------------------------
\* What else the steps keep: the types of the registry's fields.

CallsKnown ==
  /\ call \in [Callers -> Call]
  /\ \A c \in Callers : call[c].pc = "try" => call[c].ids # <<>>

\* What the type invariant says of the registry that the counters do not need.
RegistryInv ==
  /\ Ordered
  /\ next \in [Roles -> Nat]
  /\ CallsKnown
  /\ doomed \subseteq Registered

\* The startup rows are listed once each.
LEMMA ListingIs ==
  ASSUME NEW S \in SUBSET Pools, IsFiniteSet(S)
  PROVE  /\ SetToSeq(S) \in Seq(Pools) /\ ToSet(SetToSeq(S)) = S
         /\ \A i, j \in DOMAIN SetToSeq(S) : SetToSeq(S)[i] = SetToSeq(S)[j] => i = j
<1> DEFINE n == Cardinality(S)
           s == SetToSeq(S)
<1>1. n \in Nat /\ ExistsBijection(1..n, S)
  BY FS_CardinalityType
<1>2. \E f \in [1..n -> S] : IsInjective(f)
  BY <1>1 DEF ExistsBijection, Bijection, Injection
<1>3. s \in [1..n -> S] /\ IsInjective(s)
  BY <1>2 DEF SetToSeq
<1> HIDE DEF s
<1>4. s \in Injection(1..n, S)
  BY <1>3 DEF Injection
<1>5. IsFiniteSet(1..n) /\ Cardinality(1..n) = n
  BY <1>1, FS_Interval
<1>6. s \in Surjection(1..n, S)
  BY <1>1, <1>4, <1>5, FS_Injection
<1>7. ToSet(s) = S
  BY <1>3, <1>6 DEF Surjection, ToSet
<1>8. s \in [1..n -> Pools]
  BY <1>3
<1>9. s \in Seq(Pools)
  BY <1>1, <1>8, SeqDef
<1> QED BY <1>3, <1>7, <1>9 DEF IsInjective, s

LEMMA InitRegistry == Init => RegistryInv
<1> SUFFICES ASSUME Init PROVE RegistryInv
  OBVIOUS
<1>1. Registered = DOMAIN FirstRows
  BY PoolAssumption, RowIsNotNoRow DEF Init, Registered
<1>2. Ordered
  BY <1>1, PoolAssumption, ListingIs DEF Init, Ordered
<1>3. next \in [Roles -> Nat] /\ doomed \subseteq Registered
  BY DEF Init
<1>4. call \in [Callers -> Call] /\ \A c \in Callers : call[c].pc # "try"
  BY DEF Init, Resting, IdleCall, Call, Roles, Stages
<1> QED BY <1>2, <1>3, <1>4 DEF RegistryInv, CallsKnown

\* What is left of r.order when a pool is dropped from it.
LEMMA OrderWithout ==
  ASSUME Ordered, NEW p \in Registered
  PROVE  LET w == RemoveAt(order, Position(p))
         IN  /\ w \in Seq(Pools) /\ ToSet(w) = Registered \ {p}
             /\ \A i, j \in DOMAIN w : w[i] = w[j] => i = j
<1> DEFINE m == Position(p)
           N == Len(order)
           a == SubSeq(order, 1, m - 1)
           b == SubSeq(order, m + 1, N)
           w == RemoveAt(order, m)
<1>1. N \in Nat /\ DOMAIN order = 1..N /\ \A i \in 1..N : order[i] \in Pools
  BY LenProperties, ElementOfSeq DEF Ordered
<1>2. m \in Int /\ 1 <= m /\ m <= N /\ order[m] = p
  BY <1>1, PositionIs
<1> HIDE DEF m
<1>3. a \in Seq(Pools) /\ Len(a) = m - 1 /\ \A i \in 1..(m - 1) : a[i] = order[i]
  <2>1. \A i \in 1..(m - 1) : order[i] \in Pools
    BY <1>1, <1>2
  <2>2. m - 1 \in Int /\ (IF 1 <= m - 1 THEN m - 1 - 1 + 1 ELSE 0) = m - 1
    BY <1>2
  <2>3. /\ a \in Seq(Pools) /\ Len(a) = IF 1 <= m - 1 THEN m - 1 - 1 + 1 ELSE 0
        /\ \A i \in 1..(m - 1 - 1 + 1) : a[i] = order[1 + i - 1]
    BY <2>1, <2>2, SubSeqProperties
  <2> HIDE DEF a
  <2> QED BY <2>2, <2>3, <1>2
<1>4. b \in Seq(Pools) /\ Len(b) = N - m /\ \A i \in 1..(N - m) : b[i] = order[i + m]
  <2>1. \A i \in (m + 1)..N : order[i] \in Pools
    BY <1>1, <1>2
  <2>2. m + 1 \in Int /\ N \in Int /\ (IF m + 1 <= N THEN N - (m + 1) + 1 ELSE 0) = N - m
    <3>1. N \in Int /\ m \in Int /\ m <= N
      BY <1>1, <1>2
    <3> HIDE DEF N
    <3> QED BY ONLY <3>1
  <2>3. /\ b \in Seq(Pools) /\ Len(b) = IF m + 1 <= N THEN N - (m + 1) + 1 ELSE 0
        /\ \A i \in 1..(N - (m + 1) + 1) : b[i] = order[m + 1 + i - 1]
    BY <2>1, <2>2, SubSeqProperties
  <2>4. N - (m + 1) + 1 = N - m /\ \A i \in 1..(N - m) : m + 1 + i - 1 = i + m
    BY <1>1, <1>2
  <2> HIDE DEF b
  <2> QED BY <2>2, <2>3, <2>4
<1>5. w = a \o b
  BY DEF RemoveAt
<1> HIDE DEF a, b, w
<1>6. /\ w \in Seq(Pools) /\ Len(w) = Len(a) + Len(b)
      /\ \A i \in 1..(Len(a) + Len(b)) : w[i] = IF i <= Len(a) THEN a[i] ELSE b[i - Len(a)]
  <2>1. a \in Seq(Pools) /\ b \in Seq(Pools)
    BY <1>3, <1>4
  <2> QED BY ONLY <1>5, <2>1, ConcatProperties
<1>7. Len(w) = N - 1 /\ DOMAIN w = 1..(N - 1)
  BY <1>1, <1>2, <1>3, <1>4, <1>6, LenProperties
<1> DEFINE to(i) == IF i < m THEN i ELSE i + 1
<1>8. ASSUME NEW i \in 1..(N - 1)
      PROVE  to(i) \in 1..N /\ to(i) # m /\ w[i] = order[to(i)]
  <2>0. i \in Int /\ N \in Int /\ 1 <= i /\ i <= N - 1
    BY <1>1
  <2>1. w[i] = IF i <= Len(a) THEN a[i] ELSE b[i - Len(a)]
    BY <1>2, <1>3, <1>4, <1>6, <2>0
  <2>2. CASE i < m
    <3>1. i \in 1..(m - 1) /\ i <= Len(a)
      BY <1>2, <1>3, <2>0, <2>2
    <3>2. w[i] = order[i]
      BY <1>3, <2>1, <3>1
    <3> QED BY <1>2, <2>0, <2>2, <3>2
  <2>3. CASE ~(i < m)
    <3>1. ~(i <= Len(a)) /\ i - Len(a) \in 1..(N - m) /\ i - Len(a) + m = i + 1
      BY <1>2, <1>3, <2>0, <2>3
    <3>2. w[i] = order[i + 1]
      BY <1>4, <2>1, <3>1
    <3> QED BY <1>2, <2>0, <2>3, <3>2
  <2> QED BY <2>2, <2>3
<1>9. \A i, j \in 1..(N - 1) : to(i) = to(j) => i = j
  BY <1>1, <1>2
<1>10. \A k \in 1..N : k # m => \E i \in 1..(N - 1) : to(i) = k
  <2> SUFFICES ASSUME NEW k \in 1..N, k # m PROVE \E i \in 1..(N - 1) : to(i) = k
    OBVIOUS
  <2>0. k \in Int /\ N \in Int /\ 1 <= k /\ k <= N
    BY <1>1
  <2>1. CASE k < m
    <3>1. k \in 1..(N - 1) /\ to(k) = k
      BY ONLY <2>0, <2>1, <1>2
    <3> QED BY <3>1
  <2>2. CASE m < k
    <3>1. k - 1 \in 1..(N - 1) /\ to(k - 1) = k
      BY ONLY <2>0, <2>2, <1>2
    <3> QED BY <3>1
  <2> QED BY <2>1, <2>2, <1>1, <1>2
<1> HIDE DEF to
<1>11. ToSet(w) = Registered \ {p}
  <2>1. ASSUME NEW i \in 1..(N - 1) PROVE w[i] \in Registered \ {p}
    <3>1. to(i) \in 1..N /\ to(i) # m /\ w[i] = order[to(i)]
      BY <1>8
    <3>2. order[to(i)] # order[m] /\ order[to(i)] \in Registered
      BY <3>1, <1>1, <1>2 DEF Ordered, ToSet
    <3> QED BY <3>1, <3>2, <1>2
  <2>2. ASSUME NEW q \in Registered \ {p} PROVE \E i \in 1..(N - 1) : w[i] = q
    <3>1. PICK k \in 1..N : order[k] = q
      BY <1>1 DEF Ordered, ToSet
    <3>2. k # m
      BY <3>1, <1>2
    <3>3. PICK i \in 1..(N - 1) : to(i) = k
      BY <3>2, <1>10
    <3> QED BY <3>1, <3>3, <1>8
  <2> HIDE DEF N
  <2> QED BY <2>1, <2>2, <1>7 DEF ToSet
<1>12. \A i, j \in DOMAIN w : w[i] = w[j] => i = j
  BY <1>1, <1>7, <1>8, <1>9 DEF Ordered
<1> QED BY <1>6, <1>11, <1>12 DEF w, m

LEMMA OrderWith ==
  ASSUME Ordered, NEW p \in Pools \ Registered
  PROVE  LET w == Append(order, p)
         IN  /\ w \in Seq(Pools) /\ ToSet(w) = Registered \cup {p}
             /\ \A i, j \in DOMAIN w : w[i] = w[j] => i = j
<1> DEFINE N == Len(order)
           w == Append(order, p)
<1>1. N \in Nat /\ DOMAIN order = 1..N /\ \A i \in 1..N : order[i] \in Registered
  BY LenProperties DEF Ordered, ToSet
<1>2. /\ w \in Seq(Pools) /\ Len(w) = N + 1 /\ w[N + 1] = p
      /\ \A i \in 1..N : w[i] = order[i]
  BY AppendProperties DEF Ordered
<1> HIDE DEF w
<1>3. DOMAIN w = 1..(N + 1)
  BY <1>2, LenProperties
<1>4. ToSet(w) = Registered \cup {p}
  BY <1>1, <1>2, <1>3 DEF Ordered, ToSet
<1>5. \A i, j \in DOMAIN w : w[i] = w[j] => i = j
  BY <1>1, <1>2, <1>3 DEF Ordered
<1> QED BY <1>2, <1>4, <1>5 DEF w

LEMMA OnwardTyped ==
  ASSUME NEW req \in Call, NEW ids \in Seq(Pools)
  PROVE  Onward(req, ids) \in Call /\ (Onward(req, ids).pc = "try" => Onward(req, ids).ids # <<>>)
BY DEF Onward, Call, CallAt, Resting, IdleCall, Roles, Stages

LEMMA CallMoves ==
  ASSUME CallsKnown, NEW c \in Callers, NEW k \in Call, k.pc = "try" => k.ids # <<>>,
         call' = [call EXCEPT ![c] = k]
  PROVE  CallsKnown'
BY DEF CallsKnown

LEMMA NextRegistry == IInv /\ RegistryInv /\ [Next]_vars => RegistryInv'
<1> SUFFICES ASSUME IInv, RegistryInv, [Next]_vars PROVE RegistryInv'
  OBVIOUS
<1> USE DEF IInv, RegistryInv
<1>0. ASSUME UNCHANGED <<meta, order>> PROVE Ordered' /\ Registered' = Registered
  BY <1>0 DEF Ordered, Registered
<1>1. ASSUME NEW c \in Callers, NEW req \in Requests, Begin(c, req.role, req.ws)
      PROVE  RegistryInv'
  <2> DEFINE k == CallAt("select", req.role, req.ws,
                         IF req.role = "architect" THEN "shared" ELSE "preferred", <<>>)
  <2>1. k \in Call /\ k.pc # "try"
    BY PoolAssumption DEF CallAt, Call, Stages
  <2>2. call' = [call EXCEPT ![c] = k]
    BY <1>1 DEF Begin
  <2> HIDE DEF k
  <2>3. CallsKnown'
    BY <2>1, <2>2, CallMoves
  <2> QED BY <1>0, <1>1, <2>3 DEF Begin, registryVars
<1>2. ASSUME NEW c \in Callers, Select(c)
      PROVE  RegistryInv'
  <2> DEFINE req == call[c]
             ids == Candidates(req.role, req.ws, req.stage)
             S == SharedPools(req.role)
  <2>1. req \in Call /\ req.role \in Roles /\ req.stage \in Stages
    BY DEF CallsKnown, Call
  <2>2. ids \in Seq(Pools) /\ ToSet(ids) = Offered(req.role, req.ws, req.stage)
    BY <2>1, CandidatesAre
  <2>3. call' = [call EXCEPT ![c] = Onward(req, ids)]
    BY <1>2 DEF Select
  <2>4. CallsKnown'
    BY <2>1, <2>2, <2>3, OnwardTyped, CallMoves
  <2>5. next' \in [Roles -> Nat]
    <3>1. CASE req.stage = "shared" /\ ids # <<>>
      <4>1. S # {}
        BY <3>1 DEF Candidates, SharedOrder
      <4>2. S \subseteq Registered
        BY DEF SharedPools, Eligible
      <4>3. Cardinality(TopGroup(S)) \in 1..Len(Ranked(S)) /\ Len(Ranked(S)) \in Nat
        BY <4>1, <4>2, TopFirst, RankedIs, LenProperties
      <4>4. next' = [next EXCEPT ![req.role] = (@ + 1) % Cardinality(TopGroup(S))]
        BY <1>2, <3>1 DEF Select
      <4>5. next[req.role] \in Nat
        BY <2>1
      <4> DEFINE n == Cardinality(TopGroup(S))
      <4> HIDE DEF n, S
      <4>6. n \in Nat \ {0}
        BY <4>3 DEF n
      <4>7. (next[req.role] + 1) % n \in Nat
        BY <4>5, <4>6
      <4> QED BY <4>4, <4>7 DEF n
    <3>2. CASE ~(req.stage = "shared" /\ ids # <<>>)
      BY <1>2, <3>2 DEF Select
    <3> QED BY <3>1, <3>2
  <2> QED BY <1>0, <1>2, <2>4, <2>5 DEF Select
<1>3. ASSUME NEW c \in Callers, TryAcquire(c)
      PROVE  RegistryInv'
  <2>1. call[c] \in Call /\ call[c].ids \in Seq(Pools)
    BY DEF CallsKnown, Call
  <2>2. UNCHANGED <<meta, order, next, doomed>>
    BY <1>3 DEF TryAcquire
  <2>3. CallsKnown'
    <3>1. CASE CanTake(Head(call[c].ids))
      <4> DEFINE p == Head(call[c].ids)
      <4>1. call' = [call EXCEPT ![c] = Resting("holding", p)] /\ p \in Pools
        BY <1>3, <3>1 DEF TryAcquire, CanTake, Registered
      <4> HIDE DEF p
      <4>2. Resting("holding", p) \in Call /\ Resting("holding", p).pc # "try"
        BY <4>1 DEF Resting, Call, Roles, Stages
      <4> QED BY <4>1, <4>2, CallMoves
    <3>2. CASE ~CanTake(Head(call[c].ids))
      <4>1. call' = [call EXCEPT ![c] = Onward(call[c], Tail(call[c].ids))]
        BY <1>3, <3>2 DEF TryAcquire
      <4>2. call[c].ids # <<>>
        BY <1>3 DEF TryAcquire, CallsKnown
      <4> QED BY <2>1, <4>1, <4>2, OnwardTyped, HeadTailProperties, CallMoves
    <3> QED BY <3>1, <3>2
  <2> QED BY <1>0, <2>2, <2>3
<1>4. ASSUME NEW c \in Callers, ReleaseByPool(c)
      PROVE  RegistryInv'
  <2>1. IdleCall \in Call /\ IdleCall.pc # "try"
    BY DEF IdleCall, Resting, Call, Roles, Stages
  <2>2. CallsKnown'
    BY <1>4, <2>1, CallMoves DEF ReleaseByPool
  <2> QED BY <1>0, <1>4, <2>2 DEF ReleaseByPool
<1>5. ASSUME NEW c \in Callers, NEW p \in Pools, AcquireSpecific(c, p)
      PROVE  RegistryInv'
  <2>1. Resting("holding", p) \in Call /\ Resting("holding", p).pc # "try"
    BY DEF Resting, Call, Roles, Stages
  <2>2. CallsKnown'
    BY <1>5, <2>1, CallMoves DEF AcquireSpecific
  <2> QED BY <1>0, <1>5, <2>2 DEF AcquireSpecific
<1>6. ASSUME NEW p \in Pools, NEW row \in Rows[p], SavePool(p, row)
      PROVE  RegistryInv'
  <2>1. row \in Row /\ row # NoRow
    BY PoolAssumption, RowIsNotNoRow
  <2>2. Registered' = Registered \cup {p}
    BY <1>6, <2>1 DEF SavePool, Registered, PoolsTyped
  <2>3. Ordered'
    <3>1. CASE p \in Registered
      BY <1>6, <2>2, <3>1 DEF SavePool, Ordered
    <3>2. CASE p \notin Registered
      BY <1>6, <2>2, <3>2, OrderWith DEF SavePool, Ordered
    <3> QED BY <3>1, <3>2
  <2> QED BY <1>6, <2>2, <2>3 DEF SavePool, CallsKnown
<1>7. ASSUME NEW p \in Pools, DeletePoolCheck(p)
      PROVE  RegistryInv'
  BY <1>0, <1>7 DEF DeletePoolCheck, registryVars, CallsKnown
<1>8. ASSUME NEW p \in Pools, DeletePool(p)
      PROVE  RegistryInv'
  <2>1. p \in Registered
    BY <1>8 DEF DeletePool
  <2>2. Registered' = Registered \ {p}
    BY <1>8 DEF DeletePool, Registered, PoolsTyped
  <2>3. Ordered'
    BY <1>8, <2>1, <2>2, OrderWithout DEF DeletePool, Ordered
  <2> QED BY <1>8, <2>2, <2>3 DEF DeletePool, CallsKnown
<1>9. CASE UNCHANGED vars
  BY <1>0, <1>9 DEF vars, CallsKnown
<1> QED
  BY <1>1, <1>2, <1>3, <1>4, <1>5, <1>6, <1>7, <1>8, <1>9 DEF Next, CallerStep, UserStep

LEMMA RegistryInvariance == Spec => [](IInv /\ RegistryInv)
<1>1. Init => RegistryInv
  BY InitRegistry
<1>2. IInv /\ RegistryInv /\ [Next]_vars => RegistryInv'
  BY NextRegistry
<1> QED BY <1>1, <1>2, Invariance, PTL DEF Spec

\* The registry's fields keep their types; in particular r.order lists each registered pool
\* exactly once, whatever is saved and deleted meanwhile.
THEOREM TypeCorrect == Spec => []TypeOK
<1>1. IInv /\ RegistryInv => TypeOK
  BY FewRegistered DEF IInv, RegistryInv, Ordered, CallsKnown, PoolsTyped, TypeOK
<1> QED BY <1>1, RegistryInvariance, PTL

-----------------------------------------------------------------------------
\* Which pool a call ends with.  The lists are numbered as ListOf numbers them.
StageNo ==
  [s \in Stages |-> CASE s = "preferred" -> 0 [] s = "scoped" -> 1 [] s = "shared" -> 2]

\* `ids' is what is left to try of the list `req' is at: every pool that stayed free
\* stands on it or on a later list, and the pools that stayed as they were stand on it by
\* priority and belong to no later list.
OnList(w, req, ids) ==
  /\ \A p \in w.open : StageNo[req.stage] <= ListOf(p, req)
  /\ \A p \in w.open : StageNo[req.stage] = ListOf(p, req) => p \in ToSet(ids)
  /\ \A p \in w.same \cap ToSet(ids) : ListOf(p, req) <= StageNo[req.stage]
  /\ \A i, j \in DOMAIN ids :
       i < j /\ ids[i] \in w.same /\ ids[j] \in w.same =>
         meta[ids[i]].priority <= meta[ids[j]].priority

Watched(c) ==
  InCall(call[c]) =>
    /\ call[c].ws \in Workspaces
    /\ call[c].role = "architect" => call[c].stage = "shared"
    /\ watch[c].open \subseteq watch[c].same /\ watch[c].same \subseteq Reach(call[c])
    /\ \A p \in watch[c].open : ~Full(p)
    /\ call[c].pc = "select" =>
         \A p \in watch[c].open : StageNo[call[c].stage] <= ListOf(p, call[c])
    /\ call[c].pc = "try" =>
         /\ ToSet(call[c].ids) \subseteq watch[c].ever
         /\ OnList(watch[c], call[c], call[c].ids)

WatchInv == \A c \in Callers : Watched(c)

\* Neither action property needs more than this.
ReturnsRight(c) ==
  /\ InCall(call[c]) /\ call'[c].pc = "idle" => watch[c].open = {}
  /\ InCall(call[c]) /\ call'[c].pc = "holding" =>
       /\ call'[c].pool \in watch[c].ever
       /\ call'[c].pool \in watch[c].same =>
            \A q \in watch[c].open : ~Beats(q, call'[c].pool, call[c])

LEMMA ListsNumbered ==
  /\ \A p, req : ListOf(p, req) \in 0..2
  /\ \A s \in Stages : StageNo[s] \in 0..2
  /\ StageNo["preferred"] = 0 /\ StageNo["scoped"] = 1 /\ StageNo["shared"] = 2
BY DEF ListOf, StageNo, Stages

\* A reachable pool of the list that is computed at a stage stands on it, and a pool that
\* stands on it belongs to no later list and can be reached.
LEMMA OfferedIsList ==
  ASSUME NEW req \in Call, req.ws \in Workspaces,
         req.role = "architect" => req.stage = "shared"
  PROVE  /\ \A p \in Reach(req) :
              ListOf(p, req) = StageNo[req.stage] => p \in Offered(req.role, req.ws, req.stage)
         /\ \A p \in Offered(req.role, req.ws, req.stage) :
              p \in Reach(req) /\ ListOf(p, req) <= StageNo[req.stage]
<1>0. req.ws # Shared /\ req.stage \in Stages
  BY PoolAssumption DEF Call
<1>1. CASE req.stage = "preferred"
  BY <1>0, <1>1, ListsNumbered DEF Offered, Reach, ListOf
<1>2. CASE req.stage = "scoped"
  BY <1>0, <1>2, ListsNumbered DEF Offered, Reach, ListOf, ScopedPools
<1>3. CASE req.stage = "shared"
  BY <1>0, <1>3, ListsNumbered DEF Offered, Reach, ListOf, SharedPools
<1> QED BY <1>0, <1>1, <1>2, <1>3 DEF Stages

\* What WatchNext makes of a call that goes on.
LEMMA WatchGoesOn ==
  ASSUME IInv', NEW c \in Callers, InCall(call[c]), InCall(call'[c]), Watched(c), WatchNext
  PROVE  /\ watch'[c].same \subseteq watch[c].same
         /\ \A p \in watch'[c].same : meta'[p] = meta[p]
         /\ watch'[c].open \subseteq watch[c].open \cap watch'[c].same
         /\ \A p \in watch'[c].open : ~Full(p)'
         /\ watch[c].ever \cup Reach(call'[c]) \subseteq watch'[c].ever
<1>1. watch'[c] =
        [same |-> {p \in watch[c].same : meta'[p] = meta[p]},
         ever |-> watch[c].ever \cup Reach(call'[c]),
         open |-> {p \in watch[c].open \cap {p \in watch[c].same : meta'[p] = meta[p]} :
                     active'[p] < meta[p].capacity}]
  BY DEF WatchNext
<1>2. ASSUME NEW p \in watch'[c].open PROVE ~Full(p)'
  <2>1. meta'[p] = meta[p] /\ active'[p] < meta[p].capacity /\ p \in Reach(call[c])
    BY <1>1 DEF Watched
  <2>2. meta[p].capacity \in Nat /\ active'[p] \in Nat
    BY <2>1, RowIsNotNoRow DEF Reach, Eligible, Registered, IInv, PoolsTyped
  <2> QED BY <2>1, <2>2 DEF Full
<1> QED BY <1>1, <1>2

LEMMA WatchBegins ==
  ASSUME IInv', NEW c \in Callers, ~InCall(call[c]), InCall(call'[c]), WatchNext, meta' = meta
  PROVE  /\ watch'[c].open \subseteq watch'[c].same
         /\ watch'[c].same \subseteq Reach(call'[c])
         /\ \A p \in watch'[c].open : ~Full(p)'
<1>1. /\ watch'[c].same = {p \in Reach(call'[c]) : meta'[p] = meta[p]}
      /\ watch'[c].open = {p \in {p \in watch'[c].same : ~Full(p)} \cap watch'[c].same :
                             active'[p] < meta[p].capacity}
  BY DEF WatchNext
<1>2. ASSUME NEW p \in watch'[c].open PROVE ~Full(p)'
  <2>1. active'[p] < meta[p].capacity /\ p \in Reach(call'[c])
    BY <1>1
  <2>2. meta[p].capacity \in Nat /\ active'[p] \in Nat
    BY <2>1, RowIsNotNoRow DEF Reach, Eligible, Registered, IInv, PoolsTyped
  <2> QED BY <2>1, <2>2 DEF Full
<1> QED BY <1>1, <1>2

\* A call that does not move: the pools still watched have not changed.
LEMMA WatchRests ==
  ASSUME IInv', NEW c \in Callers, Watched(c), WatchNext, call'[c] = call[c]
  PROVE  Watched(c)'
<1> SUFFICES ASSUME InCall(call[c]) PROVE Watched(c)'
  BY DEF Watched
<1>1. /\ watch'[c].same \subseteq watch[c].same
      /\ \A p \in watch'[c].same : meta'[p] = meta[p]
      /\ watch'[c].open \subseteq watch[c].open \cap watch'[c].same
      /\ \A p \in watch'[c].open : ~Full(p)'
      /\ watch[c].ever \subseteq watch'[c].ever
  BY WatchGoesOn
<1>2. \A p \in watch'[c].same : ListOf(p, call[c])' = ListOf(p, call[c])
  BY <1>1 DEF ListOf, PreferredPool
<1>3. watch'[c].same \subseteq Reach(call[c])'
  BY <1>1 DEF Watched, Reach, Eligible, Registered, PreferredPool
<1>4. ASSUME call[c].pc = "try" PROVE OnList(watch[c], call[c], call[c].ids)'
  <2>1. OnList(watch[c], call[c], call[c].ids)
    BY <1>4 DEF Watched
  <2> DEFINE N == StageNo[call[c].stage]
  <2>2. /\ \A p \in watch'[c].open : N <= ListOf(p, call[c])'
        /\ \A p \in watch'[c].open : N = ListOf(p, call[c])' => p \in ToSet(call[c].ids)
    BY <1>1, <1>2, <2>1 DEF OnList
  <2>3. \A p \in watch'[c].same \cap ToSet(call[c].ids) : ListOf(p, call[c])' <= N
    BY <1>1, <1>2, <2>1 DEF OnList
  <2>4. \A i, j \in DOMAIN call[c].ids :
          i < j /\ call[c].ids[i] \in watch'[c].same /\ call[c].ids[j] \in watch'[c].same =>
            meta'[call[c].ids[i]].priority <= meta'[call[c].ids[j]].priority
    BY <1>1, <2>1 DEF OnList
  <2> QED BY <2>2, <2>3, <2>4 DEF OnList
<1> QED BY <1>1, <1>2, <1>3, <1>4 DEF Watched

\* A call goes on from what is left of its list: it never comes back empty-handed past a
\* pool that stayed free.
LEMMA OnwardWatched ==
  ASSUME IInv', NEW c \in Callers, call[c] \in Call, InCall(call[c]), Watched(c), WatchNext,
         meta' = meta, NEW ids \in Seq(Pools),
         OnList(watch[c], call[c], ids),
         ToSet(ids) \subseteq watch[c].ever \cup Reach(call[c]),
         call'[c] = Onward(call[c], ids)
  PROVE  /\ Watched(c)'
         /\ call'[c].pc # "holding"
         /\ call'[c].pc = "idle" => watch[c].open = {}
<1> DEFINE k == call[c]
<1>0. /\ \A p : ListOf(p, k) \in 0..2
      /\ k.stage \in Stages /\ StageNo[k.stage] \in 0..2
      /\ StageNo["preferred"] = 0 /\ StageNo["scoped"] = 1 /\ StageNo["shared"] = 2
  BY ListsNumbered DEF Call
<1>1. ids = <<>> => \A p \in watch[c].open : StageNo[k.stage] < ListOf(p, k)
  <2>1. ids = <<>> => ToSet(ids) = {}
    BY DEF ToSet
  <2> HIDE DEF k
  <2> QED BY <1>0, <2>1 DEF OnList, k
<1>2. CASE ids = <<>> /\ k.stage = "shared"
  <2>1. call'[c] = IdleCall
    BY <1>2 DEF Onward
  <2>2. watch[c].open = {}
    BY <1>0, <1>1, <1>2
  <2> QED BY <2>1, <2>2 DEF IdleCall, Resting, Watched, InCall
<1>3. CASE ids = <<>> /\ k.stage # "shared"
  <2> DEFINE n == IF k.stage = "preferred" THEN "scoped" ELSE "shared"
  <2>1. call'[c] = CallAt("select", k.role, k.ws, n, <<>>)
    BY <1>0, <1>3 DEF Onward, Stages
  <2>2. StageNo[n] = StageNo[k.stage] + 1
    BY <1>0, <1>3 DEF Stages
  <2> HIDE DEF n
  <2>3. /\ call'[c].pc = "select" /\ call'[c].role = k.role /\ call'[c].ws = k.ws
        /\ call'[c].stage = n
    BY <2>1 DEF CallAt
  <2>4. InCall(call'[c])
    BY <2>3 DEF InCall
  <2>5. /\ watch'[c].same \subseteq watch[c].same
        /\ watch'[c].open \subseteq watch[c].open \cap watch'[c].same
        /\ \A p \in watch'[c].open : ~Full(p)'
    BY <2>4, WatchGoesOn
  <2>6. Reach(call[c])' = Reach(k) /\ \A p : ListOf(p, call[c])' = ListOf(p, k)
    BY <2>3 DEF Reach, Eligible, Registered, PreferredPool, ListOf
  <2>7. \A p \in watch'[c].open : StageNo[n] <= ListOf(p, call[c])'
    BY <1>0, <1>1, <1>3, <2>2, <2>5, <2>6
  <2>8. /\ k.ws \in Workspaces /\ k.role # "architect"
        /\ watch'[c].open \subseteq watch'[c].same /\ watch'[c].same \subseteq Reach(k)
    BY <1>3, <2>5 DEF Watched
  <2> QED BY <2>3, <2>5, <2>6, <2>7, <2>8 DEF Watched
<1>4. CASE ids # <<>>
  <2>1. call'[c] = CallAt("try", k.role, k.ws, k.stage, ids)
    BY <1>4 DEF Onward
  <2>3. /\ call'[c].pc = "try" /\ call'[c].role = k.role /\ call'[c].ws = k.ws
        /\ call'[c].stage = k.stage /\ call'[c].ids = ids
    BY <2>1 DEF CallAt
  <2>4. InCall(call'[c])
    BY <2>3 DEF InCall
  <2>5. /\ watch'[c].same \subseteq watch[c].same
        /\ watch'[c].open \subseteq watch[c].open \cap watch'[c].same
        /\ \A p \in watch'[c].open : ~Full(p)'
        /\ watch[c].ever \cup Reach(call'[c]) \subseteq watch'[c].ever
    BY <2>4, WatchGoesOn
  <2>6. /\ Reach(call[c])' = Reach(k) /\ Reach(call'[c]) = Reach(k)
        /\ \A p : ListOf(p, call[c])' = ListOf(p, k)
    BY <2>3 DEF Reach, Eligible, Registered, PreferredPool, ListOf
  <2>7. OnList(watch[c], call[c], call[c].ids)'
    <3>1. /\ \A p \in watch'[c].open : StageNo[k.stage] <= ListOf(p, call[c])'
          /\ \A p \in watch'[c].open : StageNo[k.stage] = ListOf(p, call[c])' => p \in ToSet(ids)
      BY <2>5, <2>6 DEF OnList
    <3>2. \A p \in watch'[c].same \cap ToSet(ids) : ListOf(p, call[c])' <= StageNo[k.stage]
      BY <2>5, <2>6 DEF OnList
    <3>3. \A i, j \in DOMAIN ids :
            i < j /\ ids[i] \in watch'[c].same /\ ids[j] \in watch'[c].same =>
              meta'[ids[i]].priority <= meta'[ids[j]].priority
      BY <2>5 DEF OnList
    <3> QED BY <2>3, <3>1, <3>2, <3>3 DEF OnList
  <2>8. /\ k.ws \in Workspaces /\ k.role = "architect" => k.stage = "shared"
        /\ watch'[c].open \subseteq watch'[c].same /\ watch'[c].same \subseteq Reach(k)
        /\ ToSet(ids) \subseteq watch'[c].ever
    BY <2>5, <2>6 DEF Watched
  <2> QED BY <2>3, <2>5, <2>6, <2>7, <2>8 DEF Watched
<1> QED BY <1>0, <1>2, <1>3, <1>4

LEMMA BeginWatched ==
  ASSUME IInv', NEW c \in Callers, NEW req \in Requests, Begin(c, req.role, req.ws), WatchNext,
         call \in [Callers -> Call]
  PROVE  Watched(c)' /\ ~InCall(call[c])
<1> DEFINE n == IF req.role = "architect" THEN "shared" ELSE "preferred"
<1>1. /\ call'[c] = CallAt("select", req.role, req.ws, n, <<>>)
      /\ ~InCall(call[c]) /\ meta' = meta
  BY DEF Begin, InCall, registryVars
<1>2. req.role \in Roles /\ req.ws \in Workspaces
  BY PoolAssumption
<1> HIDE DEF n
<1>3. /\ call'[c].pc = "select" /\ call'[c].role = req.role /\ call'[c].ws = req.ws
      /\ call'[c].stage = n
  BY <1>1 DEF CallAt
<1>4. /\ watch'[c].open \subseteq watch'[c].same
      /\ watch'[c].same \subseteq Reach(call'[c])
      /\ \A p \in watch'[c].open : ~Full(p)'
  BY <1>1, <1>3, WatchBegins DEF InCall
<1>5. Reach(call[c])' = Reach(call'[c]) /\ \A p : ListOf(p, call[c])' = ListOf(p, call'[c])
  BY <1>1 DEF Reach, Eligible, Registered, PreferredPool, ListOf
<1>6. \A p \in watch'[c].open : StageNo[n] <= ListOf(p, call'[c])
  <2>1. CASE req.role # "architect"
    BY <2>1, ListsNumbered DEF n
  <2>2. CASE req.role = "architect"
    <3>1. ASSUME NEW p \in watch'[c].open PROVE ListOf(p, call'[c]) = 2
      <4>1. PreferredPool(req.role, req.ws) = NoPool
        BY <1>2, <2>2, PoolAssumption DEF PreferredPool
      <4>2. p \in Pools /\ p # NoPool /\ meta[p].scope = Shared
        BY <1>3, <1>4, <2>2, <4>1, PoolAssumption DEF Reach
      <4> QED BY <1>3, <4>1, <4>2 DEF ListOf
    <3> QED BY <2>2, <3>1, ListsNumbered DEF n
  <2> QED BY <2>1, <2>2
<1> QED BY <1>1, <1>2, <1>3, <1>4, <1>5, <1>6 DEF Watched, n

LEMMA SelectWatched ==
  ASSUME IInv, IInv', RegistryInv, NEW c \in Callers, Watched(c), Select(c), WatchNext
  PROVE  Watched(c)' /\ ReturnsRight(c)
<1> DEFINE k   == call[c]
           ids == Candidates(k.role, k.ws, k.stage)
<1>1. k \in Call /\ InCall(k) /\ k.role \in Roles /\ k.stage \in Stages
  BY DEF RegistryInv, CallsKnown, Call, Select, InCall
<1>2. k.ws \in Workspaces /\ (k.role = "architect" => k.stage = "shared")
  BY <1>1 DEF Watched
<1>3. /\ ids \in Seq(Pools) /\ ToSet(ids) = Offered(k.role, k.ws, k.stage)
      /\ ByPriority(ids)
  BY <1>1, CandidatesAre DEF IInv, RegistryInv
<1>4. call'[c] = Onward(k, ids) /\ meta' = meta
  BY DEF Select, RegistryInv, CallsKnown
<1> HIDE DEF ids
<1>5. /\ \A p \in Reach(k) : ListOf(p, k) = StageNo[k.stage] => p \in ToSet(ids)
      /\ \A p \in ToSet(ids) : p \in Reach(k) /\ ListOf(p, k) <= StageNo[k.stage]
  BY <1>1, <1>2, <1>3, OfferedIsList
<1>6. OnList(watch[c], k, ids)
  <2>1. \A p \in watch[c].open : p \in Reach(k) /\ StageNo[k.stage] <= ListOf(p, k)
    BY <1>1 DEF Watched, Select
  <2>2. \A p : ListOf(p, k) \in Int /\ StageNo[k.stage] \in Int
    BY <1>1, ListsNumbered
  <2> HIDE DEF k
  <2> QED BY <1>3, <1>5, <2>1, <2>2 DEF OnList, ByPriority
<1>7. /\ Watched(c)' /\ call'[c].pc # "holding"
      /\ call'[c].pc = "idle" => watch[c].open = {}
  BY <1>1, <1>3, <1>4, <1>5, <1>6, OnwardWatched
<1> QED BY <1>7 DEF ReturnsRight

\* The head of a list has no better pool that stayed free behind it or on a later list.
LEMMA HeadIsBest ==
  ASSUME IInv, NEW c \in Callers, call[c] \in Call, call[c].pc = "try", call[c].ids # <<>>,
         Watched(c), Head(call[c].ids) \in watch[c].same
  PROVE  \A q \in watch[c].open : ~Beats(q, Head(call[c].ids), call[c])
<1> SUFFICES ASSUME NEW q \in watch[c].open PROVE ~Beats(q, Head(call[c].ids), call[c])
  OBVIOUS
<1> DEFINE k   == call[c]
           ids == k.ids
           p   == Head(ids)
<1>1. /\ ids \in Seq(Pools) /\ DOMAIN ids = 1..Len(ids) /\ Len(ids) \in Nat /\ 1 \in DOMAIN ids
      /\ p = ids[1] /\ k.stage \in Stages
  BY HeadTailProperties, LenProperties, EmptySeq DEF Call
<1>2. InCall(k) /\ OnList(watch[c], k, ids) /\ watch[c].open \subseteq watch[c].same
      /\ watch[c].same \subseteq Reach(k)
  BY DEF Watched, InCall
<1>3. ListOf(p, k) \in 0..2 /\ ListOf(q, k) \in 0..2 /\ StageNo[k.stage] \in 0..2
  BY <1>1, ListsNumbered
<1>4. /\ p \in watch[c].same /\ q \in watch[c].same /\ p \in ToSet(ids)
      /\ ListOf(p, k) <= StageNo[k.stage]
  BY <1>1, <1>2 DEF OnList, ToSet
<1>5. /\ StageNo[k.stage] <= ListOf(q, k)
      /\ StageNo[k.stage] = ListOf(q, k) => q \in ToSet(ids)
  BY <1>2 DEF OnList
<1>6. meta[p].priority \in Int /\ meta[q].priority \in Int
  BY <1>2, <1>4 DEF Reach, Eligible, Registered, IInv, PoolsTyped, Row
<1>7. q \in ToSet(ids) => meta[p].priority <= meta[q].priority
  <2> SUFFICES ASSUME NEW j \in DOMAIN ids, q = ids[j] PROVE meta[p].priority <= meta[q].priority
    BY DEF ToSet
  <2>1. j = 1 \/ 1 < j
    BY <1>1
  <2> QED BY <1>1, <1>2, <1>4, <1>6, <2>1 DEF OnList
<1> HIDE DEF p, k
<1> QED BY <1>3, <1>4, <1>5, <1>6, <1>7 DEF Beats, p, k

LEMMA TryWatched ==
  ASSUME IInv, IInv', RegistryInv, NEW c \in Callers, Watched(c), TryAcquire(c), WatchNext
  PROVE  Watched(c)' /\ ReturnsRight(c)
<1> DEFINE k   == call[c]
           ids == k.ids
           p   == Head(ids)
<1>1. /\ k \in Call /\ InCall(k) /\ k.pc = "try" /\ k.stage \in Stages
      /\ ids \in Seq(Pools) /\ ids # <<>>
  BY DEF RegistryInv, CallsKnown, Call, TryAcquire, InCall
<1>2. /\ p \in Pools /\ Tail(ids) \in Seq(Pools) /\ p = ids[1] /\ Len(ids) \in Nat
      /\ DOMAIN ids = 1..Len(ids) /\ 1 \in DOMAIN ids
      /\ DOMAIN Tail(ids) = 1..(Len(ids) - 1)
      /\ \A i \in 1..(Len(ids) - 1) : Tail(ids)[i] = ids[i + 1]
  BY <1>1, HeadTailProperties, LenProperties, EmptySeq
<1>3. /\ ToSet(ids) \subseteq watch[c].ever /\ OnList(watch[c], k, ids)
      /\ watch[c].open \subseteq watch[c].same /\ watch[c].same \subseteq Reach(k)
      /\ \A q \in watch[c].open : ~Full(q)
  BY <1>1 DEF Watched
<1>4. CASE CanTake(p)
  <2>1. call'[c] = Resting("holding", p)
    BY <1>1, <1>4 DEF TryAcquire, RegistryInv, CallsKnown
  <2>2. call'[c].pc = "holding" /\ call'[c].pool = p
    BY <2>1 DEF Resting
  <2>3. p \in watch[c].ever
    BY <1>2, <1>3 DEF ToSet
  <2>4. p \in watch[c].same => \A q \in watch[c].open : ~Beats(q, p, k)
    BY <1>1, HeadIsBest
  <2> HIDE DEF p
  <2> QED BY <2>2, <2>3, <2>4 DEF ReturnsRight, Watched, InCall
<1>5. CASE ~CanTake(p)
  <2>1. call'[c] = Onward(k, Tail(ids)) /\ meta' = meta
    BY <1>5 DEF TryAcquire, RegistryInv, CallsKnown
  <2>2. p \notin watch[c].open
    BY <1>3, <1>5 DEF CanTake, Reach, Eligible
  <2>3. \A i \in 1..(Len(ids) - 1) : i + 1 \in DOMAIN ids /\ Tail(ids)[i] = ids[i + 1]
    BY <1>2
  <2>4. ToSet(Tail(ids)) \subseteq ToSet(ids)
    BY <1>2, <2>3 DEF ToSet
  <2>5. ASSUME NEW q \in ToSet(ids), q # p PROVE q \in ToSet(Tail(ids))
    <3>1. PICK j \in DOMAIN ids : q = ids[j]
      BY DEF ToSet
    <3>2. j - 1 \in 1..(Len(ids) - 1) /\ (j - 1) + 1 = j
      BY <1>2, <2>5, <3>1
    <3> QED BY <1>2, <2>3, <3>1, <3>2 DEF ToSet
  <2>6. OnList(watch[c], k, Tail(ids))
    <3> DEFINE t == Tail(ids)
               n == StageNo[k.stage]
    <3>1. /\ \A q \in watch[c].open : n <= ListOf(q, k)
          /\ \A q \in watch[c].open : n = ListOf(q, k) => q \in ToSet(t)
      BY <1>3, <2>2, <2>5 DEF OnList
    <3>2. \A q \in watch[c].same \cap ToSet(t) : ListOf(q, k) <= n
      BY <1>3, <2>4 DEF OnList
    <3>3. ASSUME NEW i \in DOMAIN t, NEW j \in DOMAIN t, i < j,
                 t[i] \in watch[c].same, t[j] \in watch[c].same
          PROVE  meta[t[i]].priority <= meta[t[j]].priority
      <4>1. /\ i + 1 \in DOMAIN ids /\ j + 1 \in DOMAIN ids
            /\ t[i] = ids[i + 1] /\ t[j] = ids[j + 1]
        BY <1>2, <2>3
      <4>2. i + 1 < j + 1
        BY <1>2, <3>3
      <4> HIDE DEF t, k
      <4> QED BY <1>3, <3>3, <4>1, <4>2 DEF OnList
    <3> SUFFICES OnList(watch[c], k, t)
      OBVIOUS
    <3> HIDE DEF t, k
    <3> QED BY <3>1, <3>2, <3>3 DEF OnList
  <2>7. /\ Watched(c)' /\ call'[c].pc # "holding"
        /\ call'[c].pc = "idle" => watch[c].open = {}
    BY <1>1, <1>2, <1>3, <2>1, <2>4, <2>6, OnwardWatched
  <2> QED BY <2>7 DEF ReturnsRight
<1> QED BY <1>4, <1>5

LEMMA RestsRight ==
  ASSUME IInv', NEW c \in Callers, Watched(c), WatchNext, call'[c] = call[c]
  PROVE  Watched(c)' /\ ReturnsRight(c)
<1>1. Watched(c)'
  BY WatchRests
<1> QED BY <1>1 DEF ReturnsRight, InCall

LEMMA OutOfCall ==
  ASSUME NEW c \in Callers, ~InCall(call[c]), ~InCall(call'[c])
  PROVE  Watched(c)' /\ ReturnsRight(c)
BY DEF Watched, ReturnsRight

LEMMA NextWatched ==
  IInv /\ IInv' /\ RegistryInv /\ WatchInv /\ [Next /\ WatchNext]_<<vars, watch>>
    => WatchInv' /\ \A c \in Callers : ReturnsRight(c)
<1> SUFFICES ASSUME IInv, IInv', RegistryInv, WatchInv, [Next /\ WatchNext]_<<vars, watch>>,
                    NEW c \in Callers
             PROVE  Watched(c)' /\ ReturnsRight(c)
  BY DEF WatchInv
<1>0. Watched(c) /\ call = [d \in Callers |-> call[d]] /\ call \in [Callers -> Call]
  BY DEF WatchInv, IInv, CallsTyped, RegistryInv, CallsKnown
<1>1. CASE UNCHANGED <<vars, watch>>
  BY <1>0, <1>1 DEF vars, Watched, ReturnsRight, InCall, Reach, Eligible, Registered,
                    PreferredPool, Full, ListOf, OnList
<1>2. CASE Next /\ WatchNext
  <2>0. WatchNext
    BY <1>2
  <2>r. ASSUME call'[c] = call[c] PROVE Watched(c)' /\ ReturnsRight(c)
    BY <1>0, <2>0, <2>r, RestsRight
  <2>1. ASSUME NEW d \in Callers, NEW req \in Requests, Begin(d, req.role, req.ws)
        PROVE  Watched(c)' /\ ReturnsRight(c)
    <3>1. CASE d = c
      BY <1>0, <2>0, <2>1, <3>1, BeginWatched DEF ReturnsRight
    <3>2. CASE d # c
      BY <1>0, <2>r, <2>1, <3>2 DEF Begin
    <3> QED BY <3>1, <3>2
  <2>2. ASSUME NEW d \in Callers, Select(d)
        PROVE  Watched(c)' /\ ReturnsRight(c)
    <3>1. CASE d = c
      BY <1>0, <2>0, <2>2, <3>1, SelectWatched
    <3>2. CASE d # c
      BY <1>0, <2>r, <2>2, <3>2 DEF Select
    <3> QED BY <3>1, <3>2
  <2>3. ASSUME NEW d \in Callers, TryAcquire(d)
        PROVE  Watched(c)' /\ ReturnsRight(c)
    <3>1. CASE d = c
      BY <1>0, <2>0, <2>3, <3>1, TryWatched
    <3>2. CASE d # c
      BY <1>0, <2>r, <2>3, <3>2 DEF TryAcquire
    <3> QED BY <3>1, <3>2
  <2>4. ASSUME NEW d \in Callers, ReleaseByPool(d)
        PROVE  Watched(c)' /\ ReturnsRight(c)
    <3>1. CASE d = c
      BY <1>0, <2>4, <3>1, OutOfCall DEF ReleaseByPool, InCall, IdleCall, Resting
    <3>2. CASE d # c
      BY <1>0, <2>r, <2>4, <3>2 DEF ReleaseByPool
    <3> QED BY <3>1, <3>2
  <2>5. ASSUME NEW d \in Callers, NEW p \in Pools, AcquireSpecific(d, p)
        PROVE  Watched(c)' /\ ReturnsRight(c)
    <3>1. CASE d = c
      BY <1>0, <2>5, <3>1, OutOfCall DEF AcquireSpecific, InCall, Resting
    <3>2. CASE d # c
      BY <1>0, <2>r, <2>5, <3>2 DEF AcquireSpecific
    <3> QED BY <3>1, <3>2
  <2>6. ASSUME NEW p \in Pools, UserStep(p)
        PROVE  Watched(c)' /\ ReturnsRight(c)
    <3>1. call' = call
      BY <2>6 DEF UserStep, SavePool, DeletePoolCheck, DeletePool
    <3> QED BY <2>r, <3>1
  <2> QED BY <1>2, <2>1, <2>2, <2>3, <2>4, <2>5, <2>6 DEF Next, CallerStep
<1> QED BY <1>1, <1>2

LEMMA SelectionInvariance == SelectionSpec => [](IInv /\ RegistryInv /\ WatchInv)
<1>1. SelectionInit => IInv /\ RegistryInv /\ WatchInv
  <2>1. SelectionInit => WatchInv
    BY DEF SelectionInit, Init, WatchInv, Watched, InCall, Resting, IdleCall
  <2> QED BY <2>1, InitIInv, InitRegistry DEF SelectionInit
<1>2. IInv /\ RegistryInv /\ WatchInv /\ [Next /\ WatchNext]_<<vars, watch>>
        => (IInv /\ RegistryInv /\ WatchInv)'
  <2>1. [Next /\ WatchNext]_<<vars, watch>> => [Next]_vars
    OBVIOUS
  <2> QED BY <2>1, NextIInv, NextRegistry, NextWatched
<1> QED BY <1>1, <1>2, PTL DEF SelectionSpec

\* A call that comes back empty-handed has missed no slot that was free all along.
THEOREM NoSlotMissed == SelectionSpec => NoSpuriousRefusal
<1>1. IInv /\ IInv' /\ RegistryInv /\ WatchInv /\ [Next /\ WatchNext]_<<vars, watch>>
        => [\A c \in Callers : InCall(call[c]) /\ call'[c].pc = "idle"
                                 => watch[c].open = {}]_<<vars, watch>>
  BY NextWatched DEF ReturnsRight
<1> QED BY <1>1, SelectionInvariance, PTL DEF SelectionSpec, NoSpuriousRefusal

\* A call that gets a slot gets it from a pool it may use, and from the best of those that
\* had one all along.
THEOREM BestPoolTaken == SelectionSpec => PreferenceHonoured
<1>1. IInv /\ IInv' /\ RegistryInv /\ WatchInv /\ [Next /\ WatchNext]_<<vars, watch>>
        => [\A c \in Callers :
              InCall(call[c]) /\ call'[c].pc = "holding" =>
                /\ call'[c].pool \in watch[c].ever
                /\ call'[c].pool \in watch[c].same =>
                     \A q \in watch[c].open : ~Beats(q, call'[c].pool, call[c])]_<<vars, watch>>
  BY NextWatched DEF ReturnsRight
<1> QED BY <1>1, SelectionInvariance, PTL DEF SelectionSpec, PreferenceHonoured
=============================================================================
