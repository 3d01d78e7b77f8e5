---------------------------- MODULE PipelineDriver ----------------------------
(***************************************************************************)
(* The pipelines of a workspace (internal/pipeline/driver.go): where a card  *)
(* goes when a step ends, and which pipelines may be saved.  A pipeline is a  *)
(* sequence of steps [id, success, fail, cap]; "" is no step, and a cap of 0   *)
(* is none.                                                                   *)
(***************************************************************************)
EXTENDS Naturals, Sequences, SequencesExt

NoStep == ""

IsPipeline(p) ==
  \E n \in Nat : p \in [1 .. n -> [id : STRING, success : STRING, fail : STRING, cap : Nat]]

Ids(p) == {p[i].id : i \in DOMAIN p}

\* The first step with the id.
FindStep(p, id) == p[CHOOSE i \in DOMAIN p : p[i].id = id /\ \A j \in DOMAIN p : p[j].id = id => i <= j]

Route(s, outcome) == IF outcome = "success" THEN s.success ELSE s.fail

Spawn(id)    == [type |-> "spawn_step", step |-> id]
Done         == [type |-> "done", step |-> NoStep]
Blocked(why) == [type |-> "blocked", step |-> NoStep, why |-> why]

\* Where a card goes whose step has ended; loops counts the runs of each step so far.
NextAction(p, current, outcome, loops) ==
  LET target == Route(FindStep(p, current), outcome)
      cap    == FindStep(p, target).cap
  IN IF current \notin Ids(p) THEN Blocked("unknown_step")
     ELSE IF target = NoStep THEN IF outcome = "fail" THEN Blocked("no_route") ELSE Done
     ELSE IF target \notin Ids(p) THEN Blocked("deleted_step")
     ELSE IF cap > 0 /\ loops[target] >= cap THEN Blocked("cap")
     ELSE Spawn(target)

-----------------------------------------------------------------------------
(* Validate *)

Named(p)  == \A i \in DOMAIN p : p[i].id # NoStep
Unique(p) == \A i, j \in DOMAIN p : p[i].id = p[j].id => i = j
Linked(p) == \A i \in DOMAIN p : {p[i].success, p[i].fail} \subseteq Ids(p) \union {NoStep}

Neighbors(p, id) == {Route(FindStep(p, id), o) : o \in {"success", "fail"}} \ {NoStep}

\* What n rounds of the breadth-first search from a set of steps come to.
Visited(p, from) ==
  LET round[n \in 0 .. Len(p)] ==
        IF n = 0 THEN from
        ELSE round[n - 1] \union UNION {Neighbors(p, id) : id \in round[n - 1] \cap Ids(p)}
  IN round[Len(p)]

CanReachItself(p, id) == id \in Visited(p, Neighbors(p, id))
CycleMembers(p, id)   == {m \in Visited(p, {id}) : id \in Visited(p, {m})}

Capped(p, ids) == \E id \in ids : FindStep(p, id).cap > 0

ValidateCycles(p) == \A i \in DOMAIN p : CanReachItself(p, p[i].id) => Capped(p, CycleMembers(p, p[i].id))

Validate(p) == Named(p) /\ Unique(p) /\ Linked(p) /\ ValidateCycles(p)

-----------------------------------------------------------------------------
(* What these are to come to, for every pipeline of a few steps *)

\* Pipelines with the given names as the ids of their steps, in this order.
Pipelines(names, caps) ==
  LET n      == Len(names)
      routes == [1 .. n -> ToSet(names) \union {NoStep}]
  IN {[i \in 1 .. n |-> [id |-> names[i], success |-> s[i], fail |-> f[i], cap |-> k[i]]] :
        s \in routes, f \in routes, k \in caps}

\* Whether there is a walk of one or more routes from a step to another: every set of
\* steps that has the neighbours of the first, and those of each of its own, has the second.
Leads(p, a, b) ==
  \A S \in SUBSET Ids(p) :
     Neighbors(p, a) \subseteq S /\ (\A s \in S : Neighbors(p, s) \subseteq S) => b \in S

\* Validate accepts a pipeline if its ids are good, its routes lead somewhere, and of
\* the steps of every knot, each of which leads to each, one has a cap; and no other.
ValidatesKnots(pipelines) ==
  \A p \in pipelines :
     Validate(p) <=> /\ Named(p) /\ Unique(p) /\ Linked(p)
                     /\ \A a \in Ids(p) : Leads(p, a, a) =>
                          \E b \in Ids(p) : Leads(p, a, b) /\ Leads(p, b, a) /\ Capped(p, {b})

\* No cycle is without a cap, so that no card goes round for ever, as the comment of
\* Validate has it.  A cycle is a sequence of different steps, each routed to the next.
CycleOf(p, c) ==
  /\ \A i, j \in DOMAIN c : c[i] = c[j] => i = j
  /\ \A i \in DOMAIN c : c[(i % Len(c)) + 1] \in Neighbors(p, c[i])
EveryCycleCapped(pipelines) ==
  \A p \in pipelines : Validate(p) =>
     \A n \in 1 .. Len(p) : \A c \in [1 .. n -> Ids(p)] :
        CycleOf(p, c) => Capped(p, {c[i] : i \in 1 .. n})

===============================================================================
