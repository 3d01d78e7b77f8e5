----------------------------- MODULE IssueLabels -----------------------------
(***************************************************************************)
(* The labels and the dependencies that an issue's row keeps as lists        *)
(* (app.go): what a plan's suggestions make of the labels, and the two calls  *)
(* that change the dependencies.  "" stands for no label.                     *)
(***************************************************************************)
EXTENDS Naturals, Sequences, SequencesExt

NoLabel == ""

\* The members of a list that are in a set, and a list with one more unless it is there.
Only(list, set)    == SelectSeq(list, LAMBDA x : x \in set)
AppendNew(list, x) == IF x \in ToSet(list) THEN list ELSE Append(list, x)

\* The first label that the plan before suggested; there is none before the first.
PriorAxisLabel(suggested, revision) ==
  IF revision <= 1 \/ suggested[revision - 1] = <<>> THEN NoLabel ELSE suggested[revision - 1][1]

\* The labels as they are, without the axis of the plan before unless it is suggested
\* again, and those to keep after them.
ReconcileAutoLabels(current, keep, prior) ==
  LET stays(l) == l = prior /\ prior # NoLabel => l \in ToSet(keep)
  IN FoldLeft(AppendNew, FoldLeft(AppendNew, <<>>, SelectSeq(current, stays)), keep)

LabelSetEqual(a, b) == Len(a) = Len(b) /\ ToSet(b) \subseteq ToSet(a)

\* The list that is sent to GitHub, which takes it for all of the issue's labels, and put
\* into the row; the row's own if nothing is sent.  Names that the repository does not
\* have are dropped.
AutoApplyPlanLabels(current, suggested, revision, cache) ==
  LET keep == Only(suggested[revision], cache)
      next == ReconcileAutoLabels(current, keep, PriorAxisLabel(suggested, revision))
  IN IF LabelSetEqual(current, next) THEN current ELSE next

AddIssueDep(deps, dep)    == AppendNew(deps, dep)
RemoveIssueDep(deps, dep) == SelectSeq(deps, LAMBDA d : d # dep)

-----------------------------------------------------------------------------
(* What they are to come to, for every short list *)

Lists(names, n) == SeqOf(names, n)

\* A plan takes away the axis of the plan before and nothing else, adds what it suggests
\* and the repository has and nothing else, and leaves the order of what stays; a list
\* that has a label twice is mended.
PlanLabelsRight(names, n) ==
  \A current, before, now \in Lists(names, n) : \A cache \in SUBSET names :
    LET out     == AutoApplyPlanLabels(current, <<before, now>>, 2, cache)
        keep    == ToSet(now) \cap cache
        dropped == IF before = <<>> THEN {} ELSE {before[1]} \ keep
    IN /\ ToSet(out) = (ToSet(current) \ dropped) \union keep
       /\ \A i, j \in DOMAIN out : out[i] = out[j] => i = j
       /\ \A a, b \in ToSet(out) \cap ToSet(current) :
            (SelectInSeq(current, LAMBDA x : x = a) < SelectInSeq(current, LAMBDA x : x = b))
              <=> (SelectInSeq(out, LAMBDA x : x = a) < SelectInSeq(out, LAMBDA x : x = b))

\* The dependencies stay a list without repetitions, and a call undoes the other.
DepsRight(names, n) ==
  \A deps \in Lists(names, n), d \in names :
    IsInjective(deps) =>
      /\ IsInjective(AddIssueDep(deps, d)) /\ ToSet(AddIssueDep(deps, d)) = ToSet(deps) \union {d}
      /\ ToSet(RemoveIssueDep(deps, d)) = ToSet(deps) \ {d}
      /\ d \notin ToSet(deps) => RemoveIssueDep(AddIssueDep(deps, d), d) = deps
===============================================================================
