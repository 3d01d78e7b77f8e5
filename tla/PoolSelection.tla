---------------------------- MODULE PoolSelection ----------------------------
(***************************************************************************)
(* Which pool an acquire call ends with.  The lists of WorkerPool are      *)
(* computed under a lock that is dropped before a slot is tried, so a call *)
(* is not atomic; what it owes its caller is stated about the pools that   *)
(* stayed as they were for the whole of the call.  `watch' remembers them. *)
(***************************************************************************)
EXTENDS WorkerPool

VARIABLE watch   \* [Callers -> [same, open, ever : SUBSET Pools]]

NotWatching == [same |-> {}, open |-> {}, ever |-> {}]

InCall(k) == k.pc \in {"select", "try"}

\* The pools a request may be served from: its role, and shared, bound to its
\* workspace, or preferred by it.
Reach(req) ==
  {p \in Pools :
     /\ Eligible(p, req.role)
     /\ \/ meta[p].scope = Shared
        \/ req.role # "architect" /\ meta[p].scope = req.ws
        \/ p = PreferredPool(req.role, req.ws)}

\* same: reachable pools whose row has not changed since the call began.
\* open: those of them that have also had a free slot all along.
\* ever: every pool that was reachable at some moment of the call.
WatchNext ==
  watch' = [c \in Callers |->
    IF ~InCall(call'[c]) THEN NotWatching
    ELSE LET old == IF InCall(call[c]) THEN watch[c].same ELSE Reach(call'[c])
             free == IF InCall(call[c]) THEN watch[c].open ELSE {p \in old : ~Full(p)}
             same == {p \in old : meta'[p] = meta[p]}
             ever == IF InCall(call[c]) THEN watch[c].ever ELSE {}
         IN  [same |-> same,
              ever |-> ever \cup Reach(call'[c]),
              open |-> {p \in free \cap same : active'[p] < meta[p].capacity}]]

SelectionInit == Init /\ watch = [c \in Callers |-> NotWatching]
SelectionSpec == SelectionInit /\ [][Next /\ WatchNext]_<<vars, watch>>

-----------------------------------------------------------------------------
\* The list a pool belongs to for a request, best first.
ListOf(p, req) ==
  CASE p = PreferredPool(req.role, req.ws) -> 0
    [] p # PreferredPool(req.role, req.ws) /\ meta[p].scope # Shared -> 1
    [] p # PreferredPool(req.role, req.ws) /\ meta[p].scope = Shared -> 2

Beats(q, p, req) ==
  \/ ListOf(q, req) < ListOf(p, req)
  \/ ListOf(q, req) = ListOf(p, req) /\ meta[q].priority < meta[p].priority

\* A call comes back empty-handed only if every pool it could have been served
\* from was full, or edited, at some moment of the call: a slot that is free all
\* along is never missed (an empty answer parks the issue in the pending queue).
NoSpuriousRefusal ==
  [][\A c \in Callers :
       InCall(call[c]) /\ call'[c].pc = "idle" => watch[c].open = {}]_<<vars, watch>>

\* The slot a caller gets is of a pool that, at some moment of the call, was enabled,
\* served the caller's role, and was shared, bound to its workspace or preferred by it: no
\* fallback across roles or workspaces.  And no pool ahead of it in the documented order
\* (preferred, workspace-bound, shared by priority) had a free slot for the whole of the
\* call.
PreferenceHonoured ==
  [][\A c \in Callers :
       InCall(call[c]) /\ call'[c].pc = "holding" =>
         /\ call'[c].pool \in watch[c].ever
         /\ call'[c].pool \in watch[c].same =>
              \A q \in watch[c].open : ~Beats(q, call'[c].pool, call[c])]_<<vars, watch>>
=============================================================================
