------------------------------ MODULE Workspaces ------------------------------
(***************************************************************************)
(* One workspace id and all that is kept under it: the registry row, the    *)
(* remote worker with its secrets, the key file, the Cloudflare token, the  *)
(* collection it is in and the pool bound to it.  A call is a list of steps *)
(* that fail one by one; the conductor may crash between any two.           *)
(***************************************************************************)
EXTENDS Naturals, Sequences

CONSTANTS Callers,     \* goroutines of the user interface and of the startup
          Collections, Keys,
          None,        \* no row, no worker, no key
          MaxCalls,    \* bound: calls
          Careful      \* provisioning calls run one at a time, and create new ids only

RowRecords    == [remote : BOOLEAN, ref : {"", "keyring", "file"}, unreachable : BOOLEAN]
WorkerRecords == [secrets : SUBSET {"GITHUB_PAT", "ANTHROPIC_API_KEY"}, key : Keys \cup {None}, enabled : BOOLEAN]

ASSUME WorkspacesAssumption ==
  /\ Careful \in BOOLEAN /\ MaxCalls \in Nat
  /\ None \notin Keys \cup RowRecords \cup WorkerRecords

VARIABLES
  row,         \* the registry's row: [remote, ref (where the token is), unreachable]
  saved,       \* the row in workspaces.json
  worker,      \* [secrets, key, enabled]: the deployed worker
  keyFile,     \* the conductor's copy of the worker's key
  tokens,      \* the places where a token of the workspace is stored
  collections, members, \* collections, and those the workspace is a member of
  bound,       \* a pool is bound to the workspace
  begun,       \* calls so far
  call         \* [caller -> op, todo: steps to go, fate, copy: row as read, key, into]

registry == <<row, saved>>
remote   == <<worker, keyFile, tokens>>
groups   == <<collections, members, bound>>
vars     == <<registry, remote, groups, begun, call>>

Secrets  == {"GITHUB_PAT", "ANTHROPIC_API_KEY"}
LocalRow == [remote |-> FALSE, ref |-> "", unreachable |-> FALSE]

NoCall(fate) == [op |-> "none", todo |-> <<>>, fate |-> fate, copy |-> None, key |-> None, into |-> None]
Free(p)      == call[p].op = "none"
At(p, step)  == ~Free(p) /\ Head(call[p].todo) = step

Provisioning == {"create", "deploy", "rotate", "remove"}
Backed == worker # None /\ worker.secrets = Secrets /\ worker.key = keyFile /\ worker.enabled
-----------------------------------------------------------------------------
\* Mutation: the row is registered as soon as the worker is up.
StepsRowFirst(op) == <<"put", "enable", "row", "pat", "anthropic", "token", "ckey", "setkey">>

Steps(op) ==
  CASE op = "create"   -> <<"put", "enable", "pat", "anthropic", "token", "ckey", "setkey", "row">>
    [] op = "deploy"   -> <<"put", "enable", "pat", "token", "ckey", "setkey", "row">>
    [] op = "rotate"   -> <<"ckey", "setkey">>
    [] op = "replace"  -> <<"forget", "token", "row">>
    [] op = "fallback" -> <<"file", "row">>
    [] op = "remove"   -> <<"secrets", "members", "pools", "drop">>
    [] OTHER           -> <<"row">>

Counted == begun < MaxCalls /\ begun' = begun + 1

Start(p, op, copy, key) ==
  /\ Free(p) /\ Counted
  /\ (Careful /\ op \in Provisioning) => \A q \in Callers : call[q].op \notin Provisioning
  /\ call' = [call EXCEPT ![p] = [NoCall("ok") EXCEPT !.op = op, !.todo = Steps(op), !.copy = copy, !.key = key]]
  /\ UNCHANGED <<registry, remote, groups>>

\* randomKey256
NewKeys == {k \in Keys : k # keyFile /\ (worker # None => k # worker.key) /\ \A q \in Callers : k # call[q].key}

CreateRemoteWorkspace(p) ==
  /\ Careful => row = None
  /\ \E k \in NewKeys : Start(p, "create", [LocalRow EXCEPT !.remote = TRUE], k)
DeployRemoteWorker(p) ==
  row # None /\ \E k \in NewKeys : Start(p, "deploy", [row EXCEPT !.remote = TRUE, !.unreachable = FALSE], k)
RotateRemoteWorkerKey(p) == row # None /\ row.remote /\ \E k \in NewKeys : Start(p, "rotate", row, k)
AddWorkspace(p)         == row = None /\ Start(p, "add", LocalRow, None)
ReplaceCFToken(p)       == row # None /\ row.remote /\ Start(p, "replace", row, None)
StoreCFTokenFileFallback(p) == row # None /\ row.remote /\ Start(p, "fallback", row, None)
\* UpdateWorkspace, with the row that the form was opened on.
UpdateWorkspace(p)      == row # None /\ Start(p, "update", row, None)
ConvertWorkspaceToLocal(p) == row # None /\ row.remote /\ Start(p, "convert", LocalRow, None)
ProbeEndpoint(p) ==
  row # None /\ row.remote /\ Start(p, "probe", [row EXCEPT !.unreachable = ~@], None)
RemoveWorkspace(p)      == row # None /\ Start(p, "remove", row, None)

\* AddWorkspaceToCollection: the check, before the insert.
JoinCollection(p, c) ==
  /\ Free(p) /\ Counted /\ c \in collections /\ members = {}
  /\ call' = [call EXCEPT ![p] = [NoCall("ok") EXCEPT !.op = "join", !.todo = <<"insert">>, !.into = c]]
  /\ UNCHANGED <<registry, remote, groups>>
-----------------------------------------------------------------------------
\* The step is done: go on, or return.
Goes(p, copy) ==
  LET c == call[p] IN
  call' = [call EXCEPT ![p] =
    IF Len(c.todo) = 1 THEN NoCall(c.fate) ELSE [c EXCEPT !.todo = Tail(c.todo), !.copy = copy]]

Done(p) == Goes(p, call[p].copy)

\* The step failed: return, but a new worker is deleted first, once it was reported.
Fails(p) ==
  LET c == call[p] IN
  call' = [call EXCEPT ![p] =
    IF c.op # "create" \/ Head(c.todo) \in {"put", "enable"} THEN NoCall("error")
    ELSE [c EXCEPT !.fate = "error",
                   !.todo = IF Head(c.todo) = "row" THEN <<"cleanup", "unkey">> ELSE <<"cleanup">>]]

\* A call of the Cloudflare API that makes the worker w: an error, or an answer that is
\* lost, does not tell whether it did.
Api(p, w) ==
  /\ \/ worker' = w /\ Done(p)
     \/ worker' \in {worker, w} /\ Fails(p)
  /\ UNCHANGED <<registry, keyFile, tokens, groups, begun>>

\* An upload over an existing worker keeps its secrets, or drops them.
Put(p) ==
  /\ At(p, "put")
  /\ \E w \in {[secrets |-> {}, key |-> None, enabled |-> FALSE]} \cup ({worker} \ {None}) : Api(p, w)

\* With no worker by that name the request is an error.
OnWorker(p, w) == IF worker = None THEN Fails(p) /\ UNCHANGED <<registry, remote, groups, begun>> ELSE Api(p, w)

Enable(p)       == At(p, "enable") /\ OnWorker(p, [worker EXCEPT !.enabled = TRUE])
StorePAT(p)     == At(p, "pat") /\ OnWorker(p, [worker EXCEPT !.secrets = @ \cup {"GITHUB_PAT"}])
StoreAPIKey(p)  == At(p, "anthropic") /\ OnWorker(p, [worker EXCEPT !.secrets = @ \cup {"ANTHROPIC_API_KEY"}])
StoreKey(p)     == At(p, "ckey") /\ OnWorker(p, [worker EXCEPT !.key = call[p].key])
Cleanup(p) ==
  /\ At(p, "cleanup") /\ worker' \in {worker, None} /\ Done(p)
  /\ UNCHANGED <<registry, keyFile, tokens, groups, begun>>

\* SetKey
SetKey(p) ==
  /\ At(p, "setkey")
  /\ \/ keyFile' = call[p].key /\ Done(p)
     \/ UNCHANGED keyFile /\ Fails(p)
  /\ UNCHANGED <<registry, worker, tokens, groups, begun>>

\* DeleteKey: its failure is logged.
Unkey(p) ==
  /\ At(p, "unkey") /\ keyFile' \in {keyFile, None} /\ Done(p)
  /\ UNCHANGED <<registry, worker, tokens, groups, begun>>

\* The token goes to the keyring; without one, a deployment goes on with no reference.
StoreToken(p) ==
  /\ At(p, "token")
  /\ \/ tokens' = tokens \cup {"keyring"} /\ Goes(p, [call[p].copy EXCEPT !.ref = "keyring"])
     \/ /\ UNCHANGED tokens
        /\ IF call[p].op = "replace" THEN Fails(p) ELSE Goes(p, [call[p].copy EXCEPT !.ref = ""])
  /\ UNCHANGED <<registry, worker, keyFile, groups, begun>>

StoreTokenFile(p) ==
  /\ At(p, "file")
  /\ \/ tokens' = tokens \cup {"file"} /\ Goes(p, [call[p].copy EXCEPT !.ref = "file"])
     \/ UNCHANGED tokens /\ Fails(p)
  /\ UNCHANGED <<registry, worker, keyFile, groups, begun>>

\* DeleteFromRef: its failure is logged.
ForgetToken(p) ==
  /\ At(p, "forget") /\ tokens' \in {tokens, tokens \ {call[p].copy.ref}} /\ Done(p)
  /\ UNCHANGED <<registry, worker, keyFile, groups, begun>>

\* RemoteCleanup and DeleteKey, of a row that is remote.
RemoveSecrets(p) ==
  /\ At(p, "secrets") /\ Done(p)
  /\ tokens' \in {tokens, tokens \ {call[p].copy.ref}}
  /\ keyFile' \in {keyFile} \cup (IF call[p].copy.remote THEN {None} ELSE {})
  /\ UNCHANGED <<registry, worker, groups, begun>>

\* Registry.save, after the row in memory was changed.
Save(p, r) ==
  /\ row' = r
  /\ \/ saved' = r /\ Done(p)
     \/ UNCHANGED saved /\ Fails(p)

\* Registry.Add wants a new id, Registry.Update one it has.
WriteRow(p) ==
  /\ At(p, "row")
  /\ IF (row = None) = (call[p].op \in {"create", "add"})
     THEN Save(p, call[p].copy) ELSE Fails(p) /\ UNCHANGED registry
  /\ UNCHANGED <<remote, groups, begun>>

DropRow(p) ==
  /\ At(p, "drop")
  /\ IF row # None THEN Save(p, None) ELSE Fails(p) /\ UNCHANGED registry
  /\ UNCHANGED <<remote, groups, begun>>

\* RemoveWorkspaceFromAllCollections and RebindWorkspacePools: a failure is logged.
RemoveMembers(p) ==
  /\ At(p, "members") /\ members' \in {members, {}} /\ Done(p)
  /\ UNCHANGED <<registry, remote, collections, bound, begun>>

RebindPools(p) ==
  /\ At(p, "pools") /\ bound' \in {bound, FALSE} /\ Done(p)
  /\ UNCHANGED <<registry, remote, collections, members, begun>>
-----------------------------------------------------------------------------
\* Mutation: no index on the member.
AdmittedByKey(c) == c \notin members

\* The index allows one row per workspace.
Admitted(c) == members = {}

\* Whether a foreign key is looked at is up to the connection of the statement.
InsertMember(p) ==
  /\ At(p, "insert")
  /\ IF Admitted(call[p].into)
     THEN \/ members' = members \cup {call[p].into} /\ Done(p)
          \/ UNCHANGED members /\ Fails(p)
     ELSE UNCHANGED members /\ Fails(p)
  /\ UNCHANGED <<registry, remote, collections, bound, begun>>

LeaveCollection(c) ==
  /\ Counted /\ c \in members /\ members' = members \ {c}
  /\ UNCHANGED <<registry, remote, collections, bound, call>>

CreateCollection(c) ==
  /\ Counted /\ c \notin collections \cup members /\ \A p \in Callers : call[p].into # c
  /\ collections' = collections \cup {c}
  /\ UNCHANGED <<registry, remote, members, bound, call>>

DeleteCollection(c) ==
  /\ Counted /\ c \in collections /\ collections' = collections \ {c}
  /\ members' \in {members, members \ {c}}
  /\ UNCHANGED <<registry, remote, bound, call>>

\* SavePool
BindPool == Counted /\ ~bound /\ row # None /\ bound' = TRUE /\ UNCHANGED <<registry, remote, collections, members, call>>

Crash ==
  /\ \E p \in Callers : ~Free(p)
  /\ row' = saved /\ call' = [p \in Callers |-> NoCall("crashed")]
  /\ UNCHANGED <<saved, remote, groups, begun>>
-----------------------------------------------------------------------------
Init ==
  /\ row = None /\ saved = None /\ worker = None /\ keyFile = None /\ tokens = {}
  /\ collections = Collections /\ members = {} /\ bound = FALSE /\ begun = 0
  /\ call = [p \in Callers |-> NoCall("ok")]

Begin(p) ==
  \/ CreateRemoteWorkspace(p) \/ AddWorkspace(p) \/ DeployRemoteWorker(p) \/ RotateRemoteWorkerKey(p)
  \/ ReplaceCFToken(p) \/ StoreCFTokenFileFallback(p) \/ UpdateWorkspace(p) \/ ConvertWorkspaceToLocal(p)
  \/ ProbeEndpoint(p) \/ RemoveWorkspace(p) \/ \E c \in Collections : JoinCollection(p, c)

Step(p) ==
  \/ Put(p) \/ Enable(p) \/ StorePAT(p) \/ StoreAPIKey(p) \/ StoreKey(p) \/ Cleanup(p) \/ SetKey(p) \/ Unkey(p)
  \/ StoreToken(p) \/ StoreTokenFile(p) \/ ForgetToken(p) \/ RemoveSecrets(p) \/ WriteRow(p) \/ DropRow(p)
  \/ RemoveMembers(p) \/ RebindPools(p) \/ InsertMember(p)

Next ==
  \/ \E p \in Callers : Begin(p) \/ Step(p)
  \/ \E c \in Collections : LeaveCollection(c) \/ CreateCollection(c) \/ DeleteCollection(c)
  \/ BindPool \/ Crash

Spec == Init /\ [][Next]_vars
-----------------------------------------------------------------------------
\* Type invariant.
TypeOK ==
  /\ {row, saved} \subseteq RowRecords \cup {None}
  /\ worker \in WorkerRecords \cup {None}
  /\ keyFile \in Keys \cup {None} /\ tokens \subseteq {"keyring", "file"}
  /\ begun \in 0..MaxCalls /\ collections \subseteq Collections /\ members \subseteq Collections /\ bound \in BOOLEAN
  /\ \A p \in Callers : /\ call[p].copy \in RowRecords \cup {None} /\ call[p].key \in Keys \cup {None}
                        /\ call[p].fate \in {"ok", "error", "crashed"} /\ (Free(p) <=> call[p].todo = <<>>)

\* CreateRemoteWorkspace, while nothing fails, writes the row as the last thing it does,
\* and when it returns without an error the worker is up, has every secret, and knows the
\* key that the conductor will show it (app.go:1366-1368).
CreateIsAtomic ==
  [][\A p \in Callers :
       (call[p].op = "create" /\ call'[p] # call[p] /\ call'[p].fate = "ok") =>
         /\ row' # row => call'[p].op = "none"
         /\ call'[p].op = "none" => row' # None /\ Backed']_vars

\* A workspace is in one collection at most, though the check and the insert are two
\* statements (Store.AddWorkspaceToCollection).
SingleMembership == \A c, d \in members : c = d
-----------------------------------------------------------------------------
\* What the code's comments say and TLC refutes.

\* app.go:1368: a failure at any point leaves no zombie row.
NoZombieRow ==
  [][\A p \in Callers :
       (call[p].op = "create" /\ call'[p] # call[p] /\ call'[p].fate = "error") => row' = row]_vars

\* app.go:1369: the cleanup is of the worker that the call has deployed, not of one that
\* a registered workspace uses.
LiveWorkerKept == [][row # None /\ row.remote /\ worker # None => worker' # None]_vars

\* The key file is the worker's key when no provisioning call is under way.
KeysAgree ==
  (row # None /\ row.remote /\ worker # None /\ \A p \in Callers : call[p].op \notin Provisioning)
    => worker.key = keyFile

\* A reference in a row leads to a token.
RefHasToken ==
  (row # None /\ \A p \in Callers : Free(p)) => row.ref = "" \/ row.ref \in tokens

\* app.go:1175: the token goes with the workspace.
TokenGoesWithRow == (row = None /\ saved = None /\ \A p \in Callers : Free(p)) => tokens = {}

\* collections.go:112: the members go with their collection.
MembersHaveCollection == members \subseteq collections

\* app.go:1173-1174: no pool stays bound to a workspace that is gone.
PoolsNotOrphaned == bound => row # None
===============================================================================
