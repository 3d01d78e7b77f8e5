------------------------------ MODULE SlotQueue ------------------------------
(***************************************************************************)
(* The queue of spawn requests: a user call (ApprovePlan, or a card dragged *)
(* to PLAN) that finds its pool full leaves a row in pending_pool_for; when *)
(* a worker gives its slot back, a drain goroutine serves the rows.  Here   *)
(* the slot counter meets everything that writes it: the callers, the       *)
(* drains, the release on WorkerSlotFreed, and the reconciler that          *)
(* overwrites it with a count of the database's running rows.  Every event  *)
(* handler is a goroutine of its own (eventbus.Publish).                    *)
(*                                                                         *)
(* One pool per role, one request per issue at a time.  A session is an     *)
(* issue's worker; its life is in SessionManager.  A worker that another    *)
(* run of the conductor left behind is in `old'.                            *)
(***************************************************************************)
EXTENDS Integers, SequencesExt

CONSTANTS Issues, RoleOf,   \* [Issues -> Roles]: what the issue's card waits for
          Capacity,         \* [Roles -> Nat], 0 for a role without a pool
          Drains,           \* bound: concurrent drain goroutines
          Reconcilers,      \* bound: concurrent reconcile goroutines
          ListLimit,        \* the most rows one drain lists (50 in the code)
          MaxAsks,          \* bound: calls
          MaxRestarts,      \* bound
          MayReset          \* whether the user may press "Reset counters"

Roles == {"plan", "work"}

ASSUME QueueAssumption ==
  /\ IsFiniteSet(Issues) /\ RoleOf \in [Issues -> Roles]
  /\ Capacity \in [Roles -> Nat]
  /\ ListLimit \in Nat /\ MaxAsks \in Nat /\ MaxRestarts \in Nat
  /\ MayReset \in BOOLEAN

VARIABLES active,     \* Pool.active of each role's pool
          queue,      \* pending_pool_for, oldest row first
          waiting,    \* waiting_for_pool of the issues
          moved,      \* issues whose card is in the column of the work asked for
          worker,     \* [Issues -> none, starting, running (row), ended]
          old, boot,  \* workers of the previous run; those not yet reattached
          served,     \* history: issues a worker was started for
          call,       \* [Issues -> where the user's call is]
          drain,      \* [Drains -> [pc, todo]]
          freed,      \* WorkerSlotFreed events the orchestrator has not handled
          recon,      \* [Reconcilers -> [pc, read]]
          asked,      \* history: the number of calls,
          broken,     \*   and the issues whose call a crash cut short
          restarts

queueVars == <<queue, waiting, moved>>
workVars  == <<worker, old, boot, served>>
bounds    == <<asked, broken, restarts>>
vars == <<active, queueVars, workVars, call, drain, freed, recon, bounds>>

\* The rows: whether there is one, the ones that a drain lists, all but i's (an
\* issue has one at the most).
Row(i)     == i \in ToSet(queue)
Listed     == SubSeq(queue, 1, IF ListLimit < Len(queue) THEN ListLimit ELSE Len(queue))
Without(i) == IF Row(i) THEN RemoveAt(queue, CHOOSE n \in DOMAIN queue : queue[n] = i)
                        ELSE queue

Zero   == [r \in Roles |-> 0]
Asleep == [pc |-> "idle", todo |-> <<>>]
Listing == [pc |-> "list", todo |-> <<>>]

\* The duplicate guard of the session manager: it knows the workers of this run
\* and those of the previous one that Reattach has registered.
Taken(i) == worker[i] \in {"starting", "running"} \/ i \in old \ boot

\* CountRunningSessionsByPool.
RunningRows(r) == Cardinality({i \in Issues : RoleOf[i] = r /\ worker[i] = "running"})
                  + Cardinality({i \in old : RoleOf[i] = r})

-----------------------------------------------------------------------------
\* The counter.

TryAcquire(r) == active[r] < Capacity[r] /\ active' = [active EXCEPT ![r] = @ + 1]
Refused(r)    == active[r] >= Capacity[r] /\ UNCHANGED active

Decrement(n) == IF n > 0 THEN n - 1 ELSE n

Release(r)      == active' = [active EXCEPT ![r] = Decrement(@)]
ReleaseTwice(r) == active' = [active EXCEPT ![r] = Decrement(Decrement(@))]

\* A session state change starts a reconcile goroutine; one that has not read
\* yet may stand for two.
StateChanged ==
  \/ \E k \in Reconcilers : /\ recon[k].pc = "idle"
                            /\ recon' = [recon EXCEPT ![k].pc = "due"]
  \/ \E k \in Reconcilers : recon[k].pc = "due" /\ UNCHANGED recon

ReconcileRead(k) ==
  /\ recon[k].pc = "due"
  /\ recon' = [recon EXCEPT ![k] = [pc |-> "read", read |-> [r \in Roles |-> RunningRows(r)]]]
  /\ UNCHANGED <<active, queueVars, workVars, call, drain, freed, bounds>>

ReconcileWrite(k) ==
  /\ recon[k].pc = "read"
  /\ active' = recon[k].read
  /\ recon' = [recon EXCEPT ![k] = [pc |-> "idle", read |-> Zero]]
  /\ UNCHANGED <<queueVars, workVars, call, drain, freed, bounds>>

\* The user's "Reset counters" button, meant for a counter that has drifted.
ResetCounters ==
  /\ MayReset
  /\ active' = Zero
  /\ UNCHANGED <<queueVars, workVars, call, drain, freed, recon, bounds>>

-----------------------------------------------------------------------------
\* A user's call.

\* The card moves first.  A card that has had a plan worker is not planned again
\* by a drag.
CallBegin(i) ==
  /\ call[i] = "idle" /\ asked < MaxAsks
  /\ i \notin moved
  /\ RoleOf[i] = "plan" => ~Taken(i) /\ i \notin served
  /\ call' = [call EXCEPT ![i] = "acquire"]
  /\ asked' = asked + 1
  /\ moved' = moved \cup {i}
  /\ UNCHANGED <<active, queue, waiting, workVars, drain, freed, recon, broken, restarts>>

CallAcquire(i) ==
  /\ call[i] = "acquire"
  /\ \/ TryAcquire(RoleOf[i]) /\ call' = [call EXCEPT ![i] = "spawn"]
     \/ Refused(RoleOf[i]) /\ call' = [call EXCEPT ![i] = "enqueue"]
  /\ UNCHANGED <<queueVars, workVars, drain, freed, recon, bounds>>

\* The slot and the card go back; the user sees the error.
CallFail(i) ==
  /\ Release(RoleOf[i])
  /\ call' = [call EXCEPT ![i] = "idle"]
  /\ moved' = moved \ {i}
  /\ UNCHANGED <<queue, waiting, old, boot, served, drain, freed, recon, bounds>>

\* One worker per issue: the next one starts when the slot of the last is freed.
Start(i) ==
  /\ ~Taken(i)
  /\ worker[i] = "none"
  /\ worker' = [worker EXCEPT ![i] = "starting"]
  /\ UNCHANGED <<active, queueVars, old, boot, served, freed, recon, bounds>>

CallSpawn(i) ==
  /\ call[i] = "spawn"
  /\ \/ Taken(i) /\ CallFail(i) /\ UNCHANGED worker
     \/ Start(i) /\ call' = [call EXCEPT ![i] = "starting"] /\ UNCHANGED drain

\* The process runs and its row is saved.
Started(i) ==
  /\ worker' = [worker EXCEPT ![i] = "running"]
  /\ served' = served \cup {i}
  /\ StateChanged
  /\ UNCHANGED <<active, queueVars, old, boot, freed, bounds>>

CallStarted(i) ==
  /\ call[i] = "starting"
  /\ \/ CallFail(i) /\ worker' = [worker EXCEPT ![i] = "none"]
     \/ Started(i) /\ call' = [call EXCEPT ![i] = "idle"] /\ UNCHANGED drain

\* One row per request: a second one changes nothing.
CallEnqueue(i) ==
  /\ call[i] = "enqueue"
  /\ queue' = IF Row(i) THEN queue ELSE Append(queue, i)
  /\ call' = [call EXCEPT ![i] = "flag"]
  /\ UNCHANGED <<active, waiting, moved, workVars, drain, freed, recon, bounds>>

CallFlag(i) ==
  /\ call[i] = "flag"
  /\ waiting' = waiting \cup {i}
  /\ call' = [call EXCEPT ![i] = "idle"]
  /\ UNCHANGED <<active, queue, moved, workVars, drain, freed, recon, bounds>>

-----------------------------------------------------------------------------
\* A drain.

At(d, pc)   == drain[d].pc = pc /\ drain[d].todo # <<>>
Current(d)  == Head(drain[d].todo)
Goes(d, pc) == drain' = [drain EXCEPT ![d] = [pc |-> pc, todo |-> @.todo]]
GoesOn(d)   == drain' = [drain EXCEPT ![d] = [pc |-> "next", todo |-> Tail(@.todo)]]

DrainList(d) ==
  /\ drain[d] = Listing
  /\ drain' = [drain EXCEPT ![d] = [pc |-> "next", todo |-> Listed]]
  /\ UNCHANGED <<active, queueVars, workVars, call, freed, recon, bounds>>

DrainEnd(d) ==
  /\ drain[d] = [pc |-> "next", todo |-> <<>>]
  /\ drain' = [drain EXCEPT ![d] = Asleep]
  /\ UNCHANGED <<active, queueVars, workVars, call, freed, recon, bounds>>

\* Mutation of DrainAcquire: the pass ends at the first row that gets no slot.
DrainAcquireOrStop(d) ==
  /\ At(d, "next")
  /\ \/ /\ Refused(RoleOf[Current(d)])
        /\ drain' = [drain EXCEPT ![d] = Asleep]
        /\ UNCHANGED moved
     \/ /\ TryAcquire(RoleOf[Current(d)])
        /\ moved' = moved \cup {Current(d)}
        /\ Goes(d, "spawn")
  /\ UNCHANGED <<queue, waiting, workVars, call, freed, recon, bounds>>

\* Mutation of DrainAcquire: the row goes before the worker has started.
DrainAcquireTakingRow(d) ==
  /\ At(d, "next")
  /\ \/ Refused(RoleOf[Current(d)]) /\ GoesOn(d) /\ UNCHANGED <<queue, moved>>
     \/ /\ TryAcquire(RoleOf[Current(d)])
        /\ queue' = Without(Current(d))
        /\ moved' = moved \cup {Current(d)}
        /\ Goes(d, "spawn")
  /\ UNCHANGED <<waiting, workVars, call, freed, recon, bounds>>

\* A full pool does not hold up the rows behind it.  The card moves before the
\* worker starts.
DrainAcquire(d) ==
  /\ At(d, "next")
  /\ \/ Refused(RoleOf[Current(d)]) /\ GoesOn(d) /\ UNCHANGED moved
     \/ /\ TryAcquire(RoleOf[Current(d)])
        /\ moved' = moved \cup {Current(d)}
        /\ Goes(d, "spawn")
  /\ UNCHANGED <<queue, waiting, workVars, call, freed, recon, bounds>>

\* Mutation of DrainFail: the flag is taken down although the row stays.
DrainFailUnflagged(d) ==
  /\ Release(RoleOf[Current(d)])
  /\ waiting' = waiting \ {Current(d)}
  /\ GoesOn(d)
  /\ UNCHANGED <<queue, moved, old, boot, served, call, freed, recon, bounds>>

\* The row stays.  The spawnWork callback has moved the card back and released
\* the slot already when the drain releases it.
DrainFail(d) ==
  LET i == Current(d)
  IN  /\ IF RoleOf[i] = "work" THEN ReleaseTwice("work") /\ moved' = moved \ {i}
                               ELSE Release("plan") /\ UNCHANGED moved
      /\ GoesOn(d)
      /\ UNCHANGED <<queue, waiting, old, boot, served, call, freed, recon, bounds>>

DrainSpawn(d) ==
  /\ At(d, "spawn")
  /\ \/ Taken(Current(d)) /\ DrainFail(d) /\ UNCHANGED worker
     \/ Start(Current(d)) /\ Goes(d, "starting") /\ UNCHANGED call

DrainStarted(d) ==
  /\ At(d, "starting")
  /\ \/ DrainFail(d) /\ worker' = [worker EXCEPT ![Current(d)] = "none"]
     \/ Started(Current(d)) /\ Goes(d, "dequeue") /\ UNCHANGED call

\* The row's deletion and, right after it, that of any row of the issue ...
DrainDequeue(d) ==
  /\ At(d, "dequeue")
  /\ queue' = Without(Current(d))
  /\ Goes(d, "clear")
  /\ UNCHANGED <<active, waiting, moved, workVars, call, freed, recon, bounds>>

\* ... and of its flag.
DrainClear(d) ==
  /\ At(d, "clear")
  /\ waiting' = waiting \ {Current(d)}
  /\ GoesOn(d)
  /\ UNCHANGED <<active, queue, moved, workVars, call, freed, recon, bounds>>

-----------------------------------------------------------------------------
\* A worker's end.

\* The row gets its final state ...
WorkerEnds(i) ==
  /\ worker[i] = "running"
  /\ worker' = [worker EXCEPT ![i] = "ended"]
  /\ StateChanged
  /\ UNCHANGED <<active, queueVars, old, boot, served, call, drain, freed, bounds>>

\* ... and WorkerSlotFreed goes to the orchestrator and the reconciler.
SlotFreed(i) ==
  /\ worker[i] = "ended"
  /\ worker' = [worker EXCEPT ![i] = "none"]
  /\ freed' = [freed EXCEPT ![RoleOf[i]] = @ + 1]
  /\ StateChanged
  /\ UNCHANGED <<active, queueVars, old, boot, served, call, drain, bounds>>

\* The release, and a new drain of the rows of every role.
HandleSlotFreed(r, d) ==
  /\ freed[r] > 0
  /\ drain[d] = Asleep
  /\ freed' = [freed EXCEPT ![r] = @ - 1]
  /\ Release(r)
  /\ drain' = [drain EXCEPT ![d] = Listing]
  /\ UNCHANGED <<queueVars, workVars, call, recon, bounds>>

-----------------------------------------------------------------------------
\* The next startup: a drain starts at once, beside Reattach, which takes the
\* survivors one by one; the startup reconcile comes after the last.

Restart ==
  /\ restarts < MaxRestarts
  /\ restarts' = restarts + 1
  /\ active' = Zero
  /\ old' = old \cup {i \in Issues : worker[i] = "running"}
  /\ boot' = old'
  /\ worker' = [i \in Issues |-> "none"]
  /\ broken' = broken \cup {i \in Issues : call[i] # "idle"}
  /\ call' = [i \in Issues |-> "idle"]
  /\ \E d \in Drains : drain' = [e \in Drains |-> IF e = d THEN Listing ELSE Asleep]
  /\ freed' = Zero
  /\ \E k \in Reconcilers :
       recon' = [l \in Reconcilers |->
                  [pc |-> IF l = k /\ boot' = {} THEN "due" ELSE "idle", read |-> Zero]]
  /\ UNCHANGED <<queueVars, served, asked>>

\* A survivor that is alive takes its slot back, whatever the capacity; the slot
\* of one found dead is freed, though it was never taken in this run.
Reattach(i) ==
  /\ i \in boot
  /\ boot' = boot \ {i}
  /\ \/ /\ active' = [active EXCEPT ![RoleOf[i]] = @ + 1]
        /\ IF boot' = {} THEN StateChanged ELSE UNCHANGED recon
        /\ UNCHANGED <<old, freed>>
     \/ /\ old' = old \ {i}
        /\ freed' = [freed EXCEPT ![RoleOf[i]] = @ + 1]
        /\ StateChanged
        /\ UNCHANGED active
  /\ UNCHANGED <<queueVars, worker, served, call, drain, bounds>>

SurvivorEnds(i) ==
  /\ i \in old \ boot
  /\ old' = old \ {i}
  /\ freed' = [freed EXCEPT ![RoleOf[i]] = @ + 1]
  /\ StateChanged
  /\ UNCHANGED <<active, queueVars, worker, boot, served, call, drain, bounds>>

-----------------------------------------------------------------------------
Init ==
  /\ active = Zero
  /\ queue = <<>> /\ waiting = {} /\ moved = {}
  /\ worker = [i \in Issues |-> "none"]
  /\ old = {} /\ boot = {} /\ served = {} /\ broken = {}
  /\ call = [i \in Issues |-> "idle"]
  /\ drain = [d \in Drains |-> Asleep]
  /\ freed = Zero
  /\ recon = [k \in Reconcilers |-> [pc |-> "idle", read |-> Zero]]
  /\ asked = 0
  /\ restarts = 0

CallStep(i) ==
  CallAcquire(i) \/ CallSpawn(i) \/ CallStarted(i) \/ CallEnqueue(i) \/ CallFlag(i)

DrainStep(d) ==
  \/ DrainList(d) \/ DrainAcquire(d) \/ DrainSpawn(d) \/ DrainStarted(d)
  \/ DrainDequeue(d) \/ DrainClear(d) \/ DrainEnd(d)

\* What goroutines of the program do, as against users, workers and crashes.
GoroutineStep ==
  \/ \E i \in Issues : CallStep(i) \/ SlotFreed(i) \/ Reattach(i)
  \/ \E d \in Drains : DrainStep(d) \/ \E r \in Roles : HandleSlotFreed(r, d)
  \/ \E k \in Reconcilers : ReconcileRead(k) \/ ReconcileWrite(k)

WorkerStep == \E i \in Issues : WorkerEnds(i) \/ SurvivorEnds(i)

Next ==
  (\E i \in Issues : CallBegin(i)) \/ ResetCounters \/ GoroutineStep \/ WorkerStep \/ Restart

Spec == Init /\ [][Next]_vars

\* As long as some goroutine can step, one does.
FairSpec == Spec /\ WF_vars(GoroutineStep)

\* And workers end: what is stuck now, is stuck although slots come free.
FairWorkSpec == FairSpec /\ WF_vars(WorkerStep)

-----------------------------------------------------------------------------
\* Types: the counter never goes below zero, whatever is released twice or for
\* a worker that never had a slot; no issue has two rows.
TypeOK ==
  /\ active \in [Roles -> Nat]
  /\ queue \in Seq(Issues) /\ IsInjective(queue)
  /\ waiting \subseteq Issues /\ moved \subseteq Issues /\ served \subseteq Issues
  /\ worker \in [Issues -> {"none", "starting", "running", "ended"}]
  /\ boot \subseteq old /\ old \subseteq Issues
  /\ call \in [Issues -> {"idle", "acquire", "spawn", "starting", "enqueue", "flag"}]
  /\ \A d \in Drains :
       /\ drain[d].pc \in {"idle", "list", "next", "spawn", "starting", "dequeue", "clear"}
       /\ drain[d].todo \in Seq(Issues)
  /\ freed \in [Roles -> Nat]
  /\ \A k \in Reconcilers : /\ recon[k].pc \in {"idle", "due", "read"}
                            /\ recon[k].read \in [Roles -> Nat]
  /\ asked \in 0..MaxAsks /\ restarts \in 0..MaxRestarts

\* No card is forgotten (app.go:2061-2064): a card that has been moved for work no
\* worker was ever started for is in a call, or its request is in the queue,
\* through every race of drains, failed spawns and restarts.  A call that a
\* crash cuts short is the exception.
NoCardForgotten ==
  \A i \in moved \ (served \cup broken) : call[i] # "idle" \/ Row(i)

\* The card of a queued request shows that it waits (app.go:4169): its flag
\* stays up until a worker has been started for it.
QueuedCardWaits ==
  \A i \in ToSet(queue) \ (served \cup broken) : call[i] = "flag" \/ i \in waiting

\* A slot that comes back makes some drain try every request that is queued and
\* within the limit, those behind a request whose own pool is full included
\* (drain_pending_pools.go:31-35).
SlotOfferedToAll ==
  \A i \in Issues :
    (i \in ToSet(Listed) /\ \E r \in Roles : freed[r] > 0)
      ~> (~Row(i) \/ \E d \in Drains : drain[d].todo # <<>> /\ Current(d) = i)

\* docs/user-guide.md:114: the capacity is the number of workers of a pool that
\* run at once.
CapacityHonoured ==
  \A r \in Roles : RunningRows(r) <= Capacity[r]

\* Nobody works for role r or is about to.
Quiet(r) == RunningRows(r) = 0 /\ \A j \in Issues : worker[j] = "none" /\ call[j] = "idle"

\* drain_pending_pools.go:10-11, app.go:4170: a queued request is served as slots
\* become available; it does not stay in the queue for ever while nobody uses
\* its pool.
QueuedIsServed ==
  \A i \in Issues : ~<>[](Row(i) /\ i \notin served /\ Quiet(RoleOf[i]))
=============================================================================
