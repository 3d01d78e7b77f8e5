-------------------------------- MODULE PRWatch --------------------------------
(***************************************************************************)
(* What a card in REVIEW shows of its PR.  The poller compares what GitHub  *)
(* says of the PR with what it said last time and publishes the edges only. *)
(* The assembler turns the edges into the badges of the card; the           *)
(* application starts workers that are to mend failing checks.  Every       *)
(* handler runs in a goroutine of its own, so events may overtake each      *)
(* other.  Poller, assembler and heal counters live in memory.              *)
(* Automatic self-healing is on (the default).  A worker that waits for a   *)
(* pool counts as one at work.                                              *)
(***************************************************************************)
EXTENDS Integers, SequencesExt

CONSTANTS Polls,        \* bound: polls at a time
          Cap,          \* self-heal attempts per head
          MaxHeads,     \* bound: heads that are pushed
          MaxChanges,   \* bound: other changes on GitHub
          MaxBus,       \* bound: a poll starts only with fewer events under way
          MaxAsks       \* bound: buttons pressed, restarts, answers that do not come

ASSUME PRWatchAssumption ==
  /\ {Cap, MaxHeads, MaxBus} \subseteq Nat \ {0} /\ {MaxChanges, MaxAsks} \subseteq Nat

Heads == 1..MaxHeads
Never == 0
None  == [head |-> Never, attempts |-> 0, max |-> FALSE]

VARIABLES head, fails,    \* GitHub: the PR's head, and the heads whose checks fail
          merge, files,   \* GitHub: mergeable_state, and which set of files is in conflict
          ended,          \* GitHub: the PR is merged or closed
          column,         \* of the card: review, in_progress, done
          checkCache,     \* poller: [head, failed]
          conflCache,     \* poller: [state, files]
          poll,           \* [Polls -> where the poll is, and what it has fetched and loaded]
          bus,            \* events not handled yet, oldest first
          checkFails,     \* assembler: the failing head that the card shows, and its attempts
          conflictFails,  \* assembler: the set of files that the card shows, or 0
          healAttempts,   \* application: [Heads -> Nat]
          calls, counting,\* SelfHeal calls to come; the head of the one that has spawned
          active,         \* an execute worker is at work
          healed,         \* history: spawns for a head since its recovery was last handled
          crossed,        \* history: an event or a poll has overtaken another
          cleared,        \* history: a conflict was taken off the card that the poller still has
          changes, asked

hub     == <<head, fails, merge, files, ended>>
watched == <<checkCache, conflCache, poll>>
shown   == <<checkFails, conflictFails>>
heal    == <<healAttempts, calls, counting, active, healed>>
vars    == <<hub, column, watched, bus, shown, heal, crossed, cleared, changes, asked>>

NoCheck    == [head |-> Never, failed |-> FALSE]
NoConflict == [state |-> "none", files |-> 0]
Idle == [pc |-> "idle", head |-> Never, merge |-> "clean", failed |-> FALSE,
         prev |-> NoCheck, was |-> NoConflict]

Event(type, to, h, f) == [type |-> type, to |-> to, head |-> h, files |-> f]

Ask == asked < MaxAsks /\ asked' = asked + 1

-----------------------------------------------------------------------------
\* The poller.

FetchPR(k) ==
  /\ poll[k].pc = "idle" /\ column = "review" /\ Len(bus) < MaxBus
  /\ IF ended
     THEN /\ bus' = Append(bus, Event("ended", "assembler", head, 0))
          /\ column' = "done" /\ UNCHANGED poll
          /\ checkCache' = NoCheck /\ conflCache' = NoConflict
     ELSE /\ poll' = [poll EXCEPT ![k].pc = "checks", ![k].head = head, ![k].merge = merge]
          /\ UNCHANGED <<bus, column, checkCache, conflCache>>
  /\ UNCHANGED <<hub, shown, heal, crossed, cleared, changes, asked>>

FetchChecks(k) ==
  /\ poll[k].pc = "checks"
  /\ poll' = [poll EXCEPT ![k].pc = "publish", ![k].prev = checkCache,
                          ![k].failed = poll[k].head \in fails]
  /\ UNCHANGED <<hub, column, checkCache, conflCache, bus, shown, heal, crossed, cleared, changes, asked>>

\* GitHub does not answer: the probe ends, and nothing is remembered.
ChecksUnavailable(k) ==
  /\ Ask /\ poll[k].pc = "checks"
  /\ poll' = [poll EXCEPT ![k].pc = "conflicts"]
  /\ UNCHANGED <<hub, column, checkCache, conflCache, bus, shown, heal, crossed, cleared, changes>>

\* Mutation: a failure is reported only if the PR did not fail before.
CheckEventsByState(p) ==
  LET type == IF p.failed /\ ~p.prev.failed THEN "failed"
              ELSE IF ~p.failed /\ p.prev.failed THEN "recovered" ELSE "none"
  IN IF type = "none" THEN <<>>
     ELSE <<Event(type, "assembler", p.head, 0), Event(type, "app", p.head, 0)>>

\* A failure is reported when it is new, or of a new head; a recovery, when it is of
\* the head that failed.
CheckEvents(p) ==
  LET sameHead == p.prev.head = p.head
      type == IF p.failed /\ ~(sameHead /\ p.prev.failed) THEN "failed"
              ELSE IF ~p.failed /\ sameHead /\ p.prev.failed THEN "recovered" ELSE "none"
  IN IF type = "none" THEN <<>>
     ELSE <<Event(type, "assembler", p.head, 0), Event(type, "app", p.head, 0)>>

CheckCache(p) == [head |-> p.head, failed |-> p.failed]

\* crossed: the poll compares with a state that is no longer the last one, or has fetched an
\* older head than the poll that published last.
PublishChecks(k) ==
  /\ poll[k].pc = "publish"
  /\ checkCache' = CheckCache(poll[k])
  /\ bus' = bus \o CheckEvents(poll[k])
  /\ crossed' = (crossed \/ checkCache # poll[k].prev \/ poll[k].head < checkCache.head)
  /\ poll' = [poll EXCEPT ![k].pc = "conflicts"]
  /\ UNCHANGED <<hub, column, conflCache, shown, heal, cleared, changes, asked>>

LoadConflicts(k) ==
  /\ poll[k].pc = "conflicts"
  /\ poll' = [poll EXCEPT ![k].pc = "merge", ![k].was = conflCache]
  /\ UNCHANGED <<hub, column, checkCache, conflCache, bus, shown, heal, crossed, cleared, changes, asked>>

\* The set of files is found by a merge that is tried now.  A state that GitHub has
\* not computed yet changes nothing.
ConflictEvents(p) ==
  CASE p.merge = "dirty" /\ (p.was.state # "dirty" \/ p.was.files # files)
         -> <<Event("conflicts", "assembler", p.head, files)>>
    [] p.merge = "clean" /\ p.was.state = "dirty"
         -> <<Event("resolved", "assembler", p.head, 0)>>
    [] OTHER -> <<>>

\* Mutation: what GitHub has not computed yet is remembered like any other state.
ConflictCachePinned(p) == [state |-> p.merge, files |-> IF p.merge = "dirty" THEN files ELSE 0]

ConflictCache(p) ==
  IF p.merge = "unknown" THEN conflCache
  ELSE [state |-> p.merge, files |-> IF p.merge = "dirty" THEN files ELSE 0]

PublishConflicts(k) ==
  /\ poll[k].pc = "merge"
  /\ conflCache' = ConflictCache(poll[k])
  /\ bus' = bus \o ConflictEvents(poll[k])
  /\ crossed' = (crossed \/ conflCache # poll[k].was)
  /\ poll' = [poll EXCEPT ![k] = Idle]
  /\ UNCHANGED <<hub, column, checkCache, shown, heal, cleared, changes, asked>>

-----------------------------------------------------------------------------
\* The handlers of events.

Topics(e) == CASE e.type = "failed" -> {"checks"}
               [] e.type \in {"conflicts", "resolved"} -> {"conflicts"}
               [] e.type \in {"recovered", "ended"} -> {"checks", "conflicts"}

\* A new head resets the attempts.
Fails(e) == IF checkFails.head = e.head THEN checkFails ELSE [None EXCEPT !.head = e.head]

\* Assembler.handleEvent
Assembled(e) ==
  /\ checkFails' = CASE e.type = "failed" -> Fails(e)
                     [] e.type \in {"recovered", "ended"} -> None
                     [] OTHER -> checkFails
  /\ conflictFails' = CASE e.type = "conflicts" -> e.files
                        [] e.type \in {"recovered", "ended", "resolved"} -> 0
                        [] OTHER -> conflictFails
  /\ cleared' = (cleared \/ (e.type = "recovered" /\ conflCache.state = "dirty"))
  /\ UNCHANGED <<healAttempts, calls, healed>>

\* App.handlePRChecksRecovered: the counter of the head starts again.
Recovered(e) ==
  /\ healAttempts' = [healAttempts EXCEPT ![e.head] = 0]
  /\ healed' = [healed EXCEPT ![e.head] = 0]
  /\ UNCHANGED <<calls, checkFails>>

\* App.handlePRChecksFailed: a worker is sent for unless the head has had its share.
Failed(e) ==
  /\ IF healAttempts[e.head] < Cap
     THEN calls' = calls + 1 /\ UNCHANGED checkFails
     ELSE /\ checkFails' = IF checkFails = None THEN None
                           ELSE [checkFails EXCEPT !.attempts = healAttempts[e.head], !.max = TRUE]
          /\ UNCHANGED calls
  /\ UNCHANGED <<healAttempts, healed>>

Deliver(n) ==
  /\ n \in DOMAIN bus
  /\ LET e == bus[n] IN
     /\ bus' = RemoveAt(bus, n)
     /\ crossed' = (crossed \/ \E m \in 1..(n - 1) : Topics(bus[m]) \cap Topics(e) # {})
     /\ \/ e.to = "assembler" /\ Assembled(e)
        \/ /\ e.to = "app" /\ (IF e.type = "failed" THEN Failed(e) ELSE Recovered(e))
           /\ UNCHANGED <<conflictFails, cleared>>
  /\ UNCHANGED <<hub, column, watched, counting, active, changes, asked>>

-----------------------------------------------------------------------------
\* Workers that mend the PR.

\* Mutation: only the button looks at the cap.
SelfHealUncapped ==
  /\ calls > 0 /\ calls' = calls - 1
  /\ IF checkFails = None \/ column # "review" \/ active
     THEN UNCHANGED <<column, active, counting, healed>>
     ELSE /\ column' = "in_progress" /\ active' = TRUE /\ counting' = checkFails.head
          /\ healed' = [healed EXCEPT ![checkFails.head] = @ + 1]
  /\ UNCHANGED <<hub, watched, bus, shown, healAttempts, crossed, cleared, changes, asked>>

\* SelfHeal and ContinueWork, up to the spawn.
SelfHeal ==
  /\ calls > 0 /\ calls' = calls - 1
  /\ IF checkFails = None \/ checkFails.max \/ column # "review" \/ active
     THEN UNCHANGED <<column, active, counting, healed>>
     ELSE /\ column' = "in_progress" /\ active' = TRUE /\ counting' = checkFails.head
          /\ healed' = [healed EXCEPT ![checkFails.head] = @ + 1]
  /\ UNCHANGED <<hub, watched, bus, shown, healAttempts, crossed, cleared, changes, asked>>

\* SelfHeal after it.  The attempts are written to whatever failure the card shows.
CountHeal ==
  /\ counting # Never /\ counting' = Never
  /\ LET n == healAttempts[counting] + 1 IN
     /\ healAttempts' = [healAttempts EXCEPT ![counting] = n]
     /\ checkFails' = IF checkFails = None THEN None
                      ELSE [checkFails EXCEPT !.attempts = n, !.max = n >= Cap]
  /\ UNCHANGED <<hub, column, watched, bus, conflictFails, calls, active, healed, crossed,
                 cleared, changes, asked>>

\* The user asks for a self-heal, or for the conflict to be resolved.
PressSelfHeal ==
  /\ Ask /\ checkFails # None /\ calls' = calls + 1
  /\ UNCHANGED <<hub, column, watched, bus, shown, healAttempts, counting, active, healed,
                 crossed, cleared, changes>>

ResolveConflicts ==
  /\ Ask /\ conflictFails # 0 /\ column = "review" /\ ~active
  /\ column' = "in_progress" /\ active' = TRUE
  /\ UNCHANGED <<hub, watched, bus, shown, healAttempts, calls, counting, healed, crossed,
                 cleared, changes>>

\* The worker has completed: the conflict is taken off the card at once.  A worker that
\* fails leaves the card where it is.  (A worker outlives the call that started it.)
WorkerEnds ==
  /\ active /\ counting = Never /\ active' = FALSE
  /\ \/ /\ column' = IF column = "in_progress" THEN "review" ELSE column
        /\ conflictFails' = 0
        /\ cleared' = (cleared \/ (conflictFails # 0 /\ conflCache.state = "dirty"))
     \/ UNCHANGED <<column, conflictFails, cleared>>
  /\ UNCHANGED <<hub, watched, bus, checkFails, healAttempts, calls, counting, healed, crossed,
                 changes, asked>>

\* The process is restarted: everything but the card and GitHub is forgotten.
Restart ==
  /\ Ask
  /\ checkCache' = NoCheck /\ conflCache' = NoConflict
  /\ poll' = [k \in Polls |-> Idle] /\ bus' = <<>>
  /\ checkFails' = None /\ conflictFails' = 0
  /\ healAttempts' = [h \in Heads |-> 0] /\ healed' = healAttempts'
  /\ calls' = 0 /\ counting' = Never
  /\ UNCHANGED <<hub, column, active, crossed, cleared, changes>>

-----------------------------------------------------------------------------
\* GitHub.

Hub == UNCHANGED <<column, watched, bus, shown, heal, crossed, cleared, asked>>

\* Somebody, a worker perhaps, pushes: GitHub has to compute its answers again.
Push(failing) ==
  /\ head < MaxHeads /\ ~ended /\ head' = head + 1
  /\ fails' = IF failing THEN fails \cup {head + 1} ELSE fails
  /\ merge' = "unknown"
  /\ UNCHANGED <<files, ended, changes>> /\ Hub

Change == changes < MaxChanges /\ ~ended /\ changes' = changes + 1

ChecksTurn ==
  /\ Change
  /\ IF head \in fails THEN fails' = fails \ {head} ELSE fails' = fails \cup {head}
  /\ UNCHANGED <<head, merge, files, ended>> /\ Hub

\* The base branch moves.
BaseMoves ==
  /\ Change
  /\ \/ merge' \in {"clean", "unknown"} \ {merge} /\ UNCHANGED files
     \/ merge' = "dirty" /\ files' \in {1, 2} /\ <<merge', files'>> # <<merge, files>>
  /\ UNCHANGED <<head, fails, ended>> /\ Hub

Settles ==
  /\ merge = "unknown" /\ merge' \in {"clean", "dirty"}
  /\ UNCHANGED <<head, fails, files, ended, changes>> /\ Hub

EndPR ==
  /\ Change /\ ended' = TRUE
  /\ UNCHANGED <<head, fails, merge, files>> /\ Hub
-----------------------------------------------------------------------------
Init ==
  /\ head = 1 /\ fails = {} /\ merge = "unknown" /\ files = 1 /\ ended = FALSE
  /\ column = "review"
  /\ checkCache = NoCheck /\ conflCache = NoConflict
  /\ poll = [k \in Polls |-> Idle] /\ bus = <<>>
  /\ checkFails = None /\ conflictFails = 0
  /\ healAttempts = [h \in Heads |-> 0] /\ healed = [h \in Heads |-> 0]
  /\ calls = 0 /\ counting = Never /\ active = FALSE
  /\ crossed = FALSE /\ cleared = FALSE /\ changes = 0 /\ asked = 0

PollStep(k) == \/ FetchPR(k) \/ FetchChecks(k) \/ PublishChecks(k)
               \/ LoadConflicts(k) \/ PublishConflicts(k)
Handlers == (\E n \in DOMAIN bus : Deliver(n)) \/ SelfHeal \/ CountHeal

Next ==
  \/ \E k \in Polls : PollStep(k) \/ ChecksUnavailable(k)
  \/ Handlers \/ PressSelfHeal \/ ResolveConflicts \/ WorkerEnds \/ Restart
  \/ (\E failing \in BOOLEAN : Push(failing)) \/ ChecksTurn \/ BaseMoves \/ Settles \/ EndPR

Spec == Init /\ [][Next]_vars

\* Polls go on, goroutines run, workers end.
FairSpec ==
  /\ Spec /\ WF_vars(Handlers) /\ WF_vars(WorkerEnds)
  /\ \A k \in Polls : WF_vars(PollStep(k))
-----------------------------------------------------------------------------
\* Type invariant.
TypeOK ==
  /\ head \in Heads /\ fails \subseteq Heads /\ ended \in BOOLEAN
  /\ merge \in {"clean", "unknown", "dirty"} /\ files \in {1, 2}
  /\ column \in {"review", "in_progress", "done"}
  /\ checkCache \in [head : Heads \cup {Never}, failed : BOOLEAN]
  /\ conflCache \in [state : {"none", "clean", "dirty"}, files : 0..2]
  /\ checkFails \in [head : Heads \cup {Never}, attempts : 0..(Cap + MaxAsks), max : BOOLEAN]
  /\ conflictFails \in 0..2
  /\ healAttempts \in [Heads -> 0..(Cap + MaxAsks)] /\ calls \in Nat /\ counting \in Heads \cup {Never}
  /\ \A n \in DOMAIN bus : bus[n].head \in Heads
  /\ {active, crossed, cleared} \subseteq BOOLEAN /\ changes \in 0..MaxChanges /\ asked \in 0..MaxAsks

Watching == column = "review" /\ ~ended /\ ~crossed

\* A head whose checks fail is shown as failing sooner or later, and the failure of a head
\* that passes again is taken off the card, unless the head is replaced, changes again, or
\* is no longer watched: the poller reports edges only, and none is lost (probeCheckRuns,
\* handleEvent), as long as neither polls nor events overtake each other.
ChecksShown ==
  \A h \in Heads :
    /\ (Watching /\ head = h /\ h \in fails)
         ~> (checkFails.head = h \/ head # h \/ h \notin fails \/ ~Watching)
    /\ (Watching /\ head = h /\ h \notin fails /\ checkFails.head = h)
         ~> (checkFails.head # h \/ head # h \/ h \in fails \/ ~Watching)

\* A conflict is shown, with the files that are in conflict now, and one that has gone does
\* not stay on the card, although GitHub may answer "unknown" in between and the base may
\* move (probeConflicts); unless it was taken off early (see ConflictComesBack).
MergeabilityShown ==
  /\ \A f \in {1, 2} : (Watching /\ merge = "dirty" /\ files = f)
       ~> (conflictFails = f \/ merge # "dirty" \/ files # f \/ cleared \/ ~Watching)
  /\ (Watching /\ merge = "clean" /\ conflictFails # 0)
       ~> (conflictFails = 0 \/ merge # "clean" \/ ~Watching)

\* Not more than Cap workers are sent to mend one head, counted since the
\* recovery of its checks was last handled, whether the button or the event asks for them (SelfHeal, handlePRChecksFailed).
HealCapped == \A h \in Heads : ~crossed => healed[h] <= Cap

\* The comment at app.go:601-603: if the conflict persists, probeConflicts will fire
\* again and the badge comes back.
ConflictComesBack ==
  (Watching /\ merge = "dirty") ~> (conflictFails # 0 \/ merge # "dirty" \/ ~Watching)

\* The comment at poll.go:587-588: the recovery is reported when a previously-failing PR passes,
\* and so goes off the card, also when a push has mended it.
ReplacedHeadCleared ==
  (Watching /\ head \notin fails /\ checkFails.head \notin {Never, head})
     ~> (checkFails.head \in {Never, head} \/ head \in fails \/ ~Watching)

\* The README (README.md:50): self-heal sessions are spawned up to N times (for the PR).
HealsBounded == healed[1] + healed[2] <= Cap
===============================================================================
