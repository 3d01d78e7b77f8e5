--------------------------- MODULE SessionManager ---------------------------
(***************************************************************************)
(* internal/session: the life of a worker, from the spawn call to the      *)
(* release of its slot.  The conductor starts a worker process whose       *)
(* stdout is a transcript file, follows the file, and turns the sentinel   *)
(* lines it finds into the session's state; a row in the database is all   *)
(* that survives when the conductor quits or crashes, while the worker     *)
(* process (detached) goes on.  Reattach picks the rows up again.          *)
(*                                                                         *)
(* Every session has a transcript path and a workspace on disk.  Remote    *)
(* workspaces, the panic handler of tailAndParse and sentinels that change *)
(* no session state (plan written, fan-out written) are left out.          *)
(***************************************************************************)
EXTENDS Integers, Sequences, FiniteSets

CONSTANTS Sessions,     \* one spawn call each; the id of the session it may create
          Issues,
          IssueOf,      \* [Sessions -> Issues]
          EntryOf,      \* [Sessions -> Entries]: which Spawn function is called
          Harness,      \* the sessions run by a goroutine of the conductor (PID 0)
          Says,         \* [Sessions -> set of sentinels its worker may print]
          MaxLines,     \* bound: [Sessions -> sentinels in its transcript]
          MaxRestarts   \* bound: times the conductor quits or crashes

Entries   == {"plan", "execute", "resume", "continue"}
Sentinels == {"question", "ask", "pr", "complete", "needs_pr", "blocked"}

ASSUME SessionAssumption ==
  /\ IssueOf \in [Sessions -> Issues]
  /\ EntryOf \in [Sessions -> Entries]
  /\ Harness \subseteq Sessions
  /\ Says \in [Sessions -> SUBSET Sentinels]
  /\ MaxLines \in [Sessions -> Nat] /\ MaxRestarts \in Nat

\* The bundled skills: a planner opens no PR, and a worker that stops for an answer
\* (conductor-question) never asks in the old way of plan mode as well.
ASSUME SkillAssumption ==
  \A s \in Sessions : /\ EntryOf[s] = "plan" => "pr" \notin Says[s]
                      /\ ~ {"ask", "question"} \subseteq Says[s]

VARIABLES
  stage,       \* where the conductor is with the session
  inFlight,    \* m.inFlight: keys of the spawns in progress
  reserving,   \* the spawns whose deferred delete(m.inFlight, key) is still to run
  registered,  \* m.sessions
  mem, row,    \* State of the runtimeSession; state column of the sessions table
  proc,        \* the worker process
  said,        \* the sentinels in the transcript file
  read, saved, \* sentinels passed; the same for transcript_offset in the database
  cut,         \* sessions whose transcript_offset lies inside the next sentinel
  split,       \* sessions resumed there: their parser lacks the sentinel's start
  missed,      \* history: sessions a sentinel of which was not recognised
  pending,     \* PendingQuestionID is set
  cancelled,   \* sessions whose context has been cancelled
  autoKilled,  \* autoKilledForPROpen
  reattached,  \* sessions that Reattach has taken over
  freed,       \* sessions whose WorkerSlotFreed event has been published
  delivered,   \* sessions whose PR_OPENED has reached handlePROpened
  tree,        \* [Issues -> worktree on disk: none, clean or dirty (holds work)]
  restarts

guardVars == <<inFlight, reserving>>
textVars  == <<read, saved, cut, split, missed, pending, delivered>>
killVars  == <<cancelled, autoKilled>>
vars == <<stage, guardVars, registered, mem, row, proc, said, textVars, killVars,
          reattached, freed, tree, restarts>>

Mode(s) == IF EntryOf[s] = "plan" THEN "plan" ELSE "execute"
Key(s)  == <<IssueOf[s], Mode(s)>>

Live     == {"running", "waiting"}
Guarded  == Live \cup {"paused", "blocked"}

Loadable == Guarded
Dead(s)  == proc[s] \in {"ok", "failed"}

-----------------------------------------------------------------------------
\* The spawn path.

\* What the Spawn functions do to the worktree before the guard: a fresh execute
\* removes what is there, a resume needs a tree, a continue rehydrates a missing one.
\* Any of them may fail, a continue also after it has rehydrated the tree.
Prepare(s) ==
  LET i == IssueOf[s]
  IN  /\ stage[s] = "fresh"
      /\ \/ /\ EntryOf[s] = "resume" => tree[i] # "none"
            /\ stage' = [stage EXCEPT ![s] = "ready"]
            /\ tree' = IF \/ EntryOf[s] = "execute"
                          \/ EntryOf[s] = "continue" /\ tree[i] = "none"
                       THEN [tree EXCEPT ![i] = "clean"] ELSE tree
         \/ /\ stage' = [stage EXCEPT ![s] = "done"]
            /\ \/ tree' = IF EntryOf[s] = "execute" THEN [tree EXCEPT ![i] = "none"] ELSE tree
               \/ /\ EntryOf[s] = "continue" /\ tree[i] = "none"
                  /\ tree' = [tree EXCEPT ![i] = "clean"]
      /\ UNCHANGED <<guardVars, registered, mem, row, proc, said, textVars, killVars,
                     reattached, freed, restarts>>

\* Mutation of Duplicate: spawns in progress are not looked at.
DuplicateRegistered(s) == \E t \in registered : Key(t) = Key(s) /\ mem[t] \in Guarded

Duplicate(s) ==
  \/ Key(s) \in inFlight
  \/ \E t \in registered : Key(t) = Key(s) /\ mem[t] \in Guarded

\* The check and the reservation of the key, under m.mu.
Guard(s) ==
  /\ stage[s] = "ready"
  /\ \/ /\ Duplicate(s)
        /\ stage' = [stage EXCEPT ![s] = "failing"]
        /\ UNCHANGED guardVars
     \/ /\ ~Duplicate(s)
        /\ stage' = [stage EXCEPT ![s] = "reserved"]
        /\ inFlight' = inFlight \cup {Key(s)}
        /\ reserving' = reserving \cup {s}
  /\ UNCHANGED <<registered, mem, row, proc, said, textVars, killVars, reattached, freed,
                 tree, restarts>>

StartProcess(s) ==
  /\ stage[s] = "reserved"
  /\ \/ /\ stage' = [stage EXCEPT ![s] = "started"]
        /\ proc' = [proc EXCEPT ![s] = "alive"]
        /\ mem' = [mem EXCEPT ![s] = "running"]
     \/ /\ stage' = [stage EXCEPT ![s] = "failing"]
        /\ UNCHANGED <<proc, mem>>
  /\ UNCHANGED <<guardVars, registered, row, said, textVars, killVars, reattached, freed,
                 tree, restarts>>

SaveRow(s) ==
  /\ stage[s] = "started"
  /\ stage' = [stage EXCEPT ![s] = "saved"]
  /\ row' = [row EXCEPT ![s] = mem[s]]
  /\ UNCHANGED <<guardVars, registered, mem, proc, said, textVars, killVars, reattached,
                 freed, tree, restarts>>

\* The session enters m.sessions and tailAndParse starts.
Register(s) ==
  /\ stage[s] = "saved"
  /\ stage' = [stage EXCEPT ![s] = "tailing"]
  /\ registered' = registered \cup {s}
  /\ UNCHANGED <<guardVars, mem, row, proc, said, textVars, killVars, reattached, freed,
                 tree, restarts>>

\* The deferred delete(m.inFlight, key).
Unreserve(s) ==
  /\ s \in reserving
  /\ stage[s] \notin {"reserved", "started", "saved"}
  /\ inFlight' = inFlight \ {Key(s)}
  /\ reserving' = reserving \ {s}
  /\ UNCHANGED <<stage, registered, mem, row, proc, said, textVars, killVars, reattached,
                 freed, tree, restarts>>

\* A spawn that failed, also as a duplicate: SpawnExecute removes the worktree.
Abort(s) ==
  /\ stage[s] = "failing"
  /\ s \notin reserving
  /\ stage' = [stage EXCEPT ![s] = "done"]
  /\ tree' = IF EntryOf[s] = "execute" THEN [tree EXCEPT ![IssueOf[s]] = "none"] ELSE tree
  /\ UNCHANGED <<guardVars, registered, mem, row, proc, said, textVars, killVars,
                 reattached, freed, restarts>>

-----------------------------------------------------------------------------
\* The worker (external): an agent following the bundled skills, which print
\* these sentinels as their last line.

Closing == {"question", "blocked", "complete", "needs_pr"}
Printed(s, word) == \E n \in DOMAIN said[s] : said[s][n] = word
LastWord(s) == IF said[s] = <<>> THEN "" ELSE said[s][Len(said[s])]

Say(s, word) ==
  /\ proc[s] = "alive"
  /\ word \in Says[s]
  /\ LastWord(s) \notin Closing
  /\ Len(said[s]) < MaxLines[s]
  /\ said' = [said EXCEPT ![s] = Append(@, word)]
  /\ UNCHANGED <<stage, guardVars, registered, mem, row, proc, textVars, killVars,
                 reattached, freed, tree, restarts>>

Edit(s) ==
  /\ proc[s] = "alive"
  /\ Mode(s) = "execute"
  /\ tree[IssueOf[s]] = "clean"
  /\ tree' = [tree EXCEPT ![IssueOf[s]] = "dirty"]
  /\ UNCHANGED <<stage, guardVars, registered, mem, row, proc, said, textVars, killVars,
                 reattached, freed, restarts>>

Exit(s) ==
  /\ proc[s] = "alive"
  /\ \E code \in {"ok", "failed"} : proc' = [proc EXCEPT ![s] = code]
  /\ UNCHANGED <<stage, guardVars, registered, mem, row, said, textVars, killVars,
                 reattached, freed, tree, restarts>>

-----------------------------------------------------------------------------
\* Following the transcript.

\* matchPatterns: the state a sentinel leads to.  A second question is ignored
\* while one is pending; PR_OPENED changes no state.
Feed(state, asked, word) ==
  CASE word = "question" -> IF asked THEN state ELSE "paused"
    [] word = "ask"      -> "waiting"
    [] word = "complete" -> "completed"
    [] word = "needs_pr" -> "needs_pr"
    [] word = "blocked"  -> "blocked"
    [] word = "pr"       -> state

\* Mutation of Zombies: a session that has ended but is still registered counts.
ZombiesOfIssue(s) == {t \in registered : IssueOf[t] = IssueOf[s] /\ Mode(t) = "execute"}

\* handlePROpened ends in KillAfterPROpened: whichever registered session of the
\* issue is an active execute worker.  A reattached one has no cmd to kill, and a
\* harness goroutine stops when it next looks at its context.
Zombies(s) == {t \in registered : IssueOf[t] = IssueOf[s] /\ Mode(t) = "execute"
                                  /\ mem[t] \in Live}

KillAfterPROpened(s) ==
  IF Zombies(s) = {} THEN UNCHANGED <<killVars, proc>>
  ELSE \E t \in Zombies(s) :
         /\ cancelled' = cancelled \cup {t}
         /\ autoKilled' = autoKilled \cup {t}
         /\ proc' = IF proc[t] = "alive" /\ t \notin reattached \cup Harness
                    THEN [proc EXCEPT ![t] = "failed"] ELSE proc

\* A sentinel is streamed as several transcript lines, which the parser puts
\* together in memory: the offset may be saved between two of them.
SaveOffset(s) ==
  /\ saved' = [saved EXCEPT ![s] = read[s]]
  /\ \/ /\ s \in cut => saved[s] < read[s]
        /\ cut' = cut \ {s}
     \/ /\ read[s] < Len(said[s])
        /\ cut' = cut \cup {s}

\* The loop saves the offset after a line, at most every two seconds.
Flush(s) ==
  /\ stage[s] \in {"tailing", "following"}
  /\ SaveOffset(s)
  /\ UNCHANGED <<stage, guardVars, registered, mem, row, proc, said, read, split, missed,
                 pending, delivered, killVars, reattached, freed, tree, restarts>>

\* A sentinel recognised by matchPatterns.
Hear(s, word) ==
  /\ mem' = [mem EXCEPT ![s] = Feed(@, pending[s], word)]
  /\ row' = [row EXCEPT ![s] = Feed(mem[s], pending[s], word)]
  /\ pending' = [pending EXCEPT ![s] = @ \/ word = "question"]
  /\ \/ /\ word = "pr"
        /\ delivered' = delivered \cup {s}
        /\ KillAfterPROpened(s)
     \/ /\ word # "pr"
        /\ UNCHANGED <<delivered, killVars, proc>>

\* feedLine up to the end of the next sentinel.  A cancelled loop may still read:
\* the context is looked at between lines, and not at all in the drain after the
\* process exit.
ReadLine(s) ==
  /\ stage[s] \in {"tailing", "following", "classifying"}
  /\ read[s] < Len(said[s])
  /\ read' = [read EXCEPT ![s] = @ + 1]
  /\ split' = split \ {s}
  /\ \/ /\ s \notin split
        /\ Hear(s, said[s][read[s] + 1])
        /\ UNCHANGED missed
     \/ /\ s \in split
        /\ missed' = missed \cup {s}
        /\ UNCHANGED <<mem, row, pending, delivered, killVars, proc>>
  /\ UNCHANGED <<stage, guardVars, registered, said, saved, cut, reattached, freed, tree,
                 restarts>>

\* mapTerminalState, and the verdict on a worker stopped because its PR opened.
Terminal(state, exit) ==
  CASE state \in {"paused", "needs_pr"} -> state
    [] state \notin {"paused", "needs_pr"} /\ exit = "failed" -> "failed"
    [] state \in {"running", "completed"} /\ exit = "ok" -> "completed"
    [] state \in {"waiting", "blocked"} /\ exit = "ok" -> "failed"

Verdict(s) ==
  LET end == Terminal(mem[s], proc[s])
  IN  IF s \in autoKilled /\ end = "failed" THEN "completed" ELSE end

\* Mutation of Settle: the final state is not saved.
SettleUnsaved(s) ==
  /\ stage[s] = "tailing"
  /\ Dead(s)
  /\ read[s] = Len(said[s]) \/ s \in cancelled
  /\ stage' = [stage EXCEPT ![s] = "settled"]
  /\ mem' = [mem EXCEPT ![s] = Verdict(s)]
  /\ SaveOffset(s)
  /\ UNCHANGED <<guardVars, registered, row, proc, said, read, split, missed, pending,
                 delivered, killVars, reattached, freed, tree, restarts>>

\* The tail loop has ended: the worker is reaped and the row gets its final state.
Settle(s) ==
  /\ stage[s] = "tailing"
  /\ Dead(s)
  /\ read[s] = Len(said[s]) \/ s \in cancelled
  /\ stage' = [stage EXCEPT ![s] = "settled"]
  /\ mem' = [mem EXCEPT ![s] = Verdict(s)]
  /\ row' = [row EXCEPT ![s] = Verdict(s)]
  /\ SaveOffset(s)
  /\ UNCHANGED <<guardVars, registered, proc, said, read, split, missed, pending,
                 delivered, killVars, reattached, freed, tree, restarts>>

ReleaseSlot(s) ==
  /\ stage[s] = "settled"
  /\ s \notin reattached
  /\ stage' = [stage EXCEPT ![s] = "freed"]
  /\ freed' = freed \cup {s}
  /\ UNCHANGED <<guardVars, registered, mem, row, proc, said, textVars, killVars,
                 reattached, tree, restarts>>

\* An empty worktree of a failed worker is removed; one with work in it is kept.
SweptTree(s) ==
  IF /\ Mode(s) = "execute"
     /\ mem[s] \in {"blocked", "failed"}
     /\ tree[IssueOf[s]] = "clean"
  THEN [tree EXCEPT ![IssueOf[s]] = "none"] ELSE tree

\* The rest of tailAndParse, after the slot has been given back.
Retire(s) ==
  /\ stage[s] = "freed"
  /\ stage' = [stage EXCEPT ![s] = "done"]
  /\ tree' = SweptTree(s)
  /\ registered' = registered \ {s}
  /\ UNCHANGED <<guardVars, mem, row, proc, said, textVars, killVars, reattached, freed,
                 restarts>>

-----------------------------------------------------------------------------
\* The user's Stop buttons.

Kill(s) ==
  /\ s \in registered
  /\ cancelled' = cancelled \cup {s}
  /\ proc' = IF proc[s] = "alive" /\ s \notin Harness
             THEN [proc EXCEPT ![s] = "failed"] ELSE proc
  /\ UNCHANGED <<stage, guardVars, registered, mem, row, said, textVars, autoKilled,
                 reattached, freed, tree, restarts>>

\* Cancels the context and asks the process to stop; a reattached session has no
\* cmd, so nothing is sent to its process.
KillGraceful(s) ==
  /\ s \in registered \ cancelled
  /\ cancelled' = cancelled \cup {s}
  /\ UNCHANGED <<stage, guardVars, registered, mem, row, proc, said, textVars, autoKilled,
                 reattached, freed, tree, restarts>>

\* The kill three seconds later; for a harness, its goroutine seeing the context.
ForceKill(s) ==
  /\ s \in cancelled \ reattached
  /\ proc[s] = "alive"
  /\ stage[s] # "done"
  /\ proc' = [proc EXCEPT ![s] = "failed"]
  /\ UNCHANGED <<stage, guardVars, registered, mem, row, said, textVars, killVars,
                 reattached, freed, tree, restarts>>

-----------------------------------------------------------------------------
\* Quitting or crashing, and the next startup.

\* Mutation of ResumeFrom: the transcript is followed from its end.
ResumeFromEnd(s) == Len(said[s])

\* Reattach goes on reading at the offset in the row.
ResumeFrom(s) == saved[s]

\* Only rows, transcripts, worktrees and detached processes survive.  The rows
\* LoadRunningSessions returns wait for Reattach.
Restart ==
  /\ restarts < MaxRestarts
  /\ restarts' = restarts + 1
  /\ stage' = [s \in Sessions |-> CASE row[s] \in Loadable -> "boot"
                                    [] row[s] \notin Loadable /\ stage[s] = "fresh" -> "fresh"
                                    [] row[s] \notin Loadable /\ stage[s] # "fresh" -> "done"]
  /\ inFlight' = {} /\ reserving' = {} /\ registered' = {}
  /\ mem' = row
  /\ proc' = [s \in Sessions |-> IF s \in Harness /\ proc[s] = "alive" THEN "failed" ELSE proc[s]]
  /\ read' = [s \in Sessions |-> IF row[s] \in Loadable THEN ResumeFrom(s) ELSE read[s]]
  /\ split' = {s \in cut : row[s] \in Loadable}
  /\ cancelled' = {s \in cancelled : row[s] \notin Loadable}
  /\ autoKilled' = {s \in autoKilled : row[s] \notin Loadable}
  /\ UNCHANGED <<row, said, saved, cut, missed, pending, delivered, reattached, freed, tree>>

\* Mutation of Reattach: only a worker that is still alive is taken over.
ReattachAlive(s) ==
  /\ stage[s] = "boot"
  /\ proc[s] = "alive"
  /\ reattached' = reattached \cup {s}
  /\ stage' = [stage EXCEPT ![s] = "following"]
  /\ registered' = registered \cup {s}
  /\ UNCHANGED <<guardVars, mem, row, proc, said, textVars, killVars, freed, tree, restarts>>

\* New spawns do not wait for this: the pending queue is drained concurrently.
Reattach(s) ==
  /\ stage[s] = "boot"
  /\ reattached' = reattached \cup {s}
  /\ \/ /\ proc[s] = "alive"
        /\ stage' = [stage EXCEPT ![s] = "following"]
        /\ registered' = registered \cup {s}
     \/ /\ proc[s] # "alive"
        /\ stage' = [stage EXCEPT ![s] = "classifying"]
        /\ UNCHANGED registered
  /\ UNCHANGED <<guardVars, mem, row, proc, said, textVars, killVars, freed, tree, restarts>>

\* followLive, its context cancelled: it just returns.
FollowCancelled(s) ==
  /\ stage[s] = "following"
  /\ s \in cancelled
  /\ stage' = [stage EXCEPT ![s] = "done"]
  /\ registered' = registered \ {s}
  /\ UNCHANGED <<guardVars, mem, row, proc, said, textVars, killVars, reattached, freed,
                 tree, restarts>>

\* followLive finds the process gone, which it may do just before it would have
\* seen the cancel.
FollowDead(s) ==
  /\ stage[s] = "following"
  /\ Dead(s)
  /\ stage' = [stage EXCEPT ![s] = "classifying"]
  /\ SaveOffset(s)
  /\ UNCHANGED <<guardVars, registered, mem, row, proc, said, read, split, missed,
                 pending, delivered, killVars, reattached, freed, tree, restarts>>

\* Mutation of KeptStates: a question found in the transcript does not count.
KeptStatesNotPaused == {"completed", "blocked", "failed"}

\* classifyDeadWorker, once the whole transcript has been fed.
KeptStates == {"completed", "blocked", "failed", "paused"}

Classify(s) ==
  LET end == IF mem[s] \in KeptStates THEN mem[s] ELSE "failed"
  IN  /\ stage[s] = "classifying"
      /\ read[s] = Len(said[s])
      /\ stage' = [stage EXCEPT ![s] = "settled"]
      /\ mem' = [mem EXCEPT ![s] = end]
      /\ row' = [row EXCEPT ![s] = end]
      /\ SaveOffset(s)
      /\ UNCHANGED <<guardVars, registered, proc, said, read, split, missed, pending,
                     delivered, killVars, reattached, freed, tree, restarts>>

\* Here the worktree goes before the slot.
RetireReattached(s) ==
  /\ stage[s] = "settled"
  /\ s \in reattached
  /\ stage' = [stage EXCEPT ![s] = "done"]
  /\ tree' = SweptTree(s)
  /\ freed' = freed \cup {s}
  /\ registered' = registered \ {s}
  /\ UNCHANGED <<guardVars, mem, row, proc, said, textVars, killVars, reattached, restarts>>

-----------------------------------------------------------------------------
Init ==
  /\ stage = [s \in Sessions |-> "fresh"]
  /\ inFlight = {} /\ reserving = {} /\ registered = {}
  /\ mem = [s \in Sessions |-> "none"]
  /\ row = [s \in Sessions |-> "none"]
  /\ proc = [s \in Sessions |-> "none"]
  /\ said = [s \in Sessions |-> <<>>]
  /\ read = [s \in Sessions |-> 0]
  /\ saved = [s \in Sessions |-> 0]
  /\ cut = {} /\ split = {} /\ missed = {}
  /\ pending = [s \in Sessions |-> FALSE]
  /\ cancelled = {} /\ autoKilled = {} /\ reattached = {} /\ freed = {} /\ delivered = {}
  /\ tree = [i \in Issues |-> "none"]
  /\ restarts = 0

\* What the conductor's goroutines do without waiting for anybody.
Conductor(s) ==
  \/ Guard(s) \/ StartProcess(s) \/ SaveRow(s) \/ Register(s) \/ Unreserve(s) \/ Abort(s)
  \/ Flush(s) \/ ReadLine(s) \/ Settle(s) \/ ReleaseSlot(s) \/ Retire(s) \/ ForceKill(s)
  \/ Reattach(s) \/ FollowCancelled(s) \/ FollowDead(s) \/ Classify(s) \/ RetireReattached(s)

Worker(s) == (\E word \in Sentinels : Say(s, word)) \/ Edit(s) \/ Exit(s)

User(s) == Prepare(s) \/ Kill(s) \/ KillGraceful(s)

Next == Restart \/ \E s \in Sessions : Conductor(s) \/ Worker(s) \/ User(s)

Spec == Init /\ [][Next]_vars

\* The goroutines are scheduled by the Go runtime and their waits are on the clock
\* or on the disk; neither the worker nor the user need ever do anything.
FairSpec == Spec /\ \A s \in Sessions : WF_vars(Conductor(s))
-----------------------------------------------------------------------------
Stages == {"fresh", "ready", "reserved", "started", "saved", "tailing", "settled", "freed",
           "done", "failing", "boot", "following", "classifying"}
States == Guarded \cup {"none", "completed", "needs_pr", "failed"}

\* The types, and what ties the fields of one session together.
TypeOK ==
  /\ stage \in [Sessions -> Stages]
  /\ inFlight = {Key(s) : s \in reserving}
  /\ reserving \subseteq Sessions /\ registered \subseteq Sessions
  /\ mem \in [Sessions -> States] /\ row \in [Sessions -> States]
  /\ proc \in [Sessions -> {"none", "alive", "ok", "failed"}]
  /\ said \in [Sessions -> Seq(Sentinels)]
  /\ read \in [Sessions -> Nat] /\ saved \in [Sessions -> Nat]
  /\ \A s \in Sessions : saved[s] <= read[s] /\ read[s] <= Len(said[s])
  /\ \A s \in cut : saved[s] < Len(said[s])
  /\ split \subseteq cut /\ cut \subseteq Sessions /\ missed \subseteq reattached
  /\ pending \in [Sessions -> BOOLEAN]
  /\ cancelled \subseteq Sessions /\ autoKilled \subseteq cancelled
  /\ reattached \subseteq Sessions /\ freed \subseteq Sessions
  /\ delivered \subseteq Sessions
  /\ tree \in [Issues -> {"none", "clean", "dirty"}]
  /\ restarts \in 0 .. MaxRestarts

\* A worker that this run of the conductor has started and that has not yet said
\* its last word: it is spending tokens on the issue.
Working(s) ==
  /\ stage[s] \in {"started", "saved", "tailing"}
  /\ proc[s] = "alive"
  /\ LastWord(s) \notin {"complete", "needs_pr"}

\* The duplicate-spawn guard does its work although the key is checked before the
\* process starts, the session is registered after it, and the reservation is
\* dropped at some moment after that: one working worker per issue and mode.
OneWorkerPerKey ==
  \A s, t \in Sessions : Working(s) /\ Working(t) /\ Key(s) = Key(t) => s = t

\* When the orchestrator is told that a slot is free, the worker has exited and its
\* row no longer counts as running, so recounting the rows gives the slot back too.
FreedSlotIsOver ==
  \A s \in freed : proc[s] # "alive" /\ row[s] \notin Live

\* PR_OPENED stops only a worker that announced a PR itself, although the worker
\* to kill is looked up by issue; only where Reattach has taken over a worker of the
\* issue may it be another one: an old transcript hits a newer worker, or the other way.
AutoKillHitsSpeaker ==
  \A s \in autoKilled :
    \/ Printed(s, "pr")
    \/ \E t \in reattached : IssueOf[t] = IssueOf[s]

\* A PR that a worker announced is recorded whenever the conductor has passed its
\* final judgement on the session, however often it crashed before: sentinels may
\* be heard twice but none is skipped.  Those cut in two are PRNeverMissed's.
PROpenedDelivered ==
  \A s \in Sessions :
    /\ stage[s] \in {"settled", "freed"}
    /\ s \notin cancelled \cup missed
    /\ Printed(s, "pr")
    => s \in delivered

\* The last word of a worker that was not stopped decides its final state; without
\* one it is the exit code that does, and after a restart, where nobody has that,
\* the session has failed.  NEEDS_PR after a restart is SentinelDecides'; a sentinel
\* cut in two is PRNeverMissed's.
OutcomeFaithful ==
  \A s \in Sessions :
    stage[s] \in {"settled", "freed"} /\ s \notin cancelled \cup missed =>
      LET word == LastWord(s)
          took == s \in reattached
      IN  /\ word = "question" => row[s] = "paused"
          /\ word = "blocked"  => row[s] = IF took THEN "blocked" ELSE "failed"
          /\ word = "complete" => row[s] = IF took \/ proc[s] = "ok" THEN "completed" ELSE "failed"
          /\ word = "needs_pr" => took \/ row[s] = "needs_pr"
          /\ word \notin Closing =>
               row[s] = IF ~took /\ proc[s] = "ok" /\ ~Printed(s, "ask") THEN "completed"
                                                                       ELSE "failed"

\* The row of a worker that has exited does not stay running for ever, whatever
\* crashes come in between.  Abandoned: stopped or PR-killed after a reattach.
EndedWorkerSettles ==
  \A s \in Sessions :
    Dead(s) /\ row[s] \in Live ~> row[s] \notin Live \/ s \in cancelled \cap reattached

-----------------------------------------------------------------------------
\* What the repository says and the code does not do.

\* reattach.go: "On terminal exit the goroutine itself handles the post-mortem
\* classification + cleanup" of a reattached worker that is still alive.
ReattachedWorkerSettles ==
  \A s \in Sessions : Dead(s) /\ row[s] \in Live ~> row[s] \notin Live

\* reattach.go: "The first matching arm sets the terminal state": a worker that
\* said NEEDS_PR ends in needs_pr, also when the line is read after a restart.
SentinelDecides ==
  \A s \in Sessions :
    stage[s] \in {"settled", "freed"} /\ s \notin cancelled \cup missed /\ LastWord(s) = "needs_pr"
    => row[s] = "needs_pr"

\* reattach.go: "including firing onPROpened retroactively so a worker that finished
\* off-conductor still moves the card to REVIEW".
PRNeverMissed ==
  \A s \in Sessions :
    stage[s] \in {"settled", "freed"} /\ s \notin cancelled /\ Printed(s, "pr")
    => s \in delivered

\* README.md: "the conductor never auto-deletes user-paid-for work": no step of
\* the conductor removes the worktree in which a live worker has made changes.
LiveWorkKept ==
  [][\A s \in Sessions :
       Working(s) /\ Mode(s) = "execute" /\ tree[IssueOf[s]] = "dirty"
       => tree'[IssueOf[s]] = "dirty"]_vars
=============================================================================
