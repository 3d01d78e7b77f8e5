------------------------ MODULE SessionManagerProofs ------------------------
(***************************************************************************)
(* The duplicate-spawn guard: one working worker per issue and mode, for   *)
(* every set of spawn calls, every transcript and any number of restarts.  *)
(* A spawn claims its key from the moment it has passed the guard until    *)
(* its session is no longer in one of the guarded states; the claim is     *)
(* first the reservation in inFlight and then the entry in m.sessions, and *)
(* the two overlap.  A claim given up by a live session is never renewed,  *)
(* because the worker has said its last word.                              *)
(*                                                                         *)
(* The second part follows one session from its start to its slot's        *)
(* return (Life): the state in memory is what the sentinels read so far    *)
(* call for (InStep), a row that Reattach may find agrees with the last    *)
(* word unless that was missed (Told), and a session that is over was read *)
(* to the end of its transcript, unless it was cancelled (Judged).  A step *)
(* of one session leaves the others calm: Calm(t) names all that Life(t)   *)
(* reads.                                                                  *)
(***************************************************************************)
EXTENDS SessionManager, TLAPS

Final == {"complete", "needs_pr"}
Spawning == {"reserved", "started", "saved"}

Claims(s) == s \in reserving \/ (stage[s] = "tailing" /\ mem[s] \in Guarded)

FieldsTyped ==
  /\ stage = [s \in Sessions |-> stage[s]]
  /\ mem = [s \in Sessions |-> mem[s]] /\ row = [s \in Sessions |-> row[s]]
  /\ said \in [Sessions -> Seq(Sentinels)]
  /\ read \in [Sessions -> Nat] /\ saved \in [Sessions -> Nat]
  /\ reserving \subseteq Sessions

\* A closing word is the last line of the transcript.
ClosingIsLast ==
  \A s \in Sessions : \A n \in 1 .. Len(said[s]) - 1 : said[s][n] \notin Closing

\* A session that has left the guarded states has read its worker's last word.
UnguardedIsOver ==
  \A s \in Sessions :
    stage[s] \in {"started", "saved", "tailing"} /\ mem[s] \notin Guarded
    => LastWord(s) \in Final /\ read[s] = Len(said[s])

ReservationsHeld ==
  /\ inFlight = {Key(s) : s \in reserving}
  /\ \A s \in Sessions : stage[s] \in Spawning => s \in reserving
  /\ \A s \in Sessions : stage[s] = "tailing" => s \in registered

ClaimsExclusive ==
  \A s, t \in Sessions : Claims(s) /\ Claims(t) /\ Key(s) = Key(t) => s = t

IInv == FieldsTyped /\ ClosingIsLast /\ UnguardedIsOver /\ ReservationsHeld /\ ClaimsExclusive

guarded == <<stage, inFlight, reserving, registered, mem, row, said, read>>

-----------------------------------------------------------------------------
LEMMA FeedState ==
  ASSUME NEW state \in Guarded, NEW asked, NEW word \in Sentinels
  PROVE  Feed(state, asked, word) \in Guarded \/ word \in Final
BY DEF Feed, Guarded, Live, Sentinels, Final

LEMMA FinalIsClosing == Final \subseteq Closing
BY DEF Final, Closing

LEMMA InitIInv == Init => IInv
PROOF
  <1> SUFFICES ASSUME Init PROVE IInv
    OBVIOUS
  <1> USE DEF Init
  <1>1. FieldsTyped
    BY DEF FieldsTyped
  <1>2. ClosingIsLast
    BY DEF ClosingIsLast
  <1>3. UnguardedIsOver /\ ReservationsHeld /\ ClaimsExclusive
    BY DEF UnguardedIsOver, ReservationsHeld, ClaimsExclusive, Claims, Spawning
  <1> QED BY <1>1, <1>2, <1>3 DEF IInv

-----------------------------------------------------------------------------
\* The kinds of step.

\* Steps of the worker and the user that the guard does not look at.
LEMMA QuietStep ==
  ASSUME IInv, UNCHANGED guarded,
         UNCHANGED saved \/ \E s \in Sessions : saved' = [saved EXCEPT ![s] = read[s]]
  PROVE  IInv'
PROOF
  <1> USE DEF IInv
  <1>1. saved' \in [Sessions -> Nat]
    BY DEF FieldsTyped
  <1>2. FieldsTyped'
    BY <1>1 DEF guarded, FieldsTyped
  <1>3. ClosingIsLast' /\ UnguardedIsOver' /\ ReservationsHeld' /\ ClaimsExclusive'
    BY DEF guarded, ClosingIsLast, UnguardedIsOver, ReservationsHeld, ClaimsExclusive, Claims,
           Key, Mode, LastWord
  <1> QED BY <1>2, <1>3

\* A session that moves to a stage where it claims nothing by itself.
LEMMA LeavingStep ==
  ASSUME IInv, NEW s \in Sessions, NEW to,
         to \notin Spawning \cup {"tailing"},
         stage' = [stage EXCEPT ![s] = to],
         \/ UNCHANGED <<mem, row>>
         \/ \E st : mem' = [mem EXCEPT ![s] = st] /\ row' = [row EXCEPT ![s] = st],
         UNCHANGED saved \/ saved' = [saved EXCEPT ![s] = read[s]],
         registered \ {s} \subseteq registered',
         UNCHANGED <<inFlight, reserving, said, read>>
  PROVE  IInv'
PROOF
  <1> USE DEF IInv
  <1>1. \A t \in Sessions \ {s} : stage'[t] = stage[t] /\ mem'[t] = mem[t]
    BY DEF FieldsTyped
  <1>2. stage'[s] \notin Spawning \cup {"tailing"}
    BY DEF FieldsTyped
  <1>3. FieldsTyped'
    BY DEF FieldsTyped
  <1>4. ClosingIsLast'
    BY DEF ClosingIsLast
  <1>5. UnguardedIsOver'
    BY <1>1, <1>2 DEF UnguardedIsOver, LastWord, Spawning
  <1>6. ReservationsHeld'
    BY <1>1, <1>2 DEF ReservationsHeld, Key, Mode
  <1>7. \A t \in Sessions : Claims(t)' => Claims(t)
    BY <1>1, <1>2 DEF Claims
  <1>8. ClaimsExclusive'
    BY <1>7 DEF ClaimsExclusive, Key, Mode
  <1> QED BY <1>3, <1>4, <1>5, <1>6, <1>8

\* A spawn that has passed the guard goes on; its reservation still stands.
LEMMA AdvancingStep ==
  ASSUME IInv, NEW s \in Sessions, NEW to,
         stage[s] \in Spawning, to \in {"started", "saved", "tailing"},
         stage' = [stage EXCEPT ![s] = to],
         \/ stage[s] # "reserved" /\ UNCHANGED mem
         \/ mem' = [mem EXCEPT ![s] = "running"],
         \/ UNCHANGED row
         \/ \E st : row' = [row EXCEPT ![s] = st],
         registered \subseteq registered', to = "tailing" => s \in registered',
         UNCHANGED <<inFlight, reserving, said, read, saved>>
  PROVE  IInv'
PROOF
  <1> USE DEF IInv
  <1>0. s \in reserving
    BY DEF ReservationsHeld
  <1>1. \A t \in Sessions \ {s} : stage'[t] = stage[t] /\ mem'[t] = mem[t]
    BY DEF FieldsTyped
  <1>2. stage'[s] = to
    BY DEF FieldsTyped
  <1>3. FieldsTyped'
    BY DEF FieldsTyped
  <1>4. ClosingIsLast'
    BY DEF ClosingIsLast
  <1>5. UnguardedIsOver'
    <2>1. \/ mem'[s] \in Guarded
          \/ stage[s] \in {"started", "saved"} /\ mem'[s] = mem[s]
      BY DEF FieldsTyped, Spawning, Guarded, Live
    <2> QED BY <1>1, <1>2, <2>1 DEF UnguardedIsOver, LastWord
  <1>6. ReservationsHeld'
    BY <1>0, <1>1, <1>2 DEF ReservationsHeld, Key, Mode
  <1>7. \A t \in Sessions : Claims(t)' => Claims(t)
    BY <1>0, <1>1 DEF Claims
  <1>8. ClaimsExclusive'
    BY <1>7 DEF ClaimsExclusive, Key, Mode
  <1> QED BY <1>3, <1>4, <1>5, <1>6, <1>8

-----------------------------------------------------------------------------
\* The steps at which claims are made, handed over and given up.

LEMMA GuardKeeps ==
  ASSUME IInv, NEW s \in Sessions, Guard(s)
  PROVE  IInv'
PROOF
  <1> USE DEF IInv
  <1>1. CASE Duplicate(s)
    BY <1>1, LeavingStep DEF Guard, guardVars, textVars, Spawning
  <1>2. CASE ~Duplicate(s)
    <2>0. /\ stage' = [stage EXCEPT ![s] = "reserved"]
          /\ inFlight' = inFlight \cup {Key(s)} /\ reserving' = reserving \cup {s}
          /\ UNCHANGED <<registered, mem, row, said, read, saved>>
      BY <1>2 DEF Guard, textVars
    <2>1. \A t \in Sessions \ {s} : stage'[t] = stage[t]
      BY <2>0 DEF FieldsTyped
    <2>2. stage'[s] = "reserved" /\ s \in reserving'
      BY <2>0 DEF FieldsTyped
    <2>3. FieldsTyped' /\ ClosingIsLast'
      BY <2>0 DEF FieldsTyped, ClosingIsLast
    <2>4. UnguardedIsOver'
      BY <2>0, <2>1, <2>2 DEF UnguardedIsOver, LastWord
    <2>5. ReservationsHeld'
      BY <2>0, <2>1, <2>2 DEF ReservationsHeld, Key, Mode
    <2>6. \A t \in Sessions : Claims(t) => Key(t) # Key(s)
      BY <1>2 DEF Duplicate, Claims, ReservationsHeld
    <2>7. \A t \in Sessions \ {s} : Claims(t)' => Claims(t)
      BY <2>0, <2>1 DEF Claims
    <2>8. ClaimsExclusive'
      BY <2>6, <2>7 DEF ClaimsExclusive, Key, Mode
    <2> QED BY <2>3, <2>4, <2>5, <2>8
  <1> QED BY <1>1, <1>2

LEMMA UnreserveKeeps ==
  ASSUME IInv, NEW s \in Sessions, Unreserve(s)
  PROVE  IInv'
PROOF
  <1> USE DEF IInv
  <1>0. /\ s \in reserving /\ stage[s] \notin Spawning
        /\ inFlight' = inFlight \ {Key(s)} /\ reserving' = reserving \ {s}
        /\ UNCHANGED <<stage, registered, mem, row, said, read, saved>>
    BY DEF Unreserve, textVars, Spawning
  <1>1. FieldsTyped' /\ ClosingIsLast'
    BY <1>0 DEF FieldsTyped, ClosingIsLast
  <1>2. UnguardedIsOver'
    BY <1>0 DEF UnguardedIsOver, LastWord
  <1>3. \A t \in reserving \ {s} : Key(t) # Key(s)
    BY <1>0 DEF ClaimsExclusive, Claims, FieldsTyped
  <1>4. ReservationsHeld'
    BY <1>0, <1>3 DEF ReservationsHeld, Key, Mode
  <1>5. \A t \in Sessions : Claims(t)' => Claims(t)
    BY <1>0 DEF Claims
  <1>6. ClaimsExclusive'
    BY <1>5 DEF ClaimsExclusive, Key, Mode
  <1> QED BY <1>1, <1>2, <1>4, <1>6

LEMMA SayKeeps ==
  ASSUME IInv, NEW s \in Sessions, NEW word \in Sentinels, Say(s, word)
  PROVE  IInv'
PROOF
  <1> USE DEF IInv
  <1>0. /\ LastWord(s) \notin Closing /\ said' = [said EXCEPT ![s] = Append(@, word)]
        /\ UNCHANGED <<stage, inFlight, reserving, registered, mem, row, read, saved>>
    BY DEF Say, guardVars, textVars
  <1>1. FieldsTyped'
    BY <1>0 DEF FieldsTyped
  <1>2. said[s] \in Seq(Sentinels) /\ said'[s] = Append(said[s], word)
    BY <1>0 DEF FieldsTyped
  <1>3. \A t \in Sessions \ {s} : said'[t] = said[t]
    BY <1>0 DEF FieldsTyped
  <1>4. \A n \in 1 .. Len(said'[s]) - 1 : said'[s][n] = said[s][n]
    BY <1>2
  <1>5. Len(said[s]) # 0 => said[s][Len(said[s])] \notin Closing
    BY <1>0, <1>2 DEF LastWord
  <1>6. ClosingIsLast'
    <2> SUFFICES ASSUME NEW n \in 1 .. Len(said'[s]) - 1
                 PROVE  said'[s][n] \notin Closing
      BY <1>3 DEF ClosingIsLast
    <2>1. n \in 1 .. Len(said[s])
      BY <1>2
    <2>2. CASE n = Len(said[s])
      BY <1>4, <1>5, <2>1, <2>2, <1>2
    <2>3. CASE n # Len(said[s])
      <3>1. n \in 1 .. Len(said[s]) - 1
        BY <2>1, <2>3, <1>2
      <3> QED BY <1>4, <3>1 DEF ClosingIsLast
    <2> QED BY <2>2, <2>3
  <1>7. UnguardedIsOver'
    <2> SUFFICES ASSUME NEW t \in Sessions,
                        stage[t] \in {"started", "saved", "tailing"}, mem[t] \notin Guarded
                 PROVE  LastWord(t)' \in Final /\ read[t] = Len(said'[t])
      BY <1>0 DEF UnguardedIsOver
    <2>1. LastWord(t) \in Final /\ read[t] = Len(said[t])
      BY DEF UnguardedIsOver
    <2>2. t # s
      BY <1>0, <2>1, FinalIsClosing
    <2> QED BY <1>3, <2>1, <2>2 DEF LastWord
  <1>8. ReservationsHeld'
    BY <1>0 DEF ReservationsHeld, Key, Mode
  <1>9. ClaimsExclusive'
    BY <1>0 DEF ClaimsExclusive, Claims, Key, Mode
  <1> QED BY <1>1, <1>6, <1>7, <1>8, <1>9

LEMMA ReadLineKeeps ==
  ASSUME IInv, NEW s \in Sessions, ReadLine(s)
  PROVE  IInv'
PROOF
  <1> USE DEF IInv
  <1> DEFINE word == said[s][read[s] + 1]
             st   == IF s \in split THEN mem[s] ELSE Feed(mem[s], pending[s], word)
  <1>0. /\ read[s] < Len(said[s])
        /\ read' = [read EXCEPT ![s] = @ + 1]
        /\ mem' = [mem EXCEPT ![s] = st]
        /\ row' = [t \in Sessions |-> row'[t]]
        /\ UNCHANGED <<stage, inFlight, reserving, registered, said, saved>>
    <2>1. CASE s \in split
      BY <2>1 DEF ReadLine, guardVars, FieldsTyped
    <2>2. CASE s \notin split
      BY <2>2 DEF ReadLine, Hear, guardVars, FieldsTyped
    <2> QED BY <2>1, <2>2
  <1>1. /\ said[s] \in Seq(Sentinels) /\ read[s] \in Nat
        /\ read[s] + 1 \in 1 .. Len(said[s]) /\ word \in Sentinels
    BY <1>0 DEF FieldsTyped
  <1>2. /\ mem'[s] = st /\ read'[s] = read[s] + 1
        /\ \A t \in Sessions \ {s} : mem'[t] = mem[t] /\ read'[t] = read[t]
    BY <1>0 DEF FieldsTyped
  <1>3. FieldsTyped'
    <2> HIDE DEF st
    <2>1. read' \in [Sessions -> Nat] /\ saved' \in [Sessions -> Nat]
      BY <1>0, <1>1 DEF FieldsTyped
    <2>2. /\ mem' = [t \in Sessions |-> mem'[t]]
          /\ row' = [t \in Sessions |-> row'[t]]
      BY <1>0 DEF FieldsTyped
    <2> QED BY <1>0, <2>1, <2>2 DEF FieldsTyped
  <1>4. ClosingIsLast'
    BY <1>0 DEF ClosingIsLast
  \* A session that has left the guarded states has nothing left to read.
  <1>5. stage[s] \in {"started", "saved", "tailing"} => mem[s] \in Guarded
    BY <1>0, <1>1 DEF UnguardedIsOver
  <1>6. word \in Final => read[s] + 1 = Len(said[s]) /\ LastWord(s) = word
    <2> HAVE word \in Final
    <2>1. read[s] + 1 \notin 1 .. Len(said[s]) - 1
      BY <1>1, FinalIsClosing DEF ClosingIsLast
    <2>2. read[s] + 1 = Len(said[s])
      BY <1>1, <2>1
    <2>3. said[s] # <<>>
      BY <1>1
    <2> QED BY <2>2, <2>3 DEF LastWord
  <1>7. UnguardedIsOver'
    <2> SUFFICES ASSUME NEW t \in Sessions,
                        stage[t] \in {"started", "saved", "tailing"}, mem'[t] \notin Guarded
                 PROVE  LastWord(t) \in Final /\ read'[t] = Len(said[t])
      BY <1>0 DEF UnguardedIsOver, LastWord
    <2>1. CASE t = s
      <3>1. word \in Final
        BY <1>1, <1>2, <1>5, <2>1, FeedState DEF Guarded
      <3> QED BY <1>2, <1>6, <2>1, <3>1
    <2>2. CASE t # s
      BY <1>2, <2>2 DEF UnguardedIsOver
    <2> QED BY <2>1, <2>2
  <1>8. ReservationsHeld'
    BY <1>0 DEF ReservationsHeld, Key, Mode
  <1>9. \A t \in Sessions : Claims(t)' => Claims(t)
    BY <1>0, <1>2, <1>5 DEF Claims
  <1>10. ClaimsExclusive'
    BY <1>9 DEF ClaimsExclusive, Key, Mode
  <1> QED BY <1>3, <1>4, <1>7, <1>8, <1>10

LEMMA RestartKeeps ==
  ASSUME IInv, Restart
  PROVE  IInv'
PROOF
  <1> USE DEF IInv
  <1>1. \A s \in Sessions : stage'[s] \in {"boot", "fresh", "done"}
    BY DEF Restart
  <1>2. FieldsTyped'
    <2>1. read' \in [Sessions -> Nat]
      BY DEF Restart, ResumeFrom, FieldsTyped
    <2> QED BY <2>1 DEF FieldsTyped, Restart
  <1>3. ClosingIsLast'
    BY DEF ClosingIsLast, Restart
  <1>4. UnguardedIsOver' /\ ClaimsExclusive'
    BY <1>1 DEF UnguardedIsOver, ClaimsExclusive, Claims, Restart
  <1>5. ReservationsHeld'
    BY <1>1 DEF ReservationsHeld, Spawning, Restart
  <1> QED BY <1>2, <1>3, <1>4, <1>5

-----------------------------------------------------------------------------
LEMMA NextIInv == IInv /\ [Next]_vars => IInv'
PROOF
  <1> SUFFICES ASSUME IInv, [Next]_vars PROVE IInv'
    OBVIOUS
  <1>1. ASSUME NEW s \in Sessions, Conductor(s)
        PROVE  IInv'
    <2>1. CASE StartProcess(s)
      <3>1. CASE stage' = [stage EXCEPT ![s] = "failing"] /\ UNCHANGED <<proc, mem>>
        BY <2>1, <3>1, LeavingStep DEF StartProcess, guardVars, textVars, Spawning
      <3>2. CASE stage' = [stage EXCEPT ![s] = "started"] /\ mem' = [mem EXCEPT ![s] = "running"]
        BY <2>1, <3>2, AdvancingStep DEF StartProcess, guardVars, textVars, Spawning
      <3> QED BY <2>1, <3>1, <3>2 DEF StartProcess
    <2>2. CASE SaveRow(s)
      BY <2>2, AdvancingStep DEF SaveRow, guardVars, textVars, Spawning
    <2>3. CASE Register(s)
      <3>1. /\ stage[s] \in Spawning /\ stage[s] # "reserved"
            /\ stage' = [stage EXCEPT ![s] = "tailing"]
            /\ registered \subseteq registered' /\ s \in registered'
            /\ UNCHANGED <<mem, row, inFlight, reserving, said, read, saved>>
        BY <2>3 DEF Register, guardVars, textVars, Spawning
      <3> QED BY <3>1, AdvancingStep
    <2>4. CASE Abort(s) \/ ReleaseSlot(s) \/ Retire(s) \/ RetireReattached(s)
      BY <2>4, LeavingStep
      DEF Abort, ReleaseSlot, Retire, RetireReattached, guardVars, textVars, Spawning
    <2>5. CASE Settle(s)
      BY <2>5, LeavingStep DEF Settle, SaveOffset, guardVars, Spawning
    <2>6. CASE Classify(s)
      BY <2>6, LeavingStep DEF Classify, SaveOffset, guardVars, Spawning
    <2>7. CASE Reattach(s) \/ FollowCancelled(s) \/ FollowDead(s)
      BY <2>7, LeavingStep
      DEF Reattach, FollowCancelled, FollowDead, SaveOffset, guardVars, textVars, Spawning
    <2>8. CASE ForceKill(s) \/ Flush(s)
      BY <2>8, QuietStep DEF ForceKill, Flush, SaveOffset, guarded, guardVars, textVars
    <2> QED
      BY <1>1, <2>1, <2>2, <2>3, <2>4, <2>5, <2>6, <2>7, <2>8, GuardKeeps, UnreserveKeeps,
         ReadLineKeeps DEF Conductor
  <1>2. ASSUME NEW s \in Sessions, Worker(s)
        PROVE  IInv'
    <2>1. CASE Edit(s) \/ Exit(s)
      BY <2>1, QuietStep DEF Edit, Exit, guarded, guardVars, textVars
    <2> QED BY <1>2, <2>1, SayKeeps DEF Worker
  <1>3. ASSUME NEW s \in Sessions, User(s)
        PROVE  IInv'
    <2>1. CASE Prepare(s)
      BY <2>1, LeavingStep DEF Prepare, guardVars, textVars, Spawning
    <2>2. CASE Kill(s) \/ KillGraceful(s)
      BY <2>2, QuietStep DEF Kill, KillGraceful, guarded, guardVars, textVars
    <2> QED BY <1>3, <2>1, <2>2 DEF User
  <1>4. CASE UNCHANGED vars
    BY <1>4, QuietStep DEF vars, guarded, guardVars, textVars
  <1> QED BY <1>1, <1>2, <1>3, <1>4, RestartKeeps DEF Next

\* Claims are exclusive and every working worker has one, in every reachable state (the
\* guard of spawnWithDir and its deferred delete).
THEOREM Invariance == Spec => []IInv
PROOF
  <1>1. Init => IInv
    BY InitIInv
  <1>2. IInv /\ [Next]_vars => IInv'
    BY NextIInv
  <1> QED BY <1>1, <1>2, PTL DEF Spec

LEMMA WorkersClaim == ASSUME IInv, NEW s \in Sessions, Working(s) PROVE Claims(s)
BY DEF IInv, Working, Claims, UnguardedIsOver, ReservationsHeld, Spawning, Final

\* No issue ever has two workers of one mode that the same run of the conductor
\* has started and that are still at work.
THEOREM DuplicateSpawnGuard == Spec => []OneWorkerPerKey
PROOF
  <1>1. IInv => OneWorkerPerKey
    BY WorkersClaim DEF OneWorkerPerKey, IInv, ClaimsExclusive
  <1> QED BY <1>1, Invariance, PTL
-----------------------------------------------------------------------------
(***************************************************************************)
(* What a session ends as.  Everything below is said of one session: where *)
(* the conductor is with it determines how its record, the row, the        *)
(* process and the transcript hang together, through any number of         *)
(* restarts.  A step of one session leaves another one alone, except that  *)
(* it may stop its worker.                                                 *)
(***************************************************************************)
Unstarted == {"fresh", "ready", "reserved"}
Reading   == {"tailing", "following", "classifying"}
Over      == {"settled", "freed"}

\* The state that a closing sentinel calls for, and the last sentinel that was read.
Meaning(word) == CASE word = "question" -> "paused" [] word = "blocked" -> "blocked"
                   [] word = "complete" -> "completed" [] word = "needs_pr" -> "needs_pr"
Heard(s) == IF read[s] = 0 THEN "" ELSE said[s][read[s]]

\* Before its process is started a session has nothing to its name, and nothing is read
\* before it is registered.
Blank(s) ==
  /\ stage[s] \in Unstarted => proc[s] = "none" /\ said[s] = <<>>
  /\ proc[s] = "none" => row[s] = "none" /\ stage[s] \in Unstarted \cup {"failing", "done"}
  /\ stage[s] \in Unstarted \cup {"started", "saved"} => read[s] = 0 /\ ~pending[s]

\* Which sessions are Reattach's.
Taken(s) ==
  /\ stage[s] \in Unstarted \cup {"started", "saved", "tailing"} => s \notin reattached
  /\ stage[s] \in {"following", "classifying"} => s \in reattached
  /\ stage[s] = "boot" => row[s] \in Loadable
  /\ stage[s] = "classifying" => Dead(s)
  /\ s \in registered \ reattached => stage[s] \in {"tailing"} \cup Over

Recorded(s) ==
  /\ stage[s] \in {"saved", "boot"} \cup Reading \cup Over => mem[s] = row[s]
  /\ \A n \in 1 .. Len(said[s]) : said[s][n] \in Says[s]

\* The state of a session that has not been interrupted is that of what was read.
InStep(s) ==
  stage[s] \in {"started", "saved", "tailing"} =>
    IF Heard(s) \in Closing THEN mem[s] = Meaning(Heard(s))
    ELSE mem[s] = IF \E n \in 1 .. read[s] : said[s][n] = "ask" THEN "waiting" ELSE "running"

\* A row that Reattach may find agrees with the last word, if that was read.
Told(s) ==
  stage[s] \in Reading \/ row[s] \in Loadable =>
    /\ LastWord(s) \notin Closing => row[s] \in Live
    /\ read[s] = Len(said[s]) /\ LastWord(s) \in Closing /\ s \notin missed
       => row[s] = Meaning(LastWord(s))
    /\ pending[s] => row[s] = "paused"

Asked(s) == pending[s] => LastWord(s) = "question"

PRHeard(s) ==
  s \notin missed => \A n \in 1 .. read[s] : said[s][n] = "pr" => s \in delivered

\* A transcript resumed inside a sentinel has not been read on since.
Resumed(s) == s \in split => saved[s] = read[s] /\ (stage[s] = "boot" \/ s \in reattached)

Judged(s) ==
  stage[s] \in Over =>
    /\ Dead(s) /\ row[s] \notin Live
    /\ row[s] \in Loadable => saved[s] = Len(said[s])
    /\ s \notin cancelled => read[s] = Len(said[s])

\* A session that has given its slot back may be taken over again, with nothing to read.
GivenBack(s) ==
  s \in freed =>
    /\ Dead(s) /\ row[s] \notin Live
    /\ stage[s] \in {"boot", "classifying", "done"} \cup Over
    /\ row[s] \in Loadable => saved[s] = Len(said[s])
    /\ stage[s] = "classifying" => row[s] \in Loadable

Faithful(s) ==
  stage[s] \in Over /\ s \notin cancelled \cup missed =>
    LET word == LastWord(s)
        took == s \in reattached
    IN  /\ word = "question" => row[s] = "paused"
        /\ word = "blocked"  => row[s] = IF took THEN "blocked" ELSE "failed"
        /\ word = "complete" => row[s] = IF took \/ proc[s] = "ok" THEN "completed" ELSE "failed"
        /\ word = "needs_pr" => took \/ row[s] = "needs_pr"
        /\ word \notin Closing =>
             row[s] = IF ~took /\ proc[s] = "ok" /\ ~Printed(s, "ask") THEN "completed"
                                                                     ELSE "failed"

Stopped(s) ==
  s \in autoKilled =>
    Printed(s, "pr") \/ \E t \in reattached : IssueOf[t] = IssueOf[s]

Life(s) ==
  /\ Blank(s) /\ Taken(s) /\ Recorded(s) /\ InStep(s) /\ Told(s) /\ Asked(s) /\ PRHeard(s)
  /\ Resumed(s) /\ Judged(s) /\ GivenBack(s) /\ Faithful(s) /\ Stopped(s)

LifeInv == IInv /\ TypeOK /\ \A s \in Sessions : Life(s)
\* Session t as a step leaves it, but for a stop of its worker.
Calm(t) ==
  /\ stage'[t] = stage[t] /\ mem'[t] = mem[t] /\ row'[t] = row[t] /\ said'[t] = said[t]
  /\ read'[t] = read[t] /\ saved'[t] = saved[t] /\ pending'[t] = pending[t]
  /\ proc'[t] = proc[t] \/ (proc[t] = "alive" /\ proc'[t] \in {"ok", "failed"})
  /\ t \in reattached' <=> t \in reattached
  /\ t \in split' <=> t \in split
  /\ t \in missed' <=> t \in missed
  /\ t \in delivered' <=> t \in delivered
  /\ t \in freed' <=> t \in freed
  /\ t \in registered' => t \in registered
  /\ t \in cancelled => t \in cancelled'

LEMMA CalmKeeps ==
  ASSUME NEW t \in Sessions, Life(t), Calm(t), Stopped(t)'
  PROVE  Life(t)'
PROOF
  <1> USE DEF Life, Calm
  <1>1. Blank(t)' /\ Taken(t)' /\ Recorded(t)'
    BY DEF Blank, Taken, Recorded, Unstarted, Dead
  <1>2. InStep(t)'
    BY DEF InStep, Heard
  <1>3. Told(t)' /\ Asked(t)' /\ PRHeard(t)' /\ Resumed(t)'
    BY DEF Told, Asked, PRHeard, Resumed, LastWord
  <1>4. Judged(t)' /\ GivenBack(t)'
    BY DEF Judged, GivenBack, Dead
  <1>5. Faithful(t)'
    BY DEF Faithful, Judged, Dead, LastWord, Printed
  <1> QED BY <1>1, <1>2, <1>3, <1>4, <1>5

\* Who is stopped stays a speaker, or a session of an issue that Reattach was busy with.
LEMMA StoppedKeeps ==
  ASSUME NEW t \in Sessions, Life(t), said[t] \in Seq(Sentinels),
         said'[t] = said[t] \/ \E word : said'[t] = Append(said[t], word),
         reattached \subseteq reattached', t \in autoKilled' => t \in autoKilled
  PROVE  Stopped(t)'
PROOF
  <1>1. Printed(t, "pr") => Printed(t, "pr")'
    BY DEF Printed
  <1> QED BY <1>1 DEF Life, Stopped
-----------------------------------------------------------------------------
\* The types.

\* The part of the types that every step of a session touches in its own way.
LEMMA OffsetsKeep ==
  ASSUME TypeOK, NEW s \in Sessions, SaveOffset(s), UNCHANGED <<said, read, split>>, Resumed(s)
  PROVE  /\ saved' \in [Sessions -> Nat] /\ cut' \subseteq Sessions /\ split' \subseteq cut'
         /\ \A t \in Sessions : saved'[t] <= read[t]
         /\ \A t \in cut' : saved'[t] < Len(said[t])
PROOF
  <1> USE DEF TypeOK
  <1>1. saved'[s] = read[s] /\ \A t \in Sessions \ {s} : saved'[t] = saved[t]
    BY DEF SaveOffset
  <1>2. saved' \in [Sessions -> Nat] /\ cut' \subseteq Sessions
    BY DEF SaveOffset
  <1>3. split' \subseteq cut'
    BY DEF SaveOffset, Resumed
  <1>4. /\ said[s] \in Seq(Sentinels) /\ read[s] \in Nat /\ saved[s] \in Nat
        /\ \A t \in Sessions : saved[t] <= read[t] /\ read[t] <= Len(said[t])
    OBVIOUS
  <1>5. \A t \in Sessions : saved'[t] <= read[t]
    <2>1. saved'[s] <= read[s]
      BY <1>1, <1>4
    <2> QED BY <1>1, <1>4, <2>1
  <1>6. \A t \in cut' : saved'[t] < Len(said[t])
    BY <1>1, <1>4 DEF SaveOffset
  <1> QED BY <1>2, <1>3, <1>5, <1>6

LEMMA FeedTyped ==
  ASSUME NEW state \in States, NEW asked, NEW word \in Sentinels
  PROVE  Feed(state, asked, word) \in States
BY DEF Feed, States, Guarded, Live, Sentinels

LEMMA VerdictTyped ==
  ASSUME NEW s \in Sessions, Dead(s),
         mem[s] \in Guarded \cup {"completed", "needs_pr"}
  PROVE  Verdict(s) \in {"paused", "needs_pr", "completed", "failed"}
BY DEF Verdict, Terminal, Dead, Guarded, Live
LEMMA TypesOfSteps ==
  ASSUME LifeInv, IInv', NEW s \in Sessions, Conductor(s) \/ Worker(s) \/ User(s)
  PROVE  TypeOK'
PROOF
  <1> USE DEF LifeInv, TypeOK
  <1>0. (inFlight = {Key(t) : t \in reserving})'
    BY DEF IInv, ReservationsHeld
  <1>1. CASE Guard(s) \/ StartProcess(s) \/ SaveRow(s) \/ Register(s) \/ Unreserve(s)
    BY <1>0, <1>1 DEF Guard, StartProcess, SaveRow, Register, Unreserve, guardVars, textVars,
                     killVars, Stages, States, Guarded, Live
  <1>2. CASE ReleaseSlot(s) \/ ForceKill(s) \/ Reattach(s) \/ FollowCancelled(s)
    BY <1>0, <1>2 DEF ReleaseSlot, ForceKill, Reattach, FollowCancelled, guardVars, textVars,
                     killVars, Stages
  <1>3. CASE Abort(s) \/ Retire(s) \/ RetireReattached(s) \/ Prepare(s)
    <2>1. IssueOf[s] \in Issues
      BY SessionAssumption
    <2>2. tree' \in [Issues -> {"none", "clean", "dirty"}]
      <3>1. CASE Prepare(s)
        BY <2>1, <3>1 DEF Prepare
      <3>2. CASE Abort(s)
        BY <2>1, <3>2 DEF Abort
      <3>3. CASE Retire(s) \/ RetireReattached(s)
        BY <2>1, <3>3 DEF Retire, RetireReattached, SweptTree
      <3> QED BY <1>3, <3>1, <3>2, <3>3
    <2>3. stage' \in [Sessions -> Stages]
      <3>1. \E to \in {"ready", "done"} : stage' = [stage EXCEPT ![s] = to]
        BY <1>3 DEF Abort, Retire, RetireReattached, Prepare
      <3> QED BY <3>1 DEF Stages
    <2> QED BY <1>0, <1>3, <2>2, <2>3
        DEF Abort, Retire, RetireReattached, Prepare, guardVars, textVars, killVars
  <1>4. CASE Kill(s) \/ KillGraceful(s) \/ Edit(s) \/ Exit(s)
    <2>1. CASE Kill(s) \/ KillGraceful(s)
      BY <1>0, <2>1 DEF Kill, KillGraceful, guardVars, textVars, killVars
    <2>2. CASE Edit(s) \/ Exit(s)
      <3>1. tree' \in [Issues -> {"none", "clean", "dirty"}]
        BY <2>2, SessionAssumption DEF Edit, Exit
      <3>2. proc' \in [Sessions -> {"none", "alive", "ok", "failed"}]
        BY <2>2 DEF Edit, Exit
      <3> QED BY <1>0, <2>2, <3>1, <3>2 DEF Edit, Exit, guardVars, textVars, killVars
    <2> QED BY <1>4, <2>1, <2>2
  <1>5. ASSUME NEW word \in Sentinels, Say(s, word)
        PROVE  TypeOK'
    <2>1. said'[s] = Append(said[s], word) /\ \A t \in Sessions \ {s} : said'[t] = said[t]
      BY <1>5 DEF Say
    <2>2. said' \in [Sessions -> Seq(Sentinels)]
      BY <1>5 DEF Say
    <2>3. \A t \in Sessions : Len(said[t]) <= Len(said'[t]) /\ Len(said[t]) \in Nat
      <3>1. said[s] \in Seq(Sentinels) /\ Len(said[s]) <= Len(said'[s])
        BY <2>1
      <3> QED BY <2>1, <3>1
    <2>4. /\ \A t \in Sessions : saved[t] <= read[t] /\ read[t] <= Len(said'[t])
          /\ \A t \in cut : saved[t] < Len(said'[t])
      <3>1. \A t \in Sessions : Len(said'[t]) \in Nat /\ read[t] \in Nat /\ saved[t] \in Nat
        BY <2>2
      <3> QED BY <2>3, <3>1
    <2> QED BY <1>0, <1>5, <2>2, <2>4 DEF Say, guardVars, textVars, killVars
  <1>6. CASE Flush(s) \/ FollowDead(s)
    <2>1. SaveOffset(s) /\ UNCHANGED <<said, read, split>> /\ Resumed(s)
      BY <1>6 DEF Flush, FollowDead, Life
    <2> QED BY <1>0, <1>6, <2>1, OffsetsKeep
        DEF Flush, FollowDead, guardVars, killVars, Stages
  <1>7. CASE Settle(s) \/ Classify(s)
    <2>1. SaveOffset(s) /\ UNCHANGED <<said, read, split>> /\ Resumed(s)
      BY <1>7 DEF Settle, Classify, Life
    <2>2. CASE Settle(s)
      <3>1. mem[s] \in Guarded \cup {"completed", "needs_pr"} /\ Dead(s)
        BY <2>2 DEF Settle, Life, InStep, Meaning, Closing, Guarded, Live
      <3>2. Verdict(s) \in States
        BY <3>1, VerdictTyped DEF States, Guarded
      <3> QED BY <1>0, <2>1, <2>2, <3>2, OffsetsKeep DEF Settle, guardVars, killVars, Stages
    <2>3. CASE Classify(s)
      BY <1>0, <2>1, <2>3, OffsetsKeep DEF Classify, guardVars, killVars, Stages, States
    <2> QED BY <1>7, <2>2, <2>3
  <1>8. CASE ReadLine(s)
    <2>1. read[s] \in Nat /\ said[s] \in Seq(Sentinels) /\ read[s] < Len(said[s])
      BY <1>8 DEF ReadLine
    <2>2. /\ read'[s] = read[s] + 1 /\ \A t \in Sessions \ {s} : read'[t] = read[t]
          /\ read' \in [Sessions -> Nat]
      BY <1>8, <2>1 DEF ReadLine
    <2>3. UNCHANGED <<said, saved, cut>> /\ split' \subseteq split
      BY <1>8 DEF ReadLine
    <2>4. /\ read'[s] <= Len(said[s]) /\ saved[s] <= read'[s]
          /\ \A t \in Sessions : saved[t] <= read'[t] /\ read'[t] <= Len(said[t])
      <3>1. saved[s] \in Nat /\ saved[s] <= read[s] /\ Len(said[s]) \in Nat
        BY <2>1
      <3>2. read'[s] <= Len(said[s]) /\ saved[s] <= read'[s]
        BY <2>1, <2>2, <3>1
      <3> QED BY <2>2, <3>2
    <2>5. CASE s \in split
      <3>1. s \in reattached
        BY <1>8, <2>5 DEF Life, Resumed, ReadLine
      <3> QED BY <1>0, <1>8, <2>2, <2>3, <2>4, <2>5, <3>1 DEF ReadLine, guardVars, killVars
    <2>6. CASE s \notin split
      <3> DEFINE word == said[s][read[s] + 1]
      <3>1. word \in Sentinels
        BY <2>1
      <3>2. Hear(s, word) /\ UNCHANGED missed
        BY <1>8, <2>6 DEF ReadLine
      <3>3. mem' \in [Sessions -> States] /\ row' \in [Sessions -> States]
        BY <3>1, <3>2, FeedTyped DEF Hear
      <3>4. pending' \in [Sessions -> BOOLEAN]
        BY <3>2 DEF Hear
      <3>5. /\ delivered' \subseteq Sessions
            /\ cancelled' \subseteq Sessions /\ autoKilled' \subseteq cancelled'
            /\ proc' \in [Sessions -> {"none", "alive", "ok", "failed"}]
        BY <3>2 DEF Hear, KillAfterPROpened, killVars, Zombies
      <3> QED BY <1>0, <1>8, <2>2, <2>3, <2>4, <3>2, <3>3, <3>4, <3>5 DEF ReadLine, guardVars
    <2> QED BY <2>5, <2>6
  <1> QED BY <1>1, <1>2, <1>3, <1>4, <1>5, <1>6, <1>7, <1>8 DEF Conductor, Worker, User
-----------------------------------------------------------------------------
\* One session after the other.

LEMMA CalmSteps ==
  ASSUME LifeInv, NEW s \in Sessions,
         Unreserve(s) \/ ForceKill(s) \/ Edit(s) \/ Exit(s) \/ Kill(s) \/ KillGraceful(s)
  PROVE  \A t \in Sessions : Life(t)'
PROOF
  <1> SUFFICES ASSUME NEW t \in Sessions PROVE Life(t)'
    OBVIOUS
  <1> USE DEF LifeInv
  <1>1. UNCHANGED <<stage, mem, row, said, textVars, autoKilled, reattached, freed, registered>>
    BY DEF Unreserve, ForceKill, Edit, Exit, Kill, KillGraceful, killVars, textVars
  <1>2. cancelled \subseteq cancelled'
    BY DEF Unreserve, ForceKill, Edit, Exit, Kill, KillGraceful, killVars
  <1>3. proc'[t] = proc[t] \/ (proc[t] = "alive" /\ proc'[t] \in {"ok", "failed"})
    BY DEF Unreserve, ForceKill, Edit, Exit, Kill, KillGraceful, TypeOK
  <1>4. Calm(t)
    BY <1>1, <1>2, <1>3 DEF Calm, textVars
  <1>5. Stopped(t)'
    BY <1>1, StoppedKeeps DEF TypeOK
  <1> QED BY <1>4, <1>5, CalmKeeps

\* What the steps of session s leave alone: another session t.
LEMMA OthersCalm ==
  ASSUME LifeInv, NEW s \in Sessions, NEW t \in Sessions \ {s},
         \/ Prepare(s) \/ Guard(s) \/ StartProcess(s) \/ SaveRow(s) \/ Register(s) \/ Abort(s)
         \/ Flush(s) \/ Settle(s) \/ ReleaseSlot(s) \/ Retire(s)
         \/ Reattach(s) \/ FollowCancelled(s) \/ FollowDead(s) \/ Classify(s)
         \/ RetireReattached(s) \/ \E word \in Sentinels : Say(s, word)
  PROVE  Life(t)'
PROOF
  <1> USE DEF LifeInv
  <1>1. /\ stage'[t] = stage[t] /\ mem'[t] = mem[t] /\ row'[t] = row[t] /\ said'[t] = said[t]
        /\ read'[t] = read[t] /\ saved'[t] = saved[t] /\ pending'[t] = pending[t]
        /\ proc'[t] = proc[t]
    <2>1. CASE Prepare(s) \/ Guard(s) \/ StartProcess(s) \/ SaveRow(s) \/ Register(s) \/ Abort(s)
      <3>1. /\ \E to : stage' = [stage EXCEPT ![s] = to]
            /\ UNCHANGED <<said, textVars>>
        BY <2>1 DEF Prepare, Guard, StartProcess, SaveRow, Register, Abort
      <3>2. /\ proc'[t] = proc[t] /\ mem'[t] = mem[t] /\ row'[t] = row[t]
        BY <2>1 DEF Prepare, Guard, StartProcess, SaveRow, Register, Abort, TypeOK
      <3> QED BY <3>1, <3>2 DEF textVars, TypeOK
    <2>2. CASE Flush(s) \/ Settle(s) \/ FollowDead(s) \/ Classify(s)
      BY <2>2 DEF Flush, Settle, FollowDead, Classify, SaveOffset, TypeOK
    <2>3. CASE ReleaseSlot(s) \/ Retire(s) \/ Reattach(s) \/ FollowCancelled(s)
               \/ RetireReattached(s)
      BY <2>3 DEF ReleaseSlot, Retire, Reattach, FollowCancelled, RetireReattached, textVars, TypeOK
    <2>4. CASE \E word \in Sentinels : Say(s, word)
      BY <2>4 DEF Say, textVars, TypeOK
    <2> QED BY <2>1, <2>2, <2>3, <2>4
  <1>2. /\ t \in reattached' <=> t \in reattached
        /\ t \in freed' <=> t \in freed
        /\ t \in registered' => t \in registered
        /\ reattached \subseteq reattached'
        /\ UNCHANGED <<split, missed, delivered, killVars>>
    <2>1. CASE Prepare(s) \/ Guard(s) \/ StartProcess(s) \/ SaveRow(s) \/ Register(s) \/ Abort(s)
      BY <2>1 DEF Prepare, Guard, StartProcess, SaveRow, Register, Abort, textVars
    <2>2. CASE Flush(s) \/ Settle(s) \/ FollowDead(s) \/ Classify(s)
      BY <2>2 DEF Flush, Settle, FollowDead, Classify
    <2>3. CASE ReleaseSlot(s) \/ Retire(s) \/ Reattach(s) \/ FollowCancelled(s)
               \/ RetireReattached(s)
      BY <2>3 DEF ReleaseSlot, Retire, Reattach, FollowCancelled, RetireReattached, textVars
    <2>4. CASE \E word \in Sentinels : Say(s, word)
      BY <2>4 DEF Say, textVars
    <2> QED BY <2>1, <2>2, <2>3, <2>4
  <1>3. Calm(t)
    BY <1>1, <1>2 DEF Calm, killVars
  <1>4. Stopped(t)'
    BY <1>1, <1>2, StoppedKeeps DEF killVars, TypeOK
  <1> QED BY <1>3, <1>4, CalmKeeps

\* The spawn path: nothing has been read, and the row is the first one.
LEMMA SpawnSteps ==
  ASSUME LifeInv, NEW s \in Sessions,
         Prepare(s) \/ Guard(s) \/ StartProcess(s) \/ SaveRow(s) \/ Register(s) \/ Abort(s)
  PROVE  Life(s)'
PROOF
  <1>0. Life(s) /\ stage \in [Sessions -> Stages]
    BY DEF LifeInv, TypeOK
  <1>1. UNCHANGED <<said, textVars, killVars, reattached, freed>>
    BY DEF Prepare, Guard, StartProcess, SaveRow, Register, Abort
  <1>2. Stopped(s)'
    BY <1>0, <1>1, StoppedKeeps DEF killVars, LifeInv, TypeOK
  <1>3. CASE Prepare(s) \/ Guard(s) \/ Abort(s)
    <2>1. /\ stage'[s] \in {"ready", "done", "reserved", "failing"}
          /\ stage[s] \in {"fresh", "ready", "failing"}
          /\ stage'[s] \in Unstarted => stage[s] \in Unstarted
      BY <1>0, <1>3 DEF Prepare, Guard, Abort, Unstarted
    <2>2. UNCHANGED <<mem, row, proc, registered>>
      BY <1>3 DEF Prepare, Guard, Abort
    <2>7. Blank(s)' /\ Taken(s)' /\ Recorded(s)' /\ InStep(s)'
      BY <1>0, <1>1, <2>1, <2>2
      DEF Life, Blank, Taken, Recorded, InStep, Heard, Unstarted, Reading, Over, textVars, Closing
    <2>8. Told(s)' /\ Asked(s)' /\ PRHeard(s)' /\ Resumed(s)'
      BY <1>0, <1>1, <2>1, <2>2
      DEF Life, Blank, Told, Asked, PRHeard, Resumed, InStep, Heard, LastWord, Unstarted, Reading,
          Closing, textVars
    <2>9. Judged(s)' /\ GivenBack(s)' /\ Faithful(s)'
      BY <1>0, <1>1, <2>1, <2>2 DEF Life, Judged, GivenBack, Faithful, Over, Unstarted,
                                    Dead, textVars
    <2> QED BY <1>2, <2>7, <2>8, <2>9 DEF Life
  <1>4. CASE StartProcess(s)
    <2>1. /\ stage[s] = "reserved" /\ UNCHANGED <<row, registered>>
          /\ \/ stage'[s] = "started" /\ mem'[s] = "running" /\ proc'[s] = "alive"
             \/ stage'[s] = "failing" /\ mem'[s] = mem[s] /\ proc'[s] = proc[s]
      BY <1>0, <1>4 DEF StartProcess, LifeInv, TypeOK
    <2>2. said[s] = <<>> /\ read[s] = 0 /\ ~pending[s]
      BY <1>0, <2>1 DEF Life, Blank, Unstarted
    <2>3. s \notin freed /\ s \notin split
      BY <1>0, <2>1 DEF Life, GivenBack, Over, Resumed, Taken, Unstarted
    <2>7. Blank(s)' /\ Taken(s)' /\ Recorded(s)' /\ InStep(s)'
      BY <1>0, <1>1, <2>1, <2>2, <2>3
      DEF Life, Blank, Taken, Recorded, InStep, Heard, Unstarted, Reading, Over, textVars, Closing
    <2>8. Told(s)' /\ Asked(s)' /\ PRHeard(s)' /\ Resumed(s)'
      BY <1>0, <1>1, <2>1, <2>2, <2>3
      DEF Life, Blank, Told, Asked, PRHeard, Resumed, InStep, Heard, LastWord, Unstarted, Reading,
          Closing, textVars
    <2>9. Judged(s)' /\ GivenBack(s)' /\ Faithful(s)'
      BY <1>0, <1>1, <2>1, <2>2, <2>3 DEF Life, Judged, GivenBack, Faithful, Over, Unstarted,
                                    Dead, textVars
    <2> QED BY <1>2, <2>7, <2>8, <2>9 DEF Life
  <1>5. CASE SaveRow(s)
    <2>1. /\ stage[s] = "started" /\ stage'[s] = "saved" /\ UNCHANGED <<mem, proc, registered>>
          /\ row'[s] = mem[s]
      BY <1>0, <1>5 DEF SaveRow, LifeInv, TypeOK
    <2>2. s \notin freed /\ s \notin split
      BY <1>0, <2>1 DEF Life, GivenBack, Over, Resumed, Taken, Unstarted
    <2>3. read[s] = 0 /\ ~pending[s] /\ row'[s] = "running"
      <3>1. read[s] = 0 /\ ~pending[s] /\ mem[s] = row'[s]
        BY <1>0, <2>1 DEF Life, Blank, Recorded
      <3>2. Heard(s) \notin Closing /\ ~ \E n \in 1 .. read[s] : said[s][n] = "ask"
        BY <3>1 DEF Heard, Closing
      <3>3. mem[s] = "running"
        BY <1>0, <2>1, <3>2 DEF Life, InStep
      <3> QED BY <3>1, <3>3
    <2>4. LastWord(s) \in Closing => read[s] # Len(said[s])
      <3>1. said[s] \in Seq(Sentinels)
        BY DEF LifeInv, TypeOK
      <3> QED BY <2>3, <3>1 DEF LastWord, Closing
    <2>5. UNCHANGED <<read, pending, said, split, missed, saved, delivered, reattached>>
      BY <1>1 DEF textVars
    <2>7. Blank(s)' /\ Taken(s)' /\ Recorded(s)' /\ InStep(s)'
      BY <1>0, <1>1, <2>1, <2>2
      DEF Life, Blank, Taken, Recorded, InStep, Heard, Unstarted, Reading, Over, textVars, Closing
    <2>8. Told(s)' /\ Asked(s)' /\ PRHeard(s)' /\ Resumed(s)'
      BY <1>0, <2>1, <2>3, <2>4, <2>5 DEF Life, Told, Asked, PRHeard, Resumed, LastWord, Live
    <2>9. Judged(s)' /\ GivenBack(s)' /\ Faithful(s)'
      BY <1>0, <1>1, <2>1, <2>2 DEF Life, Judged, GivenBack, Faithful, Over, Unstarted,
                                    Dead, textVars
    <2> QED BY <1>2, <2>7, <2>8, <2>9 DEF Life
  <1>6. CASE Register(s)
    <2>1. stage[s] = "saved" /\ stage'[s] = "tailing" /\ UNCHANGED <<mem, row, proc>>
      BY <1>0, <1>6 DEF Register
    <2>2. s \notin freed
      BY <1>0, <2>1 DEF Life, GivenBack, Over
    <2>3. read[s] = 0 /\ ~pending[s] /\ row'[s] = "running"
      <3>1. read[s] = 0 /\ ~pending[s] /\ mem[s] = row'[s]
        BY <1>0, <2>1 DEF Life, Blank, Recorded
      <3>2. Heard(s) \notin Closing /\ ~ \E n \in 1 .. read[s] : said[s][n] = "ask"
        BY <3>1 DEF Heard, Closing
      <3>3. mem[s] = "running"
        BY <1>0, <2>1, <3>2 DEF Life, InStep
      <3> QED BY <3>1, <3>3
    <2>4. LastWord(s) \in Closing => read[s] # Len(said[s])
      <3>1. said[s] \in Seq(Sentinels)
        BY DEF LifeInv, TypeOK
      <3> QED BY <2>3, <3>1 DEF LastWord, Closing
    <2>5. UNCHANGED <<read, pending, said, split, missed, saved, delivered, reattached>>
      BY <1>1 DEF textVars
    <2>7. Blank(s)' /\ Taken(s)' /\ Recorded(s)' /\ InStep(s)'
      BY <1>0, <1>1, <2>1, <2>2
      DEF Life, Blank, Taken, Recorded, InStep, Heard, Unstarted, Reading, Over, textVars, Closing
    <2>8. Told(s)' /\ Asked(s)' /\ PRHeard(s)' /\ Resumed(s)'
      BY <1>0, <2>1, <2>3, <2>4, <2>5 DEF Life, Told, Asked, PRHeard, Resumed, LastWord, Live
    <2>9. Judged(s)' /\ GivenBack(s)' /\ Faithful(s)'
      BY <1>0, <1>1, <2>1, <2>2 DEF Life, Judged, GivenBack, Faithful, Over, Unstarted,
                                    Dead, textVars
    <2> QED BY <1>2, <2>7, <2>8, <2>9 DEF Life
  <1> QED BY <1>3, <1>4, <1>5, <1>6
\* Steps that move on without a verdict: nothing that was read or recorded changes.
LEMMA MovingSteps ==
  ASSUME LifeInv, NEW s \in Sessions,
         \/ Flush(s) \/ FollowDead(s) \/ FollowCancelled(s) \/ Reattach(s)
         \/ ReleaseSlot(s) \/ Retire(s) \/ RetireReattached(s)
  PROVE  Life(s)'
PROOF
  <1>0. Life(s) /\ stage \in [Sessions -> Stages] /\ saved \in [Sessions -> Nat]
    BY DEF LifeInv, TypeOK
  <1>1. /\ UNCHANGED <<mem, row, proc, said, read, split, missed, pending, delivered, killVars>>
        /\ reattached \subseteq reattached'
        /\ saved'[s] = saved[s] \/ saved'[s] = read[s]
    BY <1>0 DEF Flush, FollowDead, FollowCancelled, Reattach, ReleaseSlot, Retire,
                RetireReattached, SaveOffset, textVars
  <1>2. Stopped(s)'
    BY <1>0, <1>1, StoppedKeeps DEF killVars, LifeInv, TypeOK
  \* From where to where.
  <1>3. \/ /\ stage[s] \in {"tailing", "following"} /\ stage'[s] = stage[s]
           /\ UNCHANGED <<reattached, registered, freed>>
        \/ /\ stage[s] = "following" /\ stage'[s] \in {"classifying", "done"}
           /\ stage'[s] = "classifying" => Dead(s)
           /\ UNCHANGED <<reattached, freed>> /\ registered' \subseteq registered
        \/ /\ stage[s] = "boot" /\ stage'[s] \in {"following", "classifying"}
           /\ stage'[s] = "following" <=> proc[s] = "alive"
           /\ s \in reattached' /\ UNCHANGED <<freed, saved>>
        \/ /\ stage[s] = "settled" /\ stage'[s] = "freed"
           /\ UNCHANGED <<reattached, registered, saved>> /\ freed' = freed \cup {s}
        \/ /\ stage[s] \in Over /\ stage'[s] = "done" /\ s \notin registered'
           /\ s \in freed' => stage[s] = "settled" \/ s \in freed
           /\ UNCHANGED <<reattached, saved>>
    BY <1>0 DEF Flush, FollowDead, FollowCancelled, Reattach, ReleaseSlot, Retire,
                RetireReattached, textVars, Over
  <1>4. stage[s] = "boot" => proc[s] \in {"alive", "ok", "failed"}
    BY <1>0 DEF Life, Blank, Unstarted, LifeInv, TypeOK
  <1>5. Blank(s)' /\ Taken(s)' /\ Recorded(s)' /\ InStep(s)'
    BY <1>0, <1>1, <1>3, <1>4
    DEF Life, Dead, Blank, Taken, Recorded, InStep, Heard, Unstarted, Reading, Over
  <1>6. Told(s)' /\ Asked(s)' /\ PRHeard(s)' /\ Resumed(s)'
    BY <1>0, <1>1, <1>3
    DEF Life, Told, Asked, PRHeard, Resumed, LastWord, Reading, Over, Taken
  <1>7. Judged(s)' /\ GivenBack(s)' /\ Faithful(s)'
    BY <1>0, <1>1, <1>3
    DEF Life, Judged, GivenBack, Faithful, LastWord, Printed, Dead, Over, Taken, killVars
  <1> QED BY <1>2, <1>5, <1>6, <1>7 DEF Life
LEMMA LastHeard ==
  ASSUME LifeInv, NEW s \in Sessions
  PROVE  /\ Heard(s) \in Closing => read[s] = Len(said[s])
         /\ read[s] = Len(said[s]) => Heard(s) = LastWord(s)
PROOF
  <1>1. /\ said[s] \in Seq(Sentinels) /\ read[s] \in Nat /\ read[s] <= Len(said[s])
        /\ ClosingIsLast
    BY DEF LifeInv, TypeOK, IInv
  <1>2. read[s] \in 1 .. Len(said[s]) - 1 => said[s][read[s]] \notin Closing
    BY <1>1 DEF ClosingIsLast
  <1>3. "" \notin Closing
    BY DEF Closing
  <1>4. Heard(s) \in Closing => read[s] = Len(said[s])
    <2>1. Len(said[s]) \in Nat
      BY <1>1
    <2>2. Heard(s) \in Closing => read[s] # 0 /\ said[s][read[s]] \in Closing
      BY <1>3 DEF Heard
    <2> QED BY <1>1, <1>2, <2>1, <2>2
  <1>5. read[s] = Len(said[s]) => Heard(s) = LastWord(s)
    <2>1. said[s] = <<>> <=> Len(said[s]) = 0
      BY <1>1
    <2> QED BY <2>1 DEF Heard, LastWord
  <1> QED BY <1>4, <1>5

LEMMA SettleStep ==
  ASSUME LifeInv, NEW s \in Sessions, Settle(s)
  PROVE  Life(s)'
PROOF
  <1>0. /\ Life(s) /\ stage \in [Sessions -> Stages] /\ saved \in [Sessions -> Nat]
        /\ mem \in [Sessions -> States] /\ row \in [Sessions -> States]
        /\ autoKilled \subseteq cancelled
    BY DEF LifeInv, TypeOK
  <1>1. /\ stage[s] = "tailing" /\ stage'[s] = "settled" /\ Dead(s)
        /\ read[s] = Len(said[s]) \/ s \in cancelled
        /\ mem'[s] = Verdict(s) /\ row'[s] = Verdict(s)
        /\ saved'[s] = saved[s] \/ saved'[s] = read[s]
        /\ saved'[s] = read[s]
        /\ UNCHANGED <<proc, said, read, split, missed, pending, delivered, killVars, reattached,
                       freed, registered>>
    BY <1>0 DEF Settle, SaveOffset
  <1>2. Stopped(s)'
    BY <1>0, <1>1, StoppedKeeps DEF killVars, LifeInv, TypeOK
  <1>3. IF Heard(s) \in Closing THEN mem[s] = Meaning(Heard(s))
        ELSE mem[s] = IF \E n \in 1 .. read[s] : said[s][n] = "ask" THEN "waiting" ELSE "running"
    BY <1>0, <1>1 DEF Life, InStep
  <1>4. Verdict(s) \in {"paused", "needs_pr", "completed", "failed"}
    BY <1>1, <1>3, VerdictTyped DEF Meaning, Closing, Guarded, Live
  <1>5. Verdict(s) = "paused" => mem[s] = "paused" /\ Heard(s) = "question"
    BY <1>1, <1>3 DEF Verdict, Terminal, Meaning, Closing, Dead
  <1>6. Blank(s)' /\ Taken(s)' /\ Recorded(s)' /\ InStep(s)'
    BY <1>0, <1>1 DEF Life, Blank, Taken, Recorded, InStep, Unstarted, Over, Dead
  <1>7. Told(s)' /\ Asked(s)' /\ PRHeard(s)' /\ Resumed(s)'
    BY <1>0, <1>1, <1>4, <1>5, LastHeard
    DEF Life, Told, Asked, PRHeard, Resumed, LastWord, Meaning, Reading, Over, Loadable, Guarded,
        Live, Closing, Taken
  <1>8. Judged(s)' /\ GivenBack(s)'
    BY <1>0, <1>1, <1>4, <1>5, LastHeard
    DEF Life, Judged, GivenBack, Dead, Over, Loadable, Guarded, Live, Closing, killVars
  <1>9. Faithful(s)'
    <2> SUFFICES ASSUME s \notin cancelled PROVE Faithful(s)'
      BY <1>1 DEF Faithful, killVars
    <2>1. Verdict(s) = Terminal(mem[s], proc[s])
      BY <1>0 DEF Verdict
    <2>2. read[s] = Len(said[s]) /\ Heard(s) = LastWord(s)
      BY <1>1, LastHeard
    <2>3. Printed(s, "ask") <=> \E n \in 1 .. read[s] : said[s][n] = "ask"
      <3>1. said[s] \in Seq(Sentinels)
        BY DEF LifeInv, TypeOK
      <3> QED BY <2>2, <3>1 DEF Printed
    <2>4. s \notin reattached
      BY <1>0, <1>1 DEF Life, Taken
    <2> QED BY <1>1, <1>3, <2>1, <2>2, <2>3, <2>4
        DEF Faithful, Terminal, Meaning, Closing, LastWord, Printed, Dead
  <1> QED BY <1>2, <1>6, <1>7, <1>8, <1>9 DEF Life

LEMMA ClassifyStep ==
  ASSUME LifeInv, NEW s \in Sessions, Classify(s)
  PROVE  Life(s)'
PROOF
  <1>0. /\ Life(s) /\ stage \in [Sessions -> Stages] /\ saved \in [Sessions -> Nat]
        /\ mem \in [Sessions -> States] /\ row \in [Sessions -> States]
    BY DEF LifeInv, TypeOK
  <1> DEFINE end == IF mem[s] \in KeptStates THEN mem[s] ELSE "failed"
  <1>1. /\ stage[s] = "classifying" /\ stage'[s] = "settled" /\ read[s] = Len(said[s])
        /\ mem'[s] = end /\ row'[s] = end /\ saved'[s] = read[s]
        /\ UNCHANGED <<proc, said, read, split, missed, pending, delivered, killVars, reattached,
                       freed, registered>>
    BY <1>0 DEF Classify, SaveOffset
  <1>2. Stopped(s)'
    BY <1>0, <1>1, StoppedKeeps DEF killVars, LifeInv, TypeOK
  <1>3. Dead(s) /\ s \in reattached /\ mem[s] = row[s]
    BY <1>0, <1>1 DEF Life, Taken, Recorded, Reading
  <1>4. end \in {"completed", "blocked", "failed", "paused"} /\ (end \in Guarded => end = row[s])
    BY <1>3 DEF KeptStates, Guarded, Live
  <1> HIDE DEF end
  <1>5. Blank(s)' /\ Taken(s)' /\ Recorded(s)' /\ InStep(s)'
    BY <1>0, <1>1, <1>3 DEF Life, Blank, Taken, Recorded, InStep, Unstarted, Over, Dead
  <1>6. Told(s)' /\ Asked(s)' /\ PRHeard(s)' /\ Resumed(s)'
    BY <1>0, <1>1, <1>4
    DEF Life, Told, Asked, PRHeard, Resumed, LastWord, Reading, Over, Loadable
  <1>7. Judged(s)' /\ GivenBack(s)'
    BY <1>0, <1>1, <1>3, <1>4 DEF Life, Judged, GivenBack, Dead, Over, Loadable, Live
  <1>8. Faithful(s)'
    BY <1>0, <1>1, <1>3
    DEF end, Life, Faithful, Told, Meaning, Closing, LastWord, Reading, KeptStates, Live, Over
  <1> QED BY <1>2, <1>5, <1>6, <1>7, <1>8 DEF Life
LEMMA SayStep ==
  ASSUME LifeInv, NEW s \in Sessions, NEW word \in Sentinels, Say(s, word)
  PROVE  Life(s)'
PROOF
  <1>0. /\ Life(s) /\ said[s] \in Seq(Sentinels) /\ read[s] \in Nat /\ read[s] <= Len(said[s])
        /\ Len(said[s]) \in Nat /\ said'[s] = Append(said[s], word)
        /\ proc[s] = "alive" /\ LastWord(s) \notin Closing /\ word \in Says[s]
        /\ UNCHANGED <<stage, registered, mem, row, proc, textVars, killVars, reattached, freed>>
    BY DEF LifeInv, TypeOK, Say
  <1>1. /\ Len(said'[s]) = Len(said[s]) + 1 /\ LastWord(s)' = word
        /\ \A n \in 1 .. Len(said[s]) : said'[s][n] = said[s][n]
        /\ said'[s][Len(said[s]) + 1] = word
    <2>1. /\ Len(said'[s]) = Len(said[s]) + 1 /\ said'[s] # <<>>
          /\ \A n \in 1 .. Len(said[s]) : said'[s][n] = said[s][n]
          /\ said'[s][Len(said[s]) + 1] = word
      BY <1>0
    <2> QED BY <2>1 DEF LastWord
  <1>2. /\ read'[s] = read[s] /\ read[s] # Len(said'[s])
        /\ \A n \in 1 .. read[s] : said'[s][n] = said[s][n]
    BY <1>0, <1>1 DEF textVars
  <1>3. Heard(s)' = Heard(s)
    <2>1. read[s] # 0 => said'[s][read[s]] = said[s][read[s]]
      BY <1>0, <1>2
    <2> QED BY <1>2, <2>1 DEF Heard
  <1>4. ~pending[s] /\ stage[s] \notin Unstarted \cup Over /\ s \notin freed
    BY <1>0 DEF Life, Asked, Blank, Judged, GivenBack, Dead, Closing
  <1>5. Stopped(s)'
    BY <1>0, StoppedKeeps DEF killVars
  <1>6. Blank(s)' /\ Taken(s)'
    BY <1>0, <1>4 DEF Life, Blank, Taken, Dead, textVars
  <1>7. Recorded(s)'
    <2>1. \A n \in 1 .. Len(said'[s]) : said'[s][n] \in Says[s]
      <3> SUFFICES ASSUME NEW n \in 1 .. Len(said'[s]) PROVE said'[s][n] \in Says[s]
        OBVIOUS
      <3>1. n \in 1 .. Len(said[s]) \/ n = Len(said[s]) + 1
        BY <1>0, <1>1
      <3> QED BY <1>0, <1>1, <3>1 DEF Life, Recorded
    <2> QED BY <1>0, <2>1 DEF Life, Recorded
  <1>8. InStep(s)'
    <2>1. (\E n \in 1 .. read[s] : said[s][n] = "ask")' <=> \E n \in 1 .. read[s] : said[s][n] = "ask"
      BY <1>0, <1>2 DEF textVars
    <2> QED BY <1>0, <1>3, <2>1 DEF Life, InStep
  <1>9. Told(s)' /\ Asked(s)' /\ PRHeard(s)' /\ Resumed(s)'
    <2>1. UNCHANGED <<read, saved, split, missed, pending, delivered>>
      BY <1>0 DEF textVars
    <2>2. Told(s)' /\ Asked(s)'
      BY <1>0, <1>1, <1>2, <1>4, <2>1 DEF Life, Told, Asked
    <2>3. PRHeard(s)' /\ Resumed(s)'
      BY <1>0, <1>2, <2>1 DEF Life, PRHeard, Resumed
    <2> QED BY <2>2, <2>3
  <1>10. Judged(s)' /\ GivenBack(s)' /\ Faithful(s)'
    BY <1>0, <1>4 DEF Life, Judged, GivenBack, Faithful
  <1> QED BY <1>5, <1>6, <1>7, <1>8, <1>9, <1>10 DEF Life

\* The stop that follows PR_OPENED: of the reader itself, or of a session that Reattach
\* has to do with, because two uninterrupted sessions do not share an issue's claim.
LEMMA StopHits ==
  ASSUME LifeInv, NEW s \in Sessions, NEW t \in Zombies(s),
         stage[s] \in Reading, read[s] < Len(said[s]), said[s][read[s] + 1] = "pr"
  PROVE  Printed(t, "pr") \/ \E u \in reattached : IssueOf[u] = IssueOf[t]
PROOF
  <1>0. /\ Life(s) /\ Life(t) /\ t \in Sessions /\ IInv
        /\ said[s] \in Seq(Sentinels) /\ read[s] \in Nat
        /\ t \in registered /\ IssueOf[t] = IssueOf[s] /\ Mode(t) = "execute" /\ mem[t] \in Live
    BY DEF LifeInv, TypeOK, Zombies
  <1>1. Printed(s, "pr") /\ "pr" \in Says[s]
    BY <1>0 DEF Printed, Life, Recorded
  <1>2. CASE s \in reattached \/ t \in reattached \/ t = s
    BY <1>0, <1>1, <1>2
  <1>3. CASE s \notin reattached /\ t \notin reattached /\ t # s
    <2>1. stage[s] = "tailing" /\ stage[t] \in {"tailing"} \cup Over
      BY <1>0, <1>3 DEF Life, Taken, Reading
    <2>2. stage[t] = "tailing"
      BY <1>0, <2>1 DEF Life, Judged, Recorded, Over
    <2>3. mem[s] \in Guarded
      BY <1>0, <2>1 DEF IInv, UnguardedIsOver
    <2>4. Claims(s) /\ Claims(t)
      BY <1>0, <2>1, <2>2, <2>3 DEF Claims, Guarded
    <2>5. Key(s) = Key(t)
      BY <1>0, <1>1, SkillAssumption DEF Key, Mode
    <2> QED BY <1>0, <1>3, <2>4, <2>5 DEF IInv, ClaimsExclusive
  <1> QED BY <1>2, <1>3
LEMMA ReadLineStep ==
  ASSUME LifeInv, NEW s \in Sessions, ReadLine(s)
  PROVE  \A t \in Sessions : Life(t)'
PROOF
  <1> DEFINE word == said[s][read[s] + 1]
             Stop(t) == /\ t \in Zombies(s) /\ word = "pr"
                        /\ cancelled' = cancelled \cup {t} /\ autoKilled' = autoKilled \cup {t}
                        /\ \/ UNCHANGED proc
                           \/ proc[t] = "alive" /\ proc' = [proc EXCEPT ![t] = "failed"]
  <1>0. /\ \A t \in Sessions : Life(t)
        /\ Life(s) /\ IInv /\ said[s] \in Seq(Sentinels) /\ read[s] \in Nat /\ saved[s] \in Nat
        /\ stage[s] \in Reading /\ read[s] < Len(said[s]) /\ saved[s] <= read[s]
        /\ UNCHANGED <<stage, registered, said, saved, reattached, freed>>
        /\ read'[s] = read[s] + 1 /\ split' = split \ {s}
        /\ mem \in [Sessions -> States] /\ row \in [Sessions -> States]
        /\ proc \in [Sessions -> {"none", "alive", "ok", "failed"}]
        /\ pending \in [Sessions -> BOOLEAN]
    BY DEF LifeInv, TypeOK, ReadLine, Reading
  <1>1. UNCHANGED <<killVars, proc>> \/ \E t \in Sessions : Stop(t)
    <2>1. KillAfterPROpened(s) /\ word = "pr"
          => UNCHANGED <<killVars, proc>> \/ \E t \in Sessions : Stop(t)
      BY DEF KillAfterPROpened, Zombies, LifeInv, TypeOK
    <2> QED BY <2>1 DEF ReadLine, Hear
  <1>2. ASSUME NEW t \in Sessions
        PROVE  /\ t \in cancelled => t \in cancelled'
               /\ proc'[t] = proc[t] \/ (proc[t] = "alive" /\ proc'[t] = "failed")
    BY <1>0, <1>1 DEF killVars
  <1>3. ASSUME NEW t \in Sessions
        PROVE  Stopped(t)'
    <2>1. CASE t \in autoKilled' => t \in autoKilled
      BY <1>0, <2>1, StoppedKeeps DEF LifeInv, TypeOK
    <2>2. CASE Stop(t)
      BY <1>0, <2>2, StopHits DEF Stopped, Printed
    <2> QED BY <1>1, <2>1, <2>2 DEF killVars
  \* The other sessions.
  <1>4. ASSUME NEW t \in Sessions \ {s}
        PROVE  Life(t)'
    <2>1. /\ mem'[t] = mem[t] /\ row'[t] = row[t] /\ pending'[t] = pending[t]
          /\ read'[t] = read[t]
          /\ t \in delivered' <=> t \in delivered
          /\ t \in missed' <=> t \in missed
      BY <1>0 DEF ReadLine, Hear, LifeInv, TypeOK
    <2>2. Calm(t)
      BY <1>0, <1>2, <2>1 DEF Calm
    <2> QED BY <1>0, <1>3, <2>2, CalmKeeps
  \* The reader.
  <1>5. /\ word \in Sentinels /\ word \in Says[s] /\ Len(said[s]) \in Nat
        /\ Heard(s)' = word /\ Heard(s) \notin Closing
        /\ word \in Closing => read'[s] = Len(said[s])
        /\ read'[s] = Len(said[s]) => LastWord(s) = word
    <2>1. read[s] + 1 \in 1 .. Len(said[s]) /\ Len(said[s]) \in Nat
      BY <1>0
    <2>2. word \in Sentinels /\ word \in Says[s] /\ Heard(s)' = word /\ Heard(s) \notin Closing
      <3>1. word \in Sentinels /\ word \in Says[s]
        BY <1>0, <2>1 DEF Life, Recorded
      <3>2. Heard(s)' = word
        <4>1. read'[s] # 0 /\ said'[s] = said[s] /\ read'[s] = read[s] + 1
          BY <1>0
        <4> QED BY <4>1 DEF Heard
      <3>3. Heard(s) \notin Closing
        BY <1>0, LastHeard
      <3> QED BY <3>1, <3>2, <3>3
    <2>3. word \in Closing => read[s] + 1 \notin 1 .. Len(said[s]) - 1
      BY <1>0 DEF IInv, ClosingIsLast
    <2>4. said[s] # <<>>
      BY <2>1
    <2> QED BY <1>0, <2>1, <2>2, <2>3, <2>4 DEF LastWord
  <1>6. s \notin freed /\ mem[s] = row[s]
    BY <1>0 DEF Life, GivenBack, Recorded, Reading, Over
  <1>7. Blank(s)' /\ Taken(s)'
    BY <1>0, <1>2 DEF Life, Blank, Taken, Reading, Unstarted, Dead
  <1>8. Judged(s)' /\ GivenBack(s)' /\ Faithful(s)'
    BY <1>0, <1>6 DEF Judged, GivenBack, Faithful, Reading, Over
  <1>9. Resumed(s)'
    BY <1>0 DEF Resumed
  <1>10. Recorded(s)' /\ InStep(s)' /\ Told(s)' /\ Asked(s)' /\ PRHeard(s)'
    <2>1. CASE s \in split
      <3>1. /\ s \in missed' /\ s \in reattached
            /\ UNCHANGED <<mem, row, pending>>
        BY <1>0, <2>1 DEF ReadLine, Life, Resumed, Reading
      <3> QED BY <1>0, <3>1
          DEF Life, Recorded, InStep, Told, Asked, PRHeard, Taken, Reading, LastWord
    <2>2. CASE s \notin split
      <3>1. /\ mem'[s] = Feed(mem[s], pending[s], word) /\ row'[s] = Feed(mem[s], pending[s], word)
            /\ pending'[s] = (pending[s] \/ word = "question")
            /\ word = "pr" => s \in delivered'
            /\ delivered \subseteq delivered' /\ missed' = missed
        BY <1>0, <2>2 DEF ReadLine, Hear
      <3>2. Recorded(s)'
        BY <1>0, <1>6, <3>1 DEF Life, Recorded
      <3>3. PRHeard(s)'
        <4>1. \A n \in 1 .. read'[s] : n \in 1 .. read[s] \/ n = read[s] + 1
          BY <1>0
        <4> QED BY <1>0, <3>1, <4>1 DEF Life, PRHeard
      \* A question is still waiting only when its worker has said no more.
      <3>4. pending[s] => mem[s] = "paused" /\ LastWord(s) = "question"
        BY <1>0, <1>6 DEF Life, Told, Asked
      <3>5. pending[s] => word \in {"pr", "question"}
        <4>1. pending[s] => "question" \in Says[s]
          <5>1. pending[s] => said[s] # <<>> /\ said[s][Len(said[s])] = "question"
            BY <3>4 DEF LastWord
          <5>2. said[s] # <<>> => Len(said[s]) \in 1 .. Len(said[s])
            BY <1>0
          <5> QED BY <1>0, <5>1, <5>2 DEF Life, Recorded
        <4> QED BY <1>5, <3>4, <4>1, SkillAssumption DEF Closing, Sentinels
      <3>6. Asked(s)'
        BY <1>0, <1>5, <3>1, <3>4 DEF Asked, LastWord, Closing
      <3>7. InStep(s)'
        <4> SUFFICES ASSUME stage[s] = "tailing" PROVE InStep(s)'
          BY <1>0 DEF InStep, Reading
        <4>1. mem[s] = IF \E n \in 1 .. read[s] : said[s][n] = "ask" THEN "waiting" ELSE "running"
          BY <1>0, <1>5 DEF Life, InStep
        <4>2. ~pending[s]
          BY <3>4, <4>1
        <4>3. (\E n \in 1 .. read[s] : said[s][n] = "ask")'
              <=> word = "ask" \/ \E n \in 1 .. read[s] : said[s][n] = "ask"
          <5>1. 1 .. read'[s] = (1 .. read[s]) \cup {read[s] + 1}
            BY <1>0
          <5> QED BY <1>0, <5>1
        <4>4. mem'[s] = IF word \in Closing THEN Meaning(word)
                        ELSE IF word = "ask" THEN "waiting" ELSE mem[s]
          BY <1>5, <3>1, <4>2 DEF Feed, Meaning, Closing, Sentinels
        <4> QED BY <1>0, <1>5, <4>1, <4>3, <4>4 DEF InStep
      <3>8. Told(s)'
        <4>1. LastWord(s)' = LastWord(s)
          BY <1>0 DEF LastWord
        <4>2. LastWord(s) \notin Closing => row'[s] \in Live
          <5>1. LastWord(s) \notin Closing => word \notin Closing /\ mem[s] \in Live
            BY <1>0, <1>5, <1>6 DEF Life, Told
          <5> QED BY <1>5, <3>1, <5>1 DEF Feed, Closing, Sentinels, Live
        <4>3. read'[s] = Len(said[s]) /\ LastWord(s) \in Closing => row'[s] = Meaning(LastWord(s))
          BY <1>5, <3>1, <3>4 DEF Feed, Closing, Meaning
        <4>4. pending'[s] => row'[s] = "paused"
          BY <3>1, <3>4, <3>5 DEF Feed
        <4> QED BY <1>0, <4>1, <4>2, <4>3, <4>4 DEF Told
      <3> QED BY <3>2, <3>3, <3>6, <3>7, <3>8
    <2> QED BY <2>1, <2>2
  <1> QED BY <1>3, <1>4, <1>7, <1>8, <1>9, <1>10 DEF Life
\* A crash forgets what was not written down, and the reader goes back to the saved offset.
LEMMA RestartTypes ==
  ASSUME LifeInv, IInv', Restart
  PROVE  TypeOK'
PROOF
  <1> USE DEF LifeInv, TypeOK
  <1>1. (inFlight = {Key(t) : t \in reserving})'
    BY DEF IInv, ReservationsHeld
  <1>2. read' \in [Sessions -> Nat] /\ \A s \in Sessions : saved[s] <= read'[s] /\ read'[s] <= Len(said[s])
    <2>1. \A s \in Sessions : read'[s] = saved[s] \/ read'[s] = read[s]
      BY DEF Restart, ResumeFrom
    <2>2. \A s \in Sessions : /\ said[s] \in Seq(Sentinels) /\ read[s] \in Nat /\ saved[s] \in Nat
                             /\ saved[s] <= read[s] /\ read[s] <= Len(said[s])
      OBVIOUS
    <2>3. read' \in [Sessions -> Nat]
      BY DEF Restart, ResumeFrom
    <2>4. \A s \in Sessions : saved[s] <= saved[s] /\ saved[s] <= Len(said[s])
      BY <2>2
    <2> QED BY <2>1, <2>2, <2>3, <2>4
  <1>3. stage' \in [Sessions -> Stages]
    <2>1. \A s \in Sessions : stage'[s] \in {"boot", "fresh", "done"}
      BY DEF Restart
    <2> QED BY <2>1 DEF Restart, Stages
  <1>4. proc' \in [Sessions -> {"none", "alive", "ok", "failed"}]
    BY DEF Restart
  <1>5. UNCHANGED <<row, said, saved, cut, missed, pending, delivered, reattached, freed, tree>>
        /\ mem' = row
    BY DEF Restart
  <1>6. /\ reserving' = {} /\ registered' = {} /\ split' \subseteq cut
        /\ autoKilled' \subseteq cancelled' /\ cancelled' \subseteq cancelled
        /\ restarts' \in 0 .. MaxRestarts
    BY SessionAssumption DEF Restart
  <1> QED BY <1>1, <1>2, <1>3, <1>4, <1>5, <1>6

LEMMA RestartStep ==
  ASSUME LifeInv, Restart, NEW s \in Sessions
  PROVE  Life(s)'
PROOF
  <1>0. /\ Life(s) /\ said[s] \in Seq(Sentinels) /\ read[s] \in Nat /\ saved[s] \in Nat
        /\ saved[s] <= read[s] /\ read[s] <= Len(said[s])
    BY DEF LifeInv, TypeOK
  <1>1. /\ IF row[s] \in Loadable THEN stage'[s] = "boot" /\ read'[s] = saved[s]
           ELSE /\ (stage'[s] = "fresh" /\ stage[s] = "fresh") \/ stage'[s] = "done"
                /\ read'[s] = read[s]
        /\ mem'[s] = row[s] /\ s \notin registered'
        /\ s \in split' => row[s] \in Loadable
        /\ proc'[s] = proc[s] \/ (proc[s] = "alive" /\ proc'[s] = "failed")
        /\ s \in autoKilled' => s \in autoKilled
        /\ UNCHANGED <<row, said, saved, missed, pending, delivered, reattached, freed>>
    BY DEF Restart, ResumeFrom, LifeInv, TypeOK
  <1>2. read'[s] <= read[s] /\ (read'[s] = Len(said[s]) => read[s] = Len(said[s]))
        /\ read'[s] \in Nat
    BY <1>0, <1>1
  <1>3. Stopped(s)'
    BY <1>0, <1>1, StoppedKeeps
  <1>4. Blank(s)' /\ Taken(s)' /\ Recorded(s)' /\ InStep(s)'
    BY <1>0, <1>1
    DEF Life, Blank, Taken, Recorded, InStep, Unstarted, Reading, Over, Loadable, Guarded, Live
  <1>5. Told(s)' /\ Asked(s)'
    BY <1>0, <1>1, <1>2 DEF Life, Told, Asked, LastWord, Reading
  <1>6. PRHeard(s)' /\ Resumed(s)'
    <2>1. \A n \in 1 .. read'[s] : n \in 1 .. read[s]
      BY <1>0, <1>2
    <2> QED BY <1>0, <1>1, <2>1 DEF Life, PRHeard, Resumed
  <1>7. Judged(s)' /\ GivenBack(s)' /\ Faithful(s)'
    BY <1>0, <1>1 DEF Life, Judged, GivenBack, Faithful, Dead, Over, Blank
  <1> QED BY <1>3, <1>4, <1>5, <1>6, <1>7 DEF Life

-----------------------------------------------------------------------------
LEMMA InitLife == Init => LifeInv
PROOF
  <1> SUFFICES ASSUME Init PROVE LifeInv
    OBVIOUS
  <1>1. TypeOK
    <2>1. 0 \in 0 .. MaxRestarts
      BY SessionAssumption
    <2>2. \A s \in Sessions : Len(said[s]) = 0 /\ said[s] \in Seq(Sentinels)
      BY DEF Init
    <2> QED BY <2>1, <2>2 DEF Init, TypeOK, Stages, States
  <1>2. ASSUME NEW s \in Sessions
        PROVE  Life(s)
    <2>1. /\ stage[s] = "fresh" /\ row[s] = "none" /\ proc[s] = "none" /\ said[s] = <<>> /\ read[s] = 0
          /\ saved[s] = 0 /\ ~pending[s]
          /\ s \notin reattached \cup registered \cup split \cup freed \cup autoKilled \cup missed
      BY DEF Init
    <2>2. Blank(s) /\ Taken(s) /\ Recorded(s) /\ InStep(s)
      BY <2>1 DEF Blank, Taken, Recorded, InStep, Unstarted, Reading, Over, Loadable, Guarded, Live
    <2>3. Told(s) /\ Asked(s) /\ PRHeard(s) /\ Resumed(s)
      BY <2>1 DEF Told, Asked, PRHeard, Resumed, Reading, Loadable, Guarded, Live
    <2>4. Judged(s) /\ GivenBack(s) /\ Faithful(s) /\ Stopped(s)
      BY <2>1 DEF Judged, GivenBack, Faithful, Stopped, Over
    <2> QED BY <2>2, <2>3, <2>4 DEF Life
  <1> QED BY <1>1, <1>2, InitIInv DEF LifeInv

LEMMA NextLife == LifeInv /\ [Next]_vars => LifeInv'
PROOF
  <1> SUFFICES ASSUME LifeInv, [Next]_vars PROVE LifeInv'
    OBVIOUS
  <1>0. IInv'
    BY NextIInv DEF LifeInv
  <1>1. ASSUME NEW s \in Sessions, Conductor(s) \/ Worker(s) \/ User(s)
        PROVE  LifeInv'
    <2>1. TypeOK'
      BY <1>0, <1>1, TypesOfSteps
    <2>2. CASE \/ Unreserve(s) \/ ForceKill(s) \/ Edit(s) \/ Exit(s) \/ Kill(s) \/ KillGraceful(s)
               \/ ReadLine(s)
      BY <1>0, <2>1, <2>2, CalmSteps, ReadLineStep DEF LifeInv
    <2>3. CASE \/ Prepare(s) \/ Guard(s) \/ StartProcess(s) \/ SaveRow(s) \/ Register(s) \/ Abort(s)
               \/ Flush(s) \/ Settle(s) \/ ReleaseSlot(s) \/ Retire(s)
               \/ Reattach(s) \/ FollowCancelled(s) \/ FollowDead(s) \/ Classify(s)
               \/ RetireReattached(s) \/ \E word \in Sentinels : Say(s, word)
      <3>1. \A t \in Sessions \ {s} : Life(t)'
        BY <2>3, OthersCalm
      <3>2. Life(s)'
        BY <2>3, SpawnSteps, MovingSteps, SettleStep, ClassifyStep, SayStep
      <3> QED BY <1>0, <2>1, <3>1, <3>2 DEF LifeInv
    <2> QED BY <1>1, <2>2, <2>3 DEF Conductor, Worker, User
  <1>2. CASE Restart
    BY <1>0, <1>2, RestartTypes, RestartStep DEF LifeInv
  <1>3. CASE UNCHANGED vars
    <2>1. UNCHANGED <<stage, inFlight, reserving, registered, mem, row, proc, said, read, saved, cut,
                      split, missed, pending, delivered, cancelled, autoKilled, reattached, freed,
                      tree, restarts>>
      BY <1>3 DEF vars, guardVars, textVars, killVars
    <2>2. TypeOK'
      BY <2>1 DEF LifeInv, TypeOK, Key, Mode
    <2>3. ASSUME NEW t \in Sessions PROVE Life(t)'
      <3>1. Stopped(t)'
        BY <2>1, StoppedKeeps DEF LifeInv, TypeOK
      <3> QED BY <2>1, <3>1, CalmKeeps DEF Calm, LifeInv
    <2> QED BY <1>0, <2>2, <2>3 DEF LifeInv
  <1> QED BY <1>1, <1>2, <1>3 DEF Next

\* What is known of every session, from its reservation to its slot's return (spawnWithDir,
\* tailAndParse, followLive, Reattach).
THEOREM LifeInvariance == Spec => []LifeInv
PROOF
  <1>1. Init => LifeInv
    BY InitLife
  <1>2. LifeInv /\ [Next]_vars => LifeInv'
    BY NextLife
  <1> QED BY <1>1, <1>2, PTL DEF Spec

\* The fields of a session keep their types; reservations are the keys of the spawns in
\* progress, the offsets stay within the transcript, and a sentinel is only ever cut by a save.
THEOREM SessionTypes == Spec => []TypeOK
BY LifeInvariance, PTL DEF LifeInv

\* A slot that has been given back belongs to a worker that has exited and whose row
\* no longer counts as running, in this run of the conductor or after any restart.
THEOREM SlotsOfTheDead == Spec => []FreedSlotIsOver
PROOF
  <1>1. LifeInv => FreedSlotIsOver
    BY DEF LifeInv, Life, GivenBack, FreedSlotIsOver, TypeOK, Dead
  <1> QED BY <1>1, LifeInvariance, PTL

\* A PR that was announced is recorded before the conductor judges the session.
THEOREM PRsDelivered == Spec => []PROpenedDelivered
PROOF
  <1>1. ASSUME LifeInv, NEW s \in Sessions,
               stage[s] \in {"settled", "freed"}, s \notin cancelled \cup missed, Printed(s, "pr")
        PROVE  s \in delivered
    <2>1. Life(s) /\ said[s] \in Seq(Sentinels)
      BY <1>1 DEF LifeInv, TypeOK
    <2>2. read[s] = Len(said[s])
      BY <1>1, <2>1 DEF Life, Judged, Over
    <2> QED BY <1>1, <2>1, <2>2 DEF Life, PRHeard, Printed
  <1>2. LifeInv => PROpenedDelivered
    BY <1>1 DEF PROpenedDelivered
  <1> QED BY <1>2, LifeInvariance, PTL

\* The last word of a worker that nobody stopped decides its final state, however often
\* the conductor restarted while it worked.
THEOREM LastWordDecides == Spec => []OutcomeFaithful
PROOF
  <1>1. LifeInv => OutcomeFaithful
    BY DEF LifeInv, Life, Faithful, OutcomeFaithful, Over
  <1> QED BY <1>1, LifeInvariance, PTL

\* The stop after PR_OPENED hits a worker that announced a PR, except where Reattach has
\* taken over a worker of the issue.
THEOREM StopsTheSpeaker == Spec => []AutoKillHitsSpeaker
PROOF
  <1>1. LifeInv => AutoKillHitsSpeaker
    BY DEF LifeInv, Life, Stopped, AutoKillHitsSpeaker, TypeOK
  <1> QED BY <1>1, LifeInvariance, PTL
=============================================================================
