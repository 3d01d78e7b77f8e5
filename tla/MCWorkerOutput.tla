---------------------------- MODULE MCWorkerOutput ----------------------------
(***************************************************************************)
(* What a worker says on its way to the conductor, in scenes of their own:  *)
(* over the event stream of a remote sandbox, and through the transcript of *)
(* a local worker into the state of its session.                            *)
(***************************************************************************)
EXTENDS RemoteStream

CONSTANTS Strategies, MaxTurns, MaxTokens, Tears, Leftovers

VARIABLES scene, strategy, phase, todo, rest, turns, tokens, stuck, err, how, said,
          cancelled, events, half, at, pending, sess

localVars == <<strategy, phase, todo, rest, turns, tokens, stuck, err, how, said,
               cancelled, events, half, at, pending, sess>>

Local == INSTANCE WorkerStream WITH last <- said

ASSUME OutputAssumption == Local!WorkerStreamAssumption

OutputInit ==
  /\ Init /\ Local!Init /\ scene \in {"remote"} \cup Strategies
  /\ strategy = IF scene = "remote" THEN CHOOSE any \in Strategies : TRUE ELSE scene

OutputNext ==
  \/ scene = "remote" /\ Next /\ UNCHANGED <<scene, localVars>>
  \/ scene # "remote" /\ Local!Next /\ UNCHANGED <<scene, vars>>

\* The fairness of RemoteStream and of WorkerStream; outside its scene an action is
\* disabled and asks for nothing.
OutputSpec ==
  /\ OutputInit /\ [][OutputNext]_<<scene, vars, localVars>>
  /\ WF_vars(scene = "remote" /\ Copy)
  /\ WF_vars(scene = "remote" /\ Cut)
  /\ WF_vars(scene = "remote" /\ ~Ended /\ FinishPlan)
  /\ WF_localVars(scene # "remote" /\ Local!Goroutine)
  /\ WF_localVars(scene # "remote" /\ Local!TailLoop)
  /\ WF_localVars(scene # "remote" /\ Local!Watchdog)

\* A session ends as its worker's last sentinel and its end call for (WorkerStream).
EndingTold == Local!EndingTold

\* A call that does not come back is ended by the watchdog (WorkerStream).
WatchdogEnds == Local!WatchdogEnds
===============================================================================
