----------------------------- MODULE WorkerStream -----------------------------
(***************************************************************************)
(* What a worker says and does, from its output to the state of its session. *)
(* The output is a file of stream-json events, written by the conductor's    *)
(* own tool loop or by the Claude CLI; a tail loop feeds it to a parser that *)
(* makes lines of it, and a line that begins with a sentinel changes the     *)
(* session.  A text is a sequence of pieces: the sentinel, the two halves of *)
(* what follows it, the end of the line.                                     *)
(***************************************************************************)
EXTENDS Naturals, Sequences, SequencesExt

CONSTANTS Strategies, \* how the worker runs: "harness", "cli"
          MaxTurns,   \* the turn cap; bound: messages of a CLI worker
          MaxTokens,  \* the cap on input tokens
          Tears,      \* the tail may read an event that is half written
          Leftovers   \* a command may leave a process behind that keeps its output open

WorkerStreamAssumption ==
  /\ Strategies \subseteq {"harness", "cli"} /\ MaxTurns \in Nat \ {0}
  /\ MaxTokens \in Nat \ {0} /\ Tears \in BOOLEAN /\ Leftovers \in BOOLEAN

Sentinels == {"ask", "blocked", "needs_pr", "complete"}
Said(w)   == IF w \in {"complete", "plain"} THEN <<w>> ELSE <<w, "a", "b">>
Own       == <<"blocked", "own">> \* the loop's own BLOCKED line

VARIABLES
  strategy, phase, \* where the loop is, or "cli"
  todo,            \* tool calls of the reply that are still to be made
  rest,            \* what the CLI is still to write of its message
  turns, tokens,
  stuck,           \* the call under way does not come back by itself: "no", "yes", "ever"
  err,             \* harnessErr, or the exit code
  how,             \* history: why the worker ended
  last,            \* history: the last sentinel that counts, with what follows it
  cancelled,       \* the session's context
  events, half,    \* the transcript; its last event is half written
  at, pending,     \* events read; the parser's text in flight
  sess             \* [state, reason, question, over]

loop == <<phase, todo, rest, turns, tokens, stuck, err, how>>
file == <<events, half>>
tail == <<at, pending, sess>>
vars == <<strategy, loop, last, cancelled, file, tail>>
-----------------------------------------------------------------------------
\* The events.

Event(type, text) == [type |-> type, text |-> text]

\* assistantMessage: a text gets a newline at its end and is closed at once.
Message(text, calls) ==
  (IF text = <<>> THEN <<>>
   ELSE <<Event("text", Append(text, "nl")), Event("stop", <<>>)>>)
  \o (IF calls = 0 THEN <<>> ELSE <<Event("tools", <<>>)>>)

Emit(new) == events' = events \o new /\ half' = FALSE

\* A question that is asked while another is pending does not count.
Counts(line) ==
  IF line = <<>> \/ line[1] \notin Sentinels \/ (line[1] = "ask" /\ last.asked)
  THEN last ELSE [line |-> line, asked |-> last.asked \/ line[1] = "ask"]
-----------------------------------------------------------------------------
\* The parser and the sentinels.

Line(text) == IF Last(text) = "nl" THEN Front(text) ELSE text

\* Feed: a text is heard with what was in flight before it, as a whole line if it ends
\* one, else as a live line; no text goes on after the end of a line.  Any other event
\* gives what was in flight.  A torn one passes through as it is.
Feed(text, event) ==
  CASE event.type = "text" ->
         LET new == text \o event.text
         IN  [line |-> Line(new), pending |-> IF Last(new) = "nl" THEN <<>> ELSE new]
    [] event.type = "torn" -> [line |-> <<>>, pending |-> text]
    [] OTHER -> [line |-> text, pending |-> <<>>]

\* matchPatterns on one line, live or whole; an empty one is not passed on.
Hear(s, line) ==
  IF line = <<>> THEN s ELSE
  CASE line[1] = "ask" ->
         IF Tail(line) = <<>> \/ s.question # <<>> THEN s
         ELSE [s EXCEPT !.state = "paused", !.question = Tail(line)]
    [] line[1] = "complete" -> [s EXCEPT !.state = "completed"]
    [] line[1] = "needs_pr" -> [s EXCEPT !.state = "needs_pr", !.reason = Tail(line)]
    [] line[1] = "blocked"  -> [s EXCEPT !.state = "blocked", !.reason = Tail(line)]
    [] OTHER -> s
-----------------------------------------------------------------------------
\* The tool loop.

End(why, problem, new) ==
  /\ phase' = "ended" /\ how' = why /\ err' = problem /\ stuck' = "no" /\ todo' = 0
  /\ Emit(new)
  /\ UNCHANGED <<rest, turns, tokens>>

\* Mutation: a run that reaches its turn cap just stops.
EndBlockedSilently(why) ==
  End(why, FALSE, IF why = "turns" THEN <<Event("done", <<>>)>>
                  ELSE Message(Own, 0) \o <<Event("done", <<>>)>>) /\ last' = Counts(Own)

EndBlocked(why) ==
  End(why, FALSE, Message(Own, 0) \o <<Event("done", <<>>)>>) /\ last' = Counts(Own)

Fail(why) == End(why, TRUE, <<>>) /\ UNCHANGED last

Loop(step) == strategy = "harness" /\ step /\ UNCHANGED <<strategy, cancelled, tail>>

\* The system prompt is put together, or the skill is missing.
Begin ==
  /\ phase = "start"
  /\ \/ phase' = "top" /\ Emit(<<Event("init", <<>>)>>)
        /\ UNCHANGED <<todo, rest, turns, tokens, stuck, err, how, last>>
     \/ EndBlocked("skill")

Turn ==
  /\ phase = "top"
  /\ \/ turns = MaxTurns /\ EndBlocked("turns")
     \/ turns < MaxTurns /\ cancelled /\ Fail("cancelled")
     \/ /\ turns < MaxTurns /\ ~cancelled
        /\ phase' = "asking" /\ turns' = turns + 1
        /\ UNCHANGED <<todo, rest, tokens, stuck, err, how, last, file>>

\* ToolChat returns: an answer, an error of the provider, or its time is up.
Reply(text, calls) ==
  /\ Emit(Message(text, calls) \o (IF calls = 0 THEN <<Event("done", <<>>)>> ELSE <<>>))
  /\ last' = Counts(text) /\ todo' = calls
  /\ \E used \in {0, 1} : tokens' = tokens + used
  /\ phase' = IF calls = 0 THEN "ended" ELSE "calling"
  /\ how' = IF calls = 0 THEN "stopped" ELSE how
  /\ UNCHANGED <<rest, turns, stuck, err>>

Answer ==
  /\ phase = "asking"
  /\ \/ /\ stuck = "no"
        /\ \/ \E w \in Sentinels \cup {"plain"}, calls \in {0, 1} : Reply(Said(w), calls)
           \/ Reply(<<>>, 1)
           \/ EndBlocked("provider")
           \/ Fail("timeout")
     \/ cancelled /\ Fail("cancelled")

\* Mutation: a call under way does not notice that the session is cancelled.
CallDeaf ==
  /\ phase = "calling" /\ todo > 0 /\ stuck = "no"
  /\ \/ cancelled /\ Fail("cancelled")
     \/ /\ Emit(<<Event("result", <<>>)>>) /\ todo' = todo - 1
        /\ UNCHANGED <<phase, rest, turns, tokens, stuck, err, how, last>>

\* A call of a tool.
Call ==
  /\ phase = "calling" /\ todo > 0
  /\ \/ cancelled /\ stuck = "no" /\ Fail("cancelled")
     \/ /\ stuck = "no" \/ (cancelled /\ stuck = "yes")
        /\ Emit(<<Event("result", <<>>)>>)
        /\ todo' = todo - 1 /\ stuck' = "no"
        /\ UNCHANGED <<phase, rest, turns, tokens, err, how, last>>

\* After the last call of a turn.
Called ==
  /\ phase = "calling" /\ todo = 0
  /\ \/ tokens >= MaxTokens /\ EndBlocked("tokens")
     \/ /\ tokens < MaxTokens /\ phase' = "top"
        /\ UNCHANGED <<todo, rest, turns, tokens, stuck, err, how, last, file>>

\* A provider or a tool that does not come back; a command's process can be killed,
\* one that the command has left behind keeps Run waiting for its output.
GetStuck ==
  /\ phase = "asking" \/ (phase = "calling" /\ todo > 0)
  /\ stuck = "no"
  /\ stuck' \in {"yes"} \cup (IF Leftovers /\ phase = "calling" THEN {"ever"} ELSE {})
  /\ UNCHANGED <<phase, todo, rest, turns, tokens, err, how, last, file>>

Panic == phase \in {"asking", "calling"} /\ stuck = "no" /\ Fail("panic")
-----------------------------------------------------------------------------
\* The CLI writes its messages in deltas of any length, and exits.

Cli(step) == strategy = "cli" /\ phase = "cli" /\ step /\ UNCHANGED <<strategy, cancelled, tail>>

CliSay(w) ==
  /\ rest = <<>> /\ turns < MaxTurns
  /\ rest' = Append(Said(w), "nl") /\ turns' = turns + 1
  /\ last' = Counts(Said(w))
  /\ UNCHANGED <<phase, todo, tokens, stuck, err, how, file>>

CliDelta(n) ==
  /\ n <= Len(rest)
  /\ events' = Append(events, Event("text", SubSeq(rest, 1, n)))
  /\ half' = Tears
  /\ rest' = SubSeq(rest, n + 1, Len(rest))
  /\ UNCHANGED <<phase, todo, turns, tokens, stuck, err, how, last>>

\* The rest of an event reaches the file; if its beginning has been read, as a line
\* of its own.
CliWhole ==
  /\ half /\ half' = FALSE
  /\ events' = IF at = Len(events) THEN Append(events, Event("torn", <<>>)) ELSE events
  /\ UNCHANGED <<phase, todo, rest, turns, tokens, stuck, err, how, last>>

CliExit ==
  /\ rest = <<>> /\ ~half
  /\ \E problem \in BOOLEAN : End("exit", problem, <<Event("stop", <<>>)>>)
  /\ UNCHANGED last
-----------------------------------------------------------------------------
\* The tail loop, the watchdog and the user.

\* Half an event at the end of the file is taken for a line.
ReadEvent ==
  /\ at < Len(events) /\ ~sess.over
  /\ at' = at + 1
  /\ LET torn == half /\ at' = Len(events)
         fed  == Feed(pending, IF torn THEN Event("torn", <<>>) ELSE events[at'])
     IN  pending' = fed.pending /\ sess' = Hear(sess, fed.line)
  /\ UNCHANGED <<strategy, loop, last, cancelled, file>>

\* mapTerminalState
Terminal(state, problem) ==
  CASE state \in {"paused", "needs_pr"} -> state
    [] state = "blocked" -> "failed"
    [] OTHER -> IF problem THEN "failed" ELSE "completed"

\* The worker is over and its output read, unless the context is cancelled.
Settle ==
  /\ phase = "ended" /\ ~sess.over
  /\ at = Len(events) \/ cancelled
  /\ sess' = [sess EXCEPT !.state = Terminal(@, err), !.over = TRUE]
  /\ UNCHANGED <<strategy, loop, last, cancelled, file, at, pending>>

Cancel == cancelled' = TRUE /\ UNCHANGED <<strategy, last, file, tail>>

\* KillGraceful and Kill: a CLI process ends by the signal.
Kill ==
  /\ ~sess.over /\ Cancel
  /\ IF phase = "cli"
     THEN phase' = "ended" /\ how' = "killed" /\ err' = TRUE
          /\ UNCHANGED <<todo, rest, turns, tokens, stuck>>
     ELSE UNCHANGED loop

\* runWatchdogScan: a running session has been silent for fifteen minutes.
Watchdog ==
  /\ sess.state = "running" /\ ~sess.over /\ ~cancelled
  /\ stuck # "no" /\ at = Len(events)
  /\ Cancel /\ UNCHANGED loop
-----------------------------------------------------------------------------
Init ==
  /\ strategy \in Strategies
  /\ phase = (IF strategy = "cli" THEN "cli" ELSE "start")
  /\ todo = 0 /\ rest = <<>> /\ turns = 0 /\ tokens = 0 /\ stuck = "no"
  /\ err = FALSE /\ how = "none" /\ last = [line |-> <<"none">>, asked |-> FALSE]
  /\ cancelled = FALSE /\ events = <<>> /\ half = FALSE
  /\ at = 0 /\ pending = <<>>
  /\ sess = [state |-> "running", reason |-> <<>>, question |-> <<>>, over |-> FALSE]

Goroutine == Loop(Begin \/ Turn \/ Answer \/ Call \/ Called)
TailLoop  == ReadEvent \/ Settle

Next ==
  \/ Goroutine \/ Loop(GetStuck) \/ Loop(Panic)
  \/ Cli((\E w \in Sentinels : CliSay(w)) \/ (\E n \in 1..4 : CliDelta(n)) \/ CliWhole \/ CliExit)
  \/ TailLoop \/ Kill \/ Watchdog

\* The loop and the tail are goroutines, the watchdog has a ticker; a provider, a
\* tool and a CLI worker need not go on.
Fairness == WF_vars(Goroutine) /\ WF_vars(TailLoop) /\ WF_vars(Watchdog)

Spec     == Init /\ [][Next]_vars
FairSpec == Spec /\ Fairness
-----------------------------------------------------------------------------
TypeOK ==
  /\ strategy \in Strategies
  /\ phase \in {"start", "top", "asking", "calling", "ended", "cli"}
  /\ turns \in 0..MaxTurns /\ tokens \in 0..MaxTurns /\ todo \in 0..1
  /\ stuck \in {"no", "yes", "ever"} /\ (stuck # "no" => phase \in {"asking", "calling"})
  /\ {err, cancelled, half, sess.over} \subseteq BOOLEAN
  /\ (how = "none") = (phase # "ended")
  /\ at \in 0..Len(events)
  /\ sess.state \in {"running", "paused", "completed", "needs_pr", "blocked", "failed"}

\* A session that nobody cancelled ends in the state that the worker's last sentinel
\* and its end call for, with the whole of the reason given there; and a run that the
\* loop itself cut short (a cap, the provider, a missing skill) ends as failed and says
\* so (harness.go:55-61, manager.go:1385-1413).
EndingTold ==
  sess.over /\ ~cancelled =>
    /\ sess.state = CASE last.line[1] = "ask"      -> "paused"
                      [] last.line[1] = "needs_pr" -> "needs_pr"
                      [] last.line[1] = "blocked"  -> "failed"
                      [] OTHER -> IF err THEN "failed" ELSE "completed"
    /\ last.line[1] \in {"blocked", "needs_pr"} => sess.reason = Tail(last.line)
    /\ how \in {"skill", "turns", "provider", "tokens"} =>
         sess.state = "failed" /\ sess.reason = Tail(Own)

\* A call that does not come back while its session shows as running is ended by the
\* watchdog, and the session with it (watchdog.go:10-13).
WatchdogEnds ==
  (stuck # "no" /\ at = Len(events) /\ sess.state = "running") ~> sess.over

\* manager.go:1445-1456: the id of the question is the one the worker has printed.
QuestionWhole == sess.question \in {<<>>, <<"a", "b">>}

\* harness.go:55-56: the loop ends when the model has printed a sentinel.
SentinelEndsLoop ==
  [][phase = "top" /\ phase' = "asking" => last.line[1] \notin {"ask", "needs_pr", "complete"}]_vars

\* watchdog.go:24-25: every run ends.
EveryRunEnds == strategy = "harness" => <>(sess.over)
===============================================================================
