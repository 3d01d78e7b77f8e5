----------------------------- MODULE RemoteStream -----------------------------
(***************************************************************************)
(* A plan session that runs in a Cloudflare Durable Object, and the         *)
(* conductor that copies its transcript to a local file over server-sent    *)
(* events, reconnecting when the connection breaks.  Lines are numbered     *)
(* from 0, as the worker does.                                              *)
(***************************************************************************)
EXTENDS Integers, Sequences

CONSTANTS MaxLines,   \* bound: lines of the session
          MaxRetries, \* connections the conductor makes (maxRetries, 5 in the code)
          MaxFaults   \* bound: requests that are refused or get lost

ASSUME RemoteStreamAssumption ==
  MaxLines \in Nat \ {0} /\ MaxRetries \in Nat \ {0} /\ MaxFaults \in Nat

None    == -1
Lines   == 0..(MaxLines - 1)
Streams == 0..MaxRetries \* 0 is no stream

VARIABLES
  emitted,  \* the worker's transcript is the lines below
  over,     \* the worker has aborted its controller: the plan is over
  writer,   \* sseWriter
  conn,     \* [stream -> at, end: the backlog to send; mode; pipe: lines under way]
  pc,       \* the conductor: "spawn", "connect", "read", or how the session ended
  attempt,  \* connections made
  last,     \* lastEventID
  got,      \* lines in the transcript file
  twice,    \* history: a line was written a second time
  unheard,  \* history: lines emitted while the stream in use was not the one written to
  faults

worker == <<emitted, over, writer, unheard>>
client == <<pc, attempt, last, got, twice>>
vars   == <<worker, conn, client, faults>>

Fault == faults < MaxFaults /\ faults' = faults + 1
Ended == pc \in {"done", "failed", "killed", "refused"}

\* A stream is cut when the conductor has let go of it; the worker hears of it later.
Current == IF pc = "read" THEN attempt ELSE 0

Stream(mode) == [at |-> 0, end |-> 0, mode |-> mode, pipe |-> <<>>]
-----------------------------------------------------------------------------
\* The worker.

Send(c, line) == IF c = 0 THEN conn ELSE [conn EXCEPT ![c].pipe = Append(@, line)]

\* emit: to the one stream that is written to, if any.
Emit ==
  /\ pc # "spawn" /\ ~over /\ emitted < MaxLines
  /\ emitted' = emitted + 1 /\ conn' = Send(writer, emitted)
  /\ unheard' = IF Current \in {0, writer} THEN unheard ELSE unheard \cup {emitted}
  /\ UNCHANGED <<over, writer, client, faults>>

\* Streams that wait for the end are closed, and none is written to from then on.  One
\* that still sends its backlog will wait for a signal that has been given already.
Abort ==
  /\ over' = TRUE
  /\ conn' = [c \in Streams |-> IF conn[c].mode = "live" THEN [conn[c] EXCEPT !.mode = "closed"] ELSE conn[c]]
  /\ writer' = IF \E c \in Streams : conn[c].mode = "live" THEN 0 ELSE writer

\* runPlan: whatever its end, the last it does is to abort.
FinishPlan == pc # "spawn" /\ ~over /\ emitted > 0 /\ Abort /\ UNCHANGED <<emitted, unheard, client, faults>>

\* Mutation: the line that the conductor names is not sent again.
BacklogAfter(id) == id + 1

\* handleStream: an id that is missing counts as 0, and the line named is sent again.
BacklogFrom(id) == IF id = None THEN 0 ELSE id

\* One line of the backlog, or, when that is sent, the stream becomes the one written to.
Replay ==
  LET c == Current IN
  /\ conn[c].mode = "replay"
  /\ IF conn[c].at < conn[c].end
     THEN conn' = [Send(c, conn[c].at) EXCEPT ![c].at = @ + 1] /\ UNCHANGED writer
     ELSE conn' = [conn EXCEPT ![c].mode = IF over THEN "deaf" ELSE "live"] /\ writer' = c
  /\ UNCHANGED <<emitted, over, unheard, client, faults>>

\* The backlog of a stream that was cut: a write fails, or all succeed, before or after
\* the abort of the request.
ReplayToNobody(c) ==
  /\ conn[c].mode = "replay" /\ c # Current
  /\ \/ conn' = [conn EXCEPT ![c] = Stream("closed")] /\ UNCHANGED writer
     \/ /\ conn' = [conn EXCEPT ![c] = Stream(IF over THEN "deaf" ELSE "live")] /\ writer' = c
     \/ conn' = [conn EXCEPT ![c] = Stream("deaf")] /\ writer' = c
  /\ UNCHANGED <<emitted, over, unheard, client, faults>>

\* The abort of a request ends its stream, and with it whatever stream is written to.
HearsOfCut(c) ==
  /\ conn[c].mode = "live" /\ c # Current
  /\ conn' = [conn EXCEPT ![c] = Stream("closed")] /\ writer' = 0
  /\ UNCHANGED <<emitted, over, unheard, client, faults>>
-----------------------------------------------------------------------------
\* The conductor.

\* Spawn: without the answer to its POST the session is given up, and goes on in the worker.
Spawn ==
  /\ pc = "spawn"
  /\ \/ pc' = "connect" /\ UNCHANGED faults
     \/ pc' = "refused" /\ Fault
  /\ UNCHANGED <<worker, conn, attempt, last, got, twice>>

\* Mutation: a connection that is made starts the count anew.
AttemptsReset(n) == 0

AttemptsMade(n) == n

\* GET /sessions/:id/stream
Connect ==
  /\ pc = "connect" /\ attempt < MaxRetries
  /\ attempt' = AttemptsMade(attempt) + 1
  /\ \/ /\ pc' = "read" /\ UNCHANGED faults
        /\ conn' = [conn EXCEPT ![attempt'] =
                     [at |-> BacklogFrom(last), end |-> emitted, mode |-> "replay", pipe |-> <<>>]]
     \/ pc' = "connect" /\ Fault /\ UNCHANGED conn
  /\ UNCHANGED <<worker, last, got, twice>>

\* The status of the response is not looked at: an error has no events, and ends.
Refused ==
  /\ pc = "connect" /\ attempt < MaxRetries /\ Fault /\ pc' = "done"
  /\ UNCHANGED <<worker, conn, attempt, last, got, twice>>

GiveUp ==
  /\ pc = "connect" /\ attempt = MaxRetries /\ pc' = "failed"
  /\ UNCHANGED <<worker, conn, attempt, last, got, twice, faults>>

\* readSSE: the id is taken before the line is written.
ReadEvent ==
  /\ pc = "read" /\ conn[attempt].pipe # <<>>
  /\ last' = Head(conn[attempt].pipe) /\ got' = got \cup {last'} /\ twice' = (twice \/ last' \in got)
  /\ conn' = [conn EXCEPT ![attempt].pipe = Tail(@)]
  /\ UNCHANGED <<worker, pc, attempt, faults>>

\* The connection breaks, or has lasted 30 seconds: between two events, in the middle of
\* an id, or after an id whose line was not read.
Cut ==
  /\ pc = "read" /\ pc' = "connect"
  /\ conn' = [conn EXCEPT ![attempt] = Stream(@.mode)]
  /\ last' \in {last} \cup (IF conn[attempt].pipe = <<>> THEN {} ELSE {None, Head(conn[attempt].pipe)})
  /\ UNCHANGED <<worker, attempt, got, twice, faults>>

EndOfStream ==
  /\ pc = "read" /\ conn[attempt].pipe = <<>> /\ conn[attempt].mode = "closed"
  /\ pc' = "done"
  /\ UNCHANGED <<worker, conn, attempt, last, got, twice, faults>>

\* Kill, and DELETE /sessions/:id, whose failure nobody looks at.
Kill ==
  /\ pc \in {"connect", "read"} /\ pc' = "killed"
  /\ \/ ~over /\ Abort /\ UNCHANGED <<emitted, unheard, faults>>
     \/ Fault /\ UNCHANGED <<worker, conn>>
  /\ UNCHANGED <<attempt, last, got, twice>>
-----------------------------------------------------------------------------
Init ==
  /\ emitted = 0 /\ over = FALSE /\ writer = 0 /\ unheard = {}
  /\ conn = [c \in Streams |-> Stream("none")]
  /\ pc = "spawn" /\ attempt = 0 /\ last = None /\ got = {} /\ twice = FALSE
  /\ faults = 0

\* What the worker does after the conductor has ended reaches nobody.
Work == ~Ended /\ (Emit \/ FinishPlan \/ Replay \/ \E c \in Streams : ReplayToNobody(c) \/ HearsOfCut(c))
Copy == Spawn \/ Connect \/ Refused \/ GiveUp \/ ReadEvent \/ EndOfStream

Next == Work \/ Copy \/ Cut \/ Kill

Spec == Init /\ [][Next]_vars

\* The conductor goes on, its HTTP client breaks off any connection in the end, and the
\* plan comes to an end (the budget of the API call bounds it).
FairSpec == Spec /\ WF_vars(Copy) /\ WF_vars(Cut) /\ WF_vars(~Ended /\ FinishPlan)
-----------------------------------------------------------------------------
\* Type invariant.
TypeOK ==
  /\ emitted \in 0..MaxLines /\ over \in BOOLEAN /\ writer \in Streams
  /\ conn \in [Streams -> [at : 0..MaxLines, end : 0..MaxLines, pipe : Seq(Lines),
                           mode : {"none", "replay", "live", "deaf", "closed"}]]
  /\ pc \in {"spawn", "connect", "read", "done", "failed", "killed", "refused"}
  /\ attempt \in Streams /\ last \in Lines \cup {None} /\ got \subseteq Lines /\ twice \in BOOLEAN
  /\ unheard \subseteq Lines /\ faults \in 0..MaxFaults

\* No line is passed over: before a line is written to the local transcript, and before
\* a stream that was opened ends well, all lines before have been written, but for
\* those emitted while the worker was not writing to the stream in use.
NothingPassedOver ==
  \A i \in 0..(emitted - 1) \ unheard :
    (\/ \E j \in got : j > i
     \/ pc = "done" /\ faults = 0) => i \in got

\* Every remote session ends for the conductor, though a stream that is opened when the
\* plan is over never ends (SandboxSession.handleStream, streamToFile).
EndsHere == (pc # "spawn") ~> Ended

\* client.go:31-35 and :126: on a clean end of the stream the session is completed, and
\* the local transcript has what a local session's would have.
DoneMeansAll == pc = "done" => 0..(emitted - 1) \subseteq got

\* client.go:31-35, the same as for a local session: no line twice.
NoLineTwice == ~twice
===============================================================================
