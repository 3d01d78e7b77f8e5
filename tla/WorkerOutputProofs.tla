-------------------------- MODULE WorkerOutputProofs --------------------------
(****************************************************************************)
(* What a worker says arrives, whatever the number of lines, connections,   *)
(* faults and turns.                                                        *)
(* The transcript of a remote session (RemoteStream) is written without     *)
(* gaps.  What makes it so is told by the lines below some number (Below):  *)
(* all of them that the worker has sent to the stream in use are in the     *)
(* file or on their way to it, in front of the ones above.                  *)
(* A local session (WorkerStream) ends as its worker's last sentinel says.  *)
(* What makes it so are the sentinels that are in the file and not heard to *)
(* their end (marks), in the order of the file: the session is what the     *)
(* last one that counts calls for, or that one is still among the marks.    *)
(****************************************************************************)
EXTENDS MCWorkerOutput, SequenceTheorems, TLAPS

-----------------------------------------------------------------------------
\* The lines below n that the worker has not emitted to another stream are in lines.
Below(n, lines) == \A i \in 0..(emitted - 1) \ unheard : i < n => i \in lines

\* The first n lines under way in a pipe.
First(pipe, n) == {pipe[m] : m \in 1..n}

\* The lines of a stream that are in the file, or on their way to it.
Got(c) == got \cup First(conn[c].pipe, Len(conn[c].pipe))

\* Only streams that have been opened are used.
Opened ==
  /\ writer <= attempt
  /\ \A c \in Streams : (c = 0 \/ c > attempt) => conn[c].mode = "none"

\* What is in the file, and what the conductor will name when it connects again.
Written ==
  /\ got \subseteq 0..(emitted - 1) /\ last < emitted /\ unheard \subseteq 0..(emitted - 1)
  /\ \A j \in got : Below(j, got)
  /\ Below(last, got)

\* What comes on the stream in use.
Coming ==
  pc = "read" =>
    /\ attempt > 0 /\ conn[attempt].mode # "none"
    /\ \A k \in 1..Len(conn[attempt].pipe) :
         /\ conn[attempt].pipe[k] < emitted
         /\ Below(conn[attempt].pipe[k], got \cup First(conn[attempt].pipe, k - 1))
    /\ conn[attempt].mode = "replay" =>
         /\ writer # attempt
         /\ conn[attempt].at <= conn[attempt].end /\ conn[attempt].end <= emitted
         /\ Below(conn[attempt].at, Got(attempt))
         /\ conn[attempt].end..(emitted - 1) \subseteq unheard
    /\ conn[attempt].mode # "replay" => Below(emitted, Got(attempt))

Complete == pc = "done" /\ faults = 0 => Below(emitted, got)

StreamInv == TypeOK /\ Opened /\ Written /\ Coming /\ Complete

-----------------------------------------------------------------------------
\* Pipes.

LEMMA Appending ==
  ASSUME NEW S, NEW p \in Seq(S), NEW x \in S
  PROVE  LET q == Append(p, x)
         IN  /\ q \in Seq(S) /\ Len(q) = Len(p) + 1 /\ q[Len(p) + 1] = x
             /\ \A k \in 1..Len(p) : q[k] = p[k]
             /\ \A n \in 0..Len(p) : First(q, n) = First(p, n)
             /\ First(q, Len(q)) = First(p, Len(p)) \cup {x}
<1> DEFINE q == Append(p, x)
<1>1. q \in Seq(S) /\ Len(q) = Len(p) + 1 /\ q[Len(p) + 1] = x
  OBVIOUS
<1>2. \A k \in 1..Len(p) : q[k] = p[k]
  OBVIOUS
<1> HIDE DEF q
<1>3. Len(p) \in Nat
  OBVIOUS
<1>4. ASSUME NEW n \in 0..Len(p) PROVE First(q, n) = First(p, n)
  <2>1. \A m \in 1..n : m \in 1..Len(p)
    BY <1>3
  <2> QED BY <1>2, <2>1 DEF First
<1>5. First(q, Len(q)) = First(p, Len(p)) \cup {x}
  <2>1. \A m \in 1..(Len(p) + 1) : m \in 1..Len(p) \/ m = Len(p) + 1
    BY <1>3
  <2>2. \A m \in 1..Len(p) : m \in 1..(Len(p) + 1)
    BY <1>3
  <2>3. Len(p) + 1 \in 1..(Len(p) + 1)
    BY <1>3
  <2> QED BY <1>1, <1>2, <2>1, <2>2, <2>3 DEF First
<1> QED BY <1>1, <1>2, <1>4, <1>5 DEF q

LEMMA Reading ==
  ASSUME NEW S, NEW p \in Seq(S), p # <<>>
  PROVE  LET q == Tail(p)
         IN  /\ q \in Seq(S) /\ Head(p) \in S /\ Len(p) \in Nat \ {0} /\ Len(q) = Len(p) - 1
             /\ Head(p) = p[1]
             /\ \A k \in 1..Len(q) : q[k] = p[k + 1]
             /\ \A n \in 0..Len(q) : First(p, n + 1) = First(q, n) \cup {Head(p)}
<1> DEFINE q == Tail(p)
<1>1. /\ q \in Seq(S) /\ Head(p) \in S /\ Len(p) \in Nat \ {0} /\ Len(q) = Len(p) - 1
      /\ Head(p) = p[1]
  OBVIOUS
<1>2. \A k \in 1..Len(q) : q[k] = p[k + 1]
  OBVIOUS
<1> HIDE DEF q
<1>3. ASSUME NEW n \in 0..Len(q) PROVE First(p, n + 1) = First(q, n) \cup {Head(p)}
  <2>1. \A m \in 1..(n + 1) : m = 1 \/ (m - 1 \in 1..n /\ m - 1 \in 1..Len(q) /\ (m - 1) + 1 = m)
    BY <1>1
  <2>2. \A m \in 1..n : m + 1 \in 1..(n + 1) /\ m \in 1..Len(q)
    BY <1>1
  <2>3. 1 \in 1..(n + 1)
    BY <1>1
  <2>4. First(p, n + 1) \subseteq First(q, n) \cup {Head(p)}
    <3>1. ASSUME NEW m \in 1..(n + 1) PROVE p[m] \in First(q, n) \cup {Head(p)}
      <4>1. CASE m = 1
        BY <1>1, <4>1
      <4>2. CASE m # 1
        <5>1. m - 1 \in 1..n /\ q[m - 1] = p[m]
          BY <1>2, <2>1, <4>2
        <5> QED BY <5>1 DEF First
      <4> QED BY <4>1, <4>2
    <3> QED BY <3>1 DEF First
  <2>5. First(q, n) \cup {Head(p)} \subseteq First(p, n + 1)
    BY <1>1, <1>2, <2>2, <2>3 DEF First
  <2> QED BY <2>4, <2>5
<1> QED BY <1>1, <1>2, <1>3 DEF q

LEMMA LineRange ==
  ASSUME NEW h \in Lines, NEW e \in Nat, h < e
  PROVE  h \in 0..(e - 1)
BY RemoteStreamAssumption DEF Lines

LEMMA LineTyped ==
  ASSUME NEW p \in Seq(Lines)
  PROVE  \A k \in 1..Len(p) : p[k] \in Lines /\ p[k] \in Nat
<1>1. \A k \in 1..Len(p) : p[k] \in Lines
  OBVIOUS
<1>2. Lines \subseteq Nat
  BY RemoteStreamAssumption DEF Lines
<1> QED BY <1>1, <1>2

LEMMA EmptyPipe == <<>> \in Seq(Lines) /\ Len(<<>>) = 0 /\ First(<<>>, 0) = {}
BY DEF First

-----------------------------------------------------------------------------
\* The worker.

StreamRecords == [at : 0..MaxLines, end : 0..MaxLines, pipe : Seq(Lines),
                  mode : {"none", "replay", "live", "deaf", "closed"}]

LEMMA Typed ==
  TypeOK <=>
    /\ emitted \in 0..MaxLines /\ over \in BOOLEAN /\ writer \in Streams
    /\ conn \in [Streams -> StreamRecords]
    /\ pc \in {"spawn", "connect", "read", "done", "failed", "killed", "refused"}
    /\ attempt \in Streams /\ last \in Lines \cup {None} /\ got \subseteq Lines /\ twice \in BOOLEAN
    /\ unheard \subseteq Lines /\ faults \in 0..MaxFaults
BY DEF TypeOK, StreamRecords

LEMMA NewStream ==
  ASSUME NEW mode \in {"none", "replay", "live", "deaf", "closed"}
  PROVE  /\ Stream(mode) \in StreamRecords /\ Stream(mode).mode = mode /\ Stream(mode).pipe = <<>>
         /\ Stream(mode).at = 0 /\ Stream(mode).end = 0
<1>1. <<>> \in Seq(Lines) /\ 0 \in 0..MaxLines
  BY RemoteStreamAssumption
<1> QED BY <1>1 DEF Stream, StreamRecords

\* What the worker does with streams does not matter if the one in use keeps its lines.
LEMMA Untouched ==
  ASSUME StreamInv, TypeOK', Opened',
         UNCHANGED <<emitted, unheard, attempt, last, got>>,
         pc' = pc, pc # "done",
         pc = "read" =>
           /\ conn'[attempt].pipe = conn[attempt].pipe
           /\ \/ /\ conn[attempt].mode = "replay" /\ conn'[attempt].mode = "replay" /\ writer' # attempt
                 /\ conn'[attempt].at = conn[attempt].at /\ conn'[attempt].end = conn[attempt].end
              \/ /\ conn[attempt].mode # "replay" /\ conn'[attempt].mode \notin {"none", "replay"}
  PROVE  StreamInv'
<1>1. Written'
  BY DEF StreamInv, Written, Below
<1>2. Complete'
  BY DEF Complete
<1>3. Coming'
  BY DEF StreamInv, Coming, Below, Got, First
<1> QED BY <1>1, <1>2, <1>3 DEF StreamInv

\* A line that is emitted goes to the stream that is written to, if there is one.
LEMMA EmitStep ==
  ASSUME StreamInv, ~Ended, Emit
  PROVE  StreamInv'
<1>0. /\ TypeOK /\ Opened /\ Written /\ Coming /\ Complete
      /\ emitted < MaxLines /\ emitted' = emitted + 1 /\ conn' = Send(writer, emitted)
      /\ unheard' = IF Current \in {0, writer} THEN unheard ELSE unheard \cup {emitted}
      /\ UNCHANGED <<over, writer, pc, attempt, last, got, twice, faults>>
  BY DEF StreamInv, Emit, client
<1>1. /\ emitted \in Nat /\ emitted \in Lines /\ MaxLines \in Nat \ {0} /\ emitted + 1 \in 0..MaxLines
      /\ conn \in [Streams -> StreamRecords] /\ writer \in Streams /\ attempt \in Streams /\ attempt \in Nat
      /\ unheard \subseteq Lines
  BY <1>0, Typed, RemoteStreamAssumption DEF Lines, Streams
<1>2. PICK p \in Seq(Lines) : p = conn[writer].pipe
  BY <1>1 DEF StreamRecords
<1>3. PICK q : q = Append(p, emitted)
  OBVIOUS
<1>4. /\ q \in Seq(Lines) /\ Len(p) \in Nat /\ Len(q) = Len(p) + 1 /\ q[Len(p) + 1] = emitted
      /\ \A k \in 1..Len(p) : q[k] = p[k]
      /\ \A n \in 0..Len(p) : First(q, n) = First(p, n)
      /\ First(q, Len(q)) = First(p, Len(p)) \cup {emitted}
  <2>1. PICK e \in Lines : e = emitted
    BY <1>1
  <2>2. /\ q \in Seq(Lines) /\ Len(q) = Len(p) + 1 /\ q[Len(p) + 1] = e
        /\ \A k \in 1..Len(p) : q[k] = p[k]
        /\ \A n \in 0..Len(p) : First(q, n) = First(p, n)
        /\ First(q, Len(q)) = First(p, Len(p)) \cup {e}
    <3>1. q = Append(p, e)
      BY <1>3, <2>1
    <3> QED BY <3>1, Appending
  <2>3. Len(p) \in Nat
    BY <1>2
  <2> QED BY <2>1, <2>2, <2>3
<1>6. conn' \in [Streams -> StreamRecords] /\ \A c \in Streams : conn'[c].mode = conn[c].mode
                 /\ conn'[c].at = conn[c].at /\ conn'[c].end = conn[c].end
                 /\ conn'[c].pipe = IF c = writer /\ writer # 0 THEN q ELSE conn[c].pipe
  <2>1. CASE writer = 0
    <3>1. conn' = conn
      BY <1>0, <2>1 DEF Send
    <3> QED BY <1>1, <2>1, <3>1
  <2>2. CASE writer # 0
    <3>1. conn' = [conn EXCEPT ![writer].pipe = Append(@, emitted)]
      BY <1>0, <2>2 DEF Send
    <3>2. conn' = [conn EXCEPT ![writer] = [conn[writer] EXCEPT !.pipe = q]]
      BY <1>1, <1>2, <1>3, <3>1
    <3>3. PICK r : r = [conn[writer] EXCEPT !.pipe = q]
      OBVIOUS
    <3>4. /\ r \in StreamRecords /\ r.mode = conn[writer].mode /\ r.at = conn[writer].at
          /\ r.end = conn[writer].end /\ r.pipe = q
      <4>1. conn[writer] \in StreamRecords
        BY <1>1
      <4> QED BY <1>4, <3>3, <4>1 DEF StreamRecords
    <3>5. conn' = [conn EXCEPT ![writer] = r]
      BY <3>2, <3>3
    <3> QED BY <1>1, <2>2, <3>4, <3>5
  <2> QED BY <2>1, <2>2
<1>7. TypeOK'
  <2>1. unheard' \subseteq Lines
    BY <1>0, <1>1
  <2> QED BY <1>0, <1>1, <1>6, <2>1, Typed DEF TypeOK, StreamRecords
<1>8. Opened'
  BY <1>0, <1>6 DEF Opened
<1>9. \A i \in 0..(emitted' - 1) \ unheard' :
         i \in 0..(emitted - 1) \ unheard \/ (i = emitted /\ Current \in {0, writer})
  BY <1>0, <1>1
<1>10. Written'
  <2>1. got \subseteq 0..(emitted' - 1) /\ last < emitted' /\ unheard' \subseteq 0..(emitted' - 1)
    BY <1>0, <1>1, Typed DEF Written, Lines, None
  <2>2. \A j \in got \cup {last}, i \in 0..(emitted' - 1) \ unheard' : i < j => i \in got
    <3>1. \A j \in got \cup {last} : j < emitted /\ j \in Int
      BY <1>0, <1>1, Typed DEF Written, Lines, None
    <3>2. \A j \in got \cup {last}, i \in 0..(emitted - 1) \ unheard : i < j => i \in got
      BY <1>0 DEF Written, Below
    <3>3. \A j \in got \cup {last} : ~(emitted < j)
      BY <1>1, <3>1
    <3> QED BY <1>9, <3>2, <3>3
  <2> QED BY <1>0, <2>1, <2>2 DEF Written, Below
<1>11. ASSUME pc = "read" PROVE Coming'
  <2>0. /\ Current = attempt /\ attempt > 0 /\ conn[attempt].mode # "none"
        /\ conn'[attempt].mode = conn[attempt].mode
        /\ conn'[attempt].at = conn[attempt].at /\ conn'[attempt].end = conn[attempt].end
    BY <1>0, <1>1, <1>6, <1>11 DEF Current, Coming
  <2>1. PICK s \in Seq(Lines) : s = conn[attempt].pipe
    BY <1>1 DEF StreamRecords
  <2>2. /\ \A k \in 1..Len(s) : s[k] < emitted /\ Below(s[k], got \cup First(s, k - 1))
        /\ conn[attempt].mode = "replay" =>
             /\ writer # attempt
             /\ conn[attempt].at <= conn[attempt].end /\ conn[attempt].end <= emitted
             /\ Below(conn[attempt].at, got \cup First(s, Len(s)))
             /\ conn[attempt].end..(emitted - 1) \subseteq unheard
        /\ conn[attempt].mode # "replay" => Below(emitted, got \cup First(s, Len(s)))
    BY <1>0, <1>11, <2>1 DEF Coming, Got
  <2>3. \A k \in 1..Len(s) : s[k] \in Nat
    BY LineTyped
  <2>4. CASE writer = attempt
    <3>1. s = p /\ conn'[attempt].pipe = q /\ conn[attempt].mode # "replay"
      BY <1>1, <1>2, <1>6, <2>0, <2>1, <2>2, <2>4
    <3>2. ASSUME NEW k \in 1..Len(q)
          PROVE  /\ q[k] < emitted'
                 /\ \A i \in 0..(emitted' - 1) \ unheard' : i < q[k] => i \in got \cup First(q, k - 1)
      <4>1. CASE k \in 1..Len(p)
        <5>1. q[k] = p[k] /\ k - 1 \in 0..Len(p) /\ First(q, k - 1) = First(p, k - 1) /\ q[k] < emitted
              /\ q[k] \in Nat
          <6>1. q[k] = p[k] /\ k - 1 \in 0..Len(p)
            BY <1>4, <4>1
          <6>2. First(q, k - 1) = First(p, k - 1)
            BY <1>4, <6>1
          <6>3. p[k] < emitted /\ p[k] \in Nat
            BY <2>2, <2>3, <3>1, <4>1
          <6> QED BY <6>1, <6>2, <6>3
        <5>2. \A i \in 0..(emitted - 1) \ unheard : i < q[k] => i \in got \cup First(q, k - 1)
          BY <2>2, <3>1, <4>1, <5>1 DEF Below
        <5> QED BY <1>0, <1>1, <1>9, <5>1, <5>2
      <4>2. CASE k = Len(p) + 1
        <5>1. q[k] = emitted /\ k - 1 = Len(p) /\ First(q, k - 1) = First(p, Len(p))
          BY <1>4, <4>2
        <5>2. \A i \in 0..(emitted - 1) \ unheard : i < q[k] => i \in got \cup First(q, k - 1)
          BY <2>2, <3>1, <5>1 DEF Below
        <5> QED BY <1>0, <1>1, <1>9, <5>1, <5>2
      <4> QED BY <1>4, <4>1, <4>2
    <3>3. \A i \in 0..(emitted' - 1) \ unheard' : i \in got \cup First(q, Len(q))
      <4>1. \A i \in 0..(emitted - 1) \ unheard : i \in got \cup First(p, Len(p))
        BY <1>1, <2>2, <3>1 DEF Below
      <4> QED BY <1>4, <1>9, <4>1
    <3> QED BY <1>0, <2>0, <3>1, <3>2, <3>3 DEF Coming, Below, Got
  <2>5. CASE writer # attempt
    <3>1. s = conn'[attempt].pipe
      BY <1>1, <1>6, <2>1, <2>5
    <3>2. Current \notin {0, writer} /\ unheard' = unheard \cup {emitted}
      BY <1>0, <1>1, <2>0, <2>5
    <3>3. 0..(emitted' - 1) \ unheard' = 0..(emitted - 1) \ unheard
      BY <1>0, <1>1, <3>2
    <3>4. ASSUME NEW k \in 1..Len(s) PROVE s[k] < emitted'
      <4>1. s[k] < emitted /\ s[k] \in Nat
        BY <2>2, <2>3
      <4> QED BY <1>0, <1>1, <4>1
    <3>5. conn[attempt].mode = "replay" =>
            conn[attempt].end <= emitted' /\ conn[attempt].end..(emitted' - 1) \subseteq unheard'
      <4>1. conn[attempt].end \in Nat
        BY <1>1 DEF StreamRecords
      <4>2. conn[attempt].end..(emitted' - 1) \subseteq conn[attempt].end..(emitted - 1) \cup {emitted}
        BY <1>0, <1>1, <4>1
      <4> QED BY <1>0, <1>1, <2>2, <3>2, <4>1, <4>2
    <3>6. conn[attempt].mode # "replay" =>
            \A i \in 0..(emitted - 1) \ unheard : i \in got \cup First(s, Len(s))
      BY <1>1, <2>2 DEF Below
    <3> QED BY <1>0, <2>0, <2>2, <3>1, <3>3, <3>4, <3>5, <3>6 DEF Coming, Below, Got
  <2> QED BY <2>4, <2>5
<1>12. Coming'
  BY <1>0, <1>11 DEF Coming
<1>13. Complete'
  BY <1>0 DEF Complete, Ended
<1> QED BY <1>7, <1>8, <1>10, <1>12, <1>13 DEF StreamInv

\* An abort closes streams, and keeps what they have carried.
LEMMA AbortStep ==
  ASSUME TypeOK, Opened, Abort
  PROVE  /\ conn' \in [Streams -> StreamRecords] /\ over' = TRUE /\ writer' \in {0, writer}
         /\ \A c \in Streams :
              /\ conn'[c].pipe = conn[c].pipe /\ conn'[c].at = conn[c].at /\ conn'[c].end = conn[c].end
              /\ conn'[c].mode = IF conn[c].mode = "live" THEN "closed" ELSE conn[c].mode
<1>1. conn \in [Streams -> StreamRecords] /\ over' = TRUE /\ writer' \in {0, writer}
  BY Typed DEF Abort
<1>2. ASSUME NEW c \in Streams
      PROVE  /\ conn'[c] \in StreamRecords
             /\ conn'[c].pipe = conn[c].pipe /\ conn'[c].at = conn[c].at /\ conn'[c].end = conn[c].end
             /\ conn'[c].mode = IF conn[c].mode = "live" THEN "closed" ELSE conn[c].mode
  <2>1. conn'[c] = IF conn[c].mode = "live" THEN [conn[c] EXCEPT !.mode = "closed"] ELSE conn[c]
    BY DEF Abort
  <2>2. conn[c] \in StreamRecords
    BY <1>1
  <2> QED BY <2>1, <2>2 DEF StreamRecords
<1>3. conn' = [c \in Streams |-> conn'[c]]
  BY DEF Abort
<1> QED BY <1>1, <1>2, <1>3

LEMMA FinishStep ==
  ASSUME StreamInv, ~Ended, FinishPlan
  PROVE  StreamInv'
<1>0. /\ TypeOK /\ Opened /\ Coming /\ Abort /\ UNCHANGED <<emitted, unheard, pc, attempt, last, got, twice, faults>>
      /\ attempt \in Streams /\ pc # "done" /\ writer \in Streams /\ 0 \in Streams /\ 0 <= attempt
  BY Typed, RemoteStreamAssumption DEF StreamInv, FinishPlan, client, Ended, Streams
<1>1. /\ conn' \in [Streams -> StreamRecords] /\ over' = TRUE /\ writer' \in {0, writer}
      /\ \A c \in Streams :
           /\ conn'[c].pipe = conn[c].pipe /\ conn'[c].at = conn[c].at /\ conn'[c].end = conn[c].end
           /\ conn'[c].mode = IF conn[c].mode = "live" THEN "closed" ELSE conn[c].mode
  BY <1>0, AbortStep
<1>2. TypeOK'
  BY <1>0, <1>1, Typed DEF TypeOK, StreamRecords
<1>3. Opened'
  BY <1>0, <1>1 DEF Opened
<1>4. pc = "read" => attempt > 0 /\ conn[attempt].mode # "none"
  BY <1>0 DEF Coming
<1>5. pc = "read" /\ conn[attempt].mode = "replay" => writer # attempt
  BY <1>0 DEF Coming
<1> QED BY <1>0, <1>1, <1>2, <1>3, <1>4, <1>5, Untouched DEF Streams

LEMMA KillStep ==
  ASSUME StreamInv, Kill
  PROVE  StreamInv'
<1>0. /\ TypeOK /\ Opened /\ pc' = "killed" /\ UNCHANGED <<emitted, unheard, attempt, last, got, twice>>
      /\ writer \in Streams /\ 0 \in Streams /\ 0 <= attempt
      /\ Abort \/ UNCHANGED <<over, writer, conn>>
      /\ faults' \in 0..MaxFaults
  BY Typed, RemoteStreamAssumption DEF StreamInv, Kill, Fault, worker, Streams
<1>1. TypeOK'
  BY <1>0, AbortStep, Typed DEF TypeOK, StreamRecords
<1>2. Opened'
  BY <1>0, AbortStep DEF Opened
<1>3. Written'
  BY <1>0 DEF StreamInv, Written, Below
<1>4. Coming' /\ Complete'
  BY <1>0 DEF Coming, Complete
<1> QED BY <1>1, <1>2, <1>3, <1>4 DEF StreamInv

\* A stream that is not in use.
LEMMA CutOffStep ==
  ASSUME StreamInv, ~Ended, NEW c \in Streams, ReplayToNobody(c) \/ HearsOfCut(c)
  PROVE  StreamInv'
<1>0. /\ TypeOK /\ Opened /\ Coming /\ UNCHANGED <<emitted, over, unheard, pc, attempt, last, got, twice, faults>>
      /\ conn \in [Streams -> StreamRecords] /\ attempt \in Streams /\ attempt \in Nat /\ writer \in Streams
      /\ 0 \in Streams /\ pc # "done" /\ c # Current
  BY Typed, RemoteStreamAssumption DEF StreamInv, ReplayToNobody, HearsOfCut, client, Ended, Streams
<1>1. conn[c].mode \in {"replay", "live"} /\ c <= attempt /\ c # 0 /\ c \in Nat
  <2>1. conn[c].mode \in {"replay", "live"} /\ c \in Nat
    BY DEF ReplayToNobody, HearsOfCut, Streams
  <2> QED BY <1>0, <2>1 DEF Opened
<1>2. PICK m \in {"none", "replay", "live", "deaf", "closed"} :
        conn' = [conn EXCEPT ![c] = Stream(m)] /\ writer' \in {0, c, writer}
  BY DEF ReplayToNobody, HearsOfCut
<1>3. conn' \in [Streams -> StreamRecords] /\ \A d \in Streams \ {c} : conn'[d] = conn[d]
  BY <1>0, <1>2, NewStream
<1>4. TypeOK'
  BY <1>0, <1>2, <1>3, Typed DEF TypeOK, StreamRecords
<1>5. Opened'
  <2>1. \A d \in Streams : (d = 0 \/ d > attempt) => d # c
    BY <1>0, <1>1
  <2>2. writer' <= attempt
    BY <1>0, <1>1, <1>2 DEF Opened
  <2> QED BY <1>0, <1>3, <2>1, <2>2 DEF Opened
<1>6. pc = "read" => /\ attempt # c /\ attempt > 0 /\ conn[attempt].mode # "none"
                     /\ conn[attempt].mode = "replay" => writer # attempt
  BY <1>0 DEF Coming, Current
<1>7. pc = "read" => conn'[attempt] = conn[attempt]
  BY <1>0, <1>3, <1>6
<1>8. pc = "read" => (conn[attempt].mode = "replay" => writer' # attempt)
  BY <1>0, <1>2, <1>6
<1> QED BY <1>0, <1>4, <1>5, <1>6, <1>7, <1>8, Untouched

\* What the conductor does without a stream.
LEMMA AsideStep ==
  ASSUME StreamInv, Spawn \/ Refused \/ GiveUp
  PROVE  StreamInv'
<1>0. /\ UNCHANGED <<emitted, over, writer, unheard, conn, last, got, twice, attempt>>
      /\ pc' \in {"connect", "refused", "done", "failed"} /\ TypeOK
      /\ faults' \in 0..MaxFaults /\ (pc' = "done" => faults' # 0)
  <2>1. TypeOK /\ faults \in 0..MaxFaults
    BY Typed DEF StreamInv
  <2> QED BY <2>1, RemoteStreamAssumption DEF Spawn, Refused, GiveUp, worker, Fault
<1>1. TypeOK'
  BY <1>0, Typed DEF TypeOK, StreamRecords
<1> QED BY <1>0, <1>1 DEF StreamInv, Opened, Written, Below, Coming, Complete

\* The conductor gets the backlog from the line that it names.
LEMMA ConnectStep ==
  ASSUME StreamInv, Connect
  PROVE  StreamInv'
<1> DEFINE n == attempt + 1
           r == [at |-> BacklogFrom(last), end |-> emitted, mode |-> "replay", pipe |-> <<>>]
<1>0. /\ TypeOK /\ Opened /\ Written /\ attempt < MaxRetries /\ attempt' = n /\ faults' \in 0..MaxFaults
      /\ UNCHANGED <<emitted, over, writer, unheard, last, got, twice>>
      /\ \/ pc' = "read" /\ conn' = [conn EXCEPT ![n] = r]
         \/ pc' = "connect" /\ conn' = conn
  <2>1. faults \in 0..MaxFaults /\ TypeOK
    BY Typed DEF StreamInv
  <2> QED BY <2>1, RemoteStreamAssumption DEF StreamInv, Connect, worker, Fault, AttemptsMade
<1>1. /\ attempt \in Nat /\ n \in Streams /\ n > attempt /\ n # 0 /\ conn \in [Streams -> StreamRecords]
      /\ emitted \in 0..MaxLines /\ writer \in Streams /\ writer <= attempt /\ last < emitted /\ emitted \in Nat
      /\ last \in Lines \cup {None}
  BY <1>0, Typed, RemoteStreamAssumption DEF Opened, Written, Streams
<1>2. BacklogFrom(last) \in 0..MaxLines /\ BacklogFrom(last) <= emitted /\ BacklogFrom(last) \in {0, last}
  BY <1>1, RemoteStreamAssumption DEF BacklogFrom, Lines, None
<1>3. /\ r \in StreamRecords /\ r.mode = "replay" /\ r.pipe = <<>> /\ r.at = BacklogFrom(last) /\ r.end = emitted
  BY <1>1, <1>2, EmptyPipe DEF StreamRecords
<1> HIDE DEF r
<1>4. conn' \in [Streams -> StreamRecords] /\ \A c \in Streams \ {n} : conn'[c] = conn[c]
  BY <1>0, <1>1, <1>3
<1>5. TypeOK'
  BY <1>0, <1>1, <1>4, Typed DEF TypeOK, StreamRecords
<1>6. Opened'
  <2>1. \A c \in Streams : c > n => c > attempt /\ c # n
    BY <1>1 DEF Streams
  <2>2. \A c \in Streams : (c = 0 \/ c > n) => conn'[c].mode = "none"
    BY <1>0, <1>1, <1>4, <2>1 DEF Opened
  <2>3. writer <= n
    BY <1>1 DEF Streams
  <2> QED BY <1>0, <2>2, <2>3 DEF Opened
<1>7. Written'
  BY <1>0 DEF Written, Below
<1>8. ASSUME pc' = "read" PROVE Coming'
  <2>1. conn'[n] = r
    BY <1>0, <1>1, <1>8
  <2>2. \A i \in 0..(emitted - 1) \ unheard : i < BacklogFrom(last) => i \in got
    BY <1>0, <1>1, <1>2 DEF Written, Below
  <2>3. writer # n /\ n > 0
    BY <1>1 DEF Streams
  <2>4. emitted..(emitted - 1) = {} /\ emitted <= emitted
    BY <1>1
  <2> QED BY <1>0, <1>2, <1>3, <2>1, <2>2, <2>3, <2>4, EmptyPipe DEF Coming, Below, Got
<1>9. Coming'
  BY <1>8 DEF Coming
<1>10. Complete'
  BY <1>0 DEF Complete
<1> QED BY <1>5, <1>6, <1>7, <1>9, <1>10 DEF StreamInv

\* What is known of the stream in use.
LEMMA InUse ==
  ASSUME StreamInv, pc = "read"
  PROVE  /\ attempt \in Streams /\ attempt \in Nat /\ attempt > 0 /\ Current = attempt
         /\ conn \in [Streams -> StreamRecords] /\ conn[attempt] \in StreamRecords
         /\ conn[attempt].pipe \in Seq(Lines)
         /\ emitted \in Nat /\ emitted \in 0..MaxLines /\ MaxLines \in Nat
<1>1. TypeOK /\ Coming
  BY DEF StreamInv
<1>2. /\ attempt \in Streams /\ conn \in [Streams -> StreamRecords] /\ emitted \in 0..MaxLines
      /\ attempt > 0
  BY <1>1, Typed DEF Coming
<1> QED BY <1>2, RemoteStreamAssumption DEF Current, Streams, StreamRecords

\* The first line under way is read: what comes before it is in the file already.
LEMMA ReadStep ==
  ASSUME StreamInv, ReadEvent
  PROVE  StreamInv'
<1>0. /\ TypeOK /\ Opened /\ Written /\ Coming /\ pc = "read" /\ conn[attempt].pipe # <<>>
      /\ last' = Head(conn[attempt].pipe) /\ got' = got \cup {last'}
      /\ twice' = (twice \/ last' \in got)
      /\ conn' = [conn EXCEPT ![attempt].pipe = Tail(@)]
      /\ UNCHANGED <<emitted, over, writer, unheard, pc, attempt, faults>>
  BY DEF StreamInv, ReadEvent, worker
<1>1. PICK p \in Seq(Lines) : p = conn[attempt].pipe /\ p # <<>>
  BY <1>0, InUse
<1>2. PICK q, h : q = Tail(p) /\ h = Head(p)
  OBVIOUS
<1>3. /\ q \in Seq(Lines) /\ h \in Lines /\ Len(p) \in Nat \ {0} /\ Len(q) = Len(p) - 1 /\ h = p[1]
      /\ \A k \in 1..Len(q) : q[k] = p[k + 1]
      /\ \A m \in 0..Len(q) : First(p, m + 1) = First(q, m) \cup {h}
  BY <1>1, <1>2, Reading
<1>4. PICK r : r = [conn[attempt] EXCEPT !.pipe = q]
  OBVIOUS
<1>5. /\ r \in StreamRecords /\ r.mode = conn[attempt].mode /\ r.at = conn[attempt].at
      /\ r.end = conn[attempt].end /\ r.pipe = q
  BY <1>0, <1>3, <1>4, InUse DEF StreamRecords
<1>6. conn' = [conn EXCEPT ![attempt] = r]
  BY <1>0, <1>1, <1>2, <1>4, InUse
<1>7. conn' \in [Streams -> StreamRecords] /\ conn'[attempt] = r /\ \A c \in Streams : conn'[c].mode = conn[c].mode
  BY <1>0, <1>5, <1>6, InUse
<1>8. TypeOK'
  BY <1>0, <1>1, <1>2, <1>3, <1>7, Typed DEF TypeOK, StreamRecords
<1>9. Opened'
  BY <1>0, <1>7 DEF Opened
<1>10. /\ \A k \in 1..Len(p) : p[k] < emitted /\ Below(p[k], got \cup First(p, k - 1))
       /\ conn[attempt].mode = "replay" =>
             /\ writer # attempt
             /\ conn[attempt].at <= conn[attempt].end /\ conn[attempt].end <= emitted
             /\ Below(conn[attempt].at, got \cup First(p, Len(p)))
             /\ conn[attempt].end..(emitted - 1) \subseteq unheard
       /\ conn[attempt].mode # "replay" => Below(emitted, got \cup First(p, Len(p)))
  BY <1>0, <1>1 DEF Coming, Got
<1>11. h < emitted /\ Below(h, got)
  <2>1. 1 \in 1..Len(p) /\ 1 - 1 = 0 /\ First(p, 0) = {}
    BY <1>3 DEF First
  <2>2. p[1] < emitted /\ Below(p[1], got \cup First(p, 1 - 1))
    BY <1>10, <2>1
  <2> QED BY <1>3, <2>1, <2>2
<1>12. \A m \in 0..Len(q) : got \cup First(p, m + 1) = got' \cup First(q, m)
  BY <1>0, <1>1, <1>2, <1>3
<1>13. Written'
  <2>1. got' \subseteq 0..(emitted - 1)
    <3>1. h \in 0..(emitted - 1)
      BY <1>3, <1>11, InUse, <1>0, LineRange
    <3> QED BY <1>0, <1>1, <1>2, <3>1 DEF Written
  <2>2. \A j \in got' : Below(j, got')
    BY <1>0, <1>1, <1>2, <1>11 DEF Written, Below
  <2>3. last' = h /\ Below(h, got')
    BY <1>0, <1>1, <1>2, <1>11 DEF Below
  <2> QED BY <1>0, <1>11, <2>1, <2>2, <2>3 DEF Written, Below
<1>14. ASSUME NEW k \in 1..Len(q)
       PROVE  q[k] < emitted /\ Below(q[k], got' \cup First(q, k - 1))
  <2>1. k + 1 \in 1..Len(p) /\ (k + 1) - 1 = k /\ k - 1 \in 0..Len(q) /\ (k - 1) + 1 = k
    BY <1>3
  <2>2. q[k] = p[k + 1] /\ p[k + 1] < emitted /\ Below(p[k + 1], got \cup First(p, k))
    BY <1>3, <1>10, <2>1
  <2>3. got \cup First(p, k) = got' \cup First(q, k - 1)
    BY <1>12, <2>1
  <2> QED BY <2>2, <2>3
<1>15. got \cup First(p, Len(p)) = got' \cup First(q, Len(q))
  <2>1. Len(q) \in 0..Len(q) /\ Len(q) + 1 = Len(p)
    BY <1>3
  <2> QED BY <1>12, <2>1
<1>16. Coming'
  BY <1>0, <1>5, <1>7, <1>10, <1>14, <1>15 DEF Coming, Below, Got
<1>17. Complete'
  BY <1>0 DEF Complete
<1> QED BY <1>8, <1>9, <1>13, <1>16, <1>17 DEF StreamInv

\* The connection breaks: the line whose id was taken comes again.
LEMMA CutStep ==
  ASSUME StreamInv, Cut
  PROVE  StreamInv'
<1>0. /\ TypeOK /\ Opened /\ Written /\ Coming /\ pc = "read" /\ pc' = "connect"
      /\ conn' = [conn EXCEPT ![attempt] = Stream(conn[attempt].mode)]
      /\ last' \in {last} \cup (IF conn[attempt].pipe = <<>> THEN {} ELSE {None, Head(conn[attempt].pipe)})
      /\ UNCHANGED <<emitted, over, writer, unheard, attempt, got, twice, faults>>
  BY InUse DEF StreamInv, Cut, worker
<1>1. PICK p \in Seq(Lines) : p = conn[attempt].pipe
  BY <1>0, InUse
<1>2. last' = last \/ last' = None \/ (p # <<>> /\ last' = Head(p))
  BY <1>0, <1>1
<1>3. last' \in Lines \cup {None} /\ last' < emitted /\ Below(last', got)
  <2>1. CASE last' = last
    BY <1>0, <2>1, Typed DEF Written
  <2>2. CASE last' = None
    BY <1>0, <2>2, InUse DEF Below, None
  <2>3. CASE p # <<>> /\ last' = Head(p)
    <3>1. Head(p) \in Lines /\ Len(p) \in Nat \ {0} /\ Head(p) = p[1]
      BY <2>3, Reading
    <3>2. 1 \in 1..Len(p) /\ 1 - 1 = 0 /\ First(p, 0) = {}
      BY <3>1 DEF First
    <3>3. p[1] < emitted /\ Below(p[1], got \cup First(p, 1 - 1))
      BY <1>0, <1>1, <3>2 DEF Coming
    <3> QED BY <2>3, <3>1, <3>2, <3>3
  <2> QED BY <1>2, <2>1, <2>2, <2>3
<1>4. conn' \in [Streams -> StreamRecords] /\ \A c \in Streams : conn'[c].mode = conn[c].mode
  <2>1. conn[attempt].mode \in {"none", "replay", "live", "deaf", "closed"}
    BY <1>0, InUse DEF StreamRecords
  <2>2. /\ Stream(conn[attempt].mode) \in StreamRecords
        /\ Stream(conn[attempt].mode).mode = conn[attempt].mode
    BY <2>1, NewStream
  <2> QED BY <1>0, <2>2, InUse
<1>5. TypeOK'
  BY <1>0, <1>3, <1>4, Typed DEF TypeOK, StreamRecords
<1>6. Opened'
  BY <1>0, <1>4 DEF Opened
<1>7. Written'
  BY <1>0, <1>3 DEF Written, Below
<1> QED BY <1>0, <1>5, <1>6, <1>7 DEF StreamInv, Coming, Complete

\* A stream ends well when all of it has been read.
LEMMA EndStep ==
  ASSUME StreamInv, EndOfStream
  PROVE  StreamInv'
<1>0. /\ TypeOK /\ Opened /\ Written /\ Coming /\ pc = "read" /\ pc' = "done"
      /\ conn[attempt].pipe = <<>> /\ conn[attempt].mode = "closed"
      /\ UNCHANGED <<emitted, over, writer, unheard, conn, attempt, last, got, twice, faults>>
  BY DEF StreamInv, EndOfStream, worker
<1>1. Below(emitted, got)
  <2>1. Below(emitted, got \cup First(<<>>, 0))
    BY <1>0, EmptyPipe DEF Coming, Got
  <2> QED BY <2>1, EmptyPipe
<1>2. TypeOK'
  BY <1>0, Typed DEF TypeOK, StreamRecords
<1> QED BY <1>0, <1>1, <1>2 DEF StreamInv, Opened, Written, Below, Coming, Complete

\* The stream in use sends its backlog, and is written to from then on.
LEMMA ReplayStep ==
  ASSUME StreamInv, Replay
  PROVE  StreamInv'
<1>0. TypeOK /\ Opened /\ Written /\ Coming /\ Complete
  BY DEF StreamInv
<1>1. pc = "read" /\ Current = attempt /\ conn[attempt].mode = "replay"
      /\ UNCHANGED <<emitted, over, unheard, pc, attempt, last, got, twice, faults>>
  <2>1. conn[Current].mode = "replay" /\ Current \in {0, attempt}
        /\ UNCHANGED <<emitted, over, unheard, pc, attempt, last, got, twice, faults>>
    BY DEF Replay, Current, client
  <2>2. conn[0].mode = "none" /\ 0 \in Streams
    BY <1>0, RemoteStreamAssumption DEF Opened, Streams
  <2>3. pc = "read"
    BY <2>1, <2>2 DEF Current
  <2> QED BY <2>1, <2>3 DEF Current
<1>2. PICK p \in Seq(Lines) : p = conn[attempt].pipe
  BY <1>1, InUse
<1>3. PICK a \in 0..MaxLines, b \in 0..MaxLines : a = conn[attempt].at /\ b = conn[attempt].end
  BY <1>1, InUse DEF StreamRecords
<1>4. /\ \A k \in 1..Len(p) : p[k] < emitted /\ Below(p[k], got \cup First(p, k - 1))
      /\ writer # attempt /\ a <= b /\ b <= emitted
      /\ Below(a, got \cup First(p, Len(p)))
      /\ b..(emitted - 1) \subseteq unheard
  BY <1>0, <1>1, <1>2, <1>3 DEF Coming, Got
<1>5. CASE a < b
  <2>1. a \in Lines /\ a < emitted /\ a \in Nat /\ a + 1 \in 0..MaxLines /\ a + 1 <= b
    BY <1>1, <1>4, <1>5, InUse DEF Lines
  <2>2. PICK q : q = Append(p, a)
    OBVIOUS
  <2>3. /\ q \in Seq(Lines) /\ Len(q) = Len(p) + 1 /\ q[Len(p) + 1] = a /\ Len(p) \in Nat
        /\ \A k \in 1..Len(p) : q[k] = p[k]
        /\ \A n \in 0..Len(p) : First(q, n) = First(p, n)
        /\ First(q, Len(q)) = First(p, Len(p)) \cup {a}
    BY <2>1, <2>2, Appending
  <2>4. PICK r : r = [conn[attempt] EXCEPT !.pipe = q, !.at = a + 1]
    OBVIOUS
  <2>5. r \in StreamRecords /\ r.mode = "replay" /\ r.at = a + 1 /\ r.end = b /\ r.pipe = q
    BY <1>1, <1>3, <2>1, <2>3, <2>4, InUse DEF StreamRecords
  <2>6. conn' = [conn EXCEPT ![attempt] = r] /\ UNCHANGED writer
    <3>1. conn' = [Send(attempt, a) EXCEPT ![attempt].at = @ + 1] /\ UNCHANGED writer
      BY <1>1, <1>3, <1>5 DEF Replay
    <3>2. Send(attempt, a) = [conn EXCEPT ![attempt].pipe = Append(@, a)]
      BY <1>1, InUse DEF Send
    <3>3. conn' = [conn EXCEPT ![attempt] = [conn[attempt] EXCEPT !.pipe = q, !.at = a + 1]]
      <4>1. PICK s : s = [conn[attempt] EXCEPT !.pipe = q]
        OBVIOUS
      <4>2. Send(attempt, a) = [conn EXCEPT ![attempt] = s]
        BY <1>2, <2>2, <3>2, <4>1
      <4>3. s.at = a /\ [s EXCEPT !.at = a + 1] = [conn[attempt] EXCEPT !.pipe = q, !.at = a + 1]
        BY <1>1, <1>3, <4>1, InUse DEF StreamRecords
      <4>4. conn' = [conn EXCEPT ![attempt] = [s EXCEPT !.at = a + 1]]
        BY <1>1, <3>1, <4>2, <4>3, InUse
      <4> QED BY <4>3, <4>4
    <3> QED BY <2>4, <3>1, <3>3
  <2>7. conn' \in [Streams -> StreamRecords] /\ conn'[attempt] = r /\ \A c \in Streams : conn'[c].mode = conn[c].mode
    BY <1>1, <2>5, <2>6, InUse
  <2>8. TypeOK'
    BY <1>0, <1>1, <2>6, <2>7, Typed DEF TypeOK, StreamRecords
  <2>9. Opened'
    BY <1>0, <1>1, <2>6, <2>7 DEF Opened
  <2>10. ASSUME NEW k \in 1..Len(q)
         PROVE  q[k] < emitted /\ Below(q[k], got \cup First(q, k - 1))
    <3>1. CASE k \in 1..Len(p)
      <4>1. q[k] = p[k] /\ k - 1 \in 0..Len(p)
        BY <2>3, <3>1
      <4>2. First(q, k - 1) = First(p, k - 1)
        BY <2>3, <4>1
      <4> QED BY <1>4, <3>1, <4>1, <4>2
    <3>2. CASE k = Len(p) + 1
      <4>1. q[k] = a /\ k - 1 = Len(p) /\ Len(p) \in 0..Len(p)
        BY <2>3, <3>2
      <4>2. First(q, k - 1) = First(p, Len(p))
        BY <2>3, <4>1
      <4> QED BY <1>4, <2>1, <4>1, <4>2
    <3> QED BY <2>3, <3>1, <3>2
  <2>11. Below(a + 1, got \cup First(q, Len(q)))
    <3>1. \A i \in 0..(emitted - 1) \ unheard : i < a + 1 => i < a \/ i = a
      BY <1>1, <2>1, InUse
    <3> QED BY <1>4, <2>3, <3>1 DEF Below
  <2>12. Coming'
    BY <1>0, <1>1, <1>4, <2>1, <2>5, <2>6, <2>7, <2>10, <2>11, InUse DEF Coming, Below, Got
  <2>13. Written' /\ Complete'
    BY <1>0, <1>1 DEF Written, Below, Complete
  <2> QED BY <2>8, <2>9, <2>12, <2>13 DEF StreamInv
<1>6. CASE ~(a < b)
  <2>1. a = b
    BY <1>4, <1>6
  <2>2. PICK m \in {"deaf", "live"} : conn' = [conn EXCEPT ![attempt].mode = m] /\ writer' = attempt
    BY <1>1, <1>3, <1>6 DEF Replay
  <2>3. PICK r : r = [conn[attempt] EXCEPT !.mode = m]
    OBVIOUS
  <2>4. r \in StreamRecords /\ r.mode = m /\ r.pipe = p
    BY <1>1, <1>2, <2>3, InUse DEF StreamRecords
  <2>5. conn' = [conn EXCEPT ![attempt] = r]
    BY <2>2, <2>3
  <2>6. conn' \in [Streams -> StreamRecords] /\ conn'[attempt] = r /\ \A c \in Streams \ {attempt} : conn'[c] = conn[c]
    BY <1>1, <2>4, <2>5, InUse
  <2>7. TypeOK'
    BY <1>0, <1>1, <2>2, <2>6, InUse, Typed DEF TypeOK, StreamRecords
  <2>8. Opened'
    <3>1. \A c \in Streams : (c = 0 \/ c > attempt) => c # attempt
      BY <1>1, InUse
    <3> QED BY <1>0, <1>1, <2>2, <2>6, <3>1, InUse DEF Opened
  <2>9. Below(emitted, got \cup First(p, Len(p)))
    <3>1. \A i \in 0..(emitted - 1) \ unheard : i < a
      BY <1>1, <1>4, <2>1, InUse
    <3> QED BY <1>4, <3>1 DEF Below
  <2>10. Coming'
    BY <1>0, <1>1, <1>4, <2>4, <2>6, <2>9, InUse DEF Coming, Below, Got
  <2>11. Written' /\ Complete'
    BY <1>0, <1>1 DEF Written, Below, Complete
  <2> QED BY <2>7, <2>8, <2>10, <2>11 DEF StreamInv
<1> QED BY <1>5, <1>6

-----------------------------------------------------------------------------
\* The whole.

LEMMA StreamStarts ==
  ASSUME Init
  PROVE  StreamInv
<1>1. /\ MaxLines \in Nat /\ 0 \in 0..MaxLines /\ 0 \in Streams /\ 0 \in Nat /\ 0 \in 0..MaxFaults
      /\ \A c \in Streams : Stream("none") \in StreamRecords /\ Stream("none").mode = "none"
  BY NewStream, RemoteStreamAssumption DEF Streams
<1>2. TypeOK
  BY <1>1, Typed DEF Init
<1> QED BY <1>1, <1>2 DEF Init, StreamInv, Opened, Written, Below, Coming, Complete, None

LEMMA StreamStep ==
  ASSUME StreamInv, [Next]_vars
  PROVE  StreamInv'
<1>1. CASE UNCHANGED vars
  <2>1. UNCHANGED <<emitted, over, writer, unheard, conn, pc, attempt, last, got, twice, faults>>
    BY <1>1 DEF vars, worker, client
  <2>2. TypeOK'
    BY <2>1, Typed DEF StreamInv, TypeOK, StreamRecords
  <2> QED BY <2>1, <2>2 DEF StreamInv, Opened, Written, Below, Coming, Got, Complete
<1>2. CASE Work
  BY <1>2, EmitStep, FinishStep, ReplayStep, CutOffStep DEF Work
<1>3. CASE Copy
  BY <1>3, AsideStep, ConnectStep, ReadStep, EndStep DEF Copy
<1>4. CASE Cut \/ Kill
  BY <1>4, CutStep, KillStep
<1> QED BY <1>1, <1>2, <1>3, <1>4 DEF Next

\* What is in the file has no gap up to what the conductor names, and what is still on its way
\* follows on (streamToFile, SandboxSession.handleStream).
THEOREM StreamInvariance == Spec => []StreamInv
<1>1. Init => StreamInv
  BY StreamStarts
<1>2. StreamInv /\ [Next]_vars => StreamInv'
  BY StreamStep
<1> QED BY <1>1, <1>2, PTL DEF Spec

\* The types of the stream's state.
THEOREM StreamTypes == Spec => []TypeOK
<1>1. StreamInv => TypeOK
  BY DEF StreamInv
<1> QED BY <1>1, StreamInvariance, PTL

\* Before a line is written to the transcript, and before a stream ends well, all lines before
\* it have been written, but for those that the worker emitted to another stream
\* (SandboxSession.handleStream, streamToFile).
THEOREM TranscriptHasNoGaps == Spec => []NothingPassedOver
<1>1. ASSUME StreamInv PROVE NothingPassedOver
  <2>1. ASSUME NEW i \in 0..(emitted - 1) \ unheard, NEW j \in got, j > i PROVE i \in got
    BY <1>1, <2>1 DEF StreamInv, Written, Below
  <2>2. ASSUME NEW i \in 0..(emitted - 1) \ unheard, pc = "done", faults = 0 PROVE i \in got
    <3>1. emitted \in Nat
      BY <1>1, Typed DEF StreamInv
    <3>2. i < emitted
      BY <3>1
    <3> QED BY <1>1, <2>2, <3>2 DEF StreamInv, Complete, Below
  <2> QED BY <2>1, <2>2 DEF NothingPassedOver
<1> QED BY <1>1, StreamInvariance, PTL

-----------------------------------------------------------------------------
\* A local worker: lines, the pieces of a message, and what is still to be heard.

Words  == Local!Sentinels \cup {"plain"}
Pieces == Words \cup {"a", "b", "nl", "own"}
States == {"running", "paused", "completed", "needs_pr", "blocked", "failed"}
Spoken == {Local!Said(w) : w \in Local!Sentinels} \cup {Local!Own}

\* The pieces that may come after a piece; nothing comes after the end of a message.
Follows(x) ==
  CASE x = "nl"                              -> Words \cup {"end"}
    [] x \in {"complete", "plain"}           -> {"nl"}
    [] x \in {"ask", "blocked", "needs_pr"}  -> {"a"}
    [] x = "a"                               -> {"b"}
    [] OTHER                                 -> {"nl"}

\* A part of one message of the CLI.
Chain(t) ==
  /\ t \in Seq(Pieces) /\ t # <<>>
  /\ \A i \in 1..(Len(t) - 1) : t[i] # "nl" /\ t[i + 1] \in Follows(t[i])

\* The first piece of an event, or, after the last event, of what the CLI is still to
\* write; "end" where no message goes on.
Lead(p) ==
  IF p = Len(events) + 1 THEN (IF rest = <<>> THEN "end" ELSE rest[1])
  ELSE IF events[p].type = "text" THEN events[p].text[1] ELSE "end"

\* The last piece of an event, or of what the parser holds; "nl" where no line is open.
Trail(p) ==
  IF p = at THEN (IF pending = <<>> THEN "nl" ELSE Local!Last(pending))
  ELSE IF events[p].type = "text" THEN Local!Last(events[p].text) ELSE "nl"

Kinds == {"text", "stop", "tools", "result", "done", "init"}

SessRecs  == [state : States, reason : Seq(Pieces), question : Seq(Pieces), over : BOOLEAN]
EventRecs == [type : Kinds, text : Seq(Pieces)]

\* No event is half written (the tail does not meet one).
Shape ==
  /\ strategy \in {"harness", "cli"} /\ (strategy = "cli" => ~Tears) /\ half = FALSE
  /\ events \in Seq(EventRecs) /\ at \in 0..Len(events)
  /\ pending \in Seq(Pieces) /\ rest \in Seq(Pieces)
  /\ sess \in SessRecs
  /\ said \in [line : Spoken \cup {<<"none">>}, asked : BOOLEAN]

\* The tool loop writes whole lines, one in an event, and the parser holds nothing.
HarnessFile ==
  strategy = "harness" =>
    /\ pending = <<>> /\ rest = <<>> /\ phase # "cli"
    /\ \A p \in 1..Len(events) : events[p].type = "text" =>
         \E x \in Spoken \cup {<<"plain">>} : events[p].text = Append(x, "nl")

\* The CLI writes its messages in parts that follow on one another; what the parser
\* holds is the beginning of a line.
CliFile ==
  strategy = "cli" =>
    /\ phase \in {"cli", "ended"} /\ how \in {"none", "exit", "killed"}
    /\ phase = "ended" => cancelled \/ rest = <<>>
    /\ \A p \in 1..Len(events) : events[p].type = "text" => Chain(events[p].text)
    /\ rest # <<>> => Chain(rest) /\ Local!Last(rest) = "nl"
    /\ pending # <<>> => Chain(pending) /\ Local!Last(pending) # "nl" /\ pending[1] \in Words
    /\ \A p \in at..Len(events) : Lead(p + 1) \in Follows(Trail(p))
    /\ pending # <<>> /\ pending[1] = "ask" /\ Len(pending) > 1 => sess.question # <<>>

\* Lines that have been heard in part may be heard again; a question is taken once.
Open(t) == t # <<>> /\ (t[1] = "ask" => Len(t) < 2)

\* The piece that begins the line at a place in the file; where the parser stands, of the
\* line that it holds.
Word(p) ==
  IF p # at THEN Lead(p)
  ELSE IF Open(pending) THEN pending[1] ELSE "end"

LineAt(p) == IF strategy = "harness" THEN Local!Line(events[p].text) ELSE Local!Said(Word(p))

\* The sentinels that are still to be heard, or to be heard to their end.
marks == [p \in {q \in at..(Len(events) + 1) : Word(q) \in Local!Sentinels} |-> LineAt(p)]

Asks(m) == {p \in DOMAIN m : m[p][1] = "ask"}

\* Those that will change the session: of the questions, only the first.
Counting(m, s) ==
  {p \in DOMAIN m : p \in Asks(m) => s.question = <<>> /\ \A q \in Asks(m) : p <= q}

\* The state that a line puts the session in, and with it the reason.
StateFor(line) ==
  CASE line[1] = "ask"      -> "paused"
    [] line[1] = "needs_pr" -> "needs_pr"
    [] line[1] = "blocked"  -> "blocked"
    [] line[1] = "complete" -> "completed"
    [] OTHER                -> "running"

Agrees(s, line) ==
  /\ s.state = StateFor(line)
  /\ line[1] \in {"blocked", "needs_pr"} => s.reason = Tail(line)

\* With the lines m still to be heard, the session s comes to agree with l: the last of
\* those that count is l's line; when none counts, s agrees already.
Told(m, s, l) ==
  /\ (l.asked <=> s.question # <<>> \/ Asks(m) # {})
  /\ Counting(m, s) = {} => Agrees(s, l.line)
  /\ \A p \in Counting(m, s) : (\A q \in Counting(m, s) : q <= p) => m[p] = l.line

\* The ends that the tool loop says itself.
CutShort == {"skill", "turns", "provider", "tokens"}

EndsSaid ==
  /\ how \in CutShort => said.line = Local!Own
  /\ phase # "ended" => how = "none"
  /\ sess.over => phase = "ended"
  /\ ~sess.over => Told(marks, sess, said)

OutputInv == Shape /\ HarnessFile /\ CliFile /\ EndsSaid /\ Local!EndingTold

-----------------------------------------------------------------------------
LEMMA LinesFound ==
  /\ \A w \in {"complete", "plain"} : Local!Said(w) = <<w>>
  /\ \A w \in {"ask", "blocked", "needs_pr"} : Local!Said(w) = <<w, "a", "b">>
BY DEF Local!Said

LEMMA TwoPieces ==
  ASSUME NEW u \in Pieces, NEW v \in Pieces
  PROVE  /\ <<u, v>> \in Seq(Pieces) /\ Len(<<u, v>>) = 2
         /\ <<u, v>>[1] = u /\ <<u, v>>[2] = v
OBVIOUS

LEMMA ThreePieces ==
  ASSUME NEW u \in Pieces, NEW v \in Pieces, NEW w \in Pieces
  PROVE  /\ <<u, v, w>> \in Seq(Pieces) /\ Len(<<u, v, w>>) = 3
         /\ <<u, v, w>>[1] = u /\ <<u, v, w>>[2] = v /\ <<u, v, w>>[3] = w
OBVIOUS

LEMMA OnePiece ==
  ASSUME NEW u \in Pieces
  PROVE  <<u>> \in Seq(Pieces) /\ Len(<<u>>) = 1 /\ <<u>>[1] = u
OBVIOUS

LEMMA TailOf ==
  ASSUME NEW x \in Seq(Pieces), x # <<>>
  PROVE  Tail(x) \in Seq(Pieces) /\ Len(Tail(x)) = Len(x) - 1
OBVIOUS

LEMMA LenPositive ==
  ASSUME NEW S, NEW x \in Seq(S), x # <<>>
  PROVE  Len(x) \in Nat /\ Len(x) > 0
OBVIOUS

LEMMA NotEmpty ==
  ASSUME NEW x, Len(x) # 0
  PROVE  x # <<>>
<1> SUFFICES ASSUME x = <<>> PROVE Len(x) = 0
  OBVIOUS
<1> QED OBVIOUS

LEMMA SpokenLine ==
  ASSUME NEW x \in Spoken
  PROVE  /\ x \in Seq(Pieces) /\ x # <<>> /\ x[1] \in Local!Sentinels
         /\ x[1] = "ask" => Tail(x) # <<>>
<1>1. CASE x = Local!Own
  <2>1. "blocked" \in Pieces /\ "own" \in Pieces
    BY DEF Pieces, Words, Local!Sentinels
  <2>2. x \in Seq(Pieces) /\ Len(x) = 2 /\ x[1] = "blocked"
    BY <1>1, <2>1, TwoPieces DEF Local!Own
  <2>3. x # <<>>
    <3>1. Len(x) # 0
      BY <2>2
    <3> QED BY ONLY <3>1, NotEmpty
  <2> QED BY <2>2, <2>3 DEF Local!Sentinels
<1>2. ASSUME NEW w \in Local!Sentinels, x = Local!Said(w)
      PROVE  /\ x \in Seq(Pieces) /\ x # <<>> /\ x[1] \in Local!Sentinels
             /\ x[1] = "ask" => Tail(x) # <<>>
  <2>1. w \in Pieces /\ "a" \in Pieces /\ "b" \in Pieces
    BY DEF Pieces, Words
  <2>2. CASE w = "complete"
    <3>1. x \in Seq(Pieces) /\ Len(x) = 1 /\ x[1] = "complete"
      BY <1>2, <2>1, <2>2, OnePiece, LinesFound
    <3> QED BY <3>1, <2>2
  <2>3. CASE w # "complete"
    <3>1. x = <<w, "a", "b">>
      BY <1>2, <2>3, LinesFound DEF Local!Sentinels
    <3>2. x \in Seq(Pieces) /\ Len(x) = 3 /\ x[1] = w
      BY <2>1, <3>1, ThreePieces
    <3>3. x # <<>>
      <4>1. Len(x) # 0
        BY <3>2
      <4> QED BY ONLY <4>1, NotEmpty
    <3>4. Tail(x) \in Seq(Pieces) /\ Len(Tail(x)) = 2
      BY <3>2, <3>3, TailOf
    <3>5. Tail(x) # <<>>
      <4>1. Len(Tail(x)) # 0
        BY <3>4
      <4> QED BY ONLY <4>1, NotEmpty
    <3> QED BY <3>2, <3>3, <3>5
  <2> QED BY <2>2, <2>3
<1> QED BY <1>1, <1>2 DEF Spoken

\* What a whole line does to a session.
Heard(s, t, x) ==
  /\ x[1] = "ask" => IF s.question = <<>> THEN t.state = "paused" /\ t.question # <<>> ELSE t = s
  /\ x[1] # "ask" => t.question = s.question /\ Agrees(t, x)

LEMMA HearTypes ==
  ASSUME NEW s \in SessRecs, NEW x \in Seq(Pieces), x # <<>>
  PROVE  Local!Hear(s, x) \in SessRecs /\ Local!Hear(s, x).over = s.over
<1>1. PICK y \in Seq(Pieces) : y = Tail(x)
  BY TailOf
<1>2. CASE x[1] = "ask"
  <2>1. Local!Hear(s, x) \in {s, [s EXCEPT !.state = "paused", !.question = y]}
    BY <1>1, <1>2 DEF Local!Hear
  <2>2. [s EXCEPT !.state = "paused", !.question = y] \in SessRecs
    BY DEF SessRecs, States
  <2>3. [s EXCEPT !.state = "paused", !.question = y].over = s.over
    BY DEF SessRecs
  <2> QED BY <2>1, <2>2, <2>3
<1>3. CASE x[1] = "complete"
  <2>1. Local!Hear(s, x) \in {s, [s EXCEPT !.state = "completed"]}
    BY <1>1, <1>3 DEF Local!Hear
  <2>2. [s EXCEPT !.state = "completed"] \in SessRecs
    BY DEF SessRecs, States
  <2>3. [s EXCEPT !.state = "completed"].over = s.over
    BY DEF SessRecs
  <2> QED BY <2>1, <2>2, <2>3
<1>4. CASE x[1] = "needs_pr"
  <2>1. Local!Hear(s, x) \in {s, [s EXCEPT !.state = "needs_pr", !.reason = y]}
    BY <1>1, <1>4 DEF Local!Hear
  <2>2. [s EXCEPT !.state = "needs_pr", !.reason = y] \in SessRecs
    BY DEF SessRecs, States
  <2>3. [s EXCEPT !.state = "needs_pr", !.reason = y].over = s.over
    BY DEF SessRecs
  <2> QED BY <2>1, <2>2, <2>3
<1>5. CASE x[1] = "blocked"
  <2>1. Local!Hear(s, x) \in {s, [s EXCEPT !.state = "blocked", !.reason = y]}
    BY <1>1, <1>5 DEF Local!Hear
  <2>2. [s EXCEPT !.state = "blocked", !.reason = y] \in SessRecs
    BY DEF SessRecs, States
  <2>3. [s EXCEPT !.state = "blocked", !.reason = y].over = s.over
    BY DEF SessRecs
  <2> QED BY <2>1, <2>2, <2>3
<1>6. CASE x[1] \notin Local!Sentinels
  BY <1>6 DEF Local!Hear, Local!Sentinels
<1> QED BY <1>2, <1>3, <1>4, <1>5, <1>6 DEF Local!Sentinels

LEMMA HearSpoken ==
  ASSUME NEW s \in SessRecs, NEW x \in Spoken
  PROVE  Heard(s, Local!Hear(s, x), x)
<1>1. x \in Seq(Pieces) /\ x # <<>> /\ x[1] \in Local!Sentinels /\ (x[1] = "ask" => Tail(x) # <<>>)
  BY SpokenLine
<1>2. CASE x[1] = "ask"
  BY <1>1, <1>2 DEF Local!Hear, SessRecs, Heard
<1>3. CASE x[1] = "complete"
  BY <1>1, <1>3 DEF Local!Hear, SessRecs, Heard, Agrees, StateFor
<1>4. CASE x[1] = "needs_pr"
  BY <1>1, <1>4 DEF Local!Hear, SessRecs, Heard, Agrees, StateFor
<1>5. CASE x[1] = "blocked"
  BY <1>1, <1>5 DEF Local!Hear, SessRecs, Heard, Agrees, StateFor
<1> QED BY <1>1, <1>2, <1>3, <1>4, <1>5 DEF Local!Sentinels

-----------------------------------------------------------------------------
\* The first mark is heard to its end.
LEMMA FirstHeard ==
  ASSUME NEW m, DOMAIN m \subseteq Int, NEW p \in DOMAIN m, \A q \in DOMAIN m : p <= q,
         NEW s, NEW t, NEW l, Told(m, s, l), Heard(s, t, m[p]),
         NEW n, DOMAIN n = DOMAIN m \ {p}, \A q \in DOMAIN n : n[q] = m[q]
  PROVE  Told(n, t, l)
<1>1. Asks(n) = Asks(m) \ {p}
  BY DEF Asks
<1>2. l.asked <=> t.question # <<>> \/ Asks(n) # {}
  BY <1>1 DEF Told, Heard, Asks
<1>3. Counting(n, t) = Counting(m, s) \ {p}
  <2>1. CASE m[p][1] = "ask"
    BY <1>1, <2>1 DEF Heard, Counting, Asks
  <2>2. CASE m[p][1] # "ask"
    BY <1>1, <2>2 DEF Heard, Counting, Asks
  <2> QED BY <2>1, <2>2
<1>4. Counting(n, t) = {} => Agrees(t, l.line)
  <2> SUFFICES ASSUME Counting(n, t) = {} PROVE Agrees(t, l.line)
    OBVIOUS
  <2>1. CASE p \in Counting(m, s)
    <3>1. m[p] = l.line
      BY <1>3, <2>1 DEF Told, Counting
    <3>2. CASE m[p][1] = "ask"
      BY <2>1, <3>1, <3>2 DEF Counting, Asks, Heard, Agrees, StateFor
    <3> QED BY <3>1, <3>2 DEF Heard
  <2>2. CASE p \notin Counting(m, s)
    <3>1. m[p][1] = "ask" /\ s.question # <<>>
      BY <2>2 DEF Counting, Asks
    <3> QED BY <1>3, <2>2, <3>1 DEF Heard, Told
  <2> QED BY <2>1, <2>2
<1>5. ASSUME NEW q \in Counting(n, t), \A r \in Counting(n, t) : r <= q
      PROVE  n[q] = l.line
  <2>1. \A r \in Counting(m, s) : r <= q
    BY <1>3, <1>5 DEF Counting
  <2> QED BY <1>3, <1>5, <2>1 DEF Told, Counting
<1> QED BY <1>2, <1>4, <1>5 DEF Told

\* The first mark is heard in part, and stands where the parser is.
LEMMA FirstGoesOn ==
  ASSUME NEW m, DOMAIN m \subseteq Int, NEW p \in DOMAIN m, \A q \in DOMAIN m : p <= q,
         NEW s, NEW t, NEW l, Told(m, s, l),
         t.question = s.question, m[p][1] = "ask" => t = s,
         NEW r \in Int, p <= r, \A q \in DOMAIN m \ {p} : r < q,
         NEW n, DOMAIN n = (DOMAIN m \ {p}) \cup {r},
         n[r] = m[p], \A q \in DOMAIN m \ {p} : n[q] = m[q]
  PROVE  Told(n, t, l)
<1>1. Asks(n) = IF p \in Asks(m) THEN (Asks(m) \ {p}) \cup {r} ELSE Asks(m)
  BY DEF Asks
<1>2. Counting(n, t) =
        IF p \in Counting(m, s) THEN (Counting(m, s) \ {p}) \cup {r} ELSE Counting(m, s)
  <2>1. CASE p \in Asks(m)
    BY <1>1, <2>1 DEF Counting, Asks
  <2>2. CASE p \notin Asks(m)
    BY <1>1, <2>2 DEF Counting, Asks
  <2> QED BY <2>1, <2>2
<1>3. l.asked <=> t.question # <<>> \/ Asks(n) # {}
  BY <1>1 DEF Told, Asks
<1>4. Counting(n, t) = {} => Agrees(t, l.line)
  <2>1. CASE m[p][1] = "ask"
    BY <1>2, <2>1 DEF Told
  <2>2. CASE m[p][1] # "ask"
    <3>1. p \in Counting(m, s)
      BY <2>2 DEF Counting, Asks
    <3> QED BY <1>2, <3>1
  <2> QED BY <2>1, <2>2
<1>5. ASSUME NEW q \in Counting(n, t), \A u \in Counting(n, t) : u <= q
      PROVE  n[q] = l.line
  <2>1. Counting(m, s) \subseteq DOMAIN m /\ Counting(n, t) \subseteq DOMAIN n
    BY DEF Counting
  <2>2. CASE q = r /\ p \in Counting(m, s)
    <3>1. \A u \in Counting(m, s) : u <= p
      BY <1>2, <1>5, <2>1, <2>2
    <3> QED BY <2>1, <2>2, <3>1 DEF Told
  <2>3. CASE ~(q = r /\ p \in Counting(m, s))
    <3>1. q \in Counting(m, s) /\ q # p /\ q # r
      BY <1>2, <1>5, <2>1, <2>3
    <3>2. \A u \in Counting(m, s) : u <= q
      BY <1>2, <1>5, <2>1, <3>1
    <3> QED BY <2>1, <3>1, <3>2 DEF Told
  <2> QED BY <2>2, <2>3
<1> QED BY <1>3, <1>4, <1>5 DEF Told

\* A line is said.
LEMMA LineSaid ==
  ASSUME NEW m, DOMAIN m \subseteq Int, NEW p \in Int, \A q \in DOMAIN m : q < p,
         NEW s, Told(m, s, said), said.asked \in BOOLEAN, NEW x \in Spoken,
         NEW n, DOMAIN n = DOMAIN m \cup {p},
         n[p] = x, \A q \in DOMAIN m : n[q] = m[q]
  PROVE  Told(n, s, Local!Counts(x))
<1> DEFINE l == Local!Counts(x)
<1>0. x # <<>> /\ x[1] \in Local!Sentinels
  BY SpokenLine
<1>1. p \notin DOMAIN m /\ Asks(n) = IF x[1] = "ask" THEN Asks(m) \cup {p} ELSE Asks(m)
  BY DEF Asks
<1>2. Counting(m, s) \subseteq DOMAIN m /\ Counting(n, s) \subseteq DOMAIN n
  BY DEF Counting
<1>3. CASE x[1] = "ask" /\ said.asked
  <2>1. l = said
    BY <1>0, <1>3 DEF Local!Counts
  <2>2. Counting(n, s) = Counting(m, s)
    BY <1>1, <1>3 DEF Counting, Told, Asks
  <2>3. l.asked <=> s.question # <<>> \/ Asks(n) # {}
    BY <1>1, <1>3, <2>1 DEF Told
  <2> QED BY <1>1, <1>2, <2>1, <2>2, <2>3 DEF Told
<1>4. CASE ~(x[1] = "ask" /\ said.asked)
  <2>1. l = [line |-> x, asked |-> said.asked \/ x[1] = "ask"]
    BY <1>0, <1>4 DEF Local!Counts
  <2>2. p \in Counting(n, s)
    BY <1>1, <1>4 DEF Counting, Told, Asks
  <2>3. l.asked <=> s.question # <<>> \/ Asks(n) # {}
    <3>1. CASE x[1] = "ask"
      <4>1. l.asked
        <5>1. (said.asked \/ x[1] = "ask") = TRUE
          BY <3>1
        <5> HIDE DEF l
        <5> QED BY <2>1, <5>1
      <4>2. p \in Asks(n)
        BY <1>1, <3>1
      <4> QED BY <4>1, <4>2
    <3>2. CASE x[1] # "ask"
      <4>1. l.asked = said.asked
        BY <2>1, <3>2
      <4> QED BY <1>1, <3>2, <4>1 DEF Told
    <3> QED BY <3>1, <3>2
  <2>4. ASSUME NEW q \in Counting(n, s), \A u \in Counting(n, s) : u <= q
        PROVE  n[q] = l.line
    BY <1>2, <2>1, <2>2, <2>4
  <2> QED BY <2>2, <2>3, <2>4 DEF Told
<1> QED BY <1>3, <1>4

-----------------------------------------------------------------------------
LEMMA PiecesDiffer == "end" \notin Pieces /\ Local!Sentinels \subseteq Words /\ Words \subseteq Pieces
BY DEF Pieces, Words, Local!Sentinels

LEMMA InChain ==
  ASSUME NEW x \in Pieces, x # "nl"
  PROVE  /\ Follows(x) \subseteq {"nl", "a", "b"}
         /\ {"nl", "a", "b"} \cap Words = {} /\ {"nl", "a", "b"} \subseteq Pieces
         /\ x \in {"complete", "plain", "b"} => Follows(x) = {"nl"}
         /\ x \in {"ask", "blocked", "needs_pr"} => Follows(x) = {"a"}
         /\ x = "a" => Follows(x) = {"b"}
BY DEF Follows, Pieces, Words, Local!Sentinels

\* Deltas: any cut of a message.
Delta(c, n) == SubSeq(c, 1, n)
Left(c, n)  == SubSeq(c, n + 1, Len(c))

LEMMA ChainCut ==
  ASSUME NEW c, Chain(c), Local!Last(c) = "nl", NEW n \in 1..Len(c)
  PROVE  /\ Chain(Delta(c, n)) /\ Delta(c, n)[1] = c[1]
         /\ n = Len(c) => Left(c, n) = <<>> /\ Local!Last(Delta(c, n)) = "nl"
         /\ n < Len(c) => /\ Chain(Left(c, n)) /\ Local!Last(Left(c, n)) = "nl"
                         /\ Left(c, n)[1] \in Follows(Local!Last(Delta(c, n)))
                         /\ Left(c, n)[1] \notin Words
<1>a. PICK t : t = Delta(c, n)
  OBVIOUS
<1>b. PICK u : u = Left(c, n)
  OBVIOUS
<1>1. c \in Seq(Pieces) /\ c # <<>> /\ Len(c) \in Nat /\ n \in Nat /\ c[Len(c)] = "nl"
  BY DEF Chain, Local!Last
<1>2. \A i \in 1..(Len(c) - 1) : c[i] # "nl" /\ c[i + 1] \in Follows(c[i])
  BY DEF Chain
<1>3. t \in Seq(Pieces) /\ Len(t) = n /\ \A i \in 1..n : t[i] = c[i]
  BY <1>1, <1>a DEF Delta
<1>4. Chain(t) /\ t[1] = c[1] /\ Local!Last(t) = c[n]
  <2>1. t # <<>>
    BY <1>3, NotEmpty
  <2>2. \A i \in 1..(Len(t) - 1) : t[i] # "nl" /\ t[i + 1] \in Follows(t[i])
    <3> SUFFICES ASSUME NEW i \in 1..(Len(t) - 1)
                 PROVE  t[i] # "nl" /\ t[i + 1] \in Follows(t[i])
      OBVIOUS
    <3>1. i \in 1..(Len(c) - 1) /\ t[i] = c[i] /\ t[i + 1] = c[i + 1]
      BY <1>1, <1>3
    <3> QED BY <1>2, <3>1
  <2>3. t[1] = c[1] /\ Local!Last(t) = c[n]
    BY <1>1, <1>3 DEF Local!Last
  <2> QED BY <1>3, <2>1, <2>2, <2>3 DEF Chain
<1>5. CASE n = Len(c)
  <2>1. u = <<>>
    BY <1>1, <1>5, <1>b DEF Left
  <2> QED BY <1>1, <1>a, <1>b, <1>4, <1>5, <2>1
<1>6. CASE n < Len(c)
  <2>1. u \in Seq(Pieces) /\ Len(u) = Len(c) - n /\ \A i \in 1..(Len(c) - n) : u[i] = c[n + i]
    BY <1>1, <1>6, <1>b DEF Left
  <2>2. u # <<>>
    <3>1. Len(u) # 0
      BY <1>1, <1>6, <2>1
    <3> QED BY ONLY <3>1, NotEmpty
  <2>3. \A i \in 1..(Len(u) - 1) : u[i] # "nl" /\ u[i + 1] \in Follows(u[i])
    <3> SUFFICES ASSUME NEW i \in 1..(Len(u) - 1)
                 PROVE  u[i] # "nl" /\ u[i + 1] \in Follows(u[i])
      OBVIOUS
    <3>1. n + i \in 1..(Len(c) - 1) /\ u[i] = c[n + i] /\ u[i + 1] = c[(n + i) + 1]
      BY <1>1, <1>6, <2>1
    <3> QED BY <1>2, <3>1
  <2>4. Local!Last(u) = "nl"
    <3>1. Local!Last(u) = u[Len(c) - n]
      BY <2>1 DEF Local!Last
    <3>3. Len(c) - n \in 1..(Len(c) - n)
      BY <1>1, <1>6
    <3>2. u[Len(c) - n] = c[n + (Len(c) - n)] /\ n + (Len(c) - n) = Len(c)
      BY <1>1, <2>1, <3>3
    <3> QED BY <1>1, <3>1, <3>2
  <2>5. u[1] = c[n + 1] /\ c[n] # "nl" /\ c[n + 1] \in Follows(c[n]) /\ c[n] \in Pieces
    BY <1>1, <1>2, <1>6, <2>1
  <2>6. u[1] \notin Words
    BY <2>5, InChain
  <2>7. Chain(u)
    BY <2>1, <2>2, <2>3 DEF Chain
  <2> QED BY <1>a, <1>b, <1>4, <1>6, <2>4, <2>5, <2>6, <2>7
<1>7. n = Len(c) \/ n < Len(c)
  BY <1>1
<1> QED BY <1>a, <1>b, <1>4, <1>5, <1>6, <1>7

\* What is in flight, and the delta that follows it.
LEMMA ChainJoin ==
  ASSUME NEW c, Chain(c), Local!Last(c) # "nl", NEW t, Chain(t), t[1] \in Follows(Local!Last(c))
  PROVE  /\ Chain(c \o t) /\ (c \o t)[1] = c[1] /\ Local!Last(c \o t) = Local!Last(t)
         /\ Len(c \o t) > Len(c) /\ Len(c) > 0
<1>0. PICK d : d = c \o t
  OBVIOUS
<1>1. /\ c \in Seq(Pieces) /\ t \in Seq(Pieces) /\ Len(c) \in Nat \ {0} /\ Len(t) \in Nat \ {0}
      /\ c[Len(c)] # "nl" /\ t[1] \in Follows(c[Len(c)])
  BY DEF Chain, Local!Last
<1>2. /\ \A i \in 1..(Len(c) - 1) : c[i] # "nl" /\ c[i + 1] \in Follows(c[i])
      /\ \A i \in 1..(Len(t) - 1) : t[i] # "nl" /\ t[i + 1] \in Follows(t[i])
  BY DEF Chain
<1>3. /\ d \in Seq(Pieces) /\ Len(d) = Len(c) + Len(t)
      /\ \A i \in 1..Len(c) : d[i] = c[i]
      /\ \A i \in 1..Len(t) : d[Len(c) + i] = t[i]
  BY <1>0, <1>1
<1>4. d # <<>>
  BY <1>1, <1>3, NotEmpty
<1>5. ASSUME NEW i \in 1..(Len(d) - 1)
      PROVE  d[i] # "nl" /\ d[i + 1] \in Follows(d[i])
  <2>1. CASE i < Len(c)
    <3>1. i \in 1..(Len(c) - 1) /\ i + 1 \in 1..Len(c) /\ i \in 1..Len(c)
      BY <1>1, <2>1
    <3> QED BY <1>2, <1>3, <3>1
  <2>2. CASE i = Len(c)
    <3>1. d[i] = c[Len(c)] /\ d[i + 1] = t[1]
      BY <1>1, <1>3, <2>2
    <3> QED BY <1>1, <3>1
  <2>3. CASE i > Len(c)
    <3>1. PICK j \in 1..(Len(t) - 1) : i = Len(c) + j
      <4>1. i - Len(c) \in 1..(Len(t) - 1) /\ i = Len(c) + (i - Len(c))
        BY <1>1, <1>3, <2>3
      <4> QED BY <4>1
    <3>2. d[i] = t[j] /\ d[i + 1] = t[j + 1]
      BY <1>1, <1>3, <3>1
    <3> QED BY <1>2, <3>2
  <2> QED BY <1>1, <1>3, <2>1, <2>2, <2>3
<1>6. d[1] = c[1] /\ Local!Last(d) = Local!Last(t)
  BY <1>1, <1>3 DEF Local!Last
<1>7. Chain(d) /\ Len(d) > Len(c) /\ Len(c) > 0
  BY <1>1, <1>3, <1>4, <1>5 DEF Chain
<1> QED BY <1>0, <1>6, <1>7

LEMMA ShortLine ==
  ASSUME NEW s \in Seq(Pieces), Len(s) = 1
  PROVE  s = <<s[1]>>
OBVIOUS

LEMMA FirstPieces ==
  ASSUME NEW s \in Seq(Pieces), NEW n \in 1..Len(s)
  PROVE  /\ SubSeq(s, 1, n) \in Seq(Pieces) /\ Len(SubSeq(s, 1, n)) = n
         /\ \A i \in 1..n : SubSeq(s, 1, n)[i] = s[i]
OBVIOUS

LEMMA LongLine ==
  ASSUME NEW s \in Seq(Pieces), Len(s) = 3
  PROVE  s = <<s[1], s[2], s[3]>>
OBVIOUS

\* A whole message is its line and an end.
LEMMA ChainWhole ==
  ASSUME NEW c, Chain(c), Local!Last(c) = "nl", c[1] \in Words
  PROVE  Local!Front(c) = Local!Said(c[1])
<1>1. c \in Seq(Pieces) /\ Len(c) \in Nat \ {0} /\ c[Len(c)] = "nl"
  BY DEF Chain, Local!Last
<1>2. \A i \in 1..(Len(c) - 1) : c[i] # "nl" /\ c[i + 1] \in Follows(c[i]) /\ c[i] \in Pieces
  BY <1>1 DEF Chain
<1>3. Len(c) > 1 /\ c[1] \in Pieces /\ c[1] # "nl"
  BY <1>1, PiecesDiffer DEF Words, Local!Sentinels
<1>4. CASE c[1] \in {"complete", "plain"}
  <2>1. c[2] = "nl"
    BY <1>2, <1>3, <1>4, InChain
  <2>2. Len(c) = 2
    <3>1. 2 \notin 1..(Len(c) - 1)
      BY <1>2, <2>1
    <3>2. ASSUME NEW n \in Nat, n > 1, 2 \notin 1..(n - 1) PROVE n = 2
      BY ONLY <3>2
    <3> QED BY ONLY <1>1, <1>3, <3>1, <3>2
  <2>3. Local!Front(c) = <<c[1]>>
    <3>1. Local!Front(c) = SubSeq(c, 1, 1)
      BY <1>1, <2>2 DEF Local!Front
    <3>2. Local!Front(c) \in Seq(Pieces) /\ Len(Local!Front(c)) = 1 /\ \A i \in 1..1 : Local!Front(c)[i] = c[i]
      BY <1>1, <2>2, <3>1
    <3> QED BY <3>2, ShortLine
  <2> QED BY <1>4, <2>3, LinesFound
<1>5. CASE c[1] \in {"ask", "blocked", "needs_pr"}
  <2>1. c[2] = "a"
    BY <1>2, <1>3, <1>5, InChain
  <2>2. Len(c) > 2
    BY <1>1, <1>3, <2>1
  <2>3. c[3] = "b"
    <3>1. c[2] # "nl" /\ c[3] \in Follows(c[2]) /\ c[2] \in Pieces
      BY <1>1, <1>2, <2>2
    <3> QED BY <2>1, <3>1, InChain
  <2>4. Len(c) > 3
    BY <1>1, <2>2, <2>3
  <2>5. c[4] = "nl"
    <3>1. c[3] # "nl" /\ c[4] \in Follows(c[3]) /\ c[3] \in Pieces
      BY <1>1, <1>2, <2>4
    <3> QED BY <2>3, <3>1, InChain
  <2>6. Len(c) = 4
    <3>1. 4 \notin 1..(Len(c) - 1)
      BY <1>2, <2>5
    <3>2. ASSUME NEW n \in Nat, n > 3, 4 \notin 1..(n - 1) PROVE n = 4
      BY ONLY <3>2
    <3> QED BY ONLY <1>1, <2>4, <3>1, <3>2
  <2>7. Local!Front(c) = <<c[1], c[2], c[3]>>
    <3>1. Local!Front(c) = SubSeq(c, 1, 3)
      BY <1>1, <2>6 DEF Local!Front
    <3>2. /\ Local!Front(c) \in Seq(Pieces) /\ Len(Local!Front(c)) = 3
          /\ \A i \in 1..3 : Local!Front(c)[i] = c[i]
      <4>1. c \in Seq(Pieces) /\ 3 \in 1..Len(c)
        BY <1>1, <2>6
      <4>2. /\ SubSeq(c, 1, 3) \in Seq(Pieces) /\ Len(SubSeq(c, 1, 3)) = 3
            /\ \A i \in 1..3 : SubSeq(c, 1, 3)[i] = c[i]
        BY ONLY <4>1, FirstPieces
      <4> QED BY ONLY <3>1, <4>2
    <3>3. Local!Front(c)[1] = c[1] /\ Local!Front(c)[2] = c[2] /\ Local!Front(c)[3] = c[3]
      BY <3>2
    <3> QED BY <3>2, <3>3, LongLine
  <2> QED BY <1>5, <2>1, <2>3, <2>7, LinesFound
<1> QED BY <1>4, <1>5 DEF Words, Local!Sentinels

\* A message as it is put to file, and its line.
LEMMA WholeLine ==
  ASSUME NEW x \in Seq(Pieces), x # <<>>
  PROVE  /\ Append(x, "nl") \in Seq(Pieces) /\ Local!Line(Append(x, "nl")) = x
         /\ Append(x, "nl")[1] = x[1] /\ Local!Last(Append(x, "nl")) = "nl"
         /\ Append(x, "nl") # <<>>
<1> DEFINE c == Append(x, "nl")
<1>1. "nl" \in Pieces
  BY DEF Pieces
<1>2. /\ c \in Seq(Pieces) /\ Len(c) = Len(x) + 1 /\ c[Len(x) + 1] = "nl" /\ Len(x) > 0
      /\ \A i \in 1..Len(x) : c[i] = x[i]
  BY <1>1
<1> HIDE DEF c
<1>3. Local!Last(c) = "nl" /\ c[1] = x[1] /\ c # <<>>
  BY <1>2 DEF Local!Last
<1>4. Local!Front(c) = x
  <2>1. Local!Front(c) = SubSeq(c, 1, Len(x))
    BY <1>2 DEF Local!Front
  <2> QED BY <1>2, <2>1
<1> QED BY <1>2, <1>3, <1>4 DEF Local!Line, c

-----------------------------------------------------------------------------
LEMMA ShapeTypes ==
  ASSUME Shape
  PROVE  /\ Len(events) \in Nat /\ at \in Nat /\ at <= Len(events)
         /\ \A p \in 1..Len(events) : events[p] \in EventRecs
BY DEF Shape

\* In the harness a text is a whole message.
LEMMA HarnessTexts ==
  ASSUME Shape, HarnessFile, strategy = "harness", NEW p \in 1..Len(events),
         events[p].type = "text"
  PROVE  \E x \in Spoken \cup {<<"plain">>} :
           /\ events[p].text = Append(x, "nl") /\ Local!Line(events[p].text) = x
           /\ Lead(p) = x[1] /\ x \in Seq(Pieces) /\ x # <<>> /\ events[p].text \in Seq(Pieces)
           /\ x \in Spoken <=> Lead(p) \in Local!Sentinels
<1>1. PICK x \in Spoken \cup {<<"plain">>} : events[p].text = Append(x, "nl")
  BY DEF HarnessFile
<1>2. x \in Seq(Pieces) /\ x # <<>> /\ (x \in Spoken <=> x[1] \in Local!Sentinels)
  <2>1. CASE x \in Spoken
    BY <2>1, SpokenLine
  <2>2. CASE x = <<"plain">>
    <3>1. "plain" \in Pieces /\ "plain" \notin Local!Sentinels
      BY DEF Pieces, Words, Local!Sentinels
    <3>2. x \in Seq(Pieces) /\ Len(x) = 1 /\ x[1] = "plain"
      BY <2>2, <3>1, OnePiece
    <3>3. x # <<>>
      BY <3>2, NotEmpty
    <3>4. x \notin Spoken
      BY <3>1, <3>2, SpokenLine
    <3> QED BY <3>1, <3>2, <3>3, <3>4
  <2> QED BY <2>1, <2>2
<1>3. /\ Append(x, "nl") \in Seq(Pieces) /\ Local!Line(Append(x, "nl")) = x /\ Append(x, "nl")[1] = x[1]
  BY <1>2, WholeLine
<1>4. Lead(p) = x[1]
  BY <1>1, <1>3, ShapeTypes DEF Lead
<1> QED BY <1>1, <1>2, <1>3, <1>4

LEMMA MarksOf ==
  ASSUME Shape, HarnessFile, CliFile
  PROVE  /\ DOMAIN marks \subseteq at..(Len(events) + 1) /\ DOMAIN marks \subseteq Int
         /\ \A q \in at..(Len(events) + 1) : q \in DOMAIN marks <=> Word(q) \in Local!Sentinels
         /\ \A q \in DOMAIN marks : marks[q] = LineAt(q) /\ marks[q] \in Spoken
         /\ strategy = "harness" => DOMAIN marks \subseteq (at + 1)..Len(events)
         /\ strategy = "cli" => \A q \in DOMAIN marks : marks[q] = Local!Said(Word(q))
<1>0. "end" \notin Local!Sentinels /\ strategy \in {"harness", "cli"}
  BY DEF Local!Sentinels, Shape
<1>1. /\ DOMAIN marks = {q \in at..(Len(events) + 1) : Word(q) \in Local!Sentinels}
      /\ \A q \in DOMAIN marks : marks[q] = LineAt(q)
  BY DEF marks
<1>2. CASE strategy = "harness"
  <2>1. ASSUME NEW q \in DOMAIN marks PROVE q \in (at + 1)..Len(events) /\ marks[q] \in Spoken
    <3>1. q \in at..(Len(events) + 1) /\ Word(q) \in Local!Sentinels
      BY <1>1
    <3>2. q # at
      BY <1>0, <1>2, <3>1 DEF Word, Open, HarnessFile
    <3>3. Lead(q) \in Local!Sentinels
      BY <3>1, <3>2 DEF Word
    <3>4. q # Len(events) + 1
      BY <1>0, <1>2, <3>3 DEF Lead, HarnessFile
    <3>5. q \in (at + 1)..Len(events) /\ q \in 1..Len(events)
      BY <3>1, <3>2, <3>4, ShapeTypes
    <3>6. events[q].type = "text"
      BY <1>0, <3>3, <3>4 DEF Lead
    <3>7. Local!Line(events[q].text) \in Spoken
      BY <1>2, <3>3, <3>5, <3>6, HarnessTexts
    <3> QED BY <1>1, <1>2, <3>5, <3>7 DEF LineAt
  <2> QED BY <1>1, <1>2, <2>1, ShapeTypes
<1>3. CASE strategy = "cli"
  <2>1. \A q \in DOMAIN marks : marks[q] = Local!Said(Word(q)) /\ Word(q) \in Local!Sentinels
    BY <1>1, <1>3 DEF LineAt
  <2> QED BY <1>1, <1>3, <2>1, ShapeTypes DEF Spoken
<1> QED BY <1>0, <1>2, <1>3

\* Nothing that the marks are made of changes.
LEMMA MarksStay ==
  ASSUME UNCHANGED <<strategy, events, rest, at, pending>>
  PROVE  marks' = marks
BY DEF marks, Word, Lead, LineAt

LEMMA FilesStay ==
  ASSUME Shape, HarnessFile, CliFile, UNCHANGED <<strategy, events, rest, at, pending, half>>,
         sess' \in SessRecs, sess'.question = sess.question, said' = said,
         strategy = "harness" => phase' # "cli",
         strategy = "cli" =>
           phase' \in {"cli", "ended"} /\ how' \in {"none", "exit", "killed"}
             /\ (phase' = "ended" => cancelled' \/ rest = <<>>)
  PROVE  Shape' /\ HarnessFile' /\ CliFile'
<1>1. Shape'
  BY DEF Shape
<1>2. HarnessFile'
  BY DEF HarnessFile
<1>3. CliFile'
  BY DEF CliFile, Lead, Trail
<1> QED BY <1>1, <1>2, <1>3

-----------------------------------------------------------------------------
\* The parser takes an event.

\* What a step of the parser leaves of the marks, but for the message it is in.
LEMMA ReadMarks ==
  ASSUME Shape, HarnessFile, CliFile, Shape', HarnessFile', CliFile',
         at < Len(events), at' = at + 1, UNCHANGED <<strategy, events, rest>>
  PROVE  /\ DOMAIN marks' \subseteq (at + 1)..(Len(events) + 1)
         /\ \A q \in (at + 2)..(Len(events) + 1) :
              /\ q \in DOMAIN marks' <=> q \in DOMAIN marks
              /\ q \in DOMAIN marks => marks'[q] = marks[q]
         /\ at + 1 \in DOMAIN marks' <=> Open(pending') /\ pending'[1] \in Local!Sentinels
         /\ at + 1 \in DOMAIN marks' /\ strategy = "cli" => marks'[at + 1] = Local!Said(pending'[1])
         /\ at \in DOMAIN marks <=> Open(pending) /\ pending[1] \in Local!Sentinels
         /\ at \in DOMAIN marks /\ strategy = "cli" => marks[at] = Local!Said(pending[1])
         /\ at + 1 \in DOMAIN marks <=>
              events[at + 1].type = "text" /\ events[at + 1].text[1] \in Local!Sentinels
         /\ at + 1 \in DOMAIN marks /\ strategy = "cli" =>
              marks[at + 1] = Local!Said(events[at + 1].text[1])
         /\ at + 1 \in DOMAIN marks /\ strategy = "harness" =>
              marks[at + 1] = Local!Line(events[at + 1].text)
<1>0. "end" \notin Local!Sentinels /\ at \in Nat /\ Len(events) \in Nat /\ at + 1 # Len(events) + 1
  BY ShapeTypes DEF Local!Sentinels
<1> DEFINE D  == {q \in at..(Len(events) + 1) : Word(q) \in Local!Sentinels}
           D1 == {q \in (at + 1)..(Len(events) + 1) : Word(q)' \in Local!Sentinels}
<1>1. DOMAIN marks = D /\ \A q \in D : marks[q] = LineAt(q)
  BY DEF marks
<1>2. DOMAIN marks' = D1 /\ \A q \in D1 : marks'[q] = LineAt(q)'
  BY DEF marks
<1>3. \A q \in (at + 2)..(Len(events) + 1) : Word(q)' = Word(q) /\ LineAt(q)' = LineAt(q)
  BY <1>0 DEF Word, LineAt, Lead
<1>4. Word(at) = IF Open(pending) THEN pending[1] ELSE "end"
  BY DEF Word
<1>5. Word(at + 1) = IF events[at + 1].type = "text" THEN events[at + 1].text[1] ELSE "end"
  BY <1>0 DEF Word, Lead
<1>6. \A q \in {at + 1} : Word(q)' = IF Open(pending') THEN pending'[1] ELSE "end"
  BY DEF Word
<1> HIDE DEF D, D1
<1>7. /\ D1 \subseteq (at + 1)..(Len(events) + 1)
      /\ \A q \in (at + 2)..(Len(events) + 1) : q \in D1 <=> q \in D
      /\ at + 1 \in D1 <=> Open(pending') /\ pending'[1] \in Local!Sentinels
      /\ at \in D <=> Open(pending) /\ pending[1] \in Local!Sentinels
      /\ at + 1 \in D <=> events[at + 1].type = "text" /\ events[at + 1].text[1] \in Local!Sentinels
  BY <1>0, <1>3, <1>4, <1>5, <1>6 DEF D, D1
<1>8. \A q \in (at + 2)..(Len(events) + 1) : q \in D => marks'[q] = marks[q]
  BY <1>1, <1>2, <1>3, <1>7
<1>9. at + 1 \in D1 /\ strategy = "cli" => marks'[at + 1] = Local!Said(pending'[1])
  <2>1. \A q \in D1 : q = at + 1 /\ strategy = "cli" => marks'[q] = Local!Said(pending'[1])
    <3> SUFFICES ASSUME NEW q \in D1, q = at + 1, strategy = "cli"
                 PROVE  marks'[q] = Local!Said(pending'[1])
      OBVIOUS
    <3>1. Word(q)' = pending'[1]
      BY <1>6, <1>7
    <3>2. LineAt(q)' = Local!Said(Word(q)')
      BY DEF LineAt
    <3> QED BY <1>2, <3>1, <3>2
  <2> QED BY <2>1
<1>10. /\ at \in D /\ strategy = "cli" => marks[at] = Local!Said(pending[1])
       /\ at + 1 \in D /\ strategy = "cli" => marks[at + 1] = Local!Said(events[at + 1].text[1])
       /\ at + 1 \in D /\ strategy = "harness" => marks[at + 1] = Local!Line(events[at + 1].text)
  BY <1>1, <1>4, <1>5, <1>7 DEF LineAt
<1> QED BY <1>1, <1>2, <1>7, <1>8, <1>9, <1>10

LEMMA ReadParts ==
  ASSUME Shape, Local!ReadEvent, NEW e, e = events[at + 1], NEW c, c = pending \o e.text
  PROVE  /\ at < Len(events) /\ ~sess.over /\ at' = at + 1
         /\ UNCHANGED <<strategy, events, rest, half, said, cancelled, phase, how, err>>
         /\ e \in EventRecs
         /\ e.type # "text" => pending' = <<>> /\ sess' = Local!Hear(sess, pending)
         /\ e.type = "text" => /\ pending' = IF Local!Last(c) = "nl" THEN <<>> ELSE c
                               /\ sess' = Local!Hear(sess, Local!Line(c))
<1>1. /\ at < Len(events) /\ ~sess.over /\ at' = at + 1
      /\ UNCHANGED <<strategy, events, rest, half, said, cancelled, phase, how, err>>
  BY DEF Local!ReadEvent, Local!loop, Local!file
<1>2. e \in EventRecs /\ e.type \in Kinds
  <2>1. at + 1 \in 1..Len(events)
    BY <1>1, ShapeTypes
  <2> QED BY <2>1, ShapeTypes DEF EventRecs
<1>3. half = FALSE /\ e.type # "torn" /\ events[at'] = e
  BY <1>1, <1>2 DEF Kinds, Shape
<1>4. pending' = Local!Feed(pending, e).pending /\ sess' = Local!Hear(sess, Local!Feed(pending, e).line)
  BY <1>3 DEF Local!ReadEvent
<1>5. CASE e.type = "text"
  <2>1. Local!Feed(pending, e) = [line |-> Local!Line(c), pending |-> IF Local!Last(c) = "nl" THEN <<>> ELSE c]
    BY <1>5 DEF Local!Feed
  <2> QED BY <1>1, <1>2, <1>4, <1>5, <2>1
<1>6. CASE e.type # "text"
  <2>1. Local!Feed(pending, e) = [line |-> pending, pending |-> <<>>]
    BY <1>3, <1>6 DEF Local!Feed
  <2> QED BY <1>1, <1>2, <1>4, <1>6, <2>1
<1> QED BY <1>5, <1>6

LEMMA HearPlain ==
  ASSUME NEW s, NEW x, x = <<>> \/ x[1] = "plain"
  PROVE  Local!Hear(s, x) = s
BY DEF Local!Hear

LEMMA SaidFirst ==
  ASSUME NEW w \in Words
  PROVE  Local!Said(w)[1] = w
<1>1. CASE w \in {"complete", "plain"}
  BY <1>1, LinesFound
<1>2. CASE w \in {"ask", "blocked", "needs_pr"}
  BY <1>2, LinesFound
<1> QED BY <1>1, <1>2 DEF Words, Local!Sentinels

\* A question that is heard with a part of its text is taken, unless one is pending.
LEMMA HearAsk ==
  ASSUME NEW s \in SessRecs, NEW x \in Seq(Pieces), x # <<>>, x[1] = "ask", Len(x) > 1
  PROVE  Local!Hear(s, x).question # <<>> /\ Heard(s, Local!Hear(s, x), Local!Said("ask"))
<1>1. PICK y \in Seq(Pieces) : y = Tail(x) /\ y # <<>>
  <2>1. Tail(x) \in Seq(Pieces) /\ Len(Tail(x)) = Len(x) - 1
    BY TailOf
  <2>2. 1 \in DOMAIN Tail(x)
    BY <2>1
  <2>3. Tail(x) # <<>>
    <3>1. DOMAIN <<>> = {}
      OBVIOUS
    <3> QED BY ONLY <2>2, <3>1
  <2> QED BY <2>1, <2>3
<1>2. Local!Hear(s, x) = IF s.question # <<>> THEN s ELSE [s EXCEPT !.state = "paused", !.question = y]
  BY <1>1 DEF Local!Hear
<1>3. Local!Said("ask")[1] = "ask"
  BY SaidFirst DEF Words, Local!Sentinels
<1>4. CASE s.question # <<>>
  BY <1>2, <1>3, <1>4 DEF Heard
<1>5. CASE s.question = <<>>
  <2>1. Local!Hear(s, x).state = "paused" /\ Local!Hear(s, x).question = y
    BY <1>2, <1>5 DEF SessRecs
  <2> QED BY <1>1, <1>3, <1>5, <2>1 DEF Heard
<1> QED BY <1>4, <1>5

LEMMA HearNoAsk ==
  ASSUME NEW s, NEW x \in Seq(Pieces), x # <<>>, x[1] = "ask", Len(x) < 2
  PROVE  Local!Hear(s, x) = s
<1>1. Tail(x) = <<>>
  OBVIOUS
<1> QED BY <1>1 DEF Local!Hear

LEMMA HearAgain ==
  ASSUME NEW s, NEW x, x # <<>>, x[1] = "ask", s.question # <<>>
  PROVE  Local!Hear(s, x) = s
BY DEF Local!Hear

LEMMA HearOther ==
  ASSUME NEW s \in SessRecs, NEW x \in Seq(Pieces), x # <<>>
  PROVE  x[1] # "ask" => Local!Hear(s, x).question = s.question
BY DEF Local!Hear, SessRecs

\* What is common to all steps of the parser.
LEMMA ReadRest ==
  ASSUME Shape, HarnessFile, CliFile, EndsSaid, Local!ReadEvent,
         pending' \in Seq(Pieces), sess' \in SessRecs, sess'.over = sess.over,
         strategy = "harness" => pending' = <<>>,
         strategy = "cli" =>
           /\ pending' # <<>> => Chain(pending') /\ Local!Last(pending') # "nl" /\ pending'[1] \in Words
           /\ pending' # <<>> /\ pending'[1] = "ask" /\ Len(pending') > 1 => sess'.question # <<>>
           /\ Trail(at + 1) = IF pending' = <<>> THEN "nl" ELSE Local!Last(pending')
  PROVE  Shape' /\ HarnessFile' /\ CliFile' /\ (Told(marks, sess, said)' => EndsSaid') /\ Local!EndingTold'
<1>1. /\ at < Len(events) /\ ~sess.over /\ at' = at + 1
      /\ UNCHANGED <<strategy, events, rest, half, said, cancelled, phase, how, err>>
  BY ReadParts
<1>2. Shape'
  <2>1. at' \in 0..Len(events')
    BY <1>1, ShapeTypes
  <2> QED BY <1>1, <2>1 DEF Shape
<1>3. HarnessFile'
  BY <1>1 DEF HarnessFile
<1>4. CliFile'
  <2> SUFFICES ASSUME strategy = "cli" PROVE CliFile'
    BY <1>1 DEF CliFile
  <2>1. \A p \in (at + 1)..Len(events) :
          Lead(p + 1)' = Lead(p + 1) /\ Trail(p)' = Trail(p)
    <3> SUFFICES ASSUME NEW p \in (at + 1)..Len(events)
                 PROVE  Lead(p + 1)' = Lead(p + 1) /\ Trail(p)' = Trail(p)
      OBVIOUS
    <3>1. Lead(p + 1)' = Lead(p + 1)
      BY <1>1 DEF Lead
    <3>2. CASE p = at + 1
      <4>1. p = at'
        BY <1>1, <3>2
      <4>2. Trail(p)' = IF pending' = <<>> THEN "nl" ELSE Local!Last(pending')
        BY <4>1 DEF Trail
      <4> QED BY <3>1, <3>2, <4>2
    <3>3. CASE p # at + 1
      <4>1. p # at' /\ p # at
        BY <1>1, <3>3, ShapeTypes
      <4>2. Trail(p)' = Trail(p)
        BY <1>1, <4>1 DEF Trail
      <4> QED BY <3>1, <4>2
    <3> QED BY <3>1, <3>2, <3>3
  <2>2. \A p \in at'..Len(events') : Lead(p + 1)' \in Follows(Trail(p)')
    <3> SUFFICES ASSUME NEW p \in at'..Len(events')
                 PROVE  Lead(p + 1)' \in Follows(Trail(p)')
      OBVIOUS
    <3>1. p \in (at + 1)..Len(events) /\ p \in at..Len(events)
      BY <1>1, ShapeTypes
    <3>2. Lead(p + 1) \in Follows(Trail(p))
      BY <3>1 DEF CliFile
    <3>3. Lead(p + 1)' = Lead(p + 1) /\ Trail(p)' = Trail(p)
      BY <2>1, <3>1
    <3> QED BY <3>2, <3>3
  <2> QED BY <1>1, <2>2 DEF CliFile
<1>5. Told(marks, sess, said)' => EndsSaid'
  BY <1>1 DEF EndsSaid
<1>6. Local!EndingTold'
  BY <1>1 DEF Local!EndingTold
<1> QED BY <1>2, <1>3, <1>4, <1>5, <1>6

LEMMA SameMarks ==
  ASSUME NEW m, DOMAIN m \subseteq Int, NEW n, DOMAIN n = DOMAIN m,
         \A q \in DOMAIN m : n[q] = m[q], NEW s, NEW l, Told(m, s, l)
  PROVE  Told(n, s, l)
<1>1. Asks(n) = Asks(m)
  BY DEF Asks
<1>2. Counting(n, s) = Counting(m, s) /\ Counting(m, s) \subseteq DOMAIN m
  BY <1>1 DEF Counting
<1> QED BY <1>1, <1>2 DEF Told

\* The worker is the tool loop: the parser takes whole messages.
LEMMA ReadHarness ==
  ASSUME OutputInv, Local!ReadEvent, strategy = "harness"
  PROVE  OutputInv'
<1> DEFINE e == events[at + 1]
           c == pending \o e.text
<1>0. Shape /\ HarnessFile /\ CliFile /\ EndsSaid /\ Told(marks, sess, said) /\ pending = <<>>
  BY ReadParts DEF OutputInv, EndsSaid, HarnessFile
<1>1. /\ at < Len(events) /\ ~sess.over /\ at' = at + 1 /\ e \in EventRecs
      /\ UNCHANGED <<strategy, events, rest, half, said, cancelled, phase, how, err>>
      /\ e.type # "text" => pending' = <<>> /\ sess' = Local!Hear(sess, pending)
      /\ e.type = "text" => /\ pending' = IF Local!Last(c) = "nl" THEN <<>> ELSE c
                            /\ sess' = Local!Hear(sess, Local!Line(c))
  BY <1>0, ReadParts
<1>2. at + 1 \in 1..Len(events) /\ Local!Sentinels \subseteq Words /\ at \in Nat
  BY <1>0, <1>1, ShapeTypes, PiecesDiffer
<1>3. <<>> \in Seq(Pieces) /\ sess \in SessRecs
  BY <1>0 DEF Shape
<1>4. ASSUME pending' = <<>>, sess' \in SessRecs, sess'.over = sess.over
      PROVE  /\ Shape' /\ HarnessFile' /\ CliFile' /\ Local!EndingTold'
             /\ Told(marks, sess, said)' => EndsSaid'
             /\ DOMAIN marks' = DOMAIN marks \ {at + 1}
             /\ \A q \in DOMAIN marks' : marks'[q] = marks[q]
             /\ at + 1 \in DOMAIN marks <=> e.type = "text" /\ e.text[1] \in Local!Sentinels
             /\ at + 1 \in DOMAIN marks => marks[at + 1] = Local!Line(e.text)
             /\ DOMAIN marks \subseteq Int /\ \A q \in DOMAIN marks : at + 1 <= q
  <2>1. Shape' /\ HarnessFile' /\ CliFile' /\ (Told(marks, sess, said)' => EndsSaid') /\ Local!EndingTold'
    BY <1>0, <1>3, <1>4, ReadRest
  <2>2. /\ DOMAIN marks' \subseteq (at + 1)..(Len(events) + 1) /\ at + 1 \notin DOMAIN marks'
        /\ \A q \in (at + 2)..(Len(events) + 1) :
              /\ q \in DOMAIN marks' <=> q \in DOMAIN marks
              /\ q \in DOMAIN marks => marks'[q] = marks[q]
        /\ at + 1 \in DOMAIN marks <=> e.type = "text" /\ e.text[1] \in Local!Sentinels
        /\ at + 1 \in DOMAIN marks => marks[at + 1] = Local!Line(e.text)
    BY <1>0, <1>1, <1>4, <2>1, ReadMarks DEF Open
  <2>3. DOMAIN marks \subseteq (at + 1)..Len(events)
    BY <1>0, MarksOf
  <2>4. DOMAIN marks' = DOMAIN marks \ {at + 1}
    <3>1. at \in Nat /\ Len(events) \in Nat
      BY <1>0, ShapeTypes
    <3>2. \A q \in DOMAIN marks \ {at + 1} : q \in (at + 2)..(Len(events) + 1)
      BY <2>3, <3>1
    <3>3. \A q \in DOMAIN marks' : q \in (at + 2)..(Len(events) + 1)
      BY <2>2, <3>1
    <3>4. DOMAIN marks \ {at + 1} \subseteq DOMAIN marks'
      BY <2>2, <3>2
    <3>5. DOMAIN marks' \subseteq DOMAIN marks \ {at + 1}
      BY <2>2, <3>3
    <3> QED BY <3>4, <3>5
  <2>5. \A q \in DOMAIN marks' : q \in (at + 2)..(Len(events) + 1)
    BY <1>2, <2>2, <1>0, ShapeTypes
  <2> QED BY <1>2, <2>1, <2>2, <2>3, <2>4, <2>5, <1>0, ShapeTypes
<1>5. CASE e.type # "text"
  <2>1. pending' = <<>> /\ sess' = sess
    BY <1>0, <1>1, <1>5, HearPlain
  <2>2. DOMAIN marks' = DOMAIN marks /\ DOMAIN marks \subseteq Int
    BY <1>3, <1>4, <1>5, <2>1
  <2>3. Told(marks', sess, said)
    BY <1>0, <1>3, <1>4, <2>1, <2>2, SameMarks
  <2> QED BY <1>1, <1>3, <1>4, <2>1, <2>3 DEF OutputInv
<1>6. CASE e.type = "text"
  <2>1. PICK x \in Spoken \cup {<<"plain">>} :
          /\ e.text = Append(x, "nl") /\ Local!Line(e.text) = x /\ e.text \in Seq(Pieces)
          /\ Lead(at + 1) = x[1] /\ x \in Seq(Pieces) /\ x # <<>>
          /\ x \in Spoken <=> Lead(at + 1) \in Local!Sentinels
    BY <1>0, <1>2, <1>6, HarnessTexts
  <2>2. c = e.text /\ Local!Last(e.text) = "nl" /\ e.text[1] = x[1]
    BY <1>0, <2>1, WholeLine
  <2>3. pending' = <<>> /\ sess' = Local!Hear(sess, x)
    BY <1>1, <1>6, <2>1, <2>2
  <2>4. sess' \in SessRecs /\ sess'.over = sess.over
    BY <1>3, <2>1, <2>3, HearTypes
  <2>5. CASE x \in Spoken
    <3>1. at + 1 \in DOMAIN marks /\ marks[at + 1] = x
      BY <1>4, <1>6, <2>1, <2>2, <2>3, <2>4, <2>5
    <3>2. Heard(sess, sess', marks[at + 1])
      BY <1>3, <2>3, <2>5, <3>1, HearSpoken
    <3>3. Told(marks', sess', said)
      BY <1>0, <1>4, <2>3, <2>4, <3>1, <3>2, FirstHeard
    <3> QED BY <1>1, <1>4, <2>3, <2>4, <3>3 DEF OutputInv
  <2>6. CASE x \notin Spoken
    <3>1. x = <<"plain">> /\ x[1] = "plain"
      BY <2>1, <2>6
    <3>2. sess' = sess
      BY <2>3, <3>1, HearPlain
    <3>3. DOMAIN marks' = DOMAIN marks /\ DOMAIN marks \subseteq Int
      BY <1>4, <2>1, <2>2, <2>3, <2>4, <2>6
    <3>4. Told(marks', sess, said)
      BY <1>0, <1>4, <2>3, <2>4, <3>3, SameMarks
    <3> QED BY <1>1, <1>4, <2>3, <2>4, <3>2, <3>4 DEF OutputInv
  <2> QED BY <2>5, <2>6
<1> QED BY <1>5, <1>6

\* The worker is the CLI: the parser takes a part of a message, or the last event.
LEMMA ReadCli ==
  ASSUME OutputInv, Local!ReadEvent, strategy = "cli"
  PROVE  OutputInv'
<1> DEFINE e == events[at + 1]
           c == pending \o e.text
           d == IF pending = <<>> THEN at + 1 ELSE at
<1>0. Shape /\ HarnessFile /\ CliFile /\ EndsSaid /\ Told(marks, sess, said) /\ sess \in SessRecs
  BY ReadParts DEF OutputInv, EndsSaid, Shape
<1>1. /\ at < Len(events) /\ ~sess.over /\ at' = at + 1 /\ e \in EventRecs
      /\ UNCHANGED <<strategy, events, rest, half, said, cancelled, phase, how, err>>
      /\ e.type # "text" => pending' = <<>> /\ sess' = Local!Hear(sess, pending)
      /\ e.type = "text" => /\ pending' = IF Local!Last(c) = "nl" THEN <<>> ELSE c
                            /\ sess' = Local!Hear(sess, Local!Line(c))
  BY <1>0, ReadParts
<1>2. /\ at + 1 \in 1..Len(events) /\ at \in Nat /\ Len(events) \in Nat
      /\ Local!Sentinels \subseteq Words /\ Words \subseteq Pieces /\ "end" \notin Pieces
  BY <1>0, <1>1, ShapeTypes, PiecesDiffer
<1>3. /\ pending # <<>> => Chain(pending) /\ Local!Last(pending) # "nl" /\ pending[1] \in Words
      /\ pending # <<>> /\ pending[1] = "ask" /\ Len(pending) > 1 => sess.question # <<>>
      /\ pending \in Seq(Pieces)
  BY <1>0 DEF CliFile, Shape
<1>4. /\ Lead(at + 1) = IF e.type = "text" THEN e.text[1] ELSE "end"
      /\ Trail(at + 1) = IF e.type = "text" THEN Local!Last(e.text) ELSE "nl"
      /\ Trail(at) = IF pending = <<>> THEN "nl" ELSE Local!Last(pending)
      /\ Lead(at + 1) \in Follows(Trail(at))
  <2>1. at + 1 # Len(events) + 1 /\ at + 1 # at /\ at \in at..Len(events)
    BY <1>1, <1>2
  <2>2. Lead(at + 1) \in Follows(Trail(at))
    BY <1>0, <2>1 DEF CliFile
  <2> QED BY <2>1, <2>2 DEF Lead, Trail
<1>5. ASSUME pending' \in Seq(Pieces), sess' \in SessRecs, sess'.over = sess.over,
             pending' # <<>> =>
               Chain(pending') /\ Local!Last(pending') # "nl" /\ pending'[1] \in Words,
             pending' # <<>> /\ pending'[1] = "ask" /\ Len(pending') > 1 => sess'.question # <<>>,
             Trail(at + 1) = IF pending' = <<>> THEN "nl" ELSE Local!Last(pending'),
             Shape' /\ HarnessFile' /\ CliFile' => Told(marks', sess', said)
      PROVE  OutputInv'
  <2>1. Shape' /\ HarnessFile' /\ CliFile' /\ (Told(marks, sess, said)' => EndsSaid') /\ Local!EndingTold'
    BY <1>0, <1>5, ReadRest
  <2> QED BY <1>1, <1>5, <2>1 DEF OutputInv
<1>6. CASE e.type # "text"
  <2>1. pending = <<>>
    <3> SUFFICES ASSUME pending # <<>> PROVE FALSE
      OBVIOUS
    <3>1. Local!Last(pending) \in Pieces /\ Local!Last(pending) # "nl"
      BY <1>3 DEF Chain, Local!Last
    <3>2. "end" \in Follows(Local!Last(pending))
      BY <1>4, <1>6
    <3> QED BY <1>2, <3>1, <3>2, InChain
  <2>2. pending' = <<>> /\ sess' = sess
    BY <1>1, <1>6, <2>1, HearPlain
  <2>3. ASSUME Shape', HarnessFile', CliFile' PROVE Told(marks', sess', said)
    <3>1. /\ DOMAIN marks' \subseteq (at + 1)..(Len(events) + 1) /\ at + 1 \notin DOMAIN marks'
          /\ \A q \in (at + 2)..(Len(events) + 1) :
                /\ q \in DOMAIN marks' <=> q \in DOMAIN marks
                /\ q \in DOMAIN marks => marks'[q] = marks[q]
          /\ at \notin DOMAIN marks /\ at + 1 \notin DOMAIN marks
      BY <1>0, <1>1, <1>6, <2>1, <2>2, <2>3, ReadMarks DEF Open
    <3>2. DOMAIN marks \subseteq at..(Len(events) + 1) /\ DOMAIN marks \subseteq Int
      BY <1>0, MarksOf
    <3>3. DOMAIN marks' = DOMAIN marks /\ \A q \in DOMAIN marks : marks'[q] = marks[q]
      <4>1. \A q \in DOMAIN marks : q \in (at + 2)..(Len(events) + 1)
        BY <1>2, <3>1, <3>2
      <4>2. \A q \in DOMAIN marks' : q \in (at + 2)..(Len(events) + 1)
        BY <1>2, <3>1
      <4>3. DOMAIN marks \subseteq DOMAIN marks' /\ \A q \in DOMAIN marks : marks'[q] = marks[q]
        BY <3>1, <4>1
      <4>4. DOMAIN marks' \subseteq DOMAIN marks
        BY <3>1, <4>2
      <4> QED BY <4>3, <4>4
    <3> QED BY <1>0, <2>2, <3>2, <3>3, SameMarks
  <2> QED BY <1>0, <1>3, <1>4, <1>5, <1>6, <2>1, <2>2, <2>3
<1>7. CASE e.type = "text"
  <2>1. Chain(e.text) /\ e.text \in Seq(Pieces)
    BY <1>0, <1>2, <1>7 DEF CliFile, Chain
  <2>2. /\ Chain(c) /\ Local!Last(c) = Local!Last(e.text) /\ c \in Seq(Pieces) /\ c # <<>>
        /\ pending = <<>> => c = e.text /\ e.text[1] \in Words
        /\ pending # <<>> => c[1] = pending[1] /\ Len(c) > 1 /\ e.text[1] \notin Words
        /\ c[1] \in Words
    <3>1. CASE pending = <<>>
      <4>1. c = e.text
        BY <2>1, <3>1
      <4>2. e.text[1] \in Follows("nl") /\ e.text[1] \in Pieces
        BY <1>4, <1>7, <2>1, <3>1 DEF Chain
      <4>3. e.text[1] \in Words
        BY <1>2, <4>2 DEF Follows
      <4> HIDE DEF c
      <4> QED BY <2>1, <3>1, <4>1, <4>3 DEF Chain
    <3>2. CASE pending # <<>>
      <4>1. Local!Last(pending) \in Pieces /\ Local!Last(pending) # "nl"
        BY <1>3, <3>2 DEF Chain, Local!Last
      <4>2. e.text[1] \in Follows(Local!Last(pending))
        BY <1>4, <1>7, <3>2
      <4>3. e.text[1] \notin Words
        BY <4>1, <4>2, InChain
      <4>4. /\ Chain(c) /\ c[1] = pending[1] /\ Local!Last(c) = Local!Last(e.text)
            /\ Len(c) > Len(pending) /\ Len(pending) > 0
        BY <1>3, <2>1, <3>2, <4>2, ChainJoin
      <4> HIDE DEF c
      <4>5. Len(c) > 1 /\ c \in Seq(Pieces) /\ c # <<>>
        BY <1>3, <4>4 DEF Chain
      <4> QED BY <1>3, <3>2, <4>3, <4>4, <4>5
    <3> QED BY <3>1, <3>2
  <2> DEFINE w == c[1]
             x == Local!Line(c)
  <2>3. /\ Local!Last(c) = "nl" => pending' = <<>> /\ x = Local!Said(w)
        /\ Local!Last(c) # "nl" => pending' = c /\ x = c
        /\ sess' = Local!Hear(sess, x)
    BY <1>1, <1>7, <2>2, ChainWhole DEF Local!Line
  <2>4. x \in Seq(Pieces) /\ x # <<>> /\ x[1] = w /\ w \in Pieces
    <3>1. CASE Local!Last(c) = "nl"
      <4>1. CASE w \in Local!Sentinels
        <5>1. Local!Said(w) \in Spoken
          BY <4>1 DEF Spoken
        <5> QED BY <2>2, <2>3, <3>1, <4>1, <5>1, <1>2, SpokenLine, SaidFirst
      <4>2. CASE w = "plain"
        <5>1. x = <<w>>
          BY <2>3, <3>1, <4>2, LinesFound
        <5> HIDE DEF x
        <5>2. x \in Seq(Pieces) /\ Len(x) = 1 /\ x[1] = w /\ w \in Pieces
          BY <1>2, <2>2, <5>1, OnePiece
        <5>3. Len(x) # 0
          BY <5>2
        <5>4. x # <<>>
          BY ONLY <5>3, NotEmpty
        <5> QED BY ONLY <5>2, <5>4
      <4> QED BY <2>2, <4>1, <4>2 DEF Words
    <3>2. CASE Local!Last(c) # "nl"
      BY <1>2, <2>2, <2>3, <3>2
    <3> QED BY <3>1, <3>2
  <2> HIDE DEF c, w, x
  <2>5. sess' \in SessRecs /\ sess'.over = sess.over
    BY <1>0, <2>3, <2>4, HearTypes
  <2>6. /\ pending' \in Seq(Pieces)
        /\ pending' # <<>> => Chain(pending') /\ Local!Last(pending') # "nl" /\ pending'[1] \in Words
        /\ Trail(at + 1) = IF pending' = <<>> THEN "nl" ELSE Local!Last(pending')
    <3>1. CASE Local!Last(c) = "nl"
      BY <1>4, <1>7, <2>2, <2>3, <3>1
    <3>2. CASE Local!Last(c) # "nl"
      BY <1>4, <1>7, <2>2, <2>3, <3>2
    <3> QED BY <3>1, <3>2
  <2>7. pending' # <<>> /\ pending'[1] = "ask" /\ Len(pending') > 1 => sess'.question # <<>>
    <3> SUFFICES ASSUME pending' # <<>>, pending'[1] = "ask", Len(pending') > 1
                 PROVE  sess'.question # <<>>
      OBVIOUS
    <3>1. pending' = x
      BY <2>3
    <3> QED BY <1>0, <2>3, <2>4, <3>1, HearAsk
  <2>8. ASSUME Shape', HarnessFile', CliFile' PROVE Told(marks', sess', said)
    <3> DEFINE goesOn == Local!Last(c) # "nl" /\ w \in Local!Sentinels /\ (w = "ask" => Len(c) < 2)
    <3>1. /\ DOMAIN marks' \subseteq (at + 1)..(Len(events) + 1)
          /\ \A q \in (at + 2)..(Len(events) + 1) :
                /\ q \in DOMAIN marks' <=> q \in DOMAIN marks
                /\ q \in DOMAIN marks => marks'[q] = marks[q]
          /\ at + 1 \in DOMAIN marks' <=> Open(pending') /\ pending'[1] \in Local!Sentinels
          /\ at + 1 \in DOMAIN marks' => marks'[at + 1] = Local!Said(pending'[1])
          /\ at \in DOMAIN marks <=> Open(pending) /\ pending[1] \in Local!Sentinels
          /\ at \in DOMAIN marks => marks[at] = Local!Said(pending[1])
          /\ at + 1 \in DOMAIN marks <=> e.text[1] \in Local!Sentinels
          /\ at + 1 \in DOMAIN marks => marks[at + 1] = Local!Said(e.text[1])
      BY <1>0, <1>1, <1>7, <2>8, ReadMarks
    <3>2. DOMAIN marks \subseteq at..(Len(events) + 1) /\ DOMAIN marks \subseteq Int
      BY <1>0, MarksOf
    <3>3. /\ \A q \in DOMAIN marks : d <= q
          /\ d \in DOMAIN marks <=>
               w \in Local!Sentinels /\ (pending # <<>> /\ w = "ask" => Len(pending) < 2)
          /\ d \in DOMAIN marks => marks[d] = Local!Said(w)
          /\ \A q \in DOMAIN marks \ {d} : q \in (at + 2)..(Len(events) + 1)
          /\ d \in Int /\ d <= at + 1 /\ at + 1 \in Int
      <4>1. CASE pending = <<>>
        <5>1. at \notin DOMAIN marks /\ w = e.text[1] /\ d = at + 1
          BY <2>2, <3>1, <4>1 DEF Open, w
        <5> QED BY <1>2, <3>1, <3>2, <4>1, <5>1
      <4>2. CASE pending # <<>>
        <5>1. at + 1 \notin DOMAIN marks /\ w = pending[1] /\ d = at
          BY <1>2, <2>2, <3>1, <4>2 DEF w
        <5> QED BY <1>2, <3>1, <3>2, <4>2, <5>1 DEF Open
      <4> QED BY <4>1, <4>2
    <3>4. /\ at + 1 \in DOMAIN marks' <=> goesOn
          /\ goesOn => marks'[at + 1] = Local!Said(w)
      <4>1. CASE Local!Last(c) = "nl"
        BY <2>3, <3>1, <4>1 DEF Open
      <4>2. CASE Local!Last(c) # "nl"
        <5>1. pending' = c /\ c # <<>> /\ c[1] = w
          BY <2>2, <2>3, <4>2 DEF w
        <5> QED BY <3>1, <4>2, <5>1 DEF Open
      <4> QED BY <4>1, <4>2
    <3>5. /\ DOMAIN marks' = IF goesOn THEN (DOMAIN marks \ {d}) \cup {at + 1} ELSE DOMAIN marks \ {d}
          /\ \A q \in DOMAIN marks \ {d} : marks'[q] = marks[q]
          /\ \A q \in DOMAIN marks \ {d} : at + 1 < q
      <4>1. \A q \in DOMAIN marks \ {d} : q \in DOMAIN marks' /\ marks'[q] = marks[q] /\ at + 1 < q
        BY <1>2, <3>1, <3>3
      <4>2. \A q \in DOMAIN marks' : q # at + 1 => q \in DOMAIN marks \ {d}
        BY <1>2, <3>1, <3>3
      <4> QED BY <3>4, <4>1, <4>2
    <3> HIDE DEF d, goesOn
    <3>6. CASE goesOn /\ (w # "ask" \/ sess' = sess)
      <4>1. d \in DOMAIN marks /\ marks[d] = Local!Said(w) /\ marks[d][1] = w
        <5>1. w = "ask" => pending = <<>>
          <6> SUFFICES ASSUME w = "ask", pending # <<>> PROVE FALSE
            OBVIOUS
          <6>1. Len(c) < 2 /\ Len(c) \in Nat
            BY <2>2, <3>6, LenPositive DEF goesOn
          <6>2. Len(c) > 1
            BY <2>2
          <6> QED BY ONLY <6>1, <6>2
        <5>2. w \in Local!Sentinels /\ w \in Words
          BY <1>2, <3>6 DEF goesOn
        <5>3. d \in DOMAIN marks /\ marks[d] = Local!Said(w)
          BY <3>3, <5>1, <5>2
        <5> QED BY <5>2, <5>3, SaidFirst
      <4>2. sess'.question = sess.question
        BY <1>0, <2>3, <2>4, <3>6, HearOther
      <4>3. /\ DOMAIN marks' = (DOMAIN marks \ {d}) \cup {at + 1}
            /\ marks'[at + 1] = marks[d]
        BY <3>4, <3>5, <3>6, <4>1
      <4>4. marks[d][1] = "ask" => sess' = sess
        BY <3>6, <4>1
      <4>5. \A q \in DOMAIN marks \ {d} : at + 1 < q
        BY <3>5
      <4>6. PICK r \in Int : r = at + 1
        BY <3>3
      <4>7. /\ d \in DOMAIN marks /\ (\A q \in DOMAIN marks : d <= q) /\ d <= r
            /\ \A q \in DOMAIN marks \ {d} : r < q
            /\ DOMAIN marks' = (DOMAIN marks \ {d}) \cup {r}
            /\ marks'[r] = marks[d] /\ \A q \in DOMAIN marks \ {d} : marks'[q] = marks[q]
            /\ DOMAIN marks \subseteq Int /\ Told(marks, sess, said)
        BY <1>0, <3>2, <3>3, <3>5, <4>1, <4>3, <4>5, <4>6
      <4> QED BY ONLY <4>2, <4>4, <4>6, <4>7, FirstGoesOn
    <3>7. CASE goesOn /\ w = "ask"
      <4>1. x = c /\ Len(x) < 2
        BY <2>3, <3>7 DEF goesOn
      <4>2. sess' = sess
        BY <1>0, <2>3, <2>4, <3>7, <4>1, HearNoAsk
      <4> QED BY <3>6, <3>7, <4>2
    <3>8. CASE ~goesOn /\ d \in DOMAIN marks
      <4>1. Heard(sess, sess', marks[d])
        <5>1. w \in Local!Sentinels /\ Local!Said(w) \in Spoken
          BY <3>3, <3>8 DEF Spoken
        <5>2. CASE Local!Last(c) = "nl"
          BY <1>0, <2>3, <3>3, <3>8, <5>1, <5>2, HearSpoken
        <5>3. CASE Local!Last(c) # "nl"
          <6>1. w = "ask" /\ x = c /\ Len(c) > 1
            <7>1. w = "ask" /\ ~(Len(c) < 2) /\ x = c
              BY <2>3, <3>8, <5>1, <5>3 DEF goesOn
            <7>2. Len(c) \in Nat /\ Len(c) > 0
              BY <2>2, LenPositive
            <7>3. Len(c) > 1
              BY ONLY <7>1, <7>2
            <7> QED BY ONLY <7>1, <7>3
          <6> QED BY <1>0, <2>3, <2>4, <3>3, <3>8, <6>1, HearAsk
        <5> QED BY <5>2, <5>3
      <4>2. DOMAIN marks' = DOMAIN marks \ {d} /\ \A q \in DOMAIN marks' : marks'[q] = marks[q]
        BY <3>5, <3>8
      <4> QED BY <1>0, <3>2, <3>3, <3>8, <4>1, <4>2, FirstHeard
    <3>9. CASE ~goesOn /\ d \notin DOMAIN marks
      <4>1. sess' = sess
        <5>1. CASE w \in Local!Sentinels
          <6>1. w = "ask" /\ pending # <<>> /\ ~(Len(pending) < 2) /\ pending[1] = "ask"
            BY <2>2, <3>3, <3>9, <5>1 DEF w
          <6>2. Len(pending) > 1
            <7>1. Len(pending) \in Nat /\ Len(pending) > 0
              BY <1>3, <6>1, LenPositive
            <7> QED BY ONLY <6>1, <7>1
          <6>3. sess.question # <<>>
            BY <1>3, <6>1, <6>2
          <6> QED BY <1>0, <2>3, <2>4, <6>1, <6>3, HearAgain
        <5>2. CASE w \notin Local!Sentinels
          <6>1. w = "plain"
            BY <2>2, <5>2 DEF Words, w
          <6> QED BY <2>3, <2>4, <6>1, HearPlain
        <5> QED BY <5>1, <5>2
      <4>2. DOMAIN marks' = DOMAIN marks /\ \A q \in DOMAIN marks : marks'[q] = marks[q]
        BY <3>5, <3>9
      <4> QED BY <1>0, <3>2, <4>1, <4>2, SameMarks
    <3> QED BY <3>6, <3>7, <3>8, <3>9
  <2> QED BY <1>5, <2>5, <2>6, <2>7, <2>8
<1> QED BY <1>6, <1>7

-----------------------------------------------------------------------------
\* The tool loop writes: some events without text, or one line and such events.
Quiet(new) == new \in Seq(EventRecs) /\ \A i \in 1..Len(new) : new[i].type # "text"

Loud(new, x) ==
  /\ new \in Seq(EventRecs) /\ Len(new) > 0 /\ new[1] = Local!Event("text", Append(x, "nl"))
  /\ \A i \in 2..Len(new) : new[i].type # "text"

Writes ==
  /\ half' = FALSE /\ UNCHANGED rest /\ phase' # "cli" /\ (phase' # "ended" => how' = "none")
  /\ \E new \in Seq(EventRecs) : events' = events \o new /\
       \/ Quiet(new) /\ said' = said /\ how' \notin CutShort
       \/ \E x \in Spoken \cup {<<"plain">>} :
            Loud(new, x) /\ said' = Local!Counts(x) /\ (how' \in CutShort => x = Local!Own)

LEMMA QuietJoin ==
  ASSUME NEW a, NEW b, Quiet(a), Quiet(b)
  PROVE  Quiet(a \o b)
<1>1. a \in Seq(EventRecs) /\ b \in Seq(EventRecs) /\ a \o b \in Seq(EventRecs)
  BY DEF Quiet
<1>2. ASSUME NEW i \in 1..Len(a \o b) PROVE (a \o b)[i].type # "text"
  <2>1. CASE i <= Len(a)
    <3>1. i \in 1..Len(a) /\ (a \o b)[i] = a[i]
      BY <1>1, <2>1
    <3> QED BY <3>1 DEF Quiet
  <2>2. CASE i > Len(a)
    <3>1. i - Len(a) \in 1..Len(b) /\ (a \o b)[i] = b[i - Len(a)]
      BY <1>1, <2>2
    <3> QED BY <3>1 DEF Quiet
  <2> QED BY <1>1, <2>1, <2>2
<1> QED BY <1>1, <1>2 DEF Quiet

LEMMA LoudJoin ==
  ASSUME NEW a, NEW b, NEW x, Loud(a, x), Quiet(b)
  PROVE  Loud(a \o b, x)
<1>1. a \in Seq(EventRecs) /\ b \in Seq(EventRecs) /\ a \o b \in Seq(EventRecs) /\ Len(a) > 0
  BY DEF Quiet, Loud
<1>2. ASSUME NEW i \in 2..Len(a \o b) PROVE (a \o b)[i].type # "text"
  <2>1. CASE i <= Len(a)
    <3>1. i \in 2..Len(a) /\ (a \o b)[i] = a[i]
      BY <1>1, <2>1
    <3> QED BY <3>1 DEF Loud
  <2>2. CASE i > Len(a)
    <3>1. i - Len(a) \in 1..Len(b) /\ (a \o b)[i] = b[i - Len(a)]
      BY <1>1, <2>2
    <3> QED BY <3>1 DEF Quiet
  <2> QED BY <1>1, <2>1, <2>2
<1>3. Len(a \o b) > 0 /\ (a \o b)[1] = a[1]
  BY <1>1
<1> QED BY <1>1, <1>2, <1>3 DEF Loud

LEMMA SmallWrites ==
  /\ Quiet(<<>>)
  /\ \A k \in Kinds \ {"text"} : Quiet(<<Local!Event(k, <<>>)>>)
  /\ \A x \in Seq(Pieces) \ {<<>>} :
       Loud(<<Local!Event("text", Append(x, "nl")), Local!Event("stop", <<>>)>>, x)
<1>0. <<>> \in Seq(Pieces) /\ <<>> \in Seq(EventRecs)
  OBVIOUS
<1>1. Quiet(<<>>)
  BY <1>0 DEF Quiet
<1>2. ASSUME NEW k \in Kinds \ {"text"} PROVE Quiet(<<Local!Event(k, <<>>)>>)
  <2>1. Local!Event(k, <<>>) \in EventRecs /\ Local!Event(k, <<>>).type # "text"
    BY <1>0 DEF Local!Event, EventRecs
  <2>2. PICK v \in EventRecs : v = Local!Event(k, <<>>)
    BY <2>1
  <2>3. <<v>> \in Seq(EventRecs) /\ Len(<<v>>) = 1 /\ \A i \in 1..1 : <<v>>[i] = v
    OBVIOUS
  <2> QED BY <2>1, <2>2, <2>3 DEF Quiet
<1>3. ASSUME NEW x \in Seq(Pieces) \ {<<>>}
      PROVE  Loud(<<Local!Event("text", Append(x, "nl")), Local!Event("stop", <<>>)>>, x)
  <2>1. Append(x, "nl") \in Seq(Pieces)
    BY WholeLine
  <2>2. PICK v \in EventRecs : v = Local!Event("text", Append(x, "nl"))
    BY <2>1 DEF Local!Event, EventRecs, Kinds
  <2>3. PICK u \in EventRecs : u = Local!Event("stop", <<>>) /\ u.type # "text"
    <3>1. Local!Event("stop", <<>>) \in EventRecs /\ Local!Event("stop", <<>>).type # "text"
      BY <1>0 DEF Local!Event, EventRecs, Kinds
    <3> QED BY <3>1
  <2>4. /\ <<v, u>> \in Seq(EventRecs) /\ Len(<<v, u>>) = 2 /\ <<v, u>>[1] = v
        /\ \A i \in 2..2 : <<v, u>>[i] = u
    OBVIOUS
  <2> QED BY <2>2, <2>3, <2>4 DEF Loud
<1> QED BY <1>1, <1>2, <1>3

LEMMA Messages ==
  /\ \A n \in {0, 1} : Quiet(Local!Message(<<>>, n))
  /\ \A n \in {0, 1}, x \in Seq(Pieces) \ {<<>>} : Loud(Local!Message(x, n), x)
<1>1. ASSUME NEW n \in {0, 1}
      PROVE  Quiet(IF n = 0 THEN <<>> ELSE <<Local!Event("tools", <<>>)>>)
  BY SmallWrites DEF Kinds
<1>2. ASSUME NEW n \in {0, 1} PROVE Quiet(Local!Message(<<>>, n))
  BY <1>1, QuietJoin, SmallWrites DEF Local!Message
<1>3. ASSUME NEW n \in {0, 1}, NEW x \in Seq(Pieces) \ {<<>>} PROVE Loud(Local!Message(x, n), x)
  BY <1>1, LoudJoin, SmallWrites DEF Local!Message
<1> QED BY <1>2, <1>3

LEMMA EndBlockedWrites ==
  ASSUME Shape, NEW why, Local!EndBlocked(why)
  PROVE  Writes
<1>1. "done" \in Kinds \ {"text"} /\ 0 \in {0, 1}
  BY DEF Kinds
<1>2. Local!Own \in Spoken /\ Local!Own \in Seq(Pieces) \ {<<>>}
  BY SpokenLine DEF Spoken
<1>3. Loud(Local!Message(Local!Own, 0) \o <<Local!Event("done", <<>>)>>, Local!Own)
  BY <1>1, <1>2, Messages, SmallWrites, LoudJoin
<1>4. /\ events' = events \o (Local!Message(Local!Own, 0) \o <<Local!Event("done", <<>>)>>) /\ half' = FALSE
      /\ said' = Local!Counts(Local!Own) /\ UNCHANGED rest /\ phase' = "ended"
  BY DEF Local!EndBlocked, Local!End, Local!Emit
<1>5. Local!Message(Local!Own, 0) \o <<Local!Event("done", <<>>)>> \in Seq(EventRecs)
  BY <1>3 DEF Loud
<1> QED BY <1>2, <1>3, <1>4, <1>5 DEF Writes

LEMMA FailWrites ==
  ASSUME Shape, NEW why, why \notin CutShort, Local!Fail(why)
  PROVE  Writes
<1>1. /\ events' = events \o <<>> /\ half' = FALSE /\ UNCHANGED <<rest, said>>
      /\ phase' = "ended" /\ how' = why
  BY DEF Local!Fail, Local!End, Local!Emit
<1>2. <<>> \in Seq(EventRecs)
  OBVIOUS
<1> QED BY <1>1, <1>2, SmallWrites DEF Writes

LEMMA SilentWrites ==
  ASSUME Shape, EndsSaid, phase # "ended", phase' \notin {"cli", "ended"},
         UNCHANGED <<rest, how, said, Local!file>>
  PROVE  Writes
<1>1. events' = events \o <<>> /\ half' = FALSE /\ how' = "none"
  BY DEF Local!file, Shape, EndsSaid
<1>2. <<>> \in Seq(EventRecs) /\ "none" \notin CutShort
  BY DEF CutShort
<1> QED BY <1>1, <1>2, SmallWrites DEF Writes

LEMMA EventWrites ==
  ASSUME Shape, EndsSaid, phase # "ended", phase' \notin {"cli", "ended"}, UNCHANGED <<rest, how, said>>,
         NEW k \in Kinds \ {"text"}, Local!Emit(<<Local!Event(k, <<>>)>>)
  PROVE  Writes
<1>1. events' = events \o <<Local!Event(k, <<>>)>> /\ half' = FALSE /\ how' = "none"
  BY DEF Local!Emit, EndsSaid
<1>2. Quiet(<<Local!Event(k, <<>>)>>) /\ "none" \notin CutShort
  BY SmallWrites DEF CutShort
<1>3. <<Local!Event(k, <<>>)>> \in Seq(EventRecs)
  BY <1>2 DEF Quiet
<1> QED BY <1>1, <1>2, <1>3 DEF Writes

LEMMA ReplyWrites ==
  ASSUME Shape, EndsSaid, phase = "asking", NEW x \in Spoken \cup {<<"plain">>, <<>>},
         NEW n \in {0, 1}, Local!Reply(x, n)
  PROVE  Writes
<1> DEFINE more == IF n = 0 THEN <<Local!Event("done", <<>>)>> ELSE <<>>
<1>1. /\ events' = events \o (Local!Message(x, n) \o more) /\ half' = FALSE /\ UNCHANGED rest
      /\ said' = Local!Counts(x) /\ phase' \in {"ended", "calling"}
      /\ phase' # "ended" => how' = how
      /\ how' \in {"stopped", how}
  BY DEF Local!Reply, Local!Emit
<1>2. Quiet(more)
  <2>1. "done" \in Kinds \ {"text"}
    BY DEF Kinds
  <2> QED BY <2>1, SmallWrites
<1>3. how' \notin CutShort /\ (phase' # "ended" => how' = "none")
  BY <1>1 DEF EndsSaid, CutShort
<1>4. CASE x = <<>>
  <2>1. Quiet(Local!Message(x, n) \o more)
    BY <1>2, <1>4, Messages, QuietJoin
  <2>2. Local!Message(x, n) \o more \in Seq(EventRecs)
    BY <2>1 DEF Quiet
  <2>3. said' = said
    BY <1>1, <1>4 DEF Local!Counts
  <2> QED BY <1>1, <1>3, <2>1, <2>2, <2>3 DEF Writes
<1>5. CASE x # <<>>
  <2>1. x \in Seq(Pieces) \ {<<>>}
    <3>1. CASE x \in Spoken
      BY <3>1, SpokenLine
    <3>2. CASE x = <<"plain">>
      <4>1. "plain" \in Pieces
        BY DEF Pieces, Words
      <4> QED BY <1>5, <3>2, <4>1, OnePiece
    <3> QED BY <1>5, <3>1, <3>2
  <2>2. Loud(Local!Message(x, n) \o more, x)
    BY <1>2, <2>1, Messages, LoudJoin
  <2>3. Local!Message(x, n) \o more \in Seq(EventRecs)
    BY <2>2 DEF Loud
  <2> QED BY <1>1, <1>3, <1>5, <2>2, <2>3 DEF Writes
<1> QED BY <1>4, <1>5

\* Every step of the loop writes so.
LEMMA LoopWrites ==
  ASSUME Shape, EndsSaid, HarnessFile, strategy = "harness",
         Local!Begin \/ Local!Turn \/ Local!Answer \/ Local!Call \/ Local!Called \/ Local!GetStuck \/ Local!Panic
  PROVE  Writes /\ phase # "ended"
<1>0. phase # "cli"
  BY DEF HarnessFile
<1>1. CASE Local!Begin
  <2>1. CASE Local!EndBlocked("skill")
    BY <1>1, <2>1, EndBlockedWrites DEF Local!Begin
  <2>2. CASE ~Local!EndBlocked("skill")
    <3>1. "init" \in Kinds \ {"text"}
      BY DEF Kinds
    <3> QED BY <1>1, <2>2, <3>1, EventWrites DEF Local!Begin
  <2> QED BY <2>1, <2>2
<1>2. CASE Local!Turn
  <2>1. phase = "top"
    BY <1>2 DEF Local!Turn
  <2>2. CASE Local!EndBlocked("turns")
    BY <2>1, <2>2, EndBlockedWrites
  <2>3. CASE Local!Fail("cancelled")
    BY <2>1, <2>3, FailWrites DEF CutShort
  <2>4. CASE phase' = "asking" /\ UNCHANGED <<rest, how, said, Local!file>>
    BY <2>1, <2>4, SilentWrites
  <2> QED BY <1>2, <2>2, <2>3, <2>4 DEF Local!Turn
<1>3. CASE Local!Answer
  <2>1. phase = "asking"
    BY <1>3 DEF Local!Answer
  <2>2. ASSUME NEW w \in Local!Sentinels \cup {"plain"}, NEW n \in {0, 1}, Local!Reply(Local!Said(w), n)
        PROVE  Writes
    <3>1. Local!Said(w) \in Spoken \cup {<<"plain">>, <<>>}
      BY LinesFound DEF Spoken
    <3> QED BY <2>1, <2>2, <3>1, ReplyWrites
  <2>3. CASE Local!Reply(<<>>, 1)
    BY <2>1, <2>3, ReplyWrites
  <2>4. CASE Local!EndBlocked("provider")
    BY <2>1, <2>4, EndBlockedWrites
  <2>5. CASE Local!Fail("timeout") \/ Local!Fail("cancelled")
    BY <2>1, <2>5, FailWrites DEF CutShort
  <2> QED BY <1>3, <2>1, <2>2, <2>3, <2>4, <2>5 DEF Local!Answer
<1>4. CASE Local!Call
  <2>1. phase = "calling" /\ "result" \in Kinds \ {"text"}
    BY <1>4 DEF Local!Call, Kinds
  <2>2. CASE Local!Fail("cancelled")
    BY <2>1, <2>2, FailWrites DEF CutShort
  <2>3. CASE ~Local!Fail("cancelled")
    BY <1>4, <2>1, <2>3, EventWrites DEF Local!Call
  <2> QED BY <2>2, <2>3
<1>5. CASE Local!Called
  <2>1. phase = "calling"
    BY <1>5 DEF Local!Called
  <2>2. CASE Local!EndBlocked("tokens")
    BY <2>1, <2>2, EndBlockedWrites
  <2>3. CASE phase' = "top" /\ UNCHANGED <<rest, how, said, Local!file>>
    BY <2>1, <2>3, SilentWrites
  <2> QED BY <1>5, <2>2, <2>3 DEF Local!Called
<1>6. CASE Local!GetStuck
  BY <1>0, <1>6, SilentWrites DEF Local!GetStuck
<1>7. CASE Local!Panic
  BY <1>7, FailWrites DEF Local!Panic, CutShort
<1> QED BY <1>1, <1>2, <1>3, <1>4, <1>5, <1>6, <1>7
LEMMA CountsOf ==
  ASSUME Shape, NEW x \in Spoken \cup {<<"plain">>, <<>>}
  PROVE  /\ Local!Counts(x) \in [line : Spoken \cup {<<"none">>}, asked : BOOLEAN]
         /\ x \notin Spoken => Local!Counts(x) = said
         /\ x = Local!Own => Local!Counts(x).line = Local!Own
<1>0. said \in [line : Spoken \cup {<<"none">>}, asked : BOOLEAN] /\ said.asked \in BOOLEAN
  BY DEF Shape
<1>1. CASE x \in Spoken
  <2>1. x # <<>> /\ x[1] \in Local!Sentinels
    BY <1>1, SpokenLine
  <2>2. Local!Counts(x) \in {said, [line |-> x, asked |-> said.asked \/ x[1] = "ask"]}
    BY <2>1 DEF Local!Counts
  <2>3. [line |-> x, asked |-> said.asked \/ x[1] = "ask"]
          \in [line : Spoken \cup {<<"none">>}, asked : BOOLEAN]
    <3>1. (said.asked \/ x[1] = "ask") \in BOOLEAN
      OBVIOUS
    <3> QED BY <1>1, <3>1
  <2>4. x = Local!Own => Local!Counts(x).line = Local!Own
    <3> SUFFICES ASSUME x = Local!Own PROVE Local!Counts(x).line = Local!Own
      OBVIOUS
    <3>1. x[1] # "ask"
      BY DEF Local!Own
    <3>2. Local!Counts(x) = [line |-> x, asked |-> said.asked \/ x[1] = "ask"]
      BY <2>1, <3>1 DEF Local!Counts
    <3> QED BY <3>2
  <2> QED BY <1>0, <1>1, <2>2, <2>3, <2>4
<1>2. CASE x \notin Spoken
  <2>1. x = <<>> \/ x[1] \notin Local!Sentinels
    BY <1>2 DEF Local!Sentinels
  <2>2. Local!Counts(x) = said
    BY <2>1 DEF Local!Counts
  <2>3. x # Local!Own
    BY <1>2 DEF Spoken
  <2> QED BY <1>0, <1>2, <2>2, <2>3
<1> QED BY <1>1, <1>2

\* Events are appended to the file of the tool loop; only the first may have a text.
LEMMA HarnessMarks ==
  ASSUME Shape, HarnessFile, CliFile, strategy = "harness",
         UNCHANGED <<strategy, rest, at, pending>>,
         NEW new \in Seq(EventRecs), events' = events \o new,
         \A i \in 2..Len(new) : new[i].type # "text",
         NEW k, k = Len(events) + 1
  PROVE  /\ k \in DOMAIN marks' <=>
              Len(new) > 0 /\ new[1].type = "text" /\ new[1].text[1] \in Local!Sentinels
         /\ k \in DOMAIN marks' => marks'[k] = Local!Line(new[1].text)
         /\ DOMAIN marks \subseteq Int /\ k \in Int /\ \A q \in DOMAIN marks : q < k
         /\ DOMAIN marks' \ {k} = DOMAIN marks
         /\ \A q \in DOMAIN marks : marks'[q] = marks[q]
<1>0. /\ Len(events) \in Nat /\ at \in Nat /\ at <= Len(events) /\ Len(new) \in Nat
      /\ Len(events') = Len(events) + Len(new) /\ events \in Seq(EventRecs)
      /\ "end" \notin Local!Sentinels /\ pending = <<>> /\ rest = <<>>
  BY ShapeTypes DEF Shape, HarnessFile, Local!Sentinels
<1>1. /\ \A q \in 1..Len(events) : events'[q] = events[q]
      /\ \A i \in 1..Len(new) : events'[Len(events) + i] = new[i]
  BY <1>0
<1> DEFINE D  == {q \in at..(Len(events) + 1) : Word(q) \in Local!Sentinels}
           D1 == {q \in at..(Len(events') + 1) : Word(q)' \in Local!Sentinels}
<1>2. DOMAIN marks = D /\ \A q \in D : marks[q] = Local!Line(events[q].text)
  BY DEF marks, LineAt
<1>3. DOMAIN marks' = D1 /\ \A q \in D1 : marks'[q] = Local!Line(events'[q].text)
  BY DEF marks, LineAt
<1>4. ~Open(pending) /\ ~Open(pending)' /\ Word(at) = "end" /\ \A q \in {at} : Word(q)' = "end"
  BY <1>0 DEF Open, Word
<1>5. \A q \in (at + 1)..Len(events) : Word(q)' = Word(q) /\ events'[q] = events[q]
  BY <1>0, <1>1 DEF Word, Lead
<1>6. Word(k) = "end"
  BY <1>0 DEF Word, Lead
<1>7. \A q \in {k} : Word(q)' \in Local!Sentinels <=>
        Len(new) > 0 /\ new[1].type = "text" /\ new[1].text[1] \in Local!Sentinels
  <2> SUFFICES ASSUME NEW q \in {k}
               PROVE  Word(q)' \in Local!Sentinels <=>
                        Len(new) > 0 /\ new[1].type = "text" /\ new[1].text[1] \in Local!Sentinels
    OBVIOUS
  <2>1. CASE Len(new) > 0
    <3>1. events'[q] = new[1] /\ q # Len(events') + 1 /\ q # at
      BY <1>0, <1>1, <2>1
    <3>2. Word(q)' = IF new[1].type = "text" THEN new[1].text[1] ELSE "end"
      BY <3>1 DEF Word, Lead
    <3> QED BY <1>0, <2>1, <3>2
  <2>2. CASE ~(Len(new) > 0)
    <3>1. q = Len(events') + 1 /\ q # at
      BY <1>0, <2>2
    <3>2. Word(q)' = "end"
      BY <1>0, <3>1 DEF Word, Lead
    <3> QED BY <1>0, <2>2, <3>2
  <2> QED BY <2>1, <2>2
<1>8. \A q \in (Len(events) + 2)..(Len(events') + 1) : Word(q)' = "end"
  <2> SUFFICES ASSUME NEW q \in (Len(events) + 2)..(Len(events') + 1)
               PROVE  Word(q)' = "end"
    OBVIOUS
  <2>1. q # at
    BY <1>0
  <2>2. CASE q = Len(events') + 1
    BY <1>0, <2>1, <2>2 DEF Word, Lead
  <2>3. CASE q # Len(events') + 1
    <3>1. PICK i \in 2..Len(new) : q = Len(events) + i
      <4>0. Len(events') \in Int /\ Len(events) + 2 \in Int
        BY <1>0
      <4>1. q \in Int /\ q >= Len(events) + 2 /\ q <= Len(events) + Len(new)
        <5>1. q \in Int /\ q >= Len(events) + 2 /\ q <= Len(events') + 1
          BY <4>0
        <5>2. Len(events') = Len(events) + Len(new)
          BY <1>0
        <5> QED BY ONLY <2>3, <4>0, <5>1, <5>2
      <4>2. Len(events) \in Nat /\ Len(new) \in Nat
        BY <1>0
      <4>3. q - Len(events) \in 2..Len(new) /\ q = Len(events) + (q - Len(events))
        BY ONLY <4>1, <4>2
      <4> QED BY <4>3
    <3>2. events'[q] = new[i]
      BY <1>0, <1>1, <3>1
    <3> QED BY <2>1, <2>3, <3>2 DEF Word, Lead
  <2> QED BY <2>2, <2>3
<1>9. D \subseteq (at + 1)..Len(events)
  <2> SUFFICES ASSUME NEW q \in D PROVE q \in (at + 1)..Len(events)
    OBVIOUS
  <2>1. q \in at..(Len(events) + 1) /\ q # at /\ q # k
    BY <1>0, <1>4, <1>6
  <2> QED BY <1>0, <2>1
<1>10. D1 \subseteq D \cup {k} /\ D \subseteq D1 /\ k \notin D
  <2>1. ASSUME NEW q \in D1 PROVE q \in D \cup {k}
    <3>1. q # at
      BY <1>0, <1>4, <2>1
    <3>2. q \notin (Len(events) + 2)..(Len(events') + 1)
      BY <1>0, <1>8, <2>1
    <3>3. q \in (at + 1)..Len(events) \/ q = k
      BY <1>0, <2>1, <3>1, <3>2
    <3> QED BY <1>0, <1>5, <2>1, <3>3
  <2>2. ASSUME NEW q \in D PROVE q \in D1
    <3>1. q \in (at + 1)..Len(events)
      BY <1>9
    <3>2. Len(events') + 1 >= Len(events) /\ Len(events') \in Nat
      BY <1>0
    <3>3. q \in at..(Len(events') + 1)
      BY <1>0, <3>1, <3>2
    <3> QED BY <1>5, <3>1, <3>3
  <2>3. k \notin D
    BY <1>0, <1>6
  <2> QED BY <2>1, <2>2, <2>3
<1>11. k \in D1 <=> Len(new) > 0 /\ new[1].type = "text" /\ new[1].text[1] \in Local!Sentinels
  <2>1. k \in at..(Len(events') + 1)
    BY <1>0
  <2> QED BY <1>7, <2>1
<1>12. k \in D1 => events'[k] = new[1]
  BY <1>0, <1>1, <1>11
<1>13. \A q \in D : events'[q] = events[q]
  BY <1>5, <1>9
<1> HIDE DEF D, D1
<1>14. DOMAIN marks \subseteq Int /\ k \in Int /\ \A q \in DOMAIN marks : q < k
  <2>1. \A q \in DOMAIN marks : q \in (at + 1)..Len(events)
    BY <1>2, <1>9
  <2> QED BY <1>0, <2>1
<1>15. DOMAIN marks' \ {k} = DOMAIN marks /\ \A q \in DOMAIN marks : marks'[q] = marks[q]
  <2>1. DOMAIN marks' \ {k} = DOMAIN marks
    BY <1>2, <1>3, <1>10
  <2>2. \A q \in D : marks'[q] = marks[q]
    <3> SUFFICES ASSUME NEW q \in D PROVE marks'[q] = marks[q]
      OBVIOUS
    <3>1. marks'[q] = Local!Line(events'[q].text)
      BY <1>3, <1>10
    <3>2. marks[q] = Local!Line(events[q].text)
      BY <1>2
    <3> QED BY <1>13, <3>1, <3>2
  <2> QED BY <1>2, <2>1, <2>2
<1>16. k \in DOMAIN marks' => marks'[k] = Local!Line(new[1].text)
  BY <1>3, <1>12
<1> QED BY <1>3, <1>11, <1>14, <1>15, <1>16

\* A step of the tool loop.
LEMMA HarnessStep ==
  ASSUME OutputInv, strategy = "harness", UNCHANGED <<strategy, cancelled, Local!tail>>,
         Writes, phase # "ended"
  PROVE  OutputInv'
<1>0. /\ Shape /\ HarnessFile /\ CliFile /\ ~sess.over /\ Told(marks, sess, said)
      /\ said \in [line : Spoken \cup {<<"none">>}, asked : BOOLEAN]
      /\ how = "none" /\ UNCHANGED <<rest, at, pending, sess>> /\ half' = FALSE /\ phase' # "cli"
      /\ phase' # "ended" => how' = "none"
  BY DEF OutputInv, EndsSaid, Shape, Writes, Local!tail
<1>1. PICK new \in Seq(EventRecs) : events' = events \o new /\
       \/ Quiet(new) /\ said' = said /\ how' \notin CutShort
       \/ \E x \in Spoken \cup {<<"plain">>} :
            Loud(new, x) /\ said' = Local!Counts(x) /\ (how' \in CutShort => x = Local!Own)
  BY DEF Writes
<1>2. /\ Len(events) \in Nat /\ Len(new) \in Nat /\ Len(events') = Len(events) + Len(new)
      /\ events' \in Seq(EventRecs) /\ at \in 0..Len(events) /\ at \in 0..Len(events')
      /\ \A q \in 1..Len(events) : events'[q] = events[q]
      /\ \A q \in (Len(events) + 1)..Len(events') :
           q - Len(events) \in 1..Len(new) /\ events'[q] = new[q - Len(events)]
  <2>1. events \in Seq(EventRecs) /\ at \in 0..Len(events)
    BY <1>0 DEF Shape
  <2> QED BY <1>1, <2>1
<1>3. ASSUME \A i \in 2..Len(new) : new[i].type # "text",
             Len(new) > 0 /\ new[1].type = "text" =>
               \E x \in Spoken \cup {<<"plain">>} : new[1].text = Append(x, "nl"),
             said' \in [line : Spoken \cup {<<"none">>}, asked : BOOLEAN],
             how' \in CutShort => said'.line = Local!Own,
             Told(marks', sess, said')
      PROVE  OutputInv'
  <2>1. Shape'
    BY <1>0, <1>2, <1>3 DEF Shape
  <2>2. HarnessFile'
    <3>1. ASSUME NEW p \in 1..Len(events'), events'[p].type = "text"
          PROVE  \E x \in Spoken \cup {<<"plain">>} : events'[p].text = Append(x, "nl")
      <4>1. CASE p \in 1..Len(events)
        <5>1. events'[p] = events[p]
          BY <1>2, <4>1
        <5> QED BY <1>0, <3>1, <4>1, <5>1 DEF HarnessFile
      <4>2. CASE p \notin 1..Len(events)
        <5>1. p \in (Len(events) + 1)..Len(events')
          BY <1>2, <4>2
        <5>2. p - Len(events) \in 1..Len(new) /\ events'[p] = new[p - Len(events)]
          BY <1>2, <5>1
        <5>5. PICK i \in 1..Len(new) : i = p - Len(events) /\ new[i].type = "text"
          BY <3>1, <5>2
        <5>6. i = 1
          <6>1. i \notin 2..Len(new)
            BY <1>3, <5>5
          <6> QED BY <1>2, <6>1
        <5>3. p - Len(events) = 1
          BY <5>5, <5>6
        <5>4. Len(new) > 0
          BY <1>2, <5>2
        <5> QED BY <1>3, <3>1, <5>2, <5>3, <5>4
      <4> QED BY <4>1, <4>2
    <3> QED BY <1>0, <3>1 DEF HarnessFile
  <2>3. CliFile'
    BY DEF CliFile
  <2>4. EndsSaid'
    BY <1>0, <1>3 DEF EndsSaid
  <2>5. Local!EndingTold'
    BY <1>0 DEF Local!EndingTold
  <2> QED BY <2>1, <2>2, <2>3, <2>4, <2>5 DEF OutputInv
<1>4. CASE Quiet(new) /\ said' = said /\ how' \notin CutShort
  <2>1. (\A i \in 2..Len(new) : new[i].type # "text") /\ (Len(new) > 0 => new[1].type # "text")
    BY <1>2, <1>4 DEF Quiet
  <2>2. /\ DOMAIN marks' = DOMAIN marks /\ DOMAIN marks \subseteq Int
        /\ \A q \in DOMAIN marks : marks'[q] = marks[q]
    BY <1>0, <1>1, <2>1, HarnessMarks
  <2>3. Told(marks', sess, said')
    BY <1>0, <1>4, <2>2, SameMarks
  <2> QED BY <1>0, <1>3, <1>4, <2>1, <2>3
<1>5. ASSUME NEW x \in Spoken \cup {<<"plain">>}, Loud(new, x), said' = Local!Counts(x),
             how' \in CutShort => x = Local!Own
      PROVE  OutputInv'
  <2>1. /\ Len(new) > 0 /\ new[1].type = "text" /\ new[1].text = Append(x, "nl")
        /\ \A i \in 2..Len(new) : new[i].type # "text"
    BY <1>5 DEF Loud, Local!Event
  <2>2. x \in Seq(Pieces) /\ x # <<>> /\ (x \in Spoken <=> x[1] \in Local!Sentinels)
    <3>1. CASE x \in Spoken
      BY <3>1, SpokenLine
    <3>2. CASE x = <<"plain">>
      <4>1. "plain" \in Pieces /\ "plain" \notin Local!Sentinels
        BY DEF Pieces, Words, Local!Sentinels
      <4>2. x \in Seq(Pieces) /\ Len(x) = 1 /\ x[1] = "plain"
        BY <3>2, <4>1, OnePiece
      <4>3. x # <<>>
        <5>1. Len(x) # 0
          BY <4>2
        <5> QED BY ONLY <5>1, NotEmpty
      <4>4. x \notin Spoken
        BY <4>1, <4>2, SpokenLine
      <4> QED BY <4>1, <4>2, <4>3, <4>4
    <3> QED BY <3>1, <3>2
  <2>3. Local!Line(new[1].text) = x /\ new[1].text[1] = x[1]
    BY <2>1, <2>2, WholeLine
  <2>4. PICK k \in Int : k = Len(events) + 1
    BY <1>2
  <2>5. /\ k \in DOMAIN marks' <=> x \in Spoken
        /\ k \in DOMAIN marks' => marks'[k] = x
        /\ DOMAIN marks \subseteq Int /\ \A q \in DOMAIN marks : q < k
        /\ DOMAIN marks' \ {k} = DOMAIN marks
        /\ \A q \in DOMAIN marks : marks'[q] = marks[q]
    BY <1>0, <1>1, <2>1, <2>2, <2>3, <2>4, HarnessMarks
  <2>6. Told(marks', sess, said')
    <3>1. CASE x \in Spoken
      <4>1. DOMAIN marks' = DOMAIN marks \cup {k} /\ marks'[k] = x
        BY <2>5, <3>1
      <4>2. said.asked \in BOOLEAN
        BY <1>0
      <4> QED BY <1>0, <1>5, <2>5, <3>1, <4>1, <4>2, LineSaid
    <3>2. CASE x \notin Spoken
      <4>1. DOMAIN marks' = DOMAIN marks
        BY <2>5, <3>2
      <4>2. said' = said
        BY <1>0, <1>5, <3>2, CountsOf
      <4> QED BY <1>0, <2>5, <4>1, <4>2, SameMarks
    <3> QED BY <3>1, <3>2
  <2>7. /\ said' \in [line : Spoken \cup {<<"none">>}, asked : BOOLEAN]
        /\ how' \in CutShort => said'.line = Local!Own
    BY <1>0, <1>5, CountsOf
  <2> QED BY <1>3, <2>1, <2>6, <2>7
<1> QED BY <1>1, <1>4, <1>5
-----------------------------------------------------------------------------
\* The CLI writes.

\* A message that is yet to be written.
LEMMA SaidChain ==
  ASSUME NEW w \in Local!Sentinels, NEW c, c = Append(Local!Said(w), "nl")
  PROVE  Chain(c) /\ Local!Last(c) = "nl" /\ c[1] = w /\ c # <<>>
<1>0. Local!Said(w) \in Seq(Pieces) /\ Local!Said(w) # <<>> /\ Local!Said(w)[1] = w
  BY SpokenLine, SaidFirst, PiecesDiffer DEF Spoken
<1>1. c \in Seq(Pieces) /\ c[1] = w /\ Local!Last(c) = "nl" /\ c # <<>>
  BY <1>0, WholeLine
<1>3. /\ Len(c) = Len(Local!Said(w)) + 1 /\ c[Len(Local!Said(w)) + 1] = "nl"
      /\ \A i \in 1..Len(Local!Said(w)) : c[i] = Local!Said(w)[i]
  <2>1. PICK x \in Seq(Pieces) : x = Local!Said(w)
    BY <1>0
  <2>2. "nl" \in Pieces
    BY DEF Pieces
  <2> QED BY <2>1, <2>2
<1>2. \A i \in 1..(Len(c) - 1) : c[i] # "nl" /\ c[i + 1] \in Follows(c[i])
  <2>0. {w, "a", "b", "nl"} \subseteq Pieces /\ w # "nl"
    BY DEF Pieces, Words, Local!Sentinels
  <2>1. CASE w = "complete"
    <3>0. Local!Said(w) = <<w>> /\ w \in Pieces
      BY <2>0, <2>1, LinesFound
    <3>1. Len(Local!Said(w)) = 1 /\ Local!Said(w)[1] = w
      BY <3>0, OnePiece
    <3>2. Len(c) = 2 /\ c[1] = w /\ c[2] = "nl"
      BY <1>3, <3>1
    <3>3. w # "nl" /\ "nl" \in Follows(w)
      BY <2>0, <2>1, InChain
    <3>4. \A i \in 1..(Len(c) - 1) : i = 1
      BY <3>2
    <3> QED BY <3>2, <3>3, <3>4
  <2>2. CASE w # "complete"
    <3>0. Local!Said(w) = <<w, "a", "b">> /\ w \in Pieces /\ "a" \in Pieces /\ "b" \in Pieces
      BY <2>0, <2>2, LinesFound DEF Local!Sentinels
    <3>1. /\ Len(Local!Said(w)) = 3 /\ Local!Said(w)[1] = w /\ Local!Said(w)[2] = "a" /\ Local!Said(w)[3] = "b"
      BY <3>0, ThreePieces
    <3>2. Len(c) = 4 /\ c[1] = w /\ c[2] = "a" /\ c[3] = "b" /\ c[4] = "nl"
      BY <1>3, <3>1
    <3>3. "a" \in Follows(w) /\ "b" \in Follows("a") /\ "nl" \in Follows("b")
      BY <2>0, <2>2, InChain DEF Local!Sentinels
    <3>4. \A i \in 1..(Len(c) - 1) : i = 1 \/ i = 2 \/ i = 3
      BY <3>2
    <3> QED BY <2>0, <3>2, <3>3, <3>4
  <2> QED BY <2>1, <2>2
<1> QED BY <1>1, <1>2 DEF Chain

\* The last text in the file ends a line unless the CLI is within a message.
LEMMA AtRest ==
  ASSUME Shape, CliFile, strategy = "cli", rest = <<>>
  PROVE  Trail(Len(events)) = "nl"
<1>1. Len(events) \in at..Len(events)
  BY ShapeTypes
<1>2. Lead(Len(events) + 1) \in Follows(Trail(Len(events)))
  BY <1>1 DEF CliFile
<1>3. Lead(Len(events) + 1) = "end"
  BY DEF Lead
<1> QED BY <1>2, <1>3 DEF Follows

\* What an event at the end of the file leaves as it is.
LEMMA CliAppend ==
  ASSUME Shape, CliFile, strategy = "cli", UNCHANGED <<strategy, at, pending>>,
         NEW v \in EventRecs, events' = Append(events, v)
  PROVE  /\ Len(events') = Len(events) + 1 /\ events' \in Seq(EventRecs)
         /\ at \in 0..Len(events') /\ at # Len(events) + 1 /\ at # Len(events) + 2
         /\ events'[Len(events) + 1] = v
         /\ \A p \in 1..Len(events) : events'[p] = events[p] /\ Lead(p)' = Lead(p)
         /\ \A p \in at..Len(events) : Trail(p)' = Trail(p)
<1>1. /\ events \in Seq(EventRecs) /\ Len(events) \in Nat /\ at \in Nat /\ at <= Len(events)
  BY ShapeTypes DEF Shape
<1>2. /\ Len(events') = Len(events) + 1 /\ events' \in Seq(EventRecs)
      /\ events'[Len(events) + 1] = v /\ \A p \in 1..Len(events) : events'[p] = events[p]
  BY <1>1
<1>3. at \in 0..Len(events') /\ at # Len(events) + 1 /\ at # Len(events) + 2
  BY <1>1, <1>2
<1>4. ASSUME NEW p \in 1..Len(events) PROVE Lead(p)' = Lead(p)
  <2>1. p # Len(events) + 1 /\ p # Len(events') + 1 /\ events'[p] = events[p]
    BY <1>1, <1>2
  <2> QED BY <2>1 DEF Lead
<1>5. ASSUME NEW p \in at..Len(events) PROVE Trail(p)' = Trail(p)
  <2>1. CASE p = at
    BY <2>1 DEF Trail
  <2>2. CASE p # at
    <3>1. p \in 1..Len(events)
      BY <1>1, <2>2
    <3>2. events'[p] = events[p]
      BY <1>2, <3>1
    <3> QED BY <2>2, <3>2 DEF Trail
  <2> QED BY <2>1, <2>2
<1> QED BY <1>2, <1>3, <1>4, <1>5

LEMMA SayStep ==
  ASSUME OutputInv, strategy = "cli", phase = "cli", UNCHANGED <<strategy, cancelled, Local!tail>>,
         NEW w \in Local!Sentinels, Local!CliSay(w)
  PROVE  OutputInv'
<1>0. /\ Shape /\ HarnessFile /\ CliFile /\ EndsSaid /\ ~sess.over /\ Told(marks, sess, said)
      /\ said \in [line : Spoken \cup {<<"none">>}, asked : BOOLEAN] /\ how = "none"
  BY DEF OutputInv, EndsSaid, Shape
<1>1. /\ rest = <<>> /\ rest' = Append(Local!Said(w), "nl") /\ said' = Local!Counts(Local!Said(w))
      /\ UNCHANGED <<phase, how, err, events, half, at, pending, sess>>
  BY DEF Local!CliSay, Local!file, Local!tail
<1>2. /\ Local!Said(w) \in Spoken /\ w \in Words
      /\ Chain(rest') /\ Local!Last(rest') = "nl" /\ rest'[1] = w /\ rest' # <<>>
  BY <1>1, SaidChain, PiecesDiffer DEF Spoken
<1>3. /\ Len(events) \in Nat /\ at \in Nat /\ at <= Len(events)
  BY <1>0, ShapeTypes
<1>4. /\ \A p \in 1..Len(events) : Lead(p)' = Lead(p)
      /\ \A p \in at..Len(events) : Trail(p)' = Trail(p)
      /\ \A p \in {Len(events) + 1} : Lead(p) = "end" /\ Lead(p)' = w
  <2>1. \A p \in 1..Len(events) : p # Len(events) + 1
    BY <1>3
  <2> QED BY <1>1, <1>2, <2>1 DEF Lead, Trail
<1>5. Shape'
  <2>1. said' \in [line : Spoken \cup {<<"none">>}, asked : BOOLEAN]
    BY <1>0, <1>1, <1>2, CountsOf
  <2>2. rest' \in Seq(Pieces)
    BY <1>2 DEF Chain
  <2> QED BY <1>0, <1>1, <2>1, <2>2 DEF Shape
<1>6. CliFile'
  <2>1. ASSUME NEW p \in at..Len(events) PROVE Lead(p + 1)' \in Follows(Trail(p)')
    <3>1. Lead(p + 1) \in Follows(Trail(p)) /\ Trail(p)' = Trail(p)
      BY <1>0, <1>4, <2>1 DEF CliFile
    <3>2. CASE p < Len(events)
      <4>1. p + 1 \in 1..Len(events)
        BY <1>3, <3>2
      <4>2. \A q \in {p + 1} : Lead(q)' = Lead(q)
        BY <1>4, <4>1
      <4> QED BY <3>1, <4>2
    <3>3. CASE p = Len(events)
      <4>1. Trail(p) = "nl"
        BY <1>0, <1>1, <3>3, AtRest
      <4>2. \A q \in {p + 1} : Lead(q)' = w
        BY <1>4, <3>3
      <4>3. w \in Follows("nl")
        BY <1>2 DEF Follows
      <4> QED BY <3>1, <4>1, <4>2, <4>3
    <3> QED BY <1>3, <3>2, <3>3
  <2>2. phase' = "cli" /\ strategy' = "cli"
    BY <1>1
  <2> QED BY <1>0, <1>1, <1>2, <2>1, <2>2 DEF CliFile
<1>7. HarnessFile'
  BY DEF HarnessFile
<1>8. /\ DOMAIN marks' = DOMAIN marks \cup {Len(events) + 1}
      /\ marks'[Len(events) + 1] = Local!Said(w)
      /\ \A q \in DOMAIN marks : marks'[q] = marks[q]
      /\ DOMAIN marks \subseteq Int /\ \A q \in DOMAIN marks : q < Len(events) + 1
  <2> DEFINE D  == {q \in at..(Len(events) + 1) : Word(q) \in Local!Sentinels}
             D1 == {q \in at..(Len(events) + 1) : Word(q)' \in Local!Sentinels}
  <2>1. DOMAIN marks = D /\ \A q \in D : marks[q] = Local!Said(Word(q))
    BY DEF marks, LineAt
  <2>2. DOMAIN marks' = D1 /\ \A q \in D1 : marks'[q] = Local!Said(Word(q)')
    BY <1>1 DEF marks, LineAt
  <2>3. \A q \in at..Len(events) : Word(q)' = Word(q)
    <3> SUFFICES ASSUME NEW q \in at..Len(events) PROVE Word(q)' = Word(q)
      OBVIOUS
    <3>1. CASE q = at
      BY <1>1, <3>1 DEF Word
    <3>2. CASE q # at
      <4>1. q \in 1..Len(events)
        BY <1>3, <3>2
      <4> QED BY <1>1, <1>4, <3>2, <4>1 DEF Word
    <3> QED BY <3>1, <3>2
  <2>4. \A q \in {Len(events) + 1} : Word(q) = "end" /\ Word(q)' = w
    <3>1. at # Len(events) + 1
      BY <1>3
    <3> QED BY <1>1, <1>4, <3>1 DEF Word
  <2>5. \A q \in at..(Len(events) + 1) : q \in at..Len(events) \/ q = Len(events) + 1
    BY <1>3
  <2>6. Len(events) + 1 \in at..(Len(events) + 1) /\ "end" \notin Local!Sentinels
    BY <1>3 DEF Local!Sentinels
  <2>7. D1 = D \cup {Len(events) + 1} /\ Len(events) + 1 \notin D
    BY <2>3, <2>4, <2>5, <2>6
  <2>8. \A q \in D : q \in at..Len(events)
    BY <2>5, <2>7
  <2> HIDE DEF D, D1
  <2>9. \A q \in D : marks'[q] = marks[q]
    BY <2>1, <2>2, <2>3, <2>7, <2>8
  <2>10. \A q \in {Len(events) + 1} : marks'[q] = Local!Said(w)
    BY <2>2, <2>4, <2>7
  <2>11. \A q \in D : q \in Int /\ q < Len(events) + 1
    BY <1>3, <2>8
  <2> QED BY <2>1, <2>2, <2>7, <2>9, <2>10, <2>11
<1>9. Told(marks', sess, said')
  <2>1. Len(events) + 1 \in Int /\ said.asked \in BOOLEAN
    BY <1>0, <1>3
  <2> QED BY <1>0, <1>1, <1>2, <1>8, <2>1, LineSaid
<1>10. EndsSaid' /\ Local!EndingTold'
  <2>1. "none" \notin CutShort
    BY DEF CutShort
  <2> QED BY <1>0, <1>1, <1>9, <2>1 DEF EndsSaid, Local!EndingTold
<1> QED BY <1>5, <1>6, <1>7, <1>10 DEF OutputInv

\* An event of the CLI: the marks stay, its message goes on where it was.
GoesOn(v) ==
  /\ v.type = "text" => Chain(v.text)
  /\ Lead(Len(events) + 1) = IF v.type = "text" THEN v.text[1] ELSE "end"
  /\ rest' # <<>> => Chain(rest') /\ Local!Last(rest') = "nl" /\ rest'[1] \notin Words
  /\ rest' = <<>> => (v.type = "text" => Local!Last(v.text) = "nl")
  /\ rest' # <<>> => v.type = "text" /\ rest'[1] \in Follows(Local!Last(v.text))

LEMMA CliWrites ==
  ASSUME OutputInv, strategy = "cli", phase = "cli", UNCHANGED <<strategy, cancelled, Local!tail, said>>,
         half' = FALSE, NEW v \in EventRecs, events' = Append(events, v),
         GoesOn(v),
         rest' \in Seq(Pieces),
         \/ phase' = "cli" /\ how' = how
         \/ phase' = "ended" /\ how' = "exit" /\ rest' = <<>>
  PROVE  OutputInv'
<1>0. /\ Shape /\ HarnessFile /\ CliFile /\ EndsSaid /\ ~sess.over /\ Told(marks, sess, said)
      /\ how = "none" /\ UNCHANGED <<at, pending, sess>>
      /\ v.type = "text" => Chain(v.text)
      /\ Lead(Len(events) + 1) = IF v.type = "text" THEN v.text[1] ELSE "end"
      /\ rest' # <<>> => Chain(rest') /\ Local!Last(rest') = "nl" /\ rest'[1] \notin Words
      /\ rest' = <<>> => (v.type = "text" => Local!Last(v.text) = "nl")
      /\ rest' # <<>> => v.type = "text" /\ rest'[1] \in Follows(Local!Last(v.text))
  BY DEF OutputInv, EndsSaid, Local!tail, GoesOn
<1>1. /\ Len(events') = Len(events) + 1 /\ events' \in Seq(EventRecs)
      /\ at \in 0..Len(events') /\ at # Len(events) + 1 /\ at # Len(events) + 2
      /\ events'[Len(events) + 1] = v
      /\ \A p \in 1..Len(events) : events'[p] = events[p] /\ Lead(p)' = Lead(p)
      /\ \A p \in at..Len(events) : Trail(p)' = Trail(p)
  BY <1>0, CliAppend
<1>2. Len(events) \in Nat /\ at \in Nat /\ at <= Len(events)
  BY <1>0, ShapeTypes
<1>3. \A p \in {Len(events) + 1} :
        /\ Lead(p)' = Lead(p)
        /\ Trail(p)' = IF v.type = "text" THEN Local!Last(v.text) ELSE "nl"
  <2>1. \A p \in {Len(events) + 1} : p # Len(events') + 1 /\ p # at /\ events'[p] = v
    BY <1>1, <1>2
  <2> QED BY <1>0, <2>1 DEF Lead, Trail
<1>4. \A p \in {Len(events) + 2} : Lead(p)' = IF rest' = <<>> THEN "end" ELSE rest'[1]
  <2>1. \A p \in {Len(events) + 2} : p = Len(events') + 1
    BY <1>1, <1>2
  <2> QED BY <2>1 DEF Lead
<1>5. Shape'
  BY <1>0, <1>1 DEF Shape
<1>6. CliFile'
  <2>1. ASSUME NEW p \in at..Len(events') PROVE Lead(p + 1)' \in Follows(Trail(p)')
    <3>1. CASE p \in at..Len(events)
      <4>1. Lead(p + 1) \in Follows(Trail(p)) /\ Trail(p)' = Trail(p)
        BY <1>0, <1>1, <3>1 DEF CliFile
      <4>2. \A q \in {p + 1} : q \in 1..Len(events) \/ q = Len(events) + 1
        BY <1>2, <3>1
      <4>3. \A q \in {p + 1} : Lead(q)' = Lead(q)
        BY <1>1, <1>3, <4>2
      <4> QED BY <4>1, <4>3
    <3>2. CASE p \notin at..Len(events)
      <4>1. p = Len(events) + 1 /\ p + 1 = Len(events) + 2
        BY <1>1, <1>2, <3>2
      <4>2. Trail(p)' = IF v.type = "text" THEN Local!Last(v.text) ELSE "nl"
        BY <1>3, <4>1
      <4>3. Lead(p + 1)' = IF rest' = <<>> THEN "end" ELSE rest'[1]
        <5>1. \A q \in {p + 1} : Lead(q)' = IF rest' = <<>> THEN "end" ELSE rest'[1]
          BY <1>4, <4>1
        <5> QED BY <5>1
      <4>4. "end" \in Follows("nl")
        BY DEF Follows
      <4> QED BY <1>0, <4>2, <4>3, <4>4
    <3> QED BY <3>1, <3>2
  <2>2. ASSUME NEW p \in 1..Len(events'), events'[p].type = "text" PROVE Chain(events'[p].text)
    <3>1. CASE p \in 1..Len(events)
      BY <1>0, <1>1, <2>2, <3>1 DEF CliFile
    <3>2. CASE p \notin 1..Len(events)
      <4>1. p = Len(events) + 1
        BY <1>1, <1>2, <3>2
      <4> QED BY <1>0, <1>1, <2>2, <4>1
    <3> QED BY <3>1, <3>2
  <2>3. phase' \in {"cli", "ended"} /\ how' \in {"none", "exit", "killed"}
        /\ (phase' = "ended" => rest' = <<>>)
    BY <1>0
  <2> QED BY <1>0, <2>1, <2>2, <2>3 DEF CliFile
<1>7. HarnessFile'
  BY DEF HarnessFile
<1>8. /\ DOMAIN marks' = DOMAIN marks /\ DOMAIN marks \subseteq Int
      /\ \A q \in DOMAIN marks : marks'[q] = marks[q]
  <2> DEFINE D  == {q \in at..(Len(events) + 1) : Word(q) \in Local!Sentinels}
             D1 == {q \in at..(Len(events') + 1) : Word(q)' \in Local!Sentinels}
  <2>1. DOMAIN marks = D /\ \A q \in D : marks[q] = Local!Said(Word(q))
    BY DEF marks, LineAt
  <2>2. DOMAIN marks' = D1 /\ \A q \in D1 : marks'[q] = Local!Said(Word(q)')
    BY <1>0 DEF marks, LineAt
  <2>3. \A q \in at..(Len(events) + 1) : Word(q)' = Word(q)
    <3> SUFFICES ASSUME NEW q \in at..(Len(events) + 1) PROVE Word(q)' = Word(q)
      OBVIOUS
    <3>1. CASE q = at
      BY <1>0, <3>1 DEF Word
    <3>2. CASE q # at
      <4>1. q \in 1..Len(events) \/ q = Len(events) + 1
        BY <1>2, <3>2
      <4>2. Lead(q)' = Lead(q)
        BY <1>1, <1>3, <4>1
      <4> QED BY <1>0, <3>2, <4>2 DEF Word
    <3> QED BY <3>1, <3>2
  <2>4. \A q \in {Len(events) + 2} : Word(q)' \notin Local!Sentinels
    <3>1. "end" \notin Local!Sentinels /\ Local!Sentinels \subseteq Words
      BY DEF Local!Sentinels, Words
    <3> QED BY <1>0, <1>1, <1>4, <3>1 DEF Word
  <2>5. \A q \in at..(Len(events') + 1) : q \in at..(Len(events) + 1) \/ q = Len(events) + 2
    BY <1>1, <1>2
  <2>6. \A q \in at..(Len(events) + 1) : q \in at..(Len(events') + 1) /\ q \in Int
    BY <1>1, <1>2
  <2>7. D1 = D /\ D \subseteq Int
    BY <2>3, <2>4, <2>5, <2>6
  <2>8. \A q \in D : Word(q)' = Word(q)
    BY <2>3
  <2> HIDE DEF D, D1
  <2> QED BY <2>1, <2>2, <2>7, <2>8
<1>9. Told(marks', sess, said')
  BY <1>0, <1>8, SameMarks
<1>10. EndsSaid' /\ Local!EndingTold'
  <2>1. how' \notin CutShort /\ (phase' # "ended" => how' = "none") /\ ~sess'.over
    BY <1>0 DEF CutShort
  <2> QED BY <1>0, <1>9, <2>1 DEF EndsSaid, Local!EndingTold
<1> QED BY <1>5, <1>6, <1>7, <1>10 DEF OutputInv

LEMMA DeltaStep ==
  ASSUME OutputInv, strategy = "cli", phase = "cli", UNCHANGED <<strategy, cancelled, Local!tail>>,
         NEW n \in 1..4, Local!CliDelta(n)
  PROVE  OutputInv'
<1>0. /\ Shape /\ CliFile /\ ~Tears /\ n <= Len(rest) /\ rest \in Seq(Pieces) /\ Len(rest) \in Nat
  BY DEF OutputInv, Shape, Local!CliDelta
<1>1. PICK t : t = Delta(rest, n)
  OBVIOUS
<1>2. PICK u : u = Left(rest, n)
  OBVIOUS
<1>3. rest # <<>>
  BY <1>0
<1>4. Chain(rest) /\ Local!Last(rest) = "nl" /\ n \in 1..Len(rest)
  BY <1>0, <1>3 DEF CliFile
<1>5. /\ Chain(t) /\ t[1] = rest[1]
      /\ n = Len(rest) => u = <<>> /\ Local!Last(t) = "nl"
      /\ n < Len(rest) => /\ Chain(u) /\ Local!Last(u) = "nl"
                          /\ u[1] \in Follows(Local!Last(t)) /\ u[1] \notin Words
  BY ONLY <1>1, <1>2, <1>4, ChainCut
<1>6. PICK v \in EventRecs : v = Local!Event("text", t) /\ v.type = "text" /\ v.text = t
  <2>1. Local!Event("text", t) \in EventRecs /\ Local!Event("text", t).type = "text" /\ Local!Event("text", t).text = t
    BY <1>5 DEF Local!Event, EventRecs, Kinds, Chain
  <2> QED BY <2>1
<1>7. /\ events' = Append(events, v) /\ half' = FALSE /\ rest' = u
      /\ UNCHANGED <<phase, how, said>>
  BY <1>0, <1>1, <1>2, <1>6 DEF Local!CliDelta, Delta, Left
<1>8. v.type = "text" /\ Lead(Len(events) + 1) = v.text[1]
  BY <1>3, <1>5, <1>6 DEF Lead
<1>9. u \in Seq(Pieces) /\ (n = Len(rest) \/ n < Len(rest))
  <2>1. n = Len(rest) \/ n < Len(rest)
    BY <1>0
  <2>2. CASE n = Len(rest)
    BY <1>5, <2>2
  <2>3. CASE n < Len(rest)
    BY <1>5, <2>3 DEF Chain
  <2> QED BY <2>1, <2>2, <2>3
<1>10. /\ rest' # <<>> => Chain(rest') /\ Local!Last(rest') = "nl" /\ rest'[1] \notin Words
       /\ rest' = <<>> => Local!Last(v.text) = "nl"
       /\ rest' # <<>> => rest'[1] \in Follows(Local!Last(v.text))
  <2>1. CASE n = Len(rest)
    BY <1>5, <1>6, <1>7, <2>1
  <2>2. CASE n < Len(rest)
    <3>1. u # <<>>
      BY <1>5, <2>2 DEF Chain
    <3> QED BY <1>5, <1>6, <1>7, <2>2, <3>1
  <2> QED BY <1>9, <2>1, <2>2
<1>11. GoesOn(v)
  BY <1>5, <1>6, <1>8, <1>10 DEF GoesOn
<1>12. UNCHANGED <<strategy, cancelled, Local!tail, said>> /\ rest' \in Seq(Pieces)
       /\ phase' = "cli" /\ how' = how /\ events' = Append(events, v) /\ half' = FALSE
  BY <1>7, <1>9
<1> QED BY <1>11, <1>12, CliWrites

LEMMA ExitStep ==
  ASSUME OutputInv, strategy = "cli", phase = "cli", UNCHANGED <<strategy, cancelled, Local!tail>>, Local!CliExit
  PROVE  OutputInv'
<1>1. PICK v \in EventRecs : v = Local!Event("stop", <<>>) /\ v.type # "text"
  <2>1. <<>> \in Seq(Pieces)
    OBVIOUS
  <2>2. Local!Event("stop", <<>>) \in EventRecs /\ Local!Event("stop", <<>>).type # "text"
    BY <2>1 DEF Local!Event, EventRecs, Kinds
  <2> QED BY <2>2
<1>2. /\ events' = events \o <<v>> /\ half' = FALSE /\ UNCHANGED <<rest, said>>
      /\ phase' = "ended" /\ how' = "exit" /\ rest = <<>>
  BY <1>1 DEF Local!CliExit, Local!End, Local!Emit
<1>3. events \in Seq(EventRecs) /\ rest \in Seq(Pieces)
  BY DEF OutputInv, Shape
<1>4. events' = Append(events, v)
  BY <1>2, <1>3
<1>5. Lead(Len(events) + 1) = "end"
  BY <1>2 DEF Lead
<1>6. GoesOn(v)
  BY <1>1, <1>2, <1>5 DEF GoesOn
<1>7. rest' \in Seq(Pieces) /\ rest' = <<>>
  BY <1>2, <1>3
<1> QED BY <1>2, <1>4, <1>6, <1>7, CliWrites

-----------------------------------------------------------------------------
\* The tail loop settles the session, the user or the watchdog ends it.

LEMMA EndedStep ==
  ASSUME OutputInv, ~sess.over, cancelled' = TRUE, UNCHANGED <<strategy, said, Local!file, Local!tail, rest>>,
         UNCHANGED <<phase, how>> \/ (phase = "cli" /\ phase' = "ended" /\ how' = "killed")
  PROVE  OutputInv'
<1>0. /\ Shape /\ HarnessFile /\ CliFile /\ EndsSaid /\ Told(marks, sess, said)
      /\ UNCHANGED <<events, half, at, pending, sess>>
  BY DEF OutputInv, EndsSaid, Local!file, Local!tail
<1>1. phase' # "ended" => how' = "none"
  BY <1>0 DEF EndsSaid
<1>2. Shape' /\ HarnessFile' /\ CliFile'
  <2>1. sess' \in SessRecs
    BY <1>0 DEF Shape
  <2>2. strategy = "harness" => phase' # "cli"
    BY <1>0 DEF HarnessFile
  <2>3. strategy = "cli" => phase' \in {"cli", "ended"} /\ how' \in {"none", "exit", "killed"}
    BY <1>0 DEF CliFile
  <2> QED BY <1>0, <2>1, <2>2, <2>3, FilesStay
<1>3. marks' = marks
  BY <1>0, MarksStay
<1>4. EndsSaid'
  <2>1. how' \in CutShort => how' = how
    BY DEF CutShort
  <2> QED BY <1>0, <1>1, <1>3, <2>1 DEF EndsSaid
<1> QED BY <1>0, <1>2, <1>4 DEF OutputInv, Local!EndingTold

LEMMA SettleStep ==
  ASSUME OutputInv, Local!Settle
  PROVE  OutputInv'
<1> DEFINE state == Local!Terminal(sess.state, err)
<1>0. /\ Shape /\ HarnessFile /\ CliFile /\ EndsSaid /\ ~sess.over /\ Told(marks, sess, said)
      /\ phase = "ended" /\ sess \in SessRecs /\ (at = Len(events) \/ cancelled)
      /\ said \in [line : Spoken \cup {<<"none">>}, asked : BOOLEAN]
      /\ UNCHANGED <<strategy, events, rest, half, said, cancelled, phase, how, err, at, pending>>
      /\ sess' = [sess EXCEPT !.state = state, !.over = TRUE]
  BY DEF OutputInv, EndsSaid, Shape, Local!Settle, Local!loop, Local!file
<1>1. state \in States
  BY <1>0 DEF Local!Terminal, SessRecs, States
<1> HIDE DEF state
<1>2. /\ sess' \in SessRecs /\ sess'.state = state /\ sess'.over = TRUE
      /\ sess'.reason = sess.reason /\ sess'.question = sess.question
  BY <1>0, <1>1 DEF SessRecs
<1>3. Shape' /\ HarnessFile' /\ CliFile'
  <2>1. strategy = "harness" => phase' # "cli"
    BY <1>0
  <2>2. strategy = "cli" =>
          phase' \in {"cli", "ended"} /\ how' \in {"none", "exit", "killed"}
            /\ (phase' = "ended" => cancelled' \/ rest = <<>>)
    BY <1>0 DEF CliFile
  <2> QED BY <1>0, <1>2, <2>1, <2>2, FilesStay
<1>4. EndsSaid'
  BY <1>0, <1>2 DEF EndsSaid
<1>5. ASSUME ~cancelled
      PROVE  Agrees(sess, said.line)
  <2>1. Len(events) \in Nat /\ at = Len(events) /\ "end" \notin Local!Sentinels /\ strategy \in {"harness", "cli"}
    BY <1>0, <1>5, ShapeTypes DEF Local!Sentinels, Shape
  <2>2. DOMAIN marks = {}
    <3>1. CASE strategy = "harness"
      <4>1. DOMAIN marks \subseteq (at + 1)..Len(events)
        BY <1>0, <3>1, MarksOf
      <4>2. \A q \in (at + 1)..Len(events) : FALSE
        BY <2>1
      <4> QED BY <4>1, <4>2
    <3>2. CASE strategy = "cli"
      <4>1. rest = <<>>
        BY <1>0, <1>5, <3>2 DEF CliFile
      <4>2. Trail(at) = "nl"
        BY <1>0, <2>1, <3>2, <4>1, AtRest
      <4>3. pending = <<>>
        BY <1>0, <3>2, <4>2 DEF Trail, CliFile
      <4>4. Word(at) = "end" /\ \A q \in {at + 1} : Word(q) = "end"
        BY <2>1, <4>1, <4>3 DEF Word, Open, Lead
      <4>5. \A q \in at..(Len(events) + 1) : q = at \/ q = at + 1
        BY <2>1
      <4>6. \A q \in at..(Len(events) + 1) : Word(q) \notin Local!Sentinels
        BY <2>1, <4>4, <4>5
      <4>7. DOMAIN marks = {q \in at..(Len(events) + 1) : Word(q) \in Local!Sentinels}
        BY DEF marks
      <4> QED BY <4>6, <4>7
    <3> QED BY <2>1, <3>1, <3>2
  <2>3. Counting(marks, sess) = {}
    BY <2>2 DEF Counting
  <2> QED BY <1>0, <2>3 DEF Told
<1>6. Local!EndingTold'
  <2> SUFFICES ASSUME ~cancelled PROVE Local!EndingTold'
    BY <1>0 DEF Local!EndingTold
  <2>1. sess.state = StateFor(said.line)
        /\ (said.line[1] \in {"blocked", "needs_pr"} => sess.reason = Tail(said.line))
    BY <1>5 DEF Agrees
  <2>2. state = CASE said.line[1] = "ask"      -> "paused"
                  [] said.line[1] = "needs_pr" -> "needs_pr"
                  [] said.line[1] = "blocked"  -> "failed"
                  [] OTHER -> IF err THEN "failed" ELSE "completed"
    BY <2>1 DEF Local!Terminal, StateFor, state
  <2>3. how \in {"skill", "turns", "provider", "tokens"} =>
          state = "failed" /\ sess.reason = Tail(Local!Own)
    <3> SUFFICES ASSUME how \in {"skill", "turns", "provider", "tokens"}
                 PROVE  state = "failed" /\ sess.reason = Tail(Local!Own)
      OBVIOUS
    <3>1. said.line = Local!Own
      BY <1>0 DEF EndsSaid, CutShort
    <3>2. Local!Own[1] = "blocked"
      BY DEF Local!Own
    <3> QED BY <2>1, <2>2, <3>1, <3>2
  <2> QED BY <1>0, <1>2, <2>1, <2>2, <2>3 DEF Local!EndingTold
<1> QED BY <1>3, <1>4, <1>6 DEF OutputInv

-----------------------------------------------------------------------------
LEMMA OutputStarts ==
  ASSUME Local!WorkerStreamAssumption, Tears => "cli" \notin Strategies, Local!Init
  PROVE  OutputInv
<1>0. /\ strategy \in {"harness", "cli"} /\ (strategy = "cli" => ~Tears) /\ half = FALSE
      /\ events = <<>> /\ at = 0 /\ pending = <<>> /\ rest = <<>>
      /\ how = "none" /\ phase = (IF strategy = "cli" THEN "cli" ELSE "start")
      /\ said = [line |-> <<"none">>, asked |-> FALSE]
      /\ sess = [state |-> "running", reason |-> <<>>, question |-> <<>>, over |-> FALSE]
  BY DEF Local!Init, Local!WorkerStreamAssumption
<1>1. Shape
  <2>1. <<>> \in Seq(Pieces) /\ <<>> \in Seq(EventRecs) /\ Len(<<>>) = 0
    OBVIOUS
  <2> QED BY <1>0, <2>1 DEF Shape, SessRecs, States
<1>2. HarnessFile
  BY <1>0 DEF HarnessFile
<1>3. Lead(1) = "end" /\ Trail(0) = "nl"
  BY <1>0 DEF Lead, Trail
<1>4. CliFile
  <2>1. \A p \in at..Len(events) : p = 0
    BY <1>0
  <2>2. \A p \in 1..Len(events) : FALSE
    BY <1>0
  <2>3. Lead(0 + 1) \in Follows(Trail(0))
    BY <1>3 DEF Follows
  <2> QED BY <1>0, <2>1, <2>2, <2>3 DEF CliFile
<1>5. DOMAIN marks = {}
  <2>1. \A q \in at..(Len(events) + 1) : q = at \/ q = 1
    BY <1>0
  <2>2. Word(at) = "end" /\ Word(1) = "end" /\ "end" \notin Local!Sentinels
    BY <1>0, <1>3 DEF Word, Open, Local!Sentinels
  <2> QED BY <2>1, <2>2 DEF marks
<1>6. Told(marks, sess, said)
  <2>1. Asks(marks) = {} /\ Counting(marks, sess) = {}
    BY <1>5 DEF Asks, Counting
  <2>2. Agrees(sess, said.line)
    BY <1>0 DEF Agrees, StateFor
  <2>3. sess.question = <<>> /\ said.asked = FALSE
    BY <1>0
  <2> QED BY <2>1, <2>2, <2>3 DEF Told
<1>7. EndsSaid
  BY <1>0, <1>6 DEF EndsSaid, CutShort
<1>8. Local!EndingTold
  BY <1>0 DEF Local!EndingTold
<1> QED BY <1>1, <1>2, <1>4, <1>7, <1>8 DEF OutputInv

LEMMA OutputStep ==
  ASSUME OutputInv, [Local!Next]_(Local!vars)
  PROVE  OutputInv'
<1>0. strategy \in {"harness", "cli"} /\ half = FALSE
  BY DEF OutputInv, Shape
<1>1. CASE Local!Goroutine \/ Local!Loop(Local!GetStuck) \/ Local!Loop(Local!Panic)
  <2>1. /\ strategy = "harness" /\ UNCHANGED <<strategy, cancelled, Local!tail>>
        /\ Local!Begin \/ Local!Turn \/ Local!Answer \/ Local!Call \/ Local!Called \/ Local!GetStuck \/ Local!Panic
    BY <1>1 DEF Local!Goroutine, Local!Loop
  <2>2. Writes /\ phase # "ended"
    BY <2>1, LoopWrites DEF OutputInv
  <2> QED BY <2>1, <2>2, HarnessStep
<1>2. ASSUME strategy = "cli", phase = "cli", UNCHANGED <<strategy, cancelled, Local!tail>>
      PROVE  /\ \A w \in Local!Sentinels : Local!CliSay(w) => OutputInv'
             /\ \A n \in 1..4 : Local!CliDelta(n) => OutputInv'
             /\ ~Local!CliWhole /\ (Local!CliExit => OutputInv')
  BY <1>0, <1>2, SayStep, DeltaStep, ExitStep DEF Local!CliWhole
<1>3. CASE Local!Cli((\E w \in Local!Sentinels : Local!CliSay(w))
                       \/ (\E n \in 1..4 : Local!CliDelta(n)) \/ Local!CliWhole \/ Local!CliExit)
  BY <1>2, <1>3 DEF Local!Cli
<1>4. CASE Local!ReadEvent
  BY <1>0, <1>4, ReadHarness, ReadCli
<1>5. CASE Local!Settle
  BY <1>5, SettleStep
<1>6. CASE Local!Kill
  BY <1>6, EndedStep DEF Local!Kill, Local!Cancel, Local!loop
<1>7. CASE Local!Watchdog
  BY <1>7, EndedStep DEF Local!Watchdog, Local!Cancel, Local!loop
<1>8. CASE UNCHANGED Local!vars
  <2>1. UNCHANGED <<strategy, phase, rest, err, how, said, cancelled, events, half, at, pending, sess>>
    BY <1>8 DEF Local!vars, Local!loop, Local!file, Local!tail
  <2>2. marks' = marks
    BY <2>1, MarksStay
  <2>3. Shape' /\ HarnessFile' /\ CliFile'
    <3>1. sess' \in SessRecs /\ (strategy = "harness" => phase' # "cli")
      BY <2>1 DEF OutputInv, Shape, HarnessFile
    <3>2. strategy = "cli" =>
            phase' \in {"cli", "ended"} /\ how' \in {"none", "exit", "killed"}
              /\ (phase' = "ended" => cancelled' \/ rest = <<>>)
      BY <2>1 DEF OutputInv, CliFile
    <3> QED BY <2>1, <3>1, <3>2, FilesStay DEF OutputInv
  <2>4. EndsSaid' /\ Local!EndingTold'
    BY <2>1, <2>2 DEF OutputInv, EndsSaid, Local!EndingTold
  <2> QED BY <2>3, <2>4 DEF OutputInv
<1> QED BY <1>1, <1>3, <1>4, <1>5, <1>6, <1>7, <1>8 DEF Local!Next, Local!TailLoop

LEMMA LocalStep ==
  ASSUME OutputInv, [OutputNext]_<<scene, vars, localVars>>
  PROVE  OutputInv'
<1>1. CASE Local!Next
  BY <1>1, OutputStep
<1>2. CASE UNCHANGED localVars
  <2>1. UNCHANGED Local!vars
    BY <1>2 DEF localVars, Local!vars, Local!loop, Local!file, Local!tail
  <2> QED BY <2>1, OutputStep
<1> QED BY <1>1, <1>2 DEF OutputNext

\* At every moment what is in the file and not yet heard, with what has been heard, makes
\* the state that the worker's last sentinel calls for; the tail of a worker of the CLI is
\* not to read an event that is half written (harness.go, tailLoop, feedParser).
THEOREM OutputInvariance ==
  ASSUME Tears => "cli" \notin Strategies
  PROVE  OutputSpec => []OutputInv
<1>1. OutputInit => OutputInv
  BY OutputStarts, OutputAssumption DEF OutputInit
<1>2. OutputInv /\ [OutputNext]_<<scene, vars, localVars>> => OutputInv'
  BY LocalStep
<1>3. OutputSpec => OutputInit /\ [][OutputNext]_<<scene, vars, localVars>>
  BY PTL DEF OutputSpec
<1> QED BY <1>1, <1>2, <1>3, PTL

\* A session that nobody cancelled ends in the state that its worker's last sentinel and
\* its end call for, with the whole of the reason given there; one that the loop itself cut
\* short ends as failed and says so (harness.go:55-61, manager.go:1385-1413).
THEOREM EndingAlwaysTold ==
  ASSUME Tears => "cli" \notin Strategies
  PROVE  OutputSpec => []EndingTold
<1>1. OutputInv => EndingTold
  BY DEF OutputInv, EndingTold
<1> QED BY <1>1, OutputInvariance, PTL
=============================================================================
