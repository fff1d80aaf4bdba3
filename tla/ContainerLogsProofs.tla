-------------------------- MODULE ContainerLogsProofs --------------------------
(******************************************************************************)
(* The logs of an activation are its own and complete (LogsExact), and nobody   *)
(* sends on the closed Logs channel (NoSendOnClosed), for any number of         *)
(* invocations, lines and any log limit.  What makes the first inductive is the *)
(* order of what is on its way: behind a sentinel there is only background      *)
(* output (Ordered), so that a container whose sentinels were both seen has     *)
(* nothing else left for the next invocation (Reusable).                        *)
(******************************************************************************)
EXTENDS ContainerLogs, SequenceTheorems, TLAPS

\* What is on its way on a stream: in the pipe, or in the hands of consumeStream.
Late(s) == /\ held[s].kind \in {"late", "none"}
           /\ \A i \in DOMAIN pipe[s] : pipe[s][i].kind = "late"
\* Only background output of earlier invocations, and nothing but that behind a sentinel.
Ordered(s) ==
  /\ held[s].kind \in {"line", "sentinel"} => held[s].of = activation
  /\ \A i \in DOMAIN pipe[s] : pipe[s][i].kind = "late" \/ pipe[s][i].of = activation
  /\ held[s].kind = "sentinel" => \A i \in DOMAIN pipe[s] : pipe[s][i].kind = "late"
  /\ \A i, j \in DOMAIN pipe[s] : i < j /\ pipe[s][i].kind = "sentinel" => pipe[s][j].kind = "late"
  /\ s \in found => Late(s)
  /\ s \notin ended => /\ held[s].kind # "sentinel" /\ s \notin found
                       /\ \A i \in DOMAIN pipe[s] : pipe[s][i].kind # "sentinel"
\* collectLogs has ended by itself, or the next invocation may come.
Reusable ==
  /\ collector = "done" => found = Streams
  /\ invocation = "idle" => \A s \in Streams : Late(s) /\ s \in ended
Own == \A i \in DOMAIN logs : logs[i].of = activation \/ logs[i].kind = "late"
\* The goroutines end with nothing in their hands, and the channel is closed after them.
Ended ==
  /\ \A s \in Streams : consumer[s] = "done" => held[s] = None
  /\ channel = "closed" => \A s \in Streams : consumer[s] = "done"

IInv == LogsTypeOK /\ (\A s \in Streams : Ordered(s)) /\ Reusable /\ Own /\ Ended

--------------------------------------------------------------------------------
(* What is read from the front of a pipe and written to its end.                *)
LEMMA TailOf ==
  ASSUME NEW S, NEW q \in Seq(S), q # <<>>
  PROVE  /\ Tail(q) \in Seq(S) /\ Head(q) \in S /\ Head(q) = q[1] /\ 1 \in DOMAIN q
         /\ \A i \in DOMAIN Tail(q) : i \in Int /\ 1 < i + 1 /\ i + 1 \in DOMAIN q /\ Tail(q)[i] = q[i + 1]
<1>1. /\ Tail(q) \in Seq(S) /\ Head(q) \in S /\ Head(q) = q[1] /\ Len(q) \in Nat /\ Len(q) # 0
      /\ DOMAIN Tail(q) = 1..(Len(q) - 1) /\ DOMAIN q = 1..Len(q)
      /\ \A i \in 1..(Len(q) - 1) : Tail(q)[i] = q[i + 1]
  OBVIOUS
<1> QED
  BY <1>1

LEMMA AppendOf ==
  ASSUME NEW S, NEW q \in Seq(S), NEW e \in S
  PROVE  /\ Append(q, e) \in Seq(S) /\ Len(Append(q, e)) = Len(q) + 1 /\ Len(q) \in Nat
         /\ \A i \in DOMAIN Append(q, e) : \/ i \in DOMAIN q /\ Append(q, e)[i] = q[i]
                                           \/ i = Len(q) + 1 /\ Append(q, e)[i] = e
         /\ \A i \in DOMAIN q : i \in Int /\ i < Len(q) + 1
<1>1. /\ Append(q, e) \in Seq(S) /\ Len(Append(q, e)) = Len(q) + 1 /\ Len(q) \in Nat
      /\ DOMAIN q = 1..Len(q) /\ DOMAIN Append(q, e) = 1..(Len(q) + 1)
      /\ \A i \in 1..Len(q) : Append(q, e)[i] = q[i]
      /\ Append(q, e)[Len(q) + 1] = e
  OBVIOUS
<1> QED
  BY <1>1

(* The container is new at first.                                               *)
LEMMA InitIInv == LogsInit => IInv
<1> SUFFICES ASSUME LogsInit PROVE IInv
  OBVIOUS
<1> USE LogsAssumption DEF LogsInit
<1>1. LogsTypeOK
  <2>1. activation \in 0..MaxActivations /\ written \in [Streams -> 0..MaxLines]
    OBVIOUS
  <2>2. pipe \in [Streams -> Seq(Entry)] /\ logs \in Seq(Entry) /\ Len(logs) <= Limit
    OBVIOUS
  <2> QED
    BY <2>1, <2>2 DEF LogsTypeOK
<1>2. \A s \in Streams : held[s].kind = "none" /\ DOMAIN pipe[s] = {} /\ s \in ended
  BY DEF None
<1>3. \A s \in Streams : Late(s) /\ Ordered(s)
  BY <1>2 DEF Ordered, Late
<1> QED
  BY <1>1, <1>3 DEF IInv, Reusable, Own, Ended

(* A line or a sentinel is written.                                             *)
LEMMA WriteStep ==
  ASSUME IInv, NEW s \in Streams, WriteLine(s) \/ WriteSentinel(s)
  PROVE  IInv'
<1>1. LogsTypeOK /\ (\A r \in Streams : Ordered(r)) /\ Reusable /\ Own /\ Ended
  BY DEF IInv
<1>2. PICK e \in Entry :
        /\ pipe' = [pipe EXCEPT ![s] = Append(pipe[s], e)] /\ e.of = activation
        /\ \/ e.kind = "line" /\ s \notin ended /\ UNCHANGED ended
           \/ e.kind = "late" /\ s \in ended /\ UNCHANGED ended
           \/ e.kind = "sentinel" /\ s \notin ended /\ ended' = ended \cup {s}
  <2>1. activation \in 1..MaxActivations
    BY <1>1, LogsAssumption DEF WriteLine, WriteSentinel, Alive, LogsTypeOK
  <2> DEFINE e(k) == [of |-> activation, kind |-> k]
  <2>2. e("line") \in Entry /\ e("late") \in Entry /\ e("sentinel") \in Entry
    BY <2>1 DEF Entry
  <2>3. CASE WriteLine(s)
    BY <2>2, <2>3 DEF WriteLine
  <2>4. CASE WriteSentinel(s)
    BY <2>2, <2>4 DEF WriteSentinel
  <2> QED
    BY <2>3, <2>4
<1>3. /\ UNCHANGED <<activation, invocation, held, consumer, collectVars, conn, channel>>
      /\ Alive
  BY DEF WriteLine, WriteSentinel
<1>4. LogsTypeOK'
  <2>1. written' \in [Streams -> 0..MaxLines]
    <3>1. CASE WriteLine(s)
      <4>1. written[s] \in 0..MaxLines /\ written[s] < MaxLines
        BY <1>1, <3>1 DEF LogsTypeOK, WriteLine
      <4>2. written[s] + 1 \in 0..MaxLines
        BY <4>1, LogsAssumption
      <4> QED
        BY <1>1, <3>1, <4>2 DEF LogsTypeOK, WriteLine
    <3>2. CASE WriteSentinel(s)
      BY <1>1, <3>2 DEF LogsTypeOK, WriteSentinel
    <3> QED
      BY <3>1, <3>2
  <2>2. pipe' \in [Streams -> Seq(Entry)]
    BY <1>1, <1>2, AppendOf DEF LogsTypeOK
  <2>3. ended' \subseteq Streams
    BY <1>1, <1>2 DEF LogsTypeOK
  <2> QED
    BY <1>1, <1>3, <2>1, <2>2, <2>3 DEF LogsTypeOK, collectVars
<1>5. /\ pipe[s] \in Seq(Entry) /\ pipe'[s] = Append(pipe[s], e)
      /\ \A r \in Streams \ {s} : pipe'[r] = pipe[r] /\ (r \in ended' <=> r \in ended)
  BY <1>1, <1>2 DEF LogsTypeOK
<1>6. /\ \A i \in DOMAIN pipe'[s] : \/ i \in DOMAIN pipe[s] /\ pipe'[s][i] = pipe[s][i]
                                    \/ i = Len(pipe[s]) + 1 /\ pipe'[s][i] = e
      /\ \A i \in DOMAIN pipe[s] : i \in Int /\ i < Len(pipe[s]) + 1
      /\ Len(pipe[s]) \in Nat
  BY <1>5, AppendOf
<1>7. Ordered(s)'
  <2>1. Ordered(s)
    BY <1>1
  <2>2. \A i \in DOMAIN pipe'[s] : pipe'[s][i].kind = "late" \/ pipe'[s][i].of = activation
    BY <1>2, <1>6, <2>1 DEF Ordered
  <2>3. held[s].kind = "sentinel" => \A i \in DOMAIN pipe'[s] : pipe'[s][i].kind = "late"
    BY <1>2, <1>6, <2>1 DEF Ordered
  <2>4. \A i, j \in DOMAIN pipe'[s] : i < j /\ pipe'[s][i].kind = "sentinel" => pipe'[s][j].kind = "late"
    BY <1>2, <1>6, <2>1 DEF Ordered
  <2>5. s \in found => Late(s)'
    BY <1>2, <1>3, <1>6, <2>1 DEF Ordered, Late
  <2>6. s \notin ended' => \A i \in DOMAIN pipe'[s] : pipe'[s][i].kind # "sentinel"
    BY <1>2, <1>6, <2>1 DEF Ordered
  <2> QED
    BY <1>2, <1>3, <2>1, <2>2, <2>3, <2>4, <2>5, <2>6 DEF Ordered, collectVars
<1>8. \A r \in Streams \ {s} : Ordered(r)'
  BY <1>1, <1>3, <1>5 DEF Ordered, Late, collectVars
<1>9. Reusable'
  <2>1. invocation = "idle" => s \in ended
    BY <1>1 DEF Reusable
  <2> QED
    BY <1>1, <1>2, <1>3, <1>5, <1>6, <2>1 DEF Reusable, Late, collectVars
<1> QED
  BY <1>1, <1>3, <1>4, <1>7, <1>8, <1>9 DEF IInv, Own, Ended, collectVars

(* A goroutine reads a line, or ends.                                           *)
LEMMA ReadStep ==
  ASSUME IInv, NEW s \in Streams, ReadLine(s)
  PROVE  IInv'
<1>1. LogsTypeOK /\ (\A r \in Streams : Ordered(r)) /\ Reusable /\ Own /\ Ended
  BY DEF IInv
<1>2. /\ UNCHANGED <<activation, invocation, runtimeVars, collectVars, conn, channel>>
      /\ consumer[s] = "running" /\ held[s] = None
  BY DEF ReadLine
<1>3. CASE UNCHANGED <<held, pipe>> /\ consumer' = [consumer EXCEPT ![s] = "done"]
  <2>1. LogsTypeOK'
    BY <1>1, <1>2, <1>3 DEF LogsTypeOK, runtimeVars, collectVars
  <2>2. (\A r \in Streams : Ordered(r)') /\ Reusable' /\ Own'
    BY <1>1, <1>2, <1>3 DEF Ordered, Late, Reusable, Own, runtimeVars, collectVars
  <2>3. Ended'
    BY <1>1, <1>2, <1>3 DEF Ended, LogsTypeOK
  <2> QED
    BY <2>1, <2>2, <2>3 DEF IInv
<1>4. CASE /\ pipe[s] # <<>> /\ held' = [held EXCEPT ![s] = Head(pipe[s])]
           /\ pipe' = [pipe EXCEPT ![s] = Tail(pipe[s])] /\ UNCHANGED consumer
  <2>1. pipe[s] \in Seq(Entry) /\ pipe'[s] = Tail(pipe[s]) /\ held'[s] = Head(pipe[s])
    BY <1>1, <1>4 DEF LogsTypeOK
  <2>2. /\ pipe'[s] \in Seq(Entry) /\ held'[s] \in Entry /\ held'[s] = pipe[s][1] /\ 1 \in DOMAIN pipe[s]
        /\ \A i \in DOMAIN pipe'[s] : i \in Int /\ 1 < i + 1 /\ i + 1 \in DOMAIN pipe[s] /\ pipe'[s][i] = pipe[s][i + 1]
    <3>1. PICK q : q = pipe[s]
      OBVIOUS
    <3>2. /\ Tail(q) \in Seq(Entry) /\ Head(q) \in Entry /\ Head(q) = q[1] /\ 1 \in DOMAIN q
          /\ \A i \in DOMAIN Tail(q) : i \in Int /\ 1 < i + 1 /\ i + 1 \in DOMAIN q /\ Tail(q)[i] = q[i + 1]
      BY <1>4, <2>1, <3>1, TailOf
    <3> QED
      BY <2>1, <3>1, <3>2
  <2>3. LogsTypeOK'
    BY <1>1, <1>2, <1>4, <2>1, <2>2 DEF LogsTypeOK, runtimeVars, collectVars
  <2>4. held'[s].kind # "none"
    BY <2>2 DEF Entry
  <2>5. Late(s) => Late(s)'
    BY <2>2 DEF Late
  <2>6. Ordered(s)'
    <3>1. Ordered(s)
      BY <1>1
    <3>2. held'[s].kind \in {"line", "sentinel"} => held'[s].of = activation
      BY <2>2, <3>1 DEF Ordered
    <3>3. \A i \in DOMAIN pipe'[s] : pipe'[s][i].kind = "late" \/ pipe'[s][i].of = activation
      BY <2>2, <3>1 DEF Ordered
    <3>4. held'[s].kind = "sentinel" => \A i \in DOMAIN pipe'[s] : pipe'[s][i].kind = "late"
      BY <2>2, <3>1 DEF Ordered
    <3>5. ASSUME NEW i \in DOMAIN pipe'[s], NEW j \in DOMAIN pipe'[s], i < j, pipe'[s][i].kind = "sentinel"
          PROVE  pipe'[s][j].kind = "late"
      <4>1. i + 1 < j + 1 /\ i + 1 \in DOMAIN pipe[s] /\ j + 1 \in DOMAIN pipe[s]
        BY <2>2, <3>5
      <4>2. pipe[s][i + 1].kind = "sentinel" /\ pipe'[s][j] = pipe[s][j + 1]
        BY <2>2, <3>5
      <4> QED
        BY <3>1, <4>1, <4>2 DEF Ordered
    <3>6. s \in found => Late(s)'
      BY <2>5, <3>1 DEF Ordered
    <3>7. s \notin ended => held'[s].kind # "sentinel" /\ s \notin found /\ \A i \in DOMAIN pipe'[s] : pipe'[s][i].kind # "sentinel"
      BY <2>2, <3>1 DEF Ordered
    <3> QED
      BY <1>2, <3>2, <3>3, <3>4, <3>5, <3>6, <3>7 DEF Ordered, runtimeVars, collectVars
  <2>7. \A r \in Streams \ {s} : held'[r] = held[r] /\ pipe'[r] = pipe[r]
    BY <1>1, <1>4 DEF LogsTypeOK
  <2>8. \A r \in Streams \ {s} : Ordered(r)'
    BY <1>1, <1>2, <2>7 DEF Ordered, Late, runtimeVars, collectVars
  <2>9. Reusable'
    BY <1>1, <1>2, <2>5, <2>7 DEF Reusable, Late, runtimeVars, collectVars
  <2>10. Own' /\ Ended'
    BY <1>1, <1>2, <1>4, <2>7 DEF Own, Ended, collectVars
  <2> QED
    BY <2>3, <2>6, <2>8, <2>9, <2>10 DEF IInv
<1> QED
  BY <1>3, <1>4 DEF ReadLine

(* Somebody receives what a goroutine sends.                                    *)
LEMMA ReceivedOrder ==
  ASSUME IInv, NEW s \in Streams, held' = [held EXCEPT ![s] = None], UNCHANGED <<activation, pipe, ended>>,
         found' = found \/ (found' = found \cup {s} /\ held[s].kind = "sentinel")
  PROVE  /\ \A r \in Streams : Ordered(r)'
         /\ \A r \in Streams : Late(r) => Late(r)'
<1>1. LogsTypeOK /\ \A r \in Streams : Ordered(r)
  BY DEF IInv
<1>2. held'[s].kind = "none" /\ \A r \in Streams \ {s} : held'[r] = held[r]
  BY <1>1 DEF LogsTypeOK, None
<1>3. \A r \in Streams : Late(r) => Late(r)'
  BY <1>2 DEF Late
<1>4. Ordered(s)'
  BY <1>1, <1>2 DEF Ordered, Late
<1>5. \A r \in Streams \ {s} : Ordered(r)'
  BY <1>1, <1>2 DEF Ordered, Late
<1> QED
  BY <1>3, <1>4, <1>5

(* collectLogs, or the goroutine of Remove that drains.                          *)
LEMMA ReceiveStep ==
  ASSUME IInv, NEW s \in Streams, Collect(s) \/ Drain(s)
  PROVE  IInv'
<1>1. LogsTypeOK /\ (\A r \in Streams : Ordered(r)) /\ Reusable /\ Own /\ Ended
  BY DEF IInv
<1>2. /\ held' = [held EXCEPT ![s] = None] /\ held[s] # None
      /\ UNCHANGED <<activation, invocation, runtimeVars, pipe, consumer, conn, channel>>
  BY DEF Collect, Drain
<1>3. found' = found \/ (found' = found \cup {s} /\ held[s].kind = "sentinel")
  BY DEF Collect, Drain, collectVars
<1>4. (\A r \in Streams : Ordered(r)') /\ \A r \in Streams : Late(r) => Late(r)'
  BY <1>2, <1>3, ReceivedOrder DEF runtimeVars
<1>5. held[s] \in Entry
  BY <1>1, <1>2 DEF LogsTypeOK
<1>6. /\ collector' \in {"off", "on", "done"} /\ found' \subseteq Streams
      /\ collector' = "done" => found' = Streams
  BY <1>1 DEF Collect, Drain, LogsTypeOK, Reusable, AllSentinels, collectVars
<1>7. logs' \in Seq(Entry) /\ Len(logs') <= Limit /\ truncated' \in BOOLEAN /\ Own'
  <2>1. CASE UNCHANGED logs
    BY <1>1, <1>2, <2>1 DEF Collect, Drain, LogsTypeOK, Own, collectVars
  <2>2. CASE /\ logs' = Append(logs, held[s]) /\ UNCHANGED truncated
             /\ held[s].kind # "sentinel" /\ WithinLimit
    <3>1. logs \in Seq(Entry) /\ Limit \in Nat
      BY <1>1, LogsAssumption DEF LogsTypeOK
    <3>2. /\ logs' \in Seq(Entry) /\ Len(logs') = Len(logs) + 1 /\ Len(logs) \in Nat
          /\ \A i \in DOMAIN logs' : \/ i \in DOMAIN logs /\ logs'[i] = logs[i]
                                     \/ i = Len(logs) + 1 /\ logs'[i] = held[s]
      BY <1>5, <2>2, <3>1, AppendOf
    <3>3. Len(logs') <= Limit
      BY <2>2, <3>1, <3>2 DEF WithinLimit
    <3>4. held[s].of = activation \/ held[s].kind = "late"
      BY <1>1, <1>5, <2>2 DEF Ordered, Entry
    <3>5. Own'
      BY <1>1, <1>2, <3>2, <3>4 DEF Own
    <3> QED
      BY <1>1, <2>2, <3>2, <3>3, <3>5 DEF LogsTypeOK
  <2> QED
    BY <2>1, <2>2 DEF Collect, Drain, collectVars
<1>8. LogsTypeOK'
  BY <1>1, <1>2, <1>6, <1>7 DEF LogsTypeOK, runtimeVars
<1>9. Reusable'
  BY <1>1, <1>2, <1>4, <1>6 DEF Reusable, runtimeVars
<1>10. Ended'
  BY <1>1, <1>2 DEF Ended, LogsTypeOK
<1> QED
  BY <1>4, <1>7, <1>8, <1>9, <1>10 DEF IInv

(* The invocation and Remove.                                                    *)
LEMMA InvocationStep ==
  ASSUME IInv, Invoke \/ Returned \/ Collected \/ Timeout \/ Cancelled \/ RemoveContainer \/ CloseConn \/ CloseLogs
  PROVE  IInv'
<1>1. LogsTypeOK /\ (\A r \in Streams : Ordered(r)) /\ Reusable /\ Own /\ Ended
  BY DEF IInv
<1>2. UNCHANGED <<pipe, held, consumer>>
  BY DEF Invoke, Returned, Collected, Timeout, Cancelled, RemoveContainer, CloseConn, CloseLogs
<1>3. CASE Invoke
  <2>1. LogsTypeOK'
    <3>1. activation' \in 0..MaxActivations /\ written' \in [Streams -> 0..MaxLines]
      BY <1>1, <1>3, LogsAssumption DEF LogsTypeOK, Invoke
    <3>2. logs' \in Seq(Entry) /\ Len(logs') <= Limit
      BY <1>3, LogsAssumption DEF Invoke
    <3> QED
      BY <1>1, <1>3, <3>1, <3>2 DEF LogsTypeOK, Invoke
  <2>2. \A s \in Streams : Late(s)
    BY <1>1, <1>3 DEF Invoke, Reusable
  <2>3. \A s \in Streams : Ordered(s)'
    BY <1>3, <2>2 DEF Ordered, Late, Invoke
  <2>4. Reusable' /\ Own' /\ Ended'
    BY <1>1, <1>3 DEF Reusable, Own, Ended, Invoke
  <2> QED
    BY <2>1, <2>3, <2>4 DEF IInv
<1>4. CASE Returned \/ Collected \/ Timeout \/ Cancelled \/ RemoveContainer \/ CloseConn \/ CloseLogs
  <2>1. UNCHANGED <<activation, runtimeVars, found, logs, truncated>> /\ collector' \in {collector, "off"}
    BY <1>4 DEF Returned, Collected, Timeout, Cancelled, RemoveContainer, CloseConn, CloseLogs, collectVars
  <2>2. invocation' = "idle" => collector = "done"
    BY <1>4 DEF Returned, Collected, Timeout, Cancelled, RemoveContainer, CloseConn, CloseLogs
  <2>3. LogsTypeOK'
    BY <1>1, <1>2, <1>4, <2>1 DEF LogsTypeOK, Returned, Collected, Timeout, Cancelled, RemoveContainer, CloseConn, CloseLogs,
          runtimeVars
  <2>4. \A s \in Streams : Ordered(s)' /\ (Late(s) => Late(s)')
    BY <1>1, <1>2, <2>1 DEF Ordered, Late, runtimeVars
  <2>5. Reusable'
    <3>1. invocation' = "idle" => \A s \in Streams : Late(s) /\ s \in ended
      BY <1>1, <2>2 DEF Reusable, Ordered
    <3> QED
      BY <1>1, <2>1, <2>4, <3>1 DEF Reusable, runtimeVars
  <2>6. Own'
    BY <1>1, <2>1 DEF Own
  <2>7. Ended'
    BY <1>1, <1>2, <1>4 DEF Ended, Returned, Collected, Timeout, Cancelled, RemoveContainer, CloseConn, CloseLogs
  <2> QED
    BY <2>3, <2>4, <2>5, <2>6, <2>7 DEF IInv
<1> QED
  BY <1>3, <1>4

--------------------------------------------------------------------------------
(* The theorems.                                                                *)

(* IInv holds of every reachable state.                                         *)
LEMMA Invariance == LogsSpec => []IInv
<1>1. IInv /\ [LogsNext]_logsVars => IInv'
  <2> SUFFICES ASSUME IInv, [LogsNext]_logsVars PROVE IInv'
    OBVIOUS
  <2>1. CASE UNCHANGED logsVars
    BY <2>1 DEF logsVars, IInv, LogsTypeOK, Ordered, Late, Reusable, Own, Ended
  <2> QED
    BY <2>1, WriteStep, ReadStep, ReceiveStep, InvocationStep DEF LogsNext
<1> QED
  BY <1>1, InitIInv, PTL DEF LogsSpec

(* In every reachable state, the logs of an activation hold no line of an         *)
(* earlier invocation but its background output, and are complete up to the limit *)
(* once both sentinels were seen.                                                 *)
THEOREM LogsAlwaysExact == LogsSpec => []LogsExact
<1>1. IInv => LogsExact
  <2> SUFFICES ASSUME IInv PROVE LogsExact
    OBVIOUS
  <2>1. ASSUME collector = "done", NEW s \in Streams, NEW e \in Range(pipe[s]) \cup {held[s]}
        PROVE  e.kind # "line"
    <3>1. Late(s)
      BY <2>1 DEF IInv, Reusable, Ordered
    <3> QED
      BY <2>1, <3>1 DEF Late, Range
  <2> QED
    BY <2>1 DEF IInv, LogsExact, Own
<1> QED
  BY <1>1, Invariance, PTL

(* In every reachable state with a closed Logs channel, the goroutines that send   *)
(* on it have ended.                                                              *)
THEOREM NeverSendOnClosed == LogsSpec => []NoSendOnClosed
<1>1. IInv => NoSendOnClosed
  BY DEF IInv, Ended, NoSendOnClosed
<1> QED
  BY <1>1, Invariance, PTL

================================================================================
