--------------------------- MODULE InvocationsProofs ---------------------------
(******************************************************************************)
(* No message is forgotten or answered wrongly, and none is run again but for  *)
(* an older commit, for any number of workers, handlers, messages and crashes. *)
(******************************************************************************)
EXTENDS Invocations, TLAPS

\* Messages that no crash delivers again, as long as no older commit comes.
Covered == {Topic[i] : i \in 1..committed} \cup arrived
\* Something was done for the message, in this process or in an earlier one.
Touched(m) == executed[m] > 0 \/ Answered(m) \/ records[m] # <<>>

\* Locations before and after the function is run, and those with a container.
Before  == {"commit", "load", "swap", "parse", "check", "fetch", "get", "init", "run"}
Lending == {"init", "run", "logs", "return"}

\* A goroutine has a message exactly while it is not waiting for one ...
Held == \A p \in Procs : msg[p] = NoMsg <=> at[p] \in {"read", "stopped"}
\* ... which it shares with nobody, ...
Exclusive == \A p, q \in Procs : msg[p] = msg[q] /\ msg[p] # NoMsg => p = q
\* ... and which was taken by this process.  What was done for a message was done after its commit.
TakenFirst ==
  /\ committed <= fetched
  /\ \A p \in Procs : msg[p] # NoMsg => msg[p] \in Taken
  /\ \A p \in Procs : msg[p] # NoMsg /\ at[p] # "commit" => msg[p] \in Covered \cup rewound
  /\ \A m \in Messages : Touched(m) => m \in Covered \cup rewound
  /\ crashes = 0 => \A m \in Messages : Touched(m) => m \in Taken
\* Every life of the process runs a message once, and a second one only runs rewound messages.
Once ==
  /\ \A m \in Messages : executed[m] <= crashes + 1 /\ (m \notin Taken => executed[m] <= crashes)
  /\ \A p \in Procs : at[p] \in Before => executed[msg[p]] <= crashes
  /\ \A m \in Messages \ Repeatable : executed[m] <= 1
  /\ \A p \in Procs : at[p] \in Before /\ msg[p] \notin Repeatable => executed[msg[p]] = 0
\* What is under way is not answered.
Unanswered == \A p \in Procs : msg[p] # NoMsg /\ msg[p] \notin Repeatable => ~Answered(msg[p])
\* Containers are lent to invocations between Get and the deferred Put.
LentOut == \A m \in lent : \E p \in Procs : msg[p] = m /\ at[p] \in Lending
\* A function that was run has a status of its own, and its logs are collected before the return.
Status ==
  \A p \in Procs : msg[p] # NoMsg /\ msg[p] \notin Repeatable /\ executed[msg[p]] > 0 =>
    /\ activation[p].status # "systemError" /\ activation[p].run # "none"
    /\ at[p] # "logs" => activation[p].logs # "none"
Honest ==
  \A m \in Messages \ Repeatable : Answered(m) /\ acks[m].of.status = "systemError" => executed[m] = 0
\* A record is that of the invocation that is about to answer, or has.
Recorded ==
  \A m \in Messages \ Repeatable : records[m] # <<>> =>
    /\ m \in Stored \ Blocking
    /\ Answered(m) => acks[m].of = records[m][1]
    /\ executed[m] = 1 => records[m][1].run # "none" /\ records[m][1].logs # "none"
    /\ \A p \in Procs : msg[p] = m => at[p] = "ack" /\ activation[p] = records[m][1]
\* Without a crash everything taken is under way, answered or malformed, or its commit failed.
Remembered ==
  crashes = 0 =>
    /\ \A m \in Taken : m \in Malformed \cup dropped \/ Answered(m) \/ \E p \in Procs : msg[p] = m
    /\ \A m \in dropped : m \in Taken /\ ~Touched(m) /\ \A p \in Procs : msg[p] # m
\* After the shutdown every worker has returned and every handler has finished.
Quiet ==
  phase = "stopped" => (\A w \in Workers : at[w] = "stopped") /\ (\A h \in Handlers : at[h] = "read")

\* Every offset that was returned was reported or is about to be, by a worker whose swap can only
\* succeed with a higher one.
Reporting ==
  /\ lastOffset <= fetched
  /\ \A w \in Workers : at[w] \in {"commit", "load", "swap"} =>
       Offset(w) \in 1..fetched /\ Topic[Offset(w)] = msg[w]
  /\ \A w \in Workers : at[w] = "swap" => current[w] < Offset(w)
  /\ crashes = 0 =>
       /\ lastOffset \in Returned \cup {0}
       /\ \A w \in Workers : at[w] \in {"load", "swap"} => Offset(w) \in Returned
       /\ \A i \in Returned :
            i <= lastOffset \/ \E w \in Workers : at[w] \in {"load", "swap"} /\ Offset(w) = i
\* A container that is not broken has answered its run, and its logs were all seen.
Kept ==
  \A p \in Procs :
    /\ at[p] \in Before \cup {"read", "stopped", "logs"} => activation[p].logs = "none"
    /\ at[p] = "logs" => broken[p] \/ activation[p].run = "response"
    /\ at[p] \in {"return", "write"} /\ ~broken[p] /\ activation[p].logs # "none" =>
         activation[p].run = "response" /\ activation[p].logs = "complete"

IInv ==
  /\ TypeOK /\ Held /\ Exclusive /\ TakenFirst /\ Once /\ Unanswered /\ LentOut /\ Status /\ Honest
  /\ Recorded /\ Remembered /\ Quiet /\ Reporting /\ Kept

--------------------------------------------------------------------------------
(* Facts about the constants and the types.                                     *)

(* The messages of the topic are messages, at most one per position.            *)
LEMMA TopicMessages ==
  /\ Len(Topic) \in Nat /\ DOMAIN Topic = 1..Len(Topic)
  /\ \A i \in 1..Len(Topic) : Topic[i] \in Messages \ Requests
  /\ \A i, j \in 1..Len(Topic) : Topic[i] = Topic[j] => i = j
<1>1. Len(Topic) \in Nat /\ DOMAIN Topic = 1..Len(Topic)
  BY TopicAssumption
<1> QED
  BY <1>1, InvocationsAssumption DEF Messages

(* What a goroutine with a message has.                                         *)
LEMMA HasMessage ==
  ASSUME IInv, NEW p \in Procs, at[p] \notin {"read", "stopped"}
  PROVE  msg[p] \in Messages /\ msg[p] # NoMsg /\ activation[p] \in Activation
  BY DEF IInv, TypeOK, ProcType, Held

(* The next message of the topic was not taken before by this process.          *)
LEMMA FetchTakes ==
  ASSUME IInv, fetched < Len(Topic), fetched' = fetched + 1, UNCHANGED <<arrived, committed, rewound, crashes>>
  PROVE  /\ Topic[fetched'] \in Messages \ Taken /\ Taken' = Taken \cup {Topic[fetched']}
         /\ committed' <= fetched' /\ Covered' = Covered /\ Repeatable' = Repeatable
<1>1. /\ fetched \in Nat /\ fetched' \in 1..Len(Topic) /\ arrived \subseteq Requests
      /\ committed \in Nat /\ committed <= fetched
  BY TopicMessages DEF IInv, TypeOK, ReaderType, TakenFirst
<1>2. Topic[fetched'] \notin Taken
  BY <1>1, TopicMessages DEF Taken
<1>3. 1..fetched' = (1..fetched) \cup {fetched'}
  BY <1>1
<1> QED
  BY <1>1, <1>2, <1>3, TopicMessages DEF Taken, Covered, Repeatable

(* A request that was not received before was not taken either.                 *)
LEMMA ReceiveTakes ==
  ASSUME IInv, NEW m \in Requests \ arrived, arrived' = arrived \cup {m},
         UNCHANGED <<fetched, committed, rewound, crashes>>
  PROVE  /\ m \in Messages \ Taken /\ Taken' = Taken \cup {m} /\ m \in Covered'
         /\ committed' <= fetched' /\ Covered \subseteq Covered' /\ Repeatable' = Repeatable
<1>1. fetched \in 0..Len(Topic) /\ committed <= fetched
  BY DEF IInv, TypeOK, ReaderType, TakenFirst
<1> QED
  BY <1>1, TopicMessages DEF Taken, Messages, Covered, Repeatable

(* Messages that were taken or are covered are messages; what is covered was    *)
(* taken.                                                                       *)
LEMMA TakenMessages ==
  ASSUME IInv
  PROVE  Taken \subseteq Messages /\ Covered \subseteq Taken /\ Repeatable \subseteq rewound
<1>1. /\ fetched \in 0..Len(Topic) /\ committed \in 0..Len(Topic) /\ committed <= fetched
      /\ arrived \subseteq Requests
  BY DEF IInv, TypeOK, ReaderType, TakenFirst
<1>2. 1..committed \subseteq 1..fetched /\ 1..fetched \subseteq 1..Len(Topic)
  BY <1>1, TopicMessages
<1> QED
  BY <1>1, <1>2, TopicMessages DEF Taken, Covered, Messages, Repeatable

(* Of what this process has not taken, only a rewound message is touched.       *)
LEMMA Untouched ==
  ASSUME IInv, NEW m \in Messages \ Taken, m \notin Repeatable
  PROVE  ~Touched(m)
<1>1. CASE crashes = 0
  BY <1>1 DEF IInv, TakenFirst
<1>2. CASE crashes # 0
  BY <1>2, TakenMessages DEF IInv, TakenFirst, Repeatable
<1> QED
  BY <1>1, <1>2

(* Steps that leave Kafka, the requests and the process alone.                  *)
LEMMA SameSources ==
  ASSUME UNCHANGED <<fetched, committed, rewound, arrived, crashes>>
  PROVE  Taken' = Taken /\ Covered' = Covered /\ Repeatable' = Repeatable
  BY DEF Taken, Covered, Repeatable

--------------------------------------------------------------------------------
(* The ways in which a goroutine goes on.                                       *)

\* Everything but the types, the offsets and the containers.
Sound ==
  /\ Held /\ Exclusive /\ TakenFirst /\ Once /\ Unanswered /\ LentOut /\ Status /\ Honest
  /\ Recorded /\ Remembered /\ Quiet

(* A goroutine that waits takes a message this process has not taken.           *)
LEMMA TakeStep ==
  ASSUME IInv, NEW p \in Procs, NEW m \in Messages \ Taken, NEW l \in {"commit", "parse"},
         at[p] = "read", at' = [at EXCEPT ![p] = l], msg' = [msg EXCEPT ![p] = m],
         Taken' = Taken \cup {m}, committed' <= fetched', Covered \subseteq Covered',
         l = "commit" \/ m \in Covered', Repeatable' = Repeatable, phase # "stopped",
         UNCHANGED <<rewound, dropped, activation, executed, records, acks, lent, crashes, phase>>
  PROVE  Sound'
<1>1. m # NoMsg /\ m \in Messages
  BY TopicAssumption
<1>2. \A q \in Procs : msg[q] # m
  BY <1>1 DEF IInv, TakenFirst
<1>3. m \notin Repeatable => executed[m] = 0 /\ ~Answered(m) /\ records[m] = <<>>
  BY <1>1, Untouched DEF Touched, IInv, TypeOK, HistoryType
<1>4. executed[m] <= crashes /\ \A n \in Messages : Touched(n)' = Touched(n)
  BY DEF IInv, Once, Touched, Answered
<1>5. Held' /\ Exclusive'
  BY <1>1, <1>2 DEF IInv, TypeOK, ProcType, Held, Exclusive
<1>6. TakenFirst'
  BY <1>1, <1>2, <1>4 DEF IInv, TypeOK, ProcType, Held, TakenFirst
<1>7. Once'
  BY <1>1, <1>2, <1>3, <1>4 DEF IInv, TypeOK, ProcType, Held, Once, Before
<1>8. Unanswered' /\ Honest'
  BY <1>1, <1>3 DEF IInv, TypeOK, ProcType, Unanswered, Answered, Honest
<1>9. LentOut' /\ Status'
  BY <1>1, <1>2, <1>3 DEF IInv, TypeOK, ProcType, Held, LentOut, Lending, Status
<1>10. Recorded'
  BY <1>1, <1>3 DEF IInv, TypeOK, ProcType, Recorded, Answered
<1>11. Remembered'
  <2>1. msg'[p] = m /\ \A q \in Procs \ {p} : msg'[q] = msg[q]
    BY DEF IInv, TypeOK, ProcType
  <2>2. \A n \in Taken : n \in Messages
    BY TakenMessages
  <2>3. msg[p] = NoMsg
    BY DEF IInv, Held
  <2> QED
    BY <1>1, <1>4, <2>1, <2>2, <2>3, TopicAssumption DEF IInv, TypeOK, ReaderType, Remembered, Answered
<1>12. Quiet'
  BY DEF Quiet
<1> QED
  BY <1>5, <1>6, <1>7, <1>8, <1>9, <1>10, <1>11, <1>12 DEF Sound

(* A goroutine goes on with its message, without running, recording or          *)
(* answering it.                                                                *)
LEMMA MoveStep ==
  ASSUME IInv, NEW p \in Procs, NEW l,
         at[p] \notin {"read", "stopped", "commit", "ack"}, l \notin {"read", "stopped", "commit"},
         at' = [at EXCEPT ![p] = l], l \in Before => at[p] \in Before,
         lent' \subseteq lent \cup {msg[p]}, msg[p] \in lent' => l \in Lending,
         \A q \in Procs \ {p} : activation'[q] = activation[q],
         msg[p] \notin Repeatable /\ executed[msg[p]] > 0 =>
           /\ activation'[p].status # "systemError" /\ activation'[p].run # "none"
           /\ l # "logs" => activation'[p].logs # "none",
         UNCHANGED <<msg, offsets, arrived, executed, records, acks, crashes, phase>>
  PROVE  Sound'
<1>0. /\ Taken' = Taken /\ Covered' = Covered /\ Repeatable' = Repeatable
      /\ UNCHANGED <<fetched, committed, rewound, dropped>>
  BY SameSources DEF offsets
<1>a. \A n \in Messages : Touched(n)' = Touched(n)
  BY DEF Touched, Answered
<1>1. msg[p] \in Messages /\ msg[p] # NoMsg
  BY HasMessage
<1>2. Held' /\ Exclusive' /\ TakenFirst'
  BY <1>0, <1>a DEF IInv, TypeOK, ProcType, Held, Exclusive, TakenFirst
<1>3. Once'
  BY <1>0 DEF IInv, TypeOK, ProcType, Once
<1>b. Unanswered' /\ Honest'
  BY <1>0 DEF IInv, Unanswered, Answered, Honest
<1>4. LentOut'
  BY <1>1 DEF IInv, TypeOK, ProcType, LentOut, Exclusive
<1>5. Status'
  BY <1>0, <1>1 DEF IInv, TypeOK, ProcType, Status
<1>6. Recorded'
  BY <1>0, <1>1 DEF IInv, TypeOK, ProcType, Recorded, Answered
<1>7. Remembered'
  BY <1>0, <1>a DEF IInv, TypeOK, ReaderType, Remembered, Answered
<1>8. Quiet'
  BY DEF IInv, TypeOK, ProcType, Quiet, Procs
<1> QED
  BY <1>2, <1>3, <1>b, <1>4, <1>5, <1>6, <1>7, <1>8 DEF Sound

(* A goroutine is done with its message, which is malformed or answered with    *)
(* the activation.                                                              *)
LEMMA FinishStep ==
  ASSUME IInv, NEW p \in Procs, at[p] \notin {"read", "stopped", "commit"} \cup Lending,
         Finish(p),
         \/ msg[p] \in Malformed /\ acks' = acks
         \/ \E k \in {"skipped", "lost", "mini", "full"} :
              acks' = [acks EXCEPT ![msg[p]] = [kind |-> k, of |-> activation[p]]],
         UNCHANGED <<offsets, arrived, executed, records, lent, crashes, phase>>
  PROVE  Sound'
<1> DEFINE m == msg[p]
<1>0. /\ Taken' = Taken /\ Covered' = Covered /\ Repeatable' = Repeatable
      /\ UNCHANGED <<fetched, committed, rewound, dropped>>
  BY SameSources DEF offsets
<1>1. m \in Messages /\ m # NoMsg
  BY HasMessage
<1>2. /\ msg' = [msg EXCEPT ![p] = NoMsg] /\ at' = [at EXCEPT ![p] = "read"]
      /\ activation' = [activation EXCEPT ![p] = Fresh]
  BY DEF Finish, Goto
<1>3. /\ \A n \in Messages \ {m} : acks'[n] = acks[n]
      /\ acks'[m] = acks[m] \/ (acks'[m].kind # "none" /\ acks'[m].of = activation[p])
      /\ m \in Malformed \/ acks'[m].kind # "none"
  BY <1>1 DEF IInv, TypeOK, HistoryType
<1> HIDE DEF m
<1>a. /\ \A n \in Messages : Touched(n)' => Touched(n) \/ n = m
      /\ m \in Taken /\ m \in Covered \cup rewound /\ (crashes = 0 => m \notin dropped)
  BY <1>1, <1>3 DEF Touched, Answered, IInv, TakenFirst, Remembered, m
<1>4. Held' /\ Exclusive'
  BY <1>1, <1>2 DEF IInv, TypeOK, ProcType, Held, Exclusive, m
<1>b. TakenFirst'
  BY <1>0, <1>1, <1>2, <1>a DEF IInv, TypeOK, ProcType, TakenFirst, m
<1>5. Once'
  BY <1>0, <1>2 DEF IInv, TypeOK, ProcType, Once, Before
<1>c. Unanswered'
  BY <1>0, <1>1, <1>2, <1>3 DEF IInv, TypeOK, ProcType, Unanswered, Answered, Exclusive, m
<1>6. Honest'
  BY <1>0, <1>1, <1>3 DEF IInv, Honest, Answered, Status, TypeOK, HistoryType, m
<1>7. LentOut' /\ Status'
  BY <1>0, <1>1, <1>2 DEF IInv, TypeOK, ProcType, LentOut, Status, Lending, m
<1>8. Recorded'
  <2> SUFFICES ASSUME NEW n \in Messages \ Repeatable, records[n] # <<>>
               PROVE  /\ n \in Stored \ Blocking
                      /\ Answered(n)' => acks'[n].of = records[n][1]
                      /\ executed[n] = 1 => records[n][1].run # "none" /\ records[n][1].logs # "none"
                      /\ \A q \in Procs : msg'[q] = n => at'[q] = "ack" /\ activation'[q] = records[n][1]
    BY <1>0 DEF Recorded
  <2>1. \A q \in Procs : msg'[q] = n => q # p /\ msg[q] = n /\ at'[q] = at[q] /\ activation'[q] = activation[q]
    BY <1>1, <1>2, TopicAssumption DEF IInv, TypeOK, ProcType
  <2>2. n = m => activation[p] = records[n][1] /\ ~Answered(n)
    BY <1>1 DEF IInv, Recorded, Unanswered, m
  <2>3. Answered(n)' => acks'[n].of = records[n][1]
    BY <1>3, <2>2 DEF IInv, Recorded, Answered
  <2> QED
    BY <2>1, <2>3 DEF IInv, Recorded
<1>9. Remembered'
  <2>1. Taken \subseteq Messages /\ dropped \subseteq Messages
    BY TakenMessages DEF IInv, TypeOK, ReaderType
  <2>2. /\ \A q \in Procs : msg[q] # m => msg'[q] = msg[q]
        /\ \A q \in Procs : msg'[q] = msg[q] \/ msg'[q] = NoMsg
    BY <1>2 DEF IInv, TypeOK, ProcType, m
  <2> SUFFICES ASSUME crashes = 0
               PROVE  /\ \A n \in Taken : n \in Malformed \cup dropped \/ Answered(n)'
                                             \/ \E q \in Procs : msg'[q] = n
                      /\ \A n \in dropped : n \in Taken /\ ~Touched(n)' /\ \A q \in Procs : msg'[q] # n
    BY <1>0 DEF Remembered
  <2>3. \A n \in Taken : n \in Malformed \cup dropped \/ Answered(n)' \/ \E q \in Procs : msg'[q] = n
    BY <1>3, <2>1, <2>2 DEF IInv, Remembered, Answered
  <2>4. \A n \in dropped : n \in Taken /\ ~Touched(n)'
    BY <1>a, <2>1 DEF IInv, Remembered
  <2>5. \A n \in dropped : \A q \in Procs : msg'[q] # n
    BY <2>1, <2>2, TopicAssumption DEF IInv, Remembered
  <2> QED
    BY <2>3, <2>4, <2>5
<1>10. Quiet'
  BY DEF IInv, Quiet, Procs
<1> QED
  BY <1>4, <1>b, <1>5, <1>c, <1>6, <1>7, <1>8, <1>9, <1>10 DEF Sound

(* The function is run: it was not before, or a crash has delivered it again,   *)
(* nothing of it is recorded, and its status is no longer that of a system      *)
(* error.                                                                       *)
LEMMA RunStep ==
  ASSUME IInv, NEW p \in Procs, Run(p)
  PROVE  Sound'
<1> DEFINE m == msg[p]
<1>1. /\ m \in Messages /\ m # NoMsg /\ m \in Taken /\ m \in Covered \cup rewound
      /\ executed[m] <= crashes /\ (crashes = 0 => m \notin dropped)
      /\ m \notin Repeatable => executed[m] = 0 /\ records[m] = <<>> /\ ~Answered(m)
  BY HasMessage DEF IInv, Once, Before, Recorded, Unanswered, TakenFirst, Remembered, Run
<1>2. /\ executed[m] \in Nat /\ executed'[m] = executed[m] + 1
      /\ \A n \in Messages \ {m} : executed'[n] = executed[n]
      /\ at' = [at EXCEPT ![p] = "logs"] /\ msg' = msg
      /\ UNCHANGED <<offsets, arrived, lent, records, acks, phase, crashes>>
  BY <1>1 DEF IInv, TypeOK, HistoryType, Run, Goto, readVars, envVars
<1>0. /\ Taken' = Taken /\ Covered' = Covered /\ Repeatable' = Repeatable
      /\ UNCHANGED <<fetched, committed, rewound, dropped>>
  BY <1>2, SameSources DEF offsets
<1>3. /\ activation'[p].status # "systemError" /\ activation'[p].run # "none"
      /\ \A q \in Procs \ {p} : activation'[q] = activation[q]
  BY DEF IInv, TypeOK, ProcType, Activation, Run, Ran, Invalid, Failed
<1>a. \A n \in Messages \ {m} : Touched(n)' = Touched(n)
  BY <1>2 DEF Touched, Answered
<1> HIDE DEF m
<1>4. Held' /\ Exclusive'
  BY <1>1, <1>2 DEF IInv, TypeOK, ProcType, Held, Exclusive, Run
<1>b. TakenFirst'
  BY <1>0, <1>1, <1>2, <1>a DEF IInv, TypeOK, ProcType, TakenFirst, Run
<1>5. Once'
  <2>1. crashes \in Nat /\ executed \in [Messages -> Nat]
    BY InvocationsAssumption DEF IInv, TypeOK, HistoryType, EnvType
  <2>2. \A q \in Procs : at'[q] \in Before => q # p /\ at[q] \in Before /\ msg[q] # m /\ msg[q] \in Messages
    BY <1>1, <1>2 DEF IInv, TypeOK, ProcType, Held, Exclusive, Before, m
  <2> QED
    BY <1>0, <1>1, <1>2, <2>1, <2>2 DEF IInv, Once
<1>c. Unanswered' /\ Honest'
  BY <1>0, <1>1, <1>2 DEF IInv, Unanswered, Answered, Honest
<1>6. LentOut' /\ Status'
  <2>1. LentOut'
    BY <1>2 DEF IInv, TypeOK, ProcType, LentOut, Lending
  <2>2. \A q \in Procs \ {p} : msg[q] # NoMsg => msg[q] # m /\ msg[q] \in Messages /\ at'[q] = at[q]
    BY <1>1, <1>2 DEF IInv, TypeOK, ProcType, Exclusive, m
  <2>3. at'[p] = "logs"
    BY <1>2 DEF IInv, TypeOK, ProcType
  <2> QED
    BY <1>0, <1>2, <1>3, <2>1, <2>2, <2>3 DEF IInv, Status
<1>7. Recorded'
  BY <1>0, <1>1, <1>2, <1>3 DEF IInv, TypeOK, ProcType, Recorded, Answered, m
<1>8. Remembered'
  BY <1>0, <1>1, <1>2, <1>a DEF IInv, TypeOK, ReaderType, Remembered, Answered
<1>9. Quiet'
  BY <1>2 DEF IInv, TypeOK, ProcType, Quiet, Procs, Run
<1> QED
  BY <1>4, <1>b, <1>5, <1>c, <1>6, <1>7, <1>8, <1>9 DEF Sound

(* The record is written when everything the activation says is settled.        *)
LEMMA WriteStep ==
  ASSUME IInv, NEW p \in Procs, WriteActivation(p)
  PROVE  Sound'
<1> DEFINE m == msg[p]
<1>1. /\ m \in Messages /\ m # NoMsg /\ m \in Taken /\ m \in Covered \cup rewound
      /\ crashes = 0 => m \notin dropped
      /\ m \notin Repeatable => ~Answered(m) /\ records[m] = <<>>
  BY HasMessage DEF IInv, Recorded, Unanswered, TakenFirst, Remembered, WriteActivation
<1>2. /\ \A n \in Messages \ {m} : records'[n] = records[n]
      /\ records'[m] # <<>> /\ m \notin Repeatable =>
           m \in Stored \ Blocking /\ records'[m][1] = activation[p]
      /\ at' = [at EXCEPT ![p] = "ack"]
      /\ UNCHANGED <<offsets, arrived, msg, activation, executed, lent, acks, phase, crashes>>
  BY <1>1 DEF IInv, TypeOK, HistoryType, WriteActivation, WritesRecord, Goto, readVars, envVars
<1>0. /\ Taken' = Taken /\ Covered' = Covered /\ Repeatable' = Repeatable
      /\ UNCHANGED <<fetched, committed, rewound, dropped>>
  BY <1>2, SameSources DEF offsets
<1>3. m \notin Repeatable /\ executed[m] = 1 => activation[p].run # "none" /\ activation[p].logs # "none"
  BY <1>1 DEF IInv, Status, WriteActivation
<1>a. \A n \in Messages \ {m} : Touched(n)' = Touched(n)
  BY <1>2 DEF Touched, Answered
<1> HIDE DEF m
<1>4. Held' /\ Exclusive'
  BY <1>1, <1>2 DEF IInv, TypeOK, ProcType, Held, Exclusive, WriteActivation
<1>b. TakenFirst'
  BY <1>0, <1>1, <1>2, <1>a DEF IInv, TypeOK, ProcType, TakenFirst, WriteActivation
<1>5. Once' /\ Unanswered' /\ Honest'
  BY <1>0, <1>2 DEF IInv, TypeOK, ProcType, Once, Before, Unanswered, Answered, Honest
<1>6. LentOut' /\ Status'
  BY <1>0, <1>2 DEF IInv, TypeOK, ProcType, LentOut, Lending, Status, WriteActivation
<1>7. Recorded'
  <2> SUFFICES ASSUME NEW n \in Messages \ Repeatable, records'[n] # <<>>
               PROVE  /\ n \in Stored \ Blocking
                      /\ Answered(n) => acks[n].of = records'[n][1]
                      /\ executed[n] = 1 => records'[n][1].run # "none" /\ records'[n][1].logs # "none"
                      /\ \A q \in Procs : msg[q] = n => at'[q] = "ack" /\ activation[q] = records'[n][1]
    BY <1>0, <1>2 DEF Recorded, Answered
  <2>1. CASE n = m
    BY <2>1, <1>1, <1>2, <1>3 DEF IInv, TypeOK, ProcType, Exclusive, m
  <2>2. CASE n # m
    BY <2>2, <1>2 DEF IInv, TypeOK, ProcType, Recorded, m
  <2> QED
    BY <2>1, <2>2
<1>8. Remembered'
  BY <1>0, <1>1, <1>2, <1>a DEF IInv, TypeOK, ReaderType, Remembered, Answered
<1>9. Quiet'
  BY <1>2 DEF IInv, TypeOK, ProcType, Quiet, Procs, WriteActivation
<1> QED
  BY <1>4, <1>b, <1>5, <1>6, <1>7, <1>8, <1>9 DEF Sound

--------------------------------------------------------------------------------
(* Commits.                                                                     *)

(* The position of a message on the topic.                                      *)
LEMMA Position ==
  ASSUME NEW i \in 1..Len(Topic)
  PROVE  (CHOOSE j \in DOMAIN Topic : Topic[j] = Topic[i]) = i
<1>1. \E j \in DOMAIN Topic : Topic[j] = Topic[i]
  BY TopicMessages
<1>2. (CHOOSE j \in DOMAIN Topic : Topic[j] = Topic[i]) \in DOMAIN Topic
      /\ Topic[CHOOSE j \in DOMAIN Topic : Topic[j] = Topic[i]] = Topic[i]
  BY <1>1
<1> QED
  BY <1>2, TopicMessages

(* A commit covers its own message, and what it uncovers is rewound.            *)
LEMMA Committing ==
  ASSUME IInv, NEW w \in Workers, at[w] = "commit", SetOffset(w), UNCHANGED <<fetched, arrived, crashes>>
  PROVE  /\ committed' \in 1..fetched /\ rewound \subseteq rewound' /\ rewound' \subseteq Messages
         /\ msg[w] \in Covered' /\ Covered \subseteq Covered' \cup rewound'
         /\ Taken' = Taken /\ Repeatable \subseteq Repeatable' /\ (crashes = 0 => Repeatable' = Repeatable)
<1>1. /\ Offset(w) \in 1..fetched /\ Topic[Offset(w)] = msg[w]
      /\ fetched \in 0..Len(Topic) /\ committed \in 0..Len(Topic)
      /\ rewound \subseteq Messages
  BY DEF IInv, Reporting, TypeOK, ReaderType
<1>2. /\ committed' = Offset(w)
      /\ rewound' = rewound \cup {Topic[i] : i \in Offset(w) + 1..committed}
  BY DEF SetOffset
<1>3. \A i \in 1..committed : i \in 1..Offset(w) \/ i \in Offset(w) + 1..committed
  BY <1>1, TopicMessages
<1>4. Covered \subseteq Covered' \cup rewound'
  BY <1>2, <1>3 DEF Covered
<1>5. msg[w] \in Covered'
  BY <1>1, <1>2, TopicMessages DEF Covered
<1>6. rewound' \subseteq Messages
  BY <1>1, <1>2, TopicMessages
<1> QED
  BY <1>1, <1>2, <1>4, <1>5, <1>6 DEF Taken, Repeatable

(* The commit worked, and the message is returned.                              *)
LEMMA CommitStep ==
  ASSUME IInv, NEW w \in Workers, CommitMessage(w)
  PROVE  Sound'
<1> w \in Procs
  BY DEF Procs
<1>1. /\ at[w] = "commit" /\ SetOffset(w) /\ at' = [at EXCEPT ![w] = "load"]
      /\ UNCHANGED <<fetched, dropped, arrived, msg, activation, executed, records, acks, lent, crashes, phase>>
  BY DEF CommitMessage, Goto, history, envVars
<1>2. /\ committed' \in 1..fetched /\ rewound \subseteq rewound'
      /\ msg[w] \in Covered' /\ Covered \subseteq Covered' \cup rewound'
      /\ Taken' = Taken /\ Repeatable \subseteq Repeatable' /\ (crashes = 0 => Repeatable' = Repeatable)
  BY <1>1, Committing
<1>3. \A n \in Messages : Touched(n)' = Touched(n)
  BY <1>1 DEF Touched, Answered
<1>4. fetched \in Nat /\ msg[w] # NoMsg
  BY <1>1, TopicMessages DEF IInv, TypeOK, ReaderType, Held
<1>5. Held' /\ Exclusive'
  BY <1>1 DEF IInv, TypeOK, ProcType, Held, Exclusive
<1>6. TakenFirst'
  BY <1>1, <1>2, <1>3, <1>4 DEF IInv, TypeOK, ProcType, TakenFirst
<1>7. Once' /\ Unanswered'
  BY <1>1, <1>2 DEF IInv, TypeOK, ProcType, Once, Before, Unanswered, Answered
<1>8. LentOut' /\ Status' /\ Honest'
  BY <1>1, <1>2, <1>4 DEF IInv, TypeOK, ProcType, LentOut, Lending, Status, Once, Before, Honest, Answered
<1>9. Recorded'
  BY <1>1, <1>2 DEF IInv, TypeOK, ProcType, Recorded, Answered
<1>10. Remembered'
  BY <1>1, <1>2, <1>3 DEF IInv, TypeOK, ReaderType, Remembered, Answered
<1>11. Quiet'
  BY <1>1 DEF IInv, Quiet
<1> QED
  BY <1>5, <1>6, <1>7, <1>8, <1>9, <1>10, <1>11 DEF Sound

(* The commit failed, and the message is dropped.                               *)
LEMMA DropStep ==
  ASSUME IInv, NEW w \in Workers, CommitFailed(w)
  PROVE  Sound'
<1> w \in Procs
  BY DEF Procs
<1> DEFINE m == msg[w]
<1>1. /\ at[w] = "commit" /\ \E l \in {"read", "stopped"} : at' = [at EXCEPT ![w] = l]
      /\ msg' = [msg EXCEPT ![w] = NoMsg] /\ dropped' = dropped \cup {m}
      /\ UNCHANGED <<fetched, arrived, activation, executed, records, acks, lent, crashes, phase>>
  BY DEF CommitFailed, Goto, history, envVars
<1>2. /\ committed' <= fetched /\ rewound \subseteq rewound'
      /\ Covered \subseteq Covered' \cup rewound'
      /\ Taken' = Taken /\ Repeatable \subseteq Repeatable' /\ (crashes = 0 => Repeatable' = Repeatable)
  <2>1. CASE SetOffset(w)
    <3>1. committed' \in 1..fetched /\ fetched \in Nat
      BY <1>1, <2>1, Committing, TopicMessages DEF IInv, TypeOK, ReaderType
    <3> QED
      BY <1>1, <2>1, <3>1, Committing
  <2>2. CASE UNCHANGED <<committed, rewound>>
    BY <1>1, <2>2, SameSources DEF IInv, TakenFirst
  <2> QED
    BY <2>1, <2>2 DEF CommitFailed
<1>3. \A n \in Messages : Touched(n)' = Touched(n)
  BY <1>1 DEF Touched, Answered
<1>4. m \in Messages /\ m # NoMsg /\ m \in Taken
  BY <1>1, HasMessage DEF IInv, TakenFirst
<1>5. crashes = 0 => ~Touched(m)
  <2> SUFFICES ASSUME crashes = 0 PROVE ~Touched(m)
    OBVIOUS
  <2>1. Repeatable = {}
    BY DEF Repeatable
  <2> QED
    BY <1>1, <1>4, <2>1 DEF Touched, IInv, TypeOK, HistoryType, Once, Before, Unanswered, Recorded
<1>6. \A q \in Procs \ {w} : msg'[q] = msg[q] /\ at'[q] = at[q] /\ (msg[q] # NoMsg => msg[q] # m)
  BY <1>1, <1>4 DEF IInv, TypeOK, ProcType, Exclusive
<1>7. msg'[w] = NoMsg /\ at'[w] \in {"read", "stopped"}
  BY <1>1 DEF IInv, TypeOK, ProcType
<1> HIDE DEF m
<1>8. Held' /\ Exclusive'
  BY <1>6, <1>7 DEF IInv, Held, Exclusive
<1>9. TakenFirst'
  BY <1>1, <1>2, <1>3, <1>6, <1>7 DEF IInv, TakenFirst
<1>10. Once' /\ Unanswered'
  BY <1>1, <1>2, <1>6, <1>7 DEF IInv, Once, Before, Unanswered, Answered
<1>11. LentOut' /\ Status' /\ Honest'
  <2>1. LentOut'
    BY <1>1, <1>6, <1>7 DEF IInv, LentOut, Lending
  <2> QED
    BY <1>1, <1>2, <1>6, <1>7, <2>1 DEF IInv, Status, Honest, Answered
<1>12. Recorded'
  BY <1>1, <1>2, <1>6, <1>7, TopicAssumption DEF IInv, Recorded, Answered
<1>13. Remembered'
  <2>1. \A n \in Messages : n # m /\ (\E q \in Procs : msg[q] = n) => \E q \in Procs : msg'[q] = n
    BY <1>6 DEF m
  <2>2. Taken \subseteq Messages /\ dropped \subseteq Messages
    BY TakenMessages DEF IInv, TypeOK, ReaderType
  <2>3. \A q \in Procs : msg'[q] # m
    BY <1>4, <1>6, <1>7 DEF m
  <2>4. \A n \in dropped : (\A q \in Procs : msg[q] # n) => \A q \in Procs : msg'[q] # n
    BY <1>6, <1>7, <2>2, TopicAssumption
  <2> QED
    BY <1>1, <1>2, <1>3, <1>4, <1>5, <2>1, <2>2, <2>3, <2>4 DEF IInv, Remembered, Answered
<1>14. Quiet'
  BY <1>1 DEF IInv, Quiet
<1> QED
  BY <1>8, <1>9, <1>10, <1>11, <1>12, <1>13, <1>14 DEF Sound

--------------------------------------------------------------------------------
(* Reading, and the end of a worker.                                            *)
LEMMA SourceStep ==
  ASSUME IInv
  PROVE  /\ \A w \in Workers : FetchMessage(w) \/ StopWorker(w) => Sound'
         /\ \A h \in Handlers : Receive(h) => Sound'
<1>1. ASSUME NEW w \in Workers, FetchMessage(w) PROVE Sound'
  <2>1. /\ Topic[fetched'] \in Messages \ Taken /\ Taken' = Taken \cup {Topic[fetched']}
        /\ committed' <= fetched' /\ Covered' = Covered /\ Repeatable' = Repeatable
    BY <1>1, FetchTakes DEF FetchMessage, envVars
  <2> QED
    BY <1>1, <2>1, TakeStep DEF FetchMessage, Goto, history, envVars, Procs
<1>2. ASSUME NEW w \in Workers, StopWorker(w) PROVE Sound'
  <2>0. /\ Taken' = Taken /\ Covered' = Covered /\ Repeatable' = Repeatable
        /\ UNCHANGED <<fetched, committed, rewound, dropped>>
    BY <1>2, SameSources DEF StopWorker, readVars, offsets, envVars
  <2>a. \A n \in Messages : Touched(n)' = Touched(n)
    BY <1>2 DEF Touched, Answered, StopWorker, history
  <2>1. Held' /\ Exclusive' /\ TakenFirst'
    BY <1>2, <2>0, <2>a DEF IInv, TypeOK, ProcType, Held, Exclusive, TakenFirst, StopWorker, Goto, Procs, envVars
  <2>2. Once' /\ Unanswered' /\ Honest'
    BY <1>2, <2>0 DEF IInv, TypeOK, ProcType, Once, Before, Unanswered, Answered, Honest, StopWorker, Goto,
                      history, envVars
  <2>3. LentOut' /\ Status'
    BY <1>2, <2>0 DEF IInv, TypeOK, ProcType, Held, LentOut, Lending, Status, StopWorker, Goto, history
  <2>4. Recorded' /\ Quiet'
    BY <1>2, <2>0 DEF IInv, TypeOK, ProcType, Recorded, Quiet, Answered, StopWorker, Goto, history, envVars, Procs
  <2>5. Remembered'
    BY <1>2, <2>0, <2>a DEF IInv, TypeOK, ReaderType, Remembered, Answered, StopWorker, history, envVars
  <2> QED
    BY <2>1, <2>2, <2>3, <2>4, <2>5 DEF Sound
<1>3. ASSUME NEW h \in Handlers, Receive(h) PROVE Sound'
  <2>1. PICK m \in Requests \ arrived : arrived' = arrived \cup {m} /\ msg' = [msg EXCEPT ![h] = m]
    BY <1>3 DEF Receive
  <2>2. /\ m \in Messages \ Taken /\ Taken' = Taken \cup {m} /\ m \in Covered'
        /\ committed' <= fetched' /\ Covered \subseteq Covered' /\ Repeatable' = Repeatable
    BY <1>3, <2>1, ReceiveTakes DEF Receive, offsets, envVars
  <2> QED
    BY <1>3, <2>1, <2>2, TakeStep DEF Receive, Goto, history, envVars, offsets, Procs
<1> QED
  BY <1>1, <1>2, <1>3

(* What the database, a shutdown and a crash do.                                *)
LEMMA EnvironmentStep ==
  ASSUME IInv, BlockInDB \/ Refresh \/ Cancel \/ Stopped \/ Crash
  PROVE  Sound'
<1>a. \A n \in Messages : Touched(n)' = Touched(n)
  BY DEF Touched, Answered, BlockInDB, Refresh, Cancel, Stopped, Crash, history
<1>1. CASE BlockInDB \/ Refresh \/ Cancel \/ Stopped
  <2>1. UNCHANGED <<readVars, at, msg, activation, executed, records, acks, lent, crashes>>
    BY <1>1 DEF BlockInDB, Refresh, Cancel, Stopped, history
  <2>0. /\ Taken' = Taken /\ Covered' = Covered /\ Repeatable' = Repeatable
        /\ UNCHANGED <<fetched, committed, rewound, dropped>>
    BY <2>1, SameSources DEF readVars, offsets
  <2>2. Quiet'
    BY <1>1 DEF IInv, Quiet, BlockInDB, Refresh, Cancel, Stopped
  <2>3. Held' /\ Exclusive' /\ TakenFirst' /\ Once'
    BY <1>a, <2>0, <2>1 DEF IInv, Held, Exclusive, TakenFirst, Once
  <2>4. Unanswered' /\ LentOut' /\ Status' /\ Honest' /\ Recorded'
    BY <2>0, <2>1 DEF IInv, Unanswered, Answered, LentOut, Status, Honest, Recorded
  <2>5. Remembered'
    BY <1>a, <2>0, <2>1 DEF IInv, TypeOK, ReaderType, Remembered, Answered
  <2> QED
    BY <2>2, <2>3, <2>4, <2>5 DEF Sound
<1>2. CASE Crash
  <2>1. /\ \A p \in Procs : msg'[p] = NoMsg /\ at'[p] = "read"
        /\ lent' = {} /\ crashes \in Nat /\ crashes' = crashes + 1 /\ phase' # "stopped"
        /\ UNCHANGED <<committed, rewound, arrived, executed, records, acks>>
    BY <1>2, InvocationsAssumption DEF Crash, IInv, TypeOK, EnvType
  <2>2. Covered' = Covered /\ Repeatable' = rewound /\ Repeatable \subseteq Repeatable' /\ committed' <= fetched'
    BY <1>2, <2>1, TopicMessages DEF Crash, Resume, Covered, Repeatable, IInv, TypeOK, ReaderType, TakenFirst
  <2>3. executed \in [Messages -> Nat]
    BY DEF IInv, TypeOK, HistoryType
  <2>4. Held' /\ Exclusive' /\ TakenFirst'
    BY <1>a, <2>1, <2>2 DEF IInv, Held, Exclusive, TakenFirst
  <2>5. Once'
    BY <2>1, <2>2, <2>3 DEF IInv, Once, Before
  <2>6. Unanswered' /\ LentOut' /\ Status' /\ Honest' /\ Remembered' /\ Quiet'
    BY <2>1, <2>2 DEF IInv, Unanswered, Answered, LentOut, Status, Honest, Remembered, Quiet
  <2>7. Recorded'
    BY <2>1, <2>2, TopicAssumption DEF IInv, Recorded, Answered
  <2> QED
    BY <2>4, <2>5, <2>6, <2>7 DEF Sound
<1> QED
  BY <1>1, <1>2

(* The steps of the loop on lastOffset and of the checks of a worker.           *)
LEMMA KafkaStep ==
  ASSUME IInv, NEW w \in Workers, LoadOffset(w) \/ SwapOffset(w) \/ Check(w)
  PROVE  Sound'
<1> w \in Procs
  BY DEF Procs
<1>0. msg[w] \in lent => at[w] \in Lending
  BY HasMessage DEF IInv, LentOut, Exclusive, TypeOK, HistoryType, ProcType, Held, Lending
<1>1. ASSUME NEW l \in Before, at[w] \in {"load", "swap", "check"}, at' = [at EXCEPT ![w] = l],
             l # "commit",
             UNCHANGED <<msg, activation, lent, offsets, arrived, executed, records, acks, crashes, phase>>
      PROVE  Sound'
  <2>1. msg[w] \notin lent' /\ (msg[w] \notin Repeatable => executed[msg[w]] = 0)
    BY <1>0, <1>1 DEF Lending, Before, IInv, Once
  <2>2. \A q \in Procs \ {w} : activation'[q] = activation[q]
    BY <1>1
  <2>3. lent' \subseteq lent \cup {msg[w]} /\ at[w] \in Before
    BY <1>1 DEF Before
  <2>4. at[w] \notin {"read", "stopped", "commit", "ack"} /\ l \notin {"read", "stopped", "commit"}
    BY <1>1 DEF Before
  <2>5. ~(msg[w] \notin Repeatable /\ executed[msg[w]] > 0)
    BY <2>1
  <2> QED
    BY <1>1, <2>1, <2>2, <2>3, <2>4, <2>5, MoveStep, Zenon
<1>2. CASE LoadOffset(w)
  BY <1>1, <1>2 DEF LoadOffset, Goto, history, envVars, Before
<1>3. CASE SwapOffset(w)
  BY <1>1, <1>3 DEF SwapOffset, Goto, history, envVars, Before
<1>4. CASE Check(w) /\ Goto(w, "fetch") /\ UNCHANGED <<msg, activation, broken, acks>>
  BY <1>1, <1>4 DEF Check, Goto, readVars, envVars, Before
<1>5. CASE Check(w) /\ Acked(w, "skipped") /\ Finish(w)
  BY <1>5, FinishStep DEF Check, Acked, Lending, readVars, envVars
<1> QED
  BY <1>2, <1>3, <1>4, <1>5 DEF Check

(* The steps of an invocation.                                                  *)
LEMMA InvokeStep ==
  ASSUME IInv, NEW p \in Procs, Invoke(p)
  PROVE  Sound'
<1>0. msg[p] \in lent => at[p] \in Lending
  BY HasMessage DEF IInv, LentOut, Exclusive, TypeOK, HistoryType, ProcType, Held, Lending
<1>1. CASE Parse(p)
  <2>1. CASE Finish(p) /\ msg[p] \in Malformed
    BY <1>1, <2>1, FinishStep DEF Parse, Lending, readVars, envVars, history
  <2>2. CASE msg[p] \notin Malformed
    BY <1>1, <2>2, <1>0, MoveStep DEF Parse, Goto, Lending, Before, IInv, Once, readVars, envVars, history
  <2> QED
    BY <1>1, <2>1, <2>2 DEF Parse
<1>2. CASE FetchFunction(p)
  <2>1. (msg[p] \notin Repeatable => executed[msg[p]] = 0) /\ msg[p] \notin lent
    BY <1>0, <1>2 DEF FetchFunction, Lending, Before, IInv, Once
  <2>2. \A q \in Procs \ {p} : activation'[q] = activation[q]
    BY <1>2 DEF FetchFunction, Respond, IInv, TypeOK, ProcType
  <2> QED
    BY <1>2, <2>1, <2>2, MoveStep DEF FetchFunction, Goto, Before, readVars, envVars, history
<1>3. CASE GetContainer(p)
  <2>1. (msg[p] \notin Repeatable => executed[msg[p]] = 0) /\ msg[p] \notin lent
    BY <1>0, <1>3 DEF GetContainer, Lending, Before, IInv, Once
  <2>2. \A q \in Procs \ {p} : activation'[q] = activation[q]
    BY <1>3 DEF GetContainer, Respond, IInv, TypeOK, ProcType
  <2> QED
    BY <1>3, <2>1, <2>2, MoveStep DEF GetContainer, Goto, Before, Lending, readVars, envVars
<1>4. CASE Initialize(p)
  <2>1. msg[p] \notin Repeatable => executed[msg[p]] = 0
    BY <1>4 DEF Initialize, Before, IInv, Once
  <2>2. \A q \in Procs \ {p} : activation'[q] = activation[q]
    BY <1>4 DEF Initialize, Respond, IInv, TypeOK, ProcType
  <2> QED
    BY <1>4, <2>1, <2>2, MoveStep DEF Initialize, Goto, Before, Lending, readVars, envVars, history
<1>5. CASE Run(p)
  BY <1>5, RunStep
<1>6. CASE CollectLogs(p)
  <2>1. /\ \A q \in Procs \ {p} : activation'[q] = activation[q]
        /\ activation'[p].status = activation[p].status /\ activation'[p].run = activation[p].run
        /\ activation'[p].logs # "none"
    BY <1>6 DEF CollectLogs, IInv, TypeOK, ProcType, Activation
  <2>2. msg[p] # NoMsg
    BY <1>6, HasMessage DEF CollectLogs
  <2> QED
    BY <1>6, <2>1, <2>2, MoveStep DEF CollectLogs, Goto, Before, Lending, readVars, envVars, history, IInv, Status
<1>7. CASE ReturnContainer(p)
  <2>1. msg[p] # NoMsg
    BY <1>7, HasMessage DEF ReturnContainer
  <2> QED
    BY <1>7, <2>1, MoveStep DEF ReturnContainer, Goto, Before, Lending, readVars, envVars, IInv, Status
<1>8. CASE WriteActivation(p)
  BY <1>8, WriteStep
<1>9. CASE Ack(p)
  <2>1. Completion(p) \subseteq {"full", "mini"}
    BY DEF Completion
  <2> QED
    BY <1>9, <2>1, FinishStep DEF Ack, Acked, Lending, readVars, envVars
<1> QED
  BY <1>1, <1>2, <1>3, <1>4, <1>5, <1>6, <1>7, <1>8, <1>9 DEF Invoke

(* Every step, stuttering included.                                             *)
LEMMA SoundStep == IInv /\ [Next]_vars => Sound'
<1> SUFFICES ASSUME IInv, [Next]_vars PROVE Sound'
  OBVIOUS
<1>1. CASE UNCHANGED vars
  <2>0. /\ Taken' = Taken /\ Covered' = Covered /\ Repeatable' = Repeatable
        /\ \A n \in Messages : Touched(n)' = Touched(n)
    BY <1>1, SameSources DEF vars, Touched, Answered
  <2>1. Held' /\ Exclusive' /\ TakenFirst' /\ Once' /\ Unanswered'
    BY <1>1, <2>0 DEF vars, IInv, Held, Exclusive, TakenFirst, Once, Unanswered, Answered
  <2>2. LentOut' /\ Status' /\ Honest' /\ Recorded' /\ Quiet'
    BY <1>1, <2>0 DEF vars, IInv, LentOut, Status, Honest, Recorded, Answered, Quiet
  <2>3. Remembered'
    BY <1>1, <2>0 DEF vars, IInv, TypeOK, ReaderType, Remembered, Answered
  <2> QED
    BY <2>1, <2>2, <2>3 DEF Sound
<1>2. CASE Next
  BY <1>2, SourceStep, CommitStep, DropStep, KafkaStep, InvokeStep, EnvironmentStep
  DEF Next, ReadMessage, KafkaWorker, Procs
<1> QED
  BY <1>1, <1>2

--------------------------------------------------------------------------------
(* Types.                                                                       *)

(* Every step keeps the types.                                                  *)
LEMMA TypesKept == IInv /\ [Next]_vars => TypeOK'
<1> SUFFICES ASSUME IInv, [Next]_vars PROVE TypeOK'
  OBVIOUS
<1> USE DEF IInv, TypeOK
<1>1. Fresh \in Activation
  BY DEF Fresh, Activation, Statuses
<1>2. ASSUME NEW w \in Workers, ReadMessage(w) \/ StopWorker(w) \/ LoadOffset(w) \/ SwapOffset(w)
      PROVE  TypeOK'
  <2>1. FetchMessage(w) => Topic[fetched + 1] \in Messages
    BY TopicMessages DEF FetchMessage, ReaderType
  <2>2. at[w] \in {"commit", "swap"} => Offset(w) \in 0..Len(Topic) /\ msg[w] \in Messages
    BY TopicMessages DEF ReaderType, ProcType, Procs, Reporting, Held
  <2>3. ReaderType'
    <3>1. SetOffset(w) /\ at[w] = "commit" => committed' \in 0..Len(Topic) /\ rewound' \subseteq Messages
      BY <2>2, TopicMessages DEF SetOffset, ReaderType
    <3>2. CASE CommitMessage(w) \/ CommitFailed(w)
      BY <2>2, <3>1, <3>2 DEF ReaderType, CommitMessage, CommitFailed
    <3>3. CASE ~(CommitMessage(w) \/ CommitFailed(w))
      BY <1>2, <2>2, <3>3, TopicMessages
      DEF ReaderType, ReadMessage, FetchMessage, StopWorker, LoadOffset, SwapOffset, readVars, offsets
    <3> QED
      BY <3>2, <3>3
  <2>4. ProcType'
    BY <1>2, <2>1
    DEF ProcType, ReadMessage, FetchMessage, CommitMessage, CommitFailed, StopWorker, LoadOffset, SwapOffset,
        Goto, Procs
  <2>5. HistoryType' /\ EnvType'
    BY <1>2 DEF HistoryType, EnvType, ReadMessage, FetchMessage, CommitMessage, CommitFailed, StopWorker,
                LoadOffset, SwapOffset, history, envVars
  <2> QED
    BY <2>3, <2>4, <2>5
<1>3. ASSUME NEW h \in Handlers, Receive(h) PROVE TypeOK'
  <2>1. ReaderType' /\ ProcType'
    BY <1>3 DEF ReaderType, ProcType, Receive, Goto, Messages, Procs, offsets
  <2>2. HistoryType' /\ EnvType'
    BY <1>3 DEF HistoryType, EnvType, Receive, history, envVars
  <2> QED
    BY <2>1, <2>2
<1>4. ASSUME NEW p \in Procs, Check(p) \/ Invoke(p) PROVE TypeOK'
  <2>1. ReaderType' /\ EnvType'
    BY <1>4 DEF ReaderType, EnvType, Check, Invoke, Parse, FetchFunction, GetContainer, Initialize, Run,
                CollectLogs, ReturnContainer, WriteActivation, Ack, readVars, offsets, envVars
  <2>2. msg[p] \in Messages
    BY <1>4, HasMessage DEF Check, Invoke, Parse, FetchFunction, GetContainer, Initialize, Run,
                CollectLogs, ReturnContainer, WriteActivation, Ack
  <2>3. ProcType'
    <3>1. activation' \in [Procs -> Activation]
      BY <1>1, <1>4 DEF ProcType, Check, Invoke, Parse, FetchFunction, GetContainer, Initialize, Run,
                CollectLogs, ReturnContainer, WriteActivation, Ack, Finish, Respond, Ran, Invalid,
                Failed, Activation, Statuses
    <3>2. at' \in [Procs -> {"read", "commit", "load", "swap", "parse", "check", "fetch", "get", "init",
                             "run", "logs", "return", "write", "ack", "stopped"}]
      BY <1>4 DEF ProcType, Check, Invoke, Parse, FetchFunction, GetContainer, Initialize, Run,
                CollectLogs, ReturnContainer, WriteActivation, Ack, Finish, Goto
    <3>3. msg' \in [Procs -> Messages \cup {NoMsg}] /\ broken' \in [Procs -> BOOLEAN]
      BY <1>4 DEF ProcType, Check, Invoke, Parse, FetchFunction, GetContainer, Initialize, Run,
                CollectLogs, ReturnContainer, WriteActivation, Ack, Failed, Finish, Breaks
    <3> QED
      BY <3>1, <3>2, <3>3 DEF ProcType
  <2>4. HistoryType'
    <3>1. activation[p] \in Activation
      BY DEF ProcType
    <3>2. CASE Check(p) \/ Ack(p)
      <4>1. \A k \in {"skipped", "lost", "mini", "full"} : [kind |-> k, of |-> activation[p]] \in Answer
        BY <3>1 DEF Answer
      <4>2. \/ acks' = acks
            \/ \E k \in {"skipped", "lost", "mini", "full"} :
                 acks' = [acks EXCEPT ![msg[p]] = [kind |-> k, of |-> activation[p]]]
        BY <3>2 DEF Check, Ack, Completion, Acked
      <4>3. acks' \in [Messages -> Answer]
        BY <2>2, <4>1, <4>2 DEF HistoryType
      <4> QED
        BY <3>2, <4>3 DEF HistoryType, Check, Ack
    <3>3. CASE Run(p)
      BY <3>3, <2>2 DEF HistoryType, Run
    <3>4. CASE WriteActivation(p)
      BY <3>1, <3>4, <2>2 DEF HistoryType, WriteActivation
    <3>5. CASE GetContainer(p) \/ ReturnContainer(p)
      BY <3>5, <2>2 DEF HistoryType, GetContainer, ReturnContainer
    <3>6. CASE Parse(p) \/ FetchFunction(p) \/ Initialize(p) \/ CollectLogs(p)
      BY <3>6 DEF HistoryType, Parse, FetchFunction, Initialize, CollectLogs, history
    <3> QED
      BY <1>4, <3>2, <3>3, <3>4, <3>5, <3>6 DEF Invoke
  <2> QED
    BY <2>1, <2>3, <2>4
<1>5. CASE BlockInDB \/ Refresh \/ Cancel \/ Stopped
  <2>1. ReaderType' /\ ProcType' /\ HistoryType'
    BY <1>5 DEF ReaderType, ProcType, HistoryType, BlockInDB, Refresh, Cancel, Stopped, readVars, offsets, history
  <2>2. EnvType'
    BY <1>5 DEF EnvType, BlockInDB, Refresh, GetBlockedNamespaces, Cancel, Stopped
  <2> QED
    BY <2>1, <2>2
<1>6. CASE Crash
  <2>1. ReaderType' /\ EnvType' /\ HistoryType'
    BY <1>6, TopicMessages, InvocationsAssumption DEF ReaderType, EnvType, HistoryType, Crash, Resume
  <2>2. ProcType'
    BY <1>1, <1>6 DEF ProcType, Crash
  <2> QED
    BY <2>1, <2>2
<1>7. CASE UNCHANGED vars
  BY <1>7 DEF vars, ReaderType, ProcType, HistoryType, EnvType
<1> QED
  BY <1>2, <1>3, <1>4, <1>5, <1>6, <1>7 DEF Next, KafkaWorker, Procs

--------------------------------------------------------------------------------
(* The loop on lastOffset.                                                      *)

(* Steps that neither begin nor end the report of an offset.                    *)
LEMMA ReportFrame ==
  ASSUME IInv, UNCHANGED <<fetched, dropped, lastOffset, current, crashes>>,
         \A w \in Workers : at'[w] = at[w] \/ {at[w], at'[w]} \cap {"commit", "load", "swap"} = {},
         \A w \in Workers : at[w] \in {"commit", "load", "swap"} => msg'[w] = msg[w]
  PROVE  Reporting'
<1>1. \A w \in Workers : at'[w] \in {"commit", "load", "swap"} => at'[w] = at[w] /\ Offset(w)' = Offset(w)
  BY DEF Offset
<1>2. \A w \in Workers : at[w] \in {"commit", "load", "swap"} => at'[w] = at[w] /\ msg'[w] = msg[w]
  OBVIOUS
<1>3. Returned' = Returned
  BY <1>1, <1>2 DEF Returned
<1> QED
  BY <1>1, <1>2, <1>3 DEF IInv, Reporting

(* A worker fetches, and has its commit before it.                              *)
LEMMA FetchReports ==
  ASSUME IInv, NEW w \in Workers, FetchMessage(w)
  PROVE  Reporting'
<1>1. /\ fetched \in Nat /\ fetched' = fetched + 1 /\ fetched' \in 1..Len(Topic)
      /\ UNCHANGED <<dropped, lastOffset, current, crashes>> /\ lastOffset \in Nat
  BY TopicMessages DEF IInv, TypeOK, ReaderType, FetchMessage, envVars
<1>2. at[w] = "read" /\ at'[w] = "commit" /\ msg'[w] = Topic[fetched']
  BY DEF IInv, TypeOK, ProcType, Procs, FetchMessage, Goto
<1>3. Offset(w)' = fetched'
  BY <1>1, <1>2, Position DEF Offset
<1>4. \A v \in Workers \ {w} : at'[v] = at[v] /\ msg'[v] = msg[v] /\ Offset(v)' = Offset(v)
  BY DEF IInv, TypeOK, ProcType, Procs, FetchMessage, Goto, Offset
<1>5. Returned' = Returned
  <2>1. \A i \in 1..fetched : Topic[i] # Topic[fetched']
    BY <1>1, TopicMessages
  <2>2. \A i \in 1..fetched' : i \in 1..fetched \/ i = fetched'
    BY <1>1
  <2>3. 1..fetched \subseteq 1..fetched'
    BY <1>1
  <2> QED
    BY <1>1, <1>2, <1>4, <2>1, <2>2, <2>3 DEF Returned
<1>6. 1..fetched \subseteq 1..fetched' /\ lastOffset <= fetched'
  BY <1>1 DEF IInv, Reporting
<1> QED
  BY <1>1, <1>2, <1>3, <1>4, <1>5, <1>6 DEF IInv, Reporting

(* ReadMessage returns, and the worker has an offset to report.                 *)
LEMMA CommitReports ==
  ASSUME IInv, NEW w \in Workers, CommitMessage(w)
  PROVE  Reporting'
<1>1. /\ at[w] = "commit" /\ at'[w] = "load" /\ msg' = msg
      /\ UNCHANGED <<fetched, dropped, lastOffset, current, crashes>>
      /\ \A v \in Workers \ {w} : at'[v] = at[v]
  BY DEF IInv, TypeOK, ProcType, Procs, CommitMessage, Goto, envVars
<1>2. \A v \in Workers : Offset(v)' = Offset(v)
  BY <1>1 DEF Offset
<1>3. Offset(w) \in 1..fetched /\ Topic[Offset(w)] = msg[w] /\ msg[w] # NoMsg /\ fetched \in 0..Len(Topic)
  BY <1>1 DEF IInv, Reporting, Held, Procs, TypeOK, ReaderType
<1>4. \A v \in Workers \ {w} : msg[v] # msg[w]
  BY <1>3 DEF IInv, Exclusive, Procs
<1>5. crashes = 0 => Returned' = Returned \cup {Offset(w)}
  <2> SUFFICES ASSUME crashes = 0 PROVE Returned' = Returned \cup {Offset(w)}
    OBVIOUS
  <2>1. msg[w] \notin dropped
    BY DEF IInv, Remembered, Procs
  <2>2. \A i \in 1..fetched : Topic[i] = msg[w] => i = Offset(w)
    BY <1>3, TopicMessages
  <2> QED
    BY <1>1, <1>3, <1>4, <2>1, <2>2 DEF Returned
<1> QED
  BY <1>1, <1>2, <1>3, <1>5 DEF IInv, Reporting

(* ReadMessage fails, and the offset is not returned.                           *)
LEMMA DropReports ==
  ASSUME IInv, NEW w \in Workers, CommitFailed(w)
  PROVE  Reporting'
<1>1. /\ at[w] = "commit" /\ at'[w] \in {"read", "stopped"} /\ dropped' = dropped \cup {msg[w]}
      /\ UNCHANGED <<fetched, lastOffset, current, crashes>>
      /\ \A v \in Workers \ {w} : at'[v] = at[v] /\ msg'[v] = msg[v] /\ Offset(v)' = Offset(v)
  BY DEF IInv, TypeOK, ProcType, Procs, CommitFailed, Goto, envVars, Offset
<1>2. Returned' = Returned
  BY <1>1 DEF Returned
<1> QED
  BY <1>1, <1>2 DEF IInv, Reporting

(* Every step keeps what is known of the reported offsets.                      *)
LEMMA ReportingKept == IInv /\ [Next]_vars => Reporting'
<1> SUFFICES ASSUME IInv, [Next]_vars PROVE Reporting'
  OBVIOUS
<1>1. ASSUME NEW w \in Workers, ReadMessage(w) PROVE Reporting'
  BY <1>1, FetchReports, CommitReports, DropReports DEF ReadMessage
<1>2. ASSUME NEW w \in Workers, LoadOffset(w) \/ SwapOffset(w) PROVE Reporting'
  <2>1. /\ fetched' = fetched /\ crashes' = crashes /\ msg' = msg /\ dropped' = dropped
        /\ fetched \in Nat /\ lastOffset \in Nat /\ Offset(w) \in 1..fetched
    BY <1>2, TopicMessages DEF IInv, TypeOK, ReaderType, LoadOffset, SwapOffset, envVars, offsets, Reporting
  <2>2. \A v \in Workers : Offset(v)' = Offset(v)
    BY <2>1 DEF Offset
  <2>3. \A v \in Workers \ {w} : at'[v] = at[v] /\ current'[v] = current[v]
    BY <1>2 DEF IInv, TypeOK, ReaderType, ProcType, Procs, LoadOffset, SwapOffset, Goto
  <2>4. /\ lastOffset' \in Nat /\ lastOffset <= lastOffset' /\ lastOffset' <= fetched
        /\ lastOffset' \in {lastOffset, Offset(w)}
    BY <1>2, <2>1 DEF IInv, Reporting, LoadOffset, SwapOffset
  <2>5. \/ at'[w] = "swap" /\ current'[w] = lastOffset /\ lastOffset < Offset(w)
        \/ at'[w] = "load"
        \/ at'[w] = "parse" /\ Offset(w) <= lastOffset'
    BY <1>2, <2>1 DEF IInv, TypeOK, ReaderType, ProcType, Procs, LoadOffset, SwapOffset, Goto
  <2>6. at[w] \in {"load", "swap"}
    BY <1>2 DEF LoadOffset, SwapOffset
  <2>7. Returned' = Returned /\ \A i \in Returned : i \in Nat
    BY <2>1, <2>3, <2>5, <2>6 DEF Returned
  <2>8. lastOffset' <= fetched' /\ (\A v \in Workers : at'[v] \in {"commit", "load", "swap"} =>
                                      Offset(v)' \in 1..fetched' /\ Topic[Offset(v)'] = msg'[v])
    BY <2>1, <2>2, <2>3, <2>4, <2>6 DEF IInv, Reporting
  <2>9. \A v \in Workers : at'[v] = "swap" => current'[v] < Offset(v)'
    BY <2>1, <2>2, <2>3, <2>5 DEF IInv, Reporting, TypeOK, ReaderType
  <2>10. ASSUME crashes = 0
         PROVE  /\ lastOffset' \in Returned \cup {0}
                /\ \A v \in Workers : at'[v] \in {"load", "swap"} => Offset(v) \in Returned
                /\ \A i \in Returned :
                     i <= lastOffset' \/ \E v \in Workers : at'[v] \in {"load", "swap"} /\ Offset(v) = i
    <3>1. lastOffset' \in Returned \cup {0} /\ \A v \in Workers : at'[v] \in {"load", "swap"} => Offset(v) \in Returned
      BY <2>3, <2>4, <2>6, <2>10 DEF IInv, Reporting
    <3>2. ASSUME NEW i \in Returned
          PROVE  i <= lastOffset' \/ \E v \in Workers : at'[v] \in {"load", "swap"} /\ Offset(v) = i
      <4>1. i <= lastOffset \/ \E v \in Workers : at[v] \in {"load", "swap"} /\ Offset(v) = i
        BY <2>10 DEF IInv, Reporting
      <4>2. CASE i <= lastOffset
        BY <2>1, <2>4, <2>7, <4>2
      <4>3. ASSUME NEW v \in Workers, at[v] \in {"load", "swap"}, Offset(v) = i
            PROVE  i <= lastOffset' \/ \E u \in Workers : at'[u] \in {"load", "swap"} /\ Offset(u) = i
        BY <2>3, <2>5, <4>3
      <4> QED
        BY <4>1, <4>2, <4>3
    <3> QED
      BY <3>1, <3>2
  <2> QED
    BY <2>1, <2>2, <2>7, <2>8, <2>9, <2>10 DEF Reporting
<1>3. ASSUME NEW p \in Procs, StopWorker(p) \/ Receive(p) \/ Check(p) \/ Invoke(p)
      PROVE  Reporting'
  <2>1. /\ UNCHANGED <<fetched, dropped, lastOffset, current, crashes>>
        /\ at[p] \notin {"commit", "load", "swap"}
    BY <1>3 DEF StopWorker, Receive, Check, Invoke, Parse, FetchFunction, GetContainer, Initialize, Run,
                CollectLogs, ReturnContainer, WriteActivation, Ack, readVars, offsets, envVars
  <2>2. /\ at'[p] \notin {"commit", "load", "swap"}
        /\ \A w \in Workers \ {p} : at'[w] = at[w] /\ msg'[w] = msg[w]
    BY <1>3 DEF StopWorker, Receive, Check, Invoke, Parse, FetchFunction, GetContainer, Initialize, Run,
                CollectLogs, ReturnContainer, WriteActivation, Ack, Finish, Goto, Procs,
                IInv, TypeOK, ProcType
  <2> QED
    BY <2>1, <2>2, ReportFrame
<1>4. CASE BlockInDB \/ Refresh \/ Cancel \/ Stopped \/ UNCHANGED vars
  BY <1>4, ReportFrame DEF BlockInDB, Refresh, Cancel, Stopped, vars, readVars, offsets
<1>5. CASE Crash
  BY <1>5, TopicMessages DEF Crash, Resume, IInv, TypeOK, ReaderType, EnvType, Procs, Reporting
<1> QED
  BY <1>1, <1>2, <1>3, <1>4, <1>5 DEF Next, KafkaWorker, Procs

--------------------------------------------------------------------------------
(* Containers that are kept.                                                    *)

(* Steps that leave the activation and the container of a goroutine alone.      *)
LEMMA KeptFrame ==
  ASSUME IInv, NEW p \in Procs, \A q \in Procs \ {p} : at'[q] = at[q],
         \A q \in Procs \ {p} : activation'[q] = activation[q] /\ broken'[q] = broken[q],
         at'[p] \in Before \cup {"read", "stopped", "logs"} => activation'[p].logs = "none",
         at'[p] = "logs" => broken'[p] \/ activation'[p].run = "response",
         at'[p] \in {"return", "write"} /\ ~broken'[p] /\ activation'[p].logs # "none" =>
           activation'[p].run = "response" /\ activation'[p].logs = "complete"
  PROVE  Kept'
  BY DEF IInv, Kept

(* Every step keeps what is known of the containers.                            *)
LEMMA KeptKept == IInv /\ [Next]_vars => Kept'
<1> SUFFICES ASSUME IInv, [Next]_vars PROVE Kept'
  OBVIOUS
<1>1. ASSUME NEW p \in Procs,
             \/ p \in Workers /\ (ReadMessage(p) \/ StopWorker(p) \/ LoadOffset(p) \/ SwapOffset(p))
             \/ Receive(p)
      PROVE  Kept'
  <2>1. /\ at[p] \in {"read", "commit", "load", "swap"} /\ at'[p] \in Before \cup {"read", "stopped"}
        /\ \A q \in Procs \ {p} : at'[q] = at[q]
        /\ UNCHANGED <<activation, broken>>
    BY <1>1 DEF ReadMessage, FetchMessage, CommitMessage, CommitFailed, StopWorker, LoadOffset, SwapOffset, Receive, Goto, Before, IInv, TypeOK, ProcType
  <2> QED
    BY <2>1, KeptFrame DEF IInv, Kept, Before
<1>2. ASSUME NEW p \in Procs, Check(p) \/ Invoke(p) PROVE Kept'
  <2>1. /\ \A q \in Procs \ {p} : at'[q] = at[q]
        /\ \A q \in Procs \ {p} : activation'[q] = activation[q] /\ broken'[q] = broken[q]
    BY <1>2 DEF Check, Invoke, Parse, FetchFunction, GetContainer, Initialize, Run, CollectLogs,
                ReturnContainer, WriteActivation, Ack, Finish, Goto, Respond, Ran, Invalid, Failed, Breaks,
                IInv, TypeOK, ProcType
  <2>2. CASE Finish(p)
    <3>1. at'[p] = "read" /\ activation'[p].logs = "none"
      BY <2>2 DEF Finish, Goto, Fresh, IInv, TypeOK, ProcType
    <3> QED
      BY <2>1, <3>1, KeptFrame
  <2>3. CASE (Check(p) \/ Parse(p)) /\ ~Finish(p)
    <3>1. at'[p] \in Before /\ at[p] \in Before /\ activation' = activation
      BY <2>3 DEF Check, Parse, Goto, Before, IInv, TypeOK, ProcType
    <3> QED
      BY <2>1, <3>1, KeptFrame DEF IInv, Kept, Before
  <2>4. CASE FetchFunction(p) \/ GetContainer(p)
    <3>1. at'[p] \in {"get", "init", "run", "write"} /\ activation'[p].logs = activation[p].logs
          /\ activation[p].logs = "none"
      BY <2>4 DEF FetchFunction, GetContainer, Goto, Respond, Before, IInv, Kept, TypeOK, ProcType, Activation
    <3> QED
      BY <2>1, <3>1, KeptFrame
  <2>5. CASE Initialize(p)
    <3>1. activation'[p].logs = "none" /\ (at'[p] = "run" \/ (at'[p] = "logs" /\ broken'[p]))
      BY <2>5 DEF Initialize, Goto, Respond, Breaks, Before, IInv, Kept, TypeOK, ProcType, Activation
    <3> QED
      BY <2>1, <3>1, KeptFrame
  <2>6. CASE Run(p)
    <3>1. /\ at'[p] = "logs" /\ activation'[p].logs = "none"
          /\ broken'[p] \/ activation'[p].run = "response"
      BY <2>6 DEF Run, Goto, Ran, Invalid, Failed, Breaks, Before, IInv, Kept, TypeOK, ProcType, Activation
    <3> QED
      BY <2>1, <3>1, KeptFrame
  <2>7. CASE CollectLogs(p)
    <3>1. /\ at'[p] = "return" /\ activation'[p].run = activation[p].run
          /\ broken'[p] \/ (broken'[p] = broken[p] /\ activation'[p].logs = "complete")
      BY <2>7 DEF CollectLogs, Goto, Breaks, IInv, TypeOK, ProcType, Activation
    <3>2. broken[p] \/ activation[p].run = "response"
      BY <2>7 DEF CollectLogs, IInv, Kept
    <3> QED
      BY <2>1, <3>1, <3>2, KeptFrame DEF Before
  <2>8. CASE ReturnContainer(p) \/ WriteActivation(p)
    <3>1. at[p] \in {"return", "write"} /\ at'[p] \in {"write", "ack"} /\ UNCHANGED <<activation, broken>>
      BY <2>8 DEF ReturnContainer, WriteActivation, Goto, IInv, TypeOK, ProcType
    <3> QED
      BY <2>1, <3>1, KeptFrame DEF IInv, Kept, Before
  <2> QED
    BY <1>2, <2>2, <2>3, <2>4, <2>5, <2>6, <2>7, <2>8 DEF Invoke, Ack
<1>3. CASE BlockInDB \/ Refresh \/ Cancel \/ Stopped \/ UNCHANGED vars
  BY <1>3 DEF BlockInDB, Refresh, Cancel, Stopped, vars, IInv, Kept
<1>4. CASE Crash
  BY <1>4 DEF Crash, Kept, Fresh
<1> QED
  BY <1>1, <1>2, <1>3, <1>4 DEF Next, KafkaWorker, Procs

--------------------------------------------------------------------------------
(* The theorems.                                                                *)

(* The initial states satisfy the invariant.                                    *)
LEMMA Start == Init => IInv
<1> SUFFICES ASSUME Init PROVE IInv
  OBVIOUS
<1> USE DEF Init
<1>1. Fresh \in Activation /\ NoAnswer \in Answer
  BY DEF Fresh, Activation, Statuses, NoAnswer, Answer
<1>2. TypeOK
  BY <1>1, TopicMessages, InvocationsAssumption DEF TypeOK, ReaderType, ProcType, HistoryType, EnvType
<1>3. \A m \in Messages : ~Answered(m)
  BY DEF Answered, NoAnswer
<1>4. Taken = {} /\ Returned = {} /\ \A m \in Messages : ~Touched(m)
  BY <1>3 DEF Taken, Returned, Touched
<1>5. Held /\ Exclusive /\ TakenFirst /\ Once /\ Unanswered /\ LentOut
  BY <1>3, <1>4 DEF Held, Exclusive, TakenFirst, Once, Before, Unanswered, LentOut
<1>6. Status /\ Honest /\ Recorded /\ Remembered /\ Quiet
  BY <1>3, <1>4 DEF Status, Honest, Recorded, Remembered, Quiet
<1>7. Reporting /\ Kept
  BY <1>4 DEF Reporting, Kept, Fresh, Procs
<1> QED
  BY <1>2, <1>5, <1>6, <1>7 DEF IInv

(* Every step preserves the invariant.                                          *)
LEMMA Inductive == IInv /\ [Next]_vars => IInv'
  BY SoundStep, TypesKept, ReportingKept, KeptKept DEF Sound, IInv

(* TypeOK and the parts above hold in every reachable state.                    *)
LEMMA Invariant == Spec => []IInv
  BY Start, Inductive, PTL DEF Spec

(* However workers and handlers interleave, commits fail and crashes hit, each  *)
(* life of the process runs a message at most once, and what an earlier life    *)
(* has run only if an older commit has put it back behind the offset.  The      *)
(* commit comes before the invocation, so that what was run is covered by the   *)
(* offset or rewound.                                                           *)
THEOREM RerunsAreRewound == Spec => []RerunOnlyIfRewound
<1>1. IInv => RerunOnlyIfRewound
  <2> SUFFICES ASSUME IInv, NEW m \in Messages
               PROVE  executed[m] <= 1 + crashes /\ (executed[m] > 1 => m \in rewound)
    BY DEF RerunOnlyIfRewound
  <2>1. crashes \in Nat /\ executed[m] \in Nat
    BY InvocationsAssumption DEF IInv, TypeOK, HistoryType, EnvType
  <2> QED
    BY <2>1, TakenMessages DEF IInv, Once
<1> QED
  BY <1>1, Invariant, PTL

(* Without a crash every message taken from Kafka or over HTTP is under way or  *)
(* was answered, never both and never neither, unless it was malformed or its   *)
(* commit failed, and then it was not run.                                      *)
THEOREM NoneForgotten == Spec => []NoMessageForgotten
<1>1. IInv => NoMessageForgotten
  <2> SUFFICES ASSUME IInv, crashes = 0, NEW m \in Taken
               PROVE  \/ m \in Malformed \ dropped
                      \/ m \in dropped /\ m \notin InFlight /\ ~Answered(m) /\ executed[m] = 0
                      \/ m \notin dropped /\ (m \in InFlight <=> ~Answered(m))
    BY DEF NoMessageForgotten, IInv
  <2>1. m \in Messages /\ m # NoMsg /\ executed[m] \in Nat /\ Repeatable = {}
    BY TakenMessages, TopicAssumption DEF IInv, TypeOK, HistoryType, Repeatable
  <2>2. CASE m \in dropped
    BY <2>1, <2>2 DEF IInv, Remembered, Touched, InFlight
  <2>3. CASE m \notin dropped
    BY <2>1, <2>3 DEF IInv, Remembered, Unanswered, InFlight
  <2> QED
    BY <2>2, <2>3
<1> QED
  BY <1>1, Invariant, PTL

(* What main relies on after grp.Wait: nothing is in flight, no container lent. *)
THEOREM QuietAfterShutdown == Spec => []NothingInFlight
<1>1. IInv => NothingInFlight
  BY DEF IInv, Quiet, Held, LentOut, Lending, NothingInFlight, InFlight, Procs
<1> QED
  BY <1>1, Invariant, PTL

(* The controller is told of a system error only for a function that was not    *)
(* run, and of a completion only after the container went back.                 *)
THEOREM AnswersHonest == Spec => []AnswerHonest
<1>1. IInv => AnswerHonest
  BY DEF IInv, Honest, LentOut, Unanswered, TypeOK, HistoryType, AnswerHonest, Held, Lending
<1> QED
  BY <1>1, Invariant, PTL

(* The record written by the deferred function is the activation answered, with *)
(* its result and its logs.                                                     *)
THEOREM RecordsFinal == Spec => []RecordFinal
<1>1. IInv => RecordFinal
  BY DEF IInv, Recorded, RecordFinal
<1> QED
  BY <1>1, Invariant, PTL

(* A container is kept only after a run that got a response and whose log       *)
(* sentinels were seen.                                                         *)
THEOREM KeptSound == Spec => []KeptContainersSound
<1>1. IInv => KeptContainersSound
  BY DEF IInv, Kept, KeptContainersSound
<1> QED
  BY <1>1, Invariant, PTL

(* The lock-free maximum of the workers of main: when no worker is in its loop, *)
(* lastOffset is the highest offset that ReadMessage has returned.              *)
THEOREM OffsetsCurrent == Spec => []OffsetCurrent
<1>1. IInv => OffsetCurrent
  BY DEF IInv, Reporting, OffsetCurrent
<1> QED
  BY <1>1, Invariant, PTL
================================================================================
