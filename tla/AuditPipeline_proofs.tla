-------------------------- MODULE AuditPipeline_proofs --------------------------
(***************************************************************************)
(* What the audit pipeline guarantees for any number of transfers, trails, *)
(* consumers and faults: an acknowledged record is kept, a committed one   *)
(* is stored at its position, and the table is an append-only ledger.      *)
(***************************************************************************)
EXTENDS AuditPipeline, TLAPS

-----------------------------------------------------------------------------
(* The inductive invariant                                                 *)

\* A thread has a record to log while it is not done, and knows that the ones it has
\* logged reached the broker.
ThreadInv(t) ==
  /\ caller[t] \in {"idle", "ready", "flushing"} \/ sent[t] # "none"
       => logged[t] < Len(Trails[t])
  /\ caller[t] \in {"idle", "ready"} => sent[t] = "none"
  /\ caller[t] = "flushing" /\ sent[t] = "none" => Current(t) \in landed
  /\ \A k \in 1 .. logged[t] : Record(t, k) \in landed

\* Where the records are that the broker has appended.
LandedInv ==
  /\ landed \subseteq OnTopic \cup StoredRecords \cup lost
  /\ (OnTopic \cap AuditRecords) \cup StoredRecords \cup lost \subseteq landed
  /\ lost \cap (OnTopic \cup StoredRecords) = {}

\* No record is on the topic twice, and the records of its transfer that come before it
\* do so on the topic, or are no longer there.
TopicInv ==
  \A i \in DOMAIN topic : topic[i] \in AuditRecords =>
    /\ \A j \in DOMAIN topic : topic[j] = topic[i] => j = i
    /\ \A other \in Ledger!Earlier(topic[i]) :
         other \in StoredRecords \cup lost \cup {topic[j] : j \in 1 .. i - 1}

\* The table holds the first n messages of the topic.
Holds(n) ==
  /\ n <= Len(topic) /\ n <= Len(rows)
  /\ \A i \in 1 .. n : rows[i].record = topic[i]

\* The positions in the table are consecutive.
TableInv ==
  /\ \A i \in DOMAIN rows : rows[i].offset = i - 1
  /\ Holds(committed)

WorkerInv(c) ==
  /\ worker[c] \in {"polling", "committing"} => Holds(position[c])
  /\ worker[c] = "inserting" =>
       /\ position[c] \in 1 .. Len(topic)
       /\ topic[position[c]] \in AuditRecords
       /\ Holds(position[c] - 1)

\* What the threads and the producer may change,
ProducerInv ==
  /\ caller \in [Transfers -> CallerPcs]
  /\ logged \in [Transfers -> Nat]
  /\ sent \in [Transfers -> SendStates]
  /\ \A t \in Transfers : logged[t] <= Len(Trails[t])
  /\ \A t \in Transfers : ThreadInv(t)

\* ... and the bus, the table and the consumers.
StorageTypes ==
  /\ topic \in Seq(Messages)
  /\ committed \in 0 .. Len(topic)
  /\ landed \subseteq AuditRecords
  /\ lost \subseteq AuditRecords
  /\ rows \in Seq([offset : Nat, record : AuditRecords])
  /\ worker \in [Consumers -> WorkerPcs]
  /\ position \in [Consumers -> Nat]

StorageInv ==
  /\ StorageTypes
  /\ LandedInv
  /\ TopicInv
  /\ TableInv
  /\ \A c \in Consumers : WorkerInv(c)

PipelineInv ==
  /\ ProducerInv
  /\ StorageInv
  /\ faults \in 0 .. MaxFaults

-----------------------------------------------------------------------------
(* The records                                                             *)

LEMMA RecordIsAudited ==
  ASSUME NEW t \in Transfers, NEW k \in 1 .. Len(Trails[t])
  PROVE  Record(t, k) \in AuditRecords
BY PipelineAssumption DEF AuditRecords

\* Every record is some turn of some transfer, from 1 on; so garbage is none.
LEMMA AuditedIsRecord ==
  ASSUME NEW rec \in AuditRecords
  PROVE  /\ \E t \in Transfers : \E k \in 1 .. Len(Trails[t]) : rec = Record(t, k)
         /\ rec # Garbage
<1>1. PICK t \in Transfers : rec \in {Record(t, k) : k \in DOMAIN Trails[t]}
  BY DEF AuditRecords
<1>2. PICK k \in DOMAIN Trails[t] : rec = Record(t, k)
  BY <1>1
<1>3. k \in 1 .. Len(Trails[t])
  BY PipelineAssumption
<1>4. rec # Garbage
  BY <1>2, <1>3 DEF Record, Garbage
<1> QED BY <1>2, <1>3, <1>4

\* Every trail has a record: every state needs one from some actor.
LEMMA TrailsAreNotEmpty ==
  ASSUME NEW t \in Transfers
  PROVE  Len(Trails[t]) \in Nat /\ Len(Trails[t]) > 0
<1>1. Trails[t] \in Seq(ActorNames) /\ Outcomes[t] \in AuditedStates
  BY PipelineAssumption
<1>2. "orchestrator" \in RequiredActors(Outcomes[t])
  BY <1>1 DEF RequiredActors, AuditedStates, ActorNames
<1>3. PICK k \in DOMAIN Trails[t] : Trails[t][k] = "orchestrator"
  BY <1>2, PipelineAssumption
<1> QED BY <1>1, <1>3

\* A row of the table is a message of the topic at its offset.
Row == [offset : Nat, record : AuditRecords]

LEMMA RowsAreTyped ==
  ASSUME StorageTypes
  PROVE  DOMAIN rows = 1 .. Len(rows) /\ \A i \in DOMAIN rows : rows[i] \in Row
<1>1. rows \in Seq(Row)
  BY DEF StorageTypes, Row
<1> QED BY <1>1

LEMMA InvInit == PipelineInit => PipelineInv
<1> SUFFICES ASSUME PipelineInit PROVE PipelineInv
  OBVIOUS
<1> USE DEF PipelineInit
<1>1. topic = <<>> /\ rows = <<>> /\ DOMAIN topic = {} /\ DOMAIN rows = {}
  OBVIOUS
<1>2. StorageTypes
  BY <1>1 DEF StorageTypes, WorkerPcs
<1>3. ProducerInv /\ faults \in 0 .. MaxFaults
  BY TrailsAreNotEmpty, PipelineAssumption DEF ProducerInv, ThreadInv, CallerPcs, SendStates
<1>4. LandedInv /\ TopicInv
  BY <1>1 DEF LandedInv, TopicInv, OnTopic, StoredRecords
<1>5. TableInv /\ \A c \in Consumers : WorkerInv(c)
  BY <1>1 DEF TableInv, WorkerInv, Holds
<1> QED BY <1>2, <1>3, <1>4, <1>5 DEF PipelineInv, StorageInv

-----------------------------------------------------------------------------
(* Steps that leave the bus, the table and the consumers alone              *)

LEMMA StorageUnchanged ==
  ASSUME StorageInv, UNCHANGED <<busVars, rows, consumerVars>>
  PROVE  StorageInv'
<1>1. /\ topic' = topic /\ committed' = committed /\ landed' = landed /\ lost' = lost
      /\ rows' = rows /\ worker' = worker /\ position' = position
  BY DEF busVars, consumerVars
<1>2. StorageTypes' /\ LandedInv' /\ TopicInv'
  BY <1>1 DEF StorageInv, StorageTypes, LandedInv, TopicInv, OnTopic, StoredRecords
<1>3. TableInv' /\ \A c \in Consumers : WorkerInv(c)'
  BY <1>1 DEF StorageInv, TableInv, WorkerInv, Holds
<1> QED BY <1>2, <1>3 DEF StorageInv

\* A fault is counted.
LEMMA FaultIsCounted ==
  ASSUME faults \in 0 .. MaxFaults, Fault
  PROVE  faults' \in 0 .. MaxFaults
BY PipelineAssumption DEF Fault

\* The steps of a thread in its calls.
LEMMA CallStep ==
  ASSUME PipelineInv, NEW t \in Transfers,
         Call(t) \/ ReportsDelivery(t) \/ ReportsError(t)
  PROVE  PipelineInv'
<1>1. /\ ProducerInv /\ StorageInv /\ faults \in 0 .. MaxFaults
      /\ UNCHANGED <<busVars, rows, consumerVars, faults>>
  BY DEF PipelineInv, Call, Produce, ProduceRaises, FlushReturns, FlushReportsError,
         FlushTimesOut, ReportsDelivery, ReportsError
<1>2. StorageInv' /\ (faults \in 0 .. MaxFaults)'
  BY <1>1, StorageUnchanged
<1>3. landed' = landed
  BY <1>1 DEF busVars
<1>4. \A u \in Transfers : Len(Trails[u]) \in Nat
  BY TrailsAreNotEmpty
<1>5. SUFFICES ProducerInv'
  BY <1>2 DEF PipelineInv
<1> USE DEF ProducerInv, ThreadInv, Current, CallerPcs, SendStates
<1>6. CASE Produce(t)
  BY <1>1, <1>3, <1>4, <1>6 DEF Produce
<1>7. CASE ProduceRaises(t)
  BY <1>1, <1>3, <1>4, <1>7 DEF ProduceRaises
<1>8. CASE FlushReturns(t)
  <2>1. sent[t] = "none" /\ Record(t, logged[t] + 1) \in landed
    BY <1>1, <1>8 DEF FlushReturns, NothingQueued
  <2>2. /\ caller' \in [Transfers -> CallerPcs]
        /\ logged' \in [Transfers -> Nat]
        /\ sent' = sent
        /\ \A u \in Transfers : logged'[u] <= Len(Trails[u])
    BY <1>1, <1>4, <1>8 DEF FlushReturns
  <2>3. ASSUME NEW u \in Transfers PROVE ThreadInv(u)'
    <3>1. CASE u # t
      BY <1>1, <1>3, <1>8, <3>1 DEF FlushReturns
    <3>2. CASE u = t
      BY <1>1, <1>3, <1>4, <1>8, <2>1, <3>2 DEF FlushReturns
    <3> QED BY <3>1, <3>2
  <2> QED BY <1>1, <2>2, <2>3
<1>9. CASE FlushReportsError(t)
  BY <1>1, <1>3, <1>4, <1>9 DEF FlushReportsError
<1>10. CASE FlushTimesOut(t)
  BY <1>1, <1>3, <1>4, <1>10 DEF FlushTimesOut
<1>11. CASE ReportsDelivery(t)
  BY <1>1, <1>3, <1>4, <1>11 DEF ReportsDelivery
<1>12. CASE ReportsError(t)
  BY <1>1, <1>3, <1>4, <1>12 DEF ReportsError
<1> QED BY <1>6, <1>7, <1>8, <1>9, <1>10, <1>11, <1>12 DEF Call

LEMMA CrashStep ==
  ASSUME PipelineInv, Crash
  PROVE  PipelineInv'
<1>1. /\ ProducerInv /\ StorageInv /\ faults \in 0 .. MaxFaults
      /\ UNCHANGED <<busVars, rows, consumerVars, logged>> /\ Fault
  BY DEF PipelineInv, Crash
<1>2. StorageInv' /\ (faults \in 0 .. MaxFaults)' /\ landed' = landed
  BY <1>1, StorageUnchanged, FaultIsCounted DEF busVars
<1>3. \A t \in Transfers :
        /\ caller'[t] \in CallerPcs /\ sent'[t] \in SendStates
        /\ caller'[t] = IF caller[t] \in {"ready", "flushing"} THEN "lost" ELSE caller[t]
        /\ sent'[t] = IF sent[t] = "queued" THEN "failed" ELSE sent[t]
  BY <1>1 DEF Crash, ProducerInv, CallerPcs, SendStates
<1>4. caller' \in [Transfers -> CallerPcs] /\ sent' \in [Transfers -> SendStates]
  BY <1>3 DEF Crash
<1>5. ASSUME NEW t \in Transfers PROVE ThreadInv(t)'
  BY <1>1, <1>2, <1>3 DEF ProducerInv, ThreadInv, Current
<1>6. ProducerInv'
  BY <1>1, <1>4, <1>5 DEF ProducerInv
<1> QED BY <1>2, <1>6 DEF PipelineInv

-----------------------------------------------------------------------------
(* Steps that append to the topic                                          *)

\* A message that is no record, or a record the topic never held and that follows the
\* earlier ones of its transfer, may be appended.
LEMMA TopicGrows ==
  ASSUME StorageInv, NEW m \in Messages,
         topic' = Append(topic, m),
         landed' = landed \cup ({m} \cap AuditRecords),
         UNCHANGED <<committed, lost, rows, consumerVars>>,
         m \in AuditRecords => m \notin landed /\ Ledger!Earlier(m) \subseteq landed
  PROVE  StorageInv'
<1>1. /\ StorageTypes /\ LandedInv /\ TopicInv /\ TableInv
      /\ \A c \in Consumers : WorkerInv(c)
      /\ worker' = worker /\ position' = position
  BY DEF StorageInv, consumerVars
<1>2. /\ topic \in Seq(Messages) /\ topic' \in Seq(Messages)
      /\ Len(topic) \in Nat /\ Len(topic') = Len(topic) + 1
      /\ topic'[Len(topic) + 1] = m
      /\ \A i \in 1 .. Len(topic) : topic'[i] = topic[i]
  BY <1>1 DEF StorageTypes
<1>3. StorageTypes'
  BY <1>1, <1>2 DEF StorageTypes
<1>4. OnTopic' = OnTopic \cup {m} /\ StoredRecords' = StoredRecords
  BY <1>2 DEF OnTopic, StoredRecords
<1>5. LandedInv'
  BY <1>1, <1>4 DEF LandedInv, StorageTypes
<1>6. TopicInv'
  <2> SUFFICES ASSUME NEW i \in DOMAIN topic', topic'[i] \in AuditRecords
               PROVE  /\ \A j \in DOMAIN topic' : topic'[j] = topic'[i] => j = i
                      /\ \A other \in Ledger!Earlier(topic'[i]) :
                           other \in StoredRecords \cup lost \cup {topic'[j] : j \in 1 .. i - 1}
    BY <1>4 DEF TopicInv, Ledger!Earlier
  <2>1. CASE i \in DOMAIN topic
    <3>1. topic'[i] = topic[i] /\ topic[i] \in landed
      BY <1>1, <1>2, <2>1 DEF LandedInv, OnTopic
    <3>2. m # topic[i]
      BY <3>1
    <3>3. \A j \in DOMAIN topic' : topic'[j] = topic'[i] => j = i
      BY <1>1, <1>2, <2>1, <3>1, <3>2 DEF TopicInv
    <3>4. {topic'[j] : j \in 1 .. i - 1} = {topic[j] : j \in 1 .. i - 1}
      BY <1>2, <2>1
    <3> QED BY <1>1, <2>1, <3>1, <3>3, <3>4 DEF TopicInv
  <2>2. CASE i = Len(topic) + 1
    <3>1. topic'[i] = m /\ m \notin landed /\ Ledger!Earlier(m) \subseteq landed
      BY <1>2, <2>2
    <3>2. \A j \in DOMAIN topic : topic[j] # m
      BY <1>1, <2>2, <3>1 DEF LandedInv, OnTopic
    <3>3. \A j \in DOMAIN topic' : topic'[j] = topic'[i] => j = i
      BY <1>2, <2>2, <3>1, <3>2
    <3>4. {topic'[j] : j \in 1 .. i - 1} = OnTopic
      BY <1>2, <2>2 DEF OnTopic
    <3> QED BY <1>1, <3>1, <3>3, <3>4 DEF LandedInv
  <2> QED BY <1>2, <2>1, <2>2
<1>7. \A n \in Nat : Holds(n) => Holds(n)'
  BY <1>2 DEF Holds
<1>8. TableInv'
  BY <1>1, <1>2, <1>7 DEF TableInv, StorageTypes
<1>9. ASSUME NEW c \in Consumers PROVE WorkerInv(c)'
  BY <1>1, <1>2, <1>7 DEF WorkerInv, StorageTypes
<1> QED BY <1>3, <1>5, <1>6, <1>8, <1>9 DEF StorageInv

LEMMA BrokerStep ==
  ASSUME PipelineInv, NEW t \in Transfers, BrokerAppends(t)
  PROVE  PipelineInv'
<1>1. /\ ProducerInv /\ StorageInv /\ ThreadInv(t)
      /\ sent[t] # "none" /\ Current(t) \notin landed
      /\ topic' = Append(topic, Current(t)) /\ landed' = landed \cup {Current(t)}
      /\ UNCHANGED <<producerVars, committed, lost, rows, consumerVars, faults>>
  BY DEF PipelineInv, ProducerInv, BrokerAppends
<1>2. logged[t] \in Nat /\ Len(Trails[t]) \in Nat /\ logged[t] + 1 \in 1 .. Len(Trails[t])
  BY <1>1, TrailsAreNotEmpty DEF ProducerInv, ThreadInv
<1>3. Current(t) \in AuditRecords
  BY <1>2, RecordIsAudited DEF Current
<1>4. Ledger!Earlier(Current(t)) \subseteq landed
  <2> SUFFICES ASSUME NEW other \in AuditRecords, other.transfer = Current(t).transfer,
                      other.turn < Current(t).turn
               PROVE  other \in landed
    BY DEF Ledger!Earlier
  <2>1. PICK u \in Transfers : \E k \in 1 .. Len(Trails[u]) : other = Record(u, k)
    BY AuditedIsRecord
  <2>2. PICK k \in 1 .. Len(Trails[u]) : other = Record(u, k)
    BY <2>1
  <2>3. u = t /\ k \in 1 .. logged[t]
    BY <1>2, <2>2 DEF Record, Current
  <2> QED BY <1>1, <2>2, <2>3 DEF ThreadInv
<1>5. StorageInv'
  BY <1>1, <1>3, <1>4, TopicGrows DEF Messages
<1>6. ProducerInv'
  BY <1>1 DEF ProducerInv, ThreadInv, Current, producerVars
<1> QED BY <1>1, <1>5, <1>6 DEF PipelineInv

\* Whatever does not concern the producer, and takes no record away, is all the same to
\* the threads.
LEMMA ProducerUnchanged ==
  ASSUME ProducerInv, UNCHANGED <<producerVars, landed>>
  PROVE  ProducerInv'
BY DEF ProducerInv, ThreadInv, Current, producerVars

LEMMA UnreadableStep ==
  ASSUME PipelineInv, WriteUnreadable
  PROVE  PipelineInv'
<1>1. /\ ProducerInv /\ StorageInv /\ faults \in 0 .. MaxFaults /\ Fault
      /\ topic' = Append(topic, Garbage)
      /\ UNCHANGED <<producerVars, committed, landed, lost, rows, consumerVars>>
  BY DEF PipelineInv, WriteUnreadable
<1>2. Garbage \in Messages /\ Garbage \notin AuditRecords
  BY AuditedIsRecord DEF Messages
<1>3. StorageInv'
  BY <1>1, <1>2, TopicGrows
<1> QED BY <1>1, <1>3, ProducerUnchanged, FaultIsCounted DEF PipelineInv

-----------------------------------------------------------------------------
(* Steps of the consumers                                                  *)

\* A step of a consumer that leaves the bus and the table alone.
LEMMA WorkerStep ==
  ASSUME StorageInv, UNCHANGED <<busVars, rows>>, NEW c \in Consumers,
         NEW pc \in WorkerPcs, NEW n \in Nat,
         worker' = [worker EXCEPT ![c] = pc], position' = [position EXCEPT ![c] = n],
         pc \in {"polling", "committing"} => Holds(n),
         pc = "inserting" =>
           n \in 1 .. Len(topic) /\ topic[n] \in AuditRecords /\ Holds(n - 1)
  PROVE  StorageInv'
<1>1. /\ topic' = topic /\ committed' = committed /\ landed' = landed /\ lost' = lost
      /\ rows' = rows
  BY DEF busVars
<1>2. StorageTypes'
  BY <1>1 DEF StorageInv, StorageTypes
<1>3. LandedInv' /\ TopicInv' /\ TableInv'
  BY <1>1 DEF StorageInv, LandedInv, TopicInv, TableInv, Holds, OnTopic, StoredRecords
<1>4. ASSUME NEW d \in Consumers PROVE WorkerInv(d)'
  BY <1>1 DEF StorageInv, StorageTypes, WorkerInv, Holds
<1> QED BY <1>2, <1>3, <1>4 DEF StorageInv

\* Only the one row that holds the position can make the message a redelivery.
LEMMA RedeliveredHolds ==
  ASSUME StorageInv, NEW c \in Consumers, worker[c] = "inserting", Redelivered(c)
  PROVE  Holds(position[c])
<1>1. /\ position[c] \in 1 .. Len(topic) /\ Holds(position[c] - 1)
      /\ rows \in Seq([offset : Nat, record : AuditRecords])
      /\ position[c] \in Nat /\ Len(topic) \in Nat
  BY DEF StorageInv, WorkerInv, StorageTypes
<1>2. PICK i \in DOMAIN rows : rows[i].offset = position[c] - 1 /\ rows[i].record = topic[position[c]]
  BY DEF Redelivered, RowsAt, OffsetOf, InHand
<1>3. i = position[c]
  BY <1>1, <1>2 DEF StorageInv, TableInv
<1> QED BY <1>1, <1>2, <1>3 DEF Holds

LEMMA ConsumerStep ==
  ASSUME PipelineInv, NEW c \in Consumers,
         \/ Start(c) \/ Poll(c) \/ RecognizeRedelivery(c) \/ FindConflict(c)
         \/ Close(c) \/ Stop(c)
  PROVE  PipelineInv'
<1>1. /\ ProducerInv /\ StorageInv /\ StorageTypes /\ faults \in 0 .. MaxFaults
      /\ TableInv /\ WorkerInv(c)
  BY DEF PipelineInv, StorageInv
<1>2. /\ UNCHANGED <<producerVars, busVars, rows>>
      /\ UNCHANGED faults \/ Fault
  BY DEF Start, Poll, RecognizeRedelivery, FindConflict, Close, Stop
<1>3. SUFFICES StorageInv'
  BY <1>1, <1>2, ProducerUnchanged, FaultIsCounted DEF PipelineInv, busVars
<1>4. CASE GoesDown(c)
  BY <1>1, <1>2, <1>4, WorkerStep DEF GoesDown, WorkerPcs
<1>5. CASE Start(c)
  <2>1. committed \in Nat /\ Holds(committed)
    BY <1>1 DEF StorageTypes, TableInv
  <2> QED BY <1>1, <1>2, <1>5, <2>1, WorkerStep DEF Start, WorkerPcs
<1>6. CASE Poll(c) /\ ~GoesDown(c)
  <2>1. /\ worker[c] = "polling" /\ position[c] \in Nat /\ position[c] < Len(topic)
        /\ topic[position[c] + 1] # Garbage
        /\ position' = [position EXCEPT ![c] = position[c] + 1]
        /\ worker' = [worker EXCEPT ![c] = "inserting"]
    BY <1>1, <1>6 DEF Poll, Unreadable, StorageTypes
  <2>2. position[c] + 1 \in 1 .. Len(topic) /\ topic[position[c] + 1] \in AuditRecords
    BY <1>1, <2>1 DEF StorageTypes, Messages
  <2>3. Holds((position[c] + 1) - 1)
    BY <1>1, <2>1 DEF WorkerInv
  <2>4. position[c] + 1 \in Nat /\ "inserting" \in WorkerPcs
    BY <2>1 DEF WorkerPcs
  <2> QED BY <1>1, <1>2, <2>1, <2>2, <2>3, <2>4, WorkerStep
<1>7. CASE RecognizeRedelivery(c)
  <2>1. /\ Holds(position[c]) /\ position[c] \in Nat
        /\ worker' = [worker EXCEPT ![c] = "committing"]
        /\ position' = [position EXCEPT ![c] = position[c]]
    BY <1>1, <1>7, RedeliveredHolds DEF RecognizeRedelivery, StorageTypes
  <2> QED BY <1>1, <1>2, <2>1, WorkerStep DEF WorkerPcs
<1> QED BY <1>4, <1>5, <1>6, <1>7 DEF FindConflict, Close, Stop

\* The offset committed is the one after the message in hand.
LEMMA CommitStep ==
  ASSUME PipelineInv, NEW c \in Consumers, Commit(c)
  PROVE  PipelineInv'
<1>1. /\ ProducerInv /\ StorageInv /\ StorageTypes /\ faults \in 0 .. MaxFaults
      /\ WorkerInv(c)
  BY DEF PipelineInv, StorageInv
<1>2. /\ worker[c] = "committing" /\ committed' = position[c]
      /\ worker' = [worker EXCEPT ![c] = "polling"]
      /\ UNCHANGED <<producerVars, topic, landed, lost, rows, position, faults>>
  BY DEF Commit
<1>3. Holds(position[c]) /\ position[c] \in Nat
  BY <1>1, <1>2 DEF WorkerInv, StorageTypes
<1>4. StorageTypes'
  BY <1>1, <1>2, <1>3 DEF StorageTypes, WorkerPcs, Holds
<1>5. LandedInv' /\ TopicInv' /\ TableInv'
  BY <1>1, <1>2, <1>3
     DEF StorageInv, LandedInv, TopicInv, TableInv, Holds, OnTopic, StoredRecords
<1>6. ASSUME NEW d \in Consumers PROVE WorkerInv(d)'
  BY <1>1, <1>2, <1>3 DEF StorageInv, StorageTypes, WorkerInv, Holds
<1>7. StorageInv'
  BY <1>4, <1>5, <1>6 DEF StorageInv
<1> QED BY <1>1, <1>2, <1>7, ProducerUnchanged DEF PipelineInv

\* A row is inserted only behind the last one, for a message that was never stored.
LEMMA InsertedIsNext ==
  ASSUME StorageInv, NEW c \in Consumers, Insert(c)
  PROVE  /\ position[c] = Len(rows) + 1 /\ Len(rows) \in Nat
         /\ position[c] \in DOMAIN topic /\ InHand(c) = topic[position[c]]
         /\ InHand(c) \in AuditRecords \ (StoredRecords \cup lost)
         /\ Holds(Len(rows))
         /\ rows' = Append(rows, [offset |-> Len(rows), record |-> InHand(c)])
<1>1. /\ worker[c] = "inserting" /\ RowsAt(position[c] - 1) = {}
      /\ rows' = Append(rows, [offset |-> position[c] - 1, record |-> InHand(c)])
  BY DEF Insert, OffsetOf
<1>2. /\ position[c] \in 1 .. Len(topic) /\ InHand(c) \in AuditRecords
      /\ Holds(position[c] - 1)
      /\ Len(topic) \in Nat /\ Len(rows) \in Nat /\ position[c] \in DOMAIN topic
  BY <1>1 DEF StorageInv, WorkerInv, StorageTypes, InHand
<1>3. position[c] \notin DOMAIN rows
  BY <1>1, <1>2 DEF StorageInv, TableInv, RowsAt
<1>4. position[c] = Len(rows) + 1
  BY <1>2, <1>3 DEF Holds, StorageInv, StorageTypes
<1>5. InHand(c) \notin lost
  BY <1>2 DEF StorageInv, LandedInv, OnTopic, InHand
<1>6. InHand(c) \notin StoredRecords
  <2>1. ASSUME NEW i \in DOMAIN rows PROVE rows[i].record # InHand(c)
    <3>1. i \in 1 .. Len(rows) /\ i \in DOMAIN topic /\ rows[i].record = topic[i]
      BY <1>2, <1>4 DEF Holds, StorageInv, StorageTypes
    <3> QED BY <1>2, <1>4, <3>1 DEF StorageInv, TopicInv, InHand
  <2> QED BY <2>1 DEF StoredRecords
<1> QED BY <1>1, <1>2, <1>4, <1>5, <1>6 DEF InHand

LEMMA InsertStep ==
  ASSUME PipelineInv, NEW c \in Consumers, Insert(c)
  PROVE  PipelineInv'
<1>1. /\ ProducerInv /\ StorageInv /\ StorageTypes /\ faults \in 0 .. MaxFaults
      /\ LandedInv /\ TopicInv /\ TableInv
  BY DEF PipelineInv, StorageInv
<1>2. /\ worker' = [worker EXCEPT ![c] = "committing"]
      /\ UNCHANGED <<producerVars, topic, committed, landed, lost, position, faults>>
  BY DEF Insert, busVars
<1>3. /\ position[c] = Len(rows) + 1 /\ Len(rows) \in Nat
      /\ position[c] \in DOMAIN topic /\ InHand(c) = topic[position[c]]
      /\ InHand(c) \in AuditRecords \ (StoredRecords \cup lost)
      /\ Holds(Len(rows))
      /\ rows' = Append(rows, [offset |-> Len(rows), record |-> InHand(c)])
  BY <1>1, InsertedIsNext
<1>4. /\ rows' \in Seq([offset : Nat, record : AuditRecords])
      /\ Len(rows') = Len(rows) + 1
      /\ \A i \in 1 .. Len(rows) : rows'[i] = rows[i]
      /\ rows'[Len(rows) + 1] = [offset |-> Len(rows), record |-> InHand(c)]
  BY <1>1, <1>3 DEF StorageTypes
<1>5. StorageTypes'
  BY <1>1, <1>2, <1>4 DEF StorageTypes, WorkerPcs
<1>6. StoredRecords' = StoredRecords \cup {InHand(c)}
  <2>1. DOMAIN rows = 1 .. Len(rows) /\ DOMAIN rows' = 1 .. Len(rows) + 1
    BY <1>1, <1>3, <1>4 DEF StorageTypes
  <2> QED BY <1>3, <1>4, <2>1 DEF StoredRecords
<1>7. LandedInv'
  BY <1>1, <1>2, <1>3, <1>6 DEF LandedInv, OnTopic
<1>8. TopicInv'
  BY <1>1, <1>2, <1>6 DEF TopicInv, Ledger!Earlier
<1>9. ASSUME NEW n \in Nat, Holds(n) PROVE Holds(n)'
  BY <1>2, <1>3, <1>4, <1>9 DEF Holds
<1>10. Holds(position[c])'
  <2>1. Len(topic) \in Nat /\ Len(rows) + 1 <= Len(topic)
    BY <1>1, <1>3 DEF StorageTypes
  <2>2. rows'[Len(rows) + 1].record = topic[Len(rows) + 1]
    BY <1>3, <1>4
  <2>3. \A i \in 1 .. Len(rows) : rows'[i].record = topic[i]
    BY <1>3, <1>4 DEF Holds
  <2>4. \A i \in 1 .. Len(rows) + 1 : i \in 1 .. Len(rows) \/ i = Len(rows) + 1
    BY <1>3
  <2>5. position'[c] = Len(rows) + 1
    BY <1>2, <1>3
  <2> QED BY <1>2, <1>4, <2>1, <2>2, <2>3, <2>4, <2>5 DEF Holds
<1>11. TableInv'
  BY <1>1, <1>2, <1>3, <1>4, <1>9 DEF TableInv, StorageTypes
<1>12. ASSUME NEW d \in Consumers PROVE WorkerInv(d)'
  <2>1. CASE d = c
    BY <1>1, <1>2, <1>3, <1>10, <2>1 DEF WorkerInv, StorageTypes
  <2>2. CASE d # c
    BY <1>1, <1>2, <1>9, <2>2 DEF WorkerInv, StorageTypes, StorageInv
  <2> QED BY <2>1, <2>2
<1>13. StorageInv'
  BY <1>5, <1>7, <1>8, <1>11, <1>12 DEF StorageInv
<1> QED BY <1>1, <1>2, <1>13, ProducerUnchanged DEF PipelineInv

-----------------------------------------------------------------------------
(* The rebuild of the topic                                                *)

LEMMA RebuildStep ==
  ASSUME PipelineInv, Rebuild
  PROVE  PipelineInv'
<1>1. /\ ProducerInv /\ StorageInv /\ StorageTypes /\ faults \in 0 .. MaxFaults
      /\ LandedInv /\ TopicInv /\ TableInv
  BY DEF PipelineInv, StorageInv
<1>2. PICK kept \in 0 .. Len(topic) :
        /\ topic' = SubSeq(topic, 1, kept)
        /\ committed' \in 0 .. kept /\ committed' <= committed
        /\ lost' = lost \cup
             (({topic[i] : i \in kept + 1 .. Len(topic)} \cap AuditRecords) \ StoredRecords)
  BY DEF Rebuild
<1>3. /\ Fault /\ \A c \in Consumers : worker[c] = "down"
      /\ UNCHANGED <<producerVars, landed, rows>> /\ worker' = worker /\ position' = position
  BY DEF Rebuild, consumerVars
<1>4. /\ Len(topic) \in Nat /\ kept \in Nat /\ kept <= Len(topic)
      /\ topic' \in Seq(Messages) /\ Len(topic') = kept
      /\ \A i \in 1 .. kept : topic'[i] = topic[i]
      /\ DOMAIN topic = 1 .. Len(topic) /\ DOMAIN topic' = 1 .. kept
  BY <1>1, <1>2 DEF StorageTypes
<1> DEFINE destroyed == {topic[i] : i \in kept + 1 .. Len(topic)}
<1>5. OnTopic = OnTopic' \cup destroyed /\ StoredRecords' = StoredRecords
  BY <1>3, <1>4 DEF OnTopic, StoredRecords
<1>6. destroyed \cap OnTopic' \cap AuditRecords = {}
  <2> SUFFICES ASSUME NEW i \in kept + 1 .. Len(topic), NEW j \in 1 .. kept,
                      topic[i] = topic[j], topic[i] \in AuditRecords
               PROVE  FALSE
    BY <1>4 DEF OnTopic
  <2>1. i \in DOMAIN topic /\ j \in DOMAIN topic /\ i # j
    BY <1>4
  <2> QED BY <1>1, <2>1 DEF TopicInv
<1>7. lost' = lost \cup ((destroyed \cap AuditRecords) \ StoredRecords)
  BY <1>2
<1> HIDE DEF destroyed
<1>8. StorageTypes'
  BY <1>1, <1>2, <1>3, <1>4, <1>7 DEF StorageTypes
<1>9. LandedInv'
  BY <1>1, <1>3, <1>5, <1>6, <1>7 DEF LandedInv, StorageTypes
<1>10. TopicInv'
  <2> SUFFICES ASSUME NEW i \in 1 .. kept, topic[i] \in AuditRecords
               PROVE  /\ \A j \in 1 .. kept : topic[j] = topic[i] => j = i
                      /\ \A other \in Ledger!Earlier(topic[i]) :
                           other \in StoredRecords \cup lost' \cup {topic'[j] : j \in 1 .. i - 1}
    BY <1>4, <1>5 DEF TopicInv, Ledger!Earlier
  <2>1. {topic'[j] : j \in 1 .. i - 1} = {topic[j] : j \in 1 .. i - 1}
    BY <1>4
  <2>2. i \in DOMAIN topic /\ 1 .. kept \subseteq DOMAIN topic
    BY <1>4
  <2> QED BY <1>1, <1>7, <2>1, <2>2 DEF TopicInv
<1>11. TableInv'
  BY <1>1, <1>2, <1>3, <1>4 DEF TableInv, Holds, StorageTypes
<1>12. ASSUME NEW c \in Consumers PROVE WorkerInv(c)'
  BY <1>3 DEF WorkerInv
<1>13. StorageInv'
  BY <1>8, <1>9, <1>10, <1>11, <1>12 DEF StorageInv
<1> QED BY <1>1, <1>3, <1>13, ProducerUnchanged, FaultIsCounted DEF PipelineInv

LEMMA InvStep == PipelineInv /\ [PipelineNext]_pipelineVars => PipelineInv'
<1> SUFFICES ASSUME PipelineInv, [PipelineNext]_pipelineVars PROVE PipelineInv'
  OBVIOUS
<1>1. CASE UNCHANGED pipelineVars
  <2>1. /\ ProducerInv /\ StorageInv /\ faults \in 0 .. MaxFaults
        /\ UNCHANGED <<producerVars, busVars, rows, consumerVars, faults>>
    BY <1>1 DEF PipelineInv, pipelineVars
  <2> QED BY <2>1, ProducerUnchanged, StorageUnchanged DEF PipelineInv, busVars
<1>2. ASSUME NEW t \in Transfers, Call(t) \/ Delivery(t) PROVE PipelineInv'
  BY <1>2, CallStep, BrokerStep DEF Delivery
<1>3. ASSUME NEW c \in Consumers, Start(c) \/ Consume(c) \/ Close(c) \/ Stop(c)
      PROVE  PipelineInv'
  BY <1>3, ConsumerStep, InsertStep, CommitStep DEF Consume
<1> QED BY <1>1, <1>2, <1>3, CrashStep, UnreadableStep, RebuildStep DEF PipelineNext

-----------------------------------------------------------------------------
(* Theorems                                                                *)

\* The invariant of threads, producer, bus, table and consumers holds in every
\* reachable state, whatever the consumers' fairness.
THEOREM PipelineInvAlways == PipelineSpec => []PipelineInv
BY InvInit, InvStep, PTL DEF PipelineSpec

\* Every variable keeps its type; no thread logs more than its trail, and the committed
\* offset stays on the topic.
THEOREM PipelineTypesHold == PipelineSpec => []PipelineTypeInvariant
<1>1. PipelineInv => PipelineTypeInvariant
  BY DEF PipelineInv, ProducerInv, StorageInv, StorageTypes, PipelineTypeInvariant
<1> QED BY <1>1, PipelineInvAlways, PTL

\* The record of every log_record call that returned is on the topic or in the table,
\* or went with the topic's storage before anybody read it.
THEOREM ReturnedAlwaysRecorded == PipelineSpec => []ReturnedIsRecorded
<1>1. PipelineInv => ReturnedIsRecorded
  BY DEF PipelineInv, ProducerInv, ThreadInv, StorageInv, LandedInv, ReturnedIsRecorded
<1> QED BY <1>1, PipelineInvAlways, PTL

\* The table holds exactly the messages below the committed offset, each at its
\* position, with any number of consumers at once.
THEOREM CommittedAlwaysStored == PipelineSpec => []CommittedIsStored
<1>1. PipelineInv => CommittedIsStored
  <2> SUFFICES ASSUME PipelineInv, NEW i \in 1 .. committed
               PROVE  i <= Len(rows) /\ rows[i] = [offset |-> i - 1, record |-> topic[i]]
    BY DEF CommittedIsStored
  <2>1. /\ StorageTypes /\ TableInv
        /\ committed \in Nat /\ Len(rows) \in Nat
    BY DEF PipelineInv, StorageInv, StorageTypes
  <2>2. i \in DOMAIN rows /\ i <= Len(rows)
    BY <2>1 DEF TableInv, Holds, StorageTypes
  <2>3. rows[i].offset = i - 1 /\ rows[i].record = topic[i]
    BY <2>1, <2>2 DEF TableInv, Holds
  <2>4. rows[i] = [offset |-> rows[i].offset, record |-> rows[i].record]
    BY <2>1, <2>2, RowsAreTyped DEF Row
  <2> QED BY <2>2, <2>3, <2>4
<1> QED BY <1>1, PipelineInvAlways, PTL

-----------------------------------------------------------------------------
(* The refinement                                                          *)

\* The table as the ledger sees it.
Table == [i \in 1 .. Len(rows) |-> rows[i].record]

LEMMA TableLists ==
  ASSUME StorageTypes
  PROVE  Ledger!Listed = StoredRecords
<1>1. DOMAIN rows = 1 .. Len(rows)
  BY DEF StorageTypes
<1> QED BY <1>1 DEF Ledger!Listed, StoredRecords

\* An insertion adds to the ledger a record it never had, after the earlier ones of its
\* transfer: they were on the topic before it, hence in the table.
LEMMA InsertionAdds ==
  ASSUME PipelineInv, NEW c \in Consumers, Insert(c)
  PROVE  \E rec \in AuditRecords : Ledger!Add(rec)
<1>1. /\ StorageInv /\ StorageTypes /\ LandedInv /\ TopicInv
  BY DEF PipelineInv, StorageInv
<1>2. PICK rec \in AuditRecords : rec = InHand(c)
  BY <1>1, InsertedIsNext
<1>3. /\ position[c] = Len(rows) + 1 /\ Len(rows) \in Nat
      /\ position[c] \in DOMAIN topic /\ rec = topic[position[c]]
      /\ rec \notin StoredRecords \cup lost
      /\ Holds(Len(rows))
      /\ rows' = Append(rows, [offset |-> Len(rows), record |-> rec])
  BY <1>1, <1>2, InsertedIsNext
<1>4. Ledger!Earlier(rec) \subseteq StoredRecords \cup lost
  <2> SUFFICES ASSUME NEW j \in 1 .. Len(rows) PROVE topic[j] \in StoredRecords
    BY <1>1, <1>3 DEF TopicInv
  <2>1. j \in DOMAIN rows /\ rows[j].record = topic[j]
    BY <1>1, <1>3 DEF Holds, StorageTypes
  <2> QED BY <2>1 DEF StoredRecords
<1>5. Table' = Append(Table, rec)
  <2>1. /\ Len(rows') = Len(rows) + 1
        /\ \A i \in 1 .. Len(rows) : rows'[i] = rows[i]
        /\ rows'[Len(rows) + 1].record = rec
    BY <1>1, <1>3 DEF StorageTypes
  <2>2. Table \in Seq(AuditRecords) /\ Len(Table) = Len(rows)
    <3>1. ASSUME NEW i \in 1 .. Len(rows) PROVE rows[i].record \in AuditRecords
      BY <1>1, <1>3, RowsAreTyped DEF Row
    <3> QED BY <1>3, <3>1 DEF Table
  <2>3. Append(Table, rec) =
          [i \in 1 .. Len(rows) + 1 |-> IF i \in 1 .. Len(rows) THEN Table[i] ELSE rec]
    BY <1>3, <2>2
  <2>4. Table' = [i \in 1 .. Len(rows) + 1 |-> rows'[i].record]
    BY <2>1 DEF Table
  <2>5. ASSUME NEW i \in 1 .. Len(rows) + 1
        PROVE  rows'[i].record = IF i \in 1 .. Len(rows) THEN Table[i] ELSE rec
    BY <1>3, <2>1 DEF Table
  <2> QED BY <2>3, <2>4, <2>5
<1>6. lost' = lost
  BY DEF Insert, busVars
<1>7. Ledger!Add(rec)
  BY <1>1, <1>3, <1>4, <1>5, <1>6, TableLists DEF Ledger!Add, Table
<1> QED BY <1>3, <1>7

LEMMA RebuildLoses ==
  ASSUME PipelineInv, Rebuild
  PROVE  \E recs \in SUBSET AuditRecords : Ledger!Lose(recs)
<1>1. StorageTypes
  BY DEF PipelineInv, StorageInv
<1>2. PICK kept \in 0 .. Len(topic) :
        lost' = lost \cup
          (({topic[i] : i \in kept + 1 .. Len(topic)} \cap AuditRecords) \ StoredRecords)
  BY DEF Rebuild
<1>3. UNCHANGED rows
  BY DEF Rebuild
<1> DEFINE recs == ({topic[i] : i \in kept + 1 .. Len(topic)} \cap AuditRecords) \ StoredRecords
<1>4. recs \in SUBSET AuditRecords /\ recs \cap StoredRecords = {}
  OBVIOUS
<1> HIDE DEF recs
<1>5. lost' = lost \cup recs
  BY <1>2 DEF recs
<1>6. Ledger!Lose(recs)
  BY <1>1, <1>3, <1>4, <1>5, TableLists DEF Ledger!Lose
<1> QED BY <1>4, <1>6

\* Every step adds a record to the ledger, loses some, or leaves it alone.
LEMMA LedgerStep ==
  PipelineInv /\ [PipelineNext]_pipelineVars =>
    Ledger!Next \/ UNCHANGED <<Table, lost>>
<1> SUFFICES ASSUME PipelineInv, [PipelineNext]_pipelineVars
             PROVE  Ledger!Next \/ UNCHANGED <<Table, lost>>
  OBVIOUS
<1>1. ASSUME NEW c \in Consumers, Insert(c) PROVE Ledger!Next
  BY <1>1, InsertionAdds DEF Ledger!Next
<1>2. ASSUME Rebuild PROVE Ledger!Next
  BY <1>2, RebuildLoses DEF Ledger!Next
<1>3. ASSUME UNCHANGED <<rows, lost>> PROVE UNCHANGED <<Table, lost>>
  BY <1>3 DEF Table
<1>4. ASSUME NEW t \in Transfers, Call(t) \/ Delivery(t) PROVE UNCHANGED <<rows, lost>>
  BY <1>4 DEF Call, Produce, ProduceRaises, FlushReturns, FlushReportsError, FlushTimesOut,
              Delivery, BrokerAppends, ReportsDelivery, ReportsError, busVars
<1>5. ASSUME NEW c \in Consumers,
             Start(c) \/ (Consume(c) /\ ~Insert(c)) \/ Close(c) \/ Stop(c)
      PROVE  UNCHANGED <<rows, lost>>
  BY <1>5 DEF Start, Consume, Poll, RecognizeRedelivery, FindConflict, Commit, Close, Stop,
              busVars
<1>6. ASSUME Crash \/ WriteUnreadable \/ UNCHANGED pipelineVars PROVE UNCHANGED <<rows, lost>>
  BY <1>6 DEF Crash, WriteUnreadable, pipelineVars, busVars
<1> QED BY <1>1, <1>2, <1>3, <1>4, <1>5, <1>6 DEF PipelineNext

\* The audit_records table implements the append-only ledger: each record stored at
\* most once, none changed or removed, each after the earlier ones of its transfer.
THEOREM LedgerAlwaysImplemented == PipelineSpec => LedgerImplemented
<1>1. PipelineInit => Ledger!Init
  BY DEF PipelineInit, Ledger!Init
<1>2. PipelineInv /\ [PipelineNext]_pipelineVars =>
        [Ledger!Next]_<<[i \in 1 .. Len(rows) |-> rows[i].record], lost>>
  BY LedgerStep DEF Table
<1> QED BY <1>1, <1>2, PipelineInvAlways, PTL DEF PipelineSpec, LedgerImplemented, Ledger!Spec

-----------------------------------------------------------------------------
(* The contract of log_record                                              *)

\* Where a thread's records are: a record may be in the log before its call returns, but
\* never one the thread has not come to.
HandoverInv(t) ==
  /\ caller[t] # "done" => logged[t] < Len(Trails[t])
  /\ caller[t] \in {"idle", "ready", "done"} => sent[t] = "none"
  /\ caller[t] \in {"idle", "ready"} => Current(t) \notin landed
  /\ caller[t] = "lost" => sent[t] # "queued"
  /\ \A rec \in landed : rec.transfer = t => rec.turn <= logged[t] + 1

SinkInv == PipelineInv /\ \A t \in Transfers : HandoverInv(t)

\* A thread's handover is about its own records only.
LEMMA HandoverFrame ==
  ASSUME NEW t \in Transfers, HandoverInv(t),
         caller'[t] = caller[t], logged'[t] = logged[t], sent'[t] = sent[t],
         {rec \in landed' : rec.transfer = t} = {rec \in landed : rec.transfer = t}
  PROVE  HandoverInv(t)'
<1>1. Current(t)' = Current(t) /\ Current(t).transfer = t
  BY DEF Current, Record
<1>2. \A rec : rec.transfer = t => (rec \in landed' <=> rec \in landed)
  OBVIOUS
<1> QED BY <1>1, <1>2 DEF HandoverInv

LEMMA HandoverInit == PipelineInit => SinkInv
<1> SUFFICES ASSUME PipelineInit, NEW t \in Transfers PROVE HandoverInv(t)
  BY InvInit DEF SinkInv
<1>1. Len(Trails[t]) \in Nat /\ Len(Trails[t]) > 0
  BY TrailsAreNotEmpty
<1> QED BY <1>1 DEF PipelineInit, HandoverInv

LEMMA HandoverStep == SinkInv /\ [PipelineNext]_pipelineVars => SinkInv'
<1> SUFFICES ASSUME SinkInv, [PipelineNext]_pipelineVars, NEW u \in Transfers
             PROVE  HandoverInv(u)'
  BY InvStep DEF SinkInv
<1>1. /\ ProducerInv /\ StorageInv /\ LandedInv /\ HandoverInv(u) /\ ThreadInv(u)
      /\ logged \in [Transfers -> Nat] /\ Len(Trails[u]) \in Nat
      /\ caller \in [Transfers -> CallerPcs] /\ sent \in [Transfers -> SendStates]
  BY TrailsAreNotEmpty DEF SinkInv, PipelineInv, ProducerInv, StorageInv
<1>2. CASE UNCHANGED <<producerVars, landed>>
  BY <1>1, <1>2, HandoverFrame DEF producerVars
<1>3. ASSUME NEW t \in Transfers, t # u, Call(t) \/ Delivery(t)
      PROVE  HandoverInv(u)'
  <2>1. /\ caller'[u] = caller[u] /\ logged'[u] = logged[u] /\ sent'[u] = sent[u]
        /\ landed' = landed \/ landed' = landed \cup {Current(t)}
    BY <1>1, <1>3 DEF Call, Produce, ProduceRaises, FlushReturns, FlushReportsError,
       FlushTimesOut, Delivery, BrokerAppends, ReportsDelivery, ReportsError, producerVars,
       busVars
  <2>2. Current(t).transfer # u
    BY <1>3 DEF Current, Record
  <2> QED BY <1>1, <2>1, <2>2, HandoverFrame
<1>4. ASSUME Call(u) \/ Delivery(u) PROVE HandoverInv(u)'
  <2> USE DEF Current, busVars
  <2>1. CASE Produce(u) \/ ProduceRaises(u)
    BY <1>1, <2>1 DEF Produce, ProduceRaises, HandoverInv
  <2>2. CASE FlushReturns(u)
    <3>1. /\ logged'[u] = logged[u] + 1 /\ landed' = landed /\ sent' = sent
          /\ sent[u] = "none" /\ logged[u] < Len(Trails[u])
          /\ caller'[u] = IF logged[u] + 1 = Len(Trails[u]) THEN "done" ELSE "ready"
      BY <1>1, <2>2 DEF FlushReturns, NothingQueued, ThreadInv, SendStates
    <3>2. \A rec \in landed : rec.transfer = u => rec.turn <= logged[u] + 1
      BY <1>1 DEF HandoverInv
    <3>3. Record(u, logged[u] + 2) \notin landed
      BY <1>1, <3>2 DEF Record
    <3>4. ASSUME NEW rec \in landed, rec.transfer = u PROVE rec.turn <= logged[u] + 2
      <4>1. rec.turn \in Nat
        BY <1>1, AuditedIsRecord DEF StorageInv, StorageTypes, Record
      <4> QED BY <1>1, <3>2, <3>4, <4>1
    <3> QED BY <1>1, <3>1, <3>3, <3>4 DEF HandoverInv
  <2>3. CASE FlushReportsError(u) \/ FlushTimesOut(u)
    BY <1>1, <2>3 DEF FlushReportsError, FlushTimesOut, HandoverInv, ThreadInv
  <2>4. CASE BrokerAppends(u)
    BY <1>1, <2>4 DEF BrokerAppends, HandoverInv, Record, producerVars
  <2>5. CASE ReportsDelivery(u) \/ ReportsError(u)
    BY <1>1, <2>5 DEF ReportsDelivery, ReportsError, HandoverInv, ThreadInv
  <2> QED BY <1>4, <2>1, <2>2, <2>3, <2>4, <2>5 DEF Call, Delivery
<1>5. CASE Crash
  BY <1>1, <1>5 DEF Crash, HandoverInv, Current, busVars, SendStates, CallerPcs
<1>6. ASSUME NEW c \in Consumers, Start(c) \/ Consume(c) \/ Close(c) \/ Stop(c)
      PROVE  UNCHANGED <<producerVars, landed>>
  BY <1>6 DEF Start, Consume, Poll, Insert, RecognizeRedelivery, FindConflict, Commit, Close,
              Stop, busVars
<1>7. WriteUnreadable \/ Rebuild \/ UNCHANGED pipelineVars => UNCHANGED <<producerVars, landed>>
  BY DEF WriteUnreadable, Rebuild, pipelineVars, busVars
<1> QED BY <1>2, <1>3, <1>4, <1>5, <1>6, <1>7 DEF PipelineNext

\* The invariant of the handovers holds of every reachable state.
THEOREM SinkInvAlways == PipelineSpec => []SinkInv
BY HandoverInit, HandoverStep, PTL DEF PipelineSpec

\* What a thread has handed over, and what of it counts as logged.
GivenBy(t) == IF HandedOver(t) THEN Returned(t) \cup {Current(t)} ELSE Returned(t)
HeldOf(t) == IF GaveUp(t) THEN Landed(t) ELSE Landed(t) \ {Current(t)}

\* The records of its returned calls have landed, and at most the current one besides.
LEMMA LandedOfThread ==
  ASSUME SinkInv, NEW t \in Transfers
  PROVE  /\ Returned(t) \subseteq Landed(t)
         /\ Landed(t) \subseteq Returned(t) \cup {Current(t)}
         /\ Current(t) \notin Returned(t)
         /\ Landed(t) \subseteq AuditRecords
         /\ caller[t] # "done" => Current(t) \in AuditRecords
<1>1. /\ HandoverInv(t) /\ ThreadInv(t) /\ logged[t] \in Nat /\ Len(Trails[t]) \in Nat
      /\ landed \subseteq AuditRecords
  BY TrailsAreNotEmpty DEF SinkInv, PipelineInv, ProducerInv, StorageInv, StorageTypes
<1>2. Returned(t) \subseteq Landed(t) /\ Current(t) \notin Returned(t)
  <2>1. \A k \in 1 .. logged[t] :
          /\ Record(t, k) \in landed /\ Record(t, k).transfer = t
          /\ Record(t, k).turn # logged[t] + 1
    BY <1>1 DEF ThreadInv, Record
  <2>2. Current(t).turn = logged[t] + 1
    BY DEF Current, Record
  <2> QED BY <2>1, <2>2 DEF Returned, Landed
<1>3. ASSUME NEW rec \in Landed(t) PROVE rec \in Returned(t) \cup {Current(t)}
  <2>1. rec \in AuditRecords /\ rec.transfer = t /\ rec.turn <= logged[t] + 1
    BY <1>1 DEF Landed, HandoverInv
  <2>2. PICK u \in Transfers : \E k \in 1 .. Len(Trails[u]) : rec = Record(u, k)
    BY <2>1, AuditedIsRecord
  <2>3. PICK k \in 1 .. Len(Trails[u]) : rec = Record(u, k)
    BY <2>2
  <2>4. u = t /\ k \in 1 .. logged[t] \cup {logged[t] + 1}
    BY <1>1, <2>1, <2>3 DEF Record
  <2> QED BY <2>3, <2>4 DEF Returned, Current
<1>4. caller[t] # "done" => Current(t) \in AuditRecords
  BY <1>1, RecordIsAudited DEF HandoverInv, Current
<1> QED BY <1>1, <1>2, <1>3, <1>4 DEF Landed

\* Until a thread gives up, it has handed over what its returned calls logged.
LEMMA HandoverTyped ==
  ASSUME SinkInv, NEW t \in Transfers
  PROVE  /\ GivenBy(t) \in SUBSET AuditRecords /\ HeldOf(t) \in SUBSET AuditRecords
         /\ ~GaveUp(t) => GivenBy(t) = Returned(t) /\ HeldOf(t) = Returned(t)
BY LandedOfThread DEF GivenBy, HeldOf, GaveUp, HandedOver

HandoversTyped ==
  \A t \in Transfers : GivenBy(t) \in SUBSET AuditRecords /\ HeldOf(t) \in SUBSET AuditRecords

LEMMA HandoversAreTyped == SinkInv => HandoversTyped
BY HandoverTyped DEF HandoversTyped

\* The other threads' records stay as they are.
LEMMA HandoverUnchanged ==
  ASSUME NEW u \in Transfers, caller'[u] = caller[u], logged'[u] = logged[u],
         caller[u] = "lost" => sent'[u] = sent[u],
         {rec \in landed' : rec.transfer = u} = {rec \in landed : rec.transfer = u}
  PROVE  /\ GivenBy(u)' = GivenBy(u) /\ HeldOf(u)' = HeldOf(u) /\ GaveUp(u)' = GaveUp(u)
<1>1. Current(u)' = Current(u) /\ Returned(u)' = Returned(u) /\ Landed(u)' = Landed(u)
  BY DEF Current, Returned, Landed
<1>2. Current(u) \in landed' <=> Current(u) \in landed
  <2>1. Current(u).transfer = u
    BY DEF Current, Record
  <2> QED BY <2>1
<1> QED BY <1>1, <1>2 DEF GivenBy, HeldOf, HandedOver, GaveUp

\* A thread that gives up leaves at most its current record behind.
LEMMA GivesUp ==
  ASSUME SinkInv, NEW t \in Transfers, caller[t] \in {"idle", "ready", "flushing"},
         caller'[t] \in {"refused", "lost"}, logged'[t] = logged[t], landed' = landed,
         caller'[t] = "lost" =>
           caller[t] \in {"ready", "flushing"}
             /\ sent'[t] = IF sent[t] = "queued" THEN "failed" ELSE sent[t]
  PROVE  /\ GivenBy(t)' = GivenBy(t) \/ \E rec \in AuditRecords : GivenBy(t)' = GivenBy(t) \cup {rec}
         /\ HeldOf(t)' \in {HeldOf(t), GivenBy(t)'}
<1>1. /\ ~GaveUp(t) /\ GivenBy(t) = Returned(t) /\ HeldOf(t) = Returned(t)
      /\ Current(t) \in AuditRecords
      /\ Landed(t) = Returned(t) \/ Landed(t) = Returned(t) \cup {Current(t)}
  BY HandoverTyped, LandedOfThread DEF GaveUp
<1>2. /\ Current(t)' = Current(t) /\ Returned(t)' = Returned(t) /\ Landed(t)' = Landed(t)
      /\ HeldOf(t)' = Landed(t)
  BY DEF Current, Returned, Landed, HeldOf, GaveUp
<1>3. Current(t) \in landed <=> Current(t) \in Landed(t)
  BY DEF Landed, Current, Record
<1>4. ThreadInv(t) /\ HandoverInv(t)
  BY DEF SinkInv, PipelineInv, ProducerInv
<1>5. CASE HandedOver(t)'
  <2>1. GivenBy(t)' = Returned(t) \cup {Current(t)}
    BY <1>2, <1>5 DEF GivenBy
  <2> QED BY <1>1, <1>2, <2>1
<1>6. CASE ~HandedOver(t)'
  <2>1. GivenBy(t)' = Returned(t)
    BY <1>2, <1>6 DEF GivenBy
  <2>2. Current(t) \notin landed
    BY <1>2, <1>6 DEF HandedOver
  <2> QED BY <1>1, <1>2, <1>3, <2>1, <2>2
<1> QED BY <1>5, <1>6

\* The steps of one thread and of its delivery, as the contract sees them.
LEMMA ThreadStep ==
  ASSUME SinkInv, NEW t \in Transfers, Call(t) \/ Delivery(t)
  PROVE  \/ /\ GivenBy(t)' = GivenBy(t) /\ HeldOf(t)' = HeldOf(t) /\ GaveUp(t)' = GaveUp(t)
         \/ /\ ~GaveUp(t) /\ ~GaveUp(t)'
            /\ \E rec \in AuditRecords :
                 GivenBy(t)' = GivenBy(t) \cup {rec} /\ HeldOf(t)' = HeldOf(t) \cup {rec}
         \/ /\ ~GaveUp(t) /\ GaveUp(t)'
            /\ \/ GivenBy(t)' = GivenBy(t)
               \/ \E rec \in AuditRecords : GivenBy(t)' = GivenBy(t) \cup {rec}
            /\ HeldOf(t)' \in {HeldOf(t), GivenBy(t)'}
         \/ /\ GaveUp(t) /\ GaveUp(t)'
            /\ GivenBy(t)' = GivenBy(t) /\ HeldOf(t)' = GivenBy(t)
<1>1. /\ ThreadInv(t) /\ HandoverInv(t) /\ logged \in [Transfers -> Nat]
      /\ caller \in [Transfers -> CallerPcs] /\ sent \in [Transfers -> SendStates]
  BY DEF SinkInv, PipelineInv, ProducerInv
<1> USE DEF busVars
<1>2. CASE Produce(t)
  <2>1. /\ caller[t] \in {"idle", "ready"} /\ caller'[t] = "flushing"
        /\ logged' = logged /\ landed' = landed
    BY <1>1, <1>2 DEF Produce
  <2> QED
    BY <2>1 DEF GivenBy, HeldOf, GaveUp, HandedOver, Returned, Landed, Current
<1>3. CASE ProduceRaises(t) \/ FlushReportsError(t) \/ FlushTimesOut(t)
  <2>1. /\ caller[t] \in {"idle", "ready", "flushing"} /\ caller'[t] = "refused"
        /\ logged' = logged /\ landed' = landed
    BY <1>1, <1>3 DEF ProduceRaises, FlushReportsError, FlushTimesOut
  <2>2. ~GaveUp(t) /\ GaveUp(t)'
    BY <2>1 DEF GaveUp
  <2> QED BY <2>1, <2>2, GivesUp
<1>4. CASE FlushReturns(t)
  <2>1. /\ caller[t] = "flushing" /\ caller'[t] \in {"ready", "done"} /\ sent[t] = "none"
        /\ logged'[t] = logged[t] + 1 /\ landed' = landed /\ logged[t] \in Nat
    BY <1>1, <1>4 DEF FlushReturns, NothingQueued, SendStates
  <2>2. ~GaveUp(t) /\ ~GaveUp(t)' /\ Current(t) \in AuditRecords
    BY <2>1, LandedOfThread DEF GaveUp
  <2>3. /\ Returned(t)' = Returned(t) \cup {Current(t)} /\ Landed(t)' = Landed(t)
        /\ Current(t)' = Record(t, logged[t] + 2)
    BY <2>1 DEF Returned, Landed, Current
  <2>4. Landed(t) = Returned(t) \cup {Current(t)}
    <3>1. Current(t) \in Landed(t)
      BY <1>1, <2>1 DEF ThreadInv, Landed, Current, Record
    <3> QED BY <3>1, LandedOfThread
  <2>5. Current(t)' \notin Landed(t)
    <3>1. \A rec \in Landed(t) : rec.turn <= logged[t] + 1
      BY <1>1 DEF HandoverInv, Landed
    <3>2. Record(t, logged[t] + 2).turn = logged[t] + 2
      BY DEF Record
    <3> QED BY <2>1, <2>3, <3>1, <3>2
  <2>6. GivenBy(t)' = Returned(t)' /\ HeldOf(t)' = Landed(t)'
    BY <2>2, <2>3, <2>5 DEF GivenBy, HeldOf, HandedOver, GaveUp
  <2> QED BY <2>2, <2>3, <2>4, <2>6, HandoverTyped
<1>5. CASE BrokerAppends(t)
  <2>1. /\ caller[t] \in {"flushing", "refused", "lost"} /\ sent[t] # "none"
        /\ caller' = caller /\ logged' = logged /\ sent' = sent
        /\ landed' = landed \cup {Current(t)}
    BY <1>1, <1>5 DEF BrokerAppends, HandoverInv, CallerPcs, producerVars
  <2>2. /\ Returned(t)' = Returned(t) /\ Current(t)' = Current(t)
        /\ Landed(t)' = Landed(t) \cup {Current(t)}
    <3>1. Current(t).transfer = t
      BY DEF Current, Record
    <3> QED BY <2>1, <3>1 DEF Returned, Current, Landed
  <2>5. /\ GaveUp(t)' <=> GaveUp(t)
        /\ HandedOver(t)' <=> HandedOver(t)
        /\ HandedOver(t) <=> GaveUp(t)
    BY <2>1, <2>2 DEF GaveUp, HandedOver
  <2>3. GivenBy(t)' = GivenBy(t)
    BY <2>2, <2>5 DEF GivenBy
  <2>4. Landed(t)' = Returned(t) \cup {Current(t)}
    BY <2>2, LandedOfThread
  <2>6. CASE GaveUp(t)
    <3>1. HeldOf(t)' = GivenBy(t)
      BY <2>4, <2>5, <2>6 DEF GivenBy, HeldOf
    <3> QED BY <2>3, <2>5, <2>6, <3>1
  <2>7. CASE ~GaveUp(t)
    <3>1. HeldOf(t)' = HeldOf(t)
      BY <2>2, <2>5, <2>7 DEF HeldOf
    <3>2. GaveUp(t)' = GaveUp(t)
      BY <2>1 DEF GaveUp
    <3> QED BY <2>3, <3>1, <3>2
  <2> QED BY <2>6, <2>7
<1>6. CASE ReportsDelivery(t) \/ ReportsError(t)
  BY <1>1, <1>6 DEF ReportsDelivery, ReportsError, HandoverInv, GivenBy, HeldOf, GaveUp,
                    HandedOver, Returned, Landed, Current
<1> QED BY <1>2, <1>3, <1>4, <1>5, <1>6 DEF Call, Delivery

\* A crash stops the threads that are in the middle of their trail.
LEMMA CrashStops ==
  ASSUME SinkInv, Crash
  PROVE  \E ws \in SUBSET {t \in Transfers : ~GaveUp(t)} :
           /\ \A t \in Transfers : GaveUp(t)' <=> GaveUp(t) \/ t \in ws
           /\ \A t \in ws :
                /\ \/ GivenBy(t)' = GivenBy(t)
                   \/ \E rec \in AuditRecords : GivenBy(t)' = GivenBy(t) \cup {rec}
                /\ HeldOf(t)' \in {HeldOf(t), GivenBy(t)'}
           /\ \A t \in Transfers \ ws : GivenBy(t)' = GivenBy(t) /\ HeldOf(t)' = HeldOf(t)
<1>1. PICK ws \in SUBSET Transfers : ws = {t \in Transfers : caller[t] \in {"ready", "flushing"}}
  OBVIOUS
<1>2. /\ logged' = logged /\ landed' = landed
      /\ \A t \in Transfers :
           /\ caller'[t] = IF t \in ws THEN "lost" ELSE caller[t]
           /\ sent'[t] = IF sent[t] = "queued" THEN "failed" ELSE sent[t]
  BY <1>1 DEF Crash, busVars
<1>3. \A t \in ws : ~GaveUp(t)
  BY <1>1 DEF GaveUp
<1>4. \A t \in Transfers : GaveUp(t)' <=> GaveUp(t) \/ t \in ws
  BY <1>2 DEF GaveUp
<1>5. ASSUME NEW t \in ws
      PROVE  /\ \/ GivenBy(t)' = GivenBy(t)
                \/ \E rec \in AuditRecords : GivenBy(t)' = GivenBy(t) \cup {rec}
             /\ HeldOf(t)' \in {HeldOf(t), GivenBy(t)'}
  <2>1. /\ caller[t] \in {"ready", "flushing"} /\ caller'[t] = "lost"
        /\ sent'[t] = IF sent[t] = "queued" THEN "failed" ELSE sent[t]
    BY <1>1, <1>2
  <2> QED BY <1>2, <2>1, GivesUp
<1>6. ASSUME NEW t \in Transfers \ ws
      PROVE  GivenBy(t)' = GivenBy(t) /\ HeldOf(t)' = HeldOf(t)
  <2>1. caller'[t] = caller[t] /\ (caller[t] = "lost" => sent'[t] = sent[t])
    BY <1>2 DEF SinkInv, HandoverInv
  <2> QED BY <1>2, <2>1, HandoverUnchanged
<1> QED BY <1>3, <1>4, <1>5, <1>6

LEMMA SinkStep ==
  SinkInv /\ [PipelineNext]_pipelineVars => [Sink!Next]_(Sink!sinkVars)
<1> SUFFICES ASSUME SinkInv, [PipelineNext]_pipelineVars
             PROVE  [Sink!Next]_(Sink!sinkVars)
  OBVIOUS
<1> DEFINE over == {t \in Transfers : GaveUp(t)}
<1>1. /\ Given = [t \in Transfers |-> GivenBy(t)] /\ Given' = [t \in Transfers |-> GivenBy(t)']
      /\ Held = [t \in Transfers |-> HeldOf(t)] /\ Held' = [t \in Transfers |-> HeldOf(t)']
  BY DEF Given, Held, GivenBy, HeldOf
<1>2. /\ Given' \in [Transfers -> SUBSET AuditRecords]
      /\ Held' \in [Transfers -> SUBSET AuditRecords]
  <2>1. HandoversTyped'
    BY HandoverStep, HandoversAreTyped, PTL
  <2> QED BY <1>1, <2>1 DEF HandoversTyped
<1>3. CASE UNCHANGED <<producerVars, landed>>
  <2>1. \A t \in Transfers :
          /\ GivenBy(t)' = GivenBy(t) /\ HeldOf(t)' = HeldOf(t) /\ GaveUp(t)' = GaveUp(t)
    BY <1>3, HandoverUnchanged DEF producerVars
  <2> QED BY <1>1, <2>1 DEF Sink!sinkVars
<1>4. ASSUME NEW t \in Transfers, Call(t) \/ Delivery(t)
      PROVE  [Sink!Next]_(Sink!sinkVars)
  <2>1. ASSUME NEW u \in Transfers, u # t
        PROVE  GivenBy(u)' = GivenBy(u) /\ HeldOf(u)' = HeldOf(u) /\ GaveUp(u)' = GaveUp(u)
    <3>1. /\ caller \in [Transfers -> CallerPcs] /\ logged \in [Transfers -> Nat]
          /\ sent \in [Transfers -> SendStates]
      BY DEF SinkInv, PipelineInv, ProducerInv
    <3>2. /\ caller'[u] = caller[u] /\ logged'[u] = logged[u] /\ sent'[u] = sent[u]
          /\ landed' = landed \/ landed' = landed \cup {Current(t)}
      BY <1>4, <2>1, <3>1 DEF Call, Produce, ProduceRaises, FlushReturns, FlushReportsError,
         FlushTimesOut, Delivery, BrokerAppends, ReportsDelivery, ReportsError, producerVars,
         busVars
    <3>3. Current(t).transfer # u
      BY <2>1 DEF Current, Record
    <3> QED BY <3>2, <3>3, HandoverUnchanged
  <2>2. CASE GivenBy(t)' = GivenBy(t) /\ HeldOf(t)' = HeldOf(t) /\ GaveUp(t)' = GaveUp(t)
    BY <1>1, <2>1, <2>2 DEF Sink!sinkVars
  <2>3. ASSUME ~GaveUp(t), ~GaveUp(t)', NEW rec \in AuditRecords,
               GivenBy(t)' = GivenBy(t) \cup {rec}, HeldOf(t)' = HeldOf(t) \cup {rec}
        PROVE  Sink!Next
    <3>1. /\ Given' = [Given EXCEPT ![t] = @ \cup {rec}]
          /\ Held' = [Held EXCEPT ![t] = @ \cup {rec}]
      BY <1>1, <2>1, <2>3
    <3>2. over' = over /\ t \notin over
      BY <2>1, <2>3
    <3>3. Sink!Record(t, rec)
      BY <3>1, <3>2 DEF Sink!Record
    <3> QED BY <3>3 DEF Sink!Next
  <2>4. ASSUME ~GaveUp(t), GaveUp(t)',
               \/ GivenBy(t)' = GivenBy(t)
               \/ \E rec \in AuditRecords : GivenBy(t)' = GivenBy(t) \cup {rec},
               HeldOf(t)' \in {HeldOf(t), GivenBy(t)'}
        PROVE  Sink!Next
    <3>1. over' = over \cup {t} /\ {t} \cap over = {}
      BY <2>1, <2>4
    <3>2. Sink!HandsOverItsLast(t)
      BY <1>1, <2>4 DEF Sink!HandsOverItsLast
    <3>3. \A u \in Transfers \ {t} : Given'[u] = Given[u] /\ Held'[u] = Held[u]
      BY <1>1, <2>1
    <3>4. Sink!Stop({t})
      BY <1>2, <3>1, <3>2, <3>3 DEF Sink!Stop
    <3> QED BY <3>4 DEF Sink!Next
  <2>5. CASE GaveUp(t) /\ GaveUp(t)' /\ GivenBy(t)' = GivenBy(t) /\ HeldOf(t)' = GivenBy(t)
    <3>1. Given' = Given /\ Held' = [Held EXCEPT ![t] = Given[t]]
      BY <1>1, <2>1, <2>5
    <3>2. over' = over /\ t \in over
      BY <2>1, <2>5
    <3>3. Sink!Arrive(t)
      BY <3>1, <3>2 DEF Sink!Arrive
    <3> QED BY <3>3 DEF Sink!Next
  <2> QED BY <1>4, <2>2, <2>3, <2>4, <2>5, ThreadStep
<1>5. CASE Crash
  <2>1. PICK ws \in SUBSET {t \in Transfers : ~GaveUp(t)} :
          /\ \A t \in Transfers : GaveUp(t)' <=> GaveUp(t) \/ t \in ws
          /\ \A t \in ws :
               /\ \/ GivenBy(t)' = GivenBy(t)
                  \/ \E rec \in AuditRecords : GivenBy(t)' = GivenBy(t) \cup {rec}
               /\ HeldOf(t)' \in {HeldOf(t), GivenBy(t)'}
          /\ \A t \in Transfers \ ws : GivenBy(t)' = GivenBy(t) /\ HeldOf(t)' = HeldOf(t)
    BY <1>5, CrashStops
  <2>2. over' = over \cup ws /\ ws \cap over = {} /\ ws \in SUBSET Transfers
    BY <2>1
  <2>3. \A t \in ws : Sink!HandsOverItsLast(t)
    BY <1>1, <2>1, <2>2 DEF Sink!HandsOverItsLast
  <2>4. \A t \in Transfers \ ws : Given'[t] = Given[t] /\ Held'[t] = Held[t]
    BY <1>1, <2>1
  <2>5. Sink!Stop(ws)
    BY <1>2, <2>2, <2>3, <2>4 DEF Sink!Stop
  <2> QED BY <2>2, <2>5 DEF Sink!Next
<1>6. ASSUME NEW c \in Consumers, Start(c) \/ Consume(c) \/ Close(c) \/ Stop(c)
      PROVE  UNCHANGED <<producerVars, landed>>
  BY <1>6 DEF Start, Consume, Poll, Insert, RecognizeRedelivery, FindConflict, Commit, Close,
              Stop, busVars
<1>7. WriteUnreadable \/ Rebuild \/ UNCHANGED pipelineVars => UNCHANGED <<producerVars, landed>>
  BY DEF WriteUnreadable, Rebuild, pipelineVars, busVars
<1> QED BY <1>3, <1>4, <1>5, <1>6, <1>7 DEF PipelineNext

\* The pipeline provides the contract the negotiations rely on, for any trails, threads
\* and faults: a call returns only when its record is in the log, also when another
\* thread's flush fails, and a thread that gave up leaves at most one record behind,
\* which may land later.
THEOREM PipelineProvidesSink == PipelineSpec => SinkProvided
<1>1. PipelineInit => Sink!Init
  BY DEF PipelineInit, Sink!Init, Given, Held, HandedOver, GaveUp, Returned, Landed
<1> QED BY <1>1, SinkInvAlways, SinkStep, PTL DEF PipelineSpec, SinkProvided, Sink!Spec
=============================================================================
