----------------------------- MODULE AuditPipeline -----------------------------
(***************************************************************************)
(* The audit pipeline (services/audit): request threads write through one  *)
(* KafkaAuditLogger, the records cross the topic asco.audit, and consumers *)
(* of one group move them into the Postgres table.                         *)
(*                                                                         *)
(* The broker and the producer's own queue are external.  The topic has    *)
(* one partition: records are keyed by transfer, so a partition is the     *)
(* whole story of its transfers.  A consumer that raises is down until it  *)
(* is started again: run() lets every exception out.  Two consumers may be *)
(* up at once, as in a rebalance whose loser has not noticed yet.          *)
(***************************************************************************)
EXTENDS Integers, Sequences, FiniteSets

CONSTANTS
  Transfers,      \* the negotiations that write audit records, one thread each
  Trails,         \* [Transfers -> Seq(ActorNames)]: the records of each, in order
  Outcomes,       \* [Transfers -> AuditedStates]: the state the negotiation ends in
  Consumers,      \* the consumer processes of the group
  MaxFaults       \* bound on crashes of the gateway, deaths of consumers, unreadable
                  \* messages and rebuilds of the topic, together

ActorNames == {"compliance_sentinel", "liquidity_strategist", "exit_validator", "orchestrator"}
AuditedStates == {"SETTLING", "PENDING_REVIEW", "REJECTED"}

\* verify_audit_completeness: the actors a transfer in that state needs records from.
RequiredActors(outcome) ==
  CASE outcome = "SETTLING" -> ActorNames
    [] outcome = "PENDING_REVIEW" -> {"compliance_sentinel", "orchestrator"}
    [] outcome = "REJECTED" -> {"orchestrator"}

\* The trails are the ones a negotiation writes: complete for the state it ends in.
ASSUME PipelineAssumption ==
  /\ Trails \in [Transfers -> Seq(ActorNames)]
  /\ Outcomes \in [Transfers -> AuditedStates]
  /\ \A t \in Transfers :
       RequiredActors(Outcomes[t]) \subseteq {Trails[t][k] : k \in DOMAIN Trails[t]}
  /\ MaxFaults \in Nat

VARIABLES
  caller,      \* [Transfers -> CallerPcs]: where the thread that logs is
  logged,      \* [Transfers -> Nat]: how many of its log_record calls have returned
  sent,        \* [Transfers -> SendStates]: its current record, in the producer
  topic,       \* Seq(Messages): the log of the topic
  committed,   \* Nat: the offset the group has committed
  landed,      \* SUBSET AuditRecords: the records the broker has ever appended
  lost,        \* SUBSET AuditRecords: destroyed by a rebuild before they were stored
  rows,        \* Seq([offset : Nat, record : AuditRecords]): audit_records, by id
  worker,      \* [Consumers -> WorkerPcs]: where poll_once is
  position,    \* [Consumers -> Nat]: the offset the consumer fetches next, 0 when down
  faults       \* Nat: how many faults there have been

producerVars == <<caller, logged, sent>>
busVars == <<topic, committed, landed, lost>>
consumerVars == <<worker, position>>
pipelineVars == <<producerVars, busVars, rows, consumerVars, faults>>

CallerPcs == {"idle", "ready", "flushing", "done", "refused", "lost"}
SendStates == {"none", "queued", "failed"}
WorkerPcs == {"down", "polling", "inserting", "committing"}

Record(t, k) == [transfer |-> t, turn |-> k]
AuditRecords == UNION {{Record(t, k) : k \in DOMAIN Trails[t]} : t \in Transfers}

\* A message parse_audit_record raises on; no record has turn 0.
Garbage == [transfer |-> "none", turn |-> 0]
Unreadable(m) == m = Garbage
Messages == AuditRecords \cup {Garbage}

\* The record the thread is logging, or failed to log last.
Current(t) == Record(t, logged[t] + 1)

StoredRecords == {rows[i].record : i \in DOMAIN rows}

\* One more of the faults below, which are bounded together.
Fault ==
  /\ faults < MaxFaults
  /\ faults' = faults + 1

-----------------------------------------------------------------------------
(* KafkaAuditLogger.log_record: produce, then flush the shared producer.   *)

\* The record is queued; the first one begins the negotiation's trail.
Produce(t) ==
  /\ caller[t] \in {"idle", "ready"}
  /\ caller' = [caller EXCEPT ![t] = "flushing"]
  /\ sent' = [sent EXCEPT ![t] = "queued"]
  /\ UNCHANGED <<logged, busVars, rows, consumerVars, faults>>

\* KafkaException or BufferError (the producer's queue is full).
ProduceRaises(t) ==
  /\ caller[t] \in {"idle", "ready"}
  /\ caller' = [caller EXCEPT ![t] = "refused"]
  /\ UNCHANGED <<logged, sent, busVars, rows, consumerVars, faults>>

\* The broker appends a record it was sent, once: the producer is idempotent.  A
\* request on its way may still arrive after the producer has given it up.
BrokerAppends(t) ==
  /\ sent[t] \in {"queued", "failed"}
  /\ Current(t) \notin landed
  /\ topic' = Append(topic, Current(t))
  /\ landed' = landed \cup {Current(t)}
  /\ UNCHANGED <<producerVars, committed, lost, rows, consumerVars, faults>>

\* acks=all: a record is reported delivered only when every replica has it.
ReportsDelivery(t) ==
  /\ sent[t] = "queued"
  /\ Current(t) \in landed
  /\ sent' = [sent EXCEPT ![t] = "none"]
  /\ UNCHANGED <<caller, logged, busVars, rows, consumerVars, faults>>

\* message.timeout.ms passes, or the broker rejects the record: on_delivery is given
\* an error -- also for a record that landed and whose acknowledgement was lost.
ReportsError(t) ==
  /\ sent[t] = "queued"
  /\ sent' = [sent EXCEPT ![t] = "failed"]
  /\ UNCHANGED <<caller, logged, busVars, rows, consumerVars, faults>>

\* flush waits for every message of the shared producer, whoever queued it.
NothingQueued == \A t \in Transfers : sent[t] # "queued"

\* Mutant: what on_delivery was given is not looked at.
FlushReturnsUnheeding(t) ==
  /\ caller[t] = "flushing"
  /\ NothingQueued
  /\ logged' = [logged EXCEPT ![t] = @ + 1]
  /\ caller' = [caller EXCEPT ![t] = IF logged'[t] = Len(Trails[t]) THEN "done" ELSE "ready"]
  /\ UNCHANGED <<sent, busVars, rows, consumerVars, faults>>

\* flush() returns 0, and log_record returns if no error was reported.
FlushReturns(t) ==
  /\ caller[t] = "flushing"
  /\ NothingQueued
  /\ sent[t] # "failed"
  /\ logged' = [logged EXCEPT ![t] = @ + 1]
  /\ caller' = [caller EXCEPT ![t] = IF logged'[t] = Len(Trails[t]) THEN "done" ELSE "ready"]
  /\ UNCHANGED <<sent, busVars, rows, consumerVars, faults>>

\* ... it raises if the broker rejected the record,
FlushReportsError(t) ==
  /\ caller[t] = "flushing"
  /\ NothingQueued
  /\ sent[t] = "failed"
  /\ caller' = [caller EXCEPT ![t] = "refused"]
  /\ UNCHANGED <<logged, sent, busVars, rows, consumerVars, faults>>

\* Mutant: a flush that times out is not an error.
FlushTimesOutQuietly(t) ==
  /\ caller[t] = "flushing"
  /\ ~NothingQueued
  /\ logged' = [logged EXCEPT ![t] = @ + 1]
  /\ caller' = [caller EXCEPT ![t] = IF logged'[t] = Len(Trails[t]) THEN "done" ELSE "ready"]
  /\ UNCHANGED <<sent, busVars, rows, consumerVars, faults>>

\* ... or if something is still queued when the timeout is over, its own record or
\* another thread's.  Nothing in the negotiation catches either.
FlushTimesOut(t) ==
  /\ caller[t] = "flushing"
  /\ ~NothingQueued
  /\ caller' = [caller EXCEPT ![t] = "refused"]
  /\ UNCHANGED <<logged, sent, busVars, rows, consumerVars, faults>>

\* The gateway process dies with its threads and its producer's queue; what had
\* left the queue may still arrive.
Crash ==
  /\ Fault
  /\ caller' = [t \in Transfers |->
                  IF caller[t] \in {"ready", "flushing"} THEN "lost" ELSE caller[t]]
  /\ sent' = [t \in Transfers |-> IF sent[t] = "queued" THEN "failed" ELSE sent[t]]
  /\ UNCHANGED <<logged, busVars, rows, consumerVars>>

-----------------------------------------------------------------------------
(* KafkaAuditConsumer.poll_once and PostgresAuditStore.append_from_log.    *)

\* The process ends and its position with it.
GoesDown(c) ==
  /\ worker' = [worker EXCEPT ![c] = "down"]
  /\ position' = [position EXCEPT ![c] = 0]

\* Mutant: a new consumer begins at the end of the topic.
StartAtLatest(c) ==
  /\ worker[c] = "down"
  /\ worker' = [worker EXCEPT ![c] = "polling"]
  /\ position' = [position EXCEPT ![c] = Len(topic)]
  /\ UNCHANGED <<producerVars, busVars, rows, faults>>

\* A consumer joins at the committed offset (auto.offset.reset is earliest).
Start(c) ==
  /\ worker[c] = "down"
  /\ worker' = [worker EXCEPT ![c] = "polling"]
  /\ position' = [position EXCEPT ![c] = committed]
  /\ UNCHANGED <<producerVars, busVars, rows, faults>>

\* The next message is fetched; one that cannot be read stops the consumer with
\* its offset uncommitted (MalformedAuditMessageError).
Poll(c) ==
  /\ worker[c] = "polling"
  /\ position[c] < Len(topic)
  /\ IF Unreadable(topic[position[c] + 1])
     THEN GoesDown(c)
     ELSE /\ position' = [position EXCEPT ![c] = @ + 1]
          /\ worker' = [worker EXCEPT ![c] = "inserting"]
  /\ UNCHANGED <<producerVars, busVars, rows, faults>>

\* The offset of the message in hand, and the message: while a consumer runs, the
\* topic is only appended to.
OffsetOf(c) == position[c] - 1
InHand(c) == topic[position[c]]

\* Mutant: the position is not unique in the table.
RowsAtNone(offset) == {}

\* The rows that hold a bus position: UNIQUE (topic, partition, offset).
RowsAt(offset) == {i \in DOMAIN rows : rows[i].offset = offset}

\* Mutant: any record at the position makes the message a redelivery.
RedeliveredByPosition(c) == RowsAt(OffsetOf(c)) # {}

\* ON CONFLICT: the very record is at its position already.
Redelivered(c) == \E i \in RowsAt(OffsetOf(c)) : rows[i].record = InHand(c)

\* INSERT ... ON CONFLICT DO NOTHING, one statement with autocommit.
Insert(c) ==
  /\ worker[c] = "inserting"
  /\ RowsAt(OffsetOf(c)) = {}
  /\ rows' = Append(rows, [offset |-> OffsetOf(c), record |-> InHand(c)])
  /\ worker' = [worker EXCEPT ![c] = "committing"]
  /\ UNCHANGED <<producerVars, busVars, position, faults>>

RecognizeRedelivery(c) ==
  /\ worker[c] = "inserting"
  /\ Redelivered(c)
  /\ worker' = [worker EXCEPT ![c] = "committing"]
  /\ UNCHANGED <<producerVars, busVars, rows, position, faults>>

\* AuditPositionConflictError: another record sits at this position.
FindConflict(c) ==
  /\ worker[c] = "inserting"
  /\ RowsAt(OffsetOf(c)) # {}
  /\ ~Redelivered(c)
  /\ GoesDown(c)
  /\ UNCHANGED <<producerVars, busVars, rows, faults>>

\* Mutant: one offset too far is committed.
CommitPastTheNext(c) ==
  /\ worker[c] = "committing"
  /\ committed' = position[c] + 1
  /\ worker' = [worker EXCEPT ![c] = "polling"]
  /\ UNCHANGED <<producerVars, topic, landed, lost, rows, position, faults>>

\* consumer.commit(message=msg): the group resumes after this message.
Commit(c) ==
  /\ worker[c] = "committing"
  /\ committed' = position[c]
  /\ worker' = [worker EXCEPT ![c] = "polling"]
  /\ UNCHANGED <<producerVars, topic, landed, lost, rows, position, faults>>

\* should_stop() is true between two polls, and the consumer is closed.
Close(c) ==
  /\ worker[c] = "polling"
  /\ GoesDown(c)
  /\ UNCHANGED <<producerVars, busVars, rows, faults>>

\* The consumer dies, or an exception of Kafka or Postgres leaves run(), between
\* any two of these steps.
Stop(c) ==
  /\ Fault
  /\ worker[c] # "down"
  /\ GoesDown(c)
  /\ UNCHANGED <<producerVars, busVars, rows>>

-----------------------------------------------------------------------------
(* What else happens to the topic                                          *)

\* Something else writes a message that is no AuditRecord.
WriteUnreadable ==
  /\ Fault
  /\ topic' = Append(topic, Garbage)
  /\ UNCHANGED <<producerVars, committed, landed, lost, rows, consumerVars>>

\* The topic is recreated, or rebuilt from a copy, while no consumer runs: it keeps
\* a prefix, and a committed offset within it, and its further offsets are reused.
Rebuild ==
  /\ Fault
  /\ \A c \in Consumers : worker[c] = "down"
  /\ \E kept \in 0 .. Len(topic) :
       /\ topic' = SubSeq(topic, 1, kept)
       /\ \E offset \in 0 .. kept : offset <= committed /\ committed' = offset
       /\ lost' = lost \cup
            (({topic[i] : i \in kept + 1 .. Len(topic)} \cap AuditRecords) \ StoredRecords)
  /\ UNCHANGED <<producerVars, landed, rows, consumerVars>>

-----------------------------------------------------------------------------
PipelineInit ==
  /\ caller = [t \in Transfers |-> "idle"]
  /\ logged = [t \in Transfers |-> 0]
  /\ sent = [t \in Transfers |-> "none"]
  /\ topic = <<>>
  /\ committed = 0
  /\ landed = {}
  /\ lost = {}
  /\ rows = <<>>
  /\ worker = [c \in Consumers |-> "down"]
  /\ position = [c \in Consumers |-> 0]
  /\ faults = 0

Call(t) ==
  \/ Produce(t) \/ ProduceRaises(t)
  \/ FlushReturns(t) \/ FlushReportsError(t) \/ FlushTimesOut(t)

Delivery(t) == BrokerAppends(t) \/ ReportsDelivery(t) \/ ReportsError(t)

Consume(c) == Poll(c) \/ Insert(c) \/ RecognizeRedelivery(c) \/ FindConflict(c) \/ Commit(c)

PipelineNext ==
  \/ \E t \in Transfers : Call(t) \/ Delivery(t)
  \/ \E c \in Consumers : Start(c) \/ Consume(c) \/ Close(c) \/ Stop(c)
  \/ Crash \/ WriteUnreadable \/ Rebuild

\* run() keeps polling.  No thread has to go on, nothing has to be delivered and nobody
\* has to start a consumer.
PipelineSpec ==
  /\ PipelineInit
  /\ [][PipelineNext]_pipelineVars
  /\ \A c \in Consumers : WF_pipelineVars(Consume(c))

-----------------------------------------------------------------------------
(* Properties                                                              *)

\* The type invariant of the pipeline.
PipelineTypeInvariant ==
  /\ caller \in [Transfers -> CallerPcs]
  /\ logged \in [Transfers -> Nat]
  /\ sent \in [Transfers -> SendStates]
  /\ \A t \in Transfers : logged[t] <= Len(Trails[t])
  /\ topic \in Seq(Messages)
  /\ committed \in 0 .. Len(topic)
  /\ landed \subseteq AuditRecords
  /\ lost \subseteq AuditRecords
  /\ rows \in Seq([offset : Nat, record : AuditRecords])
  /\ worker \in [Consumers -> WorkerPcs]
  /\ position \in [Consumers -> Nat]
  /\ faults \in 0 .. MaxFaults

OnTopic == {topic[i] : i \in DOMAIN topic}

\* "It returns only once the broker has acknowledged the record" (kafka.py 3-6):
\* the records of every log_record call that returned are on the topic or already
\* stored, whatever other threads queued, timed out on or crashed with meanwhile;
\* only a rebuild of the topic can lose one, and only before it is stored.
ReturnedIsRecorded ==
  \A t \in Transfers : \A k \in 1 .. logged[t] :
    Record(t, k) \in OnTopic \cup StoredRecords \cup lost

\* The consumer stops rather than skip: the table holds exactly the messages below
\* the committed offset, each at its position -- across redeliveries, two consumers
\* at once, deaths between insert and commit, unreadable messages, and topics whose
\* offsets start over.
CommittedIsStored ==
  \A i \in 1 .. committed :
    /\ i <= Len(rows)
    /\ rows[i] = [offset |-> i - 1, record |-> topic[i]]

\* Stored at least once, and once: the table implements the append-only ledger, in
\* the order each transfer's records were written.
Ledger == INSTANCE AuditLedger
            WITH Records <- AuditRecords,
                 ledger <- [i \in 1 .. Len(rows) |-> rows[i].record], gone <- lost

LedgerImplemented == Ledger!Spec

\* A thread that gave up had handed its current record over, if it died while it
\* waited for that record; one whose call raised always holds it in its trail.
GaveUp(t) == caller[t] \in {"refused", "lost"}
HandedOver(t) ==
  \/ caller[t] = "refused"
  \/ caller[t] = "lost" /\ (sent[t] # "none" \/ Current(t) \in landed)

Returned(t) == {Record(t, k) : k \in 1 .. logged[t]}
Landed(t) == {rec \in landed : rec.transfer = t}

Given ==
  [t \in Transfers |-> IF HandedOver(t) THEN Returned(t) \cup {Current(t)} ELSE Returned(t)]

\* A record that has landed counts once its call returns.
Held ==
  [t \in Transfers |-> IF GaveUp(t) THEN Landed(t) ELSE Landed(t) \ {Current(t)}]

\* The pipeline provides the contract the negotiations rely on: every call that
\* returned has its record in the log, and a thread that gave up has at most its last
\* record missing, which may land later.
Sink == INSTANCE AuditSink
          WITH Writers <- Transfers, Records <- AuditRecords, given <- Given, held <- Held,
               over <- {t \in Transfers : GaveUp(t)}

SinkProvided == Sink!Spec

\* verify_audit_completeness over get_records.
Verified(t) ==
  RequiredActors(Outcomes[t]) \subseteq
    {Trails[t][rec.turn] : rec \in {s \in StoredRecords : s.transfer = t}}

\* A transfer whose negotiation wrote its whole trail becomes verifiable, as long as
\* some consumer stays up and the topic's storage has not lost part of the trail.
FinishedBecomesVerifiable ==
  \A c \in Consumers, t \in Transfers :
    <>[](worker[c] # "down") =>
      []<>(\/ caller[t] # "done"
           \/ Verified(t)
           \/ \E rec \in lost : rec.transfer = t)
=============================================================================
