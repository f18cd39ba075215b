# A TLA+ model of UbuntuRemit

UbuntuRemit moves money across African borders. One `POST /api/transfers` runs a transfer through
a deterministic entry gate, two LLM agents, a deterministic exit gate and a set of settlement
rails, and writes an audit record at every turn of the agents. What the repository promises about
it is mostly about what must *never* happen: no approval a model did not give, no rail told of an
unscreened or unaudited payment, no transition the lifecycle diagram does not draw, no answer that
is not true. Around it stand the pipeline that carries the audit records into a table, the gate on
incoming ISO 20022 messages, the reconciliation of bank statements, and the admission of schemas
at commit time. This directory states those promises in TLA+, checks them with TLC on small instances
and proves the most important ones with TLAPS for every instance.

Run everything from this directory:

    tlc -workers 2 -config MCGateway.cfg MCGateway      # any .cfg with its module
    tlapm Gateway_proofs.tla                            # any *_proofs module

## 1. The system

Paths are under `services/` unless they start with `libs/`.

| Part | Source | State it keeps | Operations |
| --- | --- | --- | --- |
| Transfer aggregate | `libs/domain/.../transfer.py` | an immutable value per transfer: `state`, `rail` | `transition_to`, refusing what `_LEGAL_TRANSITIONS` does not draw |
| Master Orchestrator | `asco/.../orchestrator/master.py` | `_retry_counts`, per process, by transfer id, no lock | `transition`, `retry_settlement` (budget 2) |
| Compliance Sentinel | `asco/.../agents/sentinel.py` | none | `assess`: ask, re-ask once, escalate |
| Liquidity Strategist | `asco/.../agents/strategist.py` | none | `propose`: filter quotes, ask, re-ask once, raise |
| Exit validator | `asco/.../guardrails/exit.py` | none | `validate`: citations, rail, pacs.008 |
| Negotiation coordinator | `asco/.../orchestrator/negotiation.py` | the trail of one call | `negotiate_and_settle`, writing to an `AuditLogger` |
| Entry guardrail | `asco/.../guardrails/entry.py` | a sanctions list and a limit table, fixed | `evaluate` |
| Rail router | `rails/.../router.py` | the adapters, fixed | `get_quotes`, `execute_settlement_with_retry` |
| Rails | outside the repository | what they did with a payment | `RailAdapter.get_quote`, `submit_settlement` |
| Gateway | `gateway/.../routes/transfers.py`, `dependencies.py` | `GatewayRuntime.transfers`, per process, by id | `POST /api/transfers`, `GET /api/transfers/{id}` |
| Audit pipeline | `audit/.../kafka.py`, `postgres_store.py` | the topic `asco.audit`, its offsets, the table | `log_record`; consumer `poll_once`; `append_from_log` |
| Audit verifier | `audit/.../verifier.py` | none | `verify_audit_completeness` |
| Inference client | `inference/.../client.py` | none | `complete`: a reply, a timeout, or an error |
| Message validation | `messaging/.../validate.py`, `pain001.py` | the `EndToEndId` store, when one is passed | `validate_pain001_message`, `parse_pain001` |
| Reconciliation | `messaging/.../camt053.py` | none | `parse_camt053`, `reconcile_transfer` |
| Schema policy | `messaging/.../policy.py`, `verify_schema.py` | none | `load_schema_policy`, `verify_schema` |
| Builders, envelopes | `messaging/.../pain001.py`, `pacs008.py`, `bah.py`, `settlement.py` | none | XML out of a transfer |
| Sanctions list loader | `asco/.../un_sanctions.py` | none | XML into a screener, at start-up |
| Value types | `libs/domain/.../money.py`, `party.py`, `quote.py` | none | constructor checks |
| Read-only endpoints | `gateway/.../routes/quotes.py`, `compliance.py`, `app.py` | none | `GET /api/fx/quote`, compliance health |
| Frontend, scripts, legacy | `apps/web`, `scripts`, `legacy` | none | static pages, repository tooling |

**How they interact.** A POST is one synchronous handler on a worker thread; threads of the same
process interleave. In the thread, everything is a call: handler → entry gate → `get_quotes` →
coordinator → Sentinel → inference, coordinator → audit logger, ..., handler → router → adapter. The
threads share two dictionaries of the process, `_retry_counts` and `GatewayRuntime.transfers`, both
keyed by the transfer id (8 hex digits of a uuid4, never checked to be fresh). Outside the process
are the inference backend, the audit log and the rails; the log and the rails outlive it.

**What is hard here.** Replies of a model can be anything. The audit sink can fail at each of eight
points of one negotiation, with the record in the log, not in it, or in it only later, and all
threads share one Kafka producer whose flush waits for everybody's records. A consumer can die between its insert and its
commit, be rebalanced while at work, or find a topic whose offsets start over. Two validations can
ask the id store before either records. A rail can decide before, after or
without its adapter answering. Retry counts are read and written in two steps. A crash loses the
handler and what the process remembers, not what rails were told. `PROJECT.json` lists these
hazards one by one, at their lines, with the properties that would catch each going wrong.

**What makes each part correct.**

- Lifecycle: only the drawn transitions, only one cycle, bounded at two retries, each on a new rail.
- Agents and coordinator: fail closed. No timeout, malformed reply or invented figure becomes an
  approval; an escalation is final; the talk is finite.
- Audit: no settlement without its records; what a result claims was recorded was recorded; at most
  the last record of a call that raised or died is missing.
- Router: approved rail first, no rail twice, `DELIVERED` under the name of the rail that paid, every
  retry counted, giving up only when there is nothing left to try.
- Gateway: the answer is true, the GET gives the answer, nothing moves after it.
- Audit pipeline: every record whose `log_record` returned is on the bus or in the table; the table
  is an append-only ledger without duplicates or gaps.
- Message validation: an id is taken exactly by acceptance, and reuse of a taken id is rejected.
- Reconciliation: a transfer is delivered only by a booked entry that matches it exactly, and a
  statement that does match never raises.
- Schema admission: a file reported ok pulls in nothing unadmitted, whatever imports whatever, and
  the command ends.

## 2. The modules

| Module | Models | Built on |
| --- | --- | --- |
| `TransferLifecycle` | what the platform promises of a transfer: the state diagram and its retry budget (abstract specification) | |
| `Orchestrator` | the Transfer value and `MasterOrchestrator` | |
| `Agents` | `ComplianceSentinel.assess`, `LiquidityStrategist.propose`, and what inference may answer | `Orchestrator` |
| `ExitValidator` | `ExitValidator.validate` | `Agents` |
| `Negotiation` | `NegotiationCoordinator.negotiate_and_settle` and the audit log | `ExitValidator` |
| `RailRouter` | `RailRouter.execute_settlement_with_retry` and the rails behind it | `Orchestrator` |
| `EntryGuardrail` | `EntryGuardrail.evaluate` | |
| `Gateway` | `initiate_transfer`, composing all of the above; crash and restart | `Negotiation`, `RailRouter`, `EntryGuardrail` |
| `AuditSink` | what `log_record` promises those who write records (abstract specification) | |
| `AuditLedger` | what the pipeline promises an auditor (abstract specification) | |
| `AuditPipeline` | `KafkaAuditLogger`, the topic, `KafkaAuditConsumer`, `PostgresAuditStore.append_from_log`, `verify_audit_completeness` | |
| `Amounts` | `decimal_str_to_minor_units`, `minor_units_to_decimal_str` | |
| `MessageValidation` | `validate_pain001_message` and the `EndToEndId` store | `Amounts` |
| `Reconciliation` | `parse_pain001`, `parse_camt053`, `reconcile_transfer`, composed with the validation | `MessageValidation` |
| `SchemaVerification` | `verify_schema` and its command line | |
| `*_proofs` | the theorems about `RailRouter`, `Negotiation`, `Gateway`, `AuditSink`, `AuditPipeline`, `Reconciliation` (`Messaging_proofs`), `SchemaVerification` | the component, `TLAPS` |
| `MC*` | values of the constants for TLC | the component |

`Negotiation` and `RailRouter` each have a specification of their own, so that they can be checked
with far more inputs than the composition can afford; `Gateway` uses their actions unchanged.
`AuditSink` joins the two halves of the audit: `Gateway` is shown to write by it, `AuditPipeline` to
provide it.

**Correspondence: the payment.** `Requests` are POST calls. For a request `r`:

- `pc[r]` is where the handler stands: `idle`, `entry_gate`, `quotes`, the steps of the negotiation
  (`assess`, `reassess`, `audit_verdict`, ..., `negotiated`), those of the router (`submit`,
  `await_rail`, `retry`, `count_retry`, `settled`, `exhausted`), and the ends: `refused` (before a
  transfer exists), `answered`, `raised` (an exception left the handler: a 500), `lost` (a crash).
- `state[r]`, `rail[r]` are the fields of the thread's current `Transfer` value.
- `retryCount[id]` is `_retry_counts`; `seen[r]` the value `retry_settlement` read.
- `offered[r]`, `verdict[r]`, `proposal[r]` are `rail_quotes` and the agents' outputs.
- `trail[r]` is the list `negotiate_and_settle` returns, `log[r]` the request's records in the log
  (sets: each record of one call differs in actor or action). `result[r]` is the result's outcome.
- `approved[r]`, `alternates[r]` are the router's `preferred_rail` and the rails retried on;
  `book[r][x]` is what rail `x` did, as the rail knows it.
- `response[r]`, `remembered[id]` are the POST's answer and `GatewayRuntime.transfers`.

**Correspondence: the audit pipeline.** A transfer stands for the thread that logs its trail.
`caller[t]` is where `log_record` is, `logged[t]` the number of its calls that have returned,
`sent[t]` its current record inside the shared producer, `topic` the one partition of `asco.audit`
that the transfer's key maps to, `committed` the group's offset. `worker[c]` and `position[c]` are
`poll_once` of consumer `c` and the consumer's position, which a restart takes from `committed`.
`rows` is `audit_records` in the order of its ids, each row with the position of the unique key.
`landed` and `lost` are history: what the broker ever took, and what a rebuild of the topic
destroyed before it was stored. A record's number in its trail is its identity (an `AuditRecord` has
no other key).

**Correspondence: messages.** A message is one call of `validate_pain001_message`; `call[m]` is the
document, `validator[m]` the stage of its result or the call on the store it is about to make,
`seen` the store. `transfer[m]` is the state of the transfer `parse_pain001` makes of it,
`received` the statements, `outcome[m]` how the last `reconcile_transfer` for it ended. `earlier[m]`
is history. Nothing in the repository connects these functions yet: the gateway validates without a
store and nothing calls the reconciliation. The composition is the flow of `iso20022-messaging.md`
section 4: validate, parse, settle, reconcile.

**Correspondence: schema admission.** `stack` is the call stack of `verify_schema`, each frame a
file and the index of the dependency it is at; `seen` is `_seen_paths`; `result` is what the
innermost call returned. A file's `stage` is the first of the six checks that objects to it.

**Atomicity.** One action is one call that leaves the thread — inference, audit sink, adapter — or
one access to state threads share, together with the local code after it up to the next such call.
`retry_settlement` is two actions, its read and its write, as are `is_seen` and `record` of the id
store, and `poll_once` is three: the poll, the insert (one autocommitted statement) and the
commit. Everything else in between is local to
the thread (the Transfer is immutable), so a finer grain would add no behaviour.

**Abstractions.** Texts, amounts in XML and prompts are left out. A verdict keeps its outcome, risk,
cited rules (and whether they are a list), forbidden rails and limit; a proposal its rail, cost,
currency and latency. The model assumes nothing of the inference backend: decoding against a schema
normally prevents ill-formed fields, but the agents validate every reply again, and it is that
validation which is modelled. A form is what the entry gate can tell apart of a pain.001; the
verdicts of the XSD, of the parser and of the sanctions screener are inputs. `Transition` blocks
where the code raises: no reachable step attempts an illegal transition (else a handler would get
stuck, which `RequestEnds`, `NegotiationEnds` and `RoutingEnds` would show).

An amount is a text as `decimal_str_to_minor_units` sees it: whether its whole part has a minus, that
part's value, the characters between the first point and a second one (digits, space, plus, minus, any
other), and whether the rest is clean (no second point, no space or `_` in the whole part). The function
looks at the whole part and two characters and lets `int()` judge them, so `-0.50` is 50, `-1.50` is -50,
`1.05abc` and `1.05.9` are 105, `1. 5` is 105 and `1.x` raises. Amounts of a pain.001 have passed its XSD
(`ValidationAssumption`: a decimal that is not below zero); amounts of a camt.053 have passed nothing, and
the model gives them any text. A text whose whole part is no integer raises whatever follows: in a
statement it is `unreadable`, in a pain.001 (`.5`, which the XSD lets through) it fails in `BUSINESS_RULES`
as an amount of zero does. A camt.053 entry keeps its two references, amount, currency and status.

**The rails and the log.** In `Gateway` both are external. An adapter is taken to answer honestly: `DELIVERED`
for a payment made, `FAILED`/`REJECTED` for one refused, `SETTLING` for one undecided, or it raises,
and then anything may have happened. Of `log_record` the model uses its contract: when it returns,
the record is in the log; when it raises, or the process dies in it, the record is in flight, and
`LateArrival` may bring it to the log at any later time, or never. That covers the record that had
landed before the call raised, and the one the broker takes only after the producer gave up waiting.
`AuditSink` is this contract. For a handler `r`, `trail[r]` is what was given to the sink and `log[r]`
what it holds. In `AuditPipeline` the two are derived: a record is given once its call has returned or
raised, or its thread died waiting for it, and held from the call's return, or, when the thread gave
up, from when it lands.

**The bus.** Broker, producer queue and Postgres are external to `AuditPipeline`. The producer is
idempotent and `acks=all` (`kafka.py` 49–60), so a record lands at most once, and is reported
delivered only when it landed; it may be reported failed and have landed, or still land later. The
consumer's client restarts at the committed offset, or at the beginning (`auto.offset.reset`). Every
rebuild of the topic happens with all consumers down and keeps a prefix of the topic and a committed
offset within it that is no later than before; this is an assumption about operations, and the
reason `AuditPositionConflictError` is reachable. Fencing of a commit after a lost rebalance is left
out, which only adds behaviour.

**Not in the model.** The branch for an exhausted exchange budget (`negotiation.py` 216–231) cannot
be reached — the loop ends after one pass, and the challenge round the design draws is not
implemented — so it has no action. Quote expiry is never read after construction and there is no
clock. A repeated POST is a new request: the code has no idempotency key.

## 3. What TLC checks

| Run | Checks | Instance |
| --- | --- | --- |
| `negotiation` | fail-closed, audited, truthful about its log, escalation final, terminating | 1 transfer, every set of quoting rails, 288 verdicts × 48 proposals |
| `router` | no second submission, deliveries under the right name, order, honest exhaustion, retries counted, terminating | 2 transfers that share an id, every adapter set, corridor and approved rail (1.2 million states) |
| `audit_pipeline` | acknowledged records kept, no gap below the committed offset, refinements of the ledger and of the sink's contract, finished trails become verifiable | 2 threads with trails of 2 and 1 records on one producer, 2 consumers at once, 1 fault of any kind at any point, any number of graceful restarts and delivery errors (337 thousand states) |
| `messaging` | id store, delivery only by a booking, raising only on a mismatch, exact amounts | 2 overlapping validations (28 pairs of documents), then 2 statements out of 14, in any order and repeated (1.2 million states) |
| `schema` | sound verdicts on diamonds and cycles, the command ends | 3 files, every import graph with out-degrees up to 2, 2, 1 (self-imports included), each file possibly bad, 2 arguments (377 thousand states) |
| `gateway` | the whole POST: screened, audited, justified, true answers, quiet after the end, refinements of the lifecycle and of the sink's contract, termination | 1 request, 1 crash at any point, 15 forms, 7 verdicts, 6 proposals (269 thousand states) |

The passing runs between them take every action and every disjunct of the next-state relations.

- `FailClosed`: SETTLING only on a cited PASS that the model gave, on quoted and allowed terms.
- `ResultMatchesTheLog`: a returned trail is exactly what was logged, its outcome the state, and the
  caller hears SETTLING only when all four actors' records (what `verify_audit_completeness` asks
  for) are in the log.
- `NoUnauditedSubmission`: they are there before any rail hears anything, whatever fails or crashes.
- `EscalationIsFinal`: no step after an ESCALATE or BLOCK consults the Strategist or validates.
- `NeverSubmittedTwice`, `AttemptsInOrder`: the router's promises about what it tells the rails.
- `DeliveredByTheLastTold`: the rail a delivered transfer names is the last one told, not the approved
  one that failed, and nothing was told but the approved rail and the alternates. It does not say that
  no other rail pays: one that answered SETTLING may, which is the subject of `router_pending`.
- `RetriesAreCounted`: the unlocked count against the retries really made under the id. It is never
  above them, and below them only when two requests retry and one writes over the other.
- `ExhaustedMeansExhausted`: giving up is for want of a candidate, or because two retries were made.
- `OnlyScreenedIsSubmitted`, `ApprovedRailIsJustified`: what holds of a transfer when, and after,
  money may move.
- `AnswerIsTrue`, `NothingAfterTheEnd`: what the client sees, at the POST and by a GET; after the end
  only the one record an exception or a crash left on its way may still reach the log.
- `LifecycleImplemented`: the gateway implements `TransferLifecycle`, with `retriedOn <- alternates`.
- `SinkContractKept`, `SinkProvided`: the gateway's threads write by the contract of `log_record`, and
  the pipeline provides it. A coordinator that wrote on after a failed call breaks the first, a flush
  that returns without looking at its outcome the second.
- `ReturnedIsRecorded`: a record whose `log_record` returned is on the topic or in the table, whatever
  other threads queued, timed out on or crashed with; only the loss of the topic's storage loses it.
- `CommittedIsStored`: the table is exactly the messages below the committed offset, each at its
  position. It fails if a consumer skips, commits too far, takes another record for a redelivery, or
  starts at the end.
- `LedgerImplemented`: the table implements `AuditLedger`: nothing changed or removed, no record twice,
  a transfer's records in the order they were written.
- `FinishedBecomesVerifiable`: with a consumer that stays up, a transfer whose trail was written becomes
  complete for `verify_audit_completeness` (or the consumer cannot stay up: it met an unreadable message
  or a conflict).
- `LateReuseRejected`, `SeenIsAccepted`: the id store.
- `DeliveredIsBooked`, `ReturnsAreMatched`: what a statement can do to a transfer. Its word is the first
  entry that names the transfer: a search that went on to a later entry breaks the first, a
  reconciliation that raises over a statement it has seen before the second. Both compare the amount as a
  decimal says it, and take the reading of a text that is none; `MismatchIsRefused` says what that costs.
- `AmountsAreExact`: the two conversions against exact arithmetic in thousandths.
- `OkIsSound`, `OkNamesItsImports`, `ViolationIsReal`: verdicts against `Reachable`, defined as the least
  closed set and not by a traversal.
- `NegotiationEnds`, `RoutingEnds`, `RequestEnds`, `CommandEnds`: liveness.

**Why these bounds are enough.** Handlers share nothing but the two dictionaries keyed by id. With
distinct ids they do not affect each other, so one request shows every behaviour of a request; with
one id, all they share that decides anything is the retry count, which `router` checks
with two threads. A third adds no new kind of race, and the proofs have any number. Two requests through the whole gateway exceed ten million states without adding an
interaction; the theorems below have no bound on requests, ids or crashes. Rails are the code's
three. Forms stand on both sides of every limit of the entry gate, and one form takes each branch;
verdicts and proposals lie on both sides of each check of the exit gate. One crash can fall between
any two steps of the only handler; after it the handler is gone, so a second could only
empty the process's memory again.

In the pipeline two threads are what it takes for one to flush the other's record, and one of the
two writes two records, so that an acknowledged one is followed by one that fails. Two consumers
give a rebalance with both at work. One fault is any of a crash of the gateway, the death of a
consumer, an unreadable message and a rebuild; graceful closes, restarts and delivery errors are not
bounded, so a restart finds every committed offset and a rebuild follows every position. The proofs
have none of these bounds. In `messaging`, one message takes every branch of the validation and the
other is sound, since two flawed ones do not meet in the store; the fourteen statements take each branch
of parsing and reconciling: a wrong cent, a wrong currency and an unreadable amount before and after
the match, and amounts with a sign, a blank, a second point and trailing letters. Three files are enough for a file reached along two paths, cycles
of length three, a cycle of two beside a third file, and self-imports; the proofs cover any graph.

**Fairness.** Weak fairness of each handler's steps and nothing else: the inference client, the
Kafka producer and, by its Protocol, an adapter return or raise after a timeout, so a running
handler runs on. No fairness is assumed of clients, rails, crashes, or of a good reply: the liveness
properties hold however badly the models answer and if the rails never decide. In `audit_pipeline`
only `poll_once` is fair, per consumer: `run` loops on it. No thread has to log, nothing has to be
delivered and nobody has to restart a consumer, so the liveness property is conditional on one
staying up. `schema` is one thread that nothing interrupts. `messaging` assumes no fairness.

`CHECK_DEADLOCK` is off throughout, because the modelled systems stop: a bounded number of requests
is handled and then nothing is left to do. That no handler gets stuck is what the liveness
properties say.

### What the code does not do as said

Each of these runs checks one statement of the repository and finds a counterexample.

| Run | Statement | Counterexample |
| --- | --- | --- |
| `negotiation_malformed` | `sentinel.py:79`: second failure → ESCALATE | the second error's text makes the fallback rationale longer than the 600 characters a verdict accepts, and `assess` raises |
| `router_pending` | `domain-model.md:161`: FAILED on rail timeout or rail-side rejection | a rail answers SETTLING, the transfer is FAILED and retried elsewhere, the first rail may still pay |
| `gateway_unaudited` | `SPEC.md:122`: every terminal state has a record per participating actor | a transfer the entry gate rejects has none |
| `gateway_forbidden` | `router.py:55-56`: settling elsewhere would carry terms nobody approved | a retry goes to a rail the verdict forbids |
| `messaging_amounts` | `camt053.py:120`: an amount mismatch of even one minor unit raises | a statement of `-0.50` delivers a transfer of 0.50, one of `1.05x` or `1.05.9` a transfer of 1.05 |
| `gateway_citations` | `transfers.py:205-206`: an exhausted settlement is stored and returned, not a 500 | a verdict whose rules are a string passes the agents and fails the response model |

Other places where a text says more than the code does are not runs of their own; the properties
state the part that holds, and it is proved:

- `SPEC.md:112`, a reused `EndToEndId` is a hard rejection: holds for validations that do not overlap
  (`LateReuseRejected`). `is_seen` and `record` are two calls with no lock around them.
- `iso20022-messaging.md:363`, a unique `EndToEndId` protects the join key: the reference is the
  `PmtInfId` when there is one (`pain001.py` 212–215), which the store does not watch.
  For messages as `build_pain001` makes them the two are the same; of others `LateReuseRejected` says
  what remains, and no property speaks of the reference.
- `kafka.py` 51–53, only the queue is dropped on a timeout: a record that was given up may have left
  the queue and land later; a caller that was told of a failure may find its record stored.
- `test_verify_schema.py:305`, an import's namespace must match: not looked at when the path was seen
  before. `OkNamesItsImports` says what remains, one agreeing import per file.
- `iso20022-messaging.md:334`, BOOK only: an entry without a status counts as booked, one in an unknown
  currency as ZAR (`camt053.py` 79–98). `Confirms` says so.
- `SPEC.md:123`, a transfer that does not match alerts: a booking for a transfer that is not SETTLING is
  returned unchanged, without an alert (`camt053.py` 149–155).

## 4. What TLAPS proves

For every set of requests and ids, every assignment of ids (colliding ones included), every limit
table, rail terms, set of replies and number of crashes that satisfies the named assumptions
(`OrchestratorAssumption`, `AgentsAssumption`, `ExitAssumption`, `EntryAssumption`,
`GatewayAssumption`, `ValidationAssumption`, `ReconciliationAssumption`, `SchemaAssumption`: typing
facts, and the positivity `LimitTable` enforces; `PipelineAssumption` also says that a trail holds the
records its outcome requires, which `Negotiation` guarantees). TLC evaluates these assumptions in the
runs.

**Router** (`RailRouter_proofs`). Every property of its run but the liveness one, for any number of
threads on one id. `RouterTypeInvariant` and `NeverSubmittedTwice` follow from `RouterInv`, which says for
each `pc` which state the transfer is in, that every rail chosen so far (the approved one and the
alternates) has been submitted to except the one being submitted now, and that a thread about to write a
count has read one below the budget. `AttemptsInv` adds three things. *Order* (`OrderInv`): each alternate
came before the candidates still untried, and the transfer names the last rail chosen, which give
`AttemptsInOrder` and `DeliveredByTheLastTold`. *The count from above* (`RetryCountInv`): neither the count
nor any value a thread has read exceeds the retries made under the id, so a refusal is backed by two of
them, whatever was written in between; this is `ExhaustedMeansExhausted`. *The count from below*
(`NoneIsLost`): while one thread only has retried, it has read the very count it is going to raise. The
last is the part of `RetriesAreCounted` that a lost update breaks, and the reason it is conditional.

**Negotiation** (`Negotiation_proofs`). The type invariant, `FailClosed`, `ResultMatchesTheLog` and
`EscalationIsFinal`. `NegotiationInv` says for each `pc` which records the log must hold by then and
what the verdict and proposal at hand satisfy; it is the chain from `audit_verdict` to
`audit_settling` that makes the four actors' records precede the result. `ReportInv` adds what a result
says of the state and that nobody holds a verdict before the Sentinel has concluded; an escalated
thread can then only be recording its escalation or have ended.

**Gateway** (`Gateway_proofs`). Every property of its run but the liveness one. `GatewayInv` joins the two
components' invariants, restricted to the `pc` values at which they apply, with `LinkInv`: a handler past
the entry gate carries a form no gate objects to, one past the negotiation carries a full audit trail,
and a book is empty until the router has run. A `Crash` keeps it because it touches neither log nor books
and sends running handlers to `lost`, where only the facts about log, books and forms are claimed. The
refinement `LifecycleImplemented` maps each action to an edge of the diagram, a retry or a stutter
(`LifecycleStep`). `ClientInv` adds what an answer rests on: a recorded verdict is one the Sentinel may
return, so it cites a rule; the router was entered with the proposal's rail; and an answered request has
ended, after which only a rail's decision or a late record can touch it (`EndedStep`), and what a rail
paid it has paid; and what is remembered under an id was answered to a request that drew it (`HeldInv`).
With colliding ids that request need not be the one a GET was meant for.

*The parts keep their promises inside the whole.* The router's and the coordinator's properties are
proved of `GatewaySpec` too, where a handler can crash between any two of their steps and the retry
counts are emptied under threads' feet: `GatewaySubmitsOnce`, `GatewayDeliversByTheLastTold`,
`GatewayGivesUpForGood`, `GatewayKeepsTheOrder`, `GatewayReadsTrueResults` and
`GatewayEscalationsStand`. The last two need `CoordinatorInv`: what happens before and after the
negotiation leaves its verdict and result alone. `RetriesAreCounted` is not among them: after a crash the
counts start over. What keeps giving up honest is left of it, the count from above (`CountedInv`).

*Reasons.* `GateIsExact` says which forms the entry gate passes, sends to a human and rejects, by
equivalence: the order of its seven checks matters, since a listed PEP must be
rejected and an unlisted one above the threshold escalated even when a limit behind that check would
reject. `RefusalsHaveReasons` (`RefusedForAReason`): a transfer is REJECTED only on the gate's, the
Sentinel's or the exit gate's objection, and goes to review from the negotiation only on an ESCALATE or
with the Strategist's failure in the log. It is the converse of the fail-closed properties, which a
system that refuses everything would satisfy.

**The contract of the audit log** (`AuditSink_proofs`, and the two that use it). `GatewayKeepsSinkContract`:
every step of the gateway is a step of `AuditSink` or a stutter; a crash is a `Stop` of all running
handlers at once, each with at most the record it was waiting for. `PipelineProvidesSink`: so is every
step of the pipeline. Its `HandoverInv` says that what a thread has landed is what its calls returned and
at most the record of the call it is in, so that one record at most is in doubt when it gives up.
`OneRecordAtMostIsMissing` draws the consequence, once, for any writers; `GatewayLosesOneRecordAtMost`
carries it to the gateway through the refinement (`LogIsComplete`: the log holds everything a running
handler wrote and misses at most one record of any other).

**Audit pipeline** (`AuditPipeline_proofs`), for any number of threads, consumers and faults.
`PipelineTypeInvariant`, `ReturnedIsRecorded`, `CommittedIsStored` and the refinement
`LedgerImplemented`. `PipelineInv` says three things none of these says alone. *Where records are*: what
landed is on the topic, in the table or lost, and a thread's returned records have landed. *How the topic
looks*: no record is on it twice, and a transfer's records are on it in order, nothing missing before
one but what was lost. *How far the table agrees with it*: the first `committed` rows are the first
`committed` messages, and a consumer that holds a message knows the same of all messages before
it. The last is what makes an insert by a second, late consumer a redelivery or a conflict and never a
second copy. In the refinement `Insert` is `Add`, `Rebuild` is `Lose`, all else stutters.

**Messaging** (`Messaging_proofs`). `MessagingTypeInvariant`, `SeenIsAccepted`, `LateReuseRejected`,
`DeliveredIsBooked`, `ReturnsAreMatched` and `AmountsAreExact`, for any number of overlapping validations,
any statements and texts, and amounts of any size. A pain.001's amount is exact because its XSD refuses a
sign: a text with a minus that is not below zero is zero (`NegativeReadsAsZero`), and zero is refused; of a
statement's amounts nothing is assumed. `MessagingInv` adds for each call what the
stages before its `validator` value have established, and that a call which may still be
accepted does not carry an id accepted before it began (`FreshAgainstEarlier`): either it has not asked
the store, which holds that id, or it asked and was told otherwise.

**Schema admission** (`SchemaVerification_proofs`). `SchemaTypeInvariant`, `OkIsSound`,
`OkNamesItsImports`, `ViolationIsReal`, for any set of files and any graph. `SchemaInv` is the invariant
of a depth-first search with an explicit stack: each frame is at the dependency its callee was called for
(`StackInv`), and while nothing has failed, every seen file passed its own stages and is in progress or
has all its imports seen (`GoodInv`). When the stack is empty, nothing is in progress, so the seen set is
closed and holds all that is reachable. This is why a file taken for good on sight is good in the end.
`RecursionIsBounded`: when the files are finitely many, the recursion is never deeper than their number
and never inside the same file twice, so a cycle of imports ends (`DepthInv`:
the frames are distinct and all seen).

**Termination.** That something eventually happens is a matter of fairness and stays with TLC. What makes
it happen is a measure, and that is proved. `NegotiationDescends` (a negotiation takes at most 10 steps),
`RoutingDescends` (15, counting the retries still possible) and `HandlersDescend` (30 for a whole POST):
each step of a handler lowers its own measure, and no step of another handler, a rail, the log or a crash
raises it, not even one that writes the retry count the handler shares. `CommandDescends` is the same for
the schema command, where the measure is lexicographic in seven numbers: files to report, paths not yet
seen, calls in progress, dependencies to follow. With the weak fairness of section 3 these are
`NegotiationEnds`, `RoutingEnds`, `RequestEnds` and `CommandEnds` but for one fact, that an unfinished
handler always has a step it can take; TLC checks that part.

Every invariant that needed strengthening was checked with TLC on the run of its module before it was
proved. So were `LogIsComplete` and `RefusedForAReason`, which are stated beside their proofs and are not
checked again by a run.

**Only model-checked.** Liveness under fairness, which is out of the prover's reach: `RoutingEnds`,
`NegotiationEnds`, `RequestEnds`, `FinishedBecomesVerifiable` and `CommandEnds`. Of
`FinishedBecomesVerifiable` no part is proved: a consumer's progress is set back by restarts and
redeliveries, and only fairness wins. The claims the code does not keep are refuted by TLC and not proved.

## 5. Plan

In order of importance; done but for the last.

1. The path of a payment: `TransferLifecycle`, `Orchestrator`, `Agents`, `ExitValidator`,
   `Negotiation`, `RailRouter`, `EntryGuardrail`, `Gateway`.
2. The audit pipeline with its refinement of `AuditLedger`.
3. Message validation and reconciliation.
4. Schema verification.
5. The theorems: every property of a passing run but the liveness ones.
6. The contract between gateway and pipeline, the parts' promises inside the whole, and the measures
   behind the liveness properties.
7. Left: consequences of `TransferLifecycle` for its own sake, carried to the gateway as the contract's
   are, and a measure for a consumer between two restarts.

## 6. Not modelled, and why

- **The other audit stores and `AuditConsumer`**: the SQLite and in-memory stores serve tests and local
  runs and are lists; `process_message` is an older path beside `append_from_log`. The store's check of
  its own privileges at start-up is a query whose answer is an input.
- **`load_schema_policy`**: parsing of one YAML file at start; the policy it gives is part of a file's
  `stage`.
- **Polling a consumer again after it raised**: `run` lets every exception out and nothing calls
  `poll_once` otherwise, so a consumer that raised is down.
- **More than one partition**: records are keyed by transfer, and nothing relates two partitions.
- **Steps between INITIATED and SETTLING in `Reconciliation`**: they are `Gateway`'s; `GatewayMoves` takes
  them as one, and leaves out the ends a statement cannot meet.
- **The vendored Tailwind bundle** (`apps/web/assets/tailwind.js`): third-party, minified, and no part of
  the program's logic.
- **XML builders and envelopes**: straight-line construction without state; that a pacs.008 may fail
  its XSD is a free choice in `Exit`.
- **Sanctions matching and the list loader**: string normalisation at start-up and in a pure
  predicate; its answer is an input of `EntryGuardrail`.
- **Value types**: constructor checks; what they refuse ends the POST before a transfer exists.
- **Quotes and compliance endpoints, app factory**: read-only wiring.
- **Frontend, scripts, legacy mock-ups, CI, containers**: no behaviour of the running system.
