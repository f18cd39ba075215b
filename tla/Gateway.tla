-------------------------------- MODULE Gateway --------------------------------
(***************************************************************************)
(* The gateway (services/gateway): POST /api/transfers from the first      *)
(* check to the answer, with the entry gate, the negotiation and the rail  *)
(* router it calls, and the process-local memory a GET reads.              *)
(*                                                                         *)
(* Each request is one synchronous handler call on a worker thread; the    *)
(* threads interleave.  The audit log and the rails outlive the process:   *)
(* a crash loses every thread, the retry counts and the answers held for   *)
(* GET, but neither the log nor what a rail was told.  state[r] then       *)
(* stands for the last state the transfer had.                             *)
(***************************************************************************)
EXTENDS Negotiation, RailRouter, EntryGuardrail

CONSTANT MaxCrashes    \* bound on the process crashes a behaviour may have

ASSUME GatewayAssumption == MaxCrashes \in Nat

VARIABLES
  configured,  \* BOOLEAN: every field of GatewayDependencies is set
  form,        \* [Requests -> Forms]: what the client posts
  response,    \* [Requests -> Responses \cup {NoResponse}]: what the POST returned
  remembered,  \* [Ids -> Responses \cup {NoResponse}]: GatewayRuntime.transfers
  crashes      \* crashes so far

postVars == <<configured, form>>
answerVars == <<response, remembered>>
gatewayOnlyVars == <<postVars, answerVars, crashes>>
gatewayVars == <<pc, transferVars, agentVars, negotiationVars, routerVars, gatewayOnlyVars>>

Reply(status, outcome, onRail, cited) ==
  [status |-> status, outcome |-> outcome, rail |-> onRail, cited |-> cited]

NoResponse == Reply("NONE", "NONE", NoRail, {})

\* Where a handler call stops: refused before a transfer exists, answered with
\* a remembered response, left by an exception (500), or lost in a crash.
Ended == {"refused", "answered", "raised", "lost"}
Running(r) == pc[r] \notin Ended \cup {"idle"}

\* runtime.remember, then return.
Answer(r, reply) ==
  /\ response' = [response EXCEPT ![r] = reply]
  /\ remembered' = [remembered EXCEPT ![IdOf[r]] = reply]
  /\ Goto(r, "answered")
  /\ UNCHANGED <<postVars, crashes>>

-----------------------------------------------------------------------------
(* initiate_transfer, up to the negotiation                                *)

\* A missing source is a 503, whatever else is wrong with the request.
RefuseUnconfigured(r) ==
  /\ pc[r] = "idle"
  /\ ~configured
  /\ Goto(r, "refused")
  /\ UNCHANGED <<transferVars, agentVars, negotiationVars, routerVars, gatewayOnlyVars>>

\* An unknown currency or purpose is a 400, a corridor nobody quotes a 404;
\* a value a domain type refuses raises.  No transfer exists yet.
RefuseParameters(r) ==
  /\ pc[r] = "idle"
  /\ configured
  /\ Goto(r, "refused")
  /\ UNCHANGED <<transferVars, agentVars, negotiationVars, routerVars, gatewayOnlyVars>>

CreateTransfer(r) ==
  /\ pc[r] = "idle"
  /\ configured
  /\ state' = [state EXCEPT ![r] = "INITIATED"]
  /\ Goto(r, "entry_gate")
  /\ UNCHANGED <<rail, budgetVars, agentVars, negotiationVars, routerVars, gatewayOnlyVars>>

\* A transfer the gate refuses is answered at once, and so is one it escalates,
\* which stays at INITIATED.  Nothing is written to the audit log.
EntryGate(r) ==
  LET gate == Evaluate(form[r]) IN
  /\ pc[r] = "entry_gate"
  /\ \/ /\ gate.outcome = "PASS"
        /\ Goto(r, "quotes")
        /\ UNCHANGED <<state, gatewayOnlyVars>>
     \/ /\ gate.outcome = "ESCALATE"
        /\ Answer(r, Reply(state[r], "ESCALATE", NoRail, gate.cited))
        /\ UNCHANGED state
     \/ /\ gate.outcome = "REJECTED"
        /\ Transition(r, "REJECTED")
        /\ Answer(r, Reply("REJECTED", "REJECTED", NoRail, gate.cited))
  /\ UNCHANGED <<rail, budgetVars, agentVars, negotiationVars, routerVars>>

\* RailRouter.get_quotes: an adapter that has no price for the corridor raises
\* ValueError and is left out; PAPSS is asked only where the corridor allows it.
GatherQuotes(r) ==
  /\ pc[r] = "quotes"
  /\ \E quoting \in SUBSET {x \in adapters : x # "PAPSS" \/ papss[r]} :
       offered' = [offered EXCEPT ![r] = quoting]
  /\ Goto(r, "assess")
  /\ UNCHANGED <<transferVars, verdict, proposal, negotiationVars, routerVars, gatewayOnlyVars>>

\* A name no XML can carry raises while the pain.001 is built, a screener that
\* cannot answer raises in the gate, and any other exception of an adapter raises
\* while it quotes: nothing catches it, and no answer is remembered.
GateOrQuotesRaise(r) ==
  /\ pc[r] \in {"entry_gate", "quotes"}
  /\ Goto(r, "raised")
  /\ UNCHANGED <<transferVars, agentVars, negotiationVars, routerVars, gatewayOnlyVars>>

-----------------------------------------------------------------------------
(* initiate_transfer, from the negotiation's result to the answer          *)

Negotiate(r) ==
  /\ NegotiationStep(r)
  /\ UNCHANGED <<routerVars, gatewayOnlyVars>>

\* Mutant: the outcome is answered where the state belongs.
DeclineByOutcome(r) ==
  /\ pc[r] = "negotiated"
  /\ result[r] # "SETTLING"
  /\ verdict[r].listed
  /\ Answer(r, Reply(result[r], result[r], NoRail, verdict[r].cited))
  /\ UNCHANGED <<transferVars, agentVars, negotiationVars, routerVars>>

Decline(r) ==
  /\ pc[r] = "negotiated"
  /\ result[r] # "SETTLING"
  /\ verdict[r].listed
  /\ Answer(r, Reply(state[r], result[r], NoRail, verdict[r].cited))
  /\ UNCHANGED <<transferVars, agentVars, negotiationVars, routerVars>>

\* Mutant: a transfer that was answered FAILED is driven again in the background.
SettleAgain(r) ==
  /\ pc[r] = "negotiated" \/ (pc[r] = "answered" /\ state[r] = "FAILED")
  /\ result[r] = "SETTLING"
  /\ StartRouting(r, proposal[r].rail)
  /\ UNCHANGED <<agentVars, negotiationVars, gatewayOnlyVars>>

Settle(r) ==
  /\ pc[r] = "negotiated"
  /\ result[r] = "SETTLING"
  /\ StartRouting(r, proposal[r].rail)
  /\ UNCHANGED <<agentVars, negotiationVars, gatewayOnlyVars>>

RouteOn(r) ==
  /\ RouterStep(r)
  /\ UNCHANGED <<agentVars, negotiationVars, gatewayOnlyVars>>

\* Mutant: the answer names the approved rail, not the one that paid.
AnswerDeliveredAsApproved(r) ==
  /\ pc[r] = "settled"
  /\ verdict[r].listed
  /\ Answer(r, Reply(state[r], "DELIVERED", approved[r], verdict[r].cited))
  /\ UNCHANGED <<transferVars, agentVars, negotiationVars, routerVars>>

AnswerDelivered(r) ==
  /\ pc[r] = "settled"
  /\ verdict[r].listed
  /\ Answer(r, Reply(state[r], "DELIVERED", rail[r], verdict[r].cited))
  /\ UNCHANGED <<transferVars, agentVars, negotiationVars, routerVars>>

\* SettlementExhaustionError is the one exception of the router caught here.
AnswerExhausted(r) ==
  /\ pc[r] = "exhausted"
  /\ verdict[r].listed
  /\ Answer(r, Reply("FAILED", "FAILED", NoRail, verdict[r].cited))
  /\ UNCHANGED <<transferVars, agentVars, negotiationVars, routerVars>>

\* TransferResponse takes a list of rules and nothing else: a verdict that cites
\* them as one string raises here, after whatever the rails did.
AnswerRaises(r) ==
  /\ \/ pc[r] \in {"settled", "exhausted"}
     \/ pc[r] = "negotiated" /\ result[r] # "SETTLING"
  /\ ~verdict[r].listed
  /\ Goto(r, "raised")
  /\ UNCHANGED <<transferVars, agentVars, negotiationVars, routerVars, gatewayOnlyVars>>

-----------------------------------------------------------------------------
(* What happens around the handlers                                        *)

\* A rail decides on a payment it was sent.
RailActs(r) ==
  /\ RailDecides(r)
  /\ UNCHANGED <<agentVars, negotiationVars, gatewayOnlyVars>>

\* A record the handler gave up, or left behind in a crash, reaches the log.
RecordArrives(r) ==
  /\ LateArrival(r)
  /\ UNCHANGED <<routerVars, gatewayOnlyVars>>

\* The gateway process dies and is started again, with the same wiring and an
\* empty GatewayRuntime.  A record handed to the producer may still arrive.
Crash ==
  /\ crashes < MaxCrashes
  /\ crashes' = crashes + 1
  /\ \E logging \in SUBSET {r \in Requests : pc[r] \in DOMAIN AuditSteps} :
       trail' = [r \in Requests |->
                   IF r \in logging THEN trail[r] \cup {PendingRecord(r)} ELSE trail[r]]
  /\ pc' = [r \in Requests |-> IF Running(r) THEN "lost" ELSE pc[r]]
  /\ retryCount' = [i \in Ids |-> 0]
  /\ remembered' = [i \in Ids |-> NoResponse]
  /\ UNCHANGED <<state, rail, seen, agentVars, exitStage, log, result, routerVars,
                 postVars, response>>

Post(r) == RefuseUnconfigured(r) \/ RefuseParameters(r) \/ CreateTransfer(r)

Handle(r) ==
  \/ EntryGate(r) \/ GatherQuotes(r) \/ GateOrQuotesRaise(r)
  \/ Negotiate(r) \/ Decline(r)
  \/ Settle(r) \/ RouteOn(r)
  \/ AnswerDelivered(r) \/ AnswerExhausted(r) \/ AnswerRaises(r)

GatewayInit ==
  /\ pc = [r \in Requests |-> "idle"]
  /\ state = [r \in Requests |-> "ABSENT"]
  /\ rail = [r \in Requests |-> NoRail]
  /\ retryCount = [i \in Ids |-> 0]
  /\ seen = [r \in Requests |-> 0]
  /\ offered = [r \in Requests |-> {}]
  /\ NegotiationStart
  /\ adapters \in (SUBSET Rails) \ {{}}
  /\ papss \in [Requests -> BOOLEAN]
  /\ RouterStart
  /\ configured \in BOOLEAN
  /\ form \in [Requests -> Forms]
  /\ response = [r \in Requests |-> NoResponse]
  /\ remembered = [i \in Ids |-> NoResponse]
  /\ crashes = 0

GatewayNext ==
  \/ \E r \in Requests : Post(r) \/ Handle(r) \/ RailActs(r) \/ RecordArrives(r)
  \/ Crash

\* A handler that runs keeps running: every call it makes outside the process
\* returns or raises in the end.  Nobody has to post, no rail has to decide, no
\* record that was given up has to arrive and no process has to crash.
GatewaySpec ==
  /\ GatewayInit
  /\ [][GatewayNext]_gatewayVars
  /\ \A r \in Requests : WF_gatewayVars(Handle(r))

-----------------------------------------------------------------------------
(* Properties                                                              *)

GatewayPcs ==
  Ended \cup {"idle", "entry_gate", "quotes"} \cup NegotiationPcs \cup RouterPcs

CitedRules ==
  UNION ({v.cited : v \in Verdicts} \cup {Evaluate(f).cited : f \in Forms})

Responses ==
  [status : TransferStates, outcome : Results \cup {"ESCALATE", "DELIVERED", "FAILED"},
   rail : Rails \cup {NoRail}, cited : SUBSET CitedRules]

\* The type invariant of the composed system.
GatewayTypeInvariant ==
  /\ pc \in [Requests -> GatewayPcs]
  /\ NegotiationTypeOK
  /\ RouterTypeOK
  /\ configured \in BOOLEAN
  /\ form \in [Requests -> Forms]
  /\ response \in [Requests -> Responses \cup {NoResponse}]
  /\ remembered \in [Ids -> Responses \cup {NoResponse}]
  /\ crashes \in 0 .. MaxCrashes

\* "If the audit log is unavailable, the transfer is refused rather than settled
\* unrecorded" (SPEC.md US4): whatever fails or crashes, a rail that was told
\* of a payment finds all four actors' records of it in the log.
NoUnauditedSubmission ==
  \A r \in Requests : Submitted(r) # {} => SettlementAudited(r)

\* No money moves for a transfer the entry gate should have stopped: whoever is
\* on the sanctions list, above a limit, or a PEP due for review never reaches a
\* rail, on any path through the agents, the retries or a crash.
OnlyScreenedIsSubmitted ==
  \A r \in Requests : Submitted(r) # {} =>
    /\ form[r].wellFormed /\ form[r].parsed
    /\ ~form[r].senderListed /\ ~form[r].recipientListed
    /\ HasLimit(form[r])
    /\ form[r].amount <= LimitTable.tiers[form[r].tier]
    /\ form[r].prior + form[r].amount <= LimitTable.cumulative
    /\ form[r].pep => form[r].amount <= LimitTable.pepThreshold

\* The rail a transfer was approved for had quoted it, is not one the Sentinel
\* forbade, and is fast enough for the verdict -- still so when the first
\* instruction goes out, and after every retry.
ApprovedRailIsJustified ==
  \A r \in Requests : Submitted(r) # {} =>
    /\ book[r][approved[r]] # "none"
    /\ approved[r] \in offered[r] \ verdict[r].forbidden
    /\ verdict[r].outcome = "PASS" /\ verdict[r] \in SentinelReplies
    /\ verdict[r].maxSeconds # NoLimit =>
         RailTerms[approved[r]].seconds <= verdict[r].maxSeconds

\* What the client is told is what happened, and stays so: the status is the
\* transfer's state, DELIVERED names a rail that paid, any other answer but FAILED
\* means no rail was ever told, and no answer is without the rules it rests on.
\* What a GET shows for an id is such an answer, to a request that drew that id.
AnswerIsTrue ==
  /\ \A r \in Requests : response[r] # NoResponse =>
       /\ response[r].status = state[r]
       /\ response[r].cited # {}
       /\ response[r].outcome = "DELIVERED" =>
            response[r].rail \in adapters /\ book[r][response[r].rail] = "paid"
       /\ response[r].outcome = "FAILED" => adapters \cap Submitted(r) # {}
       /\ response[r].outcome \notin {"DELIVERED", "FAILED"} => Submitted(r) = {}
  /\ \A i \in Ids : remembered[i] # NoResponse =>
       \E r \in Requests : IdOf[r] = i /\ response[r] = remembered[i]

\* Once the client has its answer, or the handler is gone, nothing moves any more:
\* no rail is told of the transfer, its state stays, and its log is closed, but for
\* the one record an exception or a crash may have left on its way.
NothingAfterTheEnd ==
  [][\A r \in Requests : pc[r] \in Ended =>
       /\ pc'[r] = pc[r]
       /\ state'[r] = state[r]
       /\ Submitted(r)' = Submitted(r)
       /\ trail'[r] = trail[r]
       /\ log'[r] # log[r] => pc[r] \in {"raised", "lost"} /\ log'[r] = trail[r]]_gatewayVars

\* The stateDiagram of domain-model.md, with its retry budget, is what the
\* composed gateway does to every transfer.
Lifecycle == INSTANCE TransferLifecycle
               WITH MaxRetries <- MaxSettlementRetries, retriedOn <- alternates

LifecycleImplemented == Lifecycle!Spec

\* The threads use the audit log by its contract, whatever they are interrupted by:
\* a request whose call raised, or that has ended, records nothing more, and no
\* record but its last is missing from the log.
Sink == INSTANCE AuditSink
          WITH Writers <- Requests, Records <- AuditRecords, given <- trail, held <- log,
               over <- {r \in Requests : pc[r] \in Ended}

SinkContractKept == Sink!Spec

\* Every posted request ends: with an answer, a refusal, an error, or a crash.
RequestEnds ==
  \A r \in Requests : (pc[r] = "entry_gate") ~> (pc[r] \in Ended)

-----------------------------------------------------------------------------
(* What the documents say and the code does not do.                        *)

\* SPEC.md US4: "Every terminal transfer state has >= 1 audit record per
\* participating actor" -- so at least one record.
TerminalStatesAudited ==
  \A r \in Requests :
    state[r] \in {"REJECTED", "DELIVERED"} /\ pc[r] = "answered" => log[r] # {}

\* transfers.py 205-206: when every rail failed, "a real outcome, stored and
\* returned like any other -- not a 500 that loses the transfer".
ExhaustionIsAnswered ==
  \A r \in Requests : state[r] = "FAILED" => pc[r] # "raised"

\* router.py 55-56: "settling elsewhere would carry another rail's terms nobody
\* approved".  Every rail told of a payment is one the verdict allows.
ForbiddenRailsUnused ==
  \A r \in Requests : Submitted(r) \cap verdict[r].forbidden = {}
=============================================================================
