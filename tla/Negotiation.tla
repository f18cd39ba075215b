------------------------------ MODULE Negotiation ------------------------------
(***************************************************************************)
(* NegotiationCoordinator.negotiate_and_settle (asco negotiation.py): the  *)
(* Master Orchestrator takes one transfer from INITIATED to SETTLING, to   *)
(* REJECTED, or to a human, and writes an audit record at every turn.      *)
(*                                                                         *)
(* The audit sink is the AuditLogger protocol.  log_record returns only    *)
(* when the record is in the log; when it raises, the record may be in the *)
(* log, arrive there later, or never (a broker whose acknowledgement is    *)
(* lost, a request still on its way).  The exception leaves                *)
(* negotiate_and_settle and the request.                                   *)
(***************************************************************************)
EXTENDS ExitValidator

VARIABLES
  exitStage,   \* [Requests -> ExitStages \cup {"NONE"}]: ExitValidationResult.stage
  trail,       \* [Requests -> SUBSET AuditRecords]: NegotiationResult.audit_records
  log,         \* [Requests -> SUBSET AuditRecords]: the request's records in the audit log
  result       \* [Requests -> Results]: NegotiationResult.outcome

negotiationVars == <<exitStage, trail, log, result>>

Actors == {"compliance_sentinel", "liquidity_strategist", "exit_validator", "orchestrator"}
Results == {"NONE", "SETTLING", "PENDING_REVIEW", "REJECTED"}

\* What the thread is about to record, by the step it is at.
AuditSteps ==
  [audit_verdict     |-> <<"compliance_sentinel",  "assess">>,
   audit_blocked     |-> <<"orchestrator",         "reject">>,
   audit_escalated   |-> <<"orchestrator",         "escalate">>,
   audit_validated   |-> <<"orchestrator",         "validate">>,
   audit_no_proposal |-> <<"orchestrator",         "no_proposal">>,
   audit_proposal    |-> <<"liquidity_strategist", "propose">>,
   audit_exit        |-> <<"exit_validator",       "exit">>,
   audit_settling    |-> <<"orchestrator",         "settle">>]

AuditRecords == [actor : Actors,
                 action : {AuditSteps[s][2] : s \in DOMAIN AuditSteps},
                 override : BOOLEAN]

\* deterministicOverride is set for a failed Strategist and by the exit gate.
Overriding(r) ==
  \/ pc[r] = "audit_no_proposal"
  \/ pc[r] = "audit_exit" /\ Overrides(verdict[r], exitStage[r])

PendingRecord(r) ==
  [actor |-> AuditSteps[pc[r]][1], action |-> AuditSteps[pc[r]][2],
   override |-> Overriding(r)]

\* Mutant: log_record does not wait for the record to be in the log.
RecordedOrNot(r) ==
  /\ trail' = [trail EXCEPT ![r] = @ \cup {PendingRecord(r)}]
  /\ \/ UNCHANGED log
     \/ log' = [log EXCEPT ![r] = @ \cup {PendingRecord(r)}]

\* _record: the record joins the trail first, then goes to the sink.
Recorded(r) ==
  /\ trail' = [trail EXCEPT ![r] = @ \cup {PendingRecord(r)}]
  /\ log' = [log EXCEPT ![r] = @ \cup {PendingRecord(r)}]

\* log_record raises: the record is in the trail, and in the log if it arrives.
NotRecorded(r) ==
  /\ trail' = [trail EXCEPT ![r] = @ \cup {PendingRecord(r)}]
  /\ UNCHANGED log

-----------------------------------------------------------------------------
(* The coordinator's steps, in the order of the source.                    *)

\* Mutant: only a BLOCK is told from a PASS.
AuditVerdictBlocksOnly(r) ==
  /\ pc[r] = "audit_verdict"
  /\ Recorded(r)
  /\ \/ /\ verdict[r].outcome = "BLOCK"
        /\ Transition(r, "REJECTED")
        /\ Goto(r, "audit_blocked")
     \/ /\ verdict[r].outcome # "BLOCK"
        /\ Transition(r, "VALIDATED")
        /\ Goto(r, "audit_validated")
  /\ UNCHANGED <<rail, budgetVars, agentVars, exitStage, result>>

\* The Sentinel's turn is recorded, then its verdict decides the route.
AuditVerdict(r) ==
  /\ pc[r] = "audit_verdict"
  /\ Recorded(r)
  /\ \/ /\ verdict[r].outcome = "BLOCK"
        /\ Transition(r, "REJECTED")
        /\ Goto(r, "audit_blocked")
     \/ /\ verdict[r].outcome = "ESCALATE"
        /\ UNCHANGED state
        /\ Goto(r, "audit_escalated")
     \/ /\ verdict[r].outcome = "PASS"
        /\ Transition(r, "VALIDATED")
        /\ Goto(r, "audit_validated")
  /\ UNCHANGED <<rail, budgetVars, agentVars, exitStage, result>>

\* The NegotiationResult is returned.
Return(r, outcome) ==
  /\ result' = [result EXCEPT ![r] = outcome]
  /\ Goto(r, "negotiated")

AuditBlocked(r) ==
  /\ pc[r] = "audit_blocked"
  /\ Recorded(r)
  /\ Return(r, "REJECTED")
  /\ UNCHANGED <<transferVars, agentVars, exitStage>>

\* An escalation leaves the transfer at INITIATED, for a human.
AuditEscalated(r) ==
  /\ pc[r] = "audit_escalated"
  /\ Recorded(r)
  /\ Return(r, "PENDING_REVIEW")
  /\ UNCHANGED <<transferVars, agentVars, exitStage>>

AuditValidated(r) ==
  /\ pc[r] = "audit_validated"
  /\ Recorded(r)
  /\ Goto(r, "propose")
  /\ UNCHANGED <<transferVars, agentVars, exitStage, result>>

\* A Strategist that failed leaves the transfer at VALIDATED, for a human.
AuditNoProposal(r) ==
  /\ pc[r] = "audit_no_proposal"
  /\ Recorded(r)
  /\ Return(r, "PENDING_REVIEW")
  /\ UNCHANGED <<transferVars, agentVars, exitStage>>

AuditProposal(r) ==
  /\ pc[r] = "audit_proposal"
  /\ Recorded(r)
  /\ Goto(r, "exit")
  /\ UNCHANGED <<transferVars, agentVars, exitStage, result>>

\* The transfer takes the proposed rail, its pacs.008 is built (it may not pass
\* the XSD) and the exit gate is run.
Exit(r) ==
  /\ pc[r] = "exit"
  /\ ~LimitIncomparable(verdict[r], proposal[r], offered[r])
  /\ rail' = [rail EXCEPT ![r] = proposal[r].rail]
  /\ \E schemaOk \in BOOLEAN :
       exitStage' = [exitStage EXCEPT ![r] =
                       ExitStage(verdict[r], proposal[r], offered[r], schemaOk)]
  /\ Goto(r, "audit_exit")
  /\ UNCHANGED <<state, budgetVars, agentVars, trail, log, result>>

\* The gate itself raises, and nothing catches it.
ExitRaises(r) ==
  /\ pc[r] = "exit"
  /\ LimitIncomparable(verdict[r], proposal[r], offered[r])
  /\ Goto(r, "raised")
  /\ UNCHANGED <<transferVars, agentVars, negotiationVars>>

\* Mutant: the transfer the gate refuses is returned untouched.
AuditExitKeepsState(r) ==
  /\ pc[r] = "audit_exit"
  /\ Recorded(r)
  /\ \/ /\ exitStage[r] = "CLEAR"
        /\ Transition(r, "SETTLING")
        /\ Goto(r, "audit_settling")
        /\ UNCHANGED result
     \/ /\ exitStage[r] # "CLEAR"
        /\ UNCHANGED state
        /\ Return(r, "REJECTED")
  /\ UNCHANGED <<rail, budgetVars, agentVars, exitStage>>

AuditExit(r) ==
  /\ pc[r] = "audit_exit"
  /\ Recorded(r)
  /\ \/ /\ exitStage[r] = "CLEAR"
        /\ Transition(r, "SETTLING")
        /\ Goto(r, "audit_settling")
        /\ UNCHANGED result
     \/ /\ exitStage[r] # "CLEAR"
        /\ Transition(r, "REJECTED")
        /\ Return(r, "REJECTED")
  /\ UNCHANGED <<rail, budgetVars, agentVars, exitStage>>

AuditSettling(r) ==
  /\ pc[r] = "audit_settling"
  /\ Recorded(r)
  /\ Return(r, "SETTLING")
  /\ UNCHANGED <<transferVars, agentVars, exitStage>>

\* Mutant: the exception is caught and the transfer left to a human.
AuditUnavailableReviewed(r) ==
  /\ pc[r] \in DOMAIN AuditSteps
  /\ NotRecorded(r)
  /\ Return(r, "PENDING_REVIEW")
  /\ UNCHANGED <<transferVars, agentVars, exitStage>>

\* log_record raised: nothing in the coordinator or the route handler catches it.
AuditUnavailable(r) ==
  /\ pc[r] \in DOMAIN AuditSteps
  /\ NotRecorded(r)
  /\ Goto(r, "raised")
  /\ UNCHANGED <<transferVars, agentVars, exitStage, result>>

\* The broker appends a record after all that the thread has given up.
LateArrival(r) ==
  /\ log[r] # trail[r]
  /\ log' = [log EXCEPT ![r] = trail[r]]
  /\ UNCHANGED <<pc, transferVars, agentVars, exitStage, trail, result>>

NegotiationStep(r) ==
  \/ (Assess(r) \/ Propose(r)) /\ UNCHANGED negotiationVars
  \/ AuditVerdict(r) \/ AuditBlocked(r) \/ AuditEscalated(r) \/ AuditValidated(r)
  \/ AuditNoProposal(r) \/ AuditProposal(r)
  \/ Exit(r) \/ ExitRaises(r) \/ AuditExit(r) \/ AuditSettling(r)
  \/ AuditUnavailable(r)

-----------------------------------------------------------------------------
(* The component on its own: negotiate_and_settle called on fresh transfers *)
(* with any set of rails quoting.                                          *)

negotiationSpecVars == <<pc, transferVars, agentVars, negotiationVars>>

NegotiationStart ==
  /\ verdict = [r \in Requests |-> NoVerdict]
  /\ proposal = [r \in Requests |-> NoProposal]
  /\ exitStage = [r \in Requests |-> "NONE"]
  /\ trail = [r \in Requests |-> {}]
  /\ log = [r \in Requests |-> {}]
  /\ result = [r \in Requests |-> "NONE"]

NegotiationInit ==
  /\ pc = [r \in Requests |-> "assess"]
  /\ state = [r \in Requests |-> "INITIATED"]
  /\ rail = [r \in Requests |-> NoRail]
  /\ retryCount = [i \in Ids |-> 0]
  /\ seen = [r \in Requests |-> 0]
  /\ offered \in [Requests -> SUBSET Rails]
  /\ NegotiationStart

NegotiationNext == \E r \in Requests : NegotiationStep(r) \/ LateArrival(r)

\* Each thread keeps running: the inference client and the audit logger both
\* give up after a timeout, so every call in here returns or raises.  No record
\* that was given up has to arrive.
NegotiationSpec ==
  /\ NegotiationInit
  /\ [][NegotiationNext]_negotiationSpecVars
  /\ \A r \in Requests : WF_negotiationSpecVars(NegotiationStep(r))

-----------------------------------------------------------------------------
(* Properties                                                              *)

NegotiationPcs ==
  {"assess", "reassess", "propose", "repropose", "exit", "negotiated", "raised"}
    \cup DOMAIN AuditSteps

NegotiationTypeOK ==
  /\ TransferTypeOK
  /\ AgentsTypeOK
  /\ exitStage \in [Requests -> ExitStages \cup {"NONE"}]
  /\ trail \in [Requests -> SUBSET AuditRecords]
  /\ log \in [Requests -> SUBSET AuditRecords]
  /\ result \in [Requests -> Results]

\* The type invariant of the negotiation: every variable, and the thread's
\* program counter, stays in its range (no step falls through to an undefined label).
NegotiationTypeInvariant ==
  /\ pc \in [Requests -> NegotiationPcs]
  /\ NegotiationTypeOK

\* verifier.py: the actors a transfer needs a record from before it may settle.
ActorsLogged(r) == {rec.actor : rec \in log[r]}
SettlementAudited(r) == Actors \subseteq ActorsLogged(r)

\* Whatever the model wrote and however often it was asked, a transfer reaches
\* SETTLING only on a cited PASS the model itself gave -- never on the verdict
\* the Sentinel makes up after a timeout or a second malformed reply -- and
\* only on terms that were quoted and that the verdict allows.
FailClosed ==
  \A r \in Requests : state[r] = "SETTLING" =>
    /\ verdict[r] \in SentinelReplies
    /\ verdict[r].outcome = "PASS"
    /\ verdict[r].cited \ {BlankRule} # {}
    /\ proposal[r] \in StrategistReplies
    /\ rail[r] = proposal[r].rail
    /\ rail[r] \in offered[r] \ verdict[r].forbidden
    /\ proposal[r].seconds = RailTerms[rail[r]].seconds
    /\ proposal[r].cost >= RailTerms[rail[r]].fee
    /\ verdict[r].maxSeconds # NoLimit => proposal[r].seconds <= verdict[r].maxSeconds

\* The audit_records a result carries are exactly what the log holds for it, its
\* outcome is the state of the transfer it carries, and the caller is told SETTLING
\* only when all four actors' records are in the log: an unauditable settlement is
\* refused (asco-orchestrator section 4).
ResultMatchesTheLog ==
  \A r \in Requests : pc[r] = "negotiated" =>
    /\ trail[r] = log[r]
    /\ result[r] = "SETTLING" => state[r] = "SETTLING" /\ SettlementAudited(r)
    /\ result[r] = "REJECTED" => state[r] = "REJECTED"
    /\ result[r] = "PENDING_REVIEW" => state[r] \in {"INITIATED", "VALIDATED"}

\* No agent may talk itself out of an escalation: once the verdict escalates or
\* blocks, the Strategist is not consulted and the transfer is not validated.
EscalationIsFinal ==
  [][\A r \in Requests : verdict[r].outcome \in {"ESCALATE", "BLOCK"} =>
       /\ verdict'[r] = verdict[r]
       /\ proposal'[r] = proposal[r]
       /\ state'[r] \in {state[r], "REJECTED"}]_negotiationSpecVars

\* "Malformed JSON -> Re-ask once; second failure -> ESCALATE" (sentinel.py):
\* whatever the model writes, assess ends with a verdict.
SecondFailureEscalates ==
  \A r \in Requests : pc[r] = "raised" => verdict[r] # NoVerdict

\* Every negotiation ends, with a result or an exception: no sequence of bad
\* replies keeps the agents talking.
NegotiationEnds ==
  \A r \in Requests : <>(pc[r] \in {"negotiated", "raised"})
=============================================================================
