-------------------------- MODULE Negotiation_proofs --------------------------
(***************************************************************************)
(* That the negotiation fails closed and settles nothing unrecorded, for   *)
(* any number of concurrent requests, any rail terms and any replies the   *)
(* two models may give.                                                    *)
(*                                                                         *)
(* As in RailRouter_proofs, the lemmas speak of one step of one request.   *)
(***************************************************************************)
EXTENDS Negotiation, TLAPS

\* A cited PASS the model itself gave, and terms that were quoted and allowed.
Justified(r) ==
  /\ verdict[r] \in SentinelReplies /\ IsVerdict(verdict[r]) /\ Citable(verdict[r])
  /\ proposal[r] \in StrategistReplies /\ IsProposal(proposal[r])
  /\ RailEligible(verdict[r], proposal[r], offered[r])

\* Where the thread has its PASS and the transfer is VALIDATED.
Validated == {"audit_validated", "propose", "repropose", "audit_no_proposal",
              "audit_proposal", "exit", "audit_exit"}
Undecided == {"assess", "reassess", "audit_verdict", "audit_escalated"}
Negotiating == Validated \cup Undecided \cup {"audit_blocked", "audit_settling"}

\* The inductive invariant of one request: what the thread knows at each step.
NegotiationInv(r) ==
  /\ pc[r] \in Undecided => state[r] = "INITIATED"
  /\ pc[r] \in Validated =>
       /\ state[r] = "VALIDATED"
       /\ verdict[r] \in SentinelReplies /\ IsVerdict(verdict[r]) /\ Citable(verdict[r])
  /\ pc[r] = "audit_verdict" =>
       /\ verdict[r] \in Verdicts
       /\ verdict[r].outcome = "PASS" => verdict[r] \in SentinelReplies /\ IsVerdict(verdict[r])
  /\ pc[r] \in {"audit_proposal", "exit", "audit_exit"} =>
       proposal[r] \in StrategistReplies /\ IsProposal(proposal[r])
  /\ pc[r] = "audit_exit" =>
       /\ rail[r] = proposal[r].rail
       /\ exitStage[r] = "CLEAR" => RailEligible(verdict[r], proposal[r], offered[r])
  /\ pc[r] = "audit_settling" =>
       Justified(r) /\ state[r] = "SETTLING" /\ rail[r] = proposal[r].rail
  /\ pc[r] \in Negotiating => result[r] = "NONE"
  /\ result[r] = "SETTLING" => Justified(r)

\* ... and whose records are in the log by then.  Only a thread that was left by an
\* exception, or by a crash, may have handed over more than the log holds.
TrailInv(r) ==
  /\ log[r] \subseteq trail[r]
  /\ pc[r] \notin {"raised", "lost"} => log[r] = trail[r]
  /\ pc[r] \in Validated \cup {"audit_settling"} => "compliance_sentinel" \in ActorsLogged(r)
  /\ pc[r] \in {"exit", "audit_exit", "audit_settling"} =>
       "liquidity_strategist" \in ActorsLogged(r)
  /\ pc[r] = "audit_settling" => "exit_validator" \in ActorsLogged(r)
  /\ result[r] = "SETTLING" => SettlementAudited(r)

-----------------------------------------------------------------------------
(* Records                                                                 *)

LEMMA AuditStepValues ==
  /\ DOMAIN AuditSteps = {"audit_verdict", "audit_blocked", "audit_escalated",
                          "audit_validated", "audit_no_proposal", "audit_proposal",
                          "audit_exit", "audit_settling"}
  /\ AuditSteps["audit_verdict"][1] = "compliance_sentinel"
  /\ AuditSteps["audit_proposal"][1] = "liquidity_strategist"
  /\ AuditSteps["audit_exit"][1] = "exit_validator"
  /\ AuditSteps["audit_settling"][1] = "orchestrator"
  BY DEF AuditSteps

LEMMA PendingRecordType ==
  ASSUME NEW r \in Requests, pc[r] \in DOMAIN AuditSteps,
         Overriding(r) \in BOOLEAN
  PROVE  PendingRecord(r) \in AuditRecords
<1>1. AuditSteps[pc[r]][1] \in Actors
  BY DEF AuditSteps, Actors
<1>2. AuditSteps[pc[r]][2] \in {AuditSteps[s][2] : s \in DOMAIN AuditSteps}
  OBVIOUS
<1> QED BY <1>1, <1>2 DEF PendingRecord, AuditRecords

LEMMA OverridingType ==
  ASSUME NEW r \in Requests, exitStage[r] \in ExitStages \cup {"NONE"}
  PROVE  Overriding(r) \in BOOLEAN
  BY DEF Overriding, Overrides

\* A record in the log is its actor's record for ever.
LEMMA RecordedActors ==
  ASSUME NEW r \in Requests, log \in [Requests -> SUBSET AuditRecords],
         log' = [log EXCEPT ![r] = @ \cup {PendingRecord(r)}]
  PROVE  /\ ActorsLogged(r) \subseteq ActorsLogged(r)'
         /\ AuditSteps[pc[r]][1] \in ActorsLogged(r)'
<1>1. log'[r] = log[r] \cup {PendingRecord(r)}
  OBVIOUS
<1>2. ActorsLogged(r) \subseteq ActorsLogged(r)'
  BY <1>1 DEF ActorsLogged
<1>3. PendingRecord(r).actor = AuditSteps[pc[r]][1]
  BY DEF PendingRecord
<1>4. PendingRecord(r).actor \in ActorsLogged(r)'
  BY <1>1 DEF ActorsLogged
<1> QED BY <1>2, <1>3, <1>4

-----------------------------------------------------------------------------
(* One step of one request                                                 *)

LEMMA NegotiationStepTypes ==
  ASSUME NEW r \in Requests, NegotiationTypeOK, NegotiationInv(r), NegotiationStep(r)
  PROVE  NegotiationTypeOK'
<1> USE DEF NegotiationTypeOK, TransferTypeOK, AgentsTypeOK,
            transferVars, budgetVars, agentVars, negotiationVars
<1>0. Overriding(r) \in BOOLEAN
  BY OverridingType
<1>1. CASE Assess(r) /\ UNCHANGED negotiationVars
  BY <1>1 DEF Assess, SentinelConcludes, SentinelTimesOut, SentinelReasks, SentinelGivesUp,
              SentinelRaises, Conclude, Verdicts
<1>2. CASE Propose(r) /\ UNCHANGED negotiationVars
  BY <1>2 DEF Propose, StrategistConcludes, StrategistReasks, StrategistFails, Proposals
<1>3. CASE Exit(r)
  <2>1. proposal[r].rail \in Rails
    BY <1>3 DEF Exit, NegotiationInv, IsProposal
  <2>2. \A v, p, quoted : \A schemaOk \in BOOLEAN :
          ExitStage(v, p, quoted, schemaOk) \in ExitStages
    BY DEF ExitStage, ExitStages
  <2> QED BY <1>3, <2>1, <2>2 DEF Exit
<1>4. CASE ExitRaises(r)
  BY <1>4 DEF ExitRaises
<1>5. ASSUME pc[r] \in DOMAIN AuditSteps, Recorded(r) \/ NotRecorded(r)
      PROVE  /\ trail' \in [Requests -> SUBSET AuditRecords]
             /\ log' \in [Requests -> SUBSET AuditRecords]
  BY <1>0, <1>5, PendingRecordType DEF Recorded, NotRecorded
<1>6. CASE AuditVerdict(r)
  BY <1>5, <1>6, AuditStepValues DEF AuditVerdict, Transition, TransferStates
<1>7. CASE AuditBlocked(r) \/ AuditEscalated(r) \/ AuditNoProposal(r) \/ AuditSettling(r)
  BY <1>5, <1>7, AuditStepValues
    DEF AuditBlocked, AuditEscalated, AuditNoProposal, AuditSettling, Return, Results
<1>8. CASE AuditValidated(r) \/ AuditProposal(r)
  BY <1>5, <1>8, AuditStepValues DEF AuditValidated, AuditProposal
<1>9. CASE AuditExit(r)
  BY <1>5, <1>9, AuditStepValues DEF AuditExit, Transition, TransferStates, Return, Results
<1>10. CASE AuditUnavailable(r)
  BY <1>5, <1>10 DEF AuditUnavailable
<1> QED
  BY <1>1, <1>2, <1>3, <1>4, <1>6, <1>7, <1>8, <1>9, <1>10 DEF NegotiationStep

\* The thread knows what it should at the step it moves to.
LEMMA NegotiationStepInv ==
  ASSUME NEW r \in Requests, NEW S, pc \in [Requests -> S],
         NegotiationTypeOK, NegotiationInv(r), NegotiationStep(r)
  PROVE  NegotiationInv(r)'
<1> USE DEF NegotiationTypeOK, TransferTypeOK, AgentsTypeOK, Goto,
            transferVars, budgetVars, agentVars, negotiationVars,
            Validated, Undecided, Negotiating
<1>1. CASE Assess(r) /\ UNCHANGED negotiationVars
  <2>1. CASE SentinelConcludes(r)
    BY <1>1, <2>1 DEF SentinelConcludes, Conclude, NegotiationInv, Verdicts, Justified
  <2>2. CASE SentinelTimesOut(r) \/ SentinelGivesUp(r)
    BY <1>1, <2>2 DEF SentinelTimesOut, SentinelGivesUp, Conclude, NegotiationInv, Verdicts,
                      TimeoutVerdict, MalformedVerdict, FallbackVerdict, Justified
  <2>3. CASE SentinelReasks(r) \/ SentinelRaises(r)
    BY <1>1, <2>3 DEF SentinelReasks, SentinelRaises, NegotiationInv, Justified
  <2> QED BY <1>1, <2>1, <2>2, <2>3 DEF Assess
<1>2. CASE Propose(r) /\ UNCHANGED negotiationVars
  BY <1>2 DEF Propose, StrategistConcludes, StrategistReasks, StrategistFails,
              NegotiationInv, Justified
<1>3. CASE Exit(r)
  <2>1. PICK schemaOk \in BOOLEAN :
          exitStage'[r] = ExitStage(verdict[r], proposal[r], offered[r], schemaOk)
    BY <1>3 DEF Exit
  <2>2. exitStage'[r] = "CLEAR" => RailEligible(verdict[r], proposal[r], offered[r])
    BY <1>3, <2>1 DEF ExitStage, Exit, NegotiationInv
  <2> QED BY <1>3, <2>2 DEF Exit, NegotiationInv, Justified
<1>4. CASE ExitRaises(r)
  BY <1>4 DEF ExitRaises, NegotiationInv, Justified
<1>5. CASE AuditVerdict(r)
  BY <1>5 DEF AuditVerdict, Recorded, Transition, NegotiationInv, Justified, IsVerdict, Citable
<1>6. CASE AuditBlocked(r) \/ AuditEscalated(r) \/ AuditNoProposal(r)
  BY <1>6 DEF AuditBlocked, AuditEscalated, AuditNoProposal, Recorded, Return,
              NegotiationInv, Justified
<1>7. CASE AuditValidated(r) \/ AuditProposal(r)
  BY <1>7 DEF AuditValidated, AuditProposal, Recorded, NegotiationInv, Justified
<1>8. CASE AuditExit(r)
  BY <1>8 DEF AuditExit, Recorded, Transition, Return, NegotiationInv, Justified
<1>9. CASE AuditSettling(r)
  BY <1>9 DEF AuditSettling, Recorded, Return, NegotiationInv, Justified
<1>10. CASE AuditUnavailable(r)
  BY <1>10 DEF AuditUnavailable, NotRecorded, NegotiationInv, Justified
<1> QED
  BY <1>1, <1>2, <1>3, <1>4, <1>5, <1>6, <1>7, <1>8, <1>9, <1>10 DEF NegotiationStep

\* No record the thread has waited for is missing from the log.
LEMMA NegotiationStepTrail ==
  ASSUME NEW r \in Requests, NEW S, pc \in [Requests -> S],
         NegotiationTypeOK, NegotiationInv(r), TrailInv(r), NegotiationStep(r)
  PROVE  TrailInv(r)'
<1> USE DEF NegotiationTypeOK, Goto, agentVars, negotiationVars,
            Validated, Undecided, Negotiating
<1>0. pc[r] \notin {"raised", "lost"} /\ log[r] = trail[r]
  <2>1. pc[r] \notin {"raised", "lost"}
    BY AuditStepValues DEF NegotiationStep, Assess, SentinelConcludes, SentinelTimesOut,
       SentinelReasks, SentinelGivesUp, SentinelRaises, Conclude, Propose, StrategistConcludes,
       StrategistReasks, StrategistFails, Exit, ExitRaises, AuditVerdict, AuditBlocked,
       AuditEscalated, AuditValidated, AuditNoProposal, AuditProposal, AuditExit, AuditSettling,
       AuditUnavailable
  <2> QED BY <2>1 DEF TrailInv
<1>1. ASSUME log'[r] = log[r]
      PROVE  ActorsLogged(r)' = ActorsLogged(r)
  BY <1>1 DEF ActorsLogged
<1>2. CASE Assess(r) /\ UNCHANGED negotiationVars
  BY <1>0, <1>1, <1>2 DEF Assess, SentinelConcludes, SentinelTimesOut, SentinelReasks,
                    SentinelGivesUp, SentinelRaises, Conclude, TrailInv, SettlementAudited
<1>3. CASE Propose(r) /\ UNCHANGED negotiationVars
  BY <1>0, <1>1, <1>3 DEF Propose, StrategistConcludes, StrategistReasks, StrategistFails,
                    TrailInv, SettlementAudited
<1>4. CASE Exit(r) \/ ExitRaises(r)
  BY <1>0, <1>1, <1>4 DEF Exit, ExitRaises, TrailInv, NegotiationInv, SettlementAudited
<1>5. ASSUME Recorded(r)
      PROVE  /\ ActorsLogged(r) \subseteq ActorsLogged(r)'
             /\ AuditSteps[pc[r]][1] \in ActorsLogged(r)'
             /\ log'[r] = trail'[r]
  BY <1>0, <1>5, RecordedActors DEF Recorded
<1>6. CASE AuditVerdict(r)
  BY <1>5, <1>6, AuditStepValues DEF AuditVerdict, TrailInv, NegotiationInv
<1>7. CASE AuditBlocked(r) \/ AuditEscalated(r) \/ AuditNoProposal(r)
  BY <1>5, <1>7 DEF AuditBlocked, AuditEscalated, AuditNoProposal, Return, TrailInv
<1>8. CASE AuditValidated(r) \/ AuditProposal(r)
  BY <1>5, <1>8, AuditStepValues DEF AuditValidated, AuditProposal, TrailInv, NegotiationInv
<1>9. CASE AuditExit(r)
  BY <1>5, <1>9, AuditStepValues DEF AuditExit, Return, TrailInv, NegotiationInv
<1>10. CASE AuditSettling(r)
  BY <1>5, <1>10, AuditStepValues DEF AuditSettling, Return, TrailInv, SettlementAudited, Actors
<1>11. CASE AuditUnavailable(r)
  <2>1. log'[r] = log[r] /\ log'[r] \subseteq trail'[r]
    BY <1>0, <1>11 DEF AuditUnavailable, NotRecorded
  <2> QED BY <1>1, <1>11, <2>1 DEF AuditUnavailable, TrailInv, SettlementAudited
<1> QED
  BY <1>2, <1>3, <1>4, <1>6, <1>7, <1>8, <1>9, <1>10, <1>11 DEF NegotiationStep

\* What arrives late was handed over before, and takes nothing out of the log.
LEMMA LateArrivalTrail ==
  ASSUME NEW r \in Requests, NegotiationTypeOK, TrailInv(r), LateArrival(r)
  PROVE  /\ log' \in [Requests -> SUBSET AuditRecords]
         /\ TrailInv(r)'
         /\ \A s \in Requests : s # r => log'[s] = log[s]
<1> USE DEF NegotiationTypeOK, LateArrival
<1>1. log'[r] = trail[r] /\ log[r] \subseteq log'[r]
  BY DEF TrailInv
<1>2. ActorsLogged(r) \subseteq ActorsLogged(r)'
  BY <1>1 DEF ActorsLogged
<1>3. TrailInv(r)'
  BY <1>1, <1>2 DEF TrailInv, SettlementAudited
<1> QED BY <1>3

\* A step moves the thread to a label of the negotiation.
LEMMA NegotiationStepPc ==
  ASSUME NEW r \in Requests, NEW S, pc \in [Requests -> S], NegotiationPcs \subseteq S,
         NegotiationStep(r)
  PROVE  pc' \in [Requests -> S]
<1> USE AuditStepValues DEF NegotiationPcs, Goto
<1>1. CASE Assess(r)
  BY <1>1 DEF Assess, SentinelConcludes, SentinelTimesOut, SentinelReasks, SentinelGivesUp,
              SentinelRaises, Conclude
<1>2. CASE Propose(r)
  BY <1>2 DEF Propose, StrategistConcludes, StrategistReasks, StrategistFails
<1>3. CASE Exit(r) \/ ExitRaises(r) \/ AuditUnavailable(r)
  BY <1>3 DEF Exit, ExitRaises, AuditUnavailable
<1>4. CASE AuditVerdict(r) \/ AuditExit(r)
  BY <1>4 DEF AuditVerdict, AuditExit, Return
<1>5. CASE AuditBlocked(r) \/ AuditEscalated(r) \/ AuditNoProposal(r) \/ AuditSettling(r)
  BY <1>5 DEF AuditBlocked, AuditEscalated, AuditNoProposal, AuditSettling, Return
<1>6. CASE AuditValidated(r) \/ AuditProposal(r)
  BY <1>6 DEF AuditValidated, AuditProposal
<1> QED
  BY <1>1, <1>2, <1>3, <1>4, <1>5, <1>6 DEF NegotiationStep

\* A request's invariants are about its own thread only.
LEMMA NegotiationFrame ==
  ASSUME NEW s \in Requests, NegotiationInv(s), TrailInv(s),
         pc'[s] = pc[s], state'[s] = state[s], rail'[s] = rail[s],
         offered'[s] = offered[s], verdict'[s] = verdict[s], proposal'[s] = proposal[s],
         exitStage'[s] = exitStage[s], trail'[s] = trail[s], log'[s] = log[s],
         result'[s] = result[s]
  PROVE  NegotiationInv(s)' /\ TrailInv(s)'
<1>1. Justified(s)' = Justified(s)
  BY DEF Justified
<1>2. ActorsLogged(s)' = ActorsLogged(s)
  BY DEF ActorsLogged
<1>3. NegotiationInv(s)'
  BY <1>1 DEF NegotiationInv
<1>4. TrailInv(s)'
  BY <1>2 DEF TrailInv, SettlementAudited
<1> QED BY <1>3, <1>4

LEMMA NegotiationStepOthers ==
  ASSUME NEW r \in Requests, NEW s \in Requests, r # s,
         NEW S, pc \in [Requests -> S], NegotiationTypeOK, NegotiationStep(r)
  PROVE  /\ pc'[s] = pc[s] /\ state'[s] = state[s] /\ rail'[s] = rail[s]
         /\ offered'[s] = offered[s] /\ verdict'[s] = verdict[s]
         /\ proposal'[s] = proposal[s] /\ exitStage'[s] = exitStage[s]
         /\ trail'[s] = trail[s] /\ log'[s] = log[s] /\ result'[s] = result[s]
<1> USE DEF NegotiationTypeOK, TransferTypeOK, AgentsTypeOK, Goto, Recorded, NotRecorded,
            transferVars, budgetVars, agentVars, negotiationVars
<1>1. CASE Assess(r) /\ UNCHANGED negotiationVars
  BY <1>1 DEF Assess, SentinelConcludes, SentinelTimesOut, SentinelReasks, SentinelGivesUp,
              SentinelRaises, Conclude
<1>2. CASE Propose(r) /\ UNCHANGED negotiationVars
  BY <1>2 DEF Propose, StrategistConcludes, StrategistReasks, StrategistFails
<1>3. CASE Exit(r) \/ ExitRaises(r) \/ AuditUnavailable(r)
  BY <1>3 DEF Exit, ExitRaises, AuditUnavailable
<1>4. CASE AuditVerdict(r) \/ AuditExit(r)
  BY <1>4 DEF AuditVerdict, AuditExit, Transition, Return
<1>5. CASE AuditBlocked(r) \/ AuditEscalated(r) \/ AuditNoProposal(r) \/ AuditSettling(r)
  BY <1>5 DEF AuditBlocked, AuditEscalated, AuditNoProposal, AuditSettling, Return
<1>6. CASE AuditValidated(r) \/ AuditProposal(r)
  BY <1>6 DEF AuditValidated, AuditProposal
<1> QED
  BY <1>1, <1>2, <1>3, <1>4, <1>5, <1>6 DEF NegotiationStep

-----------------------------------------------------------------------------
(* The component on its own.  There a transfer at SETTLING stays there, so *)
(* what let it in still holds of it.                                       *)

SettlingInv(r) ==
  state[r] = "SETTLING" =>
    /\ pc[r] \in {"audit_settling", "negotiated", "raised"}
    /\ Justified(r) /\ rail[r] = proposal[r].rail

RequestInv(r) == NegotiationInv(r) /\ TrailInv(r) /\ SettlingInv(r)

NegotiationSystemInv ==
  /\ NegotiationTypeInvariant
  /\ \A r \in Requests : RequestInv(r)

LEMMA NegotiationInitInv == NegotiationInit => NegotiationSystemInv
<1> SUFFICES ASSUME NegotiationInit PROVE NegotiationSystemInv
  OBVIOUS
<1> USE DEF NegotiationInit, NegotiationStart
<1>1. NegotiationTypeInvariant
  BY DEF NegotiationTypeInvariant, NegotiationTypeOK, TransferTypeOK, AgentsTypeOK,
         NegotiationPcs, TransferStates, MaxSettlementRetries, Results
<1>2. ASSUME NEW r \in Requests PROVE RequestInv(r)
  BY DEF RequestInv, NegotiationInv, TrailInv, SettlingInv, Validated, Undecided, Negotiating
<1> QED BY <1>1, <1>2 DEF NegotiationSystemInv

LEMMA NegotiationStepSettling ==
  ASSUME NEW r \in Requests, NEW S, pc \in [Requests -> S],
         NegotiationTypeOK, RequestInv(r), NegotiationStep(r)
  PROVE  SettlingInv(r)'
<1> USE DEF NegotiationTypeOK, TransferTypeOK, AgentsTypeOK, Goto,
            transferVars, budgetVars, agentVars, negotiationVars, RequestInv
<1>0. NegotiationInv(r)'
  BY NegotiationStepInv
<1>1. CASE Assess(r) \/ Propose(r)
  BY <1>1 DEF Assess, SentinelConcludes, SentinelTimesOut, SentinelReasks, SentinelGivesUp,
              SentinelRaises, Conclude, Propose, StrategistConcludes, StrategistReasks,
              StrategistFails, SettlingInv
<1>2. CASE Exit(r) \/ ExitRaises(r)
  BY <1>2 DEF Exit, ExitRaises, SettlingInv
<1>3. CASE AuditVerdict(r)
  BY <1>3 DEF AuditVerdict, Transition, SettlingInv, NegotiationInv, Undecided
<1>4. CASE AuditBlocked(r) \/ AuditEscalated(r) \/ AuditNoProposal(r)
  BY <1>4 DEF AuditBlocked, AuditEscalated, AuditNoProposal, Return, SettlingInv
<1>5. CASE AuditValidated(r) \/ AuditProposal(r)
  BY <1>5 DEF AuditValidated, AuditProposal, SettlingInv
<1>6. CASE AuditExit(r)
  <2>1. pc'[r] = "audit_settling" \/ state'[r] = "REJECTED"
    BY <1>6 DEF AuditExit, Transition
  <2> QED BY <1>0, <2>1 DEF NegotiationInv, SettlingInv
<1>7. CASE AuditSettling(r) \/ AuditUnavailable(r)
  BY <1>7 DEF AuditSettling, AuditUnavailable, Return, SettlingInv, Justified
<1> QED
  BY <1>1, <1>2, <1>3, <1>4, <1>5, <1>6, <1>7 DEF NegotiationStep

LEMMA NegotiationInvInductive ==
  NegotiationSystemInv /\ [NegotiationNext]_negotiationSpecVars => NegotiationSystemInv'
<1> SUFFICES ASSUME NegotiationSystemInv, [NegotiationNext]_negotiationSpecVars
             PROVE  NegotiationSystemInv'
  OBVIOUS
<1> USE DEF NegotiationSystemInv, NegotiationTypeInvariant
<1>1. ASSUME NEW r \in Requests, NegotiationStep(r) PROVE NegotiationSystemInv'
  <2>1. NegotiationTypeOK'
    BY <1>1, NegotiationStepTypes DEF RequestInv
  <2>2. pc' \in [Requests -> NegotiationPcs]
    BY <1>1, NegotiationStepPc
  <2>3. RequestInv(r)'
    BY <1>1, NegotiationStepInv, NegotiationStepTrail, NegotiationStepSettling DEF RequestInv
  <2>4. ASSUME NEW s \in Requests, s # r PROVE RequestInv(s)'
    BY <1>1, <2>4, NegotiationStepOthers, NegotiationFrame DEF RequestInv, SettlingInv, Justified
  <2> QED BY <2>1, <2>2, <2>3, <2>4
<1>2. ASSUME NEW r \in Requests, LateArrival(r) PROVE NegotiationSystemInv'
  <2> USE DEF RequestInv, LateArrival, transferVars, budgetVars, agentVars
  <2>1. NegotiationTypeInvariant' /\ TrailInv(r)' /\ \A s \in Requests : s # r => log'[s] = log[s]
    BY <1>2, LateArrivalTrail DEF NegotiationTypeOK, TransferTypeOK, AgentsTypeOK
  <2>2. ASSUME NEW s \in Requests PROVE NegotiationInv(s)' /\ SettlingInv(s)'
    BY <1>2 DEF NegotiationInv, SettlingInv, Justified
  <2>3. ASSUME NEW s \in Requests, s # r PROVE TrailInv(s)'
    BY <1>2, <2>1, <2>3, NegotiationFrame
  <2> QED BY <2>1, <2>2, <2>3
<1>3. CASE UNCHANGED negotiationSpecVars
  <2> USE <1>3 DEF negotiationSpecVars, transferVars, budgetVars, agentVars, negotiationVars
  <2>1. NegotiationTypeInvariant'
    BY DEF NegotiationTypeOK, TransferTypeOK, AgentsTypeOK
  <2>2. ASSUME NEW s \in Requests PROVE RequestInv(s)'
    BY NegotiationFrame DEF RequestInv, SettlingInv, Justified
  <2> QED BY <2>1, <2>2
<1> QED BY <1>1, <1>2, <1>3 DEF NegotiationNext

\* The invariant holds of every request, however its replies and records come.
THEOREM NegotiationInvAlways == NegotiationSpec => []NegotiationSystemInv
  BY NegotiationInitInv, NegotiationInvInductive, PTL DEF NegotiationSpec

-----------------------------------------------------------------------------
(* What the invariant is for.                                              *)

\* Every variable of the negotiation keeps its type: no record, verdict or
\* proposal the code does not accept is ever held.
THEOREM NegotiationTypesHold == NegotiationSpec => []NegotiationTypeInvariant
<1>1. NegotiationSystemInv => NegotiationTypeInvariant
  BY DEF NegotiationSystemInv
<1> QED BY <1>1, NegotiationInvAlways, PTL

\* Whatever the models reply, SETTLING rests on a PASS the model gave and on
\* terms that were quoted and allowed.
THEOREM NegotiationFailsClosed == NegotiationSpec => []FailClosed
<1>1. NegotiationSystemInv => FailClosed
  BY DEF NegotiationSystemInv, RequestInv, SettlingInv, Justified, Citable, IsVerdict,
         RailEligible, Quoted, FailClosed
<1> QED BY <1>1, NegotiationInvAlways, PTL

-----------------------------------------------------------------------------
(* What is returned, and what an escalation leaves to do.                  *)

\* The Sentinel has not spoken before its turn, and a verdict that does not pass leads
\* to a human or the end.
OutcomeInv(r) ==
  /\ pc[r] \in {"assess", "reassess"} => verdict[r] = NoVerdict
  /\ pc[r] = "audit_blocked" => state[r] = "REJECTED"
  /\ pc[r] = "negotiated" =>
       /\ result[r] = "SETTLING" => state[r] = "SETTLING"
       /\ result[r] = "REJECTED" => state[r] = "REJECTED"
       /\ result[r] = "PENDING_REVIEW" => state[r] \in {"INITIATED", "VALIDATED"}

LEMMA OutcomeStep ==
  ASSUME NEW r \in Requests, NEW S, pc \in [Requests -> S],
         NegotiationTypeOK, NegotiationInv(r), OutcomeInv(r), NegotiationStep(r)
  PROVE  OutcomeInv(r)'
<1> USE DEF NegotiationTypeOK, TransferTypeOK, AgentsTypeOK, Goto,
            transferVars, budgetVars, agentVars, negotiationVars, Validated, Undecided
<1>1. CASE Assess(r) /\ UNCHANGED negotiationVars
  BY <1>1 DEF Assess, SentinelConcludes, SentinelTimesOut, SentinelReasks, SentinelGivesUp,
              SentinelRaises, Conclude, OutcomeInv
<1>2. CASE Propose(r) /\ UNCHANGED negotiationVars
  BY <1>2 DEF Propose, StrategistConcludes, StrategistReasks, StrategistFails, OutcomeInv
<1>3. CASE Exit(r) \/ ExitRaises(r) \/ AuditUnavailable(r)
  BY <1>3 DEF Exit, ExitRaises, AuditUnavailable, OutcomeInv
<1>4. CASE AuditVerdict(r)
  BY <1>4 DEF AuditVerdict, Transition, OutcomeInv
<1>5. CASE AuditBlocked(r)
  BY <1>5 DEF AuditBlocked, Return, OutcomeInv
<1>6. CASE AuditEscalated(r) \/ AuditNoProposal(r)
  BY <1>6 DEF AuditEscalated, AuditNoProposal, Return, OutcomeInv, NegotiationInv
<1>7. CASE AuditValidated(r) \/ AuditProposal(r)
  BY <1>7 DEF AuditValidated, AuditProposal, OutcomeInv
<1>8. CASE AuditExit(r)
  BY <1>8 DEF AuditExit, Transition, Return, OutcomeInv
<1>9. CASE AuditSettling(r)
  BY <1>9 DEF AuditSettling, Return, OutcomeInv, NegotiationInv
<1> QED
  BY <1>1, <1>2, <1>3, <1>4, <1>5, <1>6, <1>7, <1>8, <1>9 DEF NegotiationStep

LEMMA OutcomeOthers ==
  ASSUME NEW r \in Requests, NEW s \in Requests, r # s, NEW S, pc \in [Requests -> S],
         NegotiationTypeOK, OutcomeInv(s), NegotiationStep(r)
  PROVE  OutcomeInv(s)'
<1>1. /\ pc'[s] = pc[s] /\ state'[s] = state[s] /\ verdict'[s] = verdict[s]
      /\ result'[s] = result[s]
  BY NegotiationStepOthers
<1> QED BY <1>1 DEF OutcomeInv

ReportInv == NegotiationSystemInv /\ \A r \in Requests : OutcomeInv(r)

LEMMA ReportInit == NegotiationInit => ReportInv
<1>1. ASSUME NegotiationInit, NEW r \in Requests PROVE OutcomeInv(r)
  BY <1>1 DEF NegotiationInit, NegotiationStart, OutcomeInv
<1> QED BY <1>1, NegotiationInitInv DEF ReportInv

LEMMA ReportInductive ==
  ReportInv /\ [NegotiationNext]_negotiationSpecVars => ReportInv'
<1> SUFFICES ASSUME ReportInv, [NegotiationNext]_negotiationSpecVars PROVE ReportInv'
  OBVIOUS
<1>1. NegotiationSystemInv'
  BY NegotiationInvInductive DEF ReportInv
<1>2. ASSUME NEW r \in Requests, NegotiationStep(r), NEW s \in Requests PROVE OutcomeInv(s)'
  <2>1. /\ NegotiationTypeOK /\ pc \in [Requests -> NegotiationPcs]
        /\ NegotiationInv(r) /\ OutcomeInv(r) /\ OutcomeInv(s)
    BY DEF ReportInv, NegotiationSystemInv, NegotiationTypeInvariant, RequestInv
  <2>2. CASE s = r
    BY <1>2, <2>1, <2>2, OutcomeStep
  <2>3. CASE s # r
    BY <1>2, <2>1, <2>3, OutcomeOthers
  <2> QED BY <2>2, <2>3
<1>3. ASSUME UNCHANGED negotiationSpecVars \/ \E r \in Requests : LateArrival(r),
             NEW s \in Requests
      PROVE  OutcomeInv(s)'
  BY <1>3 DEF ReportInv, OutcomeInv, LateArrival, negotiationSpecVars, transferVars, agentVars,
              negotiationVars
<1> QED BY <1>1, <1>2, <1>3 DEF ReportInv, NegotiationNext

\* What the thread has recorded, and what state it leaves the transfer in, at every step.
THEOREM ReportInvAlways == NegotiationSpec => []ReportInv
  BY ReportInit, ReportInductive, PTL DEF NegotiationSpec

\* The records and the outcome that negotiate_and_settle returns are the log's and the
\* transfer's, and SETTLING is never reported before all four actors' records are there.
THEOREM ResultsAreTrue == NegotiationSpec => []ResultMatchesTheLog
<1>1. ReportInv => ResultMatchesTheLog
  BY DEF ReportInv, NegotiationSystemInv, RequestInv, TrailInv, OutcomeInv, ResultMatchesTheLog
<1> QED BY <1>1, ReportInvAlways, PTL

\* A thread with a verdict that does not pass asks no agent again and validates nothing.
LEMMA EscalatedNegotiationStep ==
  ASSUME NEW r \in Requests, NegotiationTypeOK, NEW S, pc \in [Requests -> S],
         NegotiationInv(r), OutcomeInv(r), NegotiationStep(r),
         verdict[r].outcome \in {"ESCALATE", "BLOCK"}
  PROVE  /\ verdict'[r] = verdict[r]
         /\ proposal'[r] = proposal[r]
         /\ state'[r] \in {state[r], "REJECTED"}
<1>1. pc[r] \notin {"assess", "reassess"}
  BY DEF OutcomeInv, NoVerdict
<1>2. pc[r] \notin Validated \cup {"audit_settling"}
  BY DEF NegotiationInv, Justified, Citable
<1>3. AuditVerdict(r) \/ AuditBlocked(r) \/ AuditEscalated(r) \/ AuditUnavailable(r)
  BY <1>1, <1>2
    DEF NegotiationStep, Assess, SentinelConcludes, SentinelTimesOut, SentinelReasks,
        SentinelGivesUp, SentinelRaises, Propose, StrategistConcludes, StrategistReasks,
        StrategistFails, Exit, ExitRaises, AuditValidated, AuditNoProposal, AuditProposal,
        AuditExit, AuditSettling, Validated
<1>4. CASE AuditVerdict(r)
  BY <1>4 DEF AuditVerdict, Transition, agentVars, NegotiationTypeOK, TransferTypeOK
<1>5. CASE AuditBlocked(r) \/ AuditEscalated(r) \/ AuditUnavailable(r)
  BY <1>5 DEF AuditBlocked, AuditEscalated, AuditUnavailable, transferVars, agentVars
<1> QED BY <1>3, <1>4, <1>5

LEMMA EscalationStep ==
  ASSUME ReportInv, NegotiationNext, NEW r \in Requests,
         verdict[r].outcome \in {"ESCALATE", "BLOCK"}
  PROVE  /\ verdict'[r] = verdict[r]
         /\ proposal'[r] = proposal[r]
         /\ state'[r] \in {state[r], "REJECTED"}
<1>1. PICK t \in Requests : NegotiationStep(t) \/ LateArrival(t)
  BY DEF NegotiationNext
<1>2. /\ NegotiationTypeOK /\ pc \in [Requests -> NegotiationPcs]
      /\ NegotiationInv(r) /\ OutcomeInv(r)
  BY DEF ReportInv, NegotiationSystemInv, NegotiationTypeInvariant, RequestInv
<1>3. CASE LateArrival(t)
  BY <1>3 DEF LateArrival, transferVars, agentVars
<1>4. CASE NegotiationStep(t) /\ t # r
  BY <1>2, <1>4, NegotiationStepOthers
<1>5. CASE NegotiationStep(t) /\ t = r
  BY <1>2, <1>5, EscalatedNegotiationStep
<1> QED BY <1>1, <1>3, <1>4, <1>5

\* No agent talks itself out of an escalation or a block.
THEOREM EscalationStands == NegotiationSpec => EscalationIsFinal
<1>1. ReportInv /\ [NegotiationNext]_negotiationSpecVars =>
        [\A r \in Requests : verdict[r].outcome \in {"ESCALATE", "BLOCK"} =>
           /\ verdict'[r] = verdict[r]
           /\ proposal'[r] = proposal[r]
           /\ state'[r] \in {state[r], "REJECTED"}]_negotiationSpecVars
  BY EscalationStep
<1> QED BY <1>1, ReportInvAlways, PTL DEF NegotiationSpec, EscalationIsFinal
-----------------------------------------------------------------------------
(* The agents come to their end.                                           *)

\* How many steps, at the most, negotiate_and_settle still has before it returns.
NegotiationPhase ==
  [assess |-> 10, reassess |-> 9, audit_verdict |-> 8,
   audit_blocked |-> 7, audit_escalated |-> 7, audit_validated |-> 7,
   propose |-> 6, repropose |-> 5, audit_no_proposal |-> 4, audit_proposal |-> 4,
   exit |-> 3, audit_exit |-> 2, audit_settling |-> 1]
NegotiationLeft(r) ==
  IF pc[r] \in DOMAIN NegotiationPhase THEN NegotiationPhase[pc[r]] ELSE 0

LEMMA NegotiationPhaseValues ==
  /\ DOMAIN NegotiationPhase = Negotiating
  /\ NegotiationPhase["assess"] = 10 /\ NegotiationPhase["reassess"] = 9
  /\ NegotiationPhase["audit_verdict"] = 8 /\ NegotiationPhase["audit_blocked"] = 7
  /\ NegotiationPhase["audit_escalated"] = 7 /\ NegotiationPhase["audit_validated"] = 7
  /\ NegotiationPhase["propose"] = 6 /\ NegotiationPhase["repropose"] = 5
  /\ NegotiationPhase["audit_no_proposal"] = 4 /\ NegotiationPhase["audit_proposal"] = 4
  /\ NegotiationPhase["exit"] = 3 /\ NegotiationPhase["audit_exit"] = 2
  /\ NegotiationPhase["audit_settling"] = 1
  BY DEF NegotiationPhase, Negotiating, Validated, Undecided

LEMMA NegotiationPhaseBounds ==
  \A label \in Negotiating : NegotiationPhase[label] \in 1 .. 10
  BY NegotiationPhaseValues DEF Negotiating, Validated, Undecided

LEMMA NegotiationLeftType ==
  ASSUME NEW r \in Requests
  PROVE  NegotiationLeft(r) \in Nat /\ NegotiationLeft(r)' \in Nat
<1>1. \A label : (IF label \in DOMAIN NegotiationPhase THEN NegotiationPhase[label] ELSE 0) \in Nat
  BY NegotiationPhaseValues, NegotiationPhaseBounds
<1>2. NegotiationLeft(r)' =
        (IF pc'[r] \in DOMAIN NegotiationPhase THEN NegotiationPhase[pc'[r]] ELSE 0)
  BY DEF NegotiationLeft, NegotiationPhase
<1> QED BY <1>1, <1>2 DEF NegotiationLeft

\* An agent is asked again once, no more, and every turn is recorded once.
LEMMA NegotiationStepDescends ==
  ASSUME NEW r \in Requests, NEW S, pc \in [Requests -> S], NegotiationStep(r)
  PROVE  /\ pc[r] \in Negotiating /\ pc'[r] \in Negotiating \cup {"negotiated", "raised"}
         /\ NegotiationLeft(r)' < NegotiationLeft(r)
<1> DEFINE Falls ==
      \/ pc'[r] \in {"negotiated", "raised"}
      \/ pc'[r] \in Negotiating /\ NegotiationPhase[pc'[r]] < NegotiationPhase[pc[r]]
<1> USE NegotiationPhaseValues DEF Goto, Negotiating, Validated, Undecided
<1>1. ASSUME Assess(r) PROVE pc[r] \in Negotiating /\ Falls
  BY <1>1 DEF Assess, SentinelConcludes, SentinelTimesOut, SentinelReasks, SentinelGivesUp,
              SentinelRaises, Conclude
<1>2. ASSUME Propose(r) PROVE pc[r] \in Negotiating /\ Falls
  BY <1>2 DEF Propose, StrategistConcludes, StrategistReasks, StrategistFails
<1>3. ASSUME Exit(r) \/ ExitRaises(r) PROVE pc[r] \in Negotiating /\ Falls
  BY <1>3 DEF Exit, ExitRaises
<1>4. ASSUME AuditVerdict(r) \/ AuditExit(r) PROVE pc[r] \in Negotiating /\ Falls
  BY <1>4 DEF AuditVerdict, AuditExit, Return
<1>5. ASSUME AuditBlocked(r) \/ AuditEscalated(r) \/ AuditNoProposal(r) \/ AuditSettling(r)
      PROVE  pc[r] \in Negotiating /\ Falls
  BY <1>5 DEF AuditBlocked, AuditEscalated, AuditNoProposal, AuditSettling, Return
<1>6. ASSUME AuditValidated(r) \/ AuditProposal(r) PROVE pc[r] \in Negotiating /\ Falls
  BY <1>6 DEF AuditValidated, AuditProposal
<1>7. ASSUME AuditUnavailable(r) PROVE pc[r] \in Negotiating /\ Falls
  BY <1>7, AuditStepValues DEF AuditUnavailable
<1>8. pc[r] \in Negotiating /\ Falls
  BY <1>1, <1>2, <1>3, <1>4, <1>5, <1>6, <1>7 DEF NegotiationStep
<1>9. /\ NegotiationLeft(r) = NegotiationPhase[pc[r]]
      /\ NegotiationLeft(r)' =
           IF pc'[r] \in Negotiating THEN NegotiationPhase[pc'[r]] ELSE 0
  <2>1. NegotiationPhase' = NegotiationPhase
    BY DEF NegotiationPhase
  <2> QED BY <1>8, <2>1 DEF NegotiationLeft
<1>10. NegotiationPhase[pc[r]] \in 1 .. 10
  BY <1>8, NegotiationPhaseBounds
<1> QED BY <1>8, <1>9, <1>10

\* No sequence of bad replies, timeouts and re-asks keeps the agents talking: each step
\* of a request brings its result nearer, and no step of another sets it back.
THEOREM NegotiationDescends ==
  NegotiationSpec =>
    [][\A r \in Requests :
         /\ NegotiationLeft(r)' <= NegotiationLeft(r)
         /\ NegotiationStep(r) => NegotiationLeft(r)' < NegotiationLeft(r)]_negotiationSpecVars
<1>1. ASSUME NegotiationTypeInvariant, NegotiationNext, NEW s \in Requests
      PROVE  /\ NegotiationLeft(s)' <= NegotiationLeft(s)
             /\ NegotiationStep(s) => NegotiationLeft(s)' < NegotiationLeft(s)
  <2>1. NegotiationTypeOK /\ pc \in [Requests -> NegotiationPcs]
    BY <1>1 DEF NegotiationTypeInvariant
  <2>2. NegotiationLeft(s) \in Nat /\ NegotiationLeft(s)' \in Nat
    BY NegotiationLeftType
  <2>3. NegotiationStep(s) => NegotiationLeft(s)' < NegotiationLeft(s)
    BY <2>1, NegotiationStepDescends
  <2>4. ASSUME ~NegotiationStep(s) PROVE pc'[s] = pc[s]
    BY <1>1, <2>1, <2>4, NegotiationStepOthers DEF NegotiationNext, LateArrival
  <2>5. ASSUME pc'[s] = pc[s] PROVE NegotiationLeft(s)' = NegotiationLeft(s)
    BY <2>5 DEF NegotiationLeft, NegotiationPhase
  <2> QED BY <2>2, <2>3, <2>4, <2>5
<1>2. NegotiationTypeInvariant /\ [NegotiationNext]_negotiationSpecVars =>
        [\A r \in Requests :
           /\ NegotiationLeft(r)' <= NegotiationLeft(r)
           /\ NegotiationStep(r) => NegotiationLeft(r)' < NegotiationLeft(r)]_negotiationSpecVars
  BY <1>1
<1> QED BY <1>2, NegotiationTypesHold, PTL DEF NegotiationSpec
=============================================================================
