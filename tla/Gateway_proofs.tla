---------------------------- MODULE Gateway_proofs ----------------------------
(***************************************************************************)
(* What the composed gateway guarantees for any number of requests, ids,   *)
(* forms, limits, adapters, model replies and crashes: nothing unrecorded  *)
(* and nothing unscreened reaches a rail, every transfer follows the       *)
(* lifecycle of domain-model.md, and every answer is true and stays so.    *)
(***************************************************************************)
EXTENDS Gateway, Negotiation_proofs, RailRouter_proofs

\* The entry gate let the form through.
Cleared(f) == Evaluate(f).outcome = "PASS"

Early == {"idle", "refused", "entry_gate", "quotes", "negotiated"} \cup Negotiating
Routing == {"submit", "await_rail", "retry", "count_retry", "settled", "exhausted"}

\* What ties the parts of one request together.
LinkInv(r) ==
  /\ pc[r] \in {"idle", "refused"} => state[r] = "ABSENT"
  /\ pc[r] \in {"entry_gate", "quotes"} => state[r] = "INITIATED"
  /\ pc[r] \in {"idle", "refused", "entry_gate", "quotes"} => result[r] = "NONE"
  /\ pc[r] \in Early => Submitted(r) = {} /\ alternates[r] = {}
  /\ pc[r] = "negotiated" /\ result[r] = "SETTLING" =>
       state[r] = "SETTLING" /\ rail[r] = proposal[r].rail
  /\ pc[r] \in Routing => result[r] = "SETTLING"
  /\ Submitted(r) # {} => result[r] = "SETTLING"
  /\ pc[r] \in {"quotes", "negotiated"} \cup Negotiating => Cleared(form[r])
  /\ result[r] = "SETTLING" => Cleared(form[r])

HandlerInv(r) == NegotiationInv(r) /\ TrailInv(r) /\ RoutingInv(r) /\ LinkInv(r)

\* The type invariant but for the answers, which no handler reads.
CoreTypes ==
  /\ pc \in [Requests -> GatewayPcs]
  /\ NegotiationTypeOK
  /\ RouterTypeOK
  /\ form \in [Requests -> Forms]

GatewayInv ==
  /\ CoreTypes
  /\ \A r \in Requests : HandlerInv(r)

\* Everything HandlerInv(s) is about.
Untouched(s) ==
  /\ pc'[s] = pc[s] /\ state'[s] = state[s] /\ rail'[s] = rail[s] /\ seen'[s] = seen[s]
  /\ offered'[s] = offered[s] /\ verdict'[s] = verdict[s] /\ proposal'[s] = proposal[s]
  /\ exitStage'[s] = exitStage[s] /\ trail'[s] = trail[s] /\ log'[s] = log[s]
  /\ result'[s] = result[s]
  /\ adapters' = adapters /\ papss'[s] = papss[s] /\ approved'[s] = approved[s]
  /\ alternates'[s] = alternates[s] /\ book'[s] = book[s] /\ form'[s] = form[s]

-----------------------------------------------------------------------------
(* The entry gate                                                          *)

\* The first gate that objects is one of the gates, and none before it objects.
LEMMA FirstObjectingIsAGate ==
  ASSUME NEW f, Objecting(f) # {}
  PROVE  /\ FirstObjecting(f) \in Objecting(f) /\ FirstObjecting(f) \in 1 .. 7
         /\ \A i \in Objecting(f) : FirstObjecting(f) <= i
<1> DEFINE O == Objecting(f)
           Least(i) == \A j \in O : i <= j
<1>1. O \subseteq 1 .. 7
  BY DEF Objecting
<1> HIDE DEF O
<1>2. \E i \in O : Least(i)
  <2>1. O \subseteq {1, 2, 3, 4, 5, 6, 7} /\ O # {}
    BY <1>1 DEF O
  <2>2. CASE 1 \in O
    BY <2>1, <2>2
  <2>3. CASE 1 \notin O /\ 2 \in O
    BY <2>1, <2>3
  <2>4. CASE O \cap {1, 2} = {} /\ 3 \in O
    BY <2>1, <2>4
  <2>5. CASE O \cap {1, 2, 3} = {} /\ 4 \in O
    BY <2>1, <2>5
  <2>6. CASE O \cap {1, 2, 3, 4} = {} /\ 5 \in O
    BY <2>1, <2>6
  <2>7. CASE O \cap {1, 2, 3, 4, 5} = {} /\ 6 \in O
    BY <2>1, <2>7
  <2>8. CASE O \cap {1, 2, 3, 4, 5, 6} = {} /\ 7 \in O
    BY <2>1, <2>8
  <2> QED BY <2>1, <2>2, <2>3, <2>4, <2>5, <2>6, <2>7, <2>8
<1>3. FirstObjecting(f) \in O /\ Least(FirstObjecting(f))
  BY <1>2 DEF O, FirstObjecting
<1> QED BY <1>1, <1>3 DEF O

\* What the first four gates ask for, what the fifth sends to a human, and what the
\* last two allow.
Screenable(f) ==
  f.wellFormed /\ f.parsed /\ ~f.senderListed /\ ~f.recipientListed /\ HasLimit(f)
PepReview(f) == f.pep /\ f.amount > LimitTable.pepThreshold
WithinLimits(f) ==
  f.amount <= LimitTable.tiers[f.tier] /\ f.prior + f.amount <= LimitTable.cumulative

LEMMA GateConditions ==
  ASSUME NEW f \in Forms
  PROVE  /\ Screenable(f) <=> \A i \in 1 .. 4 : i \notin Objecting(f)
         /\ PepReview(f) <=> 5 \in Objecting(f)
         /\ Screenable(f) => (WithinLimits(f) <=> 6 \notin Objecting(f) /\ 7 \notin Objecting(f))
<1>1. /\ f.wellFormed \in BOOLEAN /\ f.parsed \in BOOLEAN /\ f.pep \in BOOLEAN
      /\ f.senderListed \in BOOLEAN /\ f.recipientListed \in BOOLEAN
      /\ f.amount \in Int /\ f.prior \in Nat
      /\ LimitTable.cumulative \in Nat /\ LimitTable.pepThreshold \in Nat
  BY EntryAssumption DEF EntryAssumption
<1>2. HasLimit(f) => LimitTable.tiers[f.tier] \in Nat
  BY EntryAssumption DEF EntryAssumption, HasLimit
<1>3. /\ 1 \in Objecting(f) <=> ~f.wellFormed
      /\ 2 \in Objecting(f) <=> ~f.parsed
      /\ 3 \in Objecting(f) <=> Listed(f)
      /\ 4 \in Objecting(f) <=> ~HasLimit(f)
      /\ 5 \in Objecting(f) <=> PepReview(f)
      /\ 6 \in Objecting(f) <=> HasLimit(f) /\ f.amount > LimitTable.tiers[f.tier]
      /\ 7 \in Objecting(f) <=> f.prior + f.amount > LimitTable.cumulative
  <2>1. /\ Gates(f)[1][1] = ~f.wellFormed /\ Gates(f)[2][1] = ~f.parsed
        /\ Gates(f)[3][1] = Listed(f) /\ Gates(f)[4][1] = ~HasLimit(f)
        /\ Gates(f)[5][1] = (f.pep /\ f.amount > LimitTable.pepThreshold)
        /\ Gates(f)[6][1] = (HasLimit(f) /\ f.amount > LimitTable.tiers[f.tier])
        /\ Gates(f)[7][1] = (f.prior + f.amount > LimitTable.cumulative)
    BY DEF Gates
  <2>2. \A i \in 1 .. 7 : i \in Objecting(f) <=> Gates(f)[i][1]
    BY DEF Objecting
  <2>3. /\ 1 \in 1 .. 7 /\ 2 \in 1 .. 7 /\ 3 \in 1 .. 7 /\ 4 \in 1 .. 7 /\ 5 \in 1 .. 7
        /\ 6 \in 1 .. 7 /\ 7 \in 1 .. 7
    OBVIOUS
  <2> QED BY <2>1, <2>2, <2>3, Zenon DEF PepReview
<1>4. Screenable(f) <=> \A i \in {1, 2, 3, 4} : i \notin Objecting(f)
  BY <1>1, <1>3 DEF Screenable, Listed
<1>5. 1 .. 4 = {1, 2, 3, 4}
  OBVIOUS
<1>6. Screenable(f) => (WithinLimits(f) <=> 6 \notin Objecting(f) /\ 7 \notin Objecting(f))
  BY <1>1, <1>2, <1>3 DEF Screenable, WithinLimits
<1> QED BY <1>3, <1>4, <1>5, <1>6

\* The entry gate, exactly: it passes who is screened and within every limit, it sends
\* to a human only a PEP above the threshold whom nothing ahead of it stops, whatever
\* the limits behind it say, and it rejects everybody else -- whoever is on the
\* sanctions list first of all.
THEOREM GateIsExact ==
  \A f \in Forms :
    /\ Evaluate(f).outcome = "PASS" <=> Screenable(f) /\ ~PepReview(f) /\ WithinLimits(f)
    /\ Evaluate(f).outcome = "ESCALATE" <=> Screenable(f) /\ PepReview(f)
    /\ Evaluate(f).outcome = "REJECTED" <=>
         ~Screenable(f) \/ (~PepReview(f) /\ ~WithinLimits(f))
<1> SUFFICES ASSUME NEW f \in Forms
             PROVE  /\ Evaluate(f).outcome = "PASS" <=>
                         Screenable(f) /\ ~PepReview(f) /\ WithinLimits(f)
                    /\ Evaluate(f).outcome = "ESCALATE" <=> Screenable(f) /\ PepReview(f)
                    /\ Evaluate(f).outcome = "REJECTED" <=>
                         ~Screenable(f) \/ (~PepReview(f) /\ ~WithinLimits(f))
  OBVIOUS
<1> DEFINE O == Objecting(f)
           first == FirstObjecting(f)
<1>1. /\ Screenable(f) <=> \A i \in 1 .. 4 : i \notin O
      /\ PepReview(f) <=> 5 \in O
      /\ Screenable(f) => (WithinLimits(f) <=> 6 \notin O /\ 7 \notin O)
  BY GateConditions
<1>2. O \subseteq 1 .. 7
  BY DEF Objecting
<1>3. CASE O = {}
  <2>1. Evaluate(f).outcome = "PASS"
    BY <1>3 DEF Evaluate, Verdict
  <2> QED BY <1>1, <1>3, <2>1
<1>4. CASE O # {}
  <2>1. first \in O /\ first \in 1 .. 7 /\ \A i \in O : first <= i
    BY <1>4, FirstObjectingIsAGate
  <2>2. Evaluate(f).outcome = IF first = 5 THEN "ESCALATE" ELSE "REJECTED"
    <3>1. Evaluate(f) = Gates(f)[first][2]
      BY <1>4 DEF Evaluate
    <3>2. \A i \in 1 .. 7 :
            Gates(f)[i][2].outcome = IF i = 5 THEN "ESCALATE" ELSE "REJECTED"
      BY DEF Gates, Rejected, Verdict
    <3> QED BY <2>1, <3>1, <3>2
  <2> HIDE DEF O, first
  <2>3. CASE first \in 1 .. 4
    BY <1>1, <2>1, <2>2, <2>3
  <2>4. CASE first = 5
    BY <1>1, <2>1, <2>2, <2>4
  <2>5. CASE first \in 6 .. 7
    BY <1>1, <2>1, <2>2, <2>5
  <2> QED BY <2>1, <2>3, <2>4, <2>5
<1> QED BY <1>3, <1>4

LEMMA ClearedIsScreened ==
  ASSUME NEW f \in Forms, Cleared(f)
  PROVE  /\ f.wellFormed /\ f.parsed
         /\ ~f.senderListed /\ ~f.recipientListed
         /\ HasLimit(f)
         /\ f.amount <= LimitTable.tiers[f.tier]
         /\ f.prior + f.amount <= LimitTable.cumulative
         /\ f.pep => f.amount <= LimitTable.pepThreshold
<1>1. Screenable(f) /\ ~PepReview(f) /\ WithinLimits(f)
  BY GateIsExact DEF Cleared
<1>2. f.amount \in Int /\ LimitTable.pepThreshold \in Nat
  BY EntryAssumption DEF EntryAssumption
<1> QED BY <1>1, <1>2 DEF Screenable, PepReview, WithinLimits

-----------------------------------------------------------------------------
(* One step of one request                                                 *)

\* A request's invariant is about its own thread, log and payment only.
LEMMA GatewayFrame ==
  ASSUME NEW s \in Requests, HandlerInv(s), Untouched(s)
  PROVE  HandlerInv(s)'
<1>1. NegotiationInv(s)' /\ TrailInv(s)'
  BY NegotiationFrame DEF HandlerInv, Untouched
<1>2. RoutingInv(s)'
  BY RoutingFrame DEF HandlerInv, Untouched
<1>3. Submitted(s)' = Submitted(s)
  BY DEF Submitted, Untouched
<1>4. LinkInv(s)'
  BY <1>3 DEF HandlerInv, LinkInv, Untouched
<1> QED BY <1>1, <1>2, <1>4 DEF HandlerInv

\* Outside the negotiation no record is written, and none is asked for.
LEMMA NoRecordNeeded ==
  ASSUME NEW r \in Requests, TrailInv(r), trail'[r] = trail[r], log'[r] = log[r],
         result'[r] = result[r],
         pc'[r] \in {"raised", "lost"} \/ (pc'[r] \notin Validated \cup {"audit_settling"}
                                           /\ pc[r] \notin {"raised", "lost"})
  PROVE  TrailInv(r)'
<1>1. ActorsLogged(r)' = ActorsLogged(r)
  BY DEF ActorsLogged
<1> QED BY <1>1 DEF TrailInv, SettlementAudited, Validated

LEMMA GatewayInitInv == GatewayInit => GatewayInv
<1> SUFFICES ASSUME GatewayInit PROVE GatewayInv
  OBVIOUS
<1> USE DEF GatewayInit, NegotiationStart, RouterStart
<1>1. CoreTypes
  BY DEF CoreTypes, GatewayPcs, NegotiationTypeOK, TransferTypeOK, AgentsTypeOK, RouterTypeOK,
         TransferStates, MaxSettlementRetries, Results, RailPositions
<1>2. ASSUME NEW r \in Requests PROVE HandlerInv(r)
  <2>1. NegotiationInv(r) /\ TrailInv(r)
    BY DEF NegotiationInv, TrailInv, Validated, Undecided, Negotiating
  <2>2. RoutingInv(r) /\ LinkInv(r)
    BY DEF RoutingInv, LinkInv, Submitted, Chosen, Routing, Negotiating, Validated, Undecided
  <2> QED BY <2>1, <2>2 DEF HandlerInv
<1> QED BY <1>1, <1>2 DEF GatewayInv

\* A request that is refused or that creates its transfer.
LEMMA PostInv ==
  ASSUME NEW r \in Requests, GatewayInv, Post(r)
  PROVE  GatewayInv'
<1> USE DEF GatewayInv, CoreTypes, NegotiationTypeOK, TransferTypeOK, AgentsTypeOK, RouterTypeOK,
            Post, RefuseUnconfigured, RefuseParameters, CreateTransfer, Goto,
            transferVars, budgetVars, agentVars, negotiationVars, routerVars,
            gatewayOnlyVars, postVars
<1>1. CoreTypes'
  BY DEF GatewayPcs, Ended, TransferStates
<1>2. HandlerInv(r)'
  <2>1. Justified(r)' = Justified(r) /\ ActorsLogged(r)' = ActorsLogged(r)
    BY DEF Justified, ActorsLogged
  <2>2. NegotiationInv(r)' /\ TrailInv(r)'
    BY <2>1 DEF HandlerInv, NegotiationInv, TrailInv, SettlementAudited,
                LinkInv, Validated, Undecided, Negotiating
  <2>3. Submitted(r)' = Submitted(r) /\ Chosen(r)' = Chosen(r)
    BY DEF Submitted, Chosen
  <2>4. RoutingInv(r)' /\ LinkInv(r)'
    BY <2>3 DEF HandlerInv, RoutingInv, LinkInv, Early, Routing,
                Validated, Undecided, Negotiating
  <2> QED BY <2>2, <2>4 DEF HandlerInv
<1>3. ASSUME NEW s \in Requests, s # r PROVE HandlerInv(s)'
  BY <1>3, GatewayFrame DEF Untouched
<1> QED BY <1>1, <1>2, <1>3

\* The gate lets a form through only when it is cleared.
LEMMA EntryGateInv ==
  ASSUME NEW r \in Requests, GatewayInv, EntryGate(r)
  PROVE  GatewayInv'
<1> USE DEF GatewayInv, CoreTypes, NegotiationTypeOK, TransferTypeOK, AgentsTypeOK, RouterTypeOK,
            Goto, transferVars, budgetVars, agentVars, negotiationVars, routerVars,
            gatewayOnlyVars, postVars
<1>1. /\ pc[r] = "entry_gate" /\ form' = form
      /\ \/ Cleared(form[r]) /\ pc' = [pc EXCEPT ![r] = "quotes"] /\ state' = state
         \/ pc' = [pc EXCEPT ![r] = "answered"] /\ state' = state
         \/ pc' = [pc EXCEPT ![r] = "answered"] /\ state' = [state EXCEPT ![r] = "REJECTED"]
      /\ UNCHANGED <<rail, budgetVars, agentVars, negotiationVars, routerVars>>
  BY DEF EntryGate, Answer, Transition, Cleared
<1>2. CoreTypes'
  BY <1>1 DEF GatewayPcs, Ended, TransferStates
<1>3. HandlerInv(r)'
  <2>1. Justified(r)' = Justified(r) /\ ActorsLogged(r)' = ActorsLogged(r)
    BY <1>1 DEF Justified, ActorsLogged
  <2>2. NegotiationInv(r)' /\ TrailInv(r)'
    BY <1>1, <2>1 DEF HandlerInv, NegotiationInv, TrailInv, SettlementAudited,
                      LinkInv, Validated, Undecided, Negotiating
  <2>3. Submitted(r)' = Submitted(r) /\ Chosen(r)' = Chosen(r)
    BY <1>1 DEF Submitted, Chosen
  <2>4. RoutingInv(r)'
    BY <1>1, <2>3 DEF HandlerInv, RoutingInv, LinkInv
  <2>5. LinkInv(r)'
    BY <1>1, <2>3 DEF HandlerInv, LinkInv, Early, Routing, Validated, Undecided, Negotiating
  <2> QED BY <2>2, <2>4, <2>5 DEF HandlerInv
<1>4. ASSUME NEW s \in Requests, s # r PROVE HandlerInv(s)'
  BY <1>1, <1>4, GatewayFrame DEF Untouched
<1> QED BY <1>2, <1>3, <1>4

LEMMA QuotesInv ==
  ASSUME NEW r \in Requests, GatewayInv, GatherQuotes(r) \/ GateOrQuotesRaise(r)
  PROVE  GatewayInv'
<1> USE DEF GatewayInv, CoreTypes, NegotiationTypeOK, TransferTypeOK, AgentsTypeOK, RouterTypeOK,
            Goto, transferVars, budgetVars, agentVars, negotiationVars, routerVars,
            gatewayOnlyVars, postVars
<1>1. /\ \/ pc[r] = "quotes" /\ pc' = [pc EXCEPT ![r] = "assess"]
         \/ pc[r] \in {"entry_gate", "quotes"} /\ pc' = [pc EXCEPT ![r] = "raised"]
      /\ offered' \in [Requests -> SUBSET Rails]
      /\ \A s \in Requests : s # r => offered'[s] = offered[s]
      /\ UNCHANGED <<transferVars, verdict, proposal, negotiationVars, routerVars, form>>
  <2>1. CASE GatherQuotes(r)
    BY <2>1 DEF GatherQuotes
  <2>2. CASE GateOrQuotesRaise(r)
    BY <2>2 DEF GateOrQuotesRaise
  <2> QED BY <2>1, <2>2
<1>2. CoreTypes'
  BY <1>1 DEF GatewayPcs, Ended, NegotiationPcs
<1>3. HandlerInv(r)'
  <2>2. state[r] = "INITIATED" /\ result[r] = "NONE"
    BY <1>1 DEF HandlerInv, LinkInv
  <2>3. NegotiationInv(r)' /\ TrailInv(r)'
    BY <1>1, <2>2, NoRecordNeeded DEF HandlerInv, NegotiationInv, Validated, Undecided, Negotiating
  <2>4. Submitted(r)' = Submitted(r) /\ Chosen(r)' = Chosen(r)
    BY <1>1 DEF Submitted, Chosen
  <2>5. RoutingInv(r)'
    BY <1>1, <2>2, <2>4 DEF HandlerInv, RoutingInv
  <2>6. LinkInv(r)'
    BY <1>1, <2>4 DEF HandlerInv, LinkInv, Early, Routing, Validated, Undecided, Negotiating
  <2> QED BY <2>3, <2>5, <2>6 DEF HandlerInv
<1>4. ASSUME NEW s \in Requests, s # r PROVE HandlerInv(s)'
  BY <1>1, <1>4, GatewayFrame DEF Untouched
<1> QED BY <1>2, <1>3, <1>4

\* The edges of the lifecycle the negotiation takes, each with the rail and the
\* result it leaves behind.
LEMMA NegotiationStepEffect ==
  ASSUME NEW r \in Requests, NEW S, pc \in [Requests -> S],
         NegotiationTypeOK, NegotiationInv(r), NegotiationStep(r)
  PROVE  /\ pc[r] \in Negotiating
         /\ pc'[r] \in Negotiating \cup {"negotiated", "raised"}
         /\ \/ state' = state
            \/ state[r] = "INITIATED" /\ state' = [state EXCEPT ![r] = "VALIDATED"]
            \/ state[r] = "INITIATED" /\ state' = [state EXCEPT ![r] = "REJECTED"]
            \/ state[r] = "VALIDATED" /\ state' = [state EXCEPT ![r] = "SETTLING"]
            \/ state[r] = "VALIDATED" /\ state' = [state EXCEPT ![r] = "REJECTED"]
         /\ state'[r] = "DELIVERED" => rail'[r] = rail[r]
         /\ result'[r] = "SETTLING" =>
              pc'[r] = "negotiated" /\ state'[r] = "SETTLING" /\ rail'[r] = proposal'[r].rail
<1> USE DEF NegotiationTypeOK, TransferTypeOK, AgentsTypeOK, Goto,
            transferVars, budgetVars, agentVars, negotiationVars,
            Validated, Undecided, Negotiating
<1>1. CASE Assess(r) /\ UNCHANGED negotiationVars
  BY <1>1 DEF Assess, SentinelConcludes, SentinelTimesOut, SentinelReasks, SentinelGivesUp,
              SentinelRaises, Conclude, NegotiationInv
<1>2. CASE Propose(r) /\ UNCHANGED negotiationVars
  BY <1>2 DEF Propose, StrategistConcludes, StrategistReasks, StrategistFails, NegotiationInv
<1>3. CASE Exit(r) \/ ExitRaises(r)
  BY <1>3 DEF Exit, ExitRaises, NegotiationInv
<1>4. CASE AuditVerdict(r)
  BY <1>4 DEF AuditVerdict, Recorded, Transition, NegotiationInv
<1>5. CASE AuditBlocked(r) \/ AuditEscalated(r) \/ AuditNoProposal(r)
  BY <1>5 DEF AuditBlocked, AuditEscalated, AuditNoProposal, Recorded, Return, NegotiationInv
<1>6. CASE AuditValidated(r) \/ AuditProposal(r)
  BY <1>6 DEF AuditValidated, AuditProposal, Recorded, NegotiationInv
<1>7. CASE AuditExit(r)
  BY <1>7 DEF AuditExit, Recorded, Transition, Return, NegotiationInv
<1>8. CASE AuditSettling(r)
  BY <1>8 DEF AuditSettling, Recorded, Return, NegotiationInv
<1>9. CASE AuditUnavailable(r)
  BY <1>9, AuditStepValues DEF AuditUnavailable, NotRecorded, NegotiationInv
<1> QED
  BY <1>1, <1>2, <1>3, <1>4, <1>5, <1>6, <1>7, <1>8, <1>9 DEF NegotiationStep

\* The retries are the router's.
LEMMA NegotiationKeepsBudgets ==
  ASSUME NEW r \in Requests, NegotiationStep(r)
  PROVE  UNCHANGED budgetVars
  BY DEF NegotiationStep, transferVars, Assess, SentinelConcludes, SentinelTimesOut,
         SentinelReasks, SentinelGivesUp, SentinelRaises, Conclude, Propose,
         StrategistConcludes, StrategistReasks, StrategistFails, AuditVerdict, AuditBlocked,
         AuditEscalated, AuditValidated, AuditNoProposal, AuditProposal, Exit, ExitRaises,
         AuditExit, AuditSettling, AuditUnavailable

\* What a step of the negotiation leaves for the rest of the handler to rely on.
LEMMA NegotiateInv ==
  ASSUME NEW r \in Requests, GatewayInv, Negotiate(r)
  PROVE  GatewayInv'
<1> USE DEF GatewayInv, CoreTypes, HandlerInv
<1>1. NegotiationStep(r) /\ UNCHANGED <<routerVars, form>>
  BY DEF Negotiate, gatewayOnlyVars, postVars
<1>2. NegotiationTypeOK'
  BY <1>1, NegotiationStepTypes
<1>3. pc' \in [Requests -> GatewayPcs]
  BY <1>1, NegotiationStepPc DEF GatewayPcs
<1>4. RouterTypeOK' /\ form' \in [Requests -> Forms]
  BY <1>1, <1>2 DEF RouterTypeOK, NegotiationTypeOK, routerVars
<1>5. NegotiationInv(r)' /\ TrailInv(r)'
  BY <1>1, NegotiationStepInv, NegotiationStepTrail
<1>6. /\ pc[r] \in Negotiating
      /\ pc'[r] \in Negotiating \cup {"negotiated", "raised"}
      /\ state'[r] = "DELIVERED" => state[r] = "DELIVERED" /\ rail'[r] = rail[r]
      /\ result'[r] = "SETTLING" =>
           pc'[r] = "negotiated" /\ state'[r] = "SETTLING" /\ rail'[r] = proposal'[r].rail
  BY <1>1, NegotiationStepEffect DEF NegotiationTypeOK, TransferTypeOK
<1>7. Submitted(r)' = Submitted(r) /\ Chosen(r)' = Chosen(r)
  BY <1>1 DEF Submitted, Chosen, routerVars
<1>8. RoutingInv(r)'
  BY <1>1, <1>6, <1>7 DEF RoutingInv, routerVars, Negotiating, Validated, Undecided, NegotiationInv
<1>9. LinkInv(r)'
  BY <1>1, <1>6, <1>7 DEF LinkInv, Early, Routing, Negotiating, Validated, Undecided, routerVars
<1>10. ASSUME NEW s \in Requests, s # r PROVE HandlerInv(s)'
  <2>1. /\ pc'[s] = pc[s] /\ state'[s] = state[s] /\ rail'[s] = rail[s]
        /\ offered'[s] = offered[s] /\ verdict'[s] = verdict[s]
        /\ proposal'[s] = proposal[s] /\ exitStage'[s] = exitStage[s]
        /\ trail'[s] = trail[s] /\ log'[s] = log[s] /\ result'[s] = result[s]
        /\ seen'[s] = seen[s]
    BY <1>1, <1>10, NegotiationStepOthers, NegotiationKeepsBudgets DEF budgetVars
  <2>2. Untouched(s)
    BY <1>1, <2>1 DEF Untouched, routerVars
  <2> QED BY <2>2, GatewayFrame
<1> QED BY <1>2, <1>3, <1>4, <1>5, <1>8, <1>9, <1>10

\* The router is entered with the rail the exit gate cleared.
LEMMA SettleInv ==
  ASSUME NEW r \in Requests, GatewayInv, Settle(r)
  PROVE  GatewayInv'
<1> USE DEF GatewayInv, CoreTypes, NegotiationTypeOK, TransferTypeOK, AgentsTypeOK, RouterTypeOK,
            Goto, transferVars, budgetVars, agentVars, negotiationVars, routerVars,
            gatewayOnlyVars, postVars
<1>1. /\ pc[r] = "negotiated" /\ result[r] = "SETTLING"
      /\ approved' = [approved EXCEPT ![r] = proposal[r].rail]
      /\ pc' = [pc EXCEPT ![r] = "submit"] \/ pc' = [pc EXCEPT ![r] = "raised"]
      /\ UNCHANGED <<transferVars, agentVars, negotiationVars, adapters, papss, alternates,
                     book, form>>
  BY DEF Settle, StartRouting
<1>2. /\ state[r] = "SETTLING" /\ rail[r] = proposal[r].rail /\ proposal[r].rail \in Rails
      /\ Submitted(r) = {} /\ alternates[r] = {}
  BY <1>1 DEF HandlerInv, LinkInv, NegotiationInv, Justified, IsProposal, Early
<1>3. CoreTypes'
  BY <1>1, <1>2 DEF GatewayPcs, NegotiationPcs, RouterPcs
<1>4. HandlerInv(r)'
  <2>1. Justified(r)' = Justified(r)
    BY <1>1 DEF Justified
  <2>2. NegotiationInv(r)' /\ TrailInv(r)'
    BY <1>1, <2>1, NoRecordNeeded DEF HandlerInv, NegotiationInv, Validated, Undecided,
                                      Negotiating
  <2>3. Submitted(r)' = {} /\ Chosen(r)' = {rail[r]}
    BY <1>1, <1>2 DEF Submitted, Chosen
  <2>4. book[r][rail[r]] = "none"
    BY <1>2 DEF Submitted
  <2>5. RoutingInv(r)'
    BY <1>1, <1>2, <2>3, <2>4 DEF RoutingInv
  <2>6. LinkInv(r)'
    BY <1>1, <2>3 DEF HandlerInv, LinkInv, Early, Routing, Validated, Undecided, Negotiating
  <2> QED BY <2>2, <2>5, <2>6 DEF HandlerInv
<1>5. ASSUME NEW s \in Requests, s # r PROVE HandlerInv(s)'
  BY <1>1, <1>5, GatewayFrame DEF Untouched
<1> QED BY <1>3, <1>4, <1>5

\* Where the router takes a thread, and which rails it has told by then.
LEMMA RouterStepEffect ==
  ASSUME NEW r \in Requests, NEW S, pc \in [Requests -> S],
         RouterTypeOK, RoutingInv(r), RouterStep(r) \/ RailDecides(r)
  PROVE  /\ \/ /\ pc[r] \in {"submit", "await_rail", "retry", "count_retry"}
               /\ pc'[r] \in Routing \cup {"raised"}
            \/ pc' = pc /\ Submitted(r)' = Submitted(r) /\ alternates' = alternates
         /\ \/ state' = state /\ alternates' = alternates
            \/ /\ state[r] = "SETTLING" /\ state' = [state EXCEPT ![r] = "DELIVERED"]
               /\ alternates' = alternates
            \/ /\ state[r] = "SETTLING" /\ state' = [state EXCEPT ![r] = "FAILED"]
               /\ alternates' = alternates
            \/ /\ state[r] = "FAILED" /\ state' = [state EXCEPT ![r] = "SETTLING"]
               /\ Untried(r) # {}
               /\ alternates' = [alternates EXCEPT ![r] = @ \cup {NextRail(r)}]
<1> USE DEF RouterTypeOK, TransferTypeOK, transferVars, budgetVars, routerVars, Goto, Routing
<1>1. CASE Submit(r) \/ AdapterRaises(r)
  BY <1>1 DEF Submit, AdapterRaises
<1>2. CASE RailConfirms(r) \/ RailRefuses(r) \/ RailStillSettling(r)
  BY <1>2 DEF RailConfirms, RailRefuses, RailStillSettling, OtherStatus, Transition, RoutingInv
<1>3. CASE CheckRetryBudget(r)
  BY <1>3 DEF CheckRetryBudget
<1>4. CASE RetryOnAlternate(r)
  BY <1>4 DEF RetryOnAlternate, RetrySettlement, RoutingInv
<1>5. CASE RailDecides(r)
  <2>1. Submitted(r)' = Submitted(r)
    BY <1>5 DEF RailDecides, Submitted
  <2> QED BY <1>5, <2>1 DEF RailDecides
<1> QED
  BY <1>1, <1>2, <1>3, <1>4, <1>5 DEF RouterStep

LEMMA RouteOnInv ==
  ASSUME NEW r \in Requests, GatewayInv, RouteOn(r) \/ RailActs(r)
  PROVE  GatewayInv'
<1> USE DEF GatewayInv, CoreTypes, HandlerInv
<1>1. /\ RouterStep(r) \/ RailDecides(r)
      /\ UNCHANGED <<agentVars, negotiationVars, form>>
  BY DEF RouteOn, RailActs, gatewayOnlyVars, postVars
<1>2. RouterTypeOK'
  BY <1>1, RouterStepTypes DEF RoutingInv
<1>3. pc' \in [Requests -> GatewayPcs]
  BY <1>1, RouterStepPc DEF GatewayPcs
<1>4. NegotiationTypeOK' /\ form' \in [Requests -> Forms]
  BY <1>1, <1>2 DEF RouterTypeOK, NegotiationTypeOK, AgentsTypeOK, agentVars, negotiationVars
<1>5. RoutingInv(r)'
  BY <1>1, RouterStepRouting
<1>6. \/ pc[r] \in Routing /\ pc'[r] \in Routing \cup {"raised"}
      \/ /\ pc' = pc /\ Submitted(r)' = Submitted(r) /\ alternates' = alternates
         /\ state' = state /\ rail' = rail
  BY <1>1, RouterStepEffect DEF Routing, RailDecides, transferVars, RouterStep, Submit,
     RailConfirms, RailRefuses, RailStillSettling, OtherStatus, AdapterRaises,
     CheckRetryBudget, RetryOnAlternate
<1>7. Justified(r)' = Justified(r) /\ ActorsLogged(r)' = ActorsLogged(r)
  BY <1>1 DEF Justified, ActorsLogged, agentVars, negotiationVars
<1>8. NegotiationInv(r)' /\ TrailInv(r)'
  BY <1>1, <1>6, <1>7 DEF NegotiationInv, TrailInv, SettlementAudited, agentVars, negotiationVars,
                          Routing, Validated, Undecided, Negotiating
<1>9. LinkInv(r)'
  BY <1>1, <1>6 DEF LinkInv, Early, Routing, agentVars, negotiationVars,
                    Validated, Undecided, Negotiating
<1>10. ASSUME NEW s \in Requests, s # r PROVE HandlerInv(s)'
  <2>1. Untouched(s)
    BY <1>1, <1>10, RouterStepOthers DEF Untouched, agentVars, negotiationVars
  <2> QED BY <2>1, GatewayFrame
<1> QED BY <1>2, <1>3, <1>4, <1>5, <1>8, <1>9, <1>10

\* An answer, or its failure, ends the thread and moves nothing else the invariant is about.
LEMMA AnswersInv ==
  ASSUME NEW r \in Requests, GatewayInv,
         Decline(r) \/ AnswerDelivered(r) \/ AnswerExhausted(r) \/ AnswerRaises(r)
  PROVE  GatewayInv'
<1> USE DEF GatewayInv, CoreTypes, NegotiationTypeOK, TransferTypeOK, AgentsTypeOK, RouterTypeOK,
            transferVars, budgetVars, agentVars, negotiationVars, routerVars
<1>1. /\ pc[r] \in {"negotiated", "settled", "exhausted"}
      /\ pc' = [pc EXCEPT ![r] = "answered"] \/ pc' = [pc EXCEPT ![r] = "raised"]
      /\ UNCHANGED <<transferVars, agentVars, negotiationVars, routerVars, form>>
  <2>1. CASE Decline(r) \/ AnswerDelivered(r) \/ AnswerExhausted(r)
    BY <2>1 DEF Decline, AnswerDelivered, AnswerExhausted, Answer, Goto, postVars
  <2>2. CASE AnswerRaises(r)
    BY <2>2 DEF AnswerRaises, Goto, gatewayOnlyVars, postVars
  <2> QED BY <2>1, <2>2
<1>2. CoreTypes'
  BY <1>1 DEF GatewayPcs, Ended
<1>3. HandlerInv(r)'
  <2>1. Justified(r)' = Justified(r) /\ ActorsLogged(r)' = ActorsLogged(r)
    BY <1>1 DEF Justified, ActorsLogged
  <2>2. NegotiationInv(r)' /\ TrailInv(r)'
    BY <1>1, <2>1 DEF HandlerInv, NegotiationInv, TrailInv, SettlementAudited,
                      Validated, Undecided, Negotiating
  <2>3. Submitted(r)' = Submitted(r) /\ Chosen(r)' = Chosen(r)
    BY <1>1 DEF Submitted, Chosen
  <2>4. RoutingInv(r)'
    BY <1>1, <2>3 DEF HandlerInv, RoutingInv
  <2>5. LinkInv(r)'
    BY <1>1, <2>3 DEF HandlerInv, LinkInv, Early, Routing, Validated, Undecided, Negotiating
  <2> QED BY <2>2, <2>4, <2>5 DEF HandlerInv
<1>4. ASSUME NEW s \in Requests, s # r PROVE HandlerInv(s)'
  BY <1>1, <1>4, GatewayFrame DEF Untouched
<1> QED BY <1>2, <1>3, <1>4

\* A crash takes the threads, the retry counts and the answers; what the log and
\* the rails hold, and what it rests on, it leaves.
LEMMA CrashInv ==
  ASSUME GatewayInv, Crash
  PROVE  GatewayInv'
<1> USE DEF GatewayInv, CoreTypes, NegotiationTypeOK, TransferTypeOK, AgentsTypeOK, RouterTypeOK,
            agentVars, routerVars, postVars
<1>1. /\ UNCHANGED <<state, rail, seen, agentVars, exitStage, log, result, routerVars, form>>
      /\ pc' = [r \in Requests |-> IF Running(r) THEN "lost" ELSE pc[r]]
      /\ retryCount' = [i \in Ids |-> 0]
  BY DEF Crash
<1>2. PICK logging \in SUBSET {r \in Requests : pc[r] \in DOMAIN AuditSteps} :
        trail' = [r \in Requests |->
                    IF r \in logging THEN trail[r] \cup {PendingRecord(r)} ELSE trail[r]]
  BY DEF Crash
<1>3. CoreTypes'
  <2>1. \A r \in logging : PendingRecord(r) \in AuditRecords
    BY <1>2, PendingRecordType, OverridingType
  <2>2. trail' \in [Requests -> SUBSET AuditRecords]
    BY <1>2, <2>1
  <2>3. pc' \in [Requests -> GatewayPcs]
    BY <1>1 DEF GatewayPcs, Ended
  <2>4. retryCount' \in [Ids -> 0 .. MaxSettlementRetries]
    BY <1>1 DEF MaxSettlementRetries
  <2> QED BY <1>1, <2>2, <2>3, <2>4
<1>4. ASSUME NEW s \in Requests PROVE HandlerInv(s)'
  <2>1. \/ pc'[s] = "lost"
        \/ pc'[s] = pc[s] /\ pc[s] \in Ended \cup {"idle"}
    BY <1>1 DEF Running
  <2>2. Justified(s)' = Justified(s)
    BY <1>1 DEF Justified
  <2>3. /\ ActorsLogged(s)' = ActorsLogged(s)
        /\ log'[s] = log[s] /\ trail[s] \subseteq trail'[s]
        /\ pc'[s] # "lost" => trail'[s] = trail[s]
    <3>1. ActorsLogged(s)' = ActorsLogged(s) /\ log'[s] = log[s] /\ trail[s] \subseteq trail'[s]
      BY <1>1, <1>2 DEF ActorsLogged
    <3>2. s \in logging => pc[s] \in DOMAIN AuditSteps
      BY <1>2
    <3>3. pc'[s] # "lost" => s \notin logging
      BY <2>1, <3>2, AuditStepValues DEF Ended
    <3> QED BY <1>2, <3>1, <3>3
  <2>4. NegotiationInv(s)'
    BY <1>1, <2>1, <2>2 DEF HandlerInv, NegotiationInv, Ended, Validated, Undecided, Negotiating
  <2>8. TrailInv(s)'
    BY <1>1, <2>1, <2>3 DEF HandlerInv, TrailInv, SettlementAudited, Ended, Validated
  <2>5. Submitted(s)' = Submitted(s) /\ Chosen(s)' = Chosen(s) /\ Untried(s)' = Untried(s)
    BY <1>1 DEF Submitted, Chosen, Untried, Candidates
  <2>6. RoutingInv(s)'
    BY <1>1, <2>1, <2>5 DEF HandlerInv, RoutingInv, Ended
  <2>7. LinkInv(s)'
    BY <1>1, <2>1, <2>5 DEF HandlerInv, LinkInv, Early, Routing, Ended,
                            Validated, Undecided, Negotiating
  <2> QED BY <2>4, <2>6, <2>7, <2>8 DEF HandlerInv
<1> QED BY <1>3, <1>4

\* A late record joins the log, and nothing else moves.
LEMMA RecordArrivesInv ==
  ASSUME NEW r \in Requests, GatewayInv, RecordArrives(r)
  PROVE  GatewayInv'
<1> USE DEF GatewayInv, CoreTypes, NegotiationTypeOK, TransferTypeOK, AgentsTypeOK, RouterTypeOK,
            transferVars, budgetVars, agentVars, routerVars, gatewayOnlyVars, postVars,
            RecordArrives, LateArrival
<1>1. /\ log' \in [Requests -> SUBSET AuditRecords] /\ TrailInv(r)'
      /\ \A s \in Requests : s # r => log'[s] = log[s]
  BY LateArrivalTrail DEF HandlerInv
<1>2. CoreTypes'
  BY <1>1
<1>3. HandlerInv(r)'
  <2>1. Submitted(r)' = Submitted(r) /\ Chosen(r)' = Chosen(r) /\ Justified(r)' = Justified(r)
    BY DEF Submitted, Chosen, Justified
  <2>2. NegotiationInv(r)'
    BY <2>1 DEF HandlerInv, NegotiationInv
  <2>3. RoutingInv(r)'
    BY RoutingFrame DEF HandlerInv
  <2>4. LinkInv(r)'
    BY <2>1 DEF HandlerInv, LinkInv
  <2> QED BY <1>1, <2>2, <2>3, <2>4 DEF HandlerInv
<1>4. ASSUME NEW s \in Requests, s # r PROVE HandlerInv(s)'
  BY <1>1, <1>4, GatewayFrame DEF Untouched
<1> QED BY <1>2, <1>3, <1>4

LEMMA GatewayInvInductive ==
  GatewayInv /\ [GatewayNext]_gatewayVars => GatewayInv'
<1> SUFFICES ASSUME GatewayInv, [GatewayNext]_gatewayVars
             PROVE  GatewayInv'
  OBVIOUS
<1>1. ASSUME NEW r \in Requests, Post(r) \/ Handle(r) \/ RailActs(r) \/ RecordArrives(r)
      PROVE  GatewayInv'
  BY <1>1, PostInv, EntryGateInv, QuotesInv, NegotiateInv, SettleInv, RouteOnInv, AnswersInv,
     RecordArrivesInv
     DEF Handle
<1>2. CASE Crash
  BY <1>2, CrashInv
<1>3. CASE UNCHANGED gatewayVars
  <2>1. CoreTypes'
    BY <1>3 DEF GatewayInv, CoreTypes, NegotiationTypeOK, TransferTypeOK, AgentsTypeOK,
       RouterTypeOK, gatewayVars, transferVars, budgetVars, agentVars, negotiationVars,
       routerVars, gatewayOnlyVars, postVars
  <2>2. ASSUME NEW s \in Requests PROVE Untouched(s)
    BY <1>3 DEF Untouched, gatewayVars, transferVars, budgetVars, agentVars, negotiationVars,
       routerVars, gatewayOnlyVars, postVars
  <2> QED BY <2>1, <2>2, GatewayFrame DEF GatewayInv
<1> QED BY <1>1, <1>2, <1>3 DEF GatewayNext

\* The invariant holds of every state the gateway reaches, every composed
\* coordinator's and router's step and the crash included.
THEOREM GatewayInvAlways == GatewaySpec => []GatewayInv
  BY GatewayInitInv, GatewayInvInductive, PTL DEF GatewaySpec

-----------------------------------------------------------------------------
(* What the invariant is for.                                              *)

\* Whatever the audit sink, the rails or the process do, no rail is told of a
\* payment before all four actors' records of it are in the log.
THEOREM NothingSubmittedUnaudited == GatewaySpec => []NoUnauditedSubmission
<1>1. GatewayInv => NoUnauditedSubmission
  BY DEF GatewayInv, HandlerInv, LinkInv, TrailInv, NoUnauditedSubmission
<1> QED BY <1>1, GatewayInvAlways, PTL

\* For every limit table and every form, no rail is told of a payment the entry
\* gate has an objection to.
THEOREM NothingSubmittedUnscreened == GatewaySpec => []OnlyScreenedIsSubmitted
<1>1. GatewayInv => OnlyScreenedIsSubmitted
  <2> SUFFICES ASSUME GatewayInv, NEW r \in Requests, Submitted(r) # {}
               PROVE  /\ form[r].wellFormed /\ form[r].parsed
                      /\ ~form[r].senderListed /\ ~form[r].recipientListed
                      /\ HasLimit(form[r])
                      /\ form[r].amount <= LimitTable.tiers[form[r].tier]
                      /\ form[r].prior + form[r].amount <= LimitTable.cumulative
                      /\ form[r].pep => form[r].amount <= LimitTable.pepThreshold
    BY DEF OnlyScreenedIsSubmitted
  <2>1. form[r] \in Forms /\ Cleared(form[r])
    BY DEF GatewayInv, CoreTypes, HandlerInv, LinkInv
  <2> QED BY <2>1, ClearedIsScreened
<1> QED BY <1>1, GatewayInvAlways, PTL

-----------------------------------------------------------------------------
(* The gateway implements the lifecycle of domain-model.md.                *)

LEMMA LifecycleInit == GatewayInit => Lifecycle!Init
  BY DEF GatewayInit, RouterStart, Lifecycle!Init

\* One edge of the diagram is one edge of the abstract specification.
LEMMA LifecycleEdge ==
  ASSUME NEW r \in Requests, NEW to, state' = [state EXCEPT ![r] = to],
         <<state[r], to>> \in {<<"ABSENT", "INITIATED">>, <<"INITIATED", "VALIDATED">>,
                               <<"INITIATED", "REJECTED">>, <<"VALIDATED", "SETTLING">>,
                               <<"VALIDATED", "REJECTED">>, <<"SETTLING", "DELIVERED">>,
                               <<"SETTLING", "FAILED">>},
         alternates' = alternates
  PROVE  Lifecycle!Next
<1>1. Lifecycle!Advance(r)
  BY DEF Lifecycle!Advance, Lifecycle!Move
<1> QED BY <1>1 DEF Lifecycle!Next

LEMMA LifecycleStep ==
  GatewayInv /\ [GatewayNext]_gatewayVars => [Lifecycle!Next]_(Lifecycle!lifecycleVars)
<1> SUFFICES ASSUME GatewayInv, [GatewayNext]_gatewayVars
             PROVE  Lifecycle!Next \/ (state' = state /\ alternates' = alternates)
  BY DEF Lifecycle!lifecycleVars
<1> USE DEF GatewayInv, CoreTypes
<1>1. ASSUME NEW r \in Requests, Post(r)
      PROVE  Lifecycle!Next \/ (state' = state /\ alternates' = alternates)
  <2>1. CASE RefuseUnconfigured(r) \/ RefuseParameters(r)
    BY <2>1 DEF RefuseUnconfigured, RefuseParameters, transferVars, routerVars
  <2>2. CASE CreateTransfer(r)
    <3>1. state[r] = "ABSENT" /\ state' = [state EXCEPT ![r] = "INITIATED"]
          /\ alternates' = alternates
      BY <2>2 DEF CreateTransfer, HandlerInv, LinkInv, routerVars
    <3> QED BY <3>1, LifecycleEdge
  <2> QED BY <1>1, <2>1, <2>2 DEF Post
<1>2. ASSUME NEW r \in Requests, EntryGate(r)
      PROVE  Lifecycle!Next \/ (state' = state /\ alternates' = alternates)
  <2>1. /\ state[r] = "INITIATED" /\ alternates' = alternates
        /\ state' = state \/ state' = [state EXCEPT ![r] = "REJECTED"]
    BY <1>2 DEF EntryGate, Transition, HandlerInv, LinkInv, routerVars
  <2> QED BY <2>1, LifecycleEdge
<1>3. ASSUME NEW r \in Requests, Negotiate(r)
      PROVE  Lifecycle!Next \/ (state' = state /\ alternates' = alternates)
  <2>1. alternates' = alternates /\ NegotiationStep(r)
    BY <1>3 DEF Negotiate, routerVars
  <2>2. \/ state' = state
        \/ state[r] = "INITIATED" /\ state' = [state EXCEPT ![r] = "VALIDATED"]
        \/ state[r] = "INITIATED" /\ state' = [state EXCEPT ![r] = "REJECTED"]
        \/ state[r] = "VALIDATED" /\ state' = [state EXCEPT ![r] = "SETTLING"]
        \/ state[r] = "VALIDATED" /\ state' = [state EXCEPT ![r] = "REJECTED"]
    BY <2>1, NegotiationStepEffect DEF HandlerInv
  <2> QED BY <2>1, <2>2, LifecycleEdge
<1>4. ASSUME NEW r \in Requests, RouteOn(r) \/ RailActs(r)
      PROVE  Lifecycle!Next \/ (state' = state /\ alternates' = alternates)
  <2>1. \/ state' = state /\ alternates' = alternates
        \/ /\ state[r] = "SETTLING" /\ state' = [state EXCEPT ![r] = "DELIVERED"]
           /\ alternates' = alternates
        \/ /\ state[r] = "SETTLING" /\ state' = [state EXCEPT ![r] = "FAILED"]
           /\ alternates' = alternates
        \/ /\ state[r] = "FAILED" /\ state' = [state EXCEPT ![r] = "SETTLING"]
           /\ Untried(r) # {}
           /\ alternates' = [alternates EXCEPT ![r] = @ \cup {NextRail(r)}]
    BY <1>4, RouterStepEffect DEF RouteOn, RailActs, HandlerInv
  <2>2. ASSUME state[r] = "FAILED", state' = [state EXCEPT ![r] = "SETTLING"], Untried(r) # {},
               alternates' = [alternates EXCEPT ![r] = @ \cup {NextRail(r)}]
        PROVE  Lifecycle!Next
    <3>1. NextRail(r) \in Untried(r) /\ NextRail(r) \in Rails
      BY <2>2, NextRailIsUntried
    <3>2. NextRail(r) \in Rails \ ({approved[r]} \cup alternates[r])
      BY <3>1 DEF Untried
    <3>3. Cardinality(alternates[r]) < MaxSettlementRetries
      BY <3>2, AlternatesAreFew DEF HandlerInv, RoutingInv, RouterTypeOK
    <3>4. \E alternate \in Rails \ alternates[r] :
            alternates' = [alternates EXCEPT ![r] = @ \cup {alternate}]
      <4>1. NextRail(r) \in Rails \ alternates[r]
        BY <3>2
      <4> QED BY <2>2, <4>1
    <3>5. Lifecycle!Move(r, "FAILED", "SETTLING")
      BY <2>2 DEF Lifecycle!Move
    <3>6. Lifecycle!Cardinality(alternates[r]) = Cardinality(alternates[r])
      BY Zenon DEF Lifecycle!Cardinality, Cardinality
    <3>7. Lifecycle!Retry(r)
      BY <3>3, <3>4, <3>5, <3>6 DEF Lifecycle!Retry
    <3> QED BY <3>7 DEF Lifecycle!Next
  <2> QED BY <2>1, <2>2, LifecycleEdge
<1>5. ASSUME NEW r \in Requests,
             GatherQuotes(r) \/ GateOrQuotesRaise(r) \/ Decline(r) \/ Settle(r)
               \/ AnswerDelivered(r) \/ AnswerExhausted(r) \/ AnswerRaises(r)
      PROVE  state' = state /\ alternates' = alternates
  BY <1>5 DEF GatherQuotes, GateOrQuotesRaise, Decline, Settle, StartRouting, AnswerDelivered,
              AnswerExhausted, AnswerRaises, transferVars, routerVars
<1>6. CASE Crash \/ (\E r \in Requests : RecordArrives(r)) \/ UNCHANGED gatewayVars
  BY <1>6 DEF Crash, RecordArrives, LateArrival, gatewayVars, transferVars, routerVars
<1> QED
  BY <1>1, <1>2, <1>3, <1>4, <1>5, <1>6 DEF GatewayNext, Handle

\* Every transfer of the composed gateway follows the diagram of domain-model.md,
\* retried at most MaxSettlementRetries times, each time on a rail of its own.
THEOREM GatewayImplementsLifecycle == GatewaySpec => LifecycleImplemented
<1> QED
  BY GatewayInvAlways, LifecycleInit, LifecycleStep, PTL
     DEF GatewaySpec, LifecycleImplemented, Lifecycle!Spec

-----------------------------------------------------------------------------
(* What stays when a handler has ended.                                    *)

\* A step of one request leaves the others alone.
LEMMA OthersUntouched ==
  ASSUME NEW r \in Requests, NEW s \in Requests, r # s, GatewayInv,
         response \in [Requests -> Responses \cup {NoResponse}],
         Post(r) \/ Handle(r) \/ RailActs(r) \/ RecordArrives(r)
  PROVE  Untouched(s) /\ response'[s] = response[s]
<1> USE DEF GatewayInv, CoreTypes
<1>1. CASE Negotiate(r)
  <2>1. NegotiationStep(r) /\ UNCHANGED <<routerVars, form, response>>
    BY <1>1 DEF Negotiate, gatewayOnlyVars, postVars, answerVars
  <2>2. HandlerInv(s)
    OBVIOUS
  <2>3. /\ pc'[s] = pc[s] /\ state'[s] = state[s] /\ rail'[s] = rail[s]
        /\ offered'[s] = offered[s] /\ verdict'[s] = verdict[s]
        /\ proposal'[s] = proposal[s] /\ exitStage'[s] = exitStage[s]
        /\ trail'[s] = trail[s] /\ log'[s] = log[s] /\ result'[s] = result[s]
        /\ seen'[s] = seen[s]
    BY <2>1, NegotiationStepOthers, NegotiationKeepsBudgets DEF budgetVars
  <2> QED BY <2>1, <2>3 DEF Untouched, routerVars
<1>2. CASE RouteOn(r) \/ RailActs(r)
  <2>1. /\ RouterStep(r) \/ RailDecides(r)
        /\ UNCHANGED <<agentVars, negotiationVars, form, response>>
    BY <1>2 DEF RouteOn, RailActs, gatewayOnlyVars, postVars, answerVars
  <2> QED BY <2>1, RouterStepOthers DEF Untouched, agentVars, negotiationVars
<1>3. CASE Post(r) \/ EntryGate(r) \/ GatherQuotes(r) \/ GateOrQuotesRaise(r)
  BY <1>3 DEF Post, RefuseUnconfigured, RefuseParameters, CreateTransfer, EntryGate, Answer,
     Transition, GatherQuotes, GateOrQuotesRaise, Goto, Untouched, NegotiationTypeOK,
     TransferTypeOK, AgentsTypeOK, transferVars, budgetVars, agentVars, negotiationVars,
     routerVars, gatewayOnlyVars, postVars, answerVars
<1>4. CASE Decline(r) \/ AnswerDelivered(r) \/ AnswerExhausted(r) \/ AnswerRaises(r)
  BY <1>4 DEF Decline, AnswerDelivered, AnswerExhausted, AnswerRaises, Answer, Goto, Untouched,
     transferVars, budgetVars, agentVars, negotiationVars, routerVars, gatewayOnlyVars,
     postVars, answerVars
<1>5. CASE Settle(r)
  BY <1>5 DEF Settle, StartRouting, Goto, Untouched, RouterTypeOK, transferVars, budgetVars,
     agentVars, negotiationVars, gatewayOnlyVars, postVars, answerVars
<1>6. CASE RecordArrives(r)
  BY <1>6 DEF RecordArrives, LateArrival, Untouched, NegotiationTypeOK, transferVars, budgetVars,
     agentVars, routerVars, gatewayOnlyVars, postVars, answerVars
<1> QED BY <1>1, <1>2, <1>3, <1>4, <1>5, <1>6 DEF Handle

\* A request that has ended takes no step; only a rail may still decide, and a record
\* still arrive.
LEMMA EndedTakesNoStep ==
  ASSUME NEW r \in Requests, GatewayInv, pc[r] \in Ended, Post(r) \/ Handle(r)
  PROVE  FALSE
<1> USE DEF GatewayInv, CoreTypes, Ended
<1>1. ~Negotiate(r)
  BY NegotiationStepEffect DEF Negotiate, HandlerInv, Negotiating, Validated, Undecided
<1>2. ~RouteOn(r)
  BY DEF RouteOn, RouterStep, Submit, RailConfirms, RailRefuses, RailStillSettling, OtherStatus,
         AdapterRaises, CheckRetryBudget, RetryOnAlternate
<1> QED
  BY <1>1, <1>2 DEF Post, RefuseUnconfigured, RefuseParameters, CreateTransfer, Handle, EntryGate,
     GatherQuotes, GateOrQuotesRaise, Decline, Settle, AnswerDelivered, AnswerExhausted,
     AnswerRaises

\* ... and what the rails were told and the transfer stay as they were, the log but for
\* that record.
EndStands(s) ==
  /\ pc'[s] = pc[s] /\ state'[s] = state[s] /\ rail'[s] = rail[s] /\ trail'[s] = trail[s]
  /\ log'[s] # log[s] => pc[s] \in {"raised", "lost"} /\ log'[s] = trail[s]
  /\ adapters' = adapters /\ approved'[s] = approved[s] /\ alternates'[s] = alternates[s]
  /\ Submitted(s)' = Submitted(s) /\ response'[s] = response[s]
  /\ \A x \in Rails : book[s][x] = "paid" => book'[s][x] = "paid"

LEMMA EndedStep ==
  ASSUME NEW s \in Requests, GatewayInv, pc[s] \in Ended, [GatewayNext]_gatewayVars,
         response \in [Requests -> Responses \cup {NoResponse}]
  PROVE  EndStands(s)
<1> USE DEF EndStands
<1>1. ASSUME NEW r \in Requests, r # s,
             Post(r) \/ Handle(r) \/ RailActs(r) \/ RecordArrives(r)
      PROVE  EndStands(s)
  <2>1. Untouched(s) /\ response'[s] = response[s]
    BY <1>1, OthersUntouched
  <2> QED BY <2>1 DEF Untouched, Submitted
<1>2. CASE RailActs(s)
  <2>1. RailDecides(s) /\ UNCHANGED <<trail, log, response>> /\ book \in [Requests -> [Rails -> RailPositions]]
    BY <1>2 DEF RailActs, negotiationVars, gatewayOnlyVars, answerVars, GatewayInv, CoreTypes,
                RouterTypeOK
  <2>2. PICK x \in Rails, decision \in {"paid", "refused"} :
          book[s][x] = "pending" /\ book' = [book EXCEPT ![s][x] = decision]
    BY <2>1 DEF RailDecides
  <2>3. Submitted(s)' = Submitted(s)
    BY <2>1, <2>2 DEF Submitted
  <2> QED BY <2>1, <2>2, <2>3 DEF RailDecides, transferVars
<1>3. CASE Crash
  <2>1. /\ pc'[s] = pc[s] /\ trail'[s] = trail[s]
        /\ UNCHANGED <<state, rail, log, adapters, approved, alternates, book, response>>
    BY <1>3, AuditStepValues DEF Crash, Running, Ended, routerVars, GatewayInv, CoreTypes,
                                 NegotiationTypeOK
  <2> QED BY <2>1 DEF Submitted
<1>4. CASE RecordArrives(s)
  <2>1. TrailInv(s) /\ log \in [Requests -> SUBSET AuditRecords]
    BY DEF GatewayInv, HandlerInv, CoreTypes, NegotiationTypeOK
  <2> QED
    BY <1>4, <2>1 DEF RecordArrives, LateArrival, TrailInv, transferVars, routerVars,
                      gatewayOnlyVars, answerVars, Submitted
<1>5. CASE UNCHANGED gatewayVars
  BY <1>5 DEF gatewayVars, transferVars, negotiationVars, routerVars, gatewayOnlyVars,
              answerVars, Submitted
<1> QED
  BY <1>1, <1>2, <1>3, <1>4, <1>5, EndedTakesNoStep DEF GatewayNext

-----------------------------------------------------------------------------
(* What the client is told.                                                *)

AnswerTypes ==
  /\ configured \in BOOLEAN
  /\ response \in [Requests -> Responses \cup {NoResponse}]
  /\ remembered \in [Ids -> Responses \cup {NoResponse}]
  /\ crashes \in 0 .. MaxCrashes

\* Where a verdict has been recorded it is one the Sentinel may return: it cites
\* something, and so will the answer.
VerdictInv(r) ==
  pc[r] \in {"audit_verdict", "audit_blocked", "audit_escalated", "negotiated"} =>
    verdict[r] \in Verdicts

\* The rail the router was entered with is the one the proposal named.
DispatchInv(r) ==
  pc[r] \in Routing \/ Submitted(r) # {} => approved[r] = proposal[r].rail

SettledInv(r) == pc[r] = "settled" => state[r] = "DELIVERED"

\* An answer is true of the transfer.
TrueOf(r, reply) ==
  /\ reply.status = state[r]
  /\ reply.cited # {}
  /\ reply.outcome = "DELIVERED" => reply.rail \in adapters /\ book[r][reply.rail] = "paid"
  /\ reply.outcome = "FAILED" => adapters \cap Submitted(r) # {}
  /\ reply.outcome \notin {"DELIVERED", "FAILED"} => Submitted(r) = {}

\* ... and its handler has ended.
Told(r) == response[r] # NoResponse => pc[r] = "answered" /\ TrueOf(r, response[r])

AnswerInv(r) == OrderInv(r) /\ VerdictInv(r) /\ DispatchInv(r) /\ SettledInv(r) /\ Told(r)

\* What is kept for an id is an answer given to a request that drew it.
HeldInv ==
  \A i \in Ids : remembered[i] # NoResponse =>
    \E r \in Requests : IdOf[r] = i /\ response[r] = remembered[i]

ClientInv ==
  /\ GatewayInv
  /\ AnswerTypes
  /\ \A r \in Requests : AnswerInv(r)
  /\ HeldInv

LEMMA VerdictsCite ==
  ASSUME NEW v \in Verdicts
  PROVE  v.cited # {} /\ v.cited \subseteq CitedRules
BY DEF Verdicts, IsVerdict, TimeoutVerdict, MalformedVerdict, FallbackVerdict, CitedRules

\* Every gate that objects cites the rule it goes by.
LEMMA GateCites ==
  ASSUME NEW f \in Forms, Evaluate(f).outcome # "PASS"
  PROVE  Evaluate(f).cited # {} /\ Evaluate(f).cited \subseteq CitedRules
<1>1. \A i \in 1 .. 7 : Gates(f)[i][2].cited # {}
  BY DEF Gates, Rejected, Verdict
<1>2. Objecting(f) # {}
  BY DEF Evaluate, Verdict
<1>3. Evaluate(f).cited # {}
  BY <1>1, <1>2, FirstObjectingIsAGate DEF Evaluate
<1> QED BY <1>3 DEF CitedRules

\* Past the negotiation a transfer that settles rests on a verdict of the Sentinel.
LEMMA JustifiedIsVerdict ==
  ASSUME NEW r \in Requests, Justified(r)
  PROVE  verdict[r] \in Verdicts
BY DEF Justified, Verdicts

LEMMA AnswerTyped ==
  ASSUME NEW r \in Requests, NEW reply \in Responses, AnswerTypes, Answer(r, reply)
  PROVE  AnswerTypes' /\ response'[r] = reply
BY DEF Answer, AnswerTypes, postVars

\* The parts of AnswerInv that an action keeps by not touching what they are about.
LEMMA AnswerFrame ==
  ASSUME NEW s \in Requests, AnswerInv(s), Untouched(s), response'[s] = response[s]
  PROVE  AnswerInv(s)'
<1>1. OrderInv(s)'
  BY OrderFrame DEF AnswerInv, Untouched
<1>2. Submitted(s)' = Submitted(s)
  BY DEF Submitted, Untouched
<1> QED BY <1>1, <1>2 DEF AnswerInv, VerdictInv, DispatchInv, SettledInv, Told, TrueOf, Untouched

\* Before the router is entered there is no rail to tell of and no order to keep.
LEMMA EarlyAnswerInv ==
  ASSUME NEW r \in Requests, Submitted(r) = {}, alternates[r] = {},
         UNCHANGED routerVars, pc'[r] \notin Routing, RoutingInv(r)'
  PROVE  OrderInv(r)' /\ DispatchInv(r)' /\ SettledInv(r)' /\ Submitted(r)' = {}
<1>1. Submitted(r)' = {} /\ alternates'[r] = {}
  BY DEF Submitted, routerVars
<1>2. state'[r] # "DELIVERED"
  BY <1>1 DEF RoutingInv, Submitted
<1> QED BY <1>1, <1>2 DEF OrderInv, DispatchInv, SettledInv, Routing

LEMMA ClientInit == GatewayInit => ClientInv
<1> SUFFICES ASSUME GatewayInit PROVE ClientInv
  OBVIOUS
<1>1. GatewayInv
  BY GatewayInitInv
<1>2. AnswerTypes
  BY GatewayAssumption DEF GatewayInit, AnswerTypes, GatewayAssumption
<1>3. ASSUME NEW r \in Requests PROVE AnswerInv(r)
  BY DEF GatewayInit, RouterStart, AnswerInv, OrderInv, VerdictInv, DispatchInv, SettledInv, Told,
         Submitted, Routing
<1>4. HeldInv
  BY DEF GatewayInit, HeldInv
<1> QED BY <1>1, <1>2, <1>3, <1>4 DEF ClientInv

\* The handler up to the negotiation: the gate's own answers are the only ones.
LEMMA ClientPost ==
  ASSUME NEW r \in Requests, ClientInv,
         Post(r) \/ EntryGate(r) \/ GatherQuotes(r) \/ GateOrQuotesRaise(r)
  PROVE  AnswerTypes' /\ AnswerInv(r)'
<1>1. GatewayInv /\ CoreTypes /\ HandlerInv(r) /\ AnswerInv(r) /\ AnswerTypes
  BY DEF ClientInv, GatewayInv
<1>2. /\ pc[r] \in {"idle", "entry_gate", "quotes"}
      /\ pc'[r] \in {"refused", "entry_gate", "quotes", "assess", "answered", "raised"}
      /\ UNCHANGED routerVars
  BY <1>1 DEF Post, RefuseUnconfigured, RefuseParameters, CreateTransfer, EntryGate, Answer,
     GatherQuotes, GateOrQuotesRaise, Goto, CoreTypes
<1>3. /\ Submitted(r) = {} /\ alternates[r] = {} /\ response[r] = NoResponse
      /\ pc[r] = "entry_gate" => state[r] = "INITIATED"
  BY <1>1, <1>2 DEF HandlerInv, LinkInv, Early, AnswerInv, Told
<1>4. /\ OrderInv(r)' /\ DispatchInv(r)' /\ SettledInv(r)' /\ VerdictInv(r)'
      /\ Submitted(r)' = {}
  <2>1. RoutingInv(r)'
    BY <1>1, PostInv, EntryGateInv, QuotesInv DEF GatewayInv, HandlerInv
  <2> QED BY <1>2, <1>3, <2>1, EarlyAnswerInv DEF Routing, VerdictInv
<1>5. CASE UNCHANGED gatewayOnlyVars
  BY <1>1, <1>3, <1>4, <1>5
     DEF AnswerInv, Told, AnswerTypes, gatewayOnlyVars, postVars, answerVars
<1>6. CASE EntryGate(r) /\ Evaluate(form[r]).outcome # "PASS"
  <2> DEFINE gate == Evaluate(form[r])
  <2>1. form[r] \in Forms /\ gate.cited # {} /\ gate.cited \subseteq CitedRules
    BY <1>1, <1>6, GateCites DEF CoreTypes
  <2>2. PICK reply : /\ Answer(r, reply)
                     /\ reply.status = state'[r]
                     /\ reply.cited # {} /\ reply.outcome \notin {"DELIVERED", "FAILED"}
                     /\ reply \in Responses
    <3>1. CASE gate.outcome = "ESCALATE"
      <4>1. /\ Answer(r, Reply(state[r], "ESCALATE", NoRail, gate.cited)) /\ state' = state
        BY <1>6, <3>1 DEF EntryGate
      <4> QED BY <1>1, <1>3, <1>6, <2>1, <3>1, <4>1
              DEF EntryGate, Reply, Responses, TransferStates
    <3>2. CASE gate.outcome = "REJECTED"
      <4>1. /\ Answer(r, Reply("REJECTED", "REJECTED", NoRail, gate.cited))
            /\ state'[r] = "REJECTED"
        BY <1>1, <1>6, <3>2 DEF EntryGate, Transition, CoreTypes, NegotiationTypeOK, TransferTypeOK
      <4> QED BY <2>1, <4>1 DEF Reply, Responses, TransferStates, Results
    <3> QED BY <1>6, <3>1, <3>2 DEF EntryGate
  <2>3. AnswerTypes' /\ response'[r] = reply /\ pc'[r] = "answered"
    BY <1>1, <2>2, AnswerTyped DEF Answer, Goto, CoreTypes
  <2>4. Told(r)'
    BY <1>4, <2>2, <2>3 DEF Told, TrueOf
  <2> QED BY <1>4, <2>3, <2>4 DEF AnswerInv
<1> QED
  BY <1>5, <1>6 DEF Post, RefuseUnconfigured, RefuseParameters, CreateTransfer, EntryGate,
     GatherQuotes, GateOrQuotesRaise

\* The negotiation returns with a verdict the answer can cite.
LEMMA NegotiationVerdict ==
  ASSUME NEW r \in Requests, NEW S, pc \in [Requests -> S],
         NegotiationTypeOK, NegotiationInv(r), VerdictInv(r), NegotiationStep(r)
  PROVE  VerdictInv(r)'
<1> USE DEF NegotiationTypeOK, TransferTypeOK, AgentsTypeOK, Goto, transferVars, budgetVars,
            agentVars, negotiationVars, VerdictInv, Validated, Undecided, Negotiating
<1>1. CASE Assess(r) /\ UNCHANGED negotiationVars
  BY <1>1 DEF Assess, SentinelConcludes, SentinelTimesOut, SentinelReasks, SentinelGivesUp,
              SentinelRaises, Conclude, Verdicts
<1>2. CASE Propose(r) /\ UNCHANGED negotiationVars
  BY <1>2 DEF Propose, StrategistConcludes, StrategistReasks, StrategistFails
<1>3. CASE Exit(r) \/ ExitRaises(r)
  BY <1>3 DEF Exit, ExitRaises
<1>4. CASE AuditVerdict(r)
  BY <1>4 DEF AuditVerdict
<1>5. CASE AuditBlocked(r) \/ AuditEscalated(r)
  BY <1>5 DEF AuditBlocked, AuditEscalated, Return
<1>6. CASE AuditValidated(r) \/ AuditProposal(r)
  BY <1>6 DEF AuditValidated, AuditProposal
<1>7. CASE AuditNoProposal(r) \/ AuditExit(r)
  <2>1. verdict[r] \in Verdicts
    BY <1>7 DEF AuditNoProposal, AuditExit, NegotiationInv, Verdicts
  <2> QED BY <1>7, <2>1 DEF AuditNoProposal, AuditExit, Return
<1>8. CASE AuditSettling(r)
  <2>1. verdict[r] \in Verdicts
    BY <1>8, JustifiedIsVerdict DEF AuditSettling, NegotiationInv
  <2> QED BY <1>8, <2>1 DEF AuditSettling, Return
<1>9. CASE AuditUnavailable(r)
  BY <1>9 DEF AuditUnavailable
<1> QED
  BY <1>1, <1>2, <1>3, <1>4, <1>5, <1>6, <1>7, <1>8, <1>9 DEF NegotiationStep

LEMMA ClientNegotiate ==
  ASSUME NEW r \in Requests, ClientInv, Negotiate(r)
  PROVE  AnswerTypes' /\ AnswerInv(r)'
<1>1. /\ GatewayInv /\ CoreTypes /\ HandlerInv(r) /\ AnswerInv(r) /\ AnswerTypes
      /\ NegotiationStep(r) /\ UNCHANGED <<routerVars, gatewayOnlyVars>>
  BY DEF ClientInv, GatewayInv, Negotiate
<1>2. pc[r] \in Negotiating /\ pc'[r] \in Negotiating \cup {"negotiated", "raised"}
  BY <1>1, NegotiationStepEffect DEF CoreTypes, HandlerInv
<1>3. Submitted(r) = {} /\ alternates[r] = {} /\ response[r] = NoResponse
  BY <1>1, <1>2 DEF HandlerInv, LinkInv, Early, AnswerInv, Told, Negotiating, Validated, Undecided
<1>4. OrderInv(r)' /\ DispatchInv(r)' /\ SettledInv(r)'
  <2>1. RoutingInv(r)'
    BY <1>1, NegotiateInv DEF GatewayInv, HandlerInv
  <2> QED BY <1>1, <1>2, <1>3, <2>1, EarlyAnswerInv DEF Routing, Negotiating, Validated, Undecided
<1>5. VerdictInv(r)'
  BY <1>1, NegotiationVerdict DEF CoreTypes, HandlerInv, AnswerInv
<1> QED
  BY <1>1, <1>3, <1>4, <1>5
     DEF AnswerInv, Told, AnswerTypes, gatewayOnlyVars, postVars, answerVars

\* The router is entered with the proposed rail, which has an adapter or raises.
LEMMA ClientSettle ==
  ASSUME NEW r \in Requests, ClientInv, Settle(r)
  PROVE  AnswerTypes' /\ AnswerInv(r)'
<1>1. /\ GatewayInv /\ CoreTypes /\ HandlerInv(r) /\ AnswerInv(r) /\ AnswerTypes
  BY DEF ClientInv, GatewayInv
<1>2. /\ pc[r] = "negotiated"
      /\ \/ pc'[r] = "submit" /\ proposal[r].rail \in adapters
         \/ pc'[r] = "raised"
      /\ approved'[r] = proposal[r].rail
      /\ UNCHANGED <<transferVars, agentVars, adapters, papss, alternates, book, gatewayOnlyVars>>
  BY <1>1 DEF Settle, StartRouting, Goto, CoreTypes, RouterTypeOK
<1>3. Submitted(r) = {} /\ alternates[r] = {} /\ response[r] = NoResponse
  BY <1>1, <1>2 DEF HandlerInv, LinkInv, Early, AnswerInv, Told
<1>4. Submitted(r)' = {} /\ alternates'[r] = {}
  BY <1>2, <1>3 DEF Submitted
<1>5. OrderInv(r)' /\ DispatchInv(r)'
  <2>1. state[r] = "SETTLING" /\ rail[r] = proposal[r].rail
    BY <1>1, <1>2 DEF Settle, HandlerInv, LinkInv
  <2>2. state'[r] = "SETTLING" /\ rail'[r] = approved'[r]
    BY <1>2, <2>1 DEF transferVars
  <2> QED BY <1>2, <1>4, <2>2 DEF OrderInv, NamesTheLast, DispatchInv, agentVars
<1> QED
  BY <1>1, <1>2, <1>3, <1>5 DEF AnswerInv, VerdictInv, SettledInv, Told, AnswerTypes,
     gatewayOnlyVars, postVars, answerVars

LEMMA ClientRouteOn ==
  ASSUME NEW r \in Requests, ClientInv, RouteOn(r)
  PROVE  AnswerTypes' /\ AnswerInv(r)'
<1>1. /\ GatewayInv /\ CoreTypes /\ HandlerInv(r) /\ AnswerInv(r) /\ AnswerTypes
      /\ RouterStep(r) /\ UNCHANGED <<agentVars, negotiationVars, gatewayOnlyVars>>
  BY DEF ClientInv, GatewayInv, RouteOn
<1>2. /\ pc[r] \in {"submit", "await_rail", "retry", "count_retry"}
      /\ pc'[r] \in Routing \cup {"raised"}
      /\ pc'[r] = "settled" => state'[r] = "DELIVERED"
      /\ approved' = approved
  BY <1>1 DEF RouterStep, Submit, RailConfirms, RailRefuses, RailStillSettling, OtherStatus,
     AdapterRaises, CheckRetryBudget, RetryOnAlternate, Transition, Goto, Routing, routerVars,
     CoreTypes, RouterTypeOK, TransferTypeOK
<1>3. OrderInv(r)'
  BY <1>1, OrderStep DEF CoreTypes, HandlerInv, AnswerInv
<1>4. response[r] = NoResponse
  BY <1>1, <1>2 DEF AnswerInv, Told
<1>5. approved[r] = proposal[r].rail
  BY <1>1, <1>2 DEF AnswerInv, DispatchInv, Routing
<1> QED
  BY <1>1, <1>2, <1>3, <1>4, <1>5 DEF AnswerInv, VerdictInv, DispatchInv, SettledInv, Told,
     AnswerTypes, Routing, agentVars, gatewayOnlyVars, postVars, answerVars

\* The four ways out of the handler once the negotiation has returned.
LEMMA ClientAnswers ==
  ASSUME NEW r \in Requests, ClientInv,
         Decline(r) \/ AnswerDelivered(r) \/ AnswerExhausted(r) \/ AnswerRaises(r)
  PROVE  AnswerTypes' /\ AnswerInv(r)'
<1>1. GatewayInv /\ CoreTypes /\ HandlerInv(r) /\ AnswerInv(r) /\ AnswerTypes
  BY DEF ClientInv, GatewayInv
<1>2. /\ pc[r] \in {"negotiated", "settled", "exhausted"}
      /\ pc'[r] \in {"answered", "raised"}
      /\ UNCHANGED <<transferVars, agentVars, negotiationVars, routerVars>>
  BY <1>1 DEF Decline, AnswerDelivered, AnswerExhausted, AnswerRaises, Answer, Goto, CoreTypes
<1>3. Submitted(r)' = Submitted(r) /\ Untried(r)' = Untried(r)
  BY <1>2 DEF Submitted, Untried, Candidates, routerVars
<1>4. response[r] = NoResponse
  BY <1>1, <1>2 DEF AnswerInv, Told
<1>5. OrderInv(r)'
  BY <1>1, <1>2, OrderFrame DEF AnswerInv, routerVars, transferVars
<1>6. VerdictInv(r)' /\ DispatchInv(r)' /\ SettledInv(r)'
  BY <1>1, <1>2, <1>3 DEF AnswerInv, VerdictInv, DispatchInv, SettledInv, Routing,
                          routerVars, agentVars
<1>7. /\ verdict[r] \in Verdicts
      /\ state[r] \in TransferStates /\ rail[r] \in Rails \cup {NoRail}
      /\ result[r] \in Results
  BY <1>1, <1>2, JustifiedIsVerdict
     DEF HandlerInv, LinkInv, NegotiationInv, Routing, AnswerInv, VerdictInv, CoreTypes,
         NegotiationTypeOK, TransferTypeOK
<1>8. ASSUME NEW reply \in Responses, Answer(r, reply), TrueOf(r, reply)
      PROVE  AnswerTypes' /\ AnswerInv(r)'
  <2>1. AnswerTypes' /\ response'[r] = reply /\ pc'[r] = "answered"
    BY <1>1, <1>8, AnswerTyped DEF Answer, Goto, CoreTypes
  <2>2. Told(r)'
    BY <1>2, <1>3, <1>8, <2>1 DEF Told, TrueOf, transferVars, routerVars
  <2> QED BY <1>5, <1>6, <2>1, <2>2 DEF AnswerInv
<1>9. CASE Decline(r)
  <2> DEFINE reply == Reply(state[r], result[r], NoRail, verdict[r].cited)
  <2>1. reply \in Responses
    BY <1>7, VerdictsCite DEF Reply, Responses
  <2>2. TrueOf(r, reply)
    <3>1. Submitted(r) = {} /\ result[r] \notin {"DELIVERED", "FAILED"}
      BY <1>1, <1>7, <1>9 DEF Decline, HandlerInv, LinkInv, Early, Results
    <3> QED BY <1>7, <3>1, VerdictsCite DEF TrueOf, Reply
  <2> QED BY <1>8, <1>9, <2>1, <2>2 DEF Decline
<1>10. CASE AnswerDelivered(r)
  <2> DEFINE reply == Reply(state[r], "DELIVERED", rail[r], verdict[r].cited)
  <2>1. reply \in Responses
    BY <1>7, VerdictsCite DEF Reply, Responses
  <2>2. TrueOf(r, reply)
    <3>1. state[r] = "DELIVERED" /\ rail[r] \in Chosen(r) /\ book[r][rail[r]] = "paid"
      BY <1>1, <1>10 DEF AnswerDelivered, AnswerInv, SettledInv, HandlerInv, RoutingInv
    <3>2. rail[r] \in Submitted(r)
      BY <1>1, <3>1 DEF HandlerInv, RoutingInv, Submitted
    <3>3. rail[r] \in adapters
      BY <1>1, <3>1, <3>2 DEF AnswerInv, OrderInv, BeforeTheRest, Chosen
    <3> QED BY <1>7, <3>1, <3>3, VerdictsCite DEF TrueOf, Reply
  <2> QED BY <1>8, <1>10, <2>1, <2>2 DEF AnswerDelivered
<1>11. CASE AnswerExhausted(r)
  <2> DEFINE reply == Reply("FAILED", "FAILED", NoRail, verdict[r].cited)
  <2>1. reply \in Responses
    BY <1>7, VerdictsCite DEF Reply, Responses, TransferStates
  <2>2. TrueOf(r, reply)
    <3>1. state[r] = "FAILED" /\ approved[r] \in Submitted(r)
      BY <1>1, <1>11 DEF AnswerExhausted, HandlerInv, RoutingInv, Chosen
    <3>2. approved[r] \in adapters
      BY <1>1, <3>1 DEF AnswerInv, OrderInv
    <3> QED BY <1>7, <3>1, <3>2, VerdictsCite DEF TrueOf, Reply
  <2> QED BY <1>8, <1>11, <2>1, <2>2 DEF AnswerExhausted
<1>12. CASE AnswerRaises(r)
  BY <1>1, <1>4, <1>5, <1>6, <1>12
     DEF AnswerRaises, AnswerInv, Told, AnswerTypes, gatewayOnlyVars, postVars, answerVars
<1> QED BY <1>9, <1>10, <1>11, <1>12

\* A rail's decision changes no answer: what it paid before, it has paid.
LEMMA ClientRailActs ==
  ASSUME NEW r \in Requests, ClientInv, RailActs(r)
  PROVE  AnswerTypes' /\ AnswerInv(r)'
<1>1. /\ GatewayInv /\ CoreTypes /\ HandlerInv(r) /\ AnswerInv(r) /\ AnswerTypes
      /\ RailDecides(r) /\ UNCHANGED <<agentVars, negotiationVars, gatewayOnlyVars>>
  BY DEF ClientInv, GatewayInv, RailActs
<1>2. PICK x \in Rails, decision \in {"paid", "refused"} :
        book[r][x] = "pending" /\ book' = [book EXCEPT ![r][x] = decision]
  BY <1>1 DEF RailDecides
<1>3. /\ UNCHANGED <<pc, transferVars, adapters, papss, approved, alternates>>
      /\ Submitted(r)' = Submitted(r)
  BY <1>1, <1>2 DEF RailDecides, Submitted, CoreTypes, RouterTypeOK
<1>4. \A y : book[r][y] = "paid" /\ y \in adapters => book'[r][y] = "paid"
  BY <1>1, <1>2 DEF CoreTypes, RouterTypeOK
<1>5. OrderInv(r)'
  BY <1>1, OrderStep DEF CoreTypes, HandlerInv, AnswerInv
<1> QED
  BY <1>1, <1>3, <1>4, <1>5 DEF AnswerInv, VerdictInv, DispatchInv, SettledInv, Told, TrueOf,
     AnswerTypes, transferVars, agentVars, gatewayOnlyVars, postVars, answerVars

\* The answers say nothing of the log.
LEMMA ClientRecordArrives ==
  ASSUME NEW r \in Requests, ClientInv, RecordArrives(r)
  PROVE  AnswerTypes' /\ AnswerInv(r)'
<1>1. /\ AnswerInv(r) /\ AnswerTypes
      /\ UNCHANGED <<pc, transferVars, agentVars, routerVars, gatewayOnlyVars>>
  BY DEF ClientInv, RecordArrives, LateArrival
<1>2. Submitted(r)' = Submitted(r)
  BY <1>1 DEF Submitted, routerVars
<1>3. OrderInv(r)'
  BY <1>1, OrderFrame DEF AnswerInv, routerVars, transferVars
<1> QED
  BY <1>1, <1>2, <1>3 DEF AnswerInv, VerdictInv, DispatchInv, SettledInv, Told, TrueOf,
     AnswerTypes, transferVars, agentVars, routerVars, gatewayOnlyVars, postVars, answerVars

\* The crash forgets the answers a GET reads, not the ones that were given.
LEMMA ClientCrash ==
  ASSUME ClientInv, Crash
  PROVE  AnswerTypes' /\ \A s \in Requests : AnswerInv(s)'
<1>1. GatewayInv /\ CoreTypes /\ AnswerTypes
  BY DEF ClientInv, GatewayInv
<1>2. /\ UNCHANGED <<state, rail, agentVars, routerVars, response, configured>>
      /\ pc' = [r \in Requests |-> IF Running(r) THEN "lost" ELSE pc[r]]
      /\ remembered' = [i \in Ids |-> NoResponse]
      /\ crashes < MaxCrashes /\ crashes' = crashes + 1
  BY DEF Crash, postVars
<1>3. AnswerTypes'
  BY <1>1, <1>2, GatewayAssumption DEF AnswerTypes, GatewayAssumption
<1>4. ASSUME NEW s \in Requests PROVE AnswerInv(s)'
  <2>1. \/ pc'[s] = "lost" /\ pc[s] # "answered"
        \/ pc'[s] = pc[s] /\ pc[s] \in Ended \cup {"idle"}
    BY <1>2 DEF Running, Ended
  <2>2. /\ Submitted(s)' = Submitted(s) /\ Untried(s)' = Untried(s)
        /\ UNCHANGED <<adapters, papss, approved, alternates, book>>
    BY <1>2 DEF routerVars, Submitted, Untried, Candidates
  <2>3. OrderInv(s)'
    BY <1>2, <2>1, <2>2, OrderFrame DEF ClientInv, AnswerInv
  <2>4. VerdictInv(s)' /\ DispatchInv(s)' /\ SettledInv(s)'
    BY <1>2, <2>1, <2>2 DEF ClientInv, AnswerInv, VerdictInv, DispatchInv, SettledInv, Routing,
                            Ended, agentVars
  <2>5. Told(s)'
    BY <1>2, <2>1, <2>2 DEF ClientInv, AnswerInv, Told, TrueOf
  <2> QED BY <2>3, <2>4, <2>5 DEF AnswerInv
<1> QED BY <1>3, <1>4

\* Only an answer is kept, and only where its own request's id points.
LEMMA HeldStep ==
  ASSUME ClientInv, [GatewayNext]_gatewayVars
  PROVE  HeldInv'
<1>1. GatewayInv /\ CoreTypes /\ AnswerTypes /\ HeldInv
  BY DEF ClientInv, GatewayInv
<1>2. CASE Crash
  BY <1>2 DEF Crash, HeldInv
<1>3. CASE UNCHANGED answerVars
  BY <1>1, <1>3 DEF HeldInv, answerVars
<1>4. ASSUME NEW r \in Requests, NEW reply, Answer(r, reply), pc[r] # "answered",
             \A s \in Requests : s # r => response'[s] = response[s]
      PROVE  HeldInv'
  <2>1. response[r] = NoResponse
    BY <1>4 DEF ClientInv, AnswerInv, Told
  <2>2. /\ response'[r] = reply /\ remembered'[IdOf[r]] = reply
        /\ \A i \in Ids : i # IdOf[r] => remembered'[i] = remembered[i]
    BY <1>1, <1>4, OrchestratorAssumption DEF Answer, AnswerTypes, OrchestratorAssumption
  <2>3. ASSUME NEW i \in Ids, remembered'[i] # NoResponse
        PROVE  \E s \in Requests : IdOf[s] = i /\ response'[s] = remembered'[i]
    <3>1. CASE i = IdOf[r]
      BY <2>2, <3>1
    <3>2. CASE i # IdOf[r]
      <4>1. PICK s \in Requests : IdOf[s] = i /\ response[s] = remembered[i]
        BY <1>1, <2>2, <2>3, <3>2 DEF HeldInv
      <4> QED BY <1>4, <2>1, <2>2, <2>3, <3>2, <4>1
    <3> QED BY <3>1, <3>2
  <2> QED BY <2>3 DEF HeldInv
<1>5. ASSUME NEW r \in Requests, Post(r) \/ Handle(r) \/ RailActs(r) \/ RecordArrives(r)
      PROVE  HeldInv'
  <2>1. \A s \in Requests : s # r => response'[s] = response[s]
    BY <1>1, <1>5, OthersUntouched DEF AnswerTypes
  <2>2. \/ UNCHANGED answerVars
        \/ \E reply : Answer(r, reply) /\ pc[r] # "answered"
    BY <1>5 DEF Post, RefuseUnconfigured, RefuseParameters, CreateTransfer, Handle, EntryGate,
       GatherQuotes, GateOrQuotesRaise, Negotiate, Decline, Settle, RouteOn, AnswerDelivered,
       AnswerExhausted, AnswerRaises, RailActs, RecordArrives, gatewayOnlyVars
  <2> QED BY <1>3, <1>4, <2>1, <2>2
<1> QED BY <1>2, <1>3, <1>5 DEF GatewayNext, gatewayVars, gatewayOnlyVars

LEMMA ClientInductive ==
  ClientInv /\ [GatewayNext]_gatewayVars => ClientInv'
<1> SUFFICES ASSUME ClientInv, [GatewayNext]_gatewayVars
             PROVE  ClientInv'
  OBVIOUS
<1>1. GatewayInv'
  BY GatewayInvInductive DEF ClientInv
<1>2. ASSUME NEW r \in Requests, Post(r) \/ Handle(r) \/ RailActs(r) \/ RecordArrives(r)
      PROVE  AnswerTypes' /\ \A s \in Requests : AnswerInv(s)'
  <2>1. AnswerTypes' /\ AnswerInv(r)'
    BY <1>2, ClientPost, ClientNegotiate, ClientSettle, ClientRouteOn, ClientAnswers,
       ClientRailActs, ClientRecordArrives DEF Handle
  <2>2. ASSUME NEW s \in Requests, s # r PROVE AnswerInv(s)'
    BY <1>2, <2>2, OthersUntouched, AnswerFrame DEF ClientInv, AnswerTypes
  <2> QED BY <2>1, <2>2
<1>3. ASSUME UNCHANGED gatewayVars
      PROVE  AnswerTypes' /\ \A s \in Requests : AnswerInv(s)'
  <2>1. AnswerTypes'
    BY <1>3 DEF ClientInv, AnswerTypes, gatewayVars, gatewayOnlyVars, postVars, answerVars
  <2>2. ASSUME NEW s \in Requests PROVE Untouched(s) /\ response'[s] = response[s]
    BY <1>3 DEF Untouched, gatewayVars, transferVars, budgetVars, agentVars, negotiationVars,
       routerVars, gatewayOnlyVars, postVars, answerVars
  <2>3. \A s \in Requests : AnswerInv(s)'
    BY <2>2, AnswerFrame DEF ClientInv
  <2> QED BY <2>1, <2>3
<1>4. HeldInv'
  BY HeldStep
<1>5. AnswerTypes' /\ \A s \in Requests : AnswerInv(s)'
  BY <1>2, <1>3, ClientCrash DEF GatewayNext
<1> QED BY <1>1, <1>4, <1>5 DEF ClientInv

\* What the answers rest on holds of every state the gateway reaches, crashes included.
THEOREM ClientInvAlways == GatewaySpec => []ClientInv
  BY ClientInit, ClientInductive, PTL DEF GatewaySpec

\* Every variable of the composed system keeps its type, the answers given and
\* the answers kept among them.
THEOREM GatewayTypesHold == GatewaySpec => []GatewayTypeInvariant
<1>1. ClientInv => GatewayTypeInvariant
  BY DEF ClientInv, AnswerTypes, GatewayInv, CoreTypes, GatewayTypeInvariant
<1> QED BY <1>1, ClientInvAlways, PTL

\* Whichever rail was told of a payment, the rail approved for it had been told
\* first, had quoted, and is allowed and fast enough by the verdict.
THEOREM ApprovalStands == GatewaySpec => []ApprovedRailIsJustified
<1>1. ASSUME ClientInv, NEW r \in Requests, Submitted(r) # {}
      PROVE  /\ book[r][approved[r]] # "none"
             /\ approved[r] \in offered[r] \ verdict[r].forbidden
             /\ verdict[r].outcome = "PASS" /\ verdict[r] \in SentinelReplies
             /\ verdict[r].maxSeconds # NoLimit =>
                  RailTerms[approved[r]].seconds <= verdict[r].maxSeconds
  <2>1. Justified(r)
    BY <1>1 DEF ClientInv, GatewayInv, HandlerInv, LinkInv, NegotiationInv
  <2>2. approved[r] = proposal[r].rail /\ approved[r] \in Submitted(r)
    BY <1>1 DEF ClientInv, AnswerInv, DispatchInv, OrderInv
  <2> QED BY <2>1, <2>2 DEF Justified, Citable, RailEligible, Quoted, Submitted
<1>2. ClientInv => ApprovedRailIsJustified
  BY <1>1 DEF ApprovedRailIsJustified
<1> QED BY <1>2, ClientInvAlways, PTL

\* No answer says anything of a transfer that is not so, then or later.
THEOREM AnswersAreTrue == GatewaySpec => []AnswerIsTrue
<1>1. ClientInv => AnswerIsTrue
  BY DEF ClientInv, HeldInv, AnswerInv, Told, TrueOf, AnswerIsTrue
<1> QED BY <1>1, ClientInvAlways, PTL

\* Nothing of a transfer moves once its handler has ended, whoever else runs on.
THEOREM EndIsFinal == GatewaySpec => NothingAfterTheEnd
<1>1. ASSUME ClientInv, [GatewayNext]_gatewayVars, NEW s \in Requests, pc[s] \in Ended
      PROVE  /\ pc'[s] = pc[s] /\ state'[s] = state[s]
             /\ Submitted(s)' = Submitted(s) /\ trail'[s] = trail[s]
             /\ log'[s] # log[s] => pc[s] \in {"raised", "lost"} /\ log'[s] = trail[s]
  BY <1>1, EndedStep DEF ClientInv, AnswerTypes, EndStands
<1>2. ClientInv /\ [GatewayNext]_gatewayVars =>
        [\A r \in Requests : pc[r] \in Ended =>
           /\ pc'[r] = pc[r]
           /\ state'[r] = state[r]
           /\ Submitted(r)' = Submitted(r)
           /\ trail'[r] = trail[r]
           /\ log'[r] # log[r] => pc[r] \in {"raised", "lost"} /\ log'[r] = trail[r]]_gatewayVars
  BY <1>1
<1> QED BY <1>2, ClientInvAlways, PTL DEF GatewaySpec, NothingAfterTheEnd

-----------------------------------------------------------------------------
(* What the router promises, within the gateway: among the steps of the    *)
(* other parts, and across crashes that empty the retry counts.            *)

\* No rail is sent the same payment twice, whatever the gateway was doing in between.
THEOREM GatewaySubmitsOnce == GatewaySpec => []NeverSubmittedTwice
<1>1. GatewayInv => NeverSubmittedTwice
  BY DEF GatewayInv, HandlerInv, RoutingInv, NeverSubmittedTwice
<1> QED BY <1>1, GatewayInvAlways, PTL

\* A delivered transfer names the rail that delivered it, the last one told.
THEOREM GatewayDeliversByTheLastTold == GatewaySpec => []DeliveredByTheLastTold
<1>1. ClientInv => DeliveredByTheLastTold
  BY DeliveredNamesTheLast
    DEF ClientInv, GatewayInv, HandlerInv, AnswerInv, DeliveredByTheLastTold
<1> QED BY <1>1, ClientInvAlways, PTL

\* The retry counts, which a crash empties while the retries were made all the same.
CountedInv == GatewayInv /\ RetryCountInv

LEMMA CountedInit == GatewayInit => CountedInv
<1> SUFFICES ASSUME GatewayInit PROVE RetryCountInv
  BY GatewayInitInv DEF CountedInv
<1>1. ASSUME NEW i \in Ids
      PROVE  IsFiniteSet(RetriesUnder(i)) /\ Cardinality(RetriesUnder(i)) = 0 /\ retryCount[i] = 0
  <2>1. RetriesUnder(i) = {} /\ retryCount[i] = 0
    BY DEF GatewayInit, RouterStart, RetriesUnder
  <2> QED BY <2>1, FS_EmptySet
<1>2. \A r \in Requests : seen[r] = 0 /\ IdOf[r] \in Ids
  BY OrchestratorAssumption DEF GatewayInit, OrchestratorAssumption
<1> QED BY <1>1, <1>2 DEF RetryCountInv

LEMMA CountedInductive ==
  CountedInv /\ [GatewayNext]_gatewayVars => CountedInv'
<1> SUFFICES ASSUME GatewayInv, RetryCountInv, [GatewayNext]_gatewayVars
             PROVE  RetryCountInv'
  BY GatewayInvInductive DEF CountedInv
<1>1. /\ RouterTypeOK /\ \A r \in Requests : RoutingInv(r)
      /\ \A i \in Ids : retryCount[i] \in Nat
  BY CountTypes DEF GatewayInv, CoreTypes, HandlerInv
<1>2. ASSUME NEW r \in Requests, RouteOn(r) \/ RailActs(r)
      PROVE  RetryCountInv'
  BY <1>1, <1>2, RetryCountStep DEF RouteOn, RailActs
<1>3. ASSUME NEW r \in Requests, Negotiate(r)
      PROVE  UNCHANGED <<budgetVars, alternates>>
  BY <1>3, NegotiationKeepsBudgets DEF Negotiate, routerVars
<1>4. ASSUME NEW r \in Requests, Post(r) \/ Handle(r) \/ RecordArrives(r),
             ~Negotiate(r), ~RouteOn(r)
      PROVE  UNCHANGED <<budgetVars, alternates>>
  BY <1>4 DEF Post, RefuseUnconfigured, RefuseParameters, CreateTransfer, Handle, EntryGate,
     GatherQuotes, GateOrQuotesRaise, Decline, Settle, StartRouting, AnswerDelivered,
     AnswerExhausted, AnswerRaises, RecordArrives, LateArrival, transferVars, routerVars
<1>5. CASE UNCHANGED gatewayVars
  BY <1>1, <1>5, RetryCountFrame DEF gatewayVars, transferVars, budgetVars, routerVars
<1>6. CASE Crash
  BY <1>1, <1>6, RetryCountFrame DEF Crash, routerVars
<1>7. CASE UNCHANGED <<budgetVars, alternates>>
  BY <1>1, <1>7, RetryCountFrame DEF budgetVars
<1> QED BY <1>2, <1>3, <1>4, <1>5, <1>6, <1>7 DEF GatewayNext, Handle

\* A handler answers FAILED only when it has no rail left, or when the whole budget was
\* spent on retries that were really made under its id, before a crash or after it.
THEOREM GatewayGivesUpForGood == GatewaySpec => []ExhaustedMeansExhausted
<1>1. CountedInv => ExhaustedMeansExhausted
  BY SpentIsSpent DEF CountedInv, GatewayInv, HandlerInv, ExhaustedMeansExhausted
<1> QED BY <1>1, CountedInit, CountedInductive, PTL DEF GatewaySpec

\* The approved rail goes first, and each alternate before those of lower priority.
THEOREM GatewayKeepsTheOrder == GatewaySpec => []AttemptsInOrder
<1>1. ClientInv => AttemptsInOrder
  BY SubmittedInOrder DEF ClientInv, GatewayInv, HandlerInv, AnswerInv, AttemptsInOrder
<1> QED BY <1>1, ClientInvAlways, PTL

-----------------------------------------------------------------------------
(* What the negotiation promises, within the gateway.                      *)

\* The Sentinel has not spoken before the negotiation is entered.
UnheardInv(r) == pc[r] \in {"idle", "entry_gate", "quotes"} => verdict[r] = NoVerdict

CoordinatorInv ==
  /\ GatewayInv
  /\ \A r \in Requests : OutcomeInv(r) /\ UnheardInv(r)

\* Both are about these parts of a request.
LEMMA CoordinatorFrame ==
  ASSUME NEW s \in Requests, OutcomeInv(s), UnheardInv(s),
         pc'[s] = pc[s], state'[s] = state[s], verdict'[s] = verdict[s], result'[s] = result[s]
  PROVE  OutcomeInv(s)' /\ UnheardInv(s)'
BY DEF OutcomeInv, UnheardInv

\* A thread outside the negotiation, and not just entering or leaving it.
LEMMA ElsewhereOutcome ==
  ASSUME NEW r \in Requests, UnheardInv(r), verdict'[r] = verdict[r],
         pc'[r] \notin {"assess", "reassess", "audit_blocked", "negotiated"},
         pc'[r] \in {"idle", "entry_gate", "quotes"} => pc[r] \in {"idle", "entry_gate"}
  PROVE  OutcomeInv(r)' /\ UnheardInv(r)'
BY DEF OutcomeInv, UnheardInv

\* Every step of a request, but for the negotiation's own, leaves the verdict and the
\* proposal alone, and moves the state only before the negotiation or after it.
LEMMA OtherSteps ==
  ASSUME NEW r \in Requests, GatewayInv,
         Post(r) \/ Handle(r) \/ RailActs(r) \/ RecordArrives(r)
  PROVE  \/ NegotiationStep(r)
         \/ /\ UNCHANGED <<verdict, proposal, result>>
            /\ \A s \in Requests : s # r => pc'[s] = pc[s] /\ state'[s] = state[s]
            /\ \/ pc' = pc /\ state' = state
               \/ pc[r] = "idle" /\ pc'[r] \in {"refused", "entry_gate"}
               \/ /\ pc[r] \in {"entry_gate", "quotes"}
                  /\ pc'[r] \in {"quotes", "assess", "answered", "raised"}
                  /\ pc'[r] \in {"quotes", "assess"} => pc[r] # pc'[r]
                  /\ state'[r] \in {state[r], "REJECTED"}
                  /\ pc'[r] = "assess" => state' = state
               \/ pc[r] = "negotiated" /\ pc'[r] \in {"answered", "raised", "submit"} /\ state' = state
               \/ pc[r] \in Routing /\ pc'[r] \in Routing \cup {"answered", "raised"}
<1> USE DEF GatewayInv, CoreTypes, NegotiationTypeOK, TransferTypeOK, transferVars, budgetVars,
            agentVars, negotiationVars, gatewayOnlyVars, Goto
<1>1. CASE Post(r)
  BY <1>1 DEF Post, RefuseUnconfigured, RefuseParameters, CreateTransfer
<1>2. CASE EntryGate(r) \/ GatherQuotes(r) \/ GateOrQuotesRaise(r)
  BY <1>2 DEF EntryGate, Transition, Answer, GatherQuotes, GateOrQuotesRaise
<1>3. CASE Decline(r) \/ Settle(r)
  BY <1>3 DEF Decline, Settle, StartRouting, Answer
<1>4. CASE AnswerDelivered(r) \/ AnswerExhausted(r) \/ AnswerRaises(r)
  BY <1>4 DEF AnswerDelivered, AnswerExhausted, AnswerRaises, Answer, Routing
<1>5. CASE RouteOn(r) \/ RailActs(r)
  <2>1. /\ RouterStep(r) \/ RailDecides(r)
        /\ UNCHANGED <<verdict, proposal, result>>
    BY <1>5 DEF RouteOn, RailActs
  <2>2. \A s \in Requests : s # r => pc'[s] = pc[s] /\ state'[s] = state[s]
    BY <2>1, RouterStepOthers
  <2>3. \/ pc[r] \in Routing /\ pc'[r] \in Routing \cup {"raised"}
        \/ pc' = pc /\ state' = state
    BY <2>1, RouterStepEffect
      DEF HandlerInv, Routing, RailDecides, RouterStep, Submit, RailConfirms, RailRefuses,
          RailStillSettling, OtherStatus, AdapterRaises, CheckRetryBudget, RetryOnAlternate
  <2> QED BY <2>1, <2>2, <2>3
<1>6. CASE RecordArrives(r)
  BY <1>6 DEF RecordArrives, LateArrival
<1>7. CASE Negotiate(r)
  BY <1>7 DEF Negotiate
<1> QED BY <1>1, <1>2, <1>3, <1>4, <1>5, <1>6, <1>7 DEF Handle

LEMMA CoordinatorInit == GatewayInit => CoordinatorInv
<1>1. ASSUME GatewayInit, NEW r \in Requests PROVE OutcomeInv(r) /\ UnheardInv(r)
  BY <1>1 DEF GatewayInit, NegotiationStart, OutcomeInv, UnheardInv
<1> QED BY <1>1, GatewayInitInv DEF CoordinatorInv

LEMMA CoordinatorInductive ==
  CoordinatorInv /\ [GatewayNext]_gatewayVars => CoordinatorInv'
<1> SUFFICES ASSUME CoordinatorInv, [GatewayNext]_gatewayVars,
                    NEW s \in Requests
             PROVE  OutcomeInv(s)' /\ UnheardInv(s)'
  BY GatewayInvInductive DEF CoordinatorInv
<1>1. GatewayInv /\ CoreTypes /\ OutcomeInv(s) /\ UnheardInv(s)
  BY DEF CoordinatorInv, GatewayInv
<1>2. ASSUME NEW r \in Requests, Post(r) \/ Handle(r) \/ RailActs(r) \/ RecordArrives(r)
      PROVE  OutcomeInv(s)' /\ UnheardInv(s)'
  <2>1. CASE NegotiationStep(r) /\ r = s
    <3>1. pc'[r] \in Negotiating \cup {"negotiated", "raised"}
      BY <1>1, <2>1, NegotiationStepEffect DEF CoreTypes, GatewayInv, HandlerInv
    <3>2. OutcomeInv(r)'
      BY <1>1, <2>1, OutcomeStep DEF CoreTypes, GatewayInv, HandlerInv
    <3> QED BY <2>1, <3>1, <3>2 DEF UnheardInv, Negotiating, Validated, Undecided
  <2>2. CASE NegotiationStep(r) /\ r # s
    BY <1>1, <2>2, NegotiationStepOthers, CoordinatorFrame DEF CoreTypes
  <2>3. CASE ~NegotiationStep(r) /\ r # s
    BY <1>1, <1>2, <2>3, OtherSteps, CoordinatorFrame
  <2>4. CASE ~NegotiationStep(r) /\ r = s
    <3>1. UNCHANGED <<verdict, result>>
      BY <1>1, <1>2, <2>4, OtherSteps
    <3>2. CASE pc' = pc /\ state' = state
      BY <1>1, <2>4, <3>1, <3>2, CoordinatorFrame
    <3>3. CASE pc[r] \in {"entry_gate", "quotes"} /\ pc'[r] = "assess"
      BY <1>1, <2>4, <3>1, <3>3 DEF OutcomeInv, UnheardInv
    <3>4. CASE pc[r] \in {"idle", "entry_gate"} /\ pc'[r] \in {"refused", "entry_gate", "quotes"}
      BY <1>1, <2>4, <3>1, <3>4, ElsewhereOutcome
    <3>5. CASE pc'[r] \in Routing \cup {"answered", "raised"}
      BY <1>1, <2>4, <3>1, <3>5, ElsewhereOutcome DEF Routing
    <3> QED
      BY <1>1, <1>2, <2>4, <3>2, <3>3, <3>4, <3>5, OtherSteps DEF Routing
  <2> QED BY <2>1, <2>2, <2>3, <2>4
<1>3. CASE Crash
  <2>1. UNCHANGED <<state, verdict, result>>
    BY <1>3 DEF Crash, agentVars
  <2>2. pc'[s] = pc[s] \/ pc'[s] = "lost"
    BY <1>1, <1>3 DEF Crash
  <2> QED BY <1>1, <2>1, <2>2, CoordinatorFrame, ElsewhereOutcome
<1>4. CASE UNCHANGED gatewayVars
  BY <1>1, <1>4, CoordinatorFrame
    DEF gatewayVars, transferVars, agentVars, negotiationVars
<1> QED BY <1>2, <1>3, <1>4 DEF GatewayNext

\* What the gateway does around the negotiation leaves its verdicts and results alone.
THEOREM CoordinatorInvAlways == GatewaySpec => []CoordinatorInv
  BY CoordinatorInit, CoordinatorInductive, PTL DEF GatewaySpec

\* When the gateway reads the negotiation's result, the result is the log's and the
\* transfer's: it routes no payment on a SETTLING that is not recorded.
THEOREM GatewayReadsTrueResults == GatewaySpec => []ResultMatchesTheLog
<1>1. CoordinatorInv => ResultMatchesTheLog
  BY DEF CoordinatorInv, GatewayInv, HandlerInv, TrailInv, OutcomeInv, ResultMatchesTheLog
<1> QED BY <1>1, CoordinatorInvAlways, PTL

\* A thread with a verdict that does not pass is past the entry gate and is not routed.
LEMMA EscalatedThread ==
  ASSUME NEW r \in Requests, CoordinatorInv, verdict[r].outcome \in {"ESCALATE", "BLOCK"}
  PROVE  pc[r] \notin {"idle", "entry_gate", "quotes"} \cup Routing
<1>1. UnheardInv(r) /\ NegotiationInv(r) /\ LinkInv(r)
  BY DEF CoordinatorInv, GatewayInv, HandlerInv
<1>2. verdict[r] # NoVerdict
  BY DEF NoVerdict
<1>3. result[r] # "SETTLING"
  BY <1>1 DEF NegotiationInv, Justified, Citable
<1> QED BY <1>1, <1>2, <1>3 DEF UnheardInv, LinkInv

LEMMA GatewayEscalationStep ==
  ASSUME CoordinatorInv, GatewayNext, NEW r \in Requests,
         verdict[r].outcome \in {"ESCALATE", "BLOCK"}
  PROVE  /\ verdict'[r] = verdict[r]
         /\ proposal'[r] = proposal[r]
         /\ state'[r] \in {state[r], "REJECTED"}
<1>1. /\ CoreTypes /\ NegotiationTypeOK /\ pc \in [Requests -> GatewayPcs]
      /\ NegotiationInv(r) /\ OutcomeInv(r) /\ GatewayInv
  BY DEF CoordinatorInv, GatewayInv, CoreTypes, HandlerInv
<1>2. ASSUME NEW t \in Requests, Post(t) \/ Handle(t) \/ RailActs(t) \/ RecordArrives(t),
             ~NegotiationStep(t)
      PROVE  /\ verdict'[r] = verdict[r] /\ proposal'[r] = proposal[r]
             /\ state'[r] = state[r]
  BY <1>1, <1>2, OtherSteps, EscalatedThread
<1>3. ASSUME NEW t \in Requests, NegotiationStep(t)
      PROVE  /\ verdict'[r] = verdict[r] /\ proposal'[r] = proposal[r]
             /\ state'[r] \in {state[r], "REJECTED"}
  <2>1. CASE t # r
    BY <1>1, <1>3, <2>1, NegotiationStepOthers
  <2>2. CASE t = r
    BY <1>1, <1>3, <2>2, EscalatedNegotiationStep
  <2> QED BY <2>1, <2>2
<1>4. CASE Crash
  BY <1>4 DEF Crash, agentVars
<1> QED BY <1>2, <1>3, <1>4 DEF GatewayNext

\* No agent talks itself out of an escalation or a block, and nothing the gateway
\* does afterwards -- a retry, a restart -- settles the transfer all the same.
THEOREM GatewayEscalationsStand == GatewaySpec => EscalationIsFinal
<1>1. CoordinatorInv /\ [GatewayNext]_gatewayVars =>
        [\A r \in Requests : verdict[r].outcome \in {"ESCALATE", "BLOCK"} =>
           /\ verdict'[r] = verdict[r]
           /\ proposal'[r] = proposal[r]
           /\ state'[r] \in {state[r], "REJECTED"}]_negotiationSpecVars
  BY GatewayEscalationStep DEF gatewayVars, negotiationSpecVars
<1> QED BY <1>1, CoordinatorInvAlways, PTL DEF GatewaySpec, EscalationIsFinal

-----------------------------------------------------------------------------
(* Every handler comes to its end.                                         *)

\* How many steps, at the most, a request still has: thirty for a POST, of which ten
\* are the negotiation's and fifteen the router's.
HandlerPhase == [idle |-> 30, entry_gate |-> 29, quotes |-> 28, negotiated |-> 17]
StepsLeft(r) ==
  IF pc[r] \in DOMAIN RoutePhase THEN RouteLeft(r)
  ELSE IF pc[r] \in DOMAIN NegotiationPhase THEN 17 + NegotiationLeft(r)
  ELSE IF pc[r] \in DOMAIN HandlerPhase THEN HandlerPhase[pc[r]]
  ELSE 0

\* The labels of the three parts are told apart.
LEMMA Phases ==
  /\ DOMAIN RoutePhase = {"route"} \cup Routing
  /\ DOMAIN NegotiationPhase = Negotiating
  /\ DOMAIN HandlerPhase = {"idle", "entry_gate", "quotes", "negotiated"}
  /\ Routing \cap Negotiating = {} /\ "route" \notin Negotiating
  /\ HandlerPhase["idle"] = 30 /\ HandlerPhase["entry_gate"] = 29
  /\ HandlerPhase["quotes"] = 28 /\ HandlerPhase["negotiated"] = 17
  BY NegotiationPhaseValues, RoutePhaseValues
    DEF HandlerPhase, Routing, Negotiating, Validated, Undecided

\* ... and so is what is left in each.
LEMMA StepsLeftIn ==
  ASSUME NEW r \in Requests
  PROVE  /\ pc[r] \in Routing => StepsLeft(r) = RouteLeft(r)
         /\ pc[r] \in Negotiating => StepsLeft(r) = 17 + NegotiationLeft(r)
         /\ pc[r] = "idle" => StepsLeft(r) = 30
         /\ pc[r] = "entry_gate" => StepsLeft(r) = 29
         /\ pc[r] = "quotes" => StepsLeft(r) = 28
         /\ pc[r] = "negotiated" => StepsLeft(r) = 17
         /\ pc[r] \in Ended => StepsLeft(r) = 0
<1>1. CASE pc[r] \in Routing
  BY <1>1, Phases DEF StepsLeft, Routing, Ended
<1>2. CASE pc[r] \in Negotiating
  BY <1>2, Phases DEF StepsLeft, Negotiating, Validated, Undecided, Ended
<1>3. CASE pc[r] \in {"idle", "entry_gate", "quotes", "negotiated"} \cup Ended
  BY <1>3, Phases DEF StepsLeft, Routing, Negotiating, Validated, Undecided, Ended
<1> QED BY <1>1, <1>2, <1>3

\* The same of the state a step leads to.
LEMMA StepsLeftThen ==
  ASSUME NEW r \in Requests
  PROVE  /\ pc'[r] \in Routing => StepsLeft(r)' = RouteLeft(r)'
         /\ pc'[r] \in Negotiating => StepsLeft(r)' = 17 + NegotiationLeft(r)'
         /\ pc'[r] = "entry_gate" => StepsLeft(r)' = 29
         /\ pc'[r] = "quotes" => StepsLeft(r)' = 28
         /\ pc'[r] = "negotiated" => StepsLeft(r)' = 17
         /\ pc'[r] \in Ended => StepsLeft(r)' = 0
<1>1. /\ RoutePhase' = RoutePhase /\ NegotiationPhase' = NegotiationPhase
      /\ HandlerPhase' = HandlerPhase
  BY DEF RoutePhase, NegotiationPhase, HandlerPhase
<1>2. CASE pc'[r] \in Routing
  BY <1>1, <1>2, Phases DEF StepsLeft, Routing, Ended
<1>3. CASE pc'[r] \in Negotiating
  BY <1>1, <1>3, Phases DEF StepsLeft, Negotiating, Validated, Undecided, Ended
<1>4. CASE pc'[r] \in {"entry_gate", "quotes", "negotiated"} \cup Ended
  BY <1>1, <1>4, Phases DEF StepsLeft, Routing, Negotiating, Validated, Undecided, Ended
<1> QED BY <1>2, <1>3, <1>4

LEMMA StepsLeftFrame ==
  ASSUME NEW s \in Requests, pc'[s] = pc[s], alternates'[s] = alternates[s]
  PROVE  StepsLeft(s)' = StepsLeft(s)
<1>1. RouteLeft(s)' = RouteLeft(s)
  BY RouteLeftFrame
<1>2. NegotiationLeft(s)' = NegotiationLeft(s)
  BY DEF NegotiationLeft, NegotiationPhase
<1>3. /\ RoutePhase' = RoutePhase /\ NegotiationPhase' = NegotiationPhase
      /\ HandlerPhase' = HandlerPhase
  BY DEF RoutePhase, NegotiationPhase, HandlerPhase
<1> QED BY <1>1, <1>2, <1>3 DEF StepsLeft

RouteBounds ==
  \A r \in Requests : pc[r] \in DOMAIN RoutePhase => RouteLeft(r) \in 1 .. 16

LEMMA RouteLeftBounds == GatewayInv => RouteBounds
<1>1. ASSUME GatewayInv, NEW r \in Requests, pc[r] \in DOMAIN RoutePhase
      PROVE  RouteLeft(r) \in 1 .. 16
  <2>1. RetriesLeft(r) \in 0 .. MaxSettlementRetries /\ MaxSettlementRetries = 2
    BY <1>1, RetriesLeftType DEF GatewayInv, CoreTypes, HandlerInv, MaxSettlementRetries
  <2> QED BY <1>1, <2>1, RoutePhaseValues DEF RouteLeft
<1> QED BY <1>1 DEF RouteBounds

LEMMA StepsLeftBounds == GatewayInv => \A r \in Requests : StepsLeft(r) \in 0 .. 30
<1> SUFFICES ASSUME GatewayInv, NEW r \in Requests PROVE StepsLeft(r) \in 0 .. 30
  OBVIOUS
<1>1. CASE pc[r] \in DOMAIN RoutePhase
  BY <1>1, RouteLeftBounds DEF RouteBounds, StepsLeft
<1>2. CASE pc[r] \notin DOMAIN RoutePhase /\ pc[r] \in DOMAIN NegotiationPhase
  BY <1>2, Phases, NegotiationPhaseBounds DEF StepsLeft, NegotiationLeft
<1>3. CASE pc[r] \notin DOMAIN RoutePhase /\ pc[r] \notin DOMAIN NegotiationPhase
  BY <1>3, Phases DEF StepsLeft
<1> QED BY <1>1, <1>2, <1>3

LEMMA HandleDescends ==
  ASSUME NEW r \in Requests, GatewayInv, GatewayInv', Handle(r)
  PROVE  StepsLeft(r)' < StepsLeft(r)
<1>1. /\ CoreTypes /\ NegotiationTypeOK /\ RouterTypeOK /\ RoutingInv(r) /\ NegotiationInv(r)
      /\ pc \in [Requests -> GatewayPcs]
  BY DEF GatewayInv, CoreTypes, HandlerInv
<1>2. pc[r] \in Routing => RouteLeft(r) \in 1 .. 16
  BY RouteLeftBounds, Phases DEF RouteBounds
<1>3. pc'[r] \in Routing => RouteLeft(r)' \in 1 .. 16
  <2>1. RouteBounds'
    BY RouteLeftBounds, PTL
  <2>2. RoutePhase' = RoutePhase
    BY DEF RoutePhase
  <2> QED BY <2>1, <2>2, Phases DEF RouteBounds
<1>4. NegotiationLeft(r) \in Nat /\ NegotiationLeft(r)' \in Nat
  BY NegotiationLeftType
<1> USE StepsLeftIn, StepsLeftThen
<1>5. CASE EntryGate(r) \/ GatherQuotes(r) \/ GateOrQuotesRaise(r)
  <2>1. \/ pc[r] = "entry_gate" /\ pc'[r] \in {"quotes"} \cup Ended
        \/ pc[r] = "quotes" /\ pc'[r] \in {"assess"} \cup Ended
    BY <1>1, <1>5 DEF EntryGate, Answer, GatherQuotes, GateOrQuotesRaise, Goto, Ended
  <2>2. pc'[r] = "assess" => pc'[r] \in Negotiating /\ NegotiationLeft(r)' = 10
    <3>1. NegotiationPhase' = NegotiationPhase
      BY DEF NegotiationPhase
    <3> QED BY <3>1, NegotiationPhaseValues DEF NegotiationLeft, Negotiating, Undecided
  <2> QED BY <2>1, <2>2
<1>6. CASE Negotiate(r)
  <2>1. NegotiationStep(r)
    BY <1>6 DEF Negotiate
  <2>2. /\ pc[r] \in Negotiating /\ pc'[r] \in Negotiating \cup {"negotiated", "raised"}
        /\ NegotiationLeft(r)' < NegotiationLeft(r)
    BY <1>1, <2>1, NegotiationStepDescends
  <2> QED BY <1>4, <2>2 DEF Ended
<1>7. CASE Settle(r)
  <2>1. pc[r] = "negotiated" /\ pc'[r] \in {"submit", "raised"}
    BY <1>1, <1>7 DEF Settle, StartRouting, Goto
  <2> QED BY <1>3, <2>1 DEF Routing, Ended
<1>8. CASE RouteOn(r)
  <2>1. RouterStep(r)
    BY <1>8 DEF RouteOn
  <2>2. /\ RouteLeft(r)' < RouteLeft(r)
        /\ pc[r] \in {"submit", "await_rail", "retry", "count_retry"}
        /\ pc'[r] \in DOMAIN RoutePhase \cup {"raised"}
    BY <1>1, <2>1, RouterStepDescends
  <2>3. pc'[r] \in Routing \cup {"raised"}
    BY <1>1, <2>1, <2>2, RouterStepEffect DEF CoreTypes, Routing
  <2> QED BY <1>2, <1>3, <2>2, <2>3 DEF Routing, Ended
<1>9. CASE Decline(r) \/ AnswerDelivered(r) \/ AnswerExhausted(r) \/ AnswerRaises(r)
  <2>1. /\ pc[r] \in {"negotiated", "settled", "exhausted"}
        /\ pc'[r] \in Ended
    BY <1>1, <1>9 DEF Decline, AnswerDelivered, AnswerExhausted, AnswerRaises, Answer, Goto, Ended
  <2> QED BY <1>2, <2>1 DEF Routing
<1> QED BY <1>5, <1>6, <1>7, <1>8, <1>9 DEF Handle

\* Every POST is over after thirty steps of its own: each brings its end nearer, and
\* neither a rail, nor a late record, nor another request, nor a crash sets it back.
THEOREM HandlersDescend ==
  GatewaySpec =>
    [][\A r \in Requests :
         /\ StepsLeft(r) \in 0 .. 30
         /\ StepsLeft(r)' <= StepsLeft(r)
         /\ Handle(r) => StepsLeft(r)' < StepsLeft(r)]_gatewayVars
<1>1. ASSUME ClientInv, GatewayInv', GatewayNext, NEW s \in Requests
      PROVE  /\ StepsLeft(s) \in 0 .. 30
             /\ StepsLeft(s)' <= StepsLeft(s)
             /\ Handle(s) => StepsLeft(s)' < StepsLeft(s)
  <2>1. /\ GatewayInv /\ CoreTypes /\ StepsLeft(s) \in 0 .. 30
        /\ response \in [Requests -> Responses \cup {NoResponse}]
    BY <1>1, StepsLeftBounds DEF ClientInv, GatewayInv, AnswerTypes
  <2>2. (\A r \in Requests : StepsLeft(r) \in 0 .. 30)'
    BY <1>1, StepsLeftBounds, PTL
  <2>3. Handle(s) => StepsLeft(s)' < StepsLeft(s)
    BY <1>1, <2>1, HandleDescends
  <2>4. CASE Post(s)
    <3>1. pc[s] = "idle" /\ pc'[s] \in {"refused", "entry_gate"}
      BY <2>1, <2>4 DEF Post, RefuseUnconfigured, RefuseParameters, CreateTransfer, Goto, CoreTypes
    <3> QED BY <2>1, <2>3, <3>1, StepsLeftIn, StepsLeftThen DEF Ended
  <2>5. CASE Crash
    <3>1. (pc'[s] = pc[s] \/ pc'[s] = "lost") /\ alternates' = alternates
      BY <2>1, <2>5 DEF Crash, routerVars
    <3> QED BY <2>1, <2>3, <3>1, StepsLeftFrame, StepsLeftThen DEF Ended
  <2>6. ASSUME NEW r \in Requests, Post(r) \/ Handle(r) \/ RailActs(r) \/ RecordArrives(r),
               r # s \/ RailActs(r) \/ RecordArrives(r)
        PROVE  StepsLeft(s)' = StepsLeft(s)
    <3>1. CASE r # s
      BY <2>1, <2>6, <3>1, OthersUntouched, StepsLeftFrame DEF Untouched
    <3>2. CASE RailActs(r) \/ RecordArrives(r)
      BY <3>2, StepsLeftFrame DEF RailActs, RailDecides, RecordArrives, LateArrival, routerVars
    <3> QED BY <2>6, <3>1, <3>2
  <2> QED BY <1>1, <2>1, <2>2, <2>3, <2>4, <2>5, <2>6 DEF GatewayNext
<1>2. ClientInv /\ GatewayInv' /\ [GatewayNext]_gatewayVars =>
        [\A r \in Requests :
           /\ StepsLeft(r) \in 0 .. 30
           /\ StepsLeft(r)' <= StepsLeft(r)
           /\ Handle(r) => StepsLeft(r)' < StepsLeft(r)]_gatewayVars
  BY <1>1
<1> QED BY <1>2, ClientInvAlways, GatewayInvAlways, PTL DEF GatewaySpec

-----------------------------------------------------------------------------
(* Why a transfer is refused.                                              *)

\* What may turn a transfer away, and what may leave it to a human.
TurnedAway(r) ==
  \/ Evaluate(form[r]).outcome = "REJECTED"
  \/ verdict[r].outcome = "BLOCK"
  \/ exitStage[r] \in ExitStages \ {"CLEAR"}
LeftToAHuman(r) ==
  \/ verdict[r].outcome = "ESCALATE"
  \/ \E rec \in log[r] : rec.action = "no_proposal"

\* A transfer is rejected only where a gate or the Sentinel said so, and is sent to
\* review by the coordinator only on an ESCALATE, or with a record in the log that the
\* Strategist came back with nothing.
RefusedForAReason ==
  \A r \in Requests :
    /\ state[r] = "REJECTED" => TurnedAway(r)
    /\ result[r] = "PENDING_REVIEW" => LeftToAHuman(r)

ReasonInv(r) ==
  /\ pc[r] = "audit_escalated" => verdict[r].outcome = "ESCALATE"
  /\ pc[r] = "audit_blocked" => verdict[r].outcome = "BLOCK"
  /\ pc[r] = "audit_exit" => exitStage[r] \in ExitStages
  /\ state[r] = "REJECTED" => TurnedAway(r)
  /\ result[r] = "PENDING_REVIEW" => LeftToAHuman(r)

\* The reasons stay: nothing they rest on is taken back, and no record leaves the log.
LEMMA ReasonFrame ==
  ASSUME NEW s \in Requests, ReasonInv(s), log[s] \subseteq log'[s],
         pc'[s] = pc[s] \/ pc'[s] \notin {"audit_escalated", "audit_blocked", "audit_exit"},
         state'[s] = state[s] \/ state'[s] # "REJECTED",
         result'[s] = result[s], verdict'[s] = verdict[s],
         exitStage'[s] = exitStage[s], form'[s] = form[s]
  PROVE  ReasonInv(s)'
BY DEF ReasonInv, TurnedAway, LeftToAHuman

LEMMA ReasonStep ==
  ASSUME NEW r \in Requests, NEW S, pc \in [Requests -> S], form' = form,
         NegotiationTypeOK, NegotiationInv(r), ReasonInv(r), NegotiationStep(r)
  PROVE  ReasonInv(r)'
<1> USE DEF NegotiationTypeOK, TransferTypeOK, AgentsTypeOK, Goto,
            transferVars, budgetVars, agentVars, negotiationVars
<1>1. CASE (Assess(r) \/ Propose(r)) /\ UNCHANGED negotiationVars
  <2>1. /\ pc[r] \in {"assess", "reassess", "propose", "repropose"}
        /\ pc'[r] \notin {"audit_escalated", "audit_blocked", "audit_exit"}
        /\ state' = state
    BY <1>1 DEF Assess, SentinelConcludes, SentinelTimesOut, SentinelReasks, SentinelGivesUp,
       SentinelRaises, Conclude, Propose, StrategistConcludes, StrategistReasks, StrategistFails
  <2>2. state[r] # "REJECTED" /\ result[r] # "PENDING_REVIEW"
    BY <2>1 DEF NegotiationInv, Validated, Undecided, Negotiating
  <2> QED BY <1>1, <2>1, <2>2 DEF ReasonInv
<1>2. CASE Exit(r)
  <2>1. state[r] # "REJECTED" /\ result[r] # "PENDING_REVIEW"
    BY <1>2 DEF Exit, NegotiationInv, Validated, Negotiating
  <2>2. exitStage'[r] \in ExitStages
    BY <1>2 DEF Exit, ExitStage, ExitStages
  <2> QED BY <1>2, <2>1, <2>2 DEF Exit, ReasonInv
<1>3. CASE AuditVerdict(r)
  BY <1>3 DEF AuditVerdict, Transition, ReasonInv, TurnedAway, NegotiationInv, Undecided,
              Negotiating
<1>4. CASE AuditEscalated(r)
  BY <1>4 DEF AuditEscalated, Return, ReasonInv, TurnedAway, LeftToAHuman
<1>5. CASE AuditNoProposal(r)
  <2>1. PendingRecord(r) \in log'[r] /\ PendingRecord(r).action = "no_proposal"
    BY <1>5 DEF AuditNoProposal, Recorded, PendingRecord, AuditSteps
  <2> QED BY <1>5, <2>1 DEF AuditNoProposal, Return, ReasonInv, TurnedAway, LeftToAHuman
<1>6. CASE AuditExit(r)
  BY <1>6 DEF AuditExit, Return, Transition, ReasonInv, TurnedAway, NegotiationInv, Negotiating,
              Validated
<1>7. CASE AuditBlocked(r) \/ AuditValidated(r) \/ AuditProposal(r) \/ AuditSettling(r)
  <2>1. /\ log[r] \subseteq log'[r] /\ UNCHANGED <<state, verdict, exitStage>>
        /\ result'[r] \in {result[r], "REJECTED", "SETTLING"}
        /\ pc'[r] \notin {"audit_escalated", "audit_blocked", "audit_exit"}
    BY <1>7 DEF AuditBlocked, AuditValidated, AuditProposal, AuditSettling, Recorded, Return
  <2> QED BY <2>1 DEF ReasonInv, TurnedAway, LeftToAHuman
<1>8. CASE ExitRaises(r) \/ AuditUnavailable(r)
  BY <1>8 DEF ExitRaises, AuditUnavailable, NotRecorded, ReasonInv, TurnedAway, LeftToAHuman
<1> QED BY <1>1, <1>2, <1>3, <1>4, <1>5, <1>6, <1>7, <1>8 DEF NegotiationStep

\* A step of a request outside the negotiation: only the entry gate rejects there.
LEMMA ReasonElsewhere ==
  ASSUME NEW r \in Requests, GatewayInv, ReasonInv(r), ~Negotiate(r),
         Post(r) \/ Handle(r) \/ RailActs(r) \/ RecordArrives(r)
  PROVE  ReasonInv(r)'
<1> USE DEF GatewayInv, CoreTypes, NegotiationTypeOK, TransferTypeOK, transferVars, budgetVars,
            agentVars, negotiationVars, gatewayOnlyVars, postVars, Goto
<1>1. CASE Post(r)
  BY <1>1, ReasonFrame DEF Post, RefuseUnconfigured, RefuseParameters, CreateTransfer
<1>2. CASE EntryGate(r) /\ Evaluate(form[r]).outcome = "REJECTED"
  <2>1. /\ UNCHANGED <<verdict, exitStage, log, result, form>> /\ pc'[r] = "answered"
        /\ Evaluate(form[r])' = Evaluate(form[r])
    BY <1>2 DEF EntryGate, Answer
  <2> QED BY <1>2, <2>1 DEF ReasonInv, TurnedAway, LeftToAHuman
<1>3. CASE EntryGate(r) /\ Evaluate(form[r]).outcome # "REJECTED"
  BY <1>3, ReasonFrame DEF EntryGate, Answer
<1>4. CASE GatherQuotes(r) \/ GateOrQuotesRaise(r)
  BY <1>4, ReasonFrame DEF GatherQuotes, GateOrQuotesRaise
<1>5. CASE Decline(r) \/ AnswerDelivered(r) \/ AnswerExhausted(r) \/ AnswerRaises(r)
  BY <1>5, ReasonFrame DEF Decline, AnswerDelivered, AnswerExhausted, AnswerRaises, Answer
<1>6. CASE Settle(r)
  BY <1>6, ReasonFrame DEF Settle, StartRouting
<1>7. CASE RouteOn(r) \/ RailActs(r)
  <2>1. /\ RouterStep(r) \/ RailDecides(r)
        /\ UNCHANGED <<verdict, exitStage, log, result, form>>
    BY <1>7 DEF RouteOn, RailActs
  <2>2. /\ pc' = pc \/ pc'[r] \in Routing \cup {"raised"}
        /\ state' = state \/ state'[r] # "REJECTED"
    BY <2>1, RouterStepEffect DEF HandlerInv
  <2> QED BY <2>1, <2>2, ReasonFrame DEF Routing
<1>8. CASE RecordArrives(r)
  <2>1. log[r] \subseteq trail[r]
    BY DEF HandlerInv, TrailInv
  <2> QED BY <1>8, <2>1, ReasonFrame DEF RecordArrives, LateArrival
<1> QED BY <1>1, <1>2, <1>3, <1>4, <1>5, <1>6, <1>7, <1>8 DEF Handle

ReasonsInv == ClientInv /\ \A r \in Requests : ReasonInv(r)

\* Nobody is turned away, and nobody kept waiting for a human, without a ground on
\* record: the gate's verdict on the form, the Sentinel's, the exit gate's stage, or the
\* audit record of the Strategist's failure -- through crashes and late records alike.
THEOREM RefusalsHaveReasons == GatewaySpec => []RefusedForAReason
<1>1. GatewayInit => ReasonsInv
  <2>1. ASSUME GatewayInit, NEW r \in Requests PROVE ReasonInv(r)
    BY <2>1 DEF GatewayInit, NegotiationStart, ReasonInv
  <2> QED BY <2>1, ClientInit DEF ReasonsInv
<1>2. ReasonsInv /\ [GatewayNext]_gatewayVars => ReasonsInv'
  <2> SUFFICES ASSUME ReasonsInv, [GatewayNext]_gatewayVars, NEW s \in Requests
               PROVE  ReasonInv(s)'
    BY ClientInductive DEF ReasonsInv
  <2>1. /\ GatewayInv /\ CoreTypes /\ NegotiationTypeOK /\ pc \in [Requests -> GatewayPcs]
        /\ NegotiationInv(s) /\ ReasonInv(s)
    BY DEF ReasonsInv, ClientInv, GatewayInv, CoreTypes, HandlerInv
  <2>2. ASSUME NEW r \in Requests, Post(r) \/ Handle(r) \/ RailActs(r) \/ RecordArrives(r)
        PROVE  ReasonInv(s)'
    <3>1. CASE r # s
      BY <2>1, <2>2, <3>1, OthersUntouched, ReasonFrame
        DEF ReasonsInv, ClientInv, AnswerTypes, Untouched
    <3>2. CASE r = s /\ ~Negotiate(r)
      BY <2>1, <2>2, <3>2, ReasonElsewhere
    <3>3. CASE r = s /\ Negotiate(r)
      BY <2>1, <3>3, ReasonStep DEF Negotiate, gatewayOnlyVars, postVars
    <3> QED BY <3>1, <3>2, <3>3
  <2>3. CASE Crash
    BY <2>1, <2>3, ReasonFrame DEF Crash, agentVars, postVars
  <2>4. CASE UNCHANGED gatewayVars
    BY <2>1, <2>4, ReasonFrame
      DEF gatewayVars, transferVars, agentVars, negotiationVars, gatewayOnlyVars, postVars
  <2> QED BY <2>2, <2>3, <2>4 DEF GatewayNext
<1>3. ReasonsInv => RefusedForAReason
  BY DEF ReasonsInv, ReasonInv, RefusedForAReason
<1> QED BY <1>1, <1>2, <1>3, PTL DEF GatewaySpec

-----------------------------------------------------------------------------
(* The gateway and the audit log.                                          *)

\* What one step of the coordinator writes: nothing, a record it waits for, or one it
\* gives up.
LEMMA NegotiationWrites ==
  ASSUME NEW r \in Requests, GatewayInv, NegotiationStep(r)
  PROVE  \/ trail'[r] = trail[r] /\ log'[r] = log[r]
         \/ /\ pc'[r] \notin Ended
            /\ \E rec \in AuditRecords :
                 trail'[r] = trail[r] \cup {rec} /\ log'[r] = log[r] \cup {rec}
         \/ /\ pc'[r] \in Ended /\ log'[r] = log[r]
            /\ \E rec \in AuditRecords : trail'[r] = trail[r] \cup {rec}
<1> USE DEF GatewayInv, CoreTypes, NegotiationTypeOK, Ended, Goto
<1>1. ASSUME pc[r] \in DOMAIN AuditSteps PROVE PendingRecord(r) \in AuditRecords
  BY <1>1, PendingRecordType, OverridingType
<1>2. CASE (Assess(r) \/ Propose(r)) /\ UNCHANGED negotiationVars
  BY <1>2 DEF negotiationVars
<1>3. CASE Exit(r) \/ ExitRaises(r)
  BY <1>3 DEF Exit, ExitRaises, negotiationVars
<1>4. CASE AuditVerdict(r) \/ AuditExit(r)
  BY <1>1, <1>4, AuditStepValues DEF AuditVerdict, AuditExit, Recorded, Return
<1>5. CASE AuditBlocked(r) \/ AuditEscalated(r) \/ AuditNoProposal(r) \/ AuditSettling(r)
  BY <1>1, <1>5, AuditStepValues
     DEF AuditBlocked, AuditEscalated, AuditNoProposal, AuditSettling, Recorded, Return
<1>6. CASE AuditValidated(r) \/ AuditProposal(r)
  BY <1>1, <1>6, AuditStepValues DEF AuditValidated, AuditProposal, Recorded
<1>7. CASE AuditUnavailable(r)
  BY <1>1, <1>7 DEF AuditUnavailable, NotRecorded
<1> QED BY <1>2, <1>3, <1>4, <1>5, <1>6, <1>7 DEF NegotiationStep

\* Such a step of a thread that has not ended is one the contract allows.
LEMMA SinkThread ==
  ASSUME NEW r \in Requests, CoreTypes, CoreTypes', pc[r] \notin Ended,
         \A s \in Requests : s # r =>
           pc'[s] = pc[s] /\ trail'[s] = trail[s] /\ log'[s] = log[s],
         \/ trail'[r] = trail[r] /\ log'[r] = log[r]
         \/ /\ pc'[r] \notin Ended
            /\ \E rec \in AuditRecords :
                 trail'[r] = trail[r] \cup {rec} /\ log'[r] = log[r] \cup {rec}
         \/ /\ pc'[r] \in Ended /\ log'[r] = log[r]
            /\ \E rec \in AuditRecords : trail'[r] = trail[r] \cup {rec}
  PROVE  [Sink!Next]_(Sink!sinkVars)
<1> DEFINE over == {s \in Requests : pc[s] \in Ended}
<1>1. /\ trail \in [Requests -> SUBSET AuditRecords] /\ trail' \in [Requests -> SUBSET AuditRecords]
      /\ log \in [Requests -> SUBSET AuditRecords] /\ log' \in [Requests -> SUBSET AuditRecords]
  BY DEF CoreTypes, NegotiationTypeOK
<1>2. CASE pc'[r] \in Ended
  <2>1. over' = over \cup {r} /\ {r} \cap over = {} /\ {r} \in SUBSET Requests
    BY <1>2
  <2>2. Sink!HandsOverItsLast(r)
    BY <1>2 DEF Sink!HandsOverItsLast
  <2>3. Sink!Stop({r})
    BY <1>1, <2>1, <2>2 DEF Sink!Stop
  <2> QED BY <2>1, <2>3 DEF Sink!Next
<1>3. CASE pc'[r] \notin Ended
  <2>1. over' = over
    BY <1>3
  <2>2. CASE trail'[r] = trail[r] /\ log'[r] = log[r]
    <3>1. trail' = trail /\ log' = log
      BY <1>1, <2>2
    <3> QED BY <2>1, <3>1 DEF Sink!sinkVars
  <2>3. ASSUME NEW rec \in AuditRecords,
               trail'[r] = trail[r] \cup {rec}, log'[r] = log[r] \cup {rec}
        PROVE  Sink!Next
    <3>1. /\ trail' = [trail EXCEPT ![r] = @ \cup {rec}]
          /\ log' = [log EXCEPT ![r] = @ \cup {rec}]
      BY <1>1, <2>3
    <3>2. Sink!Record(r, rec)
      BY <2>1, <3>1 DEF Sink!Record
    <3> QED BY <3>2 DEF Sink!Next
  <2> QED BY <1>3, <2>2, <2>3
<1> QED BY <1>2, <1>3

\* In a crash every running thread stops, some of them in the middle of a call.
LEMMA SinkCrash ==
  ASSUME GatewayInv, Crash
  PROVE  [Sink!Next]_(Sink!sinkVars)
<1> DEFINE over == {s \in Requests : pc[s] \in Ended}
<1>0. PICK dying \in SUBSET Requests : dying = {s \in Requests : Running(s)}
  OBVIOUS
<1>1. /\ trail \in [Requests -> SUBSET AuditRecords] /\ trail' \in [Requests -> SUBSET AuditRecords]
      /\ log \in [Requests -> SUBSET AuditRecords] /\ log' = log
  BY CrashInv DEF GatewayInv, CoreTypes, NegotiationTypeOK, Crash
<1>2. PICK logging \in SUBSET {r \in Requests : pc[r] \in DOMAIN AuditSteps} :
        trail' = [r \in Requests |->
                    IF r \in logging THEN trail[r] \cup {PendingRecord(r)} ELSE trail[r]]
  BY DEF Crash
<1>3. over' = over \cup dying /\ dying \cap over = {}
  BY <1>0 DEF Crash, Running, Ended
<1>4. ASSUME NEW s \in dying PROVE Sink!HandsOverItsLast(s)
  <2>1. s \in logging => PendingRecord(s) \in AuditRecords
    BY <1>2, PendingRecordType, OverridingType DEF GatewayInv, CoreTypes, NegotiationTypeOK
  <2> QED BY <1>1, <1>2, <2>1 DEF Sink!HandsOverItsLast
<1>5. ASSUME NEW s \in Requests \ dying PROVE trail'[s] = trail[s] /\ log'[s] = log[s]
  <2>1. s \notin logging
    BY <1>0, <1>2, AuditStepValues DEF Running, Ended
  <2> QED BY <1>1, <1>2, <2>1
<1>6. Sink!Stop(dying)
  BY <1>1, <1>3, <1>4, <1>5 DEF Sink!Stop
<1> QED BY <1>6 DEF Sink!Next

LEMMA SinkStep ==
  ClientInv /\ [GatewayNext]_gatewayVars => [Sink!Next]_(Sink!sinkVars)
<1> SUFFICES ASSUME ClientInv, [GatewayNext]_gatewayVars
             PROVE  [Sink!Next]_(Sink!sinkVars)
  OBVIOUS
<1>1. GatewayInv /\ CoreTypes /\ GatewayInv' /\ CoreTypes'
      /\ response \in [Requests -> Responses \cup {NoResponse}]
  BY GatewayInvInductive DEF ClientInv, GatewayInv, AnswerTypes
<1>2. ASSUME NEW r \in Requests, Post(r) \/ Handle(r)
      PROVE  [Sink!Next]_(Sink!sinkVars)
  <2>1. pc[r] \notin Ended
    BY <1>1, <1>2, EndedTakesNoStep
  <2>2. ASSUME NEW s \in Requests, s # r
        PROVE  pc'[s] = pc[s] /\ trail'[s] = trail[s] /\ log'[s] = log[s]
    BY <1>1, <1>2, <2>2, OthersUntouched DEF Untouched
  <2>3. CASE Negotiate(r)
    BY <1>1, <2>1, <2>2, <2>3, NegotiationWrites, SinkThread DEF Negotiate
  <2>4. CASE ~Negotiate(r)
    <3>1. trail' = trail /\ log' = log
      BY <1>2, <2>4 DEF Post, RefuseUnconfigured, RefuseParameters, CreateTransfer, Handle,
         EntryGate, GatherQuotes, GateOrQuotesRaise, Decline, Settle, RouteOn, AnswerDelivered,
         AnswerExhausted, AnswerRaises, negotiationVars
    <3> QED BY <1>1, <2>1, <2>2, <3>1, SinkThread
  <2> QED BY <2>3, <2>4
<1>3. ASSUME NEW r \in Requests, RecordArrives(r)
      PROVE  Sink!Next
  <2>1. /\ log' = [log EXCEPT ![r] = trail[r]] /\ trail' = trail /\ pc' = pc
        /\ pc[r] \in {"raised", "lost"}
    BY <1>1, <1>3 DEF RecordArrives, LateArrival, GatewayInv, HandlerInv, TrailInv
  <2>2. Sink!Arrive(r)
    BY <2>1 DEF Sink!Arrive, Ended
  <2> QED BY <2>2 DEF Sink!Next
<1>4. CASE (\E r \in Requests : RailActs(r)) \/ UNCHANGED gatewayVars
  BY <1>4 DEF RailActs, RailDecides, negotiationVars, gatewayVars, Sink!sinkVars
<1> QED BY <1>1, <1>2, <1>3, <1>4, SinkCrash DEF GatewayNext

\* Every thread of the composed gateway uses the audit log by its contract, through
\* exceptions, crashes and late arrivals: what a call returned for is in the log, and a
\* thread that raised, died or ended hands over nothing more.
THEOREM GatewayKeepsSinkContract == GatewaySpec => SinkContractKept
<1>1. GatewayInit => Sink!Init
  BY DEF GatewayInit, NegotiationStart, Sink!Init, Ended
<1> QED
  BY <1>1, ClientInvAlways, SinkStep, PTL DEF GatewaySpec, SinkContractKept, Sink!Spec

\* What the contract comes to is proved once, for any writers.
SinkFacts == INSTANCE AuditSink_proofs
               WITH Writers <- Requests, Records <- AuditRecords, given <- trail, held <- log,
                    over <- {r \in Requests : pc[r] \in Ended}

\* What a reader of the log may conclude: it shows nothing a thread did not hand over,
\* everything a thread that has not ended handed over, and of a thread that was left by
\* an exception or a crash all but one record.
LogIsComplete ==
  \A r \in Requests :
    /\ log[r] \subseteq trail[r]
    /\ pc[r] \notin Ended => log[r] = trail[r]
    /\ \A a, b \in trail[r] \ log[r] : a = b

\* The gateway's threads are writers by the contract, so its log is complete in that
\* sense in every state, whatever raised, crashed or arrived late.
THEOREM GatewayLosesOneRecordAtMost == GatewaySpec => []LogIsComplete
<1>1. Sink!Spec => SinkFacts!Spec
  <2>1. Sink!Init => SinkFacts!Init
    BY DEF Sink!Init, SinkFacts!Init
  <2>2. [Sink!Next]_(Sink!sinkVars) => [SinkFacts!Next]_(SinkFacts!sinkVars)
    BY Zenon DEF Sink!Next, SinkFacts!Next, Sink!Record, SinkFacts!Record, Sink!Stop,
       SinkFacts!Stop, Sink!Arrive, SinkFacts!Arrive, Sink!HandsOverItsLast,
       SinkFacts!HandsOverItsLast, Sink!sinkVars, SinkFacts!sinkVars
  <2> QED BY <2>1, <2>2, PTL DEF Sink!Spec, SinkFacts!Spec
<1>2. SinkFacts!NothingForged /\ SinkFacts!OnlyTheLastIsMissing => LogIsComplete
  BY DEF SinkFacts!NothingForged, SinkFacts!OnlyTheLastIsMissing, LogIsComplete
<1> QED
  BY <1>1, <1>2, GatewayKeepsSinkContract, SinkFacts!OneRecordAtMostIsMissing, PTL
    DEF SinkContractKept
=============================================================================
