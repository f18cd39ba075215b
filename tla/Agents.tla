-------------------------------- MODULE Agents --------------------------------
(***************************************************************************)
(* The two LLM agents of ASCO, the Compliance Sentinel and the Liquidity   *)
(* Strategist, as steps of a request's thread.                             *)
(*                                                                         *)
(* Each call to the inference backend is one action, because it is where   *)
(* the thread waits.  A call ends in one of three ways: a reply that       *)
(* parses as JSON (a member of SentinelReplies or StrategistReplies, which *)
(* the model behind it may have made up), an InferenceTimeoutError, or     *)
(* anything else -- a transport error, an empty or cut-off completion,     *)
(* text that is not JSON, a missing field, an unknown enum value -- which  *)
(* the agents treat alike and which is called unreadable here.             *)
(***************************************************************************)
EXTENDS Orchestrator

CONSTANTS
  SentinelReplies,     \* verdicts the Sentinel's model may emit, well-formed or not
  StrategistReplies    \* proposals the Strategist's model may emit, well-formed or not

VARIABLES
  offered,     \* [Requests -> SUBSET Rails]: the rails that quoted (rail_quotes)
  verdict,     \* [Requests -> Verdicts \cup {NoVerdict}]
  proposal     \* [Requests -> Proposals \cup {NoProposal}]

agentVars == <<offered, verdict, proposal>>

Outcomes == {"PASS", "ESCALATE", "BLOCK"}
NoLimit == -1                          \* max_settlement_seconds is None
NotANumber == -2                       \* Decimal("NaN"), which the verdict's parser accepts
BlankRule == " "                       \* a cited rule of white space only

\* Risk scores are hundredths: the code bounds them by 0.0 and 1.0.  The rules
\* are looked at one by one, so one string is as good as a list of them: listed
\* says which of the two the reply has, and nothing here asks.
IsVerdict(reply) ==
  /\ reply.outcome \in Outcomes
  /\ reply.risk \in 0 .. 100
  /\ reply.cited # {}
  /\ BlankRule \notin reply.cited

\* The verdict the Sentinel constructs itself when inference gives it none.
FallbackVerdict(rule) ==
  [outcome |-> "ESCALATE", risk |-> 50, cited |-> {rule}, listed |-> TRUE,
   forbidden |-> {}, maxSeconds |-> NoLimit]

TimeoutVerdict == FallbackVerdict("INFERENCE_TIMEOUT_FAIL_CLOSED")
MalformedVerdict == FallbackVerdict("MALFORMED_OUTPUT_ESCALATE")

NoVerdict == [outcome |-> "NONE", risk |-> 0, cited |-> {}, listed |-> TRUE,
              forbidden |-> {}, maxSeconds |-> NoLimit]

IsProposal(reply) ==
  /\ reply.rail \in Rails
  /\ reply.currency = "SEND"           \* the currency the transfer is sent in
  /\ reply.seconds > 0

NoProposal == [rail |-> NoRail, cost |-> 0, currency |-> "SEND", seconds |-> 0]

Verdicts == {v \in SentinelReplies : IsVerdict(v)} \cup {TimeoutVerdict, MalformedVerdict}
Proposals == {p \in StrategistReplies : IsProposal(p)}

ASSUME AgentsAssumption ==
  /\ SentinelReplies \subseteq
       [outcome : STRING, risk : Int, cited : SUBSET STRING, listed : BOOLEAN,
        forbidden : SUBSET Rails, maxSeconds : Int]
  /\ StrategistReplies \subseteq
       [rail : STRING, cost : Int, currency : STRING, seconds : Int]

AgentsTypeOK ==
  /\ offered \in [Requests -> SUBSET Rails]
  /\ verdict \in [Requests -> Verdicts \cup {NoVerdict}]
  /\ proposal \in [Requests -> Proposals \cup {NoProposal}]

-----------------------------------------------------------------------------
(* ComplianceSentinel.assess                                               *)

Conclude(r, v) ==
  /\ verdict' = [verdict EXCEPT ![r] = v]
  /\ Goto(r, "audit_verdict")
  /\ UNCHANGED <<transferVars, offered, proposal>>

\* A reply accepted on the first call or on the re-ask.
SentinelConcludes(r) ==
  /\ pc[r] \in {"assess", "reassess"}
  /\ \E reply \in SentinelReplies : IsVerdict(reply) /\ Conclude(r, reply)

\* Only the first call's timeout is told apart.
SentinelTimesOut(r) ==
  /\ pc[r] = "assess"
  /\ Conclude(r, TimeoutVerdict)

\* Anything but a timeout on the first call is asked again once.
SentinelReasks(r) ==
  /\ pc[r] = "assess"
  /\ Goto(r, "reassess")
  /\ UNCHANGED <<transferVars, agentVars>>

\* The second failure of any kind, a timeout included, escalates ...
SentinelGivesUp(r) ==
  /\ pc[r] = "reassess"
  /\ Conclude(r, MalformedVerdict)

\* ... unless the second error's text makes the rationale longer than the 600
\* characters a ComplianceVerdict accepts: then assess itself raises.
SentinelRaises(r) ==
  /\ pc[r] = "reassess"
  /\ Goto(r, "raised")
  /\ UNCHANGED <<transferVars, agentVars>>

Assess(r) ==
  \/ SentinelConcludes(r)
  \/ SentinelTimesOut(r)
  \/ SentinelReasks(r)
  \/ SentinelGivesUp(r)
  \/ SentinelRaises(r)

-----------------------------------------------------------------------------
(* LiquidityStrategist.propose                                             *)

\* The quotes left once the rails the verdict forbids are taken out.
EligibleRails(r) == offered[r] \ verdict[r].forbidden

\* The proposed rail need not be one of the eligible ones: the exit validator looks.
StrategistConcludes(r) ==
  /\ pc[r] \in {"propose", "repropose"}
  /\ EligibleRails(r) # {}
  /\ \E reply \in StrategistReplies :
       /\ IsProposal(reply)
       /\ proposal' = [proposal EXCEPT ![r] = reply]
  /\ Goto(r, "audit_proposal")
  /\ UNCHANGED <<transferVars, offered, verdict>>

\* Mutant: an unreadable second reply is asked again, and again.
StrategistKeepsAsking(r) ==
  /\ EligibleRails(r) # {}
  /\ \/ pc[r] = "propose" /\ Goto(r, "repropose")
     \/ pc[r] = "repropose" /\ Goto(r, "propose")
  /\ UNCHANGED <<transferVars, agentVars>>

StrategistReasks(r) ==
  /\ pc[r] = "propose"
  /\ EligibleRails(r) # {}
  /\ Goto(r, "repropose")
  /\ UNCHANGED <<transferVars, agentVars>>

\* No quote to choose from, a timeout, or a second failure of any kind: the
\* exception leaves propose and the coordinator escalates.
StrategistFails(r) ==
  /\ pc[r] \in {"propose", "repropose"}
  /\ Goto(r, "audit_no_proposal")
  /\ UNCHANGED <<transferVars, agentVars>>

Propose(r) ==
  \/ StrategistConcludes(r)
  \/ StrategistReasks(r)
  \/ StrategistFails(r)
=============================================================================
