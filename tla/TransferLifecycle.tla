-------------------------- MODULE TransferLifecycle --------------------------
(***************************************************************************)
(* What the platform promises about one transfer, whoever drives it: the   *)
(* stateDiagram of domain-model.md section 4, transcribed in the source as *)
(* _LEGAL_TRANSITIONS, with the budget the orchestrator adds to its only   *)
(* cycle: FAILED -> SETTLING happens on an alternate rail, each alternate  *)
(* at most once, and at most MaxSettlementRetries times.                   *)
(*                                                                         *)
(* The detailed modules (Negotiation, RailRouter, Gateway) are shown to    *)
(* implement this one.                                                     *)
(***************************************************************************)
EXTENDS Naturals, FiniteSets

CONSTANTS Requests,    \* the POST /api/transfers calls; each creates at most one transfer
          Rails,       \* the settlement rails
          MaxRetries   \* alternate rails a failed settlement may be retried on

VARIABLES state,       \* [Requests -> States]: Transfer.state, or "ABSENT" before creation
          retriedOn    \* [Requests -> SUBSET Rails]: alternate rails retried on so far

lifecycleVars == <<state, retriedOn>>

States == {"ABSENT", "INITIATED", "VALIDATED", "SETTLING",
           "DELIVERED", "REJECTED", "FAILED"}

Init ==
  /\ state = [r \in Requests |-> "ABSENT"]
  /\ retriedOn = [r \in Requests |-> {}]

Move(r, from, to) ==
  /\ state[r] = from
  /\ state' = [state EXCEPT ![r] = to]

\* Every edge of the diagram but the retry leaves the retry budget alone.
Advance(r) ==
  /\ \/ Move(r, "ABSENT", "INITIATED")
     \/ Move(r, "INITIATED", "VALIDATED")
     \/ Move(r, "INITIATED", "REJECTED")
     \/ Move(r, "VALIDATED", "SETTLING")
     \/ Move(r, "VALIDATED", "REJECTED")
     \/ Move(r, "SETTLING", "DELIVERED")
     \/ Move(r, "SETTLING", "FAILED")
  /\ UNCHANGED retriedOn

Retry(r) ==
  /\ Move(r, "FAILED", "SETTLING")
  /\ Cardinality(retriedOn[r]) < MaxRetries
  /\ \E alternate \in Rails \ retriedOn[r] :
       retriedOn' = [retriedOn EXCEPT ![r] = @ \cup {alternate}]

Next == \E r \in Requests : Advance(r) \/ Retry(r)

Spec == Init /\ [][Next]_lifecycleVars
=============================================================================
