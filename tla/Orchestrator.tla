----------------------------- MODULE Orchestrator -----------------------------
(***************************************************************************)
(* The Transfer aggregate (libs/domain transfer.py) and the deterministic  *)
(* Master Orchestrator (asco orchestrator/master.py) every other component *)
(* moves it through.                                                       *)
(*                                                                         *)
(* A request is one POST /api/transfers call, run by one worker thread     *)
(* from start to end.  It creates at most one Transfer, an immutable value *)
(* the thread holds its own copy of: state and rail are that copy's        *)
(* fields.  Its id is drawn by uuid4 and cut to 8 hex digits, and nothing  *)
(* checks that it is fresh: IdOf says which id each request draws.  What   *)
(* the process keeps for all its threads is keyed by that id.              *)
(***************************************************************************)
EXTENDS Integers, FiniteSets

CONSTANTS
  Requests,    \* the POST /api/transfers calls
  Ids,         \* the transfer ids uuid4().hex[:8] may yield
  IdOf         \* [Requests -> Ids]: the id each request's transfer draws

ASSUME OrchestratorAssumption == IdOf \in [Requests -> Ids]

VARIABLES
  pc,          \* [Requests -> STRING]: where the request's thread is
  state,       \* [Requests -> TransferStates]: Transfer.state, "ABSENT" before creation
  rail,        \* [Requests -> Rails \cup {NoRail}]: Transfer.rail
  retryCount,  \* [Ids -> Nat]: MasterOrchestrator._retry_counts, 0 when missing
  seen         \* [Requests -> Nat]: retry_settlement's current_retries

budgetVars == <<retryCount, seen>>
transferVars == <<state, rail, budgetVars>>

Rails == {"RIPPLE", "PAPSS", "SWIFT"}
NoRail == "NONE"

TransferStates == {"ABSENT", "INITIATED", "VALIDATED", "SETTLING",
                   "DELIVERED", "REJECTED", "FAILED"}

LegalTransitions ==
  { <<"INITIATED", "VALIDATED">>, <<"INITIATED", "REJECTED">>,
    <<"VALIDATED", "SETTLING">>,  <<"VALIDATED", "REJECTED">>,
    <<"SETTLING", "DELIVERED">>,  <<"SETTLING", "FAILED">>,
    <<"FAILED", "SETTLING">> }

MaxSettlementRetries == 2

TransferTypeOK ==
  /\ state \in [Requests -> TransferStates]
  /\ rail \in [Requests -> Rails \cup {NoRail}]
  /\ retryCount \in [Ids -> 0 .. MaxSettlementRetries]
  /\ seen \in [Requests -> 0 .. MaxSettlementRetries]

\* The thread's next step.
Goto(r, label) == pc' = [pc EXCEPT ![r] = label]

\* MasterOrchestrator.transition: an undrawn transition raises.  Here it blocks:
\* a request that attempted one would never end, which the liveness runs refute.
Transition(r, to) ==
  /\ <<state[r], to>> \in LegalTransitions
  /\ state' = [state EXCEPT ![r] = to]

-----------------------------------------------------------------------------
(* MasterOrchestrator.retry_settlement on an alternate rail.  The count is *)
(* read and, no lock being held, written back in a later step: the thread  *)
(* of another transfer with the same id may come between the two.          *)

ReadRetries(r) == seen' = [seen EXCEPT ![r] = retryCount[IdOf[r]]]

\* Mutant: one retry too many.
RetryAllowedOnceMore(count) == count <= MaxSettlementRetries

\* It raises RetryBudgetExceededError when the count read is not below the budget.
RetryAllowed(count) == count < MaxSettlementRetries

\* Mutant: the retry is not counted.
RetryUncounted(r, alternate) ==
  /\ state[r] = "FAILED"
  /\ UNCHANGED retryCount
  /\ state' = [state EXCEPT ![r] = "SETTLING"]
  /\ rail' = [rail EXCEPT ![r] = alternate]

\* Mutant: the transfer keeps the rail that failed.
RetryKeepsRail(r, alternate) ==
  /\ state[r] = "FAILED"
  /\ retryCount' = [retryCount EXCEPT ![IdOf[r]] = seen[r] + 1]
  /\ state' = [state EXCEPT ![r] = "SETTLING"]
  /\ UNCHANGED rail

RetrySettlement(r, alternate) ==
  /\ state[r] = "FAILED"
  /\ retryCount' = [retryCount EXCEPT ![IdOf[r]] = seen[r] + 1]
  /\ state' = [state EXCEPT ![r] = "SETTLING"]
  /\ rail' = [rail EXCEPT ![r] = alternate]
=============================================================================
