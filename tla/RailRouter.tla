------------------------------ MODULE RailRouter ------------------------------
(***************************************************************************)
(* RailRouter.execute_settlement_with_retry (rails router.py): submit the  *)
(* pacs.008 to the approved rail and, when it does not confirm, to the     *)
(* alternate rails in a fixed order, within the orchestrator's budget.     *)
(*                                                                         *)
(* The rails are external (RailAdapter is a Protocol, with no adapter in   *)
(* the repository).  What a rail does with a submission and what its       *)
(* adapter answers are separate: between the two the answer may be late or *)
(* lost.  An adapter is taken to answer honestly -- DELIVERED only for a   *)
(* payment made, FAILED or REJECTED only for one refused, SETTLING for one *)
(* not decided yet -- or to raise, and then anything may have happened.    *)
(***************************************************************************)
EXTENDS Orchestrator

VARIABLES
  adapters,    \* SUBSET Rails: the rails with a registered adapter (self._adapters)
  papss,       \* [Requests -> BOOLEAN]: corridor.papss_eligible
  approved,    \* [Requests -> Rails \cup {NoRail}]: preferred_rail of the call
  alternates,  \* [Requests -> SUBSET Rails]: the rails retried on
  book         \* [Requests -> [Rails -> RailPositions]]: what each rail did, on the rail's side

routerVars == <<adapters, papss, approved, alternates, book>>

RailPositions == {"none", "pending", "paid", "refused"}

Priority == [RIPPLE |-> 1, PAPSS |-> 2, SWIFT |-> 3]

\* Mutant: the corridor is not asked whether PAPSS serves it.
CandidatesAnyCorridor(r) == adapters

\* all_candidate_rails: the approved rail and the eligible alternates, with an adapter.
Candidates(r) ==
  {x \in adapters : x = approved[r] \/ x # "PAPSS" \/ papss[r]}

\* Mutant: the approved rail stays among the alternates.
UntriedButRetried(r) == Candidates(r) \ alternates[r]

\* Mutant: a rail retried on stays among the alternates.
UntriedButApproved(r) == Candidates(r) \ {approved[r]}

Untried(r) == Candidates(r) \ ({approved[r]} \cup alternates[r])

\* The approved rail goes first, then the alternates by priority.
NextRail(r) ==
  CHOOSE x \in Untried(r) : \A y \in Untried(r) : Priority[x] <= Priority[y]

\* execute_settlement_with_retry is entered; no adapter for the rail: ValueError.
StartRouting(r, preferred) ==
  /\ approved' = [approved EXCEPT ![r] = preferred]
  /\ \/ preferred \in adapters /\ Goto(r, "submit")
     \/ preferred \notin adapters /\ Goto(r, "raised")
  /\ UNCHANGED <<transferVars, adapters, papss, alternates, book>>

\* adapter.submit_settlement: the instruction leaves for the rail.
Submit(r) ==
  /\ pc[r] = "submit"
  /\ book' = [book EXCEPT ![r][rail[r]] = "pending"]
  /\ Goto(r, "await_rail")
  /\ UNCHANGED <<transferVars, adapters, papss, approved, alternates>>

\* The rail decides, whether or not anyone still waits for its answer.
RailDecides(r) ==
  \E x \in Rails, decision \in {"paid", "refused"} :
    /\ book[r][x] = "pending"
    /\ book' = [book EXCEPT ![r][x] = decision]
    /\ UNCHANGED <<pc, transferVars, adapters, papss, approved, alternates>>

\* Mutant: a payment the rail accepted is taken for a payment it made.
RailConfirmsPending(r) ==
  /\ pc[r] = "await_rail"
  /\ book[r][rail[r]] \in {"pending", "paid"}
  /\ Transition(r, "DELIVERED")
  /\ Goto(r, "settled")
  /\ UNCHANGED <<rail, budgetVars, routerVars>>

\* RailStatus.DELIVERED: the transfer is delivered, on that rail.
RailConfirms(r) ==
  /\ pc[r] = "await_rail"
  /\ book[r][rail[r]] = "paid"
  /\ Transition(r, "DELIVERED")
  /\ Goto(r, "settled")
  /\ UNCHANGED <<rail, budgetVars, routerVars>>

\* Mutant: the first failure ends the settlement.
OtherStatusGivesUp(r, position) ==
  /\ pc[r] = "await_rail"
  /\ book[r][rail[r]] = position
  /\ Transition(r, "FAILED")
  /\ Goto(r, "exhausted")
  /\ UNCHANGED <<rail, budgetVars, routerVars>>

\* Any other status -- SETTLING too -- fails the attempt.
OtherStatus(r, position) ==
  /\ pc[r] = "await_rail"
  /\ book[r][rail[r]] = position
  /\ Transition(r, "FAILED")
  /\ Goto(r, IF Untried(r) = {} THEN "exhausted" ELSE "retry")
  /\ UNCHANGED <<rail, budgetVars, routerVars>>

RailRefuses(r) == OtherStatus(r, "refused")         \* FAILED or REJECTED
RailStillSettling(r) == OtherStatus(r, "pending")   \* SETTLING

\* The adapter raises -- a timeout, a lost connection: nothing here catches it.
AdapterRaises(r) ==
  /\ pc[r] = "await_rail"
  /\ Goto(r, "raised")
  /\ UNCHANGED <<transferVars, routerVars>>

\* Mutant: a spent budget is polled instead of ending the loop.
CheckRetryBudgetAgain(r) ==
  /\ pc[r] = "retry"
  /\ ReadRetries(r)
  /\ \/ RetryAllowed(retryCount[IdOf[r]]) /\ Goto(r, "count_retry")
     \/ ~RetryAllowed(retryCount[IdOf[r]]) /\ Goto(r, "retry")
  /\ UNCHANGED <<state, rail, retryCount, routerVars>>

\* retry_settlement reads the budget: RetryBudgetExceededError ends the loop
\* with rails left to try.
CheckRetryBudget(r) ==
  /\ pc[r] = "retry"
  /\ ReadRetries(r)
  /\ \/ RetryAllowed(seen'[r]) /\ Goto(r, "count_retry")
     \/ ~RetryAllowed(seen'[r]) /\ Goto(r, "exhausted")
  /\ UNCHANGED <<state, rail, retryCount, routerVars>>

RetryOnAlternate(r) ==
  /\ pc[r] = "count_retry"
  /\ RetrySettlement(r, NextRail(r))
  /\ alternates' = [alternates EXCEPT ![r] = @ \cup {NextRail(r)}]
  /\ Goto(r, "submit")
  /\ UNCHANGED <<seen, adapters, papss, approved, book>>

RouterStep(r) ==
  \/ Submit(r)
  \/ RailConfirms(r) \/ RailRefuses(r) \/ RailStillSettling(r) \/ AdapterRaises(r)
  \/ CheckRetryBudget(r) \/ RetryOnAlternate(r)

-----------------------------------------------------------------------------
(* The component on its own: transfers at SETTLING, approved for any rail,  *)
(* in a new process (the counts live in its memory).  Transfers that drew   *)
(* the same id share a count, and it is never dropped: one that is routed   *)
(* after another finds what the other left behind.                          *)

routerSpecVars == <<pc, transferVars, routerVars>>

RouterStart ==
  /\ approved = [r \in Requests |-> NoRail]
  /\ alternates = [r \in Requests |-> {}]
  /\ book = [r \in Requests |-> [x \in Rails |-> "none"]]

RouterInit ==
  /\ pc = [r \in Requests |-> "route"]
  /\ state = [r \in Requests |-> "SETTLING"]
  /\ rail \in [Requests -> Rails]
  /\ retryCount = [i \in Ids |-> 0]
  /\ seen = [r \in Requests |-> 0]
  /\ adapters \in (SUBSET Rails) \ {{}}
  /\ papss \in [Requests -> BOOLEAN]
  /\ RouterStart

Route(r) == pc[r] = "route" /\ StartRouting(r, rail[r])

RouterNext ==
  \E r \in Requests : Route(r) \/ RouterStep(r) \/ RailDecides(r)

\* The thread keeps running and an adapter's call returns or raises; the rails
\* are not assumed to decide anything.
RouterSpec ==
  /\ RouterInit
  /\ [][RouterNext]_routerSpecVars
  /\ \A r \in Requests : WF_routerSpecVars(Route(r) \/ RouterStep(r))

-----------------------------------------------------------------------------
(* Properties                                                              *)

RouterPcs == {"route", "submit", "await_rail", "retry", "count_retry", "settled", "exhausted", "raised"}

RouterTypeOK ==
  /\ TransferTypeOK
  /\ adapters \in (SUBSET Rails) \ {{}}
  /\ papss \in [Requests -> BOOLEAN]
  /\ approved \in [Requests -> Rails \cup {NoRail}]
  /\ alternates \in [Requests -> SUBSET Rails]
  /\ book \in [Requests -> [Rails -> RailPositions]]

\* The router's type invariant; the retry count stays within the budget.
RouterTypeInvariant ==
  /\ pc \in [Requests -> RouterPcs]
  /\ RouterTypeOK

Submitted(r) == {x \in Rails : book[r][x] # "none"}

\* A rail never receives the same payment twice: when an attempt is about to be
\* submitted, its rail has not seen this transfer, in any earlier attempt.
NeverSubmittedTwice ==
  \A r \in Requests : pc[r] = "submit" => book[r][rail[r]] = "none"

\* A delivered transfer names the rail that delivered it, whatever was tried
\* before: that rail paid, it was the last one told -- the approved one when there
\* was no retry, else the alternate of least priority -- and no rail was told
\* but the approved one and those a retry was spent on.
DeliveredByTheLastTold ==
  \A r \in Requests : state[r] = "DELIVERED" =>
    /\ book[r][rail[r]] = "paid"
    /\ alternates[r] = {} => rail[r] = approved[r]
    /\ \A x \in alternates[r] : rail[r] \in alternates[r] /\ Priority[x] <= Priority[rail[r]]
    /\ Submitted(r) = {approved[r]} \cup alternates[r]

\* The approved rail is tried before any other, an alternate only after every
\* eligible alternate of higher priority, and PAPSS only where the corridor is
\* eligible or it was the approved rail.
AttemptsInOrder ==
  \A r \in Requests : \A x \in Submitted(r) :
    /\ x \in adapters
    /\ book[r][approved[r]] # "none"
    /\ x = "PAPSS" => papss[r] \/ approved[r] = "PAPSS"
    /\ x # approved[r] =>
         \A y \in Untried(r) : Priority[x] < Priority[y]

\* The retries made under a transfer id, by all the requests that drew it.
RetriesUnder(i) == {retry \in Requests \X Rails : IdOf[retry[1]] = i /\ retry[2] \in alternates[retry[1]]}

\* A transfer is given up as exhausted only when it failed and either every
\* candidate rail was told or the budget is spent: that many retries have really
\* been made under its id, whatever was read of the count and whenever.
ExhaustedMeansExhausted ==
  \A r \in Requests : pc[r] = "exhausted" =>
    /\ state[r] = "FAILED"
    /\ \/ Candidates(r) \subseteq Submitted(r)
       \/ MaxSettlementRetries <= Cardinality(RetriesUnder(IdOf[r]))

\* The count against the retries it counts.  It never runs ahead of them, so no
\* retry is refused for one that was not made.  It may fall behind, but only when
\* two requests that share the id both retry, one's increment written over the
\* other's: as long as a single request retries under the id every retry counts.
RetriesAreCounted ==
  \A i \in Ids :
    /\ retryCount[i] <= Cardinality(RetriesUnder(i))
    /\ RetriesUnder(i) # {} => retryCount[i] >= 1
    /\ \A r \in Requests :
         RetriesUnder(i) \subseteq {r} \X Rails => retryCount[i] = Cardinality(RetriesUnder(i))

\* The router always returns or raises: the retry loop is finite.
RoutingEnds ==
  \A r \in Requests : <>(pc[r] \in {"settled", "exhausted", "raised"})

\* domain-model.md section 4: SETTLING -> FAILED on "rail timeout or rail-side
\* rejection".  A FAILED transfer's rail has not got the payment in hand.
FailedOnlyOnRefusal ==
  \A r \in Requests : state[r] = "FAILED" => book[r][rail[r]] = "refused"
=============================================================================
