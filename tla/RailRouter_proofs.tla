--------------------------- MODULE RailRouter_proofs ---------------------------
(***************************************************************************)
(* What the rail router guarantees for any number of concurrent requests,  *)
(* any transfer ids -- shared ones included -- and any set of adapters.    *)
(*                                                                         *)
(* The lemmas are about one step of one request and say nothing of the     *)
(* other components, so that the gateway's proofs use them too.            *)
(***************************************************************************)
EXTENDS RailRouter, FiniteSetTheorems, TLAPS

\* The rails the router has committed a transfer to.
Chosen(r) == {approved[r]} \cup alternates[r]

\* The inductive invariant of one request: which rails may have been told of the
\* payment, and what the router is about to do with the next.
RoutingInv(r) ==
  /\ Submitted(r) \subseteq Chosen(r)
  /\ approved[r] \notin alternates[r]
  /\ alternates[r] # {} => approved[r] \in Rails
  /\ pc[r] \in {"submit", "await_rail", "retry", "count_retry"} => approved[r] \in Rails
  /\ pc[r] \in {"route", "submit", "await_rail"} => state[r] = "SETTLING"
  /\ pc[r] \in {"retry", "count_retry", "exhausted"} => state[r] = "FAILED"
  /\ pc[r] = "route" => rail[r] \in Rails /\ Submitted(r) = {} /\ alternates[r] = {}
  /\ pc[r] \in {"submit", "await_rail"} => rail[r] \in Rails /\ rail[r] \in Chosen(r)
  /\ pc[r] = "submit" => /\ book[r][rail[r]] = "none"
                         /\ Chosen(r) \ {rail[r]} \subseteq Submitted(r)
  /\ pc[r] \in {"await_rail", "retry", "count_retry", "exhausted"} =>
       Chosen(r) \subseteq Submitted(r)
  /\ pc[r] \in {"retry", "count_retry"} => Untried(r) # {}
  /\ pc[r] = "exhausted" => Untried(r) = {} \/ seen[r] = MaxSettlementRetries
  /\ pc[r] = "count_retry" => seen[r] < MaxSettlementRetries
  /\ state[r] = "DELIVERED" =>
       rail[r] \in Rails /\ rail[r] \in Chosen(r) /\ book[r][rail[r]] = "paid"

RouterInv ==
  /\ RouterTypeInvariant
  /\ \A r \in Requests : RoutingInv(r)

\* The alternates are tried in an order: a rail of least priority number is
\* always there to be chosen, and it is one not tried before.
LEMMA NextRailIsUntried ==
  ASSUME NEW r \in Requests, RouterTypeOK, Untried(r) # {}
  PROVE  NextRail(r) \in Untried(r) /\ NextRail(r) \in Rails
<1> DEFINE Least(x) == \A y \in Untried(r) : Priority[x] <= Priority[y]
<1>1. Untried(r) \subseteq Rails
  BY DEF Untried, Candidates, RouterTypeOK
<1>2. /\ Priority["RIPPLE"] = 1 /\ Priority["PAPSS"] = 2 /\ Priority["SWIFT"] = 3
  BY DEF Priority
<1>3. \E x \in Untried(r) : Least(x)
  <2>1. CASE "RIPPLE" \in Untried(r)
    BY <1>1, <1>2, <2>1 DEF Rails
  <2>2. CASE "RIPPLE" \notin Untried(r) /\ "PAPSS" \in Untried(r)
    BY <1>1, <1>2, <2>2 DEF Rails
  <2>3. CASE "RIPPLE" \notin Untried(r) /\ "PAPSS" \notin Untried(r)
    BY <1>1, <1>2, <2>3 DEF Rails
  <2> QED BY <2>1, <2>2, <2>3
<1>4. NextRail(r) \in Untried(r)
  BY <1>3 DEF NextRail
<1> QED BY <1>1, <1>4

\* The library's facts on cardinality, in the form the provers can apply.
LEMMA CardinalityWith ==
  ASSUME NEW T, NEW x, IsFiniteSet(T), x \notin T, NEW n \in Nat, Cardinality(T) = n
  PROVE  IsFiniteSet(T \cup {x}) /\ Cardinality(T \cup {x}) = n + 1
  BY FS_AddElement, Zenon

LEMMA CardinalityWithout ==
  ASSUME NEW T, NEW x, IsFiniteSet(T), x \in T, NEW n \in Nat, Cardinality(T) = n
  PROVE  IsFiniteSet(T \ {x}) /\ Cardinality(T \ {x}) = n - 1
  BY FS_RemoveElement, Zenon

LEMMA RailsAreThree == IsFiniteSet(Rails) /\ Cardinality(Rails) = 3
<1>1. IsFiniteSet({"RIPPLE"}) /\ Cardinality({"RIPPLE"}) = 1
  BY FS_Singleton
<1>2. /\ "PAPSS" \notin {"RIPPLE"} /\ "SWIFT" \notin {"RIPPLE"} \cup {"PAPSS"}
      /\ 1 \in Nat /\ 1 + 1 \in Nat
  OBVIOUS
<1>3. /\ IsFiniteSet({"RIPPLE"} \cup {"PAPSS"})
      /\ Cardinality({"RIPPLE"} \cup {"PAPSS"}) = 1 + 1
  BY <1>1, <1>2, CardinalityWith, Zenon
<1>4. /\ IsFiniteSet(({"RIPPLE"} \cup {"PAPSS"}) \cup {"SWIFT"})
      /\ Cardinality(({"RIPPLE"} \cup {"PAPSS"}) \cup {"SWIFT"}) = (1 + 1) + 1
  BY <1>2, <1>3, CardinalityWith, Zenon
<1>5. Rails = ({"RIPPLE"} \cup {"PAPSS"}) \cup {"SWIFT"}
  BY DEF Rails
<1> QED BY <1>4, <1>5

\* With three rails, a transfer that still has a rail to try has been retried at
\* most once, and no transfer is ever retried more than twice.
LEMMA AlternatesAreFew ==
  ASSUME NEW r \in Requests, alternates[r] \subseteq Rails, approved[r] \notin alternates[r],
         alternates[r] # {} => approved[r] \in Rails
  PROVE  /\ IsFiniteSet(alternates[r])
         /\ Cardinality(alternates[r]) <= MaxSettlementRetries
         /\ \A x \in Rails \ ({approved[r]} \cup alternates[r]) :
              Cardinality(alternates[r]) < MaxSettlementRetries
<1>1. IsFiniteSet(Rails) /\ Cardinality(Rails) = 3
  BY RailsAreThree
<1>2. CASE alternates[r] = {}
  BY <1>2, FS_EmptySet DEF MaxSettlementRetries
<1>3. CASE alternates[r] # {}
  <2>1. IsFiniteSet(Rails \ {approved[r]}) /\ Cardinality(Rails \ {approved[r]}) = 2
    <3>1. approved[r] \in Rails /\ 3 \in Nat
      BY <1>3
    <3>2. /\ IsFiniteSet(Rails \ {approved[r]})
          /\ Cardinality(Rails \ {approved[r]}) = 3 - 1
      BY <1>1, <3>1, CardinalityWithout, Zenon
    <3> QED BY <3>2
  <2>2. alternates[r] \in SUBSET (Rails \ {approved[r]})
    OBVIOUS
  <2>3. /\ IsFiniteSet(alternates[r])
        /\ Cardinality(alternates[r]) <= 2
    BY <2>1, <2>2, FS_Subset
  <2>4. ASSUME NEW x \in Rails \ ({approved[r]} \cup alternates[r])
        PROVE  Cardinality(alternates[r]) <= 1
    <3>1. /\ IsFiniteSet((Rails \ {approved[r]}) \ {x})
          /\ Cardinality((Rails \ {approved[r]}) \ {x}) = 1
      BY <2>1, CardinalityWithout
    <3>2. alternates[r] \in SUBSET ((Rails \ {approved[r]}) \ {x})
      BY <2>2
    <3> QED BY <3>1, <3>2, FS_Subset
  <2>5. Cardinality(alternates[r]) \in Nat
    BY <2>3, FS_CardinalityType
  <2> QED BY <2>3, <2>4, <2>5 DEF MaxSettlementRetries
<1> QED BY <1>2, <1>3

\* A step of the router keeps its variables in their types ...
LEMMA RouterStepTypes ==
  ASSUME NEW r \in Requests, RouterTypeOK,
         pc[r] \in {"submit", "await_rail"} => rail[r] \in Rails,
         pc[r] \in {"retry", "count_retry"} => Untried(r) # {},
         pc[r] = "count_retry" => seen[r] < MaxSettlementRetries,
         RouterStep(r) \/ RailDecides(r)
  PROVE  RouterTypeOK'
<1> USE DEF RouterTypeOK, TransferTypeOK, transferVars, budgetVars, routerVars
<1>0. IdOf[r] \in Ids
  BY OrchestratorAssumption DEF OrchestratorAssumption
<1>1. CASE Submit(r)
  BY <1>1 DEF Submit, RailPositions
<1>2. CASE RailConfirms(r)
  BY <1>2 DEF RailConfirms, Transition, TransferStates
<1>3. CASE RailRefuses(r) \/ RailStillSettling(r)
  BY <1>3 DEF RailRefuses, RailStillSettling, OtherStatus, Transition, TransferStates
<1>4. CASE AdapterRaises(r)
  BY <1>4 DEF AdapterRaises
<1>5. CASE CheckRetryBudget(r)
  BY <1>0, <1>5 DEF CheckRetryBudget, ReadRetries, MaxSettlementRetries
<1>6. CASE RetryOnAlternate(r)
  <2>1. NextRail(r) \in Rails
    BY <1>6, NextRailIsUntried DEF RetryOnAlternate
  <2>2. seen[r] + 1 \in 0 .. MaxSettlementRetries
    BY <1>6 DEF RetryOnAlternate, MaxSettlementRetries
  <2> QED
    BY <1>0, <1>6, <2>1, <2>2 DEF RetryOnAlternate, RetrySettlement, TransferStates
<1>7. CASE RailDecides(r)
  BY <1>7 DEF RailDecides, RailPositions
<1> QED
  BY <1>1, <1>2, <1>3, <1>4, <1>5, <1>6, <1>7 DEF RouterStep

\* ... and for the request that takes it, its routing invariant.
LEMMA RouterStepRouting ==
  ASSUME NEW r \in Requests, RouterTypeOK, NEW S, pc \in [Requests -> S], RoutingInv(r),
         RouterStep(r) \/ RailDecides(r)
  PROVE  RoutingInv(r)'
<1> USE DEF RouterTypeOK, TransferTypeOK, transferVars, budgetVars, routerVars, Goto
<1> USE DEF Submitted, Chosen
<1>1. CASE Submit(r)
  <2>1. Submitted(r)' \subseteq Chosen(r)'
    BY <1>1 DEF Submit, RoutingInv
  <2> QED
    BY <1>1, <2>1 DEF Submit, RoutingInv
<1>2. CASE RailConfirms(r)
  BY <1>2 DEF RailConfirms, Transition, RoutingInv
<1>3. CASE RailRefuses(r) \/ RailStillSettling(r)
  <2>1. Untried(r)' = Untried(r)
    BY <1>3 DEF RailRefuses, RailStillSettling, OtherStatus, Untried, Candidates
  <2> QED
    BY <1>3, <2>1 DEF RailRefuses, RailStillSettling, OtherStatus, Transition, RoutingInv
<1>4. CASE AdapterRaises(r)
  BY <1>4 DEF AdapterRaises, RoutingInv
<1>5. CASE CheckRetryBudget(r)
  <2>1. Untried(r)' = Untried(r)
    BY <1>5 DEF CheckRetryBudget, Untried, Candidates
  <2>2. seen'[r] \in 0 .. MaxSettlementRetries
    BY <1>5, OrchestratorAssumption DEF CheckRetryBudget, ReadRetries, OrchestratorAssumption
  <2>3. ~RetryAllowed(seen'[r]) => seen'[r] = MaxSettlementRetries
    BY <2>2 DEF RetryAllowed, MaxSettlementRetries
  <2>4. /\ pc[r] = "retry" /\ UNCHANGED <<state, rail, routerVars>>
        /\ \/ pc'[r] = "count_retry" /\ seen'[r] < MaxSettlementRetries
           \/ pc'[r] = "exhausted" /\ seen'[r] = MaxSettlementRetries
    BY <1>5, <2>3 DEF CheckRetryBudget, RetryAllowed
  <2> QED
    BY <2>1, <2>4 DEF RoutingInv
<1>6. CASE RetryOnAlternate(r)
  <2>1. NextRail(r) \in Untried(r) /\ NextRail(r) \in Rails
    BY <1>6, NextRailIsUntried DEF RetryOnAlternate, RoutingInv
  <2>2. book[r][NextRail(r)] = "none"
    BY <2>1 DEF RoutingInv, Untried
  <2>3. /\ rail'[r] = NextRail(r) /\ state'[r] = "SETTLING" /\ pc'[r] = "submit"
        /\ alternates'[r] = alternates[r] \cup {NextRail(r)}
        /\ pc[r] = "count_retry" /\ UNCHANGED <<approved, book>>
    BY <1>6 DEF RetryOnAlternate, RetrySettlement
  <2>4. Chosen(r)' = Chosen(r) \cup {NextRail(r)} /\ Submitted(r)' = Submitted(r)
    BY <2>3
  <2>5. NextRail(r) \notin Chosen(r)
    BY <2>1 DEF Untried
  <2> HIDE DEF Chosen, Submitted
  <2>6. approved'[r] \notin alternates'[r]
    BY <2>1, <2>3 DEF RoutingInv, Untried
  <2> QED
    BY <2>1, <2>2, <2>3, <2>4, <2>5, <2>6 DEF RoutingInv
<1>7. CASE RailDecides(r)
  <2> PICK x \in Rails, decision \in {"paid", "refused"} :
        /\ book[r][x] = "pending"
        /\ book' = [book EXCEPT ![r][x] = decision]
    BY <1>7 DEF RailDecides
  <2>1. UNCHANGED <<pc, transferVars, adapters, papss, approved, alternates>>
    BY <1>7 DEF RailDecides
  <2>2. Submitted(r)' = Submitted(r) /\ Untried(r)' = Untried(r)
    BY <2>1 DEF Untried, Candidates
  <2>3. \A y \in Rails : y # x => book'[r][y] = book[r][y]
    OBVIOUS
  <2>4. ASSUME rail[r] \in Rails, book[r][rail[r]] \in {"none", "paid"}
        PROVE  book'[r][rail[r]] = book[r][rail[r]]
    BY <2>3, <2>4
  <2>5. Chosen(r)' = Chosen(r)
    BY <2>1
  <2>6. state[r] = "DELIVERED" /\ rail[r] \in Rails => book'[r][rail[r]] = "paid"
    BY <2>4 DEF RoutingInv
  <2> QED
    BY <2>1, <2>2, <2>4, <2>5, <2>6 DEF RoutingInv
<1> QED
  BY <1>1, <1>2, <1>3, <1>4, <1>5, <1>6, <1>7 DEF RouterStep

\* The step leaves every other request's invariant alone, and so does anything
\* that does not change what the invariant is about.
LEMMA RoutingFrame ==
  ASSUME NEW s \in Requests, RoutingInv(s),
         adapters' = adapters, papss'[s] = papss[s], pc'[s] = pc[s],
         state'[s] = state[s], rail'[s] = rail[s], seen'[s] = seen[s],
         approved'[s] = approved[s], alternates'[s] = alternates[s], book'[s] = book[s]
  PROVE  RoutingInv(s)'
<1>1. /\ Submitted(s)' = Submitted(s) /\ Chosen(s)' = Chosen(s)
      /\ Untried(s)' = Untried(s)
  BY DEF Submitted, Chosen, Untried, Candidates
<1> QED BY <1>1 DEF RoutingInv

LEMMA RouterStepOthers ==
  ASSUME NEW r \in Requests, NEW s \in Requests, r # s,
         RouterTypeOK, NEW S, pc \in [Requests -> S],
         RouterStep(r) \/ RailDecides(r)
  PROVE  /\ adapters' = adapters /\ papss'[s] = papss[s] /\ pc'[s] = pc[s]
         /\ state'[s] = state[s] /\ rail'[s] = rail[s] /\ seen'[s] = seen[s]
         /\ approved'[s] = approved[s] /\ alternates'[s] = alternates[s]
         /\ book'[s] = book[s]
<1> USE DEF RouterTypeOK, TransferTypeOK, transferVars, budgetVars, routerVars, Goto
<1>1. CASE Submit(r)
  BY <1>1 DEF Submit
<1>2. CASE RailConfirms(r) \/ RailRefuses(r) \/ RailStillSettling(r)
  BY <1>2 DEF RailConfirms, RailRefuses, RailStillSettling, OtherStatus, Transition
<1>3. CASE AdapterRaises(r)
  BY <1>3 DEF AdapterRaises
<1>4. CASE CheckRetryBudget(r)
  BY <1>4 DEF CheckRetryBudget, ReadRetries
<1>5. CASE RetryOnAlternate(r)
  BY <1>5 DEF RetryOnAlternate, RetrySettlement
<1>6. CASE RailDecides(r)
  BY <1>6 DEF RailDecides
<1> QED
  BY <1>1, <1>2, <1>3, <1>4, <1>5, <1>6 DEF RouterStep

\* A step moves the thread to a label of the router.
LEMMA RouterStepPc ==
  ASSUME NEW r \in Requests, NEW S, pc \in [Requests -> S], RouterPcs \subseteq S,
         RouterStep(r) \/ RailDecides(r)
  PROVE  pc' \in [Requests -> S]
<1> USE DEF RouterPcs, Goto
<1>1. CASE Submit(r) \/ AdapterRaises(r) \/ RetryOnAlternate(r)
  BY <1>1 DEF Submit, AdapterRaises, RetryOnAlternate
<1>2. CASE RailConfirms(r) \/ RailRefuses(r) \/ RailStillSettling(r)
  BY <1>2 DEF RailConfirms, RailRefuses, RailStillSettling, OtherStatus
<1>3. CASE CheckRetryBudget(r)
  BY <1>3 DEF CheckRetryBudget
<1>4. CASE RailDecides(r)
  BY <1>4 DEF RailDecides
<1> QED
  BY <1>1, <1>2, <1>3, <1>4 DEF RouterStep

-----------------------------------------------------------------------------
(* The component on its own.                                               *)

LEMMA RouterInitInv ==
  ASSUME RouterInit
  PROVE  RouterInv
<1>1. RouterTypeInvariant
  BY DEF RouterInit, RouterStart, RouterTypeInvariant, RouterTypeOK, TransferTypeOK,
         RouterPcs, TransferStates, RailPositions, MaxSettlementRetries
<1>2. ASSUME NEW r \in Requests PROVE RoutingInv(r)
  BY DEF RouterInit, RouterStart, RoutingInv, Submitted, Chosen
<1> QED BY <1>1, <1>2 DEF RouterInv

LEMMA RouteInv ==
  ASSUME NEW r \in Requests, RouterInv, Route(r)
  PROVE  RouterInv'
<1> USE DEF Route, StartRouting, RouterInv, RouterTypeInvariant, RouterTypeOK,
            TransferTypeOK, transferVars, budgetVars, Goto
<1>1. RouterTypeInvariant'
  BY DEF RouterPcs, RoutingInv
<1>2. RoutingInv(r)'
  BY DEF RoutingInv, Submitted, Chosen
<1>3. ASSUME NEW s \in Requests, s # r PROVE RoutingInv(s)'
  BY <1>3, RoutingFrame
<1> QED BY <1>1, <1>2, <1>3

LEMMA RouterInvInductive ==
  ASSUME RouterInv, [RouterNext]_routerSpecVars
  PROVE  RouterInv'
<1> USE DEF RouterInv
<1>1. ASSUME NEW r \in Requests, Route(r) PROVE RouterInv'
  BY <1>1, RouteInv
<1>2. ASSUME NEW r \in Requests, RouterStep(r) \/ RailDecides(r) PROVE RouterInv'
  <2>1. RouterTypeOK'
    BY <1>2, RouterStepTypes DEF RouterTypeInvariant, RoutingInv
  <2>2. pc' \in [Requests -> RouterPcs]
    BY <1>2, RouterStepPc DEF RouterTypeInvariant
  <2>3. RoutingInv(r)'
    BY <1>2, RouterStepRouting DEF RouterTypeInvariant
  <2>4. ASSUME NEW s \in Requests, s # r PROVE RoutingInv(s)'
    BY <1>2, <2>4, RouterStepOthers, RoutingFrame DEF RouterTypeInvariant
  <2> QED BY <2>1, <2>2, <2>3, <2>4 DEF RouterTypeInvariant
<1>3. CASE UNCHANGED routerSpecVars
  <2> USE <1>3 DEF routerSpecVars, transferVars, budgetVars, routerVars
  <2>1. RouterTypeInvariant'
    BY DEF RouterTypeInvariant, RouterTypeOK, TransferTypeOK
  <2>2. ASSUME NEW s \in Requests PROVE RoutingInv(s)'
    BY RoutingFrame
  <2> QED BY <2>1, <2>2
<1> QED BY <1>1, <1>2, <1>3 DEF RouterNext

\* The invariant holds on every interleaving of any requests.
THEOREM RouterInvAlways == RouterSpec => []RouterInv
  BY RouterInitInv, RouterInvInductive, PTL DEF RouterSpec

-----------------------------------------------------------------------------
(* What the invariant is for.                                              *)

\* Every variable of the router keeps its type, the retry counts their bound,
\* whoever else reads and writes them in between.
THEOREM RouterTypesHold == RouterSpec => []RouterTypeInvariant
<1>1. RouterInv => RouterTypeInvariant
  BY DEF RouterInv
<1> QED BY <1>1, RouterInvAlways, PTL

\* No rail is ever sent the same payment twice by the router.
THEOREM NoSecondSubmission == RouterSpec => []NeverSubmittedTwice
<1>1. RouterInv => NeverSubmittedTwice
  BY DEF RouterInv, RoutingInv, NeverSubmittedTwice
<1> QED BY <1>1, RouterInvAlways, PTL

\* A request that is given up has no candidate left, or read a spent budget.
LEMMA GivenUpForGood ==
  ASSUME NEW r \in Requests, RoutingInv(r), pc[r] = "exhausted"
  PROVE  /\ state[r] = "FAILED"
         /\ Candidates(r) \subseteq Submitted(r) \/ seen[r] = MaxSettlementRetries
<1>1. Chosen(r) \subseteq Submitted(r) /\ state[r] = "FAILED"
  BY DEF RoutingInv
<1>2. CASE Untried(r) = {}
  BY <1>1, <1>2 DEF Untried, Chosen
<1>3. CASE seen[r] = MaxSettlementRetries
  BY <1>1, <1>3
<1> QED BY <1>2, <1>3 DEF RoutingInv

-----------------------------------------------------------------------------
(* The order of the attempts.                                              *)

\* Rail x was rightly tried before those that are left.
BeforeTheRest(r, x) ==
  /\ x \in adapters
  /\ x = "PAPSS" => papss[r] \/ approved[r] = "PAPSS"
  /\ \A y \in Untried(r) : Priority[x] < Priority[y]

\* The rail the transfer names is the last the router turned to.
NamesTheLast(r) ==
  /\ alternates[r] = {} => rail[r] = approved[r]
  /\ \A x \in alternates[r] : rail[r] \in alternates[r] /\ Priority[x] <= Priority[rail[r]]

\* Every alternate was rightly tried, and nothing is submitted before the approved rail.
OrderInv(r) ==
  /\ \A x \in alternates[r] : BeforeTheRest(r, x)
  /\ pc[r] \in {"submit", "await_rail", "retry", "count_retry"} => approved[r] \in adapters
  /\ Submitted(r) # {} => approved[r] \in adapters /\ approved[r] \in Submitted(r)
  /\ pc[r] \in {"submit", "await_rail"} => NamesTheLast(r)
  /\ state[r] = "DELIVERED" => NamesTheLast(r) /\ Chosen(r) \subseteq Submitted(r)

\* The alternate that is chosen comes before all the others.
LEMMA NextRailIsFirst ==
  ASSUME NEW r \in Requests, RouterTypeOK, Untried(r) # {}, RetryOnAlternate(r),
         NEW next \in Rails, next = NextRail(r)
  PROVE  /\ alternates'[r] = alternates[r] \cup {next}
         /\ Untried(r)' = Untried(r) \ {next}
         /\ BeforeTheRest(r, next)'
<1>1. next \in Untried(r)
  BY NextRailIsUntried
<1>2. \A y \in Untried(r) : y \in Rails
  BY DEF Untried, Candidates, RouterTypeOK
<1>3. \A y \in Untried(r) : Priority[next] <= Priority[y]
  <2>1. \E x \in Untried(r) : \A y \in Untried(r) : Priority[x] <= Priority[y]
    <3>1. /\ Priority["RIPPLE"] = 1 /\ Priority["PAPSS"] = 2 /\ Priority["SWIFT"] = 3
      BY DEF Priority
    <3>2. CASE "RIPPLE" \in Untried(r)
      BY <1>2, <3>1, <3>2 DEF Rails
    <3>3. CASE "RIPPLE" \notin Untried(r) /\ "PAPSS" \in Untried(r)
      BY <1>2, <3>1, <3>3 DEF Rails
    <3>4. CASE "RIPPLE" \notin Untried(r) /\ "PAPSS" \notin Untried(r)
      BY <1>2, <3>1, <3>4 DEF Rails
    <3> QED BY <3>2, <3>3, <3>4
  <2> QED BY <2>1 DEF NextRail
<1>4. \A y \in Untried(r) \ {next} : Priority[next] < Priority[y]
  <2>1. \A y, z \in Rails : y # z => Priority[y] # Priority[z]
    BY DEF Rails, Priority
  <2>2. \A y \in Rails : Priority[y] \in Int
    BY DEF Rails, Priority
  <2> QED BY <1>1, <1>2, <1>3, <2>1, <2>2
<1>5. /\ alternates'[r] = alternates[r] \cup {next}
      /\ adapters' = adapters /\ papss' = papss /\ approved' = approved
  BY DEF RetryOnAlternate, RouterTypeOK
<1>6. Untried(r)' = Untried(r) \ {next}
  BY <1>5 DEF Untried, Candidates
<1>7. next \in adapters /\ (next = "PAPSS" => papss[r] \/ approved[r] = "PAPSS")
  BY <1>1 DEF Untried, Candidates
<1>8. BeforeTheRest(r, next)'
  BY <1>4, <1>5, <1>6, <1>7 DEF BeforeTheRest
<1> QED BY <1>5, <1>6, <1>8

\* Whoever leaves the router's variables for the request alone, and takes it no
\* further than out of the router, leaves the order alone.
LEMMA OrderFrame ==
  ASSUME NEW s \in Requests, OrderInv(s),
         adapters' = adapters, papss'[s] = papss[s],
         pc'[s] = pc[s] \/ pc'[s] \notin {"submit", "await_rail", "retry", "count_retry"},
         state'[s] = state[s], rail'[s] = rail[s],
         approved'[s] = approved[s], alternates'[s] = alternates[s], book'[s] = book[s]
  PROVE  OrderInv(s)'
<1>1. Submitted(s)' = Submitted(s) /\ Untried(s)' = Untried(s) /\ Chosen(s)' = Chosen(s)
  BY DEF Submitted, Untried, Candidates, Chosen
<1>2. NamesTheLast(s)' <=> NamesTheLast(s)
  BY DEF NamesTheLast, Priority
<1> QED BY <1>1, <1>2 DEF OrderInv, BeforeTheRest, Priority

LEMMA OrderStep ==
  ASSUME NEW r \in Requests, RouterTypeOK, NEW S, pc \in [Requests -> S],
         RoutingInv(r), OrderInv(r), RouterStep(r) \/ RailDecides(r)
  PROVE  OrderInv(r)'
<1> USE DEF RouterTypeOK, TransferTypeOK, transferVars, budgetVars, routerVars, Goto
<1> DEFINE Kept == /\ UNCHANGED <<adapters, papss, approved, alternates, rail>>
                   /\ Submitted(r)' = Submitted(r) /\ Untried(r)' = Untried(r)
                   /\ Chosen(r)' = Chosen(r)
<1>0. /\ RouterTypeOK /\ alternates[r] \subseteq Rails
      /\ \A x \in Rails : Priority[x] \in Int
  BY DEF Rails, Priority
<1>1. CASE Submit(r)
  <2>1. /\ pc[r] = "submit" /\ rail[r] \in Rails /\ rail[r] \in Chosen(r)
        /\ Chosen(r) \ {rail[r]} \subseteq Submitted(r) /\ state[r] = "SETTLING"
    BY <1>1 DEF Submit, RoutingInv
  <2>2. /\ Submitted(r)' = Submitted(r) \cup {rail[r]} /\ Untried(r)' = Untried(r)
        /\ UNCHANGED <<adapters, papss, approved, alternates, rail, state>>
        /\ pc'[r] = "await_rail"
    BY <1>1, <2>1 DEF Submit, Submitted, Untried, Candidates
  <2>3. approved[r] \in adapters /\ approved[r] \in Submitted(r) \cup {rail[r]}
    BY <2>1 DEF OrderInv, Chosen
  <2> HIDE DEF RouterTypeOK
  <2> QED BY <2>1, <2>2, <2>3 DEF OrderInv, BeforeTheRest, NamesTheLast
<1>2. CASE RailConfirms(r)
  <2>1. Kept /\ pc[r] = "await_rail" /\ pc'[r] = "settled" /\ Chosen(r) \subseteq Submitted(r)
    BY <1>2 DEF RailConfirms, RoutingInv, Submitted, Untried, Candidates, Chosen
  <2> HIDE DEF RouterTypeOK
  <2> QED BY <2>1 DEF OrderInv, BeforeTheRest, NamesTheLast
<1>3. CASE RailRefuses(r) \/ RailStillSettling(r)
  <2>1. Kept /\ pc[r] = "await_rail" /\ pc'[r] \in {"exhausted", "retry"} /\ state'[r] = "FAILED"
    BY <1>3 DEF RailRefuses, RailStillSettling, OtherStatus, Transition, Submitted, Untried,
                Candidates, Chosen
  <2> HIDE DEF RouterTypeOK
  <2> QED BY <2>1 DEF OrderInv, BeforeTheRest
<1>4. CASE AdapterRaises(r) \/ CheckRetryBudget(r)
  <2>1. /\ Kept /\ state' = state /\ pc'[r] \in {"raised", "count_retry", "exhausted"}
        /\ pc[r] \in {"await_rail", "retry"}
    BY <1>4 DEF AdapterRaises, CheckRetryBudget, Submitted, Untried, Candidates, Chosen
  <2> HIDE DEF RouterTypeOK
  <2> QED BY <2>1 DEF OrderInv, BeforeTheRest, NamesTheLast
<1>6. CASE RetryOnAlternate(r)
  <2>1. Untried(r) # {} /\ pc[r] = "count_retry" /\ Chosen(r) \subseteq Submitted(r)
    BY <1>6 DEF RetryOnAlternate, RoutingInv
  <2>2. PICK next \in Rails : next = NextRail(r) /\ next \in Untried(r)
    BY <2>1, NextRailIsUntried
  <2>3. /\ alternates'[r] = alternates[r] \cup {next}
        /\ Untried(r)' = Untried(r) \ {next}
        /\ BeforeTheRest(r, next)'
    BY <1>6, <2>1, <2>2, NextRailIsFirst
  <2>4. /\ UNCHANGED <<adapters, papss, approved, book>> /\ Submitted(r)' = Submitted(r)
        /\ pc'[r] = "submit" /\ state'[r] = "SETTLING" /\ rail'[r] = next
    BY <1>6, <2>2 DEF RetryOnAlternate, RetrySettlement, Submitted
  <2>5. \A x \in alternates[r] : BeforeTheRest(r, x)'
    BY <2>3, <2>4 DEF OrderInv, BeforeTheRest
  <2>6. NamesTheLast(r)'
    <3>1. \A x \in alternates[r] : Priority[x] < Priority[next]
      BY <2>2 DEF OrderInv, BeforeTheRest
    <3> HIDE DEF RouterTypeOK
    <3> QED BY <1>0, <2>3, <2>4, <3>1 DEF NamesTheLast
  <2> HIDE DEF RouterTypeOK
  <2> QED BY <2>1, <2>3, <2>4, <2>5, <2>6 DEF OrderInv
<1>7. CASE RailDecides(r)
  <2>1. Kept /\ UNCHANGED <<pc, state>>
    BY <1>7 DEF RailDecides, Submitted, Untried, Candidates, Chosen
  <2> HIDE DEF RouterTypeOK
  <2> QED BY <2>1 DEF OrderInv, BeforeTheRest, NamesTheLast
<1> QED BY <1>1, <1>2, <1>3, <1>4, <1>6, <1>7 DEF RouterStep

-----------------------------------------------------------------------------
(* The count of the retries.                                               *)

\* No count is ahead of the retries made under its id, nor is one that a thread
\* has read and not yet written back.
RetryCountInv ==
  /\ \A i \in Ids : /\ IsFiniteSet(RetriesUnder(i))
                     /\ retryCount[i] <= Cardinality(RetriesUnder(i))
  /\ \A r \in Requests : seen[r] <= Cardinality(RetriesUnder(IdOf[r]))

\* ... and where a single request has retried, neither is behind.
SoleRetrier(i, r) == RetriesUnder(i) \subseteq {r} \X Rails

NoneIsLost(i) ==
  /\ RetriesUnder(i) # {} => retryCount[i] >= 1
  /\ \A r \in Requests : SoleRetrier(i, r) =>
       /\ retryCount[i] = Cardinality(RetriesUnder(i))
       /\ IdOf[r] = i /\ pc[r] = "count_retry" => seen[r] = retryCount[i]

LEMMA SameRetries ==
  ASSUME UNCHANGED alternates
  PROVE  \A i \in Ids : RetriesUnder(i)' = RetriesUnder(i)
BY DEF RetriesUnder

LEMMA CountTypes ==
  ASSUME RouterTypeOK
  PROVE  /\ IdOf \in [Requests -> Ids] /\ \A r \in Requests : IdOf[r] \in Ids
         /\ retryCount \in [Ids -> Nat] /\ \A i \in Ids : retryCount[i] \in Nat
         /\ seen \in [Requests -> Nat] /\ \A r \in Requests : seen[r] \in Nat
<1>1. 0 .. MaxSettlementRetries \subseteq Nat
  BY DEF MaxSettlementRetries
<1>2. retryCount \in [Ids -> Nat] /\ seen \in [Requests -> Nat]
  BY <1>1 DEF RouterTypeOK, TransferTypeOK
<1>3. IdOf \in [Requests -> Ids]
  BY OrchestratorAssumption DEF OrchestratorAssumption
<1> QED BY <1>2, <1>3

\* A retry adds itself to those made under the request's id, and to no others.
LEMMA RetryAddsItself ==
  ASSUME NEW r \in Requests, RouterTypeOK, RoutingInv(r), RetryOnAlternate(r),
         NEW next, next = NextRail(r)
  PROVE  /\ RetriesUnder(IdOf[r])' = RetriesUnder(IdOf[r]) \cup {<<r, next>>}
         /\ <<r, next>> \notin RetriesUnder(IdOf[r])
         /\ \A i \in Ids : i # IdOf[r] => RetriesUnder(i)' = RetriesUnder(i)
<1>1. NextRail(r) \in Untried(r) /\ NextRail(r) \in Rails
  BY NextRailIsUntried DEF RetryOnAlternate, RoutingInv
<1>2. next \in Rails /\ next \notin alternates[r]
  BY <1>1 DEF Untried
<1>3. alternates' = [alternates EXCEPT ![r] = @ \cup {next}] /\ alternates \in [Requests -> SUBSET Rails]
  BY DEF RetryOnAlternate, RouterTypeOK
<1>4. \A s \in Requests, x \in Rails :
        x \in alternates'[s] <=> x \in alternates[s] \/ (s = r /\ x = next)
  BY <1>3
<1>5. \A i : RetriesUnder(i)' = {retry \in Requests \X Rails : IdOf[retry[1]] = i /\
                                   (retry[2] \in alternates[retry[1]] \/ retry = <<r, next>>)}
  BY <1>2, <1>4 DEF RetriesUnder
<1> QED BY <1>2, <1>5 DEF RetriesUnder

\* What a retry does to the counts.
LEMMA RetryCounts ==
  ASSUME NEW r \in Requests, RouterTypeOK, RoutingInv(r), RetryOnAlternate(r), RetryCountInv
  PROVE  /\ retryCount' = [retryCount EXCEPT ![IdOf[r]] = seen[r] + 1] /\ seen' = seen
         /\ IsFiniteSet(RetriesUnder(IdOf[r])')
         /\ Cardinality(RetriesUnder(IdOf[r])) \in Nat
         /\ Cardinality(RetriesUnder(IdOf[r])') = Cardinality(RetriesUnder(IdOf[r])) + 1
<1>1. PICK next : next = NextRail(r)
  OBVIOUS
<1>2. IdOf[r] \in Ids
  BY OrchestratorAssumption DEF OrchestratorAssumption
<1>3. IsFiniteSet(RetriesUnder(IdOf[r]))
  BY <1>2 DEF RetryCountInv
<1>4. PICK n \in Nat : Cardinality(RetriesUnder(IdOf[r])) = n
  BY <1>3, FS_CardinalityType
<1>5. /\ RetriesUnder(IdOf[r])' = RetriesUnder(IdOf[r]) \cup {<<r, next>>}
      /\ <<r, next>> \notin RetriesUnder(IdOf[r])
  BY <1>1, RetryAddsItself
<1>6. /\ IsFiniteSet(RetriesUnder(IdOf[r]) \cup {<<r, next>>})
      /\ Cardinality(RetriesUnder(IdOf[r]) \cup {<<r, next>>}) = n + 1
  BY <1>3, <1>4, <1>5, CardinalityWith, Zenon
<1>7. retryCount' = [retryCount EXCEPT ![IdOf[r]] = seen[r] + 1] /\ seen' = seen
  BY DEF RetryOnAlternate, RetrySettlement
<1> QED BY <1>4, <1>5, <1>6, <1>7

\* Whoever makes no retry, and raises no count, keeps the counts within the retries.
LEMMA RetryCountFrame ==
  ASSUME RetryCountInv, UNCHANGED alternates, \A i \in Ids : retryCount[i] \in Nat,
         \A i \in Ids : retryCount'[i] \in {0, retryCount[i]},
         \A r \in Requests : seen'[r] \in {seen[r], retryCount[IdOf[r]]}
  PROVE  RetryCountInv'
<1>1. \A i \in Ids : /\ RetriesUnder(i)' = RetriesUnder(i) /\ IsFiniteSet(RetriesUnder(i))
                     /\ Cardinality(RetriesUnder(i)) \in Nat
  BY SameRetries, FS_CardinalityType DEF RetryCountInv
<1>2. \A r \in Requests : IdOf[r] \in Ids
  BY OrchestratorAssumption DEF OrchestratorAssumption
<1> QED BY <1>1, <1>2 DEF RetryCountInv

LEMMA RetryCountStep ==
  ASSUME NEW r \in Requests, RouterTypeOK, RoutingInv(r), RetryCountInv,
         RouterStep(r) \/ RailDecides(r)
  PROVE  RetryCountInv'
<1> USE DEF transferVars, budgetVars, routerVars
<1>1. IdOf \in [Requests -> Ids] /\ \A i \in Ids : retryCount[i] \in Nat
  BY CountTypes
<1>2. CASE RetryOnAlternate(r)
  <2>1. PICK n \in Nat : n = Cardinality(RetriesUnder(IdOf[r]))
    BY <1>2, RetryCounts
  <2>2. /\ retryCount' = [retryCount EXCEPT ![IdOf[r]] = seen[r] + 1] /\ seen' = seen
        /\ IsFiniteSet(RetriesUnder(IdOf[r])')
        /\ Cardinality(RetriesUnder(IdOf[r])') = n + 1
    BY <1>2, <2>1, RetryCounts
  <2>3. \A i \in Ids : i # IdOf[r] => RetriesUnder(i)' = RetriesUnder(i)
    BY <1>2, RetryAddsItself
  <2>4. (\A s \in Requests : seen[s] \in Nat) /\ retryCount \in [Ids -> Nat]
    BY CountTypes
  <2> QED BY <1>1, <2>1, <2>2, <2>3, <2>4 DEF RetryCountInv
<1>3. CASE CheckRetryBudget(r)
  <2>1. /\ UNCHANGED alternates /\ retryCount' = retryCount
        /\ \A s \in Requests : seen'[s] \in {seen[s], retryCount[IdOf[s]]}
    BY <1>3 DEF CheckRetryBudget, ReadRetries, RouterTypeOK, TransferTypeOK
  <2> QED BY <1>1, <2>1, RetryCountFrame
<1>4. CASE ~RetryOnAlternate(r) /\ ~CheckRetryBudget(r)
  <2>1. UNCHANGED <<alternates, retryCount, seen>>
    BY <1>4 DEF RouterStep, Submit, RailConfirms, RailRefuses, RailStillSettling, OtherStatus,
                AdapterRaises, RailDecides
  <2> QED BY <1>1, <2>1, RetryCountFrame
<1> QED BY <1>2, <1>3, <1>4

\* An increment is lost only to another request's retry.
LEMMA NoneIsLostStep ==
  ASSUME NEW r \in Requests, RouterTypeOK, NEW S, pc \in [Requests -> S],
         RoutingInv(r), RetryCountInv, NEW i \in Ids, NoneIsLost(i),
         RouterStep(r) \/ RailDecides(r)
  PROVE  NoneIsLost(i)'
<1> USE DEF transferVars, budgetVars, routerVars, Goto
<1>1. IdOf \in [Requests -> Ids] /\ retryCount \in [Ids -> Nat] /\ seen \in [Requests -> Nat]
  BY CountTypes
<1>2. CASE RetryOnAlternate(r) /\ i = IdOf[r]
  <2>1. PICK n \in Nat : n = Cardinality(RetriesUnder(i))
    BY <1>2, RetryCounts
  <2>2. PICK next : next = NextRail(r)
    OBVIOUS
  <2>3. /\ RetriesUnder(i)' = RetriesUnder(i) \cup {<<r, next>>}
        /\ Cardinality(RetriesUnder(i)') = n + 1
        /\ retryCount'[i] = seen[r] + 1
    BY <1>1, <1>2, <2>1, <2>2, RetryCounts, RetryAddsItself
  <2>4. /\ pc[r] = "count_retry" /\ pc'[r] = "submit" /\ pc' \in [Requests -> S \cup {"submit"}]
    BY <1>2 DEF RetryOnAlternate
  <2>5. ASSUME NEW s \in Requests, SoleRetrier(i, s)'
        PROVE  s = r /\ SoleRetrier(i, r)
    <3>1. RetriesUnder(i)' \subseteq {s} \X Rails
      BY <2>5 DEF SoleRetrier
    <3>2. <<r, next>> \in {s} \X Rails /\ RetriesUnder(i) \subseteq {s} \X Rails
      BY <2>3, <3>1
    <3> QED BY <3>2 DEF SoleRetrier
  <2>6. SoleRetrier(i, r) => seen[r] = n
    BY <1>2, <2>1, <2>4 DEF NoneIsLost
  <2> QED BY <1>1, <2>3, <2>4, <2>5, <2>6 DEF NoneIsLost
<1>3. CASE ~(RetryOnAlternate(r) /\ i = IdOf[r])
  <2>1. RetriesUnder(i)' = RetriesUnder(i) /\ retryCount'[i] = retryCount[i]
    <3>1. CASE RetryOnAlternate(r)
      BY <1>1, <1>3, <3>1, RetryAddsItself, RetryCounts
    <3>2. CASE ~RetryOnAlternate(r)
      <4>1. UNCHANGED <<alternates, retryCount>>
        BY <3>2 DEF RouterStep, Submit, RailConfirms, RailRefuses, RailStillSettling, OtherStatus,
                    AdapterRaises, CheckRetryBudget, RailDecides
      <4> QED BY <4>1, SameRetries
    <3> QED BY <3>1, <3>2
  <2>2. ASSUME NEW s \in Requests, IdOf[s] = i, pc'[s] = "count_retry", SoleRetrier(i, s)
        PROVE  seen'[s] = retryCount[i]
    <3>1. CASE s # r
      BY <2>2, <3>1, RouterStepOthers DEF NoneIsLost
    <3>2. CASE s = r
      <4>1. CheckRetryBudget(r) \/ RailDecides(r)
        BY <2>2, <3>2 DEF RouterStep, Submit, RailConfirms, RailRefuses, RailStillSettling,
                          OtherStatus, AdapterRaises, RetryOnAlternate
      <4>2. CASE CheckRetryBudget(r)
        BY <1>1, <2>2, <3>2, <4>2 DEF CheckRetryBudget, ReadRetries
      <4>3. CASE RailDecides(r)
        BY <2>2, <3>2, <4>3 DEF RailDecides, NoneIsLost
      <4> QED BY <4>1, <4>2, <4>3
    <3> QED BY <3>1, <3>2
  <2> QED BY <2>1, <2>2 DEF NoneIsLost, SoleRetrier
<1> QED BY <1>2, <1>3

-----------------------------------------------------------------------------
(* Order and count on every interleaving.                                  *)

\* RouterInv, with the order of the attempts and the count of the retries.
AttemptsInv ==
  /\ RouterInv
  /\ \A r \in Requests : OrderInv(r)
  /\ RetryCountInv
  /\ \A i \in Ids : NoneIsLost(i)

LEMMA AttemptsInit ==
  ASSUME RouterInit
  PROVE  AttemptsInv
<1>1. RouterInv
  BY RouterInitInv
<1>2. ASSUME NEW r \in Requests
      PROVE  /\ alternates[r] = {} /\ Submitted(r) = {} /\ pc[r] = "route" /\ seen[r] = 0
             /\ state[r] = "SETTLING"
  BY DEF RouterInit, RouterStart, Submitted
<1>3. ASSUME NEW r \in Requests PROVE OrderInv(r)
  BY <1>2 DEF OrderInv
<1>4. ASSUME NEW i \in Ids
      PROVE  /\ RetriesUnder(i) = {} /\ IsFiniteSet(RetriesUnder(i))
             /\ Cardinality(RetriesUnder(i)) = 0 /\ retryCount[i] = 0
  <2>1. RetriesUnder(i) = {} /\ retryCount[i] = 0
    BY <1>2 DEF RetriesUnder, RouterInit
  <2> QED BY <2>1, FS_EmptySet
<1>5. RetryCountInv /\ \A i \in Ids : NoneIsLost(i)
  BY <1>2, <1>4, OrchestratorAssumption DEF RetryCountInv, NoneIsLost, OrchestratorAssumption
<1> QED BY <1>1, <1>3, <1>5 DEF AttemptsInv

LEMMA AttemptsInductive ==
  ASSUME AttemptsInv, [RouterNext]_routerSpecVars
  PROVE  AttemptsInv'
<1>1. /\ RouterInv /\ RouterTypeOK /\ pc \in [Requests -> RouterPcs] /\ RetryCountInv
      /\ \A i \in Ids : retryCount[i] \in Nat
  BY CountTypes DEF AttemptsInv, RouterInv, RouterTypeInvariant
<1>2. RouterInv'
  BY <1>1, RouterInvInductive
<1>3. ASSUME NEW r \in Requests, Route(r), NEW s \in Requests
      PROVE  OrderInv(s)'
  <2>1. UNCHANGED <<transferVars, adapters, papss, alternates, book>>
        /\ ((pc'[r] = "submit" /\ approved'[r] \in adapters /\ approved'[r] = rail[r])
            \/ pc'[r] = "raised")
    BY <1>1, <1>3 DEF Route, StartRouting, Goto, RouterTypeOK
  <2>2. CASE s = r
    <3>1. alternates[r] = {} /\ Submitted(r) = {} /\ state[r] = "SETTLING"
      BY <1>1, <1>3 DEF RouterInv, RoutingInv, Route
    <3>2. /\ alternates'[r] = {} /\ Submitted(r)' = {} /\ state'[r] = "SETTLING"
          /\ rail'[r] = rail[r]
      BY <2>1, <3>1 DEF Submitted, transferVars
    <3> QED BY <2>1, <2>2, <3>2 DEF OrderInv, NamesTheLast
  <2>3. CASE s # r
    <3>1. pc'[s] = pc[s] /\ approved'[s] = approved[s]
      BY <1>1, <1>3, <2>3 DEF Route, StartRouting, Goto, RouterTypeOK
    <3> QED BY <2>1, <3>1, OrderFrame DEF AttemptsInv, transferVars
  <2> QED BY <2>2, <2>3
<1>4. ASSUME NEW r \in Requests, RouterStep(r) \/ RailDecides(r), NEW s \in Requests
      PROVE  OrderInv(s)'
  <2>1. CASE s = r
    BY <1>1, <1>4, <2>1, OrderStep DEF AttemptsInv, RouterInv
  <2>2. CASE s # r
    BY <1>1, <1>4, <2>2, RouterStepOthers, OrderFrame DEF AttemptsInv
  <2> QED BY <2>1, <2>2
<1>5. ASSUME UNCHANGED routerSpecVars, NEW s \in Requests
      PROVE  OrderInv(s)'
  BY <1>5, OrderFrame DEF AttemptsInv, routerSpecVars, transferVars, routerVars
<1>6. \A s \in Requests : OrderInv(s)'
  BY <1>3, <1>4, <1>5 DEF RouterNext
<1>7. ASSUME NEW r \in Requests, RouterStep(r) \/ RailDecides(r)
      PROVE  RetryCountInv' /\ \A i \in Ids : NoneIsLost(i)'
  BY <1>1, <1>7, RetryCountStep, NoneIsLostStep DEF AttemptsInv, RouterInv
<1>8. ASSUME NEW r \in Requests, Route(r)
      PROVE  RetryCountInv' /\ \A i \in Ids : NoneIsLost(i)'
  <2>1. UNCHANGED <<retryCount, seen, alternates>>
    BY <1>8 DEF Route, StartRouting, transferVars, budgetVars
  <2>2. \A s \in Requests : pc'[s] = "count_retry" => pc[s] = "count_retry"
    BY <1>1, <1>8 DEF Route, StartRouting, Goto
  <2> QED BY <1>1, <2>1, <2>2, RetryCountFrame, SameRetries DEF AttemptsInv, NoneIsLost, SoleRetrier
<1>9. ASSUME UNCHANGED routerSpecVars
      PROVE  RetryCountInv' /\ \A i \in Ids : NoneIsLost(i)'
  BY <1>1, <1>9, RetryCountFrame, SameRetries
    DEF AttemptsInv, NoneIsLost, SoleRetrier, routerSpecVars, transferVars, budgetVars, routerVars
<1> QED BY <1>2, <1>6, <1>7, <1>8, <1>9 DEF AttemptsInv, RouterNext

\* ... and so do the order of the attempts and the count of the retries.
THEOREM AttemptsInvAlways == RouterSpec => []AttemptsInv
  BY AttemptsInit, AttemptsInductive, PTL DEF RouterSpec

\* Every rail that was told of the payment came before the rails that are left.
LEMMA SubmittedInOrder ==
  ASSUME NEW r \in Requests, RoutingInv(r), OrderInv(r), NEW x \in Submitted(r)
  PROVE  /\ x \in adapters
         /\ book[r][approved[r]] # "none"
         /\ x = "PAPSS" => papss[r] \/ approved[r] = "PAPSS"
         /\ x # approved[r] => \A y \in Untried(r) : Priority[x] < Priority[y]
<1>1. Submitted(r) \subseteq Chosen(r)
  BY DEF RoutingInv
<1>2. approved[r] \in adapters /\ approved[r] \in Submitted(r)
  BY DEF OrderInv
<1>3. CASE x = approved[r]
  BY <1>2, <1>3 DEF Submitted
<1>4. CASE x \in alternates[r]
  BY <1>2, <1>4 DEF OrderInv, BeforeTheRest, Submitted
<1> QED BY <1>1, <1>3, <1>4 DEF Chosen

\* The approved rail is tried first, and every alternate before those of lower priority.
THEOREM OrderIsKept == RouterSpec => []AttemptsInOrder
<1>1. AttemptsInv => AttemptsInOrder
  BY SubmittedInOrder DEF AttemptsInv, RouterInv, AttemptsInOrder
<1> QED BY <1>1, AttemptsInvAlways, PTL

\* What the transfer's rail says of a delivery.
LEMMA DeliveredNamesTheLast ==
  ASSUME NEW r \in Requests, RoutingInv(r), OrderInv(r), state[r] = "DELIVERED"
  PROVE  /\ book[r][rail[r]] = "paid"
         /\ alternates[r] = {} => rail[r] = approved[r]
         /\ \A x \in alternates[r] : rail[r] \in alternates[r] /\ Priority[x] <= Priority[rail[r]]
         /\ Submitted(r) = {approved[r]} \cup alternates[r]
<1>1. book[r][rail[r]] = "paid" /\ Submitted(r) \subseteq Chosen(r)
  BY DEF RoutingInv
<1>2. NamesTheLast(r) /\ Chosen(r) \subseteq Submitted(r)
  BY DEF OrderInv
<1> QED BY <1>1, <1>2 DEF NamesTheLast, Chosen

\* Whatever was tried before, a delivered transfer names the rail that delivered it,
\* the last one that was told.
THEOREM DeliveryIsByTheLastTold == RouterSpec => []DeliveredByTheLastTold
<1>1. AttemptsInv => DeliveredByTheLastTold
  BY DeliveredNamesTheLast DEF AttemptsInv, RouterInv, DeliveredByTheLastTold
<1> QED BY <1>1, AttemptsInvAlways, PTL

\* A request that read a spent budget finds that many retries made under its id.
LEMMA SpentIsSpent ==
  ASSUME NEW r \in Requests, RoutingInv(r), RetryCountInv, pc[r] = "exhausted"
  PROVE  /\ state[r] = "FAILED"
         /\ \/ Candidates(r) \subseteq Submitted(r)
            \/ MaxSettlementRetries <= Cardinality(RetriesUnder(IdOf[r]))
BY GivenUpForGood DEF RetryCountInv

\* The router gives a transfer up only with no candidate left, or with the whole budget
\* really spent, on any interleaving of threads that share a count.
THEOREM ExhaustionIsReal == RouterSpec => []ExhaustedMeansExhausted
<1>1. AttemptsInv => ExhaustedMeansExhausted
  BY SpentIsSpent DEF AttemptsInv, RouterInv, ExhaustedMeansExhausted
<1> QED BY <1>1, AttemptsInvAlways, PTL

\* Every retry is counted but one that another request's retry overwrites, and none is
\* counted that was not made.
THEOREM RetriesAreAlwaysCounted == RouterSpec => []RetriesAreCounted
<1>1. AttemptsInv => RetriesAreCounted
  BY DEF AttemptsInv, RetryCountInv, NoneIsLost, SoleRetrier, RetriesAreCounted
<1> QED BY <1>1, AttemptsInvAlways, PTL

-----------------------------------------------------------------------------
(* The retry loop comes to its end.                                        *)

\* How far into an attempt a thread is, and how many steps it still has at the most:
\* what is left of this attempt, and five for each retry that the budget still allows.
RoutePhase == [route |-> 6, submit |-> 5, await_rail |-> 4, retry |-> 3, count_retry |-> 2,
               settled |-> 1, exhausted |-> 1]
RetriesLeft(r) == MaxSettlementRetries - Cardinality(alternates[r])
RouteLeft(r) ==
  IF pc[r] \in DOMAIN RoutePhase THEN 5 * RetriesLeft(r) + RoutePhase[pc[r]] ELSE 0

LEMMA RoutePhaseValues ==
  /\ DOMAIN RoutePhase =
       {"route", "submit", "await_rail", "retry", "count_retry", "settled", "exhausted"}
  /\ RoutePhase["route"] = 6 /\ RoutePhase["submit"] = 5 /\ RoutePhase["await_rail"] = 4
  /\ RoutePhase["retry"] = 3 /\ RoutePhase["count_retry"] = 2
  /\ RoutePhase["settled"] = 1 /\ RoutePhase["exhausted"] = 1
  BY DEF RoutePhase

LEMMA RetriesLeftType ==
  ASSUME NEW r \in Requests, RouterTypeOK, RoutingInv(r)
  PROVE  RetriesLeft(r) \in 0 .. MaxSettlementRetries
<1>1. /\ IsFiniteSet(alternates[r]) /\ Cardinality(alternates[r]) <= MaxSettlementRetries
  BY AlternatesAreFew DEF RouterTypeOK, RoutingInv
<1>2. Cardinality(alternates[r]) \in Nat
  BY <1>1, FS_CardinalityType
<1> QED BY <1>1, <1>2 DEF RetriesLeft, MaxSettlementRetries

\* A retry is paid for with one of those the budget allows.
LEMMA RetryIsPaidFor ==
  ASSUME NEW r \in Requests, RouterTypeOK, RoutingInv(r), RetryOnAlternate(r)
  PROVE  RetriesLeft(r)' = RetriesLeft(r) - 1
<1>1. PICK next \in Rails : next = NextRail(r) /\ next \notin alternates[r]
  <2>1. NextRail(r) \in Untried(r) /\ NextRail(r) \in Rails
    BY NextRailIsUntried DEF RetryOnAlternate, RoutingInv
  <2> QED BY <2>1 DEF Untried
<1>2. IsFiniteSet(alternates[r])
  BY AlternatesAreFew DEF RouterTypeOK, RoutingInv
<1>3. PICK n \in Nat : Cardinality(alternates[r]) = n
  BY <1>2, FS_CardinalityType
<1>4. Cardinality(alternates[r] \cup {next}) = n + 1
  BY <1>1, <1>2, <1>3, CardinalityWith, Zenon
<1>5. alternates'[r] = alternates[r] \cup {next}
  BY <1>1 DEF RetryOnAlternate, RouterTypeOK
<1>6. MaxSettlementRetries' = MaxSettlementRetries
  BY DEF MaxSettlementRetries
<1> QED BY <1>3, <1>4, <1>5, <1>6 DEF RetriesLeft, MaxSettlementRetries

LEMMA RouterStepDescends ==
  ASSUME NEW r \in Requests, RouterTypeOK, NEW S, pc \in [Requests -> S], RoutingInv(r),
         RouterStep(r)
  PROVE  /\ RouteLeft(r) \in Nat /\ RouteLeft(r)' \in Int /\ RouteLeft(r)' < RouteLeft(r)
         /\ pc[r] \in {"submit", "await_rail", "retry", "count_retry"}
         /\ pc'[r] \in DOMAIN RoutePhase \cup {"raised"}
<1> USE RoutePhaseValues DEF Goto
<1>1. RetriesLeft(r) \in 0 .. MaxSettlementRetries /\ MaxSettlementRetries = 2
  BY RetriesLeftType DEF MaxSettlementRetries
<1>2. CASE RetryOnAlternate(r)
  <2>1. pc[r] = "count_retry" /\ pc'[r] = "submit"
    BY <1>2 DEF RetryOnAlternate
  <2>2. RetriesLeft(r)' = RetriesLeft(r) - 1
    BY <1>2, RetryIsPaidFor
  <2> QED BY <1>1, <2>1, <2>2 DEF RouteLeft
<1>3. ASSUME alternates' = alternates PROVE RetriesLeft(r)' = RetriesLeft(r)
  BY <1>3 DEF RetriesLeft, MaxSettlementRetries
<1>4. CASE Submit(r)
  <2>1. pc[r] = "submit" /\ pc'[r] = "await_rail" /\ alternates' = alternates
    BY <1>4 DEF Submit
  <2> QED BY <1>1, <1>3, <2>1 DEF RouteLeft
<1>5. CASE RailConfirms(r) \/ RailRefuses(r) \/ RailStillSettling(r) \/ AdapterRaises(r)
  <2>1. /\ pc[r] = "await_rail" /\ pc'[r] \in {"settled", "exhausted", "retry", "raised"}
        /\ alternates' = alternates
    BY <1>5 DEF RailConfirms, RailRefuses, RailStillSettling, OtherStatus, AdapterRaises, routerVars
  <2> QED BY <1>1, <1>3, <2>1 DEF RouteLeft
<1>6. CASE CheckRetryBudget(r)
  <2>1. /\ pc[r] = "retry" /\ pc'[r] \in {"count_retry", "exhausted"}
        /\ alternates' = alternates
    BY <1>6 DEF CheckRetryBudget, routerVars
  <2> QED BY <1>1, <1>3, <2>1 DEF RouteLeft
<1> QED BY <1>2, <1>4, <1>5, <1>6 DEF RouterStep

\* What a request has left to do is its own: no other actor's step changes it.
LEMMA RouteLeftFrame ==
  ASSUME NEW s \in Requests, pc'[s] = pc[s], alternates'[s] = alternates[s]
  PROVE  RouteLeft(s)' = RouteLeft(s)
BY DEF RouteLeft, RetriesLeft, RoutePhase, MaxSettlementRetries

\* The retry loop is finite: each step of a request brings its end nearer, and no step
\* of a rail or of another request, one that shares its retry count included, sets it back.
THEOREM RoutingDescends ==
  RouterSpec => [][\A r \in Requests :
                     /\ RouteLeft(r) \in Nat
                     /\ RouteLeft(r)' <= RouteLeft(r)
                     /\ Route(r) \/ RouterStep(r) => RouteLeft(r)' < RouteLeft(r)]_routerSpecVars
<1>1. ASSUME RouterInv, RouterNext, NEW s \in Requests
      PROVE  /\ RouteLeft(s) \in Nat
             /\ RouteLeft(s)' <= RouteLeft(s)
             /\ Route(s) \/ RouterStep(s) => RouteLeft(s)' < RouteLeft(s)
  <2>1. RouterTypeOK /\ pc \in [Requests -> RouterPcs] /\ RoutingInv(s)
    BY <1>1 DEF RouterInv, RouterTypeInvariant
  <2>2. RetriesLeft(s) \in 0 .. MaxSettlementRetries /\ MaxSettlementRetries = 2
    BY <2>1, RetriesLeftType DEF MaxSettlementRetries
  <2>3. RouteLeft(s) \in Nat
    BY <2>2, RoutePhaseValues DEF RouteLeft
  <2>4. Route(s) => RouteLeft(s)' < RouteLeft(s) /\ RouteLeft(s)' \in Int
    <3>1. SUFFICES ASSUME Route(s) PROVE RouteLeft(s)' < RouteLeft(s) /\ RouteLeft(s)' \in Int
      OBVIOUS
    <3>2. pc[s] = "route" /\ pc'[s] \in {"submit", "raised"} /\ alternates' = alternates
      BY <2>1, <3>1 DEF Route, StartRouting, Goto
    <3>3. RetriesLeft(s)' = RetriesLeft(s)
      BY <3>2 DEF RetriesLeft, MaxSettlementRetries
    <3> QED BY <2>2, <3>2, <3>3, RoutePhaseValues DEF RouteLeft
  <2>5. RouterStep(s) => RouteLeft(s)' < RouteLeft(s) /\ RouteLeft(s)' \in Int
    BY <2>1, RouterStepDescends
  <2>6. PICK r \in Requests : Route(r) \/ RouterStep(r) \/ RailDecides(r)
    BY <1>1 DEF RouterNext
  <2>7. CASE r # s \/ RailDecides(r)
    <3>1. pc'[s] = pc[s] /\ alternates'[s] = alternates[s]
      <4>1. CASE Route(r) /\ r # s
        BY <2>1, <4>1 DEF Route, StartRouting, Goto
      <4>2. CASE RouterStep(r) /\ r # s
        BY <2>1, <4>2, RouterStepOthers
      <4>3. CASE RailDecides(r)
        BY <4>3 DEF RailDecides
      <4> QED BY <2>6, <2>7, <4>1, <4>2, <4>3
    <3> QED BY <2>3, <2>4, <2>5, <3>1, RouteLeftFrame
  <2>8. CASE r = s /\ ~RailDecides(r)
    BY <2>3, <2>4, <2>5, <2>6, <2>8
  <2> QED BY <2>7, <2>8
<1>2. RouterInv /\ [RouterNext]_routerSpecVars =>
        [\A r \in Requests :
           /\ RouteLeft(r) \in Nat
           /\ RouteLeft(r)' <= RouteLeft(r)
           /\ Route(r) \/ RouterStep(r) => RouteLeft(r)' < RouteLeft(r)]_routerSpecVars
  BY <1>1
<1> QED BY <1>2, RouterInvAlways, PTL DEF RouterSpec
=============================================================================
