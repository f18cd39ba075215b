------------------------------- MODULE MCGateway -------------------------------
(***************************************************************************)
(* Small instances of the gateway.  The forms take one transfer through    *)
(* each branch of the entry gate, the agents' replies through each exit of *)
(* the negotiation; every set of adapters, quotes and rail decisions is    *)
(* explored.                                                               *)
(***************************************************************************)
EXTENDS Gateway

\* Ids drawn apart.
DistinctIds == CHOOSE f \in [Requests -> Ids] :
                 \A r, s \in Requests : f[r] = f[s] => r = s

MCLimits == [currency |-> "ZAR", tiers |-> [L1 |-> 2, L3 |-> 4],
             cumulative |-> 5, pepThreshold |-> 1]

Plain == [wellFormed |-> TRUE, parsed |-> TRUE,
          senderListed |-> FALSE, recipientListed |-> FALSE,
          currency |-> "ZAR", tier |-> "L1", pep |-> FALSE, amount |-> 1, prior |-> 0]

\* One form for each branch of the gate, on both sides of each limit.
EveryForm ==
  { Plain,
    [Plain EXCEPT !.wellFormed = FALSE, !.parsed = FALSE],
    [Plain EXCEPT !.parsed = FALSE],
    [Plain EXCEPT !.senderListed = TRUE],
    [Plain EXCEPT !.recipientListed = TRUE],
    [Plain EXCEPT !.currency = "KES"],
    [Plain EXCEPT !.tier = "L2"],
    [Plain EXCEPT !.amount = 2], [Plain EXCEPT !.amount = 3],
    [Plain EXCEPT !.prior = 4], [Plain EXCEPT !.prior = 5],
    [Plain EXCEPT !.pep = TRUE], [Plain EXCEPT !.pep = TRUE, !.amount = 3],
    [Plain EXCEPT !.tier = "L3", !.amount = 4], [Plain EXCEPT !.tier = "L3", !.amount = 5] }

MCTerms == [x \in Rails |-> IF x = "SWIFT" THEN [fee |-> 2, seconds |-> 9]
                                           ELSE [fee |-> 1, seconds |-> 3]]

Said(outcome, forbidden, maxSeconds) ==
  [outcome |-> outcome, risk |-> 10, cited |-> {"FICA_S21"}, listed |-> TRUE,
   forbidden |-> forbidden, maxSeconds |-> maxSeconds]

MCSentinelReplies ==
  { Said("PASS", {}, NoLimit), Said("PASS", {"PAPSS"}, 5), Said("PASS", {"RIPPLE"}, NotANumber),
    Said("ESCALATE", {}, NoLimit), Said("BLOCK", {}, NoLimit),
    [Said("PASS", {}, NoLimit) EXCEPT !.cited = {}],
    [Said("PASS", {}, NoLimit) EXCEPT !.listed = FALSE] }

MCStrategistReplies ==
  [rail : Rails, cost : {2}, currency : {"SEND"}, seconds : {3, 9}]
=============================================================================
