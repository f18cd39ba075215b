------------------------------ MODULE MCMessaging ------------------------------
(***************************************************************************)
(* Two messages: one with every flaw a rule looks for and every shape of   *)
(* amount, one that is sound.  Statements of up to two entries, with       *)
(* amounts no schema would pass, two of them received.                     *)
(***************************************************************************)
EXTENDS Reconciliation

CONSTANTS m1, m2

MCMessages == {m1, m2}

Text(whole, decimals) ==
  [negative |-> FALSE, whole |-> whole, decimals |-> decimals, clean |-> TRUE]

Good ==
  [wellFormed |-> TRUE, endToEndId |-> "E1", pmtInfId |-> "E1", currency |-> "ZAR",
   shared |-> TRUE, purpose |-> "FAMI", amount |-> Text(1, <<0, 5>>), target |-> "GHS",
   store |-> TRUE]

Flawed ==
  { [Good EXCEPT !.wellFormed = FALSE],
    [Good EXCEPT !.endToEndId = Blank],
    [Good EXCEPT !.currency = Unlisted],
    [Good EXCEPT !.shared = FALSE],
    [Good EXCEPT !.purpose = "CORT"],
    [Good EXCEPT !.amount = Text(0, <<0, 0, 9>>)] }

Variants ==
  { [Good EXCEPT !.purpose = Absent],
    [Good EXCEPT !.store = FALSE],
    [Good EXCEPT !.pmtInfId = "P1"],
    [Good EXCEPT !.endToEndId = "E2", !.pmtInfId = Blank],
    [Good EXCEPT !.amount = Text(1, <<5>>)],
    [Good EXCEPT !.amount = Text(0, <<5>>)],
    [Good EXCEPT !.amount = Text(1, <<>>), !.target = "ZAR"] }

MCCallsOf ==
  [m \in MCMessages |->
     IF m = m1 THEN {Good} \cup Flawed \cup Variants
               ELSE {Good, [Good EXCEPT !.endToEndId = "E2", !.pmtInfId = "E2"]}]

Booked ==
  [entryReference |-> Blank, endToEndId |-> "E1", amountIs |-> "given",
   amount |-> Text(1, <<0, 5>>), currency |-> "GHS", status |-> "BOOK"]

Pending == [Booked EXCEPT !.status = "PDNG"]

MCStatements ==
  { <<Booked>>,
    <<Pending>>,
    <<Pending, Booked>>,
    <<[Booked EXCEPT !.endToEndId = Blank, !.entryReference = "E1", !.status = Absent]>>,
    <<[Booked EXCEPT !.amountIs = "missing"], [Booked EXCEPT !.status = "INFO"]>>,
    <<Booked, [Booked EXCEPT !.endToEndId = "E2", !.amountIs = "unreadable"]>>,
    <<[Booked EXCEPT !.endToEndId = "E2"], [Booked EXCEPT !.amount = Text(1, <<0, 4>>)]>>,
    <<[Booked EXCEPT !.endToEndId = "P1", !.amount = Text(1, <<0, 5, 9>>)],
      [Booked EXCEPT !.currency = "ZAR"]>>,
    <<[Booked EXCEPT !.currency = Unlisted, !.amount = Text(1, <<>>)]>>,
    <<[Booked EXCEPT !.amount = Text(1, <<5>>), !.entryReference = "E2"]>>,
    \* "-0.50", "1.05.9" and "1.05x", "1. 5" and "1.+5"; "1.x" is not read.
    <<[Booked EXCEPT !.amount = [Text(0, <<5>>) EXCEPT !.negative = TRUE]]>>,
    <<[Booked EXCEPT !.amount = [Text(1, <<0, 5>>) EXCEPT !.clean = FALSE]],
      [Booked EXCEPT !.endToEndId = "E2", !.amount = Text(1, <<0, 5, Other>>)]>>,
    <<[Booked EXCEPT !.amount = Text(1, <<Space, 5>>)],
      [Booked EXCEPT !.endToEndId = "E2", !.amount = Text(1, <<Plus, 5>>)]>>,
    <<Booked, [Booked EXCEPT !.endToEndId = "E2", !.amount = Text(1, <<Other>>)]>> }
=============================================================================
