----------------------------- MODULE MCNegotiation -----------------------------
(***************************************************************************)
(* One transfer, all three rails, every subset of them quoting, and models *)
(* that may reply with any mix of good and bad fields.                     *)
(***************************************************************************)
EXTENDS Negotiation

MCIdOf == [r \in Requests |-> CHOOSE i \in Ids : TRUE]

MCTerms == [x \in Rails |-> IF x = "SWIFT" THEN [fee |-> 2, seconds |-> 9]
                                           ELSE [fee |-> 1, seconds |-> 3]]

MCSentinelReplies ==
  [outcome : {"PASS", "ESCALATE", "BLOCK", "MAYBE"}, risk : {0, 101},
   cited : {{}, {"FICA s21"}, {"FICA s21", BlankRule}}, listed : {TRUE},
   forbidden : {{}, {"SWIFT"}, {"RIPPLE", "PAPSS"}, Rails}, maxSeconds : {NoLimit, NotANumber, 5}]

MCStrategistReplies ==
  [rail : Rails \cup {"TELEX"}, cost : {0, 2}, currency : {"SEND", "OTHER"},
   seconds : {0, 3, 9}]
=============================================================================
