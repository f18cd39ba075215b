---------------------------- MODULE EntryGuardrail ----------------------------
(***************************************************************************)
(* EntryGuardrail.evaluate (asco guardrails/entry.py): the deterministic   *)
(* gate in front of the agents.  Its checks run in order; the first that   *)
(* objects decides the outcome, the stage and the rules cited.             *)
(*                                                                         *)
(* A form is what the gate can tell apart of a pain.001 and the profiles   *)
(* beside it: wellFormed is the verdict of validate_pain001_message,       *)
(* parsed says whether parse_pain001 accepts it, and the two listed flags  *)
(* are the screener's answers for the two parties.                         *)
(***************************************************************************)
EXTENDS Integers, FiniteSets

CONSTANTS
  Forms,       \* the forms requests may carry
  LimitTable   \* the sourced limits (LimitTable)

\* LimitTable refuses to be built without a tier or with a figure of 0 or less.
ASSUME EntryAssumption ==
  /\ Forms \subseteq [wellFormed : BOOLEAN, parsed : BOOLEAN,
                      senderListed : BOOLEAN, recipientListed : BOOLEAN,
                      currency : STRING, tier : STRING, pep : BOOLEAN,
                      amount : Int, prior : Nat]
  /\ DOMAIN LimitTable.tiers # {}
  /\ LimitTable.tiers \in [DOMAIN LimitTable.tiers -> Nat \ {0}]
  /\ LimitTable.cumulative \in Nat \ {0}
  /\ LimitTable.pepThreshold \in Nat \ {0}

GuardrailOutcomes == {"PASS", "ESCALATE", "REJECTED"}

Verdict(outcome, stage, rules) == [outcome |-> outcome, stage |-> stage, cited |-> rules]
Rejected(stage, rules) == Verdict("REJECTED", stage, rules)

\* Mutant: the recipient is not screened.
SenderListed(f) == f.senderListed

Listed(f) == f.senderListed \/ f.recipientListed

HasLimit(f) == f.currency = LimitTable.currency /\ f.tier \in DOMAIN LimitTable.tiers

\* The gates in the order they are tried: whether one objects, and its verdict.
Gates(f) ==
  << <<~f.wellFormed, Rejected("SCHEMA", {"ISO_20022_PAIN001_SCHEMA"})>>,
     <<~f.parsed,     Rejected("SCHEMA", {"ISO_20022_PARSER_ERROR"})>>,
     <<Listed(f),     Rejected("SANCTIONS", {"FIC_ACT_S28A", "SANCTIONS_LIST"})>>,
     <<~HasLimit(f),  Rejected("LIMITS", {"LIMIT_TABLE_UNAVAILABLE", "LIMIT_TABLE"})>>,
     <<f.pep /\ f.amount > LimitTable.pepThreshold,
       Verdict("ESCALATE", "PEP_SCREEN", {"FIC_ACT_S21H_PEP", "LIMIT_TABLE"})>>,
     <<HasLimit(f) /\ f.amount > LimitTable.tiers[f.tier],
       Rejected("LIMITS", {"FICA_TIER_LIMIT", "SARB_EXCON_LIMIT_EXCEEDED", "LIMIT_TABLE"})>>,
     <<f.prior + f.amount > LimitTable.cumulative,
       Rejected("LIMITS", {"SARB_EXCON_SDA_CAP_EXCEEDED", "LIMIT_TABLE"})>> >>

Objecting(f) == {i \in 1 .. 7 : Gates(f)[i][1]}
FirstObjecting(f) == CHOOSE i \in Objecting(f) : \A j \in Objecting(f) : i <= j

Evaluate(f) ==
  IF Objecting(f) = {} THEN Verdict("PASS", "CLEAR", {})
                       ELSE Gates(f)[FirstObjecting(f)][2]
=============================================================================
