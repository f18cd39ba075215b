----------------------------- MODULE ExitValidator -----------------------------
(***************************************************************************)
(* The deterministic exit gate (asco guardrails/exit.py): whatever the two *)
(* agents concluded, nothing is dispatched to a rail unless it passes.     *)
(* Its checks run in order and the first that fails names the stage.       *)
(***************************************************************************)
EXTENDS Agents

CONSTANT RailTerms     \* what each rail quotes: [Rails -> [fee : Nat, seconds : Nat]]

ASSUME ExitAssumption == RailTerms \in [Rails -> [fee : Nat, seconds : Nat]]

ExitStages == {"CLEAR", "CITATION_CHECK", "RAIL_ELIGIBILITY", "ISO20022_SCHEMA"}

Citable(v) == v.cited # {} /\ v.outcome = "PASS"

\* The proposed rail quoted, with the latency and at least the fee it quoted.
Quoted(p, quoted) ==
  /\ p.rail \in quoted
  /\ p.seconds = RailTerms[p.rail].seconds
  /\ p.cost >= RailTerms[p.rail].fee

\* Mutant: the forbidden rails are not looked at.
RailEligibleIfQuick(v, p, quoted) ==
  Quoted(p, quoted) /\ (v.maxSeconds # NoLimit => p.seconds <= v.maxSeconds)

\* Mutant: the verdict's settlement limit is not looked at.
RailEligibleAtAnySpeed(v, p, quoted) == Quoted(p, quoted) /\ p.rail \notin v.forbidden

\* ... and the verdict's constraints allow it.
RailEligible(v, p, quoted) ==
  /\ Quoted(p, quoted)
  /\ p.rail \notin v.forbidden
  /\ v.maxSeconds # NoLimit => p.seconds <= v.maxSeconds

\* Comparing a latency with a limit that is not a number raises.
LimitIncomparable(v, p, quoted) ==
  /\ Citable(v)
  /\ Quoted(p, quoted)
  /\ p.rail \notin v.forbidden
  /\ v.maxSeconds = NotANumber

\* ExitValidator.validate; schemaOk is the verdict of the pacs.008 XSD.
ExitStage(v, p, quoted, schemaOk) ==
  CASE ~Citable(v) -> "CITATION_CHECK"
    [] Citable(v) /\ ~RailEligible(v, p, quoted) -> "RAIL_ELIGIBILITY"
    [] Citable(v) /\ RailEligible(v, p, quoted) /\ ~schemaOk -> "ISO20022_SCHEMA"
    [] OTHER -> "CLEAR"

\* A verdict that already blocks or escalates is not overruled, merely kept.
Overrides(v, stage) ==
  CASE stage = "CLEAR" -> FALSE
    [] stage = "CITATION_CHECK" -> v.cited = {}
    [] OTHER -> TRUE
=============================================================================
