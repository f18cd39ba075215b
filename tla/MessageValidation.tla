--------------------------- MODULE MessageValidation ---------------------------
(***************************************************************************)
(* The runtime gate on incoming pain.001 messages (validate.py) and the    *)
(* store of EndToEndIds that several validations share.  Everything up to  *)
(* the store is a function of the message, one step here; is_seen and      *)
(* record are two separate calls, and no lock spans them.                  *)
(***************************************************************************)
EXTENDS Amounts, FiniteSets

CONSTANTS
  Messages,   \* the calls of validate_pain001_message, each on a thread of its own
  CallsOf     \* [Messages -> SUBSET Calls]: the documents a call may be given

VARIABLES
  call,       \* [Messages -> Calls]: the document of each call, and whether it has a store
  validator,  \* [Messages -> ValidatorPcs]: where the call is, or the stage of its verdict
  seen,       \* SUBSET Ids: the ids in the store
  earlier     \* [Messages -> SUBSET Messages]: history, the calls that had been
              \* accepted when this one began

validationVars == <<call, validator, seen, earlier>>

Blank == "blank"
Ids == {"E1", "E2", "P1", Blank}
Currencies == {"ZAR", "GHS"}      \* two of the five the platform handles
Unlisted == "EUR"                 \* an ISO code it does not handle
Absent == "absent"

\* A document, as far as a rule looks at it.  pmtInfId is read by parse_pain001 only.
Calls ==
  [wellFormed : BOOLEAN,          \* it passes the XSD
   endToEndId : Ids, pmtInfId : Ids,
   currency : Currencies \cup {Unlisted},
   shared : BOOLEAN,              \* ChrgBr is SLEV
   purpose : {"FAMI", "CORT", Absent},
   amount : Texts,
   target : Currencies,           \* the currency of the recipient's country
   store : BOOLEAN]               \* an id store was passed

Stages == {"XSD", "FIELD_RULES", "BUSINESS_RULES", "ACCEPTED"}
ValidatorPcs == {"idle", "checking", "recording"} \cup Stages

\* The schema lets an amount through only if it is a decimal and not below zero
\* ("-0.00" is not).  It lets one without a whole part through too: ".5" makes the
\* amount rule raise, which ends in the stage of an amount that is zero.
ASSUME ValidationAssumption ==
  /\ CallsOf \in [Messages -> SUBSET Calls]
  /\ \A m \in Messages : \A doc \in CallsOf[m] :
       doc.wellFormed => IsDecimal(doc.amount) /\ Thousandths(doc.amount) >= 0

\* Mutant: a blank id passes.
FieldRulesHoldBlank(doc) ==
  /\ doc.currency \in Currencies
  /\ doc.shared
  /\ doc.purpose # "CORT"

FieldRulesHold(doc) ==
  /\ doc.endToEndId # Blank
  /\ doc.currency \in Currencies
  /\ doc.shared
  /\ doc.purpose # "CORT"         \* in ISO_TO_PURPOSE, if it is there at all

AmountIsPositive(doc) == DecimalStrToMinorUnits(doc.amount) > 0

\* The stage the document fails in, or where the store comes into it.
StageOf(doc) ==
  CASE ~doc.wellFormed -> "XSD"
    [] doc.wellFormed /\ ~FieldRulesHold(doc) -> "FIELD_RULES"
    [] doc.wellFormed /\ FieldRulesHold(doc) /\ ~AmountIsPositive(doc) -> "BUSINESS_RULES"
    [] OTHER -> IF doc.store THEN "checking" ELSE "ACCEPTED"

Accepted == {m \in Messages : validator[m] = "ACCEPTED"}

\* Mutant: the id is taken before the amount is looked at.
ValidateAndRecord(m) ==
  /\ validator[m] = "idle"
  /\ validator' = [validator EXCEPT ![m] = StageOf(call[m])]
  /\ earlier' = [earlier EXCEPT ![m] = Accepted]
  /\ seen' = IF call[m].store /\ StageOf(call[m]) = "BUSINESS_RULES"
             THEN seen \cup {call[m].endToEndId} ELSE seen
  /\ UNCHANGED call

\* The XSD, the field rules and the amount.
Validate(m) ==
  /\ validator[m] = "idle"
  /\ validator' = [validator EXCEPT ![m] = StageOf(call[m])]
  /\ earlier' = [earlier EXCEPT ![m] = Accepted]
  /\ UNCHANGED <<call, seen>>

\* Mutant: the store is not asked.
CheckNothing(m) ==
  /\ validator[m] = "checking"
  /\ validator' = [validator EXCEPT ![m] = "recording"]
  /\ UNCHANGED <<call, seen, earlier>>

\* id_store.is_seen
CheckSeen(m) ==
  /\ validator[m] = "checking"
  /\ validator' = [validator EXCEPT ![m] = IF call[m].endToEndId \in seen
                                           THEN "BUSINESS_RULES" ELSE "recording"]
  /\ UNCHANGED <<call, seen, earlier>>

\* id_store.record, whatever was recorded since the check.
RecordId(m) ==
  /\ validator[m] = "recording"
  /\ seen' = seen \cup {call[m].endToEndId}
  /\ validator' = [validator EXCEPT ![m] = "ACCEPTED"]
  /\ UNCHANGED <<call, earlier>>

ValidationInit ==
  /\ call \in {c \in [Messages -> UNION {CallsOf[m] : m \in Messages}] :
                 \A m \in Messages : c[m] \in CallsOf[m]}
  /\ validator = [m \in Messages |-> "idle"]
  /\ seen = {}
  /\ earlier = [m \in Messages |-> {}]

ValidationNext == \E m \in Messages : Validate(m) \/ CheckSeen(m) \/ RecordId(m)

-----------------------------------------------------------------------------
(* Properties                                                              *)

ValidationTypeInvariant ==
  /\ call \in [Messages -> UNION {CallsOf[m] : m \in Messages}]
  /\ \A m \in Messages : call[m] \in CallsOf[m]
  /\ validator \in [Messages -> ValidatorPcs]
  /\ seen \subseteq Ids \ {Blank}
  /\ earlier \in [Messages -> SUBSET Messages]

\* "EndToEndId reuse is a hard rejection" (SPEC.md 112), as far as a check and a
\* record in two calls can keep it: a validation that begins after one of the same
\* id was accepted is never accepted.  Only validations that overlap may both be.
LateReuseRejected ==
  \A m \in Accepted : \A n \in earlier[m] :
    call[m].store /\ call[n].store => call[m].endToEndId # call[n].endToEndId

\* The store holds the ids of the accepted messages and no others: a message that is
\* rejected does not use up its id, so its correction can still be sent under it.
SeenIsAccepted ==
  seen = {call[m].endToEndId : m \in {n \in Accepted : call[n].store}}
=============================================================================
