---------------------------- MODULE Reconciliation ----------------------------
(***************************************************************************)
(* From an accepted pain.001 to a transfer (parse_pain001), and from a     *)
(* camt.053 statement back to it (parse_camt053, reconcile_transfer).      *)
(*                                                                         *)
(* What moves the transfer in between -- the gateway and the rails, see    *)
(* Gateway and RailRouter -- is external here, and so is the bank: its     *)
(* statements may come late, more than once and in any order.              *)
(***************************************************************************)
EXTENDS MessageValidation

CONSTANTS
  Statements,     \* SUBSET Seq(Entries): the statements the bank may send
  MaxStatements   \* bound on the statements received

VARIABLES
  transfer,     \* [Messages -> TransferStates]: the transfer parsed from a message
  received,     \* Seq(Statements): the statements received so far
  outcome       \* [Messages -> Outcomes]: how its last reconcile_transfer ended, or
                \* the state of the transfer it returned

reconciliationVars == <<transfer, received, outcome>>
messagingVars == <<validationVars, reconciliationVars>>

\* The states reconcile_transfer tells apart, and two for "no transfer": not parsed
\* yet, or parse_pain001 raised.
TransferStates == {"ABSENT", "UNPARSED", "INITIATED", "SETTLING", "FAILED", "DELIVERED"}
Outcomes == {"none", "raised", "INITIATED", "SETTLING", "FAILED", "DELIVERED"}

\* An Ntry element; its CdtDbtInd is parsed and never looked at.
Entries ==
  [entryReference : Ids, endToEndId : Ids,
   amountIs : {"given", "missing", "unreadable"}, amount : Texts,
   currency : Currencies \cup {Unlisted, Absent},
   status : {"BOOK", "PDNG", "INFO", Absent}]

ASSUME ReconciliationAssumption ==
  /\ Statements \subseteq Seq(Entries)
  /\ MaxStatements \in Nat

-----------------------------------------------------------------------------
(* parse_pain001                                                           *)

\* The payment's own id, if it has one, and the EndToEndId otherwise.
Reference(m) ==
  IF call[m].pmtInfId # Blank THEN call[m].pmtInfId ELSE call[m].endToEndId

\* quote.recipient_receives: the instructed number, in the recipient's currency.
Amount(m) == DecimalStrToMinorUnits(call[m].amount)
Currency(m) == call[m].target

Parse(m) ==
  /\ validator[m] = "ACCEPTED"
  /\ transfer[m] = "ABSENT"
  /\ call[m].purpose # Absent
  /\ transfer' = [transfer EXCEPT ![m] = "INITIATED"]
  /\ UNCHANGED <<validationVars, received, outcome>>

\* A message that may lack a purpose passes the validation; a party, a country or a
\* date it carries may be refused too.
ParseRaises(m) ==
  /\ validator[m] = "ACCEPTED"
  /\ transfer[m] = "ABSENT"
  /\ transfer' = [transfer EXCEPT ![m] = "UNPARSED"]
  /\ UNCHANGED <<validationVars, received, outcome>>

\* The gateway validates and settles; the settlement may fail and be retried.
GatewayMoves(m) ==
  /\ \E move \in {<<"INITIATED", "SETTLING">>, <<"SETTLING", "FAILED">>, <<"FAILED", "SETTLING">>} :
       /\ transfer[m] = move[1]
       /\ transfer' = [transfer EXCEPT ![m] = move[2]]
  /\ UNCHANGED <<validationVars, received, outcome>>

-----------------------------------------------------------------------------
(* parse_camt053                                                           *)

\* No schema has seen the statement.  It raises as a whole if it is no camt.053, or if
\* the whole part of an amount or the two characters after its point are no integer;
\* "1.05abc", "1.05.9" and "-0.50" are read.
Readable(statement) ==
  \A i \in DOMAIN statement :
    /\ statement[i].amountIs # "unreadable"
    /\ statement[i].amountIs = "given" => CentsReadable(statement[i].amount)

\* What is missing, or unknown, is filled in.
StatementEntry(entry) ==
  [entryReference |-> entry.entryReference,
   endToEndId |-> IF entry.endToEndId # Blank THEN entry.endToEndId ELSE entry.entryReference,
   amountMinor |-> DecimalStrToMinorUnits(entry.amount),
   currency |-> IF entry.currency \in Currencies THEN entry.currency ELSE "ZAR",
   status |-> IF entry.status # Absent THEN entry.status ELSE "BOOK"]

-----------------------------------------------------------------------------
(* reconcile_transfer                                                      *)

\* parse_camt053 passes over an entry without an amount.
Matches(entry, m) ==
  /\ entry.amountIs = "given"
  /\ Reference(m) \in {StatementEntry(entry).endToEndId, entry.entryReference}

\* Mutant: the search for the entry goes on after a match.
SomeMatch(statement, i, m) == Matches(statement[i], m)

\* Only the first entry that matches is looked at.
FirstMatch(statement, i, m) ==
  /\ Matches(statement[i], m)
  /\ \A j \in 1 .. i - 1 : ~Matches(statement[j], m)

\* An amount one minor unit off is a mismatch, as is another currency.
Agrees(entry, m) == entry.currency = Currency(m) /\ entry.amountMinor = Amount(m)

\* Mutant: a booked entry moves the transfer on without a look at its state, which
\* transition_to refuses.
ReconciledByTransition(entry, m) ==
  CASE entry.status = "BOOK" -> IF transfer[m] = "SETTLING" THEN "DELIVERED" ELSE "raised"
    [] entry.status = "PDNG" -> transfer[m]
    [] OTHER -> "raised"

\* What becomes of the transfer by the entry that matched.
Reconciled(entry, m) ==
  CASE entry.status = "BOOK" -> IF transfer[m] = "SETTLING" THEN "DELIVERED" ELSE transfer[m]
    [] entry.status = "PDNG" -> transfer[m]
    [] OTHER -> "raised"

\* reconcile_transfer raises, or returns the transfer in this state.
Returns(m, result) ==
  /\ outcome' = [outcome EXCEPT ![m] = result]
  /\ transfer' = [transfer EXCEPT ![m] = IF result = "raised" THEN @ ELSE result]

ReconcileTransfer(m) ==
  /\ transfer[m] \notin {"ABSENT", "UNPARSED"}
  /\ \E s \in DOMAIN received :
       LET statement == received[s]
       IN  \/ /\ ~Readable(statement) \/ \A i \in DOMAIN statement : ~Matches(statement[i], m)
              /\ Returns(m, "raised")
           \/ /\ Readable(statement)
              /\ \E i \in DOMAIN statement :
                   /\ FirstMatch(statement, i, m)
                   /\ LET entry == StatementEntry(statement[i])
                      IN  Returns(m, IF Agrees(entry, m) THEN Reconciled(entry, m) ELSE "raised")
  /\ UNCHANGED <<validationVars, received>>

\* The bank sends a statement, perhaps one it has sent before.
ReceiveStatement ==
  /\ Len(received) < MaxStatements
  /\ \E statement \in Statements : received' = Append(received, statement)
  /\ UNCHANGED <<validationVars, transfer, outcome>>

-----------------------------------------------------------------------------
MessagingInit ==
  /\ ValidationInit
  /\ transfer = [m \in Messages |-> "ABSENT"]
  /\ received = <<>>
  /\ outcome = [m \in Messages |-> "none"]

MessagingNext ==
  \/ ValidationNext /\ UNCHANGED reconciliationVars
  \/ \E m \in Messages :
       Parse(m) \/ ParseRaises(m) \/ GatewayMoves(m) \/ ReconcileTransfer(m)
  \/ ReceiveStatement

MessagingSpec == MessagingInit /\ [][MessagingNext]_messagingVars

-----------------------------------------------------------------------------
(* Properties                                                              *)

\* The type invariant of the two components together.
MessagingTypeInvariant ==
  /\ ValidationTypeInvariant
  /\ transfer \in [Messages -> TransferStates]
  /\ \A m \in Messages : transfer[m] # "ABSENT" => m \in Accepted
  /\ received \in Seq(Statements)
  /\ Len(received) <= MaxStatements
  /\ outcome \in [Messages -> Outcomes]

\* What an Ntry says, compared with the transfer as the documents mean it: the same
\* reference and currency, and the same amount down to the cent.  A text that is no
\* decimal, or is below zero, says what decimal_str_to_minor_units makes of it: what
\* that lets through is the subject of MismatchIsRefused.
Names(entry, m) ==
  entry.amountIs = "given" /\ Reference(m) \in {entry.endToEndId, entry.entryReference}

Says(text, minorUnits) ==
  IF IsDecimal(text) /\ ~text.negative
  THEN Thousandths(text) \div 10 = minorUnits
  ELSE DecimalStrToMinorUnits(text) = minorUnits

Confirms(entry, m) ==
  /\ Says(entry.amount, Amount(m))
  /\ \/ entry.currency = Currency(m)
     \/ entry.currency \notin Currencies /\ Currency(m) = "ZAR"

\* The statement's word on the transfer is the first entry that names it.
ConfirmedIn(statement, statuses, m) ==
  /\ Readable(statement)
  /\ \E i \in DOMAIN statement :
       /\ Names(statement[i], m)
       /\ \A j \in 1 .. i - 1 : ~Names(statement[j], m)
       /\ Confirms(statement[i], m)
       /\ statement[i].status \in statuses

Booking == {"BOOK", Absent}       \* no status counts as BOOK
Reporting == Booking \cup {"PDNG"}

ConfirmedAs(statuses, m) ==
  \E s \in DOMAIN received : ConfirmedIn(received[s], statuses, m)

\* "BOOK only" (iso20022-messaging.md 334): whatever statements came, and however often,
\* a transfer is delivered only if one of them has a booked entry with its reference,
\* amount and currency ahead of every other entry that names it.  An entry that
\* disagrees, or is pending, is not passed over for a later one.
DeliveredIsBooked ==
  \A m \in Messages : transfer[m] = "DELIVERED" => ConfirmedAs(Booking, m)

\* "A transfer whose camt.053 entry doesn't match stays unreconciled and alerts"
\* (SPEC.md 123), and no other does: reconcile_transfer returns only if a statement
\* agrees with the transfer, leaves it in SETTLING only for a pending entry, and raises
\* only if some statement does not agree.  One that comes again, or after the transfer
\* failed or was delivered, is no mismatch.
ReturnsAreMatched ==
  \A m \in Messages :
    /\ outcome[m] \notin {"none", "raised"} => ConfirmedAs(Reporting, m)
    /\ outcome[m] = "SETTLING" => ConfirmedAs({"PDNG"}, m)
    /\ outcome[m] = "raised" =>
         \E s \in DOMAIN received : ~ConfirmedIn(received[s], Reporting, m)

\* "Amount mismatch (even 1 minor unit) raises UnreconciledError and does NOT mark
\* DELIVERED" (camt053.py 120): a transfer is delivered only if an entry that names it
\* states its amount, as a decimal and with its sign.
MismatchIsRefused ==
  \A m \in Messages : transfer[m] = "DELIVERED" =>
    \E s \in DOMAIN received : \E i \in DOMAIN received[s] :
      LET text == received[s][i].amount
      IN  /\ Names(received[s][i], m)
          /\ IsDecimal(text)
          /\ Thousandths(text) \div 10 = Amount(m)

\* "Without float arithmetic": an accepted amount is what its text says, cut to the cent,
\* and at least one cent; written into a message and read again it is the same.
AmountsAreExact ==
  \A m \in Accepted :
    /\ Amount(m) >= 1
    /\ Amount(m) = Thousandths(call[m].amount) \div 10
    /\ DecimalStrToMinorUnits(MinorUnitsToDecimalStr(Amount(m))) = Amount(m)
=============================================================================
