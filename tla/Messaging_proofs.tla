--------------------------- MODULE Messaging_proofs ---------------------------
(***************************************************************************)
(* What the message validation and the reconciliation guarantee for any    *)
(* number of messages, of any content, validated in any interleaving, and  *)
(* for any statements received in any order.                               *)
(***************************************************************************)
EXTENDS Reconciliation, TLAPS

-----------------------------------------------------------------------------
(* Amounts                                                                 *)

LEMMA DecimalIsDigit ==
  ASSUME NEW text \in Texts, IsDecimal(text), NEW i \in Nat
  PROVE  Decimal(text, i) \in 0 .. 9
BY DEF Decimal, Texts, IsDecimal, Digits

LEMMA LastDigitCut ==
  ASSUME NEW n \in Nat, NEW digit \in 0 .. 9
  PROVE  (10 * n + digit) \div 10 = n
OBVIOUS

\* Reading a decimal that is not negative cuts it to the cent.
LEMMA ReadingTruncates ==
  ASSUME NEW text \in Texts, IsDecimal(text), ~text.negative
  PROVE  /\ DecimalStrToMinorUnits(text) \in Nat
         /\ Thousandths(text) \div 10 = DecimalStrToMinorUnits(text)
<1>1. /\ text.whole \in Nat /\ Decimal(text, 1) \in 0 .. 9
      /\ Decimal(text, 2) \in 0 .. 9 /\ Decimal(text, 3) \in 0 .. 9
  BY DecimalIsDigit DEF Texts
<1>2. Cents(text) = 10 * Decimal(text, 1) + Decimal(text, 2)
  BY <1>1 DEF Cents, Digits, Space
<1>3. DecimalStrToMinorUnits(text) = 100 * text.whole + 10 * Decimal(text, 1) + Decimal(text, 2)
  BY <1>1, <1>2 DEF DecimalStrToMinorUnits, WholeUnits
<1>4. Thousandths(text) = 10 * DecimalStrToMinorUnits(text) + Decimal(text, 3)
  BY <1>1, <1>3 DEF Thousandths
<1>5. DecimalStrToMinorUnits(text) \in Nat
  BY <1>1, <1>3
<1> QED BY <1>1, <1>4, <1>5, LastDigitCut

\* A decimal with a minus that is not below zero is zero, "-0.00", and is read so.
LEMMA NegativeReadsAsZero ==
  ASSUME NEW text \in Texts, IsDecimal(text), text.negative, Thousandths(text) >= 0
  PROVE  DecimalStrToMinorUnits(text) = 0
<1>1. /\ text.whole \in Nat /\ Decimal(text, 1) \in 0 .. 9
      /\ Decimal(text, 2) \in 0 .. 9 /\ Decimal(text, 3) \in 0 .. 9
  BY DecimalIsDigit DEF Texts
<1>2. text.whole = 0 /\ Decimal(text, 1) = 0 /\ Decimal(text, 2) = 0
  BY <1>1 DEF Thousandths
<1> QED BY <1>1, <1>2 DEF DecimalStrToMinorUnits, WholeUnits, Cents, Space

LEMMA DigitsOf ==
  ASSUME NEW n \in Nat
  PROVE  /\ n = 100 * (n \div 100) + (n % 100) /\ n % 100 \in 0 .. 99
         /\ n = 10 * (n \div 10) + (n % 10) /\ n % 10 \in 0 .. 9
         /\ n \div 100 \in Nat /\ n \div 10 \in Nat
OBVIOUS

\* Reading what was written gives the amount back.
LEMMA WritingIsExact ==
  ASSUME NEW minorUnits \in Nat
  PROVE  DecimalStrToMinorUnits(MinorUnitsToDecimalStr(minorUnits)) = minorUnits
<1>1. PICK cents \in 0 .. 99 :
        cents = minorUnits % 100 /\ minorUnits = 100 * (minorUnits \div 100) + cents
  BY DigitsOf
<1>2. PICK tens \in Nat, ones \in 0 .. 9 :
        tens = cents \div 10 /\ ones = cents % 10 /\ cents = 10 * tens + ones
  BY DigitsOf
<1>3. PICK whole \in Nat : whole = minorUnits \div 100
  BY DigitsOf
<1>4. MinorUnitsToDecimalStr(minorUnits) =
        [negative |-> FALSE, whole |-> whole, decimals |-> <<tens, ones>>, clean |-> TRUE]
  <2>1. (minorUnits % 100) \div 10 = tens /\ minorUnits % 10 = ones
    BY <1>1, <1>2
  <2> QED BY <1>3, <2>1 DEF MinorUnitsToDecimalStr
<1>5. /\ Decimal(MinorUnitsToDecimalStr(minorUnits), 1) = tens
      /\ Decimal(MinorUnitsToDecimalStr(minorUnits), 2) = ones
      /\ WholeUnits(MinorUnitsToDecimalStr(minorUnits)) = whole
      /\ tens \in Digits /\ ones # Space
  BY <1>2, <1>4 DEF Decimal, WholeUnits, Digits, Space
<1>6. DecimalStrToMinorUnits(MinorUnitsToDecimalStr(minorUnits)) = 100 * whole + 10 * tens + ones
  BY <1>5 DEF DecimalStrToMinorUnits, Cents
<1> QED BY <1>1, <1>2, <1>3, <1>6

-----------------------------------------------------------------------------
(* The inductive invariant                                                 *)

\* Between its check and its record, a call knows that none of the calls accepted
\* before it began has its id.
FreshAgainstEarlier(m) ==
  \A n \in earlier[m] :
    call[m].store /\ call[n].store => call[m].endToEndId # call[n].endToEndId

CallInv(m) ==
  /\ earlier[m] \subseteq Accepted
  /\ validator[m] \in {"checking", "recording"} => call[m].store
  /\ validator[m] \in {"checking", "recording", "ACCEPTED"} =>
       /\ call[m].endToEndId # Blank
       /\ call[m].wellFormed /\ AmountIsPositive(call[m])
  /\ validator[m] \in {"recording", "ACCEPTED"} => FreshAgainstEarlier(m)

MessagingInv ==
  /\ MessagingTypeInvariant
  /\ SeenIsAccepted
  /\ \A m \in Messages : CallInv(m)
  /\ DeliveredIsBooked
  /\ ReturnsAreMatched

LEMMA CallsAreTyped ==
  ASSUME ValidationTypeInvariant, NEW m \in Messages
  PROVE  call[m] \in Calls
BY ValidationAssumption DEF ValidationTypeInvariant

LEMMA InvInit == MessagingInit => MessagingInv
<1> SUFFICES ASSUME MessagingInit PROVE MessagingInv
  OBVIOUS
<1> USE DEF MessagingInit, ValidationInit
<1>1. ValidationTypeInvariant
  BY DEF ValidationTypeInvariant, ValidatorPcs
<1>2. MessagingTypeInvariant
  BY <1>1, ReconciliationAssumption DEF MessagingTypeInvariant, TransferStates, Outcomes
<1>3. Accepted = {}
  BY DEF Accepted
<1>4. SeenIsAccepted /\ \A m \in Messages : CallInv(m)
  BY <1>3 DEF SeenIsAccepted, CallInv
<1>5. DeliveredIsBooked /\ ReturnsAreMatched
  BY DEF DeliveredIsBooked, ReturnsAreMatched
<1> QED BY <1>2, <1>4, <1>5 DEF MessagingInv

\* What the invariant says of the calls depends on the validation alone.
LEMMA CallInvUnchanged ==
  ASSUME UNCHANGED validationVars
  PROVE  /\ ValidationTypeInvariant => ValidationTypeInvariant'
         /\ SeenIsAccepted => SeenIsAccepted'
         /\ (\A m \in Messages : CallInv(m)) => (\A m \in Messages : CallInv(m))'
         /\ Accepted' = Accepted
BY DEF validationVars, ValidationTypeInvariant, SeenIsAccepted, CallInv, FreshAgainstEarlier,
       Accepted

\* A validation step keeps the invariant of the calls, and accepts no call twice.
LEMMA ValidationStep ==
  ASSUME ValidationTypeInvariant, SeenIsAccepted, \A m \in Messages : CallInv(m),
         ValidationNext
  PROVE  /\ ValidationTypeInvariant'
         /\ SeenIsAccepted'
         /\ \A m \in Messages : CallInv(m)'
         /\ Accepted \subseteq Accepted'
         /\ UNCHANGED call
<1>1. ASSUME NEW m \in Messages, Validate(m)
      PROVE  /\ ValidationTypeInvariant' /\ SeenIsAccepted'
             /\ \A n \in Messages : CallInv(n)'
             /\ Accepted \subseteq Accepted' /\ UNCHANGED call
  <2> DEFINE stage == StageOf(call[m])
  <2>1. call[m] \in Calls
    BY CallsAreTyped
  <2>2. /\ stage \in {"XSD", "FIELD_RULES", "BUSINESS_RULES", "checking", "ACCEPTED"}
        /\ stage \in {"checking", "ACCEPTED"} =>
             /\ call[m].wellFormed
             /\ FieldRulesHold(call[m]) /\ AmountIsPositive(call[m])
             /\ call[m].store <=> stage = "checking"
    BY DEF StageOf
  <2>3. /\ validator' = [validator EXCEPT ![m] = stage] /\ validator[m] = "idle"
        /\ earlier' = [earlier EXCEPT ![m] = Accepted]
        /\ call' = call /\ seen' = seen
    BY <1>1 DEF Validate
  <2> HIDE DEF stage
  <2>4. ValidationTypeInvariant'
    BY <2>2, <2>3 DEF ValidationTypeInvariant, ValidatorPcs, Stages, Accepted
  <2>5. /\ Accepted \subseteq Accepted' /\ Accepted' \subseteq Accepted \cup {m}
        /\ stage # "ACCEPTED" => Accepted' = Accepted
    BY <2>3 DEF ValidationTypeInvariant, Accepted
  <2>6. SeenIsAccepted'
    BY <2>2, <2>3, <2>5 DEF SeenIsAccepted
  <2>7. ASSUME NEW n \in Messages PROVE CallInv(n)'
    <3>1. CASE n # m
      BY <2>3, <2>5, <3>1 DEF CallInv, FreshAgainstEarlier, ValidationTypeInvariant
    <3>2. CASE n = m
      BY <2>2, <2>3, <2>5, <3>2
         DEF CallInv, FreshAgainstEarlier, ValidationTypeInvariant, FieldRulesHold
    <3> QED BY <3>1, <3>2
  <2> QED BY <2>3, <2>4, <2>5, <2>6, <2>7
<1>2. ASSUME NEW m \in Messages, CheckSeen(m)
      PROVE  /\ ValidationTypeInvariant' /\ SeenIsAccepted'
             /\ \A n \in Messages : CallInv(n)'
             /\ Accepted \subseteq Accepted' /\ UNCHANGED call
  <2>1. /\ validator[m] = "checking"
        /\ validator' = [validator EXCEPT ![m] = IF call[m].endToEndId \in seen
                                                 THEN "BUSINESS_RULES" ELSE "recording"]
        /\ earlier' = earlier /\ call' = call /\ seen' = seen
    BY <1>2 DEF CheckSeen
  <2>2. ValidationTypeInvariant'
    BY <2>1 DEF ValidationTypeInvariant, ValidatorPcs, Stages
  <2>3. Accepted' = Accepted
    BY <2>1 DEF ValidationTypeInvariant, Accepted
  <2>4. SeenIsAccepted'
    BY <2>1, <2>3 DEF SeenIsAccepted
  <2>5. validator'[m] = "recording" => FreshAgainstEarlier(m)
    BY <2>1 DEF ValidationTypeInvariant, SeenIsAccepted, CallInv, FreshAgainstEarlier
  <2>6. ASSUME NEW n \in Messages PROVE CallInv(n)'
    BY <2>1, <2>3, <2>5 DEF CallInv, FreshAgainstEarlier, ValidationTypeInvariant
  <2> QED BY <2>1, <2>2, <2>3, <2>4, <2>6
<1>3. ASSUME NEW m \in Messages, RecordId(m)
      PROVE  /\ ValidationTypeInvariant' /\ SeenIsAccepted'
             /\ \A n \in Messages : CallInv(n)'
             /\ Accepted \subseteq Accepted' /\ UNCHANGED call
  <2>1. /\ validator[m] = "recording"
        /\ validator' = [validator EXCEPT ![m] = "ACCEPTED"]
        /\ seen' = seen \cup {call[m].endToEndId}
        /\ earlier' = earlier /\ call' = call
    BY <1>3 DEF RecordId
  <2>2. call[m] \in Calls /\ call[m].store /\ call[m].endToEndId # Blank
    BY <2>1, CallsAreTyped DEF CallInv
  <2>3. ValidationTypeInvariant'
    BY <2>1, <2>2 DEF ValidationTypeInvariant, ValidatorPcs, Stages, Calls
  <2>4. Accepted' = Accepted \cup {m}
    BY <2>1 DEF ValidationTypeInvariant, Accepted
  <2>5. SeenIsAccepted'
    BY <2>1, <2>2, <2>4 DEF SeenIsAccepted
  <2>6. ASSUME NEW n \in Messages PROVE CallInv(n)'
    BY <2>1, <2>4 DEF CallInv, FreshAgainstEarlier, ValidationTypeInvariant
  <2> QED BY <2>1, <2>3, <2>4, <2>5, <2>6
<1> QED BY <1>1, <1>2, <1>3 DEF ValidationNext

-----------------------------------------------------------------------------
(* Statements                                                              *)

\* What a received statement confirms, and what it does not, stays so.
LEMMA ReceivedStays ==
  ASSUME NEW m \in Messages, NEW statuses, UNCHANGED call, received \in Seq(Statements),
         \/ UNCHANGED received
         \/ \E statement \in Statements : received' = Append(received, statement)
  PROVE  /\ ConfirmedAs(statuses, m) => ConfirmedAs(statuses, m)'
         /\ (\E s \in DOMAIN received : ~ConfirmedIn(received[s], statuses, m)) =>
              (\E s \in DOMAIN received : ~ConfirmedIn(received[s], statuses, m))'
<1>1. ASSUME NEW s \in DOMAIN received
      PROVE  s \in DOMAIN received' /\ received'[s] = received[s]
  OBVIOUS
<1>2. ASSUME NEW s \in DOMAIN received
      PROVE  ConfirmedIn(received[s], statuses, m)' <=> ConfirmedIn(received[s], statuses, m)
  <2> DEFINE statement == received[s]
  <2>1. received'[s] = statement
    BY <1>1
  <2> QED BY <2>1 DEF ConfirmedIn, Confirms, Names, Reference, Amount, Currency
<1>3. ConfirmedAs(statuses, m) => ConfirmedAs(statuses, m)'
  BY <1>1, <1>2 DEF ConfirmedAs
<1>4. ASSUME NEW s \in DOMAIN received, ~ConfirmedIn(received[s], statuses, m)
      PROVE  (\E t \in DOMAIN received : ~ConfirmedIn(received[t], statuses, m))'
  BY <1>1, <1>2, <1>4
<1> QED BY <1>3, <1>4

\* For a transfer with a reference, the entries that match are those that name it.
LEMMA MatchingIsNaming ==
  ASSUME NEW m \in Messages, NEW entry \in Entries, Reference(m) # Blank
  PROVE  Matches(entry, m) <=> Names(entry, m)
BY DEF Matches, StatementEntry, Names

\* An entry that agrees is one that confirms the transfer, and no other.
LEMMA AgreedConfirms ==
  ASSUME NEW m \in Messages, NEW entry \in Entries, Currency(m) \in Currencies
  PROVE  Agrees(StatementEntry(entry), m) <=> Confirms(entry, m)
<1>1. Says(entry.amount, Amount(m)) <=> DecimalStrToMinorUnits(entry.amount) = Amount(m)
  BY ReadingTruncates DEF Says, Entries
<1>2. entry.currency \in Currencies \cup {Unlisted, Absent} /\ "ZAR" \in Currencies
      /\ Unlisted \notin Currencies /\ Absent \notin Currencies
  BY DEF Entries, Currencies, Unlisted, Absent
<1> DEFINE parsed == StatementEntry(entry)
<1>3. /\ parsed.amountMinor = DecimalStrToMinorUnits(entry.amount)
      /\ parsed.currency = IF entry.currency \in Currencies THEN entry.currency ELSE "ZAR"
  BY DEF StatementEntry
<1>4. parsed.currency = Currency(m) <=>
        \/ entry.currency = Currency(m)
        \/ entry.currency \notin Currencies /\ Currency(m) = "ZAR"
  BY <1>2, <1>3
<1> QED BY <1>1, <1>3, <1>4 DEF Confirms, Agrees

\* reconcile_transfer raises over a statement that does not confirm the transfer, or
\* returns it by one that does: booked, or pending and then as it was.
LEMMA ReconciliationConfirms ==
  ASSUME MessagingInv, NEW m \in Messages, ReconcileTransfer(m)
  PROVE  /\ transfer[m] \in TransferStates \ {"ABSENT", "UNPARSED"}
         /\ \/ /\ Returns(m, "raised")
               /\ \E s \in DOMAIN received : ~ConfirmedIn(received[s], Reporting, m)
            \/ /\ Returns(m, IF transfer[m] = "SETTLING" THEN "DELIVERED" ELSE transfer[m])
               /\ ConfirmedAs(Booking, m)
            \/ Returns(m, transfer[m]) /\ ConfirmedAs({"PDNG"}, m)
<1>1. transfer[m] \in TransferStates \ {"ABSENT", "UNPARSED"}
  BY DEF MessagingInv, MessagingTypeInvariant, ReconcileTransfer
<1>2. Reference(m) # Blank
  BY <1>1 DEF MessagingInv, MessagingTypeInvariant, CallInv, Accepted, Reference
<1>3. PICK s \in DOMAIN received :
        \/ /\ ~Readable(received[s])
              \/ \A i \in DOMAIN received[s] : ~Matches(received[s][i], m)
           /\ Returns(m, "raised")
        \/ /\ Readable(received[s])
           /\ \E i \in DOMAIN received[s] :
                /\ FirstMatch(received[s], i, m)
                /\ LET entry == StatementEntry(received[s][i])
                   IN  Returns(m, IF Agrees(entry, m) THEN Reconciled(entry, m) ELSE "raised")
  BY DEF ReconcileTransfer
<1> DEFINE statement == received[s]
<1>4. statement \in Seq(Entries)
  BY ReconciliationAssumption DEF MessagingInv, MessagingTypeInvariant
<1>5. ASSUME NEW i \in DOMAIN statement
      PROVE  statement[i] \in Entries /\ (Matches(statement[i], m) <=> Names(statement[i], m))
  BY <1>2, <1>4, MatchingIsNaming
<1>6. CASE /\ ~Readable(statement) \/ \A i \in DOMAIN statement : ~Matches(statement[i], m)
           /\ Returns(m, "raised")
  <2>1. ~ConfirmedIn(statement, Reporting, m)
    BY <1>5, <1>6 DEF ConfirmedIn
  <2> QED BY <1>1, <1>6, <2>1
<1>7. CASE /\ Readable(statement)
           /\ \E i \in DOMAIN statement :
                /\ FirstMatch(statement, i, m)
                /\ LET entry == StatementEntry(statement[i])
                   IN  Returns(m, IF Agrees(entry, m) THEN Reconciled(entry, m) ELSE "raised")
  <2>1. PICK i \in DOMAIN statement :
          /\ FirstMatch(statement, i, m)
          /\ Returns(m, IF Agrees(StatementEntry(statement[i]), m)
                        THEN Reconciled(StatementEntry(statement[i]), m) ELSE "raised")
    BY <1>7
  <2> DEFINE entry == statement[i]
  <2>2. entry \in Entries /\ (Agrees(StatementEntry(entry), m) <=> Confirms(entry, m))
    <3>1. Currency(m) \in Currencies
      BY CallsAreTyped DEF MessagingInv, MessagingTypeInvariant, Currency, Calls
    <3> QED BY <1>5, <3>1, AgreedConfirms
  <2>3. Names(entry, m) /\ \A j \in 1 .. i - 1 : ~Names(statement[j], m)
    BY <1>4, <1>5, <2>1 DEF FirstMatch
  \* The entry decides alone.
  <2>4. ASSUME NEW statuses
        PROVE  ConfirmedIn(statement, statuses, m) <=>
                 Confirms(entry, m) /\ entry.status \in statuses
    <3>1. ASSUME NEW k \in DOMAIN statement, Names(statement[k], m),
                 \A j \in 1 .. k - 1 : ~Names(statement[j], m)
          PROVE  k = i
      BY <1>4, <2>3, <3>1
    <3> QED BY <1>7, <2>3, <3>1 DEF ConfirmedIn
  <2>5. CASE ~Confirms(entry, m)
    BY <1>1, <2>1, <2>2, <2>4, <2>5
  <2>6. CASE Confirms(entry, m) /\ entry.status \in Booking
    <3>1. Returns(m, IF transfer[m] = "SETTLING" THEN "DELIVERED" ELSE transfer[m])
      BY <2>1, <2>2, <2>6 DEF Reconciled, StatementEntry, Booking
    <3> QED BY <1>1, <2>4, <2>6, <3>1 DEF ConfirmedAs
  <2>7. CASE Confirms(entry, m) /\ entry.status = "PDNG"
    <3>1. Returns(m, transfer[m])
      BY <2>1, <2>2, <2>7 DEF Reconciled, StatementEntry, Absent
    <3> QED BY <1>1, <2>4, <2>7, <3>1 DEF ConfirmedAs
  <2>8. CASE Confirms(entry, m) /\ entry.status \notin Reporting
    <3>1. Returns(m, "raised")
      BY <2>1, <2>2, <2>8 DEF Reconciled, StatementEntry, Reporting, Booking
    <3>2. ~ConfirmedIn(statement, Reporting, m)
      BY <2>4, <2>8
    <3> QED BY <1>1, <3>1, <3>2
  <2> QED BY <2>5, <2>6, <2>7, <2>8 DEF Reporting, Booking
<1> QED BY <1>3, <1>6, <1>7

-----------------------------------------------------------------------------
(* Steps                                                                   *)

\* A step that moves no transfer to DELIVERED and returns nothing keeps what was
\* confirmed.
LEMMA NothingReturned ==
  ASSUME MessagingInv, UNCHANGED <<call, outcome>>,
         \A m \in Messages : transfer'[m] = "DELIVERED" => transfer[m] = "DELIVERED",
         \/ UNCHANGED received
         \/ \E statement \in Statements : received' = Append(received, statement)
  PROVE  DeliveredIsBooked' /\ ReturnsAreMatched'
<1>1. received \in Seq(Statements)
  BY DEF MessagingInv, MessagingTypeInvariant
<1>2. ASSUME NEW m \in Messages, NEW statuses
      PROVE  /\ ConfirmedAs(statuses, m) => ConfirmedAs(statuses, m)'
             /\ (\E s \in DOMAIN received : ~ConfirmedIn(received[s], statuses, m)) =>
                  (\E s \in DOMAIN received : ~ConfirmedIn(received[s], statuses, m))'
  BY <1>1, ReceivedStays
<1>3. DeliveredIsBooked'
  BY <1>2 DEF MessagingInv, DeliveredIsBooked
<1>4. ReturnsAreMatched'
  BY <1>2 DEF MessagingInv, ReturnsAreMatched
<1> QED BY <1>3, <1>4

LEMMA InvStep == MessagingInv /\ [MessagingNext]_messagingVars => MessagingInv'
<1> SUFFICES ASSUME MessagingInv, [MessagingNext]_messagingVars PROVE MessagingInv'
  OBVIOUS
<1>1. ASSUME ValidationNext, UNCHANGED reconciliationVars PROVE MessagingInv'
  <2>1. /\ ValidationTypeInvariant' /\ SeenIsAccepted' /\ \A m \in Messages : CallInv(m)'
        /\ Accepted \subseteq Accepted' /\ UNCHANGED call
    BY <1>1, ValidationStep DEF MessagingInv, MessagingTypeInvariant
  <2>2. MessagingTypeInvariant'
    BY <1>1, <2>1 DEF MessagingInv, MessagingTypeInvariant, reconciliationVars
  <2>3. DeliveredIsBooked' /\ ReturnsAreMatched'
    BY <1>1, <2>1, NothingReturned DEF reconciliationVars
  <2> QED BY <2>1, <2>2, <2>3 DEF MessagingInv
\* The other steps leave the validation alone.
<1>2. ASSUME UNCHANGED validationVars, MessagingTypeInvariant', DeliveredIsBooked',
             ReturnsAreMatched'
      PROVE  MessagingInv'
  BY <1>2, CallInvUnchanged DEF MessagingInv
<1>3. ASSUME NEW m \in Messages, Parse(m) PROVE MessagingInv'
  <2>1. MessagingTypeInvariant'
    BY <1>3, CallInvUnchanged
       DEF MessagingInv, MessagingTypeInvariant, Parse, Accepted, TransferStates
  <2>2. DeliveredIsBooked' /\ ReturnsAreMatched'
    BY <1>3, NothingReturned DEF Parse, validationVars, MessagingInv, MessagingTypeInvariant
  <2> QED BY <1>2, <1>3, <2>1, <2>2 DEF Parse
<1>4. ASSUME NEW m \in Messages, ParseRaises(m) PROVE MessagingInv'
  <2>1. MessagingTypeInvariant'
    BY <1>4, CallInvUnchanged
       DEF MessagingInv, MessagingTypeInvariant, ParseRaises, Accepted, TransferStates
  <2>2. DeliveredIsBooked' /\ ReturnsAreMatched'
    BY <1>4, NothingReturned DEF ParseRaises, validationVars, MessagingInv, MessagingTypeInvariant
  <2> QED BY <1>2, <1>4, <2>1, <2>2 DEF ParseRaises
<1>5. ASSUME NEW m \in Messages, GatewayMoves(m) PROVE MessagingInv'
  <2>1. PICK move \in {<<"INITIATED", "SETTLING">>, <<"SETTLING", "FAILED">>,
                       <<"FAILED", "SETTLING">>} :
          /\ transfer[m] = move[1]
          /\ transfer' = [transfer EXCEPT ![m] = move[2]]
    BY <1>5 DEF GatewayMoves
  <2> DEFINE next == move[2]
  <2>2. move[1] # "ABSENT" /\ next \in {"SETTLING", "FAILED"}
    <3>1. CASE move = <<"INITIATED", "SETTLING">>
      BY <3>1
    <3>2. CASE move = <<"SETTLING", "FAILED">>
      BY <3>2
    <3>3. CASE move = <<"FAILED", "SETTLING">>
      BY <3>3
    <3> QED BY <3>1, <3>2, <3>3
  <2>3. /\ transfer[m] # "ABSENT" /\ transfer' = [transfer EXCEPT ![m] = next]
        /\ UNCHANGED <<validationVars, received, outcome>>
    BY <1>5, <2>1, <2>2 DEF GatewayMoves
  <2> HIDE DEF next
  <2>4. MessagingTypeInvariant'
    BY <2>2, <2>3, CallInvUnchanged DEF MessagingInv, MessagingTypeInvariant, TransferStates
  <2>5. DeliveredIsBooked' /\ ReturnsAreMatched'
    BY <2>2, <2>3, NothingReturned DEF validationVars, MessagingInv, MessagingTypeInvariant
  <2> QED BY <1>2, <2>3, <2>4, <2>5
<1>6. ASSUME NEW m \in Messages, ReconcileTransfer(m) PROVE MessagingInv'
  <2>1. /\ UNCHANGED <<validationVars, received>>
        /\ received \in Seq(Statements)
    BY <1>6 DEF ReconcileTransfer, MessagingInv, MessagingTypeInvariant
  <2>2. ASSUME NEW n \in Messages, NEW statuses
        PROVE  /\ ConfirmedAs(statuses, n) => ConfirmedAs(statuses, n)'
               /\ (\E s \in DOMAIN received : ~ConfirmedIn(received[s], statuses, n)) =>
                    (\E s \in DOMAIN received : ~ConfirmedIn(received[s], statuses, n))'
    BY <2>1, ReceivedStays DEF validationVars
  <2>3. PICK result \in Outcomes \ {"none"} :
          /\ Returns(m, result)
          /\ \/ /\ result = "raised"
                /\ \E s \in DOMAIN received : ~ConfirmedIn(received[s], Reporting, m)
             \/ ConfirmedAs(Booking, m)
                /\ result = IF transfer[m] = "SETTLING" THEN "DELIVERED" ELSE transfer[m]
             \/ ConfirmedAs({"PDNG"}, m) /\ result = transfer[m]
    BY <1>6, ReconciliationConfirms DEF TransferStates, Outcomes
  <2>4. MessagingTypeInvariant'
    BY <1>6, <2>1, <2>3, CallInvUnchanged, ReconciliationConfirms
       DEF MessagingInv, MessagingTypeInvariant, Returns, Outcomes, TransferStates
  <2>5. DeliveredIsBooked'
    BY <2>2, <2>3
       DEF MessagingInv, MessagingTypeInvariant, DeliveredIsBooked, Returns
  <2>6. ConfirmedAs(Booking, m)' \/ ConfirmedAs({"PDNG"}, m)' => ConfirmedAs(Reporting, m)'
    BY DEF ConfirmedAs, ConfirmedIn, Reporting
  <2>7. ReturnsAreMatched'
    BY <1>6, <2>2, <2>3, <2>6, ReconciliationConfirms
       DEF MessagingInv, MessagingTypeInvariant, ReturnsAreMatched, Returns, TransferStates
  <2> QED BY <1>2, <2>1, <2>4, <2>5, <2>7
<1>7. ASSUME ReceiveStatement PROVE MessagingInv'
  <2>1. MessagingTypeInvariant'
    BY <1>7, CallInvUnchanged, ReconciliationAssumption
       DEF MessagingInv, MessagingTypeInvariant, ReceiveStatement
  <2>2. DeliveredIsBooked' /\ ReturnsAreMatched'
    BY <1>7, NothingReturned DEF ReceiveStatement, validationVars
  <2> QED BY <1>2, <1>7, <2>1, <2>2 DEF ReceiveStatement
<1>8. ASSUME UNCHANGED messagingVars PROVE MessagingInv'
  <2>1. UNCHANGED <<validationVars, transfer, received, outcome>>
    BY <1>8 DEF messagingVars, reconciliationVars
  <2>2. MessagingTypeInvariant'
    BY <2>1, CallInvUnchanged DEF MessagingInv, MessagingTypeInvariant
  <2>3. DeliveredIsBooked' /\ ReturnsAreMatched'
    BY <2>1, NothingReturned DEF validationVars
  <2> QED BY <1>2, <2>1, <2>2, <2>3
<1> QED BY <1>1, <1>3, <1>4, <1>5, <1>6, <1>7, <1>8 DEF MessagingNext

-----------------------------------------------------------------------------
(* Theorems                                                                *)

\* The invariant of the accepted calls, the store, the transfers and the statements:
\* every reachable state of the validation and the reconciliation satisfies it.
THEOREM MessagingInvAlways == MessagingSpec => []MessagingInv
BY InvInit, InvStep, PTL DEF MessagingSpec

\* Every variable keeps its type, and only an accepted message has a transfer.
THEOREM MessagingTypesHold == MessagingSpec => []MessagingTypeInvariant
<1>1. MessagingInv => MessagingTypeInvariant
  BY DEF MessagingInv
<1> QED BY <1>1, MessagingInvAlways, PTL

\* The id store holds the ids of the accepted messages and no others: a rejection does
\* not use up an id.
THEOREM SeenAlwaysAccepted == MessagingSpec => []SeenIsAccepted
<1>1. MessagingInv => SeenIsAccepted
  BY DEF MessagingInv
<1> QED BY <1>1, MessagingInvAlways, PTL

\* With any number of validations at once, one that begins after a message of its id was
\* accepted is never accepted: is_seen cannot have missed the id.
THEOREM LateReuseAlwaysRejected == MessagingSpec => []LateReuseRejected
<1>1. MessagingInv => LateReuseRejected
  BY DEF MessagingInv, LateReuseRejected, CallInv, FreshAgainstEarlier, Accepted
<1> QED BY <1>1, MessagingInvAlways, PTL

\* A transfer is delivered only by a statement whose first entry for it is a booked one
\* of its amount and currency, whatever texts and statements came and in whatever order;
\* a text no schema would pass counts as the amount it is read as.
THEOREM DeliveredAlwaysBooked == MessagingSpec => []DeliveredIsBooked
<1>1. MessagingInv => DeliveredIsBooked
  BY DEF MessagingInv
<1> QED BY <1>1, MessagingInvAlways, PTL

\* reconcile_transfer returns a transfer only for a statement that agrees with it, in
\* SETTLING only for a pending entry, and raises only for one that does not agree.
THEOREM ReturnsAlwaysMatched == MessagingSpec => []ReturnsAreMatched
<1>1. MessagingInv => ReturnsAreMatched
  BY DEF MessagingInv
<1> QED BY <1>1, MessagingInvAlways, PTL

\* An accepted amount is at least a cent and what its text says, cut to the cent; written
\* and read again it is the same, for every number of digits.
THEOREM AmountsAlwaysExact == MessagingSpec => []AmountsAreExact
<1>1. MessagingInv => AmountsAreExact
  <2> SUFFICES ASSUME MessagingInv, NEW m \in Accepted
               PROVE  /\ Amount(m) >= 1
                      /\ Amount(m) = Thousandths(call[m].amount) \div 10
                      /\ DecimalStrToMinorUnits(MinorUnitsToDecimalStr(Amount(m))) = Amount(m)
    BY DEF AmountsAreExact
  <2>1. /\ m \in Messages /\ CallInv(m) /\ AmountIsPositive(call[m])
        /\ call[m].amount \in Texts
        /\ IsDecimal(call[m].amount) /\ Thousandths(call[m].amount) >= 0
    <3>1. m \in Messages /\ validator[m] = "ACCEPTED" /\ CallInv(m)
      BY DEF MessagingInv, Accepted
    <3>2. call[m] \in CallsOf[m] /\ call[m] \in Calls
      BY <3>1, CallsAreTyped DEF MessagingInv, MessagingTypeInvariant, ValidationTypeInvariant
    <3>3. call[m].wellFormed /\ AmountIsPositive(call[m])
      BY <3>1 DEF CallInv
    <3> QED BY <3>1, <3>2, <3>3, ValidationAssumption DEF Calls
  <2>2. ~call[m].amount.negative
    BY <2>1, NegativeReadsAsZero DEF AmountIsPositive
  <2>3. /\ Amount(m) \in Nat
        /\ Amount(m) = Thousandths(call[m].amount) \div 10
    BY <2>1, <2>2, ReadingTruncates DEF Amount
  <2>4. Amount(m) > 0
    BY <2>1 DEF AmountIsPositive, Amount
  <2> QED BY <2>3, <2>4, WritingIsExact
<1> QED BY <1>1, MessagingInvAlways, PTL
=============================================================================
