-------------------------------- MODULE Amounts --------------------------------
(***************************************************************************)
(* The two conversions of pain001.py between a text and integral minor     *)
(* units.  decimal_str_to_minor_units is also given the amounts of a       *)
(* statement, which no schema has looked at: it asks whether the whole     *)
(* part and the first two characters after the point are integers to       *)
(* int(), and nothing else.                                                *)
(***************************************************************************)
EXTENDS Integers, Sequences

\* The characters after the first point, up to a second one: a digit is itself.
Digits == 0 .. 9
Space == 10
Plus == 11
Minus == 12
Other == 13
Characters == 0 .. 13

\* A text whose whole part is an integer: "-12.5x" is
\* [negative |-> TRUE, whole |-> 12, decimals |-> <<5, Other>>, clean |-> TRUE].
Texts ==
  [negative : BOOLEAN,           \* the whole part has a minus, "-0" included
   whole : Nat, decimals : Seq(Characters),
   clean : BOOLEAN]              \* no space or "_" in the whole part, no second point

\* A character after the point; ljust pads the missing ones with "0".
Decimal(text, i) == IF i \in DOMAIN text.decimals THEN text.decimals[i] ELSE 0

\* What int() takes for the two characters: it strips spaces and reads a sign.
CentsReadable(text) ==
  \/ Decimal(text, 1) \in Digits /\ Decimal(text, 2) \in Digits \cup {Space}
  \/ Decimal(text, 1) \in {Space, Plus, Minus} /\ Decimal(text, 2) \in Digits

Cents(text) ==
  IF Decimal(text, 1) \in Digits
  THEN IF Decimal(text, 2) = Space THEN Decimal(text, 1)
                                   ELSE 10 * Decimal(text, 1) + Decimal(text, 2)
  ELSE IF Decimal(text, 1) = Minus THEN -Decimal(text, 2) ELSE Decimal(text, 2)

WholeUnits(text) == IF text.negative THEN -text.whole ELSE text.whole

\* Mutant: the cents are not padded, "0.5" is five cents.
UnpaddedToMinorUnits(text) ==
  100 * WholeUnits(text) + (IF Len(text.decimals) = 1 THEN Decimal(text, 1) ELSE Cents(text))

\* The cents are added whatever the sign, and everything after them is cut off.
DecimalStrToMinorUnits(text) == 100 * WholeUnits(text) + Cents(text)

MinorUnitsToDecimalStr(minorUnits) ==
  [negative |-> FALSE, whole |-> minorUnits \div 100,
   decimals |-> <<(minorUnits % 100) \div 10, minorUnits % 10>>, clean |-> TRUE]

-----------------------------------------------------------------------------
(* The reference the properties compare with.                              *)

IsDecimal(text) ==
  text.clean /\ \A i \in DOMAIN text.decimals : text.decimals[i] \in Digits

\* What a decimal says, in thousandths, a fourth decimal cut off.
Thousandths(text) ==
  LET size == 1000 * text.whole + 100 * Decimal(text, 1) + 10 * Decimal(text, 2)
                + Decimal(text, 3)
  IN  IF text.negative THEN -size ELSE size
=============================================================================
