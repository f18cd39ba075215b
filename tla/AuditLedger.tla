------------------------------ MODULE AuditLedger ------------------------------
(***************************************************************************)
(* What the audit pipeline promises an auditor: a ledger to which records  *)
(* are only ever added, each at most once, and each after the records of   *)
(* the same transfer that came before it -- unless the bus lost those,     *)
(* with its own storage, before anybody could read them.                   *)
(***************************************************************************)
EXTENDS Naturals, Sequences

CONSTANT Records    \* each [transfer, turn]: the turn-th record of a transfer

VARIABLES
  ledger,    \* Seq(Records): the audit_records table, by id
  gone       \* SUBSET Records: destroyed with the topic's storage, never stored

Listed == {ledger[i] : i \in DOMAIN ledger}

Earlier(rec) == {other \in Records : other.transfer = rec.transfer /\ other.turn < rec.turn}

Init == ledger = <<>> /\ gone = {}

Add(rec) ==
  /\ rec \notin Listed \cup gone
  /\ Earlier(rec) \subseteq Listed \cup gone
  /\ ledger' = Append(ledger, rec)
  /\ UNCHANGED gone

Lose(recs) ==
  /\ recs \cap Listed = {}
  /\ gone' = gone \cup recs
  /\ UNCHANGED ledger

Next ==
  \/ \E rec \in Records : Add(rec)
  \/ \E recs \in SUBSET Records : Lose(recs)

Spec == Init /\ [][Next]_<<ledger, gone>>
=============================================================================
