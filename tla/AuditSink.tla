------------------------------- MODULE AuditSink -------------------------------
(***************************************************************************)
(* What log_record promises the writers of audit records (the AuditLogger  *)
(* protocol, and kafka.py 3-6): a call that returns has put its record in  *)
(* the log; a writer whose call raises, or who dies in it, writes nothing  *)
(* more, and that one record may reach the log later or never.             *)
(*                                                                         *)
(* The gateway relies on this contract and the audit pipeline provides it: *)
(* both are shown to implement it.                                         *)
(***************************************************************************)
CONSTANTS
  Writers,   \* the threads that write, one for each transfer
  Records    \* what they may write

VARIABLES
  given,     \* [Writers -> SUBSET Records]: what each has handed to the sink
  held,      \* [Writers -> SUBSET Records]: what of it is in the log
  over       \* SUBSET Writers: those that write no more

sinkVars == <<given, held, over>>

Init ==
  /\ given = [w \in Writers |-> {}]
  /\ held = [w \in Writers |-> {}]
  /\ over = {}

\* A call that returns.
Record(w, rec) ==
  /\ w \notin over
  /\ given' = [given EXCEPT ![w] = @ \cup {rec}]
  /\ held' = [held EXCEPT ![w] = @ \cup {rec}]
  /\ UNCHANGED over

\* A writer hands over at most one record more, which reaches the log or does not.
HandsOverItsLast(w) ==
  /\ given'[w] = given[w] \/ \E rec \in Records : given'[w] = given[w] \cup {rec}
  /\ held'[w] \in {held[w], given'[w]}

\* Some writers have finished, see their calls raise, or die: all of them in a crash.
Stop(ws) ==
  /\ ws \cap over = {}
  /\ over' = over \cup ws
  /\ given' \in [Writers -> SUBSET Records] /\ held' \in [Writers -> SUBSET Records]
  /\ \A w \in ws : HandsOverItsLast(w)
  /\ \A w \in Writers \ ws : given'[w] = given[w] /\ held'[w] = held[w]

\* The record of a writer that gave up reaches the log after all.
Arrive(w) ==
  /\ w \in over
  /\ held' = [held EXCEPT ![w] = given[w]]
  /\ UNCHANGED <<given, over>>

Next ==
  \/ \E w \in Writers : Arrive(w) \/ \E rec \in Records : Record(w, rec)
  \/ \E ws \in SUBSET Writers : Stop(ws)

Spec == Init /\ [][Next]_sinkVars
=============================================================================
