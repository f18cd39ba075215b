----------------------------- MODULE MCRailRouter -----------------------------
(***************************************************************************)
(* Transfers approved for any rail, over every set of registered adapters  *)
(* and every corridor; all of them draw the one id there is, and so share  *)
(* a retry count.                                                          *)
(***************************************************************************)
EXTENDS RailRouter

MCIdOf == [r \in Requests |-> CHOOSE i \in Ids : TRUE]
=============================================================================
