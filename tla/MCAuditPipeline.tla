---------------------------- MODULE MCAuditPipeline ----------------------------
(***************************************************************************)
(* A transfer whose compliance findings are escalated (two records) and    *)
(* one the entry rejects (one record), on one producer and one topic.      *)
(***************************************************************************)
EXTENDS AuditPipeline

CONSTANTS escalated, rejected

MCTransfers == {escalated, rejected}

MCTrails ==
  [t \in MCTransfers |->
     IF t = escalated THEN <<"compliance_sentinel", "orchestrator">> ELSE <<"orchestrator">>]

MCOutcomes == [t \in MCTransfers |-> IF t = escalated THEN "PENDING_REVIEW" ELSE "REJECTED"]
=============================================================================
