------------------------ MODULE MCComplianceChain ------------------------
(* ComplianceChain on one maintenance id: ids share nothing but the completer. *)
EXTENDS ComplianceChain

\* The statuses update_status is asked for when nobody sets Compliant by hand.
WorkflowUpdates == {"Open", "Submitted", "PendingApproval", "Rejected", "PendingAudit"}
=============================================================================
