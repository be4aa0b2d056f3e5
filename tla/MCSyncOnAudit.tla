----------------------------- MODULE MCSyncOnAudit -----------------------------
(* Model-checking instance of SyncOnAudit: one audited subcloud, its sync *)
(* thread with one request, and the code's MAX_RETRY = 3.                 *)
EXTENDS SyncOnAudit

MCSubclouds == {"subcloud1"}
MCSynced == "subcloud1"
MCRequests == {1}
MCMaxRetry == 3
MCTryCountBound == 4
=============================================================================
