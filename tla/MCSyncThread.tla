----------------------------- MODULE MCSyncThread -----------------------------
(* Model-checking instance of SyncThread: two requests, the code's          *)
(* MAX_RETRY = 3, and try_count bounded one above it so that a second pass  *)
(* of timeouts on a request left in-progress is reachable.                  *)
EXTENDS SyncThread

MCRequests == {1, 2}
MCMaxRetry == 3
MCTryCountBound == 4
=============================================================================
