\* try_count of a request timed out in two passes.
CONSTANTS
    Requests <- MCRequests
    MAX_RETRY <- MCMaxRetry
    MaxLost = 1
    TryCountBound <- MCTryCountBound
SPECIFICATION Spec
INVARIANT TryCountWithinMaxRetry
