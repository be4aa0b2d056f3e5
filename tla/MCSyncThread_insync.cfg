\* The end-of-pass status report of sync().
CONSTANTS
    Requests <- MCRequests
    MAX_RETRY <- MCMaxRetry
    MaxLost = 1
    TryCountBound <- MCTryCountBound
SPECIFICATION Spec
PROPERTY InSyncReportedOnlyWhenClean
