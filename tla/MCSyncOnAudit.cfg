\* The subcloud audit, and the sync thread reading the availability it publishes.
CONSTANTS
    Subclouds <- MCSubclouds
    Synced <- MCSynced
    AvailFailMax = 2
    MaxChanges = 3
    Requests <- MCRequests
    MAX_RETRY <- MCMaxRetry
    MaxLost = 0
    TryCountBound <- MCTryCountBound
SPECIFICATION Spec
INVARIANT TypeOK
PROPERTY OfflineOnlyAfterConsecutiveFailures
PROPERTY AvailabilityConverges
PROPERTY RequestsSettleOnceReachable
