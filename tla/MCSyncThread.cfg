\* Request processing and status reporting of one sync thread.
CONSTANTS
    Requests <- MCRequests
    MAX_RETRY <- MCMaxRetry
    MaxLost = 1
    TryCountBound <- MCTryCountBound
SPECIFICATION Spec
INVARIANT TypeOK
PROPERTY EveryRequestSettles
PROPERTY StatusConverges
