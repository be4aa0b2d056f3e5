\* Strategies without a SystemController step: subcloud stages run in order.
CONSTANTS
    Subclouds <- MCSubclouds
    MaxParallel <- MCMaxParallel
    SystemControllerStep = FALSE
    MaxRestarts = 1
SPECIFICATION Spec
INVARIANT TypeOK
INVARIANT StageOrder
INVARIANT StopOnFailureHonoured
INVARIANT VerdictMatchesSteps
PROPERTY StrategyTerminates
PROPERTY ImplementsLifecycle
