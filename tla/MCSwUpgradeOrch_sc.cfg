\* Strategies with the SystemController step in stage 1: its worker writes
\* the step concurrently with apply().
CONSTANTS
    Subclouds <- MCSubclouds
    MaxParallel <- MCMaxParallel
    SystemControllerStep = TRUE
    MaxRestarts = 1
SPECIFICATION Spec
PROPERTY StrategyTerminates
