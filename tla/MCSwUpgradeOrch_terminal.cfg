\* A late SystemController worker overwrites a step apply() already failed.
CONSTANTS
    Subclouds <- MCSubclouds
    MaxParallel <- MCMaxParallel
    SystemControllerStep = TRUE
    MaxRestarts = 1
SPECIFICATION Spec
PROPERTY TerminalStepStable
