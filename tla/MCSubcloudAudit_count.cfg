\* The fail-count rule of spec.md 8 against the capped count.
CONSTANTS
    Subclouds <- MCSubclouds
    AvailFailMax = 2
    MaxChanges = 3
SPECIFICATION Spec
INVARIANT FailCountCountsUnreachableAudits
