\* Two subclouds auditing one resource type against concurrent changes.
CONSTANTS
    Subclouds <- MCSubclouds
    Resources <- MCResources
    MaxQueue = 2
    MaxChanges = 2
SPECIFICATION Spec
INVARIANT TypeOK
PROPERTY AuditDeletesOnlyOutsideMasterView
PROPERTY Converges
