\* The master list an audit works from, taken from the shared cache.
CONSTANTS
    Subclouds <- MCSubclouds
    Resources <- MCResources
    MaxQueue = 2
    MaxChanges = 2
SPECIFICATION Spec
PROPERTY NoDeleteOfSteadyResource
