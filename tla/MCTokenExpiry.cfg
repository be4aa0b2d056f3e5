\* The near-expiry test with the durations of dccommon/utils.py.
CONSTANTS
    StaleMin = 300
    StaleMax = 480
    StaleStep = 20
    TokenLife = 600
    TickStep = 20
    Horizon <- MCHorizon
SPECIFICATION Spec
INVARIANT TypeOK
PROPERTY RenewalWithinWindow
