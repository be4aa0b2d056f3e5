\* The near-expiry test against the strict comparison of spec.md 4.1.
CONSTANTS
    StaleMin = 300
    StaleMax = 480
    StaleStep = 20
    TokenLife = 600
    TickStep = 20
    Horizon <- MCHorizon
SPECIFICATION Spec
PROPERTY NearExpiryAsSpecified
