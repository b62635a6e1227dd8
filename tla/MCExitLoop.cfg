\* Panics in the billing phase, DB and config faults, and a failing one-time setup at start; stop_with_code stops the System.
CONSTANTS
    RestartTicks <- MCRestartTicks
    ActixFaults = TRUE
    SetupFaults = TRUE
    BindFaults = TRUE
SPECIFICATION Spec
INVARIANT TypeOK
PROPERTY FlagClearedAfterReset
