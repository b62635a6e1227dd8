\* A panic after a successful setup, then a DB outage.
CONSTANTS
    RestartTicks <- MCRestartTicks
    ActixFaults = TRUE
    SetupFaults = FALSE
    BindFaults = FALSE
SPECIFICATION Spec
PROPERTY NoFailoverCrash
