\* Both commands, every list of up to two of two packages (repeats included),
\* arguments present or absent, every success or failure of each command.
CONSTANTS
    pa = pa
    pb = pb
    Packages <- MCPackages
    MaxPkgs = 3
    None = None
    UpdateAll = UpdateAll
    Sysupgrade = Sysupgrade
SPECIFICATION Spec
INVARIANT AnswerMatchesRuns
