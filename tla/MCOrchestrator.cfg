SPECIFICATION Spec
CONSTANTS
    EnablePython = {TRUE, FALSE}
    MaxRestarts = 2
    EventCap = 1
    MaxCmds = 2
    MaxSpawns = 1
    MaxRuns = 2
\* run() may have returned for good.
CHECK_DEADLOCK FALSE
INVARIANTS
    TypeOK
    LateCommands
    CrashesJustified
PROPERTIES
    AbortIsFinal
    KillEnds
    SilenceKills
