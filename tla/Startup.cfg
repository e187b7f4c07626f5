CONSTANTS
    Word = 16
    Kilo = 2
    Apps = {"a", "b", "c"}
    Tool = "t"
    Cast <- MCCast
    Env <- MCEnv
    Override <- MCOverride
    None = "none"
    Outsider <- MCOutsider
    MaxTrials = 1
    MaxKills = 1
    MaxRestarts = 1
SPECIFICATION Spec
CHECK_DEADLOCK FALSE
INVARIANTS ParsedExactly ReadyBeforeUse OneDetector HostPidRight FoundHasHostPid StoppedStays
PROPERTIES LimitsFixed PostInitEnds SuspendEnds
