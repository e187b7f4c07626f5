CONSTANTS
    Threads = {t1, t2}
    Grids = {2, 7}
    Word = 8
    Utils = {50, 60, 101}
    SmLimits = {50, 100, 120}
    SmNum = 1
    MaxThread = 1
    FACTOR = 1
    Scale = 5
    MaxTotal = 2
SPECIFICATION Spec
INVARIANTS DebtAtMostOneKernel TokensWithinTotal NoLaunchForgotten BlockHolds
PROPERTIES SomeoneLaunches
