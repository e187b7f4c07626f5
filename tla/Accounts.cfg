CONSTANTS
    Threads = {t1, t2}
    Devs = {0, 1}
    Maps <- MCMaps
    Limits <- MCLimits
    Physical = 8
    Word = 64
    ContextSize = 2
    Sizes = {1, 2}
    Addrs = {a1, a2}
    Granule = 2
    Others <- MCOthers
    MaxRefs = 2
    MaxFouls = 1
CONSTRAINT Apart
SYMMETRY ThreadSymmetry
SPECIFICATION Spec
INVARIANTS ContextChargedOnce NoUnderflow PoolNotOvercharged PoolCovered QueriesAgree
