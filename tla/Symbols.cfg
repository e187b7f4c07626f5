CONSTANTS
    Threads <- MCThreads
    DLMAP_SIZE = 3
    MaxNext <- MCMaxNext
    Callers <- MCCallers
    NextSymbols = {"malloc", "cuGetProcAddress"}
    Drivers <- MCDrivers
    Versions = {11000, 12000, 12030}
    Since <- MCSince
SPECIFICATION Spec
INVARIANTS NoBypass NoNullCall VersionAsked NoDeadlock NvmlLoaded
PROPERTIES RecursionCaught
