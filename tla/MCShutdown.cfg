CONSTANTS
    N = 2
    Main = main
    Daemon = daemon
    MaxSamples = 2
    MaxSignals = 2
SPECIFICATION FairSpec
INVARIANTS
    SamplesAreKept
PROPERTIES
    SignalEndsProgram
CHECK_DEADLOCK FALSE
