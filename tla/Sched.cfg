SPECIFICATION FairSpec
CONSTANTS
    Handler = {h1, h2}
    Main = main
    Config <- OnOff
    MaxStarts = 2
INVARIANTS SerialRestartIsSafe
PROPERTIES StopReturns TriggerServed
CHECK_DEADLOCK FALSE
