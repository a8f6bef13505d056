SPECIFICATION FairSpec
CONSTANTS
    Thread = {t1, t2, t3}
    Depth = 2
    MinSize = 1
    MaxSize = 2
    WordSize = 16
PROPERTIES ImplementsContract AcquireReturns
