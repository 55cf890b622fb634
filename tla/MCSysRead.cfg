CONSTANTS
    BufSize = 3
    Chars = {x, nl}
    Nul = Nul
    Newline = nl
    Counts <- MCCounts
    MaxWire = 1
    MaxBurst = 1
SPECIFICATION FairSpec
INVARIANTS WaitingCharsAreTyped NeverReadsNul NoWaitAfterReady
PROPERTIES ReadsAreQueueSteps WaitingCharIsRead
