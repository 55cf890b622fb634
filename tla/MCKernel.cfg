CONSTANTS
    BufSize = 4
    Chars = {a, b, c}
    Nul = Nul
    Entries = 3
    MaxSnapshots = 5
    Gens = {1, 2}
    TickRange = 10
    Frequencies = {18, 20, 415, 20000, 20001}
    Durations = {50, 150, 400}
    Seconds = 12
    Minutes = 12
SPECIFICATION KernelSpec
INVARIANTS BufInv CodeGoesOn ArgumentsArrive
PROPERTIES
    BufferIsLossyQueue SnapshotIsExact RegsShowsLatestSnapshot DumpIsNotOlder
    BeepsAsAsked BeepEnds ShownTimeIsRight
