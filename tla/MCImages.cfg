CONSTANTS
    Names = {a, b, c}
    Contents = {x, y}
    End = end
    Deleted = deleted
    DirSize = 3
    HostBlocks = 6
    MaxMiB = 3
    SizeStrings <- MCSizeStrings
    Radix = 3
    Kilo = 4
    Modulus = 64
    BlockBytes = 4
    BinarySizes = {1, 2, 3, 4}
    ModuleCounts = {0, 1, 2}
    BUFFER_SIZE = 2
    Alignment = 2
    BssSize = 3
    Targets <- MCTargets
    MemorySize = 28
    TornFiles = 1
    FormatEntries = 1
SYMMETRY Symmetry
SPECIFICATION ImagesSpec
INVARIANTS ReadsWhatWasWritten SuccessMeansComplete SizeIsWhatWasAsked ProgramStartsAsBuilt
PROPERTY CreatesInFreeBlocks
CHECK_DEADLOCK FALSE
