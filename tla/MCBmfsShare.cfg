CONSTANTS
    Names = {a, b, c}
    Contents = {x, y}
    End = end
    Deleted = deleted
    DirSize = 3
    HostBlocks = 6
    MaxMiB = 3
    SizeStrings <- MCSizeStrings
    Radix = 3
    Kilo = 4
    Modulus = 64
    BlockBytes = 4
SYMMETRY Symmetry
SPECIFICATION Spec
INVARIANT FilesNeverShareBlocks
