CONSTANTS
    Entries = 3
    MaxSnapshots = 5
SPECIFICATION Spec
PROPERTY DumpIsTheException
