CONSTANTS
    BufSize = 2
    Chars <- AllChars
    Nul <- Zero
    TblNoShift <- tbl_no_shift
    TblShift <- tbl_shift
    Upper <- to_upper
    Keys <- MCKeys
    MaxWire = 2
SPECIFICATION Spec
INVARIANT DriverAgreesWithKeyboard
PROPERTY TypesWhatWasMeant
