CONSTANTS
    W = 4
    MaxOut = 8
    NaN = NaN
    OtherFile = OtherFile
    Listings <- MCListings
    Inputs <- MCRangeInputs
    IntTexts <- MCIntTexts
    StrTexts <- MCStrTexts
    EmptyStr = EmptyStr
    Text0 = Text0
    Text1 = Text1
    Text2 = Text2
    Held <- MCHeld
INIT Init
NEXT Next
INVARIANT NoIndexPanic
