CONSTANTS
    W = 4
    MaxOut = 8
    NaN = NaN
    Lits = {6, 7}
    Inputs <- MCInputs
INIT RangeInit
NEXT RangeNext
INVARIANT RangeExpandsSpans
