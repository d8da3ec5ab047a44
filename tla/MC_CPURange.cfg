CONSTANTS
    W = 4
    MaxOut = 8
    NaN = NaN
    Lits = {0, 1, 2}
    Inputs <- MCInputs
INIT RangeInit
NEXT RangeNext
INVARIANT RangeExpandsSpans
PROPERTY AppendsWithinSpan
