CONSTANTS
    W = 4
    MaxOut = 8
    NaN = NaN
    Lits = {0, 1, 2}
    Inputs <- MCInputs
SPECIFICATION RangeFairSpec
PROPERTY RangeRefinesSpec
