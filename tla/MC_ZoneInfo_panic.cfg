CONSTANTS
    NodeW = NodeW
    ZoneW = ZoneW
    N0 = N0
    N1 = N1
    Dma = Dma
    Normal = Normal
    Zo = Zo
    Pages = Pages
    Words <- MCWords
    Lines <- MCLines
    MaxLines = 3
INIT Init
NEXT Next
INVARIANT
    ZoneNeverPanics
