SPECIFICATION DSpec
CONSTANTS
    a = a
    b = b
    first = first
    second = second
    on = on
    off = off
    None = None
    FrameIds = {a, b}
    NibbleBits = 1
    WordBits = 4
    MaxData = 2
    Documents <- MCDocuments
    Carried <- MCCarried
    MaxTime = 3
    Wrap = 100
    MaxLoads = 2
INVARIANTS
    NamesStayValid
