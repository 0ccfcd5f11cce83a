\* Integers read in either byte order.
SPECIFICATION Spec
CONSTANTS
    b1 = b1
    b2 = b2
    Buffers = {b1, b2}
    ByteBase = 2
    Widths = {1, 2}
    ReadOrders = {FALSE, TRUE}
    InitSize = 1
    ExpandSize <- TwoBuffers
    SizeBits = 5
    MaxCapacity = 3
    MaxRequest = 2
PROPERTY
    AllReadsInLine
