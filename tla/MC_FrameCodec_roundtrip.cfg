CONSTANTS
    b1 = b1
    b2 = b2
    b3 = b3
    Junk = Junk
    Funcs <- MCFuncs
    Blocks <- MCBlocks
    MaxIp = 2
    LpOffs = {2, 3}
SPECIFICATION Spec
\* The codec is one dump followed by one restore: it stops there.
CHECK_DEADLOCK FALSE
INVARIANT FrameRoundTrip
