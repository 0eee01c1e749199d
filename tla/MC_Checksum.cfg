\* One captured header per behaviour, handled again each time it is
\* re-injected; a header no rule names is delivered and the behaviour ends.
CONSTANTS
    Bytes <- MCBytes
    HdrLens <- MCHdrLens
    Rules <- MCRules
    Empty = "none"
    CkPos = 1
    SrcPos = 3
    DstPos = 5
SPECIFICATION Spec
CHECK_DEADLOCK FALSE
INVARIANT TypeOK
INVARIANT CksumMatchesReference
INVARIANT RewrittenHeaderVerifies
PROPERTY ForwardFirstMatch
