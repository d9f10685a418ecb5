CONSTANTS
    ErrnoOf <- MCErrnoOf
    StrErrorName <- MCStrErrorName
    AbslErrnoToStatusCode <- MCAbslErrnoToStatusCode
    Names <- MCNames
    BadNames <- MCBadNames
    NameBytes <- MCNameBytes
    Lengths = {0, 3}
    Sizes = {0, 2, 16}
    MaxCalls = 3
    Absent = Absent
SPECIFICATION Spec
INVARIANT XAttrPassthrough
CHECK_DEADLOCK FALSE
