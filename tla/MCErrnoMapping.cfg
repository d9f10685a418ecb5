CONSTANTS
    ErrnoOf <- MCErrnoOf
    StrErrorName <- MCStrErrorName
    AbslErrnoToStatusCode <- MCAbslErrnoToStatusCode
SPECIFICATION Spec
INVARIANT ErrnoPreserved
