SPECIFICATION Spec
CONSTANTS
    Length = 2
    Posts = {p1}
    Names = {n1, n2}
    NoPost = none
    MaxAttempts = 1
    MaxRestores = 1
CHECK_DEADLOCK FALSE
INVARIANTS NoDuplicateImport
