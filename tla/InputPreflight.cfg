SPECIFICATION Spec
CONSTANTS
    o1 = o1
    o2 = o2
    o3 = o3
    Objects = {o1, o2, o3}
    Leaf = leaf
    MaxKeys = 2
    Arguments <- MCArguments
    Limits <- MCLimits
CHECK_DEADLOCK FALSE
INVARIANT TypeOK
INVARIANT WorkIsBounded
PROPERTY PreflightDecides
