SPECIFICATION Spec
CONSTANTS
    c1 = c1
    c2 = c2
    a1 = a1
    a2 = a2
    Calls = {c1, c2}
    MayBe <- MCMayBe
    Attempts = {a1, a2}
    Redirects <- MCRedirects
    AttemptsMax = 1
    Rotations <- MCRotations
    HandlesMax = 2
    Nobody = Nobody
INVARIANT   StoresAgree
CHECK_DEADLOCK FALSE
