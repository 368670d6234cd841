CONSTANTS
    a = a
    b = b
    c = c
    h = h
    Caller = a
    Callees = {b, c}
    Helpers = {h}
    Cisco = {a, b}
    Budgets <- Scenarios
SPECIFICATION Spec
CHECK_DEADLOCK FALSE
INVARIANTS CallInv VideoIsKept NoPhantomPane MirrorsAPeer PanesAgree
