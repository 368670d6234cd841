CONSTANTS
    Contacts = {c1, c2}
    Extens = {x}
    Hinted = {x}
    Hints <- ThreeHints
    Threads = {t1}
    MaxContacts = 2
    MaxQueue = 1
    Budgets <- LampsBudgets
SPECIFICATION Spec
CHECK_DEADLOCK FALSE
INVARIANTS LampInv BaselineHonest LampsCurrent SkipsOnlyBootstrapped
PROPERTY RefreshIsNoOp
SYMMETRY Symmetry
