CONSTANTS
    Contacts = {c1}
    Extens = {x}
    Hinted = {x}
    Hints <- TwoHints
    Threads = {t1}
    MaxContacts = 1
    MaxQueue = 1
    Budgets <- DeregisterBudgets
SPECIFICATION Spec
CHECK_DEADLOCK FALSE
INVARIANT SkipsOnlyBootstrapped
