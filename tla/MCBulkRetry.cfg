CONSTANTS
    Contacts = {c1}
    Threads = {t1}
    MaxContacts = 1
    Procs = {p1}
    InitDb <- AllOff
    MaxQueue = 1
    Budgets <- RetryBudgets
SPECIFICATION Spec
CHECK_DEADLOCK FALSE
INVARIANT NextRegisterRetries
