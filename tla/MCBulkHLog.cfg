CONSTANTS
    Contacts = {c1}
    Threads = {t1}
    MaxContacts = 1
    Procs = {p1, p2}
    InitDb <- AllOff
    MaxQueue = 1
    Budgets <- HLogBudgets
SPECIFICATION Spec
CHECK_DEADLOCK FALSE
INVARIANT HuntGroupCurrent
