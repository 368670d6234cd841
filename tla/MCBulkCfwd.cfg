CONSTANTS
    Contacts = {c1, c2}
    Threads = {t1}
    MaxContacts = 2
    Procs = {p1, p2}
    InitDb <- AllOff
    MaxQueue = 1
    Budgets <- CfwdBudgets
SPECIFICATION PushSpec
CHECK_DEADLOCK FALSE
INVARIANTS PushInv CfwdCurrent SkipsOnlyPushed
PROPERTIES PhonesFollowCfwd EveryPhoneIsSent
