CONSTANTS
    Contacts = {c1}
    Extens = {x, y}
    Hinted = {x}
    Hints <- TwoHints
    Threads = {t1}
    MaxContacts = 1
    MaxQueue = 1
    Budgets <- LiveBudgets
SPECIFICATION PushSpec
CHECK_DEADLOCK FALSE
INVARIANT PushInv
PROPERTIES ChangeReachesPhone LampsFollowHints EveryLampIsSent
