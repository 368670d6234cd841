CONSTANTS
    Contacts = {c1, c2}
    Extens = {x}
    Hinted = {x}
    Hints <- TwoHints
    Threads = {t1}
    MaxContacts = 2
    MaxQueue = 1
    Budgets <- PartialBudgets
SPECIFICATION Spec
CHECK_DEADLOCK FALSE
INVARIANT BaselineIsOnTheWire
