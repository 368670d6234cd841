CONSTANTS
    NCalls = 2
    Threads = {t1}
    JoinMaxSelected = 1
    KeepChoices = {FALSE}
    Budgets <- Dropped
SPECIFICATION Spec
CHECK_DEADLOCK FALSE
INVARIANT HungUpAlone
