CONSTANTS
    NCalls = 3
    Threads = {t1, t2}
    JoinMaxSelected = 1
    KeepChoices = {FALSE, TRUE}
    Budgets <- Scenarios
SPECIFICATION Spec
CHECK_DEADLOCK FALSE
INVARIANTS ConfInv NobodyStranded MergeDropsNobody SelectedBounded RemovesOnRequest
PROPERTIES RmLastConfIsLast KeptConferenceStays
SYMMETRY Symmetry
