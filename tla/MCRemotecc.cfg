CONSTANTS
    a = a
    b = b
    NRequests = 2
    Remotes = {a, b}
    FirstPeers <- APeerOrNone
    Budgets <- Scenarios
    OtherTasks <- Tasks
SPECIFICATION RemoteccSpec
CHECK_DEADLOCK FALSE
INVARIANTS RemoteccInv RecordsAsAsked ParksTheCallAsked NobodyListensInVain FeedbackInOrder ButtonSettles
PROPERTIES AcceptedIsAnswered OthersGoOn
