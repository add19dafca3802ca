SPECIFICATION FairSpec
CONSTANTS
    Workers = {w1, w2}
    Fds = {3, 4}
    MaxTasks = 3
INVARIANTS
    DescriptorsAccounted
    OneAnswer
    ClosedMeansAnswered
PROPERTY QueueMoves
CHECK_DEADLOCK FALSE
