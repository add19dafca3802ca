SPECIFICATION FairSpec
CONSTANTS
    Workers = {w1, w2, w3}
    MaxTasks = 5
INVARIANTS
    NoLostWakeup
    DrainedWhenDestroyed
PROPERTIES
    ImplementsJobs
    TasksStart
    DestructorReturns
CHECK_DEADLOCK FALSE
