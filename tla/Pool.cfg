SPECIFICATION FairSpec
CONSTANTS
    w1 = w1
    w2 = w2
    c1 = c1
    c2 = c2
    t1 = t1
    t2 = t2
    t3 = t3
    NoTask = NoTask
    Workers = {w1, w2}
    Callers = {c1, c2}
    Tasks = {t1, t2, t3}
    WithId = {t2, t3}
INVARIANTS
    TypeOK
    TasksAccounted
    NoSleepOverTask
    DrainedAtEnd
    FirstComeFirstServed
PROPERTIES
    TaskIsExecuted
    DestructorReturns
CHECK_DEADLOCK FALSE
