\* The owner starts, stops and destroys; an executor may stop too, and may
\* wait for a task, its own included.
SPECIFICATION FairSpec
CONSTANTS
    c1 = c1  c2 = c2  w1 = w1  w2 = w2  t1 = t1  t2 = t2  t3 = t3
    Clients <- ClientPair
    Workers <- TwoWorkers
    Tasks <- TwoTasks
    EmptyTasks <- LastEmpty
    Owner = c1
    Starters <- OnlyOwner
    Stoppers <- OwnerAndExecutors
    Waiters <- AllActors
    NoWorker = NoWorker  NoTask = NoTask  NoActor = NoActor
PROPERTIES
    QueuedTasksComplete StopReturns
CHECK_DEADLOCK FALSE
