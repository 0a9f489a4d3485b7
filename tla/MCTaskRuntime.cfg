\* Two clients and two possible threads calling everything in any order.
SPECIFICATION Spec
CONSTANTS
    c1 = c1  c2 = c2  w1 = w1  w2 = w2  t1 = t1  t2 = t2  t3 = t3
    Clients <- ClientPair
    Workers <- TwoWorkers
    Tasks <- TwoTasks
    EmptyTasks <- LastEmpty
    Owner = c1
    Starters <- AllActors
    Stoppers <- AllActors
    Waiters <- AllActors
    NoWorker = NoWorker  NoTask = NoTask  NoActor = NoActor
INVARIANTS
    TypeOK FirstInFirstOut CompletedOnce SingleConsumer 
    NoWorkerOutlivesQueue StopDrains RunningHasWorker NoLostWakeup JoinsCanEnd
PROPERTIES KeepsContract
SYMMETRY WorkerSymmetry
CHECK_DEADLOCK FALSE
