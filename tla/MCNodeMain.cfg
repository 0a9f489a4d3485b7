\* main() of nodeEngine from entry to exit.
SPECIFICATION MainSpec
CONSTANTS
    main = main  w1 = w1  t1 = t1  t2 = t2
    first = t1  second = t2
    Clients <- MainOnly
    Workers <- OneWorker
    Tasks <- MainTasks
    EmptyTasks <- Nobody
    Owner = main
    Starters <- MainOnly
    Stoppers <- MainOnly
    Waiters <- MainOnly
    NoWorker = NoWorker  NoTask = NoTask  NoActor = NoActor
INVARIANTS
    MainIsOrderly
PROPERTIES
    MainEnds
CHECK_DEADLOCK FALSE
