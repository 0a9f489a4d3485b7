--------------------------- MODULE MCTaskRuntime ---------------------------
(* Model values and symmetry for the runs of TaskRuntime.                  *)
EXTENDS TaskRuntime, TLC

CONSTANTS c1, c2, w1, w2, t1, t2, t3

ClientPair == {c1, c2}
AllActors == {c1, c2, w1, w2}
OneWorker == {w1}
TwoWorkers == {w1, w2}
TwoTasks == {t1, t2}
ThreeTasks == {t1, t2, t3}
LastEmpty == {t2}
Nobody == {}
OnlyOwner == {c1}
SecondClient == {c2}
OwnerAndExecutors == {c1, w1, w2}

\* The two threads start() may create, and the tasks of one kind, are
\* interchangeable: no constant names one of them.
WorkerSymmetry == Permutations({w1, w2})
=============================================================================
