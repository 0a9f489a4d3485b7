----------------------------- MODULE MCNodeMain -----------------------------
(* Model values for the run of NodeMain: one client, main's thread.        *)
EXTENDS NodeMain

CONSTANTS main, w1, t1, t2

MainOnly == {main}
OneWorker == {w1}
MainTasks == {t1, t2}
Nobody == {}
=============================================================================
