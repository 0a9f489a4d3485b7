------------------------------ MODULE NodeMain ------------------------------
(***************************************************************************)
(* nodeEngine's main(): the program that exists today on top of the task   *)
(* runtime.  One thread starts the system, submits a task and waits for    *)
(* it, submits and waits for a second one, stops the system and returns,   *)
(* which destroys it.  The executors are plain lambdas: they make no call  *)
(* on the runtime.                                                         *)
(***************************************************************************)
EXTENDS TaskRuntime

CONSTANTS first, second     \* the two tasks, in program order

ASSUME MainAssumption == {first, second} \subseteq Tasks

VARIABLES
    at,          \* main's next statement
    printed      \* what main has received from get(), per task

mainVars == <<vars, at, printed>>

MainInit ==
    /\ Init
    /\ at = "start"
    /\ printed = [t \in {first, second} |-> "nothing"]

Advance(from, to) == at = from /\ at' = to

\* Statements of main that begin a call on the runtime.
MainCall ==
    /\ UNCHANGED printed
    /\ \/ Advance("start", "submit1") /\ \E w \in Workers : StartFlag(Owner, w)
       \/ Advance("submit1", "get1") /\ Submit(Owner, first)
       \/ Advance("get1", "submit2") /\ Get(Owner, first)
       \/ Advance("submit2", "get2") /\ Submit(Owner, second)
       \/ Advance("get2", "stop") /\ Get(Owner, second)
       \/ Advance("stop", "return") /\ StopCall(Owner)
       \/ Advance("return", "end") /\ BeginDestroy

NeverAborts == FALSE     \* mutant: both calls of get() are inside the try

\* An exception that leaves main ends the process: start() throwing, or the
\* second get(), which is outside the try block.
Aborts == at = "stop" /\ promise[second] # "value"

MainReturnFromGet ==
    /\ GetReturn(Owner)
    /\ printed' = [printed EXCEPT ![sub[Owner]] = promise[sub[Owner]]]
    /\ at' = IF Aborts THEN "aborted" ELSE at

MainContinue ==
    \/ /\ RuntimeStep(Owner) \/ EndDestroy \/ DestroyTerminates
       /\ UNCHANGED <<at, printed>>
    \/ MainReturnFromGet
    \/ StartFails(Owner) /\ at' = "aborted" /\ UNCHANGED printed

WorkerContinue ==
    /\ \E w \in Workers : LoopStep(w)
    /\ UNCHANGED <<at, printed>>

MainNext == at # "aborted" /\ (MainCall \/ MainContinue \/ WorkerContinue)

MainSpec ==
    /\ MainInit /\ [][MainNext]_mainVars
    /\ WF_mainVars(at # "aborted" /\ (MainCall \/ MainContinue))
    /\ \A w \in Workers :
         /\ WF_mainVars(at # "aborted" /\ RunStep(w)
                           /\ UNCHANGED <<at, printed>>)
         /\ WF_mainVars(at # "aborted" /\ ExecutorReturns(w)
                           /\ UNCHANGED <<at, printed>>)

-----------------------------------------------------------------------------
\* main always reaches the end of its scope (or is ended by an exception):
\* neither get() nor stop() nor the destructor waits for ever.
MainEnds == <>(life = "destroyed" \/ at = "aborted")

\* The process never ends in std::terminate from a thread object, nor in
\* undefined behaviour, and what main printed are the tasks' own results,
\* the second one a value.
MainIsOrderly ==
    /\ life \notin {"terminated", "undefined"}
    /\ life = "destroyed" =>
         /\ printed[first] = promise[first] /\ printed[second] = "value"
         /\ taken = <<first, second>>
         /\ \A w \in Workers : ~Live(w)
=============================================================================
