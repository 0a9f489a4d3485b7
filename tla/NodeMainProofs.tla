--------------------------- MODULE NodeMainProofs ---------------------------
(***************************************************************************)
(* Theorems about nodeEngine's main(), for any threads and tasks: it uses  *)
(* the runtime as TaskRuntime allows, and never ends in disorder.          *)
(***************************************************************************)
EXTENDS NodeMain, TaskRuntimeProofs

-----------------------------------------------------------------------------
(* main() is one of the runtime's callers.                                 *)

\* Every step of the program is a step of the runtime, or main's own.
LEMMA MainStepsRuntime == [MainNext]_mainVars => [Next]_vars
  <1>1. ASSUME MainCall PROVE Next
    <2>1. Owner \in Actors
      BY ActorAssumption DEF Actors
    <2>2. first \in Tasks /\ second \in Tasks
      BY MainAssumption
    <2> QED BY <1>1, <2>1, <2>2
            DEF MainCall, Next, StartStep, HandleStep, StopStep, DestroyStep
  <1>2. ASSUME MainContinue PROVE Next
    <2>1. Owner \in Actors
      BY ActorAssumption DEF Actors
    <2> QED BY <1>2, <2>1
            DEF MainContinue, MainReturnFromGet, RuntimeStep, Next, StartStep,
                HandleStep, StopStep, DestroyStep
  <1>3. ASSUME WorkerContinue PROVE Next
    BY <1>3 DEF WorkerContinue, Next
  <1>4. UNCHANGED mainVars => UNCHANGED vars
    BY DEF mainVars
  <1> QED BY <1>1, <1>2, <1>3, <1>4 DEF MainNext

\* The program is an instance of the runtime with its callers, so that
\* everything proved of the runtime, its contract included, holds in main.
THEOREM MainUsesRuntime == MainSpec => Spec
  <1>1. MainSpec => MainInit /\ [][MainNext]_mainVars
    BY PTL DEF MainSpec
  <1>2. MainInit => Init
    BY DEF MainInit
  <1> QED BY <1>1, <1>2, MainStepsRuntime, PTL DEF Spec

-----------------------------------------------------------------------------
(* main() is orderly.                                                      *)

\* Which call main is in, given its next statement, while it has not aborted;
\* nobody else calls the runtime.
MainPlace ==
    /\ \A a \in Actors \ {Owner} : pc[a] = "idle"
    /\ at \in {"start", "submit1", "get1", "submit2", "get2", "stop", "return",
               "end", "aborted"}
    /\ at = "start" => pc[Owner] = "idle"
    /\ at = "submit1" => pc[Owner] \in {"spawn", "assign", "idle"}
    /\ at \in {"get1", "get2"} => pc[Owner] \in {"notifyOne", "idle"}
    /\ at \in {"submit2", "stop"} => pc[Owner] \in {"get", "idle"}
    /\ at = "return" =>
         pc[Owner] \in {"stop", "notifyAll", "join", "joining", "idle"}
    /\ at = "end" => pc[Owner] \in {"stop", "idle"}
    /\ IF at = "end" THEN life \in {"dying", "destroyed"} ELSE life = "alive"

Started ==
    \/ at \in {"submit1", "get1", "submit2", "get2", "stop"}
    \/ at = "return" /\ pc[Owner] = "stop"

Unthreaded ==
    \/ at \in {"start", "end"}
    \/ at = "submit1" /\ pc[Owner] \in {"spawn", "assign"}
    \/ at = "return" /\ pc[Owner] = "idle"

\* running is set from main's start to its stop, the thread object holds the
\* thread in between, and no thread takes from an empty queue.
MainThread ==
    at # "aborted" =>
        /\ running <=> Started
        /\ IF Unthreaded THEN handle = NoWorker ELSE handle \in Workers
        /\ pc[Owner] = "joining" => own[Owner] = handle
        /\ \A w \in Workers : wpc[w] = "decide" => queue # <<>> \/ ~running

FirstDone ==
    \/ at \in {"get2", "stop", "return", "end"}
    \/ at = "submit2" /\ pc[Owner] = "idle"

SecondDone ==
    \/ at \in {"return", "end"}
    \/ at = "stop" /\ pc[Owner] = "idle"

\* What main has submitted, and what it has been told.
MainTold ==
    /\ printed \in [{first, second} -> Results \cup {"nothing"}]
    /\ at # "aborted" =>
        /\ accepted = IF at \in {"start", "submit1"} THEN <<>>
                      ELSE IF at \in {"get1", "submit2"} THEN <<first>>
                      ELSE <<first, second>>
        /\ pc[Owner] = "get" =>
             sub[Owner] = IF at = "submit2" THEN first ELSE second
        /\ FirstDone => promise[first] \in Results /\ printed[first] = promise[first]
        /\ SecondDone => /\ promise[second] = "value" /\ printed[second] = "value"
                         /\ queue = <<>> /\ taken = <<first, second>>

\* What makes MainIsOrderly inductive.
MainInv == MainPlace /\ MainThread /\ MainTold

\* The thread in the loop is the only one: none before the thread object is
\* assigned but the one that start() has just created.
LEMMA OneLiveThread ==
    ASSUME TypeOK, ThreadInv, MainPlace, MainThread, at # "aborted",
           NEW v \in Workers, NEW w \in Workers, Live(v), Live(w)
    PROVE  v = w /\ at # "start" /\ ~(at = "submit1" /\ pc[Owner] = "spawn")
  <1>1. \A a \in Actors : pc[a] = "assign" =>
            a = Owner /\ at = "submit1" /\ handle = NoWorker
    BY DEF MainPlace, MainThread, Unthreaded
  <1>2. \A x \in Workers : x # NoWorker
    BY ActorAssumption DEF Actors
  <1>3. \A x \in Workers : Live(x) => x = handle \/ (\E a \in Actors : pc[a] = "assign" /\ own[a] = x)
    BY DEF ThreadInv, SingleConsumer
  <1>4. CASE pc[Owner] = "assign"
    BY <1>1, <1>2, <1>3, <1>4 DEF MainPlace
  <1>5. CASE pc[Owner] # "assign"
    <2>1. v = handle /\ w = handle
      BY <1>1, <1>3, <1>5
    <2> QED BY <1>2, <2>1 DEF MainThread, Unthreaded
  <1> QED BY <1>4, <1>5

\* When both tasks have their results the queue is empty and both were taken,
\* in order.
LEMMA BothTaken ==
    ASSUME TypeOK, CompletionInv, OrderInv, life # "destroyed",
           accepted = <<first, second>>,
           promise[first] \in Results, promise[second] \in Results
    PROVE  queue = <<>> /\ taken = <<first, second>>
  <1>1. /\ queue \in Seq(Tasks) /\ taken \in Seq(Tasks)
        /\ accepted = taken \o queue
    BY DEF TypeOK, OrderInv, FirstInFirstOut
  <1>2. queue = <<>>
    <2> SUFFICES ASSUME queue # <<>> PROVE FALSE
      OBVIOUS
    <2>1. Head(queue) \in Range(queue) /\ Head(queue) \in Tasks
      BY <1>1, TailOfInjective, HeadTailProperties DEF CompletionInv
    <2>2. promise[Head(queue)] = "pending"
      BY <2>1 DEF CompletionInv
    <2>3. promise[Head(queue)] # "none"
      BY <2>2
    <2>4. Head(queue) \in Range(accepted)
      BY <2>1, <2>3 DEF OrderInv
    <2>5. Head(queue) \in {first, second}
      BY <2>4 DEF Range
    <2> QED BY <2>2, <2>5 DEF Results
  <1>3. taken \o <<>> = taken
    BY <1>1, ConcatEmptySeq
  <1> QED BY <1>1, <1>2, <1>3

\* Two appends to the empty sequence make a pair.
LEMMA AppendToOne ==
    ASSUME NEW S, NEW x \in S, NEW y \in S
    PROVE  Append(<<x>>, y) = <<x, y>>
  <1> DEFINE s == Append(<<x>>, y)
             r == <<x, y>>
  <1>1. <<x>> \in Seq(S) /\ Len(<<x>>) = 1 /\ <<x>>[1] = x
    OBVIOUS
  <1>2. s \in Seq(S) /\ Len(s) = 2 /\ s[1] = x /\ s[2] = y
    BY <1>1, AppendProperties
  <1>3. r \in Seq(S) /\ Len(r) = 2 /\ r[1] = x /\ r[2] = y
    OBVIOUS
  <1> HIDE DEF s, r
  <1>4. \A i \in 1..Len(s) : s[i] = r[i]
    BY <1>2, <1>3
  <1>5. s = r
    BY <1>2, <1>3, <1>4, SeqEqual
  <1> QED BY <1>5 DEF s, r

\* A call that main begins keeps MainInv.
LEMMA MainCallKeeps ==
    ASSUME TypeOK, ThreadInv, OrderInv, MainInv, MainCall
    PROVE  MainInv'
  <1> USE ActorAssumption, MainAssumption
      DEF MainInv, MainPlace, MainThread, MainTold, Started, Unthreaded,
          FirstDone, SecondDone, Advance, TypeOK, Goto, Actors, Free,
          history, wvars, cvars
  <1>1. ASSUME NEW w \in Workers, Advance("start", "submit1"),
               StartFlag(Owner, w), UNCHANGED printed
        PROVE  MainInv'
    <2>1. \A v \in Workers : wpc[v] # "decide"
      BY <1>1, OneLiveThread DEF Live, InLoop
    <2>2. \A v \in Workers : wpc'[v] # "decide"
      BY <1>1, <2>1 DEF StartFlag
    <2> QED BY <1>1, <2>2 DEF StartFlag
  <1>2. ASSUME Advance("submit1", "get1"), Submit(Owner, first),
               UNCHANGED printed
        PROVE  MainInv'
    <2>1. accepted' = <<first>> /\ queue' # <<>>
      BY <1>2, AppendProperties, EmptySeq DEF Submit, AtBack
    <2> QED BY <1>2, <2>1 DEF Submit, Fresh
  <1>3. ASSUME Advance("submit2", "get2"), Submit(Owner, second),
               UNCHANGED printed
        PROVE  MainInv'
    <2>1. accepted' = <<first, second>> /\ queue' # <<>>
      <3>1. accepted = <<first>> /\ accepted' = Append(accepted, second)
        BY <1>3 DEF Submit
      <3>2. Append(<<first>>, second) = <<first, second>>
        BY AppendToOne
      <3>3. queue' = Append(queue, second) /\ queue \in Seq(Tasks)
        BY <1>3 DEF Submit, AtBack
      <3>4. queue' # <<>>
        BY <3>3, AppendProperties
      <3> QED BY <3>1, <3>2, <3>4
    <2>2. /\ promise[second] = "none"
          /\ promise' = [promise EXCEPT ![second] = "pending"]
      BY <1>3 DEF Submit, Fresh
    <2>3. promise[first] \in Results
      <3>1. FirstDone
        BY <1>3 DEF Submit
      <3> QED BY <1>3, <3>1
    <2>4. first # second /\ promise'[first] = promise[first]
      BY <2>2, <2>3 DEF Results
    <2> QED BY <1>3, <2>1, <2>4 DEF Submit, Fresh
  <1>4. ASSUME Advance("get1", "submit2"), Get(Owner, first), UNCHANGED printed
        PROVE  MainInv'
    BY <1>4 DEF Get
  <1>5. ASSUME Advance("get2", "stop"), Get(Owner, second), UNCHANGED printed
        PROVE  MainInv'
    BY <1>5 DEF Get
  <1>6. ASSUME Advance("stop", "return"), StopCall(Owner), UNCHANGED printed
        PROVE  MainInv'
    BY <1>6 DEF StopCall
  <1>7. ASSUME Advance("return", "end"), BeginDestroy, UNCHANGED printed
        PROVE  MainInv'
    BY <1>7 DEF BeginDestroy
  <1> QED BY <1>1, <1>2, <1>3, <1>4, <1>5, <1>6, <1>7 DEF MainCall

\* main goes on inside a call, or a call ends the process: never in
\* std::terminate, nor by joining a thread twice.
LEMMA MainContinueKeeps ==
    ASSUME TypeOK, ThreadInv, CompletionInv, OrderInv, MainInv,
           at # "aborted", MainContinue
    PROVE  MainInv'
  <1> USE ActorAssumption, MainAssumption
      DEF MainInv, MainPlace, MainThread, MainTold, Started, Unthreaded,
          FirstDone, SecondDone, TypeOK, Goto, Actors, Up, InLoop, history,
          wvars, cvars
  <1>1. CASE StartSpawn(Owner) /\ UNCHANGED <<at, printed>>
    BY <1>1 DEF StartSpawn
  <1>2. CASE StartAssign(Owner) /\ UNCHANGED <<at, printed>>
    BY <1>2 DEF StartAssign
  <1>3. CASE StartTerminates(Owner) /\ UNCHANGED <<at, printed>>
    BY <1>3 DEF StartTerminates
  <1>4. CASE StopFlag(Owner) /\ UNCHANGED <<at, printed>>
    BY <1>4 DEF StopFlag
  <1>5. CASE StopNotRunning(Owner) /\ UNCHANGED <<at, printed>>
    BY <1>5 DEF StopNotRunning
  <1>6. CASE StopNotify(Owner) /\ UNCHANGED <<at, printed>>
    BY <1>6 DEF StopNotify, NotifyAll
  <1>7. CASE StopSkipsJoin(Owner) /\ UNCHANGED <<at, printed>>
    BY <1>7 DEF StopSkipsJoin
  <1>8. CASE StopJoin(Owner) /\ UNCHANGED <<at, printed>>
    BY <1>8 DEF StopJoin
  <1>9. CASE StopJoined(Owner) /\ UNCHANGED <<at, printed>>
    BY <1>9 DEF StopJoined
  <1>10. CASE StopJoinsTwice(Owner) /\ UNCHANGED <<at, printed>>
    BY <1>10 DEF StopJoinsTwice
  <1>11. CASE SubmitReturn(Owner) /\ UNCHANGED <<at, printed>>
    <2>1. \A w \in Workers : wpc'[w] = "decide" => wpc[w] = "decide"
      BY <1>11 DEF SubmitReturn, NotifyOne
    <2> QED BY <1>11, <2>1 DEF SubmitReturn
  <1>12. CASE EndDestroy /\ UNCHANGED <<at, printed>>
    <2>1. /\ at = "end" /\ queue = <<>> /\ Range(queue) = {}
      BY <1>12 DEF EndDestroy, Range
    <2>2. promise' = promise /\ queue' = queue
      BY <1>12, <2>1 DEF EndDestroy
    <2> QED BY <1>12, <2>1, <2>2 DEF EndDestroy
  <1>13. CASE DestroyTerminates /\ UNCHANGED <<at, printed>>
    BY <1>13 DEF DestroyTerminates
  <1>14. CASE StartFails(Owner) /\ at' = "aborted" /\ UNCHANGED printed
    BY <1>14 DEF StartFails
  <1>15. CASE MainReturnFromGet
    <2>1. /\ pc[Owner] = "get" /\ at \in {"submit2", "stop"}
          /\ sub[Owner] = IF at = "submit2" THEN first ELSE second
          /\ promise[sub[Owner]] \in Results /\ life = "alive" /\ handle # NoWorker
      BY <1>15 DEF MainReturnFromGet, GetReturn
    <2>2. printed' = [printed EXCEPT ![sub[Owner]] = promise[sub[Owner]]]
      BY <1>15 DEF MainReturnFromGet
    <2>3. CASE at = "submit2"
      BY <1>15, <2>1, <2>2, <2>3 DEF MainReturnFromGet, GetReturn, Aborts
    <2>4. CASE at = "stop"
      <3>1. /\ promise[first] \in Results /\ promise[second] \in Results
            /\ accepted = <<first, second>>
        BY <2>1, <2>4
      <3>2. queue = <<>> /\ taken = <<first, second>>
        BY <2>1, <3>1, BothTaken
      <3> QED BY <1>15, <2>1, <2>2, <2>4, <3>1, <3>2
              DEF MainReturnFromGet, GetReturn, Aborts
    <2> QED BY <2>1, <2>3, <2>4
  <1> QED BY <1>1, <1>2, <1>3, <1>4, <1>5, <1>6, <1>7, <1>8, <1>9, <1>10,
             <1>11, <1>12, <1>13, <1>14, <1>15 DEF MainContinue, RuntimeStep

\* The worker's steps keep MainInv: it is the only thread in the loop, so
\* nobody empties the queue between its predicate and its pop.
LEMMA WorkerKeeps ==
    ASSUME TypeOK, ThreadInv, CompletionInv, OrderInv, MainInv,
           at # "aborted", WorkerContinue
    PROVE  MainInv'
  <1> USE ActorAssumption, MainAssumption
      DEF MainInv, MainPlace, MainThread, MainTold, Started, Unthreaded,
          FirstDone, SecondDone, TypeOK, Actors, InLoop, history,
          wvars, cvars
  <1>1. PICK w \in Workers : LoopStep(w)
    BY DEF WorkerContinue
  <1>2. UNCHANGED <<at, printed>>
    BY DEF WorkerContinue
  <1>3. CASE Acquire(w)
    BY <1>2, <1>3 DEF Acquire, AfterPredicate
  <1>4. CASE SpuriousWakeup(w)
    BY <1>2, <1>4 DEF SpuriousWakeup
  <1>5. CASE Exit(w)
    BY <1>2, <1>5 DEF Exit
  <1>6. CASE Take(w)
    <2>1. \A v \in Workers : v # w => wpc[v] # "decide"
      BY <1>6, OneLiveThread DEF Take, Live
    <2>2. \A v \in Workers : wpc'[v] # "decide"
      BY <1>6, <2>1 DEF Take
    <2>3. ~SecondDone
      BY <1>6 DEF Take
    <2> QED BY <1>2, <1>6, <2>2, <2>3 DEF Take
  <1>7. CASE TakeNothing(w)
    BY <1>2, <1>7 DEF TakeNothing
  <1>8. ASSUME NEW r \in Results, Finish(w, r) PROVE MainInv'
    <2>1. /\ wtask[w] \in Tasks /\ promise[wtask[w]] = "pending"
          /\ promise' = [promise EXCEPT ![wtask[w]] = r]
      BY <1>8 DEF Finish, CompletionInv, CompletedOnce
    <2>2. \A t \in Tasks : promise[t] \in Results => promise'[t] = promise[t]
      BY <2>1 DEF Results
    <2> QED BY <1>2, <1>8, <2>2 DEF Finish, Results
  <1> QED BY <1>1, <1>3, <1>4, <1>5, <1>6, <1>7, <1>8
          DEF LoopStep, ExecutorReturns

\* MainInv holds at the start and is kept by every step.
LEMMA MainInductive ==
    /\ MainInit => MainInv
    /\ /\ TypeOK /\ ThreadInv /\ CompletionInv /\ OrderInv /\ MainInv
       /\ [MainNext]_mainVars
       => MainInv'
  <1>1. MainInit => MainInv
    BY ActorAssumption
       DEF MainInit, Init, MainInv, MainPlace, MainThread, MainTold, Started,
           Unthreaded, FirstDone, SecondDone, Actors
  <1>2. ASSUME TypeOK, ThreadInv, CompletionInv, OrderInv, MainInv,
               [MainNext]_mainVars
        PROVE  MainInv'
    <2>1. CASE UNCHANGED mainVars
      BY <1>2, <2>1
         DEF mainVars, vars, MainInv, MainPlace, MainThread, MainTold,
             Started, Unthreaded, FirstDone, SecondDone
    <2> QED BY <1>2, <2>1, MainCallKeeps, MainContinueKeeps, WorkerKeeps
            DEF MainNext
  <1> QED BY <1>1, <1>2

\* Whatever its tasks do and however its threads are scheduled, main never
\* ends in std::terminate or undefined behaviour, and when it has ended it has
\* printed the results of both tasks, taken in order, with no thread left.
THEOREM MainEndsInOrder == MainSpec => []MainIsOrderly
  <1>1. TypeOK /\ ThreadInv /\ MainInv => MainIsOrderly
    BY DEF MainInv, MainPlace, MainTold, FirstDone, SecondDone, MainIsOrderly,
           ThreadInv, NoWorkerOutlivesQueue
  <1>2. MainSpec => MainInit /\ [][MainNext]_mainVars
    BY PTL DEF MainSpec
  <1>3. MainInit => Init
    BY DEF MainInit
  <1> QED BY <1>1, <1>2, <1>3, MainStepsRuntime, TypeInit, TypeStep,
             StartInductive, RootedInductive, ThreadInductive,
             CompletionInductive, OrderInductive, MainInductive, PTL
=============================================================================
