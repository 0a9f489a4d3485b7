--------------------------- MODULE TaskStopProofs ---------------------------
(***************************************************************************)
(* What stop(), start() and the notifications promise, for any clients,    *)
(* threads and tasks: RunningHasWorker, NoLostWakeup, StopDrains,          *)
(* JoinsCanEnd and FrontHasTask of TaskRuntime.                            *)
(***************************************************************************)
EXTENDS TaskRuntimeProofs

NoneFailed == \A w \in Workers : wpc[w] # "failed"

-----------------------------------------------------------------------------
(* A runtime that says it runs has a thread, or is about to create one.    *)

\* What makes RunningHasWorker inductive: a thread leaves the loop only when
\* running is clear, and between setting it and creating the thread start()
\* is at its spawn.
RunInv ==
    running /\ NoneFailed =>
        \/ \E w \in Workers : Live(w)
        \/ \E a \in Actors : pc[a] = "spawn"

\* Most steps start no thread and end none, and set running nowhere.
ThreadsStand ==
    /\ running' => running
    /\ \A w \in Workers : /\ Live(w) => Live(w)'
                          /\ wpc[w] = "failed" => wpc'[w] = "failed"
    /\ \A a \in Actors : pc[a] = "spawn" => pc'[a] = "spawn"

\* A step that ends no thread and no start() keeps RunInv.
LEMMA RunFrame ==
    ASSUME RunInv, ThreadsStand
    PROVE  RunInv'
  BY DEF RunInv, ThreadsStand, NoneFailed

\* The steps of a start() keep RunInv: it sets running, then creates the
\* thread or fails to.
LEMMA RunStart ==
    ASSUME TypeOK, StartInv, RunInv, NEW a \in Actors, StartStep(a)
    PROVE  RunInv'
  <1> USE DEF RunInv, NoneFailed, TypeOK, StartInv, Live, InLoop, Goto,
              history, wvars, cvars
  <1>1. ASSUME NEW w \in Workers, StartFlag(a, w) PROVE RunInv'
    <2>1. pc'[a] = "spawn"
      BY <1>1 DEF StartFlag
    <2> QED BY <2>1
  <1>2. CASE StartSpawn(a)
    <2>1. own[a] \in Workers /\ wpc'[own[a]] = "acquire"
      BY <1>2 DEF StartSpawn
    <2> QED BY <2>1
  <1>3. CASE StartFails(a)
    <2>1. own[a] \in Workers /\ wpc'[own[a]] = "failed"
      BY <1>3 DEF StartFails
    <2> QED BY <2>1
  <1>4. CASE StartAssign(a) \/ StartTerminates(a)
    <2>1. ThreadsStand
      BY <1>4 DEF StartAssign, StartTerminates, ThreadsStand
    <2> QED BY <2>1, RunFrame
  <1> QED BY <1>1, <1>2, <1>3, <1>4 DEF StartStep

\* Outside start() only a worker that finds running clear leaves the loop.
LEMMA OthersKeepThreads ==
    ASSUME TypeOK,
           \/ \E a \in Actors : StopStep(a) \/ HandleStep(a)
           \/ \E w \in Workers : LoopStep(w) /\ ~Exit(w)
           \/ DestroyStep
    PROVE  ThreadsStand
  <1> USE ActorAssumption
          DEF ThreadsStand, TypeOK, Live, InLoop, Goto, Actors, history, wvars,
              cvars
  <1>1. ASSUME NEW a \in Actors, StopStep(a) PROVE ThreadsStand
    BY <1>1 DEF StopStep, StopCall, StopFlag, StopNotRunning, StopNotify,
                NotifyAll, StopSkipsJoin, StopJoin, StopJoined, StopJoinsTwice,
                Free
  <1>2. ASSUME NEW a \in Actors, HandleStep(a) PROVE ThreadsStand
    BY <1>2 DEF HandleStep, Submit, SubmitReturn, NotifyOne, Get, GetReturn,
                CanWait, Free
  <1>3. ASSUME NEW w \in Workers, LoopStep(w), ~Exit(w) PROVE ThreadsStand
    BY <1>3 DEF LoopStep, Acquire, AfterPredicate, SpuriousWakeup, Take,
                TakeNothing, ExecutorReturns, Finish
  <1>4. CASE DestroyStep
    BY <1>4 DEF DestroyStep, BeginDestroy, EndDestroy, DestroyTerminates, Free
  <1> QED BY <1>1, <1>2, <1>3, <1>4

\* RunInv holds at the start and is kept by every step.
LEMMA RunInductive ==
    /\ Init => RunInv
    /\ TypeOK /\ StartInv /\ RunInv /\ [Next]_vars => RunInv'
  <1>1. Init => RunInv
    BY DEF Init, RunInv
  <1>2. ASSUME TypeOK, StartInv, RunInv, [Next]_vars PROVE RunInv'
    <2>1. CASE UNCHANGED vars
      BY <1>2, <2>1 DEF vars, RunInv, NoneFailed, Live
    <2>2. ASSUME NEW w \in Workers, Exit(w) PROVE RunInv'
      BY <2>2 DEF Exit, StopWhenDrained, RunInv
    <2> QED BY <1>2, <2>1, <2>2, RunStart, OthersKeepThreads, RunFrame DEF Next
  <1> QED BY <1>1, <1>2

\* While the runtime runs, with no start() or stop() in progress and no
\* thread creation failed, a thread serves the queue: start() and stop() may
\* be called by any threads in any order.
THEOREM RunningIsServed == Spec => []RunningHasWorker
  <1>1. RunInv => RunningHasWorker
    BY DEF RunInv, RunningHasWorker, NoneFailed
  <1> QED BY <1>1, TypeInit, TypeStep, StartInductive, RunInductive, PTL
          DEF Spec

-----------------------------------------------------------------------------
(* NoLostWakeup is inductive as it stands.                                 *)

\* Most steps put no thread to sleep, neither clear running nor fill the
\* queue, and leave those that are awake and those that will notify.
SleepStands ==
    /\ running => running'
    /\ queue' \in {queue, <<>>}
    /\ \A w \in Workers :
          /\ wpc'[w] = "blocked" => wpc[w] = "blocked"
          /\ Live(w) /\ wpc[w] # "blocked" => Live(w)' /\ wpc'[w] # "blocked"
    /\ \A a \in Actors :
          pc[a] \in {"notifyOne", "notifyAll"} => pc'[a] = pc[a]

\* Such steps lose no wakeup.
LEMMA SleepFrame ==
    ASSUME NoLostWakeup, SleepStands
    PROVE  NoLostWakeup'
  BY DEF NoLostWakeup, SleepStands

\* start() sets running and wakes or creates a thread; it puts none to sleep.
LEMMA SleepStart ==
    ASSUME TypeOK, StartInv, NoLostWakeup, NEW a \in Actors, StartStep(a)
    PROVE  NoLostWakeup'
  <1> USE DEF TypeOK, StartInv, SleepStands, Live, InLoop, Goto, Free,
              history, wvars, cvars
  <1>1. ASSUME NEW w \in Workers, StartFlag(a, w) PROVE SleepStands
    BY <1>1 DEF StartFlag
  <1>2. ASSUME StartSpawn(a) PROVE SleepStands
    BY <1>2 DEF StartSpawn
  <1>3. ASSUME StartFails(a) PROVE SleepStands
    BY <1>3 DEF StartFails
  <1>4. ASSUME StartAssign(a) \/ StartTerminates(a) PROVE SleepStands
    BY <1>4 DEF StartAssign, StartTerminates
  <1> QED BY <1>1, <1>2, <1>3, <1>4, SleepFrame DEF StartStep

\* A stop() that clears running is about to notify, and its notification
\* leaves no thread asleep.
LEMMA SleepStop ==
    ASSUME TypeOK, NoLostWakeup, NEW a \in Actors, StopStep(a)
    PROVE  NoLostWakeup'
  <1> USE DEF TypeOK, Live, InLoop, Goto, Free, history, wvars, cvars
  <1>1. CASE StopFlag(a)
    <2>1. pc'[a] = "notifyAll" /\ UNCHANGED <<queue, wpc>>
      BY <1>1 DEF StopFlag
    <2>2. \A b \in Actors : pc[b] = "notifyOne" => pc'[b] = "notifyOne"
      BY <1>1 DEF StopFlag
    <2> QED BY <2>1, <2>2 DEF NoLostWakeup
  <1>2. CASE StopNotify(a)
    <2>1. \A w \in Workers : wpc'[w] # "blocked"
      BY <1>2 DEF StopNotify, NotifyAll
    <2> QED BY <2>1 DEF NoLostWakeup
  <1>3. CASE \/ StopCall(a) \/ StopNotRunning(a) \/ StopSkipsJoin(a)
             \/ StopJoin(a) \/ StopJoined(a) \/ StopJoinsTwice(a)
    <2>1. SleepStands
      BY <1>3 DEF StopCall, StopNotRunning, StopSkipsJoin, StopJoin,
                  StopJoined, StopJoinsTwice, SleepStands
    <2> QED BY <2>1, SleepFrame
  <1> QED BY <1>1, <1>2, <1>3 DEF StopStep

\* A push() that fills the queue is about to notify; its notification leaves
\* a thread awake, or none was asleep.
LEMMA SleepHandle ==
    ASSUME TypeOK, NoLostWakeup, NEW a \in Actors, HandleStep(a)
    PROVE  NoLostWakeup'
  <1> USE DEF TypeOK, Live, InLoop, Goto, history, wvars, cvars
  <1>1. ASSUME NEW t \in Tasks, Submit(a, t) PROVE NoLostWakeup'
    <2>1. pc'[a] = "notifyOne" /\ UNCHANGED <<running, wpc>>
      BY <1>1 DEF Submit
    <2>2. \A b \in Actors : pc[b] = "notifyAll" => pc'[b] = "notifyAll"
      BY <1>1 DEF Submit, Free
    <2> QED BY <2>1, <2>2 DEF NoLostWakeup
  <1>2. CASE SubmitReturn(a)
    <2>1. \A b \in Actors : pc[b] = "notifyAll" => pc'[b] = "notifyAll"
      BY <1>2 DEF SubmitReturn
    <2>2. UNCHANGED <<queue, running>>
      BY <1>2 DEF SubmitReturn
    <2>3. CASE \A w \in Workers : wpc'[w] # "blocked"
      BY <2>3 DEF NoLostWakeup
    <2>4. ASSUME NEW w \in Workers, wpc[w] = "blocked",
                 wpc' = [wpc EXCEPT ![w] = "acquire"]
          PROVE  NoLostWakeup'
      <3>1. Live(w)' /\ wpc'[w] # "blocked"
        BY <2>4
      <3> QED BY <2>1, <2>2, <2>4, <3>1 DEF NoLostWakeup
    <2> QED BY <1>2, <2>3, <2>4 DEF SubmitReturn, NotifyOne
  <1>3. CASE GetReturn(a) \/ \E t \in Tasks : Get(a, t)
    <2>1. SleepStands
      BY <1>3 DEF GetReturn, Get, CanWait, Free, SleepStands
    <2> QED BY <2>1, SleepFrame
  <1> QED BY <1>1, <1>2, <1>3 DEF HandleStep

\* A thread goes to sleep, or leaves the loop, only with the queue empty.
LEMMA SleepLoop ==
    ASSUME TypeOK, NoLostWakeup, NEW w \in Workers, LoopStep(w)
    PROVE  NoLostWakeup'
  <1> USE DEF TypeOK, Live, InLoop, history, wvars, cvars
  <1>1. CASE Acquire(w)
    <2>1. CASE queue = <<>> /\ running
      BY <1>1, <2>1 DEF Acquire, NoLostWakeup
    <2>2. CASE ~(queue = <<>> /\ running)
      <3>1. SleepStands
        BY <1>1, <2>2 DEF Acquire, AfterPredicate, SleepStands
      <3> QED BY <3>1, SleepFrame
    <2> QED BY <2>1, <2>2
  <1>2. CASE Exit(w)
    <2>1. queue' = <<>> /\ UNCHANGED <<running, pc>>
          /\ \A v \in Workers : wpc'[v] = "blocked" => wpc[v] = "blocked"
      BY <1>2 DEF Exit, StopWhenDrained
    <2> QED BY <2>1 DEF NoLostWakeup
  <1>3. CASE Take(w)
    <2>1. wpc'[w] = "run" /\ UNCHANGED <<running, pc>>
          /\ \A v \in Workers : wpc'[v] = "blocked" => wpc[v] = "blocked"
      BY <1>3 DEF Take
    <2> QED BY <2>1 DEF NoLostWakeup
  <1>4. CASE SpuriousWakeup(w) \/ TakeNothing(w) \/ ExecutorReturns(w)
    <2>1. SleepStands
      BY <1>4 DEF SpuriousWakeup, TakeNothing, ExecutorReturns, Finish,
                  SleepStands
    <2> QED BY <2>1, SleepFrame
  <1> QED BY <1>1, <1>2, <1>3, <1>4 DEF LoopStep

\* Every step loses no wakeup.
LEMMA SleepInductive ==
    TypeOK /\ StartInv /\ NoLostWakeup /\ [Next]_vars => NoLostWakeup'
  <1> SUFFICES ASSUME TypeOK, StartInv, NoLostWakeup, [Next]_vars
               PROVE  NoLostWakeup'
    OBVIOUS
  <1>1. CASE DestroyStep \/ UNCHANGED vars
    <2>1. SleepStands
      BY <1>1 DEF DestroyStep, BeginDestroy, EndDestroy, DestroyTerminates,
                  SleepStands, Goto, Live, Free, TypeOK, vars, history, wvars,
                  cvars
    <2> QED BY <2>1, SleepFrame
  <1> QED BY <1>1, SleepStart, SleepStop, SleepHandle, SleepLoop DEF Next

\* A thread sleeps while its predicate holds only if somebody is still to
\* notify, or another thread is awake to see to the queue.
THEOREM NoWakeupIsLost == Spec => []NoLostWakeup
  <1>1. Init => NoLostWakeup
    BY DEF Init, NoLostWakeup
  <1> QED BY <1>1, TypeInit, TypeStep, StartInductive, SleepInductive,
             PTL DEF Spec

-----------------------------------------------------------------------------
(* stop() drains the queue.                                                *)

InStop(a) == pc[a] \in {"notifyAll", "join", "joining"}

\* What is owed was accepted, and is owed only by a stop() under way.
OwedInv ==
    \A a \in Actors :
        /\ ~InStop(a) => owed[a] = {}
        /\ \A t \in owed[a] : promise[t] # "none"

\* What makes StopDrains inductive: as long as an owed task is queued, the
\* thread that the stop() joins, or will join, is in the loop.
DrainInv ==
    NoneFailed =>
        \A a \in Actors :
            (\E t \in owed[a] : t \in Range(queue)) =>
                \E w \in Workers : /\ Live(w)
                                   /\ handle = w
                                   /\ pc[a] = "joining" => own[a] = w

\* OwedInv holds at the start and is kept by every step.
LEMMA OwedInductive ==
    /\ Init => OwedInv
    /\ TypeOK /\ CompletionInv /\ OrderInv /\ OwedInv /\ [Next]_vars => OwedInv'
  <1> USE DEF history, wvars, cvars, Goto
  <1>1. Init => OwedInv
    BY DEF Init, OwedInv, InStop
  <1>2. ASSUME TypeOK, OwedInv, \A t \in Tasks : promise'[t] = "none" =>
                                                     promise[t] = "none",
               UNCHANGED owed,
               \A a \in Actors : InStop(a) => InStop(a)'
        PROVE  OwedInv'
    BY <1>2 DEF OwedInv, TypeOK
  <1>3. ASSUME TypeOK, OwedInv, NEW a \in Actors, StartStep(a) PROVE OwedInv'
    BY <1>3 DEF StartStep, StartFlag, StartSpawn, StartFails, StartAssign,
                StartTerminates, OwedInv, InStop, TypeOK, Free
  <1>4. ASSUME TypeOK, OrderInv, OwedInv, NEW a \in Actors, StopStep(a)
        PROVE  OwedInv'
    <2>1. CASE StopFlag(a)
      <3>1. Range(accepted) \subseteq Tasks
        BY <1>4, RangeOfSeq DEF TypeOK
      <3> QED BY <1>4, <2>1, <3>1 DEF StopFlag, OwedInv, OrderInv, TypeOK,
                                      InStop
    <2>2. CASE ~StopFlag(a)
      BY <1>4, <2>2 DEF StopStep, StopCall, StopNotRunning, StopNotify,
         StopSkipsJoin, StopJoin, StopJoined, StopJoinsTwice, OwedInv, InStop,
         TypeOK, Free
    <2> QED BY <2>1, <2>2
  <1>5. ASSUME TypeOK, OwedInv, NEW a \in Actors, HandleStep(a) PROVE OwedInv'
    BY <1>5 DEF HandleStep, Submit, SubmitReturn, Get, GetReturn, CanWait,
                Free, OwedInv, InStop, TypeOK
  <1>6. ASSUME TypeOK, CompletionInv, OwedInv, NEW w \in Workers, LoopStep(w)
        PROVE  OwedInv'
    BY <1>6, <1>2 DEF LoopStep, Acquire, SpuriousWakeup, Exit, Take,
       TakeNothing, ExecutorReturns, Finish, TypeOK, Results, InStop
  <1>7. ASSUME TypeOK, OwedInv, DestroyStep PROVE OwedInv'
    BY <1>7, ActorAssumption DEF DestroyStep, BeginDestroy, EndDestroy,
       DestroyTerminates, Free, OwedInv, InStop, TypeOK, Actors
  <1>8. ASSUME OwedInv, UNCHANGED vars PROVE OwedInv'
    BY <1>8 DEF vars, OwedInv, InStop
  <1> QED BY <1>1, <1>3, <1>4, <1>5, <1>6, <1>7, <1>8 DEF Next

\* Most steps leave the owed tasks and the thread to join alone.
DrainStands ==
    /\ \A a \in Actors : \A t \in owed'[a] :
         t \in Range(queue)' => t \in owed[a] /\ t \in Range(queue)
    /\ \A w \in Workers : /\ Live(w) => Live(w)'
                          /\ wpc[w] = "failed" => wpc'[w] = "failed"
    /\ handle # NoWorker => handle' = handle
    /\ \A a \in Actors : pc'[a] = "joining" /\ pc[a] = "joining" =>
                             own'[a] = own[a]
    /\ \A a \in Actors : pc'[a] = "joining" /\ pc[a] # "joining" =>
                             own'[a] = handle

\* A step that ends no thread, queues nothing owed and joins only the thread
\* object keeps DrainInv.
LEMMA DrainFrame ==
    ASSUME DrainInv, DrainStands
    PROVE  DrainInv'
  <1> SUFFICES ASSUME NoneFailed', NEW a \in Actors, NEW t \in owed'[a],
                      t \in Range(queue)'
               PROVE  \E w \in Workers : /\ Live(w)'
                                         /\ handle' = w
                                         /\ pc'[a] = "joining" => own'[a] = w
    BY DEF DrainInv
  <1>1. NoneFailed
    BY DEF NoneFailed, DrainStands
  <1>2. t \in owed[a] /\ t \in Range(queue)
    BY DEF DrainStands
  <1>3. PICK w \in Workers : /\ Live(w) /\ handle = w
                             /\ pc[a] = "joining" => own[a] = w
    BY <1>1, <1>2 DEF DrainInv
  <1>4. handle' = handle /\ Live(w)'
    BY <1>3, ActorAssumption DEF DrainStands, Actors
  <1> QED BY <1>3, <1>4 DEF DrainStands

\* A start() keeps DrainInv: it assigns its thread only when none is there.
LEMMA DrainStart ==
    ASSUME TypeOK, StartInv, OwedInv, DrainInv, NEW a \in Actors, StartStep(a)
    PROVE  DrainInv'
  <1> USE DEF TypeOK, StartInv, Live, InLoop, Goto, history, wvars, cvars
  <1>1. ASSUME NEW w \in Workers, StartFlag(a, w) PROVE DrainInv'
    <2>1. DrainStands
      BY <1>1 DEF StartFlag, DrainStands, Free
    <2> QED BY <2>1, DrainFrame
  <1>2. CASE StartSpawn(a)
    <2>1. DrainStands
      BY <1>2 DEF StartSpawn, DrainStands
    <2> QED BY <2>1, DrainFrame
  <1>3. CASE StartFails(a)
    <2>1. own[a] \in Workers /\ wpc'[own[a]] = "failed"
      BY <1>3 DEF StartFails
    <2> QED BY <2>1 DEF DrainInv, NoneFailed
  <1>4. CASE StartAssign(a)
    <2>1. DrainStands
      BY <1>4 DEF StartAssign, DrainStands
    <2> QED BY <2>1, DrainFrame
  <1>5. CASE StartTerminates(a)
    <2>1. DrainStands
      BY <1>5 DEF StartTerminates, DrainStands
    <2> QED BY <2>1, DrainFrame
  <1> QED BY <1>1, <1>2, <1>3, <1>4, <1>5 DEF StartStep

\* When running is cleared with no other start() or stop() under way, the
\* thread object holds the one thread in the loop.
LEMMA FlagFindsWorker ==
    ASSUME TypeOK, ThreadInv, RunInv, NEW a \in Actors, StopFlag(a), Alone(a),
           NoneFailed
    PROVE  \E w \in Workers : Live(w) /\ handle = w
  <1>1. \A b \in Actors : pc[b] \notin {"spawn", "assign"}
    BY DEF StopFlag, Alone
  <1>2. PICK w \in Workers : Live(w)
    BY <1>1 DEF StopFlag, RunInv
  <1>3. handle = w
    BY <1>1, <1>2 DEF ThreadInv, SingleConsumer
  <1> QED BY <1>2, <1>3

\* A stop() keeps DrainInv: it forgets the thread only once that has ended,
\* and then nothing owed is queued.
LEMMA DrainStop ==
    ASSUME TypeOK, ThreadInv, RunInv, OwedInv, DrainInv, NEW a \in Actors,
           StopStep(a)
    PROVE  DrainInv'
  <1> USE DEF TypeOK, Goto, history, wvars, cvars
  <1>1. CASE StopFlag(a)
    <2> SUFFICES ASSUME NoneFailed', NEW b \in Actors,
                        \E t \in owed'[b] : t \in Range(queue)'
                 PROVE  \E w \in Workers : /\ Live(w)'
                                           /\ handle' = w
                                           /\ pc'[b] = "joining" => own'[b] = w
      BY DEF DrainInv
    <2>1. NoneFailed /\ queue' = queue /\ handle' = handle /\ wpc' = wpc
      BY <1>1 DEF StopFlag, NoneFailed
    <2>2. CASE b = a
      <3>1. Alone(a) /\ pc'[a] = "notifyAll"
        BY <1>1, <2>2 DEF StopFlag
      <3> QED BY <1>1, <2>1, <2>2, <3>1, FlagFindsWorker DEF Live
    <2>3. CASE b # a
      <3>1. owed'[b] = owed[b] /\ pc'[b] = pc[b] /\ own'[b] = own[b]
        BY <1>1, <2>3 DEF StopFlag
      <3> QED BY <2>1, <3>1 DEF DrainInv, Live
    <2> QED BY <2>2, <2>3
  <1>2. CASE StopJoined(a)
    <2> SUFFICES ASSUME NoneFailed', NEW b \in Actors, NEW t \in owed'[b],
                        t \in Range(queue)'
                 PROVE  FALSE
      BY DEF DrainInv
    <2>1. /\ NoneFailed /\ t \in owed[b] /\ t \in Range(queue)
      BY <1>2 DEF StopJoined, NoneFailed
    <2>2. PICK w \in Workers : Live(w) /\ handle = w
      BY <2>1 DEF DrainInv
    <2> QED BY <1>2, <2>2 DEF StopJoined, Ended, Live, InLoop
  <1>3. CASE StopNotify(a)
    <2>1. DrainStands
      BY <1>3 DEF StopNotify, NotifyAll, DrainStands, Live, InLoop
    <2> QED BY <2>1, DrainFrame
  <1>4. CASE StopCall(a) \/ StopNotRunning(a) \/ StopSkipsJoin(a) \/ StopJoin(a)
             \/ StopJoinsTwice(a)
    <2>1. DrainStands
      BY <1>4 DEF StopCall, StopNotRunning, StopSkipsJoin, StopJoin,
                  StopJoinsTwice, DrainStands, Live, Free
    <2> QED BY <2>1, DrainFrame
  <1> QED BY <1>1, <1>2, <1>3, <1>4 DEF StopStep

\* Submitting queues a task that is new, so owed to nobody.
LEMMA DrainHandle ==
    ASSUME TypeOK, OwedInv, DrainInv, NEW a \in Actors, HandleStep(a)
    PROVE  DrainInv'
  <1> USE DEF TypeOK, Goto, history, wvars, cvars
  <1>1. ASSUME NEW t \in Tasks, Submit(a, t) PROVE DrainStands
    <2>1. /\ queue' = Append(queue, t) /\ owed' = owed /\ promise[t] = "none"
          /\ handle' = handle /\ own' = own /\ wpc' = wpc
          /\ \A b \in Actors : pc'[b] = "joining" <=> pc[b] = "joining"
      BY <1>1 DEF Submit, AtBack, Fresh, Free
    <2>2. Range(queue)' = Range(queue) \cup {t}
      BY <2>1, RangeAppend
    <2>3. \A b \in Actors : t \notin owed[b]
      BY <2>1 DEF OwedInv
    <2> QED BY <2>1, <2>2, <2>3 DEF DrainStands, Live
  <1>2. ASSUME NEW t \in Tasks, Get(a, t) PROVE DrainStands
    BY <1>2 DEF Get, CanWait, Free, DrainStands, Live
  <1>3. CASE SubmitReturn(a)
    <2>1. DrainStands
      BY <1>3 DEF SubmitReturn, NotifyOne, DrainStands, Live, InLoop
    <2> QED BY <2>1, DrainFrame
  <1>4. CASE GetReturn(a)
    <2>1. DrainStands
      BY <1>4 DEF GetReturn, DrainStands, Live
    <2> QED BY <2>1, DrainFrame
  <1> QED BY <1>1, <1>2, <1>3, <1>4, DrainFrame DEF HandleStep

\* A worker leaves the loop only when the queue is empty.
LEMMA DrainLoop ==
    ASSUME TypeOK, CompletionInv, DrainInv, NEW w \in Workers, LoopStep(w)
    PROVE  DrainInv'
  <1> USE DEF TypeOK, Live, InLoop, history, wvars, cvars
  <1>1. CASE Exit(w)
    <2>1. Range(queue)' = {}
      BY <1>1 DEF Exit, StopWhenDrained, Range
    <2> QED BY <2>1 DEF DrainInv
  <1>2. CASE Take(w)
    <2>1. Range(queue)' = Range(queue) \ {Head(queue)}
      BY <1>2, TailOfInjective DEF Take, Popped, CompletionInv
    <2>2. DrainStands
      BY <1>2, <2>1 DEF Take, DrainStands
    <2> QED BY <2>2, DrainFrame
  <1>3. CASE Acquire(w) \/ SpuriousWakeup(w) \/ TakeNothing(w)
    <2>1. DrainStands
      BY <1>3 DEF Acquire, AfterPredicate, SpuriousWakeup, TakeNothing,
                  DrainStands
    <2> QED BY <2>1, DrainFrame
  <1>4. ASSUME NEW r \in Results, Finish(w, r) PROVE DrainInv'
    <2>1. DrainStands
      BY <1>4 DEF Finish, DrainStands
    <2> QED BY <2>1, DrainFrame
  <1> QED BY <1>1, <1>2, <1>3, <1>4 DEF LoopStep, ExecutorReturns

\* DrainInv holds at the start and is kept by every step.
LEMMA DrainInductive ==
    /\ Init => DrainInv
    /\ /\ TypeOK /\ ThreadInv /\ StartInv /\ CompletionInv /\ RunInv
       /\ OwedInv /\ DrainInv /\ [Next]_vars
       => DrainInv'
  <1>1. Init => DrainInv
    BY DEF Init, DrainInv
  <1>2. ASSUME TypeOK, ThreadInv, StartInv, CompletionInv, RunInv, OwedInv,
               DrainInv, [Next]_vars
        PROVE  DrainInv'
    <2>1. CASE UNCHANGED vars
      BY <1>2, <2>1 DEF vars, DrainInv, NoneFailed, Live
    <2>2. CASE DestroyStep
      <3>1. CASE EndDestroy
        <4>1. Range(queue)' = {}
          BY <3>1 DEF EndDestroy, Range
        <4> QED BY <4>1 DEF DrainInv
      <3>2. CASE BeginDestroy \/ DestroyTerminates
        <4>1. DrainStands
          BY <1>2, <3>2, ActorAssumption
             DEF BeginDestroy, DestroyTerminates, DrainStands, Goto, Live,
                 Free, history, wvars, cvars, TypeOK, Actors
        <4> QED BY <1>2, <4>1, DrainFrame
      <3> QED BY <2>2, <3>1, <3>2 DEF DestroyStep
    <2> QED BY <1>2, <2>1, <2>2, DrainStart, DrainStop, DrainHandle,
               DrainLoop DEF Next
  <1> QED BY <1>1, <1>2

\* The thread that a stop() has seen end is still in the thread object, so no
\* owed task is queued, and one that is being executed is on a thread that is
\* not yet assigned.
LEMMA DrainedMeansDone ==
    ASSUME TypeOK, ThreadInv, CompletionInv, OwedInv, DrainInv
    PROVE  StopDrains
  <1> SUFFICES ASSUME NEW a \in Actors,
                      pc[a] = "joining", wpc[own[a]] = "exited",
                      handle = own[a],
                      NoneFailed,
                      NEW t \in owed[a],
                      promise[t] \notin Results
               PROVE  \E w \in Workers : OnUnassigned(w, t)
    BY DEF StopDrains, NoneFailed
  <1>1. ~Live(handle)
    BY DEF Live, InLoop
  <1>2. t \notin Range(queue)
    BY <1>1 DEF DrainInv
  <1>3. t \in Tasks /\ promise[t] = "pending"
    BY DEF OwedInv, TypeOK
  <1>4. PICK w \in Workers : wpc[w] = "run" /\ wtask[w] = t
    BY <1>2, <1>3 DEF CompletionInv
  <1>5. \E c \in Actors : pc[c] = "assign" /\ own[c] = w
    BY <1>1, <1>4 DEF ThreadInv, SingleConsumer, Live, InLoop
  <1> QED BY <1>4, <1>5 DEF OnUnassigned

\* stop() drains: when it has joined the thread, every task accepted before
\* it, alone, cleared running has its result, unless a thread that a later
\* start() has not yet assigned is executing it, or a thread creation failed.
THEOREM StopLeavesNothing == Spec => []StopDrains
  BY TypeInit, TypeStep, StartInductive, RootedInductive, ThreadInductive,
     CompletionInductive, OrderInductive, RunInductive, OwedInductive,
     DrainInductive, DrainedMeansDone, PTL DEF Spec

-----------------------------------------------------------------------------
(* Nobody joins a thread that cannot end.                                  *)

\* The thread has been created.
Created(w) == Live(w) \/ wpc[w] = "exited"

\* What makes JoinsCanEnd inductive: a thread is assigned and joined only once
\* it is created, and a joined thread that still lives is the one in the thread
\* object.
JoinInv ==
    /\ \A a \in Actors : pc[a] = "assign" => Created(own[a])
    /\ handle # NoWorker => Created(handle)
    /\ \A a \in Actors : pc[a] = "joining" =>
          /\ Created(own[a])
          /\ own[a] # a
          /\ Live(own[a]) => own[a] = handle

\* Most steps create no thread, end none and join none.
JoinStands ==
    /\ \A w \in Workers : /\ Live(w) <=> Live(w)'
                          /\ wpc[w] = "exited" <=> wpc'[w] = "exited"
    /\ handle' = handle
    /\ \A a \in Actors : pc'[a] \in {"assign", "joining"} =>
                             pc[a] = pc'[a] /\ own[a] = own'[a]

\* Such steps keep JoinInv.
LEMMA JoinFrame ==
    ASSUME TypeOK, JoinInv, JoinStands
    PROVE  JoinInv'
  <1> USE DEF TypeOK, JoinInv, JoinStands, Created, Actors
  <1>1. \A w \in Workers : Created(w) <=> Created(w)'
    OBVIOUS
  <1>2. handle' # NoWorker => Created(handle)'
    BY <1>1
  <1>3. \A a \in Actors : pc'[a] = "assign" => Created(own[a])'
    BY <1>1
  <1>4. \A a \in Actors : pc'[a] = "joining" =>
           Created(own[a])' /\ own'[a] # a /\ (Live(own[a])' => own'[a] = handle')
    BY <1>1
  <1> QED BY <1>2, <1>3, <1>4

\* A start() assigns the thread it has just created.
LEMMA JoinStart ==
    ASSUME TypeOK, StartInv, JoinInv, NEW a \in Actors, StartStep(a)
    PROVE  JoinInv'
  <1> USE ActorAssumption
          DEF TypeOK, StartInv, JoinInv, Created, Live, InLoop, Goto, Free,
              Actors, history, wvars, cvars
  <1>1. ASSUME NEW w \in Workers, StartFlag(a, w) PROVE JoinInv'
    BY <1>1 DEF StartFlag
  <1>2. CASE StartSpawn(a)
    <2>1. own[a] \in Workers /\ wpc[own[a]] = "starting"
      BY <1>2 DEF StartSpawn
    <2> QED BY <1>2, <2>1 DEF StartSpawn
  <1>3. CASE StartFails(a)
    <2>1. own[a] \in Workers /\ wpc[own[a]] = "starting"
      BY <1>3 DEF StartFails
    <2> QED BY <1>3, <2>1 DEF StartFails
  <1>4. CASE StartAssign(a)
    BY <1>4 DEF StartAssign
  <1>5. CASE StartTerminates(a)
    BY <1>5 DEF StartTerminates
  <1> QED BY <1>1, <1>2, <1>3, <1>4, <1>5 DEF StartStep

\* A stop() joins the thread in the thread object unless it is the caller,
\* and forgets it only once it has ended.
LEMMA JoinStop ==
    ASSUME TypeOK, JoinInv, NEW a \in Actors, StopStep(a)
    PROVE  JoinInv'
  <1> USE ActorAssumption
          DEF TypeOK, Goto, Actors, history, wvars, cvars
  <1>1. CASE StopJoin(a)
    BY <1>1 DEF StopJoin, JoinInv, Created, Live
  <1>2. CASE StopJoined(a)
    <2>1. wpc[handle] = "exited" /\ handle' = NoWorker /\ wpc' = wpc
      BY <1>2 DEF StopJoined, Ended
    <2> QED BY <1>2, <2>1 DEF StopJoined, JoinInv, Created, Live, InLoop
  <1>3. CASE StopNotify(a)
    <2>1. JoinStands
      BY <1>3 DEF StopNotify, NotifyAll, JoinStands, Live, InLoop
    <2> QED BY <2>1, JoinFrame
  <1>4. CASE \/ StopCall(a) \/ StopFlag(a) \/ StopNotRunning(a)
             \/ StopSkipsJoin(a) \/ StopJoinsTwice(a)
    <2>1. JoinStands
      BY <1>4 DEF StopCall, StopFlag, StopNotRunning, StopSkipsJoin,
                  StopJoinsTwice, JoinStands, Free, Live
    <2> QED BY <2>1, JoinFrame
  <1> QED BY <1>1, <1>2, <1>3, <1>4 DEF StopStep

\* Submitting and waiting join nothing and end nothing.
LEMMA JoinHandle ==
    ASSUME TypeOK, JoinInv, NEW a \in Actors, HandleStep(a)
    PROVE  JoinInv'
  <1> USE ActorAssumption
          DEF TypeOK, JoinStands, Live, InLoop, Goto, Free, Actors, history,
              wvars, cvars
  <1>1. ASSUME NEW t \in Tasks, Submit(a, t) PROVE JoinStands
    BY <1>1 DEF Submit
  <1>2. ASSUME NEW t \in Tasks, Get(a, t) PROVE JoinStands
    BY <1>2 DEF Get, CanWait
  <1>3. CASE SubmitReturn(a)
    <2>1. JoinStands
      BY <1>3 DEF SubmitReturn, NotifyOne
    <2> QED BY <2>1, JoinFrame
  <1>4. CASE GetReturn(a)
    <2>1. JoinStands
      BY <1>4 DEF GetReturn
    <2> QED BY <2>1, JoinFrame
  <1> QED BY <1>1, <1>2, <1>3, <1>4, JoinFrame DEF HandleStep

\* A thread ends between two tasks, when its executor is in no call.
LEMMA JoinLoop ==
    ASSUME TypeOK, JoinInv, NEW w \in Workers, LoopStep(w)
    PROVE  JoinInv'
  <1> USE DEF TypeOK, Live, InLoop, Actors, history, wvars, cvars
  <1>1. CASE Exit(w)
    BY <1>1 DEF Exit, JoinInv, Created
  <1>2. CASE Acquire(w) \/ SpuriousWakeup(w) \/ Take(w) \/ TakeNothing(w)
    <2>1. JoinStands
      BY <1>2 DEF Acquire, AfterPredicate, SpuriousWakeup, Take, TakeNothing,
                  JoinStands
    <2> QED BY <2>1, JoinFrame
  <1>3. ASSUME NEW r \in Results, Finish(w, r) PROVE JoinInv'
    <2>1. JoinStands
      BY <1>3 DEF Finish, JoinStands
    <2> QED BY <2>1, JoinFrame
  <1> QED BY <1>1, <1>2, <1>3 DEF LoopStep, ExecutorReturns

\* JoinInv holds at the start and is kept by every step.
LEMMA JoinInductive ==
    /\ Init => JoinInv
    /\ TypeOK /\ StartInv /\ JoinInv /\ [Next]_vars => JoinInv'
  <1>1. Init => JoinInv
    BY ActorAssumption DEF Init, JoinInv, Actors
  <1>2. ASSUME TypeOK, StartInv, JoinInv, [Next]_vars PROVE JoinInv'
    <2>1. CASE DestroyStep \/ UNCHANGED vars
      <3>1. JoinStands
        BY <1>2, <2>1, ActorAssumption
           DEF DestroyStep, BeginDestroy, EndDestroy, DestroyTerminates, Free,
               JoinStands, Goto, Live, Actors, TypeOK, vars, history, wvars,
               cvars
      <3> QED BY <1>2, <3>1, JoinFrame
    <2> QED BY <1>2, <2>1, JoinStart, JoinStop, JoinHandle, JoinLoop DEF Next
  <1> QED BY <1>1, <1>2

\* A thread that joins runs an executor, so it is the one in the thread
\* object, and whom it joins is not.
LEMMA JoinedEnds ==
    ASSUME TypeOK, StartInv, JoinInv, NoLostWakeup
    PROVE  JoinsCanEnd
  <1> SUFFICES ASSUME NEW a \in Actors, pc[a] = "joining"
               PROVE  /\ Created(own[a]) /\ own[a] # a
                      /\ pc[own[a]] = "joining" => wpc[own[own[a]]] = "exited"
                      /\ wpc[own[a]] = "blocked" =>
                           running \/ \E b \in Actors : pc[b] = "notifyAll"
    BY DEF JoinsCanEnd, Created
  <1>1. own[a] \in Workers /\ own[a] \in Actors
    BY DEF TypeOK, Actors
  <1>2. Created(own[a]) /\ own[a] # a
    BY DEF JoinInv
  <1>3. ASSUME pc[own[a]] = "joining" PROVE wpc[own[own[a]]] = "exited"
    <2>1. own[a] = handle
      BY <1>1, <1>3 DEF StartInv, JoinInv, Live, InLoop
    <2>2. Created(own[own[a]]) /\ own[own[a]] # handle
      BY <1>1, <1>3, <2>1 DEF JoinInv
    <2> QED BY <1>1, <1>3, <2>2 DEF JoinInv, Created
  <1> QED BY <1>1, <1>2, <1>3 DEF NoLostWakeup

\* Whoever waits in join() waits for a thread that exists, is not the caller,
\* waits in no join() that could depend on it, and is awake or will be woken.
THEOREM JoinedThreadsEnd == Spec => []JoinsCanEnd
  <1>1. Init => NoLostWakeup
    BY DEF Init, NoLostWakeup
  <1> QED BY <1>1, TypeInit, TypeStep, StartInductive, SleepInductive,
             JoinInductive, JoinedEnds, PTL DEF Spec
-----------------------------------------------------------------------------
(* front() is called on a queue that holds a task.                         *)

\* The thread of a start() other than the one that created w is about to be
\* created or is in the loop.
OtherStart(w) ==
    \E a \in Actors :
        \/ pc[a] = "spawn"
        \/ pc[a] = "assign" /\ own[a] # w /\ Live(own[a])
        \/ pc[a] = "assign" /\ own[a] = w /\ handle \in Workers /\ Live(handle)

\* What makes FrontHasTask inductive: one thread holds m, and while it does no
\* thread can leave the loop.
FrontInv ==
    /\ \A v, w \in Workers : wpc[v] = "decide" /\ wpc[w] = "decide" => v = w
    /\ NoneFailed =>
         \A w \in Workers : wpc[w] = "decide" /\ running /\ queue = <<>> =>
            OtherStart(w)

\* Most steps neither take m nor set running nor empty the queue, and leave
\* the starts and the live threads.
FrontStands ==
    /\ running' => running
    /\ queue' = <<>> => queue = <<>>
    /\ \A w \in Workers : /\ wpc'[w] = "decide" <=> wpc[w] = "decide"
                          /\ Live(w) => Live(w)'
                          /\ wpc[w] = "failed" => wpc'[w] = "failed"
    /\ \A w \in Workers : Live(w) /\ w = handle => w = handle'
    /\ \A a \in Actors : pc[a] \in {"spawn", "assign"} =>
                             pc'[a] = pc[a] /\ own'[a] = own[a]

\* Such steps keep FrontInv.
LEMMA FrontFrame ==
    ASSUME TypeOK, FrontInv, FrontStands
    PROVE  FrontInv'
  <1>1. \A v, w \in Workers : wpc'[v] = "decide" /\ wpc'[w] = "decide" => v = w
    BY DEF FrontInv, FrontStands
  <1>2. ASSUME NoneFailed', NEW w \in Workers,
               wpc'[w] = "decide" /\ running' /\ queue' = <<>>
        PROVE  OtherStart(w)'
    <2>1. OtherStart(w)
      BY <1>2 DEF FrontInv, FrontStands, NoneFailed
    <2> QED BY <2>1 DEF OtherStart, FrontStands, TypeOK
  <1> QED BY <1>1, <1>2 DEF FrontInv

\* A start() sets running as its own thread is about to be created, and its
\* assignment is seen by a thread that some other start() has yet to assign.
LEMMA FrontStart ==
    ASSUME TypeOK, StartInv, ThreadInv, FrontInv, NEW a \in Actors, StartStep(a)
    PROVE  FrontInv'
  <1> USE DEF TypeOK, StartInv, Live, InLoop, Goto, history, wvars, cvars
  <1>1. ASSUME NEW w \in Workers, StartFlag(a, w) PROVE FrontInv'
    <2>1. \A v \in Workers : wpc'[v] = "decide" <=> wpc[v] = "decide"
      BY <1>1 DEF StartFlag
    <2>2. \A v \in Workers : OtherStart(v)'
      BY <1>1 DEF StartFlag, OtherStart
    <2> QED BY <2>1, <2>2 DEF FrontInv
  <1>2. CASE StartSpawn(a)
    <2>1. /\ own[a] \in Workers /\ wpc[own[a]] = "starting"
          /\ wpc' = [wpc EXCEPT ![own[a]] = "acquire"]
          /\ pc' = [pc EXCEPT ![a] = "assign"] /\ pc[a] = "spawn"
          /\ UNCHANGED <<running, queue, handle, own>>
      BY <1>2 DEF StartSpawn
    <2>2. \A v \in Workers : wpc'[v] = "decide" <=> wpc[v] = "decide"
      BY <2>1
    <2>3. ASSUME NEW w \in Workers, wpc[w] = "decide" PROVE OtherStart(w)'
      <3>1. own'[a] # w /\ Live(own[a])' /\ pc'[a] = "assign"
        BY <2>1, <2>3
      <3> QED BY <2>1, <3>1 DEF OtherStart
    <2> QED BY <2>2, <2>3 DEF FrontInv
  <1>3. CASE StartFails(a)
    <2>1. own[a] \in Workers /\ wpc'[own[a]] = "failed"
          /\ \A v \in Workers : wpc'[v] = "decide" => wpc[v] = "decide"
      BY <1>3 DEF StartFails
    <2> QED BY <2>1 DEF FrontInv, NoneFailed
  <1>4. CASE StartAssign(a)
    <2>1. /\ handle = NoWorker /\ handle' = own[a] /\ own[a] \in Workers
          /\ UNCHANGED <<wpc, running, queue>>
          /\ \A b \in Actors \ {a} : pc'[b] = pc[b] /\ own'[b] = own[b]
          /\ NoWorker \notin Workers
      BY <1>4, ActorAssumption DEF StartAssign, Actors
    <2> SUFFICES ASSUME NoneFailed', NEW w \in Workers, wpc[w] = "decide",
                        running, queue = <<>>
                 PROVE  OtherStart(w)'
      BY <2>1 DEF FrontInv
    <2>2. PICK b \in Actors : \/ pc[b] = "spawn"
                             \/ /\ pc[b] = "assign" /\ own[b] # w
                                /\ Live(own[b])
      BY <2>1 DEF FrontInv, OtherStart, NoneFailed
    <2>3. CASE b # a
      BY <2>1, <2>2, <2>3 DEF OtherStart
    <2>4. CASE b = a
      <3>1. own[a] # w /\ Live(own[a])
        BY <1>4, <2>2, <2>4 DEF StartAssign
      <3>2. PICK c \in Actors : pc[c] = "assign" /\ own[c] = w
        BY <2>1 DEF ThreadInv, SingleConsumer
      <3>3. c # a /\ handle' \in Workers /\ Live(handle)'
        BY <2>1, <3>1, <3>2
      <3> QED BY <2>1, <3>2, <3>3 DEF OtherStart
    <2> QED BY <2>3, <2>4
  <1>5. CASE StartTerminates(a)
    <2>1. FrontStands
      BY <1>5 DEF StartTerminates, FrontStands
    <2> QED BY <2>1, FrontFrame
  <1> QED BY <1>1, <1>2, <1>3, <1>4, <1>5 DEF StartStep

\* A stop() clears running and forgets a thread only once it has ended; a
\* push() queues a task.
LEMMA FrontCalls ==
    ASSUME TypeOK, FrontInv, NEW a \in Actors, StopStep(a) \/ HandleStep(a)
    PROVE  FrontInv'
  <1> USE DEF TypeOK, FrontStands, Live, InLoop, Goto, Free, history, wvars,
              cvars
  <1>1. ASSUME StopNotify(a) PROVE FrontStands
    BY <1>1 DEF StopNotify, NotifyAll
  <1>2. ASSUME StopJoined(a) PROVE FrontStands
    BY <1>2 DEF StopJoined, Ended
  <1>3. ASSUME StopStep(a), ~StopNotify(a), ~StopJoined(a) PROVE FrontStands
    BY <1>3 DEF StopStep, StopCall, StopFlag, StopNotRunning, StopSkipsJoin,
                StopJoin, StopJoinsTwice
  <1>4. ASSUME NEW t \in Tasks, Submit(a, t) PROVE FrontStands
    <2>1. queue' = Append(queue, t) /\ Len(queue') = Len(queue) + 1
      BY <1>4, AppendProperties DEF Submit, AtBack
    <2>2. queue' # <<>>
      <3>1. Len(queue) \in Nat /\ Len(<<>>) = 0
        BY LenProperties, EmptySeq
      <3>2. Len(queue') # 0
        BY <2>1, <3>1
      <3> QED BY <3>1, <3>2
    <2> QED BY <1>4, <2>2 DEF Submit
  <1>5. ASSUME NEW t \in Tasks, Get(a, t) PROVE FrontStands
    BY <1>5 DEF Get, CanWait
  <1>6. ASSUME SubmitReturn(a) PROVE FrontStands
    BY <1>6 DEF SubmitReturn, NotifyOne
  <1>7. ASSUME GetReturn(a) PROVE FrontStands
    BY <1>7 DEF GetReturn
  <1> QED BY <1>1, <1>2, <1>3, <1>4, <1>5, <1>6, <1>7, FrontFrame
          DEF HandleStep

\* A worker holds m with a task queued or with running clear; the one that
\* holds m is the only one that can pop or leave the loop.
LEMMA FrontLoop ==
    ASSUME TypeOK, FrontInv, NEW w \in Workers, LoopStep(w)
    PROVE  FrontInv'
  <1> USE DEF TypeOK, Live, InLoop, history, wvars, cvars
  <1>1. CASE Acquire(w)
    <2>1. \A v \in Workers : wpc[v] # "decide"
      BY <1>1 DEF Acquire, Locked
    <2>2. \A v \in Workers : wpc'[v] = "decide" =>
                                v = w /\ (queue # <<>> \/ ~running)
      BY <1>1, <2>1 DEF Acquire, AfterPredicate
    <2>3. queue' = queue /\ running' = running
      BY <1>1 DEF Acquire
    <2> QED BY <2>2, <2>3 DEF FrontInv
  <1>2. CASE Exit(w) \/ Take(w)
    <2>1. \A v \in Workers : wpc'[v] # "decide"
      BY <1>2 DEF Exit, Take, FrontInv
    <2> QED BY <2>1 DEF FrontInv
  <1>3. CASE SpuriousWakeup(w) \/ TakeNothing(w)
    <2>1. FrontStands
      BY <1>3 DEF SpuriousWakeup, TakeNothing, FrontStands
    <2> QED BY <2>1, FrontFrame
  <1>4. ASSUME NEW r \in Results, Finish(w, r) PROVE FrontInv'
    <2>1. FrontStands
      BY <1>4 DEF Finish, FrontStands
    <2> QED BY <2>1, FrontFrame
  <1> QED BY <1>1, <1>2, <1>3, <1>4 DEF LoopStep, ExecutorReturns

\* FrontInv holds at the start and is kept by every step.
LEMMA FrontInductive ==
    /\ Init => FrontInv
    /\ TypeOK /\ StartInv /\ Rooted /\ ThreadInv /\ FrontInv /\ [Next]_vars
       => FrontInv'
  <1>1. Init => FrontInv
    BY DEF Init, FrontInv
  <1>2. ASSUME TypeOK, StartInv, Rooted, ThreadInv, FrontInv, [Next]_vars
        PROVE  FrontInv'
    <2>1. CASE EndDestroy
      <3>1. \A w \in Workers : wpc[w] # "decide"
        BY <1>2, <2>1, NoneLeft DEF Live, InLoop
      <3> QED BY <2>1, <3>1 DEF EndDestroy, FrontInv, wvars
    <2>2. CASE BeginDestroy \/ DestroyTerminates \/ UNCHANGED vars
      <3>1. FrontStands
        BY <1>2, <2>2, ActorAssumption
           DEF BeginDestroy, DestroyTerminates, FrontStands, Goto, Live, Free,
               Actors, TypeOK, vars, history, wvars, cvars
      <3> QED BY <1>2, <3>1, FrontFrame
    <2> QED BY <1>2, <2>1, <2>2, FrontStart, FrontCalls, FrontLoop
            DEF Next, DestroyStep
  <1> QED BY <1>1, <1>2

\* FrontInv says more than FrontHasTask.
LEMMA FrontSuffices ==
    ASSUME TypeOK, StartInv, FrontInv
    PROVE  FrontHasTask
  <1> SUFFICES ASSUME NEW w \in Workers, wpc[w] = "decide", running, NoneFailed,
                      queue = <<>>
               PROVE  \E a \in Actors : /\ pc[a] \in {"spawn", "assign"}
                                        /\ own[a] = w => handle # NoWorker
    BY DEF FrontHasTask, NoneFailed
  <1>1. OtherStart(w)
    BY DEF FrontInv
  <1> QED BY <1>1, ActorAssumption DEF OtherStart, StartInv, Actors

\* A worker that goes on to front() finds a task, unless a start() other than
\* its own is under way or a thread creation has failed.
THEOREM FrontIsNotEmpty == Spec => []FrontHasTask
  BY TypeInit, TypeStep, StartInductive, RootedInductive, ThreadInductive,
     FrontInductive, FrontSuffices, PTL DEF Spec
=============================================================================
