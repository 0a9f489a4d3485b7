---------------------------- MODULE TaskRuntime ----------------------------
(***************************************************************************)
(* The task runtime of nodeEngine: TaskSystem, its TaskQueue with one      *)
(* std::thread, the promise inside each Task and the TaskHandle that waits *)
(* for it.  Any number of client threads, and the executors that the       *)
(* worker runs, call start, stop, submit and get in any interleaving.      *)
(*                                                                         *)
(* A step is what the code does between two points at which another        *)
(* thread can observe it: the body of one critical section of m, one       *)
(* access to the thread object, one notification.  The only critical       *)
(* section split in two is processLoop's, because start() writes running   *)
(* without holding m.                                                      *)
(***************************************************************************)
EXTENDS Naturals, Sequences, FiniteSets, Functions

CONSTANTS
    Clients,     \* threads of the program that hold the TaskSystem
    Workers,     \* one std::thread per call of start(): bounds those calls
    Tasks,       \* one per call of submit(): bounds those calls
    EmptyTasks,  \* tasks submitted with an empty std::function
    Owner,       \* the client whose scope ends the TaskSystem
    Starters,    \* who may call start(), executors included
    Stoppers,    \* who may call stop(), executors included
    Waiters,     \* who may call get(), executors included
    NoWorker, NoTask, NoActor

Actors == Clients \cup Workers

ASSUME ActorAssumption ==
    /\ Clients \cap Workers = {}
    /\ NoActor \notin Actors
    /\ NoWorker \notin Actors
    /\ Owner \in Clients
    /\ Starters \subseteq Actors
    /\ Stoppers \subseteq Actors
    /\ Waiters \subseteq Actors

ASSUME TaskAssumption ==
    /\ NoTask \notin Tasks
    /\ EmptyTasks \subseteq Tasks

VARIABLES
    queue,       \* TaskQueue::queue
    running,     \* TaskQueue::running, atomic
    handle,      \* TaskQueue::worker: the joinable thread, or NoWorker
    wpc,         \* where each worker thread is in processLoop
    wtask,       \* processLoop's local task
    pc,          \* where each actor is in a call on the runtime
    own,         \* the thread that call creates or joins
    sub,         \* the task that call submits or waits for
    promise,     \* state of each task's promise
    holder,      \* who holds the TaskHandle of a task, NoActor when nobody
    life,        \* the TaskSystem object and its process
    accepted,    \* history: tasks in the order push appended them
    taken,       \* history: tasks in the order processLoop popped them
    owed         \* history: what was accepted when a stop, alone, cleared running

wvars == <<handle, wpc, wtask>>
cvars == <<pc, own, sub>>
history == <<accepted, taken, owed>>
vars == <<queue, running, handle, wpc, wtask, pc, own, sub, promise, holder,
          life, accepted, taken, owed>>

Results == {"value", "exception", "broken"}
InLoop == {"acquire", "blocked", "decide", "run"}

Live(w) == wpc[w] \in InLoop
Locked == \E w \in Workers : wpc[w] = "decide"     \* a worker holds m
Up == life \in {"alive", "dying"}

\* Who can make a call: a client while the object lives, or an executor
\* from inside the worker thread.
Free(a) ==
    /\ pc[a] = "idle"
    /\ \/ a \in Clients /\ life = "alive"
       \/ a \in Workers /\ Up /\ wpc[a] = "run" /\ wtask[a] \notin EmptyTasks

Goto(a, l) == pc' = [pc EXCEPT ![a] = l]

Init ==
    /\ queue = <<>>
    /\ running = FALSE
    /\ handle = NoWorker
    /\ wpc = [w \in Workers |-> "unborn"]
    /\ wtask = [w \in Workers |-> NoTask]
    /\ pc = [a \in Actors |-> "idle"]
    /\ own = [a \in Actors |-> NoWorker]
    /\ sub = [a \in Actors |-> NoTask]
    /\ promise = [t \in Tasks |-> "none"]
    /\ holder = [t \in Tasks |-> NoActor]
    /\ life = "alive"
    /\ accepted = <<>>
    /\ taken = <<>>
    /\ owed = [a \in Actors |-> {}]

-----------------------------------------------------------------------------
(* TaskQueue::start.  It takes no lock: running is visible before the      *)
(* thread exists, and the thread runs before it is assigned to worker.     *)

StartFlag(a, w) ==
    /\ Free(a)
    /\ a \in Starters
    /\ wpc[w] = "unborn"
    /\ running' = TRUE
    /\ wpc' = [wpc EXCEPT ![w] = "starting"]
    /\ own' = [own EXCEPT ![a] = w]
    /\ Goto(a, "spawn")
    /\ UNCHANGED <<queue, handle, wtask, sub, promise, holder, life, history>>

StartSpawn(a) ==
    /\ Up /\ pc[a] = "spawn"
    /\ wpc' = [wpc EXCEPT ![own[a]] = "acquire"]
    /\ Goto(a, "assign")
    /\ UNCHANGED <<queue, running, handle, wtask, own, sub, promise, holder,
                   life, history>>

\* The std::thread constructor throws: running stays TRUE without a thread.
StartFails(a) ==
    /\ Up /\ pc[a] = "spawn"
    /\ wpc' = [wpc EXCEPT ![own[a]] = "failed"]
    /\ own' = [own EXCEPT ![a] = NoWorker]
    /\ Goto(a, "idle")
    /\ UNCHANGED <<queue, running, handle, wtask, sub, promise, holder, life,
                   history>>

StartAssign(a) ==
    /\ Up /\ pc[a] = "assign"
    /\ handle = NoWorker
    /\ handle' = own[a]
    /\ own' = [own EXCEPT ![a] = NoWorker]
    /\ Goto(a, "idle")
    /\ UNCHANGED <<queue, running, wpc, wtask, sub, promise, holder, life,
                   history>>

\* Move-assignment to a std::thread that is joinable calls std::terminate.
StartTerminates(a) ==
    /\ Up /\ pc[a] = "assign"
    /\ handle # NoWorker
    /\ life' = "terminated"
    /\ UNCHANGED <<queue, running, wvars, cvars, promise, holder, history>>

-----------------------------------------------------------------------------
(* TaskQueue::stop and ~TaskQueue.                                         *)

StopCall(a) ==
    /\ Free(a)
    /\ a \in Stoppers
    /\ Goto(a, "stop")
    /\ UNCHANGED <<queue, running, wvars, own, sub, promise, holder, life,
                   history>>

\* No other start() or stop() is under way.
Alone(a) ==
    \A b \in Actors \ {a} :
        pc[b] \notin {"spawn", "assign", "notifyAll", "join", "joining"}

StopFlag(a) ==
    /\ Up /\ pc[a] = "stop"
    /\ ~Locked
    /\ running
    /\ running' = FALSE
    /\ owed' = [owed EXCEPT ![a] = IF Alone(a) THEN Range(accepted) ELSE {}]
    /\ Goto(a, "notifyAll")
    /\ UNCHANGED <<queue, wvars, own, sub, promise, holder, life, accepted,
                   taken>>

\* Early return: nobody is waited for.
StopNotRunning(a) ==
    /\ Up /\ pc[a] = "stop"
    /\ ~Locked
    /\ ~running
    /\ Goto(a, "idle")
    /\ UNCHANGED <<queue, running, wvars, own, sub, promise, holder, life,
                   history>>

NotifyNobody == UNCHANGED wpc              \* mutant of both notifications

NotifyAll ==
    wpc' = [w \in Workers |-> IF wpc[w] = "blocked" THEN "acquire" ELSE wpc[w]]

StopNotify(a) ==
    /\ Up /\ pc[a] = "notifyAll"
    /\ NotifyAll
    /\ Goto(a, "join")
    /\ UNCHANGED <<queue, running, handle, wtask, own, sub, promise, holder,
                   life, history>>

\* Nothing to join, or the worker itself: join() then throws (EDEADLK).
StopSkipsJoin(a) ==
    /\ Up /\ pc[a] = "join"
    /\ handle \in {NoWorker, a}
    /\ owed' = [owed EXCEPT ![a] = {}]
    /\ Goto(a, "idle")
    /\ UNCHANGED <<queue, running, wvars, own, sub, promise, holder, life,
                   accepted, taken>>

StopJoin(a) ==
    /\ Up /\ pc[a] = "join"
    /\ handle \notin {NoWorker, a}
    /\ own' = [own EXCEPT ![a] = handle]
    /\ Goto(a, "joining")
    /\ UNCHANGED <<queue, running, wvars, sub, promise, holder, life, history>>

NotAwaited(w) == TRUE                      \* mutant: join() does not wait
Ended(w) == wpc[w] = "exited"

StopJoined(a) ==
    /\ Up /\ pc[a] = "joining"
    /\ Ended(own[a])
    /\ handle = own[a]
    /\ handle' = NoWorker
    /\ own' = [own EXCEPT ![a] = NoWorker]
    /\ owed' = [owed EXCEPT ![a] = {}]
    /\ Goto(a, "idle")
    /\ UNCHANGED <<queue, running, wpc, wtask, sub, promise, holder, life,
                   accepted, taken>>

\* Another stop has joined the same thread: joining it again is undefined.
StopJoinsTwice(a) ==
    /\ Up /\ pc[a] = "joining"
    /\ Ended(own[a])
    /\ handle # own[a]
    /\ life' = "undefined"
    /\ UNCHANGED <<queue, running, wvars, cvars, promise, holder, history>>

\* The owner's scope ends; C++ requires that no other client is in a call
\* on the object (waiting on a future is not one).
BeginDestroy ==
    /\ Free(Owner)
    /\ \A c \in Clients : pc[c] \in {"idle", "get"}
    /\ life' = "dying"
    /\ Goto(Owner, "stop")
    /\ UNCHANGED <<queue, running, wvars, own, sub, promise, holder, history>>

\* The members go: queued tasks break their promises.
EndDestroy ==
    /\ life = "dying" /\ pc[Owner] = "idle"
    /\ handle = NoWorker
    /\ promise' = [t \in Tasks |-> IF t \in Range(queue) THEN "broken"
                                                         ELSE promise[t]]
    /\ queue' = <<>>
    /\ life' = "destroyed"
    /\ UNCHANGED <<running, wvars, cvars, holder, history>>

\* Destroying a joinable std::thread calls std::terminate.
DestroyTerminates ==
    /\ life = "dying" /\ pc[Owner] = "idle"
    /\ handle # NoWorker
    /\ life' = "terminated"
    /\ UNCHANGED <<queue, running, wvars, cvars, promise, holder, history>>

-----------------------------------------------------------------------------
(* TaskSystem::submit and TaskQueue::push.                                 *)

Resubmittable(t) == promise[t] \in {"none", "pending"}
                                           \* mutant: submit(Task) not deleted
Fresh(t) == promise[t] = "none"

AtFront(t) == <<t>> \o queue               \* mutant of queue.push
AtBack(t) == Append(queue, t)

Submit(a, t) ==
    /\ Free(a)
    /\ Fresh(t)
    /\ ~Locked
    /\ promise' = [promise EXCEPT ![t] = "pending"]
    /\ queue' = AtBack(t)
    /\ accepted' = Append(accepted, t)
    /\ sub' = [sub EXCEPT ![a] = t]
    /\ Goto(a, "notifyOne")
    /\ UNCHANGED <<running, wvars, own, holder, life, taken, owed>>

\* Mutant: the woken thread does not evaluate the predicate again.
WakeToRun ==
    \/ /\ \A w \in Workers : wpc[w] # "blocked"
       /\ UNCHANGED wpc
    \/ \E w \in Workers :
         /\ wpc[w] = "blocked"
         /\ wpc' = [wpc EXCEPT ![w] = "run"]

\* notify_one wakes some thread of the wait set, if there is one.
NotifyOne ==
    \/ /\ \A w \in Workers : wpc[w] # "blocked"
       /\ UNCHANGED wpc
    \/ \E w \in Workers :
         /\ wpc[w] = "blocked"
         /\ wpc' = [wpc EXCEPT ![w] = "acquire"]

SubmitReturn(a) ==
    /\ Up /\ pc[a] = "notifyOne"
    /\ NotifyOne
    /\ holder' = [holder EXCEPT ![sub[a]] = a]
    /\ sub' = [sub EXCEPT ![a] = NoTask]
    /\ Goto(a, "idle")
    /\ UNCHANGED <<queue, running, handle, wtask, own, promise, life, history>>

-----------------------------------------------------------------------------
(* TaskHandle::get.  The future outlives the TaskSystem.                   *)

CanWait(a) ==
    \/ Free(a)
    \/ a \in Clients /\ pc[a] = "idle" /\ life = "destroyed"
    \/ a \in Clients \ {Owner} /\ pc[a] = "idle" /\ life = "dying"

Get(a, t) ==
    /\ CanWait(a)
    /\ a \in Waiters
    /\ holder[t] = a
    /\ sub' = [sub EXCEPT ![a] = t]
    /\ Goto(a, "get")
    /\ UNCHANGED <<queue, running, wvars, own, promise, holder, life, history>>

GetReturn(a) ==
    /\ life \notin {"terminated", "undefined"}
    /\ pc[a] = "get"
    /\ promise[sub[a]] \in Results
    /\ holder' = [holder EXCEPT ![sub[a]] = NoActor]
    /\ sub' = [sub EXCEPT ![a] = NoTask]
    /\ Goto(a, "idle")
    /\ UNCHANGED <<queue, running, wvars, own, promise, life, history>>

-----------------------------------------------------------------------------
(* TaskQueue::processLoop and Task::execute, on thread w.                  *)

\* Mutant: the loop returns on an empty queue instead of waiting.
ReturnIfEmpty == IF queue # <<>> \/ ~running THEN "decide" ELSE "exited"

\* Mutant: the loop waits without a predicate, so any wakeup goes on.
AnyWakeup == "decide"

AfterPredicate == IF queue # <<>> \/ ~running THEN "decide" ELSE "blocked"

\* Takes m and evaluates the predicate of cv.wait.
Acquire(w) ==
    /\ Up /\ wpc[w] = "acquire"
    /\ ~Locked
    /\ wpc' = [wpc EXCEPT ![w] = AfterPredicate]
    /\ UNCHANGED <<queue, running, handle, wtask, cvars, promise, holder, life,
                   history>>

SpuriousWakeup(w) ==
    /\ Up /\ wpc[w] = "blocked"
    /\ wpc' = [wpc EXCEPT ![w] = "acquire"]
    /\ UNCHANGED <<queue, running, handle, wtask, cvars, promise, holder, life,
                   history>>

StopNow == ~running                        \* mutant: exits without draining
StopWhenDrained == ~running /\ queue = <<>>

Exit(w) ==
    /\ Up /\ wpc[w] = "decide"
    /\ StopWhenDrained
    /\ wpc' = [wpc EXCEPT ![w] = "exited"]
    /\ UNCHANGED <<queue, running, handle, wtask, cvars, promise, holder, life,
                   history>>

Unpopped == queue                          \* mutant: front() without pop()
Popped == Tail(queue)

Take(w) ==
    /\ Up /\ wpc[w] = "decide"
    /\ queue # <<>>
    /\ wtask' = [wtask EXCEPT ![w] = Head(queue)]
    /\ taken' = Append(taken, Head(queue))
    /\ queue' = Popped
    /\ wpc' = [wpc EXCEPT ![w] = "run"]
    /\ UNCHANGED <<running, handle, cvars, promise, holder, life, accepted,
                   owed>>

\* A start() set running again after the predicate saw it clear: front()
\* of an empty queue is undefined.
TakeNothing(w) ==
    /\ Up /\ wpc[w] = "decide"
    /\ running /\ queue = <<>>
    /\ life' = "undefined"
    /\ UNCHANGED <<queue, running, wvars, cvars, promise, holder, history>>

\* The executor returns or throws; an empty one is skipped, and the promise
\* breaks when the loop drops the task.
Outcomes(t) == IF t \in EmptyTasks THEN {"broken"} ELSE {"value", "exception"}

Finish(w, r) ==
    /\ Up /\ wpc[w] = "run" /\ pc[w] = "idle"
    /\ r \in Outcomes(wtask[w])
    /\ promise' = [promise EXCEPT ![wtask[w]] = r]
    /\ wtask' = [wtask EXCEPT ![w] = NoTask]
    /\ wpc' = [wpc EXCEPT ![w] = "acquire"]
    /\ UNCHANGED <<queue, running, handle, cvars, holder, life, history>>

ExecutorReturns(w) == \E r \in Results : Finish(w, r)

-----------------------------------------------------------------------------
StartStep(a) ==
    \/ \E w \in Workers : StartFlag(a, w)
    \/ StartSpawn(a) \/ StartFails(a) \/ StartAssign(a) \/ StartTerminates(a)

StopStep(a) ==
    \/ StopCall(a) \/ StopFlag(a) \/ StopNotRunning(a) \/ StopNotify(a)
    \/ StopSkipsJoin(a) \/ StopJoin(a) \/ StopJoined(a) \/ StopJoinsTwice(a)

HandleStep(a) ==
    \/ \E t \in Tasks : Submit(a, t) \/ Get(a, t)
    \/ SubmitReturn(a) \/ GetReturn(a)

LoopStep(w) ==
    \/ Acquire(w) \/ SpuriousWakeup(w) \/ Exit(w) \/ Take(w) \/ TakeNothing(w)
    \/ ExecutorReturns(w)

DestroyStep == BeginDestroy \/ EndDestroy \/ DestroyTerminates

Next ==
    \/ \E a \in Actors : StartStep(a) \/ StopStep(a) \/ HandleStep(a)
    \/ \E w \in Workers : LoopStep(w)
    \/ DestroyStep

Spec == Init /\ [][Next]_vars

(***************************************************************************)
(* The operating system schedules every thread, so a call that has begun   *)
(* goes on unless it is blocked.  An executor makes finitely many calls,   *)
(* so one that is again and again between two calls returns: the strong    *)
(* fairness.  Nobody is obliged to make a call, and no spurious wakeup is  *)
(* relied on.                                                              *)
(***************************************************************************)
RuntimeStep(a) ==
    \/ StartSpawn(a) \/ StartAssign(a) \/ StartTerminates(a)
    \/ StopFlag(a) \/ StopNotRunning(a) \/ StopNotify(a) \/ StopSkipsJoin(a)
    \/ StopJoin(a) \/ StopJoined(a) \/ StopJoinsTwice(a)
    \/ SubmitReturn(a)

CallStep(a) == RuntimeStep(a) \/ GetReturn(a)

RunStep(w) ==
    Acquire(w) \/ Exit(w) \/ Take(w) \/ TakeNothing(w)

Fairness ==
    /\ \A a \in Actors : WF_vars(CallStep(a))
    /\ \A w \in Workers : WF_vars(RunStep(w)) /\ SF_vars(ExecutorReturns(w))
    /\ WF_vars(EndDestroy \/ DestroyTerminates)

FairSpec == Spec /\ Fairness

-----------------------------------------------------------------------------
(* Properties.                                                             *)

\* The type of the state.
TypeOK ==
    /\ queue \in Seq(Tasks)
    /\ running \in BOOLEAN
    /\ handle \in Workers \cup {NoWorker}
    /\ wpc \in [Workers -> InLoop \cup {"unborn", "starting", "failed",
                                        "exited"}]
    /\ wtask \in [Workers -> Tasks \cup {NoTask}]
    /\ pc \in [Actors -> {"idle", "spawn", "assign", "stop", "notifyAll",
                          "join", "joining", "notifyOne", "get"}]
    /\ own \in [Actors -> Workers \cup {NoWorker}]
    /\ sub \in [Actors -> Tasks \cup {NoTask}]
    /\ \A a \in Actors :
         /\ pc[a] \in {"spawn", "assign", "joining"} => own[a] \in Workers
         /\ pc[a] \in {"notifyOne", "get"} => sub[a] \in Tasks
    /\ \A w \in Workers : wpc[w] = "run" => wtask[w] \in Tasks
    /\ promise \in [Tasks -> {"none", "pending"} \cup Results]
    /\ holder \in [Tasks -> Actors \cup {NoActor}]
    /\ life \in {"alive", "dying", "destroyed", "terminated", "undefined"}
    /\ accepted \in Seq(Tasks)
    /\ taken \in Seq(Tasks)
    /\ owed \in [Actors -> SUBSET Tasks]

\* Tasks leave the queue in the order push appended them, each exactly once:
\* what was accepted is what was taken followed by what is queued, however
\* many threads push and pop.  After ~TaskQueue only the taken prefix remains.
FirstInFirstOut ==
    /\ IsInjective(accepted)
    /\ IF life = "destroyed"
       THEN taken = SubSeq(accepted, 1, Len(taken))
       ELSE accepted = taken \o queue

\* A task that execute() is about to complete has a pending promise and is
\* no other worker's task and not still queued: set_value is called at most
\* once per task, so it never throws promise_already_satisfied.
CompletedOnce ==
    \A w \in Workers : wpc[w] = "run" =>
        /\ promise[wtask[w]] = "pending"
        /\ wtask[w] \notin Range(queue)
        /\ \A v \in Workers : wpc[v] = "run" /\ wtask[v] = wtask[w] => v = w

\* The queue is single-consumer: two worker threads are in processLoop at
\* once only while a start() has created a thread it has not yet assigned.
\* In particular every thread in the loop is the one stop() would join.
SingleConsumer ==
    \A w \in Workers : Live(w) =>
        w = handle \/ \E a \in Actors : pc[a] = "assign" /\ own[a] = w

\* A worker whose wait is over holds m, but start() sets running without it:
\* line 51 may find running set again and go on to front() (line 55).  It then
\* finds a task, unless a start() other than its own is under way: starts and
\* stops that come one after another never reach front() of an empty queue.
\* (A start() whose thread creation failed is over and has set running.)
FrontHasTask ==
    \A w \in Workers :
        /\ Up /\ wpc[w] = "decide" /\ running
        /\ \A v \in Workers : wpc[v] # "failed"
        => \/ queue # <<>>
           \/ \E a \in Actors : /\ pc[a] \in {"spawn", "assign"}
                                /\ own[a] = w => handle # NoWorker

\* No thread is in processLoop once the members of TaskQueue are destroyed.
NoWorkerOutlivesQueue ==
    life = "destroyed" => \A w \in Workers : ~Live(w)

\* Thread w, which a start() has created and not yet assigned to worker,
\* executes task t: a stop() beside that start() does not see the thread.
OnUnassigned(w, t) ==
    /\ wpc[w] = "run" /\ wtask[w] = t
    /\ \E c \in Actors : pc[c] = "assign" /\ own[c] = w

\* A stop() that cleared running while no other start() or stop() was under
\* way, and joins, returns only when every task accepted before it cleared
\* running has its result - or is being executed, at that moment, by a thread
\* that a later start() has created and not yet assigned, which no stop()
\* waits for.  A start() whose thread creation failed leaves running set over
\* an exited thread, and voids the promise.
StopDrains ==
    \A a \in Actors :
        /\ Up /\ pc[a] = "joining" /\ wpc[own[a]] = "exited"
        /\ handle = own[a]
        /\ \A w \in Workers : wpc[w] # "failed"
        => \A t \in owed[a] :
              promise[t] \in Results \/ \E w \in Workers : OnUnassigned(w, t)

\* While the runtime says it runs, and no start() or stop() is in progress
\* and no thread creation has failed, there is a worker to serve the queue.
RunningHasWorker ==
    /\ Up /\ running
    /\ \A a \in Actors : pc[a] \in {"idle", "notifyOne", "get", "stop"}
    /\ \A w \in Workers : wpc[w] # "failed"
    => \E w \in Workers : Live(w)

\* No wakeup is lost in the gap between an unlock and the notification after
\* it (push lines 31-37, stop lines 18-23): when a thread sleeps in cv.wait
\* although its predicate holds, a notification is still to come.  A thread
\* that is awake and will look at the queue again does as well as a
\* notify_one, which is what lets one notification stand for several tasks.
NoLostWakeup ==
    (\E w \in Workers : wpc[w] = "blocked") =>
        /\ ~running => \E a \in Actors : pc[a] = "notifyAll"
        /\ queue # <<>> =>
             \/ \E a \in Actors : pc[a] = "notifyOne"
             \/ \E w \in Workers : Live(w) /\ wpc[w] # "blocked"

\* Nobody waits in join() for a thread that cannot end (taskqueue.cpp 26-27):
\* the thread has been created, is not the caller, is not itself in a join()
\* of another live thread, and sleeps only while a restart has set running
\* again or a notification is to come.
JoinsCanEnd ==
    \A a \in Actors : pc[a] = "joining" =>
        LET w == own[a] IN
        /\ Live(w) \/ wpc[w] = "exited"
        /\ w # a
        /\ pc[w] = "joining" => wpc[own[w]] = "exited"
        /\ wpc[w] = "blocked" => running \/ \E b \in Actors : pc[b] = "notifyAll"

\* The callers' view: threads, lock and wakeups hidden.
StageOf(t) ==
    CASE promise[t] = "none" -> "fresh"
      [] promise[t] = "pending" /\ t \in Range(queue) -> "waiting"
      [] promise[t] = "pending" /\ t \notin Range(queue) -> "begun"
      [] OTHER -> promise[t]

Contract == INSTANCE TaskContract WITH
    line <- queue,
    stage <- [t \in Tasks |-> StageOf(t)],
    closed <- (life = "destroyed")

\* The runtime keeps its callers' contract: in-order, at-most-once results,
\* no result taken back, and no running task abandoned by the destructor.
KeepsContract == Contract!Spec

\* An executor waits for its own task, or for one that is queued behind it.
WaitsForItself(w) ==
    wpc[w] = "run" /\ pc[w] = "get" /\ sub[w] \in Range(queue) \cup {wtask[w]}

\* The only way to stop the runtime for ever: nothing in the code detects it.
SelfDeadlock == <>[](\E w \in Workers : WaitsForItself(w))

Served(t) == t \in Range(queue) /\ \E w \in Workers : Live(w)

\* A queued task that a worker can serve gets its result: no wakeup is lost
\* between push's unlock and its notify, or between stop's and its.  Nor do
\* callers that wait for one another deadlock, unless an executor waits for
\* itself.
QueuedTasksComplete ==
    \/ SelfDeadlock
    \/ \A t \in Tasks : Served(t) ~> (promise[t] \in Results \/ ~Up)

\* When nobody but the owner starts the runtime, and no thread creation
\* fails, every stop() returns (or the process ends), whatever is being
\* submitted and waited for, unless an executor waits for itself.  (Beside a
\* start() of another thread a stop() may join a thread for which running has
\* been set again, and wait for the next stop().)
StopReturns ==
    \/ SelfDeadlock
    \/ \A a \in Actors :
          pc[a] \in {"stop", "notifyAll", "join", "joining"}
              ~> (pc[a] = "idle" \/ ~Up)
=============================================================================
