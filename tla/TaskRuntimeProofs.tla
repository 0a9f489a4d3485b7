------------------------- MODULE TaskRuntimeProofs -------------------------
(***************************************************************************)
(* Theorems about TaskRuntime, for any clients, threads and tasks.         *)
(***************************************************************************)
EXTENDS TaskRuntime, SequenceTheorems, TLAPS

-----------------------------------------------------------------------------
(* Type correctness.                                                       *)

\* Every step of a start() keeps the types.
LEMMA TypeStart ==
    ASSUME TypeOK, NEW a \in Actors, StartStep(a)
    PROVE  TypeOK'
  <1> USE DEF TypeOK, InLoop, Results, history, wvars, cvars, Goto
  <1>1. ASSUME NEW w \in Workers, StartFlag(a, w) PROVE TypeOK'
    BY <1>1 DEF StartFlag
  <1>2. CASE StartSpawn(a)
    BY <1>2 DEF StartSpawn
  <1>3. CASE StartFails(a)
    BY <1>3 DEF StartFails
  <1>4. CASE StartAssign(a)
    BY <1>4 DEF StartAssign
  <1>5. CASE StartTerminates(a)
    BY <1>5 DEF StartTerminates
  <1> QED BY <1>1, <1>2, <1>3, <1>4, <1>5 DEF StartStep

\* Every step of a stop() keeps the types.
LEMMA TypeStop ==
    ASSUME TypeOK, NEW a \in Actors, StopStep(a)
    PROVE  TypeOK'
  <1> USE DEF TypeOK, InLoop, Results, history, wvars, cvars, Goto
  <1>1. CASE StopCall(a)
    BY <1>1 DEF StopCall
  <1>2. CASE StopFlag(a)
    BY <1>2, RangeOfSeq DEF StopFlag
  <1>3. CASE StopNotRunning(a)
    BY <1>3 DEF StopNotRunning
  <1>4. CASE StopNotify(a)
    BY <1>4 DEF StopNotify, NotifyAll
  <1>5. CASE StopSkipsJoin(a)
    BY <1>5 DEF StopSkipsJoin
  <1>6. CASE StopJoin(a)
    BY <1>6 DEF StopJoin
  <1>7. CASE StopJoined(a)
    BY <1>7 DEF StopJoined, Ended
  <1>8. CASE StopJoinsTwice(a)
    BY <1>8 DEF StopJoinsTwice
  <1> QED BY <1>1, <1>2, <1>3, <1>4, <1>5, <1>6, <1>7, <1>8 DEF StopStep

\* Submitting, and waiting on a handle, keep the types.
LEMMA TypeHandle ==
    ASSUME TypeOK, NEW a \in Actors, HandleStep(a)
    PROVE  TypeOK'
  <1> USE DEF TypeOK, InLoop, Results, history, wvars, cvars, Goto
  <1>1. ASSUME NEW t \in Tasks, Submit(a, t) PROVE TypeOK'
    <2>1. queue' \in Seq(Tasks) /\ accepted' \in Seq(Tasks)
      BY <1>1, AppendProperties DEF Submit, AtBack, Fresh
    <2> QED BY <1>1, <2>1 DEF Submit, AtBack, Fresh
  <1>2. ASSUME NEW t \in Tasks, Get(a, t) PROVE TypeOK'
    BY <1>2 DEF Get
  <1>3. CASE SubmitReturn(a)
    <2>1. wpc' \in [Workers -> InLoop \cup {"unborn", "starting", "failed",
                                            "exited"}]
      BY <1>3 DEF SubmitReturn, NotifyOne
    <2>2. \A w \in Workers : wpc'[w] = "run" => wtask'[w] \in Tasks
      BY <1>3 DEF SubmitReturn, NotifyOne
    <2> QED BY <1>3, <2>1, <2>2 DEF SubmitReturn
  <1>4. CASE GetReturn(a)
    BY <1>4 DEF GetReturn
  <1> QED BY <1>1, <1>2, <1>3, <1>4 DEF HandleStep

\* Every step of a worker thread keeps the types.
LEMMA TypeLoop ==
    ASSUME TypeOK, NEW w \in Workers, LoopStep(w)
    PROVE  TypeOK'
  <1> USE DEF TypeOK, InLoop, Results, history, wvars, cvars
  <1>1. CASE Acquire(w)
    BY <1>1 DEF Acquire, AfterPredicate
  <1>2. CASE SpuriousWakeup(w)
    BY <1>2 DEF SpuriousWakeup
  <1>3. CASE Exit(w)
    BY <1>3 DEF Exit
  <1>4. CASE Take(w)
    <2>1. Head(queue) \in Tasks /\ queue' \in Seq(Tasks)
      BY <1>4, HeadTailProperties DEF Take, Popped
    <2>2. taken' \in Seq(Tasks)
      BY <1>4, <2>1, AppendProperties DEF Take, Popped
    <2> QED BY <1>4, <2>1, <2>2 DEF Take, Popped
  <1>5. CASE TakeNothing(w)
    BY <1>5 DEF TakeNothing
  <1>6. ASSUME NEW r \in Results, Finish(w, r) PROVE TypeOK'
    BY <1>6 DEF Finish
  <1> QED BY <1>1, <1>2, <1>3, <1>4, <1>5, <1>6 DEF LoopStep, ExecutorReturns

\* Destroying the TaskSystem keeps the types.
LEMMA TypeDestroy ==
    ASSUME TypeOK, DestroyStep
    PROVE  TypeOK'
  <1> USE DEF TypeOK, InLoop, Results, history, wvars, cvars, Goto
  <1>1. CASE BeginDestroy
    BY <1>1 DEF BeginDestroy
  <1>2. CASE EndDestroy
    <2>1. queue' \in Seq(Tasks)
      BY <1>2, EmptySeq DEF EndDestroy
    <2> QED BY <1>2, <2>1 DEF EndDestroy
  <1>3. CASE DestroyTerminates
    BY <1>3 DEF DestroyTerminates
  <1> QED BY <1>1, <1>2, <1>3 DEF DestroyStep

\* The initial state is well typed.
LEMMA TypeInit == Init => TypeOK
  <1> SUFFICES ASSUME Init PROVE TypeOK
    OBVIOUS
  <1>1. queue \in Seq(Tasks) /\ accepted \in Seq(Tasks) /\ taken \in Seq(Tasks)
    BY EmptySeq DEF Init
  <1>2. owed \in [Actors -> SUBSET Tasks]
    BY DEF Init
  <1>3. /\ \A a \in Actors : pc[a] = "idle"
        /\ \A w \in Workers : wpc[w] = "unborn"
    BY DEF Init
  <1> QED BY <1>1, <1>2, <1>3 DEF Init, TypeOK, InLoop, Results

\* No step of the runtime leaves the types.
LEMMA TypeStep == TypeOK /\ [Next]_vars => TypeOK'
  <1> SUFFICES ASSUME TypeOK, [Next]_vars PROVE TypeOK'
    OBVIOUS
  <1>1. CASE UNCHANGED vars
    BY <1>1 DEF TypeOK, vars
  <1> QED BY <1>1, TypeStart, TypeStop, TypeHandle, TypeLoop, TypeDestroy
          DEF Next

\* The state keeps its types in every run of the runtime.
THEOREM TypeCorrect == Spec => []TypeOK
  BY TypeInit, TypeStep, PTL DEF Spec

-----------------------------------------------------------------------------
(* Sequences without repetition.                                           *)

\* Appending adds one element to the range of a sequence.
LEMMA RangeAppend ==
    ASSUME NEW S, NEW s \in Seq(S), NEW e \in S
    PROVE  Range(Append(s, e)) = Range(s) \cup {e}
  <1> DEFINE n == Len(s)
             r == Append(s, e)
  <1>1. /\ n \in Nat /\ DOMAIN s = 1..n /\ DOMAIN r = 1..(n + 1)
        /\ \A i \in 1..n : r[i] = s[i]
        /\ r[n + 1] = e
    BY AppendProperties, LenProperties
  <1>2. ASSUME NEW x \in Range(r) PROVE x \in Range(s) \cup {e}
    <2>1. PICK i \in 1..(n + 1) : x = r[i]
      BY <1>1 DEF Range
    <2> QED BY <1>1, <2>1 DEF Range
  <1>3. ASSUME NEW x \in Range(s) PROVE x \in Range(r)
    <2>1. PICK i \in 1..n : x = s[i]
      BY <1>1 DEF Range
    <2>2. i \in DOMAIN r /\ x = r[i]
      BY <1>1, <2>1
    <2> QED BY <2>2 DEF Range
  <1>4. e \in Range(r)
    <2>1. n + 1 \in DOMAIN r
      BY <1>1
    <2> QED BY <1>1, <2>1 DEF Range
  <1> QED BY <1>2, <1>3, <1>4

\* Appending a new element leaves a sequence without repetition.
LEMMA InjectiveAppend ==
    ASSUME NEW S, NEW s \in Seq(S), NEW e \in S,
           IsInjective(s), e \notin Range(s)
    PROVE  IsInjective(Append(s, e))
  <1> DEFINE n == Len(s)
             r == Append(s, e)
  <1>1. /\ n \in Nat /\ DOMAIN s = 1..n /\ DOMAIN r = 1..(n + 1)
        /\ \A i \in 1..n : r[i] = s[i]
        /\ r[n + 1] = e
    BY AppendProperties, LenProperties
  <1>2. \A i \in 1..n : r[i] # e
    BY <1>1 DEF Range
  <1>3. ASSUME NEW i \in DOMAIN r, NEW j \in DOMAIN r, r[i] = r[j]
        PROVE  i = j
    <2>1. CASE i \in 1..n /\ j \in 1..n
      BY <1>1, <1>3, <2>1 DEF IsInjective
    <2>2. CASE i = n + 1 \/ j = n + 1
      BY <1>1, <1>2, <1>3, <2>2
    <2> QED BY <1>1, <2>1, <2>2
  <1> QED BY <1>3 DEF IsInjective

\* Removing the head of a sequence without repetition removes exactly that
\* element, and leaves no repetition.
LEMMA TailOfInjective ==
    ASSUME NEW S, NEW s \in Seq(S), s # <<>>, IsInjective(s)
    PROVE  /\ IsInjective(Tail(s))
           /\ Range(Tail(s)) = Range(s) \ {Head(s)}
           /\ Head(s) \in Range(s)
  <1> DEFINE n == Len(s)
             r == Tail(s)
  <1>1. /\ n \in Nat \ {0} /\ DOMAIN s = 1..n /\ DOMAIN r = 1..(n - 1)
        /\ \A i \in 1..(n - 1) : r[i] = s[i + 1]
        /\ Head(s) = s[1]
    BY HeadTailProperties, LenProperties, EmptySeq
  <1>2. IsInjective(r)
    <2>1. ASSUME NEW i \in 1..(n - 1), NEW j \in 1..(n - 1), r[i] = r[j]
          PROVE  i = j
      <3>1. i + 1 \in DOMAIN s /\ j + 1 \in DOMAIN s /\ s[i + 1] = s[j + 1]
        BY <1>1, <2>1
      <3>2. i + 1 = j + 1
        BY <3>1 DEF IsInjective
      <3> QED BY <3>2
    <2> QED BY <1>1, <2>1 DEF IsInjective
  <1>3. ASSUME NEW x \in Range(r) PROVE x \in Range(s) \ {Head(s)}
    <2>1. PICK i \in 1..(n - 1) : x = s[i + 1]
      BY <1>1 DEF Range
    <2>2. i + 1 \in DOMAIN s /\ 1 \in DOMAIN s /\ i + 1 # 1
      BY <1>1
    <2>3. s[i + 1] # s[1]
      BY <2>2 DEF IsInjective
    <2> QED BY <1>1, <2>1, <2>2, <2>3 DEF Range
  <1>4. ASSUME NEW x \in Range(s) \ {Head(s)} PROVE x \in Range(r)
    <2>1. PICK i \in 1..n : x = s[i] /\ i # 1
      BY <1>1, <1>4 DEF Range
    <2>2. i - 1 \in 1..(n - 1) /\ r[i - 1] = x
      BY <1>1, <2>1
    <2> QED BY <1>1, <2>2 DEF Range
  <1>5. Head(s) \in Range(s)
    BY <1>1 DEF Range
  <1> QED BY <1>2, <1>3, <1>4, <1>5

-----------------------------------------------------------------------------
(* A start() that has set running owns a thread nobody else runs.          *)

\* A thread that a start() is about to create is nobody else's and runs
\* nothing, and an executor is in a call only while its thread runs it.
StartInv ==
    /\ \A w \in Workers : pc[w] # "idle" => wpc[w] = "run"
    /\ \A a \in Actors : pc[a] = "spawn" => wpc[own[a]] = "starting"
    /\ \A a, b \in Actors :
         pc[a] = "spawn" /\ pc[b] = "spawn" /\ own[a] = own[b] => a = b

\* A step outside start() begins no start and disturbs none.
StartsUndisturbed ==
    /\ \A w \in Workers : pc'[w] # "idle" => wpc'[w] = "run"
    /\ \A a \in Actors : pc'[a] = "spawn" => pc[a] = "spawn" /\ own'[a] = own[a]
    /\ \A w \in Workers : wpc[w] = "starting" => wpc'[w] = "starting"

\* Only start() disturbs a start().
LEMMA OthersDisturbNoStart ==
    ASSUME TypeOK, StartInv,
           \/ \E a \in Actors : StopStep(a) \/ HandleStep(a)
           \/ \E w \in Workers : LoopStep(w)
           \/ DestroyStep
    PROVE  StartsUndisturbed
  <1> USE ActorAssumption
          DEF StartsUndisturbed, StartInv, TypeOK, InLoop, Goto, Free, CanWait,
              Actors, history, wvars, cvars
  <1>1. ASSUME NEW a \in Actors, StopStep(a) PROVE StartsUndisturbed
    <2>1. CASE StopNotify(a)
      BY <2>1 DEF StopNotify, NotifyAll
    <2>2. CASE ~StopNotify(a)
      BY <1>1, <2>2 DEF StopStep, StopCall, StopFlag, StopNotRunning,
         StopSkipsJoin, StopJoin, StopJoined, StopJoinsTwice
    <2> QED BY <2>1, <2>2
  <1>2. ASSUME NEW a \in Actors, HandleStep(a) PROVE StartsUndisturbed
    BY <1>2 DEF HandleStep, Submit, AtBack, Fresh, SubmitReturn, NotifyOne, Get, GetReturn
  <1>3. ASSUME NEW w \in Workers, LoopStep(w) PROVE StartsUndisturbed
    BY <1>3 DEF LoopStep, Acquire, AfterPredicate, SpuriousWakeup, Exit, Take, TakeNothing,
                ExecutorReturns, Finish
  <1>4. CASE DestroyStep
    BY <1>4 DEF DestroyStep, BeginDestroy, EndDestroy, DestroyTerminates,
                Actors
  <1> QED BY <1>1, <1>2, <1>3, <1>4

\* StartInv holds at the start and is kept by every step.
LEMMA StartInductive ==
    /\ Init => StartInv
    /\ TypeOK /\ StartInv /\ [Next]_vars => StartInv'
  <1>1. Init => StartInv
    BY DEF Init, StartInv, Actors
  <1>2. ASSUME TypeOK, StartInv, StartsUndisturbed PROVE StartInv'
    BY <1>2 DEF StartInv, StartsUndisturbed, TypeOK
  <1>3. ASSUME TypeOK, StartInv, NEW a \in Actors, StartStep(a)
        PROVE  StartInv'
    <2> USE <1>3, ActorAssumption
            DEF StartInv, TypeOK, InLoop, Goto, Actors, history, wvars, cvars
    <2>1. ASSUME NEW w \in Workers, StartFlag(a, w) PROVE StartInv'
      BY <2>1 DEF StartFlag, Free
    <2>2. CASE StartSpawn(a)
      BY <2>2 DEF StartSpawn
    <2>3. CASE StartFails(a)
      BY <2>3 DEF StartFails
    <2>4. CASE StartAssign(a)
      BY <2>4 DEF StartAssign
    <2>5. CASE StartTerminates(a)
      BY <2>5 DEF StartTerminates
    <2> QED BY <2>1, <2>2, <2>3, <2>4, <2>5 DEF StartStep
  <1>4. ASSUME TypeOK, StartInv, UNCHANGED vars PROVE StartInv'
    BY <1>4 DEF vars, StartInv
  <1> QED BY <1>1, <1>2, <1>3, <1>4, OthersDisturbNoStart DEF Next

-----------------------------------------------------------------------------
(* One consumer, and none after the destructor.                            *)

\* Among any live threads one is in the thread object, or about to be assigned
\* by an actor that is none of them: threads cannot all have been created by
\* one another's executors.
Rooted ==
    \A S \in SUBSET Workers :
        S # {} /\ (\A w \in S : Live(w)) =>
            \E w \in S :
                \/ w = handle
                \/ \E a \in Actors \ S : pc[a] = "assign" /\ own[a] = w

\* Most steps create no thread, keep the thread object while its thread lives,
\* and leave every assignment to come.
RootsStand ==
    /\ \A w \in Workers : Live(w)' => Live(w)
    /\ \A w \in Workers : Live(w) /\ w = handle => w = handle'
    /\ \A a \in Actors : pc[a] = "assign" => pc'[a] = "assign" /\ own'[a] = own[a]

\* Such steps keep the threads rooted.
LEMMA RootedFrame ==
    ASSUME Rooted, RootsStand
    PROVE  Rooted'
  <1> SUFFICES ASSUME NEW S \in SUBSET Workers, S # {}, \A w \in S : Live(w)'
               PROVE  \E w \in S :
                         \/ w = handle'
                         \/ \E a \in Actors \ S : pc'[a] = "assign" /\ own'[a] = w
    BY DEF Rooted
  <1>1. \A w \in S : Live(w)
    BY DEF RootsStand
  <1>2. PICK w \in S : \/ w = handle
                       \/ \E a \in Actors \ S : pc[a] = "assign" /\ own[a] = w
    BY <1>1 DEF Rooted
  <1> QED BY <1>1, <1>2 DEF RootsStand

\* A new thread is assigned by its creator, which no thread of its own can be:
\* it has executed nothing yet.
LEMMA RootedSpawn ==
    ASSUME TypeOK, StartInv, Rooted, NEW a \in Actors, StartSpawn(a)
    PROVE  Rooted'
  <1> DEFINE n == own[a]
  <1>1. /\ n \in Workers /\ n \in Actors /\ wpc[n] = "starting" /\ pc[n] = "idle"
        /\ wpc' = [wpc EXCEPT ![n] = "acquire"] /\ handle' = handle
        /\ own' = own /\ pc' = [pc EXCEPT ![a] = "assign"] /\ pc[a] = "spawn"
    BY DEF StartSpawn, StartInv, TypeOK, Goto, Actors
  <1>2. a # n /\ pc'[a] = "assign" /\ own'[a] = n
    BY <1>1 DEF TypeOK
  <1>3. \A b \in Actors : pc[b] = "assign" =>
                           b # n /\ pc'[b] = "assign" /\ own'[b] = own[b]
    BY <1>1 DEF TypeOK
  <1> HIDE DEF n
  <1> SUFFICES ASSUME NEW S \in SUBSET Workers, S # {}, \A w \in S : Live(w)'
               PROVE  \E w \in S :
                         \/ w = handle'
                         \/ \E b \in Actors \ S : pc'[b] = "assign" /\ own'[b] = w
    BY DEF Rooted
  <1> DEFINE R == S \ {n}
  <1>4. \A w \in R : Live(w)
    BY <1>1 DEF Live, TypeOK
  <1>5. CASE R = {}
    <2>1. S = {n} /\ a \notin S
      BY <1>2, <1>5
    <2> QED BY <1>2, <2>1
  <1>6. CASE R # {}
    <2>1. PICK w \in R : \/ w = handle
                         \/ \E b \in Actors \ R : pc[b] = "assign" /\ own[b] = w
      BY <1>4, <1>6 DEF Rooted
    <2> QED BY <1>1, <1>3, <2>1
  <1> QED BY <1>5, <1>6

\* The other steps of a start() leave the roots, or assign the new thread.
LEMMA RootedStart ==
    ASSUME TypeOK, StartInv, Rooted, NEW a \in Actors, StartStep(a)
    PROVE  Rooted'
  <1> USE DEF TypeOK, StartInv, RootsStand, Live, InLoop, Goto, Free, history,
              wvars, cvars
  <1>1. ASSUME NEW w \in Workers, StartFlag(a, w) PROVE RootsStand
    BY <1>1 DEF StartFlag
  <1>2. ASSUME StartFails(a) PROVE RootsStand
    BY <1>2 DEF StartFails
  <1>3. ASSUME StartTerminates(a) PROVE RootsStand
    BY <1>3 DEF StartTerminates
  <1>4. ASSUME StartAssign(a) PROVE Rooted'
    <2>1. /\ handle = NoWorker /\ handle' = own[a] /\ wpc' = wpc
          /\ \A b \in Actors \ {a} : pc'[b] = pc[b] /\ own'[b] = own[b]
      BY <1>4 DEF StartAssign
    <2>2. NoWorker \notin Workers
      BY ActorAssumption DEF Actors
    <2> SUFFICES ASSUME NEW S \in SUBSET Workers, S # {},
                        \A w \in S : Live(w)'
                 PROVE  \E w \in S :
                           \/ w = handle'
                           \/ \E b \in Actors \ S :
                                 pc'[b] = "assign" /\ own'[b] = w
      BY DEF Rooted
    <2>3. PICK w \in S : \E b \in Actors \ S : pc[b] = "assign" /\ own[b] = w
      BY <2>1, <2>2 DEF Rooted
    <2> QED BY <2>1, <2>3
  <1> QED BY <1>1, <1>2, <1>3, <1>4, RootedSpawn, RootedFrame DEF StartStep

\* Outside start() no thread is created, and the thread object is cleared only
\* once its thread has ended.
LEMMA OthersKeepRoots ==
    ASSUME TypeOK,
           \/ \E a \in Actors : StopStep(a) \/ HandleStep(a)
           \/ \E w \in Workers : LoopStep(w)
           \/ DestroyStep
    PROVE  RootsStand
  <1> USE ActorAssumption
          DEF RootsStand, TypeOK, Live, InLoop, Goto, Free, Actors, history,
              wvars, cvars
  <1>1. ASSUME NEW a \in Actors, StopStep(a) PROVE RootsStand
    <2>1. CASE StopJoined(a)
      BY <2>1 DEF StopJoined, Ended
    <2>2. CASE ~StopJoined(a)
      BY <1>1, <2>2 DEF StopStep, StopCall, StopFlag, StopNotRunning,
         StopNotify, NotifyAll, StopSkipsJoin, StopJoin, StopJoinsTwice
    <2> QED BY <2>1, <2>2
  <1>2. ASSUME NEW a \in Actors, HandleStep(a) PROVE RootsStand
    BY <1>2 DEF HandleStep, Submit, SubmitReturn, NotifyOne, Get, GetReturn,
                CanWait
  <1>3. ASSUME NEW w \in Workers, LoopStep(w) PROVE RootsStand
    BY <1>3 DEF LoopStep, Acquire, AfterPredicate, SpuriousWakeup, Exit, Take,
                TakeNothing, ExecutorReturns, Finish
  <1>4. CASE DestroyStep
    BY <1>4 DEF DestroyStep, BeginDestroy, EndDestroy, DestroyTerminates
  <1> QED BY <1>1, <1>2, <1>3, <1>4

\* The threads are rooted at the start and every step keeps them so.
LEMMA RootedInductive ==
    /\ Init => Rooted
    /\ TypeOK /\ StartInv /\ Rooted /\ [Next]_vars => Rooted'
  <1>1. Init => Rooted
    BY DEF Init, Rooted, Live, InLoop
  <1>2. ASSUME TypeOK, StartInv, Rooted, [Next]_vars PROVE Rooted'
    <2>1. CASE UNCHANGED vars
      <3>1. RootsStand
        BY <2>1 DEF vars, RootsStand, Live
      <3> QED BY <1>2, <3>1, RootedFrame
    <2> QED BY <1>2, <2>1, RootedStart, OthersKeepRoots, RootedFrame DEF Next
  <1> QED BY <1>1, <1>2

\* What else makes SingleConsumer and NoWorkerOutlivesQueue inductive: from the
\* moment the destructor begins no other client is inside a call on the object.
ThreadInv ==
    /\ SingleConsumer
    /\ NoWorkerOutlivesQueue
    /\ life \in {"dying", "destroyed"} =>
         \A c \in Clients :
            \/ pc[c] \in {"idle", "get"}
            \/ /\ c = Owner /\ life = "dying"
               /\ pc[c] \in {"stop", "notifyAll", "join", "joining"}

\* A start() keeps every live thread joinable or about to be assigned.
LEMMA ThreadStart ==
    ASSUME TypeOK, ThreadInv, NEW a \in Actors, StartStep(a)
    PROVE  ThreadInv'
  <1> USE ActorAssumption
          DEF TypeOK, ThreadInv, SingleConsumer, NoWorkerOutlivesQueue, Live,
              InLoop, Up, Goto, Actors, history, wvars, cvars
  <1>1. ASSUME NEW w \in Workers, StartFlag(a, w) PROVE ThreadInv'
    BY <1>1 DEF StartFlag, Free
  <1>2. CASE StartSpawn(a)
    BY <1>2 DEF StartSpawn
  <1>3. CASE StartFails(a)
    BY <1>3 DEF StartFails
  <1>4. CASE StartAssign(a)
    BY <1>4 DEF StartAssign
  <1>5. CASE StartTerminates(a)
    BY <1>5 DEF StartTerminates
  <1> QED BY <1>1, <1>2, <1>3, <1>4, <1>5 DEF StartStep

\* A stop() clears the thread object only once its thread has left the loop.
LEMMA ThreadStop ==
    ASSUME TypeOK, ThreadInv, NEW a \in Actors, StopStep(a)
    PROVE  ThreadInv'
  <1> USE ActorAssumption
          DEF TypeOK, ThreadInv, SingleConsumer, NoWorkerOutlivesQueue, Live,
              InLoop, Up, Goto, Actors, history, wvars, cvars
  <1>1. CASE StopCall(a)
    BY <1>1 DEF StopCall, Free
  <1>2. CASE StopFlag(a)
    BY <1>2 DEF StopFlag
  <1>3. CASE StopNotRunning(a)
    BY <1>3 DEF StopNotRunning
  <1>4. CASE StopNotify(a)
    <2>1. \A w \in Workers : Live(w)' <=> Live(w)
      BY <1>4 DEF StopNotify, NotifyAll
    <2> QED BY <1>4, <2>1 DEF StopNotify, NotifyAll
  <1>5. CASE StopSkipsJoin(a)
    BY <1>5 DEF StopSkipsJoin
  <1>6. CASE StopJoin(a)
    BY <1>6 DEF StopJoin
  <1>7. CASE StopJoined(a)
    BY <1>7 DEF StopJoined, Ended
  <1>8. CASE StopJoinsTwice(a)
    BY <1>8 DEF StopJoinsTwice
  <1> QED BY <1>1, <1>2, <1>3, <1>4, <1>5, <1>6, <1>7, <1>8 DEF StopStep

\* Submitting and waiting create and end no thread.
LEMMA ThreadHandle ==
    ASSUME TypeOK, ThreadInv, NEW a \in Actors, HandleStep(a)
    PROVE  ThreadInv'
  <1> USE ActorAssumption
          DEF TypeOK, ThreadInv, SingleConsumer, NoWorkerOutlivesQueue, Live,
              InLoop, Up, Goto, Actors, history, wvars, cvars
  <1>1. ASSUME NEW t \in Tasks, Submit(a, t) PROVE ThreadInv'
    BY <1>1 DEF Submit, AtBack, Fresh, Free
  <1>2. ASSUME NEW t \in Tasks, Get(a, t) PROVE ThreadInv'
    BY <1>2 DEF Get, CanWait, Free
  <1>3. CASE SubmitReturn(a)
    <2>1. \A w \in Workers : Live(w)' <=> Live(w)
      BY <1>3 DEF SubmitReturn, NotifyOne
    <2> QED BY <1>3, <2>1 DEF SubmitReturn
  <1>4. CASE GetReturn(a)
    BY <1>4 DEF GetReturn
  <1> QED BY <1>1, <1>2, <1>3, <1>4 DEF HandleStep

\* A worker's own steps never add a thread to the loop.
LEMMA ThreadLoop ==
    ASSUME TypeOK, ThreadInv, NEW w \in Workers, LoopStep(w)
    PROVE  ThreadInv'
  <1> USE DEF TypeOK, ThreadInv, SingleConsumer, NoWorkerOutlivesQueue, Live,
              InLoop, Up, Actors, history, wvars, cvars
  <1>1. CASE Acquire(w)
    BY <1>1 DEF Acquire, AfterPredicate
  <1>2. CASE SpuriousWakeup(w)
    BY <1>2 DEF SpuriousWakeup
  <1>3. CASE Exit(w)
    BY <1>3 DEF Exit
  <1>4. CASE Take(w)
    BY <1>4 DEF Take, Popped
  <1>5. CASE TakeNothing(w)
    BY <1>5 DEF TakeNothing
  <1>6. ASSUME NEW r \in Results, Finish(w, r) PROVE ThreadInv'
    BY <1>6 DEF Finish
  <1> QED BY <1>1, <1>2, <1>3, <1>4, <1>5, <1>6 DEF LoopStep, ExecutorReturns

\* When the destructor has joined the thread, none is in the loop.
LEMMA NoneLeft ==
    ASSUME TypeOK, StartInv, Rooted, ThreadInv, EndDestroy
    PROVE  \A w \in Workers : ~Live(w)
  <1> DEFINE S == {w \in Workers : Live(w)}
  <1> SUFFICES ASSUME S # {} PROVE FALSE
    OBVIOUS
  <1>1. life = "dying" /\ pc[Owner] = "idle" /\ handle = NoWorker
    BY DEF EndDestroy
  <1>2. PICK w \in S : \/ w = handle
                       \/ \E a \in Actors \ S : pc[a] = "assign" /\ own[a] = w
    BY DEF Rooted
  <1>3. PICK a \in Actors \ S : pc[a] = "assign"
    BY <1>1, <1>2, ActorAssumption DEF Actors
  <1>4. a \in Workers
    BY <1>1, <1>3 DEF ThreadInv, Actors
  <1> QED BY <1>3, <1>4 DEF StartInv, Live, InLoop

\* The members are destroyed only when no thread object is joinable, and no
\* client is in a start(): a live thread could only be assigned by another's
\* executor, and the live threads are rooted, so there is none.
LEMMA ThreadDestroy ==
    ASSUME TypeOK, StartInv, Rooted, ThreadInv, DestroyStep
    PROVE  ThreadInv'
  <1> USE ActorAssumption
          DEF TypeOK, ThreadInv, SingleConsumer, NoWorkerOutlivesQueue, Live,
              InLoop, Up, Goto, Actors, history, wvars, cvars
  <1>1. CASE BeginDestroy
    BY <1>1 DEF BeginDestroy, Free
  <1>2. CASE EndDestroy
    <2>1. \A w \in Workers : ~Live(w)
      BY <1>2, NoneLeft
    <2> QED BY <1>2, <2>1 DEF EndDestroy
  <1>3. CASE DestroyTerminates
    BY <1>3 DEF DestroyTerminates
  <1> QED BY <1>1, <1>2, <1>3 DEF DestroyStep

\* ThreadInv holds at the start and is kept by every step.
LEMMA ThreadInductive ==
    /\ Init => ThreadInv
    /\ TypeOK /\ StartInv /\ Rooted /\ ThreadInv /\ [Next]_vars => ThreadInv'
  <1>1. Init => ThreadInv
    BY DEF Init, ThreadInv, SingleConsumer, NoWorkerOutlivesQueue, Live,
           InLoop, Actors
  <1>2. ASSUME TypeOK, StartInv, Rooted, ThreadInv, [Next]_vars
        PROVE  ThreadInv'
    <2>1. CASE UNCHANGED vars
      BY <1>2, <2>1 DEF vars, ThreadInv, SingleConsumer, Live,
                        NoWorkerOutlivesQueue
    <2> QED BY <1>2, <2>1, ThreadStart, ThreadStop, ThreadHandle, ThreadLoop,
               ThreadDestroy DEF Next
  <1> QED BY <1>1, <1>2

\* The queue has one consumer: a thread in processLoop is the one stop()
\* would join, or one that a start() is about to assign.
THEOREM OneConsumer == Spec => []SingleConsumer
  <1>1. ThreadInv => SingleConsumer
    BY DEF ThreadInv
  <1> QED BY <1>1, TypeInit, TypeStep, StartInductive, RootedInductive,
             ThreadInductive, PTL DEF Spec

\* ~TaskQueue leaves no thread in processLoop: none can touch the queue, the
\* mutex or the condition variable after they are gone.
THEOREM NoUseAfterDestroy == Spec => []NoWorkerOutlivesQueue
  <1>1. ThreadInv => NoWorkerOutlivesQueue
    BY DEF ThreadInv
  <1> QED BY <1>1, TypeInit, TypeStep, StartInductive, RootedInductive,
             ThreadInductive, PTL DEF Spec

-----------------------------------------------------------------------------
(* At most one completion per task.                                        *)

\* What makes CompletedOnce inductive: the queue holds no task twice, what it
\* holds is pending, and what is pending is queued or being executed.
CompletionInv ==
    /\ CompletedOnce
    /\ IsInjective(queue)
    /\ \A t \in Range(queue) : promise[t] = "pending"
    /\ \A t \in Tasks : promise[t] = "pending" =>
         \/ t \in Range(queue)
         \/ \E w \in Workers : wpc[w] = "run" /\ wtask[w] = t

\* Most steps move no task.
NoTaskMoves ==
    /\ UNCHANGED <<queue, promise>>
    /\ \A w \in Workers : /\ wpc'[w] = "run" <=> wpc[w] = "run"
                          /\ wtask'[w] = wtask[w]

\* A step that moves no task keeps CompletionInv.
LEMMA CompletionFrame ==
    ASSUME CompletionInv, NoTaskMoves
    PROVE  CompletionInv'
  BY DEF CompletionInv, CompletedOnce, NoTaskMoves

\* The thread that start() creates or fails to create is not running a task.
LEMMA StartMovesNoTask ==
    ASSUME TypeOK, StartInv, NEW a \in Actors, StartStep(a)
    PROVE  NoTaskMoves
  <1> USE DEF NoTaskMoves, TypeOK, StartInv, InLoop, history, wvars, cvars
  <1>1. ASSUME NEW w \in Workers, StartFlag(a, w) PROVE NoTaskMoves
    BY <1>1 DEF StartFlag
  <1>2. CASE StartSpawn(a)
    BY <1>2 DEF StartSpawn
  <1>3. CASE StartFails(a)
    BY <1>3 DEF StartFails
  <1>4. CASE StartAssign(a) \/ StartTerminates(a)
    BY <1>4 DEF StartAssign, StartTerminates
  <1> QED BY <1>1, <1>2, <1>3, <1>4 DEF StartStep

\* stop() moves no task.
LEMMA StopMovesNoTask ==
    ASSUME TypeOK, NEW a \in Actors, StopStep(a)
    PROVE  NoTaskMoves
  <1> USE DEF NoTaskMoves, TypeOK, InLoop, history, wvars, cvars
  <1>1. CASE StopNotify(a)
    BY <1>1 DEF StopNotify, NotifyAll
  <1>2. CASE ~StopNotify(a)
    BY <1>2 DEF StopStep, StopCall, StopFlag, StopNotRunning, StopSkipsJoin,
                StopJoin, StopJoined, StopJoinsTwice
  <1> QED BY <1>1, <1>2

\* submit() queues a task that is new, so neither queued nor running.
LEMMA CompletionHandle ==
    ASSUME TypeOK, CompletionInv, NEW a \in Actors, HandleStep(a)
    PROVE  CompletionInv'
  <1> USE DEF history, wvars, cvars
  <1>1. ASSUME NEW t \in Tasks, Submit(a, t) PROVE CompletionInv'
    <2>1. /\ queue \in Seq(Tasks) /\ promise \in [Tasks -> {"none", "pending"}
                                                       \cup Results]
          /\ t \notin Range(queue) /\ IsInjective(queue)
      BY <1>1 DEF Submit, AtBack, Fresh, TypeOK, CompletionInv
    <2>2. IsInjective(queue') /\ Range(queue') = Range(queue) \cup {t}
      BY <1>1, <2>1, RangeAppend, InjectiveAppend DEF Submit, AtBack, Fresh
    <2>3. /\ promise' = [promise EXCEPT ![t] = "pending"]
          /\ wpc' = wpc /\ wtask' = wtask /\ promise[t] = "none"
      BY <1>1 DEF Submit, AtBack, Fresh
    <2>4. CompletedOnce'
      BY <2>1, <2>2, <2>3 DEF CompletionInv, CompletedOnce, TypeOK
    <2> QED BY <2>1, <2>2, <2>3, <2>4, RangeOfSeq DEF CompletionInv
  <1>2. ASSUME NEW t \in Tasks, Get(a, t) PROVE NoTaskMoves
    BY <1>2 DEF Get, NoTaskMoves
  <1>3. CASE SubmitReturn(a)
    <2>1. NoTaskMoves
      BY <1>3 DEF SubmitReturn, NotifyOne, NoTaskMoves, TypeOK
    <2> QED BY <2>1, CompletionFrame
  <1>4. CASE GetReturn(a)
    <2>1. NoTaskMoves
      BY <1>4 DEF GetReturn, NoTaskMoves
    <2> QED BY <2>1, CompletionFrame
  <1> QED BY <1>1, <1>2, <1>3, <1>4, CompletionFrame DEF HandleStep

\* A worker takes the head of the queue, which no other worker has, and
\* completes its own task only.
LEMMA CompletionLoop ==
    ASSUME TypeOK, CompletionInv, NEW w \in Workers, LoopStep(w)
    PROVE  CompletionInv'
  <1> USE DEF history, wvars, cvars
  <1>1. CASE Acquire(w) \/ SpuriousWakeup(w) \/ Exit(w) \/ TakeNothing(w)
    <2>1. NoTaskMoves
      BY <1>1 DEF Acquire, AfterPredicate, SpuriousWakeup, Exit, TakeNothing, NoTaskMoves,
                  TypeOK
    <2> QED BY <2>1, CompletionFrame
  <1>2. CASE Take(w)
    <2>1. /\ queue \in Seq(Tasks) /\ queue # <<>> /\ IsInjective(queue)
          /\ queue' = Tail(queue) /\ promise' = promise
          /\ wtask' = [wtask EXCEPT ![w] = Head(queue)]
          /\ wpc' = [wpc EXCEPT ![w] = "run"]
          /\ wpc[w] = "decide"
      BY <1>2 DEF Take, Popped, TypeOK, CompletionInv
    <2>2. /\ IsInjective(queue')
          /\ Range(queue') = Range(queue) \ {Head(queue)}
          /\ Head(queue) \in Range(queue)
      BY <2>1, TailOfInjective
    <2>3. /\ wpc \in [Workers -> InLoop \cup {"unborn", "starting", "failed",
                                              "exited"}]
          /\ wtask \in [Workers -> Tasks \cup {NoTask}]
      BY DEF TypeOK
    <2>4. CompletedOnce'
      BY <2>1, <2>2, <2>3 DEF CompletionInv, CompletedOnce
    <2>5. \A t \in Tasks : promise'[t] = "pending" =>
            \/ t \in Range(queue')
            \/ \E v \in Workers : wpc'[v] = "run" /\ wtask'[v] = t
      BY <2>1, <2>2, <2>3 DEF CompletionInv
    <2> QED BY <2>1, <2>2, <2>4, <2>5 DEF CompletionInv
  <1>3. ASSUME NEW r \in Results, Finish(w, r) PROVE CompletionInv'
    <2>1. /\ wpc[w] = "run" /\ queue' = queue
          /\ promise' = [promise EXCEPT ![wtask[w]] = r]
          /\ wtask' = [wtask EXCEPT ![w] = NoTask]
          /\ wpc' = [wpc EXCEPT ![w] = "acquire"]
      BY <1>3 DEF Finish
    <2>2. wtask[w] \in Tasks /\ wtask[w] \notin Range(queue)
      BY <2>1 DEF TypeOK, CompletionInv, CompletedOnce
    <2>3. Range(queue) \subseteq Tasks
      BY RangeOfSeq DEF TypeOK
    <2>4. CompletedOnce'
      BY <2>1, <2>2 DEF CompletionInv, CompletedOnce, TypeOK
    <2>5. \A t \in Range(queue') : promise'[t] = "pending"
      BY <2>1, <2>2, <2>3 DEF CompletionInv, TypeOK
    <2>6. \A t \in Tasks : promise'[t] = "pending" =>
            \/ t \in Range(queue')
            \/ \E v \in Workers : wpc'[v] = "run" /\ wtask'[v] = t
      BY <2>1, <2>2 DEF CompletionInv, TypeOK, Results
    <2> QED BY <2>1, <2>4, <2>5, <2>6 DEF CompletionInv
  <1> QED BY <1>1, <1>2, <1>3 DEF LoopStep, ExecutorReturns

\* The destructor breaks the promises of the queued tasks, which no worker
\* has.
LEMMA CompletionDestroy ==
    ASSUME TypeOK, CompletionInv, DestroyStep
    PROVE  CompletionInv'
  <1> USE DEF history, wvars, cvars
  <1>1. CASE BeginDestroy \/ DestroyTerminates
    <2>1. NoTaskMoves
      BY <1>1 DEF BeginDestroy, DestroyTerminates, NoTaskMoves
    <2> QED BY <2>1, CompletionFrame
  <1>2. CASE EndDestroy
    <2>1. /\ queue' = <<>> /\ wpc' = wpc /\ wtask' = wtask
          /\ promise' = [t \in Tasks |-> IF t \in Range(queue) THEN "broken"
                                                               ELSE promise[t]]
      BY <1>2 DEF EndDestroy
    <2>2. Range(queue') = {} /\ IsInjective(queue')
      BY <2>1 DEF Range, IsInjective
    <2>3. CompletedOnce'
      BY <2>1, <2>2 DEF CompletionInv, CompletedOnce, TypeOK
    <2> QED BY <2>1, <2>2, <2>3 DEF CompletionInv
  <1> QED BY <1>1, <1>2 DEF DestroyStep

\* CompletionInv holds at the start and is kept by every step.
LEMMA CompletionInductive ==
    /\ Init => CompletionInv
    /\ TypeOK /\ StartInv /\ CompletionInv /\ [Next]_vars => CompletionInv'
  <1>1. Init => CompletionInv
    BY DEF Init, CompletionInv, CompletedOnce, Range, IsInjective
  <1>2. ASSUME TypeOK, StartInv, CompletionInv, [Next]_vars
        PROVE  CompletionInv'
    <2>1. CASE UNCHANGED vars
      <3>1. NoTaskMoves
        BY <2>1 DEF vars, NoTaskMoves
      <3> QED BY <1>2, <3>1, CompletionFrame
    <2> QED BY <1>2, <2>1, StartMovesNoTask, StopMovesNoTask, CompletionFrame,
               CompletionHandle, CompletionLoop, CompletionDestroy DEF Next
  <1> QED BY <1>1, <1>2

\* Every task is completed at most once: a worker about to call set_value or
\* set_exception holds the only pending reference to that promise.
THEOREM AtMostOneCompletion == Spec => []CompletedOnce
  <1>1. CompletionInv => CompletedOnce
    BY DEF CompletionInv
  <1> QED BY <1>1, TypeInit, TypeStep, StartInductive, CompletionInductive,
             PTL DEF Spec

-----------------------------------------------------------------------------
(* First in, first out.                                                    *)

\* What makes FirstInFirstOut inductive: the accepted tasks are those whose
\* promise exists, so a new submission is new in the history too.
OrderInv ==
    /\ FirstInFirstOut
    /\ \A t \in Tasks : t \in Range(accepted) <=> promise[t] # "none"

\* Most steps neither append to the queue nor pop from it.
LineStands ==
    /\ UNCHANGED <<queue, accepted, taken>>
    /\ \A t \in Tasks : promise'[t] = "none" <=> promise[t] = "none"
    /\ life' = "destroyed" <=> life = "destroyed"

\* A step that leaves the line alone keeps OrderInv.
LEMMA OrderFrame ==
    ASSUME OrderInv, LineStands
    PROVE  OrderInv'
  BY DEF OrderInv, FirstInFirstOut, LineStands

\* Everything but submit, the worker's pop and the destructor leaves the
\* line alone.
LEMMA OthersLeaveLine ==
    ASSUME TypeOK, CompletionInv,
           \/ \E a \in Actors : \/ StartStep(a) \/ StopStep(a)
                               \/ SubmitReturn(a) \/ GetReturn(a)
                               \/ \E t \in Tasks : Get(a, t)
           \/ \E w \in Workers : \/ Acquire(w) \/ SpuriousWakeup(w) \/ Exit(w)
                                \/ TakeNothing(w) \/ ExecutorReturns(w)
           \/ BeginDestroy \/ DestroyTerminates
    PROVE  LineStands
  <1> USE DEF LineStands, history, wvars, cvars, Up
  <1>1. ASSUME NEW a \in Actors, StartStep(a) PROVE LineStands
    BY <1>1 DEF StartStep, StartFlag, StartSpawn, StartFails, StartAssign,
                StartTerminates
  <1>2. ASSUME NEW a \in Actors, StopStep(a) PROVE LineStands
    BY <1>2 DEF StopStep, StopCall, StopFlag, StopNotRunning, StopNotify,
                NotifyAll,
                StopSkipsJoin, StopJoin, StopJoined, StopJoinsTwice
  <1>3. ASSUME NEW a \in Actors, SubmitReturn(a) \/ GetReturn(a)
        PROVE  LineStands
    BY <1>3 DEF SubmitReturn, GetReturn
  <1>4. ASSUME NEW a \in Actors, NEW t \in Tasks, Get(a, t) PROVE LineStands
    BY <1>4 DEF Get
  <1>5. ASSUME NEW w \in Workers, \/ Acquire(w) \/ SpuriousWakeup(w) \/ Exit(w)
                                  \/ TakeNothing(w)
        PROVE  LineStands
    BY <1>5 DEF Acquire, AfterPredicate, SpuriousWakeup, Exit, TakeNothing
  <1>6. ASSUME NEW w \in Workers, NEW r \in Results, Finish(w, r)
        PROVE  LineStands
    <2>1. /\ wtask[w] \in Tasks /\ promise[wtask[w]] = "pending"
          /\ promise' = [promise EXCEPT ![wtask[w]] = r]
      BY <1>6 DEF Finish, TypeOK, CompletionInv, CompletedOnce
    <2>2. \A t \in Tasks : promise'[t] = "none" <=> promise[t] = "none"
      BY <2>1 DEF TypeOK, Results
    <2> QED BY <1>6, <2>2 DEF Finish
  <1>7. CASE BeginDestroy \/ DestroyTerminates
    BY <1>7 DEF BeginDestroy, DestroyTerminates, Free
  <1> QED BY <1>1, <1>2, <1>3, <1>4, <1>5, <1>6, <1>7 DEF ExecutorReturns

\* submit() appends to the history what it appends to the queue.
LEMMA OrderSubmit ==
    ASSUME TypeOK, OrderInv, NEW a \in Actors, NEW t \in Tasks, Submit(a, t)
    PROVE  OrderInv'
  <1> USE DEF history, wvars, cvars
  <1>1. /\ life # "destroyed" /\ life' = life /\ promise[t] = "none"
        /\ queue' = Append(queue, t) /\ accepted' = Append(accepted, t)
        /\ taken' = taken
        /\ promise' = [promise EXCEPT ![t] = "pending"]
    BY DEF Submit, AtBack, Fresh, Free, Up
  <1>2. /\ queue \in Seq(Tasks) /\ accepted \in Seq(Tasks) /\ taken \in Seq(Tasks)
        /\ promise \in [Tasks -> {"none", "pending"} \cup Results]
    BY DEF TypeOK
  <1>3. t \notin Range(accepted) /\ IsInjective(accepted)
    BY <1>1 DEF OrderInv, FirstInFirstOut
  <1>4. IsInjective(accepted') /\ Range(accepted') = Range(accepted) \cup {t}
    BY <1>1, <1>2, <1>3, RangeAppend, InjectiveAppend
  <1>5. accepted' = taken' \o queue'
    <2>1. accepted = taken \o queue
      BY <1>1 DEF OrderInv, FirstInFirstOut
    <2>2. <<t>> \in Seq(Tasks)
      OBVIOUS
    <2>3. accepted' = (taken \o queue) \o <<t>> /\ queue' = queue \o <<t>>
      BY <1>1, <1>2, <2>1, AppendIsConcat
    <2> QED BY <1>1, <1>2, <2>2, <2>3, ConcatAssociative
  <1>6. \A u \in Tasks : u \in Range(accepted') <=> promise'[u] # "none"
    BY <1>1, <1>2, <1>4 DEF OrderInv
  <1> QED BY <1>1, <1>4, <1>5, <1>6 DEF OrderInv, FirstInFirstOut

\* Popping moves the head of the queue to the end of what was taken.
LEMMA OrderTake ==
    ASSUME TypeOK, OrderInv, NEW w \in Workers, Take(w)
    PROVE  OrderInv'
  <1>1. /\ life # "destroyed" /\ life' = life /\ queue # <<>>
        /\ queue' = Tail(queue) /\ taken' = Append(taken, Head(queue))
        /\ accepted' = accepted /\ promise' = promise
    BY DEF Take, Popped, Up
  <1>2. queue \in Seq(Tasks) /\ taken \in Seq(Tasks)
    BY DEF TypeOK
  <1> DEFINE h == Head(queue)
  <1>3. /\ h \in Tasks /\ Tail(queue) \in Seq(Tasks) /\ <<h>> \in Seq(Tasks)
    BY <1>1, <1>2, HeadTailProperties
  <1>4. queue = <<h>> \o Tail(queue)
    <2> DEFINE s == <<h>> \o Tail(queue)
    <2>1. /\ s \in Seq(Tasks) /\ Len(s) = 1 + Len(Tail(queue))
          /\ \A i \in 1..1 + Len(Tail(queue)) :
               s[i] = IF i <= 1 THEN <<h>>[i] ELSE Tail(queue)[i - 1]
      BY <1>3, ConcatProperties
    <2>2. /\ Len(queue) \in Nat \ {0} /\ Len(Tail(queue)) = Len(queue) - 1
          /\ \A i \in 1..Len(queue) - 1 : Tail(queue)[i] = queue[i + 1]
          /\ queue[1] = h
      BY <1>1, <1>2, HeadTailProperties, EmptySeq
    <2>3. Len(s) = Len(queue)
      BY <2>1, <2>2
    <2>4. \A i \in 1..Len(queue) : queue[i] = s[i]
      BY <2>1, <2>2
    <2> HIDE DEF s
    <2>5. queue = s
      BY <1>2, <2>1, <2>3, <2>4, SeqEqual
    <2> QED BY <2>5 DEF s
  <1>5. accepted' = taken' \o queue'
    <2>1. accepted = taken \o queue
      BY <1>1 DEF OrderInv, FirstInFirstOut
    <2>2. taken' = taken \o <<h>>
      BY <1>1, <1>2, <1>3, AppendIsConcat
    <2>3. (taken \o <<h>>) \o Tail(queue) = taken \o (<<h>> \o Tail(queue))
      BY <1>2, <1>3, ConcatAssociative
    <2> QED BY <1>1, <1>4, <2>1, <2>2, <2>3
  <1> QED BY <1>1, <1>5 DEF OrderInv, FirstInFirstOut

\* The destructor drops the queue: what was taken stays a prefix of what was
\* accepted.
LEMMA OrderDestroy ==
    ASSUME TypeOK, CompletionInv, OrderInv, EndDestroy
    PROVE  OrderInv'
  <1>1. /\ life = "dying" /\ life' = "destroyed" /\ accepted' = accepted
        /\ taken' = taken
        /\ promise' = [t \in Tasks |-> IF t \in Range(queue) THEN "broken"
                                                             ELSE promise[t]]
    BY DEF EndDestroy, history
  <1>2. \A t \in Tasks : promise'[t] = "none" <=> promise[t] = "none"
    BY <1>1 DEF CompletionInv
  <1>3. taken = SubSeq(accepted, 1, Len(taken))
    <2>1. accepted = taken \o queue /\ taken \in Seq(Tasks) /\ queue \in Seq(Tasks)
      BY <1>1 DEF OrderInv, FirstInFirstOut, TypeOK
    <2> DEFINE n == Len(taken)
    <2>2. n \in Nat
      BY <2>1, LenProperties
    <2>3. CASE n = 0
      <3>1. taken = <<>>
        BY <2>1, <2>3, EmptySeq
      <3>2. SubSeq(accepted, 1, 0) = <<>>
        BY <2>1, ConcatProperties, SubSeqEmpty
      <3> QED BY <2>3, <3>1, <3>2
    <2>4. CASE n # 0
      <3>1. 1 \in 1..n /\ n \in 1..n
        BY <2>2, <2>4
      <3>2. SubSeq(taken \o queue, 1, n) = SubSeq(taken, 1, n)
        BY <2>1, <3>1, SubSeqOfConcat1
      <3> QED BY <2>1, <3>2, SubSeqFull
    <2> QED BY <2>3, <2>4
  <1> QED BY <1>1, <1>2, <1>3 DEF OrderInv, FirstInFirstOut

\* OrderInv holds at the start and is kept by every step.
LEMMA OrderInductive ==
    /\ Init => OrderInv
    /\ TypeOK /\ CompletionInv /\ OrderInv /\ [Next]_vars => OrderInv'
  <1>1. Init => OrderInv
    <2> SUFFICES ASSUME Init PROVE OrderInv
      OBVIOUS
    <2>1. accepted = <<>> /\ taken = <<>> /\ queue = <<>> /\ life = "alive"
      BY DEF Init
    <2>2. Range(accepted) = {} /\ IsInjective(accepted)
      BY <2>1 DEF Range, IsInjective
    <2>3. <<>> \o <<>> = <<>>
      BY EmptySeq, ConcatEmptySeq
    <2>4. \A t \in Tasks : promise[t] = "none"
      BY DEF Init
    <2> QED BY <2>1, <2>2, <2>3, <2>4 DEF OrderInv, FirstInFirstOut
  <1>2. ASSUME TypeOK, CompletionInv, OrderInv, [Next]_vars PROVE OrderInv'
    <2>1. CASE UNCHANGED vars
      BY <1>2, <2>1 DEF vars, OrderInv, FirstInFirstOut
    <2>2. ASSUME NEW a \in Actors, StartStep(a) \/ StopStep(a) \/ HandleStep(a)
          PROVE  OrderInv'
      BY <1>2, <2>2, OthersLeaveLine, OrderFrame, OrderSubmit DEF HandleStep
    <2>3. ASSUME NEW w \in Workers, LoopStep(w) PROVE OrderInv'
      BY <1>2, <2>3, OthersLeaveLine, OrderFrame, OrderTake DEF LoopStep
    <2>4. CASE DestroyStep
      BY <1>2, <2>4, OthersLeaveLine, OrderFrame, OrderDestroy
         DEF DestroyStep
    <2> QED BY <1>2, <2>1, <2>2, <2>3, <2>4 DEF Next
  <1> QED BY <1>1, <1>2

\* Tasks are taken in the order they were accepted, each once and none
\* skipped, for any number of submitting and consuming threads.
THEOREM InOrder == Spec => []FirstInFirstOut
  <1>1. OrderInv => FirstInFirstOut
    BY DEF OrderInv
  <1> QED BY <1>1, TypeInit, TypeStep, StartInductive, CompletionInductive,
             OrderInductive, PTL DEF Spec

-----------------------------------------------------------------------------
(* The runtime implements its callers' contract.                           *)

contractVars == <<queue, [t \in Tasks |-> StageOf(t)], life = "destroyed">>

\* Starting, stopping, waiting and waking are invisible in the contract.
LEMMA OthersStutter ==
    ASSUME \/ \E a \in Actors : \/ StartStep(a) \/ StopStep(a)
                               \/ SubmitReturn(a) \/ GetReturn(a)
                               \/ \E t \in Tasks : Get(a, t)
           \/ \E w \in Workers : \/ Acquire(w) \/ SpuriousWakeup(w) \/ Exit(w)
                                \/ TakeNothing(w)
           \/ BeginDestroy \/ DestroyTerminates
           \/ UNCHANGED vars
    PROVE  UNCHANGED contractVars
  <1>1. ASSUME UNCHANGED <<queue, promise>>,
               (life' = "destroyed") = (life = "destroyed")
        PROVE  UNCHANGED contractVars
    BY <1>1 DEF contractVars, StageOf
  <1> USE DEF history, wvars, cvars, Up
  <1>2. ASSUME NEW a \in Actors, StartStep(a) PROVE UNCHANGED contractVars
    BY <1>1, <1>2 DEF StartStep, StartFlag, StartSpawn, StartFails,
                      StartAssign, StartTerminates
  <1>3. ASSUME NEW a \in Actors, StopStep(a) PROVE UNCHANGED contractVars
    BY <1>1, <1>3 DEF StopStep, StopCall, StopFlag, StopNotRunning, StopNotify,
                NotifyAll,
                      StopSkipsJoin, StopJoin, StopJoined, StopJoinsTwice
  <1>4. ASSUME NEW a \in Actors, SubmitReturn(a) \/ GetReturn(a)
        PROVE  UNCHANGED contractVars
    BY <1>1, <1>4 DEF SubmitReturn, GetReturn
  <1>5. ASSUME NEW a \in Actors, NEW t \in Tasks, Get(a, t)
        PROVE  UNCHANGED contractVars
    BY <1>1, <1>5 DEF Get
  <1>6. ASSUME NEW w \in Workers, \/ Acquire(w) \/ SpuriousWakeup(w) \/ Exit(w)
                                  \/ TakeNothing(w)
        PROVE  UNCHANGED contractVars
    BY <1>1, <1>6 DEF Acquire, AfterPredicate, SpuriousWakeup, Exit, TakeNothing
  <1>7. CASE BeginDestroy \/ DestroyTerminates
    BY <1>1, <1>7 DEF BeginDestroy, DestroyTerminates, Free
  <1>8. CASE UNCHANGED vars
    BY <1>1, <1>8 DEF vars
  <1> QED BY <1>2, <1>3, <1>4, <1>5, <1>6, <1>7, <1>8

\* submit() is the contract's Accept.
LEMMA SubmitAccepts ==
    ASSUME TypeOK, CompletionInv, NEW a \in Actors, NEW t \in Tasks,
           Submit(a, t)
    PROVE  Contract!Accept(t)
  <1>1. /\ life # "destroyed" /\ life' = life /\ promise[t] = "none"
        /\ queue' = Append(queue, t)
        /\ promise' = [promise EXCEPT ![t] = "pending"]
    BY DEF Submit, AtBack, Fresh, Free, Up
  <1>2. Range(queue') = Range(queue) \cup {t} /\ t \notin Range(queue)
    BY <1>1, RangeAppend DEF TypeOK, CompletionInv
  <1>3. /\ StageOf(t) = "fresh" /\ StageOf(t)' = "waiting"
        /\ \A u \in Tasks \ {t} : StageOf(u)' = StageOf(u)
    BY <1>1, <1>2 DEF StageOf, TypeOK
  <1> QED BY <1>1, <1>3 DEF Contract!Accept

\* The worker's pop is the contract's Begin.
LEMMA TakeBegins ==
    ASSUME TypeOK, CompletionInv, NEW w \in Workers, Take(w)
    PROVE  Contract!Begin
  <1>1. /\ life # "destroyed" /\ life' = life /\ queue # <<>>
        /\ queue' = Tail(queue) /\ promise' = promise
    BY DEF Take, Popped, Up
  <1>2. /\ Range(queue') = Range(queue) \ {Head(queue)}
        /\ Head(queue) \in Range(queue) /\ Head(queue) \in Tasks
    BY <1>1, TailOfInjective, HeadTailProperties DEF TypeOK, CompletionInv
  <1>3. \A u \in Tasks : StageOf(u)' = IF u = Head(queue) THEN "begun"
                                                         ELSE StageOf(u)
    <2>1. promise[Head(queue)] = "pending"
      BY <1>2 DEF CompletionInv
    <2> QED BY <1>1, <1>2, <2>1 DEF StageOf
  <1> QED BY <1>1, <1>2, <1>3 DEF Contract!Begin

\* The end of an executor is the contract's Resolve.
LEMMA FinishResolves ==
    ASSUME TypeOK, CompletionInv, NEW w \in Workers, NEW r \in Results,
           Finish(w, r)
    PROVE  Contract!Resolve(wtask[w], r) /\ wtask[w] \in Tasks
  <1>1. /\ wpc[w] = "run" /\ queue' = queue /\ life' = life
        /\ promise' = [promise EXCEPT ![wtask[w]] = r]
    BY DEF Finish
  <1>2. /\ wtask[w] \in Tasks /\ wtask[w] \notin Range(queue)
        /\ promise[wtask[w]] = "pending"
    BY <1>1 DEF TypeOK, CompletionInv, CompletedOnce
  <1>3. /\ StageOf(wtask[w]) = "begun"
        /\ \A u \in Tasks : StageOf(u)' = IF u = wtask[w] THEN r ELSE StageOf(u)
    BY <1>1, <1>2 DEF StageOf, TypeOK, Results
  <1> QED BY <1>1, <1>2, <1>3 DEF Contract!Resolve

\* The end of the destructor is the contract's Close: no task is running.
LEMMA DestroyCloses ==
    ASSUME TypeOK, StartInv, Rooted, ThreadInv, CompletionInv, EndDestroy
    PROVE  Contract!Close
  <1>1. /\ life = "dying" /\ life' = "destroyed" /\ queue' = <<>>
        /\ promise' = [t \in Tasks |-> IF t \in Range(queue) THEN "broken"
                                                             ELSE promise[t]]
    BY DEF EndDestroy
  <1>2. \A w \in Workers : ~Live(w)
    BY NoneLeft
  <1>3. \A t \in Tasks : promise[t] = "pending" => t \in Range(queue)
    BY <1>2 DEF CompletionInv, Live, InLoop
  <1>4. \A t \in Range(queue) : promise[t] = "pending"
    BY DEF CompletionInv
  <1>5. \A t \in Tasks : StageOf(t) # "begun"
    BY <1>3 DEF StageOf, TypeOK, Results
  <1>6. Range(queue') = {}
    BY <1>1 DEF Range
  <1>7. \A t \in Tasks : StageOf(t)' = IF StageOf(t) = "waiting" THEN "broken"
                                                               ELSE StageOf(t)
    BY <1>1, <1>3, <1>4, <1>6 DEF StageOf, TypeOK, Results
  <1> QED BY <1>1, <1>5, <1>7 DEF Contract!Close

\* The contract's initial state.
LEMMA ContractInit == Init => Contract!Init
  BY DEF Init, Contract!Init, StageOf

\* Every step of the runtime is a step of the contract, or invisible in it.
LEMMA ContractStep ==
    ASSUME TypeOK, StartInv, Rooted, ThreadInv, CompletionInv, [Next]_vars
    PROVE  [Contract!Next]_contractVars
  <1>1. CASE UNCHANGED vars
    BY <1>1, OthersStutter
  <1>2. ASSUME NEW a \in Actors, StartStep(a) \/ StopStep(a) \/ HandleStep(a)
        PROVE  [Contract!Next]_contractVars
    BY <1>2, OthersStutter, SubmitAccepts DEF HandleStep, Contract!Next
  <1>3. ASSUME NEW w \in Workers, LoopStep(w)
        PROVE  [Contract!Next]_contractVars
    <2>1. ASSUME NEW r \in Results, Finish(w, r) PROVE Contract!Next
      BY <2>1, FinishResolves DEF Contract!Next, Results, Contract!Resolved
    <2> QED BY <1>3, <2>1, OthersStutter, TakeBegins
            DEF LoopStep, ExecutorReturns, Contract!Next
  <1>4. CASE DestroyStep
    BY <1>4, OthersStutter, DestroyCloses DEF DestroyStep, Contract!Next
  <1> QED BY <1>1, <1>2, <1>3, <1>4 DEF Next

\* The runtime, whatever its callers do, gives them what TaskContract says.
THEOREM RuntimeKeepsContract == Spec => KeepsContract
  <1>1. Init => Contract!Init
    BY ContractInit
  <1>2. TypeOK /\ StartInv /\ Rooted /\ ThreadInv /\ CompletionInv
          /\ [Next]_vars => [Contract!Next]_contractVars
    BY ContractStep
  <1> QED BY <1>1, <1>2, TypeInit, TypeStep, StartInductive, RootedInductive,
             ThreadInductive, CompletionInductive, PTL
          DEF Spec, KeepsContract, Contract!Spec, contractVars
=============================================================================
