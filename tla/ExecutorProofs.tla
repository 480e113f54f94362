--------------------------- MODULE ExecutorProofs ---------------------------
(***************************************************************************)
(* Theorems about the two executors.  EventLoop: its types, the accounting *)
(* of _active_handles, the confinement of the scheduler to one thread, and *)
(* that no wake-up is lost, for every set of threads, tasks and timers.    *)
(* TaskQueue: one drainer at a time, no operation without a drainer.  The  *)
(* steps of both are steps of TaskExecutor.                                *)
(***************************************************************************)
EXTENDS MCExecutors, FiniteSetTheorems, SequenceTheorems, TLAPS

(* A caller inside execute() carries a job, and one inside the scheduler a *)
(* timer.                                                                  *)
CallOK ==
  \A t \in Callers :
    /\ pc[t] = "enqueue" => call[t] \in Job
    /\ pc[t] \in {"insert", "erase"} => call[t].arg \in Timer

(* Only the owner is inside the scheduler, the loop owns itself while it   *)
(* runs, and a timer that is not counted yet is still linked.              *)
Confined ==
  /\ \A t \in Callers : pc[t] \in {"insert", "count", "erase", "uncount"} => t = owner
  /\ loop # "stopped" => owner = LoopThread
  /\ pc[owner] = "count" => timers # <<>>

(* The loop's thread is inside a call only in a callback, and a callback   *)
(* runs only in the three phases that start one.                           *)
Nested ==
  /\ running # None => loop \in {"events", "timers", "tasks"}
  /\ pc[LoopThread] # "idle" /\ loop # "stopped" => running # None

Shape == StateOK /\ CallOK /\ Confined /\ Nested
-----------------------------------------------------------------------------
LEMMA InsertAtLemma ==
  ASSUME NEW S, NEW s \in Seq(S), NEW i \in 1 .. Len(s) + 1, NEW e \in S
  PROVE  /\ InsertAt(s, i, e) \in Seq(S)
         /\ Len(InsertAt(s, i, e)) = Len(s) + 1
<1> DEFINE a == SubSeq(s, 1, i - 1)
           b == SubSeq(s, i, Len(s))
           c == a \o <<e>>
<1>1. a \in Seq(S) /\ Len(a) = i - 1
  BY SubSeqProperties, LenProperties, ElementOfSeq
<1>2. b \in Seq(S) /\ Len(b) = Len(s) - i + 1
  BY SubSeqProperties, LenProperties, ElementOfSeq
<1>3. <<e>> \in Seq(S) /\ Len(<<e>>) = 1
  OBVIOUS
<1> InsertAt(s, i, e) = c \o b
  BY DEF InsertAt
<1> HIDE DEF a, b
<1>4. c \in Seq(S) /\ Len(c) = i
  BY <1>1, <1>3, ConcatProperties
<1> HIDE DEF c
<1>5. c \o b \in Seq(S) /\ Len(c \o b) = Len(c) + Len(b)
  BY <1>2, <1>4, ConcatProperties
<1>6. Len(s) \in Nat
  BY LenProperties
<1> QED BY <1>2, <1>4, <1>5, <1>6

LEMMA RemoveAtLemma ==
  ASSUME NEW S, NEW s \in Seq(S), NEW i \in 1 .. Len(s)
  PROVE  /\ RemoveAt(s, i) \in Seq(S)
         /\ Len(RemoveAt(s, i)) = Len(s) - 1
<1> DEFINE a == SubSeq(s, 1, i - 1)
           b == SubSeq(s, i + 1, Len(s))
<1>1. a \in Seq(S) /\ Len(a) = i - 1
  BY SubSeqProperties, LenProperties, ElementOfSeq
<1>2. b \in Seq(S) /\ Len(b) = Len(s) - i
  BY SubSeqProperties, LenProperties, ElementOfSeq
<1> RemoveAt(s, i) = a \o b
  BY DEF RemoveAt
<1> HIDE DEF a, b
<1>3. a \o b \in Seq(S) /\ Len(a \o b) = Len(s) - 1
  BY <1>1, <1>2, ConcatProperties, LenProperties
<1> QED BY <1>3

(* The place upper_bound finds is one of the list.                         *)
LEMMA UpperBoundLemma ==
  ASSUME timers \in Seq(Timer), NEW e
  PROVE  UpperBound(e) + 1 \in 1 .. Len(timers) + 1
<1>0. Len(timers) \in Nat /\ DOMAIN timers = 1 .. Len(timers)
  BY LenProperties
<1>1. IsFiniteSet(1 .. Len(timers)) /\ Cardinality(1 .. Len(timers)) = Len(timers)
  BY <1>0, FS_Interval
<1> DEFINE T == {i \in 1 .. Len(timers) : expiry[timers[i]] <= e}
<1>2. T \in SUBSET (1 .. Len(timers))
  OBVIOUS
<1> HIDE DEF T
<1>3. Cardinality(T) <= Len(timers) /\ IsFiniteSet(T)
  BY <1>1, <1>2, FS_Subset
<1>4. Cardinality(T) \in Nat
  BY <1>3, FS_CardinalityType
<1>5. UpperBound(e) = Cardinality(T)
  BY <1>0 DEF UpperBound, T
<1> QED BY <1>0, <1>3, <1>4, <1>5
-----------------------------------------------------------------------------
LEMMA JobLemma ==
  /\ \A k \in Task : RunJob(k) \in Job
  /\ \A m \in Timer : /\ ScheduleJob(m) \in Job /\ ScheduleJob(m).arg = m
                      /\ CancelJob(m) \in Job /\ CancelJob(m).arg = m
  BY DEF Job, RunJob, ScheduleJob, CancelJob

LEMMA ShapeInit == Init => Shape
<1> SUFFICES ASSUME Init PROVE Shape
  OBVIOUS
<1>1. LoopThread \in Callers /\ \A t \in Callers : pc[t] = "idle"
  BY DEF Init, Callers
<1>2. /\ active \in Int /\ tasks \in Seq(Job) /\ timers \in Seq(Timer) /\ batch \in Seq(Job)
      /\ expiry \in [Timer -> Nat] /\ owner \in Callers
  BY DEF Init
<1>3. call \in [Callers -> Job \cup {None}]
  BY DEF Init
<1>4. StateOK
  BY <1>2, <1>3 DEF Init, StateOK
<1> QED BY <1>1, <1>2, <1>4 DEF Init, Shape, CallOK, Confined, Nested

(* Entering a call: outside the loop by execute() only.                    *)
LEMMA BeginLemma ==
  ASSUME Shape, NEW t \in Callers, NEW j \in Job, NEW at \in {"enqueue", "insert", "erase"},
         Begin(t, j, at),
         at # "enqueue" => t = owner /\ j.arg \in Timer,
         UNCHANGED <<owner, loop, timers>>,
         t = LoopThread => loop = "stopped" \/ running' # None,
         running # None => running' # None,
         running' # None => loop \in {"events", "timers", "tasks"}
  PROVE  /\ CallOK' /\ Confined' /\ Nested'
         /\ pc' \in [Callers -> {"idle", "enqueue", "wake", "insert", "count", "erase", "uncount"}]
         /\ call' \in [Callers -> Job \cup {None}]
<1>1. CallOK'
  BY DEF Begin, Shape, StateOK, CallOK
<1>2. Confined'
  BY DEF Begin, Shape, StateOK, Confined
<1>3. Nested'
  BY DEF Begin, Shape, StateOK, Nested
<1> QED BY <1>1, <1>2, <1>3 DEF Begin, Shape, StateOK

LEMMA DispatchLemma ==
  ASSUME NEW t \in Callers, NEW j, NEW inner, Dispatch(t, j, inner)
  PROVE  \/ owner = t /\ Begin(t, j, inner) /\ active' = active
         \/ Begin(t, j, "enqueue") /\ active' = active + 1
  BY DEF Dispatch, in_loop

LEMMA CallShape ==
  ASSUME Shape, NEW t \in Callers, NewCalls(t)
  PROVE  Shape'
<1>1. ASSUME Free(t) PROVE t = LoopThread => loop = "stopped" \/ running # None
  BY <1>1 DEF Free
<1>2. ASSUME NEW k \in Task, execute(t, k) PROVE Shape'
  <2>1. CallOK' /\ Confined' /\ Nested' /\ StateOK'
    BY <1>1, <1>2, JobLemma, BeginLemma DEF execute, Shape, StateOK, Nested, NewCall, loopVars
  <2> QED BY <2>1 DEF Shape
<1>3. ASSUME NEW m \in Timer, NEW e \in 0 .. MaxNow, schedule(t, m, e) PROVE Shape'
  <2>1. ScheduleJob(m) \in Job /\ ScheduleJob(m).arg = m /\ e \in Nat
    BY JobLemma, BoundAssumption
  <2>2. UNCHANGED <<owner, loop, timers, running>> /\ Free(t)
    BY <1>3 DEF schedule, loopVars
  <2>3. \E at \in {"insert", "enqueue"} :
          Begin(t, ScheduleJob(m), at) /\ (at # "enqueue" => t = owner) /\ active' \in Int
    BY <1>3, DispatchLemma DEF schedule, Shape, StateOK
  <2>4. /\ CallOK' /\ Confined' /\ Nested'
        /\ pc' \in [Callers -> {"idle", "enqueue", "wake", "insert", "count", "erase", "uncount"}]
        /\ call' \in [Callers -> Job \cup {None}]
    BY <1>1, <2>1, <2>2, <2>3, BeginLemma DEF Shape, Nested
  <2>5. StateOK'
    BY <1>3, <2>1, <2>3, <2>4 DEF schedule, Shape, StateOK, NewCall, loopVars
  <2> QED BY <2>4, <2>5 DEF Shape
<1>4. ASSUME NEW m \in Timer, cancel(t, m) PROVE Shape'
  <2>1. CancelJob(m) \in Job /\ CancelJob(m).arg = m
    BY JobLemma
  <2>2. UNCHANGED <<owner, loop, timers, running>> /\ Free(t)
    BY <1>4 DEF cancel, loopVars
  <2>3. \E at \in {"erase", "enqueue"} :
          Begin(t, CancelJob(m), at) /\ (at # "enqueue" => t = owner) /\ active' \in Int
    BY <1>4, DispatchLemma DEF cancel, Shape, StateOK
  <2>4. /\ CallOK' /\ Confined' /\ Nested'
        /\ pc' \in [Callers -> {"idle", "enqueue", "wake", "insert", "count", "erase", "uncount"}]
        /\ call' \in [Callers -> Job \cup {None}]
    BY <1>1, <2>1, <2>2, <2>3, BeginLemma DEF Shape, Nested
  <2>5. StateOK'
    BY <1>4, <2>3, <2>4 DEF cancel, Shape, StateOK, NewCall, loopVars
  <2> QED BY <2>4, <2>5 DEF Shape
<1>5. ASSUME add_active(t) PROVE Shape'
  BY <1>5 DEF add_active, Shape, StateOK, CallOK, Confined, Nested, loopVars, NewCall
<1> QED BY <1>2, <1>3, <1>4, <1>5 DEF NewCalls

LEMMA CallStepShape ==
  ASSUME Shape, NEW t \in Callers, InCallStep(t)
  PROVE  Shape'
<1> USE DEF Shape, StateOK, CallOK, Confined, Nested, loopVars, callVars, Goto, Return
<1>1. ASSUME Enqueue(t) PROVE Shape'
  BY <1>1 DEF Enqueue
<1>2. ASSUME WakeUp(t) PROVE Shape'
  BY <1>2 DEF WakeUp
<1>3. ASSUME Insert(t) PROVE Shape'
  <2> DEFINE m == call[t].arg
             i == UpperBound(expiry[m]) + 1
  <2>1. timers \in Seq(Timer) /\ m \in Timer
    BY <1>3 DEF Insert
  <2>2. i \in 1 .. Len(timers) + 1
    BY <2>1, UpperBoundLemma
  <2>3. timers' = InsertAt(timers, i, m)
    BY <1>3 DEF Insert
  <2>4. timers' \in Seq(Timer) /\ Len(timers') = Len(timers) + 1
    <3> HIDE DEF i, m
    <3> QED BY <2>1, <2>2, <2>3, InsertAtLemma
  <2>5. timers' # <<>>
    BY <2>1, <2>4
  <2> QED BY <1>3, <2>4, <2>5 DEF Insert
<1>4. ASSUME Count(t) PROVE Shape'
  BY <1>4 DEF Count
<1>5. ASSUME Erase(t) PROVE Shape'
  <2>1. timers' \in Seq(Timer)
    BY <1>5, RemoveAtLemma, LenProperties DEF Erase
  <2> QED BY <1>5, <2>1 DEF Erase
<1>6. ASSUME Uncount(t) PROVE Shape'
  BY <1>6 DEF Uncount
<1> QED BY <1>1, <1>2, <1>3, <1>4, <1>5, <1>6 DEF InCallStep

LEMMA LoopShape ==
  ASSUME Shape, LoopStep \/ Interrupted \/ IoReady
  PROVE  Shape'
<1> USE DEF Shape, StateOK, CallOK, Confined, Nested, loopVars, callVars
<1>1. ASSUME Check PROVE Shape'
  <2>1. schedule_after \in Nat
    BY BoundAssumption DEF schedule_after
  <2> QED BY <1>1, <2>1 DEF Check
<1>2. ASSUME NEW ev \in SUBSET {"wake", "io"}, WaitReturns(ev) PROVE Shape'
  BY <1>2 DEF WaitReturns
<1>3. ASSUME DrainWakeUp PROVE Shape'
  BY <1>3 DEF DrainWakeUp
<1>4. ASSUME HandleIo PROVE Shape'
  BY <1>4 DEF HandleIo, Callback
<1>5. ASSUME EventsHandled PROVE Shape'
  BY <1>5 DEF EventsHandled
<1>6. ASSUME FireTimer PROVE Shape'
  <2>1. Head(timers) \in Timer /\ Tail(timers) \in Seq(Timer)
    BY <1>6, HeadTailProperties DEF FireTimer, HeadExpired
  <2> QED BY <1>6, <2>1 DEF FireTimer, Callback
<1>7. ASSUME TimersFired PROVE Shape'
  BY <1>7 DEF TimersFired
<1>8. ASSUME Splice PROVE Shape'
  <2>1. batch \o tasks \in Seq(Job)
    BY ConcatProperties
  <2> QED BY <1>8, <2>1 DEF Splice
<1>9. ASSUME RunTask PROVE Shape'
  <2> DEFINE j == Head(batch)
  <2>1. j \in Job /\ Tail(batch) \in Seq(Job) /\ LoopThread \in Callers
    BY <1>9, HeadTailProperties DEF RunTask, Callers
  <2>2. running' = j /\ running' # None /\ running' \in Callback \cup {None}
    BY <1>9, <2>1, NoneAssumption DEF RunTask, Callback
  <2>3. loop = "tasks" /\ UNCHANGED <<tasks, timers, expiry, owner, signal, now, loop, deadline,
                                      events, cnt, calls, held>>
    BY <1>9 DEF RunTask
  <2>4. \/ j.op = "run" /\ UNCHANGED <<pc, call, active>>
        \/ j.op # "run" /\ \E at \in {"insert", "erase"} : Dispatch(LoopThread, j, at)
    BY <1>9, <2>1 DEF RunTask, Job
  <2>5. j.op # "run" => j.arg \in Timer
    BY <2>1 DEF Job
  <2> HIDE DEF j
  <2>6. ASSUME j.op # "run",
               NEW at \in {"insert", "erase", "enqueue"}, Begin(LoopThread, j, at),
               at # "enqueue" => LoopThread = owner
        PROVE  /\ CallOK' /\ Confined' /\ Nested'
               /\ pc' \in [Callers -> {"idle", "enqueue", "wake", "insert", "count", "erase", "uncount"}]
               /\ call' \in [Callers -> Job \cup {None}]
    BY <2>1, <2>2, <2>3, <2>5, <2>6, BeginLemma
  <2>7. /\ CallOK' /\ Confined' /\ Nested'
        /\ pc' \in [Callers -> {"idle", "enqueue", "wake", "insert", "count", "erase", "uncount"}]
        /\ call' \in [Callers -> Job \cup {None}] /\ active' \in Int
    <3>1. CASE j.op = "run" /\ UNCHANGED <<pc, call, active>>
      BY <2>2, <2>3, <3>1
    <3>2. CASE j.op # "run" /\ \E at \in {"insert", "erase"} : Dispatch(LoopThread, j, at)
      BY <2>1, <2>6, <3>2, DispatchLemma
    <3> QED BY <2>4, <3>1, <3>2
  <2>8. StateOK'
    BY <1>9, <2>1, <2>2, <2>3, <2>7 DEF RunTask
  <2> QED BY <2>7, <2>8
<1>10. ASSUME CallbackReturns PROVE Shape'
  BY <1>10 DEF CallbackReturns
<1>11. ASSUME TasksRun PROVE Shape'
  BY <1>11 DEF TasksRun
<1>12. ASSUME Account PROVE Shape'
  BY <1>12 DEF Account
<1> QED BY <1>1, <1>2, <1>3, <1>4, <1>5, <1>6, <1>7, <1>8, <1>9, <1>10, <1>11, <1>12
        DEF LoopStep, WokenUp, TimedOut, Interrupted, IoReady

LEMMA ShapeStep == Shape /\ [Next]_vars => Shape'
<1> SUFFICES ASSUME Shape, [Next]_vars PROVE Shape'
  OBVIOUS
<1> USE DEF Shape, StateOK, CallOK, Confined, Nested, loopVars, callVars
<1>1. ASSUME remove_active PROVE Shape'
  BY <1>1 DEF remove_active
<1>2. ASSUME StartRun PROVE Shape'
  BY <1>2 DEF StartRun, SetUpDone, Callers
<1>3. ASSUME Tick PROVE Shape'
  BY <1>3 DEF Tick
<1>4. ASSUME UNCHANGED vars PROVE Shape'
  BY <1>4 DEF vars
<1> QED BY <1>1, <1>2, <1>3, <1>4, CallShape, CallStepShape, LoopShape DEF Next

LEMMA ShapeInvariant == Spec => []Shape
  BY ShapeInit, ShapeStep, PTL DEF Spec

(* The scheduler is entered by the loop's thread alone while run() is in   *)
(* progress (the in_loop() test of schedule and cancel, and run).          *)
THEOREM ConfinedTheorem == Spec => []SchedulerConfined
<1>1. Shape => SchedulerConfined
  <2> SUFFICES ASSUME Shape, loop # "stopped", NEW t \in Threads
               PROVE  pc[t] \in {"idle", "enqueue", "wake"}
    BY DEF SchedulerConfined
  <2>1. t \in Callers /\ t # owner
    BY ThreadAssumption DEF Shape, Confined, Callers
  <2> QED BY <2>1 DEF Shape, StateOK, Confined
<1> QED BY <1>1, ShapeInvariant, PTL
-----------------------------------------------------------------------------
(* NoLostWakeup made inductive: whenever the eventfd is not about to be    *)
(* drained or the list to be taken, a queued job has its wake-up on the    *)
(* way.                                                                    *)
WakeUpOnTheWay == signal \/ \E t \in Callers : pc[t] = "wake"

AwakeInv ==
  loop \notin {"events", "timers", "splice"} /\ tasks # <<>> => WakeUpOnTheWay

LEMMA AwakeStep == Shape /\ AwakeInv /\ [Next]_vars => AwakeInv'
<1> SUFFICES ASSUME Shape, AwakeInv, [Next]_vars PROVE AwakeInv'
  OBVIOUS
<1> USE DEF AwakeInv, WakeUpOnTheWay
<1>1. ASSUME NEW t \in Callers, pc[t] # "wake", NEW at, pc' = [pc EXCEPT ![t] = at],
             UNCHANGED <<loop, tasks, signal>>
      PROVE  AwakeInv'
  <2>1. \A u \in Callers : pc[u] = "wake" => pc'[u] = "wake"
    BY <1>1 DEF Shape, StateOK
  <2> QED BY <1>1, <2>1
<1>2. ASSUME NEW t \in Callers, NewCalls(t) PROVE AwakeInv'
  <2>1. CASE add_active(t)
    BY <2>1 DEF add_active, loopVars
  <2>2. CASE ~add_active(t)
    <3>1. UNCHANGED <<loop, tasks, signal>> /\ pc[t] = "idle"
      BY <1>2, <2>2 DEF NewCalls, execute, schedule, cancel, loopVars, Free
    <3>2. \E at : pc' = [pc EXCEPT ![t] = at]
      BY <1>2, <2>2 DEF NewCalls, execute, schedule, cancel, Dispatch, Begin
    <3> QED BY <1>1, <3>1, <3>2
  <2> QED BY <2>1, <2>2
<1>3. ASSUME NEW t \in Callers, InCallStep(t) PROVE AwakeInv'
  <2>1. CASE Enqueue(t)
    BY <2>1 DEF Enqueue, Shape, StateOK
  <2>2. CASE WakeUp(t)
    BY <2>2 DEF WakeUp
  <2>3. CASE Insert(t) \/ Count(t) \/ Erase(t) \/ Uncount(t)
    <3>1. UNCHANGED <<loop, tasks, signal>> /\ pc[t] # "wake"
      BY <2>3 DEF Insert, Count, Erase, Uncount, loopVars
    <3>2. \E at : pc' = [pc EXCEPT ![t] = at]
      BY <2>3 DEF Insert, Count, Erase, Uncount, Goto, Return
    <3> QED BY <1>1, <3>1, <3>2
  <2> QED BY <1>3, <2>1, <2>2, <2>3 DEF InCallStep
<1>4. CASE RunTask
  <2>1. pc' = pc \/ \E at : pc' = [pc EXCEPT ![LoopThread] = at]
    <3>1. Head(batch) \in Job
      BY <1>4, HeadTailProperties DEF RunTask, Shape, StateOK
    <3>2. Head(batch).op \in {"run", "schedule", "cancel"}
      BY <3>1 DEF Job
    <3> QED BY <1>4, <3>2 DEF RunTask, Dispatch, Begin
  <2>2. pc[LoopThread] = "idle"
    BY <1>4 DEF RunTask, Shape, Nested
  <2> QED BY <1>1, <1>4, <2>1, <2>2 DEF RunTask, Callers
<1>5. CASE (LoopStep /\ ~RunTask) \/ Interrupted \/ IoReady
  BY <1>5 DEF LoopStep, Interrupted, IoReady, Check, WokenUp, TimedOut, WaitReturns, DrainWakeUp,
              HandleIo, EventsHandled, FireTimer, TimersFired, Splice, CallbackReturns, TasksRun,
              Account, callVars
<1>6. CASE remove_active \/ StartRun \/ Tick \/ UNCHANGED vars
  BY <1>6 DEF remove_active, StartRun, Tick, vars, loopVars, callVars
<1> QED BY <1>2, <1>3, <1>4, <1>5, <1>6 DEF Next

(* The loop never sleeps on a queued job whose wake-up was lost (execute,  *)
(* wait and _run_tasks).                                                   *)
THEOREM NoLostWakeupTheorem == Spec => []NoLostWakeup
<1>1. Init => AwakeInv
  BY DEF Init, AwakeInv
<1>2. AwakeInv => NoLostWakeup
  BY DEF AwakeInv, WakeUpOnTheWay, NoLostWakeup
<1> QED BY <1>1, <1>2, AwakeStep, ShapeInvariant, PTL DEF Spec
-----------------------------------------------------------------------------
LEMMA LenLemma ==
  ASSUME Shape
  PROVE  Len(tasks) \in Nat /\ Len(batch) \in Nat /\ Len(timers) \in Nat /\ Counted \in Nat
<1>1. Len(tasks) \in Nat /\ Len(batch) \in Nat /\ Len(timers) \in Nat
  BY LenProperties DEF Shape, StateOK
<1>2. pc[owner] = "count" => Len(timers) > 0
  BY <1>1, EmptySeq DEF Shape, StateOK, Confined
<1> QED BY <1>1, <1>2 DEF Counted, InFlight, Shape, StateOK

LEMMA EnqueueFinite ==
  IsFiniteSet(At("enqueue")) /\ Cardinality(At("enqueue")) \in Nat
<1>1. IsFiniteSet(Callers) /\ At("enqueue") \in SUBSET Callers
  BY ThreadAssumption, FS_AddElement DEF Callers, At
<1> QED BY <1>1, FS_Subset, FS_CardinalityType

(* A step that changes active as it changes Counted, and no caller enters  *)
(* or leaves execute().                                                    *)
LEMMA BalanceSame ==
  ASSUME Shape, HandleBalance, At("enqueue")' = At("enqueue"),
         \/ Counted' = Counted /\ active' = active
         \/ Counted' = Counted + 1 /\ active' = active + 1
         \/ Counted' = Counted - 1 /\ active' = active - 1
  PROVE  HandleBalance'
<1> DEFINE n == Cardinality(At("enqueue"))
           c == Counted
<1>1. n \in Nat /\ n' = n /\ active \in Int
  BY EnqueueFinite DEF Shape, StateOK
<1>2. active = c + n /\ c \in Nat
  BY LenLemma DEF HandleBalance
<1>3. \/ c' = c /\ active' = active
      \/ c' = c + 1 /\ active' = active + 1
      \/ c' = c - 1 /\ active' = active - 1
  OBVIOUS
<1> HIDE DEF n, c
<1>4. active' = c' + n'
  BY <1>1, <1>2, <1>3
<1> QED BY <1>4 DEF n, c, HandleBalance

(* add_active() as the first step of execute().                            *)
LEMMA BalanceEnter ==
  ASSUME Shape, HandleBalance, NEW t \in Callers, pc[t] # "enqueue",
         pc' = [pc EXCEPT ![t] = "enqueue"], Counted' = Counted, active' = active + 1
  PROVE  HandleBalance'
<1> DEFINE n == Cardinality(At("enqueue"))
           c == Counted
<1>1. n \in Nat /\ n' = n + 1
  <2>1. At("enqueue")' = At("enqueue") \cup {t} /\ t \notin At("enqueue")
    BY DEF At, Shape, StateOK
  <2> QED BY <2>1, EnqueueFinite, FS_AddElement
<1>2. active = c + n /\ c \in Nat /\ c' = c
  BY LenLemma DEF HandleBalance
<1> HIDE DEF n, c
<1>3. active' = c' + n'
  BY <1>1, <1>2
<1> QED BY <1>3 DEF n, c, HandleBalance

(* The job is in the list instead of in the call.                          *)
LEMMA BalanceLeave ==
  ASSUME Shape, HandleBalance, NEW t \in Callers, pc[t] = "enqueue",
         pc' = [pc EXCEPT ![t] = "wake"], Counted' = Counted + 1, active' = active
  PROVE  HandleBalance'
<1> DEFINE n == Cardinality(At("enqueue"))
           c == Counted
<1>1. n \in Nat /\ n' = n - 1
  <2>1. At("enqueue")' = At("enqueue") \ {t} /\ t \in At("enqueue")
    BY DEF At, Shape, StateOK
  <2> QED BY <2>1, EnqueueFinite, FS_RemoveElement
<1>2. active = c + n /\ c \in Nat /\ c' = c + 1
  BY LenLemma DEF HandleBalance
<1> HIDE DEF n, c
<1>3. active' = c' + n'
  BY <1>1, <1>2
<1> QED BY <1>3 DEF n, c, HandleBalance

(* A step of one caller outside execute().                                 *)
LEMMA BalanceMove ==
  ASSUME Shape, HandleBalance, NEW t \in Callers, pc[t] # "enqueue", NEW at, at # "enqueue",
         pc' = [pc EXCEPT ![t] = at],
         \/ Counted' = Counted /\ active' = active
         \/ Counted' = Counted + 1 /\ active' = active + 1
         \/ Counted' = Counted - 1 /\ active' = active - 1
  PROVE  HandleBalance'
<1>1. At("enqueue")' = At("enqueue")
  BY DEF At, Shape, StateOK
<1> QED BY <1>1, BalanceSame

(* A new call or a job that makes one leaves the callers' share of Counted.*)
LEMMA OwnerShare ==
  ASSUME Shape, NEW t \in Callers, pc[t] \in {"idle", "enqueue", "wake"},
         NEW at \in {"idle", "enqueue", "wake", "insert", "erase"}, pc' = [pc EXCEPT ![t] = at],
         owner' = owner
  PROVE  /\ pc[owner] = "uncount" <=> pc'[owner'] = "uncount"
         /\ pc[owner] = "count" <=> pc'[owner'] = "count"
  BY DEF Shape, StateOK

LEMMA BalanceNewCall ==
  ASSUME Shape, HandleBalance, NEW t \in Callers, NewCalls(t)
  PROVE  HandleBalance'
<1>1. pc[t] = "idle"
  BY DEF NewCalls, execute, schedule, cancel, add_active, Free
<1>2. CASE add_active(t)
  <2>1. Counted' = Counted + 1
    BY <1>2, LenLemma DEF add_active, Counted, InFlight, Shape, StateOK, loopVars
  <2>2. At("enqueue")' = At("enqueue")
    BY <1>2 DEF add_active, At
  <2> QED BY <1>2, <2>1, <2>2, BalanceSame, LenLemma DEF add_active, Shape, StateOK
<1>3. CASE ~add_active(t)
  <2>1. UNCHANGED <<tasks, timers, owner, loopVars, held>>
    BY <1>3 DEF NewCalls, execute, schedule, cancel
  <2>2. \E at \in {"enqueue", "insert", "erase"} :
          /\ pc' = [pc EXCEPT ![t] = at]
          /\ active' = active + (IF at = "enqueue" THEN 1 ELSE 0)
    BY <1>3 DEF NewCalls, execute, schedule, cancel, Dispatch, Begin, Shape, StateOK
  <2>3. PICK at \in {"enqueue", "insert", "erase"} :
          /\ pc' = [pc EXCEPT ![t] = at]
          /\ active' = active + (IF at = "enqueue" THEN 1 ELSE 0)
    BY <2>2
  <2>4. Counted' = Counted
    BY <1>1, <2>1, <2>3, OwnerShare DEF Counted, InFlight, loopVars
  <2>5. CASE at = "enqueue"
    BY <1>1, <2>3, <2>4, <2>5, BalanceEnter
  <2>6. CASE at # "enqueue"
    <3>1. active' = active
      BY <2>3, <2>6 DEF Shape, StateOK
    <3> QED BY <1>1, <2>3, <2>4, <2>6, <3>1, BalanceMove
  <2> QED BY <2>5, <2>6
<1> QED BY <1>2, <1>3

LEMMA BalanceCallStep ==
  ASSUME Shape, HandleBalance, NEW t \in Callers, InCallStep(t)
  PROVE  HandleBalance'
<1> USE DEF loopVars
<1>0. /\ Len(tasks) \in Nat /\ Len(batch) \in Nat /\ Len(timers) \in Nat
      /\ cnt \in Nat /\ held \in Nat /\ InFlight \in Nat /\ active \in Int
      /\ pc[t] \in {"insert", "count", "erase", "uncount"} => t = owner
  BY LenLemma DEF Shape, StateOK, Confined, InFlight
<1>1. CASE Enqueue(t)
  <2>1. Len(tasks') = Len(tasks) + 1
    BY <1>1, AppendProperties DEF Enqueue, Shape, StateOK, CallOK
  <2>2. pc' = [pc EXCEPT ![t] = "wake"] /\ pc[t] = "enqueue"
    BY <1>1 DEF Enqueue
  <2>3. /\ pc[owner] = "uncount" <=> pc'[owner'] = "uncount"
        /\ pc[owner] = "count" <=> pc'[owner'] = "count"
    BY <1>1, <2>2, OwnerShare DEF Enqueue
  <2>4. Counted' = Counted + 1
    BY <1>0, <1>1, <2>1, <2>3 DEF Enqueue, Counted, InFlight
  <2> QED BY <1>1, <2>2, <2>4, BalanceLeave DEF Enqueue
<1>2. CASE WakeUp(t)
  <2>1. pc' = [pc EXCEPT ![t] = "idle"] /\ pc[t] = "wake"
    BY <1>2 DEF WakeUp, Goto
  <2>2. /\ pc[owner] = "uncount" <=> pc'[owner'] = "uncount"
        /\ pc[owner] = "count" <=> pc'[owner'] = "count"
    BY <1>2, <2>1, OwnerShare DEF WakeUp
  <2>3. Counted' = Counted
    BY <1>0, <1>2, <2>2 DEF WakeUp, Counted, InFlight
  <2> QED BY <1>0, <1>2, <2>1, <2>3, BalanceMove DEF WakeUp
<1>3. CASE Insert(t)
  <2>1. timers \in Seq(Timer) /\ call[t].arg \in Timer
    BY <1>3 DEF Insert, Shape, StateOK, CallOK
  <2>2. Len(timers') = Len(timers) + 1
    BY <1>3, <2>1, UpperBoundLemma, InsertAtLemma DEF Insert
  <2>3. pc' = [pc EXCEPT ![t] = "count"] /\ pc[owner] = "insert" /\ pc'[owner] = "count" /\ pc[t] = "insert"
    BY <1>0, <1>3 DEF Insert, Goto, Shape, StateOK
  <2>4. Counted' = Counted
    BY <1>0, <1>3, <2>2, <2>3 DEF Insert, Counted, InFlight
  <2> QED BY <1>0, <1>3, <2>3, <2>4, BalanceMove DEF Insert
<1>4. CASE Count(t)
  <2>1. pc' = [pc EXCEPT ![t] = "idle"] /\ pc[owner] = "count" /\ pc'[owner] = "idle" /\ pc[t] = "count"
    BY <1>0, <1>4 DEF Count, Return, Shape, StateOK
  <2>2. Counted' = Counted + 1
    BY <1>0, <1>4, <2>1 DEF Count, Counted, InFlight
  <2> QED BY <1>0, <1>4, <2>1, <2>2, BalanceMove DEF Count
<1>5. CASE Erase(t)
  <2>1. pc[t] = "erase" /\ pc[owner] = "erase" /\ t = owner
    BY <1>0, <1>5 DEF Erase
  <2>2. CASE Len(timers') = Len(timers) - 1 /\ Goto(t, "uncount")
    <3>1. pc' = [pc EXCEPT ![t] = "uncount"] /\ pc'[owner] = "uncount"
      BY <2>1, <2>2 DEF Goto, Shape, StateOK
    <3>2. Counted' = Counted
      BY <1>0, <1>5, <2>1, <2>2, <3>1 DEF Erase, Counted, InFlight
    <3> QED BY <1>0, <1>5, <2>1, <3>1, <3>2, BalanceMove DEF Erase
  <2>3. CASE timers' = timers /\ Return(t)
    <3>1. pc' = [pc EXCEPT ![t] = "idle"] /\ pc'[owner] = "idle"
      BY <2>1, <2>3 DEF Return, Shape, StateOK
    <3>2. Counted' = Counted
      BY <1>0, <1>5, <2>1, <2>3, <3>1 DEF Erase, Counted, InFlight
    <3> QED BY <1>0, <1>5, <2>1, <3>1, <3>2, BalanceMove DEF Erase
  <2>4. \A i \in DOMAIN timers : timers' = RemoveAt(timers, i) => Len(timers') = Len(timers) - 1
    BY RemoveAtLemma, LenProperties DEF Shape, StateOK
  <2> QED BY <1>5, <2>2, <2>3, <2>4 DEF Erase
<1>6. CASE Uncount(t)
  <2>1. pc' = [pc EXCEPT ![t] = "idle"] /\ pc[owner] = "uncount" /\ pc'[owner] = "idle" /\ pc[t] = "uncount"
    BY <1>0, <1>6 DEF Uncount, Return, Shape, StateOK
  <2>2. Counted' = Counted - 1
    BY <1>0, <1>6, <2>1 DEF Uncount, Counted, InFlight
  <2> QED BY <1>0, <1>6, <2>1, <2>2, BalanceMove DEF Uncount
<1> QED BY <1>1, <1>2, <1>3, <1>4, <1>5, <1>6 DEF InCallStep

LEMMA BalanceLoop ==
  ASSUME Shape, HandleBalance, LoopStep \/ Interrupted \/ IoReady
  PROVE  HandleBalance'
<1>0. /\ Len(tasks) \in Nat /\ Len(batch) \in Nat /\ Len(timers) \in Nat
      /\ cnt \in Nat /\ held \in Nat /\ InFlight \in Nat /\ active \in Int
      /\ Counted \in Nat
  BY LenLemma DEF Shape, StateOK, InFlight
<1>1. ASSUME pc' = pc, Counted' = Counted, active' = active PROVE HandleBalance'
  BY <1>1, BalanceSame DEF At
<1>2. CASE FireTimer
  <2>1. Len(timers') = Len(timers) - 1 /\ Head(timers) \in Timer
    BY <1>2, HeadTailProperties DEF FireTimer, HeadExpired, Shape, StateOK
  <2>2. InFlight = 0 /\ InFlight' = 1
    BY <1>2, <2>1, NoneAssumption DEF FireTimer, InFlight, Callback
  <2>3. Counted' = Counted
    <3>1. UNCHANGED <<held, tasks, batch, cnt, owner, pc>>
      BY <1>2 DEF FireTimer, callVars
    <3> QED BY <1>0, <2>1, <2>2, <3>1 DEF Counted
  <2> QED BY <1>1, <1>2, <2>3 DEF FireTimer, callVars
<1>3. CASE HandleIo
  <2>1. InFlight = 0 /\ InFlight' = 0
    BY <1>3 DEF HandleIo, InFlight
  <2>2. Counted' = Counted
    BY <1>0, <1>3, <2>1 DEF HandleIo, Counted, callVars
  <2> QED BY <1>1, <1>3, <2>2 DEF HandleIo, callVars
<1>4. CASE Splice
  <2>1. Len(batch') = Len(batch) + Len(tasks) /\ Len(tasks') = 0
    BY <1>4, ConcatProperties, EmptySeq DEF Splice, Shape, StateOK
  <2>2. Counted' = Counted
    BY <1>0, <1>4, <2>1 DEF Splice, Counted, InFlight, callVars
  <2> QED BY <1>1, <1>4, <2>2 DEF Splice, callVars
<1>5. CASE RunTask
  <2>1. Len(batch') = Len(batch) - 1 /\ Head(batch) \in Job
    BY <1>5, HeadTailProperties DEF RunTask, Shape, StateOK
  <2>2. InFlight = 0 /\ InFlight' = 1
    BY <1>5, <2>1, NoneAssumption DEF RunTask, InFlight, Callback, Job
  <2>3. owner = LoopThread /\ pc[LoopThread] = "idle" /\ LoopThread \in Callers
    BY <1>5 DEF RunTask, Shape, Confined, Nested, Callers
  <2>4. /\ active' = active
        /\ pc' = pc \/ \E at \in {"insert", "erase"} : pc' = [pc EXCEPT ![LoopThread] = at]
    BY <1>5, <2>1, <2>3 DEF RunTask, Dispatch, in_loop, Begin, Job
  <2>5. /\ pc[owner] = "uncount" <=> pc'[owner'] = "uncount"
        /\ pc[owner] = "count" <=> pc'[owner'] = "count"
    BY <1>5, <2>3, <2>4, OwnerShare DEF RunTask
  <2>6. Counted' = Counted
    BY <1>0, <1>5, <2>1, <2>2, <2>5 DEF RunTask, Counted
  <2> QED BY <1>1, <2>3, <2>4, <2>6, BalanceMove
<1>6. CASE CallbackReturns
  <2>1. /\ InFlight' = 0
        /\ \/ cnt' = cnt /\ InFlight = 0
           \/ cnt' = cnt + 1 /\ InFlight = 1
    BY <1>6 DEF CallbackReturns, InFlight
  <2>2. Counted' = Counted
    <3>1. UNCHANGED <<held, tasks, batch, timers, owner, pc>>
      BY <1>6 DEF CallbackReturns, callVars
    <3> QED BY <1>0, <2>1, <3>1 DEF Counted
  <2> QED BY <1>1, <1>6, <2>2 DEF CallbackReturns, callVars
<1>7. CASE Account
  <2> DEFINE n == Cardinality(At("enqueue"))
             c == Counted
  <2>1. c' = c - cnt /\ active' = active - cnt
    BY <1>0, <1>7 DEF Account, Counted, InFlight, callVars
  <2>2. n' = n /\ n \in Nat
    BY <1>7, EnqueueFinite DEF Account, At, callVars
  <2>3. active = c + n /\ c \in Nat
    BY <1>0 DEF HandleBalance
  <2> HIDE DEF c, n
  <2>4. active' = c' + n'
    BY <1>0, <2>1, <2>2, <2>3
  <2> QED BY <2>4 DEF c, n, HandleBalance
<1>8. CASE \/ Check \/ WokenUp \/ TimedOut \/ DrainWakeUp \/ EventsHandled \/ TimersFired \/ TasksRun
           \/ Interrupted \/ IoReady
  <2>1. UNCHANGED <<active, held, tasks, batch, timers, cnt, running, owner, pc>>
    BY <1>8 DEF Check, WokenUp, TimedOut, WaitReturns, DrainWakeUp, EventsHandled, TimersFired,
                TasksRun, Interrupted, IoReady, callVars
  <2>2. Counted' = Counted
    BY <2>1 DEF Counted, InFlight
  <2> QED BY <1>1, <2>1, <2>2
<1> QED BY <1>2, <1>3, <1>4, <1>5, <1>6, <1>7, <1>8 DEF LoopStep

LEMMA BalanceStep == Shape /\ HandleBalance /\ [Next]_vars => HandleBalance'
<1> SUFFICES ASSUME Shape, HandleBalance, [Next]_vars PROVE HandleBalance'
  OBVIOUS
<1>0. /\ Len(tasks) \in Nat /\ Len(batch) \in Nat /\ Len(timers) \in Nat
      /\ cnt \in Nat /\ held \in Nat /\ InFlight \in Nat /\ active \in Int
      /\ Counted \in Nat
  BY LenLemma DEF Shape, StateOK, InFlight
<1>1. CASE remove_active
  <2>1. Counted' = Counted - 1
    BY <1>0, <1>1 DEF remove_active, Counted, InFlight, loopVars, callVars
  <2>2. At("enqueue")' = At("enqueue") /\ active' = active - 1
    BY <1>1 DEF remove_active, At, callVars
  <2> QED BY <2>1, <2>2, BalanceSame
<1>2. CASE StartRun
  <2>1. pc[owner] \in {"idle", "enqueue", "wake"} /\ pc'[owner'] = "idle"
    BY <1>2 DEF StartRun, SetUpDone, Callers, callVars, Shape, StateOK
  <2>2. Counted' = Counted
    BY <1>0, <1>2, <2>1 DEF StartRun, Counted, InFlight, callVars
  <2>3. At("enqueue")' = At("enqueue") /\ active' = active
    BY <1>2 DEF StartRun, At, callVars
  <2> QED BY <2>2, <2>3, BalanceSame
<1>3. CASE Tick \/ UNCHANGED vars
  <2>1. Counted' = Counted
    BY <1>3 DEF Tick, vars, Counted, InFlight, loopVars, callVars
  <2>2. At("enqueue")' = At("enqueue") /\ active' = active
    BY <1>3 DEF Tick, vars, At, callVars
  <2> QED BY <2>1, <2>2, BalanceSame
<1> QED BY <1>1, <1>2, <1>3, BalanceNewCall, BalanceCallStep, BalanceLoop DEF Next

LEMMA BalanceInit == Init => HandleBalance
<1> SUFFICES ASSUME Init PROVE HandleBalance
  OBVIOUS
<1>1. At("enqueue") = {}
  BY DEF Init, At
<1>2. Counted = 0
  BY EmptySeq DEF Init, Counted, InFlight
<1>3. active = 0 /\ Cardinality(At("enqueue")) = 0
  BY <1>1, FS_EmptySet DEF Init
<1> QED BY <1>2, <1>3 DEF HandleBalance

(* _active_handles is exactly the number of things run() has to wait for   *)
(* (execute, schedule, cancel, run).                                       *)
THEOREM HandleBalanceTheorem == Spec => []HandleBalance
  BY BalanceInit, BalanceStep, ShapeInvariant, PTL DEF Spec

(* Every variable keeps its type, and _active_handles never falls below    *)
(* zero, so that the test of run() is a test for something left to do.     *)
THEOREM TypeTheorem == Spec => []TypeOK
<1>1. Shape /\ HandleBalance => TypeOK
  BY LenLemma, EnqueueFinite DEF HandleBalance, TypeOK, Shape
<1> QED BY <1>1, ShapeInvariant, HandleBalanceTheorem, PTL

(* run() returns in Check, with a count of zero; that leaves nothing.       *)
LEMMA NothingCounted ==
  ASSUME Shape, HandleBalance, loop = "check", active = 0
  PROVE  Drained
<1>1. running = None /\ owner = LoopThread /\ pc[owner] = "idle"
  BY DEF Shape, Confined, Nested
<1>2. /\ Len(tasks) \in Nat /\ Len(batch) \in Nat /\ Len(timers) \in Nat
      /\ cnt \in Nat /\ held \in Nat /\ Cardinality(At("enqueue")) \in Nat
  BY LenLemma, EnqueueFinite DEF Shape, StateOK
<1>3. /\ Len(tasks) = 0 /\ Len(batch) = 0 /\ Len(timers) = 0
      /\ held = 0 /\ Cardinality(At("enqueue")) = 0
  BY <1>1, <1>2 DEF HandleBalance, Counted, InFlight
<1>4. At("enqueue") = {}
  BY <1>3, EnqueueFinite, FS_EmptySet
<1> QED BY <1>3, <1>4, EmptySeq DEF Drained, Shape, StateOK

(* run() returns only when nothing is queued, linked or held (run).        *)
THEOREM DrainedTheorem == Spec => ReturnsOnlyDrained
<1>1. Shape /\ HandleBalance /\ [Next]_vars => (loop # "stopped" /\ loop' = "stopped" => Drained)
  <2> SUFFICES ASSUME Shape, HandleBalance, [Next]_vars, loop # "stopped", loop' = "stopped"
               PROVE  Drained
    OBVIOUS
  <2>1. loop = "check" /\ active = 0
    BY DEF Next, NewCalls, execute, schedule, cancel, add_active, remove_active, StartRun, Tick, InCallStep,
           Enqueue, WakeUp, Insert, Count, Erase, Uncount, LoopStep, Check, WokenUp, TimedOut,
           WaitReturns, DrainWakeUp, HandleIo, EventsHandled, FireTimer, TimersFired, Splice,
           RunTask, CallbackReturns, TasksRun, Account, Interrupted, IoReady, vars, loopVars
  <2> QED BY <2>1, NothingCounted
<1> QED BY <1>1, ShapeInvariant, HandleBalanceTheorem, PTL DEF Spec, ReturnsOnlyDrained
-----------------------------------------------------------------------------
LEMMA AppendConcat ==
  ASSUME NEW S, NEW s \in Seq(S), NEW r \in Seq(S), NEW e \in S
  PROVE  s \o Append(r, e) = Append(s \o r, e)
  BY AppendIsConcat, ConcatAssociative, ConcatProperties

LEMMA HeadConcat ==
  ASSUME NEW S, NEW s \in Seq(S), NEW r \in Seq(S), s # <<>>
  PROVE  s \o r # <<>> /\ Head(s \o r) = Head(s) /\ Tail(s \o r) = Tail(s) \o r
  OBVIOUS

(* The loop starts as an executor, and every step of it is a step of the   *)
(* executor or none: jobs are run one at a time in the order of their hand-*)
(* over, whichever thread hands them over and at which point of run(), and *)
(* run() does not return over one (execute, run and _run_tasks).           *)
THEOREM ExecutorTheorem == Spec => Executor!SafeSpec
<1>1. Init => Executor!Init
  BY DEF Init, Executor!Init
<1>2. Shape /\ HandleBalance /\ [Next]_vars => [Executor!Next]_Executor!vars
  <2> SUFFICES ASSUME Shape, HandleBalance, [Next]_vars PROVE [Executor!Next]_Executor!vars
    OBVIOUS
  <2>0. /\ tasks \in Seq(Job) /\ batch \in Seq(Job)
        /\ running # None => loop \in {"events", "timers", "tasks"}
    BY DEF Shape, StateOK, Nested
  <2>1. ASSUME NEW t \in Callers, Enqueue(t) PROVE Executor!Next
    <3>1. call[t] \in Job
      BY <2>1 DEF Enqueue, Shape, CallOK
    <3>2. batch' \o tasks' = Append(batch \o tasks, call[t])
      BY <2>0, <2>1, <3>1, AppendConcat DEF Enqueue, loopVars
    <3>3. Executor!Submit(call[t])
      BY <2>1, <3>2 DEF Enqueue, loopVars, Executor!Submit
    <3> QED BY <3>1, <3>3 DEF Executor!Next
  <2>2. CASE RunTask
    <3>1. loop = "tasks" /\ loop' = "tasks" /\ running = None /\ batch # <<>>
          /\ running' = Head(batch) /\ batch' = Tail(batch) /\ tasks' = tasks
      BY <2>2 DEF RunTask
    <3>2. Executor!Start
      BY <2>0, <3>1, HeadConcat DEF Executor!Start
    <3> QED BY <3>2 DEF Executor!Next
  <2>3. CASE CallbackReturns
    <3>1. running # None /\ running' = None /\ UNCHANGED <<batch, tasks, loop>>
      BY <2>3 DEF CallbackReturns
    <3>2. CASE loop = "tasks"
      BY <3>1, <3>2 DEF Executor!Finish, Executor!Next
    <3>3. CASE loop # "tasks"
      BY <3>1, <3>3 DEF Executor!vars
    <3> QED BY <3>2, <3>3
  <2>4. CASE Splice
    <3>1. running = None /\ loop = "splice"
      BY <2>0, <2>4 DEF Splice
    <3>2. batch' \o tasks' = batch \o tasks
      BY <2>0, <2>4, ConcatEmptySeq, ConcatProperties DEF Splice
    <3> QED BY <2>4, <3>1, <3>2 DEF Splice, Executor!vars
  <2>5. CASE StartRun
    BY <2>5 DEF StartRun, Executor!Serve, Executor!Next
  <2>6. CASE Check
    <3>1. CASE active # 0
      BY <2>6, <3>1 DEF Check, Executor!vars
    <3>2. CASE active = 0
      <4>1. tasks = <<>> /\ batch = <<>>
        BY <2>6, <3>2, NothingCounted DEF Check, Drained
      <4>2. batch \o tasks = <<>>
        BY <4>1
      <4> QED BY <2>6, <3>2, <4>1, <4>2 DEF Check, Executor!Retire, Executor!Next
    <3> QED BY <3>1, <3>2
  <2>7. CASE HandleIo \/ FireTimer
    <3>1. /\ loop \in {"events", "timers"} /\ UNCHANGED <<loop, batch, tasks>>
      BY <2>7 DEF HandleIo, FireTimer
    <3> QED BY <3>1 DEF Executor!vars
  <2>8. CASE EventsHandled \/ TimersFired \/ TasksRun \/ Account
             \/ WokenUp \/ TimedOut \/ Interrupted \/ IoReady
    <3>1. /\ running = None /\ loop # "stopped" /\ loop' # "stopped"
          /\ UNCHANGED <<running, batch, tasks>>
      BY <2>0, <2>8 DEF EventsHandled, TimersFired, TasksRun, Account, WokenUp, TimedOut,
                        Interrupted, IoReady, WaitReturns
    <3> QED BY <3>1 DEF Executor!vars
  <2>9. CASE DrainWakeUp \/ remove_active \/ Tick \/ UNCHANGED vars
             \/ \E t \in Callers : NewCalls(t) \/ WakeUp(t) \/ Insert(t) \/ Count(t)
                                    \/ Erase(t) \/ Uncount(t)
    <3>1. UNCHANGED <<running, batch, tasks, loop>>
      BY <2>9 DEF DrainWakeUp, remove_active, Tick, vars, loopVars, NewCalls, execute, schedule,
                  cancel, add_active, WakeUp, Insert, Count, Erase, Uncount
    <3> QED BY <3>1 DEF Executor!vars
  <2> QED BY <2>1, <2>2, <2>3, <2>4, <2>5, <2>6, <2>7, <2>8, <2>9 DEF Next, LoopStep, InCallStep
<1> QED BY <1>1, <1>2, ShapeInvariant, HandleBalanceTheorem, PTL DEF Spec, Executor!SafeSpec
-----------------------------------------------------------------------------
(* The list of timers is sorted, and it changes in three steps only.       *)
Sorted ==
  \A i, j \in 1 .. Len(timers) : i <= j => expiry[timers[i]] <= expiry[timers[j]]

LEMMA TimersChange ==
  ASSUME Shape, [Next]_vars
  PROVE  timers' = timers \/ FireTimer \/ \E t \in Callers : Insert(t) \/ Erase(t)
BY DEF Next, NewCalls, execute, schedule, cancel, add_active, remove_active, StartRun, Tick,
       InCallStep, Enqueue, WakeUp, Count, Uncount, LoopStep, Check, WokenUp, TimedOut,
       WaitReturns, DrainWakeUp, HandleIo, EventsHandled, TimersFired, Splice, RunTask,
       CallbackReturns, TasksRun, Account, Interrupted, IoReady, vars

LEMMA LinkedExpiry ==
  ASSUME Shape, [Next]_vars
  PROVE  /\ \A i \in 1 .. Len(timers) : expiry'[timers[i]] = expiry[timers[i]]
         /\ now' \in Nat /\ now <= now'
<1>1. CASE \E t \in Callers, m \in Timer, e \in 0 .. MaxNow : schedule(t, m, e)
  <2>1. PICK t \in Callers, m \in Timer, e \in 0 .. MaxNow : schedule(t, m, e)
    BY <1>1
  <2>2. expiry' = [expiry EXCEPT ![m] = e] /\ ~Armed(m) /\ now' = now
    BY <2>1 DEF schedule
  <2>3. timers \in Seq(Timer) /\ DOMAIN timers = 1 .. Len(timers)
    BY LenProperties DEF Shape, StateOK
  <2>4. \A i \in 1 .. Len(timers) : timers[i] # m /\ timers[i] \in Timer
    BY <2>2, <2>3 DEF Armed, Range
  <2> QED BY <2>2, <2>4 DEF Shape, StateOK
<1>2. CASE Tick
  BY <1>2 DEF Tick, Shape, StateOK
<1>3. CASE UNCHANGED <<expiry, now>>
  BY <1>3 DEF Shape, StateOK
<1> QED
  BY <1>1, <1>2, <1>3
     DEF Next, NewCalls, execute, cancel, add_active, remove_active, StartRun, FireTimer, Insert, Erase,
         InCallStep, Enqueue, WakeUp, Count, Uncount, LoopStep, Check, WokenUp, TimedOut,
         WaitReturns, DrainWakeUp, HandleIo, EventsHandled, TimersFired, Splice, RunTask,
         CallbackReturns, TasksRun, Account, Interrupted, IoReady, vars
-----------------------------------------------------------------------------
(* While the loop waits nobody is inside the scheduler, so that the list   *)
(* the timeout was computed for does not change.                           *)
LEMMA SleepStep == Shape /\ SleepCoversTimers /\ [Next]_vars => SleepCoversTimers'
<1> SUFFICES ASSUME Shape, SleepCoversTimers, [Next]_vars, loop' = "wait", timers' # <<>>
             PROVE  deadline' <= now' \/ deadline' <= expiry'[timers'[1]]
  BY DEF SleepCoversTimers
<1>1. timers \in Seq(Timer) /\ Len(timers) \in Nat /\ deadline \in Nat /\ now \in Nat
      /\ expiry \in [Timer -> Nat]
  BY LenProperties DEF Shape, StateOK
<1>2. CASE loop = "wait"
  <2>1. ~\E t \in Callers : Insert(t) \/ Erase(t)
    BY <1>2 DEF Insert, Erase, Shape, Confined, Nested
  <2>2. timers' = timers
    BY <1>2, <2>1, TimersChange DEF FireTimer
  <2>3. deadline' = deadline
    BY <1>2 DEF Next, NewCalls, execute, schedule, cancel, add_active, remove_active, StartRun, Tick,
       InCallStep, Enqueue, WakeUp, Insert, Erase, Count, Uncount, LoopStep, Check, WokenUp, TimedOut,
       WaitReturns, DrainWakeUp, HandleIo, EventsHandled, FireTimer, TimersFired, Splice, RunTask,
       CallbackReturns, TasksRun, Account, Interrupted, IoReady, vars, loopVars
  <2>4. 1 \in 1 .. Len(timers) /\ timers[1] \in Timer
    BY <1>1, <2>2, EmptySeq
  <2>5. expiry'[timers[1]] = expiry[timers[1]] /\ now' \in Nat /\ now <= now'
    BY <2>4, LinkedExpiry
  <2>6. deadline <= now \/ deadline <= expiry[timers[1]]
    BY <1>2, <2>2 DEF SleepCoversTimers
  <2> QED BY <1>1, <2>2, <2>3, <2>4, <2>5, <2>6
<1>3. CASE loop # "wait"
  <2>1. Check
    BY <1>3 DEF Next, NewCalls, execute, schedule, cancel, add_active, remove_active, StartRun, Tick,
       InCallStep, Enqueue, WakeUp, Insert, Erase, Count, Uncount, LoopStep, WokenUp, TimedOut,
       WaitReturns, DrainWakeUp, HandleIo, EventsHandled, FireTimer, TimersFired, Splice, RunTask,
       CallbackReturns, TasksRun, Account, Interrupted, IoReady, vars, loopVars
  <2>2. deadline' = schedule_after /\ UNCHANGED <<timers, expiry, now>>
    BY <2>1 DEF Check
  <2>3. 1 \in 1 .. Len(timers) /\ timers[1] \in Timer /\ timers # <<>>
    BY <1>1, <2>2, EmptySeq
  <2>4. expiry[timers[1]] \in Nat
    BY <1>1, <2>3
  <2>5. deadline' = IF now > expiry[timers[1]] THEN now ELSE expiry[timers[1]]
    BY <2>2, <2>3 DEF schedule_after
  <2> QED BY <1>1, <2>2, <2>4, <2>5
<1> QED BY <1>2, <1>3

(* The wait of run() never lasts beyond the first timer's expiry, whatever *)
(* other threads do meanwhile (run, schedule_after, and the in_loop() test *)
(* of schedule and cancel).                                                *)
THEOREM SleepTheorem == Spec => []SleepCoversTimers
<1>1. Init => SleepCoversTimers
  BY DEF Init, SleepCoversTimers
<1> QED BY <1>1, SleepStep, ShapeInvariant, PTL DEF Spec
-----------------------------------------------------------------------------
(* The elements of a list that was inserted into or removed from.          *)
LEMMA InsertAtElements ==
  ASSUME NEW S, NEW s \in Seq(S), NEW i \in 1 .. Len(s) + 1, NEW e \in S
  PROVE  \A j \in 1 .. Len(s) + 1 :
           InsertAt(s, i, e)[j] = IF j < i THEN s[j] ELSE IF j = i THEN e ELSE s[j - 1]
<1> DEFINE a == SubSeq(s, 1, i - 1)
           b == SubSeq(s, i, Len(s))
           c == a \o <<e>>
<1>0. Len(s) \in Nat /\ i \in Int
  BY LenProperties
<1>1. a \in Seq(S) /\ Len(a) = i - 1 /\ \A j \in 1 .. i - 1 : a[j] = s[j]
  BY <1>0, SubSeqProperties, ElementOfSeq
<1>2. b \in Seq(S) /\ Len(b) = Len(s) - i + 1 /\ \A j \in 1 .. Len(s) - i + 1 : b[j] = s[i + j - 1]
  BY <1>0, SubSeqProperties, ElementOfSeq
<1>3. <<e>> \in Seq(S) /\ Len(<<e>>) = 1 /\ <<e>>[1] = e
  OBVIOUS
<1> InsertAt(s, i, e) = c \o b
  BY DEF InsertAt
<1> HIDE DEF a, b
<1>4. /\ c \in Seq(S) /\ Len(c) = i
      /\ \A j \in 1 .. i : c[j] = IF j <= i - 1 THEN a[j] ELSE <<e>>[j - (i - 1)]
  BY <1>0, <1>1, <1>3, ConcatProperties
<1> HIDE DEF c
<1>5. \A j \in 1 .. Len(s) + 1 : (c \o b)[j] = IF j <= i THEN c[j] ELSE b[j - i]
  BY <1>0, <1>2, <1>4, ConcatProperties
<1> SUFFICES ASSUME NEW j \in 1 .. Len(s) + 1
             PROVE  (c \o b)[j] = IF j < i THEN s[j] ELSE IF j = i THEN e ELSE s[j - 1]
  OBVIOUS
<1>9. (c \o b)[j] = IF j <= i THEN c[j] ELSE b[j - i]
  BY <1>5
<1>6. CASE j < i
  <2>1. j \in 1 .. i /\ j \in 1 .. i - 1 /\ j <= i - 1 /\ j <= i
    BY <1>0, <1>6
  <2>2. c[j] = a[j] /\ a[j] = s[j]
    BY <1>1, <1>4, <2>1
  <2> QED BY <1>6, <1>9, <2>1, <2>2
<1>7. CASE j = i
  <2>1. i \in 1 .. i /\ ~(i <= i - 1) /\ i - (i - 1) = 1 /\ i <= i /\ ~(i < i)
    BY <1>0
  <2>2. c[i] = e
    BY <1>3, <1>4, <2>1
  <2> QED BY <1>7, <1>9, <2>1, <2>2
<1>8. CASE j > i
  <2>1. j - i \in 1 .. Len(s) - i + 1 /\ i + (j - i) - 1 = j - 1 /\ ~(j <= i) /\ ~(j < i) /\ j # i
    BY <1>0, <1>8
  <2>2. b[j - i] = s[i + (j - i) - 1]
    BY <1>2, <2>1
  <2> QED BY <1>9, <2>1, <2>2
<1>10. j < i \/ j = i \/ j > i
  BY <1>0
<1> QED BY <1>6, <1>7, <1>8, <1>10

LEMMA RemoveAtElements ==
  ASSUME NEW S, NEW s \in Seq(S), NEW i \in 1 .. Len(s)
  PROVE  \A j \in 1 .. Len(s) - 1 : RemoveAt(s, i)[j] = IF j < i THEN s[j] ELSE s[j + 1]
<1> DEFINE a == SubSeq(s, 1, i - 1)
           b == SubSeq(s, i + 1, Len(s))
<1>0. Len(s) \in Nat /\ i \in Int
  BY LenProperties
<1>1. a \in Seq(S) /\ Len(a) = i - 1 /\ \A j \in 1 .. i - 1 : a[j] = s[j]
  BY <1>0, SubSeqProperties, ElementOfSeq
<1>2. b \in Seq(S) /\ Len(b) = Len(s) - i /\ \A j \in 1 .. Len(s) - i : b[j] = s[i + 1 + j - 1]
  BY <1>0, SubSeqProperties, ElementOfSeq
<1> RemoveAt(s, i) = a \o b
  BY DEF RemoveAt
<1> HIDE DEF a, b
<1>3. \A j \in 1 .. Len(s) - 1 : (a \o b)[j] = IF j <= i - 1 THEN a[j] ELSE b[j - (i - 1)]
  BY <1>0, <1>1, <1>2, ConcatProperties
<1> SUFFICES ASSUME NEW j \in 1 .. Len(s) - 1
             PROVE  (a \o b)[j] = IF j < i THEN s[j] ELSE s[j + 1]
  OBVIOUS
<1>6. (a \o b)[j] = IF j <= i - 1 THEN a[j] ELSE b[j - (i - 1)]
  BY <1>3
<1>4. CASE j < i
  <2>1. j \in 1 .. i - 1 /\ j <= i - 1
    BY <1>0, <1>4
  <2>2. a[j] = s[j]
    BY <1>1, <2>1
  <2> QED BY <1>4, <1>6, <2>1, <2>2
<1>5. CASE j >= i
  <2>1. /\ j - (i - 1) \in 1 .. Len(s) - i /\ i + 1 + (j - (i - 1)) - 1 = j + 1
        /\ ~(j <= i - 1) /\ ~(j < i)
    BY <1>0, <1>5
  <2>2. b[j - (i - 1)] = s[i + 1 + (j - (i - 1)) - 1]
    BY <1>2, <2>1
  <2> QED BY <1>6, <2>1, <2>2
<1>7. j < i \/ j >= i
  BY <1>0
<1> QED BY <1>4, <1>5, <1>7

(* What upper_bound finds in a sorted list: no timer up to that place      *)
(* expires later than e, and every timer behind it does.                   *)
LEMMA UpperBoundSorted ==
  ASSUME Shape, Sorted, NEW e \in Nat
  PROVE  \A i \in 1 .. Len(timers) : i <= UpperBound(e) <=> expiry[timers[i]] <= e
<1> DEFINE T == {i \in 1 .. Len(timers) : expiry[timers[i]] <= e}
           n == Cardinality(T)
<1>1. Len(timers) \in Nat /\ DOMAIN timers = 1 .. Len(timers) /\ timers \in Seq(Timer)
  BY LenProperties DEF Shape, StateOK
<1>2. \A i \in 1 .. Len(timers) : expiry[timers[i]] \in Nat
  BY <1>1, ElementOfSeq DEF Shape, StateOK
<1>3. UpperBound(e) = n
  BY <1>1 DEF UpperBound
<1>4. T \in SUBSET (1 .. Len(timers)) /\ \A i \in T, j \in 1 .. Len(timers) : j <= i => j \in T
  BY <1>2 DEF Sorted
<1>5. \A i \in 1 .. Len(timers) : i \in T <=> expiry[timers[i]] <= e
  OBVIOUS
<1> HIDE DEF T
<1>6. IsFiniteSet(T) /\ n \in Nat
  <2>1. IsFiniteSet(1 .. Len(timers))
    BY <1>1, FS_Interval
  <2> QED BY <1>4, <2>1, FS_Subset, FS_CardinalityType
<1> HIDE DEF n
<1>7. ASSUME NEW i \in T PROVE i <= n
  <2>1. i \in Nat /\ i >= 1 /\ (1 .. i) \in SUBSET T
    BY <1>1, <1>4
  <2>2. Cardinality(1 .. i) = i
    BY <2>1, FS_Interval
  <2> QED BY <1>6, <2>1, <2>2, FS_Subset DEF n
<1>8. T = 1 .. n
  <2>1. T \in SUBSET (1 .. n)
    BY <1>1, <1>4, <1>6, <1>7
  <2>2. IsFiniteSet(1 .. n) /\ Cardinality(1 .. n) = n
    BY <1>6, FS_Interval
  <2> QED BY <2>1, <2>2, FS_Subset DEF n
<1> QED BY <1>3, <1>5, <1>6, <1>8

LEMMA SortedStep == Shape /\ Sorted /\ [Next]_vars => Sorted'
<1> SUFFICES ASSUME Shape, Sorted, [Next]_vars PROVE Sorted'
  OBVIOUS
<1> DEFINE L == Len(timers)
           E(i) == expiry[timers[i]]
<1>1. timers \in Seq(Timer) /\ L \in Nat /\ DOMAIN timers = 1 .. L /\ expiry \in [Timer -> Nat]
  BY LenProperties DEF Shape, StateOK
<1>2. \A i \in 1 .. L : timers[i] \in Timer /\ E(i) \in Nat
  BY <1>1, ElementOfSeq
<1>3. \A i, j \in 1 .. L : i <= j => E(i) <= E(j)
  BY DEF Sorted
<1>4. CASE timers' = timers
  BY <1>4, LinkedExpiry DEF Sorted
<1>5. CASE FireTimer
  <2>1. timers # <<>> /\ timers' = Tail(timers) /\ expiry' = expiry
    BY <1>5 DEF FireTimer, HeadExpired
  <2>2. Len(timers') = L - 1 /\ \A i \in 1 .. L - 1 : timers'[i] = timers[i + 1]
    BY <1>1, <2>1, HeadTailProperties
  <2> HIDE DEF L
  <2> SUFFICES ASSUME NEW i \in 1 .. L - 1, NEW j \in 1 .. L - 1, i <= j
               PROVE  expiry[timers'[i]] <= expiry[timers'[j]]
    BY <2>1, <2>2 DEF Sorted
  <2>3. i + 1 \in 1 .. L /\ j + 1 \in 1 .. L /\ i + 1 <= j + 1
    BY <1>1
  <2> QED BY <1>3, <2>2, <2>3
<1>6. ASSUME NEW t \in Callers, Insert(t) PROVE Sorted'
  <2> DEFINE m == call[t].arg
             p == UpperBound(expiry[m]) + 1
             F(j) == IF j < p THEN E(j) ELSE IF j = p THEN expiry[m] ELSE E(j - 1)
  <2>1. m \in Timer /\ expiry[m] \in Nat
    BY <1>1, <1>6 DEF Insert, Shape, CallOK
  <2>2. timers' = InsertAt(timers, p, m) /\ expiry' = expiry
    BY <1>6 DEF Insert
  <2>3. p \in 1 .. L + 1
    BY <1>1, UpperBoundLemma
  <2>4. \A i \in 1 .. L : i <= p - 1 <=> E(i) <= expiry[m]
    <3>1. UpperBound(expiry[m]) = p - 1
      <4>1. UpperBound(expiry[m]) \in Nat
        <5>1. IsFiniteSet(DOMAIN timers)
          BY <1>1, FS_Interval
        <5>2. {i \in DOMAIN timers : expiry[timers[i]] <= expiry[m]} \in SUBSET DOMAIN timers
          OBVIOUS
        <5> QED BY <5>1, <5>2, FS_Subset, FS_CardinalityType DEF UpperBound
      <4> QED BY <4>1
    <3> QED BY <2>1, <3>1, UpperBoundSorted
  <2> HIDE DEF m, p
  <2>5. Len(timers') = L + 1 /\ \A j \in 1 .. L + 1 :
          timers'[j] = IF j < p THEN timers[j] ELSE IF j = p THEN m ELSE timers[j - 1]
    <3>1. Len(InsertAt(timers, p, m)) = L + 1
      BY <1>1, <2>1, <2>3, InsertAtLemma
    <3>2. \A j \in 1 .. L + 1 : InsertAt(timers, p, m)[j] =
            IF j < p THEN timers[j] ELSE IF j = p THEN m ELSE timers[j - 1]
      BY <1>1, <2>1, <2>3, InsertAtElements
    <3> QED BY <2>2, <3>1, <3>2
  <2>6. \A j \in 1 .. L + 1 : expiry[timers'[j]] = F(j)
    BY <1>1, <2>3, <2>5
  <2> HIDE DEF L, E
  <2>7. ASSUME NEW i \in 1 .. L + 1, NEW j \in 1 .. L + 1, i <= j PROVE F(i) <= F(j)
    <3>1. CASE j < p
      BY <1>1, <1>3, <2>3, <2>7, <3>1
    <3>2. CASE j = p
      BY <1>1, <1>2, <2>1, <2>3, <2>4, <2>7, <3>2
    <3>3. CASE j > p /\ i < p
      <4>1. i \in 1 .. L /\ j - 1 \in 1 .. L /\ i <= j - 1
        BY <1>1, <2>3, <3>3
      <4> QED BY <1>1, <1>3, <2>3, <3>3, <4>1
    <3>4. CASE j > p /\ i = p
      <4>1. j - 1 \in 1 .. L /\ ~(j - 1 <= p - 1)
        BY <1>1, <2>3, <3>4
      <4>2. expiry[m] <= E(j - 1)
        BY <1>2, <2>1, <2>4, <4>1
      <4> QED BY <1>1, <2>3, <3>4, <4>2
    <3>5. CASE j > p /\ i > p
      <4>1. i - 1 \in 1 .. L /\ j - 1 \in 1 .. L /\ i - 1 <= j - 1
        BY <1>1, <2>3, <2>7, <3>5
      <4> QED BY <1>1, <1>3, <2>3, <3>5, <4>1
    <3> QED BY <1>1, <2>3, <2>7, <3>1, <3>2, <3>3, <3>4, <3>5
  <2> QED BY <2>2, <2>5, <2>6, <2>7 DEF Sorted
<1>7. ASSUME NEW t \in Callers, Erase(t) PROVE Sorted'
  <2>1. CASE timers' = timers
    BY <1>4, <2>1
  <2>2. CASE timers' # timers
    <3>1. PICK k \in 1 .. L : timers' = RemoveAt(timers, k)
      BY <1>1, <1>7, <2>2 DEF Erase
    <3>2. expiry' = expiry
      BY <1>7 DEF Erase
    <3>3. Len(timers') = L - 1 /\ \A j \in 1 .. L - 1 :
            timers'[j] = IF j < k THEN timers[j] ELSE timers[j + 1]
      BY <1>1, <3>1, RemoveAtLemma, RemoveAtElements
    <3> HIDE DEF L
    <3> SUFFICES ASSUME NEW i \in 1 .. L - 1, NEW j \in 1 .. L - 1, i <= j
                 PROVE  expiry[timers'[i]] <= expiry[timers'[j]]
      BY <3>2, <3>3 DEF Sorted
    <3> DEFINE G(x) == IF x < k THEN x ELSE x + 1
    <3>4. G(i) \in 1 .. L /\ G(j) \in 1 .. L /\ G(i) <= G(j)
      BY <1>1
    <3>5. timers'[i] = timers[G(i)] /\ timers'[j] = timers[G(j)]
      BY <3>3
    <3> QED BY <1>3, <3>4, <3>5
  <2> QED BY <2>1, <2>2
<1> QED BY <1>4, <1>5, <1>6, <1>7, TimersChange

(* Timers fire in the order of their expiry, and none before its time      *)
(* (upper_bound in scheduler::schedule(tt), the loop in schedule()).       *)
THEOREM FiresEarliestTheorem == Spec => FiresEarliest
<1>1. Init => Sorted
  BY DEF Init, Sorted
<1>2. ASSUME Shape, Sorted, [Next]_vars, NEW m \in Timer,
             running # running', running' = [op |-> "fire", arg |-> m]
      PROVE  expiry[m] <= now /\ \A o \in Range(timers) : expiry[m] <= expiry[o]
  <2>1. FireTimer
    <3>1. ~RunTask
      <4> SUFFICES ASSUME RunTask PROVE FALSE
        OBVIOUS
      <4>1. batch \in Seq(Job) /\ batch # <<>> /\ running' = Head(batch)
        BY <1>2 DEF RunTask, Shape, StateOK
      <4>2. Head(batch) \in Job
        BY <4>1, HeadTailProperties
      <4> QED BY <1>2, <4>1, <4>2 DEF Job
    <3>2. ~HandleIo /\ ~CallbackReturns
      <4>1. running' \in Callback /\ running' # [op |-> "io", arg |-> None]
        BY <1>2 DEF Callback
      <4> QED BY <4>1, NoneAssumption DEF HandleIo, CallbackReturns
    <3> QED
      BY <1>2, <3>1, <3>2
         DEF Next, NewCalls, execute, schedule, cancel, add_active, remove_active, StartRun, Tick,
             InCallStep, Enqueue, WakeUp, Insert, Erase, Count, Uncount, LoopStep, Check, WokenUp,
             TimedOut, WaitReturns, DrainWakeUp, EventsHandled, TimersFired, Splice,
             TasksRun, Account, Interrupted, IoReady, vars, loopVars
  <2>2. timers # <<>> /\ expiry[timers[1]] <= now /\ running' = [op |-> "fire", arg |-> Head(timers)]
    BY <2>1 DEF FireTimer, HeadExpired
  <2>3. m = timers[1]
    BY <1>2, <2>2
  <2>4. timers \in Seq(Timer) /\ DOMAIN timers = 1 .. Len(timers) /\ 1 \in 1 .. Len(timers)
    <3>1. timers \in Seq(Timer)
      BY <1>2 DEF Shape, StateOK
    <3> QED BY <2>2, <3>1, LenProperties, EmptySeq
  <2>5. ASSUME NEW o \in Range(timers) PROVE expiry[m] <= expiry[o]
    <3>1. PICK i \in 1 .. Len(timers) : timers[i] = o
      BY <2>4 DEF Range
    <3> QED BY <1>2, <2>3, <2>4, <3>1 DEF Sorted
  <2> QED BY <2>2, <2>3, <2>5
<1>3. Shape /\ Sorted /\ [Next]_vars =>
        [\A m \in Timer :
           running # running' /\ running' = [op |-> "fire", arg |-> m]
             => expiry[m] <= now /\ \A o \in Range(timers) : expiry[m] <= expiry[o]]_vars
  BY <1>2
<1> QED BY <1>1, <1>3, SortedStep, ShapeInvariant, PTL DEF Spec, FiresEarliest
-----------------------------------------------------------------------------
(* The queue.                                                              *)

(* The inductive invariant: a thread drains exactly while the queue is     *)
(* marked busy, and what is queued is queued on a busy queue.              *)
DrainInv ==
  /\ Queue!TypeOK
  /\ Queue!MutualExclusion
  /\ Queue!BusyIffDraining
  /\ op_queue # <<>> => op_running # None

LEMMA DrainInit == Queue!Init => DrainInv
  BY DEF Queue!Init, DrainInv, Queue!TypeOK, Queue!MutualExclusion, Queue!BusyIffDraining, Queue!Draining

LEMMA DrainStep == DrainInv /\ [Queue!Next]_(Queue!vars) => DrainInv'
<1> SUFFICES ASSUME DrainInv, [Queue!Next]_(Queue!vars) PROVE DrainInv'
  OBVIOUS
<1> USE DEF DrainInv, Queue!TypeOK, Queue!MutualExclusion, Queue!BusyIffDraining, Queue!Draining
<1>1. ASSUME NEW t \in Threads, NEW o \in Operation, Queue!execute(t, o) PROVE DrainInv'
  <2>1. CASE op_running # None /\ op_queue' = Append(op_queue, o) /\ UNCHANGED <<op_running, op_pc>>
    BY <1>1, <2>1, AppendProperties DEF Queue!execute, Queue!NewDispatch
  <2>2. CASE op_running = None /\ op_running' = o /\ Queue!Goto(t, "run") /\ UNCHANGED op_queue
    <3>1. \A u \in Threads : op_pc[u] = "idle"
      BY <2>2
    <3>2. o # None
      BY QueueAssumption
    <3> QED BY <1>1, <2>2, <3>1, <3>2 DEF Queue!execute, Queue!NewDispatch, Queue!Goto
  <2> QED BY <1>1, <2>1, <2>2 DEF Queue!execute
<1>2. ASSUME NEW t \in Threads, Queue!Invoke(t) PROVE DrainInv'
  BY <1>2 DEF Queue!Invoke, Queue!Goto
<1>3. ASSUME NEW t \in Threads, Queue!HandlerReturns(t) PROVE DrainInv'
  BY <1>3 DEF Queue!HandlerReturns, Queue!Goto
<1>4. ASSUME NEW t \in Threads, Queue!fetch(t) PROVE DrainInv'
  <2>1. CASE op_queue # <<>>
    <3>1. Head(op_queue) \in Operation /\ Tail(op_queue) \in Seq(Operation)
      BY <2>1, HeadTailProperties
    <3> QED BY <1>4, <2>1, <3>1, QueueAssumption DEF Queue!fetch, Queue!Goto
  <2>2. CASE op_queue = <<>>
    BY <1>4, <2>2 DEF Queue!fetch, Queue!Goto
  <2> QED BY <2>1, <2>2
<1>5. CASE UNCHANGED Queue!vars
  BY <1>5 DEF Queue!vars
<1> QED BY <1>1, <1>2, <1>3, <1>4, <1>5 DEF Queue!Next, Queue!Drain

LEMMA DrainInvariant == Queue!Spec => []DrainInv
  BY DrainInit, DrainStep, PTL DEF Queue!Spec

(* At most one thread runs operations of the queue (execute and fetch).    *)
THEOREM MutualExclusionTheorem == Queue!Spec => []MutualExclusion
  BY DrainInvariant, PTL DEF DrainInv, MutualExclusion

(* The queue is marked busy exactly while a thread drains it.              *)
THEOREM BusyTheorem == Queue!Spec => []Queue!BusyIffDraining
  BY DrainInvariant, PTL DEF DrainInv

(* A queued operation always has a thread that will come to it (fetch).    *)
THEOREM NothingStrandedTheorem == Queue!Spec => []NothingStranded
<1>1. DrainInv => NothingStranded
  BY DEF DrainInv, NothingStranded, Queue!NothingStranded, Queue!BusyIffDraining
<1> QED BY <1>1, DrainInvariant, PTL
-----------------------------------------------------------------------------
(* The queue starts as an executor and every step of it is a step of the   *)
(* executor or none: operations are run one at a time in dispatch order.   *)
THEOREM QueueExecutorTheorem == Queue!Spec => Queue!Executor!SafeSpec
<1>1. Queue!Init => Queue!Executor!Init
  <2> SUFFICES ASSUME Queue!Init PROVE Queue!Executor!Init
    OBVIOUS
  <2>1. Queue!Waiting = <<>> /\ Queue!Current = None
    BY DEF Queue!Init, Queue!Waiting, Queue!Current, Queue!At
  <2> QED BY <2>1 DEF Queue!Init, Queue!Executor!Init
<1>2. DrainInv /\ [Queue!Next]_(Queue!vars) => [Queue!Executor!Next]_(Queue!Executor!vars)
  <2> SUFFICES ASSUME DrainInv, [Queue!Next]_(Queue!vars) PROVE [Queue!Executor!Next]_(Queue!Executor!vars)
    OBVIOUS
  <2> USE DEF DrainInv, Queue!TypeOK
  <2>0. Queue!Waiting \in Seq(Operation)
    BY DEF Queue!Waiting, Queue!At, Queue!BusyIffDraining, Queue!Draining
  <2>1. ASSUME NEW t \in Threads, NEW o \in Operation, Queue!execute(t, o)
        PROVE  Queue!Executor!Submit(o)
    <3>1. CASE op_running # None /\ op_queue' = Append(op_queue, o) /\ UNCHANGED <<op_running, op_pc>>
      <4>1. Queue!Waiting' = Queue!Waiting /\ Queue!Current' = Queue!Current
        BY <3>1 DEF Queue!Waiting, Queue!Current, Queue!At
      <4>2. Queue!Waiting \o Append(op_queue, o) = Append(Queue!Waiting \o op_queue, o)
        BY <2>0, AppendConcat
      <4> QED BY <3>1, <4>1, <4>2 DEF Queue!Executor!Submit
    <3>2. CASE op_running = None /\ op_running' = o /\ Queue!Goto(t, "run") /\ UNCHANGED op_queue
      <4>1. op_queue = <<>> /\ \A u \in Threads : op_pc[u] = "idle"
        BY <3>2 DEF Queue!BusyIffDraining, Queue!Draining
      <4>2. Queue!Waiting = <<>> /\ Queue!Current = None
        BY <4>1 DEF Queue!Waiting, Queue!Current, Queue!At
      <4>3. Queue!Waiting' = <<o>> /\ Queue!Current' = None
        BY <3>2, <4>1 DEF Queue!Waiting, Queue!Current, Queue!At, Queue!Goto
      <4> QED BY <3>2, <4>1, <4>2, <4>3 DEF Queue!Executor!Submit
    <3> QED BY <2>1, <3>1, <3>2 DEF Queue!execute
  <2>2. ASSUME NEW t \in Threads, Queue!Invoke(t) PROVE Queue!Executor!Start
    <3>1. \A u \in Threads : u # t => op_pc[u] = "idle"
      BY <2>2 DEF Queue!Invoke, Queue!MutualExclusion, Queue!Draining
    <3>2. op_running \in Operation
      BY <2>2 DEF Queue!Invoke, Queue!BusyIffDraining, Queue!Draining
    <3>3. Queue!Waiting = <<op_running>> /\ Queue!Current = None
      BY <2>2, <3>1 DEF Queue!Invoke, Queue!Waiting, Queue!Current, Queue!At
    <3>4. Queue!Waiting' = <<>> /\ Queue!Current' = op_running /\ op_queue' = op_queue
      BY <2>2, <3>1 DEF Queue!Invoke, Queue!Waiting, Queue!Current, Queue!At, Queue!Goto
    <3>5. /\ <<op_running>> \o op_queue # <<>>
          /\ Head(<<op_running>> \o op_queue) = op_running
          /\ Tail(<<op_running>> \o op_queue) = op_queue
      BY <3>2
    <3> QED BY <3>3, <3>4, <3>5 DEF Queue!Executor!Start
  <2>3. ASSUME NEW t \in Threads, Queue!HandlerReturns(t) PROVE Queue!Executor!Finish
    <3>1. \A u \in Threads : u # t => op_pc[u] = "idle"
      BY <2>3 DEF Queue!HandlerReturns, Queue!MutualExclusion, Queue!Draining
    <3>2. op_running # None
      BY <2>3 DEF Queue!HandlerReturns, Queue!BusyIffDraining, Queue!Draining
    <3>3. Queue!Waiting = <<>> /\ Queue!Current = op_running
      BY <2>3, <3>1 DEF Queue!HandlerReturns, Queue!Waiting, Queue!Current, Queue!At
    <3>4. Queue!Waiting' = <<>> /\ Queue!Current' = None /\ op_queue' = op_queue
      BY <2>3, <3>1 DEF Queue!HandlerReturns, Queue!Waiting, Queue!Current, Queue!At, Queue!Goto
    <3> QED BY <3>2, <3>3, <3>4 DEF Queue!Executor!Finish
  <2>4. ASSUME NEW t \in Threads, Queue!fetch(t) PROVE UNCHANGED Queue!Executor!vars
    <3>1. \A u \in Threads : u # t => op_pc[u] = "idle"
      BY <2>4 DEF Queue!fetch, Queue!MutualExclusion, Queue!Draining
    <3>2. Queue!Waiting = <<>> /\ Queue!Current = None
      BY <2>4, <3>1 DEF Queue!fetch, Queue!Waiting, Queue!Current, Queue!At
    <3>3. CASE op_queue # <<>>
      <4>1. Queue!Waiting' = <<Head(op_queue)>> /\ Queue!Current' = None /\ op_queue' = Tail(op_queue)
        BY <2>4, <3>1, <3>3 DEF Queue!fetch, Queue!Waiting, Queue!Current, Queue!At, Queue!Goto
      <4>2. <<Head(op_queue)>> \o Tail(op_queue) = op_queue
        BY <3>3
      <4> QED BY <3>2, <4>1, <4>2 DEF Queue!Executor!vars
    <3>4. CASE op_queue = <<>>
      <4>1. Queue!Waiting' = <<>> /\ Queue!Current' = None /\ op_queue' = op_queue
        BY <2>4, <3>1, <3>4 DEF Queue!fetch, Queue!Waiting, Queue!Current, Queue!At, Queue!Goto
      <4> QED BY <3>2, <4>1 DEF Queue!Executor!vars
    <3> QED BY <3>3, <3>4
  <2>5. CASE UNCHANGED Queue!vars
    <3>1. Queue!Waiting' = Queue!Waiting /\ Queue!Current' = Queue!Current
      BY <2>5 DEF Queue!vars, Queue!Waiting, Queue!Current, Queue!At
    <3> QED BY <2>5, <3>1 DEF Queue!vars, Queue!Executor!vars
  <2> QED BY <2>1, <2>2, <2>3, <2>4, <2>5 DEF Queue!Next, Queue!Drain, Queue!Executor!Next
<1> QED BY <1>1, <1>2, DrainInvariant, PTL DEF Queue!Spec, Queue!Executor!SafeSpec
=============================================================================
