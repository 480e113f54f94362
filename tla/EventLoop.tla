----------------------------- MODULE EventLoop ------------------------------
(***************************************************************************)
(* tdk::event_loop with its scheduler, its locked task list and the epoll  *)
(* it sleeps in.  One thread, LoopThread, calls run(); it and the other    *)
(* Threads call execute(), schedule(), cancel(), add_active() and          *)
(* remove_active().  A call is as many steps as it has atomic operations   *)
(* on shared data, so that calls and the loop interleave as they do in the *)
(* program.                                                                *)
(***************************************************************************)
EXTENDS Integers, Sequences, SequencesExt, FiniteSets

CONSTANTS Threads,      \* threads other than the one that calls run()
          LoopThread,   \* the thread that calls run()
          Task,         \* tdk::task objects of the application
          Timer,        \* tdk::timer_task objects of the application
          None,         \* no task, no call
          IdleWait,     \* the 100 seconds of schedule_after() without timers
          MaxNow,       \* bound: the clock stops here
          MaxCalls,     \* bound: API calls made in a behaviour
          MaxHeld       \* bound: activity references of channels

ASSUME ThreadAssumption == LoopThread \notin Threads /\ IsFiniteSet(Threads)
ASSUME BoundAssumption ==
  /\ IdleWait \in Nat
  /\ MaxNow \in Nat
  /\ MaxCalls \in Nat
  /\ MaxHeld \in Nat

Callers == Threads \cup {LoopThread}

(* What execute() enqueues: a task, or the one-shot task that repeats a    *)
(* schedule() or cancel() in the loop.                                     *)
Job == [op : {"run"}, arg : Task] \cup [op : {"schedule", "cancel"}, arg : Timer]

(* What the loop can be in the middle of: a job, a timer, an I/O handler.  *)
Callback == Job \cup [op : {"fire"}, arg : Timer] \cup {[op |-> "io", arg |-> None]}

ASSUME NoneAssumption == None \notin Callback

VARIABLES
  active,    \* _active_handles
  tasks,     \* _tasks, under _lock
  timers,    \* _scheduler._timer_tasks
  expiry,    \* timer_task::_expired_at
  owner,     \* _thread_id
  signal,    \* the eventfd of epoll::_wake_up_task is readable
  now,       \* date_time::utc()
  loop,      \* where run() is
  deadline,  \* when the wait of run() times out
  events,    \* what epoll_wait() returned and is not handled yet
  batch,     \* the local queue of _run_tasks()
  running,   \* the callback the loop is in, or None
  cnt,       \* cnt of run()
  pc,        \* where each caller is in its call
  call,      \* the job of each caller's call
  held,      \* add_active() not undone by remove_active()
  calls      \* API calls made so far

loopVars == <<loop, deadline, events, batch, running, cnt>>
callVars == <<pc, call, calls>>
vars == <<active, tasks, timers, expiry, owner, signal, now, loopVars, callVars, held>>

StateOK ==
  /\ active \in Int
  /\ tasks \in Seq(Job)
  /\ timers \in Seq(Timer)
  /\ expiry \in [Timer -> Nat]
  /\ owner \in Callers
  /\ signal \in BOOLEAN
  /\ now \in Nat
  /\ loop \in {"stopped", "check", "wait", "events", "timers", "splice", "tasks", "account"}
  /\ deadline \in Nat
  /\ events \in SUBSET {"wake", "io"}
  /\ batch \in Seq(Job)
  /\ running \in Callback \cup {None}
  /\ cnt \in Nat
  /\ pc \in [Callers -> {"idle", "enqueue", "wake", "insert", "count", "erase", "uncount"}]
  /\ call \in [Callers -> Job \cup {None}]
  /\ held \in Nat
  /\ calls \in Nat

(* Every variable has its type; _active_handles, an int, is never negative *)
(* (the additions and subtractions of execute, schedule, cancel and run).  *)
TypeOK == StateOK /\ active \in Nat

Init ==
  /\ active = 0
  /\ tasks = <<>>
  /\ timers = <<>>
  /\ expiry = [m \in Timer |-> 0]
  /\ owner \in Callers               \* the thread that ran the constructor
  /\ signal = FALSE
  /\ now = 0
  /\ loop = "stopped"
  /\ deadline = 0
  /\ events = {}
  /\ batch = <<>>
  /\ running = None
  /\ cnt = 0
  /\ pc = [t \in Callers |-> "idle"]
  /\ call = [t \in Callers |-> None]
  /\ held = 0
  /\ calls = 0
-----------------------------------------------------------------------------
(* Where an object is linked.  The application hands a task or timer to    *)
(* the loop again only when the loop no longer has it.                     *)
InCall(j) == \E t \in Callers : call[t] = j
Queued(j) == j \in Range(tasks) \cup Range(batch) \/ InCall(j)
RunJob(k) == [op |-> "run", arg |-> k]
ScheduleJob(m) == [op |-> "schedule", arg |-> m]
CancelJob(m) == [op |-> "cancel", arg |-> m]
Armed(m) == m \in Range(timers)

(* A thread can make a call: the loop thread when it is not in run() or in *)
(* a callback of the application, another thread always.                   *)
Free(t) ==
  /\ pc[t] = "idle"
  /\ t = LoopThread => \/ loop = "stopped"
                       \/ running # None /\ running.op \in {"run", "fire", "io"}

Begin(t, j, at) ==
  /\ pc' = [pc EXCEPT ![t] = at]
  /\ call' = [call EXCEPT ![t] = j]

Goto(t, at) == pc' = [pc EXCEPT ![t] = at]

Return(t) ==
  /\ pc' = [pc EXCEPT ![t] = "idle"]
  /\ call' = [call EXCEPT ![t] = None]

NewCall == calls < MaxCalls /\ calls' = calls + 1

in_loop(t) == owner = t

(* schedule() and cancel() from outside the loop are execute() of a        *)
(* one-shot task, whose first step is add_active().                        *)
Dispatch(t, j, inner) ==
  IF in_loop(t)
  THEN Begin(t, j, inner) /\ UNCHANGED active
  ELSE Begin(t, j, "enqueue") /\ active' = active + 1

(* Mutant: execute() without its add_active().                             *)
executeUncounted(t, k) ==
  /\ Free(t)
  /\ ~Queued(RunJob(k))
  /\ NewCall
  /\ Begin(t, RunJob(k), "enqueue")
  /\ UNCHANGED <<active, tasks, timers, expiry, owner, signal, now, loopVars, held>>

(* event_loop::execute() *)
execute(t, k) ==
  /\ Free(t)
  /\ ~Queued(RunJob(k))
  /\ NewCall
  /\ Begin(t, RunJob(k), "enqueue")
  /\ active' = active + 1
  /\ UNCHANGED <<tasks, timers, expiry, owner, signal, now, loopVars, held>>

Enqueue(t) ==
  /\ pc[t] = "enqueue"
  /\ tasks' = Append(tasks, call[t])
  /\ pc' = [pc EXCEPT ![t] = "wake"]
  /\ call' = [call EXCEPT ![t] = None]
  /\ UNCHANGED <<active, timers, expiry, owner, signal, now, loopVars, calls, held>>

(* Mutant: a call made in the loop's thread saves the eventfd_write().     *)
WakeUpFromOutside(t) ==
  /\ pc[t] = "wake"
  /\ signal' = (signal \/ ~in_loop(t))
  /\ Goto(t, "idle")
  /\ UNCHANGED <<active, tasks, timers, expiry, owner, now, loopVars, call, calls, held>>

WakeUp(t) ==
  /\ pc[t] = "wake"
  /\ signal' = TRUE
  /\ Goto(t, "idle")
  /\ UNCHANGED <<active, tasks, timers, expiry, owner, now, loopVars, call, calls, held>>

(* timer_task::expired_at(e) and event_loop::schedule() *)
schedule(t, m, e) ==
  /\ Free(t)
  /\ ~Armed(m) /\ ~Queued(ScheduleJob(m))
  /\ NewCall
  /\ expiry' = [expiry EXCEPT ![m] = e]
  /\ Dispatch(t, ScheduleJob(m), "insert")
  /\ UNCHANGED <<tasks, timers, owner, signal, now, loopVars, held>>

(* scheduler::schedule(tt): std::upper_bound, so a timer goes behind those *)
(* that expire when it does.                                               *)
(* Mutant: push_back.                                                      *)
UpperBoundAtEnd(e) == Len(timers)

UpperBound(e) == Cardinality({i \in DOMAIN timers : expiry[timers[i]] <= e})

Insert(t) ==
  /\ pc[t] = "insert"
  /\ LET m == call[t].arg
     IN timers' = InsertAt(timers, UpperBound(expiry[m]) + 1, m)
  /\ Goto(t, "count")
  /\ UNCHANGED <<active, tasks, expiry, owner, signal, now, loopVars, call, calls, held>>

(* Mutant: schedule() without its add_active().                            *)
CountSkipped(t) ==
  /\ pc[t] = "count"
  /\ Return(t)
  /\ UNCHANGED <<active, tasks, timers, expiry, owner, signal, now, loopVars, calls, held>>

Count(t) ==
  /\ pc[t] = "count"
  /\ active' = active + 1
  /\ Return(t)
  /\ UNCHANGED <<tasks, timers, expiry, owner, signal, now, loopVars, calls, held>>

(* event_loop::cancel() *)
cancel(t, m) ==
  /\ Free(t)
  /\ NewCall
  /\ Dispatch(t, CancelJob(m), "erase")
  /\ UNCHANGED <<tasks, timers, expiry, owner, signal, now, loopVars, held>>

(* scheduler::cancel(): erase the first occurrence, if there is one.       *)
Erase(t) ==
  /\ pc[t] = "erase"
  /\ \/ \E i \in DOMAIN timers :
          /\ timers[i] = call[t].arg
          /\ \A j \in 1 .. i - 1 : timers[j] # call[t].arg
          /\ timers' = RemoveAt(timers, i)
          /\ Goto(t, "uncount")
          /\ UNCHANGED call
     \/ /\ ~Armed(call[t].arg)
        /\ Return(t)
        /\ UNCHANGED timers
  /\ UNCHANGED <<active, tasks, expiry, owner, signal, now, loopVars, calls, held>>

Uncount(t) ==
  /\ pc[t] = "uncount"
  /\ active' = active - 1
  /\ Return(t)
  /\ UNCHANGED <<tasks, timers, expiry, owner, signal, now, loopVars, calls, held>>

(* add_active() by any thread; remove_active() by the loop's callbacks, as *)
(* the channels do.                                                        *)
add_active(t) ==
  /\ Free(t)
  /\ held < MaxHeld
  /\ NewCall
  /\ held' = held + 1
  /\ active' = active + 1
  /\ UNCHANGED <<tasks, timers, expiry, owner, signal, now, loopVars, pc, call>>

remove_active ==
  /\ Free(LoopThread)
  /\ held > 0
  /\ held' = held - 1
  /\ active' = active - 1
  /\ UNCHANGED <<tasks, timers, expiry, owner, signal, now, loopVars, callVars>>
-----------------------------------------------------------------------------
(* event_loop::run().  The set-up calls of the constructing thread are     *)
(* over when another thread enters run().                                  *)
SetUpDone == \A t \in Threads : pc[t] \in {"idle", "enqueue", "wake"}

(* Mutant: run() leaves _thread_id as the constructor set it.              *)
StartRunUnowned ==
  /\ loop = "stopped"
  /\ pc[LoopThread] = "idle"
  /\ SetUpDone
  /\ loop' = "check"
  /\ UNCHANGED <<active, tasks, timers, expiry, owner, signal, now,
                 deadline, events, batch, running, cnt, callVars, held>>

StartRun ==
  /\ loop = "stopped"
  /\ pc[LoopThread] = "idle"
  /\ SetUpDone
  /\ owner' = LoopThread
  /\ loop' = "check"
  /\ UNCHANGED <<active, tasks, timers, expiry, signal, now,
                 deadline, events, batch, running, cnt, callVars, held>>

(* Mutant: the last timer in place of the first.                           *)
schedule_after_last ==
  IF timers = <<>> THEN now + IdleWait
  ELSE IF now > expiry[timers[Len(timers)]] THEN now ELSE expiry[timers[Len(timers)]]

(* scheduler::schedule_after() as the instant at which the wait times out  *)
schedule_after ==
  IF timers = <<>> THEN now + IdleWait
  ELSE IF now > expiry[timers[1]] THEN now ELSE expiry[timers[1]]

(* Mutant: the activity count is not looked at before the first wait.      *)
CheckSleepsFirst ==
  /\ loop = "check"
  /\ loop' = "wait"
  /\ deadline' = schedule_after
  /\ UNCHANGED <<active, tasks, timers, expiry, owner, signal, now,
                 events, batch, running, cnt, callVars, held>>

Check ==
  /\ loop = "check"
  /\ IF active # 0
     THEN loop' = "wait" /\ deadline' = schedule_after
     ELSE loop' = "stopped" /\ UNCHANGED deadline
  /\ UNCHANGED <<active, tasks, timers, expiry, owner, signal, now,
                 events, batch, running, cnt, callVars, held>>

(* epoll::wait(): epoll_wait() returns the descriptors that are ready, or  *)
(* none of them after the timeout or a signal (EINTR).                     *)
WaitReturns(ev) ==
  /\ loop = "wait"
  /\ "wake" \in ev <=> signal
  /\ events' = ev
  /\ loop' = "events"
  /\ UNCHANGED <<active, tasks, timers, expiry, owner, signal, now,
                 deadline, batch, running, cnt, callVars, held>>

WokenUp == signal /\ WaitReturns({"wake"})
TimedOut == ~signal /\ now >= deadline /\ WaitReturns({})
Interrupted == ~signal /\ WaitReturns({})
IoReady == \E ev \in {{"io"}, {"wake", "io"}} : WaitReturns(ev)

(* event_fd_task_handler(): eventfd_read() *)
DrainWakeUp ==
  /\ loop = "events" /\ running = None
  /\ "wake" \in events
  /\ signal' = FALSE
  /\ events' = events \ {"wake"}
  /\ UNCHANGED <<active, tasks, timers, expiry, owner, now,
                 loop, deadline, batch, running, cnt, callVars, held>>

HandleIo ==
  /\ loop = "events" /\ running = None
  /\ "io" \in events
  /\ events' = events \ {"io"}
  /\ running' = [op |-> "io", arg |-> None]
  /\ UNCHANGED <<active, tasks, timers, expiry, owner, signal, now,
                 loop, deadline, batch, cnt, callVars, held>>

EventsHandled ==
  /\ loop = "events" /\ running = None
  /\ events = {}
  /\ loop' = "timers"
  /\ UNCHANGED <<active, tasks, timers, expiry, owner, signal, now,
                 deadline, events, batch, running, cnt, callVars, held>>

(* scheduler::schedule(): fire the timers that have expired by the clock   *)
(* read before each of them.                                               *)
HeadExpired == timers # <<>> /\ expiry[timers[1]] <= now

FireTimer ==
  /\ loop = "timers" /\ running = None
  /\ HeadExpired
  /\ timers' = Tail(timers)
  /\ running' = [op |-> "fire", arg |-> Head(timers)]
  /\ UNCHANGED <<active, tasks, expiry, owner, signal, now,
                 loop, deadline, events, batch, cnt, callVars, held>>

TimersFired ==
  /\ loop = "timers" /\ running = None
  /\ ~HeadExpired
  /\ loop' = "splice"
  /\ UNCHANGED <<active, tasks, timers, expiry, owner, signal, now,
                 deadline, events, batch, running, cnt, callVars, held>>

(* _run_tasks(): take the whole list under the lock, then run it.          *)
(* Mutant: the list is a stack.                                            *)
SpliceReversed ==
  /\ loop = "splice"
  /\ batch' = batch \o Reverse(tasks)
  /\ tasks' = <<>>
  /\ loop' = "tasks"
  /\ UNCHANGED <<active, timers, expiry, owner, signal, now,
                 deadline, events, running, cnt, callVars, held>>

Splice ==
  /\ loop = "splice"
  /\ batch' = batch \o tasks
  /\ tasks' = <<>>
  /\ loop' = "tasks"
  /\ UNCHANGED <<active, timers, expiry, owner, signal, now,
                 deadline, events, running, cnt, callVars, held>>

RunTask ==
  /\ loop = "tasks" /\ running = None
  /\ batch # <<>>
  /\ running' = Head(batch)
  /\ batch' = Tail(batch)
  /\ CASE Head(batch).op = "run" -> UNCHANGED <<pc, call, active>>
       [] Head(batch).op = "schedule" -> Dispatch(LoopThread, Head(batch), "insert")
       [] Head(batch).op = "cancel" -> Dispatch(LoopThread, Head(batch), "erase")
  /\ UNCHANGED <<tasks, timers, expiry, owner, signal, now,
                 loop, deadline, events, cnt, calls, held>>

(* Mutant: a timer that fired is not counted.                              *)
CallbackReturnsTimerUncounted ==
  /\ running # None
  /\ pc[LoopThread] = "idle"
  /\ running' = None
  /\ cnt' = IF running.op \in {"io", "fire"} THEN cnt ELSE cnt + 1
  /\ UNCHANGED <<active, tasks, timers, expiry, owner, signal, now,
                 loop, deadline, events, batch, callVars, held>>

CallbackReturns ==
  /\ running # None
  /\ pc[LoopThread] = "idle"
  /\ running' = None
  /\ cnt' = IF running.op = "io" THEN cnt ELSE cnt + 1
  /\ UNCHANGED <<active, tasks, timers, expiry, owner, signal, now,
                 loop, deadline, events, batch, callVars, held>>

TasksRun ==
  /\ loop = "tasks" /\ running = None
  /\ batch = <<>>
  /\ loop' = "account"
  /\ UNCHANGED <<active, tasks, timers, expiry, owner, signal, now,
                 deadline, events, batch, running, cnt, callVars, held>>

Account ==
  /\ loop = "account"
  /\ active' = active - cnt
  /\ cnt' = 0
  /\ loop' = "check"
  /\ UNCHANGED <<tasks, timers, expiry, owner, signal, now,
                 deadline, events, batch, running, callVars, held>>

Tick ==
  /\ now < MaxNow
  /\ now' = now + 1
  /\ UNCHANGED <<active, tasks, timers, expiry, owner, signal, loopVars, callVars, held>>
-----------------------------------------------------------------------------
NewCalls(t) ==
  \/ \E k \in Task : execute(t, k)
  \/ \E m \in Timer, e \in 0 .. MaxNow : schedule(t, m, e)
  \/ \E m \in Timer : cancel(t, m)
  \/ add_active(t)

InCallStep(t) ==
  \/ Enqueue(t)
  \/ WakeUp(t)
  \/ Insert(t)
  \/ Count(t)
  \/ Erase(t)
  \/ Uncount(t)

(* What the loop does by itself once run() was called *)
LoopStep ==
  \/ Check
  \/ WokenUp
  \/ TimedOut
  \/ DrainWakeUp
  \/ HandleIo
  \/ EventsHandled
  \/ FireTimer
  \/ TimersFired
  \/ Splice
  \/ RunTask
  \/ CallbackReturns
  \/ TasksRun
  \/ Account

Next ==
  \/ \E t \in Callers : NewCalls(t) \/ InCallStep(t)
  \/ remove_active
  \/ StartRun
  \/ LoopStep
  \/ Interrupted
  \/ IoReady
  \/ Tick

(* A thread that runs gets on with what it is in the middle of, and the    *)
(* clock advances.  Nobody has to make a call or to enter run(), and no    *)
(* descriptor has to become ready.                                         *)
Fairness ==
  /\ \A t \in Callers : WF_vars(InCallStep(t))
  /\ WF_vars(LoopStep)
  /\ WF_vars(Tick)

Spec == Init /\ [][Next]_vars
FairSpec == Spec /\ Fairness
-----------------------------------------------------------------------------
At(s) == {t \in Callers : pc[t] = s}
InFlight == IF running # None /\ running.op # "io" THEN 1 ELSE 0

Counted ==
  held + Len(tasks) + Len(batch) + Len(timers) + cnt + InFlight
    + (IF pc[owner] = "uncount" THEN 1 ELSE 0) - (IF pc[owner] = "count" THEN 1 ELSE 0)

(* _active_handles counts exactly what keeps run() going: activity         *)
(* references, jobs between the add_active() of execute() and the end of   *)
(* the iteration that runs them, and linked timers; in the middle of       *)
(* schedule() and cancel() by the loop it is one off (execute, schedule,   *)
(* cancel and the fetch_sub(cnt) of run).                                  *)
HandleBalance == active = Counted + Cardinality(At("enqueue"))

(* The loop does not sleep on a queued job: its eventfd is readable or the *)
(* thread that queued the job is about to make it so.  Draining the        *)
(* eventfd before the list is taken is what this hangs on (execute, wait   *)
(* and _run_tasks).                                                        *)
NoLostWakeup ==
  loop = "wait" /\ tasks # <<>> => signal \/ \E t \in Callers : pc[t] = "wake"

(* The scheduler has no lock: once run() is in progress no other thread is *)
(* inside it (the in_loop() test of schedule and cancel).                  *)
SchedulerConfined ==
  loop # "stopped" => \A t \in Threads : pc[t] \in {"idle", "enqueue", "wake"}

(* The loop never sleeps past the first timer: the timeout was computed    *)
(* for the list as it still is (run, schedule_after).                      *)
SleepCoversTimers ==
  loop = "wait" /\ timers # <<>> => deadline <= now \/ deadline <= expiry[timers[1]]

(* run() returns only when nothing is left that it should have waited for: *)
(* no job in any stage of the hand-over, no timer, no activity reference   *)
(* (the test of _active_handles in run).                                   *)
Drained ==
  /\ tasks = <<>> /\ batch = <<>> /\ timers = <<>>
  /\ held = 0
  /\ At("enqueue") = {}

ReturnsOnlyDrained == [][loop # "stopped" /\ loop' = "stopped" => Drained]_vars

(* A timer is fired no earlier than it asked for and none that was linked  *)
(* with an earlier expiry is passed over (scheduler::schedule).            *)
FiresEarliest ==
  [][\A m \in Timer :
       running # running' /\ running' = [op |-> "fire", arg |-> m]
         => expiry[m] <= now /\ \A o \in Range(timers) : expiry[m] <= expiry[o]]_vars

(* A timer linked while run() is in progress is fired or cancelled, and    *)
(* one handed over by another thread too (schedule, run, _run_tasks).      *)
TimerIsSettled ==
  \A m \in Timer :
    loop # "stopped" /\ (Armed(m) \/ Queued(ScheduleJob(m)))
      ~> ~Armed(m) /\ ~Queued(ScheduleJob(m))

(* run() returns once nothing keeps it (run).                              *)
RunReturns ==
  loop # "stopped" /\ active = 0 ~> loop = "stopped" \/ active # 0
=============================================================================
