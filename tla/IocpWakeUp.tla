----------------------------- MODULE IocpWakeUp -----------------------------
(***************************************************************************)
(* tdk::io::iocp: how event_loop::execute() wakes a loop that waits in     *)
(* GetQueuedCompletionStatus().  The flag _posted lets one caller post for *)
(* all: wake_up() posts a null packet only if it could set the flag, and   *)
(* wait() clears the flag after it took the packet, or after its timeout.  *)
(***************************************************************************)
EXTENDS Integers

CONSTANTS
  Threads,    \* threads that call execute()
  Loop,       \* the loop's thread, which calls it in handlers
  PostFails,  \* PostQueuedCompletionStatus() may fail
  MaxCalls    \* bound: calls of execute()

ASSUME WakeUpAssumption ==
  /\ Loop \notin Threads
  /\ PostFails \in BOOLEAN
  /\ MaxCalls \in Nat

Callers == Threads \cup {Loop}

VARIABLES
  posted,   \* _posted
  packets,  \* null packets in the completion queue
  tasks,    \* length of the loop's list of tasks
  at,       \* where each caller is in execute()
  loop,     \* where run() is
  dropped,  \* a post has failed since the loop last took its list
  calls     \* calls made

vars == <<posted, packets, tasks, at, loop, dropped, calls>>

TypeOK ==
  /\ posted \in BOOLEAN /\ dropped \in BOOLEAN
  /\ packets \in Nat /\ tasks \in Nat /\ calls \in Nat
  /\ at \in [Callers -> {"out", "linked", "won", "failed"}]
  /\ loop \in {"waits", "woken", "ready", "runs"}

Init ==
  /\ posted = FALSE /\ packets = 0 /\ tasks = 0 /\ calls = 0
  /\ at = [t \in Callers |-> "out"]
  /\ loop = "waits" /\ dropped = FALSE
-----------------------------------------------------------------------------
(* event_loop::execute(): the task is linked under the lock.  The loop's   *)
(* own thread does so in the tasks it runs.                                *)
execute(t) ==
  /\ at[t] = "out" /\ calls < MaxCalls
  /\ t = Loop => loop = "runs"
  /\ at' = [at EXCEPT ![t] = "linked"]
  /\ tasks' = tasks + 1 /\ calls' = calls + 1
  /\ UNCHANGED <<dropped, posted, packets, loop>>

(* Mutant: the loop's own thread does not post.                            *)
wake_upFromOutside(t) ==
  /\ at[t] = "linked"
  /\ at' = [at EXCEPT ![t] = IF posted \/ t = Loop THEN "out" ELSE "won"]
  /\ posted' = (posted \/ t # Loop)
  /\ UNCHANGED <<dropped, packets, tasks, loop, calls>>

(* wake_up(): compare_exchange_strong( 0 , 1 ) *)
wake_up(t) ==
  /\ at[t] = "linked"
  /\ at' = [at EXCEPT ![t] = IF posted THEN "out" ELSE "won"]
  /\ posted' = TRUE
  /\ UNCHANGED <<dropped, packets, tasks, loop, calls>>

(* PostQueuedCompletionStatus() *)
Post(t) ==
  /\ at[t] = "won"
  /\ \/ packets' = packets + 1 /\ at' = [at EXCEPT ![t] = "out"]
     \/ PostFails /\ packets' = packets /\ at' = [at EXCEPT ![t] = "failed"]
  /\ UNCHANGED <<dropped, posted, tasks, loop, calls>>

(* ... FALSE: _posted.exchange(0) *)
PostFailed(t) ==
  /\ at[t] = "failed"
  /\ at' = [at EXCEPT ![t] = "out"]
  /\ posted' = FALSE /\ dropped' = TRUE
  /\ UNCHANGED <<packets, tasks, loop, calls>>

(* wait() takes a null packet, *)
TakePacket ==
  /\ loop = "waits" /\ packets > 0
  /\ packets' = packets - 1
  /\ loop' = "woken"
  /\ UNCHANGED <<dropped, posted, tasks, at, calls>>

(* or finds none in its time, which looks the same to it, *)
TimedOut ==
  /\ loop = "waits" /\ packets = 0
  /\ loop' = "woken"
  /\ UNCHANGED <<dropped, posted, packets, tasks, at, calls>>

(* or takes the packet of an operation, and leaves the flag alone. *)
TakeCompletion ==
  /\ loop = "waits"
  /\ loop' = "ready"
  /\ UNCHANGED <<dropped, posted, packets, tasks, at, calls>>

(* Mutant: the flag is not cleared.                                        *)
ClearNever ==
  /\ loop = "woken" /\ loop' = "ready"
  /\ UNCHANGED <<dropped, posted, packets, tasks, at, calls>>

Clear ==
  /\ loop = "woken"
  /\ posted' = FALSE
  /\ loop' = "ready"
  /\ UNCHANGED <<dropped, packets, tasks, at, calls>>

(* _run_tasks() takes the list under the lock and runs it. *)
Splice ==
  /\ loop = "ready"
  /\ tasks' = 0 /\ dropped' = FALSE
  /\ loop' = "runs"
  /\ UNCHANGED <<posted, packets, at, calls>>

TasksRun ==
  /\ loop = "runs" /\ at[Loop] = "out"
  /\ loop' = "waits"
  /\ UNCHANGED <<dropped, posted, packets, tasks, at, calls>>

CallStep(t) == wake_up(t) \/ Post(t) \/ PostFailed(t)
LoopStep == TakePacket \/ Clear \/ Splice \/ TasksRun

Next ==
  \/ \E t \in Callers : execute(t) \/ CallStep(t)
  \/ LoopStep \/ TimedOut \/ TakeCompletion

(* Threads finish their calls and the loop goes on.  It is not fairness    *)
(* that a wait times out or that other packets come: neither is needed.    *)
Fairness == WF_vars(LoopStep) /\ \A t \in Callers : WF_vars(CallStep(t))

Spec == Init /\ [][Next]_vars
FairSpec == Spec /\ Fairness
-----------------------------------------------------------------------------
(* Properties.                                                             *)

(* The loop does not wait with a task in its list unless a packet lies in  *)
(* the queue or a caller has yet to act; or the system refused a packet.   *)
NoLostWakeup ==
  loop = "waits" /\ tasks > 0 =>
    packets > 0 \/ dropped \/ \E t \in Callers : at[t] # "out"

(* The flag is set only while somebody answers for it: a packet lies in    *)
(* the queue, a caller is about to post, or to clear it after a failure,   *)
(* or the loop is about to clear it.                                       *)
PostedHasPoster ==
  posted => packets > 0 \/ loop = "woken" \/ \E t \in Callers : at[t] \in {"won", "failed"}

(* A task in the list is taken without the help of a timeout, unless the   *)
(* system refused a packet.                                                *)
TasksAreTaken == tasks > 0 ~> tasks = 0 \/ dropped
=============================================================================
