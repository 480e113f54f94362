----------------------------- MODULE TaskQueue ------------------------------
(***************************************************************************)
(* tdk::taskex::queue: operations dispatched by any thread are run one     *)
(* after the other.  The thread that finds the queue idle runs its own     *)
(* operation and then all that were queued meanwhile; another thread, and  *)
(* a handler that dispatches from inside an operation, only queues.        *)
(***************************************************************************)
EXTENDS Naturals, Sequences, Functions

CONSTANTS Threads,      \* threads that dispatch operations
          Operation,    \* queue::operation objects
          None,         \* nullptr
          MaxDispatch   \* bound: dispatches in a behaviour

(* None is no operation, and MaxDispatch a number: QueueAssumption of      *)
(* MCExecutors.                                                            *)

VARIABLES
  op_running,   \* queue::_running
  op_queue,     \* queue::_op_queue
  pc,           \* where each thread is in queue::execute()
  dispatches    \* dispatches made so far

vars == <<op_running, op_queue, pc, dispatches>>

TypeOK ==
  /\ op_running \in Operation \cup {None}
  /\ op_queue \in Seq(Operation)
  /\ pc \in [Threads -> {"idle", "run", "handler", "fetch"}]
  /\ dispatches \in Nat

Init ==
  /\ op_running = None
  /\ op_queue = <<>>
  /\ pc = [t \in Threads |-> "idle"]
  /\ dispatches = 0

Goto(t, at) == pc' = [pc EXCEPT ![t] = at]

At(s) == \E t \in Threads : pc[t] = s

(* An operation is dispatched again only when its handler was invoked: the *)
(* queue links the object itself.                                          *)
Linked(o) == o \in Range(op_queue) \/ (o = op_running /\ At("run"))

NewDispatch == dispatches < MaxDispatch /\ dispatches' = dispatches + 1

(* Mutant: the test of _running and the assignment are not one section.    *)
executeUnlocked(t, o) ==
  /\ pc[t] \in {"idle", "handler"}
  /\ ~Linked(o)
  /\ NewDispatch
  /\ \/ /\ op_running # None
        /\ op_queue' = Append(op_queue, o)
        /\ UNCHANGED <<op_running, pc>>
     \/ /\ op_running' = o
        /\ Goto(t, "run")
        /\ UNCHANGED op_queue

(* queue::execute() up to the loop: one critical section.                  *)
execute(t, o) ==
  /\ pc[t] \in {"idle", "handler"}
  /\ ~Linked(o)
  /\ NewDispatch
  /\ \/ /\ op_running # None
        /\ op_queue' = Append(op_queue, o)
        /\ UNCHANGED <<op_running, pc>>
     \/ /\ op_running = None
        /\ op_running' = o
        /\ Goto(t, "run")
        /\ UNCHANGED op_queue

(* ( *_running )() *)
Invoke(t) ==
  /\ pc[t] = "run"
  /\ Goto(t, "handler")
  /\ UNCHANGED <<op_running, op_queue, dispatches>>

HandlerReturns(t) ==
  /\ pc[t] = "handler"
  /\ Goto(t, "fetch")
  /\ UNCHANGED <<op_running, op_queue, dispatches>>

(* Mutant: the thread leaves when its own operation is done.               *)
fetchOwnOnly(t) ==
  /\ pc[t] = "fetch"
  /\ op_running' = None
  /\ Goto(t, "idle")
  /\ UNCHANGED <<op_queue, dispatches>>

(* Mutant: the newest operation is taken first.                            *)
fetchNewest(t) ==
  /\ pc[t] = "fetch"
  /\ \/ /\ op_queue # <<>>
        /\ op_running' = op_queue[Len(op_queue)]
        /\ op_queue' = SubSeq(op_queue, 1, Len(op_queue) - 1)
        /\ Goto(t, "run")
     \/ /\ op_queue = <<>>
        /\ op_running' = None
        /\ Goto(t, "idle")
        /\ UNCHANGED op_queue
  /\ UNCHANGED dispatches

(* queue::fetch(): one critical section.                                   *)
fetch(t) ==
  /\ pc[t] = "fetch"
  /\ \/ /\ op_queue # <<>>
        /\ op_running' = Head(op_queue)
        /\ op_queue' = Tail(op_queue)
        /\ Goto(t, "run")
     \/ /\ op_queue = <<>>
        /\ op_running' = None
        /\ Goto(t, "idle")
        /\ UNCHANGED op_queue
  /\ UNCHANGED dispatches

Drain(t) == Invoke(t) \/ HandlerReturns(t) \/ fetch(t)

Next == \E t \in Threads : Drain(t) \/ \E o \in Operation : execute(t, o)

(* A thread inside execute() gets on with it, and handlers return.         *)
Fairness == \A t \in Threads : WF_vars(Drain(t))

Spec == Init /\ [][Next]_vars
FairSpec == Spec /\ Fairness
-----------------------------------------------------------------------------
Draining == {t \in Threads : pc[t] # "idle"}

(* Operations of one queue are never run by two threads at once (execute   *)
(* and fetch decide under the lock who drains).                            *)
MutualExclusion == \A t, u \in Draining : t = u

(* A queued operation has a thread that will come to it: the queue is      *)
(* never left idle with work in it (the last fetch under the lock).        *)
NothingStranded == op_queue # <<>> => Draining # {}

(* The queue is marked busy exactly while a thread drains it: it is        *)
(* neither blocked for ever nor free for a second thread.                  *)
BusyIffDraining == op_running # None <=> Draining # {}
-----------------------------------------------------------------------------
(* The executor the queue implements: an operation is pending until its    *)
(* handler is invoked.                                                     *)
Waiting == IF At("run") THEN <<op_running>> ELSE <<>>
Current == IF At("handler") THEN op_running ELSE None

Executor ==
  INSTANCE TaskExecutor
    WITH Job <- Operation,
         pending <- Waiting \o op_queue,
         current <- Current,
         serving <- TRUE

(* Operations are run one at a time, in the order of their dispatch, and   *)
(* none is forgotten (execute and fetch).                                  *)
ImplementsExecutor == Executor!Spec
=============================================================================
