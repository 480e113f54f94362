----------------------------- MODULE MCExecutors ------------------------------
(***************************************************************************)
(* The two executors on small instances, and TaskExecutor, which both      *)
(* implement: EventLoop, or beside it TaskQueue.  In the specification of  *)
(* one of them the other stands still.                                     *)
(***************************************************************************)
EXTENDS EventLoop

CONSTANTS Operation, MaxDispatch

ASSUME QueueAssumption == None \notin Operation /\ MaxDispatch \in Nat

VARIABLES op_running, op_queue, op_pc, dispatches

Queue == INSTANCE TaskQueue WITH pc <- op_pc

queueVars == <<op_running, op_queue, op_pc, dispatches>>
allVars == <<vars, queueVars>>

MCInit == Init /\ Queue!Init
LoopSpec == MCInit /\ [][Next /\ UNCHANGED queueVars]_allVars /\ Fairness
QueueSpec == MCInit /\ [][Queue!Next /\ UNCHANGED vars]_allVars /\ Queue!Fairness
-----------------------------------------------------------------------------
Executor ==
  INSTANCE TaskExecutor
    WITH pending <- batch \o tasks,
         current <- IF loop = "tasks" THEN running ELSE None,
         serving <- loop # "stopped"

(* The loop implements the executor: jobs are run one at a time and in the *)
(* order of the hand-over, each of them if run() goes on, and run() does   *)
(* not return while one is waiting (execute, _run_tasks, run).             *)
ImplementsExecutor == Executor!Spec
-----------------------------------------------------------------------------
(* The properties of TaskQueue.                                            *)

(* Two threads never drain one queue.                                      *)
MutualExclusion == Queue!MutualExclusion

(* Somebody drains a queue that holds operations.                          *)
NothingStranded == Queue!NothingStranded

(* The queue implements the executor.                                      *)
QueueImplementsExecutor == Queue!ImplementsExecutor
=============================================================================
