---------------------------- MODULE TaskExecutor ----------------------------
(***************************************************************************)
(* What an executor promises to those who hand jobs to it: they are run    *)
(* one at a time and in the order of the hand-over while the executor is   *)
(* serving, and it does not stop serving while one is waiting.  EventLoop  *)
(* (event_loop::execute and run) and TaskQueue (queue::execute, which      *)
(* always serves) implement this specification.                            *)
(***************************************************************************)
EXTENDS Sequences

CONSTANTS Job,   \* what can be handed over
          None   \* "nothing is running"

VARIABLES
  pending,   \* jobs handed over and not started, oldest first
  current,   \* the job being run, or None
  serving    \* jobs are being run

vars == <<pending, current, serving>>

TypeOK ==
  /\ pending \in Seq(Job)
  /\ current \in Job \cup {None}
  /\ serving \in BOOLEAN

Init ==
  /\ pending = <<>>
  /\ current = None
  /\ serving \in BOOLEAN

Submit(j) ==
  /\ pending' = Append(pending, j)
  /\ UNCHANGED <<current, serving>>

Start ==
  /\ serving
  /\ current = None
  /\ pending # <<>>
  /\ current' = Head(pending)
  /\ pending' = Tail(pending)
  /\ UNCHANGED serving

Finish ==
  /\ current # None
  /\ current' = None
  /\ UNCHANGED <<pending, serving>>

Serve ==
  /\ ~serving
  /\ serving' = TRUE
  /\ UNCHANGED <<pending, current>>

Retire ==
  /\ serving
  /\ current = None
  /\ pending = <<>>
  /\ serving' = FALSE
  /\ UNCHANGED <<pending, current>>

Next ==
  \/ \E j \in Job : Submit(j)
  \/ Start
  \/ Finish
  \/ Serve
  \/ Retire

SafeSpec == Init /\ [][Next]_vars
Spec == SafeSpec /\ WF_vars(Start) /\ WF_vars(Finish)
=============================================================================
