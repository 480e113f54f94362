-------------------------------- MODULE MCIocp --------------------------------
(***************************************************************************)
(* What is built on completion ports alone, for model checking: the        *)
(* wake-up of the loop (IocpWakeUp) or a stream of tdk.task (Stream),      *)
(* chosen in the first state.  Both count their calls in calls.            *)
(***************************************************************************)
EXTENDS IocpWakeUp, Sequences

CONSTANTS Leftover, MaxIn

(* _ref_count is an int, whatever it holds before it is set.               *)
ASSUME LeftoverAssumption == Leftover \subseteq Int

VARIABLES kind, closed, errpost, closepost, ref, sending, buffer, sock, recvs, sends,
          port, active, todo, told, incoming, late, overtaken

TheStream == INSTANCE Stream

wakeUpOnly == <<posted, packets, tasks, at, loop, dropped>>
streamOnly == <<closed, errpost, closepost, ref, sending, buffer, sock, recvs, sends,
                port, active, todo, told, incoming, late, overtaken>>
allVars == <<kind, calls, wakeUpOnly, streamOnly>>

MCInit == kind \in {"wake-up", "stream"} /\ Init /\ TheStream!Init

OfWakeUp(A) == kind = "wake-up" /\ A /\ UNCHANGED <<kind, streamOnly>>
OfStream(A) == kind = "stream" /\ A /\ UNCHANGED <<kind, wakeUpOnly>>

MCNext == OfWakeUp(Next) \/ OfStream(TheStream!Next)

MCFairness ==
  /\ WF_allVars(OfWakeUp(LoopStep))
  /\ \A t \in Callers : WF_allVars(OfWakeUp(CallStep(t)))
  /\ WF_allVars(OfStream(TheStream!LoopStep))
  /\ WF_allVars(OfStream(sock = "closed" /\ TheStream!Completes))

MCSpec == MCInit /\ [][MCNext]_allVars /\ MCFairness
-----------------------------------------------------------------------------
(* The properties of Stream.                                               *)

(* on_close() comes when nothing of the stream is outstanding.             *)
ClosesAlone == TheStream!ClosesAlone

(* One send is outstanding while there is something to send.               *)
OneSend == TheStream!OneSend

(* A stream that is closed comes to its on_close().                        *)
Closes == TheStream!Closes
=============================================================================
