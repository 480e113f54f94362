------------------------------- MODULE Stream --------------------------------
(***************************************************************************)
(* tdk::network::tcp::stream of tdk.task: one open stream, the engine that *)
(* runs its overlapped operations and posted jobs, the handler it calls    *)
(* back, and another thread that sends and closes.                         *)
(*                                                                         *)
(* todo is what is left of the handler the loop's thread is in.  send(),   *)
(* close() and the parts of the handlers that hold _lock are one step.     *)
(***************************************************************************)
EXTENDS Integers, Sequences, FiniteSets

CONSTANTS
  Leftover,  \* what _ref_count may hold before: the constructor does not set it
  MaxIn,     \* bound: messages the peer sends
  MaxCalls   \* bound: calls of send() and close()

VARIABLES
  closed,    \* _closed
  errpost,   \* _error_post_status: "not", "begin" or "end"
  closepost, \* _close_post_status
  ref,       \* _ref_count
  sending,   \* _sending
  buffer,    \* length of _send_buffer
  sock,      \* the channel's socket is "open" or "closed"
  recvs,     \* operations that the kernel has not completed
  sends,
  port,      \* packets of the stream in the completion port
  active,    \* the stream's part of event_loop::_ref
  todo,      \* what is left of the handler the loop is in
  told,      \* on_error and on_close, as far as they have returned
  incoming,  \* messages received
  late,      \* another thread called close() after on_error was delivered
  overtaken, \* a send was completed with success after on_error was delivered
  calls      \* calls made so far

flags == <<closed, errpost, closepost>>
kernel == <<recvs, sends, incoming>>
vars == <<flags, ref, sending, buffer, sock, kernel, port, active, todo, told, late, overtaken, calls>>

(* open() and the first recv() *)
Init ==
  /\ closed = FALSE /\ errpost = "not" /\ closepost = "not"
  /\ \E n \in Leftover : ref = n + 1
  /\ recvs = 1 /\ active = 2
  /\ sending = FALSE /\ buffer = 0 /\ sends = 0 /\ sock = "open"
  /\ port = <<>> /\ todo = <<>> /\ told = <<>>
  /\ incoming = 0 /\ late = FALSE /\ overtaken = FALSE /\ calls = 0
-----------------------------------------------------------------------------
Idle == todo = <<>>
Is(step) == todo # <<>> /\ Head(todo) = step
Done == todo' = Tail(todo)
Then(steps) == todo' = steps \o Tail(todo)

Post(packets) == port' = port \o packets /\ active' = active + Len(packets)

(* Mutant: on_close is posted whatever is outstanding.                     *)
PostCloseEarly(packets, isClosed, status) ==
  IF isClosed /\ closepost = "not" /\ status = "end"
  THEN closepost' = "begin" /\ Post(packets \o <<"close">>)
  ELSE UNCHANGED closepost /\ Post(packets)

(* _post_close(), after other packets                                      *)
PostClose(packets, isClosed, status) ==
  IF isClosed /\ closepost = "not" /\ status = "end" /\ ref = 0
  THEN closepost' = "begin" /\ Post(packets \o <<"close">>)
  ELSE UNCHANGED closepost /\ Post(packets)

(* _internal_close() under _lock; another thread has the socket closed by  *)
(* a job.                                                                  *)
InternalClose(byUser, packets) ==
  /\ closed' = (closed \/ byUser)
  /\ IF errpost = "not"
     THEN errpost' = "begin" /\ Post(packets \o <<"error">>) /\ UNCHANGED closepost
     ELSE UNCHANGED errpost /\ PostClose(packets, closed \/ byUser, errpost)

(* An operation is started, or fails at once and is posted.                *)
StartRecv ==
  /\ ref' = ref + 1 /\ active' = active + 1
  /\ \/ sock = "open" /\ recvs' = recvs + 1 /\ UNCHANGED port
     \/ port' = Append(port, "recv_failed") /\ UNCHANGED recvs

StartSend ==
  /\ ref' = ref + 1 /\ active' = active + 1
  /\ \/ sock = "open" /\ sends' = sends + 1 /\ UNCHANGED port
     \/ port' = Append(port, "send_failed") /\ UNCHANGED sends

(* send() under _lock *)
send ==
  IF closed \/ errpost # "not"
  THEN UNCHANGED <<buffer, sending, ref, active, sends, port>>
  ELSE IF sending
  THEN buffer' = buffer + 1 /\ UNCHANGED <<sending, ref, active, sends, port>>
  ELSE sending' = TRUE /\ StartSend /\ UNCHANGED buffer
-----------------------------------------------------------------------------
(* The engine takes a packet and runs its operation.                       *)
Handler(packet) ==
  CASE packet = "received" -> <<"unref", "on_recv", "done">>
    [] packet = "sent" -> <<"unref", "take", "on_send", "done">>
    [] packet \in {"recv_failed", "send_failed"} -> <<"unref", "fail", "done">>
    [] packet = "socket" -> <<"close_socket", "done">>
    [] packet = "error" -> <<"deliver_error", "on_error", "done">>
    [] packet = "close" -> <<"deliver_close", "on_close", "done">>

TakePacket ==
  /\ Idle /\ port # <<>>
  /\ todo' = Handler(Head(port)) /\ port' = Tail(port)
  /\ UNCHANGED <<flags, ref, sending, buffer, sock, kernel, active, told, late, overtaken, calls>>

(* decrement_ref() after the operation *)
HandlerDone ==
  /\ Is("done") /\ Done
  /\ active' = active - 1
  /\ UNCHANGED <<flags, ref, sending, buffer, sock, kernel, port, told, late, overtaken, calls>>

(* _on_recv() and _on_send() give back their reference first.              *)
Unref ==
  /\ Is("unref") /\ Done
  /\ ref' = ref - 1
  /\ UNCHANGED <<flags, sending, buffer, sock, kernel, port, active, told, late, overtaken, calls>>

Fail ==
  /\ Is("fail") /\ Done
  /\ sock' = "closed"
  /\ InternalClose(FALSE, <<>>)
  /\ UNCHANGED <<ref, sending, buffer, kernel, told, late, overtaken, calls>>

(* Mutant: messages that were added meanwhile are not looked for.          *)
TakeRemainsOnly ==
  /\ Is("take")
  /\ \E part \in BOOLEAN :
       IF part THEN Then(<<"resend">>) /\ buffer' = 0 /\ UNCHANGED sending
       ELSE Done /\ sending' = FALSE /\ UNCHANGED buffer
  /\ overtaken' = (overtaken \/ errpost = "end")
  /\ UNCHANGED <<flags, ref, sock, kernel, port, active, told, late, calls>>

(* _on_send() under _lock: the rest of what was sent, and what was added.  *)
TakeRemains ==
  /\ Is("take")
  /\ \E part \in BOOLEAN :
       IF part \/ buffer > 0 THEN Then(<<"resend">>) /\ buffer' = 0 /\ UNCHANGED sending
       ELSE Done /\ sending' = FALSE /\ UNCHANGED buffer
  /\ overtaken' = (overtaken \/ errpost = "end")
  /\ UNCHANGED <<flags, ref, sock, kernel, port, active, told, late, calls>>

Resend ==
  /\ Is("resend") /\ Done
  /\ StartSend
  /\ UNCHANGED <<flags, sending, buffer, sock, recvs, incoming, told, late, overtaken, calls>>

CloseSocket ==
  /\ Is("close_socket") /\ Done
  /\ sock' = "closed"
  /\ UNCHANGED <<flags, ref, sending, buffer, kernel, port, active, told, late, overtaken, calls>>

(* Mutant: whether the stream can end is not looked at.                    *)
DeliverErrorOnly ==
  /\ Is("deliver_error") /\ Done
  /\ errpost' = "end"
  /\ UNCHANGED <<closed, closepost, ref, sending, buffer, sock, kernel, port, active, told,
                 late, overtaken, calls>>

(* The job of _post_error() up to on_error().                              *)
DeliverError ==
  /\ Is("deliver_error") /\ Done
  /\ errpost' = "end"
  /\ PostClose(<<>>, closed, "end")
  /\ UNCHANGED <<closed, ref, sending, buffer, sock, kernel, told, late, overtaken, calls>>

DeliverClose ==
  /\ Is("deliver_close") /\ Done
  /\ closepost' = "end"
  /\ active' = active - 1
  /\ UNCHANGED <<closed, errpost, ref, sending, buffer, sock, kernel, port, told, late, overtaken, calls>>
-----------------------------------------------------------------------------
(* The stream_handler: in on_recv it asks for the next message, and a      *)
(* close() is the last thing it does in any callback.                      *)
InCallback == ~Idle /\ Head(todo) \in {"on_recv", "on_send", "on_error"}
Deleted == "on_close" \in {told[i] : i \in DOMAIN told}
NewCall == calls < MaxCalls /\ calls' = calls + 1

Returned ==
  /\ Done
  /\ told' = IF Head(todo) \in {"on_error", "on_close"} THEN Append(told, Head(todo)) ELSE told

CallbackReturns ==
  /\ InCallback \/ Is("on_close")
  /\ Returned
  /\ IF Is("on_recv") THEN StartRecv ELSE UNCHANGED <<ref, recvs, port, active>>
  /\ UNCHANGED <<flags, sending, buffer, sock, sends, incoming, late, overtaken, calls>>

CallbackCloses ==
  /\ InCallback /\ NewCall
  /\ Returned
  /\ sock' = "closed"
  /\ InternalClose(TRUE, <<>>)
  /\ UNCHANGED <<ref, sending, buffer, kernel, late, overtaken>>

CallbackSends ==
  /\ InCallback /\ NewCall
  /\ send
  /\ UNCHANGED <<flags, sock, recvs, incoming, todo, told, late, overtaken>>

(* Another thread. *)
UserSends ==
  /\ ~Deleted /\ NewCall
  /\ send
  /\ UNCHANGED <<flags, sock, recvs, incoming, todo, told, late, overtaken>>

UserCloses ==
  /\ ~Deleted /\ NewCall
  /\ InternalClose(TRUE, <<"socket">>)
  /\ late' = (late \/ errpost = "end")
  /\ UNCHANGED <<ref, sending, buffer, sock, kernel, todo, told, overtaken>>

(* The kernel completes an operation; those of a closed socket fail.       *)
RecvCompletes ==
  /\ recvs > 0 /\ recvs' = recvs - 1
  /\ \/ sock = "open" /\ incoming < MaxIn /\ incoming' = incoming + 1 /\ port' = Append(port, "received")
     \/ port' = Append(port, "recv_failed") /\ UNCHANGED incoming
  /\ UNCHANGED <<flags, ref, sending, buffer, sock, sends, active, todo, told, late, overtaken, calls>>

SendCompletes ==
  /\ sends > 0 /\ sends' = sends - 1
  /\ \/ sock = "open" /\ port' = Append(port, "sent")
     \/ port' = Append(port, "send_failed")
  /\ UNCHANGED <<flags, ref, sending, buffer, sock, recvs, incoming, active, todo, told, late, overtaken, calls>>

LoopStep ==
  \/ TakePacket \/ HandlerDone
  \/ Unref \/ Fail \/ TakeRemains \/ Resend
  \/ CloseSocket \/ DeliverError \/ DeliverClose
  \/ CallbackReturns

Completes == RecvCompletes \/ SendCompletes

Next ==
  \/ LoopStep
  \/ CallbackCloses \/ CallbackSends
  \/ UserSends \/ UserCloses
  \/ Completes

(* The loop goes on and the operations of a closed socket are completed.   *)
Fairness == WF_vars(LoopStep) /\ WF_vars(sock = "closed" /\ Completes)

Spec == Init /\ [][Next]_vars
FairSpec == Spec /\ Fairness
-----------------------------------------------------------------------------
(* Properties.                                                             *)
InPort(packets) == Cardinality({i \in DOMAIN port : port[i] \in packets})
Sending == sends + InPort({"sent", "send_failed"})

(* on_close() ends the stream, and the application deletes it: then no     *)
(* operation is outstanding that would be completed into it, and no packet *)
(* of it is left; unless another thread called close() after on_error().   *)
ClosesAlone ==
  closepost = "end" /\ ~late =>
    /\ recvs + sends = 0 /\ port = <<>> /\ "on_error" \in {told[i] : i \in DOMAIN told}
    /\ active = IF Is("deliver_close") \/ ~Idle THEN 1 ELSE 0

(* One send is outstanding as long as there is something to send, however  *)
(* many threads send: none is started beside it, and nothing that was put  *)
(* aside meanwhile is left behind.                                         *)
OneSend ==
  /\ Sending <= 1
  /\ Idle /\ buffer > 0 /\ errpost = "not" => Sending = 1

(* A stream that is closed comes to its on_close(), unless a send succeeds *)
(* after on_error(): _on_send() then gives back the last reference and     *)
(* leaves without _post_close().                                           *)
Closes == closed ~> Deleted \/ overtaken
=============================================================================
