--------------------------- MODULE TcpChannelIocp ----------------------------
(***************************************************************************)
(* tdk::io::ip::tcp::channel on completion ports.  The socket is read and  *)
(* written by overlapped operations, each of which holds a reference and   *)
(* an activity of the loop until its packet has been handled, in whatever  *)
(* state the channel is by then.                                           *)
(***************************************************************************)
EXTENDS ChannelCore

CONSTANTS
  MaxIn    \* bound: messages the peer sends

VARIABLES
  sendq,     \* length of _send_queue
  inflight,  \* the part of it that was given to the outstanding WSASend()
  recvs,     \* WSARecv() that the kernel has not completed
  sends,     \* WSASend() that the kernel has not completed
  port,      \* packets of this channel in the completion port
  incoming   \* messages the peer has sent

ioVars == <<sendq, inflight, recvs, sends, port, incoming>>
vars == <<coreVars, ioVars>>

Init ==
  /\ CoreInit
  /\ sendq = 0 /\ inflight = 0 /\ recvs = 0 /\ sends = 0 /\ port = <<>> /\ incoming = 0
-----------------------------------------------------------------------------
(* fire_on_connected() and fire_on_accepted() *)
FireOnConnected ==
  /\ Is("announce")
  /\ ref' = ref + 1 /\ own' = own + 1
  /\ Then(<<"on_connected", "watch">>)
  /\ UNCHANGED <<bits, sock, active, deleted, tasks, batch, phase, upc, history, ioVars>>

(* Mutant: no reference is taken for the operation.                        *)
DoRecvUnretained ==
  /\ Is("watch")
  /\ \/ /\ bits # {}
        /\ Done /\ UNCHANGED <<bits, sock, active, recvs>>
     \/ /\ bits = {} /\ sock = "open"
        /\ Done /\ active' = active + 1 /\ recvs' = recvs + 1
        /\ UNCHANGED <<bits, sock>>
     \/ /\ bits = {}
        /\ FailNow(<<>>) /\ UNCHANGED <<active, recvs>>
  /\ UNCHANGED <<ref, deleted, tasks, batch, phase, upc, own, history, sendq, inflight, sends, port, incoming>>

(* _do_recv(): nothing while the channel is dead or paused; or WSARecv()   *)
(* has started, or has failed.                                             *)
DoRecv ==
  /\ Is("watch")
  /\ \/ /\ bits # {}
        /\ Done /\ UNCHANGED <<bits, sock, ref, active, recvs>>
     \/ /\ bits = {} /\ sock = "open"
        /\ Done
        /\ ref' = ref + 1 /\ active' = active + 1 /\ recvs' = recvs + 1
        /\ UNCHANGED <<bits, sock>>
     \/ /\ bits = {}
        /\ FailNow(<<>>) /\ UNCHANGED <<ref, active, recvs>>
  /\ UNCHANGED <<deleted, tasks, batch, phase, upc, own, history, sendq, inflight, sends, port, incoming>>

(* _send_remains() on a queue of n messages.  A WSASend() that fails at    *)
(* once queues its own handler, with its reference and activity.           *)
send_remains(n) ==
  IF Dead \/ n = 0
  THEN UNCHANGED <<ref, active, sends, inflight, tasks>>
  ELSE /\ ref' = ref + 1 /\ active' = active + 1
       /\ inflight' = n
       /\ \/ sock = "open" /\ sends' = sends + 1 /\ UNCHANGED tasks
          \/ Execute("send") /\ UNCHANGED sends

(* do_write(): the first message in the queue is sent at once.             *)
do_write ==
  /\ sendq' = sendq + 1
  /\ IF sendq = 0 THEN send_remains(1)
     ELSE UNCHANGED <<ref, active, sends, inflight, tasks>>

FireDoWrite ==
  /\ Is("do_write")
  /\ Done
  /\ IF Dead THEN UNCHANGED <<sendq, ref, active, sends, inflight, tasks>> ELSE do_write
  /\ UNCHANGED <<bits, sock, deleted, batch, phase, upc, own, history, recvs, port, incoming>>

(* filter::write_out_bound() in a callback, down to do_write()             *)
CallbackWritesDirectly ==
  /\ ~Idle /\ Head(todo) \in {"on_connected", "on_read", "on_write"} /\ NewCall
  /\ do_write
  /\ UNCHANGED <<bits, sock, deleted, batch, phase, todo, upc, own, told, resumed, recvs, port, incoming>>
-----------------------------------------------------------------------------
(* iocp::wait() takes one packet, or none that is the channel's.           *)
TakePacket ==
  /\ phase = "wait" /\ Idle /\ port # <<>>
  /\ todo' = <<Head(port), "give_back">>
  /\ port' = Tail(port)
  /\ phase' = "timers"
  /\ UNCHANGED <<state, tasks, batch, upc, own, history, sendq, inflight, recvs, sends, incoming>>

TakeNothing ==
  /\ phase = "wait" /\ Idle /\ port = <<>>
  /\ phase' = "timers"
  /\ UNCHANGED <<state, tasks, batch, todo, upc, own, history, ioVars>>

(* handle_recv() *)
HandleRecv ==
  /\ Is("recv_data")
  /\ IF Dead THEN Done ELSE Then(<<"on_read", "watch">>)
  /\ UNCHANGED <<state, tasks, batch, phase, upc, own, history, ioVars>>

(* ... of an error or of no bytes *)
HandleRecvFailed ==
  /\ Is("recv_failed")
  /\ IF Dead THEN Done /\ UNCHANGED <<bits, sock>> ELSE FailNow(<<>>)
  /\ UNCHANGED <<ref, active, deleted, tasks, batch, phase, upc, own, history, ioVars>>

(* Mutant: the queue is looked at again after on_write().                  *)
HandleSendStale ==
  /\ Is("sent")
  /\ IF Dead THEN Done /\ UNCHANGED <<sendq, inflight>>
     ELSE \E n \in 0 .. inflight :
            /\ sendq' = sendq - n /\ inflight' = 0
            /\ Then(<<"on_write", "send_remains">>)
  /\ UNCHANGED <<state, tasks, batch, phase, upc, own, history, recvs, sends, port, incoming>>

(* handle_send(): what was sent leaves the queue, the rest is sent after   *)
(* on_write(), unless there was none before it.                            *)
HandleSend ==
  /\ Is("sent")
  /\ IF Dead THEN Done /\ UNCHANGED <<sendq, inflight>>
     ELSE \E n \in 0 .. inflight :
            /\ sendq' = sendq - n /\ inflight' = 0
            /\ Then(<<"on_write">> \o IF n < sendq THEN <<"send_remains">> ELSE <<>>)
  /\ UNCHANGED <<state, tasks, batch, phase, upc, own, history, recvs, sends, port, incoming>>

HandleSendFailed ==
  /\ Is("send_failed")
  /\ IF Dead THEN Done /\ UNCHANGED <<bits, sock>> ELSE FailNow(<<>>)
  /\ UNCHANGED <<ref, active, deleted, tasks, batch, phase, upc, own, history, ioVars>>

SendRemains ==
  /\ Is("send_remains")
  /\ Done
  /\ send_remains(sendq)
  /\ UNCHANGED <<bits, sock, deleted, batch, phase, upc, own, history, sendq, recvs, port, incoming>>

(* Mutant: a dead channel's operations are forgotten.                      *)
GiveBackUnlessDead ==
  /\ Is("give_back")
  /\ Done
  /\ IF Dead THEN UNCHANGED <<active, ref, deleted>> ELSE active' = active - 1 /\ Release
  /\ UNCHANGED <<bits, sock, tasks, batch, phase, upc, own, history, ioVars>>

(* remove_active() and release() in _handle_recv and _handle_send *)
GiveBack ==
  /\ Is("give_back")
  /\ Done
  /\ active' = active - 1
  /\ Release
  /\ UNCHANGED <<bits, sock, tasks, batch, phase, upc, own, history, ioVars>>

(* The release() at the end of fire_on_close() *)
Leave ==
  /\ Is("leave")
  /\ Done /\ Release /\ own' = own - 1
  /\ UNCHANGED <<bits, sock, active, tasks, batch, phase, upc, history, ioVars>>
-----------------------------------------------------------------------------
(* The kernel completes an operation; those of a closed socket fail.       *)
RecvCompletes ==
  /\ recvs > 0
  /\ recvs' = recvs - 1
  /\ \/ /\ sock = "open" /\ incoming < MaxIn
        /\ incoming' = incoming + 1 /\ port' = Append(port, "recv_data")
     \/ port' = Append(port, "recv_failed") /\ UNCHANGED incoming
  /\ UNCHANGED <<coreVars, sendq, inflight, sends>>

SendCompletes ==
  /\ sends > 0
  /\ sends' = sends - 1
  /\ \/ sock = "open" /\ port' = Append(port, "sent")
     \/ port' = Append(port, "send_failed")
  /\ UNCHANGED <<coreVars, sendq, inflight, recvs, incoming>>

LoopStep ==
  \/ CoreLoopStep /\ UNCHANGED ioVars
  \/ TakePacket \/ TakeNothing
  \/ FireOnConnected \/ DoRecv \/ FireDoWrite
  \/ HandleRecv \/ HandleRecvFailed
  \/ HandleSend \/ HandleSendFailed \/ SendRemains
  \/ GiveBack \/ Leave

Kernel == RecvCompletes \/ SendCompletes

Next ==
  \/ ~deleted /\ (LoopStep \/ CallbackWritesDirectly \/ (CoreCall /\ UNCHANGED ioVars))
  \/ Kernel
  \/ UserStep /\ UNCHANGED ioVars

(* The loop keeps running, callbacks return, other threads finish their    *)
(* calls, and the kernel aborts the operations of a closed socket.         *)
Fairness ==
  /\ WF_vars(~deleted /\ LoopStep)
  /\ WF_vars(sock = "closed" /\ RecvCompletes)
  /\ WF_vars(sock = "closed" /\ SendCompletes)
  /\ \A u \in Users : WF_vars((UserPosts(u) \/ UserReleases(u)) /\ UNCHANGED ioVars)

Spec == Init /\ [][Next]_vars
FairSpec == Spec /\ Fairness
-----------------------------------------------------------------------------
(* Properties.                                                             *)
Reading == recvs + Count(port, {"recv_data", "recv_failed"})
Writing == sends + Count(port, {"sent", "send_failed"}) + Count(Queued, {"send"})

(* References and activity are those of the operations that are under way, *)
(* in the port, in a failed send's job or in the handler; references also  *)
(* those of the other jobs, of the channel itself until on_closed() has    *)
(* returned, and of other threads.                                         *)
Balance ==
  /\ active = Reading + Writing + Count(todo, {"give_back"})
  /\ ref = active + own + JobsHeld + Count(todo, {"release"}) + UsersHeld

(* A deleted channel has no operation, packet or job, and nobody holds it. *)
NoUseAfterFree ==
  deleted /\ ~resumed =>
    /\ Reading + Writing = 0 /\ Queued = <<>> /\ todo = <<>>
    /\ \A u \in Users : upc[u] = "out"

(* The members _on_recv and _on_send serve one operation each at a time,   *)
(* and none is forgotten: between its handlers a live channel reads, unless*)
(* it is paused, and sends as long as its queue is not empty.              *)
ServedOnce ==
  /\ Reading <= 1 /\ Writing <= 1
  /\ Idle /\ own = 1 /\ ~Dead /\ ~resumed =>
       /\ Reading = 1 <=> "pending" \notin bits
       /\ Writing = 1 <=> sendq > 0
=============================================================================
