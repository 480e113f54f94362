----------------------------- MODULE UdpChannel ------------------------------
(***************************************************************************)
(* tdk::io::ip::udp::channel on both platforms, from the job with which    *)
(* bootstrap::start() announces it.  There is no send queue: a write is a  *)
(* system call, and one that fails is told at once on Linux, inside the    *)
(* callback that wrote, and by a later job on Windows.  On Linux the       *)
(* channel is watched for input and holds one activity while it is open;   *)
(* on Windows each WSARecvFrom() holds one, and a reference.               *)
(***************************************************************************)
EXTENDS ChannelCore

CONSTANTS
  Platforms,  \* builds to consider, of "linux" and "windows"
  MaxIn       \* bound: datagrams that arrive

VARIABLES
  platform,   \* the build, which does not change
  watched,    \* Linux: _reg_events is EPOLLIN
  inbox,      \* Linux: datagrams that wait in the socket
  recvs,      \* Windows: WSARecvFrom() that the kernel has not completed
  port,       \* Windows: packets of this channel in the completion port
  incoming    \* datagrams that have arrived

ioVars == <<platform, watched, inbox, recvs, port, incoming>>
vars == <<coreVars, ioVars>>

Init ==
  /\ CoreInit
  /\ phase = "wait"      \* announced by a job
  /\ platform \in Platforms
  /\ watched = FALSE /\ inbox = 0 /\ recvs = 0 /\ port = <<>> /\ incoming = 0

Linux == platform = "linux"
-----------------------------------------------------------------------------
(* _register_handle() on a live channel: epoll_ctl() may fail.             *)
register_handle ==
  /\ watched' = ("pending" \notin bits)
  /\ \/ UNCHANGED <<bits, ref, tasks>>
     \/ watched' # watched /\ error_propagation

(* Mutant: the open channel does not hold itself.                          *)
FireOnOpenUnretained ==
  /\ Is("announce")
  /\ own' = own + 1
  /\ IF Linux
     THEN /\ watched' = TRUE /\ active' = active + 1 /\ Then(<<"on_connected">>)
     ELSE /\ Then(<<"on_connected", "watch">>) /\ UNCHANGED <<watched, active>>
  /\ UNCHANGED <<bits, ref, sock, deleted, tasks, batch, phase, upc, history,
                 platform, inbox, recvs, port, incoming>>

(* fire_on_open(): no other thread knows the channel yet.                  *)
FireOnOpen ==
  /\ Is("announce")
  /\ own' = own + 1
  /\ \/ /\ Linux /\ active' = active + 1 /\ watched' = TRUE
        /\ \/ ref' = ref + 1 /\ UNCHANGED <<bits, tasks>>
           \/ ref' = ref + 2 /\ bits' = bits \cup {"error"} /\ Execute("error")
        /\ Then(<<"on_connected">>)
     \/ /\ ~Linux /\ ref' = ref + 1
        /\ Then(<<"on_connected", "watch">>)
        /\ UNCHANGED <<bits, tasks, active, watched>>
  /\ UNCHANGED <<sock, deleted, batch, phase, upc, history, platform, inbox, recvs, port, incoming>>

(* _register_handle() *)
RegisterHandle ==
  /\ Linux /\ Is("watch")
  /\ Done
  /\ IF Dead THEN UNCHANGED <<watched, bits, ref, tasks>> ELSE register_handle
  /\ UNCHANGED <<sock, active, deleted, batch, phase, upc, own, history,
                 platform, inbox, recvs, port, incoming>>

(* _do_recv() *)
DoRecv ==
  /\ ~Linux /\ Is("watch")
  /\ \/ /\ bits # {}
        /\ Done /\ UNCHANGED <<bits, sock, ref, active, recvs>>
     \/ /\ bits = {} /\ sock = "open"
        /\ Done
        /\ ref' = ref + 1 /\ active' = active + 1 /\ recvs' = recvs + 1
        /\ UNCHANGED <<bits, sock>>
     \/ /\ bits = {}
        /\ FailNow(<<>>) /\ UNCHANGED <<ref, active, recvs>>
  /\ UNCHANGED <<deleted, tasks, batch, phase, upc, own, history,
                 platform, watched, inbox, port, incoming>>
-----------------------------------------------------------------------------
(* Linux: epoll_wait() reports input or an error, or nothing.              *)
PollEvent ==
  /\ Linux /\ phase = "wait" /\ Idle
  /\ sock = "open" /\ active = 1
  /\ phase' = "timers"
  /\ \/ /\ Dead
        /\ UNCHANGED <<todo, bits, sock>>
     \/ /\ ~Dead                                   \* EPOLLERR or EPOLLHUP
        /\ bits' = bits \cup {"error"} /\ sock' = "closed" /\ todo' = <<"on_error">>
     \/ /\ ~Dead /\ watched /\ inbox > 0
        /\ todo' = <<"readable", "watch">>
        /\ UNCHANGED <<bits, sock>>
  /\ UNCHANGED <<ref, active, deleted, tasks, batch, upc, own, history, ioVars>>

(* _handle_readable(): an empty datagram, EAGAIN and errors end the channel*)
(* alike.                                                                  *)
HandleReadable ==
  /\ Is("readable")
  /\ \/ /\ bits # {}
        /\ Done /\ UNCHANGED <<bits, sock, inbox>>
     \/ /\ bits = {} /\ inbox > 0
        /\ inbox' = inbox - 1
        /\ Then(<<"on_read">>) /\ UNCHANGED <<bits, sock>>
     \/ /\ bits = {}
        /\ FailNow(<<>>) /\ UNCHANGED inbox
  /\ UNCHANGED <<ref, active, deleted, tasks, batch, phase, upc, own, history,
                 platform, watched, recvs, port, incoming>>

(* Windows: iocp::wait() takes one packet.                                 *)
TakePacket ==
  /\ ~Linux /\ phase = "wait" /\ Idle /\ port # <<>>
  /\ todo' = <<Head(port), "give_back">>
  /\ port' = Tail(port)
  /\ phase' = "timers"
  /\ UNCHANGED <<state, tasks, batch, upc, own, history, platform, watched, inbox, recvs, incoming>>

TakeNothing ==
  /\ phase = "wait" /\ Idle /\ port = <<>>
  /\ ~(Linux /\ sock = "open" /\ active = 1 /\ watched /\ inbox > 0)
  /\ phase' = "timers"
  /\ UNCHANGED <<state, tasks, batch, todo, upc, own, history, ioVars>>

(* handle_recv() *)
HandleRecv ==
  /\ Is("recv_data")
  /\ IF Dead THEN Done ELSE Then(<<"on_read", "watch">>)
  /\ UNCHANGED <<state, tasks, batch, phase, upc, own, history, ioVars>>

HandleRecvFailed ==
  /\ Is("recv_failed")
  /\ IF Dead THEN Done /\ UNCHANGED <<bits, sock>> ELSE FailNow(<<>>)
  /\ UNCHANGED <<ref, active, deleted, tasks, batch, phase, upc, own, history, ioVars>>

(* remove_active() and release() in _handle_recv *)
GiveBack ==
  /\ Is("give_back")
  /\ Done
  /\ active' = active - 1 /\ Release
  /\ UNCHANGED <<bits, sock, tasks, batch, phase, upc, own, history, ioVars>>

(* The end of fire_on_close() *)
Leave ==
  /\ Is("leave")
  /\ Done /\ Release /\ own' = own - 1
  /\ active' = IF Linux THEN active - 1 ELSE active
  /\ UNCHANGED <<bits, sock, tasks, batch, phase, upc, history, ioVars>>
-----------------------------------------------------------------------------
(* A write that fails: on Windows the error is told by a later job.        *)
WriteFails(after) ==
  IF Linux
  THEN FailNow(after) /\ UNCHANGED <<ref, tasks>>
  ELSE todo' = after \o Tail(todo) /\ error_propagation /\ UNCHANGED sock

(* fire_do_write() and do_write() *)
FireDoWrite ==
  /\ Is("do_write")
  /\ \/ Done /\ UNCHANGED <<bits, ref, sock, tasks>>    \* sent, or not even tried
     \/ ~Dead /\ WriteFails(<<>>)
  /\ UNCHANGED <<active, deleted, batch, phase, upc, own, history, ioVars>>

(* Mutant: do_write() does not look at the state word.                     *)
CallbackWritesDirectlyUntested ==
  /\ InCallback /\ NewCall
  /\ IF Linux THEN /\ bits' = bits \cup {"error"} /\ sock' = "closed"
                   /\ Then(<<"on_error", "rest">>) /\ UNCHANGED <<ref, tasks>>
              ELSE error_propagation /\ UNCHANGED <<todo, sock>>
  /\ UNCHANGED <<active, deleted, batch, phase, upc, own, told, resumed, ioVars>>

(* filter::write_out_bound() in a callback, when the write fails: on Linux *)
(* on_error is called inside that callback.                                *)
CallbackWritesDirectly ==
  /\ InCallback /\ NewCall
  /\ ~Dead
  /\ WriteFails(IF Linux THEN <<"rest">> ELSE <<Head(todo)>>)
  /\ UNCHANGED <<active, deleted, batch, phase, upc, own, told, resumed, ioVars>>

(* The network. *)
DatagramArrives ==
  /\ Linux /\ sock = "open" /\ incoming < MaxIn
  /\ incoming' = incoming + 1 /\ inbox' = inbox + 1
  /\ UNCHANGED <<coreVars, platform, watched, recvs, port>>

RecvCompletes ==
  /\ recvs > 0
  /\ recvs' = recvs - 1
  /\ \/ /\ sock = "open" /\ incoming < MaxIn
        /\ incoming' = incoming + 1 /\ port' = Append(port, "recv_data")
     \/ port' = Append(port, "recv_failed") /\ UNCHANGED incoming
  /\ UNCHANGED <<coreVars, platform, watched, inbox>>

LoopStep ==
  \/ CoreLoopStep /\ UNCHANGED ioVars
  \/ FireOnOpen \/ RegisterHandle \/ DoRecv
  \/ PollEvent \/ HandleReadable
  \/ TakePacket \/ TakeNothing
  \/ HandleRecv \/ HandleRecvFailed \/ GiveBack
  \/ FireDoWrite \/ Leave

Next ==
  \/ ~deleted /\ (LoopStep \/ CallbackWritesDirectly \/ (CoreCall /\ UNCHANGED ioVars))
  \/ DatagramArrives \/ RecvCompletes
  \/ UserStep /\ UNCHANGED ioVars

(* As in TcpChannelIocp: nothing has to arrive.                            *)
Fairness ==
  /\ WF_vars(~deleted /\ LoopStep)
  /\ WF_vars(sock = "closed" /\ RecvCompletes)
  /\ \A u \in Users : WF_vars((UserPosts(u) \/ UserReleases(u)) /\ UNCHANGED ioVars)

Spec == Init /\ [][Next]_vars
FairSpec == Spec /\ Fairness
-----------------------------------------------------------------------------
(* Properties.                                                             *)
Reading == recvs + Len(port)

(* On Linux the open channel has one activity; on Windows each operation   *)
(* has one, and a reference, which its handler gives back.                 *)
Balance ==
  LET operations == Reading + Count(todo, {"give_back"})
  IN  /\ active = IF Linux THEN own ELSE operations
      /\ ref = operations + own + JobsHeld + Count(todo, {"release"}) + UsersHeld

(* A deleted channel has no operation, packet or job, and nobody holds it. *)
NoUseAfterFree ==
  deleted /\ ~resumed =>
    /\ Reading = 0 /\ Queued = <<>> /\ todo = <<>> /\ active = 0
    /\ \A u \in Users : upc[u] = "out"

(* Between its handlers a live channel waits for input exactly once,       *)
(* unless it is paused, although on Linux a callback may have failed it.   *)
ServedOnce ==
  /\ Reading <= 1
  /\ Idle /\ own = 1 /\ ~Dead /\ ~resumed =>
       "pending" \notin bits <=> (IF Linux THEN watched ELSE Reading = 1)
=============================================================================
