----------------------------- MODULE TcpChannel -----------------------------
(***************************************************************************)
(* tdk::io::ip::tcp::channel on epoll: the life of one connection, from    *)
(* the job that announces it to the deletion of the object, with the loop  *)
(* that runs its handlers, the filters that are called back, the kernel's  *)
(* socket, and other threads that hold a reference and call close(),       *)
(* write() and error_propagation().                                        *)
(*                                                                         *)
(* The loop's thread is sequential: what is left of the handler it is in   *)
(* is the sequence todo, whose head is the next step.  A head that is the  *)
(* name of a filter callback is a callback in progress, in which the       *)
(* filter may call the channel before it returns.                          *)
(***************************************************************************)
EXTENDS Counting

CONSTANTS
  Users,         \* other threads that use the channel
  DirectWrites,  \* callbacks in which filters call write_out_bound()
  Pausing,       \* filters use pending_read() and continue_read() in on_read
  AsyncErrors,   \* error_propagation() by timers and other threads
  MaxCalls,      \* bound: calls of the channel's interface
  MaxIn,         \* bound: messages the peer sends
  MaxRoom        \* bound: messages the socket's send buffer takes

ASSUME ChannelAssumption ==
  /\ IsFiniteSet(Users)
  /\ DirectWrites \subseteq {"on_connected", "on_read", "on_write"}
  /\ Pausing \in BOOLEAN /\ AsyncErrors \in BOOLEAN
  /\ MaxCalls \in Nat /\ MaxIn \in Nat /\ MaxRoom \in Nat

Callbacks == {"on_connected", "on_read", "on_write", "on_error", "on_closed"}
Jobs == {"connected", "write", "register", "send", "close", "error"}
Steps == Callbacks \cup {"announce", "readable", "writeable", "register", "register_failed",
                        "do_write", "closing", "leave", "release"}

VARIABLES
  bits,       \* _state: subset of {"error", "close", "pending"}
  ref,        \* _ref_count
  sendq,      \* length of _send_queue
  reg,        \* _reg_events: subset of {"in", "out"}
  sock,       \* _socket is "open" or "closed"
  tasks,      \* the channel's jobs in the loop's list
  batch,      \* those of them that run() took
  phase,      \* where run() is: "poll", "timers" or "tasks"
  todo,       \* what is left of the handler the loop is in
  active,     \* add_active() without remove_active()
  deleted,    \* delete this
  upc,        \* what each other thread is doing
  inbox,      \* messages that wait in the socket
  incoming,   \* messages the peer has sent
  eof,        \* the peer closed its side
  room,       \* room in the socket's send buffer
  broken,     \* the connection is reset
  told,       \* how often on_error and on_closed were called
  calls,      \* calls made so far
  resumed     \* continue_read() has been called

loopVars == <<tasks, batch, phase, todo>>
kernelVars == <<inbox, incoming, eof, room, broken>>
vars == <<bits, ref, sendq, reg, sock, loopVars, active, deleted, upc, kernelVars, told, calls, resumed>>

TypeOK ==
  /\ bits \subseteq {"error", "close", "pending"}
  /\ ref \in Nat
  /\ sendq \in Nat
  /\ reg \subseteq {"in", "out"}
  /\ sock \in {"open", "closed"}
  /\ tasks \in Seq(Jobs)
  /\ batch \in Seq(Jobs)
  /\ phase \in {"poll", "timers", "tasks"}
  /\ todo \in Seq(Steps)
  /\ active \in {0, 1}
  /\ deleted \in BOOLEAN
  /\ upc \in [Users -> {"out", "idle", "closing", "failing", "writing"}]
  /\ inbox \in 0 .. MaxIn /\ incoming \in 0 .. MaxIn
  /\ eof \in BOOLEAN /\ broken \in BOOLEAN
  /\ room \in 0 .. MaxRoom
  /\ told \in [{"on_error", "on_closed"} -> Nat]
  /\ calls \in 0 .. MaxCalls
  /\ resumed \in BOOLEAN

(* The acceptor has queued the job that calls fire_on_accepted(), or the   *)
(* connector, in the handler of its own io event, is about to call         *)
(* fire_on_connected().                                                    *)
Init ==
  /\ bits = {} /\ ref = 0 /\ sendq = 0 /\ reg = {} /\ sock = "open"
  /\ batch = <<>>
  /\ \/ phase = "poll" /\ tasks = <<"connected">> /\ todo = <<>>
     \/ phase = "timers" /\ tasks = <<>> /\ todo = <<"announce">>
  /\ active = 0 /\ deleted = FALSE
  /\ upc = [u \in Users |-> "out"]
  /\ inbox = 0 /\ incoming = 0 /\ eof = FALSE /\ room = MaxRoom /\ broken = FALSE
  /\ told = [c \in {"on_error", "on_closed"} |-> 0]
  /\ calls = 0 /\ resumed = FALSE
-----------------------------------------------------------------------------
Is(step) == todo # <<>> /\ Head(todo) = step
Idle == todo = <<>>
Dead == bits \cap {"error", "close"} # {}

Then(steps) == todo' = steps \o Tail(todo)   \* the head is done, steps come next
Done == todo' = Tail(todo)

Execute(job) == tasks' = Append(tasks, job)

(* Mutant: the job is not counted as a holder.                             *)
PostUnretained(job) == ref' = ref /\ Execute(job)

(* retain() and event_loop::execute() *)
Post(job) == ref' = ref + 1 /\ Execute(job)

(* Mutant: the pause is not seen.                                          *)
WantedAlways(b, n) == {"in"} \cup (IF n > 0 THEN {"out"} ELSE {})

(* The event mask _register_handle() computes, for n queued messages.      *)
Wanted(b, n) == (IF "pending" \in b THEN {} ELSE {"in"}) \cup (IF n > 0 THEN {"out"} ELSE {})

(* error_propagation(): the first error is delivered by a later job.       *)
error_propagation ==
  IF "error" \in bits
  THEN UNCHANGED <<bits, ref, tasks>>
  ELSE bits' = bits \cup {"error"} /\ Post("error")

(* _error_propagation(): the first error is delivered at once.             *)
FailNow ==
  IF "error" \in bits
  THEN Done /\ UNCHANGED <<bits, sock>>
  ELSE bits' = bits \cup {"error"} /\ sock' = "closed" /\ Then(<<"on_error">>)

(* close() in one piece *)
close ==
  IF "close" \in bits
  THEN UNCHANGED <<bits, ref, tasks>>
  ELSE bits' = bits \cup {"close"} /\ Post("close")

(* Mutant: every message brings a send job.                                *)
do_writeAlways == sendq' = sendq + 1 /\ Post("send")

(* do_write(): the first message in the queue brings a send job with it.   *)
do_write ==
  /\ sendq' = sendq + 1
  /\ IF sendq = 0 THEN Post("send") ELSE UNCHANGED <<ref, tasks>>

(* release() *)
Release ==
  /\ ref' = ref - 1
  /\ deleted' = (deleted \/ ref = 1)
-----------------------------------------------------------------------------
(* The loop: io events, then timers, then the jobs queued by then.         *)

(* epoll_wait() reports the socket, or does not.                           *)
Ready ==
  (IF "in" \in reg /\ (inbox > 0 \/ eof) THEN {"in"} ELSE {})
    \cup (IF "out" \in reg /\ room > 0 THEN {"out"} ELSE {})
    \cup (IF broken THEN {"err"} ELSE {})

Watched == sock = "open" /\ active = 1

(* handle_io_events(): errors alone, else input before output.             *)
PollEvent ==
  /\ phase = "poll" /\ Idle
  /\ Watched /\ Ready # {}
  /\ phase' = "timers"
  /\ \/ /\ Dead
        /\ UNCHANGED <<todo, bits, sock>>
     \/ /\ ~Dead /\ "err" \in Ready
        /\ bits' = bits \cup {"error"}
        /\ sock' = "closed"
        /\ todo' = <<"on_error">>
     \/ /\ ~Dead /\ "err" \notin Ready
        /\ todo' = (IF "in" \in Ready THEN <<"readable">> ELSE <<>>)
                     \o (IF "out" \in Ready THEN <<"writeable">> ELSE <<>>) \o <<"register">>
        /\ UNCHANGED <<bits, sock>>
  /\ UNCHANGED <<ref, sendq, reg, tasks, batch, active, deleted, upc, kernelVars, told, calls, resumed>>

PollNothing ==
  /\ phase = "poll" /\ Idle
  /\ ~(Watched /\ Ready # {})
  /\ phase' = "timers"
  /\ UNCHANGED <<bits, ref, sendq, reg, sock, tasks, batch, todo, active, deleted, upc,
                 kernelVars, told, calls, resumed>>

(* recv_time_out_filter::on_timer(): its timer runs from on_accepted() or  *)
(* on_connected() to on_error().                                           *)
RecvTimeout ==
  /\ AsyncErrors
  /\ phase = "timers" /\ Idle
  /\ active = 1 /\ told["on_error"] = 0
  /\ error_propagation
  /\ UNCHANGED <<sendq, reg, sock, batch, phase, todo, active, deleted, upc, kernelVars, told, calls, resumed>>

Splice ==
  /\ phase = "timers" /\ Idle
  /\ phase' = "tasks"
  /\ batch' = tasks
  /\ tasks' = <<>>
  /\ UNCHANGED <<bits, ref, sendq, reg, sock, todo, active, deleted, upc, kernelVars, told, calls, resumed>>

NextIteration ==
  /\ phase = "tasks" /\ Idle
  /\ batch = <<>>
  /\ phase' = "poll"
  /\ UNCHANGED <<bits, ref, sendq, reg, sock, tasks, batch, todo, active, deleted, upc,
                 kernelVars, told, calls, resumed>>

(* What each job does: the one-shot jobs of write() and continue_read(),   *)
(* _handle_send, _handle_close and _handle_error_proagation.               *)
Handler(job) ==
  CASE job = "connected" -> <<"announce">>
    [] job = "write" -> <<"do_write", "release">>
    [] job = "register" -> <<"register", "release">>
    [] job = "send" -> IF Dead THEN <<"release">> ELSE <<"writeable", "register", "release">>
    [] job = "close" -> <<"closing", "on_closed", "leave", "release">>
    [] job = "error" -> <<"on_error", "release">>

RunJob ==
  /\ phase = "tasks" /\ Idle
  /\ batch # <<>>
  /\ batch' = Tail(batch)
  /\ todo' = Handler(Head(batch))
  /\ sock' = IF Head(batch) = "error" THEN "closed" ELSE sock
  /\ UNCHANGED <<bits, ref, sendq, reg, tasks, phase, active, deleted, upc, kernelVars, told, calls, resumed>>

(* Mutant: the open channel does not hold itself.                          *)
FireOnConnectedUnretained ==
  /\ Is("announce")
  /\ reg' = Wanted(bits, sendq)
  /\ active' = active + 1
  /\ Then(<<"on_connected">>)
  /\ UNCHANGED <<bits, ref, tasks, sendq, sock, batch, phase, deleted, upc, kernelVars, told, calls, resumed>>

(* fire_on_connected() and fire_on_accepted(): no other thread knows the   *)
(* channel yet.                                                            *)
FireOnConnected ==
  /\ Is("announce")
  /\ reg' = Wanted(bits, sendq)
  /\ \/ /\ ref' = ref + 1
        /\ UNCHANGED <<bits, tasks>>
     \/ /\ ref' = ref + 2                      \* epoll_ctl() failed
        /\ bits' = bits \cup {"error"}
        /\ Execute("error")
  /\ active' = active + 1
  /\ Then(<<"on_connected">>)
  /\ UNCHANGED <<sendq, sock, batch, phase, deleted, upc, kernelVars, told, calls, resumed>>
-----------------------------------------------------------------------------
(* The steps of the handlers.                                              *)

(* _register_handle(): another thread may close the channel while          *)
(* epoll_ctl() fails.                                                      *)
RegisterHandle ==
  /\ Is("register")
  /\ IF Dead
     THEN Done /\ UNCHANGED reg
     ELSE /\ reg' = Wanted(bits, sendq)
          /\ Done \/ (reg' # reg /\ Then(<<"register_failed">>))
  /\ UNCHANGED <<bits, ref, tasks, sendq, sock, batch, phase, active, deleted, upc, kernelVars, told, calls, resumed>>

RegisterFailed ==
  /\ Is("register_failed")
  /\ Done
  /\ error_propagation
  /\ UNCHANGED <<sendq, reg, sock, batch, phase, active, deleted, upc, kernelVars, told, calls, resumed>>

(* _handle_readable() *)
HandleReadable ==
  /\ Is("readable")
  /\ \/ /\ Dead \/ "pending" \in bits
        /\ Done
        /\ UNCHANGED <<bits, sock, inbox>>
     \/ /\ ~Dead /\ "pending" \notin bits
        /\ inbox > 0 /\ ~broken
        /\ inbox' = inbox - 1
        /\ Then(<<"on_read">>)
        /\ UNCHANGED <<bits, sock>>
     \/ /\ ~Dead /\ "pending" \notin bits
        /\ inbox = 0 \/ broken                 \* end of file or an error
        /\ FailNow
        /\ UNCHANGED inbox
  /\ UNCHANGED <<ref, sendq, reg, tasks, batch, phase, active, deleted, upc,
                 incoming, eof, room, broken, told, calls, resumed>>

(* _handle_writeable() with _send_remains()                                *)
HandleWriteable ==
  /\ Is("writeable")
  /\ \/ /\ Dead \/ sendq = 0
        /\ Done
        /\ UNCHANGED <<bits, sock, sendq, room>>
     \/ /\ ~Dead /\ sendq > 0 /\ ~broken
        /\ LET sent == IF sendq <= room THEN sendq ELSE room
           IN sendq' = sendq - sent /\ room' = room - sent
        /\ Then(<<"on_write">>)
        /\ UNCHANGED <<bits, sock>>
     \/ /\ ~Dead /\ sendq > 0 /\ broken
        /\ FailNow
        /\ UNCHANGED <<sendq, room>>
  /\ UNCHANGED <<ref, reg, tasks, batch, phase, active, deleted, upc,
                 inbox, incoming, eof, broken, told, calls, resumed>>

(* fire_do_write() *)
FireDoWrite ==
  /\ Is("do_write")
  /\ Done
  /\ IF Dead THEN UNCHANGED <<sendq, ref, tasks>> ELSE do_write
  /\ UNCHANGED <<bits, reg, sock, batch, phase, active, deleted, upc, kernelVars, told, calls, resumed>>

(* Mutant: on_error is called whether or not it was.                       *)
FireOnCloseUntested ==
  /\ Is("closing")
  /\ sock' = "closed"
  /\ bits' = bits \cup {"error"}
  /\ Then(<<"on_error">>)
  /\ UNCHANGED <<ref, sendq, reg, tasks, batch, phase, active, deleted, upc, kernelVars, told, calls, resumed>>

(* fire_on_close() up to on_closed()                                       *)
FireOnClose ==
  /\ Is("closing")
  /\ sock' = "closed"
  /\ bits' = bits \cup {"error"}
  /\ IF "error" \in bits THEN Done ELSE Then(<<"on_error">>)
  /\ UNCHANGED <<ref, sendq, reg, tasks, batch, phase, active, deleted, upc, kernelVars, told, calls, resumed>>

(* Mutant: the channel keeps its reference to itself.                      *)
LeaveRetained ==
  /\ Is("leave")
  /\ Done
  /\ active' = active - 1
  /\ UNCHANGED <<ref, deleted, bits, sendq, reg, sock, tasks, batch, phase, upc, kernelVars, told, calls, resumed>>

(* remove_active() and the release() at the end of fire_on_close()         *)
Leave ==
  /\ Is("leave")
  /\ Done
  /\ active' = active - 1
  /\ Release
  /\ UNCHANGED <<bits, sendq, reg, sock, tasks, batch, phase, upc, kernelVars, told, calls, resumed>>

ReleaseJob ==
  /\ Is("release")
  /\ Done
  /\ Release
  /\ UNCHANGED <<bits, sendq, reg, sock, tasks, batch, phase, active, upc, kernelVars, told, calls, resumed>>
-----------------------------------------------------------------------------
(* The filters: calls from a callback, and its return.                     *)
InCallback == ~Idle /\ Head(todo) \in Callbacks
NewCall == calls < MaxCalls /\ calls' = calls + 1

CallbackCloses ==
  /\ InCallback /\ NewCall
  /\ close
  /\ UNCHANGED <<sendq, reg, sock, batch, phase, todo, active, deleted, upc, kernelVars, told, resumed>>

CallbackWrites ==
  /\ InCallback /\ NewCall
  /\ Post("write")
  /\ UNCHANGED <<bits, sendq, reg, sock, batch, phase, todo, active, deleted, upc, kernelVars, told, resumed>>

(* filter::write_out_bound() down to do_write(), which tests no bits       *)
CallbackWritesDirectly ==
  /\ InCallback /\ Head(todo) \in DirectWrites /\ NewCall
  /\ do_write
  /\ UNCHANGED <<bits, reg, sock, batch, phase, todo, active, deleted, upc, kernelVars, told, resumed>>

CallbackFails ==
  /\ InCallback /\ NewCall
  /\ AsyncErrors \/ "close" \notin bits
  /\ error_propagation
  /\ UNCHANGED <<sendq, reg, sock, batch, phase, todo, active, deleted, upc, kernelVars, told, resumed>>

pending_read ==
  /\ Pausing /\ Is("on_read") /\ NewCall
  /\ bits' = bits \cup {"pending"}
  /\ UNCHANGED <<ref, sendq, reg, sock, loopVars, active, deleted, upc, kernelVars, told, resumed>>

(* continue_read(): the exclusive or with all bits but the pending one     *)
(* flips the others and leaves that one.                                   *)
continue_read ==
  /\ Pausing /\ Is("on_read") /\ NewCall
  /\ bits' = ({"error", "close"} \ bits) \cup (bits \cap {"pending"})
  /\ resumed' = TRUE
  /\ IF "pending" \in bits THEN Post("register") ELSE UNCHANGED <<ref, tasks>>
  /\ UNCHANGED <<sendq, reg, sock, batch, phase, todo, active, deleted, upc, kernelVars, told>>

(* on_connected() hands the channel to another thread, with a reference.   *)
CallbackShares ==
  /\ Is("on_connected")
  /\ \E u \in Users :
       /\ upc[u] = "out"
       /\ upc' = [upc EXCEPT ![u] = "idle"]
  /\ ref' = ref + 1
  /\ UNCHANGED <<bits, sendq, reg, sock, loopVars, active, deleted, kernelVars, told, calls, resumed>>

(* A filter closes the channel in on_error(), the last thing it does there.*)
CallbackReturns ==
  /\ InCallback
  /\ Done
  /\ IF Is("on_error") THEN close ELSE UNCHANGED <<bits, ref, tasks>>
  /\ told' = IF Head(todo) \in DOMAIN told THEN [told EXCEPT ![Head(todo)] = @ + 1] ELSE told
  /\ UNCHANGED <<sendq, reg, sock, batch, phase, active, deleted, upc, kernelVars, calls, resumed>>
-----------------------------------------------------------------------------
(* Another thread that holds a reference.  close() and error_propagation() *)
(* set their bit first and queue their job later.                          *)
UserStarts(u) ==
  /\ upc[u] = "idle" /\ NewCall
  /\ \/ /\ "close" \notin bits
        /\ bits' = bits \cup {"close"}
        /\ upc' = [upc EXCEPT ![u] = "closing"]
     \/ /\ AsyncErrors
        /\ "error" \notin bits
        /\ bits' = bits \cup {"error"}
        /\ upc' = [upc EXCEPT ![u] = "failing"]
     \/ /\ upc' = [upc EXCEPT ![u] = "writing"]
        /\ UNCHANGED bits
  /\ UNCHANGED <<ref, sendq, reg, sock, loopVars, active, deleted, kernelVars, told, resumed>>

UserPosts(u) ==
  /\ \/ upc[u] = "closing" /\ Post("close")
     \/ upc[u] = "failing" /\ Post("error")
     \/ upc[u] = "writing" /\ Post("write")
  /\ upc' = [upc EXCEPT ![u] = "idle"]
  /\ UNCHANGED <<bits, sendq, reg, sock, batch, phase, todo, active, deleted, kernelVars, told, calls, resumed>>

UserReleases(u) ==
  /\ upc[u] = "idle"
  /\ upc' = [upc EXCEPT ![u] = "out"]
  /\ Release
  /\ UNCHANGED <<bits, sendq, reg, sock, loopVars, active, kernelVars, told, calls, resumed>>

(* The peer and the network.                                               *)
PeerSends ==
  /\ sock = "open" /\ ~eof /\ incoming < MaxIn
  /\ incoming' = incoming + 1 /\ inbox' = inbox + 1
  /\ UNCHANGED <<bits, ref, sendq, reg, sock, loopVars, active, deleted, upc, eof, room, broken, told, calls, resumed>>

PeerReceives ==
  /\ sock = "open" /\ room < MaxRoom
  /\ room' = room + 1
  /\ UNCHANGED <<bits, ref, sendq, reg, sock, loopVars, active, deleted, upc,
                 inbox, incoming, eof, broken, told, calls, resumed>>

PeerCloses ==
  /\ sock = "open" /\ ~eof
  /\ eof' = TRUE
  /\ UNCHANGED <<bits, ref, sendq, reg, sock, loopVars, active, deleted, upc,
                 inbox, incoming, room, broken, told, calls, resumed>>

ConnectionBreaks ==
  /\ sock = "open" /\ ~broken
  /\ broken' = TRUE
  /\ UNCHANGED <<bits, ref, sendq, reg, sock, loopVars, active, deleted, upc,
                 inbox, incoming, eof, room, told, calls, resumed>>
-----------------------------------------------------------------------------
LoopStep ==
  \/ PollEvent \/ PollNothing \/ Splice \/ NextIteration
  \/ RunJob \/ FireOnConnected
  \/ RegisterHandle \/ RegisterFailed \/ HandleReadable \/ HandleWriteable \/ FireDoWrite
  \/ FireOnClose \/ Leave \/ ReleaseJob
  \/ CallbackReturns

FilterCall ==
  \/ CallbackCloses
  \/ CallbackWrites
  \/ CallbackWritesDirectly
  \/ CallbackFails
  \/ pending_read
  \/ continue_read
  \/ CallbackShares

Peer == PeerSends \/ PeerReceives \/ PeerCloses \/ ConnectionBreaks

Next ==
  \/ ~deleted /\ (LoopStep \/ RecvTimeout \/ FilterCall \/ Peer)
  \/ \E u \in Users : UserStarts(u) \/ UserPosts(u) \/ UserReleases(u)

(* The loop keeps running, callbacks return, and a thread finishes the     *)
(* call it is in and gives its reference back.                             *)
Fairness ==
  /\ WF_vars(~deleted /\ LoopStep)
  /\ \A u \in Users : WF_vars(UserPosts(u) \/ UserReleases(u))

Spec == Init /\ [][Next]_vars
FairSpec == Spec /\ Fairness
-----------------------------------------------------------------------------
(* Properties.                                                             *)
(*                                                                         *)
(* continue_read() ends the working life of a channel (finding in the      *)
(* README): what speaks of the state word and of what follows from it      *)
(* holds until the first call of it.                                       *)
Queued == batch \o tasks

(* The reference count is the number of those who will call release():     *)
(* jobs that wait, the job that runs, the open channel itself, and the     *)
(* threads that were given the channel.  None is lost, so the channel is   *)
(* deleted, and none is given back twice, so it is not deleted too early.  *)
RefBalance ==
  ref = Count(Queued, Jobs \ {"connected"}) + Count(todo, {"release"}) + active
          + Cardinality({u \in Users : upc[u] # "out"})

(* Nothing runs on a deleted channel: no job of it is queued or running,   *)
(* no thread holds it, and the loop no longer waits for it.                *)
NoUseAfterFree ==
  deleted /\ ~resumed =>
    /\ Queued = <<>> /\ todo = <<>> /\ active = 0
    /\ \A u \in Users : upc[u] = "out"

(* The jobs that are members of the channel are linked into the loop's     *)
(* list, which a second insertion would corrupt: each is in it once.       *)
LinkedOnce == ~resumed => \A job \in {"send", "close", "error"} : Count(Queued, {job}) <= 1

(* What the filters see is what every channel promises them: on_connected  *)
(* first, on_error and on_closed once each and before the deletion, input  *)
(* and output only before both.                                            *)
Contract == INSTANCE ChannelContract WITH
  callback <- IF InCallback THEN Head(todo) ELSE "none",
  begun    <- {c \in DOMAIN told : told[c] > 0 \/ Is(c)}
                \cup (IF Count(Queued, {"connected"}) + Count(todo, {"announce"}) > 0
                      THEN {} ELSE {"on_connected"})
KeepsContract == Contract!Init /\ [][Contract!Next \/ resumed']_(Contract!vars)

(* Between its handlers a live channel is watched for what it waits for:   *)
(* input exactly unless reading is paused, and output, or a send job, as   *)
(* long as messages are queued.                                            *)
WatchedForWork ==
  Idle /\ active = 1 /\ ~Dead =>
    /\ "in" \in reg <=> "pending" \notin bits
    /\ sendq > 0 => "out" \in reg \/ Count(Queued, {"send"}) > 0

(* continue_read() in on_read, where channel_epoll.hpp asks for it, ends   *)
(* the pause and neither closes the channel nor fails it.                  *)
ContinueReadResumes ==
  [][continue_read => "pending" \notin bits' /\ bits' \subseteq bits]_vars

(* A channel that fails or is closed is deleted.                           *)
Deleted == Dead ~> deleted \/ resumed
=============================================================================
