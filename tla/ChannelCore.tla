----------------------------- MODULE ChannelCore -----------------------------
(***************************************************************************)
(* What tdk::io::ip::tcp::channel on completion ports and both builds of   *)
(* tdk::io::ip::udp::channel have in common: the state word, the reference *)
(* count, the jobs in the loop, the calls of the filters and those of      *)
(* other threads.  The modules that extend this one add the socket.        *)
(*                                                                         *)
(* todo is what is left of the handler the loop's thread is in; a callback *)
(* at its head is in progress, and the filter in it may call the channel.  *)
(* on_connected stands for on_accepted and for the datagram's on_open too. *)
(***************************************************************************)
EXTENDS Counting

CONSTANTS
  Users,     \* other threads that use the channel
  Pausing,   \* filters use pending_read() and continue_read() in on_read
  MaxCalls   \* bound: calls of the channel's interface

ASSUME CoreAssumption ==
  IsFiniteSet(Users) /\ Pausing \in BOOLEAN /\ MaxCalls \in Nat

Callbacks == {"on_connected", "on_read", "on_write", "on_error", "on_closed"}
Jobs == {"connected", "write", "watch", "send", "close", "error"}

VARIABLES
  bits,     \* _state: subset of {"error", "close", "pending"}
  ref,      \* _ref_count
  sock,     \* _socket is "open" or "closed"
  active,   \* add_active() without remove_active()
  deleted,  \* delete this
  tasks,    \* the channel's jobs in the loop's list
  batch,    \* those of them that run() took
  phase,    \* where run() is: "wait", "timers" or "tasks"
  todo,     \* what is left of the handler the loop is in
  upc,      \* what each other thread is doing
  own,      \* retain() of fire_on_connected() without release() of fire_on_close()
  told,     \* which of on_error and on_closed have returned
  calls,    \* calls made so far
  resumed   \* continue_read() has been called

state == <<bits, ref, sock, active, deleted>>
loop == <<tasks, batch, phase, todo>>
history == <<told, calls, resumed>>
coreVars == <<state, loop, upc, own, history>>

CoreInit ==
  /\ bits = {} /\ ref = 0 /\ sock = "open" /\ active = 0 /\ deleted = FALSE
  /\ batch = <<>>
  /\ \/ phase = "wait" /\ tasks = <<"connected">> /\ todo = <<>>
     \/ phase = "timers" /\ tasks = <<>> /\ todo = <<"announce">>
  /\ upc = [u \in Users |-> "out"]
  /\ own = 0 /\ told = {} /\ calls = 0 /\ resumed = FALSE
-----------------------------------------------------------------------------
Is(step) == todo # <<>> /\ Head(todo) = step
Idle == todo = <<>>
Dead == bits \cap {"error", "close"} # {}

Then(steps) == todo' = steps \o Tail(todo)   \* the head is done, steps come next
Done == todo' = Tail(todo)

Execute(job) == tasks' = Append(tasks, job)

(* retain() and event_loop::execute() *)
Post(job) == ref' = ref + 1 /\ Execute(job)

(* error_propagation(): the first error is delivered by a later job.       *)
error_propagation ==
  IF "error" \in bits
  THEN UNCHANGED <<bits, ref, tasks>>
  ELSE bits' = bits \cup {"error"} /\ Post("error")

(* _error_propagation(): the first error is delivered at once, and what    *)
(* comes after it later.                                                   *)
FailNow(after) ==
  IF "error" \in bits
  THEN todo' = after \o Tail(todo) /\ UNCHANGED <<bits, sock>>
  ELSE bits' = bits \cup {"error"} /\ sock' = "closed" /\ Then(<<"on_error">> \o after)

(* close() in one piece *)
close ==
  IF "close" \in bits
  THEN UNCHANGED <<bits, ref, tasks>>
  ELSE bits' = bits \cup {"close"} /\ Post("close")

Release == ref' = ref - 1 /\ deleted' = (deleted \/ ref = 1)
-----------------------------------------------------------------------------
(* The loop, and the jobs.                                                 *)

Splice ==
  /\ phase = "timers" /\ Idle
  /\ phase' = "tasks" /\ batch' = tasks /\ tasks' = <<>>
  /\ UNCHANGED <<state, todo, upc, own, history>>

NextIteration ==
  /\ phase = "tasks" /\ Idle /\ batch = <<>>
  /\ phase' = "wait"
  /\ UNCHANGED <<state, tasks, batch, todo, upc, own, history>>

(* What each job does: the one-shot jobs of write() and continue_read(),   *)
(* _handle_send of a send that could not be started, _handle_close, and    *)
(* the job of error_propagation().                                         *)
Handler(job) ==
  CASE job = "connected" -> <<"announce">>
    [] job = "write" -> <<"do_write", "release">>
    [] job = "watch" -> <<"watch", "release">>
    [] job = "send" -> <<"send_failed", "give_back">>
    [] job = "close" -> <<"closing", "on_closed", "leave", "release">>
    [] job = "error" -> <<"on_error", "release">>

RunJob ==
  /\ phase = "tasks" /\ Idle /\ batch # <<>>
  /\ batch' = Tail(batch)
  /\ todo' = Handler(Head(batch))
  /\ sock' = IF Head(batch) = "error" THEN "closed" ELSE sock
  /\ UNCHANGED <<bits, ref, active, deleted, tasks, phase, upc, own, history>>

(* fire_on_close() up to on_closed() *)
FireOnClose ==
  /\ Is("closing")
  /\ sock' = "closed" /\ bits' = bits \cup {"error"}
  /\ IF "error" \in bits THEN Done ELSE Then(<<"on_error">>)
  /\ UNCHANGED <<ref, active, deleted, tasks, batch, phase, upc, own, history>>

ReleaseJob ==
  /\ Is("release")
  /\ Done /\ Release
  /\ UNCHANGED <<bits, sock, active, tasks, batch, phase, upc, own, history>>
-----------------------------------------------------------------------------
(* The filters: calls from a callback, and its return.  "rest" is what is  *)
(* left of a callback in which on_error was called.                        *)
InCallback == ~Idle /\ Head(todo) \in Callbacks \cup {"rest"}
NewCall == calls < MaxCalls /\ calls' = calls + 1

CallbackCloses ==
  /\ InCallback /\ NewCall
  /\ close
  /\ UNCHANGED <<sock, active, deleted, batch, phase, todo, upc, own, told, resumed>>

CallbackWrites ==
  /\ InCallback /\ NewCall
  /\ Post("write")
  /\ UNCHANGED <<bits, sock, active, deleted, batch, phase, todo, upc, own, told, resumed>>

CallbackFails ==
  /\ InCallback /\ NewCall
  /\ error_propagation
  /\ UNCHANGED <<sock, active, deleted, batch, phase, todo, upc, own, told, resumed>>

pending_read ==
  /\ Pausing /\ Is("on_read") /\ NewCall
  /\ bits' = bits \cup {"pending"}
  /\ UNCHANGED <<ref, sock, active, deleted, loop, upc, own, told, resumed>>

(* continue_read(): the exclusive or with all bits but the pending one.    *)
continue_read ==
  /\ Pausing /\ Is("on_read") /\ NewCall
  /\ bits' = ({"error", "close"} \ bits) \cup (bits \cap {"pending"})
  /\ IF "pending" \in bits THEN Post("watch") ELSE UNCHANGED <<ref, tasks>>
  /\ resumed' = TRUE
  /\ UNCHANGED <<sock, active, deleted, batch, phase, todo, upc, own, told>>

(* on_connected() hands the channel to another thread, with a reference.   *)
CallbackShares ==
  /\ Is("on_connected")
  /\ \E u \in Users : upc[u] = "out" /\ upc' = [upc EXCEPT ![u] = "idle"]
  /\ ref' = ref + 1
  /\ UNCHANGED <<bits, sock, active, deleted, loop, own, history>>

(* A filter closes the channel in on_error(), the last thing it does there.*)
CallbackReturns ==
  /\ InCallback
  /\ Done
  /\ IF Is("on_error") THEN close ELSE UNCHANGED <<bits, ref, tasks>>
  /\ told' = told \cup ({Head(todo)} \cap {"on_error", "on_closed"})
  /\ UNCHANGED <<sock, active, deleted, batch, phase, upc, own, calls, resumed>>
-----------------------------------------------------------------------------
(* Another thread that holds a reference.  close() and error_propagation() *)
(* set their bit first and queue their job later.                          *)
UserStarts(u) ==
  /\ upc[u] = "idle" /\ NewCall
  /\ \/ /\ "close" \notin bits /\ bits' = bits \cup {"close"}
        /\ upc' = [upc EXCEPT ![u] = "closing"]
     \/ /\ "error" \notin bits /\ bits' = bits \cup {"error"}
        /\ upc' = [upc EXCEPT ![u] = "failing"]
     \/ upc' = [upc EXCEPT ![u] = "writing"] /\ UNCHANGED bits
  /\ UNCHANGED <<ref, sock, active, deleted, loop, own, told, resumed>>

UserPosts(u) ==
  /\ \/ upc[u] = "closing" /\ Post("close")
     \/ upc[u] = "failing" /\ Post("error")
     \/ upc[u] = "writing" /\ Post("write")
  /\ upc' = [upc EXCEPT ![u] = "idle"]
  /\ UNCHANGED <<bits, sock, active, deleted, batch, phase, todo, own, history>>

UserReleases(u) ==
  /\ upc[u] = "idle"
  /\ upc' = [upc EXCEPT ![u] = "out"]
  /\ Release
  /\ UNCHANGED <<bits, sock, active, loop, own, history>>

CoreLoopStep ==
  \/ Splice \/ NextIteration
  \/ RunJob \/ FireOnClose \/ ReleaseJob
  \/ CallbackReturns

CoreCall ==
  \/ CallbackCloses \/ CallbackWrites \/ CallbackFails
  \/ pending_read \/ continue_read
  \/ CallbackShares

UserStep == \E u \in Users : UserStarts(u) \/ UserPosts(u) \/ UserReleases(u)
-----------------------------------------------------------------------------
Queued == batch \o tasks

(* The jobs that hold a reference, and the threads that do.                *)
JobsHeld == Count(Queued, Jobs \ {"connected", "send"})
UsersHeld == Cardinality({u \in Users : upc[u] # "out"})

(* What the filters see, in the terms of the contract.                     *)
Contract == INSTANCE ChannelContract WITH
  callback <- IF ~Idle /\ Head(todo) \in Callbacks THEN Head(todo) ELSE "none",
  begun    <- told \cup ({"on_error", "on_closed"} \cap {IF Idle THEN "none" ELSE Head(todo)})
                \cup (IF Count(Queued, {"connected"}) + Count(todo, {"announce"}) > 0
                      THEN {} ELSE {"on_connected"})

(* Properties that do not depend on the socket.  continue_read() ends the  *)
(* working life of a channel, as in TcpChannel: they hold up to its first  *)
(* call.                                                                   *)

(* The filters see what every channel promises them: on_connected first,   *)
(* on_error and on_closed once each and before the deletion, input and     *)
(* output only before both; even if on_error comes inside a callback.      *)
KeepsContract == Contract!Init /\ [][Contract!Next \/ resumed']_(Contract!vars)

(* A channel that fails or is closed is deleted.                           *)
Deleted == Dead ~> deleted \/ resumed
=============================================================================
