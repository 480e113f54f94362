-------------------------- MODULE ChannelConnector --------------------------
(***************************************************************************)
(* tdk::io::ip::tcp::channel_connector: one connector that tries a list of *)
(* addresses one after the other, with the timer that gives up on each,    *)
(* the loop that runs its handlers, the kernel's side of the socket, and   *)
(* an application that asks again when a request has failed or when the    *)
(* connection it got is closed.                                            *)
(*                                                                         *)
(* connect() is called in the loop's thread, as in the tests.              *)
(***************************************************************************)
EXTENDS Integers

CONSTANTS
  Platforms,      \* builds to consider, of "linux" and "windows"
  NAddr,          \* addresses in _addrs
  TimeOut,        \* _time_out is not zero
  RegisterFails,  \* registering the socket with the poller may fail
  Retry,          \* callbacks in which the application asks again
  MaxRequests     \* bound: calls of connect() and reconnect()

ASSUME ConnectorAssumption ==
  /\ Platforms \subseteq {"linux", "windows"}
  /\ NAddr \in Nat \ {0} /\ MaxRequests \in Nat \ {0}
  /\ TimeOut \in BOOLEAN /\ RegisterFails \in BOOLEAN
  /\ Retry \subseteq {"on_connect_fail", "on_closed"}

VARIABLES
  platform,   \* the build, which does not change
  index,      \* _addr_index
  fd,         \* what the descriptor in _fd stands for
  evt,        \* _on_connect.evt()
  watched,    \* the poller will report _fd to _on_connect, once
  queued,     \* _on_connect is in the loop's list of tasks
  taken,      \* run() has taken it from there
  timer,      \* _on_timer is in the scheduler
  expired,    \* ... and its time has come
  active,     \* _active_handles
  count,      \* what run() will subtract from it
  pc,         \* where run() is
  callback,   \* the application's callback in progress
  requests,   \* requests made
  answers,    \* requests answered with a connection or on_connect_fail()
  failures    \* addresses that failed since the last request

vars == <<platform, index, fd, evt, watched, queued, taken, timer, expired, active, count,
          pc, callback, requests, answers, failures>>

(* _fd is "closed"; or "fresh", open without a connection under way; or    *)
(* "connecting", "connected" or "refused" in the kernel; or "given" to a   *)
(* channel, which closes its own copy and leaves a number that is "gone".  *)
TypeOK ==
  /\ platform \in Platforms
  /\ index \in 0 .. NAddr
  /\ fd \in {"closed", "fresh", "connecting", "connected", "refused", "given", "gone"}
  /\ evt \subseteq {"out", "err", "hup"}
  /\ watched \in BOOLEAN /\ queued \in BOOLEAN /\ taken \in BOOLEAN
  /\ timer \in BOOLEAN /\ expired \in BOOLEAN
  /\ active \in Nat /\ count \in Nat
  /\ pc \in {"main", "wait", "timers", "tasks", "returned"}
  /\ callback \in {"none", "on_connect_fail", "on_closed"}
  /\ requests \in 0 .. MaxRequests /\ answers \in 0 .. requests
  /\ failures \subseteq 1 .. NAddr

Init ==
  /\ platform \in Platforms
  /\ index = 0 /\ fd = "closed" /\ evt = {}
  /\ watched = FALSE /\ queued = FALSE /\ taken = FALSE
  /\ timer = FALSE /\ expired = FALSE
  /\ active = 0 /\ count = 0 /\ pc = "main" /\ callback = "none"
  /\ requests = 0 /\ answers = 0 /\ failures = {}
-----------------------------------------------------------------------------
One(b) == IF b THEN 1 ELSE 0
Linux == platform = "linux"
Timed == TimeOut /\ Linux

(* Mutant: only the first attempt has a timer.                             *)
UnderWayUntimed(start, failed, given) ==
  /\ \E j \in (start + 1) .. NAddr :
       /\ index' = j /\ failures' = failed \cup (start + 1) .. (j - 1)
  /\ fd' = "connecting" /\ evt' = {"out"} /\ watched' = TRUE
  /\ timer' = (Timed /\ start = 0) /\ expired' = FALSE
  /\ active' = active + 1 + One(Timed /\ start = 0) - given

(* The addresses after start are given to connect(addr) until an attempt   *)
(* is under way, which takes the place of `given' activity references.     *)
(* Windows has neither the event mask nor the timer.                       *)
UnderWay(start, failed, given) ==
  /\ \E j \in (start + 1) .. NAddr :
       /\ index' = j
       /\ failures' = failed \cup (start + 1) .. (j - 1)
  /\ fd' = "connecting" /\ watched' = TRUE
  /\ evt' = IF Linux THEN {"out"} ELSE {}
  /\ timer' = Timed /\ expired' = FALSE
  /\ active' = active + 1 + One(Timed) - given

(* None of them can be started.  A socket that failed after open_tcp() is  *)
(* left open, and one that could not be registered leaves its event mask.  *)
NoneLeft(start, failed, mask) ==
  /\ index' = NAddr
  /\ failures' = failed \cup (start + 1) .. NAddr
  /\ fd' \in IF start < NAddr THEN {"closed", "fresh"} ELSE {"closed"}
  /\ \/ evt' = mask
     \/ /\ Linux /\ RegisterFails /\ start < NAddr
        /\ fd' = "fresh" \/ start + 1 < NAddr
        /\ evt' = {"out"}
  /\ watched' = FALSE /\ timer' = FALSE /\ expired' = FALSE

(* Mutant: the index is not set back.                                      *)
connectFromIndex ==
  /\ requests < MaxRequests
  /\ requests' = requests + 1
  /\ \/ UnderWay(index, {}, 0) /\ UNCHANGED queued
     \/ /\ NoneLeft(index, {}, evt)
        /\ active' = active + 2 /\ queued' = TRUE

(* connect(addrs, builder) and reconnect(): when no attempt can be started *)
(* the handler of the connect event is queued as a task.                   *)
connect ==
  /\ requests < MaxRequests
  /\ requests' = requests + 1
  /\ \/ UnderWay(0, {}, 0) /\ UNCHANGED queued
     \/ /\ NoneLeft(0, {}, evt)
        /\ active' = active + 2 /\ queued' = TRUE

(* The application connects, then calls run().                             *)
MainConnects ==
  /\ pc = "main" /\ requests = 0
  /\ connect
  /\ UNCHANGED <<platform, taken, count, pc, callback, answers>>

MainRuns ==
  /\ pc = "main" /\ requests > 0
  /\ pc' = "wait"
  /\ UNCHANGED <<platform, index, fd, evt, watched, queued, taken, timer, expired, active, count,
                 callback, requests, answers, failures>>
-----------------------------------------------------------------------------
(* The next address, or the end of the request.                            *)
GoOn(failed, mask, given) ==
  \/ /\ UnderWay(index, failed, given)
     /\ UNCHANGED <<callback, answers>>
  \/ /\ NoneLeft(index, failed, mask)
     /\ active' = active - given
     /\ callback' = "on_connect_fail" /\ answers' = answers + 1

(* on_connnect() refuses the connection or no pipeline is built for it:    *)
(* the descriptor stays in _fd.  Or a channel takes it, and the loop waits *)
(* for the channel.                                                        *)
Connected(mask, given) ==
  /\ evt' = mask
  /\ watched' = FALSE /\ timer' = FALSE /\ expired' = FALSE
  /\ \/ fd' = fd /\ active' = active - given
     \/ fd' = "given" /\ active' = active - given + 1
  /\ answers' = answers + 1
  /\ UNCHANGED <<index, callback, failures>>

(* Mutant: the timer is not cancelled.                                     *)
on_connect_handlerUncancelled(mask, error) ==
  IF error
  THEN GoOn(failures \cup {index}, mask, 1 + One(timer))
  ELSE /\ evt' = mask /\ watched' = FALSE /\ UNCHANGED <<timer, expired>>
       /\ fd' = "given" /\ active' = active
       /\ answers' = answers + 1
       /\ UNCHANGED <<index, callback, failures>>
(* on_connect_handler(): the next address after an error.                  *)
on_connect_handler(mask, error) ==
  IF error THEN GoOn(failures \cup {index}, mask, 1 + One(timer))
           ELSE Connected(mask, 1 + One(timer))

(* What the handler takes for an error: on Linux a mask without EPOLLOUT,  *)
(* or else what the socket says of itself; on Windows what wait() or, for  *)
(* the queued task, connect() has put into the task.                       *)
Error(mask) == IF Linux THEN "out" \in mask => fd = "refused"
                        ELSE fd # "connected"

InLoop == callback = "none"

(* The masks epoll_wait() reports for the socket; none on Windows.         *)
Masks ==
  CASE fd = "connected" -> {IF Linux THEN {"out"} ELSE {}}
    [] fd = "refused"   -> IF Linux
                           THEN {{"out", "err", "hup"}, {"err", "hup"}, {"hup"}}
                           ELSE {{}}
    [] OTHER            -> {}

PollEvent ==
  /\ InLoop /\ pc = "wait" /\ watched
  /\ \E mask \in Masks : on_connect_handler(mask, Error(mask))
  /\ pc' = "timers"
  /\ UNCHANGED <<platform, queued, taken, count, requests>>

PollNothing ==
  /\ InLoop /\ pc = "wait"
  /\ pc' = "timers"
  /\ UNCHANGED <<platform, index, fd, evt, watched, queued, taken, timer, expired, active, count,
                 callback, requests, answers, failures>>

(* Mutant: the attempt's activity is kept.                                 *)
FireTimerRetained ==
  /\ InLoop /\ pc = "timers" /\ timer /\ expired
  /\ GoOn(failures \cup {index}, evt, 0)
  /\ count' = count + 1
  /\ UNCHANGED <<platform, queued, taken, pc, requests>>

(* scheduler::schedule() and on_timer_handler() *)
FireTimer ==
  /\ InLoop /\ pc = "timers" /\ timer /\ expired
  /\ GoOn(failures \cup {index}, evt, 1)
  /\ count' = count + 1
  /\ UNCHANGED <<platform, queued, taken, pc, requests>>

TimersFired ==
  /\ InLoop /\ pc = "timers" /\ ~(timer /\ expired)
  /\ taken' = queued /\ queued' = FALSE
  /\ pc' = "tasks"
  /\ UNCHANGED <<platform, index, fd, evt, watched, timer, expired, active, count,
                 callback, requests, answers, failures>>

RunTask ==
  /\ InLoop /\ pc = "tasks" /\ taken
  /\ on_connect_handler(evt, Error(evt))
  /\ taken' = FALSE /\ count' = count + 1
  /\ UNCHANGED <<platform, queued, pc, requests>>

(* fetch_sub( cnt ), and the condition of run()'s loop *)
Account ==
  /\ InLoop /\ pc = "tasks" /\ ~taken
  /\ active' = active - count /\ count' = 0
  /\ pc' = IF active' # 0 THEN "wait" ELSE "returned"
  /\ UNCHANGED <<platform, index, fd, evt, watched, queued, taken, timer, expired,
                 callback, requests, answers, failures>>

(* The channel the descriptor was given to closes it.                      *)
ChannelCloses ==
  /\ InLoop /\ pc = "wait" /\ fd = "given"
  /\ fd' = "gone"
  /\ active' = active - 1
  /\ callback' = "on_closed"
  /\ pc' = "timers"
  /\ UNCHANGED <<platform, index, evt, watched, queued, taken, timer, expired, count,
                 requests, answers, failures>>

(* In a callback the application may ask again.                            *)
CallbackConnects ==
  /\ callback \in Retry
  /\ connect
  /\ callback' = "none"
  /\ UNCHANGED <<platform, taken, count, pc, answers>>

CallbackReturns ==
  /\ callback # "none"
  /\ callback' = "none"
  /\ UNCHANGED <<platform, index, fd, evt, watched, queued, taken, timer, expired, active, count,
                 pc, requests, answers, failures>>
-----------------------------------------------------------------------------
(* The kernel: the peer answers or refuses, and may reset the connection,  *)
(* which Linux tells the handler that asks; on Windows the answer is in    *)
(* the packet of the operation.                                            *)
PeerAnswers ==
  /\ \/ fd = "connecting" /\ fd' \in {"connected", "refused"}
     \/ Linux /\ fd = "connected" /\ watched /\ fd' = "refused"
  /\ UNCHANGED <<platform, index, evt, watched, queued, taken, timer, expired, active, count,
                 pc, callback, requests, answers, failures>>

Tick ==
  /\ timer /\ ~expired
  /\ expired' = TRUE
  /\ UNCHANGED <<platform, index, fd, evt, watched, queued, taken, timer, active, count,
                 pc, callback, requests, answers, failures>>

LoopStep ==
  \/ PollEvent \/ PollNothing
  \/ FireTimer \/ TimersFired
  \/ RunTask \/ Account
  \/ CallbackReturns

Next ==
  \/ MainConnects \/ MainRuns
  \/ LoopStep
  \/ ChannelCloses \/ CallbackConnects
  \/ PeerAnswers \/ Tick

(* The loop and the clock go on; the peer may stay silent for ever.        *)
Fairness == WF_vars(MainRuns \/ LoopStep) /\ WF_vars(Tick)

Spec == Init /\ [][Next]_vars
FairSpec == Spec /\ Fairness
-----------------------------------------------------------------------------
(* Properties.                                                             *)

(* The loop's activity count is exactly what run() has to wait for: the    *)
(* attempt under way, the timer, the task with the activity it gives back, *)
(* the channel, and what this iteration has yet to subtract.               *)
HandleBalance ==
  active = count + One(watched) + One(timer) + 2 * One(queued \/ taken) + One(fd = "given")

(* An unanswered request has exactly one thing that will answer it: a      *)
(* watched socket or a task; and a timer runs only for a watched socket.   *)
OneAnswer ==
  /\ requests - answers = One(watched) + One(queued) + One(taken)
  /\ timer => watched

(* on_connect_fail() is called only when every address has failed.         *)
FailsOnlyAfterAll == callback = "on_connect_fail" => failures = 1 .. NAddr

(* The connector never closes the descriptor of a channel: no timer, event *)
(* or task of an earlier attempt is left that would.  The number that the  *)
(* channel leaves in _fd, which may name another socket by then, is closed *)
(* by a request that the application makes in on_closed(), and never else. *)
ClosesOnlyItsOwn ==
  [][/\ fd = "given" => fd' \in {"given", "gone"}
     /\ fd = "gone" => fd' = "gone" \/ (callback = "on_closed" /\ requests' > requests)]_vars

(* A channel is made of a socket that is connected.                        *)
ConnectedIsConnected ==
  [][fd # "given" /\ fd' = "given" => fd = "connected"]_vars

(* With a timer every request is answered, whatever the peer does.         *)
Answered == Timed /\ requests # answers ~> requests = answers
=============================================================================
