-------------------------- MODULE ChannelAcceptor ---------------------------
(***************************************************************************)
(* tdk::io::ip::tcp::channel_acceptor on both platforms: the listening     *)
(* socket, the accept task and the activity it holds, the channels made of *)
(* the connections, and run() of the one loop that serves them all.        *)
(*                                                                         *)
(* On Linux the socket is watched and each event accepts what there is; on *)
(* Windows one AcceptEx() is outstanding, and its handler posts the next.  *)
(***************************************************************************)
EXTENDS Integers

CONSTANTS
  Platforms,    \* builds to consider, of "linux" and "windows"
  Kept,         \* activity the application itself holds in the loop
  Closes,       \* the application closes the acceptor, in the loop's thread
  SocketFails,  \* socket() for the next AcceptEx() may fail
  MaxArrivals,  \* bound: connections
  MaxFailures   \* bound: accept() or AcceptEx() or socket() that fail

ASSUME AcceptorAssumption ==
  /\ Platforms \subseteq {"linux", "windows"}
  /\ Closes \in BOOLEAN /\ SocketFails \in BOOLEAN
  /\ Kept \in Nat /\ MaxArrivals \in Nat /\ MaxFailures \in Nat

VARIABLES
  platform,  \* the build, which does not change
  fd,        \* _fd: "closed", "open", or "shut" once it was open
  backlog,   \* connections that wait in the kernel
  arrivals,  \* connections that came
  request,   \* AcceptEx(): "none", "pending", "completed" or "failed";
             \* or _on_accept is a task that is "queued" or "taken"
  jobs,      \* queued fire_on_accepted()
  batch,     \* those that run() has taken
  channels,  \* open channels
  active,    \* _active_handles
  count,     \* what run() will subtract from it
  pc,        \* where run() is
  failures,  \* failures so far
  starved    \* requests there was no socket for

vars == <<platform, fd, backlog, arrivals, request, jobs, batch, channels,
          active, count, pc, failures, starved>>

TypeOK ==
  /\ platform \in Platforms
  /\ fd \in {"closed", "open", "shut"}
  /\ arrivals \in 0 .. MaxArrivals /\ backlog \in 0 .. arrivals
  /\ request \in {"none", "pending", "completed", "failed", "queued", "taken"}
  /\ jobs \in Nat /\ batch \in Nat /\ channels \in Nat /\ count \in Nat
  /\ active \in Int
  /\ pc \in {"main", "wait", "accepting", "timers", "tasks", "returned"}
  /\ failures \in 0 .. MaxFailures /\ starved \in 0 .. failures

Init ==
  /\ platform \in Platforms
  /\ fd = "closed" /\ backlog = 0 /\ arrivals = 0
  /\ request = "none"
  /\ jobs = 0 /\ batch = 0 /\ channels = 0
  /\ active = Kept /\ count = 0 /\ pc = "main" /\ failures = 0
  /\ starved = 0
-----------------------------------------------------------------------------
Linux == platform = "linux"
CanFail == failures < MaxFailures /\ failures' = failures + 1

(* Mutant: a request that is pending holds no activity.                    *)
do_acceptUncounted(listening, held) ==
  /\ listening /\ request' = "pending"
  /\ active' = active + held /\ UNCHANGED <<failures, starved>>

(* do_accept(), when `held' is added to the activity besides.  The request *)
(* is pending; or AcceptEx() fails, as it always does on a closed socket,  *)
(* and the handler is queued; or there is no new descriptor: the handler is*)
(* queued, with the old one and without the activity that it gives back.   *)
do_accept(listening, held) ==
  \/ /\ listening /\ request' = "pending"
     /\ active' = active + held + 1 /\ UNCHANGED <<failures, starved>>
  \/ /\ IF listening THEN CanFail ELSE UNCHANGED failures
     /\ request' = "queued"
     /\ active' = active + held + 2 /\ UNCHANGED starved
  \/ /\ SocketFails /\ CanFail
     /\ request' = "queued"
     /\ active' = active + held + 1 /\ starved' = starved + 1

(* open() listens; the application then calls run(). *)
Open ==
  /\ pc = "main"
  /\ fd' = "open" /\ pc' = "wait"
  /\ IF Linux
     THEN active' = active + 1 /\ UNCHANGED <<request, failures, starved>>
     ELSE do_accept(TRUE, 0)
  /\ UNCHANGED <<platform, backlog, arrivals, jobs, batch, channels, count>>
-----------------------------------------------------------------------------
(* Linux: the handler accepts until accept() fails, for want of            *)
(* connections or otherwise, and gives back an activity.                   *)
PollReadable ==
  /\ Linux /\ pc = "wait" /\ fd = "open" /\ backlog > 0
  /\ pc' = "accepting"
  /\ UNCHANGED <<platform, fd, backlog, arrivals, request, jobs, batch, channels,
                 active, count, failures, starved>>

(* A connection is refused by condition() or by the builder, or a channel  *)
(* is made and the job that announces it is queued.                        *)
AcceptOne ==
  /\ pc = "accepting" /\ backlog > 0
  /\ backlog' = backlog - 1
  /\ \/ UNCHANGED <<jobs, active>>
     \/ jobs' = jobs + 1 /\ active' = active + 1
  /\ UNCHANGED <<platform, fd, arrivals, request, batch, channels, count, pc, failures, starved>>

AcceptNoMore ==
  /\ pc = "accepting"
  /\ IF backlog > 0 THEN CanFail ELSE UNCHANGED failures
  /\ active' = active - 1
  /\ pc' = "timers"
  /\ UNCHANGED <<platform, fd, backlog, arrivals, request, jobs, batch, channels, count, starved>>

(* Windows: a failed request's descriptor is closed, that of a completed   *)
(* one refused and closed or given to a channel; then the next is posted.  *)
(* The reference the handler gives back at its end is part of `held'.      *)
on_accept_handler(failed) ==
  \/ do_accept(fd = "open", -1) /\ UNCHANGED jobs
  \/ ~failed /\ do_accept(fd = "open", 0) /\ jobs' = jobs + 1

(* Mutant: the handler does not post the next request.                     *)
PollCompletionOnce ==
  /\ pc = "wait" /\ request \in {"completed", "failed"}
  /\ request' = "none" /\ active' = active - 1
  /\ pc' = "timers"
  /\ UNCHANGED <<platform, fd, backlog, arrivals, jobs, batch, channels, count, failures, starved>>

PollCompletion ==
  /\ pc = "wait" /\ request \in {"completed", "failed"}
  /\ on_accept_handler(request = "failed")
  /\ pc' = "timers"
  /\ UNCHANGED <<platform, fd, backlog, arrivals, batch, channels, count>>

PollNothing ==
  /\ pc = "wait"
  /\ ~(Linux /\ fd = "open" /\ backlog > 0) /\ request \notin {"completed", "failed"}
  /\ pc' = "timers"
  /\ UNCHANGED <<platform, fd, backlog, arrivals, request, jobs, batch, channels,
                 active, count, failures, starved>>

(* close() in the loop's thread: the kernel drops the connections that     *)
(* wait, and aborts the request.                                           *)
close ==
  /\ Closes /\ pc = "timers" /\ fd = "open"
  /\ fd' = "shut"
  /\ active' = active - 1
  /\ backlog' = 0
  /\ request' = IF request = "pending" THEN "failed" ELSE request
  /\ UNCHANGED <<platform, arrivals, jobs, batch, channels, count, pc, failures, starved>>

Splice ==
  /\ pc = "timers"
  /\ batch' = jobs /\ jobs' = 0
  /\ request' = IF request = "queued" THEN "taken" ELSE request
  /\ pc' = "tasks"
  /\ UNCHANGED <<platform, fd, backlog, arrivals, channels, active, count, failures, starved>>

(* The queued handler, whose error is set.                                 *)
RunHandler ==
  /\ pc = "tasks" /\ request = "taken"
  /\ on_accept_handler(TRUE)
  /\ count' = count + 1
  /\ UNCHANGED <<platform, fd, backlog, arrivals, batch, channels, pc>>

(* fire_on_accepted() in a job: the channel holds an activity of its own.  *)
RunJob ==
  /\ pc = "tasks" /\ batch > 0
  /\ batch' = batch - 1 /\ count' = count + 1
  /\ channels' = channels + 1 /\ active' = active + 1
  /\ UNCHANGED <<platform, fd, backlog, arrivals, request, jobs, pc, failures, starved>>

Account ==
  /\ pc = "tasks" /\ batch = 0 /\ request # "taken"
  /\ active' = active - count /\ count' = 0
  /\ pc' = IF active' # 0 THEN "wait" ELSE "returned"
  /\ UNCHANGED <<platform, fd, backlog, arrivals, request, jobs, batch, channels, failures, starved>>

ChannelCloses ==
  /\ pc = "wait" /\ channels > 0
  /\ channels' = channels - 1 /\ active' = active - 1
  /\ pc' = "timers"
  /\ UNCHANGED <<platform, fd, backlog, arrivals, request, jobs, batch, count, failures, starved>>
-----------------------------------------------------------------------------
(* The kernel and the peers.                                               *)
Arrives ==
  /\ fd = "open" /\ arrivals < MaxArrivals
  /\ arrivals' = arrivals + 1 /\ backlog' = backlog + 1
  /\ UNCHANGED <<platform, fd, request, jobs, batch, channels, active, count, pc, failures, starved>>

(* AcceptEx() takes a connection, or is told of one that was reset.        *)
Completes ==
  /\ request = "pending" /\ backlog > 0
  /\ backlog' = backlog - 1
  /\ \/ request' = "completed" /\ UNCHANGED failures
     \/ request' = "failed" /\ CanFail
  /\ UNCHANGED <<platform, fd, arrivals, jobs, batch, channels, active, count, pc, starved>>

LoopStep ==
  \/ Open
  \/ PollReadable \/ AcceptOne \/ AcceptNoMore
  \/ PollCompletion \/ PollNothing
  \/ Splice \/ RunHandler \/ RunJob \/ Account

Next ==
  \/ LoopStep \/ close \/ ChannelCloses
  \/ Arrives \/ Completes

(* The loop goes on, and the kernel completes a request when it can.       *)
Fairness == WF_vars(LoopStep) /\ WF_vars(Completes)

Spec == Init /\ [][Next]_vars
FairSpec == Spec /\ Fairness
-----------------------------------------------------------------------------
(* Properties.                                                             *)

(* run() does not return while the acceptor is open.                       *)
OpenKeepsLoop == fd = "open" => pc # "returned"

(* What the accept task holds.                                             *)
Owed == IF request = "none" THEN 0 ELSE IF request \in {"queued", "taken"} THEN 2 ELSE 1

(* On Windows the activity is what run() has to wait for: the application, *)
(* the request or the queued handler, the jobs and the channels; but close *)
(* and each request without a socket take one activity more than was added,*)
(* whatever is under way then, and no other step does.                     *)
HandleBalance ==
  ~Linux =>
    active = Kept + count + jobs + batch + channels + Owed
               - starved - (IF fd = "shut" THEN 1 ELSE 0)

(* While the acceptor is open every connection is taken from the kernel    *)
(* and refused or announced to its channel.                                *)
Waiting == backlog + jobs + batch + (IF request = "completed" THEN 1 ELSE 0)
Answered == fd = "open" /\ Waiting > 0 ~> fd # "open" \/ Waiting = 0
=============================================================================
