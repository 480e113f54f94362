---------------------------- MODULE SendRemains -----------------------------
(***************************************************************************)
(* The bytes of tdk::io::ip::tcp::channel's output on epoll: do_write()    *)
(* queues messages, and _send_remains() gives the queue to writev() in an  *)
(* array of buffers until the socket takes no more.                        *)
(*                                                                         *)
(* A byte is the pair of its message and its place there.  TcpChannel has  *)
(* the same queue as a number of messages, with everything around it.      *)
(***************************************************************************)
EXTENDS Integers, Sequences, SequencesExt

CONSTANTS
  Slots,        \* buffer_adapter::k_buffer_size
  Lengths,      \* lengths of messages
  Room,         \* bytes the socket's send buffer takes
  Refills,      \* the peer may read while _send_remains() runs
  MaxMessages   \* bound: messages

ASSUME SendAssumption ==
  /\ Slots \in Nat \ {0} /\ Room \in Nat \ {0} /\ MaxMessages \in Nat
  /\ Lengths \subseteq Nat
  /\ Refills \in BOOLEAN

VARIABLES
  queue,     \* _send_queue: the unread rest of each message
  job,       \* _on_send is in the loop's list of tasks
  buf,       \* the array of buffers
  write,     \* writesize
  total,     \* total_write
  room,      \* room in the socket's send buffer
  wire,      \* bytes the socket took
  pushed,    \* bytes the filters wrote
  told,      \* bytes on_write() told the filters of
  messages,  \* messages so far
  pc         \* where _send_remains() is

vars == <<queue, job, buf, write, total, room, wire, pushed, told, messages, pc>>

Init ==
  /\ queue = <<>> /\ job = FALSE
  /\ buf = <<>> /\ write = 0 /\ total = 0 /\ room = Room
  /\ wire = <<>> /\ pushed = <<>> /\ told = 0 /\ messages = 0 /\ pc = "out"
-----------------------------------------------------------------------------
Lesser(a, b) == IF a < b THEN a ELSE b
First(seq, n) == SubSeq(seq, 1, n)
Rest(seq, n) == SubSeq(seq, n + 1, Len(seq))

(* do_write(): the first message of a queue brings a send job. *)
do_write ==
  /\ pc = "out" /\ messages < MaxMessages
  /\ \E len \in Lengths :
       LET msg == [k \in 1 .. len |-> <<messages + 1, k>>]
       IN  queue' = Append(queue, msg) /\ pushed' = pushed \o msg
  /\ messages' = messages + 1
  /\ job' = (job \/ queue = <<>>)
  /\ UNCHANGED <<buf, write, total, room, wire, told, pc>>

(* Mutant: the array of buffers is kept from call to call.                 *)
EnterKept ==
  /\ pc = "out" /\ queue # <<>>
  /\ \/ job /\ job' = FALSE
     \/ room > 0 /\ UNCHANGED job
  /\ total' = 0
  /\ pc' = "fill"
  /\ UNCHANGED <<queue, buf, write, room, wire, pushed, told, messages>>

(* Mutant: the event is not asked for.                                     *)
EnterOnce ==
  /\ pc = "out" /\ queue # <<>> /\ job
  /\ job' = FALSE
  /\ buf' = <<>> /\ total' = 0
  /\ pc' = "fill"
  /\ UNCHANGED <<queue, write, room, wire, pushed, told, messages>>

(* _handle_writeable(): the send job runs, or epoll finds the socket       *)
(* writeable.                                                              *)
Enter ==
  /\ pc = "out" /\ queue # <<>>
  /\ \/ job /\ job' = FALSE
     \/ room > 0 /\ UNCHANGED job
  /\ buf' = <<>> /\ total' = 0
  /\ pc' = "fill"
  /\ UNCHANGED <<queue, write, room, wire, pushed, told, messages>>

JobFindsNothing ==
  /\ pc = "out" /\ queue = <<>> /\ job
  /\ job' = FALSE
  /\ UNCHANGED <<queue, buf, write, total, room, wire, pushed, told, messages, pc>>

(* Return to _handle_writeable(), which calls on_write().                  *)
Leave ==
  /\ pc' = "out"
  /\ told' = told + total

(* The queue is added to the array, as far as it has slots.                *)
Fill ==
  /\ pc = "fill"
  /\ IF queue = <<>>
     THEN Leave /\ UNCHANGED buf
     ELSE buf' = First(buf \o queue, Lesser(Slots, Len(buf) + Len(queue)))
          /\ pc' = "write" /\ UNCHANGED told
  /\ UNCHANGED <<queue, job, write, total, room, wire, pushed, messages>>

(* writev(): EAGAIN, or as many bytes as there is room for.                *)
Writev ==
  /\ pc = "write"
  /\ IF room = 0
     THEN Leave /\ UNCHANGED <<write, total, room, wire>>
     ELSE LET bytes == FlattenSeq(buf)
              n == Lesser(Len(bytes), room)
          IN  /\ wire' = wire \o First(bytes, n)
              /\ write' = n /\ total' = total + n /\ room' = room - n
              /\ pc' = "advance" /\ UNCHANGED told
  /\ UNCHANGED <<queue, job, buf, pushed, messages>>

(* ... or an error, which ends the channel.                                *)
WritevFails ==
  /\ pc = "write"
  /\ pc' = "failed"
  /\ UNCHANGED <<queue, job, buf, write, total, room, wire, pushed, told, messages>>

(* Mutant: a message is dropped although a part of it is left.             *)
AdvanceWhole ==
  /\ pc = "advance"
  /\ \/ /\ write = 0
        /\ pc' = "fill" /\ UNCHANGED <<queue, write>>
     \/ /\ write > 0 /\ queue # <<>>
        /\ write' = write - Lesser(write, Len(Head(queue)))
        /\ queue' = Tail(queue) /\ UNCHANGED pc
     \/ /\ write > 0 /\ queue = <<>>
        /\ pc' = "undefined" /\ UNCHANGED <<queue, write>>
  /\ UNCHANGED <<job, buf, total, room, wire, pushed, told, messages>>

(* rd_ptr() moves over what was written; finished messages leave the queue.*)
(* When writev() took more than the queue holds, which it can of an array  *)
(* that has sent buffers, the code reads the front of an empty list.       *)
Advance ==
  /\ pc = "advance"
  /\ \/ /\ write = 0
        /\ pc' = "fill" /\ UNCHANGED <<queue, write>>
     \/ /\ write > 0 /\ queue # <<>>
        /\ LET move == Lesser(write, Len(Head(queue)))
               left == Rest(Head(queue), move)
           IN  /\ queue' = (IF left = <<>> THEN <<>> ELSE <<left>>) \o Tail(queue)
               /\ write' = write - move /\ UNCHANGED pc
     \/ /\ write > 0 /\ queue = <<>>
        /\ pc' = "undefined" /\ UNCHANGED <<queue, write>>
  /\ UNCHANGED <<job, buf, total, room, wire, pushed, told, messages>>

(* The peer reads, which makes room.                                       *)
PeerReads ==
  /\ room < Room
  /\ Refills \/ pc = "out"
  /\ room' = room + 1
  /\ UNCHANGED <<queue, job, buf, write, total, wire, pushed, told, messages, pc>>

Step == Fill \/ Writev \/ Advance

Next ==
  \/ do_write \/ Enter \/ JobFindsNothing
  \/ Step \/ WritevFails
  \/ PeerReads

(* The loop's thread goes on, and the peer reads now and then.             *)
Fairness == WF_vars(Step) /\ WF_vars(Enter) /\ WF_vars(PeerReads)

Spec == Init /\ [][Next]_vars
FairSpec == Spec /\ Fairness
-----------------------------------------------------------------------------
(* Properties.                                                             *)

(* The socket gets the bytes the filters wrote, in their order, none twice *)
(* and none left out.                                                      *)
InOrder == IsPrefix(wire, pushed)

(* The bytes that the socket has not taken: rd_ptr() follows writev().     *)
Unsent == IF pc = "advance" THEN Rest(FlattenSeq(queue), write) ELSE FlattenSeq(queue)
Ordered == wire \o Unsent = pushed

(* The bytes on the wire and those still queued are what the filters wrote,*)
(* and the wire's come first, until a writev() that is not the first of its*)
(* call takes bytes: no short write, no queue longer than the array and no *)
(* room made meanwhile breaks their order in any other step.               *)
KeepsOrder ==
  [][Ordered => (Ordered /\ InOrder)' \/ (pc = "write" /\ total > 0 /\ room > 0)]_vars

(* Between two calls on_write() has told of every byte the socket took, and*)
(* the queue has given up one byte for each; also when buffers were sent   *)
(* again, where those it gave up are not those that were sent.             *)
Conserved ==
  pc = "out" => /\ told = Len(wire)
                /\ Len(wire) + Len(FlattenSeq(queue)) = Len(pushed)

(* As many bytes as the filters wrote are sent, unless the connection fails*)
(* or the queue is read past its end.                                      *)
Sent == Len(wire) < Len(pushed) ~> Len(wire) >= Len(pushed) \/ pc \in {"failed", "undefined"}
=============================================================================
