------------------------------ MODULE IocpProofs ------------------------------
(***************************************************************************)
(* Proofs about what is built on completion ports alone.                   *)
(*                                                                         *)
(* The wake-up protocol, for any number of threads and calls:              *)
(* PostedHasPoster makes NoLostWakeup inductive: a caller that finds the   *)
(* flag set may leave, because the one who set it still answers for it.    *)
(*                                                                         *)
(* A stream of tdk.task, for any number of messages and calls: todo is     *)
(* always the rest of a handler (Rests), so that where the send is and     *)
(* what holds a reference can be said of it (Sends, Held); on_close()      *)
(* comes alone because the last reference is given back when nothing can   *)
(* be started any more, and its packet is then the last one (Closing).     *)
(***************************************************************************)
EXTENDS MCIocp, CountingTheorems

-----------------------------------------------------------------------------
(* The wake-up.                                                            *)

(* The same promise in the states in which the loop has yet to wait.       *)
Answered ==
  loop \in {"waits", "runs"} /\ tasks > 0 =>
    packets > 0 \/ dropped \/ \E t \in Callers : at[t] # "out"

IInv == TypeOK /\ PostedHasPoster /\ Answered

LEMMA InitInv == Init => IInv
<1> SUFFICES ASSUME Init PROVE IInv
  OBVIOUS
<1>1. TypeOK
  BY DEF Init, TypeOK, Callers
<1>2. PostedHasPoster
  BY DEF Init, PostedHasPoster
<1>3. Answered
  BY DEF Init, Answered
<1>4. QED
  BY <1>1, <1>2, <1>3 DEF IInv

LEMMA TypeStep == TypeOK /\ [Next]_vars => TypeOK'
<1> SUFFICES ASSUME TypeOK, [Next]_vars PROVE TypeOK'
  OBVIOUS
<1> USE DEF TypeOK, Callers
<1>1. ASSUME NEW t \in Callers, execute(t) PROVE TypeOK'
  BY <1>1 DEF execute
<1>2. ASSUME NEW t \in Callers, wake_up(t) PROVE TypeOK'
  BY <1>2 DEF wake_up
<1>3. ASSUME NEW t \in Callers, Post(t) PROVE TypeOK'
  BY <1>3 DEF Post
<1>4. ASSUME NEW t \in Callers, PostFailed(t) PROVE TypeOK'
  BY <1>4 DEF PostFailed
<1>5. CASE LoopStep \/ TimedOut \/ TakeCompletion
  <2>1. CASE TakePacket
    BY <2>1 DEF TakePacket
  <2>2. CASE Clear
    BY <2>2 DEF Clear
  <2>3. CASE Splice
    BY <2>3 DEF Splice
  <2>4. CASE TasksRun \/ TimedOut \/ TakeCompletion
    BY <2>4 DEF TasksRun, TimedOut, TakeCompletion
  <2>5. QED
    BY <1>5, <2>1, <2>2, <2>3, <2>4 DEF LoopStep
<1>6. CASE UNCHANGED vars
  BY <1>6 DEF vars
<1>7. QED
  BY <1>1, <1>2, <1>3, <1>4, <1>5, <1>6 DEF Next, CallStep

LEMMA PosterStep == IInv /\ [Next]_vars => PostedHasPoster'
<1> SUFFICES ASSUME TypeOK, PostedHasPoster, [Next]_vars PROVE PostedHasPoster'
  BY DEF IInv
<1> USE DEF TypeOK, PostedHasPoster
<1>1. ASSUME NEW t \in Callers, execute(t) PROVE PostedHasPoster'
  BY <1>1 DEF execute
<1>2. ASSUME NEW t \in Callers, wake_up(t) PROVE PostedHasPoster'
  <2>1. CASE posted
    BY <1>2, <2>1 DEF wake_up
  <2>2. CASE ~posted
    BY <1>2, <2>2 DEF wake_up
  <2>3. QED
    BY <2>1, <2>2
<1>3. ASSUME NEW t \in Callers, Post(t) PROVE PostedHasPoster'
  <2>1. CASE packets' = packets + 1
    BY <1>3, <2>1 DEF Post
  <2>2. CASE at' = [at EXCEPT ![t] = "failed"]
    BY <1>3, <2>2 DEF Post
  <2>3. QED
    BY <1>3, <2>1, <2>2 DEF Post
<1>4. ASSUME NEW t \in Callers, PostFailed(t) PROVE PostedHasPoster'
  BY <1>4 DEF PostFailed
<1>5. CASE LoopStep \/ TimedOut \/ TakeCompletion
  BY <1>5 DEF LoopStep, TakePacket, Clear, Splice, TasksRun, TimedOut, TakeCompletion
<1>6. CASE UNCHANGED vars
  BY <1>6 DEF vars
<1>7. QED
  BY <1>1, <1>2, <1>3, <1>4, <1>5, <1>6 DEF Next, CallStep

LEMMA AnsweredStep == IInv /\ [Next]_vars => Answered'
<1> SUFFICES ASSUME TypeOK, PostedHasPoster, Answered, [Next]_vars PROVE Answered'
  BY DEF IInv
<1> USE DEF TypeOK, Answered
<1>1. ASSUME NEW t \in Callers, execute(t) PROVE Answered'
  BY <1>1 DEF execute
<1>2. ASSUME NEW t \in Callers, wake_up(t) PROVE Answered'
  <2>1. CASE posted
    (* Somebody else answers for the flag: packets, or another caller.     *)
    <3>1. loop = "woken" \/ packets > 0 \/ \E s \in Callers \ {t} : at[s] # "out"
      BY <1>2, <2>1 DEF wake_up, PostedHasPoster
    <3>2. QED
      BY <1>2, <3>1 DEF wake_up
  <2>2. CASE ~posted
    BY <1>2, <2>2 DEF wake_up
  <2>3. QED
    BY <2>1, <2>2
<1>3. ASSUME NEW t \in Callers, Post(t) PROVE Answered'
  <2>1. CASE packets' = packets + 1
    BY <1>3, <2>1 DEF Post
  <2>2. CASE at' = [at EXCEPT ![t] = "failed"]
    BY <1>3, <2>2 DEF Post
  <2>3. QED
    BY <1>3, <2>1, <2>2 DEF Post
<1>4. ASSUME NEW t \in Callers, PostFailed(t) PROVE Answered'
  BY <1>4 DEF PostFailed
<1>5. CASE LoopStep \/ TimedOut \/ TakeCompletion
  BY <1>5 DEF LoopStep, TakePacket, Clear, Splice, TasksRun, TimedOut, TakeCompletion
<1>6. CASE UNCHANGED vars
  BY <1>6 DEF vars
<1>7. QED
  BY <1>1, <1>2, <1>3, <1>4, <1>5, <1>6 DEF Next, CallStep

LEMMA Invariance == Spec => []IInv
<1>1. Init => IInv
  BY InitInv
<1>2. IInv /\ [Next]_vars => IInv'
  BY TypeStep, PosterStep, AnsweredStep DEF IInv
<1>3. QED
  BY <1>1, <1>2, PTL DEF Spec

(* Every variable keeps its type: no packet is taken that was not posted.  *)
THEOREM WakeUpTypeTheorem == Spec => []TypeOK
<1>1. IInv => TypeOK
  BY DEF IInv
<1>2. QED
  BY <1>1, Invariance, PTL

(* Whoever set the flag, or the loop, still answers for it.                *)
THEOREM PosterTheorem == Spec => []PostedHasPoster
<1>1. IInv => PostedHasPoster
  BY DEF IInv
<1>2. QED
  BY <1>1, Invariance, PTL

(* The loop waits with a task in its list only if a packet is there or on  *)
(* its way, or the system has refused one.                                 *)
THEOREM WakeUpTheorem == Spec => []NoLostWakeup
<1>1. IInv => NoLostWakeup
  BY DEF IInv, Answered, NoLostWakeup
<1>2. QED
  BY <1>1, Invariance, PTL
-----------------------------------------------------------------------------
(* The stream.                                                             *)

Ops == {"received", "sent", "recv_failed", "send_failed"}
SendOps == {"sent", "send_failed"}
Packets == Ops \cup {"socket", "error", "close"}

(* What can be left of a handler: with a send to start, with a failure to  *)
(* report, with a reference to give back, and when on_close is posted.     *)
Resending ==
  {<<"unref", "take", "on_send", "done">>, <<"take", "on_send", "done">>,
   <<"resend", "on_send", "done">>}
Failing == {<<"unref", "fail", "done">>, <<"fail", "done">>}
Releasing ==
  {<<"unref", "on_recv", "done">>, <<"unref", "take", "on_send", "done">>,
   <<"unref", "fail", "done">>}
Delivers == <<"deliver_close", "on_close", "done">>
Ended == {<<>>, <<"done">>, <<"on_close", "done">>}
Quiet == Ended \cup {<<"close_socket", "done">>, <<"on_error", "done">>, Delivers}
Reports == <<"deliver_error", "on_error", "done">>
Rests ==
  Resending \cup Failing \cup Releasing \cup Quiet
    \cup {<<"on_recv", "done">>, <<"on_send", "done">>, Reports}

StreamTypes ==
  /\ closed \in BOOLEAN /\ sending \in BOOLEAN /\ late \in BOOLEAN
  /\ errpost \in {"not", "begin", "end"} /\ closepost \in {"not", "begin", "end"}
  /\ ref \in Int /\ active \in Int
  /\ buffer \in Nat /\ recvs \in Nat /\ sends \in Nat
  /\ port \in Seq(Packets) /\ todo \in Rests
  /\ told \in Seq({"on_error", "on_close"})

(* Where a send can be: in the kernel, in the port, in the handler.        *)
Sends == sends + Count(port, SendOps) + One(todo \in Resending)

SentOnce == Sends <= One(sending) /\ (buffer > 0 => sending)
Served == sending /\ errpost = "not" => Sends = 1 \/ todo \in Failing

Counted ==
  active = recvs + sends + Len(port) + One(todo # <<>>) + One(closepost # "end")

(* References, counted from what the uninitialized count held.             *)
NoDebt == Leftover \subseteq Nat
Held == NoDebt => ref >= recvs + sends + Count(port, Ops) + One(todo \in Releasing)

ErrorOnce ==
  /\ Count(port, {"error"}) + One(todo = Reports) = One(errpost = "begin")
  /\ errpost = "end" =>
       todo = <<"on_error", "done">> \/ \E i \in DOMAIN told : told[i] = "on_error"

CloseOnce ==
  Count(port, {"close"}) + One(todo = Delivers) = One(closepost = "begin")

(* From when on_close is posted nothing is outstanding, and its packet is  *)
(* the last.                                                               *)
Closing ==
  closepost # "not" =>
    /\ closed /\ errpost = "end"
    /\ NoDebt /\ ~late =>
         /\ recvs = 0 /\ sends = 0 /\ Count(port, Ops) = 0
         /\ todo \in Quiet
         /\ closepost = "begin" =>
              IF port = <<>> THEN todo = Delivers ELSE port[Len(port)] = "close"
         /\ closepost = "end" => port = <<>> /\ todo \in Ended

StreamInv ==
  /\ StreamTypes /\ SentOnce /\ Served /\ Counted /\ Held
  /\ ErrorOnce /\ CloseOnce /\ Closing

LEMMA PairIs == \A a, b : <<a>> \o <<b>> = <<a, b>>
<1> SUFFICES ASSUME NEW a, NEW b PROVE <<a>> \o <<b>> = <<a, b>>
  OBVIOUS
<1>1. <<a>> \o <<b>> \in Seq({a, b}) /\ <<a, b>> \in Seq({a, b})
  BY ConcatProperties
<1>2. Len(<<a>> \o <<b>>) = 2 /\ \A i \in 1 .. 2 : (<<a>> \o <<b>>)[i] = <<a, b>>[i]
  BY ConcatProperties
<1> QED
  BY <1>1, <1>2, SeqEqual

LEMMA TripleIs == \A a, b, c : <<a>> \o <<b, c>> = <<a, b, c>>
<1> SUFFICES ASSUME NEW a, NEW b, NEW c PROVE <<a>> \o <<b, c>> = <<a, b, c>>
  OBVIOUS
<1>1. <<a>> \o <<b, c>> \in Seq({a, b, c}) /\ <<a, b, c>> \in Seq({a, b, c})
  BY ConcatProperties
<1>2. Len(<<a>> \o <<b, c>>) = 3 /\ \A i \in 1 .. 3 : (<<a>> \o <<b, c>>)[i] = <<a, b, c>>[i]
  BY ConcatProperties
<1> QED
  BY <1>1, <1>2, SeqEqual

(* What n packets more, ops of them of operations, do to the port.         *)
Gains(n, ops, sent, errors, closes) ==
  /\ port' \in Seq(Packets)
  /\ Len(port) \in Nat /\ Len(port') = Len(port) + n
  /\ Count(port, Ops) \in Nat /\ Count(port', Ops) = Count(port, Ops) + ops
  /\ Count(port, SendOps) \in Nat /\ Count(port', SendOps) = Count(port, SendOps) + sent
  /\ Count(port, {"error"}) \in Nat
  /\ Count(port', {"error"}) = Count(port, {"error"}) + errors
  /\ Count(port, {"close"}) \in Nat
  /\ Count(port', {"close"}) = Count(port, {"close"}) + closes

LEMMA GainsNothing ==
  ASSUME port \in Seq(Packets), port' = port
  PROVE  Gains(0, 0, 0, 0, 0)
<1>1. Count(port, Ops) \in Nat /\ Count(port, SendOps) \in Nat
  BY CountType
<1>2. Count(port, {"error"}) \in Nat /\ Count(port, {"close"}) \in Nat
  BY CountType
<1>3. Len(port) \in Nat
  BY LenProperties
<1> QED
  BY <1>1, <1>2, <1>3 DEF Gains

LEMMA GainsOne ==
  ASSUME port \in Seq(Packets), NEW x \in Packets, port' = Append(port, x)
  PROVE  /\ Gains(1, One(x \in Ops), One(x \in SendOps), One(x = "error"), One(x = "close"))
         /\ port'[Len(port')] = x /\ port' # <<>>
<1>1. \A S : Count(port, S) \in Nat
  BY CountType
<1>2. \A S : Count(port', S) = Count(port, S) + One(x \in S)
  BY CountAppend
<1>3. One(x \in {"error"}) = One(x = "error") /\ One(x \in {"close"}) = One(x = "close")
  BY DEF One
<1>4. port' \in Seq(Packets) /\ Len(port) \in Nat /\ Len(port') = Len(port) + 1
  BY LenProperties, AppendProperties
<1>5. port'[Len(port')] = x /\ port' # <<>>
  BY <1>4, AppendProperties
<1>6. Count(port', {"error"}) = Count(port, {"error"}) + One(x = "error")
  BY <1>2, <1>3
<1>7. Count(port', {"close"}) = Count(port, {"close"}) + One(x = "close")
  BY <1>2, <1>3
<1> QED
  BY <1>1, <1>2, <1>4, <1>5, <1>6, <1>7 DEF Gains

(* What another thread's close() posts.                                    *)
LEMMA GainsTwo ==
  ASSUME port \in Seq(Packets), NEW x \in Packets, port' = port \o <<"socket", x>>
  PROVE  Gains(2, One(x \in Ops), One(x \in SendOps), One(x = "error"), One(x = "close"))
<1>1. /\ <<"socket">> \in Seq(Packets) /\ <<x>> \in Seq(Packets)
      /\ <<"socket", x>> = <<"socket">> \o <<x>>
  BY DEF Packets
<1>2. <<"socket", x>> \in Seq(Packets) /\ Len(<<"socket", x>>) = 2
  BY <1>1
<1>3. \A S : Count(port, S) \in Nat
  BY CountType
<1>4. \A S : Count(port', S) = Count(port, S) + One("socket" \in S) + One(x \in S)
  <2> TAKE S
  <2>1. Count(port', S) = Count(port, S) + Count(<<"socket", x>>, S)
    BY <1>2, CountConcat
  <2>2. Count(<<"socket", x>>, S) = Count(<<"socket">>, S) + Count(<<x>>, S)
    <3>1. Count(<<"socket">> \o <<x>>, S) = Count(<<"socket">>, S) + Count(<<x>>, S)
      <4> DEFINE a == <<"socket">>
                 b == <<x>>
      <4>1. a \in Seq(Packets) /\ b \in Seq(Packets)
        BY <1>1
      <4> HIDE DEF a, b
      <4>2. Count(a \o b, S) = Count(a, S) + Count(b, S)
        BY <4>1, CountConcat
      <4> QED
        BY <4>2 DEF a, b
    <3> QED
      BY <1>1, <3>1
  <2>3. Count(<<"socket">>, S) = One("socket" \in S) /\ Count(<<x>>, S) = One(x \in S)
    BY CountSingle
  <2>4. One("socket" \in S) \in Int /\ One(x \in S) \in Int
    BY DEF One
  <2> QED
    BY <1>3, <2>1, <2>2, <2>3, <2>4
<1>5. port' \in Seq(Packets) /\ Len(port) \in Nat /\ Len(port') = Len(port) + 2
  BY <1>2, LenProperties, ConcatProperties
<1>6. \A S : "socket" \notin S => One("socket" \in S) = 0
  BY DEF One
<1>7. "socket" \notin Ops /\ "socket" \notin SendOps
  BY DEF Ops, SendOps
<1>8. One(x \in {"error"}) = One(x = "error") /\ One(x \in {"close"}) = One(x = "close")
  BY DEF One
<1>9. \A S : "socket" \notin S => Count(port', S) = Count(port, S) + One(x \in S)
  <2> SUFFICES ASSUME NEW S, "socket" \notin S
               PROVE  Count(port', S) = Count(port, S) + One(x \in S)
    OBVIOUS
  <2>1. One(x \in S) \in Int
    BY DEF One
  <2>2. One("socket" \in S) = 0
    BY <1>6
  <2>3. Count(port', S) = Count(port, S) + One("socket" \in S) + One(x \in S)
    BY <1>4
  <2>4. Count(port, S) \in Nat
    BY <1>3
  <2> QED
    BY <2>1, <2>2, <2>3, <2>4
<1>10. Count(port', {"error"}) = Count(port, {"error"}) + One(x = "error")
  BY <1>8, <1>9
<1>11. Count(port', {"close"}) = Count(port, {"close"}) + One(x = "close")
  BY <1>8, <1>9
<1> QED
  BY <1>3, <1>5, <1>7, <1>9, <1>10, <1>11 DEF Gains

(* What the engine takes.                                                  *)
LEMMA LosesFirst ==
  ASSUME port \in Seq(Packets), port # <<>>, port' = Tail(port)
  PROVE  /\ Head(port) \in Packets
         /\ Gains(-1, -One(Head(port) \in Ops), -One(Head(port) \in SendOps),
                  -One(Head(port) = "error"), -One(Head(port) = "close"))
         /\ port' # <<>> => port'[Len(port')] = port[Len(port)]
         /\ port' = <<>> => Len(port) = 1 /\ Head(port) = port[Len(port)]
<1>1. \A S : Count(port, S) \in Nat
  BY CountType
<1>2. /\ Head(port) \in Packets /\ port' \in Seq(Packets)
      /\ Len(port) \in Nat /\ Len(port') = Len(port) - 1
  BY LenProperties, HeadTailProperties
<1>3. \A S : Count(port', S) = Count(port, S) - One(Head(port) \in S)
  <2> TAKE S
  <2>1. Count(port, S) = One(Head(port) \in S) + Count(port', S)
    BY CountTail
  <2>2. Count(port', S) \in Nat
    BY <1>2, CountType
  <2>3. One(Head(port) \in S) \in Int
    BY DEF One
  <2> QED
    BY <1>1, <2>1, <2>2, <2>3
<1>4. /\ One(Head(port) \in {"error"}) = One(Head(port) = "error")
      /\ One(Head(port) \in {"close"}) = One(Head(port) = "close")
  BY DEF One
<1>5. port' # <<>> => port'[Len(port')] = port[Len(port)]
  BY <1>2
<1>6. port' = <<>> => Len(port) = 1 /\ Head(port) = port[Len(port)]
  BY <1>2
<1>7. Count(port', {"error"}) = Count(port, {"error"}) - One(Head(port) = "error")
  BY <1>3, <1>4
<1>8. Count(port', {"close"}) = Count(port, {"close"}) - One(Head(port) = "close")
  BY <1>3, <1>4
<1>9. \A b : One(b) \in Int
  BY DEF One
<1> QED
  BY <1>1, <1>2, <1>3, <1>5, <1>6, <1>7, <1>8, <1>9 DEF Gains

LEMMA OnesAre == \A b : One(b) \in {0, 1} /\ (b => One(b) = 1) /\ (~b => One(b) = 0)
BY DEF One

LEMMA StreamInitInv ==
  ASSUME TheStream!Init PROVE StreamInv
<1>1. port = <<>> /\ Len(port) = 0 /\ port \in Seq(Packets)
  BY DEF TheStream!Init
<1>2. \A S : Count(port, S) = 0
  BY <1>1, CountEmpty
<1>3. todo \in Quiet /\ todo = <<>>
  BY DEF TheStream!Init, Quiet, Ended
<1>4. todo \notin Resending \cup Failing \cup Releasing /\ todo # Reports /\ todo # Delivers
  BY <1>3 DEF Resending, Failing, Releasing, Reports, Delivers
<1>5. StreamTypes
  <2>1. told \in Seq({"on_error", "on_close"})
    BY DEF TheStream!Init
  <2>2. ref \in Int
    BY LeftoverAssumption DEF TheStream!Init
  <2>3. todo \in Rests
    BY <1>3 DEF Rests
  <2>4. closed \in BOOLEAN /\ sending \in BOOLEAN /\ late \in BOOLEAN
    BY DEF TheStream!Init
  <2>5. /\ errpost \in {"not", "begin", "end"} /\ closepost \in {"not", "begin", "end"}
        /\ active \in Int /\ buffer \in Nat /\ recvs \in Nat /\ sends \in Nat
    BY DEF TheStream!Init
  <2> QED
    BY <1>1, <2>1, <2>2, <2>3, <2>4, <2>5 DEF StreamTypes
<1>6. SentOnce /\ Served
  BY <1>2, <1>4 DEF TheStream!Init, SentOnce, Served, Sends, One
<1>7. Counted
  BY <1>1, <1>3 DEF TheStream!Init, Counted, One
<1>8. Held
  BY <1>2, <1>4 DEF TheStream!Init, Held, One, NoDebt
<1>9. ErrorOnce /\ CloseOnce
  BY <1>2, <1>4 DEF TheStream!Init, ErrorOnce, CloseOnce, One
<1>10. Closing
  BY DEF TheStream!Init, Closing
<1> QED
  BY <1>5, <1>6, <1>7, <1>8, <1>9, <1>10 DEF StreamInv


(* The first step says what follows it.                                    *)
LEMMA HeadsAre ==
  \A t \in Rests : t # <<>> =>
    /\ Head(t) = "done" => t = <<"done">>
    /\ Head(t) = "fail" => t = <<"fail", "done">>
    /\ Head(t) = "take" => t = <<"take", "on_send", "done">>
    /\ Head(t) = "resend" => t = <<"resend", "on_send", "done">>
    /\ Head(t) = "close_socket" => t = <<"close_socket", "done">>
    /\ Head(t) = "deliver_error" => t = <<"deliver_error", "on_error", "done">>
    /\ Head(t) = "deliver_close" => t = <<"deliver_close", "on_close", "done">>
    /\ Head(t) = "on_recv" => t = <<"on_recv", "done">>
    /\ Head(t) = "on_send" => t = <<"on_send", "done">>
    /\ Head(t) = "on_error" => t = <<"on_error", "done">>
    /\ Head(t) = "on_close" => t = <<"on_close", "done">>
<1> SUFFICES ASSUME NEW t \in Rests, t # <<>>
             PROVE  /\ Head(t) = "done" => t = <<"done">>
                    /\ Head(t) = "fail" => t = <<"fail", "done">>
                    /\ Head(t) = "take" => t = <<"take", "on_send", "done">>
                    /\ Head(t) = "resend" => t = <<"resend", "on_send", "done">>
                    /\ Head(t) = "close_socket" => t = <<"close_socket", "done">>
                    /\ Head(t) = "deliver_error" => t = <<"deliver_error", "on_error", "done">>
                    /\ Head(t) = "deliver_close" => t = <<"deliver_close", "on_close", "done">>
                    /\ Head(t) = "on_recv" => t = <<"on_recv", "done">>
                    /\ Head(t) = "on_send" => t = <<"on_send", "done">>
                    /\ Head(t) = "on_error" => t = <<"on_error", "done">>
                    /\ Head(t) = "on_close" => t = <<"on_close", "done">>
  OBVIOUS
<1> USE DEF Rests, Resending, Failing, Releasing, Quiet, Ended, Delivers, Reports
<1>1. Head(t) = "done" => t = <<"done">>
  BY SMTT(30)
<1>2. Head(t) = "fail" => t = <<"fail", "done">>
  BY SMTT(30)
<1>3. Head(t) = "take" => t = <<"take", "on_send", "done">>
  BY SMTT(30)
<1>4. Head(t) = "resend" => t = <<"resend", "on_send", "done">>
  BY SMTT(30)
<1>5. Head(t) = "close_socket" => t = <<"close_socket", "done">>
  BY SMTT(30)
<1>6. Head(t) = "deliver_error" => t = <<"deliver_error", "on_error", "done">>
  BY SMTT(30)
<1>7. Head(t) = "deliver_close" => t = <<"deliver_close", "on_close", "done">>
  BY SMTT(30)
<1>8. Head(t) = "on_recv" => t = <<"on_recv", "done">>
  BY SMTT(30)
<1>9. Head(t) = "on_send" => t = <<"on_send", "done">>
  BY SMTT(30)
<1>10. Head(t) = "on_error" => t = <<"on_error", "done">>
  BY SMTT(30)
<1>11. Head(t) = "on_close" => t = <<"on_close", "done">>
  BY SMTT(30)
<1> QED
  BY <1>1, <1>2, <1>3, <1>4, <1>5, <1>6, <1>7, <1>8, <1>9, <1>10, <1>11

(* _on_recv() and _on_send() give their reference back.                    *)
LEMMA UnrefInv == ASSUME StreamInv, TheStream!Unref PROVE StreamInv'
<1> USE DEF StreamInv
<1>1. todo \in Releasing /\ todo' = Tail(todo)
  BY DEF TheStream!Unref, TheStream!Is, TheStream!Done, StreamTypes, Rests, Resending,
         Failing, Releasing, Quiet, Ended, Delivers, Reports
<1>2. /\ todo' \in Rests /\ todo' \notin Releasing
      /\ todo \in Resending <=> todo' \in Resending
      /\ todo \in Failing <=> todo' \in Failing
      /\ todo # <<>> /\ todo' # <<>>
      /\ todo \notin Quiet /\ todo' \notin Quiet
      /\ todo # Reports /\ todo' # Reports /\ todo # Delivers /\ todo' # Delivers
      /\ todo # <<"on_error", "done">>
  <2> USE DEF Rests, Resending, Failing, Releasing, Quiet, Ended, Delivers, Reports
  <2>1. CASE todo = <<"unref", "on_recv", "done">>
    <3>1. todo' = <<"on_recv", "done">>
      BY <1>1, <2>1
    <3> QED
      BY <2>1, <3>1
  <2>2. CASE todo = <<"unref", "take", "on_send", "done">>
    <3>1. todo' = <<"take", "on_send", "done">>
      BY <1>1, <2>2
    <3> QED
      BY <2>2, <3>1
  <2>3. CASE todo = <<"unref", "fail", "done">>
    <3>1. todo' = <<"fail", "done">>
      BY <1>1, <2>3
    <3> QED
      BY <2>3, <3>1
  <2> QED
    BY <1>1, <2>1, <2>2, <2>3
<1>3. Gains(0, 0, 0, 0, 0)
  BY GainsNothing DEF StreamTypes, TheStream!Unref
<1>4. /\ ref' = ref - 1
      /\ UNCHANGED <<closed, errpost, closepost, sending, buffer, sock, recvs, sends, incoming,
                     port, active, told, late>>
  BY DEF TheStream!Unref, TheStream!flags, TheStream!kernel
<1> USE DEF Gains, One
<1>5. StreamTypes'
  BY <1>2, <1>4 DEF StreamTypes
<1>6. SentOnce' /\ Served'
  BY <1>2, <1>4 DEF SentOnce, Served, Sends
<1>7. Counted' /\ Held'
  <2>1. Counted'
    <3>1. active \in Int /\ recvs \in Nat /\ sends \in Nat
      BY DEF StreamTypes
    <3> QED
      BY <1>1, <1>2, <1>3, <1>4, <3>1 DEF Counted
  <2>2. Held'
    <3> SUFFICES ASSUME NoDebt
                 PROVE  (ref >= recvs + sends + Count(port, Ops) + One(todo \in Releasing))'
      BY DEF Held, NoDebt
    <3>1. ref >= recvs + sends + Count(port, Ops) + One(todo \in Releasing)
      BY DEF Held
    <3> QED
      BY <1>1, <1>2, <1>3, <1>4, <3>1 DEF StreamTypes
  <2> QED
    BY <2>1, <2>2
<1>8. ErrorOnce' /\ CloseOnce' /\ Closing'
  BY <1>2, <1>3, <1>4 DEF ErrorOnce, CloseOnce, Closing
<1> QED
  BY <1>5, <1>6, <1>7, <1>8

(* What is posted first, n packets, with which the next makes m.           *)
First(n, m, p) ==
  \/ n = 0 /\ m = 1 /\ p = <<>>
  \/ n = 1 /\ m = 2 /\ p = <<"socket">>

(* A list of packets, and the last one of it, is posted.                   *)
LEMMA Posted ==
  ASSUME StreamTypes, NEW n, NEW m, NEW p, First(n, m, p),
         NEW x \in {"error", "close"},
         TheStream!Post(p \o <<x>>)
  PROVE  /\ active' = active + m
         /\ Gains(m, 0, 0, One(x = "error"), One(x = "close"))
         /\ port' # <<>> /\ port'[Len(port')] = x
<1>1. port \in Seq(Packets) /\ active \in Int /\ x \in Packets
  BY DEF StreamTypes, Packets
<1>2. x \notin Ops /\ x \notin SendOps
  BY DEF Ops, SendOps
<1>3. One(x \in Ops) = 0 /\ One(x \in SendOps) = 0
  BY <1>2 DEF One
<1>4. CASE n = 0 /\ m = 1 /\ p = <<>>
  <2>1. p \o <<x>> = <<x>>
    BY <1>4
  <2>2. active' = active + 1 /\ port' = Append(port, x)
    <3>1. port' = port \o <<x>> /\ active' = active + Len(<<x>>)
      BY <2>1 DEF TheStream!Post
    <3>2. Append(port, x) = port \o <<x>> /\ Len(<<x>>) = 1
      BY <1>1
    <3> QED
      BY <3>1, <3>2
  <2>3. Gains(1, 0, 0, One(x = "error"), One(x = "close"))
    BY <1>1, <1>3, <2>2, GainsOne
  <2>4. port'[Len(port')] = x /\ port' # <<>>
    BY <1>1, <2>2, GainsOne
  <2> QED
    BY <1>4, <2>2, <2>3, <2>4
<1>5. CASE n = 1 /\ m = 2 /\ p = <<"socket">>
  <2>1. p \o <<x>> = <<"socket", x>> /\ Len(<<"socket", x>>) = 2
    BY <1>5, PairIs
  <2>2. active' = active + 2 /\ port' = port \o <<"socket", x>>
    BY <1>1, <2>1 DEF TheStream!Post
  <2>3. Gains(2, 0, 0, One(x = "error"), One(x = "close"))
    BY <1>1, <1>3, <2>2, GainsTwo
  <2>4. port'[Len(port')] = x /\ port' # <<>>
    BY <1>1, <2>2
  <2> QED
    BY <1>5, <2>2, <2>3, <2>4
<1> QED
  BY <1>4, <1>5 DEF First

LEMMA PostedAlone ==
  ASSUME StreamTypes, NEW n, NEW m, NEW p, First(n, m, p),
         TheStream!Post(p)
  PROVE  /\ active' = active + n
         /\ Gains(n, 0, 0, 0, 0)
         /\ n = 0 => port' = port
<1>1. port \in Seq(Packets) /\ active \in Int
  BY DEF StreamTypes
<1>2. CASE n = 0 /\ m = 1 /\ p = <<>>
  <2>1. port' = port \o <<>> /\ active' = active + Len(<<>>)
    BY <1>2 DEF TheStream!Post
  <2>2. port \o <<>> = port /\ Len(<<>>) = 0
    BY <1>1
  <2>3. port' = port /\ active' = active + 0
    BY <1>1, <2>1, <2>2
  <2>4. Gains(0, 0, 0, 0, 0)
    BY <1>1, <2>3, GainsNothing
  <2> QED
    BY <1>2, <2>3, <2>4
<1>3. CASE n = 1 /\ m = 2 /\ p = <<"socket">>
  <2>1. port' = Append(port, "socket") /\ active' = active + 1
    BY <1>1, <1>3 DEF TheStream!Post
  <2>2. /\ "socket" \in Packets /\ "socket" \notin Ops /\ "socket" \notin SendOps
        /\ "socket" # "error" /\ "socket" # "close"
    BY DEF Packets, Ops, SendOps
  <2>3. /\ One("socket" \in Ops) = 0 /\ One("socket" \in SendOps) = 0
        /\ One("socket" = "error") = 0 /\ One("socket" = "close") = 0
    BY <2>2 DEF One
  <2> QED
    BY <1>1, <1>3, <2>1, <2>2, <2>3, GainsOne
<1> QED
  BY <1>2, <1>3 DEF First

(* What _post_close() does after p.                                        *)
LEMMA PostCloseCases ==
  ASSUME StreamTypes, NEW n, NEW m, NEW p, First(n, m, p),
         NEW isClosed, NEW status,
         TheStream!PostClose(p, isClosed, status)
  PROVE  \/ /\ isClosed /\ closepost = "not" /\ status = "end" /\ ref = 0
            /\ closepost' = "begin" /\ active' = active + m
            /\ Gains(m, 0, 0, 0, 1)
            /\ port' # <<>> /\ port'[Len(port')] = "close"
         \/ /\ closepost' = closepost /\ active' = active + n
            /\ Gains(n, 0, 0, 0, 0)
            /\ n = 0 => port' = port
<1>1. CASE isClosed /\ closepost = "not" /\ status = "end" /\ ref = 0
  <2>1. closepost' = "begin" /\ TheStream!Post(p \o <<"close">>)
    BY <1>1 DEF TheStream!PostClose
  <2>2. One("close" = "error") = 0 /\ One("close" = "close") = 1
    BY DEF One
  <2> QED
    BY <1>1, <2>1, <2>2, Posted
<1>2. CASE ~(isClosed /\ closepost = "not" /\ status = "end" /\ ref = 0)
  <2>1. closepost' = closepost /\ TheStream!Post(p)
    BY <1>2 DEF TheStream!PostClose
  <2> QED
    BY <2>1, PostedAlone
<1> QED
  BY <1>1, <1>2

(* What _internal_close() does.                                            *)
LEMMA InternalCloseCases ==
  ASSUME StreamTypes, NEW byUser \in BOOLEAN, NEW n, NEW m, NEW p,
         First(n, m, p),
         TheStream!InternalClose(byUser, p)
  PROVE  /\ closed' = (closed \/ byUser)
         /\ \/ /\ errpost = "not" /\ errpost' = "begin" /\ closepost' = closepost
               /\ active' = active + m /\ Gains(m, 0, 0, 1, 0)
            \/ /\ errpost = "end" /\ errpost' = "end" /\ closed' /\ ref = 0
               /\ closepost = "not" /\ closepost' = "begin"
               /\ active' = active + m /\ Gains(m, 0, 0, 0, 1)
               /\ port' # <<>> /\ port'[Len(port')] = "close"
            \/ /\ errpost # "not" /\ errpost' = errpost /\ closepost' = closepost
               /\ active' = active + n /\ Gains(n, 0, 0, 0, 0)
               /\ n = 0 => port' = port
<1>1. closed' = (closed \/ byUser)
  BY DEF TheStream!InternalClose
<1>2. CASE errpost = "not"
  <2>1. errpost' = "begin" /\ closepost' = closepost /\ TheStream!Post(p \o <<"error">>)
    BY <1>2 DEF TheStream!InternalClose
  <2>2. One("error" = "error") = 1 /\ One("error" = "close") = 0
    BY DEF One
  <2> QED
    BY <1>1, <1>2, <2>1, <2>2, Posted
<1>3. CASE errpost # "not"
  <2>1. errpost' = errpost /\ TheStream!PostClose(p, closed \/ byUser, errpost)
    BY <1>3 DEF TheStream!InternalClose
  <2> QED
    BY <1>1, <1>3, <2>1, PostCloseCases
<1> QED
  BY <1>2, <1>3

LEMMA StartRecvCases ==
  ASSUME StreamTypes, TheStream!StartRecv
  PROVE  /\ ref' = ref + 1 /\ active' = active + 1
         /\ \/ recvs' = recvs + 1 /\ Gains(0, 0, 0, 0, 0)
            \/ recvs' = recvs /\ Gains(1, 1, 0, 0, 0)
<1>1. ref' = ref + 1 /\ active' = active + 1 /\ port \in Seq(Packets)
  BY DEF TheStream!StartRecv, StreamTypes
<1>2. CASE recvs' = recvs + 1 /\ port' = port
  BY <1>1, <1>2, GainsNothing
<1>3. CASE recvs' = recvs /\ port' = Append(port, "recv_failed")
  <2>1. "recv_failed" \in Packets /\ "recv_failed" \in Ops /\ "recv_failed" \notin SendOps
    BY DEF Packets, Ops, SendOps
  <2>2. /\ One("recv_failed" \in Ops) = 1 /\ One("recv_failed" \in SendOps) = 0
        /\ One("recv_failed" = "error") = 0 /\ One("recv_failed" = "close") = 0
    BY <2>1 DEF One
  <2> QED
    BY <1>1, <1>3, <2>1, <2>2, GainsOne
<1> QED
  BY <1>2, <1>3 DEF TheStream!StartRecv

LEMMA StartSendCases ==
  ASSUME StreamTypes, TheStream!StartSend
  PROVE  /\ ref' = ref + 1 /\ active' = active + 1
         /\ \/ sends' = sends + 1 /\ Gains(0, 0, 0, 0, 0)
            \/ sends' = sends /\ Gains(1, 1, 1, 0, 0)
<1>1. ref' = ref + 1 /\ active' = active + 1 /\ port \in Seq(Packets)
  BY DEF TheStream!StartSend, StreamTypes
<1>2. CASE sends' = sends + 1 /\ port' = port
  BY <1>1, <1>2, GainsNothing
<1>3. CASE sends' = sends /\ port' = Append(port, "send_failed")
  <2>1. "send_failed" \in Packets /\ "send_failed" \in Ops /\ "send_failed" \in SendOps
    BY DEF Packets, Ops, SendOps
  <2>2. /\ One("send_failed" \in Ops) = 1 /\ One("send_failed" \in SendOps) = 1
        /\ One("send_failed" = "error") = 0 /\ One("send_failed" = "close") = 0
    BY <2>1 DEF One
  <2> QED
    BY <1>1, <1>3, <2>1, <2>2, GainsOne
<1> QED
  BY <1>2, <1>3 DEF TheStream!StartSend

(* send(), from a callback or another thread: nothing of the handler's     *)
(* rest, the flags and the receives changes.                               *)
LEMMA SendInv ==
  ASSUME StreamInv, TheStream!send,
         UNCHANGED <<closed, errpost, closepost, recvs, todo, told, late>>
  PROVE  StreamInv'
<1> USE DEF StreamInv
<1>1. CASE closed \/ errpost # "not"
  <2>1. UNCHANGED <<buffer, sending, ref, active, sends, port>>
    BY <1>1 DEF TheStream!send
  <2>2. Gains(0, 0, 0, 0, 0)
    BY <2>1, GainsNothing DEF StreamTypes
  <2> USE DEF Gains
  <2>3. StreamTypes'
    BY <2>1 DEF StreamTypes
  <2>4. SentOnce' /\ Served' /\ Counted' /\ Held'
    BY <2>1, <2>2 DEF SentOnce, Served, Sends, Counted, Held, NoDebt
  <2>5. ErrorOnce' /\ CloseOnce' /\ Closing'
    BY <2>1, <2>2 DEF ErrorOnce, CloseOnce, Closing
  <2> QED
    BY <2>3, <2>4, <2>5
<1>2. CASE ~closed /\ errpost = "not" /\ sending
  <2>1. buffer' = buffer + 1 /\ UNCHANGED <<sending, ref, active, sends, port>>
    BY <1>2 DEF TheStream!send
  <2>2. Gains(0, 0, 0, 0, 0)
    BY <2>1, GainsNothing DEF StreamTypes
  <2> USE DEF Gains
  <2>3. StreamTypes'
    BY <2>1 DEF StreamTypes
  <2>4. SentOnce' /\ Served' /\ Counted' /\ Held'
    BY <1>2, <2>1, <2>2 DEF SentOnce, Served, Sends, Counted, Held, NoDebt
  <2>5. ErrorOnce' /\ CloseOnce' /\ Closing'
    BY <2>1, <2>2 DEF ErrorOnce, CloseOnce, Closing
  <2> QED
    BY <2>3, <2>4, <2>5
<1>3. CASE ~closed /\ errpost = "not" /\ ~sending
  <2>1. sending' = TRUE /\ buffer' = buffer /\ TheStream!StartSend
    BY <1>3 DEF TheStream!send
  <2>2. /\ ref' = ref + 1 /\ active' = active + 1
        /\ \/ sends' = sends + 1 /\ Gains(0, 0, 0, 0, 0)
           \/ sends' = sends /\ Gains(1, 1, 1, 0, 0)
    BY <2>1, StartSendCases
  <2>3. closepost = "not"
    BY <1>3 DEF StreamTypes, Closing
  <2> USE DEF Gains, One
  <2>4. StreamTypes'
    BY <2>1, <2>2 DEF StreamTypes
  <2>5. SentOnce' /\ Served'
    BY <1>3, <2>1, <2>2 DEF SentOnce, Served, Sends, StreamTypes
  <2>6. Counted' /\ Held'
    <3>1. Counted'
      <4>1. active \in Int /\ recvs \in Nat /\ sends \in Nat
        BY DEF StreamTypes
      <4>2. /\ sends' + Len(port') - active' = sends + Len(port) - active
            /\ sends' \in Nat /\ Len(port') \in Nat /\ active' \in Int /\ Len(port) \in Nat
        BY <2>2, <4>1, SMTT(30)
      <4>3. /\ One((todo # <<>>)') = One(todo # <<>>)
            /\ One((closepost # "end")') = One(closepost # "end")
        OBVIOUS
      <4> QED
        BY <4>1, <4>2, <4>3, SMTT(30) DEF Counted
    <3>2. Held'
      <4> SUFFICES ASSUME NoDebt
                   PROVE  (ref >= recvs + sends + Count(port, Ops) + One(todo \in Releasing))'
        BY DEF Held, NoDebt
      <4>1. ref >= recvs + sends + Count(port, Ops) + One(todo \in Releasing)
        BY DEF Held
      <4> QED
        BY <2>2, <4>1, SMTT(30) DEF StreamTypes
    <3> QED
      BY <3>1, <3>2
  <2>7. ErrorOnce' /\ CloseOnce' /\ Closing'
    BY <2>2, <2>3 DEF ErrorOnce, CloseOnce, Closing
  <2> QED
    BY <2>4, <2>5, <2>6, <2>7
<1> QED
  BY <1>1, <1>2, <1>3 DEF StreamTypes

(* A step that changes nothing the invariant is about.                     *)
LEMMA SameInv ==
  ASSUME StreamInv,
         UNCHANGED <<closed, errpost, closepost, ref, sending, buffer, recvs, sends, port,
                     active, todo, told, late>>
  PROVE  StreamInv'
BY DEF StreamInv, StreamTypes, SentOnce, Served, Sends, Counted, Held, NoDebt, ErrorOnce,
       CloseOnce, Closing

(* decrement_ref() after the handler.                                      *)
LEMMA DoneInv == ASSUME StreamInv, TheStream!HandlerDone PROVE StreamInv'
<1> USE DEF StreamInv
<1>1. todo = <<"done">> /\ todo' = <<>>
  <2>1. todo \in Rests /\ todo # <<>> /\ Head(todo) = "done" /\ todo' = Tail(todo)
    BY DEF TheStream!HandlerDone, TheStream!Is, TheStream!Done, StreamTypes
  <2>2. todo = <<"done">>
    BY <2>1, HeadsAre
  <2> QED
    BY <2>1, <2>2 DEF Reports, Delivers
<1>2. /\ todo' \in Ended /\ todo' \in Quiet /\ todo' \in Rests
      /\ todo \notin Releasing /\ todo' \notin Releasing
      /\ todo \notin Resending /\ todo' \notin Resending
      /\ todo \notin Failing /\ todo' = <<>>
      /\ todo # Reports /\ todo' # Reports /\ todo # Delivers /\ todo' # Delivers
      /\ todo # <<"on_error", "done">> /\ todo # <<>>
  BY <1>1 DEF Rests, Resending, Failing, Releasing, Quiet, Ended, Delivers, Reports
<1>3. Gains(0, 0, 0, 0, 0)
  BY GainsNothing DEF StreamTypes, TheStream!HandlerDone
<1>4. /\ active' = active - 1
      /\ UNCHANGED <<closed, errpost, closepost, ref, sending, buffer, sock, recvs, sends,
                     incoming, port, told, late>>
  BY DEF TheStream!HandlerDone, TheStream!flags, TheStream!kernel
<1> USE DEF Gains, One
<1>5. StreamTypes'
  BY <1>2, <1>4 DEF StreamTypes
<1>6. SentOnce' /\ Served'
  BY <1>2, <1>4 DEF SentOnce, Served, Sends
<1>7. Counted' /\ Held'
  <2>1. Counted'
    <3>1. active \in Int /\ recvs \in Nat /\ sends \in Nat
      BY DEF StreamTypes
    <3> QED
      BY <1>2, <1>3, <1>4, <3>1 DEF Counted
  <2>2. Held'
    <3> SUFFICES ASSUME NoDebt
                 PROVE  (ref >= recvs + sends + Count(port, Ops) + One(todo \in Releasing))'
      BY DEF Held, NoDebt
    <3>1. ref >= recvs + sends + Count(port, Ops) + One(todo \in Releasing)
      BY DEF Held
    <3> QED
      BY <1>1, <1>2, <1>3, <1>4, <3>1 DEF StreamTypes
  <2> QED
    BY <2>1, <2>2
<1>8. ErrorOnce' /\ CloseOnce' /\ Closing'
  BY <1>2, <1>3, <1>4 DEF ErrorOnce, CloseOnce, Closing
<1> QED
  BY <1>5, <1>6, <1>7, <1>8

(* An operation has failed.                                                *)
LEMMA FailInv == ASSUME StreamInv, TheStream!Fail PROVE StreamInv'
<1> USE DEF StreamInv
<1>1. todo = <<"fail", "done">> /\ todo' = <<"done">>
  <2>1. todo \in Rests /\ todo # <<>> /\ Head(todo) = "fail" /\ todo' = Tail(todo)
    BY DEF TheStream!Fail, TheStream!Is, TheStream!Done, StreamTypes
  <2>2. todo = <<"fail", "done">>
    BY <2>1, HeadsAre
  <2> QED
    BY <2>1, <2>2 DEF Reports, Delivers
<1>2. /\ todo' \in Ended /\ todo' \in Quiet /\ todo' \in Rests
      /\ todo \notin Releasing /\ todo' \notin Releasing
      /\ todo \notin Resending /\ todo' \notin Resending
      /\ todo \notin Quiet /\ todo # <<>> /\ todo' # <<>>
      /\ todo # Reports /\ todo' # Reports /\ todo # Delivers /\ todo' # Delivers
      /\ todo # <<"on_error", "done">>
  BY <1>1 DEF Rests, Resending, Failing, Releasing, Quiet, Ended, Delivers, Reports
<1>3. UNCHANGED <<ref, sending, buffer, recvs, sends, told, late>>
  BY DEF TheStream!Fail, TheStream!kernel
<1>4. /\ closed' = closed
      /\ \/ /\ errpost = "not" /\ errpost' = "begin" /\ closepost' = closepost
            /\ active' = active + 1 /\ Gains(1, 0, 0, 1, 0)
         \/ /\ errpost = "end" /\ errpost' = "end" /\ closed' /\ ref = 0
            /\ closepost = "not" /\ closepost' = "begin"
            /\ active' = active + 1 /\ Gains(1, 0, 0, 0, 1)
            /\ port' # <<>> /\ port'[Len(port')] = "close"
         \/ /\ errpost # "not" /\ errpost' = errpost /\ closepost' = closepost
            /\ active' = active /\ Gains(0, 0, 0, 0, 0) /\ port' = port
  <2>1. active \in Int /\ closed \in BOOLEAN
    BY DEF StreamTypes
  <2>2. TheStream!InternalClose(FALSE, <<>>) /\ FALSE \in BOOLEAN
    BY DEF TheStream!Fail
  <2>3. First(0, 1, <<>>) /\ 0 = 0
    BY DEF First
  <2>4. /\ closed' = (closed \/ FALSE)
        /\ \/ /\ errpost = "not" /\ errpost' = "begin" /\ closepost' = closepost
              /\ active' = active + 1 /\ Gains(1, 0, 0, 1, 0)
           \/ /\ errpost = "end" /\ errpost' = "end" /\ closed' /\ ref = 0
              /\ closepost = "not" /\ closepost' = "begin"
              /\ active' = active + 1 /\ Gains(1, 0, 0, 0, 1)
              /\ port' # <<>> /\ port'[Len(port')] = "close"
           \/ /\ errpost # "not" /\ errpost' = errpost /\ closepost' = closepost
              /\ active' = active + 0 /\ Gains(0, 0, 0, 0, 0) /\ (0 = 0 => port' = port)
    BY <2>2, <2>3, InternalCloseCases
  <2> QED
    BY <2>1, <2>4
<1> USE DEF Gains, One
<1>5. StreamTypes'
  BY <1>2, <1>3, <1>4 DEF StreamTypes
<1>6. SentOnce' /\ Served'
  BY <1>2, <1>3, <1>4 DEF SentOnce, Served, Sends
<1>7. Counted' /\ Held'
  <2>1. Counted'
    <3>1. active \in Int /\ recvs \in Nat /\ sends \in Nat
      BY DEF StreamTypes
    <3> QED
      BY <1>2, <1>3, <1>4, <3>1, SMTT(30) DEF Counted, Closing
  <2>2. Held'
    <3> SUFFICES ASSUME NoDebt
                 PROVE  (ref >= recvs + sends + Count(port, Ops) + One(todo \in Releasing))'
      BY DEF Held, NoDebt
    <3>1. ref >= recvs + sends + Count(port, Ops) + One(todo \in Releasing)
      BY DEF Held
    <3> QED
      BY <1>2, <1>3, <1>4, <3>1 DEF StreamTypes, Closing
  <2> QED
    BY <2>1, <2>2
<1>8. ErrorOnce'
  BY <1>2, <1>3, <1>4 DEF ErrorOnce
<1>9. CloseOnce'
  BY <1>2, <1>3, <1>4 DEF CloseOnce, Closing
<1>10. Closing'
  BY <1>2, <1>3, <1>4 DEF Closing, StreamTypes, Held
<1> QED
  BY <1>5, <1>6, <1>7, <1>8, <1>9, <1>10

(* _on_send() takes the rest of the message and what was put aside.        *)
LEMMA TakeRemainsInv == ASSUME StreamInv, TheStream!TakeRemains PROVE StreamInv'
<1> USE DEF StreamInv
<1>1. todo = <<"take", "on_send", "done">>
  BY DEF TheStream!TakeRemains, TheStream!Is, StreamTypes, Rests, Resending,
         Failing, Releasing, Quiet, Ended, Delivers, Reports
<1>2. \/ todo' = <<"resend", "on_send", "done">> /\ buffer' = 0 /\ sending' = sending
      \/ todo' = <<"on_send", "done">> /\ sending' = FALSE /\ buffer' = buffer /\ buffer = 0
  <2>1. PICK part \in BOOLEAN :
          IF part \/ buffer > 0
          THEN TheStream!Then(<<"resend">>) /\ buffer' = 0 /\ UNCHANGED sending
          ELSE TheStream!Done /\ sending' = FALSE /\ UNCHANGED buffer
    BY DEF TheStream!TakeRemains
  <2>2. TheStream!Then(<<"resend">>) => todo' = <<"resend", "on_send", "done">>
    <3>1. Tail(<<"take", "on_send", "done">>) = <<"on_send", "done">>
      OBVIOUS
    <3>2. <<"resend">> \o <<"on_send", "done">> = <<"resend", "on_send", "done">>
      BY TripleIs
    <3> QED
      BY <1>1, <3>1, <3>2 DEF TheStream!Then
  <2>3. TheStream!Done => todo' = <<"on_send", "done">>
    BY <1>1 DEF TheStream!Done
  <2> QED
    BY <2>1, <2>2, <2>3 DEF StreamTypes
<1>3. /\ todo \in Resending /\ todo \notin Failing /\ todo \notin Releasing
      /\ todo \notin Quiet /\ todo # <<>> /\ todo # Reports /\ todo # Delivers
      /\ todo # <<"on_error", "done">>
  BY <1>1 DEF Resending, Failing, Releasing, Quiet, Ended, Delivers, Reports
<1>4. /\ todo' \in Rests /\ todo' \notin Failing /\ todo' \notin Releasing
      /\ todo' # <<>> /\ todo' # Reports /\ todo' # Delivers
      /\ todo' \in Resending <=> todo' = <<"resend", "on_send", "done">>
  BY <1>2 DEF Rests, Resending, Failing, Releasing, Delivers, Reports
<1>5. Gains(0, 0, 0, 0, 0)
  BY GainsNothing DEF StreamTypes, TheStream!TakeRemains
<1>6. UNCHANGED <<closed, errpost, closepost, ref, recvs, sends, port, active, told, late>>
  BY DEF TheStream!TakeRemains, TheStream!flags, TheStream!kernel
<1> USE DEF Gains, One
<1>7. StreamTypes'
  <2>1. sending \in BOOLEAN /\ buffer \in Nat
    BY DEF StreamTypes
  <2>2. sending' \in {sending, FALSE} /\ buffer' \in {buffer, 0}
    BY <1>2, Zenon
  <2>3. sending' \in BOOLEAN
    BY <2>1, <2>2, Zenon
  <2>4. buffer' \in Nat
    BY <2>1, <2>2
  <2> QED
    BY <1>4, <1>6, <2>3, <2>4 DEF StreamTypes
<1>8. CASE todo' = <<"resend", "on_send", "done">>
  <2>1. buffer' = 0 /\ sending' = sending
    BY <1>2, <1>8
  <2> QED
    BY <1>3, <1>4, <1>6, <1>7, <1>8, <2>1
       DEF SentOnce, Served, Sends, Counted, Held, NoDebt, ErrorOnce, CloseOnce, Closing
<1>9. CASE todo' = <<"on_send", "done">>
  <2>1. sending' = FALSE /\ buffer' = 0 /\ todo' \notin Resending
    BY <1>2, <1>9 DEF Resending
  <2>2. sends \in Nat /\ Count(port, SendOps) \in Nat /\ sending \in BOOLEAN
    BY <1>5 DEF StreamTypes
  <2>3. SentOnce' /\ Served'
    BY <1>3, <1>6, <2>1, <2>2 DEF SentOnce, Served, Sends
  <2>4. Counted' /\ Held' /\ ErrorOnce' /\ CloseOnce' /\ Closing'
    BY <1>3, <1>4, <1>6 DEF Counted, Held, NoDebt, ErrorOnce, CloseOnce, Closing
  <2> QED
    BY <1>7, <2>3, <2>4
<1> QED
  BY <1>2, <1>8, <1>9

(* ... and sends it.                                                       *)
LEMMA ResendInv == ASSUME StreamInv, TheStream!Resend PROVE StreamInv'
<1> USE DEF StreamInv
<1>1. todo = <<"resend", "on_send", "done">> /\ todo' = <<"on_send", "done">>
  <2>1. todo \in Rests /\ todo # <<>> /\ Head(todo) = "resend" /\ todo' = Tail(todo)
    BY DEF TheStream!Resend, TheStream!Is, TheStream!Done, StreamTypes
  <2>2. todo = <<"resend", "on_send", "done">>
    BY <2>1, HeadsAre
  <2> QED
    BY <2>1, <2>2 DEF Reports, Delivers
<1>2. /\ todo \in Resending /\ todo' \notin Resending /\ todo' \in Rests
      /\ todo \notin Failing /\ todo' \notin Failing
      /\ todo \notin Releasing /\ todo' \notin Releasing
      /\ todo \notin Quiet /\ todo # <<>> /\ todo' # <<>>
      /\ todo # Reports /\ todo' # Reports /\ todo # Delivers /\ todo' # Delivers
      /\ todo # <<"on_error", "done">>
  BY <1>1 DEF Rests, Resending, Failing, Releasing, Quiet, Ended, Delivers, Reports
<1>3. UNCHANGED <<closed, errpost, closepost, sending, buffer, recvs, told, late>>
  BY DEF TheStream!Resend, TheStream!flags
<1>4. /\ ref' = ref + 1 /\ active' = active + 1
      /\ \/ sends' = sends + 1 /\ Gains(0, 0, 0, 0, 0)
         \/ sends' = sends /\ Gains(1, 1, 1, 0, 0)
  BY StartSendCases DEF TheStream!Resend
<1> USE DEF Gains, One
<1>5. StreamTypes'
  BY <1>2, <1>3, <1>4 DEF StreamTypes
<1>6. SentOnce' /\ Served'
  BY <1>2, <1>3, <1>4 DEF SentOnce, Served, Sends, StreamTypes
<1>7. Counted' /\ Held'
  <2>1. Counted'
    <3>1. active \in Int /\ recvs \in Nat /\ sends \in Nat
      BY DEF StreamTypes
    <3>2. /\ sends' + Len(port') - active' = sends + Len(port) - active
          /\ sends' \in Nat /\ Len(port') \in Nat /\ active' \in Int /\ Len(port) \in Nat
      BY <1>4, <3>1, SMTT(30)
    <3> QED
      BY <1>2, <1>3, <3>1, <3>2, SMTT(30) DEF Counted
  <2>2. Held'
    <3> SUFFICES ASSUME NoDebt
                 PROVE  (ref >= recvs + sends + Count(port, Ops) + One(todo \in Releasing))'
      BY DEF Held, NoDebt
    <3>1. ref >= recvs + sends + Count(port, Ops) + One(todo \in Releasing)
      BY DEF Held
    <3> QED
      BY <1>2, <1>3, <1>4, <3>1, SMTT(30) DEF StreamTypes
  <2> QED
    BY <2>1, <2>2
<1>8. ErrorOnce' /\ CloseOnce'
  BY <1>2, <1>3, <1>4 DEF ErrorOnce, CloseOnce
<1>9. Closing'
  BY <1>2, <1>3, <1>4 DEF Closing
<1> QED
  BY <1>5, <1>6, <1>7, <1>8, <1>9

(* The job that closes the socket.                                         *)
LEMMA CloseSocketInv == ASSUME StreamInv, TheStream!CloseSocket PROVE StreamInv'
<1> USE DEF StreamInv
<1>1. todo = <<"close_socket", "done">> /\ todo' = <<"done">>
  <2>1. todo \in Rests /\ todo # <<>> /\ Head(todo) = "close_socket" /\ todo' = Tail(todo)
    BY DEF TheStream!CloseSocket, TheStream!Is, TheStream!Done, StreamTypes
  <2>2. todo = <<"close_socket", "done">>
    BY <2>1, HeadsAre
  <2> QED
    BY <2>1, <2>2 DEF Reports, Delivers
<1>2. /\ todo' \in Ended /\ todo' \in Quiet /\ todo' \in Rests
      /\ todo \notin Resending /\ todo' \notin Resending
      /\ todo \notin Failing /\ todo' \notin Failing
      /\ todo \notin Releasing /\ todo' \notin Releasing
      /\ todo # <<>> /\ todo' # <<>> /\ todo \notin Ended
      /\ todo # Reports /\ todo' # Reports /\ todo # Delivers /\ todo' # Delivers
      /\ todo # <<"on_error", "done">>
  BY <1>1 DEF Rests, Resending, Failing, Releasing, Quiet, Ended, Delivers, Reports
<1>3. Gains(0, 0, 0, 0, 0)
  BY GainsNothing DEF StreamTypes, TheStream!CloseSocket
<1>4. UNCHANGED <<closed, errpost, closepost, ref, sending, buffer, recvs, sends, port, active,
                  told, late>>
  BY DEF TheStream!CloseSocket, TheStream!flags, TheStream!kernel
<1>5. StreamTypes'
  BY <1>2, <1>4 DEF StreamTypes
<1>6. SentOnce' /\ Served' /\ Counted' /\ Held'
  BY <1>2, <1>4 DEF SentOnce, Served, Sends, Counted, Held, NoDebt, One
<1>7. ErrorOnce' /\ CloseOnce' /\ Closing'
  BY <1>2, <1>4 DEF ErrorOnce, CloseOnce, Closing, One
<1> QED
  BY <1>5, <1>6, <1>7

(* The job of _post_error() up to on_error().                              *)
LEMMA DeliverErrorInv == ASSUME StreamInv, TheStream!DeliverError PROVE StreamInv'
<1> USE DEF StreamInv
<1>1. todo = Reports /\ todo' = <<"on_error", "done">>
  <2>1. todo \in Rests /\ todo # <<>> /\ Head(todo) = "deliver_error" /\ todo' = Tail(todo)
    BY DEF TheStream!DeliverError, TheStream!Is, TheStream!Done, StreamTypes
  <2>2. todo = <<"deliver_error", "on_error", "done">>
    BY <2>1, HeadsAre
  <2> QED
    BY <2>1, <2>2 DEF Reports, Delivers
<1>2. /\ todo' \in Quiet /\ todo' \in Rests /\ todo' \notin Ended
      /\ todo \notin Resending /\ todo' \notin Resending
      /\ todo \notin Failing /\ todo' \notin Failing
      /\ todo \notin Releasing /\ todo' \notin Releasing
      /\ todo # <<>> /\ todo' # <<>> /\ todo \notin Quiet
      /\ todo' # Reports /\ todo # Delivers /\ todo' # Delivers
  BY <1>1 DEF Rests, Resending, Failing, Releasing, Quiet, Ended, Delivers, Reports
<1>3. /\ errpost' = "end"
      /\ UNCHANGED <<closed, ref, sending, buffer, recvs, sends, told, late>>
  BY DEF TheStream!DeliverError, TheStream!kernel
<1>4. errpost = "begin"
  <2>1. Count(port, {"error"}) \in Nat
    BY CountType DEF StreamTypes
  <2> QED
    BY <1>1, <2>1 DEF ErrorOnce, One
<1>5. closepost = "not"
  BY <1>4 DEF Closing
<1>6. \/ /\ closed /\ ref = 0 /\ closepost' = "begin" /\ active' = active + 1
         /\ Gains(1, 0, 0, 0, 1) /\ port' # <<>> /\ port'[Len(port')] = "close"
      \/ /\ closepost' = closepost /\ active' = active /\ Gains(0, 0, 0, 0, 0)
  <2>1. active \in Int
    BY DEF StreamTypes
  <2>2. TheStream!PostClose(<<>>, closed, "end")
    BY DEF TheStream!DeliverError
  <2>3. First(0, 1, <<>>) /\ 0 = 0
    BY DEF First
  <2> QED
    BY <2>1, <2>2, <2>3, PostCloseCases
<1> USE DEF Gains, One
<1>7. StreamTypes'
  BY <1>2, <1>3, <1>5, <1>6 DEF StreamTypes
<1>8. SentOnce' /\ Served'
  BY <1>2, <1>3, <1>6 DEF SentOnce, Served, Sends
<1>9. Counted' /\ Held'
  <2>1. Counted'
    <3>1. active \in Int /\ recvs \in Nat /\ sends \in Nat
      BY DEF StreamTypes
    <3> QED
      BY <1>2, <1>3, <1>5, <1>6, <3>1 DEF Counted
  <2>2. Held'
    <3> SUFFICES ASSUME NoDebt
                 PROVE  (ref >= recvs + sends + Count(port, Ops) + One(todo \in Releasing))'
      BY DEF Held, NoDebt
    <3>1. ref >= recvs + sends + Count(port, Ops) + One(todo \in Releasing)
      BY DEF Held
    <3> QED
      BY <1>2, <1>3, <1>5, <1>6, <3>1 DEF StreamTypes
  <2> QED
    BY <2>1, <2>2
<1>10. ErrorOnce'
  BY <1>1, <1>2, <1>3, <1>4, <1>6 DEF ErrorOnce
<1>11. CloseOnce'
  BY <1>2, <1>5, <1>6 DEF CloseOnce
<1>12. Closing'
  BY <1>2, <1>3, <1>5, <1>6 DEF Closing, StreamTypes, Held
<1> QED
  BY <1>7, <1>8, <1>9, <1>10, <1>11, <1>12

(* The job of _post_close() up to on_close().                              *)
LEMMA DeliverCloseInv == ASSUME StreamInv, TheStream!DeliverClose PROVE StreamInv'
<1> USE DEF StreamInv
<1>1. todo = Delivers /\ todo' = <<"on_close", "done">>
  <2>1. todo \in Rests /\ todo # <<>> /\ Head(todo) = "deliver_close" /\ todo' = Tail(todo)
    BY DEF TheStream!DeliverClose, TheStream!Is, TheStream!Done, StreamTypes
  <2>2. todo = <<"deliver_close", "on_close", "done">>
    BY <2>1, HeadsAre
  <2> QED
    BY <2>1, <2>2 DEF Reports, Delivers
<1>2. /\ todo' \in Ended /\ todo' \in Quiet /\ todo' \in Rests
      /\ todo \notin Resending /\ todo' \notin Resending
      /\ todo \notin Failing /\ todo' \notin Failing
      /\ todo \notin Releasing /\ todo' \notin Releasing
      /\ todo # <<>> /\ todo' # <<>>
      /\ todo # Reports /\ todo' # Reports /\ todo' # Delivers
      /\ todo # <<"on_error", "done">>
  BY <1>1 DEF Rests, Resending, Failing, Releasing, Quiet, Ended, Delivers, Reports
<1>3. Gains(0, 0, 0, 0, 0)
  BY GainsNothing DEF StreamTypes, TheStream!DeliverClose
<1>4. /\ closepost' = "end" /\ active' = active - 1
      /\ UNCHANGED <<closed, errpost, ref, sending, buffer, recvs, sends, port, told, late>>
  BY DEF TheStream!DeliverClose, TheStream!kernel
<1> USE DEF Gains, One
<1>5. closepost = "begin" /\ Count(port, {"close"}) = 0
  BY <1>1, <1>3 DEF CloseOnce
<1>6. NoDebt /\ ~late => port = <<>>
  <2> SUFFICES ASSUME NoDebt, ~late, port # <<>> PROVE FALSE
    OBVIOUS
  <2>1. port[Len(port)] = "close"
    BY <1>5 DEF Closing
  <2>2. Len(port) \in DOMAIN port /\ port[Len(port)] \in {"close"}
    BY <2>1, LenProperties DEF StreamTypes
  <2>3. Count(port, {"close"}) \in Nat \ {0}
    BY <2>2, CountSome DEF StreamTypes
  <2> QED
    BY <1>5, <2>3
<1>7. StreamTypes'
  BY <1>2, <1>4 DEF StreamTypes
<1>8. SentOnce' /\ Served'
  BY <1>2, <1>4 DEF SentOnce, Served, Sends
<1>9. Counted' /\ Held'
  <2>1. Counted'
    <3>1. active \in Int /\ recvs \in Nat /\ sends \in Nat
      BY DEF StreamTypes
    <3> QED
      BY <1>2, <1>3, <1>4, <1>5, <3>1 DEF Counted
  <2>2. Held'
    <3> SUFFICES ASSUME NoDebt
                 PROVE  (ref >= recvs + sends + Count(port, Ops) + One(todo \in Releasing))'
      BY DEF Held, NoDebt
    <3>1. ref >= recvs + sends + Count(port, Ops) + One(todo \in Releasing)
      BY DEF Held
    <3> QED
      BY <1>2, <1>3, <1>4, <1>5, <3>1 DEF StreamTypes
  <2> QED
    BY <2>1, <2>2
<1>10. ErrorOnce' /\ CloseOnce'
  BY <1>2, <1>4, <1>5 DEF ErrorOnce, CloseOnce
<1>11. Closing'
  BY <1>2, <1>4, <1>5, <1>6 DEF Closing
<1> QED
  BY <1>7, <1>8, <1>9, <1>10, <1>11

Callbacks ==
  {<<"on_recv", "done">>, <<"on_send", "done">>, <<"on_error", "done">>, <<"on_close", "done">>}

(* A callback comes to its end.                                            *)
LEMMA ReturnedCases ==
  ASSUME StreamTypes, TheStream!InCallback \/ TheStream!Is("on_close"), TheStream!Returned
  PROVE  /\ todo \in Callbacks /\ todo' = <<"done">>
         /\ todo' \in Ended /\ todo' \in Quiet /\ todo' \in Rests
         /\ todo \notin Resending /\ todo' \notin Resending
         /\ todo \notin Failing /\ todo' \notin Failing
         /\ todo \notin Releasing /\ todo' \notin Releasing
         /\ todo # <<>> /\ todo' # <<>>
         /\ todo # Reports /\ todo' # Reports /\ todo # Delivers /\ todo' # Delivers
         /\ told' \in Seq({"on_error", "on_close"})
         /\ (todo = <<"on_error", "done">> \/ \E i \in DOMAIN told : told[i] = "on_error")
              => \E i \in DOMAIN told' : told'[i] = "on_error"
<1>1. todo \in Callbacks /\ todo' = <<"done">>
  <2>1. /\ todo \in Rests /\ todo # <<>> /\ todo' = Tail(todo)
        /\ Head(todo) \in {"on_recv", "on_send", "on_error", "on_close"}
    BY DEF TheStream!InCallback, TheStream!Idle, TheStream!Is, TheStream!Returned,
           TheStream!Done, StreamTypes
  <2>2. todo \in Callbacks
    BY <2>1, HeadsAre DEF Callbacks
  <2>3. \A t \in Callbacks : Tail(t) = <<"done">>
    <3>1. /\ Tail(<<"on_recv", "done">>) = <<"done">> /\ Tail(<<"on_send", "done">>) = <<"done">>
          /\ Tail(<<"on_error", "done">>) = <<"done">> /\ Tail(<<"on_close", "done">>) = <<"done">>
      OBVIOUS
    <3> QED
      BY <3>1, Zenon DEF Callbacks
  <2> QED
    BY <2>1, <2>2, <2>3
<1>2. /\ todo' \in Ended /\ todo' \in Quiet /\ todo' \in Rests
      /\ todo \notin Resending /\ todo' \notin Resending
      /\ todo \notin Failing /\ todo' \notin Failing
      /\ todo \notin Releasing /\ todo' \notin Releasing
      /\ todo # <<>> /\ todo' # <<>>
      /\ todo # Reports /\ todo' # Reports /\ todo # Delivers /\ todo' # Delivers
  BY <1>1 DEF Callbacks, Rests, Resending, Failing, Releasing, Quiet, Ended, Delivers, Reports
<1>3. CASE Head(todo) \in {"on_error", "on_close"}
  <2> DEFINE head == Head(todo)
  <2>1. told' = Append(told, head) /\ told \in Seq({"on_error", "on_close"})
    BY <1>3 DEF TheStream!Returned, StreamTypes
  <2>2. todo = <<"on_error", "done">> => head = "on_error"
    OBVIOUS
  <2>3. head \in {"on_error", "on_close"}
    BY <1>3
  <2> HIDE DEF head
  <2>4. /\ told' \in Seq({"on_error", "on_close"})
        /\ Len(told) \in Nat /\ DOMAIN told = 1 .. Len(told)
        /\ DOMAIN told' = 1 .. (Len(told) + 1)
        /\ told'[Len(told) + 1] = head
        /\ \A i \in 1 .. Len(told) : told'[i] = told[i]
    BY <2>1, <2>3, LenProperties, AppendProperties
  <2>5. CASE todo = <<"on_error", "done">>
    <3>1. Len(told) + 1 \in DOMAIN told'
      BY <2>4
    <3>2. told'[Len(told) + 1] = "on_error"
      BY <2>2, <2>4, <2>5
    <3> QED
      BY <1>1, <1>2, <2>4, <3>1, <3>2
  <2>6. CASE todo # <<"on_error", "done">>
    <3>1. ASSUME NEW i \in DOMAIN told, told[i] = "on_error"
          PROVE  i \in DOMAIN told' /\ told'[i] = "on_error"
      BY <2>4, <3>1
    <3> QED
      BY <1>1, <1>2, <2>4, <2>6, <3>1
  <2> QED
    BY <2>5, <2>6
<1>4. CASE Head(todo) \notin {"on_error", "on_close"}
  <2>1. told' = told
    BY <1>4 DEF TheStream!Returned
  <2>2. todo # <<"on_error", "done">>
    BY <1>4
  <2> QED
    BY <1>1, <1>2, <2>1, <2>2 DEF StreamTypes
<1> QED
  BY <1>3, <1>4

LEMMA ReturnsInv == ASSUME StreamInv, TheStream!CallbackReturns PROVE StreamInv'
<1> USE DEF StreamInv
<1>1. /\ todo \in Callbacks /\ todo' = <<"done">>
      /\ todo' \in Ended /\ todo' \in Quiet /\ todo' \in Rests
      /\ todo \notin Resending /\ todo' \notin Resending
      /\ todo \notin Failing /\ todo' \notin Failing
      /\ todo \notin Releasing /\ todo' \notin Releasing
      /\ todo # <<>> /\ todo' # <<>>
      /\ todo # Reports /\ todo' # Reports /\ todo # Delivers /\ todo' # Delivers
      /\ told' \in Seq({"on_error", "on_close"})
      /\ (todo = <<"on_error", "done">> \/ \E i \in DOMAIN told : told[i] = "on_error")
           => \E i \in DOMAIN told' : told'[i] = "on_error"
  BY ReturnedCases DEF TheStream!CallbackReturns
<1>2. UNCHANGED <<closed, errpost, closepost, sending, buffer, sends, late>>
  BY DEF TheStream!CallbackReturns, TheStream!flags
<1>3. \/ /\ todo \notin Quiet
         /\ ref' = ref + 1 /\ active' = active + 1
         /\ \/ recvs' = recvs + 1 /\ Gains(0, 0, 0, 0, 0)
            \/ recvs' = recvs /\ Gains(1, 1, 0, 0, 0)
      \/ UNCHANGED <<ref, recvs, port, active>> /\ Gains(0, 0, 0, 0, 0)
  <2>1. CASE TheStream!Is("on_recv")
    <3>1. Head(todo) = "on_recv"
      BY <2>1 DEF TheStream!Is
    <3>2. todo \notin Quiet
      <4>1. todo = <<"on_recv", "done">>
        BY <1>1, <3>1, HeadsAre DEF StreamTypes
      <4> QED
        BY <4>1 DEF Quiet, Ended, Delivers
    <3>3. TheStream!StartRecv
      BY <2>1 DEF TheStream!CallbackReturns
    <3> QED
      BY <3>2, <3>3, StartRecvCases
  <2>2. CASE ~TheStream!Is("on_recv")
    BY <2>2, GainsNothing DEF TheStream!CallbackReturns, StreamTypes
  <2> QED
    BY <2>1, <2>2
<1> USE DEF Gains, One
<1>4. StreamTypes'
  BY <1>1, <1>2, <1>3 DEF StreamTypes
<1>5. SentOnce' /\ Served'
  BY <1>1, <1>2, <1>3 DEF SentOnce, Served, Sends, StreamTypes
<1>6. Counted' /\ Held'
  <2>1. Counted'
    <3>1. active \in Int /\ recvs \in Nat /\ sends \in Nat
      BY DEF StreamTypes
    <3>2. /\ recvs' + Len(port') - active' = recvs + Len(port) - active
          /\ recvs' \in Nat /\ Len(port') \in Nat /\ active' \in Int /\ Len(port) \in Nat
      BY <1>3, <3>1, SMTT(30)
    <3> QED
      BY <1>1, <1>2, <3>1, <3>2, SMTT(30) DEF Counted
  <2>2. Held'
    <3> SUFFICES ASSUME NoDebt
                 PROVE  (ref >= recvs + sends + Count(port, Ops) + One(todo \in Releasing))'
      BY DEF Held, NoDebt
    <3>1. ref >= recvs + sends + Count(port, Ops) + One(todo \in Releasing)
      BY DEF Held
    <3> QED
      BY <1>1, <1>2, <1>3, <3>1, SMTT(30) DEF StreamTypes
  <2> QED
    BY <2>1, <2>2
<1>7. ErrorOnce'
  BY <1>1, <1>2, <1>3 DEF ErrorOnce
<1>8. CloseOnce'
  BY <1>1, <1>2, <1>3 DEF CloseOnce
<1>9. Closing'
  BY <1>1, <1>2, <1>3 DEF Closing
<1> QED
  BY <1>4, <1>5, <1>6, <1>7, <1>8, <1>9

LEMMA CallbackClosesInv == ASSUME StreamInv, TheStream!CallbackCloses PROVE StreamInv'
<1> USE DEF StreamInv
<1>1. /\ todo \in Callbacks /\ todo' = <<"done">>
      /\ todo' \in Ended /\ todo' \in Quiet /\ todo' \in Rests
      /\ todo \notin Resending /\ todo' \notin Resending
      /\ todo \notin Failing /\ todo' \notin Failing
      /\ todo \notin Releasing /\ todo' \notin Releasing
      /\ todo # <<>> /\ todo' # <<>>
      /\ todo # Reports /\ todo' # Reports /\ todo # Delivers /\ todo' # Delivers
      /\ told' \in Seq({"on_error", "on_close"})
      /\ (todo = <<"on_error", "done">> \/ \E i \in DOMAIN told : told[i] = "on_error")
           => \E i \in DOMAIN told' : told'[i] = "on_error"
  BY ReturnedCases DEF TheStream!CallbackCloses
<1>2. UNCHANGED <<ref, sending, buffer, recvs, sends, late>>
  BY DEF TheStream!CallbackCloses, TheStream!kernel
<1>3. /\ closed'
      /\ \/ /\ errpost = "not" /\ errpost' = "begin" /\ closepost' = closepost
            /\ active' = active + 1 /\ Gains(1, 0, 0, 1, 0)
         \/ /\ errpost = "end" /\ errpost' = "end" /\ closed' /\ ref = 0
            /\ closepost = "not" /\ closepost' = "begin"
            /\ active' = active + 1 /\ Gains(1, 0, 0, 0, 1)
            /\ port' # <<>> /\ port'[Len(port')] = "close"
         \/ /\ errpost # "not" /\ errpost' = errpost /\ closepost' = closepost
            /\ active' = active /\ Gains(0, 0, 0, 0, 0) /\ port' = port
  <2>1. active \in Int /\ closed \in BOOLEAN
    BY DEF StreamTypes
  <2>2. TheStream!InternalClose(TRUE, <<>>) /\ TRUE \in BOOLEAN
    BY DEF TheStream!CallbackCloses
  <2>3. First(0, 1, <<>>) /\ 0 = 0
    BY DEF First
  <2>4. /\ closed' = (closed \/ TRUE)
        /\ \/ /\ errpost = "not" /\ errpost' = "begin" /\ closepost' = closepost
              /\ active' = active + 1 /\ Gains(1, 0, 0, 1, 0)
           \/ /\ errpost = "end" /\ errpost' = "end" /\ closed' /\ ref = 0
              /\ closepost = "not" /\ closepost' = "begin"
              /\ active' = active + 1 /\ Gains(1, 0, 0, 0, 1)
              /\ port' # <<>> /\ port'[Len(port')] = "close"
           \/ /\ errpost # "not" /\ errpost' = errpost /\ closepost' = closepost
              /\ active' = active + 0 /\ Gains(0, 0, 0, 0, 0) /\ (0 = 0 => port' = port)
    BY <2>2, <2>3, InternalCloseCases
  <2>5. closed' = TRUE
    BY <2>4
  <2> QED
    BY <2>1, <2>4, <2>5
<1>4. closed' \in BOOLEAN
  BY DEF TheStream!CallbackCloses, TheStream!InternalClose
<1>5. /\ todo' \in Ended /\ todo' \in Quiet /\ todo # <<>> /\ todo' # <<>>
       /\ todo # Delivers /\ todo' # Delivers
  BY <1>1
<1> USE DEF Gains, One
<1>6. StreamTypes'
  BY <1>1, <1>2, <1>3, <1>4 DEF StreamTypes
<1>7. SentOnce' /\ Served'
  BY <1>1, <1>2, <1>3 DEF SentOnce, Served, Sends
<1>8. Counted' /\ Held'
  <2>1. Counted'
    <3>1. active \in Int /\ recvs \in Nat /\ sends \in Nat
      BY DEF StreamTypes
    <3> QED
      BY <1>5, <1>2, <1>3, <3>1 DEF Counted, Closing
  <2>2. Held'
    <3> SUFFICES ASSUME NoDebt
                 PROVE  (ref >= recvs + sends + Count(port, Ops) + One(todo \in Releasing))'
      BY DEF Held, NoDebt
    <3>1. ref >= recvs + sends + Count(port, Ops) + One(todo \in Releasing)
      BY DEF Held
    <3> QED
      BY <1>1, <1>2, <1>3, <3>1 DEF StreamTypes, Closing
  <2> QED
    BY <2>1, <2>2
<1>9. ErrorOnce'
  BY <1>1, <1>2, <1>3 DEF ErrorOnce
<1>10. CloseOnce'
  BY <1>5, <1>2, <1>3 DEF CloseOnce, Closing
<1>11. Closing'
  BY <1>5, <1>2, <1>3, <1>4 DEF Closing, StreamTypes, Held
<1> QED
  BY <1>6, <1>7, <1>8, <1>9, <1>10, <1>11

(* Another thread closes: late, when the error has been delivered.         *)
LEMMA UserClosesInv == ASSUME StreamInv, TheStream!UserCloses PROVE StreamInv'
<1> USE DEF StreamInv
<1>1. late' = (late \/ errpost = "end")
      /\ UNCHANGED <<ref, sending, buffer, recvs, sends, todo, told>>
  BY DEF TheStream!UserCloses, TheStream!kernel
<1>2. /\ closed'
      /\ \/ /\ errpost = "not" /\ errpost' = "begin" /\ closepost' = closepost
            /\ active' = active + 2 /\ Gains(2, 0, 0, 1, 0)
         \/ /\ errpost = "end" /\ errpost' = "end" /\ closed' /\ ref = 0
            /\ closepost = "not" /\ closepost' = "begin"
            /\ active' = active + 2 /\ Gains(2, 0, 0, 0, 1)
         \/ /\ errpost # "not" /\ errpost' = errpost /\ closepost' = closepost
            /\ active' = active + 1 /\ Gains(1, 0, 0, 0, 0)
  <2>1. active \in Int /\ closed \in BOOLEAN
    BY DEF StreamTypes
  <2>2. TheStream!InternalClose(TRUE, <<"socket">>)
    BY DEF TheStream!UserCloses
  <2>3. First(1, 2, <<"socket">>) /\ 0 = 0
    BY DEF First
  <2> QED
    BY <2>1, <2>2, <2>3, InternalCloseCases
<1>3. closed' \in BOOLEAN
  BY DEF TheStream!UserCloses, TheStream!InternalClose
<1> USE DEF Gains, One
<1>4. StreamTypes'
  BY <1>1, <1>2, <1>3 DEF StreamTypes
<1>5. SentOnce' /\ Served'
  BY <1>1, <1>2 DEF SentOnce, Served, Sends
<1>6. Counted' /\ Held'
  <2>1. Counted'
    <3>1. active \in Int /\ recvs \in Nat /\ sends \in Nat
      BY DEF StreamTypes
    <3> QED
      BY <1>1, <1>2, <3>1 DEF Counted
  <2>2. Held'
    <3> SUFFICES ASSUME NoDebt
                 PROVE  (ref >= recvs + sends + Count(port, Ops) + One(todo \in Releasing))'
      BY DEF Held, NoDebt
    <3>1. ref >= recvs + sends + Count(port, Ops) + One(todo \in Releasing)
      BY DEF Held
    <3> QED
      BY <1>1, <1>2, <3>1 DEF StreamTypes
  <2> QED
    BY <2>1, <2>2
<1>7. ErrorOnce'
  BY <1>1, <1>2 DEF ErrorOnce, StreamTypes
<1>8. CloseOnce'
  BY <1>1, <1>2 DEF CloseOnce, StreamTypes
<1>9. Closing'
  BY <1>1, <1>2 DEF Closing, StreamTypes
<1> QED
  BY <1>4, <1>5, <1>6, <1>7, <1>8, <1>9

(* The kernel completes a receive: its reference moves to the port.        *)
LEMMA RecvCompletesInv == ASSUME StreamInv, TheStream!RecvCompletes PROVE StreamInv'
<1> USE DEF StreamInv
<1>1. /\ recvs > 0 /\ recvs' = recvs - 1
      /\ UNCHANGED <<closed, errpost, closepost, ref, sending, buffer, sends, active, todo, told,
                     late>>
  BY DEF TheStream!RecvCompletes, TheStream!flags
<1>2. PICK x \in {"received", "recv_failed"} : port' = Append(port, x)
  BY DEF TheStream!RecvCompletes
<1>3. Gains(1, 1, 0, 0, 0)
  <2>1. x \in Packets /\ x \in Ops /\ x \notin SendOps /\ x # "error" /\ x # "close"
    BY <1>2 DEF Packets, Ops, SendOps
  <2>2. One(x \in Ops) = 1 /\ One(x \in SendOps) = 0 /\ One(x = "error") = 0 /\ One(x = "close") = 0
    BY <2>1 DEF One
  <2> QED
    BY <1>2, <2>1, <2>2, GainsOne DEF StreamTypes
<1> USE DEF Gains, One
<1>4. StreamTypes'
  BY <1>1, <1>3 DEF StreamTypes
<1>5. SentOnce' /\ Served'
  BY <1>1, <1>3 DEF SentOnce, Served, Sends
<1>6. Counted' /\ Held'
  <2>1. Counted'
    <3>1. active \in Int /\ recvs \in Nat /\ sends \in Nat
      BY DEF StreamTypes
    <3> QED
      BY <1>1, <1>3, <3>1 DEF Counted
  <2>2. Held'
    <3> SUFFICES ASSUME NoDebt
                 PROVE  (ref >= recvs + sends + Count(port, Ops) + One(todo \in Releasing))'
      BY DEF Held, NoDebt
    <3>1. ref >= recvs + sends + Count(port, Ops) + One(todo \in Releasing)
      BY DEF Held
    <3> QED
      BY <1>1, <1>3, <3>1 DEF StreamTypes
  <2> QED
    BY <2>1, <2>2
<1>7. ErrorOnce' /\ CloseOnce' /\ Closing'
  BY <1>1, <1>3 DEF ErrorOnce, CloseOnce, Closing
<1> QED
  BY <1>4, <1>5, <1>6, <1>7

LEMMA SendCompletesInv == ASSUME StreamInv, TheStream!SendCompletes PROVE StreamInv'
<1> USE DEF StreamInv
<1>1. /\ sends > 0 /\ sends' = sends - 1
      /\ UNCHANGED <<closed, errpost, closepost, ref, sending, buffer, recvs, active, todo, told,
                     late>>
  BY DEF TheStream!SendCompletes, TheStream!flags
<1>2. PICK x \in SendOps : port' = Append(port, x)
  BY DEF TheStream!SendCompletes, SendOps
<1>3. Gains(1, 1, 1, 0, 0)
  <2>1. x \in Packets /\ x \in Ops /\ x \in SendOps /\ x # "error" /\ x # "close"
    BY <1>2 DEF Packets, Ops, SendOps
  <2>2. One(x \in Ops) = 1 /\ One(x \in SendOps) = 1 /\ One(x = "error") = 0 /\ One(x = "close") = 0
    BY <2>1 DEF One
  <2> QED
    BY <1>2, <2>1, <2>2, GainsOne DEF StreamTypes
<1> USE DEF Gains, One
<1>4. StreamTypes'
  BY <1>1, <1>3 DEF StreamTypes
<1>5. SentOnce' /\ Served'
  <2>1. sends \in Nat /\ sends' + Count(port', SendOps) = sends + Count(port, SendOps)
    BY <1>1, <1>3 DEF StreamTypes
  <2>2. Sends' = Sends
    BY <1>1, <2>1 DEF Sends
  <2> QED
    BY <1>1, <2>2 DEF SentOnce, Served
<1>6. Counted' /\ Held'
  <2>1. Counted'
    <3>1. active \in Int /\ recvs \in Nat /\ sends \in Nat
      BY DEF StreamTypes
    <3> QED
      BY <1>1, <1>3, <3>1 DEF Counted
  <2>2. Held'
    <3> SUFFICES ASSUME NoDebt
                 PROVE  (ref >= recvs + sends + Count(port, Ops) + One(todo \in Releasing))'
      BY DEF Held, NoDebt
    <3>1. ref >= recvs + sends + Count(port, Ops) + One(todo \in Releasing)
      BY DEF Held
    <3> QED
      BY <1>1, <1>3, <3>1 DEF StreamTypes
  <2> QED
    BY <2>1, <2>2
<1>7. ErrorOnce' /\ CloseOnce' /\ Closing'
  BY <1>1, <1>3 DEF ErrorOnce, CloseOnce, Closing
<1> QED
  BY <1>4, <1>5, <1>6, <1>7

(* What the handler of each packet begins with.                            *)
LEMMA HandlersAre ==
  /\ TheStream!Handler("received") = <<"unref", "on_recv", "done">>
  /\ TheStream!Handler("sent") = <<"unref", "take", "on_send", "done">>
  /\ TheStream!Handler("recv_failed") = <<"unref", "fail", "done">>
  /\ TheStream!Handler("send_failed") = <<"unref", "fail", "done">>
  /\ TheStream!Handler("socket") = <<"close_socket", "done">>
  /\ TheStream!Handler("error") = Reports
  /\ TheStream!Handler("close") = Delivers
BY DEF TheStream!Handler, Reports, Delivers

(* The engine takes a packet: what it stood for is in the handler now.     *)
LEMMA TakePacketInv == ASSUME StreamInv, TheStream!TakePacket PROVE StreamInv'
<1> USE DEF StreamInv
<1> DEFINE x == Head(port)
<1>1. /\ todo = <<>> /\ port # <<>> /\ port' = Tail(port) /\ todo' = TheStream!Handler(x)
      /\ UNCHANGED <<closed, errpost, closepost, ref, sending, buffer, recvs, sends, active, told,
                     late>>
  BY DEF TheStream!TakePacket, TheStream!Idle, TheStream!flags, TheStream!kernel
<1>2. /\ x \in Packets
      /\ Gains(-1, -One(x \in Ops), -One(x \in SendOps), -One(x = "error"), -One(x = "close"))
      /\ port' # <<>> => port'[Len(port')] = port[Len(port)]
      /\ port' = <<>> => Len(port) = 1 /\ x = port[Len(port)]
  BY <1>1, LosesFirst DEF StreamTypes
<1>3. /\ todo \in Ended /\ todo \in Quiet /\ todo \notin Resending /\ todo \notin Failing
      /\ todo \notin Releasing /\ todo # Reports /\ todo # Delivers
      /\ todo # <<"on_error", "done">>
  BY <1>1 DEF Resending, Failing, Releasing, Quiet, Ended, Delivers, Reports
<1> HIDE DEF x
<1>4. /\ todo' \in Rests /\ todo' # <<>>
      /\ todo' \in Releasing <=> x \in Ops
      /\ todo' \in Resending <=> x = "sent"
      /\ todo' \in Failing <=> x \in {"recv_failed", "send_failed"}
      /\ todo' = Reports <=> x = "error"
      /\ todo' = Delivers <=> x = "close"
      /\ todo' \in Quiet <=> x \in {"socket", "close"}
  <2>1. CASE x = "received"
    BY <1>1, <2>1, HandlersAre
       DEF Ops, Rests, Resending, Failing, Releasing, Quiet, Ended, Delivers, Reports
  <2>2. CASE x = "sent"
    BY <1>1, <2>2, HandlersAre
       DEF Ops, Rests, Resending, Failing, Releasing, Quiet, Ended, Delivers, Reports
  <2>3. CASE x \in {"recv_failed", "send_failed"}
    BY <1>1, <2>3, HandlersAre
       DEF Ops, Rests, Resending, Failing, Releasing, Quiet, Ended, Delivers, Reports
  <2>4. CASE x = "socket"
    <3>1. todo' = <<"close_socket", "done">>
      BY <1>1, <2>4, HandlersAre
    <3> QED
      BY <2>4, <3>1, SMTT(30)
       DEF Ops, Rests, Resending, Failing, Releasing, Quiet, Ended, Delivers, Reports
  <2>5. CASE x = "error"
    BY <1>1, <2>5, HandlersAre
       DEF Ops, Rests, Resending, Failing, Releasing, Quiet, Ended, Delivers, Reports
  <2>6. CASE x = "close"
    BY <1>1, <2>6, HandlersAre
       DEF Ops, Rests, Resending, Failing, Releasing, Quiet, Ended, Delivers, Reports
  <2> QED
    BY <1>2, <2>1, <2>2, <2>3, <2>4, <2>5, <2>6 DEF Packets, Ops
<1>5. x \in Ops <=> x \in {"received", "recv_failed"} \/ x \in SendOps
  BY DEF Ops, SendOps
<1>6. x \in SendOps <=> x = "sent" \/ x = "send_failed"
  BY DEF SendOps
<1> USE DEF Gains, One
<1>7. StreamTypes'
  BY <1>1, <1>2, <1>4 DEF StreamTypes
<1>8. SentOnce' /\ Served'
  BY <1>1, <1>2, <1>3, <1>4, <1>6 DEF SentOnce, Served, Sends, StreamTypes
<1>9. Counted' /\ Held'
  <2>1. Counted'
    <3>1. active \in Int /\ recvs \in Nat /\ sends \in Nat
      BY DEF StreamTypes
    <3> QED
      BY <1>1, <1>2, <1>3, <1>4, <3>1 DEF Counted
  <2>2. Held'
    <3> SUFFICES ASSUME NoDebt
                 PROVE  (ref >= recvs + sends + Count(port, Ops) + One(todo \in Releasing))'
      BY DEF Held, NoDebt
    <3>1. ref >= recvs + sends + Count(port, Ops) + One(todo \in Releasing)
      BY DEF Held
    <3> QED
      BY <1>1, <1>2, <1>3, <1>4, <3>1 DEF StreamTypes
  <2> QED
    BY <2>1, <2>2
<1>10. ErrorOnce' /\ CloseOnce'
  BY <1>1, <1>2, <1>3, <1>4 DEF ErrorOnce, CloseOnce, StreamTypes
<1>11. Closing'
  <2> SUFFICES ASSUME closepost # "not" PROVE Closing'
    BY <1>1 DEF Closing
  <2>1. closed' /\ errpost' = "end"
    BY <1>1 DEF Closing
  <2> SUFFICES ASSUME NoDebt, ~late
               PROVE  /\ recvs = 0 /\ sends = 0 /\ Count(port', Ops) = 0
                      /\ todo' \in Quiet
                      /\ closepost = "begin" =>
                           IF port' = <<>> THEN todo' = Delivers ELSE port'[Len(port')] = "close"
                      /\ closepost = "end" => port' = <<>> /\ todo' \in Ended
    BY <1>1, <2>1 DEF Closing
  <2>2. /\ recvs = 0 /\ sends = 0 /\ Count(port, Ops) = 0
        /\ closepost = "begin" /\ port[Len(port)] = "close"
    BY <1>1 DEF Closing, StreamTypes
  (* No operation and no error is left in the port.                        *)
  <2>3. x \notin Ops /\ Count(port', Ops) = 0
    <3>1. Count(port', Ops) \in Nat
      BY <1>2, CountType
    <3>2. x \notin Ops
      <4> SUFFICES ASSUME x \in Ops PROVE FALSE
        OBVIOUS
      <4>1. One(x \in Ops) = 1 /\ Count(port', Ops) = Count(port, Ops) + -One(x \in Ops)
        BY <1>2
      <4> QED
        BY <2>2, <3>1, <4>1
    <3>3. Count(port', Ops) = 0
      <4>1. Count(port', Ops) = Count(port, Ops)
        BY <1>2, <3>2
      <4> QED
        BY <2>2, <4>1
    <3> QED
      BY <3>2, <3>3
  <2>4. x # "error"
    <3>1. Count(port', {"error"}) \in Nat
      BY <1>2, CountType
    <3>2. Count(port, {"error"}) = 0
      BY <1>1, <1>2, <1>3, <2>1 DEF ErrorOnce
    <3> QED
      BY <1>2, <3>1, <3>2
  <2>5. x \in {"socket", "close"}
    BY <1>2, <2>3, <2>4 DEF Packets
  <2> QED
    BY <1>2, <1>4, <2>2, <2>3, <2>5
<1> QED
  BY <1>7, <1>8, <1>9, <1>10, <1>11

LEMMA StreamNextInv == ASSUME StreamInv, TheStream!Next \/ UNCHANGED streamOnly PROVE StreamInv'
<1>1. CASE TheStream!TakePacket \/ TheStream!HandlerDone
  BY <1>1, TakePacketInv, DoneInv
<1>2. CASE TheStream!Unref \/ TheStream!Fail
  BY <1>2, UnrefInv, FailInv
<1>3. CASE TheStream!TakeRemains \/ TheStream!Resend
  BY <1>3, TakeRemainsInv, ResendInv
<1>4. CASE TheStream!CloseSocket \/ TheStream!DeliverError \/ TheStream!DeliverClose
  BY <1>4, CloseSocketInv, DeliverErrorInv, DeliverCloseInv
<1>5. CASE TheStream!CallbackReturns \/ TheStream!CallbackCloses \/ TheStream!UserCloses
  BY <1>5, ReturnsInv, CallbackClosesInv, UserClosesInv
<1>6. CASE TheStream!CallbackSends \/ TheStream!UserSends
  BY <1>6, SendInv DEF TheStream!CallbackSends, TheStream!UserSends, TheStream!flags
<1>7. CASE TheStream!Completes
  BY <1>7, RecvCompletesInv, SendCompletesInv DEF TheStream!Completes
<1>8. CASE UNCHANGED streamOnly
  BY <1>8, SameInv DEF streamOnly
<1> QED
  BY <1>1, <1>2, <1>3, <1>4, <1>5, <1>6, <1>7, <1>8 DEF TheStream!Next, TheStream!LoopStep

LEMMA StreamInvariance == TheStream!Spec => []StreamInv
<1>1. TheStream!Init => StreamInv
  BY StreamInitInv
<1>2. StreamInv /\ [TheStream!Next]_(TheStream!vars) => StreamInv'
  <2>1. TheStream!vars' = TheStream!vars => UNCHANGED streamOnly
    BY DEF TheStream!vars, TheStream!flags, TheStream!kernel, streamOnly
  <2> QED
    BY <2>1, StreamNextInv
<1> QED
  BY <1>1, <1>2, PTL DEF TheStream!Spec

(* One send of a stream is outstanding while there is something to send,   *)
(* and none is started beside it, however many threads call send().        *)
THEOREM OneSendTheorem == TheStream!Spec => []OneSend
<1>1. StreamInv => OneSend
  <2> SUFFICES ASSUME StreamInv PROVE OneSend
    OBVIOUS
  <2>1. TheStream!Sending = sends + Count(port, SendOps)
    <3>1. TheStream!Sending = sends + Cardinality({i \in DOMAIN port : port[i] \in SendOps})
      <4>1. TheStream!InPort(SendOps) = Cardinality({i \in DOMAIN port : port[i] \in SendOps})
        BY DEF TheStream!InPort, TheStream!Cardinality, Cardinality
      <4>2. TheStream!Sending = sends + TheStream!InPort(SendOps)
        BY DEF TheStream!Sending, SendOps
      <4> QED
        BY <4>1, <4>2
    <3> QED
      BY <3>1 DEF Count
  <2>2. sends \in Nat /\ Count(port, SendOps) \in Nat /\ buffer \in Nat
    BY CountType DEF StreamInv, StreamTypes
  <2>3. sends + Count(port, SendOps) <= 1
    BY <2>2 DEF StreamInv, SentOnce, Sends, One
  <2>4. ASSUME todo = <<>>, buffer > 0, errpost = "not"
        PROVE  sends + Count(port, SendOps) = 1
    <3>1. todo \notin Resending /\ todo \notin Failing
      BY <2>4 DEF Resending, Failing
    <3> QED
      BY <2>2, <2>4, <3>1 DEF StreamInv, SentOnce, Served, Sends, One
  <2> QED
    BY <2>1, <2>3, <2>4 DEF OneSend, TheStream!OneSend, TheStream!Idle
<1> QED
  BY <1>1, StreamInvariance, PTL

(* When on_close() comes no operation and no packet of the stream is left, *)
(* unless another thread called close() after on_error(): whatever the     *)
(* reference count started from, as long as that was not below zero.       *)
THEOREM ClosesAloneTheorem == ASSUME Leftover \subseteq Nat PROVE TheStream!Spec => []ClosesAlone
<1>1. StreamInv => ClosesAlone
  <2> SUFFICES ASSUME StreamInv, closepost = "end", ~late
               PROVE  /\ recvs + sends = 0 /\ port = <<>>
                      /\ "on_error" \in {told[i] : i \in DOMAIN told}
                      /\ active = IF TheStream!Is("deliver_close") \/ ~TheStream!Idle THEN 1 ELSE 0
    BY DEF ClosesAlone, TheStream!ClosesAlone
  <2>1. recvs = 0 /\ sends = 0 /\ port = <<>> /\ todo \in Ended /\ errpost = "end"
    BY DEF StreamInv, Closing, NoDebt
  <2>2. \E i \in DOMAIN told : told[i] = "on_error"
    BY <2>1 DEF StreamInv, ErrorOnce, Ended
  <2>3. Len(port) = 0
    BY <2>1
  <2>4. active = One(todo # <<>>)
    BY <2>1, <2>3 DEF StreamInv, Counted, One
  <2>5. TheStream!Is("deliver_close") => todo # <<>>
    BY DEF TheStream!Is
  <2> QED
    BY <2>1, <2>2, <2>4, <2>5 DEF TheStream!Idle, One
<1> QED
  BY <1>1, StreamInvariance, PTL
=============================================================================
