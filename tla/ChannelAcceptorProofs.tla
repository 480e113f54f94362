------------------------ MODULE ChannelAcceptorProofs ------------------------
(***************************************************************************)
(* Proofs about ChannelAcceptor for any number of connections, failures    *)
(* and activity references of the application.  They are about the build   *)
(* on completion ports, where one request is always outstanding.           *)
(*                                                                         *)
(* What the activity count is depends on where run() is: the jobs that it  *)
(* took are none outside of its tasks, before open() there is nothing, and *)
(* run() returns when nothing is counted.                                  *)
(***************************************************************************)
EXTENDS ChannelAcceptor, TLAPS

(* The parts of the state that are numbers, and those that are not.        *)
Numbers ==
  /\ jobs \in Nat /\ batch \in Nat /\ channels \in Nat /\ count \in Nat
  /\ active \in Int /\ starved \in Nat

Shape ==
  /\ request \in {"none", "pending", "completed", "failed", "queued", "taken"}
  /\ fd \in {"closed", "open", "shut"}
  /\ pc = "main" => request = "none" /\ fd = "closed"
  /\ pc # "tasks" => batch = 0
  /\ pc = "accepting" => Linux
  /\ ~Linux /\ fd = "open" => request # "none"

(* run() has returned with nothing left to do for it.                      *)
Returned == pc = "returned" => active = 0 /\ count = 0 /\ batch = 0

Inv == Numbers /\ Shape /\ HandleBalance /\ Returned
-----------------------------------------------------------------------------
LEMMA InvInit == Init => Inv
<1> SUFFICES ASSUME Init PROVE Inv
  OBVIOUS
<1>1. Numbers /\ Shape
  BY AcceptorAssumption DEF Init, Numbers, Shape
<1>2. HandleBalance
  BY AcceptorAssumption DEF Init, HandleBalance, Owed
<1>3. Returned
  BY DEF Init, Returned
<1> QED
  BY <1>1, <1>2, <1>3 DEF Inv

(* What the next request leaves behind.                                    *)
LEMMA DoAcceptResult ==
  ASSUME Numbers, NEW listening, NEW held \in Int, do_accept(listening, held)
  PROVE  /\ active' + starved' = active + starved + held + Owed'
         /\ active' \in Int /\ starved' \in Nat /\ request' \in {"pending", "queued"}
<1>1. CASE request' = "pending" /\ active' = active + held + 1 /\ starved' = starved
  BY <1>1 DEF Numbers, Owed
<1>2. CASE request' = "queued" /\ active' = active + held + 2 /\ starved' = starved
  BY <1>2 DEF Numbers, Owed
<1>3. CASE request' = "queued" /\ active' = active + held + 1 /\ starved' = starved + 1
  BY <1>3 DEF Numbers, Owed
<1> QED
  BY <1>1, <1>2, <1>3 DEF do_accept

(* The handler of a request, which gives one activity back, and leaves one *)
(* to run() if it was queued.                                              *)
LEMMA HandlerKeeps ==
  ASSUME Inv, NEW failed, on_accept_handler(failed), request # "none",
         NEW n \in Nat, count' = n, count + Owed = n + 1,
         UNCHANGED <<platform, fd, batch, channels>>,
         pc \in {"wait", "tasks"}, (pc' = "timers" /\ pc = "wait") \/ pc' = pc
  PROVE  Inv'
<1>1. PICK held \in {-1, 0} : do_accept(fd = "open", held) /\ jobs' = jobs + held + 1
  BY DEF on_accept_handler, Inv, Numbers
<1>2. held \in Int /\ jobs' \in Nat
  BY <1>1 DEF Inv, Numbers
<1>3. /\ active' + starved' = active + starved + held + Owed'
      /\ active' \in Int /\ starved' \in Nat /\ request' \in {"pending", "queued"}
  BY <1>1, <1>2, DoAcceptResult DEF Inv
<1>4. Numbers'
  BY <1>2, <1>3 DEF Inv, Numbers
<1>5. Shape' /\ Returned'
  BY <1>3 DEF Inv, Shape, Returned, Linux
<1>6. HandleBalance'
  <2> SUFFICES ASSUME ~Linux
               PROVE  active' = (Kept + count + jobs + batch + channels + Owed
                                  - starved - (IF fd = "shut" THEN 1 ELSE 0))'
    BY DEF HandleBalance, Linux
  <2> DEFINE shut == IF fd = "shut" THEN 1 ELSE 0
  <2>1. active = Kept + count + jobs + batch + channels + Owed - starved - shut
    BY DEF Inv, HandleBalance
  <2>2. Owed \in Int /\ Owed' \in Int /\ shut \in Int /\ shut' = shut
    BY DEF Owed
  <2> HIDE DEF shut
  <2>3. /\ Kept \in Int /\ jobs \in Int /\ batch \in Int /\ channels \in Int /\ count \in Int
        /\ active \in Int /\ starved \in Int
    BY AcceptorAssumption DEF Inv, Numbers
  <2>4. active + starved = Kept + (n + 1) + (jobs' - held - 1) + batch + channels - shut
    BY <1>1, <1>2, <2>1, <2>2, <2>3
  <2>5. active' = Kept + n + jobs' + batch + channels + Owed' - starved' - shut
    <3>1. PICK owed \in Int, more \in Int, lost \in Int, announced \in Int :
            owed = Owed' /\ more = active' /\ lost = starved' /\ announced = jobs'
      BY <1>2, <1>3, <2>2
    <3>2. more + lost = active + starved + held + owed
      BY <1>3, <3>1
    <3>3. active + starved = Kept + (n + 1) + (announced - held - 1) + batch + channels - shut
      BY <2>4, <3>1
    <3>4. more = Kept + n + announced + batch + channels + owed - lost - shut
      BY <1>2, <2>2, <2>3, <3>2, <3>3
    <3> QED
      BY <3>1, <3>4
  <2> QED
    BY <2>2, <2>5 DEF shut
<1> QED
  BY <1>4, <1>5, <1>6 DEF Inv

LEMMA InvNext == Inv /\ [Next]_vars => Inv'
<1> SUFFICES ASSUME Inv, [Next]_vars PROVE Inv'
  OBVIOUS
<1> USE AcceptorAssumption
<1>1. CASE Open
  <2>1. /\ request = "none" /\ fd = "closed" /\ pc = "main" /\ batch = 0
        /\ fd' = "open" /\ pc' = "wait"
        /\ UNCHANGED <<platform, jobs, batch, channels, count>>
    BY <1>1 DEF Open, Inv, Shape
  <2>2. CASE Linux
    BY <1>1, <2>1, <2>2 DEF Open, Inv, Numbers, Shape, HandleBalance, Returned, Linux
  <2>3. CASE ~Linux
    <3>1. do_accept(TRUE, 0)
      BY <1>1, <2>3, Zenon DEF Open
    <3>2. /\ active' + starved' = active + starved + 0 + Owed'
          /\ active' \in Int /\ starved' \in Nat /\ request' \in {"pending", "queued"}
      <4>1. Numbers /\ 0 \in Int
        BY DEF Inv
      <4> QED
        BY <3>1, <4>1, DoAcceptResult, Zenon
    <3>3. Numbers' /\ Shape' /\ Returned'
      BY <2>1, <3>2 DEF Inv, Numbers, Shape, Returned, Linux
    <3>4. Owed = 0 /\ Owed' \in Int
      BY <2>1 DEF Owed
    <3>5. HandleBalance'
      <4>1. active = Kept + count + jobs + batch + channels - starved
        BY <2>1, <2>3, <3>4, AcceptorAssumption DEF Inv, Numbers, HandleBalance
      <4>2. active' = Kept + count + jobs + batch + channels + Owed' - starved'
        <5>1. PICK owed \in Int, more \in Int, lost \in Int :
                owed = Owed' /\ more = active' /\ lost = starved'
          BY <3>2, <3>4
        <5>2. more + lost = active + starved + 0 + owed
          BY <3>2, <5>1
        <5>3. more = Kept + count + jobs + batch + channels + owed - lost
          BY <4>1, <5>2, AcceptorAssumption DEF Inv, Numbers
        <5> QED
          BY <5>1, <5>3
      <4>3. fd' # "shut" /\ starved' \in Int /\ active' \in Int
        BY <2>1, <3>2
      <4> QED
        BY <2>1, <3>4, <4>2, <4>3, AcceptorAssumption DEF Inv, Numbers, HandleBalance
    <3> QED
      BY <3>3, <3>5 DEF Inv
  <2> QED
    BY <2>2, <2>3
<1>2. CASE PollReadable
  BY <1>2 DEF PollReadable, Inv, Numbers, Shape, HandleBalance, Returned,
              Linux, Owed
<1>3. CASE AcceptOne
  BY <1>3 DEF AcceptOne, Inv, Numbers, Shape, HandleBalance, Returned,
              Linux, Owed
<1>4. CASE AcceptNoMore
  BY <1>4 DEF AcceptNoMore, Inv, Numbers, Shape, HandleBalance, Returned,
              Linux, Owed
<1>5. CASE PollCompletion
  <2>1. count' = count /\ count \in Nat /\ request # "none" /\ Owed = 1
    BY <1>5 DEF PollCompletion, Inv, Numbers, Owed
  <2>2. count + Owed = count + 1
    BY <2>1
  <2> QED
    BY <1>5, <2>1, <2>2, HandlerKeeps DEF PollCompletion
<1>6. CASE PollNothing
  BY <1>6 DEF PollNothing, Inv, Numbers, Shape, HandleBalance, Returned,
              Linux, Owed
<1>7. CASE close
  BY <1>7 DEF close, Inv, Numbers, Shape, HandleBalance, Returned,
              Linux, Owed
<1>8. CASE Splice
  BY <1>8 DEF Splice, Inv, Numbers, Shape, HandleBalance, Returned,
              Linux, Owed
<1>9. CASE RunHandler
  <2>1. count' = count + 1 /\ count + 1 \in Nat /\ request # "none" /\ Owed = 2
    BY <1>9 DEF RunHandler, Inv, Numbers, Owed
  <2>2. count + Owed = (count + 1) + 1
    BY <2>1 DEF Inv, Numbers
  <2> QED
    BY <1>9, <2>1, <2>2, HandlerKeeps DEF RunHandler
<1>10. CASE RunJob
  BY <1>10 DEF RunJob, Inv, Numbers, Shape, HandleBalance, Returned,
               Linux, Owed
<1>11. CASE Account
  BY <1>11 DEF Account, Inv, Numbers, Shape, HandleBalance, Returned,
               Linux, Owed
<1>12. CASE ChannelCloses
  BY <1>12 DEF ChannelCloses, Inv, Numbers, Shape, HandleBalance, Returned,
               Linux, Owed
<1>13. CASE Arrives
  BY <1>13 DEF Arrives, Inv, Numbers, Shape, HandleBalance, Returned,
               Linux, Owed
<1>14. CASE Completes
  BY <1>14 DEF Completes, Inv, Numbers, Shape, HandleBalance, Returned,
               Linux, Owed
<1>15. CASE UNCHANGED vars
  BY <1>15 DEF vars, Inv, Numbers, Shape, HandleBalance, Returned,
               Linux, Owed
<1> QED
  BY <1>1, <1>2, <1>3, <1>4, <1>5, <1>6, <1>7, <1>8, <1>9, <1>10, <1>11, <1>12, <1>13, <1>14, <1>15
  DEF Next, LoopStep

LEMMA InvAlways == Spec => []Inv
  BY InvInit, InvNext, PTL DEF Spec
-----------------------------------------------------------------------------
(* On Windows the activity count is what run() has to wait for: the handler*)
(* gives back what do_accept() added, however a request ends, also those   *)
(* that follow close(); but one for each request without a socket and one  *)
(* for close() itself, which nobody added.                                 *)
THEOREM HandleBalanceTheorem == Spec => []HandleBalance
  BY InvAlways, PTL DEF Inv

(* On Windows run() serves an open acceptor until more requests were left  *)
(* without a socket than the application holds activity in the loop; on    *)
(* Linux TLC finds that it does not.                                       *)
THEOREM OpenKeepsLoopTheorem == Spec => [](~Linux /\ starved <= Kept => OpenKeepsLoop)
<1>1. Inv => (~Linux /\ starved <= Kept => OpenKeepsLoop)
  <2> SUFFICES ASSUME Inv, ~Linux, starved <= Kept, fd = "open", pc = "returned" PROVE FALSE
    BY DEF OpenKeepsLoop
  <2>1. active = 0 /\ Owed \in Nat \ {0}
    BY DEF Inv, Shape, Returned, Owed
  <2>2. active = Kept + count + jobs + batch + channels + Owed - starved
    BY DEF Inv, Numbers, HandleBalance, Owed
  <2> QED
    BY <2>1, <2>2, AcceptorAssumption DEF Inv, Numbers
<1> QED
  BY <1>1, InvAlways, PTL
=============================================================================
