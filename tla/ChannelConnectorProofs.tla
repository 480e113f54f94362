----------------------- MODULE ChannelConnectorProofs -----------------------
(***************************************************************************)
(* Proofs about ChannelConnector for any number of addresses and requests, *)
(* with and without a timer, on both platforms and for every choice of     *)
(* callbacks in which the application asks again.                          *)
(*                                                                         *)
(* HandleBalance and OneAnswer are not inductive: they need to know what   *)
(* the descriptor stands for while something is under way, and that        *)
(* nothing is under way in a callback, where the application asks again.   *)
(***************************************************************************)
EXTENDS ChannelConnector, TLAPS

(* The descriptor of an attempt is the connector's own, the handler that is*)
(* queued as a task has none, and in a callback nothing is under way.      *)
UnderWayIsOwn ==
  /\ watched => fd \in {"connecting", "connected", "refused"} /\ ~queued /\ ~taken
  /\ queued \/ taken => fd \in {"closed", "fresh"}
  /\ ~(queued /\ taken)
  /\ taken => pc = "tasks"
  /\ watched \/ queued \/ taken => index \in 1 .. NAddr
  /\ callback # "none" => fd # "given" /\ ~watched /\ ~queued /\ ~taken
  /\ requests = 0 => fd = "closed" /\ callback = "none"

Inv == TypeOK /\ HandleBalance /\ OneAnswer /\ UnderWayIsOwn
-----------------------------------------------------------------------------
(* TypeOK in two parts, which go to different provers.                     *)
Flags ==
  /\ watched \in BOOLEAN /\ queued \in BOOLEAN /\ taken \in BOOLEAN
  /\ timer \in BOOLEAN /\ expired \in BOOLEAN

Data ==
  /\ platform \in Platforms
  /\ index \in 0 .. NAddr
  /\ fd \in {"closed", "fresh", "connecting", "connected", "refused", "given", "gone"}
  /\ evt \subseteq {"out", "err", "hup"}
  /\ active \in Nat /\ count \in Nat
  /\ pc \in {"main", "wait", "timers", "tasks", "returned"}
  /\ callback \in {"none", "on_connect_fail", "on_closed"}
  /\ requests \in 0 .. MaxRequests /\ answers \in 0 .. requests
  /\ failures \subseteq 1 .. NAddr

LEMMA TypeParts == TypeOK <=> Flags /\ Data
  BY Zenon DEF TypeOK, Flags, Data

(* The states a request and an answer lead to: an attempt under way, the   *)
(* handler queued as a task, nothing left to do for the request.           *)
WhileWatched ==
  /\ Flags /\ Data /\ watched /\ ~queued /\ ~taken
  /\ fd = "connecting" /\ index # 0 /\ callback = "none" /\ requests = answers + 1
  /\ active = count + 1 + One(timer)

WhileQueued ==
  /\ Flags /\ Data /\ ~watched /\ queued /\ ~taken /\ ~timer
  /\ fd \in {"closed", "fresh"} /\ callback = "none" /\ index # 0
  /\ active = count + 2 /\ requests = answers + 1

WhileIdle ==
  /\ Flags /\ Data /\ ~watched /\ ~queued /\ ~taken /\ ~timer
  /\ fd # "given" \/ callback = "none"
  /\ active = count + One(fd = "given") /\ requests = answers /\ requests # 0

LEMMA WatchedInv == WhileWatched => Inv
  BY ConnectorAssumption
  DEF WhileWatched, Flags, Data, Inv, TypeOK, HandleBalance, OneAnswer, UnderWayIsOwn, One

LEMMA QueuedInv == WhileQueued => Inv
  BY ConnectorAssumption
  DEF WhileQueued, Flags, Data, Inv, TypeOK, HandleBalance, OneAnswer, UnderWayIsOwn, One

LEMMA IdleInv == WhileIdle => Inv
  BY ConnectorAssumption
  DEF WhileIdle, Flags, Data, Inv, TypeOK, HandleBalance, OneAnswer, UnderWayIsOwn, One

LEMMA InvAfter ==
  ASSUME WhileWatched' \/ WhileQueued' \/ WhileIdle'
  PROVE  Inv'
  BY WatchedInv, QueuedInv, IdleInv, PTL
-----------------------------------------------------------------------------
LEMMA InvInit == Init => Inv
<1> SUFFICES ASSUME Init PROVE Inv
  OBVIOUS
<1>1. Flags
  BY Zenon DEF Init, Flags
<1>2. Data
  BY ConnectorAssumption DEF Init, Data
<1>3. HandleBalance
  BY DEF Init, HandleBalance, One
<1>4. OneAnswer
  BY DEF Init, OneAnswer, One
<1>5. UnderWayIsOwn
  BY DEF Init, UnderWayIsOwn
<1> QED
  BY <1>1, <1>2, <1>3, <1>4, <1>5, TypeParts DEF Inv

(* Starting an attempt for a request that has no answer yet.               *)
LEMMA UnderWayKeeps ==
  ASSUME Data, NEW start \in 0 .. NAddr, NEW failed \in SUBSET (1 .. NAddr),
         NEW n \in Nat, NEW given \in Nat, active + 0 = n + given,
         UnderWay(start, failed, given),
         platform' = platform, queued' = FALSE, taken' = FALSE, callback' = "none",
         count' = n, pc' \in {"main", "wait", "timers", "tasks", "returned"},
         requests' \in 0 .. MaxRequests, answers' \in 0 .. requests', requests' = answers' + 1
  PROVE  Inv'
<1>1. PICK j \in (start + 1) .. NAddr :
        index' = j /\ failures' = failed \cup (start + 1) .. (j - 1)
  BY DEF UnderWay
<1>2. index' \in 1 .. NAddr /\ failures' \subseteq 1 .. NAddr
  BY <1>1, ConnectorAssumption
<1>3. Timed \in BOOLEAN
  BY ConnectorAssumption DEF Timed, Linux
<1>4. Flags' /\ watched' /\ ~queued' /\ ~taken'
  BY <1>3, Zenon DEF UnderWay, Flags
<1>5. active' = n + 1 + One(timer')
  BY DEF UnderWay, One, Data
<1>6. active' \in Nat
  BY <1>5 DEF One
<1>7. Data'
  <2>1. evt' \subseteq {"out", "err", "hup"} /\ fd' = "connecting"
    BY DEF UnderWay
  <2>2. index' \in 0 .. NAddr /\ platform' \in Platforms
    BY <1>2 DEF Data
  <2> QED
    BY <1>2, <1>6, <2>1, <2>2 DEF Data
<1>8. WhileWatched'
  BY <1>2, <1>4, <1>5, <1>7 DEF WhileWatched, UnderWay
<1> QED
  BY <1>8, InvAfter

(* What is left behind when no attempt can be started.                     *)
LEMMA NoneLeftResult ==
  ASSUME NEW start \in 0 .. NAddr, NEW failed \in SUBSET (1 .. NAddr),
         NEW mask \in SUBSET {"out", "err", "hup"}, NoneLeft(start, failed, mask)
  PROVE  /\ index' \in 1 .. NAddr /\ failures' \subseteq 1 .. NAddr
         /\ fd' \in {"closed", "fresh"} /\ evt' \subseteq {"out", "err", "hup"}
         /\ watched' = FALSE /\ timer' = FALSE /\ expired' = FALSE
<1>1. index' \in 1 .. NAddr /\ failures' \subseteq 1 .. NAddr
  BY ConnectorAssumption DEF NoneLeft
<1>2. fd' \in {"closed", "fresh"} /\ evt' \subseteq {"out", "err", "hup"}
  BY DEF NoneLeft
<1> QED
  BY <1>1, <1>2 DEF NoneLeft
-----------------------------------------------------------------------------
(* A request, made when nothing is under way.                              *)
LEMMA ConnectKeeps ==
  ASSUME Inv, connect, fd # "given", ~watched, ~queued, ~taken,
         UNCHANGED <<platform, taken, count, pc, answers>>, callback' = "none"
  PROVE  Inv'
<1> USE ConnectorAssumption
<1>1. /\ Flags /\ Data /\ 0 \in 0 .. NAddr /\ {} \in SUBSET (1 .. NAddr)
      /\ evt \in SUBSET {"out", "err", "hup"} /\ count \in Nat /\ 0 \in Nat
      /\ pc' \in {"main", "wait", "timers", "tasks", "returned"}
  BY TypeParts DEF Inv, Data
<1>2. queued = FALSE /\ taken' = FALSE
  BY <1>1, Zenon DEF Flags
<1>3. active = count
  BY DEF Inv, TypeOK, HandleBalance, OneAnswer, One
<1>4. requests = answers
  BY DEF Inv, TypeOK, OneAnswer, One
<1>5. /\ requests' \in 0 .. MaxRequests /\ answers' \in 0 .. requests'
      /\ requests' = answers' + 1 /\ requests' # 0
  BY <1>1, <1>4 DEF connect, Data
<1>6. CASE UnderWay(0, {}, 0) /\ UNCHANGED queued
  <2>1. active + 0 = count + 0
    BY <1>3
  <2> QED
    BY <1>1, <1>2, <1>5, <1>6, <2>1, UnderWayKeeps
<1>7. CASE NoneLeft(0, {}, evt) /\ active' = active + 2 /\ queued' = TRUE
  <2>1. /\ index' \in 1 .. NAddr /\ failures' \subseteq 1 .. NAddr
        /\ fd' \in {"closed", "fresh"} /\ evt' \subseteq {"out", "err", "hup"}
        /\ watched' = FALSE /\ timer' = FALSE /\ expired' = FALSE
    BY <1>1, <1>7, NoneLeftResult
  <2>2. Flags' /\ ~watched' /\ queued' /\ ~taken' /\ ~timer'
    BY <1>2, <1>7, <2>1, Zenon DEF Flags
  <2>3. active' = count + 2 /\ active' \in Nat
    BY <1>1, <1>3, <1>7
  <2>4. Data'
    BY <1>1, <1>5, <2>1, <2>3 DEF Data
  <2>5. WhileQueued'
    BY <1>5, <2>1, <2>2, <2>3, <2>4 DEF WhileQueued
  <2> QED
    BY <2>5, InvAfter
<1> QED
  BY <1>6, <1>7 DEF connect

(* The end of an attempt or of the task, which gives its activity back or  *)
(* leaves it for run() to subtract, leads to the next address, to          *)
(* on_connect_fail(), or to a connection.                                  *)
LEMMA EndKeeps ==
  ASSUME Inv, InLoop, NEW mask \in SUBSET {"out", "err", "hup"},
         NEW n \in Nat, NEW given \in Nat, count' = n, active = n + given,
         \/ GoOn(failures \cup {index}, mask, given)
         \/ Connected(mask, given),
         platform' = platform, queued' = queued, requests' = requests,
         watched \/ taken, ~queued, taken' = FALSE,
         pc' \in {"main", "wait", "timers", "tasks", "returned"}
  PROVE  Inv'
<1> USE ConnectorAssumption
<1>1. /\ Flags /\ Data /\ index \in 0 .. NAddr /\ callback = "none"
      /\ fd \in {"closed", "fresh", "connecting", "connected", "refused"}
  BY TypeParts DEF Inv, Data, UnderWayIsOwn, InLoop
<1>2. failures \cup {index} \in SUBSET (1 .. NAddr)
  BY <1>1 DEF Inv, UnderWayIsOwn, Data
<1>3. requests = answers + 1
  BY DEF Inv, TypeOK, OneAnswer, UnderWayIsOwn, One
<1>4. queued' = FALSE
  BY <1>1, Zenon DEF Flags
<1>5. requests' \in 0 .. MaxRequests /\ requests' # 0
  BY <1>1, <1>3 DEF Data
<1>6. CASE UnderWay(index, failures \cup {index}, given) /\ UNCHANGED <<callback, answers>>
  <2>1. answers' \in 0 .. requests' /\ requests' = answers' + 1
    BY <1>1, <1>3, <1>6 DEF Data
  <2>2. active + 0 = n + given /\ callback' = "none"
    BY <1>1, <1>6
  <2> QED
    BY <1>1, <1>2, <1>4, <1>5, <1>6, <2>1, <2>2, UnderWayKeeps
<1>7. CASE /\ NoneLeft(index, failures \cup {index}, mask)
           /\ active' = active - given
           /\ callback' = "on_connect_fail" /\ answers' = answers + 1
  <2>1. /\ index' \in 1 .. NAddr /\ failures' \subseteq 1 .. NAddr
        /\ fd' \in {"closed", "fresh"} /\ evt' \subseteq {"out", "err", "hup"}
        /\ watched' = FALSE /\ timer' = FALSE /\ expired' = FALSE
    BY <1>1, <1>2, <1>7, NoneLeftResult
  <2>2. Flags' /\ ~watched' /\ ~queued' /\ ~taken' /\ ~timer'
    BY <1>4, <2>1, Zenon DEF Flags
  <2>3. active' = n
    BY <1>7
  <2>4. answers' \in 0 .. requests' /\ requests' = answers'
    BY <1>1, <1>3, <1>7 DEF Data
  <2>5. Data'
    BY <1>1, <1>5, <1>7, <2>1, <2>3, <2>4 DEF Data
  <2>6. active' = count' + One((fd = "given")')
    BY <2>1, <2>3 DEF One
  <2>7. WhileIdle'
    BY <1>5, <2>1, <2>2, <2>4, <2>5, <2>6 DEF WhileIdle
  <2> QED
    BY <2>7, InvAfter
<1>8. CASE Connected(mask, given)
  <2>1. \/ fd' = fd /\ active' = n
        \/ fd' = "given" /\ active' = n + 1
    BY <1>8 DEF Connected
  <2>2. Flags' /\ ~watched' /\ ~queued' /\ ~taken' /\ ~timer'
    BY <1>4, <1>8, Zenon DEF Connected, Flags
  <2>3. answers' \in 0 .. requests' /\ requests' = answers'
    BY <1>1, <1>3, <1>8 DEF Data, Connected
  <2>4. Data'
    BY <1>1, <1>5, <1>8, <2>1, <2>3 DEF Data, Connected
  <2>5. active' = count' + One((fd = "given")')
    BY <1>1, <2>1 DEF One
  <2>6. WhileIdle'
    BY <1>1, <1>5, <1>8, <2>2, <2>3, <2>4, <2>5 DEF WhileIdle, Connected
  <2> QED
    BY <2>6, InvAfter
<1> QED
  BY <1>6, <1>7, <1>8 DEF GoOn

LEMMA InvNext == Inv /\ [Next]_vars => Inv'
<1> SUFFICES ASSUME Inv, [Next]_vars PROVE Inv'
  OBVIOUS
<1> USE ConnectorAssumption
<1>1. CASE MainConnects
  <2>1. answers = 0
    BY <1>1 DEF MainConnects, Inv, TypeOK
  <2>2. ~watched /\ ~queued /\ ~taken
    BY <1>1, <2>1 DEF MainConnects, Inv, TypeOK, OneAnswer, UnderWayIsOwn, One
  <2>3. fd # "given"
    BY <1>1 DEF MainConnects, Inv, UnderWayIsOwn
  <2>4. callback' = "none"
    BY <1>1 DEF MainConnects, Inv, UnderWayIsOwn
  <2> QED
    BY <1>1, <2>2, <2>3, <2>4, ConnectKeeps DEF MainConnects
<1>2. CASE MainRuns
  BY <1>2 DEF MainRuns, Inv, TypeOK, HandleBalance, OneAnswer, UnderWayIsOwn, One
<1>3. CASE PollEvent
  <2>1. PICK mask \in Masks : on_connect_handler(mask, Error(mask))
    BY <1>3 DEF PollEvent
  <2>2. mask \in SUBSET {"out", "err", "hup"}
    BY Zenon DEF Masks
  <2>3. /\ InLoop /\ watched /\ ~queued /\ ~taken
        /\ UNCHANGED <<platform, queued, taken, count, requests>> /\ pc' = "timers"
    BY <1>3 DEF PollEvent, Inv, UnderWayIsOwn
  <2>4. /\ count \in Nat /\ 1 + One(timer) \in Nat
        /\ active = count + (1 + One(timer))
    BY <2>3 DEF Inv, TypeOK, HandleBalance, UnderWayIsOwn, One
  <2>5. \/ GoOn(failures \cup {index}, mask, 1 + One(timer))
        \/ Connected(mask, 1 + One(timer))
    BY <2>1 DEF on_connect_handler
  <2>6. taken' = FALSE
    BY <2>3, TypeParts, Zenon DEF Inv, Flags
  <2> QED
    BY <2>2, <2>3, <2>4, <2>5, <2>6, EndKeeps
<1>4. CASE PollNothing
  BY <1>4 DEF PollNothing, Inv, TypeOK, HandleBalance, OneAnswer, UnderWayIsOwn, One
<1>5. CASE FireTimer
  <2>1. /\ InLoop /\ timer /\ watched /\ ~queued /\ ~taken
        /\ GoOn(failures \cup {index}, evt, 1) /\ count' = count + 1
        /\ UNCHANGED <<platform, queued, taken, pc, requests>>
    BY <1>5 DEF FireTimer, Inv, OneAnswer, UnderWayIsOwn
  <2>2. count + 1 \in Nat /\ active = (count + 1) + 1 /\ 1 \in Nat
    BY <2>1 DEF Inv, TypeOK, HandleBalance, UnderWayIsOwn, One
  <2>3. evt \in SUBSET {"out", "err", "hup"} /\ pc \in {"main", "wait", "timers", "tasks", "returned"}
    BY DEF Inv, TypeOK
  <2>4. taken' = FALSE
    BY <2>1, TypeParts, Zenon DEF Inv, Flags
  <2> QED
    BY <2>1, <2>2, <2>3, <2>4, EndKeeps
<1>6. CASE TimersFired
  <2>1. (taken' <=> queued) /\ ~queued' /\ pc' = "tasks"
    BY <1>6, Zenon DEF TimersFired
  <2>2. UNCHANGED <<platform, index, fd, evt, watched, timer, expired, active, count,
                    callback, requests, answers, failures>>
    BY <1>6 DEF TimersFired
  <2>3. Flags'
    BY <1>6, TypeParts, Zenon DEF TimersFired, Inv, Flags
  <2>4. Data'
    BY <2>1, <2>2, TypeParts DEF Inv, Data
  <2>5. ~taken
    BY <1>6 DEF TimersFired, Inv, UnderWayIsOwn
  <2>6. (HandleBalance /\ OneAnswer /\ UnderWayIsOwn)'
    BY <2>1, <2>2, <2>5 DEF Inv, TypeOK, HandleBalance, OneAnswer, UnderWayIsOwn, One
  <2>7. TypeOK'
    BY <2>3, <2>4, TypeParts, PTL
  <2> QED
    BY <2>6, <2>7 DEF Inv
<1>7. CASE RunTask
  <2>1. /\ InLoop /\ taken /\ ~watched /\ ~queued
        /\ on_connect_handler(evt, Error(evt)) /\ taken' = FALSE /\ count' = count + 1
        /\ UNCHANGED <<platform, queued, pc, requests>>
    BY <1>7 DEF RunTask, Inv, UnderWayIsOwn
  <2>2. /\ count + 1 \in Nat /\ 1 + One(timer) \in Nat
        /\ active = (count + 1) + (1 + One(timer))
    BY <2>1 DEF Inv, TypeOK, HandleBalance, OneAnswer, UnderWayIsOwn, One
  <2>3. evt \in SUBSET {"out", "err", "hup"} /\ pc \in {"main", "wait", "timers", "tasks", "returned"}
    BY DEF Inv, TypeOK
  <2>4. \/ GoOn(failures \cup {index}, evt, 1 + One(timer))
        \/ Connected(evt, 1 + One(timer))
    BY <2>1 DEF on_connect_handler
  <2> QED
    BY <2>1, <2>2, <2>3, <2>4, EndKeeps
<1>8. CASE Account
  BY <1>8 DEF Account, InLoop, Inv, TypeOK, HandleBalance, OneAnswer, UnderWayIsOwn, One
<1>9. CASE ChannelCloses
  BY <1>9 DEF ChannelCloses, InLoop, Inv, TypeOK, HandleBalance, OneAnswer, UnderWayIsOwn, One
<1>10. CASE CallbackConnects
  BY <1>10, ConnectKeeps DEF CallbackConnects, Inv, UnderWayIsOwn
<1>11. CASE CallbackReturns
  BY <1>11 DEF CallbackReturns, Inv, TypeOK, HandleBalance, OneAnswer, UnderWayIsOwn, One
<1>12. CASE PeerAnswers
  BY <1>12 DEF PeerAnswers, Inv, TypeOK, HandleBalance, OneAnswer, UnderWayIsOwn, One
<1>13. CASE Tick
  BY <1>13 DEF Tick, Inv, TypeOK, HandleBalance, OneAnswer, UnderWayIsOwn, One
<1>14. CASE UNCHANGED vars
  BY <1>14 DEF vars, Inv, TypeOK, HandleBalance, OneAnswer, UnderWayIsOwn, One
<1> QED
  BY <1>1, <1>2, <1>3, <1>4, <1>5, <1>6, <1>7, <1>8, <1>9, <1>10, <1>11, <1>12, <1>13, <1>14
  DEF Next, LoopStep

LEMMA InvAlways == Spec => []Inv
  BY InvInit, InvNext, PTL DEF Spec
-----------------------------------------------------------------------------
(* The activity count of the loop is the number of things the loop has to  *)
(* wait for: connect() and both handlers of channel_connector give back    *)
(* what they added, whichever of them comes first.                         *)
THEOREM HandleBalanceTheorem == Spec => []HandleBalance
  BY InvAlways, PTL DEF Inv

(* A request has one thing that will answer it, and no more: the timer and *)
(* the connect event do not both go on to the next address.                *)
THEOREM OneAnswerTheorem == Spec => []OneAnswer
  BY InvAlways, PTL DEF Inv
-----------------------------------------------------------------------------
(* What has failed, address by address, and what on_connect_fail() finds.  *)
FailuresAreCounted ==
  /\ watched => failures = 1 .. (index - 1)
  /\ queued \/ taken => index = NAddr /\ failures = 1 .. NAddr
  /\ callback = "on_connect_fail" => failures = 1 .. NAddr /\ fd \in {"closed", "fresh"}

LEMMA CountInit == Init => FailuresAreCounted
  BY Zenon DEF Init, FailuresAreCounted

LEMMA CountUnderWay ==
  ASSUME NEW start \in 0 .. NAddr, NEW given, UnderWay(start, 1 .. start, given)
  PROVE  failures' = 1 .. (index' - 1)
<1>1. PICK j \in (start + 1) .. NAddr :
        index' = j /\ failures' = (1 .. start) \cup ((start + 1) .. (j - 1))
  BY DEF UnderWay
<1>2. (1 .. start) \cup ((start + 1) .. (j - 1)) = 1 .. (j - 1)
  BY ConnectorAssumption
<1> QED
  BY <1>1, <1>2

LEMMA CountNoneLeft ==
  ASSUME NEW start \in 0 .. NAddr, NEW mask, NoneLeft(start, 1 .. start, mask)
  PROVE  index' = NAddr /\ failures' = 1 .. NAddr /\ fd' \in {"closed", "fresh"} /\ watched' = FALSE
<1>1. (1 .. start) \cup ((start + 1) .. NAddr) = 1 .. NAddr
  BY ConnectorAssumption
<1> QED
  BY <1>1 DEF NoneLeft

LEMMA CountConnect ==
  ASSUME connect, callback' = "none", ~queued, taken' = FALSE
  PROVE  FailuresAreCounted'
<1>1. 0 \in 0 .. NAddr /\ {} = 1 .. 0
  BY ConnectorAssumption
<1>2. CASE UnderWay(0, {}, 0) /\ UNCHANGED queued
  <2>1. failures' = 1 .. (index' - 1)
    BY <1>1, <1>2, CountUnderWay
  <2> QED
    BY <1>2, <2>1 DEF FailuresAreCounted
<1>3. CASE NoneLeft(0, {}, evt)
  <2>1. index' = NAddr /\ failures' = 1 .. NAddr /\ watched' = FALSE
    BY <1>1, <1>3, CountNoneLeft
  <2> QED
    BY <2>1 DEF FailuresAreCounted
<1> QED
  BY <1>2, <1>3 DEF connect

LEMMA CountEnd ==
  ASSUME Inv, FailuresAreCounted, InLoop, NEW mask, NEW given,
         \/ GoOn(failures \cup {index}, mask, given)
         \/ Connected(mask, given),
         watched \/ taken, ~queued, ~queued', ~taken'
  PROVE  FailuresAreCounted'
<1>1. index \in 1 .. NAddr /\ index \in 0 .. NAddr /\ callback = "none"
  BY DEF Inv, TypeOK, UnderWayIsOwn, InLoop
<1>2. failures \cup {index} = 1 .. index
  <2>1. CASE watched
    BY <1>1, <2>1, ConnectorAssumption DEF FailuresAreCounted
  <2>2. CASE taken
    BY <1>1, <2>2, ConnectorAssumption DEF FailuresAreCounted
  <2> QED
    BY <2>1, <2>2
<1>3. CASE UnderWay(index, failures \cup {index}, given) /\ UNCHANGED <<callback, answers>>
  <2>1. failures' = 1 .. (index' - 1)
    BY <1>1, <1>2, <1>3, CountUnderWay
  <2> QED
    BY <1>1, <1>3, <2>1 DEF FailuresAreCounted
<1>4. CASE NoneLeft(index, failures \cup {index}, mask)
  <2>1. failures' = 1 .. NAddr /\ fd' \in {"closed", "fresh"} /\ watched' = FALSE
    BY <1>1, <1>2, <1>4, CountNoneLeft
  <2> QED
    BY <2>1 DEF FailuresAreCounted
<1>5. CASE Connected(mask, given)
  BY <1>1, <1>5 DEF Connected, FailuresAreCounted
<1> QED
  BY <1>3, <1>4, <1>5 DEF GoOn

LEMMA CountNext == Inv /\ FailuresAreCounted /\ [Next]_vars => FailuresAreCounted'
<1> SUFFICES ASSUME Inv, FailuresAreCounted, [Next]_vars PROVE FailuresAreCounted'
  OBVIOUS
<1>1. CASE MainConnects
  <2>1. ~queued /\ taken = FALSE /\ callback = "none"
    <3>1. answers = 0 /\ requests = 0
      BY <1>1 DEF MainConnects, Inv, TypeOK
    <3>2. ~queued /\ ~taken
      BY <3>1 DEF Inv, TypeOK, OneAnswer, One
    <3>3. taken = FALSE
      BY <3>2, Zenon DEF Inv, TypeOK
    <3> QED
      BY <3>1, <3>2, <3>3 DEF Inv, UnderWayIsOwn
  <2> QED
    BY <1>1, <2>1, CountConnect DEF MainConnects
<1>2. CASE MainRuns
  BY <1>2 DEF MainRuns, FailuresAreCounted
<1>3. CASE PollEvent
  <2>1. PICK mask \in Masks : on_connect_handler(mask, Error(mask))
    BY <1>3 DEF PollEvent
  <2>2. InLoop /\ watched /\ ~queued /\ ~queued' /\ ~taken'
    BY <1>3 DEF PollEvent, Inv, UnderWayIsOwn
  <2>3. \/ GoOn(failures \cup {index}, mask, 1 + One(timer))
        \/ Connected(mask, 1 + One(timer))
    BY <2>1 DEF on_connect_handler
  <2> QED
    BY <2>2, <2>3, CountEnd
<1>4. CASE PollNothing
  BY <1>4 DEF PollNothing, FailuresAreCounted
<1>5. CASE FireTimer
  <2>1. InLoop /\ watched /\ ~queued /\ ~queued' /\ ~taken' /\ GoOn(failures \cup {index}, evt, 1)
    BY <1>5 DEF FireTimer, Inv, OneAnswer, UnderWayIsOwn
  <2> QED
    BY <2>1, CountEnd
<1>6. CASE TimersFired
  BY <1>6 DEF TimersFired, FailuresAreCounted
<1>7. CASE RunTask
  <2>1. InLoop /\ taken /\ ~queued /\ ~queued' /\ ~taken'
    BY <1>7 DEF RunTask, Inv, UnderWayIsOwn
  <2>2. \/ GoOn(failures \cup {index}, evt, 1 + One(timer))
        \/ Connected(evt, 1 + One(timer))
    BY <1>7 DEF RunTask, on_connect_handler
  <2> QED
    BY <2>1, <2>2, CountEnd
<1>8. CASE Account
  BY <1>8 DEF Account, FailuresAreCounted
<1>9. CASE ChannelCloses
  BY <1>9 DEF ChannelCloses, FailuresAreCounted
<1>10. CASE CallbackConnects
  <2>1. ~queued /\ taken = FALSE
    BY <1>10, ConnectorAssumption, Zenon DEF CallbackConnects, Inv, TypeOK, UnderWayIsOwn
  <2> QED
    BY <1>10, <2>1, CountConnect DEF CallbackConnects
<1>11. CASE CallbackReturns
  BY <1>11 DEF CallbackReturns, FailuresAreCounted
<1>12. CASE PeerAnswers
  BY <1>12 DEF PeerAnswers, FailuresAreCounted
<1>13. CASE Tick
  BY <1>13 DEF Tick, FailuresAreCounted
<1>14. CASE UNCHANGED vars
  BY <1>14 DEF vars, FailuresAreCounted
<1> QED
  BY <1>1, <1>2, <1>3, <1>4, <1>5, <1>6, <1>7, <1>8, <1>9, <1>10, <1>11, <1>12, <1>13, <1>14
  DEF Next, LoopStep

LEMMA CountAlways == Spec => []FailuresAreCounted
  BY InvAlways, CountInit, CountNext, PTL DEF Spec

(* on_connect_fail() is called only when every address of the list has been*)
(* tried and has failed since the request, by the timer or by the event.   *)
THEOREM FailsOnlyAfterAllTheorem == Spec => []FailsOnlyAfterAll
<1>1. FailuresAreCounted => FailsOnlyAfterAll
  BY DEF FailuresAreCounted, FailsOnlyAfterAll
<1> QED
  BY <1>1, CountAlways, PTL

(* Nothing that is left of an earlier attempt closes the descriptor of a   *)
(* channel, or the number that is left of one: only connect() itself does, *)
(* when the application calls it in on_closed().                           *)
THEOREM ClosesOnlyItsOwnTheorem == Spec => ClosesOnlyItsOwn
<1> DEFINE Own == /\ fd = "given" => fd' \in {"given", "gone"}
                  /\ fd = "gone" =>
                       fd' = "gone" \/ (callback = "on_closed" /\ requests' > requests)
<1>1. Inv /\ FailuresAreCounted /\ [Next]_vars => [Own]_vars
  <2> SUFFICES ASSUME Inv, FailuresAreCounted, Next, fd \in {"given", "gone"}
               PROVE  Own
    BY DEF vars
  <2>1. ~watched /\ ~queued /\ ~taken /\ ~timer
    BY DEF Inv, OneAnswer, UnderWayIsOwn
  <2>2. callback # "on_connect_fail" /\ requests # 0
    BY DEF FailuresAreCounted, Inv, UnderWayIsOwn
  <2>3. CASE CallbackConnects
    <3>1. callback = "on_closed"
      BY <2>2, <2>3, ConnectorAssumption DEF CallbackConnects
    <3>2. fd = "gone"
      BY <3>1 DEF Inv, UnderWayIsOwn
    <3>3. requests' > requests
      BY <2>3 DEF CallbackConnects, connect, Inv, TypeOK
    <3> QED
      BY <3>1, <3>2, <3>3
  <2>4. CASE ~CallbackConnects
    <3>1. ~MainConnects /\ ~PollEvent /\ ~FireTimer /\ ~RunTask /\ ~PeerAnswers
      BY <2>1, <2>2 DEF MainConnects, PollEvent, FireTimer, RunTask, PeerAnswers
    <3> QED
      BY <2>4, <3>1 DEF Next, LoopStep, MainRuns, PollNothing, TimersFired, Account, ChannelCloses,
                        CallbackReturns, Tick
  <2> QED
    BY <2>3, <2>4
<1> QED
  BY <1>1, InvAlways, CountAlways, PTL DEF Spec, ClosesOnlyItsOwn
=============================================================================
