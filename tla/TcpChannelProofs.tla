--------------------------- MODULE TcpChannelProofs ----------------------------
(***************************************************************************)
(* Proofs about TcpChannel for any finite set of other threads, any number *)
(* of calls and messages, and every choice of what filters do.             *)
(*                                                                         *)
(* The reference count is balanced whatever happens.  That the channel is  *)
(* not used after it deleted itself needs more: that the close job, which  *)
(* gives back the channel's own reference, runs once, and that the handler *)
(* the loop is in always holds a reference that it gives back last (Inv).  *)
(*                                                                         *)
(* What filters see, and that a live channel is watched for its work, need *)
(* the order of the steps of a handler (Follows), where each failure and   *)
(* each close() is between the call and the callback (OnceEach), and what  *)
(* _register_handle() will still do (Watching): together Ordered.  That    *)
(* the send job is linked once needs in addition when output can come      *)
(* while that job waits (Sends).                                           *)
(***************************************************************************)
EXTENDS TcpChannel, CountingTheorems

Held == Jobs \ {"connected"}
Busy == {"idle", "closing", "failing", "writing"}
Doing == Busy \cup {"out"}

(* Jobs, steps and threads of a kind.                                      *)
JobsIn(S) == Count(batch, S) + Count(tasks, S)
StepsIn(S) == Count(todo, S)
ThreadsIn(S) == Cardinality({u \in Users : upc[u] \in S})

(* The channel has not been announced yet.                                 *)
Unannounced == JobsIn({"connected"}) + StepsIn({"announce"})

(* A handler gives its reference back in its last step.                    *)
OnlyLast(steps) == \A i \in DOMAIN steps : steps[i] = "release" => i = Len(steps)

Types ==
  /\ tasks \in Seq(Jobs) /\ batch \in Seq(Jobs)
  /\ todo \in Seq(Steps)
  /\ upc \in [Users -> Doing]
  /\ ref \in Int /\ active \in Int
  /\ phase # "tasks" => batch = <<>>

Balanced == ref = JobsIn(Held) + StepsIn({"release"}) + active + ThreadsIn(Busy)

(* close() is called once, and after the announcement.                     *)
ClosedOnce ==
  /\ ~resumed => JobsIn({"close"}) + ThreadsIn({"closing"}) + StepsIn({"leave"})
                   + 1 - active - Unannounced = One("close" \in bits)
  /\ active + Unannounced <= 1

(* Nothing is done with a channel before it is announced.                  *)
Untouched ==
  Unannounced > 0 =>
    /\ active = 0 /\ JobsIn(Held) = 0 /\ ThreadsIn(Busy) = 0
    /\ todo \in {<<>>, <<"announce">>}

(* Somebody holds the channel while the loop is in a handler of it.        *)
HandlerHolds ==
  /\ OnlyLast(todo)
  /\ StepsIn({"leave"}) > 0 => StepsIn({"release"}) > 0
  /\ todo # <<>> => active > 0 \/ StepsIn({"release"}) > 0 \/ StepsIn({"announce"}) > 0

Gone ==
  deleted /\ ~resumed =>
    /\ JobsIn(Held) = 0 /\ Unannounced = 0 /\ active = 0 /\ ThreadsIn(Busy) = 0
    /\ todo = <<>>

Inv == Types /\ Balanced /\ ClosedOnce /\ Untouched /\ HandlerHolds /\ Gone
-----------------------------------------------------------------------------
(* The effect of steps on the counts.                                      *)
LEMMA CountsAreNumbers ==
  ASSUME Types, NEW S, NEW P \in SUBSET Doing
  PROVE  /\ JobsIn(S) \in Nat /\ StepsIn(S) \in Nat /\ ThreadsIn(P) \in Nat
         /\ Count(batch, S) \in Nat /\ Count(tasks, S) \in Nat
<1>1. Count(batch, S) \in Nat /\ Count(tasks, S) \in Nat /\ Count(todo, S) \in Nat
  BY CountType DEF Types
<1>2. ThreadsIn(P) \in Nat
  BY ChannelAssumption, FS_Subset, FS_CardinalityType DEF ThreadsIn
<1> QED
  BY <1>1, <1>2 DEF JobsIn, StepsIn

LEMMA ExecuteCounts ==
  ASSUME Types, NEW job \in Jobs, Execute(job), batch' = batch, NEW S
  PROVE  tasks' \in Seq(Jobs) /\ JobsIn(S)' = JobsIn(S) + One(job \in S)
<1>1. Count(Append(tasks, job), S) = Count(tasks, S) + One(job \in S)
  BY CountAppend DEF Types
<1>2. tasks' = Append(tasks, job)
  BY DEF Execute
<1>3. Count(batch, S) \in Nat /\ Count(tasks, S) \in Nat
  BY CountType DEF Types
<1>5. One(job \in S) \in Nat
  BY DEF One
<1>4. JobsIn(S)' = Count(batch, S) + Count(Append(tasks, job), S)
  BY <1>2 DEF JobsIn
<1> QED
  BY <1>1, <1>2, <1>3, <1>4, <1>5 DEF JobsIn, Types

LEMMA DoneCounts ==
  ASSUME Types, todo # <<>>, Done, NEW S
  PROVE  /\ todo' \in Seq(Steps)
         /\ StepsIn(S)' = StepsIn(S) - One(Head(todo) \in S)
         /\ StepsIn(S)' \in Nat
<1>1. todo' = Tail(todo) /\ Tail(todo) \in Seq(Steps)
  BY HeadTailProperties DEF Done, Types
<1>2. Count(todo, S) = One(Head(todo) \in S) + Count(Tail(todo), S)
  BY CountTail DEF Types
<1>3. Count(Tail(todo), S) \in Nat
  BY <1>1, CountType
<1>4. StepsIn(S)' = Count(Tail(todo), S)
  BY <1>1 DEF StepsIn
<1>5. One(Head(todo) \in S) \in Nat
  BY DEF One
<1> QED
  BY <1>1, <1>2, <1>3, <1>4, <1>5 DEF StepsIn

LEMMA ThenCounts ==
  ASSUME Types, todo # <<>>, NEW steps \in Seq(Steps), Then(steps), NEW S
  PROVE  /\ todo' \in Seq(Steps)
         /\ StepsIn(S)' = StepsIn(S) - One(Head(todo) \in S) + Count(steps, S)
         /\ StepsIn(S)' \in Nat
<1>1. todo' = steps \o Tail(todo) /\ Tail(todo) \in Seq(Steps)
  BY HeadTailProperties DEF Then, Types
<1>2. Count(todo, S) = One(Head(todo) \in S) + Count(Tail(todo), S)
  BY CountTail DEF Types
<1>3. Count(steps \o Tail(todo), S) = Count(steps, S) + Count(Tail(todo), S)
  BY <1>1, CountConcat
<1>4. Count(Tail(todo), S) \in Nat /\ Count(steps, S) \in Nat
  BY <1>1, CountType
<1>7. One(Head(todo) \in S) \in Nat
  BY DEF One
<1>5. StepsIn(S)' = Count(steps \o Tail(todo), S)
  BY <1>1 DEF StepsIn
<1>6. steps \o Tail(todo) \in Seq(Steps)
  BY <1>1, ConcatProperties
<1> QED
  BY <1>1, <1>2, <1>3, <1>4, <1>5, <1>6, <1>7 DEF StepsIn

LEMMA DoneLast ==
  ASSUME Types, todo # <<>>, OnlyLast(todo), Done
  PROVE  /\ OnlyLast(todo)'
         /\ Head(todo) = "release" => todo' = <<>>
<1>1. todo \in Seq(Steps) /\ Len(todo) \in Nat \ {0} /\ DOMAIN todo = 1 .. Len(todo)
  BY LenProperties, EmptySeq DEF Types
<1>2. /\ todo' = Tail(todo) /\ Tail(todo) \in Seq(Steps)
      /\ Len(Tail(todo)) = Len(todo) - 1
      /\ \A i \in 1 .. Len(Tail(todo)) : Tail(todo)[i] = todo[i + 1]
  BY <1>1, HeadTailProperties DEF Done
<1>3. DOMAIN todo' = 1 .. Len(todo')
  BY <1>2, LenProperties
<1>4. OnlyLast(todo')
  BY <1>1, <1>2, <1>3 DEF OnlyLast
<1>5. ASSUME Head(todo) = "release" PROVE todo' = <<>>
  <2>1. todo[1] = "release" /\ 1 \in DOMAIN todo
    BY <1>1, <1>5
  <2>2. Len(todo) = 1
    BY <2>1 DEF OnlyLast
  <2> QED
    BY <1>1, <1>2, <2>2, EmptySeq
<1> QED
  BY <1>4, <1>5

LEMMA ThenLast ==
  ASSUME Types, todo # <<>>, OnlyLast(todo), Head(todo) # "release",
         NEW steps \in Seq(Steps \ {"release"}), Then(steps)
  PROVE  OnlyLast(todo)'
<1>1. /\ todo' = steps \o Tail(todo) /\ Tail(todo) \in Seq(Steps)
      /\ steps \in Seq(Steps)
  BY HeadTailProperties, SeqMonotonic DEF Then, Types
<1>2. /\ todo \in Seq(Steps) /\ Len(todo) \in Nat \ {0} /\ DOMAIN todo = 1 .. Len(todo)
      /\ Len(steps) \in Nat /\ steps \in [1 .. Len(steps) -> Steps \ {"release"}]
  BY LenProperties, EmptySeq DEF Types
<1>3. /\ Len(Tail(todo)) = Len(todo) - 1
      /\ \A i \in 1 .. Len(Tail(todo)) : Tail(todo)[i] = todo[i + 1]
  BY <1>2, HeadTailProperties
<1>4. /\ Len(todo') = Len(steps) + Len(Tail(todo))
      /\ \A i \in 1 .. Len(steps) + Len(Tail(todo)) :
           todo'[i] = IF i <= Len(steps) THEN steps[i] ELSE Tail(todo)[i - Len(steps)]
      /\ todo' \in Seq(Steps)
  BY <1>1, ConcatProperties
<1>5. DOMAIN todo' = 1 .. Len(todo')
  BY <1>4, LenProperties
<1>6. ASSUME NEW i \in DOMAIN todo', todo'[i] = "release" PROVE i = Len(todo')
  <2>1. i \in 1 .. Len(steps) + Len(Tail(todo))
    BY <1>4, <1>5
  <2>2. i > Len(steps)
    BY <1>2, <1>4, <1>6, <2>1
  <2>3. i - Len(steps) \in 1 .. Len(Tail(todo)) /\ Tail(todo)[i - Len(steps)] = "release"
    BY <1>2, <1>3, <1>4, <1>6, <2>1, <2>2
  <2>4. todo[i - Len(steps) + 1] = "release" /\ i - Len(steps) + 1 \in DOMAIN todo
    BY <1>2, <1>3, <2>3
  <2>5. i - Len(steps) + 1 = Len(todo)
    BY <2>4 DEF OnlyLast
  <2> QED
    BY <1>2, <1>3, <1>4, <2>1, <2>5
<1> QED
  BY <1>6 DEF OnlyLast
-----------------------------------------------------------------------------
(* Most steps queue at most one job, and neither begin nor end the handler *)
(* that holds the channel.                                                 *)
Plain == Steps \ {"release", "leave", "announce"}

SameClose == resumed' \/ ("close" \in bits' <=> "close" \in bits)

JobStep ==
  \/ tasks' = tasks /\ ref' = ref /\ SameClose
  \/ SameClose /\ \E job \in Held \ {"close"} : Post(job)
  \/ Post("close") /\ "close" \notin bits /\ "close" \in bits'

TodoStep ==
  \/ todo' = todo
  \/ todo # <<>> /\ Head(todo) \in Plain /\ Done
  \/ todo # <<>> /\ Head(todo) \in Plain /\ \E steps \in Seq(Plain) : Then(steps)
  \/ todo = <<>> /\ active > 0 /\ todo' \in Seq(Plain)

LEMMA JobStepCounts ==
  ASSUME Types, JobStep, batch' = batch
  PROVE  \E d, c \in Nat :
           /\ tasks' \in Seq(Jobs)
           /\ ref' = ref + d /\ JobsIn(Held)' = JobsIn(Held) + d
           /\ JobsIn({"close"})' = JobsIn({"close"}) + c
           /\ JobsIn({"connected"})' = JobsIn({"connected"})
           /\ resumed' \/ One("close" \in bits)' = One("close" \in bits) + c
<1>1. /\ JobsIn(Held) \in Nat /\ JobsIn({"close"}) \in Nat /\ JobsIn({"connected"}) \in Nat
      /\ ref \in Int /\ tasks \in Seq(Jobs)
  BY CountsAreNumbers DEF Types
<1>2. CASE tasks' = tasks /\ ref' = ref /\ SameClose
  <2>1. \A S : JobsIn(S)' = JobsIn(S)
    BY <1>2 DEF JobsIn
  <2>2. resumed' \/ One("close" \in bits)' = One("close" \in bits) + 0
    BY <1>2 DEF SameClose, One
  <2> QED
    BY <1>1, <1>2, <2>1, <2>2
<1>3. CASE SameClose /\ \E job \in Held \ {"close"} : Post(job)
  <2>1. PICK job \in Held \ {"close"} : Post(job)
    BY <1>3
  <2>2. job \in Jobs /\ Execute(job) /\ ref' = ref + 1
    BY <2>1 DEF Post, Held
  <2>3. \A S : tasks' \in Seq(Jobs) /\ JobsIn(S)' = JobsIn(S) + One(job \in S)
    BY <2>2, ExecuteCounts
  <2>4. One(job \in Held) = 1 /\ One(job \in {"close"}) = 0 /\ One(job \in {"connected"}) = 0
    BY <2>1 DEF One, Held
  <2>5. resumed' \/ One("close" \in bits)' = One("close" \in bits) + 0
    BY <1>3 DEF SameClose, One
  <2> QED
    BY <1>1, <2>2, <2>3, <2>4, <2>5
<1>4. CASE Post("close") /\ "close" \notin bits /\ "close" \in bits'
  <2>1. "close" \in Jobs /\ Execute("close") /\ ref' = ref + 1
    BY <1>4 DEF Post, Jobs
  <2>2. \A S : tasks' \in Seq(Jobs) /\ JobsIn(S)' = JobsIn(S) + One("close" \in S)
    BY <2>1, ExecuteCounts
  <2>3. One("close" \in Held) = 1 /\ One("close" \in {"close"}) = 1 /\ One("close" \in {"connected"}) = 0
    BY DEF One, Held, Jobs
  <2>4. One("close" \in bits)' = One("close" \in bits) + 1
    BY <1>4 DEF One
  <2> QED
    BY <1>1, <2>1, <2>2, <2>3, <2>4
<1> QED
  BY <1>2, <1>3, <1>4 DEF JobStep

LEMMA TodoStepCounts ==
  ASSUME Types, HandlerHolds, TodoStep
  PROVE  /\ todo' \in Seq(Steps) /\ OnlyLast(todo)'
         /\ \A S \in SUBSET {"release", "leave", "announce"} : StepsIn(S)' = StepsIn(S)
         /\ todo' # <<>> => todo # <<>> \/ active > 0
<1>1. CASE todo' = todo
  BY <1>1 DEF Types, HandlerHolds, OnlyLast, StepsIn
<1>2. ASSUME NEW S \in SUBSET {"release", "leave", "announce"}, Head(todo) \in Plain
      PROVE  One(Head(todo) \in S) = 0
  BY <1>2 DEF One, Plain
<1>3. ASSUME NEW S \in SUBSET {"release", "leave", "announce"} PROVE StepsIn(S) \in Nat
  BY CountType DEF Types, StepsIn
<1>4. ASSUME NEW S \in SUBSET {"release", "leave", "announce"}, NEW steps \in Seq(Plain)
      PROVE  Count(steps, S) = 0
  <2>1. S \cap Plain = {}
    BY DEF Plain
  <2> QED
    BY <2>1, CountNone
<1>5. CASE todo # <<>> /\ Head(todo) \in Plain /\ Done
  <2>1. todo' \in Seq(Steps) /\ OnlyLast(todo)'
    BY <1>5, DoneCounts, DoneLast DEF HandlerHolds
  <2>2. ASSUME NEW S \in SUBSET {"release", "leave", "announce"}
        PROVE  StepsIn(S)' = StepsIn(S) - One(Head(todo) \in S)
    BY <1>5, DoneCounts
  <2> QED
    BY <1>2, <1>3, <1>5, <2>1, <2>2
<1>6. CASE todo # <<>> /\ Head(todo) \in Plain /\ \E steps \in Seq(Plain) : Then(steps)
  <2>1. PICK steps \in Seq(Plain) : Then(steps)
    BY <1>6
  <2>2. steps \in Seq(Steps) /\ steps \in Seq(Steps \ {"release"})
    BY SeqMonotonic DEF Plain
  <2>3. todo' \in Seq(Steps)
    BY <1>6, <2>1, <2>2, ThenCounts
  <2>4. OnlyLast(todo)'
    BY <1>6, <2>1, <2>2, ThenLast DEF HandlerHolds, Plain
  <2>5. ASSUME NEW S \in SUBSET {"release", "leave", "announce"}
        PROVE  StepsIn(S)' = StepsIn(S) - One(Head(todo) \in S) + Count(steps, S)
    BY <1>6, <2>1, <2>2, ThenCounts
  <2> QED
    BY <1>2, <1>3, <1>4, <1>6, <2>3, <2>4, <2>5
<1>7. CASE todo = <<>> /\ active > 0 /\ todo' \in Seq(Plain)
  <2>1. todo' \in Seq(Steps)
    BY <1>7, SeqMonotonic DEF Plain
  <2>2. OnlyLast(todo)'
    BY <1>7, LenProperties DEF OnlyLast, Plain
  <2>3. ASSUME NEW S \in SUBSET {"release", "leave", "announce"} PROVE StepsIn(S)' = 0
    BY <1>4, <1>7 DEF StepsIn
  <2>4. ASSUME NEW S \in SUBSET {"release", "leave", "announce"} PROVE StepsIn(S) = 0
    BY <1>7, CountEmpty DEF StepsIn
  <2> QED
    BY <1>7, <2>1, <2>2, <2>3, <2>4
<1> QED
  BY <1>1, <1>5, <1>6, <1>7 DEF TodoStep
-----------------------------------------------------------------------------
(* Whoever is at work has been told of the channel.                        *)
LEMMA Announced ==
  ASSUME Inv, active > 0 \/ ThreadsIn(Busy) > 0 \/ (todo # <<>> /\ Head(todo) # "announce")
  PROVE  Unannounced = 0
<1>1. JobsIn({"connected"}) \in Nat /\ StepsIn({"announce"}) \in Nat
  BY CountsAreNumbers DEF Inv
<1>2. active \in Int /\ ThreadsIn(Busy) \in Nat
  BY CountsAreNumbers DEF Inv, Types, Doing
<1>3. ASSUME todo # <<>>, Head(todo) # "announce" PROVE todo \notin {<<>>, <<"announce">>}
  BY <1>3
<1> QED
  BY <1>1, <1>2, <1>3 DEF Inv, Untouched, Unannounced

(* A step that moves no job, no step and no holder.                        *)
LEMMA SameCountsKeep ==
  ASSUME Inv, \A S : JobsIn(S)' = JobsIn(S),
         batch' \in Seq(Jobs), tasks' \in Seq(Jobs), phase' # "tasks" => batch' = <<>>,
         UNCHANGED <<todo, upc, ref, active, bits, deleted, resumed>>
  PROVE  Inv'
<1>1. Types'
  BY DEF Inv, Types
<1>2. /\ \A S : StepsIn(S)' = StepsIn(S) /\ ThreadsIn(S)' = ThreadsIn(S)
      /\ Unannounced' = Unannounced
  BY DEF StepsIn, ThreadsIn, Unannounced
<1>3. Balanced'
  BY <1>2 DEF Inv, Balanced
<1>4. ClosedOnce'
  BY <1>2 DEF Inv, ClosedOnce, One
<1>5. Untouched' /\ HandlerHolds' /\ Gone'
  BY <1>2 DEF Inv, Untouched, HandlerHolds, OnlyLast, Gone
<1> QED
  BY <1>1, <1>3, <1>4, <1>5 DEF Inv

(* A step of the loop or of a filter that at most queues a job.            *)
LEMMA QuietKeeps ==
  ASSUME Inv, JobStep, TodoStep, Unannounced = 0, ~deleted', resumed => resumed',
         batch' = batch, upc' = upc, active' = active, phase' # "tasks" => phase # "tasks"
  PROVE  Inv'
<1>1. PICK d \in Nat, c \in Nat :
        /\ tasks' \in Seq(Jobs)
        /\ ref' = ref + d /\ JobsIn(Held)' = JobsIn(Held) + d
        /\ JobsIn({"close"})' = JobsIn({"close"}) + c
        /\ JobsIn({"connected"})' = JobsIn({"connected"})
        /\ resumed' \/ One("close" \in bits)' = One("close" \in bits) + c
  BY JobStepCounts DEF Inv
<1>2. /\ todo' \in Seq(Steps) /\ OnlyLast(todo)'
      /\ StepsIn({"release"})' = StepsIn({"release"})
      /\ StepsIn({"leave"})' = StepsIn({"leave"})
      /\ StepsIn({"announce"})' = StepsIn({"announce"})
      /\ todo' # <<>> => todo # <<>> \/ active > 0
  BY TodoStepCounts DEF Inv
<1>3. /\ JobsIn(Held) \in Nat /\ JobsIn({"close"}) \in Nat
      /\ StepsIn({"release"}) \in Nat /\ StepsIn({"leave"}) \in Nat /\ StepsIn({"announce"}) \in Nat
      /\ ThreadsIn(Busy) \in Nat /\ ThreadsIn({"closing"}) \in Nat
      /\ ref \in Int /\ active \in Int
  BY CountsAreNumbers DEF Inv, Types, Doing, Busy
<1>4. Unannounced' = 0 /\ \A P : ThreadsIn(P)' = ThreadsIn(P)
  BY <1>1, <1>2 DEF Unannounced, ThreadsIn
<1>5. Types'
  BY <1>1, <1>2, <1>3 DEF Inv, Types
<1>6. Balanced'
  <2>1. ref' = ref + d /\ JobsIn(Held)' = JobsIn(Held) + d
    BY <1>1
  <2>2. StepsIn({"release"})' = StepsIn({"release"}) /\ ThreadsIn(Busy)' = ThreadsIn(Busy)
    BY <1>2, <1>4
  <2>3. ref = JobsIn(Held) + StepsIn({"release"}) + active + ThreadsIn(Busy)
    BY DEF Inv, Balanced
  <2> QED
    BY <1>3, <2>1, <2>2, <2>3 DEF Balanced
<1>7. ClosedOnce'
  <2>1. One("close" \in bits) \in Nat
    BY DEF One
  <2>2. active' + Unannounced' <= 1
    BY <1>3, <1>4 DEF Inv, ClosedOnce
  <2>3. ASSUME ~resumed'
        PROVE  JobsIn({"close"})' + ThreadsIn({"closing"})' + StepsIn({"leave"})'
                 + 1 - active' - Unannounced' = One("close" \in bits)'
    <3>1. JobsIn({"close"}) + ThreadsIn({"closing"}) + StepsIn({"leave"})
            + 1 - active - Unannounced = One("close" \in bits)
      BY <2>3 DEF Inv, ClosedOnce
    <3>2. One("close" \in bits)' = One("close" \in bits) + c
      BY <1>1, <2>3
    <3> QED
      BY <1>1, <1>2, <1>3, <1>4, <2>1, <3>1, <3>2, SMTT(30)
  <2> QED
    BY <2>2, <2>3 DEF ClosedOnce
<1>8. Untouched' /\ Gone'
  BY <1>4 DEF Untouched, Gone
<1>9. HandlerHolds'
  BY <1>2, <1>3 DEF Inv, HandlerHolds
<1> QED
  BY <1>5, <1>6, <1>7, <1>8, <1>9 DEF Inv
-----------------------------------------------------------------------------
(* The steps that are a case of the two lemmas.                            *)
LEMMA NothingHappens ==
  ASSUME Inv, UNCHANGED <<tasks, batch, todo, upc, ref, active, bits, deleted, resumed>>,
         phase' = phase \/ phase' = "tasks" \/ batch = <<>>
  PROVE  Inv'
<1>1. \A S : JobsIn(S)' = JobsIn(S)
  BY DEF JobsIn
<1>2. batch' \in Seq(Jobs) /\ tasks' \in Seq(Jobs) /\ (phase' # "tasks" => batch' = <<>>)
  BY DEF Inv, Types
<1> QED
  BY <1>1, <1>2, SameCountsKeep

LEMMA LoopMoves ==
  ASSUME Inv, PollNothing \/ NextIteration \/ Splice \/ Peer
  PROVE  Inv'
<1>1. CASE PollNothing
  BY <1>1, NothingHappens DEF PollNothing, Inv, Types
<1>2. CASE NextIteration
  BY <1>2, NothingHappens DEF NextIteration
<1>3. CASE Splice
  <2>1. /\ batch = <<>> /\ tasks \in Seq(Jobs)
        /\ batch' = tasks /\ tasks' = <<>> /\ phase' = "tasks"
    BY <1>3 DEF Splice, Inv, Types
  <2>2. ASSUME NEW S PROVE JobsIn(S)' = JobsIn(S)
    <3>1. Count(tasks, S) \in Nat /\ Count(<<>>, S) = 0
      BY <2>1, CountType, CountEmpty
    <3> QED
      BY <2>1, <3>1 DEF JobsIn
  <2>3. UNCHANGED <<todo, upc, ref, active, bits, deleted, resumed>>
    BY <1>3 DEF Splice
  <2>4. batch' \in Seq(Jobs) /\ tasks' \in Seq(Jobs) /\ (phase' # "tasks" => batch' = <<>>)
    BY <2>1
  <2> QED
    BY <2>2, <2>3, <2>4, SameCountsKeep
<1>4. CASE Peer
  BY <1>4, NothingHappens
     DEF Peer, PeerSends, PeerReceives, PeerCloses, ConnectionBreaks, loopVars
<1> QED
  BY <1>1, <1>2, <1>3, <1>4

(* Each of these queues a job, if any, that holds the channel.             *)
LEMMA JobSteps ==
  /\ error_propagation => JobStep
  /\ close => JobStep
  /\ (UNCHANGED <<ref, tasks>> /\ SameClose) => JobStep
  /\ (do_write /\ bits' = bits) => JobStep
  /\ \A job \in {"write", "register"} : (Post(job) /\ SameClose) => JobStep
<1>1. {"write", "register", "send", "error"} \subseteq Held \ {"close"}
  BY DEF Held, Jobs
<1>2. error_propagation => JobStep
  BY <1>1 DEF error_propagation, JobStep, SameClose
<1>3. close => JobStep
  BY <1>1 DEF close, JobStep, SameClose
<1>4. (do_write /\ bits' = bits) => JobStep
  BY <1>1 DEF do_write, JobStep, SameClose
<1> QED
  BY <1>1, <1>2, <1>3, <1>4 DEF JobStep

LEMMA PlainSteps ==
  /\ Callbacks \subseteq Plain
  /\ {"readable", "writeable", "register", "register_failed", "do_write", "closing"} \subseteq Plain
  /\ \A step \in Plain : step # "announce" /\ <<step>> \in Seq(Plain)
BY DEF Callbacks, Plain, Steps

(* A step of a handler that is not its first nor its last.                 *)
LEMMA HandlerSteps ==
  ASSUME Inv, ~deleted, NEW step \in Plain, Is(step),
         Done \/ (\E next \in Plain : Then(<<next>>)) \/ todo' = todo, JobStep,
         UNCHANGED <<batch, upc, active, deleted, phase>>, resumed => resumed'
  PROVE  Inv'
<1>1. TodoStep
  BY PlainSteps DEF TodoStep, Is
<1>2. Unannounced = 0
  BY PlainSteps, Announced DEF Is
<1> QED
  BY <1>1, <1>2, QuietKeeps

LEMMA HandlersKeep ==
  ASSUME Inv, ~deleted,
         \/ RegisterHandle \/ RegisterFailed \/ HandleReadable \/ HandleWriteable
         \/ FireDoWrite \/ FireOnClose
  PROVE  Inv'
<1>1. CASE RegisterHandle
  <2>1. Is("register") /\ "register" \in Plain
    BY <1>1, PlainSteps DEF RegisterHandle
  <2>2. Done \/ \E next \in Plain : Then(<<next>>)
    BY <1>1, PlainSteps DEF RegisterHandle, Callbacks
  <2>3. JobStep
    BY <1>1, JobSteps DEF RegisterHandle, SameClose
  <2>4. UNCHANGED <<batch, upc, active, deleted, phase>> /\ (resumed => resumed')
    BY <1>1 DEF RegisterHandle
  <2> QED
    BY <2>1, <2>2, <2>3, <2>4, HandlerSteps
<1>2. CASE RegisterFailed
  <2>1. Is("register_failed") /\ "register_failed" \in Plain
    BY <1>2, PlainSteps DEF RegisterFailed
  <2>2. Done \/ \E next \in Plain : Then(<<next>>)
    BY <1>2, PlainSteps DEF RegisterFailed, Callbacks
  <2>3. JobStep
    BY <1>2, JobSteps DEF RegisterFailed, SameClose
  <2>4. UNCHANGED <<batch, upc, active, deleted, phase>> /\ (resumed => resumed')
    BY <1>2 DEF RegisterFailed
  <2> QED
    BY <2>1, <2>2, <2>3, <2>4, HandlerSteps
<1>3. CASE HandleReadable
  <2>1. Is("readable") /\ "readable" \in Plain
    BY <1>3, PlainSteps DEF HandleReadable
  <2>2. Done \/ \E next \in Plain : Then(<<next>>)
    BY <1>3, PlainSteps DEF HandleReadable, FailNow, Callbacks
  <2>3. JobStep
    BY <1>3, JobSteps DEF HandleReadable, FailNow, SameClose
  <2>4. UNCHANGED <<batch, upc, active, deleted, phase>> /\ (resumed => resumed')
    BY <1>3 DEF HandleReadable
  <2> QED
    BY <2>1, <2>2, <2>3, <2>4, HandlerSteps
<1>4. CASE HandleWriteable
  <2>1. Is("writeable") /\ "writeable" \in Plain
    BY <1>4, PlainSteps DEF HandleWriteable
  <2>2. Done \/ \E next \in Plain : Then(<<next>>)
    BY <1>4, PlainSteps DEF HandleWriteable, FailNow, Callbacks
  <2>3. JobStep
    BY <1>4, JobSteps DEF HandleWriteable, FailNow, SameClose
  <2>4. UNCHANGED <<batch, upc, active, deleted, phase>> /\ (resumed => resumed')
    BY <1>4 DEF HandleWriteable
  <2> QED
    BY <2>1, <2>2, <2>3, <2>4, HandlerSteps
<1>5. CASE FireDoWrite
  <2>1. Is("do_write") /\ "do_write" \in Plain
    BY <1>5, PlainSteps DEF FireDoWrite
  <2>2. Done \/ \E next \in Plain : Then(<<next>>)
    BY <1>5, PlainSteps DEF FireDoWrite, Callbacks
  <2>3. JobStep
    BY <1>5, JobSteps DEF FireDoWrite, SameClose
  <2>4. UNCHANGED <<batch, upc, active, deleted, phase>> /\ (resumed => resumed')
    BY <1>5 DEF FireDoWrite
  <2> QED
    BY <2>1, <2>2, <2>3, <2>4, HandlerSteps
<1>6. CASE FireOnClose
  <2>1. Is("closing") /\ "closing" \in Plain
    BY <1>6, PlainSteps DEF FireOnClose
  <2>2. Done \/ \E next \in Plain : Then(<<next>>)
    BY <1>6, PlainSteps DEF FireOnClose, Callbacks
  <2>3. JobStep
    BY <1>6, JobSteps DEF FireOnClose, SameClose
  <2>4. UNCHANGED <<batch, upc, active, deleted, phase>> /\ (resumed => resumed')
    BY <1>6 DEF FireOnClose
  <2> QED
    BY <2>1, <2>2, <2>3, <2>4, HandlerSteps
<1> QED
  BY <1>1, <1>2, <1>3, <1>4, <1>5, <1>6

LEMMA CallbacksKeep ==
  ASSUME Inv, ~deleted,
         \/ CallbackCloses \/ CallbackWrites \/ CallbackWritesDirectly \/ CallbackFails
         \/ pending_read \/ continue_read \/ CallbackReturns
  PROVE  Inv'
<1>1. PICK step \in Plain : Is(step)
  <2>1. todo # <<>> /\ Head(todo) \in Callbacks
    BY DEF CallbackCloses, CallbackWrites, CallbackWritesDirectly, CallbackFails,
           pending_read, continue_read, CallbackReturns, InCallback, Idle, Is, Callbacks
  <2> QED
    BY <2>1, PlainSteps DEF Is
<1>2. JobStep
  <2>1. CASE CallbackCloses \/ CallbackFails
    BY <2>1, JobSteps DEF CallbackCloses, CallbackFails
  <2>2. CASE CallbackWrites \/ CallbackWritesDirectly
    BY <2>2, JobSteps DEF CallbackWrites, CallbackWritesDirectly, SameClose
  <2>3. CASE pending_read
    BY <2>3, JobSteps DEF pending_read, SameClose, loopVars
  <2>4. CASE continue_read
    BY <2>4, JobSteps DEF continue_read, SameClose
  <2>5. CASE CallbackReturns
    BY <2>5, JobSteps DEF CallbackReturns, SameClose
  <2> QED
    BY <2>1, <2>2, <2>3, <2>4, <2>5
<1>3. todo' = todo \/ Done
  BY DEF CallbackCloses, CallbackWrites, CallbackWritesDirectly, CallbackFails,
         pending_read, continue_read, CallbackReturns, loopVars
<1>4. UNCHANGED <<batch, upc, active, deleted, phase>> /\ (resumed => resumed')
  BY DEF CallbackCloses, CallbackWrites, CallbackWritesDirectly, CallbackFails,
         pending_read, continue_read, CallbackReturns, loopVars
<1> QED
  BY <1>1, <1>2, <1>3, <1>4, HandlerSteps

LEMMA EventsKeep ==
  ASSUME Inv, ~deleted, PollEvent \/ RecvTimeout
  PROVE  Inv'
<1>1. active > 0 /\ active \in Int /\ todo = <<>>
  BY DEF PollEvent, RecvTimeout, Watched, Idle, Inv, Types
<1>2. Unannounced = 0
  BY <1>1, Announced
<1>3. JobStep
  BY JobSteps DEF PollEvent, RecvTimeout, SameClose
<1>4. TodoStep
  <2>1. CASE PollEvent
    <3> DEFINE ins == IF "in" \in Ready THEN <<"readable">> ELSE <<>>
               outs == IF "out" \in Ready THEN <<"writeable">> ELSE <<>>
    <3>1. {"on_error", "readable", "writeable", "register"} \subseteq Plain
      BY PlainSteps DEF Callbacks
    <3>2. ins \in Seq(Plain) /\ outs \in Seq(Plain) /\ <<"register">> \in Seq(Plain)
      BY <3>1
    <3>3. ins \o outs \o <<"register">> \in Seq(Plain)
      <4> HIDE DEF ins, outs
      <4> QED
        BY <3>2, ConcatProperties
    <3>4. todo' \in {<<>>, <<"on_error">>, ins \o outs \o <<"register">>}
      BY <1>1, <2>1 DEF PollEvent
    <3>5. <<>> \in Seq(Plain) /\ <<"on_error">> \in Seq(Plain)
      BY <3>1
    <3>6. todo' \in Seq(Plain)
      <4> HIDE DEF ins, outs
      <4> QED
        BY <3>3, <3>4, <3>5
    <3> QED
      BY <1>1, <3>6 DEF TodoStep
  <2>2. CASE RecvTimeout
    BY <2>2 DEF RecvTimeout, TodoStep
  <2> QED
    BY <2>1, <2>2
<1>5. /\ batch' = batch /\ upc' = upc /\ active' = active /\ ~deleted'
      /\ (phase' # "tasks" => phase # "tasks") /\ (resumed => resumed')
  BY DEF PollEvent, RecvTimeout
<1> QED
  BY <1>2, <1>3, <1>4, <1>5, QuietKeeps
-----------------------------------------------------------------------------
(* A job becomes a handler.                                                *)
LEMMA HandlerCounts ==
  ASSUME NEW job \in Jobs
  PROVE  /\ Handler(job) \in Seq(Steps) /\ Handler(job) # <<>> /\ OnlyLast(Handler(job))
         /\ Count(Handler(job), {"release"}) = One(job \in Held)
         /\ Count(Handler(job), {"leave"}) = One(job \in {"close"})
         /\ Count(Handler(job), {"announce"}) = One(job \in {"connected"})
         /\ job = "connected" => Handler(job) = <<"announce">>
<1>1. ASSUME job # "connected", NEW steps \in Seq(Steps), Handler(job) = steps,
             steps # <<>>, steps[Len(steps)] = "release",
             \A i \in DOMAIN steps : steps[i] = "release" => i = Len(steps),
             \A i \in DOMAIN steps : steps[i] # "announce"
      PROVE  /\ Handler(job) \in Seq(Steps) /\ Handler(job) # <<>> /\ OnlyLast(Handler(job))
             /\ Count(Handler(job), {"release"}) = One(job \in Held)
             /\ Count(Handler(job), {"announce"}) = One(job \in {"connected"})
  <2>1. One(job \in Held) = 1 /\ One(job \in {"connected"}) = 0
    BY <1>1 DEF One, Held
  <2>2. Len(steps) \in DOMAIN steps
    BY <1>1, LenProperties, EmptySeq
  <2>3. Count(steps, {"release"}) = 1
    BY <1>1, <2>2, CountOnce
  <2>4. {i \in DOMAIN steps : steps[i] \in {"announce"}} = {}
    BY <1>1
  <2>5. Count(steps, {"announce"}) = 0
    BY <2>4, FS_EmptySet DEF Count
  <2> QED
    BY <1>1, <2>1, <2>3, <2>5 DEF OnlyLast
<1>2. ASSUME job # "close", NEW steps \in Seq(Steps), Handler(job) = steps,
             \A i \in DOMAIN steps : steps[i] # "leave"
      PROVE  Count(Handler(job), {"leave"}) = One(job \in {"close"})
  <2>1. {i \in DOMAIN steps : steps[i] \in {"leave"}} = {}
    BY <1>2
  <2> QED
    BY <1>2, <2>1, FS_EmptySet DEF Count, One
<1>3. CASE job = "connected"
  <2>1. Handler(job) = <<"announce">>
    BY <1>3, Zenon DEF Handler
  <2>2. /\ One(job \in Held) = 0 /\ One(job \in {"close"}) = 0 /\ One(job \in {"connected"}) = 1
        /\ One("announce" \in {"release"}) = 0 /\ One("announce" \in {"leave"}) = 0
        /\ One("announce" \in {"announce"}) = 1
    BY <1>3 DEF One, Held
  <2>3. <<"announce">> \in Seq(Steps) /\ <<"announce">> # <<>> /\ OnlyLast(<<"announce">>)
    BY DEF Steps, OnlyLast
  <2> QED
    BY <2>1, <2>2, <2>3, CountSingle
<1>4. CASE job = "write"
  <2> DEFINE steps == <<"do_write", "release">>
  <2>1. Handler(job) = steps
    BY <1>4, Zenon DEF Handler
  <2>2. steps \in Seq(Steps)
    BY DEF Steps, Callbacks
  <2>3. /\ steps # <<>> /\ steps[Len(steps)] = "release"
        /\ \A i \in DOMAIN steps :
             /\ steps[i] = "release" => i = Len(steps)
             /\ steps[i] # "announce" /\ steps[i] # "leave"
    OBVIOUS
  <2>4. job # "connected" /\ job # "close"
    BY <1>4
  <2> HIDE DEF steps
  <2> QED
    BY <1>1, <1>2, <2>1, <2>2, <2>3, <2>4
<1>5. CASE job = "register"
  <2> DEFINE steps == <<"register", "release">>
  <2>1. Handler(job) = steps
    BY <1>5, Zenon DEF Handler
  <2>2. steps \in Seq(Steps)
    BY DEF Steps, Callbacks
  <2>3. /\ steps # <<>> /\ steps[Len(steps)] = "release"
        /\ \A i \in DOMAIN steps :
             /\ steps[i] = "release" => i = Len(steps)
             /\ steps[i] # "announce" /\ steps[i] # "leave"
    OBVIOUS
  <2>4. job # "connected" /\ job # "close"
    BY <1>5
  <2> HIDE DEF steps
  <2> QED
    BY <1>1, <1>2, <2>1, <2>2, <2>3, <2>4
<1>6. CASE job = "send" /\ Dead
  <2> DEFINE steps == <<"release">>
  <2>1. Handler(job) = steps
    BY <1>6, Zenon DEF Handler
  <2>2. steps \in Seq(Steps)
    BY DEF Steps, Callbacks
  <2>3. /\ steps # <<>> /\ steps[Len(steps)] = "release"
        /\ \A i \in DOMAIN steps :
             /\ steps[i] = "release" => i = Len(steps)
             /\ steps[i] # "announce" /\ steps[i] # "leave"
    OBVIOUS
  <2>4. job # "connected" /\ job # "close"
    BY <1>6
  <2> HIDE DEF steps
  <2> QED
    BY <1>1, <1>2, <2>1, <2>2, <2>3, <2>4
<1>7. CASE job = "send" /\ ~Dead
  <2> DEFINE steps == <<"writeable", "register", "release">>
  <2>1. Handler(job) = steps
    BY <1>7, Zenon DEF Handler
  <2>2. steps \in Seq(Steps)
    BY DEF Steps, Callbacks
  <2>3. /\ steps # <<>> /\ steps[Len(steps)] = "release"
        /\ \A i \in DOMAIN steps :
             /\ steps[i] = "release" => i = Len(steps)
             /\ steps[i] # "announce" /\ steps[i] # "leave"
    OBVIOUS
  <2>4. job # "connected" /\ job # "close"
    BY <1>7
  <2> HIDE DEF steps
  <2> QED
    BY <1>1, <1>2, <2>1, <2>2, <2>3, <2>4
<1>8. CASE job = "close"
  <2> DEFINE steps == <<"closing", "on_closed", "leave", "release">>
  <2>1. Handler(job) = steps
    BY <1>8, Zenon DEF Handler
  <2>2. steps \in Seq(Steps)
    BY DEF Steps, Callbacks
  <2>3. /\ steps # <<>> /\ steps[Len(steps)] = "release"
        /\ \A i \in DOMAIN steps :
             /\ steps[i] = "release" => i = Len(steps)
             /\ steps[i] # "announce"
    OBVIOUS
  <2>4. 3 \in DOMAIN steps /\ steps[3] = "leave" /\ \A i \in DOMAIN steps : i # 3 => steps[i] # "leave"
    OBVIOUS
  <2>5. job # "connected" /\ One(job \in {"close"}) = 1
    BY <1>8 DEF One
  <2> HIDE DEF steps
  <2>6. Count(steps, {"leave"}) = 1
    BY <2>2, <2>4, CountOnce
  <2> QED
    BY <1>1, <2>1, <2>2, <2>3, <2>5, <2>6
<1>9. CASE job = "error"
  <2> DEFINE steps == <<"on_error", "release">>
  <2>1. Handler(job) = steps
    BY <1>9, Zenon DEF Handler
  <2>2. steps \in Seq(Steps)
    BY DEF Steps, Callbacks
  <2>3. /\ steps # <<>> /\ steps[Len(steps)] = "release"
        /\ \A i \in DOMAIN steps :
             /\ steps[i] = "release" => i = Len(steps)
             /\ steps[i] # "announce" /\ steps[i] # "leave"
    OBVIOUS
  <2>4. job # "connected" /\ job # "close"
    BY <1>9
  <2> HIDE DEF steps
  <2> QED
    BY <1>1, <1>2, <2>1, <2>2, <2>3, <2>4
<1> QED
  BY <1>3, <1>4, <1>5, <1>6, <1>7, <1>8, <1>9 DEF Jobs

LEMMA RunJobKeeps ==
  ASSUME Inv, ~deleted, RunJob
  PROVE  Inv'
<1> DEFINE job == Head(batch)
<1>1. /\ todo = <<>> /\ batch # <<>> /\ batch \in Seq(Jobs) /\ job \in Jobs
      /\ batch' = Tail(batch) /\ batch' \in Seq(Jobs) /\ todo' = Handler(job)
      /\ UNCHANGED <<ref, active, tasks, upc, bits, phase>> /\ phase = "tasks"
  BY HeadTailProperties DEF RunJob, Idle, Inv, Types
<1>2. ~deleted' /\ (resumed => resumed')
  BY DEF RunJob
<1> HIDE DEF job
<1>3. /\ todo' \in Seq(Steps) /\ todo' # <<>> /\ OnlyLast(todo)'
      /\ StepsIn({"release"})' = One(job \in Held)
      /\ StepsIn({"leave"})' = One(job \in {"close"})
      /\ StepsIn({"announce"})' = One(job \in {"connected"})
      /\ job = "connected" => todo' = <<"announce">>
  BY <1>1, HandlerCounts DEF StepsIn, OnlyLast
<1>4. ASSUME NEW S
      PROVE  /\ JobsIn(S)' \in Nat
             /\ JobsIn(S) = JobsIn(S)' + One(job \in S)
  <2>1. Count(batch, S) = One(job \in S) + Count(batch', S)
    BY <1>1, CountTail DEF job
  <2>2. Count(batch', S) \in Nat /\ Count(tasks, S) \in Nat /\ One(job \in S) \in Nat
    BY <1>1, CountType DEF One, Inv, Types
  <2> QED
    BY <1>1, <2>1, <2>2 DEF JobsIn
<1>5. \A S : StepsIn(S) = 0 /\ ThreadsIn(S)' = ThreadsIn(S)
  BY <1>1, CountEmpty DEF StepsIn, ThreadsIn
<1>6. \A S : One(job \in S) \in {0, 1}
  BY DEF One
<1>7. /\ ThreadsIn(Busy) \in Nat /\ ThreadsIn({"closing"}) \in Nat
      /\ ref \in Int /\ active \in Int
  BY CountsAreNumbers DEF Inv, Types, Doing, Busy
<1>8. Unannounced' = Unannounced
  <2>1. JobsIn({"connected"}) = JobsIn({"connected"})' + One(job \in {"connected"})
    BY <1>4
  <2>2. JobsIn({"connected"})' \in Nat /\ One(job \in {"connected"}) \in Nat
    BY <1>4, <1>6
  <2>3. StepsIn({"announce"}) = 0
    BY <1>5
  <2> QED
    BY <1>3, <2>1, <2>2, <2>3 DEF Unannounced
<1>9. Types'
  BY <1>1, <1>3 DEF Inv, Types
<1>10. Balanced'
  <2>1. JobsIn(Held) = JobsIn(Held)' + One(job \in Held) /\ JobsIn(Held)' \in Nat
    BY <1>4
  <2>2. One(job \in Held) \in Nat
    BY <1>6
  <2> QED
    BY <1>1, <1>3, <1>5, <1>7, <2>1, <2>2 DEF Inv, Balanced
<1>11. ClosedOnce'
  <2>1. JobsIn({"close"}) = JobsIn({"close"})' + One(job \in {"close"}) /\ JobsIn({"close"})' \in Nat
    BY <1>4
  <2>2. One(job \in {"close"}) \in Nat
    BY DEF One
  <2>3. JobsIn({"close"}) + StepsIn({"leave"}) = JobsIn({"close"})' + StepsIn({"leave"})'
    BY <1>3, <1>5, <2>1, <2>2
  <2>4. /\ JobsIn({"close"}) \in Nat /\ StepsIn({"leave"}) \in Nat /\ StepsIn({"leave"})' \in Nat
        /\ Unannounced \in Nat
    <3>1. JobsIn({"connected"}) \in Nat /\ StepsIn({"announce"}) \in Nat /\ JobsIn({"close"}) \in Nat
      BY CountsAreNumbers DEF Inv
    <3> QED
      BY <1>3, <1>5, <2>2, <3>1 DEF Unannounced
  <2>5. JobsIn({"close"})' + ThreadsIn({"closing"})' + StepsIn({"leave"})'
          + 1 - active' - Unannounced'
        = JobsIn({"close"}) + ThreadsIn({"closing"}) + StepsIn({"leave"}) + 1 - active - Unannounced
    BY <1>1, <1>5, <1>7, <1>8, <2>1, <2>3, <2>4
  <2>6. active' + Unannounced' <= 1
    BY <1>1, <1>8 DEF Inv, ClosedOnce
  <2>7. One("close" \in bits)' = One("close" \in bits)
    BY <1>1
  <2> QED
    BY <1>2, <2>5, <2>6, <2>7 DEF Inv, ClosedOnce
<1>12. Untouched'
  <2> SUFFICES ASSUME Unannounced' > 0
               PROVE  /\ active' = 0 /\ JobsIn(Held)' = 0 /\ ThreadsIn(Busy)' = 0
                      /\ todo' \in {<<>>, <<"announce">>}
    BY DEF Untouched
  <2>1. active = 0 /\ JobsIn(Held) = 0 /\ ThreadsIn(Busy) = 0
    BY <1>8 DEF Inv, Untouched
  <2>2. JobsIn(Held) = JobsIn(Held)' + One(job \in Held) /\ JobsIn(Held)' \in Nat
    BY <1>4
  <2>3. One(job \in Held) = 0 /\ JobsIn(Held)' = 0
    BY <1>6, <2>1, <2>2
  <2>4. job = "connected"
    BY <1>1, <2>3 DEF One, Held
  <2> QED
    BY <1>1, <1>3, <1>5, <2>1, <2>3, <2>4
<1>13. HandlerHolds'
  <2>1. One(job \in {"close"}) > 0 => One(job \in Held) > 0
    BY DEF One, Held, Jobs
  <2>2. One(job \in Held) > 0 \/ One(job \in {"connected"}) > 0
    BY <1>1 DEF One, Held
  <2> QED
    BY <1>3, <2>1, <2>2 DEF HandlerHolds
<1> QED
  BY <1>2, <1>9, <1>10, <1>11, <1>12, <1>13 DEF Inv, Gone

LEMMA FireOnConnectedKeeps ==
  ASSUME Inv, ~deleted, FireOnConnected
  PROVE  Inv'
<1>1. /\ todo # <<>> /\ Head(todo) = "announce" /\ Then(<<"on_connected">>)
      /\ active' = active + 1 /\ UNCHANGED <<batch, phase, upc>>
  BY DEF FireOnConnected, Is
<1>2. ~deleted' /\ (resumed => resumed') /\ <<"on_connected">> \in Seq(Steps \ {"release"})
  BY DEF FireOnConnected, Steps, Callbacks
<1>3. /\ StepsIn({"announce"}) \in Nat /\ JobsIn({"connected"}) \in Nat
      /\ JobsIn({"close"}) \in Nat /\ ThreadsIn({"closing"}) \in Nat /\ StepsIn({"leave"}) \in Nat
      /\ StepsIn({"release"}) \in Nat /\ ref \in Int /\ active \in Int
  BY CountsAreNumbers DEF Inv, Types, Doing, Busy
<1>4. /\ todo' \in Seq(Steps) /\ OnlyLast(todo)'
      /\ \A S : StepsIn(S)' = StepsIn(S) - One("announce" \in S) + One("on_connected" \in S)
  <2>1. <<"on_connected">> \in Seq(Steps)
    BY DEF Steps, Callbacks
  <2>2. todo' \in Seq(Steps) /\ OnlyLast(todo)'
    BY <1>1, <1>2, <2>1, ThenCounts, ThenLast DEF Inv, HandlerHolds
  <2>3. ASSUME NEW S
        PROVE  StepsIn(S)' = StepsIn(S) - One("announce" \in S) + One("on_connected" \in S)
    <3>1. StepsIn(S)' = StepsIn(S) - One(Head(todo) \in S) + Count(<<"on_connected">>, S)
      BY <1>1, <2>1, ThenCounts DEF Inv
    <3> QED
      BY <1>1, <3>1, CountSingle
  <2> QED
    BY <2>2, <2>3
<1>5. /\ StepsIn({"announce"})' = StepsIn({"announce"}) - 1
      /\ StepsIn({"leave"})' = StepsIn({"leave"}) /\ StepsIn({"release"})' = StepsIn({"release"})
  <2>1. /\ One("announce" \in {"announce"}) = 1 /\ One("announce" \in {"leave"}) = 0
        /\ One("announce" \in {"release"}) = 0 /\ One("on_connected" \in {"announce"}) = 0
        /\ One("on_connected" \in {"leave"}) = 0 /\ One("on_connected" \in {"release"}) = 0
    BY DEF One
  <2> QED
    BY <1>3, <1>4, <2>1
<1>6. StepsIn({"announce"}) > 0
  <2>1. Count(todo, {"announce"}) = One(Head(todo) \in {"announce"}) + Count(Tail(todo), {"announce"})
    BY <1>1, CountTail DEF Inv, Types
  <2>2. Tail(todo) \in Seq(Steps) /\ Count(Tail(todo), {"announce"}) \in Nat
    BY <1>1, HeadTailProperties, CountType DEF Inv, Types
  <2> QED
    BY <1>1, <2>1, <2>2 DEF StepsIn, One
<1>7. Unannounced = 1 /\ JobsIn({"connected"}) = 0 /\ active = 0
      /\ JobsIn(Held) = 0 /\ ThreadsIn(Busy) = 0
  BY <1>3, <1>6 DEF Inv, Untouched, ClosedOnce, Unannounced
<1>8. PICK d \in Nat : /\ ref' = ref + 1 + d /\ tasks' \in Seq(Jobs)
                       /\ JobsIn(Held)' = JobsIn(Held) + d
                       /\ JobsIn({"connected"})' = JobsIn({"connected"})
                       /\ JobsIn({"close"})' = JobsIn({"close"})
  <2>1. CASE ref' = ref + 1 /\ tasks' = tasks
    <3>1. \A S : JobsIn(S)' = JobsIn(S)
      BY <1>1, <2>1 DEF JobsIn
    <3> QED
      BY <1>3, <1>7, <2>1, <3>1 DEF Inv, Types
  <2>2. CASE ref' = ref + 2 /\ Execute("error")
    <3>1. \A S : tasks' \in Seq(Jobs) /\ JobsIn(S)' = JobsIn(S) + One("error" \in S)
      BY <1>1, <2>2, ExecuteCounts DEF Inv, Jobs
    <3>2. One("error" \in Held) = 1 /\ One("error" \in {"close"}) = 0 /\ One("error" \in {"connected"}) = 0
      BY DEF One, Held, Jobs
    <3>3. ref' = ref + 1 + 1
      BY <1>3, <2>2
    <3> QED
      BY <1>3, <1>7, <3>1, <3>2, <3>3
  <2> QED
    BY <2>1, <2>2 DEF FireOnConnected
<1>9. Unannounced' = 0 /\ \A S : ThreadsIn(S)' = ThreadsIn(S)
  BY <1>1, <1>3, <1>5, <1>7, <1>8 DEF Unannounced, ThreadsIn
<1>10. Types'
  BY <1>1, <1>3, <1>4, <1>8 DEF Inv, Types
<1>11. Balanced'
  <2>1. ref = JobsIn(Held) + StepsIn({"release"}) + active + ThreadsIn(Busy)
    BY DEF Inv, Balanced
  <2> QED
    BY <1>1, <1>3, <1>5, <1>7, <1>8, <1>9, <2>1, SMTT(30) DEF Balanced
<1>12. ClosedOnce'
  <2>1. "close" \in bits' <=> "close" \in bits
    BY DEF FireOnConnected
  <2>2. One("close" \in bits)' = One("close" \in bits)
    BY <2>1 DEF One
  <2>3. JobsIn({"close"})' + ThreadsIn({"closing"})' + StepsIn({"leave"})'
          + 1 - active' - Unannounced'
        = JobsIn({"close"}) + ThreadsIn({"closing"}) + StepsIn({"leave"}) + 1 - active - Unannounced
    BY <1>1, <1>3, <1>5, <1>7, <1>8, <1>9
  <2>4. active' + Unannounced' <= 1
    BY <1>1, <1>7, <1>9
  <2> QED
    BY <1>2, <2>2, <2>3, <2>4 DEF Inv, ClosedOnce
<1>13. Untouched' /\ Gone'
  BY <1>2, <1>9 DEF Untouched, Gone
<1>14. HandlerHolds'
  BY <1>1, <1>4, <1>5, <1>7 DEF Inv, HandlerHolds
<1> QED
  BY <1>10, <1>11, <1>12, <1>13, <1>14 DEF Inv
-----------------------------------------------------------------------------
(* The end of a handler and of the channel.                                *)

(* What follows from the counts for a channel that is still announced.     *)
LEMMA ActiveBounds ==
  ASSUME Inv, ~resumed, Unannounced = 0
  PROVE  active >= JobsIn({"close"}) + ThreadsIn({"closing"}) + StepsIn({"leave"})
<1>1. /\ JobsIn({"close"}) \in Nat /\ ThreadsIn({"closing"}) \in Nat /\ StepsIn({"leave"}) \in Nat
      /\ active \in Int
  BY CountsAreNumbers DEF Inv, Types, Doing, Busy
<1>2. JobsIn({"close"}) + ThreadsIn({"closing"}) + StepsIn({"leave"})
        + 1 - active - Unannounced = One("close" \in bits)
  BY DEF Inv, ClosedOnce
<1>3. One("close" \in bits) \in Nat /\ One("close" \in bits) <= 1
  BY DEF One
<1> QED
  BY <1>1, <1>2, <1>3

LEMMA DoneStepCounts ==
  ASSUME Inv, NEW step, Is(step), Done
  PROVE  /\ todo' \in Seq(Steps) /\ OnlyLast(todo)' /\ (step = "release" => todo' = <<>>)
         /\ \A S : /\ StepsIn(S)' = StepsIn(S) - One(step \in S)
                   /\ StepsIn(S)' \in Nat /\ StepsIn(S) \in Nat
<1>1. todo # <<>> /\ Head(todo) = step
  BY DEF Is
<1>2. OnlyLast(todo)' /\ (step = "release" => todo' = <<>>)
  BY <1>1, DoneLast DEF Inv, HandlerHolds
<1>3. ASSUME NEW S
      PROVE  /\ todo' \in Seq(Steps) /\ StepsIn(S)' = StepsIn(S) - One(step \in S)
             /\ StepsIn(S)' \in Nat /\ StepsIn(S) \in Nat
  BY <1>1, DoneCounts, CountsAreNumbers DEF Inv
<1> QED
  BY <1>2, <1>3

LEMMA LeaveKeeps ==
  ASSUME Inv, ~deleted, Leave
  PROVE  Inv'
<1>1. /\ todo # <<>> /\ Head(todo) = "leave" /\ Is("leave") /\ Done
      /\ active' = active - 1 /\ ref' = ref - 1
      /\ UNCHANGED <<batch, tasks, phase, upc, bits>>
  BY DEF Leave, Is, Release
<1>2. resumed => resumed'
  BY DEF Leave
<1>3. Unannounced = 0
  BY <1>1, Announced
<1>4. /\ todo' \in Seq(Steps) /\ OnlyLast(todo)'
      /\ \A S : /\ StepsIn(S)' = StepsIn(S) - One("leave" \in S)
                /\ StepsIn(S)' \in Nat /\ StepsIn(S) \in Nat
  BY <1>1, DoneStepCounts
<1>5. /\ StepsIn({"leave"})' = StepsIn({"leave"}) - 1
      /\ StepsIn({"release"})' = StepsIn({"release"}) /\ StepsIn({"announce"})' = StepsIn({"announce"})
      /\ StepsIn({"leave"})' \in Nat /\ StepsIn({"leave"}) \in Nat /\ StepsIn({"release"}) \in Nat
      /\ StepsIn({"announce"}) \in Nat
  <2>1. /\ One("leave" \in {"leave"}) = 1 /\ One("leave" \in {"release"}) = 0
        /\ One("leave" \in {"announce"}) = 0
    BY DEF One
  <2> QED
    BY <1>4, <2>1
<1>6. StepsIn({"leave"}) > 0 /\ StepsIn({"release"}) > 0
  BY <1>5 DEF Inv, HandlerHolds
<1>7. \A S : JobsIn(S)' = JobsIn(S) /\ ThreadsIn(S)' = ThreadsIn(S)
  BY <1>1 DEF JobsIn, ThreadsIn
<1>8. /\ JobsIn(Held) \in Nat /\ JobsIn({"close"}) \in Nat
      /\ ThreadsIn(Busy) \in Nat /\ ThreadsIn({"closing"}) \in Nat
      /\ ref \in Int /\ active \in Int
  BY CountsAreNumbers DEF Inv, Types, Doing, Busy
<1>9. Unannounced' = 0
  BY <1>3, <1>5, <1>7 DEF Unannounced
<1>10. Types'
  BY <1>1, <1>4, <1>8 DEF Inv, Types
<1>11. Balanced'
  <2>1. ref = JobsIn(Held) + StepsIn({"release"}) + active + ThreadsIn(Busy)
    BY DEF Inv, Balanced
  <2> QED
    BY <1>1, <1>5, <1>7, <1>8, <2>1, SMTT(30) DEF Balanced
<1>12. ClosedOnce'
  <2>1. JobsIn({"close"})' + ThreadsIn({"closing"})' + StepsIn({"leave"})'
          + 1 - active' - Unannounced'
        = JobsIn({"close"}) + ThreadsIn({"closing"}) + StepsIn({"leave"}) + 1 - active - Unannounced
    <3>1. JobsIn({"close"})' = JobsIn({"close"}) /\ ThreadsIn({"closing"})' = ThreadsIn({"closing"})
      BY <1>7
    <3>2. active' = active - 1 /\ StepsIn({"leave"})' = StepsIn({"leave"}) - 1
      BY <1>1, <1>5
    <3> QED
      BY <1>3, <1>5, <1>8, <1>9, <3>1, <3>2
  <2>2. active <= 1
    BY <1>3, <1>8 DEF Inv, ClosedOnce
  <2>3. active' + Unannounced' <= 1
    BY <1>1, <1>8, <1>9, <2>2
  <2>4. One("close" \in bits)' = One("close" \in bits)
    BY <1>1
  <2> QED
    BY <1>2, <2>1, <2>3, <2>4 DEF Inv, ClosedOnce
<1>13. Untouched'
  BY <1>9 DEF Untouched
<1>14. HandlerHolds'
  BY <1>4, <1>5, <1>6 DEF HandlerHolds
<1>15. ASSUME ~resumed' PROVE ~deleted'
  <2>1. active >= JobsIn({"close"}) + ThreadsIn({"closing"}) + StepsIn({"leave"})
    BY <1>2, <1>3, <1>15, ActiveBounds
  <2>2. active > 0
    BY <1>5, <1>6, <1>8, <2>1
  <2>3. ref = JobsIn(Held) + StepsIn({"release"}) + active + ThreadsIn(Busy)
    BY DEF Inv, Balanced
  <2>4. ref # 1
    BY <1>5, <1>6, <1>8, <2>2, <2>3
  <2> QED
    BY <2>4 DEF Leave, Release
<1> QED
  BY <1>10, <1>11, <1>12, <1>13, <1>14, <1>15 DEF Inv, Gone

LEMMA ReleaseJobKeeps ==
  ASSUME Inv, ~deleted, ReleaseJob
  PROVE  Inv'
<1>1. /\ todo # <<>> /\ Head(todo) = "release" /\ Is("release") /\ Done
      /\ ref' = ref - 1 /\ UNCHANGED <<batch, tasks, phase, upc, bits, active>>
  BY DEF ReleaseJob, Is, Release
<1>2. resumed => resumed'
  BY DEF ReleaseJob
<1>3. Unannounced = 0
  BY <1>1, Announced
<1>4. /\ todo' \in Seq(Steps) /\ OnlyLast(todo)' /\ todo' = <<>>
      /\ \A S : /\ StepsIn(S)' = StepsIn(S) - One("release" \in S)
                /\ StepsIn(S)' \in Nat /\ StepsIn(S) \in Nat
  BY <1>1, DoneStepCounts
<1>5. \A S : StepsIn(S)' = 0
  BY <1>4, CountEmpty DEF StepsIn
<1>6. StepsIn({"release"}) = 1 /\ StepsIn({"leave"}) = 0 /\ StepsIn({"announce"}) = 0
  <2>1. /\ One("release" \in {"leave"}) = 0 /\ One("release" \in {"release"}) = 1
        /\ One("release" \in {"announce"}) = 0
    BY DEF One
  <2> QED
    BY <1>4, <1>5, <2>1
<1>7. \A S : JobsIn(S)' = JobsIn(S) /\ ThreadsIn(S)' = ThreadsIn(S)
  BY <1>1 DEF JobsIn, ThreadsIn
<1>8. /\ JobsIn(Held) \in Nat /\ JobsIn({"close"}) \in Nat
      /\ ThreadsIn(Busy) \in Nat /\ ThreadsIn({"closing"}) \in Nat
      /\ ref \in Int /\ active \in Int
  BY CountsAreNumbers DEF Inv, Types, Doing, Busy
<1>9. Unannounced' = 0
  BY <1>3, <1>5, <1>6, <1>7 DEF Unannounced
<1>10. Types'
  BY <1>1, <1>4, <1>8 DEF Inv, Types
<1>11. ref = JobsIn(Held) + 1 + active + ThreadsIn(Busy)
  BY <1>6 DEF Inv, Balanced
<1>12. Balanced'
  BY <1>1, <1>5, <1>7, <1>8, <1>11 DEF Balanced
<1>13. ClosedOnce'
  <2>1. JobsIn({"close"})' + ThreadsIn({"closing"})' + StepsIn({"leave"})'
          + 1 - active' - Unannounced'
        = JobsIn({"close"}) + ThreadsIn({"closing"}) + StepsIn({"leave"}) + 1 - active - Unannounced
    BY <1>1, <1>3, <1>5, <1>6, <1>7, <1>8, <1>9
  <2>2. active' + Unannounced' <= 1
    BY <1>1, <1>3, <1>9 DEF Inv, ClosedOnce
  <2>3. One("close" \in bits)' = One("close" \in bits)
    BY <1>1
  <2> QED
    BY <1>2, <2>1, <2>2, <2>3 DEF Inv, ClosedOnce
<1>14. Untouched'
  BY <1>9 DEF Untouched
<1>15. HandlerHolds'
  <2>1. StepsIn({"leave"})' = 0
    BY <1>5
  <2> QED
    BY <1>4, <2>1 DEF HandlerHolds
<1>16. ASSUME ~resumed', deleted'
       PROVE  JobsIn(Held)' = 0 /\ active' = 0 /\ ThreadsIn(Busy)' = 0
  <2>1. active >= JobsIn({"close"}) + ThreadsIn({"closing"}) + StepsIn({"leave"})
    BY <1>2, <1>3, <1>16, ActiveBounds
  <2>2. active >= 0
    BY <1>6, <1>8, <2>1
  <2>3. ref = 1
    BY <1>16 DEF ReleaseJob, Release
  <2>4. JobsIn(Held)' = JobsIn(Held) /\ ThreadsIn(Busy)' = ThreadsIn(Busy) /\ active' = active
    BY <1>1, <1>7
  <2>5. JobsIn(Held) = 0 /\ active = 0 /\ ThreadsIn(Busy) = 0
    BY <1>8, <1>11, <2>2, <2>3
  <2> QED
    BY <2>4, <2>5
<1>17. Gone'
  BY <1>4, <1>9, <1>16 DEF Gone
<1> QED
  BY <1>10, <1>12, <1>13, <1>14, <1>15, <1>17 DEF Inv
-----------------------------------------------------------------------------
(* Threads are given the channel, use it and give it back.                 *)
LEMMA ThreadMoves ==
  ASSUME Types, NEW u \in Users, NEW a \in Doing, upc' = [upc EXCEPT ![u] = a]
  PROVE  /\ upc' \in [Users -> Doing]
         /\ \A S : ThreadsIn(S)' = ThreadsIn(S) - One(upc[u] \in S) + One(a \in S)
<1>1. upc' \in [Users -> Doing]
  BY DEF Types
<1>2. ASSUME NEW S
      PROVE  ThreadsIn(S)' = ThreadsIn(S) - One(upc[u] \in S) + One(a \in S)
  <2>1. Cardinality({v \in Users : [upc EXCEPT ![u] = a][v] \in S})
          = Cardinality({v \in Users : upc[v] \in S}) - One(upc[u] \in S) + One(a \in S)
    <3>1. IsFiniteSet(Users) /\ upc \in [Users -> Doing]
      BY ChannelAssumption DEF Types
    <3> QED
      BY <3>1, CardinalityExcept, SMTT(30)
  <2> QED
    BY <2>1 DEF ThreadsIn
<1> QED
  BY <1>1, <1>2

LEMMA CallbackSharesKeeps ==
  ASSUME Inv, ~deleted, CallbackShares
  PROVE  Inv'
<1>1. PICK u \in Users : upc[u] = "out" /\ upc' = [upc EXCEPT ![u] = "idle"]
  BY DEF CallbackShares
<1>2. /\ todo # <<>> /\ Head(todo) = "on_connected" /\ ref' = ref + 1
      /\ UNCHANGED <<batch, tasks, phase, todo, bits, active>>
  BY DEF CallbackShares, Is, loopVars
<1>3. ~deleted' /\ (resumed => resumed')
  BY DEF CallbackShares
<1>4. Unannounced = 0
  BY <1>2, Announced
<1>5. \A S : JobsIn(S)' = JobsIn(S) /\ StepsIn(S)' = StepsIn(S)
  BY <1>2 DEF JobsIn, StepsIn
<1>6. /\ JobsIn(Held) \in Nat /\ StepsIn({"release"}) \in Nat /\ ThreadsIn({"closing"}) \in Nat
      /\ ThreadsIn(Busy) \in Nat /\ ref \in Int /\ active \in Int
  BY CountsAreNumbers DEF Inv, Types, Doing, Busy
<1>7. /\ upc' \in [Users -> Doing] /\ ThreadsIn(Busy)' = ThreadsIn(Busy) + 1
      /\ ThreadsIn({"closing"})' = ThreadsIn({"closing"})
  <2>1. /\ One("out" \in Busy) = 0 /\ One("idle" \in Busy) = 1
        /\ One("out" \in {"closing"}) = 0 /\ One("idle" \in {"closing"}) = 0
        /\ "idle" \in Doing
    BY DEF One, Busy, Doing
  <2>2. /\ upc' \in [Users -> Doing]
        /\ \A S : ThreadsIn(S)' = ThreadsIn(S) - One("out" \in S) + One("idle" \in S)
    BY <1>1, <2>1, ThreadMoves DEF Inv
  <2> QED
    BY <1>6, <2>1, <2>2
<1>8. Unannounced' = 0
  BY <1>4, <1>5 DEF Unannounced
<1>9. Types'
  BY <1>2, <1>6, <1>7 DEF Inv, Types
<1>10. Balanced'
  <2>1. ref = JobsIn(Held) + StepsIn({"release"}) + active + ThreadsIn(Busy)
    BY DEF Inv, Balanced
  <2>2. JobsIn(Held)' = JobsIn(Held) /\ StepsIn({"release"})' = StepsIn({"release"})
    BY <1>5
  <2> QED
    BY <1>2, <1>6, <1>7, <2>1, <2>2 DEF Balanced
<1>11. ClosedOnce'
  BY <1>2, <1>3, <1>4, <1>5, <1>7, <1>8 DEF Inv, ClosedOnce
<1>12. Untouched' /\ Gone'
  BY <1>3, <1>8 DEF Untouched, Gone
<1>13. HandlerHolds'
  BY <1>2, <1>5 DEF Inv, HandlerHolds, OnlyLast
<1> QED
  BY <1>9, <1>10, <1>11, <1>12, <1>13 DEF Inv

(* While a thread holds the channel nothing deletes it.                    *)
LEMMA ThreadHolds ==
  ASSUME Inv, NEW u \in Users, upc[u] \in Busy
  PROVE  /\ ThreadsIn(Busy) \in Nat \ {0} /\ Unannounced = 0
         /\ ~deleted \/ resumed
<1>1. ThreadsIn(Busy) \in Nat
  BY CountsAreNumbers DEF Inv, Doing
<1>2. ThreadsIn(Busy) # 0
  <2>1. u \in {v \in Users : upc[v] \in Busy} /\ IsFiniteSet({v \in Users : upc[v] \in Busy})
    BY ChannelAssumption, FS_Subset
  <2> QED
    BY <2>1, FS_EmptySet DEF ThreadsIn
<1>3. Unannounced = 0
  BY <1>1, <1>2, Announced
<1> QED
  BY <1>1, <1>2, <1>3 DEF Inv, Gone

LEMMA UserStartsKeeps ==
  ASSUME Inv, NEW u \in Users, UserStarts(u)
  PROVE  Inv'
<1>1. /\ upc[u] = "idle" /\ UNCHANGED <<batch, tasks, phase, todo, ref, active, deleted, resumed>>
  BY DEF UserStarts, loopVars
<1>2. PICK a \in {"closing", "failing", "writing"} :
        /\ upc' = [upc EXCEPT ![u] = a]
        /\ One("close" \in bits)' = One("close" \in bits) + One(a \in {"closing"})
  <2>1. CASE "close" \notin bits /\ bits' = bits \cup {"close"} /\ upc' = [upc EXCEPT ![u] = "closing"]
    <3>1. One("close" \in bits)' = One("close" \in bits) + One("closing" \in {"closing"})
      BY <2>1 DEF One
    <3> QED
      BY <2>1, <3>1
  <2>2. CASE bits' = bits \cup {"error"} /\ upc' = [upc EXCEPT ![u] = "failing"]
    <3>1. One("close" \in bits)' = One("close" \in bits) + One("failing" \in {"closing"})
      BY <2>2 DEF One
    <3> QED
      BY <2>2, <3>1
  <2>3. CASE bits' = bits /\ upc' = [upc EXCEPT ![u] = "writing"]
    <3>1. One("close" \in bits)' = One("close" \in bits) + One("writing" \in {"closing"})
      BY <2>3 DEF One
    <3> QED
      BY <2>3, <3>1
  <2> QED
    BY <2>1, <2>2, <2>3 DEF UserStarts
<1>3. Unannounced = 0 /\ (~deleted \/ resumed)
  BY <1>1, ThreadHolds DEF Busy
<1>4. \A S : JobsIn(S)' = JobsIn(S) /\ StepsIn(S)' = StepsIn(S)
  BY <1>1 DEF JobsIn, StepsIn
<1>5. /\ JobsIn({"close"}) \in Nat /\ StepsIn({"leave"}) \in Nat /\ ThreadsIn({"closing"}) \in Nat
      /\ ThreadsIn(Busy) \in Nat /\ active \in Int
  BY CountsAreNumbers DEF Inv, Types, Doing, Busy
<1>6. /\ upc' \in [Users -> Doing] /\ ThreadsIn(Busy)' = ThreadsIn(Busy)
      /\ ThreadsIn({"closing"})' = ThreadsIn({"closing"}) + One(a \in {"closing"})
  <2>1. a \in Doing
    BY DEF Doing, Busy
  <2>2. /\ upc' \in [Users -> Doing]
        /\ \A S : ThreadsIn(S)' = ThreadsIn(S) - One(upc[u] \in S) + One(a \in S)
    <3>1. upc' = [upc EXCEPT ![u] = a] /\ Types
      BY <1>2 DEF Inv
    <3> QED
      BY <2>1, <3>1, ThreadMoves
  <2>3. One(upc[u] \in Busy) = 1 /\ One(a \in Busy) = 1 /\ One(upc[u] \in {"closing"}) = 0
        /\ One(a \in {"closing"}) \in Nat
    BY <1>1 DEF One, Busy
  <2> QED
    BY <1>5, <2>2, <2>3
<1>7. Unannounced' = Unannounced
  BY <1>4 DEF Unannounced
<1>8. Types'
  BY <1>1, <1>6 DEF Inv, Types
<1>9. Balanced'
  BY <1>1, <1>4, <1>6 DEF Inv, Balanced
<1>10. ClosedOnce'
  <2>1. One("close" \in bits) \in Nat /\ One(a \in {"closing"}) \in Nat
    BY DEF One
  <2>2. active' + Unannounced' <= 1
    BY <1>1, <1>7 DEF Inv, ClosedOnce
  <2>3. JobsIn({"close"})' + ThreadsIn({"closing"})' + StepsIn({"leave"})'
          + 1 - active' - Unannounced'
        = JobsIn({"close"}) + ThreadsIn({"closing"}) + StepsIn({"leave"}) + 1 - active - Unannounced
            + One(a \in {"closing"})
    BY <1>1, <1>3, <1>4, <1>5, <1>6, <1>7, <2>1
  <2>4. resumed' = resumed
    BY <1>1
  <2> QED
    BY <1>2, <2>2, <2>3, <2>4 DEF Inv, ClosedOnce
<1>11. Untouched' /\ Gone'
  BY <1>1, <1>3, <1>7 DEF Untouched, Gone
<1>12. HandlerHolds'
  BY <1>1, <1>4 DEF Inv, HandlerHolds, OnlyLast
<1> QED
  BY <1>8, <1>9, <1>10, <1>11, <1>12 DEF Inv

LEMMA UserPostsKeeps ==
  ASSUME Inv, NEW u \in Users, UserPosts(u)
  PROVE  Inv'
<1>1. /\ upc' = [upc EXCEPT ![u] = "idle"]
      /\ UNCHANGED <<batch, phase, todo, active, deleted, resumed, bits>>
  BY DEF UserPosts
<1>2. PICK job \in Held : /\ Post(job) /\ upc[u] \in Busy
                          /\ job = "close" <=> upc[u] = "closing"
  BY DEF UserPosts, Held, Jobs, Busy
<1>3. Unannounced = 0 /\ (~deleted \/ resumed)
  BY <1>2, ThreadHolds
<1>4. /\ job \in Jobs /\ ref' = ref + 1 /\ tasks' \in Seq(Jobs)
      /\ \A S : JobsIn(S)' = JobsIn(S) + One(job \in S)
  BY <1>1, <1>2, ExecuteCounts DEF Post, Held, Inv
<1>5. \A S : StepsIn(S)' = StepsIn(S)
  BY <1>1 DEF StepsIn
<1>6. /\ JobsIn(Held) \in Nat /\ JobsIn({"close"}) \in Nat /\ JobsIn({"connected"}) \in Nat
      /\ StepsIn({"leave"}) \in Nat /\ StepsIn({"release"}) \in Nat
      /\ ThreadsIn({"closing"}) \in Nat /\ ThreadsIn(Busy) \in Nat /\ active \in Int /\ ref \in Int
  BY CountsAreNumbers DEF Inv, Types, Doing, Busy
<1>7. /\ upc' \in [Users -> Doing] /\ ThreadsIn(Busy)' = ThreadsIn(Busy)
      /\ ThreadsIn({"closing"})' = ThreadsIn({"closing"}) - One(upc[u] \in {"closing"})
  <2>1. "idle" \in Doing
    BY DEF Doing, Busy
  <2>2. /\ upc' \in [Users -> Doing]
        /\ \A S : ThreadsIn(S)' = ThreadsIn(S) - One(upc[u] \in S) + One("idle" \in S)
    BY <1>1, <2>1, ThreadMoves DEF Inv
  <2>3. One("idle" \in Busy) = 1 /\ One(upc[u] \in Busy) = 1 /\ One("idle" \in {"closing"}) = 0
        /\ One(upc[u] \in {"closing"}) \in Nat
    BY <1>2 DEF One, Busy
  <2> QED
    BY <1>6, <2>2, <2>3
<1>8. /\ JobsIn(Held)' = JobsIn(Held) + 1 /\ JobsIn({"connected"})' = JobsIn({"connected"})
      /\ JobsIn({"close"})' = JobsIn({"close"}) + One(upc[u] \in {"closing"})
  <2>1. One(job \in Held) = 1 /\ One(job \in {"connected"}) = 0
        /\ One(job \in {"close"}) = One(upc[u] \in {"closing"})
    BY <1>2 DEF One, Held
  <2>2. /\ JobsIn(Held)' = JobsIn(Held) + One(job \in Held)
        /\ JobsIn({"connected"})' = JobsIn({"connected"}) + One(job \in {"connected"})
        /\ JobsIn({"close"})' = JobsIn({"close"}) + One(job \in {"close"})
    BY <1>4
  <2> QED
    BY <1>6, <2>1, <2>2
<1>9. Unannounced' = 0
  BY <1>3, <1>5, <1>8 DEF Unannounced
<1>10. Types'
  BY <1>1, <1>4, <1>6, <1>7 DEF Inv, Types
<1>11. Balanced'
  <2>1. ref = JobsIn(Held) + StepsIn({"release"}) + active + ThreadsIn(Busy)
    BY DEF Inv, Balanced
  <2> QED
    BY <1>1, <1>4, <1>5, <1>6, <1>7, <1>8, <2>1, SMTT(30) DEF Balanced
<1>12. ClosedOnce'
  <2>1. One(upc[u] \in {"closing"}) \in Nat
    BY DEF One
  <2>2. active' + Unannounced' <= 1
    BY <1>1, <1>3, <1>9 DEF Inv, ClosedOnce
  <2>3. JobsIn({"close"})' + ThreadsIn({"closing"})' + StepsIn({"leave"})'
          + 1 - active' - Unannounced'
        = JobsIn({"close"}) + ThreadsIn({"closing"}) + StepsIn({"leave"}) + 1 - active - Unannounced
    BY <1>1, <1>3, <1>5, <1>6, <1>7, <1>8, <1>9, <2>1
  <2>4. One("close" \in bits)' = One("close" \in bits) /\ resumed' = resumed
    BY <1>1
  <2> QED
    BY <2>2, <2>3, <2>4 DEF Inv, ClosedOnce
<1>13. Untouched' /\ Gone'
  BY <1>1, <1>3, <1>9 DEF Untouched, Gone
<1>14. HandlerHolds'
  BY <1>1, <1>5 DEF Inv, HandlerHolds, OnlyLast
<1> QED
  BY <1>10, <1>11, <1>12, <1>13, <1>14 DEF Inv

LEMMA UserReleasesKeeps ==
  ASSUME Inv, NEW u \in Users, UserReleases(u)
  PROVE  Inv'
<1>1. /\ upc[u] = "idle" /\ upc' = [upc EXCEPT ![u] = "out"] /\ ref' = ref - 1
      /\ UNCHANGED <<batch, tasks, phase, todo, active, bits>>
  BY DEF UserReleases, Release, loopVars
<1>2. resumed => resumed'
  BY DEF UserReleases
<1>3. /\ Unannounced = 0 /\ ThreadsIn(Busy) \in Nat \ {0}
      /\ ~deleted \/ resumed
  BY <1>1, ThreadHolds DEF Busy
<1>4. \A S : JobsIn(S)' = JobsIn(S) /\ StepsIn(S)' = StepsIn(S)
  BY <1>1 DEF JobsIn, StepsIn
<1>5. /\ JobsIn({"close"}) \in Nat /\ StepsIn({"leave"}) \in Nat /\ ThreadsIn({"closing"}) \in Nat
      /\ ThreadsIn(Busy) \in Nat /\ active \in Int /\ ref \in Int
      /\ JobsIn(Held) \in Nat /\ StepsIn({"release"}) \in Nat /\ StepsIn({"announce"}) \in Nat
      /\ JobsIn({"connected"}) \in Nat
  BY CountsAreNumbers DEF Inv, Types, Doing, Busy
<1>6. /\ upc' \in [Users -> Doing] /\ ThreadsIn(Busy)' = ThreadsIn(Busy) - 1
      /\ ThreadsIn({"closing"})' = ThreadsIn({"closing"})
  <2>1. "out" \in Doing
    BY DEF Doing
  <2>2. /\ upc' \in [Users -> Doing]
        /\ \A S : ThreadsIn(S)' = ThreadsIn(S) - One(upc[u] \in S) + One("out" \in S)
    BY <1>1, <2>1, ThreadMoves DEF Inv
  <2>3. One(upc[u] \in Busy) = 1 /\ One("out" \in Busy) = 0
        /\ One(upc[u] \in {"closing"}) = 0 /\ One("out" \in {"closing"}) = 0
    BY <1>1 DEF One, Busy
  <2> QED
    BY <1>5, <2>2, <2>3
<1>7. Unannounced' = 0
  BY <1>3, <1>4 DEF Unannounced
<1>8. Types'
  BY <1>1, <1>5, <1>6 DEF Inv, Types
<1>9. ref = JobsIn(Held) + StepsIn({"release"}) + active + ThreadsIn(Busy)
  BY DEF Inv, Balanced
<1>10. Balanced'
  <2>1. JobsIn(Held)' = JobsIn(Held) /\ StepsIn({"release"})' = StepsIn({"release"})
    BY <1>4
  <2> QED
    BY <1>1, <1>5, <1>6, <1>9, <2>1 DEF Balanced
<1>11. ClosedOnce'
  <2>1. active' + Unannounced' <= 1
    BY <1>1, <1>3, <1>7 DEF Inv, ClosedOnce
  <2>2. JobsIn({"close"})' + ThreadsIn({"closing"})' + StepsIn({"leave"})'
          + 1 - active' - Unannounced'
        = JobsIn({"close"}) + ThreadsIn({"closing"}) + StepsIn({"leave"}) + 1 - active - Unannounced
    BY <1>1, <1>3, <1>4, <1>5, <1>6, <1>7
  <2>3. One("close" \in bits)' = One("close" \in bits)
    BY <1>1
  <2> QED
    BY <1>2, <2>1, <2>2, <2>3 DEF Inv, ClosedOnce
<1>12. Untouched'
  BY <1>7 DEF Untouched
<1>13. HandlerHolds'
  BY <1>1, <1>4 DEF Inv, HandlerHolds, OnlyLast
<1>14. ASSUME ~resumed', deleted'
       PROVE  JobsIn(Held)' = 0 /\ active' = 0 /\ ThreadsIn(Busy)' = 0 /\ todo' = <<>>
  <2>1. active >= JobsIn({"close"}) + ThreadsIn({"closing"}) + StepsIn({"leave"})
    BY <1>2, <1>3, <1>14, ActiveBounds
  <2>2. active >= 0
    BY <1>5, <2>1
  <2>3. ref = 1
    BY <1>2, <1>3, <1>14 DEF UserReleases, Release
  <2>4. JobsIn(Held) = 0 /\ StepsIn({"release"}) = 0 /\ active = 0 /\ ThreadsIn(Busy) = 1
    BY <1>3, <1>5, <1>9, <2>2, <2>3
  <2>5. StepsIn({"announce"}) = 0
    BY <1>3, <1>5 DEF Unannounced
  <2>6. todo = <<>>
    BY <2>4, <2>5 DEF Inv, HandlerHolds
  <2> QED
    BY <1>1, <1>4, <1>6, <2>4, <2>6
<1>15. Gone'
  BY <1>7, <1>14 DEF Gone
<1> QED
  BY <1>8, <1>10, <1>11, <1>12, <1>13, <1>15 DEF Inv
-----------------------------------------------------------------------------
LEMMA InitInv == Init => Inv
<1> SUFFICES ASSUME Init PROVE Inv
  OBVIOUS
<1>1. /\ ref = 0 /\ active = 0 /\ batch = <<>> /\ bits = {}
      /\ \/ tasks = <<"connected">> /\ todo = <<>>
         \/ tasks = <<>> /\ todo = <<"announce">>
  BY DEF Init
<1>0. ~deleted
  BY DEF Init
<1>2. Types
  <2>0. /\ <<"connected">> \in Seq(Jobs) /\ <<>> \in Seq(Jobs)
        /\ <<"announce">> \in Seq(Steps) /\ <<>> \in Seq(Steps)
    BY DEF Jobs, Steps
  <2>1. tasks \in Seq(Jobs) /\ batch \in Seq(Jobs)
    BY <1>1, <2>0
  <2>2. todo \in Seq(Steps)
    BY <1>1, <2>0
  <2>3. upc \in [Users -> Doing]
    BY DEF Init, Doing
  <2> QED
    BY <1>1, <2>1, <2>2, <2>3 DEF Types
<1>3. \A S \in SUBSET Busy : ThreadsIn(S) = 0
  <2>1. \A S \in SUBSET Busy : {u \in Users : upc[u] \in S} = {}
    BY DEF Init, Busy
  <2> QED
    BY <2>1, FS_EmptySet DEF ThreadsIn
<1>4. \A S : Count(batch, S) = 0
  BY <1>1, CountEmpty
<1>5. /\ JobsIn(Held) = 0 /\ JobsIn({"close"}) = 0
      /\ StepsIn({"release"}) = 0 /\ StepsIn({"leave"}) = 0
      /\ Unannounced = 1 /\ todo \in {<<>>, <<"announce">>}
      /\ todo # <<>> => StepsIn({"announce"}) = 1
  <2>1. /\ One("connected" \in Held) = 0 /\ One("connected" \in {"close"}) = 0
        /\ One("connected" \in {"connected"}) = 1
        /\ One("announce" \in {"release"}) = 0 /\ One("announce" \in {"leave"}) = 0
        /\ One("announce" \in {"announce"}) = 1
    BY DEF One, Held
  <2>2. CASE tasks = <<"connected">> /\ todo = <<>>
    <3>1. /\ \A S : Count(tasks, S) = One("connected" \in S)
          /\ \A S : Count(todo, S) = 0
      BY <2>2, CountSingle, CountEmpty
    <3> QED
      BY <1>4, <2>1, <2>2, <3>1 DEF JobsIn, StepsIn, Unannounced
  <2>3. CASE tasks = <<>> /\ todo = <<"announce">>
    <3>1. /\ \A S : Count(tasks, S) = 0
          /\ \A S : Count(todo, S) = One("announce" \in S)
      BY <2>3, CountSingle, CountEmpty
    <3> QED
      BY <1>4, <2>1, <2>3, <3>1 DEF JobsIn, StepsIn, Unannounced
  <2> QED
    BY <1>1, <2>2, <2>3
<1>6. ThreadsIn(Busy) = 0 /\ ThreadsIn({"closing"}) = 0
  BY <1>3 DEF Busy
<1>7. Balanced /\ ClosedOnce /\ Untouched
  BY <1>1, <1>5, <1>6 DEF Balanced, ClosedOnce, Untouched, One
<1>8. HandlerHolds
  BY <1>5 DEF HandlerHolds, OnlyLast
<1> QED
  BY <1>0, <1>2, <1>7, <1>8 DEF Inv, Gone

LEMMA NextInv == Inv /\ [Next]_vars => Inv'
<1> SUFFICES ASSUME Inv, [Next]_vars PROVE Inv'
  OBVIOUS
<1>1. CASE ~deleted /\ LoopStep
  BY <1>1, EventsKeep, LoopMoves, RunJobKeeps, FireOnConnectedKeeps, HandlersKeep,
     LeaveKeeps, ReleaseJobKeeps, CallbacksKeep DEF LoopStep
<1>2. CASE ~deleted /\ RecvTimeout
  BY <1>2, EventsKeep
<1>3. CASE ~deleted /\ FilterCall
  BY <1>3, CallbacksKeep, CallbackSharesKeeps DEF FilterCall
<1>4. CASE ~deleted /\ Peer
  BY <1>4, LoopMoves
<1>5. CASE \E u \in Users : UserStarts(u) \/ UserPosts(u) \/ UserReleases(u)
  BY <1>5, UserStartsKeeps, UserPostsKeeps, UserReleasesKeeps
<1>6. CASE UNCHANGED vars
  BY <1>6, NothingHappens DEF vars, loopVars
<1> QED
  BY <1>1, <1>2, <1>3, <1>4, <1>5, <1>6 DEF Next

LEMMA InvImplies == Inv => RefBalance /\ NoUseAfterFree
<1> SUFFICES ASSUME Inv PROVE RefBalance /\ NoUseAfterFree
  OBVIOUS
<1>1. ASSUME NEW S PROVE Count(Queued, S) = JobsIn(S)
  BY CountConcat DEF Inv, Types, Queued, JobsIn
<1>2. ThreadsIn(Busy) = Cardinality({u \in Users : upc[u] # "out"})
  <2>1. {u \in Users : upc[u] \in Busy} = {u \in Users : upc[u] # "out"}
    BY DEF Inv, Types, Doing, Busy
  <2> QED
    BY <2>1 DEF ThreadsIn
<1>3. RefBalance
  BY <1>1, <1>2 DEF Inv, Balanced, RefBalance, Held, StepsIn
<1>4. ASSUME deleted, ~resumed
      PROVE  /\ Queued = <<>> /\ todo = <<>> /\ active = 0
             /\ \A u \in Users : upc[u] = "out"
  <2>1. JobsIn(Held) = 0 /\ Unannounced = 0 /\ active = 0 /\ ThreadsIn(Busy) = 0 /\ todo = <<>>
    BY <1>4 DEF Inv, Gone
  <2>2. JobsIn({"connected"}) \in Nat /\ StepsIn({"announce"}) \in Nat
    BY CountsAreNumbers DEF Inv
  <2>3. JobsIn({"connected"}) = 0
    BY <2>1, <2>2 DEF Unannounced
  <2>4. /\ Queued \in Seq(Jobs)
        /\ \A S : IsFiniteSet({i \in DOMAIN Queued : Queued[i] \in S})
    <3>1. Queued \in Seq(Jobs)
      BY ConcatProperties DEF Inv, Types, Queued
    <3> QED
      BY <3>1, CountType
  <2>5. /\ {i \in DOMAIN Queued : Queued[i] \in Held} = {}
        /\ {i \in DOMAIN Queued : Queued[i] \in {"connected"}} = {}
    BY <1>1, <2>1, <2>3, <2>4, FS_EmptySet DEF Count
  <2>6. {i \in DOMAIN Queued : Queued[i] \in Jobs} = {}
    BY <2>5 DEF Held
  <2>7. Queued = <<>>
    BY <2>4, <2>6, CountAll, FS_EmptySet DEF Count
  <2>8. {u \in Users : upc[u] # "out"} = {}
    BY <1>2, <2>1, ChannelAssumption, FS_Subset, FS_EmptySet
  <2> QED
    BY <2>1, <2>7, <2>8
<1> QED
  BY <1>3, <1>4 DEF NoUseAfterFree

(* The reference count is the number of those who will give a reference    *)
(* back, for every instance: retain() and release() of channel_epoll.cpp   *)
(* pair up on every path, the failed ones included.                        *)
THEOREM RefBalanceTheorem == Spec => []RefBalance
<1>1. Spec => []Inv
  BY InitInv, NextInv, PTL DEF Spec
<1> QED
  BY <1>1, InvImplies, PTL

(* The channel is deleted only when no job of it waits or runs, no thread  *)
(* holds it and the loop no longer counts it: `delete this` in release()   *)
(* is the last thing that happens to it.                                   *)
THEOREM NoUseAfterFreeTheorem == Spec => []NoUseAfterFree
<1>1. Spec => []Inv
  BY InitInv, NextInv, PTL DEF Spec
<1> QED
  BY <1>1, InvImplies, PTL
-----------------------------------------------------------------------------
(* What may be left behind the first step of a handler: a callback comes   *)
(* first, except on_closed, and input and output end with register.        *)
Later == {"writeable", "register", "on_closed", "leave", "release"}

Follows(steps) ==
  \A i \in DOMAIN steps :
    /\ i > 1 => steps[i] \in Later
    /\ steps[i] \in {"readable", "on_read"} =>
         i < Len(steps) /\ steps[i + 1] \in {"writeable", "register"}
    /\ steps[i] \in {"writeable", "on_write"} => i < Len(steps) /\ steps[i + 1] = "register"

(* The steps that a step of the loop puts in the place of the first one.   *)
Replaces ==
  {<<"announce", "on_connected">>, <<"register", "register_failed">>, <<"readable", "on_read">>,
   <<"readable", "on_error">>, <<"writeable", "on_write">>, <<"writeable", "on_error">>,
   <<"closing", "on_error">>}

LEMMA HandlerIs ==
  /\ Handler("connected") = <<"announce">>
  /\ Handler("write") = <<"do_write", "release">>
  /\ Handler("register") = <<"register", "release">>
  /\ Dead => Handler("send") = <<"release">>
  /\ ~Dead => Handler("send") = <<"writeable", "register", "release">>
  /\ Handler("close") = <<"closing", "on_closed", "leave", "release">>
  /\ Handler("error") = <<"on_error", "release">>
<1>1. Handler("connected") = <<"announce">>
  BY Zenon DEF Handler
<1>2. Handler("write") = <<"do_write", "release">>
  BY Zenon DEF Handler
<1>3. Handler("register") = <<"register", "release">>
  BY Zenon DEF Handler
<1>4. /\ Dead => Handler("send") = <<"release">>
      /\ ~Dead => Handler("send") = <<"writeable", "register", "release">>
  BY Zenon DEF Handler
<1>5. Handler("close") = <<"closing", "on_closed", "leave", "release">>
  BY Zenon DEF Handler
<1>6. Handler("error") = <<"on_error", "release">>
  BY Zenon DEF Handler
<1> QED
  BY <1>1, <1>2, <1>3, <1>4, <1>5, <1>6

LEMMA HandlerFollows ==
  ASSUME NEW job \in Jobs
  PROVE  Follows(Handler(job))
<1>1. /\ Follows(<<"announce">>) /\ Follows(<<"do_write", "release">>)
      /\ Follows(<<"register", "release">>) /\ Follows(<<"release">>)
      /\ Follows(<<"writeable", "register", "release">>) /\ Follows(<<"on_error", "release">>)
  BY DEF Follows, Later
<1>2. Follows(<<"closing", "on_closed", "leave", "release">>)
  BY DEF Follows, Later
<1> QED
  BY <1>1, <1>2, HandlerIs DEF Jobs

LEMMA PairIs ==
  ASSUME NEW a, NEW b
  PROVE  <<a>> \o <<b>> = <<a, b>>
<1>1. <<a>> \o <<b>> \in Seq({a, b}) /\ <<a, b>> \in Seq({a, b})
  BY ConcatProperties
<1>2. Len(<<a>> \o <<b>>) = 2 /\ \A i \in 1 .. 2 : (<<a>> \o <<b>>)[i] = <<a, b>>[i]
  BY ConcatProperties
<1> QED
  BY <1>1, <1>2, SeqEqual

LEMMA TripleIs ==
  ASSUME NEW a, NEW b, NEW c
  PROVE  <<a, b>> \o <<c>> = <<a, b, c>>
<1>1. <<a, b>> \o <<c>> \in Seq({a, b, c}) /\ <<a, b, c>> \in Seq({a, b, c})
  BY ConcatProperties
<1>2. Len(<<a, b>> \o <<c>>) = 3 /\ \A i \in 1 .. 3 : (<<a, b>> \o <<c>>)[i] = <<a, b, c>>[i]
  BY ConcatProperties
<1> QED
  BY <1>1, <1>2, SeqEqual

(* What an io event starts.                                                *)
LEMMA EventStarts ==
  ASSUME PollEvent
  PROVE  todo' \in {todo, <<"on_error">>, <<"register">>, <<"readable", "register">>,
                    <<"writeable", "register">>, <<"readable", "writeable", "register">>}
<1>1. /\ <<>> \o <<>> = <<>> /\ <<>> \o <<"register">> = <<"register">>
      /\ <<"readable">> \o <<>> = <<"readable">> /\ <<>> \o <<"writeable">> = <<"writeable">>
  OBVIOUS
<1>2. /\ <<"readable">> \o <<"writeable">> = <<"readable", "writeable">>
      /\ <<"readable">> \o <<"register">> = <<"readable", "register">>
      /\ <<"writeable">> \o <<"register">> = <<"writeable", "register">>
      /\ <<"readable", "writeable">> \o <<"register">> = <<"readable", "writeable", "register">>
  BY PairIs, TripleIs
<1> QED
  BY <1>1, <1>2 DEF PollEvent

LEMMA DoneFollows ==
  ASSUME Types, todo # <<>>, Follows(todo), Done
  PROVE  /\ Follows(todo)'
         /\ todo' # <<>> => Head(todo') \in Later /\ Head(todo') = todo[2]
         /\ \A i \in DOMAIN todo' : i + 1 \in DOMAIN todo /\ todo'[i] = todo[i + 1]
<1>1. todo \in Seq(Steps) /\ Len(todo) \in Nat \ {0} /\ DOMAIN todo = 1 .. Len(todo)
  BY LenProperties, EmptySeq DEF Types
<1>2. /\ todo' = Tail(todo) /\ Tail(todo) \in Seq(Steps)
      /\ Len(Tail(todo)) = Len(todo) - 1
      /\ \A i \in 1 .. Len(Tail(todo)) : Tail(todo)[i] = todo[i + 1]
  BY <1>1, HeadTailProperties DEF Done
<1>3. DOMAIN todo' = 1 .. Len(todo')
  BY <1>2, LenProperties
<1>4. \A i \in DOMAIN todo' : i + 1 \in DOMAIN todo /\ todo'[i] = todo[i + 1]
  BY <1>1, <1>2, <1>3
<1>5. Follows(todo')
  BY <1>1, <1>2, <1>3, <1>4 DEF Follows
<1>6. ASSUME todo' # <<>> PROVE Head(todo') \in Later /\ Head(todo') = todo[2]
  <2>1. Len(todo') \in Nat \ {0} /\ Head(todo') = todo'[1]
    BY <1>2, <1>6, LenProperties, EmptySeq
  <2>2. 1 \in DOMAIN todo'
    BY <1>3, <2>1
  <2> QED
    BY <1>4, <2>1, <2>2 DEF Follows
<1> QED
  BY <1>4, <1>5, <1>6

LEMMA ThenFollows ==
  ASSUME Types, todo # <<>>, Follows(todo), NEW next, Then(<<next>>),
         <<Head(todo), next>> \in Replaces
  PROVE  /\ Follows(todo)' /\ todo' # <<>> /\ Head(todo') = next
         /\ Len(todo') = Len(todo) /\ \A i \in DOMAIN todo' : i > 1 => todo'[i] = todo[i]
<1>0. next \in Steps
  BY DEF Replaces, Steps, Callbacks
<1>1. todo \in Seq(Steps) /\ Len(todo) \in Nat \ {0} /\ DOMAIN todo = 1 .. Len(todo)
  BY LenProperties, EmptySeq DEF Types
<1>2. /\ todo' = <<next>> \o Tail(todo) /\ Tail(todo) \in Seq(Steps)
      /\ Len(Tail(todo)) = Len(todo) - 1
      /\ \A i \in 1 .. Len(Tail(todo)) : Tail(todo)[i] = todo[i + 1]
  BY <1>1, HeadTailProperties DEF Then
<1>3. <<next>> \in Seq(Steps) /\ Len(<<next>>) = 1 /\ <<next>>[1] = next
  BY <1>0
<1>4. /\ Len(todo') = Len(todo) /\ todo'[1] = next /\ todo' \in Seq(Steps)
      /\ \A i \in 2 .. Len(todo) : todo'[i] = todo[i]
  <2>1. /\ <<next>> \o Tail(todo) \in Seq(Steps)
        /\ Len(<<next>> \o Tail(todo)) = Len(<<next>>) + Len(Tail(todo))
        /\ \A i \in 1 .. Len(<<next>>) + Len(Tail(todo)) :
             (<<next>> \o Tail(todo))[i] = IF i <= Len(<<next>>) THEN <<next>>[i] ELSE Tail(todo)[i - Len(<<next>>)]
    BY <1>2, <1>3, ConcatProperties
  <2> QED
    BY <1>1, <1>2, <1>3, <2>1
<1>5. DOMAIN todo' = 1 .. Len(todo)
  BY <1>4, LenProperties
<1>6. todo' # <<>> /\ Head(todo') = next
  BY <1>1, <1>4, EmptySeq
<1>7. Head(todo) = todo[1] /\ 1 \in DOMAIN todo
  BY <1>1
<1>8. /\ next = "on_read" => Len(todo) > 1 /\ todo[2] \in {"writeable", "register"}
      /\ next = "on_write" => Len(todo) > 1 /\ todo[2] = "register"
      /\ next \notin {"readable", "writeable"}
  <2>1. next = "on_read" => todo[1] = "readable"
    BY <1>7 DEF Replaces
  <2>2. next = "on_write" => todo[1] = "writeable"
    BY <1>7 DEF Replaces
  <2> QED
    BY <1>7, <2>1, <2>2 DEF Follows, Replaces
<1>9. Follows(todo')
  <2> SUFFICES ASSUME NEW i \in DOMAIN todo'
               PROVE  /\ i > 1 => todo'[i] \in Later
                      /\ todo'[i] \in {"readable", "on_read"} =>
                           i < Len(todo') /\ todo'[i + 1] \in {"writeable", "register"}
                      /\ todo'[i] \in {"writeable", "on_write"} =>
                           i < Len(todo') /\ todo'[i + 1] = "register"
    BY DEF Follows
  <2>1. CASE i = 1
    BY <1>1, <1>4, <1>8, <2>1
  <2>2. CASE i > 1
    <3>1. i \in 2 .. Len(todo) /\ i \in DOMAIN todo /\ todo'[i] = todo[i]
      BY <1>1, <1>4, <1>5, <2>2
    <3>2. i < Len(todo) => todo'[i + 1] = todo[i + 1]
      BY <1>1, <1>4, <3>1
    <3> QED
      BY <1>4, <2>2, <3>1, <3>2 DEF Follows
  <2> QED
    BY <1>1, <1>5, <2>1, <2>2
<1> QED
  BY <1>4, <1>5, <1>6, <1>9

(* What a step does to the handler in progress.                            *)
LEMMA TodoMoves ==
  ASSUME Types, [Next]_vars
  PROVE  \/ todo' = todo
         \/ todo # <<>> /\ Done
         \/ /\ todo # <<>>
            /\ \E pair \in Replaces : Head(todo) = pair[1] /\ Then(<<pair[2]>>)
         \/ RunJob /\ batch # <<>> /\ Head(batch) \in Jobs /\ todo' = Handler(Head(batch))
         \/ PollEvent
<1>1. CASE Leave \/ ReleaseJob \/ CallbackReturns \/ FireDoWrite \/ RegisterFailed
  BY <1>1 DEF Leave, ReleaseJob, CallbackReturns, FireDoWrite, RegisterFailed, Is, InCallback, Idle
<1>2. CASE FireOnConnected
  <2>1. <<"announce", "on_connected">> \in Replaces
    BY DEF Replaces
  <2> QED
    BY <1>2, <2>1 DEF FireOnConnected, Is
<1>3. CASE RegisterHandle
  <2>1. <<"register", "register_failed">> \in Replaces
    BY DEF Replaces
  <2> QED
    BY <1>3, <2>1 DEF RegisterHandle, Is
<1>4. CASE HandleReadable
  <2>1. <<"readable", "on_read">> \in Replaces /\ <<"readable", "on_error">> \in Replaces
    BY DEF Replaces
  <2> QED
    BY <1>4, <2>1 DEF HandleReadable, FailNow, Is
<1>5. CASE HandleWriteable
  <2>1. <<"writeable", "on_write">> \in Replaces /\ <<"writeable", "on_error">> \in Replaces
    BY DEF Replaces
  <2> QED
    BY <1>5, <2>1 DEF HandleWriteable, FailNow, Is
<1>6. CASE FireOnClose
  <2>1. <<"closing", "on_error">> \in Replaces
    BY DEF Replaces
  <2> QED
    BY <1>6, <2>1 DEF FireOnClose, Is
<1>7. CASE RunJob
  BY <1>7, HeadTailProperties DEF RunJob, Types
<1>8. CASE PollNothing \/ Splice \/ NextIteration \/ RecvTimeout
  BY <1>8 DEF PollNothing, Splice, NextIteration, RecvTimeout
<1>9. CASE FilterCall
  BY <1>9 DEF FilterCall, CallbackCloses, CallbackWrites, CallbackWritesDirectly, CallbackFails,
              pending_read, continue_read, CallbackShares, loopVars
<1>10. CASE Peer
  BY <1>10 DEF Peer, PeerSends, PeerReceives, PeerCloses, ConnectionBreaks, loopVars
<1>11. CASE \E u \in Users : UserStarts(u) \/ UserPosts(u) \/ UserReleases(u)
  BY <1>11 DEF UserStarts, UserPosts, UserReleases, loopVars
<1>12. CASE UNCHANGED vars
  BY <1>12 DEF vars, loopVars
<1> QED
  BY <1>1, <1>2, <1>3, <1>4, <1>5, <1>6, <1>7, <1>8, <1>9, <1>10, <1>11, <1>12 DEF Next, LoopStep

LEMMA FollowsNext ==
  ASSUME Types, Follows(todo), [Next]_vars
  PROVE  Follows(todo)'
<1>1. CASE todo' = todo
  BY <1>1 DEF Follows
<1>2. CASE todo # <<>> /\ Done
  BY <1>2, DoneFollows
<1>3. CASE todo # <<>> /\ \E pair \in Replaces : Head(todo) = pair[1] /\ Then(<<pair[2]>>)
  <2>1. PICK pair \in Replaces : Head(todo) = pair[1] /\ Then(<<pair[2]>>)
    BY <1>3
  <2>2. <<pair[1], pair[2]>> \in Replaces
    BY DEF Replaces
  <2> QED
    BY <1>3, <2>1, <2>2, ThenFollows
<1>4. CASE RunJob /\ batch # <<>> /\ Head(batch) \in Jobs /\ todo' = Handler(Head(batch))
  <2>1. Follows(Handler(Head(batch)))
    BY <1>4, HandlerFollows
  <2> QED
    BY <1>4, <2>1 DEF Follows
<1>5. CASE PollEvent
  <2>1. /\ Follows(<<"on_error">>) /\ Follows(<<"register">>) /\ Follows(<<"readable", "register">>)
        /\ Follows(<<"writeable", "register">>) /\ Follows(<<"readable", "writeable", "register">>)
    BY DEF Follows, Later
  <2>2. Follows(todo')
    BY <1>5, <2>1, EventStarts
  <2> QED
    BY <2>2 DEF Follows
<1> QED
  BY <1>1, <1>2, <1>3, <1>4, <1>5, TodoMoves
-----------------------------------------------------------------------------
(* What the channel waits for, and whether it is deleted.                  *)
Stock == sendq \in Nat /\ room \in Nat /\ deleted \in BOOLEAN

(* A live channel is watched for its work, or is about to be.              *)
Watching ==
  active = 1 /\ ~Dead /\ StepsIn({"register"}) = 0 =>
    /\ "in" \in reg <=> "pending" \notin bits
    /\ sendq > 0 => "out" \in reg \/ JobsIn({"send"}) > 0

LEMMA StockNext ==
  ASSUME Stock, [Next]_vars
  PROVE  Stock'
<1>1. CASE HandleWriteable
  <2>1. CASE UNCHANGED <<sendq, room>>
    BY <1>1, <2>1 DEF Stock, HandleWriteable
  <2>2. CASE /\ sendq' = sendq - (IF sendq <= room THEN sendq ELSE room)
             /\ room' = room - (IF sendq <= room THEN sendq ELSE room)
    <3>1. deleted' = deleted
      BY <1>1 DEF HandleWriteable
    <3> QED
      BY <2>2, <3>1 DEF Stock
  <2> QED
    BY <1>1, <2>1, <2>2 DEF HandleWriteable
<1>2. CASE FireDoWrite \/ CallbackWritesDirectly
  BY <1>2 DEF FireDoWrite, CallbackWritesDirectly, do_write, kernelVars, Stock
<1>3. CASE PeerReceives
  BY <1>3 DEF PeerReceives, Stock
<1>4. CASE \/ PollEvent \/ PollNothing \/ Splice \/ NextIteration \/ RunJob \/ FireOnConnected
           \/ RegisterHandle \/ RegisterFailed \/ HandleReadable
           \/ FireOnClose \/ Leave \/ ReleaseJob \/ CallbackReturns \/ RecvTimeout
  BY <1>4 DEF PollEvent, PollNothing, Splice, NextIteration, RunJob, FireOnConnected, RegisterHandle,
              RegisterFailed, HandleReadable, FireOnClose, Leave, ReleaseJob, CallbackReturns,
              RecvTimeout, Release, kernelVars, Stock
<1>5. CASE \/ CallbackCloses \/ CallbackWrites \/ CallbackFails \/ pending_read \/ continue_read
           \/ CallbackShares \/ PeerSends \/ PeerCloses \/ ConnectionBreaks
           \/ \E u \in Users : UserStarts(u) \/ UserPosts(u) \/ UserReleases(u)
  BY <1>5 DEF CallbackCloses, CallbackWrites, CallbackFails, pending_read, continue_read,
              CallbackShares, PeerSends, PeerCloses, ConnectionBreaks, UserStarts, UserPosts,
              UserReleases, Release, kernelVars, Stock
<1>6. CASE UNCHANGED vars
  BY <1>6 DEF vars, kernelVars, Stock
<1> QED
  BY <1>1, <1>2, <1>3, <1>4, <1>5, <1>6 DEF Next, LoopStep, FilterCall, Peer

(* Input and output are handled before the channel is registered again.    *)
LEMMA RegistersLater ==
  ASSUME Types, Follows(todo), todo # <<>>,
         Head(todo) \in {"readable", "on_read", "writeable", "on_write"}
  PROVE  Count(Tail(todo), {"register"}) > 0
<1>1. /\ todo \in Seq(Steps) /\ Len(todo) \in Nat \ {0} /\ DOMAIN todo = 1 .. Len(todo)
      /\ Head(todo) = todo[1]
  BY LenProperties, EmptySeq DEF Types
<1>2. PICK i \in DOMAIN todo : i > 1 /\ todo[i] = "register"
  <2>1. CASE todo[1] \in {"writeable", "on_write"}
    BY <1>1, <2>1 DEF Follows
  <2>2. CASE todo[1] \in {"readable", "on_read"}
    <3>1. 2 \in DOMAIN todo /\ todo[2] \in {"writeable", "register"}
      BY <1>1, <2>2 DEF Follows
    <3>2. todo[2] = "writeable" => 3 \in DOMAIN todo /\ todo[3] = "register"
      BY <1>1, <3>1 DEF Follows
    <3> QED
      BY <3>1, <3>2
  <2> QED
    BY <1>1, <2>1, <2>2
<1>3. /\ Tail(todo) \in Seq(Steps) /\ Len(Tail(todo)) = Len(todo) - 1
      /\ \A j \in 1 .. Len(Tail(todo)) : Tail(todo)[j] = todo[j + 1]
  BY <1>1, HeadTailProperties
<1>4. i - 1 \in DOMAIN Tail(todo) /\ Tail(todo)[i - 1] = "register"
  BY <1>1, <1>2, <1>3, LenProperties
<1>5. Tail(todo)[i - 1] \in {"register"}
  BY <1>4
<1>6. Count(Tail(todo), {"register"}) \in Nat \ {0}
  BY <1>3, <1>4, <1>5, CountSome
<1> QED
  BY <1>6

LEMMA RegisterNext ==
  ASSUME Types, Follows(todo), todo # <<>>,
         Head(todo) \in {"readable", "on_read", "writeable", "on_write"},
         NEW next \in Steps, Then(<<next>>)
  PROVE  StepsIn({"register"})' > 0
<1>1. Count(Tail(todo), {"register"}) > 0
  BY RegistersLater
<1>2. /\ Count(todo, {"register"}) = One(Head(todo) \in {"register"}) + Count(Tail(todo), {"register"})
      /\ Tail(todo) \in Seq(Steps)
  BY CountTail, HeadTailProperties DEF Types
<1>3. StepsIn({"register"})' = StepsIn({"register"}) - One(Head(todo) \in {"register"}) + Count(<<next>>, {"register"})
  <2>1. <<next>> \in Seq(Steps)
    OBVIOUS
  <2> QED
    BY <2>1, ThenCounts
<1>4. /\ One(Head(todo) \in {"register"}) \in Nat /\ One(next \in {"register"}) \in Nat
      /\ Count(<<next>>, {"register"}) = One(next \in {"register"})
  BY CountSingle DEF One
<1>5. Count(Tail(todo), {"register"}) \in Nat
  BY <1>2, CountType
<1> QED
  BY <1>1, <1>2, <1>3, <1>4, <1>5 DEF StepsIn

LEMMA RegisterStays ==
  ASSUME Types, StepsIn({"register"})' = 0,
         \/ todo' = todo
         \/ todo = <<>>
         \/ /\ todo # <<>> /\ Head(todo) # "register"
            /\ Done \/ \E next \in Steps : Then(<<next>>)
  PROVE  StepsIn({"register"}) = 0
<1>1. CASE todo' = todo
  BY <1>1 DEF StepsIn
<1>2. CASE todo = <<>>
  BY <1>2, CountEmpty DEF StepsIn
<1>3. CASE todo # <<>> /\ Head(todo) # "register" /\ Done
  <2>1. StepsIn({"register"})' = StepsIn({"register"}) - One(Head(todo) \in {"register"})
    BY <1>3, DoneCounts
  <2>2. One(Head(todo) \in {"register"}) = 0 /\ StepsIn({"register"}) \in Nat
    BY <1>3, CountsAreNumbers DEF One
  <2> QED
    BY <2>1, <2>2
<1>4. CASE todo # <<>> /\ Head(todo) # "register" /\ \E next \in Steps : Then(<<next>>)
  <2>1. PICK next \in Steps : Then(<<next>>)
    BY <1>4
  <2>2. /\ <<next>> \in Seq(Steps) /\ Count(<<next>>, {"register"}) = One(next \in {"register"})
        /\ One(next \in {"register"}) \in Nat
    BY CountSingle DEF One
  <2>3. StepsIn({"register"})' = StepsIn({"register"}) - One(Head(todo) \in {"register"}) + Count(<<next>>, {"register"})
    BY <1>4, <2>1, <2>2, ThenCounts
  <2>4. One(Head(todo) \in {"register"}) = 0 /\ StepsIn({"register"}) \in Nat
    BY <1>4, CountsAreNumbers DEF One
  <2> QED
    BY <2>2, <2>3, <2>4
<1> QED
  BY <1>1, <1>2, <1>3, <1>4

LEMMA SendStays ==
  ASSUME Types, tasks' = tasks \/ (\E job \in Jobs : Execute(job)), batch' = batch,
         JobsIn({"send"}) > 0
  PROVE  JobsIn({"send"})' > 0
<1>1. CASE tasks' = tasks
  BY <1>1 DEF JobsIn
<1>2. CASE \E job \in Jobs : Execute(job)
  <2>1. PICK job \in Jobs : Execute(job)
    BY <1>2
  <2>2. JobsIn({"send"})' = JobsIn({"send"}) + One(job \in {"send"})
    BY <2>1, ExecuteCounts
  <2>3. JobsIn({"send"}) \in Nat /\ One(job \in {"send"}) \in Nat
    BY CountsAreNumbers DEF One
  <2> QED
    BY <2>2, <2>3
<1> QED
  BY <1>1, <1>2

(* A step that leaves alone what is waited for and who waits.              *)
LEMMA UnwatchedSteps ==
  ASSUME Types, Watching, UNCHANGED <<reg, sendq, active>>,
         ~Dead' => ~Dead /\ ("pending" \in bits' <=> "pending" \in bits),
         tasks' = tasks \/ (\E job \in Jobs : Execute(job)), batch' = batch,
         \/ todo' = todo
         \/ todo = <<>>
         \/ /\ todo # <<>> /\ Head(todo) # "register"
            /\ Done \/ \E next \in Steps : Then(<<next>>)
  PROVE  Watching'
<1>1. StepsIn({"register"})' = 0 => StepsIn({"register"}) = 0
  BY RegisterStays
<1>2. JobsIn({"send"}) > 0 => JobsIn({"send"})' > 0
  BY SendStays
<1> QED
  BY <1>1, <1>2 DEF Watching

LEMMA WatchingHandlers ==
  ASSUME Inv, Follows(todo), Stock, Watching,
         \/ FireOnConnected \/ RegisterHandle \/ RegisterFailed \/ HandleReadable
         \/ HandleWriteable \/ FireDoWrite \/ FireOnClose \/ Leave \/ ReleaseJob
  PROVE  Watching'
<1> USE DEF Inv
<1>0. /\ \A next \in {"on_connected", "on_read", "on_write", "on_error", "register_failed"} : next \in Steps
      /\ {"error", "send"} \subseteq Jobs
  BY DEF Steps, Callbacks, Jobs
<1>1. CASE FireOnConnected
  BY <1>1 DEF FireOnConnected, Wanted, Watching
<1>2. CASE RegisterHandle
  BY <1>2 DEF RegisterHandle, Wanted, Watching, Dead
<1>3. CASE RegisterFailed
  <2>1. ~Dead'
        => ~Dead /\ ("pending" \in bits' <=> "pending" \in bits)
    BY <1>3 DEF RegisterFailed, error_propagation, Dead
  <2>2. /\ todo # <<>> /\ Head(todo) # "register" /\ Done
        /\ UNCHANGED <<reg, sendq, active, batch>>
        /\ tasks' = tasks \/ \E job \in Jobs : Execute(job)
    BY <1>0, <1>3 DEF RegisterFailed, error_propagation, Post, Is
  <2> QED
    BY <2>1, <2>2, UnwatchedSteps
<1>4. CASE HandleReadable
  <2>1. ~Dead' => ~Dead /\ ("pending" \in bits' <=> "pending" \in bits)
    BY <1>4 DEF HandleReadable, FailNow, Dead
  <2>2. /\ todo # <<>> /\ Head(todo) # "register"
        /\ Done \/ \E next \in Steps : Then(<<next>>)
        /\ UNCHANGED <<reg, sendq, active, batch, tasks>>
    BY <1>0, <1>4 DEF HandleReadable, FailNow, Is
  <2> QED
    BY <2>1, <2>2, UnwatchedSteps
<1>5. CASE HandleWriteable
  <2>1. CASE Then(<<"on_write">>)
    <3>1. todo # <<>> /\ Head(todo) = "writeable"
      BY <1>5 DEF HandleWriteable, Is
    <3>2. StepsIn({"register"})' > 0
      BY <1>0, <2>1, <3>1, RegisterNext
    <3> QED
      BY <3>2 DEF Watching
  <2>2. CASE sendq' = sendq /\ (Done \/ Then(<<"on_error">>))
    <3>1. ~Dead' => ~Dead /\ ("pending" \in bits' <=> "pending" \in bits)
      BY <1>5 DEF HandleWriteable, FailNow, Dead
    <3>2. /\ todo # <<>> /\ Head(todo) # "register"
          /\ Done \/ \E next \in Steps : Then(<<next>>)
          /\ UNCHANGED <<reg, sendq, active, batch, tasks>>
      BY <1>0, <1>5, <2>2 DEF HandleWriteable, Is
    <3> QED
      BY <3>1, <3>2, UnwatchedSteps
  <2> QED
    BY <1>5, <2>1, <2>2 DEF HandleWriteable, FailNow
<1>6. CASE FireDoWrite
  <2>1. /\ todo # <<>> /\ Head(todo) # "register" /\ Done
        /\ UNCHANGED <<reg, active, batch, bits>>
    BY <1>6 DEF FireDoWrite, Is
  <2>2. CASE Dead
    BY <1>6, <2>1, <2>2 DEF FireDoWrite, Watching, Dead
  <2>3. CASE ~Dead /\ sendq = 0 /\ Post("send")
    <3>1. JobsIn({"send"})' = JobsIn({"send"}) + One("send" \in {"send"})
      BY <1>0, <2>1, <2>3, ExecuteCounts DEF Post
    <3>2. JobsIn({"send"})' > 0
      BY <3>1, CountsAreNumbers DEF One
    <3>3. StepsIn({"register"})' = 0 => StepsIn({"register"}) = 0
      BY <2>1, RegisterStays
    <3> QED
      BY <2>1, <3>2, <3>3 DEF Watching, Dead
  <2>4. CASE ~Dead /\ sendq > 0 /\ tasks' = tasks
    <3>1. StepsIn({"register"})' = 0 => StepsIn({"register"}) = 0
      BY <2>1, RegisterStays
    <3>2. JobsIn({"send"})' = JobsIn({"send"})
      BY <2>1, <2>4 DEF JobsIn
    <3> QED
      BY <2>1, <2>4, <3>1, <3>2 DEF Watching, Dead
  <2> QED
    BY <1>6, <2>2, <2>3, <2>4 DEF FireDoWrite, do_write, Stock
<1>7. CASE FireOnClose
  BY <1>7 DEF FireOnClose, Watching, Dead
<1>8. CASE Leave
  <2>1. active' # 1
    <3>1. Unannounced = 0 /\ active \in Int
      BY <1>8, Announced DEF Leave, Is, Types
    <3>2. active <= 1
      BY <3>1 DEF ClosedOnce
    <3> QED
      BY <1>8, <3>1, <3>2 DEF Leave
  <2> QED
    BY <2>1 DEF Watching
<1>9. CASE ReleaseJob
  <2>1. /\ todo # <<>> /\ Head(todo) # "register" /\ Done
        /\ UNCHANGED <<reg, sendq, active, batch, tasks, bits>>
    BY <1>9 DEF ReleaseJob, Is
  <2>2. ~Dead' => ~Dead /\ ("pending" \in bits' <=> "pending" \in bits)
    BY <2>1 DEF Dead
  <2> QED
    BY <2>1, <2>2, UnwatchedSteps
<1> QED
  BY <1>1, <1>2, <1>3, <1>4, <1>5, <1>6, <1>7, <1>8, <1>9

LEMMA WatchingCallbacks ==
  ASSUME Inv, Follows(todo), Stock, Watching, FilterCall \/ CallbackReturns
  PROVE  Watching'
<1> USE DEF Inv
<1>0. {"error", "close", "write", "register", "send"} \subseteq Jobs
  BY DEF Jobs
<1>1. CASE CallbackCloses \/ CallbackWrites \/ CallbackFails
  <2>1. ~Dead' => ~Dead /\ ("pending" \in bits' <=> "pending" \in bits)
    BY <1>1 DEF CallbackCloses, CallbackWrites, CallbackFails, close, error_propagation, Dead
  <2>2. /\ UNCHANGED <<reg, sendq, active, batch, todo>>
        /\ tasks' = tasks \/ \E job \in Jobs : Execute(job)
    BY <1>0, <1>1 DEF CallbackCloses, CallbackWrites, CallbackFails, close, error_propagation, Post
  <2> QED
    BY <2>1, <2>2, UnwatchedSteps
<1>2. CASE CallbackWritesDirectly
  <2>1. UNCHANGED <<reg, active, batch, bits, todo>>
    BY <1>2 DEF CallbackWritesDirectly
  <2>2. StepsIn({"register"})' = StepsIn({"register"})
    BY <2>1 DEF StepsIn
  <2>3. CASE sendq = 0 /\ Post("send")
    <3>1. JobsIn({"send"})' = JobsIn({"send"}) + One("send" \in {"send"})
      BY <1>0, <2>1, <2>3, ExecuteCounts DEF Post
    <3>2. JobsIn({"send"})' > 0
      BY <3>1, CountsAreNumbers DEF One
    <3> QED
      BY <2>1, <2>2, <3>2 DEF Watching, Dead
  <2>4. CASE sendq > 0 /\ tasks' = tasks
    <3>1. JobsIn({"send"})' = JobsIn({"send"})
      BY <2>1, <2>4 DEF JobsIn
    <3> QED
      BY <2>1, <2>2, <2>4, <3>1 DEF Watching, Dead
  <2> QED
    BY <1>2, <2>3, <2>4 DEF CallbackWritesDirectly, do_write, Stock
<1>3. CASE pending_read \/ continue_read
  <2>1. todo # <<>> /\ Head(todo) = "on_read" /\ todo' = todo /\ todo \in Seq(Steps)
    BY <1>3 DEF pending_read, continue_read, Is, loopVars, Types
  <2>2. Count(Tail(todo), {"register"}) > 0
    BY <2>1, RegistersLater
  <2>3. Count(todo, {"register"}) = One(Head(todo) \in {"register"}) + Count(Tail(todo), {"register"})
    BY <2>1, CountTail
  <2>4. One(Head(todo) \in {"register"}) \in Nat /\ Count(Tail(todo), {"register"}) \in Nat
    BY <2>1, HeadTailProperties, CountType DEF One
  <2>5. StepsIn({"register"})' > 0
    BY <2>1, <2>2, <2>3, <2>4 DEF StepsIn
  <2> QED
    BY <2>5 DEF Watching
<1>4. CASE CallbackShares
  <2>1. ~Dead' => ~Dead /\ ("pending" \in bits' <=> "pending" \in bits)
    BY <1>4 DEF CallbackShares, Dead
  <2> QED
    BY <1>4, <2>1, UnwatchedSteps DEF CallbackShares, loopVars
<1>5. CASE CallbackReturns
  <2>1. ~Dead' => ~Dead /\ ("pending" \in bits' <=> "pending" \in bits)
    BY <1>5 DEF CallbackReturns, close, Dead
  <2>2. /\ todo # <<>> /\ Head(todo) # "register" /\ Done
        /\ UNCHANGED <<reg, sendq, active, batch>>
        /\ tasks' = tasks \/ \E job \in Jobs : Execute(job)
    BY <1>0, <1>5 DEF CallbackReturns, InCallback, Idle, Callbacks, close, Post
  <2> QED
    BY <2>1, <2>2, UnwatchedSteps
<1> QED
  BY <1>1, <1>2, <1>3, <1>4, <1>5 DEF FilterCall

LEMMA WatchingLoop ==
  ASSUME Inv, Watching,
         PollEvent \/ PollNothing \/ Splice \/ NextIteration \/ RunJob \/ RecvTimeout \/ Peer
  PROVE  Watching'
<1> USE DEF Inv
<1>1. CASE PollEvent
  <2>1. ~Dead' => ~Dead /\ ("pending" \in bits' <=> "pending" \in bits)
    BY <1>1 DEF PollEvent, Dead
  <2> QED
    BY <1>1, <2>1, UnwatchedSteps DEF PollEvent, Idle
<1>2. CASE PollNothing \/ NextIteration
  <2>1. ~Dead' => ~Dead /\ ("pending" \in bits' <=> "pending" \in bits)
    BY <1>2 DEF PollNothing, NextIteration, Dead
  <2> QED
    BY <1>2, <2>1, UnwatchedSteps DEF PollNothing, NextIteration
<1>3. CASE Splice
  <2>1. /\ batch = <<>> /\ tasks \in Seq(Jobs) /\ batch' = tasks /\ tasks' = <<>>
        /\ UNCHANGED <<bits, todo, reg, sendq, active>>
    BY <1>3 DEF Splice, Types
  <2>2. Count(tasks, {"send"}) \in Nat /\ Count(<<>>, {"send"}) = 0
    BY <2>1, CountType, CountEmpty
  <2>3. JobsIn({"send"})' = JobsIn({"send"}) /\ StepsIn({"register"})' = StepsIn({"register"})
    BY <2>1, <2>2 DEF JobsIn, StepsIn
  <2> QED
    BY <2>1, <2>3 DEF Watching, Dead
<1>4. CASE RunJob
  <2>1. /\ todo = <<>> /\ batch # <<>> /\ batch \in Seq(Jobs) /\ Head(batch) \in Jobs
        /\ batch' = Tail(batch) /\ todo' = Handler(Head(batch))
        /\ UNCHANGED <<bits, tasks, reg, sendq, active>>
    BY <1>4, HeadTailProperties DEF RunJob, Idle, Types
  <2>2. StepsIn({"register"}) = 0
    BY <2>1, CountEmpty DEF StepsIn
  <2>3. CASE Head(batch) = "send" /\ ~Dead
    <3>0. <<"writeable", "register", "release">> \in Seq(Steps)
      BY DEF Steps
    <3>1. todo' = <<"writeable", "register", "release">> /\ todo' \in Seq(Steps)
      BY <2>1, <2>3, <3>0, HandlerIs
    <3>2. 2 \in DOMAIN todo' /\ todo'[2] \in {"register"}
      BY <3>1
    <3>3. Count(todo', {"register"}) \in Nat \ {0}
      BY <3>1, <3>2, CountSome
    <3> QED
      BY <3>3 DEF Watching, StepsIn
  <2>4. CASE Head(batch) = "send" /\ Dead
    BY <2>1, <2>4 DEF Watching, Dead
  <2>5. CASE Head(batch) # "send"
    <3>1. /\ Count(batch, {"send"}) = One(Head(batch) \in {"send"}) + Count(Tail(batch), {"send"})
          /\ Tail(batch) \in Seq(Jobs)
      BY <2>1, CountTail, HeadTailProperties
    <3>2. One(Head(batch) \in {"send"}) = 0 /\ Count(Tail(batch), {"send"}) \in Nat
      BY <2>5, <3>1, CountType DEF One
    <3>3. JobsIn({"send"})' = JobsIn({"send"})
      BY <2>1, <3>1, <3>2 DEF JobsIn
    <3> QED
      BY <2>1, <2>2, <3>3 DEF Watching, Dead
  <2> QED
    BY <2>3, <2>4, <2>5
<1>5. CASE RecvTimeout
  <2>1. ~Dead' => ~Dead /\ ("pending" \in bits' <=> "pending" \in bits)
    BY <1>5 DEF RecvTimeout, error_propagation, Dead
  <2>2. tasks' = tasks \/ \E job \in Jobs : Execute(job)
    BY <1>5 DEF RecvTimeout, error_propagation, Post, Jobs
  <2> QED
    BY <1>5, <2>1, <2>2, UnwatchedSteps DEF RecvTimeout
<1>6. CASE Peer
  <2>1. UNCHANGED <<bits, tasks, batch, todo, reg, sendq, active>>
    BY <1>6 DEF Peer, PeerSends, PeerReceives, PeerCloses, ConnectionBreaks, loopVars
  <2>2. ~Dead' => ~Dead /\ ("pending" \in bits' <=> "pending" \in bits)
    BY <2>1 DEF Dead
  <2> QED
    BY <2>1, <2>2, UnwatchedSteps
<1> QED
  BY <1>1, <1>2, <1>3, <1>4, <1>5, <1>6

LEMMA WatchingUsers ==
  ASSUME Inv, Watching, NEW u \in Users, UserStarts(u) \/ UserPosts(u) \/ UserReleases(u)
  PROVE  Watching'
<1>1. ~Dead' => ~Dead /\ ("pending" \in bits' <=> "pending" \in bits)
  BY DEF UserStarts, UserPosts, UserReleases, Dead
<1>2. tasks' = tasks \/ \E job \in Jobs : Execute(job)
  BY DEF UserStarts, UserPosts, UserReleases, loopVars, Post, Jobs
<1>3. UNCHANGED <<reg, sendq, active, batch, todo>>
  BY DEF UserStarts, UserPosts, UserReleases, loopVars
<1> QED
  BY <1>1, <1>2, <1>3, UnwatchedSteps DEF Inv

LEMMA WatchingNext ==
  ASSUME Inv, Follows(todo), Stock, Watching, [Next]_vars
  PROVE  Watching'
<1>1. CASE UNCHANGED vars
  BY <1>1 DEF vars, loopVars, Watching, Dead, JobsIn, StepsIn
<1> QED
  BY <1>1, WatchingHandlers, WatchingCallbacks, WatchingLoop, WatchingUsers DEF Next, LoopStep
-----------------------------------------------------------------------------
(* What the filters are told.                                              *)
Ends == {"on_error", "on_closed"}

(* Where a failure and a close() are between the call and the callback,    *)
(* and where a close() is before it makes sure of the failure.             *)
Errors == JobsIn({"error"}) + ThreadsIn({"failing"}) + StepsIn({"on_error"}) + told["on_error"]
Closes == JobsIn({"close"}) + ThreadsIn({"closing"}) + StepsIn({"on_closed"}) + told["on_closed"]
Closing == JobsIn({"close"}) + ThreadsIn({"closing"}) + StepsIn({"closing"})

OnceEach ==
  ~resumed =>
    /\ Errors = One("error" \in bits) /\ Closes = One("close" \in bits)
    /\ "close" \in bits /\ Closing = 0 => "error" \in bits

(* Nothing is told, nor written, before the announcement.                  *)
Fresh ==
  /\ told \in [Ends -> Nat]
  /\ Unannounced > 0 => told["on_error"] = 0 /\ told["on_closed"] = 0 /\ sendq = 0

LEMMA ToldNumbers ==
  ASSUME Types, Fresh
  PROVE  /\ JobsIn({"error"}) \in Nat /\ JobsIn({"close"}) \in Nat /\ JobsIn({"connected"}) \in Nat
         /\ ThreadsIn({"failing"}) \in Nat /\ ThreadsIn({"closing"}) \in Nat
         /\ StepsIn({"on_error"}) \in Nat /\ StepsIn({"on_closed"}) \in Nat
         /\ StepsIn({"closing"}) \in Nat /\ StepsIn({"announce"}) \in Nat
         /\ told["on_error"] \in Nat /\ told["on_closed"] \in Nat
<1>1. told["on_error"] \in Nat /\ told["on_closed"] \in Nat
  BY DEF Fresh, Ends
<1>2. {"failing"} \in SUBSET Doing /\ {"closing"} \in SUBSET Doing
  BY DEF Doing, Busy
<1> QED
  BY <1>1, <1>2, CountsAreNumbers

(* Most steps leave alone where failures and closes are; those that queue  *)
(* one of them set its bit.                                                *)
Marked == {"on_error", "on_closed", "closing", "announce"}
Silent == Steps \ Marked

SameBit(b) == resumed' \/ (b \in bits' <=> b \in bits)

Posting ==
  \/ tasks' = tasks /\ SameBit("error") /\ SameBit("close")
  \/ SameBit("error") /\ SameBit("close") /\ \E job \in {"write", "register", "send"} : Execute(job)
  \/ "error" \notin bits /\ "error" \in bits' /\ SameBit("close") /\ Execute("error")
  \/ "close" \notin bits /\ "close" \in bits' /\ SameBit("error") /\ Execute("close")

SilentTodo ==
  \/ todo' = todo
  \/ todo # <<>> /\ Head(todo) \in Silent /\ (Done \/ \E next \in Silent : Then(<<next>>))
  \/ todo = <<>> /\ todo' \in Seq(Silent)

LEMMA PostingCounts ==
  ASSUME Types, Posting, batch' = batch
  PROVE  \E e, c \in Nat :
           /\ JobsIn({"error"})' = JobsIn({"error"}) + e
           /\ JobsIn({"close"})' = JobsIn({"close"}) + c
           /\ JobsIn({"connected"})' = JobsIn({"connected"})
           /\ resumed' \/ One("error" \in bits)' = One("error" \in bits) + e
           /\ resumed' \/ One("close" \in bits)' = One("close" \in bits) + c
<1>1. JobsIn({"error"}) \in Nat /\ JobsIn({"close"}) \in Nat /\ JobsIn({"connected"}) \in Nat
  BY CountsAreNumbers
<1>2. /\ SameBit("error") => resumed' \/ One("error" \in bits)' = One("error" \in bits) + 0
      /\ SameBit("close") => resumed' \/ One("close" \in bits)' = One("close" \in bits) + 0
  BY DEF SameBit, One
<1>3. ASSUME NEW job \in Jobs, Execute(job)
      PROVE  \A S : JobsIn(S)' = JobsIn(S) + One(job \in S)
  BY <1>3, ExecuteCounts
<1>4. CASE tasks' = tasks /\ SameBit("error") /\ SameBit("close")
  <2>1. \A S : JobsIn(S)' = JobsIn(S)
    BY <1>4 DEF JobsIn
  <2> QED
    BY <1>1, <1>2, <1>4, <2>1
<1>5. CASE SameBit("error") /\ SameBit("close") /\ \E job \in {"write", "register", "send"} : Execute(job)
  <2>1. PICK job \in {"write", "register", "send"} : Execute(job)
    BY <1>5
  <2>2. /\ job \in Jobs /\ One(job \in {"error"}) = 0 /\ One(job \in {"close"}) = 0
        /\ One(job \in {"connected"}) = 0
    BY <2>1 DEF One, Jobs
  <2>3. \A S : JobsIn(S)' = JobsIn(S) + One(job \in S)
    BY <1>3, <2>1, <2>2
  <2> QED
    BY <1>1, <1>2, <1>5, <2>2, <2>3
<1>6. CASE "error" \notin bits /\ "error" \in bits' /\ SameBit("close") /\ Execute("error")
  <2>1. /\ "error" \in Jobs /\ One("error" \in {"error"}) = 1 /\ One("error" \in {"close"}) = 0
        /\ One("error" \in {"connected"}) = 0 /\ One("error" \in bits) = 0 /\ One("error" \in bits)' = 1
    BY <1>6 DEF One, Jobs
  <2>2. \A S : JobsIn(S)' = JobsIn(S) + One("error" \in S)
    BY <1>3, <1>6, <2>1
  <2> QED
    BY <1>1, <1>2, <1>6, <2>1, <2>2
<1>7. CASE "close" \notin bits /\ "close" \in bits' /\ SameBit("error") /\ Execute("close")
  <2>1. /\ "close" \in Jobs /\ One("close" \in {"error"}) = 0 /\ One("close" \in {"close"}) = 1
        /\ One("close" \in {"connected"}) = 0 /\ One("close" \in bits) = 0 /\ One("close" \in bits)' = 1
    BY <1>7 DEF One, Jobs
  <2>2. \A S : JobsIn(S)' = JobsIn(S) + One("close" \in S)
    BY <1>3, <1>7, <2>1
  <2> QED
    BY <1>1, <1>2, <1>7, <2>1, <2>2
<1> QED
  BY <1>4, <1>5, <1>6, <1>7 DEF Posting

LEMMA SilentCounts ==
  ASSUME Types, SilentTodo, NEW S \in SUBSET Marked
  PROVE  StepsIn(S)' = StepsIn(S)
<1>1. StepsIn(S) \in Nat /\ \A step \in Silent : One(step \in S) = 0
  BY CountsAreNumbers DEF One, Silent
<1>2. CASE todo' = todo
  BY <1>2 DEF StepsIn
<1>3. CASE todo # <<>> /\ Head(todo) \in Silent /\ Done
  <2>1. StepsIn(S)' = StepsIn(S) - One(Head(todo) \in S)
    BY <1>3, DoneCounts
  <2> QED
    BY <1>1, <1>3, <2>1
<1>4. CASE todo # <<>> /\ Head(todo) \in Silent /\ \E next \in Silent : Then(<<next>>)
  <2>1. PICK next \in Silent : Then(<<next>>)
    BY <1>4
  <2>2. <<next>> \in Seq(Steps) /\ Count(<<next>>, S) = One(next \in S)
    BY CountSingle DEF Silent
  <2>3. StepsIn(S)' = StepsIn(S) - One(Head(todo) \in S) + Count(<<next>>, S)
    BY <1>4, <2>1, <2>2, ThenCounts
  <2> QED
    BY <1>1, <1>4, <2>2, <2>3
<1>5. CASE todo = <<>> /\ todo' \in Seq(Silent)
  <2>1. S \cap Silent = {}
    BY DEF Silent
  <2>2. Count(todo', S) = 0
    BY <1>5, <2>1, CountNone
  <2>3. Count(todo, S) = 0
    BY <1>5, CountEmpty
  <2> QED
    BY <2>2, <2>3 DEF StepsIn
<1> QED
  BY <1>2, <1>3, <1>4, <1>5 DEF SilentTodo

LEMMA SilentKeeps ==
  ASSUME Types, Fresh, OnceEach, SilentTodo, Posting, UNCHANGED <<batch, told>>,
         ThreadsIn({"failing"})' = ThreadsIn({"failing"}),
         ThreadsIn({"closing"})' = ThreadsIn({"closing"}),
         resumed => resumed', sendq' = sendq \/ Unannounced = 0
  PROVE  Fresh' /\ OnceEach'
<1>1. PICK e \in Nat, c \in Nat :
        /\ JobsIn({"error"})' = JobsIn({"error"}) + e
        /\ JobsIn({"close"})' = JobsIn({"close"}) + c
        /\ JobsIn({"connected"})' = JobsIn({"connected"})
        /\ resumed' \/ One("error" \in bits)' = One("error" \in bits) + e
        /\ resumed' \/ One("close" \in bits)' = One("close" \in bits) + c
  BY PostingCounts
<1>2. /\ StepsIn({"on_error"})' = StepsIn({"on_error"}) /\ StepsIn({"on_closed"})' = StepsIn({"on_closed"})
      /\ StepsIn({"closing"})' = StepsIn({"closing"}) /\ StepsIn({"announce"})' = StepsIn({"announce"})
  BY SilentCounts DEF Marked
<1>3. Fresh'
  <2>1. Unannounced' = Unannounced
    BY <1>1, <1>2 DEF Unannounced
  <2> QED
    BY <2>1 DEF Fresh
<1>4. /\ One("error" \in bits) \in Nat /\ One("close" \in bits) \in Nat
      /\ One("error" \in bits)' \in Nat /\ One("close" \in bits)' \in Nat
      /\ "error" \in bits' <=> One("error" \in bits)' > 0
      /\ "close" \in bits' <=> One("close" \in bits)' > 0
      /\ "error" \in bits <=> One("error" \in bits) > 0
      /\ "close" \in bits <=> One("close" \in bits) > 0
  BY DEF One
<1>5. ASSUME ~resumed'
      PROVE  /\ Errors' = One("error" \in bits)' /\ Closes' = One("close" \in bits)'
             /\ "close" \in bits' /\ Closing' = 0 => "error" \in bits'
  <2>1. /\ Errors = One("error" \in bits) /\ Closes = One("close" \in bits)
        /\ "close" \in bits /\ Closing = 0 => "error" \in bits
    BY <1>5 DEF OnceEach
  <2>2. Errors' = Errors + e /\ Closes' = Closes + c /\ Closing' = Closing + c /\ Closing \in Nat
    BY <1>1, <1>2, ToldNumbers DEF Errors, Closes, Closing
  <2> QED
    BY <1>1, <1>4, <1>5, <2>1, <2>2
<1> QED
  BY <1>3, <1>5 DEF OnceEach

LEMMA StepsOfKind ==
  /\ {"readable", "writeable", "register", "register_failed", "do_write", "leave", "release",
      "on_connected", "on_read", "on_write"} \subseteq Silent
  /\ {"on_error", "on_closed", "closing", "announce"} \subseteq Steps
BY DEF Silent, Marked, Steps, Callbacks

(* The calls of the channel's interface and do_write().                    *)
LEMMA PostingCalls ==
  /\ error_propagation => Posting
  /\ close => Posting
  /\ (UNCHANGED <<bits, tasks>>) => Posting
  /\ (do_write /\ bits' = bits) => Posting
  /\ \A job \in {"write", "register", "send"} : Post(job) /\ SameBit("error") /\ SameBit("close") => Posting
<1>1. error_propagation => Posting
  BY DEF error_propagation, Post, Posting, SameBit
<1>2. close => Posting
  BY DEF close, Post, Posting, SameBit
<1>3. (do_write /\ bits' = bits) => Posting
  BY DEF do_write, Post, Posting, SameBit
<1> QED
  BY <1>1, <1>2, <1>3 DEF Post, Posting, SameBit

LEMMA SilentHandlers ==
  ASSUME Inv, Fresh, OnceEach,
         \/ RegisterHandle \/ RegisterFailed \/ FireDoWrite \/ Leave \/ ReleaseJob
         \/ HandleReadable /\ UNCHANGED bits
         \/ HandleWriteable /\ UNCHANGED bits
  PROVE  Fresh' /\ OnceEach'
<1>1. /\ UNCHANGED <<batch, told, upc>> /\ (resumed => resumed')
      /\ todo # <<>> /\ Head(todo) \in Silent
  BY StepsOfKind DEF RegisterHandle, RegisterFailed, FireDoWrite, Leave, ReleaseJob, HandleReadable,
     HandleWriteable, Is
<1>2. Head(todo) # "announce"
  BY <1>1 DEF Silent, Marked
<1>3. Unannounced = 0
  BY <1>1, <1>2, Announced
<1>4. Posting
  BY PostingCalls
     DEF RegisterHandle, RegisterFailed, FireDoWrite, Leave, ReleaseJob, HandleReadable, HandleWriteable
<1>5. SilentTodo
  <2>1. Done \/ \E next \in Silent : Then(<<next>>)
    <3>1. CASE RegisterHandle \/ RegisterFailed \/ FireDoWrite \/ Leave \/ ReleaseJob
      BY <3>1, StepsOfKind DEF RegisterHandle, RegisterFailed, FireDoWrite, Leave, ReleaseJob
    <3>2. CASE HandleReadable /\ UNCHANGED bits
      BY <3>2, StepsOfKind DEF HandleReadable, FailNow
    <3>3. CASE HandleWriteable /\ UNCHANGED bits
      BY <3>3, StepsOfKind DEF HandleWriteable, FailNow
    <3> QED
      BY <3>1, <3>2, <3>3
  <2> QED
    BY <1>1, <2>1 DEF SilentTodo
<1>6. \A S : ThreadsIn(S)' = ThreadsIn(S)
  BY <1>1 DEF ThreadsIn
<1> QED
  BY <1>1, <1>3, <1>4, <1>5, <1>6, SilentKeeps DEF Inv

LEMMA SilentCallbacks ==
  ASSUME Inv, Fresh, OnceEach,
         \/ CallbackCloses \/ CallbackWrites \/ CallbackWritesDirectly \/ CallbackFails
         \/ pending_read \/ continue_read
         \/ CallbackReturns /\ Head(todo) \notin Ends
  PROVE  Fresh' /\ OnceEach'
<1>1. /\ UNCHANGED <<batch, upc>> /\ (resumed => resumed')
      /\ todo # <<>> /\ Head(todo) \in Callbacks
  BY DEF CallbackCloses, CallbackWrites, CallbackWritesDirectly, CallbackFails, pending_read,
         continue_read, CallbackReturns, InCallback, Idle, Is, loopVars, Callbacks
<1>2. Head(todo) # "announce"
  BY <1>1 DEF Callbacks
<1>3. Unannounced = 0
  BY <1>1, <1>2, Announced
<1>4. told' = told
  BY DEF CallbackCloses, CallbackWrites, CallbackWritesDirectly, CallbackFails, pending_read,
         continue_read, CallbackReturns, Fresh
<1>5. Posting
  <2>1. CASE pending_read
    BY <2>1 DEF pending_read, loopVars, Posting, SameBit
  <2>2. CASE continue_read
    BY <2>2, PostingCalls DEF continue_read, Posting, SameBit
  <2>3. CASE CallbackReturns /\ Head(todo) \notin Ends
    BY <2>3, PostingCalls DEF CallbackReturns, Ends, Is
  <2> QED
    BY <2>1, <2>2, <2>3, PostingCalls
       DEF CallbackCloses, CallbackWrites, CallbackWritesDirectly, CallbackFails, SameBit
<1>6. SilentTodo
  <2>1. CASE CallbackReturns /\ Head(todo) \notin Ends
    <3>1. Head(todo) \in Silent
      BY <1>1, <2>1, StepsOfKind DEF Callbacks, Ends
    <3> QED
      BY <1>1, <2>1, <3>1 DEF CallbackReturns, SilentTodo
  <2>2. CASE \/ CallbackCloses \/ CallbackWrites \/ CallbackWritesDirectly \/ CallbackFails
             \/ pending_read \/ continue_read
    BY <2>2 DEF CallbackCloses, CallbackWrites, CallbackWritesDirectly, CallbackFails, pending_read,
         continue_read, loopVars, SilentTodo
  <2> QED
    BY <2>1, <2>2
<1>7. \A S : ThreadsIn(S)' = ThreadsIn(S)
  BY <1>1 DEF ThreadsIn
<1> QED
  BY <1>1, <1>3, <1>4, <1>5, <1>6, <1>7, SilentKeeps DEF Inv

LEMMA SilentLoop ==
  ASSUME Inv, Fresh, OnceEach,
         (PollEvent /\ UNCHANGED bits) \/ PollNothing \/ NextIteration \/ RecvTimeout \/ Peer
  PROVE  Fresh' /\ OnceEach'
<1>1. /\ UNCHANGED <<batch, upc, told, sendq, resumed>>
  BY DEF PollEvent, PollNothing, NextIteration, RecvTimeout, Peer, PeerSends, PeerReceives,
         PeerCloses, ConnectionBreaks, loopVars
<1>2. Posting
  BY PostingCalls DEF PollEvent, PollNothing, NextIteration, RecvTimeout, Peer, PeerSends,
     PeerReceives, PeerCloses, ConnectionBreaks, loopVars
<1>3. SilentTodo
  <2>1. CASE PollEvent /\ UNCHANGED bits
    <3>1. todo = <<>> /\ todo' # <<"on_error">>
      BY <2>1 DEF PollEvent, Idle, Dead
    <3>2. /\ <<"register">> \in Seq(Silent) /\ <<"readable", "register">> \in Seq(Silent)
          /\ <<"writeable", "register">> \in Seq(Silent)
          /\ <<"readable", "writeable", "register">> \in Seq(Silent)
      BY StepsOfKind
    <3> QED
      BY <2>1, <3>1, <3>2, EventStarts DEF SilentTodo
  <2>2. CASE PollNothing \/ NextIteration \/ RecvTimeout \/ Peer
    BY <2>2 DEF PollNothing, NextIteration, RecvTimeout, Peer, PeerSends, PeerReceives, PeerCloses,
           ConnectionBreaks, loopVars, SilentTodo
  <2> QED
    BY <2>1, <2>2
<1>4. \A S : ThreadsIn(S)' = ThreadsIn(S)
  BY <1>1 DEF ThreadsIn
<1> QED
  BY <1>1, <1>2, <1>3, <1>4, SilentKeeps DEF Inv

(* The first failure is delivered at once.                                 *)
FailsAtOnce ==
  /\ "error" \notin bits /\ bits' = bits \cup {"error"}
  /\ UNCHANGED <<tasks, batch, upc, told, sendq, resumed>>
  /\ \/ todo = <<>> /\ todo' = <<"on_error">>
     \/ /\ todo # <<>> /\ Head(todo) \in {"readable", "writeable", "closing"}
        /\ Then(<<"on_error">>)

LEMMA FailsAtOnceKeeps ==
  ASSUME Types, Fresh, OnceEach, FailsAtOnce
  PROVE  Fresh' /\ OnceEach'
<1>1. /\ StepsIn({"on_error"})' = StepsIn({"on_error"}) + 1
      /\ StepsIn({"on_closed"})' = StepsIn({"on_closed"})
      /\ StepsIn({"announce"})' = StepsIn({"announce"})
  <2>0. \A S : Count(<<"on_error">>, S) = One("on_error" \in S)
    BY CountSingle
  <2>1. /\ One("on_error" \in {"on_error"}) = 1 /\ One("on_error" \in {"on_closed"}) = 0
        /\ One("on_error" \in {"announce"}) = 0
    BY DEF One
  <2>2. CASE todo = <<>> /\ todo' = <<"on_error">>
    BY <2>0, <2>1, <2>2, CountEmpty DEF StepsIn
  <2>3. CASE /\ todo # <<>> /\ Head(todo) \in {"readable", "writeable", "closing"}
             /\ Then(<<"on_error">>)
    <3>1. <<"on_error">> \in Seq(Steps)
      BY StepsOfKind
    <3>2. \A S : StepsIn(S)' = StepsIn(S) - One(Head(todo) \in S) + Count(<<"on_error">>, S)
      BY <2>3, <3>1, ThenCounts
    <3>3. /\ One(Head(todo) \in {"on_error"}) = 0 /\ One(Head(todo) \in {"on_closed"}) = 0
          /\ One(Head(todo) \in {"announce"}) = 0
      BY <2>3 DEF One
    <3> QED
      BY <2>0, <2>1, <3>2, <3>3, ToldNumbers
  <2> QED
    BY <2>2, <2>3 DEF FailsAtOnce
<1>2. \A S : JobsIn(S)' = JobsIn(S) /\ ThreadsIn(S)' = ThreadsIn(S)
  BY DEF FailsAtOnce, JobsIn, ThreadsIn
<1>3. Fresh'
  BY <1>1, <1>2 DEF FailsAtOnce, Fresh, Unannounced
<1>4. /\ One("error" \in bits) = 0 /\ One("error" \in bits)' = 1 /\ "error" \in bits'
      /\ One("close" \in bits)' = One("close" \in bits)
  BY DEF FailsAtOnce, One
<1>5. Errors' = Errors + 1 /\ Closes' = Closes
  BY <1>1, <1>2, ToldNumbers DEF FailsAtOnce, Errors, Closes
<1> QED
  BY <1>3, <1>4, <1>5 DEF OnceEach, FailsAtOnce

(* on_error or on_closed returns.                                          *)
LEMMA EndReturnsKeeps ==
  ASSUME Inv, Fresh, OnceEach, CallbackReturns, Head(todo) \in Ends
  PROVE  Fresh' /\ OnceEach'
<1> DEFINE end == Head(todo)
<1>1. /\ todo # <<>> /\ end # "announce" /\ Done /\ UNCHANGED <<batch, upc, resumed, sendq>>
      /\ told' = [told EXCEPT ![end] = told[end] + 1]
  BY DEF CallbackReturns, InCallback, Idle, Fresh, Ends
<1>2. Unannounced = 0
  BY <1>1, Announced
<1>3. /\ told' \in [Ends -> Nat] /\ told'["on_error"] = told["on_error"] + One(end \in {"on_error"})
      /\ told'["on_closed"] = told["on_closed"] + One(end \in {"on_closed"})
  BY <1>1 DEF Fresh, Ends, One
<1>4. \A S : StepsIn(S)' = StepsIn(S) - One(end \in S) /\ StepsIn(S)' \in Nat
  BY <1>1, DoneCounts DEF Inv
<1>5. PICK e \in Nat, c \in Nat :
        /\ JobsIn({"error"})' = JobsIn({"error"}) + e
        /\ JobsIn({"close"})' = JobsIn({"close"}) + c
        /\ JobsIn({"connected"})' = JobsIn({"connected"})
        /\ resumed' \/ One("error" \in bits)' = One("error" \in bits) + e
        /\ resumed' \/ One("close" \in bits)' = One("close" \in bits) + c
  <2>1. Posting
    <3>1. close \/ UNCHANGED <<bits, tasks>>
      BY DEF CallbackReturns
    <3> QED
      BY <3>1, PostingCalls
  <2> QED
    BY <1>1, <2>1, PostingCounts DEF Inv
<1>6. \A S : ThreadsIn(S)' = ThreadsIn(S)
  BY <1>1 DEF ThreadsIn
<1> HIDE DEF end
<1>7. end \in Ends
  BY DEF end
<1>8. /\ One(end \in {"on_error"}) \in Nat /\ One(end \in {"on_closed"}) \in Nat
      /\ One(end \in {"announce"}) = 0 /\ One(end \in {"closing"}) = 0
  BY <1>7 DEF One, Ends
<1>9. Fresh'
  <2>1. Unannounced' = 0
    <3>1. StepsIn({"announce"})' = StepsIn({"announce"})
      BY <1>4, <1>8, ToldNumbers DEF Inv
    <3> QED
      BY <1>2, <1>5, <3>1 DEF Unannounced
  <2> QED
    BY <1>3, <2>1 DEF Fresh
<1>10. Errors' = Errors + e /\ Closes' = Closes + c /\ Closing' = Closing + c /\ Closing \in Nat
  BY <1>3, <1>4, <1>5, <1>6, <1>8, ToldNumbers, SMTT(30) DEF Inv, Errors, Closes, Closing
<1>11. /\ One("error" \in bits) \in Nat /\ One("close" \in bits) \in Nat
       /\ "error" \in bits' <=> One("error" \in bits)' > 0
       /\ "close" \in bits' <=> One("close" \in bits)' > 0
       /\ "error" \in bits <=> One("error" \in bits) > 0
       /\ "close" \in bits <=> One("close" \in bits) > 0
  BY DEF One
<1>12. ASSUME ~resumed'
       PROVE  /\ Errors' = One("error" \in bits)' /\ Closes' = One("close" \in bits)'
              /\ "close" \in bits' /\ Closing' = 0 => "error" \in bits'
  <2>1. /\ Errors = One("error" \in bits) /\ Closes = One("close" \in bits)
        /\ "close" \in bits /\ Closing = 0 => "error" \in bits
    BY <1>1, <1>12 DEF OnceEach
  <2> QED
    BY <1>5, <1>10, <1>11, <1>12, <2>1
<1> QED
  BY <1>9, <1>12 DEF OnceEach

LEMMA FireOnCloseTells ==
  ASSUME Inv, Fresh, OnceEach, FireOnClose
  PROVE  Fresh' /\ OnceEach'
<1>1. todo # <<>> /\ Head(todo) = "closing"
  BY DEF FireOnClose, Is
<1>2. CASE "error" \notin bits
  <2>1. FailsAtOnce
    BY <1>1, <1>2 DEF FireOnClose, FailsAtOnce
  <2> QED
    BY <2>1, FailsAtOnceKeeps DEF Inv
<1>3. CASE "error" \in bits
  <2>1. Done /\ UNCHANGED <<tasks, batch, upc, told, sendq, resumed>> /\ bits' = bits
    BY <1>3 DEF FireOnClose
  <2>2. \A S : StepsIn(S)' = StepsIn(S) - One("closing" \in S)
    BY <1>1, <2>1, DoneCounts DEF Inv
  <2>3. /\ One("closing" \in {"on_error"}) = 0 /\ One("closing" \in {"on_closed"}) = 0
        /\ One("closing" \in {"announce"}) = 0
    BY DEF One
  <2>4. /\ StepsIn({"on_error"})' = StepsIn({"on_error"}) /\ StepsIn({"on_closed"})' = StepsIn({"on_closed"})
        /\ StepsIn({"announce"})' = StepsIn({"announce"})
    BY <2>2, <2>3, ToldNumbers DEF Inv
  <2>5. \A S : JobsIn(S)' = JobsIn(S) /\ ThreadsIn(S)' = ThreadsIn(S)
    BY <2>1 DEF JobsIn, ThreadsIn
  <2>6. Fresh'
    BY <2>1, <2>4, <2>5 DEF Fresh, Unannounced
  <2>7. Errors' = Errors /\ Closes' = Closes
    BY <2>1, <2>4, <2>5 DEF Errors, Closes
  <2> QED
    BY <1>3, <2>1, <2>6, <2>7 DEF OnceEach, One
<1> QED
  BY <1>2, <1>3

LEMMA FailuresTell ==
  ASSUME Inv, Fresh, OnceEach,
         \/ PollEvent /\ bits' # bits
         \/ HandleReadable /\ bits' # bits
         \/ HandleWriteable /\ bits' # bits
  PROVE  Fresh' /\ OnceEach'
<1>1. FailsAtOnce
  BY DEF PollEvent, HandleReadable, HandleWriteable, FailNow, FailsAtOnce, Is, Dead, Idle, kernelVars
<1> QED
  BY <1>1, FailsAtOnceKeeps DEF Inv

LEMMA HandlerTells ==
  ASSUME NEW job \in Jobs
  PROVE  /\ Count(Handler(job), {"on_error"}) = One(job \in {"error"})
         /\ Count(Handler(job), {"on_closed"}) = One(job \in {"close"})
         /\ Count(Handler(job), {"closing"}) = One(job \in {"close"})
<1>1. CASE job \notin {"error", "close"}
  <2>1. /\ <<"announce">> \in Seq(Steps \ (Ends \cup {"closing"}))
        /\ <<"do_write", "release">> \in Seq(Steps \ (Ends \cup {"closing"}))
        /\ <<"register", "release">> \in Seq(Steps \ (Ends \cup {"closing"}))
        /\ <<"release">> \in Seq(Steps \ (Ends \cup {"closing"}))
        /\ <<"writeable", "register", "release">> \in Seq(Steps \ (Ends \cup {"closing"}))
    BY DEF Steps, Ends
  <2>2. Handler(job) \in Seq(Steps \ (Ends \cup {"closing"}))
    BY <1>1, <2>1, HandlerIs DEF Jobs
  <2>3. ASSUME NEW step \in Ends \cup {"closing"} PROVE Count(Handler(job), {step}) = 0
    <3>1. {step} \cap (Steps \ (Ends \cup {"closing"})) = {}
      OBVIOUS
    <3> QED
      BY <2>2, <3>1, CountNone
  <2> QED
    BY <1>1, <2>3 DEF One, Ends
<1>2. CASE job = "error"
  <2> DEFINE steps == <<"on_error", "release">>
  <2>1. Handler(job) = steps /\ steps \in Seq(Steps)
    BY <1>2, HandlerIs, StepsOfKind DEF Silent
  <2>2. 1 \in DOMAIN steps /\ steps[1] \in {"on_error"} /\ \A i \in DOMAIN steps : i # 1 => steps[i] \notin {"on_error"}
    OBVIOUS
  <2>3. steps \in Seq({"on_error", "release"})
    OBVIOUS
  <2> HIDE DEF steps
  <2>4. Count(steps, {"on_error"}) = 1
    BY <2>1, <2>2, CountOnce
  <2>5. Count(steps, {"on_closed"}) = 0
    <3>1. {"on_closed"} \cap {"on_error", "release"} = {}
      OBVIOUS
    <3> QED
      BY <2>3, <3>1, CountNone
  <2>6. Count(steps, {"closing"}) = 0
    <3>1. {"closing"} \cap {"on_error", "release"} = {}
      OBVIOUS
    <3> QED
      BY <2>3, <3>1, CountNone
  <2> QED
    BY <1>2, <2>1, <2>4, <2>5, <2>6 DEF One
<1>3. CASE job = "close"
  <2> DEFINE steps == <<"closing", "on_closed", "leave", "release">>
  <2>1. Handler(job) = steps /\ steps \in Seq(Steps)
    BY <1>3, HandlerIs, StepsOfKind DEF Silent
  <2>2. /\ 2 \in DOMAIN steps /\ steps[2] \in {"on_closed"}
        /\ \A i \in DOMAIN steps : i # 2 => steps[i] \notin {"on_closed"}
    OBVIOUS
  <2>3. /\ 1 \in DOMAIN steps /\ steps[1] \in {"closing"}
        /\ \A i \in DOMAIN steps : i # 1 => steps[i] \notin {"closing"}
    OBVIOUS
  <2>4. steps \in Seq({"closing", "on_closed", "leave", "release"})
    OBVIOUS
  <2> HIDE DEF steps
  <2>5. Count(steps, {"on_closed"}) = 1
    BY <2>1, <2>2, CountOnce
  <2>6. Count(steps, {"closing"}) = 1
    BY <2>1, <2>3, CountOnce
  <2>7. Count(steps, {"on_error"}) = 0
    <3>1. {"on_error"} \cap {"closing", "on_closed", "leave", "release"} = {}
      OBVIOUS
    <3> QED
      BY <2>4, <3>1, CountNone
  <2> QED
    BY <1>3, <2>1, <2>5, <2>6, <2>7 DEF One
<1> QED
  BY <1>1, <1>2, <1>3

LEMMA RunJobTells ==
  ASSUME Inv, Fresh, OnceEach, RunJob
  PROVE  Fresh' /\ OnceEach'
<1> DEFINE job == Head(batch)
<1>1. /\ todo = <<>> /\ batch # <<>> /\ batch \in Seq(Jobs) /\ job \in Jobs
      /\ batch' = Tail(batch) /\ batch' \in Seq(Jobs) /\ todo' = Handler(job)
      /\ UNCHANGED <<tasks, upc, bits, told, sendq, resumed>>
  BY HeadTailProperties DEF RunJob, Idle, Inv, Types
<1> HIDE DEF job
<1>2. ASSUME NEW S PROVE JobsIn(S) = JobsIn(S)' + One(job \in S) /\ JobsIn(S)' \in Nat
  <2>1. Count(batch, S) = One(job \in S) + Count(batch', S)
    BY <1>1, CountTail DEF job
  <2>2. Count(batch', S) \in Nat /\ Count(tasks, S) \in Nat /\ One(job \in S) \in Nat
    BY <1>1, CountType DEF One, Inv, Types
  <2> QED
    BY <1>1, <2>1, <2>2 DEF JobsIn
<1>3. /\ StepsIn({"on_error"})' = One(job \in {"error"})
      /\ StepsIn({"on_closed"})' = One(job \in {"close"})
      /\ StepsIn({"closing"})' = One(job \in {"close"})
      /\ StepsIn({"announce"})' = One(job \in {"connected"})
  BY <1>1, HandlerTells, HandlerCounts DEF StepsIn
<1>4. \A S : StepsIn(S) = 0 /\ ThreadsIn(S)' = ThreadsIn(S)
  BY <1>1, CountEmpty DEF StepsIn, ThreadsIn
<1>5. \A S : One(job \in S) \in Nat
  BY DEF One
<1>6. Unannounced' = Unannounced
  <2>1. JobsIn({"connected"}) = JobsIn({"connected"})' + One(job \in {"connected"}) /\ JobsIn({"connected"})' \in Nat
    BY <1>2
  <2> QED
    BY <1>3, <1>4, <1>5, <2>1 DEF Unannounced
<1>7. Errors' = Errors
  <2>1. JobsIn({"error"}) = JobsIn({"error"})' + One(job \in {"error"}) /\ JobsIn({"error"})' \in Nat
    BY <1>2
  <2>2. StepsIn({"on_error"}) = 0 /\ ThreadsIn({"failing"})' = ThreadsIn({"failing"}) /\ told' = told
    BY <1>1, <1>4
  <2>3. ThreadsIn({"failing"}) \in Nat /\ told["on_error"] \in Nat /\ One(job \in {"error"}) \in Nat
    BY <1>5, ToldNumbers DEF Inv
  <2> QED
    BY <1>3, <2>1, <2>2, <2>3 DEF Errors
<1>8. Closes' = Closes /\ Closing' = Closing
  <2>1. JobsIn({"close"}) = JobsIn({"close"})' + One(job \in {"close"}) /\ JobsIn({"close"})' \in Nat
    BY <1>2
  <2>2. /\ StepsIn({"on_closed"}) = 0 /\ StepsIn({"closing"}) = 0
        /\ ThreadsIn({"closing"})' = ThreadsIn({"closing"}) /\ told' = told
    BY <1>1, <1>4
  <2>3. ThreadsIn({"closing"}) \in Nat /\ told["on_closed"] \in Nat /\ One(job \in {"close"}) \in Nat
    BY <1>5, ToldNumbers DEF Inv
  <2> QED
    BY <1>3, <2>1, <2>2, <2>3 DEF Closes, Closing
<1> QED
  BY <1>1, <1>6, <1>7, <1>8 DEF Fresh, OnceEach

LEMMA FireOnConnectedTells ==
  ASSUME Inv, Fresh, OnceEach, FireOnConnected
  PROVE  Fresh' /\ OnceEach'
<1>1. /\ todo # <<>> /\ Head(todo) = "announce" /\ Then(<<"on_connected">>)
      /\ UNCHANGED <<batch, upc, told, sendq, resumed>>
  BY DEF FireOnConnected, Is
<1>2. \A S : StepsIn(S)' = StepsIn(S) - One("announce" \in S) + One("on_connected" \in S)
  <2>1. <<"on_connected">> \in Seq(Steps) /\ \A S : Count(<<"on_connected">>, S) = One("on_connected" \in S)
    BY StepsOfKind, CountSingle DEF Silent
  <2> QED
    BY <1>1, <2>1, ThenCounts DEF Inv
<1>3. /\ One("announce" \in {"announce"}) = 1 /\ One("on_connected" \in {"announce"}) = 0
      /\ One("announce" \in {"on_error"}) = 0 /\ One("on_connected" \in {"on_error"}) = 0
      /\ One("announce" \in {"on_closed"}) = 0 /\ One("on_connected" \in {"on_closed"}) = 0
      /\ One("announce" \in {"closing"}) = 0 /\ One("on_connected" \in {"closing"}) = 0
  BY DEF One
<1>4. /\ StepsIn({"announce"})' = StepsIn({"announce"}) - 1
      /\ StepsIn({"on_error"})' = StepsIn({"on_error"})
      /\ StepsIn({"on_closed"})' = StepsIn({"on_closed"})
      /\ StepsIn({"closing"})' = StepsIn({"closing"})
  BY <1>2, <1>3, ToldNumbers DEF Inv
<1>5. Unannounced > 0 /\ todo = <<"announce">>
  <2>1. Count(todo, {"announce"}) = One(Head(todo) \in {"announce"}) + Count(Tail(todo), {"announce"})
    BY <1>1, CountTail DEF Inv, Types
  <2>2. Tail(todo) \in Seq(Steps) /\ Count(Tail(todo), {"announce"}) \in Nat
    BY <1>1, HeadTailProperties, CountType DEF Inv, Types
  <2>3. StepsIn({"announce"}) > 0
    BY <1>1, <2>1, <2>2 DEF StepsIn, One
  <2>4. Unannounced > 0
    BY <2>3, ToldNumbers DEF Inv, Unannounced
  <2> QED
    BY <1>1, <2>4 DEF Inv, Untouched
<1>6. JobsIn({"error"}) = 0
  <2>1. JobsIn(Held) = 0 /\ {"error"} \in SUBSET Held
    BY <1>5 DEF Inv, Untouched, Held, Jobs
  <2>2. /\ Count(batch, {"error"}) <= Count(batch, Held) /\ Count(tasks, {"error"}) <= Count(tasks, Held)
    BY <2>1, CountMonotonic DEF Inv, Types
  <2>3. /\ Count(batch, {"error"}) \in Nat /\ Count(tasks, {"error"}) \in Nat
        /\ Count(batch, Held) \in Nat /\ Count(tasks, Held) \in Nat
    BY CountType DEF Inv, Types
  <2> QED
    BY <2>1, <2>2, <2>3 DEF JobsIn
<1>7. ThreadsIn({"failing"}) = 0
  <2>1. ThreadsIn(Busy) = 0
    BY <1>5 DEF Inv, Untouched
  <2>2. {u \in Users : upc[u] \in Busy} = {}
    BY <2>1, ChannelAssumption, FS_Subset, FS_EmptySet DEF ThreadsIn
  <2>3. {u \in Users : upc[u] \in {"failing"}} = {}
    BY <2>2 DEF Busy
  <2> QED
    BY <2>3, FS_EmptySet DEF ThreadsIn
<1>8. ASSUME ~resumed PROVE "error" \notin bits
  <2>1. StepsIn({"on_error"}) = 0
    BY <1>3, <1>5, CountSingle DEF StepsIn
  <2>2. told["on_error"] = 0 /\ Errors = One("error" \in bits)
    BY <1>5, <1>8 DEF Fresh, OnceEach
  <2>3. One("error" \in bits) = 0
    BY <1>6, <1>7, <2>1, <2>2 DEF Errors
  <2> QED
    BY <2>3 DEF One
<1>9. PICK e \in Nat :
        /\ JobsIn({"error"})' = JobsIn({"error"}) + e
        /\ JobsIn({"close"})' = JobsIn({"close"})
        /\ JobsIn({"connected"})' = JobsIn({"connected"})
        /\ ~resumed => One("error" \in bits)' = One("error" \in bits) + e
        /\ One("close" \in bits)' = One("close" \in bits)
  <2>1. CASE UNCHANGED <<bits, tasks>>
    <3>1. \A S : JobsIn(S)' = JobsIn(S)
      BY <1>1, <2>1 DEF JobsIn
    <3>2. One("error" \in bits)' = One("error" \in bits) + 0 /\ JobsIn({"error"})' = JobsIn({"error"}) + 0
      BY <1>6, <2>1, <3>1 DEF One
    <3> QED
      BY <2>1, <3>1, <3>2 DEF One
  <2>2. CASE bits' = bits \cup {"error"} /\ Execute("error")
    <3>1. \A S : JobsIn(S)' = JobsIn(S) + One("error" \in S)
      BY <1>1, <2>2, ExecuteCounts DEF Inv, Jobs
    <3>2. One("error" \in {"error"}) = 1 /\ One("error" \in {"close"}) = 0 /\ One("error" \in {"connected"}) = 0
      BY DEF One
    <3>3. /\ ~resumed => One("error" \in bits)' = One("error" \in bits) + 1
          /\ One("close" \in bits)' = One("close" \in bits)
      BY <1>8, <2>2 DEF One
    <3> QED
      BY <3>1, <3>2, <3>3, ToldNumbers DEF Inv
  <2> QED
    BY <2>1, <2>2 DEF FireOnConnected
<1>10. Fresh'
  <2>1. Unannounced' = Unannounced - 1 /\ Unannounced \in Nat
    BY <1>4, <1>9, ToldNumbers DEF Inv, Unannounced
  <2> QED
    BY <1>1, <2>1 DEF Fresh
<1>11. \A S : ThreadsIn(S)' = ThreadsIn(S)
  BY <1>1 DEF ThreadsIn
<1>12. Errors' = Errors + e /\ Closes' = Closes /\ Closing' = Closing
  <2>1. /\ JobsIn({"error"})' = JobsIn({"error"}) + e /\ JobsIn({"close"})' = JobsIn({"close"}) /\ told' = told
        /\ ThreadsIn({"failing"})' = ThreadsIn({"failing"}) /\ ThreadsIn({"closing"})' = ThreadsIn({"closing"})
    BY <1>1, <1>9, <1>11
  <2>2. Errors' = Errors + e
    BY <1>4, <2>1, ToldNumbers DEF Inv, Errors
  <2>3. Closes' = Closes /\ Closing' = Closing
    BY <1>4, <2>1 DEF Closes, Closing
  <2> QED
    BY <2>2, <2>3
<1>13. ("close" \in bits' <=> "close" \in bits) /\ ("error" \in bits => "error" \in bits')
  BY DEF FireOnConnected
<1> QED
  BY <1>1, <1>9, <1>10, <1>12, <1>13 DEF OnceEach

LEMMA StillTold ==
  ASSUME Inv, Fresh, OnceEach, Splice \/ CallbackShares \/ UNCHANGED vars
  PROVE  Fresh' /\ OnceEach'
<1>1. UNCHANGED <<todo, told, bits, sendq, resumed>>
  BY DEF Splice, CallbackShares, loopVars, vars
<1>2. \A S : StepsIn(S)' = StepsIn(S)
  BY <1>1 DEF StepsIn
<1>3. \A S : JobsIn(S)' = JobsIn(S)
  <2>1. CASE UNCHANGED <<batch, tasks>>
    BY <2>1 DEF JobsIn
  <2>2. CASE Splice
    <3>1. batch = <<>> /\ tasks \in Seq(Jobs) /\ batch' = tasks /\ tasks' = <<>>
      BY <2>2 DEF Splice, Inv, Types
    <3>2. ASSUME NEW S PROVE JobsIn(S)' = JobsIn(S)
      <4>1. Count(tasks, S) \in Nat /\ Count(<<>>, S) = 0
        BY <3>1, CountType, CountEmpty
      <4> QED
        BY <3>1, <4>1 DEF JobsIn
    <3> QED
      BY <3>2
  <2> QED
    BY <2>1, <2>2 DEF CallbackShares, loopVars, vars
<1>4. ThreadsIn({"failing"})' = ThreadsIn({"failing"}) /\ ThreadsIn({"closing"})' = ThreadsIn({"closing"})
  <2>1. CASE upc' = upc
    BY <2>1 DEF ThreadsIn
  <2>2. CASE CallbackShares
    <3>1. PICK u \in Users : upc[u] = "out" /\ upc' = [upc EXCEPT ![u] = "idle"]
      BY <2>2 DEF CallbackShares
    <3>2. \A S : ThreadsIn(S)' = ThreadsIn(S) - One(upc[u] \in S) + One("idle" \in S)
      BY <3>1, ThreadMoves DEF Inv, Doing, Busy
    <3>3. /\ One(upc[u] \in {"failing"}) = 0 /\ One("idle" \in {"failing"}) = 0
          /\ One(upc[u] \in {"closing"}) = 0 /\ One("idle" \in {"closing"}) = 0
      BY <3>1 DEF One
    <3> QED
      BY <3>2, <3>3, ToldNumbers DEF Inv
  <2> QED
    BY <2>1, <2>2 DEF Splice, vars
<1> QED
  BY <1>1, <1>2, <1>3, <1>4 DEF Fresh, OnceEach, Unannounced, Errors, Closes, Closing

LEMMA UserStartsTells ==
  ASSUME Inv, Fresh, OnceEach, NEW u \in Users, UserStarts(u)
  PROVE  Fresh' /\ OnceEach'
<1>1. upc[u] = "idle" /\ UNCHANGED <<batch, tasks, todo, told, sendq, resumed>>
  BY DEF UserStarts, loopVars
<1>2. PICK a \in {"closing", "failing", "writing"} :
        /\ upc' = [upc EXCEPT ![u] = a]
        /\ One("close" \in bits)' = One("close" \in bits) + One(a \in {"closing"})
        /\ One("error" \in bits)' = One("error" \in bits) + One(a \in {"failing"})
  <2>1. CASE "close" \notin bits /\ bits' = bits \cup {"close"} /\ upc' = [upc EXCEPT ![u] = "closing"]
    <3>1. /\ One("close" \in bits)' = One("close" \in bits) + One("closing" \in {"closing"})
          /\ One("error" \in bits)' = One("error" \in bits) + One("closing" \in {"failing"})
      BY <2>1 DEF One
    <3> QED
      BY <2>1, <3>1
  <2>2. CASE "error" \notin bits /\ bits' = bits \cup {"error"} /\ upc' = [upc EXCEPT ![u] = "failing"]
    <3>1. /\ One("close" \in bits)' = One("close" \in bits) + One("failing" \in {"closing"})
          /\ One("error" \in bits)' = One("error" \in bits) + One("failing" \in {"failing"})
      BY <2>2 DEF One
    <3> QED
      BY <2>2, <3>1
  <2>3. CASE bits' = bits /\ upc' = [upc EXCEPT ![u] = "writing"]
    <3>1. /\ One("close" \in bits)' = One("close" \in bits) + One("writing" \in {"closing"})
          /\ One("error" \in bits)' = One("error" \in bits) + One("writing" \in {"failing"})
      BY <2>3 DEF One
    <3> QED
      BY <2>3, <3>1
  <2> QED
    BY <2>1, <2>2, <2>3 DEF UserStarts
<1>3. \A S : JobsIn(S)' = JobsIn(S) /\ StepsIn(S)' = StepsIn(S)
  BY <1>1 DEF JobsIn, StepsIn
<1>4. /\ ThreadsIn({"failing"})' = ThreadsIn({"failing"}) + One(a \in {"failing"})
      /\ ThreadsIn({"closing"})' = ThreadsIn({"closing"}) + One(a \in {"closing"})
      /\ One(a \in {"failing"}) \in Nat /\ One(a \in {"closing"}) \in Nat
  <2>1. a \in Doing
    BY DEF Doing, Busy
  <2>2. \A S : ThreadsIn(S)' = ThreadsIn(S) - One(upc[u] \in S) + One(a \in S)
    <3>1. upc' = [upc EXCEPT ![u] = a] /\ Types
      BY <1>2 DEF Inv
    <3> QED
      BY <2>1, <3>1, ThreadMoves
  <2>3. One(upc[u] \in {"failing"}) = 0 /\ One(upc[u] \in {"closing"}) = 0
        /\ One(a \in {"failing"}) \in Nat /\ One(a \in {"closing"}) \in Nat
    BY <1>1 DEF One
  <2> QED
    BY <2>2, <2>3, ToldNumbers DEF Inv
<1>5. Fresh'
  BY <1>1, <1>3 DEF Fresh, Unannounced
<1>6. /\ Errors' = Errors + One(a \in {"failing"}) /\ Closes' = Closes + One(a \in {"closing"})
      /\ Closing' = Closing + One(a \in {"closing"}) /\ Closing \in Nat
  BY <1>1, <1>3, <1>4, ToldNumbers DEF Inv, Errors, Closes, Closing
<1>7. "error" \in bits => "error" \in bits'
  BY DEF UserStarts
<1>8. Closing' = 0 => Closing = 0 /\ ("close" \in bits' => "close" \in bits)
  <2>1. One(a \in {"closing"}) = 0 => One("close" \in bits)' = One("close" \in bits)
    <3>1. One("close" \in bits) \in Nat
      BY DEF One
    <3> QED
      BY <1>2, <3>1
  <2>2. One("close" \in bits)' = One("close" \in bits) => ("close" \in bits' => "close" \in bits)
    BY DEF One
  <2> QED
    BY <1>4, <1>6, <2>1, <2>2
<1> QED
  BY <1>1, <1>2, <1>5, <1>6, <1>7, <1>8 DEF OnceEach

LEMMA UserPostsTells ==
  ASSUME Inv, Fresh, OnceEach, NEW u \in Users, UserPosts(u)
  PROVE  Fresh' /\ OnceEach'
<1>1. upc' = [upc EXCEPT ![u] = "idle"] /\ UNCHANGED <<batch, todo, told, sendq, resumed, bits>>
  BY DEF UserPosts
<1>2. PICK job \in Jobs : /\ Execute(job) /\ job # "connected"
                          /\ job = "close" <=> upc[u] = "closing"
                          /\ job = "error" <=> upc[u] = "failing"
  BY DEF UserPosts, Jobs, Post
<1>3. /\ \A S : JobsIn(S)' = JobsIn(S) + One(job \in S)
      /\ \A S : StepsIn(S)' = StepsIn(S)
  <2>1. \A S : JobsIn(S)' = JobsIn(S) + One(job \in S)
    BY <1>1, <1>2, ExecuteCounts DEF Inv
  <2> QED
    BY <1>1, <2>1 DEF StepsIn
<1>4. \A S : ThreadsIn(S)' = ThreadsIn(S) - One(upc[u] \in S) + One("idle" \in S)
  BY <1>1, ThreadMoves DEF Inv, Doing, Busy
<1>5. /\ One(job \in {"error"}) = One(upc[u] \in {"failing"}) /\ One(job \in {"close"}) = One(upc[u] \in {"closing"})
      /\ One("idle" \in {"failing"}) = 0 /\ One("idle" \in {"closing"}) = 0 /\ One(job \in {"connected"}) = 0
      /\ One(job \in {"error"}) \in Nat /\ One(job \in {"close"}) \in Nat
  BY <1>2 DEF One
<1>6. /\ JobsIn({"error"})' = JobsIn({"error"}) + One(job \in {"error"})
      /\ JobsIn({"close"})' = JobsIn({"close"}) + One(job \in {"close"})
      /\ JobsIn({"connected"})' = JobsIn({"connected"})
      /\ ThreadsIn({"failing"})' = ThreadsIn({"failing"}) - One(job \in {"error"})
      /\ ThreadsIn({"closing"})' = ThreadsIn({"closing"}) - One(job \in {"close"})
  BY <1>3, <1>4, <1>5, ToldNumbers DEF Inv
<1>7. Fresh'
  BY <1>1, <1>3, <1>6 DEF Fresh, Unannounced
<1>8. Errors' = Errors /\ Closes' = Closes /\ Closing' = Closing
  BY <1>1, <1>3, <1>5, <1>6, ToldNumbers DEF Inv, Errors, Closes, Closing
<1> QED
  BY <1>1, <1>7, <1>8 DEF OnceEach

LEMMA UserReleasesTells ==
  ASSUME Inv, Fresh, OnceEach, NEW u \in Users, UserReleases(u)
  PROVE  Fresh' /\ OnceEach'
<1>1. /\ upc[u] = "idle" /\ upc' = [upc EXCEPT ![u] = "out"]
      /\ UNCHANGED <<batch, tasks, todo, told, sendq, resumed, bits>>
  BY DEF UserReleases, loopVars
<1>2. \A S : JobsIn(S)' = JobsIn(S) /\ StepsIn(S)' = StepsIn(S)
  BY <1>1 DEF JobsIn, StepsIn
<1>3. ThreadsIn({"failing"})' = ThreadsIn({"failing"}) /\ ThreadsIn({"closing"})' = ThreadsIn({"closing"})
  <2>1. \A S : ThreadsIn(S)' = ThreadsIn(S) - One(upc[u] \in S) + One("out" \in S)
    BY <1>1, ThreadMoves DEF Inv, Doing
  <2>2. /\ One(upc[u] \in {"failing"}) = 0 /\ One("out" \in {"failing"}) = 0
        /\ One(upc[u] \in {"closing"}) = 0 /\ One("out" \in {"closing"}) = 0
    BY <1>1 DEF One
  <2> QED
    BY <2>1, <2>2, ToldNumbers DEF Inv
<1> QED
  BY <1>1, <1>2, <1>3 DEF Fresh, OnceEach, Unannounced, Errors, Closes, Closing

LEMMA ToldNext ==
  ASSUME Inv, Fresh, OnceEach, [Next]_vars
  PROVE  Fresh' /\ OnceEach'
<1>1. CASE PollEvent \/ HandleReadable \/ HandleWriteable
  <2>1. CASE bits' = bits
    BY <1>1, <2>1, SilentLoop, SilentHandlers
  <2>2. CASE bits' # bits
    BY <1>1, <2>2, FailuresTell
  <2> QED
    BY <2>1, <2>2
<1>2. CASE \/ PollNothing \/ NextIteration \/ RecvTimeout \/ Peer
  BY <1>2, SilentLoop
<1>3. CASE \/ Splice \/ CallbackShares \/ UNCHANGED vars
  BY <1>3, StillTold
<1>4. CASE RunJob \/ FireOnConnected \/ FireOnClose
  BY <1>4, RunJobTells, FireOnConnectedTells, FireOnCloseTells
<1>5. CASE RegisterHandle \/ RegisterFailed \/ FireDoWrite \/ Leave \/ ReleaseJob
  BY <1>5, SilentHandlers
<1>6. CASE CallbackReturns
  BY <1>6, SilentCallbacks, EndReturnsKeeps
<1>7. CASE \/ CallbackCloses \/ CallbackWrites \/ CallbackWritesDirectly \/ CallbackFails
           \/ pending_read \/ continue_read
  BY <1>7, SilentCallbacks
<1>8. CASE \E u \in Users : UserStarts(u) \/ UserPosts(u) \/ UserReleases(u)
  BY <1>8, UserStartsTells, UserPostsTells, UserReleasesTells
<1> QED
  BY <1>1, <1>2, <1>3, <1>4, <1>5, <1>6, <1>7, <1>8 DEF Next, LoopStep, FilterCall
-----------------------------------------------------------------------------
(* The variables of the contract, in the terms of the invariant.           *)
Callback == IF InCallback THEN Head(todo) ELSE "none"
Begun == {c \in Ends : told[c] > 0 \/ Is(c)} \cup (IF Unannounced > 0 THEN {} ELSE {"on_connected"})

LEMMA BegunIs ==
  ASSUME Types, Fresh
  PROVE  Begun = {c \in DOMAIN told : told[c] > 0 \/ Is(c)}
                   \cup (IF Count(Queued, {"connected"}) + Count(todo, {"announce"}) > 0
                         THEN {} ELSE {"on_connected"})
<1>1. Count(Queued, {"connected"}) = JobsIn({"connected"})
  BY CountConcat DEF Types, Queued, JobsIn
<1>2. DOMAIN told = Ends
  BY DEF Fresh
<1> QED
  BY <1>1, <1>2 DEF Begun, Unannounced, StepsIn

LEMMA BegunWillBe ==
  ASSUME Types', Fresh'
  PROVE  Begun' = ({c \in DOMAIN told : told[c] > 0 \/ Is(c)}
                   \cup (IF Count(Queued, {"connected"}) + Count(todo, {"announce"}) > 0
                         THEN {} ELSE {"on_connected"}))'
<1>1. Count(Queued, {"connected"})' = JobsIn({"connected"})'
  BY CountConcat DEF Types, Queued, JobsIn
<1>2. DOMAIN told' = Ends
  BY DEF Fresh
<1> QED
  BY <1>1, <1>2 DEF Begun, Unannounced, StepsIn

LEMMA ContractSteps ==
  ASSUME Types, Fresh, Types', Fresh'
  PROVE  /\ UNCHANGED <<Callback, Begun, deleted>> => UNCHANGED Contract!vars
         /\ /\ Begun = {} /\ Callback' = "on_connected" /\ Begun' = {"on_connected"}
            /\ deleted' = deleted
            => Contract!Next
         /\ /\ Begun = {"on_connected"} /\ ~deleted /\ Callback' \in {"on_read", "on_write"}
            /\ Begun' = Begun /\ deleted' = deleted
            => Contract!Next
         /\ \A c \in Ends :
              /\ "on_connected" \in Begun /\ c \notin Begun /\ ~deleted
              /\ Callback' = c /\ Begun' = Begun \cup {c} /\ deleted' = deleted
              => Contract!Next
         /\ Callback' = "none" /\ UNCHANGED <<Begun, deleted>> => Contract!Next
         /\ /\ Ends \subseteq Begun /\ Callback = "none" /\ deleted' = TRUE
            /\ UNCHANGED <<Callback, Begun>>
            => Contract!Next
<1>1. UNCHANGED <<Callback, Begun, deleted>> => UNCHANGED Contract!vars
  BY BegunIs, BegunWillBe DEF Callback, Contract!vars
<1>2. /\ Begun = {} /\ Callback' = "on_connected" /\ Begun' = {"on_connected"}
      /\ deleted' = deleted
      => Contract!Connect
  BY BegunIs, BegunWillBe DEF Callback, Contract!Connect
<1>3. /\ Begun = {"on_connected"} /\ ~deleted /\ Callback' \in {"on_read", "on_write"}
      /\ Begun' = Begun /\ deleted' = deleted
      => Contract!Deliver
  BY BegunIs, BegunWillBe DEF Callback, Contract!Deliver
<1>4. ASSUME NEW c \in Ends
      PROVE  /\ "on_connected" \in Begun /\ c \notin Begun /\ ~deleted
             /\ Callback' = c /\ Begun' = Begun \cup {c} /\ deleted' = deleted
             => Contract!End(c)
  BY BegunIs, BegunWillBe DEF Callback, Contract!End
<1>5. Callback' = "none" /\ UNCHANGED <<Begun, deleted>> => Contract!Return
  BY BegunIs, BegunWillBe DEF Callback, Contract!Return
<1>6. /\ Ends \subseteq Begun /\ Callback = "none" /\ deleted' = TRUE
      /\ UNCHANGED <<Callback, Begun>>
      => Contract!Delete
  BY BegunIs, BegunWillBe DEF Callback, Contract!Delete, Ends, Contract!Ends
<1>7. \A c \in Ends : Contract!End(c) => Contract!Next
  BY DEF Contract!Next, Ends, Contract!Ends
<1> QED
  BY <1>1, <1>2, <1>3, <1>4, <1>5, <1>6, <1>7 DEF Contract!Next
-----------------------------------------------------------------------------
(* What has been told, as the counts of OnceEach have it.                  *)
LEMMA HeadCounts ==
  ASSUME Types, todo # <<>>
  PROVE  /\ StepsIn({Head(todo)}) > 0
         /\ Tail(todo) # <<>> /\ Head(Tail(todo)) = Head(todo) => StepsIn({Head(todo)}) > 1
<1>1. /\ Count(todo, {Head(todo)}) = 1 + Count(Tail(todo), {Head(todo)})
      /\ Tail(todo) \in Seq(Steps)
  BY CountTail, HeadTailProperties DEF Types, One
<1>2. Count(Tail(todo), {Head(todo)}) \in Nat
  BY <1>1, CountType
<1>3. ASSUME Tail(todo) # <<>>, Head(Tail(todo)) = Head(todo)
      PROVE  Count(Tail(todo), {Head(todo)}) > 0
  <2>1. /\ Count(Tail(todo), {Head(todo)}) = 1 + Count(Tail(Tail(todo)), {Head(todo)})
        /\ Tail(Tail(todo)) \in Seq(Steps)
    BY <1>1, <1>3, CountTail, HeadTailProperties DEF One
  <2>2. Count(Tail(Tail(todo)), {Head(todo)}) \in Nat
    BY <2>1, CountType
  <2> QED
    BY <2>1, <2>2
<1> QED
  BY <1>1, <1>2, <1>3 DEF StepsIn

LEMMA OneOfEach ==
  ASSUME Inv, Fresh, OnceEach, ~resumed
  PROVE  /\ StepsIn({"on_error"}) + told["on_error"] + JobsIn({"error"}) <= 1
         /\ StepsIn({"on_closed"}) + told["on_closed"] <= 1
         /\ "error" \notin bits => StepsIn({"on_error"}) = 0 /\ told["on_error"] = 0
         /\ "close" \notin bits => StepsIn({"on_closed"}) = 0 /\ told["on_closed"] = 0
<1>1. /\ Errors = One("error" \in bits) /\ Closes = One("close" \in bits)
  BY DEF OnceEach
<1>2. /\ One("error" \in bits) <= 1 /\ One("close" \in bits) <= 1
      /\ One("error" \in bits) \in Nat /\ One("close" \in bits) \in Nat
      /\ "error" \notin bits => One("error" \in bits) = 0
      /\ "close" \notin bits => One("close" \in bits) = 0
  BY DEF One
<1>3. /\ StepsIn({"on_error"}) + told["on_error"] + JobsIn({"error"}) <= 1
      /\ "error" \notin bits => StepsIn({"on_error"}) = 0 /\ told["on_error"] = 0
  <2>1. JobsIn({"error"}) + ThreadsIn({"failing"}) + StepsIn({"on_error"}) + told["on_error"] = One("error" \in bits)
    BY <1>1 DEF Errors
  <2> QED
    BY <1>2, <2>1, ToldNumbers DEF Inv
<1>4. /\ StepsIn({"on_closed"}) + told["on_closed"] <= 1
      /\ "close" \notin bits => StepsIn({"on_closed"}) = 0 /\ told["on_closed"] = 0
  <2>1. JobsIn({"close"}) + ThreadsIn({"closing"}) + StepsIn({"on_closed"}) + told["on_closed"] = One("close" \in bits)
    BY <1>1 DEF Closes
  <2> QED
    BY <1>2, <2>1, ToldNumbers DEF Inv
<1> QED
  BY <1>3, <1>4

(* A step of the handler that is in the first place has been begun.        *)
LEMMA BegunOnce ==
  ASSUME Inv, Fresh, OnceEach, ~resumed, Unannounced = 0
  PROVE  /\ "on_connected" \in Begun
         /\ ~Dead => Begun = {"on_connected"}
         /\ "error" \notin bits => "on_error" \notin Begun
<1>1. \A c \in Ends : Is(c) => StepsIn({c}) > 0
  BY HeadCounts DEF Is, Inv
<1>2. "error" \notin bits => ~(told["on_error"] > 0 \/ Is("on_error"))
  BY <1>1, OneOfEach DEF Ends
<1>3. "close" \notin bits => ~(told["on_closed"] > 0 \/ Is("on_closed"))
  BY <1>1, OneOfEach DEF Ends
<1> QED
  BY <1>2, <1>3 DEF Begun, Ends, Dead

LEMMA SameUnannounced ==
  ASSUME Types, batch' = batch, tasks' = tasks \/ \E job \in Held : Execute(job)
  PROVE  JobsIn({"connected"})' = JobsIn({"connected"})
<1>1. CASE tasks' = tasks
  BY <1>1 DEF JobsIn
<1>2. CASE \E job \in Held : Execute(job)
  <2>1. PICK job \in Held : Execute(job)
    BY <1>2
  <2>2. JobsIn({"connected"})' = JobsIn({"connected"}) + One(job \in {"connected"})
    BY <2>1, ExecuteCounts DEF Held
  <2>3. One(job \in {"connected"}) = 0 /\ JobsIn({"connected"}) \in Nat
    BY CountsAreNumbers DEF One, Held
  <2> QED
    BY <2>2, <2>3
<1> QED
  BY <1>1, <1>2
-----------------------------------------------------------------------------
(* A step ends and on_closed() is called, or nothing.                      *)
LEMMA DoneContract ==
  ASSUME Inv, Follows(todo), Fresh, OnceEach, Types', Fresh', ~resumed,
         todo # <<>>, Head(todo) # "announce", Done, ~deleted, deleted' = deleted,
         JobsIn({"connected"})' = JobsIn({"connected"}),
         told' = IF Head(todo) \in Ends THEN [told EXCEPT ![Head(todo)] = told[Head(todo)] + 1] ELSE told
  PROVE  Contract!Next
<1>1. Unannounced = 0
  BY Announced
<1>2. Unannounced' = 0
  <2>1. StepsIn({"announce"})' = StepsIn({"announce"}) - One(Head(todo) \in {"announce"})
    BY DoneCounts DEF Inv
  <2>2. One(Head(todo) \in {"announce"}) = 0 /\ StepsIn({"announce"}) \in Nat
    BY CountsAreNumbers DEF One, Inv
  <2> QED
    BY <1>1, <2>1, <2>2 DEF Unannounced
<1>3. ASSUME todo' # <<>> PROVE Head(todo') \in Later
  BY <1>3, DoneFollows DEF Inv
<1>4. \A c \in Ends : told'[c] > 0 <=> told[c] > 0 \/ Is(c)
  BY DEF Fresh, Is
<1>5. Begun' = Begun \cup {c \in Ends : Is(c)'}
  BY <1>1, <1>2, <1>4 DEF Begun
<1>6. CASE todo' = <<>> \/ Head(todo') # "on_closed"
  <2>1. Callback' = "none" /\ Begun' = Begun
    BY <1>3, <1>5, <1>6 DEF Callback, InCallback, Idle, Later, Callbacks, Is, Ends
  <2> QED
    BY <2>1, ContractSteps DEF Inv
<1>7. CASE todo' # <<>> /\ Head(todo') = "on_closed"
  <2>1. Callback' = "on_closed" /\ Begun' = Begun \cup {"on_closed"}
    BY <1>5, <1>7 DEF Callback, InCallback, Idle, Callbacks, Is, Ends
  <2>2. "on_closed" \notin Begun
    <3>1. Head(todo) # "on_closed"
      <4> SUFFICES ASSUME Head(todo) = "on_closed" PROVE FALSE
        OBVIOUS
      <4>1. Tail(todo) # <<>> /\ Head(Tail(todo)) = Head(todo)
        BY <1>7 DEF Done
      <4>2. StepsIn({"on_closed"}) > 1
        <5>1. {Head(todo)} = {"on_closed"} /\ StepsIn({Head(todo)}) > 1
          BY <4>1, HeadCounts DEF Inv
        <5> QED
          BY <5>1
      <4>3. StepsIn({"on_closed"}) + told["on_closed"] <= 1
        BY OneOfEach
      <4> QED
        BY <4>2, <4>3, ToldNumbers DEF Inv
    <3>2. StepsIn({"on_closed"}) > 0
      <4>1. StepsIn({"on_closed"})' = StepsIn({"on_closed"}) - One(Head(todo) \in {"on_closed"})
        BY DoneCounts DEF Inv
      <4>2. StepsIn({"on_closed"})' > 0
        <5>1. /\ Count(todo', {"on_closed"}) = One(Head(todo') \in {"on_closed"}) + Count(Tail(todo'), {"on_closed"})
              /\ Tail(todo') \in Seq(Steps)
          BY <1>7, CountTail, HeadTailProperties DEF Types
        <5>2. Count(Tail(todo'), {"on_closed"}) \in Nat
          BY <5>1, CountType
        <5> QED
          BY <1>7, <5>1, <5>2 DEF StepsIn, One
      <4> QED
        BY <3>1, <4>1, <4>2, ToldNumbers DEF One, Inv
    <3>3. told["on_closed"] = 0
      BY <3>2, OneOfEach, ToldNumbers DEF Inv
    <3> QED
      BY <3>1, <3>3 DEF Begun, Ends, Is
  <2>3. "on_connected" \in Begun
    BY <1>1, BegunOnce
  <2> QED
    BY <2>1, <2>2, <2>3, ContractSteps DEF Inv, Ends
<1> QED
  BY <1>6, <1>7

(* A step brings a callback, or none.                                      *)
LEMMA ThenContract ==
  ASSUME Inv, Fresh, OnceEach, Types', Fresh', ~resumed,
         todo # <<>>, Head(todo) \notin Callbacks \cup {"announce"},
         NEW next \in {"register_failed", "on_read", "on_write", "on_error"}, Then(<<next>>),
         ~deleted, deleted' = deleted, told' = told,
         JobsIn({"connected"})' = JobsIn({"connected"}),
         next \in {"on_read", "on_write"} => ~Dead,
         next = "on_error" => "error" \notin bits
  PROVE  Contract!Next
<1>1. Unannounced = 0
  BY Announced
<1>2. <<next>> \in Seq(Steps) /\ Count(<<next>>, {"announce"}) = One(next \in {"announce"})
  BY CountSingle DEF Steps, Callbacks
<1>3. Unannounced' = 0
  <2>1. StepsIn({"announce"})' = StepsIn({"announce"}) - One(Head(todo) \in {"announce"}) + Count(<<next>>, {"announce"})
    BY <1>2, ThenCounts DEF Inv
  <2>2. /\ One(Head(todo) \in {"announce"}) = 0 /\ StepsIn({"announce"}) \in Nat
        /\ One(next \in {"announce"}) = 0
    BY CountsAreNumbers DEF One, Inv
  <2> QED
    BY <1>1, <1>2, <2>1, <2>2 DEF Unannounced
<1>4. todo' # <<>> /\ Head(todo') = next
  <2>1. todo' = <<next>> \o Tail(todo) /\ Tail(todo) \in Seq(Steps)
    BY HeadTailProperties DEF Then, Inv, Types
  <2> HIDE DEF Inv
  <2> QED
    BY <1>2, <2>1
<1>5. /\ Callback = "none" /\ \A c \in Ends : ~Is(c)
      /\ Callback' = (IF next \in Callbacks THEN next ELSE "none")
      /\ \A c \in Ends : Is(c)' <=> c = next
  BY <1>4 DEF Callback, InCallback, Idle, Is, Ends, Callbacks
<1>6. Begun' = IF next = "on_error" THEN Begun \cup {"on_error"} ELSE Begun
  BY <1>1, <1>3, <1>5 DEF Begun, Ends
<1>7. /\ "on_connected" \in Begun /\ (~Dead => Begun = {"on_connected"})
      /\ "error" \notin bits => "on_error" \notin Begun
  BY <1>1, BegunOnce
<1>8. CASE next = "register_failed"
  <2>1. Callback' = "none" /\ Begun' = Begun
    BY <1>5, <1>6, <1>8 DEF Callbacks
  <2> QED
    BY <2>1, ContractSteps DEF Inv
<1>9. CASE next \in {"on_read", "on_write"}
  <2>1. Callback' = next /\ Begun' = Begun /\ Begun = {"on_connected"}
    BY <1>5, <1>6, <1>7, <1>9 DEF Callbacks
  <2> QED
    BY <1>9, <2>1, ContractSteps DEF Inv
<1>10. CASE next = "on_error"
  <2>1. Callback' = "on_error" /\ Begun' = Begun \cup {"on_error"}
    BY <1>5, <1>6, <1>10 DEF Callbacks
  <2> QED
    BY <1>7, <1>10, <2>1, ContractSteps DEF Inv, Ends
<1> QED
  BY <1>8, <1>9, <1>10

(* A step in which the loop stays where it is.                             *)
LEMMA StillContract ==
  ASSUME Types, Fresh, Types', Fresh', UNCHANGED <<todo, told, deleted, batch>>,
         tasks' = tasks \/ \E job \in Held : Execute(job)
  PROVE  UNCHANGED Contract!vars
<1>1. Unannounced' = Unannounced
  BY SameUnannounced DEF Unannounced, StepsIn
<1>2. Callback' = Callback /\ Begun' = Begun
  BY <1>1 DEF Callback, InCallback, Idle, Begun, Is
<1> QED
  BY <1>2, ContractSteps

(* A deleted channel has told everything.                                  *)
LEMMA DeletedTold ==
  ASSUME Inv', Fresh', OnceEach', deleted', ~resumed'
  PROVE  /\ todo' = <<>> /\ Unannounced' = 0
         /\ told'["on_error"] > 0 /\ told'["on_closed"] > 0
<1>1. /\ JobsIn(Held)' = 0 /\ Unannounced' = 0 /\ active' = 0 /\ ThreadsIn(Busy)' = 0 /\ todo' = <<>>
  BY DEF Inv, Gone
<1>2. ThreadsIn({"closing"})' = 0 /\ ThreadsIn({"failing"})' = 0
  <2>1. {u \in Users : upc'[u] \in Busy} = {}
    BY <1>1, ChannelAssumption, FS_Subset, FS_EmptySet DEF ThreadsIn
  <2>2. {u \in Users : upc'[u] \in {"closing"}} = {} /\ {u \in Users : upc'[u] \in {"failing"}} = {}
    BY <2>1 DEF Busy
  <2> QED
    BY <2>2, FS_EmptySet DEF ThreadsIn
<1>3. JobsIn({"close"})' = 0 /\ JobsIn({"error"})' = 0
  <2>1. {"close"} \in SUBSET Held /\ {"error"} \in SUBSET Held
    BY DEF Held, Jobs
  <2>2. /\ Count(batch', {"close"}) <= Count(batch', Held) /\ Count(tasks', {"close"}) <= Count(tasks', Held)
        /\ Count(batch', {"error"}) <= Count(batch', Held) /\ Count(tasks', {"error"}) <= Count(tasks', Held)
    BY <2>1, CountMonotonic DEF Inv, Types
  <2>3. /\ Count(batch', {"close"}) \in Nat /\ Count(tasks', {"close"}) \in Nat
        /\ Count(batch', {"error"}) \in Nat /\ Count(tasks', {"error"}) \in Nat
        /\ Count(batch', Held) \in Nat /\ Count(tasks', Held) \in Nat
    BY CountType DEF Inv, Types
  <2> QED
    BY <1>1, <2>2, <2>3 DEF JobsIn
<1>4. \A S : StepsIn(S)' = 0
  BY <1>1, CountEmpty DEF StepsIn
<1>5. "close" \in bits'
  <2>1. JobsIn({"close"})' + ThreadsIn({"closing"})' + StepsIn({"leave"})' + 1 - active' - Unannounced' = One("close" \in bits)'
    BY DEF Inv, ClosedOnce
  <2>2. One("close" \in bits)' = 1
    BY <1>1, <1>2, <1>3, <1>4, <2>1
  <2> QED
    BY <2>2 DEF One
<1>6. Closes' = 1 /\ Errors' = 1
  <2>1. Closing' = 0
    BY <1>2, <1>3, <1>4 DEF Closing
  <2>2. "error" \in bits' /\ Errors' = One("error" \in bits)' /\ Closes' = One("close" \in bits)'
    BY <1>5, <2>1 DEF OnceEach
  <2> QED
    BY <1>5, <2>2 DEF One
<1>7. told'["on_error"] \in Nat /\ told'["on_closed"] \in Nat
  BY DEF Fresh, Ends
<1> QED
  BY <1>1, <1>2, <1>3, <1>4, <1>6, <1>7 DEF Closes, Errors

LEMMA DeletesContract ==
  ASSUME Inv, Fresh, Inv', Fresh', OnceEach', deleted', ~resumed', Unannounced = 0, told' = told,
         todo = <<>> \/ Head(todo) \in {"leave", "release"}
  PROVE  Contract!Next
<1>1. Callback = "none" /\ \A c \in Ends : ~Is(c)
  BY DEF Callback, InCallback, Idle, Callbacks, Is, Ends
<1>2. todo' = <<>> /\ Unannounced' = 0 /\ told["on_error"] > 0 /\ told["on_closed"] > 0
  BY DeletedTold
<1>3. Callback' = "none" /\ \A c \in Ends : ~Is(c)'
  BY <1>2 DEF Callback, InCallback, Idle, Is
<1>4. Begun' = Begun /\ Ends \subseteq Begun
  BY <1>1, <1>2, <1>3 DEF Begun, Ends
<1>5. deleted' = TRUE
  BY DEF Inv
<1> QED
  BY <1>1, <1>3, <1>4, <1>5, ContractSteps DEF Inv
-----------------------------------------------------------------------------
(* The inductive invariant of what the filters see.                        *)
Ordered == Inv /\ Follows(todo) /\ Stock /\ Watching /\ Fresh /\ OnceEach

LEMMA HandlersContract ==
  ASSUME Ordered, Ordered', ~resumed, ~resumed', ~deleted,
         \/ RegisterHandle \/ RegisterFailed \/ HandleReadable \/ HandleWriteable
         \/ FireDoWrite \/ FireOnClose
  PROVE  Contract!Next
<1>1. /\ todo # <<>> /\ Head(todo) \notin Callbacks \cup {"announce"}
      /\ UNCHANGED <<deleted, told, batch>> /\ Head(todo) \notin Ends
  BY DEF RegisterHandle, RegisterFailed, HandleReadable, HandleWriteable, FireDoWrite, FireOnClose,
     Is, Callbacks, Ends
<1>2. tasks' = tasks \/ \E job \in Held : Execute(job)
  <2>1. {"error", "send"} \subseteq Held
    BY DEF Held, Jobs
  <2> QED
    BY <2>1 DEF RegisterHandle, RegisterFailed, HandleReadable, HandleWriteable, FireDoWrite,
       FireOnClose, error_propagation, do_write, Post
<1>3. JobsIn({"connected"})' = JobsIn({"connected"})
  BY <1>1, <1>2, SameUnannounced DEF Ordered, Inv
<1>4. \/ Done
      \/ \E next \in {"register_failed", "on_read", "on_write", "on_error"} :
           /\ Then(<<next>>)
           /\ next \in {"on_read", "on_write"} => ~Dead
           /\ next = "on_error" => "error" \notin bits
  BY DEF RegisterHandle, RegisterFailed, HandleReadable, HandleWriteable, FireDoWrite, FireOnClose,
     FailNow
<1>5. CASE Done
  BY <1>1, <1>3, <1>5, DoneContract DEF Ordered, Inv
<1>6. CASE \E next \in {"register_failed", "on_read", "on_write", "on_error"} :
             /\ Then(<<next>>)
             /\ next \in {"on_read", "on_write"} => ~Dead
             /\ next = "on_error" => "error" \notin bits
  BY <1>1, <1>3, <1>6, ThenContract DEF Ordered, Inv
<1> QED
  BY <1>4, <1>5, <1>6

LEMMA EndsContract ==
  ASSUME Ordered, Ordered', ~resumed, ~resumed', ~deleted, Leave \/ ReleaseJob
  PROVE  Contract!Next
<1>1. /\ todo # <<>> /\ Head(todo) \in {"leave", "release"} /\ Done
      /\ UNCHANGED <<told, batch, tasks>>
  BY DEF Leave, ReleaseJob, Is
<1>2. CASE deleted'
  <2>1. Unannounced = 0
    BY <1>1, Announced DEF Ordered
  <2> QED
    BY <1>1, <1>2, <2>1, DeletesContract DEF Ordered
<1>3. CASE ~deleted'
  <2>1. deleted' = deleted
    BY <1>3 DEF Leave, ReleaseJob, Release, Ordered, Stock
  <2>2. JobsIn({"connected"})' = JobsIn({"connected"})
    BY <1>1 DEF JobsIn
  <2>3. Head(todo) \notin Ends \cup {"announce"}
    BY <1>1 DEF Ends
  <2> QED
    BY <1>1, <2>1, <2>2, <2>3, DoneContract DEF Ordered, Inv
<1> QED
  BY <1>2, <1>3

LEMMA ReturnsContract ==
  ASSUME Ordered, Ordered', ~resumed, ~resumed', ~deleted, CallbackReturns
  PROVE  Contract!Next
<1>1. /\ todo # <<>> /\ Head(todo) # "announce" /\ Done /\ UNCHANGED <<deleted, batch>>
  BY DEF CallbackReturns, InCallback, Idle, Callbacks
<1>2. tasks' = tasks \/ \E job \in Held : Execute(job)
  BY DEF CallbackReturns, close, Post, Held, Jobs
<1>3. JobsIn({"connected"})' = JobsIn({"connected"})
  BY <1>1, <1>2, SameUnannounced DEF Ordered, Inv
<1>4. told' = IF Head(todo) \in Ends THEN [told EXCEPT ![Head(todo)] = told[Head(todo)] + 1] ELSE told
  BY DEF CallbackReturns, Ordered, Fresh
<1> QED
  BY <1>1, <1>3, <1>4, DoneContract DEF Ordered, Inv

LEMMA FireOnConnectedContract ==
  ASSUME Ordered, Ordered', ~resumed, ~resumed', ~deleted, FireOnConnected
  PROVE  Contract!Next
<1>1. /\ todo # <<>> /\ Head(todo) = "announce" /\ Then(<<"on_connected">>)
      /\ UNCHANGED <<deleted, told>> /\ active' = active + 1
  BY DEF FireOnConnected, Is
<1>2. Unannounced > 0
  <2>1. Count(todo, {"announce"}) = One(Head(todo) \in {"announce"}) + Count(Tail(todo), {"announce"})
    BY <1>1, CountTail DEF Ordered, Inv, Types
  <2>2. Tail(todo) \in Seq(Steps) /\ Count(Tail(todo), {"announce"}) \in Nat
    BY <1>1, HeadTailProperties, CountType DEF Ordered, Inv, Types
  <2>3. JobsIn({"connected"}) \in Nat
    BY CountsAreNumbers DEF Ordered, Inv
  <2> QED
    BY <1>1, <2>1, <2>2, <2>3 DEF StepsIn, One, Unannounced
<1>3. todo = <<"announce">> /\ active = 0 /\ told["on_error"] = 0 /\ told["on_closed"] = 0
  BY <1>1, <1>2 DEF Ordered, Inv, Untouched, Fresh
<1>4. todo' # <<>> /\ Head(todo') = "on_connected"
  BY <1>1, <1>3 DEF Then
<1>5. Unannounced' = 0
  <2>1. active' + Unannounced' <= 1 /\ active' = 1
    BY <1>1, <1>3 DEF Ordered, Inv, ClosedOnce
  <2>2. JobsIn({"connected"})' \in Nat /\ StepsIn({"announce"})' \in Nat
    <3>1. /\ Count(batch', {"connected"}) \in Nat /\ Count(tasks', {"connected"}) \in Nat
          /\ Count(todo', {"announce"}) \in Nat
      BY CountType DEF Ordered, Inv, Types
    <3> QED
      BY <3>1 DEF JobsIn, StepsIn
  <2> QED
    BY <2>1, <2>2 DEF Unannounced
<1>6. /\ Callback' = "on_connected"
      /\ \A c \in Ends : ~Is(c) /\ ~Is(c)'
  BY <1>3, <1>4 DEF Callback, InCallback, Idle, Callbacks, Is, Ends
<1>7. Begun = {} /\ Begun' = {"on_connected"}
  BY <1>1, <1>2, <1>3, <1>5, <1>6 DEF Begun, Ends
<1> QED
  BY <1>1, <1>6, <1>7, ContractSteps DEF Ordered, Inv

LEMMA RunJobContract ==
  ASSUME Ordered, Ordered', ~resumed, ~resumed', ~deleted, RunJob
  PROVE  Contract!Next \/ UNCHANGED Contract!vars
<1> DEFINE job == Head(batch)
<1>1. /\ todo = <<>> /\ batch # <<>> /\ batch \in Seq(Jobs) /\ job \in Jobs
      /\ batch' = Tail(batch) /\ todo' = Handler(job)
      /\ UNCHANGED <<tasks, told, deleted>>
  BY HeadTailProperties DEF RunJob, Idle, Ordered, Inv, Types
<1> HIDE DEF job
<1>2. ASSUME NEW S
      PROVE  JobsIn(S) = JobsIn(S)' + One(job \in S) /\ JobsIn(S)' \in Nat /\ One(job \in S) \in Nat
  <2>1. Count(batch, S) = One(job \in S) + Count(batch', S)
    BY <1>1, CountTail DEF job
  <2>2. Count(batch', S) \in Nat /\ Count(tasks, S) \in Nat /\ One(job \in S) \in Nat
    BY <1>1, CountType DEF One, Ordered, Inv, Types
  <2> QED
    BY <1>1, <2>1, <2>2 DEF JobsIn
<1>3. Unannounced' = Unannounced
  <2>1. StepsIn({"announce"})' = One(job \in {"connected"}) /\ StepsIn({"announce"}) = 0
    BY <1>1, HandlerCounts, CountEmpty DEF StepsIn
  <2>2. JobsIn({"connected"}) = JobsIn({"connected"})' + One(job \in {"connected"})
    BY <1>2
  <2>3. JobsIn({"connected"})' \in Nat /\ One(job \in {"connected"}) \in Nat
    BY <1>2
  <2> QED
    BY <2>1, <2>2, <2>3 DEF Unannounced
<1>4. /\ Callback = "none" /\ \A c \in Ends : ~Is(c)
      /\ todo' # <<>>
      /\ Head(todo') \in {"announce", "do_write", "register", "release", "writeable", "closing", "on_error"}
      /\ Head(todo') = "on_error" <=> job = "error"
  <2>1. Callback = "none" /\ \A c \in Ends : ~Is(c)
    BY <1>1 DEF Callback, InCallback, Idle, Is
  <2> QED
    BY <1>1, <2>1, HandlerIs DEF Jobs
<1>5. CASE job # "error"
  <2>1. Callback' = "none" /\ \A c \in Ends : ~Is(c)'
    BY <1>4, <1>5 DEF Callback, InCallback, Idle, Callbacks, Is, Ends
  <2>2. Begun' = Begun
    BY <1>1, <1>3, <1>4, <2>1 DEF Begun
  <2> QED
    BY <1>1, <2>1, <2>2, ContractSteps DEF Ordered, Inv
<1>6. CASE job = "error"
  <2>1. JobsIn(Held) > 0 /\ JobsIn({"error"}) > 0
    <3>1. One(job \in Held) = 1 /\ One(job \in {"error"}) = 1
      BY <1>6 DEF One, Held, Jobs
    <3>2. JobsIn(Held) = JobsIn(Held)' + One(job \in Held) /\ JobsIn(Held)' \in Nat
      BY <1>2
    <3>3. JobsIn({"error"}) = JobsIn({"error"})' + One(job \in {"error"}) /\ JobsIn({"error"})' \in Nat
      BY <1>2
    <3> QED
      BY <3>1, <3>2, <3>3
  <2>2. Unannounced = 0
    <3>1. JobsIn({"connected"}) \in Nat /\ StepsIn({"announce"}) \in Nat
      BY CountsAreNumbers DEF Ordered, Inv
    <3> QED
      BY <2>1, <3>1 DEF Ordered, Inv, Untouched, Unannounced
  <2>3. told["on_error"] = 0
    <3>1. StepsIn({"on_error"}) + told["on_error"] + JobsIn({"error"}) <= 1
      BY OneOfEach DEF Ordered
    <3>2. StepsIn({"on_error"}) \in Nat /\ told["on_error"] \in Nat /\ JobsIn({"error"}) \in Nat
      BY ToldNumbers DEF Ordered, Inv
    <3> QED
      BY <2>1, <3>1, <3>2
  <2>4. Callback' = "on_error" /\ Is("on_error")' /\ ~Is("on_closed")'
    BY <1>4, <1>6 DEF Callback, InCallback, Idle, Callbacks, Is
  <2>5. "on_connected" \in Begun /\ "on_error" \notin Begun /\ Begun' = Begun \cup {"on_error"}
    BY <1>1, <1>3, <1>4, <2>2, <2>3, <2>4 DEF Begun, Ends
  <2> QED
    BY <1>1, <2>4, <2>5, ContractSteps DEF Ordered, Inv, Ends
<1> QED
  BY <1>5, <1>6

LEMMA PollEventContract ==
  ASSUME Ordered, Ordered', ~resumed, ~resumed', ~deleted, PollEvent
  PROVE  Contract!Next \/ UNCHANGED Contract!vars
<1>1. /\ todo = <<>> /\ active = 1
      /\ UNCHANGED <<batch, tasks, told, deleted>>
  BY DEF PollEvent, Idle, Watched
<1>2. Unannounced = 0
  BY <1>1, Announced DEF Ordered
<1>3. Callback = "none" /\ \A c \in Ends : ~Is(c)
  BY <1>1 DEF Callback, InCallback, Idle, Is
<1>4. /\ todo' \in {<<>>, <<"on_error">>, <<"register">>, <<"readable", "register">>,
                    <<"writeable", "register">>, <<"readable", "writeable", "register">>}
      /\ todo' # <<>> => ~Dead
  BY <1>1, EventStarts DEF PollEvent
<1>5. Unannounced' = 0
  <2>1. /\ <<>> \in Seq(Steps \ {"announce"}) /\ <<"on_error">> \in Seq(Steps \ {"announce"})
        /\ <<"register">> \in Seq(Steps \ {"announce"}) /\ <<"readable", "register">> \in Seq(Steps \ {"announce"})
        /\ <<"writeable", "register">> \in Seq(Steps \ {"announce"})
        /\ <<"readable", "writeable", "register">> \in Seq(Steps \ {"announce"})
    BY DEF Steps, Callbacks
  <2>2. todo' \in Seq(Steps \ {"announce"})
    BY <1>4, <2>1
  <2>3. {"announce"} \cap (Steps \ {"announce"}) = {}
    OBVIOUS
  <2>4. Count(todo', {"announce"}) = 0
    BY <2>2, <2>3, CountNone
  <2>5. Count(todo, {"announce"}) = 0
    BY <1>1, CountEmpty
  <2> QED
    BY <1>1, <1>2, <2>4, <2>5 DEF Unannounced, StepsIn, JobsIn
<1>6. CASE todo' # <<"on_error">>
  <2>1. Callback' = "none" /\ \A c \in Ends : ~Is(c)'
    BY <1>4, <1>6 DEF Callback, InCallback, Idle, Callbacks, Is, Ends
  <2>2. Begun' = Begun
    BY <1>1, <1>2, <1>3, <1>5, <2>1 DEF Begun
  <2> QED
    BY <1>1, <2>1, <2>2, ContractSteps DEF Ordered, Inv
<1>7. CASE todo' = <<"on_error">>
  <2>1. Callback' = "on_error" /\ Is("on_error")' /\ ~Is("on_closed")'
    BY <1>7 DEF Callback, InCallback, Idle, Callbacks, Is
  <2>2. "on_connected" \in Begun /\ "on_error" \notin Begun
    BY <1>2, <1>4, <1>7, BegunOnce DEF Ordered, Dead
  <2>3. Begun' = Begun \cup {"on_error"}
    BY <1>1, <1>2, <1>3, <1>5, <2>1 DEF Begun, Ends
  <2> QED
    BY <1>1, <2>1, <2>2, <2>3, ContractSteps DEF Ordered, Inv, Ends
<1> QED
  BY <1>6, <1>7
-----------------------------------------------------------------------------
LEMMA UsersContract ==
  ASSUME Ordered, Ordered', ~resumed, ~resumed', NEW u \in Users,
         UserStarts(u) \/ UserPosts(u) \/ UserReleases(u)
  PROVE  Contract!Next \/ UNCHANGED Contract!vars
<1>1. UNCHANGED <<todo, told, batch>>
  BY DEF UserStarts, UserPosts, UserReleases, loopVars
<1>2. tasks' = tasks \/ \E job \in Held : Execute(job)
  BY DEF UserStarts, UserPosts, UserReleases, loopVars, Post, Held, Jobs
<1>3. CASE deleted' = deleted
  BY <1>1, <1>2, <1>3, StillContract DEF Ordered, Inv
<1>4. CASE deleted' # deleted
  <2>1. upc[u] \in Busy /\ deleted'
    BY <1>4 DEF UserStarts, UserPosts, UserReleases, Release, Busy, Ordered, Stock
  <2>2. Unannounced = 0
    BY <2>1, ThreadHolds DEF Ordered
  <2>3. todo = <<>>
    BY <1>1, <2>1, DeletedTold DEF Ordered
  <2> QED
    BY <1>1, <2>1, <2>2, <2>3, DeletesContract DEF Ordered
<1> QED
  BY <1>3, <1>4

LEMMA StutterContract ==
  ASSUME Ordered, Ordered', ~resumed, ~resumed',
         \/ PollNothing \/ NextIteration \/ RecvTimeout \/ FilterCall \/ Peer \/ UNCHANGED vars
  PROVE  UNCHANGED Contract!vars
<1>1. CASE PollNothing \/ NextIteration \/ RecvTimeout \/ Peer \/ UNCHANGED vars
  <2>1. UNCHANGED <<todo, told, deleted, batch>>
    BY <1>1 DEF PollNothing, NextIteration, RecvTimeout, Peer, PeerSends, PeerReceives, PeerCloses,
       ConnectionBreaks, loopVars, vars
  <2>2. tasks' = tasks \/ \E job \in Held : Execute(job)
    BY <1>1 DEF PollNothing, NextIteration, RecvTimeout, Peer, PeerSends, PeerReceives, PeerCloses,
       ConnectionBreaks, loopVars, vars, error_propagation, Post, Held, Jobs
  <2> QED
    BY <2>1, <2>2, StillContract DEF Ordered, Inv
<1>2. CASE FilterCall
  <2>1. UNCHANGED <<todo, told, deleted, batch>>
    BY <1>2 DEF FilterCall, CallbackCloses, CallbackWrites, CallbackWritesDirectly, CallbackFails,
       pending_read, continue_read, CallbackShares, loopVars
  <2>2. \E job \in Jobs : tasks' = tasks \/ (Execute(job) /\ job \in Held)
    BY <1>2 DEF FilterCall, CallbackCloses, CallbackWrites, CallbackWritesDirectly, CallbackFails,
       pending_read, continue_read, CallbackShares, loopVars, close, do_write, error_propagation,
       Post, Held, Jobs
  <2> QED
    BY <2>1, <2>2, StillContract DEF Ordered, Inv
<1> QED
  BY <1>1, <1>2

LEMMA SpliceContract ==
  ASSUME Ordered, Ordered', Splice
  PROVE  UNCHANGED Contract!vars
<1>1. UNCHANGED <<todo, told, deleted>> /\ batch' = tasks /\ tasks' = <<>> /\ batch = <<>>
  BY DEF Splice, Ordered, Inv, Types
<1>2. JobsIn({"connected"})' = JobsIn({"connected"})
  <2>1. Count(<<>>, {"connected"}) = 0 /\ Count(tasks, {"connected"}) \in Nat
    BY CountEmpty, CountType DEF Ordered, Inv, Types
  <2> QED
    BY <1>1, <2>1 DEF JobsIn
<1>3. Callback' = Callback /\ Begun' = Begun
  BY <1>1, <1>2 DEF Callback, InCallback, Idle, Begun, Is, Unannounced, StepsIn
<1> QED
  BY <1>1, <1>3, ContractSteps DEF Ordered, Inv

(* Every step is a step of the contract.                                   *)
LEMMA NextContract ==
  ASSUME Ordered, Ordered', [Next]_vars
  PROVE  [Contract!Next \/ resumed']_(Contract!vars)
<1>1. CASE resumed'
  BY <1>1
<1>2. CASE ~resumed'
  <2>1. ~resumed
    <3>1. resumed => resumed'
      BY DEF Next, LoopStep, PollEvent, PollNothing, Splice, NextIteration, RunJob, FireOnConnected,
         RegisterHandle, RegisterFailed, HandleReadable, HandleWriteable, FireDoWrite, FireOnClose,
         Leave, ReleaseJob, CallbackReturns, RecvTimeout, FilterCall, CallbackCloses, CallbackWrites,
         CallbackWritesDirectly, CallbackFails, pending_read, continue_read, CallbackShares, Peer,
         PeerSends, PeerReceives, PeerCloses, ConnectionBreaks, UserStarts, UserPosts, UserReleases, vars
    <3> QED
      BY <1>2, <3>1
  <2>2. CASE ~deleted /\ LoopStep
    BY <1>2, <2>1, <2>2, HandlersContract, EndsContract, ReturnsContract, FireOnConnectedContract,
       RunJobContract, PollEventContract, StutterContract, SpliceContract DEF LoopStep
  <2>3. CASE RecvTimeout \/ FilterCall \/ Peer \/ UNCHANGED vars
    BY <1>2, <2>1, <2>3, StutterContract
  <2>4. CASE \E u \in Users : UserStarts(u) \/ UserPosts(u) \/ UserReleases(u)
    BY <1>2, <2>1, <2>4, UsersContract
  <2> QED
    BY <2>2, <2>3, <2>4 DEF Next
<1> QED
  BY <1>1, <1>2
-----------------------------------------------------------------------------
LEMMA OrderedInit == Init => Ordered /\ Contract!Init
<1> SUFFICES ASSUME Init PROVE Ordered /\ Contract!Init
  OBVIOUS
<1>1. Inv
  BY InitInv
<1>2. /\ sendq = 0 /\ bits = {} /\ active = 0 /\ batch = <<>> /\ ~resumed /\ deleted = FALSE
      /\ told = [c \in Ends |-> 0] /\ upc = [u \in Users |-> "out"] /\ room = MaxRoom
      /\ \/ tasks = <<"connected">> /\ todo = <<>>
         \/ tasks = <<>> /\ todo = <<"announce">>
  BY DEF Init, Ends
<1>3. Follows(todo)
  BY <1>2 DEF Follows
<1>4. Stock
  BY <1>2, ChannelAssumption DEF Stock
<1>10. Watching
  BY <1>2 DEF Watching
<1>5. Fresh
  BY <1>2 DEF Fresh, Ends
<1>6. \A S : JobsIn(S) = One(tasks # <<>> /\ "connected" \in S) /\ StepsIn(S) = One(todo # <<>> /\ "announce" \in S)
  <2>1. \A S : /\ Count(<<"connected">>, S) = One("connected" \in S) /\ Count(<<"announce">>, S) = One("announce" \in S)
               /\ Count(<<>>, S) = 0
    BY CountSingle, CountEmpty
  <2> QED
    BY <1>2, <2>1 DEF JobsIn, StepsIn, One
<1>7. ThreadsIn({"failing"}) = 0 /\ ThreadsIn({"closing"}) = 0
  <2>1. {u \in Users : upc[u] \in {"failing"}} = {} /\ {u \in Users : upc[u] \in {"closing"}} = {}
    BY <1>2
  <2> QED
    BY <2>1, FS_EmptySet DEF ThreadsIn
<1>8. OnceEach
  BY <1>2, <1>6, <1>7 DEF OnceEach, Errors, Closes, Closing, One, Ends
<1>9. Contract!Init
  <2>1. Unannounced = 1
    BY <1>2, <1>6 DEF Unannounced, One
  <2>2. Begun = {}
    BY <1>2, <2>1 DEF Begun, Is, Ends
  <2> QED
    BY <1>1, <1>2, <1>5, <2>2, BegunIs DEF Contract!Init, InCallback, Idle, Callbacks, Inv
<1> QED
  BY <1>1, <1>3, <1>4, <1>5, <1>8, <1>9, <1>10 DEF Ordered

LEMMA OrderedNext == Ordered /\ [Next]_vars => Ordered'
<1> SUFFICES ASSUME Ordered, [Next]_vars PROVE Ordered'
  OBVIOUS
<1>1. Inv'
  BY NextInv DEF Ordered
<1>2. Follows(todo)'
  BY FollowsNext DEF Ordered, Inv
<1>3. Stock' /\ Watching'
  BY StockNext, WatchingNext DEF Ordered
<1>4. Fresh' /\ OnceEach'
  BY ToldNext DEF Ordered
<1> QED
  BY <1>1, <1>2, <1>3, <1>4 DEF Ordered

(* Between its handlers a live channel is watched for what it waits for:   *)
(* what _register_handle() computed last is what the pause and the queue   *)
(* ask for now, or a send job will see to it.                              *)
THEOREM WatchedForWorkTheorem == Spec => []WatchedForWork
<1>1. Ordered => WatchedForWork
  <2> SUFFICES ASSUME Ordered PROVE WatchedForWork
    OBVIOUS
  <2>1. Count(Queued, {"send"}) = JobsIn({"send"})
    BY CountConcat DEF Ordered, Inv, Types, Queued, JobsIn
  <2>2. Idle => StepsIn({"register"}) = 0
    BY CountEmpty DEF Idle, StepsIn
  <2> QED
    BY <2>1, <2>2 DEF Ordered, Watching, WatchedForWork
<1> QED
  BY <1>1, OrderedInit, OrderedNext, PTL DEF Spec

(* The channel keeps what every channel promises its filters: the steps of *)
(* the handlers, whatever other threads and filters do between them, are   *)
(* steps of the contract.                                                  *)
THEOREM KeepsContractTheorem == Spec => KeepsContract
<1>1. Ordered /\ Ordered' /\ [Next]_vars => [Contract!Next \/ resumed']_(Contract!vars)
  BY NextContract
<1> QED
  BY <1>1, OrderedInit, OrderedNext, PTL DEF Spec, KeepsContract
-----------------------------------------------------------------------------
(* One send job at a time.  The job is queued with the first message, so   *)
(* it must have run, or the socket must not be watched for output, before  *)
(* the queue is emptied and filled again.                                  *)
Writing == {"writeable", "on_write", "register"}

Sends ==
  ~resumed =>
    /\ JobsIn({"register"}) = 0 /\ JobsIn({"send"}) <= 1
    /\ sendq = 0 => JobsIn({"send"}) = 0
    /\ StepsIn({"writeable"}) <= 1
    /\ ~Dead /\ StepsIn({"writeable"}) > 0 => JobsIn({"send"}) = 0 /\ sendq > 0
    /\ ~Dead /\ phase # "timers" /\ StepsIn(Writing) > 0 => JobsIn({"send"}) = 0
    /\ ~Dead /\ "out" \in reg => sendq > 0 \/ StepsIn({"register"}) > 0
    /\ ~Dead /\ "out" \in reg /\ phase # "timers" => Count(tasks, {"send"}) = 0

(* Input is handled before the timers; what writes from a callback or a    *)
(* job is not followed by output.                                          *)
Places ==
  /\ Is("readable") \/ Is("on_read") => phase = "timers"
  /\ Is("on_connected") \/ Is("do_write") => StepsIn(Writing) = 0

LEMMA SendNumbers ==
  ASSUME Types
  PROVE  /\ JobsIn({"send"}) \in Nat /\ JobsIn({"register"}) \in Nat
         /\ StepsIn({"writeable"}) \in Nat /\ StepsIn(Writing) \in Nat /\ StepsIn({"register"}) \in Nat
         /\ Count(tasks, {"send"}) \in Nat /\ Count(batch, {"send"}) \in Nat
         /\ JobsIn({"send"}) = Count(batch, {"send"}) + Count(tasks, {"send"})
BY CountsAreNumbers DEF JobsIn

(* The handler goes on, and neither output nor the registration is reached *)
(* or left behind.                                                         *)
GoesOn ==
  \/ todo' = todo
  \/ /\ todo # <<>> /\ Head(todo) # "register"
     /\ Done \/ \E next \in Steps \ Writing : Then(<<next>>)

LEMMA GoesOnCounts ==
  ASSUME Types, GoesOn
  PROVE  /\ StepsIn({"writeable"})' <= StepsIn({"writeable"}) /\ StepsIn({"writeable"})' \in Nat
         /\ StepsIn(Writing)' <= StepsIn(Writing) /\ StepsIn(Writing)' \in Nat
         /\ StepsIn({"register"})' = StepsIn({"register"})
<1> USE SendNumbers
<1>1. CASE todo' = todo
  BY <1>1 DEF StepsIn
<1>2. CASE todo # <<>> /\ Head(todo) # "register" /\ Done
  <2>1. ASSUME NEW S
        PROVE  StepsIn(S)' = StepsIn(S) - One(Head(todo) \in S) /\ StepsIn(S)' \in Nat
    BY <1>2, DoneCounts
  <2>2. \A S : One(Head(todo) \in S) \in Nat
    BY DEF One
  <2>3. One(Head(todo) \in {"register"}) = 0
    BY <1>2 DEF One
  <2> QED
    BY <2>1, <2>2, <2>3
<1>3. CASE todo # <<>> /\ Head(todo) # "register" /\ \E next \in Steps \ Writing : Then(<<next>>)
  <2>1. PICK next \in Steps \ Writing : Then(<<next>>)
    BY <1>3
  <2>2. <<next>> \in Seq(Steps) /\ \A S : Count(<<next>>, S) = One(next \in S)
    BY CountSingle
  <2>3. ASSUME NEW S
        PROVE  StepsIn(S)' = StepsIn(S) - One(Head(todo) \in S) + Count(<<next>>, S) /\ StepsIn(S)' \in Nat
    BY <1>3, <2>1, <2>2, ThenCounts
  <2>4. /\ One(Head(todo) \in {"register"}) = 0 /\ \A S : One(Head(todo) \in S) \in Nat
        /\ One(next \in {"register"}) = 0 /\ One(next \in {"writeable"}) = 0 /\ One(next \in Writing) = 0
    BY <1>3 DEF One, Writing
  <2> QED
    BY <2>2, <2>3, <2>4
<1> QED
  BY <1>1, <1>2, <1>3 DEF GoesOn

(* A step that queues no send job and sends nothing.                       *)
LEMMA SendsStay ==
  ASSUME Types, Sends, GoesOn, batch' = batch, sendq' = sendq, sendq \in Nat,
         tasks' = tasks \/ \E job \in Jobs \ {"send", "register"} : Execute(job),
         resumed => resumed', ~resumed' => (~Dead' => ~Dead),
         phase' # "timers" => phase # "timers",
         "out" \in reg' => "out" \in reg
  PROVE  Sends'
<1>1. /\ JobsIn({"send"})' = JobsIn({"send"}) /\ JobsIn({"register"})' = JobsIn({"register"})
      /\ Count(tasks, {"send"})' = Count(tasks, {"send"})
  <2>1. CASE tasks' = tasks
    BY <2>1 DEF JobsIn
  <2>2. CASE \E job \in Jobs \ {"send", "register"} : Execute(job)
    <3>1. PICK job \in Jobs \ {"send", "register"} : Execute(job)
      BY <2>2
    <3>2. \A S : JobsIn(S)' = JobsIn(S) + One(job \in S)
      BY <3>1, ExecuteCounts
    <3>3. Count(Append(tasks, job), {"send"}) = Count(tasks, {"send"}) + One(job \in {"send"})
      BY CountAppend DEF Types
    <3>4. One(job \in {"send"}) = 0 /\ One(job \in {"register"}) = 0
      BY DEF One
    <3> QED
      BY <3>1, <3>2, <3>3, <3>4, SendNumbers DEF Execute
  <2> QED
    BY <2>1, <2>2
<1>2. /\ StepsIn({"writeable"})' <= StepsIn({"writeable"}) /\ StepsIn({"writeable"})' \in Nat
      /\ StepsIn(Writing)' <= StepsIn(Writing) /\ StepsIn(Writing)' \in Nat
      /\ StepsIn({"register"})' = StepsIn({"register"})
  BY GoesOnCounts
<1> QED
  BY <1>1, <1>2, SendNumbers DEF Sends

LEMMA PlacesNext ==
  ASSUME Inv, Follows(todo), Places, [Next]_vars
  PROVE  Places'
<1>1. CASE todo' = todo /\ (phase' = phase \/ todo = <<>>)
  BY <1>1 DEF Places, Is, StepsIn
<1>2. CASE todo # <<>> /\ Done
  <2>1. todo' # <<>> => Head(todo') \in Later
    BY <1>2, DoneFollows DEF Inv
  <2> QED
    BY <2>1 DEF Places, Is, Later
<1>3. CASE todo # <<>> /\ phase' = phase /\ \E pair \in Replaces : Head(todo) = pair[1] /\ Then(<<pair[2]>>)
  <2>1. PICK pair \in Replaces : Head(todo) = pair[1] /\ Then(<<pair[2]>>)
    BY <1>3
  <2>2. <<pair[1], pair[2]>> \in Replaces
    BY DEF Replaces
  <2>3. todo' # <<>> /\ Head(todo') = pair[2]
    BY <1>3, <2>1, <2>2, ThenFollows DEF Inv
  <2>4. CASE pair[1] = "announce"
    <3>1. todo = <<"announce">> /\ pair[2] = "on_connected"
      <4>1. Unannounced > 0
        <5>1. StepsIn({"announce"}) > 0
          BY <1>3, <2>1, <2>4, HeadCounts DEF Inv
        <5> QED
          BY <5>1, CountsAreNumbers DEF Inv, Unannounced
      <4> QED
        BY <1>3, <2>4, <4>1 DEF Inv, Untouched, Replaces
    <3>2. todo' = <<"on_connected">>
      BY <2>1, <3>1 DEF Then
    <3>3. StepsIn(Writing)' = 0
      <4>1. Count(<<"on_connected">>, Writing) = One("on_connected" \in Writing)
        BY CountSingle
      <4> QED
        BY <3>2, <4>1 DEF StepsIn, One, Writing
    <3> QED
      BY <3>2, <3>3 DEF Places, Is
  <2>5. CASE pair[1] # "announce"
    BY <1>3, <2>1, <2>3, <2>5 DEF Places, Is, Replaces
  <2> QED
    BY <2>4, <2>5
<1>4. CASE RunJob /\ batch # <<>> /\ Head(batch) \in Jobs /\ todo' = Handler(Head(batch))
  <2>1. CASE Head(batch) = "write"
    <3>1. todo' = <<"do_write", "release">> /\ <<"do_write", "release">> \in Seq({"do_write", "release"})
      BY <1>4, <2>1, HandlerIs
    <3>2. Writing \cap {"do_write", "release"} = {}
      BY DEF Writing
    <3>3. StepsIn(Writing)' = 0
      BY <3>1, <3>2, CountNone DEF StepsIn
    <3> QED
      BY <3>1, <3>3 DEF Places, Is
  <2>2. CASE Head(batch) # "write"
    <3>1. Head(todo') \in {"announce", "register", "release", "writeable", "closing", "on_error"}
      BY <1>4, <2>2, HandlerIs DEF Jobs
    <3> QED
      BY <3>1 DEF Places, Is
  <2> QED
    BY <2>1, <2>2
<1>5. CASE PollEvent
  <2>1. phase' = "timers" /\ todo = <<>>
    BY <1>5 DEF PollEvent, Idle
  <2>2. todo' # <<>> => Head(todo') \in {"on_error", "register", "readable", "writeable"}
    BY <1>5, <2>1, EventStarts
  <2> QED
    BY <2>1, <2>2 DEF Places, Is
<1>6. phase' = phase \/ todo = <<>>
  BY DEF Next, LoopStep, PollEvent, PollNothing, Splice, NextIteration, RunJob, FireOnConnected,
     RegisterHandle, RegisterFailed, HandleReadable, HandleWriteable, FireDoWrite, FireOnClose,
     Leave, ReleaseJob, CallbackReturns, RecvTimeout, FilterCall, CallbackCloses, CallbackWrites,
     CallbackWritesDirectly, CallbackFails, pending_read, continue_read, CallbackShares, Peer,
     PeerSends, PeerReceives, PeerCloses, ConnectionBreaks, UserStarts, UserPosts, UserReleases,
     loopVars, vars, Idle
<1> QED
  BY <1>1, <1>2, <1>3, <1>4, <1>5, <1>6, TodoMoves DEF Inv
-----------------------------------------------------------------------------
(* do_write() in the handler of a job, or in a callback.                   *)
LEMMA DirectWriteSends ==
  ASSUME Types, Stock, Sends, Places, do_write, GoesOn,
         todo # <<>>, Head(todo) \in {"on_connected", "on_read", "do_write"},
         UNCHANGED <<bits, reg, phase, batch, resumed>>
  PROVE  Sends'
<1> SUFFICES ASSUME ~resumed PROVE Sends'
  BY DEF Sends
<1>1. /\ StepsIn({"writeable"})' <= StepsIn({"writeable"}) /\ StepsIn({"writeable"})' \in Nat
      /\ StepsIn(Writing)' <= StepsIn(Writing) /\ StepsIn(Writing)' \in Nat
      /\ StepsIn({"register"})' = StepsIn({"register"})
  BY GoesOnCounts
<1>2. sendq' = sendq + 1 /\ sendq \in Nat
  BY DEF do_write, Stock
<1>3. CASE sendq # 0
  <2>1. tasks' = tasks
    BY <1>3 DEF do_write
  <2>2. \A S : JobsIn(S)' = JobsIn(S)
    BY <2>1 DEF JobsIn
  <2> QED
    BY <1>1, <1>2, <1>3, <2>1, <2>2, SendNumbers DEF Sends, Dead
<1>4. CASE sendq = 0
  <2>1. Execute("send") /\ "send" \in Jobs
    BY <1>4 DEF do_write, Post, Jobs
  <2>2. \A S : JobsIn(S)' = JobsIn(S) + One("send" \in S)
    BY <2>1, ExecuteCounts
  <2>3. One("send" \in {"send"}) = 1 /\ One("send" \in {"register"}) = 0
    BY DEF One
  <2>4. JobsIn({"send"})' = 1 /\ JobsIn({"register"})' = 0
    BY <1>4, <2>2, <2>3, SendNumbers DEF Sends
  <2>5. Dead \/ StepsIn({"writeable"}) = 0
    BY <1>4, SendNumbers DEF Sends
  <2>6. phase = "timers" \/ StepsIn(Writing) = 0
    BY DEF Places, Is
  <2>7. StepsIn({"register"}) <= StepsIn(Writing)
    BY CountMonotonic DEF Types, StepsIn, Writing
  <2>8. Dead \/ phase = "timers" \/ "out" \notin reg
    BY <1>4, <2>6, <2>7, SendNumbers DEF Sends
  <2> QED
    BY <1>1, <1>2, <1>4, <2>4, <2>5, <2>6, <2>8, SendNumbers DEF Sends, Dead
<1> QED
  BY <1>3, <1>4

LEMMA WritesSend ==
  ASSUME Inv, Stock, Sends, Places, "on_write" \notin DirectWrites, FireDoWrite \/ CallbackWritesDirectly
  PROVE  Sends'
<1>1. CASE FireDoWrite
  <2>1. GoesOn /\ todo # <<>> /\ Head(todo) = "do_write" /\ UNCHANGED <<bits, reg, phase, batch, resumed>>
    BY <1>1 DEF FireDoWrite, GoesOn, Is
  <2>2. CASE Dead
    <3>1. UNCHANGED <<sendq, tasks>>
      BY <1>1, <2>2 DEF FireDoWrite
    <3> QED
      BY <2>1, <3>1, SendsStay DEF Inv, Stock, Dead
  <2>3. CASE ~Dead
    <3>1. do_write
      BY <1>1, <2>3 DEF FireDoWrite
    <3> QED
      BY <2>1, <3>1, DirectWriteSends DEF Inv
  <2> QED
    BY <2>2, <2>3
<1>2. CASE CallbackWritesDirectly
  <2>1. GoesOn /\ todo # <<>> /\ do_write /\ UNCHANGED <<bits, reg, phase, batch, resumed>>
    BY <1>2 DEF CallbackWritesDirectly, GoesOn, InCallback, Idle
  <2>2. Head(todo) \in {"on_connected", "on_read"}
    BY <1>2, ChannelAssumption DEF CallbackWritesDirectly
  <2> QED
    BY <2>1, <2>2, DirectWriteSends DEF Inv
<1> QED
  BY <1>1, <1>2

LEMMA RegisterSends ==
  ASSUME Inv, Stock, Sends, RegisterHandle
  PROVE  Sends'
<1> SUFFICES ASSUME ~resumed PROVE Sends'
  BY DEF Sends, RegisterHandle
<1>1. /\ todo # <<>> /\ Head(todo) = "register"
      /\ UNCHANGED <<bits, tasks, sendq, batch, phase, resumed>>
      /\ Done \/ Then(<<"register_failed">>)
      /\ ~Dead => reg' = Wanted(bits, sendq)
  BY DEF RegisterHandle, Is
<1>2. ASSUME NEW S \in {{"writeable"}, Writing, {"register"}}
      PROVE  StepsIn(S)' <= StepsIn(S) /\ StepsIn(S)' \in Nat
  <2>1. One(Head(todo) \in S) \in Nat /\ StepsIn(S) \in Nat
    BY SendNumbers DEF One, Inv
  <2>2. CASE Done
    BY <1>1, <2>1, <2>2, DoneCounts DEF Inv
  <2>3. CASE Then(<<"register_failed">>)
    <3>1. <<"register_failed">> \in Seq(Steps) /\ Count(<<"register_failed">>, S) = One("register_failed" \in S)
      BY CountSingle DEF Steps
    <3>2. One("register_failed" \in S) = 0
      BY <1>2 DEF One, Writing
    <3>3. StepsIn(S)' = StepsIn(S) - One(Head(todo) \in S) + Count(<<"register_failed">>, S) /\ StepsIn(S)' \in Nat
      BY <1>1, <2>3, <3>1, ThenCounts DEF Inv
    <3> QED
      BY <2>1, <3>1, <3>2, <3>3
  <2> QED
    BY <1>1, <2>2, <2>3
<1>3. StepsIn({"writeable"})' <= StepsIn({"writeable"}) /\ StepsIn({"writeable"})' \in Nat
  BY <1>2
<1>4. StepsIn(Writing)' <= StepsIn(Writing) /\ StepsIn(Writing)' \in Nat
  BY <1>2
<1>5. StepsIn(Writing) > 0
  <2>1. StepsIn({"register"}) > 0
    BY <1>1, HeadCounts DEF Inv
  <2>2. StepsIn({"register"}) <= StepsIn(Writing)
    BY CountMonotonic DEF Inv, Types, StepsIn, Writing
  <2> QED
    BY <2>1, <2>2, SendNumbers DEF Inv
<1>6. \A S : JobsIn(S)' = JobsIn(S)
  BY <1>1 DEF JobsIn
<1>7. ~Dead /\ "out" \in reg' => sendq > 0
  BY <1>1 DEF Wanted
<1>8. ~Dead /\ phase # "timers" => Count(tasks, {"send"}) = 0
  <2>1. ~Dead /\ phase # "timers" => JobsIn({"send"}) = 0
    BY <1>5 DEF Sends
  <2> QED
    BY <2>1, SendNumbers DEF Inv
<1> QED
  BY <1>1, <1>3, <1>4, <1>5, <1>6, <1>7, <1>8, SendNumbers DEF Sends, Dead, Inv

LEMMA WriteableSends ==
  ASSUME Inv, Follows(todo), Stock, Sends, HandleWriteable
  PROVE  Sends'
<1> SUFFICES ASSUME ~resumed PROVE Sends'
  BY DEF Sends, HandleWriteable
<1>1. /\ todo # <<>> /\ Head(todo) = "writeable"
      /\ UNCHANGED <<tasks, batch, phase, reg, resumed>>
  BY DEF HandleWriteable, Is
<1>2. CASE sendq' = sendq /\ (Done \/ Then(<<"on_error">>))
  <2>1. GoesOn
    BY <1>1, <1>2 DEF GoesOn, Steps, Callbacks, Writing
  <2>2. ~Dead' => ~Dead
    BY DEF HandleWriteable, FailNow, Dead
  <2> QED
    BY <1>1, <1>2, <2>1, <2>2, SendsStay DEF Inv, Stock
<1>3. CASE ~Dead /\ sendq' \in Nat /\ Then(<<"on_write">>) /\ bits' = bits
  <2>1. StepsIn({"writeable"}) = 1 /\ JobsIn({"send"}) = 0
    <3>1. StepsIn({"writeable"}) > 0
      BY <1>1, HeadCounts DEF Inv
    <3> QED
      BY <1>3, <3>1, SendNumbers DEF Sends, Inv
  <2>2. <<"on_write">> \in Seq(Steps) /\ \A S : Count(<<"on_write">>, S) = One("on_write" \in S)
    BY CountSingle DEF Steps, Callbacks
  <2>3. \A S : StepsIn(S)' = StepsIn(S) - One(Head(todo) \in S) + Count(<<"on_write">>, S) /\ StepsIn(S)' \in Nat
    BY <1>1, <1>3, <2>2, ThenCounts DEF Inv
  <2>4. StepsIn({"writeable"})' = 0
    <3>1. One(Head(todo) \in {"writeable"}) = 1 /\ One("on_write" \in {"writeable"}) = 0
      BY <1>1 DEF One
    <3> QED
      BY <2>1, <2>2, <2>3, <3>1
  <2>5. StepsIn({"register"})' > 0
    BY <1>1, <1>3, RegisterNext DEF Inv, Steps, Callbacks
  <2>6. JobsIn({"send"})' = 0 /\ JobsIn({"register"})' = 0 /\ Count(tasks', {"send"}) = 0
    <3>1. \A S : JobsIn(S)' = JobsIn(S)
      BY <1>1 DEF JobsIn
    <3> QED
      BY <1>1, <2>1, <3>1, SendNumbers DEF Sends, Inv
  <2> QED
    BY <2>4, <2>5, <2>6 DEF Sends
<1>4. \/ sendq' = sendq /\ (Done \/ Then(<<"on_error">>))
      \/ ~Dead /\ sendq' \in Nat /\ Then(<<"on_write">>) /\ bits' = bits
  BY DEF HandleWriteable, FailNow, Stock
<1> QED
  BY <1>2, <1>3, <1>4

LEMMA RunJobSends ==
  ASSUME Inv, Stock, Sends, RunJob
  PROVE  Sends'
<1> SUFFICES ASSUME ~resumed PROVE Sends'
  BY DEF Sends, RunJob
<1> DEFINE job == Head(batch)
<1>1. /\ todo = <<>> /\ batch # <<>> /\ batch \in Seq(Jobs) /\ job \in Jobs
      /\ batch' = Tail(batch) /\ batch' \in Seq(Jobs) /\ todo' = Handler(job)
      /\ UNCHANGED <<tasks, bits, sendq, reg, phase, resumed>>
  BY HeadTailProperties DEF RunJob, Idle, Inv, Types
<1> HIDE DEF job
<1>2. ASSUME NEW S
      PROVE  JobsIn(S) = JobsIn(S)' + One(job \in S) /\ JobsIn(S)' \in Nat /\ One(job \in S) \in Nat
  <2>1. Count(batch, S) = One(job \in S) + Count(batch', S)
    BY <1>1, CountTail DEF job
  <2>2. Count(batch', S) \in Nat /\ Count(tasks, S) \in Nat /\ One(job \in S) \in Nat
    BY <1>1, CountType DEF One, Inv, Types
  <2> QED
    BY <1>1, <2>1, <2>2 DEF JobsIn
<1>3. /\ JobsIn({"send"}) = JobsIn({"send"})' + One(job \in {"send"}) /\ JobsIn({"send"})' \in Nat
      /\ JobsIn({"register"}) = JobsIn({"register"})' + One(job \in {"register"}) /\ JobsIn({"register"})' \in Nat
      /\ One(job \in {"send"}) \in Nat /\ One(job \in {"register"}) \in Nat
  BY <1>2
<1>4. \A S : StepsIn(S) = 0
  BY <1>1, CountEmpty DEF StepsIn
<1>5. job # "register"
  <2>1. JobsIn({"register"}) = 0
    BY DEF Sends
  <2>2. One(job \in {"register"}) = 0
    BY <1>3, <2>1
  <2> QED
    BY <2>2 DEF One
<1>6. CASE job # "send" \/ Dead
  <2>1. /\ <<"announce">> \in Seq(Steps \ Writing) /\ <<"do_write", "release">> \in Seq(Steps \ Writing)
        /\ <<"release">> \in Seq(Steps \ Writing) /\ <<"on_error", "release">> \in Seq(Steps \ Writing)
        /\ <<"closing", "on_closed", "leave", "release">> \in Seq(Steps \ Writing)
    BY DEF Steps, Callbacks, Writing
  <2>2. todo' \in Seq(Steps \ Writing)
    BY <1>1, <1>5, <1>6, <2>1, HandlerIs DEF Jobs
  <2>3. Writing \cap (Steps \ Writing) = {} /\ {"writeable"} \cap (Steps \ Writing) = {}
    BY DEF Writing
  <2>4. StepsIn(Writing)' = 0 /\ StepsIn({"writeable"})' = 0
    BY <2>2, <2>3, CountNone DEF StepsIn
  <2>5. JobsIn({"send"})' <= JobsIn({"send"}) /\ JobsIn({"register"})' = 0 /\ JobsIn({"register"}) = 0
    BY <1>3 DEF Sends
  <2>6. ~Dead => ("out" \in reg => sendq > 0)
    BY <1>4 DEF Sends
  <2> QED
    BY <1>1, <1>3, <2>4, <2>5, <2>6, SendNumbers DEF Sends, Dead, Inv
<1>7. CASE job = "send" /\ ~Dead
  <2> DEFINE steps == <<"writeable", "register", "release">>
  <2>1. todo' = steps /\ steps \in Seq(Steps)
    BY <1>1, <1>7, HandlerIs DEF Steps
  <2>2. /\ 1 \in DOMAIN steps /\ steps[1] \in {"writeable"}
        /\ \A i \in DOMAIN steps : i # 1 => steps[i] \notin {"writeable"}
    OBVIOUS
  <2> HIDE DEF steps
  <2>3. StepsIn({"writeable"})' = 1
    BY <2>1, <2>2, CountOnce DEF StepsIn
  <2>4. One(job \in {"send"}) = 1
    BY <1>7 DEF One
  <2>5. JobsIn({"send"})' = 0 /\ JobsIn({"register"})' = 0 /\ sendq > 0
    <3>1. JobsIn({"send"}) <= 1 /\ (sendq = 0 => JobsIn({"send"}) = 0) /\ JobsIn({"register"}) = 0
      BY DEF Sends
    <3> QED
      BY <1>3, <2>4, <3>1 DEF Stock
  <2>6. ~Dead => Count(tasks, {"send"}) = 0
    <3>1. JobsIn({"send"})' = Count(batch', {"send"}) + Count(tasks, {"send"})
      BY <1>1 DEF JobsIn
    <3>2. Count(batch', {"send"}) \in Nat /\ Count(tasks, {"send"}) \in Nat
      BY <1>1, HeadTailProperties, CountType DEF Inv, Types
    <3> QED
      BY <2>5, <3>1, <3>2
  <2> QED
    BY <1>1, <2>3, <2>5, <2>6 DEF Sends, Dead
<1> QED
  BY <1>6, <1>7
-----------------------------------------------------------------------------
LEMMA EventSends ==
  ASSUME Inv, Stock, Sends, PollEvent
  PROVE  Sends'
<1> SUFFICES ASSUME ~resumed PROVE Sends'
  BY DEF Sends, PollEvent
<1>1. /\ todo = <<>> /\ phase = "poll" /\ phase' = "timers" /\ batch = <<>>
      /\ UNCHANGED <<tasks, batch, sendq, reg, resumed>>
  BY DEF PollEvent, Idle, Inv, Types
<1>2. \A S : JobsIn(S)' = JobsIn(S) /\ StepsIn(S) = 0
  BY <1>1, CountEmpty DEF JobsIn, StepsIn
<1>3. CASE Dead \/ bits' # bits
  <2>1. Dead' /\ todo' \in {<<>>, <<"on_error">>}
    BY <1>1, <1>3 DEF PollEvent, Dead
  <2>2. StepsIn({"writeable"})' = 0
    <3>1. Count(<<"on_error">>, {"writeable"}) = One("on_error" \in {"writeable"}) /\ Count(<<>>, {"writeable"}) = 0
      BY CountSingle, CountEmpty
    <3> QED
      BY <2>1, <3>1 DEF StepsIn, One
  <2> QED
    BY <1>1, <1>2, <2>1, <2>2 DEF Sends
<1>4. CASE ~Dead /\ bits' = bits
  <2>1. todo' \in {<<"register">>, <<"readable", "register">>, <<"writeable", "register">>,
                   <<"readable", "writeable", "register">>}
    <3>1. todo' \notin {todo, <<"on_error">>}
      BY <1>1, <1>4, EventStarts DEF PollEvent, Dead
    <3> QED
      BY <3>1, EventStarts
  <2>2. /\ todo' \in Seq(Steps) /\ todo'[Len(todo')] = "register"
        /\ Len(todo') \in DOMAIN todo'
    <3>1. /\ <<"register">> \in Seq(Steps) /\ <<"readable", "register">> \in Seq(Steps)
          /\ <<"writeable", "register">> \in Seq(Steps) /\ <<"readable", "writeable", "register">> \in Seq(Steps)
      BY DEF Steps
    <3> DEFINE last(steps) == Len(steps) \in DOMAIN steps /\ steps[Len(steps)] = "register"
    <3>2. last(<<"register">>) /\ last(<<"readable", "register">>) /\ last(<<"writeable", "register">>)
      OBVIOUS
    <3>3. last(<<"readable", "writeable", "register">>)
      OBVIOUS
    <3>4. last(todo') /\ todo' \in Seq(Steps)
      <4> HIDE DEF last
      <4> QED
        BY <2>1, <3>1, <3>2, <3>3
    <3> QED
      BY <3>4
  <2>3. StepsIn({"register"})' > 0
    <3>1. todo'[Len(todo')] \in {"register"}
      BY <2>2
    <3>2. Count(todo', {"register"}) \in Nat \ {0}
      BY <2>2, <3>1, CountSome
    <3> QED
      BY <3>2 DEF StepsIn
  <2>4. StepsIn({"writeable"})' <= 1 /\ (StepsIn({"writeable"})' > 0 => "out" \in reg)
    <3>1. CASE "out" \notin Ready
      <4>1. todo' \in Seq({"readable", "register"})
        <5>1. /\ <<>> \o <<>> = <<>> /\ <<>> \o <<"register">> = <<"register">>
              /\ <<"readable">> \o <<>> = <<"readable">>
          OBVIOUS
        <5>2. <<"readable">> \o <<"register">> = <<"readable", "register">>
          BY PairIs
        <5>3. todo' \in {<<"register">>, <<"readable", "register">>}
          BY <1>1, <1>4, <3>1, <5>1, <5>2 DEF PollEvent, Dead
        <5>4. <<"register">> \in Seq({"readable", "register"}) /\ <<"readable", "register">> \in Seq({"readable", "register"})
          OBVIOUS
        <5> QED
          BY <5>3, <5>4
      <4>2. {"writeable"} \cap {"readable", "register"} = {}
        OBVIOUS
      <4>3. Count(todo', {"writeable"}) = 0
        BY <4>1, <4>2, CountNone
      <4> QED
        BY <4>3 DEF StepsIn
    <3>2. CASE "out" \in Ready
      <4>1. "out" \in reg
        BY <3>2 DEF Ready
      <4>2. /\ Count(<<"register">>, {"writeable"}) = One("register" \in {"writeable"})
            /\ Count(<<"readable", "register">>, {"writeable"}) = 0
            /\ Count(<<"writeable", "register">>, {"writeable"}) = 1
            /\ Count(<<"readable", "writeable", "register">>, {"writeable"}) = 1
        <5>1. Count(<<"register">>, {"writeable"}) = One("register" \in {"writeable"})
          BY CountSingle
        <5>2. Count(<<"readable", "register">>, {"writeable"}) = 0
          <6>1. <<"readable", "register">> \in Seq({"readable", "register"}) /\ {"writeable"} \cap {"readable", "register"} = {}
            OBVIOUS
          <6> QED
            BY <6>1, CountNone
        <5>3. Count(<<"writeable", "register">>, {"writeable"}) = 1
          <6> DEFINE steps == <<"writeable", "register">>
          <6>1. steps \in Seq({"writeable", "register"}) /\ 1 \in DOMAIN steps /\ steps[1] \in {"writeable"}
                /\ \A i \in DOMAIN steps : i # 1 => steps[i] \notin {"writeable"}
            OBVIOUS
          <6> HIDE DEF steps
          <6>2. Count(steps, {"writeable"}) = 1
            BY <6>1, CountOnce
          <6> QED
            BY <6>2 DEF steps
        <5>4. Count(<<"readable", "writeable", "register">>, {"writeable"}) = 1
          <6> DEFINE steps == <<"readable", "writeable", "register">>
          <6>1. steps \in Seq({"readable", "writeable", "register"}) /\ 2 \in DOMAIN steps /\ steps[2] \in {"writeable"}
                /\ \A i \in DOMAIN steps : i # 2 => steps[i] \notin {"writeable"}
            OBVIOUS
          <6> HIDE DEF steps
          <6>2. Count(steps, {"writeable"}) = 1
            BY <6>1, CountOnce
          <6> QED
            BY <6>2 DEF steps
        <5> QED
          BY <5>1, <5>2, <5>3, <5>4
      <4> QED
        BY <2>1, <4>1, <4>2 DEF StepsIn, One
    <3> QED
      BY <3>1, <3>2
  <2>5. "out" \in reg => JobsIn({"send"}) = 0 /\ sendq > 0
    <3>1. Count(batch, {"send"}) = 0
      BY <1>1, CountEmpty
    <3> QED
      BY <1>1, <1>2, <1>4, <3>1, SendNumbers DEF Sends, Inv
  <2> QED
    BY <1>1, <1>2, <1>4, <2>3, <2>4, <2>5 DEF Sends, Dead
<1> QED
  BY <1>3, <1>4

LEMMA SpliceSends ==
  ASSUME Inv, Sends, Splice
  PROVE  Sends'
<1>1. /\ todo = <<>> /\ batch = <<>> /\ tasks' = <<>> /\ batch' = tasks
      /\ UNCHANGED <<todo, bits, sendq, reg, resumed>>
  BY DEF Splice, Idle, Inv, Types
<1>2. \A S : StepsIn(S) = 0 /\ StepsIn(S)' = 0 /\ Count(tasks', S) = 0 /\ Count(batch, S) = 0
  BY <1>1, CountEmpty DEF StepsIn
<1>3. \A S : Count(tasks, S) \in Nat
  BY CountType DEF Inv, Types
<1>4. \A S : JobsIn(S)' = JobsIn(S)
  BY <1>1, <1>2, <1>3 DEF JobsIn
<1> QED
  BY <1>1, <1>2, <1>4 DEF Sends, Dead

LEMMA FireOnConnectedSends ==
  ASSUME Inv, Stock, Fresh, Sends, FireOnConnected
  PROVE  Sends'
<1>1. /\ todo # <<>> /\ Head(todo) = "announce" /\ Then(<<"on_connected">>)
      /\ UNCHANGED <<batch, phase, sendq, resumed>> /\ reg' = Wanted(bits, sendq)
      /\ bits \subseteq bits'
      /\ tasks' = tasks \/ Execute("error")
  BY DEF FireOnConnected, Is
<1>2. sendq = 0
  <2>1. StepsIn({"announce"}) > 0
    BY <1>1, HeadCounts DEF Inv
  <2>2. Unannounced > 0
    BY <2>1, ToldNumbers DEF Inv, Unannounced
  <2> QED
    BY <2>2 DEF Fresh
<1>3. "out" \notin reg'
  BY <1>1, <1>2 DEF Wanted
<1>4. GoesOn
  BY <1>1 DEF GoesOn, Steps, Callbacks, Writing
<1>5. tasks' = tasks \/ \E job \in Jobs \ {"send", "register"} : Execute(job)
  BY <1>1 DEF Jobs
<1>6. ~Dead' => ~Dead
  BY <1>1 DEF Dead
<1> QED
  BY <1>1, <1>3, <1>4, <1>5, <1>6, SendsStay DEF Inv, Stock

LEMMA OtherStepsSend ==
  ASSUME Inv, Stock, Sends,
         \/ PollNothing \/ NextIteration \/ RecvTimeout \/ Peer \/ UNCHANGED vars
         \/ RegisterFailed \/ HandleReadable \/ FireOnClose \/ Leave \/ ReleaseJob \/ CallbackReturns
         \/ CallbackCloses \/ CallbackWrites \/ CallbackFails \/ pending_read \/ continue_read
         \/ CallbackShares
         \/ \E u \in Users : UserStarts(u) \/ UserPosts(u) \/ UserReleases(u)
  PROVE  Sends'
<1>1. CASE continue_read
  BY <1>1 DEF continue_read, Sends
<1>2. CASE \/ PollNothing \/ NextIteration \/ RecvTimeout \/ Peer \/ UNCHANGED vars
           \/ CallbackCloses \/ CallbackWrites \/ CallbackFails \/ pending_read \/ CallbackShares
           \/ \E u \in Users : UserStarts(u) \/ UserPosts(u) \/ UserReleases(u)
  <2>1. UNCHANGED <<todo, batch, sendq, reg, resumed>> /\ bits \subseteq bits'
    BY <1>2 DEF PollNothing, NextIteration, RecvTimeout, Peer, PeerSends, PeerReceives, PeerCloses,
       ConnectionBreaks, CallbackCloses, CallbackWrites, CallbackFails, pending_read, CallbackShares,
       UserStarts, UserPosts, UserReleases, loopVars, vars, close, error_propagation, Post
  <2>2. phase' # "timers" => phase # "timers"
    BY <1>2 DEF PollNothing, NextIteration, RecvTimeout, Peer, PeerSends, PeerReceives, PeerCloses,
       ConnectionBreaks, CallbackCloses, CallbackWrites, CallbackFails, pending_read, CallbackShares,
       UserStarts, UserPosts, UserReleases, loopVars, vars
  <2>3. tasks' = tasks \/ \E job \in Jobs \ {"send", "register"} : Execute(job)
    <3>1. {"close", "error", "write"} \subseteq Jobs \ {"send", "register"}
      BY DEF Jobs
    <3> QED
      BY <1>2, <3>1 DEF PollNothing, NextIteration, RecvTimeout, Peer, PeerSends, PeerReceives, PeerCloses,
         ConnectionBreaks, CallbackCloses, CallbackWrites, CallbackFails, pending_read, CallbackShares,
         UserStarts, UserPosts, UserReleases, loopVars, vars, close, error_propagation, Post
  <2>4. GoesOn /\ (~Dead' => ~Dead)
    BY <2>1 DEF GoesOn, Dead
  <2> QED
    BY <2>1, <2>2, <2>3, <2>4, SendsStay DEF Inv, Stock
<1>3. CASE RegisterFailed \/ HandleReadable \/ FireOnClose \/ Leave \/ ReleaseJob \/ CallbackReturns
  <2>1. UNCHANGED <<phase, batch, sendq, reg, resumed>> /\ bits \subseteq bits'
    BY <1>3 DEF RegisterFailed, HandleReadable, FireOnClose, Leave, ReleaseJob, CallbackReturns,
       FailNow, close, error_propagation
  <2>2. tasks' = tasks \/ \E job \in Jobs \ {"send", "register"} : Execute(job)
    <3>1. {"close", "error"} \subseteq Jobs \ {"send", "register"}
      BY DEF Jobs
    <3> QED
      BY <1>3, <3>1 DEF RegisterFailed, HandleReadable, FireOnClose, Leave, ReleaseJob, CallbackReturns,
         close, error_propagation, Post
  <2>3. GoesOn
    <3>1. todo # <<>> /\ Head(todo) # "register"
      BY <1>3 DEF RegisterFailed, HandleReadable, FireOnClose, Leave, ReleaseJob, CallbackReturns,
         Is, InCallback, Idle, Callbacks
    <3>2. "on_read" \in Steps \ Writing /\ "on_error" \in Steps \ Writing
      BY DEF Steps, Callbacks, Writing
    <3> QED
      BY <1>3, <3>1, <3>2 DEF RegisterFailed, HandleReadable, FireOnClose, Leave, ReleaseJob, CallbackReturns,
         GoesOn, FailNow
  <2>4. ~Dead' => ~Dead
    BY <2>1 DEF Dead
  <2> QED
    BY <2>1, <2>2, <2>3, <2>4, SendsStay DEF Inv, Stock
<1> QED
  BY <1>1, <1>2, <1>3

LEMMA SendsNext ==
  ASSUME Inv, Follows(todo), Stock, Fresh, Sends, Places, "on_write" \notin DirectWrites, [Next]_vars
  PROVE  Sends'
<1>1. CASE FireDoWrite \/ CallbackWritesDirectly
  BY <1>1, WritesSend
<1>2. CASE RegisterHandle
  BY <1>2, RegisterSends
<1>3. CASE HandleWriteable
  BY <1>3, WriteableSends
<1>4. CASE RunJob \/ PollEvent \/ Splice \/ FireOnConnected
  BY <1>4, RunJobSends, EventSends, SpliceSends, FireOnConnectedSends
<1>5. CASE \/ PollNothing \/ NextIteration \/ RecvTimeout \/ Peer \/ UNCHANGED vars
           \/ RegisterFailed \/ HandleReadable \/ FireOnClose \/ Leave \/ ReleaseJob \/ CallbackReturns
           \/ CallbackCloses \/ CallbackWrites \/ CallbackFails \/ pending_read \/ continue_read
           \/ CallbackShares
           \/ \E u \in Users : UserStarts(u) \/ UserPosts(u) \/ UserReleases(u)
  BY <1>5, OtherStepsSend
<1> QED
  BY <1>1, <1>2, <1>3, <1>4, <1>5 DEF Next, LoopStep, FilterCall

(* The jobs that are members of the channel are in the loop's list once    *)
(* each.  For _on_send this needs that no filter writes directly in        *)
(* on_write(): TLC shows the second insertion when one does.               *)
THEOREM LinkedOnceTheorem ==
  ASSUME "on_write" \notin DirectWrites
  PROVE  Spec => []LinkedOnce
<1> DEFINE Linked == Ordered /\ Sends /\ Places
<1>1. Init => Linked
  <2> SUFFICES ASSUME Init PROVE Sends /\ Places
    BY OrderedInit
  <2>1. /\ sendq = 0 /\ bits = {} /\ batch = <<>> /\ reg = {}
        /\ \/ tasks = <<"connected">> /\ todo = <<>>
           \/ tasks = <<>> /\ todo = <<"announce">>
    BY DEF Init
  <2>2. \A S : /\ Count(<<"connected">>, S) = One("connected" \in S) /\ Count(<<"announce">>, S) = One("announce" \in S)
               /\ Count(<<>>, S) = 0
    BY CountSingle, CountEmpty
  <2>3. JobsIn({"send"}) = 0 /\ JobsIn({"register"}) = 0 /\ StepsIn({"writeable"}) = 0 /\ StepsIn(Writing) = 0
    BY <2>1, <2>2 DEF JobsIn, StepsIn, One, Writing
  <2> QED
    BY <2>1, <2>3 DEF Sends, Places, Is
<1>2. Linked /\ [Next]_vars => Linked'
  <2> SUFFICES ASSUME Linked, [Next]_vars PROVE Linked'
    OBVIOUS
  <2>1. Ordered'
    BY OrderedNext
  <2>2. Sends' /\ Places'
    BY SendsNext, PlacesNext DEF Ordered
  <2> QED
    BY <2>1, <2>2
<1>3. Linked => LinkedOnce
  <2> SUFFICES ASSUME Linked, ~resumed PROVE \A job \in {"send", "close", "error"} : Count(Queued, {job}) <= 1
    BY DEF LinkedOnce
  <2>1. \A S : Count(Queued, S) = JobsIn(S)
    BY CountConcat DEF Ordered, Inv, Types, Queued, JobsIn
  <2>2. JobsIn({"send"}) <= 1
    BY DEF Sends
  <2>3. One("error" \in bits) <= 1 /\ One("close" \in bits) <= 1
    BY DEF One
  <2>4. Errors <= 1 /\ Closes <= 1
    BY <2>3 DEF Ordered, OnceEach
  <2>5. JobsIn({"error"}) <= 1 /\ JobsIn({"close"}) <= 1
    BY <2>4, ToldNumbers DEF Ordered, Inv, Errors, Closes
  <2> QED
    BY <2>1, <2>2, <2>5
<1> QED
  BY <1>1, <1>2, <1>3, PTL DEF Spec
=============================================================================
