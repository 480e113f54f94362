---------------------------- MODULE ChannelsProofs -----------------------------
(***************************************************************************)
(* Proofs about the channels of MCChannels for any finite set of other     *)
(* threads and any number of calls and messages: references and activity   *)
(* are those of their holders, nothing is left of a deleted channel, each  *)
(* member operation is under way once, and the filters see what every      *)
(* channel promises them.  Both kinds of channel keep one invariant.       *)
(***************************************************************************)
EXTENDS MCChannels, CountingTheorems

Held == Jobs \ {"connected", "send"}
Busy == {"idle", "closing", "failing", "writing"}
Doing == Busy \cup {"out"}

Receipts == {"recv_data", "recv_failed"}
Sendings == {"sent", "send_failed"}
Packets == Receipts \cup Sendings

(* What may follow another step of a handler, and what begins one.         *)
Ending == {"release", "give_back"}
Later == Ending \cup {"watch", "on_closed", "leave", "send_remains", "rest"}
Steps == Later \cup Callbacks \cup Packets \cup {"announce", "do_write", "closing", "readable"}

(* The steps that may lead to the next receive, and to the next send.      *)
ReadSteps == Receipts \cup {"announce", "watch"}
WriteSteps == Sendings \cup {"send_remains"}

JobsIn(S) == Count(batch, S) + Count(tasks, S)
StepsIn(S) == Count(todo, S)
ThreadsIn(S) == Cardinality({u \in Users : upc[u] \in S})
OnLinux == kind = "udp" /\ platform = "linux"

Types ==
  /\ tasks \in Seq(Jobs) /\ batch \in Seq(Jobs)
  /\ port \in Seq(Packets)
  /\ todo \in Seq(Steps)
  /\ upc \in [Users -> Doing]
  /\ bits \subseteq {"error", "close", "pending"}
  /\ ref \in Int /\ active \in Int /\ own \in Int
  /\ recvs \in Nat /\ sends \in Nat /\ sendq \in Nat /\ inflight \in Nat
  /\ phase # "tasks" => batch = <<>>
  /\ deleted \in BOOLEAN /\ resumed \in BOOLEAN

(* The order of the steps: a handler ends with what gives the channel up,  *)
(* and an on_read is followed by the next receive.                         *)
Shape ==
  /\ \A i \in 2 .. Len(todo) : todo[i] \in Later
  /\ \A i \in 1 .. Len(todo) - 1 : todo[i] \notin Ending
  /\ StepsIn({"leave"}) <= StepsIn({"release"})
  /\ todo # <<>> /\ Head(todo) \in {"readable", "on_read"} => StepsIn({"watch"}) >= 1

Operations == recvs + sends + Len(port) + JobsIn({"send"}) + StepsIn({"give_back"})

(* References and activity are those of their holders.                     *)
Counted ==
  /\ ref = Operations + own + JobsIn(Held) + StepsIn({"release"}) + ThreadsIn(Busy)
  /\ OnLinux => active = own /\ Operations = 0
  /\ ~OnLinux => active = Operations

(* Nothing happens to a channel before it is announced.                    *)
Unannounced == JobsIn({"connected"}) + StepsIn({"announce"})
Untouched ==
  Unannounced >= 1 =>
    /\ Unannounced = 1 /\ ref = 0 /\ own = 0 /\ sendq = 0
    /\ bits = {} /\ told = {} /\ ~deleted /\ ~resumed
    /\ todo = <<>> \/ todo = <<"announce">>

(* A handler in progress has a reference, or the open channel's own keeps  *)
(* it alive.                                                               *)
HandlerHolds ==
  todo # <<>> =>
    StepsIn({"release"}) >= 1 \/ StepsIn({"give_back"}) >= 1 \/ own >= 1
      \/ StepsIn({"announce"}) >= 1

Failed == One("error" \in bits)
Closed == One("close" \in bits)
ErrorTold == One("on_error" \in told)
ClosedTold == One("on_closed" \in told)

(* An error and a close() have been told, are being told, or wait in one   *)
(* place to be told; the channel's own reference is given up once.         *)
Closers == ThreadsIn({"closing"}) + JobsIn({"close"})
OnceEach ==
  ~resumed =>
    /\ own >= 0
    /\ Failed = ErrorTold + StepsIn({"on_error"}) + JobsIn({"error"}) + ThreadsIn({"failing"})
    /\ Closed = ClosedTold + StepsIn({"on_closed"}) + Closers
    /\ Unannounced + own + Closed = 1 + Closers + StepsIn({"leave"})

Gone == deleted /\ ~resumed => ref = 0 /\ own = 0 /\ todo = <<>>

(* One receive is under way or will be started, unless the channel is      *)
(* paused; on Linux the socket is watched.                                 *)
Fetching == recvs + Count(port, Receipts)
Readers == Fetching + StepsIn(ReadSteps) + JobsIn({"connected"})
Reads ==
  /\ "pending" \in bits => Fetching = 0
  /\ "pending" \notin bits => Readers <= 1 /\ JobsIn({"watch"}) = 0
  /\ ~resumed /\ ~Dead /\ "pending" \notin bits /\ ~OnLinux => Readers >= 1
  /\ ~resumed /\ ~Dead /\ OnLinux /\ Unannounced = 0 /\ StepsIn({"watch"}) = 0 =>
       watched = ("pending" \notin bits)

(* One send is under way or will be started as long as something waits.    *)
Writers == sends + Count(port, Sendings) + JobsIn({"send"}) + StepsIn(WriteSteps)
Writes ==
  /\ Writers <= 1 /\ inflight <= sendq
  /\ sendq = 0 => Writers = 0
  /\ kind = "udp" => sendq = 0
  /\ kind = "tcp" /\ ~resumed /\ ~Dead /\ sendq >= 1 => Writers >= 1

Inv == /\ Types /\ Shape /\ Counted /\ Untouched /\ HandlerHolds
       /\ OnceEach /\ Gone /\ Reads /\ Writes
-----------------------------------------------------------------------------
(* How an action changes the counts: of the steps "release", "give_back",  *)
(* "leave" and "announce", of those that lead to a receive, of "watch", of *)
(* those that lead to a send, of "on_error" and "on_closed";               *)
StepsMove(rel, ret, lea, ann, rd, wat, wr, err, clo) ==
  /\ rel \in Int /\ ret \in Int /\ lea \in Int /\ ann \in Int /\ rd \in Int /\ wat \in Int
  /\ wr \in Int /\ err \in Int /\ clo \in Int
  /\ todo \in Seq(Steps) /\ todo' \in Seq(Steps)
  /\ StepsIn({"release"}) \in Nat /\ StepsIn({"release"})' \in Nat
  /\ StepsIn({"release"})' = StepsIn({"release"}) + rel
  /\ StepsIn({"give_back"}) \in Nat /\ StepsIn({"give_back"})' \in Nat
  /\ StepsIn({"give_back"})' = StepsIn({"give_back"}) + ret
  /\ StepsIn({"leave"}) \in Nat /\ StepsIn({"leave"})' \in Nat
  /\ StepsIn({"leave"})' = StepsIn({"leave"}) + lea
  /\ StepsIn({"announce"}) \in Nat /\ StepsIn({"announce"})' \in Nat
  /\ StepsIn({"announce"})' = StepsIn({"announce"}) + ann
  /\ StepsIn(ReadSteps) \in Nat /\ StepsIn(ReadSteps)' \in Nat
  /\ StepsIn(ReadSteps)' = StepsIn(ReadSteps) + rd
  /\ StepsIn({"watch"}) \in Nat /\ StepsIn({"watch"})' \in Nat
  /\ StepsIn({"watch"})' = StepsIn({"watch"}) + wat
  /\ StepsIn(WriteSteps) \in Nat /\ StepsIn(WriteSteps)' \in Nat
  /\ StepsIn(WriteSteps)' = StepsIn(WriteSteps) + wr
  /\ StepsIn({"on_error"}) \in Nat /\ StepsIn({"on_error"})' \in Nat
  /\ StepsIn({"on_error"})' = StepsIn({"on_error"}) + err
  /\ StepsIn({"on_closed"}) \in Nat /\ StepsIn({"on_closed"})' \in Nat
  /\ StepsIn({"on_closed"})' = StepsIn({"on_closed"}) + clo

(* of the jobs that hold a reference, of "send" and "connected", and of    *)
(* three of the first kind;                                                *)
JobsMove(held, send, conn, watch, clo, err) ==
  /\ held \in Int /\ send \in Int /\ conn \in Int /\ watch \in Int /\ clo \in Int
  /\ err \in Int
  /\ tasks' \in Seq(Jobs) /\ batch' \in Seq(Jobs)
  /\ JobsIn(Held) \in Nat /\ JobsIn(Held)' \in Nat
  /\ JobsIn(Held)' = JobsIn(Held) + held
  /\ JobsIn({"send"}) \in Nat /\ JobsIn({"send"})' \in Nat
  /\ JobsIn({"send"})' = JobsIn({"send"}) + send
  /\ JobsIn({"connected"}) \in Nat /\ JobsIn({"connected"})' \in Nat
  /\ JobsIn({"connected"})' = JobsIn({"connected"}) + conn
  /\ JobsIn({"watch"}) \in Nat /\ JobsIn({"watch"})' \in Nat
  /\ JobsIn({"watch"})' = JobsIn({"watch"}) + watch
  /\ JobsIn({"close"}) \in Nat /\ JobsIn({"close"})' \in Nat
  /\ JobsIn({"close"})' = JobsIn({"close"}) + clo
  /\ JobsIn({"error"}) \in Nat /\ JobsIn({"error"})' \in Nat
  /\ JobsIn({"error"})' = JobsIn({"error"}) + err

(* of the threads that hold a reference, that are closing and failing;     *)
ThreadsMove(busy, closing, failing) ==
  /\ busy \in Int /\ closing \in Int /\ failing \in Int
  /\ upc' \in [Users -> Doing]
  /\ ThreadsIn(Busy) \in Nat /\ ThreadsIn(Busy)' \in Nat
  /\ ThreadsIn(Busy)' = ThreadsIn(Busy) + busy
  /\ ThreadsIn({"closing"}) \in Nat /\ ThreadsIn({"closing"})' \in Nat
  /\ ThreadsIn({"closing"})' = ThreadsIn({"closing"}) + closing
  /\ ThreadsIn({"failing"}) \in Nat /\ ThreadsIn({"failing"})' \in Nat
  /\ ThreadsIn({"failing"})' = ThreadsIn({"failing"}) + failing

(* of the packets of receives and sends;                                   *)
PortMoves(read, wrote) ==
  /\ read \in Int /\ wrote \in Int
  /\ port' \in Seq(Packets)
  /\ Count(port, Receipts) \in Nat /\ Count(port', Receipts) \in Nat
  /\ Count(port', Receipts) = Count(port, Receipts) + read
  /\ Count(port, Sendings) \in Nat /\ Count(port', Sendings) \in Nat
  /\ Count(port', Sendings) = Count(port, Sendings) + wrote
  /\ Len(port) = Count(port, Receipts) + Count(port, Sendings)
  /\ Len(port') = Count(port', Receipts) + Count(port', Sendings)

(* of the reference count, the activities, the channel's own reference and *)
(* the operations in the kernel;                                           *)
CountersMove(refs, acts, owns, receives, writes) ==
  /\ refs \in Int /\ acts \in Int /\ owns \in Int /\ receives \in Int /\ writes \in Int
  /\ ref \in Int /\ ref' \in Int /\ ref' = ref + refs
  /\ active \in Int /\ active' \in Int /\ active' = active + acts
  /\ own \in Int /\ own' \in Int /\ own' = own + owns
  /\ recvs \in Nat /\ recvs' \in Nat /\ recvs' = recvs + receives
  /\ sends \in Nat /\ sends' \in Nat /\ sends' = sends + writes

(* and of the bits that end a channel's life.                              *)
BitsMove(err, clo) ==
  /\ err \in Int /\ clo \in Int
  /\ bits' \subseteq {"error", "close", "pending"}
  /\ "pending" \in bits' <=> "pending" \in bits
  /\ Failed \in 0 .. 1 /\ Failed' \in 0 .. 1 /\ Failed' = Failed + err
  /\ Closed \in 0 .. 1 /\ Closed' \in 0 .. 1 /\ Closed' = Closed + clo
  /\ Dead <=> Failed + Closed >= 1
  /\ Dead' <=> Failed' + Closed' >= 1

(* What has been told, likewise.                                           *)
ToldMove(err, clo) ==
  /\ err \in Int /\ clo \in Int
  /\ ErrorTold \in 0 .. 1 /\ ErrorTold' \in 0 .. 1 /\ ErrorTold' = ErrorTold + err
  /\ ClosedTold \in 0 .. 1 /\ ClosedTold' \in 0 .. 1 /\ ClosedTold' = ClosedTold + clo
-----------------------------------------------------------------------------
LEMMA OnesAre == \A b : One(b) \in {0, 1} /\ (b => One(b) = 1) /\ (~b => One(b) = 0)
BY DEF One

LEMMA OnesDiffer ==
  \A a, b : One(a) \in Int /\ -One(a) \in Int /\ One(a) - One(b) \in Int
<1> SUFFICES ASSUME NEW a, NEW b PROVE One(a) \in Int /\ -One(a) \in Int /\ One(a) - One(b) \in Int
  OBVIOUS
<1>1. One(a) \in {0, 1} /\ One(b) \in {0, 1}
  BY OnesAre
<1> QED
  BY <1>1

LEMMA OneOfSingle == \A x, y : One(x \in {y}) = One(x = y)
BY DEF One

LEMMA PairIs == \A a, b : <<a>> \o <<b>> = <<a, b>>
<1> SUFFICES ASSUME NEW a, NEW b PROVE <<a>> \o <<b>> = <<a, b>>
  OBVIOUS
<1>1. <<a>> \o <<b>> \in Seq({a, b}) /\ <<a, b>> \in Seq({a, b})
  BY ConcatProperties
<1>2. Len(<<a>> \o <<b>>) = 2 /\ \A i \in 1 .. 2 : (<<a>> \o <<b>>)[i] = <<a, b>>[i]
  BY ConcatProperties
<1> QED
  BY <1>1, <1>2, SeqEqual

LEMMA PortIs ==
  ASSUME NEW q \in Seq(Packets)
  PROVE  Len(q) = Count(q, Receipts) + Count(q, Sendings)
         /\ Count(q, Receipts) \in Nat /\ Count(q, Sendings) \in Nat
<1> DEFINE A == {i \in DOMAIN q : q[i] \in Receipts}
           B == {i \in DOMAIN q : q[i] \in Sendings}
<1>1. IsFiniteSet(A) /\ IsFiniteSet(B)
  BY CountType
<1>2. A \cap B = {}
  BY DEF Receipts, Sendings
<1>3. A \cup B = 1 .. Len(q) /\ Len(q) \in Nat
  BY LenProperties DEF Packets
<1>4. Cardinality(A \cup B) = Len(q)
  <2>1. \A n \in Nat : Cardinality(1 .. n) = n
    <3> SUFFICES ASSUME NEW n \in Nat PROVE Cardinality(1 .. n) = n
      OBVIOUS
    <3>1. Cardinality(1 .. n) = IF 1 > n THEN 0 ELSE n - 1 + 1
      BY FS_Interval
    <3> QED
      BY <3>1
  <2> HIDE DEF A, B
  <2> QED
    BY <1>3, <2>1
<1>5. Count(q, Receipts) = Cardinality(A) /\ Count(q, Sendings) = Cardinality(B)
  BY DEF Count
<1> HIDE DEF A, B
<1>6. Cardinality(A \cup B) = Cardinality(A) + Cardinality(B) - Cardinality(A \cap B)
  BY <1>1, FS_Union
<1>7. Cardinality(A) \in Nat /\ Cardinality(B) \in Nat /\ Cardinality(A \cap B) = 0
  BY <1>1, <1>2, FS_CardinalityType, FS_EmptySet
<1> QED
  BY <1>4, <1>5, <1>6, <1>7

LEMMA NumbersAre ==
  ASSUME Types
  PROVE  /\ \A S : JobsIn(S) \in Nat /\ StepsIn(S) \in Nat /\ Count(port, S) \in Nat
         /\ Len(port) = Count(port, Receipts) + Count(port, Sendings)
         /\ \A S : ThreadsIn(S) \in Nat
<1>1. ASSUME NEW S PROVE JobsIn(S) \in Nat /\ StepsIn(S) \in Nat /\ Count(port, S) \in Nat
  <2>1. Count(batch, S) \in Nat /\ Count(tasks, S) \in Nat /\ Count(todo, S) \in Nat
        /\ Count(port, S) \in Nat
    BY CountType DEF Types
  <2> QED
    BY <2>1 DEF JobsIn, StepsIn
<1>2. Len(port) = Count(port, Receipts) + Count(port, Sendings)
  BY PortIs DEF Types
<1>3. \A S : ThreadsIn(S) \in Nat
  BY CoreAssumption, FS_Subset, FS_CardinalityType DEF ThreadsIn
<1> QED
  BY <1>1, <1>2, <1>3

LEMMA SameSteps == ASSUME Types, todo' = todo PROVE StepsMove(0, 0, 0, 0, 0, 0, 0, 0, 0)
<1>1. \A S : StepsIn(S) \in Nat /\ StepsIn(S)' = StepsIn(S)
  BY NumbersAre DEF StepsIn
<1> QED
  BY <1>1 DEF StepsMove, Types

LEMMA SameShape == ASSUME Shape, todo' = todo PROVE Shape'
BY DEF Shape, StepsIn

LEMMA SameJobs ==
  ASSUME Types, UNCHANGED <<tasks, batch>> PROVE JobsMove(0, 0, 0, 0, 0, 0)
<1>1. \A S : JobsIn(S) \in Nat /\ JobsIn(S)' = JobsIn(S)
  BY NumbersAre DEF JobsIn
<1> QED
  BY <1>1 DEF JobsMove, Types

LEMMA SameThreads == ASSUME Types, upc' = upc PROVE ThreadsMove(0, 0, 0)
<1>1. \A S : ThreadsIn(S) \in Nat /\ ThreadsIn(S)' = ThreadsIn(S)
  BY NumbersAre DEF ThreadsIn
<1> QED
  BY <1>1 DEF ThreadsMove, Types

LEMMA SamePort == ASSUME Types, port' = port PROVE PortMoves(0, 0)
<1>1. port \in Seq(Packets)
  BY DEF Types
<1> QED
  BY <1>1, PortIs DEF PortMoves

LEMMA DeadIs ==
  ASSUME NEW b
  PROVE  b \cap {"error", "close"} # {} <=> One("error" \in b) + One("close" \in b) >= 1
<1>1. b \cap {"error", "close"} # {} <=> "error" \in b \/ "close" \in b
  OBVIOUS
<1>2. CASE "error" \in b
  <2>1. One("error" \in b) = 1 /\ One("close" \in b) \in {0, 1}
    BY <1>2, OnesAre
  <2> QED
    BY <1>1, <1>2, <2>1
<1>3. CASE "close" \in b
  <2>1. One("error" \in b) \in {0, 1} /\ One("close" \in b) = 1
    BY <1>3, OnesAre
  <2> QED
    BY <1>1, <1>3, <2>1
<1>4. CASE "error" \notin b /\ "close" \notin b
  <2>1. One("error" \in b) = 0 /\ One("close" \in b) = 0
    BY <1>4 DEF One
  <2> QED
    BY <1>1, <1>4, <2>1
<1> QED
  BY <1>2, <1>3, <1>4

LEMMA BitsAre ==
  ASSUME Types
  PROVE  /\ bits' = bits => BitsMove(0, 0)
         /\ "error" \notin bits /\ bits' = bits \cup {"error"} => BitsMove(1, 0)
         /\ "close" \notin bits /\ bits' = bits \cup {"close"} => BitsMove(0, 1)
<1>1. /\ Failed \in 0 .. 1 /\ Failed' \in 0 .. 1 /\ Closed \in 0 .. 1 /\ Closed' \in 0 .. 1
  BY DEF Failed, Closed, One
<1>2. /\ Dead <=> Failed + Closed >= 1
      /\ Dead' <=> Failed' + Closed' >= 1
  BY DeadIs DEF Dead, Failed, Closed
<1>3. ASSUME bits' = bits PROVE BitsMove(0, 0)
  <2>1. Failed' = Failed /\ Closed' = Closed
    BY <1>3 DEF Failed, Closed
  <2>2. Failed' = Failed + 0 /\ Closed' = Closed + 0
    BY <1>1, <2>1
  <2> QED
    BY <1>1, <1>2, <1>3, <2>2 DEF BitsMove, Types
<1>4. ASSUME "error" \notin bits, bits' = bits \cup {"error"} PROVE BitsMove(1, 0)
  <2>1. "error" \in bits' /\ ("close" \in bits' <=> "close" \in bits)
    BY <1>4
  <2>2. Failed = 0 /\ Failed' = 1 /\ Closed' = Closed
    BY <1>4, <2>1 DEF One, Failed, Closed
  <2>3. Failed' = Failed + 1 /\ Closed' = Closed + 0
    BY <1>1, <2>2
  <2>4. bits' \subseteq {"error", "close", "pending"} /\ ("pending" \in bits' <=> "pending" \in bits)
    BY <1>4 DEF Types
  <2> QED
    BY <1>1, <1>2, <2>3, <2>4 DEF BitsMove
<1>5. ASSUME "close" \notin bits, bits' = bits \cup {"close"} PROVE BitsMove(0, 1)
  <2>1. "close" \in bits' /\ ("error" \in bits' <=> "error" \in bits)
    BY <1>5
  <2>2. Closed = 0 /\ Closed' = 1 /\ Failed' = Failed
    BY <1>5, <2>1 DEF One, Failed, Closed
  <2>3. Failed' = Failed + 0 /\ Closed' = Closed + 1
    BY <1>1, <2>2
  <2>4. bits' \subseteq {"error", "close", "pending"} /\ ("pending" \in bits' <=> "pending" \in bits)
    BY <1>5 DEF Types
  <2> QED
    BY <1>1, <1>2, <2>3, <2>4 DEF BitsMove
<1> QED
  BY <1>3, <1>4, <1>5

LEMMA SameTold == ASSUME told' = told PROVE ToldMove(0, 0)
<1>1. /\ ErrorTold \in 0 .. 1 /\ ClosedTold \in 0 .. 1
      /\ ErrorTold' = ErrorTold /\ ClosedTold' = ClosedTold
  BY DEF ErrorTold, ClosedTold, One
<1> QED
  BY <1>1 DEF ToldMove

(* A job is appended.                                                      *)
LEMMA ExecuteMoves ==
  ASSUME Types, NEW job \in Jobs, Execute(job), batch' = batch
  PROVE  JobsMove(One(job \in Held), One(job = "send"), One(job = "connected"),
                  One(job = "watch"), One(job = "close"), One(job = "error"))
<1>1. tasks' = Append(tasks, job) /\ tasks \in Seq(Jobs) /\ tasks' \in Seq(Jobs)
  BY AppendProperties DEF Execute, Types
<1>2. \A S : JobsIn(S) \in Nat /\ JobsIn(S)' \in Nat /\ JobsIn(S)' = JobsIn(S) + One(job \in S)
  <2> TAKE S
  <2>1. Count(Append(tasks, job), S) = Count(tasks, S) + One(job \in S)
    BY <1>1, CountAppend
  <2>2. Count(batch, S) \in Nat /\ Count(tasks, S) \in Nat /\ One(job \in S) \in {0, 1}
    BY CountType, OnesAre DEF Types
  <2>3. JobsIn(S)' = Count(batch, S) + Count(Append(tasks, job), S)
    BY <1>1 DEF JobsIn
  <2> QED
    BY <2>1, <2>2, <2>3 DEF JobsIn
<1>3. \A y : One(job \in {y}) = One(job = y)
  BY OneOfSingle
<1> QED
  BY <1>1, <1>2, <1>3, OnesDiffer DEF JobsMove, Types

LEMMA PostMoves ==
  ASSUME Types, batch' = batch
  PROVE  /\ Execute("write") => JobsMove(1, 0, 0, 0, 0, 0)
         /\ Execute("watch") => JobsMove(1, 0, 0, 1, 0, 0)
         /\ Execute("close") => JobsMove(1, 0, 0, 0, 1, 0)
         /\ Execute("error") => JobsMove(1, 0, 0, 0, 0, 1)
         /\ Execute("send") => JobsMove(0, 1, 0, 0, 0, 0)
<1>1. {"write", "watch", "close", "error"} \subseteq Held /\ "send" \notin Held
      /\ {"write", "watch", "close", "error", "send"} \subseteq Jobs
  BY DEF Held, Jobs
<1>2. Execute("write") => JobsMove(1, 0, 0, 0, 0, 0)
  BY <1>1, ExecuteMoves DEF One
<1>3. Execute("watch") => JobsMove(1, 0, 0, 1, 0, 0)
  BY <1>1, ExecuteMoves DEF One
<1>4. Execute("close") => JobsMove(1, 0, 0, 0, 1, 0)
  BY <1>1, ExecuteMoves DEF One
<1>5. Execute("error") => JobsMove(1, 0, 0, 0, 0, 1)
  BY <1>1, ExecuteMoves DEF One
<1>6. Execute("send") => JobsMove(0, 1, 0, 0, 0, 0)
  BY <1>1, ExecuteMoves DEF One
<1> QED
  BY <1>2, <1>3, <1>4, <1>5, <1>6

(* A thread goes on.                                                       *)
LEMMA ThreadMoves ==
  ASSUME Types, NEW u \in Users, NEW x \in Doing, upc' = [upc EXCEPT ![u] = x]
  PROVE  /\ upc[u] \in Doing
         /\ ThreadsMove(One(x \in Busy) - One(upc[u] \in Busy),
                        One(x = "closing") - One(upc[u] = "closing"),
                        One(x = "failing") - One(upc[u] = "failing"))
<1>1. upc \in [Users -> Doing] /\ upc' \in [Users -> Doing] /\ upc[u] \in Doing
  BY DEF Types
<1>2. \A S : ThreadsIn(S) \in Nat /\ ThreadsIn(S)' \in Nat
             /\ ThreadsIn(S)' = ThreadsIn(S) + (One(x \in S) - One(upc[u] \in S))
  <2> TAKE S
  <2>1. /\ Cardinality({v \in Users : upc[v] \in S}) \in Nat
        /\ Cardinality({v \in Users : [upc EXCEPT ![u] = x][v] \in S})
             = Cardinality({v \in Users : upc[v] \in S}) - One(upc[u] \in S) + One(x \in S)
    <3>1. IsFiniteSet(Users)
      BY CoreAssumption
    <3> QED
      BY <1>1, <3>1, CardinalityExcept, SMTT(30)
  <2>2. One(x \in S) \in {0, 1} /\ One(upc[u] \in S) \in {0, 1}
    BY OnesAre
  <2>3. Cardinality({v \in Users : upc'[v] \in S}) \in Nat
    BY CoreAssumption, FS_Subset, FS_CardinalityType
  <2> QED
    BY <2>1, <2>2, <2>3 DEF ThreadsIn
<1>3. \A y, z : One(z \in {y}) = One(z = y)
  BY OneOfSingle
<1> QED
  BY <1>1, <1>2, <1>3, OnesDiffer DEF ThreadsMove

(* Packets come and go.                                                    *)
LEMMA PortAppends ==
  ASSUME Types, NEW x \in Packets, port' = Append(port, x)
  PROVE  PortMoves(One(x \in Receipts), One(x \in Sendings))
<1>1. port \in Seq(Packets) /\ port' \in Seq(Packets)
  BY AppendProperties DEF Types
<1>2. /\ Count(port', Receipts) = Count(port, Receipts) + One(x \in Receipts)
      /\ Count(port', Sendings) = Count(port, Sendings) + One(x \in Sendings)
  BY <1>1, CountAppend
<1>3. Len(port) = Count(port, Receipts) + Count(port, Sendings)
         /\ Count(port, Receipts) \in Nat /\ Count(port, Sendings) \in Nat
  BY <1>1, PortIs
<1>4. Len(port') = Count(port', Receipts) + Count(port', Sendings)
         /\ Count(port', Receipts) \in Nat /\ Count(port', Sendings) \in Nat
  BY <1>1, PortIs
<1> QED
  BY <1>1, <1>2, <1>3, <1>4, OnesDiffer DEF PortMoves

LEMMA PortLosesHead ==
  ASSUME Types, port # <<>>, port' = Tail(port)
  PROVE  /\ Head(port) \in Packets
         /\ PortMoves(-One(Head(port) \in Receipts), -One(Head(port) \in Sendings))
<1>1. port \in Seq(Packets) /\ port' \in Seq(Packets) /\ Head(port) \in Packets
  BY HeadTailProperties DEF Types
<1>2. /\ Count(port, Receipts) = One(Head(port) \in Receipts) + Count(port', Receipts)
      /\ Count(port, Sendings) = One(Head(port) \in Sendings) + Count(port', Sendings)
  BY <1>1, CountTail
<1>3. Len(port) = Count(port, Receipts) + Count(port, Sendings)
         /\ Count(port, Receipts) \in Nat /\ Count(port, Sendings) \in Nat
  BY <1>1, PortIs
<1>4. Len(port') = Count(port', Receipts) + Count(port', Sendings)
         /\ Count(port', Receipts) \in Nat /\ Count(port', Sendings) \in Nat
  BY <1>1, PortIs
<1>5. One(Head(port) \in Receipts) \in {0, 1} /\ One(Head(port) \in Sendings) \in {0, 1}
  BY OnesAre
<1>6. /\ Count(port', Receipts) = Count(port, Receipts) + (-One(Head(port) \in Receipts))
      /\ Count(port', Sendings) = Count(port, Sendings) + (-One(Head(port) \in Sendings))
  BY <1>2, <1>3, <1>4, <1>5
<1> QED
  BY <1>1, <1>3, <1>4, <1>6, OnesDiffer DEF PortMoves
-----------------------------------------------------------------------------
(* The step at the head is done, or others come in its place.              *)
LEMMA TailIs ==
  ASSUME Types, Shape, todo # <<>>
  PROVE  /\ Head(todo) \in Steps /\ Tail(todo) \in Seq(Steps) /\ Tail(todo) \in Seq(Later)
         /\ Len(todo) \in Nat \ {0} /\ Len(Tail(todo)) = Len(todo) - 1
         /\ Head(todo) = todo[1]
         /\ \A i \in 1 .. Len(Tail(todo)) : Tail(todo)[i] = todo[i + 1] /\ Tail(todo)[i] \in Later
         /\ \A i \in 1 .. Len(Tail(todo)) - 1 : Tail(todo)[i] \notin Ending
         /\ Head(todo) \in Ending => Tail(todo) = <<>>
         /\ Tail(todo) # <<>> => Head(Tail(todo)) \in Later
<1>1. todo \in Seq(Steps)
  BY DEF Types
<1>2. /\ Head(todo) \in Steps /\ Tail(todo) \in Seq(Steps)
      /\ Len(todo) \in Nat \ {0} /\ Len(Tail(todo)) = Len(todo) - 1
      /\ Head(todo) = todo[1]
      /\ \A i \in 1 .. Len(Tail(todo)) : Tail(todo)[i] = todo[i + 1]
  BY <1>1, HeadTailProperties, LenProperties, EmptySeq
<1>3. \A i \in 1 .. Len(Tail(todo)) : Tail(todo)[i] \in Later
  BY <1>2 DEF Shape
<1>4. \A i \in 1 .. Len(Tail(todo)) - 1 : Tail(todo)[i] \notin Ending
  BY <1>2 DEF Shape
<1>5. Tail(todo) \in Seq(Later)
  <2>1. Tail(todo) \in [1 .. Len(Tail(todo)) -> Steps] /\ Len(Tail(todo)) \in Nat
    BY <1>2, LenProperties
  <2>2. Tail(todo) \in [1 .. Len(Tail(todo)) -> Later]
    BY <1>3, <2>1
  <2> QED
    BY <2>1, <2>2, SeqDef
<1>6. ASSUME Head(todo) \in Ending PROVE Tail(todo) = <<>>
  <2>1. 1 \notin 1 .. Len(todo) - 1
    BY <1>2, <1>6 DEF Shape
  <2>2. Len(Tail(todo)) = 0
    BY <1>2, <2>1
  <2> QED
    BY <1>2, <2>2, EmptySeq
<1>7. Tail(todo) # <<>> => Head(Tail(todo)) \in Later
  BY <1>5, HeadTailProperties
<1> QED
  BY <1>2, <1>3, <1>4, <1>5, <1>6, <1>7

LEMMA Replaced ==
  ASSUME Types, Shape, todo # <<>>,
         NEW news \in Seq(Steps), todo' = news \o Tail(todo)
  PROVE  /\ todo' \in Seq(Steps)
         /\ \A S : /\ StepsIn(S) \in Nat /\ StepsIn(S)' \in Nat
                   /\ StepsIn(S)' = StepsIn(S) + (Count(news, S) - One(Head(todo) \in S))
<1>1. todo \in Seq(Steps) /\ Tail(todo) \in Seq(Steps)
  BY HeadTailProperties DEF Types
<1>2. todo' \in Seq(Steps)
  BY <1>1, ConcatProperties
<1>3. ASSUME NEW S
      PROVE  /\ StepsIn(S) \in Nat /\ StepsIn(S)' \in Nat
             /\ StepsIn(S)' = StepsIn(S) + (Count(news, S) - One(Head(todo) \in S))
  <2>1. Count(todo, S) = One(Head(todo) \in S) + Count(Tail(todo), S)
    BY <1>1, CountTail
  <2>2. Count(todo', S) = Count(news, S) + Count(Tail(todo), S)
    BY <1>1, CountConcat
  <2>3. /\ Count(Tail(todo), S) \in Nat /\ Count(news, S) \in Nat
        /\ Count(todo, S) \in Nat /\ Count(todo', S) \in Nat
    BY <1>1, <1>2, CountType
  <2>4. One(Head(todo) \in S) \in {0, 1}
    BY DEF One
  <2> QED
    BY <2>1, <2>2, <2>3, <2>4 DEF StepsIn
<1> QED
  BY <1>2, <1>3

LEMMA DoneMoves ==
  ASSUME Types, Shape, NEW step, Is(step), Done
  PROVE  /\ Shape'
         /\ StepsMove(-One(step = "release"), -One(step = "give_back"), -One(step = "leave"),
                      -One(step = "announce"), -One(step \in ReadSteps), -One(step = "watch"),
                      -One(step \in WriteSteps), -One(step = "on_error"), -One(step = "on_closed"))
         /\ todo' # <<>> => Head(todo') \in Later
         /\ step \in Ending => todo' = <<>>
<1>1. todo # <<>> /\ Head(todo) = step /\ todo' = Tail(todo)
  BY DEF Is, Done
<1>2. <<>> \in Seq(Steps) /\ todo' = <<>> \o Tail(todo)
  BY <1>1, HeadTailProperties DEF Types
<1>3. /\ todo' \in Seq(Steps)
      /\ \A S : /\ StepsIn(S) \in Nat /\ StepsIn(S)' \in Nat
                /\ StepsIn(S)' = StepsIn(S) + (Count(<<>>, S) - One(step \in S))
  BY <1>1, <1>2, Replaced
<1>4. \A S : /\ StepsIn(S) \in Nat /\ StepsIn(S)' \in Nat
             /\ StepsIn(S)' = StepsIn(S) + (-One(step \in S))
  <2> TAKE S
  <2>1. Count(<<>>, S) = 0 /\ One(step \in S) \in {0, 1}
    BY CountEmpty DEF One
  <2>2. Count(<<>>, S) - One(step \in S) = -One(step \in S)
    BY <2>1
  <2> QED
    BY <1>3, <2>2
<1>5. \A y : One(step \in {y}) = One(step = y)
  BY OneOfSingle
<1>6. StepsMove(-One(step = "release"), -One(step = "give_back"), -One(step = "leave"),
                -One(step = "announce"), -One(step \in ReadSteps), -One(step = "watch"),
                -One(step \in WriteSteps), -One(step = "on_error"), -One(step = "on_closed"))
  <2>1. /\ StepsIn({"release"})' = StepsIn({"release"}) + (-One(step = "release"))
        /\ StepsIn({"give_back"})' = StepsIn({"give_back"}) + (-One(step = "give_back"))
        /\ StepsIn({"leave"})' = StepsIn({"leave"}) + (-One(step = "leave"))
        /\ StepsIn({"announce"})' = StepsIn({"announce"}) + (-One(step = "announce"))
        /\ StepsIn(ReadSteps)' = StepsIn(ReadSteps) + (-One(step \in ReadSteps))
        /\ StepsIn({"watch"})' = StepsIn({"watch"}) + (-One(step = "watch"))
        /\ StepsIn(WriteSteps)' = StepsIn(WriteSteps) + (-One(step \in WriteSteps))
        /\ StepsIn({"on_error"})' = StepsIn({"on_error"}) + (-One(step = "on_error"))
        /\ StepsIn({"on_closed"})' = StepsIn({"on_closed"}) + (-One(step = "on_closed"))
    BY <1>4, <1>5
  <2>2. todo \in Seq(Steps)
    BY DEF Types
  <2> QED
    BY <1>3, <1>4, <2>1, <2>2, OnesDiffer DEF StepsMove
<1>7. /\ Tail(todo) \in Seq(Later)
      /\ \A i \in 1 .. Len(Tail(todo)) : Tail(todo)[i] = todo[i + 1] /\ Tail(todo)[i] \in Later
      /\ \A i \in 1 .. Len(Tail(todo)) - 1 : Tail(todo)[i] \notin Ending
      /\ Head(todo) \in Ending => Tail(todo) = <<>>
      /\ Tail(todo) # <<>> => Head(Tail(todo)) \in Later
  BY <1>1, TailIs
<1>8. StepsIn({"leave"})' <= StepsIn({"release"})'
  <2>1. CASE step = "release"
    <3>1. todo' = <<>>
      BY <1>1, <1>7, <2>1 DEF Ending
    <3>2. StepsIn({"leave"})' = 0 /\ StepsIn({"release"})' = 0
      BY <3>1, CountEmpty DEF StepsIn
    <3> QED
      BY <3>2
  <2>2. CASE step # "release"
    <3>1. One(step \in {"release"}) = 0 /\ One(step \in {"leave"}) \in {0, 1}
      BY <2>2 DEF One
    <3>2. /\ StepsIn({"release"})' = StepsIn({"release"}) + (-One(step \in {"release"}))
          /\ StepsIn({"leave"})' = StepsIn({"leave"}) + (-One(step \in {"leave"}))
          /\ StepsIn({"release"}) \in Nat /\ StepsIn({"leave"}) \in Nat
      BY <1>4
    <3> QED
      BY <3>1, <3>2 DEF Shape
  <2> QED
    BY <2>1, <2>2
<1>9. Shape'
  <2>1. \A i \in 2 .. Len(todo') : todo'[i] \in Later
    <3>1. Len(todo') \in Nat
      BY <1>3, LenProperties
    <3>2. \A i \in 2 .. Len(todo') : i \in 1 .. Len(todo')
      BY <3>1
    <3> QED
      BY <1>1, <1>7, <3>2
  <2>2. \A i \in 1 .. Len(todo') - 1 : todo'[i] \notin Ending
    BY <1>1, <1>7
  <2>3. todo' # <<>> => Head(todo') \notin {"readable", "on_read"}
    BY <1>1, <1>7 DEF Later, Ending
  <2> QED
    BY <1>8, <2>1, <2>2, <2>3 DEF Shape
<1> QED
  BY <1>1, <1>6, <1>7, <1>9

(* ... by a callback,                                                      *)
LEMMA ThenShape ==
  ASSUME Types, Shape, NEW step, step \notin Ending, Is(step),
         NEW news \in Seq(Steps), news # <<>>, todo' = news \o Tail(todo),
         \A i \in 1 .. Len(news) : news[i] \notin Ending \cup {"leave"},
         \A i \in 2 .. Len(news) : news[i] \in Later,
         news[1] \in {"readable", "on_read"} => StepsIn({"watch"})' >= 1
  PROVE  Shape' /\ todo' # <<>> /\ Head(todo') = news[1]
<1>1. /\ todo # <<>> /\ Head(todo) = step /\ Tail(todo) \in Seq(Steps)
      /\ \A i \in 1 .. Len(Tail(todo)) : Tail(todo)[i] \in Later
      /\ \A i \in 1 .. Len(Tail(todo)) - 1 : Tail(todo)[i] \notin Ending
  BY TailIs DEF Is
<1>2. Len(news) \in Nat \ {0} /\ Len(Tail(todo)) \in Nat
  BY <1>1, LenProperties, EmptySeq
<1>3. /\ todo' \in Seq(Steps) /\ Len(todo') = Len(news) + Len(Tail(todo))
      /\ \A i \in 1 .. Len(todo') :
           todo'[i] = IF i <= Len(news) THEN news[i] ELSE Tail(todo)[i - Len(news)]
  BY <1>1, ConcatProperties
<1>4. Len(todo') \in Nat \ {0} /\ todo'[1] = news[1]
  BY <1>2, <1>3
<1>5. todo' # <<>> /\ Head(todo') = news[1]
  BY <1>3, <1>4, EmptySeq, LenProperties
<1>6. \A i \in 2 .. Len(todo') : todo'[i] \in Later
  <2> SUFFICES ASSUME NEW i \in 2 .. Len(todo') PROVE todo'[i] \in Later
    OBVIOUS
  <2>1. i \in 1 .. Len(todo') /\ i \in Int
    BY <1>4
  <2>2. CASE i <= Len(news)
    <3>1. i \in 2 .. Len(news) /\ todo'[i] = news[i]
      BY <1>2, <1>3, <2>1, <2>2
    <3> QED
      BY <3>1
  <2>3. CASE i > Len(news)
    <3>1. todo'[i] = Tail(todo)[i - Len(news)]
      BY <1>2, <1>3, <2>1, <2>3
    <3>2. i - Len(news) \in 1 .. Len(Tail(todo))
      BY <1>2, <1>3, <2>1, <2>3
    <3> QED
      BY <1>1, <3>1, <3>2
  <2> QED
    BY <1>2, <2>1, <2>2, <2>3
<1>7. \A i \in 1 .. Len(todo') - 1 : todo'[i] \notin Ending
  <2> SUFFICES ASSUME NEW i \in 1 .. Len(todo') - 1 PROVE todo'[i] \notin Ending
    OBVIOUS
  <2>1. i \in 1 .. Len(todo') /\ i \in Int
    BY <1>4
  <2>2. CASE i <= Len(news)
    <3>1. i \in 1 .. Len(news) /\ todo'[i] = news[i]
      BY <1>2, <1>3, <2>1, <2>2
    <3> QED
      BY <3>1
  <2>3. CASE i > Len(news)
    <3>1. todo'[i] = Tail(todo)[i - Len(news)]
      BY <1>2, <1>3, <2>1, <2>3
    <3>2. i - Len(news) \in 1 .. Len(Tail(todo)) - 1
      BY <1>2, <1>3, <2>1, <2>3
    <3> QED
      BY <1>1, <3>1, <3>2
  <2> QED
    BY <1>2, <2>1, <2>2, <2>3
<1>8. StepsIn({"leave"})' <= StepsIn({"release"})'
  <2>1. \A S : /\ StepsIn(S) \in Nat /\ StepsIn(S)' \in Nat
               /\ StepsIn(S)' = StepsIn(S) + (Count(news, S) - One(step \in S))
    BY <1>1, Replaced
  <2>2. Count(news, {"leave"}) = 0
    <3>1. DOMAIN news = 1 .. Len(news)
      BY LenProperties
    <3>2. {i \in DOMAIN news : news[i] \in {"leave"}} = {}
      BY <3>1
    <3> QED
      BY <3>2, FS_EmptySet DEF Count
  <2>3. Count(news, {"release"}) \in Nat
    BY CountType
  <2>4. One(step \in {"release"}) = 0 /\ One(step \in {"leave"}) \in {0, 1}
    BY DEF One, Ending
  <2> QED
    BY <2>1, <2>2, <2>3, <2>4 DEF Shape
<1> QED
  BY <1>5, <1>6, <1>7, <1>8 DEF Shape

LEMMA CallMoves ==
  ASSUME Types, Shape, NEW step, step \notin Ending, Is(step),
         NEW c \in Callbacks \ {"on_closed"}, todo' = <<c>> \o Tail(todo),
         c = "on_read" => step = "readable"
  PROVE  /\ Shape' /\ todo' # <<>> /\ Head(todo') = c
         /\ StepsMove(0, 0, -One(step = "leave"),
                      -One(step = "announce"), -One(step \in ReadSteps), -One(step = "watch"),
                      -One(step \in WriteSteps), One(c = "on_error") - One(step = "on_error"),
                      -One(step = "on_closed"))
<1> DEFINE news == <<c>>
<1>1. /\ news \in Seq(Steps) /\ news # <<>> /\ Len(news) = 1 /\ news[1] = c
      /\ c \notin Ending \cup {"leave", "readable"}
  BY DEF Steps, Callbacks, Ending
<1>2. \A S : Count(news, S) = One(c \in S)
  BY CountSingle
<1>3. todo' = news \o Tail(todo)
  OBVIOUS
<1> HIDE DEF news
<1>4. todo # <<>> /\ Head(todo) = step
  BY DEF Is
<1>5. /\ todo' \in Seq(Steps)
      /\ \A S : /\ StepsIn(S) \in Nat /\ StepsIn(S)' \in Nat
                /\ StepsIn(S)' = StepsIn(S) + (Count(news, S) - One(step \in S))
  BY <1>1, <1>3, <1>4, Replaced
<1>6. \A S : One(step \in S) \in {0, 1} /\ One(c \in S) \in {0, 1}
  BY DEF One
<1>7. /\ One(c \in {"release"}) - One(step \in {"release"}) = 0
      /\ One(c \in {"give_back"}) - One(step \in {"give_back"}) = 0
      /\ One(c \in {"leave"}) - One(step \in {"leave"}) = -One(step = "leave")
      /\ One(c \in {"announce"}) - One(step \in {"announce"}) = -One(step = "announce")
      /\ One(c \in ReadSteps) - One(step \in ReadSteps) = -One(step \in ReadSteps)
      /\ One(c \in {"watch"}) - One(step \in {"watch"}) = -One(step = "watch")
      /\ One(c \in WriteSteps) - One(step \in WriteSteps) = -One(step \in WriteSteps)
      /\ One(c \in {"on_error"}) - One(step \in {"on_error"}) = One(c = "on_error") - One(step = "on_error")
      /\ One(c \in {"on_closed"}) - One(step \in {"on_closed"}) = -One(step = "on_closed")
  BY DEF One, Callbacks, Ending, ReadSteps, WriteSteps, Receipts, Sendings
<1>8. \A S : StepsIn(S)' = StepsIn(S) + (One(c \in S) - One(step \in S))
  BY <1>2, <1>5
<1>9. StepsMove(0, 0, -One(step = "leave"),
                -One(step = "announce"), -One(step \in ReadSteps), -One(step = "watch"),
                -One(step \in WriteSteps), One(c = "on_error") - One(step = "on_error"),
                -One(step = "on_closed"))
  <2>1. /\ StepsIn({"release"})' = StepsIn({"release"}) + 0
        /\ StepsIn({"give_back"})' = StepsIn({"give_back"}) + 0
        /\ StepsIn({"leave"})' = StepsIn({"leave"}) + (-One(step = "leave"))
        /\ StepsIn({"announce"})' = StepsIn({"announce"}) + (-One(step = "announce"))
        /\ StepsIn(ReadSteps)' = StepsIn(ReadSteps) + (-One(step \in ReadSteps))
        /\ StepsIn({"watch"})' = StepsIn({"watch"}) + (-One(step = "watch"))
        /\ StepsIn(WriteSteps)' = StepsIn(WriteSteps) + (-One(step \in WriteSteps))
        /\ StepsIn({"on_error"})' = StepsIn({"on_error"}) + (One(c = "on_error") - One(step = "on_error"))
        /\ StepsIn({"on_closed"})' = StepsIn({"on_closed"}) + (-One(step = "on_closed"))
    BY <1>7, <1>8
  <2>2. todo \in Seq(Steps)
    BY DEF Types
  <2> QED
    BY <1>5, <2>1, <2>2, OnesDiffer DEF StepsMove
<1>10. c = "on_read" => StepsIn({"watch"})' >= 1
  <2> SUFFICES ASSUME c = "on_read" PROVE StepsIn({"watch"})' >= 1
    OBVIOUS
  <2>1. One(step = "watch") = 0 /\ StepsIn({"watch"}) >= 1
    BY <1>4 DEF One, Shape
  <2> QED
    BY <1>9, <2>1 DEF StepsMove
<1>11. Shape' /\ todo' # <<>> /\ Head(todo') = c
  BY <1>1, <1>3, <1>10, ThenShape
<1> QED
  BY <1>9, <1>11

(* or by a callback and another step.                                      *)
LEMMA CallThenMoves ==
  ASSUME Types, Shape, NEW step, step \notin Ending, Is(step),
         NEW c \in Callbacks \ {"on_closed"}, NEW d \in {"watch", "send_remains", "rest"},
         todo' = <<c, d>> \o Tail(todo),
         c = "on_read" => d = "watch"
  PROVE  /\ Shape' /\ todo' # <<>> /\ Head(todo') = c
         /\ StepsMove(0, 0, -One(step = "leave"),
                      -One(step = "announce"), One(d = "watch") - One(step \in ReadSteps),
                      One(d = "watch") - One(step = "watch"),
                      One(d = "send_remains") - One(step \in WriteSteps),
                      One(c = "on_error") - One(step = "on_error"), -One(step = "on_closed"))
<1> DEFINE a == <<c>>
           b == <<d>>
           news == a \o b
<1>1. /\ a \in Seq(Steps) /\ b \in Seq(Steps) /\ Len(a) = 1 /\ Len(b) = 1 /\ a[1] = c /\ b[1] = d
      /\ c \notin Ending \cup {"leave", "readable"} /\ d \notin Ending \cup {"leave"}
      /\ d \in Later
  BY DEF Steps, Callbacks, Ending, Later
<1>2. todo' = news \o Tail(todo)
  BY PairIs
<1>3. \A S : Count(a, S) = One(c \in S) /\ Count(b, S) = One(d \in S)
  BY CountSingle
<1> HIDE DEF a, b
<1>4. \A S : Count(news, S) = One(c \in S) + One(d \in S)
  BY <1>1, <1>3, CountConcat
<1>5. news \in Seq(Steps) /\ Len(news) = 2 /\ news[1] = c /\ news[2] = d
  <2>1. a \in Seq(Steps) /\ b \in Seq(Steps) /\ Len(a) = 1 /\ Len(b) = 1
    BY <1>1
  <2>2. /\ a \o b \in Seq(Steps) /\ Len(a \o b) = 2
        /\ (a \o b)[1] = a[1] /\ (a \o b)[2] = b[1]
    <3>1. /\ a \o b \in Seq(Steps) /\ Len(a \o b) = Len(a) + Len(b)
          /\ \A i \in 1 .. Len(a) + Len(b) :
               (a \o b)[i] = IF i <= Len(a) THEN a[i] ELSE b[i - Len(a)]
      BY <2>1, ConcatProperties
    <3>2. Len(a \o b) = 2
      BY <2>1, <3>1
    <3>3. (a \o b)[1] = a[1]
      BY <2>1, <3>1
    <3>4. (a \o b)[2] = b[1]
      BY <2>1, <3>1
    <3> QED
      BY <3>1, <3>2, <3>3, <3>4
  <2> QED
    BY <1>1, <2>2
<1> HIDE DEF news
<1>6. todo # <<>> /\ Head(todo) = step
  BY DEF Is
<1>7. /\ todo' \in Seq(Steps)
      /\ \A S : /\ StepsIn(S) \in Nat /\ StepsIn(S)' \in Nat
                /\ StepsIn(S)' = StepsIn(S) + (Count(news, S) - One(step \in S))
  BY <1>5, <1>2, <1>6, Replaced
<1>8. /\ One(c \in {"release"}) + One(d \in {"release"}) - One(step \in {"release"}) = 0
      /\ One(c \in {"give_back"}) + One(d \in {"give_back"}) - One(step \in {"give_back"}) = 0
      /\ One(c \in {"leave"}) + One(d \in {"leave"}) - One(step \in {"leave"}) = -One(step = "leave")
      /\ One(c \in {"announce"}) + One(d \in {"announce"}) - One(step \in {"announce"})
           = -One(step = "announce")
      /\ One(c \in {"watch"}) + One(d \in {"watch"}) - One(step \in {"watch"})
           = One(d = "watch") - One(step = "watch")
      /\ One(c \in {"on_error"}) + One(d \in {"on_error"}) - One(step \in {"on_error"})
           = One(c = "on_error") - One(step = "on_error")
      /\ One(c \in {"on_closed"}) + One(d \in {"on_closed"}) - One(step \in {"on_closed"})
           = -One(step = "on_closed")
  BY DEF One, Callbacks, Ending
<1>9. /\ One(c \in ReadSteps) + One(d \in ReadSteps) - One(step \in ReadSteps)
           = One(d = "watch") - One(step \in ReadSteps)
      /\ One(c \in WriteSteps) + One(d \in WriteSteps) - One(step \in WriteSteps)
           = One(d = "send_remains") - One(step \in WriteSteps)
  BY DEF One, Callbacks, ReadSteps, WriteSteps, Receipts, Sendings
<1>10. \A S : StepsIn(S)' = StepsIn(S) + (One(c \in S) + One(d \in S) - One(step \in S))
  <2> TAKE S
  <2>1. /\ StepsIn(S)' = StepsIn(S) + (Count(news, S) - One(step \in S))
        /\ Count(news, S) = One(c \in S) + One(d \in S)
    BY <1>4, <1>7
  <2>2. /\ One(c \in S) \in {0, 1} /\ One(d \in S) \in {0, 1} /\ One(step \in S) \in {0, 1}
        /\ StepsIn(S) \in Nat
    BY <1>7 DEF One
  <2> QED
    BY <2>1, <2>2
<1>11. StepsMove(0, 0, -One(step = "leave"),
                 -One(step = "announce"), One(d = "watch") - One(step \in ReadSteps),
                 One(d = "watch") - One(step = "watch"),
                 One(d = "send_remains") - One(step \in WriteSteps),
                 One(c = "on_error") - One(step = "on_error"), -One(step = "on_closed"))
  <2>1. /\ StepsIn({"release"})' = StepsIn({"release"}) + 0
        /\ StepsIn({"give_back"})' = StepsIn({"give_back"}) + 0
        /\ StepsIn({"leave"})' = StepsIn({"leave"}) + (-One(step = "leave"))
        /\ StepsIn({"announce"})' = StepsIn({"announce"}) + (-One(step = "announce"))
        /\ StepsIn(ReadSteps)' = StepsIn(ReadSteps) + (One(d = "watch") - One(step \in ReadSteps))
        /\ StepsIn({"watch"})' = StepsIn({"watch"}) + (One(d = "watch") - One(step = "watch"))
        /\ StepsIn(WriteSteps)'
             = StepsIn(WriteSteps) + (One(d = "send_remains") - One(step \in WriteSteps))
        /\ StepsIn({"on_error"})' = StepsIn({"on_error"}) + (One(c = "on_error") - One(step = "on_error"))
        /\ StepsIn({"on_closed"})' = StepsIn({"on_closed"}) + (-One(step = "on_closed"))
    BY <1>8, <1>9, <1>10
  <2>2. todo \in Seq(Steps)
    BY DEF Types
  <2> QED
    BY <1>7, <2>1, <2>2, OnesDiffer DEF StepsMove
<1>12. c = "on_read" => StepsIn({"watch"})' >= 1
  <2> SUFFICES ASSUME c = "on_read" PROVE StepsIn({"watch"})' >= 1
    OBVIOUS
  <2>1. CASE step = "watch"
    <3>1. Tail(todo) \in Seq(Later) /\ Tail(todo) \in Seq(Steps)
      BY <1>6, TailIs
    <3>2. Count(todo', {"watch"}) = Count(news, {"watch"}) + Count(Tail(todo), {"watch"})
      <4> DEFINE rest == Tail(todo)
      <4>1. news \in Seq(Steps) /\ rest \in Seq(Steps) /\ todo' = news \o rest
        BY <1>2, <1>5, <3>1
      <4> HIDE DEF news, rest
      <4>2. \A S : Count(news \o rest, S) = Count(news, S) + Count(rest, S)
        BY <4>1, CountConcat
      <4>3. Count(todo', {"watch"}) = Count(news, {"watch"}) + Count(rest, {"watch"})
        BY <4>1, <4>2
      <4> QED
        BY <4>3 DEF rest
    <3>3. Count(news, {"watch"}) = One(c \in {"watch"}) + One(d \in {"watch"})
      BY <1>4
    <3>4. One(c \in {"watch"}) = 0 /\ One(d \in {"watch"}) = 1
      BY DEF One
    <3>5. Count(Tail(todo), {"watch"}) \in Nat
      BY <3>1, CountType
    <3> QED
      BY <3>2, <3>3, <3>4, <3>5 DEF StepsIn
  <2>2. CASE step # "watch"
    <3>1. One(step = "watch") = 0 /\ One(d = "watch") = 1
      BY <2>2 DEF One
    <3>2. /\ StepsIn({"watch"}) \in Nat
          /\ StepsIn({"watch"})' = StepsIn({"watch"}) + (One(d = "watch") - One(step = "watch"))
      BY <1>11 DEF StepsMove
    <3> QED
      BY <3>1, <3>2
  <2> QED
    BY <2>1, <2>2
<1>13. Shape' /\ todo' # <<>> /\ Head(todo') = c
  <2>1. /\ \A i \in 1 .. Len(news) : news[i] \notin Ending \cup {"leave"}
        /\ \A i \in 2 .. Len(news) : news[i] \in Later
        /\ news # <<>>
    <3>1. 1 .. Len(news) = {1, 2} /\ 2 .. Len(news) = {2}
      BY <1>5
    <3>2. news # <<>>
      <4>1. Len(<<>>) = 0 /\ Len(news) # 0
        BY <1>5
      <4> QED
        BY <4>1
    <3> QED
      BY <1>1, <1>5, <3>1, <3>2
  <2> QED
    BY <1>1, <1>2, <1>5, <1>12, <2>1, ThenShape
<1> QED
  BY <1>11, <1>13
-----------------------------------------------------------------------------
(* What calls do.                                                          *)
LEMMA FailNowMoves ==
  ASSUME Types, Shape, NEW step \in {"watch", "recv_failed", "send_failed", "do_write", "readable"},
         Is(step), FailNow(<<>>)
  PROVE  /\ Shape' /\ "error" \in bits'
         /\ \E d \in {0, 1} :
              /\ BitsMove(d, 0)
              /\ StepsMove(0, 0, 0, 0, -One(step \in ReadSteps), -One(step = "watch"),
                           -One(step \in WriteSteps), d, 0)
<1>1. step \notin Ending
  BY DEF Ending
<1>2. /\ One(step = "release") = 0 /\ One(step = "give_back") = 0 /\ One(step = "leave") = 0
      /\ One(step = "announce") = 0 /\ One(step = "on_error") = 0 /\ One(step = "on_closed") = 0
  BY DEF One
<1>3. CASE "error" \in bits
  <2>1. Done /\ bits' = bits
    <3>1. todo' = <<>> \o Tail(todo) /\ bits' = bits /\ Tail(todo) \in Seq(Steps)
      BY <1>3, HeadTailProperties DEF FailNow, Types, Is
    <3> QED
      BY <3>1 DEF Done
  <2>2. BitsMove(0, 0)
    BY <2>1, BitsAre
  <2>3. /\ Shape'
        /\ StepsMove(-One(step = "release"), -One(step = "give_back"), -One(step = "leave"),
                     -One(step = "announce"), -One(step \in ReadSteps), -One(step = "watch"),
                     -One(step \in WriteSteps), -One(step = "on_error"), -One(step = "on_closed"))
    BY <2>1, DoneMoves
  <2>4. StepsMove(0, 0, 0, 0, -One(step \in ReadSteps), -One(step = "watch"),
                  -One(step \in WriteSteps), 0, 0)
    BY <1>2, <2>3 DEF StepsMove
  <2> QED
    BY <1>3, <2>1, <2>2, <2>3, <2>4
<1>4. CASE "error" \notin bits
  <2>1. /\ todo' = <<"on_error">> \o Tail(todo)
        /\ bits' = bits \cup {"error"}
    <3>1. <<"on_error">> \o <<>> = <<"on_error">>
      OBVIOUS
    <3> QED
      BY <1>4, <3>1 DEF FailNow, Then
  <2>2. BitsMove(1, 0)
    BY <1>4, <2>1, BitsAre
  <2>3. "on_error" \in Callbacks \ {"on_closed"} /\ One("on_error" = "on_error") = 1
    BY DEF Callbacks, One
  <2>4. /\ Shape'
        /\ StepsMove(0, 0, -One(step = "leave"),
                     -One(step = "announce"), -One(step \in ReadSteps), -One(step = "watch"),
                     -One(step \in WriteSteps), One("on_error" = "on_error") - One(step = "on_error"),
                     -One(step = "on_closed"))
    BY <1>1, <2>1, <2>3, CallMoves
  <2>5. StepsMove(0, 0, 0, 0, -One(step \in ReadSteps), -One(step = "watch"),
                  -One(step \in WriteSteps), 1, 0)
    BY <1>2, <2>3, <2>4 DEF StepsMove
  <2> QED
    BY <2>1, <2>2, <2>4, <2>5
<1> QED
  BY <1>3, <1>4

LEMMA CloseMoves ==
  ASSUME Types, batch' = batch, close
  PROVE  "close" \in bits'
         /\ \E d \in {0, 1} : BitsMove(0, d) /\ JobsMove(d, 0, 0, 0, d, 0) /\ ref' = ref + d
<1>1. CASE "close" \in bits
  <2>1. BitsMove(0, 0) /\ JobsMove(0, 0, 0, 0, 0, 0) /\ ref' = ref + 0
    BY <1>1, BitsAre, SameJobs DEF close, Types
  <2> QED
    BY <1>1, <2>1 DEF close
<1>2. CASE "close" \notin bits
  <2>1. BitsMove(0, 1) /\ JobsMove(1, 0, 0, 0, 1, 0) /\ ref' = ref + 1
    BY <1>2, BitsAre, PostMoves DEF close, Post
  <2> QED
    BY <1>2, <2>1 DEF close
<1> QED
  BY <1>1, <1>2

LEMMA PropagationMoves ==
  ASSUME Types, batch' = batch, error_propagation
  PROVE  "error" \in bits'
         /\ \E d \in {0, 1} : BitsMove(d, 0) /\ JobsMove(d, 0, 0, 0, 0, d) /\ ref' = ref + d
<1>1. CASE "error" \in bits
  <2>1. BitsMove(0, 0) /\ JobsMove(0, 0, 0, 0, 0, 0) /\ ref' = ref + 0
    BY <1>1, BitsAre, SameJobs DEF error_propagation, Types
  <2> QED
    BY <1>1, <2>1 DEF error_propagation
<1>2. CASE "error" \notin bits
  <2>1. BitsMove(1, 0) /\ JobsMove(1, 0, 0, 0, 0, 1) /\ ref' = ref + 1
    BY <1>2, BitsAre, PostMoves DEF error_propagation, Post
  <2> QED
    BY <1>2, <2>1 DEF error_propagation
<1> QED
  BY <1>1, <1>2
-----------------------------------------------------------------------------
(* Who acts on the channel has seen it announced, and it is not deleted.   *)
LEMMA Announced ==
  ASSUME Inv, todo # <<>>, Head(todo) # "announce"
  PROVE  Unannounced = 0
<1>1. Unannounced \in Nat
  BY NumbersAre DEF Inv, Unannounced
<1>2. ~(Unannounced >= 1)
  <2>1. Head(<<"announce">>) = "announce"
    OBVIOUS
  <2> QED
    BY <2>1 DEF Inv, Untouched
<1> QED
  BY <1>1, <1>2

LEMMA HolderAnnounced ==
  ASSUME Inv, recvs >= 1 \/ sends >= 1 \/ ThreadsIn(Busy) >= 1
  PROVE  Unannounced = 0 /\ (~deleted \/ resumed)
<1>1. /\ JobsIn(Held) \in Nat /\ JobsIn({"send"}) \in Nat /\ JobsIn({"connected"}) \in Nat
      /\ StepsIn({"give_back"}) \in Nat /\ StepsIn({"release"}) \in Nat
      /\ StepsIn({"announce"}) \in Nat /\ ThreadsIn(Busy) \in Nat
  BY NumbersAre DEF Inv
<1>2. ref \in Int /\ own \in Int /\ recvs \in Nat /\ sends \in Nat /\ Len(port) \in Nat
  BY LenProperties DEF Inv, Types
<1>3. ref = recvs + sends + Len(port) + JobsIn({"send"}) + StepsIn({"give_back"})
            + own + JobsIn(Held) + StepsIn({"release"}) + ThreadsIn(Busy)
  BY DEF Inv, Counted, Operations
<1>4. ~(ref = 0 /\ own = 0)
  BY <1>1, <1>2, <1>3
<1>5. Unannounced \in Nat
  BY <1>1 DEF Unannounced
<1>6. ~(Unannounced >= 1)
  BY <1>4 DEF Inv, Untouched
<1>7. ~deleted \/ resumed
  BY <1>4 DEF Inv, Gone
<1> QED
  BY <1>5, <1>6, <1>7
-----------------------------------------------------------------------------
(* What keeps each part of the invariant: the changes balance.             *)
LEMMA OperationsMove ==
  ASSUME
         NEW rel, NEW ret, NEW lea, NEW ann, NEW rd,
         NEW wat, NEW wr, NEW err, NEW clo,
         NEW held, NEW send, NEW conn, NEW jwat, NEW jclo,
         NEW jerr,
         NEW read, NEW wrote,
         NEW refs, NEW acts, NEW owns, NEW dr, NEW ds,
         StepsMove(rel, ret, lea, ann, rd, wat, wr, err, clo),
         JobsMove(held, send, conn, jwat, jclo, jerr), PortMoves(read, wrote),
         CountersMove(refs, acts, owns, dr, ds)
  PROVE  /\ Operations \in Int /\ Operations' \in Int
         /\ Operations' = Operations + (dr + ds + read + wrote + send + ret)
<1> DEFINE p == Count(port, Receipts)
           q == Count(port, Sendings)
           j == JobsIn({"send"})
           g == StepsIn({"give_back"})
<1>1. /\ recvs \in Nat /\ sends \in Nat /\ recvs' = recvs + dr /\ sends' = sends + ds
      /\ dr \in Int /\ ds \in Int
  BY DEF CountersMove
<1>2. /\ p \in Nat /\ q \in Nat /\ p' = p + read /\ q' = q + wrote
      /\ read \in Int /\ wrote \in Int
  BY DEF PortMoves
<1>3. /\ j \in Nat /\ g \in Nat /\ j' = j + send /\ g' = g + ret
      /\ send \in Int /\ ret \in Int
  BY DEF StepsMove, JobsMove
<1>4. Len(port) = p + q /\ Len(port') = p' + q'
  BY DEF PortMoves
<1>5. /\ Operations = recvs + sends + Len(port) + j + g
      /\ Operations' = recvs' + sends' + Len(port') + j' + g'
  BY DEF Operations
<1> HIDE DEF p, q, j, g
<1>6. Operations = recvs + sends + (p + q) + j + g
  BY <1>4, <1>5
<1>7. Operations' = (recvs + dr) + (sends + ds) + ((p + read) + (q + wrote)) + (j + send) + (g + ret)
  BY <1>1, <1>2, <1>3, <1>4, <1>5
<1> HIDE <1>4, <1>5
<1> QED
  BY <1>1, <1>2, <1>3, <1>6, <1>7

Paid(more, refs, acts, owns, held, rel, busy) ==
  /\ OnLinux => acts = owns /\ more = 0
  /\ ~OnLinux => acts = more
  /\ refs = more + owns + held + rel + busy

LEMMA CountedKept ==
  ASSUME Counted, kind' = kind, platform' = platform,
         NEW rel, NEW ret, NEW lea, NEW ann, NEW rd,
         NEW wat, NEW wr, NEW err, NEW clo,
         NEW held, NEW send, NEW conn, NEW jwat, NEW jclo,
         NEW jerr,
         NEW busy, NEW closing, NEW failing,
         NEW read, NEW wrote,
         NEW refs, NEW acts, NEW owns, NEW dr, NEW ds,
         StepsMove(rel, ret, lea, ann, rd, wat, wr, err, clo),
         JobsMove(held, send, conn, jwat, jclo, jerr), ThreadsMove(busy, closing, failing),
         PortMoves(read, wrote), CountersMove(refs, acts, owns, dr, ds),
         Paid(dr + ds + read + wrote + send + ret, refs, acts, owns, held, rel, busy)
  PROVE  Counted'
<1>1. OnLinux' <=> OnLinux
  BY DEF OnLinux
<1>2. /\ ref \in Int /\ active \in Int /\ own \in Int
      /\ ref' = ref + refs /\ active' = active + acts /\ own' = own + owns
      /\ refs \in Int /\ acts \in Int /\ owns \in Int
  BY DEF CountersMove
<1> DEFINE more == dr + ds + read + wrote + send + ret
<1>3. more \in Int
  BY DEF StepsMove, JobsMove, PortMoves, CountersMove
<1>4. /\ Operations \in Int /\ Operations' \in Int
      /\ Operations' = Operations + more
  BY OperationsMove
<1>5. refs = more + owns + held + rel + busy
  BY DEF Paid
<1>10. (OnLinux => acts = owns /\ more = 0) /\ (~OnLinux => acts = more)
  BY DEF Paid
<1> HIDE DEF more
<1> DEFINE h == JobsIn(Held)
           r == StepsIn({"release"})
           b == ThreadsIn(Busy)
<1>6. /\ h \in Int /\ h' = h + held /\ r \in Int /\ r' = r + rel /\ b \in Int /\ b' = b + busy
      /\ held \in Int /\ rel \in Int /\ busy \in Int
  BY DEF StepsMove, JobsMove, ThreadsMove
<1>7. ref = Operations + own + h + r + b
  BY DEF Counted
<1> HIDE DEF h, r, b
<1>8. ref' = Operations' + own' + h' + r' + b'
  <2>1. ref' = Operations + own + h + r + b + (more + owns + held + rel + busy)
    BY <1>2, <1>5, <1>7
  <2>2. Operations' + own' + h' + r' + b'
          = (Operations + more) + (own + owns) + (h + held) + (r + rel) + (b + busy)
    BY <1>2, <1>4, <1>6
  <2> QED
    BY <1>2, <1>3, <1>4, <1>6, <2>1, <2>2
<1>9. ASSUME OnLinux PROVE active' = own' /\ Operations' = 0
  <2>1. active = own /\ Operations = 0
    BY <1>9 DEF Counted
  <2>2. acts = owns /\ more = 0
    BY <1>9, <1>10
  <2> QED
    BY <1>2, <1>4, <2>1, <2>2
<1>11. ASSUME ~OnLinux PROVE active' = Operations'
  <2>1. active = Operations /\ acts = more
    BY <1>10, <1>11 DEF Counted
  <2> QED
    BY <1>2, <1>4, <2>1
<1> QED
  BY <1>1, <1>8, <1>9, <1>11 DEF Counted, h, r, b

Told(bit, told_, step, job, thread) == bit = told_ + step + job + thread
GivenUp(conn, ann, owns, closes, closing, jclo, lea) ==
  conn + ann + owns + closes = closing + jclo + lea

LEMMA OnceEachKept ==
  ASSUME OnceEach, ~resumed' => ~resumed, ~resumed' => own' >= 0,
         NEW rel, NEW ret, NEW lea, NEW ann, NEW rd,
         NEW wat, NEW wr, NEW err, NEW clo,
         NEW held, NEW send, NEW conn, NEW jwat, NEW jclo,
         NEW jerr,
         NEW busy, NEW closing, NEW failing,
         NEW fails, NEW closes, NEW toldErr, NEW toldClo,
         NEW refs, NEW acts, NEW owns, NEW dr, NEW ds,
         StepsMove(rel, ret, lea, ann, rd, wat, wr, err, clo),
         JobsMove(held, send, conn, jwat, jclo, jerr), ThreadsMove(busy, closing, failing),
         BitsMove(fails, closes), ToldMove(toldErr, toldClo), CountersMove(refs, acts, owns, dr, ds),
         ~resumed' => /\ Told(fails, toldErr, err, jerr, failing)
                      /\ Told(closes, toldClo, clo, jclo, closing)
                      /\ GivenUp(conn, ann, owns, closes, closing, jclo, lea)
  PROVE  OnceEach'
<1> SUFFICES ASSUME ~resumed' PROVE OnceEach'
  BY DEF OnceEach
<1> DEFINE oe == StepsIn({"on_error"})
           oc == StepsIn({"on_closed"})
           l == StepsIn({"leave"})
           an == StepsIn({"announce"})
           je == JobsIn({"error"})
           jc == JobsIn({"close"})
           jn == JobsIn({"connected"})
           tf == ThreadsIn({"failing"})
           tc == ThreadsIn({"closing"})
<1>1. /\ oe \in Nat /\ oe' = oe + err /\ oc \in Nat /\ oc' = oc + clo
      /\ l \in Nat /\ l' = l + lea /\ an \in Nat /\ an' = an + ann
      /\ err \in Int /\ clo \in Int /\ lea \in Int /\ ann \in Int
  BY DEF StepsMove
<1>2. /\ je \in Nat /\ je' = je + jerr /\ jc \in Nat /\ jc' = jc + jclo
      /\ jn \in Nat /\ jn' = jn + conn
      /\ tf \in Nat /\ tf' = tf + failing /\ tc \in Nat /\ tc' = tc + closing
      /\ jerr \in Int /\ jclo \in Int /\ conn \in Int /\ failing \in Int /\ closing \in Int
  BY DEF JobsMove, ThreadsMove
<1>3. /\ Failed \in Int /\ Failed' = Failed + fails /\ Closed \in Int /\ Closed' = Closed + closes
      /\ ErrorTold \in Int /\ ErrorTold' = ErrorTold + toldErr
      /\ ClosedTold \in Int /\ ClosedTold' = ClosedTold + toldClo
      /\ fails \in Int /\ closes \in Int /\ toldErr \in Int /\ toldClo \in Int
  BY DEF BitsMove, ToldMove
<1>4. own \in Int /\ own' = own + owns /\ owns \in Int
  BY DEF CountersMove
<1>10. /\ fails = toldErr + err + jerr + failing /\ closes = toldClo + clo + jclo + closing
       /\ conn + ann + owns + closes = closing + jclo + lea
  BY DEF Told, GivenUp
<1>5. /\ Failed = ErrorTold + oe + je + tf
      /\ Closed = ClosedTold + oc + (tc + jc)
      /\ (jn + an) + own + Closed = 1 + (tc + jc) + l
  BY DEF OnceEach, Closers, Unannounced
<1> HIDE DEF oe, oc, l, an, je, jc, jn, tf, tc
<1>6. Failed' = ErrorTold' + oe' + je' + tf'
  BY <1>1, <1>2, <1>3, <1>5, <1>10
<1>7. Closed' = ClosedTold' + oc' + (tc' + jc')
  BY <1>1, <1>2, <1>3, <1>5, <1>10
<1>8. (jn' + an') + own' + Closed' = 1 + (tc' + jc') + l'
  <2>1. (jn' + an') + own' + Closed' = ((jn + an) + own + Closed) + (conn + ann + owns + closes)
    BY <1>1, <1>2, <1>3, <1>4
  <2>2. 1 + (tc' + jc') + l' = (1 + (tc + jc) + l) + (closing + jclo + lea)
    BY <1>1, <1>2
  <2> QED
    BY <1>5, <1>10, <2>1, <2>2
<1>9. /\ Failed' = ErrorTold' + StepsIn({"on_error"})' + JobsIn({"error"})' + ThreadsIn({"failing"})'
      /\ Closed' = ClosedTold' + StepsIn({"on_closed"})' + Closers'
      /\ Unannounced' + own' + Closed' = 1 + Closers' + StepsIn({"leave"})'
  BY <1>6, <1>7, <1>8 DEF oe, oc, l, an, je, jc, jn, tf, tc, Closers, Unannounced
<1> QED
  BY <1>9 DEF OnceEach

(* Linux: the socket stays watched as it is.                               *)
LEMMA WatchedKept ==
  ASSUME Reads, kind' = kind, platform' = platform, ~resumed' => ~resumed,
         NEW rel, NEW ret, NEW lea, NEW ann, NEW rd,
         NEW wat, NEW wr, NEW err, NEW clo,
         NEW fails, NEW closes,
         StepsMove(rel, ret, lea, ann, rd, wat, wr, err, clo), BitsMove(fails, closes),
         watched' = watched, Unannounced = 0,
         wat \in Nat, fails \in Nat, closes \in Nat
  PROVE  ~resumed' /\ ~Dead' /\ OnLinux /\ Unannounced' = 0 /\ StepsIn({"watch"})' = 0 =>
           watched' = ("pending" \notin bits')
<1>1. ~Dead' => ~Dead
  BY DEF BitsMove
<1>2. StepsIn({"watch"})' = 0 => StepsIn({"watch"}) = 0
  <2>1. StepsIn({"watch"}) \in Nat /\ StepsIn({"watch"})' \in Nat /\ StepsIn({"watch"})' = StepsIn({"watch"}) + wat
    BY DEF StepsMove
  <2> QED
    BY <2>1
<1>3. "pending" \in bits' <=> "pending" \in bits
  BY DEF BitsMove
<1> QED
  BY <1>1, <1>2, <1>3 DEF Reads

LEMMA ReadsKept ==
  ASSUME Reads, kind' = kind, platform' = platform, ~resumed' => ~resumed,
         NEW rel, NEW ret, NEW lea, NEW ann, NEW rd,
         NEW wat, NEW wr, NEW err, NEW clo,
         NEW held, NEW send, NEW conn, NEW jwat, NEW jclo,
         NEW jerr,
         NEW fails, NEW closes, NEW read, NEW wrote,
         NEW refs, NEW acts, NEW owns, NEW dr, NEW ds,
         StepsMove(rel, ret, lea, ann, rd, wat, wr, err, clo),
         JobsMove(held, send, conn, jwat, jclo, jerr), PortMoves(read, wrote),
         BitsMove(fails, closes), CountersMove(refs, acts, owns, dr, ds),
         "pending" \in bits => dr + read <= 0,
         "pending" \notin bits =>
           /\ jwat <= 0
           /\ dr + read + rd + conn <= 0 \/ Readers + (dr + read + rd + conn) <= 1
           /\ dr + read + rd + conn >= 0 \/ Dead' \/ OnLinux,
         ~resumed' /\ ~Dead' /\ OnLinux /\ Unannounced' = 0 /\ StepsIn({"watch"})' = 0 =>
           watched' = ("pending" \notin bits'),
         fails \in Nat, closes \in Nat
  PROVE  Reads'
<1>1. OnLinux' <=> OnLinux
  BY DEF OnLinux
<1> DEFINE p == Count(port, Receipts)
           s == StepsIn(ReadSteps)
           j == JobsIn({"connected"})
           w == JobsIn({"watch"})
           change == dr + read + rd + conn
<1>2. /\ recvs \in Nat /\ recvs' \in Nat /\ recvs' = recvs + dr
      /\ p \in Nat /\ p' \in Nat /\ p' = p + read /\ s \in Nat /\ s' \in Nat /\ s' = s + rd
      /\ j \in Nat /\ j' \in Nat /\ j' = j + conn /\ w \in Nat /\ w' \in Nat /\ w' = w + jwat
      /\ dr \in Int /\ read \in Int /\ rd \in Int /\ conn \in Int /\ jwat \in Int
  BY DEF StepsMove, JobsMove, PortMoves, CountersMove
<1>3. Fetching = recvs + p /\ Fetching' = recvs' + p' /\ Readers = recvs + p + s + j
      /\ Readers' = recvs' + p' + s' + j'
  BY DEF Fetching, Readers
<1>4. ("pending" \in bits' <=> "pending" \in bits) /\ (Dead => Dead')
  BY DEF BitsMove
<1>5. ASSUME "pending" \in bits' PROVE Fetching' = 0
  <2>1. Fetching = 0 /\ dr + read <= 0
    BY <1>4, <1>5 DEF Reads
  <2> HIDE DEF p, s, j, w
  <2> QED
    BY <1>2, <1>3, <2>1
<1>6. ASSUME "pending" \notin bits'
      PROVE  Readers' <= 1 /\ w' = 0 /\ (~resumed' /\ ~Dead' /\ ~OnLinux => Readers' >= 1)
  <2>1. /\ Readers <= 1 /\ w = 0 /\ (~resumed' /\ ~Dead' /\ ~OnLinux => Readers >= 1)
    BY <1>4, <1>6 DEF Reads
  <2>2. /\ jwat <= 0 /\ (change <= 0 \/ Readers + change <= 1)
        /\ (~Dead' /\ ~OnLinux => change >= 0)
    BY <1>4, <1>6
  <2>3. Readers \in Nat /\ Readers' \in Nat /\ Readers' = Readers + change /\ change \in Int
    <3> HIDE DEF p, s, j, w
    <3> QED
      BY <1>2, <1>3
  <2> HIDE DEF p, s, j, w, change
  <2> QED
    BY <1>2, <2>1, <2>2, <2>3
<1> QED
  BY <1>1, <1>5, <1>6 DEF Reads

LEMMA WritesKept ==
  ASSUME Writes, kind' = kind, ~resumed' => ~resumed, sendq \in Nat, sendq' = sendq,
         inflight' = inflight,
         NEW rel, NEW ret, NEW lea, NEW ann, NEW rd,
         NEW wat, NEW wr, NEW err, NEW clo,
         NEW held, NEW send, NEW conn, NEW jwat, NEW jclo,
         NEW jerr,
         NEW fails, NEW closes, NEW read, NEW wrote,
         NEW refs, NEW acts, NEW owns, NEW dr, NEW ds,
         StepsMove(rel, ret, lea, ann, rd, wat, wr, err, clo),
         JobsMove(held, send, conn, jwat, jclo, jerr), PortMoves(read, wrote),
         BitsMove(fails, closes), CountersMove(refs, acts, owns, dr, ds),
         ds + wrote + send + wr \in {0, -1}, ds + wrote + send + wr = -1 => Dead',
         fails \in Nat, closes \in Nat
  PROVE  Writes'
<1> DEFINE p == Count(port, Sendings)
           s == StepsIn(WriteSteps)
           j == JobsIn({"send"})
           change == ds + wrote + send + wr
<1>1. /\ sends \in Nat /\ sends' \in Nat /\ sends' = sends + ds
      /\ p \in Nat /\ p' \in Nat /\ p' = p + wrote /\ s \in Nat /\ s' \in Nat /\ s' = s + wr
      /\ j \in Nat /\ j' \in Nat /\ j' = j + send
      /\ ds \in Int /\ wrote \in Int /\ wr \in Int /\ send \in Int
  BY DEF StepsMove, JobsMove, PortMoves, CountersMove
<1>2. Writers \in Nat /\ Writers' \in Nat /\ Writers' = Writers + change
  <2>1. Writers = sends + p + j + s /\ Writers' = sends' + p' + j' + s'
    BY DEF Writers
  <2> HIDE DEF p, s, j
  <2> QED
    BY <1>1, <2>1
<1>3. change \in {0, -1} /\ (change = -1 => Dead')
  OBVIOUS
<1> HIDE DEF p, s, j, change
<1>4. Dead => Dead'
  BY DEF BitsMove
<1>5. Writers' <= 1
  <2>1. Writers <= 1
    BY DEF Writes
  <2> QED
    BY <1>2, <1>3, <2>1
<1>6. sendq = 0 => Writers' = 0
  <2>1. sendq = 0 => Writers = 0
    BY DEF Writes
  <2> QED
    BY <1>2, <1>3, <2>1
<1>7. ASSUME kind' = "tcp", ~resumed', ~Dead', sendq >= 1 PROVE Writers' >= 1
  <2>1. Writers >= 1 /\ change # -1
    BY <1>3, <1>4, <1>7 DEF Writes
  <2> QED
    BY <1>2, <1>3, <2>1
<1> QED
  BY <1>5, <1>6, <1>7 DEF Writes

LEMMA HandlerKept ==
  ASSUME HandlerHolds, own >= 1 => own' >= 1, todo # <<>>,
         NEW rel, NEW ret, NEW lea, NEW ann, NEW rd,
         NEW wat, NEW wr, NEW err, NEW clo,
         StepsMove(rel, ret, lea, ann, rd, wat, wr, err, clo), rel >= 0, ret >= 0, ann >= 0
  PROVE  HandlerHolds'
<1>1. /\ StepsIn({"release"}) \in Nat /\ StepsIn({"release"})' = StepsIn({"release"}) + rel
      /\ StepsIn({"give_back"}) \in Nat /\ StepsIn({"give_back"})' = StepsIn({"give_back"}) + ret
      /\ StepsIn({"announce"}) \in Nat /\ StepsIn({"announce"})' = StepsIn({"announce"}) + ann
      /\ rel \in Int /\ ret \in Int /\ ann \in Int
  BY DEF StepsMove
<1>2. StepsIn({"release"}) >= 1 => StepsIn({"release"})' >= 1
  BY <1>1
<1>3. StepsIn({"give_back"}) >= 1 => StepsIn({"give_back"})' >= 1
  BY <1>1
<1>4. StepsIn({"announce"}) >= 1 => StepsIn({"announce"})' >= 1
  BY <1>1
<1> QED
  BY <1>2, <1>3, <1>4 DEF HandlerHolds

LEMMA RestKept ==
  ASSUME
         NEW rel, NEW ret, NEW lea, NEW ann, NEW rd,
         NEW wat, NEW wr, NEW err, NEW clo,
         NEW held, NEW send, NEW conn, NEW jwat, NEW jclo,
         NEW jerr,
         StepsMove(rel, ret, lea, ann, rd, wat, wr, err, clo),
         JobsMove(held, send, conn, jwat, jclo, jerr),
         Unannounced = 0, conn + ann \in {0}, ~deleted' \/ resumed'
  PROVE  Unannounced' = 0 /\ Untouched' /\ Gone'
<1>1. /\ StepsIn({"announce"}) \in Nat /\ StepsIn({"announce"})' \in Nat /\ StepsIn({"announce"})' = StepsIn({"announce"}) + ann
      /\ JobsIn({"connected"}) \in Nat /\ JobsIn({"connected"})' \in Nat
      /\ JobsIn({"connected"})' = JobsIn({"connected"}) + conn
      /\ conn \in Int /\ ann \in Int
  BY DEF StepsMove, JobsMove
<1>2. Unannounced' = 0
  BY <1>1 DEF Unannounced
<1> QED
  BY <1>2 DEF Untouched, Gone

LEMMA TypesKept ==
  ASSUME Types, sendq' \in Nat, inflight' \in Nat, deleted' \in BOOLEAN, resumed' \in BOOLEAN,
         phase' # "tasks" => batch' = <<>>,
         NEW rel, NEW ret, NEW lea, NEW ann, NEW rd,
         NEW wat, NEW wr, NEW err, NEW clo,
         NEW held, NEW send, NEW conn, NEW jwat, NEW jclo,
         NEW jerr,
         NEW busy, NEW closing, NEW failing,
         NEW fails, NEW closes, NEW read, NEW wrote,
         NEW refs, NEW acts, NEW owns, NEW dr, NEW ds,
         StepsMove(rel, ret, lea, ann, rd, wat, wr, err, clo),
         JobsMove(held, send, conn, jwat, jclo, jerr), ThreadsMove(busy, closing, failing),
         PortMoves(read, wrote), BitsMove(fails, closes), CountersMove(refs, acts, owns, dr, ds)
  PROVE  Types'
BY DEF Types, StepsMove, JobsMove, ThreadsMove, PortMoves, BitsMove, CountersMove

(* Steps that balance by themselves: no reference of an operation, of the  *)
(* channel or of a handler is taken or given back.                         *)
Balances(rd, wat, wr, err, clo, held, jclo, jerr, busy, closing, failing, read, wrote,
         fails, closes, toldErr, toldClo) ==
  /\ rd \in {0, -1} /\ wat \in Nat /\ wr \in {0, -1} /\ fails \in Nat /\ closes \in Nat
  /\ Shape' /\ Unannounced = 0 /\ (~deleted \/ resumed)
  /\ kind' = kind /\ platform' = platform /\ watched' = watched
  /\ sendq' = sendq /\ inflight' = inflight
  /\ deleted' = deleted /\ resumed' = resumed
  /\ (phase' # "tasks" => batch' = <<>>) /\ (todo # <<>> \/ todo' = <<>>)
  /\ StepsMove(0, 0, 0, 0, rd, wat, wr, err, clo) /\ JobsMove(held, 0, 0, 0, jclo, jerr)
  /\ ThreadsMove(busy, closing, failing) /\ PortMoves(read, wrote) /\ BitsMove(fails, closes)
  /\ ToldMove(toldErr, toldClo) /\ CountersMove(held + busy, 0, 0, 0 - read, 0 - wrote)
  /\ ~resumed' => /\ fails = toldErr + err + jerr + failing
                  /\ closes = closing + jclo /\ toldClo + clo = 0
  /\ (rd = -1 \/ wr = -1 => Dead')

LEMMA StepInv ==
  ASSUME Inv,
         NEW rd, NEW wat, NEW wr, NEW err, NEW clo, NEW held, NEW jclo, NEW jerr,
         NEW busy, NEW closing, NEW failing, NEW read, NEW wrote, NEW fails, NEW closes,
         NEW toldErr, NEW toldClo,
         Balances(rd, wat, wr, err, clo, held, jclo, jerr, busy, closing, failing, read, wrote,
                  fails, closes, toldErr, toldClo)
  PROVE  Inv'
<1>1. /\ Types /\ Shape /\ Counted /\ Untouched /\ HandlerHolds /\ OnceEach /\ Gone /\ Reads
      /\ Writes
  BY DEF Inv
<1>2. /\ rd \in {0, -1} /\ wr \in {0, -1} /\ wat \in Nat /\ fails \in Nat /\ closes \in Nat
      /\ held \in Int /\ busy \in Int /\ read \in Int /\ wrote \in Int
      /\ err \in Int /\ clo \in Int /\ jclo \in Int /\ jerr \in Int
      /\ closing \in Int /\ failing \in Int /\ toldErr \in Int /\ toldClo \in Int
  BY DEF Balances, StepsMove, JobsMove, ThreadsMove, PortMoves, ToldMove
<1>3. /\ Shape' /\ kind' = kind /\ platform' = platform /\ watched' = watched
      /\ sendq' = sendq /\ inflight' = inflight /\ Unannounced = 0
  BY DEF Balances
<1> DEFINE refs == held + busy
           receives == 0 - read
           writes == 0 - wrote
<1>20. refs \in Int /\ receives \in Int /\ writes \in Int
  BY <1>2
<1>21. StepsMove(0, 0, 0, 0, rd, wat, wr, err, clo)
  BY DEF Balances
<1>22. JobsMove(held, 0, 0, 0, jclo, jerr)
  BY DEF Balances
<1>23. ThreadsMove(busy, closing, failing) /\ PortMoves(read, wrote)
  BY DEF Balances
<1>24. BitsMove(fails, closes) /\ ToldMove(toldErr, toldClo)
  BY DEF Balances
<1>25. CountersMove(refs, 0, 0, receives, writes)
  BY DEF Balances
<1>5. deleted' = deleted /\ resumed' = resumed /\ (~resumed' => ~resumed) /\ (~deleted' \/ resumed')
  BY DEF Balances
<1>6. own' = own
  <2>1. own \in Int /\ own' = own + 0
    BY <1>25 DEF CountersMove
  <2> QED
    BY <2>1
<1>7. /\ ~resumed' => /\ fails = toldErr + err + jerr + failing
                      /\ closes = closing + jclo /\ toldClo + clo = 0
      /\ (rd = -1 \/ wr = -1 => Dead')
  BY DEF Balances
<1>8. Types'
  <2>1. (phase' # "tasks" => batch' = <<>>) /\ sendq' \in Nat /\ inflight' \in Nat
    BY <1>1, <1>3 DEF Types, Balances
  <2>2. deleted' \in BOOLEAN /\ resumed' \in BOOLEAN
    BY <1>1, <1>5, Zenon DEF Types
  <2> QED
    BY <1>1, <1>2, <1>20, <1>21, <1>22, <1>23, <1>24, <1>25, <2>1, <2>2, TypesKept
<1>9. Unannounced' = 0 /\ Untouched' /\ Gone'
  <2>1. 0 + 0 = 0 /\ Unannounced = 0 /\ (~deleted' \/ resumed')
    BY <1>3, <1>5
  <2> QED
    BY <1>2, <1>21, <1>22, <2>1, RestKept
<1>10. Counted'
  <2>1. Paid(receives + writes + read + wrote + 0 + 0, refs, 0, 0, held, 0, busy)
    BY <1>2 DEF Paid
  <2>2. kind' = kind /\ platform' = platform
    BY <1>3
  <2> HIDE DEF refs, receives, writes
  <2> QED
    BY <1>1, <1>2, <1>20, <1>21, <1>22, <1>23, <1>25, <2>1, <2>2, CountedKept
<1>11. HandlerHolds'
  <2>1. own >= 1 => own' >= 1
    BY <1>6
  <2>2. CASE todo # <<>>
    BY <1>1, <1>2, <1>21, <2>1, <2>2, HandlerKept, SMTT(30)
  <2>3. CASE todo' = <<>>
    BY <2>3 DEF HandlerHolds
  <2> QED
    BY <2>2, <2>3 DEF Balances
<1>12. OnceEach'
  <2>1. ~resumed' => /\ Told(fails, toldErr, err, jerr, failing)
                     /\ Told(closes, toldClo, clo, jclo, closing)
                     /\ GivenUp(0, 0, 0, closes, closing, jclo, 0)
    BY <1>2, <1>7 DEF Told, GivenUp
  <2>2. ~resumed' => own' >= 0
    BY <1>1, <1>5, <1>6 DEF OnceEach
  <2>3. (~resumed' => ~resumed)
    BY <1>5
  <2> HIDE DEF refs, receives, writes
  <2> QED
    BY <1>1, <1>2, <1>20, <1>21, <1>22, <1>23, <1>24, <1>25, <2>1, <2>2, <2>3, OnceEachKept
<1>13. Reads'
  <2>1. ~resumed' /\ ~Dead' /\ OnLinux /\ Unannounced' = 0 /\ StepsIn({"watch"})' = 0 =>
           watched' = ("pending" \notin bits')
    <3>1. watched' = watched /\ kind' = kind /\ platform' = platform /\ Unannounced = 0
      BY <1>3
    <3>2. (~resumed' => ~resumed)
      BY <1>5
    <3> QED
      BY <1>1, <1>2, <1>21, <1>24, <3>1, <3>2, WatchedKept
  <2>2. receives + read <= 0
    BY <1>2
  <2>3. /\ 0 <= 0
        /\ receives + read + rd + 0 <= 0
        /\ receives + read + rd + 0 >= 0 \/ Dead'
    BY <1>2, <1>7
  <2> HIDE DEF refs, receives, writes
  <2> QED
    BY <1>1, <1>2, <1>3, <1>5, <1>20, <1>21, <1>22, <1>23, <1>24, <1>25, <2>1, <2>2, <2>3, ReadsKept
<1>14. Writes'
  <2>1. writes + wrote + 0 + wr \in {0, -1} /\ (writes + wrote + 0 + wr = -1 => Dead')
    BY <1>2, <1>7
  <2>2. sendq \in Nat
    BY <1>1 DEF Types
  <2> HIDE DEF refs, receives, writes
  <2> QED
    BY <1>1, <1>2, <1>3, <1>5, <1>20, <1>21, <1>22, <1>23, <1>24, <1>25, <2>1, <2>2, WritesKept
<1> QED
  BY <1>1, <1>3, <1>8, <1>9, <1>10, <1>11, <1>12, <1>13, <1>14 DEF Inv
-----------------------------------------------------------------------------
(* Steps that move nothing.                                                *)
LEMMA QuietInv ==
  ASSUME Inv, \A S : JobsIn(S)' = JobsIn(S), tasks' \in Seq(Jobs), batch' \in Seq(Jobs),
         UNCHANGED <<todo, upc, port, bits, told, ref, active, own, recvs, sends, sendq, inflight>>,
         UNCHANGED <<deleted, resumed, watched, kind, platform>>,
         phase' # "tasks" => batch' = <<>>
  PROVE  Inv'
<1> USE DEF Inv
<1>1. \A S : StepsIn(S)' = StepsIn(S) /\ ThreadsIn(S)' = ThreadsIn(S)
  BY DEF StepsIn, ThreadsIn
<1>2. (OnLinux' <=> OnLinux) /\ (Dead' <=> Dead)
  BY DEF OnLinux, Dead
<1>3. Operations' = Operations /\ Unannounced' = Unannounced
  BY <1>1 DEF Operations, Unannounced
<1>4. Types'
  BY DEF Types
<1>5. Shape'
  BY SameShape
<1>6. Counted'
  BY <1>1, <1>2, <1>3 DEF Counted
<1>7. Untouched' /\ Gone' /\ HandlerHolds'
  BY <1>1, <1>3 DEF Untouched, Gone, HandlerHolds
<1>8. OnceEach'
  <2>1. Failed' = Failed /\ Closed' = Closed /\ ErrorTold' = ErrorTold /\ ClosedTold' = ClosedTold
        /\ Closers' = Closers
    BY <1>1 DEF Failed, Closed, ErrorTold, ClosedTold, Closers
  <2> QED
    BY <1>1, <1>3, <2>1 DEF OnceEach
<1>9. Reads'
  <2>1. Fetching' = Fetching /\ Readers' = Readers
    BY <1>1 DEF Fetching, Readers
  <2> QED
    BY <1>1, <1>2, <1>3, <2>1 DEF Reads
<1>10. Writes'
  <2>1. Writers' = Writers
    BY <1>1 DEF Writers
  <2> QED
    BY <1>2, <2>1 DEF Writes
<1> QED
  BY <1>4, <1>5, <1>6, <1>7, <1>8, <1>9, <1>10

(* What the loop, the jobs, the filters and other threads leave alone.     *)
Aside ==
  UNCHANGED <<kind, platform, watched, recvs, port, sendq, inflight, sends>>

LEMMA SameInv ==
  ASSUME Inv, UNCHANGED coreVars, Aside PROVE Inv'
<1>1. /\ UNCHANGED <<tasks, batch, phase, todo, upc, port, bits, told, ref, active, own, recvs>>
      /\ UNCHANGED <<sends, sendq, inflight>>
      /\ UNCHANGED <<deleted, resumed, watched, kind, platform>>
  BY DEF coreVars, state, loop, history, Aside
<1>2. \A S : JobsIn(S)' = JobsIn(S)
  BY <1>1 DEF JobsIn
<1>3. tasks' \in Seq(Jobs) /\ batch' \in Seq(Jobs) /\ (phase' # "tasks" => batch' = <<>>)
  BY <1>1 DEF Inv, Types
<1> QED
  BY <1>1, <1>2, <1>3, QuietInv

LEMMA SpliceInv ==
  ASSUME Inv, Splice \/ NextIteration, Aside PROVE Inv'
<1>1. /\ UNCHANGED <<todo, upc, port, bits, told, ref, active, own, recvs, sends, sendq, inflight>>
      /\ UNCHANGED <<deleted, resumed, watched, kind, platform>>
  BY DEF Splice, NextIteration, state, history, Aside
<1>2. tasks \in Seq(Jobs) /\ batch \in Seq(Jobs) /\ (phase # "tasks" => batch = <<>>)
  BY DEF Inv, Types
<1>3. CASE Splice
  <2>1. batch = <<>> /\ batch' = tasks /\ tasks' = <<>> /\ phase' = "tasks"
    BY <1>2, <1>3 DEF Splice
  <2>2. tasks' \in Seq(Jobs) /\ batch' \in Seq(Jobs) /\ (phase' # "tasks" => batch' = <<>>)
    BY <1>2, <2>1
  <2>3. \A S : JobsIn(S)' = JobsIn(S)
    <3> TAKE S
    <3>1. JobsIn(S) = Count(<<>>, S) + Count(tasks, S) /\ JobsIn(S)' = Count(tasks, S) + Count(<<>>, S)
      BY <2>1 DEF JobsIn
    <3>2. Count(<<>>, S) \in Nat /\ Count(tasks, S) \in Nat
      <4>1. <<>> \in Seq(Jobs)
        OBVIOUS
      <4> QED
        BY <1>2, <4>1, CountType
    <3> QED
      BY <3>1, <3>2
  <2> QED
    BY <1>1, <2>2, <2>3, QuietInv
<1>4. CASE NextIteration
  <2>1. UNCHANGED <<tasks, batch>> /\ batch = <<>>
    BY <1>4 DEF NextIteration
  <2>2. \A S : JobsIn(S)' = JobsIn(S)
    BY <2>1 DEF JobsIn
  <2> QED
    BY <1>1, <1>2, <2>1, <2>2, QuietInv
<1> QED
  BY <1>3, <1>4

(* What is at the head of a handler counts.                                *)
LEMMA HeadCounts ==
  ASSUME Types, todo # <<>>, NEW S, Head(todo) \in S
  PROVE  StepsIn(S) >= 1
<1>1. todo \in Seq(Steps) /\ Tail(todo) \in Seq(Steps)
  BY HeadTailProperties DEF Types
<1>2. Count(todo, S) = One(Head(todo) \in S) + Count(Tail(todo), S)
  BY <1>1, CountTail
<1>3. One(Head(todo) \in S) = 1 /\ Count(Tail(todo), S) \in Nat
  BY <1>1, CountType DEF One
<1> QED
  BY <1>2, <1>3 DEF StepsIn

(* A thread inside a call holds a reference.                               *)
LEMMA BusyIsHeld ==
  ASSUME Inv, NEW u \in Users, upc[u] \in Busy PROVE ThreadsIn(Busy) >= 1
<1>1. IsFiniteSet({v \in Users : upc[v] \in Busy}) /\ u \in {v \in Users : upc[v] \in Busy}
  BY CoreAssumption, FS_Subset
<1>2. /\ Cardinality({v \in Users : upc[v] \in Busy}) \in Nat
      /\ Cardinality({v \in Users : upc[v] \in Busy}) # 0
  BY <1>1, FS_CardinalityType, FS_EmptySet
<1> QED
  BY <1>2 DEF ThreadsIn

(* A handler in progress has no connection to announce, unless it is that. *)
LEMMA InCallbackIs ==
  ASSUME Inv, InCallback
  PROVE  /\ todo # <<>> /\ Unannounced = 0
         /\ Head(todo) \in Callbacks \cup {"rest"} /\ Head(todo) \notin Ending \cup {"leave"}
         /\ One(Head(todo) \in ReadSteps) = 0 /\ One(Head(todo) \in WriteSteps) = 0
         /\ One(Head(todo) = "watch") = 0
<1>1. todo # <<>> /\ Head(todo) \in Callbacks \cup {"rest"}
  BY DEF InCallback, Idle
<1>2. /\ Head(todo) # "announce" /\ Head(todo) # "watch" /\ Head(todo) \notin Ending \cup {"leave"}
      /\ Head(todo) \notin ReadSteps /\ Head(todo) \notin WriteSteps
  BY <1>1 DEF Callbacks, Ending, ReadSteps, WriteSteps, Receipts, Sendings
<1> QED
  BY <1>1, <1>2, Announced DEF One

(* Calls from a callback that post a job.                                  *)
LEMMA CallbackPostsInv ==
  ASSUME Inv, ~deleted, CallbackCloses \/ CallbackWrites \/ CallbackFails, Aside PROVE Inv'
<1>1. todo # <<>> /\ Unannounced = 0
  BY InCallbackIs DEF CallbackCloses, CallbackWrites, CallbackFails
<1>2. /\ Types /\ Shape /\ (phase # "tasks" => batch = <<>>)
      /\ UNCHANGED <<active, deleted, batch, phase, todo, upc, own, told, resumed>>
  BY DEF Inv, Types, CallbackCloses, CallbackWrites, CallbackFails
<1>4. StepsMove(0, 0, 0, 0, 0, 0, 0, 0, 0) /\ ThreadsMove(0, 0, 0) /\ PortMoves(0, 0)
      /\ ToldMove(0, 0) /\ Shape'
  BY <1>2, SameSteps, SameShape, SameThreads, SamePort, SameTold DEF Aside
<1>5. CASE CallbackCloses
  <2>1. PICK d \in {0, 1} : BitsMove(0, d) /\ JobsMove(d, 0, 0, 0, d, 0) /\ ref' = ref + d
    BY <1>2, <1>5, CloseMoves DEF CallbackCloses
  <2>2. CountersMove(d + 0, 0, 0, 0 - 0, 0 - 0)
    BY <1>2, <2>1 DEF CountersMove, Aside, Types
  <2>3. Balances(0, 0, 0, 0, 0, d, d, 0, 0, 0, 0, 0, 0, 0, d, 0, 0)
    BY <1>1, <1>2, <1>4, <2>1, <2>2 DEF Balances, Aside
  <2> QED
    BY <2>3, StepInv
<1>6. CASE CallbackFails
  <2>1. PICK d \in {0, 1} : BitsMove(d, 0) /\ JobsMove(d, 0, 0, 0, 0, d) /\ ref' = ref + d
    BY <1>2, <1>6, PropagationMoves DEF CallbackFails
  <2>2. CountersMove(d + 0, 0, 0, 0 - 0, 0 - 0)
    BY <1>2, <2>1 DEF CountersMove, Aside, Types
  <2>3. Balances(0, 0, 0, 0, 0, d, 0, d, 0, 0, 0, 0, 0, d, 0, 0, 0)
    BY <1>1, <1>2, <1>4, <2>1, <2>2 DEF Balances, Aside
  <2> QED
    BY <2>3, StepInv
<1>7. CASE CallbackWrites
  <2>1. BitsMove(0, 0) /\ JobsMove(1, 0, 0, 0, 0, 0) /\ ref' = ref + 1
    BY <1>2, <1>7, BitsAre, PostMoves DEF CallbackWrites, Post
  <2>2. CountersMove(1 + 0, 0, 0, 0 - 0, 0 - 0)
    BY <1>2, <2>1 DEF CountersMove, Aside, Types
  <2>3. Balances(0, 0, 0, 0, 0, 1, 0, 0, 0, 0, 0, 0, 0, 0, 0, 0, 0)
    BY <1>1, <1>2, <1>4, <2>1, <2>2 DEF Balances, Aside
  <2> QED
    BY <2>3, StepInv
<1> QED
  BY <1>5, <1>6, <1>7

LEMMA CallbackSharesInv ==
  ASSUME Inv, ~deleted, CallbackShares, Aside PROVE Inv'
<1>1. todo # <<>> /\ Unannounced = 0
  BY Announced DEF CallbackShares, Is
<1>2. /\ Types /\ Shape /\ (phase # "tasks" => batch = <<>>)
      /\ UNCHANGED <<bits, active, deleted, tasks, batch, phase, todo, own, told, resumed>>
      /\ ref' = ref + 1
  BY DEF Inv, Types, CallbackShares, loop, history
<1>3. PICK u \in Users : upc[u] = "out" /\ upc' = [upc EXCEPT ![u] = "idle"]
  BY DEF CallbackShares
<1>4. ThreadsMove(1, 0, 0)
  <2>1. "idle" \in Doing /\ ThreadsMove(One("idle" \in Busy) - One(upc[u] \in Busy),
                        One("idle" = "closing") - One(upc[u] = "closing"),
                        One("idle" = "failing") - One(upc[u] = "failing"))
    BY <1>2, <1>3, ThreadMoves DEF Doing, Busy
  <2>2. /\ One("idle" \in Busy) = 1 /\ One(upc[u] \in Busy) = 0 /\ One("idle" = "closing") = 0
        /\ One(upc[u] = "closing") = 0 /\ One("idle" = "failing") = 0 /\ One(upc[u] = "failing") = 0
    BY <1>3 DEF One, Busy
  <2> QED
    BY <2>1, <2>2 DEF ThreadsMove
<1>5. StepsMove(0, 0, 0, 0, 0, 0, 0, 0, 0) /\ JobsMove(0, 0, 0, 0, 0, 0) /\ PortMoves(0, 0)
      /\ ToldMove(0, 0) /\ Shape' /\ BitsMove(0, 0)
  BY <1>2, SameSteps, SameShape, SameJobs, SamePort, SameTold, BitsAre DEF Aside
<1>6. CountersMove(0 + 1, 0, 0, 0 - 0, 0 - 0)
  BY <1>2 DEF CountersMove, Aside, Types
<1>7. Balances(0, 0, 0, 0, 0, 0, 0, 0, 1, 0, 0, 0, 0, 0, 0, 0, 0)
  BY <1>1, <1>2, <1>4, <1>5, <1>6 DEF Balances, Aside
<1> QED
  BY <1>7, StepInv

(* Another thread's call.                                                  *)
LEMMA UserStartsInv ==
  ASSUME Inv, NEW u \in Users, UserStarts(u), Aside PROVE Inv'
<1>1. ThreadsIn(Busy) >= 1 /\ upc[u] = "idle"
  BY BusyIsHeld DEF UserStarts, Busy
<1>2. Unannounced = 0 /\ (~deleted \/ resumed)
  BY <1>1, HolderAnnounced
<1>3. /\ Types /\ Shape /\ (phase # "tasks" => batch = <<>>)
      /\ UNCHANGED <<ref, active, deleted, tasks, batch, phase, todo, own, told, resumed>>
  BY DEF Inv, Types, UserStarts, loop
<1>4. PICK f \in {0, 1}, c \in {0, 1} : BitsMove(f, c) /\ ThreadsMove(0, c, f)
  <2>1. \A x \in {"closing", "failing", "writing"} : upc' = [upc EXCEPT ![u] = x] =>
          ThreadsMove(0, One(x = "closing"), One(x = "failing"))
    <3> TAKE x \in {"closing", "failing", "writing"}
    <3> HAVE upc' = [upc EXCEPT ![u] = x]
    <3>1. x \in Doing /\ ThreadsMove(One(x \in Busy) - One(upc[u] \in Busy),
                        One(x = "closing") - One(upc[u] = "closing"),
                        One(x = "failing") - One(upc[u] = "failing"))
      BY <1>3, ThreadMoves DEF Doing, Busy
    <3>2. /\ One(x \in Busy) = 1 /\ One(upc[u] \in Busy) = 1
          /\ One(upc[u] = "closing") = 0 /\ One(upc[u] = "failing") = 0
      BY <1>1 DEF One, Busy
    <3>3. One(x = "closing") \in {0, 1} /\ One(x = "failing") \in {0, 1}
      BY OnesAre
    <3> QED
      BY <3>1, <3>2, <3>3 DEF ThreadsMove
  <2>2. CASE /\ "close" \notin bits /\ bits' = bits \cup {"close"}
             /\ upc' = [upc EXCEPT ![u] = "closing"]
    <3>1. ThreadsMove(0, 1, 0) /\ BitsMove(0, 1)
      BY <1>3, <2>1, <2>2, BitsAre DEF One
    <3> QED
      BY <3>1
  <2>3. CASE /\ "error" \notin bits /\ bits' = bits \cup {"error"}
             /\ upc' = [upc EXCEPT ![u] = "failing"]
    <3>1. ThreadsMove(0, 0, 1) /\ BitsMove(1, 0)
      BY <1>3, <2>1, <2>3, BitsAre DEF One
    <3> QED
      BY <3>1
  <2>4. CASE upc' = [upc EXCEPT ![u] = "writing"] /\ UNCHANGED bits
    <3>1. ThreadsMove(0, 0, 0) /\ BitsMove(0, 0)
      BY <1>3, <2>1, <2>4, BitsAre DEF One
    <3> QED
      BY <3>1
  <2> QED
    BY <2>2, <2>3, <2>4 DEF UserStarts
<1>5. StepsMove(0, 0, 0, 0, 0, 0, 0, 0, 0) /\ JobsMove(0, 0, 0, 0, 0, 0) /\ PortMoves(0, 0)
      /\ ToldMove(0, 0) /\ Shape'
  BY <1>3, SameSteps, SameShape, SameJobs, SamePort, SameTold DEF Aside
<1>6. CountersMove(0 + 0, 0, 0, 0 - 0, 0 - 0)
  BY <1>3 DEF CountersMove, Aside, Types
<1>7. Balances(0, 0, 0, 0, 0, 0, 0, 0, 0, c, f, 0, 0, f, c, 0, 0)
  BY <1>2, <1>3, <1>4, <1>5, <1>6 DEF Balances, Aside
<1> QED
  BY <1>7, StepInv

LEMMA UserPostsInv ==
  ASSUME Inv, NEW u \in Users, UserPosts(u), Aside PROVE Inv'
<1>1. ThreadsIn(Busy) >= 1 /\ upc[u] \in {"closing", "failing", "writing"}
  BY BusyIsHeld DEF UserPosts, Busy
<1>2. Unannounced = 0 /\ (~deleted \/ resumed)
  BY <1>1, HolderAnnounced
<1>3. /\ Types /\ Shape /\ (phase # "tasks" => batch = <<>>)
      /\ UNCHANGED <<bits, active, deleted, batch, phase, todo, own, told, resumed>>
      /\ upc' = [upc EXCEPT ![u] = "idle"]
  BY DEF Inv, Types, UserPosts, history
<1>4. PICK f \in {0, 1}, c \in {0, 1} :
        JobsMove(1, 0, 0, 0, c, f) /\ ThreadsMove(0, 0 - c, 0 - f) /\ ref' = ref + 1
  <2>1. ThreadsMove(0, 0 - One(upc[u] = "closing"), 0 - One(upc[u] = "failing"))
    <3>1. "idle" \in Doing /\ ThreadsMove(One("idle" \in Busy) - One(upc[u] \in Busy),
                        One("idle" = "closing") - One(upc[u] = "closing"),
                        One("idle" = "failing") - One(upc[u] = "failing"))
      BY <1>3, ThreadMoves DEF Doing, Busy
    <3>2. /\ One("idle" \in Busy) = 1 /\ One(upc[u] \in Busy) = 1
          /\ One("idle" = "closing") = 0 /\ One("idle" = "failing") = 0
      BY <1>1 DEF One, Busy
    <3>3. One(upc[u] = "closing") \in {0, 1} /\ One(upc[u] = "failing") \in {0, 1}
      BY OnesAre
    <3> QED
      BY <3>1, <3>2, <3>3 DEF ThreadsMove
  <2>2. CASE upc[u] = "closing" /\ Post("close")
    <3>1. JobsMove(1, 0, 0, 0, 1, 0) /\ ref' = ref + 1
      BY <1>3, <2>2, PostMoves DEF Post
    <3>2. One(upc[u] = "closing") = 1 /\ One(upc[u] = "failing") = 0
      BY <2>2 DEF One
    <3> QED
      BY <2>1, <3>1, <3>2
  <2>3. CASE upc[u] = "failing" /\ Post("error")
    <3>1. JobsMove(1, 0, 0, 0, 0, 1) /\ ref' = ref + 1
      BY <1>3, <2>3, PostMoves DEF Post
    <3>2. One(upc[u] = "closing") = 0 /\ One(upc[u] = "failing") = 1
      BY <2>3 DEF One
    <3> QED
      BY <2>1, <3>1, <3>2
  <2>4. CASE upc[u] = "writing" /\ Post("write")
    <3>1. JobsMove(1, 0, 0, 0, 0, 0) /\ ref' = ref + 1
      BY <1>3, <2>4, PostMoves DEF Post
    <3>2. One(upc[u] = "closing") = 0 /\ One(upc[u] = "failing") = 0
      BY <2>4 DEF One
    <3> QED
      BY <2>1, <3>1, <3>2
  <2> QED
    BY <2>2, <2>3, <2>4 DEF UserPosts
<1>5. StepsMove(0, 0, 0, 0, 0, 0, 0, 0, 0) /\ BitsMove(0, 0) /\ PortMoves(0, 0)
      /\ ToldMove(0, 0) /\ Shape'
  BY <1>3, SameSteps, SameShape, BitsAre, SamePort, SameTold DEF Aside
<1>6. CountersMove(1 + 0, 0, 0, 0 - 0, 0 - 0)
  BY <1>3, <1>4 DEF CountersMove, Aside, Types
<1>7. Balances(0, 0, 0, 0, 0, 1, c, f, 0, 0 - c, 0 - f, 0, 0, 0, 0, 0, 0)
  BY <1>2, <1>3, <1>4, <1>5, <1>6 DEF Balances, Aside
<1> QED
  BY <1>7, StepInv
-----------------------------------------------------------------------------
(* The steps of the handlers that take and give nothing.                   *)

(* A step that is not counted, or only once.                               *)
LEMMA DoneQuietly ==
  ASSUME Types, Shape, NEW step \in {"on_connected", "on_read", "on_write", "rest", "on_error",
         "on_closed", "do_write", "readable", "closing"} \cup Packets,
         Is(step), Done
  PROVE  Shape' /\ StepsMove(0, 0, 0, 0, -One(step \in Receipts), 0, -One(step \in Sendings),
                             -One(step = "on_error"), -One(step = "on_closed"))
<1>1. /\ step \notin {"release", "give_back", "leave", "announce", "watch"}
      /\ step \in ReadSteps <=> step \in Receipts
      /\ step \in WriteSteps <=> step \in Sendings
  BY DEF ReadSteps, WriteSteps, Receipts, Sendings, Packets
<1>2. /\ One(step = "release") = 0 /\ One(step = "give_back") = 0 /\ One(step = "leave") = 0
      /\ One(step = "announce") = 0 /\ One(step = "watch") = 0
      /\ One(step \in ReadSteps) = One(step \in Receipts)
      /\ One(step \in WriteSteps) = One(step \in Sendings)
  BY <1>1 DEF One
<1>3. /\ Shape'
      /\ StepsMove(-One(step = "release"), -One(step = "give_back"), -One(step = "leave"),
                   -One(step = "announce"), -One(step \in ReadSteps), -One(step = "watch"),
                   -One(step \in WriteSteps), -One(step = "on_error"), -One(step = "on_closed"))
  BY DoneMoves
<1> QED
  BY <1>2, <1>3 DEF StepsMove

LEMMA CallbackReturnsInv ==
  ASSUME Inv, ~deleted, CallbackReturns, Aside PROVE Inv'
<1> DEFINE step == Head(todo)
<1>1. todo # <<>> /\ Unannounced = 0 /\ step \in Callbacks \cup {"rest"}
  BY InCallbackIs DEF CallbackReturns
<1>2. /\ Types /\ Shape /\ (phase # "tasks" => batch = <<>>)
      /\ UNCHANGED <<active, deleted, batch, phase, upc, own, resumed>>
      /\ told' = told \cup ({step} \cap {"on_error", "on_closed"})
      /\ Done /\ Is(step)
  BY <1>1 DEF Inv, Types, CallbackReturns, Is
<1>3. PICK d \in {0, 1} : BitsMove(0, d) /\ JobsMove(d, 0, 0, 0, d, 0) /\ ref' = ref + d
  <2>1. CASE close
    BY <1>2, <2>1, CloseMoves
  <2>2. CASE UNCHANGED <<bits, ref, tasks>>
    <3>1. BitsMove(0, 0) /\ JobsMove(0, 0, 0, 0, 0, 0) /\ ref' = ref + 0
      BY <1>2, <2>2, BitsAre, SameJobs DEF Types
    <3> QED
      BY <3>1
  <2> QED
    BY <2>1, <2>2 DEF CallbackReturns
<1>4. /\ Shape'
      /\ StepsMove(0, 0, 0, 0, 0, 0, 0, -One(step = "on_error"), -One(step = "on_closed"))
  <2>1. step \notin Receipts /\ step \notin Sendings
        /\ step \in {"on_connected", "on_read", "on_write", "rest", "on_error", "on_closed"}
    BY <1>1 DEF Callbacks, Receipts, Sendings
  <2>2. /\ Shape'
        /\ StepsMove(0, 0, 0, 0, -One(step \in Receipts), 0, -One(step \in Sendings),
                             -One(step = "on_error"), -One(step = "on_closed"))
    BY <1>2, <2>1, DoneQuietly
  <2>3. One(step \in Receipts) = 0 /\ One(step \in Sendings) = 0
    BY <2>1 DEF One
  <2> QED
    BY <2>2, <2>3 DEF StepsMove
<1>5. ThreadsMove(0, 0, 0) /\ PortMoves(0, 0)
  BY <1>2, SameThreads, SamePort DEF Aside
<1>6. CountersMove(d + 0, 0, 0, 0 - 0, 0 - 0)
  BY <1>2, <1>3 DEF CountersMove, Aside, Types
<1>7. PICK e \in {0, 1}, c \in {0, 1} :
        ToldMove(e, c) /\ (~resumed' => e = One(step = "on_error") /\ c = One(step = "on_closed"))
  <2>1. /\ ErrorTold \in {0, 1} /\ ErrorTold' \in {0, 1} /\ ClosedTold \in {0, 1} /\ ClosedTold' \in {0, 1}
    BY OnesAre DEF ErrorTold, ClosedTold
  <2>2. CASE step = "on_error"
    <3>1. ErrorTold' = 1 /\ ClosedTold' = ClosedTold
      BY <1>2, <2>2 DEF ErrorTold, ClosedTold, One
    <3>2. ~resumed => ErrorTold = 0
      <4>1. StepsIn({"on_error"}) >= 1 /\ JobsIn({"error"}) \in Nat /\ ThreadsIn({"failing"}) \in Nat
        BY <1>1, <1>2, <2>2, HeadCounts, NumbersAre
      <4>2. ~resumed => Failed = ErrorTold + StepsIn({"on_error"}) + JobsIn({"error"}) + ThreadsIn({"failing"})
        BY DEF Inv, OnceEach
      <4>3. Failed \in {0, 1} /\ StepsIn({"on_error"}) \in Nat
        BY <1>2, OnesAre, NumbersAre DEF Failed
      <4> QED
        BY <2>1, <4>1, <4>2, <4>3
    <3>3. One(step = "on_error") = 1 /\ One(step = "on_closed") = 0
      BY <2>2 DEF One
    <3>4. ToldMove(1 - ErrorTold, 0) /\ 1 - ErrorTold \in {0, 1}
      BY <2>1, <3>1 DEF ToldMove
    <3> QED
      BY <1>2, <3>2, <3>3, <3>4
  <2>3. CASE step = "on_closed"
    <3>1. ClosedTold' = 1 /\ ErrorTold' = ErrorTold
      BY <1>2, <2>3 DEF ErrorTold, ClosedTold, One
    <3>2. ~resumed => ClosedTold = 0
      <4>1. StepsIn({"on_closed"}) >= 1 /\ JobsIn({"close"}) \in Nat /\ ThreadsIn({"closing"}) \in Nat
        BY <1>1, <1>2, <2>3, HeadCounts, NumbersAre
      <4>2. ~resumed => Closed = ClosedTold + StepsIn({"on_closed"}) + (ThreadsIn({"closing"}) + JobsIn({"close"}))
        BY DEF Inv, OnceEach, Closers
      <4>3. Closed \in {0, 1} /\ StepsIn({"on_closed"}) \in Nat
        BY <1>2, OnesAre, NumbersAre DEF Closed
      <4> QED
        BY <2>1, <4>1, <4>2, <4>3
    <3>3. One(step = "on_error") = 0 /\ One(step = "on_closed") = 1
      BY <2>3 DEF One
    <3>4. ToldMove(0, 1 - ClosedTold) /\ 1 - ClosedTold \in {0, 1}
      BY <2>1, <3>1 DEF ToldMove
    <3> QED
      BY <1>2, <3>2, <3>3, <3>4
  <2>4. CASE step \notin {"on_error", "on_closed"}
    <3>1. told' = told
      BY <1>2, <2>4
    <3>2. One(step = "on_error") = 0 /\ One(step = "on_closed") = 0
      BY <2>4 DEF One
    <3> QED
      BY <3>1, <3>2, SameTold
  <2> QED
    BY <2>2, <2>3, <2>4
<1>8. Balances(0, 0, 0, -One(step = "on_error"), -One(step = "on_closed"), d, d, 0, 0, 0, 0, 0, 0,
               0, d, e, c)
  <2>1. One(step = "on_error") \in {0, 1} /\ One(step = "on_closed") \in {0, 1}
    BY OnesAre
  <2>2. ~resumed' => /\ 0 = e + (-One(step = "on_error")) + 0 + 0
                     /\ d = 0 + d /\ c + (-One(step = "on_closed")) = 0
    BY <1>7, <2>1
  <2>3. Unannounced = 0 /\ (~deleted \/ resumed) /\ (phase' # "tasks" => batch' = <<>>) /\ todo # <<>>
        /\ deleted' = deleted /\ resumed' = resumed
    BY <1>1, <1>2
  <2> HIDE DEF step
  <2> QED
    BY <1>3, <1>4, <1>5, <1>6, <1>7, <2>2, <2>3 DEF Balances, Aside
<1> HIDE DEF step
<1> QED
  BY <1>8, StepInv

(* What both kinds of step that end in an error share.                     *)
LEMMA FireOnCloseInv ==
  ASSUME Inv, ~deleted, FireOnClose, Aside PROVE Inv'
<1>1. /\ Is("closing") /\ todo # <<>> /\ Unannounced = 0
  BY Announced DEF FireOnClose, Is
<1>2. /\ Types /\ Shape /\ (phase # "tasks" => batch = <<>>)
      /\ UNCHANGED <<ref, active, deleted, tasks, batch, phase, upc, own, told, resumed>>
      /\ bits' = bits \cup {"error"}
      /\ IF "error" \in bits THEN Done ELSE Then(<<"on_error">>)
  BY DEF Inv, Types, FireOnClose, history
<1>3. PICK d \in {0, 1} :
        BitsMove(d, 0) /\ StepsMove(0, 0, 0, 0, 0, 0, 0, d, 0) /\ Shape'
  <2>1. /\ One("closing" = "leave") = 0 /\ One("closing" = "announce") = 0
        /\ One("closing" = "watch") = 0 /\ One("closing" = "on_error") = 0
        /\ One("closing" = "on_closed") = 0 /\ One("on_error" = "on_error") = 1
        /\ One("closing" \in Receipts) = 0 /\ One("closing" \in Sendings) = 0
        /\ One("closing" \in ReadSteps) = 0 /\ One("closing" \in WriteSteps) = 0
    BY DEF One, Receipts, Sendings, ReadSteps, WriteSteps
  <2>2. CASE "error" \in bits
    <3>1. bits' = bits /\ Done
      BY <1>2, <2>2
    <3>2. /\ Shape'
          /\ StepsMove(0, 0, 0, 0, -One("closing" \in Receipts), 0, -One("closing" \in Sendings),
                       -One("closing" = "on_error"), -One("closing" = "on_closed"))
      BY <1>1, <1>2, <3>1, DoneQuietly
    <3>3. StepsMove(0, 0, 0, 0, 0, 0, 0, 0, 0)
      BY <2>1, <3>2 DEF StepsMove
    <3>4. BitsMove(0, 0)
      BY <1>2, <3>1, BitsAre
    <3> QED
      BY <3>2, <3>3, <3>4
  <2>3. CASE "error" \notin bits
    <3>1. todo' = <<"on_error">> \o Tail(todo) /\ "on_error" \in Callbacks \ {"on_closed"}
      BY <1>2, <2>3 DEF Then, Callbacks
    <3>2. /\ Shape'
          /\ StepsMove(0, 0, -One("closing" = "leave"), -One("closing" = "announce"),
                       -One("closing" \in ReadSteps), -One("closing" = "watch"),
                       -One("closing" \in WriteSteps),
                       One("on_error" = "on_error") - One("closing" = "on_error"),
                       -One("closing" = "on_closed"))
      <4>1. "closing" \notin Ending /\ "on_error" # "on_read"
        BY DEF Ending
      <4> QED
        BY <1>1, <1>2, <3>1, <4>1, CallMoves
    <3>3. StepsMove(0, 0, 0, 0, 0, 0, 0, 1, 0)
      BY <2>1, <3>2 DEF StepsMove
    <3>4. BitsMove(1, 0)
      BY <1>2, <2>3, BitsAre
    <3> QED
      BY <3>2, <3>3, <3>4
  <2> QED
    BY <2>2, <2>3
<1>4. ThreadsMove(0, 0, 0) /\ JobsMove(0, 0, 0, 0, 0, 0) /\ PortMoves(0, 0) /\ ToldMove(0, 0)
  BY <1>2, SameThreads, SameJobs, SamePort, SameTold DEF Aside
<1>5. CountersMove(0 + 0, 0, 0, 0 - 0, 0 - 0)
  BY <1>2 DEF CountersMove, Aside, Types
<1>6. Balances(0, 0, 0, d, 0, 0, 0, 0, 0, 0, 0, 0, 0, d, 0, 0, 0)
  BY <1>1, <1>2, <1>3, <1>4, <1>5 DEF Balances, Aside
<1> QED
  BY <1>6, StepInv

(* A packet's handler, and a datagram's: the channel is dead, or reads, or *)
(* fails.                                                                  *)
LEMMA HandlesInv ==
  ASSUME Inv, ~deleted, NEW step \in Packets \cup {"readable", "do_write"}, Is(step),
         UNCHANGED <<ref, active, deleted, tasks, batch, phase, upc, own, told, resumed>>, Aside,
         \/ Done /\ bits' = bits /\ (step \in Packets => Dead)
         \/ step \in Receipts /\ Then(<<"on_read", "watch">>) /\ bits' = bits
         \/ step = "readable" /\ Then(<<"on_read">>) /\ bits' = bits
         \/ step # "sent" /\ step # "recv_data" /\ FailNow(<<>>)
  PROVE  Inv'
<1>1. /\ todo # <<>> /\ Unannounced = 0
  BY Announced DEF Is, Packets, Receipts, Sendings
<1>2. /\ Types /\ Shape /\ (phase # "tasks" => batch = <<>>)
  BY DEF Inv, Types
<1>3. /\ step \notin Ending \cup {"leave", "announce", "on_error", "on_closed", "watch"}
      /\ step \in ReadSteps <=> step \in Receipts
      /\ step \in WriteSteps <=> step \in Sendings
      /\ step \in Packets <=> step \in Receipts \/ step \in Sendings
  BY DEF Ending, ReadSteps, WriteSteps, Receipts, Sendings, Packets
<1>4. /\ One(step = "leave") = 0 /\ One(step = "announce") = 0 /\ One(step = "watch") = 0
      /\ One(step = "on_error") = 0 /\ One(step = "on_closed") = 0
      /\ One(step \in ReadSteps) = One(step \in Receipts)
      /\ One(step \in WriteSteps) = One(step \in Sendings)
  BY <1>3 DEF One
<1>10. /\ 0 - One(step \in Receipts) \in {0, -1} /\ 0 - One(step \in Sendings) \in {0, -1}
       /\ 0 - One(step \in Receipts) = -1 => step \in Packets
       /\ 0 - One(step \in Sendings) = -1 => step \in Packets
  <2>1. One(step \in Receipts) \in {0, 1} /\ One(step \in Sendings) \in {0, 1}
    BY OnesAre
  <2>2. /\ One(step \in Receipts) = 1 => step \in Packets
        /\ One(step \in Sendings) = 1 => step \in Packets
    BY <1>3 DEF One
  <2> QED
    BY <2>1, <2>2
<1>11. One(step \in Receipts) \in {0, 1} /\ One(step \in Sendings) \in {0, 1}
  BY OnesAre
<1>12. /\ 0 - One(step \in Receipts) = -One(step \in Receipts)
       /\ 0 - One(step \in Sendings) = -One(step \in Sendings)
  BY <1>11
<1>5. \E rd \in {0, -1}, wat \in {0, 1}, wr \in {0, -1}, d \in {0, 1} :
        /\ BitsMove(d, 0) /\ StepsMove(0, 0, 0, 0, rd, wat, wr, d, 0) /\ Shape'
        /\ rd = -1 \/ wr = -1 => Dead'
  <2>1. CASE Done /\ bits' = bits /\ (step \in Packets => Dead)
    <3>1. Shape' /\ StepsMove(0, 0, 0, 0, -One(step \in Receipts), 0, -One(step \in Sendings),
                             -One(step = "on_error"), -One(step = "on_closed"))
      BY <1>2, <2>1, DoneQuietly
    <3>2. StepsMove(0, 0, 0, 0, 0 - One(step \in Receipts), 0, 0 - One(step \in Sendings), 0, 0)
      <4>1. StepsMove(0, 0, 0, 0, -One(step \in Receipts), 0, -One(step \in Sendings), 0, 0)
        BY <1>4, <3>1 DEF StepsMove
      <4> QED
        BY <1>12, <4>1
    <3>3. BitsMove(0, 0) /\ (step \in Packets => Dead')
      BY <1>2, <2>1, BitsAre DEF Dead
    <3> QED
      BY <1>10, <3>1, <3>2, <3>3
  <2>2. CASE step \in Receipts /\ Then(<<"on_read", "watch">>) /\ bits' = bits
    <3>1. /\ todo' = <<"on_read", "watch">> \o Tail(todo) /\ step \notin Ending
          /\ "on_read" \in Callbacks \ {"on_closed"} /\ "watch" \in {"watch", "send_remains", "rest"}
      BY <1>3, <2>2 DEF Then, Callbacks
    <3>2. /\ Shape'
          /\ StepsMove(0, 0, -One(step = "leave"),
                  -One(step = "announce"), One("watch" = "watch") - One(step \in ReadSteps),
                  One("watch" = "watch") - One(step = "watch"),
                  One("watch" = "send_remains") - One(step \in WriteSteps),
                  One("on_read" = "on_error") - One(step = "on_error"), -One(step = "on_closed"))
      BY <1>2, <3>1, CallThenMoves
    <3>3. /\ One("watch" = "watch") = 1 /\ One("watch" = "send_remains") = 0
          /\ One("on_read" = "on_error") = 0
          /\ One(step \in Receipts) = 1 /\ One(step \in Sendings) = 0
      BY <2>2 DEF One, Receipts, Sendings
    <3>4. StepsMove(0, 0, 0, 0, 0, 1, 0, 0, 0)
      BY <1>4, <3>2, <3>3 DEF StepsMove
    <3>5. BitsMove(0, 0)
      BY <1>2, <2>2, BitsAre
    <3> QED
      BY <3>2, <3>4, <3>5
  <2>3. CASE step = "readable" /\ Then(<<"on_read">>) /\ bits' = bits
    <3>1. /\ todo' = <<"on_read">> \o Tail(todo) /\ step \notin Ending
          /\ "on_read" \in Callbacks \ {"on_closed"}
      BY <1>3, <2>3 DEF Then, Callbacks
    <3>2. /\ Shape'
          /\ StepsMove(0, 0, -One(step = "leave"),
                  -One(step = "announce"), -One(step \in ReadSteps), -One(step = "watch"),
                  -One(step \in WriteSteps), One("on_read" = "on_error") - One(step = "on_error"),
                  -One(step = "on_closed"))
      BY <1>2, <2>3, <3>1, CallMoves
    <3>3. /\ One("on_read" = "on_error") = 0
          /\ One(step \in Receipts) = 0 /\ One(step \in Sendings) = 0
      BY <2>3 DEF One, Receipts, Sendings
    <3>4. StepsMove(0, 0, 0, 0, 0, 0, 0, 0, 0)
      BY <1>4, <3>2, <3>3 DEF StepsMove
    <3>5. BitsMove(0, 0)
      BY <1>2, <2>3, BitsAre
    <3> QED
      BY <3>2, <3>4, <3>5
  <2>4. CASE step # "sent" /\ step # "recv_data" /\ FailNow(<<>>)
    <3>1. step \in {"watch", "recv_failed", "send_failed", "do_write", "readable"}
      BY <2>4 DEF Packets, Receipts, Sendings
    <3>2. PICK d \in {0, 1} :
             /\ Shape' /\ "error" \in bits' /\ BitsMove(d, 0)
             /\ StepsMove(0, 0, 0, 0, -One(step \in ReadSteps), -One(step = "watch"),
                          -One(step \in WriteSteps), d, 0)
      BY <1>2, <2>4, <3>1, FailNowMoves
    <3>3. StepsMove(0, 0, 0, 0, 0 - One(step \in Receipts), 0, 0 - One(step \in Sendings), d, 0)
      <4>1. StepsMove(0, 0, 0, 0, -One(step \in Receipts), 0, -One(step \in Sendings), d, 0)
        BY <1>4, <3>2 DEF StepsMove
      <4> QED
        BY <1>12, <4>1
    <3>4. Dead'
      BY <3>2 DEF Dead
    <3> QED
      BY <1>10, <3>2, <3>3, <3>4
  <2> QED
    BY <2>1, <2>2, <2>3, <2>4
<1>6. PICK rd \in {0, -1}, wat \in {0, 1}, wr \in {0, -1}, d \in {0, 1} :
        /\ BitsMove(d, 0) /\ StepsMove(0, 0, 0, 0, rd, wat, wr, d, 0) /\ Shape'
        /\ rd = -1 \/ wr = -1 => Dead'
  BY <1>5
<1>7. ThreadsMove(0, 0, 0) /\ JobsMove(0, 0, 0, 0, 0, 0) /\ PortMoves(0, 0) /\ ToldMove(0, 0)
  BY <1>2, SameThreads, SameJobs, SamePort, SameTold DEF Aside
<1>8. CountersMove(0 + 0, 0, 0, 0 - 0, 0 - 0)
  BY <1>2 DEF CountersMove, Aside, Types
<1>9. Balances(rd, wat, wr, d, 0, 0, 0, 0, 0, 0, 0, 0, 0, d, 0, 0, 0)
  BY <1>1, <1>2, <1>6, <1>7, <1>8 DEF Balances, Aside
<1> QED
  BY <1>9, StepInv

(* The two modules' names for what they share with this one.               *)
LEMMA SharedSteps ==
  /\ \A step : (Tcp!Is(step) <=> Is(step)) /\ (Udp!Is(step) <=> Is(step))
  /\ (Tcp!Done <=> Done) /\ (Udp!Done <=> Done)
  /\ (Tcp!Idle <=> Idle) /\ (Udp!Idle <=> Idle)
  /\ (Tcp!Dead <=> Dead) /\ (Udp!Dead <=> Dead)
  /\ (Tcp!InCallback <=> InCallback) /\ (Udp!InCallback <=> InCallback)
  /\ \A steps : (Tcp!Then(steps) <=> Then(steps)) /\ (Udp!Then(steps) <=> Then(steps))
  /\ \A steps : (Tcp!FailNow(steps) <=> FailNow(steps)) /\ (Udp!FailNow(steps) <=> FailNow(steps))
  /\ \A job : (Tcp!Execute(job) <=> Execute(job)) /\ (Udp!Execute(job) <=> Execute(job))
  /\ (Udp!error_propagation <=> error_propagation)
  /\ (Tcp!Release <=> Release) /\ (Udp!Release <=> Release)
  /\ (Udp!Linux <=> platform = "linux")
BY DEF Tcp!Is, Udp!Is, Is, Tcp!Done, Udp!Done, Done, Tcp!Idle, Udp!Idle, Idle, Tcp!Dead, Udp!Dead,
       Dead, Tcp!Then, Udp!Then, Then, Tcp!FailNow, Udp!FailNow, FailNow, Tcp!Execute, Udp!Execute,
       Execute, Udp!error_propagation, error_propagation, Udp!Post, Post, Tcp!Release, Udp!Release,
       Release, Udp!Linux, Tcp!InCallback, Udp!InCallback, InCallback, Tcp!Callbacks, Udp!Callbacks,
       Callbacks

LEMMA TcpHandlesInv ==
  ASSUME Inv, ~deleted,
         OfTcp(Tcp!HandleRecv \/ Tcp!HandleRecvFailed \/ Tcp!HandleSendFailed)
  PROVE  Inv'
<1>1. CASE Tcp!HandleRecv
  <2>1. /\ Is("recv_data")
        /\ IF Dead THEN Done ELSE Then(<<"on_read", "watch">>)
    BY <1>1, SharedSteps DEF Tcp!HandleRecv
  <2>2. /\ UNCHANGED <<bits, ref, active, deleted, tasks, batch, phase, upc, own, told, resumed>>
        /\ Aside
    BY <1>1 DEF OfTcp, Tcp!HandleRecv, Tcp!state, Tcp!history, Tcp!ioVars, udpOnly, Aside
  <2>3. "recv_data" \in Packets /\ "recv_data" \in Receipts
    BY DEF Packets, Receipts
  <2> QED
    BY <2>1, <2>2, <2>3, HandlesInv
<1>2. CASE Tcp!HandleRecvFailed
  <2>1. /\ Is("recv_failed")
        /\ IF Dead THEN Done /\ UNCHANGED <<bits, sock>> ELSE FailNow(<<>>)
    BY <1>2, SharedSteps DEF Tcp!HandleRecvFailed
  <2>2. /\ UNCHANGED <<ref, active, deleted, tasks, batch, phase, upc, own, told, resumed>>
        /\ Aside
    BY <1>2 DEF OfTcp, Tcp!HandleRecvFailed, Tcp!state, Tcp!history, Tcp!ioVars, udpOnly, Aside
  <2>3. "recv_failed" \in Packets
    BY DEF Packets, Receipts
  <2> QED
    BY <2>1, <2>2, <2>3, HandlesInv
<1>3. CASE Tcp!HandleSendFailed
  <2>1. /\ Is("send_failed")
        /\ IF Dead THEN Done /\ UNCHANGED <<bits, sock>> ELSE FailNow(<<>>)
    BY <1>3, SharedSteps DEF Tcp!HandleSendFailed
  <2>2. /\ UNCHANGED <<ref, active, deleted, tasks, batch, phase, upc, own, told, resumed>>
        /\ Aside
    BY <1>3 DEF OfTcp, Tcp!HandleSendFailed, Tcp!state, Tcp!history, Tcp!ioVars, udpOnly, Aside
  <2>3. "send_failed" \in Packets
    BY DEF Packets, Sendings
  <2> QED
    BY <2>1, <2>2, <2>3, HandlesInv
<1> QED
  BY <1>1, <1>2, <1>3 DEF OfTcp

LEMMA UdpHandlesInv ==
  ASSUME Inv, ~deleted,
         OfUdp(Udp!HandleRecv \/ Udp!HandleRecvFailed \/ Udp!HandleReadable)
  PROVE  Inv'
<1>1. CASE Udp!HandleRecv
  <2>1. /\ Is("recv_data")
        /\ IF Dead THEN Done ELSE Then(<<"on_read", "watch">>)
    BY <1>1, SharedSteps DEF Udp!HandleRecv
  <2>2. /\ UNCHANGED <<bits, ref, active, deleted, tasks, batch, phase, upc, own, told, resumed>>
        /\ Aside
    BY <1>1 DEF OfUdp, Udp!HandleRecv, Udp!state, Udp!history, Udp!ioVars, tcpOnly, Aside
  <2>3. "recv_data" \in Packets /\ "recv_data" \in Receipts
    BY DEF Packets, Receipts
  <2> QED
    BY <2>1, <2>2, <2>3, HandlesInv
<1>2. CASE Udp!HandleRecvFailed
  <2>1. /\ Is("recv_failed")
        /\ IF Dead THEN Done /\ UNCHANGED <<bits, sock>> ELSE FailNow(<<>>)
    BY <1>2, SharedSteps DEF Udp!HandleRecvFailed
  <2>2. /\ UNCHANGED <<ref, active, deleted, tasks, batch, phase, upc, own, told, resumed>>
        /\ Aside
    BY <1>2 DEF OfUdp, Udp!HandleRecvFailed, Udp!state, Udp!history, Udp!ioVars, tcpOnly, Aside
  <2>3. "recv_failed" \in Packets
    BY DEF Packets, Receipts
  <2> QED
    BY <2>1, <2>2, <2>3, HandlesInv
<1>3. CASE Udp!HandleReadable
  <2>1. /\ Is("readable")
        /\ \/ Done /\ UNCHANGED bits
           \/ Then(<<"on_read">>) /\ UNCHANGED bits
           \/ FailNow(<<>>)
    BY <1>3, SharedSteps DEF Udp!HandleReadable
  <2>2. /\ UNCHANGED <<ref, active, deleted, tasks, batch, phase, upc, own, told, resumed>>
        /\ Aside
    BY <1>3 DEF OfUdp, Udp!HandleReadable, Udp!history, tcpOnly, Aside
  <2>3. "readable" \notin Packets
    BY DEF Packets, Receipts, Sendings
  <2> QED
    BY <2>1, <2>2, <2>3, HandlesInv
<1> QED
  BY <1>1, <1>2, <1>3 DEF OfUdp

(* A datagram that cannot be sent ends the channel: at once on Linux, by a *)
(* job on Windows.                                                         *)
LEMMA UdpWritesInv ==
  ASSUME Inv, ~deleted, OfUdp(Udp!FireDoWrite) PROVE Inv'
<1>1. /\ Is("do_write") /\ todo # <<>> /\ Unannounced = 0
      /\ \/ Done /\ UNCHANGED <<bits, ref, tasks>>
         \/ FailNow(<<>>) /\ UNCHANGED <<ref, tasks>>
         \/ todo' = <<>> \o Tail(todo) /\ error_propagation
  <2>1. Is("do_write") /\ todo # <<>>
    BY SharedSteps DEF OfUdp, Udp!FireDoWrite, Is
  <2>2. Unannounced = 0
    BY <2>1, Announced DEF Is
  <2> QED
    BY <2>1, <2>2, SharedSteps DEF OfUdp, Udp!FireDoWrite, Udp!WriteFails
<1>2. /\ UNCHANGED <<active, deleted, batch, phase, upc, own, told, resumed>> /\ Aside
  BY DEF OfUdp, Udp!FireDoWrite, Udp!ioVars, Udp!history, tcpOnly, Aside
<1>3. CASE UNCHANGED <<ref, tasks>> /\ ((Done /\ UNCHANGED bits) \/ FailNow(<<>>))
  <2>1. "do_write" \notin Packets
    BY DEF Packets, Receipts, Sendings
  <2> QED
    BY <1>1, <1>2, <1>3, <2>1, HandlesInv
<1>4. CASE todo' = <<>> \o Tail(todo) /\ error_propagation
  <2>1. /\ Types /\ Shape /\ (phase # "tasks" => batch = <<>>)
    BY DEF Inv, Types
  <2>2. Done
    BY <1>1, <1>4, <2>1, HeadTailProperties DEF Done, Types
  <2>3. PICK d \in {0, 1} : BitsMove(d, 0) /\ JobsMove(d, 0, 0, 0, 0, d) /\ ref' = ref + d
    BY <1>2, <1>4, <2>1, PropagationMoves
  <2>4. Shape' /\ StepsMove(0, 0, 0, 0, 0, 0, 0, 0, 0)
    <3>1. Shape' /\ StepsMove(0, 0, 0, 0, -One("do_write" \in Receipts), 0, -One("do_write" \in Sendings),
                             -One("do_write" = "on_error"), -One("do_write" = "on_closed"))
      BY <1>1, <2>1, <2>2, DoneQuietly
    <3>2. /\ One("do_write" \in Receipts) = 0 /\ One("do_write" \in Sendings) = 0
          /\ One("do_write" = "on_error") = 0 /\ One("do_write" = "on_closed") = 0
      BY DEF One, Receipts, Sendings
    <3> QED
      BY <3>1, <3>2 DEF StepsMove
  <2>5. ThreadsMove(0, 0, 0) /\ PortMoves(0, 0) /\ ToldMove(0, 0)
    BY <1>2, <2>1, SameThreads, SamePort, SameTold DEF Aside
  <2>6. CountersMove(d + 0, 0, 0, 0 - 0, 0 - 0)
    BY <1>2, <2>1, <2>3 DEF CountersMove, Aside, Types
  <2>7. Balances(0, 0, 0, 0, 0, d, 0, d, 0, 0, 0, 0, 0, d, 0, 0, 0)
    BY <1>1, <1>2, <2>1, <2>3, <2>4, <2>5, <2>6 DEF Balances, Aside
  <2> QED
    BY <2>7, StepInv
<1> QED
  BY <1>1, <1>3, <1>4

LEMMA CallbackWritesDirectlyInv ==
  ASSUME Inv, ~deleted, OfUdp(Udp!CallbackWritesDirectly) PROVE Inv'
<1> DEFINE step == Head(todo)
<1>1. /\ InCallback /\ todo # <<>> /\ Unannounced = 0 /\ ~Dead /\ Is(step)
      /\ step \in Callbacks \cup {"rest"}
  <2>1. InCallback /\ ~Dead
    BY SharedSteps DEF OfUdp, Udp!CallbackWritesDirectly
  <2> QED
    BY <2>1, InCallbackIs DEF Is
<1>2. /\ UNCHANGED <<active, deleted, batch, phase, upc, own, told, resumed>> /\ Aside
      /\ Types /\ Shape /\ (phase # "tasks" => batch = <<>>)
  BY DEF OfUdp, Udp!CallbackWritesDirectly, Udp!ioVars, tcpOnly, Aside, Inv, Types
<1>3. \/ FailNow(<<"rest">>) /\ UNCHANGED <<ref, tasks>>
      \/ todo' = <<step>> \o Tail(todo) /\ error_propagation
  BY SharedSteps DEF OfUdp, Udp!CallbackWritesDirectly, Udp!WriteFails
<1>4. ThreadsMove(0, 0, 0) /\ PortMoves(0, 0) /\ ToldMove(0, 0)
  BY <1>2, SameThreads, SamePort, SameTold DEF Aside
<1>5. CASE todo' = <<step>> \o Tail(todo) /\ error_propagation
  <2>1. todo' = todo
    <3>1. todo \in Seq(Steps)
      BY <1>2 DEF Types
    <3> HIDE DEF step
    <3>2. todo = <<Head(todo)>> \o Tail(todo)
      BY <1>1, <3>1
    <3> QED
      BY <1>5, <3>2 DEF step
  <2>3. PICK d \in {0, 1} : BitsMove(d, 0) /\ JobsMove(d, 0, 0, 0, 0, d) /\ ref' = ref + d
    BY <1>2, <1>5, PropagationMoves
  <2>4. Shape' /\ StepsMove(0, 0, 0, 0, 0, 0, 0, 0, 0)
    BY <1>2, <2>1, SameShape, SameSteps
  <2>6. CountersMove(d + 0, 0, 0, 0 - 0, 0 - 0)
    BY <1>2, <2>3 DEF CountersMove, Aside, Types
  <2>7. Balances(0, 0, 0, 0, 0, d, 0, d, 0, 0, 0, 0, 0, d, 0, 0, 0)
    BY <1>1, <1>2, <1>4, <2>3, <2>4, <2>6 DEF Balances, Aside
  <2> QED
    BY <2>7, StepInv
<1>6. CASE FailNow(<<"rest">>) /\ UNCHANGED <<ref, tasks>>
  <2>1. "error" \notin bits /\ "close" \notin bits
    BY <1>1 DEF Dead
  <2>2. bits' = bits \cup {"error"} /\ todo' = (<<"on_error">> \o <<"rest">>) \o Tail(todo)
    BY <1>6, <2>1 DEF FailNow, Then
  <2>3. todo' = <<"on_error", "rest">> \o Tail(todo)
    BY <2>2, PairIs
  <2>4. step \notin Ending \cup {"leave", "announce", "watch"}
        /\ One(step \in ReadSteps) = 0 /\ One(step \in WriteSteps) = 0
    <3>1. step \notin {"announce", "watch"}
      BY <1>1 DEF Callbacks
    <3> QED
      BY <1>1, <3>1, InCallbackIs
  <2>5. /\ Shape'
        /\ StepsMove(0, 0, -One(step = "leave"),
                  -One(step = "announce"), One("rest" = "watch") - One(step \in ReadSteps),
                  One("rest" = "watch") - One(step = "watch"),
                  One("rest" = "send_remains") - One(step \in WriteSteps),
                  One("on_error" = "on_error") - One(step = "on_error"), -One(step = "on_closed"))
    <3>1. "on_error" \in Callbacks \ {"on_closed"} /\ "rest" \in {"watch", "send_remains", "rest"}
          /\ step \notin Ending
      BY <2>4 DEF Callbacks
    <3> HIDE DEF step
    <3> QED
      BY <1>1, <1>2, <2>3, <3>1, CallThenMoves
  <2>6. StepsMove(0, 0, 0, 0, 0, 0, 0, 1 - One(step = "on_error"), 0 - One(step = "on_closed"))
    <3>1. /\ One(step = "leave") = 0 /\ One(step = "announce") = 0 /\ One(step = "watch") = 0
          /\ One("rest" = "watch") = 0 /\ One("rest" = "send_remains") = 0
          /\ One("on_error" = "on_error") = 1
      BY <2>4 DEF One
    <3>2. One(step = "on_closed") \in {0, 1} /\ One(step = "on_error") \in {0, 1}
      BY OnesAre
    <3>3. StepsMove(0, 0, 0, 0, 0, 0, 0, 1 - One(step = "on_error"), -One(step = "on_closed"))
      BY <2>4, <2>5, <3>1 DEF StepsMove
    <3>4. -One(step = "on_closed") = 0 - One(step = "on_closed")
      BY <3>2
    <3> QED
      BY <3>3, <3>4
  <2>7. ~resumed => One(step = "on_error") = 0 /\ One(step = "on_closed") = 0
    <3>1. ASSUME ~resumed, step = "on_error" PROVE FALSE
      <4>1. StepsIn({"on_error"}) >= 1 /\ StepsIn({"on_error"}) \in Nat /\ JobsIn({"error"}) \in Nat
            /\ ThreadsIn({"failing"}) \in Nat
        BY <1>1, <1>2, <3>1, HeadCounts, NumbersAre
      <4>2. Failed = ErrorTold + StepsIn({"on_error"}) + JobsIn({"error"}) + ThreadsIn({"failing"})
        BY <3>1 DEF Inv, OnceEach
      <4>3. Failed = 0 /\ ErrorTold \in {0, 1}
        BY <2>1 DEF Failed, ErrorTold, One
      <4> QED
        BY <4>1, <4>2, <4>3
    <3>2. ASSUME ~resumed, step = "on_closed" PROVE FALSE
      <4>1. StepsIn({"on_closed"}) >= 1 /\ StepsIn({"on_closed"}) \in Nat /\ JobsIn({"close"}) \in Nat
            /\ ThreadsIn({"closing"}) \in Nat
        BY <1>1, <1>2, <3>2, HeadCounts, NumbersAre
      <4>2. Closed = ClosedTold + StepsIn({"on_closed"}) + (ThreadsIn({"closing"}) + JobsIn({"close"}))
        BY <3>2 DEF Inv, OnceEach, Closers
      <4>3. Closed = 0 /\ ClosedTold \in {0, 1}
        BY <2>1 DEF Closed, ClosedTold, One
      <4> QED
        BY <4>1, <4>2, <4>3
    <3> QED
      BY <3>1, <3>2, OnesAre
  <2>8. JobsMove(0, 0, 0, 0, 0, 0) /\ BitsMove(1, 0)
    BY <1>2, <1>6, <2>1, <2>2, SameJobs, BitsAre
  <2>9. CountersMove(0 + 0, 0, 0, 0 - 0, 0 - 0)
    BY <1>2, <1>6 DEF CountersMove, Aside, Types
  <2> DEFINE err == 1 - One(step = "on_error")
             clo == 0 - One(step = "on_closed")
  <2>10. ~resumed' => 1 = 0 + err + 0 + 0 /\ 0 = 0 + 0 /\ 0 + clo = 0
    BY <1>2, <2>7
  <2>11. StepsMove(0, 0, 0, 0, 0, 0, 0, err, clo)
    BY <2>6
  <2> HIDE DEF step, err, clo
  <2>12. Balances(0, 0, 0, err, clo, 0, 0, 0, 0, 0, 0, 0, 0, 1, 0, 0, 0)
    BY <1>1, <1>2, <1>4, <2>5, <2>8, <2>9, <2>10, <2>11 DEF Balances, Aside
  <2> QED
    BY <2>12, StepInv
<1> QED
  BY <1>3, <1>5, <1>6

(* The kernel completes an operation.                                      *)
LEMMA CompletesInv ==
  ASSUME Inv, OfTcp(Tcp!RecvCompletes) \/ OfTcp(Tcp!SendCompletes) \/ OfUdp(Udp!RecvCompletes)
  PROVE  Inv'
<1>1. /\ UNCHANGED coreVars /\ UNCHANGED <<kind, platform, watched, sendq, inflight>>
      /\ \/ /\ recvs > 0 /\ recvs' = recvs - 1 /\ sends' = sends
            /\ port' = Append(port, "recv_data") \/ port' = Append(port, "recv_failed")
         \/ /\ sends > 0 /\ sends' = sends - 1 /\ recvs' = recvs
            /\ port' = Append(port, "sent") \/ port' = Append(port, "send_failed")
  BY DEF OfTcp, OfUdp, Tcp!RecvCompletes, Tcp!SendCompletes, Udp!RecvCompletes, tcpOnly, udpOnly,
         Tcp!coreVars, Udp!coreVars, coreVars, Tcp!state, Udp!state, state, Tcp!loop, Udp!loop, loop,
         Tcp!history, Udp!history, history
<1>2. UNCHANGED <<bits, ref, active, deleted, tasks, batch, phase, todo, upc, own, told, resumed>>
  BY <1>1 DEF coreVars, state, loop, history
<1>3. Types /\ Shape /\ (phase # "tasks" => batch = <<>>) /\ recvs \in Nat /\ sends \in Nat
  BY DEF Inv, Types
<1>4. Unannounced = 0 /\ (~deleted \/ resumed)
  BY <1>1, <1>3, HolderAnnounced
<1>5. StepsMove(0, 0, 0, 0, 0, 0, 0, 0, 0) /\ ThreadsMove(0, 0, 0) /\ JobsMove(0, 0, 0, 0, 0, 0)
      /\ ToldMove(0, 0) /\ Shape' /\ BitsMove(0, 0)
  BY <1>2, <1>3, SameSteps, SameShape, SameThreads, SameJobs, SameTold, BitsAre
<1>6. CASE /\ recvs > 0 /\ recvs' = recvs - 1 /\ sends' = sends
           /\ port' = Append(port, "recv_data") \/ port' = Append(port, "recv_failed")
  <2>1. PICK x \in {"recv_data", "recv_failed"} : port' = Append(port, x)
    BY <1>6
  <2>2. PortMoves(One(x \in Receipts), One(x \in Sendings))
    BY <1>3, <2>1, PortAppends DEF Packets, Receipts
  <2>3. One(x \in Receipts) = 1 /\ One(x \in Sendings) = 0
    BY <2>1 DEF One, Receipts, Sendings
  <2>4. PortMoves(1, 0)
    BY <2>2, <2>3
  <2>5. CountersMove(0 + 0, 0, 0, 0 - 1, 0 - 0)
    BY <1>2, <1>3, <1>6 DEF CountersMove, Types
  <2>6. Balances(0, 0, 0, 0, 0, 0, 0, 0, 0, 0, 0, 1, 0, 0, 0, 0, 0)
    BY <1>1, <1>2, <1>3, <1>4, <1>5, <2>4, <2>5 DEF Balances
  <2> QED
    BY <2>6, StepInv
<1>7. CASE /\ sends > 0 /\ sends' = sends - 1 /\ recvs' = recvs
           /\ port' = Append(port, "sent") \/ port' = Append(port, "send_failed")
  <2>1. PICK x \in {"sent", "send_failed"} : port' = Append(port, x)
    BY <1>7
  <2>2. PortMoves(One(x \in Receipts), One(x \in Sendings))
    BY <1>3, <2>1, PortAppends DEF Packets, Sendings
  <2>3. One(x \in Receipts) = 0 /\ One(x \in Sendings) = 1
    BY <2>1 DEF One, Receipts, Sendings
  <2>4. PortMoves(0, 1)
    BY <2>2, <2>3
  <2>5. CountersMove(0 + 0, 0, 0, 0 - 0, 0 - 1)
    BY <1>2, <1>3, <1>7 DEF CountersMove, Types
  <2>6. Balances(0, 0, 0, 0, 0, 0, 0, 0, 0, 0, 0, 0, 1, 0, 0, 0, 0)
    BY <1>1, <1>2, <1>3, <1>4, <1>5, <2>4, <2>5 DEF Balances
  <2> QED
    BY <2>6, StepInv
<1> QED
  BY <1>1, <1>6, <1>7
-----------------------------------------------------------------------------
(* Steps that take or give a reference of their own.                       *)
LEMMA MovesKept ==
  ASSUME Inv, kind' = kind, platform' = platform, ~resumed' => ~resumed, ~resumed' => own' >= 0,
         sendq' \in Nat, inflight' \in Nat, deleted' \in BOOLEAN, resumed' \in BOOLEAN,
         phase' # "tasks" => batch' = <<>>,
         NEW rel, NEW ret, NEW lea, NEW ann, NEW rd, NEW wat, NEW wr, NEW err, NEW clo,
         NEW held, NEW send, NEW conn, NEW jwat, NEW jclo, NEW jerr,
         NEW busy, NEW closing, NEW failing, NEW read, NEW wrote,
         NEW fails, NEW closes, NEW toldErr, NEW toldClo,
         NEW refs, NEW acts, NEW owns, NEW dr, NEW ds,
         StepsMove(rel, ret, lea, ann, rd, wat, wr, err, clo),
         JobsMove(held, send, conn, jwat, jclo, jerr), ThreadsMove(busy, closing, failing),
         PortMoves(read, wrote), BitsMove(fails, closes), ToldMove(toldErr, toldClo),
         CountersMove(refs, acts, owns, dr, ds),
         Paid(dr + ds + read + wrote + send + ret, refs, acts, owns, held, rel, busy),
         ~resumed' => /\ Told(fails, toldErr, err, jerr, failing)
                      /\ Told(closes, toldClo, clo, jclo, closing)
                      /\ GivenUp(conn, ann, owns, closes, closing, jclo, lea)
  PROVE  Types' /\ Counted' /\ OnceEach'
<1>1. Types /\ Counted /\ OnceEach
  BY DEF Inv
<1>2. Types'
  BY <1>1, TypesKept
<1>3. Counted'
  BY <1>1, CountedKept
<1>4. OnceEach'
  BY <1>1, OnceEachKept
<1> QED
  BY <1>2, <1>3, <1>4

LEMMA WritersMove ==
  ASSUME NEW rel, NEW ret, NEW lea, NEW ann, NEW rd, NEW wat, NEW wr, NEW err, NEW clo,
         NEW held, NEW send, NEW conn, NEW jwat, NEW jclo, NEW jerr, NEW read, NEW wrote,
         NEW refs, NEW acts, NEW owns, NEW dr, NEW ds,
         StepsMove(rel, ret, lea, ann, rd, wat, wr, err, clo),
         JobsMove(held, send, conn, jwat, jclo, jerr), PortMoves(read, wrote),
         CountersMove(refs, acts, owns, dr, ds)
  PROVE  Writers \in Nat /\ Writers' \in Nat /\ Writers' = Writers + (ds + wrote + send + wr)
<1> DEFINE p == Count(port, Sendings)
           s == StepsIn(WriteSteps)
           j == JobsIn({"send"})
<1>1. /\ sends \in Nat /\ sends' \in Nat /\ sends' = sends + ds
      /\ p \in Nat /\ p' \in Nat /\ p' = p + wrote /\ s \in Nat /\ s' \in Nat /\ s' = s + wr
      /\ j \in Nat /\ j' \in Nat /\ j' = j + send
      /\ ds \in Int /\ wrote \in Int /\ wr \in Int /\ send \in Int
  BY DEF StepsMove, JobsMove, PortMoves, CountersMove
<1>2. Writers = sends + p + j + s /\ Writers' = sends' + p' + j' + s'
  BY DEF Writers
<1> HIDE DEF p, s, j
<1> QED
  BY <1>1, <1>2

LEMMA CountPair ==
  ASSUME NEW T, NEW a \in T, NEW b \in T, NEW S
  PROVE  /\ <<a, b>> \in Seq(T)
         /\ Count(<<a, b>>, S) = One(a \in S) + One(b \in S)
<1>1. <<a>> \in Seq(T) /\ <<b>> \in Seq(T) /\ <<a, b>> \in Seq(T)
  OBVIOUS
<1>2. Count(<<a>> \o <<b>>, S) = Count(<<a>>, S) + Count(<<b>>, S)
  BY <1>1, CountConcat
<1>3. Count(<<a>>, S) = One(a \in S) /\ Count(<<b>>, S) = One(b \in S)
  BY CountSingle
<1> QED
  BY <1>1, <1>2, <1>3, PairIs

LEMMA CountFour ==
  ASSUME NEW T, NEW a \in T, NEW b \in T, NEW c \in T, NEW d \in T, NEW S
  PROVE  /\ <<a, b, c, d>> \in Seq(T)
         /\ Count(<<a, b, c, d>>, S) = One(a \in S) + One(b \in S) + One(c \in S) + One(d \in S)
<1>1. <<a, b>> \in Seq(T) /\ <<c, d>> \in Seq(T) /\ <<a, b, c, d>> \in Seq(T)
  OBVIOUS
<1>2. Count(<<a, b>> \o <<c, d>>, S) = Count(<<a, b>>, S) + Count(<<c, d>>, S)
  BY <1>1, CountConcat
<1>3. /\ Count(<<a, b>>, S) = One(a \in S) + One(b \in S)
      /\ Count(<<c, d>>, S) = One(c \in S) + One(d \in S)
  BY CountPair
<1>4. <<a, b>> \o <<c, d>> = <<a, b, c, d>>
  <2>1. <<a, b>> \o <<c, d>> \in Seq(T) /\ Len(<<a, b>> \o <<c, d>>) = 4
        /\ \A i \in 1 .. 4 : (<<a, b>> \o <<c, d>>)[i] = <<a, b, c, d>>[i]
    BY <1>1, ConcatProperties
  <2> QED
    BY <1>1, <2>1, SeqEqual
<1>5. One(a \in S) \in {0, 1} /\ One(b \in S) \in {0, 1} /\ One(c \in S) \in {0, 1} /\ One(d \in S) \in {0, 1}
  BY OnesAre
<1>6. Count(<<a, b, c, d>>, S) = (One(a \in S) + One(b \in S)) + (One(c \in S) + One(d \in S))
  BY <1>2, <1>3, <1>4
<1> DEFINE p == One(a \in S)
           q == One(b \in S)
           r == One(c \in S)
           t == One(d \in S)
<1>7. p \in Int /\ q \in Int /\ r \in Int /\ t \in Int
  BY <1>5
<1> HIDE DEF p, q, r, t
<1>8. (p + q) + (r + t) = p + q + r + t
  BY <1>7
<1> QED
  BY <1>1, <1>6, <1>8 DEF p, q, r, t

(* A handler begins: what was not there before is counted now.             *)
LEMMA BeginMoves ==
  ASSUME Types, todo = <<>>, todo' \in Seq(Steps)
  PROVE  StepsMove(Count(todo', {"release"}), Count(todo', {"give_back"}), Count(todo', {"leave"}),
                   Count(todo', {"announce"}), Count(todo', ReadSteps), Count(todo', {"watch"}),
                   Count(todo', WriteSteps), Count(todo', {"on_error"}), Count(todo', {"on_closed"}))
<1>1. <<>> \in Seq(Steps)
  OBVIOUS
<1>2. \A S : StepsIn(S) = 0 /\ StepsIn(S)' = Count(todo', S) /\ Count(todo', S) \in Nat
  <2> TAKE S
  <2>1. Count(<<>>, S) = 0
    BY CountEmpty
  <2>2. Count(todo', S) \in Nat
    BY CountType
  <2> QED
    BY <2>1, <2>2 DEF StepsIn
<1> QED
  BY <1>1, <1>2 DEF StepsMove

(* Nothing is unannounced when something is counted.                       *)
LEMMA CountedAnnounced ==
  ASSUME Inv, Operations >= 1 \/ JobsIn(Held) >= 1 \/ own >= 1 \/ ThreadsIn(Busy) >= 1
  PROVE  Unannounced = 0
<1>1. /\ JobsIn(Held) \in Nat /\ JobsIn({"send"}) \in Nat /\ JobsIn({"connected"}) \in Nat
      /\ StepsIn({"give_back"}) \in Nat /\ StepsIn({"release"}) \in Nat
      /\ StepsIn({"announce"}) \in Nat /\ ThreadsIn(Busy) \in Nat
  BY NumbersAre DEF Inv
<1>2. ref \in Int /\ own \in Int /\ recvs \in Nat /\ sends \in Nat /\ Len(port) \in Nat
  BY LenProperties DEF Inv, Types
<1>3. ref = Operations + own + JobsIn(Held) + StepsIn({"release"}) + ThreadsIn(Busy)
  BY DEF Inv, Counted
<1>4. Operations \in Nat
  BY <1>1, <1>2 DEF Operations
<1>5. ~(ref = 0 /\ own = 0)
  BY <1>1, <1>2, <1>3, <1>4
<1>6. Unannounced \in Nat
  BY <1>1 DEF Unannounced
<1> QED
  BY <1>5, <1>6 DEF Inv, Untouched

(* The job at the head of the batch is taken.                              *)
LEMMA JobTaken ==
  ASSUME Types, batch # <<>>, batch' = Tail(batch), tasks' = tasks
  PROVE  /\ Head(batch) \in Jobs
         /\ JobsMove(0 - One(Head(batch) \in Held), 0 - One(Head(batch) = "send"),
                     0 - One(Head(batch) = "connected"), 0 - One(Head(batch) = "watch"),
                     0 - One(Head(batch) = "close"), 0 - One(Head(batch) = "error"))
<1>1. batch \in Seq(Jobs) /\ batch' \in Seq(Jobs) /\ tasks \in Seq(Jobs) /\ Head(batch) \in Jobs
  BY HeadTailProperties DEF Types
<1>2. \A S : /\ JobsIn(S) \in Nat /\ JobsIn(S)' \in Nat /\ 0 - One(Head(batch) \in S) \in Int
             /\ JobsIn(S)' = JobsIn(S) + (0 - One(Head(batch) \in S))
  <2> TAKE S
  <2>1. Count(batch, S) = One(Head(batch) \in S) + Count(batch', S)
    BY <1>1, CountTail
  <2>2. Count(batch', S) \in Nat /\ Count(tasks, S) \in Nat /\ One(Head(batch) \in S) \in {0, 1}
    BY <1>1, CountType, OnesAre
  <2>3. JobsIn(S) = Count(batch, S) + Count(tasks, S) /\ JobsIn(S)' = Count(batch', S) + Count(tasks, S)
    BY DEF JobsIn
  <2> QED
    BY <2>1, <2>2, <2>3
<1>3. \A x, y : One(x \in {y}) = One(x = y)
  BY OneOfSingle
<1> DEFINE x == Head(batch)
<1>4. \A y : /\ JobsIn({y}) \in Nat /\ JobsIn({y})' \in Nat /\ 0 - One(x = y) \in Int
             /\ JobsIn({y})' = JobsIn({y}) + (0 - One(x = y))
  <2> TAKE y
  <2>1. One(x \in {y}) = One(x = y)
    BY <1>3
  <2>2. /\ JobsIn({y}) \in Nat /\ JobsIn({y})' \in Nat /\ 0 - One(x \in {y}) \in Int
        /\ JobsIn({y})' = JobsIn({y}) + (0 - One(x \in {y}))
    BY <1>2
  <2> HIDE DEF x
  <2> QED
    BY <2>1, <2>2
<1>5. /\ JobsIn(Held) \in Nat /\ JobsIn(Held)' \in Nat /\ 0 - One(x \in Held) \in Int
      /\ JobsIn(Held)' = JobsIn(Held) + (0 - One(x \in Held))
  BY <1>2
<1> HIDE DEF x
<1>6. JobsMove(0 - One(x \in Held), 0 - One(x = "send"), 0 - One(x = "connected"),
               0 - One(x = "watch"), 0 - One(x = "close"), 0 - One(x = "error"))
  BY <1>1, <1>4, <1>5 DEF JobsMove
<1> QED
  BY <1>1, <1>6 DEF x

(* A job's handler takes over what the job held.                           *)
TakesOver(rel, ret, ann, wat, err, clo) ==
  /\ rel \in {0, 1} /\ ret \in {0, 1} /\ ann \in {0, 1} /\ wat \in {0, 1}
  /\ err \in {0, 1} /\ clo \in {0, 1} /\ rel + ret + ann >= 1
  /\ StepsMove(rel, ret, clo, ann, ann + wat, wat, ret, err, clo)
  /\ JobsMove(0 - rel, 0 - ret, 0 - ann, 0 - wat, 0 - clo, 0 - err)

LEMMA JobInv ==
  ASSUME Inv, ~deleted, todo = <<>>, Shape', Aside,
         UNCHANGED <<bits, ref, active, deleted, upc, own, told, resumed>>,
         phase' # "tasks" => batch' = <<>>,
         NEW rel, NEW ret, NEW ann, NEW wat, NEW err, NEW clo,
         TakesOver(rel, ret, ann, wat, err, clo), ann = 1 => todo' = <<"announce">>,
         ann = 0 => Unannounced = 0
  PROVE  Inv'
<1>1. /\ Types /\ Counted /\ Untouched /\ OnceEach /\ Reads /\ Writes
  BY DEF Inv
<1>0. /\ rel \in {0, 1} /\ ret \in {0, 1} /\ ann \in {0, 1} /\ wat \in {0, 1}
      /\ err \in {0, 1} /\ clo \in {0, 1} /\ rel + ret + ann >= 1
      /\ StepsMove(rel, ret, clo, ann, ann + wat, wat, ret, err, clo)
      /\ JobsMove(0 - rel, 0 - ret, 0 - ann, 0 - wat, 0 - clo, 0 - err)
  BY DEF TakesOver
<1> USE <1>0
<1>2. ThreadsMove(0, 0, 0) /\ PortMoves(0, 0) /\ BitsMove(0, 0) /\ ToldMove(0, 0)
  BY <1>1, SameThreads, SamePort, BitsAre, SameTold DEF Aside
<1>3. CountersMove(0, 0, 0, 0, 0) /\ own' = own
  BY <1>1 DEF CountersMove, Types, Aside
<1> DEFINE held == 0 - rel
           send == 0 - ret
           conn == 0 - ann
           jwat == 0 - wat
           jclo == 0 - clo
           jerr == 0 - err
           rd == ann + wat
<1>4. /\ held \in Int /\ send \in Int /\ conn \in Int /\ jwat \in Int /\ jclo \in Int
      /\ jerr \in Int /\ rd \in Int
  OBVIOUS
<1>5. Paid(0 + 0 + 0 + 0 + send + ret, 0, 0, 0, held, rel, 0)
  BY DEF Paid
<1>6. Told(0, 0, err, jerr, 0) /\ Told(0, 0, clo, jclo, 0) /\ GivenUp(conn, ann, 0, 0, 0, jclo, clo)
  BY DEF Told, GivenUp
<1>7. StepsMove(rel, ret, clo, ann, rd, wat, ret, err, clo) /\ JobsMove(held, send, conn, jwat, jclo, jerr)
  OBVIOUS
<1>20. /\ "pending" \in bits => 0 + 0 <= 0
       /\ "pending" \notin bits =>
           /\ jwat <= 0
           /\ 0 + 0 + rd + conn <= 0 \/ Readers + (0 + 0 + rd + conn) <= 1
           /\ 0 + 0 + rd + conn >= 0 \/ Dead' \/ OnLinux
  <2>1. "pending" \notin bits => JobsIn({"watch"}) = 0
    BY <1>1 DEF Reads
  <2>2. JobsIn({"watch"}) \in Nat /\ JobsIn({"watch"})' \in Nat /\ JobsIn({"watch"})' = JobsIn({"watch"}) + jwat
    BY <1>7 DEF JobsMove
  <2>3. "pending" \notin bits => wat = 0
    BY <2>1, <2>2
  <2> QED
    BY <2>3
<1>21. ~resumed' /\ ~Dead' /\ OnLinux /\ Unannounced' = 0 /\ StepsIn({"watch"})' = 0 =>
         watched' = ("pending" \notin bits')
  <2>1. /\ StepsIn({"watch"}) \in Nat /\ StepsIn({"watch"})' \in Nat /\ StepsIn({"watch"})' = StepsIn({"watch"}) + wat
        /\ JobsIn({"connected"}) \in Nat /\ JobsIn({"connected"})' = JobsIn({"connected"}) + conn
        /\ StepsIn({"announce"}) \in Nat /\ StepsIn({"announce"})' = StepsIn({"announce"}) + ann
    BY <1>7 DEF StepsMove, JobsMove
  <2>2. Unannounced' = Unannounced
    BY <2>1 DEF Unannounced
  <2>3. StepsIn({"watch"})' = 0 => StepsIn({"watch"}) = 0
    <3>1. /\ StepsIn({"watch"}) \in Nat /\ StepsIn({"watch"})' = StepsIn({"watch"}) + wat
          /\ wat \in {0, 1}
      BY <2>1 DEF TakesOver
    <3> HIDE <1>0
    <3> HIDE DEF held, send, conn, jwat, jclo, jerr, rd
    <3> QED
      BY <3>1
  <2> QED
    BY <1>1, <2>2, <2>3 DEF Reads, Dead, Aside
<1>22. send + ret = 0 /\ conn + ann = 0
  OBVIOUS
<1> HIDE DEF held, send, conn, jwat, jclo, jerr, rd
<1> HIDE <1>0
<1>8. Types' /\ Counted' /\ OnceEach'
  <2>1. /\ kind' = kind /\ platform' = platform /\ (~resumed' => ~resumed)
        /\ sendq' \in Nat /\ inflight' \in Nat
    BY <1>1 DEF Aside, Types
  <2>2. deleted' \in BOOLEAN /\ resumed' \in BOOLEAN
    BY <1>1, Zenon DEF Types
  <2>3. ~resumed' => own' >= 0
    BY <1>1, <1>3 DEF OnceEach
  <2> QED
    BY <1>2, <1>3, <1>5, <1>6, <1>7, <2>1, <2>2, <2>3, MovesKept
<1>9. /\ JobsIn({"connected"}) \in Nat /\ JobsIn({"connected"})' = JobsIn({"connected"}) + conn
      /\ StepsIn({"announce"}) \in Nat /\ StepsIn({"announce"})' = StepsIn({"announce"}) + ann
  BY <1>7 DEF StepsMove, JobsMove
<1>10. Unannounced' = Unannounced /\ Unannounced \in Nat
  <2> DEFINE j == JobsIn({"connected"})
             s == StepsIn({"announce"})
  <2>1. j \in Nat /\ j' = j + conn /\ s \in Nat /\ s' = s + ann
    BY <1>9
  <2>2. Unannounced = j + s /\ Unannounced' = j' + s'
    BY DEF Unannounced
  <2>3. ann \in Int
    BY <1>0
  <2> HIDE DEF j, s
  <2> QED
    BY <1>4, <1>22, <2>1, <2>2, <2>3
<1>11. Untouched'
  <2>1. CASE ann = 0
    BY <1>10, <2>1 DEF Untouched
  <2>2. CASE ann = 1
    <3>1. Unannounced >= 1 =>
            /\ Unannounced = 1 /\ ref = 0 /\ own = 0 /\ sendq = 0
            /\ bits = {} /\ told = {} /\ ~deleted /\ ~resumed
      BY <1>1 DEF Untouched
    <3> QED
      BY <1>10, <2>2, <3>1 DEF Untouched, Aside
  <2> QED
    BY <1>0, <2>1, <2>2
<1>12. HandlerHolds'
  <2>1. /\ StepsIn({"release"}) \in Nat /\ StepsIn({"release"})' = StepsIn({"release"}) + rel
        /\ StepsIn({"give_back"}) \in Nat /\ StepsIn({"give_back"})' = StepsIn({"give_back"}) + ret
        /\ StepsIn({"announce"}) \in Nat /\ StepsIn({"announce"})' = StepsIn({"announce"}) + ann
    BY <1>7 DEF StepsMove
  <2>2. rel = 1 \/ ret = 1 \/ ann = 1
    BY <1>0
  <2> QED
    BY <2>1, <2>2 DEF HandlerHolds
<1>13. Gone'
  BY DEF Gone
<1>14. Reads'
  <2>1. kind' = kind /\ platform' = platform /\ (~resumed' => ~resumed)
    BY DEF Aside
  <2> QED
    BY <1>1, <1>2, <1>3, <1>7, <1>20, <1>21, <2>1, ReadsKept
<1>15. Writes'
  <2>1. kind' = kind /\ (~resumed' => ~resumed) /\ sendq \in Nat /\ sendq' = sendq /\ inflight' = inflight
    BY <1>1 DEF Aside, Types
  <2>2. 0 + 0 + send + ret \in {0, -1} /\ (0 + 0 + send + ret = -1 => Dead')
    BY <1>4, <1>22
  <2> QED
    BY <1>1, <1>2, <1>3, <1>7, <2>1, <2>2, WritesKept
<1> QED
  BY <1>8, <1>11, <1>12, <1>13, <1>14, <1>15 DEF Inv

(* The order of the steps of a handler that begins.                        *)
LEMMA PairShape ==
  ASSUME NEW a \in Steps \ (Ending \cup {"leave"}), NEW b \in Later \ {"leave"},
         a \in {"readable", "on_read"} => b = "watch", todo' = <<a, b>>
  PROVE  /\ Shape' /\ todo' # <<>> /\ todo' \in Seq(Steps)
         /\ \A S : Count(todo', S) = One(a \in S) + One(b \in S)
<1>1. b \in Steps /\ a \in Steps
  BY DEF Steps
<1>2. todo' \in Seq(Steps) /\ Len(todo') = 2 /\ todo'[1] = a /\ todo'[2] = b /\ Head(todo') = a
  BY <1>1
<1>3. todo' # <<>>
  BY <1>2, EmptySeq
<1>8. \A S : Count(todo', S) = One(a \in S) + One(b \in S)
  BY <1>1, CountPair
<1>4. \A S : StepsIn(S)' = One(a \in S) + One(b \in S)
  BY <1>8 DEF StepsIn
<1>5. StepsIn({"leave"})' <= StepsIn({"release"})'
  <2>1. One(a \in {"leave"}) = 0 /\ One(b \in {"leave"}) = 0
    BY DEF One
  <2>2. One(a \in {"release"}) \in {0, 1} /\ One(b \in {"release"}) \in {0, 1}
    BY OnesAre
  <2> QED
    BY <1>4, <2>1, <2>2
<1>6. Head(todo') \in {"readable", "on_read"} => StepsIn({"watch"})' >= 1
  <2> SUFFICES ASSUME b = "watch" PROVE StepsIn({"watch"})' >= 1
    BY <1>2
  <2>1. One(b \in {"watch"}) = 1
    BY DEF One
  <2>2. One(a \in {"watch"}) \in {0, 1}
    BY OnesAre
  <2> QED
    BY <1>4, <2>1, <2>2
<1>7. /\ \A i \in 2 .. Len(todo') : todo'[i] \in Later
      /\ \A i \in 1 .. Len(todo') - 1 : todo'[i] \notin Ending
  BY <1>2
<1> QED
  BY <1>2, <1>3, <1>5, <1>6, <1>7, <1>8 DEF Shape

LEMMA SingleShape ==
  ASSUME NEW a \in Steps \ {"leave", "readable", "on_read"}, todo' = <<a>>
  PROVE  Shape' /\ todo' # <<>> /\ todo' \in Seq(Steps)
<1>1. todo' \in Seq(Steps) /\ Len(todo') = 1 /\ Head(todo') = a
  OBVIOUS
<1>2. todo' # <<>>
  BY <1>1, EmptySeq
<1>3. StepsIn({"leave"})' <= StepsIn({"release"})'
  <2>1. \A S : StepsIn(S)' = One(a \in S)
    BY CountSingle DEF StepsIn
  <2>2. One(a \in {"leave"}) = 0 /\ One(a \in {"release"}) \in {0, 1}
    BY DEF One
  <2> QED
    BY <2>1, <2>2
<1>4. /\ \A i \in 2 .. Len(todo') : todo'[i] \in Later
      /\ \A i \in 1 .. Len(todo') - 1 : todo'[i] \notin Ending
  BY <1>1
<1> QED
  BY <1>1, <1>2, <1>3, <1>4 DEF Shape

LEMMA ClosingShape ==
  ASSUME todo' = <<"closing", "on_closed", "leave", "release">>
  PROVE  /\ Shape' /\ todo' # <<>> /\ todo' \in Seq(Steps)
         /\ \A S : Count(todo', S) = One("closing" \in S) + One("on_closed" \in S)
                                      + One("leave" \in S) + One("release" \in S)
<1>1. {"closing", "on_closed", "leave", "release"} \subseteq Steps
      /\ {"on_closed", "leave", "release"} \subseteq Later
      /\ "closing" \notin Ending /\ "on_closed" \notin Ending /\ "leave" \notin Ending
  BY DEF Steps, Later, Ending, Callbacks
<1>2. todo' \in Seq(Steps) /\ Len(todo') = 4 /\ Head(todo') = "closing"
      /\ todo'[1] = "closing" /\ todo'[2] = "on_closed" /\ todo'[3] = "leave" /\ todo'[4] = "release"
  BY <1>1
<1>3. todo' # <<>>
  BY <1>2, EmptySeq
<1>6. \A S : Count(todo', S) = One("closing" \in S) + One("on_closed" \in S) + One("leave" \in S)
                             + One("release" \in S)
  <2>1. "closing" \in Steps /\ "on_closed" \in Steps /\ "leave" \in Steps /\ "release" \in Steps
    BY <1>1
  <2> QED
    BY <2>1, CountFour
<1>4. StepsIn({"leave"})' <= StepsIn({"release"})'
  <2>1. \A S : StepsIn(S)' = One("closing" \in S) + One("on_closed" \in S) + One("leave" \in S)
                             + One("release" \in S)
    BY <1>6 DEF StepsIn
  <2>2. /\ One("closing" \in {"leave"}) = 0 /\ One("on_closed" \in {"leave"}) = 0
        /\ One("leave" \in {"leave"}) = 1 /\ One("release" \in {"leave"}) = 0
        /\ One("closing" \in {"release"}) = 0 /\ One("on_closed" \in {"release"}) = 0
        /\ One("leave" \in {"release"}) = 0 /\ One("release" \in {"release"}) = 1
    BY DEF One
  <2> QED
    BY <2>1, <2>2
<1>5. /\ \A i \in 2 .. Len(todo') : todo'[i] \in Later
      /\ \A i \in 1 .. Len(todo') - 1 : todo'[i] \notin Ending
  <2>1. 2 .. 4 = {2, 3, 4} /\ 1 .. 4 - 1 = {1, 2, 3}
    OBVIOUS
  <2> QED
    BY <1>1, <1>2, <2>1
<1> QED
  BY <1>2, <1>3, <1>4, <1>5, <1>6 DEF Shape

(* A job that counts is not that of a channel to be announced.             *)
LEMMA JobAnnounced ==
  ASSUME Inv, batch # <<>>, Head(batch) # "connected" PROVE Unannounced = 0
<1>1. batch \in Seq(Jobs) /\ Tail(batch) \in Seq(Jobs) /\ Head(batch) \in Jobs /\ tasks \in Seq(Jobs)
  BY HeadTailProperties DEF Inv, Types
<1>2. \A S : Head(batch) \in S => JobsIn(S) >= 1
  <2> TAKE S
  <2> HAVE Head(batch) \in S
  <2>1. Count(batch, S) = One(Head(batch) \in S) + Count(Tail(batch), S)
    BY <1>1, CountTail
  <2>2. Count(Tail(batch), S) \in Nat /\ Count(tasks, S) \in Nat /\ One(Head(batch) \in S) = 1
    BY <1>1, CountType DEF One
  <2> QED
    BY <2>1, <2>2 DEF JobsIn
<1>3. CASE Head(batch) = "send"
  <2>1. JobsIn({"send"}) >= 1
    BY <1>2, <1>3
  <2>2. /\ JobsIn({"send"}) \in Nat /\ StepsIn({"give_back"}) \in Nat
        /\ recvs \in Nat /\ sends \in Nat /\ Len(port) \in Nat
    BY NumbersAre, LenProperties DEF Inv, Types
  <2>3. Operations >= 1
    BY <2>1, <2>2 DEF Operations
  <2> QED
    BY <2>3, CountedAnnounced
<1>4. CASE Head(batch) \in Held
  BY <1>2, <1>4, CountedAnnounced
<1> QED
  BY <1>1, <1>3, <1>4 DEF Held

LEMMA RunJobInv ==
  ASSUME Inv, ~deleted, RunJob, Aside PROVE Inv'
<1> DEFINE job == Head(batch)
<1>1. /\ Types /\ todo = <<>> /\ batch # <<>> /\ phase' = "tasks" /\ batch' = Tail(batch)
      /\ todo' = Handler(job) /\ tasks' = tasks
      /\ UNCHANGED <<bits, ref, active, deleted, upc, own, told, resumed>>
  BY DEF Inv, RunJob, Idle, history
<1>2. /\ job \in Jobs
      /\ JobsMove(0 - One(job \in Held), 0 - One(job = "send"), 0 - One(job = "connected"),
                  0 - One(job = "watch"), 0 - One(job = "close"), 0 - One(job = "error"))
  BY <1>1, JobTaken
<1>3. job # "connected" => Unannounced = 0
  BY <1>1, JobAnnounced
<1> HIDE DEF job
<1>4. ASSUME todo' \in Seq(Steps)
      PROVE  StepsMove(Count(todo', {"release"}), Count(todo', {"give_back"}), Count(todo', {"leave"}),
                   Count(todo', {"announce"}), Count(todo', ReadSteps), Count(todo', {"watch"}),
                   Count(todo', WriteSteps), Count(todo', {"on_error"}), Count(todo', {"on_closed"}))
  BY <1>1, <1>4, BeginMoves
<1>5. CASE job = "connected"
  <2>1. todo' = <<"announce">>
    BY <1>1, <1>5 DEF Handler
  <2>2. Shape' /\ todo' \in Seq(Steps)
    BY <2>1, SingleShape DEF Steps
  <2>3. \A S : Count(todo', S) = One("announce" \in S)
    BY <2>1, CountSingle
  <2>4. /\ Count(todo', {"release"}) = 0 /\ Count(todo', {"give_back"}) = 0
        /\ Count(todo', {"leave"}) = 0 /\ Count(todo', {"announce"}) = 1
        /\ Count(todo', ReadSteps) = 1 + 0 /\ Count(todo', {"watch"}) = 0
        /\ Count(todo', WriteSteps) = 0 /\ Count(todo', {"on_error"}) = 0
        /\ Count(todo', {"on_closed"}) = 0
    BY <2>3 DEF One, ReadSteps, WriteSteps, Sendings
  <2>5. StepsMove(0, 0, 0, 1, 1 + 0, 0, 0, 0, 0)
    BY <1>4, <2>2, <2>4
  <2>6. JobsMove(0 - 0, 0 - 0, 0 - 1, 0 - 0, 0 - 0, 0 - 0)
    <3>1. /\ One(job \in Held) = 0 /\ One(job = "send") = 0 /\ One(job = "connected") = 1
          /\ One(job = "watch") = 0 /\ One(job = "close") = 0 /\ One(job = "error") = 0
      BY <1>5 DEF One, Held
    <3> QED
      BY <1>2, <3>1
  <2>7. TakesOver(0, 0, 1, 0, 0, 0)
    BY <2>5, <2>6 DEF TakesOver
  <2> QED
    BY <1>1, <2>1, <2>2, <2>7, JobInv
<1>6. CASE job = "write"
  <2>1. todo' = <<"do_write", "release">>
    BY <1>1, <1>6 DEF Handler
  <2>2. Shape' /\ todo' \in Seq(Steps)
    BY <2>1, PairShape DEF Steps, Later, Ending
  <2>3. \A S : Count(todo', S) = One("do_write" \in S) + One("release" \in S)
    BY <2>1, PairShape DEF Steps, Later, Ending
  <2>4. /\ Count(todo', {"release"}) = 1 /\ Count(todo', {"give_back"}) = 0
        /\ Count(todo', {"leave"}) = 0 /\ Count(todo', {"announce"}) = 0
        /\ Count(todo', ReadSteps) = 0 + 0 /\ Count(todo', {"watch"}) = 0
        /\ Count(todo', WriteSteps) = 0 /\ Count(todo', {"on_error"}) = 0
        /\ Count(todo', {"on_closed"}) = 0
    BY <2>3 DEF One, ReadSteps, WriteSteps, Receipts, Sendings
  <2>5. StepsMove(1, 0, 0, 0, 0 + 0, 0, 0, 0, 0)
    BY <1>4, <2>2, <2>4
  <2>6. JobsMove(0 - 1, 0 - 0, 0 - 0, 0 - 0, 0 - 0, 0 - 0)
    <3>1. /\ One(job \in Held) = 1 /\ One(job = "send") = 0 /\ One(job = "connected") = 0
          /\ One(job = "watch") = 0 /\ One(job = "close") = 0 /\ One(job = "error") = 0
      BY <1>6 DEF One, Held, Jobs
    <3> QED
      BY <1>2, <3>1
  <2>7. TakesOver(1, 0, 0, 0, 0, 0)
    BY <2>5, <2>6 DEF TakesOver
  <2> QED
    BY <1>1, <1>3, <1>6, <2>2, <2>7, JobInv
<1>7. CASE job = "watch"
  <2>1. todo' = <<"watch", "release">>
    BY <1>1, <1>7 DEF Handler
  <2>2. Shape' /\ todo' \in Seq(Steps)
    BY <2>1, PairShape DEF Steps, Later, Ending
  <2>3. \A S : Count(todo', S) = One("watch" \in S) + One("release" \in S)
    BY <2>1, PairShape DEF Steps, Later, Ending
  <2>4. /\ Count(todo', {"release"}) = 1 /\ Count(todo', {"give_back"}) = 0
        /\ Count(todo', {"leave"}) = 0 /\ Count(todo', {"announce"}) = 0
        /\ Count(todo', ReadSteps) = 0 + 1 /\ Count(todo', {"watch"}) = 1
        /\ Count(todo', WriteSteps) = 0 /\ Count(todo', {"on_error"}) = 0
        /\ Count(todo', {"on_closed"}) = 0
    BY <2>3 DEF One, ReadSteps, WriteSteps, Receipts, Sendings
  <2>5. StepsMove(1, 0, 0, 0, 0 + 1, 1, 0, 0, 0)
    BY <1>4, <2>2, <2>4
  <2>6. JobsMove(0 - 1, 0 - 0, 0 - 0, 0 - 1, 0 - 0, 0 - 0)
    <3>1. /\ One(job \in Held) = 1 /\ One(job = "send") = 0 /\ One(job = "connected") = 0
          /\ One(job = "watch") = 1 /\ One(job = "close") = 0 /\ One(job = "error") = 0
      BY <1>7 DEF One, Held, Jobs
    <3> QED
      BY <1>2, <3>1
  <2>7. TakesOver(1, 0, 0, 1, 0, 0)
    BY <2>5, <2>6 DEF TakesOver
  <2> QED
    BY <1>1, <1>3, <1>7, <2>2, <2>7, JobInv
<1>8. CASE job = "send"
  <2>1. todo' = <<"send_failed", "give_back">>
    BY <1>1, <1>8 DEF Handler
  <2>2. Shape' /\ todo' \in Seq(Steps)
    BY <2>1, PairShape DEF Steps, Later, Ending, Packets, Sendings
  <2>3. \A S : Count(todo', S) = One("send_failed" \in S) + One("give_back" \in S)
    BY <2>1, PairShape DEF Steps, Later, Ending, Packets, Sendings
  <2>4. /\ Count(todo', {"release"}) = 0 /\ Count(todo', {"give_back"}) = 1
        /\ Count(todo', {"leave"}) = 0 /\ Count(todo', {"announce"}) = 0
        /\ Count(todo', ReadSteps) = 0 + 0 /\ Count(todo', {"watch"}) = 0
        /\ Count(todo', WriteSteps) = 1 /\ Count(todo', {"on_error"}) = 0
        /\ Count(todo', {"on_closed"}) = 0
    BY <2>3 DEF One, ReadSteps, WriteSteps, Receipts, Sendings
  <2>5. StepsMove(0, 1, 0, 0, 0 + 0, 0, 1, 0, 0)
    BY <1>4, <2>2, <2>4
  <2>6. JobsMove(0 - 0, 0 - 1, 0 - 0, 0 - 0, 0 - 0, 0 - 0)
    <3>1. /\ One(job \in Held) = 0 /\ One(job = "send") = 1 /\ One(job = "connected") = 0
          /\ One(job = "watch") = 0 /\ One(job = "close") = 0 /\ One(job = "error") = 0
      BY <1>8 DEF One, Held, Jobs
    <3> QED
      BY <1>2, <3>1
  <2>7. TakesOver(0, 1, 0, 0, 0, 0)
    BY <2>5, <2>6 DEF TakesOver
  <2> QED
    BY <1>1, <1>3, <1>8, <2>2, <2>7, JobInv
<1>9. CASE job = "close"
  <2>1. todo' = <<"closing", "on_closed", "leave", "release">>
    BY <1>1, <1>9 DEF Handler
  <2>2. Shape' /\ todo' \in Seq(Steps)
    BY <2>1, ClosingShape
  <2>3. \A S : Count(todo', S) = One("closing" \in S) + One("on_closed" \in S) + One("leave" \in S)
                                 + One("release" \in S)
    BY <2>1, ClosingShape
  <2>4. /\ Count(todo', {"release"}) = 1 /\ Count(todo', {"give_back"}) = 0
        /\ Count(todo', {"leave"}) = 1 /\ Count(todo', {"announce"}) = 0
        /\ Count(todo', ReadSteps) = 0 + 0 /\ Count(todo', {"watch"}) = 0
        /\ Count(todo', WriteSteps) = 0 /\ Count(todo', {"on_error"}) = 0
        /\ Count(todo', {"on_closed"}) = 1
    BY <2>3 DEF One, ReadSteps, WriteSteps, Receipts, Sendings
  <2>5. StepsMove(1, 0, 1, 0, 0 + 0, 0, 0, 0, 1)
    BY <1>4, <2>2, <2>4
  <2>6. JobsMove(0 - 1, 0 - 0, 0 - 0, 0 - 0, 0 - 1, 0 - 0)
    <3>1. /\ One(job \in Held) = 1 /\ One(job = "send") = 0 /\ One(job = "connected") = 0
          /\ One(job = "watch") = 0 /\ One(job = "close") = 1 /\ One(job = "error") = 0
      BY <1>9 DEF One, Held, Jobs
    <3> QED
      BY <1>2, <3>1
  <2>7. TakesOver(1, 0, 0, 0, 0, 1)
    BY <2>5, <2>6 DEF TakesOver
  <2> QED
    BY <1>1, <1>3, <1>9, <2>2, <2>7, JobInv
<1>10. CASE job = "error"
  <2>1. todo' = <<"on_error", "release">>
    BY <1>1, <1>10 DEF Handler
  <2>2. Shape' /\ todo' \in Seq(Steps)
    BY <2>1, PairShape DEF Steps, Later, Ending, Callbacks
  <2>3. \A S : Count(todo', S) = One("on_error" \in S) + One("release" \in S)
    BY <2>1, PairShape DEF Steps, Later, Ending, Callbacks
  <2>4. /\ Count(todo', {"release"}) = 1 /\ Count(todo', {"give_back"}) = 0
        /\ Count(todo', {"leave"}) = 0 /\ Count(todo', {"announce"}) = 0
        /\ Count(todo', ReadSteps) = 0 + 0 /\ Count(todo', {"watch"}) = 0
        /\ Count(todo', WriteSteps) = 0 /\ Count(todo', {"on_error"}) = 1
        /\ Count(todo', {"on_closed"}) = 0
    BY <2>3 DEF One, ReadSteps, WriteSteps, Receipts, Sendings
  <2>5. StepsMove(1, 0, 0, 0, 0 + 0, 0, 0, 1, 0)
    BY <1>4, <2>2, <2>4
  <2>6. JobsMove(0 - 1, 0 - 0, 0 - 0, 0 - 0, 0 - 0, 0 - 1)
    <3>1. /\ One(job \in Held) = 1 /\ One(job = "send") = 0 /\ One(job = "connected") = 0
          /\ One(job = "watch") = 0 /\ One(job = "close") = 0 /\ One(job = "error") = 1
      BY <1>10 DEF One, Held, Jobs
    <3> QED
      BY <1>2, <3>1
  <2>7. TakesOver(1, 0, 0, 0, 1, 0)
    BY <2>5, <2>6 DEF TakesOver
  <2> QED
    BY <1>1, <1>3, <1>10, <2>2, <2>7, JobInv
<1> QED
  BY <1>2, <1>5, <1>6, <1>7, <1>8, <1>9, <1>10 DEF Jobs
-----------------------------------------------------------------------------
(* A reference is given back, perhaps the last one.                        *)

(* The counts of those who hold a reference are natural numbers, as long   *)
(* as the channel's own is.                                                *)
LEMMA HoldersAre ==
  ASSUME Inv
  PROVE  /\ Operations \in Nat /\ JobsIn(Held) \in Nat /\ StepsIn({"release"}) \in Nat
         /\ ThreadsIn(Busy) \in Nat /\ own \in Int /\ ref \in Int
         /\ ref = Operations + own + JobsIn(Held) + StepsIn({"release"}) + ThreadsIn(Busy)
         /\ StepsIn({"give_back"}) \in Nat /\ Operations >= StepsIn({"give_back"})
         /\ ~resumed => own \in Nat
<1>1. /\ JobsIn(Held) \in Nat /\ JobsIn({"send"}) \in Nat /\ StepsIn({"give_back"}) \in Nat
      /\ StepsIn({"release"}) \in Nat /\ ThreadsIn(Busy) \in Nat
  BY NumbersAre DEF Inv
<1>2. ref \in Int /\ own \in Int /\ recvs \in Nat /\ sends \in Nat /\ Len(port) \in Nat
  BY LenProperties DEF Inv, Types
<1>3. ref = Operations + own + JobsIn(Held) + StepsIn({"release"}) + ThreadsIn(Busy)
  BY DEF Inv, Counted
<1>4. Operations \in Nat /\ Operations >= StepsIn({"give_back"})
  BY <1>1, <1>2 DEF Operations
<1>5. ~resumed => own \in Nat
  BY <1>2 DEF Inv, OnceEach
<1> QED
  BY <1>1, <1>2, <1>3, <1>4, <1>5

(* What is counted by an action that reads, writes and watches nothing.    *)
LEMMA NothingRead ==
  ASSUME Inv, kind' = kind, platform' = platform, watched' = watched, ~resumed' => ~resumed,
         Unannounced = 0,
         NEW rel, NEW ret, NEW lea, NEW ann, NEW wat, NEW wr, NEW err, NEW clo,
         NEW held, NEW send, NEW jclo, NEW jerr, NEW wrote, NEW fails, NEW closes,
         NEW refs, NEW acts, NEW owns, NEW ds,
         StepsMove(rel, ret, lea, ann, 0, wat, wr, err, clo), wat \in Nat,
         JobsMove(held, send, 0, 0, jclo, jerr), PortMoves(0, wrote),
         BitsMove(fails, closes), CountersMove(refs, acts, owns, 0, ds),
         fails \in Nat, closes \in Nat
  PROVE  Reads'
<1>1. Reads
  BY DEF Inv
<1>2. ~resumed' /\ ~Dead' /\ OnLinux /\ Unannounced' = 0 /\ StepsIn({"watch"})' = 0 =>
        watched' = ("pending" \notin bits')
  BY <1>1, WatchedKept
<1> QED
  BY <1>1, <1>2, ReadsKept

LEMMA NothingWritten ==
  ASSUME Inv, kind' = kind, ~resumed' => ~resumed, UNCHANGED <<sendq, inflight>>,
         NEW rel, NEW ret, NEW lea, NEW ann, NEW rd, NEW wat, NEW err, NEW clo,
         NEW held, NEW conn, NEW jwat, NEW jclo, NEW jerr, NEW read, NEW fails, NEW closes,
         NEW refs, NEW acts, NEW owns, NEW dr,
         StepsMove(rel, ret, lea, ann, rd, wat, 0, err, clo),
         JobsMove(held, 0, conn, jwat, jclo, jerr), PortMoves(read, 0),
         BitsMove(fails, closes), CountersMove(refs, acts, owns, dr, 0),
         fails \in Nat, closes \in Nat
  PROVE  Writes'
<1>1. Writes /\ sendq \in Nat
  BY DEF Inv, Types
<1>2. 0 + 0 + 0 + 0 \in {0, -1} /\ (0 + 0 + 0 + 0 = -1 => Dead')
  OBVIOUS
<1> QED
  BY <1>1, <1>2, WritesKept

LEMMA EndingInv ==
  ASSUME Inv, ~deleted, NEW step \in Ending, Is(step), Done, Aside,
         active' = IF step = "give_back" THEN active - 1 ELSE active,
         Release, UNCHANGED <<bits, tasks, batch, phase, upc, own, told, resumed>>
  PROVE  Inv'
<1>1. /\ Types /\ Shape /\ Counted /\ OnceEach /\ Writes /\ (phase # "tasks" => batch = <<>>)
      /\ ref' = ref - 1 /\ deleted' = (deleted \/ ref = 1)
  BY DEF Inv, Types, Release
<1>2. /\ Shape'
      /\ StepsMove(-One(step = "release"), -One(step = "give_back"), -One(step = "leave"),
                   -One(step = "announce"), -One(step \in ReadSteps), -One(step = "watch"),
                   -One(step \in WriteSteps), -One(step = "on_error"), -One(step = "on_closed"))
      /\ todo' = <<>>
  BY <1>1, DoneMoves
<1>3. Unannounced = 0
  BY Announced DEF Is, Ending
<1>4. /\ Operations \in Nat /\ JobsIn(Held) \in Nat /\ StepsIn({"release"}) \in Nat
      /\ ThreadsIn(Busy) \in Nat /\ own \in Int /\ ref \in Int
      /\ ref = Operations + own + JobsIn(Held) + StepsIn({"release"}) + ThreadsIn(Busy)
      /\ StepsIn({"give_back"}) \in Nat /\ Operations >= StepsIn({"give_back"})
      /\ ~resumed => own \in Nat
  BY HoldersAre
<1>5. /\ step = "release" => StepsIn({"release"}) >= 1
      /\ step = "give_back" => StepsIn({"give_back"}) >= 1
  BY <1>1, HeadCounts DEF Is
<1>6. /\ ThreadsMove(0, 0, 0) /\ PortMoves(0, 0) /\ BitsMove(0, 0) /\ ToldMove(0, 0)
      /\ JobsMove(0, 0, 0, 0, 0, 0)
  BY <1>1, SameThreads, SamePort, BitsAre, SameTold, SameJobs DEF Aside
<1>7. PICK rel \in {0, -1}, ret \in {0, -1} :
        /\ StepsMove(rel, ret, 0, 0, 0, 0, 0, 0, 0) /\ CountersMove(-1, ret, 0, 0, 0)
        /\ rel + ret = -1 /\ (ret = -1 => ~OnLinux)
  <2>1. CASE step = "release"
    <3>1. /\ One(step = "release") = 1 /\ One(step = "give_back") = 0 /\ One(step = "leave") = 0
          /\ One(step = "announce") = 0 /\ One(step \in ReadSteps) = 0 /\ One(step = "watch") = 0
          /\ One(step \in WriteSteps) = 0 /\ One(step = "on_error") = 0 /\ One(step = "on_closed") = 0
      BY <2>1 DEF One, ReadSteps, WriteSteps, Receipts, Sendings
    <3>2. StepsMove(-1, 0, 0, 0, 0, 0, 0, 0, 0)
      BY <1>2, <3>1 DEF StepsMove
    <3>3. CountersMove(-1, 0, 0, 0, 0)
      BY <1>1, <2>1 DEF CountersMove, Aside, Types
    <3> QED
      BY <3>2, <3>3
  <2>2. CASE step = "give_back"
    <3>1. /\ One(step = "release") = 0 /\ One(step = "give_back") = 1 /\ One(step = "leave") = 0
          /\ One(step = "announce") = 0 /\ One(step \in ReadSteps) = 0 /\ One(step = "watch") = 0
          /\ One(step \in WriteSteps) = 0 /\ One(step = "on_error") = 0 /\ One(step = "on_closed") = 0
      BY <2>2 DEF One, ReadSteps, WriteSteps, Receipts, Sendings
    <3>2. StepsMove(0, -1, 0, 0, 0, 0, 0, 0, 0)
      BY <1>2, <3>1 DEF StepsMove
    <3>3. CountersMove(-1, -1, 0, 0, 0)
      BY <1>1, <2>2 DEF CountersMove, Aside, Types
    <3>4. ~OnLinux
      BY <1>1, <1>4, <1>5, <2>2 DEF Counted
    <3> QED
      BY <3>2, <3>3, <3>4
  <2> QED
    BY <2>1, <2>2 DEF Ending
<1>8. Types' /\ Counted' /\ OnceEach'
  <2>1. Paid(0 + 0 + 0 + 0 + 0 + ret, -1, ret, 0, 0, rel, 0)
    BY <1>1, <1>7 DEF Paid, Counted
  <2>2. Told(0, 0, 0, 0, 0) /\ GivenUp(0, 0, 0, 0, 0, 0, 0)
    BY DEF Told, GivenUp
  <2>3. /\ kind' = kind /\ platform' = platform /\ (~resumed' => ~resumed)
        /\ sendq' \in Nat /\ inflight' \in Nat
    BY <1>1 DEF Aside, Types
  <2>4. deleted' \in BOOLEAN /\ resumed' \in BOOLEAN
    BY <1>1, Zenon DEF Types
  <2>5. ~resumed' => own' >= 0
    BY <1>4
  <2> QED
    BY <1>1, <1>6, <1>7, <2>1, <2>2, <2>3, <2>4, <2>5, MovesKept
<1>9. Untouched'
  <2>1. StepsIn({"announce"})' = StepsIn({"announce"}) + 0 /\ StepsIn({"announce"}) \in Nat
        /\ JobsIn({"connected"})' = JobsIn({"connected"}) + 0 /\ JobsIn({"connected"}) \in Nat
    BY <1>6, <1>7 DEF StepsMove, JobsMove
  <2>2. Unannounced' = 0
    BY <1>3, <2>1 DEF Unannounced
  <2> QED
    BY <2>2 DEF Untouched
<1>10. HandlerHolds'
  BY <1>2 DEF HandlerHolds
<1>11. Gone'
  <2> SUFFICES ASSUME deleted', ~resumed' PROVE ref' = 0 /\ own' = 0
    BY <1>2 DEF Gone
  <2>1. ref = 1
    BY <1>1
  <2>2. own \in Nat /\ (StepsIn({"release"}) >= 1 \/ Operations >= 1)
    BY <1>4, <1>5 DEF Ending
  <2> QED
    BY <1>1, <1>4, <2>1, <2>2
<1>12. Reads'
  <2>1. kind' = kind /\ platform' = platform /\ watched' = watched /\ (~resumed' => ~resumed)
    BY DEF Aside
  <2> QED
    BY <1>3, <1>6, <1>7, <2>1, NothingRead
<1>13. Writes'
  <2>1. kind' = kind /\ (~resumed' => ~resumed) /\ UNCHANGED <<sendq, inflight>>
    BY <1>1 DEF Aside
  <2> QED
    BY <1>6, <1>7, <2>1, NothingWritten
<1> QED
  BY <1>2, <1>8, <1>9, <1>10, <1>11, <1>12, <1>13 DEF Inv

(* The channel gives up its own reference: that of the handler remains.    *)
LEMMA LeaveInv ==
  ASSUME Inv, ~deleted, Is("leave"), Done, Aside,
         active' = IF OnLinux THEN active - 1 ELSE active,
         Release, own' = own - 1, UNCHANGED <<bits, tasks, batch, phase, upc, told, resumed>>
  PROVE  Inv'
<1>1. /\ Types /\ Shape /\ Counted /\ OnceEach /\ Writes /\ (phase # "tasks" => batch = <<>>)
      /\ ref' = ref - 1 /\ deleted' = (deleted \/ ref = 1)
  BY DEF Inv, Types, Release
<1>2. Shape' /\ StepsMove(0, 0, -1, 0, 0, 0, 0, 0, 0)
  <2>1. "leave" \in Steps
    BY DEF Steps, Later
  <2>2. /\ Shape'
        /\ StepsMove(-One("leave" = "release"), -One("leave" = "give_back"), -One("leave" = "leave"),
                   -One("leave" = "announce"), -One("leave" \in ReadSteps), -One("leave" = "watch"),
                   -One("leave" \in WriteSteps), -One("leave" = "on_error"), -One("leave" = "on_closed"))
    BY <1>1, DoneMoves
  <2>3. /\ One("leave" = "release") = 0 /\ One("leave" = "give_back") = 0 /\ One("leave" = "leave") = 1
        /\ One("leave" = "announce") = 0 /\ One("leave" \in ReadSteps) = 0 /\ One("leave" = "watch") = 0
        /\ One("leave" \in WriteSteps) = 0 /\ One("leave" = "on_error") = 0
        /\ One("leave" = "on_closed") = 0
    BY DEF One, ReadSteps, WriteSteps, Receipts, Sendings
  <2> QED
    BY <2>2, <2>3 DEF StepsMove
<1>3. Unannounced = 0
  BY Announced DEF Is
<1>4. /\ Operations \in Nat /\ JobsIn(Held) \in Nat /\ StepsIn({"release"}) \in Nat
      /\ ThreadsIn(Busy) \in Nat /\ own \in Int /\ ref \in Int
      /\ ref = Operations + own + JobsIn(Held) + StepsIn({"release"}) + ThreadsIn(Busy)
      /\ ~resumed => own \in Nat
  BY HoldersAre
<1>5. StepsIn({"leave"}) >= 1 /\ StepsIn({"leave"}) \in Nat /\ StepsIn({"release"}) >= 1
  <2>1. StepsIn({"leave"}) >= 1 /\ StepsIn({"leave"}) \in Nat
    BY <1>1, HeadCounts, NumbersAre DEF Is
  <2> QED
    BY <1>1, <1>4, <2>1 DEF Shape
<1>6. /\ ThreadsMove(0, 0, 0) /\ PortMoves(0, 0) /\ BitsMove(0, 0) /\ ToldMove(0, 0)
      /\ JobsMove(0, 0, 0, 0, 0, 0)
  BY <1>1, SameThreads, SamePort, BitsAre, SameTold, SameJobs DEF Aside
<1>7. PICK acts \in {0, -1} : CountersMove(-1, acts, -1, 0, 0) /\ (OnLinux <=> acts = -1)
  <2>1. CASE OnLinux
    <3>1. CountersMove(-1, -1, -1, 0, 0)
      BY <1>1, <2>1 DEF CountersMove, Aside, Types
    <3> QED
      BY <2>1, <3>1
  <2>2. CASE ~OnLinux
    <3>1. CountersMove(-1, 0, -1, 0, 0)
      BY <1>1, <2>2 DEF CountersMove, Aside, Types
    <3> QED
      BY <2>2, <3>1
  <2> QED
    BY <2>1, <2>2
<1>8. ~resumed => own >= 1
  <2>1. JobsIn({"close"}) \in Nat /\ ThreadsIn({"closing"}) \in Nat
    BY <1>1, NumbersAre
  <2>2. Closed \in {0, 1} /\ Closers \in Nat
    BY <2>1 DEF Closed, One, Closers
  <2>3. ~resumed => Unannounced + own + Closed = 1 + Closers + StepsIn({"leave"})
    BY <1>1 DEF OnceEach
  <2> QED
    BY <1>3, <1>4, <1>5, <2>2, <2>3
<1>9. Types' /\ Counted' /\ OnceEach'
  <2>1. Paid(0 + 0 + 0 + 0 + 0 + 0, -1, acts, -1, 0, 0, 0)
    BY <1>7 DEF Paid
  <2>2. Told(0, 0, 0, 0, 0) /\ GivenUp(0, 0, -1, 0, 0, 0, -1)
    BY DEF Told, GivenUp
  <2>3. /\ kind' = kind /\ platform' = platform /\ (~resumed' => ~resumed)
        /\ sendq' \in Nat /\ inflight' \in Nat
    BY <1>1 DEF Aside, Types
  <2>4. deleted' \in BOOLEAN /\ resumed' \in BOOLEAN
    BY <1>1, Zenon DEF Types
  <2>5. ~resumed' => own' >= 0
    BY <1>4, <1>8
  <2> QED
    BY <1>1, <1>2, <1>6, <1>7, <2>1, <2>2, <2>3, <2>4, <2>5, MovesKept
<1>10. ~deleted' \/ resumed'
  <2>1. ~resumed => ref >= 2
    BY <1>4, <1>5, <1>8
  <2>2. deleted' => ref = 1
    BY <1>1
  <2> QED
    BY <1>4, <2>1, <2>2
<1>11. Untouched' /\ Gone'
  BY <1>2, <1>3, <1>6, <1>10, RestKept
<1>12. HandlerHolds'
  <2>1. StepsIn({"release"})' = StepsIn({"release"}) + 0
    BY <1>2 DEF StepsMove
  <2> QED
    BY <1>4, <1>5, <2>1 DEF HandlerHolds
<1>13. Reads'
  <2>1. kind' = kind /\ platform' = platform /\ watched' = watched /\ (~resumed' => ~resumed)
    BY DEF Aside
  <2> QED
    BY <1>2, <1>3, <1>6, <1>7, <2>1, NothingRead
<1>14. Writes'
  <2>1. kind' = kind /\ (~resumed' => ~resumed) /\ UNCHANGED <<sendq, inflight>>
    BY <1>1 DEF Aside
  <2> QED
    BY <1>2, <1>6, <1>7, <2>1, NothingWritten
<1> QED
  BY <1>2, <1>9, <1>11, <1>12, <1>13, <1>14 DEF Inv

(* Another thread lets the channel go.                                     *)
LEMMA UserReleasesInv ==
  ASSUME Inv, NEW u \in Users, UserReleases(u), Aside PROVE Inv'
<1>1. /\ Types /\ Shape /\ Counted /\ OnceEach /\ Writes /\ (phase # "tasks" => batch = <<>>)
      /\ ref' = ref - 1 /\ deleted' = (deleted \/ ref = 1) /\ upc[u] = "idle"
      /\ upc' = [upc EXCEPT ![u] = "out"]
      /\ UNCHANGED <<bits, active, tasks, batch, phase, todo, own, told, resumed>>
  BY DEF Inv, Types, Release, UserReleases, loop, history
<1>2. ThreadsIn(Busy) >= 1
  BY <1>1, BusyIsHeld DEF Busy
<1>3. Unannounced = 0 /\ (~deleted \/ resumed)
  BY <1>2, HolderAnnounced
<1>4. /\ Operations \in Nat /\ JobsIn(Held) \in Nat /\ StepsIn({"release"}) \in Nat
      /\ ThreadsIn(Busy) \in Nat /\ own \in Int /\ ref \in Int
      /\ ref = Operations + own + JobsIn(Held) + StepsIn({"release"}) + ThreadsIn(Busy)
      /\ StepsIn({"give_back"}) \in Nat /\ Operations >= StepsIn({"give_back"})
      /\ ~resumed => own \in Nat
  BY HoldersAre
<1>5. ThreadsMove(-1, 0, 0)
  <2>1. ThreadsMove(One("out" \in Busy) - One(upc[u] \in Busy),
                    One("out" = "closing") - One(upc[u] = "closing"),
                    One("out" = "failing") - One(upc[u] = "failing"))
    BY <1>1, ThreadMoves DEF Doing
  <2>2. /\ One("out" \in Busy) - One(upc[u] \in Busy) = -1
        /\ One("out" = "closing") - One(upc[u] = "closing") = 0
        /\ One("out" = "failing") - One(upc[u] = "failing") = 0
    BY <1>1 DEF One, Busy
  <2> QED
    BY <2>1, <2>2
<1>6. /\ StepsMove(0, 0, 0, 0, 0, 0, 0, 0, 0) /\ PortMoves(0, 0) /\ BitsMove(0, 0)
      /\ ToldMove(0, 0) /\ JobsMove(0, 0, 0, 0, 0, 0) /\ Shape'
  BY <1>1, SameSteps, SameShape, SamePort, BitsAre, SameTold, SameJobs DEF Aside
<1>7. CountersMove(-1, 0, 0, 0, 0)
  BY <1>1 DEF CountersMove, Aside, Types
<1>8. Types' /\ Counted' /\ OnceEach'
  <2>1. Paid(0 + 0 + 0 + 0 + 0 + 0, -1, 0, 0, 0, 0, -1)
    BY DEF Paid
  <2>2. Told(0, 0, 0, 0, 0) /\ GivenUp(0, 0, 0, 0, 0, 0, 0)
    BY DEF Told, GivenUp
  <2>3. /\ kind' = kind /\ platform' = platform /\ (~resumed' => ~resumed)
        /\ sendq' \in Nat /\ inflight' \in Nat
    BY <1>1 DEF Aside, Types
  <2>4. deleted' \in BOOLEAN /\ resumed' \in BOOLEAN
    BY <1>1, Zenon DEF Types
  <2>5. ~resumed' => own' >= 0
    BY <1>1, <1>4
  <2> QED
    BY <1>1, <1>5, <1>6, <1>7, <2>1, <2>2, <2>3, <2>4, <2>5, MovesKept
<1>9. Untouched'
  <2>1. StepsIn({"announce"})' = StepsIn({"announce"}) + 0 /\ StepsIn({"announce"}) \in Nat
        /\ JobsIn({"connected"})' = JobsIn({"connected"}) + 0 /\ JobsIn({"connected"}) \in Nat
    BY <1>6 DEF StepsMove, JobsMove
  <2>2. Unannounced' = 0
    BY <1>3, <2>1 DEF Unannounced
  <2> QED
    BY <2>2 DEF Untouched
<1>10. HandlerHolds'
  <2>1. HandlerHolds
    BY DEF Inv
  <2>2. \A S : StepsIn(S)' = StepsIn(S)
    BY <1>1 DEF StepsIn
  <2> QED
    BY <1>1, <2>1, <2>2 DEF HandlerHolds
<1>11. Gone'
  <2> SUFFICES ASSUME deleted', ~resumed' PROVE ref' = 0 /\ own' = 0 /\ todo' = <<>>
    BY DEF Gone
  <2>1. ref = 1 /\ own \in Nat
    BY <1>1, <1>3, <1>4
  <2>2. ref' = 0 /\ own = 0 /\ StepsIn({"release"}) = 0 /\ StepsIn({"give_back"}) = 0
    BY <1>1, <1>2, <1>4, <2>1
  <2>3. StepsIn({"announce"}) = 0
    <3>1. JobsIn({"connected"}) \in Nat /\ StepsIn({"announce"}) \in Nat
      BY <1>1, NumbersAre
    <3> QED
      BY <1>3, <3>1 DEF Unannounced
  <2>4. todo = <<>>
    BY <2>2, <2>3 DEF Inv, HandlerHolds
  <2> QED
    BY <1>1, <2>2, <2>4
<1>12. Reads'
  <2>1. kind' = kind /\ platform' = platform /\ watched' = watched /\ (~resumed' => ~resumed)
    BY <1>1 DEF Aside
  <2> QED
    BY <1>3, <1>6, <1>7, <2>1, NothingRead
<1>13. Writes'
  <2>1. kind' = kind /\ (~resumed' => ~resumed) /\ UNCHANGED <<sendq, inflight>>
    BY <1>1 DEF Aside
  <2> QED
    BY <1>6, <1>7, <2>1, NothingWritten
<1> QED
  BY <1>6, <1>8, <1>9, <1>10, <1>11, <1>12, <1>13 DEF Inv
-----------------------------------------------------------------------------
(* The channel is announced, with a reference of its own.                  *)
LEMMA AnnounceInv ==
  ASSUME Inv, ~deleted, Is("announce"), own' = own + 1,
         UNCHANGED <<deleted, batch, phase, upc, told, resumed>>,
         UNCHANGED <<kind, platform, recvs, port, sendq, inflight, sends>>,
         \/ /\ ~OnLinux /\ ref' = ref + 1 /\ active' = active /\ UNCHANGED <<bits, tasks>>
            /\ Then(<<"on_connected", "watch">>)
         \/ /\ OnLinux /\ active' = active + 1 /\ watched' = TRUE /\ Then(<<"on_connected">>)
            /\ \/ ref' = ref + 1 /\ UNCHANGED <<bits, tasks>>
               \/ ref' = ref + 2 /\ bits' = bits \cup {"error"} /\ Execute("error")
  PROVE  Inv'
<1>1. /\ Types /\ Shape /\ Untouched /\ OnceEach /\ Reads /\ (phase # "tasks" => batch = <<>>)
  BY DEF Inv, Types
<1>2. /\ Unannounced = 1 /\ ref = 0 /\ own = 0 /\ bits = {} /\ told = {} /\ ~resumed
  <2>1. StepsIn({"announce"}) >= 1 /\ StepsIn({"announce"}) \in Nat /\ JobsIn({"connected"}) \in Nat
    BY <1>1, HeadCounts, NumbersAre DEF Is
  <2>2. Unannounced >= 1
    BY <2>1 DEF Unannounced
  <2> QED
    BY <1>1, <2>2 DEF Untouched
<1>3. /\ ThreadsMove(0, 0, 0) /\ PortMoves(0, 0) /\ ToldMove(0, 0)
  BY <1>1, SameThreads, SamePort, SameTold
<1>4. kind' = kind /\ platform' = platform /\ (~resumed' => ~resumed) /\ sendq' \in Nat /\ inflight' \in Nat
  BY <1>1 DEF Types
<1>5. deleted' \in BOOLEAN /\ resumed' \in BOOLEAN
  BY <1>1, Zenon DEF Types
<1>6. own' = 1 /\ (~resumed' => own' >= 0)
  BY <1>2
<1>7. ASSUME NEW rd, NEW wat, NEW jerr, NEW held,
             StepsMove(0, 0, 0, -1, rd, wat, 0, 0, 0), JobsMove(held, 0, 0, 0, 0, jerr)
      PROVE  Untouched' /\ HandlerHolds' /\ Gone'
  <2>1. /\ StepsIn({"announce"})' = StepsIn({"announce"}) + (-1) /\ StepsIn({"announce"}) \in Nat
        /\ JobsIn({"connected"})' = JobsIn({"connected"}) + 0 /\ JobsIn({"connected"}) \in Nat
    BY <1>7 DEF StepsMove, JobsMove
  <2>2. Unannounced' = 0
    BY <1>2, <2>1 DEF Unannounced
  <2> QED
    BY <1>6, <2>2 DEF Untouched, HandlerHolds, Gone
<1>8. "announce" \in Steps /\ "announce" \notin Ending /\ "on_connected" \in Callbacks \ {"on_closed"}
      /\ "watch" \in {"watch", "send_remains", "rest"}
  BY DEF Steps, Ending, Callbacks
<1>9. CASE /\ ~OnLinux /\ ref' = ref + 1 /\ active' = active /\ UNCHANGED <<bits, tasks>>
           /\ Then(<<"on_connected", "watch">>)
  <2>1. /\ Shape'
        /\ StepsMove(0, 0, -One("announce" = "leave"),
                  -One("announce" = "announce"), One("watch" = "watch") - One("announce" \in ReadSteps),
                  One("watch" = "watch") - One("announce" = "watch"),
                  One("watch" = "send_remains") - One("announce" \in WriteSteps),
                  One("on_connected" = "on_error") - One("announce" = "on_error"),
                  -One("announce" = "on_closed"))
    <3>1. todo' = <<"on_connected", "watch">> \o Tail(todo)
      BY <1>9 DEF Then
    <3> QED
      BY <1>1, <1>8, <3>1, CallThenMoves
  <2>2. /\ One("announce" = "leave") = 0 /\ One("announce" = "announce") = 1
        /\ One("watch" = "watch") = 1 /\ One("announce" \in ReadSteps) = 1
        /\ One("announce" = "watch") = 0 /\ One("watch" = "send_remains") = 0
        /\ One("announce" \in WriteSteps) = 0 /\ One("on_connected" = "on_error") = 0
        /\ One("announce" = "on_error") = 0 /\ One("announce" = "on_closed") = 0
    BY DEF One, ReadSteps, WriteSteps, Receipts, Sendings
  <2>3. StepsMove(0, 0, 0, -1, 0, 1, 0, 0, 0)
    BY <2>1, <2>2 DEF StepsMove
  <2>4. JobsMove(0, 0, 0, 0, 0, 0) /\ BitsMove(0, 0)
    BY <1>1, <1>9, SameJobs, BitsAre
  <2>5. CountersMove(1, 0, 1, 0, 0)
    BY <1>1, <1>9 DEF CountersMove, Types
  <2>6. Types' /\ Counted' /\ OnceEach'
    <3>1. Paid(0 + 0 + 0 + 0 + 0 + 0, 1, 0, 1, 0, 0, 0)
      BY <1>9 DEF Paid
    <3>2. Told(0, 0, 0, 0, 0) /\ GivenUp(0, -1, 1, 0, 0, 0, 0)
      BY DEF Told, GivenUp
    <3> QED
      BY <1>1, <1>3, <1>4, <1>5, <1>6, <2>3, <2>4, <2>5, <3>1, <3>2, MovesKept
  <2>7. Untouched' /\ HandlerHolds' /\ Gone'
    BY <1>7, <2>3, <2>4
  <2>8. Reads'
    <3>1. ~resumed' /\ ~Dead' /\ OnLinux /\ Unannounced' = 0 /\ StepsIn({"watch"})' = 0 =>
            watched' = ("pending" \notin bits')
      BY <1>9
    <3>2. /\ 0 + 0 <= 0 /\ 0 <= 0 /\ 0 + 0 + 0 + 0 <= 0 /\ 0 + 0 + 0 + 0 >= 0 /\ 0 \in Nat
      OBVIOUS
    <3>3. Reads /\ kind' = kind /\ platform' = platform /\ (~resumed' => ~resumed)
      BY <1>1, <1>4
    <3> QED
      BY <1>3, <2>3, <2>4, <2>5, <3>1, <3>2, <3>3, ReadsKept
  <2>9. Writes'
    BY <1>3, <1>4, <2>3, <2>4, <2>5, NothingWritten
  <2> QED
    BY <2>1, <2>6, <2>7, <2>8, <2>9 DEF Inv
<1>10. CASE /\ OnLinux /\ active' = active + 1 /\ watched' = TRUE /\ Then(<<"on_connected">>)
            /\ \/ ref' = ref + 1 /\ UNCHANGED <<bits, tasks>>
               \/ ref' = ref + 2 /\ bits' = bits \cup {"error"} /\ Execute("error")
  <2>1. /\ Shape'
        /\ StepsMove(0, 0, -One("announce" = "leave"),
                  -One("announce" = "announce"), -One("announce" \in ReadSteps),
                  -One("announce" = "watch"), -One("announce" \in WriteSteps),
                  One("on_connected" = "on_error") - One("announce" = "on_error"),
                  -One("announce" = "on_closed"))
    <3>1. todo' = <<"on_connected">> \o Tail(todo)
      BY <1>10 DEF Then
    <3> QED
      BY <1>1, <1>8, <3>1, CallMoves
  <2>2. /\ One("announce" = "leave") = 0 /\ One("announce" = "announce") = 1
        /\ One("announce" \in ReadSteps) = 1
        /\ One("announce" = "watch") = 0
        /\ One("announce" \in WriteSteps) = 0 /\ One("on_connected" = "on_error") = 0
        /\ One("announce" = "on_error") = 0 /\ One("announce" = "on_closed") = 0
    BY DEF One, ReadSteps, WriteSteps, Receipts, Sendings
  <2>3. StepsMove(0, 0, 0, -1, -1, 0, 0, 0, 0)
    BY <2>1, <2>2 DEF StepsMove
  <2>4. PICK d \in {0, 1} : /\ JobsMove(d, 0, 0, 0, 0, d) /\ BitsMove(d, 0)
                            /\ ref' = ref + (1 + d) /\ "pending" \notin bits'
    <3>1. CASE ref' = ref + 1 /\ UNCHANGED <<bits, tasks>>
      <4>1. JobsMove(0, 0, 0, 0, 0, 0) /\ BitsMove(0, 0)
        BY <1>1, <3>1, SameJobs, BitsAre
      <4>2. ref' = ref + (1 + 0) /\ "pending" \notin bits'
        BY <1>2, <3>1
      <4> QED
        BY <4>1, <4>2
    <3>2. CASE ref' = ref + 2 /\ bits' = bits \cup {"error"} /\ Execute("error")
      <4>1. JobsMove(1, 0, 0, 0, 0, 1) /\ BitsMove(1, 0)
        BY <1>1, <1>2, <3>2, PostMoves, BitsAre
      <4>2. ref' = ref + (1 + 1) /\ "pending" \notin bits'
        BY <1>2, <3>2
      <4> QED
        BY <4>1, <4>2
    <3> QED
      BY <1>10, <3>1, <3>2
  <2>5. CountersMove(1 + d, 1, 1, 0, 0)
    BY <1>1, <1>10, <2>4 DEF CountersMove, Types
  <2>6. Types' /\ Counted' /\ OnceEach'
    <3>1. Paid(0 + 0 + 0 + 0 + 0 + 0, 1 + d, 1, 1, d, 0, 0)
      BY <1>10 DEF Paid
    <3>2. Told(d, 0, 0, d, 0) /\ Told(0, 0, 0, 0, 0) /\ GivenUp(0, -1, 1, 0, 0, 0, 0)
      BY DEF Told, GivenUp
    <3> QED
      BY <1>1, <1>3, <1>4, <1>5, <1>6, <2>3, <2>4, <2>5, <3>1, <3>2, MovesKept
  <2>7. Untouched' /\ HandlerHolds' /\ Gone'
    BY <1>7, <2>3, <2>4
  <2>8. Reads'
    <3>1. watched' = ("pending" \notin bits')
      BY <1>10, <2>4
    <3>2. /\ 0 + 0 <= 0 /\ 0 <= 0 /\ 0 + 0 + (-1) + 0 <= 0 /\ OnLinux /\ 0 \in Nat /\ d \in Nat
      BY <1>10
    <3>3. Reads /\ kind' = kind /\ platform' = platform /\ (~resumed' => ~resumed)
      BY <1>1, <1>4
    <3> QED
      BY <1>3, <2>3, <2>4, <2>5, <3>1, <3>2, <3>3, ReadsKept
  <2>9. Writes'
    BY <1>3, <1>4, <2>3, <2>4, <2>5, NothingWritten
  <2> QED
    BY <2>1, <2>6, <2>7, <2>8, <2>9 DEF Inv
<1> QED
  BY <1>9, <1>10

LEMMA AnnouncedInv ==
  ASSUME Inv, ~deleted, OfTcp(Tcp!FireOnConnected) \/ OfUdp(Udp!FireOnOpen) PROVE Inv'
<1>1. CASE OfTcp(Tcp!FireOnConnected)
  <2>1. /\ Is("announce") /\ Then(<<"on_connected", "watch">>) /\ ~OnLinux
        /\ ref' = ref + 1 /\ own' = own + 1
    BY <1>1, SharedSteps DEF OfTcp, Tcp!FireOnConnected, OnLinux
  <2>2. /\ UNCHANGED <<bits, active, deleted, tasks, batch, phase, upc, told, resumed>>
        /\ UNCHANGED <<kind, platform, recvs, port, sendq, inflight, sends>>
    BY <1>1 DEF OfTcp, Tcp!FireOnConnected, Tcp!history, Tcp!ioVars, udpOnly
  <2> QED
    BY <2>1, <2>2, AnnounceInv
<1>2. CASE OfUdp(Udp!FireOnOpen)
  <2>1. /\ Is("announce") /\ own' = own + 1
        /\ UNCHANGED <<deleted, batch, phase, upc, told, resumed>>
        /\ UNCHANGED <<kind, platform, recvs, port, sendq, inflight, sends>>
    BY <1>2, SharedSteps DEF OfUdp, Udp!FireOnOpen, Udp!history, tcpOnly
  <2>2. \/ /\ ~OnLinux /\ ref' = ref + 1 /\ active' = active /\ UNCHANGED <<bits, tasks>>
           /\ Then(<<"on_connected", "watch">>)
        \/ /\ OnLinux /\ active' = active + 1 /\ watched' = TRUE /\ Then(<<"on_connected">>)
           /\ \/ ref' = ref + 1 /\ UNCHANGED <<bits, tasks>>
              \/ ref' = ref + 2 /\ bits' = bits \cup {"error"} /\ Execute("error")
    BY <1>2, SharedSteps DEF OfUdp, Udp!FireOnOpen, OnLinux
  <2> QED
    BY <2>1, <2>2, AnnounceInv
<1> QED
  BY <1>1, <1>2
-----------------------------------------------------------------------------
(* The next receive is started, or the socket registered again.            *)
Watches(d, e, j, r) ==
  /\ d \in {0, 1} /\ e \in {0, 1} /\ j \in {0, 1} /\ r \in {0, 1} /\ d = e + j
  /\ StepsMove(0, 0, 0, 0, -1, -1, 0, e, 0) /\ JobsMove(j, 0, 0, 0, 0, j)
  /\ BitsMove(d, 0) /\ CountersMove(j + r, r, 0, r, 0) /\ Shape'
  /\ r = 1 => bits = {} /\ ~OnLinux
  /\ r = 0 => Dead' \/ "pending" \in bits \/ OnLinux
  /\ OnLinux /\ ~Dead' => watched' = ("pending" \notin bits')

LEMMA WatchInv ==
  ASSUME Inv, ~deleted, Is("watch"),
         UNCHANGED <<deleted, batch, phase, upc, own, told, resumed>>,
         UNCHANGED <<kind, platform, port, sendq, inflight>>,
         NEW d, NEW e, NEW j, NEW r, Watches(d, e, j, r)
  PROVE  Inv'
<1>0. /\ Types /\ HandlerHolds /\ OnceEach /\ Reads /\ Unannounced = 0 /\ todo # <<>>
      /\ (phase # "tasks" => batch = <<>>)
  BY Announced DEF Inv, Types, Is
<1>1. /\ d \in {0, 1} /\ e \in {0, 1} /\ j \in {0, 1} /\ r \in {0, 1} /\ d = e + j
      /\ StepsMove(0, 0, 0, 0, -1, -1, 0, e, 0) /\ JobsMove(j, 0, 0, 0, 0, j)
      /\ BitsMove(d, 0) /\ CountersMove(j + r, r, 0, r, 0) /\ Shape'
      /\ r = 1 => bits = {} /\ ~OnLinux
      /\ r = 0 => Dead' \/ "pending" \in bits \/ OnLinux
      /\ OnLinux /\ ~Dead' => watched' = ("pending" \notin bits')
  BY DEF Watches
<1>2. ThreadsMove(0, 0, 0) /\ PortMoves(0, 0) /\ ToldMove(0, 0)
  BY <1>0, SameThreads, SamePort, SameTold
<1>3. kind' = kind /\ platform' = platform /\ (~resumed' => ~resumed) /\ sendq' \in Nat /\ inflight' \in Nat
  BY <1>0 DEF Types
<1>4. deleted' \in BOOLEAN /\ resumed' \in BOOLEAN
  BY <1>0, Zenon DEF Types
<1>5. (~resumed' => own' >= 0) /\ (own >= 1 => own' >= 1)
  BY <1>0 DEF OnceEach
<1>6. Paid(r + 0 + 0 + 0 + 0 + 0, j + r, r, 0, j, 0, 0)
  BY <1>1 DEF Paid
<1>7. Told(d, 0, e, j, 0) /\ Told(0, 0, 0, 0, 0) /\ GivenUp(0, 0, 0, 0, 0, 0, 0)
  BY <1>1 DEF Told, GivenUp
<1>8. Types' /\ Counted' /\ OnceEach'
  BY <1>0, <1>1, <1>2, <1>3, <1>4, <1>5, <1>6, <1>7, MovesKept
<1>9. Untouched' /\ Gone'
  BY <1>0, <1>1, RestKept
<1>10. HandlerHolds'
  BY <1>0, <1>1, <1>5, HandlerKept
<1>11. Reads'
  <2>1. ~resumed' /\ ~Dead' /\ OnLinux /\ Unannounced' = 0 /\ StepsIn({"watch"})' = 0 =>
          watched' = ("pending" \notin bits')
    BY <1>1
  <2>2. /\ "pending" \in bits => r + 0 <= 0
        /\ "pending" \notin bits => /\ 0 <= 0 /\ r + 0 + (-1) + 0 <= 0
                                    /\ r + 0 + (-1) + 0 >= 0 \/ Dead' \/ OnLinux
        /\ d \in Nat /\ 0 \in Nat
    BY <1>1
  <2>3. /\ StepsMove(0, 0, 0, 0, -1, -1, 0, e, 0) /\ JobsMove(j, 0, 0, 0, 0, j)
        /\ BitsMove(d, 0) /\ CountersMove(j + r, r, 0, r, 0)
    BY <1>1
  <2> QED
    BY <1>0, <1>2, <1>3, <2>1, <2>2, <2>3, ReadsKept
<1>12. Writes'
  <2>1. /\ StepsMove(0, 0, 0, 0, -1, -1, 0, e, 0) /\ JobsMove(j, 0, 0, 0, 0, j)
        /\ BitsMove(d, 0) /\ CountersMove(j + r, r, 0, r, 0) /\ d \in Nat
    BY <1>1
  <2> QED
    BY <1>2, <1>3, <2>1, NothingWritten
<1> QED
  BY <1>1, <1>8, <1>9, <1>10, <1>11, <1>12 DEF Inv

LEMMA WatchDone ==
  ASSUME Types, Shape, Is("watch"), Done
  PROVE  Shape' /\ StepsMove(0, 0, 0, 0, -1, -1, 0, 0, 0)
<1>1. "watch" \in Steps
  BY DEF Steps, Later
<1>2. /\ Shape'
      /\ StepsMove(-One("watch" = "release"), -One("watch" = "give_back"), -One("watch" = "leave"),
                   -One("watch" = "announce"), -One("watch" \in ReadSteps), -One("watch" = "watch"),
                   -One("watch" \in WriteSteps), -One("watch" = "on_error"), -One("watch" = "on_closed"))
  BY <1>1, DoneMoves
<1>3. /\ One("watch" = "release") = 0 /\ One("watch" = "give_back") = 0 /\ One("watch" = "leave") = 0
      /\ One("watch" = "announce") = 0 /\ One("watch" \in ReadSteps) = 1 /\ One("watch" = "watch") = 1
      /\ One("watch" \in WriteSteps) = 0 /\ One("watch" = "on_error") = 0
      /\ One("watch" = "on_closed") = 0
  BY DEF One, ReadSteps, WriteSteps, Receipts, Sendings
<1> QED
  BY <1>2, <1>3 DEF StepsMove

LEMMA DoRecvInv ==
  ASSUME Inv, ~deleted, OfTcp(Tcp!DoRecv) \/ OfUdp(Udp!DoRecv) PROVE Inv'
<1>1. /\ Is("watch") /\ ~OnLinux
      /\ \/ bits # {} /\ Done /\ UNCHANGED <<bits, ref, active, recvs>>
         \/ /\ bits = {} /\ Done /\ bits' = bits
            /\ ref' = ref + 1 /\ active' = active + 1 /\ recvs' = recvs + 1
         \/ bits = {} /\ FailNow(<<>>) /\ UNCHANGED <<ref, active, recvs>>
  <2>1. CASE OfTcp(Tcp!DoRecv)
    BY <2>1, SharedSteps DEF OfTcp, Tcp!DoRecv, OnLinux
  <2>2. CASE OfUdp(Udp!DoRecv)
    BY <2>2, SharedSteps DEF OfUdp, Udp!DoRecv, OnLinux
  <2> QED
    BY <2>1, <2>2
<1>2. /\ UNCHANGED <<deleted, tasks, batch, phase, upc, own, told, resumed>>
      /\ UNCHANGED <<kind, platform, port, sendq, inflight, sends>>
  BY DEF OfTcp, OfUdp, Tcp!DoRecv, Udp!DoRecv, Tcp!history, Udp!history, tcpOnly, udpOnly
<1>3. Types /\ Shape
  BY DEF Inv
<1>4. JobsMove(0, 0, 0, 0, 0, 0)
  BY <1>2, <1>3, SameJobs
<1>5. CASE bits # {} /\ Done /\ UNCHANGED <<bits, ref, active, recvs>>
  <2>1. Shape' /\ StepsMove(0, 0, 0, 0, -1, -1, 0, 0, 0)
    BY <1>1, <1>3, <1>5, WatchDone
  <2>2. BitsMove(0, 0) /\ CountersMove(0 + 0, 0, 0, 0, 0)
    BY <1>2, <1>3, <1>5, BitsAre DEF CountersMove, Types
  <2>3. Dead' \/ "pending" \in bits
    BY <1>3, <1>5 DEF Dead, Types
  <2>4. Watches(0, 0, 0, 0)
    BY <1>1, <1>4, <2>1, <2>2, <2>3 DEF Watches
  <2> QED
    BY <1>1, <1>2, <2>4, WatchInv
<1>6. CASE /\ bits = {} /\ Done /\ bits' = bits
           /\ ref' = ref + 1 /\ active' = active + 1 /\ recvs' = recvs + 1
  <2>1. Shape' /\ StepsMove(0, 0, 0, 0, -1, -1, 0, 0, 0)
    BY <1>1, <1>3, <1>6, WatchDone
  <2>2. BitsMove(0, 0) /\ CountersMove(0 + 1, 1, 0, 1, 0)
    BY <1>2, <1>3, <1>6, BitsAre DEF CountersMove, Types
  <2>3. Watches(0, 0, 0, 1)
    BY <1>1, <1>4, <1>6, <2>1, <2>2 DEF Watches
  <2> QED
    BY <1>1, <1>2, <2>3, WatchInv
<1>7. CASE bits = {} /\ FailNow(<<>>) /\ UNCHANGED <<ref, active, recvs>>
  <2>1. PICK d \in {0, 1} :
          /\ Shape' /\ "error" \in bits'
          /\ BitsMove(d, 0)
          /\ StepsMove(0, 0, 0, 0, -One("watch" \in ReadSteps), -One("watch" = "watch"),
                       -One("watch" \in WriteSteps), d, 0)
    BY <1>1, <1>3, <1>7, FailNowMoves
  <2>2. One("watch" \in ReadSteps) = 1 /\ One("watch" = "watch") = 1 /\ One("watch" \in WriteSteps) = 0
    BY DEF One, ReadSteps, WriteSteps, Receipts, Sendings
  <2>3. StepsMove(0, 0, 0, 0, -1, -1, 0, d, 0)
    BY <2>1, <2>2 DEF StepsMove
  <2>4. CountersMove(0 + 0, 0, 0, 0, 0)
    BY <1>2, <1>3, <1>7 DEF CountersMove, Types
  <2>5. Dead'
    BY <2>1 DEF Dead
  <2>6. Watches(d, d, 0, 0)
    BY <1>1, <1>4, <2>1, <2>3, <2>4, <2>5 DEF Watches
  <2> QED
    BY <1>1, <1>2, <2>6, WatchInv
<1> QED
  BY <1>1, <1>5, <1>6, <1>7

LEMMA RegisterHandleInv ==
  ASSUME Inv, ~deleted, OfUdp(Udp!RegisterHandle) PROVE Inv'
<1>1. /\ Is("watch") /\ OnLinux /\ Done
      /\ IF Dead THEN UNCHANGED <<watched, bits, ref, tasks>>
         ELSE /\ watched' = ("pending" \notin bits)
              /\ UNCHANGED <<bits, ref, tasks>> \/ error_propagation
  BY SharedSteps DEF OfUdp, Udp!RegisterHandle, Udp!register_handle, OnLinux
<1>2. /\ UNCHANGED <<active, deleted, batch, phase, upc, own, told, resumed>>
      /\ UNCHANGED <<kind, platform, recvs, port, sendq, inflight, sends>>
  BY DEF OfUdp, Udp!RegisterHandle, Udp!history, tcpOnly
<1>3. Types /\ Shape
  BY DEF Inv
<1>4. Shape' /\ StepsMove(0, 0, 0, 0, -1, -1, 0, 0, 0)
  BY <1>1, <1>3, WatchDone
<1>5. PICK d \in {0, 1} : BitsMove(d, 0) /\ JobsMove(d, 0, 0, 0, 0, d) /\ ref' = ref + d
  <2>1. CASE UNCHANGED <<bits, ref, tasks>>
    <3>1. BitsMove(0, 0) /\ JobsMove(0, 0, 0, 0, 0, 0) /\ ref' = ref + 0
      BY <1>2, <1>3, <2>1, BitsAre, SameJobs DEF Types
    <3> QED
      BY <3>1
  <2>2. CASE error_propagation
    BY <1>2, <1>3, <2>2, PropagationMoves
  <2> QED
    BY <1>1, <2>1, <2>2
<1>6. CountersMove(d + 0, 0, 0, 0, 0)
  BY <1>2, <1>3, <1>5 DEF CountersMove, Types
<1>7. ~Dead' => watched' = ("pending" \notin bits')
  BY <1>1, <1>5 DEF BitsMove, Dead
<1>8. Watches(d, 0, d, 0)
  BY <1>1, <1>4, <1>5, <1>6, <1>7 DEF Watches
<1> QED
  BY <1>1, <1>2, <1>8, WatchInv
-----------------------------------------------------------------------------
(* The loop waits: nothing comes,                                          *)
LEMMA WaitQuietly ==
  ASSUME Inv, UNCHANGED <<bits, ref, active, deleted, tasks, batch, todo, upc, own, told, resumed>>,
         Aside, phase = "wait"
  PROVE  Inv'
<1>1. tasks \in Seq(Jobs) /\ batch \in Seq(Jobs) /\ batch = <<>>
  BY DEF Inv, Types
<1>2. \A S : JobsIn(S)' = JobsIn(S)
  BY DEF JobsIn
<1>3. /\ UNCHANGED <<todo, upc, port, bits, told, ref, active, own, recvs, sends, sendq, inflight>>
      /\ UNCHANGED <<deleted, resumed, watched, kind, platform>>
      /\ tasks' \in Seq(Jobs) /\ batch' \in Seq(Jobs) /\ (phase' # "tasks" => batch' = <<>>)
  BY <1>1 DEF Aside
<1> QED
  BY <1>2, <1>3, QuietInv

(* or Linux reports input or an error,                                     *)
LEMMA PollEventInv ==
  ASSUME Inv, ~deleted, OfUdp(Udp!PollEvent) PROVE Inv'
<1>1. /\ OnLinux /\ phase = "wait" /\ todo = <<>> /\ active = 1
      /\ UNCHANGED <<ref, active, deleted, tasks, batch, upc, own, told, resumed>> /\ Aside
  BY DEF OfUdp, Udp!PollEvent, Udp!Linux, Udp!Idle, Udp!history, Udp!ioVars, tcpOnly, Aside, OnLinux
<1>2. /\ Types /\ Counted /\ OnceEach /\ Reads /\ batch = <<>>
  BY <1>1 DEF Inv, Types
<1>3. own = 1 /\ Operations = 0 /\ Unannounced = 0
  <2>1. own = 1 /\ Operations = 0
    BY <1>1, <1>2 DEF Counted
  <2> QED
    BY <2>1, CountedAnnounced
<1>4. CASE UNCHANGED <<todo, bits>>
  BY <1>1, <1>4, WaitQuietly
<1>5. ASSUME NEW r \in {0, 1}, NEW e \in {0, 1}, Shape', todo' # <<>>,
             StepsMove(0, 0, 0, 0, r, r, 0, e, 0), BitsMove(e, 0), e = 1 => Dead', r + e = 1
      PROVE  Inv'
  <2>1. /\ ThreadsMove(0, 0, 0) /\ PortMoves(0, 0) /\ ToldMove(0, 0) /\ JobsMove(0, 0, 0, 0, 0, 0)
    BY <1>1, <1>2, SameThreads, SamePort, SameTold, SameJobs DEF Aside
  <2>2. CountersMove(0, 0, 0, 0, 0)
    BY <1>1, <1>2 DEF CountersMove, Types, Aside
  <2>3. kind' = kind /\ platform' = platform /\ (~resumed' => ~resumed) /\ sendq' \in Nat /\ inflight' \in Nat
    BY <1>1, <1>2 DEF Types, Aside
  <2>4. deleted' \in BOOLEAN /\ resumed' \in BOOLEAN
    BY <1>1, <1>2, Zenon DEF Types
  <2>5. own' = 1 /\ (~resumed' => own' >= 0) /\ (phase' # "tasks" => batch' = <<>>)
    BY <1>1, <1>2, <1>3
  <2>6. Types' /\ Counted' /\ OnceEach'
    <3>1. Paid(0 + 0 + 0 + 0 + 0 + 0, 0, 0, 0, 0, 0, 0)
      BY DEF Paid
    <3>2. Told(e, 0, e, 0, 0) /\ Told(0, 0, 0, 0, 0) /\ GivenUp(0, 0, 0, 0, 0, 0, 0)
      BY <1>5 DEF Told, GivenUp
    <3> QED
      BY <1>5, <2>1, <2>2, <2>3, <2>4, <2>5, <3>1, <3>2, MovesKept
  <2>7. Untouched' /\ Gone'
    <3>1. ~deleted'
      BY <1>1
    <3> QED
      BY <1>3, <1>5, <2>1, <3>1, RestKept
  <2>8. HandlerHolds'
    BY <2>5 DEF HandlerHolds
  <2>9. Reads'
    <3>1. ~resumed' /\ ~Dead' /\ OnLinux /\ Unannounced' = 0 /\ StepsIn({"watch"})' = 0 =>
            watched' = ("pending" \notin bits')
      <4>1. StepsIn({"watch"})' = StepsIn({"watch"}) + r /\ StepsIn({"watch"}) \in Nat
        BY <1>5 DEF StepsMove
      <4> QED
        BY <1>5, <4>1
    <3>2. Readers = 0
      <4>1. /\ recvs \in Nat /\ sends \in Nat /\ Len(port) \in Nat /\ JobsIn({"send"}) \in Nat
            /\ StepsIn({"give_back"}) \in Nat /\ Len(port) = Count(port, Receipts) + Count(port, Sendings)
            /\ Count(port, Receipts) \in Nat /\ Count(port, Sendings) \in Nat
            /\ JobsIn({"connected"}) \in Nat /\ StepsIn({"announce"}) \in Nat
        BY <1>2, NumbersAre, LenProperties DEF Types
      <4>2. recvs = 0 /\ Count(port, Receipts) = 0
        BY <1>3, <4>1 DEF Operations
      <4>3. JobsIn({"connected"}) = 0
        BY <1>3, <4>1 DEF Unannounced
      <4>4. StepsIn(ReadSteps) = 0
        BY <1>1, CountEmpty DEF StepsIn
      <4> QED
        BY <4>2, <4>3, <4>4 DEF Readers, Fetching
    <3>3. /\ 0 + 0 <= 0 /\ 0 <= 0 /\ Readers + (0 + 0 + r + 0) <= 1
          /\ 0 + 0 + r + 0 >= 0 /\ e \in Nat /\ 0 \in Nat
      BY <1>5, <3>2
    <3>4. StepsMove(0, 0, 0, 0, r, r, 0, e, 0) /\ BitsMove(e, 0)
      BY <1>5
    <3> QED
      BY <1>2, <2>1, <2>2, <2>3, <3>1, <3>3, <3>4, ReadsKept
  <2>10. Writes'
    <3>1. StepsMove(0, 0, 0, 0, r, r, 0, e, 0) /\ BitsMove(e, 0) /\ e \in Nat
      BY <1>5
    <3>2. UNCHANGED <<sendq, inflight>>
      BY <1>1 DEF Aside
    <3> QED
      BY <2>1, <2>2, <2>3, <3>1, <3>2, NothingWritten
  <2> QED
    BY <1>5, <2>6, <2>7, <2>8, <2>9, <2>10 DEF Inv
<1>6. CASE ~Dead /\ bits' = bits \cup {"error"} /\ todo' = <<"on_error">>
  <2>1. Shape' /\ todo' # <<>> /\ todo' \in Seq(Steps)
    BY <1>6, SingleShape DEF Steps, Callbacks
  <2>2. \A S : Count(todo', S) = One("on_error" \in S)
    BY <1>6, CountSingle
  <2>3. /\ Count(todo', {"release"}) = 0 /\ Count(todo', {"give_back"}) = 0
        /\ Count(todo', {"leave"}) = 0 /\ Count(todo', {"announce"}) = 0
        /\ Count(todo', ReadSteps) = 0 /\ Count(todo', {"watch"}) = 0
        /\ Count(todo', WriteSteps) = 0 /\ Count(todo', {"on_error"}) = 1
        /\ Count(todo', {"on_closed"}) = 0
    BY <2>2 DEF One, ReadSteps, WriteSteps, Receipts, Sendings
  <2>4. StepsMove(Count(todo', {"release"}), Count(todo', {"give_back"}), Count(todo', {"leave"}),
                  Count(todo', {"announce"}), Count(todo', ReadSteps), Count(todo', {"watch"}),
                  Count(todo', WriteSteps), Count(todo', {"on_error"}), Count(todo', {"on_closed"}))
    BY <1>1, <1>2, <2>1, BeginMoves
  <2>5. StepsMove(0, 0, 0, 0, 0, 0, 0, 1, 0)
    BY <2>3, <2>4
  <2>6. BitsMove(1, 0) /\ Dead'
    BY <1>2, <1>6, BitsAre DEF Dead
  <2> QED
    BY <1>5, <2>1, <2>5, <2>6
<1>7. CASE ~Dead /\ todo' = <<"readable", "watch">> /\ bits' = bits
  <2>1. /\ Shape' /\ todo' # <<>> /\ todo' \in Seq(Steps)
        /\ \A S : Count(todo', S) = One("readable" \in S) + One("watch" \in S)
    BY <1>7, PairShape DEF Steps, Later, Ending
  <2>3. /\ Count(todo', {"release"}) = 0 /\ Count(todo', {"give_back"}) = 0
        /\ Count(todo', {"leave"}) = 0 /\ Count(todo', {"announce"}) = 0
        /\ Count(todo', ReadSteps) = 1 /\ Count(todo', {"watch"}) = 1
        /\ Count(todo', WriteSteps) = 0 /\ Count(todo', {"on_error"}) = 0
        /\ Count(todo', {"on_closed"}) = 0
    BY <2>1 DEF One, ReadSteps, WriteSteps, Receipts, Sendings
  <2>4. StepsMove(Count(todo', {"release"}), Count(todo', {"give_back"}), Count(todo', {"leave"}),
                  Count(todo', {"announce"}), Count(todo', ReadSteps), Count(todo', {"watch"}),
                  Count(todo', WriteSteps), Count(todo', {"on_error"}), Count(todo', {"on_closed"}))
    BY <1>1, <1>2, <2>1, BeginMoves
  <2>5. StepsMove(0, 0, 0, 0, 1, 1, 0, 0, 0)
    BY <2>3, <2>4
  <2>6. BitsMove(0, 0)
    BY <1>2, <1>7, BitsAre
  <2> QED
    BY <1>5, <2>1, <2>5, <2>6
<1> QED
  BY <1>4, <1>6, <1>7, SharedSteps DEF OfUdp, Udp!PollEvent

(* or Windows a packet, whose handler has its reference now.               *)
LEMMA TakePacketInv ==
  ASSUME Inv, ~deleted, OfTcp(Tcp!TakePacket) \/ OfUdp(Udp!TakePacket) PROVE Inv'
<1>1. /\ phase = "wait" /\ todo = <<>> /\ port # <<>> /\ port' = Tail(port)
      /\ todo' = <<Head(port), "give_back">>
      /\ UNCHANGED <<bits, ref, active, deleted, tasks, batch, upc, own, told, resumed>>
      /\ UNCHANGED <<kind, platform, watched, recvs, sends, sendq, inflight>>
  BY DEF OfTcp, OfUdp, Tcp!TakePacket, Udp!TakePacket, Tcp!Idle, Udp!Idle, Tcp!history, Udp!history,
         Tcp!state, Udp!state, tcpOnly, udpOnly
<1>2. /\ Types /\ OnceEach /\ Reads /\ Writes /\ batch = <<>>
  BY <1>1 DEF Inv, Types
<1>3. Unannounced = 0
  <2>1. /\ recvs \in Nat /\ sends \in Nat /\ Len(port) \in Nat \ {0} /\ JobsIn({"send"}) \in Nat
        /\ StepsIn({"give_back"}) \in Nat
    BY <1>1, <1>2, NumbersAre, LenProperties, EmptySeq DEF Types
  <2>2. Operations >= 1
    BY <2>1 DEF Operations
  <2> QED
    BY <2>2, CountedAnnounced
<1>4. /\ Head(port) \in Packets
      /\ PortMoves(-One(Head(port) \in Receipts), -One(Head(port) \in Sendings))
  BY <1>1, <1>2, PortLosesHead
<1>5. PICK a \in {0, 1}, b \in {0, 1} :
        /\ PortMoves(0 - a, 0 - b) /\ a + b = 1
        /\ StepsMove(0, 1, 0, 0, a, 0, b, 0, 0) /\ Shape' /\ todo' # <<>>
  <2> DEFINE x == Head(port)
  <2>1. x \in Packets /\ todo' = <<x, "give_back">>
    BY <1>1, <1>4
  <2>2. One(x \in Receipts) \in {0, 1} /\ One(x \in Sendings) \in {0, 1}
        /\ One(x \in Receipts) + One(x \in Sendings) = 1
    BY <2>1 DEF One, Packets, Receipts, Sendings
  <2>3. PortMoves(-One(x \in Receipts), -One(x \in Sendings))
    BY <1>4
  <2> HIDE DEF x
  <2>4. PortMoves(0 - One(x \in Receipts), 0 - One(x \in Sendings))
    <3>1. /\ -One(x \in Receipts) = 0 - One(x \in Receipts)
          /\ -One(x \in Sendings) = 0 - One(x \in Sendings)
      BY <2>2
    <3> QED
      BY <2>3, <3>1
  <2>5. /\ Shape' /\ todo' # <<>> /\ todo' \in Seq(Steps)
        /\ \A S : Count(todo', S) = One(x \in S) + One("give_back" \in S)
    <3>1. x \in Steps \ (Ending \cup {"leave"}) /\ "give_back" \in Later \ {"leave"}
          /\ x \notin {"readable", "on_read"}
      BY <2>1 DEF Steps, Later, Ending, Packets, Receipts, Sendings
    <3> QED
      BY <2>1, <3>1, PairShape
  <2>6. /\ Count(todo', {"release"}) = 0 /\ Count(todo', {"give_back"}) = 1
        /\ Count(todo', {"leave"}) = 0 /\ Count(todo', {"announce"}) = 0
        /\ Count(todo', {"watch"}) = 0 /\ Count(todo', {"on_error"}) = 0
        /\ Count(todo', {"on_closed"}) = 0
    <3>1. x \notin {"release", "give_back", "leave", "announce", "watch", "on_error", "on_closed"}
      BY <2>1 DEF Packets, Receipts, Sendings
    <3> QED
      BY <2>5, <3>1 DEF One
  <2>7. Count(todo', ReadSteps) = One(x \in Receipts) /\ Count(todo', WriteSteps) = One(x \in Sendings)
    <3>1. /\ x \in ReadSteps <=> x \in Receipts
          /\ x \in WriteSteps <=> x \in Sendings
          /\ "give_back" \notin ReadSteps /\ "give_back" \notin WriteSteps
      BY <2>1 DEF Packets, Receipts, Sendings, ReadSteps, WriteSteps
    <3>2. One("give_back" \in ReadSteps) = 0 /\ One("give_back" \in WriteSteps) = 0
          /\ One(x \in ReadSteps) = One(x \in Receipts) /\ One(x \in WriteSteps) = One(x \in Sendings)
      BY <3>1 DEF One
    <3> QED
      BY <2>2, <2>5, <3>2
  <2>8. StepsMove(Count(todo', {"release"}), Count(todo', {"give_back"}), Count(todo', {"leave"}),
                  Count(todo', {"announce"}), Count(todo', ReadSteps), Count(todo', {"watch"}),
                  Count(todo', WriteSteps), Count(todo', {"on_error"}), Count(todo', {"on_closed"}))
    BY <1>1, <1>2, <2>5, BeginMoves
  <2>9. StepsMove(0, 1, 0, 0, One(x \in Receipts), 0, One(x \in Sendings), 0, 0)
    BY <2>6, <2>7, <2>8
  <2> QED
    BY <2>2, <2>4, <2>5, <2>9
<1>6. /\ ThreadsMove(0, 0, 0) /\ ToldMove(0, 0) /\ JobsMove(0, 0, 0, 0, 0, 0) /\ BitsMove(0, 0)
  BY <1>1, <1>2, SameThreads, SameTold, SameJobs, BitsAre
<1>7. CountersMove(0, 0, 0, 0, 0)
  BY <1>1, <1>2 DEF CountersMove, Types
<1> DEFINE read == 0 - a
           wrote == 0 - b
<1>8. /\ PortMoves(read, wrote) /\ 0 + 0 + read + wrote + 0 + 1 = 0
      /\ 0 + read <= 0 /\ 0 <= 0 /\ 0 + read + a + 0 <= 0 /\ 0 + read + a + 0 >= 0 /\ 0 \in Nat
      /\ 0 + wrote + 0 + b \in {0, -1} /\ 0 + wrote + 0 + b # -1
  BY <1>5
<1> HIDE DEF read, wrote
<1>9. kind' = kind /\ platform' = platform /\ (~resumed' => ~resumed) /\ sendq' \in Nat /\ inflight' \in Nat
  BY <1>1, <1>2 DEF Types
<1>10. deleted' \in BOOLEAN /\ resumed' \in BOOLEAN
  BY <1>1, <1>2, Zenon DEF Types
<1>11. (~resumed' => own' >= 0) /\ (phase' # "tasks" => batch' = <<>>)
  BY <1>1, <1>2 DEF OnceEach
<1>12. Types' /\ Counted' /\ OnceEach'
  <2>1. Paid(0 + 0 + read + wrote + 0 + 1, 0, 0, 0, 0, 0, 0)
    BY <1>8 DEF Paid
  <2>2. Told(0, 0, 0, 0, 0) /\ GivenUp(0, 0, 0, 0, 0, 0, 0)
    BY DEF Told, GivenUp
  <2> QED
    BY <1>5, <1>6, <1>7, <1>8, <1>9, <1>10, <1>11, <2>1, <2>2, MovesKept
<1>13. Untouched' /\ Gone'
  <2>1. ~deleted'
    BY <1>1
  <2> QED
    BY <1>3, <1>5, <1>6, <2>1, RestKept
<1>14. HandlerHolds'
  <2>1. StepsIn({"give_back"})' = StepsIn({"give_back"}) + 1 /\ StepsIn({"give_back"}) \in Nat
    BY <1>5 DEF StepsMove
  <2> QED
    BY <2>1 DEF HandlerHolds
<1>15. Reads'
  <2>1. ~resumed' /\ ~Dead' /\ OnLinux /\ Unannounced' = 0 /\ StepsIn({"watch"})' = 0 =>
          watched' = ("pending" \notin bits')
    <3>1. watched' = watched /\ 0 \in Nat
      BY <1>1
    <3> QED
      BY <1>2, <1>3, <1>5, <1>6, <1>9, <3>1, WatchedKept
  <2> QED
    BY <1>2, <1>5, <1>6, <1>7, <1>8, <1>9, <2>1, ReadsKept
<1>16. Writes'
  <2>1. sendq \in Nat /\ sendq' = sendq /\ inflight' = inflight
    BY <1>1, <1>2 DEF Types
  <2> QED
    BY <1>2, <1>5, <1>6, <1>7, <1>8, <1>9, <2>1, WritesKept
<1> QED
  BY <1>5, <1>12, <1>13, <1>14, <1>15, <1>16 DEF Inv
-----------------------------------------------------------------------------
(* A filter pauses the channel in on_read(), whose handler will look at    *)
(* the bit before the next receive,                                        *)
LEMMA PendingReadInv ==
  ASSUME Inv, ~deleted, pending_read, Aside PROVE Inv'
<1>1. /\ Is("on_read") /\ todo # <<>> /\ Head(todo) = "on_read" /\ bits' = bits \cup {"pending"}
      /\ UNCHANGED <<ref, active, deleted, tasks, batch, phase, todo, upc, own, told, resumed>>
  BY DEF pending_read, Is, loop
<1>2. /\ Types /\ Shape /\ Counted /\ HandlerHolds /\ OnceEach /\ Gone /\ Reads /\ Writes
  BY DEF Inv
<1>3. Unannounced = 0
  BY <1>1, Announced
<1>4. /\ \A S : StepsIn(S)' = StepsIn(S) /\ ThreadsIn(S)' = ThreadsIn(S) /\ JobsIn(S)' = JobsIn(S)
  BY <1>1 DEF StepsIn, ThreadsIn, JobsIn
<1>5. (OnLinux' <=> OnLinux) /\ (Dead' <=> Dead) /\ "pending" \in bits'
  BY <1>1 DEF OnLinux, Dead, Aside
<1>6. Operations' = Operations /\ Unannounced' = 0
  BY <1>3, <1>4 DEF Operations, Unannounced, Aside
<1>7. Types'
  BY <1>1, <1>2 DEF Types, Aside
<1>8. Shape'
  BY <1>1, <1>2, SameShape
<1>9. Counted'
  BY <1>1, <1>2, <1>4, <1>5, <1>6 DEF Counted
<1>10. Untouched' /\ Gone' /\ HandlerHolds'
  BY <1>1, <1>2, <1>4, <1>6 DEF Untouched, Gone, HandlerHolds
<1>11. OnceEach'
  <2>1. Failed' = Failed /\ Closed' = Closed
    BY <1>1 DEF Failed, Closed, One
  <2>2. ErrorTold' = ErrorTold /\ ClosedTold' = ClosedTold /\ Closers' = Closers
    BY <1>1, <1>4 DEF ErrorTold, ClosedTold, Closers
  <2> QED
    BY <1>1, <1>2, <1>3, <1>4, <1>6, <2>1, <2>2 DEF OnceEach
<1>12. Reads'
  <2>1. StepsIn({"watch"}) >= 1
    BY <1>1, <1>2 DEF Shape
  <2>2. /\ StepsIn({"watch"}) \in Nat /\ StepsIn(ReadSteps) \in Nat /\ JobsIn({"connected"}) \in Nat
        /\ recvs \in Nat /\ Count(port, Receipts) \in Nat
    BY <1>2, NumbersAre DEF Types
  <2>3. StepsIn({"watch"}) <= StepsIn(ReadSteps)
    <3>1. todo \in Seq(Steps) /\ {"watch"} \in SUBSET ReadSteps
      BY <1>2 DEF Types, ReadSteps
    <3> QED
      BY <3>1, CountMonotonic DEF StepsIn
  <2>4. Fetching = 0
    <3>1. CASE "pending" \in bits
      BY <1>2, <3>1 DEF Reads
    <3>2. CASE "pending" \notin bits
      <4>1. Readers <= 1
        BY <1>2, <3>2 DEF Reads
      <4>2. Readers = recvs + Count(port, Receipts) + StepsIn(ReadSteps) + JobsIn({"connected"})
            /\ Fetching = recvs + Count(port, Receipts)
        BY DEF Readers, Fetching
      <4> QED
        BY <2>1, <2>2, <2>3, <4>1, <4>2
    <3> QED
      BY <3>1, <3>2
  <2>5. Fetching' = Fetching /\ StepsIn({"watch"})' # 0
    BY <1>4, <2>1, <2>2 DEF Fetching, Aside
  <2> QED
    BY <1>5, <2>4, <2>5 DEF Reads
<1>13. Writes'
  <2>1. Writers' = Writers
    BY <1>4 DEF Writers, Aside
  <2> QED
    BY <1>1, <1>2, <1>5, <2>1 DEF Writes, Aside
<1> QED
  BY <1>7, <1>8, <1>9, <1>10, <1>11, <1>12, <1>13 DEF Inv

(* and lets it go on, which leaves the bits as no one expects them.        *)
LEMMA ContinueReadInv ==
  ASSUME Inv, ~deleted, continue_read, Aside PROVE Inv'
<1>1. /\ Is("on_read") /\ todo # <<>> /\ Head(todo) = "on_read" /\ resumed' = TRUE
      /\ bits' = ({"error", "close"} \ bits) \cup (bits \cap {"pending"})
      /\ UNCHANGED <<active, deleted, batch, phase, todo, upc, own, told>>
      /\ IF "pending" \in bits THEN Post("watch") ELSE UNCHANGED <<ref, tasks>>
  BY DEF continue_read, Is
<1>2. /\ Types /\ Shape /\ Counted /\ HandlerHolds /\ Reads /\ Writes /\ (phase # "tasks" => batch = <<>>)
  BY DEF Inv, Types
<1>3. Unannounced = 0
  BY <1>1, Announced
<1>4. PICK h \in {0, 1} :
        /\ JobsMove(h, 0, 0, h, 0, 0) /\ ref' = ref + h /\ (h = 1 <=> "pending" \in bits)
  <2>1. CASE "pending" \in bits
    <3>1. JobsMove(1, 0, 0, 1, 0, 0) /\ ref' = ref + 1
      BY <1>1, <1>2, <2>1, PostMoves DEF Post
    <3> QED
      BY <2>1, <3>1
  <2>2. CASE "pending" \notin bits
    <3>1. JobsMove(0, 0, 0, 0, 0, 0) /\ ref' = ref + 0
      BY <1>1, <1>2, <2>2, SameJobs DEF Types
    <3> QED
      BY <2>2, <3>1
  <2> QED
    BY <2>1, <2>2
<1>5. /\ StepsMove(0, 0, 0, 0, 0, 0, 0, 0, 0) /\ Shape' /\ ThreadsMove(0, 0, 0) /\ PortMoves(0, 0)
  BY <1>1, <1>2, SameSteps, SameShape, SameThreads, SamePort DEF Aside
<1>6. CountersMove(h, 0, 0, 0, 0)
  BY <1>1, <1>2, <1>4 DEF CountersMove, Types, Aside
<1>7. /\ bits' \subseteq {"error", "close", "pending"} /\ ("pending" \in bits' <=> "pending" \in bits)
      /\ (OnLinux' <=> OnLinux) /\ kind' = kind /\ platform' = platform
  BY <1>1, <1>2 DEF Types, OnLinux, Aside
<1>8. Types'
  <2>1. deleted' \in BOOLEAN /\ resumed' \in BOOLEAN
    BY <1>1, <1>2, Zenon DEF Types
  <2>2. sendq' \in Nat /\ inflight' \in Nat /\ recvs' \in Nat /\ sends' \in Nat
    BY <1>2 DEF Types, Aside
  <2> QED
    BY <1>1, <1>2, <1>4, <1>5, <1>6, <1>7, <2>1, <2>2
       DEF Types, StepsMove, JobsMove, ThreadsMove, PortMoves, CountersMove
<1>9. Counted'
  <2>1. Paid(0 + 0 + 0 + 0 + 0 + 0, h, 0, 0, h, 0, 0)
    BY <1>4 DEF Paid
  <2> QED
    BY <1>2, <1>4, <1>5, <1>6, <1>7, <2>1, CountedKept
<1>10. Untouched' /\ Gone'
  BY <1>1, <1>3, <1>4, <1>5, RestKept
<1>11. HandlerHolds'
  <2>1. own' = own /\ \A S : StepsIn(S)' = StepsIn(S)
    BY <1>1 DEF StepsIn
  <2> QED
    BY <1>1, <1>2, <2>1 DEF HandlerHolds
<1>12. OnceEach'
  BY <1>1 DEF OnceEach
<1>13. Reads'
  <2>1. Fetching' = Fetching /\ (\A S : StepsIn(S)' = StepsIn(S))
    BY <1>1 DEF Fetching, StepsIn, Aside
  <2>2. JobsIn({"connected"})' = JobsIn({"connected"})
    <3>1. JobsIn({"connected"})' = JobsIn({"connected"}) + 0 /\ JobsIn({"connected"}) \in Nat
      BY <1>4 DEF JobsMove
    <3> QED
      BY <3>1
  <2>3. Readers' = Readers
    BY <2>1, <2>2 DEF Readers
  <2>4. "pending" \notin bits => JobsIn({"watch"})' = JobsIn({"watch"})
    <3>1. JobsIn({"watch"})' = JobsIn({"watch"}) + h /\ JobsIn({"watch"}) \in Nat
      BY <1>4 DEF JobsMove
    <3> QED
      BY <1>4, <3>1
  <2> QED
    BY <1>1, <1>2, <1>7, <2>1, <2>3, <2>4 DEF Reads
<1>14. Writes'
  <2>1. JobsIn({"send"})' = JobsIn({"send"})
    <3>1. JobsIn({"send"})' = JobsIn({"send"}) + 0 /\ JobsIn({"send"}) \in Nat
      BY <1>4 DEF JobsMove
    <3> QED
      BY <3>1
  <2>2. Writers' = Writers
    BY <1>1, <2>1 DEF Writers, StepsIn, Aside
  <2> QED
    BY <1>1, <1>2, <2>2 DEF Writes, Aside
<1> QED
  BY <1>5, <1>8, <1>9, <1>10, <1>11, <1>12, <1>13, <1>14 DEF Inv
-----------------------------------------------------------------------------
(* The send queue: what is sent, what is left of it, and what a filter or  *)
(* a job puts into it.                                                     *)
Sends(s, j, wr) ==
  /\ s \in {0, 1} /\ j \in {0, 1} /\ wr \in {0, -1}
  /\ StepsMove(0, 0, 0, 0, 0, 0, wr, 0, 0) /\ JobsMove(0, j, 0, 0, 0, 0)
  /\ CountersMove(s + j, s + j, 0, 0, s) /\ Shape'
  /\ sendq' \in Nat /\ inflight' \in Nat /\ inflight' <= sendq'
  /\ Writers + (s + 0 + j + wr) <= 1
  /\ sendq' = 0 => Writers + (s + 0 + j + wr) = 0
  /\ ~resumed /\ ~Dead /\ sendq' >= 1 => Writers + (s + 0 + j + wr) >= 1

LEMMA SendsInv ==
  ASSUME Inv, ~deleted, todo # <<>>, Unannounced = 0, kind = "tcp",
         UNCHANGED <<bits, deleted, batch, phase, upc, own, told, resumed>>,
         UNCHANGED <<kind, platform, watched, recvs, port>>,
         NEW s, NEW j, NEW wr, Sends(s, j, wr)
  PROVE  Inv'
<1>0. /\ Types /\ HandlerHolds /\ OnceEach /\ Reads /\ Writes /\ ~OnLinux
      /\ (phase # "tasks" => batch = <<>>)
  BY DEF Inv, Types, OnLinux
<1>1. /\ s \in {0, 1} /\ j \in {0, 1} /\ wr \in {0, -1}
      /\ StepsMove(0, 0, 0, 0, 0, 0, wr, 0, 0) /\ JobsMove(0, j, 0, 0, 0, 0)
      /\ CountersMove(s + j, s + j, 0, 0, s) /\ Shape'
      /\ sendq' \in Nat /\ inflight' \in Nat /\ inflight' <= sendq'
  BY DEF Sends
<1>2. ThreadsMove(0, 0, 0) /\ PortMoves(0, 0) /\ ToldMove(0, 0) /\ BitsMove(0, 0)
  BY <1>0, SameThreads, SamePort, SameTold, BitsAre
<1>3. kind' = kind /\ platform' = platform /\ watched' = watched /\ (~resumed' => ~resumed)
  OBVIOUS
<1>4. deleted' \in BOOLEAN /\ resumed' \in BOOLEAN
  BY <1>0, Zenon DEF Types
<1>5. (~resumed' => own' >= 0) /\ (own >= 1 => own' >= 1)
  BY <1>0 DEF OnceEach
<1>6. Paid(0 + s + 0 + 0 + j + 0, s + j, s + j, 0, 0, 0, 0)
  BY <1>0, <1>1 DEF Paid
<1>7. Told(0, 0, 0, 0, 0) /\ GivenUp(0, 0, 0, 0, 0, 0, 0)
  BY DEF Told, GivenUp
<1>8. Types' /\ Counted' /\ OnceEach'
  <2>1. StepsMove(0, 0, 0, 0, 0, 0, wr, 0, 0) /\ JobsMove(0, j, 0, 0, 0, 0)
        /\ CountersMove(s + j, s + j, 0, 0, s) /\ sendq' \in Nat /\ inflight' \in Nat
        /\ (phase' # "tasks" => batch' = <<>>)
    BY <1>0, <1>1
  <2> QED
    BY <1>2, <1>3, <1>4, <1>5, <1>6, <1>7, <2>1, MovesKept
<1>9. Untouched' /\ Gone'
  <2>1. StepsMove(0, 0, 0, 0, 0, 0, wr, 0, 0) /\ JobsMove(0, j, 0, 0, 0, 0)
        /\ 0 + 0 \in {0} /\ (~deleted' \/ resumed')
    BY <1>1
  <2> QED
    BY <2>1, RestKept
<1>10. HandlerHolds'
  <2>1. StepsMove(0, 0, 0, 0, 0, 0, wr, 0, 0)
    BY <1>1
  <2>2. 0 >= 0
    OBVIOUS
  <2> QED
    BY <1>0, <1>5, <2>1, <2>2, HandlerKept
<1>11. Reads'
  <2>1. StepsMove(0, 0, 0, 0, 0, 0, wr, 0, 0) /\ JobsMove(0, j, 0, 0, 0, 0)
        /\ CountersMove(s + j, s + j, 0, 0, s) /\ 0 \in Nat
    BY <1>1
  <2> QED
    BY <1>2, <1>3, <2>1, NothingRead
<1>12. Writes'
  <2>1. StepsMove(0, 0, 0, 0, 0, 0, wr, 0, 0) /\ JobsMove(0, j, 0, 0, 0, 0)
        /\ CountersMove(s + j, s + j, 0, 0, s)
    BY <1>1
  <2>2. Writers' = Writers + (s + 0 + j + wr) /\ Writers' \in Nat
    BY <1>2, <2>1, WritersMove
  <2>3. (Dead' <=> Dead) /\ kind' # "udp"
    BY DEF Dead
  <2>4. /\ Writers + (s + 0 + j + wr) <= 1
        /\ sendq' = 0 => Writers + (s + 0 + j + wr) = 0
        /\ ~resumed /\ ~Dead /\ sendq' >= 1 => Writers + (s + 0 + j + wr) >= 1
    BY DEF Sends
  <2> QED
    BY <1>1, <1>3, <2>2, <2>3, <2>4 DEF Writes
<1> QED
  BY <1>1, <1>8, <1>9, <1>10, <1>11, <1>12 DEF Inv

LEMMA SendStarts ==
  ASSUME Types, NEW n \in Nat, Tcp!send_remains(n), batch' = batch, UNCHANGED <<own, recvs>>
  PROVE  \E s, j \in {0, 1} :
           /\ JobsMove(0, j, 0, 0, 0, 0) /\ CountersMove(s + j, s + j, 0, 0, s)
           /\ IF Dead \/ n = 0 THEN s = 0 /\ j = 0 /\ inflight' = inflight
              ELSE s + j = 1 /\ inflight' = n
<1>1. CASE Dead \/ n = 0
  <2>1. UNCHANGED <<ref, active, sends, inflight, tasks>>
    BY <1>1, SharedSteps DEF Tcp!send_remains
  <2>2. JobsMove(0, 0, 0, 0, 0, 0) /\ CountersMove(0 + 0, 0 + 0, 0, 0, 0)
    BY <2>1, SameJobs DEF CountersMove, Types
  <2> QED
    BY <1>1, <2>1, <2>2
<1>2. CASE ~(Dead \/ n = 0)
  <2>1. /\ ref' = ref + 1 /\ active' = active + 1 /\ inflight' = n
        /\ \/ sends' = sends + 1 /\ UNCHANGED tasks
           \/ Execute("send") /\ UNCHANGED sends
    BY <1>2, SharedSteps DEF Tcp!send_remains
  <2>2. CASE sends' = sends + 1 /\ UNCHANGED tasks
    <3>1. JobsMove(0, 0, 0, 0, 0, 0) /\ CountersMove(1 + 0, 1 + 0, 0, 0, 1)
      BY <2>1, <2>2, SameJobs DEF CountersMove, Types
    <3> QED
      BY <1>2, <2>1, <3>1
  <2>3. CASE Execute("send") /\ UNCHANGED sends
    <3>1. JobsMove(0, 1, 0, 0, 0, 0) /\ CountersMove(0 + 1, 0 + 1, 0, 0, 0)
      BY <2>1, <2>3, PostMoves DEF CountersMove, Types
    <3> QED
      BY <1>2, <2>1, <3>1
  <2> QED
    BY <2>1, <2>2, <2>3
<1> QED
  BY <1>1, <1>2

(* A message is put into the queue, and sent if it is the only one.        *)
LEMMA DoWriteInv ==
  ASSUME Inv, ~deleted, todo # <<>>, Unannounced = 0, kind = "tcp",
         UNCHANGED <<bits, deleted, batch, phase, upc, own, told, resumed>>,
         UNCHANGED <<kind, platform, watched, recvs, port>>,
         StepsMove(0, 0, 0, 0, 0, 0, 0, 0, 0), Shape', Tcp!do_write
  PROVE  Inv'
<1>1. Types /\ Writes /\ sendq \in Nat /\ inflight \in Nat
  BY DEF Inv, Types
<1>2. sendq' = sendq + 1
  BY DEF Tcp!do_write
<1>3. Writers \in Nat
  <2>1. sends \in Nat /\ Count(port, Sendings) \in Nat /\ JobsIn({"send"}) \in Nat
        /\ StepsIn(WriteSteps) \in Nat
    BY <1>1, NumbersAre DEF Types
  <2> QED
    BY <2>1 DEF Writers
<1>4. CASE sendq = 0
  <2>1. Writers = 0 /\ inflight = 0
    BY <1>1, <1>4 DEF Writes
  <2>2. Tcp!send_remains(1) /\ 1 \in Nat
    BY <1>4 DEF Tcp!do_write
  <2>3. PICK s, j \in {0, 1} :
           /\ JobsMove(0, j, 0, 0, 0, 0) /\ CountersMove(s + j, s + j, 0, 0, s)
           /\ IF Dead \/ 1 = 0 THEN s = 0 /\ j = 0 /\ inflight' = inflight
              ELSE s + j = 1 /\ inflight' = 1
    BY <1>1, <2>2, SendStarts
  <2>4. /\ inflight' \in Nat /\ inflight' <= sendq' /\ sendq' \in Nat /\ 0 \in {0, -1}
        /\ Writers + (s + 0 + j + 0) <= 1
        /\ sendq' # 0
        /\ ~Dead => Writers + (s + 0 + j + 0) >= 1
    BY <1>2, <1>4, <2>1, <2>3
  <2>5. Sends(s, j, 0)
    BY <2>3, <2>4 DEF Sends
  <2> QED
    BY <2>5, SendsInv
<1>5. CASE sendq # 0
  <2>1. UNCHANGED <<ref, active, sends, inflight, tasks>>
    BY <1>5 DEF Tcp!do_write
  <2>2. JobsMove(0, 0, 0, 0, 0, 0) /\ CountersMove(0 + 0, 0 + 0, 0, 0, 0)
    BY <1>1, <2>1, SameJobs DEF CountersMove, Types
  <2>3. /\ inflight' \in Nat /\ inflight' <= sendq' /\ sendq' \in Nat /\ 0 \in {0, -1} /\ 0 \in {0, 1}
        /\ Writers + (0 + 0 + 0 + 0) <= 1
        /\ sendq' # 0
        /\ ~resumed /\ ~Dead => Writers + (0 + 0 + 0 + 0) >= 1
    BY <1>1, <1>2, <1>3, <1>5, <2>1 DEF Writes
  <2>4. Sends(0, 0, 0)
    BY <2>2, <2>3 DEF Sends
  <2> QED
    BY <2>4, SendsInv
<1> QED
  BY <1>4, <1>5
LEMMA TcpWritesInv ==
  ASSUME Inv, ~deleted, OfTcp(Tcp!FireDoWrite) \/ OfTcp(Tcp!CallbackWritesDirectly) PROVE Inv'
<1>1. Types /\ Shape
  BY DEF Inv
<1>2. CASE OfTcp(Tcp!FireDoWrite)
  <2>1. /\ Is("do_write") /\ Done /\ kind = "tcp"
        /\ IF Dead THEN UNCHANGED <<sendq, ref, active, sends, inflight, tasks>> ELSE Tcp!do_write
    BY <1>2, SharedSteps DEF OfTcp, Tcp!FireDoWrite
  <2>2. /\ UNCHANGED <<bits, deleted, batch, phase, upc, own, told, resumed>>
        /\ UNCHANGED <<kind, platform, watched, recvs, port>>
    BY <1>2 DEF OfTcp, Tcp!FireDoWrite, Tcp!history, udpOnly
  <2>3. CASE Dead
    <3>1. "do_write" \in Packets \cup {"readable", "do_write"} /\ "do_write" \notin Packets
      BY DEF Packets, Receipts, Sendings
    <3>2. UNCHANGED <<ref, active, deleted, tasks, batch, phase, upc, own, told, resumed>> /\ Aside
      BY <2>1, <2>2, <2>3 DEF Aside
    <3>3. Done /\ bits' = bits
      BY <2>1, <2>2
    <3> QED
      BY <2>1, <3>1, <3>2, <3>3, HandlesInv
  <2>4. CASE ~Dead
    <3>1. todo # <<>> /\ Unannounced = 0
      BY <2>1, Announced DEF Is
    <3>2. Shape' /\ StepsMove(0, 0, 0, 0, 0, 0, 0, 0, 0)
      <4>1. Shape' /\ StepsMove(0, 0, 0, 0, -One("do_write" \in Receipts), 0, -One("do_write" \in Sendings),
                               -One("do_write" = "on_error"), -One("do_write" = "on_closed"))
        BY <1>1, <2>1, DoneQuietly
      <4>2. /\ One("do_write" \in Receipts) = 0 /\ One("do_write" \in Sendings) = 0
            /\ One("do_write" = "on_error") = 0 /\ One("do_write" = "on_closed") = 0
        BY DEF One, Receipts, Sendings
      <4> QED
        BY <4>1, <4>2 DEF StepsMove
    <3> QED
      BY <2>1, <2>2, <2>4, <3>1, <3>2, DoWriteInv
  <2> QED
    BY <2>3, <2>4
<1>3. CASE OfTcp(Tcp!CallbackWritesDirectly)
  <2>1. /\ kind = "tcp" /\ Tcp!do_write /\ todo # <<>> /\ todo' = todo
        /\ Head(todo) \in {"on_connected", "on_read", "on_write"}
        /\ UNCHANGED <<bits, deleted, batch, phase, upc, own, told, resumed>>
        /\ UNCHANGED <<kind, platform, watched, recvs, port>>
    BY <1>3 DEF OfTcp, Tcp!CallbackWritesDirectly, Tcp!Idle, udpOnly
  <2>2. Unannounced = 0
    BY <2>1, Announced
  <2>3. Shape' /\ StepsMove(0, 0, 0, 0, 0, 0, 0, 0, 0)
    BY <1>1, <2>1, SameShape, SameSteps
  <2> QED
    BY <2>1, <2>2, <2>3, DoWriteInv
<1> QED
  BY <1>2, <1>3

(* A step that leads to a send is counted, alone.                          *)
LEMMA WriterIsAlone ==
  ASSUME Inv, NEW step \in WriteSteps, Is(step) PROVE Writers = 1
<1> DEFINE p == Count(port, Sendings)
           s == StepsIn(WriteSteps)
           j == JobsIn({"send"})
<1>1. s >= 1
  BY HeadCounts DEF Inv, Is
<1>2. sends \in Nat /\ p \in Nat /\ j \in Nat /\ s \in Nat
  BY NumbersAre DEF Inv, Types
<1>3. Writers <= 1 /\ Writers = sends + p + j + s
  BY DEF Inv, Writes, Writers
<1> HIDE DEF p, s, j
<1> QED
  BY <1>1, <1>2, <1>3

LEMMA SendRemainsInv ==
  ASSUME Inv, ~deleted, OfTcp(Tcp!SendRemains) PROVE Inv'
<1>1. /\ Is("send_remains") /\ Done /\ kind = "tcp" /\ Tcp!send_remains(sendq) /\ todo # <<>>
      /\ UNCHANGED <<bits, deleted, batch, phase, upc, own, told, resumed, sendq>>
      /\ UNCHANGED <<kind, platform, watched, recvs, port>>
  BY SharedSteps DEF OfTcp, Tcp!SendRemains, Tcp!history, udpOnly, Is
<1>2. Types /\ Shape /\ Writes /\ sendq \in Nat /\ inflight \in Nat
  BY DEF Inv, Types
<1>3. Unannounced = 0 /\ Writers = 1
  BY <1>1, Announced, WriterIsAlone DEF Is, WriteSteps
<1>4. Shape' /\ StepsMove(0, 0, 0, 0, 0, 0, -1, 0, 0)
  <2>1. "send_remains" \in Steps
    BY DEF Steps, Later
  <2>2. /\ Shape'
        /\ StepsMove(-One("send_remains" = "release"), -One("send_remains" = "give_back"),
             -One("send_remains" = "leave"), -One("send_remains" = "announce"),
             -One("send_remains" \in ReadSteps), -One("send_remains" = "watch"),
             -One("send_remains" \in WriteSteps), -One("send_remains" = "on_error"),
             -One("send_remains" = "on_closed"))
    BY <1>1, <1>2, DoneMoves
  <2>3. /\ One("send_remains" = "release") = 0 /\ One("send_remains" = "give_back") = 0
        /\ One("send_remains" = "leave") = 0 /\ One("send_remains" = "announce") = 0
        /\ One("send_remains" \in ReadSteps) = 0 /\ One("send_remains" = "watch") = 0
        /\ One("send_remains" \in WriteSteps) = 1 /\ One("send_remains" = "on_error") = 0
        /\ One("send_remains" = "on_closed") = 0
    BY DEF One, ReadSteps, WriteSteps, Receipts, Sendings
  <2> QED
    BY <2>2, <2>3 DEF StepsMove
<1>5. PICK s, j \in {0, 1} :
         /\ JobsMove(0, j, 0, 0, 0, 0) /\ CountersMove(s + j, s + j, 0, 0, s)
         /\ IF Dead \/ sendq = 0 THEN s = 0 /\ j = 0 /\ inflight' = inflight
            ELSE s + j = 1 /\ inflight' = sendq
  BY <1>1, <1>2, SendStarts
<1>6. /\ inflight' \in Nat /\ inflight' <= sendq' /\ sendq' \in Nat /\ -1 \in {0, -1}
      /\ Writers + (s + 0 + j + (-1)) <= 1
      /\ sendq' = 0 => Writers + (s + 0 + j + (-1)) = 0
      /\ ~Dead /\ sendq' >= 1 => Writers + (s + 0 + j + (-1)) >= 1
  BY <1>1, <1>2, <1>3, <1>5 DEF Writes
<1>7. Sends(s, j, -1)
  BY <1>4, <1>5, <1>6 DEF Sends
<1> QED
  BY <1>1, <1>3, <1>7, SendsInv

LEMMA HandleSendInv ==
  ASSUME Inv, ~deleted, OfTcp(Tcp!HandleSend) PROVE Inv'
<1>1. /\ Is("sent") /\ kind = "tcp" /\ todo # <<>>
      /\ IF Dead THEN Done /\ UNCHANGED <<sendq, inflight>>
         ELSE \E n \in 0 .. inflight :
                /\ sendq' = sendq - n /\ inflight' = 0
                /\ Then(<<"on_write">> \o IF n < sendq THEN <<"send_remains">> ELSE <<>>)
      /\ UNCHANGED <<bits, ref, active, deleted, tasks, batch, phase, upc, own, told, resumed>>
      /\ UNCHANGED <<kind, platform, watched, recvs, sends, port>>
  BY SharedSteps DEF OfTcp, Tcp!HandleSend, Tcp!state, Tcp!history, udpOnly, Is
<1>2. Types /\ Shape /\ Writes /\ sendq \in Nat /\ inflight \in Nat /\ inflight <= sendq
  BY DEF Inv, Types, Writes
<1>3. Unannounced = 0 /\ Writers = 1
  BY <1>1, Announced, WriterIsAlone DEF Is, WriteSteps, Sendings
<1>4. CASE Dead
  <2>1. "sent" \in Packets \cup {"readable", "do_write"}
    BY DEF Packets, Sendings
  <2>2. UNCHANGED <<ref, active, deleted, tasks, batch, phase, upc, own, told, resumed>> /\ Aside
    BY <1>1, <1>4 DEF Aside
  <2>3. Done /\ bits' = bits
    BY <1>1, <1>4
  <2> QED
    BY <1>1, <1>4, <2>1, <2>2, <2>3, HandlesInv
<1>5. CASE ~Dead
  <2>1. PICK n \in 0 .. inflight :
          /\ sendq' = sendq - n /\ inflight' = 0
          /\ Then(<<"on_write">> \o IF n < sendq THEN <<"send_remains">> ELSE <<>>)
    BY <1>1, <1>5
  <2>2. "sent" \notin Ending /\ "on_write" \in Callbacks \ {"on_closed"} /\ "sent" \in Steps
        /\ "send_remains" \in {"watch", "send_remains", "rest"}
    BY DEF Ending, Callbacks, Steps, Packets, Sendings
  <2>3. JobsMove(0, 0, 0, 0, 0, 0) /\ CountersMove(0 + 0, 0 + 0, 0, 0, 0)
    BY <1>1, <1>2, SameJobs DEF CountersMove, Types
  <2>4. sendq' \in Nat /\ inflight' \in Nat /\ inflight' <= sendq' /\ (n < sendq <=> sendq' >= 1)
    BY <1>2, <2>1
  <2>5. /\ One("sent" = "leave") = 0 /\ One("sent" = "announce") = 0 /\ One("sent" \in ReadSteps) = 0
        /\ One("sent" = "watch") = 0 /\ One("sent" \in WriteSteps) = 1
        /\ One("on_write" = "on_error") = 0 /\ One("sent" = "on_error") = 0
        /\ One("sent" = "on_closed") = 0 /\ One("send_remains" = "watch") = 0
        /\ One("send_remains" = "send_remains") = 1
    BY DEF One, ReadSteps, WriteSteps, Receipts, Sendings
  <2>6. CASE n < sendq
    <3>1. todo' = <<"on_write", "send_remains">> \o Tail(todo)
      BY <2>1, <2>6, PairIs DEF Then
    <3>2. /\ Shape'
          /\ StepsMove(0, 0, -One("sent" = "leave"), -One("sent" = "announce"),
                One("send_remains" = "watch") - One("sent" \in ReadSteps),
                One("send_remains" = "watch") - One("sent" = "watch"),
                One("send_remains" = "send_remains") - One("sent" \in WriteSteps),
                One("on_write" = "on_error") - One("sent" = "on_error"), -One("sent" = "on_closed"))
      BY <1>1, <1>2, <2>2, <3>1, CallThenMoves
    <3>3. StepsMove(0, 0, 0, 0, 0, 0, 0, 0, 0)
      BY <2>5, <3>2 DEF StepsMove
    <3>4. /\ 0 \in {0, -1} /\ 0 \in {0, 1} /\ Writers + (0 + 0 + 0 + 0) <= 1
          /\ sendq' # 0 /\ Writers + (0 + 0 + 0 + 0) >= 1
      BY <1>3, <2>4, <2>6
    <3>5. Sends(0, 0, 0)
      BY <2>3, <2>4, <3>2, <3>3, <3>4 DEF Sends
    <3> QED
      BY <1>1, <1>3, <3>5, SendsInv
  <2>7. CASE ~(n < sendq)
    <3>1. todo' = <<"on_write">> \o Tail(todo)
      <4>1. <<"on_write">> \in Seq(Steps)
        BY <2>2 DEF Steps, Callbacks
      <4>2. <<"on_write">> \o <<>> = <<"on_write">>
        BY <4>1
      <4> QED
        BY <2>1, <2>7, <4>2 DEF Then
    <3>2. /\ Shape'
          /\ StepsMove(0, 0, -One("sent" = "leave"), -One("sent" = "announce"),
                -One("sent" \in ReadSteps), -One("sent" = "watch"), -One("sent" \in WriteSteps),
                One("on_write" = "on_error") - One("sent" = "on_error"), -One("sent" = "on_closed"))
      BY <1>1, <1>2, <2>2, <3>1, CallMoves
    <3>3. StepsMove(0, 0, 0, 0, 0, 0, -1, 0, 0)
      BY <2>5, <3>2 DEF StepsMove
    <3>4. /\ -1 \in {0, -1} /\ 0 \in {0, 1} /\ Writers + (0 + 0 + 0 + (-1)) <= 1
          /\ sendq' = 0 /\ Writers + (0 + 0 + 0 + (-1)) = 0
      BY <1>3, <2>4, <2>7
    <3>5. Sends(0, 0, -1)
      BY <2>3, <2>4, <3>2, <3>3, <3>4 DEF Sends
    <3> QED
      BY <1>1, <1>3, <3>5, SendsInv
  <2> QED
    BY <2>6, <2>7
<1> QED
  BY <1>4, <1>5
-----------------------------------------------------------------------------
(* The two modules' names for the actions of ChannelCore.                  *)
LEMMA SharedVariables ==
  /\ Tcp!state = state /\ Tcp!loop = loop /\ Tcp!history = history /\ Tcp!coreVars = coreVars
  /\ Udp!state = state /\ Udp!loop = loop /\ Udp!history = history /\ Udp!coreVars = coreVars
  /\ Tcp!state' = state' /\ Tcp!loop' = loop' /\ Tcp!history' = history' /\ Tcp!coreVars' = coreVars'
  /\ Udp!state' = state' /\ Udp!loop' = loop' /\ Udp!history' = history' /\ Udp!coreVars' = coreVars'
BY DEF Tcp!state, Udp!state, state, Tcp!loop, Udp!loop, loop, Tcp!history, Udp!history, history,
       Tcp!coreVars, Udp!coreVars, coreVars

LEMMA SharedLoopSteps == (Tcp!CoreLoopStep => CoreLoopStep) /\ (Udp!CoreLoopStep => CoreLoopStep)
<1>1. (Tcp!Splice <=> Splice) /\ (Udp!Splice <=> Splice)
  BY SharedSteps, SharedVariables DEF Tcp!Splice, Udp!Splice, Splice
<1>2. (Tcp!NextIteration <=> NextIteration) /\ (Udp!NextIteration <=> NextIteration)
  BY SharedSteps, SharedVariables DEF Tcp!NextIteration, Udp!NextIteration, NextIteration
<1>3. (Tcp!RunJob <=> RunJob) /\ (Udp!RunJob <=> RunJob)
  <2>1. \A job : Tcp!Handler(job) = Handler(job) /\ Udp!Handler(job) = Handler(job)
    BY DEF Tcp!Handler, Udp!Handler, Handler
  <2> QED
    BY <2>1, SharedSteps, SharedVariables DEF Tcp!RunJob, Udp!RunJob, RunJob
<1>4. (Tcp!FireOnClose <=> FireOnClose) /\ (Udp!FireOnClose <=> FireOnClose)
  BY SharedSteps, SharedVariables DEF Tcp!FireOnClose, Udp!FireOnClose, FireOnClose
<1>5. (Tcp!ReleaseJob <=> ReleaseJob) /\ (Udp!ReleaseJob <=> ReleaseJob)
  BY SharedSteps, SharedVariables DEF Tcp!ReleaseJob, Udp!ReleaseJob, ReleaseJob
<1>6. (Tcp!CallbackReturns <=> CallbackReturns) /\ (Udp!CallbackReturns <=> CallbackReturns)
  <2>1. (Tcp!close <=> close) /\ (Udp!close <=> close)
    BY SharedSteps DEF Tcp!close, Udp!close, close, Tcp!Post, Udp!Post, Post
  <2> QED
    BY <2>1, SharedSteps, SharedVariables DEF Tcp!CallbackReturns, Udp!CallbackReturns, CallbackReturns
<1> QED
  BY <1>1, <1>2, <1>3, <1>4, <1>5, <1>6 DEF Tcp!CoreLoopStep, Udp!CoreLoopStep, CoreLoopStep

LEMMA SharedCalls == (Tcp!CoreCall => CoreCall) /\ (Udp!CoreCall => CoreCall)
<1>1. (Tcp!close <=> close) /\ (Udp!close <=> close)
      /\ (Tcp!error_propagation <=> error_propagation)
      /\ (Udp!error_propagation <=> error_propagation)
      /\ (\A job : (Tcp!Post(job) <=> Post(job)) /\ (Udp!Post(job) <=> Post(job)))
      /\ (Tcp!NewCall <=> NewCall) /\ (Udp!NewCall <=> NewCall)
  BY SharedSteps DEF Tcp!close, Udp!close, close, Tcp!Post, Udp!Post, Post,
     Tcp!error_propagation, Udp!error_propagation, error_propagation,
     Tcp!NewCall, Udp!NewCall, NewCall
<1>2. (Tcp!CallbackCloses <=> CallbackCloses) /\ (Udp!CallbackCloses <=> CallbackCloses)
  BY <1>1, SharedSteps DEF Tcp!CallbackCloses, Udp!CallbackCloses, CallbackCloses
<1>3. (Tcp!CallbackWrites <=> CallbackWrites) /\ (Udp!CallbackWrites <=> CallbackWrites)
  BY <1>1, SharedSteps DEF Tcp!CallbackWrites, Udp!CallbackWrites, CallbackWrites
<1>4. (Tcp!CallbackFails <=> CallbackFails) /\ (Udp!CallbackFails <=> CallbackFails)
  BY <1>1, SharedSteps DEF Tcp!CallbackFails, Udp!CallbackFails, CallbackFails
<1>5. (Tcp!pending_read <=> pending_read) /\ (Udp!pending_read <=> pending_read)
  BY <1>1, SharedSteps, SharedVariables DEF Tcp!pending_read, Udp!pending_read, pending_read
<1>6. (Tcp!continue_read <=> continue_read) /\ (Udp!continue_read <=> continue_read)
  BY <1>1, SharedSteps DEF Tcp!continue_read, Udp!continue_read, continue_read
<1>7. (Tcp!CallbackShares <=> CallbackShares) /\ (Udp!CallbackShares <=> CallbackShares)
  BY <1>1, SharedSteps, SharedVariables DEF Tcp!CallbackShares, Udp!CallbackShares, CallbackShares
<1> QED
  BY <1>2, <1>3, <1>4, <1>5, <1>6, <1>7 DEF Tcp!CoreCall, Udp!CoreCall, CoreCall

LEMMA SharedUserSteps == (Tcp!UserStep => UserStep) /\ (Udp!UserStep => UserStep)
<1>1. /\ \A job : (Tcp!Post(job) <=> Post(job)) /\ (Udp!Post(job) <=> Post(job))
      /\ (Tcp!NewCall <=> NewCall) /\ (Udp!NewCall <=> NewCall)
  BY SharedSteps DEF Tcp!Post, Udp!Post, Post, Tcp!NewCall, Udp!NewCall, NewCall
<1>2. \A u \in Users : (Tcp!UserStarts(u) => UserStarts(u)) /\ (Udp!UserStarts(u) => UserStarts(u))
  BY <1>1, SharedVariables DEF Tcp!UserStarts, Udp!UserStarts, UserStarts
<1>3. \A u \in Users : (Tcp!UserPosts(u) => UserPosts(u)) /\ (Udp!UserPosts(u) => UserPosts(u))
  BY <1>1, SharedVariables DEF Tcp!UserPosts, Udp!UserPosts, UserPosts
<1>4. \A u \in Users : (Tcp!UserReleases(u) => UserReleases(u))
                       /\ (Udp!UserReleases(u) => UserReleases(u))
  BY SharedSteps, SharedVariables DEF Tcp!UserReleases, Udp!UserReleases, UserReleases
<1> QED
  BY <1>2, <1>3, <1>4 DEF Tcp!UserStep, Udp!UserStep, UserStep
-----------------------------------------------------------------------------
(* Every action of the loop, of the filters and of other threads.          *)
LEMMA LoopInv == ASSUME Inv, ~deleted, CoreLoopStep, Aside PROVE Inv'
<1>1. CASE Splice \/ NextIteration
  BY <1>1, SpliceInv
<1>2. CASE RunJob
  BY <1>2, RunJobInv
<1>3. CASE FireOnClose
  BY <1>3, FireOnCloseInv
<1>4. CASE ReleaseJob
  <2>1. /\ "release" \in Ending /\ Is("release") /\ Done /\ Release
        /\ active' = IF "release" = "give_back" THEN active - 1 ELSE active
        /\ UNCHANGED <<bits, tasks, batch, phase, upc, own, told, resumed>>
    BY <1>4 DEF ReleaseJob, Ending, history
  <2> QED
    BY <2>1, EndingInv
<1>5. CASE CallbackReturns
  BY <1>5, CallbackReturnsInv
<1> QED
  BY <1>1, <1>2, <1>3, <1>4, <1>5 DEF CoreLoopStep

LEMMA CallInv == ASSUME Inv, ~deleted, CoreCall, Aside PROVE Inv'
BY CallbackPostsInv, CallbackSharesInv, PendingReadInv, ContinueReadInv DEF CoreCall

LEMMA UserInv == ASSUME Inv, UserStep, Aside PROVE Inv'
<1> PICK u \in Users : UserStarts(u) \/ UserPosts(u) \/ UserReleases(u)
  BY DEF UserStep
<1> QED
  BY UserStartsInv, UserPostsInv, UserReleasesInv

LEMMA GivenBackInv ==
  ASSUME Inv, ~deleted,
         OfTcp(Tcp!GiveBack \/ Tcp!Leave \/ Tcp!TakeNothing)
           \/ OfUdp(Udp!GiveBack \/ Udp!Leave \/ Udp!TakeNothing)
  PROVE  Inv'
<1>1. CASE OfTcp(Tcp!GiveBack) \/ OfUdp(Udp!GiveBack)
  <2>1. /\ "give_back" \in Ending /\ Is("give_back") /\ Done /\ Release /\ Aside
        /\ active' = IF "give_back" = "give_back" THEN active - 1 ELSE active
        /\ UNCHANGED <<bits, tasks, batch, phase, upc, own, told, resumed>>
    BY <1>1, SharedSteps DEF OfTcp, OfUdp, Tcp!GiveBack, Udp!GiveBack, Ending, Tcp!history, Udp!history,
       Tcp!ioVars, Udp!ioVars, tcpOnly, udpOnly, Aside
  <2> QED
    BY <2>1, EndingInv
<1>2. CASE OfTcp(Tcp!Leave) \/ OfUdp(Udp!Leave)
  <2>1. /\ Is("leave") /\ Done /\ Release /\ Aside /\ own' = own - 1
        /\ active' = IF OnLinux THEN active - 1 ELSE active
        /\ UNCHANGED <<bits, tasks, batch, phase, upc, told, resumed>>
    BY <1>2, SharedSteps DEF OfTcp, OfUdp, Tcp!Leave, Udp!Leave, Tcp!history, Udp!history,
       Tcp!ioVars, Udp!ioVars, tcpOnly, udpOnly, Aside, OnLinux
  <2> QED
    BY <2>1, LeaveInv
<1>3. CASE OfTcp(Tcp!TakeNothing) \/ OfUdp(Udp!TakeNothing)
  <2>1. /\ UNCHANGED <<bits, ref, active, deleted, tasks, batch, todo, upc, own, told, resumed>>
        /\ Aside /\ phase = "wait"
    BY <1>3 DEF OfTcp, OfUdp, Tcp!TakeNothing, Udp!TakeNothing, Tcp!history, Udp!history, Tcp!state,
       Udp!state, Tcp!ioVars, Udp!ioVars, tcpOnly, udpOnly, Aside
  <2> QED
    BY <2>1, WaitQuietly
<1> QED
  BY <1>1, <1>2, <1>3 DEF OfTcp, OfUdp

LEMMA TcpNextInv == ASSUME Inv, OfTcp(Tcp!Next) PROVE Inv'
<1>1. Tcp!Next /\ kind = "tcp" /\ UNCHANGED <<kind, udpOnly>>
  BY DEF OfTcp
<1>2. UNCHANGED Tcp!ioVars => Aside
  BY <1>1 DEF Tcp!ioVars, udpOnly, Aside
<1>3. ASSUME ~deleted, Tcp!LoopStep PROVE Inv'
  <2>1. CASE Tcp!CoreLoopStep /\ UNCHANGED Tcp!ioVars
    BY <1>2, <1>3, <2>1, SharedLoopSteps, LoopInv
  <2>2. CASE Tcp!TakePacket
    <3>1. OfTcp(Tcp!TakePacket)
      BY <1>1, <2>2 DEF OfTcp
    <3> QED
      BY <1>3, <3>1, TakePacketInv
  <2>3. CASE Tcp!GiveBack \/ Tcp!Leave \/ Tcp!TakeNothing
    <3>1. OfTcp(Tcp!GiveBack \/ Tcp!Leave \/ Tcp!TakeNothing)
      BY <1>1, <2>3 DEF OfTcp
    <3> QED
      BY <1>3, <3>1, GivenBackInv
  <2>4. CASE Tcp!FireOnConnected
    <3>1. OfTcp(Tcp!FireOnConnected)
      BY <1>1, <2>4 DEF OfTcp
    <3> QED
      BY <1>3, <3>1, AnnouncedInv
  <2>5. CASE Tcp!DoRecv
    <3>1. OfTcp(Tcp!DoRecv)
      BY <1>1, <2>5 DEF OfTcp
    <3> QED
      BY <1>3, <3>1, DoRecvInv
  <2>6. CASE Tcp!FireDoWrite
    <3>1. OfTcp(Tcp!FireDoWrite)
      BY <1>1, <2>6 DEF OfTcp
    <3> QED
      BY <1>3, <3>1, TcpWritesInv
  <2>7. CASE Tcp!HandleRecv \/ Tcp!HandleRecvFailed \/ Tcp!HandleSendFailed
    <3>1. OfTcp(Tcp!HandleRecv \/ Tcp!HandleRecvFailed \/ Tcp!HandleSendFailed)
      BY <1>1, <2>7 DEF OfTcp
    <3> QED
      BY <1>3, <3>1, TcpHandlesInv
  <2>8. CASE Tcp!HandleSend
    <3>1. OfTcp(Tcp!HandleSend)
      BY <1>1, <2>8 DEF OfTcp
    <3> QED
      BY <1>3, <3>1, HandleSendInv
  <2>9. CASE Tcp!SendRemains
    <3>1. OfTcp(Tcp!SendRemains)
      BY <1>1, <2>9 DEF OfTcp
    <3> QED
      BY <1>3, <3>1, SendRemainsInv
  <2> QED
    BY <1>3, <2>1, <2>2, <2>3, <2>4, <2>5, <2>6, <2>7, <2>8, <2>9 DEF Tcp!LoopStep
<1>4. ASSUME ~deleted, Tcp!CallbackWritesDirectly PROVE Inv'
  <2>1. OfTcp(Tcp!CallbackWritesDirectly)
    BY <1>1, <1>4 DEF OfTcp
  <2> QED
    BY <1>4, <2>1, TcpWritesInv
<1>5. ASSUME ~deleted, Tcp!CoreCall, UNCHANGED Tcp!ioVars PROVE Inv'
  BY <1>2, <1>5, SharedCalls, CallInv
<1>6. ASSUME Tcp!Kernel PROVE Inv'
  <2>1. OfTcp(Tcp!RecvCompletes) \/ OfTcp(Tcp!SendCompletes)
    BY <1>1, <1>6 DEF OfTcp, Tcp!Kernel
  <2> QED
    BY <2>1, CompletesInv
<1>7. ASSUME Tcp!UserStep, UNCHANGED Tcp!ioVars PROVE Inv'
  BY <1>2, <1>7, SharedUserSteps, UserInv
<1> QED
  BY <1>1, <1>3, <1>4, <1>5, <1>6, <1>7 DEF Tcp!Next

LEMMA UdpNextInv == ASSUME Inv, OfUdp(Udp!Next) PROVE Inv'
<1>1. Udp!Next /\ kind = "udp" /\ UNCHANGED <<kind, tcpOnly>>
  BY DEF OfUdp
<1>2. UNCHANGED Udp!ioVars => Aside
  BY <1>1 DEF Udp!ioVars, tcpOnly, Aside
<1>3. ASSUME ~deleted, Udp!LoopStep PROVE Inv'
  <2>1. CASE Udp!CoreLoopStep /\ UNCHANGED Udp!ioVars
    BY <1>2, <1>3, <2>1, SharedLoopSteps, LoopInv
  <2>2. CASE Udp!TakePacket
    <3>1. OfUdp(Udp!TakePacket)
      BY <1>1, <2>2 DEF OfUdp
    <3> QED
      BY <1>3, <3>1, TakePacketInv
  <2>3. CASE Udp!GiveBack \/ Udp!Leave \/ Udp!TakeNothing
    <3>1. OfUdp(Udp!GiveBack \/ Udp!Leave \/ Udp!TakeNothing)
      BY <1>1, <2>3 DEF OfUdp
    <3> QED
      BY <1>3, <3>1, GivenBackInv
  <2>4. CASE Udp!FireOnOpen
    <3>1. OfUdp(Udp!FireOnOpen)
      BY <1>1, <2>4 DEF OfUdp
    <3> QED
      BY <1>3, <3>1, AnnouncedInv
  <2>5. CASE Udp!DoRecv
    <3>1. OfUdp(Udp!DoRecv)
      BY <1>1, <2>5 DEF OfUdp
    <3> QED
      BY <1>3, <3>1, DoRecvInv
  <2>6. CASE Udp!RegisterHandle
    <3>1. OfUdp(Udp!RegisterHandle)
      BY <1>1, <2>6 DEF OfUdp
    <3> QED
      BY <1>3, <3>1, RegisterHandleInv
  <2>7. CASE Udp!HandleRecv \/ Udp!HandleRecvFailed \/ Udp!HandleReadable
    <3>1. OfUdp(Udp!HandleRecv \/ Udp!HandleRecvFailed \/ Udp!HandleReadable)
      BY <1>1, <2>7 DEF OfUdp
    <3> QED
      BY <1>3, <3>1, UdpHandlesInv
  <2>8. CASE Udp!FireDoWrite
    <3>1. OfUdp(Udp!FireDoWrite)
      BY <1>1, <2>8 DEF OfUdp
    <3> QED
      BY <1>3, <3>1, UdpWritesInv
  <2>9. CASE Udp!PollEvent
    <3>1. OfUdp(Udp!PollEvent)
      BY <1>1, <2>9 DEF OfUdp
    <3> QED
      BY <1>3, <3>1, PollEventInv
  <2> QED
    BY <1>3, <2>1, <2>2, <2>3, <2>4, <2>5, <2>6, <2>7, <2>8, <2>9 DEF Udp!LoopStep
<1>4. ASSUME ~deleted, Udp!CallbackWritesDirectly PROVE Inv'
  <2>1. OfUdp(Udp!CallbackWritesDirectly)
    BY <1>1, <1>4 DEF OfUdp
  <2> QED
    BY <1>4, <2>1, CallbackWritesDirectlyInv
<1>5. ASSUME ~deleted, Udp!CoreCall, UNCHANGED Udp!ioVars PROVE Inv'
  BY <1>2, <1>5, SharedCalls, CallInv
<1>6. ASSUME Udp!DatagramArrives PROVE Inv'
  <2>1. UNCHANGED coreVars /\ Aside
    BY <1>1, <1>6, SharedVariables DEF Udp!DatagramArrives, tcpOnly, Aside
  <2> QED
    BY <2>1, SameInv
<1>7. ASSUME Udp!RecvCompletes PROVE Inv'
  <2>1. OfUdp(Udp!RecvCompletes)
    BY <1>1, <1>7 DEF OfUdp
  <2> QED
    BY <2>1, CompletesInv
<1>8. ASSUME Udp!UserStep, UNCHANGED Udp!ioVars PROVE Inv'
  BY <1>2, <1>8, SharedUserSteps, UserInv
<1> QED
  BY <1>1, <1>3, <1>4, <1>5, <1>6, <1>7, <1>8 DEF Udp!Next

LEMMA InitInv == ASSUME Init PROVE Inv
<1>1. /\ bits = {} /\ ref = 0 /\ active = 0 /\ deleted = FALSE /\ batch = <<>>
      /\ \/ phase = "wait" /\ tasks = <<"connected">> /\ todo = <<>>
         \/ phase = "timers" /\ tasks = <<>> /\ todo = <<"announce">>
      /\ upc = [u \in Users |-> "out"] /\ own = 0 /\ told = {} /\ resumed = FALSE
      /\ sendq = 0 /\ inflight = 0 /\ recvs = 0 /\ sends = 0 /\ port = <<>>
      /\ OnLinux => tasks = <<"connected">>
  <2>1. CASE kind = "tcp" /\ Tcp!Init
    BY <2>1 DEF Tcp!Init, Tcp!CoreInit, OnLinux
  <2>2. CASE kind = "udp" /\ Udp!Init /\ sendq = 0 /\ inflight = 0 /\ sends = 0
    BY <2>2 DEF Udp!Init, Udp!CoreInit, OnLinux
  <2> QED
    BY <2>1, <2>2 DEF Init
<1>2. /\ \A S : StepsIn(S) = (IF todo = <<>> THEN 0 ELSE One("announce" \in S))
      /\ \A S : JobsIn(S) = (IF todo = <<>> THEN One("connected" \in S) ELSE 0)
      /\ \A S : Count(port, S) = 0
  <2>1. \A S : Count(<<>>, S) = 0 /\ Count(<<"announce">>, S) = One("announce" \in S)
               /\ Count(<<"connected">>, S) = One("connected" \in S)
               /\ One("connected" \in S) \in {0, 1}
    BY CountEmpty, CountSingle, OnesAre
  <2>2. <<"announce">> # <<>>
    OBVIOUS
  <2> QED
    BY <1>1, <2>1, <2>2 DEF StepsIn, JobsIn
<1>3. \A S : "out" \notin S => ThreadsIn(S) = 0
  <2> TAKE S
  <2> HAVE "out" \notin S
  <2>1. {u \in Users : upc[u] \in S} = {}
    BY <1>1
  <2> QED
    BY <2>1, FS_EmptySet DEF ThreadsIn
<1>4. /\ StepsIn({"announce"}) + JobsIn({"connected"}) = 1
      /\ StepsIn(ReadSteps) + JobsIn({"connected"}) = 1
      /\ StepsIn(WriteSteps) = 0 /\ StepsIn({"leave"}) = 0 /\ StepsIn({"release"}) = 0
      /\ StepsIn({"give_back"}) = 0 /\ StepsIn({"on_error"}) = 0 /\ StepsIn({"on_closed"}) = 0
      /\ StepsIn({"watch"}) = 0
      /\ JobsIn(Held) = 0 /\ JobsIn({"send"}) = 0 /\ JobsIn({"error"}) = 0
      /\ JobsIn({"close"}) = 0 /\ JobsIn({"watch"}) = 0
      /\ JobsIn({"connected"}) \in Nat /\ StepsIn({"announce"}) \in Nat
      /\ StepsIn(ReadSteps) \in Nat
  <2>1. /\ One("announce" \in {"announce"}) = 1 /\ One("announce" \in ReadSteps) = 1
        /\ One("announce" \in WriteSteps) = 0 /\ One("announce" \in {"leave"}) = 0
        /\ One("announce" \in {"release"}) = 0 /\ One("announce" \in {"give_back"}) = 0
        /\ One("announce" \in {"on_error"}) = 0 /\ One("announce" \in {"on_closed"}) = 0
        /\ One("announce" \in {"watch"}) = 0
    BY DEF One, ReadSteps, WriteSteps, Receipts, Sendings
  <2>2. /\ One("connected" \in {"connected"}) = 1 /\ One("connected" \in Held) = 0
        /\ One("connected" \in {"send"}) = 0 /\ One("connected" \in {"error"}) = 0
        /\ One("connected" \in {"close"}) = 0 /\ One("connected" \in {"watch"}) = 0
    BY DEF One, Held
  <2>3. CASE todo = <<>>
    BY <1>2, <2>2, <2>3
  <2>4. CASE todo # <<>>
    BY <1>2, <2>1, <2>4
  <2> QED
    BY <2>3, <2>4
<1>5. ThreadsIn(Busy) = 0 /\ ThreadsIn({"closing"}) = 0 /\ ThreadsIn({"failing"}) = 0
  BY <1>3 DEF Busy
<1>6. Types
  <2>1. "connected" \in Jobs /\ "announce" \in Steps /\ "out" \in Doing
    BY DEF Jobs, Steps, Doing
  <2>2. <<>> \in Seq(Jobs) /\ <<>> \in Seq(Packets) /\ <<>> \in Seq(Steps)
        /\ <<"connected">> \in Seq(Jobs) /\ <<"announce">> \in Seq(Steps)
    BY <2>1
  <2>3. upc \in [Users -> Doing]
    BY <1>1, <2>1
  <2>4. ref \in Int /\ active \in Int /\ own \in Int
        /\ recvs \in Nat /\ sends \in Nat /\ sendq \in Nat /\ inflight \in Nat
        /\ bits \subseteq {"error", "close", "pending"}
    BY <1>1
  <2>5. deleted \in BOOLEAN /\ resumed \in BOOLEAN
    BY <1>1, Zenon
  <2> QED
    BY <1>1, <2>2, <2>3, <2>4, <2>5 DEF Types
<1>7. Shape
  <2>1. Len(<<>>) = 0 /\ Len(<<"announce">>) = 1 /\ Head(<<"announce">>) = "announce"
    OBVIOUS
  <2>2. Len(todo) \in {0, 1} /\ (todo # <<>> => Head(todo) = "announce")
    BY <1>1, <2>1
  <2>3. (\A i \in 2 .. Len(todo) : FALSE) /\ (\A i \in 1 .. Len(todo) - 1 : FALSE)
    BY <2>2
  <2> QED
    BY <1>4, <2>2, <2>3 DEF Shape
<1>8. Unannounced = 1 /\ Operations = 0
  <2>1. Len(<<>>) = 0
    OBVIOUS
  <2> QED
    BY <1>1, <1>4, <2>1 DEF Unannounced, Operations
<1>9. Counted
  BY <1>1, <1>4, <1>5, <1>8 DEF Counted
<1>10. Untouched /\ Gone
  BY <1>1, <1>8 DEF Untouched, Gone
<1>11. HandlerHolds
  <2> SUFFICES ASSUME todo # <<>> PROVE StepsIn({"announce"}) >= 1
    BY DEF HandlerHolds
  <2>1. StepsIn({"announce"}) = One("announce" \in {"announce"})
    BY <1>2
  <2> QED
    BY <2>1 DEF One
<1>12. OnceEach
  <2>1. Failed = 0 /\ Closed = 0 /\ ErrorTold = 0 /\ ClosedTold = 0 /\ Closers = 0
    BY <1>1, <1>4, <1>5 DEF Failed, Closed, ErrorTold, ClosedTold, Closers, One
  <2> QED
    BY <1>1, <1>4, <1>5, <1>8, <2>1 DEF OnceEach
<1>13. Reads
  <2>1. Fetching = 0 /\ Readers = 1
    BY <1>1, <1>2, <1>4 DEF Fetching, Readers
  <2> QED
    BY <1>1, <1>4, <1>8, <2>1 DEF Reads
<1>14. Writes
  <2>1. Writers = 0
    BY <1>1, <1>2, <1>4 DEF Writers
  <2> QED
    BY <1>1, <2>1 DEF Writes
<1> QED
  BY <1>6, <1>7, <1>9, <1>10, <1>11, <1>12, <1>13, <1>14 DEF Inv

LEMMA NextInv == ASSUME Inv, [Next]_vars PROVE Inv'
<1>1. CASE UNCHANGED vars
  <2>1. UNCHANGED coreVars /\ Aside
    BY <1>1 DEF vars, tcpOnly, udpOnly, Aside
  <2> QED
    BY <2>1, SameInv
<1> QED
  BY <1>1, TcpNextInv, UdpNextInv DEF Next
-----------------------------------------------------------------------------
(* The properties of the two modules follow from the invariant.            *)

KindInv == kind \in {"tcp", "udp"}

(* A channel of either kind never breaks the invariant.                    *)
THEOREM InvariantTheorem == Spec => [](Inv /\ KindInv)
<1>1. Init => Inv /\ KindInv
  BY InitInv DEF Init, KindInv
<1>2. Inv /\ KindInv /\ [Next]_vars => Inv' /\ KindInv'
  <2>1. KindInv /\ [Next]_vars => KindInv'
    BY DEF KindInv, Next, OfTcp, OfUdp, vars
  <2> QED
    BY <2>1, NextInv
<1> QED
  BY <1>1, <1>2, PTL DEF Spec

LEMMA SharedCounts ==
  ASSUME Inv
  PROVE  /\ \A seq, S : Tcp!Count(seq, S) = Count(seq, S) /\ Udp!Count(seq, S) = Count(seq, S)
         /\ \A S : Count(batch \o tasks, S) = JobsIn(S)
         /\ Tcp!JobsHeld = JobsIn(Held) /\ Udp!JobsHeld = JobsIn(Held)
         /\ Tcp!UsersHeld = ThreadsIn(Busy) /\ Udp!UsersHeld = ThreadsIn(Busy)
         /\ Tcp!Queued = batch \o tasks /\ Udp!Queued = batch \o tasks
<1>1. \A seq, S : Tcp!Count(seq, S) = Count(seq, S) /\ Udp!Count(seq, S) = Count(seq, S)
  BY DEF Tcp!Count, Udp!Count, Count, Tcp!Cardinality, Udp!Cardinality, Cardinality
<1>2. \A S : Count(batch \o tasks, S) = JobsIn(S)
  BY CountConcat DEF Inv, Types, JobsIn
<1>3. Tcp!Queued = batch \o tasks /\ Udp!Queued = batch \o tasks
  BY DEF Tcp!Queued, Udp!Queued
<1>4. Tcp!JobsHeld = JobsIn(Held) /\ Udp!JobsHeld = JobsIn(Held)
  <2>1. Tcp!Jobs = Jobs /\ Udp!Jobs = Jobs
    BY DEF Tcp!Jobs, Udp!Jobs, Jobs
  <2> QED
    BY <1>1, <1>2, <1>3, <2>1 DEF Tcp!JobsHeld, Udp!JobsHeld, Held
<1>5. Tcp!UsersHeld = ThreadsIn(Busy) /\ Udp!UsersHeld = ThreadsIn(Busy)
  <2>1. {u \in Users : upc[u] # "out"} = {u \in Users : upc[u] \in Busy}
    BY DEF Inv, Types, Doing, Busy
  <2> QED
    BY <2>1 DEF Tcp!UsersHeld, Udp!UsersHeld, ThreadsIn, Tcp!Cardinality, Udp!Cardinality, Cardinality
<1> QED
  BY <1>1, <1>2, <1>3, <1>4, <1>5

(* A channel for datagrams has no send under way.                          *)
LEMMA NothingSent ==
  ASSUME Inv, kind = "udp"
  PROVE  sends = 0 /\ Count(port, Sendings) = 0 /\ JobsIn({"send"}) = 0
<1> DEFINE p == Count(port, Sendings)
           s == StepsIn(WriteSteps)
           j == JobsIn({"send"})
<1>1. sends \in Nat /\ p \in Nat /\ j \in Nat /\ s \in Nat
  BY NumbersAre DEF Inv, Types
<1>2. Writers = 0 /\ Writers = sends + p + j + s
  BY DEF Inv, Writes, Writers
<1> HIDE DEF p, s, j
<1>3. sends = 0 /\ p = 0 /\ j = 0
  BY <1>1, <1>2
<1> QED
  BY <1>3 DEF p, j

(* What the two modules call reading and writing.                          *)
LEMMA OperationsAre ==
  ASSUME Inv
  PROVE  /\ Tcp!Reading = Fetching
         /\ Tcp!Writing = sends + Count(port, Sendings) + JobsIn({"send"})
         /\ kind = "udp" => Udp!Reading = Fetching
         /\ Fetching \in Nat /\ Tcp!Writing \in Nat
         /\ Operations = Fetching + Tcp!Writing + StepsIn({"give_back"})
         /\ StepsIn({"give_back"}) \in Nat
<1> DEFINE p == Count(port, Sendings)
           q == Count(port, Receipts)
           j == JobsIn({"send"})
           g == StepsIn({"give_back"})
<1>1. /\ recvs \in Nat /\ sends \in Nat /\ p \in Nat /\ q \in Nat /\ j \in Nat /\ g \in Nat
      /\ Len(port) = q + p
  BY NumbersAre DEF Inv, Types
<1>2. Tcp!Reading = Fetching /\ Fetching = recvs + q
  BY SharedCounts DEF Tcp!Reading, Fetching, Receipts
<1>3. Tcp!Writing = sends + p + j
  BY SharedCounts DEF Tcp!Writing, Sendings
<1>4. kind = "udp" => Udp!Reading = recvs + Len(port) /\ p = 0
  BY NothingSent DEF Udp!Reading
<1>5. Operations = recvs + sends + Len(port) + j + g
  BY DEF Operations
<1> HIDE DEF p, q, j, g
<1>6. /\ kind = "udp" => Udp!Reading = Fetching
      /\ Fetching \in Nat /\ Tcp!Writing \in Nat
      /\ Operations = Fetching + Tcp!Writing + g
  BY <1>1, <1>2, <1>3, <1>4, <1>5
<1> QED
  BY <1>1, <1>2, <1>3, <1>6 DEF p, j, g

(* References and activity of either kind of channel are those of the      *)
(* operations, jobs, handlers and threads that hold it: no release() or    *)
(* remove_active() is missing or too many.                                 *)
THEOREM BalanceTheorem == Spec => []Balance
<1>1. Inv /\ KindInv => Balance
  <2> SUFFICES ASSUME Inv, KindInv PROVE Balance
    OBVIOUS
  <2> DEFINE h == JobsIn(Held)
             r == StepsIn({"release"})
             t == ThreadsIn(Busy)
             g == StepsIn({"give_back"})
  <2>1. /\ h \in Nat /\ r \in Nat /\ t \in Nat /\ g \in Nat /\ own \in Int /\ ref \in Int
        /\ active \in Int /\ Operations \in Nat /\ ref = Operations + own + h + r + t
    BY HoldersAre DEF Inv, Types
  <2>2. /\ Fetching \in Nat /\ Tcp!Writing \in Nat /\ Tcp!Reading = Fetching
        /\ Operations = Fetching + Tcp!Writing + g /\ (kind = "udp" => Udp!Reading = Fetching)
    BY OperationsAre
  <2>3. (OnLinux => active = own /\ Operations = 0) /\ (~OnLinux => active = Operations)
    BY DEF Inv, Counted
  <2>4. CASE kind = "tcp"
    <3>1. active = Operations
      BY <2>3, <2>4 DEF OnLinux
    <3>2. /\ Tcp!Balance <=> active = Fetching + Tcp!Writing + g /\ ref = active + own + h + r + t
      BY <2>2, SharedCounts DEF Tcp!Balance, StepsIn
    <3> HIDE DEF h, r, t, g
    <3> QED
      BY <2>1, <2>2, <2>4, <3>1, <3>2 DEF Balance
  <2>5. CASE kind = "udp"
    <3>1. Tcp!Writing = 0
      <4>1. sends = 0 /\ Count(port, Sendings) = 0 /\ JobsIn({"send"}) = 0
        BY <2>5, NothingSent
      <4> QED
        BY <4>1, OperationsAre
    <3>2. Udp!Balance <=> /\ active = IF Udp!Linux THEN own ELSE Fetching + g
                          /\ ref = (Fetching + g) + own + h + r + t
      BY <2>2, <2>5, SharedCounts DEF Udp!Balance, StepsIn
    <3>3. Udp!Linux <=> OnLinux
      BY <2>5 DEF Udp!Linux, OnLinux
    <3> HIDE DEF h, r, t, g
    <3>4. Operations = Fetching + g
      BY <2>1, <2>2, <3>1
    <3> QED
      BY <2>1, <2>3, <2>5, <3>2, <3>3, <3>4 DEF Balance
  <2> QED
    BY <2>4, <2>5 DEF KindInv
<1> QED
  BY <1>1, InvariantTheorem, PTL

(* A deleted channel has left nothing behind: no operation in the kernel,  *)
(* packet, job, step of a handler or thread that would use it, as long as  *)
(* no filter has called continue_read().                                   *)
THEOREM NoUseAfterFreeTheorem == Spec => []NoUseAfterFree
<1>1. Inv /\ KindInv => NoUseAfterFree
  <2> SUFFICES ASSUME Inv, KindInv, deleted, ~resumed
               PROVE  /\ kind = "tcp" => Tcp!Reading + Tcp!Writing = 0
                      /\ kind = "udp" => Udp!Reading = 0
                      /\ Tcp!Queued = <<>> /\ Udp!Queued = <<>> /\ todo = <<>> /\ active = 0
                      /\ \A u \in Users : upc[u] = "out"
    BY DEF NoUseAfterFree, Tcp!NoUseAfterFree, Udp!NoUseAfterFree, KindInv
  <2> DEFINE h == JobsIn(Held)
             r == StepsIn({"release"})
             t == ThreadsIn(Busy)
             g == StepsIn({"give_back"})
  <2>1. /\ h \in Nat /\ r \in Nat /\ t \in Nat /\ g \in Nat
        /\ active \in Int /\ Operations \in Nat /\ ref = Operations + own + h + r + t
    BY HoldersAre DEF Inv, Types
  <2>2. ref = 0 /\ own = 0 /\ todo = <<>> /\ Unannounced = 0
    <3>1. Unannounced \in Nat
      BY NumbersAre DEF Inv, Unannounced
    <3>2. ref = 0 /\ own = 0 /\ todo = <<>> /\ ~(Unannounced >= 1)
      BY DEF Inv, Gone, Untouched
    <3> QED
      BY <3>1, <3>2
  <2>3. Operations = 0 /\ h = 0 /\ t = 0
    <3> HIDE DEF h, r, t, g
    <3> QED
      BY <2>1, <2>2
  <2>4. /\ Fetching \in Nat /\ Tcp!Writing \in Nat /\ Tcp!Reading = Fetching
        /\ Operations = Fetching + Tcp!Writing + g /\ (kind = "udp" => Udp!Reading = Fetching)
    BY OperationsAre
  <2>5. Fetching = 0 /\ Tcp!Writing = 0
    <3> HIDE DEF h, r, t, g
    <3> QED
      BY <2>1, <2>3, <2>4
  <2>6. active = 0
    BY <2>2, <2>3 DEF Inv, Counted
  <2>7. batch \o tasks = <<>>
    <3>1. batch \in Seq(Jobs) /\ tasks \in Seq(Jobs) /\ batch \o tasks \in Seq(Jobs)
      BY ConcatProperties DEF Inv, Types
    <3>2. JobsIn({"connected"}) = 0 /\ JobsIn({"send"}) = 0
      <4>1. /\ JobsIn({"connected"}) \in Nat /\ StepsIn({"announce"}) \in Nat
            /\ JobsIn({"send"}) \in Nat /\ sends \in Nat /\ Count(port, Sendings) \in Nat
        BY NumbersAre DEF Inv, Types
      <4>2. Tcp!Writing = sends + Count(port, Sendings) + JobsIn({"send"})
        BY OperationsAre
      <4>3. JobsIn({"connected"}) + StepsIn({"announce"}) = 0
        BY <2>2 DEF Unannounced
      <4> QED
        BY <2>5, <4>1, <4>2, <4>3
    <3>3. ASSUME NEW S, JobsIn(S) = 0, NEW i \in DOMAIN (batch \o tasks)
          PROVE  (batch \o tasks)[i] \notin S
      <4>1. Count(batch \o tasks, S) = 0
        BY <3>3, SharedCounts
      <4> QED
        BY <3>1, <3>3, <4>1, CountSome
    <3>4. \A i \in DOMAIN (batch \o tasks) : FALSE
      <4> TAKE i \in DOMAIN (batch \o tasks)
      <4>1. (batch \o tasks)[i] \in Jobs
        BY <3>1, LenProperties
      <4>2. /\ (batch \o tasks)[i] \notin Held /\ (batch \o tasks)[i] \notin {"send"}
            /\ (batch \o tasks)[i] \notin {"connected"}
        BY <2>3, <3>2, <3>3
      <4> QED
        BY <4>1, <4>2 DEF Held
    <3> QED
      <4> DEFINE q == batch \o tasks
      <4>1. q \in Seq(Jobs) /\ DOMAIN q = 1 .. Len(q) /\ Len(q) \in Nat
        BY <3>1, LenProperties
      <4> HIDE DEF q
      <4>2. ~(1 \in 1 .. Len(q))
        BY <3>4, <4>1 DEF q
      <4>3. Len(q) = 0
        BY <4>1, <4>2
      <4>4. q = <<>>
        BY <4>1, <4>3, EmptySeq
      <4> QED
        BY <4>4 DEF q
  <2>8. \A u \in Users : upc[u] = "out"
    <3> SUFFICES ASSUME NEW u \in Users, upc[u] # "out" PROVE FALSE
      OBVIOUS
    <3>1. upc[u] \in Busy
      BY DEF Inv, Types, Doing
    <3>2. ThreadsIn(Busy) >= 1
      BY <3>1, BusyIsHeld
    <3> QED
      BY <2>3, <3>2
  <2> QED
    BY <2>2, <2>4, <2>5, <2>6, <2>7, <2>8, SharedCounts
<1> QED
  BY <1>1, InvariantTheorem, PTL

(* Neither kind of channel ever starts a second receive or send beside the *)
(* first, and between its handlers none is forgotten: a live channel reads *)
(* unless it is paused, and sends as long as its queue is not empty.       *)
THEOREM ServedOnceTheorem == Spec => []ServedOnce
<1>1. Inv /\ KindInv => ServedOnce
  <2> SUFFICES ASSUME Inv, KindInv PROVE ServedOnce
    OBVIOUS
  <2> DEFINE p == Count(port, Sendings)
             j == JobsIn({"send"})
             s == StepsIn(WriteSteps)
             d == StepsIn(ReadSteps)
             c == JobsIn({"connected"})
  <2>1. /\ p \in Nat /\ j \in Nat /\ s \in Nat /\ d \in Nat /\ c \in Nat /\ sends \in Nat
        /\ StepsIn({"announce"}) \in Nat /\ sendq \in Nat
    BY NumbersAre DEF Inv, Types
  <2>2. /\ Fetching \in Nat /\ Tcp!Writing \in Nat /\ Tcp!Reading = Fetching
        /\ Tcp!Writing = sends + p + j /\ (kind = "udp" => Udp!Reading = Fetching)
    BY OperationsAre
  <2>3. Readers = Fetching + d + c /\ Writers = sends + p + j + s
    BY DEF Readers, Writers
  <2>4. Fetching <= 1 /\ Tcp!Writing <= 1
    <3>1. ("pending" \in bits => Fetching = 0) /\ ("pending" \notin bits => Readers <= 1) /\ Writers <= 1
      BY DEF Inv, Reads, Writes
    <3> HIDE DEF p, j, s, d, c
    <3> QED
      BY <2>1, <2>2, <2>3, <3>1
  <2>5. ASSUME todo = <<>>, own = 1, ~Dead, ~resumed
        PROVE  /\ ~OnLinux => (Fetching = 1 <=> "pending" \notin bits)
               /\ kind = "tcp" => (Tcp!Writing = 1 <=> sendq > 0)
               /\ OnLinux => watched = ("pending" \notin bits)
    <3>1. s = 0 /\ d = 0 /\ StepsIn({"watch"}) = 0
      BY <2>5, CountEmpty DEF StepsIn
    <3>2. Unannounced = 0 /\ c = 0
      <4>1. own >= 1
        BY <2>5
      <4>2. Unannounced = 0
        BY <4>1, CountedAnnounced
      <4> QED
        BY <2>1, <4>2 DEF Unannounced
    <3>3. Readers = Fetching /\ Writers = Tcp!Writing
      <4> HIDE DEF p, j, s, d, c
      <4> QED
        BY <2>1, <2>2, <2>3, <3>1, <3>2
    <3>4. /\ "pending" \in bits => Fetching = 0
          /\ "pending" \notin bits => Readers <= 1
          /\ "pending" \notin bits /\ ~OnLinux => Readers >= 1
          /\ OnLinux => watched = ("pending" \notin bits)
          /\ sendq = 0 => Writers = 0
          /\ kind = "tcp" /\ sendq >= 1 => Writers >= 1
      BY <2>5, <3>1, <3>2 DEF Inv, Reads, Writes
    <3> HIDE DEF p, j, s, d, c
    <3>5. ~OnLinux => (Fetching = 1 <=> "pending" \notin bits)
      BY <2>2, <3>3, <3>4
    <3>6. kind = "tcp" => (Tcp!Writing = 1 <=> sendq > 0)
      BY <2>1, <2>2, <2>4, <3>3, <3>4
    <3> QED
      BY <3>4, <3>5, <3>6
  <2>6. CASE kind = "tcp"
    <3>1. ~OnLinux /\ (Tcp!Idle <=> todo = <<>>) /\ (Tcp!Dead <=> Dead)
      BY <2>6, SharedSteps DEF OnLinux, Tcp!Idle
    <3> QED
      BY <2>2, <2>4, <2>5, <2>6, <3>1 DEF ServedOnce, Tcp!ServedOnce
  <2>7. CASE kind = "udp"
    <3>1. (Udp!Linux <=> OnLinux) /\ (Udp!Idle <=> todo = <<>>) /\ (Udp!Dead <=> Dead)
      BY <2>7, SharedSteps DEF OnLinux, Udp!Idle
    <3> QED
      BY <2>2, <2>4, <2>5, <2>7, <3>1 DEF ServedOnce, Udp!ServedOnce
  <2> QED
    BY <2>6, <2>7 DEF KindInv
<1> QED
  BY <1>1, InvariantTheorem, PTL
-----------------------------------------------------------------------------
(* What the filters see.                                                   *)
Ends == {"on_error", "on_closed"}

(* on_closed() comes after the error: fire_on_close() has set it, and told *)
(* it unless someone else does.                                            *)
Ended ==
  ~resumed =>
    /\ told \subseteq Ends
    /\ "error" \notin bits =>
         "on_closed" \notin told /\ (StepsIn({"on_closed"}) >= 1 => Is("closing"))

(* The variables of the contract, in the terms of the invariant.           *)
Callback == IF ~Idle /\ Head(todo) \in Callbacks THEN Head(todo) ELSE "none"
Begun == told \cup {c \in Ends : Is(c)} \cup (IF Unannounced > 0 THEN {} ELSE {"on_connected"})

LEMMA BegunIs ==
  ASSUME Types
  PROVE  Begun = told \cup ({"on_error", "on_closed"} \cap {IF Idle THEN "none" ELSE Head(todo)})
                 \cup (IF Count(Queued, {"connected"}) + Count(todo, {"announce"}) > 0
                       THEN {} ELSE {"on_connected"})
<1>1. Count(Queued, {"connected"}) = JobsIn({"connected"})
  BY CountConcat DEF Types, Queued, JobsIn
<1>2. {c \in Ends : Is(c)} = {"on_error", "on_closed"} \cap {IF Idle THEN "none" ELSE Head(todo)}
  BY DEF Ends, Is, Idle
<1> QED
  BY <1>1, <1>2 DEF Begun, Unannounced, StepsIn

LEMMA BegunWillBe ==
  ASSUME Types'
  PROVE  Begun' = (told \cup ({"on_error", "on_closed"} \cap {IF Idle THEN "none" ELSE Head(todo)})
                   \cup (IF Count(Queued, {"connected"}) + Count(todo, {"announce"}) > 0
                         THEN {} ELSE {"on_connected"}))'
<1>1. Count(Queued, {"connected"})' = JobsIn({"connected"})'
  BY CountConcat DEF Types, Queued, JobsIn
<1>2. {c \in Ends : Is(c)'} = {"on_error", "on_closed"} \cap {IF Idle' THEN "none" ELSE Head(todo')}
  BY DEF Ends, Is, Idle
<1> QED
  BY <1>1, <1>2 DEF Begun, Unannounced, StepsIn

LEMMA ContractSteps ==
  ASSUME Types, Types'
  PROVE  /\ UNCHANGED <<Callback, Begun, deleted>> => UNCHANGED Contract!vars
         /\ /\ Begun = {} /\ Callback' = "on_connected" /\ Begun' = {"on_connected"}
            /\ deleted' = deleted
            => Contract!Next
         /\ /\ Begun = {"on_connected"} /\ ~deleted /\ Callback' \in {"on_read", "on_write"}
            /\ Begun' = Begun /\ deleted' = deleted
            => Contract!Next
         /\ \A c \in Ends :
              /\ "on_connected" \in Begun /\ c \notin Begun /\ ~deleted
              /\ Callback' = c /\ Begun' = Begun \cup {c} /\ deleted' = deleted
              => Contract!Next
         /\ Callback' = "none" /\ UNCHANGED <<Begun, deleted>> => Contract!Next
         /\ /\ Ends \subseteq Begun /\ Callback = "none" /\ deleted' = TRUE
            /\ UNCHANGED <<Callback, Begun>>
            => Contract!Next
<1>1. UNCHANGED <<Callback, Begun, deleted>> => UNCHANGED Contract!vars
  BY BegunIs, BegunWillBe DEF Callback, Contract!vars
<1>2. /\ Begun = {} /\ Callback' = "on_connected" /\ Begun' = {"on_connected"}
      /\ deleted' = deleted
      => Contract!Connect
  BY BegunIs, BegunWillBe DEF Callback, Contract!Connect
<1>3. /\ Begun = {"on_connected"} /\ ~deleted /\ Callback' \in {"on_read", "on_write"}
      /\ Begun' = Begun /\ deleted' = deleted
      => Contract!Deliver
  BY BegunIs, BegunWillBe DEF Callback, Contract!Deliver
<1>4. ASSUME NEW c \in Ends
      PROVE  /\ "on_connected" \in Begun /\ c \notin Begun /\ ~deleted
             /\ Callback' = c /\ Begun' = Begun \cup {c} /\ deleted' = deleted
             => Contract!End(c)
  BY BegunIs, BegunWillBe DEF Callback, Contract!End
<1>5. Callback' = "none" /\ UNCHANGED <<Begun, deleted>> => Contract!Return
  BY BegunIs, BegunWillBe DEF Callback, Contract!Return
<1>6. /\ Ends \subseteq Begun /\ Callback = "none" /\ deleted' = TRUE
      /\ UNCHANGED <<Callback, Begun>>
      => Contract!Delete
  BY BegunIs, BegunWillBe DEF Callback, Contract!Delete, Ends, Contract!Ends
<1>7. \A c \in Ends : Contract!End(c) => Contract!Next
  BY DEF Contract!Next, Ends, Contract!Ends
<1> QED
  BY <1>1, <1>2, <1>3, <1>4, <1>5, <1>6, <1>7 DEF Contract!Next
-----------------------------------------------------------------------------
(* What an action does to what the filters see: nothing; the step at the   *)
(* head of the handler ends; it calls a filter; a handler begins; or the   *)
(* channel is announced.                                                   *)
Quiet == UNCHANGED <<todo, told>> /\ JobsIn({"connected"})' = JobsIn({"connected"})

Ceases ==
  /\ todo # <<>> /\ Head(todo) # "announce" /\ Done
  /\ told' = told \cup ({Head(todo)} \cap Ends)
  /\ JobsIn({"connected"})' = JobsIn({"connected"})
  /\ Head(todo) = "closing" => "error" \in bits'

Calling(call, after) ==
  /\ call \in {"on_read", "on_write", "on_error"}
  /\ after \in {<<>>, <<"rest">>, <<"watch">>, <<"send_remains">>}
  /\ todo # <<>> /\ Head(todo) \notin Ends \cup {"announce"}
  /\ todo' = (<<call>> \o after) \o Tail(todo)
  /\ told' = told /\ JobsIn({"connected"})' = JobsIn({"connected"})
  /\ IF call = "on_error" THEN "error" \notin bits /\ "error" \in bits'
                          ELSE ~Dead /\ Head(todo) # "closing"

Begins ==
  /\ todo = <<>> /\ todo' # <<>> /\ told' = told /\ Unannounced' = Unannounced
  /\ Head(todo') \in Callbacks =>
       Head(todo') = "on_error" /\ Unannounced = 0 /\ "on_error" \notin told
  /\ StepsIn({"on_closed"})' >= 1 => Head(todo') = "closing"

Announces ==
  /\ Is("announce") /\ told' = told /\ own' = own + 1
  /\ todo' \in {<<"on_connected">>, <<"on_connected", "watch">>}

Shows ==
  \/ Quiet
  \/ ~deleted /\ (Ceases \/ Begins \/ Announces \/ \E call, after : Calling(call, after))

(* Only who gives up a reference deletes the channel.                      *)
Deletes ==
  /\ told' = told /\ deleted' = TRUE /\ Unannounced = 0
  /\ todo = <<>> \/ Head(todo) \notin Callbacks

(* What no action but continue_read() takes back.                          *)
Forward == ~resumed /\ bits \subseteq bits' /\ (deleted' = deleted \/ Deletes)

(* A step of a handler follows the one that ends.                          *)
LEMMA CeasesIs ==
  ASSUME Inv, Ceases
  PROVE  /\ Unannounced = 0 /\ Unannounced' = 0
         /\ todo' # <<>> => Head(todo') \in Later
         /\ StepsIn({"on_closed"}) \in Nat /\ StepsIn({"on_closed"})' \in Nat
         /\ StepsIn({"on_closed"})' = StepsIn({"on_closed"}) - One(Head(todo) = "on_closed")
<1>1. /\ Types /\ Shape /\ todo # <<>> /\ Head(todo) # "announce"
      /\ JobsIn({"connected"})' = JobsIn({"connected"})
  BY DEF Inv, Ceases
<1>2. Unannounced = 0
  BY <1>1, Announced
<1>3. todo' = Tail(todo) /\ (todo' # <<>> => Head(todo') \in Later)
  BY <1>1, TailIs DEF Ceases, Done
<1>4. <<>> \in Seq(Steps) /\ todo' = <<>> \o Tail(todo)
  BY <1>1, <1>3, HeadTailProperties DEF Types
<1>5. \A S : /\ StepsIn(S) \in Nat /\ StepsIn(S)' \in Nat
             /\ StepsIn(S)' = StepsIn(S) + (Count(<<>>, S) - One(Head(todo) \in S))
  BY <1>1, <1>4, Replaced
<1>6. Count(<<>>, {"announce"}) = 0 /\ Count(<<>>, {"on_closed"}) = 0
      /\ One(Head(todo) \in {"announce"}) = 0
      /\ One(Head(todo) \in {"on_closed"}) = One(Head(todo) = "on_closed")
  BY <1>1, CountEmpty DEF One
<1>7. StepsIn({"announce"})' = StepsIn({"announce"}) /\ StepsIn({"announce"}) \in Nat
  BY <1>5, <1>6
<1>8. One(Head(todo) = "on_closed") \in {0, 1}
  BY OnesAre
<1>9. StepsIn({"on_closed"})' = StepsIn({"on_closed"}) - One(Head(todo) = "on_closed")
      /\ StepsIn({"on_closed"}) \in Nat /\ StepsIn({"on_closed"})' \in Nat
  BY <1>5, <1>6, <1>8
<1>10. Unannounced' = 0
  BY <1>1, <1>2, <1>7 DEF Unannounced
<1> QED
  BY <1>2, <1>3, <1>9, <1>10

(* A filter is called.                                                     *)
LEMMA CallingIs ==
  ASSUME Inv, NEW call, NEW after, Calling(call, after)
  PROVE  /\ Unannounced = 0 /\ Unannounced' = 0
         /\ todo' # <<>> /\ Head(todo') = call
         /\ StepsIn({"on_closed"})' = StepsIn({"on_closed"})
<1>1. /\ Types /\ Shape /\ todo # <<>> /\ Head(todo) \notin Ends \cup {"announce"}
      /\ JobsIn({"connected"})' = JobsIn({"connected"})
      /\ call \in {"on_read", "on_write", "on_error"}
      /\ after \in {<<>>, <<"rest">>, <<"watch">>, <<"send_remains">>}
      /\ todo' = (<<call>> \o after) \o Tail(todo)
  BY DEF Inv, Calling
<1>2. Unannounced = 0
  BY <1>1, Announced
<1>3. <<call>> \in Seq(Steps)
  BY <1>1 DEF Steps, Callbacks
<1>4. <<>> \in Seq(Steps) /\ <<"rest">> \in Seq(Steps) /\ <<"watch">> \in Seq(Steps)
      /\ <<"send_remains">> \in Seq(Steps)
  BY DEF Steps, Later
<1>5. after \in Seq(Steps)
  BY <1>1, <1>4
<1>6. /\ <<call>> \o after \in Seq(Steps)
      /\ \A S : Count(<<call>> \o after, S) = Count(<<call>>, S) + Count(after, S)
  BY <1>3, <1>5, ConcatProperties, CountConcat
<1>7. Count(after, {"announce"}) = 0 /\ Count(after, {"on_closed"}) = 0
  <2>1. \A x : /\ Count(<<x>>, {"announce"}) = One(x = "announce")
               /\ Count(<<x>>, {"on_closed"}) = One(x = "on_closed")
    BY CountSingle, OneOfSingle
  <2>2. Count(<<>>, {"announce"}) = 0 /\ Count(<<>>, {"on_closed"}) = 0
    BY CountEmpty
  <2> QED
    BY <1>1, <2>1, <2>2 DEF One
<1>8. Count(<<call>>, {"announce"}) = 0 /\ Count(<<call>>, {"on_closed"}) = 0
  <2>1. call \notin {"announce"} /\ call \notin {"on_closed"}
    BY <1>1
  <2> QED
    BY <2>1, CountSingle DEF One
<1>9. \A S : /\ StepsIn(S) \in Nat /\ StepsIn(S)' \in Nat
             /\ StepsIn(S)' = StepsIn(S) + (Count(<<call>> \o after, S) - One(Head(todo) \in S))
  BY <1>1, <1>6, Replaced
<1>10. One(Head(todo) \in {"announce"}) = 0 /\ One(Head(todo) \in {"on_closed"}) = 0
  BY <1>1 DEF One, Ends
<1>11. /\ Count(<<call>> \o after, {"announce"}) = 0 /\ Count(<<call>> \o after, {"on_closed"}) = 0
  BY <1>6, <1>7, <1>8
<1>12. /\ StepsIn({"announce"})' = StepsIn({"announce"}) /\ StepsIn({"announce"}) \in Nat
       /\ StepsIn({"on_closed"})' = StepsIn({"on_closed"})
  BY <1>9, <1>10, <1>11
<1>13. Unannounced' = 0
  BY <1>1, <1>2, <1>12 DEF Unannounced
<1>14. todo' # <<>> /\ Head(todo') = call
  <2>1. Tail(todo) \in Seq(Steps)
    BY <1>1, HeadTailProperties DEF Types
  <2>2. <<call>> \o after # <<>> /\ (<<call>> \o after)[1] = call
    BY <1>3, <1>5
  <2>3. (<<call>> \o after) \o Tail(todo) # <<>> /\ ((<<call>> \o after) \o Tail(todo))[1] = call
    <3> DEFINE news == <<call>> \o after
    <3>1. news \in Seq(Steps) /\ Len(news) >= 1 /\ news[1] = call
      BY <1>3, <1>5
    <3> HIDE DEF news
    <3>2. news \o Tail(todo) # <<>> /\ (news \o Tail(todo))[1] = call
      BY <2>1, <3>1, ConcatProperties
    <3> QED
      BY <3>2 DEF news
  <2> QED
    BY <1>1, <2>3
<1> QED
  BY <1>2, <1>12, <1>13, <1>14
-----------------------------------------------------------------------------
(* What has been told or is being told, as OnceEach counts it.             *)
LEMMA OneOfEach ==
  ASSUME Inv, ~resumed
  PROVE  /\ StepsIn({"on_error"}) + ErrorTold <= 1 /\ StepsIn({"on_closed"}) + ClosedTold <= 1
         /\ JobsIn({"error"}) >= 1 => ErrorTold = 0 /\ StepsIn({"on_error"}) = 0
         /\ "error" \notin bits => StepsIn({"on_error"}) = 0 /\ ErrorTold = 0
         /\ "close" \notin bits => StepsIn({"on_closed"}) = 0 /\ ClosedTold = 0
<1> DEFINE e == StepsIn({"on_error"})
           c == StepsIn({"on_closed"})
           je == JobsIn({"error"})
           jc == JobsIn({"close"})
           te == ThreadsIn({"failing"})
           tc == ThreadsIn({"closing"})
<1>1. e \in Nat /\ c \in Nat /\ je \in Nat /\ jc \in Nat /\ te \in Nat /\ tc \in Nat
  BY NumbersAre DEF Inv
<1>2. Failed = ErrorTold + e + je + te /\ Closed = ClosedTold + c + (tc + jc)
  BY DEF Inv, OnceEach, Closers
<1>3. /\ Failed \in {0, 1} /\ Closed \in {0, 1} /\ ErrorTold \in {0, 1} /\ ClosedTold \in {0, 1}
      /\ "error" \notin bits => Failed = 0
      /\ "close" \notin bits => Closed = 0
  BY DEF Failed, Closed, ErrorTold, ClosedTold, One
<1> HIDE DEF e, c, je, jc, te, tc
<1>4. /\ e + ErrorTold <= 1 /\ c + ClosedTold <= 1
      /\ je >= 1 => ErrorTold = 0 /\ e = 0
      /\ "error" \notin bits => e = 0 /\ ErrorTold = 0
      /\ "close" \notin bits => c = 0 /\ ClosedTold = 0
  BY <1>1, <1>2, <1>3
<1> QED
  BY <1>4 DEF e, c, je

LEMMA BegunOnce ==
  ASSUME Inv, Ended, ~resumed, Unannounced = 0
  PROVE  /\ "on_connected" \in Begun
         /\ ~Dead => Begun = {"on_connected"}
         /\ "error" \notin bits => "on_error" \notin Begun
<1>1. told \subseteq Ends
  BY DEF Ended
<1>2. ErrorTold \in {0, 1} /\ ClosedTold \in {0, 1}
      /\ (ErrorTold = 0 <=> "on_error" \notin told) /\ (ClosedTold = 0 <=> "on_closed" \notin told)
  BY DEF ErrorTold, ClosedTold, One
<1>3. ASSUME Is("on_error") PROVE StepsIn({"on_error"}) >= 1
  BY <1>3, HeadCounts DEF Is, Inv
<1>4. ASSUME Is("on_closed") PROVE StepsIn({"on_closed"}) >= 1
  BY <1>4, HeadCounts DEF Is, Inv
<1>5. /\ "error" \notin bits => "on_error" \notin told /\ ~Is("on_error")
      /\ "close" \notin bits => "on_closed" \notin told /\ ~Is("on_closed")
  BY <1>2, <1>3, <1>4, OneOfEach
<1>6. Begun = told \cup {c \in Ends : Is(c)} \cup {"on_connected"}
  BY DEF Begun
<1> QED
  BY <1>1, <1>5, <1>6 DEF Ends, Dead

(* A step that is not the last ends: on_closed() is called, or nothing.    *)
LEMMA CeasesContract ==
  ASSUME Inv, Ended, Inv', ~resumed, ~resumed', Ceases, ~deleted, deleted' = deleted
  PROVE  Contract!Next
<1>1. /\ Unannounced = 0 /\ Unannounced' = 0
      /\ todo' # <<>> => Head(todo') \in Later
      /\ StepsIn({"on_closed"}) \in Nat /\ StepsIn({"on_closed"})' \in Nat
      /\ StepsIn({"on_closed"})' = StepsIn({"on_closed"}) - One(Head(todo) = "on_closed")
  BY CeasesIs
<1>2. todo # <<>> /\ told' = told \cup ({Head(todo)} \cap Ends)
  BY DEF Ceases
<1>3. Begun = told \cup {c \in Ends : Is(c)} \cup {"on_connected"}
      /\ Begun' = told' \cup {c \in Ends : Is(c)'} \cup {"on_connected"}
  BY <1>1 DEF Begun
<1>4. Begun' = Begun \cup {c \in Ends : Is(c)'}
  BY <1>2, <1>3 DEF Is
<1>5. CASE todo' = <<>> \/ Head(todo') # "on_closed"
  <2>1. Callback' = "none" /\ \A c \in Ends : ~Is(c)'
    BY <1>1, <1>5 DEF Callback, Idle, Later, Ending, Callbacks, Is, Ends
  <2>2. Begun' = Begun
    BY <1>4, <2>1
  <2> QED
    BY <2>1, <2>2, ContractSteps DEF Inv
<1>6. CASE todo' # <<>> /\ Head(todo') = "on_closed"
  <2>1. Callback' = "on_closed" /\ \A c \in Ends : Is(c)' <=> c = "on_closed"
    BY <1>6 DEF Callback, Idle, Callbacks, Is, Ends
  <2>2. StepsIn({"on_closed"})' >= 1
    <3>1. Types' /\ todo' # <<>> /\ Head(todo') \in {"on_closed"}
      BY <1>6 DEF Inv
    <3>2. /\ Count(todo', {"on_closed"}) = One(Head(todo') \in {"on_closed"}) + Count(Tail(todo'), {"on_closed"})
          /\ Tail(todo') \in Seq(Steps)
      BY <3>1, CountTail, HeadTailProperties DEF Types
    <3>3. Count(Tail(todo'), {"on_closed"}) \in Nat /\ One(Head(todo') \in {"on_closed"}) = 1
      BY <3>1, <3>2, CountType DEF One
    <3> QED
      BY <3>2, <3>3 DEF StepsIn
  <2>3. StepsIn({"on_closed"}) + ClosedTold <= 1 /\ ClosedTold \in {0, 1}
    BY OneOfEach DEF ClosedTold, One
  <2>4. One(Head(todo) = "on_closed") = 0 /\ ClosedTold = 0
    <3>1. One(Head(todo) = "on_closed") \in {0, 1}
      BY OnesAre
    <3> QED
      BY <1>1, <2>2, <2>3, <3>1
  <2>5. "on_closed" \notin Begun
    BY <1>3, <2>4 DEF ClosedTold, One, Is
  <2>6. Begun' = Begun \cup {"on_closed"}
    BY <1>4, <2>1 DEF Ends
  <2>7. "on_connected" \in Begun
    BY <1>3
  <2> QED
    BY <2>1, <2>5, <2>6, <2>7, ContractSteps DEF Inv, Ends
<1> QED
  BY <1>5, <1>6

(* A filter is called.                                                     *)
LEMMA CallingContract ==
  ASSUME Inv, Ended, Inv', ~resumed, NEW call, NEW after, Calling(call, after),
         ~deleted, deleted' = deleted
  PROVE  Contract!Next
<1>1. Unannounced = 0 /\ Unannounced' = 0 /\ todo' # <<>> /\ Head(todo') = call
  BY CallingIs
<1>2. /\ call \in {"on_read", "on_write", "on_error"} /\ todo # <<>>
      /\ Head(todo) \notin Ends \cup {"announce"} /\ told' = told
      /\ IF call = "on_error" THEN "error" \notin bits /\ "error" \in bits'
                              ELSE ~Dead /\ Head(todo) # "closing"
  BY DEF Calling
<1>3. Begun = told \cup {c \in Ends : Is(c)} \cup {"on_connected"}
      /\ Begun' = told' \cup {c \in Ends : Is(c)'} \cup {"on_connected"}
  BY <1>1 DEF Begun
<1>4. Callback' = call /\ (\A c \in Ends : ~Is(c)) /\ (\A c \in Ends : Is(c)' <=> c = call)
  BY <1>1, <1>2 DEF Callback, Idle, Callbacks, Is
<1>5. /\ "on_connected" \in Begun
      /\ ~Dead => Begun = {"on_connected"}
      /\ "error" \notin bits => "on_error" \notin Begun
  BY <1>1, BegunOnce
<1>6. CASE call = "on_error"
  <2>1. Begun' = Begun \cup {"on_error"}
    BY <1>2, <1>3, <1>4, <1>6 DEF Ends
  <2> QED
    BY <1>2, <1>4, <1>5, <1>6, <2>1, ContractSteps DEF Inv, Ends
<1>7. CASE call \in {"on_read", "on_write"}
  <2>1. Begun' = Begun /\ Begun = {"on_connected"}
    BY <1>2, <1>3, <1>4, <1>5, <1>7 DEF Ends
  <2> QED
    BY <1>4, <1>7, <2>1, ContractSteps DEF Inv
<1> QED
  BY <1>2, <1>6, <1>7

(* A handler begins: on_error() is called, or nothing yet.                 *)
LEMMA BeginsContract ==
  ASSUME Inv, Ended, Inv', ~resumed, Begins, ~deleted, deleted' = deleted
  PROVE  Contract!Next \/ UNCHANGED Contract!vars
<1>1. /\ todo = <<>> /\ todo' # <<>> /\ told' = told /\ Unannounced' = Unannounced
      /\ Head(todo') \in Callbacks =>
           Head(todo') = "on_error" /\ Unannounced = 0 /\ "on_error" \notin told
  BY DEF Begins
<1>2. Callback = "none" /\ \A c \in Ends : ~Is(c)
  BY <1>1 DEF Callback, Idle, Is
<1>3. CASE Head(todo') \notin Callbacks
  <2>1. Callback' = "none" /\ \A c \in Ends : ~Is(c)'
    BY <1>3 DEF Callback, Idle, Callbacks, Is, Ends
  <2>2. Begun' = Begun
    BY <1>1, <1>2, <2>1 DEF Begun
  <2> QED
    BY <1>2, <2>1, <2>2, ContractSteps DEF Inv
<1>4. CASE Head(todo') \in Callbacks
  <2>1. Callback' = "on_error" /\ \A c \in Ends : Is(c)' <=> c = "on_error"
    BY <1>1, <1>4 DEF Callback, Idle, Is
  <2>2. Begun = told \cup {"on_connected"} /\ Begun' = told \cup {"on_error"} \cup {"on_connected"}
    BY <1>1, <1>2, <1>4, <2>1 DEF Begun, Ends
  <2> QED
    BY <1>1, <1>4, <2>1, <2>2, ContractSteps DEF Inv, Ends
<1> QED
  BY <1>3, <1>4

(* The channel is announced.                                               *)
LEMMA AnnouncesContract ==
  ASSUME Inv, Inv', ~resumed, Announces, deleted' = deleted
  PROVE  Contract!Next
<1>1. /\ todo # <<>> /\ Head(todo) = "announce" /\ told' = told /\ own' = own + 1
      /\ todo' \in {<<"on_connected">>, <<"on_connected", "watch">>}
  BY DEF Announces, Is
<1>2. Unannounced >= 1
  <2>1. StepsIn({"announce"}) >= 1
    BY <1>1, HeadCounts DEF Inv
  <2>2. JobsIn({"connected"}) \in Nat /\ StepsIn({"announce"}) \in Nat
    BY NumbersAre DEF Inv
  <2> QED
    BY <2>1, <2>2 DEF Unannounced
<1>3. told = {} /\ own = 0
  BY <1>2 DEF Inv, Untouched
<1>4. Unannounced' = 0
  <2>1. own' # 0
    BY <1>1, <1>3
  <2>2. ~(Unannounced' >= 1)
    BY <2>1 DEF Inv, Untouched
  <2>3. Unannounced' \in Nat
    <3>1. Count(batch', {"connected"}) \in Nat /\ Count(tasks', {"connected"}) \in Nat
          /\ Count(todo', {"announce"}) \in Nat
      BY CountType DEF Inv, Types
    <3> QED
      BY <3>1 DEF Unannounced, JobsIn, StepsIn
  <2> QED
    BY <2>2, <2>3
<1>5. todo' # <<>> /\ Head(todo') = "on_connected"
  BY <1>1
<1>6. Callback' = "on_connected" /\ (\A c \in Ends : ~Is(c)) /\ \A c \in Ends : ~Is(c)'
  BY <1>1, <1>5 DEF Callback, Idle, Callbacks, Is, Ends
<1>7. Begun = {} /\ Begun' = {"on_connected"}
  <2>1. Unannounced > 0 /\ ~(Unannounced' > 0)
    <3>1. Unannounced \in Nat
      BY NumbersAre DEF Inv, Unannounced
    <3> QED
      BY <1>2, <1>4, <3>1
  <2> QED
    BY <1>1, <1>3, <1>6, <2>1 DEF Begun
<1> QED
  BY <1>6, <1>7, ContractSteps DEF Inv

(* Nothing changes for the filters.                                        *)
LEMMA QuietContract ==
  ASSUME Inv, Inv', Quiet, deleted' = deleted PROVE UNCHANGED Contract!vars
<1>1. UNCHANGED <<todo, told>> /\ Unannounced' = Unannounced
  BY DEF Quiet, Unannounced, StepsIn
<1>2. Callback' = Callback /\ Begun' = Begun
  BY <1>1 DEF Callback, Idle, Begun, Is
<1> QED
  BY <1>2, ContractSteps DEF Inv
-----------------------------------------------------------------------------
(* A deleted channel has told its end: its own reference is given up after *)
(* on_closed(), and nobody is left who could still tell the error.         *)
LEMMA DeletedTold ==
  Inv /\ Ended /\ deleted /\ ~resumed => todo = <<>> /\ Unannounced = 0 /\ Ends \subseteq told
<1> SUFFICES ASSUME Inv, Ended, deleted, ~resumed
             PROVE  todo = <<>> /\ Unannounced = 0 /\ Ends \subseteq told
  OBVIOUS
<1> DEFINE e == StepsIn({"on_error"})
           c == StepsIn({"on_closed"})
           l == StepsIn({"leave"})
           je == JobsIn({"error"})
           jc == JobsIn({"close"})
           te == ThreadsIn({"failing"})
           tc == ThreadsIn({"closing"})
           h == JobsIn(Held)
           t == ThreadsIn(Busy)
           r == StepsIn({"release"})
<1>1. ref = 0 /\ own = 0 /\ todo = <<>>
  BY DEF Inv, Gone
<1>2. Unannounced = 0
  <2>1. Unannounced \in Nat
    BY NumbersAre DEF Inv, Unannounced
  <2>2. ~(Unannounced >= 1)
    BY DEF Inv, Untouched
  <2> QED
    BY <2>1, <2>2
<1>3. e = 0 /\ c = 0 /\ l = 0
  BY <1>1, CountEmpty DEF StepsIn
<1>4. je \in Nat /\ jc \in Nat /\ te \in Nat /\ tc \in Nat
  BY NumbersAre DEF Inv
<1>5. h = 0 /\ t = 0
  <2>1. /\ Operations \in Nat /\ h \in Nat /\ r \in Nat /\ t \in Nat
        /\ ref = Operations + own + h + r + t
    BY HoldersAre
  <2> HIDE DEF h, r, t
  <2> QED
    BY <1>1, <2>1
<1>6. je = 0
  <2>1. {"error"} \in SUBSET Held
    BY DEF Held, Jobs
  <2>2. /\ Count(batch, {"error"}) <= Count(batch, Held) /\ Count(tasks, {"error"}) <= Count(tasks, Held)
        /\ Count(batch, {"error"}) \in Nat /\ Count(tasks, {"error"}) \in Nat
        /\ Count(batch, Held) \in Nat /\ Count(tasks, Held) \in Nat
    BY <2>1, CountMonotonic, CountType DEF Inv, Types
  <2> QED
    BY <1>5, <2>2 DEF JobsIn
<1>7. te = 0
  <2>1. \A u \in Users : upc[u] \notin Busy
    <3> TAKE u \in Users
    <3>1. upc[u] \in Busy => ThreadsIn(Busy) >= 1
      BY BusyIsHeld
    <3> QED
      BY <1>5, <3>1
  <2>2. {u \in Users : upc[u] \in {"failing"}} = {}
    BY <2>1 DEF Busy
  <2> QED
    BY <2>2, FS_EmptySet DEF ThreadsIn
<1>8. /\ Failed = ErrorTold + e + je + te /\ Closed = ClosedTold + c + (tc + jc)
      /\ Unannounced + own + Closed = 1 + (tc + jc) + l
  BY DEF Inv, OnceEach, Closers
<1>9. Failed \in {0, 1} /\ Closed \in {0, 1} /\ ErrorTold \in {0, 1} /\ ClosedTold \in {0, 1}
  BY DEF Failed, Closed, ErrorTold, ClosedTold, One
<1>10. ClosedTold = 1 /\ ErrorTold = Failed
  <2> HIDE DEF e, c, l, je, jc, te, tc
  <2> QED
    BY <1>1, <1>2, <1>3, <1>4, <1>6, <1>7, <1>8, <1>9
<1>11. "on_closed" \in told
  BY <1>10 DEF ClosedTold, One
<1>12. "error" \in bits
  BY <1>11 DEF Ended
<1>13. ErrorTold = 1
  BY <1>10, <1>12 DEF Failed, One
<1> QED
  BY <1>1, <1>2, <1>11, <1>13 DEF ErrorTold, One, Ends

(* The last reference is given up.                                         *)
LEMMA DeletesContract ==
  ASSUME Inv, Inv', Ended', ~resumed', Deletes PROVE Contract!Next
<1>1. /\ told' = told /\ deleted' = TRUE /\ Unannounced = 0
      /\ todo = <<>> \/ Head(todo) \notin Callbacks
  BY DEF Deletes
<1>2. todo' = <<>> /\ Unannounced' = 0 /\ Ends \subseteq told'
  <2>1. (Inv /\ Ended /\ deleted /\ ~resumed => todo = <<>> /\ Unannounced = 0 /\ Ends \subseteq told)'
    BY DeletedTold, PTL
  <2> QED
    BY <1>1, <2>1
<1>3. Callback = "none" /\ Callback' = "none"
  BY <1>1, <1>2 DEF Callback, Idle
<1>4. (\A c \in Ends : ~Is(c)) /\ \A c \in Ends : ~Is(c)'
  BY <1>1, <1>2 DEF Is, Ends, Callbacks
<1>5. Begun' = Begun
  BY <1>1, <1>2, <1>4 DEF Begun
<1>6. Ends \subseteq Begun
  BY <1>1, <1>2 DEF Begun
<1> QED
  BY <1>1, <1>3, <1>5, <1>6, ContractSteps DEF Inv

LEMMA ShowsContract ==
  ASSUME Inv, Ended, Inv', Ended', ~resumed', Shows, Forward
  PROVE  Contract!Next \/ UNCHANGED Contract!vars
<1>1. ~resumed /\ (deleted' = deleted \/ Deletes)
  BY DEF Forward
<1>2. CASE Deletes
  BY <1>2, DeletesContract
<1>3. CASE deleted' = deleted
  BY <1>1, <1>3, CeasesContract, CallingContract, BeginsContract, AnnouncesContract, QuietContract
     DEF Shows
<1> QED
  BY <1>1, <1>2, <1>3

(* on_closed() still comes after the error.                                *)
LEMMA ShowsEnded ==
  ASSUME Inv, Ended, Shows, Forward PROVE Ended'
<1>1. ~resumed /\ told \subseteq Ends /\ bits \subseteq bits'
  BY DEF Ended, Forward
<1>2. "error" \notin bits' => "on_closed" \notin told /\ (StepsIn({"on_closed"}) >= 1 => Is("closing"))
  BY <1>1 DEF Ended
<1>3. StepsIn({"on_closed"}) \in Nat
  BY NumbersAre DEF Inv
<1>4. CASE Quiet
  BY <1>1, <1>2, <1>4 DEF Quiet, Ended, StepsIn, Is
<1>5. CASE Ceases
  <2>1. told' = told \cup ({Head(todo)} \cap Ends) /\ todo # <<>>
        /\ (Head(todo) = "closing" => "error" \in bits')
    BY <1>5 DEF Ceases
  <2>2. /\ StepsIn({"on_closed"})' \in Nat
        /\ StepsIn({"on_closed"})' = StepsIn({"on_closed"}) - One(Head(todo) = "on_closed")
    BY <1>5, CeasesIs
  <2>3. ASSUME "error" \notin bits' PROVE StepsIn({"on_closed"})' = 0 /\ Head(todo) # "on_closed"
    <3>1. StepsIn({"on_closed"}) = 0
      BY <1>2, <1>3, <2>1, <2>3 DEF Is
    <3>2. One(Head(todo) = "on_closed") \in {0, 1} /\ (Head(todo) = "on_closed" => One(Head(todo) = "on_closed") = 1)
      BY OnesAre
    <3> QED
      BY <2>2, <3>1, <3>2
  <2> QED
    BY <1>1, <1>2, <2>1, <2>3 DEF Ended, Ends
<1>6. CASE \E call, after : Calling(call, after)
  <2>1. PICK call, after : Calling(call, after)
    BY <1>6
  <2>2. told' = told /\ todo # <<>> /\ ("error" \notin bits' => Head(todo) # "closing")
    BY <2>1 DEF Calling
  <2>3. StepsIn({"on_closed"})' = StepsIn({"on_closed"})
    BY <2>1, CallingIs
  <2>4. "error" \notin bits' => ~(StepsIn({"on_closed"})' >= 1)
    BY <1>2, <2>2, <2>3 DEF Is
  <2> QED
    BY <1>1, <1>2, <2>2, <2>4 DEF Ended
<1>7. CASE Begins
  BY <1>1, <1>2, <1>7 DEF Begins, Ended, Is
<1>8. CASE Announces
  <2>1. told' = told /\ todo' \in {<<"on_connected">>, <<"on_connected", "watch">>}
    BY <1>8 DEF Announces
  <2>2. StepsIn({"on_closed"})' = 0
    <3>1. One("on_connected" \in {"on_closed"}) = 0 /\ One("watch" \in {"on_closed"}) = 0
      BY DEF One
    <3>2. Count(<<"on_connected">>, {"on_closed"}) = One("on_connected" \in {"on_closed"})
      BY CountSingle
    <3>3. "on_connected" \in Steps /\ "watch" \in Steps
      BY DEF Steps, Callbacks, Later
    <3>4. Count(<<"on_connected", "watch">>, {"on_closed"})
            = One("on_connected" \in {"on_closed"}) + One("watch" \in {"on_closed"})
      BY <3>3, CountPair
    <3> QED
      BY <2>1, <3>1, <3>2, <3>4 DEF StepsIn
  <2> QED
    BY <1>1, <1>2, <2>1, <2>2 DEF Ended
<1> QED
  BY <1>4, <1>5, <1>6, <1>7, <1>8 DEF Shows
-----------------------------------------------------------------------------
(* Jobs that are queued after the announcement.                            *)
Posts ==
  batch' = batch
    /\ (tasks' = tasks \/ \E job \in {"write", "watch", "close", "error", "send"} : Execute(job))

LEMMA PostsQuietly ==
  ASSUME Types, Posts PROVE JobsIn({"connected"})' = JobsIn({"connected"})
<1>1. CASE tasks' = tasks
  BY <1>1 DEF Posts, JobsIn
<1>2. CASE \E job \in {"write", "watch", "close", "error", "send"} : Execute(job)
  <2>1. PICK job \in {"write", "watch", "close", "error", "send"} : Execute(job)
    BY <1>2
  <2>2. job \in Jobs /\ One(job = "connected") = 0 /\ batch' = batch
    BY DEF Jobs, One, Posts
  <2>3. JobsMove(One(job \in Held), One(job = "send"), One(job = "connected"),
                 One(job = "watch"), One(job = "close"), One(job = "error"))
    BY <2>1, <2>2, ExecuteMoves
  <2>4. JobsIn({"connected"})' = JobsIn({"connected"}) + 0 /\ JobsIn({"connected"}) \in Nat
    BY <2>2, <2>3 DEF JobsMove
  <2> QED
    BY <2>4
<1> QED
  BY <1>1, <1>2 DEF Posts

(* What calls and other threads do is not shown to the filters.            *)
LEMMA QuietShows ==
  ASSUME Inv, ~resumed, UNCHANGED <<todo, told, deleted>>, Posts, bits \subseteq bits'
  PROVE  Shows /\ Forward
<1>1. JobsIn({"connected"})' = JobsIn({"connected"})
  BY PostsQuietly DEF Inv
<1> QED
  BY <1>1 DEF Shows, Quiet, Forward

(* A step of a handler ends, fails the channel or calls a filter.          *)
LEMMA HandlerShows ==
  ASSUME Inv, ~resumed, ~deleted, NEW step, step \notin Ends \cup {"announce", "closing"}, Is(step),
         \/ Done
         \/ FailNow(<<>>)
         \/ ~Dead /\ \E call \in {"on_read", "on_write"},
                        after \in {<<>>, <<"rest">>, <<"watch">>, <<"send_remains">>} :
                       todo' = (<<call>> \o after) \o Tail(todo),
         told' = told, Posts, bits \subseteq bits',
         deleted' = deleted \/ (deleted' = TRUE /\ step \notin Callbacks)
  PROVE  Shows /\ Forward
<1>1. /\ todo # <<>> /\ Head(todo) = step
      /\ step \notin Ends /\ step # "announce" /\ step # "closing"
  BY DEF Is
<1>2. JobsIn({"connected"})' = JobsIn({"connected"})
  BY PostsQuietly DEF Inv
<1>3. Forward
  <2>1. Unannounced = 0
    BY <1>1, Announced
  <2> QED
    BY <1>1, <2>1 DEF Forward, Deletes
<1>4. CASE Done
  <2>1. Ceases
    BY <1>1, <1>2, <1>4 DEF Ceases
  <2> QED
    BY <1>3, <2>1 DEF Shows
<1>5. CASE FailNow(<<>>) /\ "error" \in bits
  <2>1. todo' = <<>> \o Tail(todo) /\ todo \in Seq(Steps)
    BY <1>5 DEF FailNow, Inv, Types
  <2>2. Done
    BY <1>1, <2>1, HeadTailProperties DEF Done
  <2>3. Ceases
    BY <1>1, <1>2, <2>2 DEF Ceases
  <2> QED
    BY <1>3, <2>3 DEF Shows
<1>6. CASE FailNow(<<>>) /\ "error" \notin bits
  <2>1. "error" \in bits' /\ todo' = (<<"on_error">> \o <<>>) \o Tail(todo)
    BY <1>6 DEF FailNow, Then
  <2>2. Calling("on_error", <<>>)
    BY <1>1, <1>2, <1>6, <2>1 DEF Calling
  <2> QED
    BY <1>3, <2>2 DEF Shows
<1>7. ASSUME ~Dead, NEW call \in {"on_read", "on_write"},
             NEW after \in {<<>>, <<"rest">>, <<"watch">>, <<"send_remains">>},
             todo' = (<<call>> \o after) \o Tail(todo)
      PROVE  Shows /\ Forward
  <2>1. Calling(call, after)
    BY <1>1, <1>2, <1>7 DEF Calling
  <2> QED
    BY <1>3, <2>1 DEF Shows
<1> QED
  BY <1>4, <1>5, <1>6, <1>7

(* Nothing is announced or told while the list is taken.                   *)
LEMMA SpliceShows ==
  ASSUME Inv, ~resumed, Splice \/ NextIteration PROVE Shows /\ Forward
<1>1. UNCHANGED <<todo, told, deleted, bits>>
  BY DEF Splice, NextIteration, state, history
<1>2. JobsIn({"connected"})' = JobsIn({"connected"})
  <2>1. CASE NextIteration
    BY <2>1 DEF NextIteration, JobsIn
  <2>2. CASE Splice
    <3>1. batch = <<>> /\ batch' = tasks /\ tasks' = <<>>
      BY <2>2 DEF Splice, Inv, Types
    <3>2. Count(<<>>, {"connected"}) = 0 /\ Count(tasks, {"connected"}) \in Nat
      BY CountEmpty, CountType DEF Inv, Types
    <3> QED
      BY <3>1, <3>2 DEF JobsIn
  <2> QED
    BY <2>1, <2>2
<1> QED
  BY <1>1, <1>2 DEF Shows, Quiet, Forward

(* A job begins its handler; that of an error calls on_error() at once.    *)
LEMMA RunJobShows ==
  ASSUME Inv, ~resumed, ~deleted, RunJob PROVE Shows /\ Forward
<1> DEFINE job == Head(batch)
<1>1. /\ Types /\ todo = <<>> /\ batch # <<>> /\ batch' = Tail(batch)
      /\ todo' = Handler(job) /\ tasks' = tasks
      /\ UNCHANGED <<bits, deleted, told>>
  BY DEF Inv, RunJob, Idle, history
<1>2. /\ job \in Jobs
      /\ JobsMove(0 - One(job \in Held), 0 - One(job = "send"), 0 - One(job = "connected"),
                  0 - One(job = "watch"), 0 - One(job = "close"), 0 - One(job = "error"))
  BY <1>1, JobTaken
<1>3. job # "connected" => Unannounced = 0
  BY <1>1, JobAnnounced
<1> HIDE DEF job
<1>4. /\ Forward /\ todo' # <<>>
      /\ Head(todo') \in {"announce", "do_write", "watch", "send_failed", "closing", "on_error"}
      /\ Head(todo') = "announce" <=> job = "connected"
      /\ Head(todo') = "on_error" <=> job = "error"
      /\ Head(todo') = "closing" <=> job = "close"
  <2>1. Forward
    BY <1>1 DEF Forward
  <2> QED
    BY <1>1, <1>2, <2>1 DEF Jobs, Handler
<1>5. /\ StepsIn({"announce"})' = One(job = "connected")
      /\ job # "close" => StepsIn({"on_closed"})' = 0
  <2>1. CASE job = "connected"
    <3>1. todo' = <<"announce">>
      BY <1>1, <2>1 DEF Handler
    <3>2. /\ Count(<<"announce">>, {"announce"}) = One("announce" \in {"announce"})
          /\ Count(<<"announce">>, {"on_closed"}) = One("announce" \in {"on_closed"})
      BY CountSingle
    <3> QED
      BY <2>1, <3>1, <3>2 DEF StepsIn, One
  <2>2. ASSUME NEW a \in Steps \ {"announce", "on_closed"}, NEW b \in Steps \ {"announce", "on_closed"},
               todo' = <<a, b>>, job # "connected"
        PROVE  StepsIn({"announce"})' = One(job = "connected") /\ StepsIn({"on_closed"})' = 0
    <3>1. /\ Count(<<a, b>>, {"announce"}) = One(a \in {"announce"}) + One(b \in {"announce"})
          /\ Count(<<a, b>>, {"on_closed"}) = One(a \in {"on_closed"}) + One(b \in {"on_closed"})
      BY CountPair
    <3> QED
      BY <2>2, <3>1 DEF StepsIn, One
  <2>3. CASE job \in {"write", "watch", "send", "error"}
    <3>1. /\ "do_write" \in Steps \ {"announce", "on_closed"} /\ "release" \in Steps \ {"announce", "on_closed"}
          /\ "watch" \in Steps \ {"announce", "on_closed"} /\ "send_failed" \in Steps \ {"announce", "on_closed"}
          /\ "give_back" \in Steps \ {"announce", "on_closed"} /\ "on_error" \in Steps \ {"announce", "on_closed"}
      BY DEF Steps, Later, Ending, Callbacks, Packets, Sendings
    <3>2. todo' \in {<<"do_write", "release">>, <<"watch", "release">>, <<"send_failed", "give_back">>,
                     <<"on_error", "release">>}
      BY <1>1, <2>3 DEF Handler
    <3> QED
      BY <2>2, <2>3, <3>1, <3>2
  <2>4. CASE job = "close"
    <3>1. todo' = <<"closing", "on_closed", "leave", "release">>
      BY <1>1, <2>4 DEF Handler
    <3>2. /\ "closing" \in Steps /\ "on_closed" \in Steps /\ "leave" \in Steps /\ "release" \in Steps
      BY DEF Steps, Later, Ending
    <3>3. Count(todo', {"announce"}) = One("closing" \in {"announce"}) + One("on_closed" \in {"announce"})
                                       + One("leave" \in {"announce"}) + One("release" \in {"announce"})
      BY <3>1, <3>2, CountFour
    <3> QED
      BY <2>4, <3>3 DEF StepsIn, One
  <2> QED
    BY <1>2, <2>1, <2>3, <2>4 DEF Jobs
<1>6. Unannounced' = Unannounced
  <2>1. /\ JobsIn({"connected"}) \in Nat /\ JobsIn({"connected"})' \in Nat
        /\ JobsIn({"connected"})' = JobsIn({"connected"}) + (0 - One(job = "connected"))
    BY <1>2 DEF JobsMove
  <2>2. StepsIn({"announce"}) = 0 /\ One(job = "connected") \in {0, 1}
    BY <1>1, CountEmpty, OnesAre DEF StepsIn
  <2> QED
    BY <1>5, <2>1, <2>2 DEF Unannounced
<1>7. ASSUME job = "error" PROVE Unannounced = 0 /\ "on_error" \notin told
  <2>1. JobsIn({"error"}) >= 1
    <3>1. /\ JobsIn({"error"}) \in Nat /\ JobsIn({"error"})' \in Nat
          /\ JobsIn({"error"})' = JobsIn({"error"}) + (0 - One(job = "error"))
      BY <1>2 DEF JobsMove
    <3>2. One(job = "error") = 1
      BY <1>7 DEF One
    <3> QED
      BY <3>1, <3>2
  <2>2. ErrorTold = 0
    BY <2>1, OneOfEach
  <2> QED
    BY <1>3, <1>7, <2>2 DEF ErrorTold, One
<1>8. Head(todo') \in Callbacks => job = "error" /\ Head(todo') = "on_error"
  BY <1>4 DEF Callbacks
<1>9. StepsIn({"on_closed"})' >= 1 => Head(todo') = "closing"
  BY <1>4, <1>5
<1>10. Begins
  BY <1>1, <1>4, <1>6, <1>7, <1>8, <1>9 DEF Begins
<1> QED
  BY <1>4, <1>10 DEF Shows
-----------------------------------------------------------------------------
(* The actions of ChannelCore.                                             *)
LEMMA ReleaseIs == ASSUME Inv, Release PROVE deleted' = deleted \/ deleted' = TRUE
<1>1. deleted' = (deleted \/ ref = 1)
  BY DEF Release
<1>2. deleted \in BOOLEAN
  BY Zenon DEF Inv, Types
<1>3. CASE ref = 1
  BY <1>1, <1>3, Zenon
<1>4. CASE ~(ref = 1)
  BY <1>1, <1>2, <1>4, Zenon
<1> QED
  BY <1>3, <1>4

LEMMA LoopShows ==
  ASSUME Inv, ~resumed, ~deleted, CoreLoopStep PROVE Shows /\ Forward
<1>1. CASE Splice \/ NextIteration
  BY <1>1, SpliceShows
<1>2. CASE RunJob
  BY <1>2, RunJobShows
<1>3. CASE FireOnClose
  <2>1. /\ todo # <<>> /\ Head(todo) = "closing" /\ bits' = bits \cup {"error"}
        /\ IF "error" \in bits THEN Done ELSE Then(<<"on_error">>)
        /\ UNCHANGED <<deleted, told, tasks, batch>>
    BY <1>3 DEF FireOnClose, Is, history
  <2>2. JobsIn({"connected"})' = JobsIn({"connected"}) /\ Forward
    BY <2>1 DEF JobsIn, Forward
  <2>3. CASE Done
    <3>1. Ceases
      BY <2>1, <2>2, <2>3 DEF Ceases, Ends
    <3> QED
      BY <2>2, <3>1 DEF Shows
  <2>4. CASE "error" \notin bits /\ Then(<<"on_error">>)
    <3>1. todo' = (<<"on_error">> \o <<>>) \o Tail(todo)
      BY <2>4 DEF Then
    <3>2. Calling("on_error", <<>>)
      BY <2>1, <2>2, <2>4, <3>1 DEF Calling, Ends
    <3> QED
      BY <2>2, <3>2 DEF Shows
  <2> QED
    BY <2>1, <2>3, <2>4
<1>4. CASE ReleaseJob
  <2>1. Is("release") /\ Done /\ Release /\ Posts /\ told' = told /\ bits' = bits
    BY <1>4 DEF ReleaseJob, Posts, history
  <2>2. "release" \notin Ends \cup {"announce", "closing"} /\ "release" \notin Callbacks
    BY DEF Ends, Callbacks
  <2> QED
    BY <2>1, <2>2, ReleaseIs, HandlerShows
<1>5. CASE CallbackReturns
  <2>1. /\ InCallback /\ Done /\ told' = told \cup ({Head(todo)} \cap Ends)
        /\ deleted' = deleted /\ bits \subseteq bits' /\ Posts
    BY <1>5 DEF CallbackReturns, close, Post, Posts, Ends
  <2>2. todo # <<>> /\ Head(todo) # "announce" /\ Head(todo) # "closing"
    BY <2>1 DEF InCallback, Idle, Callbacks
  <2>3. JobsIn({"connected"})' = JobsIn({"connected"})
    BY <2>1, PostsQuietly DEF Inv
  <2>4. Ceases /\ Forward
    BY <2>1, <2>2, <2>3 DEF Ceases, Forward
  <2> QED
    BY <2>4 DEF Shows
<1> QED
  BY <1>1, <1>2, <1>3, <1>4, <1>5 DEF CoreLoopStep

LEMMA CallShows ==
  ASSUME Inv, ~resumed, ~resumed', CoreCall PROVE Shows /\ Forward
<1>1. ~continue_read
  BY DEF continue_read
<1>2. UNCHANGED <<todo, told, deleted>> /\ bits \subseteq bits' /\ Posts
  <2>1. CASE CallbackCloses
    BY <2>1 DEF CallbackCloses, close, Post, Posts
  <2>2. CASE CallbackWrites
    BY <2>2 DEF CallbackWrites, Post, Posts
  <2>3. CASE CallbackFails
    BY <2>3 DEF CallbackFails, error_propagation, Post, Posts
  <2>4. CASE pending_read
    BY <2>4 DEF pending_read, loop, Posts
  <2>5. CASE CallbackShares
    BY <2>5 DEF CallbackShares, loop, history, Posts
  <2> QED
    BY <1>1, <2>1, <2>2, <2>3, <2>4, <2>5 DEF CoreCall
<1> QED
  BY <1>2, QuietShows

(* Another thread may give up the last reference only when the loop is in  *)
(* no handler of the channel.                                              *)
LEMMA UserShows ==
  ASSUME Inv, Inv', ~resumed, ~resumed', UserStep PROVE Shows /\ Forward
<1> PICK u \in Users : UserStarts(u) \/ UserPosts(u) \/ UserReleases(u)
  BY DEF UserStep
<1>1. CASE UserStarts(u)
  <2>1. UNCHANGED <<todo, told, deleted>> /\ bits \subseteq bits' /\ Posts
    BY <1>1 DEF UserStarts, loop, Posts
  <2> QED
    BY <2>1, QuietShows
<1>2. CASE UserPosts(u)
  <2>1. UNCHANGED <<todo, told, deleted>> /\ bits \subseteq bits' /\ Posts
    BY <1>2 DEF UserPosts, history, Post, Posts
  <2> QED
    BY <2>1, QuietShows
<1>3. CASE UserReleases(u)
  <2>1. UNCHANGED <<todo, told, bits>> /\ Posts /\ upc[u] = "idle" /\ Release
    BY <1>3 DEF UserReleases, loop, history, Posts
  <2>2. CASE deleted' = deleted
    BY <2>1, <2>2, QuietShows
  <2>3. CASE deleted' = TRUE
    <3>1. todo = <<>>
      BY <2>1, <2>3 DEF Inv, Gone
    <3>2. Unannounced = 0
      <4>1. upc[u] \in Busy
        BY <2>1 DEF Busy
      <4>2. ThreadsIn(Busy) >= 1
        BY <4>1, BusyIsHeld
      <4> QED
        BY <4>2, HolderAnnounced
    <3>3. JobsIn({"connected"})' = JobsIn({"connected"})
      BY <2>1, PostsQuietly DEF Inv
    <3> QED
      BY <2>1, <2>3, <3>1, <3>2, <3>3 DEF Shows, Quiet, Forward, Deletes
  <2> QED
    BY <2>1, <2>2, <2>3, ReleaseIs
<1> QED
  BY <1>1, <1>2, <1>3
-----------------------------------------------------------------------------
(* A step of a handler of the socket ends, fails or calls a filter.        *)
LEMMA SocketShows ==
  ASSUME Inv, ~resumed, ~deleted,
         NEW step \in {"recv_data", "recv_failed", "sent", "send_failed", "watch", "do_write",
                       "send_remains", "readable", "give_back", "leave"},
         Is(step),
         \/ Done /\ bits \subseteq bits'
         \/ FailNow(<<>>)
         \/ ~Dead /\ bits' = bits
              /\ \E call \in {"on_read", "on_write"},
                    after \in {<<>>, <<"rest">>, <<"watch">>, <<"send_remains">>} :
                   todo' = (<<call>> \o after) \o Tail(todo),
         told' = told, Posts, deleted' = deleted \/ deleted' = TRUE
  PROVE  Shows /\ Forward
<1>1. step \notin Ends \cup {"announce", "closing"} /\ step \notin Callbacks
  BY DEF Ends, Callbacks
<1>2. bits \subseteq bits'
  BY DEF FailNow
<1> QED
  BY <1>1, <1>2, HandlerShows

(* A packet begins its handler.                                            *)
LEMMA PacketShows ==
  ASSUME Inv, ~resumed, ~deleted, todo = <<>>, NEW packet \in Packets, todo' = <<packet, "give_back">>,
         UNCHANGED <<bits, deleted, told, tasks, batch>>
  PROVE  Shows /\ Forward
<1>1. packet \in Steps \ Callbacks /\ "give_back" \in Steps
  BY DEF Steps, Later, Ending, Packets, Receipts, Sendings, Callbacks
<1>2. packet \notin {"announce", "on_closed"} /\ "give_back" \notin {"announce", "on_closed"}
  BY DEF Packets, Receipts, Sendings
<1>3. StepsIn({"announce"})' = 0 /\ StepsIn({"on_closed"})' = 0
  <2>1. /\ Count(todo', {"announce"}) = One(packet \in {"announce"}) + One("give_back" \in {"announce"})
        /\ Count(todo', {"on_closed"}) = One(packet \in {"on_closed"}) + One("give_back" \in {"on_closed"})
    BY <1>1, CountPair
  <2> QED
    BY <1>2, <2>1 DEF StepsIn, One
<1>4. StepsIn({"announce"}) = 0
  BY CountEmpty DEF StepsIn
<1>5. todo' # <<>> /\ Head(todo') = packet /\ Unannounced' = Unannounced
  BY <1>3, <1>4 DEF Unannounced, JobsIn
<1>6. Begins
  BY <1>1, <1>3, <1>5 DEF Begins
<1> QED
  BY <1>6 DEF Shows, Forward
-----------------------------------------------------------------------------
(* The actions of the two modules.                                         *)
LEMMA OpensShow ==
  ASSUME Inv, ~resumed, ~deleted, OfTcp(Tcp!FireOnConnected) \/ OfUdp(Udp!FireOnOpen)
  PROVE  Shows /\ Forward
<1>1. /\ Is("announce") /\ told' = told /\ own' = own + 1 /\ deleted' = deleted
      /\ bits \subseteq bits'
      /\ Then(<<"on_connected">>) \/ Then(<<"on_connected", "watch">>)
  BY SharedSteps, SharedVariables DEF OfTcp, OfUdp, Tcp!FireOnConnected, Udp!FireOnOpen, history
<1>2. todo = <<"announce">>
  <2>1. StepsIn({"announce"}) >= 1
    BY <1>1, HeadCounts DEF Inv, Is
  <2>2. JobsIn({"connected"}) \in Nat /\ StepsIn({"announce"}) \in Nat
    BY NumbersAre DEF Inv
  <2>3. Unannounced >= 1
    BY <2>1, <2>2 DEF Unannounced
  <2> QED
    BY <1>1, <2>3 DEF Inv, Untouched, Is
<1>3. todo' \in {<<"on_connected">>, <<"on_connected", "watch">>}
  BY <1>1, <1>2 DEF Then
<1> QED
  BY <1>1, <1>3 DEF Shows, Announces, Forward

LEMMA TcpLoopShows ==
  ASSUME Inv, ~resumed, ~deleted, OfTcp(Tcp!LoopStep) PROVE Shows /\ Forward
<1>1. CASE Tcp!CoreLoopStep
  BY <1>1, SharedLoopSteps, LoopShows
<1>2. CASE Tcp!TakePacket
  <2>1. /\ todo = <<>> /\ port # <<>> /\ todo' = <<Head(port), "give_back">>
        /\ UNCHANGED <<bits, deleted, told, tasks, batch>>
    BY <1>2, SharedSteps, SharedVariables DEF Tcp!TakePacket, state, history, Idle
  <2>2. Head(port) \in Packets
    BY <2>1, HeadTailProperties DEF Inv, Types
  <2> QED
    BY <2>1, <2>2, PacketShows
<1>3. CASE Tcp!TakeNothing
  <2>1. UNCHANGED <<todo, told, deleted, bits, tasks, batch>>
    BY <1>3, SharedVariables DEF Tcp!TakeNothing, state, history
  <2> QED
    BY <2>1, QuietShows DEF Posts
<1>4. CASE Tcp!FireOnConnected
  <2>1. OfTcp(Tcp!FireOnConnected)
    BY <1>4 DEF OfTcp
  <2> QED
    BY <2>1, OpensShow
<1>5. CASE Tcp!DoRecv
  <2>1. /\ Is("watch") /\ ((Done /\ bits' = bits) \/ FailNow(<<>>))
        /\ told' = told /\ Posts /\ deleted' = deleted
    BY <1>5, SharedSteps, SharedVariables DEF Tcp!DoRecv, history, Posts
  <2> QED
    BY <2>1, SocketShows
<1>6. CASE Tcp!FireDoWrite \/ Tcp!SendRemains
  <2>1. /\ Is("do_write") \/ Is("send_remains")
        /\ Done /\ bits' = bits /\ told' = told /\ Posts /\ deleted' = deleted
    BY <1>6, SharedSteps, SharedVariables DEF Tcp!FireDoWrite, Tcp!do_write, Tcp!SendRemains,
       Tcp!send_remains, history, Posts
  <2> QED
    BY <2>1, SocketShows
<1>7. CASE Tcp!HandleRecv
  <2>1. /\ Is("recv_data") /\ (IF Dead THEN Done ELSE Then(<<"on_read", "watch">>))
        /\ bits' = bits /\ told' = told /\ Posts /\ deleted' = deleted
    BY <1>7, SharedSteps, SharedVariables DEF Tcp!HandleRecv, state, history, Posts
  <2>2. Then(<<"on_read", "watch">>) => todo' = (<<"on_read">> \o <<"watch">>) \o Tail(todo)
    BY PairIs DEF Then
  <2> QED
    BY <2>1, <2>2, SocketShows
<1>8. CASE Tcp!HandleRecvFailed \/ Tcp!HandleSendFailed
  <2>1. /\ Is("recv_failed") \/ Is("send_failed")
        /\ (Done /\ bits' = bits) \/ FailNow(<<>>)
        /\ told' = told /\ Posts /\ deleted' = deleted
    BY <1>8, SharedSteps, SharedVariables DEF Tcp!HandleRecvFailed, Tcp!HandleSendFailed, history, Posts
  <2> QED
    BY <2>1, SocketShows
<1>9. CASE Tcp!HandleSend
  <2>1. /\ Is("sent") /\ bits' = bits /\ told' = told /\ Posts /\ deleted' = deleted
        /\ IF Dead THEN Done
           ELSE \E n \in 0 .. inflight :
                  Then(<<"on_write">> \o IF n < sendq THEN <<"send_remains">> ELSE <<>>)
    BY <1>9, SharedSteps, SharedVariables DEF Tcp!HandleSend, state, history, Posts
  <2>2. CASE Dead
    BY <2>1, <2>2, SocketShows
  <2>3. CASE ~Dead
    <3>1. PICK n \in 0 .. inflight :
            Then(<<"on_write">> \o IF n < sendq THEN <<"send_remains">> ELSE <<>>)
      BY <2>1, <2>3
    <3>2. todo' = (<<"on_write">> \o <<"send_remains">>) \o Tail(todo)
          \/ todo' = (<<"on_write">> \o <<>>) \o Tail(todo)
      BY <3>1 DEF Then
    <3> QED
      BY <2>1, <2>3, <3>2, SocketShows
  <2> QED
    BY <2>2, <2>3
<1>10. CASE Tcp!GiveBack \/ Tcp!Leave
  <2>1. /\ Is("give_back") \/ Is("leave")
        /\ Done /\ Release /\ bits' = bits /\ told' = told /\ Posts
    BY <1>10, SharedSteps, SharedVariables DEF Tcp!GiveBack, Tcp!Leave, history, Posts
  <2> QED
    BY <2>1, ReleaseIs, SocketShows
<1> QED
  BY <1>1, <1>2, <1>3, <1>4, <1>5, <1>6, <1>7, <1>8, <1>9, <1>10 DEF OfTcp, Tcp!LoopStep

LEMMA UdpLoopShows ==
  ASSUME Inv, ~resumed, ~deleted, OfUdp(Udp!LoopStep) PROVE Shows /\ Forward
<1>1. CASE Udp!CoreLoopStep
  BY <1>1, SharedLoopSteps, LoopShows
<1>2. CASE Udp!TakePacket
  <2>1. /\ todo = <<>> /\ port # <<>> /\ todo' = <<Head(port), "give_back">>
        /\ UNCHANGED <<bits, deleted, told, tasks, batch>>
    BY <1>2, SharedSteps, SharedVariables DEF Udp!TakePacket, state, history, Idle
  <2>2. Head(port) \in Packets
    BY <2>1, HeadTailProperties DEF Inv, Types
  <2> QED
    BY <2>1, <2>2, PacketShows
<1>3. CASE Udp!TakeNothing
  <2>1. UNCHANGED <<todo, told, deleted, bits, tasks, batch>>
    BY <1>3, SharedVariables DEF Udp!TakeNothing, state, history
  <2> QED
    BY <2>1, QuietShows DEF Posts
<1>4. CASE Udp!FireOnOpen
  <2>1. OfUdp(Udp!FireOnOpen)
    BY <1>4 DEF OfUdp
  <2> QED
    BY <2>1, OpensShow
<1>5. CASE Udp!DoRecv
  <2>1. /\ Is("watch") /\ ((Done /\ bits' = bits) \/ FailNow(<<>>))
        /\ told' = told /\ Posts /\ deleted' = deleted
    BY <1>5, SharedSteps, SharedVariables DEF Udp!DoRecv, history, Posts
  <2> QED
    BY <2>1, SocketShows
<1>6. CASE Udp!RegisterHandle
  <2>1. /\ Is("watch") /\ Done /\ bits \subseteq bits'
        /\ told' = told /\ Posts /\ deleted' = deleted
    BY <1>6, SharedSteps, SharedVariables DEF Udp!RegisterHandle, Udp!register_handle,
       error_propagation, Post, history, Posts
  <2> QED
    BY <2>1, SocketShows
<1>7. CASE Udp!HandleRecv
  <2>1. /\ Is("recv_data") /\ (IF Dead THEN Done ELSE Then(<<"on_read", "watch">>))
        /\ bits' = bits /\ told' = told /\ Posts /\ deleted' = deleted
    BY <1>7, SharedSteps, SharedVariables DEF Udp!HandleRecv, state, history, Posts
  <2>2. Then(<<"on_read", "watch">>) => todo' = (<<"on_read">> \o <<"watch">>) \o Tail(todo)
    BY PairIs DEF Then
  <2> QED
    BY <2>1, <2>2, SocketShows
<1>8. CASE Udp!HandleRecvFailed
  <2>1. /\ Is("recv_failed") /\ ((Done /\ bits' = bits) \/ FailNow(<<>>))
        /\ told' = told /\ Posts /\ deleted' = deleted
    BY <1>8, SharedSteps, SharedVariables DEF Udp!HandleRecvFailed, history, Posts
  <2> QED
    BY <2>1, SocketShows
<1>9. CASE Udp!HandleReadable
  <2>1. /\ Is("readable")
        /\ \/ Done /\ bits' = bits
           \/ bits = {} /\ Then(<<"on_read">>) /\ bits' = bits
           \/ FailNow(<<>>)
        /\ told' = told /\ Posts /\ deleted' = deleted
    BY <1>9, SharedSteps, SharedVariables DEF Udp!HandleReadable, history, Posts
  <2>2. /\ bits = {} => ~Dead
        /\ Then(<<"on_read">>) => todo' = (<<"on_read">> \o <<>>) \o Tail(todo)
    BY DEF Dead, Then
  <2> QED
    BY <2>1, <2>2, SocketShows
<1>10. CASE Udp!GiveBack \/ Udp!Leave
  <2>1. /\ Is("give_back") \/ Is("leave")
        /\ Done /\ Release /\ bits' = bits /\ told' = told /\ Posts
    BY <1>10, SharedSteps, SharedVariables DEF Udp!GiveBack, Udp!Leave, history, Posts
  <2> QED
    BY <2>1, ReleaseIs, SocketShows
<1>11. CASE Udp!FireDoWrite
  <2>1. /\ Is("do_write") /\ told' = told /\ deleted' = deleted
        /\ \/ Done /\ UNCHANGED <<bits, tasks, batch>>
           \/ FailNow(<<>>) /\ UNCHANGED <<tasks, batch>>
           \/ todo' = <<>> \o Tail(todo) /\ error_propagation /\ batch' = batch
    BY <1>11, SharedSteps, SharedVariables DEF Udp!FireDoWrite, Udp!WriteFails, history
  <2>2. todo' = <<>> \o Tail(todo) => Done
    BY <2>1, HeadTailProperties DEF Done, Is, Inv, Types
  <2>3. error_propagation /\ batch' = batch => bits \subseteq bits' /\ Posts
    BY DEF error_propagation, Post, Posts
  <2>4. UNCHANGED <<tasks, batch>> => Posts
    BY DEF Posts
  <2> QED
    BY <2>1, <2>2, <2>3, <2>4, SocketShows
<1>12. CASE Udp!PollEvent
  <2>1. /\ todo = <<>> /\ active = 1 /\ platform = "linux" /\ kind = "udp"
        /\ UNCHANGED <<deleted, told, tasks, batch>> /\ bits \subseteq bits'
        /\ \/ todo' = todo
           \/ ~Dead /\ todo' = <<"on_error">>
           \/ todo' = <<"readable", "watch">>
    BY <1>12, SharedSteps, SharedVariables DEF OfUdp, Udp!PollEvent, history, Idle
  <2>2. CASE todo' = todo
    BY <2>1, <2>2, QuietShows DEF Posts
  <2>3. Forward
    BY <2>1 DEF Forward
  <2>4. StepsIn({"announce"}) = 0
    BY <2>1, CountEmpty DEF StepsIn
  <2>5. CASE ~Dead /\ todo' = <<"on_error">>
    <3>1. Unannounced = 0
      <4>1. active = own
        BY <2>1 DEF Inv, Counted, OnLinux
      <4>2. own >= 1
        BY <2>1, <4>1
      <4> QED
        BY <4>2, CountedAnnounced
    <3>2. "on_error" \notin told
      <4>1. ErrorTold = 0
        BY <2>5, OneOfEach DEF Dead
      <4> QED
        BY <4>1 DEF ErrorTold, One
    <3>3. StepsIn({"announce"})' = 0 /\ StepsIn({"on_closed"})' = 0
      <4>1. /\ Count(<<"on_error">>, {"announce"}) = One("on_error" \in {"announce"})
            /\ Count(<<"on_error">>, {"on_closed"}) = One("on_error" \in {"on_closed"})
        BY CountSingle
      <4> QED
        BY <2>5, <4>1 DEF StepsIn, One
    <3>4. Begins
      BY <2>1, <2>4, <2>5, <3>1, <3>2, <3>3 DEF Begins, Unannounced, JobsIn
    <3> QED
      BY <2>3, <3>4 DEF Shows
  <2>6. CASE todo' = <<"readable", "watch">>
    <3>1. "readable" \in Steps /\ "watch" \in Steps
      BY DEF Steps, Later
    <3>2. StepsIn({"announce"})' = 0 /\ StepsIn({"on_closed"})' = 0
      <4>1. /\ Count(todo', {"announce"}) = One("readable" \in {"announce"}) + One("watch" \in {"announce"})
            /\ Count(todo', {"on_closed"}) = One("readable" \in {"on_closed"}) + One("watch" \in {"on_closed"})
        BY <2>6, <3>1, CountPair
      <4> QED
        BY <4>1 DEF StepsIn, One
    <3>3. Begins
      BY <2>1, <2>4, <2>6, <3>2 DEF Begins, Unannounced, JobsIn, Callbacks
    <3> QED
      BY <2>3, <3>3 DEF Shows
  <2> QED
    BY <2>1, <2>2, <2>5, <2>6
<1> QED
  BY <1>1, <1>2, <1>3, <1>4, <1>5, <1>6, <1>7, <1>8, <1>9, <1>10, <1>11, <1>12 DEF OfUdp, Udp!LoopStep

(* A write in a callback may fail inside it: on_error() is called, unless  *)
(* one of the last callbacks is in progress, and then nothing is written.  *)
LEMMA WritesShow ==
  ASSUME Inv, ~resumed, ~deleted, OfUdp(Udp!CallbackWritesDirectly) PROVE Shows /\ Forward
<1>1. /\ InCallback /\ ~Dead /\ todo # <<>> /\ Head(todo) \in Callbacks \cup {"rest"}
      /\ UNCHANGED <<told, deleted, batch>>
      /\ \/ FailNow(<<"rest">>) /\ tasks' = tasks
         \/ todo' = <<Head(todo)>> \o Tail(todo) /\ error_propagation
  <2>1. /\ InCallback /\ ~Dead /\ UNCHANGED <<told, deleted, batch>>
        /\ \/ FailNow(<<"rest">>) /\ tasks' = tasks
           \/ todo' = <<Head(todo)>> \o Tail(todo) /\ error_propagation
    BY SharedSteps DEF OfUdp, Udp!CallbackWritesDirectly, Udp!WriteFails
  <2> QED
    BY <2>1, InCallbackIs
<1>2. CASE todo' = <<Head(todo)>> \o Tail(todo) /\ error_propagation
  <2>1. todo' = todo
    <3>1. todo \in Seq(Steps)
      BY DEF Inv, Types
    <3>2. todo = <<Head(todo)>> \o Tail(todo)
      BY <1>1, <3>1
    <3> QED
      BY <1>2, <3>2
  <2>2. bits \subseteq bits' /\ Posts
    BY <1>1, <1>2 DEF error_propagation, Post, Posts
  <2> QED
    BY <1>1, <2>1, <2>2, QuietShows
<1>3. CASE FailNow(<<"rest">>) /\ tasks' = tasks
  <2>1. "error" \notin bits /\ "close" \notin bits
    BY <1>1 DEF Dead
  <2>2. bits' = bits \cup {"error"} /\ todo' = (<<"on_error">> \o <<"rest">>) \o Tail(todo)
    BY <1>3, <2>1 DEF FailNow, Then
  <2>3. Head(todo) \notin Ends
    <3>1. StepsIn({"on_error"}) = 0 /\ StepsIn({"on_closed"}) = 0
      BY <2>1, OneOfEach
    <3>2. \A c : Head(todo) = c => StepsIn({c}) >= 1
      <4> TAKE c
      <4> HAVE Head(todo) = c
      <4>1. Head(todo) \in {c}
        OBVIOUS
      <4> QED
        BY <1>1, <4>1, HeadCounts DEF Inv
    <3> QED
      BY <3>1, <3>2 DEF Ends
  <2>4. JobsIn({"connected"})' = JobsIn({"connected"})
    BY <1>1, <1>3 DEF JobsIn
  <2>5. Calling("on_error", <<"rest">>)
    BY <1>1, <2>1, <2>2, <2>3, <2>4 DEF Calling, Callbacks
  <2> QED
    BY <1>1, <2>2, <2>5 DEF Shows, Forward
<1> QED
  BY <1>1, <1>2, <1>3

LEMMA NextShows ==
  ASSUME Inv, Inv', ~resumed, ~resumed', [Next]_vars PROVE Shows /\ Forward
<1>1. CASE UNCHANGED vars
  <2>1. UNCHANGED <<todo, told, deleted, bits, tasks, batch>>
    BY <1>1 DEF vars, coreVars, state, loop, history
  <2> QED
    BY <2>1, QuietShows DEF Posts
<1>2. CASE OfTcp(Tcp!Next)
  <2>1. Tcp!Next /\ kind = "tcp" /\ UNCHANGED <<kind, udpOnly>>
    BY <1>2 DEF OfTcp
  <2>2. CASE ~deleted /\ Tcp!LoopStep
    <3>1. OfTcp(Tcp!LoopStep)
      BY <2>1, <2>2 DEF OfTcp
    <3> QED
      BY <2>2, <3>1, TcpLoopShows
  <2>3. CASE Tcp!CallbackWritesDirectly
    <3>1. UNCHANGED <<todo, told, deleted, bits>> /\ Posts
      BY <2>3, SharedSteps DEF Tcp!CallbackWritesDirectly, Tcp!do_write, Tcp!send_remains, Posts
    <3> QED
      BY <3>1, QuietShows
  <2>4. CASE Tcp!CoreCall
    BY <2>4, SharedCalls, CallShows
  <2>5. CASE Tcp!Kernel
    <3>1. UNCHANGED <<todo, told, deleted, bits, tasks, batch>>
      BY <2>5, SharedVariables DEF Tcp!Kernel, Tcp!RecvCompletes, Tcp!SendCompletes, coreVars, state, loop,
         history
    <3> QED
      BY <3>1, QuietShows DEF Posts
  <2>6. CASE Tcp!UserStep
    BY <2>6, SharedUserSteps, UserShows
  <2> QED
    BY <2>1, <2>2, <2>3, <2>4, <2>5, <2>6 DEF Tcp!Next
<1>3. CASE OfUdp(Udp!Next)
  <2>1. Udp!Next /\ kind = "udp" /\ UNCHANGED <<kind, tcpOnly>>
    BY <1>3 DEF OfUdp
  <2>2. CASE ~deleted /\ Udp!LoopStep
    <3>1. OfUdp(Udp!LoopStep)
      BY <2>1, <2>2 DEF OfUdp
    <3> QED
      BY <2>2, <3>1, UdpLoopShows
  <2>3. CASE ~deleted /\ Udp!CallbackWritesDirectly
    <3>1. OfUdp(Udp!CallbackWritesDirectly)
      BY <2>1, <2>3 DEF OfUdp
    <3> QED
      BY <2>3, <3>1, WritesShow
  <2>4. CASE Udp!CoreCall
    BY <2>4, SharedCalls, CallShows
  <2>5. CASE Udp!DatagramArrives \/ Udp!RecvCompletes
    <3>1. UNCHANGED <<todo, told, deleted, bits, tasks, batch>>
      BY <2>5, SharedVariables DEF Udp!DatagramArrives, Udp!RecvCompletes, coreVars, state, loop, history
    <3> QED
      BY <3>1, QuietShows DEF Posts
  <2>6. CASE Udp!UserStep
    BY <2>6, SharedUserSteps, UserShows
  <2> QED
    BY <2>1, <2>2, <2>3, <2>4, <2>5, <2>6 DEF Udp!Next
<1> QED
  BY <1>1, <1>2, <1>3 DEF Next

(* continue_read() has been called for good.                               *)
LEMMA ResumedStays == ASSUME [Next]_vars, resumed PROVE resumed'
<1>1. CASE UNCHANGED vars
  BY <1>1 DEF vars, coreVars, history
<1>2. ASSUME CoreLoopStep \/ CoreCall \/ UserStep PROVE resumed'
  BY <1>2 DEF CoreLoopStep, CoreCall, UserStep, Splice, NextIteration, RunJob, FireOnClose, ReleaseJob,
     CallbackReturns, CallbackCloses, CallbackWrites, CallbackFails, pending_read, continue_read,
     CallbackShares, UserStarts, UserPosts, UserReleases, history
<1>3. CASE OfTcp(Tcp!Next)
  <2>1. ASSUME Tcp!LoopStep, ~Tcp!CoreLoopStep PROVE resumed'
    BY <2>1, SharedVariables DEF Tcp!LoopStep, Tcp!TakePacket, Tcp!TakeNothing, Tcp!FireOnConnected,
       Tcp!DoRecv, Tcp!FireDoWrite, Tcp!HandleRecv, Tcp!HandleRecvFailed, Tcp!HandleSend,
       Tcp!HandleSendFailed, Tcp!SendRemains, Tcp!GiveBack, Tcp!Leave, history
  <2>2. ASSUME Tcp!CallbackWritesDirectly \/ Tcp!Kernel PROVE resumed'
    BY <2>2, SharedVariables DEF Tcp!CallbackWritesDirectly, Tcp!Kernel, Tcp!RecvCompletes,
       Tcp!SendCompletes, coreVars, history
  <2> QED
    BY <1>2, <1>3, <2>1, <2>2, SharedLoopSteps, SharedCalls, SharedUserSteps DEF OfTcp, Tcp!Next
<1>4. CASE OfUdp(Udp!Next)
  <2>1. ASSUME Udp!LoopStep, ~Udp!CoreLoopStep PROVE resumed'
    BY <2>1, SharedVariables DEF Udp!LoopStep, Udp!TakePacket, Udp!TakeNothing, Udp!FireOnOpen,
       Udp!DoRecv, Udp!FireDoWrite, Udp!HandleRecv, Udp!HandleRecvFailed, Udp!HandleReadable,
       Udp!RegisterHandle, Udp!PollEvent, Udp!GiveBack, Udp!Leave, history
  <2>2. ASSUME Udp!CallbackWritesDirectly \/ Udp!DatagramArrives \/ Udp!RecvCompletes PROVE resumed'
    BY <2>2, SharedVariables DEF Udp!CallbackWritesDirectly, Udp!DatagramArrives, Udp!RecvCompletes,
       coreVars, history
  <2> QED
    BY <1>2, <1>4, <2>1, <2>2, SharedLoopSteps, SharedCalls, SharedUserSteps DEF OfUdp, Udp!Next
<1> QED
  BY <1>1, <1>3, <1>4 DEF Next
-----------------------------------------------------------------------------
LEMMA InitEnded == ASSUME Init PROVE Ended /\ Contract!Init
<1>1. /\ bits = {} /\ deleted = FALSE /\ batch = <<>> /\ told = {} /\ resumed = FALSE
      /\ \/ tasks = <<"connected">> /\ todo = <<>>
         \/ tasks = <<>> /\ todo = <<"announce">>
  <2>1. CASE kind = "tcp" /\ Tcp!Init
    BY <2>1 DEF Tcp!Init, Tcp!CoreInit
  <2>2. CASE kind = "udp" /\ Udp!Init
    BY <2>2 DEF Udp!Init, Udp!CoreInit
  <2> QED
    BY <2>1, <2>2 DEF Init
<1>2. /\ Count(<<>>, {"on_closed"}) = 0 /\ Count(<<>>, {"connected"}) = 0 /\ Count(<<>>, {"announce"}) = 0
      /\ Count(<<"announce">>, {"on_closed"}) = 0 /\ Count(<<"announce">>, {"announce"}) = 1
      /\ Count(<<"connected">>, {"connected"}) = 1
  <2>1. \A x, y : Count(<<x>>, {y}) = One(x = y)
    <3> TAKE x, y
    <3>1. Count(<<x>>, {y}) = One(x \in {y})
      BY CountSingle
    <3> QED
      BY <3>1, OneOfSingle
  <2> QED
    BY <2>1, CountEmpty DEF One
<1>3. StepsIn({"on_closed"}) = 0 /\ Unannounced = 1
  BY <1>1, <1>2 DEF StepsIn, JobsIn, Unannounced
<1>4. Ended
  BY <1>1, <1>3 DEF Ended
<1>5. Callback = "none" /\ Begun = {}
  BY <1>1, <1>3 DEF Callback, Idle, Callbacks, Begun, Is, Ends
<1>6. Types
  BY InitInv DEF Inv
<1>7. Contract!Init
  BY <1>1, <1>5, <1>6, BegunIs DEF Contract!Init, Callback
<1> QED
  BY <1>4, <1>7

LEMMA NextContract ==
  ASSUME Inv, Ended, [Next]_vars
  PROVE  Ended' /\ [Contract!Next \/ resumed']_(Contract!vars)
<1>1. Inv'
  BY NextInv
<1>2. CASE resumed'
  BY <1>2 DEF Ended
<1>3. CASE ~resumed'
  <2>1. ~resumed
    BY <1>3, ResumedStays
  <2>2. Shows /\ Forward
    BY <1>1, <1>3, <2>1, NextShows
  <2>3. Ended'
    BY <2>2, ShowsEnded
  <2> QED
    BY <1>1, <1>3, <2>2, <2>3, ShowsContract
<1> QED
  BY <1>2, <1>3

(* Both kinds of channel keep what every channel promises its filters: each*)
(* step of the loop, of the filters, of other threads and of the kernel is *)
(* a step of the contract or shows the filters nothing, even if a failed   *)
(* write calls on_error() inside another callback, until continue_read()   *)
(* is called.                                                              *)
THEOREM KeepsContractTheorem == Spec => KeepsContract
<1>1. Init => Inv /\ Ended /\ Contract!Init
  BY InitInv, InitEnded
<1>2. Inv /\ Ended /\ [Next]_vars =>
        Inv' /\ Ended' /\ [Contract!Next \/ resumed']_(Contract!vars)
  BY NextInv, NextContract
<1> QED
  BY <1>1, <1>2, PTL DEF Spec, KeepsContract
=============================================================================
