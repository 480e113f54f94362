---------------------------- MODULE BuffersProofs ----------------------------
(***************************************************************************)
(* Proofs about the two uses of buffers, for any messages, room and array  *)
(* of buffers (SendRemains) and for any blocks, sizes and steps of several *)
(* threads (MemoryBlock).                                                  *)
(*                                                                         *)
(* Conserved holds between two calls only: inside of _send_remains() the   *)
(* bytes of the last writev() are on their way and still in the queue,     *)
(* which SendInv says.  CountsHolders needs to know what each block may do *)
(* next, which BlockInv says: a block that is about to write has its       *)
(* buffer for itself, with room for the bytes.                             *)
(***************************************************************************)
EXTENDS MCBuffers, CountingTheorems, WellFoundedInduction

(* A set of numbers has a least one: how a fact about each part of a       *)
(* sequence is proved here.                                                *)
LEMMA SmallestIn ==
  ASSUME NEW S \in SUBSET Nat, S # {}
  PROVE  \E n \in S : \A m \in S : n <= m
<1>1. PICK n \in S : \A m \in S : ~ (<<m, n>> \in OpToRel(<, Nat))
  BY NatLessThanWellFounded, WFMin
<1>2. ASSUME NEW m \in S PROVE n <= m
  <2>1. ~ (m < n)
    BY <1>1 DEF OpToRel
  <2> QED
    BY <2>1
<1> QED
  BY <1>2

(* f holds the first i of q's members, joined, for each i up to n.         *)
Joins(f, q, n) ==
  f = [i \in 1 .. n |-> IF i = 1 THEN q[i] ELSE f[i - 1] \o q[i]]

LEMMA JoinsFirst == \A q : \E f : Joins(f, q, 1)
<1> SUFFICES ASSUME NEW q PROVE \E f : Joins(f, q, 1)
  OBVIOUS
<1>1. \A i \in 1 .. 1 : i = 1
  OBVIOUS
<1>2. Joins([i \in 1 .. 1 |-> q[i]], q, 1)
  BY <1>1 DEF Joins
<1> QED
  BY <1>2

LEMMA JoinsAt ==
  ASSUME NEW q, NEW n \in Nat, NEW f, Joins(f, q, n), NEW i \in 1 .. n
  PROVE  f[i] = IF i = 1 THEN q[i] ELSE f[i - 1] \o q[i]
BY DEF Joins

JoinsAll(f, q, n) == \A i \in 1 .. n : f[i] = IF i = 1 THEN q[i] ELSE f[i - 1] \o q[i]

LEMMA JoinsEach ==
  ASSUME NEW q, NEW n \in Nat, NEW f, Joins(f, q, n)
  PROVE  JoinsAll(f, q, n)
BY JoinsAt DEF JoinsAll

LEMMA JoinsNext ==
  ASSUME NEW q, NEW n \in Nat \ {0, 1}, NEW f, Joins(f, q, n - 1)
  PROVE  \E g : Joins(g, q, n)
<1> DEFINE g == [i \in 1 .. n |-> IF i = n THEN f[n - 1] \o q[n] ELSE f[i]]
<1>1. \A i \in 1 .. n : g[i] = IF i = 1 THEN q[i] ELSE g[i - 1] \o q[i]
  <2> SUFFICES ASSUME NEW i \in 1 .. n
               PROVE  g[i] = IF i = 1 THEN q[i] ELSE g[i - 1] \o q[i]
    OBVIOUS
  <2>1. CASE i = n
    <3>1. n - 1 \in 1 .. n /\ n - 1 # n
      OBVIOUS
    <3> QED
      BY <2>1, <3>1
  <2>2. CASE i # n
    <3>1. i \in 1 .. n - 1 /\ n - 1 \in Nat
      BY <2>2
    <3>2. f[i] = IF i = 1 THEN q[i] ELSE f[i - 1] \o q[i]
      BY <3>1, JoinsAt
    <3>3. i # 1 => i - 1 \in 1 .. n /\ i - 1 # n
      OBVIOUS
    <3> QED
      BY <2>2, <3>2, <3>3
  <2> QED
    BY <2>1, <2>2
<1>2. g = [i \in 1 .. n |-> IF i = 1 THEN q[i] ELSE g[i - 1] \o q[i]]
  <2>1. g = [i \in 1 .. n |-> g[i]]
    OBVIOUS
  <2> HIDE DEF g
  <2> QED
    BY <1>1, <2>1
<1>3. Joins(g, q, n)
  BY <1>2 DEF Joins
<1> QED
  BY <1>3

LEMMA JoinsSome ==
  ASSUME NEW q, NEW k \in Nat \ {0}
  PROVE  \E f : Joins(f, q, k)
<1> DEFINE Bad == {n \in Nat \ {0} : \A f : ~ Joins(f, q, n)}
<1> SUFFICES ASSUME k \in Bad PROVE FALSE
  OBVIOUS
<1>1. Bad \in SUBSET Nat /\ Bad # {}
  OBVIOUS
<1>2. PICK n \in Bad : \A m \in Bad : n <= m
  <2> HIDE DEF Bad
  <2> QED
    BY <1>1, SmallestIn
<1>3. n \in Nat \ {0, 1}
  BY JoinsFirst
<1>4. n - 1 \in Nat \ {0} /\ ~ (n <= n - 1)
  BY <1>3
<1>5. PICK f : Joins(f, q, n - 1)
  BY <1>2, <1>4
<1> QED
  BY <1>3, <1>5, JoinsNext

LEMMA FlattenJoins ==
  ASSUME NEW T, NEW q \in Seq(T), q # <<>>
  PROVE  \E f : Joins(f, q, Len(q)) /\ FlattenSeq(q) = f[Len(q)]
<1>1. Len(q) \in Nat \ {0}
  BY EmptySeq, LenProperties
<1> DEFINE c == CHOOSE f : f = [i \in 1 .. Len(q) |-> IF i = 1 THEN q[i] ELSE f[i - 1] \o q[i]]
<1>2. Joins(c, q, Len(q))
  BY <1>1, JoinsSome DEF Joins
<1>3. FlattenSeq(q) = c[Len(q)]
  BY <1>1 DEF FlattenSeq
<1> QED
  BY <1>2, <1>3

LEMMA FlattenEmpty == FlattenSeq(<<>>) = <<>>
BY DEF FlattenSeq

(* f and g agree on 1 .. n. *)
Alike(f, g, n) == \A i \in 1 .. n : f[i] = g[i]

(* Two such functions for sequences that begin alike begin alike.          *)
LEMMA JoinsAgree ==
  ASSUME NEW p, NEW q, NEW m \in Nat, NEW n \in Nat, NEW k \in Nat, k <= m, k <= n,
         NEW f, Joins(f, p, m), NEW g, Joins(g, q, n),
         \A i \in 1 .. k : p[i] = q[i]
  PROVE  \A i \in 1 .. k : f[i] = g[i]
<1> DEFINE Bad == {i \in 1 .. k : f[i] # g[i]}
<1> SUFFICES ASSUME Bad # {} PROVE FALSE
  OBVIOUS
<1>1. Bad \in SUBSET Nat
  OBVIOUS
<1>2. PICK i \in Bad : \A j \in Bad : i <= j
  <2> HIDE DEF Bad
  <2> QED
    BY <1>1, SmallestIn
<1>3. i \in 1 .. k /\ i \in 1 .. m /\ i \in 1 .. n /\ f[i] # g[i] /\ p[i] = q[i]
  OBVIOUS
<1>4. f[i] = IF i = 1 THEN p[i] ELSE f[i - 1] \o p[i]
  BY <1>3, JoinsAt
<1>5. g[i] = IF i = 1 THEN q[i] ELSE g[i - 1] \o q[i]
  BY <1>3, JoinsAt
<1>6. i # 1
  BY <1>3, <1>4, <1>5
<1>7. i - 1 \in 1 .. k /\ ~ (i <= i - 1)
  BY <1>3, <1>6
<1>8. f[i - 1] = g[i - 1]
  BY <1>2, <1>7
<1> QED
  BY <1>3, <1>4, <1>5, <1>8

LEMMA JoinsPrefix ==
  ASSUME NEW p, NEW q, NEW n \in Nat, NEW f, Joins(f, q, n), NEW g, Joins(g, p, n + 1),
         Alike(p, q, n)
  PROVE  Alike(f, g, n)
<1>1. n + 1 \in Nat /\ n <= n + 1 /\ n <= n
  OBVIOUS
<1>2. \A i \in 1 .. n : q[i] = p[i]
  BY DEF Alike
<1> QED
  BY <1>1, <1>2, JoinsAgree DEF Alike

(* The first n values of f are sequences over T.                           *)
Typed(T, f, n) == \A i \in 1 .. n : f[i] \in Seq(T)

LEMMA JoinsType ==
  ASSUME NEW T, NEW q \in Seq(Seq(T)), NEW n \in Nat, n <= Len(q), NEW f, Joins(f, q, n)
  PROVE  Typed(T, f, n)
<1> DEFINE Bad == {i \in 1 .. n : f[i] \notin Seq(T)}
<1> SUFFICES ASSUME Bad # {} PROVE FALSE
  BY DEF Typed
<1>1. Bad \in SUBSET Nat
  OBVIOUS
<1>2. PICK i \in Bad : \A j \in Bad : i <= j
  <2> HIDE DEF Bad
  <2> QED
    BY <1>1, SmallestIn
<1>3. i \in 1 .. n /\ f[i] \notin Seq(T) /\ i \in 1 .. Len(q)
  OBVIOUS
<1>4. q[i] \in Seq(T)
  BY <1>3, ElementOfSeq
<1>5. f[i] = IF i = 1 THEN q[i] ELSE f[i - 1] \o q[i]
  BY <1>3, JoinsAt
<1>6. i # 1
  BY <1>3, <1>4, <1>5
<1>7. i - 1 \in 1 .. n /\ ~ (i <= i - 1)
  BY <1>3, <1>6
<1>8. f[i - 1] \in Seq(T)
  BY <1>2, <1>7
<1> QED
  BY <1>3, <1>4, <1>5, <1>6, <1>8, ConcatProperties

(* ... and what one more member at the head does.                          *)
ShiftedFrom(T, a, p, q, f, g, n) ==
  /\ p[1] = a
  /\ \A i \in 1 .. n : p[i + 1] = q[i] /\ q[i] \in Seq(T)
  /\ Typed(T, f, n)
  /\ JoinsAll(f, q, n) /\ JoinsAll(g, p, n + 1)

Shifted(a, f, g, n) == \A i \in 1 .. n : g[i + 1] = a \o f[i]

LEMMA JoinsShift ==
  ASSUME NEW T, NEW a \in Seq(T), NEW q, NEW p, NEW n \in Nat, NEW f, NEW g
  PROVE  ShiftedFrom(T, a, p, q, f, g, n) => Shifted(a, f, g, n)
<1> DEFINE Bad == {i \in 1 .. n : g[i + 1] # a \o f[i]}
<1>0. SUFFICES ASSUME p[1] = a,
                      \A i \in 1 .. n : p[i + 1] = q[i] /\ q[i] \in Seq(T),
                      \A i \in 1 .. n : f[i] \in Seq(T),
                      \A i \in 1 .. n : f[i] = IF i = 1 THEN q[i] ELSE f[i - 1] \o q[i],
                      \A i \in 1 .. n + 1 : g[i] = IF i = 1 THEN p[i] ELSE g[i - 1] \o p[i],
                      Bad # {}
               PROVE  FALSE
  BY DEF ShiftedFrom, Shifted, Typed, JoinsAll
<1>1. Bad \in SUBSET Nat
  OBVIOUS
<1>2. PICK i \in Bad : \A j \in Bad : i <= j
  <2> HIDE DEF Bad
  <2> QED
    BY <1>0, <1>1, SmallestIn
<1>3. i \in 1 .. n /\ g[i + 1] # a \o f[i]
  OBVIOUS
<1>4. g[i + 1] = g[i] \o q[i]
  <2>1. i + 1 \in 1 .. n + 1 /\ i + 1 # 1 /\ (i + 1) - 1 = i
    BY <1>3
  <2>2. g[i + 1] = IF i + 1 = 1 THEN p[i + 1] ELSE g[(i + 1) - 1] \o p[i + 1]
    BY <1>0, <2>1
  <2> QED
    BY <1>0, <1>3, <2>1, <2>2
<1>5. f[i] = IF i = 1 THEN q[i] ELSE f[i - 1] \o q[i]
  BY <1>0, <1>3
<1>6. CASE i = 1
  <2>1. 1 \in 1 .. n + 1
    OBVIOUS
  <2>2. g[1] = p[1]
    BY <1>0, <2>1
  <2> QED
    BY <1>0, <1>3, <1>4, <1>5, <1>6, <2>2
<1>7. CASE i # 1
  <2>1. i - 1 \in 1 .. n /\ ~ (i <= i - 1) /\ (i - 1) + 1 = i
    BY <1>3, <1>7
  <2>2. g[i] = a \o f[i - 1]
    BY <1>2, <2>1
  <2>3. PICK x \in Seq(T) : x = f[i - 1]
    BY <1>0, <1>3, <2>1
  <2>4. PICK y \in Seq(T) : y = q[i]
    BY <1>0, <1>3
  <2>5. (a \o x) \o y = a \o (x \o y)
    BY ConcatAssociative
  <2> QED
    BY <1>3, <1>4, <1>5, <1>7, <2>2, <2>3, <2>4, <2>5
<1> QED
  BY <1>6, <1>7

(* FlattenSeq() of a sequence of sequences is a sequence,                  *)
LEMMA FlattenType ==
  ASSUME NEW T, NEW q \in Seq(Seq(T))
  PROVE  FlattenSeq(q) \in Seq(T)
<1>1. CASE q = <<>>
  <2>1. <<>> \in Seq(T)
    OBVIOUS
  <2> QED
    BY <1>1, <2>1, FlattenEmpty
<1>2. CASE q # <<>>
  <2>1. Len(q) \in Nat /\ Len(q) \in 1 .. Len(q)
    BY <1>2, EmptySeq, LenProperties
  <2>2. PICK f : Joins(f, q, Len(q)) /\ FlattenSeq(q) = f[Len(q)]
    BY <1>2, FlattenJoins
  <2>3. f[Len(q)] \in Seq(T)
    BY <2>1, <2>2, JoinsType DEF Typed
  <2> QED
    BY <2>2, <2>3
<1> QED
  BY <1>1, <1>2

(* ... a member at the end of which adds its own members at the end,       *)
LEMMA FlattenAppend ==
  ASSUME NEW T, NEW q \in Seq(Seq(T)), NEW a \in Seq(T)
  PROVE  FlattenSeq(Append(q, a)) = FlattenSeq(q) \o a
<1> DEFINE p == Append(q, a)
           n == Len(q)
<1>1. n \in Nat /\ p \in Seq(Seq(T)) /\ p # <<>> /\ Len(p) = n + 1 /\ p[n + 1] = a
      /\ \A i \in 1 .. n : p[i] = q[i]
  BY LenProperties, AppendProperties
<1> HIDE DEF p, n
<1>2. PICK g : Joins(g, p, n + 1) /\ FlattenSeq(p) = g[n + 1]
  BY <1>1, FlattenJoins
<1>3. g[n + 1] = IF n + 1 = 1 THEN p[n + 1] ELSE g[(n + 1) - 1] \o p[n + 1]
  <2>1. n + 1 \in 1 .. n + 1 /\ n + 1 \in Nat
    BY <1>1
  <2> QED
    BY <1>2, <2>1, JoinsAt
<1>4. CASE n = 0
  <2>1. q = <<>> /\ FlattenSeq(q) = <<>>
    BY <1>4, EmptySeq, FlattenEmpty DEF n
  <2>2. FlattenSeq(p) = a
    BY <1>1, <1>2, <1>3, <1>4
  <2> QED
    BY <2>1, <2>2 DEF p
<1>5. CASE n # 0
  <2>1. q # <<>> /\ n \in 1 .. n
    BY <1>1, <1>5, EmptySeq DEF n
  <2>2. PICK f : Joins(f, q, n) /\ FlattenSeq(q) = f[n]
    BY <2>1, FlattenJoins DEF n
  <2>3. f[n] = g[n]
    <3>1. Alike(p, q, n)
      BY <1>1, Zenon DEF Alike
    <3>3. Alike(f, g, n)
      BY <1>1, <1>2, <2>2, <3>1, JoinsPrefix
    <3> QED
      BY <2>1, <3>3 DEF Alike
  <2>4. (n + 1) - 1 = n /\ n + 1 # 1
    BY <1>1, <1>5
  <2> QED
    BY <1>1, <1>2, <1>3, <2>2, <2>3, <2>4 DEF p
<1> QED
  BY <1>4, <1>5

(* ... and one at the head at the head.                                    *)
LEMMA FlattenCons ==
  ASSUME NEW T, NEW q \in Seq(Seq(T)), NEW a \in Seq(T)
  PROVE  FlattenSeq(<<a>> \o q) = a \o FlattenSeq(q)
<1> DEFINE p == <<a>> \o q
           n == Len(q)
<1>1. n \in Nat /\ p \in Seq(Seq(T)) /\ p # <<>> /\ Len(p) = n + 1 /\ p[1] = a
  BY LenProperties, ConcatProperties
<1>2. PICK g : Joins(g, p, n + 1) /\ FlattenSeq(p) = g[n + 1]
  <2> HIDE DEF p, n
  <2> QED
    BY <1>1, FlattenJoins
<1>3. g[1] = a
  <2> HIDE DEF p, n
  <2>1. 1 \in 1 .. n + 1 /\ n + 1 \in Nat
    BY <1>1
  <2>2. g[1] = IF 1 = 1 THEN p[1] ELSE g[1 - 1] \o p[1]
    BY <1>2, <2>1, JoinsAt
  <2> QED
    BY <1>1, <2>2
<1>4. CASE n = 0
  <2>1. q = <<>> /\ FlattenSeq(q) = <<>>
    BY <1>4, EmptySeq, FlattenEmpty
  <2>2. n + 1 = 1
    BY <1>4
  <2> QED
    BY <1>2, <1>3, <2>1, <2>2
<1>5. CASE n # 0
  <2>1. q # <<>> /\ n \in 1 .. n
    BY <1>1, <1>5, EmptySeq
  <2>2. PICK f : Joins(f, q, n) /\ FlattenSeq(q) = f[n]
    BY <2>1, FlattenJoins
  <2>3. g[n + 1] = a \o f[n]
    <3> HIDE DEF p
    <3>1. \A i \in 1 .. n : p[i + 1] = q[i] /\ q[i] \in Seq(T)
      BY <1>1, ElementOfSeq DEF p
    <3>2. Typed(T, f, n)
      <4>1. n <= Len(q)
        BY <1>1
      <4> HIDE DEF n
      <4> QED
        BY <1>1, <2>2, <4>1, JoinsType
    <3> HIDE DEF n
    <3>3. JoinsAll(f, q, n)
      BY <1>1, <2>2, JoinsEach
    <3>4. n + 1 \in Nat
      BY <1>1
    <3>5. JoinsAll(g, p, n + 1)
      BY <1>2, <3>4, JoinsEach
    <3>6. Shifted(a, f, g, n)
      <4>1. ShiftedFrom(T, a, p, q, f, g, n)
        BY <1>1, <3>1, <3>2, <3>3, <3>5 DEF ShiftedFrom
      <4>2. n \in Nat
        BY <1>1
      <4> QED
        BY <4>1, <4>2, JoinsShift, Zenon
    <3> QED
      BY <2>1, <3>6 DEF Shifted
  <2> QED
    BY <1>2, <2>2, <2>3
<1> QED
  BY <1>4, <1>5

-----------------------------------------------------------------------------
(* Parts of sequences.                                                     *)

LEMMA FirstRest ==
  ASSUME NEW T, NEW s \in Seq(T), NEW n \in 0 .. Len(s)
  PROVE  /\ First(s, n) \in Seq(T) /\ Len(First(s, n)) = n
         /\ Rest(s, n) \in Seq(T) /\ Len(Rest(s, n)) = Len(s) - n
         /\ \A i \in 1 .. Len(s) - n : Rest(s, n)[i] = s[n + i]
         /\ First(s, n) \o Rest(s, n) = s
<1>1. Len(s) \in Nat /\ DOMAIN s = 1 .. Len(s) /\ \A i \in 1 .. Len(s) : s[i] \in T
  BY LenProperties
<1>2. /\ First(s, n) \in Seq(T) /\ Len(First(s, n)) = n
      /\ \A i \in 1 .. n : First(s, n)[i] = s[i]
  BY <1>1, SubSeqProperties DEF First
<1>3. /\ Rest(s, n) \in Seq(T) /\ Len(Rest(s, n)) = Len(s) - n
      /\ \A i \in 1 .. Len(s) - n : Rest(s, n)[i] = s[n + i]
  <2>1. \A i \in n + 1 .. Len(s) : s[i] \in T
    BY <1>1
  <2>2. Rest(s, n) = [i \in 1 .. Len(s) - n |-> s[i + n]]
    BY <1>1 DEF Rest
  <2> QED
    BY <1>1, <2>1, <2>2
<1> DEFINE u == First(s, n) \o Rest(s, n)
<1>4. /\ u \in Seq(T) /\ Len(u) = Len(s)
      /\ \A i \in 1 .. Len(s) : u[i] = s[i]
  <2> HIDE DEF u
  <2>1. u \in Seq(T) /\ Len(u) = n + (Len(s) - n)
    BY <1>2, <1>3, ConcatProperties DEF u
  <2>2. ASSUME NEW i \in 1 .. Len(s) PROVE u[i] = s[i]
    <3>1. CASE i <= n
      BY <1>1, <1>2, <1>3, <3>1, ConcatProperties DEF u
    <3>2. CASE ~ (i <= n)
      <4>1. i - n \in 1 .. Len(s) - n /\ n + (i - n) = i
        BY <1>1, <3>2
      <4>2. u[i] = Rest(s, n)[i - n]
        BY <1>1, <1>2, <1>3, <3>2, ConcatProperties DEF u
      <4> QED
        BY <1>3, <4>1, <4>2
    <3> QED
      BY <3>1, <3>2
  <2> QED
    BY <1>1, <2>1, <2>2
<1>5. u = s
  <2> HIDE DEF u
  <2> QED
    BY <1>4, SeqEqual
<1> QED
  BY <1>2, <1>3, <1>5

LEMMA RestNone ==
  ASSUME NEW T, NEW s \in Seq(T)
  PROVE  Rest(s, 0) = s
<1>1. Len(s) \in Nat /\ 0 \in 0 .. Len(s)
  BY LenProperties
<1>2. Rest(s, 0) \in Seq(T) /\ Len(Rest(s, 0)) = Len(s)
      /\ \A i \in 1 .. Len(s) : Rest(s, 0)[i] = s[i]
  BY <1>1, FirstRest
<1> QED
  BY <1>2, SeqEqual

(* What is left of two sequences after some of the first of them.          *)
LEMMA RestConcat ==
  ASSUME NEW T, NEW s \in Seq(T), NEW t \in Seq(T), NEW m \in 0 .. Len(s), NEW n \in Nat,
         m <= n, n <= Len(s) + Len(t)
  PROVE  Rest(s \o t, n) = Rest(Rest(s, m) \o t, n - m)
<1> DEFINE r == Rest(s, m)
           p == s \o t
           q == r \o t
<1>1. Len(s) \in Nat /\ Len(t) \in Nat
  BY LenProperties
<1>2. r \in Seq(T) /\ Len(r) = Len(s) - m /\ \A i \in 1 .. Len(s) - m : r[i] = s[m + i]
  BY FirstRest
<1> HIDE DEF r
<1>3. /\ p \in Seq(T) /\ Len(p) = Len(s) + Len(t)
      /\ \A i \in 1 .. Len(p) : p[i] = IF i <= Len(s) THEN s[i] ELSE t[i - Len(s)]
  BY ConcatProperties
<1>4. /\ q \in Seq(T) /\ Len(q) = Len(r) + Len(t)
      /\ \A i \in 1 .. Len(q) : q[i] = IF i <= Len(r) THEN r[i] ELSE t[i - Len(r)]
  <2>1. q \in Seq(T) /\ Len(q) = Len(r) + Len(t)
    BY <1>2, ConcatProperties
  <2>2. \A i \in 1 .. Len(r) + Len(t) : q[i] = IF i <= Len(r) THEN r[i] ELSE t[i - Len(r)]
    BY <1>2, ConcatProperties
  <2> HIDE DEF q
  <2> QED
    BY <2>1, <2>2
<1> HIDE DEF p, q
<1>5. \A i \in 1 .. Len(q) : q[i] = p[m + i] /\ m + i \in 1 .. Len(p)
  <2> SUFFICES ASSUME NEW i \in 1 .. Len(q)
               PROVE  q[i] = p[m + i] /\ m + i \in 1 .. Len(p)
    OBVIOUS
  <2>1. m + i \in 1 .. Len(p)
    BY <1>1, <1>2, <1>3, <1>4
  <2>2. CASE i <= Len(r)
    <3>1. m + i <= Len(s) /\ i \in 1 .. Len(s) - m
      BY <1>1, <1>2, <2>2
    <3> QED
      BY <1>2, <1>3, <1>4, <2>1, <2>2, <3>1
  <2>3. CASE ~ (i <= Len(r))
    <3>1. ~ (m + i <= Len(s)) /\ (m + i) - Len(s) = i - Len(r)
      BY <1>1, <1>2, <2>3
    <3> QED
      BY <1>3, <1>4, <2>1, <2>3, <3>1
  <2> QED
    BY <2>1, <2>2, <2>3
<1>6. n \in 0 .. Len(p) /\ n - m \in 0 .. Len(q) /\ Len(q) - (n - m) = Len(p) - n
  BY <1>1, <1>2, <1>3, <1>4
<1>7. /\ Rest(p, n) \in Seq(T) /\ Len(Rest(p, n)) = Len(p) - n
      /\ \A i \in 1 .. Len(p) - n : Rest(p, n)[i] = p[n + i]
  BY <1>3, <1>6, FirstRest
<1>8. /\ Rest(q, n - m) \in Seq(T) /\ Len(Rest(q, n - m)) = Len(p) - n
      /\ \A i \in 1 .. Len(p) - n : Rest(q, n - m)[i] = q[(n - m) + i]
  <2>1. /\ Rest(q, n - m) \in Seq(T) /\ Len(Rest(q, n - m)) = Len(q) - (n - m)
        /\ \A i \in 1 .. Len(q) - (n - m) : Rest(q, n - m)[i] = q[(n - m) + i]
    BY <1>4, <1>6, FirstRest
  <2> QED
    BY <1>6, <2>1
<1>9. \A i \in 1 .. Len(p) - n : q[(n - m) + i] = p[n + i]
  <2> SUFFICES ASSUME NEW i \in 1 .. Len(p) - n PROVE q[(n - m) + i] = p[n + i]
    OBVIOUS
  <2>1. (n - m) + i \in 1 .. Len(q) /\ m + ((n - m) + i) = n + i
    BY <1>1, <1>2, <1>3, <1>4
  <2> QED
    BY <1>5, <2>1
<1>10. Rest(p, n) = Rest(q, n - m)
  BY <1>7, <1>8, <1>9, SeqEqual
<1> QED
  BY <1>10 DEF p, q, r

-----------------------------------------------------------------------------
(* The output of a channel (SendRemains).                                  *)

Byte == Nat \X Nat

SendTypes ==
  /\ queue \in Seq(Seq(Byte)) /\ buf \in Seq(Seq(Byte))
  /\ wire \in Seq(Byte) /\ pushed \in Seq(Byte)
  /\ write \in Nat /\ total \in Nat /\ told \in Nat /\ room \in Nat /\ messages \in Nat
  /\ pc \in {"out", "fill", "write", "advance", "failed", "undefined"}

Begins(a, b) == \E c \in Seq(Byte) : b = a \o c

(* The queue gives up a byte for each the socket takes; and as long as a   *)
(* call has written nothing, the array holds what the queue begins with.   *)
SendInv ==
  /\ SendTypes
  /\ pc = "out" => told = Len(wire)
  /\ pc \in {"fill", "write", "advance"} => told + total = Len(wire)
  /\ pc \in {"out", "fill", "write"} => Len(wire) + Len(FlattenSeq(queue)) = Len(pushed)
  /\ pc = "advance" => Len(wire) + Len(FlattenSeq(queue)) = Len(pushed) + write
  /\ pc \in {"fill", "advance"} /\ total = 0 => FlattenSeq(buf) = <<>>
  /\ pc = "write" /\ total = 0 => Begins(FlattenSeq(buf), FlattenSeq(queue))

KeptOrder == Ordered => Ordered' \/ (pc = "write" /\ total > 0 /\ room > 0)

LEMMA MessagesAre ==
  ASSUME NEW q \in Seq(Seq(Byte))
  PROVE  FlattenSeq(q) \in Seq(Byte) /\ Len(FlattenSeq(q)) \in Nat
BY FlattenType, LenProperties

(* A queue that is not empty is its first message and the others.          *)
LEMMA FlattenHead ==
  ASSUME NEW q \in Seq(Seq(Byte)), q # <<>>
  PROVE  /\ Head(q) \in Seq(Byte) /\ Len(Head(q)) \in Nat
         /\ Tail(q) \in Seq(Seq(Byte))
         /\ FlattenSeq(q) = Head(q) \o FlattenSeq(Tail(q))
         /\ Len(FlattenSeq(q)) = Len(Head(q)) + Len(FlattenSeq(Tail(q)))
<1>1. Head(q) \in Seq(Byte) /\ Tail(q) \in Seq(Seq(Byte)) /\ Len(Head(q)) \in Nat
  BY HeadTailProperties, LenProperties
<1>2. q = <<Head(q)>> \o Tail(q)
  OBVIOUS
<1> DEFINE head == Head(q)
           tail == FlattenSeq(Tail(q))
<1>3. tail \in Seq(Byte) /\ Len(tail) \in Nat
  BY <1>1, MessagesAre
<1>4. FlattenSeq(q) = head \o tail
  BY <1>1, <1>2, FlattenCons
<1>5. Len(head \o tail) = Len(head) + Len(tail)
  <2> HIDE DEF tail
  <2> QED
    BY <1>1, <1>3, ConcatProperties
<1>6. Len(FlattenSeq(q)) = Len(head) + Len(tail)
  <2> HIDE DEF head, tail
  <2> QED
    BY <1>4, <1>5
<1> QED
  BY <1>1, <1>4, <1>6

LEMMA Associates ==
  ASSUME NEW T, NEW x \in Seq(T), NEW y \in Seq(T), NEW z \in Seq(T)
  PROVE  (x \o y) \o z = x \o (y \o z)
BY ConcatAssociative

LEMMA BytesAssociate ==
  ASSUME NEW x \in Seq(Byte), NEW y \in Seq(Byte), NEW z \in Seq(Byte)
  PROVE  (x \o y) \o z = x \o (y \o z)
BY Associates

(* Joined messages are those of a part and those of the rest.              *)
LEMMA FlattenConcat ==
  ASSUME NEW p \in Seq(Seq(Byte)), NEW q \in Seq(Seq(Byte))
  PROVE  FlattenSeq(p \o q) = FlattenSeq(p) \o FlattenSeq(q)
<1> DEFINE Good(r) == FlattenSeq(p \o r) = FlattenSeq(p) \o FlattenSeq(r)
           Bad == {n \in Nat : \E r \in Seq(Seq(Byte)) : Len(r) = n /\ ~ Good(r)}
<1>1. ASSUME Bad # {} PROVE FALSE
  <2>1. Bad \in SUBSET Nat
    OBVIOUS
  <2>2. PICK n \in Bad : \A m \in Bad : n <= m
    <3> HIDE DEF Bad
    <3> QED
      BY <1>1, <2>1, SmallestIn
  <2>3. PICK r \in Seq(Seq(Byte)) : Len(r) = n /\ ~ Good(r)
    OBVIOUS
  <2>4. n \in Nat /\ FlattenSeq(p) \in Seq(Byte)
    BY MessagesAre
  <2>5. r # <<>>
    <3>1. ASSUME r = <<>> PROVE Good(r)
      BY <2>4, <3>1, FlattenEmpty, ConcatEmptySeq
    <3> QED
      BY <2>3, <3>1
  <2> DEFINE f == SubSeq(r, 1, n - 1)
             a == r[n]
  <2>6. n \in Nat \ {0} /\ n \in 1 .. Len(r)
    BY <2>3, <2>4, <2>5, EmptySeq
  <2>7. f \in Seq(Seq(Byte)) /\ Len(f) = n - 1 /\ a \in Seq(Byte) /\ r = Append(f, a)
    <3>1. f \in Seq(Seq(Byte)) /\ Len(f) = n - 1 /\ \A i \in 1 .. n - 1 : f[i] = r[i]
      BY <2>3, <2>6, SubSeqProperties
    <3>2. a \in Seq(Byte)
      BY <2>6, ElementOfSeq
    <3> HIDE DEF f
    <3>3. Append(f, a) \in Seq(Seq(Byte)) /\ Len(Append(f, a)) = n
          /\ \A i \in 1 .. n : Append(f, a)[i] = r[i]
      BY <2>6, <3>1, <3>2, AppendProperties, SMTT(20)
    <3>4. r = Append(f, a)
      <4> HIDE DEF a
      <4> QED
        BY <2>3, <3>3, SeqEqual
    <3> QED
      BY <3>1, <3>2, <3>4
  <2>8. n - 1 \in Nat /\ ~ (n <= n - 1)
    BY <2>6
  <2>9. Good(f)
    BY <2>2, <2>7, <2>8
  <2> HIDE DEF f, a, Good, Bad
  <2>10. p \o r = Append(p \o f, a) /\ p \o f \in Seq(Seq(Byte))
    <3>1. p \o f \in Seq(Seq(Byte)) /\ <<a>> \in Seq(Seq(Byte))
      BY <2>7, ConcatProperties
    <3>2. r = f \o <<a>>
      BY <2>7, AppendIsConcat
    <3>3. Append(p \o f, a) = (p \o f) \o <<a>>
      <4>1. PICK x \in Seq(Seq(Byte)) : x = p \o f
        BY <3>1
      <4>2. Append(x, a) = x \o <<a>>
        BY <2>7, AppendIsConcat
      <4> QED
        BY <4>1, <4>2
    <3>4. (p \o f) \o <<a>> = p \o (f \o <<a>>)
      <4>1. PICK y \in Seq(Seq(Byte)) : y = f
        BY <2>7
      <4>2. PICK z \in Seq(Seq(Byte)) : z = <<a>>
        BY <3>1
      <4>3. (p \o y) \o z = p \o (y \o z)
        BY ONLY <2>1, <4>1, <4>2, Associates
      <4> QED
        BY <4>1, <4>2, <4>3
    <3> QED
      BY <3>1, <3>2, <3>3, <3>4
  <2>11. FlattenSeq(p \o r) = FlattenSeq(p \o f) \o a
    BY <2>7, <2>10, FlattenAppend
  <2>12. FlattenSeq(r) = FlattenSeq(f) \o a /\ FlattenSeq(f) \in Seq(Byte)
    BY <2>7, FlattenAppend, MessagesAre
  <2>13. (FlattenSeq(p) \o FlattenSeq(f)) \o a = FlattenSeq(p) \o (FlattenSeq(f) \o a)
    <3>1. PICK x \in Seq(Byte) : x = FlattenSeq(p)
      BY <2>4
    <3>2. PICK y \in Seq(Byte) : y = FlattenSeq(f)
      BY <2>12
    <3>3. PICK z \in Seq(Byte) : z = a
      BY <2>7
    <3>4. (x \o y) \o z = x \o (y \o z)
      BY ONLY <3>1, <3>2, <3>3, BytesAssociate
    <3> QED
      BY <3>1, <3>2, <3>3, <3>4
  <2> QED
    BY <2>3, <2>9, <2>11, <2>12, <2>13 DEF Good
<1>2. Len(q) \in Nat
  BY LenProperties
<1> QED
  BY <1>1, <1>2

(* After more than there is, nothing is left.                              *)
LEMMA RestAll ==
  ASSUME NEW T, NEW s \in Seq(T), NEW n \in Nat, Len(s) <= n
  PROVE  Rest(s, n) = <<>>
<1>1. Len(s) \in Nat /\ ~ (n + 1 <= Len(s))
  BY LenProperties
<1>2. 1 .. Len(s) - (n + 1) + 1 = {}
  BY <1>1
<1> QED
  BY <1>1, <1>2 DEF Rest

LEMMA UnsentType ==
  ASSUME SendInv
  PROVE  Unsent \in Seq(Byte) /\ FlattenSeq(queue) \in Seq(Byte)
         /\ Len(FlattenSeq(queue)) \in Nat
<1>1. FlattenSeq(queue) \in Seq(Byte) /\ Len(FlattenSeq(queue)) \in Nat /\ write \in Nat
  BY MessagesAre DEF SendInv, SendTypes
<1>2. Rest(FlattenSeq(queue), write) \in Seq(Byte)
  <2>1. CASE write <= Len(FlattenSeq(queue))
    <3>1. write \in 0 .. Len(FlattenSeq(queue))
      BY <1>1, <2>1
    <3> QED
      BY <1>1, <3>1, FirstRest
  <2>2. CASE ~ (write <= Len(FlattenSeq(queue)))
    <3>1. Rest(FlattenSeq(queue), write) = <<>>
      BY <1>1, <2>2, RestAll
    <3> QED
      BY <3>1
  <2> QED
    BY <2>1, <2>2
<1> QED
  BY <1>1, <1>2 DEF Unsent

LEMMA SendInit ==
  ASSUME Init
  PROVE  SendInv
<1>1. <<>> \in Seq(Seq(Byte)) /\ <<>> \in Seq(Byte) /\ Len(<<>>) = 0
  OBVIOUS
<1> QED
  BY <1>1, FlattenEmpty, SendAssumption DEF Init, SendInv, SendTypes

LEMMA SendWrite ==
  ASSUME SendInv, do_write
  PROVE  SendInv' /\ KeptOrder
<1>1. PICK len \in Lengths :
        /\ queue' = Append(queue, [k \in 1 .. len |-> <<messages + 1, k>>])
        /\ pushed' = pushed \o [k \in 1 .. len |-> <<messages + 1, k>>]
  BY DEF do_write
<1> DEFINE msg == [k \in 1 .. len |-> <<messages + 1, k>>]
<1>2. len \in Nat /\ messages \in Nat
  BY SendAssumption DEF SendInv, SendTypes
<1>3. msg \in Seq(Byte) /\ Len(msg) = len
  BY <1>2 DEF Byte
<1>4. queue' = Append(queue, msg) /\ pushed' = pushed \o msg
  BY <1>1
<1> HIDE DEF msg
<1>5. queue \in Seq(Seq(Byte)) /\ pushed \in Seq(Byte) /\ wire \in Seq(Byte)
      /\ FlattenSeq(queue) \in Seq(Byte)
  BY UnsentType DEF SendInv, SendTypes
<1>6. queue' \in Seq(Seq(Byte)) /\ FlattenSeq(queue') = FlattenSeq(queue) \o msg
  BY <1>3, <1>4, <1>5, AppendProperties, FlattenAppend
<1>7. /\ pushed' \in Seq(Byte) /\ Len(pushed') = Len(pushed) + Len(msg)
      /\ Len(FlattenSeq(queue) \o msg) = Len(FlattenSeq(queue)) + Len(msg)
  BY <1>3, <1>4, <1>5, ConcatProperties
<1>8. /\ Len(wire) \in Nat /\ Len(FlattenSeq(queue)) \in Nat /\ Len(pushed) \in Nat
      /\ Len(msg) \in Nat
  BY <1>2, <1>3, <1>5, LenProperties
<1>9. pc = "out" /\ pc' = "out" /\ messages' \in Nat
      /\ UNCHANGED <<buf, write, total, told, room, wire>>
  BY <1>2 DEF do_write
<1>10. Len(wire') + Len(FlattenSeq(queue')) = Len(pushed')
  <2>1. Len(wire) + Len(FlattenSeq(queue)) = Len(pushed)
    BY <1>9 DEF SendInv
  <2>2. Len(FlattenSeq(queue')) = Len(FlattenSeq(queue)) + Len(msg)
    BY <1>6, <1>7
  <2>3. Len(wire') = Len(wire) /\ Len(pushed') = Len(pushed) + Len(msg)
    BY <1>7, <1>9
  <2> DEFINE left == Len(FlattenSeq(queue))
             left_next == Len(FlattenSeq(queue'))
             more == Len(msg)
  <2>4. left \in Nat /\ more \in Nat /\ left_next = left + more /\ Len(wire) + left = Len(pushed)
    BY <1>8, <2>1, <2>2
  <2> HIDE DEF left, left_next, more
  <2>5. Len(wire) + left_next = Len(pushed) + more
    BY <1>8, <2>4
  <2> QED
    BY <2>3, <2>5 DEF left_next, more
<1>11. SendInv'
  BY <1>6, <1>7, <1>9, <1>10 DEF SendInv, SendTypes
<1>12. (wire \o FlattenSeq(queue)) \o msg = wire \o (FlattenSeq(queue) \o msg)
  <2>1. PICK x \in Seq(Byte) : x = FlattenSeq(queue)
    BY <1>5
  <2>2. (wire \o x) \o msg = wire \o (x \o msg)
    BY ONLY <1>3, <1>5, <2>1, BytesAssociate
  <2> QED
    BY <2>1, <2>2
<1> QED
  BY <1>4, <1>6, <1>9, <1>11, <1>12 DEF KeptOrder, Ordered, Unsent

LEMMA SendEnter ==
  ASSUME SendInv, Enter
  PROVE  SendInv' /\ KeptOrder
<1>1. pc = "out" /\ pc' = "fill" /\ buf' = <<>> /\ total' = 0
      /\ UNCHANGED <<queue, write, room, wire, pushed, told, messages>>
  BY DEF Enter
<1>2. Len(wire) \in Nat /\ <<>> \in Seq(Seq(Byte))
  BY LenProperties DEF SendInv, SendTypes
<1>3. SendInv'
  BY <1>1, <1>2, FlattenEmpty DEF SendInv, SendTypes
<1> QED
  BY <1>1, <1>3 DEF KeptOrder, Ordered, Unsent

LEMMA SendFinds ==
  ASSUME SendInv, JobFindsNothing
  PROVE  SendInv' /\ KeptOrder
<1>1. UNCHANGED <<queue, buf, write, total, room, wire, pushed, told, messages, pc>>
  BY DEF JobFindsNothing
<1> QED
  BY <1>1 DEF SendInv, SendTypes, KeptOrder, Ordered, Unsent

(* An array without bytes gets the first bytes of the queue.               *)
LEMMA SendFill ==
  ASSUME SendInv, Fill
  PROVE  SendInv' /\ KeptOrder
<1>1. pc = "fill" /\ UNCHANGED <<queue, job, write, total, room, wire, pushed, messages>>
  BY DEF Fill
<1>2. CASE queue = <<>>
  <2>1. pc' = "out" /\ told' = told + total /\ buf' = buf
    BY <1>1, <1>2 DEF Fill, Leave
  <2>2. SendInv'
    BY <1>1, <2>1 DEF SendInv, SendTypes
  <2> QED
    BY <1>1, <2>1, <2>2 DEF KeptOrder, Ordered, Unsent
<1>3. CASE queue # <<>>
  <2> DEFINE all == buf \o queue
             m == Lesser(Slots, Len(buf) + Len(queue))
  <2>1. buf' = First(all, m) /\ pc' = "write" /\ told' = told
    BY <1>1, <1>3 DEF Fill
  <2>2. buf \in Seq(Seq(Byte)) /\ queue \in Seq(Seq(Byte))
        /\ Len(buf) \in Nat /\ Len(queue) \in Nat
    BY LenProperties DEF SendInv, SendTypes
  <2>3. all \in Seq(Seq(Byte)) /\ Len(all) = Len(buf) + Len(queue)
    BY <2>2, ConcatProperties
  <2>4. m \in 0 .. Len(all)
    BY <2>2, <2>3, SendAssumption DEF Lesser
  <2>5. FlattenSeq(all) = FlattenSeq(buf) \o FlattenSeq(queue)
    BY <2>2, FlattenConcat
  <2> HIDE DEF all, m
  <2>6. /\ First(all, m) \in Seq(Seq(Byte)) /\ Rest(all, m) \in Seq(Seq(Byte))
        /\ First(all, m) \o Rest(all, m) = all
    BY <2>3, <2>4, FirstRest
  <2>7. FlattenSeq(all) = FlattenSeq(First(all, m)) \o FlattenSeq(Rest(all, m))
    BY <2>6, FlattenConcat
  <2>8. ASSUME total = 0 PROVE Begins(FlattenSeq(buf'), FlattenSeq(queue))
    <3>1. FlattenSeq(buf) = <<>>
      BY <1>1, <2>8 DEF SendInv
    <3>2. FlattenSeq(queue) \in Seq(Byte) /\ FlattenSeq(Rest(all, m)) \in Seq(Byte)
      BY <2>2, <2>6, MessagesAre
    <3>3. <<>> \o FlattenSeq(queue) = FlattenSeq(queue)
      BY <3>2, ConcatEmptySeq
    <3>4. FlattenSeq(queue) = FlattenSeq(First(all, m)) \o FlattenSeq(Rest(all, m))
      BY <2>5, <2>7, <3>1, <3>3
    <3> QED
      BY <2>1, <3>2, <3>4 DEF Begins
  <2>9. SendInv'
    BY <1>1, <2>1, <2>6, <2>8 DEF SendInv, SendTypes
  <2> QED
    BY <1>1, <2>1, <2>9 DEF KeptOrder, Ordered, Unsent
<1> QED
  BY <1>2, <1>3

LEMMA SendWritev ==
  ASSUME SendInv, Writev
  PROVE  SendInv' /\ KeptOrder
<1>1. pc = "write" /\ UNCHANGED <<queue, job, buf, pushed, messages>>
  BY DEF Writev
<1>2. CASE room = 0
  <2>1. pc' = "out" /\ told' = told + total /\ UNCHANGED <<write, total, room, wire>>
    BY <1>2 DEF Writev, Leave
  <2>2. SendInv'
    BY <1>1, <2>1 DEF SendInv, SendTypes
  <2> QED
    BY <1>1, <2>1, <2>2 DEF KeptOrder, Ordered, Unsent
<1>3. CASE room # 0
  <2> DEFINE bytes == FlattenSeq(buf)
             n == Lesser(Len(bytes), room)
  <2>1. /\ wire' = wire \o First(bytes, n)
        /\ write' = n /\ total' = total + n /\ room' = room - n
        /\ pc' = "advance" /\ told' = told
    BY <1>3 DEF Writev
  <2>2. bytes \in Seq(Byte) /\ Len(bytes) \in Nat
    BY MessagesAre DEF SendInv, SendTypes
  <2>3. /\ room \in Nat /\ total \in Nat /\ told \in Nat /\ wire \in Seq(Byte) /\ Len(wire) \in Nat
        /\ pushed \in Seq(Byte) /\ Len(pushed) \in Nat
        /\ FlattenSeq(queue) \in Seq(Byte) /\ Len(FlattenSeq(queue)) \in Nat
    BY LenProperties, UnsentType DEF SendInv, SendTypes
  <2> HIDE DEF bytes
  <2>4. n \in 0 .. Len(bytes) /\ n <= room /\ (n = room \/ n = Len(bytes))
    BY <2>2, <2>3 DEF Lesser
  <2> HIDE DEF n
  <2>5. /\ First(bytes, n) \in Seq(Byte) /\ Len(First(bytes, n)) = n
        /\ Rest(bytes, n) \in Seq(Byte) /\ First(bytes, n) \o Rest(bytes, n) = bytes
    BY <2>2, <2>4, FirstRest
  <2>6. wire' \in Seq(Byte) /\ Len(wire') = Len(wire) + n
    BY <2>1, <2>3, <2>5, ConcatProperties
  <2>7. told' + total' = Len(wire') /\ Len(wire') + Len(FlattenSeq(queue)) = Len(pushed) + n
    <3>1. told + total = Len(wire) /\ Len(wire) + Len(FlattenSeq(queue)) = Len(pushed)
      BY <1>1 DEF SendInv
    <3>2. n \in Nat
      BY <2>2, <2>4
    <3>3. PICK left \in Nat, sent \in Nat, all \in Nat :
            left = Len(FlattenSeq(queue)) /\ sent = Len(wire) /\ all = Len(pushed)
      BY <2>3
    <3>4. told + total = sent /\ sent + left = all
      BY <3>1, <3>3
    <3>5. Len(wire') = sent + n /\ told' = told /\ total' = total + n
      BY <2>1, <2>6, <3>3
    <3>6. told \in Nat /\ total \in Nat
      BY <2>3
    <3>7. told + (total + n) = sent + n /\ (sent + n) + left = all + n
      BY <3>2, <3>4, <3>6
    <3> QED
      BY <3>3, <3>5, <3>7
  <2>8. write' \in Nat /\ total' \in Nat /\ room' \in Nat
    BY <2>1, <2>2, <2>3, <2>4
  <2>9. ASSUME total' = 0 PROVE bytes = <<>>
    <3>1. n = 0
      BY <2>1, <2>2, <2>3, <2>4, <2>9
    <3>2. Len(bytes) = 0
      BY <1>3, <2>4, <3>1
    <3> QED
      BY <2>2, <3>2, EmptySeq
  <2>10. SendInv'
    BY <1>1, <2>1, <2>6, <2>7, <2>8, <2>9 DEF SendInv, SendTypes, bytes
  <2>11. ASSUME total = 0, Ordered PROVE Ordered'
    <3>1. PICK more \in Seq(Byte) : FlattenSeq(queue) = bytes \o more
      BY <1>1, <2>11 DEF SendInv, Begins, bytes
    <3>2. Rest(bytes \o more, n) = Rest(bytes, n) \o more
      <4>1. Rest(bytes \o more, n) = Rest(Rest(bytes, n) \o more, n - n)
        <5>1. n \in Nat /\ Len(more) \in Nat /\ n <= n /\ n <= Len(bytes) + Len(more)
          BY <2>2, <2>4, LenProperties
        <5> QED
          BY <2>2, <2>4, <5>1, RestConcat
      <4>2. Rest(bytes, n) \o more \in Seq(Byte) /\ n - n = 0
        BY <2>2, <2>4, <2>5, ConcatProperties
      <4> QED
        BY <4>1, <4>2, RestNone
    <3>3. (wire \o First(bytes, n)) \o (Rest(bytes, n) \o more)
            = wire \o (First(bytes, n) \o (Rest(bytes, n) \o more))
      <4>1. PICK x \in Seq(Byte) : x = First(bytes, n)
        BY <2>5
      <4>2. PICK y \in Seq(Byte) : y = Rest(bytes, n) \o more
        BY <2>5, ConcatProperties
      <4>3. PICK z \in Seq(Byte) : z = wire
        BY <2>3
      <4>4. (z \o x) \o y = z \o (x \o y)
        BY ONLY <4>1, <4>2, <4>3, BytesAssociate
      <4> QED
        BY <4>1, <4>2, <4>3, <4>4
    <3>4. First(bytes, n) \o (Rest(bytes, n) \o more) = bytes \o more
      <4>1. PICK x \in Seq(Byte) : x = First(bytes, n)
        BY <2>5
      <4>2. PICK y \in Seq(Byte) : y = Rest(bytes, n)
        BY <2>5
      <4>3. (x \o y) \o more = x \o (y \o more)
        BY Associates
      <4> QED
        BY <2>5, <4>1, <4>2, <4>3
    <3>5. wire' \o Rest(FlattenSeq(queue), n) = pushed
      <4>1. wire \o FlattenSeq(queue) = pushed
        BY <1>1, <2>11 DEF Ordered, Unsent
      <4> QED
        BY <2>1, <3>1, <3>2, <3>3, <3>4, <4>1
    <3> QED
      BY <1>1, <2>1, <3>5 DEF Ordered, Unsent
  <2>12. (total = 0 \/ total > 0) /\ room > 0
    BY <1>3, <2>3
  <2> QED
    BY <1>1, <2>10, <2>11, <2>12 DEF KeptOrder
<1> QED
  BY <1>2, <1>3

LEMMA SendFails ==
  ASSUME SendInv, WritevFails
  PROVE  SendInv' /\ KeptOrder
<1>1. pc = "write" /\ pc' = "failed"
      /\ UNCHANGED <<queue, job, buf, write, total, room, wire, pushed, told, messages>>
  BY DEF WritevFails
<1> QED
  BY <1>1 DEF SendInv, SendTypes, KeptOrder, Ordered, Unsent

LEMMA SendAdvance ==
  ASSUME SendInv, Advance
  PROVE  SendInv' /\ KeptOrder
<1>1. pc = "advance" /\ UNCHANGED <<job, buf, total, room, wire, pushed, told, messages>>
  BY DEF Advance
<1> DEFINE bytes == FlattenSeq(queue)
<1>2. /\ queue \in Seq(Seq(Byte)) /\ bytes \in Seq(Byte) /\ Len(bytes) \in Nat /\ write \in Nat
      /\ Len(wire) \in Nat /\ Len(pushed) \in Nat
      /\ Len(wire) + Len(bytes) = Len(pushed) + write
  BY <1>1, UnsentType, LenProperties DEF SendInv, SendTypes
<1>3. CASE write = 0
  <2>1. pc' = "fill" /\ queue' = queue /\ write' = write
    BY <1>3 DEF Advance
  <2>2. Rest(bytes, 0) = bytes
    BY <1>2, RestNone
  <2>3. Len(wire) + Len(bytes) = Len(pushed)
    BY <1>2, <1>3
  <2>4. SendInv'
    BY <1>1, <2>1, <2>3 DEF SendInv, SendTypes
  <2> QED
    BY <1>1, <1>3, <2>1, <2>2, <2>4 DEF KeptOrder, Ordered, Unsent
<1>4. CASE write # 0 /\ queue # <<>>
  <2> DEFINE head == Head(queue)
             tail == FlattenSeq(Tail(queue))
             move == Lesser(write, Len(head))
             left == Rest(head, move)
  <2>1. /\ queue' = (IF left = <<>> THEN <<>> ELSE <<left>>) \o Tail(queue)
        /\ write' = write - move /\ pc' = pc
    BY <1>4 DEF Advance
  <2>2. /\ head \in Seq(Byte) /\ Len(head) \in Nat /\ Tail(queue) \in Seq(Seq(Byte))
        /\ bytes = head \o tail /\ Len(bytes) = Len(head) + Len(tail)
    BY <1>2, <1>4, FlattenHead
  <2>3. tail \in Seq(Byte) /\ Len(tail) \in Nat
    BY <2>2, MessagesAre
  <2> HIDE DEF bytes, head, tail
  <2>4. move \in 0 .. Len(head) /\ move <= write
    BY <1>2, <2>2 DEF Lesser
  <2> HIDE DEF move
  <2>5. left \in Seq(Byte) /\ Len(left) = Len(head) - move
    BY <2>2, <2>4, FirstRest
  <2>6. left \o tail \in Seq(Byte) /\ Len(left \o tail) = Len(left) + Len(tail)
    BY <2>3, <2>5, ConcatProperties
  <2>7. Rest(bytes, write) = Rest(left \o tail, write - move)
    <3>1. CASE write <= Len(bytes)
      BY <1>2, <2>2, <2>3, <2>4, <3>1, RestConcat
    <3>2. CASE ~ (write <= Len(bytes))
      <4>1. Rest(bytes, write) = <<>>
        BY <1>2, <3>2, RestAll
      <4>2. write - move \in Nat /\ Len(left \o tail) <= write - move
        BY <1>2, <2>2, <2>3, <2>4, <2>5, <2>6, <3>2
      <4>3. Rest(left \o tail, write - move) = <<>>
        <5> HIDE DEF left
        <5> QED
          BY <2>6, <4>2, RestAll
      <4> QED
        BY <4>1, <4>3
    <3> QED
      BY <3>1, <3>2
  <2> HIDE DEF left
  <2>8. queue' \in Seq(Seq(Byte)) /\ FlattenSeq(queue') = left \o tail
    <3>1. CASE left = <<>>
      <4>1. queue' = Tail(queue) /\ left \o tail = tail
        BY <2>1, <2>2, <2>3, <3>1, ConcatEmptySeq
      <4> QED
        BY <2>2, <4>1 DEF tail
    <3>2. CASE left # <<>>
      <4>1. queue' = <<left>> \o Tail(queue) /\ <<left>> \in Seq(Seq(Byte))
        BY <2>1, <2>5, <3>2
      <4>2. queue' \in Seq(Seq(Byte))
        BY <2>2, <4>1, ConcatProperties
      <4> QED
        BY <2>2, <2>5, <4>1, <4>2, FlattenCons DEF tail
    <3> QED
      BY <3>1, <3>2
  <2>9. Len(FlattenSeq(queue')) = Len(bytes) - move
    <3>1. Len(FlattenSeq(queue')) = Len(left) + Len(tail)
      BY <2>6, <2>8
    <3>2. Len(left) + Len(tail) = (Len(head) + Len(tail)) - move
      BY <2>2, <2>3, <2>4, <2>5
    <3> QED
      BY <2>2, <3>1, <3>2
  <2>10. write' \in Nat /\ Len(wire) + Len(FlattenSeq(queue')) = Len(pushed) + write'
    <3>1. PICK old \in Nat, sent \in Nat, all \in Nat :
            old = Len(bytes) /\ sent = Len(wire) /\ all = Len(pushed)
      BY <1>2
    <3>2. sent + old = all + write /\ write \in Nat
      BY <1>2, <3>1
    <3>3. Len(FlattenSeq(queue')) = old - move /\ write' = write - move
      BY <2>1, <2>9, <3>1
    <3>4. move \in Nat /\ move <= write
      BY <2>2, <2>4
    <3>5. write - move \in Nat /\ sent + (old - move) = all + (write - move)
      BY <3>2, <3>4
    <3> QED
      BY <3>1, <3>3, <3>5
  <2>11. SendInv'
    BY <1>1, <2>1, <2>8, <2>10 DEF SendInv, SendTypes
  <2>12. Ordered => Ordered'
    BY <1>1, <2>1, <2>7, <2>8 DEF Ordered, Unsent, bytes
  <2> QED
    BY <2>11, <2>12 DEF KeptOrder
<1>5. CASE write # 0 /\ queue = <<>>
  <2>1. pc' = "undefined" /\ queue' = queue /\ write' = write
    BY <1>5 DEF Advance
  <2>2. bytes = <<>> /\ Rest(bytes, write) = <<>>
    <3>1. bytes = <<>>
      BY <1>5, FlattenEmpty
    <3>2. Len(bytes) <= write
      BY <1>2, <3>1
    <3> HIDE DEF bytes
    <3> QED
      BY <1>2, <3>1, <3>2, RestAll
  <2>3. SendInv'
    BY <1>1, <2>1 DEF SendInv, SendTypes
  <2> QED
    BY <1>1, <2>1, <2>2, <2>3 DEF KeptOrder, Ordered, Unsent
<1> QED
  BY <1>3, <1>4, <1>5

LEMMA SendReads ==
  ASSUME SendInv, PeerReads
  PROVE  SendInv' /\ KeptOrder
<1>1. room' = room + 1
      /\ UNCHANGED <<queue, buf, write, total, wire, pushed, told, messages, pc>>
  BY DEF PeerReads
<1> QED
  BY <1>1 DEF SendInv, SendTypes, KeptOrder, Ordered, Unsent

LEMMA SendStep ==
  ASSUME SendInv, [Next]_vars
  PROVE  SendInv' /\ KeptOrder
<1>1. CASE Next
  BY <1>1, SendWrite, SendEnter, SendFinds, SendFill, SendWritev, SendFails, SendAdvance,
     SendReads DEF Next, Step
<1>2. CASE UNCHANGED vars
  BY <1>2 DEF vars, SendInv, SendTypes, KeptOrder, Ordered, Unsent
<1> QED
  BY <1>1, <1>2

(* Between two calls of _send_remains() on_write() has told of every byte  *)
(* the socket took, and the queue has given up one byte for each, whatever *)
(* the length of the queue and of the messages and however fast the peer   *)
(* reads.                                                                  *)
THEOREM ConservedTheorem == Spec => []Conserved
<1>1. Init => SendInv
  BY SendInit
<1>2. SendInv /\ [Next]_vars => SendInv'
  BY SendStep
<1>3. SendInv => Conserved
  BY DEF SendInv, Conserved
<1> QED
  BY <1>1, <1>2, <1>3, PTL DEF Spec

(* What is ordered the socket took in order.                               *)
LEMMA OrderedIsInOrder ==
  ASSUME SendInv, Ordered
  PROVE  InOrder
<1>1. wire \in Seq(Byte) /\ Unsent \in Seq(Byte)
  BY UnsentType DEF SendInv, SendTypes
<1>2. /\ pushed = wire \o Unsent /\ pushed \in Seq(Byte)
      /\ Len(pushed) = Len(wire) + Len(Unsent) /\ Len(wire) \in Nat /\ Len(Unsent) \in Nat
      /\ \A i \in 1 .. Len(wire) : pushed[i] = wire[i]
  BY <1>1, ConcatProperties, LenProperties DEF SendInv, SendTypes, Ordered
<1>3. SubSeq(pushed, 1, Len(wire)) = SubSeq(wire, 1, Len(wire))
  BY <1>1, <1>2
<1> QED
  BY <1>1, <1>2, <1>3 DEF InOrder, IsPrefix

(* In every execution the socket takes the filters' bytes in their order,  *)
(* none twice and none left out, and the queue holds the others, until a   *)
(* writev() that follows another of its call takes bytes: no other step    *)
(* repeats a byte or leaves one out.                                       *)
THEOREM KeepsOrderTheorem == Spec => KeepsOrder
<1>1. Init => SendInv
  BY SendInit
<1>2. SendInv /\ [Next]_vars => SendInv'
  BY SendStep
<1>3. SendInv => (Ordered => InOrder)
  BY OrderedIsInOrder
<1>4. SendInv /\ SendInv' /\ (Ordered => InOrder)' /\ [Next]_vars
        => [Ordered => (Ordered /\ InOrder)' \/ (pc = "write" /\ total > 0 /\ room > 0)]_vars
  BY SendStep DEF KeptOrder
<1> QED
  BY <1>1, <1>2, <1>3, <1>4, PTL DEF Spec, KeepsOrder

-----------------------------------------------------------------------------
(* The blocks (MemoryBlock).                                               *)

Null == Blocks!Null
Content == Holders \cup {"undefined"}
Addresses == Buffers \cup {Null}

HeapType == [Buffers -> [count : Nat, bytes : Seq(Content)]]
Ops == [does : {"none", "write", "align", "clear", "nothing"}, size : Nat,
        bytes : Seq(Holders), old : Addresses]
BlockTypes ==
  /\ heap \in HeapType
  /\ base \in [Holders -> Addresses]
  /\ rd \in [Holders -> Nat] /\ wr \in [Holders -> Nat]
  /\ at \in [Holders -> {"gone", "idle", "moved", "drop", "replace", "act"}]
  /\ op \in [Holders -> Ops]

(* A block that has got its buffer from reserve() and has not written yet. *)
Writing(h) == at[h] = "act" \/ (at[h] = "drop" /\ op[h].does # "none")

(* A block whose reserve() may have cut bytes before its positions.        *)
Short(h) == at[h] \in {"drop", "act"} /\ op[h].does = "nothing"

BlockOK(h) ==
  /\ at[h] \in {"gone", "moved"} <=> base[h] = Null
  /\ at[h] # "drop" => op[h].old = Null
  /\ at[h] \in {"act", "replace"} => op[h].does # "none"
  /\ at[h] \in {"gone", "idle", "moved"} => op[h].does = "none"
  /\ base[h] # Null => /\ rd[h] <= wr[h]
                       /\ Short(h) \/ wr[h] <= Len(heap[base[h]].bytes)
                       /\ \A i \in 1 .. wr[h] : i <= Len(heap[base[h]].bytes)
                            => heap[base[h]].bytes[i] \in Holders
  /\ at[h] = "replace" /\ op[h].does # "nothing" => wr[h] <= op[h].size
  /\ op[h].does = "write" => op[h].size = wr[h] + Len(op[h].bytes)
  /\ Writing(h) => heap[base[h]].count = 1 /\ op[h].size <= Len(heap[base[h]].bytes)

BlockInv == BlockTypes /\ (\A h \in Holders : BlockOK(h)) /\ CountsHolders

LEMMA NullIs == Null = 0 /\ Null \notin Buffers
BY BlockAssumption DEF Null, Blocks!Null

LEMMA BlocksCardinality == \A S : Blocks!Cardinality(S) = Cardinality(S)
BY DEF Blocks!Cardinality, Cardinality

(* The holders that f maps to b.                                           *)
HeldBy(f, b) == {h \in Holders : f[h] = b}
Held(f, b) == Cardinality(HeldBy(f, b))
Olds == [h \in Holders |-> op[h].old]

LEMMA HeldType == \A f, b : IsFiniteSet(HeldBy(f, b)) /\ Held(f, b) \in Nat
<1> SUFFICES ASSUME NEW f, NEW b PROVE IsFiniteSet(HeldBy(f, b)) /\ Held(f, b) \in Nat
  OBVIOUS
<1>1. HeldBy(f, b) \subseteq Holders
  BY DEF HeldBy
<1> QED
  BY <1>1, BlockAssumption, FS_Subset, FS_CardinalityType DEF Held

(* f becomes g when its value for u becomes x.                             *)
Updated(g, f, u, x) == \A v \in Holders : g[v] = IF v = u THEN x ELSE f[v]

LEMMA HeldExcept ==
  ASSUME NEW f, NEW g, NEW u \in Holders, NEW x, NEW b, Updated(g, f, u, x)
  PROVE  Held(g, b) = Held(f, b) - One(f[u] = b) + One(x = b)
<1> DEFINE A == HeldBy(f, b)
<1>1. IsFiniteSet(A) /\ Cardinality(A) \in Nat
  BY HeldType DEF Held
<1>2. HeldBy(g, b) = IF x = b THEN (A \ {u}) \cup {u} ELSE A \ {u}
  BY DEF HeldBy, Updated
<1>3. u \in A <=> f[u] = b
  BY DEF HeldBy
<1> HIDE DEF A
<1>4. /\ IsFiniteSet(A \ {u})
      /\ Cardinality(A \ {u}) = IF u \in A THEN Cardinality(A) - 1 ELSE Cardinality(A)
  BY <1>1, FS_RemoveElement
<1>5. Cardinality((A \ {u}) \cup {u}) = Cardinality(A \ {u}) + 1
  BY <1>4, FS_AddElement
<1>6. Cardinality(HeldBy(g, b)) = Cardinality(A) - One(f[u] = b) + One(x = b)
  BY <1>1, <1>2, <1>3, <1>4, <1>5 DEF One
<1> QED
  BY <1>6 DEF Held, A

LEMMA HeldOnce ==
  ASSUME NEW f, NEW u \in Holders, NEW b, f[u] = b
  PROVE  Held(f, b) >= 1
<1>1. u \in HeldBy(f, b)
  BY DEF HeldBy
<1>2. IsFiniteSet(HeldBy(f, b)) /\ Held(f, b) \in Nat
  BY HeldType
<1>3. Held(f, b) # 0
  BY <1>1, <1>2, FS_EmptySet DEF Held
<1> QED
  BY <1>2, <1>3

LEMMA HeldTwice ==
  ASSUME NEW f, NEW u \in Holders, NEW v \in Holders, u # v, NEW b, f[u] = b, f[v] = b
  PROVE  Held(f, b) >= 2
<1>1. {u, v} \subseteq HeldBy(f, b)
  BY DEF HeldBy
<1>2. IsFiniteSet(HeldBy(f, b)) /\ Held(f, b) \in Nat
  BY HeldType
<1>3. Cardinality({u, v}) <= Cardinality(HeldBy(f, b))
  BY <1>1, <1>2, FS_Subset
<1>4. Cardinality({u, v}) = 2
  <2>1. IsFiniteSet({u}) /\ Cardinality({u}) = 1 /\ v \notin {u} /\ {u, v} = {u} \cup {v}
    BY FS_Singleton
  <2>2. Cardinality({u} \cup {v}) = Cardinality({u}) + 1
    BY <2>1, FS_AddElement
  <2> QED
    BY <2>1, <2>2
<1> QED
  BY <1>2, <1>3, <1>4 DEF Held

(* A buffer is in use if its count is not 0, *)
LEMMA CountsAre ==
  ASSUME BlockTypes, CountsHolders, NEW b \in Buffers
  PROVE  /\ heap[b].count = Held(base, b) + Held(Olds, b)
         /\ Held(base, b) \in Nat /\ Held(Olds, b) \in Nat
<1>1. {h \in Holders : op[h].old = b} = HeldBy(Olds, b)
  BY DEF Olds, HeldBy
<1>2. {h \in Holders : base[h] = b} = HeldBy(base, b)
  BY DEF HeldBy
<1>3. heap[b].count = Cardinality({h \in Holders : base[h] = b})
                        + Cardinality({h \in Holders : op[h].old = b})
  BY BlocksCardinality DEF CountsHolders, Blocks!CountsHolders
<1> QED
  BY <1>1, <1>2, <1>3, HeldType DEF Held

(* and a buffer with the count 1 belongs to one block.                     *)
LEMMA Users ==
  ASSUME BlockTypes, CountsHolders, NEW h \in Holders
  PROVE  /\ base[h] # Null => /\ base[h] \in Buffers /\ heap[base[h]].count >= 1
                              /\ heap[base[h]].count = 1 =>
                                   \A g \in Holders : /\ base[g] = base[h] => g = h
                                                      /\ op[g].old # base[h]
         /\ op[h].old # Null => /\ op[h].old \in Buffers /\ heap[op[h].old].count >= 1
                                /\ heap[op[h].old].count = 1 =>
                                     \A g \in Holders : base[g] # op[h].old
<1>1. /\ base \in [Holders -> Addresses] /\ Olds \in [Holders -> Addresses]
      /\ \A g \in Holders : Olds[g] = op[g].old
  BY DEF BlockTypes, Ops, Olds
<1>2. ASSUME base[h] # Null
      PROVE  /\ base[h] \in Buffers /\ heap[base[h]].count >= 1
             /\ heap[base[h]].count = 1 =>
                  \A g \in Holders : /\ base[g] = base[h] => g = h
                                     /\ op[g].old # base[h]
  <2>1. base[h] \in Buffers
    BY <1>1, <1>2 DEF Addresses
  <2>2. /\ heap[base[h]].count = Held(base, base[h]) + Held(Olds, base[h])
        /\ Held(base, base[h]) \in Nat /\ Held(Olds, base[h]) \in Nat
    BY <2>1, CountsAre
  <2>3. Held(base, base[h]) >= 1
    BY <1>1, HeldOnce
  <2>4. ASSUME heap[base[h]].count = 1, NEW g \in Holders PROVE base[g] = base[h] => g = h
    <3>1. ASSUME base[g] = base[h], g # h PROVE FALSE
      <4>1. Held(base, base[h]) >= 2
        BY <1>1, <3>1, HeldTwice
      <4> QED
        BY <2>2, <2>4, <4>1
    <3> QED
      BY <3>1
  <2>5. ASSUME heap[base[h]].count = 1, NEW g \in Holders PROVE op[g].old # base[h]
    <3>1. ASSUME op[g].old = base[h] PROVE FALSE
      <4>1. Held(Olds, base[h]) >= 1
        BY <1>1, <3>1, HeldOnce
      <4> QED
        BY <2>2, <2>3, <2>5, <4>1
    <3> QED
      BY <3>1
  <2> QED
    BY <2>1, <2>2, <2>3, <2>4, <2>5
<1>3. ASSUME op[h].old # Null
      PROVE  /\ op[h].old \in Buffers /\ heap[op[h].old].count >= 1
             /\ heap[op[h].old].count = 1 => \A g \in Holders : base[g] # op[h].old
  <2> DEFINE b == op[h].old
  <2>1. b \in Buffers /\ Olds[h] = b
    BY <1>1, <1>3 DEF Addresses
  <2>2. /\ heap[b].count = Held(base, b) + Held(Olds, b)
        /\ Held(base, b) \in Nat /\ Held(Olds, b) \in Nat
    BY <2>1, CountsAre
  <2>3. Held(Olds, b) >= 1
    BY <1>1, <2>1, HeldOnce
  <2> HIDE DEF b
  <2>4. ASSUME heap[b].count = 1, NEW g \in Holders PROVE base[g] # b
    <3>1. ASSUME base[g] = b PROVE FALSE
      <4>1. Held(base, b) >= 1
        BY <3>1, HeldOnce
      <4> QED
        BY <2>2, <2>3, <2>4, <3>1, <4>1
    <3> QED
      BY <3>1
  <2> QED
    BY <2>1, <2>2, <2>3, <2>4 DEF b
<1> QED
  BY <1>2, <1>3

(* malloc() finds a free buffer for a block that has no old one to give up.*)
LEMMA FreeIs ==
  ASSUME BlockTypes, CountsHolders, NEW u \in Holders, op[u].old = Null
  PROVE  Blocks!Free \in Buffers /\ heap[Blocks!Free].count = 0
<1> DEFINE Others == Holders \ {u}
           InUse == {base[h] : h \in Holders} \cup {op[h].old : h \in Others}
<1>1. /\ IsFiniteSet(Holders) /\ Cardinality(Holders) \in Nat
      /\ IsFiniteSet(Buffers) /\ Cardinality(Buffers) \in Nat
      /\ Cardinality(Buffers) >= 2 * Cardinality(Holders)
  BY BlockAssumption, FS_CardinalityType
<1>2. IsFiniteSet(Others) /\ Cardinality(Others) = Cardinality(Holders) - 1
  BY <1>1, FS_RemoveElement
<1> DEFINE A == {base[h] : h \in Holders}
           B == {op[h].old : h \in Others}
<1>3. IsFiniteSet(A) /\ Cardinality(A) <= Cardinality(Holders)
  <2>1. [h \in Holders |-> base[h]] \in Surjection(Holders, A)
    BY DEF Surjection
  <2> HIDE DEF A
  <2> QED
    BY <1>1, <2>1, FS_Surjection
<1>4. IsFiniteSet(B) /\ Cardinality(B) <= Cardinality(Others)
  <2>1. [h \in Others |-> op[h].old] \in Surjection(Others, B)
    BY DEF Surjection
  <2> HIDE DEF B, Others
  <2> QED
    BY <1>2, <2>1, FS_Surjection
<1>5. IsFiniteSet(A \cup B) /\ Cardinality(A \cup B) <= Cardinality(A) + Cardinality(B)
  <2>1. IsFiniteSet(A \cap B)
    BY <1>3, FS_Subset
  <2>2. Cardinality(A) \in Nat /\ Cardinality(B) \in Nat /\ Cardinality(A \cap B) \in Nat
    BY <1>3, <1>4, <2>1, FS_CardinalityType
  <2> HIDE DEF A, B
  <2>3. IsFiniteSet(A \cup B)
        /\ Cardinality(A \cup B) = Cardinality(A) + Cardinality(B) - Cardinality(A \cap B)
    BY <1>3, <1>4, FS_Union
  <2> QED
    BY <2>2, <2>3
<1>6. Cardinality(Holders) >= 1
  <2>1. Cardinality(Holders) # 0
    BY <1>1, FS_EmptySet
  <2> QED
    BY <1>1, <2>1
<1>7. \E b \in Buffers : b \notin A \cup B
  <2> SUFFICES ASSUME Buffers \subseteq A \cup B PROVE FALSE
    OBVIOUS
  <2> HIDE DEF A, B, Others
  <2>1. Cardinality(Buffers) <= Cardinality(A \cup B)
    BY <1>5, FS_Subset
  <2>2. Cardinality(A) \in Nat /\ Cardinality(B) \in Nat /\ Cardinality(A \cup B) \in Nat
    BY <1>3, <1>4, <1>5, FS_CardinalityType
  <2> QED
    BY <1>1, <1>2, <1>3, <1>4, <1>5, <1>6, <2>1, <2>2
<1>8. PICK b \in Buffers : heap[b].count = 0
  <2>1. PICK b \in Buffers : b \notin A \cup B
    BY <1>7
  <2>2. \A h \in Holders : op[h].old # b
    BY <2>1, NullIs
  <2>3. HeldBy(base, b) = {} /\ HeldBy(Olds, b) = {}
    BY <2>1, <2>2 DEF HeldBy, Olds
  <2>4. Held(base, b) = 0 /\ Held(Olds, b) = 0
    BY <2>3, FS_EmptySet DEF Held
  <2>5. heap[b].count = 0
    BY <2>4, CountsAre
  <2> QED
    BY <2>5
<1> DEFINE Unused == {a \in Buffers : heap[a].count = 0}
<1>9. PICK a \in Unused : \A c \in Unused : a <= c
  <2>1. Unused \in SUBSET Nat /\ Unused # {}
    BY <1>8, BlockAssumption
  <2> HIDE DEF Unused
  <2> QED
    BY <2>1, SmallestIn
<1>10. a \in Buffers /\ heap[a].count = 0 /\ \A c \in Buffers : heap[c].count = 0 => a <= c
  BY <1>9
<1> QED
  BY <1>10 DEF Blocks!Free

-----------------------------------------------------------------------------
(* What the operations do to the heap.                                     *)

HeapBecomes(plus, minus) ==
  /\ heap' \in HeapType
  /\ \A b \in Buffers : heap'[b].count = heap[b].count + One(b = plus) - One(b = minus)

LEMMA HeapIs ==
  ASSUME BlockTypes, NEW b \in Buffers
  PROVE  /\ heap[b].count \in Nat /\ heap[b].bytes \in Seq(Content)
         /\ heap[b] = [count |-> heap[b].count, bytes |-> heap[b].bytes]
         /\ Len(heap[b].bytes) \in Nat
BY LenProperties DEF BlockTypes, Ops, HeapType

LEMMA CountIs == BlockTypes => \A b \in Buffers : heap[b].count \in Nat
BY HeapIs

LEMMA NotNull == \A b \in Buffers : One(b = Null) = 0
BY NullIs DEF One

LEMMA HeapCounted ==
  ASSUME BlockTypes, NEW c \in Buffers, heap' = Blocks!Counted(c, 1)
  PROVE  /\ HeapBecomes(c, Null)
         /\ \A b \in Buffers : heap'[b].bytes = heap[b].bytes
<1>1. /\ heap \in HeapType
      /\ heap' = [heap EXCEPT ![c] = [count |-> heap[c].count + 1, bytes |-> heap[c].bytes]]
  <2>1. heap' = [heap EXCEPT ![c] = [heap[c] EXCEPT !.count = heap[c].count + 1]]
    BY DEF Blocks!Counted
  <2>2. [heap[c] EXCEPT !.count = heap[c].count + 1]
          = [count |-> heap[c].count + 1, bytes |-> heap[c].bytes]
    BY DEF BlockTypes, Ops, HeapType
  <2> QED
    BY <2>1, <2>2 DEF BlockTypes, Ops
<1>2. heap' \in HeapType
  <2>1. heap[c].count \in Nat /\ heap[c].bytes \in Seq(Content)
    BY HeapIs
  <2>2. [count |-> heap[c].count + 1, bytes |-> heap[c].bytes] \in [count : Nat, bytes : Seq(Content)]
    BY <2>1
  <2> QED
    BY <1>1, <2>2 DEF HeapType
<1>3. \A b \in Buffers : /\ heap'[b].count = heap[b].count + (IF b = c THEN 1 ELSE 0)
                         /\ heap'[b].bytes = heap[b].bytes
  BY <1>1, HeapIs DEF HeapType
<1> QED
  BY <1>2, <1>3, NotNull, CountIs DEF HeapBecomes, One

LEMMA HeapCreated ==
  ASSUME BlockTypes, NEW c \in Buffers, heap[c].count = 0, NEW s \in Seq(Content),
         heap' = [heap EXCEPT ![c] = [count |-> 1, bytes |-> s]]
  PROVE  /\ HeapBecomes(c, Null)
         /\ heap'[c].bytes = s
         /\ \A b \in Buffers : b # c => heap'[b].bytes = heap[b].bytes
<1>1. heap \in HeapType
  BY DEF BlockTypes, Ops
<1>2. heap' \in HeapType
  BY <1>1 DEF HeapType
<1>3. \A b \in Buffers : /\ heap'[b].count = heap[b].count + (IF b = c THEN 1 ELSE 0)
                         /\ heap'[b].bytes = IF b = c THEN s ELSE heap[b].bytes
  BY <1>1, HeapIs DEF HeapType
<1> QED
  BY <1>2, <1>3, NotNull, CountIs DEF HeapBecomes, One

LEMMA HeapWritten ==
  ASSUME BlockTypes, NEW c \in Buffers, NEW s \in Seq(Content),
         heap' = [heap EXCEPT ![c].bytes = s]
  PROVE  /\ HeapBecomes(Null, Null)
         /\ heap'[c].bytes = s
         /\ \A b \in Buffers : b # c => heap'[b].bytes = heap[b].bytes
<1>1. heap \in HeapType
  BY DEF BlockTypes, Ops
<1>2. heap' \in HeapType
  BY <1>1, HeapIs DEF HeapType
<1>3. \A b \in Buffers : /\ heap'[b].count = heap[b].count
                         /\ heap'[b].bytes = IF b = c THEN s ELSE heap[b].bytes
  BY <1>1, HeapIs DEF HeapType
<1> QED
  BY <1>2, <1>3, NotNull, CountIs DEF HeapBecomes, One

LEMMA HeapStays ==
  ASSUME BlockTypes, UNCHANGED heap
  PROVE  /\ HeapBecomes(Null, Null)
         /\ \A b \in Buffers : heap'[b].bytes = heap[b].bytes
BY NotNull, CountIs DEF HeapBecomes, One, BlockTypes, Ops

(* A buffer that is given up keeps its bytes if another block holds it.    *)
LEMMA HeapUncounted ==
  ASSUME BlockTypes, NEW c \in Addresses, c # Null => heap[c].count >= 1,
         heap' = Blocks!Uncounted(c)
  PROVE  /\ HeapBecomes(Null, c)
         /\ \A b \in Buffers : (b = c /\ heap[b].count = 1) \/ heap'[b].bytes = heap[b].bytes
<1>1. CASE c = Null
  <2>1. UNCHANGED heap
    BY <1>1 DEF Blocks!Uncounted, Null
  <2> QED
    BY <1>1, <2>1, HeapStays
<1>2. CASE c # Null
  <2>1. c \in Buffers /\ heap \in HeapType
    BY <1>2 DEF Addresses, BlockTypes, Ops
  <2>2. heap' = [heap EXCEPT ![c] = [count |-> heap[c].count - 1,
                                     bytes |-> IF heap[c].count = 1 THEN <<>> ELSE heap[c].bytes]]
    BY <1>2, <2>1 DEF Blocks!Uncounted, Null
  <2>3. heap[c].count - 1 \in Nat /\ (IF heap[c].count = 1 THEN <<>> ELSE heap[c].bytes) \in Seq(Content)
    <3>1. heap[c].count \in Nat /\ heap[c].bytes \in Seq(Content) /\ heap[c].count >= 1
      BY <1>2, <2>1, HeapIs
    <3>2. <<>> \in Seq(Content)
      OBVIOUS
    <3> QED
      BY <3>1, <3>2
  <2>4. heap' \in HeapType
    BY <2>1, <2>2, <2>3 DEF HeapType
  <2>5. \A b \in Buffers : /\ heap'[b].count = heap[b].count - (IF b = c THEN 1 ELSE 0)
                           /\ (b = c /\ heap[b].count = 1) \/ heap'[b].bytes = heap[b].bytes
    BY <2>1, <2>2, HeapIs DEF HeapType
  <2>6. \A b \in Buffers : heap'[b].count = heap[b].count + One(b = Null) - One(b = c)
    <3>1. ASSUME NEW b \in Buffers
          PROVE  heap'[b].count = heap[b].count + One(b = Null) - One(b = c)
      <4>1. heap'[b].count = heap[b].count - (IF b = c THEN 1 ELSE 0)
        BY <2>5
      <4>2. heap[b].count \in Nat /\ One(b = Null) = 0
        BY NotNull, CountIs
      <4>3. One(b = c) = IF b = c THEN 1 ELSE 0
        BY DEF One
      <4> QED
        BY <4>1, <4>2, <4>3
    <3> QED
      BY <3>1
  <2> QED
    BY <2>4, <2>5, <2>6 DEF HeapBecomes
<1> QED
  BY <1>1, <1>2

(* The counts follow when one block changes its buffer or its old one.     *)
Balance(plus, minus, h, x, y) ==
  \A b \in Buffers : One(b = plus) - One(b = minus)
                       = One(x = b) - One(base[h] = b) + One(y = b) - One(op[h].old = b)

LEMMA CountsFollow ==
  ASSUME BlockTypes, CountsHolders, NEW h \in Holders, NEW x, NEW y, NEW plus, NEW minus,
         HeapBecomes(plus, minus), Balance(plus, minus, h, x, y),
         Updated(base', base, h, x), Updated(Olds', Olds, h, y)
  PROVE  CountsHolders'
<1> SUFFICES ASSUME NEW b \in Buffers
             PROVE  heap'[b].count = Cardinality({k \in Holders : base'[k] = b})
                                       + Cardinality({k \in Holders : op'[k].old = b})
  BY BlocksCardinality DEF CountsHolders, Blocks!CountsHolders
<1>1. /\ heap[b].count = Held(base, b) + Held(Olds, b)
      /\ Held(base, b) \in Nat /\ Held(Olds, b) \in Nat
  BY CountsAre
<1>2. Olds[h] = op[h].old
  BY DEF Olds
<1>3. Held(base', b) = Held(base, b) - One(base[h] = b) + One(x = b)
  BY HeldExcept
<1>4. Held(Olds', b) = Held(Olds, b) - One(op[h].old = b) + One(y = b)
  BY <1>2, HeldExcept
<1>5. heap'[b].count = heap[b].count + One(b = plus) - One(b = minus)
  BY DEF HeapBecomes
<1>6. One(b = plus) - One(b = minus)
        = One(x = b) - One(base[h] = b) + One(y = b) - One(op[h].old = b)
  BY DEF Balance
<1>7. heap'[b].count = Held(base', b) + Held(Olds', b)
  BY <1>1, <1>3, <1>4, <1>5, <1>6 DEF One
<1>8. {k \in Holders : op'[k].old = b} = HeldBy(Olds', b)
  BY DEF Olds, HeldBy
<1>9. {k \in Holders : base'[k] = b} = HeldBy(base', b)
  BY DEF HeldBy
<1> QED
  BY <1>7, <1>8, <1>9 DEF Held

-----------------------------------------------------------------------------
(* What is left alone.                                                     *)

Same(g) ==
  /\ base'[g] = base[g] /\ rd'[g] = rd[g] /\ wr'[g] = wr[g]
  /\ at'[g] = at[g] /\ op'[g] = op[g]

Stays(g) ==
  /\ Same(g)
  /\ base[g] # Null => heap'[base[g]].bytes = heap[base[g]].bytes
  /\ Writing(g) => heap'[base[g]].count = heap[base[g]].count

LEMMA StaysOK ==
  ASSUME NEW g \in Holders, BlockOK(g), Stays(g)
  PROVE  BlockOK(g)'
<1>1. CASE base[g] = Null
  <2>1. at[g] \in {"gone", "moved"} /\ ~ Writing(g)
    BY <1>1 DEF BlockOK, Writing, Short
  <2> QED
    BY <1>1, <2>1 DEF BlockOK, Stays, Same, Writing
<1>2. CASE base[g] # Null
  BY <1>2 DEF BlockOK, Stays, Same, Writing, Short
<1> QED
  BY <1>1, <1>2

LEMMA Assemble ==
  ASSUME BlockInv, NEW h \in Holders, \A g \in Holders : g = h \/ Stays(g), BlockOK(h)',
         BlockTypes', CountsHolders'
  PROVE  BlockInv'
<1>1. \A g \in Holders : BlockOK(g)'
  <2> SUFFICES ASSUME NEW g \in Holders PROVE BlockOK(g)'
    OBVIOUS
  <2>1. BlockOK(g)
    BY DEF BlockInv
  <2> QED
    BY <2>1, StaysOK
<1> QED
  BY <1>1 DEF BlockInv

(* A block that may write has its buffer for itself.                       *)
LEMMA WritingIs ==
  ASSUME BlockInv, NEW g \in Holders, Writing(g)
  PROVE  /\ base[g] # Null /\ base[g] \in Buffers /\ heap[base[g]].count = 1
         /\ \A k \in Holders : (base[k] = base[g] => k = g) /\ op[k].old # base[g]
<1>1. BlockTypes /\ CountsHolders /\ BlockOK(g)
  BY DEF BlockInv
<1>2. base[g] # Null /\ heap[base[g]].count = 1
  BY <1>1 DEF BlockOK, Writing, Short
<1> QED
  BY <1>1, <1>2, Users

LEMMA OthersStay ==
  ASSUME BlockInv, NEW g \in Holders, Same(g), NEW plus, NEW minus, HeapBecomes(plus, minus),
         base[g] # Null => heap'[base[g]].bytes = heap[base[g]].bytes,
         Writing(g) => base[g] # plus /\ base[g] # minus
  PROVE  Stays(g)
<1>1. ASSUME Writing(g) PROVE heap'[base[g]].count = heap[base[g]].count
  <2>1. base[g] \in Buffers /\ heap[base[g]].count = 1 /\ base[g] # plus /\ base[g] # minus
    BY <1>1, WritingIs
  <2>2. heap'[base[g]].count = heap[base[g]].count + One(base[g] = plus) - One(base[g] = minus)
    BY <2>1 DEF HeapBecomes
  <2> QED
    BY <2>1, <2>2 DEF One
<1> QED
  BY <1>1 DEF Stays

(* A free buffer is nobody's.                                              *)
LEMMA Unheld ==
  ASSUME BlockInv, NEW c \in Buffers, heap[c].count = 0, NEW g \in Holders
  PROVE  base[g] # c /\ op[g].old # c
<1>1. BlockTypes /\ CountsHolders
  BY DEF BlockInv
<1>2. c # Null
  BY NullIs
<1>3. base[g] # Null => heap[base[g]].count >= 1
  BY <1>1, Users
<1>4. op[g].old # Null => heap[op[g].old].count >= 1
  BY <1>1, Users
<1> QED
  BY <1>2, <1>3, <1>4

-----------------------------------------------------------------------------
(* The values of the blocks.                                               *)

Texts == [h \in Holders |->
            IF h \in Blocks!Present
            THEN SubSeq(heap[base[h]].bytes, 1, Blocks!Lesser(Len(heap[base[h]].bytes), wr[h]))
            ELSE <<>>]
Reads == [h \in Holders |->
            IF h \in Blocks!Present THEN Blocks!Lesser(Len(heap[base[h]].bytes), rd[h]) ELSE 0]

(* The bytes up to position n, and a position in them.                     *)
Upto(bytes, n) == SubSeq(bytes, 1, Blocks!Lesser(Len(bytes), n))
Within(bytes, n) == Blocks!Lesser(Len(bytes), n)

LEMMA UptoFits ==
  ASSUME NEW T, NEW bytes \in Seq(T), NEW n \in Nat, n <= Len(bytes)
  PROVE  Upto(bytes, n) = SubSeq(bytes, 1, n) /\ Within(bytes, n) = n
<1>1. Len(bytes) \in Nat
  BY LenProperties
<1>2. Blocks!Lesser(Len(bytes), n) = n
  BY <1>1 DEF Blocks!Lesser
<1> QED
  BY <1>2 DEF Upto, Within

LEMMA ShowsIs ==
  ASSUME NEW h \in Holders
  PROVE  /\ h \in Blocks!Present <=> base[h] # Null
         /\ Texts[h] = IF base[h] # Null THEN Upto(heap[base[h]].bytes, wr[h]) ELSE <<>>
         /\ Reads[h] = IF base[h] # Null THEN Within(heap[base[h]].bytes, rd[h]) ELSE 0
BY DEF Texts, Reads, Blocks!Present, Null, Upto, Within

LEMMA ShowsNext ==
  ASSUME NEW h \in Holders
  PROVE  /\ h \in Blocks!Present' <=> base'[h] # Null
         /\ Texts'[h] = IF base'[h] # Null THEN Upto(heap'[base'[h]].bytes, wr'[h]) ELSE <<>>
         /\ Reads'[h] = IF base'[h] # Null THEN Within(heap'[base'[h]].bytes, rd'[h]) ELSE 0
BY DEF Texts, Reads, Blocks!Present, Null, Blocks!Null, Upto, Within

LEMMA StaysShows ==
  ASSUME NEW g \in Holders, Stays(g)
  PROVE  /\ g \in Blocks!Present' <=> g \in Blocks!Present
         /\ Texts'[g] = Texts[g] /\ Reads'[g] = Reads[g]
BY ShowsIs, ShowsNext DEF Stays, Same

(* Becomes() and the other operators of BlockValues, of these values.      *)
Shows(h, t, r) ==
  /\ Blocks!Present' = Blocks!Present \cup {h}
  /\ Texts' = [Texts EXCEPT ![h] = t] /\ Reads' = [Reads EXCEPT ![h] = r]

LEMMA ShowsAre ==
  ASSUME NEW h \in Holders, \A g \in Holders : g = h \/ Stays(g), base'[h] # Null
  PROVE  Shows(h, Texts'[h], Reads'[h])
<1>1. \A g \in Holders : g # h => /\ g \in Blocks!Present' <=> g \in Blocks!Present
                                  /\ Texts'[g] = Texts[g] /\ Reads'[g] = Reads[g]
  BY StaysShows
<1>2. Blocks!Present' = Blocks!Present \cup {h}
  <2>1. h \in Blocks!Present'
    BY ShowsNext
  <2>2. Blocks!Present \subseteq Holders /\ Blocks!Present' \subseteq Holders
    BY DEF Blocks!Present
  <2> QED
    BY <1>1, <2>1, <2>2
<1>3. Texts' = [Texts EXCEPT ![h] = Texts'[h]] /\ Reads' = [Reads EXCEPT ![h] = Reads'[h]]
  <2>1. /\ Texts = [g \in Holders |-> Texts[g]] /\ Texts' = [g \in Holders |-> Texts'[g]]
        /\ Reads = [g \in Holders |-> Reads[g]] /\ Reads' = [g \in Holders |-> Reads'[g]]
    BY DEF Texts, Reads
  <2> QED
    BY <1>1, <2>1
<1> QED
  BY <1>2, <1>3 DEF Shows

LEMMA ShowsCreate ==
  ASSUME NEW h \in Holders, Shows(h, <<>>, 0)
  PROVE  Blocks!Values!Next
<1>1. Blocks!Values!Create(h)
  BY DEF Shows, Texts, Reads, Blocks!Values!Create, Blocks!Values!Becomes
<1> QED
  BY <1>1 DEF Blocks!Values!Next

LEMMA ShowsCopy ==
  ASSUME NEW h \in Holders, NEW g \in Blocks!Present, Shows(h, Texts[g], Reads[g])
  PROVE  Blocks!Values!Next
<1>1. Blocks!Values!Copy(h, g)
  BY DEF Shows, Texts, Reads, Blocks!Values!Copy, Blocks!Values!Becomes
<1> QED
  BY <1>1 DEF Blocks!Values!Next

LEMMA ShowsDrop ==
  ASSUME NEW h \in Holders, Blocks!Present' = Blocks!Present \ {h},
         Texts' = [Texts EXCEPT ![h] = <<>>], Reads' = [Reads EXCEPT ![h] = 0]
  PROVE  Blocks!Values!Next
<1>1. Blocks!Values!Drop(h)
  BY DEF Texts, Reads, Blocks!Values!Drop
<1> QED
  BY <1>1 DEF Blocks!Values!Next

LEMMA ShowsMove ==
  ASSUME NEW h \in Holders, NEW g \in Blocks!Present,
         Blocks!Present' = (Blocks!Present \ {g}) \cup {h},
         Texts' = [Texts EXCEPT ![h] = Texts[g], ![g] = <<>>],
         Reads' = [Reads EXCEPT ![h] = Reads[g], ![g] = 0]
  PROVE  Blocks!Values!Next
<1>1. Blocks!Values!Move(h, g)
  BY DEF Texts, Reads, Blocks!Values!Move
<1> QED
  BY <1>1 DEF Blocks!Values!Next

LEMMA ShowsWrite ==
  ASSUME NEW h \in Blocks!Present, Shows(h, Texts'[h], Reads[h]),
         IsPrefix(Texts[h], Texts'[h]), \A i \in DOMAIN Texts'[h] : Texts'[h][i] \in Holders
  PROVE  Blocks!Values!Next
<1>1. Blocks!Values!Write(h)
  BY DEF Shows, Texts, Reads, Blocks!Values!Write, Blocks!Values!Becomes, IsPrefix,
     Blocks!Values!IsPrefix
<1> QED
  BY <1>1 DEF Blocks!Values!Next, Blocks!Present

LEMMA ShowsCut ==
  ASSUME NEW h \in Blocks!Present, NEW n \in 0 .. Len(Texts[h]),
         Shows(h, SubSeq(Texts[h], 1, n), IF Reads[h] <= n THEN Reads[h] ELSE n)
  PROVE  Blocks!Values!Next
<1>1. Blocks!Values!Cut(h)
  BY DEF Shows, Texts, Reads, Blocks!Values!Cut, Blocks!Values!Becomes
<1> QED
  BY <1>1 DEF Blocks!Values!Next, Blocks!Present

LEMMA ShowsRead ==
  ASSUME NEW h \in Blocks!Present, NEW r \in 0 .. Len(Texts[h]), Shows(h, Texts[h], r)
  PROVE  Blocks!Values!Next
<1>1. Blocks!Values!Read(h)
  BY DEF Shows, Texts, Reads, Blocks!Values!Read, Blocks!Values!Becomes
<1> QED
  BY <1>1 DEF Blocks!Values!Next, Blocks!Present

LEMMA ShowsAlign ==
  ASSUME NEW h \in Blocks!Present, Shows(h, SubSeq(Texts[h], Reads[h] + 1, Len(Texts[h])), 0)
  PROVE  Blocks!Values!Next
<1>1. Blocks!Values!Align(h)
  BY DEF Shows, Texts, Reads, Blocks!Values!Align, Blocks!Values!Becomes
<1> QED
  BY <1>1 DEF Blocks!Values!Next, Blocks!Present

LEMMA ShowsClear ==
  ASSUME NEW h \in Blocks!Present, Shows(h, <<>>, 0)
  PROVE  Blocks!Values!Next
<1>1. Blocks!Values!Clear(h)
  BY DEF Shows, Texts, Reads, Blocks!Values!Clear, Blocks!Values!Becomes
<1> QED
  BY <1>1 DEF Blocks!Values!Next, Blocks!Present

LEMMA ShowsSame ==
  ASSUME \A g \in Holders : /\ g \in Blocks!Present' <=> g \in Blocks!Present
                            /\ Texts'[g] = Texts[g] /\ Reads'[g] = Reads[g]
  PROVE  UNCHANGED Blocks!Values!vars
<1>1. Blocks!Present' = Blocks!Present
  BY DEF Blocks!Present
<1>2. Texts' = Texts /\ Reads' = Reads
  <2>1. /\ Texts = [g \in Holders |-> Texts[g]] /\ Texts' = [g \in Holders |-> Texts'[g]]
        /\ Reads = [g \in Holders |-> Reads[g]] /\ Reads' = [g \in Holders |-> Reads'[g]]
    BY DEF Texts, Reads
  <2> QED
    BY <2>1
<1> QED
  BY <1>1, <1>2 DEF Blocks!Values!vars, Texts, Reads

-----------------------------------------------------------------------------
(* Construction, copies and moves.                                         *)

Keeps == BlockInv' /\ (Blocks!Values!Next \/ UNCHANGED Blocks!Values!vars)

LEMMA BlockIs ==
  ASSUME BlockInv, NEW h \in Holders
  PROVE  /\ BlockTypes /\ CountsHolders /\ BlockOK(h)
         /\ base[h] \in Addresses /\ rd[h] \in Nat /\ wr[h] \in Nat
         /\ op[h].old \in Addresses /\ op[h].size \in Nat /\ op[h].bytes \in Seq(Holders)
         /\ base[h] # Null => /\ base[h] \in Buffers /\ heap[base[h]].bytes \in Seq(Content)
                              /\ heap[base[h]].count \in Nat /\ heap[base[h]].count >= 1
                              /\ Len(heap[base[h]].bytes) \in Nat
<1>1. BlockTypes /\ CountsHolders /\ BlockOK(h)
  BY DEF BlockInv
<1>2. /\ base[h] \in Addresses /\ rd[h] \in Nat /\ wr[h] \in Nat
      /\ op[h].old \in Addresses /\ op[h].size \in Nat /\ op[h].bytes \in Seq(Holders)
  BY <1>1 DEF BlockTypes, Ops
<1>3. ASSUME base[h] # Null
      PROVE  /\ base[h] \in Buffers /\ heap[base[h]].bytes \in Seq(Content)
             /\ heap[base[h]].count \in Nat /\ heap[base[h]].count >= 1
             /\ Len(heap[base[h]].bytes) \in Nat
  BY <1>1, <1>3, Users, HeapIs
<1> QED
  BY <1>1, <1>2, <1>3

LEMMA ResizedIs ==
  ASSUME NEW bytes, bytes = <<>> \/ bytes \in Seq(Content), NEW size \in Nat
  PROVE  /\ Blocks!Resized(bytes, size) \in Seq(Content)
         /\ Len(Blocks!Resized(bytes, size)) = size
         /\ \A i \in 1 .. size : Blocks!Resized(bytes, size)[i]
                                   = IF i <= Len(bytes) THEN bytes[i] ELSE "undefined"
<1>1. bytes \in Seq(Content) /\ Len(bytes) \in Nat
  <2>1. <<>> \in Seq(Content)
    OBVIOUS
  <2> QED
    BY <2>1, LenProperties
<1>2. \A i \in 1 .. size : (IF i <= Len(bytes) THEN bytes[i] ELSE "undefined") \in Content
  BY <1>1, ElementOfSeq DEF Content
<1> QED
  BY <1>2 DEF Blocks!Resized

LEMMA KeepsConstruct ==
  ASSUME BlockInv, NEW h \in Holders, Blocks!construct(h)
  PROVE  Keeps
<1> DEFINE c == Blocks!Free
<1>1. PICK size \in Sizes :
        heap' = [heap EXCEPT ![c] = [count |-> 1, bytes |-> Blocks!Resized(<<>>, size)]]
  BY DEF Blocks!construct
<1> DEFINE s == Blocks!Resized(<<>>, size)
<1>2. /\ at[h] = "gone" /\ base' = [base EXCEPT ![h] = c]
      /\ rd' = [rd EXCEPT ![h] = 0] /\ wr' = [wr EXCEPT ![h] = 0]
      /\ at' = [at EXCEPT ![h] = "idle"] /\ op' = op
  BY DEF Blocks!construct, Blocks!Positions, Blocks!At
<1>3. BlockTypes /\ CountsHolders /\ BlockOK(h)
  BY BlockIs
<1>4. base[h] = Null /\ op[h].old = Null /\ op[h].does = "none"
  BY <1>2, <1>3 DEF BlockOK
<1>5. c \in Buffers /\ heap[c].count = 0
  BY <1>3, <1>4, FreeIs
<1>6. s \in Seq(Content) /\ Len(s) = size /\ size \in Nat
  BY ResizedIs, BlockAssumption
<1> HIDE DEF c, s
<1>7. /\ HeapBecomes(c, Null) /\ heap'[c].bytes = s
      /\ \A b \in Buffers : b # c => heap'[b].bytes = heap[b].bytes
  BY <1>1, <1>3, <1>5, <1>6, HeapCreated DEF s
<1>8. c # Null /\ c \in Addresses
  BY <1>5, NullIs DEF Addresses
<1>9. BlockTypes'
  BY <1>2, <1>3, <1>7, <1>8 DEF BlockTypes, Ops, HeapBecomes
<1>10. CountsHolders'
  <2>1. Updated(base', base, h, c) /\ Updated(Olds', Olds, h, Null)
    BY <1>2, <1>3, <1>4 DEF BlockTypes, Ops, Olds, Updated
  <2>2. Balance(c, Null, h, c, Null)
    BY <1>4 DEF Balance, One
  <2> QED
    BY <1>3, <1>7, <2>1, <2>2, CountsFollow
<1>11. ASSUME NEW g \in Holders, g # h PROVE Stays(g)
  <2>1. Same(g)
    BY <1>2, <1>3, <1>11 DEF Same, BlockTypes, Ops
  <2>2. base[g] # c
    BY <1>5, Unheld
  <2>3. base[g] # Null => heap'[base[g]].bytes = heap[base[g]].bytes
    BY <1>7, <2>2, BlockIs
  <2>4. Writing(g) => base[g] # c /\ base[g] # Null
    BY <2>2, WritingIs
  <2> QED
    BY <1>7, <2>1, <2>3, <2>4, OthersStay
<1>12. /\ base'[h] = c /\ rd'[h] = 0 /\ wr'[h] = 0 /\ at'[h] = "idle" /\ op'[h] = op[h]
  BY <1>2, <1>3 DEF BlockTypes, Ops
<1>13. BlockOK(h)'
  BY <1>4, <1>6, <1>7, <1>8, <1>12 DEF BlockOK, Writing, Short
<1>14. BlockInv'
  BY <1>9, <1>10, <1>11, <1>13, Assemble
<1>15. Shows(h, <<>>, 0)
  <2>1. \A g \in Holders : g = h \/ Stays(g)
    BY <1>11
  <2>2. Shows(h, Texts'[h], Reads'[h])
    BY <1>8, <1>12, <2>1, ShowsAre
  <2>3. Texts'[h] = Upto(s, 0) /\ Reads'[h] = Within(s, 0)
    BY <1>7, <1>8, <1>12, ShowsNext
  <2>4. Upto(s, 0) = SubSeq(s, 1, 0) /\ Within(s, 0) = 0
    BY <1>6, UptoFits
  <2>5. SubSeq(s, 1, 0) = <<>>
    BY SubSeqEmpty
  <2> QED
    BY <2>2, <2>3, <2>4, <2>5
<1> QED
  BY <1>14, <1>15, ShowsCreate DEF Keeps

(* A copy, of which operator= keeps the old buffer for a while.            *)
LEMMA KeepsShared ==
  ASSUME BlockInv, NEW h \in Holders, NEW g \in Holders, at[g] = "idle",
         NEW place \in {"idle", "drop"}, NEW r,
         \/ at[h] = "gone" /\ place = "idle" /\ r = op[h]
         \/ at[h] \in {"idle", "moved"} /\ place = "drop" /\ r = [Blocks!NoOp EXCEPT !.old = base[h]],
         heap' = Blocks!Counted(base[g], 1), base' = [base EXCEPT ![h] = base[g]],
         rd' = [rd EXCEPT ![h] = rd[g]], wr' = [wr EXCEPT ![h] = wr[g]],
         at' = [at EXCEPT ![h] = place], op' = [op EXCEPT ![h] = r]
  PROVE  Keeps
<1> DEFINE c == base[g]
<1>1. BlockTypes /\ CountsHolders /\ BlockOK(h) /\ BlockOK(g)
  BY BlockIs
<1>2. /\ c # Null /\ c \in Buffers /\ c \in Addresses
      /\ rd[g] \in Nat /\ wr[g] \in Nat /\ base[h] \in Addresses
  BY <1>1, BlockIs DEF BlockOK
<1>3. op[h].old = Null /\ op[h].does = "none"
  BY <1>1 DEF BlockOK
<1>4. /\ HeapBecomes(c, Null)
      /\ \A b \in Buffers : heap'[b].bytes = heap[b].bytes
  BY <1>1, <1>2, HeapCounted
<1>5. /\ r \in Ops
      /\ r.does = "none"
      /\ r.old = IF place = "drop" THEN base[h] ELSE Null
  <2>1. CASE at[h] = "gone" /\ place = "idle" /\ r = op[h]
    BY <1>1, <1>3, <2>1 DEF BlockTypes, Ops
  <2>2. CASE at[h] \in {"idle", "moved"} /\ place = "drop" /\ r = [Blocks!NoOp EXCEPT !.old = base[h]]
    <3>1. r = [does |-> "none", size |-> 0, bytes |-> <<>>, old |-> base[h]]
      BY <2>2 DEF Blocks!NoOp
    <3>2. <<>> \in Seq(Holders) /\ 0 \in Nat
      OBVIOUS
    <3>3. r.does = "none" /\ r.old = base[h] /\ place = "drop"
      BY <2>2, <3>1
    <3>4. r \in Ops
      BY <1>2, <3>1, <3>2 DEF Ops
    <3> QED
      BY <3>3, <3>4
  <2> QED
    BY <2>1, <2>2
<1>6. BlockTypes'
  BY <1>1, <1>2, <1>4, <1>5 DEF BlockTypes, Ops, HeapBecomes
<1>7. base[h] = Null \/ place = "drop"
  BY <1>1 DEF BlockOK
<1> HIDE DEF c
<1>8. CountsHolders'
  <2>1. Balance(c, Null, h, c, r.old)
    <3>1. CASE place = "drop"
      BY <1>3, <1>5, <3>1 DEF Balance, One
    <3>2. CASE place # "drop"
      BY <1>3, <1>5, <1>7, <3>2 DEF Balance, One
    <3> QED
      BY <3>1, <3>2
  <2>2. Updated(base', base, h, c) /\ Updated(Olds', Olds, h, r.old)
    BY <1>1 DEF BlockTypes, Ops, Olds, Updated, c
  <2> QED
    BY <1>1, <1>4, <2>1, <2>2, CountsFollow
<1>9. ASSUME NEW k \in Holders, k # h PROVE Stays(k)
  <2>1. Same(k)
    BY <1>1, <1>9 DEF Same, BlockTypes, Ops
  <2>2. base[k] # Null => heap'[base[k]].bytes = heap[base[k]].bytes
    BY <1>4, BlockIs
  <2>3. ASSUME Writing(k) PROVE base[k] # c /\ base[k] # Null
    <3>1. k # g
      BY <2>3 DEF Writing
    <3> QED
      BY <2>3, <3>1, WritingIs DEF c
  <2> QED
    BY <1>4, <2>1, <2>2, <2>3, OthersStay
<1>10. /\ base'[h] = c /\ rd'[h] = rd[g] /\ wr'[h] = wr[g] /\ at'[h] = place /\ op'[h] = r
       /\ heap'[c].bytes = heap[c].bytes
  BY <1>1, <1>2, <1>4 DEF BlockTypes, Ops, c
<1>11. BlockOK(h)'
  <2>1. /\ rd[g] <= wr[g] /\ wr[g] <= Len(heap[c].bytes)
        /\ \A i \in 1 .. wr[g] : i <= Len(heap[c].bytes) => heap[c].bytes[i] \in Holders
    BY <1>1, <1>2 DEF BlockOK, Short, c
  <2> QED
    BY <1>2, <1>5, <1>10, <2>1 DEF BlockOK, Writing, Short
<1>12. BlockInv'
  BY <1>6, <1>8, <1>9, <1>11, Assemble
<1>13. Texts'[h] = Texts[g] /\ Reads'[h] = Reads[g]
  BY <1>2, <1>10, ShowsIs, ShowsNext DEF c
<1>14. Shows(h, Texts[g], Reads[g])
  <2>1. \A k \in Holders : k = h \/ Stays(k)
    BY <1>9
  <2>2. Shows(h, Texts'[h], Reads'[h])
    BY <1>2, <1>10, <2>1, ShowsAre
  <2> QED
    BY <1>13, <2>2
<1>15. g \in Blocks!Present
  BY <1>2, ShowsIs DEF c
<1> QED
  BY <1>12, <1>14, <1>15, ShowsCopy DEF Keeps

LEMMA KeepsCopy ==
  ASSUME BlockInv, NEW h \in Holders, NEW g \in Holders, Blocks!copy(h, g)
  PROVE  Keeps
<1>1. /\ at[h] = "gone" /\ at[g] = "idle"
      /\ heap' = Blocks!Counted(base[g], 1) /\ base' = [base EXCEPT ![h] = base[g]]
      /\ rd' = [rd EXCEPT ![h] = rd[g]] /\ wr' = [wr EXCEPT ![h] = wr[g]]
      /\ at' = [at EXCEPT ![h] = "idle"] /\ op' = op
  BY DEF Blocks!copy, Blocks!Positions, Blocks!At
<1>2. op' = [op EXCEPT ![h] = op[h]]
  BY <1>1, BlockIs DEF BlockTypes, Ops
<1> QED
  BY <1>1, <1>2, KeepsShared

LEMMA KeepsAssign ==
  ASSUME BlockInv, NEW h \in Holders, NEW g \in Holders, Blocks!assign(h, g)
  PROVE  Keeps
<1>1. /\ at[h] \in {"idle", "moved"} /\ at[g] = "idle"
      /\ heap' = Blocks!Counted(base[g], 1) /\ base' = [base EXCEPT ![h] = base[g]]
      /\ rd' = [rd EXCEPT ![h] = rd[g]] /\ wr' = [wr EXCEPT ![h] = wr[g]]
      /\ at' = [at EXCEPT ![h] = "drop"]
      /\ op' = [op EXCEPT ![h] = [Blocks!NoOp EXCEPT !.old = base[h]]]
  BY DEF Blocks!assign, Blocks!Positions, Blocks!At
<1> QED
  BY <1>1, KeepsShared

LEMMA KeepsMove ==
  ASSUME BlockInv, NEW h \in Holders, NEW g \in Holders, Blocks!moveFrom(h, g)
  PROVE  Keeps
<1> DEFINE c == base[g]
           d == base[h]
<1>1. /\ at[h] \in {"gone", "idle", "moved"} /\ at[g] = "idle" /\ h # g
      /\ heap' = Blocks!Uncounted(d)
      /\ base' = [base EXCEPT ![h] = c, ![g] = Null]
      /\ rd' = [rd EXCEPT ![h] = rd[g], ![g] = 0]
      /\ wr' = [wr EXCEPT ![h] = wr[g], ![g] = 0]
      /\ at' = [at EXCEPT ![h] = "idle", ![g] = "moved"]
      /\ op' = op
  BY DEF Blocks!moveFrom, Null
<1>2. BlockTypes /\ CountsHolders /\ BlockOK(h) /\ BlockOK(g)
  BY BlockIs
<1>3. /\ c # Null /\ c \in Buffers /\ c \in Addresses /\ d \in Addresses /\ Null \in Addresses
      /\ rd[g] \in Nat /\ wr[g] \in Nat
      /\ d # Null => d \in Buffers /\ heap[d].count >= 1
  BY <1>1, <1>2, BlockIs DEF BlockOK, Addresses
<1>4. /\ op[h].old = Null /\ op[h].does = "none" /\ op[g].old = Null /\ op[g].does = "none"
  BY <1>1, <1>2 DEF BlockOK
<1>5. /\ HeapBecomes(Null, d)
      /\ \A b \in Buffers : (b = d /\ heap[b].count = 1) \/ heap'[b].bytes = heap[b].bytes
  BY <1>1, <1>2, <1>3, HeapUncounted
<1>6. ASSUME NEW k \in Holders, k # h, base[k] # Null
      PROVE  heap'[base[k]].bytes = heap[base[k]].bytes
  <2>1. base[k] \in Buffers /\ ~ (base[k] = d /\ heap[base[k]].count = 1)
    BY <1>2, <1>6, Users
  <2> QED
    BY <1>5, <2>1
<1> HIDE DEF c, d
<1>7. /\ base'[h] = c /\ rd'[h] = rd[g] /\ wr'[h] = wr[g] /\ at'[h] = "idle" /\ op'[h] = op[h]
      /\ base'[g] = Null /\ rd'[g] = 0 /\ wr'[g] = 0 /\ at'[g] = "moved" /\ op'[g] = op[g]
  BY <1>1, <1>2 DEF BlockTypes, Ops
<1>8. BlockTypes'
  BY <1>1, <1>2, <1>3, <1>5 DEF BlockTypes, Ops, HeapBecomes
<1>9. CountsHolders'
  <2> SUFFICES ASSUME NEW b \in Buffers
               PROVE  heap'[b].count = Cardinality({k \in Holders : base'[k] = b})
                                         + Cardinality({k \in Holders : op'[k].old = b})
    BY BlocksCardinality DEF CountsHolders, Blocks!CountsHolders
  <2> DEFINE between == [base EXCEPT ![h] = c]
  <2>1. /\ heap[b].count = Held(base, b) + Held(Olds, b)
        /\ Held(base, b) \in Nat /\ Held(Olds, b) \in Nat
    BY <1>2, CountsAre
  <2>2. Updated(between, base, h, c) /\ Updated(base', between, g, Null) /\ between[g] = c
    BY <1>1, <1>2 DEF BlockTypes, Ops, Updated, c
  <2> HIDE DEF between
  <2>3. Held(between, b) = Held(base, b) - One(d = b) + One(c = b)
    BY <2>2, HeldExcept DEF d
  <2>4. Held(base', b) = Held(between, b) - One(c = b) + One(Null = b)
    BY <2>2, HeldExcept
  <2>5. heap'[b].count = heap[b].count + One(b = Null) - One(b = d)
    BY <1>5 DEF HeapBecomes
  <2>6. heap'[b].count = Held(base', b) + Held(Olds, b)
    BY <2>1, <2>3, <2>4, <2>5 DEF One
  <2>7. {k \in Holders : op'[k].old = b} = HeldBy(Olds, b)
    BY <1>1 DEF Olds, HeldBy
  <2>8. {k \in Holders : base'[k] = b} = HeldBy(base', b)
    BY DEF HeldBy
  <2> QED
    BY <2>6, <2>7, <2>8 DEF Held
<1>10. ASSUME NEW k \in Holders, k # h, k # g PROVE Stays(k)
  <2>1. Same(k)
    BY <1>1, <1>2, <1>10 DEF Same, BlockTypes, Ops
  <2>2. Writing(k) => base[k] # Null /\ base[k] # d
    BY <1>10, WritingIs DEF d
  <2> QED
    BY <1>5, <1>6, <1>10, <2>1, <2>2, OthersStay
<1>11. heap'[c].bytes = heap[c].bytes
  BY <1>1, <1>3, <1>6 DEF c
<1>12. BlockOK(h)' /\ BlockOK(g)'
  <2>1. /\ rd[g] <= wr[g] /\ wr[g] <= Len(heap[c].bytes)
        /\ \A i \in 1 .. wr[g] : i <= Len(heap[c].bytes) => heap[c].bytes[i] \in Holders
    <3>1. at[g] = "idle"
      BY <1>1
    <3> QED
      BY <1>2, <1>3, <3>1 DEF BlockOK, Short, c
  <2>2. BlockOK(h)'
    BY <1>3, <1>4, <1>7, <1>11, <2>1 DEF BlockOK, Writing, Short
  <2>3. BlockOK(g)'
    BY <1>4, <1>7 DEF BlockOK, Writing, Short
  <2> QED
    BY <2>2, <2>3
<1>13. BlockInv'
  <2>1. ASSUME NEW k \in Holders PROVE BlockOK(k)'
    <3>1. CASE k = h \/ k = g
      BY <1>12, <3>1
    <3>2. CASE k # h /\ k # g
      BY <1>10, <3>2, StaysOK DEF BlockInv
    <3> QED
      BY <3>1, <3>2
  <2> QED
    BY <1>8, <1>9, <2>1 DEF BlockInv
<1>14. /\ Blocks!Present' = (Blocks!Present \ {g}) \cup {h}
       /\ Texts' = [Texts EXCEPT ![h] = Texts[g], ![g] = <<>>]
       /\ Reads' = [Reads EXCEPT ![h] = Reads[g], ![g] = 0]
  <2>1. \A k \in Holders : k # h /\ k # g => /\ k \in Blocks!Present' <=> k \in Blocks!Present
                                             /\ Texts'[k] = Texts[k] /\ Reads'[k] = Reads[k]
    BY <1>10, StaysShows
  <2>2. /\ h \in Blocks!Present' /\ g \notin Blocks!Present'
        /\ Texts'[g] = <<>> /\ Reads'[g] = 0
    BY <1>3, <1>7, ShowsNext
  <2>3. Texts'[h] = Texts[g] /\ Reads'[h] = Reads[g]
    <3>1. Texts'[h] = Upto(heap[c].bytes, wr[g]) /\ Reads'[h] = Within(heap[c].bytes, rd[g])
      BY <1>3, <1>7, <1>11, ShowsNext
    <3>2. Texts[g] = Upto(heap[c].bytes, wr[g]) /\ Reads[g] = Within(heap[c].bytes, rd[g])
      BY <1>3, ShowsIs DEF c
    <3> QED
      BY <3>1, <3>2
  <2>4. Blocks!Present \subseteq Holders /\ Blocks!Present' \subseteq Holders
    BY DEF Blocks!Present
  <2>5. /\ Texts = [k \in Holders |-> Texts[k]] /\ Texts' = [k \in Holders |-> Texts'[k]]
        /\ Reads = [k \in Holders |-> Reads[k]] /\ Reads' = [k \in Holders |-> Reads'[k]]
    BY DEF Texts, Reads
  <2>6. Blocks!Present' = (Blocks!Present \ {g}) \cup {h}
    BY <1>1, <2>1, <2>2, <2>4
  <2>7. Texts' = [Texts EXCEPT ![h] = Texts[g], ![g] = <<>>]
    BY <1>1, <2>1, <2>2, <2>3, <2>5
  <2>8. Reads' = [Reads EXCEPT ![h] = Reads[g], ![g] = 0]
    BY <1>1, <2>1, <2>2, <2>3, <2>5
  <2> QED
    BY <2>6, <2>7, <2>8
<1>15. g \in Blocks!Present
  BY <1>3, ShowsIs DEF c
<1> QED
  BY <1>13, <1>14, <1>15, ShowsMove DEF Keeps

LEMMA KeepsDestroy ==
  ASSUME BlockInv, NEW h \in Holders, Blocks!destroy(h)
  PROVE  Keeps
<1> DEFINE d == base[h]
<1>1. /\ at[h] \in {"idle", "moved"}
      /\ heap' = Blocks!Uncounted(d) /\ base' = [base EXCEPT ![h] = Null]
      /\ rd' = [rd EXCEPT ![h] = 0] /\ wr' = [wr EXCEPT ![h] = 0]
      /\ at' = [at EXCEPT ![h] = "gone"] /\ op' = op
  BY DEF Blocks!destroy, Blocks!Positions, Blocks!At, Null
<1>2. BlockTypes /\ CountsHolders /\ BlockOK(h)
  BY BlockIs
<1>3. d \in Addresses /\ Null \in Addresses /\ (d # Null => d \in Buffers /\ heap[d].count >= 1)
  BY <1>2, BlockIs DEF Addresses
<1>4. op[h].old = Null /\ op[h].does = "none"
  BY <1>1, <1>2 DEF BlockOK
<1>5. /\ HeapBecomes(Null, d)
      /\ \A b \in Buffers : (b = d /\ heap[b].count = 1) \/ heap'[b].bytes = heap[b].bytes
  BY <1>1, <1>2, <1>3, HeapUncounted
<1>6. ASSUME NEW k \in Holders, k # h, base[k] # Null
      PROVE  heap'[base[k]].bytes = heap[base[k]].bytes
  <2>1. base[k] \in Buffers /\ ~ (base[k] = d /\ heap[base[k]].count = 1)
    BY <1>2, <1>6, Users
  <2> QED
    BY <1>5, <2>1
<1> HIDE DEF d
<1>7. base'[h] = Null /\ rd'[h] = 0 /\ wr'[h] = 0 /\ at'[h] = "gone" /\ op'[h] = op[h]
  BY <1>1, <1>2 DEF BlockTypes, Ops
<1>8. BlockTypes'
  BY <1>1, <1>2, <1>3, <1>5 DEF BlockTypes, Ops, HeapBecomes
<1>9. CountsHolders'
  <2>1. Balance(Null, d, h, Null, Null)
    <3>1. \A b \in Buffers : One(b = Null) = 0 /\ One(Null = b) = 0
      BY NullIs DEF One
    <3> QED
      BY <1>4, <3>1 DEF Balance, One, d
  <2>2. Updated(base', base, h, Null) /\ Updated(Olds', Olds, h, Null)
    BY <1>1, <1>2, <1>4 DEF BlockTypes, Ops, Olds, Updated
  <2> QED
    BY <1>2, <1>5, <2>1, <2>2, CountsFollow
<1>10. ASSUME NEW k \in Holders, k # h PROVE Stays(k)
  <2>1. Same(k)
    BY <1>1, <1>2, <1>10 DEF Same, BlockTypes, Ops
  <2>2. Writing(k) => base[k] # Null /\ base[k] # d
    BY <1>10, WritingIs DEF d
  <2> QED
    BY <1>5, <1>6, <1>10, <2>1, <2>2, OthersStay
<1>11. BlockOK(h)'
  BY <1>4, <1>7 DEF BlockOK, Writing, Short
<1>12. BlockInv'
  BY <1>8, <1>9, <1>10, <1>11, Assemble
<1>13. /\ Blocks!Present' = Blocks!Present \ {h}
       /\ Texts' = [Texts EXCEPT ![h] = <<>>] /\ Reads' = [Reads EXCEPT ![h] = 0]
  <2>1. \A k \in Holders : k # h => /\ k \in Blocks!Present' <=> k \in Blocks!Present
                                    /\ Texts'[k] = Texts[k] /\ Reads'[k] = Reads[k]
    BY <1>10, StaysShows
  <2>2. h \notin Blocks!Present' /\ Texts'[h] = <<>> /\ Reads'[h] = 0
    BY <1>7, ShowsNext
  <2>3. Blocks!Present \subseteq Holders /\ Blocks!Present' \subseteq Holders
    BY DEF Blocks!Present
  <2>4. /\ Texts = [k \in Holders |-> Texts[k]] /\ Texts' = [k \in Holders |-> Texts'[k]]
        /\ Reads = [k \in Holders |-> Reads[k]] /\ Reads' = [k \in Holders |-> Reads'[k]]
    BY DEF Texts, Reads
  <2>5. Blocks!Present' = Blocks!Present \ {h}
    BY <2>1, <2>2, <2>3
  <2>6. Texts' = [Texts EXCEPT ![h] = <<>>] /\ Reads' = [Reads EXCEPT ![h] = 0]
    BY <2>1, <2>2, <2>4
  <2> QED
    BY <2>5, <2>6
<1> QED
  BY <1>12, <1>13, ShowsDrop DEF Keeps

-----------------------------------------------------------------------------
(* Operations that write.                                                  *)

LEMMA StringsAre ==
  ASSUME NEW h \in Holders, NEW n \in Int, NEW s \in Blocks!Strings(h, n)
  PROVE  s \in Seq(Holders) /\ Len(s) \in Nat /\ Len(s) <= n
<1>1. PICK k \in 1 .. Blocks!Lesser(n, MaxWrite) : s = [i \in 1 .. k |-> h]
  BY DEF Blocks!Strings
<1>2. k \in Nat /\ k <= n
  BY <1>1, BlockAssumption DEF Blocks!Lesser
<1> QED
  BY <1>1, <1>2

LEMMA ShowsUnchanged ==
  ASSUME UNCHANGED <<heap, base, rd, wr>>
  PROVE  UNCHANGED Blocks!Values!vars
<1>1. \A g \in Holders : /\ g \in Blocks!Present' <=> g \in Blocks!Present
                         /\ Texts'[g] = Texts[g] /\ Reads'[g] = Reads[g]
  BY ShowsIs, ShowsNext
<1> QED
  BY <1>1, ShowsSame

LEMMA KeepsReserved ==
  ASSUME BlockInv, NEW h \in Holders, at[h] = "idle",
         NEW does \in {"write", "align", "clear", "nothing"}, NEW size \in Nat,
         does # "nothing" => wr[h] <= size, NEW bytes \in Seq(Holders), does = "write" => size = wr[h] + Len(bytes),
         Blocks!Reserve(h, does, size, bytes)
  PROVE  Keeps
<1> DEFINE place == IF heap[base[h]].count = 1 /\ Blocks!Size(h) >= size THEN "act" ELSE "replace"
           r == [does |-> does, size |-> size, bytes |-> bytes, old |-> Null]
<1>1. /\ op' = [op EXCEPT ![h] = r] /\ at' = [at EXCEPT ![h] = place]
      /\ UNCHANGED <<heap, base, rd, wr>>
  BY DEF Blocks!Reserve, Blocks!At, Null
<1>2. BlockTypes /\ CountsHolders /\ BlockOK(h)
  BY BlockIs
<1>3. base[h] # Null /\ op[h].old = Null /\ Blocks!Size(h) = Len(heap[base[h]].bytes)
  BY <1>2 DEF BlockOK, Blocks!Size, Null
<1>4. /\ HeapBecomes(Null, Null)
      /\ \A b \in Buffers : heap'[b].bytes = heap[b].bytes
  BY <1>1, <1>2, HeapStays
<1>5. place \in {"act", "replace"} /\ r \in Ops /\ r.old = Null
      /\ r.does = does /\ r.size = size /\ r.bytes = bytes
  BY DEF Ops, Addresses
<1>6. place = "act" => heap[base[h]].count = 1 /\ size <= Len(heap[base[h]].bytes)
  <2>1. Len(heap[base[h]].bytes) \in Nat
    BY <1>3, BlockIs
  <2> QED
    BY <1>3, <2>1
<1> HIDE DEF place, r
<1>7. BlockTypes'
  BY <1>1, <1>2, <1>5 DEF BlockTypes
<1>8. CountsHolders'
  <2>1. Balance(Null, Null, h, base[h], Null)
    BY <1>3 DEF Balance, One
  <2>2. Updated(base', base, h, base[h]) /\ Updated(Olds', Olds, h, Null)
    BY <1>1, <1>2, <1>5 DEF BlockTypes, Olds, Updated
  <2> QED
    BY <1>2, <1>4, <2>1, <2>2, CountsFollow
<1>9. ASSUME NEW k \in Holders, k # h PROVE Stays(k)
  <2>1. Same(k)
    BY <1>1, <1>2, <1>9 DEF Same, BlockTypes
  <2> QED
    BY <1>1, <2>1 DEF Stays
<1>10. at'[h] = place /\ op'[h] = r
  BY <1>1, <1>2 DEF BlockTypes
<1>11. BlockOK(h)'
  BY <1>1, <1>2, <1>3, <1>5, <1>6, <1>10 DEF BlockOK, Writing, Short
<1>12. BlockInv'
  BY <1>7, <1>8, <1>9, <1>11, Assemble
<1> QED
  BY <1>1, <1>12, ShowsUnchanged DEF Keeps

LEMMA KeepsReserve ==
  ASSUME BlockInv, NEW h \in Holders, Blocks!reserve(h)
  PROVE  Keeps
<1>1. BlockOK(h) /\ wr[h] \in Nat /\ at[h] = "idle"
  BY BlockIs DEF Blocks!reserve
<1>2. /\ base[h] # Null /\ Blocks!Size(h) \in Nat /\ wr[h] <= Blocks!Size(h)
  <2>1. base[h] # Null
    BY <1>1 DEF BlockOK
  <2>2. Blocks!Size(h) = Len(heap[base[h]].bytes)
    BY <2>1 DEF Blocks!Size, Null
  <2> QED
    BY <1>1, <2>1, <2>2, BlockIs DEF BlockOK, Short
<1>3. <<>> \in Seq(Holders)
  OBVIOUS
<1>4. CASE \E s \in Blocks!Strings(h, MaxSize - wr[h]) : Blocks!Reserve(h, "write", wr[h] + Len(s), s)
  <2>1. PICK s \in Blocks!Strings(h, MaxSize - wr[h]) : Blocks!Reserve(h, "write", wr[h] + Len(s), s)
    BY <1>4
  <2>2. MaxSize - wr[h] \in Int
    BY <1>1, BlockAssumption
  <2>3. s \in Seq(Holders) /\ Len(s) \in Nat
    BY <2>2, StringsAre
  <2>4. wr[h] + Len(s) \in Nat /\ wr[h] <= wr[h] + Len(s)
    BY <1>1, <2>3
  <2> QED
    BY <1>1, <2>1, <2>3, <2>4, KeepsReserved
<1>5. CASE Blocks!Reserve(h, "align", Blocks!Size(h), <<>>)
  BY <1>1, <1>2, <1>3, <1>5, KeepsReserved
<1>6. CASE Blocks!Reserve(h, "clear", Blocks!Size(h), <<>>)
  BY <1>1, <1>2, <1>3, <1>6, KeepsReserved
<1>7. CASE \E size \in Sizes : Blocks!Reserve(h, "nothing", size, <<>>)
  <2>1. PICK size \in Sizes : Blocks!Reserve(h, "nothing", size, <<>>)
    BY <1>7
  <2>2. size \in Nat
    BY BlockAssumption
  <2> QED
    BY <1>1, <1>3, <2>1, <2>2, KeepsReserved
<1> QED
  BY <1>4, <1>5, <1>6, <1>7 DEF Blocks!reserve

LEMMA SameBeginning ==
  ASSUME NEW T, NEW s \in Seq(T), NEW t \in Seq(T), NEW n \in Nat, n <= Len(s), n <= Len(t),
         \A i \in 1 .. n : s[i] = t[i]
  PROVE  SubSeq(s, 1, n) = SubSeq(t, 1, n)
OBVIOUS

LEMMA BeginsWith ==
  ASSUME NEW s \in Seq(Content), NEW t \in Seq(Content), Len(s) <= Len(t),
         \A i \in 1 .. Len(s) : s[i] = t[i]
  PROVE  IsPrefix(s, t)
<1>1. SubSeq(s, 1, Len(s)) = SubSeq(t, 1, Len(s))
  BY LenProperties, SameBeginning
<1> QED
  BY <1>1 DEF IsPrefix

LEMMA KeepsReplace ==
  ASSUME BlockInv, NEW h \in Holders, Blocks!Replace(h)
  PROVE  Keeps
<1> DEFINE c == Blocks!Free
           d == base[h]
           s == Blocks!Resized(heap[d].bytes, op[h].size)
<1>1. /\ at[h] = "replace"
      /\ heap' = [heap EXCEPT ![c] = [count |-> 1, bytes |-> s]]
      /\ base' = [base EXCEPT ![h] = c]
      /\ op' = [op EXCEPT ![h].old = d] /\ at' = [at EXCEPT ![h] = "drop"]
      /\ UNCHANGED <<rd, wr>>
  BY DEF Blocks!Replace, Blocks!At
<1>2. BlockTypes /\ CountsHolders /\ BlockOK(h)
  BY BlockIs
<1>3. /\ op[h].old = Null /\ op[h].does # "none" /\ d # Null
      /\ op[h].does = "nothing" \/ wr[h] <= op[h].size
      /\ rd[h] <= wr[h] /\ wr[h] <= Len(heap[d].bytes)
      /\ \A i \in 1 .. wr[h] : i <= Len(heap[d].bytes) => heap[d].bytes[i] \in Holders
  BY <1>1, <1>2 DEF BlockOK, Short
<1>4. c \in Buffers /\ heap[c].count = 0
  BY <1>2, <1>3, FreeIs
<1>5. /\ d \in Buffers /\ d \in Addresses /\ heap[d].bytes \in Seq(Content)
      /\ Len(heap[d].bytes) \in Nat /\ op[h].size \in Nat /\ wr[h] \in Nat /\ rd[h] \in Nat
  BY <1>3, BlockIs
<1>6. /\ s \in Seq(Content) /\ Len(s) = op[h].size
      /\ \A i \in 1 .. op[h].size : s[i] = IF i <= Len(heap[d].bytes) THEN heap[d].bytes[i] ELSE "undefined"
  BY <1>5, ResizedIs
<1> HIDE DEF c, s
<1>7. /\ HeapBecomes(c, Null) /\ heap'[c].bytes = s
      /\ \A b \in Buffers : b # c => heap'[b].bytes = heap[b].bytes
  BY <1>1, <1>2, <1>4, <1>6, HeapCreated
<1>8. c # Null /\ c \in Addresses
  BY <1>4, NullIs DEF Addresses
<1> HIDE DEF d
<1>9. base'[h] = c /\ rd'[h] = rd[h] /\ wr'[h] = wr[h] /\ at'[h] = "drop"
      /\ op'[h] = [op[h] EXCEPT !.old = d]
  BY <1>1, <1>2 DEF BlockTypes
<1>10. op'[h].old = d /\ op'[h].does = op[h].does /\ op'[h].size = op[h].size
       /\ op'[h].bytes = op[h].bytes
  BY <1>2, <1>9 DEF BlockTypes, Ops
<1>11. BlockTypes'
  <2>1. op' \in [Holders -> Ops]
    BY <1>1, <1>2, <1>5 DEF BlockTypes, Ops
  <2> QED
    BY <1>1, <1>2, <1>7, <1>8, <2>1 DEF BlockTypes, HeapBecomes
<1>12. CountsHolders'
  <2>1. Balance(c, Null, h, c, d)
    BY <1>3 DEF Balance, One, d
  <2>2. Updated(base', base, h, c) /\ Updated(Olds', Olds, h, d)
    BY <1>1, <1>2, <1>10 DEF BlockTypes, Olds, Updated
  <2> QED
    BY <1>2, <1>7, <2>1, <2>2, CountsFollow
<1>13. ASSUME NEW k \in Holders, k # h PROVE Stays(k)
  <2>1. Same(k)
    BY <1>1, <1>2, <1>13 DEF Same, BlockTypes
  <2>2. base[k] # c
    BY <1>4, Unheld
  <2>3. base[k] # Null => heap'[base[k]].bytes = heap[base[k]].bytes
    BY <1>7, <2>2, BlockIs
  <2>4. Writing(k) => base[k] # c /\ base[k] # Null
    BY <2>2, WritingIs
  <2> QED
    BY <1>7, <2>1, <2>3, <2>4, OthersStay
<1>14. \A i \in 1 .. wr[h] : i <= Len(s) => s[i] = heap[d].bytes[i]
  BY <1>3, <1>5, <1>6
<1>15. BlockOK(h)'
  <2>1. heap'[c].count = 1
    BY <1>4, <1>7, NotNull DEF HeapBecomes, One
  <2>2. \A i \in 1 .. wr[h] : i <= Len(s) => s[i] \in Holders
    BY <1>3, <1>5, <1>14
  <2>3. op[h].does = "write" => op[h].size = wr[h] + Len(op[h].bytes)
    BY <1>2 DEF BlockOK
  <2>4. op[h].size <= Len(s) /\ (op[h].does = "nothing" \/ wr[h] <= Len(s))
    BY <1>3, <1>5, <1>6
  <2> QED
    BY <1>3, <1>7, <1>8, <1>9, <1>10, <2>1, <2>2, <2>3, <2>4 DEF BlockOK, Writing, Short
<1>16. BlockInv'
  BY <1>11, <1>12, <1>13, <1>15, Assemble
<1>17. Blocks!Values!Next
  <2> DEFINE n == Blocks!Lesser(op[h].size, wr[h])
             bytes == heap[d].bytes
             text == SubSeq(bytes, 1, wr[h])
  <2>1. /\ n \in Nat /\ n <= wr[h] /\ n <= Len(s)
        /\ Blocks!Lesser(op[h].size, rd[h]) = IF rd[h] <= n THEN rd[h] ELSE n
    BY <1>3, <1>5, <1>6 DEF Blocks!Lesser
  <2>2. Texts'[h] = SubSeq(s, 1, n) /\ Reads'[h] = IF rd[h] <= n THEN rd[h] ELSE n
    <3>1. Texts'[h] = Upto(s, wr[h]) /\ Reads'[h] = Within(s, rd[h])
      BY <1>7, <1>8, <1>9, ShowsNext
    <3> QED
      BY <1>6, <2>1, <3>1 DEF Upto, Within
  <2> HIDE DEF n
  <2>3. Texts[h] = text /\ Reads[h] = rd[h] /\ h \in Blocks!Present
    <3>1. Texts[h] = Upto(bytes, wr[h]) /\ Reads[h] = Within(bytes, rd[h]) /\ h \in Blocks!Present
      BY <1>3, ShowsIs DEF d
    <3>2. rd[h] <= Len(bytes)
      BY <1>3, <1>5
    <3> HIDE DEF bytes
    <3> QED
      BY <1>3, <1>5, <3>1, <3>2, UptoFits DEF bytes
  <2>4. /\ text \in Seq(Content) /\ Len(text) = wr[h]
        /\ \A i \in 1 .. wr[h] : text[i] = bytes[i]
    <3> HIDE DEF bytes
    <3> QED
      BY <1>3, <1>5 DEF bytes
  <2> HIDE DEF text
  <2>5. SubSeq(s, 1, n) = SubSeq(text, 1, n)
    <3>1. \A i \in 1 .. n : s[i] = text[i]
      BY <1>5, <1>6, <1>14, <2>1, <2>4
    <3> QED
      BY <1>5, <1>6, <2>1, <2>4, <3>1, SameBeginning
  <2>6. Shows(h, Texts'[h], Reads'[h])
    <3>1. base'[h] # Null /\ \A g \in Holders : g = h \/ Stays(g)
      BY <1>8, <1>9, <1>13
    <3> QED
      BY <3>1, ShowsAre
  <2>7. n \in 0 .. Len(Texts[h])
    BY <1>5, <2>1, <2>3, <2>4
  <2>8. Shows(h, SubSeq(Texts[h], 1, n), IF Reads[h] <= n THEN Reads[h] ELSE n)
    BY <2>2, <2>3, <2>5, <2>6
  <2> QED
    BY <2>3, <2>7, <2>8, ShowsCut
<1> QED
  BY <1>16, <1>17 DEF Keeps

LEMMA KeepsDrop ==
  ASSUME BlockInv, NEW h \in Holders, Blocks!Drop(h)
  PROVE  Keeps
<1> DEFINE d == op[h].old
           place == IF op[h].does = "none" THEN "idle" ELSE "act"
<1>1. /\ at[h] = "drop" /\ heap' = Blocks!Uncounted(d)
      /\ op' = [op EXCEPT ![h].old = Null] /\ at' = [at EXCEPT ![h] = place]
      /\ UNCHANGED <<base, rd, wr>>
  BY DEF Blocks!Drop, Blocks!At, Null
<1>2. BlockTypes /\ CountsHolders /\ BlockOK(h)
  BY BlockIs
<1>3. d \in Addresses /\ Null \in Addresses /\ (d # Null => d \in Buffers /\ heap[d].count >= 1)
  BY <1>2, Users, BlockIs DEF Addresses
<1>4. /\ HeapBecomes(Null, d)
      /\ \A b \in Buffers : (b = d /\ heap[b].count = 1) \/ heap'[b].bytes = heap[b].bytes
  BY <1>1, <1>2, <1>3, HeapUncounted
<1>5. ASSUME NEW k \in Holders, base[k] # Null
      PROVE  heap'[base[k]].bytes = heap[base[k]].bytes
  <2>1. base[k] \in Buffers /\ ~ (base[k] = d /\ heap[base[k]].count = 1)
    BY <1>2, <1>3, <1>5, Users, BlockIs
  <2> QED
    BY <1>4, <2>1
<1>6. place = IF op[h].does = "none" THEN "idle" ELSE "act"
  OBVIOUS
<1> HIDE DEF d, place
<1>7. base'[h] = base[h] /\ rd'[h] = rd[h] /\ wr'[h] = wr[h] /\ at'[h] = place
      /\ op'[h] = [op[h] EXCEPT !.old = Null]
  BY <1>1, <1>2 DEF BlockTypes
<1>8. op'[h].old = Null /\ op'[h].does = op[h].does /\ op'[h].size = op[h].size
      /\ op'[h].bytes = op[h].bytes
  BY <1>2, <1>7 DEF BlockTypes, Ops
<1>9. BlockTypes'
  <2>1. op' \in [Holders -> Ops]
    BY <1>1, <1>2, <1>3 DEF BlockTypes, Ops
  <2>2. at' \in [Holders -> {"gone", "idle", "moved", "drop", "replace", "act"}]
    BY <1>1, <1>2, <1>6 DEF BlockTypes
  <2> QED
    BY <1>1, <1>2, <1>4, <2>1, <2>2 DEF BlockTypes, HeapBecomes
<1>10. CountsHolders'
  <2>1. Balance(Null, d, h, base[h], Null)
    <3>1. \A b \in Buffers : One(b = Null) = 0 /\ One(Null = b) = 0
      BY NullIs DEF One
    <3> QED
      BY <3>1 DEF Balance, One, d
  <2>2. Updated(base', base, h, base[h]) /\ Updated(Olds', Olds, h, Null)
    BY <1>1, <1>2, <1>8 DEF BlockTypes, Olds, Updated
  <2> QED
    BY <1>2, <1>4, <2>1, <2>2, CountsFollow
<1>11. ASSUME NEW k \in Holders, k # h PROVE Stays(k)
  <2>1. Same(k)
    BY <1>1, <1>2, <1>11 DEF Same, BlockTypes
  <2>2. Writing(k) => base[k] # Null /\ base[k] # d
    BY WritingIs DEF d
  <2> QED
    BY <1>4, <1>5, <2>1, <2>2, OthersStay
<1>12. BlockOK(h)'
  <2>1. base[h] # Null
    BY <1>1, <1>2 DEF BlockOK
  <2>2. heap'[base[h]].bytes = heap[base[h]].bytes
    BY <1>5, <2>1
  <2>3. ASSUME op[h].does # "none"
        PROVE  heap'[base[h]].count = 1 /\ op[h].size <= Len(heap[base[h]].bytes)
    <3>1. Writing(h)
      BY <1>1, <2>3 DEF Writing
    <3>2. base[h] \in Buffers /\ heap[base[h]].count = 1 /\ base[h] # d /\ base[h] # Null
      BY <3>1, WritingIs DEF d
    <3>3. heap'[base[h]].count = heap[base[h]].count + One(base[h] = Null) - One(base[h] = d)
      BY <1>4, <3>2 DEF HeapBecomes
    <3> QED
      BY <1>2, <3>1, <3>2, <3>3 DEF BlockOK, One
  <2> QED
    BY <1>1, <1>2, <1>6, <1>7, <1>8, <2>1, <2>2, <2>3 DEF BlockOK, Writing, Short
<1>13. BlockInv'
  BY <1>9, <1>10, <1>11, <1>12, Assemble
<1>14. UNCHANGED Blocks!Values!vars
  <2>1. \A g \in Holders : /\ g \in Blocks!Present' <=> g \in Blocks!Present
                           /\ Texts'[g] = Texts[g] /\ Reads'[g] = Reads[g]
    <3> SUFFICES ASSUME NEW g \in Holders
                 PROVE  /\ g \in Blocks!Present' <=> g \in Blocks!Present
                        /\ Texts'[g] = Texts[g] /\ Reads'[g] = Reads[g]
      OBVIOUS
    <3>1. base[g] # Null => heap'[base[g]].bytes = heap[base[g]].bytes
      BY <1>5
    <3>2. base' = base /\ rd' = rd /\ wr' = wr
      BY <1>1
    <3> QED
      BY <3>1, <3>2, ShowsIs, ShowsNext
  <2> QED
    BY <2>1, ShowsSame
<1> QED
  BY <1>13, <1>14 DEF Keeps

(* The bytes of a block change in its own buffer, or its positions do.     *)
LEMMA InPlace ==
  ASSUME BlockInv, NEW h \in Holders, base[h] # Null, op[h].old = Null,
         NEW s \in Seq(Content), NEW r \in Nat, NEW w \in Nat, r <= w, w <= Len(s),
         \A i \in 1 .. w : s[i] \in Holders,
         heap[base[h]].count = 1 \/ s = heap[base[h]].bytes,
         NEW o \in Ops, o.does = "none", o.old = Null,
         heap' = [heap EXCEPT ![base[h]].bytes = s], base' = base,
         rd' = [rd EXCEPT ![h] = r], wr' = [wr EXCEPT ![h] = w],
         at' = [at EXCEPT ![h] = "idle"], op' = [op EXCEPT ![h] = o]
  PROVE  BlockInv' /\ Shows(h, SubSeq(s, 1, w), r)
<1> DEFINE c == base[h]
<1>1. BlockTypes /\ CountsHolders /\ BlockOK(h) /\ c \in Buffers /\ c # Null
  BY BlockIs
<1>2. /\ HeapBecomes(Null, Null) /\ heap'[c].bytes = s
      /\ \A b \in Buffers : b # c => heap'[b].bytes = heap[b].bytes
  BY <1>1, HeapWritten
<1>3. BlockTypes'
  BY <1>1, <1>2 DEF BlockTypes, HeapBecomes
<1>4. CountsHolders'
  <2>1. Balance(Null, Null, h, c, Null)
    BY DEF Balance, One
  <2>2. Updated(base', base, h, c) /\ Updated(Olds', Olds, h, Null)
    BY <1>1 DEF BlockTypes, Olds, Updated
  <2> QED
    BY <1>1, <1>2, <2>1, <2>2, CountsFollow
<1>5. ASSUME NEW k \in Holders, k # h PROVE Stays(k)
  <2>1. Same(k)
    BY <1>1, <1>5 DEF Same, BlockTypes
  <2>2. ASSUME base[k] # Null PROVE heap'[base[k]].bytes = heap[base[k]].bytes
    <3>1. CASE base[k] = c
      <4>1. heap[c].count # 1
        BY <1>1, <1>5, <3>1, Users
      <4> QED
        BY <1>2, <3>1, <4>1
    <3>2. CASE base[k] # c
      BY <1>2, <2>2, <3>2, BlockIs
    <3> QED
      BY <3>1, <3>2
  <2>3. Writing(k) => base[k] # Null
    BY WritingIs
  <2> QED
    BY <1>2, <2>1, <2>2, <2>3, OthersStay
<1>6. base'[h] = c /\ rd'[h] = r /\ wr'[h] = w /\ at'[h] = "idle" /\ op'[h] = o
  BY <1>1 DEF BlockTypes
<1> HIDE DEF c
<1>7. BlockOK(h)'
  BY <1>1, <1>2, <1>6 DEF BlockOK, Writing, Short
<1>8. BlockInv'
  BY <1>3, <1>4, <1>5, <1>7, Assemble
<1>9. Shows(h, SubSeq(s, 1, w), r)
  <2>1. \A g \in Holders : g = h \/ Stays(g)
    BY <1>5
  <2>2. Shows(h, Texts'[h], Reads'[h])
    BY <1>1, <1>6, <2>1, ShowsAre
  <2>3. Texts'[h] = SubSeq(s, 1, w) /\ Reads'[h] = r
    <3>1. Texts'[h] = Upto(s, w) /\ Reads'[h] = Within(s, r)
      BY <1>1, <1>2, <1>6, ShowsNext
    <3>2. r <= Len(s)
      BY LenProperties
    <3> QED
      BY <3>1, <3>2, UptoFits
  <2> QED
    BY <2>2, <2>3
<1> QED
  BY <1>8, <1>9

LEMMA OverwriteIs ==
  ASSUME NEW bytes \in Seq(Content), NEW pos \in Nat, NEW s \in Seq(Content)
  PROVE  /\ Blocks!Overwrite(bytes, pos, s) \in Seq(Content)
         /\ Len(Blocks!Overwrite(bytes, pos, s)) = Len(bytes)
         /\ \A i \in 1 .. Len(bytes) :
              Blocks!Overwrite(bytes, pos, s)[i]
                = IF i \in pos + 1 .. pos + Len(s) THEN s[i - pos] ELSE bytes[i]
<1>1. Len(bytes) \in Nat /\ Len(s) \in Nat /\ DOMAIN bytes = 1 .. Len(bytes)
  BY LenProperties
<1>2. \A i \in 1 .. Len(bytes) :
        (IF i \in pos + 1 .. pos + Len(s) THEN s[i - pos] ELSE bytes[i]) \in Content
  <2> SUFFICES ASSUME NEW i \in 1 .. Len(bytes)
               PROVE  (IF i \in pos + 1 .. pos + Len(s) THEN s[i - pos] ELSE bytes[i]) \in Content
    OBVIOUS
  <2>1. bytes[i] \in Content
    BY ElementOfSeq
  <2>2. ASSUME i \in pos + 1 .. pos + Len(s) PROVE s[i - pos] \in Content
    <3>1. i - pos \in 1 .. Len(s)
      BY <1>1, <2>2
    <3> QED
      BY <3>1, ElementOfSeq
  <2> QED
    BY <2>1, <2>2
<1> QED
  BY <1>1, <1>2 DEF Blocks!Overwrite

LEMMA IdleIs ==
  ASSUME BlockInv, NEW h \in Holders, at[h] = "idle"
  PROVE  op[h].does = "none" /\ op[h].does # "nothing"
BY BlockIs DEF BlockOK

(* What the invariant says of a block that may use its buffer.             *)
LEMMA ReadyIs ==
  ASSUME BlockInv, NEW h \in Holders, at[h] \in {"idle", "act"}, op[h].does # "nothing"
  PROVE  /\ base[h] # Null /\ base[h] \in Buffers /\ op[h].old = Null
         /\ heap[base[h]].bytes \in Seq(Content) /\ Len(heap[base[h]].bytes) \in Nat
         /\ rd[h] \in Nat /\ wr[h] \in Nat /\ rd[h] <= wr[h] /\ wr[h] <= Len(heap[base[h]].bytes)
         /\ \A i \in 1 .. wr[h] : heap[base[h]].bytes[i] \in Holders
         /\ h \in Blocks!Present
         /\ Texts[h] = SubSeq(heap[base[h]].bytes, 1, wr[h]) /\ Reads[h] = rd[h]
         /\ Texts[h] \in Seq(Content) /\ Len(Texts[h]) = wr[h]
         /\ \A i \in 1 .. wr[h] : Texts[h][i] = heap[base[h]].bytes[i]
<1> DEFINE bytes == heap[base[h]].bytes
<1>1. BlockTypes /\ BlockOK(h)
  BY BlockIs
<1>2. base[h] # Null
  BY <1>1 DEF BlockOK
<1>3. /\ base[h] \in Buffers /\ op[h].old = Null /\ bytes \in Seq(Content) /\ Len(bytes) \in Nat
      /\ rd[h] \in Nat /\ wr[h] \in Nat /\ rd[h] <= wr[h] /\ wr[h] <= Len(bytes)
      /\ \A i \in 1 .. wr[h] : bytes[i] \in Holders
  BY <1>1, <1>2, BlockIs DEF BlockOK, Short
<1>4. h \in Blocks!Present /\ Texts[h] = SubSeq(bytes, 1, wr[h]) /\ Reads[h] = rd[h]
  <2>1. /\ h \in Blocks!Present /\ Texts[h] = Upto(bytes, wr[h])
        /\ Reads[h] = Within(bytes, rd[h])
    BY <1>2, ShowsIs
  <2>2. rd[h] <= Len(bytes)
    BY <1>3
  <2> HIDE DEF bytes
  <2> QED
    BY <1>3, <2>1, <2>2, UptoFits
<1> HIDE DEF bytes
<1>5. /\ SubSeq(bytes, 1, wr[h]) \in Seq(Content) /\ Len(SubSeq(bytes, 1, wr[h])) = wr[h]
      /\ \A i \in 1 .. wr[h] : SubSeq(bytes, 1, wr[h])[i] = bytes[i]
  BY <1>3
<1> QED
  BY <1>2, <1>3, <1>4, <1>5 DEF bytes

(* Bytes are added behind the write position.                              *)
LEMMA KeepsAppended ==
  ASSUME BlockInv, NEW h \in Holders, at[h] \in {"idle", "act"}, op[h].does # "nothing",
         heap[base[h]].count = 1, NEW s \in Seq(Holders), wr[h] + Len(s) <= Len(heap[base[h]].bytes),
         NEW o \in Ops, o.does = "none", o.old = Null,
         heap' = [heap EXCEPT ![base[h]].bytes = Blocks!Overwrite(heap[base[h]].bytes, wr[h], s)],
         base' = base, rd' = [rd EXCEPT ![h] = rd[h]], wr' = [wr EXCEPT ![h] = wr[h] + Len(s)],
         at' = [at EXCEPT ![h] = "idle"], op' = [op EXCEPT ![h] = o]
  PROVE  Keeps
<1> DEFINE bytes == heap[base[h]].bytes
           new == Blocks!Overwrite(bytes, wr[h], s)
           w == wr[h] + Len(s)
<1>1. /\ base[h] # Null /\ op[h].old = Null /\ bytes \in Seq(Content) /\ Len(bytes) \in Nat
      /\ rd[h] \in Nat /\ wr[h] \in Nat /\ rd[h] <= wr[h] /\ wr[h] <= Len(bytes)
      /\ \A i \in 1 .. wr[h] : bytes[i] \in Holders
      /\ h \in Blocks!Present /\ Reads[h] = rd[h]
      /\ Texts[h] \in Seq(Content) /\ Len(Texts[h]) = wr[h]
      /\ \A i \in 1 .. wr[h] : Texts[h][i] = bytes[i]
  BY ReadyIs
<1>2. s \in Seq(Content) /\ Len(s) \in Nat /\ \A i \in 1 .. Len(s) : s[i] \in Holders
  <2>1. \A i \in 1 .. Len(s) : s[i] \in Holders
    BY ElementOfSeq
  <2>2. Len(s) \in Nat /\ s = [i \in 1 .. Len(s) |-> s[i]]
    BY LenProperties
  <2> QED
    BY <2>1, <2>2 DEF Content
<1>3. /\ new \in Seq(Content) /\ Len(new) = Len(bytes)
      /\ \A i \in 1 .. Len(bytes) : new[i] = IF i \in wr[h] + 1 .. wr[h] + Len(s)
                                              THEN s[i - wr[h]] ELSE bytes[i]
  <2> HIDE DEF bytes
  <2> QED
    BY <1>1, <1>2, OverwriteIs, ZenonT(40)
<1> HIDE DEF bytes, new
<1>4. w \in Nat /\ rd[h] <= w /\ w <= Len(new)
  BY <1>1, <1>2, <1>3 DEF bytes
<1>5. \A i \in 1 .. w : new[i] \in Holders
  <2> SUFFICES ASSUME NEW i \in 1 .. w PROVE new[i] \in Holders
    OBVIOUS
  <2>1. i \in 1 .. Len(bytes)
    BY <1>1, <1>3, <1>4
  <2>2. CASE i \in wr[h] + 1 .. wr[h] + Len(s)
    <3>1. i - wr[h] \in 1 .. Len(s)
      BY <1>1, <1>2, <2>2
    <3> QED
      BY <1>2, <1>3, <2>1, <2>2, <3>1
  <2>3. CASE i \notin wr[h] + 1 .. wr[h] + Len(s)
    <3>1. i \in 1 .. wr[h]
      BY <1>1, <1>2, <2>3
    <3> QED
      BY <1>1, <1>3, <2>1, <2>3, <3>1
  <2> QED
    BY <2>2, <2>3
<1>6. heap' = [heap EXCEPT ![base[h]].bytes = new] /\ wr' = [wr EXCEPT ![h] = w]
  BY DEF new, bytes
<1> HIDE DEF w
<1>7. BlockInv' /\ Shows(h, SubSeq(new, 1, w), rd[h])
  BY <1>1, <1>3, <1>4, <1>5, <1>6, InPlace
<1>8. /\ SubSeq(new, 1, w) \in Seq(Content) /\ Len(SubSeq(new, 1, w)) = w
      /\ \A i \in 1 .. w : SubSeq(new, 1, w)[i] = new[i]
  BY <1>3, <1>4
<1>9. Texts'[h] = SubSeq(new, 1, w)
  <2>1. Texts' = [Texts EXCEPT ![h] = SubSeq(new, 1, w)] /\ h \in DOMAIN Texts
    BY <1>7 DEF Shows, Texts
  <2> QED
    BY <2>1
<1>10. IsPrefix(Texts[h], Texts'[h])
  <2> DEFINE t == Texts[h]
             u == SubSeq(new, 1, w)
  <2>1. t \in Seq(Content) /\ u \in Seq(Content) /\ Len(t) \in Nat /\ Len(t) <= Len(u)
    BY <1>1, <1>2, <1>8 DEF w
  <2>2. \A i \in 1 .. Len(t) : t[i] = u[i]
    <3> SUFFICES ASSUME NEW i \in 1 .. Len(t) PROVE t[i] = u[i]
      OBVIOUS
    <3>1. i \in 1 .. wr[h] /\ i \in 1 .. Len(bytes) /\ i \in 1 .. w
          /\ i \notin wr[h] + 1 .. wr[h] + Len(s)
      BY <1>1, <1>2 DEF w
    <3> QED
      BY <1>1, <1>3, <1>8, <3>1
  <2> HIDE DEF t, u
  <2>3. IsPrefix(t, u)
    BY ONLY <2>1, <2>2, BeginsWith
  <2> QED
    BY <1>9, <2>3 DEF t, u
<1>11. \A i \in DOMAIN Texts'[h] : Texts'[h][i] \in Holders
  <2>1. DOMAIN SubSeq(new, 1, w) = 1 .. w
    BY <1>8, LenProperties
  <2> QED
    BY <1>5, <1>8, <1>9, <2>1
<1>12. Shows(h, Texts'[h], Reads[h])
  BY <1>1, <1>7, <1>9
<1> QED
  BY <1>1, <1>7, <1>10, <1>11, <1>12, ShowsWrite DEF Keeps

LEMMA NoOpIs ==
  Blocks!NoOp \in Ops /\ Blocks!NoOp.does = "none" /\ Blocks!NoOp.old = Null
<1>1. Blocks!NoOp = [does |-> "none", size |-> 0, bytes |-> <<>>, old |-> Null]
  BY DEF Blocks!NoOp, Null
<1>2. <<>> \in Seq(Holders) /\ 0 \in Nat /\ Null \in Addresses
  BY DEF Addresses
<1> QED
  BY <1>1, <1>2 DEF Ops

LEMMA KeepsFill ==
  ASSUME BlockInv, NEW h \in Holders, Blocks!fill(h)
  PROVE  Keeps
<1>1. PICK s \in Blocks!Strings(h, Blocks!Size(h) - wr[h]) :
        /\ heap' = [heap EXCEPT ![base[h]].bytes = Blocks!Overwrite(heap[base[h]].bytes, wr[h], s)]
        /\ rd' = [rd EXCEPT ![h] = rd[h]] /\ wr' = [wr EXCEPT ![h] = wr[h] + Len(s)]
  BY DEF Blocks!fill, Blocks!Positions
<1>2. at[h] = "idle" /\ heap[base[h]].count = 1 /\ UNCHANGED <<base, at, op>>
  BY DEF Blocks!fill
<1>3. base[h] # Null /\ wr[h] \in Nat /\ Len(heap[base[h]].bytes) \in Nat
  BY <1>2, IdleIs, ReadyIs
<1>4. Blocks!Size(h) = Len(heap[base[h]].bytes)
  BY <1>3 DEF Blocks!Size, Null
<1>5. s \in Seq(Holders) /\ Len(s) \in Nat /\ wr[h] + Len(s) <= Len(heap[base[h]].bytes)
  <2>1. Blocks!Size(h) - wr[h] \in Int
    BY <1>3, <1>4
  <2>2. s \in Seq(Holders) /\ Len(s) \in Nat /\ Len(s) <= Blocks!Size(h) - wr[h]
    BY <2>1, StringsAre
  <2> QED
    BY <1>3, <1>4, <2>2
<1>6. /\ at' = [at EXCEPT ![h] = "idle"] /\ op' = [op EXCEPT ![h] = op[h]]
      /\ op[h] \in Ops /\ op[h].does = "none" /\ op[h].old = Null
  BY <1>2, BlockIs DEF BlockTypes, BlockOK
<1> QED
  BY <1>1, <1>2, <1>5, <1>6, IdleIs, KeepsAppended

LEMMA KeepsUnwrite ==
  ASSUME BlockInv, NEW h \in Holders, Blocks!unwrite(h)
  PROVE  Keeps
<1> DEFINE bytes == heap[base[h]].bytes
<1>1. PICK n \in 1 .. wr[h] - rd[h] :
        rd' = [rd EXCEPT ![h] = rd[h]] /\ wr' = [wr EXCEPT ![h] = wr[h] - n]
  BY DEF Blocks!unwrite, Blocks!Positions
<1>2. at[h] = "idle" /\ UNCHANGED <<heap, base, at, op>>
  BY DEF Blocks!unwrite
<1>3. /\ base[h] # Null /\ base[h] \in Buffers /\ op[h].old = Null /\ bytes \in Seq(Content)
      /\ Len(bytes) \in Nat
      /\ rd[h] \in Nat /\ wr[h] \in Nat /\ rd[h] <= wr[h] /\ wr[h] <= Len(bytes)
      /\ \A i \in 1 .. wr[h] : bytes[i] \in Holders
      /\ h \in Blocks!Present /\ Reads[h] = rd[h]
      /\ Texts[h] \in Seq(Content) /\ Len(Texts[h]) = wr[h]
      /\ \A i \in 1 .. wr[h] : Texts[h][i] = bytes[i]
  BY <1>2, IdleIs, ReadyIs
<1>4. /\ at' = [at EXCEPT ![h] = "idle"] /\ op' = [op EXCEPT ![h] = op[h]]
      /\ op[h] \in Ops /\ op[h].does = "none"
      /\ heap' = [heap EXCEPT ![base[h]].bytes = bytes]
  BY <1>2, <1>3, BlockIs DEF BlockTypes, HeapType, BlockOK
<1> DEFINE w == wr[h] - n
<1>5. w \in Nat /\ rd[h] <= w /\ w <= wr[h] /\ w \in rd[h] .. wr[h]
  BY <1>1, <1>3
<1> HIDE DEF bytes, w
<1>6. w <= Len(bytes) /\ \A i \in 1 .. w : bytes[i] \in Holders
  BY <1>3, <1>5
<1>7. wr' = [wr EXCEPT ![h] = w] /\ base' = base /\ bytes = heap[base[h]].bytes
  BY <1>1, <1>2 DEF w, bytes
<1>8. BlockInv' /\ Shows(h, SubSeq(bytes, 1, w), rd[h])
  BY <1>1, <1>3, <1>4, <1>5, <1>6, <1>7, InPlace
<1>9. SubSeq(bytes, 1, w) = SubSeq(Texts[h], 1, w)
  <2>1. \A i \in 1 .. w : bytes[i] = Texts[h][i]
    BY <1>3, <1>5
  <2>2. w <= Len(Texts[h])
    BY <1>3, <1>5
  <2> QED
    BY <1>3, <1>5, <1>6, <2>1, <2>2, SameBeginning
<1>10. Shows(h, SubSeq(Texts[h], 1, w), Reads[h])
  BY <1>3, <1>8, <1>9
<1>11. w \in 0 .. Len(Texts[h]) /\ Reads[h] <= w
  BY <1>3, <1>5
<1> QED
  BY <1>3, <1>8, <1>10, <1>11, ShowsCut DEF Keeps

LEMMA KeepsRead ==
  ASSUME BlockInv, NEW h \in Holders, Blocks!rd_ptr(h)
  PROVE  Keeps
<1> DEFINE bytes == heap[base[h]].bytes
<1>1. PICK r \in 0 .. wr[h] : rd' = [rd EXCEPT ![h] = r] /\ wr' = [wr EXCEPT ![h] = wr[h]]
  BY DEF Blocks!rd_ptr, Blocks!Positions
<1>2. at[h] = "idle" /\ UNCHANGED <<heap, base, at, op>>
  BY DEF Blocks!rd_ptr
<1>3. /\ base[h] # Null /\ base[h] \in Buffers /\ op[h].old = Null /\ bytes \in Seq(Content)
      /\ wr[h] \in Nat /\ wr[h] <= Len(bytes)
      /\ \A i \in 1 .. wr[h] : bytes[i] \in Holders
      /\ h \in Blocks!Present /\ Texts[h] = SubSeq(bytes, 1, wr[h]) /\ Len(Texts[h]) = wr[h]
  BY <1>2, IdleIs, ReadyIs
<1>4. /\ at' = [at EXCEPT ![h] = "idle"] /\ op' = [op EXCEPT ![h] = op[h]]
      /\ op[h] \in Ops /\ op[h].does = "none"
      /\ heap' = [heap EXCEPT ![base[h]].bytes = bytes]
  BY <1>2, <1>3, BlockIs DEF BlockTypes, HeapType, BlockOK
<1>5. r \in Nat /\ r <= wr[h] /\ r \in 0 .. Len(Texts[h])
  BY <1>3
<1> HIDE DEF bytes
<1>6. base' = base /\ bytes = heap[base[h]].bytes
  BY <1>2 DEF bytes
<1>7. BlockInv' /\ Shows(h, SubSeq(bytes, 1, wr[h]), r)
  BY <1>1, <1>3, <1>4, <1>5, <1>6, InPlace
<1>8. Shows(h, Texts[h], r)
  BY <1>3, <1>7
<1> QED
  BY <1>3, <1>5, <1>7, <1>8, ShowsRead DEF Keeps

(* A block writes over its own buffer, or only moves its positions.        *)
LEMMA ActIs ==
  ASSUME BlockInv, NEW h \in Holders, Blocks!Act(h)
  PROVE  /\ at[h] = "act" /\ Writing(h) /\ heap[base[h]].count = 1
         /\ base' = base /\ at' = [at EXCEPT ![h] = "idle"]
         /\ op' = [op EXCEPT ![h] = Blocks!NoOp]
         /\ UNCHANGED heap => heap' = [heap EXCEPT ![base[h]].bytes = heap[base[h]].bytes]
         /\ UNCHANGED rd => rd' = [rd EXCEPT ![h] = rd[h]]
         /\ UNCHANGED wr => wr' = [wr EXCEPT ![h] = wr[h]]
<1>1. /\ at[h] = "act" /\ base' = base /\ at' = [at EXCEPT ![h] = "idle"]
      /\ op' = [op EXCEPT ![h] = Blocks!NoOp]
  BY DEF Blocks!Act, Blocks!At
<1>2. Writing(h)
  BY <1>1 DEF Writing
<1>3. heap[base[h]].count = 1 /\ base[h] \in Buffers
  BY <1>2, WritingIs
<1>4. BlockTypes
  BY DEF BlockInv
<1>5. UNCHANGED heap => heap' = [heap EXCEPT ![base[h]].bytes = heap[base[h]].bytes]
  BY <1>3, <1>4 DEF BlockTypes, HeapType
<1>6. /\ UNCHANGED rd => rd' = [rd EXCEPT ![h] = rd[h]]
      /\ UNCHANGED wr => wr' = [wr EXCEPT ![h] = wr[h]]
  BY <1>4 DEF BlockTypes
<1> QED
  BY <1>1, <1>2, <1>3, <1>5, <1>6

(* The bytes of s between two positions, and what they are.                *)
IsUnread(u, s, r, w) == u = SubSeq(s, r + 1, w)
HasUnread(u, s, r, w) ==
  /\ u \in Seq(Content) /\ Len(u) = w - r
  /\ \A i \in 1 .. w - r : u[i] = s[r + i]

LEMMA UnreadIs ==
  ASSUME NEW s \in Seq(Content), NEW r \in Nat, NEW w \in Nat, r <= w, w <= Len(s),
         NEW u, IsUnread(u, s, r, w)
  PROVE  HasUnread(u, s, r, w)
<1>1. Len(s) \in Nat
  BY LenProperties
<1>2. \A i \in r + 1 .. w : s[i] \in Content
  BY <1>1, ElementOfSeq
<1>3. /\ u \in Seq(Content) /\ Len(u) = IF r + 1 <= w THEN w - (r + 1) + 1 ELSE 0
      /\ \A i \in 1 .. w - (r + 1) + 1 : u[i] = s[(r + 1) + i - 1]
  BY <1>1, <1>2, SubSeqProperties DEF IsUnread
<1>4. Len(u) = w - r
  BY <1>3
<1>5. ASSUME NEW i \in 1 .. w - r PROVE u[i] = s[r + i]
  <2>1. i \in 1 .. w - (r + 1) + 1 /\ (r + 1) + i - 1 = r + i
    OBVIOUS
  <2> QED
    BY <1>3, <2>1
<1> QED
  BY <1>3, <1>4, <1>5 DEF HasUnread

LEMMA OverwriteFirst ==
  ASSUME NEW bytes \in Seq(Content), NEW s \in Seq(Content)
  PROVE  /\ Blocks!Overwrite(bytes, 0, s) \in Seq(Content)
         /\ Len(Blocks!Overwrite(bytes, 0, s)) = Len(bytes)
         /\ \A i \in 1 .. Len(bytes) : i <= Len(s) => Blocks!Overwrite(bytes, 0, s)[i] = s[i]
<1> DEFINE t == Blocks!Overwrite(bytes, 0, s)
<1>1. Len(s) \in Nat /\ 0 \in Nat
  BY LenProperties
<1>2. /\ t \in Seq(Content) /\ Len(t) = Len(bytes)
      /\ \A i \in 1 .. Len(bytes) :
           t[i] = IF i \in 0 + 1 .. 0 + Len(s) THEN s[i - 0] ELSE bytes[i]
  BY <1>1, OverwriteIs
<1> HIDE DEF t
<1>3. ASSUME NEW i \in 1 .. Len(bytes), i <= Len(s) PROVE t[i] = s[i]
  <2>1. i \in 0 + 1 .. 0 + Len(s) /\ i - 0 = i
    BY <1>1, <1>3
  <2> QED
    BY <1>2, <2>1
<1> QED
  BY <1>2, <1>3 DEF t

(* align(): the unread bytes are written over the beginning of the buffer. *)
LEMMA KeepsAlign ==
  ASSUME BlockInv, NEW h \in Holders, Blocks!Act(h), NEW unread,
         unread = SubSeq(heap[base[h]].bytes, rd[h] + 1, wr[h]),
         heap' = [heap EXCEPT ![base[h]].bytes = Blocks!Overwrite(heap[base[h]].bytes, 0, unread)],
         rd' = [rd EXCEPT ![h] = 0], wr' = [wr EXCEPT ![h] = Len(unread)],
         op[h].does # "nothing"
  PROVE  Keeps
<1> DEFINE bytes == heap[base[h]].bytes
           new == Blocks!Overwrite(bytes, 0, unread)
           w == Len(unread)
<1>1. /\ at[h] = "act" /\ heap[base[h]].count = 1 /\ base' = base
      /\ at' = [at EXCEPT ![h] = "idle"] /\ op' = [op EXCEPT ![h] = Blocks!NoOp]
  BY ActIs
<1>2. /\ base[h] # Null /\ base[h] \in Buffers /\ op[h].old = Null /\ bytes \in Seq(Content)
      /\ Len(bytes) \in Nat
      /\ rd[h] \in Nat /\ wr[h] \in Nat /\ rd[h] <= wr[h] /\ wr[h] <= Len(bytes)
      /\ \A i \in 1 .. wr[h] : bytes[i] \in Holders
      /\ h \in Blocks!Present /\ Reads[h] = rd[h]
      /\ Texts[h] \in Seq(Content) /\ Len(Texts[h]) = wr[h]
      /\ \A i \in 1 .. wr[h] : Texts[h][i] = bytes[i]
  BY <1>1, ReadyIs
<1>3. IsUnread(unread, bytes, rd[h], wr[h])
  BY DEF IsUnread
<1>4. heap' = [heap EXCEPT ![base[h]].bytes = new]
  OBVIOUS
<1> HIDE DEF bytes
<1>5. /\ unread \in Seq(Content) /\ Len(unread) = wr[h] - rd[h]
      /\ \A i \in 1 .. wr[h] - rd[h] : unread[i] = bytes[rd[h] + i]
  <2>1. HasUnread(unread, bytes, rd[h], wr[h])
    BY <1>2, <1>3, UnreadIs
  <2> QED
    BY <2>1 DEF HasUnread
<1>6. /\ new \in Seq(Content) /\ Len(new) = Len(bytes)
      /\ \A i \in 1 .. Len(bytes) : i <= Len(unread) => new[i] = unread[i]
  BY <1>2, <1>5, OverwriteFirst
<1> HIDE DEF new
<1>7. w \in Nat /\ w = wr[h] - rd[h] /\ 0 <= w /\ w <= Len(new)
  BY <1>2, <1>5, <1>6
<1>8. \A i \in 1 .. w : new[i] = unread[i] /\ new[i] \in Holders
  <2> SUFFICES ASSUME NEW i \in 1 .. w PROVE new[i] = unread[i] /\ new[i] \in Holders
    OBVIOUS
  <2>1. i \in 1 .. Len(bytes) /\ i <= Len(unread) /\ i \in 1 .. wr[h] - rd[h]
        /\ rd[h] + i \in 1 .. wr[h]
    BY <1>2, <1>5, <1>6, <1>7
  <2>2. new[i] = unread[i]
    BY <1>6, <2>1
  <2>3. unread[i] = bytes[rd[h] + i]
    BY <1>5, <2>1
  <2>4. bytes[rd[h] + i] \in Holders
    BY <1>2, <2>1
  <2> QED
    BY <2>2, <2>3, <2>4
<1>9. wr' = [wr EXCEPT ![h] = w] /\ 0 \in Nat
  OBVIOUS
<1> HIDE DEF w
<1>10. BlockInv' /\ Shows(h, SubSeq(new, 1, w), 0)
  <2>1. \A i \in 1 .. w : new[i] \in Holders
    BY <1>8
  <2> QED
    BY <1>1, <1>2, <1>4, <1>6, <1>7, <1>9, <2>1, NoOpIs, InPlace, ZenonT(40)
<1>11. SubSeq(new, 1, w) = SubSeq(Texts[h], Reads[h] + 1, Len(Texts[h]))
  <2> DEFINE t == Texts[h]
             u == SubSeq(t, rd[h] + 1, wr[h])
             v == SubSeq(new, 1, w)
  <2>1. t \in Seq(Content) /\ Len(t) = wr[h] /\ \A i \in 1 .. wr[h] : t[i] = bytes[i]
    BY <1>2
  <2> HIDE DEF t
  <2>2. /\ u \in Seq(Content) /\ Len(u) = w
        /\ \A i \in 1 .. wr[h] - rd[h] : u[i] = t[rd[h] + i]
    <3>1. IsUnread(u, t, rd[h], wr[h]) /\ wr[h] <= Len(t)
      BY <2>1, <1>2 DEF IsUnread
    <3> HIDE DEF u
    <3>2. HasUnread(u, t, rd[h], wr[h])
      BY <1>2, <2>1, <3>1, UnreadIs
    <3> QED
      BY <1>7, <3>2 DEF HasUnread
  <2>3. v \in Seq(Content) /\ Len(v) = w /\ \A i \in 1 .. w : v[i] = new[i]
    BY <1>6, <1>7
  <2> HIDE DEF u, v
  <2>4. \A i \in 1 .. w : u[i] = v[i]
    <3> SUFFICES ASSUME NEW i \in 1 .. w PROVE u[i] = v[i]
      OBVIOUS
    <3>1. rd[h] + i \in 1 .. wr[h] /\ i \in 1 .. wr[h] - rd[h]
      BY <1>2, <1>7
    <3> QED
      BY <1>5, <1>8, <2>1, <2>2, <2>3, <3>1
  <2>5. u = v
    BY <1>7, <2>2, <2>3, <2>4, SeqEqual
  <2> QED
    BY <1>2, <2>1, <2>5 DEF t, u, v
<1>12. Shows(h, SubSeq(Texts[h], Reads[h] + 1, Len(Texts[h])), 0)
  BY <1>10, <1>11
<1> QED
  BY <1>2, <1>10, <1>12, ShowsAlign DEF Keeps

(* reserve(): the positions come back into the buffer.                     *)
LEMMA KeepsClipped ==
  ASSUME BlockInv, NEW h \in Holders, Blocks!Act(h), UNCHANGED heap,
         rd' = [rd EXCEPT ![h] = Blocks!Lesser(Blocks!Size(h), rd[h])],
         wr' = [wr EXCEPT ![h] = Blocks!Lesser(Blocks!Size(h), wr[h])]
  PROVE  Keeps
<1> DEFINE bytes == heap[base[h]].bytes
           r == Within(bytes, rd[h])
           w == Within(bytes, wr[h])
<1>1. /\ at[h] = "act" /\ heap[base[h]].count = 1 /\ base' = base
      /\ at' = [at EXCEPT ![h] = "idle"] /\ op' = [op EXCEPT ![h] = Blocks!NoOp]
      /\ heap' = [heap EXCEPT ![base[h]].bytes = bytes]
  BY ActIs
<1>2. BlockOK(h)
  BY BlockIs
<1>3. base[h] # Null /\ op[h].old = Null /\ rd[h] <= wr[h]
      /\ \A i \in 1 .. wr[h] : i <= Len(bytes) => bytes[i] \in Holders
  BY <1>1, <1>2 DEF BlockOK
<1>4. bytes \in Seq(Content) /\ Len(bytes) \in Nat /\ rd[h] \in Nat /\ wr[h] \in Nat
      /\ Blocks!Size(h) = Len(bytes)
  BY <1>3, BlockIs DEF Blocks!Size, Null
<1> HIDE DEF bytes
<1>5. rd' = [rd EXCEPT ![h] = r] /\ wr' = [wr EXCEPT ![h] = w]
  BY <1>4 DEF Within
<1>6. /\ r \in Nat /\ w \in Nat /\ r <= w /\ w <= Len(bytes) /\ w <= wr[h]
      /\ SubSeq(bytes, 1, w) = Upto(bytes, wr[h])
  BY <1>3, <1>4 DEF Within, Upto, Blocks!Lesser
<1>7. h \in Blocks!Present /\ Texts[h] = Upto(bytes, wr[h]) /\ Reads[h] = r
  BY <1>3, ShowsIs DEF bytes
<1> HIDE DEF r, w
<1>8. \A i \in 1 .. w : bytes[i] \in Holders
  BY <1>3, <1>4, <1>6
<1>9. BlockInv' /\ Shows(h, SubSeq(bytes, 1, w), r)
  BY <1>1, <1>3, <1>4, <1>5, <1>6, <1>8, NoOpIs, InPlace DEF bytes
<1>10. Len(SubSeq(bytes, 1, w)) = w
  BY <1>4, <1>6
<1>11. Texts[h] = SubSeq(bytes, 1, w)
  BY <1>6, <1>7
<1>12. Shows(h, Texts[h], r) /\ r \in 0 .. Len(Texts[h])
  <2>1. r \in 0 .. w
    BY <1>6
  <2>2. Len(Texts[h]) = w
    BY <1>10, <1>11
  <2> QED
    BY <1>9, <1>11, <2>1, <2>2
<1> QED
  BY <1>7, <1>9, <1>12, ShowsRead DEF Keeps

LEMMA KeepsAct ==
  ASSUME BlockInv, NEW h \in Holders, Blocks!Act(h)
  PROVE  Keeps
<1> DEFINE bytes == heap[base[h]].bytes
           unread == SubSeq(bytes, rd[h] + 1, wr[h])
<1>1. /\ at[h] = "act" /\ heap[base[h]].count = 1 /\ base' = base
      /\ at' = [at EXCEPT ![h] = "idle"] /\ op' = [op EXCEPT ![h] = Blocks!NoOp]
      /\ UNCHANGED heap => heap' = [heap EXCEPT ![base[h]].bytes = bytes]
  BY ActIs
<1>2. CASE op[h].does = "nothing"
  <2>1. /\ UNCHANGED heap
        /\ rd' = [rd EXCEPT ![h] = Blocks!Lesser(Blocks!Size(h), rd[h])]
        /\ wr' = [wr EXCEPT ![h] = Blocks!Lesser(Blocks!Size(h), wr[h])]
    BY <1>2 DEF Blocks!Act, Blocks!Positions
  <2> QED
    BY <2>1, KeepsClipped
<1>3. CASE /\ op[h].does = "write"
           /\ heap' = [heap EXCEPT ![base[h]].bytes = Blocks!Overwrite(bytes, wr[h], op[h].bytes)]
           /\ rd' = [rd EXCEPT ![h] = rd[h]]
           /\ wr' = [wr EXCEPT ![h] = wr[h] + Len(op[h].bytes)]
  <2>1. op[h].bytes \in Seq(Holders) /\ op[h].size <= Len(bytes)
        /\ op[h].size = wr[h] + Len(op[h].bytes)
    BY <1>1, <1>3, BlockIs DEF BlockOK, Writing, Short
  <2>2. wr[h] + Len(op[h].bytes) <= Len(bytes)
    BY <2>1
  <2> QED
    BY <1>1, <1>3, <2>1, <2>2, NoOpIs, KeepsAppended
<1>4. CASE /\ op[h].does = "align"
           /\ heap' = [heap EXCEPT ![base[h]].bytes = Blocks!Overwrite(bytes, 0, unread)]
           /\ rd' = [rd EXCEPT ![h] = 0] /\ wr' = [wr EXCEPT ![h] = Len(unread)]
  <2>1. op[h].does # "nothing"
    BY <1>4
  <2> QED
    BY <1>4, <2>1, KeepsAlign
<1>5. CASE /\ op[h].does = "clear"
           /\ rd' = [rd EXCEPT ![h] = 0] /\ wr' = [wr EXCEPT ![h] = 0] /\ UNCHANGED heap
  <2>1. heap' = [heap EXCEPT ![base[h]].bytes = bytes] /\ bytes = heap[base[h]].bytes
    BY <1>1, <1>5
  <2>2. base[h] # Null /\ op[h].old = Null /\ bytes \in Seq(Content) /\ Len(bytes) \in Nat
        /\ h \in Blocks!Present
    BY <1>1, <1>5, ReadyIs
  <2> HIDE DEF bytes
  <2>3. 0 \in Nat /\ 0 <= 0 /\ 0 <= Len(bytes) /\ \A i \in 1 .. 0 : bytes[i] \in Holders
    BY <2>2
  <2>4. BlockInv' /\ Shows(h, SubSeq(bytes, 1, 0), 0)
    BY <1>1, <1>5, <2>1, <2>2, <2>3, NoOpIs, InPlace
  <2>5. SubSeq(bytes, 1, 0) = <<>>
    BY SubSeqEmpty
  <2>6. Shows(h, <<>>, 0)
    BY <2>4, <2>5
  <2> QED
    BY <2>2, <2>4, <2>6, ShowsClear DEF Keeps
<1>6. \/ op[h].does = "nothing"
      \/ /\ op[h].does = "write"
         /\ heap' = [heap EXCEPT ![base[h]].bytes = Blocks!Overwrite(bytes, wr[h], op[h].bytes)]
         /\ rd' = [rd EXCEPT ![h] = rd[h]]
         /\ wr' = [wr EXCEPT ![h] = wr[h] + Len(op[h].bytes)]
      \/ /\ op[h].does = "align"
         /\ heap' = [heap EXCEPT ![base[h]].bytes = Blocks!Overwrite(bytes, 0, unread)]
         /\ rd' = [rd EXCEPT ![h] = 0] /\ wr' = [wr EXCEPT ![h] = Len(unread)]
      \/ /\ op[h].does = "clear"
         /\ rd' = [rd EXCEPT ![h] = 0] /\ wr' = [wr EXCEPT ![h] = 0] /\ UNCHANGED heap
  BY DEF Blocks!Act, Blocks!Positions
<1> QED
  BY <1>2, <1>3, <1>4, <1>5, <1>6

-----------------------------------------------------------------------------
(* The specification of the blocks.                                        *)

LEMMA BlocksStart ==
  ASSUME Blocks!Init
  PROVE  BlockInv /\ Blocks!Values!Init
<1>1. /\ heap = [b \in Buffers |-> [count |-> 0, bytes |-> <<>>]]
      /\ base = [h \in Holders |-> Null]
      /\ rd = [h \in Holders |-> 0] /\ wr = [h \in Holders |-> 0]
      /\ at = [h \in Holders |-> "gone"]
      /\ op = [h \in Holders |-> Blocks!NoOp]
  BY DEF Blocks!Init, Null
<1>2. BlockTypes
  <2>1. <<>> \in Seq(Content) /\ 0 \in Nat /\ Null \in Addresses
    BY DEF Addresses
  <2> QED
    BY <1>1, <2>1, NoOpIs DEF BlockTypes, HeapType
<1>3. \A h \in Holders : BlockOK(h)
  BY <1>1, NoOpIs DEF BlockOK, Writing, Short
<1>4. CountsHolders
  <2> SUFFICES ASSUME NEW b \in Buffers
               PROVE  heap[b].count = Cardinality({h \in Holders : base[h] = b})
                                        + Cardinality({h \in Holders : op[h].old = b})
    BY BlocksCardinality DEF CountsHolders, Blocks!CountsHolders
  <2>1. {h \in Holders : base[h] = b} = {} /\ {h \in Holders : op[h].old = b} = {}
    BY <1>1, NullIs, NoOpIs
  <2>2. Cardinality({}) = 0
    BY FS_EmptySet
  <2>3. /\ Cardinality({h \in Holders : base[h] = b}) = 0
        /\ Cardinality({h \in Holders : op[h].old = b}) = 0
    BY <2>1, <2>2
  <2>4. heap[b].count = 0
    BY <1>1
  <2> QED
    BY <2>3, <2>4
<1>5. Blocks!Values!Init
  <2>1. Blocks!Present = {}
    BY <1>1 DEF Blocks!Present, Null
  <2> QED
    BY <2>1 DEF Blocks!Values!Init
<1> QED
  BY <1>2, <1>3, <1>4, <1>5 DEF BlockInv

LEMMA BlocksStep ==
  ASSUME BlockInv, [Blocks!Next]_(Blocks!vars)
  PROVE  Keeps
<1>1. CASE Blocks!Next
  <2>1. PICK h \in Holders :
          \/ Blocks!construct(h) \/ Blocks!destroy(h)
          \/ \E g \in Holders : Blocks!copy(h, g) \/ Blocks!assign(h, g) \/ Blocks!moveFrom(h, g)
          \/ Blocks!reserve(h) \/ Blocks!fill(h) \/ Blocks!unwrite(h) \/ Blocks!rd_ptr(h)
          \/ Blocks!Replace(h) \/ Blocks!Drop(h) \/ Blocks!Act(h)
    BY <1>1 DEF Blocks!Next
  <2>2. CASE \E g \in Holders : Blocks!copy(h, g) \/ Blocks!assign(h, g) \/ Blocks!moveFrom(h, g)
    BY <2>2, KeepsCopy, KeepsAssign, KeepsMove
  <2> QED
    BY <2>1, <2>2, KeepsConstruct, KeepsDestroy, KeepsReserve, KeepsFill, KeepsUnwrite, KeepsRead,
       KeepsReplace, KeepsDrop, KeepsAct
<1>2. CASE UNCHANGED Blocks!vars
  <2>1. UNCHANGED <<heap, base, rd, wr, at, op>>
    BY <1>2 DEF Blocks!vars
  <2>2. BlockInv'
    BY <2>1, ZenonT(40) DEF BlockInv, BlockTypes, BlockOK, Writing, Short, CountsHolders,
       Blocks!CountsHolders
  <2>3. UNCHANGED Blocks!Values!vars
    BY <2>1, ShowsUnchanged
  <2> QED
    BY <2>2, <2>3 DEF Keeps
<1> QED
  BY <1>1, <1>2

(* The count of a buffer is the number of blocks that will give it up, in  *)
(* whatever order the steps of several threads come: buffer_base frees no  *)
(* buffer that a memory_block uses, and keeps none that nobody holds.      *)
THEOREM CountsTheorem == Blocks!Spec => []CountsHolders
<1>1. Blocks!Init => BlockInv
  BY BlocksStart
<1>2. BlockInv /\ [Blocks!Next]_(Blocks!vars) => BlockInv'
  BY BlocksStep DEF Keeps
<1>3. BlockInv => CountsHolders
  BY DEF BlockInv
<1> QED
  BY <1>1, <1>2, <1>3, PTL DEF Blocks!Spec

(* memory_block implements BlockValues: although copies share a buffer and *)
(* reserve(), write(), align() and the destructor of the old buffer are    *)
(* steps of their own, nothing done to one block shows in another.         *)
THEOREM ValuesTheorem == Blocks!Spec => BlocksAreValues
<1>1. Blocks!Init => BlockInv /\ Blocks!Values!Init
  BY BlocksStart
<1>2. BlockInv /\ [Blocks!Next]_(Blocks!vars)
        => BlockInv' /\ [Blocks!Values!Next]_(Blocks!Values!vars)
  BY BlocksStep DEF Keeps
<1> QED
  BY <1>1, <1>2, PTL DEF Blocks!Spec, BlocksAreValues, Blocks!BlocksAreValues

(* The specification that is model-checked is one of the blocks.           *)
THEOREM RunTheorem == MCSpec => Blocks!Spec
<1>1. MCInit => Blocks!Init
  BY DEF MCInit
<1>2. [MCNext]_<<kind, vars, blockVars>> => [Blocks!Next]_(Blocks!vars)
  BY DEF MCNext, OfSend, OfBlocks, blockVars, Blocks!vars
<1> QED
  BY <1>1, <1>2, PTL DEF MCSpec, Blocks!Spec
=============================================================================
