--------------------------- MODULE CountingTheorems ----------------------------
(***************************************************************************)
(* What happens to the counts of Counting when something is appended to a  *)
(* sequence or taken from its head, and to the number of arguments that a  *)
(* function maps into a set when one of its values changes.                *)
(***************************************************************************)
EXTENDS Counting, FiniteSetTheorems, SequenceTheorems, TLAPS

LEMMA CountType ==
  ASSUME NEW T, NEW s \in Seq(T), NEW S
  PROVE  /\ IsFiniteSet({i \in DOMAIN s : s[i] \in S})
         /\ Count(s, S) \in Nat
<1>1. DOMAIN s = 1 .. Len(s) /\ Len(s) \in Nat
  BY LenProperties
<1>2. IsFiniteSet(1 .. Len(s))
  BY <1>1, FS_Interval
<1>3. IsFiniteSet({i \in DOMAIN s : s[i] \in S})
  BY <1>1, <1>2, FS_Subset
<1> QED
  BY <1>3, FS_CardinalityType DEF Count

LEMMA CountEmpty == \A S : Count(<<>>, S) = 0
<1> SUFFICES ASSUME NEW S PROVE Count(<<>>, S) = 0
  OBVIOUS
<1>1. {i \in DOMAIN <<>> : <<>>[i] \in S} = {}
  OBVIOUS
<1> QED
  BY <1>1, FS_EmptySet DEF Count

LEMMA CountSingle == \A x, S : Count(<<x>>, S) = One(x \in S)
<1> SUFFICES ASSUME NEW x, NEW S PROVE Count(<<x>>, S) = One(x \in S)
  OBVIOUS
<1>1. CASE x \in S
  <2>1. {i \in DOMAIN <<x>> : <<x>>[i] \in S} = {1}
    BY <1>1
  <2> QED
    BY <1>1, <2>1, FS_Singleton DEF Count, One
<1>2. CASE x \notin S
  <2>1. {i \in DOMAIN <<x>> : <<x>>[i] \in S} = {}
    BY <1>2
  <2> QED
    BY <1>2, <2>1, FS_EmptySet DEF Count, One
<1> QED
  BY <1>1, <1>2

LEMMA CountConcat ==
  ASSUME NEW T, NEW s \in Seq(T), NEW t \in Seq(T), NEW S
  PROVE  Count(s \o t, S) = Count(s, S) + Count(t, S)
<1> DEFINE m == Len(s)
           A == {i \in 1 .. m : s[i] \in S}
           B == {i \in 1 .. Len(t) : t[i] \in S}
           C == {m + i : i \in B}
           f == [i \in B |-> m + i]
<1>1. m \in Nat /\ Len(t) \in Nat /\ DOMAIN s = 1 .. m /\ DOMAIN t = 1 .. Len(t)
  BY LenProperties
<1>2. /\ DOMAIN (s \o t) = 1 .. (m + Len(t))
      /\ \A i \in 1 .. (m + Len(t)) : (s \o t)[i] = IF i <= m THEN s[i] ELSE t[i - m]
  BY ConcatProperties, LenProperties
<1>3. {i \in DOMAIN (s \o t) : (s \o t)[i] \in S} = A \cup C
  <2>1. ASSUME NEW i \in A \cup C
        PROVE  i \in 1 .. (m + Len(t)) /\ (s \o t)[i] \in S
    <3>1. CASE i \in A
      BY <1>1, <1>2, <3>1
    <3>2. CASE i \in C
      <4>1. PICK j \in B : i = m + j
        BY <3>2
      <4>2. j \in 1 .. Len(t) /\ t[j] \in S /\ i - m = j /\ i > m /\ i \in 1 .. (m + Len(t))
        BY <1>1, <4>1
      <4> QED
        BY <1>1, <1>2, <4>2
    <3> QED
      BY <3>1, <3>2
  <2>2. ASSUME NEW i \in 1 .. (m + Len(t)), (s \o t)[i] \in S
        PROVE  i \in A \cup C
    <3>1. CASE i <= m
      BY <1>1, <1>2, <2>2, <3>1
    <3>2. CASE i > m
      <4>1. t[i - m] \in S /\ i - m \in 1 .. Len(t) /\ i = m + (i - m)
        BY <1>1, <1>2, <2>2, <3>2
      <4> QED
        BY <4>1
    <3> QED
      BY <1>1, <3>1, <3>2
  <2> QED
    BY <1>2, <2>1, <2>2
<1>4. IsFiniteSet(A) /\ IsFiniteSet(B) /\ Cardinality(A) \in Nat /\ Cardinality(B) \in Nat
  BY <1>1, CountType DEF Count
<1>5. IsFiniteSet(C) /\ Cardinality(C) = Cardinality(B)
  <2>1. f \in [B -> C]
    OBVIOUS
  <2>2. \A i, j \in B : f[i] = f[j] => i = j
    BY <1>1
  <2>3. \A c \in C : \E i \in B : f[i] = c
    OBVIOUS
  <2>4. f \in Bijection(B, C)
    BY <2>1, <2>2, <2>3 DEF Bijection, Injection, Surjection, IsInjective
  <2> HIDE DEF f
  <2> QED
    BY <1>4, <2>4, FS_Bijection DEF ExistsBijection
<1>6. A \cap C = {}
  BY <1>1
<1>7. Cardinality(A \cup C) = Cardinality(A) + Cardinality(C) - 0
  <2>1. Cardinality(A \cap C) = 0
    BY <1>6, FS_EmptySet
  <2> HIDE DEF A, B, C
  <2> QED
    BY <1>4, <1>5, <2>1, FS_Union
<1>8. Count(s, S) = Cardinality(A) /\ Count(t, S) = Cardinality(B)
  BY <1>1 DEF Count
<1>9. Count(s \o t, S) = Cardinality(A \cup C)
  BY <1>3 DEF Count
<1> HIDE DEF A, B, C
<1> QED
  BY <1>4, <1>5, <1>7, <1>8, <1>9

(* A sequence with one member of S, at place k.                            *)
LEMMA CountOnce ==
  ASSUME NEW T, NEW s \in Seq(T), NEW S, NEW k \in DOMAIN s, s[k] \in S,
         \A i \in DOMAIN s : i # k => s[i] \notin S
  PROVE  Count(s, S) = 1
<1>1. {i \in DOMAIN s : s[i] \in S} = {k}
  OBVIOUS
<1> QED
  BY <1>1, FS_Singleton DEF Count

(* A sequence without members of S.                                        *)
LEMMA CountNone ==
  ASSUME NEW T, NEW s \in Seq(T), NEW S, S \cap T = {}
  PROVE  Count(s, S) = 0
<1>1. {i \in DOMAIN s : s[i] \in S} = {}
  BY LenProperties
<1> QED
  BY <1>1, FS_EmptySet DEF Count

(* ... and one with no others.                                             *)
LEMMA CountAll ==
  ASSUME NEW T, NEW s \in Seq(T), NEW S, T \subseteq S, Count(s, S) = 0
  PROVE  s = <<>>
<1>1. {i \in DOMAIN s : s[i] \in S} = {}
  BY CountType, FS_EmptySet, ZenonT(30) DEF Count
<1>2. DOMAIN s = 1 .. Len(s) /\ Len(s) \in Nat /\ \A i \in 1 .. Len(s) : s[i] \in S
  BY LenProperties
<1>3. Len(s) = 0
  BY <1>1, <1>2
<1> QED
  BY <1>3, EmptySeq

(* What occurs is counted.                                                 *)
LEMMA CountSome ==
  ASSUME NEW T, NEW s \in Seq(T), NEW S, NEW k \in DOMAIN s, s[k] \in S
  PROVE  Count(s, S) \in Nat \ {0}
<1> DEFINE A == {i \in DOMAIN s : s[i] \in S}
<1>1. k \in A /\ A # {}
  OBVIOUS
<1>2. IsFiniteSet(A) /\ Count(s, S) \in Nat
  BY CountType
<1>3. Cardinality(A) # 0
  <2> HIDE DEF A
  <2> QED
    BY <1>1, <1>2, FS_EmptySet
<1> QED
  BY <1>2, <1>3 DEF Count

(* Fewer members, fewer occurrences.                                       *)
LEMMA CountMonotonic ==
  ASSUME NEW T, NEW s \in Seq(T), NEW S, NEW R \in SUBSET S
  PROVE  Count(s, R) <= Count(s, S)
<1> DEFINE A == {i \in DOMAIN s : s[i] \in R}
           B == {i \in DOMAIN s : s[i] \in S}
<1>1. A \subseteq B
  OBVIOUS
<1>2. IsFiniteSet(B)
  BY CountType
<1> HIDE DEF A, B
<1>3. Cardinality(A) <= Cardinality(B)
  BY <1>1, <1>2, FS_Subset
<1> QED
  BY <1>3 DEF A, B, Count

LEMMA CountAppend ==
  ASSUME NEW T, NEW s \in Seq(T), NEW x \in T, NEW S
  PROVE  Count(Append(s, x), S) = Count(s, S) + One(x \in S)
<1>1. Append(s, x) = s \o <<x>> /\ <<x>> \in Seq(T)
  OBVIOUS
<1>2. Count(s \o <<x>>, S) = Count(s, S) + Count(<<x>>, S)
  BY <1>1, CountConcat
<1> QED
  BY <1>1, <1>2, CountSingle

LEMMA CountTail ==
  ASSUME NEW T, NEW s \in Seq(T), s # <<>>, NEW S
  PROVE  Count(s, S) = One(Head(s) \in S) + Count(Tail(s), S)
<1>1. Head(s) \in T /\ Tail(s) \in Seq(T) /\ <<Head(s)>> \in Seq(T)
  BY HeadTailProperties
<1>2. s = <<Head(s)>> \o Tail(s)
  OBVIOUS
<1>3. Count(<<Head(s)>> \o Tail(s), S) = Count(<<Head(s)>>, S) + Count(Tail(s), S)
  BY <1>1, CountConcat
<1> QED
  BY <1>2, <1>3, CountSingle

(* The arguments that f maps into S, when f[u] becomes x.                  *)
LEMMA CardinalityExcept ==
  ASSUME NEW U, IsFiniteSet(U), NEW T, NEW f \in [U -> T], NEW u \in U, NEW x, NEW S
  PROVE  /\ Cardinality({v \in U : f[v] \in S}) \in Nat
         /\ Cardinality({v \in U : [f EXCEPT ![u] = x][v] \in S})
              = Cardinality({v \in U : f[v] \in S}) - One(f[u] \in S) + One(x \in S)
<1> DEFINE A == {v \in U : f[v] \in S}
           B == {v \in U : [f EXCEPT ![u] = x][v] \in S}
<1>1. IsFiniteSet(A) /\ Cardinality(A) \in Nat
  BY FS_Subset, FS_CardinalityType
<1>2. /\ IsFiniteSet(A \ {u})
      /\ Cardinality(A \ {u}) = IF u \in A THEN Cardinality(A) - 1 ELSE Cardinality(A)
  BY <1>1, FS_RemoveElement
<1>3. Cardinality((A \ {u}) \cup {u}) = Cardinality(A \ {u}) + 1
  BY <1>2, FS_AddElement
<1>4. B = IF x \in S THEN (A \ {u}) \cup {u} ELSE A \ {u}
  OBVIOUS
<1>5. u \in A <=> f[u] \in S
  OBVIOUS
<1> HIDE DEF A, B
<1>6. Cardinality(B) = Cardinality(A) - One(f[u] \in S) + One(x \in S)
  BY <1>1, <1>2, <1>3, <1>4, <1>5 DEF One
<1> QED
  BY <1>1, <1>6 DEF A, B
=============================================================================
