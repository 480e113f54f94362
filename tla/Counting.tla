------------------------------- MODULE Counting --------------------------------
(***************************************************************************)
(* How often members of a set occur in a sequence, such as jobs in the     *)
(* list of the loop.                                                       *)
(***************************************************************************)
EXTENDS Integers, Sequences, FiniteSets

One(b) == IF b THEN 1 ELSE 0
Count(seq, S) == Cardinality({i \in DOMAIN seq : seq[i] \in S})
=============================================================================
