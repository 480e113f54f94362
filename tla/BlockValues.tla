----------------------------- MODULE BlockValues -----------------------------
(***************************************************************************)
(* What tdk::buffer::memory_block promises to those who pass it by value:  *)
(* a block is a text of bytes and a read position, and nothing that is     *)
(* done to one block changes another.                                      *)
(***************************************************************************)
EXTENDS Naturals, Sequences, SequencesExt

CONSTANTS
  Holders,  \* the blocks of a program, by name
  Bytes     \* what a byte may be

VARIABLES
  there,    \* the blocks that have a value
  text,     \* the bytes of each block up to its write position
  read      \* how many of them have been read

vars == <<there, text, read>>

Init ==
  /\ there = {}
  /\ text = [h \in Holders |-> <<>>] /\ read = [h \in Holders |-> 0]

Becomes(h, t, r) ==
  /\ there' = there \cup {h}
  /\ text' = [text EXCEPT ![h] = t] /\ read' = [read EXCEPT ![h] = r]

Create(h) == Becomes(h, <<>>, 0)

Drop(h) ==
  /\ there' = there \ {h}
  /\ text' = [text EXCEPT ![h] = <<>>] /\ read' = [read EXCEPT ![h] = 0]

(* Bytes are added at the end, or the last ones taken away there, unread   *)
(* ones by their writer and any by a reserve() for less than there is.     *)
Write(h) ==
  /\ IsPrefix(text[h], text'[h])
  /\ \A i \in DOMAIN text'[h] : text'[h][i] \in Bytes
  /\ Becomes(h, text'[h], read[h])

Cut(h) ==
  \E n \in 0 .. Len(text[h]) :
    Becomes(h, SubSeq(text[h], 1, n), IF read[h] <= n THEN read[h] ELSE n)

Read(h) == \E r \in 0 .. Len(text[h]) : Becomes(h, text[h], r)

(* What has been read is forgotten, or everything is.                      *)
Align(h) == Becomes(h, SubSeq(text[h], read[h] + 1, Len(text[h])), 0)
Clear(h) == Becomes(h, <<>>, 0)

Copy(h, g) == Becomes(h, text[g], read[g])

Move(h, g) ==
  /\ there' = (there \ {g}) \cup {h}
  /\ text' = [text EXCEPT ![h] = text[g], ![g] = <<>>]
  /\ read' = [read EXCEPT ![h] = read[g], ![g] = 0]

Next ==
  \E h \in Holders :
    \/ Create(h) \/ Drop(h)
    \/ h \in there /\ (Write(h) \/ Cut(h) \/ Read(h) \/ Align(h) \/ Clear(h))
    \/ \E g \in there : Copy(h, g) \/ Move(h, g)

Spec == Init /\ [][Next]_vars
=============================================================================
