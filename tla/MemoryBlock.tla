----------------------------- MODULE MemoryBlock -----------------------------
(***************************************************************************)
(* tdk::buffer::memory_block over tdk::buffer::buffer_base: copies share a *)
(* buffer on the heap and its count of holders; an operation that writes   *)
(* calls reserve(), which replaces a shared or too small buffer by one of  *)
(* its own.  Blocks are used in several threads, each block in one at a    *)
(* time, so that the steps of different blocks interleave.                 *)
(* A byte is named after the block that wrote it.                          *)
(*                                                                         *)
(* Blocks over memory of the caller, without an allocator, and markers are *)
(* left out.                                                               *)
(***************************************************************************)
EXTENDS Naturals, Sequences, FiniteSets

CONSTANTS
  Holders,   \* memory_block objects
  Buffers,   \* addresses of the heap, numbers from 1 on
  Sizes,     \* sizes that blocks are constructed with and reserve() is called for
  MaxSize,   \* bound: bytes of a buffer
  MaxWrite,  \* bound: bytes of a write
  MaxCalls   \* bound: operations begun

VARIABLES
  heap,      \* buffers: the count of holders, 0 if free, and the bytes
  base,      \* _base of each block, or Null
  rd,        \* _read_pos
  wr,        \* _write_pos
  at,        \* where the block's operation is
  op,        \* the operation
  calls      \* operations begun so far

vars == <<heap, base, rd, wr, at, op, calls>>

Null == 0
NoOp == [does |-> "none", size |-> 0, bytes |-> <<>>, old |-> Null]

Init ==
  /\ heap = [b \in Buffers |-> [count |-> 0, bytes |-> <<>>]]
  /\ base = [h \in Holders |-> Null]
  /\ rd = [h \in Holders |-> 0] /\ wr = [h \in Holders |-> 0]
  /\ at = [h \in Holders |-> "gone"]
  /\ op = [h \in Holders |-> NoOp]
  /\ calls = 0
-----------------------------------------------------------------------------
Lesser(a, b) == IF a < b THEN a ELSE b
Size(h) == IF base[h] = Null THEN 0 ELSE Len(heap[base[h]].bytes)
Strings(h, n) == {[i \in 1 .. k |-> h] : k \in 1 .. Lesser(n, MaxWrite)}

(* bytes with s written over it at position pos                            *)
Overwrite(bytes, pos, s) ==
  [i \in DOMAIN bytes |-> IF i \in pos + 1 .. pos + Len(s) THEN s[i - pos] ELSE bytes[i]]

(* The first bytes of a new buffer are those of the old one, the rest is   *)
(* what malloc() left there.                                               *)
Resized(bytes, size) ==
  [i \in 1 .. size |-> IF i <= Len(bytes) THEN bytes[i] ELSE "undefined"]

(* malloc(): which free address it gives does not matter.                  *)
Free == CHOOSE b \in Buffers :
  heap[b].count = 0 /\ \A a \in Buffers : heap[a].count = 0 => b <= a

Counted(b, n) == [heap EXCEPT ![b].count = @ + n]

(* dec_ref(); a buffer nobody holds is freed, and its bytes with it.       *)
Uncounted(b) ==
  IF b = Null THEN heap
  ELSE [heap EXCEPT ![b] = [count |-> @.count - 1, bytes |-> IF @.count = 1 THEN <<>> ELSE @.bytes]]

Positions(h, r, w) == rd' = [rd EXCEPT ![h] = r] /\ wr' = [wr EXCEPT ![h] = w]
At(h, place) == at' = [at EXCEPT ![h] = place]
-----------------------------------------------------------------------------
(* Construction, copies and moves.                                         *)
construct(h) ==
  /\ at[h] = "gone"
  /\ \E size \in Sizes :
       heap' = [heap EXCEPT ![Free] = [count |-> 1, bytes |-> Resized(<<>>, size)]]
  /\ base' = [base EXCEPT ![h] = Free]
  /\ Positions(h, 0, 0) /\ At(h, "idle")
  /\ UNCHANGED op

(* Mutant: the copy is not counted.                                        *)
copyUncounted(h, g) ==
  /\ at[h] = "gone" /\ at[g] = "idle"
  /\ base' = [base EXCEPT ![h] = base[g]]
  /\ Positions(h, rd[g], wr[g]) /\ At(h, "idle")
  /\ UNCHANGED <<heap, op>>

copy(h, g) ==
  /\ at[h] = "gone" /\ at[g] = "idle"
  /\ heap' = Counted(base[g], 1)
  /\ base' = [base EXCEPT ![h] = base[g]]
  /\ Positions(h, rd[g], wr[g]) /\ At(h, "idle")
  /\ UNCHANGED op

(* operator=(const&): the old buffer goes with a temporary.                *)
assign(h, g) ==
  /\ at[h] \in {"idle", "moved"} /\ at[g] = "idle"
  /\ heap' = Counted(base[g], 1)
  /\ base' = [base EXCEPT ![h] = base[g]]
  /\ Positions(h, rd[g], wr[g]) /\ At(h, "drop")
  /\ op' = [op EXCEPT ![h] = [NoOp EXCEPT !.old = base[h]]]

(* The move constructor and operator=(&&): what is left of g can only be   *)
(* destroyed or assigned to, as operator= leaves it its positions without  *)
(* the bytes.                                                              *)
moveFrom(h, g) ==
  /\ at[h] \in {"gone", "idle", "moved"} /\ at[g] = "idle" /\ h # g
  /\ heap' = Uncounted(base[h])
  /\ base' = [base EXCEPT ![h] = base[g], ![g] = Null]
  /\ rd' = [rd EXCEPT ![h] = rd[g], ![g] = 0]
  /\ wr' = [wr EXCEPT ![h] = wr[g], ![g] = 0]
  /\ at' = [at EXCEPT ![h] = "idle", ![g] = "moved"]
  /\ UNCHANGED op

destroy(h) ==
  /\ at[h] \in {"idle", "moved"}
  /\ heap' = Uncounted(base[h])
  /\ base' = [base EXCEPT ![h] = Null]
  /\ Positions(h, 0, 0) /\ At(h, "gone")
  /\ UNCHANGED op
-----------------------------------------------------------------------------
(* Operations that write: reserve() for size bytes comes first.            *)

(* Mutant: a shared buffer is taken for the block's own.                   *)
ReserveUncounted(h, does, size, bytes) ==
  /\ op' = [op EXCEPT ![h] = [does |-> does, size |-> size, bytes |-> bytes, old |-> Null]]
  /\ At(h, IF Size(h) >= size THEN "act" ELSE "replace")
  /\ UNCHANGED <<heap, base, rd, wr>>

(* buffer_base::reserve(): the look at the count and the size              *)
Reserve(h, does, size, bytes) ==
  /\ op' = [op EXCEPT ![h] = [does |-> does, size |-> size, bytes |-> bytes, old |-> Null]]
  /\ At(h, IF heap[base[h]].count = 1 /\ Size(h) >= size THEN "act" ELSE "replace")
  /\ UNCHANGED <<heap, base, rd, wr>>

reserve(h) ==
  /\ at[h] = "idle"
  /\ \/ \E s \in Strings(h, MaxSize - wr[h]) : Reserve(h, "write", wr[h] + Len(s), s)
     \/ Reserve(h, "align", Size(h), <<>>)
     \/ Reserve(h, "clear", Size(h), <<>>)
     \/ \E size \in Sizes : Reserve(h, "nothing", size, <<>>)

(* A new buffer with a copy of the bytes takes the place of the old one,   *)
(* which its destructor gives up.                                          *)
Replace(h) ==
  /\ at[h] = "replace"
  /\ heap' = [heap EXCEPT ![Free] = [count |-> 1,
                bytes |-> Resized(heap[base[h]].bytes, op[h].size)]]
  /\ base' = [base EXCEPT ![h] = Free]
  /\ op' = [op EXCEPT ![h].old = base[h]]
  /\ At(h, "drop")
  /\ UNCHANGED <<rd, wr>>

Drop(h) ==
  /\ at[h] = "drop"
  /\ heap' = Uncounted(op[h].old)
  /\ op' = [op EXCEPT ![h].old = Null]
  /\ At(h, IF op[h].does = "none" THEN "idle" ELSE "act")
  /\ UNCHANGED <<base, rd, wr>>

(* write(), align(), clear() and reserve() after buffer_base::reserve():   *)
(* the bytes change in place, or the positions are brought into a buffer   *)
(* that has become smaller.                                                *)
Act(h) ==
  LET bytes == heap[base[h]].bytes
      unread == SubSeq(bytes, rd[h] + 1, wr[h])
  IN  /\ at[h] = "act"
      /\ \/ /\ op[h].does = "write"
            /\ heap' = [heap EXCEPT ![base[h]].bytes = Overwrite(@, wr[h], op[h].bytes)]
            /\ Positions(h, rd[h], wr[h] + Len(op[h].bytes))
         \/ /\ op[h].does = "align"
            /\ heap' = [heap EXCEPT ![base[h]].bytes = Overwrite(@, 0, unread)]
            /\ Positions(h, 0, Len(unread))
         \/ /\ op[h].does = "clear"
            /\ Positions(h, 0, 0)
            /\ UNCHANGED heap
         \/ /\ op[h].does = "nothing"
            /\ Positions(h, Lesser(Size(h), rd[h]), Lesser(Size(h), wr[h]))
            /\ UNCHANGED heap
      /\ op' = [op EXCEPT ![h] = NoOp] /\ At(h, "idle")
      /\ UNCHANGED base
-----------------------------------------------------------------------------
(* wr_ptr() and wr_ptr(n) around a system call that fills the block: the   *)
(* callers have just constructed or reserved it, so that it is not shared. *)
fill(h) ==
  /\ at[h] = "idle" /\ heap[base[h]].count = 1
  /\ \E s \in Strings(h, Size(h) - wr[h]) :
       /\ heap' = [heap EXCEPT ![base[h]].bytes = Overwrite(@, wr[h], s)]
       /\ Positions(h, rd[h], wr[h] + Len(s))
  /\ UNCHANGED <<base, at, op>>

(* wr_ptr(-n) *)
unwrite(h) ==
  /\ at[h] = "idle"
  /\ \E n \in 1 .. wr[h] - rd[h] : Positions(h, rd[h], wr[h] - n)
  /\ UNCHANGED <<heap, base, at, op>>

(* read(), rd_ptr(n) and rd_ptr(-n) *)
rd_ptr(h) ==
  /\ at[h] = "idle"
  /\ \E r \in 0 .. wr[h] : r # rd[h] /\ Positions(h, r, wr[h])
  /\ UNCHANGED <<heap, base, at, op>>

Next ==
  \E h \in Holders :
    \/ /\ calls < MaxCalls /\ calls' = calls + 1
       /\ \/ construct(h) \/ destroy(h)
          \/ \E g \in Holders : copy(h, g) \/ assign(h, g) \/ moveFrom(h, g)
          \/ reserve(h) \/ fill(h) \/ unwrite(h) \/ rd_ptr(h)
    \/ (Replace(h) \/ Drop(h) \/ Act(h)) /\ UNCHANGED calls

Spec == Init /\ [][Next]_vars
-----------------------------------------------------------------------------
(* Properties.                                                             *)

(* The count of a buffer is the number of blocks that will give it up: none*)
(* is freed under a block that uses it, and none is left when all are gone.*)
CountsHolders ==
  \A b \in Buffers :
    heap[b].count = Cardinality({h \in Holders : base[h] = b})
                      + Cardinality({h \in Holders : op[h].old = b})

(* Blocks are values, although copies share their bytes until one writes:  *)
(* nothing done to a block, in whatever thread, shows in another one.  A   *)
(* position beyond a buffer that reserve() made smaller counts as its end. *)
Present == {h \in Holders : base[h] # Null}
Values == INSTANCE BlockValues WITH
  Bytes <- Holders,
  there <- Present,
  text <- [h \in Holders |->
             IF h \in Present
             THEN SubSeq(heap[base[h]].bytes, 1, Lesser(Len(heap[base[h]].bytes), wr[h])) ELSE <<>>],
  read <- [h \in Holders |->
             IF h \in Present THEN Lesser(Len(heap[base[h]].bytes), rd[h]) ELSE 0]
BlocksAreValues == Values!Init /\ [][Values!Next]_(Values!vars)
=============================================================================
