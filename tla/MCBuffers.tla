------------------------------ MODULE MCBuffers ------------------------------
(***************************************************************************)
(* The two uses of buffers for model checking: the output of a channel     *)
(* (SendRemains) or a few blocks in several threads (MemoryBlock), chosen  *)
(* in the first state.                                                     *)
(***************************************************************************)
EXTENDS SendRemains

CONSTANTS Holders, Buffers, Sizes, MaxSize, MaxWrite, MaxCalls

VARIABLES kind, heap, base, rd, wr, at, op, calls

Blocks == INSTANCE MemoryBlock

(* malloc() always finds room: each block may need a new buffer while it   *)
(* still has an old one.                                                   *)
ASSUME BlockAssumption ==
  /\ IsFiniteSet(Holders) /\ IsFiniteSet(Buffers)
  /\ Buffers \subseteq Nat \ {0} /\ Cardinality(Buffers) >= 2 * Cardinality(Holders)
  /\ Sizes \subseteq Nat /\ MaxSize \in Nat /\ MaxWrite \in Nat

blockVars == <<heap, base, rd, wr, at, op, calls>>

MCInit == kind \in {"send", "blocks"} /\ Init /\ Blocks!Init

OfSend(A) == kind = "send" /\ A /\ UNCHANGED <<kind, blockVars>>
OfBlocks(A) == kind = "blocks" /\ A /\ UNCHANGED <<kind, vars>>

MCNext == OfSend(Next) \/ OfBlocks(Blocks!Next)

MCFairness ==
  LET all == <<kind, vars, blockVars>>
  IN  WF_all(OfSend(Step)) /\ WF_all(OfSend(Enter)) /\ WF_all(OfSend(PeerReads))

MCSpec == MCInit /\ [][MCNext]_<<kind, vars, blockVars>> /\ MCFairness
-----------------------------------------------------------------------------
(* The properties of MemoryBlock.                                          *)

(* A buffer counts the blocks that hold it.                                *)
CountsHolders == Blocks!CountsHolders

(* No block changes under its owner.                                       *)
BlocksAreValues == Blocks!BlocksAreValues
=============================================================================
