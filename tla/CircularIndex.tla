----------------------------- MODULE CircularIndex -----------------------------
(***************************************************************************)
(* Arithmetic on index_t (concurrentqueue.h:216), an unsigned type whose   *)
(* values wrap: 2 * Half of them.                                          *)
(***************************************************************************)
EXTENDS Integers

CONSTANTS
  Half,       (* 2^(w-1), w the width of index_t             *)
  BlockSize   (* BLOCK_SIZE, the elements of a block         *)

(* Both are powers of 2 that index_t can hold (636-639).                   *)
ASSUME CircularIndexAssumption ==
  Half \in Nat \ {0} /\ BlockSize \in Nat \ {0} /\ BlockSize <= Half

IndexMod == 2 * Half

Indices == 0 .. IndexMod - 1

(* What is left of a sum or a difference in index_t. *)
Wrap(n) == n % IndexMod

(* circular_less_than<index_t> *)
CircularLess(a, b) == Wrap(a - b) > Half

(***************************************************************************)
(* get_block_index_index_for_index: how far the block at `base` is from    *)
(* the one at `from`, in a block index of `capacity` entries.  BLOCK_SIZE  *)
(* is a size_t, so the division is unsigned, whatever the sign of its      *)
(* left operand.                                                           *)
(***************************************************************************)
BlockOffset(base, from, capacity) == (Wrap(base - from) \div BlockSize) % capacity
================================================================================
