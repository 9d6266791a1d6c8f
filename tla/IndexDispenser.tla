----------------------------- MODULE IndexDispenser -----------------------------
(***************************************************************************)
(* What the counters of a producer promise (SubQueue), and what the block  *)
(* bookkeeping of a producer relies on (ImplicitProducer): the producer    *)
(* publishes the elements 0, 1, 2 ... one after the other, and consumers   *)
(* are given the indices of published elements in that order, each index   *)
(* to one consumer.                                                        *)
(***************************************************************************)
EXTENDS Integers

CONSTANTS
  Consumers,   (* the threads that dequeue                *)
  MaxElements  (* bound on the elements that are enqueued *)

ASSUME MaxElementsAssumption == MaxElements \in Nat

VARIABLES
  tail,   (* number of elements published                            *)
  head,   (* number of indices given out                             *)
  taking  (* the index each consumer was given and has not yet taken *)

NoIndex == -1

DispenserInit ==
  /\ tail = 0
  /\ head = 0
  /\ taking = [c \in Consumers |-> NoIndex]

Publish ==
  /\ tail < MaxElements
  /\ tail' = tail + 1
  /\ UNCHANGED <<head, taking>>

Give(c) ==
  /\ taking[c] = NoIndex
  /\ head < tail
  /\ taking' = [taking EXCEPT ![c] = head]
  /\ head' = head + 1
  /\ UNCHANGED tail

Finish(c) ==
  /\ taking[c] # NoIndex
  /\ taking' = [taking EXCEPT ![c] = NoIndex]
  /\ UNCHANGED <<tail, head>>

DispenserNext == Publish \/ \E c \in Consumers : Give(c) \/ Finish(c)

DispenserSpec == DispenserInit /\ [][DispenserNext]_<<tail, head, taking>>
================================================================================
