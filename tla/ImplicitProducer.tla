--------------------------- MODULE ImplicitProducer ---------------------------
(***************************************************************************)
(* One implicit producer of a ConcurrentQueue (concurrentqueue.h           *)
(* 2252-2849): the blocks that hold its elements, the circular block index *)
(* that finds them, its growth, and the way of an emptied block back to    *)
(* the free list.  enqueue() and dequeue() are split at their accesses to  *)
(* shared memory, which take effect in program order.                      *)
(*                                                                         *)
(* The counters are those of IndexDispenser, which SubQueue shows they     *)
(* implement.  The free list is a set; FreeList models its code.  The      *)
(* elements are the indices themselves, and element i is what the i-th     *)
(* enqueue() stored.  The moves of Keron's element types do not throw.     *)
(***************************************************************************)
EXTENDS IndexDispenser, FiniteSets, Sequences

CONSTANTS
  BlockSize,         (* BLOCK_SIZE                                            *)
  InitialIndexSize,  (* IMPLICIT_INITIAL_INDEX_SIZE                           *)
  MaxIndices,        (* bound on the block indices that can be allocated      *)
  PoolBlocks,        (* the initial block pool of the queue                   *)
  HeapBlocks,        (* the blocks that can be allocated later                *)
  NoBlock,           (* nullptr                                               *)
  Uninit             (* the content of memory that nobody has initialised     *)

ASSUME SizesAssumption ==
  BlockSize \in Nat \ {0, 1} /\ InitialIndexSize \in Nat \ {0} /\ MaxIndices \in Nat \ {0}
ASSUME BlocksAssumption ==
  /\ PoolBlocks \cap HeapBlocks = {}
  /\ NoBlock \notin PoolBlocks \cup HeapBlocks
  /\ Uninit \notin PoolBlocks \cup HeapBlocks \cup {NoBlock}

Blocks == PoolBlocks \cup HeapBlocks

InvalidBase == 1   (* INVALID_BLOCK_BASE *)

VARIABLES
  slots,      (* the elements of each block: an index, or NoIndex           *)
  emptied,    (* elementsCompletelyDequeued of each block                   *)
  pool,       (* the blocks left in the initial pool                        *)
  heap,       (* the blocks not yet allocated                               *)
  free,       (* the blocks in the free list                                *)
  freed,      (* how often the destructors gave each block's memory back    *)
  entries,    (* every BlockIndexEntry: key (first index of a block), value *)
  indices,    (* every BlockIndexHeader; blockIndex is the last one, or     *)
              (* nullptr if there is none                                   *)
  tailBlock,  (* the block the producer fills                               *)
  ppc,        (* where the producer is in enqueue()                         *)
  newBlock,   (* its local newBlock                                         *)
  cpc,        (* where each consumer is in dequeue()                        *)
  at,         (* its localBlockIndex, the tail it read, the entry it found  *)
  block       (* its local block                                            *)

dispenser == <<tail, head, taking>>
memory    == <<slots, emptied, pool, heap, free, freed>>
index     == <<entries, indices>>
producer  == <<tailBlock, ppc, newBlock>>
consumers == <<cpc, at, block>>
vars == <<tail, head, taking, slots, emptied, pool, heap, free, freed, entries,
          indices, tailBlock, ppc, newBlock, cpc, at, block>>

Offsets == 0 .. BlockSize - 1
Base(i) == i - (i % BlockSize)

Current == indices[Len(indices)]
NextTail == (Current.tail + 1) % Current.capacity
NextEntry == Current.index[NextTail]
TailEntry == Current.index[Current.tail]

ProducerStates ==
  {"idle", "grow", "key", "tail", "requisition", "rewind", "clear", "install",
   "write", "publish", "crashed", "destroyed"}
ConsumerStates ==
  {"idle", "index", "tail", "base", "value", "move", "count", "release", "add"}

At == [index : 0 .. MaxIndices, tail : Nat, entry : Nat]

(* Every variable has its type. *)
TypeOK ==
  /\ tail \in 0 .. MaxElements /\ head \in 0 .. MaxElements
  /\ taking \in [Consumers -> {NoIndex} \cup 0 .. MaxElements]
  /\ slots \in [Blocks -> [Offsets -> {NoIndex} \cup 0 .. MaxElements]]
  /\ emptied \in [Blocks -> 0 .. BlockSize]
  /\ pool \subseteq PoolBlocks /\ heap \subseteq HeapBlocks /\ free \subseteq Blocks
  /\ freed \in [Blocks -> Nat]
  /\ entries \in Seq([key : Nat, value : Blocks \cup {NoBlock, Uninit}])
  /\ Len(indices) \in 0 .. MaxIndices
  /\ \A i \in DOMAIN indices :
       /\ indices[i].tail \in 0 .. indices[i].capacity - 1
       /\ indices[i].index \in [0 .. indices[i].capacity - 1 -> DOMAIN entries]
  /\ tailBlock \in Blocks \cup {NoBlock} /\ newBlock \in Blocks \cup {NoBlock}
  /\ ppc \in ProducerStates
  /\ cpc \in [Consumers -> ConsumerStates]
  /\ at \in [Consumers -> At]
  /\ block \in [Consumers -> Blocks \cup {NoBlock}]

(***************************************************************************)
(* The constructor of a BlockIndexEntry leaves both members alone, as it   *)
(* does before C++20, and new_block_index() stores a key only.             *)
(***************************************************************************)
InvalidEntry == [key |-> InvalidBase, value |-> Uninit]
Nowhere == [index |-> 0, tail |-> 0, entry |-> 0]

(* The constructor's new_block_index(): the first block index ... *)
FirstIndex ==
  /\ entries = [e \in 1 .. InitialIndexSize |-> InvalidEntry]
  /\ indices = <<[capacity |-> InitialIndexSize, tail |-> InitialIndexSize - 1,
                  index |-> [i \in 0 .. InitialIndexSize - 1 |-> i + 1]]>>

(* ... or none, when malloc fails: the constructor ignores the result. *)
NoIndexYet == entries = <<>> /\ indices = <<>>

Init ==
  /\ DispenserInit
  /\ slots = [b \in Blocks |-> [o \in Offsets |-> NoIndex]]
  /\ emptied = [b \in Blocks |-> 0]
  /\ pool = PoolBlocks /\ heap = HeapBlocks /\ free = {}
  /\ freed = [b \in Blocks |-> 0]
  /\ FirstIndex \/ NoIndexYet
  /\ tailBlock = NoBlock /\ newBlock = NoBlock /\ ppc = "idle"
  /\ cpc = [c \in Consumers |-> "idle"]
  /\ at = [c \in Consumers |-> Nowhere]
  /\ block = [c \in Consumers |-> NoBlock]
--------------------------------------------------------------------------------
(***************************************************************************)
(* enqueue().  At the start of a block the producer finds room in the      *)
(* block index, a block, and links the two; then it stores the element and *)
(* publishes it.                                                           *)
(***************************************************************************)
PGoto(from, to) == ppc = from /\ ppc' = to

InsideBlock ==
  /\ PGoto("idle", "write")
  /\ tail < MaxElements
  /\ tail % BlockSize # 0
  /\ UNCHANGED <<dispenser, memory, index, tailBlock, newBlock, consumers>>

(* Mutant: an entry is reused whatever it refers to. *)
ReusableAlways(e) == e \in DOMAIN entries

(***************************************************************************)
(* insert_block_index_entry: is the next entry free or not?  The value is  *)
(* looked at when the key is valid; what was never stored may look either  *)
(* way.                                                                    *)
(***************************************************************************)
Reusable(e) == entries[e].key = InvalidBase \/ entries[e].value \in {NoBlock, Uninit}
Occupied(e) == entries[e].key # InvalidBase /\ entries[e].value # NoBlock

StartBlock ==
  /\ indices # <<>>
  /\ tail < MaxElements
  /\ tail % BlockSize = 0
  /\ \/ Reusable(NextEntry) /\ PGoto("idle", "key")
     \/ Occupied(NextEntry) /\ PGoto("idle", "grow")
  /\ UNCHANGED <<dispenser, memory, index, tailBlock, newBlock, consumers>>

(***************************************************************************)
(* localBlockIndex->tail and ->capacity through a null pointer: what the   *)
(* comments of enqueue() call a failure (835, 846) ends here instead.      *)
(***************************************************************************)
StartWithoutIndex ==
  /\ PGoto("idle", "crashed")
  /\ indices = <<>>
  /\ tail < MaxElements
  /\ UNCHANGED <<dispenser, memory, index, tailBlock, newBlock, consumers>>

(* Mutant: the entries are copied in the order of their positions. *)
FromFirst(old) == [i \in 0 .. old.capacity - 1 |-> old.index[i]]

(* The entries of a full index in their order, from the oldest one. *)
FromOldest(old) ==
  [i \in 0 .. old.capacity - 1 |-> old.index[(old.tail + 1 + i) % old.capacity]]

(* new_block_index: twice the room, the same entries in the same order. *)
Grow ==
  /\ PGoto("grow", "key")
  /\ Len(indices) < MaxIndices
  /\ LET old == Current
         n   == old.capacity
     IN  /\ entries' = entries \o [e \in 1 .. n |-> InvalidEntry]
         /\ indices' =
              Append(indices,
                [capacity |-> 2 * n, tail |-> n - 1,
                 index |-> [i \in 0 .. 2 * n - 1 |->
                              IF i < n THEN FromOldest(old)[i]
                                       ELSE Len(entries) + 1 + i - n]])
  /\ UNCHANGED <<dispenser, memory, tailBlock, newBlock, consumers>>

(* malloc fails: enqueue() returns false. *)
GrowFails ==
  /\ PGoto("grow", "idle")
  /\ UNCHANGED <<dispenser, memory, index, tailBlock, newBlock, consumers>>

StoreKey ==
  /\ PGoto("key", "tail")
  /\ entries' = [entries EXCEPT ![NextEntry].key = tail]
  /\ UNCHANGED <<dispenser, memory, indices, tailBlock, newBlock, consumers>>

StoreTail ==
  /\ PGoto("tail", "requisition")
  /\ indices' = [indices EXCEPT ![Len(indices)].tail = NextTail]
  /\ UNCHANGED <<dispenser, memory, entries, tailBlock, newBlock, consumers>>

(* The initial pool, then the free list, then malloc. *)
Spares == IF pool # {} THEN pool ELSE IF free # {} THEN free ELSE heap

(* requisition_block *)
Requisition(b) ==
  /\ PGoto("requisition", "install")
  /\ b \in Spares
  /\ pool' = pool \ {b} /\ free' = free \ {b} /\ heap' = heap \ {b}
  /\ newBlock' = b
  /\ UNCHANGED <<dispenser, slots, emptied, freed, index, tailBlock, consumers>>

RequisitionFails ==
  /\ PGoto("requisition", "rewind")
  /\ pool = {} /\ free = {}
  /\ UNCHANGED <<dispenser, memory, index, tailBlock, newBlock, consumers>>

(* rewind_block_index_tail() *)
Rewind ==
  /\ PGoto("rewind", "clear")
  /\ indices' = [indices EXCEPT ![Len(indices)].tail =
                   (Current.tail + Current.capacity - 1) % Current.capacity]
  /\ UNCHANGED <<dispenser, memory, entries, tailBlock, newBlock, consumers>>

(* Mutant: the value of the entry is left as it is. *)
ValueLeft == entries

ValueCleared == [entries EXCEPT ![NextEntry].value = NoBlock]

(* idxEntry->value.store(nullptr); enqueue() returns false. *)
ClearEntry ==
  /\ PGoto("clear", "idle")
  /\ entries' = ValueCleared
  /\ UNCHANGED <<dispenser, memory, indices, tailBlock, newBlock, consumers>>

(* Mutant: the counter of a reused block is not reset. *)
NoReset == emptied

ResetEmpty == [emptied EXCEPT ![newBlock] = 0]

(* newBlock->reset_empty(); idxEntry->value.store(newBlock) *)
Install ==
  /\ PGoto("install", "write")
  /\ emptied' = ResetEmpty
  /\ entries' = [entries EXCEPT ![TailEntry].value = newBlock]
  /\ tailBlock' = newBlock
  /\ newBlock' = NoBlock
  /\ UNCHANGED <<dispenser, slots, pool, heap, free, freed, indices, consumers>>

Write ==
  /\ PGoto("write", "publish")
  /\ slots' = [slots EXCEPT ![tailBlock][tail % BlockSize] = tail]
  /\ UNCHANGED <<dispenser, emptied, pool, heap, free, freed, index, tailBlock, newBlock,
                 consumers>>

PublishElement ==
  /\ PGoto("publish", "idle")
  /\ Publish
  /\ UNCHANGED <<memory, index, tailBlock, newBlock, consumers>>

ProducerStep ==
  \/ InsideBlock \/ StartBlock \/ StartWithoutIndex \/ Grow \/ GrowFails \/ StoreKey \/ StoreTail
  \/ (\E b \in Blocks : Requisition(b))
  \/ RequisitionFails \/ Rewind \/ ClearEntry \/ Install \/ Write \/ PublishElement
--------------------------------------------------------------------------------
(***************************************************************************)
(* dequeue(), from the fetch_add of headIndex.                             *)
(***************************************************************************)
CGoto(c, from, to) == cpc[c] = from /\ cpc' = [cpc EXCEPT ![c] = to]

ClaimIndex(c) ==
  /\ CGoto(c, "idle", "index")
  /\ ppc # "destroyed"
  /\ Give(c)
  /\ UNCHANGED <<memory, index, producer, at, block>>

(* localBlockIndex = blockIndex.load() *)
LoadIndex(c) ==
  /\ CGoto(c, "index", "tail")
  /\ at' = [at EXCEPT ![c].index = Len(indices)]
  /\ UNCHANGED <<dispenser, memory, index, producer, block>>

(* tail = localBlockIndex->tail.load() *)
LoadIndexTail(c) ==
  /\ CGoto(c, "tail", "base")
  /\ at' = [at EXCEPT ![c].tail = indices[at[c].index].tail]
  /\ UNCHANGED <<dispenser, memory, index, producer, block>>

(* The key of the entry at a tail of a block index; and at the one c read. *)
TailBaseOf(header, t) == entries[header.index[t]].key
TailBase(c) == TailBaseOf(indices[at[c].index], at[c].tail)

(* The position of the block that holds element i, counted from that tail. *)
Position(c, i) ==
  (at[c].tail + (Base(i) - TailBase(c)) \div BlockSize) % indices[at[c].index].capacity

(* tailBase = ...->key.load() and the entry at the computed position. *)
FindEntry(c) ==
  /\ CGoto(c, "base", "value")
  /\ at' = [at EXCEPT ![c].entry =
              indices[at[c].index].index[Position(c, taking[c])]]
  /\ UNCHANGED <<dispenser, memory, index, producer, block>>

(* block = entry->value.load() *)
LoadBlock(c) ==
  /\ CGoto(c, "value", "move")
  /\ block' = [block EXCEPT ![c] = entries[at[c].entry].value]
  /\ UNCHANGED <<dispenser, memory, index, producer, at>>

(* element = std::move(el); el.~T() *)
MoveOut(c) ==
  /\ CGoto(c, "move", "count")
  /\ slots' = [slots EXCEPT ![block[c]][taking[c] % BlockSize] = NoIndex]
  /\ UNCHANGED <<dispenser, emptied, pool, heap, free, freed, index, producer, at, block>>

(* Mutant: one element is left when the block is given back. *)
LastOneEarly(b) == emptied[b] + 1 = BlockSize - 1

(* prevVal == BLOCK_SIZE - 1 *)
LastOne(b) == emptied[b] = BlockSize - 1

(* block->set_empty(index): is it the last element of the block? *)
SetEmpty(c) ==
  /\ \/ /\ CGoto(c, "count", "release")
        /\ LastOne(block[c])
        /\ UNCHANGED <<dispenser, at, block>>
     \/ /\ CGoto(c, "count", "idle")
        /\ ~LastOne(block[c])
        /\ Finish(c)
        /\ at' = [at EXCEPT ![c] = Nowhere]
        /\ block' = [block EXCEPT ![c] = NoBlock]
  /\ emptied' = [emptied EXCEPT ![block[c]] = @ + 1]
  /\ UNCHANGED <<slots, pool, heap, free, freed, index, producer>>

(* Mutant: the block stays in the block index. *)
EntryKept(e) == entries

EntryCleared(e) == [entries EXCEPT ![e].value = NoBlock]

(* entry->value.store(nullptr) *)
Release(c) ==
  /\ CGoto(c, "release", "add")
  /\ entries' = EntryCleared(at[c].entry)
  /\ UNCHANGED <<dispenser, memory, indices, producer, at, block>>

(* add_block_to_free_list(block) *)
AddToFreeList(c) ==
  /\ CGoto(c, "add", "idle")
  /\ Finish(c)
  /\ free' = free \cup {block[c]}
  /\ at' = [at EXCEPT ![c] = Nowhere]
  /\ block' = [block EXCEPT ![c] = NoBlock]
  /\ UNCHANGED <<slots, emptied, pool, heap, freed, index, producer>>

ConsumerStep(c) ==
  \/ ClaimIndex(c) \/ LoadIndex(c) \/ LoadIndexTail(c) \/ FindEntry(c) \/ LoadBlock(c)
  \/ MoveOut(c) \/ SetEmpty(c) \/ Release(c) \/ AddToFreeList(c)

--------------------------------------------------------------------------------
(***************************************************************************)
(* The destructors of the producer and then of the queue.  Nobody is in an *)
(* operation when they run: Keron's main() has joined its workers.         *)
(***************************************************************************)
Remaining == head .. tail - 1
RemainingBases == {Base(i) : i \in Remaining}

(* get_block_index_entry_for_index(i)->value, by a thread that is alone *)
BlockOf(i) ==
  LET offset == (Base(i) - TailBaseOf(Current, Current.tail)) \div BlockSize
  IN  entries[Current.index[(Current.tail + offset) % Current.capacity]].value

(* Mutant: the last block is freed even when it has been emptied. *)
AnyTailBlock == tailBlock # NoBlock

(* forceFreeLastBlock || (tail & (BLOCK_SIZE - 1)) != 0 *)
OwnsTailBlock ==
  tailBlock # NoBlock /\ (Remaining # {} \/ tail % BlockSize # 0)

(***************************************************************************)
(* The blocks left on the way from head, the last one excepted; then that  *)
(* one.  dynamicallyAllocated says whether a block is from the heap.       *)
(***************************************************************************)
FreedByProducer(b) ==
  IF b \in PoolBlocks THEN 0
  ELSE Cardinality({base \in RemainingBases : base + BlockSize < tail /\ BlockOf(base) = b})
       + (IF OwnsTailBlock /\ tailBlock = b THEN 1 ELSE 0)

(* The initial pool as one array, the others one by one from the free list. *)
FreedByQueue(b) == IF b \in PoolBlocks THEN 1 ELSE Cardinality(free \cap {b})

(* The elements left are destroyed, the blocks freed, then the block index. *)
Destroy ==
  /\ PGoto("idle", "destroyed")
  /\ \A c \in Consumers : cpc[c] = "idle"
  /\ slots' = [b \in Blocks |-> [o \in Offsets |->
                 IF \E i \in Remaining : BlockOf(i) = b /\ i % BlockSize = o
                   THEN NoIndex ELSE slots[b][o]]]
  /\ freed' = [b \in Blocks |-> freed[b] + FreedByProducer(b) + FreedByQueue(b)]
  /\ entries' = <<>> /\ indices' = <<>>
  /\ UNCHANGED <<dispenser, emptied, pool, heap, free, tailBlock, newBlock, consumers>>

Next == ProducerStep \/ Destroy \/ \E c \in Consumers : ConsumerStep(c)

Spec == Init /\ [][Next]_vars
--------------------------------------------------------------------------------
(***************************************************************************)
(* The assertions of get_block_index_index_for_index (2774, 2779): the     *)
(* index a consumer loaded, however old, has an entry at its tail, and the *)
(* entry computed from it is the one of the element's block.               *)
(***************************************************************************)
EntryIsFound ==
  \A c \in Consumers :
    /\ cpc[c] = "base" => TailBase(c) # InvalidBase
    /\ cpc[c] \in {"value", "move", "count", "release"} =>
         /\ entries[at[c].entry].key = Base(taking[c])
         /\ entries[at[c].entry].value \in Blocks

(***************************************************************************)
(* A consumer moves out the element of its own index: no block is reused,  *)
(* and no entry given to another block, under it.  With the order of the   *)
(* indices this makes the producer's elements a FIFO queue.                *)
(***************************************************************************)
ReadsOwnElement ==
  \A c \in Consumers :
    cpc[c] = "move" => slots[block[c]][taking[c] % BlockSize] = taking[c]

(***************************************************************************)
(* The index grows only when it is full: its entries have the keys of as   *)
(* many blocks as it has room for, up to the last one.  A failed           *)
(* allocation must leave an entry as one that is free (2342), or the next  *)
(* enqueue() takes what was in its memory for a block.                     *)
(***************************************************************************)
GrowsWhenFull ==
  ppc = "grow" =>
    \A k \in 1 .. Current.capacity :
      \E e \in DOMAIN entries : entries[e].key = tail - k * BlockSize

(* The number of places that hold b. *)
Holders(b) ==
  Cardinality({p \in {"pool", "heap", "free", "new"} :
                 \/ p = "pool" /\ b \in pool
                 \/ p = "heap" /\ b \in heap
                 \/ p = "free" /\ b \in free
                 \/ p = "new" /\ b = newBlock})
  + Cardinality({e \in DOMAIN entries : entries[e].value = b})
  + Cardinality({c \in Consumers : cpc[c] = "add" /\ block[c] = b})

(***************************************************************************)
(* Until the destructors run every block is in exactly one place: the      *)
(* pool, the heap, the free list, the producer's hands, one entry of the   *)
(* index, or the hands of the consumer that gives it back.  No failed      *)
(* allocation and no race of the consumers that empty it leaks it.         *)
(***************************************************************************)
BlocksAreOwnedOnce == ppc # "destroyed" => \A b \in Blocks : Holders(b) = 1

(***************************************************************************)
(* The destructors leave nothing behind: every block that was allocated is *)
(* freed once, wherever it is, and every element left in the queue is      *)
(* destroyed, wherever head and tail stand in their blocks (2262-2300).    *)
(***************************************************************************)
TeardownIsComplete ==
  ppc = "destroyed" =>
    /\ \A b \in Blocks : freed[b] = IF b \in heap THEN 0 ELSE 1
    /\ \A b \in Blocks, o \in Offsets : slots[b][o] = NoIndex

(***************************************************************************)
(* A block is given back only when all its elements are out: the counter   *)
(* of set_empty (1448-1450) never reports a block that still has some.     *)
(***************************************************************************)
GivenBackEmpty ==
  \A b \in Blocks :
    (b \in free \/ \E c \in Consumers : cpc[c] \in {"release", "add"} /\ block[c] = b)
      => \A o \in Offsets : slots[b][o] = NoIndex

================================================================================
