-------------------------------- MODULE FreeList --------------------------------
(***************************************************************************)
(* The lock-free list of free blocks that all producers and consumers of a *)
(* ConcurrentQueue share (concurrentqueue.h:1287-1391), one action per     *)
(* access to shared memory; the accesses take effect in program order.     *)
(*                                                                         *)
(* The reference count of a node (freeListRefs) counts the list's own      *)
(* reference and one for each try_get that looks at the node.  Its top bit *)
(* means that the node is to be put on the list by whoever brings the      *)
(* count to zero.                                                          *)
(***************************************************************************)
EXTENDS Naturals, FiniteSets

CONSTANTS
  Nodes,    (* the blocks                                                     *)
  Threads,  (* the threads that take and give blocks                          *)
  Null,     (* nullptr                                                        *)
  Should    (* SHOULD_BE_ON_FREELIST: 2^31, a bit above every reference count *)

ASSUME NullAssumption == Null \notin Nodes
ASSUME ThreadsAssumption == IsFiniteSet(Threads)
ASSUME ShouldAssumption == Should \in Nat /\ Should > Cardinality(Threads) + 2

VARIABLES
  flhead,   (* freeListHead                                                   *)
  refs,     (* freeListRefs of each node                                      *)
  next,     (* freeListNext of each node                                      *)
  pc,       (* where each thread is                                           *)
  node,     (* the node it works on: head/prevHead in try_get, node in add    *)
  seen,     (* local refs in try_get                                          *)
  link,     (* local next in try_get, local head in add_knowing_refcount...   *)
  resume,   (* local head for try_get to go on with; Null in add              *)
  getting,  (* the threads that are in try_get                                *)
  holds     (* the nodes each thread owns                                     *)

vars == <<flhead, refs, next, pc, node, seen, link, resume, getting, holds>>

Opt == Nodes \cup {Null}

Places == {"idle", "load", "refs", "acquire", "next", "pop", "take", "drop",
           "add", "kload", "knext", "kstore", "kcas", "kretry"}

Count(r) == r % Should     (* refs & REFS_MASK                   *)
Marked(r) == r >= Should   (* refs & SHOULD_BE_ON_FREELIST       *)

(***************************************************************************)
(* Every variable has its type.  A count is at most one reference of each  *)
(* thread and the list's own, so it never carries into the top bit.        *)
(***************************************************************************)
TypeOK ==
  /\ flhead \in Opt
  /\ refs \in [Nodes -> 0 .. 2 * Should - 1]
  /\ \A n \in Nodes : Count(refs[n]) <= Cardinality(Threads) + 1
  /\ next \in [Nodes -> Opt]
  /\ pc \in [Threads -> Places]
  /\ node \in [Threads -> Opt]
  /\ seen \in [Threads -> 0 .. 2 * Should - 1]
  /\ link \in [Threads -> Opt]
  /\ resume \in [Threads -> Opt]
  /\ getting \subseteq Threads
  /\ holds \in [Threads -> SUBSET Nodes]

(* Every node is in the hands of the thread that allocated it. *)
Init ==
  /\ flhead = Null
  /\ refs = [n \in Nodes |-> 0]
  /\ next = [n \in Nodes |-> Null]
  /\ pc = [t \in Threads |-> "idle"]
  /\ node = [t \in Threads |-> Null]
  /\ seen = [t \in Threads |-> 0]
  /\ link = [t \in Threads |-> Null]
  /\ resume = [t \in Threads |-> Null]
  /\ getting = {}
  /\ \E owner \in [Nodes -> Threads] :
       holds = [t \in Threads |-> {n \in Nodes : owner[n] = t}]

Goto(t, from, to) == pc[t] = from /\ pc' = [pc EXCEPT ![t] = to]
Set(f, t, value) == [f EXCEPT ![t] = value]
--------------------------------------------------------------------------------
(***************************************************************************)
(* try_get                                                                 *)
(***************************************************************************)
StartGet(t) ==
  /\ Goto(t, "idle", "load")
  /\ getting' = getting \cup {t}
  /\ UNCHANGED <<flhead, refs, next, node, seen, link, resume, holds>>

(* try_get returns, with nothing. *)
EndGet(t, from) ==
  /\ Goto(t, from, "idle")
  /\ getting' = getting \ {t}

(* head = freeListHead.load() *)
LoadHead(t) ==
  /\ \/ flhead = Null /\ EndGet(t, "load")
     \/ flhead # Null /\ Goto(t, "load", "refs") /\ UNCHANGED getting
  /\ node' = Set(node, t, flhead)
  /\ UNCHANGED <<flhead, refs, next, seen, link, resume, holds>>

(* refs = head->freeListRefs.load(): a count of zero means it was taken. *)
LoadRefs(t) ==
  /\ \/ /\ Goto(t, "refs", "load")
        /\ Count(refs[node[t]]) = 0
        /\ node' = Set(node, t, Null)
        /\ UNCHANGED seen
     \/ /\ Goto(t, "refs", "acquire")
        /\ Count(refs[node[t]]) # 0
        /\ seen' = Set(seen, t, refs[node[t]])
        /\ UNCHANGED node
  /\ UNCHANGED <<flhead, refs, next, link, resume, getting, holds>>

(* compare_exchange_strong(refs, refs + 1) *)
Acquire(t) ==
  /\ \/ /\ Goto(t, "acquire", "next")
        /\ refs[node[t]] = seen[t]
        /\ refs' = [refs EXCEPT ![node[t]] = @ + 1]
        /\ UNCHANGED node
     \/ /\ Goto(t, "acquire", "load")
        /\ refs[node[t]] # seen[t]
        /\ node' = Set(node, t, Null)
        /\ UNCHANGED refs
  /\ seen' = Set(seen, t, 0)
  /\ UNCHANGED <<flhead, next, link, resume, getting, holds>>

(* next = head->freeListNext.load() *)
LoadNext(t) ==
  /\ Goto(t, "next", "pop")
  /\ link' = Set(link, t, next[node[t]])
  /\ UNCHANGED <<flhead, refs, next, node, seen, resume, getting, holds>>

(* Mutant: the exchange leaves the node at the head of the list. *)
NotUnlinked(t) == flhead

Unlinked(t) == link[t]

(* freeListHead.compare_exchange_strong(head, next): on failure head is    *)
(* the list's new head, with which the loop goes on.                       *)
Pop(t) ==
  /\ \/ /\ Goto(t, "pop", "take")
        /\ flhead = node[t]
        /\ flhead' = Unlinked(t)
        /\ UNCHANGED resume
     \/ /\ Goto(t, "pop", "drop")
        /\ flhead # node[t]
        /\ resume' = Set(resume, t, flhead)
        /\ UNCHANGED flhead
  /\ link' = Set(link, t, Null)
  /\ UNCHANGED <<refs, next, node, seen, getting, holds>>

(* head->freeListRefs.fetch_add(-2): our reference and the list's. *)
TakeNode(t) ==
  /\ EndGet(t, "take")
  /\ refs' = [refs EXCEPT ![node[t]] = @ - 2]
  /\ holds' = Set(holds, t, holds[t] \cup {node[t]})
  /\ node' = Set(node, t, Null)
  /\ UNCHANGED <<flhead, next, seen, link, resume>>

(* The end of the loop's body: while (head != nullptr). *)
Again(t, from) ==
  /\ \/ resume[t] = Null /\ EndGet(t, from)
     \/ resume[t] # Null /\ Goto(t, from, "refs") /\ UNCHANGED getting
  /\ node' = Set(node, t, resume[t])
  /\ resume' = Set(resume, t, Null)

(* Mutant: the reference that is given back is forgotten in the comparison. *)
LastReader(n) == refs[n] = Should

(* Ours is the last reference, and the node is to be put on the list. *)
LastReference(n) == refs[n] = Should + 1

(* Mutant: the list's reference is given back too. *)
TwoLess(r) == r - 2

OneLess(r) == r - 1

(* prevHead->freeListRefs.fetch_add(-1): the last one puts the node back. *)
Drop(t) ==
  /\ \/ /\ Goto(t, "drop", "kload")
        /\ LastReference(node[t])
        /\ UNCHANGED <<node, resume, getting>>
     \/ /\ pc[t] = "drop" /\ ~LastReference(node[t])
        /\ Again(t, "drop")
  /\ refs' = [refs EXCEPT ![node[t]] = OneLess(@)]
  /\ UNCHANGED <<flhead, next, seen, link, holds>>
--------------------------------------------------------------------------------
(***************************************************************************)
(* add, and add_knowing_refcount_is_zero, which try_get calls too.         *)
(***************************************************************************)
StartAdd(t, n) ==
  /\ Goto(t, "idle", "add")
  /\ n \in holds[t]
  /\ holds' = Set(holds, t, holds[t] \ {n})
  /\ node' = Set(node, t, n)
  /\ UNCHANGED <<flhead, refs, next, seen, link, resume, getting>>

(* Mutant: the node is put on the list while others still look at it. *)
Unwatched(n) == refs[n] \in Nat

(* The old count was zero: nobody else looks at the node. *)
Unreferenced(n) == refs[n] = 0

(* node->freeListRefs.fetch_add(SHOULD_BE_ON_FREELIST) *)
Mark(t) ==
  /\ \/ /\ Goto(t, "add", "kload")
        /\ Unreferenced(node[t])
        /\ UNCHANGED node
     \/ /\ Goto(t, "add", "idle")
        /\ ~Unreferenced(node[t])
        /\ node' = Set(node, t, Null)
  /\ refs' = [refs EXCEPT ![node[t]] = @ + Should]
  /\ UNCHANGED <<flhead, next, seen, link, resume, getting, holds>>

(* head = freeListHead.load() *)
KLoad(t) ==
  /\ Goto(t, "kload", "knext")
  /\ link' = Set(link, t, flhead)
  /\ UNCHANGED <<flhead, refs, next, node, seen, resume, getting, holds>>

(* node->freeListNext.store(head) *)
KNext(t) ==
  /\ Goto(t, "knext", "kstore")
  /\ next' = [next EXCEPT ![node[t]] = link[t]]
  /\ UNCHANGED <<flhead, refs, node, seen, link, resume, getting, holds>>

(* node->freeListRefs.store(1) *)
KStore(t) ==
  /\ Goto(t, "kstore", "kcas")
  /\ refs' = [refs EXCEPT ![node[t]] = 1]
  /\ UNCHANGED <<flhead, next, node, seen, link, resume, getting, holds>>

(* add_knowing_refcount_is_zero returns to add or to try_get. *)
KReturn(t, from) ==
  /\ \/ /\ t \in getting
        /\ Again(t, from)
     \/ /\ t \notin getting
        /\ Goto(t, from, "idle")
        /\ node' = Set(node, t, Null)
        /\ UNCHANGED <<resume, getting>>
  /\ link' = Set(link, t, Null)

(* freeListHead.compare_exchange_strong(head, node) *)
KCas(t) ==
  /\ \/ /\ flhead = link[t]
        /\ KReturn(t, "kcas")
        /\ flhead' = node[t]
     \/ /\ Goto(t, "kcas", "kretry")
        /\ flhead # link[t]
        /\ link' = Set(link, t, flhead)
        /\ UNCHANGED <<flhead, node, resume, getting>>
  /\ UNCHANGED <<refs, next, seen, holds>>

(* Mutant: the adder goes on with a node that others look at. *)
AloneOrNot(n) == refs[n] \in Nat

(* The old count was the list's own reference. *)
Alone(n) == refs[n] = 1

(* fetch_add(SHOULD_BE_ON_FREELIST - 1): again, or leave it to a reader. *)
KRetry(t) ==
  /\ \/ /\ Goto(t, "kretry", "knext")
        /\ Alone(node[t])
        /\ UNCHANGED <<node, link, resume, getting>>
     \/ /\ pc[t] = "kretry" /\ ~Alone(node[t])
        /\ KReturn(t, "kretry")
  /\ refs' = [refs EXCEPT ![node[t]] = @ + Should - 1]
  /\ UNCHANGED <<flhead, next, seen, holds>>
--------------------------------------------------------------------------------
Start(t) == StartGet(t) \/ \E n \in Nodes : StartAdd(t, n)

Work(t) ==
  \/ LoadHead(t) \/ LoadRefs(t) \/ Acquire(t) \/ LoadNext(t) \/ Pop(t) \/ TakeNode(t)
  \/ Drop(t) \/ Mark(t) \/ KLoad(t) \/ KNext(t) \/ KStore(t) \/ KCas(t) \/ KRetry(t)

Next == \E t \in Threads : Start(t) \/ Work(t)

Spec == Init /\ [][Next]_vars
--------------------------------------------------------------------------------
(* S has the first node, and with a node the one it points to. *)
Closed(S, first, links) ==
  /\ first # Null => first \in S
  /\ \A n \in S : links[n] # Null => links[n] \in S

Reachable(first, links) ==
  {n \in Nodes : \A S \in SUBSET Nodes : Closed(S, first, links) => n \in S}

(* The nodes that can be reached from freeListHead. *)
OnList == Reachable(flhead, next)

(* Just popped from the list, or about to be marked. *)
InHand(t) == IF pc[t] \in {"take", "add"} THEN {node[t]} ELSE {}

Owners(n) == {t \in Threads : n \in holds[t] \cup InHand(t)}

(***************************************************************************)
(* A block has one user: no two threads take it, and none takes one that   *)
(* is still on the list (1328-1338; the ABA problem of the CAS at 1331) or *)
(* that somebody is adding to it, which the assertion at 1334 excludes.    *)
(***************************************************************************)
OneUser ==
  /\ \A n \in Nodes : Cardinality(Owners(n)) + (IF n \in OnList THEN 1 ELSE 0) <= 1
  /\ \A t \in Threads : pc[t] = "take" => ~Marked(refs[node[t]])

(* t will put n on the list, or leave it to another thread. *)
Adding(t, n) == node[t] = n /\ pc[t] \in {"kload", "knext", "kstore", "kcas", "kretry"}

(* t has a reference to n that it has not given back. *)
Refers(t, n) == node[t] = n /\ pc[t] \in {"next", "pop", "take", "drop"}

(***************************************************************************)
(* No block is lost: one that nobody owns is on the list, or a thread is   *)
(* adding it, or it is marked and a thread with a reference to it will put *)
(* it back (1341-1347, 1372-1376).                                         *)
(***************************************************************************)
NoneLost ==
  \A n \in Nodes :
    \/ Owners(n) # {}
    \/ n \in OnList
    \/ \E t \in Threads : Adding(t, n)
    \/ Marked(refs[n]) /\ \E t \in Threads : Refers(t, n)

(***************************************************************************)
(* "we run only one copy of this method per node at a time" (1359-1360).   *)
(***************************************************************************)
OneAdder ==
  \A n \in Nodes : Cardinality({t \in Threads : Adding(t, n)}) <= 1

(***************************************************************************)
(* "Lock-free": when the threads take infinitely many steps, infinitely    *)
(* many operations complete, whoever is scheduled (1287).                  *)
(***************************************************************************)
Completes(t) == pc[t] # "idle" /\ pc'[t] = "idle"

LockFree ==
  []<><<\E t \in Threads : Work(t)>>_vars
    => []<><<\E t \in Threads : Completes(t)>>_vars
================================================================================
