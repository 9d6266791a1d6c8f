-------------------------------- MODULE SubQueue --------------------------------
(***************************************************************************)
(* The four counters by which one producer of a ConcurrentQueue and any    *)
(* number of consumers share its elements (ProducerBase,                   *)
(* concurrentqueue.h:1586-1590).  Elements have the indices 0 .. tail - 1; *)
(* a consumer that is allowed to takes the index `head`.                   *)
(*                                                                         *)
(* dequeue() in ExplicitProducer (1794-1890) and ImplicitProducer          *)
(* (2382-2451) starts with the same steps on these counters; Keron's       *)
(* queues have implicit producers.  Each action is one atomic access.  The *)
(* accesses of a thread take effect in program order.  The counters are    *)
(* unbounded here; WrappedCounters has them wrap as they do in the code.   *)
(***************************************************************************)
EXTENDS Integers, FiniteSets

CONSTANTS
  Consumers,    (* the threads that dequeue                *)
  MaxElements,  (* bound on the elements that are enqueued *)
  MaxTickets    (* bound on the tickets that are taken     *)

ASSUME SubQueueBounds == MaxElements \in Nat /\ MaxTickets \in Nat

VARIABLES
  tail,        (* tailIndex                                                 *)
  head,        (* headIndex                                                 *)
  optimistic,  (* dequeueOptimisticCount                                    *)
  overcommit,  (* dequeueOvercommit                                         *)
  cpc,         (* where each consumer is in dequeue()                       *)
  probeTail,   (* local tail of the first comparison                        *)
  seen,        (* local overcommit                                          *)
  ticket,      (* local myDequeueCount                                      *)
  index,       (* local index                                               *)
  passed,      (* history: tickets that passed the second comparison        *)
  failed,      (* history: tickets that failed it                           *)
  claimed,     (* history: passed tickets that were given an index          *)
  returned,    (* history: failed tickets that overcommit accounts for      *)
  top          (* history: one more than the greatest passed ticket, or 0   *)

counters == <<tail, head, optimistic, overcommit>>
locals   == <<cpc, probeTail, seen, ticket, index>>
history  == <<passed, failed, claimed, returned, top>>
subvars  == <<tail, head, optimistic, overcommit, cpc, probeTail, seen, ticket,
              index, passed, failed, claimed, returned, top>>

ConsumerStates ==
  {"idle", "overcommit", "probe", "ticket", "compare", "claim", "take", "giveup"}

(* Every variable has its type. *)
SubTypeOK ==
  /\ tail \in Nat /\ head \in Nat /\ optimistic \in Nat /\ overcommit \in Nat
  /\ cpc \in [Consumers -> ConsumerStates]
  /\ probeTail \in [Consumers -> Nat]
  /\ seen \in [Consumers -> Nat]
  /\ ticket \in [Consumers -> Nat]
  /\ index \in [Consumers -> Nat]
  /\ passed \subseteq Nat /\ failed \subseteq Nat
  /\ claimed \subseteq Nat /\ returned \subseteq Nat
  /\ top \in Nat

SubInit ==
  /\ tail = 0 /\ head = 0 /\ optimistic = 0 /\ overcommit = 0
  /\ cpc = [c \in Consumers |-> "idle"]
  /\ probeTail = [c \in Consumers |-> 0]
  /\ seen = [c \in Consumers |-> 0]
  /\ ticket = [c \in Consumers |-> 0]
  /\ index = [c \in Consumers |-> 0]
  /\ passed = {} /\ failed = {} /\ claimed = {} /\ returned = {}
  /\ top = 0

Goto(c, from, to) == cpc[c] = from /\ cpc' = [cpc EXCEPT ![c] = to]
--------------------------------------------------------------------------------
(* The producer: tailIndex.store(newTailIndex, release). *)
Publish ==
  /\ tail < MaxElements
  /\ tail' = tail + 1
  /\ UNCHANGED <<head, optimistic, overcommit, locals, history>>

(* tail = tailIndex.load() *)
LoadTail(c) ==
  /\ Goto(c, "idle", "overcommit")
  /\ probeTail' = [probeTail EXCEPT ![c] = tail]
  /\ UNCHANGED <<counters, seen, ticket, index, history>>

(* Mutant: overcommit is guessed ahead of the count of the failures. *)
AheadOfFailures == overcommit + 1

LoadedOvercommit == overcommit

(* overcommit = dequeueOvercommit.load() *)
LoadOvercommit(c) ==
  /\ Goto(c, "overcommit", "probe")
  /\ seen' = [seen EXCEPT ![c] = LoadedOvercommit]
  /\ UNCHANGED <<counters, probeTail, ticket, index, history>>

(* dequeueOptimisticCount.load() - overcommit < tail: there might be one. *)
Probe(c) ==
  /\ \/ optimistic - seen[c] < probeTail[c] /\ Goto(c, "probe", "ticket")
     \/ optimistic - seen[c] >= probeTail[c] /\ Goto(c, "probe", "idle")
  /\ UNCHANGED <<counters, probeTail, seen, ticket, index, history>>

(* myDequeueCount = dequeueOptimisticCount.fetch_add(1) *)
TakeTicket(c) ==
  /\ optimistic < MaxTickets
  /\ Goto(c, "ticket", "compare")
  /\ ticket' = [ticket EXCEPT ![c] = optimistic]
  /\ optimistic' = optimistic + 1
  /\ UNCHANGED <<tail, head, overcommit, probeTail, seen, index, history>>

(* Mutant: a consumer that waits for one element may take the next one too. *)
PassesOffByOne(c) == ticket[c] - seen[c] <= tail

(* myDequeueCount - overcommit < tailIndex.load(): there is one for it. *)
Passes(c) == ticket[c] - seen[c] < tail

(* The second comparison, with tailIndex loaded again. *)
Compare(c) ==
  /\ IF Passes(c)
       THEN /\ Goto(c, "compare", "claim")
            /\ passed' = passed \cup {ticket[c]}
            /\ top' = IF ticket[c] + 1 > top THEN ticket[c] + 1 ELSE top
            /\ UNCHANGED failed
       ELSE /\ Goto(c, "compare", "giveup")
            /\ failed' = failed \cup {ticket[c]}
            /\ UNCHANGED <<passed, top>>
  /\ UNCHANGED <<counters, probeTail, seen, ticket, index, claimed, returned>>

(* Mutant: headIndex is read and left as it is. *)
HeadKept == head

HeadAdded == head + 1

(* index = headIndex.fetch_add(1) *)
Claim(c) ==
  /\ Goto(c, "claim", "take")
  /\ index' = [index EXCEPT ![c] = head]
  /\ head' = HeadAdded
  /\ claimed' = claimed \cup {ticket[c]}
  /\ UNCHANGED <<tail, optimistic, overcommit, probeTail, seen, ticket,
                 passed, failed, returned, top>>

(* The element is moved out of its block; dequeue() returns true. *)
Take(c) ==
  /\ Goto(c, "take", "idle")
  /\ UNCHANGED <<counters, probeTail, seen, ticket, index, history>>

(* Mutants: a failed ticket is not given back, or is taken off the count. *)
NotReturned == overcommit
TakenFromCount == overcommit - 1

OvercommitAdded == overcommit + 1

(* dequeueOvercommit.fetch_add(1); dequeue() returns false. *)
GiveUp(c) ==
  /\ Goto(c, "giveup", "idle")
  /\ overcommit' = OvercommitAdded
  /\ returned' = returned \cup {ticket[c]}
  /\ UNCHANGED <<tail, head, optimistic, probeTail, seen, ticket, index,
                 passed, failed, claimed, top>>

ConsumerStep(c) ==
  \/ LoadTail(c)
  \/ LoadOvercommit(c)
  \/ Probe(c)
  \/ TakeTicket(c)
  \/ Compare(c)
  \/ Claim(c)
  \/ Take(c)
  \/ GiveUp(c)

SubNext == Publish \/ \E c \in Consumers : ConsumerStep(c)

SubSpec == SubInit /\ [][SubNext]_subvars

--------------------------------------------------------------------------------
(***************************************************************************)
(* "Since there's guaranteed to be at least one element, this will never   *)
(* exceed tail" (concurrentqueue.h:1843-1844): no consumer is given the    *)
(* index of an element that is not published.                              *)
(***************************************************************************)
HeadNeverExceedsTail == head <= tail

(***************************************************************************)
(* Every consumer that passed the second comparison is "guaranteed to be   *)
(* at least one element" (1831), the ones that have not yet taken their    *)
(* index included.                                                         *)
(***************************************************************************)
ElementForEveryPass ==
  head + Cardinality({c \in Consumers : cpc[c] = "claim"}) <= tail

(***************************************************************************)
(* No two consumers are taking the same element.                           *)
(***************************************************************************)
IndicesDiffer ==
  \A c, d \in Consumers :
    c # d /\ cpc[c] = "take" /\ cpc[d] = "take" => index[c] # index[d]

(***************************************************************************)
(* assert(overcommit <= myDequeueCount) (1824, 2391).                      *)
(***************************************************************************)
OvercommitWithinTicket ==
  \A c \in Consumers :
    cpc[c] \in {"compare", "claim", "take", "giveup"} => seen[c] <= ticket[c]

Dispenser ==
  INSTANCE IndexDispenser
    WITH taking <- [c \in Consumers |-> IF cpc[c] = "take" THEN index[c] ELSE -1]

(***************************************************************************)
(* The optimistic counters implement the abstract dispenser: indices come  *)
(* out one by one, in order, each to one consumer, and only those of       *)
(* elements that are there (1794-1890, 2382-2451).                         *)
(***************************************************************************)
DispensesIndices == Dispenser!DispenserSpec
================================================================================
