---------------------------- MODULE WrappedCounters ----------------------------
(***************************************************************************)
(* The counters of SubQueue as the code has them: of type index_t, which   *)
(* wraps, and compared by circular_less_than.  Nothing here is bounded     *)
(* except by the code's own check that a producer is not half the range    *)
(* ahead of its consumers, and by Patience: a consumer must not sleep      *)
(* between its load of overcommit and its ticket while the others take so  *)
(* many tickets that the counters turn half around, the race of which the  *)
(* comment at concurrentqueue.h:206-215 warns.  dequeue() ends here where  *)
(* the index is given out; what follows is in ImplicitProducer.            *)
(***************************************************************************)
EXTENDS CircularIndex, FiniteSets

CONSTANTS
  Consumers,  (* the threads that dequeue                                    *)
  Patience    (* nobody begins while a consumer is this many tickets late    *)

ASSUME PatienceAssumption == Patience \in Nat

ASSUME ConsumersAssumption == IsFiniteSet(Consumers)

VARIABLES
  tail,        (* tailIndex              *)
  head,        (* headIndex              *)
  optimistic,  (* dequeueOptimisticCount *)
  overcommit,  (* dequeueOvercommit      *)
  cpc,         (* where each consumer is in dequeue()                     *)
  probeTail,   (* local tail of the first comparison                      *)
  seen,        (* local overcommit                                        *)
  ticket,      (* local myDequeueCount                                    *)
  late,        (* history: tickets of others since the load of overcommit *)
  stock        (* history: elements published and not given out           *)

counters == <<tail, head, optimistic, overcommit>>
locals   == <<probeTail, seen, ticket>>
history  == <<late, stock>>
wvars    == <<tail, head, optimistic, overcommit, cpc, probeTail, seen, ticket, late, stock>>

Places == {"idle", "overcommit", "probe", "ticket", "compare", "claim", "giveup"}

Nowhere == [c \in Consumers |-> 0]

WInit ==
  /\ tail = 0 /\ head = 0 /\ optimistic = 0 /\ overcommit = 0
  /\ cpc = [c \in Consumers |-> "idle"]
  /\ probeTail = Nowhere /\ seen = Nowhere /\ ticket = Nowhere
  /\ late = Nowhere
  /\ stock = 0

Goto(c, from, to) == cpc[c] = from /\ cpc' = [cpc EXCEPT ![c] = to]

(* Locals that nothing reads any more are 0. *)
Leave(c, from) ==
  /\ Goto(c, from, "idle")
  /\ probeTail' = [probeTail EXCEPT ![c] = 0]
  /\ seen' = [seen EXCEPT ![c] = 0]
  /\ ticket' = [ticket EXCEPT ![c] = 0]
  /\ late' = [late EXCEPT ![c] = 0]
--------------------------------------------------------------------------------
(* Mutant: only the element itself has to be in order, not its whole block. *)
RoomForOne == CircularLess(head, Wrap(tail + 1))

(* A block that is started fits: head is less than the tail it leads to. *)
RoomForBlock == CircularLess(head, Wrap(tail + BlockSize))

(* enqueue(): room is asked for when a block is started. *)
Enqueue ==
  /\ tail % BlockSize = 0 => RoomForBlock
  /\ tail' = Wrap(tail + 1)
  /\ stock' = stock + 1
  /\ UNCHANGED <<head, optimistic, overcommit, cpc, locals, late>>

LoadTail(c) ==
  /\ Goto(c, "idle", "overcommit")
  /\ probeTail' = [probeTail EXCEPT ![c] = tail]
  /\ UNCHANGED <<counters, seen, ticket, history>>

(* The consumers whose overcommit is loaded and whose ticket is not taken. *)
Waiting == {c \in Consumers : cpc[c] \in {"probe", "ticket"}}

LoadOvercommit(c) ==
  /\ Goto(c, "overcommit", "probe")
  /\ \A d \in Waiting : late[d] < Patience
  /\ seen' = [seen EXCEPT ![c] = overcommit]
  /\ UNCHANGED <<counters, probeTail, ticket, history>>

MightHave(c) == CircularLess(Wrap(optimistic - seen[c]), probeTail[c])

ProbeFinds(c) ==
  /\ MightHave(c)
  /\ Goto(c, "probe", "ticket")
  /\ UNCHANGED <<counters, locals, history>>

ProbeFails(c) ==
  /\ ~MightHave(c)
  /\ Leave(c, "probe")
  /\ UNCHANGED <<counters, stock>>

TakeTicket(c) ==
  /\ Goto(c, "ticket", "compare")
  /\ ticket' = [ticket EXCEPT ![c] = optimistic]
  /\ optimistic' = Wrap(optimistic + 1)
  /\ late' = [d \in Consumers |-> IF d \in Waiting \ {c} THEN late[d] + 1 ELSE late[d]]
  /\ UNCHANGED <<tail, head, overcommit, probeTail, seen, stock>>

(* Mutant: the tickets that failed are not taken into account. *)
PassesGross(c) == CircularLess(ticket[c], tail)

Passes(c) == CircularLess(Wrap(ticket[c] - seen[c]), tail)

Compare(c) ==
  /\ Goto(c, "compare", IF Passes(c) THEN "claim" ELSE "giveup")
  /\ UNCHANGED <<counters, locals, history>>

Claim(c) ==
  /\ Leave(c, "claim")
  /\ head' = Wrap(head + 1)
  /\ stock' = stock - 1
  /\ UNCHANGED <<tail, optimistic, overcommit>>

(* Mutant: a failure is not accounted for. *)
NotReturned == overcommit' = overcommit

OvercommitAdded == overcommit' = Wrap(overcommit + 1)

GiveUp(c) ==
  /\ Leave(c, "giveup")
  /\ OvercommitAdded
  /\ UNCHANGED <<tail, head, optimistic, stock>>

ConsumerStep(c) ==
  \/ LoadTail(c)
  \/ LoadOvercommit(c)
  \/ ProbeFinds(c)
  \/ ProbeFails(c)
  \/ TakeTicket(c)
  \/ Compare(c)
  \/ Claim(c)
  \/ GiveUp(c)

WNext == Enqueue \/ \E c \in Consumers : ConsumerStep(c)

WSpec == WInit /\ [][WNext]_wvars
--------------------------------------------------------------------------------
(***************************************************************************)
(* The tail is never so far ahead of the head that it would be taken for   *)
(* being behind it, which the producer asserts when it starts a block      *)
(* (2324): the check at 2325 leaves room for a block that is begun.        *)
(***************************************************************************)
TailStaysAhead == stock \in 0 .. Half - 1 /\ Wrap(tail - head) = stock

(***************************************************************************)
(* Wherever the counters have wrapped to, there is an element for every    *)
(* consumer that passed the second comparison (2393-2394).                 *)
(***************************************************************************)
ElementForEveryPass ==
  Cardinality({c \in Consumers : cpc[c] = "claim"}) <= stock

(***************************************************************************)
(* When no consumer is inside, the first comparison (2387) finds an        *)
(* element if and only if there is one: failures before left no trace.     *)
(***************************************************************************)
ProbeIsExactAtRest ==
  (\A c \in Consumers : cpc[c] = "idle")
    => (CircularLess(Wrap(optimistic - overcommit), tail) <=> stock > 0)
================================================================================
