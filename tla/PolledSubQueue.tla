----------------------------- MODULE PolledSubQueue -----------------------------
(***************************************************************************)
(* SubQueue as Keron's workers use it: try_dequeue() (concurrentqueue.h    *)
(* 969-1000) on a queue that has one producer, called again and again.     *)
(*                                                                         *)
(* try_dequeue() first samples the size of the producer's queue, tail      *)
(* before head, and calls dequeue() only if the sample shows an element.   *)
(* A dequeue() fails while an element is there when another consumer fails *)
(* between its load of dequeueOvercommit and its fetch_add of              *)
(* dequeueOptimisticCount; two consumers that retry at once can make each  *)
(* other fail like that forever.  The workers do not: they sleep 25 ms     *)
(* after a failure (server.cpp:220-221), far longer than a try_dequeue().  *)
(*                                                                         *)
(* The sleep is modelled by what it ensures.  Let a call take d at most, n *)
(* consumers, n * d < 25 ms.  While one of them sleeps, and if no element  *)
(* is claimed meanwhile, each of the others ends one call at most and then *)
(* sleeps itself: the sleep sees a moment at which none of them is inside. *)
(***************************************************************************)
EXTENDS SubQueue

ASSUME ConsumersAssumption == IsFiniteSet(Consumers)

VARIABLES
  resting,  (* the consumers that sleep                                     *)
  sampling, (* where each one is in the sampling: before, tail, or done     *)
  sample    (* the tail it sampled                                          *)

polledvars == <<subvars, resting, sampling, sample>>

SamplingStates == {"before", "tail", "done"}

(* Every variable has its type. *)
PolledTypeOK ==
  /\ SubTypeOK
  /\ resting \subseteq Consumers
  /\ sampling \in [Consumers -> SamplingStates]
  /\ sample \in [Consumers -> 0 .. MaxElements]

PolledInit ==
  /\ SubInit
  /\ resting = {}
  /\ sampling = [c \in Consumers |-> "before"]
  /\ sample = [c \in Consumers |-> 0]

(* Inside try_dequeue(). *)
Active(c) == sampling[c] # "before"

(* size_approx(): tail = tailIndex.load() *)
SampleTail(c) ==
  /\ sampling[c] = "before" /\ c \notin resting
  /\ sampling' = [sampling EXCEPT ![c] = "tail"]
  /\ sample' = [sample EXCEPT ![c] = tail]
  /\ UNCHANGED subvars

(* size_approx(): head = headIndex.load(); circular_less_than(head, tail) *)
SizeAboveZero(c) == head < sample[c]

SampleHead(c) ==
  /\ sampling[c] = "tail"
  /\ sampling' = [sampling EXCEPT ![c] = IF SizeAboveZero(c) THEN "done" ELSE "before"]
  /\ UNCHANGED <<subvars, sample>>

(* best->dequeue(item); with one producer there is no other to try. *)
Dequeue(c) ==
  /\ sampling[c] = "done"
  /\ ConsumerStep(c)
  /\ sampling' = IF cpc'[c] = "idle" THEN [sampling EXCEPT ![c] = "before"] ELSE sampling
  /\ UNCHANGED sample

(* Mutant: the worker retries at once. *)
NeverFails(c) == FALSE

(* The step makes the try_dequeue() of c return false. *)
Fails(c) ==
  /\ Active(c) /\ ~Active(c)'
  /\ cpc[c] # "take"

(* The moment that a sleep outlasts. *)
Quiet == head' # head \/ \A c \in Consumers : ~Active(c)'

PolledStep(c) ==
  /\ SampleTail(c) \/ SampleHead(c) \/ Dequeue(c)
  /\ resting' = IF Quiet THEN {} ELSE resting \cup {d \in {c} : Fails(d)}

PolledNext ==
  \/ Publish /\ UNCHANGED <<resting, sampling, sample>>
  \/ \E c \in Consumers : PolledStep(c)

(***************************************************************************)
(* Fairness: the system runs every thread and every consumer polls again   *)
(* after its sleep.  Nothing is assumed of the producer.                   *)
(***************************************************************************)
PolledSpec ==
  /\ PolledInit
  /\ [][PolledNext]_polledvars
  /\ \A c \in Consumers : WF_polledvars(PolledStep(c))

(***************************************************************************)
(* The counters never lose an element: as long as consumers poll, each     *)
(* element that is published is claimed, however many of them fail while   *)
(* it is there or sample a size that is out of date.                       *)
(***************************************************************************)
ElementsAreClaimed ==
  \A n \in 1 .. MaxElements : (tail >= n) ~> (head >= n)

(***************************************************************************)
(* Failures do not feed on failures.  An element can make each consumer    *)
(* fail twice: once because of consumers that come late from the element   *)
(* before, then, if all of them failed and nobody claimed it, once more    *)
(* beside the one that does.  But the ones that are late have not failed   *)
(* there, so all in all each consumer but one fails less than twice for an *)
(* element; the bound is reached.  dequeue() takes no more tickets than    *)
(* MaxElements * (2 * Cardinality(Consumers) - 1), and a MaxTickets above  *)
(* that bounds nothing.                                                    *)
(***************************************************************************)
FailuresAreBounded ==
  failed # {} => Cardinality(failed) <= (2 * tail - 1) * (Cardinality(Consumers) - 1)
================================================================================
