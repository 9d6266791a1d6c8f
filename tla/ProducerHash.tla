------------------------------ MODULE ProducerHash ------------------------------
(***************************************************************************)
(* How a thread finds its producer in a ConcurrentQueue, or gets one:      *)
(* get_or_add_implicit_producer (concurrentqueue.h:3201-3349), the hash    *)
(* tables it grows, and the list of producers that consumers walk.         *)
(*                                                                         *)
(* A table is never taken away: a bigger one points to it, and a thread    *)
(* that is found in an old table copies itself into the new one.  Threads  *)
(* do not end while the queue is in use (server.cpp:313-316), and the code *)
(* that would give their producers to others is not compiled (146-156).    *)
(* The actions are the accesses to shared memory, in program order.        *)
(***************************************************************************)
EXTENDS Naturals, Sequences, FiniteSets

CONSTANTS
  Threads,          (* the threads that enqueue                              *)
  NoThread,         (* invalid_thread_id                                     *)
  HashValues,       (* what hash_thread_id may give                          *)
  InitialCapacity,  (* INITIAL_IMPLICIT_PRODUCER_HASH_SIZE: a power of 2     *)
  MaxCalls          (* bound on the calls of all threads                     *)

ASSUME ThreadsAssumption == IsFiniteSet(Threads) /\ NoThread \notin Threads
ASSUME CapacityAssumption == InitialCapacity \in Nat \ {0} /\ HashValues \subseteq Nat
ASSUME MaxCallsAssumption == MaxCalls \in Nat

VARIABLES
  tables,     (* the hash tables; implicitProducerHash is the last, and the *)
              (* prev of each the one before it                             *)
  count,      (* implicitProducerHashCount                                  *)
  resizing,   (* implicitProducerHashResizeInProgress                       *)
  listTail,   (* producerListTail; producers are numbered from 1            *)
  next,       (* next of each producer; 0 is nullptr                        *)
  pc,         (* where each thread is                                       *)
  hashedId,   (* its hash, the same in every call                           *)
  mainHash,   (* its other locals: mainHash and hash are positions in       *)
  hash,       (* tables, mine is value or producer; 0 while they are out of *)
  index,      (* scope or not used any more                                 *)
  newCount,
  mine,
  prevTail,
  owner,      (* history: the producer each thread was given last, or 0     *)
  calls       (* history: the calls begun                                   *)

memory == <<tables, count, resizing, listTail, next>>
locals == <<hashedId, mainHash, hash, index, newCount, mine, prevTail>>
vars   == <<tables, count, resizing, listTail, next, pc, hashedId, mainHash, hash, index,
            newCount, mine, prevTail, owner, calls>>

Places == {"idle", "probe", "count", "lock", "grow", "publish", "unlock", "giveup",
           "room", "link", "exchange", "insert", "own"}

Capacity(n) == tables[n].capacity
Made == Len(next)   (* the producers made so far *)

(* Every variable has its type; only a thread inside works on a table. *)
TypeOK ==
  /\ \A n \in DOMAIN tables :
       /\ tables[n].key \in [0 .. Capacity(n) - 1 -> Threads \cup {NoThread}]
       /\ tables[n].value \in [0 .. Capacity(n) - 1 -> 0 .. Made]
  /\ count \in 0 .. Cardinality(Threads)
  /\ resizing \in BOOLEAN
  /\ listTail \in 0 .. Made
  /\ \A p \in 1 .. Made : next[p] \in 0 .. Made
  /\ pc \in [Threads -> Places] /\ hashedId \in [Threads -> HashValues]
  /\ mainHash \in [Threads -> 0 .. Len(tables)] /\ hash \in [Threads -> 0 .. Len(tables)]
  /\ \A t \in Threads : hash[t] <= mainHash[t] /\ (pc[t] = "idle" <=> mainHash[t] = 0)
  /\ index \in [Threads -> Nat] /\ newCount \in [Threads -> 0 .. Cardinality(Threads)]
  /\ mine \in [Threads -> 0 .. Made] /\ prevTail \in [Threads -> 0 .. Made]
  /\ owner \in [Threads -> 0 .. Made]
  /\ calls \in 0 .. MaxCalls

(* populate_initial_implicit_producer_hash, and the entries of a new table *)
EmptyTable(capacity) ==
  [capacity |-> capacity,
   key   |-> [i \in 0 .. capacity - 1 |-> NoThread],
   value |-> [i \in 0 .. capacity - 1 |-> 0]]

Nowhere == [t \in Threads |-> 0]

Init ==
  /\ tables = <<EmptyTable(InitialCapacity)>>
  /\ count = 0 /\ resizing = FALSE
  /\ listTail = 0 /\ next = <<>>
  /\ pc = [t \in Threads |-> "idle"]
  /\ hashedId \in [Threads -> HashValues]
  /\ mainHash = Nowhere /\ hash = Nowhere /\ index = Nowhere
  /\ newCount = Nowhere /\ mine = Nowhere /\ prevTail = Nowhere
  /\ owner = Nowhere /\ calls = 0

Goto(t, from, to) == pc[t] = from /\ pc' = [pc EXCEPT ![t] = to]

Restart(t) == index' = [index EXCEPT ![t] = hashedId[t]]       (* index = hashedId *)
Advance(t) == index' = [index EXCEPT ![t] = @ + 1]             (* ++index *)
Reload(t)  == mainHash' = [mainHash EXCEPT ![t] = Len(tables)] (* implicitProducerHash.load() *)

(* The call ends. *)
Leave(t, from) ==
  /\ Goto(t, from, "idle")
  /\ mainHash' = [mainHash EXCEPT ![t] = 0]
  /\ hash'     = [hash EXCEPT ![t] = 0]
  /\ index'    = [index EXCEPT ![t] = 0]
  /\ newCount' = [newCount EXCEPT ![t] = 0]
  /\ mine'     = [mine EXCEPT ![t] = 0]
  /\ prevTail' = [prevTail EXCEPT ![t] = 0]
  /\ UNCHANGED <<hashedId, calls>>

(* It returns producer p. *)
Return(t, from, p) == Leave(t, from) /\ owner' = [owner EXCEPT ![t] = p]

(* It returns nullptr: enqueue() fails. *)
Fail(t, from) == Leave(t, from) /\ UNCHANGED owner
--------------------------------------------------------------------------------
Call(t) ==
  /\ calls < MaxCalls
  /\ calls' = calls + 1
  /\ Goto(t, "idle", "probe")
  /\ Reload(t) /\ hash' = [hash EXCEPT ![t] = Len(tables)]
  /\ Restart(t)
  /\ UNCHANGED <<memory, hashedId, newCount, mine, prevTail, owner>>

(* Where t looks in table n, and what is there. *)
At(t, n) == index[t] % Capacity(n)
Key(t, n) == tables[n].key[At(t, n)]
Value(t, n) == tables[n].value[At(t, n)]

(* probedKey == id in the newest table: that is all. *)
Find(t) ==
  /\ pc[t] = "probe" /\ Key(t, hash[t]) = t /\ hash[t] = mainHash[t]
  /\ Return(t, "probe", Value(t, hash[t]))
  /\ UNCHANGED memory

(* In an older one: the thread is to be added to mainHash. *)
FindOlder(t) ==
  /\ pc[t] = "probe" /\ Key(t, hash[t]) = t /\ hash[t] # mainHash[t]
  /\ Goto(t, "probe", "insert")
  /\ mine' = [mine EXCEPT ![t] = Value(t, hash[t])]
  /\ hash' = [hash EXCEPT ![t] = 0]
  /\ Restart(t)
  /\ UNCHANGED <<memory, hashedId, mainHash, newCount, prevTail, owner, calls>>

(* Mutant: only the newest table is searched. *)
NoOlder(n) == 0

(* hash = hash->prev *)
Older(n) == n - 1

(* probedKey == invalid_thread_id: not in this table. *)
NextTable(t) ==
  /\ pc[t] = "probe" /\ Key(t, hash[t]) = NoThread
  /\ Goto(t, "probe", IF Older(hash[t]) = 0 THEN "count" ELSE "probe")
  /\ hash' = [hash EXCEPT ![t] = Older(hash[t])]
  /\ Restart(t)
  /\ UNCHANGED <<memory, hashedId, mainHash, newCount, mine, prevTail, owner, calls>>

(* Somebody else's. *)
NextSlot(t) ==
  /\ Goto(t, "probe", "probe")
  /\ Key(t, hash[t]) \notin {t, NoThread}
  /\ Advance(t)
  /\ UNCHANGED <<memory, hashedId, mainHash, hash, newCount, mine, prevTail, owner, calls>>

Search(t) == Find(t) \/ FindOlder(t) \/ NextTable(t) \/ NextSlot(t)
--------------------------------------------------------------------------------
(* newCount = 1 + implicitProducerHashCount.fetch_add(1) *)
CountIn(t) ==
  /\ Goto(t, "count", "lock")
  /\ newCount' = [newCount EXCEPT ![t] = count + 1]
  /\ count' = count + 1
  /\ UNCHANGED <<tables, resizing, listTail, next, hashedId, mainHash, hash, index, mine,
                 prevTail, owner, calls>>

HalfFull(t, n) == newCount[t] >= Capacity(n) \div 2

(* The test_and_set is tried only if the table is half full. *)
TryLock(t) ==
  /\ pc[t] = "lock"
  /\ IF HalfFull(t, mainHash[t]) /\ ~resizing
       THEN Goto(t, "lock", "grow") /\ resizing' = TRUE
       ELSE Goto(t, "lock", "room") /\ UNCHANGED resizing
  /\ UNCHANGED <<tables, count, listTail, next, locals, owner, calls>>

(* The newest table is loaded again; it may have grown enough meanwhile. *)
LoadNewest(t) ==
  /\ Goto(t, "grow", IF HalfFull(t, Len(tables)) THEN "publish" ELSE "unlock")
  /\ Reload(t)
  /\ UNCHANGED <<memory, hashedId, hash, index, newCount, mine, prevTail, owner, calls>>

(* The capacity is doubled until newCount is less than half of it. *)
NewCapacities(t) ==
  {c \in 1 .. 4 * newCount[t] + 4 :
     /\ newCount[t] < c \div 2 /\ c \div 4 <= newCount[t]
     /\ \E k \in 1 .. newCount[t] + 1 : c = Capacity(mainHash[t]) * 2^k}

(* implicitProducerHash.store(newHash) *)
PublishTable(t) ==
  /\ Goto(t, "publish", "unlock")
  /\ \E c \in NewCapacities(t) : tables' = Append(tables, EmptyTable(c))
  /\ mainHash' = [mainHash EXCEPT ![t] = Len(tables) + 1]
  /\ UNCHANGED <<count, resizing, listTail, next, hashedId, hash, index, newCount, mine,
                 prevTail, owner, calls>>

(* Mutant: a producer or table that cannot be allocated stays counted. *)
StillCounted == count

(* implicitProducerHashCount.fetch_add(-1) *)
CountedOut == count - 1

(* No memory for a table: fetch_add(-1), and then the lock is cleared. *)
TableFails(t) ==
  /\ Goto(t, "publish", "giveup")
  /\ count' = CountedOut
  /\ UNCHANGED <<tables, resizing, listTail, next, locals, owner, calls>>

(* Mutant: a failure leaves the lock taken. *)
ClearedOnSuccess(t) == pc[t] = "giveup"

Cleared(t) == FALSE

(* implicitProducerHashResizeInProgress.clear() *)
Unlock(t) ==
  /\ \/ Goto(t, "unlock", "room") /\ UNCHANGED <<locals, owner, calls>>
     \/ Fail(t, "giveup")
  /\ resizing' = Cleared(t)
  /\ UNCHANGED <<tables, count, listTail, next>>

Resize(t) == TryLock(t) \/ LoadNewest(t) \/ PublishTable(t) \/ TableFails(t) \/ Unlock(t)
--------------------------------------------------------------------------------
(* Mutant: a table is filled to the last entry. *)
RoomToTheBrim(t) == newCount[t] <= Capacity(mainHash[t])

(* Less than three quarters of the table are used. *)
Room(t) ==
  LET capacity == Capacity(mainHash[t])
  IN  newCount[t] < capacity \div 2 + capacity \div 4

(* recycle_or_create_producer finds none that is inactive and makes one. *)
CreateProducer(t) ==
  /\ Goto(t, "room", "link")
  /\ Room(t)
  /\ next' = Append(next, 0)
  /\ mine' = [mine EXCEPT ![t] = Made + 1]
  /\ prevTail' = [prevTail EXCEPT ![t] = listTail]
  /\ newCount' = [newCount EXCEPT ![t] = 0]
  /\ UNCHANGED <<tables, count, resizing, listTail, hashedId, mainHash, hash, index, owner,
                 calls>>

(* No memory for a producer. *)
CreateFails(t) ==
  /\ Fail(t, "room")
  /\ Room(t)
  /\ count' = CountedOut
  /\ UNCHANGED <<tables, resizing, listTail, next>>

(* Mutant: the thread is counted again when it tries again. *)
CountAgain == "count"

Retry == "lock"

(* The table is too full and somebody else is resizing: try again. *)
WaitForTable(t) ==
  /\ Goto(t, "room", Retry)
  /\ ~Room(t)
  /\ Reload(t)
  /\ UNCHANGED <<memory, hashedId, hash, index, newCount, mine, prevTail, owner, calls>>

(* producer->next = prevTail *)
LinkProducer(t) ==
  /\ Goto(t, "link", "exchange")
  /\ next' = [next EXCEPT ![mine[t]] = prevTail[t]]
  /\ UNCHANGED <<tables, count, resizing, listTail, locals, owner, calls>>

(* Mutant: the producer is stored, whatever the list's tail is by now. *)
TailIsStored(t) == TRUE

TailUnchanged(t) == listTail = prevTail[t]

(* producerListTail.compare_exchange_weak(prevTail, producer).  (A failure  *)
(* without a cause only repeats the two steps.)                            *)
ListProducer(t) ==
  /\ TailUnchanged(t)
  /\ Goto(t, "exchange", "insert")
  /\ listTail' = mine[t]
  /\ prevTail' = [prevTail EXCEPT ![t] = 0]
  /\ Restart(t)
  /\ UNCHANGED <<tables, count, resizing, next, hashedId, mainHash, hash, newCount, mine,
                 owner, calls>>

(* The list has another tail by now. *)
ReloadTail(t) ==
  /\ ~TailUnchanged(t)
  /\ Goto(t, "exchange", "link")
  /\ prevTail' = [prevTail EXCEPT ![t] = listTail]
  /\ UNCHANGED <<memory, hashedId, mainHash, hash, index, newCount, mine, owner, calls>>

Create(t) ==
  \/ CreateProducer(t) \/ CreateFails(t) \/ WaitForTable(t)
  \/ LinkProducer(t) \/ ListProducer(t) \/ ReloadTail(t)
--------------------------------------------------------------------------------
(* An entry that is empty is worth an exchange. *)
ProbeFree(t) ==
  /\ Goto(t, "insert", "own")
  /\ Key(t, mainHash[t]) = NoThread
  /\ UNCHANGED <<memory, locals, owner, calls>>

(* Any other is passed over, and so is one for which another was faster. *)
PassOver(t) ==
  /\ Goto(t, "insert", "insert") \/ Goto(t, "own", "insert")
  /\ Key(t, mainHash[t]) # NoThread
  /\ Advance(t)
  /\ UNCHANGED <<memory, hashedId, mainHash, hash, newCount, mine, prevTail, owner, calls>>

(* Thread t and its producer p in entry i of a table. *)
Entered(table, i, t, p) ==
  [capacity |-> table.capacity,
   key   |-> [table.key EXCEPT ![i] = t],
   value |-> [table.value EXCEPT ![i] = p]]

(* key.compare_exchange_strong(empty, id), and the value, which is t's only. *)
OwnEntry(t) ==
  /\ Return(t, "own", mine[t])
  /\ Key(t, mainHash[t]) = NoThread
  /\ tables' = [tables EXCEPT ![mainHash[t]] = Entered(@, At(t, mainHash[t]), t, mine[t])]
  /\ UNCHANGED <<count, resizing, listTail, next>>

Insert(t) == ProbeFree(t) \/ PassOver(t) \/ OwnEntry(t)

Work(t) == Search(t) \/ CountIn(t) \/ Resize(t) \/ Create(t) \/ Insert(t)

(* The threads have made all their calls. *)
Done == calls = MaxCalls /\ (\A t \in Threads : pc[t] = "idle") /\ UNCHANGED vars

Next == (\E t \in Threads : Call(t) \/ Work(t)) \/ Done

(* The system runs every thread that is inside. *)
Spec == Init /\ [][Next]_vars /\ \A t \in Threads : WF_vars(Work(t))
--------------------------------------------------------------------------------
(***************************************************************************)
(* A thread that has a producer is given the same one ever after, however  *)
(* the tables grow meanwhile (3208-3210).  The order of its elements rests *)
(* on that.                                                                *)
(***************************************************************************)
OneProducerPerThread ==
  [][\A t \in Threads : owner[t] # 0 => owner'[t] = owner[t]]_vars

(* What is reached from `first` by the links: the least set that holds it  *)
(* and is closed.                                                          *)
Reachable(first, links) ==
  LET closed == {S \in SUBSET (0 .. Len(links)) :
                   first \in S /\ \A p \in S \ {0} : links[p] \in S}
  IN  {p \in 1 .. Len(links) : \A S \in closed : p \in S}

(* The producers that consumers reach from producerListTail. *)
Listed == Reachable(listTail, next)

(***************************************************************************)
(* A producer that a thread enqueues to is its own, and one that consumers *)
(* find: no two additions to the list lose one of them (3074-3078).        *)
(***************************************************************************)
ProducersAreListed ==
  \A t \in Threads : owner[t] # 0 =>
    /\ owner[t] \in Listed
    /\ \A u \in Threads \ {t} : owner[u] # owner[t]

(* The threads that are to be entered in table n. *)
Entering(n) == {t \in Threads : pc[t] \in {"link", "exchange", "insert", "own"} /\ mainHash[t] = n}

(***************************************************************************)
(* "At least one slot is free in the hash table" (3224), also after all    *)
(* the threads that are on their way into an old or a new table have       *)
(* entered it: "every subsequent table implicitly reserves space for all   *)
(* previous tables" (3231-3233).  A search would not end otherwise.        *)
(***************************************************************************)
TablesHaveRoom ==
  \A n \in DOMAIN tables :
    Cardinality({i \in 0 .. Capacity(n) - 1 : tables[n].key[i] # NoThread})
      + Cardinality(Entering(n)) < Capacity(n)

(***************************************************************************)
(* The reservations are exact: between calls, the count is the number of   *)
(* threads that have a producer, whichever allocations failed.             *)
(***************************************************************************)
CountIsExact ==
  (\A t \in Threads : pc[t] = "idle")
    => count = Cardinality({t \in Threads : owner[t] # 0})

(***************************************************************************)
(* Every call returns: a thread that waits for another one's table gets    *)
(* it, or the lock to make its own (3344-3346).                            *)
(***************************************************************************)
CallsReturn == \A t \in Threads : (pc[t] # "idle") ~> (pc[t] = "idle")
================================================================================
