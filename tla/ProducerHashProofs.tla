--------------------------- MODULE ProducerHashProofs ---------------------------
(***************************************************************************)
(* Every thread that enqueues gets one producer and keeps it, no table     *)
(* fills up, and no producer is lost, for any number of threads, any       *)
(* hashes, and any of the allocations failing.                             *)
(***************************************************************************)
EXTENDS ProducerHash, FiniteSetTheorems, TLAPS

(* The abbreviations of the actions. *)
USE DEF Older, CountedOut, Cleared, Retry

(* Thread t is entered in a table. *)
InTable(table, t) == \E i \in 0 .. table.capacity - 1 : table.key[i] = t

(* No entry that a search visits from `first` on before `last` is empty. *)
Occupied(table, first, last) ==
  \A k \in first .. last - 1 : table.key[k % table.capacity] # NoThread

(* Nor is it t's. *)
PassedBy(table, t, first, last) ==
  \A k \in first .. last - 1 : table.key[k % table.capacity] # t

(* Wherever t is entered, there is its producer p, a search that begins at *)
(* `first` gets there, and it is t's only entry.                           *)
Entry(table, t, first, p) ==
  \A i \in 0 .. table.capacity - 1 : table.key[i] = t =>
    /\ p # 0 /\ table.value[i] = p
    /\ \A k \in 0 .. table.capacity - 1 : table.key[k] = t => k = i
    /\ \E j \in Nat : /\ first <= j /\ j % table.capacity = i
                      /\ Occupied(table, first, j)

(* A thread that reserved an entry goes on while this many are taken. *)
Quota(table) == table.capacity \div 2 + table.capacity \div 4

Making == {"link", "exchange"}
Inserting == {"insert", "own"}
Resizing == {"grow", "publish", "unlock", "giveup"}
Waiting == {"lock", "grow", "publish", "unlock", "room"}

(* The resize lock is held by the thread that resizes, and so the table it *)
(* loaded is the newest.                                                   *)
Lock ==
  /\ \A t \in Threads : pc[t] \in Resizing => resizing
  /\ \A t, u \in Threads : pc[t] \in Resizing /\ pc[u] \in Resizing => t = u
  /\ \A t \in Threads :
       pc[t] = "publish" => mainHash[t] = Len(tables) /\ HalfFull(t, mainHash[t])

(* Tables grow.  A thread has one entry in a table, with its producer, and *)
(* no search for it stops at an empty entry before.                        *)
Entries ==
  /\ \A m, n \in DOMAIN tables : m <= n => Capacity(m) <= Capacity(n)
  /\ \A n \in DOMAIN tables, t \in Threads : Entry(tables[n], t, hashedId[t], owner[t])
  /\ \A t \in Threads : owner[t] # 0 => \E n \in DOMAIN tables : InTable(tables[n], t)

(* A search has passed over no entry of its thread. *)
Searching ==
  \A t \in Threads : pc[t] = "probe" =>
    /\ hashedId[t] <= index[t]
    /\ owner[t] # 0 => \E m \in 1 .. hash[t] : InTable(tables[m], t)
    /\ \A m \in hash[t] + 1 .. mainHash[t] : ~InTable(tables[m], t)
    /\ PassedBy(tables[hash[t]], t, hashedId[t], index[t])

(* Only a thread that has none gets a producer. *)
Newcomers ==
  \A t \in Threads : pc[t] \in Waiting \cup Making \cup {"count", "giveup"} => owner[t] = 0

(* A thread that is to be entered in a table has a producer, and no entry  *)
(* there yet.                                                              *)
Arrivals ==
  \A t \in Threads :
    /\ pc[t] \in Making \cup Inserting => mine[t] # 0 /\ ~InTable(tables[mainHash[t]], t)
    /\ pc[t] \in Inserting =>
         /\ owner[t] # 0 => mine[t] = owner[t]
         /\ hashedId[t] <= index[t] /\ Occupied(tables[mainHash[t]], hashedId[t], index[t])

(* The producers that a thread has, or will have. *)
Held(t) ==
  {p \in 1 .. Made : owner[t] = p \/ (pc[t] \in Making \cup Inserting /\ mine[t] = p)}

(* The producers whose links are final. *)
Linked == {p \in 1 .. Made : \A t \in Threads : pc[t] \in Making => mine[t] # p}

(* What is on the list stays there. *)
Producers ==
  /\ listTail \in Linked \cup {0}
  /\ \A p \in Linked : next[p] \in Linked \cup {0}
  /\ \A t \in Threads : pc[t] \in Making => prevTail[t] \in Linked \cup {0}
  /\ \A t \in Threads : pc[t] = "exchange" => next[mine[t]] = prevTail[t]
  /\ \A t, u \in Threads : t # u => Held(t) \cap Held(u) = {}
  /\ \A t \in Threads : owner[t] # 0 => owner[t] \in Listed
  /\ \A t \in Threads : pc[t] \in Inserting => mine[t] \in Listed

(* The threads that have a reservation: implicitProducerHashCount. *)
Counted ==
  {t \in Threads : owner[t] # 0 \/ pc[t] \in Waiting \cup Making \cup Inserting}

(* Table n has, or is going to have, an entry of t. *)
Reserved(t, n) ==
  InTable(tables[n], t) \/ (pc[t] \in Making \cup Inserting /\ mainHash[t] = n)

(* No more than k members of S have a rank of k or less. *)
Sparse(S, rank) == \A k \in Nat : Cardinality({t \in S : rank[t] <= k}) <= k

(* A thread's rank is the count it saw when it reserved an entry. *)
Ranked(rank) ==
  /\ Sparse(Counted, rank)
  /\ \A t \in Threads : pc[t] \in Waiting => rank[t] = newCount[t]
  /\ \A t \in Threads, n \in DOMAIN tables : Reserved(t, n) => rank[t] < Quota(tables[n])

Ranks ==
  /\ count = Cardinality(Counted)
  /\ \A t \in Threads : newCount[t] \in 0 .. Cardinality(Threads)
  /\ \E rank \in [Threads -> Nat] : Ranked(rank)

(* The hash tables there can be, and the types but for the bounds of count *)
(* and newCount, which follow from the ranks.                              *)
Table ==
  UNION {[capacity : {c}, key : [0 .. c - 1 -> Threads \cup {NoThread}],
          value : [0 .. c - 1 -> Nat]] : c \in Nat \ {0}}

Types ==
  /\ tables \in Seq(Table) /\ Len(tables) \in Nat \ {0}
  /\ \A n \in DOMAIN tables : \A i \in 0 .. Capacity(n) - 1 : tables[n].value[i] \in 0 .. Made
  /\ count \in Int /\ resizing \in BOOLEAN
  /\ next \in Seq(Nat)
  /\ listTail \in 0 .. Made
  /\ \A p \in 1 .. Made : next[p] \in 0 .. Made
  /\ pc \in [Threads -> Places] /\ hashedId \in [Threads -> HashValues]
  /\ mainHash \in [Threads -> 0 .. Len(tables)] /\ hash \in [Threads -> 0 .. Len(tables)]
  /\ \A t \in Threads : hash[t] <= mainHash[t] /\ (pc[t] = "idle" <=> mainHash[t] = 0)
  /\ \A t \in Threads : pc[t] = "probe" => hash[t] # 0
  /\ index \in [Threads -> Nat] /\ newCount \in [Threads -> Int]
  /\ mine \in [Threads -> 0 .. Made] /\ prevTail \in [Threads -> 0 .. Made]
  /\ owner \in [Threads -> 0 .. Made]
  /\ calls \in 0 .. MaxCalls
--------------------------------------------------------------------------------
(* Tables. *)

LEMMA TableFacts ==
  ASSUME NEW table \in Table
  PROVE  /\ table.capacity \in Nat \ {0}
         /\ table.key \in [0 .. table.capacity - 1 -> Threads \cup {NoThread}]
         /\ table.value \in [0 .. table.capacity - 1 -> Nat]
         /\ Quota(table) \in Nat
BY SMTT(60) DEF Table, Quota

LEMMA EmptyTableFacts ==
  ASSUME NEW c \in Nat \ {0}
  PROVE  /\ EmptyTable(c) \in Table
         /\ EmptyTable(c).capacity = c
         /\ \A i \in 0 .. c - 1 : EmptyTable(c).key[i] = NoThread /\ EmptyTable(c).value[i] = 0
         /\ \A t \in Threads : ~InTable(EmptyTable(c), t)
BY ThreadsAssumption DEF Table, EmptyTable, InTable

LEMMA EnteredFacts ==
  ASSUME NEW table \in Table, NEW i \in 0 .. table.capacity - 1, NEW t \in Threads, NEW p \in Nat
  PROVE  /\ Entered(table, i, t, p) \in Table
         /\ Entered(table, i, t, p).capacity = table.capacity
         /\ \A k \in 0 .. table.capacity - 1 :
              /\ Entered(table, i, t, p).key[k] = IF k = i THEN t ELSE table.key[k]
              /\ Entered(table, i, t, p).value[k] = IF k = i THEN p ELSE table.value[k]
         /\ Quota(Entered(table, i, t, p)) = Quota(table)
<1> DEFINE e == Entered(table, i, t, p)
<1>1. /\ table.capacity \in Nat \ {0}
      /\ table.key \in [0 .. table.capacity - 1 -> Threads \cup {NoThread}]
      /\ table.value \in [0 .. table.capacity - 1 -> Nat]
  BY TableFacts
<1>2. /\ e.capacity = table.capacity
      /\ e.key = [table.key EXCEPT ![i] = t] /\ e.value = [table.value EXCEPT ![i] = p]
      /\ e = [capacity |-> e.capacity, key |-> e.key, value |-> e.value]
  BY DEF Entered
<1> HIDE DEF e
<1>3. e.key \in [0 .. table.capacity - 1 -> Threads \cup {NoThread}]
      /\ e.value \in [0 .. table.capacity - 1 -> Nat]
  BY <1>1, <1>2
<1>4. \A c \in Nat \ {0} :
        \A ks \in [0 .. c - 1 -> Threads \cup {NoThread}], vs \in [0 .. c - 1 -> Nat] :
          [capacity |-> c, key |-> ks, value |-> vs] \in Table
  <2> SUFFICES ASSUME NEW c \in Nat \ {0}, NEW ks \in [0 .. c - 1 -> Threads \cup {NoThread}],
                      NEW vs \in [0 .. c - 1 -> Nat]
               PROVE  [capacity |-> c, key |-> ks, value |-> vs] \in Table
    BY Zenon
  <2>1. [capacity |-> c, key |-> ks, value |-> vs]
          \in [capacity : {c}, key : [0 .. c - 1 -> Threads \cup {NoThread}], value : [0 .. c - 1 -> Nat]]
    BY Zenon
  <2> QED BY <2>1, Zenon DEF Table
<1>5. e \in Table
  <2>1. [capacity |-> e.capacity, key |-> e.key, value |-> e.value] \in Table
    BY <1>1, <1>2, <1>3, <1>4
  <2> QED BY <1>2, <2>1
<1> QED BY <1>1, <1>2, <1>5 DEF Quota, e

(* A run of passed or occupied entries grows by the next one. *)
LEMMA PassedByOneMore ==
  ASSUME NEW table, NEW u, NEW a \in Nat, NEW b \in Nat, PassedBy(table, u, a, b),
         table.key[b % table.capacity] # u
  PROVE  PassedBy(table, u, a, b + 1)
BY DEF PassedBy

LEMMA OccupiedOneMore ==
  ASSUME NEW table, NEW a \in Nat, NEW b \in Nat, Occupied(table, a, b),
         table.key[b % table.capacity] # NoThread
  PROVE  Occupied(table, a, b + 1)
BY DEF Occupied

(* The place where a search looks is in the table. *)
LEMMA SlotOf ==
  ASSUME NEW table \in Table, NEW k \in Nat
  PROVE  k % table.capacity \in 0 .. table.capacity - 1
BY TableFacts

LEMMA TypesInit == Init => Types
<1> SUFFICES ASSUME Init PROVE Types
  OBVIOUS
<1>1. EmptyTable(InitialCapacity) \in Table
  BY CapacityAssumption, EmptyTableFacts
<1>2. /\ tables \in Seq(Table) /\ Len(tables) = 1 /\ DOMAIN tables = {1}
      /\ tables[1] = EmptyTable(InitialCapacity)
  BY <1>1 DEF Init
<1>3. \A i \in 0 .. Capacity(1) - 1 : tables[1].value[i] = 0
  BY <1>2, CapacityAssumption, EmptyTableFacts DEF Capacity
<1>4. next = <<>> /\ Made = 0 /\ next \in Seq(Nat)
  BY DEF Init, Made
<1>5. pc \in [Threads -> Places] /\ hashedId \in [Threads -> HashValues] /\ resizing \in BOOLEAN
  BY DEF Init, Places
<1>6. \A t \in Threads : /\ hash[t] <= mainHash[t] /\ (pc[t] = "idle" <=> mainHash[t] = 0)
                         /\ pc[t] # "probe"
  BY DEF Init, Nowhere
<1>7. \A n \in DOMAIN tables : \A i \in 0 .. Capacity(n) - 1 : tables[n].value[i] \in 0 .. Made
  BY <1>2, <1>3, <1>4
<1> QED BY <1>2, <1>4, <1>5, <1>6, <1>7, MaxCallsAssumption DEF Init, Types, Nowhere

(* What the types say of one thread and of the table it looks at. *)
LEMMA ThreadTypes ==
  ASSUME Types, NEW t \in Threads
  PROVE  /\ pc[t] \in Places /\ hashedId[t] \in Nat /\ index[t] \in Nat /\ newCount[t] \in Int
         /\ mainHash[t] \in 0 .. Len(tables) /\ hash[t] \in 0 .. mainHash[t]
         /\ mine[t] \in 0 .. Made /\ prevTail[t] \in 0 .. Made /\ owner[t] \in 0 .. Made
         /\ Len(tables) \in Nat \ {0} /\ DOMAIN tables = 1 .. Len(tables) /\ Made \in Nat
         /\ \A n \in 1 .. Len(tables) :
              /\ tables[n] \in Table /\ Capacity(n) \in Nat \ {0}
              /\ At(t, n) \in 0 .. Capacity(n) - 1
              /\ Key(t, n) \in Threads \cup {NoThread} /\ Value(t, n) \in 0 .. Made
<1>1. /\ tables \in Seq(Table) /\ Len(tables) \in Nat \ {0} /\ DOMAIN tables = 1 .. Len(tables)
      /\ Made \in Nat
  BY DEF Types, Made
<1>2. hashedId[t] \in Nat /\ index[t] \in Nat
  BY CapacityAssumption DEF Types
<1>3. \A n \in 1 .. Len(tables) : tables[n] \in Table
  BY <1>1
<1>4. ASSUME NEW n \in 1 .. Len(tables)
      PROVE  /\ Capacity(n) \in Nat \ {0} /\ At(t, n) \in 0 .. Capacity(n) - 1
             /\ Key(t, n) \in Threads \cup {NoThread} /\ Value(t, n) \in 0 .. Made
  <2>1. /\ Capacity(n) \in Nat \ {0} /\ At(t, n) \in 0 .. Capacity(n) - 1
        /\ tables[n].key \in [0 .. Capacity(n) - 1 -> Threads \cup {NoThread}]
    BY <1>2, <1>3, TableFacts, SlotOf DEF Capacity, At
  <2> QED BY <1>1, <2>1 DEF Key, Value, Types
<1> QED BY <1>1, <1>2, <1>3, <1>4 DEF Types

LEMMA TypesNext ==
  ASSUME Types, NEW t \in Threads, Call(t) \/ Work(t)
  PROVE  Types'
<1>0. /\ index[t] \in Nat /\ newCount[t] \in Int /\ hashedId[t] \in Nat
      /\ mainHash[t] \in 0 .. Len(tables) /\ hash[t] \in 0 .. mainHash[t]
      /\ Len(tables) \in Nat \ {0} /\ Made \in Nat
      /\ pc[t] = "probe" => hash[t] # 0 /\ Value(t, hash[t]) \in 0 .. Made
  BY ThreadTypes, SMTT(60) DEF Types
<1>f. /\ pc \in [Threads -> Places] /\ mainHash \in [Threads -> 0 .. Len(tables)]
      /\ hash \in [Threads -> 0 .. Len(tables)] /\ index \in [Threads -> Nat]
      /\ newCount \in [Threads -> Int] /\ mine \in [Threads -> 0 .. Made]
      /\ prevTail \in [Threads -> 0 .. Made] /\ owner \in [Threads -> 0 .. Made]
      /\ \A u \in Threads : /\ hash[u] <= mainHash[u] /\ (pc[u] = "idle" <=> mainHash[u] = 0)
                            /\ pc[u] = "probe" => hash[u] # 0
  BY DEF Types
<1> USE DEF memory, locals, Goto, Restart, Advance, Reload, Leave, Return, Fail, Made, Capacity, Places
<1>1. CASE Call(t)
  <2>1. /\ pc' \in [Threads -> Places] /\ mainHash' \in [Threads -> 0 .. Len(tables)]
        /\ hash' \in [Threads -> 0 .. Len(tables)] /\ index' \in [Threads -> Nat]
        /\ calls' \in 0 .. MaxCalls
    BY <1>0, <1>1, MaxCallsAssumption DEF Types, Call
  <2>2. \A u \in Threads : /\ hash'[u] <= mainHash'[u] /\ (pc'[u] = "idle" <=> mainHash'[u] = 0)
                           /\ pc'[u] = "probe" => hash'[u] # 0
    BY <1>0, <1>1 DEF Types, Call
  <2> QED BY <2>1, <2>2, <1>1 DEF Types, Call
<1>2. CASE Find(t)
  BY <1>0, <1>2, SMTT(60) DEF Types, Find
<1>3. CASE FindOlder(t)
  BY <1>0, <1>3, SMTT(60) DEF Types, FindOlder
<1>4. CASE NextTable(t)
  <2>1. /\ pc' \in [Threads -> Places] /\ hash' \in [Threads -> 0 .. Len(tables)]
        /\ index' \in [Threads -> Nat]
    <3>1. hash[t] - 1 \in 0 .. Len(tables)
      BY <1>0, <1>4 DEF NextTable
    <3> QED BY <1>0, <1>4, <3>1 DEF Types, NextTable
  <2>2. \A u \in Threads : /\ hash'[u] <= mainHash'[u] /\ (pc'[u] = "idle" <=> mainHash'[u] = 0)
                           /\ pc'[u] = "probe" => hash'[u] # 0
    BY <1>0, <1>f, <1>4 DEF NextTable
  <2> QED BY <2>1, <2>2, <1>4 DEF Types, NextTable
<1>5. CASE NextSlot(t)
  <2>1. pc' \in [Threads -> Places] /\ index' \in [Threads -> Nat]
    BY <1>0, <1>5, SMTT(60) DEF Types, NextSlot
  <2>2. \A u \in Threads : /\ hash'[u] <= mainHash'[u] /\ (pc'[u] = "idle" <=> mainHash'[u] = 0)
                           /\ pc'[u] = "probe" => hash'[u] # 0
    BY <1>0, <1>5 DEF Types, NextSlot
  <2> QED BY <2>1, <2>2, <1>5 DEF Types, NextSlot
<1>6. CASE CountIn(t)
  <2>1. pc' \in [Threads -> Places] /\ newCount' \in [Threads -> Int] /\ count' \in Int
    BY <1>0, <1>6, SMTT(60) DEF Types, CountIn
  <2>2. \A u \in Threads : /\ hash'[u] <= mainHash'[u] /\ (pc'[u] = "idle" <=> mainHash'[u] = 0)
                           /\ pc'[u] = "probe" => hash'[u] # 0
    BY <1>0, <1>6 DEF Types, CountIn
  <2> QED BY <2>1, <2>2, <1>6 DEF Types, CountIn
<1>7. CASE TryLock(t)
  BY <1>0, <1>7 DEF Types, TryLock
<1>8. CASE LoadNewest(t)
  BY <1>0, <1>8, SMTT(60) DEF Types, LoadNewest
<1>10. CASE TableFails(t)
  BY <1>0, <1>10, SMTT(60) DEF Types, TableFails
<1>11. CASE Unlock(t)
  <2>1. CASE Goto(t, "unlock", "room") /\ UNCHANGED <<locals, owner, calls>>
    BY <1>0, <1>11, <2>1 DEF Types, Unlock
  <2>2. CASE Fail(t, "giveup")
    <3>0. /\ pc' = [pc EXCEPT ![t] = "idle"] /\ mainHash' = [mainHash EXCEPT ![t] = 0]
          /\ hash' = [hash EXCEPT ![t] = 0] /\ index' = [index EXCEPT ![t] = 0]
          /\ newCount' = [newCount EXCEPT ![t] = 0] /\ mine' = [mine EXCEPT ![t] = 0]
          /\ prevTail' = [prevTail EXCEPT ![t] = 0]
      BY <2>2
    <3>1. /\ pc' \in [Threads -> Places] /\ mainHash' \in [Threads -> 0 .. Len(tables)]
          /\ hash' \in [Threads -> 0 .. Len(tables)] /\ index' \in [Threads -> Nat]
          /\ newCount' \in [Threads -> Int] /\ mine' \in [Threads -> 0 .. Made]
          /\ prevTail' \in [Threads -> 0 .. Made]
      BY <1>0, <1>f, <3>0, SMTT(60)
    <3>2. \A u \in Threads : /\ hash'[u] <= mainHash'[u] /\ (pc'[u] = "idle" <=> mainHash'[u] = 0)
                             /\ pc'[u] = "probe" => hash'[u] # 0
      BY <1>0, <1>f, <3>0
    <3> QED BY <1>f, <1>11, <2>2, <3>1, <3>2 DEF Types, Unlock
  <2> QED BY <1>11, <2>1, <2>2 DEF Unlock
<1>13. CASE CreateFails(t)
  BY <1>0, <1>13, SMTT(60) DEF Types, CreateFails
<1>14. CASE WaitForTable(t)
  BY <1>0, <1>14, SMTT(60) DEF Types, WaitForTable
<1>16. CASE ListProducer(t)
  BY <1>0, <1>16, SMTT(60) DEF Types, ListProducer
<1>17. CASE ReloadTail(t)
  BY <1>0, <1>17 DEF Types, ReloadTail
<1>18. CASE ProbeFree(t)
  BY <1>0, <1>18 DEF Types, ProbeFree
<1>19. CASE PassOver(t)
  <2>1. pc' \in [Threads -> Places] /\ index' \in [Threads -> Nat]
    BY <1>0, <1>f, <1>19, SMTT(60) DEF PassOver
  <2>2. \A u \in Threads : /\ hash'[u] <= mainHash'[u] /\ (pc'[u] = "idle" <=> mainHash'[u] = 0)
                           /\ pc'[u] = "probe" => hash'[u] # 0
    BY <1>0, <1>f, <1>19 DEF PassOver
  <2> QED BY <2>1, <2>2, <1>19 DEF Types, PassOver
<1>9. CASE PublishTable(t)
  <2>1. PICK c \in NewCapacities(t) : tables' = Append(tables, EmptyTable(c))
    BY <1>9 DEF PublishTable
  <2>2. c \in Nat \ {0} /\ EmptyTable(c) \in Table
    BY <2>1, <1>0, EmptyTableFacts, SMTT(60) DEF NewCapacities
  <2>3. /\ tables' \in Seq(Table) /\ Len(tables') = Len(tables) + 1
        /\ DOMAIN tables = 1 .. Len(tables) /\ DOMAIN tables' = 1 .. Len(tables) + 1
        /\ \A n \in 1 .. Len(tables) : tables'[n] = tables[n]
        /\ tables'[Len(tables) + 1] = EmptyTable(c)
    BY <2>1, <2>2 DEF Types
  <2>4. \A n \in DOMAIN tables' :
          \A i \in 0 .. tables'[n].capacity - 1 : tables'[n].value[i] \in 0 .. Made
    <3>1. \A n \in 1 .. Len(tables) :
            \A i \in 0 .. tables'[n].capacity - 1 : tables'[n].value[i] \in 0 .. Made
      BY <2>3 DEF Types
    <3>2. \A i \in 0 .. EmptyTable(c).capacity - 1 : EmptyTable(c).value[i] \in 0 .. Made
      BY <1>0, <2>2, EmptyTableFacts
    <3> QED BY <1>0, <2>3, <3>1, <3>2, SMTT(60)
  <2>5. mainHash' \in [Threads -> 0 .. Len(tables')] /\ hash' \in [Threads -> 0 .. Len(tables')]
        /\ pc' \in [Threads -> Places]
    <3>1. 0 .. Len(tables) \subseteq 0 .. Len(tables') /\ Len(tables) + 1 \in 0 .. Len(tables')
      BY <1>0, <2>3
    <3>2. mainHash' = [mainHash EXCEPT ![t] = Len(tables) + 1] /\ hash' = hash
      BY <1>9 DEF PublishTable
    <3> QED BY <1>9, <1>f, <3>1, <3>2 DEF PublishTable
  <2>6. \A u \in Threads : /\ hash'[u] <= mainHash'[u] /\ (pc'[u] = "idle" <=> mainHash'[u] = 0)
                           /\ pc'[u] = "probe" => hash'[u] # 0
    BY <1>0, <1>f, <1>9 DEF PublishTable
  <2>7. UNCHANGED <<count, resizing, listTail, next, hashedId, index, newCount, mine,
                    prevTail, owner, calls>>
    BY <1>9 DEF PublishTable
  <2>8. Len(tables') \in Nat \ {0}
    BY <1>0, <2>3 DEF Types
  <2>9. /\ count' \in Int /\ resizing' \in BOOLEAN
        /\ next' \in Seq(Nat) /\ listTail' \in 0 .. Made'
        /\ \A p \in 1 .. Made' : next'[p] \in 0 .. Made'
        /\ hashedId' \in [Threads -> HashValues]
        /\ index' \in [Threads -> Nat] /\ newCount' \in [Threads -> Int]
        /\ mine' \in [Threads -> 0 .. Made'] /\ prevTail' \in [Threads -> 0 .. Made']
        /\ owner' \in [Threads -> 0 .. Made']
        /\ calls' \in 0 .. MaxCalls
    BY <2>7 DEF Types, Made
  <2>10. Made' = Made
    BY <2>7 DEF Made
  <2> QED BY <2>3, <2>4, <2>5, <2>6, <2>8, <2>9, <2>10 DEF Types, Capacity
<1>12. CASE CreateProducer(t)
  <2>1. /\ next' \in Seq(Nat) /\ Len(next') = Made + 1
        /\ \A p \in 1 .. Made : next'[p] = next[p]
        /\ next'[Made + 1] = 0
    BY <1>12 DEF Types, CreateProducer
  <2>2. /\ mine' \in [Threads -> 0 .. Made + 1] /\ prevTail' \in [Threads -> 0 .. Made + 1]
        /\ owner' \in [Threads -> 0 .. Made + 1] /\ listTail' \in 0 .. Made + 1
        /\ pc' \in [Threads -> Places] /\ newCount' \in [Threads -> Int]
    <3>1. 0 .. Made \subseteq 0 .. Made + 1 /\ Made + 1 \in 0 .. Made + 1 /\ listTail \in 0 .. Made
      BY <1>0, SMTT(60) DEF Types
    <3> QED BY <1>12, <1>f, <3>1 DEF CreateProducer
  <2>3. \A p \in 1 .. Made + 1 : next'[p] \in 0 .. Made + 1
    <3>1. \A p \in 1 .. Made : next[p] \in 0 .. Made
      BY DEF Types
    <3> QED BY <1>0, <2>1, <3>1, SMTT(60)
  <2>4. \A n \in DOMAIN tables :
          \A i \in 0 .. tables[n].capacity - 1 : tables[n].value[i] \in 0 .. Made + 1
    BY <1>0, SMTT(60) DEF Types
  <2>5. \A u \in Threads : /\ hash'[u] <= mainHash'[u] /\ (pc'[u] = "idle" <=> mainHash'[u] = 0)
                           /\ pc'[u] = "probe" => hash'[u] # 0
    BY <1>0, <1>12 DEF Types, CreateProducer
  <2> QED BY <1>12, <2>1, <2>2, <2>3, <2>4, <2>5 DEF Types, CreateProducer
<1>15. CASE LinkProducer(t)
  <2>1. /\ next' \in Seq(Nat) /\ Len(next') = Made
        /\ \A p \in 1 .. Made : next'[p] \in 0 .. Made
    <3>1. /\ next \in Seq(Nat) /\ mine[t] \in 0 .. Made /\ prevTail[t] \in 0 .. Made
          /\ \A p \in 1 .. Made : next[p] \in 0 .. Made
      BY ThreadTypes DEF Types
    <3>2. next' = [next EXCEPT ![mine[t]] = prevTail[t]]
      BY <1>15 DEF LinkProducer
    <3>3. Len(next') = Len(next) /\ next' \in Seq(Nat) /\ DOMAIN next = 1 .. Made
      <4>1. DOMAIN next = 1 .. Made /\ \A p \in 1 .. Made : next[p] \in Nat
        BY <3>1
      <4>2. next' = [p \in 1 .. Made |-> IF p = mine[t] THEN prevTail[t] ELSE next[p]]
        BY <3>2, <4>1
      <4>3. next' \in [1 .. Made -> Nat]
        BY <1>0, <3>1, <4>1, <4>2
      <4>4. Made \in Nat
        BY <1>0
      <4> HIDE DEF Made
      <4>5. \E k \in Nat : next' \in [1 .. k -> Nat]
        BY <4>3, <4>4
      <4>6. next' \in Seq(Nat)
        BY <4>5
      <4>7. 1 .. Len(next') = 1 .. Made /\ Len(next') \in Nat
        BY <4>3, <4>6
      <4> QED BY <1>0, <4>1, <4>4, <4>6, <4>7 DEF Made
    <3>4. \A p \in 1 .. Made : next'[p] = IF p = mine[t] THEN prevTail[t] ELSE next[p]
      BY <3>2, <3>3
    <3> QED BY <1>0, <3>1, <3>3, <3>4
  <2>2. pc' \in [Threads -> Places]
    BY <1>0, <1>15 DEF Types, LinkProducer
  <2>3. \A u \in Threads : \/ (pc'[u] = "idle" <=> mainHash'[u] = 0) /\ pc'[u] # "probe"
                           \/ pc'[u] = pc[u]
    BY <1>0, <1>15 DEF Types, LinkProducer
  <2> QED BY <1>15, <2>1, <2>2, <2>3 DEF Types, LinkProducer
<1>20. CASE OwnEntry(t)
  <2> DEFINE n == mainHash[t]
             e == Entered(tables[n], At(t, n), t, mine[t])
  <2>1. /\ n \in 1 .. Len(tables) /\ tables[n] \in Table /\ At(t, n) \in 0 .. tables[n].capacity - 1
        /\ mine[t] \in 0 .. Made /\ DOMAIN tables = 1 .. Len(tables)
    <3>1. pc[t] # "idle" /\ DOMAIN tables = 1 .. Len(tables) /\ mine[t] \in 0 .. Made
      BY <1>20, ThreadTypes DEF OwnEntry
    <3>2. n \in 1 .. Len(tables)
      BY <1>0, <1>f, <3>1
    <3> QED BY <3>1, <3>2, ThreadTypes
  <2>2. /\ e \in Table /\ e.capacity = tables[n].capacity
        /\ \A i \in 0 .. tables[n].capacity - 1 :
             e.value[i] = IF i = At(t, n) THEN mine[t] ELSE tables[n].value[i]
    BY <1>0, <2>1, EnteredFacts, SMTT(60)
  <2>3. tables' = [tables EXCEPT ![n] = e]
    BY <1>20 DEF OwnEntry
  <2> HIDE DEF e
  <2>4. /\ tables' \in Seq(Table) /\ Len(tables') = Len(tables) /\ DOMAIN tables' = DOMAIN tables
        /\ tables'[n] = e /\ \A m \in DOMAIN tables \ {n} : tables'[m] = tables[m]
    BY <2>1, <2>2, <2>3 DEF Types
  <2>5. \A m \in DOMAIN tables' :
          \A i \in 0 .. tables'[m].capacity - 1 : tables'[m].value[i] \in 0 .. Made
    BY <1>0, <2>1, <2>2, <2>4 DEF Types
  <2>6. /\ pc' \in [Threads -> Places] /\ mainHash' \in [Threads -> 0 .. Len(tables)]
        /\ hash' \in [Threads -> 0 .. Len(tables)] /\ index' \in [Threads -> Nat]
        /\ newCount' \in [Threads -> Int] /\ mine' \in [Threads -> 0 .. Made]
        /\ prevTail' \in [Threads -> 0 .. Made] /\ owner' \in [Threads -> 0 .. Made]
    BY <1>0, <1>20, <2>1, SMTT(60) DEF Types, OwnEntry
  <2>7. \A u \in Threads : /\ hash'[u] <= mainHash'[u] /\ (pc'[u] = "idle" <=> mainHash'[u] = 0)
                           /\ pc'[u] = "probe" => hash'[u] # 0
    BY <1>0, <1>20 DEF Types, OwnEntry
  <2> QED BY <1>20, <2>4, <2>5, <2>6, <2>7, SMTT(60) DEF Types, OwnEntry
<1> QED BY <1>1, <1>2, <1>3, <1>4, <1>5, <1>6, <1>7, <1>8, <1>9, <1>10, <1>11, <1>12, <1>13, <1>14,
           <1>15, <1>16, <1>17, <1>18, <1>19, <1>20 DEF Work, Search, Resize, Create, Insert
--------------------------------------------------------------------------------
(* What a step does to the tables, and to the other threads. *)

(* Entering t in an empty entry. *)
LEMMA EnteredKeeps ==
  ASSUME NEW table \in Table, NEW i \in 0 .. table.capacity - 1, table.key[i] = NoThread,
         NEW t \in Threads, NEW p \in Nat, NEW e, e = Entered(table, i, t, p)
  PROVE  /\ InTable(e, t)
         /\ \A a, b \in Nat : Occupied(table, a, b) => Occupied(e, a, b)
         /\ \A u \in Threads \ {t} :
              /\ InTable(e, u) <=> InTable(table, u)
              /\ \A a, b \in Nat : PassedBy(table, u, a, b) => PassedBy(e, u, a, b)
              /\ \A a, q \in Nat : Entry(table, u, a, q) => Entry(e, u, a, q)
<1>1. /\ e \in Table /\ e.capacity = table.capacity /\ table.capacity \in Nat \ {0}
      /\ \A k \in 0 .. table.capacity - 1 :
           /\ e.key[k] = IF k = i THEN t ELSE table.key[k]
           /\ e.value[k] = IF k = i THEN p ELSE table.value[k]
  BY EnteredFacts, TableFacts
<1>2. \A k \in Nat : k % table.capacity \in 0 .. table.capacity - 1
  BY SlotOf
<1>3. NoThread \notin Threads
  BY ThreadsAssumption
<1>4. InTable(e, t)
  BY <1>1 DEF InTable
<1>5. \A a, b \in Nat : Occupied(table, a, b) => Occupied(e, a, b)
  <2> SUFFICES ASSUME NEW a \in Nat, NEW b \in Nat, Occupied(table, a, b), NEW k \in a .. b - 1
               PROVE  e.key[k % table.capacity] # NoThread
    BY <1>1 DEF Occupied
  <2>1. k \in Nat /\ k % table.capacity \in 0 .. table.capacity - 1
    BY <1>2
  <2>2. table.key[k % table.capacity] # NoThread
    BY DEF Occupied
  <2> HIDE DEF Occupied
  <2> QED BY <1>1, <1>3, <2>1, <2>2
<1>6. ASSUME NEW u \in Threads \ {t}
      PROVE  /\ InTable(e, u) <=> InTable(table, u)
             /\ \A a, b \in Nat : PassedBy(table, u, a, b) => PassedBy(e, u, a, b)
             /\ \A a, q \in Nat : Entry(table, u, a, q) => Entry(e, u, a, q)
  <2>0. \A k \in 0 .. table.capacity - 1 : e.key[k] = u <=> table.key[k] = u
    BY <1>1, <1>3
  <2>1. InTable(e, u) <=> InTable(table, u)
    BY <1>1, <2>0 DEF InTable
  <2>2. \A a, b \in Nat : PassedBy(table, u, a, b) => PassedBy(e, u, a, b)
    BY <1>1, <1>2, <2>0 DEF PassedBy
  <2>3. ASSUME NEW a \in Nat, NEW q \in Nat, Entry(table, u, a, q)
        PROVE  Entry(e, u, a, q)
    <3> SUFFICES ASSUME NEW k \in 0 .. table.capacity - 1, e.key[k] = u
                 PROVE  /\ q # 0 /\ e.value[k] = q
                        /\ \A m \in 0 .. table.capacity - 1 : e.key[m] = u => m = k
                        /\ \E j \in Nat : /\ a <= j /\ j % table.capacity = k
                                          /\ Occupied(e, a, j)
      BY <1>1 DEF Entry
    <3>1. table.key[k] = u /\ k # i
      BY <1>1, <2>0
    <3>2. /\ q # 0 /\ table.value[k] = q
          /\ \A m \in 0 .. table.capacity - 1 : table.key[m] = u => m = k
          /\ \E j \in Nat : /\ a <= j /\ j % table.capacity = k
                            /\ Occupied(table, a, j)
      BY <2>3, <3>1 DEF Entry
    <3> QED BY <1>1, <1>5, <2>0, <3>1, <3>2
  <2> QED BY <2>1, <2>2, <2>3
<1> QED BY <1>4, <1>5, <1>6

(* A search that found the entries before an empty one taken gets there. *)
LEMMA EnteredIsFound ==
  ASSUME NEW table \in Table, NEW j \in Nat, table.key[j % table.capacity] = NoThread,
         NEW t \in Threads, ~InTable(table, t), NEW p \in Nat \ {0},
         NEW a \in 0 .. j, Occupied(table, a, j)
  PROVE  Entry(Entered(table, j % table.capacity, t, p), t, a, p)
<1> DEFINE i == j % table.capacity
           e == Entered(table, i, t, p)
<1>1. i \in 0 .. table.capacity - 1
  BY SlotOf
<1>2. /\ e.capacity = table.capacity
      /\ \A k \in 0 .. table.capacity - 1 :
           /\ e.key[k] = IF k = i THEN t ELSE table.key[k]
           /\ e.value[k] = IF k = i THEN p ELSE table.value[k]
  BY <1>1, EnteredFacts
<1>3. Occupied(e, a, j)
  BY <1>1, EnteredKeeps
<1> HIDE DEF e, i
<1>4. \A k \in 0 .. table.capacity - 1 : e.key[k] = t => k = i
  BY <1>2 DEF InTable
<1>5. Entry(e, t, a, p)
  BY <1>1, <1>2, <1>3, <1>4 DEF Entry, i
<1> QED BY <1>5 DEF e, i

LEMMA OthersStay ==
  ASSUME Types, NEW t \in Threads, Call(t) \/ Work(t)
  PROVE  /\ hashedId' = hashedId
         /\ \A u \in Threads \ {t} :
              /\ pc'[u] = pc[u] /\ mainHash'[u] = mainHash[u] /\ hash'[u] = hash[u]
              /\ index'[u] = index[u] /\ newCount'[u] = newCount[u] /\ mine'[u] = mine[u]
              /\ prevTail'[u] = prevTail[u] /\ owner'[u] = owner[u]
<1> DEFINE Others == \A u \in Threads \ {t} :
              /\ pc'[u] = pc[u] /\ mainHash'[u] = mainHash[u] /\ hash'[u] = hash[u]
              /\ index'[u] = index[u] /\ newCount'[u] = newCount[u] /\ mine'[u] = mine[u]
              /\ prevTail'[u] = prevTail[u] /\ owner'[u] = owner[u]
<1> USE DEF locals, Goto, Restart, Advance, Reload, Leave, Return, Fail
<1>1. CASE Call(t) \/ Search(t) \/ CountIn(t)
  BY <1>1, SMTT(60) DEF Types, Call, Search, Find, FindOlder, NextTable, NextSlot, CountIn
<1>2. CASE Resize(t)
  BY <1>2, SMTT(60) DEF Types, Resize, TryLock, LoadNewest, PublishTable, TableFails, Unlock
<1>3. CASE Create(t)
  BY <1>3, ZenonT(60) DEF Types, Create, CreateProducer, CreateFails, WaitForTable, LinkProducer,
              ListProducer, ReloadTail
<1>4. CASE Insert(t)
  BY <1>4, SMTT(60) DEF Types, Insert, ProbeFree, PassOver, OwnEntry
<1> QED BY <1>1, <1>2, <1>3, <1>4 DEF Work

(* A step leaves the tables, appends an empty one, or enters its thread. *)
LEMMA TablesStep ==
  ASSUME Types, NEW t \in Threads, Call(t) \/ Work(t)
  PROVE  \/ ~PublishTable(t) /\ ~OwnEntry(t) /\ tables' = tables
         \/ /\ PublishTable(t) /\ ~OwnEntry(t)
            /\ \E c \in NewCapacities(t) : c \in Nat \ {0} /\ tables' = Append(tables, EmptyTable(c))
         \/ /\ OwnEntry(t) /\ ~PublishTable(t)
            /\ mainHash[t] \in 1 .. Len(tables)
            /\ tables' = [tables EXCEPT ![mainHash[t]] =
                            Entered(tables[mainHash[t]], At(t, mainHash[t]), t, mine[t])]
<1> USE DEF memory, Goto, Leave, Return, Fail
<1>1. CASE PublishTable(t)
  <2>1. NewCapacities(t) \subseteq Nat \ {0}
    BY ThreadTypes DEF NewCapacities
  <2> QED BY <1>1, <2>1 DEF PublishTable, OwnEntry
<1>2. CASE OwnEntry(t)
  <2>1. mainHash[t] \in 1 .. Len(tables)
    <3>1. pc[t] # "idle" /\ mainHash[t] \in 0 .. Len(tables) /\ Len(tables) \in Nat
      BY <1>2, ThreadTypes DEF OwnEntry
    <3>2. mainHash[t] # 0
      BY <3>1 DEF Types
    <3> QED BY <3>1, <3>2
  <2> QED BY <1>2, <2>1 DEF PublishTable, OwnEntry
<1>3. CASE ~PublishTable(t) /\ ~OwnEntry(t)
  BY <1>3 DEF Work, Call, Search, Find, FindOlder, NextTable, NextSlot, CountIn, Resize, TryLock,
              LoadNewest, TableFails, Unlock, Create, CreateProducer, CreateFails, WaitForTable,
              LinkProducer, ListProducer, ReloadTail, Insert, ProbeFree, PassOver
<1> QED BY <1>1, <1>2, <1>3

(* The tables stay, and so does every entry of another thread, and what a  *)
(* search for it passes.                                                   *)
LEMMA TablesStay ==
  ASSUME Types, NEW t \in Threads, Call(t) \/ Work(t)
  PROVE  /\ Len(tables) <= Len(tables') /\ DOMAIN tables' = 1 .. Len(tables')
         /\ Len(tables') \in Nat
         /\ \A n \in 1 .. Len(tables) :
              /\ tables'[n].capacity = tables[n].capacity
              /\ ~OwnEntry(t) \/ n # mainHash[t] => tables'[n] = tables[n]
              /\ \A a, b \in Nat : Occupied(tables[n], a, b) => Occupied(tables'[n], a, b)
              /\ \A u \in Threads \ {t} :
                   /\ InTable(tables'[n], u) <=> InTable(tables[n], u)
                   /\ \A a, b \in Nat : PassedBy(tables[n], u, a, b) => PassedBy(tables'[n], u, a, b)
                   /\ \A a, q \in Nat : Entry(tables[n], u, a, q) => Entry(tables'[n], u, a, q)
         /\ \A n \in Len(tables) + 1 .. Len(tables') :
              /\ PublishTable(t) /\ n = Len(tables) + 1
              /\ \E c \in NewCapacities(t) : c \in Nat \ {0} /\ tables'[n] = EmptyTable(c)
              /\ \A u \in Threads : ~InTable(tables'[n], u)
         /\ ~PublishTable(t) => Len(tables') = Len(tables)
<1>0. /\ tables \in Seq(Table) /\ Len(tables) \in Nat /\ DOMAIN tables = 1 .. Len(tables)
      /\ \A n \in 1 .. Len(tables) : tables[n] \in Table
  BY DEF Types
<1>1. CASE tables' = tables
  <2>1. \A n \in Len(tables) + 1 .. Len(tables') : FALSE
    BY <1>0, <1>1
  <2> QED BY <1>0, <1>1, <2>1
<1>2. ASSUME PublishTable(t), ~OwnEntry(t), NEW c \in NewCapacities(t), c \in Nat \ {0},
             tables' = Append(tables, EmptyTable(c))
      PROVE  /\ Len(tables') = Len(tables) + 1 /\ DOMAIN tables' = 1 .. Len(tables')
             /\ \A n \in 1 .. Len(tables) : tables'[n] = tables[n]
             /\ tables'[Len(tables) + 1] = EmptyTable(c)
             /\ \A u \in Threads : ~InTable(EmptyTable(c), u)
  <2>1. EmptyTable(c) \in Table /\ \A u \in Threads : ~InTable(EmptyTable(c), u)
    BY <1>2, EmptyTableFacts
  <2> QED BY <1>0, <1>2, <2>1
<1>3. ASSUME OwnEntry(t), ~PublishTable(t), NEW n, n = mainHash[t], n \in 1 .. Len(tables),
             NEW e, e = Entered(tables[n], At(t, n), t, mine[t]),
             tables' = [tables EXCEPT ![n] = e]
      PROVE  /\ Len(tables') = Len(tables) /\ DOMAIN tables' = 1 .. Len(tables)
             /\ \A m \in 1 .. Len(tables) \ {n} : tables'[m] = tables[m]
             /\ tables'[n].capacity = tables[n].capacity
             /\ \A a, b \in Nat : Occupied(tables[n], a, b) => Occupied(tables'[n], a, b)
             /\ \A u \in Threads \ {t} :
                  /\ InTable(tables'[n], u) <=> InTable(tables[n], u)
                  /\ \A a, b \in Nat : PassedBy(tables[n], u, a, b) => PassedBy(tables'[n], u, a, b)
                  /\ \A a, q \in Nat : Entry(tables[n], u, a, q) => Entry(tables'[n], u, a, q)
  <2>1. /\ tables[n] \in Table /\ At(t, n) \in 0 .. tables[n].capacity - 1 /\ mine[t] \in Nat
        /\ tables[n].key[At(t, n)] = NoThread
    BY <1>3, ThreadTypes DEF OwnEntry, Key, Capacity
  <2>2. e \in Table /\ e.capacity = tables[n].capacity
    BY <1>3, <2>1, EnteredFacts
  <2>3. /\ Len(tables') = Len(tables) /\ DOMAIN tables' = 1 .. Len(tables)
        /\ \A m \in 1 .. Len(tables) \ {n} : tables'[m] = tables[m]
        /\ tables'[n] = e
    BY <1>0, <1>3, <2>2
  <2> QED BY <1>3, <2>1, <2>2, <2>3, EnteredKeeps
<1>4. CASE /\ PublishTable(t) /\ ~OwnEntry(t)
           /\ \E c \in NewCapacities(t) : c \in Nat \ {0} /\ tables' = Append(tables, EmptyTable(c))
  BY <1>0, <1>2, <1>4
<1>5. CASE /\ OwnEntry(t) /\ ~PublishTable(t)
           /\ mainHash[t] \in 1 .. Len(tables)
           /\ tables' = [tables EXCEPT ![mainHash[t]] =
                            Entered(tables[mainHash[t]], At(t, mainHash[t]), t, mine[t])]
  <2> DEFINE n == mainHash[t]
  <2>1. /\ Len(tables') = Len(tables) /\ DOMAIN tables' = 1 .. Len(tables)
        /\ \A m \in 1 .. Len(tables) \ {n} : tables'[m] = tables[m]
        /\ tables'[n].capacity = tables[n].capacity
        /\ \A a, b \in Nat : Occupied(tables[n], a, b) => Occupied(tables'[n], a, b)
        /\ \A u \in Threads \ {t} :
             /\ InTable(tables'[n], u) <=> InTable(tables[n], u)
             /\ \A a, b \in Nat : PassedBy(tables[n], u, a, b) => PassedBy(tables'[n], u, a, b)
             /\ \A a, q \in Nat : Entry(tables[n], u, a, q) => Entry(tables'[n], u, a, q)
    BY <1>3, <1>5
  <2> HIDE DEF n
  <2>2. \A m \in Len(tables) + 1 .. Len(tables') : FALSE
    BY <1>0, <2>1
  <2>3. \A m \in 1 .. Len(tables) : m = n \/ tables'[m] = tables[m]
    BY <2>1
  <2>4. ASSUME NEW m \in 1 .. Len(tables)
        PROVE  /\ tables'[m].capacity = tables[m].capacity
               /\ \A a, b \in Nat : Occupied(tables[m], a, b) => Occupied(tables'[m], a, b)
               /\ \A u \in Threads \ {t} :
                   /\ InTable(tables'[m], u) <=> InTable(tables[m], u)
                   /\ \A a, b \in Nat : PassedBy(tables[m], u, a, b) => PassedBy(tables'[m], u, a, b)
                   /\ \A a, q \in Nat : Entry(tables[m], u, a, q) => Entry(tables'[m], u, a, q)
    <3>1. CASE m = n
      BY <2>1, <3>1
    <3>2. CASE tables'[m] = tables[m]
      BY <3>2
    <3> QED BY <2>3, <3>1, <3>2
  <2> QED BY <1>0, <1>5, <2>1, <2>2, <2>3, <2>4 DEF n
<1>6. \/ ~PublishTable(t) /\ ~OwnEntry(t) /\ tables' = tables
      \/ /\ PublishTable(t) /\ ~OwnEntry(t)
         /\ \E c \in NewCapacities(t) : c \in Nat \ {0} /\ tables' = Append(tables, EmptyTable(c))
      \/ /\ OwnEntry(t) /\ ~PublishTable(t)
         /\ mainHash[t] \in 1 .. Len(tables)
         /\ tables' = [tables EXCEPT ![mainHash[t]] =
                         Entered(tables[mainHash[t]], At(t, mainHash[t]), t, mine[t])]
  BY TablesStep
<1> QED BY <1>1, <1>4, <1>5, <1>6
--------------------------------------------------------------------------------
(* The entries, and the searches for them. *)

(* Only the entry that t makes changes a table. *)
LEMMA TableKept ==
  ASSUME Types, NEW t \in Threads, Call(t) \/ Work(t),
         NEW n \in 1 .. Len(tables), ~OwnEntry(t) \/ n # mainHash[t]
  PROVE  tables'[n] = tables[n]
BY TablesStay

(* A new table has nobody's producer. *)
LEMMA NewTableIsEmpty ==
  ASSUME Types, NEW t \in Threads, Call(t) \/ Work(t),
         NEW n \in Len(tables) + 1 .. Len(tables'), NEW u \in Threads
  PROVE  ~InTable(tables'[n], u)
BY TablesStay

(* And t enters nobody else's. *)
LEMMA OthersInTable ==
  ASSUME Types, NEW t \in Threads, Call(t) \/ Work(t),
         NEW n \in 1 .. Len(tables), NEW u \in Threads \ {t}
  PROVE  InTable(tables'[n], u) <=> InTable(tables[n], u)
BY TablesStay

LEMMA OthersEntry ==
  ASSUME Types, NEW t \in Threads, Call(t) \/ Work(t), NEW n \in 1 .. Len(tables),
         NEW u \in Threads \ {t}, NEW a \in Nat, NEW q \in Nat, Entry(tables[n], u, a, q)
  PROVE  Entry(tables'[n], u, a, q)
BY TablesStay

(* A search for t that meets an empty entry has not missed t. *)
LEMMA SearchEnds ==
  ASSUME NEW table \in Table, NEW t \in Threads, NEW k \in Nat, NEW first \in 0 .. k, NEW p,
         Entry(table, t, first, p), PassedBy(table, t, first, k),
         table.key[k % table.capacity] = NoThread
  PROVE  ~InTable(table, t)
<1> SUFFICES ASSUME NEW i \in 0 .. table.capacity - 1, table.key[i] = t
             PROVE  FALSE
  BY DEF InTable
<1>1. PICK j \in Nat : first <= j /\ j % table.capacity = i /\ Occupied(table, first, j)
  BY DEF Entry
<1>2. t # NoThread
  BY ThreadsAssumption
<1>3. CASE j < k
  BY <1>1, <1>3 DEF PassedBy
<1>4. CASE j = k
  BY <1>1, <1>2, <1>4
<1>5. CASE j > k
  BY <1>1, <1>5 DEF Occupied
<1> QED BY <1>1, <1>3, <1>4, <1>5

LEMMA NotEntered ==
  ASSUME NEW table, NEW t, NEW first, NEW p
  PROVE  /\ ~InTable(table, t) => Entry(table, t, first, p)
         /\ Entry(table, t, first, 0) => ~InTable(table, t)
BY DEF Entry, InTable

(* What t finds where it looks. *)
LEMMA FoundIsOwn ==
  ASSUME Types, Entries, NEW t \in Threads, NEW n \in 1 .. Len(tables), Key(t, n) = t
  PROVE  Value(t, n) = owner[t] /\ owner[t] # 0
<1>1. At(t, n) \in 0 .. tables[n].capacity - 1 /\ Entry(tables[n], t, hashedId[t], owner[t])
  BY ThreadTypes DEF Entries, Capacity
<1> QED BY <1>1 DEF Entry, Key, Value

(* A thread's producer changes only when it is entered, and only once. *)
LEMMA OwnerStays ==
  ASSUME Types, Entries, Arrivals, NEW t \in Threads, Call(t) \/ Work(t)
  PROVE  /\ ~OwnEntry(t) => owner' = owner
         /\ OwnEntry(t) => /\ owner' = [owner EXCEPT ![t] = mine[t]] /\ owner'[t] = mine[t]
                           /\ mine[t] # 0
                           /\ owner[t] # 0 => owner[t] = mine[t]
<1> USE DEF memory, locals, Goto, Leave, Return, Fail
<1>1. CASE Find(t)
  <2>1. hash[t] \in 1 .. Len(tables)
    <3>1. hash[t] # 0 /\ hash[t] \in 0 .. mainHash[t] /\ mainHash[t] \in 0 .. Len(tables)
      BY <1>1, ThreadTypes DEF Types, Find
    <3> QED BY <3>1, ThreadTypes
  <2>2. Value(t, hash[t]) = owner[t]
    BY <1>1, <2>1, FoundIsOwn DEF Find
  <2> QED BY <1>1, <2>2 DEF Find, OwnEntry, Types
<1>2. CASE OwnEntry(t)
  BY <1>2 DEF OwnEntry, Arrivals, Making, Inserting, Types
<1>3. CASE ~Find(t) /\ ~OwnEntry(t)
  BY <1>3 DEF Work, Call, Search, FindOlder, NextTable, NextSlot, CountIn, Resize, TryLock,
              LoadNewest, PublishTable, TableFails, Unlock, Create, CreateProducer, CreateFails,
              WaitForTable, LinkProducer, ListProducer, ReloadTail, Insert, ProbeFree, PassOver
<1> QED BY <1>1, <1>2, <1>3

(* A table that is published is bigger than all before it. *)
LEMMA TablesGrow ==
  ASSUME Types, Lock, Entries, NEW t \in Threads, Call(t) \/ Work(t),
         NEW m \in 1 .. Len(tables'), NEW n \in m .. Len(tables')
  PROVE  tables'[m].capacity <= tables'[n].capacity
<1>0. /\ Len(tables) \in Nat \ {0} /\ DOMAIN tables = 1 .. Len(tables)
      /\ \A k \in 1 .. Len(tables) : tables[k].capacity \in Nat
  BY ThreadTypes DEF Capacity
<1>1. CASE n \in 1 .. Len(tables)
  <2>1. tables'[m].capacity = tables[m].capacity /\ tables'[n].capacity = tables[n].capacity
    BY <1>0, <1>1, TablesStay
  <2> QED BY <1>0, <1>1, <2>1 DEF Entries, Capacity
<1>2. CASE n \in Len(tables) + 1 .. Len(tables')
  <2>1. PICK c \in NewCapacities(t) : c \in Nat \ {0} /\ tables'[n] = EmptyTable(c)
    BY <1>2, TablesStay
  <2>2. PublishTable(t) /\ n = Len(tables) + 1 /\ Len(tables') \in Nat
    BY <1>2, TablesStay
  <2>3. EmptyTable(c).capacity = c
    BY DEF EmptyTable
  <2>4. mainHash[t] = Len(tables) /\ newCount[t] >= Capacity(Len(tables)) \div 2 /\ newCount[t] \in Int
    BY <2>2, ThreadTypes DEF PublishTable, Goto, Lock, HalfFull
  <2>5. Capacity(Len(tables)) < c
    <3>1. newCount[t] < c \div 2 /\ c \in Nat /\ Capacity(Len(tables)) \in Nat
      BY <1>0, <2>1 DEF NewCapacities, Capacity
    <3> QED BY <2>4, <3>1
  <2>6. CASE m = n
    BY <2>1, <2>3, <2>6
  <2>7. CASE m \in 1 .. Len(tables)
    <3>1. tables[m].capacity <= tables[Len(tables)].capacity
      BY <1>0, <2>7 DEF Entries, Capacity
    <3>2. tables'[m].capacity = tables[m].capacity
      BY <2>7, TablesStay
    <3> QED BY <1>0, <2>1, <2>3, <2>5, <2>7, <3>1, <3>2 DEF Capacity
  <2> QED BY <1>0, <2>2, <2>6, <2>7
<1> QED BY <1>0, <1>1, <1>2, TablesStay

(* A search finds what was entered, in every table. *)
LEMMA EntriesNext ==
  ASSUME Types, Lock, Entries, Arrivals, NEW t \in Threads, Call(t) \/ Work(t)
  PROVE  Entries'
<1>0. /\ Len(tables) \in Nat \ {0} /\ DOMAIN tables = 1 .. Len(tables)
      /\ DOMAIN tables' = 1 .. Len(tables') /\ Len(tables') \in Nat
      /\ Len(tables) <= Len(tables')
      /\ \A u \in Threads : hashedId[u] \in Nat /\ owner[u] \in Nat /\ hashedId' = hashedId
  BY ThreadTypes, TablesStay, OthersStay
<1>1. \A m, n \in DOMAIN tables' : m <= n => tables'[m].capacity <= tables'[n].capacity
  BY <1>0, TablesGrow
<1>2. ASSUME NEW n \in 1 .. Len(tables'), NEW u \in Threads
      PROVE  Entry(tables'[n], u, hashedId[u], owner'[u])
  <2>1. CASE n \in Len(tables) + 1 .. Len(tables')
    <3>1. ~InTable(tables'[n], u)
      BY <2>1, NewTableIsEmpty
    <3> QED BY <3>1, NotEntered, Zenon
  <2>2. CASE n \in 1 .. Len(tables) /\ u # t
    <3>1. owner'[u] = owner[u] /\ Entry(tables[n], u, hashedId[u], owner[u])
      BY <1>0, <2>2, OthersStay DEF Entries
    <3>2. u \in Threads \ {t} /\ n \in 1 .. Len(tables) /\ hashedId[u] \in Nat /\ owner[u] \in Nat
      BY <1>0, <2>2
    <3> QED BY <3>1, <3>2, OthersEntry, Zenon
  <2>3. CASE n \in 1 .. Len(tables) /\ u = t /\ ~OwnEntry(t)
    <3>1. owner'[t] = owner[t] /\ tables'[n] = tables[n]
      <4>1. owner' = owner
        BY <2>3, OwnerStays
      <4>2. tables'[n] = tables[n]
        BY <2>3, TableKept
      <4> QED BY <4>1, <4>2
    <3> QED BY <1>0, <2>3, <3>1 DEF Entries
  <2>4. CASE n \in 1 .. Len(tables) /\ u = t /\ OwnEntry(t) /\ n # mainHash[t]
    <3>1. /\ owner'[t] = mine[t] /\ (owner[t] # 0 => owner[t] = mine[t])
          /\ tables'[n] = tables[n] /\ Entry(tables[n], t, hashedId[t], owner[t])
      <4>1. owner'[t] = mine[t] /\ (owner[t] # 0 => owner[t] = mine[t])
        BY <2>4, OwnerStays
      <4>2. tables'[n] = tables[n]
        BY <2>4, TableKept
      <4>3. Entry(tables[n], t, hashedId[t], owner[t])
        BY <1>0, <2>4 DEF Entries
      <4> QED BY <4>1, <4>2, <4>3
    <3>2. CASE owner[t] = 0
      BY <2>4, <3>1, <3>2, NotEntered, Zenon
    <3> QED BY <2>4, <3>1, <3>2
  <2>5. CASE n \in 1 .. Len(tables) /\ u = t /\ OwnEntry(t) /\ n = mainHash[t]
    <3>1. /\ owner'[t] = mine[t] /\ mine[t] # 0 /\ mine[t] \in Nat
          /\ tables[n] \in Table /\ index[t] \in Nat
      <4>1. owner'[t] = mine[t] /\ mine[t] # 0
        BY <2>5, OwnerStays
      <4>2. mine[t] \in Nat /\ tables[n] \in Table /\ index[t] \in Nat
        BY <2>5, ThreadTypes
      <4> QED BY <4>1, <4>2
    <3>2. /\ ~InTable(tables[n], t) /\ Occupied(tables[n], hashedId[t], index[t])
          /\ hashedId[t] \in 0 .. index[t]
      BY <1>0, <2>5, <3>1 DEF Arrivals, Inserting, Making, OwnEntry, Goto, Leave, Return
    <3>3. tables[n].key[index[t] % tables[n].capacity] = NoThread
      BY <2>5 DEF OwnEntry, Key, At, Capacity
    <3>4. Entry(Entered(tables[n], index[t] % tables[n].capacity, t, mine[t]), t, hashedId[t], mine[t])
      BY <3>1, <3>2, <3>3, EnteredIsFound
    <3>5. tables' = [tables EXCEPT ![n] = Entered(tables[n], index[t] % tables[n].capacity, t, mine[t])]
      BY <2>5 DEF OwnEntry, At, Capacity
    <3>6. tables'[n] = Entered(tables[n], index[t] % tables[n].capacity, t, mine[t])
      BY <1>0, <2>5, <3>5
    <3> QED BY <2>5, <3>1, <3>4, <3>6
  <2> QED BY <1>0, <2>1, <2>2, <2>3, <2>4, <2>5
<1>3. ASSUME NEW u \in Threads, owner'[u] # 0
      PROVE  \E n \in 1 .. Len(tables') : InTable(tables'[n], u)
  <2>1. CASE owner[u] # 0 /\ (u # t \/ ~OwnEntry(t))
    <3>1. PICK n \in 1 .. Len(tables) : InTable(tables[n], u)
      BY <1>0, <2>1 DEF Entries
    <3>2. InTable(tables'[n], u)
      BY <2>1, <3>1, TablesStay
    <3> QED BY <1>0, <3>2
  <2>2. CASE u = t /\ OwnEntry(t)
    <3> DEFINE n == mainHash[t]
    <3>1. n \in 1 .. Len(tables) /\ tables' = [tables EXCEPT ![n] = Entered(tables[n], At(t, n), t, mine[t])]
      BY <2>2, TablesStep DEF OwnEntry
    <3>2. /\ tables[n] \in Table /\ At(t, n) \in 0 .. tables[n].capacity - 1
          /\ tables[n].key[At(t, n)] = NoThread /\ mine[t] \in Nat
      BY <2>2, <3>1, ThreadTypes DEF OwnEntry, Key, Capacity
    <3>3. InTable(Entered(tables[n], At(t, n), t, mine[t]), t)
      BY <3>2, EnteredKeeps
    <3>4. InTable(tables'[n], t)
      BY <1>0, <3>1, <3>3
    <3> QED BY <1>0, <2>2, <3>1, <3>4
  <2>3. owner[u] # 0 \/ (u = t /\ OwnEntry(t))
    BY <1>3, OthersStay, OwnerStays
  <2> QED BY <2>1, <2>2, <2>3
<1> QED BY <1>0, <1>1, <1>2, <1>3 DEF Entries, Capacity

(* A search that came to the end of a table has not missed its thread. *)
LEMMA NotHere ==
  ASSUME Types, Entries, Searching, NEW t \in Threads, NextTable(t)
  PROVE  /\ hash[t] \in 1 .. Len(tables) /\ mainHash[t] \in hash[t] .. Len(tables)
         /\ ~InTable(tables[hash[t]], t)
         /\ owner[t] # 0 => \E m \in 1 .. hash[t] - 1 : InTable(tables[m], t)
<1>1. /\ hash[t] \in 1 .. Len(tables) /\ mainHash[t] \in hash[t] .. Len(tables)
      /\ index[t] \in Nat /\ hashedId[t] \in Nat /\ tables[hash[t]] \in Table
      /\ DOMAIN tables = 1 .. Len(tables)
  <2>1. /\ hash[t] # 0 /\ hash[t] \in 0 .. mainHash[t] /\ mainHash[t] \in 0 .. Len(tables)
        /\ Len(tables) \in Nat
    BY ThreadTypes DEF Types, NextTable
  <2>2. hash[t] \in 1 .. Len(tables) /\ mainHash[t] \in hash[t] .. Len(tables)
    BY <2>1
  <2> QED BY <2>2, ThreadTypes
<1>2. /\ hashedId[t] \in 0 .. index[t] /\ PassedBy(tables[hash[t]], t, hashedId[t], index[t])
      /\ owner[t] # 0 => \E m \in 1 .. hash[t] : InTable(tables[m], t)
  BY <1>1 DEF Searching, NextTable
<1>3. tables[hash[t]].key[index[t] % tables[hash[t]].capacity] = NoThread
  BY DEF NextTable, Key, At, Capacity
<1>4. ~InTable(tables[hash[t]], t)
  BY <1>1, <1>2, <1>3, SearchEnds DEF Entries
<1> QED BY <1>1, <1>2, <1>4

(* A search that goes on has missed nothing. *)
LEMMA SearchingNext ==
  ASSUME Types, Entries, Searching, Arrivals, NEW t \in Threads, Call(t) \/ Work(t)
  PROVE  Searching'
<1>0. /\ Len(tables) \in Nat \ {0} /\ DOMAIN tables = 1 .. Len(tables)
      /\ hashedId' = hashedId
      /\ \A u \in Threads : /\ hashedId[u] \in Nat /\ index[u] \in Nat
                            /\ mainHash[u] \in 0 .. Len(tables) /\ hash[u] \in 0 .. mainHash[u]
  BY ThreadTypes, OthersStay
<1>1. ASSUME NEW u \in Threads \ {t}, pc'[u] = "probe"
      PROVE  /\ hashedId[u] <= index'[u]
             /\ owner'[u] # 0 => \E m \in 1 .. hash'[u] : InTable(tables'[m], u)
             /\ \A m \in hash'[u] + 1 .. mainHash'[u] : ~InTable(tables'[m], u)
             /\ PassedBy(tables'[hash'[u]], u, hashedId[u], index'[u])
  <2>1. /\ pc[u] = "probe" /\ index'[u] = index[u] /\ owner'[u] = owner[u]
        /\ hash'[u] = hash[u] /\ mainHash'[u] = mainHash[u]
    BY <1>1, OthersStay
  <2>2. hash[u] \in 1 .. Len(tables)
    <3>1. hash[u] # 0
      BY <2>1 DEF Types
    <3> QED BY <1>0, <3>1
  <2>3. \A m \in 1 .. Len(tables) : InTable(tables'[m], u) <=> InTable(tables[m], u)
    BY TablesStay
  <2>4. PassedBy(tables[hash[u]], u, hashedId[u], index[u])
        => PassedBy(tables'[hash[u]], u, hashedId[u], index[u])
    BY <1>0, <2>2, TablesStay
  <2>5. /\ hashedId[u] <= index[u]
        /\ owner[u] # 0 => \E m \in 1 .. hash[u] : InTable(tables[m], u)
        /\ \A m \in hash[u] + 1 .. mainHash[u] : ~InTable(tables[m], u)
        /\ PassedBy(tables[hash[u]], u, hashedId[u], index[u])
    BY <2>1 DEF Searching
  <2> QED BY <1>0, <2>1, <2>2, <2>3, <2>4, <2>5, SMTT(60)
<1>2. ASSUME pc'[t] = "probe"
      PROVE  /\ hashedId[t] <= index'[t]
             /\ owner'[t] # 0 => \E m \in 1 .. hash'[t] : InTable(tables'[m], t)
             /\ \A m \in hash'[t] + 1 .. mainHash'[t] : ~InTable(tables'[m], t)
             /\ PassedBy(tables'[hash'[t]], t, hashedId[t], index'[t])
  <2> USE DEF memory, locals, Goto, Restart, Advance, Reload, Leave, Return, Fail
  <2>1. CASE Call(t)
    <3>1. /\ index'[t] = hashedId[t] /\ owner' = owner /\ tables' = tables
          /\ hash'[t] = Len(tables) /\ mainHash'[t] = Len(tables)
      BY <2>1 DEF Call, Types
    <3> QED BY <1>0, <3>1 DEF PassedBy, Entries
  <2>2. CASE NextTable(t)
    <3>1. /\ index'[t] = hashedId[t] /\ owner' = owner /\ tables' = tables
          /\ hash'[t] = hash[t] - 1 /\ mainHash'[t] = mainHash[t] /\ pc[t] = "probe"
      BY <2>2 DEF NextTable, Types
    <3>2. \A m \in hash[t] + 1 .. mainHash[t] : ~InTable(tables[m], t)
      BY <3>1 DEF Searching
    <3>3. /\ hash[t] \in 1 .. Len(tables) /\ ~InTable(tables[hash[t]], t)
          /\ owner[t] # 0 => \E m \in 1 .. hash[t] - 1 : InTable(tables[m], t)
      BY <2>2, NotHere
    <3>4. \A m \in hash'[t] + 1 .. mainHash'[t] : ~InTable(tables'[m], t)
      BY <1>0, <3>1, <3>2, <3>3
    <3>5. PassedBy(tables'[hash'[t]], t, hashedId[t], index'[t])
      BY <1>0, <3>1 DEF PassedBy
    <3> QED BY <1>0, <3>1, <3>3, <3>4, <3>5
  <2>3. CASE NextSlot(t)
    <3>1. /\ index'[t] = index[t] + 1 /\ owner' = owner /\ tables' = tables
          /\ hash' = hash /\ mainHash' = mainHash /\ pc[t] = "probe"
          /\ tables[hash[t]].key[index[t] % tables[hash[t]].capacity] # t
      BY <2>3 DEF NextSlot, Types, Key, At, Capacity
    <3>2. /\ hashedId[t] <= index[t] /\ PassedBy(tables[hash[t]], t, hashedId[t], index[t])
          /\ owner[t] # 0 => \E m \in 1 .. hash[t] : InTable(tables[m], t)
          /\ \A m \in hash[t] + 1 .. mainHash[t] : ~InTable(tables[m], t)
      BY <3>1 DEF Searching
    <3>3. PassedBy(tables[hash[t]], t, hashedId[t], index[t] + 1)
      <4>1. hashedId[t] \in Nat /\ index[t] \in Nat
        BY ThreadTypes
      <4> QED BY <3>1, <3>2, <4>1, PassedByOneMore
    <3> QED BY <1>0, <3>1, <3>2, <3>3
  <2>4. Call(t) \/ NextTable(t) \/ NextSlot(t)
    BY <1>2 DEF Types, Work, Search, Find, FindOlder, CountIn, Resize, TryLock,
              LoadNewest, PublishTable, TableFails, Unlock, Create, CreateProducer, CreateFails,
              WaitForTable, LinkProducer, ListProducer, ReloadTail, Insert, ProbeFree, PassOver,
              OwnEntry
  <2> QED BY <2>1, <2>2, <2>3, <2>4
<1> QED BY <1>0, <1>1, <1>2 DEF Searching

(* No thread that has a producer gets as far as to make one. *)
LEMMA NewcomersNext ==
  ASSUME Types, Entries, Searching, Newcomers, Arrivals, NEW t \in Threads, Call(t) \/ Work(t)
  PROVE  Newcomers'
<1> DEFINE S == Waiting \cup Making \cup {"count", "giveup"}
<1>1. \A u \in Threads \ {t} : pc'[u] \in S => owner'[u] = 0
  BY OthersStay DEF Newcomers
<1>2. ASSUME pc'[t] \in S PROVE owner[t] = 0 /\ ~OwnEntry(t)
  <2> USE DEF memory, locals, Goto, Restart, Advance, Reload, Leave, Return, Fail,
              Waiting, Making
  <2>1. CASE NextTable(t)
    <3>1. pc'[t] = "count" /\ hash[t] - 1 = 0
      BY <1>2, <2>1 DEF NextTable, Types
    <3>2. owner[t] # 0 => \E m \in 1 .. hash[t] - 1 : InTable(tables[m], t)
      BY <2>1, NotHere
    <3> QED BY <2>1, <3>1, <3>2 DEF NextTable, OwnEntry
  <2>2. CASE pc[t] \in S
    BY <1>2, <2>2 DEF Newcomers, OwnEntry
  <2>3. NextTable(t) \/ pc[t] \in S
    BY <1>2, SMTT(60) DEF Types, Work, Call, Search, Find, FindOlder, NextSlot, CountIn, Resize, TryLock,
              LoadNewest, PublishTable, TableFails, Unlock, Create, CreateProducer, CreateFails,
              WaitForTable, LinkProducer, ListProducer, ReloadTail, Insert, ProbeFree, PassOver,
              OwnEntry
  <2> QED BY <2>1, <2>2, <2>3
<1>3. pc'[t] \in S => owner'[t] = 0
  BY <1>2, OwnerStays
<1> QED BY <1>1, <1>3 DEF Newcomers

(* How a thread comes to enter itself in a table. *)
LEMMA ArrivalsNext ==
  ASSUME Types, Entries, Searching, Newcomers, Arrivals, NEW t \in Threads, Call(t) \/ Work(t)
  PROVE  Arrivals'
<1>0. /\ Len(tables) \in Nat \ {0} /\ DOMAIN tables = 1 .. Len(tables) /\ hashedId' = hashedId
      /\ \A u \in Threads : /\ hashedId[u] \in Nat /\ index[u] \in Nat
                            /\ mainHash[u] \in 0 .. Len(tables) /\ hash[u] \in 0 .. mainHash[u]
                            /\ pc[u] # "idle" => mainHash[u] \in 1 .. Len(tables)
  <2>1. \A u \in Threads : mainHash[u] \in 0 .. Len(tables) /\ Len(tables) \in Nat
                           /\ (pc[u] # "idle" => mainHash[u] # 0)
    BY ThreadTypes DEF Types
  <2> QED BY <2>1, ThreadTypes, OthersStay
<1>1. ASSUME NEW u \in Threads \ {t}, pc'[u] \in Making \cup Inserting
      PROVE  /\ mine'[u] # 0 /\ ~InTable(tables'[mainHash'[u]], u)
             /\ pc'[u] \in Inserting =>
                  /\ owner'[u] # 0 => mine'[u] = owner'[u]
                  /\ hashedId[u] <= index'[u]
                  /\ Occupied(tables'[mainHash'[u]], hashedId[u], index'[u])
  <2>1. /\ pc'[u] = pc[u] /\ index'[u] = index[u] /\ owner'[u] = owner[u]
        /\ mine'[u] = mine[u] /\ mainHash'[u] = mainHash[u]
    BY OthersStay
  <2>2. mainHash[u] \in 1 .. Len(tables)
    BY <1>0, <1>1, <2>1 DEF Making, Inserting
  <2>3. InTable(tables'[mainHash[u]], u) <=> InTable(tables[mainHash[u]], u)
    BY <2>2, TablesStay
  <2>4. Occupied(tables[mainHash[u]], hashedId[u], index[u])
        => Occupied(tables'[mainHash[u]], hashedId[u], index[u])
    BY <1>0, <2>2, TablesStay
  <2> QED BY <1>1, <2>1, <2>3, <2>4 DEF Arrivals
<1>2. ASSUME pc'[t] \in Making \cup Inserting
      PROVE  /\ mine'[t] # 0 /\ ~InTable(tables'[mainHash'[t]], t)
             /\ pc'[t] \in Inserting =>
                  /\ owner'[t] # 0 => mine'[t] = owner'[t]
                  /\ hashedId[t] <= index'[t]
                  /\ Occupied(tables'[mainHash'[t]], hashedId[t], index'[t])
  <2> USE DEF memory, locals, Goto, Restart, Advance, Reload, Leave, Return, Fail, Making, Inserting
  <2>1. CASE FindOlder(t)
    <3>1. /\ tables' = tables /\ mainHash' = mainHash /\ owner' = owner
          /\ index'[t] = hashedId[t] /\ mine'[t] = Value(t, hash[t])
          /\ pc[t] = "probe" /\ Key(t, hash[t]) = t /\ hash[t] # mainHash[t]
      BY <2>1 DEF FindOlder, Types
    <3>2. hash[t] \in 1 .. Len(tables) /\ mainHash[t] \in hash[t] + 1 .. mainHash[t]
      <4>1. hash[t] # 0
        BY <3>1 DEF Types
      <4> QED BY <1>0, <3>1, <4>1
    <3>3. mine'[t] = owner[t] /\ owner[t] # 0
      BY <3>1, <3>2, FoundIsOwn
    <3>4. ~InTable(tables[mainHash[t]], t)
      BY <3>1, <3>2 DEF Searching
    <3>5. Occupied(tables[mainHash[t]], hashedId[t], hashedId[t])
      BY <1>0 DEF Occupied
    <3> QED BY <1>0, <3>1, <3>3, <3>4, <3>5
  <2>2. CASE CreateProducer(t)
    <3>1. /\ tables' = tables /\ mainHash' = mainHash /\ mine'[t] = Made + 1
          /\ pc'[t] = "link" /\ pc[t] = "room"
      BY <2>2 DEF CreateProducer, Types
    <3>2. owner[t] = 0 /\ mainHash[t] \in 1 .. Len(tables)
      BY <1>0, <3>1 DEF Newcomers, Waiting
    <3>3. ~InTable(tables[mainHash[t]], t)
      BY <1>0, <3>2, NotEntered DEF Entries
    <3> QED BY <3>1, <3>3, ThreadTypes
  <2>3. CASE LinkProducer(t) \/ ReloadTail(t) \/ ProbeFree(t)
    BY <2>3 DEF LinkProducer, ReloadTail, ProbeFree, Types, Arrivals
  <2>4. CASE ListProducer(t)
    <3>1. /\ tables' = tables /\ mainHash' = mainHash /\ mine' = mine /\ owner' = owner
          /\ index'[t] = hashedId[t] /\ pc[t] = "exchange"
      BY <2>4 DEF ListProducer, Types
    <3>2. owner[t] = 0
      BY <3>1 DEF Newcomers
    <3>3. Occupied(tables[mainHash[t]], hashedId[t], hashedId[t])
      BY <1>0 DEF Occupied
    <3> QED BY <1>0, <3>1, <3>2, <3>3 DEF Arrivals
  <2>5. CASE PassOver(t)
    <3>1. /\ tables' = tables /\ mainHash' = mainHash /\ mine' = mine /\ owner' = owner
          /\ index'[t] = index[t] + 1 /\ pc[t] \in Inserting
          /\ tables[mainHash[t]].key[index[t] % tables[mainHash[t]].capacity] # NoThread
      BY <2>5 DEF PassOver, Types, Key, At, Capacity
    <3>2. /\ mine[t] # 0 /\ ~InTable(tables[mainHash[t]], t)
          /\ (owner[t] # 0 => mine[t] = owner[t])
          /\ hashedId[t] <= index[t]
          /\ Occupied(tables[mainHash[t]], hashedId[t], index[t])
      BY <3>1 DEF Arrivals
    <3>3. Occupied(tables[mainHash[t]], hashedId[t], index[t] + 1)
      <4>1. hashedId[t] \in Nat /\ index[t] \in Nat
        BY ThreadTypes
      <4> QED BY <3>1, <3>2, <4>1, OccupiedOneMore
    <3> QED BY <1>0, <3>1, <3>2, <3>3
  <2>6. \/ FindOlder(t) \/ CreateProducer(t) \/ LinkProducer(t) \/ ReloadTail(t) \/ ProbeFree(t)
        \/ ListProducer(t) \/ PassOver(t)
    BY <1>2 DEF Types, Work, Call, Search, Find, NextTable, NextSlot, CountIn, Resize, TryLock,
              LoadNewest, PublishTable, TableFails, Unlock, Create, CreateFails,
              WaitForTable, Insert, OwnEntry
  <2> QED BY <2>1, <2>2, <2>3, <2>4, <2>5, <2>6
<1> QED BY <1>0, <1>1, <1>2 DEF Arrivals

(* The resize lock. *)
LEMMA LockNext ==
  ASSUME Types, Lock, NEW t \in Threads, Call(t) \/ Work(t)
  PROVE  Lock'
<1>1. \A u \in Threads \ {t} :
        /\ pc'[u] = pc[u] /\ mainHash'[u] = mainHash[u] /\ newCount'[u] = newCount[u]
  BY OthersStay
<1>2. /\ \A u \in Threads : pc'[u] \in Resizing => resizing'
      /\ \A u, v \in Threads : pc'[u] \in Resizing /\ pc'[v] \in Resizing => u = v
  <2> USE DEF memory, locals, Goto, Leave, Return, Fail, Resizing
  <2>1. CASE pc[t] \in Resizing
    BY <1>1, <2>1, ZenonT(60) DEF Types, Lock, Work, Call, Search, Find, FindOlder, NextTable, NextSlot,
              CountIn, Resize, TryLock, LoadNewest, PublishTable, TableFails, Unlock, Create,
              CreateProducer, CreateFails, WaitForTable, LinkProducer, ListProducer, ReloadTail,
              Insert, ProbeFree, PassOver, OwnEntry
  <2>2. CASE TryLock(t)
    BY <1>1, <2>2, ZenonT(60) DEF Types, Lock, TryLock
  <2>3. CASE pc[t] \notin Resizing /\ ~TryLock(t)
    <3>1. pc'[t] \notin Resizing /\ resizing' = resizing
      BY <2>3 DEF Types, Work, Call, Search, Find, FindOlder, NextTable, NextSlot,
              CountIn, Resize, LoadNewest, PublishTable, TableFails, Unlock, Create,
              CreateProducer, CreateFails, WaitForTable, LinkProducer, ListProducer, ReloadTail,
              Insert, ProbeFree, PassOver, OwnEntry
    <3> QED BY <1>1, <2>3, <3>1 DEF Lock
  <2> QED BY <2>1, <2>2, <2>3
<1>3. ASSUME NEW u \in Threads, pc'[u] = "publish"
      PROVE  mainHash'[u] = Len(tables') /\ newCount'[u] >= tables'[mainHash'[u]].capacity \div 2
  <2>1. CASE u # t
    <3>1. /\ pc[u] = "publish" /\ mainHash'[u] = mainHash[u] /\ newCount'[u] = newCount[u]
      BY <1>1, <1>3, <2>1
    <3>2. /\ mainHash[u] = Len(tables) /\ newCount[u] >= tables[mainHash[u]].capacity \div 2
          /\ ~PublishTable(t)
      BY <2>1, <3>1 DEF Lock, Resizing, PublishTable, Goto, HalfFull, Capacity
    <3>3. Len(tables') = Len(tables) /\ mainHash[u] \in 1 .. Len(tables)
      BY <3>2, TablesStay, ThreadTypes, SMTT(60)
    <3>4. tables'[mainHash[u]].capacity = tables[mainHash[u]].capacity
      BY <3>3, TablesStay
    <3> QED BY <3>1, <3>2, <3>3, <3>4
  <2>2. CASE u = t
    <3> USE DEF memory, locals, Goto, Restart, Advance, Reload, Leave, Return, Fail
    <3>1. LoadNewest(t)
      BY <1>3, <2>2 DEF Types, Work, Call, Search, Find, FindOlder, NextTable, NextSlot,
              CountIn, Resize, TryLock, PublishTable, TableFails, Unlock, Create,
              CreateProducer, CreateFails, WaitForTable, LinkProducer, ListProducer, ReloadTail,
              Insert, ProbeFree, PassOver, OwnEntry
    <3> QED BY <1>3, <2>2, <3>1 DEF LoadNewest, Types, HalfFull, Capacity
  <2> QED BY <2>1, <2>2
<1> QED BY <1>2, <1>3 DEF Lock, HalfFull, Capacity
--------------------------------------------------------------------------------
(* The list of producers. *)

(* What is reached through links that stay is reached still. *)
LEMMA ReachableKept ==
  ASSUME NEW links, NEW more, Len(links) \in Nat, Len(more) \in Nat, Len(links) <= Len(more),
         NEW C \in SUBSET (1 .. Len(links)), NEW first \in C \cup {0},
         \A p \in C : links[p] \in C \cup {0} /\ more[p] = links[p]
  PROVE  /\ Reachable(first, links) \subseteq C
         /\ Reachable(first, links) \subseteq Reachable(first, more)
<1>1. C \cup {0} \subseteq 0 .. Len(links)
  OBVIOUS
<1>2. Reachable(first, links) \subseteq C
  <2>1. \A p \in Reachable(first, links) : p \in C \cup {0} /\ p # 0
    <3>1. PICK S \in SUBSET (0 .. Len(links)) : S = C \cup {0}
      BY <1>1
    <3>2. first \in S /\ \A p \in S \ {0} : links[p] \in S
      BY <3>1
    <3>3. \A p \in Reachable(first, links) : p \in 1 .. Len(links) /\ p \in S
      BY <3>2 DEF Reachable
    <3> QED BY <3>1, <3>3
  <2> QED BY <2>1
<1>3. ASSUME NEW p \in Reachable(first, links)
      PROVE  p \in Reachable(first, more)
  <2>1. p \in 1 .. Len(links) /\ p \in 1 .. Len(more)
    BY DEF Reachable
  <2> SUFFICES ASSUME NEW S \in SUBSET (0 .. Len(more)), first \in S,
                      \A q \in S \ {0} : more[q] \in S
               PROVE  p \in S
    BY <2>1 DEF Reachable
  <2>2. S \cap (C \cup {0}) \in SUBSET (0 .. Len(links)) /\ first \in S \cap (C \cup {0})
    BY <1>1
  <2>3. \A q \in (S \cap (C \cup {0})) \ {0} : links[q] \in S \cap (C \cup {0})
    OBVIOUS
  <2>4. p \in S \cap (C \cup {0})
    BY <2>2, <2>3 DEF Reachable
  <2> QED BY <2>4
<1> QED BY <1>2, <1>3

(* A producer that points to the list's tail is put before it. *)
LEMMA ReachableAdded ==
  ASSUME NEW links, NEW p \in 1 .. Len(links)
  PROVE  /\ p \in Reachable(p, links)
         /\ Reachable(links[p], links) \subseteq Reachable(p, links)
<1>1. p \in Reachable(p, links)
  BY DEF Reachable
<1>2. ASSUME NEW q \in Reachable(links[p], links)
      PROVE  q \in Reachable(p, links)
  <2>1. q \in 1 .. Len(links)
    BY DEF Reachable
  <2> SUFFICES ASSUME NEW S \in SUBSET (0 .. Len(links)), p \in S,
                      \A r \in S \ {0} : links[r] \in S
               PROVE  q \in S
    BY <2>1 DEF Reachable
  <2>2. links[p] \in S
    <3>1. p # 0
      BY SMT
    <3> QED BY <3>1
  <2> QED BY <2>2 DEF Reachable
<1> QED BY <1>1, <1>2

(* What a step does to the list. *)
LEMMA ListStep ==
  ASSUME Types, Entries, Arrivals, NEW t \in Threads, Call(t) \/ Work(t)
  PROVE  \/ CreateProducer(t) \/ LinkProducer(t) \/ ListProducer(t)
         \/ /\ next' = next /\ listTail' = listTail /\ pc'[t] # "exchange"
            /\ pc'[t] = "link" =>
                 pc[t] = "exchange" /\ mine'[t] = mine[t] /\ prevTail'[t] = listTail
            /\ pc[t] \in Making => pc'[t] = "link"
            /\ pc'[t] \in Inserting =>
                 \/ pc[t] \in Inserting /\ mine'[t] = mine[t]
                 \/ owner[t] # 0 /\ mine'[t] = owner[t]
<1> USE DEF memory, locals, Goto, Restart, Advance, Reload, Leave, Return, Fail, Making, Inserting
<1>1. CASE FindOlder(t)
  <2>1. hash[t] \in 1 .. Len(tables)
    <3>1. hash[t] # 0 /\ hash[t] \in 0 .. mainHash[t] /\ mainHash[t] \in 0 .. Len(tables)
          /\ Len(tables) \in Nat
      BY <1>1, ThreadTypes DEF Types, FindOlder
    <3> QED BY <3>1
  <2>2. Value(t, hash[t]) = owner[t] /\ owner[t] # 0
    BY <1>1, <2>1, FoundIsOwn DEF FindOlder
  <2> QED BY <1>1, <2>2 DEF FindOlder, Types
<1>2. CASE Call(t) \/ Find(t) \/ NextTable(t) \/ NextSlot(t) \/ CountIn(t)
  BY <1>2 DEF Types, Call, Find, NextTable, NextSlot, CountIn
<1>3. CASE Resize(t)
  BY <1>3 DEF Types, Resize, TryLock, LoadNewest, PublishTable, TableFails, Unlock
<1>4. CASE CreateFails(t) \/ WaitForTable(t) \/ ReloadTail(t)
  BY <1>4 DEF Types, CreateFails, WaitForTable, ReloadTail
<1>5. CASE Insert(t)
  BY <1>5 DEF Types, Insert, ProbeFree, PassOver, OwnEntry
<1> QED BY <1>1, <1>2, <1>3, <1>4, <1>5 DEF Work, Search, Create

(* The producers of the threads, before and after. *)
LEMMA HeldNext ==
  ASSUME Types, Entries, Arrivals, Newcomers, NEW t \in Threads, Call(t) \/ Work(t)
  PROVE  /\ Made' >= Made
         /\ ~CreateProducer(t) => Made' = Made /\ \A u \in Threads : Held(u)' \subseteq Held(u)
         /\ CreateProducer(t) => /\ Made' = Made + 1 /\ Held(t)' \subseteq {Made + 1}
                                 /\ \A u \in Threads \ {t} : Held(u)' \subseteq Held(u)
<1> USE DEF Making, Inserting
<1>0. /\ \A u \in Threads \ {t} : pc'[u] = pc[u] /\ mine'[u] = mine[u] /\ owner'[u] = owner[u]
      /\ Made \in Nat
      /\ \A u \in Threads : owner[u] \in 0 .. Made /\ mine[u] \in 0 .. Made
  BY OthersStay, ThreadTypes
<1>1. CASE CreateProducer(t)
  <2>1. /\ Made' = Made + 1 /\ mine'[t] = Made + 1 /\ pc[t] = "room" /\ owner' = owner
    BY <1>1 DEF CreateProducer, Types, Made, Goto
  <2>2. owner[t] = 0
    BY <2>1 DEF Newcomers, Waiting
  <2>3. Held(t)' \subseteq {Made + 1}
    BY <1>0, <2>1, <2>2 DEF Held
  <2>4. \A u \in Threads \ {t} : Held(u)' \subseteq Held(u)
    BY <1>0, <2>1 DEF Held
  <2> QED BY <1>0, <1>1, <2>1, <2>3, <2>4
<1>2. CASE ~CreateProducer(t)
  <2>1. Made' = Made
    <3>1. CASE LinkProducer(t)
      <4>1. next' = [next EXCEPT ![mine[t]] = prevTail[t]] /\ next \in Seq(Nat)
        BY <3>1 DEF LinkProducer, Types
      <4>2. pc[t] \in Making
        BY <3>1 DEF LinkProducer, Goto
      <4>3. mine[t] \in 1 .. Len(next)
        BY <1>0, <4>2 DEF Arrivals, Made
      <4> QED BY <4>1, <4>3 DEF Made
    <3>2. CASE ListProducer(t)
      BY <3>2 DEF ListProducer, Made
    <3> QED BY <1>2, <3>1, <3>2, ListStep DEF Made
  <2>2. \A u \in Threads \ {t} : Held(u)' \subseteq Held(u)
    BY <1>0, <2>1 DEF Held
  <2>3. \/ pc'[t] \notin Making \cup Inserting
        \/ pc[t] \in Making \cup Inserting /\ mine'[t] = mine[t]
        \/ owner[t] # 0 /\ mine'[t] = owner[t]
    <3>1. CASE LinkProducer(t) \/ ListProducer(t)
      BY <3>1 DEF LinkProducer, ListProducer, Types, Goto, locals
    <3> QED BY <1>2, <3>1, ListStep DEF Types, Places
  <2>4. owner'[t] = owner[t] \/ (pc[t] \in Inserting /\ owner'[t] = mine[t])
    BY OwnerStays DEF OwnEntry, Return, Leave, Goto
  <2>5. Held(t)' \subseteq Held(t)
    BY <1>0, <2>1, <2>3, <2>4 DEF Held
  <2> QED BY <1>0, <1>2, <2>1, <2>2, <2>5
<1> QED BY <1>1, <1>2

(* The list loses nothing, and no two threads share a producer. *)
LEMMA ProducersNext ==
  ASSUME Types, Entries, Newcomers, Arrivals, Producers, NEW t \in Threads, Call(t) \/ Work(t)
  PROVE  Producers'
<1>0. /\ \A u \in Threads \ {t} : /\ pc'[u] = pc[u] /\ mine'[u] = mine[u] /\ owner'[u] = owner[u]
                                  /\ prevTail'[u] = prevTail[u]
      /\ Made \in Nat /\ Made = Len(next) /\ DOMAIN next = 1 .. Made /\ listTail \in 0 .. Made
      /\ \A u \in Threads : owner[u] \in 0 .. Made /\ mine[u] \in 0 .. Made /\ prevTail[u] \in 0 .. Made
      /\ next \in Seq(Nat)
  <2>1. \A u \in Threads \ {t} : /\ pc'[u] = pc[u] /\ mine'[u] = mine[u] /\ owner'[u] = owner[u]
                                 /\ prevTail'[u] = prevTail[u]
    BY OthersStay
  <2>2. \A u \in Threads : owner[u] \in 0 .. Made /\ mine[u] \in 0 .. Made /\ prevTail[u] \in 0 .. Made
    BY ThreadTypes
  <2>3. Made = Len(next) /\ next \in Seq(Nat) /\ listTail \in 0 .. Made
    BY DEF Types, Made
  <2> QED BY <2>1, <2>2, <2>3
<1>1. \A u \in Threads : pc[u] \in Making \cup Inserting => mine[u] \in 1 .. Made /\ mine[u] \in Held(u)
  BY <1>0 DEF Arrivals, Held
<1>2. \A u, v \in Threads : u # v => Held(u)' \cap Held(v)' = {}
  <2>1. \A u \in Threads : Held(u) \subseteq 1 .. Made
    BY DEF Held
  <2> QED BY <1>0, <2>1, HeldNext, SMTT(60) DEF Producers
(* What the rest needs of a step. *)
<1> DEFINE Fine ==
      /\ Linked \subseteq Linked' /\ listTail' \in Linked' \cup {0}
      /\ \A p \in Linked' : next'[p] \in Linked' \cup {0}
      /\ \A u \in Threads : pc'[u] \in Making => prevTail'[u] \in Linked' \cup {0}
      /\ \A u \in Threads : pc'[u] = "exchange" => next'[mine'[u]] = prevTail'[u]
      /\ Listed \subseteq Listed'
      /\ ListProducer(t) => mine'[t] \in Listed'
<1>3. ASSUME CreateProducer(t) PROVE Fine
  <2>1. /\ next' = Append(next, 0) /\ mine'[t] = Made + 1 /\ prevTail'[t] = listTail
        /\ listTail' = listTail /\ pc'[t] = "link" /\ pc[t] = "room"
    BY <1>3 DEF CreateProducer, Types, Goto
  <2>2. /\ Made' = Made + 1 /\ Len(next') = Made + 1
        /\ \A p \in 1 .. Made : next'[p] = next[p]
    BY <1>0, <2>1 DEF Made
  <2>3. Linked' = Linked
    <3>1. \A p \in 1 .. Made + 1 : p \in Linked' <=> p \in Linked
      <4>1. \A p \in 1 .. Made + 1 : p \in Linked' <=>
              \A u \in Threads : pc'[u] \in Making => mine'[u] # p
        BY <2>2 DEF Linked
      <4>2. \A p \in 1 .. Made : p \in Linked <=> \A u \in Threads : pc[u] \in Making => mine[u] # p
        BY DEF Linked
      <4>3. Made + 1 \notin Linked /\ Made + 1 \notin Linked'
        BY <1>0, <2>1, <4>1 DEF Linked, Making
      <4>4. \A p \in 1 .. Made : \A u \in Threads :
              (pc'[u] \in Making => mine'[u] # p) <=> (pc[u] \in Making => mine[u] # p)
        BY <1>0, <2>1 DEF Making
      <4>5. \A p \in 1 .. Made : p \in 1 .. Made + 1
        BY <1>0
      <4>6. \A p \in 1 .. Made : p \in Linked' <=> p \in Linked
        BY <4>1, <4>2, <4>4, <4>5
      <4>7. \A p \in 1 .. Made + 1 : p \in 1 .. Made \/ p = Made + 1
        BY <1>0
      <4> QED BY <4>3, <4>6, <4>7
    <3>2. Linked \subseteq 1 .. Made /\ Linked' \subseteq 1 .. Made + 1 /\ 1 .. Made \subseteq 1 .. Made + 1
      BY <1>0, <2>2 DEF Linked
    <3> QED BY <3>1, <3>2
  <2>4. Listed \subseteq Listed'
    <3>1. /\ Linked \in SUBSET (1 .. Len(next)) /\ listTail \in Linked \cup {0}
          /\ \A p \in Linked : next[p] \in Linked \cup {0} /\ next'[p] = next[p]
      BY <1>0, <2>2 DEF Linked, Producers
    <3>2. Reachable(listTail, next) \subseteq Reachable(listTail, next')
      <4>1. Len(next) \in Nat /\ Len(next') \in Nat /\ Len(next) <= Len(next')
        BY <1>0, <2>2
      <4> QED BY <3>1, <4>1, ReachableKept
    <3> QED BY <2>1, <3>2 DEF Listed
  <2>5. \A p \in Linked : next'[p] \in Linked \cup {0}
    BY <1>0, <2>2 DEF Linked, Producers
  <2>6. \A u \in Threads : pc'[u] \in Making => prevTail'[u] \in Linked \cup {0}
    BY <1>0, <2>1 DEF Producers
  <2>7. \A u \in Threads : pc'[u] = "exchange" => next'[mine'[u]] = prevTail'[u]
    BY <1>0, <1>1, <2>1, <2>2, SMTT(60) DEF Producers, Making
  <2>8. ~ListProducer(t)
    BY <2>1 DEF ListProducer, Goto
  <2> QED BY <2>1, <2>3, <2>4, <2>5, <2>6, <2>7, <2>8 DEF Producers
<1>4. ASSUME LinkProducer(t) PROVE Fine
  <2>1. /\ next' = [next EXCEPT ![mine[t]] = prevTail[t]] /\ mine' = mine /\ prevTail' = prevTail
        /\ listTail' = listTail /\ pc'[t] = "exchange" /\ pc[t] = "link"
    BY <1>4 DEF LinkProducer, Types, Goto, locals
  <2>2. /\ mine[t] \in 1 .. Made /\ mine[t] \notin Linked
        /\ Len(next') = Made /\ next'[mine[t]] = prevTail[t]
        /\ \A p \in 1 .. Made \ {mine[t]} : next'[p] = next[p]
    BY <1>0, <1>1, <2>1 DEF Making, Linked
  <2>3. Linked' = Linked /\ Made' = Made
    <3>1. Made' = Made
      BY <1>0, <2>2 DEF Made
    <3>2. \A u \in Threads : pc'[u] \in Making <=> pc[u] \in Making
      BY <1>0, <2>1 DEF Making
    <3> QED BY <2>1, <3>1, <3>2 DEF Linked
  <2>4. \A p \in Linked : next'[p] = next[p] /\ next[p] \in Linked \cup {0}
    BY <2>2 DEF Linked, Producers
  <2>5. Listed \subseteq Listed'
    <3>1. Linked \in SUBSET (1 .. Len(next)) /\ listTail \in Linked \cup {0}
      BY <1>0 DEF Linked, Producers
    <3>2. Reachable(listTail, next) \subseteq Reachable(listTail, next')
      <4>1. Len(next) \in Nat /\ Len(next') \in Nat /\ Len(next) <= Len(next')
        BY <1>0, <2>2
      <4> QED BY <2>4, <3>1, <4>1, ReachableKept
    <3> QED BY <2>1, <3>2 DEF Listed
  <2>6. \A u \in Threads \ {t} : pc[u] = "exchange" => mine[u] # mine[t]
    BY <1>1, <2>1 DEF Producers, Making
  <2>7. \A u \in Threads : pc'[u] = "exchange" => next'[mine'[u]] = prevTail'[u]
    BY <1>0, <1>1, <2>1, <2>2, <2>6 DEF Producers, Making
  <2>8. \A u \in Threads : pc'[u] \in Making => prevTail'[u] \in Linked \cup {0}
    BY <1>0, <2>1 DEF Producers, Making
  <2>9. ~ListProducer(t)
    BY <2>1 DEF ListProducer, Goto
  <2> QED BY <2>1, <2>3, <2>4, <2>5, <2>7, <2>8, <2>9 DEF Producers
<1>5. ASSUME ListProducer(t) PROVE Fine
  <2>1. /\ next' = next /\ mine' = mine /\ listTail' = mine[t] /\ listTail = prevTail[t]
        /\ pc'[t] = "insert" /\ pc[t] = "exchange"
    BY <1>5 DEF ListProducer, Types, Goto, TailUnchanged
  <2>2. mine[t] \in 1 .. Made /\ next[mine[t]] = listTail
    BY <1>1, <2>1 DEF Producers, Making
  <2>3. \A u \in Threads \ {t} : pc[u] \in Making => mine[u] # mine[t]
    BY <1>1, <2>1 DEF Producers, Making
  <2>4. Linked' = Linked \cup {mine[t]} /\ Made' = Made
    BY <1>0, <2>1, <2>2, <2>3, SMTT(60) DEF Linked, Making, Made
  <2>5. Reachable(listTail, next) \subseteq Reachable(mine[t], next) /\ mine[t] \in Reachable(mine[t], next)
    BY <1>0, <2>2, ReachableAdded
  <2>6. Listed \subseteq Listed' /\ mine'[t] \in Listed'
    BY <2>1, <2>5 DEF Listed
  <2>7. \A p \in Linked' : next'[p] \in Linked' \cup {0}
    BY <2>1, <2>2, <2>4 DEF Producers
  <2>8. \A u \in Threads : pc'[u] \in Making => prevTail'[u] \in Linked' \cup {0}
    BY <1>0, <2>1, <2>4 DEF Producers, Making
  <2>9. \A u \in Threads : pc'[u] = "exchange" => next'[mine'[u]] = prevTail'[u]
    BY <1>0, <2>1 DEF Producers, Making
  <2> QED BY <2>1, <2>4, <2>6, <2>7, <2>8, <2>9
<1>6. ASSUME ~ListProducer(t), next' = next, listTail' = listTail, pc'[t] # "exchange",
             pc'[t] = "link" => pc[t] = "exchange" /\ mine'[t] = mine[t] /\ prevTail'[t] = listTail,
             pc[t] \in Making => pc'[t] = "link"
      PROVE  Fine
  <2>1. Made' = Made /\ Linked' = Linked
    <3>1. Made' = Made
      BY <1>6 DEF Made
    <3>2. \A u \in Threads : pc'[u] \in Making <=> pc[u] \in Making
      BY <1>0, <1>6 DEF Making
    <3>3. \A u \in Threads : pc[u] \in Making => mine'[u] = mine[u]
      BY <1>0, <1>6 DEF Making
    <3> QED BY <3>1, <3>2, <3>3, Zenon DEF Linked
  <2>2. Listed' = Listed
    BY <1>6 DEF Listed
  <2>3. \A u \in Threads : pc'[u] \in Making => prevTail'[u] \in Linked \cup {0}
    BY <1>0, <1>6 DEF Producers, Making
  <2>4. \A u \in Threads : pc'[u] = "exchange" => next'[mine'[u]] = prevTail'[u]
    BY <1>0, <1>6 DEF Producers, Making
  <2> QED BY <1>6, <2>1, <2>2, <2>3, <2>4 DEF Producers
<1>7. Fine
  BY <1>3, <1>4, <1>5, <1>6, ListStep
<1> HIDE DEF Fine
<1>8. \A u \in Threads : owner'[u] # 0 => owner'[u] \in Listed'
  <2>1. \A u \in Threads : owner'[u] # 0 =>
          (owner[u] = owner'[u] \/ (pc[u] \in Inserting /\ owner'[u] = mine[u]))
    BY <1>0, OwnerStays DEF OwnEntry, Return, Leave, Goto, Inserting
  <2> QED BY <1>7, <2>1 DEF Fine, Producers
<1>9. ASSUME NEW u \in Threads, pc'[u] \in Inserting
      PROVE  mine'[u] \in Listed'
  <2>1. \/ pc[u] \in Inserting /\ mine'[u] = mine[u]
        \/ owner[u] # 0 /\ mine'[u] = owner[u]
        \/ u = t /\ ListProducer(t)
    BY <1>0, <1>9, ListStep, ZenonT(60) DEF CreateProducer, LinkProducer, Goto, Inserting, Types
  <2> QED BY <1>7, <2>1 DEF Fine, Producers
<1> QED BY <1>2, <1>7, <1>8, <1>9 DEF Producers, Fine
--------------------------------------------------------------------------------
(* The reservations. *)

LEMMA SparseSubset ==
  ASSUME NEW T, IsFiniteSet(T), NEW S \in SUBSET T, NEW rank, Sparse(T, rank)
  PROVE  Sparse(S, rank)
<1> SUFFICES ASSUME NEW k \in Nat
             PROVE  Cardinality({t \in S : rank[t] <= k}) <= k
  BY DEF Sparse
<1> DEFINE A == {t \in S : rank[t] <= k}
           B == {t \in T : rank[t] <= k}
<1>1. A \subseteq B /\ B \subseteq T /\ Cardinality(B) <= k
  BY DEF Sparse
<1> HIDE DEF A, B
<1>2. IsFiniteSet(B)
  BY <1>1, FS_Subset
<1>3. Cardinality(A) <= Cardinality(B) /\ Cardinality(A) \in Nat /\ Cardinality(B) \in Nat
  BY <1>1, <1>2, FS_Subset, FS_CardinalityType
<1>4. Cardinality(A) <= k
  BY <1>1, <1>3
<1> QED BY <1>4 DEF A

(* A new member whose rank is the number of members. *)
LEMMA SparseAdd ==
  ASSUME NEW S, IsFiniteSet(S), NEW t, t \notin S, NEW D, S \cup {t} \subseteq D,
         NEW rank \in [D -> Nat], Sparse(S, rank)
  PROVE  Sparse(S \cup {t}, [rank EXCEPT ![t] = Cardinality(S) + 1])
<1> DEFINE T == S \cup {t}
           rank2 == [rank EXCEPT ![t] = Cardinality(S) + 1]
<1>1. IsFiniteSet(T) /\ Cardinality(T) = Cardinality(S) + 1 /\ Cardinality(S) \in Nat
  BY FS_AddElement, FS_CardinalityType
<1>2. ASSUME NEW k \in Nat
      PROVE  Cardinality({u \in T : rank2[u] <= k}) <= k
  <2> DEFINE A == {u \in T : rank2[u] <= k}
  <2>1. CASE k < Cardinality(S) + 1
    <3>1. A = {u \in S : rank[u] <= k}
      BY <1>1, <2>1
    <3> QED BY <3>1 DEF Sparse
  <2>2. CASE k >= Cardinality(S) + 1
    <3>1. A \subseteq T
      OBVIOUS
    <3> HIDE DEF A, T
    <3>2. Cardinality(A) <= Cardinality(T) /\ Cardinality(A) \in Nat
      BY <1>1, <3>1, FS_Subset, FS_CardinalityType
    <3>3. Cardinality(A) <= k
      BY <1>1, <2>2, <3>2
    <3> QED BY <3>3 DEF A, T
  <2> QED BY <1>1, <2>1, <2>2
<1> QED BY <1>2 DEF Sparse

LEMMA CountedIsFinite ==
  /\ IsFiniteSet(Counted) /\ IsFiniteSet(Threads) /\ Cardinality(Counted) \in Nat
  /\ Cardinality(Counted) <= Cardinality(Threads) /\ Cardinality(Threads) \in Nat
<1>1. Counted \subseteq Threads
  BY DEF Counted
<1> QED BY <1>1, ThreadsAssumption, FS_Subset, FS_CardinalityType

(* Who is counted, in a step. *)
LEMMA CountedStep ==
  ASSUME Types, Entries, Newcomers, Arrivals, NEW t \in Threads, Call(t) \/ Work(t)
  PROVE  \/ CountIn(t) /\ t \notin Counted /\ Counted' = Counted \cup {t} /\ count' = count + 1
         \/ ~CountIn(t) /\ t \in Counted /\ Counted' = Counted \ {t} /\ count' = count - 1
         \/ ~CountIn(t) /\ Counted' = Counted /\ count' = count
<1> DEFINE S == Waiting \cup Making \cup Inserting
<1>1. \A u \in Threads \ {t} : u \in Counted' <=> u \in Counted
  BY OthersStay DEF Counted
<1>2. /\ t \in Counted' <=> owner'[t] # 0 \/ pc'[t] \in S
      /\ t \in Counted <=> owner[t] # 0 \/ pc[t] \in S
  BY DEF Counted
<1>3. Counted \subseteq Threads /\ Counted' \subseteq Threads
  BY DEF Counted
<1> USE DEF memory, locals, Goto, Restart, Advance, Reload, Leave, Return, Fail,
            Waiting, Making, Inserting
<1>4. CASE CountIn(t)
  <2>1. pc[t] = "count" /\ pc'[t] = "lock" /\ count' = count + 1
    BY <1>4 DEF CountIn, Types
  <2>2. owner[t] = 0
    BY <2>1 DEF Newcomers
  <2>3. t \notin Counted /\ t \in Counted'
    BY <1>2, <2>1, <2>2
  <2> QED BY <1>1, <1>3, <1>4, <2>1, <2>3
<1>5. CASE TableFails(t) \/ CreateFails(t)
  <2>1. /\ pc[t] \in {"publish", "room"} /\ pc'[t] \in {"giveup", "idle"} /\ count' = count - 1
        /\ owner' = owner /\ ~CountIn(t)
    BY <1>5 DEF TableFails, CreateFails, CountIn, Types
  <2>2. owner[t] = 0
    BY <2>1 DEF Newcomers
  <2>3. t \in Counted /\ t \notin Counted'
    BY <1>2, <2>1, <2>2
  <2> QED BY <1>1, <1>3, <2>1, <2>3
<1>6. CASE ~CountIn(t) /\ ~TableFails(t) /\ ~CreateFails(t)
  <2>1. count' = count
    BY <1>6 DEF Work, Call, Search, Find, FindOlder, NextTable, NextSlot, Resize, TryLock,
                LoadNewest, PublishTable, Unlock, Create, CreateProducer, WaitForTable,
                LinkProducer, ListProducer, ReloadTail, Insert, ProbeFree, PassOver, OwnEntry
  <2>2. t \in Counted' <=> t \in Counted
    <3>1. CASE OwnEntry(t)
      <4>1. owner'[t] # 0 /\ pc[t] = "own"
        BY <3>1, OwnerStays DEF OwnEntry
      <4> QED BY <1>2, <4>1
    <3>2. CASE FindOlder(t)
      <4>1. owner[t] # 0 /\ owner' = owner
        <5>1. hash[t] # 0 /\ hash[t] \in 0 .. mainHash[t] /\ mainHash[t] \in 0 .. Len(tables)
              /\ Len(tables) \in Nat /\ Key(t, hash[t]) = t
          BY <3>2, ThreadTypes DEF Types, FindOlder
        <5>2. hash[t] \in 1 .. Len(tables)
          BY <5>1
        <5> QED BY <3>2, <5>1, <5>2, FoundIsOwn DEF FindOlder
      <4> QED BY <1>2, <4>1
    <3>3. CASE ~OwnEntry(t) /\ ~FindOlder(t)
      <4>1. owner' = owner
        BY <3>3, OwnerStays
      <4>2. pc'[t] \in S <=> pc[t] \in S
        BY <1>6, <3>3, SMTT(60) DEF Types, Work, Call, Search, Find, NextTable, NextSlot, Resize, TryLock,
                LoadNewest, PublishTable, Unlock, Create, CreateProducer, WaitForTable,
                LinkProducer, ListProducer, ReloadTail, Insert, ProbeFree, PassOver
      <4> QED BY <1>2, <4>1, <4>2
    <3> QED BY <3>1, <3>2, <3>3
  <2> QED BY <1>1, <1>3, <1>6, <2>1, <2>2
<1> QED BY <1>4, <1>5, <1>6

LEMMA NewCountStep ==
  ASSUME Types, NEW t \in Threads, Call(t) \/ Work(t), ~CountIn(t)
  PROVE  /\ pc'[t] \in Waiting => pc[t] \in Waiting /\ newCount'[t] = newCount[t]
         /\ newCount'[t] \in {newCount[t], 0}
BY DEF Types, Waiting, memory, locals, Goto, Restart, Advance, Reload, Leave, Return, Fail,
       Work, Call, Search, Find, FindOlder, NextTable, NextSlot, Resize, TryLock, LoadNewest,
       PublishTable, TableFails, Unlock, Create, CreateProducer, CreateFails, WaitForTable,
       LinkProducer, ListProducer, ReloadTail, Insert, ProbeFree, PassOver, OwnEntry

(* A thread comes to need an entry of a table where it created a producer, *)
(* or found its own in an older one.                                       *)
LEMMA ReservedStep ==
  ASSUME Types, Entries, Newcomers, Arrivals, NEW t \in Threads, Call(t) \/ Work(t),
         NEW u \in Threads, NEW n \in 1 .. Len(tables'), Reserved(u, n)'
  PROVE  /\ n \in 1 .. Len(tables)
         /\ \/ Reserved(u, n)
            \/ u = t /\ n = mainHash[t] /\ (CreateProducer(t) \/ FindOlder(t))
         /\ ~(u = t /\ CountIn(t))
<1> USE DEF Making, Inserting
<1>0. /\ Len(tables) \in Nat /\ Len(tables') \in Nat
      /\ mainHash[u] \in 0 .. Len(tables)
      /\ InTable(tables'[n], u) \/ (pc'[u] \in Making \cup Inserting /\ mainHash'[u] = n)
  BY ThreadTypes, TablesStay DEF Reserved
<1>1. CASE u # t
  <2>1. pc'[u] = pc[u] /\ mainHash'[u] = mainHash[u]
    BY <1>1, OthersStay
  <2>2. n \in 1 .. Len(tables)
    <3>1. ASSUME n \in Len(tables) + 1 .. Len(tables') PROVE ~InTable(tables'[n], u)
      BY <3>1, NewTableIsEmpty, Zenon
    <3> QED BY <1>0, <2>1, <3>1
  <2>3. InTable(tables'[n], u) <=> InTable(tables[n], u)
    BY <1>1, <2>2, OthersInTable
  <2> QED BY <1>0, <1>1, <2>1, <2>2, <2>3 DEF Reserved
<1>2. CASE u = t /\ OwnEntry(t)
  <2>1. /\ pc'[t] = "idle" /\ pc[t] = "own" /\ Len(tables') = Len(tables)
        /\ mainHash[t] \in 1 .. Len(tables)
    BY <1>2, TablesStay, TablesStep DEF OwnEntry, Return, Leave, Goto, Types
  <2>2. n # mainHash[t] => tables'[n] = tables[n]
    BY <1>2, <2>1, TablesStay
  <2> QED BY <1>0, <1>2, <2>1, <2>2 DEF Reserved, CountIn, Goto
<1>3. CASE u = t /\ PublishTable(t)
  <2>1. pc'[t] = "unlock"
    BY <1>3 DEF PublishTable, Goto, Types
  <2>2. n \in 1 .. Len(tables)
    <3>1. n \in Len(tables) + 1 .. Len(tables') => ~InTable(tables'[n], t)
      BY TablesStay
    <3> QED BY <1>0, <1>3, <2>1, <3>1
  <2>3. tables'[n] = tables[n]
    BY <1>3, <2>2, TablesStep, TablesStay
  <2> QED BY <1>0, <1>3, <2>1, <2>2, <2>3 DEF Reserved, PublishTable, CountIn, Goto
<1>4. CASE u = t /\ ~OwnEntry(t) /\ ~PublishTable(t)
  <2>1. tables' = tables /\ n \in 1 .. Len(tables)
    BY <1>0, <1>4, TablesStep
  <2>2. CASE InTable(tables[n], t)
    <3>1. owner[t] # 0
      BY <2>1, <2>2, ThreadTypes, NotEntered DEF Entries
    <3>2. ~CountIn(t)
      BY <3>1 DEF Newcomers, CountIn, Goto
    <3> QED BY <1>4, <2>1, <2>2, <3>2 DEF Reserved
  <2>3. CASE pc'[t] \in Making \cup Inserting /\ mainHash'[t] = n
    <3>1. /\ ~CountIn(t)
          /\ mainHash'[t] = mainHash[t]
          /\ pc[t] \in Making \cup Inserting \/ CreateProducer(t) \/ FindOlder(t)
      <4> USE DEF memory, locals, Goto, Restart, Advance, Reload, Leave, Return, Fail
      <4>1. CASE Call(t) \/ Search(t) \/ CountIn(t) \/ Resize(t)
        BY <1>4, <2>3, <4>1 DEF Types, Call, Search, Find, FindOlder, NextTable, NextSlot, CountIn,
              Resize, TryLock, LoadNewest, TableFails, Unlock
      <4>2. CASE Create(t) \/ Insert(t)
        BY <1>4, <2>3, <4>2 DEF Types, CountIn, Create, CreateProducer, CreateFails, WaitForTable,
              LinkProducer, ListProducer, ReloadTail, Insert, ProbeFree, PassOver
      <4> QED BY <4>1, <4>2 DEF Work
    <3> QED BY <1>4, <2>1, <2>3, <3>1 DEF Reserved
  <2> QED BY <1>0, <1>4, <2>1, <2>2, <2>3
<1> QED BY <1>1, <1>2, <1>3, <1>4

(* The ranks that prove that there is room. *)
LEMMA RanksNext ==
  ASSUME Types, Lock, Entries, Searching, Newcomers, Arrivals, Ranks,
         NEW t \in Threads, Call(t) \/ Work(t)
  PROVE  Ranks'
<1>0. /\ \A u \in Threads \ {t} : pc'[u] = pc[u] /\ newCount'[u] = newCount[u]
      /\ Len(tables) \in Nat /\ DOMAIN tables = 1 .. Len(tables) /\ DOMAIN tables' = 1 .. Len(tables')
      /\ \A n \in 1 .. Len(tables) : tables'[n].capacity = tables[n].capacity
      /\ \A n \in 1 .. Len(tables) : Quota(tables'[n]) = Quota(tables[n])
  BY OthersStay, ThreadTypes, TablesStay DEF Quota
<1>1. PICK rank \in [Threads -> Nat] : Ranked(rank)
  BY DEF Ranks
<1>2. /\ IsFiniteSet(Counted) /\ Counted \subseteq Threads
      /\ count = Cardinality(Counted) /\ count \in Nat
      /\ Cardinality(Counted') <= Cardinality(Threads)
      /\ Cardinality(Threads) \in Nat
  <2>1. Counted \subseteq Threads /\ Counted' \subseteq Threads
    BY DEF Counted
  <2> QED BY <2>1, CountedIsFinite, ThreadsAssumption, FS_Subset DEF Ranks
<1>3. CASE CountIn(t) /\ t \notin Counted /\ Counted' = Counted \cup {t} /\ count' = count + 1
  <2>0. [rank EXCEPT ![t] = count + 1] \in [Threads -> Nat]
    BY <1>2
  <2> PICK rank2 \in [Threads -> Nat] : rank2 = [rank EXCEPT ![t] = count + 1]
    BY <2>0
  <2>1. count' = Cardinality(Counted')
    BY <1>2, <1>3, FS_AddElement
  <2>2. newCount'[t] = count + 1 /\ pc'[t] = "lock" /\ count + 1 <= Cardinality(Threads)
    BY <1>2, <1>3, <2>1 DEF CountIn, Goto, Types
  <2>3. Sparse(Counted', rank2)
    <3>1. Sparse(Counted, rank)
      BY <1>1 DEF Ranked
    <3> QED BY <1>2, <1>3, <3>1, SparseAdd
  <2>4. rank2 \in [Threads -> Nat] /\ rank2[t] = count + 1 /\ \A u \in Threads \ {t} : rank2[u] = rank[u]
    BY <1>2
  <2>5. \A u \in Threads : pc'[u] \in Waiting => rank2[u] = newCount'[u]
    BY <1>0, <1>1, <2>2, <2>4 DEF Ranked
  <2>6. ASSUME NEW u \in Threads, NEW n \in 1 .. Len(tables'), Reserved(u, n)'
        PROVE  rank2[u] < Quota(tables'[n])
    <3>1. n \in 1 .. Len(tables) /\ u # t
      BY <1>3, <2>6, ReservedStep
    <3>2. Reserved(u, n)
      BY <2>6, <3>1, ReservedStep
    <3> QED BY <1>0, <1>1, <2>4, <3>1, <3>2 DEF Ranked
  <2>7. Ranked(rank2)'
    BY <1>0, <2>3, <2>5, <2>6 DEF Ranked
  <2>8. \A u \in Threads : newCount'[u] \in 0 .. Cardinality(Threads)
    BY <1>0, <1>2, <2>2 DEF Ranks
  <2> QED BY <2>1, <2>4, <2>7, <2>8 DEF Ranks
<1>4. CASE ~CountIn(t) /\ Counted' \subseteq Counted /\ count' = Cardinality(Counted')
  <2>1. Sparse(Counted', rank)
    <3>1. Sparse(Counted, rank)
      BY <1>1 DEF Ranked
    <3> QED BY <1>2, <1>4, <3>1, SparseSubset
  <2>2. \A u \in Threads : pc'[u] \in Waiting => rank[u] = newCount'[u]
    BY <1>0, <1>1, <1>4, NewCountStep DEF Ranked
  <2>3. ASSUME NEW u \in Threads, NEW n \in 1 .. Len(tables'), Reserved(u, n)'
        PROVE  rank[u] < Quota(tables'[n])
    <3>1. n \in 1 .. Len(tables)
      BY <2>3, ReservedStep
    <3>2. CASE Reserved(u, n)
      BY <1>0, <1>1, <3>1, <3>2 DEF Ranked
    <3>3. CASE u = t /\ n = mainHash[t] /\ CreateProducer(t)
      <4>1. pc[t] = "room" /\ newCount[t] < Quota(tables[n])
        BY <3>3 DEF CreateProducer, Goto, Room, Quota, Capacity
      <4>2. rank[t] = newCount[t]
        BY <1>1, <4>1 DEF Ranked, Waiting
      <4> QED BY <1>0, <3>1, <3>3, <4>1, <4>2
    <3>4. CASE u = t /\ n = mainHash[t] /\ FindOlder(t)
      <4> DEFINE m == hash[t]
      <4>1. m \in 1 .. Len(tables) /\ m <= n /\ Key(t, m) = t
        <5>1. /\ hash[t] # 0 /\ hash[t] \in 0 .. mainHash[t] /\ mainHash[t] \in 0 .. Len(tables)
              /\ Key(t, m) = t
          BY <3>4, ThreadTypes DEF Types, FindOlder
        <5> QED BY <1>0, <3>4, <5>1
      <4>2. Reserved(t, m)
        BY <4>1, ThreadTypes DEF Reserved, InTable, Key, Capacity
      <4>3. rank[t] < Quota(tables[m])
        BY <1>0, <1>1, <4>1, <4>2 DEF Ranked
      <4>4. tables[m].capacity <= tables[n].capacity
        BY <1>0, <3>1, <4>1 DEF Entries, Capacity
      <4>5. tables[m].capacity \in Nat /\ tables[n].capacity \in Nat
        BY <3>1, <4>1, ThreadTypes DEF Capacity
      <4>6. Quota(tables[m]) <= Quota(tables[n]) /\ Quota(tables[m]) \in Nat /\ Quota(tables[n]) \in Nat
        <5> DEFINE a == tables[m].capacity
                   b == tables[n].capacity
        <5>1. a \div 2 + a \div 4 <= b \div 2 + b \div 4 /\ a \div 2 + a \div 4 \in Nat
              /\ b \div 2 + b \div 4 \in Nat
          <6> HIDE DEF a, b
          <6>1. a \in Nat /\ b \in Nat /\ a <= b
            BY <4>4, <4>5 DEF a, b
          <6> QED BY <6>1
        <5> QED BY <5>1 DEF Quota
      <4>7. rank[t] < Quota(tables[n])
        BY <1>1, <4>3, <4>6
      <4> QED BY <1>0, <3>1, <3>4, <4>7
    <3> QED BY <2>3, <3>2, <3>3, <3>4, ReservedStep
  <2>4. Ranked(rank)'
    BY <1>0, <2>1, <2>2, <2>3 DEF Ranked
  <2>5. \A u \in Threads : newCount'[u] \in 0 .. Cardinality(Threads)
    BY <1>0, <1>2, <1>4, NewCountStep, SMTT(60) DEF Ranks
  <2> QED BY <1>1, <1>4, <2>4, <2>5 DEF Ranks
<1>5. CASE ~CountIn(t) /\ t \in Counted /\ Counted' = Counted \ {t} /\ count' = count - 1
  <2>1. count' = Cardinality(Counted')
    BY <1>2, <1>5, FS_RemoveElement
  <2> QED BY <1>4, <1>5, <2>1
<1>6. CASE ~CountIn(t) /\ Counted' = Counted /\ count' = count
  BY <1>2, <1>4, <1>6
<1> QED BY <1>3, <1>5, <1>6, CountedStep
--------------------------------------------------------------------------------
(* The inductive invariant. *)
HashInv ==
  Types /\ Lock /\ Entries /\ Searching /\ Newcomers /\ Arrivals /\ Producers /\ Ranks

LEMMA HashInvInit == Init => HashInv
<1> SUFFICES ASSUME Init PROVE HashInv
  OBVIOUS
<1>1. Types
  BY TypesInit
<1>2. /\ tables = <<EmptyTable(InitialCapacity)>> /\ DOMAIN tables = {1} /\ Len(tables) = 1
      /\ \A t \in Threads : /\ pc[t] = "idle" /\ owner[t] = 0 /\ newCount[t] = 0
                            /\ ~InTable(tables[1], t)
  BY CapacityAssumption, EmptyTableFacts DEF Init, Nowhere
<1>3. Lock
  BY <1>2 DEF Lock, Resizing
<1>4. Entries
  <2>1. tables[1].capacity = InitialCapacity
    BY <1>2 DEF EmptyTable
  <2>2. \A t \in Threads : Entry(tables[1], t, hashedId[t], owner[t])
    BY <1>2, NotEntered
  <2> QED BY <1>2, <2>1, <2>2, CapacityAssumption DEF Entries, Capacity
<1>5. Searching /\ Newcomers /\ Arrivals
  BY <1>2 DEF Searching, Newcomers, Arrivals, Waiting, Making, Inserting
<1>6. Producers
  <2>1. listTail = 0 /\ Made = 0 /\ 1 .. Made = {}
    BY DEF Init, Made
  <2>2. Linked = {} /\ \A t \in Threads : Held(t) = {}
    BY <2>1 DEF Linked, Held
  <2> QED BY <1>2, <2>1, <2>2 DEF Producers, Making, Inserting
<1>7. Ranks
  <2>1. Counted = {} /\ Cardinality({}) = 0 /\ count = 0
    BY <1>2, FS_EmptySet DEF Counted, Waiting, Making, Inserting, Init
  <2> DEFINE rank == [t \in Threads |-> 0]
  <2>2. Sparse({}, rank)
    <3>1. \A k \in Nat : {t \in {} : rank[t] <= k} = {}
      OBVIOUS
    <3> QED BY <2>1, <3>1 DEF Sparse
  <2>3. Ranked(rank)
    <3>1. \A t \in Threads, n \in DOMAIN tables : ~Reserved(t, n)
      BY <1>2 DEF Reserved, Making, Inserting
    <3>2. \A t \in Threads : pc[t] \notin Waiting
      BY <1>2 DEF Waiting
    <3> HIDE DEF rank
    <3> QED BY <2>1, <2>2, <3>1, <3>2 DEF Ranked
  <2>4. rank \in [Threads -> Nat]
    OBVIOUS
  <2>5. \A t \in Threads : newCount[t] \in 0 .. Cardinality(Threads)
    BY <1>2, CountedIsFinite
  <2> QED BY <2>1, <2>3, <2>4, <2>5 DEF Ranks
<1> QED BY <1>1, <1>3, <1>4, <1>5, <1>6, <1>7 DEF HashInv

LEMMA HashInvNext == HashInv /\ [Next]_vars => HashInv'
<1> SUFFICES ASSUME HashInv, [Next]_vars PROVE HashInv'
  OBVIOUS
<1>1. ASSUME NEW t \in Threads, Call(t) \/ Work(t)
      PROVE  HashInv'
  BY <1>1, TypesNext, LockNext, EntriesNext, SearchingNext, NewcomersNext, ArrivalsNext,
     ProducersNext, RanksNext DEF HashInv
<1>2. CASE UNCHANGED vars
  <2>1. Types'
    BY <1>2 DEF HashInv, Types, vars, Capacity, Made
  <2>2. Lock' /\ Entries'
    BY <1>2 DEF HashInv, Lock, Entries, vars, Capacity, HalfFull
  <2>3. Searching' /\ Newcomers' /\ Arrivals'
    BY <1>2 DEF HashInv, Searching, Newcomers, Arrivals, vars
  <2>4. Producers'
    BY <1>2 DEF HashInv, Producers, vars, Linked, Held, Listed, Made
  <2>5. Ranks'
    BY <1>2 DEF HashInv, Ranks, Ranked, Reserved, Counted, vars
  <2> QED BY <2>1, <2>2, <2>3, <2>4, <2>5 DEF HashInv
<1> QED BY <1>1, <1>2 DEF Next, Done

(* In every state. *)
THEOREM HashHasInv == Spec => []HashInv
BY HashInvInit, HashInvNext, PTL DEF Spec

(***************************************************************************)
(* Every variable has its type: implicitProducerHashCount stays between 0  *)
(* and the number of threads, however the allocations fail.                *)
(***************************************************************************)
THEOREM HashTypeOK == Spec => []TypeOK
<1>1. HashInv => TypeOK
  <2> SUFFICES ASSUME HashInv PROVE TypeOK
    OBVIOUS
  <2>1. Types /\ Ranks
    BY DEF HashInv
  <2>2. ASSUME NEW n \in DOMAIN tables
        PROVE  /\ tables[n].key \in [0 .. Capacity(n) - 1 -> Threads \cup {NoThread}]
               /\ tables[n].value \in [0 .. Capacity(n) - 1 -> 0 .. Made]
    <3>1. tables[n] \in Table
      BY <2>1 DEF Types
    <3>2. /\ tables[n].key \in [0 .. Capacity(n) - 1 -> Threads \cup {NoThread}]
          /\ tables[n].value \in [0 .. Capacity(n) - 1 -> Nat]
      BY <3>1, TableFacts DEF Capacity
    <3>3. \A i \in 0 .. Capacity(n) - 1 : tables[n].value[i] \in 0 .. Made
      BY <2>1 DEF Types
    <3> QED BY <3>2, <3>3
  <2>3. count \in 0 .. Cardinality(Threads)
    BY <2>1, CountedIsFinite DEF Ranks
  <2>4. newCount \in [Threads -> 0 .. Cardinality(Threads)]
    BY <2>1 DEF Types, Ranks
  <2> QED BY <2>1, <2>2, <2>3, <2>4 DEF TypeOK, Types
<1> QED BY <1>1, HashHasInv, PTL

(***************************************************************************)
(* The producer that a thread enqueues to is its own, and consumers find   *)
(* it from producerListTail on (concurrentqueue.h:3074-3078).              *)
(***************************************************************************)
THEOREM HashListsProducers == Spec => []ProducersAreListed
<1>1. HashInv => ProducersAreListed
  <2> SUFFICES ASSUME HashInv, NEW t \in Threads, owner[t] # 0
               PROVE  owner[t] \in Listed /\ \A u \in Threads \ {t} : owner[u] # owner[t]
    BY DEF ProducersAreListed
  <2>1. Types /\ Producers
    BY DEF HashInv
  <2>2. owner[t] \in 1 .. Made
    BY <2>1 DEF Types
  <2>3. \A u \in Threads : owner[u] = owner[t] => owner[t] \in Held(u)
    BY <2>2 DEF Held
  <2> QED BY <2>1, <2>3 DEF Producers
<1> QED BY <1>1, HashHasInv, PTL

(***************************************************************************)
(* Between calls implicitProducerHashCount is the number of threads that   *)
(* have a producer: every failure takes its reservation back, once.        *)
(***************************************************************************)
THEOREM HashCountIsExact == Spec => []CountIsExact
<1>1. HashInv => CountIsExact
  BY DEF HashInv, Ranks, CountIsExact, Counted, Waiting, Making, Inserting
<1> QED BY <1>1, HashHasInv, PTL

(***************************************************************************)
(* get_or_add_implicit_producer gives a thread the same producer in every  *)
(* call, however the tables grow (3208-3210).                              *)
(***************************************************************************)
THEOREM HashOneProducer == Spec => OneProducerPerThread
<1>1. HashInv /\ [Next]_vars => [\A t \in Threads : owner[t] # 0 => owner'[t] = owner[t]]_vars
  <2> SUFFICES ASSUME HashInv, Next, NEW t \in Threads, owner[t] # 0
               PROVE  owner'[t] = owner[t] \/ UNCHANGED vars
    OBVIOUS
  <2>1. ASSUME NEW u \in Threads, Call(u) \/ Work(u)
        PROVE  owner'[t] = owner[t]
    BY <2>1, OthersStay, OwnerStays DEF HashInv
  <2> QED BY <2>1 DEF Next, Done
<1> QED BY <1>1, HashHasInv, PTL DEF Spec, OneProducerPerThread

(***************************************************************************)
(* Every table keeps an empty entry, also after all who are on their way   *)
(* into it have arrived (3224, 3231-3233): a search ends.  The threads     *)
(* that have or need an entry of it have ranks below its quota, and fewer  *)
(* than the quota have such ranks.                                         *)
(***************************************************************************)
THEOREM HashTablesHaveRoom == Spec => []TablesHaveRoom
<1>1. HashInv => TablesHaveRoom
  <2> SUFFICES ASSUME HashInv, NEW n \in DOMAIN tables
               PROVE  Cardinality({i \in 0 .. Capacity(n) - 1 : tables[n].key[i] # NoThread})
                        + Cardinality(Entering(n)) < Capacity(n)
    BY DEF TablesHaveRoom
  <2> DEFINE Used == {i \in 0 .. Capacity(n) - 1 : tables[n].key[i] # NoThread}
             In   == {t \in Threads : InTable(tables[n], t)}
             E    == Entering(n)
  <2>1. Types /\ Entries /\ Arrivals /\ Ranks
    BY DEF HashInv
  <2>2. /\ tables[n] \in Table /\ Capacity(n) \in Nat \ {0}
        /\ tables[n].key \in [0 .. Capacity(n) - 1 -> Threads \cup {NoThread}]
        /\ NoThread \notin Threads /\ Quota(tables[n]) \in Nat /\ Quota(tables[n]) < Capacity(n)
    <3>1. tables[n] \in Table
      BY <2>1 DEF Types
    <3>2. /\ tables[n].capacity \in Nat \ {0}
          /\ tables[n].key \in [0 .. tables[n].capacity - 1 -> Threads \cup {NoThread}]
      BY <3>1, TableFacts
    <3>3. \A c \in Nat \ {0} : c \div 2 + c \div 4 \in Nat /\ c \div 2 + c \div 4 < c
      OBVIOUS
    <3> QED BY <3>1, <3>2, <3>3, ThreadsAssumption DEF Capacity, Quota
  <2>3. \A t \in Threads : Entry(tables[n], t, hashedId[t], owner[t])
    BY <2>1 DEF Entries
  <2>4. IsFiniteSet(In) /\ IsFiniteSet(E)
    <3>1. In \subseteq Threads /\ E \subseteq Threads
      BY DEF Entering
    <3> QED BY <3>1, ThreadsAssumption, FS_Subset
  <2>5. IsFiniteSet(Used) /\ Cardinality(Used) <= Cardinality(In)
    <3> DEFINE f == [i \in Used |-> tables[n].key[i]]
    <3>1. \A i \in Used : f[i] \in In
      BY <2>2 DEF InTable, Capacity
    <3>2. \A i, k \in Used : f[i] = f[k] => i = k
      <4> SUFFICES ASSUME NEW i \in Used, NEW k \in Used, f[i] = f[k] PROVE i = k
        OBVIOUS
      <4>1. tables[n].key[i] \in Threads /\ tables[n].key[k] = tables[n].key[i]
        BY <2>2
      <4>2. Entry(tables[n], tables[n].key[i], hashedId[tables[n].key[i]], owner[tables[n].key[i]])
        BY <2>3, <4>1
      <4> QED BY <4>1, <4>2 DEF Entry, Capacity
    <3>3. f \in Injection(Used, In)
      <4>1. f \in [Used -> In]
        BY <3>1
      <4> HIDE DEF f, Used, In
      <4> QED BY <3>2, <4>1 DEF Injection, IsInjective
    <3> HIDE DEF f, Used, In
    <3> QED BY <2>4, <3>3, FS_Injection
  <2>6. In \cap E = {}
    BY <2>1 DEF Entering, Arrivals, Making, Inserting
  <2>7. PICK rank \in [Threads -> Nat] : Ranked(rank)
    BY <2>1 DEF Ranks
  <2>8. \A t \in In \cup E : t \in Counted /\ rank[t] < Quota(tables[n])
    <3>1. \A t \in In : owner[t] # 0 /\ Reserved(t, n)
      BY <2>3, NotEntered DEF Reserved
    <3>2. \A t \in E : t \in Counted /\ Reserved(t, n)
      BY DEF Entering, Reserved, Counted, Making, Inserting
    <3> QED BY <2>7, <3>1, <3>2 DEF Ranked, Counted
  <2>9. Cardinality(In \cup E) < Capacity(n) /\ Cardinality(In \cup E) \in Nat
    <3>1. CASE Quota(tables[n]) = 0
      <4>1. \A t \in Threads : ~(rank[t] < 0)
        BY <2>7
      <4>2. In \cup E = {}
        BY <2>8, <3>1, <4>1 DEF Counted
      <4> HIDE DEF In, E
      <4>3. Cardinality(In \cup E) = 0
        BY <4>2, FS_EmptySet
      <4> QED BY <2>2, <4>3
    <3>2. CASE Quota(tables[n]) # 0
      <4> DEFINE k == Quota(tables[n]) - 1
                 A == {t \in Counted : rank[t] <= k}
      <4>1. k \in Nat /\ k < Capacity(n) /\ Cardinality(A) <= k
        BY <2>2, <2>7, <3>2 DEF Ranked, Sparse
      <4>2. In \cup E \subseteq A
        BY <2>2, <2>7, <2>8 DEF Counted
      <4>3. IsFiniteSet(A)
        <5>1. A \subseteq Threads
          BY DEF Counted
        <5> QED BY <5>1, ThreadsAssumption, FS_Subset
      <4> HIDE DEF A, k, In, E
      <4>4. Cardinality(In \cup E) <= Cardinality(A) /\ Cardinality(In \cup E) \in Nat
            /\ Cardinality(A) \in Nat
        BY <4>2, <4>3, FS_Subset, FS_CardinalityType
      <4> QED BY <2>2, <4>1, <4>4
    <3> QED BY <3>1, <3>2
  <2> HIDE DEF Used, In, E
  <2>10. Cardinality(In \cup E) = Cardinality(In) + Cardinality(E)
    <3>1. Cardinality(In \cap E) = 0
      BY <2>6, FS_EmptySet
    <3>2. Cardinality(In) \in Nat /\ Cardinality(E) \in Nat
      BY <2>4, FS_CardinalityType
    <3>3. Cardinality(In \cup E) = Cardinality(In) + Cardinality(E) - Cardinality(In \cap E)
      BY <2>4, FS_Union
    <3> QED BY <3>1, <3>2, <3>3
  <2>11. Cardinality(Used) \in Nat /\ Cardinality(In) \in Nat /\ Cardinality(E) \in Nat
    BY <2>4, <2>5, FS_CardinalityType
  <2>12. Cardinality(Used) + Cardinality(E) < Capacity(n)
    BY <2>2, <2>5, <2>9, <2>10, <2>11
  <2> QED BY <2>12 DEF Used, E
<1> QED BY <1>1, HashHasInv, PTL
================================================================================
