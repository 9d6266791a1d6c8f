----------------------------- MODULE FreeListProofs -----------------------------
(***************************************************************************)
(* Theorems about FreeList, for every set of blocks and every finite set   *)
(* of threads.                                                             *)
(***************************************************************************)
EXTENDS FreeList, FiniteSetTheorems, TLAPS

(* The abbreviations of the actions. *)
USE DEF Goto, Set

(***************************************************************************)
(* Each node is accounted for by numbers of threads: those that have a     *)
(* reference to it, and those that have it to themselves, because they own *)
(* it, have just popped it, are about to mark it, or are adding it, before *)
(* and after its count is stored.                                          *)
(***************************************************************************)
At(n, P) == {t \in Threads : node[t] = n /\ pc[t] \in P}
Num(n, P) == Cardinality(At(n, P))

ReadPlaces  == {"next", "pop", "take", "drop"}
FreshPlaces == {"kload", "knext", "kstore"}
ReadyPlaces == {"kcas", "kretry"}

Holders(n) == {t \in Threads : n \in holds[t]}
Listed(n) == IF n \in OnList THEN 1 ELSE 0

(***************************************************************************)
(* The balance of a node: at most one user or the list has it; its count   *)
(* is that of the readers, with the list's own reference from the store    *)
(* until it is taken, and the mark when neither the list nor an owner has  *)
(* it; nobody reads it while it is marked and somebody adds it; and        *)
(* somebody does if nobody has it.                                         *)
(***************************************************************************)
Balanced(count, readers, owners, takers, markers, fresh, ready, listed) ==
  /\ owners + takers + markers + fresh + ready + listed <= 1
  /\ count = readers + takers + ready + listed
             + (IF owners + takers + markers + ready + listed = 0 THEN Should ELSE 0)
  /\ fresh > 0 => readers = 0
  /\ owners + takers + markers + fresh + ready + listed = 0 => readers > 0

Sound(n) ==
  Balanced(refs[n], Num(n, ReadPlaces), Cardinality(Holders(n)), Num(n, {"take"}),
           Num(n, {"add"}), Num(n, FreshPlaces), Num(n, ReadyPlaces), Listed(n))

(* The list has no fork and no cycle. *)
Linear(first, links) ==
  LET L == Reachable(first, links)
  IN  /\ \A m, n \in L : links[m] = links[n] /\ links[m] # Null => m = n
      /\ first # Null => \A n \in L : links[n] # first

(* What a thread knows of its node. *)
Knows(t) ==
  /\ pc[t] \notin {"idle", "load"} => node[t] \in Nodes
  /\ pc[t] = "acquire" => Count(seen[t]) # 0
  /\ pc[t] \in {"pop", "kstore", "kcas"} => link[t] = next[node[t]]

IInv ==
  /\ TypeOK
  /\ \A t \in Threads : Knows(t)
  /\ Linear(flhead, next)
  /\ \A n \in Nodes : Sound(n)
--------------------------------------------------------------------------------
(***************************************************************************)
(* Counting threads.                                                       *)
(***************************************************************************)
LEMMA NumType ==
  ASSUME NEW n, NEW P
  PROVE  /\ IsFiniteSet(At(n, P))
         /\ Num(n, P) \in Nat
         /\ Num(n, P) <= Cardinality(Threads)
         /\ Num(n, P) = 0 <=> At(n, P) = {}
  BY ThreadsAssumption, FS_Subset, FS_CardinalityType, FS_EmptySet DEF At, Num

LEMMA HoldersType ==
  ASSUME NEW n
  PROVE  /\ IsFiniteSet(Holders(n))
         /\ Cardinality(Holders(n)) \in Nat
         /\ Cardinality(Holders(n)) = 0 <=> Holders(n) = {}
  BY ThreadsAssumption, FS_Subset, FS_CardinalityType, FS_EmptySet DEF Holders

(* The number of a set without one element, and with it. *)
LEMMA CountWithout ==
  ASSUME NEW S, IsFiniteSet(S), NEW x
  PROVE  /\ Cardinality(S \ {x}) \in Nat
         /\ Cardinality(S) = Cardinality(S \ {x}) + (IF x \in S THEN 1 ELSE 0)
<1>1. IsFiniteSet(S \ {x}) /\ Cardinality(S \ {x}) \in Nat /\ Cardinality(S) \in Nat
  BY FS_Subset, FS_CardinalityType
<1>2. CASE x \in S
  BY <1>1, <1>2, FS_RemoveElement
<1>3. CASE x \notin S
  <2> DEFINE R == S \ {x}
  <2>1. R = S
    BY <1>3
  <2> HIDE DEF R
  <2>2. Cardinality(R) = Cardinality(S)
    BY <2>1
  <2> QED BY <1>1, <1>3, <2>2 DEF R
<1> QED BY <1>2, <1>3

(* When only t moves, a number changes by what t does. *)
LEMMA NumMoves ==
  ASSUME NEW t \in Threads, NEW n, NEW P,
         \A u \in Threads \ {t} : pc'[u] = pc[u] /\ node'[u] = node[u]
  PROVE  \E others \in Nat :
           /\ Num(n, P) = others + (IF node[t] = n /\ pc[t] \in P THEN 1 ELSE 0)
           /\ Num(n, P)' = others + (IF node'[t] = n /\ pc'[t] \in P THEN 1 ELSE 0)
<1>1. At(n, P) \ {t} = At(n, P)' \ {t}
  BY DEF At
<1>2. IsFiniteSet(At(n, P)) /\ IsFiniteSet(At(n, P)')
  <2>1. At(n, P) \subseteq Threads /\ At(n, P)' \subseteq Threads
    BY DEF At
  <2> QED BY <2>1, ThreadsAssumption, FS_Subset
<1>3. /\ Cardinality(At(n, P)) = Cardinality(At(n, P) \ {t}) + (IF t \in At(n, P) THEN 1 ELSE 0)
      /\ Cardinality(At(n, P) \ {t}) \in Nat
  BY <1>2, CountWithout
<1>4. Cardinality(At(n, P)') = Cardinality(At(n, P)' \ {t}) + (IF t \in At(n, P)' THEN 1 ELSE 0)
  BY <1>2, CountWithout
<1>5. /\ t \in At(n, P) <=> node[t] = n /\ pc[t] \in P
      /\ t \in At(n, P)' <=> node'[t] = n /\ pc'[t] \in P
  BY DEF At
<1>6. /\ Num(n, P) = Cardinality(At(n, P))
      /\ Num(n, P)' = Cardinality(At(n, P)')
  BY DEF Num
<1> QED BY <1>1, <1>3, <1>4, <1>5, <1>6

LEMMA HoldersMove ==
  ASSUME NEW t \in Threads, NEW n,
         \A u \in Threads \ {t} : holds'[u] = holds[u]
  PROVE  \E others \in Nat :
           /\ Cardinality(Holders(n)) = others + (IF n \in holds[t] THEN 1 ELSE 0)
           /\ Cardinality(Holders(n)') = others + (IF n \in holds'[t] THEN 1 ELSE 0)
<1>1. Holders(n) \ {t} = Holders(n)' \ {t}
  BY DEF Holders
<1>2. IsFiniteSet(Holders(n)) /\ IsFiniteSet(Holders(n)')
  <2>1. Holders(n) \subseteq Threads /\ Holders(n)' \subseteq Threads
    BY DEF Holders
  <2> QED BY <2>1, ThreadsAssumption, FS_Subset
<1>3. /\ Cardinality(Holders(n)) = Cardinality(Holders(n) \ {t}) + (IF t \in Holders(n) THEN 1 ELSE 0)
      /\ Cardinality(Holders(n) \ {t}) \in Nat
  BY <1>2, CountWithout
<1>4. Cardinality(Holders(n)') = Cardinality(Holders(n)' \ {t}) + (IF t \in Holders(n)' THEN 1 ELSE 0)
  BY <1>2, CountWithout
<1>5. /\ t \in Holders(n) <=> n \in holds[t]
      /\ t \in Holders(n)' <=> n \in holds'[t]
  BY DEF Holders
<1> QED BY <1>1, <1>3, <1>4, <1>5

(* A thread at its place is counted, and two are counted twice. *)
LEMMA Counted ==
  ASSUME NEW t \in Threads, NEW n, NEW P, node[t] = n, pc[t] \in P
  PROVE  Num(n, P) >= 1
<1>1. t \in At(n, P)
  BY DEF At
<1> QED BY <1>1, NumType

LEMMA CountedTwice ==
  ASSUME NEW t \in Threads, NEW u \in Threads \ {t}, NEW n, NEW P,
         node[t] = n, pc[t] \in P, node[u] = n, pc[u] \in P
  PROVE  Num(n, P) >= 2
<1>1. t \in At(n, P) /\ u \in At(n, P) \ {t}
  BY DEF At
<1>2. IsFiniteSet(At(n, P) \ {t})
  BY NumType, FS_Subset
<1>3. Cardinality(At(n, P) \ {t}) # 0
  BY <1>1, <1>2, FS_EmptySet
<1> QED BY <1>1, <1>3, NumType, CountWithout DEF Num

(* A fresh node has no reference at all. *)
LEMMA CountOfMark == Count(Should) = 0
<1>1. PICK M \in Nat \ {0} : M = Should
  BY ShouldAssumption, ThreadsAssumption, FS_CardinalityType
<1>2. M % M = 0
  BY Z3T(30)
<1> QED BY <1>1, <1>2 DEF Count

(* What is below the mark is the count, with and without the mark. *)
LEMMA CountBelow ==
  ASSUME NEW x \in 0 .. Should - 1
  PROVE  Count(x) = x /\ Count(x + Should) = x
<1>1. PICK M \in Nat \ {0} : M = Should
  BY ShouldAssumption, ThreadsAssumption, FS_CardinalityType
<1>2. x % M = x /\ (x + M) % M = x
  BY <1>1, Z3T(30)
<1> QED BY <1>1, <1>2 DEF Count

(* Every thread has at most one reference to a node: the counts are small. *)
LEMMA CountsAreBounded ==
  ASSUME NEW n, Sound(n)
  PROVE  refs[n] \in 0 .. 2 * Should - 1 /\ Count(refs[n]) <= Cardinality(Threads) + 1
<1>1. Cardinality(Threads) \in Nat
  BY ThreadsAssumption, FS_CardinalityType
<1>2. /\ Num(n, ReadPlaces) \in Nat /\ Num(n, ReadPlaces) <= Cardinality(Threads)
      /\ Num(n, {"take"}) \in Nat /\ Num(n, {"add"}) \in Nat
      /\ Num(n, FreshPlaces) \in Nat /\ Num(n, ReadyPlaces) \in Nat
      /\ Cardinality(Holders(n)) \in Nat /\ Listed(n) \in {0, 1}
  BY NumType, HoldersType DEF Listed
<1> DEFINE x == Num(n, ReadPlaces) + Num(n, {"take"}) + Num(n, ReadyPlaces) + Listed(n)
<1>3. /\ x \in 0 .. Cardinality(Threads) + 1 /\ x \in 0 .. Should - 1
      /\ refs[n] = x \/ refs[n] = x + Should
  BY <1>1, <1>2, ShouldAssumption, SMTT(60) DEF Sound, Balanced
<1> HIDE DEF x
<1>4. Count(x) = x /\ Count(x + Should) = x
  BY <1>3, CountBelow
<1> QED BY <1>1, <1>3, <1>4, ShouldAssumption
--------------------------------------------------------------------------------
(***************************************************************************)
(* Lists: the least set of nodes that is closed.                           *)
(***************************************************************************)
Links == [Nodes -> Opt]

LEMMA ReachableClosed ==
  ASSUME NEW first \in Opt, NEW links \in Links
  PROVE  /\ Reachable(first, links) \in SUBSET Nodes
         /\ Closed(Reachable(first, links), first, links)
         /\ \A S \in SUBSET Nodes : Closed(S, first, links) => Reachable(first, links) \subseteq S
<1> DEFINE L == Reachable(first, links)
<1>1. L \in SUBSET Nodes /\ \A S \in SUBSET Nodes : Closed(S, first, links) => L \subseteq S
  BY DEF Reachable
<1>2. ASSUME first # Null PROVE first \in L
  BY <1>2 DEF Opt, Reachable, Closed
<1>3. ASSUME NEW n \in L, links[n] # Null PROVE links[n] \in L
  <2>1. n \in Nodes /\ links[n] \in Nodes
    BY <1>1, <1>3 DEF Links, Opt
  <2> QED BY <1>3, <2>1 DEF Reachable, Closed
<1> QED BY <1>1, <1>2, <1>3 DEF Closed

(* What is closed and contained in every closed set is the list. *)
LEMMA ReachableIs ==
  ASSUME NEW first, NEW links, NEW L \in SUBSET Nodes, Closed(L, first, links),
         \A S \in SUBSET Nodes : Closed(S, first, links) => L \subseteq S
  PROVE  Reachable(first, links) = L
  BY DEF Reachable

LEMMA EmptyList ==
  ASSUME NEW links \in Links
  PROVE  Reachable(Null, links) = {} /\ Linear(Null, links)
<1>1. {} \in SUBSET Nodes /\ Closed({}, Null, links)
  BY DEF Closed
<1>2. Reachable(Null, links) = {}
  BY <1>1, ReachableIs
<1> QED BY <1>2 DEF Linear

(* The list stays when the link of a node that is not on it changes. *)
LEMMA ListKept ==
  ASSUME NEW first \in Opt, NEW links \in Links, NEW newlinks \in Links,
         Linear(first, links), NEW n, n \notin Reachable(first, links),
         \A m \in Nodes \ {n} : newlinks[m] = links[m]
  PROVE  Reachable(first, newlinks) = Reachable(first, links) /\ Linear(first, newlinks)
<1> DEFINE L == Reachable(first, links)
<1>1. /\ L \in SUBSET Nodes /\ Closed(L, first, links)
      /\ \A S \in SUBSET Nodes : Closed(S, first, links) => L \subseteq S
  BY ReachableClosed
<1>2. \A m \in L : newlinks[m] = links[m]
  BY <1>1
<1>3. /\ \A k, m \in L : links[k] = links[m] /\ links[k] # Null => k = m
      /\ first # Null => \A m \in L : links[m] # first
  BY DEF Linear
<1> HIDE DEF L
<1>4. Closed(L, first, newlinks)
  BY <1>1, <1>2 DEF Closed
<1>5. ASSUME NEW S \in SUBSET Nodes, Closed(S, first, newlinks) PROVE L \subseteq S
  <2>1. Closed(S \cap L, first, links)
    BY <1>1, <1>2, <1>5 DEF Closed
  <2>2. S \cap L \in SUBSET Nodes
    BY <1>1
  <2> QED BY <1>1, <2>1, <2>2
<1>6. Reachable(first, newlinks) = L
  BY <1>1, <1>4, <1>5, ReachableIs
<1>7. Linear(first, newlinks)
  BY <1>2, <1>3, <1>6 DEF Linear
<1> QED BY <1>6, <1>7 DEF L

(* The first node is taken off the list. *)
LEMMA ListPopped ==
  ASSUME NEW links \in Links, NEW n \in Nodes, Linear(n, links)
  PROVE  /\ Reachable(links[n], links) = Reachable(n, links) \ {n}
         /\ n \in Reachable(n, links)
         /\ Linear(links[n], links)
<1> DEFINE L == Reachable(n, links)
<1>1. /\ L \in SUBSET Nodes /\ Closed(L, n, links)
      /\ \A S \in SUBSET Nodes : Closed(S, n, links) => L \subseteq S
      /\ n # Null
  BY ReachableClosed, NullAssumption DEF Opt
<1>2. /\ \A k, m \in L : links[k] = links[m] /\ links[k] # Null => k = m
      /\ \A m \in L : links[m] # n
  BY <1>1 DEF Linear
<1> HIDE DEF L
<1>3. n \in L
  BY <1>1 DEF Closed
<1>4. Closed(L \ {n}, links[n], links)
  BY <1>1, <1>2, <1>3 DEF Closed
<1>5. ASSUME NEW S \in SUBSET Nodes, Closed(S, links[n], links) PROVE L \ {n} \subseteq S
  <2>1. Closed(S \cup {n}, n, links)
    BY <1>5 DEF Closed
  <2>2. S \cup {n} \in SUBSET Nodes
    OBVIOUS
  <2> QED BY <1>1, <2>1, <2>2
<1>6. Reachable(links[n], links) = L \ {n}
  <2>1. L \ {n} \in SUBSET Nodes
    BY <1>1
  <2> QED BY <2>1, <1>4, <1>5, ReachableIs
<1>7. Linear(links[n], links)
  BY <1>2, <1>3, <1>6 DEF Linear
<1> QED BY <1>3, <1>6, <1>7 DEF L

(* A node that points to the first one becomes the first. *)
LEMMA ListPushed ==
  ASSUME NEW first \in Opt, NEW links \in Links, NEW n \in Nodes,
         Linear(first, links), n \notin Reachable(first, links), links[n] = first
  PROVE  /\ Reachable(n, links) = Reachable(first, links) \cup {n}
         /\ Linear(n, links)
<1> DEFINE L == Reachable(first, links)
<1>1. /\ L \in SUBSET Nodes /\ Closed(L, first, links)
      /\ \A S \in SUBSET Nodes : Closed(S, first, links) => L \subseteq S
      /\ n # Null
  BY ReachableClosed, NullAssumption
<1>2. /\ \A k, m \in L : links[k] = links[m] /\ links[k] # Null => k = m
      /\ first # Null => \A m \in L : links[m] # first
  BY DEF Linear
<1> HIDE DEF L
<1>3. Closed(L \cup {n}, n, links)
  BY <1>1 DEF Closed
<1>4. ASSUME NEW S \in SUBSET Nodes, Closed(S, n, links) PROVE L \cup {n} \subseteq S
  <2>1. n \in S /\ Closed(S, first, links)
    BY <1>1, <1>4 DEF Closed
  <2> QED BY <1>1, <2>1
<1>5. Reachable(n, links) = L \cup {n}
  <2>1. L \cup {n} \in SUBSET Nodes
    BY <1>1
  <2> QED BY <2>1, <1>3, <1>4, ReachableIs
<1>6. n \notin L /\ \A m \in L : links[m] # n
  BY <1>1 DEF Closed, L
<1>7. links[n] # n
  BY <1>1, <1>6 DEF Closed
<1>8. Linear(n, links)
  BY <1>1, <1>2, <1>5, <1>6, <1>7 DEF Linear
<1> QED BY <1>5, <1>8 DEF L
--------------------------------------------------------------------------------
(***************************************************************************)
(* Steps.                                                                  *)
(***************************************************************************)
(* Types that a step keeps by itself. *)
Shape ==
  /\ flhead \in Opt
  /\ refs \in [Nodes -> Int]
  /\ next \in Links
  /\ pc \in [Threads -> Places]
  /\ node \in [Threads -> Opt]
  /\ seen \in [Threads -> 0 .. 2 * Should - 1]
  /\ link \in [Threads -> Opt]
  /\ resume \in [Threads -> Opt]
  /\ getting \subseteq Threads
  /\ holds \in [Threads -> SUBSET Nodes]

(* The first two parts of Knows. *)
Works(t) ==
  /\ pc[t] \notin {"idle", "load"} => node[t] \in Nodes
  /\ pc[t] = "acquire" => Count(seen[t]) # 0

LEMMA ShapeAndWorks ==
  ASSUME TypeOK, \A t \in Threads : Knows(t)
  PROVE  /\ Shape
         /\ \A t \in Threads : Works(t)
         /\ Should \in Nat
<1>1. Should \in Nat /\ 0 .. 2 * Should - 1 \subseteq Int
  BY ShouldAssumption
<1>2. refs \in [Nodes -> Int]
  BY <1>1 DEF TypeOK
<1> QED BY <1>1, <1>2 DEF TypeOK, Shape, Links, Knows, Works

LEMMA ShapeNext ==
  ASSUME TypeOK, \A t \in Threads : Knows(t), [Next]_vars
  PROVE  Shape' /\ \A t \in Threads : Works(t)'
<1>0. /\ Shape /\ \A t \in Threads : Works(t)
      /\ Should \in Nat
      /\ refs \in [Nodes -> 0 .. 2 * Should - 1]
  BY ShapeAndWorks DEF TypeOK
<1>1. CASE UNCHANGED vars
  BY <1>0, <1>1 DEF Shape, Works, vars
<1> SUFFICES ASSUME NEW t \in Threads, Start(t) \/ Work(t)
             PROVE  Shape' /\ \A u \in Threads : Works(u)'
  BY <1>1 DEF Next
<1> USE <1>0 DEF Shape, Works, Links, Opt
<1>2. CASE Start(t)
  BY <1>2 DEF Start, StartGet, StartAdd, Places
<1>3. CASE LoadHead(t)
  BY <1>3 DEF LoadHead, EndGet, Places
<1>4. CASE LoadRefs(t)
  BY <1>4 DEF LoadRefs, Places
<1>5. CASE Acquire(t)
  BY <1>5 DEF Acquire, Places
<1>6. CASE LoadNext(t)
  BY <1>6 DEF LoadNext, Places
<1>7. CASE Pop(t)
  BY <1>7 DEF Pop, Unlinked, Places
<1>8. CASE TakeNode(t)
  BY <1>8 DEF TakeNode, EndGet, Places
<1>9. CASE Drop(t)
  BY <1>9 DEF Drop, OneLess, Again, EndGet, Places
<1>10. CASE Mark(t)
  BY <1>10 DEF Mark, Places
<1>11. CASE KLoad(t) \/ KNext(t)
  BY <1>11 DEF KLoad, KNext, Places
<1>12. CASE KStore(t)
  BY <1>12 DEF KStore, Places
<1>13. CASE KCas(t)
  BY <1>13 DEF KCas, KReturn, Again, EndGet, Places
<1>14. CASE KRetry(t)
  BY <1>14 DEF KRetry, KReturn, Again, EndGet, Places
<1> QED BY ONLY Start(t) \/ Work(t), <1>2, <1>3, <1>4, <1>5, <1>6, <1>7, <1>8, <1>9, <1>10,
                <1>11, <1>12, <1>13, <1>14
        DEF Work

(* A thread moves only itself. *)
LEMMA OthersRest ==
  ASSUME Shape, NEW t \in Threads, Start(t) \/ Work(t)
  PROVE  \A u \in Threads \ {t} : /\ pc'[u] = pc[u] /\ node'[u] = node[u]
                                  /\ holds'[u] = holds[u]
                                  /\ seen'[u] = seen[u] /\ link'[u] = link[u]
<1> USE DEF Shape
<1>1. CASE Start(t)
  BY <1>1 DEF Start, StartGet, StartAdd
<1>2. CASE LoadHead(t) \/ LoadRefs(t) \/ Acquire(t) \/ LoadNext(t) \/ Pop(t) \/ TakeNode(t)
  BY <1>2 DEF LoadHead, LoadRefs, Acquire, LoadNext, Pop, TakeNode, EndGet
<1>3. CASE Drop(t) \/ Mark(t) \/ KLoad(t) \/ KNext(t) \/ KStore(t)
  BY <1>3 DEF Drop, Again, EndGet, Mark, KLoad, KNext, KStore
<1>4. CASE KCas(t) \/ KRetry(t)
  BY <1>4 DEF KCas, KRetry, KReturn, Again, EndGet
<1> QED BY ONLY Start(t) \/ Work(t), <1>1, <1>2, <1>3, <1>4 DEF Work

(* What t counts for in the numbers of n. *)
Here(t, n, P) == IF node[t] = n /\ pc[t] \in P THEN 1 ELSE 0
Own(t, n) == IF n \in holds[t] THEN 1 ELSE 0

(***************************************************************************)
(* The numbers of a node, without t and with it, before and after a step   *)
(* of t.                                                                   *)
(***************************************************************************)
LEMMA Shares ==
  ASSUME NEW t \in Threads, NEW n,
         \A u \in Threads \ {t} : /\ pc'[u] = pc[u] /\ node'[u] = node[u]
                                  /\ holds'[u] = holds[u]
  PROVE  \E r, o, k, a, f, d \in Nat :
           /\ Num(n, ReadPlaces) = r + Here(t, n, ReadPlaces)
           /\ Num(n, ReadPlaces)' = r + Here(t, n, ReadPlaces)'
           /\ Cardinality(Holders(n)) = o + Own(t, n)
           /\ Cardinality(Holders(n)') = o + Own(t, n)'
           /\ Num(n, {"take"}) = k + Here(t, n, {"take"})
           /\ Num(n, {"take"})' = k + Here(t, n, {"take"})'
           /\ Num(n, {"add"}) = a + Here(t, n, {"add"})
           /\ Num(n, {"add"})' = a + Here(t, n, {"add"})'
           /\ Num(n, FreshPlaces) = f + Here(t, n, FreshPlaces)
           /\ Num(n, FreshPlaces)' = f + Here(t, n, FreshPlaces)'
           /\ Num(n, ReadyPlaces) = d + Here(t, n, ReadyPlaces)
           /\ Num(n, ReadyPlaces)' = d + Here(t, n, ReadyPlaces)'
<1>1. ASSUME NEW P
      PROVE  \E others \in Nat : /\ Num(n, P) = others + Here(t, n, P)
                                 /\ Num(n, P)' = others + Here(t, n, P)'
  BY NumMoves DEF Here
<1>2. \E others \in Nat : /\ Cardinality(Holders(n)) = others + Own(t, n)
                          /\ Cardinality(Holders(n)') = others + Own(t, n)'
  BY HoldersMove DEF Own
<1>3. PICK r \in Nat : /\ Num(n, ReadPlaces) = r + Here(t, n, ReadPlaces)
                       /\ Num(n, ReadPlaces)' = r + Here(t, n, ReadPlaces)'
  BY <1>1 DEF ReadPlaces
<1>4. PICK o \in Nat : /\ Cardinality(Holders(n)) = o + Own(t, n)
                       /\ Cardinality(Holders(n)') = o + Own(t, n)'
  BY <1>2
<1>5. PICK k \in Nat : /\ Num(n, {"take"}) = k + Here(t, n, {"take"})
                       /\ Num(n, {"take"})' = k + Here(t, n, {"take"})'
  BY <1>1
<1>6. PICK a \in Nat : /\ Num(n, {"add"}) = a + Here(t, n, {"add"})
                       /\ Num(n, {"add"})' = a + Here(t, n, {"add"})'
  BY <1>1
<1>7. PICK f \in Nat : /\ Num(n, FreshPlaces) = f + Here(t, n, FreshPlaces)
                       /\ Num(n, FreshPlaces)' = f + Here(t, n, FreshPlaces)'
  BY <1>1 DEF FreshPlaces
<1>8. PICK d \in Nat : /\ Num(n, ReadyPlaces) = d + Here(t, n, ReadyPlaces)
                       /\ Num(n, ReadyPlaces)' = d + Here(t, n, ReadyPlaces)'
  BY <1>1 DEF ReadyPlaces
<1> QED BY <1>3, <1>4, <1>5, <1>6, <1>7, <1>8

LEMMA NumbersType ==
  ASSUME NEW n
  PROVE  /\ Num(n, ReadPlaces) \in Nat /\ Num(n, ReadPlaces) <= Cardinality(Threads)
         /\ Cardinality(Holders(n)) \in Nat
         /\ Num(n, {"take"}) \in Nat /\ Num(n, {"add"}) \in Nat
         /\ Num(n, FreshPlaces) \in Nat /\ Num(n, ReadyPlaces) \in Nat
         /\ Listed(n) \in {0, 1}
         /\ Cardinality(Threads) \in Nat
  BY NumType, HoldersType, ThreadsAssumption, FS_CardinalityType DEF Listed

(* A node that a thread is adding is not on the list. *)
LEMMA AddedIsOff ==
  ASSUME NEW t \in Threads, Sound(node[t]), pc[t] \in FreshPlaces \cup ReadyPlaces
  PROVE  node[t] \notin OnList
<1>1. Num(node[t], FreshPlaces) >= 1 \/ Num(node[t], ReadyPlaces) >= 1
  BY Counted
<1> QED BY <1>1, NumbersType DEF Sound, Balanced, Listed

LEMMA KnowsNow ==
  ASSUME IInv, NEW t \in Threads
  PROVE  /\ pc[t] \notin {"idle", "load"} => node[t] \in Nodes /\ Sound(node[t])
         /\ pc[t] = "acquire" => Count(seen[t]) # 0
         /\ pc[t] \in {"pop", "kstore", "kcas"} => link[t] = next[node[t]]
  BY DEF IInv, Knows

(* The list loses the node that is popped and gets the one that is pushed. *)
LEMMA ListStep ==
  ASSUME IInv, Shape', NEW t \in Threads, Start(t) \/ Work(t)
  PROVE  /\ Linear(flhead, next)'
         /\ OnList' = IF Pop(t) /\ pc'[t] = "take" THEN OnList \ {node[t]}
                      ELSE IF KCas(t) /\ pc'[t] # "kretry" THEN OnList \cup {node[t]}
                      ELSE OnList
<1>1. /\ Shape /\ Linear(flhead, next)
      /\ flhead \in Opt /\ next \in Links /\ flhead' \in Opt /\ next' \in Links
      /\ pc \in [Threads -> Places]
  BY ShapeAndWorks DEF IInv, Shape
<1>2. CASE Pop(t) /\ pc'[t] = "take"
  <2>1. /\ node[t] \in Nodes /\ flhead = node[t] /\ flhead' = next[node[t]]
        /\ next' = next
    BY <1>1, <1>2, KnowsNow DEF Pop, Unlinked
  <2>2. Linear(node[t], next)
    BY <1>1, <2>1
  <2> QED BY <1>1, <1>2, <2>1, <2>2, ListPopped DEF OnList
<1>3. CASE KCas(t) /\ pc'[t] # "kretry"
  <2>1. /\ node[t] \in Nodes /\ flhead = next[node[t]] /\ flhead' = node[t]
        /\ next' = next /\ node[t] \notin OnList /\ pc[t] = "kcas"
    BY <1>1, <1>3, KnowsNow, AddedIsOff DEF KCas, KReturn, Again, EndGet, ReadyPlaces
  <2>2. node[t] \notin Reachable(flhead, next)
    BY <2>1 DEF OnList
  <2>3. ~(Pop(t) /\ pc'[t] = "take")
    BY <2>1 DEF Pop
  <2> QED BY <1>1, <1>3, <2>1, <2>2, <2>3, ListPushed DEF OnList
<1>4. CASE KNext(t)
  <2>1. /\ node[t] \in Nodes /\ flhead' = flhead /\ pc[t] = "knext"
        /\ next' = [next EXCEPT ![node[t]] = link[t]] /\ node[t] \notin OnList
    BY <1>1, <1>4, KnowsNow, AddedIsOff DEF KNext, FreshPlaces
  <2>2. \A m \in Nodes \ {node[t]} : next'[m] = next[m]
    BY <1>1, <2>1 DEF Links
  <2>3. ~Pop(t) /\ ~KCas(t)
    BY <2>1 DEF Pop, KCas, KReturn, Again, EndGet
  <2>4. node[t] \notin Reachable(flhead, next)
    BY <2>1 DEF OnList
  <2> QED BY <1>1, <2>1, <2>2, <2>3, <2>4, ListKept DEF OnList
<1>5. CASE UNCHANGED <<flhead, next>> /\ ~(Pop(t) /\ pc'[t] = "take")
           /\ ~(KCas(t) /\ pc'[t] # "kretry")
  BY <1>1, <1>5 DEF OnList
<1>6. \/ UNCHANGED <<flhead, next>>
      \/ KNext(t)
      \/ Pop(t) /\ pc'[t] = "take"
      \/ KCas(t) /\ pc'[t] # "kretry"
  <2>1. ASSUME Pop(t) \/ KCas(t)
        PROVE <1>6
    BY <1>1, <2>1 DEF Pop, KCas, KReturn, Again, EndGet, Shape
  <2> QED BY <2>1
          DEF Start, StartGet, StartAdd, Work, LoadHead, LoadRefs, Acquire, LoadNext, TakeNode,
              Drop, Mark, KLoad, KStore, KRetry
<1> QED BY <1>2, <1>3, <1>4, <1>5, <1>6

(* Every step keeps the balance of every node. *)
LEMMA SoundStep ==
  ASSUME IInv, Shape', NEW t \in Threads, Start(t) \/ Work(t), NEW n \in Nodes
  PROVE  Sound(n)'
<1>1. /\ Shape /\ Should \in Nat /\ Should > Cardinality(Threads) + 2
      /\ Cardinality(Threads) \in Nat
      /\ refs[n] \in Int /\ refs'[n] \in Int
      /\ Sound(n) /\ Listed(n) \in {0, 1} /\ Listed(n)' \in {0, 1}
      /\ Num(n, ReadPlaces) <= Cardinality(Threads)
  BY ShapeAndWorks, ShouldAssumption, NumbersType DEF IInv, Shape, Listed
<1>2. \A u \in Threads \ {t} : /\ pc'[u] = pc[u] /\ node'[u] = node[u]
                               /\ holds'[u] = holds[u]
  BY <1>1, OthersRest
<1>3. PICK r, o, k, a, f, d \in Nat :
           /\ Num(n, ReadPlaces) = r + Here(t, n, ReadPlaces)
           /\ Num(n, ReadPlaces)' = r + Here(t, n, ReadPlaces)'
           /\ Cardinality(Holders(n)) = o + Own(t, n)
           /\ Cardinality(Holders(n)') = o + Own(t, n)'
           /\ Num(n, {"take"}) = k + Here(t, n, {"take"})
           /\ Num(n, {"take"})' = k + Here(t, n, {"take"})'
           /\ Num(n, {"add"}) = a + Here(t, n, {"add"})
           /\ Num(n, {"add"})' = a + Here(t, n, {"add"})'
           /\ Num(n, FreshPlaces) = f + Here(t, n, FreshPlaces)
           /\ Num(n, FreshPlaces)' = f + Here(t, n, FreshPlaces)'
           /\ Num(n, ReadyPlaces) = d + Here(t, n, ReadyPlaces)
           /\ Num(n, ReadyPlaces)' = d + Here(t, n, ReadyPlaces)'
  BY <1>2, Shares
<1>4. Balanced(refs[n], r + Here(t, n, ReadPlaces), o + Own(t, n), k + Here(t, n, {"take"}),
               a + Here(t, n, {"add"}), f + Here(t, n, FreshPlaces),
               d + Here(t, n, ReadyPlaces), Listed(n))
  BY <1>1, <1>3 DEF Sound
<1>5. ASSUME Balanced(refs'[n], r + Here(t, n, ReadPlaces)', o + Own(t, n)',
                      k + Here(t, n, {"take"})', a + Here(t, n, {"add"})',
                      f + Here(t, n, FreshPlaces)', d + Here(t, n, ReadyPlaces)', Listed(n)')
      PROVE  Sound(n)'
  BY <1>3, <1>5 DEF Sound, Balanced
<1>6. OnList' = IF Pop(t) /\ pc'[t] = "take" THEN OnList \ {node[t]}
                ELSE IF KCas(t) /\ pc'[t] # "kretry" THEN OnList \cup {node[t]}
                ELSE OnList
  BY ListStep
<1>7. Num(n, ReadPlaces) = r + Here(t, n, ReadPlaces) /\ r + Here(t, n, ReadPlaces) <= Cardinality(Threads)
  BY <1>1, <1>3
<1> HIDE <1>3
<1> USE DEF Here, Own, Listed, Balanced, ReadPlaces, FreshPlaces, ReadyPlaces, Shape
<1>8. CASE StartGet(t) \/ LoadHead(t) \/ LoadRefs(t)
  BY <1>1, <1>4, <1>5, <1>6, <1>8
     DEF StartGet, LoadHead, LoadRefs, EndGet, Pop, KCas, KReturn, Again
<1>9. ASSUME NEW m \in Nodes, StartAdd(t, m) PROVE Sound(n)'
  BY <1>1, <1>4, <1>5, <1>6, <1>9 DEF StartAdd, EndGet, Pop, KCas, KReturn, Again
<1>10. CASE Acquire(t)
  <2>1. refs[node[t]] = seen[t] => refs[node[t]] # Should
    BY <1>10, KnowsNow, CountOfMark DEF Acquire
  <2> QED BY <1>1, <1>4, <1>5, <1>6, <1>10, <2>1 DEF Acquire, EndGet, Pop, KCas, KReturn, Again
<1>11. CASE LoadNext(t) \/ KLoad(t) \/ KNext(t)
  BY <1>1, <1>4, <1>5, <1>6, <1>11, SMTT(60)
     DEF LoadNext, KLoad, KNext, EndGet, Pop, KCas, KReturn, Again
<1>12. CASE Pop(t)
  <2>1. flhead = node[t] => node[t] \in OnList
    <3>1. node[t] \in Nodes /\ node[t] # Null
      BY <1>12, KnowsNow, NullAssumption DEF Pop
    <3>2. Closed(OnList, flhead, next)
      BY <1>1, ReachableClosed DEF OnList
    <3> QED BY <3>1, <3>2 DEF Closed
  <2>2. ~(KCas(t) /\ pc'[t] # "kretry")
    BY <1>12 DEF Pop, KCas, KReturn, Again, EndGet
  <2>3. CASE pc'[t] = "take"
    BY <1>1, <1>4, <1>5, <1>6, <1>12, <2>1, <2>2, <2>3 DEF Pop
  <2>4. CASE pc'[t] # "take"
    BY <1>1, <1>4, <1>5, <1>6, <1>12, <2>2, <2>4 DEF Pop
  <2> QED BY <2>3, <2>4
<1>13. CASE TakeNode(t)
  BY <1>1, <1>4, <1>5, <1>6, <1>13 DEF TakeNode, EndGet, Pop, KCas, KReturn, Again
<1>14. CASE Drop(t)
  BY <1>1, <1>4, <1>5, <1>6, <1>7, <1>14, SMTT(60)
     DEF Drop, LastReference, OneLess, EndGet, Pop, KCas, KReturn, Again
<1>15. CASE Mark(t)
  BY <1>1, <1>4, <1>5, <1>6, <1>15 DEF Mark, Unreferenced, EndGet, Pop, KCas, KReturn, Again
<1>16. CASE KStore(t)
  BY <1>1, <1>4, <1>5, <1>6, <1>16 DEF KStore, EndGet, Pop, KCas, KReturn, Again
<1>17. CASE KCas(t)
  BY <1>1, <1>4, <1>5, <1>6, <1>17, SMTT(60) DEF EndGet, Pop, KCas, KReturn, Again
<1>18. CASE KRetry(t)
  BY <1>1, <1>4, <1>5, <1>6, <1>18, SMTT(60) DEF KRetry, Alone, EndGet, Pop, KCas, KReturn, Again
<1> QED BY ONLY Start(t) \/ Work(t), <1>8, <1>9, <1>10, <1>11, <1>12, <1>13, <1>14, <1>15,
                <1>16, <1>17, <1>18 DEF Start, Work

(* Nobody changes the link of a node that others have read or pushed. *)
LEMMA LinksNext ==
  ASSUME IInv, Shape', NEW t \in Threads, Start(t) \/ Work(t), NEW u \in Threads,
         pc'[u] \in {"pop", "kstore", "kcas"}
  PROVE  link'[u] = next'[node'[u]]
<1>1. Shape /\ \A v \in Threads \ {t} : /\ pc'[v] = pc[v] /\ node'[v] = node[v]
                                        /\ link'[v] = link[v]
  BY ShapeAndWorks, OthersRest DEF IInv
<1>2. /\ pc[u] \notin {"idle", "load"} => node[u] \in Nodes /\ Sound(node[u])
      /\ pc[u] \in {"pop", "kstore", "kcas"} => link[u] = next[node[u]]
      /\ pc[t] \notin {"idle", "load"} => node[t] \in Nodes /\ Sound(node[t])
  BY KnowsNow
<1>3. CASE u = t
  <2>1. \/ LoadNext(t) \/ KNext(t) \/ KStore(t)
    BY <1>1, <1>3
       DEF Shape, Start, StartGet, StartAdd, Work, LoadHead, LoadRefs, Acquire, LoadNext, Pop,
           TakeNode, Drop, Mark, KLoad, KNext, KStore, KCas, KRetry, KReturn, Again, EndGet
  <2> QED BY <1>1, <1>2, <1>3, <2>1 DEF Shape, Links, LoadNext, KNext, KStore
<1>4. CASE u # t
  <2>1. /\ pc[u] \in {"pop", "kstore", "kcas"} /\ node[u] \in Nodes /\ Sound(node[u])
        /\ link[u] = next[node[u]] /\ pc'[u] = pc[u] /\ node'[u] = node[u] /\ link'[u] = link[u]
    BY <1>1, <1>2, <1>4
  <2>2. ASSUME next' = next PROVE link'[u] = next'[node'[u]]
    BY <2>1, <2>2
  <2>3. ASSUME KNext(t) PROVE node[t] # node[u]
    <3>1. SUFFICES ASSUME node[t] = node[u] PROVE FALSE
      OBVIOUS
    <3> DEFINE n == node[u]
    <3>2. pc[t] = "knext" /\ Num(n, FreshPlaces) >= 1
      BY <2>3, <3>1, Counted DEF KNext, FreshPlaces
    <3>3. CASE pc[u] = "pop"
      <4>1. Num(n, ReadPlaces) >= 1
        BY <3>3, Counted DEF ReadPlaces
      <4> QED BY <2>1, <3>2, <4>1, NumbersType DEF Sound, Balanced
    <3>4. CASE pc[u] = "kstore"
      <4>1. Num(n, FreshPlaces) >= 2
        BY <1>4, <3>1, <3>2, <3>4, CountedTwice DEF FreshPlaces
      <4> QED BY <2>1, <4>1, NumbersType DEF Sound, Balanced
    <3>5. CASE pc[u] = "kcas"
      <4>1. Num(n, ReadyPlaces) >= 1
        BY <3>5, Counted DEF ReadyPlaces
      <4> QED BY <2>1, <3>2, <4>1, NumbersType DEF Sound, Balanced
    <3> QED BY <2>1, <3>3, <3>4, <3>5
  <2>4. CASE KNext(t)
    BY <1>1, <2>1, <2>3, <2>4 DEF KNext, Shape, Links
  <2>5. next' = next \/ KNext(t)
    BY DEF Start, StartGet, StartAdd, Work, LoadHead, LoadRefs, Acquire, LoadNext, Pop,
           TakeNode, Drop, Mark, KLoad, KStore, KCas, KRetry
  <2> QED BY <2>2, <2>4, <2>5
<1> QED BY <1>3, <1>4

LEMMA IInvInit == Init => IInv
<1> SUFFICES ASSUME Init PROVE IInv
  OBVIOUS
<1>1. Should \in Nat /\ 2 * Should - 1 >= 0
  BY ShouldAssumption, ThreadsAssumption, FS_CardinalityType
<1>2. PICK owner \in [Nodes -> Threads] : holds = [t \in Threads |-> {n \in Nodes : owner[n] = t}]
  BY DEF Init
<1>3. TypeOK
  <2>1. Count(0) = 0 /\ 0 <= Cardinality(Threads) + 1
    BY CountBelow, ShouldAssumption, ThreadsAssumption, FS_CardinalityType
  <2> QED BY <1>1, <1>2, <2>1 DEF Init, TypeOK, Opt, Places
<1>4. \A t \in Threads : Knows(t)
  BY DEF Init, Knows
<1>5. OnList = {} /\ Linear(flhead, next)
  <2>1. flhead = Null /\ next \in Links
    BY DEF Init, Links, Opt
  <2> QED BY <2>1, EmptyList DEF OnList
<1>6. ASSUME NEW n \in Nodes PROVE Sound(n)
  <2>1. \A P : "idle" \notin P => Num(n, P) = 0
    <3>1. ASSUME NEW P, "idle" \notin P PROVE At(n, P) = {}
      BY <3>1 DEF Init, At
    <3> QED BY <3>1, NumType
  <2>2. Holders(n) = {owner[n]}
    BY <1>2 DEF Holders
  <2>3. Cardinality(Holders(n)) = 1
    BY <2>2, FS_Singleton
  <2>4. /\ Num(n, ReadPlaces) = 0 /\ Num(n, {"take"}) = 0 /\ Num(n, {"add"}) = 0
        /\ Num(n, FreshPlaces) = 0 /\ Num(n, ReadyPlaces) = 0
    BY <2>1 DEF ReadPlaces, FreshPlaces, ReadyPlaces
  <2>5. Listed(n) = 0 /\ refs[n] = 0
    BY <1>5 DEF Listed, Init
  <2> QED BY <2>3, <2>4, <2>5 DEF Sound, Balanced
<1> QED BY <1>3, <1>4, <1>5, <1>6 DEF IInv

LEMMA IInvNext == IInv /\ [Next]_vars => IInv'
<1> SUFFICES ASSUME IInv, [Next]_vars PROVE IInv'
  OBVIOUS
<1>1. Shape' /\ \A t \in Threads : Works(t)'
  BY ShapeNext DEF IInv
<1>2. CASE UNCHANGED vars
  <2>1. TypeOK' /\ (\A t \in Threads : Knows(t)') /\ Linear(flhead, next)' /\ OnList' = OnList
    BY <1>2 DEF IInv, TypeOK, Knows, vars, OnList
  <2>2. \A n, P : Num(n, P)' = Num(n, P)
    BY <1>2 DEF Num, At, vars
  <2>3. ASSUME NEW n \in Nodes PROVE Sound(n)'
    <3>1. /\ refs'[n] = refs[n] /\ Holders(n)' = Holders(n) /\ Listed(n)' = Listed(n)
          /\ Sound(n)
      BY <1>2, <2>1 DEF vars, Holders, Listed, IInv
    <3> QED BY <2>2, <3>1 DEF Sound, ReadPlaces, FreshPlaces, ReadyPlaces
  <2> QED BY <2>1, <2>3 DEF IInv
<1>3. ASSUME NEW t \in Threads, Start(t) \/ Work(t) PROVE IInv'
  <2>1. \A n \in Nodes : Sound(n)'
    BY <1>1, <1>3, SoundStep
  <2>2. Linear(flhead, next)'
    BY <1>1, <1>3, ListStep
  <2>3. \A u \in Threads : Knows(u)'
    BY <1>1, <1>3, LinksNext DEF Knows, Works
  <2>4. TypeOK'
    <3>1. ASSUME NEW n \in Nodes
          PROVE  refs'[n] \in 0 .. 2 * Should - 1 /\ Count(refs'[n]) <= Cardinality(Threads) + 1
      <4>1. (Sound(n) => /\ refs[n] \in 0 .. 2 * Should - 1
                         /\ Count(refs[n]) <= Cardinality(Threads) + 1)'
        BY CountsAreBounded, PTL
      <4> QED BY <2>1, <4>1
    <3> QED BY <1>1, <3>1 DEF Shape, TypeOK, Links
  <2> QED BY <2>1, <2>2, <2>3, <2>4 DEF IInv
<1> QED BY <1>2, <1>3 DEF Next

LEMMA Invariance == Spec => []IInv
  BY IInvInit, IInvNext, PTL DEF Spec
--------------------------------------------------------------------------------
(***************************************************************************)
(* Every variable has its type; in particular a count is at most one more  *)
(* than the threads, and never reaches the mark from below, whatever their *)
(* number (1287-1391).                                                     *)
(***************************************************************************)
THEOREM FreeListTypeOK == Spec => []TypeOK
<1>1. IInv => TypeOK
  BY DEF IInv
<1> QED BY Invariance, <1>1, PTL

LEMMA UnionCount ==
  ASSUME NEW A, IsFiniteSet(A), NEW B, IsFiniteSet(B)
  PROVE  /\ IsFiniteSet(A \cup B) /\ Cardinality(A \cup B) \in Nat
         /\ Cardinality(A \cup B) <= Cardinality(A) + Cardinality(B)
<1>1. /\ IsFiniteSet(A \cup B)
      /\ Cardinality(A \cup B) = Cardinality(A) + Cardinality(B) - Cardinality(A \cap B)
  BY FS_Union
<1>2. IsFiniteSet(A \cap B)
  BY FS_Subset
<1>3. /\ Cardinality(A) \in Nat /\ Cardinality(B) \in Nat
      /\ Cardinality(A \cap B) \in Nat /\ Cardinality(A \cup B) \in Nat
  BY <1>1, <1>2, FS_CardinalityType
<1> QED BY <1>1, <1>3

(* The numbers of a node count its owners. *)
LEMMA OwnersCounted ==
  ASSUME NEW n
  PROVE  /\ IsFiniteSet(Owners(n))
         /\ Cardinality(Owners(n)) \in Nat
         /\ Cardinality(Owners(n))
              <= Cardinality(Holders(n)) + Num(n, {"take"}) + Num(n, {"add"})
<1> DEFINE A == Holders(n)
           B == At(n, {"take"})
           C == At(n, {"add"})
<1>1. IsFiniteSet(A) /\ IsFiniteSet(B) /\ IsFiniteSet(C)
  BY HoldersType, NumType
<1>2. Owners(n) = (A \cup B) \cup C
  BY DEF Owners, InHand, Holders, At
<1> HIDE DEF A, B, C
<1>3. /\ IsFiniteSet(A \cup B) /\ Cardinality(A \cup B) \in Nat
      /\ Cardinality(A \cup B) <= Cardinality(A) + Cardinality(B)
  BY <1>1, UnionCount
<1>4. /\ IsFiniteSet((A \cup B) \cup C) /\ Cardinality((A \cup B) \cup C) \in Nat
      /\ Cardinality((A \cup B) \cup C) <= Cardinality(A \cup B) + Cardinality(C)
  BY <1>1, <1>3, UnionCount
<1>5. Cardinality(A) \in Nat /\ Cardinality(B) \in Nat /\ Cardinality(C) \in Nat
  BY <1>1, FS_CardinalityType
<1> QED BY <1>2, <1>3, <1>4, <1>5 DEF A, B, C, Num

(***************************************************************************)
(* A block has one user, whatever the interleaving and the number of       *)
(* threads and blocks: the exchange that takes a node off the list cannot  *)
(* succeed with a stale link, because the reference of the thread keeps    *)
(* the node from being added again (1328-1338).                            *)
(***************************************************************************)
THEOREM FreeListOneUser == Spec => []OneUser
<1>1. ASSUME IInv PROVE OneUser
  <2>1. ASSUME NEW n \in Nodes
        PROVE  Cardinality(Owners(n)) + (IF n \in OnList THEN 1 ELSE 0) <= 1
    <3>1. Sound(n)
      BY <1>1 DEF IInv
    <3> QED BY <3>1, OwnersCounted, NumbersType DEF Sound, Balanced, Listed
  <2>2. ASSUME NEW t \in Threads, pc[t] = "take" PROVE ~Marked(refs[node[t]])
    <3>1. Sound(node[t])
      BY <1>1, <2>2, KnowsNow
    <3>2. Num(node[t], {"take"}) >= 1
      BY <2>2, Counted
    <3> QED BY <3>1, <3>2, NumbersType, ShouldAssumption DEF Sound, Balanced, Marked
  <2> QED BY <2>1, <2>2 DEF OneUser
<1> QED BY Invariance, <1>1, PTL

(***************************************************************************)
(* No block is lost: what nobody has is marked, and one of the threads     *)
(* that still refer to it puts it back (1341-1347, 1372-1376).             *)
(***************************************************************************)
THEOREM FreeListLosesNone == Spec => []NoneLost
<1>1. ASSUME IInv PROVE NoneLost
  <2> SUFFICES ASSUME NEW n \in Nodes,
                      Owners(n) = {}, n \notin OnList, \A t \in Threads : ~Adding(t, n)
               PROVE  Marked(refs[n]) /\ \E t \in Threads : Refers(t, n)
    BY DEF NoneLost
  <2>1. /\ Holders(n) = {} /\ At(n, {"take"}) = {} /\ At(n, {"add"}) = {}
        /\ At(n, FreshPlaces) = {} /\ At(n, ReadyPlaces) = {}
    BY DEF Owners, InHand, Adding, Holders, At, FreshPlaces, ReadyPlaces
  <2>2. /\ Cardinality(Holders(n)) = 0 /\ Num(n, {"take"}) = 0 /\ Num(n, {"add"}) = 0
        /\ Num(n, FreshPlaces) = 0 /\ Num(n, ReadyPlaces) = 0 /\ Listed(n) = 0
    BY <2>1, NumType, HoldersType DEF Listed
  <2>3. refs[n] = Num(n, ReadPlaces) + Should /\ Num(n, ReadPlaces) > 0
    <3>1. Sound(n)
      BY <1>1 DEF IInv
    <3> QED BY <2>2, <3>1, NumbersType, ShouldAssumption DEF Sound, Balanced
  <2>4. At(n, ReadPlaces) # {}
    BY <2>3, NumType
  <2> QED BY <2>3, <2>4, NumbersType, ShouldAssumption DEF Marked, At, Refers, ReadPlaces
<1> QED BY Invariance, <1>1, PTL

(***************************************************************************)
(* "We run only one copy of this method per node at a time": never do two  *)
(* threads add the same node (1359-1360).                                  *)
(***************************************************************************)
THEOREM FreeListOneAdder == Spec => []OneAdder
<1>1. ASSUME IInv PROVE OneAdder
  <2> SUFFICES ASSUME NEW n \in Nodes
               PROVE  Cardinality({t \in Threads : Adding(t, n)}) <= 1
    BY DEF OneAdder
  <2> DEFINE A == At(n, FreshPlaces)
             B == At(n, ReadyPlaces)
  <2> DEFINE C == {t \in Threads : Adding(t, n)}
  <2>1. C = A \cup B
    BY DEF Adding, At, FreshPlaces, ReadyPlaces
  <2>2. IsFiniteSet(A) /\ IsFiniteSet(B)
    BY NumType
  <2> HIDE DEF A, B, C
  <2>3. /\ Cardinality(A \cup B) \in Nat
        /\ Cardinality(A \cup B) <= Cardinality(A) + Cardinality(B)
    BY <2>2, UnionCount
  <2>4. Cardinality(A) + Cardinality(B) <= 1
    <3>1. Sound(n)
      BY <1>1 DEF IInv
    <3>2. Num(n, FreshPlaces) + Num(n, ReadyPlaces) <= 1
      BY <3>1, NumbersType DEF Sound, Balanced
    <3> QED BY <3>2 DEF A, B, Num
  <2>5. Cardinality(A) \in Nat /\ Cardinality(B) \in Nat
    BY <2>2, FS_CardinalityType
  <2>6. Cardinality(C) <= 1
    BY <2>1, <2>3, <2>4, <2>5
  <2> QED BY <2>6 DEF C
<1> QED BY Invariance, <1>1, PTL
================================================================================
