------------------------- MODULE WrappedCountersProofs -------------------------
(***************************************************************************)
(* What index_t's wrapped values still tell about the integers they stand  *)
(* for, and that the counters of a producer, wrapped, never give out an    *)
(* element that is not there.                                              *)
(*                                                                         *)
(* The argument.  Held says which integers T, H, O, V the four counters    *)
(* stand for, and which K and S the locals of the consumers.  With them    *)
(* the proof is that of SubQueueProofs, but for one thing: a comparison    *)
(* may be wrong.  If it says "behind" of a count that is far behind, a     *)
(* consumer gives up that need not; no harm is done.  If it said "behind"  *)
(* of one far ahead, two consumers would be sent to one element.  A count  *)
(* is ahead of the tail by the failures its consumer did not see, and      *)
(* these are no more than the tickets others took while it slept and the   *)
(* ones they held when it went to sleep.                                   *)
(***************************************************************************)
EXTENDS WrappedCounters, FiniteSetTheorems, TLAPS

(* A remainder is determined, for a quotient of either sign. *)
LEMMA RemainderUnique ==
  ASSUME NEW M \in Nat \ {0}, NEW q \in Int, NEW r \in 0 .. M - 1
  PROVE  (M * q + r) % M = r /\ (M * q + r) \div M = q
  BY Z3T(30)

(* Every integer is a multiple of M and a remainder. *)
LEMMA IntegerDivision ==
  ASSUME NEW M \in Nat \ {0}, NEW n \in Int
  PROVE  /\ n = M * (n \div M) + (n % M)
         /\ n \div M \in Int
         /\ n % M \in 0 .. M - 1
  OBVIOUS

(* A multiple of the modulus added to a number leaves its remainder. *)
LEMMA RemainderOfSum ==
  ASSUME NEW M \in Nat \ {0}, NEW n \in Int, NEW k \in Int
  PROVE  (n + M * k) % M = n % M
<1> DEFINE q == n \div M
           r == n % M
<1>1. n = M * q + r /\ q \in Int /\ r \in 0 .. M - 1
  BY IntegerDivision
<1> HIDE DEF q, r
<1>2. n + M * k = M * (q + k) + r
  <2>1. M * (q + k) = M * q + M * k
    BY <1>1, Z3T(30)
  <2>2. M * q \in Int /\ M * k \in Int
    BY <1>1
  <2> QED BY <1>1, <2>1, <2>2
<1>3. q + k \in Int
  BY <1>1
<1>4. (M * (q + k) + r) % M = r
  BY <1>1, <1>3, RemainderUnique
<1> QED BY <1>2, <1>4 DEF r

LEMMA ModuloSuccessor ==
  ASSUME NEW M \in Nat \ {0}, NEW n \in Nat
  PROVE  ((n % M) + 1) % M = (n + 1) % M
<1> DEFINE q == n \div M
           r == n % M
<1>1. n = M * q + r /\ q \in Int /\ r \in 0 .. M - 1
  BY IntegerDivision
<1> HIDE DEF q, r
<1>2. CASE r + 1 < M
  <2>0. M \in Nat \ {0} /\ 0 \in Int
    OBVIOUS
  <2>1. n + 1 = M * q + (r + 1) /\ r + 1 \in 0 .. M - 1
    BY <1>1, <1>2
  <2>2. (n + 1) % M = r + 1
    BY <2>1, <1>1, RemainderUnique
  <2>3. r + 1 = M * 0 + (r + 1)
    BY <1>1
  <2>4. (r + 1) % M = r + 1
    BY ONLY <2>1, <2>3, <2>0, RemainderUnique
  <2> QED BY <2>2, <2>4 DEF r
<1>3. CASE r + 1 = M
  <2>1. n + 1 = M * (q + 1) + 0
    BY <1>1, <1>3
  <2>2. (n + 1) % M = 0
    BY <2>1, <1>1, RemainderUnique
  <2>3. r + 1 = M * 1 + 0
    BY <1>1, <1>3
  <2>4. (r + 1) % M = 0
    BY <2>3, RemainderUnique
  <2> QED BY <2>2, <2>4 DEF r
<1> QED BY <1>1, <1>2, <1>3

LEMMA IndexModPositive == IndexMod \in Nat \ {0}
  BY CircularIndexAssumption DEF IndexMod

(* Counters that wrap have the difference that they would have without. *)
LEMMA DifferenceOfWrapped ==
  ASSUME NEW a \in Int, NEW b \in Int
  PROVE  Wrap(Wrap(a) - Wrap(b)) = Wrap(a - b)
<1> DEFINE M == IndexMod
           p == a \div M
           q == b \div M
           d == Wrap(a) - Wrap(b)
<1>1. M \in Nat \ {0}
  BY IndexModPositive
<1>2. a = M * p + Wrap(a) /\ p \in Int /\ Wrap(a) \in Int
  BY <1>1, IntegerDivision DEF Wrap
<1>3. b = M * q + Wrap(b) /\ q \in Int /\ Wrap(b) \in Int
  BY <1>1, IntegerDivision DEF Wrap
<1> HIDE DEF M, p, q
<1>4. d \in Int
  BY <1>2, <1>3
<1>5. a - b = d + M * (p - q)
  <2>1. M * (p - q) = M * p - M * q
    BY <1>1, <1>2, <1>3, Z3T(30)
  <2>2. M * p \in Int /\ M * q \in Int
    BY <1>1, <1>2, <1>3
  <2> HIDE DEF d
  <2>3. d = Wrap(a) - Wrap(b)
    BY DEF d
  <2> QED BY <1>2, <1>3, <2>1, <2>2, <2>3
<1>6. p - q \in Int
  BY <1>2, <1>3
<1> HIDE DEF d
<1>7. (d + M * (p - q)) % M = d % M
  BY <1>1, <1>4, <1>6, RemainderOfSum
<1> QED BY <1>5, <1>7 DEF d, M, Wrap

(***************************************************************************)
(* circular_less_than orders two wrapped counters as the counters          *)
(* themselves are ordered, as long as neither is further ahead than half   *)
(* of the range of index_t (concurrentqueue.h:333-345).                    *)
(***************************************************************************)
THEOREM CircularOrder ==
  ASSUME NEW a \in Int, NEW b \in Int, b - a < Half, a - b <= Half
  PROVE  CircularLess(Wrap(a), Wrap(b)) <=> a < b
<1>1. CircularLess(Wrap(a), Wrap(b)) <=> Wrap(a - b) > Half
  BY DifferenceOfWrapped DEF CircularLess
<1>2. Half \in Nat \ {0} /\ IndexMod = 2 * Half /\ IndexMod \in Nat \ {0}
  BY CircularIndexAssumption, IndexModPositive DEF IndexMod
<1>3. CASE a < b
  <2>1. (a - b) + IndexMod \in 0 .. IndexMod - 1 /\ (a - b) + IndexMod > Half
    BY <1>2, <1>3
  <2>2. (IndexMod * (-1) + ((a - b) + IndexMod)) % IndexMod = (a - b) + IndexMod
    BY <1>2, <2>1, RemainderUnique
  <2>3. IndexMod * (-1) + ((a - b) + IndexMod) = a - b
    BY <1>2
  <2>4. Wrap(a - b) > Half
    BY <2>1, <2>2, <2>3 DEF Wrap
  <2> QED BY <1>1, <1>3, <2>4
<1>4. CASE ~(a < b)
  <2>1. a - b \in 0 .. IndexMod - 1
    BY <1>2, <1>4
  <2>2. (IndexMod * 0 + (a - b)) % IndexMod = a - b
    BY <1>2, <2>1, RemainderUnique
  <2>3. IndexMod * 0 + (a - b) = a - b
    BY <1>2, <2>1
  <2>4. Wrap(a - b) = a - b
    BY <2>2, <2>3 DEF Wrap
  <2> QED BY <1>1, <1>2, <1>4, <2>4
<1> QED BY <1>3, <1>4

(***************************************************************************)
(* A block that is k blocks behind or ahead of another is found k entries  *)
(* behind or ahead of it in the circular block index, even though the      *)
(* division of the code loses the sign of k, and even if an index wrapped  *)
(* between them: the number of entries and the size of a block divide the  *)
(* range of index_t (concurrentqueue.h:2775-2778).                         *)
(***************************************************************************)
THEOREM OffsetSurvivesWrap ==
  ASSUME NEW base \in Int, NEW from \in Int, NEW k \in Int,
         NEW capacity \in Nat \ {0}, NEW m \in Nat \ {0},
         base - from = BlockSize * k,
         IndexMod = BlockSize * (capacity * m)
  PROVE  BlockOffset(Wrap(base), Wrap(from), capacity) = k % capacity
<1> DEFINE n == capacity * m
           q == k \div n
           r == k % n
<1>1. n \in Nat \ {0} /\ BlockSize \in Nat \ {0} /\ IndexMod \in Nat \ {0}
  <2>1. capacity * m \in Nat
    OBVIOUS
  <2>2. capacity * m # 0
    BY Z3T(30)
  <2> QED BY <2>1, <2>2, CircularIndexAssumption, IndexModPositive
<1>2. k = n * q + r /\ q \in Int /\ r \in 0 .. n - 1
  BY <1>1, IntegerDivision
<1>3. IndexMod = BlockSize * n
  OBVIOUS
<1> HIDE DEF n, q, r
<1>4. BlockSize * k = IndexMod * q + BlockSize * r
  BY <1>1, <1>2, <1>3, Z3T(30)
<1>5. BlockSize * r \in 0 .. IndexMod - 1
  <2>1. r \in Nat /\ n - 1 - r \in Nat
    BY <1>1, <1>2
  <2>2. BlockSize * r \in Nat /\ BlockSize * (n - 1 - r) \in Nat
    BY <1>1, <2>1
  <2>3. IndexMod = BlockSize * r + BlockSize * (n - 1 - r) + BlockSize
    BY <1>1, <1>3, <2>1, Z3T(30)
  <2> QED BY <1>1, <2>2, <2>3
<1>6. Wrap(base - from) = BlockSize * r
  <2>1. base - from = IndexMod * q + BlockSize * r
    BY <1>4
  <2>2. (IndexMod * q + BlockSize * r) % IndexMod = BlockSize * r
    BY <1>1, <1>2, <1>5, RemainderUnique
  <2> QED BY <2>1, <2>2 DEF Wrap
<1>7. (BlockSize * r) \div BlockSize = r
  <2>1. BlockSize * r = BlockSize * r + 0 /\ 0 \in 0 .. BlockSize - 1 /\ r \in Int
    BY <1>1, <1>2, <1>5
  <2>2. (BlockSize * r + 0) \div BlockSize = r
    BY <1>1, <2>1, RemainderUnique
  <2> QED BY <2>1, <2>2
<1>8. r % capacity = k % capacity
  <2>1. n * q = capacity * (m * q) /\ m * q \in Int
    BY <1>2, Z3T(30) DEF n
  <2>2. k = r + capacity * (m * q) /\ r \in Int
    BY <1>1, <1>2, <2>1
  <2>3. (r + capacity * (m * q)) % capacity = r % capacity
    BY <2>1, <2>2, RemainderOfSum
  <2> QED BY <2>2, <2>3
<1>9. Wrap(Wrap(base) - Wrap(from)) = BlockSize * r
  BY <1>6, DifferenceOfWrapped
<1> QED BY <1>7, <1>8, <1>9 DEF BlockOffset
--------------------------------------------------------------------------------
(* What is added before or after wrapping is the same. *)
LEMMA WrapSum ==
  ASSUME NEW a \in Int, NEW b \in Int
  PROVE  Wrap(Wrap(a) + b) = Wrap(a + b)
<1> DEFINE M == IndexMod
           q == a \div M
           s == Wrap(a) + b
<1>1. M \in Nat \ {0}
  BY IndexModPositive
<1>2. a = M * q + Wrap(a) /\ q \in Int /\ Wrap(a) \in Int
  BY <1>1, IntegerDivision DEF Wrap
<1> HIDE DEF M, q
<1>3. M * q \in Int /\ s \in Int
  BY <1>1, <1>2
<1>4. a + b = s + M * q
  <2> DEFINE x == M * q
  <2>1. x \in Int /\ a = x + Wrap(a)
    BY <1>2, <1>3
  <2> HIDE DEF x
  <2>2. a + b = (Wrap(a) + b) + x
    BY <1>2, <2>1
  <2> QED BY <2>2 DEF x
<1> HIDE DEF s
<1>5. (s + M * q) % M = s % M
  BY <1>1, <1>2, <1>3, RemainderOfSum
<1> QED BY <1>4, <1>5 DEF Wrap, M, s

LEMMA WrapOfIndex ==
  ASSUME NEW n \in 0 .. IndexMod - 1
  PROVE  Wrap(n) = n
<1>1. IndexMod \in Nat \ {0} /\ n = IndexMod * 0 + n
  BY IndexModPositive
<1> QED BY <1>1, RemainderUnique DEF Wrap

LEMMA WrapInRange ==
  ASSUME NEW n \in Int
  PROVE  Wrap(n) \in 0 .. IndexMod - 1
BY IndexModPositive, IntegerDivision DEF Wrap

(* A count that is not behind, nor more than half the range ahead, does    *)
(* not look as if it were behind.                                          *)
LEMMA NotBehind ==
  ASSUME NEW a \in Int, NEW b \in Int, a <= b + Half,
         CircularLess(Wrap(a), Wrap(b))
  PROVE  a < b
<1>1. Half \in Nat \ {0}
  BY CircularIndexAssumption
<1> SUFFICES ASSUME b <= a PROVE FALSE
  BY <1>1
<1>2. b - a < Half /\ a - b <= Half
  BY <1>1
<1> QED BY <1>1, <1>2, CircularOrder

(* What a producer finds out before it starts a block. *)
LEMMA RoomMeans ==
  ASSUME NEW T \in Nat, NEW H \in Nat, T - H \in 0 .. Half - 1,
         CircularLess(Wrap(H), Wrap(Wrap(T) + BlockSize))
  PROVE  (T - H) + BlockSize < Half
<1> DEFINE n == (T - H) + BlockSize
<1>1. /\ Half \in Nat \ {0} /\ BlockSize \in Nat \ {0} /\ BlockSize <= Half
      /\ IndexMod = 2 * Half /\ IndexMod \in Nat \ {0}
  BY CircularIndexAssumption, IndexModPositive DEF IndexMod
<1>2. n \in 1 .. IndexMod - 1
  BY <1>1
<1>3. Wrap(Wrap(T) + BlockSize) = Wrap(T + BlockSize)
  BY <1>1, WrapSum
<1>4. Wrap(Wrap(H) - Wrap(T + BlockSize)) = Wrap(H - (T + BlockSize))
  BY <1>1, DifferenceOfWrapped
<1>5. H - (T + BlockSize) = IndexMod * (-1) + (IndexMod - n)
  BY <1>1
<1>6. IndexMod - n \in 0 .. IndexMod - 1
  BY <1>1, <1>2
<1> DEFINE m == IndexMod - n
<1> HIDE DEF n
<1>7. Wrap(H - (T + BlockSize)) = m
  <2>1. m \in 0 .. IndexMod - 1 /\ -1 \in Int
    BY <1>6
  <2> HIDE DEF m
  <2>2. (IndexMod * (-1) + m) % IndexMod = m
    BY <1>1, <2>1, RemainderUnique
  <2> QED BY <1>5, <2>2 DEF Wrap, m
<1>8. Wrap(H - (T + BlockSize)) = IndexMod - n
  BY <1>7
<1>9. IndexMod - n > Half
  BY <1>3, <1>4, <1>8 DEF CircularLess
<1> QED BY <1>1, <1>2, <1>9 DEF n
--------------------------------------------------------------------------------
(* How many consumers are at a place of G, when they are where f says. *)
Crowd(f, G) == Cardinality({c \in Consumers : f[c] \in G})

One(b) == IF b THEN 1 ELSE 0

LEMMA CrowdType ==
  ASSUME NEW f, NEW G
  PROVE  /\ IsFiniteSet({c \in Consumers : f[c] \in G})
         /\ Crowd(f, G) \in Nat
         /\ Cardinality(Consumers) \in Nat
         /\ Crowd(f, G) <= Cardinality(Consumers)
<1>1. {c \in Consumers : f[c] \in G} \in SUBSET Consumers
  OBVIOUS
<1> QED BY <1>1, ConsumersAssumption, FS_Subset, FS_CardinalityType DEF Crowd

(* One consumer is elsewhere. *)
LEMMA CrowdLess ==
  ASSUME NEW f, NEW G, NEW c \in Consumers, f[c] \notin G
  PROVE  Crowd(f, G) <= Cardinality(Consumers) - 1
<1> DEFINE A == {d \in Consumers : f[d] \in G}
<1>1. IsFiniteSet(A) /\ c \notin A /\ A \cup {c} \in SUBSET Consumers
  BY CrowdType
<1>2. Cardinality(A \cup {c}) = Cardinality(A) + 1
  BY <1>1, FS_AddElement
<1>3. Cardinality(A \cup {c}) <= Cardinality(Consumers)
  BY <1>1, ConsumersAssumption, FS_Subset
<1> HIDE DEF A
<1>4. Cardinality(A) \in Nat /\ Cardinality(Consumers) \in Nat
  BY <1>1, ConsumersAssumption, FS_CardinalityType
<1> QED BY <1>2, <1>3, <1>4 DEF Crowd, A

(* One consumer moves. *)
LEMMA CrowdMoves ==
  ASSUME NEW f \in [Consumers -> Places], NEW c \in Consumers, NEW to \in Places, NEW G
  PROVE  Crowd([f EXCEPT ![c] = to], G) = (Crowd(f, G) - One(f[c] \in G)) + One(to \in G)
<1> DEFINE g == [f EXCEPT ![c] = to]
           A == {d \in Consumers : f[d] \in G}
           B == {d \in Consumers : g[d] \in G}
           R == {d \in Consumers \ {c} : f[d] \in G}
<1>1. g[c] = to /\ \A d \in Consumers \ {c} : g[d] = f[d]
  OBVIOUS
<1> HIDE DEF g
<1>2. R = {d \in Consumers \ {c} : g[d] \in G}
  BY <1>1
<1>3. /\ IsFiniteSet(R) /\ c \notin R
      /\ A = (IF f[c] \in G THEN R \cup {c} ELSE R)
      /\ B = (IF to \in G THEN R \cup {c} ELSE R)
  <2>1. R \in SUBSET Consumers
    OBVIOUS
  <2>2. IsFiniteSet(R)
    BY <2>1, ConsumersAssumption, FS_Subset
  <2>3. A = (IF f[c] \in G THEN R \cup {c} ELSE R)
    OBVIOUS
  <2>4. B = (IF to \in G THEN R \cup {c} ELSE R)
    BY <1>1
  <2> QED BY <2>2, <2>3, <2>4
<1> HIDE DEF R, A, B
<1>4. Cardinality(R) \in Nat /\ Cardinality(R \cup {c}) = Cardinality(R) + 1
  BY <1>3, FS_CardinalityType, FS_AddElement
<1>5. Cardinality(A) = Cardinality(R) + One(f[c] \in G)
  BY <1>3, <1>4 DEF One
<1>6. Cardinality(B) = Cardinality(R) + One(to \in G)
  BY <1>3, <1>4 DEF One
<1>7. Crowd(f, G) = Cardinality(A) /\ Crowd([f EXCEPT ![c] = to], G) = Cardinality(B)
  BY DEF Crowd, A, B, g
<1> QED BY <1>4, <1>5, <1>6, <1>7 DEF One
--------------------------------------------------------------------------------
(* Between the load of overcommit and the ticket. *)
Waits == {"probe", "ticket"}

(* Between the ticket and the return. *)
Inside == {"compare", "claim", "giveup"}

(* The failed tickets of F below n. *)
Below(F, n) == {f \in F : f < n}

WTypes ==
  /\ cpc \in [Consumers -> Places]
  /\ seen \in [Consumers -> Nat] /\ ticket \in [Consumers -> Nat]
  /\ late \in [Consumers -> Nat]
  /\ stock \in Nat

(* The elements fit, and so do those that will fill the last block. *)
Room ==
  /\ stock <= Half - 1
  /\ tail % BlockSize # 0 => stock + (BlockSize - (tail % BlockSize)) <= Half - 1

(* The integers that the counters and the locals stand for. *)
Stands(T, H, O, V, S, K) ==
  /\ tail = Wrap(T) /\ head = Wrap(H) /\ optimistic = Wrap(O) /\ overcommit = Wrap(V)
  /\ \A c \in Consumers : cpc[c] \in Waits \cup {"compare"} => seen[c] = Wrap(S[c])
  /\ \A c \in Consumers : cpc[c] = "compare" => ticket[c] = Wrap(K[c])

Balance(T, H, O, V) ==
  /\ T = H + stock
  /\ O = H + V + Crowd(cpc, Inside)

(* F is the tickets that failed, P those that passed. *)
Fates(H, O, V, K, F, P) ==
  /\ \A t \in F \cup P : t < O
  /\ F \cap P = {}
  /\ Cardinality(F) = V + Crowd(cpc, {"giveup"})
  /\ Cardinality(P) = H + Crowd(cpc, {"claim"})
  /\ \A c \in Consumers : cpc[c] = "compare" => K[c] < O /\ K[c] \notin F \cup P
  /\ \A c, d \in Consumers :
       c # d /\ cpc[c] = "compare" /\ cpc[d] = "compare" => K[c] # K[d]

(* The overcommit a consumer saw counts failures older than its ticket. *)
SeenFailed(V, S, K, F) ==
  /\ \A c \in Consumers : cpc[c] \in Waits => S[c] <= V
  /\ \A c \in Consumers : cpc[c] = "compare" => S[c] <= Cardinality(Below(F, K[c]))

(* Every ticket that passed is below top, and top leaves room in T. *)
TopWithin(T, O, F, P, top) ==
  /\ top <= O
  /\ \A t \in P : t < top
  /\ top - Cardinality(Below(F, top)) <= T

(* How far overcommit is from what a consumer saw of it. *)
Lag(T, V, S, K) ==
  /\ \A c \in Consumers : cpc[c] \in {"idle", "overcommit"} => late[c] = 0
  /\ \A c \in Consumers : cpc[c] \in Waits =>
       /\ late[c] + Crowd(cpc, Waits) <= Patience + Cardinality(Consumers)
       /\ (V - S[c]) + Crowd(cpc, Inside) <= late[c] + Cardinality(Consumers) - 1
  /\ \A c \in Consumers : cpc[c] = "compare" => K[c] - S[c] <= T + Half

Held(T, H, O, V, S, K, F, P, top) ==
  /\ Stands(T, H, O, V, S, K)
  /\ Balance(T, H, O, V)
  /\ Fates(H, O, V, K, F, P)
  /\ SeenFailed(V, S, K, F)
  /\ TopWithin(T, O, F, P, top)
  /\ Lag(T, V, S, K)

WInv ==
  /\ WTypes
  /\ Room
  /\ \E T, H, O, V, top \in Nat, S, K \in [Consumers -> Nat], F, P \in SUBSET Nat :
       Held(T, H, O, V, S, K, F, P, top)

(* Nobody sleeps between overcommit and its ticket for half the range. *)
NobodyOversleeps == Patience + 2 * Cardinality(Consumers) <= Half + 2
--------------------------------------------------------------------------------
LEMMA NumbersBelow ==
  ASSUME NEW S \in SUBSET Nat, NEW n \in Nat, \A t \in S : t < n
  PROVE  IsFiniteSet(S) /\ Cardinality(S) \in Nat /\ Cardinality(S) <= n
<1>1. IsFiniteSet(0 .. n - 1) /\ Cardinality(0 .. n - 1) <= n
  BY FS_Interval, SMTT(60)
<1>2. S \in SUBSET (0 .. n - 1)
  OBVIOUS
<1>3. IsFiniteSet(S) /\ Cardinality(S) <= Cardinality(0 .. n - 1)
  BY <1>1, <1>2, FS_Subset
<1>4. Cardinality(S) \in Nat /\ Cardinality(0 .. n - 1) \in Nat
  BY <1>1, <1>3, FS_CardinalityType
<1> QED BY <1>1, <1>3, <1>4

LEMMA BelowGrows ==
  ASSUME NEW F \in SUBSET Nat, NEW G \in SUBSET Nat, F \subseteq G,
         NEW m \in Nat, NEW n \in Nat, m <= n
  PROVE  /\ Cardinality(Below(F, m)) \in Nat
         /\ Cardinality(Below(G, n)) \in Nat
         /\ Cardinality(Below(F, m)) <= Cardinality(Below(G, n))
<1> DEFINE A == Below(F, m)
           B == Below(G, n)
<1>1. A \in SUBSET Nat /\ B \in SUBSET Nat /\ A \in SUBSET B /\ \A t \in B : t < n
  <2>1. ASSUME NEW f \in A PROVE f \in B
    <3>1. f \in Nat /\ f < m /\ f \in G
      BY DEF Below
    <3> QED BY <3>1 DEF Below
  <2> QED BY <2>1 DEF Below
<1>2. IsFiniteSet(B) /\ Cardinality(B) \in Nat
  BY <1>1, NumbersBelow
<1>3. IsFiniteSet(A) /\ Cardinality(A) \in Nat /\ Cardinality(A) <= Cardinality(B)
  BY <1>1, <1>2, FS_Subset, FS_CardinalityType
<1> QED BY <1>2, <1>3

(* There is an element for every ticket that passed. *)
LEMMA PassedFit ==
  ASSUME NEW T \in Nat, NEW top \in Nat, NEW F \in SUBSET Nat, NEW P \in SUBSET Nat,
         F \cap P = {}, \A t \in P : t < top, top - Cardinality(Below(F, top)) <= T
  PROVE  Cardinality(P) <= T
<1> DEFINE B == Below(F, top)
<1>1. B \in SUBSET Nat /\ (\A t \in B : t < top) /\ P \cap B = {}
  BY DEF Below
<1> HIDE DEF B
<1>2. /\ IsFiniteSet(P) /\ Cardinality(P) \in Nat
      /\ IsFiniteSet(B) /\ Cardinality(B) \in Nat
  BY <1>1, NumbersBelow
<1>3. Cardinality(P \cup B) = Cardinality(P) + Cardinality(B)
  <2>1. Cardinality(P \cap B) = 0
    BY <1>1, FS_EmptySet
  <2>2. Cardinality(P \cup B) = Cardinality(P) + Cardinality(B) - Cardinality(P \cap B)
    BY <1>2, FS_Union
  <2> QED BY <1>2, <2>1, <2>2
<1>4. (P \cup B) \in SUBSET Nat /\ \A t \in P \cup B : t < top
  BY <1>1
<1>5. Cardinality(P \cup B) <= top
  BY <1>4, NumbersBelow
<1>6. top - Cardinality(B) <= T
  BY DEF B
<1> QED BY <1>2, <1>3, <1>5, <1>6

LEMMA ClaimsWithinStock ==
  ASSUME NEW T \in Nat, NEW H \in Nat, NEW O \in Nat, NEW V \in Nat, NEW top \in Nat,
         NEW S \in [Consumers -> Nat], NEW K \in [Consumers -> Nat],
         NEW F \in SUBSET Nat, NEW P \in SUBSET Nat,
         WTypes, Room, Held(T, H, O, V, S, K, F, P, top)
  PROVE  Crowd(cpc, {"claim"}) <= stock
<1>1. Cardinality(P) <= T
  BY PassedFit DEF Held, Fates, TopWithin
<1>2. Cardinality(P) = H + Crowd(cpc, {"claim"}) /\ T = H + stock
  BY DEF Held, Fates, Balance
<1>3. Crowd(cpc, {"claim"}) \in Nat /\ stock \in Nat
  BY CrowdType DEF WTypes
<1> QED BY <1>1, <1>2, <1>3

(* What a step of c does to the crowds. *)
LEMMA Moves ==
  ASSUME WTypes, NEW c \in Consumers, NEW from, NEW to \in Places, Goto(c, from, to)
  PROVE  /\ cpc' \in [Consumers -> Places]
         /\ cpc[c] = from /\ cpc'[c] = to
         /\ \A d \in Consumers \ {c} : cpc'[d] = cpc[d]
BY DEF WTypes, Goto

(* And the numbers of consumers at the places with it. *)
LEMMA CrowdsMove ==
  ASSUME WTypes, NEW c \in Consumers, NEW from, NEW to \in Places,
         Goto(c, from, to), NEW G
  PROVE  /\ Crowd(cpc, G) \in Nat /\ Crowd(cpc', G) \in Nat
         /\ Cardinality(Consumers) \in Nat
         /\ Crowd(cpc', G) <= Cardinality(Consumers)
         /\ Crowd(cpc', G) = (Crowd(cpc, G) - One(from \in G)) + One(to \in G)
<1>1. cpc' = [cpc EXCEPT ![c] = to] /\ cpc[c] = from /\ cpc \in [Consumers -> Places]
  BY DEF WTypes, Goto
<1>2. Crowd(cpc', G) = (Crowd(cpc, G) - One(from \in G)) + One(to \in G)
  BY ONLY <1>1, c \in Consumers, to \in Places, CrowdMoves, ZenonT(60)
<1> QED BY <1>2, CrowdType
--------------------------------------------------------------------------------
(* A published element stands for itself: the block it is in fits. *)
LEMMA EnqueueKeeps ==
  ASSUME NEW T \in Nat, NEW H \in Nat, NEW O \in Nat, NEW V \in Nat, NEW top \in Nat,
         NEW S \in [Consumers -> Nat], NEW K \in [Consumers -> Nat],
         NEW F \in SUBSET Nat, NEW P \in SUBSET Nat,
         WTypes, Room, Held(T, H, O, V, S, K, F, P, top), Enqueue
  PROVE  WTypes' /\ Room' /\ Held(T + 1, H, O, V, S, K, F, P, top)'
<1> USE DEF Enqueue, locals
<1>0. /\ Half \in Nat \ {0} /\ BlockSize \in Nat \ {0} /\ IndexMod \in Nat \ {0}
      /\ stock \in Nat /\ T = H + stock /\ tail = Wrap(T) /\ head = Wrap(H)
      /\ tail \in 0 .. IndexMod - 1
  BY CircularIndexAssumption, IndexModPositive, WrapInRange DEF WTypes, Held, Balance, Stands
<1>1. WTypes'
  BY DEF WTypes
<1>2. Room'
  <2> DEFINE r == tail % BlockSize
  <2>1. r \in 0 .. BlockSize - 1
    <3>1. tail \in Int /\ BlockSize \in Nat \ {0}
      BY <1>0
    <3> QED BY ONLY <3>1, IntegerDivision DEF r
  <2>2. stock + (BlockSize - r) <= Half - 1
    <3>1. CASE r = 0
      <4>1. CircularLess(Wrap(H), Wrap(Wrap(T) + BlockSize))
        BY <1>0, <3>1 DEF RoomForBlock
      <4>2. T - H = stock /\ T - H \in 0 .. Half - 1
        BY <1>0 DEF Room
      <4>3. (T - H) + BlockSize < Half
        BY <4>1, <4>2, RoomMeans
      <4> HIDE DEF r
      <4> QED BY <1>0, <3>1, <4>2, <4>3
    <3>2. CASE r # 0
      BY <3>2 DEF Room
    <3> QED BY <3>1, <3>2
  <2>3. tail' % BlockSize = 0 \/ (tail' % BlockSize = r + 1 /\ r + 1 < BlockSize)
    <3>1. CASE tail + 1 < IndexMod
      <4>1. tail' = tail + 1
        BY <1>0, <3>1, WrapOfIndex
      <4>2. (tail + 1) % BlockSize = (r + 1) % BlockSize
        BY <1>0, ModuloSuccessor
      <4>3. CASE r + 1 < BlockSize
        <5> HIDE DEF r
        <5>1. r + 1 = BlockSize * 0 + (r + 1) /\ r + 1 \in 0 .. BlockSize - 1
          BY <1>0, <2>1, <4>3
        <5>2. (r + 1) % BlockSize = r + 1
          <6>1. BlockSize \in Nat \ {0} /\ 0 \in Int
            BY <1>0
          <6> QED BY ONLY <5>1, <6>1, RemainderUnique
        <5> QED BY <4>1, <4>2, <4>3, <5>2
      <4>4. CASE r + 1 = BlockSize
        <5> HIDE DEF r
        <5>1. r + 1 = BlockSize * 1 + 0 /\ 0 \in 0 .. BlockSize - 1
          BY <1>0, <4>4
        <5>2. (r + 1) % BlockSize = 0
          BY <1>0, <5>1, RemainderUnique
        <5> QED BY <4>1, <4>2, <5>2
      <4> HIDE DEF r
      <4> QED BY <1>0, <2>1, <4>3, <4>4
    <3>2. CASE tail + 1 = IndexMod
      <4>1. IndexMod = IndexMod * 1 + 0 /\ 0 \in 0 .. IndexMod - 1 /\ 0 \in 0 .. BlockSize - 1
            /\ 0 = BlockSize * 0 + 0
        BY <1>0
      <4>2. IndexMod % IndexMod = 0 /\ 0 % BlockSize = 0
        BY <1>0, <4>1, RemainderUnique
      <4>3. tail' = 0
        BY <3>2, <4>2 DEF Wrap
      <4>4. tail' % BlockSize = 0
        BY <4>2, <4>3
      <4> QED BY <4>4
    <3> QED BY <1>0, <3>1, <3>2
  <2> HIDE DEF r
  <2>4. stock' = stock + 1 /\ stock' <= Half - 1
    BY <1>0, <2>1, <2>2
  <2> QED BY <1>0, <2>1, <2>2, <2>3, <2>4 DEF Room
<1>3. Stands(T + 1, H, O, V, S, K)'
  <2>1. tail' = Wrap(T + 1)
    BY <1>0, WrapSum
  <2> QED BY <2>1 DEF Held, Stands
<1>4. Balance(T + 1, H, O, V)'
  BY <1>0 DEF Held, Balance
<1>5. Fates(H, O, V, K, F, P)' /\ SeenFailed(V, S, K, F)'
  BY DEF Held, Fates, SeenFailed
<1>6. TopWithin(T + 1, O, F, P, top)'
  <2>1. Cardinality(Below(F, top)) \in Nat
    BY BelowGrows
  <2> QED BY <2>1 DEF Held, TopWithin
<1>7. Lag(T + 1, V, S, K)'
  BY <1>0 DEF Held, Lag
<1> QED BY <1>1, <1>2, <1>3, <1>4, <1>5, <1>6, <1>7 DEF Held

(* The loads of tail and the first comparison. *)
LEMMA LooksKeep ==
  ASSUME NEW T \in Nat, NEW H \in Nat, NEW O \in Nat, NEW V \in Nat, NEW top \in Nat,
         NEW S \in [Consumers -> Nat], NEW K \in [Consumers -> Nat],
         NEW F \in SUBSET Nat, NEW P \in SUBSET Nat,
         WTypes, Room, Held(T, H, O, V, S, K, F, P, top), NEW c \in Consumers,
         LoadTail(c) \/ ProbeFinds(c) \/ ProbeFails(c)
  PROVE  WTypes' /\ Room' /\ Held(T, H, O, V, S, K, F, P, top)'
<1>0. PICK from \in Places, to \in Places :
        /\ Goto(c, from, to)
        /\ <<from, to>> \in {<<"idle", "overcommit">>, <<"probe", "ticket">>, <<"probe", "idle">>}
  BY DEF LoadTail, ProbeFinds, ProbeFails, Leave, Places
<1>1. /\ UNCHANGED <<counters, stock>>
      /\ UNCHANGED <<seen, ticket, late>> \/ to = "idle"
      /\ \A d \in Consumers \ {c} : seen'[d] = seen[d] /\ ticket'[d] = ticket[d] /\ late'[d] = late[d]
      /\ seen' \in [Consumers -> Nat] /\ ticket' \in [Consumers -> Nat]
      /\ late' \in [Consumers -> Nat]
      /\ to = "idle" => late'[c] = 0
  BY <1>0 DEF LoadTail, ProbeFinds, ProbeFails, Leave, counters, locals, history, WTypes, Goto
<1>2. /\ cpc' \in [Consumers -> Places]
      /\ cpc[c] = from /\ cpc'[c] = to
      /\ \A d \in Consumers \ {c} : cpc'[d] = cpc[d]
  BY <1>0, Moves
<1>3. /\ Crowd(cpc', Inside) = Crowd(cpc, Inside)
      /\ Crowd(cpc', {"claim"}) = Crowd(cpc, {"claim"})
      /\ Crowd(cpc', {"giveup"}) = Crowd(cpc, {"giveup"})
      /\ Crowd(cpc', Waits) \in Nat /\ Crowd(cpc, Waits) \in Nat
      /\ Crowd(cpc', Waits) <= Crowd(cpc, Waits)
  BY ONLY <1>0, WTypes, c \in Consumers, CrowdsMove, SMTT(60) DEF One, Inside, Waits
<1>4. WTypes' /\ Room'
  BY <1>1, <1>2 DEF WTypes, Room, counters
<1>5. \A d \in Consumers :
        /\ cpc'[d] = "compare" => cpc[d] = "compare" /\ d # c
        /\ cpc'[d] \in Waits => cpc[d] \in Waits
  BY <1>0, <1>2 DEF Waits
<1>6. Stands(T, H, O, V, S, K)'
  BY <1>0, <1>1, <1>2, <1>5 DEF Held, Stands, counters, Waits
<1>7. Balance(T, H, O, V)' /\ Fates(H, O, V, K, F, P)' /\ SeenFailed(V, S, K, F)'
      /\ TopWithin(T, O, F, P, top)'
  <2>1. Balance(T, H, O, V)' /\ TopWithin(T, O, F, P, top)'
    BY <1>1, <1>3 DEF Held, Balance, TopWithin
  <2>2. Fates(H, O, V, K, F, P)'
    BY <1>3, <1>5 DEF Held, Fates
  <2>3. SeenFailed(V, S, K, F)'
    BY <1>5 DEF Held, SeenFailed
  <2> QED BY <2>1, <2>2, <2>3
<1>8. Lag(T, V, S, K)'
  <2>1. \A d \in Consumers : cpc'[d] \in {"idle", "overcommit"} => late'[d] = 0
    BY <1>0, <1>1, <1>2 DEF Held, Lag
  <2>2. ASSUME NEW d \in Consumers, cpc'[d] \in Waits
        PROVE  /\ late'[d] + Crowd(cpc', Waits) <= Patience + Cardinality(Consumers)
               /\ (V - S[d]) + Crowd(cpc', Inside) <= late'[d] + Cardinality(Consumers) - 1
    <3>1. cpc[d] \in Waits /\ late'[d] = late[d] /\ late[d] \in Nat
      BY <1>0, <1>1, <1>2, <1>5, <2>2 DEF WTypes, Waits
    <3>2. Cardinality(Consumers) \in Nat /\ Patience \in Nat
      BY CrowdType, PatienceAssumption
    <3>3. /\ late[d] + Crowd(cpc, Waits) <= Patience + Cardinality(Consumers)
          /\ (V - S[d]) + Crowd(cpc, Inside) <= late[d] + Cardinality(Consumers) - 1
      BY <3>1 DEF Held, Lag
    <3> QED BY <1>3, <3>1, <3>2, <3>3
  <2> QED BY <1>5, <2>1, <2>2 DEF Held, Lag
<1> QED BY <1>4, <1>6, <1>7, <1>8 DEF Held

(* Nobody is too late, so nobody will be when one more waits. *)
LEMMA LoadOvercommitKeeps ==
  ASSUME NEW T \in Nat, NEW H \in Nat, NEW O \in Nat, NEW V \in Nat, NEW top \in Nat,
         NEW S \in [Consumers -> Nat], NEW K \in [Consumers -> Nat],
         NEW F \in SUBSET Nat, NEW P \in SUBSET Nat,
         WTypes, Room, Held(T, H, O, V, S, K, F, P, top), NEW c \in Consumers, LoadOvercommit(c)
  PROVE  WTypes' /\ Room' /\ Held(T, H, O, V, [S EXCEPT ![c] = V], K, F, P, top)'
<1> DEFINE N == Cardinality(Consumers)
           Q == [S EXCEPT ![c] = V]
<1>1. /\ UNCHANGED <<counters, probeTail, ticket, history>>
      /\ seen' = [seen EXCEPT ![c] = overcommit] /\ overcommit = Wrap(V)
      /\ \A d \in Waiting : late[d] < Patience
      /\ Goto(c, "overcommit", "probe")
  BY DEF LoadOvercommit, Held, Stands
<1>2. /\ cpc' \in [Consumers -> Places]
      /\ cpc[c] = "overcommit" /\ cpc'[c] = "probe"
      /\ \A d \in Consumers \ {c} : cpc'[d] = cpc[d]
  BY <1>1, Moves DEF Places
<1>3. /\ Crowd(cpc', Inside) = Crowd(cpc, Inside)
      /\ Crowd(cpc', {"claim"}) = Crowd(cpc, {"claim"})
      /\ Crowd(cpc', {"giveup"}) = Crowd(cpc, {"giveup"})
      /\ Crowd(cpc', Waits) \in Nat /\ Crowd(cpc', Waits) <= N /\ N \in Nat
      /\ Crowd(cpc, Inside) \in Nat
  BY ONLY <1>1, WTypes, c \in Consumers, CrowdsMove, SMTT(60) DEF One, Inside, Waits, Places
<1>4. Wrap(V) \in Nat
  BY WrapInRange, IndexModPositive
<1>5. WTypes' /\ Room'
  BY <1>1, <1>2, <1>4 DEF WTypes, Room, counters, history
<1>6. \A d \in Consumers :
        /\ cpc'[d] = "compare" => cpc[d] = "compare" /\ d # c
        /\ cpc'[d] \in Waits /\ d # c => cpc[d] \in Waits
        /\ cpc'[d] \in {"idle", "overcommit"} => cpc[d] \in {"idle", "overcommit"}
  BY <1>2
<1>7. Q[c] = V /\ \A d \in Consumers \ {c} : Q[d] = S[d]
  OBVIOUS
<1> HIDE DEF Q
<1>8. Stands(T, H, O, V, Q, K)'
  <2>1. seen'[c] = Wrap(V) /\ \A d \in Consumers \ {c} : seen'[d] = seen[d]
    BY <1>1 DEF WTypes
  <2> QED BY <1>1, <1>6, <1>7, <2>1 DEF Held, Stands, counters
<1>9. Balance(T, H, O, V)' /\ TopWithin(T, O, F, P, top)'
  BY <1>1, <1>3 DEF Held, Balance, TopWithin, history
<1>10. Fates(H, O, V, K, F, P)'
  BY <1>3, <1>6 DEF Held, Fates
<1>11. SeenFailed(V, Q, K, F)'
  BY <1>6, <1>7 DEF Held, SeenFailed
<1>12. Lag(T, V, Q, K)'
  <2>1. \A d \in Consumers : cpc'[d] \in {"idle", "overcommit"} => late'[d] = 0
    BY <1>1, <1>6 DEF Held, Lag, history
  <2>2. ASSUME NEW d \in Consumers, cpc'[d] \in Waits
        PROVE  /\ late'[d] + Crowd(cpc', Waits) <= Patience + N
               /\ (V - Q[d]) + Crowd(cpc', Inside) <= late'[d] + N - 1
    <3>1. late' = late /\ Patience \in Nat
      BY <1>1, PatienceAssumption DEF history
    <3>2. CASE d = c
      <4>1. late[c] = 0
        BY <1>2 DEF Held, Lag
      <4>2. Crowd(cpc, Inside) <= N - 1
        BY <1>2, CrowdLess DEF Inside
      <4> QED BY <1>3, <1>7, <3>1, <3>2, <4>1, <4>2
    <3>3. CASE d # c
      <4>1. cpc[d] \in Waits
        BY <1>6, <2>2, <3>3
      <4>2. late[d] < Patience /\ late[d] \in Nat
        BY <1>1, <4>1 DEF Waiting, Waits, WTypes
      <4>3. (V - S[d]) + Crowd(cpc, Inside) <= late[d] + N - 1
        BY <4>1 DEF Held, Lag
      <4> QED BY <1>3, <1>7, <3>1, <3>3, <4>2, <4>3
    <3> QED BY <3>2, <3>3
  <2>3. \A d \in Consumers : cpc'[d] = "compare" => K[d] - Q[d] <= T + Half
    BY <1>6, <1>7 DEF Held, Lag
  <2> QED BY <2>1, <2>2, <2>3 DEF Lag
<1> QED BY <1>5, <1>8, <1>9, <1>10, <1>11, <1>12 DEF Held, Q

(* A new ticket is above every failure, and not far ahead of the tail. *)
LEMMA TakeTicketKeeps ==
  ASSUME NEW T \in Nat, NEW H \in Nat, NEW O \in Nat, NEW V \in Nat, NEW top \in Nat,
         NEW S \in [Consumers -> Nat], NEW K \in [Consumers -> Nat],
         NEW F \in SUBSET Nat, NEW P \in SUBSET Nat,
         WTypes, Room, Held(T, H, O, V, S, K, F, P, top), NEW c \in Consumers, TakeTicket(c), NobodyOversleeps
  PROVE  WTypes' /\ Room' /\ Held(T, H, O + 1, V, S, [K EXCEPT ![c] = O], F, P, top)'
<1> DEFINE N == Cardinality(Consumers)
           Q == [K EXCEPT ![c] = O]
<1>1. /\ UNCHANGED <<tail, head, overcommit, probeTail, seen, stock>>
      /\ ticket' = [ticket EXCEPT ![c] = optimistic] /\ optimistic = Wrap(O)
      /\ optimistic' = Wrap(optimistic + 1)
      /\ late' = [d \in Consumers |-> IF d \in Waiting \ {c} THEN late[d] + 1 ELSE late[d]]
      /\ Goto(c, "ticket", "compare")
  BY DEF TakeTicket, Held, Stands
<1>2. /\ cpc' \in [Consumers -> Places]
      /\ cpc[c] = "ticket" /\ cpc'[c] = "compare"
      /\ \A d \in Consumers \ {c} : cpc'[d] = cpc[d]
  BY <1>1, Moves DEF Places
<1>3. /\ Crowd(cpc', Inside) = Crowd(cpc, Inside) + 1
      /\ Crowd(cpc', {"claim"}) = Crowd(cpc, {"claim"})
      /\ Crowd(cpc', {"giveup"}) = Crowd(cpc, {"giveup"})
      /\ Crowd(cpc, Waits) = Crowd(cpc', Waits) + 1
      /\ Crowd(cpc', Waits) \in Nat /\ N \in Nat /\ Crowd(cpc, Inside) \in Nat
      /\ Crowd(cpc, {"giveup"}) \in Nat
  BY ONLY <1>1, WTypes, c \in Consumers, CrowdsMove, SMTT(60) DEF One, Inside, Waits, Places
<1>4. Wrap(O) \in Nat
  BY WrapInRange, IndexModPositive
<1>5. WTypes' /\ Room'
  <2>1. late' \in [Consumers -> Nat]
    BY <1>1 DEF WTypes
  <2>2. ticket' \in [Consumers -> Nat] /\ seen' = seen
    BY <1>1, <1>4 DEF WTypes
  <2> QED BY <1>1, <1>2, <2>1, <2>2 DEF WTypes, Room
<1>6. \A d \in Consumers :
        /\ cpc'[d] = "compare" /\ d # c => cpc[d] = "compare"
        /\ cpc'[d] \in Waits => cpc[d] \in Waits /\ d # c /\ d \in Waiting
        /\ cpc'[d] \in {"idle", "overcommit"} => cpc[d] \in {"idle", "overcommit"} /\ d \notin Waiting
  BY <1>2 DEF Waits, Waiting
<1>7. Q[c] = O /\ \A d \in Consumers \ {c} : Q[d] = K[d]
  OBVIOUS
<1> HIDE DEF Q
<1>8. Stands(T, H, O + 1, V, S, Q)'
  <2>1. ticket'[c] = Wrap(O) /\ \A d \in Consumers \ {c} : ticket'[d] = ticket[d]
    BY <1>1 DEF WTypes
  <2>2. optimistic' = Wrap(O + 1)
    BY <1>1, WrapSum
  <2>3. \A d \in Consumers : cpc'[d] \in Waits \cup {"compare"} => cpc[d] \in Waits \cup {"compare"}
    BY <1>2 DEF Waits
  <2> QED BY <1>1, <1>6, <1>7, <2>1, <2>2, <2>3 DEF Held, Stands
<1>9. Balance(T, H, O + 1, V)'
  BY <1>1, <1>3 DEF Held, Balance
<1>10. TopWithin(T, O + 1, F, P, top)'
  BY DEF Held, TopWithin
<1>11. Fates(H, O + 1, V, Q, F, P)'
  <2>1. \A t \in F \cup P : t < O /\ t \in Nat
    BY DEF Held, Fates
  <2>2. ASSUME NEW d \in Consumers, cpc'[d] = "compare"
        PROVE  Q[d] < O + 1 /\ Q[d] \notin F \cup P /\ (d # c => Q[d] < O)
    <3>1. CASE d = c
      BY <1>7, <2>1, <3>1
    <3>2. CASE d # c
      <4>1. K[d] < O /\ K[d] \notin F \cup P /\ K[d] \in Nat
        BY <1>6, <2>2, <3>2 DEF Held, Fates
      <4> QED BY <1>7, <3>2, <4>1
    <3> QED BY <3>1, <3>2
  <2>3. ASSUME NEW d \in Consumers, NEW e \in Consumers, d # e,
               cpc'[d] = "compare", cpc'[e] = "compare"
        PROVE  Q[d] # Q[e]
    <3>1. CASE d = c \/ e = c
      BY <1>7, <2>2, <2>3, <3>1
    <3>2. CASE d # c /\ e # c
      BY <1>6, <1>7, <2>3, <3>2 DEF Held, Fates
    <3> QED BY <3>1, <3>2
  <2>4. \A t \in F \cup P : t < O + 1
    BY <2>1
  <2> QED BY <1>3, <2>2, <2>3, <2>4 DEF Held, Fates
<1>12. SeenFailed(V, S, Q, F)'
  <2>1. ASSUME NEW d \in Consumers, cpc'[d] = "compare"
        PROVE  S[d] <= Cardinality(Below(F, Q[d]))
    <3>1. CASE d = c
      <4>1. S[c] <= V /\ S[c] \in Nat
        BY <1>2 DEF Held, SeenFailed, Waits
      <4>2. Below(F, O) = F /\ Cardinality(F) = V + Crowd(cpc, {"giveup"})
        BY DEF Held, Fates, Below
      <4> QED BY <1>3, <1>7, <3>1, <4>1, <4>2
    <3>2. CASE d # c
      BY <1>6, <1>7, <2>1, <3>2 DEF Held, SeenFailed
    <3> QED BY <3>1, <3>2
  <2> QED BY <1>6, <2>1 DEF Held, SeenFailed
<1>13. Lag(T, V, S, Q)'
  <2>1. \A d \in Consumers : cpc'[d] \in {"idle", "overcommit"} => late'[d] = 0
    BY <1>1, <1>6 DEF Held, Lag
  <2>2. ASSUME NEW d \in Consumers, cpc'[d] \in Waits
        PROVE  /\ late'[d] + Crowd(cpc', Waits) <= Patience + N
               /\ (V - S[d]) + Crowd(cpc', Inside) <= late'[d] + N - 1
    <3>1. cpc[d] \in Waits /\ late'[d] = late[d] + 1 /\ late[d] \in Nat /\ S[d] \in Nat
      BY <1>1, <1>6, <2>2 DEF WTypes
    <3>2. /\ late[d] + Crowd(cpc, Waits) <= Patience + N
          /\ (V - S[d]) + Crowd(cpc, Inside) <= late[d] + N - 1
      BY <3>1 DEF Held, Lag
    <3> QED BY <1>3, <3>1, <3>2, PatienceAssumption
  <2>3. ASSUME NEW d \in Consumers, cpc'[d] = "compare"
        PROVE  Q[d] - S[d] <= T + Half
    <3>1. CASE d = c
      <4>1. /\ late[c] + Crowd(cpc, Waits) <= Patience + N
            /\ (V - S[c]) + Crowd(cpc, Inside) <= late[c] + N - 1
            /\ late[c] \in Nat /\ S[c] \in Nat
        BY <1>2 DEF Held, Lag, Waits, WTypes
      <4>2. O = H + V + Crowd(cpc, Inside) /\ T = H + stock /\ stock \in Nat
        BY DEF Held, Balance, WTypes
      <4>3. Patience + 2 * N <= Half + 2 /\ Patience \in Nat /\ Half \in Nat
        BY PatienceAssumption, CircularIndexAssumption DEF NobodyOversleeps
      <4> HIDE DEF N
      <4>4. O - S[c] <= T + Half
        BY <1>3, <4>1, <4>2, <4>3
      <4> QED BY <1>7, <3>1, <4>4
    <3>2. CASE d # c
      BY <1>6, <1>7, <2>3, <3>2 DEF Held, Lag
    <3> QED BY <3>1, <3>2
  <2> QED BY <2>1, <2>2, <2>3 DEF Lag
<1> QED BY <1>5, <1>8, <1>9, <1>10, <1>11, <1>12, <1>13 DEF Held, Q

(* A ticket passes: what looks behind the tail is. *)
LEMMA PassKeeps ==
  ASSUME NEW T \in Nat, NEW H \in Nat, NEW O \in Nat, NEW V \in Nat, NEW top \in Nat,
         NEW S \in [Consumers -> Nat], NEW K \in [Consumers -> Nat],
         NEW F \in SUBSET Nat, NEW P \in SUBSET Nat,
         WTypes, Room, Held(T, H, O, V, S, K, F, P, top), NEW c \in Consumers, Compare(c), Passes(c)
  PROVE  WTypes' /\ Room' /\ Held(T, H, O, V, S, K, F, P \cup {K[c]},
                                   IF K[c] + 1 > top THEN K[c] + 1 ELSE top)'
<1> DEFINE k == K[c]
           tp == IF k + 1 > top THEN k + 1 ELSE top
           Q == P \cup {k}
<1>1. UNCHANGED <<counters, locals, history>> /\ Goto(c, "compare", "claim")
  BY DEF Compare
<1>2. /\ cpc' \in [Consumers -> Places]
      /\ cpc[c] = "compare" /\ cpc'[c] = "claim"
      /\ \A d \in Consumers \ {c} : cpc'[d] = cpc[d]
  BY <1>1, Moves DEF Places
<1>3. /\ Crowd(cpc', Inside) = Crowd(cpc, Inside)
      /\ Crowd(cpc', {"claim"}) = Crowd(cpc, {"claim"}) + 1
      /\ Crowd(cpc', {"giveup"}) = Crowd(cpc, {"giveup"})
      /\ Crowd(cpc', Waits) = Crowd(cpc, Waits)
      /\ Crowd(cpc, {"claim"}) \in Nat
  BY ONLY <1>1, WTypes, c \in Consumers, CrowdsMove, SMTT(60) DEF One, Inside, Waits, Places
<1>4. WTypes' /\ Room'
  BY <1>1, <1>2 DEF WTypes, Room, counters, locals, history
<1>5. \A d \in Consumers :
        /\ cpc'[d] = "compare" => cpc[d] = "compare" /\ d # c
        /\ cpc'[d] \in Waits => cpc[d] \in Waits
        /\ cpc'[d] \in {"idle", "overcommit"} => cpc[d] \in {"idle", "overcommit"}
  BY <1>2 DEF Waits
<1>6. /\ k \in Nat /\ k < O /\ k \notin F \cup P /\ S[c] \in Nat
      /\ S[c] <= Cardinality(Below(F, k)) /\ k - S[c] <= T + Half
      /\ ticket[c] = Wrap(k) /\ seen[c] = Wrap(S[c]) /\ tail = Wrap(T)
  BY <1>2 DEF Held, Fates, SeenFailed, Lag, Stands
<1>7. k - S[c] < T
  <2>1. Wrap(ticket[c] - seen[c]) = Wrap(k - S[c])
    BY <1>6, DifferenceOfWrapped
  <2>2. CircularLess(Wrap(k - S[c]), Wrap(T))
    BY <1>6, <2>1 DEF Passes
  <2>3. k - S[c] \in Int
    BY <1>6
  <2> QED BY <1>6, <2>2, <2>3, NotBehind
<1>8. Stands(T, H, O, V, S, K)'
  BY <1>1, <1>5 DEF Held, Stands, counters, locals
<1>9. Balance(T, H, O, V)' /\ SeenFailed(V, S, K, F)'
  BY <1>1, <1>3, <1>5 DEF Held, Balance, SeenFailed, history
<1>10. Fates(H, O, V, K, F, Q)'
  <2>1. /\ \A t \in F \cup P : t < O
        /\ F \cap P = {}
        /\ Cardinality(P) = H + Crowd(cpc, {"claim"})
        /\ \A d, e \in Consumers :
             d # e /\ cpc[d] = "compare" /\ cpc[e] = "compare" => K[d] # K[e]
    BY DEF Held, Fates
  <2>2. Cardinality(Q) = Cardinality(P) + 1
    <3>1. IsFiniteSet(P)
      BY <2>1, NumbersBelow
    <3> QED BY <1>6, <3>1, FS_AddElement
  <2>3. (\A t \in F \cup Q : t < O) /\ F \cap Q = {}
    BY <1>6, <2>1
  <2>4. \A d \in Consumers : cpc'[d] = "compare" => K[d] < O /\ K[d] \notin F \cup Q
    BY <1>2, <1>5, <2>1 DEF Held, Fates
  <2>5. Cardinality(Q) = H + Crowd(cpc', {"claim"})
    BY <1>3, <2>1, <2>2
  <2> HIDE DEF Q
  <2> QED BY <1>3, <1>5, <2>1, <2>3, <2>4, <2>5 DEF Held, Fates
<1>11. TopWithin(T, O, F, Q, tp)'
  <2>1. top <= O /\ (\A t \in P : t < top) /\ top - Cardinality(Below(F, top)) <= T
    BY DEF Held, TopWithin
  <2>2. /\ Cardinality(Below(F, k)) \in Nat /\ Cardinality(Below(F, k + 1)) \in Nat
        /\ Cardinality(Below(F, k)) <= Cardinality(Below(F, k + 1))
    BY <1>6, BelowGrows
  <2>3. (k + 1) - Cardinality(Below(F, k + 1)) <= T
    BY <1>6, <1>7, <2>2
  <2>4. tp <= O /\ \A t \in Q : t < tp
    BY <1>6, <2>1
  <2>5. tp - Cardinality(Below(F, tp)) <= T
    BY <2>1, <2>3
  <2> QED BY <2>4, <2>5 DEF TopWithin
<1>12. Lag(T, V, S, K)'
  BY <1>1, <1>3, <1>5 DEF Held, Lag, history
<1> HIDE DEF Q, tp
<1>13. Held(T, H, O, V, S, K, F, Q, tp)'
  BY <1>8, <1>9, <1>10, <1>11, <1>12 DEF Held
<1> QED BY <1>4, <1>13 DEF Q, tp, k

(* A ticket fails: there are only more failures. *)
LEMMA FailKeeps ==
  ASSUME NEW T \in Nat, NEW H \in Nat, NEW O \in Nat, NEW V \in Nat, NEW top \in Nat,
         NEW S \in [Consumers -> Nat], NEW K \in [Consumers -> Nat],
         NEW F \in SUBSET Nat, NEW P \in SUBSET Nat,
         WTypes, Room, Held(T, H, O, V, S, K, F, P, top), NEW c \in Consumers, Compare(c), ~Passes(c)
  PROVE  WTypes' /\ Room' /\ Held(T, H, O, V, S, K, F \cup {K[c]}, P, top)'
<1> DEFINE k == K[c]
           G == F \cup {k}
<1>1. UNCHANGED <<counters, locals, history>> /\ Goto(c, "compare", "giveup")
  BY DEF Compare
<1>2. /\ cpc' \in [Consumers -> Places]
      /\ cpc[c] = "compare" /\ cpc'[c] = "giveup"
      /\ \A d \in Consumers \ {c} : cpc'[d] = cpc[d]
  BY <1>1, Moves DEF Places
<1>3. /\ Crowd(cpc', Inside) = Crowd(cpc, Inside)
      /\ Crowd(cpc', {"claim"}) = Crowd(cpc, {"claim"})
      /\ Crowd(cpc', {"giveup"}) = Crowd(cpc, {"giveup"}) + 1
      /\ Crowd(cpc', Waits) = Crowd(cpc, Waits)
      /\ Crowd(cpc, {"giveup"}) \in Nat
  BY ONLY <1>1, WTypes, c \in Consumers, CrowdsMove, SMTT(60) DEF One, Inside, Waits, Places
<1>4. WTypes' /\ Room'
  BY <1>1, <1>2 DEF WTypes, Room, counters, locals, history
<1>5. \A d \in Consumers :
        /\ cpc'[d] = "compare" => cpc[d] = "compare" /\ d # c
        /\ cpc'[d] \in Waits => cpc[d] \in Waits
        /\ cpc'[d] \in {"idle", "overcommit"} => cpc[d] \in {"idle", "overcommit"}
  BY <1>2 DEF Waits
<1>6. k \in Nat /\ k < O /\ k \notin F \cup P
  BY <1>2 DEF Held, Fates
<1>7. G \in SUBSET Nat /\ F \subseteq G
  BY <1>6
<1>8. \A n \in Nat : /\ Cardinality(Below(F, n)) \in Nat /\ Cardinality(Below(G, n)) \in Nat
                    /\ Cardinality(Below(F, n)) <= Cardinality(Below(G, n))
  <2> SUFFICES ASSUME NEW n \in Nat
               PROVE  /\ Cardinality(Below(F, n)) \in Nat /\ Cardinality(Below(G, n)) \in Nat
                      /\ Cardinality(Below(F, n)) <= Cardinality(Below(G, n))
    OBVIOUS
  <2>1. n <= n
    OBVIOUS
  <2> HIDE DEF G
  <2> QED BY <1>7, <2>1, BelowGrows
<1>9. Stands(T, H, O, V, S, K)'
  BY <1>1, <1>5 DEF Held, Stands, counters, locals
<1>10. Balance(T, H, O, V)'
  BY <1>1, <1>3 DEF Held, Balance, history
<1>11. Fates(H, O, V, K, G, P)'
  <2>1. /\ \A t \in F \cup P : t < O
        /\ F \cap P = {}
        /\ Cardinality(F) = V + Crowd(cpc, {"giveup"})
        /\ \A d, e \in Consumers :
             d # e /\ cpc[d] = "compare" /\ cpc[e] = "compare" => K[d] # K[e]
    BY DEF Held, Fates
  <2>2. Cardinality(G) = Cardinality(F) + 1
    <3>1. IsFiniteSet(F)
      BY <2>1, NumbersBelow
    <3> QED BY <1>6, <3>1, FS_AddElement
  <2>3. (\A t \in G \cup P : t < O) /\ G \cap P = {}
    BY <1>6, <2>1
  <2>4. \A d \in Consumers : cpc'[d] = "compare" => K[d] < O /\ K[d] \notin G \cup P
    BY <1>2, <1>5, <2>1 DEF Held, Fates
  <2>5. Cardinality(G) = V + Crowd(cpc', {"giveup"})
    BY <1>3, <2>1, <2>2
  <2> HIDE DEF G
  <2> QED BY <1>3, <1>5, <2>1, <2>3, <2>4, <2>5 DEF Held, Fates
<1> HIDE DEF G
<1>12. SeenFailed(V, S, K, G)'
  <2>1. ASSUME NEW d \in Consumers, cpc'[d] = "compare"
        PROVE  S[d] <= Cardinality(Below(G, K[d]))
    <3>1. S[d] <= Cardinality(Below(F, K[d])) /\ S[d] \in Nat /\ K[d] \in Nat
      BY <1>5, <2>1 DEF Held, SeenFailed
    <3> QED BY <1>8, <3>1
  <2> QED BY <1>5, <2>1 DEF Held, SeenFailed
<1>13. TopWithin(T, O, G, P, top)'
  BY <1>8 DEF Held, TopWithin
<1>14. Lag(T, V, S, K)'
  BY <1>1, <1>3, <1>5 DEF Held, Lag, history
<1>15. Held(T, H, O, V, S, K, G, P, top)'
  BY <1>9, <1>10, <1>11, <1>12, <1>13, <1>14 DEF Held
<1> QED BY <1>4, <1>15 DEF G, k

(* An element is given out: there is one, because its ticket passed. *)
LEMMA ClaimKeeps ==
  ASSUME NEW T \in Nat, NEW H \in Nat, NEW O \in Nat, NEW V \in Nat, NEW top \in Nat,
         NEW S \in [Consumers -> Nat], NEW K \in [Consumers -> Nat],
         NEW F \in SUBSET Nat, NEW P \in SUBSET Nat,
         WTypes, Room, Held(T, H, O, V, S, K, F, P, top), NEW c \in Consumers, Claim(c)
  PROVE  WTypes' /\ Room' /\ Held(T, H + 1, O, V, S, K, F, P, top)'
<1>1. /\ UNCHANGED <<tail, optimistic, overcommit>>
      /\ Goto(c, "claim", "idle")
      /\ head' = Wrap(head + 1) /\ stock' = stock - 1
      /\ seen' = [seen EXCEPT ![c] = 0] /\ ticket' = [ticket EXCEPT ![c] = 0]
      /\ late' = [late EXCEPT ![c] = 0]
  BY DEF Claim, Leave
<1>2. /\ cpc' \in [Consumers -> Places]
      /\ cpc[c] = "claim" /\ cpc'[c] = "idle"
      /\ \A d \in Consumers \ {c} : cpc'[d] = cpc[d]
  BY <1>1, Moves DEF Places
<1>3. /\ Crowd(cpc, Inside) = Crowd(cpc', Inside) + 1 /\ Crowd(cpc', Inside) \in Nat
      /\ Crowd(cpc, {"claim"}) = Crowd(cpc', {"claim"}) + 1 /\ Crowd(cpc', {"claim"}) \in Nat
      /\ Crowd(cpc', {"giveup"}) = Crowd(cpc, {"giveup"})
      /\ Crowd(cpc', Waits) = Crowd(cpc, Waits)
  BY ONLY <1>1, WTypes, c \in Consumers, CrowdsMove, SMTT(60) DEF One, Inside, Waits, Places
<1>4. stock \in Nat /\ stock >= 1 /\ stock' \in Nat
  <2>1. Crowd(cpc, {"claim"}) <= stock
    BY ClaimsWithinStock
  <2>2. stock \in Nat
    BY DEF WTypes
  <2> QED BY <1>1, <1>3, <2>1, <2>2
<1>5. /\ seen' \in [Consumers -> Nat] /\ ticket' \in [Consumers -> Nat]
      /\ late' \in [Consumers -> Nat] /\ late'[c] = 0
      /\ \A d \in Consumers \ {c} :
           seen'[d] = seen[d] /\ ticket'[d] = ticket[d] /\ late'[d] = late[d]
  BY <1>1 DEF WTypes
<1>6. WTypes'
  BY <1>2, <1>4, <1>5 DEF WTypes
<1>7. Room'
  <2>1. tail \in 0 .. IndexMod - 1 /\ Half \in Nat /\ BlockSize \in Nat \ {0}
    BY WrapInRange, CircularIndexAssumption DEF Held, Stands
  <2> DEFINE r == tail % BlockSize
  <2>2. r \in 0 .. BlockSize - 1 /\ tail' = tail
    BY <1>1, <2>1, IndexModPositive, IntegerDivision
  <2>3. stock <= Half - 1 /\ (r # 0 => stock + (BlockSize - r) <= Half - 1)
    BY DEF Room
  <2> HIDE DEF r
  <2>4. stock' <= Half - 1 /\ (r # 0 => stock' + (BlockSize - r) <= Half - 1)
    BY <1>1, <1>4, <2>1, <2>2, <2>3
  <2> QED BY <2>2, <2>4 DEF Room, r
<1>8. \A d \in Consumers :
        /\ cpc'[d] = "compare" => cpc[d] = "compare" /\ d # c
        /\ cpc'[d] \in Waits => cpc[d] \in Waits /\ d # c
        /\ cpc'[d] \in {"idle", "overcommit"} => d = c \/ cpc[d] \in {"idle", "overcommit"}
  BY <1>2 DEF Waits
<1>9. Stands(T, H + 1, O, V, S, K)'
  <2>1. head' = Wrap(H + 1)
    BY <1>1, WrapSum DEF Held, Stands
  <2> QED BY <1>1, <1>5, <1>8, <2>1 DEF Held, Stands
<1>10. Balance(T, H + 1, O, V)'
  BY <1>1, <1>3, <1>4 DEF Held, Balance
<1>11. Fates(H + 1, O, V, K, F, P)'
  <2>1. Cardinality(P) = (H + 1) + Crowd(cpc', {"claim"})
    BY <1>3 DEF Held, Fates
  <2> QED BY <1>3, <1>8, <2>1 DEF Held, Fates
<1>12. SeenFailed(V, S, K, F)' /\ TopWithin(T, O, F, P, top)'
  BY <1>8 DEF Held, SeenFailed, TopWithin
<1>13. Lag(T, V, S, K)'
  <2>1. \A d \in Consumers : cpc'[d] \in {"idle", "overcommit"} => late'[d] = 0
    BY <1>5, <1>8 DEF Held, Lag
  <2>2. ASSUME NEW d \in Consumers, cpc'[d] \in Waits
        PROVE  /\ late'[d] + Crowd(cpc', Waits) <= Patience + Cardinality(Consumers)
               /\ (V - S[d]) + Crowd(cpc', Inside) <= late'[d] + Cardinality(Consumers) - 1
    <3>1. cpc[d] \in Waits /\ late'[d] = late[d] /\ late[d] \in Nat
          /\ S[d] \in Nat /\ Cardinality(Consumers) \in Nat
      BY <1>5, <1>8, <2>2, CrowdType DEF WTypes
    <3>2. /\ late[d] + Crowd(cpc, Waits) <= Patience + Cardinality(Consumers)
          /\ (V - S[d]) + Crowd(cpc, Inside) <= late[d] + Cardinality(Consumers) - 1
      BY <3>1 DEF Held, Lag
    <3> QED BY <1>3, <3>1, <3>2
  <2> QED BY <1>8, <2>1, <2>2 DEF Held, Lag
<1> QED BY <1>6, <1>7, <1>9, <1>10, <1>11, <1>12, <1>13 DEF Held

(* A failure is returned; whoever waits has one more of them to miss. *)
LEMMA GiveUpKeeps ==
  ASSUME NEW T \in Nat, NEW H \in Nat, NEW O \in Nat, NEW V \in Nat, NEW top \in Nat,
         NEW S \in [Consumers -> Nat], NEW K \in [Consumers -> Nat],
         NEW F \in SUBSET Nat, NEW P \in SUBSET Nat,
         WTypes, Room, Held(T, H, O, V, S, K, F, P, top), NEW c \in Consumers, GiveUp(c)
  PROVE  WTypes' /\ Room' /\ Held(T, H, O, V + 1, S, K, F, P, top)'
<1>1. /\ UNCHANGED <<tail, head, optimistic, stock>>
      /\ Goto(c, "giveup", "idle")
      /\ overcommit' = Wrap(overcommit + 1)
      /\ seen' = [seen EXCEPT ![c] = 0] /\ ticket' = [ticket EXCEPT ![c] = 0]
      /\ late' = [late EXCEPT ![c] = 0]
  BY DEF GiveUp, Leave, OvercommitAdded
<1>2. /\ cpc' \in [Consumers -> Places]
      /\ cpc[c] = "giveup" /\ cpc'[c] = "idle"
      /\ \A d \in Consumers \ {c} : cpc'[d] = cpc[d]
  BY <1>1, Moves DEF Places
<1>3. /\ Crowd(cpc, Inside) = Crowd(cpc', Inside) + 1 /\ Crowd(cpc', Inside) \in Nat
      /\ Crowd(cpc', {"claim"}) = Crowd(cpc, {"claim"})
      /\ Crowd(cpc, {"giveup"}) = Crowd(cpc', {"giveup"}) + 1 /\ Crowd(cpc', {"giveup"}) \in Nat
      /\ Crowd(cpc', Waits) = Crowd(cpc, Waits)
  BY ONLY <1>1, WTypes, c \in Consumers, CrowdsMove, SMTT(60) DEF One, Inside, Waits, Places
<1>4. /\ seen' \in [Consumers -> Nat] /\ ticket' \in [Consumers -> Nat]
      /\ late' \in [Consumers -> Nat] /\ late'[c] = 0
      /\ \A d \in Consumers \ {c} :
           seen'[d] = seen[d] /\ ticket'[d] = ticket[d] /\ late'[d] = late[d]
  BY <1>1 DEF WTypes
<1>5. WTypes' /\ Room'
  BY <1>1, <1>2, <1>4 DEF WTypes, Room
<1>6. \A d \in Consumers :
        /\ cpc'[d] = "compare" => cpc[d] = "compare" /\ d # c
        /\ cpc'[d] \in Waits => cpc[d] \in Waits /\ d # c
        /\ cpc'[d] \in {"idle", "overcommit"} => d = c \/ cpc[d] \in {"idle", "overcommit"}
  BY <1>2 DEF Waits
<1>7. Stands(T, H, O, V + 1, S, K)'
  <2>1. overcommit' = Wrap(V + 1)
    BY <1>1, WrapSum DEF Held, Stands
  <2> QED BY <1>1, <1>4, <1>6, <2>1 DEF Held, Stands
<1>8. Balance(T, H, O, V + 1)' /\ TopWithin(T, O, F, P, top)'
  BY <1>1, <1>3 DEF Held, Balance, TopWithin
<1>9. Fates(H, O, V + 1, K, F, P)'
  <2>1. Cardinality(F) = (V + 1) + Crowd(cpc', {"giveup"})
    BY <1>3 DEF Held, Fates
  <2> QED BY <1>3, <1>6, <2>1 DEF Held, Fates
<1>10. SeenFailed(V + 1, S, K, F)'
  BY <1>6 DEF Held, SeenFailed
<1>11. Lag(T, V + 1, S, K)'
  <2>1. \A d \in Consumers : cpc'[d] \in {"idle", "overcommit"} => late'[d] = 0
    BY <1>4, <1>6 DEF Held, Lag
  <2>2. ASSUME NEW d \in Consumers, cpc'[d] \in Waits
        PROVE  /\ late'[d] + Crowd(cpc', Waits) <= Patience + Cardinality(Consumers)
               /\ ((V + 1) - S[d]) + Crowd(cpc', Inside) <= late'[d] + Cardinality(Consumers) - 1
    <3>1. cpc[d] \in Waits /\ late'[d] = late[d] /\ late[d] \in Nat
          /\ S[d] \in Nat /\ Cardinality(Consumers) \in Nat
      BY <1>4, <1>6, <2>2, CrowdType DEF WTypes
    <3>2. /\ late[d] + Crowd(cpc, Waits) <= Patience + Cardinality(Consumers)
          /\ (V - S[d]) + Crowd(cpc, Inside) <= late[d] + Cardinality(Consumers) - 1
      BY <3>1 DEF Held, Lag
    <3> QED BY <1>3, <3>1, <3>2
  <2> QED BY <1>6, <2>1, <2>2 DEF Held, Lag
<1> QED BY <1>5, <1>7, <1>8, <1>9, <1>10, <1>11 DEF Held
--------------------------------------------------------------------------------
LEMMA Nobody ==
  ASSUME NEW f, NEW G, \A c \in Consumers : f[c] \notin G
  PROVE  Crowd(f, G) = 0
<1>1. {c \in Consumers : f[c] \in G} = {}
  OBVIOUS
<1> QED BY <1>1, FS_EmptySet DEF Crowd

LEMMA WInvInit == WInit => WInv
<1> SUFFICES ASSUME WInit PROVE WInv
  OBVIOUS
<1> DEFINE Z == [c \in Consumers |-> 0]
<1>0. /\ Half \in Nat \ {0} /\ BlockSize \in Nat \ {0} /\ Z \in [Consumers -> Nat]
      /\ cpc = [c \in Consumers |-> "idle"]
      /\ tail = 0 /\ head = 0 /\ optimistic = 0 /\ overcommit = 0 /\ stock = 0 /\ late = Z
      /\ seen = Z /\ ticket = Z
  BY CircularIndexAssumption DEF WInit, Nowhere
<1>1. Wrap(0) = 0
  BY IndexModPositive, WrapOfIndex
<1>2. Crowd(cpc, Inside) = 0 /\ Crowd(cpc, {"claim"}) = 0 /\ Crowd(cpc, {"giveup"}) = 0
  BY <1>0, Nobody DEF Inside
<1>3. WTypes
  BY <1>0 DEF WTypes, Places
<1>4. Room
  <2>1. 0 = BlockSize * 0 + 0 /\ 0 \in 0 .. BlockSize - 1
    BY <1>0
  <2>2. 0 % BlockSize = 0
    BY <1>0, <2>1, RemainderUnique
  <2> QED BY <1>0, <2>2 DEF Room
<1>5. Cardinality({}) = 0 /\ Below({}, 0) = {}
  BY FS_EmptySet DEF Below
<1>6. \A c \in Consumers : cpc[c] = "idle" /\ late[c] = 0
  BY <1>0
<1> HIDE DEF Z
<1>7. Held(0, 0, 0, 0, Z, Z, {}, {}, 0)
  <2>1. Stands(0, 0, 0, 0, Z, Z) /\ Balance(0, 0, 0, 0)
    BY <1>0, <1>1, <1>2, <1>6 DEF Stands, Balance, Waits
  <2>2. Fates(0, 0, 0, Z, {}, {}) /\ SeenFailed(0, Z, Z, {}) /\ TopWithin(0, 0, {}, {}, 0)
    BY <1>2, <1>5, <1>6 DEF Fates, SeenFailed, TopWithin, Waits
  <2>3. Lag(0, 0, Z, Z)
    BY <1>6 DEF Lag, Waits
  <2> QED BY <2>1, <2>2, <2>3 DEF Held
<1>8. {} \in SUBSET Nat /\ 0 \in Nat
  OBVIOUS
<1>9. \E T, H, O, V, top \in Nat, S, K \in [Consumers -> Nat], F, P \in SUBSET Nat :
        Held(T, H, O, V, S, K, F, P, top)
  BY <1>0, <1>7, <1>8
<1> QED BY <1>3, <1>4, <1>9 DEF WInv

LEMMA HeldSuffices ==
  ASSUME NEW T \in Nat, NEW H \in Nat, NEW O \in Nat, NEW V \in Nat, NEW top \in Nat,
         NEW S \in [Consumers -> Nat], NEW K \in [Consumers -> Nat],
         NEW F \in SUBSET Nat, NEW P \in SUBSET Nat,
         WTypes', Room', Held(T, H, O, V, S, K, F, P, top)'
  PROVE  WInv'
BY DEF WInv

LEMMA WInvNext ==
  ASSUME NobodyOversleeps, WInv, [WNext]_wvars
  PROVE  WInv'
<1>1. PICK T \in Nat, H \in Nat, O \in Nat, V \in Nat, top \in Nat,
           S \in [Consumers -> Nat], K \in [Consumers -> Nat],
           F \in SUBSET Nat, P \in SUBSET Nat : Held(T, H, O, V, S, K, F, P, top)
  BY DEF WInv
<1>2. WTypes /\ Room
  BY DEF WInv
<1>3. CASE Enqueue
  <2>1. WTypes' /\ Room' /\ Held(T + 1, H, O, V, S, K, F, P, top)'
    BY <1>1, <1>2, <1>3, EnqueueKeeps
  <2>2. T + 1 \in Nat
    OBVIOUS
  <2> QED BY <2>1, <2>2, HeldSuffices
<1>4. ASSUME NEW c \in Consumers, ConsumerStep(c) PROVE WInv'
  <2>1. CASE LoadTail(c) \/ ProbeFinds(c) \/ ProbeFails(c)
    <3>1. WTypes' /\ Room' /\ Held(T, H, O, V, S, K, F, P, top)'
      BY <1>1, <1>2, <2>1, LooksKeep
    <3> QED BY <3>1, HeldSuffices
  <2>2. CASE LoadOvercommit(c)
    <3>1. WTypes' /\ Room' /\ Held(T, H, O, V, [S EXCEPT ![c] = V], K, F, P, top)'
      BY <1>1, <1>2, <2>2, LoadOvercommitKeeps
    <3>2. [S EXCEPT ![c] = V] \in [Consumers -> Nat]
      OBVIOUS
    <3> QED BY <3>1, <3>2, HeldSuffices
  <2>3. CASE TakeTicket(c)
    <3>1. WTypes' /\ Room' /\ Held(T, H, O + 1, V, S, [K EXCEPT ![c] = O], F, P, top)'
      BY <1>1, <1>2, <2>3, TakeTicketKeeps
    <3>2. [K EXCEPT ![c] = O] \in [Consumers -> Nat] /\ O + 1 \in Nat
      OBVIOUS
    <3> QED BY <3>1, <3>2, HeldSuffices
  <2>4. CASE Compare(c) /\ Passes(c)
    <3> DEFINE Q == P \cup {K[c]}
               tp == IF K[c] + 1 > top THEN K[c] + 1 ELSE top
    <3>1. WTypes' /\ Room' /\ Held(T, H, O, V, S, K, F, Q, tp)'
      BY <1>1, <1>2, <2>4, PassKeeps
    <3>2. Q \in SUBSET Nat /\ tp \in Nat
      <4>1. K[c] \in Nat
        OBVIOUS
      <4>2. Q \in SUBSET Nat
        BY <4>1
      <4>3. tp = K[c] + 1 \/ tp = top
        OBVIOUS
      <4> HIDE DEF Q, tp
      <4> QED BY <4>1, <4>2, <4>3
    <3> HIDE DEF Q, tp
    <3> QED BY <3>1, <3>2, HeldSuffices
  <2>5. CASE Compare(c) /\ ~Passes(c)
    <3>1. WTypes' /\ Room' /\ Held(T, H, O, V, S, K, F \cup {K[c]}, P, top)'
      BY <1>1, <1>2, <2>5, FailKeeps
    <3>2. F \cup {K[c]} \in SUBSET Nat
      OBVIOUS
    <3> QED BY <3>1, <3>2, HeldSuffices
  <2>6. CASE Claim(c)
    <3>1. WTypes' /\ Room' /\ Held(T, H + 1, O, V, S, K, F, P, top)'
      BY <1>1, <1>2, <2>6, ClaimKeeps
    <3>2. H + 1 \in Nat
      OBVIOUS
    <3> QED BY <3>1, <3>2, HeldSuffices
  <2>7. CASE GiveUp(c)
    <3>1. WTypes' /\ Room' /\ Held(T, H, O, V + 1, S, K, F, P, top)'
      BY <1>1, <1>2, <2>7, GiveUpKeeps
    <3>2. V + 1 \in Nat
      OBVIOUS
    <3> QED BY <3>1, <3>2, HeldSuffices
  <2> QED BY <1>4, <2>1, <2>2, <2>3, <2>4, <2>5, <2>6, <2>7 DEF ConsumerStep
<1>5. CASE UNCHANGED wvars
  <2>1. WTypes' /\ Room'
    BY <1>2, <1>5 DEF WTypes, Room, wvars
  <2>2. Held(T, H, O, V, S, K, F, P, top)'
    BY <1>1, <1>5 DEF Held, Stands, Balance, Fates, SeenFailed, TopWithin, Lag, wvars
  <2> QED BY <2>1, <2>2, HeldSuffices
<1> QED BY <1>3, <1>4, <1>5 DEF WNext

(* Wherever the counters have wrapped to, they stand for integers. *)
LEMMA WrappedInvariance == ASSUME NobodyOversleeps PROVE WSpec => []WInv
<1>1. WInv /\ [WNext]_wvars => WInv'
  BY WInvNext
<1> QED BY WInvInit, <1>1, PTL DEF WSpec
--------------------------------------------------------------------------------
(***************************************************************************)
(* The tail is never taken for being behind the head, whatever was         *)
(* enqueued and dequeued before: what the producer asserts when it starts  *)
(* a block (concurrentqueue.h:2324), for blocks and a range of any size.   *)
(***************************************************************************)
THEOREM WrappedTailStaysAhead ==
  ASSUME NobodyOversleeps
  PROVE  WSpec => []TailStaysAhead
<1>1. WInv => TailStaysAhead
  <2> SUFFICES ASSUME WInv PROVE TailStaysAhead
    OBVIOUS
  <2>1. PICK T \in Nat, H \in Nat : T = H + stock /\ tail = Wrap(T) /\ head = Wrap(H)
    BY DEF WInv, Held, Balance, Stands
  <2>2. stock \in 0 .. Half - 1 /\ stock \in 0 .. IndexMod - 1
    BY CircularIndexAssumption DEF WInv, WTypes, Room, IndexMod
  <2>3. Wrap(tail - head) = Wrap(T - H) /\ T - H = stock
    BY <2>1, <2>2, DifferenceOfWrapped
  <2> QED BY <2>2, <2>3, WrapOfIndex DEF TailStaysAhead
<1> QED BY <1>1, WrappedInvariance, PTL

(***************************************************************************)
(* Wherever the counters have wrapped to, there is an element for every    *)
(* consumer that passed the second comparison (2393-2394), provided none   *)
(* sleeps for half the range before it takes its ticket.                   *)
(***************************************************************************)
THEOREM WrappedEveryPassHasElement ==
  ASSUME NobodyOversleeps
  PROVE  WSpec => []ElementForEveryPass
<1>1. WInv => ElementForEveryPass
  <2> SUFFICES ASSUME WInv PROVE ElementForEveryPass
    OBVIOUS
  <2>1. Crowd(cpc, {"claim"}) <= stock
    BY ClaimsWithinStock DEF WInv
  <2>2. {c \in Consumers : cpc[c] = "claim"} = {c \in Consumers : cpc[c] \in {"claim"}}
    OBVIOUS
  <2> QED BY <2>1, <2>2 DEF ElementForEveryPass, Crowd
<1> QED BY <1>1, WrappedInvariance, PTL

(***************************************************************************)
(* When no consumer is inside, the first comparison (2387) finds an        *)
(* element if and only if there is one, wherever the counters have         *)
(* wrapped to and however many dequeues failed before.                     *)
(***************************************************************************)
THEOREM WrappedProbeIsExact ==
  ASSUME NobodyOversleeps
  PROVE  WSpec => []ProbeIsExactAtRest
<1>1. WInv => ProbeIsExactAtRest
  <2> SUFFICES ASSUME WInv, \A c \in Consumers : cpc[c] = "idle"
               PROVE  CircularLess(Wrap(optimistic - overcommit), tail) <=> stock > 0
    BY DEF ProbeIsExactAtRest
  <2>1. PICK T \in Nat, H \in Nat, O \in Nat, V \in Nat :
          /\ T = H + stock /\ O = H + V + Crowd(cpc, Inside)
          /\ tail = Wrap(T) /\ optimistic = Wrap(O) /\ overcommit = Wrap(V)
    BY DEF WInv, Held, Balance, Stands
  <2>2. Crowd(cpc, Inside) = 0
    BY Nobody DEF Inside
  <2>3. O - V = H
    BY <2>1, <2>2
  <2>4. Wrap(optimistic - overcommit) = Wrap(H)
    BY <2>1, <2>3, DifferenceOfWrapped
  <2>5. stock \in Nat /\ stock <= Half - 1 /\ Half \in Nat
    BY CircularIndexAssumption DEF WInv, WTypes, Room
  <2>6. T - H < Half /\ H - T <= Half
    BY <2>1, <2>5
  <2>7. CircularLess(Wrap(H), Wrap(T)) <=> H < T
    BY <2>6, CircularOrder
  <2> QED BY <2>1, <2>4, <2>5, <2>7
<1> QED BY <1>1, WrappedInvariance, PTL
================================================================================
