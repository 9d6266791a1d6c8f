------------------------ MODULE ImplicitProducerProofs -------------------------
(***************************************************************************)
(* Theorems of an implicit producer, for every number of consumers, size   *)
(* of a block, initial size of the block index, number of times it grows,  *)
(* and number of blocks.                                                   *)
(*                                                                         *)
(* The argument.  Block number K holds the elements from BlockSize * K on. *)
(* The current index, read from its tail backwards, is a window of as many *)
(* block numbers as it has entries: Slot(K) is the entry of block K.  The  *)
(* entries that hold a block have the key of that block, and from the      *)
(* oldest of them to the newest no key is missing.  A consumer's block     *)
(* still has an element, its own, and so it stays in the window, however   *)
(* long the consumer sleeps.  What it read from an older index, or from a  *)
(* tail that has moved since, leads it to the same entry: the entry at     *)
(* that tail has the key of some block K, not older than its own, and the  *)
(* position counted from there is the one of its block (Leads).            *)
(*                                                                         *)
(* The counter of a block is the number of its elements that are out, so   *)
(* one consumer at a time finds it full, and then nobody else is in it.    *)
(***************************************************************************)
EXTENDS ImplicitProducer, FiniteSetTheorems, SequenceTheorems, TLAPS

(* The number of the block of element i, and the first index of a block. *)
Num(i) == i \div BlockSize
Key(K) == BlockSize * K

(* The number of the block at the tail of the current index. *)
Newest ==
  IF ppc \in {"requisition", "rewind", "install", "write", "publish"}
    THEN Num(tail) ELSE Num(tail - 1)

Capacity == Current.capacity
Oldest == Newest - Capacity + 1
Window == Oldest .. Newest

(* The entry for block number K in the current index, its key and its block. *)
Slot(K) == Current.index[(Current.tail + (K - Newest)) % Capacity]
KeyAt(K) == entries[Slot(K)].key
BlockAt(K) == entries[Slot(K)].value

(* Block number K is in the index. *)
Live(K) == K \in Window /\ BlockAt(K) \in Blocks

Header ==
  [capacity : Nat \ {0}, tail : Nat, index : UNION {[0 .. n - 1 -> Nat] : n \in Nat}]

(* The current index has every entry at exactly one of its positions. *)
Indexed ==
  /\ indices \in Seq(Header) /\ indices # <<>>
  /\ Len(entries) = Capacity
  /\ \A p, q \in 0 .. Capacity - 1 : Current.index[p] = Current.index[q] => p = q
  /\ \A e \in DOMAIN entries : \E p \in 0 .. Capacity - 1 : Current.index[p] = e

(* What enqueue() has found out and done so far. *)
Progress ==
  /\ ppc \in {"grow", "key", "tail", "requisition", "rewind", "clear", "install"}
       => tail % BlockSize = 0
  /\ ppc = "grow" => \A K \in {Oldest} : KeyAt(K) = Key(K)
  /\ ppc \in {"key", "tail", "clear"} => \A K \in {Newest + 1} : BlockAt(K) \notin Blocks
  /\ ppc = "tail" => \A K \in {Newest + 1} : KeyAt(K) = Key(K)
  /\ ppc \in {"requisition", "rewind", "install"} =>
       \A K \in {Newest} : KeyAt(K) = Key(K) /\ BlockAt(K) \notin Blocks

(* The keys of the window: right where a block is, and none missing after. *)
Keyed ==
  \A K \in Window :
    /\ BlockAt(K) \in Blocks => KeyAt(K) = Key(K)
    /\ KeyAt(K) = Key(K) => \A J \in K .. Newest : KeyAt(J) = Key(J)

(* Where enqueue() has stored the key of a block and not yet the block. *)
Linking == {"tail", "requisition", "rewind", "clear", "install"}

(* What was never stored is behind an invalid key, or enqueue() is at it. *)
Unwritten ==
  \A e \in DOMAIN entries :
    entries[e].value = Uninit =>
      \/ entries[e].key = InvalidBase
      \/ ppc \in Linking /\ \A K \in {Num(tail)} : e = Slot(K)

(* Position t of index h leads to the entry of block number k. *)
Leads(h, t, k) ==
  \E K \in k .. Num(tail) :
    /\ indices[h].index[t] = Slot(K)
    /\ KeyAt(K) = Key(K)
    /\ indices[h].index[(t + (k - K)) % indices[h].capacity] = Slot(k)

(* Indices are given once, and only those of published elements. *)
Dispensed ==
  /\ head <= tail
  /\ \A c \in Consumers : /\ cpc[c] = "idle" <=> taking[c] = NoIndex
                          /\ taking[c] < head
                          /\ \A d \in Consumers \ {c} :
                               taking[d] = taking[c] => taking[c] = NoIndex

Inside == {"index", "tail", "base", "value", "move", "count", "release"}

(* What a consumer on its way to block k, and in it, has in its hands. *)
Found(c, k) ==
  /\ Live(k)
  /\ cpc[c] \in {"tail", "base"} => at[c].index \in DOMAIN indices
  /\ cpc[c] = "tail" => \/ at[c].index = Len(indices)
                        \/ Leads(at[c].index, indices[at[c].index].tail, k)
  /\ cpc[c] = "base" => /\ at[c].tail < indices[at[c].index].capacity
                        /\ Leads(at[c].index, at[c].tail, k)
  /\ cpc[c] \in {"value", "move", "count", "release"} => at[c].entry = Slot(k)
  /\ cpc[c] \in {"move", "count", "release"} => block[c] = BlockAt(k)

Searching ==
  \A c \in Consumers : cpc[c] \in Inside => \A k \in {Num(taking[c])} : Found(c, k)

(* Element i is out: it was given, and its consumer has counted it. *)
Out(i) == i < head /\ \A c \in Consumers : taking[c] = i => cpc[c] \in {"release", "add"}
OutOf(k) == {o \in Offsets : Out(Key(k) + o)}

(* The counters of the blocks, and the consumer that gives a block back. *)
Counted ==
  /\ \A i \in 0 .. tail - 1 : ~Out(i) => Live(Num(i))
  /\ tail % BlockSize # 0 \/ ppc \in {"write", "publish"} => Live(Num(tail))
  /\ \A k \in Window :
       Live(k) => /\ k >= 0
                  /\ emptied[BlockAt(k)] = Cardinality(OutOf(k))
                  /\ OutOf(k) = Offsets =>
                       \E c \in Consumers : cpc[c] = "release" /\ Num(taking[c]) = k
  /\ \A c \in Consumers :
       cpc[c] = "release" =>
         /\ OutOf(Num(taking[c])) = Offsets
         /\ \A d \in Consumers \ {c} :
              cpc[d] = "release" => Num(taking[d]) # Num(taking[c])

(* tailBlock is the block of the newest element, or of the one being stored. *)
Filled == IF ppc \in {"write", "publish"} THEN Num(tail) ELSE Num(tail - 1)
Filling == \A K \in {Filled} : Live(K) => tailBlock = BlockAt(K)

Stored(i) == i < tail \/ (ppc = "publish" /\ i = tail)
Moved(i) ==
  i < head /\ \A c \in Consumers : taking[c] = i => cpc[c] \in {"count", "release", "add"}

(* The elements of a block of the index; there are none in the others. *)
Contents ==
  /\ \A k \in Window, o \in Offsets :
       Live(k) => slots[BlockAt(k)][o] =
                    IF Stored(Key(k) + o) /\ ~Moved(Key(k) + o) THEN Key(k) + o ELSE NoIndex
  /\ \A b \in Blocks :
       (\A k \in Window : BlockAt(k) # b) => \A o \in Offsets : slots[b][o] = NoIndex

(* No block is in two places; the disjuncts of the last part are the places. *)
Adding(b) == {c \in Consumers : cpc[c] = "add" /\ block[c] = b}
Listing(b) == {e \in DOMAIN entries : entries[e].value = b}
Owned ==
  /\ newBlock # NoBlock <=> ppc = "install"
  /\ \A b \in Blocks :
       /\ b \in pool => b \notin heap \cup free /\ b # newBlock
       /\ b \in heap => b \notin free /\ b # newBlock
       /\ b \in free => b # newBlock
       /\ b \in pool \cup heap \cup free \cup {newBlock} => Listing(b) = {} /\ Adding(b) = {}
       /\ Listing(b) # {} => Adding(b) = {}
       /\ \A e, f \in Listing(b) : e = f
       /\ \A c, d \in Adding(b) : c = d
       /\ \/ b \in pool \cup heap \cup free \cup {newBlock}
          \/ Listing(b) # {}
          \/ Adding(b) # {}
  /\ \A c \in Consumers : cpc[c] = "add" => block[c] # NoBlock

Working ==
  /\ Indexed /\ Progress /\ Keyed /\ Unwritten /\ Dispensed /\ Searching /\ Counted
  /\ Filling /\ Contents
  /\ \A b \in Blocks : freed[b] = 0

(* A producer without a block index, on which nothing was ever done. *)
Fresh ==
  /\ ppc \in {"idle", "crashed"} /\ tail = 0 /\ head = 0 /\ entries = <<>>
  /\ pool = PoolBlocks /\ heap = HeapBlocks /\ free = {} /\ tailBlock = NoBlock
  /\ \A c \in Consumers : cpc[c] = "idle"
  /\ \A b \in Blocks : freed[b] = 0 /\ \A o \in Offsets : slots[b][o] = NoIndex

Torn == TeardownIsComplete /\ \A c \in Consumers : cpc[c] = "idle"

IInv ==
  /\ TypeOK
  /\ IF ppc = "destroyed" THEN Torn
     ELSE Owned /\ IF indices = <<>> THEN Fresh ELSE Working
--------------------------------------------------------------------------------
(***************************************************************************)
(* Arithmetic modulo a positive number that is not a literal.              *)
(***************************************************************************)
LEMMA RemainderUnique ==
  ASSUME NEW M \in Nat \ {0}, NEW q \in Int, NEW r \in 0 .. M - 1
  PROVE  (M * q + r) % M = r /\ (M * q + r) \div M = q
  BY Z3T(30)

LEMMA IntegerDivision ==
  ASSUME NEW M \in Nat \ {0}, NEW n \in Int
  PROVE  /\ n = M * (n \div M) + (n % M)
         /\ n \div M \in Int
         /\ n % M \in 0 .. M - 1
  OBVIOUS

(* A sum has the remainder of the sum with a remainder. *)
LEMMA RemainderOfSum ==
  ASSUME NEW M \in Nat \ {0}, NEW n \in Int, NEW d \in Int
  PROVE  ((n % M) + d) % M = (n + d) % M
<1> DEFINE q == n \div M
           r == n % M
           p == (r + d) \div M
           s == (r + d) % M
<1>1. n = M * q + r /\ q \in Int /\ r \in 0 .. M - 1
  BY IntegerDivision
<1>2. r + d \in Int
  BY <1>1
<1>3. r + d = M * p + s /\ p \in Int /\ s \in 0 .. M - 1
  BY <1>2, IntegerDivision
<1> HIDE DEF q, r, p, s
<1>4. n + d = M * (q + p) + s
  <2>1. M * (q + p) = M * q + M * p
    BY <1>1, <1>3, Z3T(30)
  <2>2. M * q \in Int /\ M * p \in Int
    BY <1>1, <1>3
  <2> QED BY <1>1, <1>3, <2>1, <2>2
<1>5. (M * (q + p) + s) % M = s
  <2>1. q + p \in Int
    BY <1>1, <1>3
  <2> QED BY <2>1, <1>3, RemainderUnique
<1> QED BY <1>4, <1>5 DEF s, r

LEMMA RemainderInjective ==
  ASSUME NEW M \in Nat \ {0}, NEW a \in Int, NEW b \in Int,
         a - b < M, b - a < M, a % M = b % M
  PROVE  a = b
<1> DEFINE p == a \div M
           q == b \div M
           r == a % M
<1>1. a = M * p + r /\ p \in Int /\ r \in 0 .. M - 1
  BY IntegerDivision
<1>2. b = M * q + r /\ q \in Int
  BY IntegerDivision
<1> HIDE DEF p, q, r
<1>3. M * p - M * q < M /\ M * q - M * p < M
  <2>1. M * p \in Int /\ M * q \in Int
    BY <1>1, <1>2
  <2> QED BY <1>1, <1>2, <2>1
<1>4. p = q
  BY <1>1, <1>2, <1>3, Z3T(30)
<1> QED BY <1>1, <1>2, <1>4

(***************************************************************************)
(* Block numbers.                                                          *)
(***************************************************************************)
LEMMA Numbers ==
  ASSUME NEW i \in Int
  PROVE  /\ Num(i) \in Int /\ i % BlockSize \in Offsets
         /\ i = Key(Num(i)) + (i % BlockSize)
         /\ Base(i) = Key(Num(i))
<1>1. BlockSize \in Nat \ {0}
  BY SizesAssumption
<1>2. /\ i = BlockSize * (i \div BlockSize) + (i % BlockSize)
      /\ i \div BlockSize \in Int /\ i % BlockSize \in 0 .. BlockSize - 1
  BY <1>1, IntegerDivision
<1>3. BlockSize * (i \div BlockSize) \in Int
  BY <1>1, <1>2
<1> QED BY <1>2, <1>3 DEF Num, Key, Base, Offsets

LEMMA NumberUnique ==
  ASSUME NEW K \in Int, NEW o \in Offsets
  PROVE  Num(Key(K) + o) = K /\ (Key(K) + o) % BlockSize = o
  BY SizesAssumption, RemainderUnique DEF Num, Key, Offsets

LEMMA Keys ==
  ASSUME NEW J \in Int, NEW K \in Int
  PROVE  /\ Key(K) \in Int
         /\ Key(K) # InvalidBase
         /\ Key(J) < Key(K) <=> J < K
         /\ Key(J) = Key(K) => J = K
         /\ Key(K + 1) = Key(K) + BlockSize
         /\ (Key(J) - Key(K)) \div BlockSize = J - K
         /\ K >= 0 <=> Key(K) >= 0
         /\ Key(0) = 0
<1>1. BlockSize \in Nat /\ BlockSize > 1
  BY SizesAssumption
<1>2. Key(K) \in Int /\ Key(J) \in Int
  BY <1>1 DEF Key
<1>3. Key(K) # InvalidBase
  BY <1>1, Z3T(30) DEF Key, InvalidBase
<1>4. \A j, k \in Int : j < k => BlockSize * j < BlockSize * k
  BY <1>1, Z3T(30)
<1>5. /\ J < K => Key(J) < Key(K)
      /\ K < J => Key(K) < Key(J)
  BY <1>4 DEF Key
<1>6. BlockSize * (K + 1) = BlockSize * K + BlockSize
  BY <1>1, Z3T(30)
<1>7. (Key(J) - Key(K)) \div BlockSize = J - K
  <2>1. BlockSize * J - BlockSize * K = BlockSize * (J - K) + 0
    BY <1>1, Z3T(30)
  <2>2. J - K \in Int /\ 0 \in 0 .. BlockSize - 1
    BY <1>1
  <2> QED BY <1>1, <2>1, <2>2, RemainderUnique DEF Key
<1>8. BlockSize * 0 = 0
  BY <1>1
<1>9. K >= 0 <=> Key(K) >= 0
  <2>1. /\ 0 < K => 0 < BlockSize * K
        /\ K < 0 => BlockSize * K < 0
    BY <1>4, <1>8
  <2> QED BY <1>2, <1>8, <2>1 DEF Key
<1> QED BY <1>2, <1>3, <1>5, <1>6, <1>7, <1>8, <1>9 DEF Key

(* Within a block the number stays, and at its end it goes up by one. *)
LEMMA NextNumber ==
  ASSUME NEW i \in Nat
  PROVE  /\ Num(i) \in Nat
         /\ i % BlockSize # 0 => Num(i - 1) = Num(i)
         /\ i % BlockSize = 0 => Num(i - 1) = Num(i) - 1 /\ Key(Num(i)) = i
         /\ Num(i - 1) \in Int
         /\ Num(i - 1) >= -1
<1> DEFINE K == Num(i)
           o == i % BlockSize
<1>1. /\ K \in Int /\ i = Key(K) + o /\ o \in Offsets
      /\ BlockSize \in Nat /\ BlockSize > 1 /\ Key(K) \in Int
  BY Numbers, Keys, SizesAssumption
<1> HIDE DEF K, o
<1>2. K >= 0
  <2>1. SUFFICES ASSUME K < 0 PROVE FALSE
    BY <1>1
  <2>2. Key(K + 1) = Key(K) + BlockSize /\ (K + 1 <= 0 => Key(K + 1) <= 0)
    <3>1. K + 1 \in Int /\ 0 \in Int
      BY <1>1
    <3>2. Key(K + 1) = Key(K) + BlockSize
      BY <1>1, Keys
    <3>3. Key(0) < Key(K + 1) <=> 0 < K + 1
      BY <3>1, Keys
    <3>4. Key(0) = 0 /\ Key(K + 1) \in Int
      BY <3>1, Keys
    <3> QED BY <3>2, <3>3, <3>4, <1>1
  <2> QED BY <1>1, <2>1, <2>2 DEF Offsets
<1>3. CASE o # 0
  <2>1. i - 1 = Key(K) + (o - 1) /\ o - 1 \in Offsets
    BY <1>1, <1>3 DEF Offsets
  <2>2. Num(i - 1) = K
    BY <1>1, <2>1, NumberUnique
  <2> QED BY <1>1, <1>2, <1>3, <2>2 DEF K, o
<1>4. CASE o = 0
  <2>1. Key(K) = Key(K - 1) + BlockSize
    BY <1>1, Keys
  <2>2. i - 1 = Key(K - 1) + (BlockSize - 1) /\ BlockSize - 1 \in Offsets /\ K - 1 \in Int
    <3>1. Key(K - 1) \in Int
      BY <1>1, Keys
    <3> QED BY <1>1, <1>4, <2>1, <3>1 DEF Offsets
  <2>3. Num(i - 1) = K - 1
    BY <2>2, NumberUnique
  <2> QED BY <1>1, <1>2, <1>4, <2>3 DEF K, o
<1> QED BY <1>3, <1>4

(***************************************************************************)
(* The current index and its entries.                                      *)
(***************************************************************************)
LEMMA HeaderFacts ==
  ASSUME TypeOK, Indexed
  PROVE  /\ Len(indices) \in Nat \ {0} /\ DOMAIN indices = 1 .. Len(indices)
         /\ \A h \in DOMAIN indices :
              /\ indices[h].capacity \in Nat \ {0}
              /\ indices[h].tail \in 0 .. indices[h].capacity - 1
              /\ indices[h].index \in [0 .. indices[h].capacity - 1 -> DOMAIN entries]
         /\ Capacity \in Nat \ {0}
         /\ Current.tail \in 0 .. Capacity - 1
         /\ Current.index \in [0 .. Capacity - 1 -> DOMAIN entries]
         /\ Newest \in Int /\ Newest >= -1
         /\ Num(tail) \in Int /\ Num(tail - 1) \in Int
         /\ Oldest \in Int /\ Window \subseteq Int
         /\ NextTail \in 0 .. Capacity - 1
<1>1. /\ indices \in Seq(Header) /\ indices # <<>> /\ tail \in Nat
  BY MaxElementsAssumption DEF TypeOK, Indexed
<1>2. Len(indices) \in Nat \ {0} /\ DOMAIN indices = 1 .. Len(indices)
  BY <1>1
<1>3. \A h \in DOMAIN indices :
        /\ indices[h].capacity \in Nat \ {0}
        /\ indices[h].tail \in 0 .. indices[h].capacity - 1
        /\ indices[h].index \in [0 .. indices[h].capacity - 1 -> DOMAIN entries]
  <2> TAKE h \in DOMAIN indices
  <2>1. indices[h] \in Header
    BY <1>1, <1>2
  <2>2. indices[h].capacity \in Nat \ {0}
    BY <2>1 DEF Header
  <2> QED BY <2>2 DEF TypeOK
<1>4. Num(tail) \in Nat /\ Num(tail - 1) \in Int /\ Num(tail - 1) >= -1
  BY <1>1, NextNumber
<1>5. Newest \in Int /\ Newest >= -1
  BY <1>4 DEF Newest
<1>6. /\ Capacity \in Nat \ {0}
      /\ Current.tail \in 0 .. Capacity - 1
      /\ Current.index \in [0 .. Capacity - 1 -> DOMAIN entries]
  BY <1>2, <1>3 DEF Capacity, Current
<1>7. NextTail \in 0 .. Capacity - 1
  <2>1. Current.tail + 1 \in Int
    BY <1>6
  <2>2. (Current.tail + 1) % Capacity \in 0 .. Capacity - 1
    BY <1>6, <2>1, IntegerDivision
  <2> QED BY <2>2 DEF NextTail, Capacity
<1> QED BY <1>2, <1>3, <1>4, <1>5, <1>6, <1>7 DEF Oldest, Window

LEMMA SlotFacts ==
  ASSUME TypeOK, Indexed
  PROVE  /\ \A K \in Int : Slot(K) \in DOMAIN entries
         /\ \A J, K \in Int :
              Slot(J) = Slot(K) /\ J - K < Capacity /\ K - J < Capacity => J = K
         /\ \A e \in DOMAIN entries : \E K \in Window : Slot(K) = e
         /\ \A J, K \in Int : K = J + Capacity => Slot(K) = Slot(J)
         /\ Slot(Newest + 1) = Slot(Oldest)
         /\ NextEntry = Slot(Newest + 1)
         /\ TailEntry = Slot(Newest)
<1> DEFINE C == Capacity
           T == Current.tail
           L == Newest
           X == Current.index
<1>1. /\ C \in Nat \ {0} /\ T \in 0 .. C - 1 /\ X \in [0 .. C - 1 -> DOMAIN entries]
      /\ L \in Int
  BY HeaderFacts
<1>2. /\ \A p, q \in 0 .. C - 1 : X[p] = X[q] => p = q
      /\ \A e \in DOMAIN entries : \E p \in 0 .. C - 1 : X[p] = e
  BY DEF Indexed
<1>3. /\ \A K \in Int : Slot(K) = X[(T + (K - L)) % C]
      /\ NextEntry = X[(T + 1) % C] /\ TailEntry = X[T]
      /\ Window = L - C + 1 .. L /\ Oldest = L - C + 1
  BY DEF Slot, NextEntry, NextTail, TailEntry, Capacity, Window, Oldest
<1> HIDE DEF C, T, L, X
<1>4. \A K \in Int : (T + (K - L)) % C \in 0 .. C - 1 /\ T + (K - L) \in Int
  <2> TAKE K \in Int
  <2>1. T + (K - L) \in Int
    BY <1>1
  <2> QED BY <1>1, <2>1, IntegerDivision
<1>5. \A K \in Int : Slot(K) \in DOMAIN entries
  BY <1>1, <1>3, <1>4
<1>6. ASSUME NEW J \in Int, NEW K \in Int, Slot(J) = Slot(K), J - K < C, K - J < C
      PROVE  J = K
  <2> DEFINE a == T + (J - L)
             b == T + (K - L)
  <2>1. a % C = b % C
    BY <1>2, <1>3, <1>4, <1>6, ZenonT(60)
  <2>2. a \in Int /\ b \in Int /\ a - b = J - K
    BY <1>1
  <2> HIDE DEF a, b
  <2>3. a = b
    <3>1. a - b < C /\ b - a < C
      BY <1>1, <1>6, <2>2
    <3> QED BY <1>1, <2>1, <2>2, <3>1, RemainderInjective
  <2> QED BY <2>2, <2>3
<1>7. \A p \in 0 .. C - 1 : p % C = p
  BY <1>1
<1>8. ASSUME NEW e \in DOMAIN entries PROVE \E K \in Window : Slot(K) = e
  <2>1. PICK p \in 0 .. C - 1 : X[p] = e
    BY <1>2
  <2>2. CASE p <= T
    <3>1. p - T + L \in Window /\ T + ((p - T + L) - L) = p
      BY <1>1, <1>3, <2>2
    <3>2. Slot(p - T + L) = X[p % C]
      BY <1>1, <1>3, <3>1
    <3> QED BY <1>7, <2>1, <3>1, <3>2
  <2>3. CASE p > T
    <3>1. (p - C) % C = p
      <4>1. PICK q \in Int : q = -1
        OBVIOUS
      <4>2. p - C = C * q + p
        BY <1>1, <4>1, Z3T(30)
      <4> QED BY <1>1, <4>2, RemainderUnique
    <3>2. p - C - T + L \in Window /\ T + ((p - C - T + L) - L) = p - C
      BY <1>1, <1>3, <2>3
    <3>3. Slot(p - C - T + L) = X[(p - C) % C]
      BY <1>1, <1>3, <3>2
    <3> QED BY <2>1, <3>1, <3>2, <3>3
  <2> QED BY <1>1, <2>2, <2>3
<1>9. Slot(L + 1) = X[(T + 1) % C]
  <2>1. T + ((L + 1) - L) = T + 1 /\ L + 1 \in Int
    BY <1>1
  <2> QED BY <1>3, <2>1
<1>10. Slot(L) = X[T]
  <2>1. T + (L - L) = T /\ T % C = T
    BY <1>1, <1>7
  <2> QED BY <1>1, <1>3, <2>1
<1>11. ASSUME NEW J \in Int, NEW K \in Int, K = J + C PROVE Slot(K) = Slot(J)
  <2> DEFINE a == T + (J - L)
  <2>1. a \in Int /\ T + (K - L) = a + C
    BY <1>1, <1>11
  <2>2. a = C * (a \div C) + (a % C) /\ a \div C \in Int /\ a % C \in 0 .. C - 1
    BY <1>1, <2>1, IntegerDivision
  <2>3. Slot(J) = X[a % C] /\ Slot(K) = X[(a + C) % C]
    BY <1>3, <2>1
  <2> HIDE DEF a
  <2>4. a + C = C * ((a \div C) + 1) + (a % C)
    BY <1>1, <2>1, <2>2, Z3T(30)
  <2>5. (a \div C) + 1 \in Int
    BY <2>2
  <2>6. (a + C) % C = a % C
    BY <1>1, <2>2, <2>4, <2>5, RemainderUnique
  <2> QED BY <2>3, <2>6
<1>12. Slot(L + 1) = Slot(L - C + 1)
  <2>1. L + 1 \in Int /\ L - C + 1 \in Int /\ L + 1 = (L - C + 1) + C
    BY <1>1
  <2> QED BY <1>11, <2>1
<1> QED BY <1>3, <1>5, <1>6, <1>8, <1>9, <1>10, <1>11, <1>12 DEF C, L, X, T

(***************************************************************************)
(* The block at the tail of the index moves with the tail of the index.    *)
(***************************************************************************)
LEMMA NewestMoves ==
  ASSUME TypeOK, Progress
  PROVE  /\ InsideBlock \/ StartBlock \/ Grow \/ GrowFails \/ StoreKey \/ RequisitionFails
            \/ ClearEntry \/ Install \/ Write \/ PublishElement
            \/ (\E b \in Blocks : Requisition(b)) => Newest' = Newest
         /\ StoreTail => Newest' = Newest + 1
         /\ Rewind => Newest' = Newest - 1
         /\ ppc \in {"idle", "grow", "key", "tail", "clear"} /\ tail % BlockSize = 0 =>
              Num(tail) = Newest + 1
         /\ ppc \notin {"idle", "grow", "key", "tail", "clear", "crashed", "destroyed"} =>
           Num(tail) = Newest
         /\ Num(tail) \in Nat /\ Newest <= Num(tail) /\ Num(tail) <= Newest + 1
<1>1. /\ tail \in Nat /\ ppc \in ProducerStates
      /\ Num(tail) \in Nat /\ Num(tail - 1) \in Int
      /\ tail % BlockSize # 0 => Num(tail - 1) = Num(tail)
      /\ tail % BlockSize = 0 => Num(tail - 1) = Num(tail) - 1
      /\ tail + 1 - 1 = tail
  <2>1. tail \in Nat /\ ppc \in ProducerStates
    BY MaxElementsAssumption DEF TypeOK
  <2> QED BY <2>1, NextNumber
<1>2. ASSUME InsideBlock \/ StartBlock \/ GrowFails \/ StoreKey \/ RequisitionFails
             \/ ClearEntry \/ Install \/ Write
      PROVE  Newest' = Newest
  BY <1>1, <1>2 DEF InsideBlock, StartBlock, GrowFails, StoreKey, RequisitionFails,
     ClearEntry, Install, Write, PGoto, dispenser, Newest, Num
<1>3. ASSUME Grow \/ (\E b \in Blocks : Requisition(b)) PROVE Newest' = Newest
  BY <1>1, <1>3 DEF Grow, Requisition, PGoto, dispenser, Newest, Num
<1>4. ASSUME PublishElement PROVE Newest' = Newest
  <2>1. ppc = "publish" /\ ppc' = "idle" /\ tail' = tail + 1
    BY <1>4 DEF PublishElement, Publish, PGoto
  <2>2. Newest' = Num(tail' - 1)
    BY <2>1 DEF Newest, Num
  <2> QED BY <1>1, <2>1, <2>2 DEF Newest
<1>5. ASSUME StoreTail PROVE Newest' = Newest + 1
  <2>1. ppc = "tail" /\ ppc' = "requisition" /\ tail' = tail
    BY <1>5 DEF StoreTail, PGoto, dispenser
  <2>2. Newest' = Num(tail') /\ Newest = Num(tail - 1) /\ tail % BlockSize = 0
    BY <2>1 DEF Newest, Num, Progress
  <2> QED BY <1>1, <2>1, <2>2
<1>6. ASSUME Rewind PROVE Newest' = Newest - 1
  <2>1. ppc = "rewind" /\ ppc' = "clear" /\ tail' = tail
    BY <1>6 DEF Rewind, PGoto, dispenser
  <2>2. Newest' = Num(tail' - 1) /\ Newest = Num(tail) /\ tail % BlockSize = 0
    BY <2>1 DEF Newest, Num, Progress
  <2> QED BY <1>1, <2>1, <2>2
<1>7. /\ ppc \in {"idle", "grow", "key", "tail", "clear"} /\ tail % BlockSize = 0 =>
           Num(tail) = Newest + 1
      /\ ppc \notin {"idle", "grow", "key", "tail", "clear", "crashed", "destroyed"} =>
           Num(tail) = Newest
      /\ Newest <= Num(tail) /\ Num(tail) <= Newest + 1
  BY <1>1 DEF Newest, ProducerStates
<1> QED BY <1>1, <1>2, <1>3, <1>4, <1>5, <1>6, <1>7

(* The current index is the same function of the block numbers. *)
SameSlots ==
  /\ Capacity' = Capacity /\ DOMAIN entries' = DOMAIN entries
  /\ \A K \in Int : Slot(K)' = Slot(K)

(* The indices are what they were, but for the tail of the current one. *)
SameIndices ==
  /\ Len(indices') = Len(indices) /\ DOMAIN indices' = DOMAIN indices
  /\ \A h \in DOMAIN indices : /\ indices'[h].capacity = indices[h].capacity
                               /\ indices'[h].index = indices[h].index
                               /\ h # Len(indices) => indices'[h].tail = indices[h].tail

LEMMA SameWhenUnchanged ==
  ASSUME Indexed, indices' = indices, Newest' = Newest, DOMAIN entries' = DOMAIN entries
  PROVE  SameSlots /\ SameIndices
  BY DEF SameSlots, SameIndices, Slot, Current, Capacity

(* There never is one index less. *)
LEMMA IndexStays ==
  ASSUME TypeOK, Indexed, indices' \in Seq(Header),
         Len(indices') = Len(indices) \/ Len(indices') = Len(indices) + 1
  PROVE  indices' # <<>>
<1>1. Len(indices) \in Nat \ {0}
  BY HeaderFacts
<1> QED BY <1>1

(* The tail of the current index is stored: by StoreTail or Rewind. *)
LEMMA TailStored ==
  ASSUME TypeOK, Indexed, NEW t \in 0 .. Capacity - 1,
         indices' = [indices EXCEPT ![Len(indices)].tail = t]
  PROVE  /\ Len(indices') = Len(indices) /\ SameIndices
         /\ Capacity' = Capacity /\ Current'.index = Current.index /\ Current'.tail = t
         /\ indices' \in Seq(Header)
<1>1. /\ indices \in Seq(Header) /\ Len(indices) \in DOMAIN indices
      /\ indices[Len(indices)] \in Header /\ t \in Nat
  BY HeaderFacts DEF Indexed
<1>2. /\ Len(indices') = Len(indices) /\ DOMAIN indices' = DOMAIN indices
      /\ indices'[Len(indices)] = [indices[Len(indices)] EXCEPT !.tail = t]
      /\ \A h \in DOMAIN indices \ {Len(indices)} : indices'[h] = indices[h]
  BY <1>1
<1>3. indices' \in Seq(Header)
  <2>1. [indices[Len(indices)] EXCEPT !.tail = t] \in Header
    BY <1>1 DEF Header
  <2> QED BY <1>1, <1>2, <2>1
<1>4. /\ indices'[Len(indices)].capacity = indices[Len(indices)].capacity
      /\ indices'[Len(indices)].index = indices[Len(indices)].index
      /\ indices'[Len(indices)].tail = t
  BY <1>1, <1>2 DEF Header
<1> QED BY <1>1, <1>2, <1>3, <1>4 DEF SameIndices, Capacity, Current

LEMMA SlotsOfStoreTail ==
  ASSUME TypeOK, Indexed, Progress, StoreTail
  PROVE  SameSlots /\ SameIndices /\ indices' \in Seq(Header)
<1>1. /\ indices' = [indices EXCEPT ![Len(indices)].tail = NextTail]
      /\ entries' = entries /\ NextTail \in 0 .. Capacity - 1
  BY HeaderFacts DEF StoreTail
<1>2. /\ SameIndices /\ indices' \in Seq(Header)
      /\ Capacity' = Capacity /\ Current'.index = Current.index /\ Current'.tail = NextTail
  BY <1>1, TailStored
<1>3. Newest' = Newest + 1
  BY NewestMoves
<1> DEFINE C == Capacity
           T == Current.tail
           L == Newest
           X == Current.index
<1>4. C \in Nat \ {0} /\ T \in Nat /\ L \in Int
  BY HeaderFacts
<1>5. \A K \in Int : /\ Slot(K) = X[(T + (K - L)) % C]
                     /\ Slot(K)' = X[(((T + 1) % C) + (K - (L + 1))) % C]
  BY <1>2, <1>3 DEF Slot, NextTail, Capacity
<1> HIDE DEF C, T, L, X
<1>6. ASSUME NEW K \in Int
      PROVE  (((T + 1) % C) + (K - (L + 1))) % C = (T + (K - L)) % C
  <2> DEFINE n == T + 1
             d == K - (L + 1)
  <2>1. n \in Int /\ d \in Int /\ n + d = T + (K - L)
    BY <1>4
  <2> HIDE DEF n, d
  <2>2. ((n % C) + d) % C = (n + d) % C
    BY <1>4, <2>1, RemainderOfSum
  <2> QED BY <2>1, <2>2 DEF n, d
<1>7. \A K \in Int : Slot(K)' = Slot(K)
  BY <1>5, <1>6
<1> QED BY <1>1, <1>2, <1>7 DEF SameSlots

LEMMA SlotsOfRewind ==
  ASSUME TypeOK, Indexed, Progress, Rewind
  PROVE  SameSlots /\ SameIndices /\ indices' \in Seq(Header)
<1> DEFINE C == Capacity
           T == Current.tail
           L == Newest
           X == Current.index
           t == (T + C - 1) % C
<1>1. C \in Nat \ {0} /\ T \in Nat /\ L \in Int
  BY HeaderFacts
<1>2. t \in 0 .. C - 1
  <2>1. T + C - 1 \in Int
    BY <1>1
  <2> QED BY <1>1, <2>1, IntegerDivision
<1>3. /\ indices' = [indices EXCEPT ![Len(indices)].tail = t]
      /\ entries' = entries
  BY DEF Rewind, Capacity
<1>4. /\ SameIndices /\ indices' \in Seq(Header)
      /\ Capacity' = Capacity /\ Current'.index = Current.index /\ Current'.tail = t
  BY <1>2, <1>3, TailStored
<1>5. Newest' = Newest - 1
  BY NewestMoves
<1>6. \A K \in Int : /\ Slot(K) = X[(T + (K - L)) % C]
                     /\ Slot(K)' = X[(((T + C - 1) % C) + (K - (L - 1))) % C]
  BY <1>4, <1>5 DEF Slot, Capacity
<1> HIDE DEF C, T, L, X, t
<1>7. ASSUME NEW K \in Int
      PROVE  (((T + C - 1) % C) + (K - (L - 1))) % C = (T + (K - L)) % C
  <2> DEFINE a == T + (K - L)
  <2>1. a \in Int /\ (T + C - 1) + (K - (L - 1)) = a + C
        /\ T + C - 1 \in Int /\ K - (L - 1) \in Int
    BY <1>1
  <2>2. (((T + C - 1) % C) + (K - (L - 1))) % C = (a + C) % C
    <3> DEFINE n == T + C - 1
               d == K - (L - 1)
    <3>1. n \in Int /\ d \in Int /\ n + d = a + C
      BY <2>1
    <3> HIDE DEF a, n, d
    <3>2. ((n % C) + d) % C = (n + d) % C
      BY <1>1, <3>1, RemainderOfSum
    <3> QED BY <3>1, <3>2 DEF n, d
  <2>3. (a + C) % C = a % C
    <3>1. a = C * (a \div C) + (a % C) /\ a \div C \in Int /\ a % C \in 0 .. C - 1
      BY <1>1, <2>1, IntegerDivision
    <3> HIDE DEF a
    <3>2. a + C = C * ((a \div C) + 1) + (a % C)
      BY <1>1, <2>1, <3>1, Z3T(30)
    <3>3. (a \div C) + 1 \in Int
      BY <3>1
    <3> QED BY <1>1, <3>1, <3>2, <3>3, RemainderUnique
  <2> QED BY <2>2, <2>3
<1>8. \A K \in Int : Slot(K)' = Slot(K)
  BY <1>6, <1>7
<1> QED BY <1>3, <1>4, <1>8 DEF SameSlots

(***************************************************************************)
(* new_block_index: the window keeps its entries, at the same distance     *)
(* from the tail, and gets as many unused ones before them.                *)
(***************************************************************************)
LEMMA GrowIndices ==
  ASSUME TypeOK, Indexed, Progress, Grow
  PROVE  /\ Len(indices') = Len(indices) + 1
         /\ \A h \in DOMAIN indices : indices'[h] = indices[h]
         /\ Capacity' = 2 * Capacity /\ Current'.tail = Capacity - 1
         /\ Current'.index = [i \in 0 .. 2 * Capacity - 1 |->
                                IF i < Capacity
                                  THEN Current.index[(Current.tail + 1 + i) % Capacity]
                                  ELSE i + 1]
         /\ Len(entries) = Capacity /\ Len(entries') = 2 * Capacity
         /\ DOMAIN entries = 1 .. Capacity /\ DOMAIN entries' = 1 .. 2 * Capacity
         /\ \A e \in 1 .. Capacity : entries'[e] = entries[e]
         /\ \A e \in Capacity + 1 .. 2 * Capacity : entries'[e] = InvalidEntry
         /\ indices' \in Seq(Header)
<1> DEFINE C == Capacity
           X == [i \in 0 .. 2 * C - 1 |->
                   IF i < C THEN Current.index[(Current.tail + 1 + i) % C] ELSE i + 1]
           H == [capacity |-> 2 * C, tail |-> C - 1, index |-> X]
           E == [e \in 1 .. C |-> InvalidEntry]
<1>1. /\ C \in Nat \ {0} /\ Len(entries) = C /\ DOMAIN entries = 1 .. C
      /\ Current.tail \in 0 .. C - 1
      /\ Current.index \in [0 .. C - 1 -> DOMAIN entries]
      /\ indices \in Seq(Header) /\ Len(indices) \in Nat \ {0}
      /\ entries \in Seq([key : Nat, value : Blocks \cup {NoBlock, Uninit}])
  <2>1. entries \in Seq([key : Nat, value : Blocks \cup {NoBlock, Uninit}]) /\ Len(entries) = Capacity
    BY DEF Indexed, TypeOK
  <2>2. DOMAIN entries = 1 .. Capacity
    BY <2>1
  <2> QED BY <2>1, <2>2, HeaderFacts DEF Indexed
<1>2. entries' = entries \o E
  BY DEF Grow, Capacity
<1>3. indices' = Append(indices, H)
  <2>1. \A i \in 0 .. C - 1 : FromOldest(Current)[i] = Current.index[(Current.tail + 1 + i) % C]
    BY DEF FromOldest, Capacity
  <2>2. [i \in 0 .. 2 * C - 1 |-> IF i < C THEN FromOldest(Current)[i]
                                           ELSE Len(entries) + 1 + i - C]
          = X
    <3>1. \A i \in 0 .. 2 * C - 1 : ~(i < C) => Len(entries) + 1 + i - C = i + 1
      BY <1>1
    <3>2. \A i \in 0 .. 2 * C - 1 : i < C => i \in 0 .. C - 1
      BY <1>1
    <3> QED BY <2>1, <3>1, <3>2
  <2> QED BY <2>2 DEF Grow, Capacity
<1> HIDE DEF C
<1>4. X \in [0 .. 2 * C - 1 -> Nat]
  <2>1. ASSUME NEW i \in 0 .. C - 1
        PROVE  Current.index[(Current.tail + 1 + i) % C] \in Nat
    <3>1. Current.tail + 1 + i \in Int
      BY <1>1
    <3>2. (Current.tail + 1 + i) % C \in 0 .. C - 1
      BY <1>1, <3>1, IntegerDivision
    <3> QED BY <1>1, <3>2, SMTT(60)
  <2> QED BY <1>1, <2>1
<1>5. H \in Header
  <2>1. 2 * C \in Nat \ {0} /\ C - 1 \in Nat
    BY <1>1
  <2> HIDE DEF X
  <2>2. X \in UNION {[0 .. n - 1 -> Nat] : n \in Nat}
    BY <1>4, <2>1
  <2> QED BY <2>1, <2>2 DEF Header
<1>6. /\ Len(indices') = Len(indices) + 1 /\ indices' \in Seq(Header)
      /\ \A h \in DOMAIN indices : indices'[h] = indices[h]
      /\ indices'[Len(indices')] = H
  <2> HIDE DEF H
  <2> QED BY <1>1, <1>3, <1>5
<1>7. /\ Len(entries') = 2 * C /\ DOMAIN entries' = 1 .. 2 * C /\ DOMAIN entries = 1 .. C
      /\ \A e \in 1 .. C : entries'[e] = entries[e]
      /\ \A e \in C + 1 .. 2 * C : entries'[e] = InvalidEntry
  <2> DEFINE Entry == [key : Nat, value : Blocks \cup {NoBlock, Uninit}]
  <2>1. E \in Seq(Entry) /\ Len(E) = C
    BY <1>1 DEF InvalidEntry, InvalidBase
  <2>2. \A e \in 1 .. C : E[e] = InvalidEntry
    OBVIOUS
  <2> HIDE DEF E, Entry
  <2>3. entries \in Seq(Entry)
    BY <1>1 DEF Entry
  <2>4. Len(entries \o E) = 2 * C /\ DOMAIN (entries \o E) = 1 .. 2 * C
    <3>1. entries \o E \in Seq(Entry) /\ Len(entries \o E) = Len(entries) + Len(E)
      BY <2>1, <2>3, ConcatProperties
    <3>2. Len(entries) + Len(E) = 2 * C
      BY <1>1, <2>1
    <3> QED BY <3>1, <3>2
  <2>5. \A e \in 1 .. C : (entries \o E)[e] = entries[e]
    BY <1>1, <2>1, <2>3
  <2>6. \A e \in C + 1 .. 2 * C : (entries \o E)[e] = InvalidEntry
    <3> TAKE e \in C + 1 .. 2 * C
    <3>1. e - C \in 1 .. C /\ e \in Nat /\ e > C /\ e <= C + C
      BY <1>1
    <3>2. \A i \in 1 .. Len(entries) + Len(E) :
            (entries \o E)[i] = IF i <= Len(entries) THEN entries[i] ELSE E[i - Len(entries)]
      BY <2>1, <2>3, ConcatProperties
    <3>3. e \in 1 .. Len(entries) + Len(E) /\ ~(e <= Len(entries)) /\ Len(entries) = C
      BY <1>1, <2>1, <3>1
    <3>4. (entries \o E)[e] = E[e - C]
      BY <3>2, <3>3
    <3> QED BY <2>2, <3>1, <3>4
  <2> QED BY <1>1, <1>2, <2>4, <2>5, <2>6
<1>8. Capacity' = 2 * C /\ Current'.tail = C - 1 /\ Current'.index = X
  BY <1>6 DEF Capacity, Current
<1> QED BY <1>1, <1>6, <1>7, <1>8 DEF C

LEMMA SlotsOfGrow ==
  ASSUME TypeOK, Indexed, Progress, Grow
  PROVE  /\ Indexed'
         /\ Newest' = Newest /\ Capacity' = 2 * Capacity
         /\ \A K \in Window : Slot(K)' = Slot(K) /\ entries'[Slot(K)] = entries[Slot(K)]
         /\ \A K \in Int : K < Oldest /\ Oldest' <= K => entries'[Slot(K)'] = InvalidEntry
         /\ \A K \in {Newest + 1} : entries'[Slot(K)'] = InvalidEntry
<1> DEFINE C == Capacity
           T == Current.tail
           L == Newest
           X == Current.index
           Y == Current'.index
           e0 == entries
           e1 == entries'
<1>1. /\ C \in Nat \ {0} /\ T \in 0 .. C - 1 /\ X \in [0 .. C - 1 -> 1 .. C]
      /\ L \in Int /\ Newest' = L
  BY HeaderFacts, NewestMoves, GrowIndices
<1>2. /\ Y = [i \in 0 .. 2 * C - 1 |-> IF i < C THEN X[(T + 1 + i) % C] ELSE i + 1]
      /\ Capacity' = 2 * C /\ Current'.tail = C - 1
      /\ Len(e1) = 2 * C /\ DOMAIN e1 = 1 .. 2 * C
      /\ \A e \in 1 .. C : e1[e] = e0[e]
      /\ \A e \in C + 1 .. 2 * C : e1[e] = InvalidEntry
      /\ indices' \in Seq(Header)
  BY GrowIndices
<1>3. /\ \A p, q \in 0 .. C - 1 : X[p] = X[q] => p = q
      /\ \A e \in 1 .. C : \E p \in 0 .. C - 1 : X[p] = e
  BY GrowIndices DEF Indexed
<1>4. \A K \in Int : /\ Slot(K) = X[(T + (K - L)) % C]
                     /\ Slot(K)' = Y[((C - 1) + (K - L)) % (2 * C)]
  BY <1>1, <1>2 DEF Slot, Capacity
<1>5. Window = L - C + 1 .. L /\ Oldest = L - C + 1 /\ Oldest' = L - 2 * C + 1
  BY <1>1, <1>2 DEF Window, Oldest
<1>b. \A e \in DOMAIN e0 : e \in 1 .. C
  BY GrowIndices
<1>g. Current'.index = Y /\ Len(entries') = 2 * C /\ DOMAIN entries' = DOMAIN e1
  BY <1>2
<1> HIDE DEF C, T, L, X, Y, e0, e1
<1>6. \A i \in 0 .. C - 1 : (T + 1 + i) % C \in 0 .. C - 1 /\ Y[i] = X[(T + 1 + i) % C]
                            /\ Y[i] \in 1 .. C
  <2> TAKE i \in 0 .. C - 1
  <2>1. T + 1 + i \in Int /\ i \in 0 .. 2 * C - 1 /\ i < C
    BY <1>1
  <2>2. (T + 1 + i) % C \in 0 .. C - 1
    BY <1>1, <2>1, IntegerDivision
  <2>3. Y[i] = X[(T + 1 + i) % C]
    BY <1>2, <2>1
  <2> QED BY <1>1, <2>2, <2>3
<1>7. \A i \in C .. 2 * C - 1 : Y[i] = i + 1
  BY <1>1, <1>2
<1>8. \A i \in 0 .. 2 * C - 1 : i % (2 * C) = i
  BY <1>1
<1>9. ASSUME NEW K \in L - C + 1 .. L
      PROVE  Slot(K)' = Slot(K) /\ Slot(K) \in 1 .. C
  <2> DEFINE i == (C - 1) + (K - L)
             a == T + (K - L)
  <2>1. /\ i \in 0 .. C - 1 /\ i \in 0 .. 2 * C - 1 /\ T + 1 + i = a + C /\ a \in Int /\ K \in Int
        /\ T + 1 + i \in Int
    BY <1>1
  <2> HIDE DEF i, a
  <2>2. Slot(K)' = X[(T + 1 + i) % C] /\ Slot(K)' \in 1 .. C
    <3>1. Slot(K)' = Y[i]
      BY <1>4, <1>8, <2>1 DEF i
    <3> QED BY <1>6, <2>1, <3>1
  <2>3. (a + C) % C = a % C
    <3>1. a = C * (a \div C) + (a % C) /\ a \div C \in Int /\ a % C \in 0 .. C - 1
      BY <1>1, <2>1, IntegerDivision
    <3>2. a + C = C * ((a \div C) + 1) + (a % C)
      BY <1>1, <2>1, <3>1, Z3T(30)
    <3>3. (a \div C) + 1 \in Int
      BY <3>1
    <3> QED BY <1>1, <3>1, <3>2, <3>3, RemainderUnique
  <2>4. Slot(K) = X[a % C]
    BY <1>4, <2>1 DEF a
  <2> QED BY <2>1, <2>2, <2>3, <2>4
<1>10. ASSUME NEW K \in Int, L - 2 * C + 1 <= K, K < L - C + 1
       PROVE  e1[Slot(K)'] = InvalidEntry
  <2> DEFINE i == (C - 1) + (K - L)
  <2>1. i + 2 * C \in C .. 2 * C - 1 /\ i \in Int
    BY <1>1, <1>10
  <2> HIDE DEF i
  <2>2. i % (2 * C) = i + 2 * C
    <3>1. PICK q \in Int : q = -1
      OBVIOUS
    <3>2. i = (2 * C) * q + (i + 2 * C)
      BY <1>1, <2>1, <3>1, Z3T(30)
    <3>3. 2 * C \in Nat \ {0} /\ i + 2 * C \in 0 .. (2 * C) - 1
      BY <1>1, <2>1
    <3> QED BY <3>1, <3>2, <3>3, RemainderUnique
  <2>3. Slot(K)' = i + 2 * C + 1
    BY <1>4, <1>7, <2>1, <2>2 DEF i
  <2> QED BY <1>1, <1>2, <2>1, <2>3
<1>11. ASSUME NEW K \in {L + 1} PROVE e1[Slot(K)'] = InvalidEntry
  <2>1. (C - 1) + (K - L) = C /\ C \in C .. 2 * C - 1 /\ K \in Int
        /\ C \in 0 .. 2 * C - 1
    BY <1>1
  <2>2. Slot(K)' = Y[((C - 1) + (K - L)) % (2 * C)]
    BY <1>4, <2>1
  <2>3. Slot(K)' = C + 1
    BY <1>7, <1>8, <2>1, <2>2
  <2> QED BY <1>1, <1>2, <2>3
<1>12. ASSUME NEW p \in 0 .. 2 * C - 1, NEW q \in 0 .. 2 * C - 1, Y[p] = Y[q]
       PROVE  p = q
  <2>1. CASE p < C /\ q < C
    <3> DEFINE a == T + 1 + p
               b == T + 1 + q
    <3>1. a \in Int /\ b \in Int /\ a - b < C /\ b - a < C
      BY <1>1, <2>1
    <3>0. p \in 0 .. C - 1 /\ q \in 0 .. C - 1
      BY <1>1, <2>1
    <3>2. a % C = b % C
      BY <1>3, <1>6, <1>12, <3>0
    <3> HIDE DEF a, b
    <3>3. a = b
      BY <1>1, <3>1, <3>2, RemainderInjective
    <3> QED BY <1>1, <3>3 DEF a, b
  <2>2. CASE ~(p < C /\ q < C)
    <3>1. /\ p < C => Y[p] \in 1 .. C
          /\ q < C => Y[q] \in 1 .. C
          /\ ~(p < C) => Y[p] = p + 1
          /\ ~(q < C) => Y[q] = q + 1
      <4>1. /\ p < C => p \in 0 .. C - 1
            /\ q < C => q \in 0 .. C - 1
            /\ ~(p < C) => p \in C .. 2 * C - 1
            /\ ~(q < C) => q \in C .. 2 * C - 1
        BY <1>1
      <4> QED BY <1>6, <1>7, <4>1
    <3> QED BY <1>1, <1>12, <2>2, <3>1
  <2> QED BY <2>1, <2>2
<1>13. ASSUME NEW e \in 1 .. 2 * C PROVE \E p \in 0 .. 2 * C - 1 : Y[p] = e
  <2>1. CASE e > C
    <3>1. e - 1 \in C .. 2 * C - 1 /\ e - 1 \in 0 .. 2 * C - 1 /\ (e - 1) + 1 = e
      BY <1>1, <2>1
    <3>2. Y[e - 1] = e
      BY <1>7, <3>1
    <3> QED BY <3>1, <3>2
  <2>2. CASE e <= C
    <3>1. PICK p \in 0 .. C - 1 : X[p] = e
      BY <1>1, <1>3, <2>2
    <3> DEFINE n == p - (T + 1)
               i == n % C
    <3>2. n \in Int /\ i \in 0 .. C - 1
      <4>1. n \in Int
        BY <1>1
      <4> HIDE DEF n
      <4> QED BY <1>1, <4>1, IntegerDivision
    <3>3. (i + (T + 1)) % C = (n + (T + 1)) % C
      <4>1. T + 1 \in Int
        BY <1>1
      <4> HIDE DEF n
      <4> QED BY <1>1, <3>2, <4>1, RemainderOfSum
    <3>4. n + (T + 1) = p /\ p % C = p
      BY <1>1
    <3> HIDE DEF n, i
    <3>5. i + (T + 1) = T + 1 + i
      BY <1>1, <3>2
    <3>6. (T + 1 + i) % C = p
      BY <3>3, <3>4, <3>5
    <3>7. Y[i] = X[(T + 1 + i) % C]
      BY <1>6, <3>2
    <3>8. Y[i] = X[p] /\ i \in 0 .. 2 * C - 1
      BY <1>1, <3>2, <3>6, <3>7
    <3> QED BY <3>1, <3>8
  <2> QED BY <1>1, <2>1, <2>2
<1>14. Indexed'
  <2>0. indices' # <<>>
    BY <1>2, GrowIndices, IndexStays
  <2>1. \A p, q \in 0 .. Capacity' - 1 : Current'.index[p] = Current'.index[q] => p = q
    BY <1>2, <1>g, <1>12
  <2>2. \A e \in DOMAIN entries' : \E p \in 0 .. Capacity' - 1 : Current'.index[p] = e
    BY <1>2, <1>g, <1>13
  <2> QED BY <1>2, <1>g, <2>0, <2>1, <2>2 DEF Indexed
<1>15. e0 = entries /\ e1 = entries' /\ \A K \in Window : Slot(K)' = Slot(K) /\ e1[Slot(K)] = e0[Slot(K)]
  BY <1>2, <1>5, <1>9 DEF e0, e1
<1> QED BY <1>1, <1>2, <1>5, <1>10, <1>11, <1>14, <1>15 DEF C, L

(***************************************************************************)
(* What a step leaves of the index: every block in it keeps its entry, and *)
(* the entries of the blocks after one that is there keep their keys.      *)
(***************************************************************************)
LivesKept ==
  \A k \in Int : Live(k) => Live(k)' /\ Slot(k)' = Slot(k) /\ BlockAt(k)' = BlockAt(k)
NoNewLives == \A k \in Int : Live(k)' => Live(k)
PathsKept ==
  \A k, K \in Int :
    Live(k) /\ k <= K /\ K <= Num(tail) /\ KeyAt(K) = Key(K)
      => Slot(K)' = Slot(K) /\ KeyAt(K)' = Key(K)
Sound == Indexed /\ Progress /\ Keyed /\ Unwritten
Kept == LivesKept /\ NoNewLives /\ PathsKept

LEMMA IndexUnchanged ==
  ASSUME TypeOK, Indexed, Keyed, UNCHANGED index, Newest' = Newest
  PROVE  /\ Indexed' /\ Keyed' /\ Kept /\ SameIndices
         /\ Oldest' = Oldest /\ Window' = Window
         /\ \A K \in Int : /\ Slot(K)' = Slot(K) /\ KeyAt(K)' = KeyAt(K)
                           /\ BlockAt(K)' = BlockAt(K) /\ (Live(K)' <=> Live(K))
<1>1. /\ indices' = indices /\ entries' = entries
      /\ SameSlots /\ SameIndices
  BY SameWhenUnchanged DEF index
<1>2. Window \subseteq Int /\ Newest \in Int
  BY HeaderFacts
<1>3. Oldest' = Oldest /\ Window' = Window
  BY <1>1 DEF SameSlots, Oldest, Window
<1>4. \A K \in Int : Slot(K)' = Slot(K) /\ KeyAt(K)' = KeyAt(K) /\ BlockAt(K)' = BlockAt(K)
  BY <1>1 DEF SameSlots, KeyAt, BlockAt
<1>5. \A K \in Int : Live(K)' <=> Live(K)
  BY <1>3, <1>4 DEF Live
<1>6. Indexed'
  BY <1>1 DEF Indexed, Capacity, Current
<1>7. Keyed'
  <2>1. \A K \in Window : \A J \in K .. Newest : K \in Int /\ J \in Int
    BY <1>2
  <2> QED BY <1>2, <1>3, <1>4, <2>1 DEF Keyed
<1>8. Kept
  BY <1>4, <1>5 DEF Kept, LivesKept, NoNewLives, PathsKept
<1> QED BY <1>1, <1>3, <1>4, <1>5, <1>6, <1>7, <1>8

LEMMA EntryFacts ==
  ASSUME TypeOK, Indexed
  PROVE  /\ entries \in Seq([key : Nat, value : Blocks \cup {NoBlock, Uninit}])
         /\ \A K \in Int : /\ KeyAt(K) \in Nat /\ BlockAt(K) \in Blocks \cup {NoBlock, Uninit}
                           /\ entries[Slot(K)] \in [key : Nat, value : Blocks \cup {NoBlock, Uninit}]
         /\ DOMAIN entries = 1 .. Len(entries)
         /\ \A e \in DOMAIN entries :
              entries[e] \in [key : Nat, value : Blocks \cup {NoBlock, Uninit}]
         /\ NoBlock \notin Blocks /\ Uninit \notin Blocks /\ Uninit # NoBlock
<1> DEFINE Entry == [key : Nat, value : Blocks \cup {NoBlock, Uninit}]
<1>1. entries \in Seq(Entry)
  BY DEF TypeOK
<1>2. \A K \in Int : Slot(K) \in DOMAIN entries
  BY SlotFacts
<1>3. NoBlock \notin Blocks /\ Uninit \notin Blocks /\ Uninit # NoBlock
  BY BlocksAssumption DEF Blocks
<1>4. DOMAIN entries = 1 .. Len(entries) /\ \A e \in DOMAIN entries : entries[e] \in Entry
  <2> HIDE DEF Entry
  <2> QED BY <1>1
<1>5. \A K \in Int : entries[Slot(K)] \in Entry
  BY <1>2, <1>4
<1> QED BY <1>1, <1>3, <1>4, <1>5 DEF KeyAt, BlockAt

(* A key, or a block, is stored in an entry. *)
LEMMA KeyStored ==
  ASSUME TypeOK, Indexed, NEW e \in DOMAIN entries, NEW x \in Nat,
         entries' = [entries EXCEPT ![e].key = x]
  PROVE  /\ DOMAIN entries' = DOMAIN entries /\ Len(entries') = Len(entries)
         /\ \A f \in DOMAIN entries : /\ entries'[f].value = entries[f].value
                                      /\ f # e => entries'[f].key = entries[f].key
         /\ entries'[e].key = x
         /\ entries' \in Seq([key : Nat, value : Blocks \cup {NoBlock, Uninit}])
<1> DEFINE Entry == [key : Nat, value : Blocks \cup {NoBlock, Uninit}]
           new == [entries[e] EXCEPT !.key = x]
<1>1. entries \in Seq(Entry) /\ entries[e] \in Entry
  BY EntryFacts
<1>2. new \in Entry /\ new.key = x /\ new.value = entries[e].value
  BY <1>1
<1>3. entries' = [entries EXCEPT ![e] = new]
  OBVIOUS
<1> HIDE DEF new, Entry
<1>4. entries' \in Seq(Entry) /\ Len(entries') = Len(entries) /\ DOMAIN entries' = DOMAIN entries
      /\ entries'[e] = new /\ \A f \in DOMAIN entries \ {e} : entries'[f] = entries[f]
  BY <1>1, <1>2, <1>3
<1> QED BY <1>2, <1>4 DEF Entry

LEMMA ValueStored ==
  ASSUME TypeOK, Indexed, NEW e \in DOMAIN entries, NEW x \in Blocks \cup {NoBlock},
         entries' = [entries EXCEPT ![e].value = x]
  PROVE  /\ DOMAIN entries' = DOMAIN entries /\ Len(entries') = Len(entries)
         /\ \A f \in DOMAIN entries : /\ entries'[f].key = entries[f].key
                                      /\ f # e => entries'[f].value = entries[f].value
         /\ entries'[e].value = x
         /\ entries' \in Seq([key : Nat, value : Blocks \cup {NoBlock, Uninit}])
<1> DEFINE Entry == [key : Nat, value : Blocks \cup {NoBlock, Uninit}]
           new == [entries[e] EXCEPT !.value = x]
<1>1. entries \in Seq(Entry) /\ entries[e] \in Entry
  BY EntryFacts
<1>2. new \in Entry /\ new.value = x /\ new.key = entries[e].key
  BY <1>1
<1>3. entries' = [entries EXCEPT ![e] = new]
  OBVIOUS
<1> HIDE DEF new, Entry
<1>4. entries' \in Seq(Entry) /\ Len(entries') = Len(entries) /\ DOMAIN entries' = DOMAIN entries
      /\ entries'[e] = new /\ \A f \in DOMAIN entries \ {e} : entries'[f] = entries[f]
  BY <1>1, <1>2, <1>3
<1> QED BY <1>2, <1>4 DEF Entry

(* A block index that is there is not missed. *)
LEMMA NotWithoutIndex ==
  ASSUME Indexed
  PROVE  ~StartWithoutIndex
  BY DEF Indexed, StartWithoutIndex

(* The entry that a block is linked to is the one of its number. *)
LEMMA LinkedEntry ==
  ASSUME TypeOK, Indexed, Progress
  PROVE  /\ ppc \in {"key", "tail", "clear"} => \A K \in {Num(tail)} : NextEntry = Slot(K)
         /\ ppc \in {"requisition", "rewind", "install"} =>
              \A K \in {Num(tail)} : TailEntry = Slot(K)
         /\ NextEntry \in DOMAIN entries /\ TailEntry \in DOMAIN entries
         /\ Num(tail) \in Int
<1>1. /\ NextEntry = Slot(Newest + 1) /\ TailEntry = Slot(Newest)
      /\ NextEntry \in DOMAIN entries /\ TailEntry \in DOMAIN entries
  <2>1. Newest \in Int /\ Newest + 1 \in Int
    BY HeaderFacts
  <2> QED BY <2>1, SlotFacts
<1>2. /\ ppc \in {"key", "tail", "clear"} => Num(tail) = Newest + 1
      /\ ppc \in {"requisition", "rewind", "install"} => Num(tail) = Newest
  BY NewestMoves DEF Progress
<1>3. Num(tail) \in Int
  BY HeaderFacts
<1> QED BY <1>1, <1>2, <1>3

(* A value that was never stored is not looked at: its key is invalid. *)
LEMMA UnwrittenKept ==
  ASSUME TypeOK, Indexed, Progress, Unwritten, ProducerStep
  PROVE  Unwritten'
<1>1. ASSUME SameSlots, entries' = entries,
             ppc \in Linking => ppc' \in Linking /\ tail' = tail
      PROVE  Unwritten'
  <2>1. ASSUME NEW e \in DOMAIN entries, entries[e].value = Uninit, entries[e].key # InvalidBase
        PROVE  ppc' \in Linking /\ \A K \in {Num(tail)'} : e = Slot(K)'
    <3>1. ppc \in Linking /\ e = Slot(Num(tail)) /\ Num(tail) \in Int
      BY <2>1, LinkedEntry DEF Unwritten
    <3>2. ppc' \in Linking /\ Num(tail)' = Num(tail)
      BY <1>1, <3>1 DEF Num
    <3> QED BY <1>1, <3>1, <3>2 DEF SameSlots
  <2> QED BY <1>1, <2>1 DEF Unwritten
<1>2. CASE InsideBlock \/ StartBlock \/ GrowFails \/ RequisitionFails \/ Write \/ PublishElement
           \/ (\E b \in Blocks : Requisition(b))
  <2>1. /\ UNCHANGED index
        /\ ppc \in Linking => ppc' \in Linking /\ tail' = tail
    BY <1>2 DEF InsideBlock, StartBlock, GrowFails, Requisition, RequisitionFails, Write,
       PublishElement, PGoto, Linking, dispenser, index, memory
  <2>2. SameSlots
    BY <1>2, <2>1, NewestMoves, SameWhenUnchanged DEF index
  <2> QED BY <1>1, <2>1, <2>2 DEF index
<1>3. CASE StoreTail \/ Rewind
  <2>1. entries' = entries /\ tail' = tail /\ ppc' \in Linking
    BY <1>3 DEF StoreTail, Rewind, PGoto, Linking, dispenser
  <2> QED BY <1>1, <1>3, <2>1, SlotsOfStoreTail, SlotsOfRewind
<1>4. CASE StoreKey
  <2>1. /\ ppc = "key" /\ ppc' = "tail" /\ tail' = tail /\ indices' = indices /\ Newest' = Newest
        /\ entries' = [entries EXCEPT ![NextEntry].key = tail] /\ tail \in Nat
    BY <1>4, NewestMoves, MaxElementsAssumption DEF StoreKey, PGoto, dispenser, TypeOK
  <2>2. /\ DOMAIN entries' = DOMAIN entries
        /\ \A f \in DOMAIN entries : /\ entries'[f].value = entries[f].value
                                     /\ f # NextEntry => entries'[f].key = entries[f].key
        /\ Num(tail) \in Int /\ NextEntry = Slot(Num(tail))
    BY <2>1, LinkedEntry, KeyStored
  <2>3. SameSlots
    BY <2>1, <2>2, SameWhenUnchanged
  <2>4. Num(tail)' = Num(tail) /\ ppc' \in Linking
    BY <2>1 DEF Num, Linking
  <2>5. ASSUME NEW e \in DOMAIN entries, entries'[e].value = Uninit, entries'[e].key # InvalidBase
        PROVE  e = Slot(Num(tail))
    <3>1. entries[e].value = Uninit /\ (e # NextEntry => entries[e].key # InvalidBase)
      BY <2>2, <2>5
    <3> QED BY <2>1, <2>2, <3>1 DEF Unwritten, Linking
  <2>6. \A K \in {Num(tail)} : Slot(K)' = Slot(K)
    BY <2>2, <2>3 DEF SameSlots
  <2> QED BY <2>2, <2>4, <2>5, <2>6 DEF Unwritten
<1>5. ASSUME NEW e \in DOMAIN entries, NEW x \in Blocks \cup {NoBlock},
             entries' = [entries EXCEPT ![e].value = x],
             ppc \in Linking /\ e = Slot(Num(tail))
      PROVE  Unwritten'
  <2>1. /\ DOMAIN entries' = DOMAIN entries
        /\ \A f \in DOMAIN entries : /\ entries'[f].key = entries[f].key
                                     /\ f # e => entries'[f].value = entries[f].value
        /\ entries'[e].value = x /\ x # Uninit
    BY <1>5, ValueStored, EntryFacts
  <2>2. ASSUME NEW f \in DOMAIN entries, entries'[f].value = Uninit
        PROVE  entries'[f].key = InvalidBase
    <3>1. f # e /\ entries[f].value = Uninit /\ entries'[f].key = entries[f].key
      BY <2>1, <2>2
    <3> QED BY <1>5, <3>1 DEF Unwritten
  <2> QED BY <2>1, <2>2 DEF Unwritten
<1>6. CASE ClearEntry
  <2>1. ppc = "clear" /\ entries' = [entries EXCEPT ![NextEntry].value = NoBlock]
    BY <1>6 DEF ClearEntry, ValueCleared, PGoto
  <2>2. NextEntry \in DOMAIN entries /\ NextEntry = Slot(Num(tail))
    BY <2>1, LinkedEntry
  <2> QED BY <1>5, <2>1, <2>2 DEF Linking
<1>7. CASE Install
  <2>1. /\ ppc = "install" /\ entries' = [entries EXCEPT ![TailEntry].value = newBlock]
        /\ newBlock \in Blocks \cup {NoBlock}
    BY <1>7 DEF Install, PGoto, TypeOK
  <2>2. TailEntry \in DOMAIN entries /\ TailEntry = Slot(Num(tail))
    BY <2>1, LinkedEntry
  <2> QED BY <1>5, <2>1, <2>2 DEF Linking
<1>8. CASE Grow
  <2>1. ppc \notin Linking
    BY <1>8 DEF Grow, PGoto, Linking
  <2>2. /\ DOMAIN entries = 1 .. Capacity /\ DOMAIN entries' = 1 .. 2 * Capacity
        /\ \A e \in 1 .. Capacity : entries'[e] = entries[e]
        /\ \A e \in Capacity + 1 .. 2 * Capacity : entries'[e] = InvalidEntry
        /\ Capacity \in Nat
    BY <1>8, GrowIndices, HeaderFacts
  <2>3. ASSUME NEW e \in DOMAIN entries', entries'[e].value = Uninit
        PROVE  entries'[e].key = InvalidBase
    <3>1. CASE e \in 1 .. Capacity
      BY <2>1, <2>2, <2>3, <3>1 DEF Unwritten
    <3>2. CASE e \in Capacity + 1 .. 2 * Capacity
      BY <2>2, <3>2 DEF InvalidEntry
    <3> QED BY <2>2, <2>3, <3>1, <3>2
  <2> QED BY <2>3 DEF Unwritten
<1> QED BY <1>2, <1>3, <1>4, <1>6, <1>7, <1>8, NotWithoutIndex DEF ProducerStep

LEMMA QuietProgress ==
  ASSUME TypeOK, Sound,
         InsideBlock \/ StartBlock \/ GrowFails \/ RequisitionFails \/ Write \/ PublishElement
         \/ (\E b \in Blocks : Requisition(b))
  PROVE  Sound' /\ Kept /\ SameIndices /\ UNCHANGED index /\ Newest' = Newest
<1>1. UNCHANGED index /\ Newest' = Newest /\ Indexed /\ Progress /\ Keyed /\ Unwritten
  BY NewestMoves DEF Sound, InsideBlock, StartBlock, GrowFails, Requisition, RequisitionFails,
     Write, PublishElement, index, memory
<1>2. /\ Indexed' /\ Keyed' /\ Kept /\ SameIndices /\ Oldest' = Oldest
      /\ \A K \in Int : KeyAt(K)' = KeyAt(K) /\ BlockAt(K)' = BlockAt(K)
  BY <1>1, IndexUnchanged
<1>3. /\ Newest \in Int /\ Oldest \in Int /\ tail \in Nat /\ Oldest \in Window /\ Newest + 1 \in Int
      /\ NextEntry \in DOMAIN entries /\ NextEntry = Slot(Oldest) /\ Slot(Oldest) = Slot(Newest + 1)
      /\ ppc \in ProducerStates /\ Unwritten'
  <2>1. /\ Newest \in Int /\ Capacity \in Nat \ {0} /\ tail \in Nat /\ ppc \in ProducerStates
    BY <1>1, HeaderFacts, MaxElementsAssumption DEF TypeOK
  <2>2. Oldest \in Int /\ Oldest \in Window /\ Newest + 1 \in Int
    BY <2>1 DEF Oldest, Window
  <2>3. /\ NextEntry = Slot(Oldest) /\ Slot(Oldest) = Slot(Newest + 1)
        /\ NextEntry \in DOMAIN entries
    BY <1>1, <2>2, SlotFacts
  <2>4. Unwritten'
    BY <1>1, UnwrittenKept DEF ProducerStep
  <2> QED BY <2>1, <2>2, <2>3, <2>4
<1>4. CASE InsideBlock \/ GrowFails \/ Write \/ PublishElement
  <2>1. ppc' \in {"idle", "write", "publish"}
    BY <1>4 DEF InsideBlock, GrowFails, Write, PublishElement, PGoto
  <2>2. Progress'
    BY <2>1 DEF Progress
  <2> QED BY <1>1, <1>2, <1>3, <2>2 DEF Sound
<1>5. CASE StartBlock
  <2>1. /\ ppc = "idle" /\ tail' = tail /\ tail % BlockSize = 0
        /\ \/ ppc' = "key" /\ Reusable(NextEntry)
           \/ ppc' = "grow" /\ Occupied(NextEntry)
    BY <1>5 DEF StartBlock, PGoto, dispenser
  <2>2. /\ Reusable(NextEntry) => BlockAt(Newest + 1) \notin Blocks
        /\ Occupied(NextEntry) => KeyAt(Oldest) = Key(Oldest)
    <3>1. /\ BlockAt(Oldest) \in Blocks => KeyAt(Oldest) = Key(Oldest)
          /\ Key(Oldest) # InvalidBase
      BY <1>1, <1>3, Keys DEF Keyed
    <3>2. /\ KeyAt(Oldest) = entries[NextEntry].key /\ BlockAt(Oldest) = entries[NextEntry].value
          /\ BlockAt(Newest + 1) = entries[NextEntry].value
          /\ BlockAt(Oldest) \in Blocks \cup {NoBlock, Uninit}
          /\ NoBlock \notin Blocks /\ Uninit \notin Blocks
      BY <1>1, <1>3, EntryFacts DEF KeyAt, BlockAt
    <3>3. ASSUME Reusable(NextEntry) PROVE BlockAt(Newest + 1) \notin Blocks
      BY <3>1, <3>2, <3>3 DEF Reusable
    <3>4. ASSUME Occupied(NextEntry) PROVE KeyAt(Oldest) = Key(Oldest)
      <4>1. KeyAt(Oldest) # InvalidBase /\ BlockAt(Oldest) # NoBlock
        BY <3>2, <3>4 DEF Occupied
      <4>2. BlockAt(Oldest) # Uninit
        BY <1>1, <1>3, <2>1, <3>2, <4>1 DEF Unwritten, Linking
      <4> QED BY <3>1, <3>2, <4>1, <4>2
    <3> QED BY <3>3, <3>4
  <2>3. /\ ppc' = "key" => \A K \in {Newest + 1} : BlockAt(K)' \notin Blocks
        /\ ppc' = "grow" => \A K \in {Oldest} : KeyAt(K)' = Key(K)
    BY <1>2, <1>3, <2>1, <2>2
  <2> QED BY <1>1, <1>2, <1>3, <2>1, <2>3 DEF Progress, Sound, Key
<1>6. CASE RequisitionFails \/ \E b \in Blocks : Requisition(b)
  <2>1. /\ ppc = "requisition" /\ ppc' \in {"rewind", "install"} /\ tail' = tail
    BY <1>6 DEF RequisitionFails, Requisition, PGoto, dispenser
  <2> QED BY <1>1, <1>2, <1>3, <2>1 DEF Progress, Sound, Key
<1> QED BY <1>1, <1>2, <1>4, <1>5, <1>6 DEF Sound

(* The window, its oldest block, and the one that will come next. *)
LEMMA WindowFacts ==
  ASSUME TypeOK, Indexed
  PROVE  /\ Newest \in Int /\ Capacity \in Nat \ {0} /\ Oldest \in Int
         /\ Oldest = Newest - Capacity + 1 /\ Oldest <= Newest
         /\ \A K : K \in Window <=> K \in Int /\ Oldest <= K /\ K <= Newest
         /\ Slot(Newest + 1) = Slot(Oldest)
         /\ KeyAt(Newest + 1) = KeyAt(Oldest) /\ BlockAt(Newest + 1) = BlockAt(Oldest)
         /\ \A J, K \in Window : Slot(J) = Slot(K) => J = K
<1>1. /\ Newest \in Int /\ Capacity \in Nat \ {0}
      /\ Slot(Newest + 1) = Slot(Oldest)
      /\ \A J, K \in Int : Slot(J) = Slot(K) /\ J - K < Capacity /\ K - J < Capacity => J = K
  BY HeaderFacts, SlotFacts
<1>2. Oldest \in Int /\ Oldest = Newest - Capacity + 1 /\ Oldest <= Newest
  BY <1>1 DEF Oldest
<1>3. \A K : K \in Window <=> K \in Int /\ Oldest <= K /\ K <= Newest
  BY <1>1, <1>2 DEF Window
<1>4. ASSUME NEW J \in Window, NEW K \in Window, Slot(J) = Slot(K) PROVE J = K
  <2>1. J \in Int /\ K \in Int /\ J - K < Capacity /\ K - J < Capacity
    BY <1>1, <1>2, <1>3
  <2> QED BY <1>1, <1>4, <2>1
<1> QED BY <1>1, <1>2, <1>3, <1>4 DEF KeyAt, BlockAt

LEMMA StoreKeyKeeps ==
  ASSUME TypeOK, Sound, StoreKey
  PROVE  Sound' /\ Kept /\ SameIndices /\ Newest' = Newest
<1>1. /\ Indexed /\ Progress /\ Keyed /\ Newest' = Newest
      /\ ppc = "key" /\ ppc' = "tail" /\ tail' = tail /\ tail % BlockSize = 0
      /\ indices' = indices /\ entries' = [entries EXCEPT ![NextEntry].key = tail]
      /\ BlockAt(Newest + 1) \notin Blocks
  BY NewestMoves DEF Sound, StoreKey, PGoto, dispenser, Progress
<1> DEFINE L == Newest
           e == NextEntry
<1>2. /\ L \in Int /\ Oldest \in Int /\ Oldest <= L
      /\ \A K : K \in Window <=> K \in Int /\ Oldest <= K /\ K <= L
      /\ BlockAt(Oldest) \notin Blocks
      /\ \A J, K \in Window : Slot(J) = Slot(K) => J = K
      /\ Slot(L + 1) = Slot(Oldest) /\ Oldest \in Window /\ L + 1 \in Int
  BY <1>1, WindowFacts
<1>3. /\ tail = Key(L + 1) /\ Num(tail) = L + 1 /\ tail \in Nat
      /\ e = Slot(Oldest) /\ e \in DOMAIN entries
  <2>1. tail \in Nat
    BY MaxElementsAssumption DEF TypeOK
  <2>2. Num(tail) = L + 1
    BY <1>1, NewestMoves
  <2>3. Key(Num(tail)) = tail
    BY <1>1, <2>1, NextNumber
  <2>4. e = Slot(L + 1) /\ \A K \in Int : Slot(K) \in DOMAIN entries
    BY <1>1, SlotFacts
  <2> QED BY <1>2, <2>1, <2>2, <2>3, <2>4
<1>4. /\ entries \in Seq([key : Nat, value : Blocks \cup {NoBlock, Uninit}])
      /\ \A K \in Int : Slot(K) \in DOMAIN entries
  BY <1>1, EntryFacts, SlotFacts
<1>5. /\ DOMAIN entries' = DOMAIN entries /\ Len(entries') = Len(entries)
      /\ \A f \in DOMAIN entries : /\ entries'[f].value = entries[f].value
                                   /\ f # e => entries'[f].key = entries[f].key
      /\ entries'[e].key = tail
  BY <1>1, <1>3, KeyStored
<1>6. SameSlots /\ SameIndices
  BY <1>1, <1>5, SameWhenUnchanged
<1>7. \A K \in Int : /\ Slot(K)' = Slot(K) /\ BlockAt(K)' = BlockAt(K)
                     /\ Slot(K) # Slot(Oldest) => KeyAt(K)' = KeyAt(K)
                     /\ Slot(K) = Slot(Oldest) => KeyAt(K)' = Key(L + 1)
  BY <1>3, <1>4, <1>5, <1>6 DEF SameSlots, KeyAt, BlockAt
<1>8. Oldest' = Oldest /\ Window' = Window
  BY <1>1, <1>6 DEF SameSlots, Oldest, Window
<1>9. \A K \in Window : K # Oldest => KeyAt(K)' = KeyAt(K)
  BY <1>2, <1>7
<1>10. /\ \A K \in {Oldest} : KeyAt(K)' # Key(K)
       /\ \A K \in {L + 1} : KeyAt(K)' = Key(K) /\ BlockAt(K)' \notin Blocks
  BY <1>1, <1>2, <1>7, Keys
<1> HIDE DEF L, e
<1>11. Indexed'
  BY <1>1, <1>5, <1>6 DEF Indexed, SameSlots, Current
<1>12. Progress'
  BY <1>1, <1>10 DEF Progress, L, Key
<1>13. Keyed'
  <2>1. ASSUME NEW K \in Window
        PROVE  /\ BlockAt(K)' \in Blocks => KeyAt(K)' = Key(K)
               /\ KeyAt(K)' = Key(K) => \A J \in K .. Newest : KeyAt(J)' = Key(J)
    <3>1. K \in Int /\ Oldest <= K /\ K <= L
      BY <1>2
    <3>2. CASE K = Oldest
      BY <1>2, <1>7, <1>10, <3>2
    <3>3. CASE K # Oldest
      <4>1. \A J \in K .. Newest : J \in Window /\ J # Oldest
        BY <1>2, <3>1, <3>3 DEF L
      <4> QED BY <1>1, <1>7, <1>9, <3>1, <3>3, <4>1 DEF Keyed
    <3> QED BY <3>2, <3>3
  <2> QED BY <1>1, <1>8, <2>1 DEF Keyed, Key
<1>14. \A k \in Int : Live(k)' <=> Live(k)
  BY <1>7, <1>8 DEF Live
<1>15. PathsKept
  <2> SUFFICES ASSUME NEW k \in Int, NEW K \in Int, Live(k), k <= K, K <= Num(tail),
                      KeyAt(K) = Key(K)
               PROVE  KeyAt(K)' = Key(K)
    BY <1>7 DEF PathsKept
  <2>1. k \in Window /\ k # Oldest
    BY <1>2 DEF Live
  <2>2. CASE K <= L
    <3>1. K \in Window /\ K # Oldest
      BY <1>2, <2>1, <2>2
    <3> QED BY <1>9, <3>1
  <2>3. CASE K = L + 1
    BY <1>10, <2>3
  <2> QED BY <1>2, <1>3, <2>2, <2>3
<1>u. Unwritten'
  BY <1>1, UnwrittenKept DEF Sound, ProducerStep
<1> QED BY <1>1, <1>6, <1>7, <1>11, <1>12, <1>13, <1>14, <1>15, <1>u
        DEF Sound, Kept, LivesKept, NoNewLives

(* A step that stores no entry and moves no slot. *)
LEMMA EntriesUnchanged ==
  ASSUME SameSlots, entries' = entries
  PROVE  \A K \in Int : /\ Slot(K)' = Slot(K) /\ KeyAt(K)' = KeyAt(K)
                        /\ BlockAt(K)' = BlockAt(K)
  BY DEF SameSlots, KeyAt, BlockAt

LEMMA StoreTailKeeps ==
  ASSUME TypeOK, Sound, StoreTail
  PROVE  Sound' /\ Kept /\ SameIndices /\ Newest' = Newest + 1
<1>1. /\ Indexed /\ Progress /\ Keyed /\ Newest' = Newest + 1
      /\ ppc = "tail" /\ ppc' = "requisition" /\ tail' = tail /\ tail % BlockSize = 0
      /\ entries' = entries
      /\ BlockAt(Newest + 1) \notin Blocks /\ KeyAt(Newest + 1) = Key(Newest + 1)
  BY NewestMoves DEF Sound, StoreTail, PGoto, dispenser, Progress
<1>2. SameSlots /\ SameIndices /\ indices' \in Seq(Header)
  BY <1>1, SlotsOfStoreTail
<1> DEFINE L == Newest
<1>3. /\ L \in Int /\ Oldest \in Int /\ Oldest <= L
      /\ \A K : K \in Window <=> K \in Int /\ Oldest <= K /\ K <= L
      /\ BlockAt(Oldest) \notin Blocks
  BY <1>1, WindowFacts
<1>4. /\ Newest' = L + 1 /\ Oldest' = Oldest + 1
      /\ \A K : K \in Window' <=> K \in Int /\ Oldest + 1 <= K /\ K <= L + 1
  <2>1. Oldest' = Oldest + 1
    BY <1>1, <1>2, <1>3, WindowFacts DEF SameSlots, Oldest
  <2> QED BY <1>1, <1>3, <2>1 DEF Window
<1>5. \A K \in Int : Slot(K)' = Slot(K) /\ KeyAt(K)' = KeyAt(K) /\ BlockAt(K)' = BlockAt(K)
  BY <1>1, <1>2, EntriesUnchanged
<1>6. Indexed'
  <2>1. Current'.index = Current.index
    BY <1>1, HeaderFacts, TailStored DEF StoreTail
  <2>2. indices' # <<>>
    BY <1>1, <1>2, IndexStays DEF SameIndices
  <2> QED BY <1>1, <1>2, <2>1, <2>2 DEF Indexed, SameSlots
<1>7. \A K \in {L + 1} : KeyAt(K)' = Key(K) /\ BlockAt(K)' \notin Blocks
  BY <1>1, <1>3, <1>5
<1> HIDE DEF L
<1>8. Progress'
  BY <1>1, <1>4, <1>7 DEF Progress, Key
<1>9. Keyed'
  <2>1. ASSUME NEW K \in Window'
        PROVE  /\ BlockAt(K)' \in Blocks => KeyAt(K)' = Key(K)
               /\ KeyAt(K)' = Key(K) => \A J \in K .. L + 1 : KeyAt(J)' = Key(J)
    <3>1. K \in Int /\ Oldest + 1 <= K /\ K <= L + 1
      BY <1>4
    <3>2. CASE K = L + 1
      <4>1. \A J \in K .. L + 1 : J = K
        BY <1>3, <3>1, <3>2
      <4> QED BY <1>7, <3>2, <4>1
    <3>3. CASE K # L + 1
      <4>1. K \in Window
        BY <1>3, <3>1, <3>3
      <4>2. /\ BlockAt(K) \in Blocks => KeyAt(K) = Key(K)
            /\ KeyAt(K) = Key(K) => \A J \in K .. L : KeyAt(J) = Key(J)
        BY <1>1, <4>1 DEF Keyed, L
      <4>3. \A J \in K .. L + 1 : J \in Int /\ (J = L + 1 \/ J \in K .. L)
        BY <1>3, <3>1
      <4> QED BY <1>5, <1>7, <3>1, <4>2, <4>3
    <3> QED BY <3>2, <3>3
  <2> QED BY <1>4, <2>1 DEF Keyed, Key
<1>10. \A k \in Int : Live(k)' <=> Live(k)
  <2> SUFFICES ASSUME NEW k \in Int PROVE Live(k)' <=> Live(k)
    OBVIOUS
  <2>1. Live(k) <=> Oldest <= k /\ k <= L /\ BlockAt(k) \in Blocks
    BY <1>3 DEF Live
  <2>2. Live(k)' <=> Oldest + 1 <= k /\ k <= L + 1 /\ BlockAt(k) \in Blocks
    BY <1>4, <1>5 DEF Live
  <2>3. k = L + 1 => BlockAt(k) \notin Blocks
    BY <1>5, <1>7
  <2> QED BY <1>3, <2>1, <2>2, <2>3
<1>11. Kept
  BY <1>5, <1>10 DEF Kept, LivesKept, NoNewLives, PathsKept
<1>12. Unwritten'
  BY <1>1, UnwrittenKept DEF Sound, ProducerStep
<1> QED BY <1>1, <1>2, <1>6, <1>8, <1>9, <1>11, <1>12 DEF Sound

LEMMA RewindKeeps ==
  ASSUME TypeOK, Sound, Rewind
  PROVE  Sound' /\ Kept /\ SameIndices /\ Newest' = Newest - 1
<1>1. /\ Indexed /\ Progress /\ Keyed /\ Newest' = Newest - 1
      /\ ppc = "rewind" /\ ppc' = "clear" /\ tail' = tail /\ tail % BlockSize = 0
      /\ entries' = entries
      /\ BlockAt(Newest) \notin Blocks /\ KeyAt(Newest) = Key(Newest)
  BY NewestMoves DEF Sound, Rewind, PGoto, dispenser, Progress
<1>2. SameSlots /\ SameIndices /\ indices' \in Seq(Header)
  BY <1>1, SlotsOfRewind
<1> DEFINE L == Newest
<1>3. /\ L \in Int /\ Oldest \in Int /\ Oldest <= L /\ Oldest = L - Capacity + 1
      /\ Capacity \in Nat \ {0}
      /\ \A K : K \in Window <=> K \in Int /\ Oldest <= K /\ K <= L
  BY <1>1, WindowFacts
<1>4. /\ Newest' = L - 1 /\ Oldest' = Oldest - 1
      /\ \A K : K \in Window' <=> K \in Int /\ Oldest - 1 <= K /\ K <= L - 1
  <2>1. Oldest' = Oldest - 1
    BY <1>1, <1>2, <1>3, WindowFacts DEF SameSlots, Oldest
  <2> QED BY <1>1, <1>3, <2>1 DEF Window
<1>5. \A K \in Int : Slot(K)' = Slot(K) /\ KeyAt(K)' = KeyAt(K) /\ BlockAt(K)' = BlockAt(K)
  BY <1>1, <1>2, EntriesUnchanged
<1>6. Indexed'
  <2>1. (Current.tail + Current.capacity - 1) % Current.capacity \in 0 .. Capacity - 1
    <3>1. Current.tail + Capacity - 1 \in Int
      BY <1>1, HeaderFacts
    <3> QED BY <1>3, <3>1, IntegerDivision DEF Capacity
  <2>2. Current'.index = Current.index
    BY <1>1, <2>1, TailStored DEF Rewind
  <2>3. indices' # <<>>
    BY <1>1, <1>2, IndexStays DEF SameIndices
  <2> QED BY <1>1, <1>2, <2>2, <2>3 DEF Indexed, SameSlots
<1>7. /\ Slot(Oldest - 1) = Slot(L) /\ Oldest - 1 \in Int
      /\ BlockAt(Oldest - 1) \notin Blocks /\ KeyAt(Oldest - 1) = Key(L)
      /\ Key(L) # Key(Oldest - 1)
  <2>1. L = (Oldest - 1) + Capacity /\ Oldest - 1 \in Int /\ Oldest - 1 # L
    BY <1>3
  <2>2. Slot(Oldest - 1) = Slot(L)
    BY <1>1, <1>3, <2>1, SlotFacts
  <2>3. Key(L) # Key(Oldest - 1)
    BY <1>3, <2>1, Keys
  <2> QED BY <1>1, <2>1, <2>2, <2>3 DEF KeyAt, BlockAt
<1>8. \A K \in {Oldest - 1} : KeyAt(K)' # Key(K) /\ BlockAt(K)' \notin Blocks
  BY <1>5, <1>7
<1>9. \A K \in {L} : BlockAt(K)' \notin Blocks
  BY <1>1, <1>3, <1>5
<1> HIDE DEF L
<1>10. Progress'
  <2>1. \A K \in {Newest' + 1} : BlockAt(K)' \notin Blocks
    BY <1>3, <1>4, <1>9
  <2> QED BY <1>1, <2>1 DEF Progress
<1>11. Keyed'
  <2>1. ASSUME NEW K \in Window'
        PROVE  /\ BlockAt(K)' \in Blocks => KeyAt(K)' = Key(K)
               /\ KeyAt(K)' = Key(K) => \A J \in K .. L - 1 : KeyAt(J)' = Key(J)
    <3>1. K \in Int /\ Oldest - 1 <= K /\ K <= L - 1
      BY <1>4
    <3>2. CASE K = Oldest - 1
      BY <1>8, <3>2
    <3>3. CASE K # Oldest - 1
      <4>1. K \in Window
        BY <1>3, <3>1, <3>3
      <4>2. /\ BlockAt(K) \in Blocks => KeyAt(K) = Key(K)
            /\ KeyAt(K) = Key(K) => \A J \in K .. L : KeyAt(J) = Key(J)
        BY <1>1, <4>1 DEF Keyed, L
      <4>3. \A J \in K .. L - 1 : J \in Int /\ J \in K .. L
        BY <1>3, <3>1
      <4> QED BY <1>5, <3>1, <4>2, <4>3
    <3> QED BY <3>2, <3>3
  <2> QED BY <1>4, <2>1 DEF Keyed, Key
<1>12. \A k \in Int : Live(k)' <=> Live(k)
  <2> SUFFICES ASSUME NEW k \in Int PROVE Live(k)' <=> Live(k)
    OBVIOUS
  <2>1. Live(k) <=> Oldest <= k /\ k <= L /\ BlockAt(k) \in Blocks
    BY <1>3 DEF Live
  <2>2. Live(k)' <=> Oldest - 1 <= k /\ k <= L - 1 /\ BlockAt(k) \in Blocks
    BY <1>4, <1>5 DEF Live
  <2>3. /\ k = L => BlockAt(k) \notin Blocks
        /\ k = Oldest - 1 => BlockAt(k) \notin Blocks
    BY <1>5, <1>8, <1>9
  <2> QED BY <1>3, <2>1, <2>2, <2>3
<1>13. Kept
  BY <1>5, <1>12 DEF Kept, LivesKept, NoNewLives, PathsKept
<1>14. Unwritten'
  BY <1>1, UnwrittenKept DEF Sound, ProducerStep
<1> QED BY <1>1, <1>2, <1>6, <1>10, <1>11, <1>13, <1>14 DEF Sound

LEMMA ClearEntryKeeps ==
  ASSUME TypeOK, Sound, ClearEntry
  PROVE  /\ Sound' /\ Kept /\ SameIndices /\ Newest' = Newest
         /\ \A b \in Blocks : Listing(b)' = Listing(b)
<1>1. /\ Indexed /\ Progress /\ Keyed /\ Newest' = Newest
      /\ ppc = "clear" /\ ppc' = "idle" /\ tail' = tail /\ indices' = indices
      /\ entries' = [entries EXCEPT ![NextEntry].value = NoBlock]
      /\ BlockAt(Newest + 1) \notin Blocks
  BY NewestMoves DEF Sound, ClearEntry, ValueCleared, PGoto, dispenser, Progress
<1> DEFINE e == NextEntry
<1>2. /\ e \in DOMAIN entries /\ entries[e].value \notin Blocks /\ NoBlock \notin Blocks
      /\ \A K \in Int : Slot(K) \in DOMAIN entries
  BY <1>1, SlotFacts, LinkedEntry, EntryFacts DEF BlockAt
<1>3. /\ DOMAIN entries' = DOMAIN entries /\ Len(entries') = Len(entries)
      /\ \A f \in DOMAIN entries : /\ entries'[f].key = entries[f].key
                                   /\ f # e => entries'[f].value = entries[f].value
      /\ entries'[e].value = NoBlock
  BY <1>1, <1>2, ValueStored
<1>4. SameSlots /\ SameIndices
  BY <1>1, <1>3, SameWhenUnchanged
<1> HIDE DEF e
<1>5. \A K \in Int : /\ Slot(K)' = Slot(K) /\ KeyAt(K)' = KeyAt(K)
                     /\ BlockAt(K) \in Blocks \/ BlockAt(K)' \in Blocks => BlockAt(K)' = BlockAt(K)
  BY <1>2, <1>3, <1>4 DEF SameSlots, KeyAt, BlockAt
<1>6. /\ Oldest' = Oldest /\ Window' = Window
      /\ \A K \in Window : K \in Int /\ \A J \in K .. Newest : J \in Int
  <2>1. Newest \in Int /\ \A K \in Window : K \in Int
    BY <1>1, WindowFacts
  <2> QED BY <1>1, <1>4, <2>1 DEF SameSlots, Oldest, Window
<1>7. Indexed'
  BY <1>1, <1>3, <1>4 DEF Indexed, SameSlots, Current
<1>8. Progress'
  BY <1>1 DEF Progress
<1>9. Keyed'
  <2>1. \A K \in Window : KeyAt(K)' = Key(K) => \A J \in K .. Newest : KeyAt(J)' = Key(J)
    BY <1>1, <1>5, <1>6 DEF Keyed
  <2>2. \A K \in Window : BlockAt(K)' \in Blocks => KeyAt(K)' = Key(K)
    BY <1>1, <1>5, <1>6 DEF Keyed
  <2> QED BY <1>1, <1>6, <2>1, <2>2 DEF Keyed, Key
<1>10. Kept
  <2>1. \A k \in Int : (Live(k) => Live(k)' /\ BlockAt(k)' = BlockAt(k)) /\ (Live(k)' => Live(k))
    BY <1>5, <1>6 DEF Live
  <2> QED BY <1>5, <2>1 DEF Kept, LivesKept, NoNewLives, PathsKept
<1>11. Unwritten'
  BY <1>1, UnwrittenKept DEF Sound, ProducerStep
<1>12. ASSUME NEW b \in Blocks PROVE Listing(b)' = Listing(b)
  BY <1>2, <1>3 DEF Listing
<1> QED BY <1>1, <1>4, <1>7, <1>8, <1>9, <1>10, <1>11, <1>12 DEF Sound

(* The new block joins the index as the newest one. *)
LEMMA InstallKeeps ==
  ASSUME TypeOK, Sound, Install
  PROVE  /\ Sound' /\ LivesKept /\ PathsKept /\ SameIndices /\ Newest' = Newest
         /\ ~Live(Newest) /\ entries' = [entries EXCEPT ![Slot(Newest)].value = newBlock]
         /\ \A k \in {Newest} : BlockAt(k)' = newBlock
         /\ \A k \in Int : Live(k)' => Live(k) \/ k = Newest
         /\ newBlock # NoBlock => \A k \in {Newest} : Live(k)'
<1>1. /\ Indexed /\ Progress /\ Keyed /\ Newest' = Newest
      /\ ppc = "install" /\ ppc' = "write" /\ tail' = tail
      /\ indices' = indices /\ entries' = [entries EXCEPT ![TailEntry].value = newBlock]
      /\ BlockAt(Newest) \notin Blocks /\ KeyAt(Newest) = Key(Newest)
  BY NewestMoves DEF Sound, Install, PGoto, dispenser, Progress
<1> DEFINE L == Newest
           e == TailEntry
<1>2. /\ L \in Int /\ Oldest \in Int /\ Oldest <= L
      /\ \A K : K \in Window <=> K \in Int /\ Oldest <= K /\ K <= L
      /\ \A J, K \in Window : Slot(J) = Slot(K) => J = K
      /\ L \in Window
  BY <1>1, WindowFacts
<1>3. /\ e = Slot(L) /\ e \in DOMAIN entries /\ newBlock \in Blocks \cup {NoBlock}
      /\ \A K \in Int : Slot(K) \in DOMAIN entries
  BY <1>1, <1>2, SlotFacts DEF TypeOK
<1>4. /\ DOMAIN entries' = DOMAIN entries /\ Len(entries') = Len(entries)
      /\ \A f \in DOMAIN entries : /\ entries'[f].key = entries[f].key
                                   /\ f # e => entries'[f].value = entries[f].value
      /\ entries'[e].value = newBlock
  BY <1>1, <1>3, ValueStored
<1>5. SameSlots /\ SameIndices
  BY <1>1, <1>4, SameWhenUnchanged
<1>6. \A K \in Int : /\ Slot(K)' = Slot(K) /\ KeyAt(K)' = KeyAt(K)
                     /\ Slot(K) # Slot(L) => BlockAt(K)' = BlockAt(K)
                     /\ Slot(K) = Slot(L) => BlockAt(K)' = newBlock
  BY <1>3, <1>4, <1>5 DEF SameSlots, KeyAt, BlockAt
<1>7. Oldest' = Oldest /\ Window' = Window
  BY <1>1, <1>5 DEF SameSlots, Oldest, Window
<1>8. /\ \A K \in Window : K # L => BlockAt(K)' = BlockAt(K)
      /\ \A K \in {L} : BlockAt(K)' = newBlock
  BY <1>2, <1>6
<1> HIDE DEF L, e
<1>9. Indexed'
  BY <1>1, <1>4, <1>5 DEF Indexed, SameSlots, Current
<1>10. Progress'
  BY <1>1 DEF Progress
<1>11. Keyed'
  <2>1. \A K \in Window : K \in Int /\ \A J \in K .. Newest : J \in Int
    BY <1>2
  <2>2. \A K \in Window : KeyAt(K)' = Key(K) => \A J \in K .. Newest : KeyAt(J)' = Key(J)
    BY <1>1, <1>6, <2>1 DEF Keyed
  <2>3. \A K \in Window : BlockAt(K)' \in Blocks => KeyAt(K)' = Key(K)
    BY <1>1, <1>2, <1>6, <1>8, <2>1 DEF Keyed, L
  <2> QED BY <1>1, <1>7, <2>2, <2>3 DEF Keyed, Key
<1>12. \A k \in Int : Live(k) => k # L /\ Live(k)' /\ Slot(k)' = Slot(k) /\ BlockAt(k)' = BlockAt(k)
  BY <1>1, <1>6, <1>7, <1>8 DEF Live, L
<1>13. \A k \in Int : Live(k)' => Live(k) \/ k = L
  BY <1>7, <1>8 DEF Live
<1>14. newBlock # NoBlock => \A k \in {L} : Live(k)'
  BY <1>2, <1>3, <1>7, <1>8 DEF Live
<1>15. ~Live(Newest)
  BY <1>1 DEF Live
<1>16. PathsKept
  BY <1>6 DEF PathsKept
<1>17. Unwritten'
  BY <1>1, UnwrittenKept DEF Sound, ProducerStep
<1> QED BY <1>1, <1>3, <1>5, <1>8, <1>9, <1>10, <1>11, <1>12, <1>13, <1>14, <1>15, <1>16, <1>17
        DEF Sound, LivesKept, L, e

(* The indices that were there are there, and the last but one is complete. *)
LEMMA GrowKeeps ==
  ASSUME TypeOK, Sound, Grow
  PROVE  /\ Sound' /\ Kept /\ Newest' = Newest
         /\ Len(indices') = Len(indices) + 1
         /\ \A h \in DOMAIN indices : indices'[h] = indices[h]
         /\ entries' \in Seq([key : Nat, value : Blocks \cup {NoBlock, Uninit}])
<1>1. /\ Indexed /\ Progress /\ Keyed
      /\ ppc = "grow" /\ ppc' = "key" /\ tail' = tail /\ tail % BlockSize = 0
      /\ KeyAt(Oldest) = Key(Oldest)
  BY DEF Sound, Grow, PGoto, dispenser, Progress
<1>2. /\ Indexed' /\ Newest' = Newest /\ Capacity' = 2 * Capacity
      /\ \A K \in Window : Slot(K)' = Slot(K) /\ entries'[Slot(K)] = entries[Slot(K)]
      /\ \A K \in Int : K < Oldest /\ Oldest' <= K => entries'[Slot(K)'] = InvalidEntry
      /\ \A K \in {Newest + 1} : entries'[Slot(K)'] = InvalidEntry
  BY <1>1, SlotsOfGrow
<1> DEFINE L == Newest
<1>3. /\ L \in Int /\ Oldest \in Int /\ Oldest <= L /\ Oldest = L - Capacity + 1
      /\ Capacity \in Nat \ {0}
      /\ \A K : K \in Window <=> K \in Int /\ Oldest <= K /\ K <= L
      /\ Slot(L + 1) = Slot(Oldest) /\ Num(tail) = L + 1
  BY <1>1, WindowFacts, NewestMoves
<1>4. /\ Oldest' \in Int /\ Oldest' <= Oldest
      /\ \A K : K \in Window' <=> K \in Int /\ Oldest' <= K /\ K <= L
  <2>1. Oldest' = L - 2 * Capacity + 1
    BY <1>2 DEF Oldest
  <2>2. Window' = Oldest' .. L
    BY <1>2 DEF Window
  <2> QED BY <1>3, <2>1, <2>2
<1>5. \A K \in Window : Slot(K)' = Slot(K) /\ KeyAt(K)' = KeyAt(K) /\ BlockAt(K)' = BlockAt(K)
  BY <1>2 DEF KeyAt, BlockAt
<1>6. /\ \A K \in Int : K < Oldest /\ Oldest' <= K => KeyAt(K)' = InvalidBase /\ BlockAt(K)' \notin Blocks
      /\ \A K \in {L + 1} : BlockAt(K)' \notin Blocks
  BY <1>1, <1>2, EntryFacts DEF KeyAt, BlockAt, InvalidEntry
<1> HIDE DEF L
<1>7. Progress'
  BY <1>1, <1>2, <1>6 DEF Progress, L
<1>8. Keyed'
  <2>1. ASSUME NEW K \in Window'
        PROVE  /\ BlockAt(K)' \in Blocks => KeyAt(K)' = Key(K)
               /\ KeyAt(K)' = Key(K) => \A J \in K .. L : KeyAt(J)' = Key(J)
    <3>1. K \in Int /\ Oldest' <= K /\ K <= L
      BY <1>4
    <3>2. CASE K < Oldest
      BY <1>6, <3>1, <3>2, Keys
    <3>3. CASE ~(K < Oldest)
      <4>1. K \in Window /\ \A J \in K .. L : J \in Window
        BY <1>3, <3>1, <3>3
      <4>2. /\ BlockAt(K) \in Blocks => KeyAt(K) = Key(K)
            /\ KeyAt(K) = Key(K) => \A J \in K .. L : KeyAt(J) = Key(J)
        BY <1>1, <4>1 DEF Keyed, L
      <4> QED BY <1>5, <4>1, <4>2
    <3> QED BY <3>2, <3>3
  <2> QED BY <1>2, <2>1 DEF Keyed, Key, L
<1>9. LivesKept /\ NoNewLives
  <2>1. \A k \in Int : Live(k) => Live(k)' /\ Slot(k)' = Slot(k) /\ BlockAt(k)' = BlockAt(k)
    BY <1>3, <1>4, <1>5 DEF Live
  <2>2. \A k \in Int : Live(k)' => Live(k)
    BY <1>3, <1>4, <1>5, <1>6 DEF Live
  <2> QED BY <2>1, <2>2 DEF LivesKept, NoNewLives
<1>10. PathsKept
  <2> SUFFICES ASSUME NEW k \in Int, NEW K \in Int, Live(k), k <= K, K <= Num(tail),
                      KeyAt(K) = Key(K)
               PROVE  Slot(K)' = Slot(K) /\ KeyAt(K)' = Key(K)
    BY DEF PathsKept
  <2>1. Oldest <= k /\ K <= L + 1
    BY <1>3 DEF Live
  <2>2. K # L + 1
    <3>1. KeyAt(L + 1) = Key(Oldest)
      BY <1>1, <1>3 DEF KeyAt
    <3>2. Key(L + 1) # Key(Oldest)
      <4>1. L + 1 \in Int /\ L + 1 # Oldest
        BY <1>3
      <4> QED BY <1>3, <4>1, Keys
    <3> QED BY <3>1, <3>2
  <2>3. K \in Window
    BY <1>3, <2>1, <2>2
  <2> QED BY <1>5, <2>3
<1>11. /\ Len(indices') = Len(indices) + 1
       /\ \A h \in DOMAIN indices : indices'[h] = indices[h]
  BY <1>1, GrowIndices
<1>12. entries' \in Seq([key : Nat, value : Blocks \cup {NoBlock, Uninit}])
  <2> DEFINE Entry == [key : Nat, value : Blocks \cup {NoBlock, Uninit}]
             E == [f \in 1 .. Current.capacity |-> InvalidEntry]
  <2>1. Current.capacity \in Nat
    BY <1>3 DEF Capacity
  <2>2. E \in Seq(Entry) /\ entries \in Seq(Entry)
    <3>1. InvalidEntry \in Entry
      BY DEF InvalidEntry, InvalidBase
    <3>2. entries \in Seq(Entry)
      BY DEF TypeOK
    <3> HIDE DEF Entry
    <3>3. E \in Seq(Entry)
      BY <2>1, <3>1
    <3> QED BY <3>2, <3>3
  <2>3. entries' = entries \o E
    BY DEF Grow
  <2> HIDE DEF E, Entry
  <2>4. entries' \in Seq(Entry)
    BY <2>2, <2>3
  <2> QED BY <2>4 DEF Entry
<1>13. Unwritten'
  BY <1>1, UnwrittenKept DEF Sound, ProducerStep
<1> QED BY <1>1, <1>2, <1>7, <1>8, <1>9, <1>10, <1>11, <1>12, <1>13 DEF Sound, Kept

(* A consumer takes the block it has emptied out of the index. *)
LEMMA ReleaseKeeps ==
  ASSUME TypeOK, Sound, NEW c \in Consumers, Release(c), NEW k \in Int, Live(k),
         at[c].entry = Slot(k)
  PROVE  /\ Sound' /\ PathsKept /\ SameIndices /\ Newest' = Newest /\ Window' = Window
         /\ \A j \in Int : Live(j)' <=> Live(j) /\ j # k
         /\ \A j \in Int : /\ Slot(j)' = Slot(j)
                           /\ Live(j) /\ j # k => BlockAt(j)' = BlockAt(j)
<1>1. /\ Indexed /\ Progress /\ Keyed /\ ppc' = ppc /\ tail' = tail
      /\ indices' = indices /\ entries' = [entries EXCEPT ![Slot(k)].value = NoBlock]
  BY DEF Sound, Release, dispenser, producer, EntryCleared
<1>2. /\ Newest \in Int /\ Newest' = Newest /\ Oldest \in Int
      /\ \A K : K \in Window <=> K \in Int /\ Oldest <= K /\ K <= Newest
      /\ \A J, K \in Window : Slot(J) = Slot(K) => J = K
      /\ Oldest <= Newest
  BY <1>1, WindowFacts DEF Newest, Num
<1>3. \A K \in Int : Slot(K) \in DOMAIN entries
  BY <1>1, SlotFacts
<1>4. /\ DOMAIN entries' = DOMAIN entries /\ Len(entries') = Len(entries)
      /\ \A f \in DOMAIN entries : /\ entries'[f].key = entries[f].key
                                   /\ f # Slot(k) => entries'[f].value = entries[f].value
      /\ entries'[Slot(k)].value = NoBlock
  <2>1. NoBlock \in Blocks \cup {NoBlock} /\ Slot(k) \in DOMAIN entries
    BY <1>3
  <2> QED BY <1>1, <2>1, ValueStored
<1>5. SameSlots /\ SameIndices
  BY <1>1, <1>2, <1>4, SameWhenUnchanged
<1>6. \A K \in Int : /\ Slot(K)' = Slot(K) /\ KeyAt(K)' = KeyAt(K)
                     /\ Slot(K) # Slot(k) => BlockAt(K)' = BlockAt(K)
                     /\ Slot(K) = Slot(k) => BlockAt(K)' \notin Blocks
  BY <1>1, <1>3, <1>4, <1>5, EntryFacts DEF SameSlots, KeyAt, BlockAt
<1>7. Oldest' = Oldest /\ Window' = Window
  BY <1>2, <1>5 DEF SameSlots, Oldest, Window
<1>8. \A K \in Int : BlockAt(K) \notin Blocks => BlockAt(K)' \notin Blocks
  BY <1>6
<1>9. Indexed'
  BY <1>1, <1>4, <1>5 DEF Indexed, SameSlots, Current
<1>10. Progress'
  <2>1. Newest + 1 \in Int
    BY <1>2
  <2> QED BY <1>1, <1>2, <1>6, <1>7, <1>8, <2>1 DEF Progress, Key
<1>11. Keyed'
  <2>1. \A K \in Window : K \in Int /\ \A J \in K .. Newest : J \in Int
    BY <1>2
  <2>2. \A K \in Window : KeyAt(K)' = Key(K) => \A J \in K .. Newest : KeyAt(J)' = Key(J)
    BY <1>1, <1>6, <2>1 DEF Keyed
  <2>3. \A K \in Window : BlockAt(K)' \in Blocks => KeyAt(K)' = Key(K)
    BY <1>1, <1>6, <1>8, <2>1 DEF Keyed
  <2> QED BY <1>2, <1>7, <2>2, <2>3 DEF Keyed, Key
<1>12. \A j \in Int : Live(j) /\ j # k => BlockAt(j)' = BlockAt(j)
  BY <1>2, <1>6 DEF Live
<1>13. \A j \in Int : Live(j)' <=> Live(j) /\ j # k
  BY <1>6, <1>7, <1>8, <1>12 DEF Live
<1>14. PathsKept
  BY <1>6 DEF PathsKept
<1>15. Unwritten'
  <2>1. /\ Unwritten /\ Num(tail)' = Num(tail) /\ Num(tail) \in Int /\ NoBlock # Uninit
        /\ \A K \in {Num(tail)} : Slot(K)' = Slot(K)
    BY <1>1, <1>6, LinkedEntry, EntryFacts DEF Sound, Num
  <2>2. ASSUME NEW e \in DOMAIN entries, entries'[e].value = Uninit
        PROVE  entries[e].value = Uninit /\ entries'[e].key = entries[e].key
    BY <1>4, <2>1, <2>2
  <2> QED BY <1>1, <1>4, <2>1, <2>2 DEF Unwritten
<1> QED BY <1>1, <1>2, <1>5, <1>6, <1>7, <1>9, <1>10, <1>11, <1>12, <1>13, <1>14, <1>15 DEF Sound

(* The consumers' other steps leave the index alone. *)
LEMMA ConsumerKeepsIndex ==
  ASSUME TypeOK, Sound, UNCHANGED <<index, ppc, tail>>
  PROVE  /\ Sound' /\ Kept /\ SameIndices /\ Newest' = Newest /\ Window' = Window
         /\ \A K \in Int : /\ Slot(K)' = Slot(K) /\ KeyAt(K)' = KeyAt(K)
                           /\ BlockAt(K)' = BlockAt(K) /\ (Live(K)' <=> Live(K))
<1>1. Newest' = Newest /\ Indexed /\ Progress /\ Keyed /\ ppc' = ppc /\ tail' = tail
  BY DEF Newest, Num, Sound
<1>2. /\ Indexed' /\ Keyed' /\ Kept /\ SameIndices /\ Oldest' = Oldest /\ Window' = Window
      /\ \A K \in Int : /\ Slot(K)' = Slot(K) /\ KeyAt(K)' = KeyAt(K)
                        /\ BlockAt(K)' = BlockAt(K) /\ (Live(K)' <=> Live(K))
  BY <1>1, IndexUnchanged
<1>3. Newest \in Int /\ Newest + 1 \in Int /\ Oldest \in Int
  BY <1>1, HeaderFacts
<1>4. Progress'
  BY <1>1, <1>2, <1>3 DEF Progress, Key
<1>5. Unwritten'
  <2>1. /\ Unwritten /\ Num(tail)' = Num(tail) /\ Num(tail) \in Int
        /\ entries' = entries /\ \A K \in {Num(tail)} : Slot(K)' = Slot(K)
    BY <1>1, <1>2, LinkedEntry DEF Sound, Num, index
  <2> QED BY <1>1, <2>1 DEF Unwritten
<1> QED BY <1>1, <1>2, <1>4, <1>5 DEF Sound

(***************************************************************************)
(* What a consumer has read leads to its block, whatever the producer and  *)
(* the other consumers do.                                                 *)
(***************************************************************************)
OldIndices ==
  \/ SameIndices
  \/ /\ Len(indices') = Len(indices) + 1
     /\ \A h \in DOMAIN indices : indices'[h] = indices[h]

LEMMA OldIndicesFacts ==
  ASSUME TypeOK, Indexed, OldIndices, NEW h \in DOMAIN indices
  PROVE  /\ indices'[h].index = indices[h].index /\ indices'[h].capacity = indices[h].capacity
         /\ Len(indices') >= Len(indices)
         /\ h # Len(indices) => indices'[h].tail = indices[h].tail
         /\ Len(indices') # Len(indices) => indices'[h].tail = indices[h].tail
<1>1. Len(indices) \in Nat
  BY HeaderFacts
<1>2. CASE SameIndices
  BY <1>1, <1>2 DEF SameIndices
<1>3. CASE ~SameIndices
  BY <1>1, <1>3 DEF OldIndices
<1> QED BY <1>2, <1>3

(* The tail of the current index leads to every block of the index. *)
LEMMA CurrentLeads ==
  ASSUME TypeOK, Sound, NEW k \in Int, Live(k)
  PROVE  Leads(Len(indices), indices[Len(indices)].tail, k)
<1> DEFINE L == Newest
           T == Current.tail
<1>1. /\ Indexed /\ Progress /\ Keyed
  BY DEF Sound
<1>2. /\ L \in Int /\ k <= L /\ L <= Num(tail) /\ Num(tail) \in Int /\ k \in Window
  BY <1>1, WindowFacts, NewestMoves, HeaderFacts DEF Live
<1>3. L \in k .. Num(tail) /\ L \in k .. L
  BY <1>2
<1>4. KeyAt(L) = Key(L)
  BY <1>1, <1>2, <1>3 DEF Keyed, Live
<1>5. Current.index[T] = Slot(L)
  BY <1>1, SlotFacts DEF TailEntry
<1>6. Current.index[(T + (k - L)) % Current.capacity] = Slot(k)
  BY DEF Slot, Capacity
<1> QED BY <1>3, <1>4, <1>5, <1>6 DEF Leads, Current

(* Leads(h, t, k)', for a position t that a consumer read before the step. *)
StillLeads(h, t, k) ==
  \E K \in k .. Num(tail)' :
    /\ indices'[h].index[t] = Slot(K)'
    /\ KeyAt(K)' = Key(K)
    /\ indices'[h].index[(t + (k - K)) % indices'[h].capacity] = Slot(k)'

LEMMA LeadsKept ==
  ASSUME TypeOK, Sound, NEW k \in Int, Live(k), PathsKept, Slot(k)' = Slot(k),
         Num(tail) <= Num(tail)', Num(tail)' \in Int,
         NEW h \in DOMAIN indices, OldIndices, NEW t, Leads(h, t, k)
  PROVE  StillLeads(h, t, k)
<1>1. PICK K \in k .. Num(tail) :
        /\ indices[h].index[t] = Slot(K)
        /\ KeyAt(K) = Key(K)
        /\ indices[h].index[(t + (k - K)) % indices[h].capacity] = Slot(k)
  BY DEF Leads
<1>2. Indexed /\ Num(tail) \in Int
  BY HeaderFacts DEF Sound
<1>3. K \in Int /\ k <= K /\ K <= Num(tail) /\ K \in k .. Num(tail)'
  BY <1>2
<1>4. Slot(K)' = Slot(K) /\ KeyAt(K)' = Key(K)
  BY <1>1, <1>3 DEF PathsKept
<1>5. indices'[h].index = indices[h].index /\ indices'[h].capacity = indices[h].capacity
  BY <1>2, OldIndicesFacts
<1> QED BY <1>1, <1>3, <1>4, <1>5 DEF StillLeads

LEMMA FoundKept ==
  ASSUME TypeOK, Sound, NEW d \in Consumers, NEW k \in Int, Found(d, k),
         cpc'[d] = cpc[d], at'[d] = at[d], block'[d] = block[d],
         Live(k)', Slot(k)' = Slot(k), BlockAt(k)' = BlockAt(k), PathsKept,
         Num(tail) <= Num(tail)', Num(tail)' \in Int, OldIndices, indices' \in Seq(Header)
  PROVE  Found(d, k)'
<1> DEFINE h == at[d].index
           t == at[d].tail
<1>1. /\ Indexed /\ Live(k) /\ DOMAIN indices = 1 .. Len(indices) /\ Len(indices) \in Nat
      /\ cpc[d] \in {"tail", "base"} => h \in DOMAIN indices
  BY HeaderFacts DEF Sound, Found
<1>2. Len(indices') \in Nat /\ DOMAIN indices' = 1 .. Len(indices')
  OBVIOUS
<1>3. cpc'[d] \in {"tail", "base"} => at'[d].index \in DOMAIN indices'
  <2> SUFFICES ASSUME cpc[d] \in {"tail", "base"} PROVE h \in DOMAIN indices'
    OBVIOUS
  <2>1. Len(indices') >= Len(indices)
    BY <1>1, OldIndicesFacts
  <2> QED BY <1>1, <1>2, <2>1
<1>4. ASSUME cpc[d] = "tail"
      PROVE  \/ at'[d].index = Len(indices')
             \/ Leads(at[d].index, indices[at[d].index].tail, k)'
  <2> HIDE DEF h
  <2>1. h \in DOMAIN indices
    BY <1>1, <1>4
  <2>2. CASE h = Len(indices) /\ Len(indices') = Len(indices)
    BY <2>2, Zenon DEF h
  <2>3. CASE ~(h = Len(indices) /\ Len(indices') = Len(indices))
    <3>1. indices'[h].tail = indices[h].tail
      BY <1>1, <2>1, <2>3, OldIndicesFacts
    <3>2. Leads(h, indices[h].tail, k)
      BY <1>4, CurrentLeads DEF Found, h
    <3>3. StillLeads(h, indices[h].tail, k)
      BY <1>1, <2>1, <3>2, LeadsKept, SMTT(60)
    <3>4. at'[d].index = h /\ indices'[at'[d].index].tail = indices[h].tail
      BY <3>1 DEF h
    <3> QED BY ONLY <3>3, <3>4, Zenon DEF StillLeads, Leads, Key
  <2> QED BY <2>2, <2>3
<1>5. ASSUME cpc[d] = "base"
      PROVE  /\ at'[d].tail < indices'[at'[d].index].capacity
             /\ Leads(at[d].index, at[d].tail, k)'
  <2> HIDE DEF h, t
  <2>1. h \in DOMAIN indices /\ t < indices[h].capacity /\ Leads(h, t, k)
    BY <1>1, <1>5 DEF Found, h, t
  <2>2. indices'[h].capacity = indices[h].capacity
    BY <1>1, <2>1, OldIndicesFacts
  <2>3. StillLeads(h, t, k)
    BY <1>1, <2>1, LeadsKept
  <2>4. at'[d].index = h /\ at'[d].tail = t
    BY DEF h, t
  <2>5. Leads(at[d].index, at[d].tail, k)'
    BY ONLY <2>3, <2>4, Zenon DEF StillLeads, Leads, Key
  <2>6. at'[d].tail < indices'[at'[d].index].capacity
    BY <2>1, <2>2, <2>4
  <2> QED BY <2>5, <2>6
<1>6. /\ cpc[d] \in {"value", "move", "count", "release"} => at[d].entry = Slot(k)
      /\ cpc[d] \in {"move", "count", "release"} => block[d] = BlockAt(k)
  BY DEF Found
<1> QED BY <1>3, <1>4, <1>5, <1>6 DEF Found

LEMMA NumberOfTaking ==
  ASSUME TypeOK, NEW c \in Consumers
  PROVE  taking[c] \in Int /\ Num(taking[c]) \in Int
<1>1. taking[c] \in Int
  BY MaxElementsAssumption DEF TypeOK, NoIndex
<1> QED BY <1>1, Numbers

(* The producer moves, or a consumer moves and leaves the others alone. *)
LEMMA SearchersKept ==
  ASSUME TypeOK, Sound, Searching, NEW S \in SUBSET Consumers,
         \A d \in S : /\ cpc'[d] = cpc[d] /\ at'[d] = at[d] /\ block'[d] = block[d]
                      /\ taking'[d] = taking[d],
         \A d \in S : cpc[d] \in Inside =>
           \A k \in {Num(taking[d])} :
             Live(k) => Live(k)' /\ Slot(k)' = Slot(k) /\ BlockAt(k)' = BlockAt(k),
         PathsKept, Num(tail) <= Num(tail)', Num(tail)' \in Int, OldIndices,
         indices' \in Seq(Header)
  PROVE  \A d \in S : cpc'[d] \in Inside => \A k \in {Num(taking'[d])} : Found(d, k)'
<1> SUFFICES ASSUME NEW d \in S, cpc[d] \in Inside, NEW k \in {Num(taking[d])}
             PROVE  Found(d, k)'
  BY DEF Num
<1>1. d \in Consumers /\ k \in Int /\ Found(d, k)
  BY NumberOfTaking DEF Searching
<1>2. Live(k)
  BY <1>1 DEF Found
<1> QED BY <1>1, <1>2, FoundKept

(***************************************************************************)
(* Which elements are out, and which have been moved out of their slots.   *)
(***************************************************************************)
OutSame == \A i \in Nat : Out(i)' <=> Out(i)
MovedSame == \A i \in Nat : Moved(i)' <=> Moved(i)

(* Every step of a consumer moves it alone. *)
LEMMA ConsumerMoves ==
  ASSUME TypeOK, NEW c \in Consumers, ConsumerStep(c)
  PROVE  /\ \A d \in Consumers \ {c} : /\ cpc'[d] = cpc[d] /\ at'[d] = at[d] /\ block'[d] = block[d]
                                       /\ taking'[d] = taking[d]
         /\ DOMAIN cpc' = Consumers /\ DOMAIN taking' = Consumers
         /\ UNCHANGED <<tail, tailBlock, ppc, newBlock, indices, pool, heap, freed>>
         /\ ~ClaimIndex(c) => head' = head
         /\ ~Release(c) => entries' = entries
         /\ ~MoveOut(c) => slots' = slots
         /\ ~SetEmpty(c) => emptied' = emptied
         /\ ~AddToFreeList(c) => free' = free
<1> USE DEF dispenser, memory, index, producer, consumers, CGoto
<1>1. /\ cpc \in [Consumers -> ConsumerStates] /\ taking \in [Consumers -> {NoIndex} \cup 0 .. MaxElements]
      /\ at \in [Consumers -> At] /\ block \in [Consumers -> Blocks \cup {NoBlock}]
  BY DEF TypeOK
<1>2. CASE ClaimIndex(c)
  BY <1>1, <1>2 DEF ClaimIndex, Give
<1>3. CASE LoadIndex(c) \/ LoadIndexTail(c) \/ FindEntry(c) \/ LoadBlock(c) \/ MoveOut(c)
  BY <1>1, <1>3 DEF LoadIndex, LoadIndexTail, FindEntry, LoadBlock, MoveOut
<1>4. CASE SetEmpty(c)
  BY <1>1, <1>4 DEF SetEmpty, Finish
<1>5. CASE Release(c)
  BY <1>1, <1>5 DEF Release
<1>6. CASE AddToFreeList(c)
  BY <1>1, <1>6 DEF AddToFreeList, Finish
<1> QED BY <1>2, <1>3, <1>4, <1>5, <1>6 DEF ConsumerStep

(* Where a step takes its consumer, and what happens to its index. *)
LEMMA ConsumerPlaces ==
  ASSUME TypeOK, NEW c \in Consumers, ConsumerStep(c)
  PROVE  /\ ClaimIndex(c) => cpc[c] = "idle" /\ cpc'[c] = "index" /\ taking[c] = NoIndex
                             /\ taking'[c] = head /\ head' = head + 1 /\ head < tail
                             /\ ppc # "destroyed"
         /\ LoadIndex(c) => cpc[c] = "index" /\ cpc'[c] = "tail" /\ taking' = taking
         /\ LoadIndexTail(c) => cpc[c] = "tail" /\ cpc'[c] = "base" /\ taking' = taking
         /\ FindEntry(c) => cpc[c] = "base" /\ cpc'[c] = "value" /\ taking' = taking
         /\ LoadBlock(c) => cpc[c] = "value" /\ cpc'[c] = "move" /\ taking' = taking
         /\ MoveOut(c) => cpc[c] = "move" /\ cpc'[c] = "count" /\ taking' = taking
         /\ SetEmpty(c) => /\ cpc[c] = "count"
                           /\ \/ cpc'[c] = "release" /\ taking' = taking /\ LastOne(block[c])
                                 /\ block' = block /\ at' = at
                              \/ cpc'[c] = "idle" /\ taking'[c] = NoIndex /\ ~LastOne(block[c])
         /\ Release(c) => cpc[c] = "release" /\ cpc'[c] = "add" /\ taking' = taking
                          /\ block' = block
         /\ AddToFreeList(c) => cpc[c] = "add" /\ cpc'[c] = "idle" /\ taking'[c] = NoIndex
<1> USE DEF dispenser, memory, index, producer, consumers, CGoto
<1>1. /\ cpc \in [Consumers -> ConsumerStates] /\ taking \in [Consumers -> {NoIndex} \cup 0 .. MaxElements]
  BY DEF TypeOK
<1>2. ClaimIndex(c) => cpc[c] = "idle" /\ cpc'[c] = "index" /\ taking[c] = NoIndex
                       /\ taking'[c] = head /\ head' = head + 1 /\ head < tail
                       /\ ppc # "destroyed"
  BY <1>1 DEF ClaimIndex, Give
<1>3. /\ LoadIndex(c) => cpc[c] = "index" /\ cpc'[c] = "tail" /\ taking' = taking
      /\ LoadIndexTail(c) => cpc[c] = "tail" /\ cpc'[c] = "base" /\ taking' = taking
      /\ FindEntry(c) => cpc[c] = "base" /\ cpc'[c] = "value" /\ taking' = taking
      /\ LoadBlock(c) => cpc[c] = "value" /\ cpc'[c] = "move" /\ taking' = taking
      /\ MoveOut(c) => cpc[c] = "move" /\ cpc'[c] = "count" /\ taking' = taking
  BY <1>1 DEF LoadIndex, LoadIndexTail, FindEntry, LoadBlock, MoveOut
<1>4. SetEmpty(c) => /\ cpc[c] = "count"
                     /\ \/ cpc'[c] = "release" /\ taking' = taking /\ LastOne(block[c])
                           /\ block' = block /\ at' = at
                        \/ cpc'[c] = "idle" /\ taking'[c] = NoIndex /\ ~LastOne(block[c])
  BY <1>1 DEF SetEmpty, Finish
<1>5. /\ Release(c) => cpc[c] = "release" /\ cpc'[c] = "add" /\ taking' = taking /\ block' = block
      /\ AddToFreeList(c) => cpc[c] = "add" /\ cpc'[c] = "idle" /\ taking'[c] = NoIndex
  BY <1>1 DEF Release, AddToFreeList, Finish
<1> QED BY <1>2, <1>3, <1>4, <1>5

LEMMA OutKept ==
  ASSUME TypeOK, Dispensed, NEW c \in Consumers, ConsumerStep(c)
  PROVE  /\ ~SetEmpty(c) => OutSame
         /\ ~MoveOut(c) => MovedSame
<1>1. /\ head \in Nat /\ NoIndex \notin Nat
      /\ cpc[c] = "idle" => taking[c] = NoIndex
  BY MaxElementsAssumption DEF TypeOK, NoIndex, Dispensed
<1>2. /\ \A d \in Consumers \ {c} : cpc'[d] = cpc[d] /\ taking'[d] = taking[d]
      /\ ~ClaimIndex(c) => head' = head
  BY ConsumerMoves
<1> SUFFICES ASSUME NEW i \in Nat
             PROVE  /\ ~SetEmpty(c) => (Out(i)' <=> Out(i))
                    /\ ~MoveOut(c) => (Moved(i)' <=> Moved(i))
  BY DEF OutSame, MovedSame
<1> DEFINE G(p) == taking[c] = i => cpc[c] \in p
           H(p) == taking'[c] = i => cpc'[c] \in p
           R(p) == \A d \in Consumers \ {c} : taking[d] = i => cpc[d] \in p
<1>3. /\ Out(i) <=> i < head /\ G({"release", "add"}) /\ R({"release", "add"})
      /\ Out(i)' <=> i < head' /\ H({"release", "add"}) /\ R({"release", "add"})
      /\ Moved(i) <=> i < head /\ G({"count", "release", "add"}) /\ R({"count", "release", "add"})
      /\ Moved(i)' <=> i < head' /\ H({"count", "release", "add"}) /\ R({"count", "release", "add"})
  BY <1>2 DEF Out, Moved
<1> HIDE DEF R
<1>4. CASE ClaimIndex(c)
  BY <1>1, <1>3, <1>4, ConsumerPlaces
<1>5. CASE LoadIndex(c) \/ LoadIndexTail(c) \/ FindEntry(c) \/ LoadBlock(c)
  <2>1. head' = head /\ taking' = taking
        /\ cpc[c] \notin {"count", "release", "add"} /\ cpc'[c] \notin {"count", "release", "add"}
    BY <1>2, <1>5, ConsumerPlaces
  <2> QED BY <1>3, <2>1
<1>6. CASE MoveOut(c)
  <2>1. head' = head /\ taking' = taking /\ cpc[c] = "move" /\ cpc'[c] = "count"
    BY <1>2, <1>6, ConsumerPlaces
  <2> QED BY <1>3, <1>6, <2>1
<1>7. CASE SetEmpty(c)
  <2>1. /\ head' = head /\ cpc[c] = "count"
        /\ \/ cpc'[c] = "release" /\ taking' = taking
           \/ taking'[c] = NoIndex
    BY <1>2, <1>7, ConsumerPlaces
  <2> QED BY <1>1, <1>3, <1>7, <2>1
<1>8. CASE Release(c)
  <2>1. head' = head /\ taking' = taking /\ cpc[c] = "release" /\ cpc'[c] = "add"
    BY <1>2, <1>8, ConsumerPlaces
  <2> QED BY <1>3, <2>1
<1>9. CASE AddToFreeList(c)
  <2>1. head' = head /\ taking'[c] = NoIndex /\ cpc[c] = "add"
    BY <1>2, <1>9, ConsumerPlaces
  <2> QED BY <1>1, <1>3, <2>1
<1> QED BY <1>4, <1>5, <1>6, <1>7, <1>8, <1>9 DEF ConsumerStep

(* The offsets of the elements of a block that are out. *)
LEMMA OutOfFacts ==
  ASSUME NEW k \in Int
  PROVE  /\ IsFiniteSet(Offsets) /\ Cardinality(Offsets) = BlockSize
         /\ OutOf(k) \subseteq Offsets /\ IsFiniteSet(OutOf(k))
         /\ Cardinality(OutOf(k)) \in 0 .. BlockSize
         /\ Cardinality(OutOf(k)) = BlockSize <=> OutOf(k) = Offsets
         /\ k >= 0 => \A o \in Offsets : Key(k) + o \in Nat
         /\ OutSame /\ k >= 0 => OutOf(k)' = OutOf(k)
<1>1. BlockSize \in Nat
  BY SizesAssumption
<1>2. IsFiniteSet(Offsets) /\ Cardinality(Offsets) = BlockSize
  <2>1. 0 \in Int /\ BlockSize - 1 \in Int
    BY <1>1
  <2>2. IsFiniteSet(0 .. BlockSize - 1)
    BY <2>1, FS_Interval
  <2>3. Cardinality(0 .. BlockSize - 1) = BlockSize
    BY <1>1, <2>1, FS_Interval, SizesAssumption
  <2> QED BY <2>2, <2>3 DEF Offsets
<1>3. OutOf(k) \subseteq Offsets
  BY DEF OutOf
<1>4. /\ IsFiniteSet(OutOf(k)) /\ Cardinality(OutOf(k)) \in Nat
      /\ Cardinality(OutOf(k)) <= BlockSize
      /\ Cardinality(OutOf(k)) = BlockSize => OutOf(k) = Offsets
  BY <1>2, <1>3, FS_Subset, FS_CardinalityType
<1>5. k >= 0 => \A o \in Offsets : Key(k) + o \in Nat
  <2>1. Key(k) \in Int /\ (k >= 0 => Key(k) >= 0)
    BY Keys
  <2> QED BY <1>1, <2>1 DEF Offsets
<1>6. OutSame /\ k >= 0 => OutOf(k)' = OutOf(k)
  BY <1>5 DEF OutSame, OutOf, Key
<1> QED BY <1>1, <1>2, <1>3, <1>4, <1>5, <1>6

(* The element a consumer holds is not out, nor one not given yet. *)
LEMMA OwnNotOut ==
  ASSUME TypeOK, Dispensed, NEW c \in Consumers, cpc[c] \in Inside \ {"release"}
  PROVE  LET k == Num(taking[c])
             o == taking[c] % BlockSize
         IN  /\ taking[c] \in Nat /\ taking[c] < head /\ k \in Int /\ o \in Offsets
             /\ taking[c] = Key(k) + o
             /\ o \notin OutOf(k)
<1> DEFINE i == taking[c]
           k == Num(i)
           o == i % BlockSize
<1>1. i \in Nat /\ i < head
  <2>1. i \in {NoIndex} \cup 0 .. MaxElements /\ MaxElements \in Nat
    BY MaxElementsAssumption DEF TypeOK
  <2>2. i # NoIndex /\ i < head
    BY DEF Dispensed, Inside
  <2> QED BY <2>1, <2>2
<1>2. k \in Int /\ o \in Offsets /\ i = Key(k) + o
  BY <1>1, Numbers
<1>3. ~Out(i)
  BY DEF Out, Inside
<1> HIDE DEF i, k, o
<1>4. o \notin OutOf(k)
  BY <1>2, <1>3 DEF OutOf
<1> QED BY <1>1, <1>2, <1>4 DEF i, k, o

(***************************************************************************)
(* The steps of the producer, and of a consumer, on the index.             *)
(***************************************************************************)
LEMMA NumbersGrow ==
  ASSUME TypeOK, tail' = tail \/ tail' = tail + 1
  PROVE  /\ tail \in Nat /\ tail' \in Nat
         /\ Num(tail) <= Num(tail)' /\ Num(tail)' \in Int /\ Num(tail)' = Num(tail')
<1>1. tail \in Nat /\ tail' \in Nat
  BY MaxElementsAssumption DEF TypeOK
<1>2. Num(tail) \in Nat /\ Num(tail + 1) \in Nat /\ Num(tail) <= Num(tail + 1)
  <2> DEFINE n == tail + 1
  <2>1. n \in Nat /\ n - 1 = tail
    BY <1>1
  <2> HIDE DEF n
  <2>2. Num(n) \in Nat /\ Num(n - 1) <= Num(n)
    BY <2>1, NextNumber
  <2>3. Num(tail) \in Nat
    BY <1>1, NextNumber
  <2> QED BY <2>1, <2>2, <2>3 DEF n
<1>3. Num(tail)' = Num(tail')
  BY DEF Num
<1> QED BY <1>1, <1>2, <1>3

LEMMA ProducerMoves ==
  ASSUME TypeOK, ProducerStep
  PROVE  /\ UNCHANGED <<cpc, at, block, head, taking, freed>>
         /\ tail' = tail \/ tail' = tail + 1
         /\ ppc # "destroyed" /\ ppc' # "destroyed"
<1> USE DEF dispenser, memory, index, producer, consumers, PGoto
<1>1. CASE InsideBlock \/ StartBlock \/ GrowFails \/ RequisitionFails \/ Write
           \/ StartWithoutIndex \/ \E b \in Blocks : Requisition(b)
  BY <1>1 DEF InsideBlock, StartBlock, StartWithoutIndex, GrowFails, RequisitionFails, Write,
              Requisition
<1>2. CASE Grow \/ StoreKey \/ StoreTail \/ Rewind \/ ClearEntry \/ Install
  BY <1>2 DEF Grow, StoreKey, StoreTail, Rewind, ClearEntry, Install
<1>3. CASE PublishElement
  BY <1>3 DEF PublishElement, Publish
<1> QED BY <1>1, <1>2, <1>3 DEF ProducerStep

LEMMA ProducerIndex ==
  ASSUME TypeOK, Sound, ProducerStep
  PROVE  /\ Sound' /\ LivesKept /\ PathsKept /\ OldIndices
         /\ ~Install => NoNewLives
         /\ Num(tail) <= Num(tail)' /\ Num(tail)' \in Int
         /\ indices' \in Seq(Header)
<1>1. /\ Sound' /\ LivesKept /\ PathsKept /\ OldIndices /\ (~Install => NoNewLives)
  <2>1. CASE InsideBlock \/ StartBlock \/ GrowFails \/ RequisitionFails \/ Write \/ PublishElement
             \/ \E b \in Blocks : Requisition(b)
    BY <2>1, QuietProgress DEF Kept, OldIndices
  <2>2. CASE Grow
    BY <2>2, GrowKeeps DEF Kept, OldIndices
  <2>3. CASE StoreKey
    BY <2>3, StoreKeyKeeps DEF Kept, OldIndices
  <2>4. CASE StoreTail
    BY <2>4, StoreTailKeeps DEF Kept, OldIndices
  <2>5. CASE Rewind
    BY <2>5, RewindKeeps DEF Kept, OldIndices
  <2>6. CASE ClearEntry
    BY <2>6, ClearEntryKeeps DEF Kept, OldIndices
  <2>7. CASE Install
    BY <2>7, InstallKeeps DEF OldIndices
  <2> QED BY <2>1, <2>2, <2>3, <2>4, <2>5, <2>6, <2>7, NotWithoutIndex DEF ProducerStep, Sound
<1>2. indices' \in Seq(Header)
  BY <1>1 DEF Sound, Indexed
<1> QED BY <1>1, <1>2, ProducerMoves, NumbersGrow

LEMMA ProducerSearching ==
  ASSUME TypeOK, Sound, Searching, ProducerStep
  PROVE  Searching'
<1>1. /\ LivesKept /\ PathsKept /\ OldIndices
      /\ Num(tail) <= Num(tail)' /\ Num(tail)' \in Int /\ indices' \in Seq(Header)
      /\ cpc' = cpc /\ at' = at /\ block' = block /\ taking' = taking
  BY ProducerIndex, ProducerMoves
<1>2. \A d \in Consumers : cpc[d] \in Inside =>
        \A k \in {Num(taking[d])} :
          Live(k) => Live(k)' /\ Slot(k)' = Slot(k) /\ BlockAt(k)' = BlockAt(k)
  BY <1>1, NumberOfTaking DEF LivesKept
<1>3. \A d \in Consumers :
        cpc'[d] \in Inside => \A k \in {Num(taking'[d])} : Found(d, k)'
  BY <1>1, <1>2, SearchersKept
<1> QED BY <1>3 DEF Searching, Num

(* The consumer that gives a block back is alone in it. *)
LEMMA ReleaserAlone ==
  ASSUME TypeOK, Dispensed, Counted, NEW c \in Consumers, cpc[c] = "release",
         NEW d \in Consumers \ {c}, cpc[d] \in Inside
  PROVE  Num(taking[d]) # Num(taking[c])
<1>1. OutOf(Num(taking[c])) = Offsets
  BY DEF Counted
<1>2. CASE cpc[d] = "release"
  BY <1>2 DEF Counted
<1>3. CASE cpc[d] # "release"
  BY <1>1, <1>3, OwnNotOut
<1> QED BY <1>2, <1>3

(* The consumers' steps on the index, seen by the other consumers. *)
LEMMA OthersSearching ==
  ASSUME TypeOK, Sound, Searching, Dispensed, Counted, NEW c \in Consumers, ConsumerStep(c)
  PROVE  /\ Sound' /\ PathsKept /\ SameIndices
         /\ \A d \in Consumers \ {c} :
              cpc'[d] \in Inside => \A k \in {Num(taking'[d])} : Found(d, k)'
<1>1. /\ \A d \in Consumers \ {c} :
           /\ cpc'[d] = cpc[d] /\ at'[d] = at[d] /\ block'[d] = block[d]
           /\ taking'[d] = taking[d]
      /\ tail' = tail /\ ppc' = ppc /\ indices' = indices
      /\ ~Release(c) => entries' = entries
  BY ConsumerMoves
<1>2. /\ Sound' /\ PathsKept /\ SameIndices
      /\ \A d \in Consumers \ {c} : cpc[d] \in Inside =>
           \A k \in {Num(taking[d])} :
             Live(k) => Live(k)' /\ Slot(k)' = Slot(k) /\ BlockAt(k)' = BlockAt(k)
  <2>1. CASE ~Release(c)
    <3>1. Sound' /\ Kept /\ SameIndices
      BY <1>1, <2>1, ConsumerKeepsIndex DEF index
    <3> QED BY <3>1, NumberOfTaking DEF Kept, LivesKept
  <2>2. CASE Release(c)
    <3> DEFINE K == Num(taking[c])
    <3>1. cpc[c] = "release" /\ K \in Int
      BY <2>2, ConsumerPlaces, NumberOfTaking
    <3>2. Live(K) /\ at[c].entry = Slot(K)
      BY <3>1 DEF Searching, Found, Inside
    <3>3. \A d \in Consumers \ {c} : cpc[d] \in Inside => Num(taking[d]) # K
      BY <3>1, ReleaserAlone
    <3> HIDE DEF K
    <3>4. /\ Sound' /\ PathsKept /\ SameIndices
          /\ \A j \in Int : Live(j)' <=> Live(j) /\ j # K
          /\ \A j \in Int : /\ Slot(j)' = Slot(j)
                            /\ Live(j) /\ j # K => BlockAt(j)' = BlockAt(j)
      BY <2>2, <3>1, <3>2, ReleaseKeeps
    <3> QED BY <3>3, <3>4, NumberOfTaking
  <2> QED BY <2>1, <2>2
<1>3. /\ OldIndices /\ indices' \in Seq(Header)
      /\ Num(tail) <= Num(tail)' /\ Num(tail)' \in Int
  BY <1>1, <1>2, NumbersGrow DEF OldIndices, Sound, Indexed
<1>4. \A d \in Consumers \ {c} :
        cpc'[d] \in Inside => \A k \in {Num(taking'[d])} : Found(d, k)'
  <2> DEFINE S == Consumers \ {c}
  <2>1. S \in SUBSET Consumers
    OBVIOUS
  <2> HIDE DEF S
  <2>2. \A d \in S :
          cpc'[d] \in Inside => \A k \in {Num(taking'[d])} : Found(d, k)'
    <3>1. /\ \A d \in S : /\ cpc'[d] = cpc[d] /\ at'[d] = at[d] /\ block'[d] = block[d]
                          /\ taking'[d] = taking[d]
          /\ \A d \in S : cpc[d] \in Inside =>
               \A k \in {Num(taking[d])} :
                 Live(k) => Live(k)' /\ Slot(k)' = Slot(k) /\ BlockAt(k)' = BlockAt(k)
      BY <1>1, <1>2 DEF S
    <3> QED BY <1>2, <1>3, <2>1, <3>1, SearchersKept
  <2> QED BY <2>2 DEF S
<1> QED BY <1>2, <1>4

(* A consumer's own way to its block. *)
LEMMA OwnSearching ==
  ASSUME TypeOK, Sound, Searching, Dispensed, Counted, NEW c \in Consumers, ConsumerStep(c),
         cpc'[c] \in Inside, NEW k \in {Num(taking'[c])}
  PROVE  Found(c, k)'
<1> USE DEF dispenser, memory, index, producer, consumers, CGoto
<1> DEFINE h == at[c].index
<1>1. at \in [Consumers -> At] /\ block \in [Consumers -> Blocks \cup {NoBlock}]
  BY DEF TypeOK
<1>2. /\ ~Release(c) /\ ~AddToFreeList(c) /\ ppc' = ppc /\ tail' = tail
      /\ indices' = indices /\ entries' = entries
  BY ConsumerMoves, ConsumerPlaces DEF Inside
<1>3. /\ Kept /\ SameIndices
      /\ \A K \in Int : /\ Slot(K)' = Slot(K) /\ BlockAt(K)' = BlockAt(K)
                        /\ (Live(K)' <=> Live(K))
  BY <1>2, ConsumerKeepsIndex
<1>4. Indexed /\ Len(indices) \in DOMAIN indices
  BY HeaderFacts DEF Sound
<1>5. CASE ClaimIndex(c)
  <2>1. taking'[c] = head /\ head \in 0 .. tail - 1 /\ cpc'[c] = "index" /\ Num(head) \in Int
    <3>1. head \in Nat /\ tail \in Nat
      BY MaxElementsAssumption DEF TypeOK
    <3> QED BY <1>5, <3>1, ConsumerPlaces, Numbers
  <2>2. ~Out(head)
    BY <2>1 DEF Out
  <2>3. Live(k) /\ k \in Int
    BY <2>1, <2>2 DEF Counted
  <2> QED BY <1>3, <2>1, <2>3 DEF Found
<1>6. CASE ~ClaimIndex(c)
  <2>1. taking'[c] = taking[c] /\ cpc[c] \in Inside /\ cpc'[c] # "idle"
    BY <1>2, <1>6, ConsumerPlaces DEF ConsumerStep, Inside
  <2>2. k \in Int /\ Found(c, k) /\ Live(k) /\ Live(k)' /\ Slot(k)' = Slot(k)
        /\ BlockAt(k)' = BlockAt(k) /\ k = Num(taking[c])
    <3>1. k = Num(taking[c]) /\ k \in Int
      BY <2>1, NumberOfTaking
    <3>2. Found(c, k)
      BY <2>1, <3>1 DEF Searching
    <3> QED BY <1>3, <3>1, <3>2 DEF Found
  <2>3. CASE LoadIndex(c)
    <3>1. cpc'[c] = "tail" /\ at'[c].index = Len(indices)
      BY <1>1, <2>3, ConsumerPlaces DEF LoadIndex, At
    <3> QED BY <1>2, <1>4, <2>2, <3>1 DEF Found
  <2>4. CASE LoadIndexTail(c)
    <3>1. /\ cpc[c] = "tail" /\ cpc'[c] = "base"
          /\ at'[c].index = h /\ at'[c].tail = indices[h].tail
      BY <1>1, <2>4, ConsumerPlaces DEF LoadIndexTail, At
    <3>2. /\ h \in DOMAIN indices
          /\ h = Len(indices) \/ Leads(h, indices[h].tail, k)
      BY <2>2, <3>1 DEF Found
    <3> HIDE DEF h
    <3>3. Leads(h, indices[h].tail, k)
      BY <2>2, <3>2, CurrentLeads
    <3>4. indices[h].tail < indices[h].capacity
      <4>1. indices[h].tail \in 0 .. indices[h].capacity - 1 /\ indices[h].capacity \in Nat
        BY <1>4, <3>2, HeaderFacts
      <4> QED BY <4>1
    <3>5. Leads(at[c].index, at[c].tail, k)'
      <4>1. Num(tail) <= Num(tail)' /\ Num(tail)' \in Int
        BY <1>2, NumbersGrow
      <4>2. StillLeads(h, indices[h].tail, k)
        BY <1>3, <2>2, <3>2, <3>3, <4>1, LeadsKept DEF Kept, OldIndices
      <4> QED BY <3>1, <4>2 DEF StillLeads, Leads, Key
    <3>6. at'[c].tail < indices'[at'[c].index].capacity
      BY <1>2, <3>1, <3>4
    <3> QED BY <1>2, <2>2, <3>1, <3>2, <3>5, <3>6 DEF Found
  <2>5. CASE FindEntry(c)
    <3> DEFINE t == at[c].tail
               i == taking[c]
    <3>1. /\ cpc[c] = "base" /\ cpc'[c] = "value"
          /\ at'[c].entry = indices[h].index[Position(c, i)]
      BY <1>1, <2>5, ConsumerPlaces DEF FindEntry, At
    <3>2. Leads(h, t, k) /\ h \in DOMAIN indices
      BY <2>2, <3>1 DEF Found
    <3>3. PICK K \in k .. Num(tail) :
            /\ indices[h].index[t] = Slot(K)
            /\ KeyAt(K) = Key(K)
            /\ indices[h].index[(t + (k - K)) % indices[h].capacity] = Slot(k)
      BY ONLY <3>2, Zenon DEF Leads
    <3>4. TailBase(c) = Key(K)
      BY <3>3 DEF TailBase, TailBaseOf, KeyAt
    <3>5. Base(i) = Key(k) /\ K \in Int
      <4>1. i \in Int /\ k = Num(i)
        BY <2>2, NumberOfTaking
      <4>2. Num(tail) \in Int
        BY <1>4, HeaderFacts
      <4> QED BY <2>2, <3>3, <4>1, <4>2, Numbers
    <3>6. (Key(k) - Key(K)) \div BlockSize = k - K
      BY <2>2, <3>5, Keys
    <3>7. Position(c, i) = (t + (k - K)) % indices[h].capacity
      BY <3>4, <3>5, <3>6 DEF Position
    <3>8. at'[c].entry = Slot(k)
      BY <3>1, <3>3, <3>7, Zenon
    <3> QED BY <2>2, <3>1, <3>8 DEF Found
  <2>6. CASE LoadBlock(c)
    <3>1. cpc[c] = "value" /\ cpc'[c] = "move" /\ at'[c] = at[c]
          /\ block'[c] = entries[at[c].entry].value
      BY <1>1, <2>6, ConsumerPlaces DEF LoadBlock
    <3>2. at[c].entry = Slot(k)
      BY <2>2, <3>1 DEF Found
    <3> QED BY <2>2, <3>1, <3>2 DEF Found, BlockAt
  <2>7. CASE MoveOut(c)
    <3>1. cpc[c] = "move" /\ cpc'[c] = "count" /\ at'[c] = at[c] /\ block'[c] = block[c]
      BY <2>7, ConsumerPlaces DEF MoveOut
    <3> QED BY <2>2, <3>1 DEF Found
  <2>8. CASE SetEmpty(c)
    <3>1. cpc[c] = "count" /\ cpc'[c] = "release" /\ at'[c] = at[c] /\ block'[c] = block[c]
      BY <2>1, <2>8, ConsumerPlaces DEF Inside
    <3> QED BY <2>2, <3>1 DEF Found
  <2> QED BY <1>2, <1>6, <2>3, <2>4, <2>5, <2>6, <2>7, <2>8 DEF ConsumerStep
<1> QED BY <1>5, <1>6

LEMMA ConsumerSearching ==
  ASSUME TypeOK, Sound, Searching, Dispensed, Counted, NEW c \in Consumers, ConsumerStep(c)
  PROVE  Searching'
<1>1. \A d \in Consumers \ {c} :
        cpc'[d] \in Inside => \A k \in {Num(taking'[d])} : Found(d, k)'
  BY OthersSearching
<1>2. cpc'[c] \in Inside => \A k \in {Num(taking'[c])} : Found(c, k)'
  BY OwnSearching
<1>3. \A d \in Consumers :
        cpc'[d] \in Inside => \A k \in {Num(taking'[d])} : Found(d, k)'
  <2> SUFFICES ASSUME NEW d \in Consumers, cpc'[d] \in Inside, NEW k \in {Num(taking'[d])}
               PROVE  Found(d, k)'
    OBVIOUS
  <2>1. CASE d = c
    BY <1>2, <2>1 DEF Found
  <2>2. CASE d # c
    BY <1>1, <2>2
  <2> QED BY <2>1, <2>2
<1> QED BY <1>3 DEF Searching, Num

LEMMA ConsumerIndex ==
  ASSUME TypeOK, Sound, Searching, NEW c \in Consumers, ConsumerStep(c)
  PROVE  /\ Newest' = Newest /\ Window' = Window
         /\ \A j \in Int : /\ Slot(j)' = Slot(j)
                           /\ Live(j)' <=> Live(j) /\ ~(Release(c) /\ j = Num(taking[c]))
                           /\ Live(j)' => BlockAt(j)' = BlockAt(j)
         /\ Release(c) => /\ Live(Num(taking[c])) /\ at[c].entry = Slot(Num(taking[c]))
                          /\ block[c] = BlockAt(Num(taking[c])) /\ Num(taking[c]) \in Int
<1> DEFINE K == Num(taking[c])
<1>1. K \in Int
  BY NumberOfTaking
<1>2. CASE Release(c)
  <2>1. cpc[c] = "release"
    BY <1>2, ConsumerPlaces
  <2>2. Live(K) /\ at[c].entry = Slot(K) /\ block[c] = BlockAt(K)
    BY <2>1 DEF Searching, Found, Inside
  <2> HIDE DEF K
  <2>3. /\ Newest' = Newest /\ Window' = Window
        /\ \A j \in Int : Live(j)' <=> Live(j) /\ j # K
        /\ \A j \in Int : /\ Slot(j)' = Slot(j)
                          /\ Live(j) /\ j # K => BlockAt(j)' = BlockAt(j)
    BY <1>1, <1>2, <2>2, ReleaseKeeps
  <2>4. /\ \A j \in Int : Live(j)' <=> Live(j) /\ ~(Release(c) /\ j = K)
        /\ \A j \in Int : Live(j)' => BlockAt(j)' = BlockAt(j)
    BY <1>2, <2>3
  <2> QED BY <1>1, <2>2, <2>3, <2>4 DEF K
<1>3. CASE ~Release(c)
  <2>1. tail' = tail /\ ppc' = ppc /\ indices' = indices /\ entries' = entries
    BY <1>3, ConsumerMoves
  <2>2. /\ Newest' = Newest /\ Window' = Window
        /\ \A j \in Int : /\ Slot(j)' = Slot(j) /\ BlockAt(j)' = BlockAt(j)
                          /\ (Live(j)' <=> Live(j))
    BY <2>1, ConsumerKeepsIndex DEF index
  <2> QED BY <1>3, <2>2
<1> QED BY <1>2, <1>3

LEMMA DispensedKept ==
  ASSUME TypeOK, Dispensed, ProducerStep \/ \E c \in Consumers : ConsumerStep(c)
  PROVE  Dispensed'
<1>1. head \in Nat /\ tail \in Nat
  BY MaxElementsAssumption DEF TypeOK
<1>2. CASE ProducerStep
  BY <1>1, <1>2, ProducerMoves DEF Dispensed
<1>3. ASSUME NEW c \in Consumers, ConsumerStep(c) PROVE Dispensed'
  <2>1. /\ \A d \in Consumers \ {c} : cpc'[d] = cpc[d] /\ taking'[d] = taking[d]
        /\ tail' = tail /\ (~ClaimIndex(c) => head' = head)
    BY <1>3, ConsumerMoves
  <2>2. CASE ClaimIndex(c)
    <3>1. /\ taking'[c] = head /\ head' = head + 1 /\ head < tail /\ cpc'[c] # "idle"
          /\ head # NoIndex
      BY <1>1, <1>3, <2>2, ConsumerPlaces DEF NoIndex
    <3>2. head' <= tail'
      BY <1>1, <2>1, <3>1
    <3>3. \A d \in Consumers : taking[d] < head /\ taking[d] \in Int
      BY NumberOfTaking DEF Dispensed
    <3>4. \A d \in Consumers : taking'[d] < head'
      BY <1>1, <2>1, <3>1, <3>3
    <3>5. \A d \in Consumers \ {c} : taking'[d] # taking'[c]
      BY <1>1, <2>1, <3>1, <3>3
    <3>6. \A d \in Consumers : cpc'[d] = "idle" <=> taking'[d] = NoIndex
      BY <2>1, <3>1 DEF Dispensed
    <3>7. \A d, e \in Consumers :
            e # d /\ taking'[e] = taking'[d] => taking'[d] = NoIndex
      <4> SUFFICES ASSUME NEW d \in Consumers, NEW e \in Consumers, e # d,
                          taking'[e] = taking'[d]
                   PROVE  taking'[d] = NoIndex
        OBVIOUS
      <4>1. d # c /\ e # c
        BY <3>5
      <4> QED BY <2>1, <4>1 DEF Dispensed
    <3> QED BY <3>2, <3>4, <3>6, <3>7 DEF Dispensed
  <2>3. CASE ~ClaimIndex(c)
    <3>1. /\ head' = head
          /\ \/ taking'[c] = taking[c] /\ cpc[c] # "idle" /\ cpc'[c] # "idle"
             \/ taking'[c] = NoIndex /\ cpc'[c] = "idle"
      BY <1>3, <2>1, <2>3, ConsumerPlaces DEF ConsumerStep
    <3>2. NoIndex < head
      BY <1>1 DEF NoIndex
    <3>3. \A d \in Consumers : taking'[d] = taking[d] \/ taking'[d] = NoIndex
      BY <2>1, <3>1
    <3>4. /\ \A d \in Consumers : taking'[d] < head'
          /\ \A d \in Consumers : cpc'[d] = "idle" <=> taking'[d] = NoIndex
      BY <2>1, <3>1, <3>2 DEF Dispensed
    <3>5. \A d \in Consumers : \A e \in Consumers \ {d} :
            taking'[e] = taking'[d] => taking'[d] = NoIndex
      BY <3>3 DEF Dispensed
    <3> QED BY <2>1, <3>1, <3>4, <3>5 DEF Dispensed
  <2> QED BY <2>2, <2>3
<1> QED BY <1>2, <1>3

(* Two block numbers of the index have two blocks. *)
LEMMA BlocksDiffer ==
  ASSUME TypeOK, Indexed, Owned, NEW j \in Int, NEW k \in Int, Live(j), Live(k)
  PROVE  /\ BlockAt(j) \in Blocks /\ Slot(j) \in Listing(BlockAt(j))
         /\ BlockAt(j) = BlockAt(k) => j = k
         /\ BlockAt(j) # newBlock /\ Adding(BlockAt(j)) = {}
<1>1. /\ BlockAt(j) \in Blocks /\ Slot(j) \in DOMAIN entries /\ Slot(k) \in DOMAIN entries
  BY EntryFacts, SlotFacts DEF Live
<1>2. Slot(j) \in Listing(BlockAt(j)) /\ Slot(k) \in Listing(BlockAt(k))
  BY <1>1 DEF Listing, BlockAt
<1>3. BlockAt(j) = BlockAt(k) => Slot(j) = Slot(k)
  BY <1>1, <1>2 DEF Owned
<1>4. Slot(j) = Slot(k) => j = k
  BY WindowFacts DEF Live
<1> QED BY <1>1, <1>2, <1>3, <1>4 DEF Owned

LEMMA FillingKept ==
  ASSUME TypeOK, Sound, Searching, Filling,
         ProducerStep \/ \E c \in Consumers : ConsumerStep(c)
  PROVE  Filling'
<1> USE DEF dispenser, memory, index, producer, consumers, PGoto
<1>1. /\ tail \in Nat /\ Num(tail) \in Int /\ Num(tail - 1) \in Int /\ Filled \in Int
      /\ ppc \in ProducerStates
  <2>1. tail \in Nat /\ ppc \in ProducerStates
    BY MaxElementsAssumption DEF TypeOK
  <2> QED BY <2>1, NextNumber DEF Filled
<1>2. ASSUME Filled' = Filled, tailBlock' = tailBlock,
             \A k \in Int : Live(k)' => Live(k) /\ BlockAt(k)' = BlockAt(k)
      PROVE  Filling'
  BY <1>1, <1>2 DEF Filling
<1>3. CASE ProducerStep /\ ~Install
  <2>1. \A k \in Int : Live(k)' => Live(k) /\ BlockAt(k)' = BlockAt(k)
    BY <1>3, ProducerIndex DEF NoNewLives, LivesKept
  <2>2. Filled' = Filled /\ tailBlock' = tailBlock
    <3>1. CASE InsideBlock
      <4>1. tail % BlockSize # 0 /\ tail' = tail /\ ppc = "idle" /\ ppc' = "write"
            /\ tailBlock' = tailBlock
        BY <3>1 DEF InsideBlock
      <4>2. Num(tail - 1) = Num(tail)
        BY <1>1, <4>1, NextNumber
      <4> QED BY <4>1, <4>2 DEF Filled, Num
    <3>2. CASE Write
      BY <3>2 DEF Write, Filled, Num
    <3>3. CASE PublishElement
      <4>1. tail' = tail + 1 /\ tail + 1 - 1 = tail /\ ppc = "publish" /\ ppc' = "idle"
            /\ tailBlock' = tailBlock
        BY <1>1, <3>3 DEF PublishElement, Publish
      <4>2. Filled' = Num(tail' - 1)
        BY <4>1 DEF Filled, Num
      <4>3. Filled = Num(tail)
        BY <4>1 DEF Filled
      <4>4. tail' - 1 = tail
        BY <1>1, <4>1
      <4> QED BY <4>1, <4>2, <4>3, <4>4
    <3>4. CASE StartBlock \/ Grow \/ GrowFails \/ StoreKey \/ StoreTail
               \/ (\E b \in Blocks : Requisition(b))
               \/ RequisitionFails \/ Rewind \/ ClearEntry
      <4>1. tail' = tail /\ ppc \notin {"write", "publish"} /\ ppc' \notin {"write", "publish"}
            /\ tailBlock' = tailBlock
        BY <3>4 DEF StartBlock, Grow, GrowFails, StoreKey, StoreTail, Requisition,
           RequisitionFails, Rewind, ClearEntry
      <4> QED BY <4>1 DEF Filled, Num
    <3> QED BY <1>3, <3>1, <3>2, <3>3, <3>4, NotWithoutIndex DEF ProducerStep, Sound
  <2> QED BY <1>2, <2>1, <2>2
<1>4. CASE Install
  <2>1. tail' = tail /\ ppc = "install" /\ ppc' = "write" /\ tailBlock' = newBlock
    BY <1>4 DEF Install
  <2>2. Filled' = Num(tail) /\ Num(tail) = Newest
    BY <2>1, NewestMoves DEF Filled, Num, Sound
  <2>3. \A k \in {Newest} : BlockAt(k)' = newBlock
    BY <1>4, InstallKeeps
  <2> QED BY <2>1, <2>2, <2>3 DEF Filling
<1>5. ASSUME NEW c \in Consumers, ConsumerStep(c) PROVE Filling'
  <2>1. \A k \in Int : Live(k)' => Live(k) /\ BlockAt(k)' = BlockAt(k)
    BY <1>5, ConsumerIndex
  <2>2. tail' = tail /\ ppc' = ppc /\ tailBlock' = tailBlock
    BY <1>5, ConsumerMoves
  <2> QED BY <1>2, <2>1, <2>2 DEF Filled, Num
<1> QED BY <1>3, <1>4, <1>5

(***************************************************************************)
(* The counter of a block is the number of its elements that are out.      *)
(***************************************************************************)
Counts(k) ==
  /\ k >= 0
  /\ emptied[BlockAt(k)] = Cardinality(OutOf(k))
  /\ OutOf(k) = Offsets => \E c \in Consumers : cpc[c] = "release" /\ Num(taking[c]) = k

Releasing(c) ==
  cpc[c] = "release" =>
    /\ OutOf(Num(taking[c])) = Offsets
    /\ \A d \in Consumers \ {c} : cpc[d] = "release" => Num(taking[d]) # Num(taking[c])

LEMMA CountedParts ==
  /\ Counted => /\ \A i \in 0 .. tail - 1 : ~Out(i) => Live(Num(i))
                /\ tail % BlockSize # 0 \/ ppc \in {"write", "publish"} => Live(Num(tail))
                /\ \A k \in Int : Live(k) => Counts(k)
                /\ \A c \in Consumers : Releasing(c)
  /\ /\ \A i \in 0 .. tail - 1 : ~Out(i) => Live(Num(i))
     /\ tail % BlockSize # 0 \/ ppc \in {"write", "publish"} => Live(Num(tail))
     /\ \A k \in Int : Live(k) => Counts(k)
     /\ \A c \in Consumers : Releasing(c)
     /\ Window \subseteq Int
     => Counted
<1>1. \A k : Live(k) => k \in Window
  BY DEF Live
<1> QED BY <1>1 DEF Counted, Counts, Releasing

(* Where every element is out, an element of a lower or the same number is. *)
LEMMA AllOut ==
  ASSUME NEW i \in Int, OutOf(Num(i)) = Offsets
  PROVE  Out(i)
<1>1. i = Key(Num(i)) + (i % BlockSize) /\ i % BlockSize \in Offsets
  BY Numbers
<1>2. i % BlockSize \in OutOf(Num(i))
  BY <1>1
<1> QED BY <1>1, <1>2 DEF OutOf

LEMMA ProducerOut ==
  ASSUME UNCHANGED <<cpc, head, taking>>
  PROVE  OutSame /\ \A k : OutOf(k)' = OutOf(k)
  BY DEF OutSame, Out, OutOf, Key

(* A step of the producer does nothing to the blocks there are. *)
LEMMA ProducerCounts ==
  ASSUME TypeOK, Sound, Owned, Counted, ProducerStep, NEW k \in Int, Live(k)
  PROVE  Counts(k)'
<1>1. Counts(k)
  BY CountedParts
<1>2. OutOf(k)' = OutOf(k) /\ cpc' = cpc /\ taking' = taking
  BY ProducerOut, ProducerMoves
<1>3. BlockAt(k)' = BlockAt(k)
  BY ProducerIndex DEF LivesKept
<1>4. emptied'[BlockAt(k)] = emptied[BlockAt(k)]
  <2>1. CASE ~Install
    BY <2>1 DEF ProducerStep, InsideBlock, StartBlock, StartWithoutIndex,
       GrowFails, RequisitionFails, Write,
       Requisition, Grow, StoreKey, StoreTail, Rewind, ClearEntry, PublishElement, memory
  <2>2. CASE Install
    <3>1. BlockAt(k) # newBlock /\ BlockAt(k) \in Blocks
      BY BlocksDiffer DEF Sound
    <3>2. emptied' = [emptied EXCEPT ![newBlock] = 0] /\ emptied \in [Blocks -> 0 .. BlockSize]
      BY <2>2 DEF Install, ResetEmpty, TypeOK
    <3> QED BY <3>1, <3>2
  <2> QED BY <2>1, <2>2
<1> QED BY <1>1, <1>2, <1>3, <1>4 DEF Counts, Num

LEMMA ProducerCounted ==
  ASSUME TypeOK, Sound, Owned, Dispensed, Counted, ProducerStep
  PROVE  Counted'
<1> USE DEF dispenser, memory, index, producer, consumers, PGoto
<1>1. /\ \A i \in 0 .. tail - 1 : ~Out(i) => Live(Num(i))
      /\ tail % BlockSize # 0 \/ ppc \in {"write", "publish"} => Live(Num(tail))
      /\ \A k \in Int : Live(k) => Counts(k)
      /\ \A c \in Consumers : Releasing(c)
  BY CountedParts
<1>2. /\ UNCHANGED <<cpc, head, taking>>
      /\ OutSame /\ \A k : OutOf(k)' = OutOf(k)
  BY ProducerOut, ProducerMoves
<1>3. /\ LivesKept /\ (~Install => NoNewLives) /\ Sound'
  BY ProducerIndex
<1>4. /\ head \in Nat /\ tail \in Nat /\ head <= tail /\ Num(tail) \in Nat
      /\ ppc \in ProducerStates /\ BlockSize \in Nat /\ BlockSize > 1
  <2>1. /\ head \in Nat /\ tail \in Nat /\ head <= tail /\ ppc \in ProducerStates
        /\ BlockSize \in Nat /\ BlockSize > 1
    BY MaxElementsAssumption, SizesAssumption DEF TypeOK, Dispensed
  <2> QED BY <2>1, NextNumber
<1>5. \A i \in Nat : Num(i) \in Int
  BY NextNumber
<1>6. \A i \in 0 .. tail' - 1 : ~Out(i)' => Live(Num(i))'
  <2> SUFFICES ASSUME NEW i \in 0 .. tail' - 1, ~Out(i)' PROVE Live(Num(i))'
    OBVIOUS
  <2>1. i \in Nat /\ ~Out(i) /\ Num(i) \in Int
    <3>1. i \in Nat
      BY <1>4, ProducerMoves
    <3> QED BY <1>2, <1>5, <3>1 DEF OutSame
  <2>2. CASE i <= tail - 1
    <3>1. Live(Num(i))
      BY <1>1, <1>4, <2>1, <2>2
    <3>2. \A k \in {Num(i)} : Live(k)'
      BY <1>3, <2>1, <3>1 DEF LivesKept
    <3> QED BY <3>2 DEF Num
  <2>3. CASE ~(i <= tail - 1)
    <3>1. tail' = tail + 1 /\ i = tail
      BY <1>4, <2>1, <2>3, ProducerMoves
    <3>2. ppc = "publish"
      <4>1. tail' # tail
        BY <1>4, <3>1
      <4> QED BY <4>1 DEF ProducerStep, InsideBlock, StartBlock, StartWithoutIndex,
         GrowFails, RequisitionFails,
              Write, Requisition, Grow, StoreKey, StoreTail, Rewind, ClearEntry, Install,
              PublishElement
    <3>3. Live(Num(i))
      BY <1>1, <3>1, <3>2
    <3>4. \A k \in {Num(i)} : Live(k)'
      BY <1>3, <2>1, <3>3 DEF LivesKept
    <3> QED BY <3>4 DEF Num
  <2> QED BY <2>2, <2>3
<1>7. tail' % BlockSize # 0 \/ ppc' \in {"write", "publish"} => Live(Num(tail))'
  <2> SUFFICES ASSUME tail' % BlockSize # 0 \/ ppc' \in {"write", "publish"}
               PROVE  \A k \in {Num(tail')} : Live(k)'
    BY DEF Num
  <2>1. CASE Install
    <3>1. tail' = tail /\ newBlock # NoBlock /\ Newest = Num(tail) /\ ppc = "install"
      BY <1>4, <2>1, NewestMoves DEF Install, Owned, Sound
    <3> QED BY <2>1, <3>1, InstallKeeps
  <2>2. CASE PublishElement
    <3>1. tail' = tail + 1 /\ ppc = "publish" /\ ppc' = "idle"
      BY <2>2 DEF PublishElement, Publish
    <3>2. Num(tail') = Num(tail)
      <4> DEFINE n == tail + 1
      <4>1. n \in Nat /\ n - 1 = tail /\ n % BlockSize # 0
        BY <1>4, <3>1
      <4> HIDE DEF n
      <4>2. Num(n - 1) = Num(n)
        BY <4>1, NextNumber
      <4> QED BY <3>1, <4>1, <4>2 DEF n
    <3>3. Live(Num(tail))
      BY <1>1, <3>1
    <3> QED BY <1>3, <1>4, <3>2, <3>3 DEF LivesKept
  <2>3. CASE ~Install /\ ~PublishElement
    <3>1. tail' = tail /\ (tail % BlockSize # 0 \/ ppc \in {"write", "publish"})
      BY <2>3 DEF ProducerStep, InsideBlock, StartBlock, StartWithoutIndex,
         GrowFails, RequisitionFails,
         Write, Requisition, Grow, StoreKey, StoreTail, Rewind, ClearEntry
    <3>2. Live(Num(tail))
      BY <1>1, <3>1
    <3> QED BY <1>3, <1>4, <3>1, <3>2 DEF LivesKept
  <2> QED BY <2>1, <2>2, <2>3
<1>8. \A k \in Int : Live(k)' => Counts(k)'
  <2> SUFFICES ASSUME NEW k \in Int, Live(k)' PROVE Counts(k)'
    OBVIOUS
  <2>1. CASE Live(k)
    BY <2>1, ProducerCounts
  <2>2. CASE ~Live(k)
    <3>1. Install /\ k = Newest
      BY <1>3, <2>2, InstallKeeps DEF NoNewLives
    <3>2. BlockAt(k)' = newBlock /\ newBlock \in Blocks
      <4>1. BlockAt(k)' = newBlock
        BY <3>1, InstallKeeps
      <4>2. newBlock \in Blocks
        BY <3>1 DEF Install, Owned, TypeOK
      <4> QED BY <4>1, <4>2
    <3>3. k = Num(tail) /\ tail % BlockSize = 0
      BY <3>1, NewestMoves DEF Install, Sound, Progress
    <3>4. Key(k) = tail
      BY <1>4, <3>3, NextNumber
    <3>5. OutOf(k) = {}
      <4>1. \A o \in Offsets : ~(tail + o < head)
        BY <1>4 DEF Offsets
      <4> QED BY <3>4, <4>1 DEF OutOf, Out
    <3>6. 0 \in Offsets
      BY <1>4 DEF Offsets
    <3>7. emptied'[newBlock] = 0
      BY <3>1, <3>2 DEF Install, ResetEmpty, TypeOK
    <3>8. OutOf(k)' = {} /\ Cardinality(OutOf(k)') = 0
      BY <1>2, <3>5, FS_EmptySet
    <3>9. k >= 0 /\ OutOf(k)' # Offsets
      BY <1>4, <3>3, <3>6, <3>8
    <3>10. emptied'[BlockAt(k)'] = 0
      BY <3>2, <3>7
    <3> QED BY <3>8, <3>9, <3>10 DEF Counts
  <2> QED BY <2>1, <2>2
<1>9. \A c \in Consumers : Releasing(c)'
  BY <1>1, <1>2 DEF Releasing, Num
<1>10. Window' \subseteq Int
  <2>1. Newest' \in Int /\ Oldest' \in Int
    <3>1. tail' \in Nat /\ Num(tail)' \in Int /\ Num(tail)' = Num(tail')
      BY NumbersGrow, ProducerMoves
    <3>2. Num(tail' - 1) \in Int
      BY <3>1, NextNumber
    <3>3. Newest' = Num(tail)' \/ Newest' = Num(tail' - 1)
      BY DEF Newest, Num
    <3>4. Newest' \in Int
      BY <3>1, <3>2, <3>3
    <3>5. Capacity' \in Int
      <4>1. Len(entries') = Capacity'
        BY <1>3 DEF Sound, Indexed
      <4> QED BY <4>1
    <3> QED BY <3>4, <3>5 DEF Oldest
  <2> QED BY <2>1 DEF Window
<1>11. \A k : Live(k)' => k \in Window'
  BY DEF Live
<1> QED BY <1>6, <1>7, <1>8, <1>9, <1>10, <1>11 DEF Counted, Counts, Releasing

(* A consumer counts its own element, and with it no other. *)
LEMMA SetEmptyOut ==
  ASSUME TypeOK, Dispensed, NEW c \in Consumers, SetEmpty(c)
  PROVE  /\ \A i \in Nat : Out(i)' <=> Out(i) \/ i = taking[c]
         /\ \A k \in {Num(taking[c])}, o \in {taking[c] % BlockSize} :
              OutOf(k)' = OutOf(k) \cup {o}
         /\ \A k \in Int : k >= 0 /\ k # Num(taking[c]) => OutOf(k)' = OutOf(k)
<1> DEFINE n == taking[c]
           K == Num(n)
           p == n % BlockSize
<1>1. /\ head' = head
      /\ cpc[c] = "count"
      /\ \/ cpc'[c] = "release" /\ taking'[c] = taking[c]
         \/ taking'[c] = NoIndex
      /\ \A d \in Consumers \ {c} : cpc'[d] = cpc[d] /\ taking'[d] = taking[d]
  <2>1. ConsumerStep(c) /\ cpc[c] = "count"
    BY ConsumerPlaces DEF ConsumerStep
  <2> QED BY <2>1, ConsumerPlaces, ConsumerMoves
<1>2. n \in Nat /\ n < head /\ K \in Int /\ p \in Offsets /\ n = Key(K) + p
  BY <1>1, OwnNotOut DEF Inside
<1>3. \A d \in Consumers \ {c} : taking[d] # n
  BY <1>2 DEF Dispensed, NoIndex
<1> HIDE DEF n, K, p
<1>4. \A i \in Nat : Out(i)' <=> Out(i) \/ i = n
  <2> TAKE i \in Nat
  <2>1. CASE i = n
    <3>1. \A d \in Consumers : taking'[d] = n => cpc'[d] \in {"release", "add"}
      <4>1. NoIndex # n
        BY <1>2 DEF NoIndex
      <4> QED BY <1>1, <1>3, <4>1
    <3> QED BY <1>1, <1>2, <2>1, <3>1 DEF Out
  <2>2. CASE i # n
    <3>1. taking'[c] # i /\ taking[c] # i
      <4>1. i # NoIndex
        BY DEF NoIndex
      <4> QED BY <1>1, <2>2, <4>1 DEF n
    <3> QED BY <1>1, <2>2, <3>1 DEF Out
  <2> QED BY <2>1, <2>2
<1>5. ASSUME NEW k \in {K}, NEW q \in {p} PROVE OutOf(k)' = OutOf(k) \cup {q}
  <2>1. \A o \in Offsets : Key(k) + o \in Nat /\ (Key(k) + o = n <=> o = q)
    <3>1. k \in Int /\ k >= 0
      <4>1. Num(n) \in Nat
        BY <1>2, NextNumber
      <4> QED BY <4>1 DEF K
    <3>2. \A o \in Offsets : Key(k) + o \in Nat
      BY <3>1, OutOfFacts
    <3>3. n = Key(k) + q /\ Offsets \subseteq Int /\ q \in Offsets /\ Key(k) \in Int
      BY <1>2, <3>1, Keys DEF Offsets
    <3>4. \A o \in Offsets : Key(k) + o = Key(k) + q <=> o = q
      BY <3>3
    <3> QED BY <3>2, <3>3, <3>4
  <2>2. q \in Offsets
    BY <1>2
  <2> QED BY <1>4, <2>1, <2>2 DEF OutOf, Key
<1>6. ASSUME NEW k \in Int, k >= 0, k # K PROVE OutOf(k)' = OutOf(k)
  <2>1. \A o \in Offsets : Key(k) + o \in Nat /\ Key(k) + o # n
    <3> TAKE o \in Offsets
    <3>1. Key(k) + o \in Nat
      BY <1>6, OutOfFacts
    <3>2. Num(Key(k) + o) = k
      BY NumberUnique
    <3> QED BY <1>6, <3>1, <3>2 DEF K
  <2> QED BY <1>4, <2>1 DEF OutOf, Key
<1> QED BY <1>4, <1>5, <1>6 DEF n, K, p

(* SetEmpty counts one element more of the consumer's own block, no other. *)
LEMMA SetEmptyCounts ==
  ASSUME TypeOK, Sound, Owned, Searching, Dispensed, Counted, NEW c \in Consumers, SetEmpty(c),
         NEW K \in {Num(taking[c])}, NEW o \in {taking[c] % BlockSize}
  PROVE  /\ \A k \in Int : Live(k) => Counts(k)'
         /\ \A d \in Consumers : Releasing(d)'
         /\ emptied[BlockAt(K)] + 1 <= BlockSize /\ Live(K) /\ block[c] = BlockAt(K)
<1> DEFINE b == block[c]
<1>1. ConsumerStep(c) /\ ~Release(c) /\ cpc[c] = "count"
  BY ConsumerPlaces DEF ConsumerStep, Release, CGoto
<1>2. K \in Int /\ o \in Offsets /\ o \notin OutOf(K) /\ K >= 0
  <2>1. taking[c] \in Nat /\ o \in Offsets /\ o \notin OutOf(K)
    BY <1>1, OwnNotOut DEF Inside
  <2> QED BY <2>1, NextNumber
<1>3. Live(K) /\ b = BlockAt(K)
  BY <1>1 DEF Searching, Found, Inside
<1>4. /\ \A k \in Int : Live(k) => BlockAt(k)' = BlockAt(k)
      /\ \A k \in Int : Live(k) => Counts(k)
      /\ \A d \in Consumers : Releasing(d)
      /\ \A d \in Consumers \ {c} : cpc'[d] = cpc[d] /\ taking'[d] = taking[d]
  BY <1>1, ConsumerIndex, CountedParts, ConsumerMoves
<1>5. /\ OutOf(K)' = OutOf(K) \cup {o}
      /\ \A k \in Int : k >= 0 /\ k # K => OutOf(k)' = OutOf(k)
  BY SetEmptyOut
<1>6. /\ Cardinality(OutOf(K)') = Cardinality(OutOf(K)) + 1
      /\ Cardinality(OutOf(K)) \in Nat
      /\ Cardinality(OutOf(K)') \in 0 .. BlockSize
      /\ Cardinality(OutOf(K)') = BlockSize <=> OutOf(K)' = Offsets
  <2>1. /\ IsFiniteSet(OutOf(K)) /\ IsFiniteSet(Offsets) /\ Cardinality(Offsets) = BlockSize
        /\ OutOf(K) \subseteq Offsets /\ BlockSize \in Nat
    BY <1>2, OutOfFacts, SizesAssumption
  <2> DEFINE T == OutOf(K) \cup {o}
  <2>2. Cardinality(T) = Cardinality(OutOf(K)) + 1 /\ Cardinality(OutOf(K)) \in Nat
    BY <1>2, <2>1, FS_AddElement, FS_CardinalityType
  <2>3. T \subseteq Offsets
    BY <1>2, <2>1
  <2> HIDE DEF T
  <2>4. Cardinality(T) \in Nat /\ Cardinality(T) <= BlockSize
        /\ (Cardinality(T) = BlockSize => T = Offsets)
    BY <2>1, <2>3, FS_Subset, FS_CardinalityType
  <2>5. OutOf(K)' = T
    BY <1>5 DEF T
  <2> QED BY <2>1, <2>2, <2>4, <2>5
<1>7. /\ emptied[b] = Cardinality(OutOf(K)) /\ emptied'[b] = emptied[b] + 1
      /\ \A x \in Blocks : x # b => emptied'[x] = emptied[x]
  <2>1. b \in Blocks /\ emptied \in [Blocks -> 0 .. BlockSize]
    BY <1>2, <1>3, BlocksDiffer DEF TypeOK, Sound
  <2>2. emptied' = [emptied EXCEPT ![b] = @ + 1]
    BY DEF SetEmpty
  <2> QED BY <1>2, <1>3, <1>4, <2>1, <2>2 DEF Counts
<1>8. OutOf(K)' = Offsets <=> LastOne(b)
  <2>1. BlockSize \in Nat
    BY SizesAssumption
  <2> QED BY <1>6, <1>7, <2>1 DEF LastOne
<1>9. /\ LastOne(b) => cpc'[c] = "release" /\ taking'[c] = taking[c]
      /\ cpc'[c] = "release" => LastOne(b)
  BY <1>1, ConsumerPlaces
<1>10. OutOf(K) # Offsets
  BY <1>2
<1>11. ASSUME NEW k \in Int, Live(k), k # K PROVE Counts(k)'
  <2>1. BlockAt(k) # b /\ BlockAt(k) \in Blocks
    BY <1>2, <1>3, <1>11, BlocksDiffer DEF Sound
  <2>2. /\ k >= 0 /\ emptied[BlockAt(k)] = Cardinality(OutOf(k))
        /\ OutOf(k) = Offsets => \E d \in Consumers : cpc[d] = "release" /\ Num(taking[d]) = k
    BY <1>4, <1>11 DEF Counts
  <2>3. OutOf(k)' = OutOf(k) /\ emptied'[BlockAt(k)] = emptied[BlockAt(k)]
    BY <1>5, <1>7, <1>11, <2>1, <2>2
  <2>4. ASSUME OutOf(k) = Offsets
        PROVE  \E d \in Consumers : cpc'[d] = "release" /\ Num(taking'[d]) = k
    <3>1. PICK d \in Consumers : cpc[d] = "release" /\ Num(taking[d]) = k
      BY <2>2, <2>4
    <3>2. d # c
      BY <1>1, <3>1
    <3> QED BY <1>4, <3>1, <3>2
  <2>5. BlockAt(k)' = BlockAt(k)
    BY <1>4, <1>11
  <2> QED BY <2>2, <2>3, <2>4, <2>5 DEF Counts, Num
<1>12. Counts(K)'
  <2>1. emptied'[BlockAt(K)'] = Cardinality(OutOf(K)')
    <3>1. BlockAt(K)' = b
      BY <1>2, <1>3, <1>4
    <3> QED BY <1>6, <1>7, <3>1
  <2>2. OutOf(K)' = Offsets => cpc'[c] = "release" /\ Num(taking'[c]) = K
    BY <1>8, <1>9
  <2> QED BY <1>2, <2>1, <2>2 DEF Counts, Num
<1>13. \A k \in Int : Live(k) => Counts(k)'
  <2> SUFFICES ASSUME NEW k \in Int, Live(k) PROVE Counts(k)'
    OBVIOUS
  <2>1. CASE k = K
    BY <1>12, <2>1 DEF Counts, Num
  <2> QED BY <1>11, <2>1
<1>14. \A d \in Consumers \ {c} : cpc[d] = "release" => Num(taking[d]) # K
  BY <1>4, <1>10 DEF Releasing
<1>15. \A d \in Consumers \ {c} : Releasing(d)'
  <2> SUFFICES ASSUME NEW d \in Consumers \ {c}, cpc[d] = "release"
               PROVE  /\ \A k \in {Num(taking[d])} : OutOf(k)' = Offsets
                      /\ \A e \in Consumers \ {d} :
                           cpc'[e] = "release" => Num(taking'[e]) # Num(taking[d])
    BY <1>4 DEF Releasing, Num, OutOf, Key
  <2> DEFINE k == Num(taking[d])
  <2>1. k \in Int /\ OutOf(k) = Offsets /\ k # K
        /\ \A e \in Consumers \ {d} : cpc[e] = "release" => Num(taking[e]) # k
    BY <1>4, <1>14, NumberOfTaking DEF Releasing
  <2> HIDE DEF k
  <2>2. k >= 0
    <3>1. taking[d] \in Nat
      <4>1. taking[d] \in {NoIndex} \cup 0 .. MaxElements /\ taking[d] # NoIndex
        BY DEF TypeOK, Dispensed
      <4> QED BY <4>1, MaxElementsAssumption
    <3> QED BY <3>1, NextNumber DEF k
  <2>3. \A j \in {k} : OutOf(j)' = Offsets
    BY <1>5, <2>1, <2>2
  <2>4. \A e \in Consumers \ {d} : cpc'[e] = "release" => Num(taking'[e]) # k
    <3> SUFFICES ASSUME NEW e \in Consumers \ {d}, cpc'[e] = "release"
                 PROVE  Num(taking'[e]) # k
      OBVIOUS
    <3>1. CASE e = c
      BY <1>9, <2>1, <3>1
    <3>2. CASE e # c
      BY <1>4, <2>1, <3>2
    <3> QED BY <3>1, <3>2
  <2> QED BY <2>3, <2>4 DEF k
<1>16. Releasing(c)'
  <2> SUFFICES ASSUME cpc'[c] = "release"
               PROVE  /\ OutOf(K)' = Offsets /\ Num(taking'[c]) = K
                      /\ \A e \in Consumers \ {c} : cpc'[e] = "release" => Num(taking'[e]) # K
    BY DEF Releasing, Num, OutOf, Key
  <2> QED BY <1>4, <1>8, <1>9, <1>14
<1>17. \A d \in Consumers : Releasing(d)'
  <2> SUFFICES ASSUME NEW d \in Consumers PROVE Releasing(d)'
    OBVIOUS
  <2>1. CASE d = c
    BY <1>16, <2>1 DEF Releasing, Num
  <2> QED BY <1>15, <2>1
<1> QED BY <1>3, <1>6, <1>7, <1>13, <1>17

LEMMA ConsumerCounted ==
  ASSUME TypeOK, Sound, Owned, Searching, Dispensed, Counted, NEW c \in Consumers, ConsumerStep(c)
  PROVE  Counted'
<1> DEFINE K == Num(taking[c])
<1>1. /\ \A i \in 0 .. tail - 1 : ~Out(i) => Live(Num(i))
      /\ tail % BlockSize # 0 \/ ppc \in {"write", "publish"} => Live(Num(tail))
      /\ \A k \in Int : Live(k) => Counts(k)
      /\ \A d \in Consumers : Releasing(d)
  BY CountedParts
<1>2. /\ Window' = Window
      /\ \A j \in Int : /\ Live(j)' <=> Live(j) /\ ~(Release(c) /\ j = K)
                        /\ Live(j)' => BlockAt(j)' = BlockAt(j)
  BY ConsumerIndex
<1>3. /\ \A d \in Consumers \ {c} : cpc'[d] = cpc[d] /\ taking'[d] = taking[d]
      /\ tail' = tail /\ ppc' = ppc /\ (~SetEmpty(c) => emptied' = emptied)
  BY ConsumerMoves
<1>4. \A i \in Nat : Out(i) => Out(i)'
  <2>1. CASE SetEmpty(c)
    BY <2>1, SetEmptyOut
  <2>2. CASE ~SetEmpty(c)
    BY <2>2, OutKept DEF OutSame
  <2> QED BY <2>1, <2>2
<1>5. Release(c) => K \in Int /\ OutOf(K) = Offsets
  BY <1>1, ConsumerPlaces, NumberOfTaking DEF Releasing
<1>6. /\ tail \in Nat /\ \A i \in Nat : Num(i) \in Int
  BY MaxElementsAssumption, NextNumber DEF TypeOK
<1> HIDE DEF K
<1>7. ASSUME NEW i \in Nat, Live(Num(i)), ~Out(i) PROVE \A k \in {Num(i)} : Live(k)'
  <2>1. ~(Release(c) /\ Num(i) = K)
    BY <1>5, <1>7, AllOut
  <2> QED BY <1>2, <1>6, <1>7, <2>1
<1>8. \A i \in 0 .. tail' - 1 : ~Out(i)' => Live(Num(i))'
  <2> SUFFICES ASSUME NEW i \in 0 .. tail - 1, ~Out(i)' PROVE \A k \in {Num(i)} : Live(k)'
    BY <1>3 DEF Num
  <2>1. i \in Nat /\ ~Out(i)
    BY <1>4, <1>6
  <2> QED BY <1>1, <1>7, <2>1
<1>9. tail' % BlockSize # 0 \/ ppc' \in {"write", "publish"} => Live(Num(tail))'
  <2> SUFFICES ASSUME tail % BlockSize # 0 \/ ppc \in {"write", "publish"}
               PROVE  \A k \in {Num(tail)} : Live(k)'
    BY <1>3 DEF Num
  <2>1. ~Out(tail)
    <3>1. head <= tail /\ head \in Nat
      BY MaxElementsAssumption DEF TypeOK, Dispensed
    <3> QED BY <1>6, <3>1 DEF Out
  <2> QED BY <1>1, <1>6, <1>7, <2>1
<1>10. /\ \A k \in Int : Live(k)' => Counts(k)'
       /\ \A d \in Consumers : Releasing(d)'
  <2>1. CASE SetEmpty(c)
    <3>1. /\ \A k \in Int : Live(k) => Counts(k)'
          /\ \A d \in Consumers : Releasing(d)'
      <4>1. \A k \in {Num(taking[c])}, o \in {taking[c] % BlockSize} :
              /\ \A j \in Int : Live(j) => Counts(j)'
              /\ \A d \in Consumers : Releasing(d)'
        BY <2>1, SetEmptyCounts
      <4> QED BY <4>1
    <3> QED BY <1>2, <3>1
  <2>2. CASE ~SetEmpty(c)
    <3>1. OutSame /\ emptied' = emptied
      BY <1>3, <2>2, OutKept
    <3>2. \A k \in Int : Live(k) => k >= 0 /\ OutOf(k)' = OutOf(k)
      BY <1>1, <3>1, OutOfFacts DEF Counts
    <3>3. \A d \in Consumers : cpc'[d] = "release" => cpc[d] = "release" /\ taking'[d] = taking[d]
      <4>1. cpc'[c] # "release"
        BY <2>2, ConsumerPlaces DEF ConsumerStep
      <4> QED BY <1>3, <4>1
    <3>4. \A d \in Consumers : cpc[d] = "release" /\ ~Release(c) =>
            cpc'[d] = "release" /\ taking'[d] = taking[d]
      <4>1. cpc[c] = "release" => Release(c)
        BY ConsumerPlaces, <2>2 DEF ConsumerStep
      <4> QED BY <1>3, <4>1
    <3>5. ASSUME NEW k \in Int, Live(k)' PROVE Counts(k)'
      <4>1. Counts(k) /\ BlockAt(k)' = BlockAt(k) /\ OutOf(k)' = OutOf(k) /\ Live(k)
        BY <1>1, <1>2, <3>2, <3>5
      <4>2. ASSUME OutOf(k) = Offsets
            PROVE  \E d \in Consumers : cpc'[d] = "release" /\ Num(taking'[d]) = k
        <5>1. PICK d \in Consumers : cpc[d] = "release" /\ Num(taking[d]) = k
          BY <4>1, <4>2 DEF Counts
        <5>2. CASE Release(c)
          <6>1. cpc[c] = "release" /\ k # K
            BY <1>2, <3>5, <5>2, ConsumerPlaces
          <6>2. d # c
            BY <5>1, <6>1 DEF K
          <6> QED BY <1>3, <5>1, <6>2
        <5> QED BY <3>4, <5>1, <5>2
      <4>3. emptied'[BlockAt(k)'] = Cardinality(OutOf(k)')
        BY <3>1, <4>1 DEF Counts
      <4> QED BY <4>1, <4>2, <4>3 DEF Counts, Num
    <3>6. ASSUME NEW d \in Consumers PROVE Releasing(d)'
      <4> SUFFICES ASSUME cpc[d] = "release", taking'[d] = taking[d]
                   PROVE  /\ \A k \in {Num(taking[d])} : OutOf(k)' = Offsets
                          /\ \A e \in Consumers \ {d} :
                               cpc'[e] = "release" => Num(taking'[e]) # Num(taking[d])
        BY <3>3 DEF Releasing, Num, OutOf, Key
      <4> DEFINE k == Num(taking[d])
      <4>1. k \in Int /\ OutOf(k) = Offsets
            /\ \A e \in Consumers \ {d} : cpc[e] = "release" => Num(taking[e]) # k
        BY <1>1, NumberOfTaking DEF Releasing
      <4>2. k >= 0
        <5>1. taking[d] \in Nat
          <6>1. taking[d] \in {NoIndex} \cup 0 .. MaxElements /\ taking[d] # NoIndex
            BY DEF TypeOK, Dispensed
          <6> QED BY <6>1, MaxElementsAssumption
        <5> QED BY <5>1, NextNumber
      <4> HIDE DEF k
      <4>3. \A j \in {k} : OutOf(j)' = OutOf(j)
        BY <3>1, <4>1, <4>2, OutOfFacts
      <4>4. \A e \in Consumers \ {d} : cpc'[e] = "release" => Num(taking'[e]) # k
        BY <3>3, <4>1
      <4> QED BY <4>1, <4>3, <4>4 DEF k
    <3> QED BY <3>5, <3>6
  <2> QED BY <2>1, <2>2
<1>11. \A k : Live(k)' => k \in Window'
  BY DEF Live
<1>12. Window' \subseteq Int
  BY <1>2, WindowFacts DEF Sound
<1> QED BY <1>8, <1>9, <1>10, <1>11, <1>12 DEF Counted, Counts, Releasing

(***************************************************************************)
(* The elements in the blocks.                                             *)
(***************************************************************************)
Content(k) ==
  \A o \in Offsets :
    slots[BlockAt(k)][o] =
      IF Stored(Key(k) + o) /\ ~Moved(Key(k) + o) THEN Key(k) + o ELSE NoIndex
Listed(b) == \E k \in Int : Live(k) /\ BlockAt(k) = b
Empty(b) == \A o \in Offsets : slots[b][o] = NoIndex

LEMMA ContentsParts ==
  ASSUME TypeOK, Indexed
  PROVE  Contents <=> /\ \A k \in Int : Live(k) => Content(k)
                      /\ \A b \in Blocks : ~Listed(b) => Empty(b)
<1>1. /\ \A k : Live(k) => k \in Window
      /\ Window \subseteq Int
      /\ \A k \in Window : BlockAt(k) \in Blocks => Live(k)
  BY WindowFacts, EntryFacts DEF Live
<1>2. \A b \in Blocks : Listed(b) <=> \E k \in Window : BlockAt(k) = b
  BY <1>1 DEF Listed
<1>3. (\A k \in Int : Live(k) => Content(k)) <=>
        \A k \in Window, o \in Offsets :
          Live(k) => slots[BlockAt(k)][o] =
            IF Stored(Key(k) + o) /\ ~Moved(Key(k) + o) THEN Key(k) + o ELSE NoIndex
  BY <1>1 DEF Content
<1>4. (\A b \in Blocks : ~Listed(b) => Empty(b)) <=>
        \A b \in Blocks :
          (\A k \in Window : BlockAt(k) # b) => \A o \in Offsets : slots[b][o] = NoIndex
  BY <1>2 DEF Empty
<1> QED BY <1>3, <1>4 DEF Contents

(* The same of the next state. *)
LEMMA ContentsNext ==
  ASSUME Window' \subseteq Int, NoBlock \notin Blocks,
         \A k \in Int : Live(k)' => Content(k)',
         \A b \in Blocks : ~Listed(b)' => Empty(b)'
  PROVE  Contents'
<1>1. /\ \A k : Live(k)' => k \in Window'
      /\ \A k \in Window' : BlockAt(k)' \in Blocks => Live(k)'
  BY DEF Live
<1>2. \A b \in Blocks : Listed(b)' => \E k \in Window' : BlockAt(k)' = b
  BY <1>1 DEF Listed
<1>3. \A k \in Window', o \in Offsets :
        Live(k)' => slots'[BlockAt(k)'][o] =
          IF Stored(Key(k) + o)' /\ ~Moved(Key(k) + o)' THEN Key(k) + o ELSE NoIndex
  BY <1>1 DEF Content, Key
<1>4. \A b \in Blocks :
        (\A k \in Window' : BlockAt(k)' # b) => \A o \in Offsets : slots'[b][o] = NoIndex
  BY <1>2 DEF Empty
<1> QED BY <1>3, <1>4 DEF Contents, Key

(* A block outside the index is not the one of any number. *)
LEMMA Unlisted ==
  ASSUME TypeOK, Indexed, NEW b \in Blocks
  PROVE  Listing(b) = {} => ~Listed(b)
<1>1. \A k \in Int : Slot(k) \in DOMAIN entries
  BY SlotFacts
<1> QED BY <1>1 DEF Listed, Listing, BlockAt

LEMMA NextWindow ==
  ASSUME TypeOK, ProducerStep, Indexed'
  PROVE  Window' \subseteq Int
<1>1. tail' \in Nat /\ Num(tail)' \in Int /\ Num(tail)' = Num(tail')
  BY NumbersGrow, ProducerMoves
<1>2. Num(tail' - 1) \in Int
  BY <1>1, NextNumber
<1>3. Newest' = Num(tail)' \/ Newest' = Num(tail' - 1)
  BY DEF Newest, Num
<1>4. Newest' \in Int
  BY <1>1, <1>2, <1>3
<1>5. Len(entries') = Capacity'
  BY DEF Indexed
<1>6. Capacity' \in Int
  BY <1>5
<1>7. Oldest' \in Int
  BY <1>4, <1>6 DEF Oldest
<1> QED BY <1>4, <1>7 DEF Window

LEMMA ProducerContents ==
  ASSUME TypeOK, Sound, Owned, Dispensed, Counted, Filling, Contents, ProducerStep
  PROVE  Contents'
<1> USE DEF dispenser, memory, index, producer, consumers, PGoto
<1>1. /\ \A k \in Int : Live(k) => Content(k)
      /\ \A b \in Blocks : ~Listed(b) => Empty(b)
  BY ContentsParts DEF Sound
<1>2. /\ \A k \in Int : Live(k) => Live(k)' /\ BlockAt(k)' = BlockAt(k)
      /\ ~Install => \A k \in Int : Live(k)' => Live(k)
      /\ Window' \subseteq Int
  BY ProducerIndex, NextWindow DEF LivesKept, NoNewLives, Sound
<1>3. \A i : Moved(i)' <=> Moved(i)
  BY ProducerMoves DEF Moved
<1>4. /\ tail \in Nat /\ head \in Nat /\ head <= tail /\ Num(tail) \in Nat
      /\ tail % BlockSize \in Offsets /\ tail = Key(Num(tail)) + (tail % BlockSize)
      /\ NoBlock \notin Blocks
  <2>1. tail \in Nat /\ head \in Nat /\ head <= tail
    BY MaxElementsAssumption DEF TypeOK, Dispensed
  <2>2. Num(tail) \in Nat
    BY <2>1, NextNumber
  <2>3. tail % BlockSize \in Offsets /\ tail = Key(Num(tail)) + (tail % BlockSize)
    BY <2>1, Numbers
  <2>4. NoBlock \notin Blocks
    BY EntryFacts DEF Sound
  <2> QED BY <2>1, <2>2, <2>3, <2>4
<1>5. \A b \in Blocks : ~Listed(b)' => ~Listed(b)
  BY <1>2 DEF Listed
<1>6. \A k \in Int, o \in Offsets : Key(k) + o \in Int
  <2>1. Offsets \subseteq Int /\ \A k \in Int : Key(k) \in Int
    BY SizesAssumption, Keys DEF Offsets
  <2> QED BY <2>1
<1>7. CASE Write
  <2> DEFINE p == tail % BlockSize
             N == Num(tail)
  <2>1. /\ ppc = "write" /\ ppc' = "publish" /\ tail' = tail
        /\ slots' = [slots EXCEPT ![tailBlock][p] = tail]
    BY <1>7 DEF Write
  <2>2. Live(N)
    BY <2>1 DEF Counted
  <2>3. tailBlock = BlockAt(N) /\ tailBlock \in Blocks
    <3>1. Filled = N
      BY <2>1 DEF Filled
    <3>2. tailBlock = BlockAt(N)
      BY <2>2, <3>1 DEF Filling
    <3> QED BY <1>4, <2>2, <3>2, BlocksDiffer DEF Sound
  <2>4. p \in Offsets /\ N \in Int /\ tail = Key(N) + p
    BY <1>4
  <2> HIDE DEF p, N
  <2>5. \A b \in Blocks, o \in Offsets :
          slots'[b][o] = IF b = tailBlock /\ o = p THEN tail ELSE slots[b][o]
    <3>1. slots \in [Blocks -> [Offsets -> {NoIndex} \cup 0 .. MaxElements]]
      BY DEF TypeOK
    <3> QED BY <2>1, <2>3, <2>4, <3>1
  <2>6. \A i \in Int : Stored(i)' <=> Stored(i) \/ i = tail
    BY <2>1 DEF Stored
  <2>7. ~Moved(tail)
    BY <1>4 DEF Moved
  <2>8. ASSUME NEW k \in Int, Live(k)' PROVE Content(k)'
    <3>1. Live(k) /\ BlockAt(k)' = BlockAt(k) /\ BlockAt(k) \in Blocks
      <4>1. Live(k)
        BY <1>2, <1>7, <2>1, <2>8 DEF Install
      <4> QED BY <1>2, <4>1, BlocksDiffer DEF Sound
    <3>2. BlockAt(k) = tailBlock => k = N
      BY <2>2, <2>3, <2>4, <3>1, BlocksDiffer DEF Sound
    <3> SUFFICES ASSUME NEW o \in Offsets, NEW i \in {Key(k) + o}
                 PROVE  slots'[BlockAt(k)][o] =
                          IF (Stored(i) \/ i = tail) /\ ~Moved(i) THEN i ELSE NoIndex
      <4>1. \A o \in Offsets :
              slots'[BlockAt(k)'][o] =
                IF Stored(Key(k) + o)' /\ ~Moved(Key(k) + o)' THEN Key(k) + o ELSE NoIndex
        BY <1>3, <1>6, <2>6, <3>1
      <4> QED BY <4>1 DEF Content, Key
    <3>3. CASE k = N /\ o = p
      BY <2>4, <2>5, <2>7, <2>3, <3>1, <3>3
    <3>4. CASE ~(k = N /\ o = p)
      <4>1. i # tail
        <5>1. Num(i) = k /\ i % BlockSize = o
          BY NumberUnique
        <5> QED BY <3>4, <5>1 DEF N, p
      <4>2. slots'[BlockAt(k)][o] = slots[BlockAt(k)][o]
        BY <2>5, <3>1, <3>2, <3>4
      <4> QED BY <1>1, <3>1, <4>1, <4>2 DEF Content
    <3> QED BY <3>3, <3>4
  <2>9. ASSUME NEW b \in Blocks, ~Listed(b)' PROVE Empty(b)'
    <3>1. Empty(b) /\ b # tailBlock
      BY <1>1, <1>5, <2>2, <2>3, <2>4, <2>9 DEF Listed
    <3> QED BY <2>5, <3>1 DEF Empty
  <2> QED BY <1>2, <1>4, <2>8, <2>9, ContentsNext
<1>8. CASE ~Write
  <2>1. slots' = slots
    BY <1>8 DEF ProducerStep, InsideBlock, StartBlock, StartWithoutIndex,
       GrowFails, RequisitionFails,
       Requisition, Grow, StoreKey, StoreTail, Rewind, ClearEntry, Install, PublishElement
  <2>2. \A i \in Int : Stored(i)' <=> Stored(i)
    <3>1. CASE PublishElement
      <4>1. tail' = tail + 1 /\ ppc = "publish" /\ ppc' = "idle"
        BY <3>1 DEF PublishElement, Publish
      <4> QED BY <1>4, <4>1 DEF Stored
    <3>2. CASE ~PublishElement
      <4>1. tail' = tail /\ ppc # "publish" /\ ppc' # "publish"
        BY <1>8, <3>2 DEF ProducerStep, InsideBlock, StartBlock, StartWithoutIndex,
           GrowFails, RequisitionFails,
           Requisition, Grow, StoreKey, StoreTail, Rewind, ClearEntry, Install
      <4> QED BY <4>1 DEF Stored
    <3> QED BY <3>1, <3>2
  <2>3. ASSUME NEW k \in Int, Live(k)' PROVE Content(k)'
    <3>1. \A o \in Offsets :
            slots[BlockAt(k)'][o] =
              IF Stored(Key(k) + o) /\ ~Moved(Key(k) + o) THEN Key(k) + o ELSE NoIndex
      <4>1. CASE Live(k)
        BY <1>1, <1>2, <4>1 DEF Content
      <4>2. CASE ~Live(k)
        <5>1. Install /\ k = Newest
          BY <1>2, <2>3, <4>2, InstallKeeps
        <5>2. BlockAt(k)' = newBlock /\ newBlock \in Blocks
          <6>1. BlockAt(k)' = newBlock
            BY <5>1, InstallKeeps
          <6>2. newBlock \in Blocks
            BY <5>1 DEF Install, Owned, TypeOK
          <6> QED BY <6>1, <6>2
        <5>3. Listing(newBlock) = {}
          BY <5>2 DEF Owned
        <5>4. Empty(newBlock)
          BY <1>1, <5>2, <5>3, Unlisted DEF Sound
        <5>5. /\ k = Num(tail) /\ tail % BlockSize = 0 /\ ppc = "install"
          BY <5>1, NewestMoves DEF Install, Sound, Progress
        <5>6. Key(k) = tail
          BY <1>4, <5>5, NextNumber
        <5>7. \A o \in Offsets : ~Stored(Key(k) + o)
          BY <1>4, <5>5, <5>6 DEF Stored, Offsets
        <5> QED BY <5>2, <5>4, <5>7 DEF Empty
      <4> QED BY <4>1, <4>2
    <3>2. \A o \in Offsets :
            slots'[BlockAt(k)'][o] =
              IF Stored(Key(k) + o)' /\ ~Moved(Key(k) + o)' THEN Key(k) + o ELSE NoIndex
      BY <1>3, <1>6, <2>1, <2>2, <3>1
    <3> QED BY <3>2 DEF Content, Key
  <2>4. \A b \in Blocks : ~Listed(b)' => Empty(b)'
    BY <1>1, <1>5, <2>1 DEF Empty
  <2> QED BY <1>2, <1>4, <2>3, <2>4, ContentsNext
<1> QED BY <1>7, <1>8

LEMMA MoveOutMoved ==
  ASSUME TypeOK, Dispensed, NEW c \in Consumers, MoveOut(c)
  PROVE  \A i \in Int : Moved(i)' <=> Moved(i) \/ i = taking[c]
<1>1. /\ head' = head /\ taking' = taking /\ cpc[c] = "move" /\ cpc'[c] = "count"
      /\ \A d \in Consumers \ {c} : cpc'[d] = cpc[d]
  <2>1. ConsumerStep(c) /\ cpc[c] = "move"
    BY ConsumerPlaces DEF ConsumerStep
  <2> QED BY <2>1, ConsumerPlaces, ConsumerMoves
<1>2. taking[c] < head /\ taking[c] # NoIndex
  BY <1>1, OwnNotOut DEF Inside, NoIndex
<1> TAKE i \in Int
<1>3. CASE i = taking[c]
  <2>1. \A d \in Consumers \ {c} : taking[d] # i
    BY <1>2, <1>3 DEF Dispensed
  <2> QED BY <1>1, <1>2, <1>3, <2>1 DEF Moved
<1>4. CASE i # taking[c]
  BY <1>1, <1>4 DEF Moved
<1> QED BY <1>3, <1>4

LEMMA ConsumerContents ==
  ASSUME TypeOK, Sound, Owned, Searching, Dispensed, Counted, Contents,
         NEW c \in Consumers, ConsumerStep(c)
  PROVE  Contents'
<1> DEFINE K == Num(taking[c])
<1>1. /\ \A k \in Int : Live(k) => Content(k)
      /\ \A b \in Blocks : ~Listed(b) => Empty(b)
      /\ NoBlock \notin Blocks
  BY ContentsParts, EntryFacts DEF Sound
<1>2. /\ \A k \in Int : Live(k)' => Live(k) /\ BlockAt(k)' = BlockAt(k)
      /\ \A k \in Int : Live(k) /\ ~(Release(c) /\ k = K) => Live(k)' /\ BlockAt(k)' = BlockAt(k)
      /\ Window' \subseteq Int
  BY ConsumerIndex, WindowFacts DEF Sound
<1>3. tail' = tail /\ ppc' = ppc /\ (~MoveOut(c) => slots' = slots)
  BY ConsumerMoves
<1>4. \A i : Stored(i)' <=> Stored(i)
  BY <1>3 DEF Stored
<1>5. \A k \in Int, o \in Offsets : Key(k) + o \in Int
  <2>1. Offsets \subseteq Int /\ \A k \in Int : Key(k) \in Int
    BY SizesAssumption, Keys DEF Offsets
  <2> QED BY <2>1
<1>6. \A k \in Int : Live(k) => \A o \in Offsets : Key(k) + o \in Nat
  <2> SUFFICES ASSUME NEW k \in Int, Live(k) PROVE \A o \in Offsets : Key(k) + o \in Nat
    OBVIOUS
  <2>1. k >= 0
    BY CountedParts DEF Counts
  <2> QED BY <2>1, OutOfFacts
<1>7. CASE MoveOut(c)
  <2> DEFINE p == taking[c] % BlockSize
             n == taking[c]
             B == block[c]
  <2>1. cpc[c] = "move"
    BY <1>7, ConsumerPlaces
  <2>2. n \in Int /\ K \in Int /\ p \in Offsets /\ n = Key(K) + p
    BY <2>1, OwnNotOut DEF Inside
  <2>3. Live(K) /\ B = BlockAt(K)
    BY <2>1 DEF Searching, Found, Inside
  <2>4. B \in Blocks
    BY <2>2, <2>3, BlocksDiffer DEF Sound
  <2>5. \A b \in Blocks, o \in Offsets :
          slots'[b][o] = IF b = B /\ o = p THEN NoIndex ELSE slots[b][o]
    <3>1. /\ slots \in [Blocks -> [Offsets -> {NoIndex} \cup 0 .. MaxElements]]
          /\ slots' = [slots EXCEPT ![B][p] = NoIndex]
      BY <1>7 DEF TypeOK, MoveOut
    <3> QED BY <2>2, <2>4, <3>1
  <2>6. \A i \in Int : Moved(i)' <=> Moved(i) \/ i = n
    BY <1>7, MoveOutMoved
  <2>7. ~Release(c)
    BY <2>1, ConsumerPlaces
  <2>8. \A k \in Int, o \in Offsets : Num(Key(k) + o) = k /\ (Key(k) + o) % BlockSize = o
    BY NumberUnique
  <2> HIDE DEF p, n, B
  <2>9. ASSUME NEW k \in Int, Live(k)' PROVE Content(k)'
    <3>1. Live(k) /\ BlockAt(k)' = BlockAt(k) /\ BlockAt(k) \in Blocks
          /\ (BlockAt(k) = B => k = K)
      <4>1. Live(k) /\ BlockAt(k)' = BlockAt(k)
        BY <1>2, <2>9
      <4> QED BY <2>2, <2>3, <4>1, BlocksDiffer DEF Sound
    <3> SUFFICES ASSUME NEW o \in Offsets, NEW i \in {Key(k) + o}
                 PROVE  slots'[BlockAt(k)][o] =
                          IF Stored(i) /\ ~(Moved(i) \/ i = n) THEN i ELSE NoIndex
      <4>1. \A o \in Offsets :
              slots'[BlockAt(k)'][o] =
                IF Stored(Key(k) + o)' /\ ~Moved(Key(k) + o)' THEN Key(k) + o ELSE NoIndex
        BY <1>4, <1>5, <2>6, <3>1
      <4> QED BY <4>1 DEF Content, Key
    <3>2. CASE i = n
      <4>1. k = K /\ o = p
        BY <2>8, <3>2 DEF n, p
      <4> QED BY <2>3, <2>4, <2>5, <3>2, <4>1
    <3>3. CASE i # n
      <4>1. ~(k = K /\ o = p)
        BY <2>2, <3>3
      <4>2. slots'[BlockAt(k)][o] = slots[BlockAt(k)][o]
        BY <2>5, <3>1, <4>1
      <4> QED BY <1>1, <3>1, <3>3, <4>2 DEF Content
    <3> QED BY <3>2, <3>3
  <2>10. ASSUME NEW b \in Blocks, ~Listed(b)' PROVE Empty(b)'
    <3>1. ~Listed(b)
      BY <1>2, <2>7, <2>10 DEF Listed
    <3> QED BY <1>1, <2>5, <3>1 DEF Empty
  <2> QED BY <1>1, <1>2, <2>9, <2>10, ContentsNext
<1>8. CASE ~MoveOut(c)
  <2>1. \A i \in Nat : Moved(i)' <=> Moved(i)
    BY <1>8, OutKept DEF MovedSame
  <2>2. slots' = slots
    BY <1>3, <1>8
  <2>3. ASSUME NEW k \in Int, Live(k)' PROVE Content(k)'
    <3>1. Live(k) /\ BlockAt(k)' = BlockAt(k) /\ Content(k)
      BY <1>1, <1>2, <2>3
    <3>2. \A o \in Offsets :
            slots'[BlockAt(k)'][o] =
              IF Stored(Key(k) + o)' /\ ~Moved(Key(k) + o)' THEN Key(k) + o ELSE NoIndex
      BY <1>4, <1>6, <2>1, <2>2, <3>1 DEF Content
    <3> QED BY <3>2 DEF Content, Key
  <2>4. ASSUME NEW b \in Blocks, ~Listed(b)' PROVE Empty(b)'
    <3>1. CASE ~Listed(b)
      BY <1>1, <2>2, <3>1 DEF Empty
    <3>2. CASE Listed(b)
      <4>1. PICK k \in Int : Live(k) /\ BlockAt(k) = b
        BY <3>2 DEF Listed
      <4>2. Release(c) /\ k = K
        BY <1>2, <2>4, <4>1 DEF Listed
      <4>3. OutOf(k) = Offsets
        BY <4>2, ConsumerPlaces DEF Counted
      <4>4. \A o \in Offsets : Moved(Key(k) + o)
        <5>1. \A o \in Offsets : Out(Key(k) + o)
          BY <4>3 DEF OutOf
        <5> QED BY <5>1 DEF Out, Moved
      <4> QED BY <1>1, <2>2, <4>1, <4>4 DEF Content, Empty
    <3> QED BY <3>1, <3>2
  <2> QED BY <1>1, <1>2, <2>3, <2>4, ContentsNext
<1> QED BY <1>7, <1>8

(***************************************************************************)
(* Where the blocks are.                                                   *)
(***************************************************************************)
Single(b) ==
  /\ b \in pool => b \notin heap \cup free /\ b # newBlock
  /\ b \in heap => b \notin free /\ b # newBlock
  /\ b \in free => b # newBlock
  /\ b \in pool \cup heap \cup free \cup {newBlock} => Listing(b) = {} /\ Adding(b) = {}
  /\ Listing(b) # {} => Adding(b) = {}
  /\ \A e, f \in Listing(b) : e = f
  /\ \A c, d \in Adding(b) : c = d
  /\ \/ b \in pool \cup heap \cup free \cup {newBlock}
     \/ Listing(b) # {}
     \/ Adding(b) # {}

LEMMA OwnedSame ==
  ASSUME Owned, UNCHANGED <<pool, heap, free, newBlock>>, ppc' = "install" <=> ppc = "install",
         \A b \in Blocks : Listing(b)' = Listing(b) /\ Adding(b)' = Adding(b),
         \A c \in Consumers : cpc'[c] = "add" => block'[c] # NoBlock
  PROVE  Owned'
<1>1. \A b \in Blocks : Single(b)
  BY DEF Owned, Single
<1>2. \A b \in Blocks : Single(b)'
  BY <1>1 DEF Single
<1> QED BY <1>2 DEF Owned, Single

(* The blocks in the entries, when their values stay. *)
LEMMA ListingSame ==
  ASSUME NEW b, DOMAIN entries' = DOMAIN entries,
         \A e \in DOMAIN entries : entries'[e].value = entries[e].value
  PROVE  Listing(b)' = Listing(b)
  BY DEF Listing

LEMMA ProducerOwned ==
  ASSUME TypeOK, Sound, Owned, ProducerStep
  PROVE  Owned'
<1> USE DEF dispenser, memory, index, producer, consumers, PGoto
<1>1. /\ \A b \in Blocks : Single(b)
      /\ newBlock # NoBlock <=> ppc = "install"
      /\ \A c \in Consumers : cpc[c] = "add" => block[c] # NoBlock
      /\ cpc' = cpc /\ block' = block
  BY ProducerMoves DEF Owned, Single
<1>2. /\ \A b : Adding(b)' = Adding(b)
      /\ \A c \in Consumers : cpc'[c] = "add" => block'[c] # NoBlock
  BY <1>1 DEF Adding
<1>3. /\ Indexed /\ Progress /\ NoBlock \notin Blocks
      /\ \A b \in Blocks : b # NoBlock /\ b # Uninit
  BY EntryFacts DEF Sound
<1>4. CASE InsideBlock \/ StartBlock \/ GrowFails \/ StoreTail \/ RequisitionFails \/ Rewind
           \/ Write \/ PublishElement
  <2>1. /\ entries' = entries /\ UNCHANGED <<pool, heap, free, newBlock>>
        /\ ppc # "install" /\ ppc' # "install"
    BY <1>4 DEF InsideBlock, StartBlock, GrowFails, StoreTail, RequisitionFails, Rewind,
       Write, PublishElement
  <2>2. \A b \in Blocks : Listing(b)' = Listing(b)
    BY <2>1 DEF Listing
  <2> QED BY <1>2, <2>1, <2>2, OwnedSame
<1>5. CASE Grow
  <2>1. /\ UNCHANGED <<pool, heap, free, newBlock>> /\ ppc # "install" /\ ppc' # "install"
    BY <1>5 DEF Grow
  <2>2. /\ DOMAIN entries = 1 .. Capacity /\ DOMAIN entries' = 1 .. 2 * Capacity
        /\ \A e \in 1 .. Capacity : entries'[e] = entries[e]
        /\ \A e \in Capacity + 1 .. 2 * Capacity : entries'[e] = InvalidEntry
        /\ Capacity \in Nat
    BY <1>3, <1>5, GrowIndices, WindowFacts
  <2>3. ASSUME NEW b \in Blocks PROVE Listing(b)' = Listing(b)
    <3>1. \A e \in DOMAIN entries' : entries'[e].value = b <=>
            e \in DOMAIN entries /\ entries[e].value = b
      <4>1. \A e \in DOMAIN entries' : e \notin DOMAIN entries => e \in Capacity + 1 .. 2 * Capacity
        BY <2>2
      <4>2. InvalidEntry.value # b
        BY <1>3 DEF InvalidEntry
      <4> QED BY <2>2, <4>1, <4>2
    <3>2. DOMAIN entries \subseteq DOMAIN entries'
      BY <2>2
    <3> QED BY <3>1, <3>2 DEF Listing
  <2> QED BY <1>2, <2>1, <2>3, OwnedSame
<1>6. CASE StoreKey \/ ClearEntry
  <2>1. /\ UNCHANGED <<pool, heap, free, newBlock>> /\ ppc # "install" /\ ppc' # "install"
    BY <1>6 DEF StoreKey, ClearEntry
  <2>2. ASSUME StoreKey, NEW b \in Blocks PROVE Listing(b)' = Listing(b)
    <3>1. tail \in Nat /\ NextEntry \in DOMAIN entries
      BY <1>3, LinkedEntry, MaxElementsAssumption DEF TypeOK
    <3>2. /\ DOMAIN entries' = DOMAIN entries
          /\ \A e \in DOMAIN entries : entries'[e].value = entries[e].value
      BY <1>3, <2>2, <3>1, KeyStored DEF StoreKey
    <3> QED BY <3>2, ListingSame
  <2>3. \A b \in Blocks : Listing(b)' = Listing(b)
    BY <1>6, <2>2, ClearEntryKeeps
  <2> QED BY <1>2, <2>1, <2>3, OwnedSame
<1>7. ASSUME NEW x \in Blocks, Requisition(x) PROVE Owned'
  <2>1. /\ x \in pool \cup heap \cup free /\ entries' = entries
        /\ pool' = pool \ {x} /\ heap' = heap \ {x} /\ free' = free \ {x}
        /\ newBlock' = x /\ newBlock = NoBlock /\ ppc' = "install"
    BY <1>1, <1>7 DEF Requisition, Spares
  <2>2. \A b : Listing(b)' = Listing(b)
    BY <2>1 DEF Listing
  <2>3. ASSUME NEW b \in Blocks PROVE Single(b)'
    <3>1. Single(b)
      BY <1>1
    <3>2. CASE b = x
      BY <1>2, <2>1, <2>2, <3>1, <3>2 DEF Single
    <3>3. CASE b # x
      <4>1. /\ (b \in pool' <=> b \in pool) /\ (b \in heap' <=> b \in heap)
            /\ (b \in free' <=> b \in free) /\ b # newBlock /\ b # newBlock'
        BY <1>3, <2>1, <3>3
      <4> QED BY <1>2, <2>2, <3>1, <4>1 DEF Single
    <3> QED BY <3>2, <3>3
  <2>4. newBlock' # NoBlock <=> ppc' = "install"
    BY <1>3, <2>1
  <2> QED BY <1>2, <2>3, <2>4 DEF Owned, Single
<1>8. CASE Install
  <2>1. /\ UNCHANGED <<pool, heap, free>> /\ newBlock' = NoBlock /\ ppc = "install"
        /\ ppc' = "write" /\ newBlock \in Blocks
    BY <1>1, <1>8 DEF Install, TypeOK
  <2>2. TailEntry = Slot(Newest) /\ TailEntry \in DOMAIN entries
    BY <1>3, WindowFacts, SlotFacts
  <2>3. entries[TailEntry].value \notin Blocks
    BY <1>3, <2>1, <2>2 DEF Progress, BlockAt
  <2>4. /\ DOMAIN entries' = DOMAIN entries
        /\ \A e \in DOMAIN entries : e # TailEntry => entries'[e].value = entries[e].value
        /\ entries'[TailEntry].value = newBlock
    <3>1. entries' = [entries EXCEPT ![TailEntry].value = newBlock]
      BY <1>8 DEF Install
    <3> QED BY <1>3, <2>1, <2>2, <3>1, ValueStored
  <2>5. \A b \in Blocks :
          Listing(b)' = IF b = newBlock THEN Listing(b) \cup {TailEntry} ELSE Listing(b)
    BY <1>3, <2>2, <2>3, <2>4 DEF Listing
  <2>6. ASSUME NEW b \in Blocks PROVE Single(b)'
    <3>1. Single(b)
      BY <1>1
    <3>2. CASE b = newBlock
      <4>1. Listing(b)' = {TailEntry} /\ Adding(b) = {} /\ b \notin pool \cup heap \cup free
        BY <2>5, <3>1, <3>2 DEF Single
      <4> QED BY <1>2, <1>3, <2>1, <4>1 DEF Single
    <3>3. CASE b # newBlock
      <4>1. Listing(b)' = Listing(b) /\ b # newBlock'
        BY <1>3, <2>1, <2>5, <3>3
      <4> QED BY <1>2, <2>1, <3>1, <3>3, <4>1 DEF Single
    <3> QED BY <3>2, <3>3
  <2> QED BY <1>2, <2>1, <2>6 DEF Owned, Single
<1> QED BY <1>3, <1>4, <1>5, <1>6, <1>7, <1>8, NotWithoutIndex DEF ProducerStep

LEMMA ConsumerOwned ==
  ASSUME TypeOK, Sound, Owned, Searching, NEW c \in Consumers, ConsumerStep(c)
  PROVE  Owned'
<1> USE DEF dispenser, memory, index, producer, consumers, CGoto
<1>1. /\ \A b \in Blocks : Single(b)
      /\ newBlock # NoBlock <=> ppc = "install"
      /\ \A d \in Consumers : cpc[d] = "add" => block[d] # NoBlock
      /\ \A d \in Consumers \ {c} : cpc'[d] = cpc[d] /\ block'[d] = block[d]
      /\ UNCHANGED <<ppc, newBlock, pool, heap>>
      /\ ~Release(c) => entries' = entries
      /\ ~AddToFreeList(c) => free' = free
  BY ConsumerMoves DEF Owned, Single
<1>2. Indexed /\ NoBlock \notin Blocks
  BY EntryFacts DEF Sound
<1>3. CASE ~Release(c) /\ ~AddToFreeList(c)
  <2>1. cpc[c] # "add" /\ cpc'[c] # "add"
    BY <1>3, ConsumerPlaces DEF ConsumerStep
  <2>2. \A b : Adding(b)' = Adding(b) /\ Listing(b)' = Listing(b)
    BY <1>1, <1>3, <2>1 DEF Adding, Listing
  <2>3. \A d \in Consumers : cpc'[d] = "add" => block'[d] # NoBlock
    BY <1>1, <2>1
  <2> QED BY <1>1, <1>3, <2>2, <2>3, OwnedSame
<1>4. CASE Release(c)
  <2> DEFINE K == Num(taking[c])
             x == block[c]
             s == Slot(K)
  <2>1. cpc[c] = "release" /\ cpc'[c] = "add" /\ block' = block
    BY <1>4, ConsumerPlaces
  <2>2. Live(K) /\ at[c].entry = s /\ x = BlockAt(K) /\ K \in Int
    BY <1>4, ConsumerIndex
  <2>3. x \in Blocks /\ s \in Listing(x)
    BY <2>2, BlocksDiffer DEF Sound
  <2>4. s \in DOMAIN entries
    BY <2>3 DEF Listing
  <2>5. entries' = [entries EXCEPT ![s].value = NoBlock]
    BY <1>4, <2>2 DEF Release, EntryCleared
  <2>6. free' = free
    BY <1>1, <2>1, ConsumerPlaces
  <2> HIDE DEF K, x, s
  <2>7. /\ DOMAIN entries' = DOMAIN entries
        /\ \A e \in DOMAIN entries : e # s => entries'[e].value = entries[e].value
        /\ entries'[s].value = NoBlock
    BY <1>2, <2>4, <2>5, ValueStored
  <2>8. \A b \in Blocks : Listing(b)' = Listing(b) \ {s}
    BY <1>2, <2>7 DEF Listing
  <2>9. \A b \in Blocks : b # x => s \notin Listing(b)
    BY <2>3 DEF Listing
  <2>10. \A b \in Blocks : Adding(b)' = IF b = x THEN Adding(b) \cup {c} ELSE Adding(b)
    BY <1>1, <2>1 DEF Adding, x
  <2>11. ASSUME NEW b \in Blocks PROVE Single(b)'
    <3>1. Single(b)
      BY <1>1
    <3>2. CASE b = x
      <4>1. /\ Listing(b)' = {} /\ Adding(b)' = {c}
            /\ b \notin pool \cup heap \cup free \cup {newBlock}
        BY <2>3, <2>8, <2>10, <3>1, <3>2 DEF Single
      <4> QED BY <1>1, <2>6, <4>1 DEF Single
    <3>3. CASE b # x
      <4>1. Listing(b)' = Listing(b) /\ Adding(b)' = Adding(b)
        BY <2>8, <2>9, <2>10, <3>3
      <4> QED BY <1>1, <2>6, <3>1, <4>1 DEF Single
    <3> QED BY <3>2, <3>3
  <2>12. \A d \in Consumers : cpc'[d] = "add" => block'[d] # NoBlock
    BY <1>1, <1>2, <2>1, <2>3 DEF x
  <2> QED BY <1>1, <2>11, <2>12 DEF Owned, Single
<1>5. CASE AddToFreeList(c)
  <2> DEFINE x == block[c]
  <2>1. cpc[c] = "add" /\ cpc'[c] = "idle" /\ free' = free \cup {x}
    BY <1>5, ConsumerPlaces DEF AddToFreeList
  <2>2. x \in Blocks /\ c \in Adding(x)
    BY <1>1, <2>1 DEF TypeOK, Adding
  <2>3. entries' = entries
    BY <1>1, <2>1, ConsumerPlaces
  <2> HIDE DEF x
  <2>4. \A b \in Blocks : Listing(b)' = Listing(b) /\ Adding(b)' = Adding(b) \ {c}
    BY <1>1, <2>1, <2>3 DEF Listing, Adding
  <2>5. \A b \in Blocks : b # x => c \notin Adding(b)
    BY <2>2 DEF Adding
  <2>6. ASSUME NEW b \in Blocks PROVE Single(b)'
    <3>1. Single(b)
      BY <1>1
    <3>2. CASE b = x
      <4>1. /\ Listing(b)' = {} /\ Adding(b)' = {}
            /\ b \notin pool \cup heap \cup free \cup {newBlock}
        BY <2>2, <2>4, <3>1, <3>2 DEF Single
      <4> QED BY <1>1, <2>1, <3>2, <4>1 DEF Single
    <3>3. CASE b # x
      <4>1. Listing(b)' = Listing(b) /\ Adding(b)' = Adding(b) /\ (b \in free' <=> b \in free)
        BY <2>1, <2>4, <2>5, <3>3
      <4> QED BY <1>1, <3>1, <4>1 DEF Single
    <3> QED BY <3>2, <3>3
  <2>7. \A d \in Consumers : cpc'[d] = "add" => block'[d] # NoBlock
    BY <1>1, <2>1
  <2> QED BY <1>1, <2>6, <2>7 DEF Owned, Single
<1> QED BY <1>3, <1>4, <1>5

(***************************************************************************)
(* Types.                                                                  *)
(***************************************************************************)
HeadersOK ==
  /\ Len(indices) \in 0 .. MaxIndices
  /\ \A h \in DOMAIN indices :
       /\ indices[h].tail \in 0 .. indices[h].capacity - 1
       /\ indices[h].index \in [0 .. indices[h].capacity - 1 -> DOMAIN entries]
EntriesOK == entries \in Seq([key : Nat, value : Blocks \cup {NoBlock, Uninit}])

LEMMA ProducerHeaders ==
  ASSUME TypeOK, Sound, ProducerStep
  PROVE  HeadersOK' /\ EntriesOK'
<1> USE DEF dispenser, memory, index, producer, consumers, PGoto
<1>1. HeadersOK /\ EntriesOK /\ Indexed /\ Progress
  BY DEF TypeOK, HeadersOK, EntriesOK, Sound
<1>2. /\ NextEntry \in DOMAIN entries /\ TailEntry \in DOMAIN entries
  <2>1. Newest + 1 \in Int /\ Newest \in Int
    BY <1>1, WindowFacts
  <2> QED BY <1>1, <2>1, SlotFacts
<1>3. CASE InsideBlock \/ StartBlock \/ GrowFails \/ RequisitionFails \/ Write \/ PublishElement
           \/ \E b \in Blocks : Requisition(b)
  <2>1. indices' = indices /\ entries' = entries
    BY <1>3 DEF InsideBlock, StartBlock, GrowFails, RequisitionFails, Write, PublishElement,
       Requisition
  <2> QED BY <1>1, <2>1 DEF HeadersOK, EntriesOK
<1>4. CASE StoreKey \/ ClearEntry \/ Install
  <2>1. indices' = indices
    BY <1>4 DEF StoreKey, ClearEntry, Install
  <2>2. DOMAIN entries' = DOMAIN entries /\ EntriesOK'
    <3>1. CASE StoreKey
      <4>1. tail \in Nat /\ entries' = [entries EXCEPT ![NextEntry].key = tail]
        BY <3>1, MaxElementsAssumption DEF TypeOK, StoreKey
      <4> QED BY <1>1, <1>2, <4>1, KeyStored DEF EntriesOK
    <3>2. CASE ClearEntry
      <4>1. entries' = [entries EXCEPT ![NextEntry].value = NoBlock]
        BY <3>2 DEF ClearEntry, ValueCleared
      <4> QED BY <1>1, <1>2, <4>1, ValueStored DEF EntriesOK
    <3>3. CASE Install
      <4>1. entries' = [entries EXCEPT ![TailEntry].value = newBlock]
        BY <3>3 DEF Install
      <4>2. newBlock \in Blocks \cup {NoBlock}
        BY DEF TypeOK
      <4> QED BY <1>1, <1>2, <4>1, <4>2, ValueStored DEF EntriesOK
    <3> QED BY <1>4, <3>1, <3>2, <3>3
  <2> QED BY <1>1, <2>1, <2>2 DEF HeadersOK
<1>5. CASE StoreTail \/ Rewind
  <2>1. PICK t \in 0 .. Capacity - 1 :
          indices' = [indices EXCEPT ![Len(indices)].tail = t] /\ entries' = entries
    <3>1. CASE StoreTail
      BY <1>1, <3>1, HeaderFacts DEF StoreTail
    <3>2. CASE Rewind
      <4> DEFINE t == (Current.tail + Current.capacity - 1) % Current.capacity
      <4>1. Current.tail + Current.capacity - 1 \in Int /\ Current.capacity \in Nat \ {0}
        BY <1>1, HeaderFacts DEF Capacity
      <4>2. t \in 0 .. Capacity - 1
        BY <4>1, IntegerDivision DEF Capacity
      <4>3. indices' = [indices EXCEPT ![Len(indices)].tail = t] /\ entries' = entries
        BY <3>2 DEF Rewind
      <4> QED BY <4>2, <4>3
    <3> QED BY <1>5, <3>1, <3>2
  <2>2. /\ Len(indices') = Len(indices) /\ SameIndices /\ Capacity' = Capacity
        /\ Current'.tail = t
    BY <1>1, <2>1, TailStored
  <2>3. ASSUME NEW h \in DOMAIN indices'
        PROVE  /\ indices'[h].tail \in 0 .. indices'[h].capacity - 1
               /\ indices'[h].index \in [0 .. indices'[h].capacity - 1 -> DOMAIN entries]
    <3>1. h \in DOMAIN indices /\ indices'[h].capacity = indices[h].capacity
          /\ indices'[h].index = indices[h].index
      BY <2>2, <2>3 DEF SameIndices
    <3>2. CASE h = Len(indices)
      <4>1. indices'[h].tail = t /\ indices[h].capacity = Capacity
        BY <2>2, <3>2 DEF Current, Capacity
      <4> QED BY <1>1, <2>1, <3>1, <4>1 DEF HeadersOK
    <3>3. CASE h # Len(indices)
      <4>1. indices'[h].tail = indices[h].tail
        BY <2>2, <3>1, <3>3 DEF SameIndices
      <4> QED BY <1>1, <3>1, <4>1 DEF HeadersOK
    <3> QED BY <3>2, <3>3
  <2> QED BY <1>1, <2>1, <2>2, <2>3 DEF HeadersOK, EntriesOK
<1>6. CASE Grow
  <2>1. /\ Len(indices') = Len(indices) + 1
        /\ \A h \in DOMAIN indices : indices'[h] = indices[h]
        /\ Capacity' = 2 * Capacity /\ Current'.tail = Capacity - 1
        /\ DOMAIN entries = 1 .. Capacity /\ DOMAIN entries' = 1 .. 2 * Capacity
        /\ indices' \in Seq(Header)
    BY <1>1, <1>6, GrowIndices
  <2>2. /\ Capacity \in Nat \ {0} /\ Len(indices) \in Nat /\ DOMAIN indices = 1 .. Len(indices)
        /\ Current.tail \in 0 .. Capacity - 1
        /\ Current.index \in [0 .. Capacity - 1 -> DOMAIN entries]
    BY <1>1, HeaderFacts
  <2>3. Len(indices') \in 0 .. MaxIndices
    <3>1. Len(indices) < MaxIndices /\ MaxIndices \in Nat
      BY <1>6, SizesAssumption DEF Grow
    <3> QED BY <2>1, <2>2, <3>1
  <2>4. Current'.index \in [0 .. 2 * Capacity - 1 -> DOMAIN entries']
    <3> DEFINE C == Capacity
               X == Current.index
               F(i) == (Current.tail + 1 + i) % C
    <3>1. Current'.index = [i \in 0 .. 2 * C - 1 |-> IF i < C THEN X[F(i)] ELSE i + 1]
      BY <1>1, <1>6, GrowIndices
    <3>2. \A i \in 0 .. 2 * C - 1 : F(i) \in 0 .. C - 1
      <4> TAKE i \in 0 .. 2 * C - 1
      <4>1. Current.tail + 1 + i \in Int
        BY <2>2
      <4> QED BY <2>2, <4>1, IntegerDivision
    <3>3. \A i \in 0 .. 2 * C - 1 : X[F(i)] \in 1 .. C
      BY <2>1, <2>2, <3>2
    <3>4. /\ 1 .. C \subseteq 1 .. 2 * C
          /\ \A i \in 0 .. 2 * C - 1 : i + 1 \in 1 .. 2 * C
      BY <2>2
    <3> HIDE DEF C, X, F
    <3>5. \A i \in 0 .. 2 * C - 1 : (IF i < C THEN X[F(i)] ELSE i + 1) \in 1 .. 2 * C
      BY <3>3, <3>4
    <3>6. Current'.index \in [0 .. 2 * C - 1 -> 1 .. 2 * C]
      BY <3>1, <3>5
    <3> QED BY <2>1, <3>6 DEF C
  <2>5. ASSUME NEW h \in DOMAIN indices'
        PROVE  /\ indices'[h].tail \in 0 .. indices'[h].capacity - 1
               /\ indices'[h].index \in [0 .. indices'[h].capacity - 1 -> DOMAIN entries']
    <3>1. h \in 1 .. Len(indices) + 1
      BY <2>1, <2>2, <2>5
    <3>2. CASE h \in DOMAIN indices
      <4>1. /\ indices[h].tail \in 0 .. indices[h].capacity - 1
            /\ indices[h].index \in [0 .. indices[h].capacity - 1 -> DOMAIN entries]
        BY <1>1, <3>2 DEF HeadersOK
      <4>2. DOMAIN entries \subseteq DOMAIN entries'
        BY <2>1, <2>2
      <4>3. indices[h].index \in [0 .. indices[h].capacity - 1 -> DOMAIN entries']
        BY <4>1, <4>2
      <4> QED BY <2>1, <3>2, <4>1, <4>3
    <3>3. CASE h \notin DOMAIN indices
      <4>1. indices'[h] = Current'
        BY <2>1, <2>2, <3>1, <3>3 DEF Current
      <4>2. indices'[h].capacity = 2 * Capacity
        BY <2>1, <4>1 DEF Capacity
      <4>3. Capacity - 1 \in 0 .. 2 * Capacity - 1
        BY <2>2
      <4> QED BY <2>1, <2>4, <4>1, <4>2, <4>3
    <3> QED BY <3>2, <3>3
  <2>6. EntriesOK'
    BY <1>6, GrowKeeps DEF EntriesOK
  <2> QED BY <2>3, <2>5, <2>6 DEF HeadersOK
<1>7. ~StartWithoutIndex
  BY <1>1, NotWithoutIndex
<1> QED BY <1>3, <1>4, <1>5, <1>6, <1>7 DEF ProducerStep

LEMMA ProducerTypes ==
  ASSUME TypeOK, Sound, Owned, Dispensed, ProducerStep
  PROVE  TypeOK'
<1> USE DEF dispenser, memory, index, producer, consumers, PGoto
<1>1. HeadersOK' /\ EntriesOK'
  BY ProducerHeaders
<1>2. UNCHANGED <<cpc, at, block, head, taking, freed>>
  BY ProducerMoves
<1>3. tail' \in 0 .. MaxElements
  <2>1. CASE PublishElement
    BY <2>1, MaxElementsAssumption DEF TypeOK, PublishElement, Publish
  <2>2. CASE ~PublishElement
    <3>1. tail' = tail
      BY <2>2 DEF ProducerStep, InsideBlock, StartBlock, StartWithoutIndex,
         Grow, GrowFails, StoreKey, StoreTail,
         Requisition, RequisitionFails, Rewind, ClearEntry, Install, Write
    <3> QED BY <3>1 DEF TypeOK
  <2> QED BY <2>1, <2>2
<1>4. slots' \in [Blocks -> [Offsets -> {NoIndex} \cup 0 .. MaxElements]]
  <2>1. CASE Write
    <3> DEFINE V == {NoIndex} \cup 0 .. MaxElements
    <3>1. slots \in [Blocks -> [Offsets -> V]] /\ tail \in V
          /\ slots' = [slots EXCEPT ![tailBlock][tail % BlockSize] = tail]
      BY <2>1 DEF TypeOK, Write
    <3> HIDE DEF V
    <3>2. slots' \in [Blocks -> [Offsets -> V]]
      BY <3>1
    <3> QED BY <3>2 DEF V
  <2>2. CASE ~Write
    <3>1. slots' = slots
      BY <2>2 DEF ProducerStep, InsideBlock, StartBlock, StartWithoutIndex,
         Grow, GrowFails, StoreKey, StoreTail,
         Requisition, RequisitionFails, Rewind, ClearEntry, Install, PublishElement
    <3> QED BY <3>1 DEF TypeOK
  <2> QED BY <2>1, <2>2
<1>5. emptied' \in [Blocks -> 0 .. BlockSize]
  <2>1. CASE Install
    <3>1. emptied \in [Blocks -> 0 .. BlockSize] /\ 0 \in 0 .. BlockSize
          /\ emptied' = [emptied EXCEPT ![newBlock] = 0]
      BY <2>1, SizesAssumption DEF TypeOK, Install, ResetEmpty
    <3> QED BY <3>1
  <2>2. CASE ~Install
    <3>1. emptied' = emptied
      BY <2>2 DEF ProducerStep, InsideBlock, StartBlock, StartWithoutIndex,
         Grow, GrowFails, StoreKey, StoreTail,
         Requisition, RequisitionFails, Rewind, ClearEntry, Write, PublishElement
    <3> QED BY <3>1 DEF TypeOK
  <2> QED BY <2>1, <2>2
<1>6. /\ pool' \subseteq PoolBlocks /\ heap' \subseteq HeapBlocks /\ free' \subseteq Blocks
      /\ tailBlock' \in Blocks \cup {NoBlock} /\ newBlock' \in Blocks \cup {NoBlock}
  <2>1. ASSUME NEW b \in Blocks, Requisition(b)
        PROVE  /\ pool' \subseteq PoolBlocks /\ heap' \subseteq HeapBlocks /\ free' \subseteq Blocks
               /\ tailBlock' \in Blocks \cup {NoBlock} /\ newBlock' \in Blocks \cup {NoBlock}
    BY <2>1 DEF TypeOK, Requisition
  <2>2. CASE Install
    BY <2>2 DEF TypeOK, Install
  <2>3. CASE ~Install /\ ~\E b \in Blocks : Requisition(b)
    <3>1. UNCHANGED <<pool, heap, free, tailBlock, newBlock>>
      BY <2>3 DEF ProducerStep, InsideBlock, StartBlock, StartWithoutIndex,
         Grow, GrowFails, StoreKey, StoreTail,
         RequisitionFails, Rewind, ClearEntry, Write, PublishElement
    <3> QED BY <3>1 DEF TypeOK
  <2> QED BY <2>1, <2>2, <2>3
<1>7. ppc' \in ProducerStates
  BY DEF ProducerStep, InsideBlock, StartBlock, StartWithoutIndex,
     Grow, GrowFails, StoreKey, StoreTail,
     Requisition, RequisitionFails, Rewind, ClearEntry, Install, Write, PublishElement,
     ProducerStates
<1> QED BY <1>1, <1>2, <1>3, <1>4, <1>5, <1>6, <1>7 DEF TypeOK, HeadersOK, EntriesOK

LEMMA ConsumerTypes ==
  ASSUME TypeOK, Sound, Owned, Searching, Dispensed, Counted, NEW c \in Consumers, ConsumerStep(c)
  PROVE  TypeOK'
<1> USE DEF dispenser, memory, index, producer, consumers, CGoto
<1>1. /\ UNCHANGED <<tail, tailBlock, ppc, newBlock, indices, pool, heap, freed>>
      /\ ~ClaimIndex(c) => head' = head
      /\ ~Release(c) => entries' = entries
      /\ ~MoveOut(c) => slots' = slots
      /\ ~SetEmpty(c) => emptied' = emptied
      /\ ~AddToFreeList(c) => free' = free
  BY ConsumerMoves
<1>2. /\ Indexed /\ DOMAIN entries = 1 .. Len(entries) /\ DOMAIN entries \subseteq Nat
      /\ HeadersOK /\ EntriesOK
  <2>1. Indexed /\ HeadersOK /\ EntriesOK
    BY DEF Sound, TypeOK, HeadersOK, EntriesOK
  <2>2. DOMAIN entries = 1 .. Len(entries)
    BY <2>1, EntryFacts
  <2> QED BY <2>1, <2>2
<1>3. DOMAIN entries' = DOMAIN entries /\ EntriesOK'
  <2>1. CASE Release(c)
    <3>1. at[c].entry = Slot(Num(taking[c])) /\ Num(taking[c]) \in Int
      BY <2>1, ConsumerIndex
    <3>2. at[c].entry \in DOMAIN entries
      BY <1>2, <3>1, SlotFacts
    <3>3. entries' = [entries EXCEPT ![at[c].entry].value = NoBlock]
      BY <2>1 DEF Release, EntryCleared
    <3> QED BY <1>2, <3>2, <3>3, ValueStored, ZenonT(60) DEF EntriesOK
  <2>2. CASE ~Release(c)
    BY <1>1, <1>2, <2>2 DEF EntriesOK
  <2> QED BY <2>1, <2>2
<1>4. HeadersOK'
  BY <1>1, <1>2, <1>3 DEF HeadersOK
<1>5. head' \in 0 .. MaxElements /\ taking' \in [Consumers -> {NoIndex} \cup 0 .. MaxElements]
  <2>1. /\ head \in 0 .. MaxElements /\ tail \in 0 .. MaxElements /\ MaxElements \in Nat
        /\ taking \in [Consumers -> {NoIndex} \cup 0 .. MaxElements]
    BY MaxElementsAssumption DEF TypeOK
  <2>2. CASE ClaimIndex(c)
    BY <2>1, <2>2 DEF ClaimIndex, Give
  <2>3. CASE ~ClaimIndex(c)
    <3>1. taking' = taking \/ taking' = [taking EXCEPT ![c] = NoIndex]
      BY <2>3 DEF ConsumerStep, LoadIndex, LoadIndexTail, FindEntry, LoadBlock, MoveOut, SetEmpty,
         Release, AddToFreeList, Finish
    <3> QED BY <1>1, <2>1, <2>3, <3>1
  <2> QED BY <2>2, <2>3
<1>6. slots' \in [Blocks -> [Offsets -> {NoIndex} \cup 0 .. MaxElements]]
  <2>1. CASE MoveOut(c)
    <3> DEFINE V == {NoIndex} \cup 0 .. MaxElements
    <3>1. slots \in [Blocks -> [Offsets -> V]] /\ NoIndex \in V
          /\ slots' = [slots EXCEPT ![block[c]][taking[c] % BlockSize] = NoIndex]
      BY <2>1 DEF TypeOK, MoveOut
    <3> HIDE DEF V
    <3>2. slots' \in [Blocks -> [Offsets -> V]]
      BY <3>1
    <3> QED BY <3>2 DEF V
  <2>2. CASE ~MoveOut(c)
    BY <1>1, <2>2 DEF TypeOK
  <2> QED BY <2>1, <2>2
<1>7. emptied' \in [Blocks -> 0 .. BlockSize]
  <2>1. CASE SetEmpty(c)
    <3>1. emptied \in [Blocks -> 0 .. BlockSize] /\ BlockSize \in Nat
          /\ emptied' = [emptied EXCEPT ![block[c]] = @ + 1]
      BY <2>1, SizesAssumption DEF TypeOK, SetEmpty
    <3>2. emptied[block[c]] + 1 <= BlockSize /\ block[c] \in Blocks
      <4>1. \A K \in {Num(taking[c])} : \A o \in {taking[c] % BlockSize} :
              emptied[BlockAt(K)] + 1 <= BlockSize /\ Live(K) /\ block[c] = BlockAt(K)
        BY <2>1, SetEmptyCounts
      <4>2. \A K \in {Num(taking[c])} :
              emptied[BlockAt(K)] + 1 <= BlockSize /\ Live(K) /\ block[c] = BlockAt(K)
        BY <4>1
      <4> QED BY <4>2, NumberOfTaking, BlocksDiffer DEF Sound
    <3>3. emptied[block[c]] + 1 \in 0 .. BlockSize
      BY <3>1, <3>2
    <3> QED BY <3>1, <3>3
  <2>2. CASE ~SetEmpty(c)
    BY <1>1, <2>2 DEF TypeOK
  <2> QED BY <2>1, <2>2
<1>8. free' \subseteq Blocks
  <2>1. CASE AddToFreeList(c)
    <3>1. free' = free \cup {block[c]} /\ block[c] # NoBlock
      BY <2>1, ConsumerPlaces DEF AddToFreeList, Owned
    <3> QED BY <3>1 DEF TypeOK
  <2>2. CASE ~AddToFreeList(c)
    BY <1>1, <2>2 DEF TypeOK
  <2> QED BY <2>1, <2>2
<1>9. cpc' \in [Consumers -> ConsumerStates]
  BY DEF TypeOK, ConsumerStep, ClaimIndex, LoadIndex, LoadIndexTail, FindEntry, LoadBlock,
     MoveOut, SetEmpty, Release, AddToFreeList, ConsumerStates
<1>10. at' \in [Consumers -> At]
  <2>1. at \in [Consumers -> At] /\ at[c] \in At
    BY DEF TypeOK
  <2>2. CASE LoadIndex(c)
    <3>1. Len(indices) \in 0 .. MaxIndices
      BY <1>2 DEF HeadersOK
    <3>2. [at[c] EXCEPT !.index = Len(indices)] \in At
      BY <2>1, <3>1 DEF At
    <3>3. at' = [at EXCEPT ![c] = [at[c] EXCEPT !.index = Len(indices)]]
      BY <2>2 DEF LoadIndex
    <3> QED BY <2>1, <3>2, <3>3
  <2>3. CASE LoadIndexTail(c)
    <3> DEFINE t == indices[at[c].index].tail
    <3>1. at[c].index \in DOMAIN indices
      BY <2>3, ConsumerPlaces DEF Searching, Found, Inside
    <3>2. t \in Nat
      <4>1. t \in 0 .. indices[at[c].index].capacity - 1
        BY <1>2, <3>1 DEF HeadersOK
      <4>2. indices[at[c].index].capacity \in Nat
        BY <1>2, <3>1, HeaderFacts
      <4> QED BY <4>1, <4>2
    <3>3. at' = [at EXCEPT ![c] = [at[c] EXCEPT !.tail = t]]
      BY <2>3 DEF LoadIndexTail
    <3> HIDE DEF t
    <3>4. [at[c] EXCEPT !.tail = t] \in At
      BY <2>1, <3>2 DEF At
    <3> QED BY <2>1, <3>3, <3>4
  <2>4. CASE FindEntry(c)
    <3>1. PICK x : at' = [at EXCEPT ![c] = [at[c] EXCEPT !.entry = x]]
      BY <2>4 DEF FindEntry
    <3>2. at'[c].entry = x
      BY <2>1, <3>1 DEF At
    <3>3. x \in Nat
      <4>1. cpc'[c] = "value" /\ taking'[c] = taking[c]
        BY <2>4, ConsumerPlaces
      <4>2. \A k \in {Num(taking[c])} : Found(c, k)'
        <5>1. \A k \in {Num(taking'[c])} : Found(c, k)'
          BY <4>1, OwnSearching DEF Inside
        <5> QED BY <4>1, <5>1
      <4>3. \A k \in {Num(taking[c])} : at'[c].entry = Slot(k)'
        BY <4>1, <4>2 DEF Found
      <4>4. \A k \in {Num(taking[c])} : Slot(k)' = Slot(k) /\ Slot(k) \in DOMAIN entries
        BY <1>2, NumberOfTaking, ConsumerIndex, SlotFacts
      <4> QED BY <1>2, <3>2, <4>3, <4>4
    <3>4. [at[c] EXCEPT !.entry = x] \in At
      BY <2>1, <3>3 DEF At
    <3> QED BY <2>1, <3>1, <3>4
  <2>5. CASE SetEmpty(c) \/ AddToFreeList(c)
    <3>1. at' = at \/ at' = [at EXCEPT ![c] = Nowhere]
      BY <2>5 DEF SetEmpty, AddToFreeList
    <3>2. Nowhere \in At
      BY SizesAssumption DEF Nowhere, At
    <3> QED BY <2>1, <3>1, <3>2
  <2>6. CASE ClaimIndex(c) \/ LoadBlock(c) \/ MoveOut(c) \/ Release(c)
    BY <2>1, <2>6 DEF ClaimIndex, LoadBlock, MoveOut, Release
  <2> QED BY <2>2, <2>3, <2>4, <2>5, <2>6 DEF ConsumerStep
<1>11. block' \in [Consumers -> Blocks \cup {NoBlock}]
  <2>1. block \in [Consumers -> Blocks \cup {NoBlock}]
    BY DEF TypeOK
  <2>2. CASE LoadBlock(c)
    <3>1. at[c].entry = Slot(Num(taking[c])) /\ Live(Num(taking[c]))
      BY <2>2, ConsumerPlaces DEF Searching, Found, Inside
    <3>2. entries[at[c].entry].value \in Blocks
      BY <3>1 DEF Live, BlockAt
    <3> QED BY <2>1, <2>2, <3>2 DEF LoadBlock
  <2>3. CASE ~LoadBlock(c)
    <3>1. block' = block \/ block' = [block EXCEPT ![c] = NoBlock]
      BY <2>3 DEF ConsumerStep, ClaimIndex, LoadIndex, LoadIndexTail, FindEntry, MoveOut,
         SetEmpty, Release, AddToFreeList
    <3> QED BY <2>1, <3>1
  <2> QED BY <2>2, <2>3
<1> QED BY <1>1, <1>3, <1>4, <1>5, <1>6, <1>7, <1>8, <1>9, <1>10, <1>11
    DEF TypeOK, HeadersOK, EntriesOK

(***************************************************************************)
(* The destructors, when nobody is in an operation.                        *)
(***************************************************************************)
Alone == ppc = "idle" /\ \A c \in Consumers : cpc[c] = "idle"

LEMMA AloneFacts ==
  ASSUME TypeOK, Dispensed, Counted, Alone
  PROVE  /\ \A i \in Nat : (Out(i) <=> i < head) /\ (Moved(i) <=> i < head)
                           /\ (Stored(i) <=> i < tail)
         /\ \A i \in Remaining : i \in Nat /\ Live(Num(i)) /\ Num(i) \in Int
         /\ Newest = Num(tail - 1) /\ Filled = Num(tail - 1)
         /\ head \in Nat /\ tail \in Nat /\ head <= tail
<1>1. \A c \in Consumers : taking[c] = NoIndex
  BY Zenon DEF Alone, Dispensed
<1>2. head \in Nat /\ tail \in Nat /\ head <= tail
  BY MaxElementsAssumption DEF TypeOK, Dispensed
<1>3. \A i \in Nat : (Out(i) <=> i < head) /\ (Moved(i) <=> i < head)
  BY <1>1 DEF Out, Moved, NoIndex
<1>4. \A i : Stored(i) <=> i < tail
  BY DEF Alone, Stored
<1>5. ASSUME NEW i \in Remaining PROVE i \in Nat /\ Live(Num(i)) /\ Num(i) \in Int
  <2>1. i \in Nat /\ i \in 0 .. tail - 1 /\ ~(i < head)
    BY <1>2 DEF Remaining
  <2> QED BY <1>3, <2>1, NextNumber DEF Counted
<1> QED BY <1>2, <1>3, <1>4, <1>5 DEF Newest, Filled, Alone

LEMMA BlockOfNumber ==
  ASSUME TypeOK, Sound, NEW k \in Int, Live(k), NEW i \in Int, Num(i) = k
  PROVE  BlockOf(i) = BlockAt(k)
<1> DEFINE L == Newest
<1>1. Indexed /\ Keyed /\ L \in Int /\ k \in Window /\ k <= L
  BY WindowFacts DEF Sound, Live
<1>2. KeyAt(L) = Key(L)
  <2>1. L \in k .. L
    BY <1>1
  <2> QED BY <1>1, <2>1 DEF Keyed, Live
<1>3. Slot(L) = Current.index[Current.tail]
  BY <1>1, SlotFacts DEF TailEntry
<1>4. TailBaseOf(Current, Current.tail) = Key(L)
  BY <1>2, <1>3 DEF TailBaseOf, KeyAt
<1>5. Base(i) = Key(k)
  BY Numbers
<1>6. (Key(k) - Key(L)) \div BlockSize = k - L
  BY <1>1, Keys
<1> QED BY <1>4, <1>5, <1>6 DEF BlockOf, BlockAt, Slot, Capacity

(* The blocks that the producer owns, when it owns its last one. *)
LEMMA LastBlockOwned ==
  ASSUME TypeOK, Sound, Dispensed, Counted, Filling, Alone, OwnsTailBlock
  PROVE  Live(Newest) /\ tailBlock = BlockAt(Newest)
<1>1. /\ Newest = Num(tail - 1) /\ Filled = Num(tail - 1)
      /\ head \in Nat /\ tail \in Nat /\ head <= tail
  BY AloneFacts
<1>2. Live(Newest)
  <2>1. CASE Remaining # {}
    <3>1. tail - 1 \in Remaining
      BY <1>1, <2>1 DEF Remaining
    <3> QED BY <1>1, <3>1, AloneFacts
  <2>2. CASE tail % BlockSize # 0
    <3>1. Num(tail) = Num(tail - 1)
      BY <1>1, <2>2, NextNumber
    <3> QED BY <1>1, <2>2, <3>1 DEF Counted
  <2> QED BY <2>1, <2>2 DEF OwnsTailBlock
<1>3. tailBlock = BlockAt(Newest)
  BY <1>1, <1>2 DEF Filling
<1> QED BY <1>2, <1>3

(* Every number of the index has an element left, or is the last one. *)
LEMMA LiveRemains ==
  ASSUME TypeOK, Sound, Dispensed, Counted, Filling, Alone, NEW k \in Int, Live(k)
  PROVE  /\ k >= 0
         /\ k < Newest => /\ Key(k) + BlockSize < tail
                          /\ \E i \in Remaining : Base(i) = Key(k)
         /\ k = Newest => /\ ~(Key(k) + BlockSize < tail)
                          /\ Remaining # {} \/ tail % BlockSize # 0
<1>1. /\ Newest = Num(tail - 1)
      /\ head \in Nat /\ tail \in Nat /\ head <= tail
      /\ \A i \in Nat : Out(i) <=> i < head
  BY AloneFacts
<1>2. /\ BlockSize \in Nat /\ BlockSize > 1
      /\ Key(k) \in Int /\ Key(k + 1) = Key(k) + BlockSize
  BY SizesAssumption, Keys
<1>3. /\ k >= 0
      /\ OutOf(k) # Offsets
  BY CountedParts DEF Counts, Alone
<1>4. PICK o \in Offsets : ~Out(Key(k) + o)
  BY <1>3 DEF OutOf
<1> DEFINE i == Key(k) + o
           N == Num(tail - 1)
           p == (tail - 1) % BlockSize
<1>5. i \in Nat /\ i >= head /\ o < BlockSize /\ o >= 0 /\ o \in Int
  <2>1. i \in Nat
    BY <1>3, OutOfFacts
  <2>2. ~(i < head)
    BY <1>1, <1>4, <2>1
  <2> QED BY <1>1, <1>2, <2>1, <2>2 DEF Offsets
<1>6. N \in Int /\ p \in Offsets /\ tail - 1 = Key(N) + p /\ Key(N) \in Int
      /\ Key(N + 1) = Key(N) + BlockSize
  <2>1. tail - 1 \in Int
    BY <1>1
  <2>2. N \in Int /\ p \in Offsets /\ tail - 1 = Key(N) + p
    BY <2>1, Numbers
  <2> HIDE DEF N
  <2> QED BY <2>2, Keys
<1>7. p >= 0 /\ p < BlockSize /\ p \in Int
  BY <1>2, <1>6 DEF Offsets
<1> HIDE DEF N, p, i
<1>8. ASSUME k < Newest
      PROVE  /\ Key(k) + BlockSize < tail
             /\ \E j \in Remaining : Base(j) = Key(k)
  <2>1. k + 1 <= N /\ k + 1 \in Int
    BY <1>1, <1>6, <1>8 DEF N
  <2>2. Key(k + 1) <= Key(N)
    <3> DEFINE m == k + 1
    <3>1. m \in Int /\ m <= N
      BY <2>1
    <3> HIDE DEF m
    <3>2. Key(m) < Key(N) <=> m < N
      BY <1>6, <3>1, Keys
    <3>3. Key(m) \in Int /\ (m = N => Key(m) = Key(N))
      BY <3>1, Keys
    <3>4. Key(m) <= Key(N)
      BY <1>6, <3>1, <3>2, <3>3
    <3> QED BY <3>4 DEF m
  <2>3. Key(k) + BlockSize < tail
    BY <1>1, <1>2, <1>6, <1>7, <2>2
  <2>4. i \in Remaining
    BY <1>1, <1>2, <1>5, <2>3 DEF Remaining, i
  <2>5. Base(i) = Key(k)
    <3>1. Num(i) = k
      BY NumberUnique DEF i
    <3> QED BY <1>5, <3>1, Numbers
  <2> QED BY <2>3, <2>4, <2>5
<1>9. ASSUME k = Newest
      PROVE  /\ ~(Key(k) + BlockSize < tail)
             /\ Remaining # {} \/ tail % BlockSize # 0
  <2>1. k = N
    BY <1>1, <1>9 DEF N
  <2>2. ~(Key(k) + BlockSize < tail)
    BY <1>1, <1>2, <1>6, <1>7, <2>1
  <2>3. ASSUME tail % BlockSize = 0 PROVE Remaining # {}
    <3>1. N = Num(tail) - 1 /\ Key(Num(tail)) = tail /\ Num(tail) \in Int
      BY <1>1, <2>3, NextNumber DEF N
    <3>2. tail = Key(k) + BlockSize
      <4>1. N + 1 = Num(tail)
        BY <1>6, <3>1
      <4> QED BY <1>6, <2>1, <3>1, <4>1
    <3>3. i \in Remaining
      BY <1>1, <1>2, <1>5, <3>2 DEF Remaining, i
    <3> QED BY <3>3
  <2> QED BY <2>2, <2>3
<1> QED BY <1>3, <1>8, <1>9

(* The producer frees every heap block of the index once, and no other. *)
LEMMA FreedOnce ==
  ASSUME TypeOK, Sound, Owned, Dispensed, Counted, Filling, Alone,
         NEW b \in Blocks, b \notin PoolBlocks
  PROVE  FreedByProducer(b) = IF Listed(b) THEN 1 ELSE 0
<1> DEFINE S == {base \in RemainingBases : base + BlockSize < tail /\ BlockOf(base) = b}
           L == OwnsTailBlock /\ tailBlock = b
<1>1. FreedByProducer(b) = Cardinality(S) + (IF L THEN 1 ELSE 0)
  BY DEF FreedByProducer
<1>2. Newest \in Int /\ \A k \in Int : Live(k) => k <= Newest
  BY WindowFacts DEF Sound, Live
<1>3. L => Live(Newest) /\ BlockAt(Newest) = b
  BY LastBlockOwned
<1>4. ASSUME NEW base \in RemainingBases
      PROVE  \E k \in Int : Live(k) /\ base = Key(k) /\ BlockOf(base) = BlockAt(k)
  <2>1. PICK i \in Remaining : base = Base(i)
    BY DEF RemainingBases
  <2> DEFINE k == Num(i)
  <2>2. i \in Int /\ Live(k) /\ k \in Int
    BY AloneFacts
  <2>3. base = Key(k)
    BY <2>1, <2>2, Numbers
  <2> HIDE DEF k
  <2>4. Num(base) = k /\ base \in Int
    <3>1. Key(k) \in Int /\ 0 \in Offsets
      BY <2>2, Keys, SizesAssumption DEF Offsets
    <3>2. Num(Key(k) + 0) = k
      BY <2>2, <3>1, NumberUnique
    <3> QED BY <2>3, <3>1, <3>2
  <2>5. BlockOf(base) = BlockAt(k)
    BY <2>2, <2>4, BlockOfNumber
  <2> QED BY <2>2, <2>3, <2>5
<1> HIDE DEF S, L
<1>5. CASE ~Listed(b)
  <2>1. S = {}
    BY <1>4, <1>5 DEF Listed, S
  <2>2. ~L
    BY <1>2, <1>3, <1>5 DEF Listed
  <2> QED BY <1>1, <1>5, <2>1, <2>2, FS_EmptySet
<1>6. CASE Listed(b)
  <2>1. PICK k \in Int : Live(k) /\ BlockAt(k) = b
    BY <1>6 DEF Listed
  <2>2. \A j \in Int : Live(j) /\ BlockAt(j) = b => j = k
    BY <2>1, BlocksDiffer DEF Sound
  <2>3. S \subseteq {Key(k)}
    BY <1>4, <2>2 DEF S
  <2>4. CASE k < Newest
    <3>1. Key(k) + BlockSize < tail /\ \E i \in Remaining : Base(i) = Key(k)
      BY <2>1, <2>4, LiveRemains
    <3>2. Key(k) \in RemainingBases
      BY <3>1 DEF RemainingBases
    <3>3. BlockOf(Key(k)) = b
      <4>1. PICK j \in Int : Live(j) /\ Key(k) = Key(j) /\ BlockOf(Key(k)) = BlockAt(j)
        BY <1>4, <3>2
      <4>2. j = k
        BY <4>1, Keys
      <4> QED BY <2>1, <4>1, <4>2
    <3>4. S = {Key(k)}
      BY <2>3, <3>1, <3>2, <3>3 DEF S
    <3>5. ~L
      BY <1>2, <1>3, <2>2, <2>4
    <3>6. Cardinality({Key(k)}) = 1
      BY FS_Singleton
    <3> QED BY <1>1, <1>6, <3>4, <3>5, <3>6
  <2>5. CASE k = Newest
    <3>1. ~(Key(k) + BlockSize < tail) /\ (Remaining # {} \/ tail % BlockSize # 0)
      BY <2>1, <2>5, LiveRemains
    <3>2. S = {}
      BY <2>3, <3>1 DEF S
    <3>3. L
      <4>1. tailBlock = b
        BY <2>1, <2>5, AloneFacts DEF Filling
      <4>2. b # NoBlock
        BY BlocksAssumption DEF Blocks
      <4> QED BY <3>1, <4>1, <4>2 DEF L, OwnsTailBlock
    <3> QED BY <1>1, <1>6, <3>2, <3>3, FS_EmptySet
  <2> QED BY <1>2, <2>1, <2>4, <2>5
<1> QED BY <1>5, <1>6

(* The destructors destroy the elements that are left, all of them. *)
LEMMA ElementsDestroyed ==
  ASSUME TypeOK, Sound, Owned, Dispensed, Counted, Contents, Alone,
         NEW b \in Blocks, NEW o \in Offsets, slots[b][o] # NoIndex
  PROVE  \E i \in Remaining : BlockOf(i) = b /\ i % BlockSize = o
<1>1. PICK k \in Int : Live(k) /\ BlockAt(k) = b
  BY ContentsParts DEF Sound, Empty, Listed
<1>2. Content(k)
  BY <1>1, ContentsParts DEF Sound
<1> DEFINE i == Key(k) + o
<1>3. Stored(i) /\ ~Moved(i)
  BY <1>1, <1>2 DEF Content
<1>4. k >= 0
  BY <1>1, CountedParts DEF Counts
<1>5. i \in Nat /\ Num(i) = k /\ i % BlockSize = o
  BY <1>4, OutOfFacts, NumberUnique
<1> HIDE DEF i
<1>6. i \in Remaining
  <2>1. i < tail /\ ~(i < head) /\ head \in Nat /\ tail \in Nat
    BY <1>3, <1>5, AloneFacts
  <2> QED BY <1>5, <2>1 DEF Remaining
<1>7. BlockOf(i) = b
  BY <1>1, <1>5, BlockOfNumber
<1> QED BY <1>5, <1>6, <1>7

LEMMA NothingLeft ==
  ASSUME TypeOK, ppc' = "destroyed", entries' = <<>>, indices' = <<>>,
         UNCHANGED <<tail, head, taking, emptied, pool, heap, free, tailBlock, newBlock,
                     cpc, at, block>>,
         slots' \in [Blocks -> [Offsets -> {NoIndex} \cup 0 .. MaxElements]],
         freed' \in [Blocks -> Nat]
  PROVE  TypeOK'
<1>1. EntriesOK'
  BY DEF EntriesOK
<1>2. HeadersOK'
  <2>1. Len(indices') = 0 /\ DOMAIN indices' = {} /\ 0 \in 0 .. MaxIndices
    BY SizesAssumption
  <2> QED BY <2>1 DEF HeadersOK
<1> QED BY <1>1, <1>2 DEF TypeOK, HeadersOK, EntriesOK, ProducerStates

LEMMA DestroyTears ==
  ASSUME TypeOK, Owned, Working, Destroy
  PROVE  TypeOK' /\ Torn'
<1> USE DEF dispenser, memory, index, producer, consumers, PGoto
<1>1. /\ ppc = "idle" /\ ppc' = "destroyed" /\ Alone
      /\ UNCHANGED <<tail, head, taking, emptied, pool, heap, free, tailBlock, newBlock,
                     cpc, at, block>>
      /\ entries' = <<>> /\ indices' = <<>>
  BY DEF Destroy, Alone
<1>2. /\ Sound /\ Dispensed /\ Counted /\ Filling /\ Contents
      /\ \A b \in Blocks : freed[b] = 0
  BY DEF Working, Sound
<1>3. slots' = [b \in Blocks |-> [o \in Offsets |->
                  IF \E i \in Remaining : BlockOf(i) = b /\ i % BlockSize = o
                    THEN NoIndex ELSE slots[b][o]]]
  BY DEF Destroy
<1>4. freed' = [b \in Blocks |-> freed[b] + FreedByProducer(b) + FreedByQueue(b)]
  BY DEF Destroy
<1>5. \A b \in Blocks, o \in Offsets : slots'[b][o] = NoIndex
  <2> SUFFICES ASSUME NEW b \in Blocks, NEW o \in Offsets PROVE slots'[b][o] = NoIndex
    OBVIOUS
  <2>1. slots[b][o] # NoIndex => \E i \in Remaining : BlockOf(i) = b /\ i % BlockSize = o
    BY <1>1, <1>2, ElementsDestroyed
  <2>2. slots'[b][o] = IF \E i \in Remaining : BlockOf(i) = b /\ i % BlockSize = o
                         THEN NoIndex ELSE slots[b][o]
    BY <1>3
  <2> QED BY <2>1, <2>2
<1>6. slots' \in [Blocks -> [Offsets -> {NoIndex} \cup 0 .. MaxElements]]
  <2>1. slots' = [b \in Blocks |-> [o \in Offsets |-> NoIndex]]
    BY <1>3, <1>5
  <2> QED BY <2>1
<1>7. ASSUME NEW b \in Blocks PROVE freed'[b] = IF b \in heap THEN 0 ELSE 1
  <2>1. Single(b) /\ newBlock = NoBlock /\ b # NoBlock /\ Adding(b) = {}
    <3>1. Single(b) /\ newBlock = NoBlock
      BY <1>1 DEF Owned, Single
    <3>2. Adding(b) = {}
      BY <1>1 DEF Alone, Adding
    <3> QED BY <1>2, <3>1, <3>2, EntryFacts DEF Sound
  <2>2. CASE b \in PoolBlocks
    <3>1. b \notin heap
      BY <2>2, BlocksAssumption DEF TypeOK
    <3>2. FreedByProducer(b) = 0 /\ FreedByQueue(b) = 1
      BY <2>2 DEF FreedByProducer, FreedByQueue
    <3> QED BY <1>2, <1>4, <3>1, <3>2
  <2>3. CASE b \notin PoolBlocks
    <3>1. b \notin pool
      BY <2>3 DEF TypeOK
    <3>2. freed'[b] = FreedByProducer(b) + Cardinality(free \cap {b})
      <4>1. FreedByProducer(b) = IF Listed(b) THEN 1 ELSE 0
        BY <1>1, <1>2, <2>3, FreedOnce
      <4>2. freed'[b] = 0 + FreedByProducer(b) + Cardinality(free \cap {b})
        BY <1>2, <1>4, <2>3 DEF FreedByQueue
      <4> QED BY <4>1, <4>2
    <3>3. FreedByProducer(b) = IF Listed(b) THEN 1 ELSE 0
      BY <1>1, <1>2, <2>3, FreedOnce
    <3>4. Cardinality(free \cap {b}) = IF b \in free THEN 1 ELSE 0
      <4>1. CASE b \in free
        <5>1. free \cap {b} = {b}
          BY <4>1
        <5> QED BY <4>1, <5>1, FS_Singleton
      <4>2. CASE b \notin free
        <5>1. free \cap {b} = {}
          BY <4>2
        <5> QED BY <4>2, <5>1, FS_EmptySet
      <4> QED BY <4>1, <4>2
    <3>5. Listed(b) <=> Listing(b) # {}
      <4>1. Listing(b) = {} => ~Listed(b)
        BY <1>2, Unlisted DEF Sound
      <4>2. ASSUME NEW e \in Listing(b) PROVE Listed(b)
        <5>1. e \in DOMAIN entries /\ entries[e].value = b
          BY DEF Listing
        <5>2. PICK k \in Window : Slot(k) = e
          BY <1>2, <5>1, SlotFacts DEF Sound
        <5>3. k \in Int /\ Live(k) /\ BlockAt(k) = b
          BY <1>2, <2>1, <5>1, <5>2, WindowFacts DEF Sound, Live, BlockAt
        <5> QED BY <5>3 DEF Listed
      <4> QED BY <4>1, <4>2
    <3>6. /\ b \in heap => b \notin free /\ Listing(b) = {}
          /\ b \in free => Listing(b) = {}
          /\ b \notin heap => b \in free \/ Listing(b) # {}
      BY <2>1, <3>1 DEF Single
    <3>7. CASE Listing(b) = {}
      <4>1. FreedByProducer(b) = 0
        BY <3>3, <3>5, <3>7
      <4> QED BY <3>2, <3>4, <3>6, <3>7, <4>1
    <3>8. CASE Listing(b) # {}
      <4>1. FreedByProducer(b) = 1 /\ b \notin free /\ b \notin heap
        BY <3>3, <3>5, <3>6, <3>8
      <4> QED BY <3>2, <3>4, <4>1
    <3> QED BY <3>7, <3>8
  <2> QED BY <2>2, <2>3
<1>8. freed' \in [Blocks -> Nat]
  <2>1. \A b \in Blocks : freed'[b] \in Nat
    BY <1>7
  <2> QED BY <1>4, <2>1
<1>9. TypeOK'
  BY <1>1, <1>6, <1>8, NothingLeft
<1>10. Torn'
  BY <1>1, <1>5, <1>7 DEF Torn, TeardownIsComplete, Alone
<1> QED BY <1>9, <1>10

(* The destructors of a producer that never had a block index. *)
LEMMA FreshDestroyTears ==
  ASSUME TypeOK, Fresh, Destroy
  PROVE  TypeOK' /\ Torn'
<1> USE DEF dispenser, memory, index, producer, consumers, PGoto
<1>1. /\ ppc' = "destroyed" /\ Alone
      /\ UNCHANGED <<tail, head, taking, emptied, pool, heap, free, tailBlock, newBlock,
                     cpc, at, block>>
      /\ entries' = <<>> /\ indices' = <<>>
  BY DEF Destroy, Alone
<1>2. /\ tail = 0 /\ head = 0 /\ free = {} /\ heap = HeapBlocks /\ tailBlock = NoBlock
      /\ \A b \in Blocks : freed[b] = 0 /\ \A o \in Offsets : slots[b][o] = NoIndex
  BY DEF Fresh
<1>3. slots' = [b \in Blocks |-> [o \in Offsets |->
                  IF \E i \in Remaining : BlockOf(i) = b /\ i % BlockSize = o
                    THEN NoIndex ELSE slots[b][o]]]
  BY DEF Destroy
<1>4. slots' = [b \in Blocks |-> [o \in Offsets |-> NoIndex]]
  BY <1>2, <1>3
<1>5. freed' = [b \in Blocks |-> freed[b] + FreedByProducer(b) + FreedByQueue(b)]
  BY DEF Destroy
<1>6. RemainingBases = {} /\ ~OwnsTailBlock
  BY <1>2 DEF Remaining, RemainingBases, OwnsTailBlock
<1>7. ASSUME NEW b \in Blocks PROVE freed'[b] = IF b \in heap THEN 0 ELSE 1
  <2>1. freed'[b] = 0 + FreedByProducer(b) + FreedByQueue(b)
    BY <1>2, <1>5
  <2>2. CASE b \in PoolBlocks
    <3>1. b \notin heap
      BY <1>2, <2>2, BlocksAssumption
    <3>2. FreedByProducer(b) = 0 /\ FreedByQueue(b) = 1
      BY <2>2 DEF FreedByProducer, FreedByQueue
    <3> QED BY <2>1, <3>1, <3>2
  <2>3. CASE b \notin PoolBlocks
    <3>1. b \in heap
      BY <1>2, <2>3 DEF Blocks
    <3>2. FreedByProducer(b) = 0
      <4> DEFINE S == {base \in RemainingBases : base + BlockSize < tail /\ BlockOf(base) = b}
      <4>1. S = {}
        BY <1>6
      <4>2. FreedByProducer(b) = Cardinality(S) + 0
        BY <1>6, <2>3 DEF FreedByProducer
      <4> HIDE DEF S
      <4> QED BY <4>1, <4>2, FS_EmptySet
    <3>3. FreedByQueue(b) = 0
      <4>1. free \cap {b} = {}
        BY <1>2
      <4> QED BY <2>3, <4>1, FS_EmptySet DEF FreedByQueue
    <3> QED BY <2>1, <3>1, <3>2, <3>3
  <2> QED BY <2>2, <2>3
<1>8. freed' \in [Blocks -> Nat]
  <2>1. \A b \in Blocks : freed'[b] \in Nat
    BY <1>7
  <2> QED BY <1>5, <2>1
<1>9. slots' \in [Blocks -> [Offsets -> {NoIndex} \cup 0 .. MaxElements]]
  BY <1>4
<1>10. TypeOK'
  BY <1>1, <1>8, <1>9, NothingLeft
<1>11. Torn'
  BY <1>1, <1>4, <1>7 DEF Torn, TeardownIsComplete, Alone
<1> QED BY <1>10, <1>11
--------------------------------------------------------------------------------
(***************************************************************************)
(* The inductive invariant.                                                *)
(***************************************************************************)
LEMMA InitialTypes ==
  ASSUME Init, HeadersOK, EntriesOK
  PROVE  TypeOK
<1>1. MaxElements \in Nat /\ BlockSize \in Nat /\ MaxIndices \in Nat
  BY SizesAssumption, MaxElementsAssumption
<1>2. /\ slots \in [Blocks -> [Offsets -> {NoIndex} \cup 0 .. MaxElements]]
      /\ emptied \in [Blocks -> 0 .. BlockSize]
      /\ pool \subseteq PoolBlocks /\ heap \subseteq HeapBlocks /\ free \subseteq Blocks
      /\ freed \in [Blocks -> Nat]
  BY <1>1 DEF Init
<1>3. /\ tail \in 0 .. MaxElements /\ head \in 0 .. MaxElements
      /\ taking \in [Consumers -> {NoIndex} \cup 0 .. MaxElements]
  BY <1>1 DEF Init, DispenserInit
<1>4. /\ tailBlock \in Blocks \cup {NoBlock} /\ newBlock \in Blocks \cup {NoBlock}
      /\ ppc \in ProducerStates /\ cpc \in [Consumers -> ConsumerStates]
      /\ at \in [Consumers -> At] /\ block \in [Consumers -> Blocks \cup {NoBlock}]
  <2>1. Nowhere \in At
    BY <1>1 DEF Nowhere, At
  <2> QED BY <2>1 DEF Init, ProducerStates, ConsumerStates
<1> QED BY <1>2, <1>3, <1>4 DEF TypeOK, HeadersOK, EntriesOK

LEMMA InitialPlaces ==
  ASSUME Init, \A e \in DOMAIN entries : entries[e] = InvalidEntry
  PROVE  Owned
<1>1. /\ newBlock = NoBlock /\ ppc = "idle" /\ cpc = [c \in Consumers |-> "idle"]
      /\ pool = PoolBlocks /\ heap = HeapBlocks /\ free = {}
  BY DEF Init
<1>2. ASSUME NEW b \in Blocks PROVE Single(b)
  <2>1. Listing(b) = {}
    BY BlocksAssumption DEF Listing, InvalidEntry, Blocks
  <2>2. Adding(b) = {}
    BY <1>1 DEF Adding
  <2>3. b # NoBlock /\ (b \in pool \/ b \in heap) /\ ~(b \in pool /\ b \in heap)
    BY <1>1, BlocksAssumption DEF Blocks
  <2> QED BY <1>1, <2>1, <2>2, <2>3 DEF Single
<1> QED BY <1>1, <1>2 DEF Owned, Single

LEMMA InitialIndex ==
  ASSUME Init, FirstIndex
  PROVE  /\ TypeOK /\ Indexed
         /\ Newest = -1 /\ tail = 0 /\ head = 0 /\ 0 % BlockSize = 0
         /\ \A K \in Int : ~Live(K) /\ KeyAt(K) # Key(K)
         /\ \A e \in DOMAIN entries : entries[e] = InvalidEntry
<1> DEFINE n == InitialIndexSize
           hdr == [capacity |-> n, tail |-> n - 1, index |-> [i \in 0 .. n - 1 |-> i + 1]]
<1>1. n \in Nat \ {0} /\ BlockSize \in Nat \ {0, 1} /\ MaxIndices \in Nat \ {0}
  BY SizesAssumption
<1>2. /\ tail = 0 /\ head = 0 /\ taking = [c \in Consumers |-> NoIndex]
      /\ ppc = "idle" /\ entries = [e \in 1 .. n |-> InvalidEntry]
      /\ indices = <<hdr>>
  BY DEF Init, DispenserInit, FirstIndex
<1>3. /\ Len(indices) = 1 /\ DOMAIN indices = {1} /\ indices[1] = hdr /\ Current = hdr
  BY <1>2 DEF Current
<1>4. InvalidEntry \in [key : Nat, value : Blocks \cup {NoBlock, Uninit}]
  BY DEF InvalidEntry, InvalidBase
<1>5. DOMAIN entries = 1 .. n /\ Len(entries) = n
      /\ entries \in Seq([key : Nat, value : Blocks \cup {NoBlock, Uninit}])
  <2> DEFINE E == [key : Nat, value : Blocks \cup {NoBlock, Uninit}]
  <2>1. InvalidEntry \in E
    BY <1>4
  <2> HIDE DEF E
  <2>2. DOMAIN entries = 1 .. n /\ Len(entries) = n /\ entries \in Seq(E)
    BY <1>1, <1>2, <2>1
  <2> QED BY <2>2 DEF E
<1>6. /\ hdr.capacity = n /\ hdr.tail = n - 1 /\ hdr.index = [i \in 0 .. n - 1 |-> i + 1]
  OBVIOUS
<1>7. hdr.index \in [0 .. n - 1 -> 1 .. n] /\ hdr.tail \in 0 .. n - 1
  BY <1>1, <1>6
<1>8. indices \in Seq(Header)
  <2>1. hdr \in Header
    <3>1. /\ n \in Nat \ {0} /\ n - 1 \in Nat
          /\ [i \in 0 .. n - 1 |-> i + 1] \in [0 .. n - 1 -> Nat]
      BY <1>1
    <3>2. [i \in 0 .. n - 1 |-> i + 1] \in UNION {[0 .. m - 1 -> Nat] : m \in Nat}
      BY <3>1
    <3> QED BY <3>1, <3>2 DEF Header
  <2> HIDE DEF hdr
  <2> QED BY <1>2, <2>1
<1> HIDE DEF hdr
<1>9. Indexed
  <2>1. \A p, q \in 0 .. n - 1 : hdr.index[p] = hdr.index[q] => p = q
    BY <1>1, <1>6
  <2>2. \A e \in 1 .. n : \E p \in 0 .. n - 1 : hdr.index[p] = e
    <3> TAKE e \in 1 .. n
    <3>1. e - 1 \in 0 .. n - 1 /\ hdr.index[e - 1] = e
      BY <1>1, <1>6
    <3> QED BY <3>1
  <2>3. indices # <<>>
    <3>1. Len(<<>>) = 0
      OBVIOUS
    <3> QED BY ONLY <1>3, <3>1
  <2>4. Capacity = n /\ Current.index = hdr.index
    BY <1>3, <1>6 DEF Capacity
  <2> DEFINE X == Current.index
             C == Capacity
  <2>5. X = hdr.index /\ C = n
    BY <2>4
  <2> HIDE DEF X, C
  <2>6. /\ \A p, q \in 0 .. C - 1 : X[p] = X[q] => p = q
        /\ \A e \in DOMAIN entries : \E p \in 0 .. C - 1 : X[p] = e
    BY ONLY <1>5, <2>1, <2>2, <2>5
  <2>7. Len(entries) = C
    BY <1>5, <2>5
  <2> QED BY <1>8, <2>3, <2>6, <2>7 DEF Indexed, X, C
<1>10. TypeOK
  <2>1. HeadersOK
    BY <1>1, <1>3, <1>5, <1>6, <1>7 DEF HeadersOK
  <2> QED BY <1>5, <2>1, InitialTypes DEF EntriesOK
<1>11. Newest = -1 /\ 0 % BlockSize = 0
  <2>1. 0 % BlockSize = 0
    BY <1>1
  <2>2. Num(0 - 1) = Num(0) - 1 /\ Num(0) \in Nat /\ Key(Num(0)) = 0
    BY <2>1, NextNumber
  <2>3. Num(0) = 0
    BY <2>2, Keys
  <2>4. Newest = Num(0 - 1)
    BY <1>2 DEF Newest
  <2> QED BY <2>1, <2>2, <2>3, <2>4
<1>12. \A K \in Int : ~Live(K) /\ KeyAt(K) # Key(K)
  <2> TAKE K \in Int
  <2>1. Slot(K) \in DOMAIN entries
    BY <1>9, <1>10, SlotFacts
  <2>2. entries[Slot(K)] = InvalidEntry
    BY <1>2, <1>5, <2>1
  <2>3. KeyAt(K) = InvalidBase /\ BlockAt(K) \notin Blocks
    BY <2>2, BlocksAssumption DEF KeyAt, BlockAt, InvalidEntry, Blocks
  <2> QED BY <2>3, Keys DEF Live
<1> QED BY <1>2, <1>5, <1>9, <1>10, <1>11, <1>12

LEMMA InitWithoutIndex ==
  ASSUME Init, NoIndexYet
  PROVE  IInv
<1>1. entries = <<>> /\ indices = <<>>
  BY DEF NoIndexYet
<1>2. EntriesOK
  BY <1>1 DEF EntriesOK
<1>3. HeadersOK
  <2>1. Len(indices) = 0 /\ DOMAIN indices = {} /\ 0 \in 0 .. MaxIndices
    BY <1>1, SizesAssumption
  <2> QED BY <2>1 DEF HeadersOK
<1>4. TypeOK
  BY <1>2, <1>3, InitialTypes
<1>5. Owned
  <2>1. DOMAIN entries = {}
    BY <1>1
  <2> QED BY <2>1, InitialPlaces
<1>6. Fresh
  BY <1>1 DEF Init, DispenserInit, Fresh
<1>7. ppc # "destroyed"
  BY DEF Init
<1> QED BY <1>1, <1>4, <1>5, <1>6, <1>7 DEF IInv

LEMMA InitWithIndex ==
  ASSUME Init, FirstIndex
  PROVE  IInv
<1>1. /\ TypeOK /\ Indexed
      /\ Newest = -1 /\ tail = 0 /\ head = 0 /\ 0 % BlockSize = 0
      /\ \A K \in Int : ~Live(K) /\ KeyAt(K) # Key(K)
      /\ \A e \in DOMAIN entries : entries[e] = InvalidEntry
      /\ Window \subseteq Int /\ Oldest \in Int /\ NoBlock \notin Blocks
  BY InitialIndex, WindowFacts, EntryFacts
<1>2. /\ ppc = "idle" /\ taking = [c \in Consumers |-> NoIndex] /\ newBlock = NoBlock
      /\ cpc = [c \in Consumers |-> "idle"] /\ pool = PoolBlocks /\ heap = HeapBlocks
      /\ free = {} /\ freed = [b \in Blocks |-> 0]
      /\ slots = [b \in Blocks |-> [o \in Offsets |-> NoIndex]]
  BY DEF Init, DispenserInit
<1>3. Progress
  BY <1>2 DEF Progress
<1>4. Keyed
  <2>1. \A K \in Window : BlockAt(K) \notin Blocks /\ KeyAt(K) # Key(K)
    BY <1>1 DEF Live
  <2> QED BY <2>1 DEF Keyed
<1>5. Dispensed /\ Searching
  BY <1>1, <1>2 DEF Dispensed, Searching, Inside, NoIndex
<1>6. Counted
  <2>1. /\ \A i \in 0 .. tail - 1 : ~Out(i) => Live(Num(i))
        /\ ~(tail % BlockSize # 0 \/ ppc \in {"write", "publish"})
    BY <1>1, <1>2
  <2>2. /\ \A k \in Int : Live(k) => Counts(k)
        /\ \A c \in Consumers : Releasing(c)
    BY <1>1, <1>2 DEF Releasing
  <2> QED BY <1>1, <2>1, <2>2, CountedParts
<1>7. Filling
  <2>1. Filled \in Int
    <3>1. Num(tail - 1) \in Int
      BY <1>1, NextNumber
    <3> QED BY <1>2, <3>1 DEF Filled
  <2> QED BY <1>1, <2>1 DEF Filling
<1>8. Contents
  <2>1. /\ \A k \in Int : Live(k) => Content(k)
        /\ \A b \in Blocks : ~Listed(b) => Empty(b)
    BY <1>1, <1>2 DEF Empty
  <2> QED BY <1>1, <2>1, ContentsParts
<1>9. Owned
  BY <1>1, InitialPlaces
<1>10. Unwritten
  BY <1>1 DEF Unwritten, InvalidEntry
<1>11. Indexed /\ indices # <<>>
  BY <1>1 DEF Indexed
<1>12. Working
  BY <1>1, <1>2, <1>3, <1>4, <1>5, <1>6, <1>7, <1>8, <1>10, <1>11 DEF Working
<1> QED BY <1>1, <1>2, <1>9, <1>11, <1>12 DEF IInv

LEMMA InitIInv ==
  ASSUME Init
  PROVE  IInv
<1>1. FirstIndex \/ NoIndexYet
  BY DEF Init
<1> QED BY <1>1, InitWithIndex, InitWithoutIndex

(* Without a block index enqueue() ends before it has done anything. *)
LEMMA FreshSteps ==
  ASSUME TypeOK, Owned, Fresh, indices = <<>>,
         ProducerStep \/ \E c \in Consumers : ConsumerStep(c)
  PROVE  TypeOK' /\ Owned' /\ Fresh' /\ indices' = <<>>
<1> USE DEF dispenser, memory, index, producer, consumers, PGoto
<1>1. /\ ppc \in {"idle", "crashed"} /\ tail = 0 /\ head = 0
      /\ \A c \in Consumers : cpc[c] = "idle"
  BY DEF Fresh
<1>2. ASSUME NEW c \in Consumers PROVE ~ConsumerStep(c)
  BY <1>1, ConsumerPlaces DEF ConsumerStep
<1>3. StartWithoutIndex
  <2>1. ~InsideBlock
    <3>1. 0 % BlockSize = 0
      BY SizesAssumption
    <3> QED BY <1>1, <3>1 DEF InsideBlock
  <2>2. ~StartBlock
    BY DEF StartBlock
  <2>3. /\ ~Grow /\ ~GrowFails /\ ~StoreKey /\ ~StoreTail /\ ~RequisitionFails /\ ~Rewind
        /\ ~ClearEntry /\ ~Install /\ ~Write /\ ~PublishElement
        /\ \A b \in Blocks : ~Requisition(b)
    BY <1>1 DEF Grow, GrowFails, StoreKey, StoreTail, Requisition, RequisitionFails, Rewind,
       ClearEntry, Install, Write, PublishElement
  <2> QED BY <1>2, <2>1, <2>2, <2>3 DEF ProducerStep
<1>4. /\ ppc = "idle" /\ ppc' = "crashed"
      /\ UNCHANGED <<tail, head, taking, slots, emptied, pool, heap, free, freed, entries,
                     indices, tailBlock, newBlock, cpc, at, block>>
  BY <1>3 DEF StartWithoutIndex
<1>5. TypeOK'
  BY <1>4 DEF TypeOK, ProducerStates
<1>6. Owned'
  <2>1. \A b \in Blocks : Listing(b)' = Listing(b) /\ Adding(b)' = Adding(b)
    BY <1>4 DEF Listing, Adding
  <2> QED BY <1>1, <1>4, <2>1, OwnedSame
<1>7. Fresh'
  BY <1>4 DEF Fresh
<1> QED BY <1>4, <1>5, <1>6, <1>7

LEMMA WorkingSteps ==
  ASSUME TypeOK, Owned, Working, ProducerStep \/ \E c \in Consumers : ConsumerStep(c)
  PROVE  TypeOK' /\ Owned' /\ Working' /\ indices' # <<>>
<1>1. /\ Sound /\ Dispensed /\ Searching /\ Counted /\ Filling /\ Contents
      /\ \A b \in Blocks : freed[b] = 0
  BY DEF Working, Sound
<1>2. Dispensed' /\ Filling'
  BY <1>1, DispensedKept, FillingKept
<1>3. CASE ProducerStep
  <2>1. Sound' /\ Searching' /\ freed' = freed
    BY <1>1, <1>3, ProducerIndex, ProducerSearching, ProducerMoves
  <2>2. TypeOK' /\ Owned' /\ Counted' /\ Contents'
    BY <1>1, <1>3, ProducerTypes, ProducerOwned, ProducerCounted, ProducerContents
  <2>3. indices' # <<>>
    BY <2>1 DEF Sound, Indexed
  <2> QED BY <1>1, <1>2, <2>1, <2>2, <2>3 DEF Working, Sound
<1>4. ASSUME NEW c \in Consumers, ConsumerStep(c) PROVE TypeOK' /\ Owned' /\ Working' /\ indices' # <<>>
  <2>1. Sound' /\ Searching' /\ freed' = freed
    BY <1>1, <1>4, OthersSearching, ConsumerSearching, ConsumerMoves
  <2>2. TypeOK' /\ Owned' /\ Counted' /\ Contents'
    BY <1>1, <1>4, ConsumerTypes, ConsumerOwned, ConsumerCounted, ConsumerContents
  <2>3. indices' # <<>>
    BY <2>1 DEF Sound, Indexed
  <2> QED BY <1>1, <1>2, <2>1, <2>2, <2>3 DEF Working, Sound
<1> QED BY <1>3, <1>4

(* After the destructors nobody moves. *)
LEMMA DestroyedIsLast ==
  ASSUME TypeOK, Torn, ppc = "destroyed"
  PROVE  ~Next
<1>1. ~ProducerStep
  BY ProducerMoves
<1>2. ~Destroy
  BY DEF Destroy, PGoto
<1>3. ASSUME NEW c \in Consumers PROVE ~ConsumerStep(c)
  <2>1. cpc[c] = "idle"
    BY DEF Torn
  <2> QED BY <2>1, ConsumerPlaces DEF ConsumerStep
<1> QED BY <1>1, <1>2, <1>3 DEF Next

LEMMA Stuttering ==
  ASSUME IInv, UNCHANGED vars
  PROVE  IInv'
<1>1. TypeOK'
  BY DEF IInv, vars, TypeOK
<1>2. ppc # "destroyed" => Owned'
  BY DEF IInv, vars, Owned, Listing, Adding
<1>3. CASE ppc = "destroyed"
  <2>1. Torn'
    BY <1>3 DEF IInv, vars, Torn, TeardownIsComplete
  <2> QED BY <1>1, <1>3, <2>1 DEF IInv, vars
<1>4. CASE ppc # "destroyed" /\ indices = <<>>
  <2>1. Fresh'
    BY <1>4 DEF IInv, vars, Fresh
  <2> QED BY <1>1, <1>2, <1>4, <2>1 DEF IInv, vars
<1>5. CASE ppc # "destroyed" /\ indices # <<>>
  <2>1. TypeOK /\ Owned /\ Working
    BY <1>5 DEF IInv
  <2>2. /\ UNCHANGED <<index, ppc, tail>> /\ UNCHANGED <<cpc, head, taking, at, block>>
        /\ UNCHANGED <<slots, emptied, freed, tailBlock, indices>>
    BY DEF vars, index
  <2>3. /\ Sound /\ Dispensed /\ Searching /\ Counted /\ Filling /\ Contents
        /\ \A b \in Blocks : freed[b] = 0
    BY <2>1 DEF Working, Sound
  <2>4. /\ Sound' /\ Kept /\ SameIndices /\ Newest' = Newest /\ Window' = Window
        /\ \A K \in Int : /\ Slot(K)' = Slot(K) /\ BlockAt(K)' = BlockAt(K)
                          /\ (Live(K)' <=> Live(K))
    BY <2>1, <2>2, <2>3, ConsumerKeepsIndex
  <2>5. /\ OutSame /\ \A k : OutOf(k)' = OutOf(k)
    BY <2>2, ProducerOut
  <2>6. tail \in Nat /\ \A i \in Nat : Num(i) \in Int
    BY <2>1, MaxElementsAssumption, NextNumber DEF TypeOK
  <2>7. Dispensed'
    BY <2>2, <2>3 DEF Dispensed
  <2>8. Searching'
    <3>1. /\ OldIndices /\ indices' \in Seq(Header) /\ PathsKept
          /\ Num(tail) <= Num(tail)' /\ Num(tail)' \in Int
      BY <2>1, <2>2, <2>4, NumbersGrow DEF OldIndices, Sound, Indexed, Kept
    <3>2. \A d \in Consumers : cpc[d] \in Inside =>
            \A k \in {Num(taking[d])} :
              Live(k) => Live(k)' /\ Slot(k)' = Slot(k) /\ BlockAt(k)' = BlockAt(k)
      BY <2>1, <2>4, NumberOfTaking
    <3>3. \A d \in Consumers :
            cpc'[d] \in Inside => \A k \in {Num(taking'[d])} : Found(d, k)'
      BY <2>1, <2>2, <2>3, <3>1, <3>2, SearchersKept
    <3> QED BY <3>3 DEF Searching, Num
  <2>9. Counted'
    <3>1. /\ \A i \in 0 .. tail - 1 : ~Out(i) => Live(Num(i))
          /\ tail % BlockSize # 0 \/ ppc \in {"write", "publish"} => Live(Num(tail))
          /\ \A k \in Int : Live(k) => Counts(k)
          /\ \A c \in Consumers : Releasing(c)
      BY <2>3, CountedParts
    <3>2. \A i \in 0 .. tail - 1 : ~Out(i)' => Live(Num(i))'
      <4> SUFFICES ASSUME NEW i \in 0 .. tail - 1, ~Out(i)'
                   PROVE  \A k \in {Num(i)} : Live(k)'
        BY DEF Num
      <4>1. i \in Nat /\ ~Out(i)
        BY <2>5, <2>6 DEF OutSame
      <4> QED BY <2>4, <2>6, <3>1, <4>1
    <3>3. tail % BlockSize # 0 \/ ppc \in {"write", "publish"} =>
            \A k \in {Num(tail)} : Live(k)'
      BY <2>4, <2>6, <3>1
    <3>4. \A k \in Int : Live(k)' => Counts(k)'
      BY <2>2, <2>4, <2>5, <3>1 DEF Counts, Num
    <3>5. \A c \in Consumers : Releasing(c)'
      BY <2>2, <2>5, <3>1 DEF Releasing, Num
    <3>6. \A k : Live(k)' => k \in Window'
      BY DEF Live
    <3>7. Window' \subseteq Int
      BY <2>1, <2>3, <2>4, WindowFacts DEF Sound
    <3> QED BY <2>2, <3>2, <3>3, <3>4, <3>5, <3>6, <3>7 DEF Counted, Counts, Releasing, Num
  <2>10. Filling'
    <3>1. Filled' = Filled /\ Filled \in Int
      <4>1. Num(tail - 1) \in Int /\ Num(tail) \in Int
        BY <2>6, NextNumber
      <4> QED BY <2>2, <4>1 DEF Filled, Num
    <3> QED BY <2>2, <2>3, <2>4, <3>1 DEF Filling
  <2>11. Contents'
    <3>1. /\ \A k \in Int : Live(k) => Content(k)
          /\ \A b \in Blocks : ~Listed(b) => Empty(b)
          /\ NoBlock \notin Blocks /\ Window' \subseteq Int
      BY <2>1, <2>3, <2>4, ContentsParts, EntryFacts, WindowFacts DEF Sound
    <3>2. \A i : (Stored(i)' <=> Stored(i)) /\ (Moved(i)' <=> Moved(i))
      BY <2>2 DEF Stored, Moved
    <3>3. \A k \in Int : Live(k)' => Content(k)'
      BY <2>2, <2>4, <3>1, <3>2 DEF Content, Key
    <3>4. \A b \in Blocks : ~Listed(b)' => Empty(b)'
      BY <2>2, <2>4, <3>1 DEF Listed, Empty
    <3> QED BY <3>1, <3>3, <3>4, ContentsNext
  <2>12. Working'
    BY <2>2, <2>3, <2>4, <2>7, <2>8, <2>9, <2>10, <2>11 DEF Working, Sound
  <2> QED BY <1>1, <1>2, <1>5, <2>2, <2>12 DEF IInv
<1> QED BY <1>3, <1>4, <1>5

(***************************************************************************)
(* The inductive invariant holds: enqueue(), dequeue() and the destructors *)
(* keep the window of block numbers, the counters of the blocks, the       *)
(* elements in them and the places where the blocks are, at every access.  *)
(***************************************************************************)
THEOREM SpecIInv == Spec => []IInv
<1>1. Init => IInv
  BY InitIInv
<1>2. IInv /\ [Next]_vars => IInv'
  <2> SUFFICES ASSUME IInv, [Next]_vars PROVE IInv'
    OBVIOUS
  <2>1. CASE UNCHANGED vars
    BY <2>1, Stuttering
  <2>2. CASE Next
    <3>1. ppc # "destroyed"
      BY <2>2, DestroyedIsLast DEF IInv
    <3>2. CASE indices = <<>>
      <4>1. TypeOK /\ Owned /\ Fresh
        BY <3>1, <3>2 DEF IInv
      <4>2. CASE Destroy
        <5>1. ppc' = "destroyed"
          BY <4>2 DEF Destroy, PGoto
        <5> QED BY <4>1, <4>2, <5>1, FreshDestroyTears DEF IInv
      <4>3. CASE ProducerStep \/ \E c \in Consumers : ConsumerStep(c)
        <5>1. TypeOK' /\ Owned' /\ Fresh' /\ indices' = <<>>
          BY <3>2, <4>1, <4>3, FreshSteps
        <5>2. ppc' # "destroyed"
          BY <5>1 DEF Fresh
        <5> QED BY <5>1, <5>2 DEF IInv
      <4> QED BY <2>2, <4>2, <4>3 DEF Next
    <3>3. CASE indices # <<>>
      <4>1. TypeOK /\ Owned /\ Working
        BY <3>1, <3>3 DEF IInv
      <4>2. CASE Destroy
        <5>1. ppc' = "destroyed"
          BY <4>2 DEF Destroy, PGoto
        <5> QED BY <4>1, <4>2, <5>1, DestroyTears DEF IInv
      <4>3. CASE ProducerStep \/ \E c \in Consumers : ConsumerStep(c)
        <5>1. TypeOK' /\ Owned' /\ Working' /\ indices' # <<>>
          BY <4>1, <4>3, WorkingSteps
        <5>2. ppc' # "destroyed"
          BY <3>1, <4>1, <4>3, ProducerMoves, ConsumerMoves
        <5> QED BY <5>1, <5>2 DEF IInv
      <4> QED BY <2>2, <4>2, <4>3 DEF Next
    <3> QED BY <3>2, <3>3
  <2> QED BY <2>1, <2>2
<1> QED BY <1>1, <1>2, PTL DEF Spec
--------------------------------------------------------------------------------
(***************************************************************************)
(* What the invariant says of the code.                                    *)
(***************************************************************************)
LEMMA FindsEntry ==
  ASSUME IInv
  PROVE  EntryIsFound
<1>1. CASE ppc = "destroyed" \/ indices = <<>>
  <2>1. \A c \in Consumers : cpc[c] = "idle"
    BY <1>1, Zenon DEF IInv, Torn, Fresh
  <2> QED BY <2>1, Zenon DEF EntryIsFound
<1>2. CASE ppc # "destroyed" /\ indices # <<>>
  <2>1. /\ TypeOK /\ Sound /\ Searching /\ Indexed /\ Keyed
    BY <1>2 DEF IInv, Working, Sound
  <2> SUFFICES ASSUME NEW c \in Consumers
               PROVE  /\ cpc[c] = "base" => TailBase(c) # InvalidBase
                      /\ cpc[c] \in {"value", "move", "count", "release"} =>
                           /\ entries[at[c].entry].key = Base(taking[c])
                           /\ entries[at[c].entry].value \in Blocks
    BY Zenon DEF EntryIsFound
  <2> DEFINE k == Num(taking[c])
  <2>2. taking[c] \in Int /\ k \in Int /\ Base(taking[c]) = Key(k)
    BY <2>1, NumberOfTaking, Numbers
  <2>3. cpc[c] \in Inside => Found(c, k)
    BY <2>1 DEF Searching
  <2> HIDE DEF k
  <2>4. ASSUME cpc[c] = "base" PROVE TailBase(c) # InvalidBase
    <3>1. Leads(at[c].index, at[c].tail, k)
      BY <2>3, <2>4 DEF Found, Inside
    <3>2. PICK K \in k .. Num(tail) :
            indices[at[c].index].index[at[c].tail] = Slot(K) /\ KeyAt(K) = Key(K)
      BY <3>1 DEF Leads
    <3>3. K \in Int
      <4>1. Num(tail) \in Int
        BY <2>1, HeaderFacts
      <4> QED BY <2>2, <3>2, <4>1
    <3> QED BY <3>2, <3>3, Keys DEF TailBase, TailBaseOf, KeyAt
  <2>5. ASSUME cpc[c] \in {"value", "move", "count", "release"}
        PROVE  /\ entries[at[c].entry].key = Base(taking[c])
               /\ entries[at[c].entry].value \in Blocks
    <3>1. at[c].entry = Slot(k) /\ Live(k)
      BY <2>3, <2>5 DEF Found, Inside
    <3>2. KeyAt(k) = Key(k) /\ BlockAt(k) \in Blocks
      BY <2>1, <3>1 DEF Keyed, Live
    <3> QED BY <2>2, <3>1, <3>2 DEF KeyAt, BlockAt
  <2> QED BY <2>4, <2>5
<1> QED BY <1>1, <1>2

LEMMA ReadsOwn ==
  ASSUME IInv
  PROVE  ReadsOwnElement
<1>1. CASE ppc = "destroyed" \/ indices = <<>>
  <2>1. \A c \in Consumers : cpc[c] = "idle"
    BY <1>1, Zenon DEF IInv, Torn, Fresh
  <2> QED BY <2>1, Zenon DEF ReadsOwnElement
<1>2. CASE ppc # "destroyed" /\ indices # <<>>
  <2>1. /\ TypeOK /\ Sound /\ Searching /\ Dispensed /\ Contents /\ Indexed
    BY <1>2 DEF IInv, Working, Sound
  <2> SUFFICES ASSUME NEW c \in Consumers, cpc[c] = "move"
               PROVE  slots[block[c]][taking[c] % BlockSize] = taking[c]
    BY DEF ReadsOwnElement
  <2> DEFINE k == Num(taking[c])
             o == taking[c] % BlockSize
  <2>2. /\ taking[c] \in Nat /\ taking[c] < head /\ k \in Int /\ o \in Offsets
        /\ taking[c] = Key(k) + o
    BY <2>1, OwnNotOut DEF Inside
  <2>3. Live(k) /\ block[c] = BlockAt(k)
    BY <2>1 DEF Searching, Found, Inside
  <2> HIDE DEF k, o
  <2>4. Content(k)
    BY <2>1, <2>2, <2>3, ContentsParts
  <2>5. Stored(taking[c]) /\ ~Moved(taking[c])
    <3>1. head <= tail /\ head \in Nat /\ tail \in Nat
      BY <2>1, MaxElementsAssumption DEF TypeOK, Dispensed
    <3> QED BY <2>2, <3>1 DEF Stored, Moved
  <2>6. slots[block[c]][o] = taking[c]
    BY <2>2, <2>3, <2>4, <2>5 DEF Content
  <2> QED BY <2>6 DEF o
<1> QED BY <1>1, <1>2

LEMMA OwnedOnce ==
  ASSUME IInv
  PROVE  BlocksAreOwnedOnce
<1> SUFFICES ASSUME ppc # "destroyed", NEW b \in Blocks PROVE Holders(b) = 1
  BY DEF BlocksAreOwnedOnce
<1> DEFINE P == {p \in {"pool", "heap", "free", "new"} :
                   \/ p = "pool" /\ b \in pool
                   \/ p = "heap" /\ b \in heap
                   \/ p = "free" /\ b \in free
                   \/ p = "new" /\ b = newBlock}
<1>1. Holders(b) = Cardinality(P) + Cardinality(Listing(b)) + Cardinality(Adding(b))
  BY DEF Holders, Listing, Adding
<1>2. Single(b)
  BY DEF IInv, Owned, Single
<1>3. /\ Cardinality({}) = 0 /\ \A x : Cardinality({x}) = 1
  BY FS_EmptySet, FS_Singleton
<1>4. CASE b \in pool \cup heap \cup free \cup {newBlock}
  <2>1. Listing(b) = {} /\ Adding(b) = {}
    BY <1>2, <1>4 DEF Single
  <2>2. P = {"pool"} \/ P = {"heap"} \/ P = {"free"} \/ P = {"new"}
    <3>1. CASE b \in pool
      BY <1>2, <3>1 DEF Single
    <3>2. CASE b \in heap
      BY <1>2, <3>2 DEF Single
    <3>3. CASE b \in free
      BY <1>2, <3>3 DEF Single
    <3>4. CASE b = newBlock
      BY <1>2, <3>4 DEF Single
    <3> QED BY <1>4, <3>1, <3>2, <3>3, <3>4
  <2>3. Cardinality(P) = 1
    BY <1>3, <2>2
  <2> QED BY <1>1, <1>3, <2>1, <2>3
<1>5. CASE b \notin pool \cup heap \cup free \cup {newBlock}
  <2>1. P = {}
    BY <1>5
  <2> HIDE DEF P
  <2>2. CASE Listing(b) # {}
    <3>1. PICK e \in Listing(b) : Listing(b) = {e}
      BY <1>2, <2>2 DEF Single
    <3>2. Adding(b) = {}
      BY <1>2, <2>2 DEF Single
    <3>3. Cardinality(Listing(b)) = 1 /\ Cardinality(Adding(b)) = 0 /\ Cardinality(P) = 0
      BY <2>1, <3>1, <3>2, FS_EmptySet, FS_Singleton
    <3> QED BY <1>1, <3>3
  <2>3. CASE Listing(b) = {}
    <3>1. PICK c \in Adding(b) : Adding(b) = {c}
      BY <1>2, <1>5, <2>3 DEF Single
    <3>2. Cardinality(Adding(b)) = 1 /\ Cardinality(Listing(b)) = 0 /\ Cardinality(P) = 0
      BY <2>1, <2>3, <3>1, FS_EmptySet, FS_Singleton
    <3> QED BY <1>1, <3>2
  <2> QED BY <2>2, <2>3
<1> QED BY <1>4, <1>5

LEMMA EmptyGivenBack ==
  ASSUME IInv
  PROVE  GivenBackEmpty
<1> SUFFICES ASSUME NEW b \in Blocks,
                    b \in free \/ \E c \in Consumers : cpc[c] \in {"release", "add"} /\ block[c] = b
             PROVE  Empty(b)
  BY DEF GivenBackEmpty, Empty
<1>1. CASE ppc = "destroyed" \/ indices = <<>>
  BY <1>1 DEF IInv, Torn, Fresh, TeardownIsComplete, Empty
<1>2. CASE ppc # "destroyed" /\ indices # <<>>
  <2>1. /\ TypeOK /\ Sound /\ Owned /\ Searching /\ Dispensed /\ Counted /\ Contents /\ Indexed
    BY <1>2 DEF IInv, Working, Sound
  <2>2. Listing(b) = {} => Empty(b)
    BY <2>1, ContentsParts, Unlisted
  <2>3. b \in free => Listing(b) = {}
    BY <2>1 DEF Owned
  <2>4. ASSUME NEW c \in Consumers, cpc[c] = "add", block[c] = b PROVE Listing(b) = {}
    <3>1. c \in Adding(b)
      BY <2>4 DEF Adding
    <3> QED BY <2>1, <3>1 DEF Owned
  <2>5. ASSUME NEW c \in Consumers, cpc[c] = "release", block[c] = b PROVE Empty(b)
    <3> DEFINE k == Num(taking[c])
    <3>1. k \in Int /\ Live(k) /\ b = BlockAt(k) /\ OutOf(k) = Offsets
      BY <2>1, <2>5, NumberOfTaking DEF Searching, Found, Inside, Counted
    <3> HIDE DEF k
    <3>2. \A o \in Offsets : Moved(Key(k) + o)
      <4>1. \A o \in Offsets : Out(Key(k) + o)
        BY <3>1 DEF OutOf
      <4> QED BY <4>1 DEF Out, Moved
    <3>3. Content(k)
      BY <2>1, <3>1, ContentsParts
    <3> QED BY <3>1, <3>2, <3>3 DEF Content, Empty
  <2> QED BY <2>2, <2>3, <2>4, <2>5
<1> QED BY <1>1, <1>2

LEMMA GrowsFull ==
  ASSUME IInv
  PROVE  GrowsWhenFull
<1> SUFFICES ASSUME ppc = "grow", NEW k \in 1 .. Capacity
             PROVE  \E e \in DOMAIN entries : entries[e].key = tail - k * BlockSize
  BY DEF GrowsWhenFull, Capacity
<1>1. TypeOK /\ Indexed /\ Progress /\ Keyed
  BY DEF IInv, Fresh, Working
<1>2. tail \in Nat /\ tail % BlockSize = 0 /\ KeyAt(Oldest) = Key(Oldest)
  BY <1>1, MaxElementsAssumption DEF TypeOK, Progress
<1> DEFINE N == Num(tail)
<1>3. N \in Nat /\ Key(N) = tail /\ Newest = N - 1
  BY <1>2, NextNumber DEF Newest
<1> HIDE DEF N
<1>4. /\ Capacity \in Nat /\ Oldest = N - Capacity /\ Oldest \in Window /\ Window \subseteq Int
      /\ N - k \in Oldest .. Newest
  BY <1>1, <1>3, WindowFacts
<1>5. KeyAt(N - k) = Key(N - k) /\ Slot(N - k) \in DOMAIN entries
  BY <1>1, <1>2, <1>4, SlotFacts DEF Keyed
<1>6. Key(N - k) = tail - k * BlockSize
  <2>1. BlockSize \in Nat /\ k \in Nat
    BY <1>4, SizesAssumption
  <2>2. BlockSize * (N - k) = BlockSize * N - k * BlockSize
    BY <1>3, <2>1
  <2> QED BY <1>3, <2>2 DEF Key
<1> QED BY <1>5, <1>6 DEF KeyAt

(***************************************************************************)
(* Every variable keeps its type: there may be no block index (2259), an   *)
(* entry may hold what was never stored (2810-2812), and neither ever gets *)
(* into a consumer's hands, whose block is always a block or nullptr.      *)
(***************************************************************************)
THEOREM SpecTypeOK == Spec => []TypeOK
<1>1. IInv => TypeOK
  BY DEF IInv
<1> QED BY <1>1, SpecIInv, PTL

(***************************************************************************)
(* However old the index and the tail that a consumer read, and whatever   *)
(* growth, failed allocation or release came between, the entry computed   *)
(* from them is the one of the consumer's own block (2774-2782).           *)
(***************************************************************************)
THEOREM SpecEntryIsFound == Spec => []EntryIsFound
<1>1. IInv => EntryIsFound
  BY FindsEntry
<1> QED BY <1>1, SpecIInv, PTL

(***************************************************************************)
(* A consumer moves out the element of its own index: its block is neither *)
(* given back nor filled again while it is on its way (2383-2402).         *)
(***************************************************************************)
THEOREM SpecReadsOwnElement == Spec => []ReadsOwnElement
<1>1. IInv => ReadsOwnElement
  BY ReadsOwn
<1> QED BY <1>1, SpecIInv, PTL

(***************************************************************************)
(* Until the destructors run no block is leaked and none is in two places, *)
(* however the allocations fail, the first one of a block index included,  *)
(* and the consumers that empty a block race (2333-2343, 2430-2440).       *)
(***************************************************************************)
THEOREM SpecBlocksAreOwnedOnce == Spec => []BlocksAreOwnedOnce
<1>1. IInv => BlocksAreOwnedOnce
  BY OwnedOnce
<1> QED BY <1>1, SpecIInv, PTL

(***************************************************************************)
(* set_empty reports a block empty only when every element of it has been  *)
(* moved out (1448-1450), and it stays empty in the free list.             *)
(***************************************************************************)
THEOREM SpecGivenBackEmpty == Spec => []GivenBackEmpty
<1>1. IInv => GivenBackEmpty
  BY EmptyGivenBack
<1> QED BY <1>1, SpecIInv, PTL

(***************************************************************************)
(* The destructors free every block that was allocated once and destroy    *)
(* every element that is left, wherever head and tail stand (2262-2300).   *)
(***************************************************************************)
THEOREM SpecTeardownIsComplete == Spec => []TeardownIsComplete
<1>1. IInv => TeardownIsComplete
  BY DEF IInv, Torn, TeardownIsComplete
<1> QED BY <1>1, SpecIInv, PTL

(***************************************************************************)
(* Whatever allocations failed before, enqueue() lets the index grow only  *)
(* when the entries have the keys of as many blocks as it has room for, up *)
(* to the last one (2730-2743); its failures reset their entries (2342).   *)
(***************************************************************************)
THEOREM SpecGrowsWhenFull == Spec => []GrowsWhenFull
<1>1. IInv => GrowsWhenFull
  BY GrowsFull
<1> QED BY <1>1, SpecIInv, PTL

(***************************************************************************)
(* The producer and its consumers use tail and head as IndexDispenser says *)
(* they may: every step publishes an element, gives an index, takes one,   *)
(* or leaves the counters alone.  SubQueue implements the same promise.    *)
(***************************************************************************)
THEOREM UsesDispenser == Spec => DispenserSpec
<1> DEFINE d == <<tail, head, taking>>
<1>1. Init => DispenserInit
  BY DEF Init
<1>2. [Next]_vars => [DispenserNext]_d
  <2> SUFFICES ASSUME [Next]_vars PROVE [DispenserNext]_d
    OBVIOUS
  <2>1. CASE UNCHANGED vars
    BY <2>1 DEF vars
  <2>2. CASE ProducerStep
    BY <2>2 DEF ProducerStep, InsideBlock, StartBlock, StartWithoutIndex,
       Grow, GrowFails, StoreKey, StoreTail,
       Requisition, RequisitionFails, Rewind, ClearEntry, Install, Write, PublishElement,
       dispenser, DispenserNext
  <2>3. CASE Destroy
    BY <2>3 DEF Destroy, dispenser
  <2>4. ASSUME NEW c \in Consumers, ConsumerStep(c) PROVE [DispenserNext]_d
    BY <2>4 DEF ConsumerStep, ClaimIndex, LoadIndex, LoadIndexTail, FindEntry, LoadBlock, MoveOut,
       SetEmpty, Release, AddToFreeList, dispenser, DispenserNext
  <2> QED BY <2>1, <2>2, <2>3, <2>4 DEF Next
<1> QED BY <1>1, <1>2, PTL DEF Spec, DispenserSpec
================================================================================
