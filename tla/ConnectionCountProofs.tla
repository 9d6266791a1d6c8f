------------------------- MODULE ConnectionCountProofs -------------------------
(***************************************************************************)
(* Facts about the CONNECT transaction.  A datastore that this code wrote  *)
(* has one record at most, so its first record is its only one.            *)
(***************************************************************************)
EXTENDS ConnectionCount, TLAPS

(* A datastore with one record at most. *)
Single(d) == DOMAIN d = {} \/ \E c \in ClientIds : DOMAIN d = {c}

LEMMA FirstKeyOfSingle ==
  ASSUME NEW d, NEW c \in ClientIds, DOMAIN d = {c}
  PROVE  FirstKey(d) = c
<1>1. c \in Nat
  BY ClientIdsAssumption
<1>2. c \in DOMAIN d /\ \A j \in DOMAIN d : c <= j
  BY <1>1
<1>3. \A k \in DOMAIN d : k = c
  OBVIOUS
<1> QED BY <1>2, <1>3 DEF FirstKey

LEMMA IncrementType ==
  ASSUME NEW n \in Nat
  PROVE  Increment(n) \in Counts
  BY CountModAssumption DEF Increment, Counts

LEMMA DatastoreValues ==
  ASSUME NEW d \in Datastore
  PROVE  /\ DOMAIN d \subseteq ClientIds
         /\ \A k \in DOMAIN d : d[k] \in Counts
         /\ d = [k \in DOMAIN d |-> d[k]]
  BY DEF Datastore

(* The entry a transaction reads: the only record, or a new one. *)
LEMMA LookupSingle ==
  ASSUME NEW d \in Datastore, Single(d), NEW id \in ClientIds
  PROVE  /\ Lookup(d, id) \in [key : ClientIds, count : Counts]
         /\ DOMAIN d \cup {Lookup(d, id).key} = {Lookup(d, id).key}
         /\ DOMAIN d = {} => Lookup(d, id) = [key |-> id, count |-> 0]
         /\ DOMAIN d # {} => Lookup(d, id).count = d[Lookup(d, id).key]
<1>0. 0 \in Counts
  BY CountModAssumption DEF Counts
<1>1. CASE DOMAIN d = {}
  BY <1>0, <1>1 DEF Lookup
<1>2. CASE DOMAIN d # {}
  <2>1. PICK c \in ClientIds : DOMAIN d = {c}
    BY <1>2 DEF Single
  <2>2. FirstKey(d) = c
    BY <2>1, FirstKeyOfSingle
  <2>3. d[c] \in Counts
    BY <2>1, DatastoreValues
  <2>4. Lookup(d, id) = [key |-> c, count |-> d[c]]
    BY <2>1, <2>2 DEF Lookup
  <2> QED BY <2>1, <2>3, <2>4
<1> QED BY <1>1, <1>2

(* What a transaction leaves behind: one record. *)
LEMMA PutSingle ==
  ASSUME NEW d, NEW entry \in [key : ClientIds, count : Counts],
         DOMAIN d \cup {entry.key} = {entry.key}
  PROVE  /\ Put(d, entry) = [k \in {entry.key} |-> Increment(entry.count)]
         /\ Put(d, entry) \in Datastore
         /\ Single(Put(d, entry))
<1>1. Put(d, entry) = [k \in {entry.key} |-> Increment(entry.count)]
  BY DEF Put
<1>2. entry.key \in ClientIds /\ Increment(entry.count) \in Counts
  BY IncrementType DEF Counts
<1>3. [k \in {entry.key} |-> Increment(entry.count)] \in [{entry.key} -> Counts]
  BY <1>2
<1>4. {entry.key} \in SUBSET ClientIds
  BY <1>2
<1>5. Put(d, entry) \in Datastore
  BY <1>1, <1>3, <1>4 DEF Datastore
<1>6. DOMAIN Put(d, entry) = {entry.key}
  BY <1>1
<1> QED BY <1>1, <1>2, <1>5, <1>6 DEF Single

(* The CONNECT branch keeps the datastore a datastore of one record. *)
LEMMA RecordConnectionSingle ==
  ASSUME NEW d \in Datastore, Single(d), NEW id \in ClientIds \cup {0}
  PROVE  RecordConnection(d, id) \in Datastore /\ Single(RecordConnection(d, id))
<1>1. CASE id = 0
  BY <1>1 DEF RecordConnection
<1>2. CASE id # 0
  <2>1. id \in ClientIds
    BY <1>2
  <2>2. /\ Lookup(d, id) \in [key : ClientIds, count : Counts]
        /\ DOMAIN d \cup {Lookup(d, id).key} = {Lookup(d, id).key}
    BY <2>1, LookupSingle
  <2>3. Put(d, Lookup(d, id)) \in Datastore /\ Single(Put(d, Lookup(d, id)))
    BY <2>2, PutSingle
  <2> QED BY <2>3, <1>2 DEF RecordConnection
<1> QED BY <1>1, <1>2

LEMMA EmptyStoreSingle == EmptyStore \in Datastore /\ Single(EmptyStore)
<1>1. DOMAIN EmptyStore = {}
  BY DEF EmptyStore
<1>2. EmptyStore \in [{} -> Counts]
  BY DEF EmptyStore
<1>3. {} \in SUBSET ClientIds
  OBVIOUS
<1> QED BY <1>1, <1>2, <1>3 DEF Datastore, Single
================================================================================
