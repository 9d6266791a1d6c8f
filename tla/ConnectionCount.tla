---------------------------- MODULE ConnectionCount ----------------------------
(***************************************************************************)
(* What the CONNECT branch of the server's event loop does to the LMDB     *)
(* datastore (server.cpp:247-278).  The datastore is a function from the   *)
(* client identifiers stored in it to their one-byte counters.             *)
(*                                                                         *)
(* A client identifier is the enet_uint32 of the CONNECT event; 0 means    *)
(* that the client gave none.  LMDB orders keys by their bytes: on the     *)
(* single-byte identifiers used here that is the order of the naturals.    *)
(***************************************************************************)
EXTENDS Naturals

CONSTANTS ClientIds,   (* the identifiers a client may give; never 0       *)
          CountMod     (* number of values of a counter: 256 in the code   *)

ASSUME ClientIdsAssumption == ClientIds \subseteq Nat \ {0}
ASSUME CountModAssumption == CountMod \in Nat \ {0}

Counts == 0 .. CountMod - 1

(* Every datastore: some identifiers, each with a counter. *)
Datastore == UNION {[S -> Counts] : S \in SUBSET ClientIds}

EmptyStore == [k \in {} |-> 0]

(* The key of the record a cursor positioned with MDB_FIRST finds. *)
FirstKey(d) == CHOOSE k \in DOMAIN d : \A j \in DOMAIN d : k <= j

(* Mutant: the counter is wider than its record. *)
IncrementWide(count) == count + 1

(* make_val(count) after ++count on a std::uint8_t. *)
Increment(count) == (count + 1) % CountMod

(* Mutant: the counter that was read is not used. *)
LookupKeyOnly(d, id) ==
  [key |-> IF DOMAIN d = {} THEN id ELSE FirstKey(d), count |-> 0]

(***************************************************************************)
(* cursor.get(key, value, MDB_FIRST) looks at the first record of the      *)
(* datastore and, when there is one, makes both `key` and `value` point at *)
(* it.  Only in an empty datastore does `key` still hold the identifier of *)
(* the client that connects.                                               *)
(***************************************************************************)
Lookup(d, id) ==
  IF DOMAIN d = {} THEN [key |-> id, count |-> 0]
                   ELSE [key |-> FirstKey(d), count |-> d[FirstKey(d)]]

(* ++count; dbi.put(txn, key, value); txn.commit(). *)
Put(d, entry) ==
  [k \in DOMAIN d \cup {entry.key} |->
     IF k = entry.key THEN Increment(entry.count) ELSE d[k]]

(* The whole branch, for a server that does not crash half-way. *)
RecordConnection(d, id) == IF id = 0 THEN d ELSE Put(d, Lookup(d, id))
================================================================================
