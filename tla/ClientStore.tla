------------------------------ MODULE ClientStore ------------------------------
(***************************************************************************)
(* The datastore over the life of the server and across its restarts.      *)
(* Every CONNECT event whose client gave an identifier runs one LMDB       *)
(* transaction on the main thread, the only writer (server.cpp:251-275).   *)
(* LMDB itself is external: a transaction that is not committed when the   *)
(* process dies leaves no trace, one that is committed stays.              *)
(***************************************************************************)
EXTENDS ConnectionCount

CONSTANT MaxConnects   (* bound on the number of committed transactions *)

ASSUME MaxConnectsAssumption == MaxConnects \in Nat

VARIABLES
  db,        (* the committed content of the datastore                     *)
  txn,       (* the open transaction: the entry it read, or NoTxn          *)
  client,    (* the client the open transaction is for; 0 when there is none *)
  connects,  (* history: committed connections of each client              *)
  total      (* history: committed connections of all the clients          *)

vars == <<db, txn, client, connects, total>>

NoTxn == [key |-> 0, count |-> 0]

Entries == [key : ClientIds, count : Counts]

(* Every variable has its type. *)
TypeOK ==
  /\ db \in Datastore
  /\ txn \in Entries \cup {NoTxn}
  /\ client \in ClientIds \cup {0}
  /\ connects \in [ClientIds -> Nat]
  /\ total \in Nat

Init ==
  /\ db = EmptyStore
  /\ txn = NoTxn
  /\ client = 0
  /\ connects = [c \in ClientIds |-> 0]
  /\ total = 0

(* A client connects and gives its identifier: the transaction reads. *)
BeginConnect(id) ==
  /\ client = 0
  /\ total < MaxConnects
  /\ client' = id
  /\ txn' = Lookup(db, id)
  /\ UNCHANGED <<db, connects, total>>

(* The transaction writes and commits. *)
CommitConnect ==
  /\ client # 0
  /\ db' = Put(db, txn)
  /\ txn' = NoTxn
  /\ client' = 0
  /\ connects' = [connects EXCEPT ![client] = @ + 1]
  /\ total' = total + 1

(* The process dies inside a transaction and is started again. *)
CrashRestart ==
  /\ client # 0
  /\ txn' = NoTxn
  /\ client' = 0
  /\ UNCHANGED <<db, connects, total>>

Next ==
  \/ \E id \in ClientIds : BeginConnect(id)
  \/ CommitConnect
  \/ CrashRestart

Spec == Init /\ [][Next]_vars

(***************************************************************************)
(* The datastore never holds more than one record, and that record counts  *)
(* the committed connections of ALL the clients, modulo the range of its   *)
(* one-byte counter: no crash makes it count a connection twice or forget  *)
(* one (server.cpp:255-274).                                               *)
(***************************************************************************)
OneRecordCountsAll ==
  IF total = 0
    THEN DOMAIN db = {}
    ELSE \E c \in ClientIds : db = [k \in {c} |-> total % CountMod]

(***************************************************************************)
(* What the log lines of the branch call the count: the "Last client       *)
(* count" of the client whose "Client ID" was logged, and "First           *)
(* connection." when it has none (server.cpp:254, 264, 268).  The record   *)
(* the transaction read would be the record of the client that connects.   *)
(***************************************************************************)
CountIsOfThisClient ==
  client # 0 => /\ txn.key = client
                /\ txn.count = connects[client] % CountMod
================================================================================
