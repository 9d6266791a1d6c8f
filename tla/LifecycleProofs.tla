----------------------------- MODULE LifecycleProofs -----------------------------
(***************************************************************************)
(* Theorems of the life of the server and of its datastore, for every set  *)
(* of identifiers, every counter range and any number of connections,      *)
(* crashes, workers and signals.                                           *)
(***************************************************************************)
EXTENDS Lifecycle, ConnectionCountProofs, SequenceTheorems

(* Arithmetic modulo a positive number that is not a literal. *)
LEMMA ModuloUnique ==
  ASSUME NEW M \in Nat \ {0}, NEW q \in Nat, NEW r \in 0 .. M - 1
  PROVE  (M * q + r) % M = r
  BY Z3T(30)

LEMMA ModuloDivision ==
  ASSUME NEW M \in Nat \ {0}, NEW n \in Nat
  PROVE  /\ n = M * (n \div M) + (n % M)
         /\ n \div M \in Nat
         /\ n % M \in 0 .. M - 1
  OBVIOUS

LEMMA ModuloSuccessor ==
  ASSUME NEW M \in Nat \ {0}, NEW n \in Nat
  PROVE  ((n % M) + 1) % M = (n + 1) % M
<1> DEFINE q == n \div M
           r == n % M
<1>1. n = M * q + r /\ q \in Nat /\ r \in 0 .. M - 1
  BY ModuloDivision
<1> HIDE DEF q, r
<1>2. CASE r + 1 < M
  <2>1. n + 1 = M * q + (r + 1) /\ r + 1 \in 0 .. M - 1
    BY <1>1, <1>2
  <2>2. (n + 1) % M = r + 1
    BY <2>1, <1>1, ModuloUnique
  <2>3. r + 1 = M * 0 + (r + 1)
    BY <1>1
  <2>4. (r + 1) % M = r + 1
    BY <2>1, <2>3, ModuloUnique
  <2> QED BY <2>2, <2>4 DEF r
<1>3. CASE r + 1 = M
  <2>1. n + 1 = M * (q + 1) + 0
    BY <1>1, <1>3
  <2>2. (n + 1) % M = 0
    BY <2>1, <1>1, ModuloUnique
  <2>3. r + 1 = M * 1 + 0
    BY <1>1, <1>3
  <2>4. (r + 1) % M = 0
    BY <2>3, ModuloUnique
  <2> QED BY <2>2, <2>4 DEF r
<1> QED BY <1>1, <1>2, <1>3

(***************************************************************************)
(* The open transaction read the record as it still is: there is no other  *)
(* writer between its read and its commit.  The record's key is the entry's *)
(* key, and its counter the committed total.                               *)
(***************************************************************************)
TxnIsCurrent ==
  client # 0 =>
    /\ txn \in Entries
    /\ DOMAIN db \cup {txn.key} = {txn.key}
    /\ txn.count = total % CountMod

IInv == TypeOK /\ OneRecordCountsAll /\ TxnIsCurrent

LEMMA SingleStore ==
  ASSUME TypeOK, OneRecordCountsAll
  PROVE  /\ Single(db)
         /\ \A k \in DOMAIN db : db[k] = total % CountMod
         /\ DOMAIN db = {} <=> total = 0
  BY DEF OneRecordCountsAll, Single

LEMMA NextCount ==
  ASSUME NEW n \in Nat
  PROVE  /\ Increment(n % CountMod) = (n + 1) % CountMod
         /\ 0 % CountMod = 0
<1>1. PICK M \in Nat \ {0} : M = CountMod
  BY CountModAssumption
<1>2. ((n % M) + 1) % M = (n + 1) % M
  BY ModuloSuccessor
<1>3. 0 % M = 0
  OBVIOUS
<1> QED BY <1>1, <1>2, <1>3 DEF Increment

LEMMA InitEstablishesIInv == Init => IInv
<1> SUFFICES ASSUME Init PROVE IInv
  OBVIOUS
<1>1. TypeOK
  BY EmptyStoreSingle DEF Init, TypeOK
<1>2. OneRecordCountsAll
  BY DEF Init, OneRecordCountsAll, EmptyStore
<1>3. TxnIsCurrent
  BY DEF Init, TxnIsCurrent
<1> QED BY <1>1, <1>2, <1>3 DEF IInv

LEMMA NextPreservesIInv == IInv /\ [Next]_vars => IInv'
<1> SUFFICES ASSUME IInv, [Next]_vars PROVE IInv'
  OBVIOUS
<1> USE DEF IInv
<1>0. 0 \notin ClientIds
  BY ClientIdsAssumption
<1>1. ASSUME NEW id \in ClientIds, BeginConnect(id) PROVE IInv'
  <2>1. /\ txn' \in Entries
        /\ DOMAIN db \cup {txn'.key} = {txn'.key}
        /\ DOMAIN db = {} => txn'.count = 0
        /\ DOMAIN db # {} => txn'.count = db[txn'.key] /\ txn'.key \in DOMAIN db
    BY <1>1, SingleStore, LookupSingle DEF BeginConnect, TypeOK, Entries
  <2>2. txn'.count = total % CountMod
    BY <2>1, SingleStore, NextCount DEF TypeOK
  <2>3. TypeOK'
    BY <1>1, <2>1 DEF BeginConnect, TypeOK
  <2>4. OneRecordCountsAll'
    BY <1>1 DEF BeginConnect, OneRecordCountsAll
  <2>5. TxnIsCurrent'
    BY <1>1, <2>1, <2>2 DEF BeginConnect, TxnIsCurrent
  <2> QED BY <2>3, <2>4, <2>5
<1>2. CASE CommitConnect
  <2>1. /\ txn \in Entries
        /\ DOMAIN db \cup {txn.key} = {txn.key}
        /\ txn.count = total % CountMod
    BY <1>2 DEF CommitConnect, TxnIsCurrent
  <2>2. /\ db' = [k \in {txn.key} |-> Increment(txn.count)]
        /\ db' \in Datastore
    BY <1>2, <2>1, PutSingle DEF CommitConnect, Entries
  <2>3. Increment(txn.count) = total' % CountMod /\ total' \in Nat /\ total' # 0
    BY <1>2, <2>1, NextCount DEF CommitConnect, TypeOK
  <2>4. connects' \in [ClientIds -> Nat]
    BY <1>2 DEF CommitConnect, TypeOK
  <2>5. TypeOK'
    BY <1>2, <2>2, <2>3, <2>4 DEF CommitConnect, TypeOK
  <2>6. OneRecordCountsAll'
    BY <2>1, <2>2, <2>3 DEF OneRecordCountsAll, Entries
  <2>7. TxnIsCurrent'
    BY <1>2 DEF CommitConnect, TxnIsCurrent
  <2> QED BY <2>5, <2>6, <2>7
<1>3. CASE CrashRestart
  BY <1>3 DEF CrashRestart, TypeOK, OneRecordCountsAll, TxnIsCurrent
<1>4. CASE UNCHANGED vars
  BY <1>4 DEF vars, TypeOK, OneRecordCountsAll, TxnIsCurrent
<1> QED BY <1>1, <1>2, <1>3, <1>4 DEF Next

(***************************************************************************)
(* Every variable keeps its type: the counter stays in the range of its    *)
(* byte and the datastore holds identifiers of clients only.               *)
(***************************************************************************)
THEOREM ClientStoreTypeOK == Spec => []TypeOK
<1>1. Init => IInv
  BY InitEstablishesIInv
<1>2. IInv /\ [Next]_vars => IInv'
  BY NextPreservesIInv
<1>3. IInv => TypeOK
  BY DEF IInv
<1> QED BY <1>1, <1>2, <1>3, PTL DEF Spec

(***************************************************************************)
(* The datastore holds one record, which counts the committed connections  *)
(* of all the clients modulo the range of a counter, whatever the order of *)
(* the clients and wherever the server crashes (server.cpp:255-274).       *)
(***************************************************************************)
THEOREM OneRecordCountsAllClients == Spec => []OneRecordCountsAll
<1>1. Init => IInv
  BY InitEstablishesIInv
<1>2. IInv /\ [Next]_vars => IInv'
  BY NextPreservesIInv
<1>3. IInv => OneRecordCountsAll
  BY DEF IInv
<1> QED BY <1>1, <1>2, <1>3, PTL DEF Spec
--------------------------------------------------------------------------------
(* An action of main() or of a worker that leaves the store alone, or ends. *)
USE DEF lifevars, store, disk, logging

(***************************************************************************)
(* Whatever the process does and however it ends, the datastore goes       *)
(* through steps of ClientStore only: an end is its crash, or nothing      *)
(* (server.cpp:255-274).                                                   *)
(***************************************************************************)
THEOREM LifeImplementsStore == LifeSpec => Spec
<1>1. LifeInit => Init
  BY DEF LifeInit
<1>2. ASSUME NEW how, Ends(how)
      PROVE  [Next]_vars
  BY <1>2 DEF Ends, Next, vars
<1>3. ASSUME [LifeNext]_lifevars
      PROVE  [Next]_vars
  <2>1. CASE UNCHANGED lifevars
    BY <2>1 DEF vars
  <2>2. CASE Boot
    BY <2>2 DEF Boot, vars
  <2>3. CASE MainStep
    <3>1. CASE UNCHANGED store
      BY <3>1 DEF vars
    <3>2. CASE UnparsedSettings \/ WriteDefault \/ SetupFails \/ ServiceError \/ Return
      BY <1>2, <3>2 DEF UnparsedSettings, WriteDefault, SetupFails, ServiceError, Return
    <3>3. CASE \E id \in ClientIds : ServiceConnect(id)
      BY <3>3 DEF ServiceConnect, Next
    <3>4. CASE ServiceCommit
      BY <3>4 DEF ServiceCommit, Next
    <3>5. CASE LoadConfiguration \/ CreateFile \/ CreateLogger \/ RegisterSignalHandlers
               \/ (\E w \in Workers : Spawn(w)) \/ MainCheck \/ Service \/ Join \/ DropAll
      BY <3>1, <3>5 DEF LoadConfiguration, CreateFile, CreateLogger, RegisterSignalHandlers,
           Spawn, MainCheck, Service, Join, DropAll
    <3> QED
      BY <2>3, <3>2, <3>3, <3>4, <3>5 DEF MainStep
  <2>4. CASE Kill
    BY <1>2, <2>4 DEF Kill
  <2>5. CASE \E w \in Workers : WorkerStep(w)
    BY <2>5 DEF WorkerStep, WorkerGets, WorkerGot, WorkerEnds, WGoto, vars
  <2>6. CASE \E t \in Threads \cup {Ctrl} : \E signal \in PosixSignals \cup WindowsEvents : Deliver(t, signal)
    BY <2>6 DEF Deliver, vars
  <2>7. CASE \E t \in Threads \cup {Ctrl} : HandlerStep(t)
    BY <1>2, <2>7 DEF HandlerStep, HandlerGets, HandlerLogs, HandlerFaults, HandlerStores,
         DefaultHandler, HGoto, vars
  <2> QED
    BY <1>3, <2>1, <2>2, <2>3, <2>4, <2>5, <2>6, <2>7 DEF LifeNext
<1> QED
  BY <1>1, <1>3, PTL DEF LifeSpec, Spec

(***************************************************************************)
(* With any number of workers, restarts and signals the one record of the  *)
(* datastore counts the connections of all the clients.                    *)
(***************************************************************************)
THEOREM LifeCountsAllClients == LifeSpec => []OneRecordCountsAll
  BY LifeImplementsStore, OneRecordCountsAllClients, PTL

--------------------------------------------------------------------------------
(***************************************************************************)
(* What keeps the registry filled: it is so from the logger on, it is      *)
(* emptied only after the workers were joined, and then none is spawned.   *)
(***************************************************************************)
RegistryInv ==
  /\ wpc \in [Workers -> WorkerPlaces]
  /\ mpc \in {"register", "setup"} => registered
  /\ mpc \in {"drop", "dropping", "return"} => AllJoined
  /\ WorkersFindLogger

(* A process that ends leaves no worker. *)
LEMMA EndsKeepsRegistryInv ==
  ASSUME NEW how, Ends(how)
  PROVE  RegistryInv'
  BY DEF Ends, RegistryInv, NoWorker, WorkerPlaces, WorkersFindLogger

LEMMA MainKeepsRegistryInv ==
  ASSUME RegistryInv, MainStep
  PROVE  RegistryInv'
<1> USE DEF RegistryInv, WorkersFindLogger, AllJoined, WorkerPlaces
<1>1. CASE UnparsedSettings \/ WriteDefault \/ SetupFails \/ ServiceError \/ Return
  BY <1>1, EndsKeepsRegistryInv DEF UnparsedSettings, WriteDefault, SetupFails, ServiceError, Return
<1>2. CASE LoadConfiguration \/ CreateFile \/ CreateLogger \/ RegisterSignalHandlers
  BY <1>2 DEF LoadConfiguration, CreateFile, CreateLogger, RegisterSignalHandlers, MGoto
<1>3. CASE \E w \in Workers : Spawn(w)
  BY <1>3 DEF Spawn, MGoto
<1>4. CASE MainCheck \/ Service \/ (\E id \in ClientIds : ServiceConnect(id)) \/ ServiceCommit
  BY <1>4 DEF MainCheck, Service, ServiceConnect, ServiceCommit, MGoto
<1>5. CASE Join
  BY <1>5 DEF Join, MGoto
<1>6. CASE DropAll
  BY <1>6 DEF DropAll, MGoto
<1> QED
  BY <1>1, <1>2, <1>3, <1>4, <1>5, <1>6 DEF MainStep

LEMMA OthersKeepRegistryInv ==
  ASSUME RegistryInv,
         \/ Boot \/ Kill
         \/ \E w \in Workers : WorkerStep(w)
         \/ \E t \in Threads \cup {Ctrl} :
              \/ \E signal \in PosixSignals \cup WindowsEvents : Deliver(t, signal)
              \/ HandlerStep(t)
  PROVE  RegistryInv'
<1>1. CASE Boot
  BY <1>1 DEF Boot, RegistryInv, WorkersFindLogger, AllJoined
<1>2. CASE Kill
  BY <1>2, EndsKeepsRegistryInv DEF Kill
<1>3. CASE \E w \in Workers : WorkerStep(w)
  <2> PICK w \in Workers : WorkerStep(w)
    BY <1>3
  <2> QED
    BY DEF WorkerStep, WorkerGets, WorkerGot, WorkerEnds, WGoto, RegistryInv, WorkersFindLogger,
           AllJoined, WorkerPlaces
<1>4. CASE \E t \in Threads \cup {Ctrl} :
             \E signal \in PosixSignals \cup WindowsEvents : Deliver(t, signal)
  BY <1>4 DEF Deliver, RegistryInv, WorkersFindLogger, AllJoined
<1>5. CASE \E t \in Threads \cup {Ctrl} : HandlerStep(t)
  <2> PICK t \in Threads \cup {Ctrl} : HandlerStep(t)
    BY <1>5
  <2>1. CASE HandlerFaults(t) \/ DefaultHandler(t)
    BY <2>1, EndsKeepsRegistryInv DEF HandlerFaults, DefaultHandler
  <2>2. CASE HandlerGets(t) \/ HandlerLogs(t) \/ HandlerStores(t)
    BY <2>2 DEF HandlerGets, HandlerLogs, HandlerStores, HGoto, RegistryInv, WorkersFindLogger,
         AllJoined
  <2> QED
    BY <2>1, <2>2 DEF HandlerStep
<1> QED
  BY <1>1, <1>2, <1>3, <1>4, <1>5

(***************************************************************************)
(* No worker ever asks an emptied registry for its logger, whatever the    *)
(* number of workers and whenever the signals come (server.cpp:189, 320).  *)
(***************************************************************************)
THEOREM WorkersAlwaysFindLogger == LifeSpec => []WorkersFindLogger
<1>1. LifeInit => RegistryInv
  BY DEF LifeInit, RegistryInv, NoWorker, WorkerPlaces, WorkersFindLogger
<1>2. RegistryInv /\ [LifeNext]_lifevars => RegistryInv'
  <2>1. ASSUME RegistryInv, UNCHANGED lifevars
        PROVE  RegistryInv'
    BY <2>1 DEF RegistryInv, WorkersFindLogger, AllJoined
  <2> QED
    BY <2>1, MainKeepsRegistryInv, OthersKeepRegistryInv DEF LifeNext
<1>3. RegistryInv => WorkersFindLogger
  BY DEF RegistryInv
<1> QED
  BY <1>1, <1>2, <1>3, PTL DEF LifeSpec
--------------------------------------------------------------------------------
(***************************************************************************)
(* The types.  An agent that holds the mutex is a thread and the depth of  *)
(* its handlers, which is at most the number of signals.                   *)
(***************************************************************************)
OwnTypeOK ==
  /\ platform \in {"posix", "windows"} /\ config \in {"absent", "partial", "whole"}
  /\ mpc \in MainPlaces /\ wpc \in [Workers -> WorkerPlaces]
  /\ stop \in {0, 1}
  /\ holder \in Agents \cup {NoOne}
  /\ frames \in [Threads \cup {Ctrl} -> Seq(Frame)]
  /\ signals \in 0 .. MaxSignals
  /\ ended \in {"never", "error", "killed", "fault", "clean"}

HandlersNest == \A t \in Threads \cup {Ctrl} : Len(frames[t]) <= signals

LifeInv == OwnTypeOK /\ HandlersNest

LEMMA AgentTypes ==
  ASSUME NEW t \in Threads \cup {Ctrl}, NEW depth \in 0 .. MaxSignals
  PROVE  <<t, depth>> \in Agents
  BY DEF Agents

LEMMA EndsKeepsLifeInv ==
  ASSUME LifeInv, NEW how \in {"error", "killed", "fault", "clean"}, Ends(how), 
         platform' \in {"posix", "windows"}, config' \in {"absent", "partial", "whole"}
  PROVE  LifeInv'
<1>1. 0 \in 0 .. MaxSignals
  BY MaxSignalsAssumption
<1>2. NoFrames \in [Threads \cup {Ctrl} -> Seq(Frame)] /\ \A t \in Threads \cup {Ctrl} : Len(NoFrames[t]) = 0
  BY DEF NoFrames
<1>3. NoWorker \in [Workers -> WorkerPlaces]
  BY DEF NoWorker, WorkerPlaces
<1> QED BY <1>1, <1>2, <1>3 DEF LifeInv, OwnTypeOK, HandlersNest, Ends, MainPlaces

LEMMA MainKeepsLifeInv ==
  ASSUME LifeInv, MainStep
  PROVE  LifeInv'
<1> USE DEF LifeInv, OwnTypeOK, HandlersNest, MainPlaces, WorkerPlaces
<1>1. CASE UnparsedSettings \/ WriteDefault \/ SetupFails \/ ServiceError \/ Return
  BY <1>1, EndsKeepsLifeInv DEF UnparsedSettings, WriteDefault, SetupFails, ServiceError, Return
<1>2. CASE LoadConfiguration \/ CreateFile \/ CreateLogger \/ RegisterSignalHandlers
  BY <1>2 DEF LoadConfiguration, CreateFile, CreateLogger, RegisterSignalHandlers, MGoto
<1>3. CASE \E w \in Workers : Spawn(w)
  BY <1>3 DEF Spawn, MGoto
<1>4. CASE MainCheck \/ Service \/ (\E id \in ClientIds : ServiceConnect(id)) \/ ServiceCommit
  BY <1>4 DEF MainCheck, Service, ServiceConnect, ServiceCommit, MGoto
<1>5. CASE Join
  BY <1>5 DEF Join, MGoto
<1>6. CASE DropAll
  <2>1. <<Main, 0>> \in Agents
    BY MaxSignalsAssumption, AgentTypes DEF Threads
  <2> QED BY <1>6, <2>1 DEF DropAll, MGoto
<1> QED
  BY <1>1, <1>2, <1>3, <1>4, <1>5, <1>6 DEF MainStep

(* What a handler does to the frames of its thread. *)
MovedTo(q, place) == [q EXCEPT ![Len(q)].pc = place]
Returned(q) == SubSeq(q, 1, Len(q) - 1)
Replaced(q, f) == SubSeq(q, 1, Len(q) - 1) \o <<f>>

LEMMA FrameTypes ==
  ASSUME NEW q \in Seq(Frame), q # <<>>
  PROVE  /\ Len(q) \in Nat
         /\ q[Len(q)].signal \in PosixSignals \cup WindowsEvents
         /\ \A place \in {"get", "getting", "store", "default"} :
              MovedTo(q, place) \in Seq(Frame) /\ Len(MovedTo(q, place)) = Len(q)
         /\ Returned(q) \in Seq(Frame) /\ Len(Returned(q)) = Len(q) - 1
         /\ \A f \in Frame : Replaced(q, f) \in Seq(Frame) /\ Len(Replaced(q, f)) = Len(q)
<1>1. Len(q) \in Nat /\ Len(q) >= 1 /\ Len(q) \in DOMAIN q /\ q[Len(q)] \in Frame
  OBVIOUS
<1>2. ASSUME NEW place \in {"get", "getting", "store", "default"}
      PROVE  MovedTo(q, place) \in Seq(Frame) /\ Len(MovedTo(q, place)) = Len(q)
  <2>1. [q[Len(q)] EXCEPT !.pc = place] \in Frame
    BY <1>1 DEF Frame
  <2> QED BY <1>1, <2>1 DEF MovedTo
<1> DEFINE r == Returned(q)
<1>3. r \in Seq(Frame) /\ Len(r) = Len(q) - 1
  <2> DEFINE m == Len(q) - 1
  <2>1. m \in Int /\ 1 \in Int /\ \A i \in 1 .. m : q[i] \in Frame
    <3>1. \A i \in 1 .. Len(q) : q[i] \in Frame
      OBVIOUS
    <3> QED BY <1>1, <3>1
  <2>2. m \in Nat
    BY ONLY <1>1
  <2> HIDE DEF m
  <2>4. (IF 1 <= m THEN m - 1 + 1 ELSE 0) = m
    BY ONLY <2>2
  <2>3. SubSeq(q, 1, m) \in Seq(Frame) /\ Len(SubSeq(q, 1, m)) = m
    BY ONLY <2>1, <2>2, <2>4, <1>1, SubSeqProperties
  <2> QED BY <2>3 DEF m, Returned
<1> HIDE DEF r
<1>4. ASSUME NEW f \in Frame PROVE r \o <<f>> \in Seq(Frame) /\ Len(r \o <<f>>) = Len(q)
  BY <1>1, <1>3
<1>5. q[Len(q)].signal \in PosixSignals \cup WindowsEvents
  BY <1>1 DEF Frame
<1> QED BY <1>1, <1>2, <1>3, <1>4, <1>5 DEF r, Replaced, Returned

LEMMA HandlersKeepLifeInv ==
  ASSUME LifeInv, NEW t \in Threads \cup {Ctrl}, HandlerStep(t)
  PROVE  LifeInv'
<1> PICK q : q = frames[t]
  OBVIOUS
<1>1. CASE HandlerFaults(t) \/ DefaultHandler(t)
  BY <1>1, EndsKeepsLifeInv DEF HandlerFaults, DefaultHandler, LifeInv, OwnTypeOK
<1>2. ASSUME HandlerGets(t) \/ HandlerLogs(t) \/ HandlerStores(t)
      PROVE  /\ q \in Seq(Frame) /\ q # <<>> /\ Len(q) \in Nat /\ Len(q) <= signals
             /\ signals \in 0 .. MaxSignals /\ MaxSignals \in Nat
  BY <1>2, MaxSignalsAssumption
     DEF HandlerGets, HandlerLogs, HandlerStores, HGoto, InHandler, LifeInv, OwnTypeOK, HandlersNest
<1>3. ASSUME NEW p \in Seq(Frame), Len(p) <= Len(q), frames' = [frames EXCEPT ![t] = p],
             q \in Seq(Frame), signals' = signals
      PROVE  /\ frames' \in [Threads \cup {Ctrl} -> Seq(Frame)]
             /\ HandlersNest'
  <2>1. Len(p) \in Nat /\ Len(q) \in Nat
    BY <1>3
  <2>2. \A u \in Threads \cup {Ctrl} : frames'[u] = IF u = t THEN p ELSE frames[u]
    BY <1>3 DEF LifeInv, OwnTypeOK
  <2>3. \A u \in Threads \cup {Ctrl} : Len(frames[u]) <= signals /\ signals \in Int
    BY DEF LifeInv, OwnTypeOK, HandlersNest
  <2>4. ASSUME NEW u \in Threads \cup {Ctrl} PROVE Len(frames'[u]) <= signals
    BY <1>3, <2>1, <2>2, <2>3
  <2>5. HandlersNest'
    BY <1>3, <2>4 DEF HandlersNest
  <2> QED BY <1>3, <2>5 DEF LifeInv, OwnTypeOK
<1>4. ASSUME HandlerGets(t) \/ HandlerLogs(t)
      PROVE  LifeInv'
  <2>1. PICK to \in {"getting", "store"} : HGoto(t, IF to = "getting" THEN "get" ELSE "getting", to)
    BY <1>4 DEF HandlerGets, HandlerLogs
  <2>2. frames' = [frames EXCEPT ![t] = MovedTo(q, to)]
    BY <2>1 DEF HGoto, Depth, MovedTo
  <2>3. MovedTo(q, to) \in Seq(Frame) /\ Len(MovedTo(q, to)) <= Len(q)
    <3>1. q \in Seq(Frame) /\ q # <<>> /\ Len(q) \in Nat
      BY <1>2, <1>4
    <3>2. MovedTo(q, to) \in Seq(Frame) /\ Len(MovedTo(q, to)) = Len(q)
      BY <3>1, FrameTypes
    <3> QED BY <3>1, <3>2
  <2>4. frames' \in [Threads \cup {Ctrl} -> Seq(Frame)] /\ HandlersNest'
    BY <1>2, <1>3, <1>4, <2>1, <2>2, <2>3 DEF HGoto
  <2>5. holder' \in Agents \cup {NoOne}
    BY <1>2, <1>4, AgentTypes DEF HandlerGets, HandlerLogs, Depth
  <2> QED BY <1>4, <2>4, <2>5 DEF HandlerGets, HandlerLogs, HGoto, LifeInv, OwnTypeOK
<1>5. ASSUME HandlerStores(t)
      PROVE  LifeInv'
  <2>1. PICK f \in Frame :
          frames' = [frames EXCEPT ![t] =
                       IF ReturnsFalse(q[Len(q)].signal) THEN Replaced(q, f) ELSE Returned(q)]
    <3>1. [signal |-> q[Len(q)].signal, pc |-> "default"] \in Frame
      BY <1>2, <1>5, FrameTypes DEF Frame
    <3> QED BY <1>5, <3>1 DEF HandlerStores, Depth, Replaced, Returned
  <2>2. frames' \in [Threads \cup {Ctrl} -> Seq(Frame)] /\ HandlersNest'
    <3>1. signals' = signals
      BY <1>5 DEF HandlerStores
    <3>2. q \in Seq(Frame) /\ q # <<>> /\ Len(q) \in Nat
      BY <1>2, <1>5
    <3>3. /\ Returned(q) \in Seq(Frame) /\ Len(Returned(q)) <= Len(q)
          /\ Replaced(q, f) \in Seq(Frame) /\ Len(Replaced(q, f)) <= Len(q)
      <4>1. /\ Returned(q) \in Seq(Frame) /\ Len(Returned(q)) = Len(q) - 1
            /\ Replaced(q, f) \in Seq(Frame) /\ Len(Replaced(q, f)) = Len(q)
        BY <3>2, FrameTypes
      <4> QED BY <3>2, <4>1
    <3>4. CASE ReturnsFalse(q[Len(q)].signal)
      BY <1>3, <2>1, <3>1, <3>2, <3>3, <3>4
    <3>5. CASE ~ReturnsFalse(q[Len(q)].signal)
      BY <1>3, <2>1, <3>1, <3>2, <3>3, <3>5
    <3> QED BY <3>4, <3>5
  <2> QED BY <1>5, <2>2 DEF HandlerStores, StopCode, LifeInv, OwnTypeOK
<1> QED
  BY <1>1, <1>4, <1>5 DEF HandlerStep

LEMMA OthersKeepLifeInv ==
  ASSUME LifeInv,
         \/ Boot \/ Kill \/ UNCHANGED lifevars
         \/ \E w \in Workers : WorkerStep(w)
         \/ \E t \in Threads \cup {Ctrl} :
              \E signal \in PosixSignals \cup WindowsEvents : Deliver(t, signal)
  PROVE  LifeInv'
<1>1. CASE Boot \/ UNCHANGED lifevars
  BY <1>1 DEF Boot, LifeInv, OwnTypeOK, HandlersNest, MainPlaces
<1>2. CASE Kill
  BY <1>2, EndsKeepsLifeInv DEF Kill, LifeInv, OwnTypeOK
<1>3. CASE \E w \in Workers : WorkerStep(w)
  <2> PICK w \in Workers : WorkerStep(w)
    BY <1>3
  <2>1. <<w, 0>> \in Agents
    BY MaxSignalsAssumption, AgentTypes DEF Threads
  <2> QED
    BY <2>1 DEF WorkerStep, WorkerGets, WorkerGot, WorkerEnds, WGoto, LifeInv, OwnTypeOK,
                HandlersNest, WorkerPlaces
<1>4. CASE \E t \in Threads \cup {Ctrl} :
             \E signal \in PosixSignals \cup WindowsEvents : Deliver(t, signal)
  <2> PICK t \in Threads \cup {Ctrl}, signal \in PosixSignals \cup WindowsEvents : Deliver(t, signal)
    BY <1>4
  <2>1. [signal |-> signal, pc |-> "get"] \in Frame
    BY DEF Frame
  <2>2. /\ frames[t] \in Seq(Frame)
        /\ Append(frames[t], [signal |-> signal, pc |-> "get"]) \in Seq(Frame)
        /\ Len(Append(frames[t], [signal |-> signal, pc |-> "get"])) = Len(frames[t]) + 1
    BY <2>1 DEF LifeInv, OwnTypeOK
  <2>3. \A u \in Threads \cup {Ctrl} : Len(frames[u]) \in Nat
    BY DEF LifeInv, OwnTypeOK
  <2>4. signals' = signals + 1 /\ signals' \in 0 .. MaxSignals
    BY MaxSignalsAssumption DEF Deliver, LifeInv, OwnTypeOK
  <2>5. \A u \in Threads \cup {Ctrl} :
          frames'[u] = IF u = t THEN Append(frames[t], [signal |-> signal, pc |-> "get"])
                       ELSE frames[u]
    BY DEF Deliver, LifeInv, OwnTypeOK
  <2>6. HandlersNest'
    <3>1. ASSUME NEW u \in Threads \cup {Ctrl} PROVE Len(frames'[u]) <= signals'
      <4>1. Len(frames[u]) <= signals /\ Len(frames[u]) \in Nat /\ signals \in Nat
        BY <2>3 DEF LifeInv, HandlersNest, OwnTypeOK
      <4>2. CASE u = t
        <5>1. Len(frames'[u]) = Len(frames[u]) + 1
          BY <2>2, <2>5, <4>2
        <5> QED BY <2>4, <4>1, <5>1
      <4>3. CASE u # t
        BY <2>4, <2>5, <4>1, <4>3
      <4> QED BY <4>2, <4>3
    <3> QED BY <3>1 DEF HandlersNest
  <2> QED BY <2>2, <2>4, <2>6 DEF Deliver, LifeInv, OwnTypeOK
<1> QED
  BY <1>1, <1>2, <1>3, <1>4

LEMMA RegisteredNext ==
  ASSUME registered \in BOOLEAN, [LifeNext]_lifevars
  PROVE  registered' \in BOOLEAN
<1>1. registered' = registered \/ registered' = TRUE \/ registered' = FALSE
  <2>1. ASSUME NEW how, Ends(how) PROVE registered' = FALSE
    BY <2>1 DEF Ends
  <2>2. CASE Boot \/ Kill \/ UNCHANGED lifevars
    BY <2>1, <2>2 DEF Boot, Kill
  <2>3. CASE MainStep
    <3>1. CASE UnparsedSettings \/ WriteDefault \/ SetupFails \/ ServiceError \/ Return
      BY <2>1, <3>1 DEF UnparsedSettings, WriteDefault, SetupFails, ServiceError, Return
    <3>2. CASE LoadConfiguration \/ CreateFile \/ CreateLogger \/ RegisterSignalHandlers
               \/ (\E w \in Workers : Spawn(w)) \/ MainCheck \/ Service
               \/ (\E id \in ClientIds : ServiceConnect(id)) \/ ServiceCommit \/ Join \/ DropAll
      BY <3>2 DEF LoadConfiguration, CreateFile, CreateLogger, RegisterSignalHandlers,
           Spawn, MainCheck, Service, ServiceConnect, ServiceCommit, Join, DropAll
    <3> QED BY <2>3, <3>1, <3>2 DEF MainStep
  <2>4. CASE \E w \in Workers : WorkerStep(w)
    BY <2>4 DEF WorkerStep, WorkerGets, WorkerGot, WorkerEnds, WGoto
  <2>5. ASSUME NEW t, NEW signal, Deliver(t, signal) PROVE registered' = registered
    BY <2>5 DEF Deliver
  <2>6. ASSUME NEW t, HandlerStep(t) PROVE registered' = registered \/ registered' = FALSE
    BY <2>1, <2>6 DEF HandlerStep, HandlerGets, HandlerLogs, HandlerFaults, HandlerStores,
         DefaultHandler, HGoto
  <2> QED BY <2>2, <2>3, <2>4, <2>5, <2>6 DEF LifeNext
<1> QED BY ONLY registered \in BOOLEAN, <1>1

(* Between two processes there is nothing of either. *)
Gone ==
  mpc = "off" =>
    /\ wpc = NoWorker /\ frames = NoFrames /\ signals = 0
    /\ stop = 0 /\ registered = FALSE /\ holder = NoOne
    /\ client = 0

LEMMA GoneNext ==
  ASSUME Gone, [LifeNext]_lifevars
  PROVE  Gone'
<1>1. ASSUME NEW how, Ends(how) PROVE Gone'
  BY <1>1 DEF Ends, Gone, CrashRestart, store, NoWorker, NoFrames
<1>2. CASE Boot \/ UNCHANGED lifevars
  BY <1>2 DEF Boot, Gone, lifevars, NoWorker, NoFrames
<1>3. CASE Kill
  BY <1>1, <1>3 DEF Kill
<1>4. CASE MainStep
  <2>1. CASE UnparsedSettings \/ WriteDefault \/ SetupFails \/ ServiceError \/ Return
    BY <1>1, <2>1 DEF UnparsedSettings, WriteDefault, SetupFails, ServiceError, Return
  <2>2. ASSUME ~(UnparsedSettings \/ WriteDefault \/ SetupFails \/ ServiceError \/ Return)
        PROVE  mpc' # "off"
    BY <1>4, <2>2
       DEF MainStep, LoadConfiguration, CreateFile, CreateLogger, RegisterSignalHandlers, Spawn,
           MainCheck, Service, ServiceConnect, ServiceCommit, Join, DropAll, MGoto
  <2> QED BY <2>1, <2>2 DEF Gone
<1>5. CASE \E w \in Workers : WorkerStep(w)
  <2> PICK w \in Workers : WorkerStep(w)
    BY <1>5
  <2>1. wpc[w] # "none" /\ mpc' = mpc
    BY DEF WorkerStep, WorkerGets, WorkerGot, WorkerEnds, WGoto
  <2> QED BY <2>1 DEF Gone, NoWorker
<1>6. ASSUME NEW t \in Threads \cup {Ctrl}, NEW signal, Deliver(t, signal) PROVE Gone'
  BY <1>6 DEF Deliver, HandlersRegistered, Gone
<1>7. ASSUME NEW t \in Threads \cup {Ctrl}, HandlerStep(t) PROVE Gone'
  <2>1. CASE HandlerFaults(t) \/ DefaultHandler(t)
    BY <1>1, <2>1 DEF HandlerFaults, DefaultHandler
  <2>2. CASE HandlerGets(t) \/ HandlerLogs(t) \/ HandlerStores(t)
    <3>1. frames[t] # <<>> /\ mpc' = mpc
      BY <2>2 DEF HandlerGets, HandlerLogs, HandlerStores, HGoto, InHandler
    <3> QED BY <3>1 DEF Gone, NoFrames
  <2> QED BY <1>7, <2>1, <2>2 DEF HandlerStep
<1> QED BY <1>2, <1>3, <1>4, <1>5, <1>6, <1>7 DEF LifeNext

(***************************************************************************)
(* Every variable has its type, whatever the number of workers and signals *)
(* and however often the process ends and starts again, and nothing of a   *)
(* process is there when the next one starts.                              *)
(***************************************************************************)
THEOREM LifeHasTypes == LifeSpec => []LifeTypeOK
<1>1. LifeInit => LifeInv
  <2> SUFFICES ASSUME LifeInit PROVE LifeInv
    OBVIOUS
  <2>1. /\ NoFrames \in [Threads \cup {Ctrl} -> Seq(Frame)]
        /\ \A t \in Threads \cup {Ctrl} : Len(NoFrames[t]) = 0
    BY DEF NoFrames
  <2>2. NoWorker \in [Workers -> WorkerPlaces] /\ 0 \in 0 .. MaxSignals
    BY MaxSignalsAssumption DEF NoWorker, WorkerPlaces
  <2> QED BY <2>1, <2>2 DEF LifeInit, LifeInv, OwnTypeOK, HandlersNest, MainPlaces
<1>2. LifeInv /\ [LifeNext]_lifevars => LifeInv'
  BY MainKeepsLifeInv, HandlersKeepLifeInv, OthersKeepLifeInv DEF LifeNext
<1>3. LifeInit => registered \in BOOLEAN
  BY DEF LifeInit
<1>4. registered \in BOOLEAN /\ [LifeNext]_lifevars => (registered \in BOOLEAN)'
  BY RegisteredNext
<1>5. LifeInit => Gone
  BY DEF LifeInit, Init, Gone
<1>6. Gone /\ [LifeNext]_lifevars => Gone'
  BY GoneNext
<1>7. LifeInv /\ registered \in BOOLEAN /\ Gone /\ TypeOK => LifeTypeOK
  BY DEF LifeInv, OwnTypeOK, Gone, LifeTypeOK
<1>8. LifeSpec => []TypeOK
  BY LifeImplementsStore, ClientStoreTypeOK, PTL
<1> QED
  BY <1>1, <1>2, <1>3, <1>4, <1>5, <1>6, <1>7, <1>8, PTL DEF LifeSpec
================================================================================
