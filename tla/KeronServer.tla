------------------------------ MODULE KeronServer ------------------------------
(***************************************************************************)
(* The Keron server while it runs (server/src/server.cpp:144-322): the     *)
(* main thread services the ENet host and sends what the workers answer,   *)
(* the workers handle the messages, a signal stops them all.               *)
(*                                                                         *)
(*              incomings                     outgoings                    *)
(*   main ---------------------> workers ------------------------> main    *)
(*   (RECEIVE events)           (handlers)    (broadcasts, replies)        *)
(*                                                                         *)
(* Both queues are moodycamel::ConcurrentQueues.  They are modelled by     *)
(* what they promise: one FIFO per producer, elements claimed exactly      *)
(* once, a try_dequeue that may fail while another consumer is inside one. *)
(* The modules SubQueue and ImplicitProducer check that of their code.     *)
(*                                                                         *)
(* ENet is external.  A slot is one ENetPeer structure of the host: ENet   *)
(* reuses it for another client once the server has seen DISCONNECT.       *)
(***************************************************************************)
EXTENDS Naturals, Sequences, FiniteSets, ConnectionCount

CONSTANTS
  Slots,        (* the ENetPeer structures of the host (maxclients)         *)
  Workers,      (* the worker threads (concurrency)                         *)
  NoPeer,       (* nullptr: the peer of a broadcast                         *)
  Kinds,        (* the kinds of packets clients send                        *)
  MaxSessions,  (* bound on the connections one slot sees                   *)
  MaxMsgs       (* bound on the packets received                            *)

ASSUME SlotsAssumption == NoPeer \notin Slots
ASSUME BoundsAssumption == MaxSessions \in Nat /\ MaxMsgs \in Nat

(***************************************************************************)
(* What a packet can be to a worker: a buffer the verifier refuses, a      *)
(* NetMessage whose identifier has no handler, or a message of one of the  *)
(* identifiers initialize_messages_handlers gives a handler.               *)
(***************************************************************************)
AllKinds == {"malformed", "MAXNETID", "NONE", "Chat", "FlightCtrl", "ClockSync"}

ASSUME KindsAssumption == Kinds \subseteq AllKinds

(* VerifyNetMessageBuffer *)
Verified(kind) == kind # "malformed"

(* id < handlers.size(): the identifiers are in the enumeration's order *)
HasHandler(kind) == kind \in {"NONE", "Chat", "FlightCtrl", "ClockSync"}

Dispatched(kind) == Verified(kind) /\ HasHandler(kind)

(* Handlers that only log. *)
OnlyLogs(kind) == kind \in {"NONE", "FlightCtrl"}

VARIABLES
  peer,       (* ENet's state of each slot: free, connected, or gone (the   *)
              (* client has left, its DISCONNECT event is not yet served)   *)
  data,       (* event.peer->data: the generation of the slot               *)
  session,    (* history: number of CONNECT events of the slot              *)
  db,         (* the datastore                                              *)
  incomings,  (* queue_t<incoming_t>, filled by the main thread             *)
  outgoings,  (* queue_t<outgoing_t>: one FIFO per worker that fills it     *)
  stop,       (* the stop flag of the signal handlers                       *)
  mpc,        (* where the main thread is                                   *)
  unseen,     (* the FIFOs its try_dequeue has not yet seen empty           *)
  wpc,        (* where each worker is                                       *)
  msg,        (* the incoming_t each worker handles                         *)
  out,        (* the outgoing_t each worker is about to enqueue             *)
  received,   (* history: number of RECEIVE events                          *)
  finished,   (* history: messages the server has done with                 *)
  chats,      (* history: the chat messages broadcast, in order             *)
  replies     (* history: the replies sent                                  *)

network == <<peer, session, db>>
queues  == <<incomings, outgoings>>
main    == <<mpc, unseen>>
worker  == <<wpc, msg, out>>
history == <<received, finished, chats, replies>>
vars    == <<peer, data, session, db, incomings, outgoings, stop, mpc, unseen,
             wpc, msg, out, received, finished, chats, replies>>

(***************************************************************************)
(* Types.  `asker` is history: the session of the slot that the message    *)
(* came from.  `generation` is data as it was read for the record.         *)
(***************************************************************************)
Incoming == [id : Nat, kind : AllKinds, peer : Slots, asker : Nat, generation : Nat]
Outgoing == [id : Nat, peer : Slots \cup {NoPeer}, asker : Nat, generation : Nat]

(* A chat message that was broadcast, and the worker that handled it. *)
Broadcast == [id : Nat, by : Workers]

Reply == [id : Nat, peer : Slots, asker : Nat, generation : Nat, to : Nat]

NoIncoming == [id |-> 0, kind |-> "malformed", peer |-> NoPeer, asker |-> 0, generation |-> 0]
NoOutgoing == [id |-> 0, peer |-> NoPeer, asker |-> 0, generation |-> 0]

PeerStates   == {"free", "connected", "gone"}
MainStates   == {"check", "service", "outgoing", "join", "exited", "crashed"}
WorkerStates == {"check", "drain", "handle", "reply", "done"}

(* A crash of the main thread takes the whole process with it. *)
Alive == mpc # "crashed"

(* Every variable has its type. *)
TypeOK ==
  /\ peer \in [Slots -> PeerStates]
  /\ data \in [Slots -> Nat]
  /\ session \in [Slots -> Nat]
  /\ db \in Datastore
  /\ incomings \in Seq(Incoming)
  /\ outgoings \in [Workers -> Seq(Outgoing)]
  /\ stop \in {0, 1}
  /\ mpc \in MainStates
  /\ unseen \subseteq Workers
  /\ wpc \in [Workers -> WorkerStates]
  /\ msg \in [Workers -> Incoming \cup {NoIncoming}]
  /\ out \in [Workers -> Outgoing \cup {NoOutgoing}]
  /\ received \in Nat
  /\ finished \subseteq Nat
  /\ chats \in Seq(Broadcast)
  /\ replies \subseteq Reply

Init ==
  /\ peer = [s \in Slots |-> "free"]
  /\ data = [s \in Slots |-> 0]
  /\ session = [s \in Slots |-> 0]
  /\ db = EmptyStore
  /\ incomings = <<>>
  /\ outgoings = [w \in Workers |-> <<>>]
  /\ stop = 0
  /\ mpc = "check"
  /\ unseen = Workers
  /\ wpc = [w \in Workers |-> "check"]
  /\ msg = [w \in Workers |-> NoIncoming]
  /\ out = [w \in Workers |-> NoOutgoing]
  /\ received = 0
  /\ finished = {}
  /\ chats = <<>>
  /\ replies = {}
--------------------------------------------------------------------------------
(***************************************************************************)
(* The environment.  ENet turns a connection that is lost or closed into a *)
(* DISCONNECT event of a later service call; until then it sends nothing   *)
(* to that peer.  A signal may arrive at any time (posix.cpp:18-22).       *)
(***************************************************************************)
ClientDrops(s) ==
  /\ Alive /\ mpc # "exited"
  /\ peer[s] = "connected"
  /\ peer' = [peer EXCEPT ![s] = "gone"]
  /\ UNCHANGED <<data, session, db, queues, stop, main, worker, history>>

Signal ==
  /\ Alive /\ mpc # "exited"
  /\ stop = 0
  /\ stop' = 1
  /\ UNCHANGED <<data, network, queues, main, worker, history>>
--------------------------------------------------------------------------------
(***************************************************************************)
(* The main thread: while (!stop), one service call with at most one event *)
(* and then every outgoing message.                                        *)
(***************************************************************************)
MGoto(from, to) == mpc = from /\ mpc' = to

MainCheck ==
  /\ MGoto("check", IF stop = 0 THEN "service" ELSE "join")
  /\ UNCHANGED <<data, network, queues, stop, unseen, worker, history>>

(* ENET_EVENT_TYPE_CONNECT: ENet gives a free slot to a new client. *)
ServiceConnect(s, id) ==
  /\ MGoto("service", "outgoing")
  /\ peer[s] = "free"
  /\ session[s] < MaxSessions
  /\ peer' = [peer EXCEPT ![s] = "connected"]
  /\ session' = [session EXCEPT ![s] = @ + 1]
  /\ db' = RecordConnection(db, id)
  /\ UNCHANGED <<data, queues, stop, unseen, worker, history>>

(* Mutants: a disconnection leaves the generation as it is, or steps it back. *)
SameAgain(generation) == generation
OneBack(generation) == generation - 1

(* static_cast<int *>(event.peer->data) + 1 *)
NextGeneration(generation) == generation + 1

(* ENET_EVENT_TYPE_DISCONNECT: ENet has reset the peer before it returns. *)
ServiceDisconnect(s) ==
  /\ MGoto("service", "outgoing")
  /\ peer[s] = "gone"
  /\ peer' = [peer EXCEPT ![s] = "free"]
  /\ data' = [data EXCEPT ![s] = NextGeneration(@)]
  /\ UNCHANGED <<session, db, queues, stop, unseen, worker, history>>

(* ENET_EVENT_TYPE_RECEIVE *)
ServiceReceive(s, kind) ==
  /\ MGoto("service", "outgoing")
  /\ peer[s] = "connected"
  /\ received < MaxMsgs
  /\ received' = received + 1
  /\ incomings' = Append(incomings,
                    [id |-> received + 1, kind |-> kind, peer |-> s,
                     asker |-> session[s], generation |-> data[s]])
  /\ UNCHANGED <<data, network, outgoings, stop, unseen, worker, finished, chats, replies>>

(* ENET_EVENT_TYPE_NONE: 25 ms without an event. *)
ServiceTimeout ==
  /\ MGoto("service", "outgoing")
  /\ UNCHANGED <<data, network, queues, stop, unseen, worker, history>>

(***************************************************************************)
(* host.service() < 0 throws out of main; the destructors of the joinable  *)
(* workers then call std::terminate: the process is gone.                  *)
(***************************************************************************)
ServiceError ==
  /\ MGoto("service", "crashed")
  /\ UNCHANGED <<data, network, queues, stop, unseen, worker, history>>

(***************************************************************************)
(* outgoings.try_dequeue() walks the FIFOs, one per worker, and looks at   *)
(* each of them at another moment (concurrentqueue.h:976-985).  `unseen`   *)
(* are those the walk has not yet seen empty.  It takes the head of one it *)
(* sees an element in: the main thread is the only consumer.               *)
(***************************************************************************)
SeeEmpty(w) ==
  /\ mpc = "outgoing"
  /\ w \in unseen /\ outgoings[w] = <<>>
  /\ unseen' = unseen \ {w}
  /\ UNCHANGED <<data, network, queues, stop, mpc, worker, history>>

(* Mutant: the element stays at the head of its FIFO. *)
Unsent(w) == outgoings

Sent(w) == [outgoings EXCEPT ![w] = Tail(@)]

Sends(w) ==
  /\ mpc = "outgoing"
  /\ w \in unseen /\ outgoings[w] # <<>>
  /\ outgoings' = Sent(w)
  /\ finished' = finished \cup {Head(outgoings[w]).id}
  /\ unseen' = Workers

(* host.broadcast(): to every connected peer. *)
SendBroadcast(w) ==
  /\ Sends(w)
  /\ Head(outgoings[w]).peer = NoPeer
  /\ chats' = Append(chats, [id |-> Head(outgoings[w]).id, by |-> w])
  /\ UNCHANGED <<data, network, incomings, stop, mpc, worker, received, replies>>

(* Mutant: the generations are not compared. *)
AnyGeneration(r) == r.peer \in DOMAIN data

(* The peer still lives in the generation of the reply. *)
SameGeneration(r) == data[r.peer] = r.generation

(***************************************************************************)
(* A reply goes out when the generations match and ENet still holds the    *)
(* client connected; enet_peer_send refuses otherwise.                     *)
(***************************************************************************)
SendReply(w) ==
  /\ Sends(w)
  /\ Head(outgoings[w]).peer # NoPeer
  /\ LET r == Head(outgoings[w])
     IN  replies' =
           IF SameGeneration(r) /\ peer[r.peer] = "connected"
             THEN replies \cup
                    {[id |-> r.id, peer |-> r.peer, asker |-> r.asker,
                      generation |-> r.generation, to |-> session[r.peer]]}
             ELSE replies
  /\ UNCHANGED <<data, network, incomings, stop, mpc, worker, received, chats>>

(* Mutant: the main thread stays as long as a worker may answer. *)
WaitsForWorkers == unseen = {} /\ \A w \in Workers : wpc[w] = "done"

(* The walk has found every FIFO empty, each at its moment. *)
AllSeenEmpty == unseen = {}

(* outgoings.try_dequeue() returns false. *)
MainDrained ==
  /\ MGoto("outgoing", "check")
  /\ AllSeenEmpty
  /\ unseen' = Workers
  /\ UNCHANGED <<data, network, queues, stop, worker, history>>

(* Every worker.join() has returned. *)
MainJoin ==
  /\ MGoto("join", "exited")
  /\ \A w \in Workers : wpc[w] = "done"
  /\ UNCHANGED <<data, network, queues, stop, unseen, worker, history>>

ServiceEvent ==
  \/ \E s \in Slots : \/ \E id \in ClientIds \cup {0} : ServiceConnect(s, id)
                      \/ ServiceDisconnect(s)
                      \/ \E kind \in Kinds : ServiceReceive(s, kind)
  \/ ServiceTimeout
  \/ ServiceError

MainStep ==
  \/ MainCheck
  \/ ServiceEvent
  \/ \E w \in Workers : SeeEmpty(w) \/ SendBroadcast(w) \/ SendReply(w)
  \/ MainDrained
  \/ MainJoin
--------------------------------------------------------------------------------
(***************************************************************************)
(* A worker: while (!stop), dequeue and handle until there is nothing left *)
(* or a message is refused, then sleep.                                    *)
(***************************************************************************)
WGoto(w, from, to) ==
  /\ Alive /\ wpc[w] = from
  /\ wpc' = [wpc EXCEPT ![w] = to]

(* Mutant: the worker does not look at stop. *)
StopForgotten == FALSE

Stopped == stop # 0

WorkerCheck(w) ==
  /\ WGoto(w, "check", IF Stopped THEN "done" ELSE "drain")
  /\ UNCHANGED <<data, network, queues, stop, main, msg, out, history>>

(* Mutants: the worker takes the newest message; or it only looks at the head. *)
TakeNewest(q) == [msg |-> q[Len(q)], rest |-> SubSeq(q, 1, Len(q) - 1)]
TakePeeks(q) == [msg |-> Head(q), rest |-> q]

(* What a successful try_dequeue does to a queue of one producer. *)
TakeOldest(q) == [msg |-> Head(q), rest |-> Tail(q)]

WorkerDequeue(w) ==
  /\ WGoto(w, "drain", "handle")
  /\ incomings # <<>>
  /\ incomings' = TakeOldest(incomings).rest
  /\ msg' = [msg EXCEPT ![w] = TakeOldest(incomings).msg]
  /\ UNCHANGED <<data, network, outgoings, stop, main, out, history>>

(* Mutant: an empty queue ends the worker. *)
FindsNoneEnds(w) == WGoto(w, "drain", "done")

FindsNone(w) == WGoto(w, "drain", "check")

(* try_dequeue may fail while another consumer is in the middle of its own. *)
WorkerFindsNone(w) ==
  /\ FindsNone(w)
  /\ incomings = <<>> \/ \E v \in Workers \ {w} : wpc[v] = "drain"
  /\ UNCHANGED <<data, network, queues, stop, main, msg, out, history>>

(* The message is done with: nothing is answered. *)
Finish(w) ==
  /\ finished' = finished \cup {msg[w].id}
  /\ msg' = [msg EXCEPT ![w] = NoIncoming]
  /\ UNCHANGED <<data, network, queues, stop, main, out, received, chats, replies>>

(* An incorrect buffer, or no handler: break, even with messages waiting. *)
WorkerReject(w) ==
  /\ WGoto(w, "handle", "check")
  /\ ~Dispatched(msg[w].kind)
  /\ Finish(w)

(* msg_none and msg_flightctrl *)
WorkerIgnore(w) ==
  /\ WGoto(w, "handle", "drain")
  /\ Dispatched(msg[w].kind) /\ OnlyLogs(msg[w].kind)
  /\ Finish(w)

(* msg_chat: the packet goes to everybody. *)
WorkerChat(w) ==
  /\ WGoto(w, "handle", "reply")
  /\ Dispatched(msg[w].kind) /\ msg[w].kind = "Chat"
  /\ out' = [out EXCEPT ![w] = [id |-> msg[w].id, peer |-> NoPeer,
                                asker |-> msg[w].asker, generation |-> 0]]
  /\ UNCHANGED <<data, network, queues, stop, main, msg, history>>

(* Mutant: the reply is built like a broadcast's, without a generation. *)
NoGeneration(s) == 0

(* event.peer->data when the handler runs *)
GenerationNow(s) == data[s]

(* msg_clocksync *)
WorkerClockSync(w) ==
  /\ WGoto(w, "handle", "reply")
  /\ Dispatched(msg[w].kind) /\ msg[w].kind = "ClockSync"
  /\ out' = [out EXCEPT ![w] = [id |-> msg[w].id, peer |-> msg[w].peer,
                                asker |-> msg[w].asker,
                                generation |-> GenerationNow(msg[w].peer)]]
  /\ UNCHANGED <<data, network, queues, stop, main, msg, history>>

(* outgoings.enqueue(std::move(out)) and the end of the handler. *)
WorkerReply(w) ==
  /\ WGoto(w, "reply", "drain")
  /\ outgoings' = [outgoings EXCEPT ![w] = Append(@, out[w])]
  /\ out' = [out EXCEPT ![w] = NoOutgoing]
  /\ msg' = [msg EXCEPT ![w] = NoIncoming]
  /\ UNCHANGED <<data, network, incomings, stop, main, history>>

WorkerStep(w) ==
  \/ WorkerCheck(w)
  \/ WorkerDequeue(w)
  \/ WorkerFindsNone(w)
  \/ WorkerReject(w)
  \/ WorkerIgnore(w)
  \/ WorkerChat(w)
  \/ WorkerClockSync(w)
  \/ WorkerReply(w)
--------------------------------------------------------------------------------
Next ==
  \/ \E s \in Slots : ClientDrops(s)
  \/ Signal
  \/ MainStep
  \/ \E w \in Workers : WorkerStep(w)

Spec == Init /\ [][Next]_vars

(***************************************************************************)
(* Fairness.  The operating system runs every thread that can run, so each *)
(* thread eventually takes its step.  A try_dequeue may fail again and     *)
(* again only because other consumers interfere, and then one of them gets *)
(* the element (SubQueue): strong fairness of "some worker dequeues".      *)
(* Nothing is assumed of the clients, of signals and of service errors.    *)
(***************************************************************************)
Fairness ==
  /\ WF_vars(MainStep)
  /\ \A w \in Workers : WF_vars(WorkerStep(w))
  /\ SF_vars(\E w \in Workers : WorkerDequeue(w))

FairSpec == Spec /\ Fairness
--------------------------------------------------------------------------------
(* The messages in each place: waiting, handled by w, answered by w. *)
IdsOf(q) == {q[i].id : i \in DOMAIN q}
Handled(w) == IF wpc[w] \in {"handle", "reply"} THEN {msg[w].id} ELSE {}

(***************************************************************************)
(* Every packet the server received is in exactly one place: the incoming  *)
(* queue, the hands of one worker, the outgoing queue, or finished.  None  *)
(* is lost, none is handled (and destroyed, server.cpp:197) twice.         *)
(***************************************************************************)
Copies(id) ==
  Cardinality({i \in DOMAIN incomings : incomings[i].id = id})
  + Cardinality({w \in Workers : id \in Handled(w)})
  + Cardinality({p \in Workers \X (1 .. MaxMsgs) :
                   /\ p[2] \in DOMAIN outgoings[p[1]]
                   /\ outgoings[p[1]][p[2]].id = id})
  + Cardinality(finished \cap {id})

OneOwner == \A id \in 1 .. received : Copies(id) = 1

(***************************************************************************)
(* "On disconnection, update the generation to avoid ABA issues"           *)
(* (server.cpp:283): the generation of a slot tells its sessions apart; it *)
(* is the number of sessions that ended.                                   *)
(***************************************************************************)
GenerationCountsSessions ==
  \A s \in Slots :
    session[s] = data[s] + (IF peer[s] = "free" THEN 0 ELSE 1)

(***************************************************************************)
(* A reply is sent only to the session whose generation the handler read:  *)
(* never to a later client of the same slot (server.cpp:302-306).          *)
(***************************************************************************)
ReplyStaysInGeneration == \A r \in replies : r.to = r.generation + 1

(* Every reply that is under way. *)
InFlight == {out[w] : w \in {v \in Workers : wpc[v] = "reply"}}
            \cup UNION {{outgoings[w][i] : i \in DOMAIN outgoings[w]} : w \in Workers}

(***************************************************************************)
(* The generation check never drops the reply of a client that stayed: as  *)
(* long as the session that asked lasts, the generations match, whenever   *)
(* the handler runs and however long the reply waits (server.cpp:78, 304). *)
(***************************************************************************)
StayingAskerIsAnswered ==
  \A r \in InFlight :
    r.peer # NoPeer => (session[r.peer] = r.asker /\ peer[r.peer] # "free"
                          => SameGeneration(r))

(* The chat messages that are received and not yet broadcast. *)
PendingChats ==
  {incomings[i].id : i \in {j \in DOMAIN incomings : incomings[j].kind = "Chat"}}
  \cup (UNION {Handled(w) : w \in {v \in Workers : msg[v].kind = "Chat"}})
  \cup UNION {{outgoings[w][i].id : i \in {j \in DOMAIN outgoings[w] :
                                             outgoings[w][j].peer = NoPeer}}
               : w \in Workers}

Relay == INSTANCE ChatRelay
           WITH Messages <- 1 .. MaxMsgs, pending <- PendingChats,
                log <- [i \in DOMAIN chats |-> chats[i].id]

(***************************************************************************)
(* The server implements ChatRelay: each chat message a client sent is     *)
(* broadcast at most once, and nothing else is broadcast, whichever worker *)
(* handles it and whoever disconnects meanwhile (server.cpp:44-51, 299).   *)
(***************************************************************************)
RelaysChats == Relay!Spec

(***************************************************************************)
(* The chat messages that one worker handles are broadcast in the order in *)
(* which they were received, also when a refused message makes it leave    *)
(* its loop between them (server.cpp:205, 214).  So a server with one      *)
(* worker (server.cpp:181) keeps the order of all chat messages.           *)
(***************************************************************************)
ChatsInOrder ==
  \A i, j \in DOMAIN chats :
    i < j /\ chats[i].by = chats[j].by => chats[i].id < chats[j].id

(***************************************************************************)
(* "A client may disconnect and its structure be reused. Check that they   *)
(* still live in the same generation." (server.cpp:302-303): the client    *)
(* that gets a reply is the client that sent the message.                  *)
(***************************************************************************)
ReplyReachesAsker == \A r \in replies : r.to = r.asker

(***************************************************************************)
(* A signal shuts the server down: all the threads end (server.cpp:192,    *)
(* 232, 313-316), whatever is still in the queues.                         *)
(***************************************************************************)
ShutdownCompletes == (stop = 1) ~> (mpc \in {"exited", "crashed"})

(***************************************************************************)
(* The main thread always comes back to service the host, however many     *)
(* answers the workers produce: it does not stay in the outgoing loop.     *)
(***************************************************************************)
HostIsServiced ==
  (mpc = "outgoing") ~> (mpc \in {"service", "join", "exited", "crashed"})

(***************************************************************************)
(* Every message received is finished, unless the server stops: no refused *)
(* message and no failing try_dequeue leaves one behind.                   *)
(***************************************************************************)
MessagesAreFinished ==
  \A id \in 1 .. MaxMsgs :
    (received >= id) ~> (id \in finished \/ stop = 1 \/ ~Alive)
================================================================================
