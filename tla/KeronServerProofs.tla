--------------------------- MODULE KeronServerProofs ---------------------------
(***************************************************************************)
(* Theorems about KeronServer, for every set of slots and workers and any  *)
(* number of connections and messages.                                     *)
(***************************************************************************)
EXTENDS KeronServer, ConnectionCountProofs, SequenceTheorems, FiniteSetTheorems

(* The abbreviations of the actions. *)
USE DEF Alive, MGoto, WGoto, Stopped, Sends, Sent, TakeOldest, FindsNone, Finish,
        NextGeneration, GenerationNow, main

(* The types, and the one-record datastore RecordConnection relies on. *)
TypeInv == TypeOK /\ Single(db)

LEMMA HeadTailType ==
  ASSUME NEW S, NEW q \in Seq(S), q # <<>>
  PROVE  /\ Head(q) \in S
         /\ Tail(q) \in Seq(S)
         /\ Head(q) = q[1]
         /\ DOMAIN Tail(q) = 1 .. Len(q) - 1
         /\ \A i \in DOMAIN Tail(q) : Tail(q)[i] = q[i + 1] /\ i + 1 \in DOMAIN q
         /\ 1 \in DOMAIN q
  OBVIOUS

LEMMA AppendType ==
  ASSUME NEW S, NEW q \in Seq(S), NEW e \in S
  PROVE  /\ Append(q, e) \in Seq(S)
         /\ \A i \in DOMAIN Append(q, e) :
              \/ i \in DOMAIN q /\ Append(q, e)[i] = q[i]
              \/ Append(q, e)[i] = e
  OBVIOUS

LEMMA TypeInvInit == Init => TypeInv
  BY EmptyStoreSingle, BoundsAssumption
     DEF Init, TypeInv, TypeOK, PeerStates, MainStates, WorkerStates

(* The packet a worker has in its hands. *)
LEMMA HandledIdType ==
  ASSUME TypeOK, NEW w \in Workers
  PROVE  msg[w].id \in Nat
<1>1. msg[w] \in Incoming \cup {NoIncoming}
  BY DEF TypeOK
<1> QED BY <1>1 DEF Incoming, NoIncoming

LEMMA HandledType ==
  ASSUME TypeOK, NEW w \in Workers, Verified(msg[w].kind) \/ Dispatched(msg[w].kind)
  PROVE  msg[w] \in Incoming
<1>1. msg[w] \in Incoming \cup {NoIncoming}
  BY DEF TypeOK
<1> QED BY <1>1 DEF NoIncoming, Verified, Dispatched

LEMMA TypeInvNext == TypeInv /\ [Next]_vars => TypeInv'
<1> SUFFICES ASSUME TypeInv, [Next]_vars PROVE TypeInv'
  OBVIOUS
<1> USE DEF TypeInv, TypeOK, network, queues, worker, history
<1>1. ASSUME NEW s \in Slots, ClientDrops(s) PROVE TypeInv'
  BY <1>1 DEF ClientDrops, PeerStates
<1>2. CASE Signal
  BY <1>2 DEF Signal
<1>3. CASE MainCheck
  BY <1>3 DEF MainCheck, MainStates
<1>4. ASSUME NEW s \in Slots, NEW id \in ClientIds \cup {0}, ServiceConnect(s, id)
      PROVE  TypeInv'
  <2>1. db' \in Datastore /\ Single(db')
    BY <1>4, RecordConnectionSingle DEF ServiceConnect
  <2>2. peer' \in [Slots -> PeerStates] /\ session' \in [Slots -> Nat]
    BY <1>4 DEF ServiceConnect, PeerStates
  <2> QED BY <1>4, <2>1, <2>2 DEF ServiceConnect, MainStates
<1>5. ASSUME NEW s \in Slots, ServiceDisconnect(s) PROVE TypeInv'
  BY <1>5 DEF ServiceDisconnect, PeerStates, MainStates
<1>6. ASSUME NEW s \in Slots, NEW kind \in Kinds, ServiceReceive(s, kind)
      PROVE  TypeInv'
  <2>1. [id |-> received + 1, kind |-> kind, peer |-> s, asker |-> session[s],
         generation |-> data[s]] \in Incoming
    BY KindsAssumption DEF Incoming
  <2>2. incomings' \in Seq(Incoming)
    BY <1>6, <2>1, AppendType DEF ServiceReceive
  <2> QED BY <1>6, <2>2 DEF ServiceReceive, MainStates
<1>7. CASE ServiceTimeout
  BY <1>7 DEF ServiceTimeout, MainStates
<1>8. CASE ServiceError
  BY <1>8 DEF ServiceError, MainStates
<1>9. ASSUME NEW w \in Workers, SendBroadcast(w) PROVE TypeInv'
  <2>1. /\ Head(outgoings[w]) \in Outgoing
        /\ Tail(outgoings[w]) \in Seq(Outgoing)
    BY <1>9, HeadTailType DEF SendBroadcast
  <2>2. Head(outgoings[w]).id \in Nat
    BY <2>1 DEF Outgoing
  <2>3. chats' \in Seq(Broadcast)
    <3>1. [id |-> Head(outgoings[w]).id, by |-> w] \in Broadcast
      BY <2>2 DEF Broadcast
    <3> QED BY <1>9, <3>1, AppendType DEF SendBroadcast
  <2>4. outgoings' \in [Workers -> Seq(Outgoing)]
    BY <1>9, <2>1 DEF SendBroadcast
  <2> QED BY <1>9, <2>2, <2>3, <2>4 DEF SendBroadcast
<1>10. ASSUME NEW w \in Workers, SendReply(w) PROVE TypeInv'
  <2> DEFINE r == Head(outgoings[w])
  <2>1. r \in Outgoing /\ Tail(outgoings[w]) \in Seq(Outgoing)
    BY <1>10, HeadTailType DEF SendReply
  <2>2. r.id \in Nat /\ r.peer \in Slots /\ r.asker \in Nat /\ r.generation \in Nat
    BY <1>10, <2>1 DEF SendReply, Outgoing
  <2>3. replies' \subseteq Reply
    <3>1. [id |-> r.id, peer |-> r.peer, asker |-> r.asker,
           generation |-> r.generation, to |-> session[r.peer]] \in Reply
      BY <2>2 DEF Reply
    <3> QED BY <1>10, <3>1 DEF SendReply
  <2>4. outgoings' \in [Workers -> Seq(Outgoing)]
    BY <1>10, <2>1 DEF SendReply
  <2>5. finished' \subseteq Nat
    BY <1>10, <2>2 DEF SendReply
  <2> QED BY <1>10, <2>3, <2>4, <2>5 DEF SendReply
<1>11. CASE MainDrained \/ \E w \in Workers : SeeEmpty(w)
  BY <1>11 DEF MainDrained, SeeEmpty, MainStates
<1>12. CASE MainJoin
  BY <1>12 DEF MainJoin, MainStates
<1>13. ASSUME NEW w \in Workers, WorkerCheck(w) PROVE TypeInv'
  BY <1>13 DEF WorkerCheck, WorkerStates
<1>14. ASSUME NEW w \in Workers, WorkerDequeue(w) PROVE TypeInv'
  BY <1>14, HeadTailType DEF WorkerDequeue, WorkerStates
<1>15. ASSUME NEW w \in Workers, WorkerFindsNone(w) PROVE TypeInv'
  BY <1>15 DEF WorkerFindsNone, WorkerStates
<1>16. ASSUME NEW w \in Workers, WorkerReject(w) PROVE TypeInv'
  <2>1. finished' \subseteq Nat
    BY <1>16, HandledIdType DEF WorkerReject
  <2> QED BY <1>16, <2>1 DEF WorkerReject, WorkerStates
<1>17. ASSUME NEW w \in Workers, WorkerIgnore(w) PROVE TypeInv'
  <2>1. finished' \subseteq Nat
    BY <1>17, HandledIdType DEF WorkerIgnore
  <2> QED BY <1>17, <2>1 DEF WorkerIgnore, WorkerStates
<1>18. ASSUME NEW w \in Workers, WorkerChat(w) PROVE TypeInv'
  <2>1. msg[w] \in Incoming
    BY <1>18, HandledType DEF WorkerChat
  <2>2. [id |-> msg[w].id, peer |-> NoPeer, asker |-> msg[w].asker, generation |-> 0]
          \in Outgoing
    BY <2>1 DEF Incoming, Outgoing
  <2>3. out' \in [Workers -> Outgoing \cup {NoOutgoing}]
    BY <1>18, <2>2 DEF WorkerChat
  <2> QED BY <1>18, <2>3 DEF WorkerChat, WorkerStates
<1>19. ASSUME NEW w \in Workers, WorkerClockSync(w) PROVE TypeInv'
  <2>1. msg[w] \in Incoming
    BY <1>19, HandledType DEF WorkerClockSync
  <2>2. [id |-> msg[w].id, peer |-> msg[w].peer, asker |-> msg[w].asker,
         generation |-> data[msg[w].peer]] \in Outgoing
    BY <2>1 DEF Incoming, Outgoing
  <2>3. out' \in [Workers -> Outgoing \cup {NoOutgoing}]
    BY <1>19, <2>2 DEF WorkerClockSync
  <2> QED BY <1>19, <2>3 DEF WorkerClockSync, WorkerStates
<1>20. ASSUME NEW w \in Workers, WorkerReply(w) PROVE TypeInv'
  <2>1. out[w] \in Outgoing
    BY SlotsAssumption DEF Outgoing, NoOutgoing
  <2>2. Append(outgoings[w], out[w]) \in Seq(Outgoing)
    BY <2>1, AppendType
  <2> QED BY <1>20, <2>2 DEF WorkerReply, WorkerStates
<1>21. CASE UNCHANGED vars
  BY <1>21 DEF vars
<1> QED BY <1>1, <1>2, <1>3, <1>4, <1>5, <1>6, <1>7, <1>8, <1>9, <1>10, <1>11,
           <1>12, <1>13, <1>14, <1>15, <1>16, <1>17, <1>18, <1>19, <1>20, <1>21
        DEF Next, MainStep, ServiceEvent, WorkerStep

(***************************************************************************)
(* Every variable keeps its type, and the datastore never holds more than  *)
(* one record, whatever the clients, the workers and the signals do.       *)
(***************************************************************************)
THEOREM ServerTypeOK == Spec => []TypeOK
<1>1. TypeInv => TypeOK
  BY DEF TypeInv
<1> QED BY TypeInvInit, TypeInvNext, <1>1, PTL DEF Spec
--------------------------------------------------------------------------------
(***************************************************************************)
(* The inductive invariant.  A message's asker is a session that the slot  *)
(* already had; a reply under way either belongs to a session that is over *)
(* or carries the generation the slot has now.                             *)
(***************************************************************************)
ReplyMatches(r) ==
  r.peer # NoPeer =>
    /\ r.asker <= session[r.peer]
    /\ session[r.peer] = r.asker /\ peer[r.peer] # "free" => SameGeneration(r)

AskersConnected ==
  /\ \A i \in DOMAIN incomings : incomings[i].asker <= session[incomings[i].peer]
  /\ \A w \in Workers : wpc[w] = "handle" /\ msg[w] \in Incoming
                          => msg[w].asker <= session[msg[w].peer]

RepliesMatch ==
  /\ \A w \in Workers : wpc[w] = "reply" => ReplyMatches(out[w])
  /\ \A w \in Workers : \A i \in DOMAIN outgoings[w] : ReplyMatches(outgoings[w][i])

IInv ==
  /\ TypeInv
  /\ GenerationCountsSessions
  /\ ReplyStaysInGeneration
  /\ AskersConnected
  /\ RepliesMatch

LEMMA IInvInit == Init => IInv
<1> SUFFICES ASSUME Init PROVE IInv
  OBVIOUS
<1>1. TypeInv
  BY TypeInvInit
<1>2. GenerationCountsSessions /\ ReplyStaysInGeneration
  BY DEF Init, GenerationCountsSessions, ReplyStaysInGeneration
<1>3. AskersConnected /\ RepliesMatch
  BY DEF Init, AskersConnected, RepliesMatch
<1> QED BY <1>1, <1>2, <1>3 DEF IInv

LEMMA OutgoingTypes ==
  ASSUME TypeOK, NEW w \in Workers
  PROVE  /\ out[w] \in Outgoing
         /\ \A i \in DOMAIN outgoings[w] : outgoings[w][i] \in Outgoing
<1>1. out[w] \in Outgoing
  BY DEF TypeOK, Outgoing, NoOutgoing
<1>2. outgoings[w] \in Seq(Outgoing)
  BY DEF TypeOK
<1> QED BY <1>1, <1>2

LEMMA IncomingTypes ==
  ASSUME TypeOK, NEW i \in DOMAIN incomings
  PROVE  incomings[i] \in Incoming
<1>1. incomings \in Seq(Incoming)
  BY DEF TypeOK
<1> QED BY <1>1

(* A step that moves no message keeps what is known of the messages. *)
LEMMA MessagesUnmoved ==
  ASSUME TypeOK, AskersConnected, RepliesMatch, UNCHANGED <<queues, worker>>,
         \A r \in Outgoing : ReplyMatches(r) => ReplyMatches(r)',
         \A s \in Slots : session[s] <= session'[s] /\ session'[s] \in Nat
  PROVE  AskersConnected' /\ RepliesMatch'
<1> USE DEF queues, worker
<1>1. ASSUME NEW m \in Incoming, m.asker <= session[m.peer]
      PROVE  m.asker <= session'[m.peer]
  BY <1>1 DEF Incoming, TypeOK
<1>2. AskersConnected'
  <2>1. \A i \in DOMAIN incomings : incomings[i] \in Incoming
    BY IncomingTypes
  <2> QED BY <2>1, <1>1 DEF AskersConnected
<1>3. \A w \in Workers : /\ out[w] \in Outgoing
                        /\ \A i \in DOMAIN outgoings[w] : outgoings[w][i] \in Outgoing
  BY OutgoingTypes
<1>4. ASSUME NEW w \in Workers, wpc'[w] = "reply"
      PROVE  ReplyMatches(out[w])'
  BY <1>3, <1>4 DEF RepliesMatch
<1>5. ASSUME NEW w \in Workers, NEW i \in DOMAIN outgoings'[w]
      PROVE  ReplyMatches(outgoings[w][i])'
  BY <1>3, <1>5 DEF RepliesMatch
<1> QED BY <1>2, <1>4, <1>5 DEF RepliesMatch

(* A worker does nothing to the slots and sends nothing. *)
LEMMA WorkersSendNothing ==
  ASSUME NEW w \in Workers, WorkerStep(w)
  PROVE  UNCHANGED <<peer, data, session, replies>>
BY DEF WorkerStep, network, history, WorkerCheck, WorkerDequeue, WorkerFindsNone, WorkerReject,
       WorkerIgnore, WorkerChat, WorkerClockSync, WorkerReply, Finish

(* Nor does the main thread, but when it serves an event or sends a reply. *)
LEMMA MainLeavesSlots ==
  ASSUME \/ Signal \/ MainCheck \/ MainDrained \/ MainJoin
         \/ ServiceTimeout \/ ServiceError
         \/ \E w \in Workers : SeeEmpty(w) \/ SendBroadcast(w)
         \/ \E s \in Slots, kind \in Kinds : ServiceReceive(s, kind)
  PROVE  UNCHANGED <<peer, data, session, replies>>
BY DEF network, history, Signal, MainCheck, MainDrained, MainJoin, ServiceTimeout, ServiceError,
       SeeEmpty, SendBroadcast, ServiceReceive

(* Each step keeps the generation of a slot and its number of sessions apart. *)
LEMMA GenerationNext ==
  ASSUME IInv, [Next]_vars
  PROVE  GenerationCountsSessions'
<1> USE DEF IInv, TypeInv, TypeOK, GenerationCountsSessions
<1>1. CASE UNCHANGED <<peer, data, session>>
  BY <1>1
<1>2. ASSUME NEW s \in Slots, ClientDrops(s) PROVE GenerationCountsSessions'
  BY <1>2 DEF ClientDrops
<1>3. ASSUME NEW s \in Slots, NEW id \in ClientIds \cup {0}, ServiceConnect(s, id)
      PROVE  GenerationCountsSessions'
  BY <1>3 DEF ServiceConnect
<1>4. ASSUME NEW s \in Slots, ServiceDisconnect(s) PROVE GenerationCountsSessions'
  BY <1>4 DEF ServiceDisconnect
<1>5. ASSUME NEW w \in Workers, SendReply(w) PROVE GenerationCountsSessions'
  BY <1>1, <1>5 DEF SendReply, network
<1>6. CASE UNCHANGED vars
  BY <1>1, <1>6 DEF vars, network
<1>7. ASSUME NEW w \in Workers, WorkerStep(w) PROVE GenerationCountsSessions'
  BY <1>1, <1>7, WorkersSendNothing
<1>8. CASE UNCHANGED <<peer, data, session, replies>>
  BY <1>1, <1>8
<1> QED
  BY ONLY <1>2, <1>3, <1>4, <1>5, <1>6, <1>7, <1>8, [Next]_vars, MainLeavesSlots, SMTT(60)
     DEF Next, MainStep, ServiceEvent

(* A reply is sent while the session of its generation is connected. *)
LEMMA ReplyStaysNext ==
  ASSUME IInv, [Next]_vars
  PROVE  ReplyStaysInGeneration'
<1>1. CASE UNCHANGED replies
  BY <1>1 DEF IInv, ReplyStaysInGeneration
<1>2. ASSUME NEW w \in Workers, SendReply(w) PROVE ReplyStaysInGeneration'
  <2> DEFINE r == Head(outgoings[w])
  <2>1. r \in Outgoing /\ r.peer # NoPeer
    BY <1>2, HeadTailType DEF SendReply, IInv, TypeInv, TypeOK
  <2>2. r.peer \in Slots /\ r.generation \in Nat
    BY <2>1 DEF Outgoing
  <2>3. CASE SameGeneration(r) /\ peer[r.peer] = "connected"
    <3>1. session[r.peer] = r.generation + 1
      BY <2>2, <2>3 DEF SameGeneration, IInv, GenerationCountsSessions, TypeInv, TypeOK
    <3>2. replies' = replies \cup
                       {[id |-> r.id, peer |-> r.peer, asker |-> r.asker,
                         generation |-> r.generation, to |-> session[r.peer]]}
      BY <1>2, <2>3 DEF SendReply
    <3> QED BY <3>1, <3>2 DEF IInv, ReplyStaysInGeneration
  <2>4. CASE ~(SameGeneration(r) /\ peer[r.peer] = "connected")
    BY <1>2, <2>4 DEF SendReply, IInv, ReplyStaysInGeneration
  <2> QED BY <2>3, <2>4
<1>3. ASSUME NEW w \in Workers, WorkerStep(w) PROVE ReplyStaysInGeneration'
  BY <1>1, <1>3, WorkersSendNothing
<1>4. ASSUME NEW s \in Slots,
             \/ ClientDrops(s) \/ ServiceDisconnect(s)
             \/ \E id \in ClientIds \cup {0} : ServiceConnect(s, id)
      PROVE  ReplyStaysInGeneration'
  BY <1>1, <1>4 DEF ClientDrops, ServiceDisconnect, ServiceConnect, history
<1>5. CASE UNCHANGED vars
  BY <1>1, <1>5 DEF vars, history
<1> QED
  BY ONLY <1>1, <1>2, <1>3, <1>4, <1>5, [Next]_vars, MainLeavesSlots, SMTT(60)
     DEF Next, MainStep, ServiceEvent

(* Each step keeps what is known of the messages in the queues. *)
LEMMA MessagesNext ==
  ASSUME IInv, [Next]_vars
  PROVE  AskersConnected' /\ RepliesMatch'
<1> USE DEF IInv, TypeInv, network, queues, worker, history
<1> DEFINE Goal == AskersConnected /\ RepliesMatch
<1>0. \A r : UNCHANGED <<peer, data, session>> /\ ReplyMatches(r) => ReplyMatches(r)'
  BY DEF ReplyMatches, SameGeneration
<1>1. ASSUME UNCHANGED <<peer, data, session, incomings, outgoings, wpc, msg, out>>
      PROVE  Goal'
  BY <1>0, <1>1, MessagesUnmoved DEF TypeOK
<1>2. ASSUME NEW s \in Slots, ClientDrops(s) PROVE Goal'
  <2>1. \A r \in Outgoing : ReplyMatches(r) => ReplyMatches(r)'
    BY <1>2 DEF ClientDrops, ReplyMatches, SameGeneration, Outgoing, TypeOK
  <2> QED BY <1>2, <2>1, MessagesUnmoved DEF ClientDrops, TypeOK
<1>3. ASSUME NEW s \in Slots, NEW id \in ClientIds \cup {0}, ServiceConnect(s, id)
      PROVE  Goal'
  <2>1. \A r \in Outgoing : ReplyMatches(r) => ReplyMatches(r)'
    BY <1>3 DEF ServiceConnect, ReplyMatches, SameGeneration, Outgoing, TypeOK
  <2> QED BY <1>3, <2>1, MessagesUnmoved DEF ServiceConnect, TypeOK
<1>4. ASSUME NEW s \in Slots, ServiceDisconnect(s) PROVE Goal'
  <2>1. \A r \in Outgoing : ReplyMatches(r) => ReplyMatches(r)'
    BY <1>4 DEF ServiceDisconnect, ReplyMatches, SameGeneration, Outgoing, TypeOK
  <2> QED BY <1>4, <2>1, MessagesUnmoved DEF ServiceDisconnect, TypeOK
<1>5. ASSUME NEW s \in Slots, NEW kind \in Kinds, ServiceReceive(s, kind)
      PROVE  Goal'
  <2> DEFINE m == [id |-> received + 1, kind |-> kind, peer |-> s,
                   asker |-> session[s], generation |-> data[s]]
  <2>1. m \in Incoming /\ incomings \in Seq(Incoming) /\ m.asker <= session[m.peer]
    BY KindsAssumption DEF Incoming, TypeOK
  <2> HIDE DEF m
  <2>2. \A i \in DOMAIN incomings' :
          \/ i \in DOMAIN incomings /\ incomings'[i] = incomings[i]
          \/ incomings'[i] = m
    BY <1>5, <2>1, AppendType DEF ServiceReceive, m
  <2>3. AskersConnected'
    BY <1>5, <2>1, <2>2 DEF AskersConnected, ServiceReceive
  <2>4. RepliesMatch'
    BY <1>0, <1>5 DEF RepliesMatch, ServiceReceive
  <2> QED BY <2>3, <2>4
<1>6. ASSUME NEW w \in Workers, SendBroadcast(w) \/ SendReply(w) PROVE Goal'
  <2>1. /\ outgoings[w] \in Seq(Outgoing) /\ outgoings[w] # <<>>
        /\ outgoings' = [outgoings EXCEPT ![w] = Tail(@)]
        /\ UNCHANGED <<peer, data, session, incomings, wpc, msg, out>>
    BY <1>6 DEF SendBroadcast, SendReply, TypeOK
  <2>2. AskersConnected'
    BY <2>1 DEF AskersConnected
  <2>3. ASSUME NEW v \in Workers, NEW i \in DOMAIN outgoings'[v]
        PROVE  ReplyMatches(outgoings'[v][i])
    <3>1. CASE v = w
      <4>1. outgoings'[v] = Tail(outgoings[w])
        BY <2>1, <3>1 DEF TypeOK
      <4>2. outgoings'[v][i] = outgoings[w][i + 1] /\ i + 1 \in DOMAIN outgoings[w]
        BY <2>1, <2>3, <4>1, HeadTailType
      <4> QED BY <4>2 DEF RepliesMatch
    <3>2. CASE v # w
      BY <2>1, <2>3, <3>2 DEF RepliesMatch, TypeOK
    <3> QED BY <3>1, <3>2
  <2>4. RepliesMatch'
    BY <1>0, <2>1, <2>3 DEF RepliesMatch
  <2> QED BY <2>2, <2>4
<1>7. ASSUME NEW w \in Workers, WorkerDequeue(w) PROVE Goal'
  <2>1. /\ incomings \in Seq(Incoming) /\ incomings # <<>>
        /\ incomings' = Tail(incomings)
        /\ msg' = [msg EXCEPT ![w] = Head(incomings)]
        /\ wpc' = [wpc EXCEPT ![w] = "handle"]
        /\ UNCHANGED <<peer, data, session, outgoings, out>>
    BY <1>7 DEF WorkerDequeue, TypeOK
  <2>2. /\ Head(incomings) = incomings[1] /\ 1 \in DOMAIN incomings
        /\ \A i \in DOMAIN Tail(incomings) :
             Tail(incomings)[i] = incomings[i + 1] /\ i + 1 \in DOMAIN incomings
    BY <2>1, HeadTailType
  <2>3. AskersConnected'
    BY <2>1, <2>2 DEF AskersConnected, TypeOK
  <2>4. RepliesMatch'
    BY <1>0, <2>1 DEF RepliesMatch, TypeOK
  <2> QED BY <2>3, <2>4
<1>8. ASSUME NEW w \in Workers,
             WorkerCheck(w) \/ WorkerFindsNone(w) \/ WorkerReject(w) \/ WorkerIgnore(w)
      PROVE  Goal'
  <2>1. /\ \A v \in Workers : wpc'[v] \in {"handle", "reply"}
                                => wpc'[v] = wpc[v] /\ msg'[v] = msg[v]
        /\ UNCHANGED <<peer, data, session, incomings, outgoings, out>>
    BY <1>8 DEF WorkerCheck, WorkerFindsNone, WorkerReject, WorkerIgnore, TypeOK
  <2> QED BY <1>0, <2>1 DEF AskersConnected, RepliesMatch
<1>9. ASSUME NEW w \in Workers, WorkerChat(w) PROVE Goal'
  <2>1. ReplyMatches(out'[w])
    BY <1>9 DEF WorkerChat, ReplyMatches, TypeOK
  <2>2. AskersConnected'
    BY <1>9 DEF WorkerChat, AskersConnected, TypeOK
  <2>3. RepliesMatch'
    BY <1>0, <1>9, <2>1 DEF WorkerChat, RepliesMatch, TypeOK
  <2> QED BY <2>2, <2>3
<1>10. ASSUME NEW w \in Workers, WorkerClockSync(w) PROVE Goal'
  <2>1. msg[w] \in Incoming /\ msg[w].asker <= session[msg[w].peer]
    BY <1>10, HandledType DEF WorkerClockSync, AskersConnected
  <2>2. out'[w] = [id |-> msg[w].id, peer |-> msg[w].peer, asker |-> msg[w].asker,
                   generation |-> data[msg[w].peer]]
    BY <1>10 DEF WorkerClockSync, TypeOK
  <2>3. ReplyMatches(out'[w])
    BY <2>1, <2>2 DEF ReplyMatches, SameGeneration
  <2>4. AskersConnected'
    BY <1>10 DEF WorkerClockSync, AskersConnected, TypeOK
  <2>5. RepliesMatch'
    BY <1>0, <1>10, <2>3 DEF WorkerClockSync, RepliesMatch, TypeOK
  <2> QED BY <2>4, <2>5
<1>11. ASSUME NEW w \in Workers, WorkerReply(w) PROVE Goal'
  <2>1. /\ wpc[w] = "reply" /\ out[w] \in Outgoing /\ outgoings[w] \in Seq(Outgoing)
        /\ outgoings' = [outgoings EXCEPT ![w] = Append(@, out[w])]
        /\ UNCHANGED <<peer, data, session, incomings>>
    BY <1>11, OutgoingTypes DEF WorkerReply, TypeOK
  <2>2. ReplyMatches(out[w])
    BY <2>1 DEF RepliesMatch
  <2>3. AskersConnected'
    BY <1>11 DEF WorkerReply, AskersConnected, TypeOK
  <2>4. ASSUME NEW v \in Workers, NEW i \in DOMAIN outgoings'[v]
        PROVE  ReplyMatches(outgoings'[v][i])
    <3>1. CASE v = w
      <4>1. outgoings'[v] = Append(outgoings[w], out[w])
        BY <2>1, <3>1 DEF TypeOK
      <4>2. \/ i \in DOMAIN outgoings[w] /\ outgoings'[v][i] = outgoings[w][i]
            \/ outgoings'[v][i] = out[w]
        BY <2>1, <2>4, <4>1, AppendType
      <4> QED BY <2>2, <4>2 DEF RepliesMatch
    <3>2. CASE v # w
      BY <2>1, <2>4, <3>2 DEF RepliesMatch, TypeOK
    <3> QED BY <3>1, <3>2
  <2>5. ASSUME NEW v \in Workers, wpc'[v] = "reply"
        PROVE  ReplyMatches(out'[v])
    BY <1>11, <2>5 DEF WorkerReply, RepliesMatch, TypeOK
  <2>6. RepliesMatch'
    BY <1>0, <2>1, <2>4, <2>5 DEF RepliesMatch
  <2> QED BY <2>3, <2>6
<1> QED
  BY <1>1, <1>2, <1>3, <1>4, <1>5, <1>6, <1>7, <1>8, <1>9, <1>10, <1>11
     DEF Next, MainStep, ServiceEvent, WorkerStep, vars, Signal, MainCheck,
         ServiceTimeout, ServiceError, SeeEmpty, MainDrained, MainJoin

LEMMA IInvNext == IInv /\ [Next]_vars => IInv'
<1> SUFFICES ASSUME IInv, [Next]_vars PROVE IInv'
  OBVIOUS
<1>1. TypeInv'
  BY TypeInvNext DEF IInv
<1> QED BY <1>1, GenerationNext, ReplyStaysNext, MessagesNext DEF IInv

(***************************************************************************)
(* The generation of a slot is the number of its sessions that ended, so   *)
(* that no two sessions of a slot share a generation (server.cpp:283-284). *)
(***************************************************************************)
THEOREM ServerGenerations == Spec => []GenerationCountsSessions
<1>1. IInv => GenerationCountsSessions
  BY DEF IInv
<1> QED BY IInvInit, IInvNext, <1>1, PTL DEF Spec

(***************************************************************************)
(* A reply goes only to the session whose generation its handler read,     *)
(* however the disconnections and the threads interleave.                  *)
(***************************************************************************)
THEOREM ServerRepliesStayInGeneration == Spec => []ReplyStaysInGeneration
<1>1. IInv => ReplyStaysInGeneration
  BY DEF IInv
<1> QED BY IInvInit, IInvNext, <1>1, PTL DEF Spec

(***************************************************************************)
(* The generation check never drops the reply of a client that stayed.     *)
(***************************************************************************)
THEOREM ServerAnswersStayingAsker == Spec => []StayingAskerIsAnswered
<1>1. IInv => StayingAskerIsAnswered
  BY DEF IInv, RepliesMatch, ReplyMatches, StayingAskerIsAnswered, InFlight
<1> QED BY IInvInit, IInvNext, <1>1, PTL DEF Spec
--------------------------------------------------------------------------------
(***************************************************************************)
(* Where the packets are, and in which order.  The main thread numbers     *)
(* them as they come, and all of them go through one queue.                *)
(***************************************************************************)
Below(S, T) == \A x \in S, y \in T : x < y

Increasing(q) == \A i, j \in DOMAIN q : i < j => q[i].id < q[j].id

(* The packets that w answered and the main thread has not yet sent. *)
Answered(w) == IdsOf(outgoings[w])

(* The packets that have left the incoming queue. *)
Taken == finished \cup UNION {Handled(w) \cup Answered(w) : w \in Workers}

ChatsBy(w) == {chats[i].id : i \in {j \in DOMAIN chats : chats[j].by = w}}

(* No packet is anywhere but in the places OneOwner counts, none is lost. *)
Numbered ==
  /\ received <= MaxMsgs
  /\ IdsOf(incomings) \cup Taken = 1 .. received

(* The incoming queue is a FIFO, and so are those of the workers. *)
Ordered ==
  /\ Increasing(incomings)
  /\ Below(Taken, IdsOf(incomings))
  /\ \A w \in Workers :
       /\ Increasing(outgoings[w])
       /\ Below(Answered(w), Handled(w))
       /\ \A i \in DOMAIN outgoings[w] : i <= outgoings[w][i].id

(* No packet is in two places. *)
Apart ==
  /\ \A v, w \in Workers :
       /\ v # w => Handled(v) \cap Handled(w) = {} /\ Answered(v) \cap Answered(w) = {}
       /\ Handled(v) \cap Answered(w) = {}
  /\ \A w \in Workers : finished \cap (Handled(w) \cup Answered(w)) = {}

(* The chats of a worker were broadcast before those it still has. *)
ChatsOrdered ==
  /\ ChatsInOrder
  /\ \A w \in Workers : /\ ChatsBy(w) \subseteq finished
                        /\ Below(ChatsBy(w), Answered(w) \cup Handled(w))

(* What a worker is about to answer is the packet in its hands. *)
AnswersOwn ==
  \A w \in Workers :
    wpc[w] = "reply" => /\ out[w].id = msg[w].id
                        /\ msg[w].kind = "Chat" <=> out[w].peer = NoPeer

PlacesInv ==
  TypeInv /\ AnswersOwn /\ Numbered /\ Ordered /\ Apart /\ ChatsOrdered

(***************************************************************************)
(* The ways in which a step moves a packet.                                *)
(***************************************************************************)
OthersKeep(w) == \A v \in Workers \ {w} : Handled(v)' = Handled(v)

Unmoved ==
  /\ UNCHANGED <<received, incomings, outgoings, finished, chats>>
  /\ \A w \in Workers : Handled(w)' = Handled(w)

Arrives(e) ==
  /\ received < MaxMsgs
  /\ received' = received + 1 /\ e.id = received + 1
  /\ incomings' = Append(incomings, e)
  /\ UNCHANGED <<outgoings, finished, chats>>
  /\ \A w \in Workers : Handled(w)' = Handled(w)

IsTaken(w) ==
  /\ incomings # <<>> /\ incomings' = Tail(incomings)
  /\ Handled(w) = {} /\ Handled(w)' = {Head(incomings).id}
  /\ OthersKeep(w)
  /\ UNCHANGED <<received, outgoings, finished, chats>>

IsFinished(w) ==
  /\ Handled(w)' = {} /\ finished' = finished \cup Handled(w)
  /\ OthersKeep(w)
  /\ UNCHANGED <<received, incomings, outgoings, chats>>

IsAnswered(w, e) ==
  /\ Handled(w) = {e.id} /\ Handled(w)' = {}
  /\ outgoings' = [outgoings EXCEPT ![w] = Append(@, e)]
  /\ OthersKeep(w)
  /\ UNCHANGED <<received, incomings, finished, chats>>

IsSent(w) ==
  /\ outgoings[w] # <<>>
  /\ outgoings' = [outgoings EXCEPT ![w] = Tail(@)]
  /\ finished' = finished \cup {Head(outgoings[w]).id}
  /\ chats' \in {chats, Append(chats, [id |-> Head(outgoings[w]).id, by |-> w])}
  /\ UNCHANGED <<received, incomings>>
  /\ \A v \in Workers : Handled(v)' = Handled(v)

(* Every step is one of these, or moves none. *)
LEMMA PacketMoves ==
  ASSUME TypeInv, AnswersOwn, [Next]_vars
  PROVE  \/ Unmoved
         \/ \E e \in Incoming : Arrives(e)
         \/ \E w \in Workers : IsTaken(w)
         \/ \E w \in Workers : IsFinished(w)
         \/ \E w \in Workers, e \in Outgoing : IsAnswered(w, e)
         \/ \E w \in Workers : IsSent(w)
<1> USE DEF TypeInv, TypeOK, Handled, network, queues, worker, history
<1>1. ASSUME UNCHANGED <<received, incomings, outgoings, finished, chats>>,
             UNCHANGED <<wpc, msg>>
      PROVE  Unmoved
  BY <1>1 DEF Unmoved
<1>2. ASSUME NEW s \in Slots, NEW kind \in Kinds, ServiceReceive(s, kind)
      PROVE  \E e \in Incoming : Arrives(e)
  <2> DEFINE e == [id |-> received + 1, kind |-> kind, peer |-> s,
                   asker |-> session[s], generation |-> data[s]]
  <2>1. e \in Incoming
    BY KindsAssumption DEF Incoming
  <2>2. e.id = received + 1 /\ incomings' = Append(incomings, e)
    BY <1>2 DEF ServiceReceive
  <2> HIDE DEF e
  <2> QED BY <1>2, <2>1, <2>2 DEF ServiceReceive, Arrives
<1>3. ASSUME NEW w \in Workers, SendBroadcast(w) \/ SendReply(w)
      PROVE  IsSent(w)
  BY <1>3 DEF SendBroadcast, SendReply, IsSent
<1>4. ASSUME NEW w \in Workers, WorkerDequeue(w)
      PROVE  IsTaken(w)
  BY <1>4 DEF WorkerDequeue, IsTaken, OthersKeep
<1>5. ASSUME NEW w \in Workers, WorkerReject(w) \/ WorkerIgnore(w)
      PROVE  IsFinished(w)
  BY <1>5 DEF WorkerReject, WorkerIgnore, IsFinished, OthersKeep
<1>6. ASSUME NEW w \in Workers,
             WorkerCheck(w) \/ WorkerFindsNone(w) \/ WorkerChat(w) \/ WorkerClockSync(w)
      PROVE  Unmoved
  BY <1>6 DEF WorkerCheck, WorkerFindsNone, WorkerChat, WorkerClockSync, Unmoved
<1>7. ASSUME NEW w \in Workers, WorkerReply(w)
      PROVE  \E e \in Outgoing : IsAnswered(w, e)
  <2>1. out[w] \in Outgoing
    BY OutgoingTypes
  <2>2. IsAnswered(w, out[w])
    BY <1>7 DEF WorkerReply, IsAnswered, OthersKeep, AnswersOwn
  <2> QED BY <2>1, <2>2
<1> QED
  BY <1>1, <1>2, <1>3, <1>4, <1>5, <1>6, <1>7
     DEF Next, MainStep, ServiceEvent, WorkerStep, vars, ClientDrops, Signal, MainCheck,
         ServiceConnect, ServiceDisconnect, ServiceTimeout, ServiceError, SeeEmpty,
         MainDrained, MainJoin

LEMMA IdsOfTail ==
  ASSUME NEW S, \A e \in S : e.id \in Nat, NEW q \in Seq(S), q # <<>>, Increasing(q)
  PROVE  /\ Head(q).id \in IdsOf(q)
         /\ IdsOf(Tail(q)) = IdsOf(q) \ {Head(q).id}
         /\ Increasing(Tail(q))
         /\ Below({Head(q).id}, IdsOf(Tail(q)))
<1> DEFINE r == Tail(q)
<1>1. /\ Head(q) = q[1] /\ 1 \in DOMAIN q
      /\ DOMAIN q = 1 .. Len(q) /\ Len(q) \in Nat
      /\ DOMAIN r = 1 .. Len(q) - 1
      /\ \A i \in DOMAIN r : r[i] = q[i + 1] /\ i + 1 \in DOMAIN q
  BY HeadTailType
<1>2. \A i \in DOMAIN q : q[i].id \in Nat
  OBVIOUS
<1> HIDE DEF r
<1>3. \A j \in DOMAIN q \ {1} : j - 1 \in DOMAIN r /\ q[j] = r[j - 1]
  BY <1>1
<1>4. \A j \in DOMAIN q \ {1} : q[1].id < q[j].id
  BY <1>1 DEF Increasing
<1>5. IdsOf(r) = IdsOf(q) \ {q[1].id}
  <2>1. ASSUME NEW x \in IdsOf(r) PROVE x \in IdsOf(q) \ {q[1].id}
    BY <1>1, <1>2, <1>4 DEF IdsOf
  <2>2. ASSUME NEW x \in IdsOf(q) \ {q[1].id} PROVE x \in IdsOf(r)
    BY <1>3 DEF IdsOf
  <2> QED BY <2>1, <2>2
<1>6. Increasing(r)
  BY <1>1, SMTT(60) DEF Increasing
<1>7. Below({q[1].id}, IdsOf(r))
  BY <1>1, <1>4 DEF Below, IdsOf
<1>8. q[1].id \in IdsOf(q)
  BY <1>1 DEF IdsOf
<1> QED BY <1>1, <1>5, <1>6, <1>7, <1>8 DEF r

LEMMA IdsOfAppend ==
  ASSUME NEW S, NEW q \in Seq(S), NEW e \in S
  PROVE  /\ IdsOf(Append(q, e)) = IdsOf(q) \cup {e.id}
         /\ Increasing(q) /\ Below(IdsOf(q), {e.id}) => Increasing(Append(q, e))
<1> DEFINE r == Append(q, e)
<1>1. /\ DOMAIN q = 1 .. Len(q) /\ Len(q) \in Nat
      /\ DOMAIN r = 1 .. Len(q) + 1
      /\ \A i \in DOMAIN q : i \in DOMAIN r /\ r[i] = q[i]
      /\ Len(q) + 1 \in DOMAIN r /\ r[Len(q) + 1] = e
  OBVIOUS
<1> HIDE DEF r
<1>2. IdsOf(r) = IdsOf(q) \cup {e.id}
  <2>1. ASSUME NEW i \in DOMAIN r PROVE r[i].id \in IdsOf(q) \cup {e.id}
    BY <1>1 DEF IdsOf
  <2> QED BY <1>1, <2>1 DEF IdsOf
<1>3. Increasing(q) /\ Below(IdsOf(q), {e.id}) => Increasing(r)
  BY <1>1 DEF Increasing, Below, IdsOf
<1> QED BY <1>2, <1>3 DEF r

LEMMA PlacesInvInit == Init => PlacesInv
<1> SUFFICES ASSUME Init PROVE PlacesInv
  OBVIOUS
<1>1. TypeInv
  BY TypeInvInit
<1>2. AnswersOwn
  BY DEF Init, AnswersOwn
<1>3. /\ incomings = <<>> /\ finished = {} /\ received = 0 /\ chats = <<>>
      /\ \A w \in Workers : outgoings[w] = <<>> /\ Handled(w) = {}
  BY DEF Init, Handled
<1>4. IdsOf(<<>>) = {}
  BY DEF IdsOf
<1>5. Taken = {} /\ \A w \in Workers : Answered(w) = {} /\ ChatsBy(w) = {}
  BY <1>3, <1>4 DEF Taken, Answered, ChatsBy
<1>6. Numbered
  BY <1>3, <1>4, <1>5, BoundsAssumption DEF Numbered
<1>7. Ordered
  BY <1>3, <1>4, <1>5 DEF Ordered, Increasing, Below
<1>8. Apart
  BY <1>3, <1>5 DEF Apart
<1>9. ChatsOrdered
  BY <1>3, <1>5 DEF ChatsOrdered, ChatsInOrder, Below
<1> QED BY <1>1, <1>2, <1>6, <1>7, <1>8, <1>9 DEF PlacesInv

(* The rest of PlacesInv, which depends on the places of the packets alone. *)
Places == Numbered /\ Ordered /\ Apart /\ ChatsOrdered

(* What the types and Numbered say of the numbers of packets. *)
LEMMA PacketTypes ==
  ASSUME TypeInv, Numbered
  PROVE  /\ received \in Nat /\ MaxMsgs \in Nat
         /\ incomings \in Seq(Incoming) /\ IdsOf(incomings) \subseteq Nat
         /\ finished \subseteq Nat /\ Taken \subseteq Nat
         /\ chats \in Seq(Broadcast)
         /\ \A w \in Workers : /\ outgoings[w] \in Seq(Outgoing)
                               /\ Handled(w) \subseteq Nat /\ Answered(w) \subseteq Nat
                               /\ Handled(w) \cup Answered(w) \subseteq Taken
         /\ finished \subseteq Taken
<1>1. /\ received \in Nat /\ incomings \in Seq(Incoming) /\ finished \subseteq Nat
      /\ chats \in Seq(Broadcast) /\ outgoings \in [Workers -> Seq(Outgoing)]
  BY DEF TypeInv, TypeOK
<1>2. IdsOf(incomings) \subseteq Nat /\ Taken \subseteq Nat
  BY <1>1 DEF Numbered
<1>3. finished \subseteq Taken /\ \A w \in Workers : Handled(w) \cup Answered(w) \subseteq Taken
  BY DEF Taken
<1> QED BY <1>1, <1>2, <1>3, BoundsAssumption

LEMMA ArrivesKeeps ==
  ASSUME PlacesInv, NEW e \in Incoming, Arrives(e)
  PROVE  Places'
<1> USE PacketTypes DEF PlacesInv
<1>1. /\ \A w \in Workers : /\ Handled(w)' = Handled(w) /\ Answered(w)' = Answered(w)
                            /\ ChatsBy(w)' = ChatsBy(w)
      /\ Taken' = Taken /\ finished' = finished
  BY DEF Arrives, Answered, ChatsBy, Taken
<1>2. /\ IdsOf(incomings)' = IdsOf(incomings) \cup {received + 1}
      /\ received' = received + 1 /\ received + 1 <= MaxMsgs
  <2>1. incomings \in Seq(Incoming) /\ incomings' = Append(incomings, e)
        /\ e.id = received + 1
    BY DEF Arrives
  <2>2. IdsOf(incomings') = IdsOf(incomings) \cup {e.id}
    BY ONLY <2>1, IdsOfAppend, ZenonT(60)
  <2> QED BY <2>1, <2>2 DEF Arrives
<1>3. Numbered'
  BY <1>1, <1>2 DEF Numbered
<1>4. \A x \in IdsOf(incomings) \cup Taken : x \in Nat /\ x <= received
  BY DEF Numbered
<1>5. Increasing(incomings)'
  <2>1. Below(IdsOf(incomings), {e.id})
    BY <1>4 DEF Below, Arrives
  <2> QED BY <2>1, IdsOfAppend DEF Arrives, Ordered, Increasing
<1>6. Below(Taken', IdsOf(incomings)')
  BY <1>1, <1>2, <1>4 DEF Below, Ordered
<1>7. Ordered'
  BY <1>1, <1>5, <1>6 DEF Ordered, Arrives, Increasing, Below
<1>8. Apart' /\ ChatsOrdered'
  BY <1>1 DEF Apart, ChatsOrdered, ChatsInOrder, Arrives, Below
<1> QED BY <1>3, <1>7, <1>8 DEF Places

LEMMA TakenKeeps ==
  ASSUME PlacesInv, NEW w \in Workers, IsTaken(w)
  PROVE  Places'
<1> USE PacketTypes DEF PlacesInv
<1> DEFINE x == Head(incomings).id
<1>1. /\ x \in IdsOf(incomings)
      /\ IdsOf(incomings)' = IdsOf(incomings) \ {x}
      /\ Increasing(incomings)'
      /\ Below({x}, IdsOf(incomings)')
  <2>1. incomings \in Seq(Incoming) /\ incomings # <<>> /\ incomings' = Tail(incomings)
    BY DEF IsTaken
  <2>2. \A e \in Incoming : e.id \in Nat
    BY DEF Incoming
  <2>3. Increasing(incomings)
    BY DEF Ordered
  <2> QED BY <2>1, <2>2, <2>3, IdsOfTail DEF Increasing
<1> HIDE DEF x
<1>2. /\ Handled(w) = {} /\ Handled(w)' = {x}
      /\ \A v \in Workers \ {w} : Handled(v)' = Handled(v)
      /\ \A v \in Workers : Answered(v)' = Answered(v) /\ ChatsBy(v)' = ChatsBy(v)
      /\ finished' = finished /\ received' = received
      /\ outgoings' = outgoings /\ chats' = chats
  BY DEF IsTaken, OthersKeep, Answered, ChatsBy, x
<1>3. Taken' = Taken \cup {x}
  BY <1>2 DEF Taken
<1>4. Numbered'
  BY <1>1, <1>2, <1>3 DEF Numbered
<1>5. \A y \in Taken : y < x
  BY <1>1 DEF Ordered, Below
<1>6. Ordered'
  <2>1. Below(Taken', IdsOf(incomings)')
    BY <1>1, <1>3 DEF Ordered, Below
  <2>2. \A v \in Workers : Below(Answered(v)', Handled(v)')
    BY <1>2, <1>5 DEF Ordered, Below
  <2> QED BY <1>1, <1>2, <2>1, <2>2 DEF Ordered, Increasing
<1>7. Apart'
  BY <1>2, <1>5 DEF Apart
<1>8. ChatsOrdered'
  <2>1. \A v \in Workers : Below(ChatsBy(v)', Answered(v)' \cup Handled(v)')
    BY <1>2, <1>5 DEF ChatsOrdered, Below
  <2> QED BY <1>2, <2>1 DEF ChatsOrdered, ChatsInOrder
<1> QED BY <1>4, <1>6, <1>7, <1>8 DEF Places

LEMMA FinishedKeeps ==
  ASSUME PlacesInv, NEW w \in Workers, IsFinished(w)
  PROVE  Places'
<1> USE PacketTypes DEF PlacesInv
<1>1. /\ Handled(w)' = {} /\ finished' = finished \cup Handled(w)
      /\ \A v \in Workers \ {w} : Handled(v)' = Handled(v)
      /\ \A v \in Workers : Answered(v)' = Answered(v) /\ ChatsBy(v)' = ChatsBy(v)
      /\ UNCHANGED <<received, incomings, outgoings, chats>>
  BY DEF IsFinished, OthersKeep, Answered, ChatsBy
<1>2. Taken' = Taken
  BY <1>1 DEF Taken
<1>3. Numbered' /\ Ordered'
  BY <1>1, <1>2 DEF Numbered, Ordered, Increasing, Below
<1>4. Apart'
  BY <1>1 DEF Apart
<1>5. ChatsOrdered'
  BY <1>1 DEF ChatsOrdered, ChatsInOrder, Below
<1> QED BY <1>3, <1>4, <1>5 DEF Places

LEMMA AnsweredKeeps ==
  ASSUME PlacesInv, NEW w \in Workers, NEW e \in Outgoing, IsAnswered(w, e)
  PROVE  Places'
<1> USE PacketTypes DEF PlacesInv
<1> DEFINE q == outgoings[w]
<1>1. /\ q \in Seq(Outgoing) /\ Handled(w) = {e.id} /\ e.id \in Nat
      /\ Below(IdsOf(q), {e.id}) /\ Increasing(q)
      /\ \A i \in DOMAIN q : i <= q[i].id /\ q[i].id \in Nat
  <2>1. /\ Below(Answered(w), Handled(w)) /\ Increasing(q)
        /\ \A i \in DOMAIN q : i <= q[i].id
    BY DEF Ordered
  <2>2. \A i \in DOMAIN q : q[i].id \in Answered(w)
    BY DEF Answered, IdsOf
  <2> QED BY <2>1, <2>2 DEF IsAnswered, Answered
<1>2. /\ outgoings'[w] = Append(q, e)
      /\ \A v \in Workers \ {w} : outgoings'[v] = outgoings[v]
  BY DEF IsAnswered, TypeInv, TypeOK
<1>3. /\ Answered(w)' = Answered(w) \cup {e.id}
      /\ Increasing(outgoings'[w])
  BY <1>1, <1>2, IdsOfAppend DEF Answered
<1>4. /\ Handled(w)' = {}
      /\ \A v \in Workers \ {w} : Handled(v)' = Handled(v) /\ Answered(v)' = Answered(v)
      /\ \A v \in Workers : ChatsBy(v)' = ChatsBy(v)
      /\ UNCHANGED <<received, incomings, finished, chats>>
  BY <1>2 DEF IsAnswered, OthersKeep, Answered, ChatsBy
<1>5. Taken' = Taken
  BY <1>1, <1>3, <1>4 DEF Taken
<1>6. Numbered'
  BY <1>4, <1>5 DEF Numbered
<1>7. \A i \in DOMAIN outgoings'[w] : i <= outgoings'[w][i].id
  <2>1. /\ DOMAIN Append(q, e) = 1 .. Len(q) + 1 /\ Len(q) \in Nat
        /\ DOMAIN q = 1 .. Len(q)
        /\ \A i \in DOMAIN q : Append(q, e)[i] = q[i]
        /\ Append(q, e)[Len(q) + 1] = e
    BY <1>1
  <2>2. \A i \in DOMAIN q : i <= q[i].id /\ q[i].id \in Nat
    BY <1>1
  <2>3. Len(q) + 1 <= e.id
    <3>1. CASE Len(q) = 0
      <4>1. e.id \in 1 .. received
        BY <1>1 DEF Numbered
      <4> QED BY <3>1, <4>1
    <3>2. CASE Len(q) # 0
      <4>1. Len(q) \in DOMAIN q
        BY <2>1, <3>2
      <4>2. q[Len(q)].id < e.id
        BY <1>1, <4>1 DEF Below, IdsOf
      <4> QED BY <1>1, <2>2, <4>1, <4>2
    <3> QED BY <3>1, <3>2
  <2> QED BY <1>2, <2>1, <2>2, <2>3
<1>8. Ordered'
  <2>1. Below(Taken', IdsOf(incomings)') /\ Increasing(incomings)'
    BY <1>4, <1>5 DEF Ordered, Below, Increasing
  <2>2. ASSUME NEW v \in Workers
        PROVE  /\ Increasing(outgoings'[v])
               /\ Below(Answered(v)', Handled(v)')
               /\ \A i \in DOMAIN outgoings'[v] : i <= outgoings'[v][i].id
    BY <1>2, <1>3, <1>4, <1>7 DEF Ordered, Below
  <2> QED BY <2>1, <2>2 DEF Ordered, Increasing
<1>9. Apart'
  <2>1. \A v \in Workers \ {w} : e.id \notin Handled(v) \cup Answered(v)
    BY <1>1 DEF Apart
  <2>2. e.id \notin finished
    BY <1>1 DEF Apart
  <2> QED BY <1>3, <1>4, <2>1, <2>2 DEF Apart
<1>10. ChatsOrdered'
  <2>1. \A v \in Workers : Below(ChatsBy(v)', Answered(v)' \cup Handled(v)')
    BY <1>1, <1>3, <1>4 DEF ChatsOrdered, Below
  <2> QED BY <1>4, <2>1 DEF ChatsOrdered, ChatsInOrder
<1> QED BY <1>6, <1>8, <1>9, <1>10 DEF Places

LEMMA SentKeeps ==
  ASSUME PlacesInv, NEW w \in Workers, IsSent(w)
  PROVE  Places'
<1> USE PacketTypes DEF PlacesInv
<1> DEFINE q == outgoings[w]
           x == Head(q).id
           c == [id |-> x, by |-> w]
<1>1. /\ q \in Seq(Outgoing) /\ q # <<>> /\ Increasing(q)
      /\ \A e \in Outgoing : e.id \in Nat
      /\ \A i \in DOMAIN q : i <= q[i].id
  BY DEF IsSent, Ordered, Outgoing
<1>2. /\ outgoings'[w] = Tail(q)
      /\ \A v \in Workers \ {w} : outgoings'[v] = outgoings[v]
  BY DEF IsSent, TypeInv, TypeOK
<1>3. /\ x \in Answered(w) /\ Answered(w)' = Answered(w) \ {x}
      /\ Increasing(outgoings'[w])
      /\ Below({x}, Answered(w)')
  BY <1>1, <1>2, IdsOfTail DEF Answered
<1>4. \A i \in DOMAIN outgoings'[w] : i <= outgoings'[w][i].id
  <2>1. /\ DOMAIN q \subseteq Nat
        /\ \A i \in DOMAIN Tail(q) : /\ i + 1 \in DOMAIN q /\ i \in Nat
                                     /\ Tail(q)[i] = q[i + 1]
    BY <1>1, HeadTailType, SMTT(60)
  <2>2. \A i \in DOMAIN q : q[i].id \in Nat
    BY <1>1
  <2>3. ASSUME NEW i \in DOMAIN Tail(q) PROVE i <= Tail(q)[i].id
    BY <1>1, <2>1, <2>2, SMTT(60)
  <2> QED BY <1>2, <2>3
<1> HIDE DEF x, q
<1>5. /\ finished' = finished \cup {x}
      /\ \A v \in Workers : Handled(v)' = Handled(v)
      /\ \A v \in Workers \ {w} : Answered(v)' = Answered(v)
      /\ UNCHANGED <<received, incomings>>
  BY <1>2 DEF IsSent, Answered, x, q
<1>6. Taken' = Taken
  BY <1>3, <1>5 DEF Taken
<1>7. Numbered'
  BY <1>5, <1>6 DEF Numbered
<1>8. Ordered'
  <2>1. Below(Taken', IdsOf(incomings)') /\ Increasing(incomings)'
    BY <1>5, <1>6 DEF Ordered, Below, Increasing
  <2>2. ASSUME NEW v \in Workers
        PROVE  /\ Increasing(outgoings'[v])
               /\ Below(Answered(v)', Handled(v)')
               /\ \A i \in DOMAIN outgoings'[v] : i <= outgoings'[v][i].id
    <3>1. CASE v = w
      BY <1>3, <1>4, <1>5, <3>1 DEF Ordered, Below
    <3>2. CASE v # w
      BY <1>2, <1>5, <3>2 DEF Ordered, Below
    <3> QED BY <3>1, <3>2
  <2> QED BY <2>1, <2>2 DEF Ordered, Increasing
<1>9. \A v \in Workers \ {w} : x \notin Handled(v) \cup Answered(v)
  BY <1>3 DEF Apart
<1>10. x \notin Handled(w)
  BY <1>3 DEF Apart
<1>11. Apart'
  BY <1>3, <1>5, <1>9, <1>10, SMTT(60) DEF Apart
<1>12. chats' = chats \/ chats' = Append(chats, c)
  BY DEF IsSent, x, q
<1>13. /\ chats \in Seq(Broadcast) /\ c \in Broadcast
       /\ \A y \in ChatsBy(w) : y \in Nat /\ y < x
  <2>1. x \in Nat
    BY <1>3
  <2>2. ChatsBy(w) \subseteq finished /\ Below(ChatsBy(w), Answered(w))
    BY DEF ChatsOrdered, Below
  <2> QED BY <1>3, <2>1, <2>2 DEF Below, Broadcast
<1>14. /\ ChatsInOrder'
       /\ \A v \in Workers \ {w} : ChatsBy(v)' \subseteq ChatsBy(v)
       /\ ChatsBy(w)' \subseteq ChatsBy(w) \cup {x}
  <2>1. CASE chats' = chats
    BY <2>1 DEF ChatsOrdered, ChatsInOrder, ChatsBy
  <2>2. CASE chats' = Append(chats, c)
    <3> DEFINE n == Len(chats) + 1
    <3>1. /\ n \in Nat /\ DOMAIN chats = 1 .. n - 1
          /\ DOMAIN chats' = 1 .. n
          /\ \A i \in 1 .. n - 1 : chats'[i] = chats[i]
          /\ chats'[n] = c
      BY <1>13, <2>2
    <3> HIDE DEF n
    <3>2. \A i \in 1 .. n - 1 : chats[i].by = w => chats[i].id < x
      BY <1>13, <3>1 DEF ChatsBy
    <3>3. ASSUME NEW i \in DOMAIN chats', NEW j \in DOMAIN chats',
                 i < j, chats'[i].by = chats'[j].by
          PROVE  chats'[i].id < chats'[j].id
      <4>1. i \in 1 .. n - 1
        BY <3>1, <3>3
      <4>2. CASE j = n
        BY <3>1, <3>2, <3>3, <4>1, <4>2
      <4>3. CASE j # n
        BY <3>1, <3>3, <4>1, <4>3, SMTT(60) DEF ChatsOrdered, ChatsInOrder
      <4> QED BY <4>2, <4>3
    <3>4. ASSUME NEW v \in Workers, NEW i \in DOMAIN chats', chats'[i].by = v
          PROVE  chats'[i].id \in ChatsBy(v) \/ (v = w /\ chats'[i].id = x)
      <4>1. CASE i = n
        BY <3>1, <3>4, <4>1
      <4>2. CASE i # n
        <5>1. i \in DOMAIN chats /\ chats'[i] = chats[i]
          BY <3>1, <4>2
        <5> QED BY <3>4, <5>1 DEF ChatsBy
      <4> QED BY <4>1, <4>2
    <3>5. \A v \in Workers : \A y \in ChatsBy(v)' : y \in ChatsBy(v) \/ (v = w /\ y = x)
      BY <3>4 DEF ChatsBy
    <3> QED BY <3>3, <3>5 DEF ChatsInOrder
  <2> QED BY <1>12, <2>1, <2>2
<1>15. ChatsOrdered'
  <2>1. \A v \in Workers : ChatsBy(v)' \subseteq finished'
    BY <1>5, <1>14 DEF ChatsOrdered
  <2>2. Below(ChatsBy(w)', Answered(w)' \cup Handled(w)')
    <3>1. Below({x}, Handled(w))
      BY <1>3 DEF Ordered, Below
    <3> QED BY <1>3, <1>5, <1>14, <3>1 DEF ChatsOrdered, Below
  <2>3. \A v \in Workers \ {w} : Below(ChatsBy(v)', Answered(v)' \cup Handled(v)')
    BY <1>5, <1>14 DEF ChatsOrdered, Below
  <2> QED BY <1>14, <2>1, <2>2, <2>3 DEF ChatsOrdered
<1> QED BY <1>7, <1>8, <1>11, <1>15 DEF Places

LEMMA AnswersOwnNext ==
  ASSUME TypeInv, AnswersOwn, [Next]_vars
  PROVE  AnswersOwn'
<1> USE DEF AnswersOwn, network, queues, worker, history
<1>1. CASE UNCHANGED <<wpc, msg, out>>
  BY <1>1
<1>2. ASSUME NEW w \in Workers,
             \/ WorkerCheck(w) \/ WorkerDequeue(w) \/ WorkerFindsNone(w)
             \/ WorkerReject(w) \/ WorkerIgnore(w) \/ WorkerReply(w)
      PROVE  AnswersOwn'
  BY <1>2 DEF TypeInv, TypeOK, WorkerCheck, WorkerDequeue, WorkerFindsNone, WorkerReject,
              WorkerIgnore, WorkerReply
<1>3. ASSUME NEW w \in Workers, WorkerChat(w) PROVE AnswersOwn'
  BY <1>3 DEF TypeInv, TypeOK, WorkerChat
<1>4. ASSUME NEW w \in Workers, WorkerClockSync(w) PROVE AnswersOwn'
  <2>1. msg[w].peer # NoPeer
    BY <1>4, HandledType, SlotsAssumption DEF TypeInv, WorkerClockSync, Incoming
  <2> QED BY <1>4, <2>1 DEF TypeInv, TypeOK, WorkerClockSync
<1>5. ASSUME NEW w \in Workers, SeeEmpty(w) \/ SendBroadcast(w) \/ SendReply(w)
      PROVE  AnswersOwn'
  BY <1>1, <1>5 DEF SeeEmpty, SendBroadcast, SendReply
<1>6. ASSUME NEW s \in Slots,
             \/ ClientDrops(s) \/ ServiceDisconnect(s)
             \/ \E id \in ClientIds \cup {0} : ServiceConnect(s, id)
             \/ \E kind \in Kinds : ServiceReceive(s, kind)
      PROVE  AnswersOwn'
  BY <1>1, <1>6 DEF ClientDrops, ServiceDisconnect, ServiceConnect, ServiceReceive
<1>7. CASE \/ Signal \/ MainCheck \/ MainDrained \/ MainJoin
           \/ ServiceTimeout \/ ServiceError \/ UNCHANGED vars
  BY <1>1, <1>7 DEF Signal, MainCheck, MainDrained, MainJoin, ServiceTimeout, ServiceError, vars
<1> QED
  BY ONLY <1>2, <1>3, <1>4, <1>5, <1>6, <1>7, [Next]_vars, SMTT(60)
     DEF Next, MainStep, ServiceEvent, WorkerStep

LEMMA PlacesInvNext == PlacesInv /\ [Next]_vars => PlacesInv'
<1> SUFFICES ASSUME PlacesInv, [Next]_vars PROVE PlacesInv'
  OBVIOUS
<1>1. TypeInv' /\ AnswersOwn'
  BY TypeInvNext, AnswersOwnNext DEF PlacesInv
<1>2. ASSUME Unmoved PROVE Places'
  <2>1. /\ UNCHANGED <<received, incomings, outgoings, finished, chats>>
        /\ \A w \in Workers : /\ Handled(w)' = Handled(w) /\ Answered(w)' = Answered(w)
                              /\ ChatsBy(w)' = ChatsBy(w)
        /\ Taken' = Taken
    BY <1>2 DEF Unmoved, Answered, ChatsBy, Taken
  <2>2. Numbered' /\ Ordered' /\ Apart'
    BY <2>1 DEF PlacesInv, Numbered, Ordered, Apart, Below, Increasing
  <2>3. ChatsOrdered'
    BY <2>1 DEF PlacesInv, ChatsOrdered, ChatsInOrder, Below
  <2> QED BY <2>2, <2>3 DEF Places
<1>3. Places'
  BY <1>2, PacketMoves, ArrivesKeeps, TakenKeeps, FinishedKeeps, AnsweredKeeps, SentKeeps
     DEF PlacesInv, Places
<1> QED BY <1>1, <1>3 DEF PlacesInv, Places

LEMMA PlacesInvariance == Spec => []PlacesInv
  BY PlacesInvInit, PlacesInvNext, PTL DEF Spec

LEMMA CountOfOne ==
  /\ Cardinality({}) = 0
  /\ \A x : Cardinality({x}) = 1
  BY FS_EmptySet, FS_Singleton

LEMMA OneCopy ==
  ASSUME PlacesInv, NEW id \in 1 .. received
  PROVE  Copies(id) = 1
<1> USE PacketTypes DEF PlacesInv
<1> DEFINE A == {i \in DOMAIN incomings : incomings[i].id = id}
           B == {w \in Workers : id \in Handled(w)}
           C == {p \in Workers \X (1 .. MaxMsgs) :
                   p[2] \in DOMAIN outgoings[p[1]] /\ outgoings[p[1]][p[2]].id = id}
           D == finished \cap {id}
<1>1. Copies(id) = Cardinality(A) + Cardinality(B) + Cardinality(C) + Cardinality(D)
  BY DEF Copies
<1>2. ASSUME id \in IdsOf(incomings) PROVE Cardinality(A) = 1
  <2>1. PICK i \in DOMAIN incomings : incomings[i].id = id
    BY <1>2 DEF IdsOf
  <2>2. ASSUME NEW j \in A PROVE j = i
    <3>1. i \in Nat /\ j \in Nat /\ j \in DOMAIN incomings /\ incomings[j].id = id
      BY DEF PlacesInv
    <3>2. ~(i < j) /\ ~(j < i)
      BY <2>1, <3>1 DEF Ordered, Increasing
    <3> QED BY <3>1, <3>2
  <2>3. A = {i}
    BY <2>1, <2>2
  <2> QED BY <2>3, CountOfOne
<1>3. ASSUME id \notin IdsOf(incomings) PROVE Cardinality(A) = 0
  <2>1. A = {}
    BY <1>3 DEF IdsOf
  <2> QED BY <2>1, CountOfOne
<1>4. ASSUME NEW w \in Workers, id \in Handled(w) PROVE Cardinality(B) = 1
  <2>1. B = {w}
    BY <1>4 DEF Apart
  <2> QED BY <2>1, CountOfOne
<1>5. ASSUME \A w \in Workers : id \notin Handled(w) PROVE Cardinality(B) = 0
  <2>1. B = {}
    BY <1>5
  <2> QED BY <2>1, CountOfOne
<1>6. ASSUME NEW w \in Workers, id \in Answered(w) PROVE Cardinality(C) = 1
  <2>1. PICK i \in DOMAIN outgoings[w] : outgoings[w][i].id = id
    BY <1>6 DEF Answered, IdsOf
  <2>2. i \in 1 .. MaxMsgs
    <3>1. i \in Nat /\ 1 <= i
      OBVIOUS
    <3>2. i <= id /\ id <= MaxMsgs
      BY <2>1 DEF Ordered, Numbered
    <3> QED BY <3>1, <3>2
  <2>3. \A p \in C : p = <<w, i>>
    <3> SUFFICES ASSUME NEW p \in C PROVE p = <<w, i>>
      OBVIOUS
    <3>1. id \in Answered(p[1])
      BY DEF Answered, IdsOf
    <3>2. p[1] = w
      BY <1>6, <3>1 DEF Apart
    <3>3. i \in Nat /\ p[2] \in Nat /\ p[2] \in DOMAIN outgoings[w]
      BY <3>2
    <3>4. ~(i < p[2]) /\ ~(p[2] < i)
      BY <2>1, <3>2, <3>3, SMTT(60) DEF Ordered, Increasing
    <3>5. p[2] = i
      BY <3>3, <3>4
    <3> QED BY <3>2, <3>5
  <2>4. <<w, i>> \in C
    BY <2>1, <2>2
  <2> HIDE DEF C
  <2>5. C = {<<w, i>>}
    BY <2>3, <2>4
  <2> QED BY <2>5, CountOfOne
<1>7. ASSUME \A w \in Workers : id \notin Answered(w) PROVE Cardinality(C) = 0
  <2>1. C = {}
    BY <1>7 DEF Answered, IdsOf
  <2> QED BY <2>1, CountOfOne
<1>8. Cardinality(D) = IF id \in finished THEN 1 ELSE 0
  <2>1. CASE id \in finished
    <3>1. D = {id}
      BY <2>1
    <3> QED BY <2>1, <3>1, CountOfOne
  <2>2. CASE id \notin finished
    <3>1. D = {}
      BY <2>2
    <3> QED BY <2>2, <3>1, CountOfOne
  <2> QED BY <2>1, <2>2
<1> HIDE DEF A, B, C, D
<1>9. id \in IdsOf(incomings) \cup Taken
  BY DEF Numbered
<1>10. CASE id \in IdsOf(incomings)
  <2>1. id \notin Taken
    BY <1>10 DEF Ordered, Below
  <2> QED BY <1>1, <1>2, <1>5, <1>7, <1>8, <1>10, <2>1
<1>11. CASE id \in Taken
  <2>1. Cardinality(A) = 0
    BY <1>3, <1>11 DEF Ordered, Below
  <2>2. CASE id \in finished
    <3>1. \A w \in Workers : id \notin Handled(w) \cup Answered(w)
      BY <2>2 DEF Apart
    <3> QED BY <1>1, <1>5, <1>7, <1>8, <2>1, <2>2, <3>1
  <2>3. ASSUME NEW w \in Workers, id \in Handled(w) PROVE Copies(id) = 1
    <3>1. id \notin finished /\ \A v \in Workers : id \notin Answered(v)
      BY <2>3 DEF Apart
    <3> QED BY <1>1, <1>4, <1>7, <1>8, <2>1, <2>3, <3>1
  <2>4. ASSUME NEW w \in Workers, id \in Answered(w) PROVE Copies(id) = 1
    <3>1. id \notin finished /\ \A v \in Workers : id \notin Handled(v)
      BY <2>4 DEF Apart
    <3> QED BY <1>1, <1>5, <1>6, <1>8, <2>1, <2>4, <3>1
  <2> QED BY <1>11, <2>2, <2>3, <2>4 DEF Taken
<1> QED BY <1>9, <1>10, <1>11

(***************************************************************************)
(* Every packet the server received is in exactly one place, for any       *)
(* number of workers and packets: none is lost on its way through the two  *)
(* queues, and none is handled or destroyed twice (server.cpp:189-216,     *)
(* 289-307).                                                               *)
(***************************************************************************)
THEOREM ServerOwnsPacketsOnce == Spec => []OneOwner
<1>1. PlacesInv => OneOwner
  BY OneCopy DEF OneOwner
<1> QED BY PlacesInvariance, <1>1, PTL

(***************************************************************************)
(* The chats that one worker handles leave in the order they came in, for  *)
(* any number of workers: with one worker all of them do.                  *)
(***************************************************************************)
THEOREM ServerKeepsChatOrder == Spec => []ChatsInOrder
<1>1. PlacesInv => ChatsInOrder
  BY DEF PlacesInv, ChatsOrdered
<1> QED BY PlacesInvariance, <1>1, PTL
--------------------------------------------------------------------------------
(***************************************************************************)
(* The server implements ChatRelay.  A chat is pending as a packet in the  *)
(* incoming queue, in the hands of a worker, or as an answer to nobody; it *)
(* moves along and leaves with the broadcast.                              *)
(***************************************************************************)
IdsIn(q, T) == {q[i].id : i \in {j \in DOMAIN q : q[j] \in T}}

ChatPackets == {m \in Incoming : m.kind = "Chat"}
Broadcasts == {r \in Outgoing : r.peer = NoPeer}

WaitingChats == IdsIn(incomings, ChatPackets)
HeldChats(w) == IF msg[w].kind = "Chat" THEN Handled(w) ELSE {}
AnsweredChats(w) == IdsIn(outgoings[w], Broadcasts)

LogOf(c) == [i \in DOMAIN c |-> c[i].id]

LEMMA IdsInTail ==
  ASSUME NEW S, NEW T, NEW q \in Seq(S), q # <<>>
  PROVE  IdsIn(q, T) = IdsIn(Tail(q), T) \cup (IF Head(q) \in T THEN {Head(q).id} ELSE {})
<1> DEFINE r == Tail(q)
<1>1. /\ Head(q) = q[1] /\ 1 \in DOMAIN q
      /\ DOMAIN q = 1 .. Len(q) /\ Len(q) \in Nat
      /\ DOMAIN r = 1 .. Len(q) - 1
      /\ \A i \in DOMAIN r : r[i] = q[i + 1] /\ i + 1 \in DOMAIN q
  BY HeadTailType
<1> HIDE DEF r
<1>2. \A j \in DOMAIN q \ {1} : j - 1 \in DOMAIN r /\ q[j] = r[j - 1]
  BY <1>1
<1>3. ASSUME NEW j \in DOMAIN q, q[j] \in T
      PROVE  q[j].id \in IdsIn(r, T) \/ (Head(q) \in T /\ q[j].id = Head(q).id)
  BY <1>1, <1>2, <1>3 DEF IdsIn
<1>4. ASSUME NEW i \in DOMAIN r, r[i] \in T PROVE r[i].id \in IdsIn(q, T)
  BY <1>1, <1>4 DEF IdsIn
<1>5. Head(q) \in T => Head(q).id \in IdsIn(q, T)
  BY <1>1 DEF IdsIn
<1>6. IdsIn(q, T) \subseteq IdsIn(r, T) \cup (IF Head(q) \in T THEN {Head(q).id} ELSE {})
  BY <1>3 DEF IdsIn
<1>7. IdsIn(r, T) \subseteq IdsIn(q, T)
  BY <1>4 DEF IdsIn
<1> QED BY <1>5, <1>6, <1>7 DEF r

LEMMA IdsInTailOther ==
  ASSUME NEW S, NEW T, NEW q \in Seq(S), q # <<>>, Head(q) \notin T
  PROVE  IdsIn(q, T) = IdsIn(Tail(q), T)
<1>1. IdsIn(q, T) = IdsIn(Tail(q), T) \cup (IF Head(q) \in T THEN {Head(q).id} ELSE {})
  BY IdsInTail
<1>2. (IF Head(q) \in T THEN {Head(q).id} ELSE {}) = {}
  OBVIOUS
<1> QED BY ONLY <1>1, <1>2

LEMMA IdsInAppend ==
  ASSUME NEW S, NEW T, NEW q \in Seq(S), NEW e \in S
  PROVE  IdsIn(Append(q, e), T) = IdsIn(q, T) \cup (IF e \in T THEN {e.id} ELSE {})
<1> DEFINE r == Append(q, e)
<1>1. /\ DOMAIN q = 1 .. Len(q) /\ Len(q) \in Nat
      /\ DOMAIN r = 1 .. Len(q) + 1
      /\ \A i \in DOMAIN q : i \in DOMAIN r /\ r[i] = q[i]
      /\ Len(q) + 1 \in DOMAIN r /\ r[Len(q) + 1] = e
  OBVIOUS
<1> HIDE DEF r
<1>2. ASSUME NEW j \in DOMAIN r, r[j] \in T
      PROVE  r[j].id \in IdsIn(q, T) \/ (e \in T /\ r[j].id = e.id)
  BY <1>1, <1>2 DEF IdsIn
<1>3. IdsIn(r, T) \subseteq IdsIn(q, T) \cup (IF e \in T THEN {e.id} ELSE {})
  BY <1>2 DEF IdsIn
<1>4. IdsIn(q, T) \subseteq IdsIn(r, T) /\ (e \in T => e.id \in IdsIn(r, T))
  BY <1>1 DEF IdsIn
<1> QED BY <1>3, <1>4 DEF r

LEMMA IdsInIds == ASSUME NEW q, NEW T PROVE IdsIn(q, T) \subseteq IdsOf(q)
  BY DEF IdsIn, IdsOf

LEMMA PendingPlaces ==
  ASSUME TypeOK
  PROVE  PendingChats = WaitingChats \cup UNION {HeldChats(w) \cup AnsweredChats(w) : w \in Workers}
<1> DEFINE A == {incomings[i].id : i \in {j \in DOMAIN incomings : incomings[j].kind = "Chat"}}
           B == UNION {Handled(w) : w \in {v \in Workers : msg[v].kind = "Chat"}}
           C(w) == {outgoings[w][i].id : i \in {j \in DOMAIN outgoings[w] :
                                                   outgoings[w][j].peer = NoPeer}}
<1>1. PendingChats = A \cup B \cup UNION {C(w) : w \in Workers}
  BY DEF PendingChats
<1>2. A = WaitingChats
  BY IncomingTypes DEF WaitingChats, IdsIn, ChatPackets
<1>3. B = UNION {HeldChats(w) : w \in Workers}
  BY DEF HeldChats
<1>4. \A w \in Workers : C(w) = AnsweredChats(w)
  BY OutgoingTypes DEF AnsweredChats, IdsIn, Broadcasts
<1> HIDE DEF A, B, C
<1>5. UNION {C(w) : w \in Workers} = UNION {AnsweredChats(w) : w \in Workers}
  BY <1>4
<1> QED BY <1>1, <1>2, <1>3, <1>5

(* The chats of the moment, as PendingPlaces groups them. *)
Pending == WaitingChats \cup UNION {HeldChats(w) \cup AnsweredChats(w) : w \in Workers}

(* Pending chats are packets the server has, and those in the log are done. *)
LEMMA ChatsAreNumbered ==
  ASSUME PlacesInv
  PROVE  /\ Pending \subseteq 1 .. received
         /\ \A i \in DOMAIN chats : chats[i].id \in finished
         /\ finished \subseteq 1 .. received
<1>1. WaitingChats \subseteq IdsOf(incomings)
  BY IdsInIds DEF WaitingChats
<1>2. \A w \in Workers : HeldChats(w) \cup AnsweredChats(w) \subseteq Taken
  BY IdsInIds DEF HeldChats, AnsweredChats, Taken, Answered
<1>3. Pending \subseteq IdsOf(incomings) \cup Taken
  BY <1>1, <1>2 DEF Pending
<1>4. ASSUME NEW i \in DOMAIN chats PROVE chats[i].id \in finished
  <2>1. chats[i] \in Broadcast
    <3>1. chats \in Seq(Broadcast)
      BY DEF PlacesInv, TypeInv, TypeOK
    <3> QED BY <3>1
  <2>2. chats[i].id \in ChatsBy(chats[i].by)
    BY DEF ChatsBy
  <2> QED BY <2>1, <2>2 DEF PlacesInv, ChatsOrdered, Broadcast
<1>5. finished \subseteq Taken
  BY DEF Taken
<1> QED BY <1>3, <1>4, <1>5 DEF PlacesInv, Numbered

(* A packet that is taken, finished or answered stays what it was. *)
LEMMA PendingMoves ==
  ASSUME PlacesInv, NEW w \in Workers,
         \/ WorkerDequeue(w) \/ WorkerReject(w) \/ WorkerIgnore(w) \/ WorkerReply(w)
         \/ SendReply(w)
  PROVE  Pending' = Pending
<1> USE DEF PlacesInv, TypeInv, network, queues, worker, history
<1> DEFINE Others == \A v \in Workers \ {w} : HeldChats(v)' = HeldChats(v)
                                             /\ AnsweredChats(v)' = AnsweredChats(v)
<1>0. ASSUME Others,
             WaitingChats' \cup HeldChats(w)' \cup AnsweredChats(w)'
               = WaitingChats \cup HeldChats(w) \cup AnsweredChats(w)
      PROVE  Pending' = Pending
  <2>1. UNION {HeldChats(v)' \cup AnsweredChats(v)' : v \in Workers \ {w}}
          = UNION {HeldChats(v) \cup AnsweredChats(v) : v \in Workers \ {w}}
    BY <1>0
  <2>2. Pending = WaitingChats \cup HeldChats(w) \cup AnsweredChats(w)
          \cup UNION {HeldChats(v) \cup AnsweredChats(v) : v \in Workers \ {w}}
    BY DEF Pending
  <2>3. Pending' = WaitingChats' \cup HeldChats(w)' \cup AnsweredChats(w)'
          \cup UNION {HeldChats(v)' \cup AnsweredChats(v)' : v \in Workers \ {w}}
    BY DEF Pending
  <2> QED BY <1>0, <2>1, <2>2, <2>3
<1>1. CASE WorkerDequeue(w)
  <2>1. /\ incomings \in Seq(Incoming) /\ incomings # <<>>
        /\ incomings' = Tail(incomings) /\ outgoings' = outgoings
        /\ wpc[w] = "drain" /\ wpc' = [wpc EXCEPT ![w] = "handle"]
        /\ msg' = [msg EXCEPT ![w] = Head(incomings)]
        /\ Head(incomings) \in Incoming
    BY <1>1, HeadTailType DEF WorkerDequeue, TypeOK
  <2>2. WaitingChats = WaitingChats' \cup
          (IF Head(incomings).kind = "Chat" THEN {Head(incomings).id} ELSE {})
    BY <2>1, IdsInTail DEF WaitingChats, ChatPackets
  <2>3. /\ HeldChats(w) = {}
        /\ HeldChats(w)' = IF Head(incomings).kind = "Chat" THEN {Head(incomings).id} ELSE {}
        /\ AnsweredChats(w)' = AnsweredChats(w)
    BY <2>1 DEF HeldChats, Handled, AnsweredChats, TypeOK
  <2>4. Others
    BY <2>1 DEF HeldChats, Handled, AnsweredChats, TypeOK
  <2> QED BY <1>0, <2>2, <2>3, <2>4
<1>2. CASE WorkerReject(w) \/ WorkerIgnore(w)
  <2>1. /\ msg[w].kind # "Chat" /\ wpc'[w] \notin {"handle", "reply"}
        /\ \A v \in Workers \ {w} : wpc'[v] = wpc[v] /\ msg'[v] = msg[v]
        /\ incomings' = incomings /\ outgoings' = outgoings
    BY <1>2 DEF WorkerReject, WorkerIgnore, Dispatched, Verified, HasHandler, OnlyLogs, TypeOK
  <2>2. HeldChats(w) = {} /\ HeldChats(w)' = {} /\ Others
        /\ WaitingChats' = WaitingChats /\ AnsweredChats(w)' = AnsweredChats(w)
    BY <2>1 DEF HeldChats, Handled, WaitingChats, AnsweredChats
  <2> QED BY <1>0, <2>2
<1>3. CASE WorkerReply(w)
  <2>1. /\ out[w] \in Outgoing /\ outgoings[w] \in Seq(Outgoing)
        /\ outgoings'[w] = Append(outgoings[w], out[w])
        /\ \A v \in Workers \ {w} : /\ outgoings'[v] = outgoings[v]
                                     /\ wpc'[v] = wpc[v] /\ msg'[v] = msg[v]
        /\ incomings' = incomings
        /\ wpc[w] = "reply" /\ wpc'[w] = "drain"
    BY <1>3, OutgoingTypes DEF WorkerReply, TypeOK
  <2>2. AnsweredChats(w)' = AnsweredChats(w) \cup
          (IF out[w].peer = NoPeer THEN {out[w].id} ELSE {})
    <3>1. ASSUME NEW q \in Seq(Outgoing), NEW e \in Outgoing
          PROVE  IdsIn(Append(q, e), Broadcasts)
                   = IdsIn(q, Broadcasts) \cup (IF e \in Broadcasts THEN {e.id} ELSE {})
      BY ONLY <3>1, IdsInAppend
    <3> QED BY <2>1, <3>1 DEF AnsweredChats, Broadcasts
  <2>3. /\ HeldChats(w) = IF out[w].peer = NoPeer THEN {out[w].id} ELSE {}
        /\ HeldChats(w)' = {}
    BY <2>1 DEF HeldChats, Handled, AnswersOwn
  <2>4. Others /\ WaitingChats' = WaitingChats
    BY <2>1 DEF HeldChats, Handled, AnsweredChats, WaitingChats
  <2> QED BY <1>0, <2>2, <2>3, <2>4
<1>4. CASE SendReply(w)
  <2>1. /\ outgoings[w] \in Seq(Outgoing) /\ outgoings[w] # <<>>
        /\ outgoings'[w] = Tail(outgoings[w]) /\ Head(outgoings[w]).peer # NoPeer
        /\ \A v \in Workers \ {w} : outgoings'[v] = outgoings[v]
        /\ UNCHANGED <<incomings, wpc, msg>>
    BY <1>4 DEF SendReply, TypeOK
  <2>2. AnsweredChats(w)' = AnsweredChats(w)
    <3>1. ASSUME NEW q \in Seq(Outgoing), q # <<>>, Head(q) \notin Broadcasts
          PROVE  IdsIn(q, Broadcasts) = IdsIn(Tail(q), Broadcasts)
      BY ONLY <3>1, IdsInTailOther, ZenonT(60)
    <3> QED BY <2>1, <3>1 DEF AnsweredChats, Broadcasts
  <2>3. Others /\ WaitingChats' = WaitingChats /\ HeldChats(w)' = HeldChats(w)
    BY <2>1 DEF HeldChats, Handled, AnsweredChats, WaitingChats
  <2> QED BY <1>0, <2>2, <2>3
<1> QED BY <1>1, <1>2, <1>3, <1>4

(* A chat that arrives becomes pending, and no other packet does. *)
LEMMA PendingArrives ==
  ASSUME PlacesInv, NEW s \in Slots, NEW kind \in Kinds, ServiceReceive(s, kind)
  PROVE  Pending' = Pending \cup (IF kind = "Chat" THEN {received + 1} ELSE {})
<1> DEFINE e == [id |-> received + 1, kind |-> kind, peer |-> s,
                 asker |-> session[s], generation |-> data[s]]
<1>1. /\ e \in Incoming /\ e.id = received + 1 /\ e.kind = kind
      /\ incomings \in Seq(Incoming) /\ incomings' = Append(incomings, e)
  BY KindsAssumption DEF ServiceReceive, Incoming, PlacesInv, TypeInv, TypeOK
<1> HIDE DEF e
<1>2. ASSUME NEW q \in Seq(Incoming), NEW m \in Incoming
      PROVE  IdsIn(Append(q, m), ChatPackets)
               = IdsIn(q, ChatPackets) \cup (IF m \in ChatPackets THEN {m.id} ELSE {})
  BY ONLY <1>2, IdsInAppend
<1>3. WaitingChats' = WaitingChats \cup (IF kind = "Chat" THEN {received + 1} ELSE {})
  BY <1>1, <1>2 DEF WaitingChats, ChatPackets
<1>4. \A w \in Workers : HeldChats(w)' = HeldChats(w) /\ AnsweredChats(w)' = AnsweredChats(w)
  BY DEF ServiceReceive, worker, HeldChats, Handled, AnsweredChats
<1> QED BY <1>3, <1>4 DEF Pending

(* The chat that is broadcast was pending in one place only. *)
LEMMA PendingSent ==
  ASSUME PlacesInv, NEW w \in Workers, SendBroadcast(w)
  PROVE  /\ Head(outgoings[w]).id \in Pending
         /\ Pending' = Pending \ {Head(outgoings[w]).id}
<1> DEFINE x == Head(outgoings[w]).id
<1>1. /\ outgoings[w] \in Seq(Outgoing) /\ outgoings[w] # <<>>
      /\ outgoings'[w] = Tail(outgoings[w]) /\ Head(outgoings[w]) \in Broadcasts
      /\ \A v \in Workers \ {w} : outgoings'[v] = outgoings[v]
      /\ UNCHANGED <<incomings, wpc, msg>>
  BY HeadTailType DEF SendBroadcast, worker, Broadcasts, PlacesInv, TypeInv, TypeOK
<1>2. ASSUME NEW q \in Seq(Outgoing), q # <<>>, Head(q) \in Broadcasts
      PROVE  IdsIn(q, Broadcasts) = IdsIn(Tail(q), Broadcasts) \cup {Head(q).id}
  BY ONLY <1>2, IdsInTail
<1>3. AnsweredChats(w) = AnsweredChats(w)' \cup {x}
  BY <1>1, <1>2 DEF AnsweredChats
<1>4. /\ x \in Answered(w)
      /\ Answered(w)' = Answered(w) \ {x}
  <2>1. /\ Increasing(outgoings[w])
        /\ \A e \in Outgoing : e.id \in Nat
    BY DEF PlacesInv, Ordered, Outgoing
  <2> QED BY <1>1, <2>1, IdsOfTail DEF Answered
<1> HIDE DEF x
<1>5. x \notin AnsweredChats(w)'
  BY <1>4, IdsInIds DEF AnsweredChats, Answered
<1>6. x \notin WaitingChats
  <2>1. x \in Taken /\ x \in Nat
    BY <1>4, PacketTypes DEF Taken, PlacesInv
  <2>2. x \notin IdsOf(incomings)
    BY <2>1 DEF PlacesInv, Ordered, Below
  <2> QED BY <2>2, IdsInIds DEF WaitingChats
<1>7. \A v \in Workers : x \notin HeldChats(v)
  BY <1>4 DEF HeldChats, PlacesInv, Apart
<1>8. \A v \in Workers \ {w} : x \notin AnsweredChats(v)
  BY <1>4, IdsInIds DEF AnsweredChats, Answered, PlacesInv, Apart
<1>9. /\ WaitingChats' = WaitingChats
      /\ \A v \in Workers : HeldChats(v)' = HeldChats(v)
      /\ \A v \in Workers \ {w} : AnsweredChats(v)' = AnsweredChats(v)
  BY <1>1 DEF WaitingChats, HeldChats, Handled, AnsweredChats
<1>10. x \in Pending
  BY <1>3 DEF Pending
<1>11. ASSUME NEW y PROVE y \in Pending' <=> y \in Pending /\ y # x
  <2>1. y \in Pending <=> \/ y \in WaitingChats
                         \/ \E v \in Workers : y \in HeldChats(v) \cup AnsweredChats(v)
    BY DEF Pending
  <2>2. y \in Pending' <=> \/ y \in WaitingChats'
                          \/ \E v \in Workers : y \in HeldChats(v)' \cup AnsweredChats(v)'
    BY DEF Pending
  <2> QED BY <1>3, <1>5, <1>6, <1>7, <1>8, <1>9, <2>1, <2>2
<1> QED BY <1>10, <1>11 DEF x

(* The other steps leave every packet where it is. *)
LEMMA PendingRests ==
  ASSUME PlacesInv,
         \/ UNCHANGED <<incomings, outgoings, wpc, msg>>
         \/ \E w \in Workers : \/ WorkerCheck(w) \/ WorkerFindsNone(w)
                               \/ WorkerChat(w) \/ WorkerClockSync(w)
  PROVE  Pending' = Pending
<1> USE DEF network, queues, worker, history, PlacesInv, TypeInv, TypeOK
<1>1. /\ incomings' = incomings /\ outgoings' = outgoings
      /\ \A w \in Workers : HeldChats(w)' = HeldChats(w)
  <2>1. CASE UNCHANGED <<incomings, outgoings, wpc, msg>>
    BY <2>1 DEF HeldChats, Handled
  <2>2. ASSUME NEW w \in Workers, \/ WorkerCheck(w) \/ WorkerFindsNone(w)
                                  \/ WorkerChat(w) \/ WorkerClockSync(w)
        PROVE  <1>1
    BY <2>2, ZenonT(60) DEF WorkerCheck, WorkerFindsNone, WorkerChat, WorkerClockSync, HeldChats, Handled
  <2> QED BY <2>1, <2>2
<1> QED BY <1>1 DEF Pending, WaitingChats, AnsweredChats

(* A step accepts a chat, publishes one, or does neither. *)
LEMMA RelayStep ==
  ASSUME PlacesInv, [Next]_vars
  PROVE  [Relay!Next]_<<PendingChats, LogOf(chats)>>
<1> USE DEF network, queues, worker, history
<1>1. PendingChats = Pending
  BY PendingPlaces DEF Pending, PlacesInv, TypeInv
<1>2. PendingChats' = Pending'
  <2>1. TypeOK'
    BY TypeInvNext DEF PlacesInv, TypeInv
  <2>2. (TypeOK => PendingChats = Pending)'
    BY PendingPlaces, PTL DEF Pending
  <2> QED BY <2>1, <2>2
<1>3. /\ received \in Nat /\ MaxMsgs \in Nat /\ received <= MaxMsgs
      /\ chats \in Seq(Broadcast) /\ chats \in Seq(Broadcast)
      /\ outgoings \in [Workers -> Seq(Outgoing)]
  BY BoundsAssumption DEF PlacesInv, TypeInv, TypeOK, Numbered
<1>4. ASSUME Pending' = Pending, chats' = chats
      PROVE  UNCHANGED <<PendingChats, LogOf(chats)>>
  BY <1>1, <1>2, <1>4
<1>5. ASSUME NEW s \in Slots, NEW kind \in Kinds, ServiceReceive(s, kind)
      PROVE  [Relay!Next]_<<PendingChats, LogOf(chats)>>
  <2>1. /\ Pending' = Pending \cup (IF kind = "Chat" THEN {received + 1} ELSE {})
        /\ chats' = chats /\ received < MaxMsgs
    BY <1>5, PendingArrives DEF ServiceReceive
  <2>2. CASE kind # "Chat"
    BY <1>4, <2>1, <2>2
  <2>3. ASSUME kind = "Chat" PROVE Relay!Accept(received + 1)
    <3>1. received + 1 \notin Pending
      BY <1>3, ChatsAreNumbered
    <3>2. received + 1 \notin {LogOf(chats)[i] : i \in DOMAIN LogOf(chats)}
      BY <1>3, ChatsAreNumbered DEF LogOf
    <3> QED BY <1>1, <1>2, <2>1, <2>3, <3>1, <3>2
            DEF Relay!Accept, Relay!Published, LogOf
  <2>4. received + 1 \in 1 .. MaxMsgs
    BY <1>3, <2>1
  <2> QED BY <2>2, <2>3, <2>4 DEF Relay!Next
<1>6. ASSUME NEW w \in Workers, SendBroadcast(w)
      PROVE  Relay!Next
  <2> DEFINE x == Head(outgoings[w]).id
  <2>1. x \in Pending /\ Pending' = Pending \ {x}
    BY <1>6, PendingSent
  <2>2. x \in 1 .. MaxMsgs
    BY <1>3, <2>1, ChatsAreNumbered
  <2>3. chats' = Append(chats, [id |-> x, by |-> w])
    BY <1>6 DEF SendBroadcast
  <2> HIDE DEF x
  <2>4. LogOf(chats)' = Append(LogOf(chats), x)
    <3>1. ASSUME NEW c \in Seq(Broadcast), NEW y \in Nat
          PROVE  LogOf(Append(c, [id |-> y, by |-> w])) = Append(LogOf(c), y)
      BY DEF LogOf, Broadcast
    <3>2. LogOf(Append(chats, [id |-> x, by |-> w])) = Append(LogOf(chats), x)
      BY <1>3, <2>2, <3>1
    <3>3. LogOf(chats)' = LogOf(chats')
      BY DEF LogOf
    <3> QED BY <2>3, <3>2, <3>3
  <2>5. PICK m \in 1 .. MaxMsgs : m = x
    BY <2>2
  <2>6. Relay!Publish(m)
    BY <1>1, <1>2, <2>1, <2>4, <2>5 DEF Relay!Publish, LogOf
  <2> QED BY <2>6 DEF Relay!Next
<1>7. ASSUME NEW w \in Workers, WorkerStep(w) \/ SendReply(w)
      PROVE  UNCHANGED <<PendingChats, LogOf(chats)>>
  <2>1. chats' = chats
    BY <1>7 DEF WorkerStep, WorkerCheck, WorkerDequeue, WorkerFindsNone, WorkerReject,
                WorkerIgnore, WorkerChat, WorkerClockSync, WorkerReply, SendReply
  <2>2. Pending' = Pending
    BY <1>7, PendingMoves, PendingRests DEF WorkerStep
  <2> QED BY <1>4, <2>1, <2>2
<1>8. ASSUME UNCHANGED <<incomings, outgoings, wpc, msg, chats>>
      PROVE  UNCHANGED <<PendingChats, LogOf(chats)>>
  BY <1>4, <1>8, PendingRests
<1> QED
  BY <1>5, <1>6, <1>7, <1>8
     DEF Next, MainStep, ServiceEvent, vars, ClientDrops, Signal, MainCheck,
         ServiceConnect, ServiceDisconnect, ServiceTimeout, ServiceError,
         SeeEmpty, MainDrained, MainJoin

(***************************************************************************)
(* The server implements ChatRelay, for any number of workers, slots and   *)
(* packets: each chat message a client sent is broadcast at most once and  *)
(* nothing else is broadcast (server.cpp:44-51, 299).                      *)
(***************************************************************************)
THEOREM ServerRelaysChats == Spec => RelaysChats
<1>1. Init => Relay!Init
  BY DEF Init, Relay!Init, PendingChats, Handled
<1>2. PlacesInv /\ [Next]_vars => [Relay!Next]_<<PendingChats, LogOf(chats)>>
  BY RelayStep
<1> QED BY PlacesInvariance, <1>1, <1>2, PTL
        DEF Spec, RelaysChats, Relay!Spec, Relay!vars, LogOf
================================================================================
