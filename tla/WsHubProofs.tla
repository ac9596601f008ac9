---------------------------- MODULE WsHubProofs ----------------------------
(***************************************************************************)
(* Proofs about WsHub, for every value of its constants.                   *)
(***************************************************************************)
EXTENDS WsHub, FiniteSetTheorems, TLAPS

LEMMA AppendType ==
  ASSUME NEW S, NEW s \in Seq(S), NEW e \in S
  PROVE  Append(s, e) \in Seq(S)
  OBVIOUS

LEMMA TailType ==
  ASSUME NEW S, NEW s \in Seq(S), s # <<>>
  PROVE  Tail(s) \in Seq(S) /\ Head(s) \in S
  OBVIOUS

\* What RemoveClients leaves behind is of the right type.
LEMMA RemoveType ==
  ASSUME TypeOK, NEW S, RemoveClients(S)
  PROVE  /\ clients' \subseteq Client
         /\ subs' \in [Channel -> SUBSET Client]
         /\ closedSend' \subseteq Client
         /\ conn' \in [Client -> ConnStates]
         /\ crashed' \in Panics
BY DEF TypeOK, RemoveClients, Registered, ConnStates, Panics

LEMMA TypeHandler ==
  ASSUME TypeOK, NEW c \in Client, HandlerStep(c)
  PROVE  TypeOK'
<1>1. IpOf[c] \in IP
  BY IpAssumption
<1>2. ReleaseIP(c) => ipConns' \in [IP -> Nat]
  BY <1>1 DEF ReleaseIP, AfterRelease, TypeOK
<1>3. CASE Reject(c)
  BY <1>3 DEF HandlerStep, Reject, TypeOK, HandlerStates, registry, queues, reader, wire,
              publisher
<1>4. CASE Reserve(c)
  <2>1. ipConns' \in [IP -> Nat]
    BY <1>1, <1>4 DEF Reserve, TypeOK
  <2>2. QED
    BY <2>1, <1>4 DEF HandlerStep, Reserve, TypeOK, HandlerStates, registry, queues,
                reader, wire, publisher
<1>5. CASE Upgrade(c)
  BY <1>5 DEF HandlerStep, Upgrade, TypeOK, HandlerStates, ConnStates, registry, queues,
              reader, publisher
<1>6. CASE UpgradeFails(c)
  BY <1>2, <1>6 DEF HandlerStep, UpgradeFails, TypeOK, HandlerStates, registry, queues,
              reader, wire, publisher
<1>7. CASE Register(c)
  BY <1>7, AppendType DEF HandlerStep, Register, TypeOK, HandlerStates, ReaderStates,
              WriterStates, registry, publisher
<1>8. CASE RegisterAfterStop(c)
  BY <1>2, <1>8 DEF HandlerStep, RegisterAfterStop, TypeOK, HandlerStates, ConnStates,
              registry, queues, reader, publisher
<1>9. QED
  BY <1>3, <1>4, <1>5, <1>6, <1>7, <1>8 DEF HandlerStep

LEMMA NoVersionType == NoVersion \in Fetched
<1>1. 0 \in 0..MaxPublish
  BY BoundAssumption
<1>2. QED
  BY <1>1 DEF NoVersion, Fetched

LEMMA SnapshotType ==
  ASSUME TypeOK, NEW c \in Client
  PROVE  /\ SnapshotOf(c) \in Message /\ SnapshotOf(c).kind = "snapshot"
         /\ SnapshotOf(c).ch = rch[c] /\ SnapshotOf(c).newest = rver[c].newest
<1>1. rch[c] \in Channel /\ rver[c].shown \in 0..MaxPublish /\ rver[c].newest \in 0..MaxPublish
  BY DEF TypeOK, Fetched
<1>2. QED
  BY <1>1 DEF SnapshotOf, Message, Snapshot

LEMMA TypeReader ==
  ASSUME TypeOK, NEW c \in Client, ReaderStep(c)
  PROVE  TypeOK'
<1>b. SnapshotOf(c) \in Message
  BY SnapshotType
<1> USE DEF TypeOK
<1>a. AnyChannel \in Channel /\ NoVersion \in Fetched
  BY ChannelAssumption, NoVersionType DEF AnyChannel
<1>0. BackToRead(c) => /\ rpc' \in [Client -> ReaderStates]
                       /\ rch' \in [Client -> Channel]
                       /\ rver' \in [Client -> Fetched]
  BY <1>a DEF BackToRead, ReaderStates
<1>p. crashed' \in Panics
  BY DEF ReaderStep, SendPanics, Panics
<1>1. rch[c] \in Channel
  OBVIOUS
<1>2. CASE Subscribe(c)
  <2>1. subscribeCh' \in Seq(SubMsg)
    BY <1>1, <1>2, AppendType DEF Subscribe, SubMsg
  <2>2. QED
    BY <1>p, <1>2, <2>1 DEF Subscribe, ReaderStates, registry, wire, publisher
<1>3. CASE Unsubscribe(c)
  <2>1. unsubscribeCh' \in Seq(SubMsg)
    BY <1>1, <1>3, AppendType DEF Unsubscribe, SubMsg
  <2>2. QED
    BY <1>p, <1>3, <2>1 DEF Unsubscribe, ReaderStates, registry, wire, publisher
<1>4. CASE GiveUp(c)
  BY <1>p, <1>0, <1>4 DEF GiveUp, registry, queues, wire, publisher
<1>5. CASE FetchSnapshot(c)
  <2>1. PICK v \in Shown(rch[c]) :
          rver' = [rver EXCEPT ![c] = [shown |-> v, newest |-> ver[rch[c]]]]
    BY <1>5 DEF FetchSnapshot
  <2>2. [shown |-> v, newest |-> ver[rch[c]]] \in Fetched
    <3>1. ver[rch[c]] \in 0..MaxPublish /\ v \in 0..MaxPublish
      BY <1>1, BoundAssumption DEF Shown
    <3>2. QED
      BY <3>1 DEF Fetched
  <2>3. rver' \in [Client -> Fetched]
    BY <2>1, <2>2
  <2>4. QED
    BY <1>p, <1>5, <2>3 DEF FetchSnapshot, ReaderStates, registry, queues, wire, publisher
<1>6. CASE NoSnapshot(c)
  BY <1>p, <1>0, <1>6 DEF NoSnapshot, registry, queues, wire, publisher
<1>7. CASE DeliverSnapshot(c)
  <2>2. send' \in [Client -> Seq(Message)]
    BY <1>p, <1>7, <1>b, AppendType DEF DeliverSnapshot
  <2>3. QED
    BY <1>p, <1>0, <1>7, <2>2 DEF DeliverSnapshot, registry, queues, publisher
<1>8. CASE SlowSnapshot(c)
  BY <1>p, <1>a, <1>8 DEF SlowSnapshot, ReaderStates, OnceStates, registry, queues,
              wire, publisher
<1>9. CASE ReadError(c)
  BY <1>p, <1>9 DEF ReadError, ReaderStates, OnceStates, registry, queues, wire,
              publisher
<1>10. CASE Unregister(c)
  <2>0. Append(unregisterCh, c) \in Seq(Client)
    BY AppendType
  <2>1. unregisterCh' \in Seq(Client)
    BY <1>10, <2>0 DEF Unregister
  <2>2. QED
    BY <1>p, <1>10, <2>1 DEF Unregister, ReaderStates, registry, wire, publisher
<1>11. CASE Release(c)
  <2>0. AfterRelease(ipConns[IpOf[c]]) \in Nat
    BY IpAssumption DEF AfterRelease
  <2>1. ipConns' \in [IP -> Nat]
    BY <1>11, <2>0 DEF Release, ReleaseIP
  <2>2. QED
    BY <1>p, <1>11, <2>1 DEF Release, ReaderStates, OnceStates, ConnStates, registry,
                queues, publisher
<1>12. CASE SendPanics(c)
  BY <1>p, <1>12 DEF SendPanics, registry, queues, reader, wire, publisher
<1>13. QED
  BY <1>2, <1>3, <1>4, <1>5, <1>6, <1>7, <1>8, <1>9, <1>10, <1>11, <1>12 DEF ReaderStep

LEMMA TypeFrame ==
  ASSUME TypeOK, NEW c \in Client, NEW op \in {"sub", "unsub"}, NEW ch \in Channel,
         ReadFrame(c, op, ch)
  PROVE  TypeOK'
<1>1. [op |-> op, ch |-> ch] \in Frame
  BY DEF Frame
<1>2. asked' \in [Client -> Seq(Frame)]
  BY <1>1, AppendType DEF TypeOK, ReadFrame
<1>3. QED
  BY <1>2 DEF TypeOK, ReadFrame, ReaderStates, registry, queues, wire, publisher

LEMMA TypeWriter ==
  ASSUME TypeOK, NEW c \in Client, WriterStep(c)
  PROVE  TypeOK'
<1> USE DEF TypeOK, WriterStep, registry, queues, reader, publisher
<1>1. CASE WriteMessage(c)
  <2>1. /\ send' \in [Client -> Seq(Message)]
        /\ got' \in [Client -> Seq(Message)]
    BY <1>1, AppendType, TailType DEF WriteMessage
  <2>2. QED
    BY <1>1, <2>1 DEF WriteMessage
<1>2. CASE WriteFails(c)
  <2>1. send[c] # <<>> => Tail(send[c]) \in Seq(Message)
    BY TailType
  <2>2. send' \in [Client -> Seq(Message)]
    BY <1>2, <2>1 DEF WriteFails
  <2>3. QED
    BY <1>2, <2>2 DEF WriteFails, WriterStates, ConnStates
<1>3. CASE SendClosed(c)
  BY <1>3 DEF SendClosed, WriterStates, ConnStates
<1>4. QED
  BY <1>1, <1>2, <1>3

LEMMA TypeHub ==
  ASSUME TypeOK, HubStep
  PROVE  TypeOK'
<1> USE DEF TypeOK
<1>0. UNCHANGED <<ipConns, hpc, ver, pub>>
  BY DEF HubStep, HubCase, publisher
<1>1. CASE HubRegister
  BY <1>0, <1>1, TailType DEF HubRegister, reader, wire
<1>2. CASE HubUnregister
  BY <1>0, <1>2, TailType, RemoveType DEF HubUnregister, reader
<1>3. CASE HubSubscribe
  <2> DEFINE s == Head(subscribeCh)
  <2>0. s \in SubMsg /\ subscribeCh' \in Seq(SubMsg)
    BY <1>3, TailType DEF HubSubscribe
  <2>1. s.client \in Client /\ s.ch \in Channel
    BY <2>0 DEF SubMsg
  <2>2. QED
    BY <1>0, <1>3, <2>0, <2>1 DEF HubSubscribe, AddSub, ReaderStates, wire
<1>4. CASE HubUnsubscribe
  <2> DEFINE s == Head(unsubscribeCh)
  <2>0. s \in SubMsg /\ unsubscribeCh' \in Seq(SubMsg)
    BY <1>4, TailType DEF HubUnsubscribe
  <2>1. s.client \in Client /\ s.ch \in Channel
    BY <2>0 DEF SubMsg
  <2>2. AnyChannel \in Channel
    BY ChannelAssumption DEF AnyChannel
  <2>3. QED
    BY <1>0, <1>4, <2>0, <2>1, <2>2 DEF HubUnsubscribe, DropSub, ReaderStates, wire
<1>5. CASE HubBroadcast
  <2> DEFINE m == Head(broadcastCh)
  <2>0. m \in Delta /\ broadcastCh' \in Seq(Delta)
    BY <1>5, TailType DEF HubBroadcast
  <2>1. m \in Message /\ m.ch \in Channel
    BY <2>0 DEF Message, Delta
  <2>2. \A c \in Client : Append(send[c], m) \in Seq(Message)
    BY <2>1, AppendType
  <2>3. send' \in [Client -> Seq(Message)] /\ refused' \subseteq Client
    BY <1>0, <1>5, <2>1, <2>2 DEF HubBroadcast
  <2>4. QED
    BY <1>0, <1>5, <2>0, <2>3, RemoveType DEF HubBroadcast, reader
<1>6. CASE HubBroadcastPanics
  BY <1>0, <1>6 DEF HubBroadcastPanics, Panics, registry, queues, reader, wire
<1>7. CASE HubStop
  BY <1>0, <1>7, RemoveType DEF HubStop, HubStates, queues, reader
<1>8. QED
  BY <1>1, <1>2, <1>3, <1>4, <1>5, <1>6, <1>7 DEF HubStep, HubCase

LEMMA TypeRest ==
  ASSUME TypeOK,
         \/ \E c \in Client : PeerLost(c)
         \/ Cancel
         \/ \E ch \in Channel : WriteState(ch)
         \/ Publish
         \/ UNCHANGED vars
  PROVE  TypeOK'
<1> USE DEF TypeOK
<1>1. ASSUME NEW c \in Client, PeerLost(c) PROVE TypeOK'
  BY <1>1 DEF PeerLost, ConnStates, registry, queues, reader, publisher
<1>2. CASE Cancel
  BY <1>2 DEF Cancel, HubStates, registry, queues, reader, wire, publisher
<1>3. ASSUME NEW ch \in Channel, WriteState(ch) PROVE TypeOK'
  <2>1. ver' \in [Channel -> 0..MaxPublish] /\ pub' \in Channel \cup {Idle}
    BY <1>3, BoundAssumption DEF WriteState
  <2>2. QED
    BY <1>3, <2>1 DEF WriteState, registry, queues, reader, wire
<1>4. CASE Publish
  <2>1. pub \in Channel
    BY <1>4 DEF Publish
  <2>2. [kind |-> "delta", ch |-> pub, ver |-> ver[pub]] \in Delta
    BY <2>1 DEF Delta
  <2> DEFINE d == [kind |-> "delta", ch |-> pub, ver |-> ver[pub]]
  <2>5. Append(broadcastCh, d) \in Seq(Delta)
    BY <2>2, AppendType
  <2>3. broadcastCh' \in Seq(Delta)
    BY <1>4, <2>5 DEF Publish
  <2>4. QED
    BY <1>4, <2>3 DEF Publish, registry, reader, wire
<1>5. CASE UNCHANGED vars
  BY <1>5 DEF vars, registry, queues, reader, wire, publisher
<1>6. QED
  BY <1>1, <1>2, <1>3, <1>4, <1>5

\* The steps of Next, for the proofs below to split on.
LEMMA NextCases ==
  ASSUME [Next]_vars
  PROVE  \/ \E c \in Client : HandlerStep(c)
         \/ \E c \in Client : ReaderStep(c)
         \/ \E c \in Client, op \in {"sub", "unsub"}, ch \in Channel : ReadFrame(c, op, ch)
         \/ \E c \in Client : WriterStep(c)
         \/ HubStep
         \/ \/ \E c \in Client : PeerLost(c)
            \/ Cancel
            \/ \E ch \in Channel : WriteState(ch)
            \/ Publish
            \/ UNCHANGED vars
BY DEF Next, Resting

LEMMA TypeInit == Init => TypeOK
<1> SUFFICES ASSUME Init PROVE TypeOK
  OBVIOUS
<1>1. AnyChannel \in Channel /\ 0 \in 0..MaxPublish /\ NoVersion \in Fetched
  BY ChannelAssumption, BoundAssumption, NoVersionType DEF AnyChannel
<1>2. QED
  BY <1>1 DEF Init, TypeOK, HubStates, HandlerStates, ConnStates, ReaderStates, OnceStates,
              WriterStates, Panics

LEMMA TypeStep == TypeOK /\ [Next]_vars => TypeOK'
BY NextCases, TypeHandler, TypeReader, TypeFrame, TypeWriter, TypeHub, TypeRest

\* Every variable keeps its type in every reachable state.
THEOREM TypeCorrect == Spec => []TypeOK
BY TypeInit, TypeStep, PTL DEF Spec

(***************************************************************************)
(* Requests: a queued (un)subscribe is the one its client waits for.       *)
(***************************************************************************)
LEMMA TailIndex ==
  ASSUME NEW S, NEW s \in Seq(S), s # <<>>, NEW i \in DOMAIN Tail(s)
  PROVE  i + 1 \in DOMAIN s /\ Tail(s)[i] = s[i + 1] /\ i + 1 # 1 /\ 1 \in DOMAIN s
  OBVIOUS

LEMMA AppendIndex ==
  ASSUME NEW S, NEW s \in Seq(S), NEW e \in S, NEW i \in DOMAIN Append(s, e)
  PROVE  \/ i \in DOMAIN s /\ Append(s, e)[i] = s[i]
         \/ i = Len(s) + 1 /\ i \notin DOMAIN s /\ Append(s, e)[i] = e
  OBVIOUS

(***************************************************************************)
(* Admission: the counter of an address is the number of slots held.       *)
(***************************************************************************)
\* The pumps run once the handler has started them, and closeOnce is entered exactly
\* while disconnect runs.
PumpInv ==
  \A c \in Client :
    /\ rpc[c] = "off" <=> hpc[c] # "served"
    /\ hpc[c] # "served" => once[c] = "unused"
    /\ rpc[c] \in {"disconnect", "release"} <=> once[c] \in {"readError", "slow"}

AdmissionInv == TypeOK /\ PumpInv /\ OneRequest /\ IpCountExact /\ IpCap

LEMMA HoldersFinite ==
  ASSUME NEW i
  PROVE  IsFiniteSet(Holders(i)) /\ Cardinality(Holders(i)) \in Nat
BY ClientAssumption, FS_Subset, FS_CardinalityType DEF Holders

\* A step that takes no slot and gives none back.
LEMMA SlotsKept ==
  ASSUME IpCountExact, IpCap, ipConns' = ipConns,
         \A d \in Client : Holding(d)' <=> Holding(d)
  PROVE  IpCountExact' /\ IpCap'
<1>1. \A i \in IP : Holders(i)' = Holders(i)
  BY DEF Holders
<1>2. QED
  BY <1>1 DEF IpCountExact, IpCap, CapOn

\* The step that reserves the slot of c.
LEMMA SlotTaken ==
  ASSUME TypeOK, IpCountExact, IpCap, NEW c \in Client, ~Holding(c), Holding(c)',
         \A d \in Client \ {c} : Holding(d)' <=> Holding(d),
         CapOn => MayReserve(IpOf[c]),
         CapOn => ipConns' = [ipConns EXCEPT ![IpOf[c]] = @ + 1]
  PROVE  IpCountExact' /\ IpCap'
<1>1. ASSUME CapOn, NEW i \in IP
      PROVE  /\ ipConns'[i] = Cardinality(Holders(i)')
             /\ Cardinality(Holders(i)') <= MaxConnsPerIP
  <2>1. ipConns[i] = Cardinality(Holders(i)) /\ Cardinality(Holders(i)) <= MaxConnsPerIP
    BY <1>1 DEF IpCountExact, IpCap
  <2>2. ipConns \in [IP -> Nat] /\ MaxConnsPerIP \in Int
    BY CapAssumption DEF TypeOK
  <2>3. CASE i = IpOf[c]
    <3>1. Holders(i)' = Holders(i) \cup {c} /\ c \notin Holders(i)
      BY <2>3 DEF Holders
    <3>2. Cardinality(Holders(i)') = Cardinality(Holders(i)) + 1
      BY <3>1, HoldersFinite, FS_AddElement
    <3>3. ipConns'[i] = ipConns[i] + 1 /\ ipConns[i] < MaxConnsPerIP
      BY <1>1, <2>2, <2>3 DEF MayReserve
    <3>4. QED
      BY <2>1, <2>2, <3>2, <3>3
  <2>4. CASE i # IpOf[c]
    <3>1. Holders(i)' = Holders(i)
      BY <2>4 DEF Holders
    <3>2. QED
      BY <1>1, <2>1, <2>2, <2>4, <3>1
  <2>5. QED
    BY <2>3, <2>4
<1>2. QED
  BY <1>1 DEF IpCountExact, IpCap, CapOn

\* The step that releases the slot of c.
LEMMA SlotReleased ==
  ASSUME TypeOK, IpCountExact, IpCap, NEW c \in Client, Holding(c), ~Holding(c)',
         \A d \in Client \ {c} : Holding(d)' <=> Holding(d),
         ReleaseIP(c)
  PROVE  IpCountExact' /\ IpCap'
<1>1. ASSUME CapOn, NEW i \in IP
      PROVE  /\ ipConns'[i] = Cardinality(Holders(i)')
             /\ Cardinality(Holders(i)') <= MaxConnsPerIP
  <2>1. ipConns[i] = Cardinality(Holders(i)) /\ Cardinality(Holders(i)) <= MaxConnsPerIP
    BY <1>1 DEF IpCountExact, IpCap
  <2>2. ipConns \in [IP -> Nat] /\ MaxConnsPerIP \in Int
    BY CapAssumption DEF TypeOK
  <2>3. CASE i = IpOf[c]
    <3>1. Holders(i)' = Holders(i) \ {c} /\ c \in Holders(i)
      BY <2>3 DEF Holders
    <3>2. Cardinality(Holders(i)') = Cardinality(Holders(i)) - 1
      BY <3>1, HoldersFinite, FS_RemoveElement
    <3>3. ipConns'[i] = AfterRelease(ipConns[i])
      BY <1>1, <2>2, <2>3 DEF ReleaseIP
    <3>4. Cardinality(Holders(i)) # 0
      BY <3>1, HoldersFinite, FS_EmptySet
    <3>5. QED
      BY <2>1, <2>2, <3>2, <3>3, <3>4, HoldersFinite DEF AfterRelease
  <2>4. CASE i # IpOf[c]
    <3>1. Holders(i)' = Holders(i)
      BY <2>4 DEF Holders
    <3>2. QED
      BY <1>1, <2>1, <2>2, <2>4, <3>1 DEF ReleaseIP
  <2>5. QED
    BY <2>3, <2>4
<1>2. QED
  BY <1>1 DEF IpCountExact, IpCap, CapOn

LEMMA SubMsgTyped ==
  ASSUME NEW q \in Seq(SubMsg), NEW i \in DOMAIN q
  PROVE  q[i] \in SubMsg /\ q[i].client \in Client /\ q[i].ch \in Channel
<1>1. q[i] \in SubMsg
  OBVIOUS
<1>2. QED
  BY <1>1 DEF SubMsg

\* Awaited(p, pc)', for p the next value of a queue.
AwaitedNext(p, pc) ==
  /\ \A i \in DOMAIN p : rpc'[p[i].client] = pc /\ rch'[p[i].client] = p[i].ch
  /\ \A i, j \in DOMAIN p : i # j => p[i].client # p[j].client

\* A step of a pump that waits for no request leaves the queued requests awaited.
LEMMA OthersAwaited ==
  ASSUME TypeOK, OneRequest, hub' = hub, NEW c \in Client,
         rpc[c] \notin {"subWait", "unsubWait"},
         \A d \in Client \ {c} : rpc'[d] = rpc[d] /\ rch'[d] = rch[d],
         subscribeCh' = subscribeCh, unsubscribeCh' = unsubscribeCh
  PROVE  OneRequest'
<1>2. /\ \A i \in DOMAIN subscribeCh : subscribeCh[i].client \in Client
      /\ \A i \in DOMAIN unsubscribeCh : unsubscribeCh[i].client \in Client
  BY SubMsgTyped DEF TypeOK
<1>3. QED
  BY <1>2 DEF OneRequest, Awaited, Stopped

\* The step that queues the request of c.
LEMMA RequestQueued ==
  ASSUME NEW q \in Seq(SubMsg), NEW pc, Awaited(q, pc), NEW c \in Client, NEW m \in SubMsg,
         m.client = c, rpc[c] # pc, rpc'[c] = pc, rch'[c] = m.ch,
         \A d \in Client \ {c} : rpc'[d] = rpc[d] /\ rch'[d] = rch[d],
         NEW p, p = Append(q, m)
  PROVE  AwaitedNext(p, pc)
<1>1. ASSUME NEW i \in DOMAIN p
      PROVE  \/ i \in DOMAIN q /\ p[i] = q[i]
             \/ i = Len(q) + 1 /\ i \notin DOMAIN q /\ p[i] = m
  <2>1. i \in DOMAIN Append(q, m)
    BY <1>1
  <2>2. QED
    BY <2>1, AppendIndex
<1>2. \A i \in DOMAIN q : q[i].client \in Client \ {c}
  BY SubMsgTyped DEF Awaited
<1>3. QED
  BY <1>1, <1>2 DEF Awaited, AwaitedNext

\* The step that takes the request at the head of a queue.
LEMMA RequestTaken ==
  ASSUME NEW q \in Seq(SubMsg), q # <<>>, NEW pc, Awaited(q, pc),
         \A d \in Client \ {Head(q).client} : rpc'[d] = rpc[d] /\ rch'[d] = rch[d],
         NEW p, p = Tail(q)
  PROVE  AwaitedNext(p, pc)
<1>1. \A i \in DOMAIN p : i + 1 \in DOMAIN q /\ p[i] = q[i + 1] /\ i + 1 # 1 /\ 1 \in DOMAIN q
  BY TailIndex
<1>2. \A i \in DOMAIN p : i \in Int
  OBVIOUS
<1>3. Head(q) = q[1]
  OBVIOUS
<1>4. \A i \in DOMAIN q : q[i].client \in Client
  BY SubMsgTyped
<1>5. \A i \in DOMAIN p : p[i].client \in Client \ {Head(q).client}
  BY <1>1, <1>3, <1>4 DEF Awaited
<1>6. \A i, j \in DOMAIN p : i # j => i + 1 # j + 1
  BY <1>2
<1>7. QED
  BY <1>1, <1>5, <1>6 DEF Awaited, AwaitedNext

\* The requests of the other queue, whose clients wait for something else.
LEMMA OtherQueue ==
  ASSUME NEW q \in Seq(SubMsg), NEW pc, Awaited(q, pc), NEW c, rpc[c] # pc,
         \A d \in Client \ {c} : rpc'[d] = rpc[d] /\ rch'[d] = rch[d]
  PROVE  AwaitedNext(q, pc)
<1>1. \A i \in DOMAIN q : q[i].client \in Client \ {c}
  BY SubMsgTyped DEF Awaited
<1>2. QED
  BY <1>1 DEF Awaited, AwaitedNext

LEMMA RequestReader ==
  ASSUME TypeOK, OneRequest, NEW c \in Client, ReaderStep(c)
  PROVE  OneRequest'
<1>1. CASE Stopped
  <2>1. hub' = hub
    BY DEF ReaderStep, Subscribe, Unsubscribe, GiveUp, FetchSnapshot, NoSnapshot,
           DeliverSnapshot, SlowSnapshot, ReadError, Unregister, Release, SendPanics
  <2>2. QED
    BY <1>1, <2>1 DEF OneRequest, Stopped
<1>2. CASE Subscribe(c) /\ ~Stopped
  <2> DEFINE m == [client |-> c, ch |-> rch[c]]
  <2>1. /\ rpc[c] = "sub" /\ rpc'[c] = "subWait" /\ rch' = rch
        /\ \A d \in Client \ {c} : rpc'[d] = rpc[d]
        /\ subscribeCh' = Append(subscribeCh, m) /\ unsubscribeCh' = unsubscribeCh
    BY <1>2 DEF Subscribe, TypeOK
  <2>2. m \in SubMsg /\ m.client = c /\ m.ch = rch[c]
    BY DEF SubMsg, TypeOK
  <2>3. subscribeCh \in Seq(SubMsg) /\ unsubscribeCh \in Seq(SubMsg)
    BY DEF TypeOK
  <2>4. Awaited(subscribeCh, "subWait") /\ Awaited(unsubscribeCh, "unsubWait")
    BY <1>2 DEF OneRequest
  <2>5. AwaitedNext(subscribeCh', "subWait")
    BY <2>1, <2>2, <2>3, <2>4, RequestQueued
  <2>6. AwaitedNext(unsubscribeCh', "unsubWait")
    BY <2>1, <2>3, <2>4, OtherQueue
  <2>7. QED
    BY <2>5, <2>6 DEF OneRequest, Awaited, AwaitedNext
<1>3. CASE Unsubscribe(c) /\ ~Stopped
  <2> DEFINE m == [client |-> c, ch |-> rch[c]]
  <2>1. /\ rpc[c] = "unsub" /\ rpc'[c] = "unsubWait" /\ rch' = rch
        /\ \A d \in Client \ {c} : rpc'[d] = rpc[d]
        /\ unsubscribeCh' = Append(unsubscribeCh, m) /\ subscribeCh' = subscribeCh
    BY <1>3 DEF Unsubscribe, TypeOK
  <2>2. m \in SubMsg /\ m.client = c /\ m.ch = rch[c]
    BY DEF SubMsg, TypeOK
  <2>3. subscribeCh \in Seq(SubMsg) /\ unsubscribeCh \in Seq(SubMsg)
    BY DEF TypeOK
  <2>4. Awaited(subscribeCh, "subWait") /\ Awaited(unsubscribeCh, "unsubWait")
    BY <1>3 DEF OneRequest
  <2>5. AwaitedNext(unsubscribeCh', "unsubWait")
    BY <2>1, <2>2, <2>3, <2>4, RequestQueued
  <2>6. AwaitedNext(subscribeCh', "subWait")
    BY <2>1, <2>3, <2>4, OtherQueue
  <2>7. QED
    BY <2>5, <2>6 DEF OneRequest, Awaited, AwaitedNext
<1>4. CASE /\ ~Stopped
           /\ \/ GiveUp(c) \/ FetchSnapshot(c) \/ NoSnapshot(c) \/ DeliverSnapshot(c)
              \/ SlowSnapshot(c) \/ ReadError(c) \/ Unregister(c) \/ Release(c)
              \/ SendPanics(c)
  <2>1. /\ rpc[c] \notin {"subWait", "unsubWait"} /\ hub' = hub
        /\ subscribeCh' = subscribeCh /\ unsubscribeCh' = unsubscribeCh
        /\ \A d \in Client \ {c} : rpc'[d] = rpc[d] /\ rch'[d] = rch[d]
    BY <1>4 DEF GiveUp, FetchSnapshot, NoSnapshot, DeliverSnapshot, SlowSnapshot, ReadError,
       Unregister, Release, SendPanics, BackToRead, TypeOK, queues, reader
  <2>2. QED
    BY <2>1, OthersAwaited
<1>5. QED
  BY <1>1, <1>2, <1>3, <1>4 DEF ReaderStep

LEMMA RequestHub ==
  ASSUME TypeOK, OneRequest, HubStep
  PROVE  OneRequest'
<1>1. /\ subscribeCh \in Seq(SubMsg) /\ unsubscribeCh \in Seq(SubMsg)
      /\ Awaited(subscribeCh, "subWait") /\ Awaited(unsubscribeCh, "unsubWait")
  BY DEF TypeOK, OneRequest, HubStep, HubCase
<1>2. CASE HubSubscribe
  <2>1. Head(subscribeCh) \in SubMsg /\ 1 \in DOMAIN subscribeCh
        /\ Head(subscribeCh) = subscribeCh[1]
    BY <1>1, <1>2 DEF HubSubscribe
  <2>2. /\ rpc[Head(subscribeCh).client] # "unsubWait" /\ subscribeCh # <<>>
        /\ subscribeCh' = Tail(subscribeCh) /\ unsubscribeCh' = unsubscribeCh
        /\ \A d \in Client \ {Head(subscribeCh).client} : rpc'[d] = rpc[d] /\ rch'[d] = rch[d]
    BY <1>1, <1>2, <2>1 DEF HubSubscribe, AddSub, Awaited, TypeOK
  <2>3. AwaitedNext(subscribeCh', "subWait")
    BY <1>1, <2>2, RequestTaken
  <2>4. AwaitedNext(unsubscribeCh', "unsubWait")
    BY <1>1, <2>2, OtherQueue
  <2>5. QED
    BY <2>3, <2>4 DEF OneRequest, Awaited, AwaitedNext
<1>3. CASE HubUnsubscribe
  <2>1. Head(unsubscribeCh) \in SubMsg /\ 1 \in DOMAIN unsubscribeCh
        /\ Head(unsubscribeCh) = unsubscribeCh[1]
    BY <1>1, <1>3 DEF HubUnsubscribe
  <2>2. /\ rpc[Head(unsubscribeCh).client] # "subWait" /\ unsubscribeCh # <<>>
        /\ unsubscribeCh' = Tail(unsubscribeCh) /\ subscribeCh' = subscribeCh
        /\ \A d \in Client \ {Head(unsubscribeCh).client} : rpc'[d] = rpc[d] /\ rch'[d] = rch[d]
    BY <1>1, <1>3, <2>1 DEF HubUnsubscribe, DropSub, Awaited, TypeOK
  <2>3. AwaitedNext(unsubscribeCh', "unsubWait")
    BY <1>1, <2>2, RequestTaken
  <2>4. AwaitedNext(subscribeCh', "subWait")
    BY <1>1, <2>2, OtherQueue
  <2>5. QED
    BY <2>3, <2>4 DEF OneRequest, Awaited, AwaitedNext
<1>4. CASE \/ HubRegister \/ HubUnregister \/ HubBroadcast \/ HubBroadcastPanics \/ HubStop
  <2>1. /\ subscribeCh' = subscribeCh /\ unsubscribeCh' = unsubscribeCh
        /\ rpc' = rpc /\ rch' = rch
    BY <1>4 DEF HubRegister, HubUnregister, HubBroadcast, HubBroadcastPanics, HubStop,
                queues, reader
  <2>2. QED
    BY <1>1, <2>1 DEF OneRequest, Awaited
<1>5. QED
  BY <1>2, <1>3, <1>4 DEF HubStep, HubCase

LEMMA RequestHandler ==
  ASSUME TypeOK, PumpInv, OneRequest, NEW c \in Client, HandlerStep(c)
  PROVE  OneRequest'
<1>1. rpc[c] = "off"
  BY DEF HandlerStep, Reject, Reserve, Upgrade, UpgradeFails, Register, RegisterAfterStop,
         PumpInv
<1>2. /\ hub' = hub /\ subscribeCh' = subscribeCh /\ unsubscribeCh' = unsubscribeCh
      /\ \A d \in Client \ {c} : rpc'[d] = rpc[d] /\ rch'[d] = rch[d]
  BY DEF HandlerStep, Reject, Reserve, Upgrade, UpgradeFails, Register, RegisterAfterStop,
         TypeOK, queues, reader
<1>3. QED
  BY <1>1, <1>2, OthersAwaited

LEMMA RequestRest ==
  ASSUME TypeOK, OneRequest,
         \/ \E c \in Client, op \in {"sub", "unsub"}, ch \in Channel : ReadFrame(c, op, ch)
         \/ \E c \in Client : WriterStep(c)
         \/ \E c \in Client : PeerLost(c)
         \/ Cancel
         \/ \E ch \in Channel : WriteState(ch)
         \/ Publish
         \/ UNCHANGED vars
  PROVE  OneRequest'
<1>1. ASSUME NEW c \in Client, NEW op \in {"sub", "unsub"}, NEW ch \in Channel,
             ReadFrame(c, op, ch)
      PROVE  OneRequest'
  BY <1>1, OthersAwaited DEF ReadFrame, TypeOK, queues
<1>2. CASE rpc' = rpc /\ rch' = rch /\ subscribeCh' = subscribeCh
           /\ unsubscribeCh' = unsubscribeCh /\ (Stopped => hub' = hub)
  BY <1>2 DEF OneRequest, Awaited, Stopped
<1>3. QED
  BY <1>1, <1>2 DEF WriterStep, PeerLost, Cancel, WriteState, Publish, vars, queues, reader,
                    Stopped

LEMMA AdmissionHandler ==
  ASSUME AdmissionInv, NEW c \in Client, HandlerStep(c)
  PROVE  PumpInv' /\ IpCountExact' /\ IpCap'
<1> USE DEF AdmissionInv
<1>1. CASE Reject(c) \/ Upgrade(c) \/ Register(c)
  <2>1. ipConns' = ipConns /\ once' = once /\ \A d \in Client : Holding(d)' <=> Holding(d)
    BY <1>1 DEF Reject, Upgrade, Register, Holding, TypeOK, PumpInv, reader
  <2>2. PumpInv'
    BY <1>1 DEF Reject, Upgrade, Register, TypeOK, PumpInv, reader
  <2>3. QED
    BY <2>1, <2>2, SlotsKept
<1>2. CASE Reserve(c)
  <2>1. /\ ~Holding(c) /\ Holding(c)'
        /\ \A d \in Client \ {c} : Holding(d)' <=> Holding(d)
    BY <1>2 DEF Reserve, Holding, TypeOK, reader
  <2>2. PumpInv'
    BY <1>2 DEF Reserve, TypeOK, PumpInv, reader
  <2>3. QED
    BY <1>2, <2>1, <2>2, SlotTaken DEF Reserve
<1>3. CASE UpgradeFails(c) \/ RegisterAfterStop(c)
  <2>1. /\ Holding(c) /\ ~Holding(c)' /\ ReleaseIP(c)
        /\ \A d \in Client \ {c} : Holding(d)' <=> Holding(d)
    BY <1>3 DEF UpgradeFails, RegisterAfterStop, Holding, TypeOK, reader
  <2>2. PumpInv'
    BY <1>3 DEF UpgradeFails, RegisterAfterStop, TypeOK, PumpInv, reader
  <2>3. QED
    BY <2>1, <2>2, SlotReleased
<1>4. QED
  BY <1>1, <1>2, <1>3 DEF HandlerStep

LEMMA AdmissionReader ==
  ASSUME AdmissionInv, NEW c \in Client, ReaderStep(c)
  PROVE  PumpInv' /\ IpCountExact' /\ IpCap'
<1> USE DEF AdmissionInv
<1>1. CASE \/ Subscribe(c) \/ Unsubscribe(c) \/ GiveUp(c) \/ FetchSnapshot(c)
           \/ NoSnapshot(c) \/ DeliverSnapshot(c) \/ SendPanics(c)
  <2>1. ipConns' = ipConns /\ hpc' = hpc /\ once' = once
    BY <1>1 DEF Subscribe, Unsubscribe, GiveUp, FetchSnapshot, NoSnapshot, DeliverSnapshot,
                SendPanics, reader
  <2>2. PumpInv'
    BY <1>1, <2>1 DEF Subscribe, Unsubscribe, GiveUp, FetchSnapshot, NoSnapshot,
       DeliverSnapshot, SendPanics, BackToRead, reader, TypeOK, PumpInv
  <2>3. QED
    BY <2>1, <2>2, SlotsKept DEF Holding
<1>2. CASE SlowSnapshot(c) \/ ReadError(c) \/ Unregister(c)
  <2>1. ipConns' = ipConns /\ hpc' = hpc /\ \A d \in Client : Holding(d)' <=> Holding(d)
    BY <1>2 DEF SlowSnapshot, ReadError, Unregister, Holding, TypeOK
  <2>2. PumpInv'
    BY <1>2 DEF SlowSnapshot, ReadError, Unregister, TypeOK, PumpInv
  <2>3. QED
    BY <2>1, <2>2, SlotsKept
<1>3. CASE Release(c)
  <2>1. hpc[c] = "served" /\ once[c] # "done"
    BY <1>3 DEF Release, PumpInv
  <2>2. /\ Holding(c) /\ ~Holding(c)' /\ ReleaseIP(c)
        /\ \A d \in Client \ {c} : Holding(d)' <=> Holding(d)
    BY <1>3, <2>1 DEF Release, Holding, TypeOK
  <2>3. PumpInv'
    BY <1>3, <2>1 DEF Release, TypeOK, PumpInv
  <2>4. QED
    BY <2>2, <2>3, SlotReleased
<1>4. QED
  BY <1>1, <1>2, <1>3 DEF ReaderStep

LEMMA AdmissionHub ==
  ASSUME AdmissionInv, HubStep
  PROVE  PumpInv' /\ IpCountExact' /\ IpCap'
<1> USE DEF AdmissionInv
<1>1. ipConns' = ipConns /\ hpc' = hpc
  BY DEF HubStep, HubCase
<1>2. once' = once
  BY DEF HubStep, HubCase, HubRegister, HubUnregister, HubSubscribe, HubUnsubscribe,
         HubBroadcast, HubBroadcastPanics, HubStop, reader
<1>3. PumpInv'
  <2>1. CASE rpc' = rpc
    BY <1>1, <1>2, <2>1 DEF PumpInv
  <2>a. Awaited(subscribeCh, "subWait") /\ Awaited(unsubscribeCh, "unsubWait")
    BY DEF OneRequest, HubStep, HubCase
  <2>2. CASE HubSubscribe
    <3>1. rpc[Head(subscribeCh).client] = "subWait"
      BY <2>2, <2>a DEF HubSubscribe, AddSub, Awaited, TypeOK
    <3>2. QED
      BY <1>1, <1>2, <2>2, <3>1 DEF HubSubscribe, AddSub, PumpInv, TypeOK
  <2>3. CASE HubUnsubscribe
    <3>1. rpc[Head(unsubscribeCh).client] = "unsubWait"
      BY <2>3, <2>a DEF HubUnsubscribe, DropSub, Awaited, TypeOK
    <3>2. QED
      BY <1>1, <1>2, <2>3, <3>1 DEF HubUnsubscribe, DropSub, PumpInv, TypeOK
  <2>4. QED
    BY <2>1, <2>2, <2>3 DEF HubStep, HubCase, HubRegister, HubUnregister, HubBroadcast,
                            HubBroadcastPanics, HubStop, reader
<1>4. QED
  BY <1>1, <1>2, <1>3, SlotsKept DEF Holding

LEMMA AdmissionRest ==
  ASSUME AdmissionInv,
         \/ \E c \in Client, op \in {"sub", "unsub"}, ch \in Channel : ReadFrame(c, op, ch)
         \/ \E c \in Client : WriterStep(c)
         \/ \E c \in Client : PeerLost(c)
         \/ Cancel
         \/ \E ch \in Channel : WriteState(ch)
         \/ Publish
         \/ UNCHANGED vars
  PROVE  PumpInv' /\ IpCountExact' /\ IpCap'
<1> USE DEF AdmissionInv
<1>1. ipConns' = ipConns /\ hpc' = hpc /\ once' = once
  BY DEF ReadFrame, WriterStep, PeerLost, Cancel, WriteState, Publish, vars, reader
<1>2. CASE rpc' = rpc
  BY <1>1, <1>2, SlotsKept DEF Holding, PumpInv
<1>3. ASSUME NEW c \in Client, NEW op \in {"sub", "unsub"}, NEW ch \in Channel,
             ReadFrame(c, op, ch)
      PROVE  PumpInv' /\ IpCountExact' /\ IpCap'
  <2>1. PumpInv'
    BY <1>1, <1>3 DEF ReadFrame, PumpInv, TypeOK
  <2>2. QED
    BY <1>1, <2>1, SlotsKept DEF Holding
<1>4. QED
  BY <1>2, <1>3 DEF WriterStep, PeerLost, Cancel, WriteState, Publish, vars, reader

LEMMA AdmissionInit == Init => AdmissionInv
<1> SUFFICES ASSUME Init PROVE AdmissionInv
  OBVIOUS
<1>1. TypeOK
  BY TypeInit
<1>2. PumpInv
  BY DEF Init, PumpInv
<1>3. \A i \in IP : Holders(i) = {}
  BY DEF Init, Holders, Holding
<1>4. \A i \in IP : Cardinality(Holders(i)) = 0
  BY <1>3, FS_EmptySet
<1>5. IpCountExact /\ IpCap
  BY <1>4, CapAssumption DEF Init, IpCountExact, IpCap, CapOn
<1>6. OneRequest
  BY DEF Init, OneRequest, Awaited
<1>7. QED
  BY <1>1, <1>2, <1>5, <1>6 DEF AdmissionInv

LEMMA AdmissionStep == AdmissionInv /\ [Next]_vars => AdmissionInv'
<1> SUFFICES ASSUME AdmissionInv, [Next]_vars PROVE AdmissionInv'
  OBVIOUS
<1>1. TypeOK'
  BY TypeStep DEF AdmissionInv
<1>2. PumpInv' /\ IpCountExact' /\ IpCap'
  BY NextCases, AdmissionHandler, AdmissionReader, AdmissionHub, AdmissionRest
<1>3. OneRequest'
  BY NextCases, RequestHandler, RequestReader, RequestHub, RequestRest DEF AdmissionInv
<1>4. QED
  BY <1>1, <1>2, <1>3 DEF AdmissionInv

LEMMA AdmissionInvariant == Spec => []AdmissionInv
BY AdmissionInit, AdmissionStep, PTL DEF Spec

\* No slot of an address leaks or is released twice, however its connections end.
THEOREM IpCountIsExact == Spec => []IpCountExact
<1>1. AdmissionInv => IpCountExact
  BY DEF AdmissionInv
<1>2. QED
  BY <1>1, AdmissionInvariant, PTL

\* The cap of an address is never exceeded.
THEOREM IpCapHolds == Spec => []IpCap
<1>1. AdmissionInv => IpCap
  BY DEF AdmissionInv
<1>2. QED
  BY <1>1, AdmissionInvariant, PTL

(***************************************************************************)
(* The integer counters implement the set-based limit of ConnLimit.        *)
(***************************************************************************)
LEMMA InsideIsHolders == \A i : Slots!InsideOf(i) = Holders(i)
BY DEF Slots!InsideOf, Holders

\* An address is full for the limit exactly when tryReserveIP refuses it.
LEMMA FullIsRefused ==
  ASSUME AdmissionInv, NEW c \in Client
  PROVE  Slots!Full(IpOf[c]) <=> CapOn /\ ~MayReserve(IpOf[c])
<1>1. IpOf[c] \in IP
  BY IpAssumption
<1>2. CapOn => ipConns[IpOf[c]] = Cardinality(Slots!InsideOf(IpOf[c]))
  BY <1>1, InsideIsHolders DEF AdmissionInv, IpCountExact
<1>3. ipConns[IpOf[c]] \in Nat
  BY <1>1 DEF AdmissionInv, TypeOK
<1>4. CASE CapOn
  <2> DEFINE n == Cardinality(Slots!InsideOf(IpOf[c]))
  <2>0. Slots!Full(IpOf[c]) <=> MaxConnsPerIP > 0 /\ n >= MaxConnsPerIP
    BY Zenon DEF Slots!Full, Slots!Cardinality, Cardinality, n
  <2> HIDE DEF n
  <2>1. Slots!Full(IpOf[c]) <=> ipConns[IpOf[c]] >= MaxConnsPerIP
    BY <1>2, <1>4, <2>0 DEF CapOn, n
  <2>2. QED
    BY <1>3, <1>4, <2>1, CapAssumption DEF MayReserve
<1>5. CASE ~CapOn
  BY <1>5 DEF Slots!Full, CapOn
<1>6. QED
  BY <1>4, <1>5

LEMMA SlotsHandler ==
  ASSUME AdmissionInv, NEW c \in Client, HandlerStep(c)
  PROVE  [Slots!Next]_(Slots!limitVars)
<1>1. hpc \in [Client -> HandlerStates] /\ once \in [Client -> OnceStates] /\ PumpInv
  BY DEF AdmissionInv, TypeOK
<1>2. CASE Reject(c)
  BY <1>1, <1>2, FullIsRefused DEF Reject, Holding, reader, Slots!Next, Slots!Deny,
     Slots!Fresh
<1>3. CASE Reserve(c)
  BY <1>1, <1>3, FullIsRefused DEF Reserve, Holding, reader, Slots!Next, Slots!Admit,
     Slots!Fresh
<1>4. CASE Upgrade(c) \/ Register(c)
  BY <1>1, <1>4 DEF Upgrade, Register, Holding, reader, PumpInv, Slots!limitVars
<1>5. CASE UpgradeFails(c) \/ RegisterAfterStop(c)
  BY <1>1, <1>5 DEF UpgradeFails, RegisterAfterStop, Holding, reader, Slots!Next, Slots!Leave
<1>6. QED
  BY <1>2, <1>3, <1>4, <1>5 DEF HandlerStep

LEMMA SlotsReader ==
  ASSUME AdmissionInv, NEW c \in Client, ReaderStep(c)
  PROVE  [Slots!Next]_(Slots!limitVars)
<1>1. /\ hpc \in [Client -> HandlerStates] /\ once \in [Client -> OnceStates]
      /\ rpc \in [Client -> ReaderStates] /\ PumpInv
  BY DEF AdmissionInv, TypeOK
<1>2. CASE Release(c)
  <2>1. hpc[c] = "served" /\ once[c] # "done"
    BY <1>1, <1>2 DEF Release, PumpInv
  <2>2. QED
    BY <1>1, <1>2, <2>1 DEF Release, Holding, Slots!Next, Slots!Leave
<1>3. CASE SlowSnapshot(c) \/ ReadError(c)
  BY <1>1, <1>3 DEF SlowSnapshot, ReadError, Holding, Slots!limitVars
<1>4. CASE \/ Subscribe(c) \/ Unsubscribe(c) \/ GiveUp(c) \/ FetchSnapshot(c)
           \/ NoSnapshot(c) \/ DeliverSnapshot(c) \/ Unregister(c) \/ SendPanics(c)
  <2>1. hpc' = hpc /\ once' = once
    BY <1>4 DEF Subscribe, Unsubscribe, GiveUp, FetchSnapshot, NoSnapshot, DeliverSnapshot,
                Unregister, SendPanics, reader
  <2>2. QED
    BY <2>1 DEF Holding, Slots!limitVars
<1>5. QED
  BY <1>2, <1>3, <1>4 DEF ReaderStep

LEMMA SlotsStep == AdmissionInv /\ [Next]_vars => [Slots!Next]_(Slots!limitVars)
<1> SUFFICES ASSUME AdmissionInv, [Next]_vars PROVE [Slots!Next]_(Slots!limitVars)
  OBVIOUS
<1>1. CASE hpc' = hpc /\ once' = once
  BY <1>1 DEF Holding, Slots!limitVars
<1>2. CASE HubStep
  BY <1>1, <1>2 DEF HubStep, HubCase, HubRegister, HubUnregister, HubSubscribe,
     HubUnsubscribe, HubBroadcast, HubBroadcastPanics, HubStop, reader
<1>3. CASE \E c \in Client, op \in {"sub", "unsub"}, ch \in Channel : ReadFrame(c, op, ch)
  BY <1>1, <1>3 DEF ReadFrame
<1>4. CASE \/ \E c \in Client : WriterStep(c)
           \/ \E c \in Client : PeerLost(c)
           \/ Cancel
           \/ \E ch \in Channel : WriteState(ch)
           \/ Publish
           \/ UNCHANGED vars
  BY <1>1, <1>4 DEF WriterStep, PeerLost, Cancel, WriteState, Publish, vars, reader
<1>5. QED
  BY <1>2, <1>3, <1>4, NextCases, SlotsHandler, SlotsReader

LEMMA SlotsInit == Init => Slots!Init
BY DEF Init, Slots!Init, Holding

\* Seen through its slots the hub is ConnLimit: a connection is refused only when its
\* address really is at the cap, and leaves once.
THEOREM SlotsImplemented == Spec => SlotsSpec
BY SlotsInit, SlotsStep, AdmissionInvariant, PTL DEF Spec, SlotsSpec, Slots!Spec

(***************************************************************************)
(* The registry: no send channel is closed twice, both indexes agree.      *)
(***************************************************************************)
\* A client is in the register queue, or in the registry, or closed, and enters the
\* queue once, from its handler.
RegistryInv ==
  /\ NoDoubleClose
  /\ \A i \in DOMAIN registerCh : /\ hpc[registerCh[i]] = "served"
                                  /\ registerCh[i] \notin clients \cup closedSend
  /\ \A i, j \in DOMAIN registerCh : i # j => registerCh[i] # registerCh[j]
  /\ \A c \in clients \cup closedSend : hpc[c] = "served"

\* A step that leaves the registry and its queue alone and un-serves nobody.
LEMMA RegistryKept ==
  ASSUME TypeOK, RegistryInv, clients' = clients, closedSend' = closedSend,
         registerCh' = registerCh, crashed' # "closeOfClosed",
         \A c \in Client : hpc[c] = "served" => hpc'[c] = "served"
  PROVE  RegistryInv'
<1>1. /\ \A i \in DOMAIN registerCh : registerCh[i] \in Client
      /\ clients \subseteq Client /\ closedSend \subseteq Client
  BY DEF TypeOK
<1>2. QED
  BY <1>1 DEF RegistryInv, NoDoubleClose

\* removeClient moves registered clients to the closed ones.
LEMMA RegistryRemove ==
  ASSUME RegistryInv, NEW S, RemoveClients(S), registerCh' = registerCh, hpc' = hpc
  PROVE  RegistryInv'
BY DEF RegistryInv, NoDoubleClose, RemoveClients, Registered

LEMMA RegistryHandler ==
  ASSUME TypeOK, RegistryInv, NEW c \in Client, HandlerStep(c)
  PROVE  RegistryInv'
<1>1. crashed' # "closeOfClosed"
  BY DEF HandlerStep, RegistryInv, NoDoubleClose
<1>2. CASE Register(c)
  <2>1. ASSUME NEW i \in DOMAIN registerCh'
        PROVE  \/ i \in DOMAIN registerCh /\ registerCh'[i] = registerCh[i]
               \/ i = Len(registerCh) + 1 /\ i \notin DOMAIN registerCh /\ registerCh'[i] = c
    <3>1. registerCh' = Append(registerCh, c) /\ registerCh \in Seq(Client)
      BY <1>2 DEF Register, TypeOK
    <3>2. i \in DOMAIN Append(registerCh, c)
      BY <2>1, <3>1
    <3>3. \/ i \in DOMAIN registerCh /\ Append(registerCh, c)[i] = registerCh[i]
          \/ /\ i = Len(registerCh) + 1 /\ i \notin DOMAIN registerCh
             /\ Append(registerCh, c)[i] = c
      BY <3>1, <3>2, AppendIndex
    <3>4. QED
      BY <3>1, <3>3
  <2>2. hpc[c] = "upgraded" /\ hpc' = [hpc EXCEPT ![c] = "served"]
    BY <1>2 DEF Register
  <2>3. clients' = clients /\ closedSend' = closedSend
    BY <1>2 DEF Register, registry
  <2>4. c \notin clients \cup closedSend /\ \A i \in DOMAIN registerCh : registerCh[i] # c
    BY <2>2 DEF RegistryInv
  <2>5. /\ \A i \in DOMAIN registerCh : registerCh[i] \in Client
        /\ clients \subseteq Client /\ closedSend \subseteq Client
        /\ hpc \in [Client -> HandlerStates]
    BY DEF TypeOK
  <2>6. QED
    BY <1>1, <2>1, <2>2, <2>3, <2>4, <2>5 DEF RegistryInv, NoDoubleClose
<1>3. CASE \/ Reject(c) \/ Reserve(c) \/ Upgrade(c) \/ UpgradeFails(c)
           \/ RegisterAfterStop(c)
  <2>1. /\ clients' = clients /\ closedSend' = closedSend /\ registerCh' = registerCh
        /\ \A d \in Client : hpc[d] = "served" => hpc'[d] = "served"
    BY <1>3 DEF Reject, Reserve, Upgrade, UpgradeFails, RegisterAfterStop, TypeOK, registry,
                queues, wire
  <2>2. QED
    BY <1>1, <2>1, RegistryKept
<1>4. QED
  BY <1>2, <1>3 DEF HandlerStep

LEMMA RegistryHub ==
  ASSUME TypeOK, RegistryInv, HubStep
  PROVE  RegistryInv'
<1>1. hpc' = hpc
  BY DEF HubStep, HubCase
<1>2. CASE HubRegister
  <2>1. registerCh \in Seq(Client) /\ registerCh # <<>> /\ registerCh' = Tail(registerCh)
    BY <1>2 DEF HubRegister, TypeOK
  <2>2. ASSUME NEW i \in DOMAIN registerCh'
        PROVE  /\ i + 1 \in DOMAIN registerCh /\ registerCh'[i] = registerCh[i + 1]
               /\ i + 1 # 1 /\ 1 \in DOMAIN registerCh /\ i \in Int
    BY <2>1, <2>2, TailIndex
  <2>3. Head(registerCh) = registerCh[1] /\ 1 \in DOMAIN registerCh
    BY <2>1
  <2>4. \A i, j \in DOMAIN registerCh' : i # j => i + 1 # j + 1
    BY <2>2
  <2>5. /\ clients' = clients \cup {registerCh[1]} /\ closedSend' = closedSend
        /\ crashed' = crashed
    BY <1>2, <2>3 DEF HubRegister, wire
  <2>6. QED
    BY <1>1, <2>2, <2>3, <2>4, <2>5 DEF RegistryInv, NoDoubleClose
<1>3. CASE HubUnregister
  BY <1>1, <1>3, RegistryRemove DEF HubUnregister
<1>4. CASE HubBroadcast
  BY <1>1, <1>4, RegistryRemove DEF HubBroadcast
<1>5. CASE HubStop
  BY <1>1, <1>5, RegistryRemove DEF HubStop, queues
<1>6. CASE HubSubscribe \/ HubUnsubscribe \/ HubBroadcastPanics
  <2>1. /\ clients' = clients /\ closedSend' = closedSend /\ registerCh' = registerCh
        /\ crashed' # "closeOfClosed"
    BY <1>6 DEF HubSubscribe, HubUnsubscribe, HubBroadcastPanics, registry, queues, wire,
                RegistryInv, NoDoubleClose
  <2>2. QED
    BY <1>1, <2>1, RegistryKept
<1>7. QED
  BY <1>2, <1>3, <1>4, <1>5, <1>6 DEF HubStep, HubCase

LEMMA RegistryRest ==
  ASSUME TypeOK, RegistryInv,
         \/ \E c \in Client : ReaderStep(c)
         \/ \E c \in Client, op \in {"sub", "unsub"}, ch \in Channel : ReadFrame(c, op, ch)
         \/ \E c \in Client : WriterStep(c)
         \/ \E c \in Client : PeerLost(c)
         \/ Cancel
         \/ \E ch \in Channel : WriteState(ch)
         \/ Publish
         \/ UNCHANGED vars
  PROVE  RegistryInv'
<1>1. /\ clients' = clients /\ closedSend' = closedSend /\ registerCh' = registerCh
      /\ hpc' = hpc
  BY DEF ReaderStep, Subscribe, Unsubscribe, GiveUp, FetchSnapshot, NoSnapshot,
         DeliverSnapshot, SlowSnapshot, SendPanics, ReadError, Unregister, Release, ReadFrame,
         WriterStep, PeerLost, Cancel, WriteState, Publish, vars, registry, queues, wire
<1>2. crashed' # "closeOfClosed"
  BY DEF RegistryInv, NoDoubleClose, ReaderStep, SendPanics, ReadFrame, WriterStep, PeerLost,
         Cancel, WriteState, Publish, vars
<1>3. QED
  BY <1>1, <1>2, RegistryKept

LEMMA RegistryStep == TypeOK /\ RegistryInv /\ [Next]_vars => RegistryInv'
BY NextCases, RegistryHandler, RegistryHub, RegistryRest

LEMMA RegistryInit == Init => RegistryInv
BY DEF Init, RegistryInv, NoDoubleClose

\* removeClient never closes a send channel twice, whatever path asks for the removal.
THEOREM NeverClosedTwice == Spec => []NoDoubleClose
<1>1. RegistryInv => NoDoubleClose
  BY DEF RegistryInv
<1>2. QED
  BY <1>1, RegistryInit, RegistryStep, TypeCorrect, PTL DEF Spec

LEMMA SubsHub ==
  ASSUME TypeOK, SubsConsistent, HubStep
  PROVE  SubsConsistent'
<1>1. ASSUME NEW S, RemoveClients(S), chans' = chans
      PROVE  SubsConsistent'
  BY <1>1 DEF SubsConsistent, RemoveClients, Registered
<1>2. CASE HubUnregister \/ HubBroadcast \/ HubStop
  BY <1>1, <1>2 DEF HubUnregister, HubBroadcast, HubStop
<1>3. CASE HubSubscribe
  <2>1. Head(subscribeCh) \in SubMsg
    BY <1>3, TailType DEF HubSubscribe, TypeOK
  <2>2. QED
    BY <1>3, <2>1 DEF HubSubscribe, AddSub, SubsConsistent, TypeOK, SubMsg, wire
<1>4. CASE HubUnsubscribe
  <2>1. Head(unsubscribeCh) \in SubMsg
    BY <1>4, TailType DEF HubUnsubscribe, TypeOK
  <2>2. QED
    BY <1>4, <2>1 DEF HubUnsubscribe, DropSub, SubsConsistent, TypeOK, SubMsg, wire
<1>5. CASE HubRegister \/ HubBroadcastPanics
  BY <1>5 DEF HubRegister, HubBroadcastPanics, SubsConsistent, registry, wire
<1>6. QED
  BY <1>2, <1>3, <1>4, <1>5 DEF HubStep, HubCase

LEMMA SubsStep == TypeOK /\ SubsConsistent /\ [Next]_vars => SubsConsistent'
<1> SUFFICES ASSUME TypeOK, SubsConsistent, [Next]_vars PROVE SubsConsistent'
  OBVIOUS
<1>1. CASE subs' = subs /\ chans' = chans /\ closedSend' = closedSend
  BY <1>1 DEF SubsConsistent
<1>2. CASE \E c \in Client : HandlerStep(c)
  BY <1>1, <1>2 DEF HandlerStep, Reject, Reserve, Upgrade, UpgradeFails, Register,
     RegisterAfterStop, registry, wire
<1>3. CASE \E c \in Client : ReaderStep(c)
  BY <1>1, <1>3 DEF ReaderStep, Subscribe, Unsubscribe, GiveUp, FetchSnapshot, NoSnapshot,
     DeliverSnapshot, SlowSnapshot, SendPanics, ReadError, Unregister, Release, registry, wire
<1>4. CASE \/ \E c \in Client, op \in {"sub", "unsub"}, ch \in Channel : ReadFrame(c, op, ch)
           \/ \E c \in Client : WriterStep(c)
           \/ \E c \in Client : PeerLost(c)
           \/ Cancel
           \/ \E ch \in Channel : WriteState(ch)
           \/ Publish
           \/ UNCHANGED vars
  BY <1>1, <1>4 DEF ReadFrame, WriterStep, PeerLost, Cancel, WriteState, Publish, vars,
     registry, wire
<1>5. QED
  BY <1>2, <1>3, <1>4, NextCases, SubsHub

\* The two indexes of a client's subscriptions agree until the client is removed.
THEOREM SubsAlwaysConsistent == Spec => []SubsConsistent
<1>1. Init => SubsConsistent
  BY DEF Init, SubsConsistent
<1>2. QED
  BY <1>1, SubsStep, TypeCorrect, PTL DEF Spec

\* A queued request is the one its client waits for.
THEOREM OneRequestHolds == Spec => []OneRequest
<1>1. AdmissionInv => OneRequest
  BY DEF AdmissionInv
<1>2. QED
  BY <1>1, AdmissionInvariant, PTL

(***************************************************************************)
(* The other direction: a read pump that waits has its request queued.     *)
(***************************************************************************)
\* InQueue(p, c)', for p the next value of a queue.
InNext(p, c) == \E i \in DOMAIN p : p[i] = [client |-> c, ch |-> rch'[c]]

\* A step that takes nothing from a queue keeps its requests, and Append adds one.
LEMMA QueuedKept ==
  ASSUME NEW q \in Seq(SubMsg), NEW c \in Client, InQueue(q, c), rch'[c] = rch[c],
         NEW m \in SubMsg, NEW p, p = q \/ p = Append(q, m)
  PROVE  InNext(p, c)
<1>1. PICK i \in DOMAIN q : q[i] = [client |-> c, ch |-> rch[c]]
  BY DEF InQueue
<1>2. i \in DOMAIN p /\ p[i] = q[i]
  OBVIOUS
<1>3. QED
  BY <1>1, <1>2 DEF InNext

\* The step that takes the request at the head of a queue keeps those of the others.
LEMMA QueuedLeft ==
  ASSUME NEW q \in Seq(SubMsg), q # <<>>, NEW c \in Client, InQueue(q, c),
         c # Head(q).client, rch'[c] = rch[c], NEW p, p = Tail(q)
  PROVE  InNext(p, c)
<1>1. PICK i \in DOMAIN q : q[i] = [client |-> c, ch |-> rch[c]]
  BY DEF InQueue
<1>2. i # 1
  BY <1>1
<1>3. i - 1 \in DOMAIN p /\ p[i - 1] = q[i]
  BY <1>2
<1>4. QED
  BY <1>1, <1>3 DEF InNext

\* A step that touches neither queue, and after which nobody waits who did not before.
LEMMA WaitKept ==
  ASSUME NoWaitLost, Stopped => Stopped',
         subscribeCh' = subscribeCh, unsubscribeCh' = unsubscribeCh,
         \A d \in Client : rpc'[d] \in {"subWait", "unsubWait"} =>
                             rpc'[d] = rpc[d] /\ rch'[d] = rch[d]
  PROVE  NoWaitLost'
BY DEF NoWaitLost, InQueue

LEMMA WaitReader ==
  ASSUME TypeOK, NoWaitLost, NEW c \in Client, ReaderStep(c)
  PROVE  NoWaitLost'
<1>0. hub' = hub
  BY DEF ReaderStep, Subscribe, Unsubscribe, GiveUp, FetchSnapshot, NoSnapshot,
         DeliverSnapshot, SlowSnapshot, ReadError, Unregister, Release, SendPanics
<1>1. CASE (Subscribe(c) \/ Unsubscribe(c)) /\ ~Stopped
  <2> DEFINE m == [client |-> c, ch |-> rch[c]]
  <2>1. m \in SubMsg /\ m.client = c /\ m.ch = rch[c]
    BY DEF SubMsg, TypeOK
  <2>2. subscribeCh \in Seq(SubMsg) /\ unsubscribeCh \in Seq(SubMsg) /\ rch' = rch
    BY <1>1 DEF TypeOK, Subscribe, Unsubscribe
  <2>3. /\ subscribeCh' = subscribeCh \/ subscribeCh' = Append(subscribeCh, m)
        /\ unsubscribeCh' = unsubscribeCh \/ unsubscribeCh' = Append(unsubscribeCh, m)
        /\ \A d \in Client \ {c} : rpc'[d] = rpc[d]
    BY <1>1 DEF Subscribe, Unsubscribe, TypeOK
  <2>4. ASSUME NEW d \in Client \ {c}
        PROVE  /\ rpc'[d] = "subWait" => InNext(subscribeCh', d)
               /\ rpc'[d] = "unsubWait" => InNext(unsubscribeCh', d)
    <3>1. /\ rpc[d] = "subWait" => InQueue(subscribeCh, d)
          /\ rpc[d] = "unsubWait" => InQueue(unsubscribeCh, d)
      BY <1>1 DEF NoWaitLost
    <3>2. QED
      BY <2>1, <2>2, <2>3, <3>1, QueuedKept
  <2>5. \A q \in Seq(SubMsg) : Len(q) + 1 \in DOMAIN Append(q, m)
                               /\ Append(q, m)[Len(q) + 1] = m
    BY <2>1
  <2>6. /\ rpc'[c] = "subWait" => subscribeCh' = Append(subscribeCh, m)
        /\ rpc'[c] = "unsubWait" => unsubscribeCh' = Append(unsubscribeCh, m)
    BY <1>1 DEF Subscribe, Unsubscribe, TypeOK
  <2>7. /\ rpc'[c] = "subWait" => InNext(subscribeCh', c)
        /\ rpc'[c] = "unsubWait" => InNext(unsubscribeCh', c)
    BY <2>2, <2>5, <2>6 DEF InNext
  <2>8. QED
    BY <2>4, <2>7 DEF NoWaitLost, InQueue, InNext
<1>2. CASE (Subscribe(c) \/ Unsubscribe(c)) /\ Stopped
  BY <1>0, <1>2 DEF NoWaitLost, Stopped
<1>3. CASE \/ GiveUp(c) \/ FetchSnapshot(c) \/ NoSnapshot(c) \/ DeliverSnapshot(c)
           \/ SlowSnapshot(c) \/ ReadError(c) \/ Unregister(c) \/ Release(c)
           \/ SendPanics(c)
  <2>1. /\ subscribeCh' = subscribeCh /\ unsubscribeCh' = unsubscribeCh
        /\ \A d \in Client : rpc'[d] \in {"subWait", "unsubWait"} =>
                               rpc'[d] = rpc[d] /\ rch'[d] = rch[d]
    BY <1>3 DEF GiveUp, FetchSnapshot, NoSnapshot, DeliverSnapshot, SlowSnapshot, ReadError,
       Unregister, Release, SendPanics, BackToRead, TypeOK, queues, reader
  <2>2. QED
    BY <1>0, <2>1, WaitKept DEF Stopped
<1>4. QED
  BY <1>1, <1>2, <1>3 DEF ReaderStep

LEMMA WaitHub ==
  ASSUME TypeOK, NoWaitLost, HubStep
  PROVE  NoWaitLost'
<1>0. /\ subscribeCh \in Seq(SubMsg) /\ unsubscribeCh \in Seq(SubMsg)
      /\ \A d \in Client : /\ rpc[d] = "subWait" => InQueue(subscribeCh, d)
                           /\ rpc[d] = "unsubWait" => InQueue(unsubscribeCh, d)
  BY DEF TypeOK, NoWaitLost, HubStep, HubCase
<1>1. CASE HubSubscribe
  <2> DEFINE s == Head(subscribeCh)
  <2>0. s \in SubMsg /\ subscribeCh # <<>>
    BY <1>0, <1>1, TailType DEF HubSubscribe
  <2>1. s.client \in Client
    BY <2>0 DEF SubMsg
  <2>2. /\ subscribeCh' = Tail(subscribeCh) /\ unsubscribeCh' = unsubscribeCh /\ rch' = rch
        /\ \A d \in Client \ {s.client} : rpc'[d] = rpc[d]
        /\ rpc'[s.client] = "snapshot"
    BY <1>1, <2>1 DEF HubSubscribe, TypeOK
  <2>3. ASSUME NEW d \in Client
        PROVE  /\ rpc'[d] = "subWait" => InNext(subscribeCh', d)
               /\ rpc'[d] = "unsubWait" => InNext(unsubscribeCh', d)
    <3>1. CASE d = s.client
      BY <2>2, <3>1
    <3>2. CASE d # s.client
      <4>1. rpc'[d] = rpc[d] /\ rch'[d] = rch[d]
        BY <2>2, <3>2
      <4>2. ASSUME InQueue(subscribeCh, d) PROVE InNext(subscribeCh', d)
        <5>1. InNext(Tail(subscribeCh), d)
          BY <1>0, <2>0, <3>2, <4>1, <4>2, QueuedLeft
        <5>2. QED
          BY <2>2, <5>1
      <4>3. ASSUME InQueue(unsubscribeCh, d) PROVE InNext(unsubscribeCh', d)
        <5>1. InNext(unsubscribeCh, d)
          BY <1>0, <4>1, <4>3 DEF InQueue, InNext
        <5>2. QED
          BY <2>2, <5>1
      <4>4. QED
        BY <1>0, <4>1, <4>2, <4>3
    <3>3. QED
      BY <3>1, <3>2
  <2>4. QED
    BY <2>3 DEF NoWaitLost, InQueue, InNext
<1>2. CASE HubUnsubscribe
  <2> DEFINE s == Head(unsubscribeCh)
  <2>0. s \in SubMsg /\ unsubscribeCh # <<>>
    BY <1>0, <1>2, TailType DEF HubUnsubscribe
  <2>1. s.client \in Client
    BY <2>0 DEF SubMsg
  <2>2. /\ unsubscribeCh' = Tail(unsubscribeCh) /\ subscribeCh' = subscribeCh
        /\ \A d \in Client \ {s.client} : rpc'[d] = rpc[d] /\ rch'[d] = rch[d]
        /\ rpc'[s.client] = "read"
    BY <1>2, <2>1 DEF HubUnsubscribe, TypeOK
  <2>3. ASSUME NEW d \in Client
        PROVE  /\ rpc'[d] = "subWait" => InNext(subscribeCh', d)
               /\ rpc'[d] = "unsubWait" => InNext(unsubscribeCh', d)
    <3>1. CASE d = s.client
      BY <2>2, <3>1
    <3>2. CASE d # s.client
      <4>1. rpc'[d] = rpc[d] /\ rch'[d] = rch[d]
        BY <2>2, <3>2
      <4>2. ASSUME InQueue(unsubscribeCh, d) PROVE InNext(unsubscribeCh', d)
        <5>1. InNext(Tail(unsubscribeCh), d)
          BY <1>0, <2>0, <3>2, <4>1, <4>2, QueuedLeft
        <5>2. QED
          BY <2>2, <5>1
      <4>3. ASSUME InQueue(subscribeCh, d) PROVE InNext(subscribeCh', d)
        <5>1. InNext(subscribeCh, d)
          BY <1>0, <4>1, <4>3 DEF InQueue, InNext
        <5>2. QED
          BY <2>2, <5>1
      <4>4. QED
        BY <1>0, <4>1, <4>2, <4>3
    <3>3. QED
      BY <3>1, <3>2
  <2>4. QED
    BY <2>3 DEF NoWaitLost, InQueue, InNext
<1>3. CASE \/ HubRegister \/ HubUnregister \/ HubBroadcast \/ HubBroadcastPanics \/ HubStop
  <2>1. /\ subscribeCh' = subscribeCh /\ unsubscribeCh' = unsubscribeCh
        /\ rpc' = rpc /\ rch' = rch /\ ~Stopped
    BY <1>3 DEF HubStep, HubCase, HubRegister, HubUnregister, HubBroadcast,
                HubBroadcastPanics, HubStop, queues, reader
  <2>2. QED
    BY <2>1, WaitKept
<1>4. QED
  BY <1>1, <1>2, <1>3 DEF HubStep, HubCase

LEMMA WaitRest ==
  ASSUME TypeOK, NoWaitLost,
         \/ \E c \in Client : HandlerStep(c)
         \/ \E c \in Client, op \in {"sub", "unsub"}, ch \in Channel : ReadFrame(c, op, ch)
         \/ \E c \in Client : WriterStep(c)
         \/ \E c \in Client : PeerLost(c)
         \/ Cancel
         \/ \E ch \in Channel : WriteState(ch)
         \/ Publish
         \/ UNCHANGED vars
  PROVE  NoWaitLost'
<1>1. ASSUME NEW c \in Client, HandlerStep(c) PROVE NoWaitLost'
  <2>1. /\ subscribeCh' = subscribeCh /\ unsubscribeCh' = unsubscribeCh /\ hub' = hub
        /\ \A d \in Client : rpc'[d] \in {"subWait", "unsubWait"} =>
                               rpc'[d] = rpc[d] /\ rch'[d] = rch[d]
    BY <1>1 DEF HandlerStep, Reject, Reserve, Upgrade, UpgradeFails, Register,
                RegisterAfterStop, TypeOK, queues, reader
  <2>2. QED
    BY <2>1, WaitKept DEF Stopped
<1>2. ASSUME NEW c \in Client, NEW op \in {"sub", "unsub"}, NEW ch \in Channel,
             ReadFrame(c, op, ch)
      PROVE  NoWaitLost'
  <2>1. /\ subscribeCh' = subscribeCh /\ unsubscribeCh' = unsubscribeCh /\ hub' = hub
        /\ \A d \in Client : rpc'[d] \in {"subWait", "unsubWait"} =>
                               rpc'[d] = rpc[d] /\ rch'[d] = rch[d]
    BY <1>2 DEF ReadFrame, TypeOK, queues
  <2>2. QED
    BY <2>1, WaitKept DEF Stopped
<1>3. CASE rpc' = rpc /\ rch' = rch /\ subscribeCh' = subscribeCh
           /\ unsubscribeCh' = unsubscribeCh /\ (Stopped => hub' = hub)
  BY <1>3, WaitKept DEF Stopped
<1>4. QED
  BY <1>1, <1>2, <1>3 DEF WriterStep, PeerLost, Cancel, WriteState, Publish, vars, queues,
                          reader, Stopped

\* A read pump that waits for an acknowledgement has its request in the queue of the
\* running hub.
THEOREM NoWaitLostHolds == Spec => []NoWaitLost
<1>1. Init => NoWaitLost
  BY DEF Init, NoWaitLost
<1>2. TypeOK /\ NoWaitLost /\ [Next]_vars => NoWaitLost'
  BY NextCases, WaitReader, WaitHub, WaitRest
<1>3. QED
  BY <1>1, <1>2, TypeCorrect, PTL DEF Spec

\* Queued requests and waiting read pumps match one to one, for any number of clients,
\* channels and frames, and queues of any capacity.
THEOREM RendezvousHolds == Spec => []Rendezvous
<1>1. OneRequest /\ NoWaitLost => Rendezvous
  BY DEF Rendezvous
<1>2. QED
  BY <1>1, OneRequestHolds, NoWaitLostHolds, PTL
=============================================================================
