------------------------------- MODULE WsHub -------------------------------
(***************************************************************************)
(* The in-process WebSocket hub of internal/ws: the Hub.Run goroutine and  *)
(* its five buffered queues, the HTTP handler that admits a connection,    *)
(* the read and write pumps of each connection, the publisher (the sync    *)
(* worker, which writes the live state and then calls Publish) and the     *)
(* snapshot a client is sent when it subscribes.                           *)
(*                                                                         *)
(* A payload is the version of the state it shows: ver[ch] counts the      *)
(* changes the sync worker announces on channel ch, delta k announces      *)
(* version k, and a snapshot shows any version so far (see Shown); it also *)
(* carries, as history, the newest there was when it was read.  One case   *)
(* of Run's select is one step: the goroutine owns the registry, and the   *)
(* trySend and Close calls it makes for different clients commute with the *)
(* pumps' own steps.                                                       *)
(*                                                                         *)
(* A definition whose name ends in _Bug is the one that follows it with a  *)
(* plausible mistake.  No specification uses it: a run with the mistake in *)
(* place shows that the property named in its comment notices it.          *)
(***************************************************************************)
EXTENDS Integers, Sequences, FiniteSets

CONSTANTS
  Client,         \* connection attempts, each made once
  Channel,        \* channel names
  IP,             \* client addresses, as extractClientIP resolves them
  IpOf,           \* the address each connection comes from
  MaxConnsPerIP,  \* HandlerConfig.MaxConnsPerIP; <= 0 disables the cap
  QueueCap,       \* capacity of each of the hub's queues (32)
  SendBuffer,     \* capacity of a client's send queue (64)
  MaxFrames,      \* bound: (un)subscribe frames a client sends
  MaxPublish      \* bound: state changes published per channel

ASSUME ClientAssumption == IsFiniteSet(Client)
ASSUME IpAssumption     == IpOf \in [Client -> IP]
ASSUME ChannelAssumption == Channel # {} /\ "idle" \notin Channel   \* pub: Idle
ASSUME CapAssumption    == MaxConnsPerIP \in Int
ASSUME QueueAssumption  == QueueCap \in Nat \ {0} /\ SendBuffer \in Nat \ {0}
ASSUME BoundAssumption  == MaxFrames \in Nat /\ MaxPublish \in Nat

VARIABLES
  hub,          \* Run: "running", "cancelled" (ctx done), "stopped" (h.done closed)
  clients,      \* h.clients
  subs,         \* h.subs: channel -> clients
  chans,        \* c.channels: client -> channels
  registerCh, unregisterCh, subscribeCh, unsubscribeCh, broadcastCh,
  ipConns,      \* h.ipConns, 0 standing for an absent key
  hpc,          \* the handler goroutine serving each connection
  conn,         \* the connection: "none", "open", "lost" (peer gone), "closed"
  send,         \* c.send: the messages buffered
  closedSend,   \* the clients whose send channel is closed
  rpc,          \* the read pump
  rch,          \* channel named by the frame the read pump handles
  rver,         \* the snapshot fetched: version shown, and (history) the newest then
  asked,        \* the (un)subscribe frames the read pump has read
  once,         \* c.closeOnce: "unused", "readError" or "slow" (who is in it), "done"
  writer,       \* the write pump: "off", "running", "gone"
  got,          \* the messages written to the connection
  ver,          \* number of changes announced, or being announced, on each channel
  pub,          \* the publisher: "idle", or the channel it is publishing on
  crashed,      \* the runtime panic that killed the process
  refused       \* history: unregistered clients a broadcast found full

registry  == <<clients, subs, chans>>
queues    == <<registerCh, unregisterCh, subscribeCh, unsubscribeCh, broadcastCh>>
reader    == <<rpc, rch, rver, asked, once>>
wire      == <<conn, send, closedSend, writer, got>>
publisher == <<ver, pub>>
vars == <<hub, registry, queues, ipConns, hpc, reader, wire, publisher, crashed, refused>>

Idle       == "idle"
AnyChannel == CHOOSE ch \in Channel : TRUE   \* rch of a pump handling no frame

Delta    == [kind : {"delta"}, ch : Channel, ver : 0..MaxPublish]
Fetched  == [shown : 0..MaxPublish, newest : 0..MaxPublish]
Snapshot == [kind : {"snapshot"}, ch : Channel, ver : 0..MaxPublish, newest : 0..MaxPublish]
Message  == Delta \cup Snapshot
Frame    == [op : {"sub", "unsub"}, ch : Channel]
SubMsg   == [client : Client, ch : Channel]

HubStates     == {"running", "cancelled", "stopped"}
HandlerStates == {"idle", "reserved", "upgraded", "served", "denied", "rejected"}
ConnStates    == {"none", "open", "lost", "closed"}
ReaderStates  == {"off", "read", "sub", "subWait", "snapshot", "deliver",
                  "unsub", "unsubWait", "disconnect", "release", "gone"}
OnceStates    == {"unused", "readError", "slow", "done"}
WriterStates  == {"off", "running", "gone"}
Panics        == {"no", "sendOnClosed", "closeOfClosed"}
NoVersion     == [shown |-> 0, newest |-> 0]   \* rver of a pump with no snapshot in hand

TypeOK ==
  /\ hub \in HubStates
  /\ clients \subseteq Client
  /\ subs \in [Channel -> SUBSET Client]
  /\ chans \in [Client -> SUBSET Channel]
  /\ registerCh \in Seq(Client) /\ unregisterCh \in Seq(Client)
  /\ subscribeCh \in Seq(SubMsg) /\ unsubscribeCh \in Seq(SubMsg)
  /\ broadcastCh \in Seq(Delta)
  /\ ipConns \in [IP -> Nat]
  /\ hpc \in [Client -> HandlerStates]
  /\ conn \in [Client -> ConnStates]
  /\ send \in [Client -> Seq(Message)]
  /\ closedSend \subseteq Client
  /\ rpc \in [Client -> ReaderStates]
  /\ rch \in [Client -> Channel]
  /\ rver \in [Client -> Fetched]
  /\ asked \in [Client -> Seq(Frame)]
  /\ once \in [Client -> OnceStates]
  /\ writer \in [Client -> WriterStates]
  /\ got \in [Client -> Seq(Message)]
  /\ ver \in [Channel -> 0..MaxPublish]
  /\ pub \in Channel \cup {Idle}
  /\ crashed \in Panics
  /\ refused \subseteq Client

Init ==
  /\ hub = "running"
  /\ clients = {}
  /\ subs = [ch \in Channel |-> {}]
  /\ chans = [c \in Client |-> {}]
  /\ registerCh = <<>> /\ unregisterCh = <<>>
  /\ subscribeCh = <<>> /\ unsubscribeCh = <<>> /\ broadcastCh = <<>>
  /\ ipConns = [i \in IP |-> 0]
  /\ hpc = [c \in Client |-> "idle"]
  /\ conn = [c \in Client |-> "none"]
  /\ send = [c \in Client |-> <<>>]
  /\ closedSend = {}
  /\ rpc = [c \in Client |-> "off"]
  /\ rch = [c \in Client |-> AnyChannel]
  /\ rver = [c \in Client |-> NoVersion]
  /\ asked = [c \in Client |-> <<>>]
  /\ once = [c \in Client |-> "unused"]
  /\ writer = [c \in Client |-> "off"]
  /\ got = [c \in Client |-> <<>>]
  /\ ver = [ch \in Channel |-> 0]
  /\ pub = Idle
  /\ crashed = "no"
  /\ refused = {}

Alive   == crashed = "no"
Stopped == hub = "stopped"
CapOn   == MaxConnsPerIP > 0
Room(q) == Len(q) < QueueCap

(***************************************************************************)
(* The HTTP handler (Hub.Handler): reserve a slot of the address, upgrade, *)
(* hand the client to the hub, start the pumps.                            *)
(***************************************************************************)
\* The cap checked off by one, either way: SlotsSpec.
MayReserve_LateBug(i)  == ipConns[i] <= MaxConnsPerIP
MayReserve_EarlyBug(i) == ipConns[i] + 1 < MaxConnsPerIP
MayReserve(i) == ipConns[i] < MaxConnsPerIP              \* tryReserveIP
\* The last slot of an address is never given back: IpCountExact.
AfterRelease_Bug(n) == IF n <= 1 THEN n ELSE n - 1
AfterRelease(n) == IF n <= 1 THEN 0 ELSE n - 1           \* releaseIP

\* A slot is released that was never reserved: TypeOK.
ReleaseIP_Bug(c) == ipConns' = [ipConns EXCEPT ![IpOf[c]] = @ - 1]
\* Release the slot of c's address, when the cap made it hold one (c.ip # "").
ReleaseIP(c) ==
  ipConns' = IF CapOn
             THEN [ipConns EXCEPT ![IpOf[c]] = AfterRelease(ipConns[IpOf[c]])]
             ELSE ipConns

\* The address is at its cap.  (A refused token touches no state either: such a request is
\* one of the connections never attempted.  The origin is checked by Upgrade, after the
\* reservation: UpgradeFails.)
Reject(c) ==
  /\ hpc[c] = "idle"
  /\ CapOn /\ ~MayReserve(IpOf[c])
  /\ hpc' = [hpc EXCEPT ![c] = "denied"]
  /\ UNCHANGED <<hub, registry, queues, ipConns, reader, wire, publisher, refused>>

Reserve(c) ==
  /\ hpc[c] = "idle"
  /\ CapOn => MayReserve(IpOf[c])
  /\ hpc' = [hpc EXCEPT ![c] = "reserved"]
  /\ ipConns' = IF CapOn THEN [ipConns EXCEPT ![IpOf[c]] = @ + 1] ELSE ipConns
  /\ UNCHANGED <<hub, registry, queues, reader, wire, publisher, refused>>

Upgrade(c) ==
  /\ hpc[c] = "reserved"
  /\ hpc' = [hpc EXCEPT ![c] = "upgraded"]
  /\ conn' = [conn EXCEPT ![c] = "open"]
  /\ UNCHANGED <<hub, registry, queues, ipConns, reader, send, closedSend, writer, got,
                 publisher, refused>>

UpgradeFails(c) ==
  /\ hpc[c] = "reserved"
  /\ hpc' = [hpc EXCEPT ![c] = "rejected"]
  /\ ReleaseIP(c)
  /\ UNCHANGED <<hub, registry, queues, reader, wire, publisher, refused>>

\* `h.registerCh <- client` and the two go statements.
Register(c) ==
  /\ hpc[c] = "upgraded"
  /\ Room(registerCh)
  /\ registerCh' = Append(registerCh, c)
  /\ hpc' = [hpc EXCEPT ![c] = "served"]
  /\ rpc' = [rpc EXCEPT ![c] = "read"]
  /\ writer' = [writer EXCEPT ![c] = "running"]
  /\ UNCHANGED <<hub, registry, unregisterCh, subscribeCh, unsubscribeCh, broadcastCh,
                 ipConns, rch, rver, asked, once, conn, send, closedSend, got,
                 publisher, refused>>

RegisterAfterStop(c) ==
  /\ hpc[c] = "upgraded"
  /\ Stopped
  /\ hpc' = [hpc EXCEPT ![c] = "rejected"]
  /\ conn' = [conn EXCEPT ![c] = "closed"]
  /\ ReleaseIP(c)
  /\ UNCHANGED <<hub, registry, queues, reader, send, closedSend, writer, got, publisher,
                 refused>>

HandlerStep(c) ==
  /\ Alive /\ crashed' = crashed
  /\ \/ Reject(c) \/ Reserve(c) \/ Upgrade(c) \/ UpgradeFails(c)
     \/ Register(c) \/ RegisterAfterStop(c)

(***************************************************************************)
(* The read pump.  ReadMessage may still return frames already buffered    *)
(* when the connection is lost or closed.                                  *)
(***************************************************************************)
HasRoom(c) == Len(send[c]) < SendBuffer                  \* trySend finds room

\* Back to the read loop, nothing in hand.
BackToRead(c) ==
  /\ rpc' = [rpc EXCEPT ![c] = "read"]
  /\ rch' = [rch EXCEPT ![c] = AnyChannel]
  /\ rver' = [rver EXCEPT ![c] = NoVersion]

ReadFrame(c, op, ch) ==
  /\ rpc[c] = "read" /\ Len(asked[c]) < MaxFrames
  /\ Alive /\ crashed' = crashed
  /\ asked' = [asked EXCEPT ![c] = Append(@, [op |-> op, ch |-> ch])]
  /\ rpc' = [rpc EXCEPT ![c] = op]
  /\ rch' = [rch EXCEPT ![c] = ch]
  /\ UNCHANGED <<hub, registry, queues, ipConns, hpc, rver, once, wire, publisher, refused>>

Subscribe(c) ==
  /\ rpc[c] = "sub"
  /\ Room(subscribeCh)
  /\ rpc' = [rpc EXCEPT ![c] = "subWait"]
  /\ subscribeCh' = Append(subscribeCh, [client |-> c, ch |-> rch[c]])
  /\ UNCHANGED <<hub, registry, registerCh, unregisterCh, unsubscribeCh, broadcastCh,
                 ipConns, hpc, rch, rver, asked, once, wire, publisher, refused>>

Unsubscribe(c) ==
  /\ rpc[c] = "unsub"
  /\ Room(unsubscribeCh)
  /\ rpc' = [rpc EXCEPT ![c] = "unsubWait"]
  /\ unsubscribeCh' = Append(unsubscribeCh, [client |-> c, ch |-> rch[c]])
  /\ UNCHANGED <<hub, registry, registerCh, unregisterCh, subscribeCh, broadcastCh,
                 ipConns, hpc, rch, rver, asked, once, wire, publisher, refused>>

\* The pump stops waiting before the hub has answered: Rendezvous.
GiveUp_Bug(c) ==
  /\ rpc[c] \in {"subWait", "unsubWait"}
  /\ BackToRead(c)
  /\ UNCHANGED <<hub, registry, queues, ipConns, hpc, asked, once, wire, publisher, refused>>

\* `case <-c.hub.done: return`, before or after the request was queued, and also
\* when the acknowledgement is ready too (select takes either).
GiveUp(c) ==
  /\ Stopped /\ rpc[c] \in {"sub", "subWait", "snapshot", "unsub", "unsubWait"}
  /\ BackToRead(c)
  /\ UNCHANGED <<hub, registry, queues, ipConns, hpc, asked, once, wire, publisher,
                 refused>>

\* What reading the state behind ch may show.  live and matchlist read a list cached for 30 s
\* or 10 min that live-changes never evicts, from a MongoDB written after its changes are
\* published; match falls back to that MongoDB when Redis fails or has expired, and a failed
\* write to Redis is published all the same.  So: any version that has been.  (Which one,
\* and for how long, is the subject of CatalogCache and LiveSync.)
Shown(ch) == 0..ver[ch]

\* snapshotFn reads the state behind the channel ...
FetchSnapshot(c) ==
  /\ rpc[c] = "snapshot"
  /\ rpc' = [rpc EXCEPT ![c] = "deliver"]
  /\ \E v \in Shown(rch[c]) :
       rver' = [rver EXCEPT ![c] = [shown |-> v, newest |-> ver[rch[c]]]]
  /\ UNCHANGED <<hub, registry, queues, ipConns, hpc, rch, asked, once, wire,
                 publisher, refused>>

\* ... or fails, finds nothing, or is not configured.
NoSnapshot(c) ==
  /\ rpc[c] = "snapshot"
  /\ BackToRead(c)
  /\ UNCHANGED <<hub, registry, queues, ipConns, hpc, asked, once, wire, publisher,
                 refused>>

SnapshotOf(c) ==
  [kind |-> "snapshot", ch |-> rch[c], ver |-> rver[c].shown, newest |-> rver[c].newest]

\* trySend of the snapshot: there is room, there is none, or the channel is closed.
DeliverSnapshot(c) ==
  /\ rpc[c] = "deliver" /\ c \notin closedSend /\ HasRoom(c)
  /\ send' = [send EXCEPT ![c] = Append(@, SnapshotOf(c))]
  /\ BackToRead(c)
  /\ UNCHANGED <<hub, registry, queues, ipConns, hpc, asked, once, conn, closedSend,
                 writer, got, publisher, refused>>

SendPanics(c) ==
  /\ rpc[c] = "deliver" /\ c \in closedSend
  /\ crashed' = "sendOnClosed"
  /\ UNCHANGED <<hub, registry, queues, ipConns, hpc, reader, wire, publisher, refused>>

SlowSnapshot(c) ==
  /\ rpc[c] = "deliver" /\ c \notin closedSend /\ ~HasRoom(c)
  /\ rch' = [rch EXCEPT ![c] = AnyChannel] /\ rver' = [rver EXCEPT ![c] = NoVersion]
  /\ IF once[c] = "unused"
     THEN /\ rpc' = [rpc EXCEPT ![c] = "disconnect"]
          /\ once' = [once EXCEPT ![c] = "slow"]
     ELSE /\ rpc' = [rpc EXCEPT ![c] = "read"]
          /\ once' = once
  /\ UNCHANGED <<hub, registry, queues, ipConns, hpc, asked, wire, publisher, refused>>

\* The pump returns without its deferred disconnect: ConnectionReaped.
ReadError_Bug(c) ==
  /\ rpc[c] = "read" /\ conn[c] \in {"lost", "closed"}
  /\ rpc' = [rpc EXCEPT ![c] = "gone"]
  /\ UNCHANGED <<hub, registry, queues, ipConns, hpc, rch, rver, asked, once, wire,
                 publisher, refused>>

ReadError(c) ==
  /\ rpc[c] = "read" /\ conn[c] \in {"lost", "closed"}
  /\ IF once[c] = "unused"
     THEN /\ rpc' = [rpc EXCEPT ![c] = "disconnect"]
          /\ once' = [once EXCEPT ![c] = "readError"]
     ELSE /\ rpc' = [rpc EXCEPT ![c] = "gone"]
          /\ once' = once
  /\ UNCHANGED <<hub, registry, queues, ipConns, hpc, rch, rver, asked, wire,
                 publisher, refused>>

\* disconnect, inside closeOnce: queue the unregistration (or see the hub stopped) ...
Unregister(c) ==
  /\ rpc[c] = "disconnect"
  /\ \/ /\ Room(unregisterCh)
        /\ unregisterCh' = Append(unregisterCh, c)
     \/ /\ Stopped
        /\ unregisterCh' = unregisterCh
  /\ rpc' = [rpc EXCEPT ![c] = "release"]
  /\ UNCHANGED <<hub, registry, registerCh, subscribeCh, unsubscribeCh, broadcastCh, ipConns,
                 hpc, rch, rver, asked, once, wire, publisher, refused>>

\* ... then close the connection and release the slot.
Release(c) ==
  /\ rpc[c] = "release"
  /\ conn' = [conn EXCEPT ![c] = "closed"]
  /\ ReleaseIP(c)
  /\ rpc' = [rpc EXCEPT ![c] = IF once[c] = "slow" THEN "read" ELSE "gone"]
  /\ once' = [once EXCEPT ![c] = "done"]
  /\ UNCHANGED <<hub, registry, queues, hpc, rch, rver, asked, send, closedSend,
                 writer, got, publisher, refused>>

ReaderStep(c) ==
  \/ /\ Alive /\ crashed' = crashed
     /\ \/ Subscribe(c) \/ Unsubscribe(c) \/ GiveUp(c)
        \/ FetchSnapshot(c) \/ NoSnapshot(c) \/ DeliverSnapshot(c) \/ SlowSnapshot(c)
        \/ ReadError(c) \/ Unregister(c) \/ Release(c)
  \/ Alive /\ SendPanics(c)

(***************************************************************************)
(* The write pump, and the peer.                                           *)
(***************************************************************************)
\* A message is put back behind those queued after it, to be retried: DeltaOrder.
WriteMessage_Bug(c) ==
  /\ send[c] # <<>> /\ conn[c] # "closed"
  /\ send' = [send EXCEPT ![c] = Append(Tail(@), Head(@))]
  /\ UNCHANGED <<conn, writer, got>>

WriteMessage(c) ==
  /\ send[c] # <<>> /\ conn[c] # "closed"
  /\ got' = [got EXCEPT ![c] = Append(@, Head(send[c]))]
  /\ send' = [send EXCEPT ![c] = Tail(@)]
  /\ UNCHANGED <<conn, writer>>

\* A write, or a ping, fails: the pump returns and closes the connection.
WriteFails(c) ==
  /\ conn[c] \in {"lost", "closed"}
  /\ \/ send[c] # <<>> /\ send' = [send EXCEPT ![c] = Tail(@)]
     \/ send' = send
  /\ writer' = [writer EXCEPT ![c] = "gone"]
  /\ conn' = [conn EXCEPT ![c] = "closed"]
  /\ got' = got

\* The send channel is closed and drained: a close frame, then the same exit.
SendClosed(c) ==
  /\ send[c] = <<>> /\ c \in closedSend
  /\ writer' = [writer EXCEPT ![c] = "gone"]
  /\ conn' = [conn EXCEPT ![c] = "closed"]
  /\ UNCHANGED <<send, got>>

WriterStep(c) ==
  /\ Alive /\ crashed' = crashed
  /\ writer[c] = "running"
  /\ WriteMessage(c) \/ WriteFails(c) \/ SendClosed(c)
  /\ UNCHANGED <<hub, registry, queues, ipConns, hpc, reader, closedSend, publisher, refused>>

\* The peer closes, breaks the protocol, or falls silent past pongWait.
PeerLost(c) ==
  /\ Alive /\ crashed' = crashed
  /\ conn[c] = "open"
  /\ conn' = [conn EXCEPT ![c] = "lost"]
  /\ UNCHANGED <<hub, registry, queues, ipConns, hpc, reader, send, closedSend, writer, got,
                 publisher, refused>>

(***************************************************************************)
(* Hub.Run.  select takes any ready case, so each case is an action.       *)
(***************************************************************************)
\* No membership test: NoDoubleClose; a slow client is kept instead: NoGap.
Registered_TwiceBug(S) == S
Registered_KeepBug(S)  == {}
Registered(S) == S \cap clients                          \* removeClient's membership test

\* removeClient for every client of S that is registered.
RemoveClients(S) ==
  LET R == Registered(S) IN
  /\ crashed' = IF R \cap closedSend # {} THEN "closeOfClosed" ELSE crashed
  /\ clients' = clients \ R
  /\ subs' = [x \in Channel |-> subs[x] \ {c \in R : x \in chans[c]}]
  /\ closedSend' = closedSend \cup R
  /\ conn' = [c \in Client |-> IF c \in R THEN "closed" ELSE conn[c]]

HubRegister ==
  /\ registerCh # <<>>
  /\ registerCh' = Tail(registerCh)
  /\ clients' = clients \cup {Head(registerCh)}
  /\ UNCHANGED <<hub, subs, chans, unregisterCh, subscribeCh, unsubscribeCh, broadcastCh,
                 reader, wire, crashed, refused>>

HubUnregister ==
  /\ unregisterCh # <<>>
  /\ unregisterCh' = Tail(unregisterCh)
  /\ RemoveClients({Head(unregisterCh)})
  /\ UNCHANGED <<hub, chans, registerCh, subscribeCh, unsubscribeCh, broadcastCh, reader,
                 send, writer, got, refused>>

\* The client does not remember the channel: SubsConsistent.
AddSub_Bug(s) == subs' = [subs EXCEPT ![s.ch] = @ \cup {s.client}] /\ chans' = chans
AddSub(s) == /\ subs' = [subs EXCEPT ![s.ch] = @ \cup {s.client}]
             /\ chans' = [chans EXCEPT ![s.client] = @ \cup {s.ch}]

\* Only the client forgets the channel: AckedView.
DropSub_Bug(s) == subs' = subs /\ chans' = [chans EXCEPT ![s.client] = @ \ {s.ch}]
DropSub(s) == /\ subs' = [subs EXCEPT ![s.ch] = @ \ {s.client}]
              /\ chans' = [chans EXCEPT ![s.client] = @ \ {s.ch}]

\* A request of a client that is not registered is dropped unanswered: Rendezvous.
HubSubscribe_Bug ==
  /\ subscribeCh # <<>>
  /\ LET s == Head(subscribeCh) IN
       IF s.client \in clients
       THEN AddSub(s) /\ rpc' = [rpc EXCEPT ![s.client] = "snapshot"]
       ELSE UNCHANGED <<subs, chans, rpc>>
  /\ subscribeCh' = Tail(subscribeCh)
  /\ UNCHANGED <<hub, clients, registerCh, unregisterCh, unsubscribeCh, broadcastCh, rch,
                 rver, asked, once, wire, crashed, refused>>

\* The registry change and close(s.done), which lets the waiting read pump go on.
HubSubscribe ==
  /\ subscribeCh # <<>>
  /\ LET s == Head(subscribeCh) IN
       /\ AddSub(s)
       /\ rpc' = [rpc EXCEPT ![s.client] = "snapshot"]
  /\ subscribeCh' = Tail(subscribeCh)
  /\ UNCHANGED <<hub, clients, registerCh, unregisterCh, unsubscribeCh, broadcastCh, rch,
                 rver, asked, once, wire, crashed, refused>>

HubUnsubscribe ==
  /\ unsubscribeCh # <<>>
  /\ LET s == Head(unsubscribeCh) IN
       /\ DropSub(s)
       /\ rpc' = [rpc EXCEPT ![s.client] = "read"]
       /\ rch' = [rch EXCEPT ![s.client] = AnyChannel]
  /\ unsubscribeCh' = Tail(unsubscribeCh)
  /\ UNCHANGED <<hub, clients, registerCh, unregisterCh, subscribeCh, broadcastCh, rver,
                 asked, once, wire, crashed, refused>>

\* Every subscriber gets the message or, its buffer full, is removed.
HubBroadcast ==
  /\ broadcastCh # <<>>
  /\ LET m    == Head(broadcastCh)
         full == {c \in subs[m.ch] : ~HasRoom(c)}
     IN /\ subs[m.ch] \cap closedSend = {}
        /\ send' = [c \in Client |-> IF c \in subs[m.ch] \ full
                                     THEN Append(send[c], m) ELSE send[c]]
        /\ RemoveClients(full)
        /\ refused' = refused \cup (full \ clients)
  /\ broadcastCh' = Tail(broadcastCh)
  /\ UNCHANGED <<hub, chans, registerCh, unregisterCh, subscribeCh, unsubscribeCh, reader,
                 writer, got>>

\* A subscriber's channel is closed: trySend panics, and the process with it.
HubBroadcastPanics ==
  /\ broadcastCh # <<>>
  /\ subs[Head(broadcastCh).ch] \cap closedSend # {}
  /\ crashed' = "sendOnClosed"
  /\ UNCHANGED <<hub, registry, queues, reader, wire, refused>>

HubStop ==
  /\ hub = "cancelled"
  /\ hub' = "stopped"
  /\ RemoveClients(clients)
  /\ UNCHANGED <<chans, queues, reader, send, writer, got, refused>>

HubCase(A) == Alive /\ ~Stopped /\ A /\ UNCHANGED <<ipConns, hpc, publisher>>

HubStep == HubCase(\/ HubRegister \/ HubUnregister \/ HubSubscribe \/ HubUnsubscribe
                   \/ HubBroadcast \/ HubBroadcastPanics \/ HubStop)

Cancel ==
  /\ Alive /\ hub = "running"
  /\ hub' = "cancelled"
  /\ UNCHANGED <<registry, queues, ipConns, hpc, reader, wire, publisher, crashed, refused>>

(***************************************************************************)
(* The publisher: the sync worker writes the state of a match, if Redis    *)
(* takes it (a failure is only logged), and calls Publish all the same,    *)
(* which waits for room in the queue or for the hub to stop.               *)
(***************************************************************************)
WriteState(ch) ==
  /\ Alive /\ pub = Idle
  /\ ver[ch] < MaxPublish
  /\ ver' = [ver EXCEPT ![ch] = @ + 1]
  /\ pub' = ch
  /\ UNCHANGED <<hub, registry, queues, ipConns, hpc, reader, wire, crashed, refused>>

\* Publish without the `case <-h.done`: CallsReturn.
Publish_Bug ==
  /\ Alive /\ pub # Idle /\ Room(broadcastCh)
  /\ broadcastCh' = Append(broadcastCh, [kind |-> "delta", ch |-> pub, ver |-> ver[pub]])
  /\ pub' = Idle
  /\ UNCHANGED <<hub, registry, registerCh, unregisterCh, subscribeCh, unsubscribeCh,
                 ipConns, hpc, reader, wire, ver, crashed, refused>>

Publish ==
  /\ Alive /\ pub # Idle
  /\ \/ /\ Room(broadcastCh)
        /\ broadcastCh' = Append(broadcastCh, [kind |-> "delta", ch |-> pub, ver |-> ver[pub]])
     \/ /\ Stopped
        /\ broadcastCh' = broadcastCh
  /\ pub' = Idle
  /\ UNCHANGED <<hub, registry, registerCh, unregisterCh, subscribeCh, unsubscribeCh,
                 ipConns, hpc, reader, wire, ver, crashed, refused>>

\* Nobody is in the middle of anything: the only state the system may stay in.
Resting ==
  /\ \/ ~Alive
     \/ /\ pub = Idle
        /\ \A c \in Client : /\ hpc[c] \in {"served", "denied", "rejected"}
                             /\ rpc[c] \in {"off", "read", "gone"}
                             /\ rpc[c] = "read" => conn[c] = "open"
        /\ hub # "cancelled"
  /\ UNCHANGED vars

Next ==
  \/ \E c \in Client : \/ HandlerStep(c) \/ ReaderStep(c)
                       \/ \E ch \in Channel : ReadFrame(c, "sub", ch) \/ ReadFrame(c, "unsub", ch)
                       \/ WriterStep(c) \/ PeerLost(c)
  \/ HubStep
  \/ Cancel
  \/ \E ch \in Channel : WriteState(ch)
  \/ Publish
  \/ Resting

Spec == Init /\ [][Next]_vars

\* Go schedules every runnable goroutine, select starves no ready case, pongWait and
\* writeWait bound the reads and writes of a lost connection.  Clients, their peers,
\* the network and the operator owe nothing.
Fairness ==
  /\ \A c \in Client : /\ WF_vars(HandlerStep(c))
                       /\ WF_vars(ReaderStep(c))
                       /\ WF_vars(WriterStep(c))
  /\ WF_vars(HubCase(HubRegister))
  /\ WF_vars(HubCase(HubUnregister))
  /\ WF_vars(HubCase(HubSubscribe))
  /\ WF_vars(HubCase(HubUnsubscribe))
  /\ WF_vars(HubCase(HubBroadcast \/ HubBroadcastPanics))
  /\ WF_vars(HubCase(HubStop))
  /\ WF_vars(Publish)

FairSpec == Spec /\ Fairness

(***************************************************************************)
(* Properties                                                              *)
(***************************************************************************)
\* A connection holds a slot of its address from the reservation to the release.
Holding(c) == \/ hpc[c] \in {"reserved", "upgraded"}
              \/ hpc[c] = "served" /\ once[c] # "done"
Holders(i) == {c \in Client : IpOf[c] = i /\ Holding(c)}

\* The integer kept per address is the number of connections holding a slot of it,
\* whatever way each of them ends (failed upgrade, stopped hub, read error, slow
\* snapshot): no slot leaks and none is given back twice.
IpCountExact == CapOn => \A i \in IP : ipConns[i] = Cardinality(Holders(i))

\* An address never holds more than MaxConnsPerIP slots, however many requests race.
IpCap == CapOn => \A i \in IP : Cardinality(Holders(i)) <= MaxConnsPerIP

\* The slots implement the set-based limit: refused only at the cap, given back once.
Slots == INSTANCE ConnLimit WITH
  Conn <- Client, Addr <- IP, AddrOf <- IpOf, Max <- MaxConnsPerIP,
  inside <- {c \in Client : Holding(c)},
  denied <- {c \in Client : hpc[c] = "denied"},
  left   <- {c \in Client : \/ hpc[c] = "rejected"
                            \/ hpc[c] = "served" /\ once[c] = "done"}
SlotsSpec == Slots!Spec

\* h.subs and c.channels say the same of every client not removed yet, and no client is
\* in h.subs where removeClient would not find it through c.channels.
SubsConsistent ==
  \A c \in Client, ch \in Channel :
    /\ c \in subs[ch] => ch \in chans[c]
    /\ c \notin closedSend /\ ch \in chans[c] => c \in subs[ch]

\* No send channel is closed twice: removeClient really is safe to call more than once.
NoDoubleClose == crashed # "closeOfClosed" /\ clients \cap closedSend = {}

\* A request in a queue of a running hub is the one its client's read pump waits for, so
\* no client has two requests queued and close(s.done) always wakes the right pump.
Awaited(q, pc) ==
  /\ \A i \in DOMAIN q : rpc[q[i].client] = pc /\ rch[q[i].client] = q[i].ch
  /\ \A i, j \in DOMAIN q : i # j => q[i].client # q[j].client
OneRequest ==
  ~Stopped => Awaited(subscribeCh, "subWait") /\ Awaited(unsubscribeCh, "unsubWait")

\* A read pump that waits for an acknowledgement of a running hub has its request in the
\* queue, whether or not the hub has its client registered: nobody waits for an answer
\* no one will give.
InQueue(q, c) == \E i \in DOMAIN q : q[i] = [client |-> c, ch |-> rch[c]]
NoWaitLost ==
  ~Stopped => \A c \in Client : /\ rpc[c] = "subWait" => InQueue(subscribeCh, c)
                                /\ rpc[c] = "unsubWait" => InQueue(unsubscribeCh, c)

\* While the hub runs, the requests in its queues and the read pumps that wait are the two
\* sides of the same meetings: each has the other, and only one.
Rendezvous == OneRequest /\ NoWaitLost

\* What a client's frames, in the order it sent them, ask for.
Wants(c, ch) == \E i \in DOMAIN asked[c] :
  /\ asked[c][i] = [op |-> "sub", ch |-> ch]
  /\ \A j \in i+1..Len(asked[c]) : asked[c][j] # [op |-> "unsub", ch |-> ch]

\* Subscribe and unsubscribe requests travel through different queues that Run drains
\* in any order; still, whenever the read pump is back at its loop, the registry holds
\* exactly what the frames ask for.
AckedView ==
  \A c \in Client : rpc[c] = "read" /\ ~Stopped /\ c \notin closedSend =>
    \A ch \in Channel : c \in subs[ch] <=> Wants(c, ch)

\* Everything delivered to a client, on the wire or in its buffer, in order.
Stream(c) == got[c] \o send[c]

\* The deltas of a channel reach a client in the order they were published, none twice.
DeltaOrder ==
  \A c \in Client : \A i, j \in DOMAIN Stream(c) :
    LET a == Stream(c)[i]  b == Stream(c)[j] IN
      i < j /\ a.kind = "delta" /\ b.kind = "delta" /\ a.ch = b.ch => a.ver < b.ver

\* Version k of ch is in the stream of c, in the broadcast queue, or about to be published.
DeltaOf(ch, k) == [kind |-> "delta", ch |-> ch, ver |-> k]
Found(c, ch, k) == \/ \E i \in DOMAIN Stream(c) : Stream(c)[i] = DeltaOf(ch, k)
                   \/ \E i \in DOMAIN broadcastCh : broadcastCh[i] = DeltaOf(ch, k)
                   \/ pub = ch /\ k = ver[ch]
Covered(c, ch, v) == \A k \in v + 1 .. ver[ch] : Found(c, ch, k)

\* The frames c has sent do not unsubscribe it from ch.
Keeps(c, ch) == \A r \in DOMAIN asked[c] : asked[c][r] # [op |-> "unsub", ch |-> ch]

\* How far its channel had come when message m was published, or read.
AsOf(m) == IF m.kind = "snapshot" THEN m.newest ELSE m.ver

\* No gap in what a subscribed client is sent: after a snapshot, every version announced since
\* it was read, and after a delta every version announced since, is in the client's stream,
\* in the broadcast queue, or about to be published.  What such a client can miss is what a
\* stale snapshot does not show though it had been announced before.  (A client the hub has
\* no room for, or a write failed for, is closed; refused excepted.)
NoGap ==
  \A c \in Client \ refused, ch \in Channel :
    ~Stopped /\ conn[c] # "closed" /\ c \in subs[ch] /\ Keeps(c, ch) =>
      \A i \in DOMAIN Stream(c) :
        Stream(c)[i].ch = ch => Covered(c, ch, AsOf(Stream(c)[i]))

\* hub.go: "a client that can't keep up is dropped (it can simply reconnect)": dropping
\* one is all a running hub does about it, nobody then sends on the closed channel.
SlowClientOnlyDropped == hub = "running" => crashed # "sendOnClosed"

\* client.go: subscribe delivers the current snapshot "before any subsequent live
\* deltas", so no delta a client already has was announced after the snapshot was read.
SnapshotNotOlder ==
  \A c \in Client : \A i, j \in DOMAIN Stream(c) :
    LET a == Stream(c)[i]  b == Stream(c)[j] IN
      i < j /\ b.kind = "snapshot" /\ a.ch = b.ch => a.ver <= b.newest

\* Publish, subscribe and unsubscribe return, whatever the queues hold and whenever the
\* hub stops: no goroutine waits forever to hand work to it.
CallsReturn ==
  /\ pub # Idle ~> (pub = Idle \/ ~Alive)
  /\ \A c \in Client :
       rpc[c] \in {"sub", "subWait", "unsub", "unsubWait"} ~>
         (rpc[c] \notin {"sub", "subWait", "unsub", "unsubWait"} \/ ~Alive)

\* A connection whose peer is lost, or that the hub or a pump closes, is closed on this
\* side too and its slot given back.
ConnectionReaped ==
  \A c \in Client : conn[c] \in {"lost", "closed"} ~>
    ((conn[c] = "closed" /\ ~Holding(c)) \/ ~Alive)

\* client.go: "disconnect unregisters the client from the hub": once it has run to its
\* end, the client stays out of the registry.
DisconnectUnregisters ==
  \A c \in Client : rpc[c] = "gone" ~> ([](c \notin clients) \/ ~Alive)
=============================================================================
