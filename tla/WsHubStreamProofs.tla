------------------------- MODULE WsHubStreamProofs -------------------------
(***************************************************************************)
(* What a client of WsHub sees, for every value of the constants: the      *)
(* subscriptions its frames ask for, the deltas of a channel in order, and *)
(* none missing after the snapshot.                                        *)
(***************************************************************************)
EXTENDS WsHubProofs, SequenceTheorems

(***************************************************************************)
(* Subscriptions.                                                          *)
(***************************************************************************)
\* The kind of frame the read pump has in hand.
Phase(c) == IF rpc[c] \in {"sub", "subWait"} THEN "sub"
            ELSE IF rpc[c] \in {"unsub", "unsubWait"} THEN "unsub" ELSE "none"

\* The registry holds what the frames of c ask for, but for the frame in hand.
View(c) ==
  \A ch \in Channel :
    /\ Phase(c) = "none" \/ ch # rch[c]  => (c \in subs[ch] <=> Wants(c, ch))
    /\ Phase(c) = "sub" /\ ch = rch[c]   => Wants(c, ch)
    /\ Phase(c) = "unsub" /\ ch = rch[c] => ~Wants(c, ch)

ViewInv == ~Stopped => \A c \in Client \ closedSend : View(c)

\* What one more frame asks for.
LEMMA FrameAppended ==
  ASSUME NEW c \in Client, NEW f \in Frame, asked[c] \in Seq(Frame),
         asked'[c] = Append(asked[c], f), NEW ch \in Channel
  PROVE  /\ f = [op |-> "sub", ch |-> ch] => Wants(c, ch)'
         /\ f = [op |-> "unsub", ch |-> ch] => ~Wants(c, ch)'
         /\ f.ch # ch => (Wants(c, ch)' <=> Wants(c, ch))
<1> DEFINE s == asked[c]
           t == asked'[c]
           n == Len(s)
<1>1. /\ n \in Nat /\ Len(t) = n + 1 /\ DOMAIN s = 1..n /\ DOMAIN t = 1..(n + 1)
      /\ \A i \in 1..n : t[i] = s[i]
      /\ t[n + 1] = f
  BY AppendProperties
<1>2. [op |-> "sub", ch |-> ch] # [op |-> "unsub", ch |-> ch]
  <2>1. [op |-> "sub", ch |-> ch].op # [op |-> "unsub", ch |-> ch].op
    OBVIOUS
  <2>2. QED
    BY <2>1
<1> HIDE DEF s, t, n
<1>3. ASSUME f = [op |-> "sub", ch |-> ch] PROVE Wants(c, ch)'
  <2>1. n + 1 \in DOMAIN t /\ ~(\E j \in n + 1 + 1 .. Len(t) : TRUE)
    BY <1>1
  <2>2. QED
    BY <1>1, <1>3, <2>1 DEF Wants, t
<1>4. ASSUME f = [op |-> "unsub", ch |-> ch] PROVE ~Wants(c, ch)'
  <2>1. ASSUME NEW i \in DOMAIN t, t[i] = [op |-> "sub", ch |-> ch]
        PROVE  n + 1 \in i + 1 .. Len(t)
    BY <1>1, <1>2, <1>4, <2>1
  <2>2. QED
    BY <1>1, <1>4, <2>1 DEF Wants, t
<1>5. ASSUME f.ch # ch PROVE Wants(c, ch)' <=> Wants(c, ch)
  <2>1. f # [op |-> "sub", ch |-> ch] /\ f # [op |-> "unsub", ch |-> ch]
    BY <1>5
  <2>2. ASSUME NEW i \in DOMAIN t, t[i] = [op |-> "sub", ch |-> ch],
               \A j \in i + 1 .. Len(t) : t[j] # [op |-> "unsub", ch |-> ch]
        PROVE  /\ i \in DOMAIN s /\ s[i] = [op |-> "sub", ch |-> ch]
               /\ \A j \in i + 1 .. Len(s) : s[j] # [op |-> "unsub", ch |-> ch]
    BY <1>1, <2>1, <2>2 DEF n
  <2>3. ASSUME NEW i \in DOMAIN s, s[i] = [op |-> "sub", ch |-> ch],
               \A j \in i + 1 .. Len(s) : s[j] # [op |-> "unsub", ch |-> ch]
        PROVE  /\ i \in DOMAIN t /\ t[i] = [op |-> "sub", ch |-> ch]
               /\ \A j \in i + 1 .. Len(t) : t[j] # [op |-> "unsub", ch |-> ch]
    <3>1. \A j \in i + 1 .. Len(t) : j = n + 1 \/ (j \in 1..n /\ j \in i + 1 .. Len(s))
      BY <1>1 DEF n
    <3>2. QED
      BY <1>1, <2>1, <2>3, <3>1
  <2>4. QED
    BY <2>2, <2>3 DEF Wants, s, t
<1>6. QED
  BY <1>3, <1>4, <1>5

\* A step that leaves the frames, the subscriptions and the frame in hand of c.
LEMMA ViewSame ==
  ASSUME NEW c \in Client, View(c), asked'[c] = asked[c],
         \A ch \in Channel : c \in subs'[ch] <=> c \in subs[ch],
         Phase(c)' = Phase(c), Phase(c) = "none" \/ rch'[c] = rch[c]
  PROVE  View(c)'
<1>1. \A ch \in Channel : Wants(c, ch)' <=> Wants(c, ch)
  BY DEF Wants
<1>2. QED
  BY <1>1 DEF View

LEMMA ViewFrame ==
  ASSUME TypeOK, ViewInv, NEW c \in Client, NEW op \in {"sub", "unsub"}, NEW ch \in Channel,
         ReadFrame(c, op, ch)
  PROVE  ViewInv'
<1> DEFINE f == [op |-> op, ch |-> ch]
<1>1. /\ rpc[c] = "read" /\ rpc'[c] = op /\ rch'[c] = ch
      /\ asked'[c] = Append(asked[c], f)
      /\ \A d \in Client \ {c} : rpc'[d] = rpc[d] /\ rch'[d] = rch[d] /\ asked'[d] = asked[d]
      /\ subs' = subs /\ closedSend' = closedSend /\ hub' = hub
  BY DEF ReadFrame, TypeOK, registry, wire
<1>2. f \in Frame /\ f.ch = ch /\ asked[c] \in Seq(Frame)
  BY DEF Frame, TypeOK
<1>3. ASSUME View(c) PROVE View(c)'
  <2>1. \A x \in Channel : c \in subs[x] <=> Wants(c, x)
    BY <1>1, <1>3 DEF View, Phase
  <2>2. \A x \in Channel : x # ch => (Wants(c, x)' <=> Wants(c, x))
    BY <1>1, <1>2, FrameAppended
  <2>3. /\ op = "sub" => Wants(c, ch)'
        /\ op = "unsub" => ~Wants(c, ch)'
    BY <1>1, <1>2, FrameAppended
  <2>4. Phase(c)' = op
    BY <1>1 DEF Phase
  <2>5. QED
    BY <1>1, <2>1, <2>2, <2>3, <2>4 DEF View
<1>4. ASSUME NEW d \in Client \ {c}, View(d) PROVE View(d)'
  BY <1>1, <1>4, ViewSame DEF Phase
<1>5. QED
  BY <1>1, <1>3, <1>4 DEF ViewInv, Stopped

LEMMA ViewReader ==
  ASSUME TypeOK, ViewInv, NEW c \in Client, ReaderStep(c)
  PROVE  ViewInv'
<1>1. asked' = asked /\ subs' = subs /\ closedSend' = closedSend /\ hub' = hub
  BY DEF ReaderStep, Subscribe, Unsubscribe, GiveUp, FetchSnapshot, NoSnapshot,
         DeliverSnapshot, SlowSnapshot, SendPanics, ReadError, Unregister, Release, reader,
         registry, wire
<1>2. \A d \in Client \ {c} : rpc'[d] = rpc[d] /\ rch'[d] = rch[d]
  BY DEF ReaderStep, Subscribe, Unsubscribe, GiveUp, FetchSnapshot, NoSnapshot,
         DeliverSnapshot, SlowSnapshot, SendPanics, ReadError, Unregister, Release, reader,
         BackToRead, TypeOK
<1>3. ~Stopped => Phase(c)' = Phase(c) /\ (Phase(c) = "none" \/ rch'[c] = rch[c])
  <2>1. CASE Subscribe(c) \/ Unsubscribe(c)
    BY <2>1 DEF Subscribe, Unsubscribe, Phase, TypeOK
  <2>2. CASE \/ FetchSnapshot(c) \/ NoSnapshot(c) \/ DeliverSnapshot(c) \/ SlowSnapshot(c)
             \/ SendPanics(c)
    BY <2>2 DEF FetchSnapshot, NoSnapshot, DeliverSnapshot, SlowSnapshot, SendPanics, Phase,
       BackToRead, reader, TypeOK
  <2>3. CASE ReadError(c) \/ Unregister(c) \/ Release(c)
    BY <2>3 DEF ReadError, Unregister, Release, Phase, TypeOK
  <2>4. QED
    BY <2>1, <2>2, <2>3 DEF ReaderStep, GiveUp
<1>4. ASSUME ~Stopped, NEW d \in Client, View(d) PROVE View(d)'
  <2>1. CASE d = c
    BY <1>1, <1>3, <1>4, <2>1, ViewSame
  <2>2. CASE d # c
    BY <1>1, <1>2, <1>4, <2>2, ViewSame DEF Phase
  <2>3. QED
    BY <2>1, <2>2
<1>5. QED
  BY <1>1, <1>4 DEF ViewInv, Stopped

\* A step that touches neither the pumps nor the subscriptions of those it leaves open.
LEMMA ViewKept ==
  ASSUME ViewInv, asked' = asked, hub' = "stopped" \/ ~Stopped \/ hub' = hub,
         closedSend \subseteq closedSend',
         \A d \in Client \ closedSend' :
           /\ \A ch \in Channel : d \in subs'[ch] <=> d \in subs[ch]
           /\ Phase(d)' = Phase(d) /\ rch'[d] = rch[d]
  PROVE  ViewInv'
<1>1. ASSUME ~Stopped, NEW d \in Client \ closedSend' PROVE View(d)'
  BY <1>1, ViewSame DEF ViewInv
<1>2. QED
  BY <1>1 DEF ViewInv, Stopped

\* The step that answers the subscription of c to x.
LEMMA ViewSubscribed ==
  ASSUME TypeOK, NEW c \in Client, NEW x \in Channel, rpc[c] = "subWait", rch[c] = x,
         subs' = [subs EXCEPT ![x] = @ \cup {c}], rpc' = [rpc EXCEPT ![c] = "snapshot"],
         rch' = rch, asked' = asked, NEW d \in Client, View(d)
  PROVE  View(d)'
<1>1. CASE d = c
  <2>1. \A ch \in Channel : Wants(c, ch)' <=> Wants(c, ch)
    BY DEF Wants
  <2>2. \A ch \in Channel : c \in subs'[ch] <=> ch = x \/ c \in subs[ch]
    BY DEF TypeOK
  <2>3. Phase(c) = "sub" /\ Phase(c)' = "none"
    BY DEF Phase, TypeOK
  <2>4. QED
    BY <1>1, <2>1, <2>2, <2>3 DEF View
<1>2. CASE d # c
  <2>1. /\ \A ch \in Channel : d \in subs'[ch] <=> d \in subs[ch]
        /\ rpc'[d] = rpc[d]
    BY <1>2 DEF TypeOK
  <2>2. QED
    BY <2>1, ViewSame DEF Phase
<1>3. QED
  BY <1>1, <1>2

\* The step that answers the unsubscription of c from x.
LEMMA ViewUnsubscribed ==
  ASSUME TypeOK, NEW c \in Client, NEW x \in Channel, rpc[c] = "unsubWait", rch[c] = x,
         subs' = [subs EXCEPT ![x] = @ \ {c}], rpc' = [rpc EXCEPT ![c] = "read"],
         rch' = [rch EXCEPT ![c] = AnyChannel], asked' = asked, NEW d \in Client, View(d)
  PROVE  View(d)'
<1>1. CASE d = c
  <2>1. \A ch \in Channel : Wants(c, ch)' <=> Wants(c, ch)
    BY DEF Wants
  <2>2. \A ch \in Channel : c \in subs'[ch] <=> ch # x /\ c \in subs[ch]
    BY DEF TypeOK
  <2>3. Phase(c) = "unsub" /\ Phase(c)' = "none"
    BY DEF Phase, TypeOK
  <2>4. QED
    BY <1>1, <2>1, <2>2, <2>3 DEF View
<1>2. CASE d # c
  <2>1. /\ \A ch \in Channel : d \in subs'[ch] <=> d \in subs[ch]
        /\ rpc'[d] = rpc[d] /\ rch'[d] = rch[d]
    BY <1>2 DEF TypeOK
  <2>2. QED
    BY <2>1, ViewSame DEF Phase
<1>3. QED
  BY <1>1, <1>2

\* The request at the head of a queue is the one its client waits for.
LEMMA HeadAwaited ==
  ASSUME NEW q \in Seq(SubMsg), q # <<>>, NEW pc, Awaited(q, pc)
  PROVE  /\ Head(q).client \in Client /\ Head(q).ch \in Channel
         /\ rpc[Head(q).client] = pc /\ rch[Head(q).client] = Head(q).ch
<1>1. 1 \in DOMAIN q /\ Head(q) = q[1]
  OBVIOUS
<1>2. QED
  BY <1>1, SubMsgTyped DEF Awaited

LEMMA ViewHub ==
  ASSUME TypeOK, ViewInv, OneRequest, HubStep
  PROVE  ViewInv'
<1>1. ~Stopped /\ Awaited(subscribeCh, "subWait") /\ Awaited(unsubscribeCh, "unsubWait")
  BY DEF HubStep, HubCase, OneRequest
<1>2. ASSUME NEW S, RemoveClients(S), asked' = asked, rpc' = rpc, rch' = rch
      PROVE  ViewInv'
  <2>1. \A d \in Client \ closedSend', ch \in Channel : d \in subs'[ch] <=> d \in subs[ch]
    BY <1>2 DEF RemoveClients, Registered, TypeOK
  <2>2. closedSend \subseteq closedSend'
    BY <1>2 DEF RemoveClients
  <2>3. QED
    BY <1>1, <1>2, <2>1, <2>2, ViewKept DEF Phase
<1>3. CASE HubUnregister \/ HubBroadcast \/ HubStop
  BY <1>2, <1>3 DEF HubUnregister, HubBroadcast, HubStop, reader
<1>4. CASE HubRegister \/ HubBroadcastPanics
  BY <1>1, <1>4, ViewKept DEF HubRegister, HubBroadcastPanics, registry, reader, wire, Phase
<1>5. CASE HubSubscribe
  <2> DEFINE s == Head(subscribeCh)
  <2>1. subscribeCh \in Seq(SubMsg) /\ subscribeCh # <<>>
    BY <1>5 DEF HubSubscribe, TypeOK
  <2>2. s.client \in Client /\ s.ch \in Channel /\ rpc[s.client] = "subWait"
        /\ rch[s.client] = s.ch
    BY <1>1, <2>1, HeadAwaited
  <2>3. /\ subs' = [subs EXCEPT ![s.ch] = @ \cup {s.client}]
        /\ rpc' = [rpc EXCEPT ![s.client] = "snapshot"]
        /\ rch' = rch /\ asked' = asked /\ closedSend' = closedSend /\ hub' = hub
    BY <1>5 DEF HubSubscribe, AddSub, wire
  <2>4. \E c \in Client, x \in Channel :
          /\ rpc[c] = "subWait" /\ rch[c] = x
          /\ subs' = [subs EXCEPT ![x] = @ \cup {c}] /\ rpc' = [rpc EXCEPT ![c] = "snapshot"]
    BY <2>2, <2>3
  <2>5. \A d \in Client : View(d) => View(d)'
    BY <2>3, <2>4, ViewSubscribed
  <2>6. QED
    BY <1>1, <2>3, <2>5 DEF ViewInv, Stopped
<1>6. CASE HubUnsubscribe
  <2> DEFINE s == Head(unsubscribeCh)
  <2>1. unsubscribeCh \in Seq(SubMsg) /\ unsubscribeCh # <<>>
    BY <1>6 DEF HubUnsubscribe, TypeOK
  <2>2. s.client \in Client /\ s.ch \in Channel /\ rpc[s.client] = "unsubWait"
        /\ rch[s.client] = s.ch
    BY <1>1, <2>1, HeadAwaited
  <2>3. /\ subs' = [subs EXCEPT ![s.ch] = @ \ {s.client}]
        /\ rpc' = [rpc EXCEPT ![s.client] = "read"]
        /\ rch' = [rch EXCEPT ![s.client] = AnyChannel] /\ asked' = asked
        /\ closedSend' = closedSend /\ hub' = hub
    BY <1>6 DEF HubUnsubscribe, DropSub, wire
  <2>4. \E c \in Client, x \in Channel :
          /\ rpc[c] = "unsubWait" /\ rch[c] = x
          /\ subs' = [subs EXCEPT ![x] = @ \ {c}] /\ rpc' = [rpc EXCEPT ![c] = "read"]
          /\ rch' = [rch EXCEPT ![c] = AnyChannel]
    BY <2>2, <2>3
  <2>5. \A d \in Client : View(d) => View(d)'
    BY <2>3, <2>4, ViewUnsubscribed
  <2>6. QED
    BY <1>1, <2>3, <2>5 DEF ViewInv, Stopped
<1>7. QED
  BY <1>3, <1>4, <1>5, <1>6 DEF HubStep, HubCase

LEMMA ViewStep == AdmissionInv /\ ViewInv /\ [Next]_vars => ViewInv'
<1> SUFFICES ASSUME AdmissionInv, ViewInv, [Next]_vars PROVE ViewInv'
  OBVIOUS
<1>0. TypeOK /\ OneRequest /\ PumpInv
  BY DEF AdmissionInv
<1>1. ASSUME NEW c \in Client, HandlerStep(c) PROVE ViewInv'
  <2>1. /\ asked' = asked /\ subs' = subs /\ closedSend' = closedSend /\ hub' = hub /\ rch' = rch
        /\ rpc[c] = "off"
    BY <1>0, <1>1 DEF HandlerStep, Reject, Reserve, Upgrade, UpgradeFails, Register,
       RegisterAfterStop, registry, reader, wire, PumpInv
  <2>2. \A d \in Client : Phase(d)' = Phase(d)
    BY <1>0, <1>1, <2>1 DEF HandlerStep, Reject, Reserve, Upgrade, UpgradeFails, Register,
       RegisterAfterStop, reader, Phase, TypeOK
  <2>3. QED
    BY <2>1, <2>2, ViewKept
<1>2. CASE \/ \E c \in Client : WriterStep(c)
           \/ \E c \in Client : PeerLost(c)
           \/ Cancel
           \/ \E ch \in Channel : WriteState(ch)
           \/ Publish
           \/ UNCHANGED vars
  <2>1. /\ asked' = asked /\ subs' = subs /\ closedSend' = closedSend /\ rch' = rch
        /\ rpc' = rpc /\ (hub' = hub \/ ~Stopped)
    BY <1>2 DEF WriterStep, PeerLost, Cancel, WriteState, Publish, vars, registry, reader,
       wire, Stopped
  <2>2. QED
    BY <2>1, ViewKept DEF Phase
<1>3. QED
  BY <1>0, <1>1, <1>2, NextCases, ViewReader, ViewFrame, ViewHub

\* Whenever a read pump is back at its loop, the registry holds exactly what the frames it
\* has read ask for, though the requests go through two queues that Hub.Run drains in any
\* order (Client.subscribe, Client.unsubscribe).
THEOREM AckedViewHolds == Spec => []AckedView
<1>1. Init => ViewInv
  BY DEF Init, ViewInv, View, Phase, Wants, Stopped
<1>2. TypeOK /\ ViewInv => AckedView
  BY DEF ViewInv, View, AckedView, Phase
<1>3. AdmissionInv => TypeOK
  BY DEF AdmissionInv
<1>4. QED
  BY <1>1, <1>2, <1>3, ViewStep, AdmissionInvariant, PTL DEF Spec

(***************************************************************************)
(* The order of the deltas: a delta is older than those behind it, in the  *)
(* stream of a client and in the broadcast queue, and every one of them is *)
(* older than the one being published.                                     *)
(***************************************************************************)
\* Among the deltas of a channel, those of s come before m ...
Below(s, m) == \A i \in DOMAIN s :
  s[i].kind = "delta" /\ m.kind = "delta" /\ s[i].ch = m.ch => s[i].ver < m.ver
\* ... and before all of q.
Before(s, q) == \A j \in DOMAIN q : Below(s, q[j])

Increasing(s) == \A i, j \in DOMAIN s :
  i < j /\ s[i].kind = "delta" /\ s[j].kind = "delta" /\ s[i].ch = s[j].ch
    => s[i].ver < s[j].ver

\* Published already: its version is not the one the publisher has in hand.
Older(m) == m.kind = "delta" => m.ver <= ver[m.ch] /\ (pub = m.ch => m.ver < ver[m.ch])
AllOlder(s) == \A i \in DOMAIN s : Older(s[i])

OrderInv ==
  /\ Increasing(broadcastCh) /\ AllOlder(broadcastCh)
  /\ \A c \in Client : /\ Increasing(Stream(c)) /\ AllOlder(Stream(c))
                       /\ Before(Stream(c), broadcastCh)

\* t is s with some of its elements dropped.
Thinned(t, s) == \E f \in [DOMAIN t -> DOMAIN s] :
  /\ \A i \in DOMAIN t : t[i] = s[f[i]]
  /\ \A i, j \in DOMAIN t : i < j => f[i] < f[j]

LEMMA ThinnedSame ==
  ASSUME NEW s
  PROVE  Thinned(s, s)
<1>1. [i \in DOMAIN s |-> i] \in [DOMAIN s -> DOMAIN s]
  OBVIOUS
<1>2. QED
  BY <1>1 DEF Thinned

LEMMA ThinnedTail ==
  ASSUME NEW S, NEW s \in Seq(S), s # <<>>
  PROVE  Thinned(Tail(s), s)
<1> DEFINE f == [i \in DOMAIN Tail(s) |-> i + 1]
<1>1. \A i \in DOMAIN Tail(s) : i \in Int /\ i + 1 \in DOMAIN s /\ Tail(s)[i] = s[i + 1]
  OBVIOUS
<1>2. f \in [DOMAIN Tail(s) -> DOMAIN s] /\ \A i, j \in DOMAIN Tail(s) : i < j => f[i] < f[j]
  BY <1>1
<1>3. \A i \in DOMAIN Tail(s) : Tail(s)[i] = s[f[i]]
  BY <1>1
<1>4. QED
  BY <1>2, <1>3 DEF Thinned

LEMMA ThinnedOrder ==
  ASSUME NEW s, NEW t, Thinned(t, s)
  PROVE  /\ Increasing(s) => Increasing(t)
         /\ AllOlder(s) => AllOlder(t)
         /\ \A m : Below(s, m) => Below(t, m)
         /\ \A q : Before(s, q) => Before(t, q)
         /\ \A q : Before(q, s) => Before(q, t)
<1>1. PICK f \in [DOMAIN t -> DOMAIN s] :
        /\ \A i \in DOMAIN t : t[i] = s[f[i]]
        /\ \A i, j \in DOMAIN t : i < j => f[i] < f[j]
  BY DEF Thinned
<1>2. \A i \in DOMAIN t : f[i] \in DOMAIN s
  OBVIOUS
<1>3. Increasing(s) => Increasing(t)
  BY <1>1, <1>2 DEF Increasing
<1>4. AllOlder(s) => AllOlder(t)
  BY <1>1, <1>2 DEF AllOlder
<1>5. \A m : Below(s, m) => Below(t, m)
  BY <1>1, <1>2 DEF Below
<1>6. \A q : Before(q, s) => Before(q, t)
  BY <1>1, <1>2 DEF Before
<1>7. QED
  BY <1>3, <1>4, <1>5, <1>6 DEF Before

LEMMA AppendOrder ==
  ASSUME NEW s \in Seq(Message), NEW m \in Message, Increasing(s), Below(s, m)
  PROVE  Increasing(Append(s, m))
<1> DEFINE t == Append(s, m)
           n == Len(s)
<1>1. /\ n \in Nat /\ DOMAIN s = 1..n /\ DOMAIN t = 1..(n + 1)
      /\ \A i \in 1..n : t[i] = s[i]
      /\ t[n + 1] = m
  BY AppendProperties
<1> HIDE DEF t, n
<1>2. ASSUME NEW i \in DOMAIN t, NEW j \in DOMAIN t, i < j
      PROVE  /\ i \in DOMAIN s /\ t[i] = s[i]
             /\ (j \in DOMAIN s /\ t[j] = s[j]) \/ t[j] = m
  <2>1. i \in 1..n /\ (j \in 1..n \/ j = n + 1)
    BY <1>1, <1>2
  <2>2. QED
    BY <1>1, <2>1
<1>3. Increasing(t)
  BY <1>2 DEF Increasing, Below
<1>4. QED
  BY <1>3 DEF t

LEMMA AppendElements ==
  ASSUME NEW s \in Seq(Message), NEW m \in Message
  PROVE  /\ AllOlder(s) /\ Older(m) => AllOlder(Append(s, m))
         /\ \A q : Before(s, q) /\ (\A j \in DOMAIN q : Below(<<m>>, q[j]))
                     => Before(Append(s, m), q)
         /\ \A q : Before(q, s) /\ Below(q, m) => Before(q, Append(s, m))
<1>1. \A i \in DOMAIN Append(s, m) :
        (i \in DOMAIN s /\ Append(s, m)[i] = s[i]) \/ Append(s, m)[i] = m
  BY AppendIndex
<1>2. 1 \in DOMAIN <<m>> /\ <<m>>[1] = m
  OBVIOUS
<1>3. AllOlder(s) /\ Older(m) => AllOlder(Append(s, m))
  BY <1>1 DEF AllOlder
<1>4. \A q : Before(q, s) /\ Below(q, m) => Before(q, Append(s, m))
  BY <1>1 DEF Before
<1>5. ASSUME NEW x, Below(s, x), Below(<<m>>, x) PROVE Below(Append(s, m), x)
  BY <1>1, <1>2, <1>5 DEF Below
<1>6. QED
  BY <1>3, <1>4, <1>5 DEF Before

\* The head of an ordered queue comes before what is behind it.
LEMMA HeadFirst ==
  ASSUME NEW q \in Seq(Delta), q # <<>>, Increasing(q)
  PROVE  \A j \in DOMAIN Tail(q) : Below(<<Head(q)>>, Tail(q)[j])
<1> SUFFICES ASSUME NEW j \in DOMAIN Tail(q) PROVE Below(<<Head(q)>>, Tail(q)[j])
  OBVIOUS
<1>1. /\ j + 1 \in DOMAIN q /\ Tail(q)[j] = q[j + 1] /\ 1 \in DOMAIN q /\ Head(q) = q[1]
      /\ 1 < j + 1
  OBVIOUS
<1>2. \A i \in DOMAIN <<Head(q)>> : <<Head(q)>>[i] = q[1]
  BY <1>1
<1>3. QED
  BY <1>1, <1>2 DEF Below, Increasing

(***************************************************************************)
(* What the steps do to the stream of a client.                            *)
(***************************************************************************)
LEMMA StreamType ==
  ASSUME TypeOK, NEW c \in Client
  PROVE  /\ got[c] \in Seq(Message) /\ send[c] \in Seq(Message)
         /\ Stream(c) \in Seq(Message) /\ \A i \in DOMAIN Stream(c) : Stream(c)[i] \in Message
<1>1. got[c] \in Seq(Message) /\ send[c] \in Seq(Message)
  BY DEF TypeOK
<1>2. Stream(c) \in Seq(Message)
  BY <1>1 DEF Stream
<1>3. QED
  BY <1>1, <1>2

\* A written message stays where it was.
LEMMA StreamWritten ==
  ASSUME NEW S, NEW a \in Seq(S), NEW b \in Seq(S), b # <<>>
  PROVE  Append(a, Head(b)) \o Tail(b) = a \o b
  OBVIOUS

\* A message queued is the last of the stream.
LEMMA StreamAppended ==
  \A a, b \in Seq(Message) : \A m \in Message : a \o Append(b, m) = Append(a \o b, m)
  OBVIOUS

\* A message taken and not written leaves a thinner stream.
LEMMA StreamDropped ==
  ASSUME NEW S, NEW a \in Seq(S), NEW b \in Seq(S), b # <<>>
  PROVE  Thinned(a \o Tail(b), a \o b)
<1> DEFINE t == a \o Tail(b)
           s == a \o b
           n == Len(a)
           k == Len(b)
           f == [i \in DOMAIN t |-> IF i <= n THEN i ELSE i + 1]
<1>1. /\ n \in Nat /\ k \in Nat /\ k > 0 /\ DOMAIN s = 1..(n + k) /\ DOMAIN t = 1..(n + k - 1)
      /\ Tail(b) \in Seq(S) /\ Len(Tail(b)) = k - 1
      /\ \A i \in 1..(k - 1) : Tail(b)[i] = b[i + 1]
  OBVIOUS
<1>2. /\ \A i \in 1..(n + k) : s[i] = IF i <= n THEN a[i] ELSE b[i - n]
      /\ \A i \in 1..(n + k - 1) : t[i] = IF i <= n THEN a[i] ELSE Tail(b)[i - n]
  BY <1>1
<1> HIDE DEF t, s, n, k
<1>3. f \in [DOMAIN t -> DOMAIN s] /\ \A i, j \in DOMAIN t : i < j => f[i] < f[j]
  BY <1>1
<1>4. ASSUME NEW i \in DOMAIN t PROVE t[i] = s[f[i]]
  <2>1. i \in 1..(n + k - 1)
    BY <1>1
  <2>2. CASE i <= n
    BY <1>1, <1>2, <2>1, <2>2
  <2>3. CASE ~(i <= n)
    <3>1. f[i] = i + 1 /\ i + 1 \in 1..(n + k) /\ ~(i + 1 <= n) /\ i - n \in 1..(k - 1)
      BY <1>1, <2>1, <2>3
    <3>2. t[i] = Tail(b)[i - n] /\ s[i + 1] = b[i + 1 - n] /\ i + 1 - n = (i - n) + 1
      BY <1>1, <1>2, <2>1, <2>3, <3>1
    <3>3. QED
      BY <1>1, <3>1, <3>2
  <2>4. QED
    BY <2>2, <2>3
<1>5. QED
  BY <1>3, <1>4 DEF Thinned, t, s

LEMMA StreamWriter ==
  ASSUME TypeOK, NEW c \in Client, WriterStep(c)
  PROVE  \A d \in Client : Thinned(Stream(d)', Stream(d))
<1>1. ASSUME NEW d \in Client, got'[d] = got[d], send'[d] = send[d]
      PROVE  Thinned(Stream(d)', Stream(d))
  BY <1>1, ThinnedSame DEF Stream
<1>2. got[c] \in Seq(Message) /\ send[c] \in Seq(Message)
  BY StreamType
<1>3. \A d \in Client \ {c} : got'[d] = got[d] /\ send'[d] = send[d]
  BY DEF WriterStep, WriteMessage, WriteFails, SendClosed, TypeOK
<1>4. CASE WriteMessage(c)
  <2>1. /\ send[c] # <<>> /\ got'[c] = Append(got[c], Head(send[c])) /\ send'[c] = Tail(send[c])
    BY <1>4 DEF WriteMessage, TypeOK
  <2>2. Stream(c)' = Stream(c)
    BY <1>2, <2>1, StreamWritten DEF Stream
  <2>3. QED
    BY <1>1, <1>3, <2>2, ThinnedSame
<1>5. CASE WriteFails(c) \/ SendClosed(c)
  <2>1. /\ got'[c] = got[c]
        /\ send'[c] = send[c] \/ (send[c] # <<>> /\ send'[c] = Tail(send[c]))
    BY <1>5 DEF WriteFails, SendClosed, TypeOK
  <2>2. Thinned(Stream(c)', Stream(c))
    BY <1>1, <1>2, <2>1, StreamDropped DEF Stream
  <2>3. QED
    BY <1>1, <1>3, <2>2
<1>6. QED
  BY <1>4, <1>5 DEF WriterStep

\* Every other step leaves the streams alone, or appends to them.
LEMMA StreamReader ==
  ASSUME TypeOK, NEW c \in Client, ReaderStep(c)
  PROVE  /\ \A d \in Client \ {c} : Stream(d)' = Stream(d)
         /\ ~DeliverSnapshot(c) => Stream(c)' = Stream(c)
         /\ DeliverSnapshot(c) =>
              Stream(c)' = Append(Stream(c), SnapshotOf(c))
<1> DEFINE m == SnapshotOf(c)
<1>1. got' = got /\ (~DeliverSnapshot(c) => send' = send)
  BY DEF ReaderStep, Subscribe, Unsubscribe, GiveUp, FetchSnapshot, NoSnapshot,
         DeliverSnapshot, SlowSnapshot, SendPanics, ReadError, Unregister, Release, wire
<1>2. ASSUME DeliverSnapshot(c)
      PROVE  send'[c] = Append(send[c], m) /\ \A d \in Client \ {c} : send'[d] = send[d]
  BY <1>2 DEF DeliverSnapshot, TypeOK
<1>3. got[c] \in Seq(Message) /\ send[c] \in Seq(Message)
  BY StreamType
<1>4. m \in Message
  BY SnapshotType
<1> HIDE DEF m
<1>5. got[c] \o Append(send[c], m) = Append(got[c] \o send[c], m)
  BY <1>3, <1>4, StreamAppended
<1>6. DeliverSnapshot(c) => Stream(c)' = Append(Stream(c), m)
  BY <1>1, <1>2, <1>5 DEF Stream
<1>7. /\ \A d \in Client \ {c} : Stream(d)' = Stream(d)
      /\ ~DeliverSnapshot(c) => Stream(c)' = Stream(c)
  BY <1>1, <1>2 DEF Stream
<1>8. QED
  BY <1>6, <1>7 DEF m

LEMMA StreamHub ==
  ASSUME TypeOK, HubStep, NEW c \in Client
  PROVE  \/ Stream(c)' = Stream(c)
         \/ HubBroadcast /\ Stream(c)' = Append(Stream(c), Head(broadcastCh))
<1>1. got[c] \in Seq(Message) /\ send[c] \in Seq(Message)
  BY StreamType
<1>2. got' = got /\ (~HubBroadcast => send' = send)
  BY DEF HubStep, HubCase, HubRegister, HubUnregister, HubSubscribe, HubUnsubscribe,
         HubBroadcast, HubBroadcastPanics, HubStop, wire
<1>3. ASSUME HubBroadcast
      PROVE  /\ broadcastCh \in Seq(Delta) /\ broadcastCh # <<>>
             /\ send'[c] = send[c] \/ send'[c] = Append(send[c], Head(broadcastCh))
  BY <1>3 DEF HubBroadcast, TypeOK
<1>4. HubBroadcast => Head(broadcastCh) \in Message
  BY <1>3, TailType DEF Message
<1>5. HubBroadcast => got[c] \o Append(send[c], Head(broadcastCh))
                      = Append(got[c] \o send[c], Head(broadcastCh))
  BY <1>1, <1>4, StreamAppended
<1>6. QED
  BY <1>2, <1>3, <1>5 DEF Stream

\* A step that only thins the streams and the queue, and publishes nothing.
LEMMA OrderKept ==
  ASSUME OrderInv, Thinned(broadcastCh', broadcastCh), \A m : Older(m) => Older(m)',
         \A c \in Client : Thinned(Stream(c)', Stream(c))
  PROVE  OrderInv'
<1>1. Increasing(broadcastCh') /\ AllOlder(broadcastCh')
  BY ThinnedOrder DEF OrderInv
<1>2. AllOlder(broadcastCh)'
  BY <1>1 DEF AllOlder, Older
<1>3. ASSUME NEW c \in Client
      PROVE  Increasing(Stream(c)') /\ AllOlder(Stream(c))' /\ Before(Stream(c)', broadcastCh')
  <2>1. /\ Increasing(Stream(c)') /\ AllOlder(Stream(c)') /\ Before(Stream(c)', broadcastCh)
    BY ThinnedOrder DEF OrderInv
  <2>2. Before(Stream(c)', broadcastCh')
    BY <2>1, ThinnedOrder
  <2>3. AllOlder(Stream(c))'
    BY <2>1 DEF AllOlder, Older
  <2>4. QED
    BY <2>1, <2>2, <2>3
<1>4. QED
  BY <1>1, <1>2, <1>3 DEF OrderInv

\* Nothing changes for the deltas while the publisher does nothing.
LEMMA OlderKept ==
  ASSUME ver' = ver, pub' = pub
  PROVE  \A m : Older(m) => Older(m)'
BY DEF Older

LEMMA OrderReader ==
  ASSUME TypeOK, OrderInv, NEW c \in Client, ReaderStep(c)
  PROVE  OrderInv'
<1>1. broadcastCh' = broadcastCh /\ ver' = ver /\ pub' = pub
  BY DEF ReaderStep, Subscribe, Unsubscribe, GiveUp, FetchSnapshot, NoSnapshot,
         DeliverSnapshot, SlowSnapshot, SendPanics, ReadError, Unregister, Release, queues,
         publisher
<1>2. CASE ~DeliverSnapshot(c)
  <2>1. \A d \in Client : Stream(d)' = Stream(d)
    BY <1>2, StreamReader
  <2>2. Thinned(broadcastCh', broadcastCh) /\ \A d \in Client : Thinned(Stream(d)', Stream(d))
    BY <1>1, <2>1, ThinnedSame
  <2>3. QED
    BY <1>1, <2>2, OrderKept, OlderKept
<1>3. CASE DeliverSnapshot(c)
  <2> DEFINE m == SnapshotOf(c)
  <2>1. m \in Message /\ m.kind # "delta"
    BY SnapshotType
  <2>2. Stream(c)' = Append(Stream(c), m) /\ \A d \in Client \ {c} : Stream(d)' = Stream(d)
    BY <1>3, StreamReader
  <2>3. Stream(c) \in Seq(Message)
    BY StreamType
  <2> HIDE DEF m
  <2>4. /\ Below(Stream(c), m) /\ Older(m) /\ \A j \in DOMAIN broadcastCh :
                                                Below(<<m>>, broadcastCh[j])
    BY <2>1 DEF Below, Older
  <2>5. /\ Increasing(Stream(c)') /\ AllOlder(Stream(c)') /\ Before(Stream(c)', broadcastCh')
    BY <1>1, <2>1, <2>2, <2>3, <2>4, AppendOrder, AppendElements DEF OrderInv
  <2>6. AllOlder(Stream(c))' /\ AllOlder(broadcastCh)'
    BY <1>1, <2>5 DEF AllOlder, Older, OrderInv
  <2>7. \A d \in Client \ {c} : /\ Increasing(Stream(d)') /\ AllOlder(Stream(d))'
                                /\ Before(Stream(d)', broadcastCh')
    BY <1>1, <2>2 DEF AllOlder, Older, OrderInv
  <2>8. QED
    BY <1>1, <2>5, <2>6, <2>7 DEF OrderInv
<1>4. QED
  BY <1>2, <1>3

LEMMA OrderHub ==
  ASSUME TypeOK, OrderInv, HubStep
  PROVE  OrderInv'
<1>1. ver' = ver /\ pub' = pub
  BY DEF HubStep, HubCase, publisher
<1>2. CASE ~HubBroadcast
  <2>1. broadcastCh' = broadcastCh
    BY <1>2 DEF HubStep, HubCase, HubRegister, HubUnregister, HubSubscribe, HubUnsubscribe,
       HubBroadcastPanics, HubStop, queues
  <2>2. \A d \in Client : Stream(d)' = Stream(d)
    BY <1>2, StreamHub
  <2>3. Thinned(broadcastCh', broadcastCh) /\ \A d \in Client : Thinned(Stream(d)', Stream(d))
    BY <2>1, <2>2, ThinnedSame
  <2>4. QED
    BY <1>1, <2>3, OrderKept, OlderKept
<1>3. CASE HubBroadcast
  <2>1. /\ broadcastCh \in Seq(Delta) /\ broadcastCh # <<>> /\ broadcastCh' = Tail(broadcastCh)
    BY <1>3 DEF HubBroadcast, TypeOK
  <2>2. Thinned(broadcastCh', broadcastCh)
    BY <2>1, ThinnedTail
  <2>3. Increasing(broadcastCh') /\ AllOlder(broadcastCh')
    BY <2>2, ThinnedOrder DEF OrderInv
  <2>4. AllOlder(broadcastCh)'
    BY <1>1, <2>3 DEF AllOlder, Older
  <2>5. ASSUME NEW c \in Client
        PROVE  Increasing(Stream(c)') /\ AllOlder(Stream(c))' /\ Before(Stream(c)', broadcastCh')
    <3> DEFINE m == Head(broadcastCh)
    <3>1. Before(Stream(c), broadcastCh')
      BY <2>2, ThinnedOrder DEF OrderInv
    <3>2. 1 \in DOMAIN broadcastCh /\ m = broadcastCh[1] /\ m \in Delta
      BY <2>1
    <3>3. m \in Message /\ Stream(c) \in Seq(Message)
      BY <3>2, StreamType DEF Message
    <3>4. Below(Stream(c), m) /\ Older(m)
      BY <3>2 DEF OrderInv, Before, AllOlder
    <3>5. \A j \in DOMAIN broadcastCh' : Below(<<m>>, broadcastCh'[j])
      BY <2>1, HeadFirst DEF OrderInv
    <3>6. Stream(c)' = Stream(c) \/ Stream(c)' = Append(Stream(c), m)
      BY StreamHub
    <3> HIDE DEF m
    <3>7. Increasing(Stream(c)) /\ AllOlder(Stream(c))
      BY DEF OrderInv
    <3>8. /\ Increasing(Stream(c)') /\ AllOlder(Stream(c)') /\ Before(Stream(c)', broadcastCh')
      <4>1. CASE Stream(c)' = Stream(c)
        BY <3>1, <3>7, <4>1
      <4>2. CASE Stream(c)' = Append(Stream(c), m)
        BY <3>1, <3>3, <3>4, <3>5, <3>7, <4>2, AppendOrder, AppendElements
      <4>3. QED
        BY <3>6, <4>1, <4>2
    <3>9. AllOlder(Stream(c))'
      BY <1>1, <3>8 DEF AllOlder, Older
    <3>10. QED
      BY <3>8, <3>9
  <2>6. QED
    BY <2>3, <2>4, <2>5 DEF OrderInv
<1>4. QED
  BY <1>2, <1>3

LEMMA OrderPublish ==
  ASSUME TypeOK, OrderInv, Publish
  PROVE  OrderInv'
<1>0. PICK m : m = [kind |-> "delta", ch |-> pub, ver |-> ver[pub]]
  OBVIOUS
<1>1. /\ pub \in Channel /\ pub' = Idle /\ ver' = ver
      /\ broadcastCh' = broadcastCh \/ broadcastCh' = Append(broadcastCh, m)
      /\ \A c \in Client : Stream(c)' = Stream(c)
  BY <1>0 DEF Publish, TypeOK, wire, Stream
<1>2. m \in Delta /\ m \in Message /\ m.kind = "delta" /\ m.ch = pub /\ m.ver = ver[pub]
  BY <1>0, <1>1 DEF TypeOK, Delta, Message
<1>3. broadcastCh \in Seq(Message) /\ \A i \in DOMAIN broadcastCh : broadcastCh[i] \in Message
  BY DEF TypeOK, Message
<1>4. \A c \in Client : \A i \in DOMAIN Stream(c) : Stream(c)[i] \in Message
  BY StreamType
<1>5. ASSUME NEW x \in Message, Older(x)
      PROVE  /\ x.kind = "delta" /\ m.kind = "delta" /\ x.ch = m.ch => x.ver < m.ver
             /\ Older(x)'
  <2>1. x.ch \in Channel
    BY DEF Message, Delta, Snapshot
  <2>2. Idle \notin Channel
    BY ChannelAssumption DEF Idle
  <2>3. QED
    BY <1>1, <1>2, <1>5, <2>1, <2>2 DEF Older
<1>6. Older(m)'
  <2>1. Idle \notin Channel /\ ver[pub] \in Int
    BY <1>1, ChannelAssumption DEF Idle, TypeOK
  <2>2. QED
    BY <1>1, <1>2, <2>1 DEF Older
<1>7. Below(broadcastCh, m)
  BY <1>3, <1>5 DEF Below, OrderInv, AllOlder
<1>8. Increasing(broadcastCh')
  BY <1>1, <1>2, <1>3, <1>7, AppendOrder DEF OrderInv
<1>9. \A i \in DOMAIN broadcastCh' :
        (i \in DOMAIN broadcastCh /\ broadcastCh'[i] = broadcastCh[i]) \/ broadcastCh'[i] = m
  BY <1>1, <1>2, <1>3, AppendIndex
<1>10. AllOlder(broadcastCh)'
  BY <1>3, <1>5, <1>6, <1>9 DEF OrderInv, AllOlder, Older
<1>11. ASSUME NEW c \in Client
       PROVE  Increasing(Stream(c)') /\ AllOlder(Stream(c))' /\ Before(Stream(c)', broadcastCh')
  <2>1. Increasing(Stream(c)) /\ AllOlder(Stream(c)) /\ Before(Stream(c), broadcastCh)
    BY DEF OrderInv
  <2>2. Below(Stream(c), m)
    BY <1>4, <1>5, <2>1 DEF Below, AllOlder
  <2>3. Before(Stream(c), broadcastCh')
    BY <1>9, <2>1, <2>2 DEF Before
  <2>4. AllOlder(Stream(c))'
    BY <1>1, <1>4, <1>5, <2>1 DEF AllOlder, Older
  <2>5. QED
    BY <1>1, <2>1, <2>3, <2>4
<1>12. QED
  BY <1>8, <1>10, <1>11 DEF OrderInv

LEMMA OrderWrite ==
  ASSUME TypeOK, OrderInv, NEW ch \in Channel, WriteState(ch)
  PROVE  OrderInv'
<1>1. /\ pub = Idle /\ pub' = ch /\ ver' = [ver EXCEPT ![ch] = @ + 1]
      /\ broadcastCh' = broadcastCh /\ \A c \in Client : Stream(c)' = Stream(c)
  BY DEF WriteState, queues, wire, Stream
<1>2. ASSUME NEW x \in Message, Older(x) PROVE Older(x)'
  <2>1. /\ x.ch \in Channel /\ x.ver \in Int /\ ver[x.ch] \in Int /\ ver[ch] \in Int
    BY DEF Message, Delta, Snapshot, TypeOK
  <2>2. ver'[x.ch] = IF x.ch = ch THEN ver[x.ch] + 1 ELSE ver[x.ch]
    BY <1>1, <2>1 DEF TypeOK
  <2>3. QED
    BY <1>1, <1>2, <2>1, <2>2 DEF Older
<1>3. \A i \in DOMAIN broadcastCh : broadcastCh[i] \in Message
  BY DEF TypeOK, Message
<1>4. \A c \in Client : \A i \in DOMAIN Stream(c) : Stream(c)[i] \in Message
  BY StreamType
<1>5. AllOlder(broadcastCh)' /\ \A c \in Client : AllOlder(Stream(c))'
  BY <1>1, <1>2, <1>3, <1>4 DEF OrderInv, AllOlder, Older
<1>6. QED
  BY <1>1, <1>5 DEF OrderInv

LEMMA OrderStep == TypeOK /\ OrderInv /\ [Next]_vars => OrderInv'
<1> SUFFICES ASSUME TypeOK, OrderInv, [Next]_vars PROVE OrderInv'
  OBVIOUS
<1>1. CASE \/ \E c \in Client : HandlerStep(c)
           \/ \E c \in Client, op \in {"sub", "unsub"}, ch \in Channel : ReadFrame(c, op, ch)
           \/ \E c \in Client : WriterStep(c)
           \/ \E c \in Client : PeerLost(c)
           \/ Cancel
           \/ UNCHANGED vars
  <2>1. broadcastCh' = broadcastCh /\ ver' = ver /\ pub' = pub
    BY <1>1 DEF HandlerStep, Reject, Reserve, Upgrade, UpgradeFails, Register,
       RegisterAfterStop, ReadFrame, WriterStep, PeerLost, Cancel, vars, queues, publisher
  <2>2. CASE \E c \in Client : WriterStep(c)
    BY <2>1, <2>2, StreamWriter, ThinnedSame, OrderKept, OlderKept
  <2>3. CASE send' = send /\ got' = got
    <3>1. \A c \in Client : Thinned(Stream(c)', Stream(c))
      BY <2>3, ThinnedSame DEF Stream
    <3>2. QED
      BY <2>1, <3>1, ThinnedSame, OrderKept, OlderKept
  <2>4. QED
    BY <1>1, <2>2, <2>3 DEF HandlerStep, Reject, Reserve, Upgrade, UpgradeFails, Register,
       RegisterAfterStop, ReadFrame, PeerLost, Cancel, vars, wire
<1>2. QED
  BY <1>1, NextCases, OrderReader, OrderHub, OrderPublish, OrderWrite

LEMMA OrderInit == Init => OrderInv
<1> SUFFICES ASSUME Init PROVE OrderInv
  OBVIOUS
<1>1. broadcastCh = <<>> /\ \A c \in Client : Stream(c) = <<>>
  BY DEF Init, Stream
<1>2. QED
  BY <1>1 DEF OrderInv, Increasing, AllOlder, Before

\* The deltas of a channel reach a client in the order Publish was called, none twice, though
\* each passes through the broadcast queue, the client's buffer and its write pump, and any
\* of these may be cut short (Hub.Publish, Hub.broadcast, Client.writePump).
THEOREM DeltaOrderHolds == Spec => []DeltaOrder
<1>1. OrderInv => DeltaOrder
  BY DEF OrderInv, Increasing, DeltaOrder
<1>2. QED
  BY <1>1, OrderInit, OrderStep, TypeCorrect, PTL DEF Spec

(***************************************************************************)
(* No gap after a snapshot.                                                *)
(***************************************************************************)
\* A delta that waits in the broadcast queue has all the newer ones of its channel behind it,
\* but for the one in the publisher's hand.
Pending(ch, k) == \/ \E i \in DOMAIN broadcastCh : broadcastCh[i] = DeltaOf(ch, k)
                  \/ pub = ch /\ k = ver[ch]
QueueInv ==
  ~Stopped => \A i \in DOMAIN broadcastCh : LET m == broadcastCh[i] IN
                \A k \in m.ver + 1 .. ver[m.ch] : Pending(m.ch, k)

\* What c has been sent, the snapshot its read pump has fetched and the one it is about to
\* fetch: c is registered before the state is read, and misses nothing announced later.
SentCovered(c, ch) ==
  \A i \in DOMAIN Stream(c) : Stream(c)[i].ch = ch
                                => c \in subs[ch] /\ Covered(c, ch, AsOf(Stream(c)[i]))
HandCovered(c, ch) ==
  /\ rpc[c] = "deliver" /\ rch[c] = ch  => c \in subs[ch] /\ Covered(c, ch, rver[c].newest)
  /\ rpc[c] = "snapshot" /\ rch[c] = ch => c \in subs[ch]

\* The clients NoGap speaks of.
Served(c, ch) == ~Stopped /\ c \notin refused /\ conn[c] # "closed" /\ Keeps(c, ch)

GapInv == \A c \in Client, ch \in Channel :
            Served(c, ch) => SentCovered(c, ch) /\ HandCovered(c, ch)

\* A pump that unsubscribes has read the frame that says so; a connection is opened once,
\* and written to by the pump of a served client.
LinkInv ==
  \A c \in Client : /\ Phase(c) = "unsub" => ~Keeps(c, rch[c])
                    /\ hpc[c] \in {"idle", "reserved"} => conn[c] = "none"
                    /\ writer[c] = "running" => hpc[c] = "served"

StreamInv == AdmissionInv /\ RegistryInv /\ LinkInv /\ OrderInv /\ QueueInv /\ GapInv

(***************************************************************************)
(* LinkInv, and that nobody becomes a client NoGap speaks of.              *)
(***************************************************************************)
LEMMA KeepsBefore ==
  ASSUME NEW c \in Client, asked[c] \in Seq(Frame), NEW f \in Frame,
         asked'[c] = Append(asked[c], f), NEW ch \in Channel
  PROVE  /\ Keeps(c, ch)' => Keeps(c, ch)
         /\ f = [op |-> "unsub", ch |-> ch] => ~Keeps(c, ch)'
<1>1. /\ \A i \in DOMAIN asked[c] : i \in DOMAIN asked'[c] /\ asked'[c][i] = asked[c][i]
      /\ Len(asked[c]) + 1 \in DOMAIN asked'[c] /\ asked'[c][Len(asked[c]) + 1] = f
  OBVIOUS
<1>2. QED
  BY <1>1 DEF Keeps

LEMMA KeepsSame == asked' = asked => \A c, ch : Keeps(c, ch)' <=> Keeps(c, ch)
BY DEF Keeps

LEMMA StoppedStays == [Next]_vars /\ Stopped => Stopped'
BY NextCases DEF HandlerStep, Reject, Reserve, Upgrade, UpgradeFails, Register,
   RegisterAfterStop, ReaderStep, Subscribe, Unsubscribe, GiveUp, FetchSnapshot, NoSnapshot,
   DeliverSnapshot, SlowSnapshot, SendPanics, ReadError, Unregister, Release, ReadFrame,
   WriterStep, PeerLost, Cancel, WriteState, Publish, HubStep, HubCase, vars, Stopped

\* Nothing is reopened, forgotten or restarted.
LEMMA ServedBefore ==
  ASSUME TypeOK, PumpInv, LinkInv, [Next]_vars, NEW c \in Client, NEW ch \in Channel,
         Served(c, ch)'
  PROVE  Served(c, ch)
<1>1. Stopped => Stopped'
  BY StoppedStays
<1>2. refused \subseteq refused'
  BY NextCases DEF HandlerStep, Reject, Reserve, Upgrade, UpgradeFails, Register,
     RegisterAfterStop, ReaderStep, Subscribe, Unsubscribe, GiveUp, FetchSnapshot, NoSnapshot,
     DeliverSnapshot, SlowSnapshot, SendPanics, ReadError, Unregister, Release, ReadFrame,
     WriterStep, PeerLost, Cancel, WriteState, Publish, HubStep, HubCase, HubRegister,
     HubUnregister, HubSubscribe, HubUnsubscribe, HubBroadcast, HubBroadcastPanics, HubStop,
     vars
<1>3. conn[c] = "closed" => conn'[c] = "closed"
  <2>1. ASSUME NEW d \in Client, HandlerStep(d) PROVE conn[c] = "closed" => conn'[c] = "closed"
    BY <2>1 DEF HandlerStep, Reject, Reserve, Upgrade, UpgradeFails, Register,
       RegisterAfterStop, wire, LinkInv, TypeOK
  <2>2. ASSUME NEW d \in Client, ReaderStep(d) PROVE conn[c] = "closed" => conn'[c] = "closed"
    BY <2>2 DEF ReaderStep, Subscribe, Unsubscribe, GiveUp, FetchSnapshot, NoSnapshot,
       DeliverSnapshot, SlowSnapshot, SendPanics, ReadError, Unregister, Release, wire, TypeOK
  <2>3. HubStep => (conn[c] = "closed" => conn'[c] = "closed")
    BY DEF HubStep, HubCase, HubRegister, HubUnregister, HubSubscribe, HubUnsubscribe,
       HubBroadcast, HubBroadcastPanics, HubStop, RemoveClients, wire
  <2>4. ASSUME NEW d \in Client, WriterStep(d) \/ PeerLost(d)
        PROVE  conn[c] = "closed" => conn'[c] = "closed"
    BY <2>4 DEF WriterStep, WriteMessage, WriteFails, SendClosed, PeerLost, TypeOK
  <2>5. CASE conn' = conn
    BY <2>5
  <2>6. QED
    BY <2>1, <2>2, <2>3, <2>4, <2>5, NextCases DEF ReadFrame, Cancel, WriteState, Publish, vars,
       wire
<1>4. Keeps(c, ch)' => Keeps(c, ch)
  <2>1. CASE asked' = asked
    BY <2>1, KeepsSame
  <2>2. ASSUME NEW d \in Client, NEW op \in {"sub", "unsub"}, NEW x \in Channel,
               ReadFrame(d, op, x)
        PROVE  Keeps(c, ch)' => Keeps(c, ch)
    <3>1. asked[c] \in Seq(Frame) /\ [op |-> op, ch |-> x] \in Frame
      BY DEF TypeOK, Frame
    <3>2. asked'[c] = asked[c] \/ asked'[c] = Append(asked[c], [op |-> op, ch |-> x])
      BY <2>2 DEF ReadFrame, TypeOK
    <3>3. CASE asked'[c] = asked[c]
      BY <3>3 DEF Keeps
    <3>4. QED
      BY <3>1, <3>2, <3>3, KeepsBefore
  <2>3. QED
    BY <2>1, <2>2, NextCases DEF HandlerStep, Reject, Reserve, Upgrade, UpgradeFails, Register,
     RegisterAfterStop, ReaderStep, Subscribe, Unsubscribe, GiveUp, FetchSnapshot, NoSnapshot,
     DeliverSnapshot, SlowSnapshot, SendPanics, ReadError, Unregister, Release,
     WriterStep, PeerLost, Cancel, WriteState, Publish, HubStep, HubCase, HubRegister,
     HubUnregister, HubSubscribe, HubUnsubscribe, HubBroadcast, HubBroadcastPanics, HubStop,
     reader, vars
<1>5. QED
  BY <1>1, <1>2, <1>3, <1>4 DEF Served

(***************************************************************************)
(* QueueInv.                                                               *)
(***************************************************************************)
LEMMA QueueBroadcast ==
  ASSUME TypeOK, OrderInv, QueueInv, HubStep, HubBroadcast
  PROVE  QueueInv'
<1>1. /\ broadcastCh \in Seq(Delta) /\ broadcastCh # <<>> /\ broadcastCh' = Tail(broadcastCh)
      /\ ver' = ver /\ pub' = pub /\ ~Stopped
  BY DEF HubBroadcast, HubStep, HubCase, publisher, TypeOK
<1>2. \A i \in DOMAIN broadcastCh : i # 1 => /\ i - 1 \in DOMAIN broadcastCh'
                                             /\ broadcastCh'[i - 1] = broadcastCh[i]
  BY <1>1
<1>3. ASSUME NEW i \in DOMAIN broadcastCh', NEW m, m = broadcastCh'[i],
             NEW k \in m.ver + 1 .. ver[m.ch]
      PROVE  Pending(m.ch, k)'
  <2>1. i + 1 \in DOMAIN broadcastCh /\ m = broadcastCh[i + 1] /\ m \in Delta /\ i \in Nat
        /\ 1 \in DOMAIN broadcastCh /\ 1 < i + 1
    BY <1>1, <1>3
  <2>2. Pending(m.ch, k)
    BY <1>1, <1>3, <2>1 DEF QueueInv
  <2>3. DeltaOf(m.ch, k).kind = "delta" /\ DeltaOf(m.ch, k).ch = m.ch /\ DeltaOf(m.ch, k).ver = k
        /\ m.kind = "delta" /\ m.ver \in Int
    BY <2>1 DEF DeltaOf, Delta
  <2>4. broadcastCh[1] # DeltaOf(m.ch, k)
    <3>1. SUFFICES ASSUME broadcastCh[1] = DeltaOf(m.ch, k) PROVE FALSE
      OBVIOUS
    <3>2. k < m.ver
      BY <2>1, <2>3, <3>1 DEF OrderInv, Increasing
    <3>3. QED
      BY <1>3, <2>3, <3>2
  <2>5. QED
    BY <1>1, <1>2, <2>2, <2>4 DEF Pending, DeltaOf
<1>4. QED
  BY <1>1, <1>3 DEF QueueInv

LEMMA QueuePublish ==
  ASSUME TypeOK, QueueInv, ~Stopped, Publish
  PROVE  QueueInv'
<1>0. PICK m : m = DeltaOf(pub, ver[pub])
  OBVIOUS
<1>1. /\ broadcastCh' = Append(broadcastCh, m) /\ broadcastCh \in Seq(Delta) /\ ver' = ver
      /\ pub \in Channel /\ ver[pub] \in 0..MaxPublish
  BY <1>0 DEF Publish, TypeOK, DeltaOf
<1>2. m \in Delta /\ m.ch = pub /\ m.ver = ver[pub]
  BY <1>0, <1>1 DEF Delta, DeltaOf
<1>3. /\ \A i \in DOMAIN broadcastCh : i \in DOMAIN broadcastCh' /\ broadcastCh'[i] = broadcastCh[i]
      /\ \E i \in DOMAIN broadcastCh' : broadcastCh'[i] = m
      /\ \A i \in DOMAIN broadcastCh' :
           (i \in DOMAIN broadcastCh /\ broadcastCh'[i] = broadcastCh[i]) \/ broadcastCh'[i] = m
  <2>1. Len(broadcastCh) + 1 \in DOMAIN Append(broadcastCh, m)
        /\ Append(broadcastCh, m)[Len(broadcastCh) + 1] = m
    BY <1>1, <1>2
  <2>2. QED
    BY <1>1, <1>2, <2>1, AppendIndex
<1>4. ASSUME NEW ch, NEW k, Pending(ch, k) PROVE Pending(ch, k)'
  <2>1. CASE \E i \in DOMAIN broadcastCh : broadcastCh[i] = DeltaOf(ch, k)
    BY <1>3, <2>1 DEF Pending, DeltaOf
  <2>2. CASE pub = ch /\ k = ver[ch]
    BY <1>0, <1>3, <2>2 DEF Pending, DeltaOf
  <2>3. QED
    BY <1>4, <2>1, <2>2 DEF Pending
<1>5. ASSUME NEW i \in DOMAIN broadcastCh', NEW x, x = broadcastCh'[i],
             NEW k \in x.ver + 1 .. ver[x.ch]
      PROVE  Pending(x.ch, k)'
  <2>1. CASE x = m
    BY <1>1, <1>2, <1>5, <2>1
  <2>2. CASE x # m
    BY <1>3, <1>4, <1>5, <2>2 DEF QueueInv
  <2>3. QED
    BY <2>1, <2>2
<1>6. QED
  BY <1>1, <1>5 DEF QueueInv

LEMMA QueueWrite ==
  ASSUME TypeOK, QueueInv, ~Stopped, NEW x \in Channel, WriteState(x)
  PROVE  QueueInv'
<1>1. /\ pub = Idle /\ pub' = x /\ broadcastCh' = broadcastCh
      /\ ver' = [ver EXCEPT ![x] = @ + 1] /\ ver \in [Channel -> 0..MaxPublish]
      /\ broadcastCh \in Seq(Delta)
  BY DEF WriteState, queues, TypeOK
<1>2. ASSUME NEW i \in DOMAIN broadcastCh, NEW m, m = broadcastCh[i],
             NEW k \in m.ver + 1 .. ver'[m.ch]
      PROVE  Pending(m.ch, k)'
  <2>0. m \in Delta
    BY <1>1, <1>2
  <2>1. m \in Delta /\ m.ch \in Channel /\ pub # m.ch
    BY <1>1, <2>0, ChannelAssumption DEF Delta, Idle
  <2>2. CASE k \in m.ver + 1 .. ver[m.ch]
    BY <1>1, <1>2, <2>1, <2>2 DEF QueueInv, Pending, DeltaOf
  <2>3. CASE k \notin m.ver + 1 .. ver[m.ch]
    <3>1. m.ch = x /\ k = ver'[m.ch]
      BY <1>1, <1>2, <2>1, <2>3 DEF Delta
    <3>2. QED
      BY <1>1, <3>1 DEF Pending
  <2>4. QED
    BY <2>2, <2>3
<1>3. QED
  BY <1>1, <1>2 DEF QueueInv

LEMMA QueueStep == TypeOK /\ OrderInv /\ QueueInv /\ [Next]_vars => QueueInv'
<1> SUFFICES ASSUME TypeOK, OrderInv, QueueInv, [Next]_vars, ~Stopped PROVE QueueInv'
  BY StoppedStays DEF QueueInv
<1>1. CASE broadcastCh' = broadcastCh /\ ver' = ver /\ pub' = pub
  BY <1>1 DEF QueueInv, Pending, DeltaOf
<1>2. CASE HubStep
  <2>1. CASE HubBroadcast
    BY <1>2, <2>1, QueueBroadcast
  <2>2. CASE ~HubBroadcast
    BY <1>1, <1>2, <2>2 DEF HubStep, HubCase, HubRegister, HubUnregister, HubSubscribe,
       HubUnsubscribe, HubBroadcastPanics, HubStop, queues, publisher
  <2>3. QED
    BY <2>1, <2>2
<1>3. CASE \E c \in Client : ReaderStep(c)
  BY <1>1, <1>3 DEF ReaderStep, Subscribe, Unsubscribe, GiveUp, FetchSnapshot, NoSnapshot,
     DeliverSnapshot, SlowSnapshot, SendPanics, ReadError, Unregister, Release, queues,
     publisher
<1>4. CASE \/ \E c \in Client : HandlerStep(c)
           \/ \E c \in Client, op \in {"sub", "unsub"}, ch \in Channel : ReadFrame(c, op, ch)
           \/ \E c \in Client : WriterStep(c)
           \/ \E c \in Client : PeerLost(c)
           \/ Cancel
           \/ UNCHANGED vars
  BY <1>1, <1>4 DEF HandlerStep, Reject, Reserve, Upgrade, UpgradeFails, Register,
     RegisterAfterStop, ReadFrame, WriterStep, PeerLost, Cancel, vars, queues, publisher
<1>5. QED
  BY <1>2, <1>3, <1>4, NextCases, QueuePublish, QueueWrite

LEMMA LinkHandler ==
  ASSUME TypeOK, PumpInv, LinkInv, NEW c \in Client, HandlerStep(c)
  PROVE  LinkInv'
<1>1. asked' = asked /\ rch' = rch /\ rpc[c] = "off" /\ \A d \in Client : Phase(d)' = Phase(d)
  BY DEF HandlerStep, Reject, Reserve, Upgrade, UpgradeFails, Register, RegisterAfterStop,
     reader, Phase, TypeOK, PumpInv
<1>2. \A d \in Client : /\ hpc'[d] \in {"idle", "reserved"} => conn'[d] = "none"
                        /\ writer'[d] = "running" => hpc'[d] = "served"
  BY DEF HandlerStep, Reject, Reserve, Upgrade, UpgradeFails, Register, RegisterAfterStop,
     wire, LinkInv, TypeOK
<1>3. \A d \in Client : Keeps(d, rch[d])' <=> Keeps(d, rch[d])
  BY <1>1 DEF Keeps
<1>4. QED
  BY <1>1, <1>2, <1>3 DEF LinkInv

LEMMA LinkReader ==
  ASSUME TypeOK, PumpInv, LinkInv, NEW c \in Client, ReaderStep(c)
  PROVE  LinkInv'
<1>1. asked' = asked /\ hpc' = hpc /\ writer' = writer
  BY DEF ReaderStep, Subscribe, Unsubscribe, GiveUp, FetchSnapshot, NoSnapshot,
     DeliverSnapshot, SlowSnapshot, SendPanics, ReadError, Unregister, Release, reader, wire
<1>2. \A d \in Client : conn'[d] = conn[d] \/ hpc[d] = "served"
  BY DEF ReaderStep, Subscribe, Unsubscribe, GiveUp, FetchSnapshot, NoSnapshot,
     DeliverSnapshot, SlowSnapshot, SendPanics, ReadError, Unregister, Release, wire, TypeOK,
     PumpInv
<1>3. \A d \in Client : Phase(d)' = "unsub" => Phase(d) = "unsub" /\ rch'[d] = rch[d]
  BY DEF ReaderStep, Subscribe, Unsubscribe, GiveUp, FetchSnapshot, NoSnapshot,
     DeliverSnapshot, SlowSnapshot, SendPanics, ReadError, Unregister, Release, BackToRead,
     reader, TypeOK, Phase
<1>4. ASSUME NEW d \in Client, Phase(d)' = "unsub" PROVE ~Keeps(d, rch[d])'
  BY <1>1, <1>3, <1>4 DEF LinkInv, Keeps
<1>5. QED
  BY <1>1, <1>2, <1>4 DEF LinkInv

LEMMA LinkFrame ==
  ASSUME TypeOK, LinkInv, NEW c \in Client, NEW op \in {"sub", "unsub"}, NEW ch \in Channel,
         ReadFrame(c, op, ch)
  PROVE  LinkInv'
<1>1. /\ hpc' = hpc /\ writer' = writer /\ conn' = conn
      /\ rpc'[c] = op /\ rch'[c] = ch /\ asked'[c] = Append(asked[c], [op |-> op, ch |-> ch])
      /\ \A d \in Client \ {c} : rpc'[d] = rpc[d] /\ rch'[d] = rch[d] /\ asked'[d] = asked[d]
  BY DEF ReadFrame, wire, TypeOK
<1>2. asked[c] \in Seq(Frame) /\ [op |-> op, ch |-> ch] \in Frame
  BY DEF TypeOK, Frame
<1>3. op = "unsub" => ~Keeps(c, ch)'
  BY <1>1, <1>2, KeepsBefore
<1>4. Phase(c)' = "unsub" => ~Keeps(c, rch[c])'
  BY <1>1, <1>3 DEF Phase, Keeps
<1>5. ASSUME NEW d \in Client \ {c}, Phase(d)' = "unsub" PROVE ~Keeps(d, rch[d])'
  BY <1>1, <1>5 DEF LinkInv, Keeps, Phase
<1>6. QED
  BY <1>1, <1>4, <1>5 DEF LinkInv

LEMMA LinkHub ==
  ASSUME TypeOK, PumpInv, RegistryInv, LinkInv, HubStep
  PROVE  LinkInv'
<1>1. asked' = asked /\ hpc' = hpc /\ writer' = writer
  BY DEF HubStep, HubCase, HubRegister, HubUnregister, HubSubscribe, HubUnsubscribe,
     HubBroadcast, HubBroadcastPanics, HubStop, reader, wire
<1>2. \A d \in Client : conn'[d] = conn[d] \/ hpc[d] = "served"
  BY DEF HubStep, HubCase, HubRegister, HubUnregister, HubSubscribe, HubUnsubscribe,
     HubBroadcast, HubBroadcastPanics, HubStop, RemoveClients, Registered, wire, RegistryInv
<1>3. \A d \in Client : Phase(d)' = "unsub" => Phase(d) = "unsub" /\ rch'[d] = rch[d]
  BY DEF HubStep, HubCase, HubRegister, HubUnregister, HubSubscribe, HubUnsubscribe,
     HubBroadcast, HubBroadcastPanics, HubStop, reader, TypeOK, Phase
<1>4. ASSUME NEW d \in Client, Phase(d)' = "unsub" PROVE ~Keeps(d, rch[d])'
  BY <1>1, <1>3, <1>4 DEF LinkInv, Keeps
<1>5. QED
  BY <1>1, <1>2, <1>4 DEF LinkInv

LEMMA LinkStep == AdmissionInv /\ RegistryInv /\ LinkInv /\ [Next]_vars => LinkInv'
<1> SUFFICES ASSUME TypeOK, PumpInv, RegistryInv, LinkInv, [Next]_vars PROVE LinkInv'
  BY DEF AdmissionInv
<1>1. CASE \/ \E c \in Client : WriterStep(c)
           \/ \E c \in Client : PeerLost(c)
           \/ Cancel
           \/ \E ch \in Channel : WriteState(ch)
           \/ Publish
           \/ UNCHANGED vars
  <2>1. asked' = asked /\ rpc' = rpc /\ rch' = rch /\ hpc' = hpc
    BY <1>1 DEF WriterStep, PeerLost, Cancel, WriteState, Publish, vars, reader
  <2>2. \A d \in Client : conn'[d] = conn[d] \/ hpc[d] = "served" \/ conn[d] = "open"
    BY <1>1 DEF WriterStep, WriteMessage, WriteFails, SendClosed, PeerLost, Cancel, WriteState,
       Publish, vars, wire, TypeOK, LinkInv
  <2>3. \A d \in Client : writer'[d] = "running" => writer[d] = "running"
    BY <1>1 DEF WriterStep, WriteMessage, WriteFails, SendClosed, PeerLost, Cancel, WriteState,
       Publish, vars, wire, TypeOK
  <2>4. \A d \in Client : Phase(d)' = Phase(d) /\ (Keeps(d, rch[d])' <=> Keeps(d, rch[d]))
    BY <2>1 DEF Phase, Keeps
  <2>5. QED
    BY <2>1, <2>2, <2>3, <2>4 DEF LinkInv
<1>2. QED
  BY <1>1, NextCases, LinkHandler, LinkReader, LinkFrame, LinkHub

(***************************************************************************)
(* GapInv, one kind of step at a time.                                     *)
(***************************************************************************)
\* While the state behind ch stays, what is found stays found.
LEMMA CoveredKept ==
  ASSUME NEW c \in Client, NEW ch \in Channel, ver'[ch] = ver[ch],
         \A k : Found(c, ch, k) => Found(c, ch, k)'
  PROVE  \A v : Covered(c, ch, v) => Covered(c, ch, v)'
BY DEF Covered

\* The stream, and the subscription, of a client that keeps both.
LEMMA SentKept ==
  ASSUME NEW c \in Client, NEW ch \in Channel, SentCovered(c, ch), Stream(c)' = Stream(c),
         c \in subs[ch] => c \in subs'[ch],
         c \in subs[ch] => \A v : Covered(c, ch, v) => Covered(c, ch, v)'
  PROVE  SentCovered(c, ch)'
<1>1. ASSUME NEW i \in DOMAIN Stream(c), Stream(c)[i].ch = ch, NEW v, v = AsOf(Stream(c)[i])
      PROVE  c \in subs'[ch] /\ Covered(c, ch, v)'
  BY <1>1 DEF SentCovered
<1>2. QED
  BY <1>1 DEF SentCovered, Covered, AsOf

LEMMA HandKept ==
  ASSUME NEW c \in Client, NEW ch \in Channel, HandCovered(c, ch),
         rpc'[c] \in {"snapshot", "deliver"}
           => rpc'[c] = rpc[c] /\ rch'[c] = rch[c] /\ rver'[c] = rver[c],
         c \in subs[ch] => c \in subs'[ch],
         c \in subs[ch] => \A v : Covered(c, ch, v) => Covered(c, ch, v)'
  PROVE  HandCovered(c, ch)'
<1>1. ASSUME NEW v, Covered(c, ch, v), c \in subs[ch] PROVE Covered(c, ch, v)'
  BY <1>1
<1>2. rpc[c] = "deliver" /\ rch[c] = ch => c \in subs[ch] /\ Covered(c, ch, rver[c].newest)
  BY DEF HandCovered
<1>3. ASSUME rpc'[c] = "deliver", rch'[c] = ch, NEW v, v = rver[c].newest
      PROVE  c \in subs'[ch] /\ Covered(c, ch, v)'
  BY <1>1, <1>2, <1>3
<1>4. QED
  BY <1>3 DEF HandCovered, Covered

\* A step that touches neither streams, queue nor publisher.
LEMMA FoundSame ==
  ASSUME NEW c \in Client, Stream(c)' = Stream(c), broadcastCh' = broadcastCh, ver' = ver,
         pub' = pub
  PROVE  \A ch, k : Found(c, ch, k) => Found(c, ch, k)'
BY DEF Found

\* A step that adds to the stream or the queue of c.
LEMMA FoundMore ==
  ASSUME NEW c \in Client, ver' = ver, pub' = pub,
         \A i \in DOMAIN Stream(c) : i \in DOMAIN Stream(c)' /\ Stream(c)'[i] = Stream(c)[i],
         \A i \in DOMAIN broadcastCh : i \in DOMAIN broadcastCh'
                                       /\ broadcastCh'[i] = broadcastCh[i]
  PROVE  \A ch, k : Found(c, ch, k) => Found(c, ch, k)'
<1>1. ASSUME NEW m, NEW i \in DOMAIN Stream(c), Stream(c)[i] = m
      PROVE  \E j \in DOMAIN Stream(c)' : Stream(c)'[j] = m
  BY <1>1
<1>2. ASSUME NEW m, NEW i \in DOMAIN broadcastCh, broadcastCh[i] = m
      PROVE  \E j \in DOMAIN broadcastCh' : broadcastCh'[j] = m
  BY <1>2
<1>3. QED
  BY <1>1, <1>2 DEF Found, DeltaOf

\* A step that leaves what c has been sent alone, and puts no snapshot in its hand.
LEMMA GapKept ==
  ASSUME NEW c \in Client, NEW ch \in Channel, SentCovered(c, ch), HandCovered(c, ch),
         Stream(c)' = Stream(c), broadcastCh' = broadcastCh, ver' = ver, pub' = pub,
         c \in subs[ch] => c \in subs'[ch],
         rpc'[c] \in {"snapshot", "deliver"}
           => rpc'[c] = rpc[c] /\ rch'[c] = rch[c] /\ rver'[c] = rver[c]
  PROVE  SentCovered(c, ch)' /\ HandCovered(c, ch)'
<1>1. \A v : Covered(c, ch, v) => Covered(c, ch, v)'
  BY FoundSame, CoveredKept
<1>2. QED
  BY <1>1, SentKept, HandKept

\* The read pump: the subscription is in place before the state is read, so the snapshot
\* misses nothing; sent, it is covered by what covered it in the pump's hand.
LEMMA GapFetch ==
  ASSUME TypeOK, NEW c \in Client, NEW ch \in Channel, SentCovered(c, ch), HandCovered(c, ch),
         FetchSnapshot(c)
  PROVE  SentCovered(c, ch)' /\ HandCovered(c, ch)'
<1>1. /\ Stream(c)' = Stream(c) /\ broadcastCh' = broadcastCh /\ ver' = ver /\ pub' = pub
      /\ subs' = subs /\ rpc[c] = "snapshot" /\ rpc'[c] = "deliver" /\ rch' = rch
      /\ rver'[c].newest = ver[rch[c]]
  BY DEF FetchSnapshot, Stream, registry, queues, wire, publisher, TypeOK
<1>2. SentCovered(c, ch)'
  BY <1>1, FoundSame, CoveredKept, SentKept
<1>3. rch[c] = ch => c \in subs[ch]
  BY <1>1 DEF HandCovered
<1>4. ver[ch] \in Int
  BY DEF TypeOK
<1>5. rch[c] = ch => Covered(c, ch, rver[c].newest)'
  BY <1>1, <1>4 DEF Covered
<1>6. HandCovered(c, ch)'
  BY <1>1, <1>3, <1>5 DEF HandCovered
<1>7. QED
  BY <1>2, <1>6

LEMMA GapDeliver ==
  ASSUME TypeOK, NEW c \in Client, NEW ch \in Channel, SentCovered(c, ch), HandCovered(c, ch),
         ReaderStep(c), DeliverSnapshot(c)
  PROVE  SentCovered(c, ch)' /\ HandCovered(c, ch)'
<1>0. PICK m : m = SnapshotOf(c)
  OBVIOUS
<1>1. /\ broadcastCh' = broadcastCh /\ ver' = ver /\ pub' = pub /\ subs' = subs
      /\ rpc[c] = "deliver" /\ rpc'[c] = "read"
  BY DEF DeliverSnapshot, BackToRead, registry, queues, publisher, TypeOK
<1>2. Stream(c)' = Append(Stream(c), m) /\ Stream(c) \in Seq(Message)
  BY <1>0, StreamReader, StreamType
<1>3. m \in Message /\ m.ch = rch[c] /\ AsOf(m) = rver[c].newest
  BY <1>0, SnapshotType DEF AsOf
<1>4. /\ \A i \in DOMAIN Stream(c) : i \in DOMAIN Stream(c)' /\ Stream(c)'[i] = Stream(c)[i]
      /\ \A i \in DOMAIN Stream(c)' :
           (i \in DOMAIN Stream(c) /\ Stream(c)'[i] = Stream(c)[i]) \/ Stream(c)'[i] = m
  BY <1>2, <1>3, AppendIndex
<1>5. \A v : Covered(c, ch, v) => Covered(c, ch, v)'
  BY <1>1, <1>4, FoundMore, CoveredKept
<1>6. m.ch = ch => c \in subs[ch] /\ Covered(c, ch, AsOf(m))
  BY <1>1, <1>3 DEF HandCovered
<1>7. ASSUME NEW i \in DOMAIN Stream(c)', Stream(c)'[i].ch = ch,
             NEW v, v = AsOf(Stream(c)'[i])
      PROVE  c \in subs'[ch] /\ Covered(c, ch, v)'
  <2>1. c \in subs[ch] /\ Covered(c, ch, v)
    BY <1>4, <1>6, <1>7 DEF SentCovered
  <2>2. QED
    BY <1>1, <1>5, <2>1
<1>8. SentCovered(c, ch)'
  BY <1>7 DEF SentCovered, Covered, AsOf
<1>9. HandCovered(c, ch)'
  BY <1>1 DEF HandCovered
<1>10. QED
  BY <1>8, <1>9

LEMMA GapReader ==
  ASSUME TypeOK, NEW c \in Client, NEW ch \in Channel, SentCovered(c, ch), HandCovered(c, ch),
         NEW d \in Client, ReaderStep(d)
  PROVE  SentCovered(c, ch)' /\ HandCovered(c, ch)'
<1>1. CASE d = c /\ (FetchSnapshot(c) \/ DeliverSnapshot(c))
  BY <1>1, GapFetch, GapDeliver
<1>2. CASE ~(d = c /\ (FetchSnapshot(c) \/ DeliverSnapshot(c)))
  <2>1. broadcastCh' = broadcastCh /\ ver' = ver /\ pub' = pub /\ subs' = subs
    BY DEF ReaderStep, Subscribe, Unsubscribe, GiveUp, FetchSnapshot, NoSnapshot,
       DeliverSnapshot, SlowSnapshot, SendPanics, ReadError, Unregister, Release, registry,
       queues, publisher
  <2>2. Stream(c)' = Stream(c)
    BY <1>2, StreamReader
  <2>3. rpc'[c] \in {"snapshot", "deliver"}
          => rpc'[c] = rpc[c] /\ rch'[c] = rch[c] /\ rver'[c] = rver[c]
    BY <1>2 DEF ReaderStep, Subscribe, Unsubscribe, GiveUp, FetchSnapshot, NoSnapshot,
       DeliverSnapshot, SlowSnapshot, SendPanics, ReadError, Unregister, Release, BackToRead,
       reader, TypeOK
  <2>4. QED
    BY <2>1, <2>2, <2>3, GapKept
<1>3. QED
  BY <1>1, <1>2

\* Hub.broadcast: the delta leaves the queue for the stream of every subscriber that is not
\* closed, or refused.
LEMMA GapBroadcast ==
  ASSUME TypeOK, NEW c \in Client, NEW ch \in Channel, SentCovered(c, ch), HandCovered(c, ch),
         OrderInv, QueueInv, HubStep, HubBroadcast, Served(c, ch)'
  PROVE  SentCovered(c, ch)' /\ HandCovered(c, ch)'
<1>0. PICK m : m = Head(broadcastCh)
  OBVIOUS
<1>1. /\ broadcastCh \in Seq(Delta) /\ broadcastCh # <<>> /\ broadcastCh' = Tail(broadcastCh)
      /\ ver' = ver /\ pub' = pub /\ rpc' = rpc /\ rch' = rch /\ rver' = rver
  BY DEF HubBroadcast, HubStep, HubCase, publisher, reader, TypeOK
<1>2. /\ c \notin refused' /\ conn'[c] # "closed"
  BY DEF Served
<1>3. ~(c \in subs[m.ch] /\ ~HasRoom(c))
  BY <1>0, <1>2 DEF HubBroadcast, RemoveClients, Registered
<1>4. c \in subs[ch] => c \in subs'[ch]
  BY <1>0, <1>2, <1>3 DEF HubBroadcast, RemoveClients, Registered
<1>5. m \in Delta /\ m \in Message
  BY <1>0, <1>1 DEF Message
<1>6. got[c] \in Seq(Message) /\ send[c] \in Seq(Message) /\ Stream(c) \in Seq(Message)
  BY StreamType
<1>7. c \in subs[m.ch] => Stream(c)' = Append(Stream(c), m)
  <2>1. got' = got /\ (c \in subs[m.ch] => send'[c] = Append(send[c], m))
    BY <1>0, <1>3 DEF HubBroadcast
  <2>2. QED
    BY <1>5, <1>6, <2>1, StreamAppended DEF Stream
<1>8. Stream(c)' = Stream(c) \/ Stream(c)' = Append(Stream(c), m)
  BY <1>0, StreamHub
<1>9. \A i \in DOMAIN Stream(c) : i \in DOMAIN Stream(c)' /\ Stream(c)'[i] = Stream(c)[i]
  BY <1>5, <1>6, <1>8
<1>10. \A i \in DOMAIN Stream(c)' :
         (i \in DOMAIN Stream(c) /\ Stream(c)'[i] = Stream(c)[i]) \/ Stream(c)'[i] = m
  BY <1>5, <1>6, <1>8, AppendIndex
<1>11. c \in subs[m.ch] => \E i \in DOMAIN Stream(c)' : Stream(c)'[i] = m
  <2>1. Len(Stream(c)) + 1 \in DOMAIN Append(Stream(c), m)
        /\ Append(Stream(c), m)[Len(Stream(c)) + 1] = m
    BY <1>5, <1>6
  <2>2. QED
    BY <1>7, <2>1
<1>12. \A i \in DOMAIN broadcastCh :
         broadcastCh[i] = m \/ \E j \in DOMAIN broadcastCh' : broadcastCh'[j] = broadcastCh[i]
  <2>1. ASSUME NEW i \in DOMAIN broadcastCh
        PROVE  i = 1 \/ (i - 1 \in DOMAIN broadcastCh' /\ broadcastCh'[i - 1] = broadcastCh[i])
    BY <1>1
  <2>2. broadcastCh[1] = m
    BY <1>0, <1>1
  <2>3. QED
    BY <2>1, <2>2
<1>13. ASSUME NEW k, c \in subs[ch], Found(c, ch, k) PROVE Found(c, ch, k)'
  <2>1. DeltaOf(ch, k).ch = ch /\ DeltaOf(ch, k)' = DeltaOf(ch, k)
    BY DEF DeltaOf
  <2>2. CASE \E i \in DOMAIN Stream(c) : Stream(c)[i] = DeltaOf(ch, k)
    BY <1>9, <2>2 DEF Found, DeltaOf
  <2>3. CASE \E i \in DOMAIN broadcastCh : broadcastCh[i] = DeltaOf(ch, k)
    <3>1. CASE m = DeltaOf(ch, k)
      BY <1>11, <1>13, <2>1, <3>1 DEF Found, DeltaOf
    <3>2. CASE m # DeltaOf(ch, k)
      BY <1>12, <2>3, <3>2 DEF Found, DeltaOf
    <3>3. QED
      BY <3>1, <3>2
  <2>4. CASE pub = ch /\ k = ver[ch]
    BY <1>1, <2>4 DEF Found
  <2>5. QED
    BY <1>13, <2>2, <2>3, <2>4 DEF Found
<1>14. c \in subs[ch] => \A v : Covered(c, ch, v) => Covered(c, ch, v)'
  BY <1>1, <1>13, CoveredKept
<1>15. ASSUME m.ch = ch PROVE Covered(c, ch, AsOf(m))
  <2>1. AsOf(m) = m.ver
    BY <1>5 DEF Delta, AsOf
  <2>2. 1 \in DOMAIN broadcastCh /\ broadcastCh[1] = m /\ ~Stopped
    BY <1>0, <1>1 DEF HubStep, HubCase
  <2>3. \A k \in m.ver + 1 .. ver[ch] : Pending(ch, k)
    BY <1>15, <2>2 DEF QueueInv
  <2>4. QED
    BY <2>1, <2>3 DEF Covered, Found, Pending
<1>16. ASSUME NEW i \in DOMAIN Stream(c)', Stream(c)'[i].ch = ch,
              NEW v, v = AsOf(Stream(c)'[i])
       PROVE  c \in subs'[ch] /\ Covered(c, ch, v)'
  <2>1. CASE i \in DOMAIN Stream(c) /\ Stream(c)'[i] = Stream(c)[i]
    BY <1>4, <1>14, <1>16, <2>1 DEF SentCovered
  <2>2. CASE ~(i \in DOMAIN Stream(c) /\ Stream(c)'[i] = Stream(c)[i])
    <3>1. Stream(c)'[i] = m /\ Stream(c)' # Stream(c)
      BY <1>10, <1>16, <2>2
    <3>2. c \in subs[ch]
      BY <1>0, <1>16, <3>1 DEF HubBroadcast, Stream
    <3>3. QED
      BY <1>4, <1>14, <1>15, <1>16, <3>1, <3>2
  <2>3. QED
    BY <2>1, <2>2
<1>17. SentCovered(c, ch)'
  BY <1>16 DEF SentCovered, Covered, AsOf
<1>18. HandCovered(c, ch)'
  BY <1>1, <1>4, <1>14, HandKept
<1>19. QED
  BY <1>17, <1>18

\* Hub.Run answers a subscription: the client is a subscriber, then it may read the state.
LEMMA GapSubscribe ==
  ASSUME TypeOK, OneRequest, NEW c \in Client, NEW ch \in Channel, SentCovered(c, ch),
         HandCovered(c, ch), HubStep, HubSubscribe
  PROVE  SentCovered(c, ch)' /\ HandCovered(c, ch)'
<1>1. /\ subscribeCh \in Seq(SubMsg) /\ subscribeCh # <<>> /\ Awaited(subscribeCh, "subWait")
      /\ broadcastCh' = broadcastCh /\ ver' = ver /\ pub' = pub /\ rch' = rch /\ rver' = rver
      /\ Stream(c)' = Stream(c)
  BY DEF HubSubscribe, HubStep, HubCase, OneRequest, TypeOK, publisher, wire, Stream
<1>2. \E d \in Client, x \in Channel :
        /\ rch[d] = x /\ subs' = [subs EXCEPT ![x] = @ \cup {d}]
        /\ rpc' = [rpc EXCEPT ![d] = "snapshot"]
  BY <1>1, HeadAwaited DEF HubSubscribe, AddSub
<1>3. PICK d \in Client, x \in Channel :
        /\ rch[d] = x /\ subs' = [subs EXCEPT ![x] = @ \cup {d}]
        /\ rpc' = [rpc EXCEPT ![d] = "snapshot"]
  BY <1>2
<1>4. c \in subs[ch] => c \in subs'[ch]
  BY <1>3 DEF TypeOK
<1>5. CASE d # c
  <2>1. rpc'[c] = rpc[c]
    BY <1>3, <1>5 DEF TypeOK
  <2>2. QED
    BY <1>1, <1>4, <2>1, GapKept
<1>6. CASE d = c
  <2>1. SentCovered(c, ch)'
    BY <1>1, <1>4, FoundSame, CoveredKept, SentKept
  <2>2. rpc'[c] = "snapshot" /\ (rch'[c] = ch => c \in subs'[ch])
    BY <1>1, <1>3, <1>6 DEF TypeOK
  <2>3. HandCovered(c, ch)'
    BY <2>2 DEF HandCovered
  <2>4. QED
    BY <2>1, <2>3
<1>7. QED
  BY <1>5, <1>6

\* Hub.Run answers an unsubscription, of a client that has sent such a frame.
LEMMA GapUnsubscribe ==
  ASSUME TypeOK, OneRequest, LinkInv, NEW c \in Client, NEW ch \in Channel,
         SentCovered(c, ch), HandCovered(c, ch), Keeps(c, ch), HubStep, HubUnsubscribe
  PROVE  SentCovered(c, ch)' /\ HandCovered(c, ch)'
<1>1. /\ unsubscribeCh \in Seq(SubMsg) /\ unsubscribeCh # <<>>
      /\ Awaited(unsubscribeCh, "unsubWait")
      /\ broadcastCh' = broadcastCh /\ ver' = ver /\ pub' = pub /\ rver' = rver
      /\ Stream(c)' = Stream(c)
  BY DEF HubUnsubscribe, HubStep, HubCase, OneRequest, TypeOK, publisher, wire, Stream
<1>2. \E d \in Client, x \in Channel :
        /\ rpc[d] = "unsubWait" /\ rch[d] = x /\ subs' = [subs EXCEPT ![x] = @ \ {d}]
        /\ rpc' = [rpc EXCEPT ![d] = "read"] /\ rch' = [rch EXCEPT ![d] = AnyChannel]
  BY <1>1, HeadAwaited DEF HubUnsubscribe, DropSub
<1>3. PICK d \in Client, x \in Channel :
        /\ rpc[d] = "unsubWait" /\ rch[d] = x /\ subs' = [subs EXCEPT ![x] = @ \ {d}]
        /\ rpc' = [rpc EXCEPT ![d] = "read"] /\ rch' = [rch EXCEPT ![d] = AnyChannel]
  BY <1>2
<1>4. d = c => x # ch
  BY <1>3 DEF LinkInv, Phase
<1>5. c \in subs[ch] => c \in subs'[ch]
  BY <1>3, <1>4 DEF TypeOK
<1>6. rpc'[c] \in {"snapshot", "deliver"} => rpc'[c] = rpc[c] /\ rch'[c] = rch[c]
  BY <1>3 DEF TypeOK
<1>7. QED
  BY <1>1, <1>5, <1>6, GapKept

LEMMA GapHub ==
  ASSUME TypeOK, OneRequest, LinkInv, NEW c \in Client, NEW ch \in Channel,
         OrderInv, QueueInv, SentCovered(c, ch), HandCovered(c, ch), Served(c, ch),
         Served(c, ch)', HubStep
  PROVE  SentCovered(c, ch)' /\ HandCovered(c, ch)'
<1>1. CASE HubBroadcast
  BY <1>1, GapBroadcast
<1>2. CASE HubSubscribe
  BY <1>2, GapSubscribe
<1>3. CASE HubUnsubscribe
  BY <1>3, GapUnsubscribe DEF Served
<1>4. CASE HubRegister \/ HubUnregister \/ HubBroadcastPanics \/ HubStop
  <2>1. /\ broadcastCh' = broadcastCh /\ rpc' = rpc /\ rch' = rch /\ rver' = rver
        /\ send' = send /\ got' = got
    BY <1>4 DEF HubRegister, HubUnregister, HubBroadcastPanics, HubStop, queues, reader, wire
  <2>2. ver' = ver /\ pub' = pub
    BY DEF HubStep, HubCase, publisher
  <2>3. c \in subs[ch] => c \in subs'[ch]
    BY <1>4 DEF HubRegister, HubUnregister, HubBroadcastPanics, HubStop, registry,
       RemoveClients, Registered, Served
  <2>4. Stream(c)' = Stream(c)
    BY <2>1 DEF Stream
  <2>5. QED
    BY <2>1, <2>2, <2>3, <2>4, GapKept
<1>5. QED
  BY <1>1, <1>2, <1>3, <1>4 DEF HubStep, HubCase

\* The publisher: the new version is in its hand, then in the queue.
LEMMA GapPublisher ==
  ASSUME TypeOK, NEW c \in Client, NEW ch \in Channel, SentCovered(c, ch), HandCovered(c, ch),
         ~Stopped, Publish \/ \E x \in Channel : WriteState(x)
  PROVE  SentCovered(c, ch)' /\ HandCovered(c, ch)'
<1>1. /\ Stream(c)' = Stream(c) /\ subs' = subs /\ rpc' = rpc /\ rch' = rch /\ rver' = rver
  BY DEF Publish, WriteState, registry, reader, wire, Stream
<1>2. CASE Publish
  <2>0. PICK m : m = [kind |-> "delta", ch |-> pub, ver |-> ver[pub]]
    OBVIOUS
  <2>1. /\ broadcastCh' = Append(broadcastCh, m) /\ broadcastCh \in Seq(Delta) /\ ver' = ver
        /\ pub \in Channel
    BY <1>2, <2>0 DEF Publish, TypeOK
  <2>2. m \in Delta
    BY <2>0, <2>1 DEF Delta, TypeOK
  <2>3. /\ \A i \in DOMAIN broadcastCh : i \in DOMAIN broadcastCh'
                                         /\ broadcastCh'[i] = broadcastCh[i]
        /\ \E i \in DOMAIN broadcastCh' : broadcastCh'[i] = m
    <3>1. Len(broadcastCh) + 1 \in DOMAIN Append(broadcastCh, m)
          /\ Append(broadcastCh, m)[Len(broadcastCh) + 1] = m
      BY <2>1, <2>2
    <3>2. QED
      BY <2>1, <2>2, <3>1
  <2>4. ASSUME NEW k, Found(c, ch, k) PROVE Found(c, ch, k)'
    <3>1. CASE \E i \in DOMAIN Stream(c) : Stream(c)[i] = DeltaOf(ch, k)
      BY <1>1, <3>1 DEF Found, DeltaOf
    <3>2. CASE \E i \in DOMAIN broadcastCh : broadcastCh[i] = DeltaOf(ch, k)
      BY <2>3, <3>2 DEF Found, DeltaOf
    <3>3. CASE pub = ch /\ k = ver[ch]
      <4>1. m = DeltaOf(ch, k)
        BY <2>0, <3>3 DEF DeltaOf
      <4>2. QED
        BY <2>3, <4>1 DEF Found, DeltaOf
    <3>4. QED
      BY <2>4, <3>1, <3>2, <3>3 DEF Found
  <2>5. \A v : Covered(c, ch, v) => Covered(c, ch, v)'
    BY <2>1, <2>4, CoveredKept
  <2>6. QED
    BY <1>1, <2>5, SentKept, HandKept
<1>3. ASSUME NEW x \in Channel, WriteState(x)
      PROVE  SentCovered(c, ch)' /\ HandCovered(c, ch)'
  <2>1. /\ pub = Idle /\ pub' = x /\ broadcastCh' = broadcastCh
        /\ ver'[ch] = IF ch = x THEN ver[ch] + 1 ELSE ver[ch]
        /\ ver[ch] \in Nat /\ pub # ch
    BY <1>3, ChannelAssumption DEF WriteState, queues, TypeOK, Idle
  <2>2. ASSUME NEW k, Found(c, ch, k) PROVE Found(c, ch, k)'
    BY <1>1, <2>1, <2>2 DEF Found, DeltaOf
  <2>3. ASSUME NEW k, ch = x, k = ver'[ch] PROVE Found(c, ch, k)'
    BY <2>1, <2>3 DEF Found
  <2>4. ASSUME NEW v, Covered(c, ch, v), NEW k \in v + 1 .. ver'[ch] PROVE Found(c, ch, k)'
    <3>1. CASE k \in v + 1 .. ver[ch]
      BY <2>2, <2>4, <3>1 DEF Covered
    <3>2. CASE k \notin v + 1 .. ver[ch]
      <4>1. ch = x /\ k = ver'[ch]
        BY <2>1, <2>4, <3>2
      <4>2. QED
        BY <2>3, <4>1
    <3>3. QED
      BY <3>1, <3>2
  <2>5. \A v : Covered(c, ch, v) => Covered(c, ch, v)'
    BY <2>4 DEF Covered
  <2>6. QED
    BY <1>1, <2>5, SentKept, HandKept
<1>4. QED
  BY <1>2, <1>3

LEMMA GapRest ==
  ASSUME TypeOK, NEW c \in Client, NEW ch \in Channel, SentCovered(c, ch), HandCovered(c, ch),
         Served(c, ch)',
         \/ \E d \in Client : HandlerStep(d)
         \/ \E d \in Client, op \in {"sub", "unsub"}, x \in Channel : ReadFrame(d, op, x)
         \/ \E d \in Client : WriterStep(d)
         \/ \E d \in Client : PeerLost(d)
         \/ Cancel
         \/ UNCHANGED vars
  PROVE  SentCovered(c, ch)' /\ HandCovered(c, ch)'
<1>1. broadcastCh' = broadcastCh /\ ver' = ver /\ pub' = pub /\ subs' = subs
  BY DEF HandlerStep, Reject, Reserve, Upgrade, UpgradeFails, Register, RegisterAfterStop,
     ReadFrame, WriterStep, PeerLost, Cancel, vars, registry, queues, publisher
<1>2. rpc'[c] \in {"snapshot", "deliver"}
        => rpc'[c] = rpc[c] /\ rch'[c] = rch[c] /\ rver'[c] = rver[c]
  BY DEF HandlerStep, Reject, Reserve, Upgrade, UpgradeFails, Register, RegisterAfterStop,
     ReadFrame, WriterStep, PeerLost, Cancel, vars, reader, TypeOK
<1>3. Stream(c)' = Stream(c)
  <2>1. CASE send'[c] = send[c] /\ got'[c] = got[c]
    BY <2>1 DEF Stream
  <2>2. CASE WriterStep(c)
    <3>1. WriteMessage(c)
      BY <2>2 DEF WriterStep, WriteFails, SendClosed, Served, TypeOK
    <3>2. /\ got[c] \in Seq(Message) /\ send[c] \in Seq(Message) /\ send[c] # <<>>
          /\ got'[c] = Append(got[c], Head(send[c])) /\ send'[c] = Tail(send[c])
      BY <3>1, StreamType DEF WriteMessage, TypeOK
    <3>3. QED
      BY <3>2, StreamWritten DEF Stream
  <2>3. QED
    BY <2>1, <2>2 DEF HandlerStep, Reject, Reserve, Upgrade, UpgradeFails, Register,
       RegisterAfterStop, ReadFrame, WriterStep, WriteMessage, WriteFails, SendClosed, PeerLost,
       Cancel, vars, wire, TypeOK
<1>4. QED
  BY <1>1, <1>2, <1>3, GapKept

LEMMA GapStep == StreamInv /\ [Next]_vars => GapInv'
<1> SUFFICES ASSUME StreamInv, [Next]_vars, NEW c \in Client, NEW ch \in Channel, Served(c, ch)'
             PROVE  SentCovered(c, ch)' /\ HandCovered(c, ch)'
  BY DEF GapInv
<1>1. TypeOK /\ PumpInv /\ OneRequest /\ LinkInv /\ OrderInv /\ QueueInv
  BY DEF StreamInv, AdmissionInv
<1>2. Served(c, ch)
  BY <1>1, ServedBefore
<1>3. SentCovered(c, ch) /\ HandCovered(c, ch)
  BY <1>2 DEF StreamInv, GapInv
<1>4. ~Stopped
  BY <1>2 DEF Served
<1>5. QED
  BY <1>1, <1>2, <1>3, <1>4, NextCases, GapReader, GapHub, GapPublisher, GapRest

LEMMA StreamInit == Init => StreamInv
<1> SUFFICES ASSUME Init PROVE StreamInv
  OBVIOUS
<1>1. \A c \in Client : Stream(c) = <<>> /\ rpc[c] = "off"
  BY DEF Init, Stream
<1>2. GapInv
  BY <1>1 DEF GapInv, SentCovered, HandCovered
<1>3. LinkInv
  BY DEF Init, LinkInv, Phase
<1>4. QueueInv
  BY DEF Init, QueueInv
<1>5. QED
  BY <1>2, <1>3, <1>4, AdmissionInit, RegistryInit, OrderInit DEF StreamInv

LEMMA StreamStep == StreamInv /\ [Next]_vars => StreamInv'
<1> SUFFICES ASSUME StreamInv, [Next]_vars PROVE StreamInv'
  OBVIOUS
<1>1. TypeOK
  BY DEF StreamInv, AdmissionInv
<1>2. QED
  BY <1>1, AdmissionStep, RegistryStep, LinkStep, OrderStep, QueueStep, GapStep DEF StreamInv

\* A subscribed client misses no version announced since the first snapshot it was sent was
\* read, or since the first delta it was sent was published: each is written, buffered, queued
\* or about to be published.  The pump reads the state only after Hub.Run has registered the
\* subscription, and however stale what it reads may be, no delta is lost after that
\* (Client.subscribe, Hub.Run, Hub.broadcast).
THEOREM NoGapHolds == Spec => []NoGap
<1>1. StreamInv => NoGap
  BY DEF StreamInv, GapInv, Served, SentCovered, NoGap
<1>2. QED
  BY <1>1, StreamInit, StreamStep, PTL DEF Spec
=============================================================================
