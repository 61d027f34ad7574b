--------------------------- MODULE HABridgeProofs ----------------------------
(***************************************************************************)
(* Proofs about HABridge, for every set of entities and of callers and     *)
(* every bound.                                                            *)
(***************************************************************************)
EXTENDS HABridge, TLAPS

USE BridgeAssumption DEF BridgeAssumption

StateMessage == [kind : {"state"}, e : Entities, v : Nat]
Message ==
  StateMessage \cup [kind : {"registry"}]
  \cup [kind : {"result"}, id : Nat, states : [Entities -> Nat] \cup {<<>>}]
Query == [id : Nat, kind : {"states", "subscribe", "service", "mutate", "registry"}]

\* A change of e that will be forwarded, unless nobody listens.
Change(m, e) == m.kind = "state" /\ m.e = e /\ m.v # 0

QueueTypes ==
  /\ toHA \in Seq(Query) /\ toBridge \in Seq(Message)
  /\ msgId \in Nat
  /\ version \in [Entities -> Nat] /\ relayed \in [Entities -> Nat]
  /\ events \subseteq StateMessage

\* The event loop forwards one change at a time, and reads no other meanwhile.
OneAtATime ==
  /\ loop # "forwarding" => events = {}
  /\ phase = "opening" => loop = "off"
  /\ \A m, n \in events : m = n

\* What the relay saw, what is being forwarded and what is under way are in the
\* order of the versions.
OrderInv ==
  \A e \in Entities :
    /\ relayed[e] <= version[e]
    /\ \A m \in events : m.e = e => relayed[e] <= m.v /\ m.v <= version[e]
    /\ \A i \in 1 .. Len(toBridge) :
         Change(toBridge[i], e) =>
           /\ relayed[e] <= toBridge[i].v /\ toBridge[i].v <= version[e]
           /\ \A m \in events : m.e = e => m.v <= toBridge[i].v
           /\ \A j \in 1 .. Len(toBridge) :
                i < j /\ Change(toBridge[j], e) => toBridge[i].v <= toBridge[j].v

BridgeInv == QueueTypes /\ OneAtATime /\ OrderInv

LEMMA SendKeeps ==
  ASSUME QueueTypes, NEW t, NEW k \in {"states", "service", "mutate", "registry"}, SendCall(t, k)
  PROVE  toHA' \in Seq(Query) /\ msgId' \in Nat
<1>1. [id |-> msgId + 1, kind |-> k] \in Query
  BY DEF QueueTypes, Query
<1>2. QED
  BY <1>1 DEF QueueTypes, SendCall

\* A message that is read leaves the others in their order.
LEMMA ArrivesKeeps ==
  ASSUME BridgeInv, NEW k, Arrives(k)
  PROVE  /\ Head(toBridge) \in Message /\ Head(toBridge).kind = k
         /\ Head(toBridge) = toBridge[1] /\ 1 \in 1 .. Len(toBridge)
         /\ toBridge' \in Seq(Message) /\ loop = "reading"
         /\ \A i \in 1 .. Len(toBridge') :
              toBridge'[i] = toBridge[i + 1] /\ i + 1 \in 1 .. Len(toBridge)
<1> USE DEF BridgeInv, QueueTypes, Arrives
<1>1. toBridge \in Seq(Message) /\ toBridge # <<>> /\ toBridge' = Tail(toBridge)
  OBVIOUS
<1>2. QED
  BY <1>1

LEMMA DropOrder ==
  ASSUME BridgeInv, NEW k, Arrives(k), UNCHANGED <<version, relayed, events>>
  PROVE  OrderInv'
<1>1. \A i \in 1 .. Len(toBridge') :
        toBridge'[i] = toBridge[i + 1] /\ i + 1 \in 1 .. Len(toBridge)
  BY ArrivesKeeps
<1>2. toBridge' \in Seq(Message) /\ toBridge \in Seq(Message)
  BY ArrivesKeeps DEF BridgeInv, QueueTypes
<1>3. \A i, j \in 1 .. Len(toBridge') : i < j => i + 1 < j + 1
  BY <1>2
<1>4. QED
  BY <1>1, <1>2, <1>3 DEF BridgeInv, OrderInv, Change

\* A message goes behind the others.
LEMMA AddOrder ==
  ASSUME BridgeInv, UNCHANGED <<version, relayed, events>>, toBridge' \in Seq(Message),
         \A i \in 1 .. Len(toBridge') :
           (i \in 1 .. Len(toBridge) /\ toBridge'[i] = toBridge[i]) \/ toBridge'[i].kind # "state"
  PROVE  OrderInv'
BY DEF BridgeInv, OrderInv, Change

LEMMA EventLoopStep ==
  ASSUME BridgeInv, EventLoop
  PROVE  BridgeInv'
<1> USE DEF BridgeInv, bridgeVars, callVars, netVars, haVars
<1>1. CASE Result
  <2>1. QueueTypes' /\ OneAtATime'
    <3>1. QueueTypes'
      BY <1>1, ArrivesKeeps DEF Result, QueueTypes
    <3>2. OneAtATime'
      BY <1>1, ArrivesKeeps DEF Result, OneAtATime
    <3>3. QED
      BY <3>1, <3>2
  <2>2. OrderInv'
    BY <1>1, DropOrder DEF Result
  <2>3. QED
    BY <2>1, <2>2
<1>2. CASE StateChanged
  <2> DEFINE m == Head(toBridge)
  <2>1. m \in StateMessage
    BY <1>2, ArrivesKeeps DEF StateChanged, Message, StateMessage
  <2>2. /\ events = {}
        /\ \/ events' = {m} /\ m.v # 0 /\ loop' = "forwarding"
           \/ UNCHANGED <<events, loop>>
    BY <1>2, ArrivesKeeps DEF StateChanged, Forwards, OneAtATime
  <2>3. QueueTypes' /\ OneAtATime'
    <3>1. QueueTypes'
      BY <1>2, <2>1, <2>2, ArrivesKeeps DEF StateChanged, QueueTypes
    <3>2. OneAtATime'
      BY <1>2, <2>1, <2>2, ArrivesKeeps DEF StateChanged, OneAtATime
    <3>3. QED
      BY <3>1, <3>2
  <2>4. OrderInv'
    <3>1. CASE UNCHANGED events
      BY <1>2, <3>1, DropOrder DEF StateChanged
    <3>2. CASE events' = {m} /\ m.v # 0
      <4>1. m = toBridge[1] /\ 1 \in 1 .. Len(toBridge) /\ Change(toBridge[1], m.e) /\ m.e \in Entities
        BY <1>2, <3>2, <2>1, ArrivesKeeps DEF StateChanged, Change, StateMessage
      <4>2. UNCHANGED <<relayed, version>>
        BY <1>2 DEF StateChanged
      <4>3. \A i \in 1 .. Len(toBridge') :
              toBridge'[i] = toBridge[i + 1] /\ i + 1 \in 1 .. Len(toBridge)
        BY <1>2, ArrivesKeeps DEF StateChanged
      <4>4. \A i, j \in 1 .. Len(toBridge') : (i < j => i + 1 < j + 1) /\ 1 < i + 1
        BY <2>3 DEF QueueTypes
      <4>5. \A i \in 1 .. Len(toBridge') : Change(toBridge'[i], m.e) => m.v <= toBridge'[i].v
        BY <4>1, <4>3, <4>4 DEF OrderInv
      <4>6. relayed[m.e] <= m.v /\ m.v <= version[m.e]
        BY <4>1 DEF OrderInv
      <4> HIDE DEF m
      <4>7. QED
        BY <3>2, <4>2, <4>3, <4>4, <4>5, <4>6 DEF OrderInv, Change
    <3>3. QED
      BY <2>2, <3>1, <3>2
  <2>5. QED
    BY <2>3, <2>4
<1>3. CASE Forwarded
  <2>1. PICK m \in events :
          /\ events' = events \ {m}
          /\ loop' = IF loop = "forwarding" THEN "reading" ELSE loop
          /\ relayed' \in {relayed, [relayed EXCEPT ![m.e] = m.v]}
          /\ UNCHANGED <<phase, callbacks, cache, callVars, netVars, haVars>>
    BY <1>3 DEF Forwarded
  <2>2. m \in StateMessage /\ events' = {} /\ loop = "forwarding"
    BY <2>1 DEF QueueTypes, OneAtATime
  <2>3. QueueTypes' /\ OneAtATime'
    <3>1. QueueTypes'
      BY <2>1, <2>2 DEF QueueTypes, StateMessage
    <3>2. OneAtATime'
      BY <2>1, <2>2 DEF OneAtATime, StateMessage
    <3>3. QED
      BY <3>1, <3>2
  <2>4. OrderInv'
    BY <2>1, <2>2 DEF OrderInv, QueueTypes, StateMessage, Change
  <2>5. QED
    BY <2>3, <2>4
<1>4. CASE RegistryUpdated
  <2>1. QueueTypes' /\ OneAtATime'
    <3>1. QueueTypes'
      <4>1. toHA' \in Seq(Query) /\ msgId' \in Nat
        BY <1>4, SendKeeps DEF RegistryUpdated, QueueTypes
      <4>2. QED
        BY <1>4, <4>1, ArrivesKeeps DEF RegistryUpdated, QueueTypes
    <3>2. OneAtATime'
      BY <1>4, ArrivesKeeps DEF RegistryUpdated, SendCall, OneAtATime, Query
    <3>3. QED
      BY <3>1, <3>2
  <2>2. OrderInv'
    BY <1>4, DropOrder DEF RegistryUpdated
  <2>3. QED
    BY <2>1, <2>2
<1>5. CASE LoopReturns \/ LoopEnds
  BY <1>5 DEF LoopReturns, LoopEnds, Returns, TimesOut, EndCall, QueueTypes, OneAtATime, OrderInv
<1>6. QED
  BY <1>1, <1>2, <1>3, <1>4, <1>5 DEF EventLoop

LEMMA OthersStep ==
  ASSUME BridgeInv, Connect \/ Others \/ Disconnect
  PROVE  BridgeInv'
<1> USE DEF BridgeInv, bridgeVars, callVars, netVars, haVars
<1>1. CASE Connect
  <2>1. UNCHANGED <<toBridge, version, relayed, events>>
    BY <1>1 DEF Connect, Authenticated, ConnectFails, Load, Loaded, LoadFails, Subscribe
  <2>2. QueueTypes' /\ OneAtATime'
    <3>1. QueueTypes'
      <4>1. toHA' \in Seq(Query) /\ msgId' \in Nat
        <5>1. CASE Load
          BY <5>1, SendKeeps DEF Load
        <5>2. CASE Subscribe
          <6>1. [id |-> msgId + 1, kind |-> "subscribe"] \in Query /\ msgId + 1 \in Nat
            BY DEF QueueTypes, Query
          <6>2. toHA \in Seq(Query)
            BY DEF QueueTypes
          <6>3. CASE link = "open"
            <7>1. toHA' = Append(toHA, [id |-> msgId + 1, kind |-> "subscribe"])
              BY <5>2, <6>3 DEF Subscribe
            <7>2. msgId' = msgId + 1
              BY <5>2 DEF Subscribe
            <7>3. QED
              BY <6>1, <6>2, <7>1, <7>2
          <6>4. CASE link # "open"
            BY <5>2, <6>1, <6>2, <6>4 DEF Subscribe
          <6>5. QED
            BY <6>3, <6>4
        <5>3. CASE Authenticated \/ ConnectFails \/ Loaded \/ LoadFails
          BY <5>3 DEF Authenticated, ConnectFails, Loaded, LoadFails, Returns, TimesOut, EndCall,
             QueueTypes
        <5>4. QED
          BY <1>1, <5>1, <5>2, <5>3 DEF Connect
      <4>2. QED
        BY <2>1, <4>1 DEF QueueTypes
    <3>2. OneAtATime'
      BY <1>1 DEF Connect, Authenticated, ConnectFails, Load, Loaded, LoadFails, Subscribe,
         SendCall, Returns, TimesOut, EndCall, OneAtATime, Query
    <3>3. QED
      BY <3>1, <3>2
  <2>3. QED
    BY <2>1, <2>2 DEF OrderInv
<1>2. CASE Others
  <2>1. UNCHANGED <<toBridge, version, relayed, events, loop, phase>>
    BY <1>2 DEF Others, RegisterCall, CallerAsks, CallerGoesOn
  <2>2. QueueTypes'
    <3>1. toHA' \in Seq(Query) /\ msgId' \in Nat
      BY <1>2, SendKeeps DEF Others, RegisterCall, CallerAsks, CallerGoesOn, Returns, TimesOut,
         EndCall, QueueTypes
    <3>2. QED
      BY <2>1, <3>1 DEF QueueTypes
  <2>3. QED
    BY <2>1, <2>2 DEF OneAtATime, OrderInv
<1>3. CASE Disconnect
  BY <1>3 DEF Disconnect, QueueTypes, OneAtATime, OrderInv
<1>4. QED
  BY <1>1, <1>2, <1>3

LEMMA HomeAssistantStep ==
  ASSUME BridgeInv, HomeAssistant
  PROVE  BridgeInv'
<1> USE DEF BridgeInv, bridgeVars, callVars, netVars, haVars
<1>1. CASE ConnectionLost
  <2>1. QueueTypes'
    BY <1>1 DEF ConnectionLost, QueueTypes
  <2>2. OneAtATime'
    BY <1>1 DEF ConnectionLost, OneAtATime
  <2>3. OrderInv'
    BY <1>1 DEF ConnectionLost, OrderInv, Change
  <2>4. QED
    BY <2>1, <2>2, <2>3
<1>2. CASE HARegistryChanges
  <2>1. QueueTypes' /\ OneAtATime'
    <3>1. QueueTypes'
      BY <1>2 DEF HARegistryChanges, QueueTypes, Message
    <3>2. OneAtATime'
      BY <1>2 DEF HARegistryChanges, OneAtATime, Message
    <3>3. QED
      BY <3>1, <3>2
  <2>2. OrderInv'
    BY <1>2, <2>1, AddOrder DEF HARegistryChanges, QueueTypes
  <2>3. QED
    BY <2>1, <2>2
<1>3. CASE HAReads
  <2>0. PICK s \in Answers(Head(toHA).kind) :
          toBridge' = toBridge
            \o << [kind |-> "result", id |-> Head(toHA).id, states |-> s] >>
            \o (IF Head(toHA).kind = "mutate" /\ subscribed THEN << [kind |-> "registry"] >> ELSE <<>>)
    BY <1>3 DEF HAReads
  <2> DEFINE m == Head(toHA)
             result == [kind |-> "result", id |-> m.id, states |-> s]
             changes == IF m.kind = "mutate" /\ subscribed THEN << [kind |-> "registry"] >> ELSE <<>>
             more == <<result>> \o changes
  <2>1. m \in Query /\ toHA' \in Seq(Query)
    BY <1>3 DEF HAReads, QueueTypes
  <2>2. s \in [Entities -> Nat] \cup {<<>>}
    <3>1. [e \in Entities |-> Shown(e)] \in [Entities -> Nat]
      BY DEF Shown, QueueTypes
    <3>2. QED
      BY <2>0, <3>1 DEF Answers
  <2>3. result \in Message /\ result.kind # "state"
    BY <2>1, <2>2 DEF Query, Message
  <2>4. [kind |-> "registry"] \in Message
    BY DEF Message
  <2>5. toBridge' = toBridge \o <<result>> \o changes
    BY <2>0
  <2>6. CASE changes = <<>>
    <3> HIDE DEF result
    <3>1. toBridge' = Append(toBridge, result)
      BY <2>3, <2>5, <2>6 DEF QueueTypes
    <3>2. QueueTypes' /\ OneAtATime'
      <4>1. QueueTypes'
        <5>1. toBridge' \in Seq(Message)
          BY <2>3, <3>1 DEF QueueTypes
        <5>2. QED
          BY <1>3, <2>1, <5>1 DEF HAReads, QueueTypes
      <4>2. OneAtATime'
        BY <1>3, <2>1, <2>3, <3>1 DEF HAReads, OneAtATime
      <4>3. QED
        BY <4>1, <4>2
    <3>3. OrderInv'
      BY <1>3, <2>3, <3>1, <3>2, AddOrder DEF HAReads, QueueTypes
    <3>4. QED
      BY <3>2, <3>3
  <2>7. CASE changes = << [kind |-> "registry"] >>
    <3> HIDE DEF result
    <3>1. toBridge' = Append(Append(toBridge, result), [kind |-> "registry"])
      BY <2>3, <2>4, <2>5, <2>7 DEF QueueTypes
    <3>2. QueueTypes' /\ OneAtATime'
      <4>1. QueueTypes'
        <5>1. toBridge' \in Seq(Message)
          BY <2>3, <2>4, <3>1 DEF QueueTypes
        <5>2. QED
          BY <1>3, <2>1, <5>1 DEF HAReads, QueueTypes
      <4>2. OneAtATime'
        BY <1>3, <2>1, <2>3, <2>4, <3>1 DEF HAReads, OneAtATime
      <4>3. QED
        BY <4>1, <4>2
    <3>3. OrderInv'
      BY <1>3, <2>3, <3>1, <3>2, AddOrder DEF HAReads, QueueTypes
    <3>4. QED
      BY <3>2, <3>3
  <2>8. QED
    BY <2>6, <2>7
<1>4. ASSUME NEW e \in Entities, HAChanges(e) PROVE BridgeInv'
  <2> DEFINE m == [kind |-> "state", e |-> e, v |-> IF exists'[e] THEN version[e] + 1 ELSE 0]
  <2>1. /\ version' = [version EXCEPT ![e] = @ + 1]
        /\ UNCHANGED <<relayed, events, loop, phase, toHA, msgId>>
    BY <1>4 DEF HAChanges
  <2>2. m \in Message
    BY DEF Message, StateMessage, QueueTypes
  <2>3. toBridge' = toBridge \/ toBridge' = Append(toBridge, m)
    BY <1>4 DEF HAChanges
  <2>4. QueueTypes' /\ OneAtATime'
    <3>1. QueueTypes'
      <4>1. toBridge' \in Seq(Message)
        <5> HIDE DEF m
        <5>1. toBridge \in Seq(Message)
          BY DEF QueueTypes
        <5>2. CASE toBridge' = Append(toBridge, m)
          BY <2>2, <5>1, <5>2
        <5>3. QED
          BY <2>3, <5>1, <5>2
      <4>2. version' \in [Entities -> Nat]
        BY <2>1 DEF QueueTypes
      <4>3. QED
        BY <2>1, <4>1, <4>2 DEF QueueTypes
    <3>2. OneAtATime'
      BY <2>1, <2>2, <2>3 DEF OneAtATime
    <3>3. QED
      BY <3>1, <3>2
  <2>5. OrderInv'
    <3>1. version'[e] = version[e] + 1 /\ \A f \in Entities : version[f] <= version'[f]
      BY <2>1 DEF QueueTypes
    <3>2. /\ \A f \in Entities : relayed[f] \in Nat /\ version[f] \in Nat /\ version'[f] \in Nat
          /\ \A n \in events : n.v \in Nat
      BY <2>4 DEF QueueTypes, StateMessage
    <3>3. \A f \in Entities :
            /\ relayed[f] <= version'[f]
            /\ \A n \in events : n.e = f => relayed[f] <= n.v /\ n.v <= version'[f]
      BY <3>1, <3>2 DEF OrderInv
    <3>4. \A f \in Entities, i \in 1 .. Len(toBridge) :
            Change(toBridge[i], f) => toBridge[i].v \in Nat /\ toBridge[i].v <= version'[f]
      <4>1. \A i \in 1 .. Len(toBridge) : toBridge[i] \in Message
        BY DEF QueueTypes
      <4>2. QED
        BY <3>1, <3>2, <4>1 DEF OrderInv, Change, Message, StateMessage
    <3>5. CASE UNCHANGED toBridge
      BY <2>1, <3>3, <3>4, <3>5 DEF OrderInv, Change
    <3>6. CASE toBridge' = Append(toBridge, m)
      <4>1. /\ Len(toBridge') = Len(toBridge) + 1 /\ Len(toBridge) \in Nat
            /\ toBridge'[Len(toBridge')] = m
            /\ \A i \in 1 .. Len(toBridge) : toBridge'[i] = toBridge[i]
        BY <2>2, <3>6 DEF QueueTypes
      <4>2. \A f \in Entities : Change(m, f) => f = e /\ m.v = version'[e]
        BY <3>1 DEF Change
      <4> HIDE DEF m
      <4>3. \A i \in 1 .. Len(toBridge') : i \in 1 .. Len(toBridge) \/ i = Len(toBridge')
        BY <4>1
      <4>4. \A i, j \in 1 .. Len(toBridge') : i < j => i \in 1 .. Len(toBridge)
        BY <4>1
      <4>5. \A f \in Entities, i \in 1 .. Len(toBridge') : Change(toBridge'[i], f) =>
              /\ relayed[f] <= toBridge'[i].v /\ toBridge'[i].v <= version'[f]
              /\ \A n \in events : n.e = f => n.v <= toBridge'[i].v
        <5>1. TAKE f \in Entities, i \in 1 .. Len(toBridge')
        <5>2. CASE i \in 1 .. Len(toBridge)
          BY <3>4, <4>1, <5>2 DEF OrderInv, Change
        <5>3. CASE i = Len(toBridge')
          BY <3>2, <3>3, <4>1, <4>2, <5>3
        <5>4. QED
          BY <4>3, <5>2, <5>3
      <4>6. \A f \in Entities, i, j \in 1 .. Len(toBridge') :
              i < j /\ Change(toBridge'[i], f) /\ Change(toBridge'[j], f)
                => toBridge'[i].v <= toBridge'[j].v
        <5>1. TAKE f \in Entities, i, j \in 1 .. Len(toBridge')
        <5>2. CASE j \in 1 .. Len(toBridge)
          BY <4>1, <4>4, <5>2 DEF OrderInv
        <5>3. CASE j = Len(toBridge')
          BY <3>4, <4>1, <4>2, <4>4, <5>3
        <5>4. QED
          BY <4>3, <5>2, <5>3
      <4>7. QED
        BY <2>1, <3>3, <4>5, <4>6 DEF OrderInv, Change
    <3>7. QED
      BY <2>3, <3>5, <3>6
  <2>6. QED
    BY <2>4, <2>5
<1>5. QED
  BY <1>1, <1>2, <1>3, <1>4 DEF HomeAssistant

LEMMA BridgeInvariant == Spec => []BridgeInv
<1>1. Init => BridgeInv
  BY DEF Init, BridgeInv, QueueTypes, OneAtATime, OrderInv
<1>2. BridgeInv /\ [Next]_vars => BridgeInv'
  <2> SUFFICES ASSUME BridgeInv, [Next]_vars PROVE BridgeInv'
    OBVIOUS
  <2>1. CASE UNCHANGED vars
    BY <2>1 DEF BridgeInv, QueueTypes, OneAtATime, OrderInv, Change, vars, bridgeVars, callVars,
       netVars, haVars
  <2>2. QED
    BY <2>1, EventLoopStep, OthersStep, HomeAssistantStep DEF Next
<1>3. QED
  BY <1>1, <1>2, PTL DEF Spec

\* However results, events and calls interleave, the relay never sees an entity
\* go back to an older state.
THEOREM RelayedCorrect == Spec => RelayedInOrder
<1>1. BridgeInv /\ [Next]_vars => [\A e \in Entities : relayed'[e] >= relayed[e]]_vars
  <2> SUFFICES ASSUME BridgeInv, Next PROVE \A e \in Entities : relayed'[e] >= relayed[e]
    OBVIOUS
  <2>1. CASE UNCHANGED relayed
    BY <2>1 DEF BridgeInv, QueueTypes
  <2>2. CASE Forwarded
    <3>1. PICK m \in events : relayed' \in {relayed, [relayed EXCEPT ![m.e] = m.v]}
      BY <2>2 DEF Forwarded
    <3>2. m \in StateMessage /\ relayed[m.e] <= m.v
      BY <3>1 DEF BridgeInv, QueueTypes, OrderInv, StateMessage
    <3>3. relayed \in [Entities -> Nat] /\ m.e \in Entities /\ m.v \in Nat
      BY <3>2 DEF BridgeInv, QueueTypes, StateMessage
    <3>4. CASE relayed' = [relayed EXCEPT ![m.e] = m.v]
      BY <3>2, <3>3, <3>4
    <3>5. QED
      BY <2>1, <3>1, <3>4
  <2>3. QED
    BY <2>1, <2>2
    DEF Next, Connect, Authenticated, ConnectFails, Load, Loaded, LoadFails, Subscribe, EventLoop,
        Result, StateChanged, RegistryUpdated, LoopReturns, LoopEnds, Others, RegisterCall,
        CallerAsks, CallerGoesOn, Disconnect, HomeAssistant, HAReads, HARegistryChanges,
        ConnectionLost, HAChanges
<1>2. QED
  BY <1>1, BridgeInvariant, PTL DEF Spec, RelayedInOrder

-----------------------------------------------------------------------------
(* The cache.                                                              *)

CallStates == {"idle", "sent", "waiting", "resolved", "done", "failed"}

CallTypes ==
  /\ call \in [Tasks -> CallStates]
  /\ id \in [Tasks -> Nat]
  /\ kind \in [Tasks -> {"none", "states", "service", "mutate", "registry"}]
  /\ reply \in [Tasks -> [Entities -> Nat] \cup {<<>>}]
  /\ cache \in [Entities -> Nat]
  /\ exists \in [Entities -> BOOLEAN]

\* Ids are given in their order, and answered in it.
IdInv ==
  /\ \A t \in Tasks : id[t] <= msgId
  /\ \A i \in 1 .. Len(toHA) :
       /\ toHA[i].id \in 1 .. msgId
       /\ toHA[i].id = id[Connector] => toHA[i].kind = "states"
       /\ \A j \in 1 .. Len(toHA) : i < j => toHA[i].id < toHA[j].id
  /\ \A i \in 1 .. Len(toBridge) : toBridge[i].kind = "result" =>
       /\ toBridge[i].id \in 1 .. msgId
       /\ \A j \in 1 .. Len(toHA) : toHA[j].id # toBridge[i].id

\* The states are loaded first, then subscribed to; until HA has the
\* subscription it sends no changes.
PhaseInv ==
  /\ phase = "opening" => call[Connector] = "idle"
  /\ phase \in {"subscribing", "up"} => call[Connector] = "done"
  /\ call[Connector] = "idle" => id[Connector] = 0
  /\ call[Connector] # "idle" => id[Connector] # 0 /\ kind[Connector] = "states"
  /\ call[Connector] \in {"resolved", "done"} =>
       \A i \in 1 .. Len(toHA) : toHA[i].id # id[Connector]
  /\ phase \notin {"up", "closed"} =>
       ~subscribed /\ \A i \in 1 .. Len(toHA) : toHA[i].kind # "subscribe"
  /\ ~subscribed => \A i \in 1 .. Len(toBridge) : toBridge[i].kind # "state"

\* What get_states returned, or will return, is what HA shows but for changes
\* since; a refused load is missed as a whole.
ShowsAll(s) ==
  \/ s = <<>> /\ \A e \in Entities : e \in missed
  \/ s \in [Entities -> Nat] /\ \A e \in Entities : s[e] = Shown(e) \/ e \in missed
LoadInv ==
  /\ phase \in {"opening", "loading"} => \A e \in Entities : cache[e] = 0
  /\ phase = "loading" =>
    /\ call[Connector] = "resolved" => ShowsAll(reply[Connector])
    /\ \A i \in 1 .. Len(toBridge) :
         toBridge[i].kind = "result" /\ toBridge[i].id = id[Connector]
           => ShowsAll(toBridge[i].states)

\* The last change of an entity under way is what HA shows; if it will be
\* skipped, it counts as missed.
LastInv ==
  \A e \in Entities :
    /\ \A i \in UnderWay(e) : (\A j \in UnderWay(e) : j <= i) => toBridge[i].v = Shown(e)
    /\ e \in Own /\ UnderWay(e) # {} /\ Shown(e) # 0 => e \in missed

FollowInv ==
  phase \in {"subscribing", "up"} =>
    \A e \in Entities : cache[e] = Shown(e) \/ UnderWay(e) # {} \/ e \in missed

\* A call in progress has an id of its own; exactly those that wait have an entry.
TaskInv ==
  /\ \A t, u \in Tasks : id[t] = id[u] => t = u \/ id[t] = 0
  /\ \A t \in Tasks : call[t] \in {"sent", "waiting"} => id[t] # 0
  /\ PendingIsWaiting

CacheInv == CallTypes /\ IdInv /\ TaskInv /\ PhaseInv /\ LoadInv /\ LastInv /\ FollowInv

\* A call goes out with an id that nothing else has.
LEMMA SendIds ==
  ASSUME BridgeInv, CacheInv,
         NEW t \in Tasks, NEW k \in {"states", "service", "mutate", "registry"},
         \A i \in 1 .. Len(toBridge') : \E j \in 1 .. Len(toBridge) : toBridge'[i] = toBridge[j],
         t = Connector => k = "states", SendCall(t, k)
  PROVE  IdInv'
<1> USE DEF BridgeInv, QueueTypes, CacheInv
<1> DEFINE q == [id |-> msgId + 1, kind |-> k]
<1>1. q \in Query /\ toHA \in Seq(Query) /\ msgId \in Nat
  BY DEF Query
<1>2. /\ toHA' = Append(toHA, q) /\ msgId' = msgId + 1
      /\ id' = [id EXCEPT ![t] = msgId + 1]
  BY DEF SendCall
<1> HIDE DEF q
<1>3. /\ Len(toHA') = Len(toHA) + 1 /\ Len(toHA) \in Nat
      /\ toHA'[Len(toHA')] = q
      /\ \A i \in 1 .. Len(toHA) : toHA'[i] = toHA[i] /\ toHA[i] \in Query
  BY <1>1, <1>2
<1>4. q.id = msgId + 1 /\ q.kind = k /\ \A i \in 1 .. Len(toHA') : i \in 1 .. Len(toHA) \/ i = Len(toHA')
  BY <1>3 DEF q
<1>5. id \in [Tasks -> Nat] /\ Connector \in Tasks
  BY DEF CallTypes, Tasks
<1>6. \A u \in Tasks : id'[u] <= msgId'
  BY <1>1, <1>2, <1>5 DEF IdInv
<1>7. \A i \in 1 .. Len(toHA') :
       /\ toHA'[i].id \in 1 .. msgId'
       /\ toHA'[i].id = id'[Connector] => toHA'[i].kind = "states"
       /\ \A j \in 1 .. Len(toHA') : i < j => toHA'[i].id < toHA'[j].id
  <2> TAKE i \in 1 .. Len(toHA')
  <2>1. CASE i \in 1 .. Len(toHA)
    <3>1. toHA'[i] = toHA[i] /\ toHA[i].id \in 1 .. msgId
      BY <1>3, <2>1 DEF IdInv
    <3>2. toHA[i].id = id'[Connector] => toHA[i].kind = "states"
      BY <1>1, <1>2, <1>5, <2>1, <3>1 DEF IdInv
    <3>3. \A j \in 1 .. Len(toHA') : i < j => toHA'[i].id < toHA'[j].id
      <4>1. TAKE j \in 1 .. Len(toHA')
      <4>2. CASE j \in 1 .. Len(toHA)
        BY <1>3, <2>1, <4>2 DEF IdInv
      <4>3. CASE j = Len(toHA')
        <5>1. toHA'[j].id = msgId + 1
          BY <1>3, <1>4, <4>3
        <5>2. QED
          BY <1>1, <3>1, <5>1
      <4>4. j \in 1 .. Len(toHA) \/ j = Len(toHA')
        BY <1>3
      <4>5. QED
        BY <4>2, <4>3, <4>4
    <3>4. QED
      BY <1>1, <1>2, <3>1, <3>2, <3>3
  <2>2. CASE i = Len(toHA')
    BY <1>1, <1>2, <1>3, <1>4, <1>5, <2>2 DEF IdInv
  <2>3. QED
    BY <1>3, <2>1, <2>2
<1>8. \A i \in 1 .. Len(toBridge') : toBridge'[i].kind = "result" =>
       /\ toBridge'[i].id \in 1 .. msgId'
       /\ \A j \in 1 .. Len(toHA') : toHA'[j].id # toBridge'[i].id
  <2>1. \A i \in 1 .. Len(toHA') :
          toHA'[i].id = msgId + 1 \/ \E j \in 1 .. Len(toHA) : toHA'[i] = toHA[j]
    BY <1>3, <1>4
  <2>2. \A i \in 1 .. Len(toBridge') : toBridge'[i].kind = "result" =>
          /\ toBridge'[i].id \in 1 .. msgId
          /\ \A j \in 1 .. Len(toHA) : toHA[j].id # toBridge'[i].id
    BY DEF IdInv
  <2>3. \A n \in 1 .. msgId : n \in 1 .. msgId' /\ n # msgId + 1
    BY <1>1, <1>2
  <2>4. QED
    BY <2>1, <2>2, <2>3
<1>9. QED
  BY <1>6, <1>7, <1>8 DEF IdInv

\* A call is never a subscription.
LEMMA SendPhase ==
  ASSUME QueueTypes, NEW t \in Tasks, NEW k \in {"states", "service", "mutate", "registry"},
         SendCall(t, k), \A i \in 1 .. Len(toHA) : toHA[i].kind # "subscribe"
  PROVE  \A i \in 1 .. Len(toHA') : toHA'[i].kind # "subscribe"
<1> DEFINE q == [id |-> msgId + 1, kind |-> k]
<1>1. q \in Query /\ toHA \in Seq(Query) /\ q.kind # "subscribe"
  BY DEF Query, QueueTypes
<1>2. toHA' = Append(toHA, q)
  BY DEF SendCall
<1> HIDE DEF q
<1>3. QED
  BY <1>1, <1>2

LEMMA SendTasks ==
  ASSUME BridgeInv, CacheInv, UNCHANGED pending, NEW t \in Tasks, NEW k, SendCall(t, k)
  PROVE  TaskInv'
<1> USE DEF SendCall, CacheInv, BridgeInv, QueueTypes, CallTypes
<1>1. \A u \in Tasks : id[u] <= msgId /\ id[u] \in Nat
  BY DEF IdInv
<1>2. \A u, v \in Tasks : id'[u] = id'[v] => u = v \/ id'[u] = 0
  BY <1>1 DEF TaskInv
<1>3. \A u \in Tasks : call'[u] \in {"sent", "waiting"} => id'[u] # 0
  BY DEF TaskInv
<1>4. \A u \in Tasks : /\ call'[u] = "waiting" <=> call[u] = "waiting"
                       /\ call[u] = "waiting" => id'[u] = id[u]
  OBVIOUS
<1>5. PendingIsWaiting'
  BY <1>4 DEF PendingIsWaiting, TaskInv
<1>6. QED
  BY <1>2, <1>3, <1>5 DEF TaskInv

LEMMA EndTasks ==
  ASSUME CacheInv, NEW t \in Tasks, NEW outcome \in {"done", "failed"}, EndCall(t, outcome),
         call[t] \in {"waiting", "resolved"}
  PROVE  TaskInv'
<1> USE DEF EndCall, CacheInv, CallTypes
<1>1. \A u \in Tasks : call'[u] = "waiting" <=> call[u] = "waiting" /\ u # t
  OBVIOUS
<1>2. PendingIsWaiting'
  <2>1. \A u \in Tasks : call[u] = "waiting" /\ u # t => id[u] # id[t]
    BY DEF TaskInv
  <2>2. \A n : n \in pending' <=> \E u \in Tasks : call[u] = "waiting" /\ id[u] = n /\ n # id[t]
    BY DEF PendingIsWaiting, TaskInv
  <2>3. \A n : n \in pending' <=> \E u \in Tasks : call'[u] = "waiting" /\ id'[u] = n
    BY <1>1, <2>1, <2>2
  <2>4. QED
    BY <2>3 DEF PendingIsWaiting
<1>3. QED
  BY <1>2 DEF TaskInv

LEMMA RegisterTasks ==
  ASSUME CacheInv, NEW t \in Tasks, RegisterCall(t)
  PROVE  TaskInv'
<1> USE DEF RegisterCall, CacheInv, CallTypes
<1>1. \A u \in Tasks : call'[u] = "waiting" <=> call[u] = "waiting" \/ u = t
  OBVIOUS
<1>2. PendingIsWaiting'
  BY <1>1 DEF PendingIsWaiting, TaskInv
<1>3. QED
  BY <1>2 DEF TaskInv

LEMMA ResultTasks ==
  ASSUME CacheInv, Result
  PROVE  TaskInv'
<1> DEFINE n == Head(toBridge).id
<1> USE DEF CacheInv, CallTypes
<1>1. /\ pending' = pending \ {n} /\ UNCHANGED id
      /\ call' = [t \in Tasks |-> IF n \in pending /\ id[t] = n THEN "resolved" ELSE call[t]]
  BY DEF Result
<1> HIDE DEF n
<1>2. \A m : m \in pending <=> \E u \in Tasks : call[u] = "waiting" /\ id[u] = m
  BY DEF TaskInv, PendingIsWaiting
<1>3. \A u \in Tasks : call'[u] = "waiting" <=> call[u] = "waiting" /\ id[u] # n
  BY <1>1, <1>2
<1>4. \A m : m \in pending' <=> \E u \in Tasks : call'[u] = "waiting" /\ id'[u] = m
  BY <1>1, <1>2, <1>3
<1>5. PendingIsWaiting'
  BY <1>4 DEF PendingIsWaiting
<1>6. \A t \in Tasks : call'[t] \in {"sent", "waiting"} => call[t] \in {"sent", "waiting"}
  BY <1>1
<1>7. QED
  BY <1>1, <1>5, <1>6 DEF TaskInv

LEMMA DisconnectTasks ==
  ASSUME CacheInv, Disconnect
  PROVE  TaskInv'
<1> USE DEF CacheInv, CallTypes
<1>1. /\ pending' = {} /\ UNCHANGED id
      /\ \A t \in Tasks : call'[t] \in {"failed", call[t]} /\ (id[t] \in pending => call'[t] = "failed")
  BY DEF Disconnect
<1>2. \A t \in Tasks : call'[t] # "waiting"
  BY <1>1 DEF TaskInv, PendingIsWaiting
<1>3. PendingIsWaiting'
  BY <1>1, <1>2 DEF PendingIsWaiting
<1>4. QED
  BY <1>1, <1>3 DEF TaskInv

LEMMA TaskNames == Connector \in Tasks /\ Loop \in Tasks /\ Callers \subseteq Tasks
BY DEF Tasks

\* The cache, HA's entities and what is under way are as before.
LEMMA StillFollows ==
  ASSUME CacheInv, UNCHANGED <<toBridge, version, exists, cache, missed>>,
         phase' \in {"subscribing", "up"} => phase \in {"subscribing", "up"}
  PROVE  LastInv' /\ FollowInv'
BY DEF CacheInv, LastInv, FollowInv, UnderWay, Shown

LEMMA StillLoads ==
  ASSUME CacheInv, UNCHANGED <<toBridge, version, exists, cache, missed, id>>,
         phase' \in {"opening", "loading"} => phase' = phase,
         call'[Connector] = "resolved" => call[Connector] = "resolved",
         reply'[Connector] = reply[Connector]
  PROVE  LoadInv'
BY DEF CacheInv, LoadInv, ShowsAll, Shown

LEMMA ConnectCache ==
  ASSUME BridgeInv, CacheInv, Connect
  PROVE  CacheInv'
<1> USE TaskNames DEF BridgeInv, bridgeVars, callVars, netVars, haVars
<1>1. CASE Authenticated \/ ConnectFails
  <2>1. CallTypes' /\ IdInv' /\ TaskInv'
    <3>1. UNCHANGED <<cache, exists, callVars, toHA, toBridge>>
      BY <1>1 DEF Authenticated, ConnectFails
    <3>2. CallTypes' /\ IdInv'
      BY <3>1 DEF CacheInv, CallTypes, IdInv
    <3>3. TaskInv'
      BY <3>1 DEF CacheInv, TaskInv, PendingIsWaiting
    <3>4. QED
      BY <3>2, <3>3
  <2>2. PhaseInv'
    BY <1>1 DEF CacheInv, PhaseInv, Authenticated, ConnectFails
  <2>3. LoadInv'
    <3>1. CASE Authenticated
      <4>1. call[Connector] = "idle" /\ id[Connector] = 0 /\ UNCHANGED <<call, id, cache, toBridge>>
        BY <3>1 DEF CacheInv, PhaseInv, Authenticated
      <4>2. \A i \in 1 .. Len(toBridge) : toBridge[i].kind = "result" => toBridge[i].id # 0
        BY DEF CacheInv, IdInv, QueueTypes
      <4>3. \A e \in Entities : cache[e] = 0
        BY <3>1 DEF CacheInv, LoadInv, Authenticated
      <4>4. QED
        BY <4>1, <4>2, <4>3 DEF LoadInv
    <3>2. CASE ConnectFails
      BY <3>2 DEF LoadInv, ConnectFails
    <3>3. QED
      BY <1>1, <3>1, <3>2
  <2>4. LastInv' /\ FollowInv'
    BY <1>1, StillFollows DEF Authenticated, ConnectFails
  <2>5. QED
    BY <2>1, <2>2, <2>3, <2>4 DEF CacheInv
<1>2. CASE Load
  <2>1. CallTypes'
    BY <1>2 DEF Load, SendCall, CacheInv, CallTypes, CallStates, QueueTypes
  <2>2. IdInv' /\ TaskInv'
    BY <1>2, SendIds, SendTasks DEF Load
  <2>3. call'[Connector] = "sent" /\ id'[Connector] = msgId + 1 /\ kind'[Connector] = "states"
    BY <1>2 DEF Load, SendCall, CacheInv, CallTypes
  <2>4. PhaseInv'
    <3>1. phase = "loading" /\ UNCHANGED <<phase, subscribed, toBridge>>
      BY <1>2 DEF Load
    <3>2. \A i \in 1 .. Len(toHA') : toHA'[i].kind # "subscribe"
      BY <1>2, <3>1, SendPhase DEF Load, CacheInv, PhaseInv
    <3>3. QED
      BY <2>3, <3>1, <3>2 DEF CacheInv, PhaseInv, QueueTypes
  <2>5. LoadInv'
    <3>1. UNCHANGED <<phase, cache, toBridge>>
      BY <1>2 DEF Load
    <3>2. \A i \in 1 .. Len(toBridge) : toBridge[i].kind = "result" => toBridge[i].id # msgId + 1
      BY DEF CacheInv, IdInv, QueueTypes
    <3>3. QED
      BY <2>3, <3>1, <3>2 DEF CacheInv, LoadInv
  <2>6. LastInv' /\ FollowInv'
    BY <1>2, StillFollows DEF Load
  <2>7. QED
    BY <2>1, <2>2, <2>4, <2>5, <2>6 DEF CacheInv
<1>3. CASE Loaded
  <2>1. CallTypes'
    BY <1>3 DEF Loaded, Returns, EndCall, CacheInv, CallTypes, CallStates, LoadInv, ShowsAll
  <2>2. TaskInv'
    BY <1>3, EndTasks DEF Loaded, Returns
  <2>3. IdInv' /\ PhaseInv'
    BY <1>3 DEF Loaded, Returns, EndCall, CacheInv, CallTypes, IdInv, PhaseInv
  <2>4. LoadInv' /\ LastInv'
    BY <1>3 DEF Loaded, Returns, EndCall, CacheInv, LoadInv, LastInv, UnderWay, Shown
  <2>5. FollowInv'
    BY <1>3 DEF Loaded, Returns, EndCall, CacheInv, LoadInv, FollowInv, ShowsAll, Shown
  <2>6. QED
    BY <2>1, <2>2, <2>3, <2>4, <2>5 DEF CacheInv
<1>4. CASE LoadFails
  <2>1. CallTypes'
    BY <1>4 DEF LoadFails, TimesOut, EndCall, CacheInv, CallTypes, CallStates
  <2>2. TaskInv'
    BY <1>4, EndTasks DEF LoadFails, TimesOut
  <2>3. IdInv' /\ PhaseInv'
    BY <1>4 DEF LoadFails, TimesOut, EndCall, CacheInv, CallTypes, IdInv, PhaseInv
  <2>4. LoadInv' /\ LastInv' /\ FollowInv'
    BY <1>4, StillFollows DEF LoadFails, TimesOut, EndCall, LoadInv
  <2>5. QED
    BY <2>1, <2>2, <2>3, <2>4 DEF CacheInv
<1>5. CASE Subscribe
  <2>1. CallTypes' /\ TaskInv'
    BY <1>5 DEF Subscribe, CacheInv, CallTypes, TaskInv, PendingIsWaiting
  <2> DEFINE q == [id |-> msgId + 1, kind |-> "subscribe"]
  <2>2. q \in Query /\ q.id = msgId + 1 /\ msgId' = msgId + 1 /\ toHA \in Seq(Query) /\ msgId \in Nat
    BY <1>5 DEF QueueTypes, Query, Subscribe
  <2>3. toHA' = toHA \/ toHA' = Append(toHA, q)
    BY <1>5 DEF Subscribe
  <2> HIDE DEF q
  <2>4. toHA' = Append(toHA, q) =>
          /\ Len(toHA') = Len(toHA) + 1 /\ Len(toHA) \in Nat
          /\ toHA'[Len(toHA')] = q
          /\ \A i \in 1 .. Len(toHA) : toHA'[i] = toHA[i]
    BY <2>2
  <2>5. UNCHANGED <<id, toBridge>> /\ id \in [Tasks -> Nat]
    BY <1>5 DEF Subscribe, CacheInv, CallTypes
  <2>6. IdInv'
    <3>1. CASE toHA' = toHA
      <4>1. \A n \in 1 .. msgId : n \in 1 .. msgId'
        BY <2>2
      <4>2. \A t \in Tasks : id'[t] <= msgId'
        BY <2>2, <2>5 DEF CacheInv, IdInv
      <4>3. id' = id /\ toBridge' = toBridge
        BY <2>5
      <4>4. QED
        BY <3>1, <4>1, <4>2, <4>3 DEF CacheInv, IdInv
    <3>2. CASE toHA' = Append(toHA, q)
      <4>1. \A i \in 1 .. Len(toHA') : i \in 1 .. Len(toHA) \/ toHA'[i] = q
        BY <2>4, <3>2
      <4>2. \A t \in Tasks : id[t] < msgId'
        BY <2>2, <2>5 DEF CacheInv, IdInv
      <4>3. \A i \in 1 .. Len(toHA') :
              /\ toHA'[i].id \in 1 .. msgId'
              /\ toHA'[i].id = id[Connector] => toHA'[i].kind = "states"
        BY <2>2, <2>4, <3>2, <4>1, <4>2 DEF CacheInv, IdInv
      <4>4. \A i, j \in 1 .. Len(toHA') : i < j => toHA'[i].id < toHA'[j].id
        <5>1. TAKE i, j \in 1 .. Len(toHA')
        <5>2. HAVE i < j
        <5>3. i \in 1 .. Len(toHA) /\ toHA'[i] = toHA[i] /\ toHA[i].id \in 1 .. msgId
          BY <2>4, <3>2, <5>2 DEF CacheInv, IdInv
        <5>4. CASE j \in 1 .. Len(toHA)
          BY <2>4, <3>2, <5>2, <5>3, <5>4 DEF CacheInv, IdInv
        <5>5. CASE toHA'[j] = q
          BY <2>2, <5>3, <5>5
        <5>6. QED
          BY <4>1, <5>4, <5>5
      <4>5. \A i \in 1 .. Len(toBridge) : toBridge[i].kind = "result" =>
              /\ toBridge[i].id \in 1 .. msgId'
              /\ \A j \in 1 .. Len(toHA') : toHA'[j].id # toBridge[i].id
        BY <2>2, <2>4, <3>2, <4>1 DEF CacheInv, IdInv
      <4>6. QED
        BY <2>2, <2>5, <4>2, <4>3, <4>4, <4>5 DEF IdInv
    <3>3. QED
      BY <2>3, <3>1, <3>2
  <2>7. PhaseInv'
    <3>1. /\ phase = "subscribing" /\ phase' \in {"up", "failed"}
          /\ phase' = "failed" => toHA' = toHA
          /\ UNCHANGED <<call, kind, subscribed>>
      BY <1>5 DEF Subscribe
    <3>2. call[Connector] = "done" /\ id[Connector] <= msgId
      BY <3>1 DEF CacheInv, PhaseInv, IdInv
    <3>3. \A i \in 1 .. Len(toHA') : toHA'[i].id # id[Connector]
      <4>1. \A i \in 1 .. Len(toHA) : toHA[i].id # id[Connector]
        BY <3>2 DEF CacheInv, PhaseInv
      <4>2. q.id # id[Connector]
        BY <2>2, <2>5, <3>2
      <4>3. QED
        BY <2>3, <2>4, <4>1, <4>2
    <3>4. QED
      BY <2>5, <3>1, <3>2, <3>3 DEF CacheInv, PhaseInv
  <2>8. LoadInv' /\ LastInv' /\ FollowInv'
    BY <1>5, StillFollows DEF Subscribe, LoadInv
  <2>9. QED
    BY <2>1, <2>6, <2>7, <2>8 DEF CacheInv
<1>6. QED
  BY <1>1, <1>2, <1>3, <1>4, <1>5 DEF Connect

\* A message that is read: those that stay are the ones that were there.
LEMMA Dropped ==
  ASSUME BridgeInv, NEW k, Arrives(k)
  PROVE  /\ DOMAIN toBridge = 1 .. Len(toBridge) /\ DOMAIN toBridge' = 1 .. Len(toBridge')
         /\ \A i \in 1 .. Len(toBridge') : \E j \in 1 .. Len(toBridge) : toBridge'[i] = toBridge[j]
         /\ \A i \in 1 .. Len(toBridge) :
              i = 1 \/ (i - 1 \in 1 .. Len(toBridge') /\ toBridge'[i - 1] = toBridge[i])
<1>1. /\ toBridge' \in Seq(Message) /\ toBridge \in Seq(Message)
      /\ \A i \in 1 .. Len(toBridge') :
           toBridge'[i] = toBridge[i + 1] /\ i + 1 \in 1 .. Len(toBridge)
  BY ArrivesKeeps DEF BridgeInv, QueueTypes
<1>2. Len(toBridge') = Len(toBridge) - 1 /\ Len(toBridge) \in Nat
  BY <1>1 DEF Arrives
<1>3. \A i \in 1 .. Len(toBridge) : i = 1 \/ (i - 1 \in 1 .. Len(toBridge') /\ i = (i - 1) + 1)
  BY <1>2
<1>4. \A i \in 1 .. Len(toBridge) :
        i = 1 \/ (i - 1 \in 1 .. Len(toBridge') /\ toBridge'[i - 1] = toBridge[i])
  BY <1>1, <1>3
<1>5. DOMAIN toBridge = 1 .. Len(toBridge) /\ DOMAIN toBridge' = 1 .. Len(toBridge')
  BY <1>1
<1>6. \A i \in 1 .. Len(toBridge') : \E j \in 1 .. Len(toBridge) : toBridge'[i] = toBridge[j]
  BY <1>1
<1>7. QED
  BY <1>4, <1>5, <1>6

LEMMA DroppedLast ==
  ASSUME BridgeInv, CacheInv, NEW k, Arrives(k), UNCHANGED <<version, exists, missed>>
  PROVE  LastInv'
<1>0. \A e : (UnderWay(e)' # {} => UnderWay(e) # {}) /\ Shown(e)' = Shown(e)
  BY Dropped DEF UnderWay, Shown
<1>1. SUFFICES ASSUME NEW e \in Entities, NEW i \in 1 .. Len(toBridge'),
                      toBridge'[i].kind = "state" /\ toBridge'[i].e = e,
                      \A j \in 1 .. Len(toBridge') :
                        toBridge'[j].kind = "state" /\ toBridge'[j].e = e => j <= i
               PROVE  toBridge'[i].v = Shown(e)'
  <2>1. \A e \in Entities : e \in Own /\ UnderWay(e)' # {} /\ Shown(e)' # 0 => e \in missed'
    BY <1>0 DEF CacheInv, LastInv
  <2>2. QED
    BY <2>1, Dropped DEF LastInv, UnderWay
<1>2. i + 1 \in 1 .. Len(toBridge) /\ toBridge'[i] = toBridge[i + 1] /\ i \in Nat
  BY ArrivesKeeps
<1>3. \A j \in 1 .. Len(toBridge) : toBridge[j].kind = "state" /\ toBridge[j].e = e => j <= i + 1
  <2>1. TAKE j \in 1 .. Len(toBridge)
  <2>2. CASE j = 1
    BY <1>2, <2>2
  <2>3. CASE j - 1 \in 1 .. Len(toBridge') /\ toBridge'[j - 1] = toBridge[j]
    BY <1>1, <1>2, <2>3
  <2>4. QED
    BY <2>2, <2>3, Dropped
<1>4. QED
  BY <1>1, <1>2, <1>3, Dropped DEF CacheInv, LastInv, UnderWay, Shown

\* A message that is no state change leaves the cache.
LEMMA DroppedFollows ==
  ASSUME BridgeInv, CacheInv, NEW k, Arrives(k), k # "state",
         UNCHANGED <<version, exists, cache, missed, phase>>
  PROVE  FollowInv'
<1>1. ASSUME NEW e \in Entities, UnderWay(e) # {} PROVE UnderWay(e)' # {}
  <2>1. PICK i \in UnderWay(e) : TRUE
    BY <1>1
  <2>2. i # 1
    BY <2>1, ArrivesKeeps DEF UnderWay
  <2>3. i - 1 \in UnderWay(e)'
    BY <2>1, <2>2, Dropped DEF UnderWay
  <2>4. QED
    BY <2>3
<1>2. QED
  BY <1>1 DEF CacheInv, FollowInv, Shown

\* Fewer messages to the bridge, the same to HA.
LEMMA FewerIds ==
  ASSUME CacheInv, UNCHANGED <<id, msgId, toHA>>,
         \A i \in 1 .. Len(toBridge') : \E j \in 1 .. Len(toBridge) : toBridge'[i] = toBridge[j]
  PROVE  IdInv'
BY DEF CacheInv, IdInv

LEMMA FewerLoads ==
  ASSUME CacheInv, UNCHANGED <<phase, version, exists, missed, id, cache, reply>>,
         call'[Connector] = "resolved" => call[Connector] = "resolved",
         \A i \in 1 .. Len(toBridge') : \E j \in 1 .. Len(toBridge) : toBridge'[i] = toBridge[j]
  PROVE  LoadInv'
<1>1. \A e : Shown(e)' = Shown(e)
  BY DEF Shown
<1>2. \A s : ShowsAll(s)' <=> ShowsAll(s)
  BY <1>1 DEF ShowsAll
<1>3. QED
  BY <1>2 DEF CacheInv, LoadInv

\* The variables of the cache are as before.
LEMMA SameCache ==
  ASSUME CacheInv, UNCHANGED <<phase, cache, callVars, netVars, haVars>>
  PROVE  CacheInv'
<1> USE DEF CacheInv, callVars, netVars, haVars
<1>1. CallTypes' /\ TaskInv' /\ IdInv' /\ PhaseInv'
  BY DEF CallTypes, TaskInv, PendingIsWaiting, IdInv, PhaseInv
<1>2. LoadInv' /\ LastInv' /\ FollowInv'
  BY DEF LoadInv, ShowsAll, LastInv, FollowInv, UnderWay, Shown
<1>3. QED
  BY <1>1, <1>2

\* A call of a task that is not connect().
LEMMA SendTypes ==
  ASSUME BridgeInv, CacheInv, UNCHANGED <<cache, exists>>, NEW t \in Tasks,
         NEW k \in {"states", "service", "mutate", "registry"}, SendCall(t, k)
  PROVE  CallTypes'
BY DEF BridgeInv, QueueTypes, CacheInv, CallTypes, CallStates, SendCall

LEMMA SendOther ==
  ASSUME BridgeInv, CacheInv, UNCHANGED <<phase, cache, haVars>>, NEW t \in Tasks, t # Connector,
         NEW k \in {"service", "mutate", "registry"}, SendCall(t, k),
         \A i \in 1 .. Len(toBridge') : \E j \in 1 .. Len(toBridge) : toBridge'[i] = toBridge[j]
  PROVE  PhaseInv' /\ LoadInv'
<1> USE TaskNames DEF haVars
<1>1. UNCHANGED <<call[Connector], id[Connector], kind[Connector], reply[Connector]>>
  BY DEF SendCall, CacheInv, CallTypes
<1>2. PhaseInv'
  <2> DEFINE q == [id |-> msgId + 1, kind |-> k]
  <2>1. q \in Query /\ q.id = msgId + 1 /\ q.kind # "subscribe" /\ toHA \in Seq(Query)
    BY DEF Query, BridgeInv, QueueTypes
  <2>2. toHA' = Append(toHA, q)
    BY DEF SendCall
  <2> HIDE DEF q
  <2>3. \A i \in 1 .. Len(toHA') : toHA'[i] = q \/ \E j \in 1 .. Len(toHA) : toHA'[i] = toHA[j]
    BY <2>1, <2>2
  <2>4. q.id # id[Connector]
    BY <2>1 DEF CacheInv, IdInv, CallTypes, BridgeInv, QueueTypes
  <2>5. QED
    BY <1>1, <2>1, <2>3, <2>4 DEF CacheInv, PhaseInv
<1>3. LoadInv'
  <2>1. \A s : ShowsAll(s)' <=> ShowsAll(s)
    BY DEF ShowsAll, Shown
  <2>2. QED
    BY <1>1, <2>1 DEF CacheInv, LoadInv
<1>4. QED
  BY <1>2, <1>3

LEMMA EndOther ==
  ASSUME CacheInv, UNCHANGED <<phase, cache, netVars, haVars>>, NEW t \in Tasks, t # Connector,
         NEW outcome \in {"done", "failed"}, EndCall(t, outcome), call[t] \in {"waiting", "resolved"}
  PROVE  CacheInv'
<1> USE TaskNames DEF netVars, haVars
<1>1. CallTypes' /\ TaskInv'
  BY EndTasks DEF EndCall, CacheInv, CallTypes, CallStates
<1>2. call'[Connector] = call[Connector] /\ UNCHANGED <<msgId, id, kind, reply>>
  BY DEF EndCall, CacheInv, CallTypes
<1>3. IdInv' /\ PhaseInv'
  BY <1>2 DEF CacheInv, IdInv, PhaseInv
<1>4. LoadInv' /\ LastInv' /\ FollowInv'
  BY <1>2, StillFollows, StillLoads
<1>5. QED
  BY <1>1, <1>3, <1>4 DEF CacheInv

LEMMA EventLoopCache ==
  ASSUME BridgeInv, CacheInv, EventLoop
  PROVE  CacheInv'
<1> USE TaskNames DEF bridgeVars, callVars, netVars, haVars
<1>1. CASE Result
  <2> DEFINE m == Head(toBridge)
  <2>1. /\ m \in Message /\ m.kind = "result" /\ m = toBridge[1] /\ 1 \in 1 .. Len(toBridge)
        /\ m.id \in Nat /\ m.states \in [Entities -> Nat] \cup {<<>>}
    BY <1>1, ArrivesKeeps DEF Result, Message, StateMessage
  <2>2. /\ pending' = pending \ {m.id}
        /\ call' = [t \in Tasks |-> IF m.id \in pending /\ id[t] = m.id THEN "resolved" ELSE call[t]]
        /\ reply' = [t \in Tasks |-> IF m.id \in pending /\ id[t] = m.id THEN m.states ELSE reply[t]]
        /\ UNCHANGED <<bridgeVars, msgId, id, kind, link, toHA, haVars, relayed>>
    BY <1>1 DEF Result
  <2>3. \A j \in 1 .. Len(toHA) : toHA[j].id # m.id
    BY <2>1 DEF CacheInv, IdInv
  <2> HIDE DEF m
  <2>4. CallTypes'
    BY <2>1, <2>2 DEF CacheInv, CallTypes, CallStates
  <2>5. IdInv' /\ TaskInv'
    BY <1>1, <2>2, Dropped, FewerIds, ResultTasks DEF Result
  <2>6. m.id \in pending /\ id[Connector] = m.id =>
          call[Connector] = "waiting"
    BY DEF CacheInv, TaskInv, PendingIsWaiting
  <2>7. PhaseInv'
    <3>1. \/ call'[Connector] = call[Connector]
          \/ call'[Connector] = "resolved" /\ call[Connector] = "waiting" /\ id[Connector] = m.id
      BY <2>2, <2>6 DEF CacheInv, CallTypes
    <3>2. call'[Connector] \in {"resolved", "done"} =>
            \A i \in 1 .. Len(toHA) : toHA[i].id # id[Connector]
      BY <2>3, <3>1 DEF CacheInv, PhaseInv
    <3>3. \A i \in 1 .. Len(toBridge') : \E j \in 1 .. Len(toBridge) : toBridge'[i] = toBridge[j]
      BY <1>1, Dropped DEF Result
    <3>4. QED
      BY <2>2, <3>1, <3>2, <3>3 DEF CacheInv, PhaseInv
  <2>8. LoadInv'
    <3>1. \A s : ShowsAll(s)' <=> ShowsAll(s)
      BY <2>2 DEF ShowsAll, Shown
    <3>2. \A i \in 1 .. Len(toBridge') : \E j \in 1 .. Len(toBridge) : toBridge'[i] = toBridge[j]
      BY <1>1, Dropped DEF Result
    <3>3. \/ UNCHANGED <<call[Connector], reply[Connector]>>
          \/ id[Connector] = m.id /\ reply'[Connector] = m.states
      BY <2>2 DEF CacheInv, CallTypes
    <3>4. QED
      BY <2>1, <2>2, <3>1, <3>2, <3>3 DEF CacheInv, LoadInv
  <2>9. LastInv' /\ FollowInv'
    BY <1>1, <2>2, DroppedLast, DroppedFollows DEF Result
  <2>10. QED
    BY <2>4, <2>5, <2>7, <2>8, <2>9 DEF CacheInv
<1>2. CASE StateChanged
  <2> DEFINE m == Head(toBridge)
  <2>1. /\ m \in StateMessage /\ m.kind = "state" /\ m = toBridge[1] /\ 1 \in 1 .. Len(toBridge)
        /\ m.e \in Entities /\ m.v \in Nat
    BY <1>2, ArrivesKeeps DEF StateChanged, Message, StateMessage
  <2>2. /\ cache' = [cache EXCEPT ![m.e] = m.v] \/ (cache' = cache /\ m.v # 0 /\ m.e \in Own)
        /\ UNCHANGED <<phase, callbacks, callVars, link, toHA, haVars, relayed>>
    <3>1. cache' = IF Taken(m) THEN [cache EXCEPT ![m.e] = m.v] ELSE cache
      BY <1>2 DEF StateChanged
    <3>2. cache' = [cache EXCEPT ![m.e] = m.v] \/ (cache' = cache /\ m.v # 0 /\ m.e \in Own)
      <4>1. CASE Taken(m)
        BY <3>1, <4>1
      <4>2. CASE ~Taken(m)
        BY <3>1, <4>2 DEF Taken
      <4>3. QED
        BY <4>1, <4>2
    <3>3. QED
      BY <1>2, <3>2 DEF StateChanged
  <2>3. \A i \in 1 .. Len(toBridge') : \E j \in 1 .. Len(toBridge) : toBridge'[i] = toBridge[j]
    BY <1>2, Dropped DEF StateChanged
  <2>4. phase \in {"up", "closed"}
    BY <2>1 DEF CacheInv, PhaseInv
  <2> HIDE DEF m
  <2>5. CallTypes' /\ TaskInv'
    BY <2>1, <2>2 DEF CacheInv, CallTypes, TaskInv, PendingIsWaiting
  <2>6. IdInv'
    BY <2>2, <2>3, FewerIds
  <2>7. PhaseInv' /\ LoadInv'
    BY <2>2, <2>3, <2>4 DEF CacheInv, PhaseInv, LoadInv
  <2>8. LastInv'
    BY <1>2, <2>2, DroppedLast DEF StateChanged
  <2>9. FollowInv'
    <3>1. ASSUME NEW e \in Entities, phase = "up"
          PROVE  cache'[e] = Shown(e) \/ UnderWay(e)' # {} \/ e \in missed
      <4>1. CASE UnderWay(e) \subseteq {1}
        <5>1. CASE e = m.e
          <6>1. 1 \in UnderWay(e)
            BY <2>1, <5>1 DEF UnderWay, BridgeInv, QueueTypes
          <6>2. m.v = Shown(e)
            BY <2>1, <4>1, <6>1 DEF CacheInv, LastInv
          <6>3. m.v # 0 /\ m.e \in Own => e \in missed
            BY <5>1, <6>1, <6>2 DEF CacheInv, LastInv
          <6>4. QED
            BY <2>2, <5>1, <6>2, <6>3 DEF CacheInv, CallTypes
        <5>2. CASE e # m.e
          BY <2>1, <2>2, <3>1, <4>1, <5>2 DEF CacheInv, CallTypes, FollowInv, UnderWay
        <5>3. QED
          BY <5>1, <5>2
      <4>2. CASE ~(UnderWay(e) \subseteq {1})
        <5>1. PICK i \in UnderWay(e) : i # 1
          BY <4>2
        <5>2. Arrives("state")
          BY <1>2 DEF StateChanged
        <5>3. i - 1 \in UnderWay(e)'
          BY <5>1, <5>2, Dropped DEF UnderWay
        <5>4. QED
          BY <5>3
      <4>3. QED
        BY <4>1, <4>2
    <3>2. QED
      BY <2>2, <2>4, <3>1 DEF FollowInv, Shown
  <2>10. QED
    BY <2>5, <2>6, <2>7, <2>8, <2>9 DEF CacheInv
<1>3. CASE Forwarded \/ LoopEnds
  <2>1. UNCHANGED <<phase, cache, callVars, netVars, haVars>>
    BY <1>3 DEF Forwarded, LoopEnds
  <2>2. QED
    BY <2>1, SameCache
<1>4. CASE RegistryUpdated
  <2>1. /\ Arrives("registry") /\ UNCHANGED <<phase, cache, pending, haVars>>
        /\ SendCall(Loop, "registry") \/ UNCHANGED <<msgId, call, id, kind, reply, toHA>>
    BY <1>4 DEF RegistryUpdated
  <2>2. \A i \in 1 .. Len(toBridge') : \E j \in 1 .. Len(toBridge) : toBridge'[i] = toBridge[j]
    BY <2>1, Dropped
  <2>3. LastInv' /\ FollowInv'
    BY <2>1, DroppedLast, DroppedFollows
  <2>4. CASE UNCHANGED <<msgId, call, id, kind, reply, toHA>>
    <3>1. CallTypes' /\ TaskInv'
      BY <2>1, <2>4 DEF CacheInv, CallTypes, TaskInv, PendingIsWaiting
    <3>2. PhaseInv'
      BY <2>1, <2>2, <2>4 DEF CacheInv, PhaseInv
    <3>3. QED
      BY <2>1, <2>2, <2>3, <2>4, <3>1, <3>2, FewerIds, FewerLoads DEF CacheInv
  <2>5. CASE SendCall(Loop, "registry")
    <3>1. CallTypes' /\ TaskInv'
      BY <2>1, <2>5, SendTypes, SendTasks
    <3>2. IdInv'
      BY <2>2, <2>5, SendIds
    <3>3. PhaseInv' /\ LoadInv'
      BY <2>1, <2>2, <2>5, SendOther
    <3>4. QED
      BY <2>3, <3>1, <3>2, <3>3 DEF CacheInv
  <2>6. QED
    BY <2>1, <2>4, <2>5
<1>5. CASE LoopReturns
  BY <1>5, EndOther DEF LoopReturns, Returns, TimesOut
<1>6. QED
  BY <1>1, <1>2, <1>3, <1>4, <1>5 DEF EventLoop

LEMMA OthersCache ==
  ASSUME BridgeInv, CacheInv, Others
  PROVE  CacheInv'
<1> USE TaskNames DEF bridgeVars, callVars, netVars, haVars
<1>1. ASSUME NEW t \in Tasks, RegisterCall(t) PROVE CacheInv'
  <2>1. CallTypes' /\ TaskInv'
    BY <1>1, RegisterTasks DEF RegisterCall, CacheInv, CallTypes, CallStates
  <2>2. IdInv' /\ PhaseInv'
    BY <1>1 DEF RegisterCall, CacheInv, CallTypes, IdInv, PhaseInv
  <2>3. LoadInv' /\ LastInv' /\ FollowInv'
    BY <1>1, StillFollows, StillLoads DEF RegisterCall, CacheInv, CallTypes
  <2>4. QED
    BY <2>1, <2>2, <2>3 DEF CacheInv
<1>2. ASSUME NEW t \in Callers, CallerAsks(t) PROVE CacheInv'
  <2>1. PICK k \in {"service", "mutate"} : SendCall(t, k)
    BY <1>2 DEF CallerAsks
  <2>2. UNCHANGED <<bridgeVars, pending, link, toBridge, haVars>>
    BY <1>2 DEF CallerAsks
  <2>3. t \in Tasks /\ t # Connector
    BY DEF Tasks
  <2>4. CallTypes' /\ TaskInv' /\ IdInv'
    BY <2>1, <2>2, <2>3, SendTypes, SendTasks, SendIds
  <2>5. PhaseInv' /\ LoadInv'
    BY <2>1, <2>2, <2>3, SendOther
  <2>6. LastInv' /\ FollowInv'
    BY <2>2, StillFollows
  <2>7. QED
    BY <2>4, <2>5, <2>6 DEF CacheInv
<1>3. ASSUME NEW t \in Callers, CallerGoesOn(t) PROVE CacheInv'
  BY <1>3, EndOther DEF CallerGoesOn, Returns, TimesOut, Tasks
<1>4. QED
  BY <1>1, <1>2, <1>3 DEF Others

LEMMA AppendFacts ==
  ASSUME NEW S, NEW s \in Seq(S), NEW x \in S
  PROVE  /\ Append(s, x) \in Seq(S) /\ Append(s, x) = s \o <<x>>
         /\ Append(s, x) = s \o <<x>> \o <<>>
         /\ Len(Append(s, x)) = Len(s) + 1 /\ Len(s) \in Nat
         /\ \A i \in 1 .. Len(s) : i \in 1 .. Len(Append(s, x)) /\ Append(s, x)[i] = s[i]
         /\ \A i \in 1 .. Len(Append(s, x)) : i \in 1 .. Len(s) \/ Append(s, x)[i] = x
OBVIOUS

\* Messages that are no state changes go behind the others.
LEMMA AddedFollows ==
  ASSUME BridgeInv, CacheInv, UNCHANGED <<phase, cache, version, exists>>,
         \A e \in Entities : e \in missed => e \in missed',
         toBridge' \in Seq(Message),
         \A i \in 1 .. Len(toBridge) : i \in 1 .. Len(toBridge') /\ toBridge'[i] = toBridge[i],
         \A i \in 1 .. Len(toBridge') : i \in 1 .. Len(toBridge) \/ toBridge'[i].kind # "state"
  PROVE  LastInv' /\ FollowInv'
<1>1. DOMAIN toBridge = 1 .. Len(toBridge) /\ DOMAIN toBridge' = 1 .. Len(toBridge')
  BY DEF BridgeInv, QueueTypes
<1>2. \A e, i :
        i \in 1 .. Len(toBridge') /\ toBridge'[i].kind = "state" /\ toBridge'[i].e = e
          <=> i \in 1 .. Len(toBridge) /\ toBridge[i].kind = "state" /\ toBridge[i].e = e
  OBVIOUS
<1>3. LastInv'
  BY <1>1, <1>2 DEF CacheInv, LastInv, UnderWay, Shown
<1>4. FollowInv'
  BY <1>1, <1>2 DEF CacheInv, FollowInv, UnderWay, Shown
<1>5. QED
  BY <1>3, <1>4

LEMMA LostCache ==
  ASSUME BridgeInv, CacheInv, ConnectionLost
  PROVE  CacheInv'
<1> USE DEF bridgeVars, callVars, netVars, haVars
<1>1. toHA' = <<>> /\ UNCHANGED <<bridgeVars, callVars, toBridge, haVars>>
  BY DEF ConnectionLost
<1>2. 1 .. Len(toHA') = {}
  BY <1>1
<1>3. CallTypes' /\ TaskInv'
  BY <1>1 DEF CacheInv, CallTypes, TaskInv, PendingIsWaiting
<1>4. IdInv' /\ PhaseInv'
  BY <1>1, <1>2 DEF CacheInv, IdInv, PhaseInv
<1>5. LoadInv' /\ LastInv' /\ FollowInv'
  BY <1>1, StillLoads, StillFollows
<1>6. QED
  BY <1>3, <1>4, <1>5 DEF CacheInv

LEMMA RegistryCache ==
  ASSUME BridgeInv, CacheInv, HARegistryChanges
  PROVE  CacheInv'
<1> USE DEF bridgeVars, callVars, netVars, haVars
<1> DEFINE m == [kind |-> "registry"]
<1>1. toBridge' = Append(toBridge, m) /\ UNCHANGED <<bridgeVars, callVars, toHA, haVars>> /\ subscribed
  BY DEF HARegistryChanges
<1>2. m \in Message /\ m.kind = "registry" /\ toBridge \in Seq(Message)
  BY DEF Message, BridgeInv, QueueTypes
<1> HIDE DEF m
<1>3. /\ toBridge' \in Seq(Message)
      /\ \A i \in 1 .. Len(toBridge) : i \in 1 .. Len(toBridge') /\ toBridge'[i] = toBridge[i]
      /\ \A i \in 1 .. Len(toBridge') : i \in 1 .. Len(toBridge) \/ toBridge'[i] = m
  BY <1>1, <1>2
<1>4. CallTypes' /\ TaskInv'
  BY <1>1 DEF CacheInv, CallTypes, TaskInv, PendingIsWaiting
<1>5. IdInv' /\ PhaseInv' /\ LoadInv'
  BY <1>1, <1>2, <1>3 DEF CacheInv, IdInv, PhaseInv, LoadInv
<1>6. LastInv' /\ FollowInv'
  BY <1>1, <1>2, <1>3, AddedFollows
<1>7. QED
  BY <1>4, <1>5, <1>6 DEF CacheInv

LEMMA ReadsCache ==
  ASSUME BridgeInv, CacheInv, HAReads
  PROVE  CacheInv'
<1> USE TaskNames DEF bridgeVars, callVars, netVars, haVars
<1>0. PICK s \in Answers(Head(toHA).kind) :
        /\ toBridge' = toBridge
             \o << [kind |-> "result", id |-> Head(toHA).id, states |-> s] >>
             \o (IF Head(toHA).kind = "mutate" /\ subscribed THEN << [kind |-> "registry"] >> ELSE <<>>)
        /\ missed' = IF Head(toHA).kind = "states" /\ s = <<>> THEN Entities ELSE missed
  BY DEF HAReads
<1> DEFINE m == Head(toHA)
           result == [kind |-> "result", id |-> m.id, states |-> s]
           registry == [kind |-> "registry"]
<1>1. /\ m \in Query /\ m = toHA[1] /\ 1 \in 1 .. Len(toHA) /\ toHA' = Tail(toHA)
      /\ toHA \in Seq(Query) /\ toHA' \in Seq(Query) /\ toBridge \in Seq(Message)
      /\ UNCHANGED <<bridgeVars, callVars, version, exists>>
      /\ subscribed' = (subscribed \/ m.kind = "subscribe")
      /\ \A e \in Entities : e \in missed => e \in missed'
  BY <1>0 DEF HAReads, BridgeInv, QueueTypes
<1>2. Len(toHA') = Len(toHA) - 1 /\ Len(toHA) \in Nat
  BY <1>1 DEF HAReads
<1>3. \A i \in 1 .. Len(toHA') : toHA'[i] = toHA[i + 1] /\ i + 1 \in 1 .. Len(toHA) /\ 1 < i + 1
  BY <1>1, <1>2
<1>4. /\ [e \in Entities |-> Shown(e)] \in [Entities -> Nat]
      /\ s = <<>> \/ (m.kind = "states" /\ s = [e \in Entities |-> Shown(e)])
  BY DEF Answers, Shown, BridgeInv, QueueTypes
<1>5. /\ result \in Message /\ result.kind = "result"
      /\ registry \in Message /\ registry.kind = "registry"
      /\ result.id = m.id
      /\ result.states = s
      /\ m.kind = "states" /\ s = <<>> => missed' = Entities
  BY <1>0, <1>1, <1>4 DEF Query, Message
<1>6. \/ toBridge' = toBridge \o <<result>> \o <<registry>>
      \/ toBridge' = toBridge \o <<result>> \o <<>>
  BY <1>0
<1> HIDE DEF m, result, registry
<1>7. /\ toBridge' \in Seq(Message)
      /\ \A i \in 1 .. Len(toBridge) : i \in 1 .. Len(toBridge') /\ toBridge'[i] = toBridge[i]
      /\ \A i \in 1 .. Len(toBridge') :
           i \in 1 .. Len(toBridge) \/ toBridge'[i] = result \/ toBridge'[i] = registry
  <2>1. toBridge \in Seq(Message) /\ result \in Message /\ registry \in Message
    BY <1>1, <1>5
  <2> DEFINE w == Append(toBridge, result)
  <2>2. w \in Seq(Message) /\ w = toBridge \o <<result>> /\ w = toBridge \o <<result>> \o <<>>
        /\ \A i \in 1 .. Len(toBridge) : i \in 1 .. Len(w) /\ w[i] = toBridge[i]
        /\ \A j \in 1 .. Len(w) : j \in 1 .. Len(toBridge) \/ w[j] = result
    BY <2>1, AppendFacts
  <2> HIDE DEF w
  <2> DEFINE u == Append(w, registry)
  <2>3. u \in Seq(Message) /\ u = w \o <<registry>>
        /\ \A i \in 1 .. Len(w) : i \in 1 .. Len(u) /\ u[i] = w[i]
        /\ \A j \in 1 .. Len(u) : j \in 1 .. Len(w) \/ u[j] = registry
    BY <2>1, <2>2, AppendFacts
  <2> HIDE DEF u
  <2>4. toBridge' = w \/ toBridge' = u
    BY <1>6, <2>2, <2>3
  <2>5. CASE toBridge' = w
    BY <2>2, <2>5
  <2>6. CASE toBridge' = u
    BY <2>2, <2>3, <2>6
  <2>7. QED
    BY <2>4, <2>5, <2>6
<1>8. CallTypes' /\ TaskInv'
  BY <1>1 DEF CacheInv, CallTypes, TaskInv, PendingIsWaiting
<1>9. m.id \in 1 .. msgId /\ (m.id = id[Connector] => m.kind = "states")
      /\ \A i \in 1 .. Len(toHA') : toHA'[i].id # m.id
  <2>1. m.id \in 1 .. msgId /\ (m.id = id[Connector] => m.kind = "states")
    BY <1>1 DEF CacheInv, IdInv
  <2>2. \A i \in 1 .. Len(toHA') : m.id < toHA'[i].id /\ toHA'[i].id \in 1 .. msgId
    BY <1>1, <1>3 DEF CacheInv, IdInv
  <2>3. QED
    BY <2>1, <2>2
<1>10. IdInv'
  <2>1. \A i \in 1 .. Len(toHA') :
          /\ toHA'[i].id \in 1 .. msgId
          /\ toHA'[i].id = id[Connector] => toHA'[i].kind = "states"
    BY <1>3 DEF CacheInv, IdInv
  <2>2. \A i, j \in 1 .. Len(toHA') : i < j => toHA'[i].id < toHA'[j].id
    <3>1. \A i, j \in 1 .. Len(toHA') : i < j => i + 1 < j + 1
      BY <1>2
    <3>2. QED
      BY <1>3, <3>1 DEF CacheInv, IdInv
  <2>3. \A i \in 1 .. Len(toBridge') : toBridge'[i].kind = "result" =>
          /\ toBridge'[i].id \in 1 .. msgId
          /\ \A j \in 1 .. Len(toHA') : toHA'[j].id # toBridge'[i].id
    <3>1. TAKE i \in 1 .. Len(toBridge')
    <3>2. CASE i \in 1 .. Len(toBridge) /\ toBridge'[i] = toBridge[i]
      BY <1>3, <3>2 DEF CacheInv, IdInv
    <3>3. CASE toBridge'[i] = result
      BY <1>5, <1>9, <3>3
    <3>4. CASE toBridge'[i] = registry
      BY <1>5, <3>4
    <3>5. QED
      BY <1>7, <3>2, <3>3, <3>4
  <2>4. QED
    BY <1>1, <2>1, <2>2, <2>3 DEF CacheInv, IdInv
<1>11. PhaseInv'
  <2>1. subscribed' => subscribed \/ phase \in {"up", "closed"}
    BY <1>1 DEF CacheInv, PhaseInv
  <2>2. QED
    <3>1. \A i \in 1 .. Len(toHA') : \E j \in 1 .. Len(toHA) : toHA'[i] = toHA[j]
      BY <1>3
    <3>2. UNCHANGED <<phase, call, id, kind>> /\ (~subscribed' => ~subscribed)
      BY <1>1
    <3>3. \A i \in 1 .. Len(toBridge') :
            toBridge'[i].kind = "state" => \E j \in 1 .. Len(toBridge) : toBridge'[i] = toBridge[j]
      BY <1>5, <1>7
    <3>4. phase \notin {"up", "closed"} => ~subscribed'
      BY <2>1 DEF CacheInv, PhaseInv
    <3>5. QED
      BY <3>1, <3>2, <3>3, <3>4 DEF CacheInv, PhaseInv
<1>12. LoadInv'
  <2>1. m.kind = "states" => ShowsAll(s)'
    <3>1. \A e : Shown(e)' = Shown(e)
      BY <1>1 DEF Shown
    <3>2. QED
      BY <1>4, <1>5, <3>1 DEF ShowsAll
  <2>2. \A r : ShowsAll(r) => ShowsAll(r)'
    BY <1>1 DEF ShowsAll, Shown
  <2>3. QED
    <3>1. UNCHANGED <<phase, call, id, reply, cache>>
      BY <1>1
    <3>2. result.id = id[Connector] => ShowsAll(s)'
      BY <1>5, <1>9, <2>1
    <3>3. \A i \in 1 .. Len(toBridge') : toBridge'[i].kind = "result" =>
            (\E j \in 1 .. Len(toBridge) : toBridge'[i] = toBridge[j]) \/ toBridge'[i] = result
      BY <1>5, <1>7
    <3>4. QED
      BY <1>5, <2>2, <3>1, <3>2, <3>3 DEF CacheInv, LoadInv
<1>13. LastInv' /\ FollowInv'
  <2>1. UNCHANGED <<phase, cache, version, exists>>
    BY <1>1
  <2>2. \A i \in 1 .. Len(toBridge') : i \in 1 .. Len(toBridge) \/ toBridge'[i].kind # "state"
    BY <1>5, <1>7
  <2>3. QED
    BY <1>1, <1>7, <2>1, <2>2, AddedFollows
<1>14. QED
  BY <1>8, <1>10, <1>11, <1>12, <1>13 DEF CacheInv

LEMMA ChangesCache ==
  ASSUME BridgeInv, CacheInv, NEW e \in Entities, HAChanges(e)
  PROVE  CacheInv'
<1> USE TaskNames DEF bridgeVars, callVars
<1>1. /\ version' = [version EXCEPT ![e] = @ + 1] /\ version \in [Entities -> Nat]
      /\ UNCHANGED <<bridgeVars, callVars, toHA, subscribed>>
  BY DEF HAChanges, BridgeInv, QueueTypes
<1>2. PICK b \in BOOLEAN : exists' = [exists EXCEPT ![e] = b]
  BY DEF HAChanges
<1>3. /\ \A f \in Entities : f # e => Shown(f)' = Shown(f)
      /\ Shown(e)' = IF exists'[e] THEN version[e] + 1 ELSE 0
      /\ Shown(e)' \in Nat
  BY <1>1, <1>2 DEF CacheInv, CallTypes, Shown
<1>4. CallTypes' /\ TaskInv'
  BY <1>1, <1>2 DEF CacheInv, CallTypes, TaskInv, PendingIsWaiting
<1>5. CASE subscribed
  <2> DEFINE m == [kind |-> "state", e |-> e, v |-> Shown(e)']
  <2>1. /\ toBridge' = Append(toBridge, m)
        /\ missed' = IF exists'[e] /\ e \in Own THEN missed \cup {e} ELSE missed \ {e}
    BY <1>3, <1>5 DEF HAChanges
  <2>2. m \in Message /\ m.kind = "state" /\ m.e = e /\ m.v = Shown(e)' /\ toBridge \in Seq(Message)
    BY <1>3 DEF Message, StateMessage, BridgeInv, QueueTypes
  <2>3. phase \in {"up", "closed"}
    BY <1>5 DEF CacheInv, PhaseInv
  <2> HIDE DEF m
  <2>4. /\ Len(toBridge') = Len(toBridge) + 1 /\ Len(toBridge) \in Nat
        /\ toBridge' \in Seq(Message) /\ toBridge'[Len(toBridge')] = m
        /\ DOMAIN toBridge = 1 .. Len(toBridge) /\ DOMAIN toBridge' = 1 .. Len(toBridge')
    BY <2>1, <2>2
  <2>5. /\ \A i \in 1 .. Len(toBridge) : i \in 1 .. Len(toBridge') /\ toBridge'[i] = toBridge[i]
        /\ \A i \in 1 .. Len(toBridge') : i \in 1 .. Len(toBridge) \/ i = Len(toBridge')
    BY <2>1, <2>2, <2>4
  <2>6. IdInv' /\ PhaseInv' /\ LoadInv'
    BY <1>1, <1>5, <2>2, <2>3, <2>4, <2>5 DEF CacheInv, IdInv, PhaseInv, LoadInv
  <2>7. Len(toBridge') \in UnderWay(e)'
    BY <2>2, <2>4 DEF UnderWay
  <2>8. \A f \in Entities : f # e => UnderWay(f)' = UnderWay(f)
    BY <2>2, <2>4, <2>5 DEF UnderWay
  <2>9. LastInv'
    <3>0. \A f \in Entities : f \in Own /\ UnderWay(f)' # {} /\ Shown(f)' # 0 => f \in missed'
      BY <1>3, <2>1, <2>8 DEF CacheInv, LastInv
    <3> SUFFICES ASSUME NEW f \in Entities, NEW i \in UnderWay(f)', \A j \in UnderWay(f)' : j <= i
                 PROVE  toBridge'[i].v = Shown(f)'
      BY <3>0 DEF LastInv
    <3>1. CASE f = e
      <4>1. i = Len(toBridge')
        BY <2>4, <2>7, <3>1 DEF UnderWay
      <4>2. QED
        BY <2>2, <2>4, <3>1, <4>1
    <3>2. CASE f # e
      <4>1. i \in UnderWay(f) /\ \A j \in UnderWay(f) : j <= i
        BY <2>8, <3>2
      <4>2. i \in 1 .. Len(toBridge)
        BY <2>4, <4>1 DEF UnderWay
      <4>3. QED
        BY <1>3, <2>5, <3>2, <4>1, <4>2 DEF CacheInv, LastInv
    <3>3. QED
      BY <3>1, <3>2
  <2>10. FollowInv'
    <3>1. ASSUME NEW f \in Entities, phase = "up"
          PROVE  cache[f] = Shown(f)' \/ UnderWay(f)' # {} \/ f \in missed'
      BY <1>3, <2>1, <2>7, <2>8, <3>1 DEF CacheInv, FollowInv
    <3>2. QED
      BY <1>1, <2>3, <3>1 DEF FollowInv
  <2>11. QED
    BY <1>4, <2>6, <2>9, <2>10 DEF CacheInv
<1>6. CASE ~subscribed
  <2>1. toBridge' = toBridge /\ missed' = IF Snapshot THEN missed \cup {e} ELSE missed
    BY <1>6 DEF HAChanges
  <2>2. kind[Connector] = "states" /\ (\A i \in 1 .. Len(toHA) : toHA[i].id # id[Connector]) => Snapshot
    <3>1. DOMAIN toHA = 1 .. Len(toHA)
      BY DEF BridgeInv, QueueTypes
    <3>2. QED
      BY <3>1 DEF Snapshot
  <2>3. IdInv' /\ PhaseInv'
    BY <1>1, <2>1 DEF CacheInv, IdInv, PhaseInv
  <2>4. LoadInv'
    <3>1. ASSUME Snapshot, NEW s, ShowsAll(s) PROVE ShowsAll(s)'
      BY <1>3, <2>1, <3>1 DEF ShowsAll
    <3>2. call[Connector] = "resolved" => Snapshot
      BY <2>2 DEF CacheInv, PhaseInv
    <3>3. ASSUME NEW i \in 1 .. Len(toBridge), toBridge[i].kind = "result",
                 toBridge[i].id = id[Connector]
          PROVE  Snapshot
      <4>1. toBridge[i].id # 0 /\ \A j \in 1 .. Len(toHA) : toHA[j].id # id[Connector]
        BY <3>3 DEF CacheInv, IdInv, BridgeInv, QueueTypes
      <4>2. kind[Connector] = "states"
        BY <3>3, <4>1 DEF CacheInv, PhaseInv
      <4>3. QED
        BY <2>2, <4>1, <4>2
    <3>4. QED
      BY <1>1, <2>1, <3>1, <3>2, <3>3 DEF CacheInv, LoadInv
  <2>5. LastInv'
    <3>1. \A f : UnderWay(f)' = {}
      BY <1>6, <2>1 DEF CacheInv, PhaseInv, UnderWay, BridgeInv, QueueTypes
    <3>2. QED
      BY <3>1 DEF LastInv
  <2>6. FollowInv'
    <3>1. phase \in {"subscribing", "up"} => Snapshot
      BY <2>2 DEF CacheInv, PhaseInv
    <3>2. QED
      BY <1>1, <1>3, <2>1, <3>1 DEF CacheInv, FollowInv, UnderWay
  <2>7. QED
    BY <1>4, <2>3, <2>4, <2>5, <2>6 DEF CacheInv
<1>7. QED
  BY <1>5, <1>6

LEMMA DisconnectCache ==
  ASSUME BridgeInv, CacheInv, Disconnect
  PROVE  CacheInv'
<1> USE TaskNames DEF haVars
<1>1. /\ toBridge' = <<>> /\ phase' = "closed"
      /\ UNCHANGED <<cache, msgId, id, kind, reply, toHA, haVars>>
      /\ call' = [t \in Tasks |-> IF id[t] \in pending \/ (t = Loop /\ loop = "calling")
                                  THEN "failed" ELSE call[t]]
  BY DEF Disconnect
<1>2. 1 .. Len(toBridge') = {} /\ DOMAIN toBridge' = {}
  BY <1>1
<1>3. CallTypes' /\ TaskInv'
  BY <1>1, DisconnectTasks DEF CacheInv, CallTypes, CallStates
<1>4. IdInv' /\ LoadInv' /\ LastInv' /\ FollowInv'
  BY <1>1, <1>2 DEF CacheInv, IdInv, LoadInv, LastInv, FollowInv, UnderWay
<1>5. PhaseInv'
  <2>1. id[Connector] \in pending => call[Connector] = "waiting"
    BY DEF CacheInv, TaskInv, PendingIsWaiting
  <2>2. call'[Connector] = call[Connector] \/ (call'[Connector] = "failed" /\ call[Connector] # "idle")
    BY <1>1, <2>1, BridgeAssumption DEF CacheInv, CallTypes
  <2>3. QED
    BY <1>1, <1>2, <2>2 DEF CacheInv, PhaseInv
<1>6. QED
  BY <1>3, <1>4, <1>5 DEF CacheInv

LEMMA CacheInvariant == Spec => []CacheInv
<1>1. Init => CacheInv
  <2> SUFFICES ASSUME Init PROVE CacheInv
    OBVIOUS
  <2>1. 1 .. Len(toHA) = {} /\ 1 .. Len(toBridge) = {} /\ DOMAIN toBridge = {}
    BY DEF Init
  <2>2. CallTypes /\ IdInv /\ TaskInv
    BY <2>1 DEF Init, CallTypes, CallStates, IdInv, TaskInv, PendingIsWaiting
  <2>3. PhaseInv /\ LoadInv /\ LastInv /\ FollowInv
    BY <2>1, TaskNames DEF Init, PhaseInv, LoadInv, LastInv, FollowInv, UnderWay
  <2>4. QED
    BY <2>2, <2>3 DEF CacheInv
<1>2. BridgeInv /\ CacheInv /\ [Next]_vars => CacheInv'
  <2> SUFFICES ASSUME BridgeInv, CacheInv, [Next]_vars PROVE CacheInv'
    OBVIOUS
  <2>1. CASE UNCHANGED vars
    BY <2>1, SameCache DEF vars, bridgeVars
  <2>2. CASE HomeAssistant
    BY <2>2, LostCache, RegistryCache, ReadsCache, ChangesCache DEF HomeAssistant
  <2>3. QED
    BY <2>1, <2>2, ConnectCache, EventLoopCache, OthersCache, DisconnectCache DEF Next
<1>3. QED
  BY <1>1, <1>2, BridgeInvariant, PTL DEF Spec

\* In every interleaving of loads, subscriptions, results and changes, the cache
\* shows each entity as HA does, or a change is under way, or the change fell
\* between the load and the subscription: no order lets an old state stay.
THEOREM CacheCorrect == Spec => []CacheFollows
<1>1. CacheInv => CacheFollows
  BY DEF CacheInv, FollowInv, CacheFollows
<1>2. QED
  BY <1>1, CacheInvariant, PTL

\* Exactly the calls that wait have an entry in _pending, whatever times out,
\* is answered late or is cut off by a disconnect.
THEOREM PendingCorrect == Spec => []PendingIsWaiting
<1>1. CacheInv => PendingIsWaiting
  BY DEF CacheInv, TaskInv
<1>2. QED
  BY <1>1, CacheInvariant, PTL
=============================================================================
