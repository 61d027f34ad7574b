------------------------ MODULE ThreadCredentialsProofs ------------------------
(***************************************************************************)
(* Proofs about ThreadCredentials, for every set of satellites and every   *)
(* number of offers, keys of the network, faults and reports.              *)
(***************************************************************************)
EXTENDS ThreadCredentials, TLAPS

USE ThreadAssumption DEF ThreadAssumption
USE DEF hubVars, rekeyVars, linkVars, satVars, ghostVars, SatUnchanged

HubMessage ==
  [kind : {"ack"}, id : {NoId}, accepted : BOOLEAN]
    \cup [kind : {"status"}, id : {NoId}, role : Statuses]
Ended == {"accepted", "rejected", "done"}
Busy == {"checking", "acked"}

HubTypes ==
  /\ network \in Nat
  /\ offer \in [Offers -> {"free", "spawned", "waiting"} \cup Ended]
  /\ target \in [Offers -> Satellites] /\ terms \in [Offers -> Nat]
  /\ acked \subseteq Offers /\ pendingAck \in [Satellites -> Offers \cup {NoOffer}]
  /\ record \in [Satellites -> Offers \cup {NoOffer}]
  /\ awaited \in Offers \cup {NoOffer}

LinkTypes ==
  /\ online \in [Satellites -> BOOLEAN]
  /\ toSatellite \in [Satellites -> Seq(Nat)]
  /\ toHub \in [Satellites -> Seq(HubMessage)]

SatTypes ==
  /\ handling \in [Satellites -> {"nothing", "joining"} \cup Busy]
  /\ boot \in [Satellites -> {"off", "starting", "restoring", "ready"}]
  /\ got \in [Satellites -> Nat] /\ held \in [Satellites -> Nat] /\ restored \in [Satellites -> Nat]
  /\ saved \in [Satellites -> Nat] /\ mesh \in [Satellites -> Nat]
  /\ role \in [Satellites -> Statuses]

ThreadTypes == HubTypes /\ LinkTypes /\ SatTypes

\* The networks a satellite has been offered are in their order: those on their
\* way, that of the offer it handles, that in its file, that of its router; after
\* a write that failed the file may be older than the router.
OrderOf(s) ==
  /\ \A i \in 1 .. Len(toSatellite[s]) :
       /\ mesh[s] <= toSatellite[s][i] /\ saved[s] <= toSatellite[s][i]
       /\ toSatellite[s][i] <= network
       /\ handling[s] \in Busy => got[s] <= toSatellite[s][i]
       /\ handling[s] = "joining" => held[s] <= toSatellite[s][i]
       /\ \A j \in 1 .. Len(toSatellite[s]) : i < j => toSatellite[s][i] <= toSatellite[s][j]
  /\ handling[s] \in Busy => mesh[s] <= got[s] /\ saved[s] <= got[s] /\ got[s] <= network
  /\ handling[s] = "joining" => mesh[s] <= held[s] /\ held[s] <= network
  /\ handling[s] = "joining" /\ s \notin unsaved => held[s] = saved[s]
  /\ boot[s] = "restoring" => restored[s] = saved[s] /\ saved[s] # 0
  /\ boot[s] # "ready" => handling[s] = "nothing"
  /\ saved[s] # 0 /\ s \notin unsaved => mesh[s] <= saved[s]
  /\ role[s] = "online" /\ s \notin unsaved => mesh[s] = saved[s]
  /\ mesh[s] <= network /\ saved[s] <= network

OrderInv == \A s \in Satellites : OrderOf(s)

LEMMA OfferNames == Offers \subseteq Nat /\ NoOffer \notin Offers
BY DEF Offers, NoOffer

LEMMA Appended ==
  ASSUME NEW S, NEW q \in Seq(S), NEW x \in S
  PROVE  /\ Append(q, x) \in Seq(S) /\ Len(Append(q, x)) = Len(q) + 1 /\ Len(q) \in Nat
         /\ \A i \in 1 .. Len(q) : i \in 1 .. Len(Append(q, x)) /\ Append(q, x)[i] = q[i]
         /\ \A i \in 1 .. Len(Append(q, x)) : i \in 1 .. Len(q) \/ i = Len(q) + 1
         /\ Append(q, x)[Len(q) + 1] = x
OBVIOUS

LEMMA Dropped ==
  ASSUME NEW S, NEW q \in Seq(S), q # <<>>
  PROVE  /\ Tail(q) \in Seq(S) /\ Head(q) \in S /\ Head(q) = q[1] /\ 1 \in 1 .. Len(q)
         /\ Len(Tail(q)) = Len(q) - 1
         /\ \A i \in 1 .. Len(Tail(q)) : Tail(q)[i] = q[i + 1] /\ i + 1 \in 1 .. Len(q) /\ 1 < i + 1
OBVIOUS

LEMMA NothingLeft ==
  ASSUME NEW S, NEW q \in Seq(S), q # <<>>, Len(q) = 1
  PROVE  Tail(q) = <<>>
<1>1. Tail(q) \in Seq(S) /\ Len(Tail(q)) = 0
  OBVIOUS
<1>2. \A r \in Seq(S) : Len(r) = 0 => r = <<>>
  OBVIOUS
<1>3. QED
  BY <1>1, <1>2

\* An offer that begins.
LEMMA BeginTypes ==
  ASSUME ThreadTypes, NEW o \in Offers, NEW s \in Satellites, NEW n \in Nat, Begin(o, s, n)
  PROVE  /\ offer' \in [Offers -> {"free", "spawned", "waiting"} \cup Ended]
         /\ terms' \in [Offers -> Nat]
         /\ pendingAck' \in [Satellites -> Offers \cup {NoOffer}]
         /\ record' \in [Satellites -> Offers \cup {NoOffer}]
         /\ toSatellite' \in [Satellites -> Seq(Nat)]
<1> USE DEF ThreadTypes, HubTypes, LinkTypes, Begin
<1>1. offer' \in [Offers -> {"free", "spawned", "waiting"} \cup Ended]
  BY DEF Ended
<1>2. terms' \in [Offers -> Nat]
  OBVIOUS
<1>3. /\ pendingAck' \in [Satellites -> Offers \cup {NoOffer}]
      /\ record' \in [Satellites -> Offers \cup {NoOffer}]
  <2>1. pendingAck' \in [Satellites -> Offers \cup {NoOffer}]
    OBVIOUS
  <2>2. record' \in [Satellites -> Offers \cup {NoOffer}]
    OBVIOUS
  <2>3. QED
    BY <2>1, <2>2
<1>4. toSatellite' \in [Satellites -> Seq(Nat)]
  <2>1. Append(toSatellite[s], n) \in Seq(Nat)
    BY Appended
  <2>2. toSatellite' = toSatellite
        \/ toSatellite' = [toSatellite EXCEPT ![s] = Append(toSatellite[s], n)]
    OBVIOUS
  <2>3. QED
    BY <2>1, <2>2
<1>5. QED
  BY <1>1, <1>2, <1>3, <1>4

\* A message to the Hub.
LEMMA SayTypes ==
  ASSUME LinkTypes, NEW s \in Satellites, NEW m \in HubMessage, Say(s, m)
  PROVE  toHub' \in [Satellites -> Seq(HubMessage)]
<1>1. Append(toHub[s], m) \in Seq(HubMessage)
  BY Appended DEF LinkTypes
<1>2. QED
  BY <1>1 DEF Say, LinkTypes

LEMMA DropTypes ==
  ASSUME ThreadTypes, NEW s \in Satellites, Drop(s), UNCHANGED awaited
  PROVE  HubTypes' /\ LinkTypes'
<1> USE DEF ThreadTypes, Drop
<1>1. HubTypes'
  BY DEF HubTypes
<1>2. LinkTypes'
  BY DEF LinkTypes
<1>3. QED
  BY <1>1, <1>2

LEMMA CoordinateTypes ==
  ASSUME ThreadTypes, Coordinate
  PROVE  ThreadTypes'
<1> USE OfferNames DEF ThreadTypes
<1>1. UNCHANGED <<online, satVars>>
  BY DEF Coordinate, OfferBegins, Ends, HubReads, RekeyOffers, RekeyBegins, RekeyGoesOn
<1>2. SatTypes'
  BY <1>1 DEF SatTypes
<1>3. ASSUME NEW o \in Offers, NEW s \in Satellites, Begin(o, s, network),
             UNCHANGED <<network, target, acked, toHub>>, awaited' \in {awaited, o}
      PROVE  HubTypes' /\ LinkTypes'
  <2>1. network \in Nat
    BY DEF HubTypes
  <2>2. HubTypes'
    BY <1>3, <2>1, BeginTypes DEF HubTypes
  <2>3. LinkTypes'
    BY <1>1, <1>3, <2>1, BeginTypes DEF LinkTypes
  <2>4. QED
    BY <2>2, <2>3
<1>4. ASSUME NEW o \in Offers, OfferBegins(o) PROVE HubTypes' /\ LinkTypes'
  <2>1. target[o] \in Satellites
    BY DEF HubTypes
  <2>2. Begin(o, target[o], network) /\ UNCHANGED <<network, target, acked, awaited, toHub>>
    BY <1>4 DEF OfferBegins
  <2>3. QED
    BY <1>3, <2>1, <2>2
<1>5. ASSUME NEW o \in Offers, Ends(o) PROVE HubTypes' /\ LinkTypes'
  <2>1. Finish(o) /\ acked' \in {acked, acked \cup {o}}
        /\ UNCHANGED <<network, target, terms, awaited, record, linkVars>>
    BY <1>5 DEF Ends
  <2>2. HubTypes'
    BY <2>1 DEF HubTypes, Finish, Ended
  <2>3. LinkTypes'
    BY <2>1 DEF LinkTypes
  <2>4. QED
    BY <2>2, <2>3
<1>6. ASSUME NEW s \in Satellites, HubReads(s) PROVE HubTypes' /\ LinkTypes'
  <2>1. HubTypes'
    BY <1>6 DEF HubReads, HandleAck, HandleStatus, HubTypes, Ended
  <2>2. toHub[s] # <<>> /\ toHub[s] \in Seq(HubMessage)
    BY <1>6 DEF HubReads, LinkTypes
  <2>3. Tail(toHub[s]) \in Seq(HubMessage)
    BY <2>2, Dropped
  <2>4. LinkTypes'
    BY <1>6, <2>3 DEF HubReads, LinkTypes
  <2>5. QED
    BY <2>1, <2>4
<1>7. ASSUME NEW s \in Satellites, RekeyOffers(s) PROVE HubTypes' /\ LinkTypes'
  <2>1. PICK o \in Offers : Begin(o, s, network) /\ awaited' = o
    BY <1>7 DEF RekeyOffers
  <2>2. UNCHANGED <<network, target, acked, toHub>>
    BY <1>7 DEF RekeyOffers
  <2>3. QED
    BY <1>3, <2>1, <2>2
<1>8. ASSUME RekeyBegins \/ RekeyGoesOn PROVE HubTypes' /\ LinkTypes'
  <2>1. UNCHANGED <<offer, target, terms, acked, pendingAck, record, linkVars>>
        /\ network' \in {network, network + 1} /\ awaited' \in {awaited, NoOffer}
    BY <1>8 DEF RekeyBegins, RekeyGoesOn
  <2>2. HubTypes'
    BY <2>1 DEF HubTypes
  <2>3. LinkTypes'
    BY <2>1 DEF LinkTypes
  <2>4. QED
    BY <2>2, <2>3
<1>9. HubTypes' /\ LinkTypes'
  <2>1. CASE \E o \in Offers : OfferBegins(o) \/ Ends(o)
    BY <1>4, <1>5, <2>1
  <2>2. CASE \E s \in Satellites : HubReads(s) \/ RekeyOffers(s)
    BY <1>6, <1>7, <2>2
  <2>3. CASE RekeyBegins \/ RekeyGoesOn
    BY <1>8, <2>3
  <2>4. QED
    BY <2>1, <2>2, <2>3 DEF Coordinate
<1>10. QED
  BY <1>2, <1>9

LEMMA SatelliteTypes ==
  ASSUME ThreadTypes, NEW s \in Satellites,
         Run(s) \/ Report(s) \/ Admit(s) \/ Disconnect(s) \/ Crash(s)
  PROVE  ThreadTypes'
<1> USE DEF ThreadTypes
<1>1. CASE PowerOn(s) \/ Start(s) \/ Restored(s) \/ Store(s) \/ Join(s)
  <2>1. UNCHANGED <<hubVars, rekeyVars, linkVars>>
    BY <1>1 DEF PowerOn, Start, Restored, Store, Join
  <2>2. HubTypes' /\ LinkTypes'
    BY <2>1 DEF HubTypes, LinkTypes
  <2>3. CASE PowerOn(s)
    BY <2>2, <2>3 DEF PowerOn, SatTypes
  <2>4. CASE Start(s)
    BY <2>2, <2>4 DEF Start, SatTypes, Statuses
  <2>5. CASE Restored(s)
    BY <2>2, <2>5 DEF Restored, Apply, SatTypes, Statuses
  <2>6. CASE Store(s)
    BY <2>2, <2>6 DEF Store, SatTypes, Statuses
  <2>7. CASE Join(s)
    BY <2>2, <2>7 DEF Join, Apply, SatTypes, Statuses
  <2>8. QED
    BY <1>1, <2>3, <2>4, <2>5, <2>6, <2>7
<1>2. CASE Receive(s)
  <2>1. toSatellite[s] # <<>> /\ toSatellite[s] \in Seq(Nat)
    BY <1>2 DEF Receive, LinkTypes
  <2>2. Tail(toSatellite[s]) \in Seq(Nat) /\ Head(toSatellite[s]) \in Nat
    BY <2>1, Dropped
  <2>3. HubTypes' /\ LinkTypes'
    BY <1>2, <2>2 DEF Receive, HubTypes, LinkTypes
  <2>4. SatTypes'
    BY <1>2, <2>2 DEF Receive, SatTypes, Busy
  <2>5. QED
    BY <2>3, <2>4
<1>3. CASE Check(s)
  <2>1. PICK b \in BOOLEAN :
          /\ handling' = [handling EXCEPT ![s] = IF b /\ online[s] THEN "acked" ELSE "nothing"]
          /\ IF online[s] THEN Say(s, Ack(b)) ELSE UNCHANGED toHub
    BY <1>3 DEF Check
  <2>2. Ack(b) \in HubMessage
    BY DEF Ack, HubMessage
  <2>3. toHub' \in [Satellites -> Seq(HubMessage)]
    BY <2>1, <2>2, SayTypes DEF LinkTypes
  <2>4. HubTypes' /\ LinkTypes'
    BY <1>3, <2>3 DEF Check, HubTypes, LinkTypes
  <2>5. SatTypes'
    BY <1>3, <2>1 DEF Check, SatTypes, Busy
  <2>6. QED
    BY <2>4, <2>5
<1>4. CASE Report(s)
  <2>1. [kind |-> "status", id |-> NoId, role |-> role[s]] \in HubMessage
    BY DEF HubMessage, SatTypes
  <2>2. toHub' \in [Satellites -> Seq(HubMessage)]
    BY <1>4, <2>1, SayTypes DEF Report
  <2>3. HubTypes' /\ LinkTypes' /\ SatTypes'
    BY <1>4, <2>2 DEF Report, HubTypes, LinkTypes, SatTypes
  <2>4. QED
    BY <2>3
<1>5. CASE Admit(s)
  BY <1>5 DEF Admit, HubTypes, LinkTypes, SatTypes
<1>6. CASE Disconnect(s)
  <2>1. Drop(s) /\ UNCHANGED <<rekeyVars, satVars>>
    BY <1>6 DEF Disconnect
  <2>2. QED
    BY <2>1, DropTypes DEF SatTypes
<1>7. CASE Crash(s)
  <2>1. Drop(s) /\ UNCHANGED <<mesh, rekeyVars>>
    BY <1>7 DEF Crash
  <2>2. SatTypes'
    BY <1>7, <2>1 DEF Crash, SatTypes, Statuses
  <2>3. QED
    BY <2>1, <2>2, DropTypes
<1>8. QED
  BY <1>1, <1>2, <1>3, <1>4, <1>5, <1>6, <1>7 DEF Run

-----------------------------------------------------------------------------
(* What a satellite keeps of its offers.                                   *)

\* Nothing of a satellite and of its connection changes.
SameAt(u) ==
  /\ online'[u] = online[u] /\ toSatellite'[u] = toSatellite[u] /\ toHub'[u] = toHub[u]
  /\ boot'[u] = boot[u] /\ handling'[u] = handling[u] /\ got'[u] = got[u] /\ held'[u] = held[u]
  /\ restored'[u] = restored[u] /\ saved'[u] = saved[u] /\ mesh'[u] = mesh[u]
  /\ role'[u] = role[u] /\ (u \in unsaved' <=> u \in unsaved)

LEMMA OthersUntouched ==
  ASSUME ThreadTypes, NEW s \in Satellites, NEW u \in Satellites, s # u,
         Run(s) \/ Report(s) \/ Admit(s) \/ Disconnect(s) \/ Crash(s)
  PROVE  SameAt(u)
<1> USE DEF ThreadTypes, LinkTypes, SatTypes, SameAt
<1>1. CASE Run(s)
  <2>1. CASE PowerOn(s) \/ Start(s)
    BY <2>1 DEF PowerOn, Start
  <2>2. CASE Restored(s) \/ Join(s)
    BY <2>2 DEF Restored, Join, Apply
  <2>3. CASE Receive(s)
    BY <2>3 DEF Receive
  <2>4. CASE Check(s)
    BY <2>4 DEF Check, Say
  <2>5. CASE Store(s)
    BY <2>5 DEF Store
  <2>6. QED
    BY <1>1, <2>1, <2>2, <2>3, <2>4, <2>5 DEF Run
<1>2. CASE Report(s)
  <2>1. UNCHANGED <<satVars, online, toSatellite, unsaved>> /\ toHub'[u] = toHub[u]
    BY <1>2 DEF Report, Say
  <2>2. QED
    BY <2>1
<1>3. CASE Admit(s)
  BY <1>3 DEF Admit
<1>4. CASE Disconnect(s)
  BY <1>4 DEF Disconnect, Drop, Fault
<1>5. CASE Crash(s)
  BY <1>5 DEF Crash, Drop, Fault
<1>6. QED
  BY <1>1, <1>2, <1>3, <1>4, <1>5

\* The order of a satellite's networks does not depend on anything else; the
\* newest network may become newer.
LEMMA OrderKept ==
  ASSUME ThreadTypes, NEW u \in Satellites, OrderOf(u),
         toSatellite'[u] = toSatellite[u], UNCHANGED <<satVars, unsaved>>,
         network' \in {network, network + 1}
  PROVE  OrderOf(u)'
<1>1. \A n \in Nat : n <= network => n <= network'
  BY DEF ThreadTypes, HubTypes
<1>2. mesh[u] \in Nat /\ saved[u] \in Nat /\ got[u] \in Nat /\ held[u] \in Nat
      /\ \A i \in 1 .. Len(toSatellite[u]) : toSatellite[u][i] \in Nat
  BY DEF ThreadTypes, LinkTypes, SatTypes
<1>3. QED
  BY <1>1, <1>2 DEF OrderOf, Busy

LEMMA OrderFramed ==
  ASSUME ThreadTypes, NEW u \in Satellites, OrderOf(u), SameAt(u), UNCHANGED network
  PROVE  OrderOf(u)'
BY DEF OrderOf, SameAt, Busy

LEMMA OrderBegins ==
  ASSUME ThreadTypes, NEW u \in Satellites, OrderOf(u),
         NEW o \in Offers, NEW s \in Satellites, Begin(o, s, network),
         UNCHANGED <<network, satVars, unsaved>>
  PROVE  OrderOf(u)'
<1> DEFINE q == toSatellite[u]
<1>1. q \in Seq(Nat) /\ network \in Nat
  BY DEF ThreadTypes, HubTypes, LinkTypes
<1>2. CASE toSatellite'[u] = q
  BY <1>2, OrderKept
<1>3. CASE toSatellite'[u] = Append(q, network)
  <2> DEFINE r == Append(q, network)
  <2>1. /\ \A i \in 1 .. Len(r) : i \in 1 .. Len(q) \/ i = Len(q) + 1
        /\ \A i \in 1 .. Len(q) : r[i] = q[i] /\ q[i] \in Nat
        /\ r[Len(q) + 1] = network /\ Len(q) \in Nat /\ Len(r) = Len(q) + 1
    BY <1>1, Appended
  <2>2. /\ mesh[u] \in Nat /\ saved[u] \in Nat /\ got[u] \in Nat /\ held[u] \in Nat
    BY DEF ThreadTypes, SatTypes
  <2> HIDE DEF q, r
  <2>3. toSatellite'[u] = r /\ toSatellite[u] = q
    BY <1>3 DEF q, r
  <2>4. \A i \in 1 .. Len(r) :
          /\ mesh[u] <= r[i] /\ saved[u] <= r[i] /\ r[i] <= network
          /\ handling[u] \in Busy => got[u] <= r[i]
          /\ handling[u] = "joining" => held[u] <= r[i]
    <3>1. TAKE i \in 1 .. Len(r)
    <3>2. CASE i \in 1 .. Len(q)
      BY <2>1, <2>3, <3>2 DEF OrderOf
    <3>3. CASE i = Len(q) + 1
      BY <2>1, <2>2, <2>3, <1>1, <3>3 DEF OrderOf
    <3>4. QED
      BY <2>1, <3>2, <3>3
  <2>5. \A i, j \in 1 .. Len(r) : i < j => r[i] <= r[j]
    <3>1. \A i, j \in 1 .. Len(q) : i < j => q[i] <= q[j]
      BY <2>3 DEF OrderOf
    <3>2. TAKE i, j \in 1 .. Len(r)
    <3>3. HAVE i < j
    <3>4. i \in 1 .. Len(q)
      BY <2>1, <3>3
    <3>5. CASE j \in 1 .. Len(q)
      BY <2>1, <3>1, <3>3, <3>4, <3>5
    <3>6. CASE j = Len(q) + 1
      BY <2>1, <2>4, <3>4, <3>6
    <3>7. QED
      BY <2>1, <3>5, <3>6
  <2>6. QED
    BY <2>3, <2>4, <2>5 DEF OrderOf, Busy
<1>4. QED
  BY <1>1, <1>2, <1>3 DEF Begin, ThreadTypes, LinkTypes

\* A step of the satellite itself.
LEMMA OrderSatellite ==
  ASSUME ThreadTypes, NEW u \in Satellites, OrderOf(u), UNCHANGED network,
         Run(u) \/ Report(u) \/ Admit(u) \/ Disconnect(u) \/ Crash(u)
  PROVE  OrderOf(u)'
<1>0. /\ mesh[u] \in Nat /\ saved[u] \in Nat /\ got[u] \in Nat /\ network \in Nat
      /\ toSatellite[u] \in Seq(Nat) /\ held[u] \in Nat /\ restored[u] \in Nat
  BY DEF ThreadTypes, HubTypes, LinkTypes, SatTypes
<1>1. CASE PowerOn(u)
  BY <1>1 DEF PowerOn, OrderOf, ThreadTypes, SatTypes, Busy
<1>2. CASE Start(u)
  <2>1. handling[u] = "nothing"
    BY <1>2 DEF Start, OrderOf
  <2>2. QED
    BY <1>2, <2>1 DEF Start, OrderOf, ThreadTypes, SatTypes, Busy
<1>3. CASE Restored(u)
  <2>1. /\ mesh'[u] \in {mesh[u], saved[u]} /\ handling[u] = "nothing"
        /\ boot'[u] = "ready" /\ (role'[u] = "online" => mesh'[u] = saved[u])
        /\ UNCHANGED <<handling, saved, got, toSatellite, unsaved>>
    BY <1>3 DEF Restored, Apply, OrderOf, ThreadTypes, SatTypes
  <2>2. CASE mesh'[u] = saved[u]
    BY <2>1, <2>2, <1>0 DEF OrderOf, Busy
  <2>3. CASE mesh'[u] = mesh[u]
    BY <2>1, <2>3, <1>0 DEF OrderOf, Busy
  <2>4. QED
    BY <2>1, <2>2, <2>3
<1>4. CASE Receive(u)
  <2> DEFINE q == toSatellite[u]  r == Tail(q)
  <2>1. /\ q # <<>> /\ handling[u] = "nothing" /\ toSatellite'[u] = r
        /\ UNCHANGED <<boot, restored, held, saved, mesh, role, unsaved>>
        /\ \/ boot[u] = "ready" /\ handling'[u] = "checking" /\ got'[u] = Head(q)
           \/ UNCHANGED <<handling, got>>
    BY <1>4 DEF Receive, Listens, ThreadTypes, LinkTypes, SatTypes
  <2>2. /\ Head(q) = q[1] /\ 1 \in 1 .. Len(q)
        /\ \A i \in 1 .. Len(r) : r[i] = q[i + 1] /\ i + 1 \in 1 .. Len(q) /\ 1 < i + 1
    BY <2>1, <1>0, Dropped
  <2>3. /\ \A i \in 1 .. Len(q) : mesh[u] <= q[i] /\ saved[u] <= q[i] /\ q[i] <= network
        /\ \A i, j \in 1 .. Len(q) : i < j => q[i] <= q[j]
    BY DEF OrderOf
  <2> HIDE DEF q, r
  <2>4. /\ \A i \in 1 .. Len(r) :
             mesh[u] <= r[i] /\ saved[u] <= r[i] /\ r[i] <= network /\ q[1] <= r[i]
        /\ mesh[u] <= q[1] /\ saved[u] <= q[1] /\ q[1] <= network
    BY <2>2, <2>3
  <2>5. \A i, j \in 1 .. Len(r) : i < j => r[i] <= r[j]
    <3>1. TAKE i, j \in 1 .. Len(r)
    <3>2. HAVE i < j
    <3>3. i + 1 < j + 1
      BY <3>2
    <3>4. QED
      BY <2>2, <2>3, <3>3
  <2>6. /\ handling'[u] \in Busy => got'[u] = q[1]
        /\ handling'[u] # "joining"
        /\ boot[u] # "ready" => handling'[u] = "nothing"
    BY <2>1, <2>2 DEF Busy
  <2>7. QED
    BY <2>1, <2>4, <2>5, <2>6 DEF OrderOf
<1>5. CASE Check(u)
  <2>1. handling'[u] \in {"acked", "nothing"} /\ handling[u] = "checking"
        /\ UNCHANGED <<boot, restored, held, saved, mesh, got, role, toSatellite, unsaved>>
    BY <1>5 DEF Check, ThreadTypes, SatTypes
  <2>2. QED
    BY <2>1 DEF OrderOf, Busy
<1>6. CASE Store(u)
  <2>1. /\ handling[u] = "acked" /\ handling'[u] = "joining" /\ held'[u] = got[u]
        /\ role'[u] = "joining"
        /\ \/ saved'[u] = got[u]
           \/ saved'[u] \in {saved[u], 0} /\ u \in unsaved'
        /\ UNCHANGED <<boot, restored, mesh, got, toSatellite>>
    BY <1>6 DEF Store, ThreadTypes, SatTypes
  <2>2. boot[u] = "ready"
    BY <2>1 DEF OrderOf
  <2>3. QED
    BY <2>1, <2>2, <1>0 DEF OrderOf, Busy
<1>7. CASE Join(u)
  <2>1. /\ mesh'[u] \in {mesh[u], held[u]} /\ handling'[u] = "nothing" /\ handling[u] = "joining"
        /\ role'[u] = "online" => mesh'[u] = held[u]
        /\ UNCHANGED <<boot, restored, held, saved, got, toSatellite, unsaved>>
    BY <1>7 DEF Join, Apply, OrderOf, ThreadTypes, SatTypes
  <2>2. QED
    BY <2>1, <1>0 DEF OrderOf, Busy
<1>8. CASE Report(u) \/ Admit(u)
  <2>1. UNCHANGED <<satVars, toSatellite, unsaved>>
    BY <1>8 DEF Report, Admit
  <2>2. QED
    BY <2>1, OrderKept
<1>9. CASE Disconnect(u)
  <2>1. toSatellite'[u] = <<>> /\ UNCHANGED <<satVars, unsaved>>
    BY <1>9 DEF Disconnect, Drop, Fault, ThreadTypes, LinkTypes
  <2>2. QED
    BY <2>1 DEF OrderOf, Busy
<1>10. CASE Crash(u)
  <2>1. /\ toSatellite'[u] = <<>> /\ handling'[u] = "nothing" /\ boot'[u] = "off"
        /\ mesh' = mesh /\ saved'[u] \in {saved[u], 0} /\ role'[u] = "offline" /\ unsaved' = unsaved
    BY <1>10 DEF Crash, Drop, Fault, ThreadTypes, LinkTypes, SatTypes
  <2>2. QED
    BY <2>1, <1>0 DEF OrderOf, Busy
<1>11. QED
  BY <1>1, <1>2, <1>3, <1>4, <1>5, <1>6, <1>7, <1>8, <1>9, <1>10 DEF Run

\* The coordinator changes nothing in a satellite; it sends what is newest.
LEMMA CoordinateCases ==
  ASSUME ThreadTypes, Coordinate
  PROVE  /\ UNCHANGED <<satVars, online, target, unsaved>>
         /\ \/ /\ network' = network
               /\ \E o \in Offers, s \in Satellites :
                    Begin(o, s, network) /\ offer[o] \in {"free", "spawned"} /\ target[o] = s
            \/ network' \in {network, network + 1} /\ UNCHANGED <<toSatellite, terms>>
<1> USE DEF ThreadTypes, HubTypes
<1>1. ASSUME NEW o \in Offers, OfferBegins(o)
      PROVE  /\ UNCHANGED <<satVars, online, target, unsaved, network>>
             /\ Begin(o, target[o], network) /\ offer[o] = "spawned" /\ target[o] \in Satellites
  BY <1>1 DEF OfferBegins
<1>2. ASSUME NEW s \in Satellites, RekeyOffers(s)
      PROVE  /\ UNCHANGED <<satVars, online, target, unsaved, network>>
             /\ \E o \in Offers : Begin(o, s, network) /\ offer[o] = "free" /\ target[o] = s
  BY <1>2 DEF RekeyOffers
<1>3. ASSUME NEW o \in Offers, Ends(o)
      PROVE  UNCHANGED <<satVars, online, target, unsaved, network, toSatellite, terms>>
  BY <1>3 DEF Ends
<1>4. ASSUME NEW s \in Satellites, HubReads(s)
      PROVE  UNCHANGED <<satVars, online, target, unsaved, network, toSatellite, terms>>
  BY <1>4 DEF HubReads
<1>5. ASSUME RekeyBegins \/ RekeyGoesOn
      PROVE  UNCHANGED <<satVars, online, target, unsaved, toSatellite, terms>>
             /\ network' \in {network, network + 1}
  BY <1>5 DEF RekeyBegins, RekeyGoesOn
<1>6. CASE \E o \in Offers : OfferBegins(o) \/ Ends(o)
  BY <1>1, <1>3, <1>6
<1>7. CASE \E s \in Satellites : HubReads(s) \/ RekeyOffers(s)
  BY <1>2, <1>4, <1>7
<1>8. CASE RekeyBegins \/ RekeyGoesOn
  BY <1>5, <1>8
<1>9. QED
  BY <1>6, <1>7, <1>8 DEF Coordinate

LEMMA SatelliteFrame ==
  ASSUME ThreadTypes, NEW s \in Satellites,
         Run(s) \/ Report(s) \/ Admit(s) \/ Disconnect(s) \/ Crash(s)
  PROVE  UNCHANGED <<network, target, terms, acked, pendingAck, record, rekeyVars>>
<1>1. CASE Run(s)
  BY <1>1 DEF Run, PowerOn, Start, Restored, Receive, Check, Store, Join
<1>2. CASE Report(s) \/ Admit(s)
  BY <1>2 DEF Report, Admit
<1>3. CASE Disconnect(s) \/ Crash(s)
  BY <1>3 DEF Disconnect, Crash, Drop
<1>4. QED
  BY <1>1, <1>2, <1>3

LEMMA OrderStep ==
  ASSUME ThreadTypes, OrderInv, Next, NEW u \in Satellites
  PROVE  OrderOf(u)'
<1>0. OrderOf(u)
  BY DEF OrderInv
<1>1. CASE Coordinate
  <2>1. UNCHANGED <<satVars, unsaved>>
    BY <1>1, CoordinateCases
  <2>2. CASE \E o \in Offers, s \in Satellites : Begin(o, s, network) /\ network' = network
    BY <1>0, <2>1, <2>2, OrderBegins
  <2>3. CASE network' \in {network, network + 1} /\ UNCHANGED toSatellite
    BY <1>0, <2>1, <2>3, OrderKept
  <2>4. QED
    BY <1>1, <2>2, <2>3, CoordinateCases
<1>2. ASSUME NEW s \in Satellites, Run(s) \/ Report(s) \/ Admit(s) \/ Disconnect(s) \/ Crash(s)
      PROVE  OrderOf(u)'
  <2>1. UNCHANGED network
    BY <1>2, SatelliteFrame
  <2>2. CASE s = u
    BY <1>0, <1>2, <2>1, <2>2, OrderSatellite
  <2>3. CASE s # u
    BY <1>0, <1>2, <2>1, <2>3, OthersUntouched, OrderFramed
  <2>4. QED
    BY <2>2, <2>3
<1>3. QED
  BY <1>1, <1>2 DEF Next

-----------------------------------------------------------------------------
(* The registry, and the re-keying of the network.                         *)

\* An answer carries an id under which the Hub has neither a future nor a record.
LEMMA AnswersFindNothing ==
  ASSUME ThreadTypes, NEW s \in Satellites, HubReads(s)
  PROVE  UNCHANGED <<offer, status>>
<1>1. toHub[s] # <<>> /\ toHub[s] \in Seq(HubMessage)
  BY DEF HubReads, ThreadTypes, LinkTypes
<1>2. Head(toHub[s]) \in HubMessage
  BY <1>1, Dropped
<1>3. Head(toHub[s]).id \notin Satellites
  BY <1>2 DEF HubMessage
<1>4. QED
  BY <1>3 DEF HubReads, HandleAck, HandleStatus, Entry

\* No offer is accepted or refused: every one runs into its time-out.
NoneAccepted ==
  /\ acked = {}
  /\ \A o \in Offers : offer[o] \notin {"accepted", "rejected"}
  /\ rekey = "ok" => listed = {}

\* From the moment the network has its new key, every satellite that the Hub
\* registers has been offered it, or is on the list of those still to be offered.
RekeyInv ==
  /\ rekey = "off" => awaited = NoOffer
  /\ rekey = "ok" => todo = {}
  /\ rekey # "off" => \A s \in Secondaries \ todo : Offered(s)

\* A record says joining while its offer waits, and error or offline after that:
\* no report makes it say anything else.
StatusInv ==
  /\ status \in [Offers -> {"joining", "error", "offline"}]
  /\ \A o \in Offers : status[o] = "joining" => offer[o] = "waiting"

ThreadInv == ThreadTypes /\ OrderInv /\ NoneAccepted /\ RekeyInv /\ StatusInv

\* How offers move: each is spawned, made, and over.
Moved(o) ==
  \/ offer'[o] = offer[o] /\ terms'[o] = terms[o]
  \/ offer[o] \in {"free", "spawned"} /\ offer'[o] \in {"spawned", "waiting", "done"}
  \/ offer[o] = "waiting" /\ offer'[o] = "done" /\ terms'[o] = terms[o]

LEMMA OfferSteps ==
  ASSUME ThreadInv, Next
  PROVE  UNCHANGED target /\ acked' = {} /\ \A o \in Offers : Moved(o)
<1> USE DEF ThreadInv, ThreadTypes, HubTypes, NoneAccepted, Moved
<1> DEFINE Goal == acked' = {} /\ \A o \in Offers : Moved(o)
<1>1. ASSUME NEW p \in Offers, NEW s \in Satellites, Begin(p, s, network),
             offer[p] \in {"free", "spawned"}, UNCHANGED acked
      PROVE  Goal
  BY <1>1 DEF Begin
<1>2. ASSUME NEW p \in Offers, OfferBegins(p) PROVE Goal
  BY <1>1, <1>2 DEF OfferBegins
<1>3. ASSUME NEW s \in Satellites, RekeyOffers(s) PROVE Goal
  BY <1>1, <1>3 DEF RekeyOffers
<1>4. ASSUME NEW p \in Offers, Ends(p) PROVE Goal
  BY <1>4 DEF Ends, Finish
<1>5. ASSUME NEW s \in Satellites, HubReads(s) PROVE Goal
  BY <1>5, AnswersFindNothing DEF HubReads
<1>6. CASE RekeyBegins \/ RekeyGoesOn
  BY <1>6 DEF RekeyBegins, RekeyGoesOn
<1>7. ASSUME NEW s \in Satellites, Run(s) \/ Report(s) \/ Disconnect(s) \/ Crash(s) PROVE Goal
  BY <1>7 DEF Run, PowerOn, Start, Restored, Receive, Check, Store, Join, Report,
              Disconnect, Crash, Drop
<1>8. ASSUME NEW s \in Satellites, Admit(s) PROVE Goal
  BY <1>8 DEF Admit
<1>9. UNCHANGED target
  BY CoordinateCases, SatelliteFrame DEF Next
<1>10. Goal
  <2>1. CASE Coordinate
    BY <1>2, <1>3, <1>4, <1>5, <1>6, <2>1 DEF Coordinate
  <2>2. QED
    BY <1>7, <1>8, <2>1 DEF Next
<1>11. QED
  BY <1>9, <1>10

LEMMA AcceptedStep ==
  ASSUME ThreadInv, Next
  PROVE  NoneAccepted'
<1> USE DEF ThreadInv, NoneAccepted
<1>1. acked' = {} /\ \A o \in Offers : offer'[o] \notin {"accepted", "rejected"}
  BY OfferSteps DEF Moved
<1>2. rekey' = "ok" => listed' = {}
  <2>1. CASE RekeyBegins \/ RekeyGoesOn
    BY <2>1 DEF RekeyBegins, RekeyGoesOn
  <2>2. CASE \E s \in Satellites : RekeyOffers(s)
    BY <2>2 DEF RekeyOffers
  <2>3. CASE \/ \E o \in Offers : OfferBegins(o) \/ Ends(o)
             \/ \E s \in Satellites : HubReads(s)
    BY <2>3 DEF OfferBegins, Ends, HubReads
  <2>4. CASE \E s \in Satellites : Run(s) \/ Report(s) \/ Admit(s) \/ Disconnect(s) \/ Crash(s)
    BY <2>4, SatelliteFrame
  <2>5. QED
    BY <2>1, <2>2, <2>3, <2>4 DEF Next, Coordinate
<1>3. QED
  BY <1>1, <1>2

\* An offer that has been made stays made, and so stays its network.
LEMMA OfferedStays ==
  ASSUME ThreadInv, Next, network' = network, NEW s \in Satellites, Offered(s)
  PROVE  Offered(s)'
BY OfferSteps DEF Offered, Moved

\* Nobody is registered without an offer.
LEMMA OfferRegisters ==
  ASSUME ThreadTypes, NEW o \in Offers, NEW s \in Satellites, target[o] = s,
         UNCHANGED <<network, target>>, Begin(o, s, network)
  PROVE  Offered(s)' /\ \A u \in Satellites : u # s => record'[u] = record[u]
<1> USE DEF ThreadTypes, HubTypes
<1>1. terms'[o] = network /\ offer'[o] \in {"waiting", "done"}
  BY DEF Begin
<1>2. Offered(s)'
  BY <1>1 DEF Offered
<1>3. QED
  BY <1>2 DEF Begin

LEMMA RekeyStep ==
  ASSUME ThreadInv, Next
  PROVE  RekeyInv'
<1> USE DEF ThreadInv, ThreadTypes, HubTypes
<1>1. CASE RekeyBegins
  BY <1>1 DEF RekeyBegins, RekeyInv, Secondaries
<1>2. ASSUME NEW o \in Offers, NEW s \in Satellites, target[o] = s, Begin(o, s, network),
             UNCHANGED <<network, rekey>>, todo' \in {todo, todo \ {s}},
             rekey = "off" => UNCHANGED awaited
      PROVE  RekeyInv'
  <2>1. UNCHANGED target
    BY OfferSteps
  <2>2. Offered(s)' /\ \A u \in Satellites : u # s => record'[u] = record[u]
    BY <1>2, <2>1, OfferRegisters
  <2>3. \A u \in Satellites : u # s => (u \in Secondaries' \ todo' => u \in Secondaries \ todo)
    BY <1>2, <2>2 DEF Secondaries
  <2>4. rekey # "off" => \A u \in Secondaries' \ todo' : Offered(u)'
    <3>1. SUFFICES ASSUME rekey # "off", NEW u \in Secondaries' \ todo' PROVE Offered(u)'
      OBVIOUS
    <3>2. u \in Satellites
      BY DEF Secondaries
    <3>3. CASE u = s
      BY <2>2, <3>3
    <3>4. CASE u # s
      BY <1>2, <2>3, <3>1, <3>2, <3>4, OfferedStays DEF RekeyInv
    <3>5. QED
      BY <3>3, <3>4
  <2>5. /\ rekey' = "ok" => todo' = {}
        /\ rekey' = "off" => awaited' = NoOffer
    BY <1>2 DEF RekeyInv
  <2>6. QED
    BY <1>2, <2>4, <2>5 DEF RekeyInv
<1>3. ASSUME UNCHANGED <<network, record, todo>>, rekey' # "off" => rekey # "off",
             rekey' = "ok" => todo = {}, rekey' = "off" => awaited' = NoOffer
      PROVE  RekeyInv'
  <2>1. Secondaries' = Secondaries
    BY <1>3 DEF Secondaries
  <2>2. \A u \in Secondaries : u \in Satellites
    BY DEF Secondaries
  <2>3. rekey' # "off" => \A u \in Secondaries \ todo : Offered(u)'
    BY <1>3, <2>2, OfferedStays DEF RekeyInv
  <2>4. QED
    BY <1>3, <2>1, <2>3 DEF RekeyInv
<1>4. CASE RekeyGoesOn
  <2>1. UNCHANGED <<network, record, todo>>
    BY <1>4 DEF RekeyGoesOn
  <2>2. rekey' = "ok" => todo = {}
    BY <1>4 DEF RekeyGoesOn, RekeyInv
  <2>3. rekey' # "off" => rekey # "off"
    BY <1>4 DEF RekeyGoesOn, RekeyInv
  <2>4. rekey' = "off" => awaited' = NoOffer
    BY <1>4 DEF RekeyGoesOn
  <2>5. QED
    BY <1>3, <2>1, <2>2, <2>3, <2>4
<1>5. ASSUME NEW s \in Satellites, RekeyOffers(s) PROVE RekeyInv'
  BY <1>2, <1>5 DEF RekeyOffers
<1>6. ASSUME NEW o \in Offers, OfferBegins(o) PROVE RekeyInv'
  BY <1>2, <1>6 DEF OfferBegins
<1>7. CASE \/ \E o \in Offers : Ends(o)
           \/ \E s \in Satellites : HubReads(s)
  BY <1>3, <1>7 DEF Ends, HubReads, RekeyInv
<1>8. CASE \E s \in Satellites : Run(s) \/ Report(s) \/ Admit(s) \/ Disconnect(s) \/ Crash(s)
  BY <1>3, <1>8, SatelliteFrame DEF RekeyInv
<1>9. QED
  BY <1>1, <1>4, <1>5, <1>6, <1>7, <1>8 DEF Next, Coordinate

LEMMA StatusStep ==
  ASSUME ThreadInv, Next
  PROVE  StatusInv'
<1> USE DEF ThreadInv, ThreadTypes, HubTypes, StatusInv
<1>1. ASSUME NEW o \in Offers, NEW s \in Satellites, Begin(o, s, network),
             offer[o] \in {"free", "spawned"}
      PROVE  StatusInv'
  BY <1>1 DEF Begin
<1>2. ASSUME NEW o \in Offers, OfferBegins(o) PROVE StatusInv'
  BY <1>1, <1>2 DEF OfferBegins
<1>3. ASSUME NEW s \in Satellites, RekeyOffers(s) PROVE StatusInv'
  BY <1>1, <1>3 DEF RekeyOffers
<1>4. ASSUME NEW o \in Offers, Ends(o) PROVE StatusInv'
  BY <1>4 DEF Ends, Finish, NoneAccepted
<1>5. ASSUME NEW s \in Satellites, HubReads(s) PROVE StatusInv'
  BY <1>5, AnswersFindNothing
<1>6. CASE RekeyBegins \/ RekeyGoesOn
  BY <1>6 DEF RekeyBegins, RekeyGoesOn
<1>7. ASSUME NEW s \in Satellites, Run(s) \/ Report(s) PROVE StatusInv'
  BY <1>7 DEF Run, PowerOn, Start, Restored, Receive, Check, Store, Join, Report
<1>8. ASSUME NEW s \in Satellites, Disconnect(s) \/ Crash(s) PROVE StatusInv'
  BY <1>8 DEF Disconnect, Crash, Drop
<1>9. ASSUME NEW s \in Satellites, Admit(s) PROVE StatusInv'
  BY <1>9 DEF Admit
<1>10. CASE Coordinate
  BY <1>2, <1>3, <1>4, <1>5, <1>6, <1>10 DEF Coordinate
<1>11. QED
  BY <1>7, <1>8, <1>9, <1>10 DEF Next

LEMMA ThreadInit ==
  Init => ThreadInv
<1>1. SUFFICES ASSUME Init PROVE ThreadInv
  OBVIOUS
<1>2. ThreadTypes
  BY <1>1, OfferNames DEF Init, ThreadTypes, HubTypes, LinkTypes, SatTypes, Statuses
<1>3. OrderInv
  BY <1>1 DEF Init, OrderInv, OrderOf, Busy
<1>4. NoneAccepted /\ RekeyInv /\ StatusInv
  BY <1>1 DEF Init, NoneAccepted, RekeyInv, StatusInv
<1>5. QED
  BY <1>2, <1>3, <1>4 DEF ThreadInv

LEMMA ThreadStutters ==
  ASSUME ThreadInv, UNCHANGED vars
  PROVE  ThreadInv'
<1> USE DEF ThreadInv, vars
<1>1. ThreadTypes'
  BY DEF ThreadTypes, HubTypes, LinkTypes, SatTypes
<1>2. OrderInv'
  BY DEF OrderInv, OrderOf
<1>3. NoneAccepted' /\ RekeyInv' /\ StatusInv'
  BY DEF NoneAccepted, RekeyInv, Secondaries, Offered, StatusInv
<1>4. QED
  BY <1>1, <1>2, <1>3

\* The inductive invariant: the types, the order of the networks, what no answer
\* can bring about, whom the re-keying has reached, what the records say.
THEOREM ThreadInvariant == Spec => []ThreadInv
<1>1. ASSUME ThreadInv, Next PROVE ThreadInv'
  <2>1. ThreadTypes'
    BY <1>1, CoordinateTypes, SatelliteTypes DEF ThreadInv, Next
  <2>2. OrderInv'
    BY <1>1, OrderStep DEF ThreadInv, OrderInv
  <2>3. NoneAccepted' /\ RekeyInv' /\ StatusInv'
    BY <1>1, AcceptedStep, RekeyStep, StatusStep
  <2>4. QED
    BY <2>1, <2>2, <2>3 DEF ThreadInv
<1>2. QED
  BY ThreadInit, <1>1, ThreadStutters, PTL DEF Spec

\* The network that a border router has joined is the one that its satellite has
\* in its file, unless that could not be written.
THEOREM JoinedIsRestored == Spec => []OnlineIsSaved
<1>1. ThreadInv => OnlineIsSaved
  BY DEF ThreadInv, OrderInv, OrderOf, OnlineIsSaved
<1>2. QED
  BY <1>1, ThreadInvariant, PTL

\* A re-keying that comes to its end has offered the new network to everybody in
\* the registry.
THEOREM RekeyComplete == Spec => []RekeyLeavesNobody
<1>1. ThreadInv => RekeyLeavesNobody
  BY DEF ThreadInv, RekeyInv, RekeyLeavesNobody, RekeyOver
<1>2. QED
  BY <1>1, ThreadInvariant, PTL

\* As the satellites sign their answers, the Hub never counts an offer as accepted,
\* a re-keying succeeds for nobody, and no record ever says online.
THEOREM NothingAccepted ==
  Spec => [](/\ acked = {} /\ (rekey = "ok" => listed = {})
             /\ \A s \in Satellites : record[s] # NoOffer => status[record[s]] # "online")
<1>1. ThreadInv => /\ acked = {} /\ (rekey = "ok" => listed = {})
                   /\ \A s \in Satellites : record[s] # NoOffer => status[record[s]] # "online"
  BY DEF ThreadInv, ThreadTypes, HubTypes, NoneAccepted, StatusInv
<1>2. QED
  BY <1>1, ThreadInvariant, PTL

\* No record says joining once its offer is over, whatever replaced its future.
THEOREM JoiningCorrect == Spec => []JoiningIsOffered
<1>1. ThreadInv => JoiningIsOffered
  BY DEF ThreadInv, ThreadTypes, HubTypes, StatusInv, JoiningIsOffered
<1>2. QED
  BY <1>1, ThreadInvariant, PTL

\* A border router never goes back to an older network, unless a write failed:
\* what is applied, be it the offer that was stored or the file that was read, is
\* the newest it has.
THEOREM NetworkMonotone == Spec => NeverOlderNetwork
<1>1. ASSUME ThreadInv, [Next]_vars
      PROVE  \A s \in Satellites : s \notin unsaved => mesh'[s] >= mesh[s]
  <2>1. SUFFICES ASSUME NEW u \in Satellites, u \notin unsaved PROVE mesh'[u] >= mesh[u]
    OBVIOUS
  <2>2. OrderOf(u) /\ mesh[u] \in Nat /\ saved[u] \in Nat
    BY <1>1 DEF ThreadInv, OrderInv, ThreadTypes, SatTypes
  <2>3. CASE Restored(u) \/ Join(u)
    <3>1. mesh'[u] \in {mesh[u], saved[u]} /\ mesh[u] <= saved[u]
      BY <1>1, <2>1, <2>2, <2>3 DEF Restored, Join, Apply, OrderOf, ThreadInv, ThreadTypes, SatTypes
    <3>2. QED
      BY <2>2, <3>1
  <2>4. ASSUME NEW s \in Satellites, s # u, Restored(s) \/ Join(s)
        PROVE  mesh'[u] = mesh[u]
    BY <1>1, <2>4 DEF Restored, Join, Apply, ThreadInv, ThreadTypes, SatTypes
  <2>5. ASSUME NEW s \in Satellites,
               \/ PowerOn(s) \/ Start(s) \/ Receive(s) \/ Check(s) \/ Store(s)
               \/ Report(s) \/ Admit(s) \/ Disconnect(s) \/ Crash(s)
        PROVE  mesh' = mesh
    BY <2>5 DEF PowerOn, Start, Receive, Check, Store, Report, Admit, Disconnect, Crash
  <2>6. CASE Coordinate \/ UNCHANGED vars
    BY <1>1, <2>2, <2>6, CoordinateCases DEF ThreadInv, vars
  <2>7. QED
    BY <1>1, <2>2, <2>3, <2>4, <2>5, <2>6 DEF Next, Run
<1>2. QED
  BY <1>1, ThreadInvariant, PTL DEF Spec, NeverOlderNetwork

=============================================================================
