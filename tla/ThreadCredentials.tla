-------------------------- MODULE ThreadCredentials --------------------------
(***************************************************************************)
(* How the credentials of the Thread network reach the satellites:         *)
(* ThreadCoordinator in the Hub (thread_coordinator.py) offers them when a *)
(* satellite has been admitted, and again to all when the network gets a   *)
(* new key; AssistantThreadTBR in the satellite (assistant_thread_tbr.py)  *)
(* acknowledges, stores and applies them, and reports its status.          *)
(*                                                                         *)
(* An offer is a task of the Hub.  It has no name in the protocol: the Hub *)
(* keeps one future per satellite, and one record.  An acknowledgement or  *)
(* a status is looked up under the id written in it, and main.py gives the *)
(* runner of every satellite the same id, "", which is that of no          *)
(* satellite: it reads an attribute that AssistantClient does not have.    *)
(* Networks are numbered by their keys, 0 is none.  The OpenThread border  *)
(* routers are external.                                                   *)
(***************************************************************************)
EXTENDS Naturals, Sequences, FiniteSets

CONSTANTS
  Satellites,
  NoId,          \* the id "" that main.py gives to the runner
  MaxOffers,     \* bound: offers
  MaxNetwork,    \* bound: keys of the network
  MaxFaults,     \* bound: lost connections and crashes
  MaxReports     \* bound: messages under way from a satellite

ASSUME ThreadAssumption ==
  /\ {MaxOffers, MaxNetwork, MaxFaults, MaxReports} \subseteq Nat
  /\ NoId \notin Satellites

Offers == 1 .. MaxOffers
NoOffer == 0

VARIABLES
  \* the coordinator
  network,     \* _dataset
  offer,       \* where each offer task is
  target, terms,           \* the satellite and the network it offers
  acked,       \* offers that returned True
  pendingAck,  \* _pending_acks: the offer whose future it is
  record,      \* _tbrs: the offer that created the TBRRecord of the satellite
  status,      \* TBRRecord.status, by the offer that created the record
  rekey,       \* recommission_network: "off", "running", "ok", "failed", "raised"
  listed,      \* the secondaries it found when it began to go through _tbrs
  todo, awaited, \* those it still has to offer to, the offer it awaits
  \* the connection of each satellite, as both ends have it
  online, toSatellite, toHub,
  \* the satellites
  boot,        \* how far main.py is with the TBR runner
  restored,    \* the credentials start() read from the file
  handling,    \* what the handler of an offer does
  got,         \* the network of that offer
  held,        \* AssistantThreadTBR._dataset
  saved,       \* the credentials file
  mesh,        \* the network of the satellite's border router
  role,        \* AssistantThreadTBR._status
  joined,      \* AssistantThreadTBR._joined
  faults,
  unsaved      \* satellites that failed to write the last credentials they stored

hubVars == <<network, offer, target, terms, acked, pendingAck, record, status>>
rekeyVars == <<rekey, listed, todo, awaited>>
linkVars == <<online, toSatellite, toHub>>
satVars == <<boot, restored, handling, got, held, saved, mesh, role, joined>>
ghostVars == <<faults, unsaved>>
vars == <<hubVars, rekeyVars, linkVars, satVars, ghostVars>>

Statuses == {"joining", "online", "error", "offline"}
Networks == 0 .. MaxNetwork

\* The type invariant; a future that can be resolved belongs to the newest
\* offer of its satellite that has begun.
TypeOK ==
  /\ network \in 1 .. MaxNetwork
  /\ offer \in [Offers -> {"free", "spawned", "waiting", "accepted", "rejected", "done"}]
  /\ terms \in [Offers -> Networks]
  /\ acked \subseteq Offers
  /\ record \in [Satellites -> Offers \cup {NoOffer}]
  /\ status \in [Offers -> Statuses]
  /\ rekey \in {"off", "running", "ok", "failed", "raised"}
  /\ todo \subseteq listed /\ listed \subseteq Satellites /\ awaited \in Offers \cup {NoOffer}
  /\ online \in [Satellites -> BOOLEAN]
  /\ boot \in [Satellites -> {"off", "starting", "restoring", "ready"}]
  /\ handling \in [Satellites -> {"nothing", "checking", "acked", "joining"}]
  /\ {restored, got, held, saved, mesh} \subseteq [Satellites -> Networks]
  /\ {joined, unsaved} \subseteq SUBSET Satellites
  /\ role \in [Satellites -> Statuses]
  /\ \A s \in Satellites : pendingAck[s] # NoOffer =>
       /\ offer[pendingAck[s]] \in {"waiting", "accepted", "rejected"}
       /\ target[pendingAck[s]] = s
       /\ \A o \in Offers : offer[o] = "waiting" /\ target[o] = s => o <= pendingAck[s]

Init ==
  /\ network = 1
  /\ offer = [o \in Offers |-> "free"]
  /\ target \in [Offers -> Satellites]
  /\ terms = [o \in Offers |-> 0]
  /\ acked = {}
  /\ pendingAck = [s \in Satellites |-> NoOffer]
  /\ record = [s \in Satellites |-> NoOffer]
  /\ status = [o \in Offers |-> "offline"]
  /\ rekey = "off" /\ listed = {} /\ todo = {} /\ awaited = NoOffer
  /\ online = [s \in Satellites |-> FALSE]
  /\ toSatellite = [s \in Satellites |-> <<>>]
  /\ toHub = [s \in Satellites |-> <<>>]
  /\ boot = [s \in Satellites |-> "off"]
  /\ handling = [s \in Satellites |-> "nothing"]
  /\ restored = [s \in Satellites |-> 0]
  /\ got = [s \in Satellites |-> 0]
  /\ held = [s \in Satellites |-> 0]
  /\ saved = [s \in Satellites |-> 0]
  /\ mesh = [s \in Satellites |-> 0]
  /\ role = [s \in Satellites |-> "offline"]
  /\ joined = {}
  /\ faults = 0 /\ unsaved = {}

-----------------------------------------------------------------------------
(* offer_credentials_to_satellite                                          *)

\* An offer starts to run: its future takes the place of an earlier one, the
\* offer is sent if the satellite is connected, and a new record is made.
Begin(o, s, n) ==
  /\ terms' = [terms EXCEPT ![o] = n]
  /\ IF online[s]
     THEN /\ offer' = [offer EXCEPT ![o] = "waiting"]
          /\ pendingAck' = [pendingAck EXCEPT ![s] = o]
          /\ toSatellite' = [toSatellite EXCEPT ![s] = Append(@, n)]
          /\ record' = [record EXCEPT ![s] = o]
          /\ status' = [status EXCEPT ![o] = "joining"]
     ELSE /\ offer' = [offer EXCEPT ![o] = "done"]
          /\ pendingAck' = [pendingAck EXCEPT ![s] = NoOffer]
          /\ UNCHANGED <<toSatellite, record, status>>

\* Offers are numbered in the order in which they begin.
NextOffer(o) == \A p \in Offers : offer[p] \in {"free", "spawned"} => o <= p

\* The task that the broker created after an admission.
OfferBegins(o) ==
  /\ offer[o] = "spawned"
  /\ NextOffer(o)
  /\ Begin(o, target[o], network)
  /\ UNCHANGED <<network, target, acked, rekeyVars, online, toHub, satVars, ghostVars>>

\* The offer ends; the entry of its satellite goes, whose future it may be.
Finish(o) ==
  /\ offer' = [offer EXCEPT ![o] = "done"]
  /\ pendingAck' = [pendingAck EXCEPT ![target[o]] = NoOffer]

\* Fault: an offer that is over without success leaves its record as it is.
EndsSilently(o) ==
  /\ offer[o] \in {"waiting", "accepted", "rejected"}
  /\ Finish(o)
  /\ acked' = IF offer[o] = "accepted" THEN acked \cup {o} ELSE acked
  /\ UNCHANGED <<network, target, terms, record, status, rekeyVars, linkVars, satVars, ghostVars>>

\* Its future is resolved, or thirty seconds are over; when both have happened,
\* either may decide.
Ends(o) ==
  /\ offer[o] \in {"waiting", "accepted", "rejected"}
  /\ Finish(o)
  /\ \E accepted \in {FALSE, offer[o] = "accepted"} :
       /\ acked' = IF accepted THEN acked \cup {o} ELSE acked
       /\ status' = IF accepted THEN status ELSE [status EXCEPT ![o] = "error"]
  /\ UNCHANGED <<network, target, terms, record, rekeyVars, linkVars, satVars, ghostVars>>

-----------------------------------------------------------------------------
(* The broker hands the messages of satellites to the coordinator.         *)

\* What a dictionary of the Hub has under the id of a message.
Entry(dict, id) == IF id \in Satellites THEN dict[id] ELSE NoOffer

\* _handle_credentials_ack: the future of the satellite, if there is one.
HandleAck(m) ==
  LET o == Entry(pendingAck, m.id) IN
  /\ offer' = IF o # NoOffer /\ offer[o] = "waiting"
              THEN [offer EXCEPT ![o] = IF m.accepted THEN "accepted" ELSE "rejected"]
              ELSE offer
  /\ UNCHANGED status

\* _handle_status_update: an unknown border router is ignored.
HandleStatus(m) ==
  LET o == Entry(record, m.id) IN
  /\ status' = IF o # NoOffer THEN [status EXCEPT ![o] = m.role] ELSE status
  /\ UNCHANGED offer

HubReads(s) ==
  LET m == Head(toHub[s]) IN
  /\ toHub[s] # <<>>
  /\ toHub' = [toHub EXCEPT ![s] = Tail(@)]
  /\ \/ m.kind = "ack" /\ HandleAck(m)
     \/ m.kind = "status" /\ HandleStatus(m)
  /\ UNCHANGED <<network, target, terms, acked, pendingAck, record, rekeyVars, online,
                 toSatellite, satVars, ghostVars>>

\* A satellite is admitted after its hello: an offer is spawned.  After the
\* resumption of a session its capabilities are not known, and none is.
Admit(s) ==
  /\ boot[s] # "off" /\ ~online[s] /\ handling[s] = "nothing"
  /\ online' = [online EXCEPT ![s] = TRUE]
  /\ \/ \E o \in Offers :
          /\ offer[o] = "free" /\ NextOffer(o)
          /\ \A p \in Offers : offer[p] # "spawned"
          /\ target[o] = s
          /\ offer' = [offer EXCEPT ![o] = "spawned"]
     \/ UNCHANGED offer
  /\ UNCHANGED <<network, target, terms, acked, pendingAck, record, status, rekeyVars,
                 toSatellite, toHub, satVars, ghostVars>>

\* The connection ends: the broker marks the record offline.
Drop(s) ==
  /\ online' = [online EXCEPT ![s] = FALSE]
  /\ toSatellite' = [toSatellite EXCEPT ![s] = <<>>]
  /\ toHub' = [toHub EXCEPT ![s] = <<>>]
  /\ status' = IF online[s] /\ record[s] # NoOffer
               THEN [status EXCEPT ![record[s]] = "offline"] ELSE status
  /\ UNCHANGED <<network, offer, target, terms, acked, pendingAck, record>>

Fault == faults < MaxFaults /\ faults' = faults + 1 /\ UNCHANGED unsaved

Disconnect(s) == online[s] /\ Fault /\ Drop(s) /\ UNCHANGED <<rekeyVars, satVars>>

-----------------------------------------------------------------------------
(* recommission_network                                                    *)

Secondaries == {s \in Satellites : record[s] # NoOffer}

\* The border router of the Hub has a new key; all secondaries are listed.
RekeyBegins ==
  /\ rekey = "off"
  /\ network < MaxNetwork
  /\ network' = network + 1
  /\ listed' = Secondaries /\ todo' = Secondaries
  /\ rekey' = IF Secondaries = {} THEN "ok" ELSE "running"
  /\ UNCHANGED <<offer, target, terms, acked, pendingAck, record, status, awaited, linkVars,
                 satVars, ghostVars>>

\* The next satellite is made an offer, which is awaited.
RekeyOffers(s) ==
  /\ rekey \in {"running", "failed"}
  /\ awaited = NoOffer
  /\ s \in todo
  /\ todo' = todo \ {s}
  /\ \E o \in Offers :
       /\ offer[o] = "free" /\ NextOffer(o)
       /\ target[o] = s
       /\ awaited' = o
       /\ Begin(o, s, network)
  /\ UNCHANGED <<network, target, acked, rekey, listed, online, toHub, satVars, ghostVars>>

\* Fault: the re-keying gives up at the first satellite that does not accept.
RekeyGoesOnIfAccepted ==
  /\ awaited # NoOffer
  /\ offer[awaited] = "done"
  /\ awaited' = NoOffer
  /\ rekey' = IF Secondaries # listed THEN "raised"
              ELSE IF awaited \notin acked THEN "failed"
              ELSE IF todo = {} /\ rekey = "running" THEN "ok" ELSE rekey
  /\ todo' = IF awaited \in acked THEN todo ELSE {}
  /\ UNCHANGED <<hubVars, listed, linkVars, satVars, ghostVars>>

\* The dictionary is gone through while offers add to it: that raises.
RekeyGoesOn ==
  /\ awaited # NoOffer
  /\ offer[awaited] = "done"
  /\ awaited' = NoOffer
  /\ rekey' = IF Secondaries # listed THEN "raised"
              ELSE IF awaited \notin acked THEN "failed"
              ELSE IF todo = {} /\ rekey = "running" THEN "ok" ELSE rekey
  /\ UNCHANGED <<hubVars, listed, todo, linkVars, satVars, ghostVars>>

-----------------------------------------------------------------------------
(* AssistantThreadTBR                                                      *)

SatUnchanged == UNCHANGED <<hubVars, rekeyVars, faults>>

\* The add-on starts; the connection to the Hub comes up before the runner does.
PowerOn(s) ==
  /\ boot[s] = "off"
  /\ boot' = [boot EXCEPT ![s] = "starting"]
  /\ UNCHANGED <<restored, handling, got, held, saved, mesh, role, joined, linkVars, unsaved>>
  /\ SatUnchanged

\* start(): saved credentials are applied, then the handler is registered.
Start(s) ==
  /\ boot[s] = "starting"
  /\ held' = [held EXCEPT ![s] = saved[s]]
  /\ restored' = [restored EXCEPT ![s] = saved[s]]
  /\ boot' = [boot EXCEPT ![s] = IF saved[s] # 0 THEN "restoring" ELSE "ready"]
  /\ role' = [role EXCEPT ![s] = IF saved[s] # 0 THEN "joining" ELSE @]
  /\ UNCHANGED <<handling, got, saved, mesh, joined, linkVars, unsaved>>
  /\ SatUnchanged

\* _apply_dataset: set the network, enable the interface; either may fail.
Apply(s, n) ==
  \/ /\ mesh' = [mesh EXCEPT ![s] = n]
     /\ role' = [role EXCEPT ![s] = "online"]
     /\ joined' = joined \cup {s}
  \/ /\ mesh' \in {mesh, [mesh EXCEPT ![s] = n]}
     /\ role' = [role EXCEPT ![s] = "error"]
     /\ UNCHANGED joined

Restored(s) ==
  /\ boot[s] = "restoring"
  /\ boot' = [boot EXCEPT ![s] = "ready"]
  /\ Apply(s, restored[s])
  /\ restored' = [restored EXCEPT ![s] = 0]
  /\ UNCHANGED <<handling, got, held, saved, linkVars, unsaved>>
  /\ SatUnchanged

\* Fault: the handler is registered before the saved credentials are applied.
ListensEarly(s) == boot[s] \in {"restoring", "ready"}

\* The handler is registered.
Listens(s) == boot[s] = "ready"

\* An offer arrives while the message loop is free; without a handler it is
\* dropped.
Receive(s) ==
  /\ boot[s] # "off"
  /\ toSatellite[s] # <<>>
  /\ handling[s] = "nothing"
  /\ toSatellite' = [toSatellite EXCEPT ![s] = Tail(@)]
  /\ IF Listens(s)
     THEN /\ handling' = [handling EXCEPT ![s] = "checking"]
          /\ got' = [got EXCEPT ![s] = Head(toSatellite[s])]
     ELSE UNCHANGED <<handling, got>>
  /\ UNCHANGED <<boot, restored, held, saved, mesh, role, joined, online, toHub, unsaved>>
  /\ SatUnchanged

Say(s, m) == toHub' = [toHub EXCEPT ![s] = Append(@, m)]
Ack(b) == [kind |-> "ack", id |-> NoId, accepted |-> b]

\* Whether the border router is reachable is acknowledged; only when it is, and
\* the acknowledgement could be sent, are the credentials stored.
Check(s) ==
  /\ handling[s] = "checking"
  /\ \E b \in BOOLEAN :
       /\ handling' = [handling EXCEPT ![s] = IF b /\ online[s] THEN "acked" ELSE "nothing"]
       /\ IF online[s] THEN Say(s, Ack(b)) ELSE UNCHANGED toHub
  /\ UNCHANGED <<boot, restored, got, held, saved, mesh, role, joined, online, toSatellite, unsaved>>
  /\ SatUnchanged

\* Fault: the credentials are kept in memory only.
StoreMemory(s) ==
  /\ handling[s] = "acked"
  /\ held' = [held EXCEPT ![s] = got[s]]
  /\ role' = [role EXCEPT ![s] = "joining"]
  /\ handling' = [handling EXCEPT ![s] = "joining"]
  /\ UNCHANGED <<boot, restored, got, saved, mesh, joined, linkVars, unsaved>>
  /\ SatUnchanged

\* The credentials are kept and written.  A write that fails is only logged: the
\* file is as it was, or has lost its content.
Store(s) ==
  /\ handling[s] = "acked"
  /\ held' = [held EXCEPT ![s] = got[s]]
  /\ \/ /\ saved' = [saved EXCEPT ![s] = got[s]]
        /\ unsaved' = unsaved \ {s}
     \/ /\ saved' \in {saved, [saved EXCEPT ![s] = 0]}
        /\ unsaved' = unsaved \cup {s}
  /\ role' = [role EXCEPT ![s] = "joining"]
  /\ handling' = [handling EXCEPT ![s] = "joining"]
  /\ UNCHANGED <<boot, restored, got, mesh, joined, linkVars>>
  /\ SatUnchanged

Join(s) ==
  /\ handling[s] = "joining"
  /\ handling' = [handling EXCEPT ![s] = "nothing"]
  /\ Apply(s, held[s])
  /\ UNCHANGED <<boot, restored, got, held, saved, linkVars, unsaved>>
  /\ SatUnchanged

\* The status loop, once the satellite has joined a network.
Report(s) ==
  /\ online[s] /\ s \in joined
  /\ Len(toHub[s]) < MaxReports
  /\ Say(s, [kind |-> "status", id |-> NoId, role |-> role[s]])
  /\ UNCHANGED <<satVars, online, toSatellite, unsaved>>
  /\ SatUnchanged

\* A power cut: memory is gone, a file being written may be torn, and is then
\* no credentials at all; the border router keeps its network.
Crash(s) ==
  /\ boot[s] # "off"
  /\ Fault
  /\ boot' = [boot EXCEPT ![s] = "off"]
  /\ handling' = [handling EXCEPT ![s] = "nothing"]
  /\ held' = [held EXCEPT ![s] = 0]
  /\ got' = [got EXCEPT ![s] = 0]
  /\ restored' = [restored EXCEPT ![s] = 0]
  /\ saved' \in {saved} \cup (IF handling[s] = "acked" THEN {[saved EXCEPT ![s] = 0]} ELSE {})
  /\ role' = [role EXCEPT ![s] = "offline"]
  /\ joined' = joined \ {s}
  /\ Drop(s)
  /\ UNCHANGED <<mesh, rekeyVars>>

-----------------------------------------------------------------------------
Coordinate ==
  \/ \E o \in Offers : OfferBegins(o) \/ Ends(o)
  \/ \E s \in Satellites : HubReads(s) \/ RekeyOffers(s)
  \/ RekeyBegins \/ RekeyGoesOn

Run(s) == PowerOn(s) \/ Start(s) \/ Restored(s) \/ Receive(s) \/ Check(s) \/ Store(s) \/ Join(s)

Next ==
  \/ Coordinate
  \/ \E s \in Satellites : Run(s) \/ Report(s) \/ Admit(s) \/ Disconnect(s) \/ Crash(s)

Spec == Init /\ [][Next]_vars

-----------------------------------------------------------------------------
(* What the two of them promise.                                           *)

\* A satellite's border router never goes back to an older network: saved
\* credentials are not applied over an offer that came in the meantime.  Where
\* the last write failed it does: the restart then restores the older file.
NeverOlderNetwork == [][\A s \in Satellites : s \notin unsaved => mesh'[s] >= mesh[s]]_vars

\* The network that a border router has joined is the one its satellite restores
\* after a power cut, unless the write failed: through offers that follow one
\* another, restarts in the middle of them, and routers that refuse.
OnlineIsSaved ==
  \A s \in Satellites \ unsaved : role[s] = "online" => mesh[s] = saved[s]

\* A re-keying that comes to its end leaves no satellite of the registry without
\* an offer of the new network, whatever became of the offers before and whoever
\* registered meanwhile; when it would, it raises.
Offered(s) == \E o \in Offers :
  target[o] = s /\ terms[o] = network /\ offer[o] \notin {"free", "spawned"}
RekeyOver == rekey = "ok" \/ (rekey = "failed" /\ todo = {} /\ awaited = NoOffer)
RekeyLeavesNobody == RekeyOver => \A s \in Secondaries : Offered(s)

\* The Hub shows a satellite as joining only while the offer that made the record
\* still has its time-out before it: offers that replace one another's future and
\* record, and lost connections, leave none that says so for ever.
JoiningIsOffered ==
  \A s \in Satellites :
    record[s] # NoOffer /\ status[record[s]] = "joining"
      => offer[record[s]] \in {"waiting", "accepted", "rejected"}
=============================================================================
