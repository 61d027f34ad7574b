--------------------------- MODULE SatelliteBroker --------------------------
(***************************************************************************)
(* SatelliteBroker (synork_home/src/satellite_broker.py): the WebSocket    *)
(* server of the Hub.  Every connection of a satellite gets a coroutine,   *)
(* _handle_connection, that admits it (returning satellite, new pairing,   *)
(* or resumed session), enters it in _connections, serves its messages and *)
(* cleans up.  A heartbeat monitor closes connections that fell silent.    *)
(*                                                                         *)
(* Everything runs on one asyncio loop: an action is the code between two  *)
(* suspension points (recv, send, the approval event, close), so it is     *)
(* atomic and every order of such pieces is a behaviour.  The SQLite calls *)
(* and the `async` methods that await nothing do not suspend.              *)
(*                                                                         *)
(* Satellites, the network, the owner and time are the environment: any    *)
(* satellite may say anything the protocol has on a connection, vanish     *)
(* without a word, close or be reset.                                      *)
(***************************************************************************)
EXTENDS HubPairing

CONSTANTS
  Handlers,       \* handler coroutines that can exist at a time
  NoHandler,
  MaxStops        \* bound: stops and crashes of the Hub process

ASSUME BrokerAssumption ==
  /\ NoHandler \notin Handlers
  /\ MaxStops \in Nat

VARIABLES
  \* one connection handler
  pc,         \* where the coroutine is suspended
  sat,        \* SatelliteConnection.satellite_id
  request,    \* the pairing request it waits for
  token,      \* SatelliteConnection.session_token
  beat,       \* the age of SatelliteConnection.last_heartbeat
  wire,       \* its WebSocket, as the network has it
  \* the broker
  registry,   \* _connections
  stale,      \* satellites the heartbeat monitor is about to close
  closing,    \* connections stop() is about to close
  hub,        \* the life of the process
  stops       \* how often it was stopped or has crashed

handlerVars == <<pc, sat, request, token, beat, wire>>
brokerVars  == <<registry, stale, closing>>
hubVars     == <<hub, stops>>
vars == <<pairingVars, handlerVars, brokerVars, hubVars>>

(* "accepted": awaits the first message;  "challenged": awaits the HMAC      *)
(* answer;  "welcoming": sends HubWelcome;  "offering": sends the challenge  *)
(* with the pairing request id;  "waiting": awaits the owner's decision;     *)
(* "timedOut": wait_for has fired;  "refusing": sends the rejection;         *)
(* "enrolling": sends HubWelcome with the new secret;  "loop": message loop. *)
PairingStates == {"offering", "waiting", "timedOut", "refusing", "enrolling"}
Handshake == {"accepted", "challenged", "welcoming"} \cup PairingStates
PCs == {"idle", "loop"} \cup Handshake

HandlerTypeOK ==
  /\ pc \in [Handlers -> PCs]
  /\ sat \in [Handlers -> Satellites \cup {Nobody}]
  /\ request \in [Handlers -> 0 .. MaxRequests]
  /\ token \in [Handlers -> 0 .. MaxTokens]
  /\ beat \in [Handlers -> {"fresh", "aged", "missed"}]
  /\ wire \in [Handlers -> {"open", "dead", "closed"}]

BrokerTypeOK ==
  /\ registry \in [Satellites -> Handlers \cup {NoHandler}]
  /\ stale \subseteq Satellites
  /\ closing \subseteq Handlers
  /\ hub \in {"running", "stopping", "draining", "down"}
  /\ stops \in 0 .. MaxStops

\* The type invariant.
TypeOK == PairingTypeOK /\ HandlerTypeOK /\ BrokerTypeOK

BrokerInit ==
  /\ pc = [h \in Handlers |-> "idle"]
  /\ sat = [h \in Handlers |-> Nobody]
  /\ request = [h \in Handlers |-> NoRequest]
  /\ token = [h \in Handlers |-> NoToken]
  /\ beat = [h \in Handlers |-> "fresh"]
  /\ wire = [h \in Handlers |-> "closed"]
  /\ registry = [s \in Satellites |-> NoHandler]
  /\ stale = {}
  /\ closing = {}
  /\ hub = "running"
  /\ stops = 0

Init == PairingInit /\ BrokerInit

\* Every satellite was paired by a request of its own, then the Hub restarted.
PairedInit ==
  \E owner \in [Requests -> Satellites] :
    /\ \A r1, r2 \in Requests : owner[r1] = owner[r2] => r1 = r2
    /\ \A s \in Satellites : \E r \in Requests : owner[r] = s
    /\ row = [s \in Satellites |-> CHOOSE r \in Requests : owner[r] = s]
    /\ claimant = owner
    /\ created = MaxRequests
    /\ verdicts = [r \in Requests |-> {"approve"}]
    /\ online = [s \in Satellites |-> FALSE]
    /\ pendingRows = {}
    /\ sessions = [s \in Satellites |-> NoToken]
    /\ expired = {}
    /\ pending = {}
    /\ signalled = {}
    /\ secrets = {}
    /\ issued = 0
    /\ BrokerInit

-----------------------------------------------------------------------------
(* Pieces shared by the steps of a handler.                                *)

Goto(h, label) == pc' = [pc EXCEPT ![h] = label]

\* The coroutine returns: its frame and its SatelliteConnection are gone.
Return(h) ==
  /\ Goto(h, "idle")
  /\ sat' = [sat EXCEPT ![h] = Nobody]
  /\ request' = [request EXCEPT ![h] = NoRequest]
  /\ token' = [token EXCEPT ![h] = NoToken]
  /\ beat' = [beat EXCEPT ![h] = "fresh"]
  /\ wire' = [wire EXCEPT ![h] = "closed"]

\* An exit before admission: `conn` is still None, so `finally` does nothing.
Abandon(h) == Return(h) /\ UNCHANGED <<brokerVars, hubVars>>

\* Identify the connection as satellite s and suspend at label.
Identify(h, s, label) ==
  /\ Goto(h, label)
  /\ sat' = [sat EXCEPT ![h] = s]

\* A HubWelcome with a new session for satellite s is on its way.
Welcome(h, s) ==
  /\ IssueSession(s)
  /\ token' = [token EXCEPT ![h] = issued + 1]

\* The admitted connection replaces whatever entry its satellite had.
Register(h) ==
  /\ Goto(h, "loop")
  /\ registry' = [registry EXCEPT ![sat[h]] = h]

\* A message can be read (after a close, one that came before it); a send does
\* not raise.
Receives(h) == wire[h] # "dead"
CanSend(h) == wire[h] # "closed"

-----------------------------------------------------------------------------
(* The handshake of one connection.                                        *)

\* A satellite opens a WebSocket; _handle_connection starts.
Accept(h) ==
  /\ pc[h] = "idle"
  /\ hub \in {"running", "stopping"}
  /\ Goto(h, "accepted")
  /\ wire' = [wire EXCEPT ![h] = "open"]
  /\ UNCHANGED <<pairingVars, sat, request, token, beat, brokerVars, hubVars>>

\* Hello with a device_secret_hash: a returning satellite is challenged.
HelloKnown(h, s, hash) ==
  /\ pc[h] = "accepted"
  /\ Receives(h)
  /\ Registered(s)
  /\ row[s] = hash
  /\ Identify(h, s, "challenged")
  /\ UNCHANGED <<pairingVars, request, token, beat, wire, brokerVars, hubVars>>

\* AUTH_FAILED: unknown satellite, or the hash differs from the stored one.
HelloRefused(h, s, hash) ==
  /\ pc[h] = "accepted"
  /\ Receives(h)
  /\ row[s] # hash
  /\ Abandon(h)
  /\ UNCHANGED pairingVars

\* The HMAC answer is right: a session is issued to the satellite, whatever
\* became of its row since the challenge was sent.
AuthAccepted(h) ==
  /\ pc[h] = "challenged"
  /\ Receives(h)
  /\ Goto(h, "welcoming")
  /\ Welcome(h, sat[h])
  /\ UNCHANGED <<ledgerVars, decisionVars, sat, request, beat, wire, brokerVars, hubVars>>

\* The first message or the HMAC answer does not come in time (10 s each), is
\* not the expected one, or the connection is lost.
HandshakeFails(h) ==
  /\ pc[h] \in {"accepted", "challenged"}
  /\ Abandon(h)
  /\ UNCHANGED pairingVars

\* Hello without a hash: a new satellite asks to be paired.
HelloNew(h, s) ==
  /\ pc[h] = "accepted"
  /\ Receives(h)
  /\ ~Registered(s)
  /\ \E r \in Requests :
       /\ StoreRequest(r, s)
       /\ request' = [request EXCEPT ![h] = r]
  /\ Identify(h, s, "offering")
  /\ UNCHANGED <<row, online, sessionVars, token, beat, wire, brokerVars, hubVars>>

\* AUTH_FAILED: already paired.
HelloNewRefused(h, s) ==
  /\ pc[h] = "accepted"
  /\ Receives(h)
  /\ Registered(s)
  /\ Abandon(h)
  /\ UNCHANGED pairingVars

\* SatelliteReconnect with the current token: the session is rotated.
Resume(h, s, t) ==
  /\ pc[h] = "accepted"
  /\ Receives(h)
  /\ Resumable(s, t)
  /\ Identify(h, s, "welcoming")
  /\ Welcome(h, s)
  /\ UNCHANGED <<ledgerVars, decisionVars, request, beat, wire, brokerVars, hubVars>>

\* AUTH_EXPIRED, and the connection is closed.
ResumeRefused(h, s, t) ==
  /\ pc[h] = "accepted"
  /\ Receives(h)
  /\ RefuseResume(s, t)
  /\ Abandon(h)
  /\ UNCHANGED <<ledgerVars, decisionVars>>

\* HubWelcome is sent: the connection is entered in _connections, the
\* satellite is marked online, the message loop starts.
Admit(h) ==
  /\ pc[h] = "welcoming"
  /\ CanSend(h)
  /\ Register(h)
  /\ MarkOnline(sat[h])
  /\ UNCHANGED <<row, pendingRows, decisionVars, sessionVars, sat, request,
                 token, beat, wire, stale, closing, hubVars>>

\* ConnectionClosed from a send before admission.  A pairing request whose
\* challenge could not be sent stays behind in _pending and in the database.
SendFails(h) ==
  /\ pc[h] \in {"welcoming", "offering"}
  /\ ~CanSend(h)
  /\ Abandon(h)
  /\ UNCHANGED pairingVars

-----------------------------------------------------------------------------
(* wait_for_pairing_approval                                               *)

\* The challenge with the request id is sent; the approval event is awaited.
OfferSent(h) ==
  /\ pc[h] = "offering"
  /\ CanSend(h)
  /\ Goto(h, "waiting")
  /\ UNCHANGED <<pairingVars, sat, request, token, beat, wire, brokerVars, hubVars>>

\* Woken with a secret: the satellite is registered, gets a session, and its
\* HubWelcome with the secret is sent.
Enrol(h) ==
  LET r == request[h]  s == sat[h] IN
  /\ pc[h] = "waiting"
  /\ r \in signalled
  /\ r \in secrets
  /\ secrets' = secrets \ {r}
  /\ InsertRow(s, r)
  /\ Welcome(h, s)
  /\ Goto(h, "enrolling")
  /\ UNCHANGED <<pendingRows, pending, signalled, created, claimant, verdicts,
                 sat, request, beat, wire, brokerVars, hubVars>>

\* Woken with a secret, but another request has registered the satellite in
\* the meantime: the INSERT raises, the request is never cleaned up.
EnrolConflict(h) ==
  LET r == request[h] IN
  /\ pc[h] = "waiting"
  /\ r \in signalled
  /\ r \in secrets
  /\ Registered(sat[h])
  /\ secrets' = secrets \ {r}
  /\ Abandon(h)
  /\ UNCHANGED <<ledgerVars, sessionVars, pending, signalled, created, claimant, verdicts>>

\* Woken without a secret: the rejection is sent.
Refuse(h) ==
  /\ pc[h] = "waiting"
  /\ request[h] \in signalled
  /\ request[h] \notin secrets
  /\ Goto(h, "refusing")
  /\ UNCHANGED <<pairingVars, sat, request, token, beat, wire, brokerVars, hubVars>>

\* Fault: the event is awaited without a time-out.
NoTimeout(h) == pc[h] = "waiting" /\ FALSE

\* Five minutes are over: wait_for cancels the wait.  The coroutine sees it
\* only when it runs again, even if the event is set before or after.
TimeoutFires(h) ==
  /\ pc[h] = "waiting"
  /\ Goto(h, "timedOut")
  /\ UNCHANGED <<pairingVars, sat, request, token, beat, wire, brokerVars, hubVars>>

\* The request is removed: after the time-out, or after the rejection was
\* sent (send errors are ignored).
Withdraw(h) ==
  /\ pc[h] \in {"timedOut", "refusing"}
  /\ CleanupPending(request[h])
  /\ Abandon(h)
  /\ UNCHANGED <<row, online, secrets, created, claimant, verdicts, sessionVars>>

\* HubWelcome is sent or lost, all the same: the request is removed and the
\* connection registered as any other.
AdmitNew(h) ==
  /\ pc[h] = "enrolling"
  /\ CleanupPending(request[h])
  /\ Register(h)
  /\ MarkOnline(sat[h])
  /\ UNCHANGED <<row, secrets, created, claimant, verdicts, sessionVars,
                 sat, request, token, beat, wire, stale, closing, hubVars>>

-----------------------------------------------------------------------------
(* The message loop and the heartbeat monitor.                             *)

\* assistant_heartbeat
Heartbeat(h) ==
  /\ pc[h] = "loop"
  /\ Receives(h)
  /\ beat' = [beat EXCEPT ![h] = "fresh"]
  /\ UNCHANGED <<pairingVars, pc, sat, request, token, wire, brokerVars, hubVars>>

\* Ninety seconds pass with no heartbeat handled.  last_heartbeat counts from
\* the hello, so a connection ages while it waits for the owner: it is "aged"
\* when it has not missed anything, "missed" when the silence fell in the loop.
Quiet(h) ==
  /\ \/ /\ pc[h] \in PairingStates
        /\ beat[h] = "fresh"
        /\ beat' = [beat EXCEPT ![h] = "aged"]
     \/ /\ pc[h] = "loop"
        /\ beat[h] # "missed"
        /\ beat' = [beat EXCEPT ![h] = "missed"]
  /\ UNCHANGED <<pairingVars, pc, sat, request, token, wire, brokerVars, hubVars>>

\* Fault: the entry of the satellite is left behind.
LoopEndsKeepsEntry(h) ==
  /\ pc[h] = "loop"
  /\ wire[h] = "closed"
  /\ MarkOffline(sat[h])
  /\ Return(h)
  /\ UNCHANGED <<row, pendingRows, decisionVars, sessionVars, brokerVars, hubVars>>

\* The message loop ends with the connection.  `finally` removes the entry of
\* the satellite, whosever it is, and marks it offline.
LoopEnds(h) ==
  LET s == sat[h] IN
  /\ pc[h] = "loop"
  /\ wire[h] = "closed"
  /\ IF registry[s] # NoHandler
     THEN /\ registry' = [registry EXCEPT ![s] = NoHandler]
          /\ MarkOffline(s)
     ELSE UNCHANGED <<registry, online>>
  /\ Return(h)
  /\ UNCHANGED <<row, pendingRows, decisionVars, sessionVars, stale, closing, hubVars>>

\* ws.close() on the connection that is registered for s now.
CloseRegistered(s) ==
  wire' = [h \in Handlers |-> IF h = registry[s] THEN "closed" ELSE wire[h]]

Connected == {s \in Satellites : registry[s] # NoHandler}

\* Fault: the comparison is the wrong way round.
NotSilent == {s \in Connected : beat[registry[s]] = "fresh"}

\* Connections with no heartbeat for three intervals.
Silent == {s \in Connected : beat[registry[s]] # "fresh"}

\* Every 30 s: list the silent satellites and close the first.
MonitorTick ==
  /\ hub = "running"
  /\ stale = {}
  /\ \E s \in Silent :
       /\ stale' = Silent \ {s}
       /\ CloseRegistered(s)
  /\ UNCHANGED <<pairingVars, pc, sat, request, token, beat, registry, closing, hubVars>>

\* That close has been awaited; the next satellite of the list is looked up.
MonitorClose(s) ==
  /\ s \in stale
  /\ stale' = stale \ {s}
  /\ CloseRegistered(s)
  /\ UNCHANGED <<pairingVars, pc, sat, request, token, beat, registry, closing, hubVars>>

-----------------------------------------------------------------------------
(* The network.                                                            *)

\* The satellite closes the connection, or a reset arrives.
PeerCloses(h) ==
  /\ wire[h] # "closed"
  /\ wire' = [wire EXCEPT ![h] = "closed"]
  /\ UNCHANGED <<pairingVars, pc, sat, request, token, beat, brokerVars, hubVars>>

\* Power or radio is lost: nothing arrives any more, and nothing tells the Hub.
PeerVanishes(h) ==
  /\ wire[h] = "open"
  /\ wire' = [wire EXCEPT ![h] = "dead"]
  /\ UNCHANGED <<pairingVars, pc, sat, request, token, beat, brokerVars, hubVars>>

-----------------------------------------------------------------------------
(* stop(), crash and restart.                                              *)

\* stop(): the monitor is cancelled, the registered connections are listed.
Stop ==
  /\ hub = "running"
  /\ stops < MaxStops
  /\ hub' = "stopping"
  /\ stops' = stops + 1
  /\ stale' = {}
  /\ closing' = {registry[s] : s \in Satellites} \ {NoHandler}
  /\ UNCHANGED <<pairingVars, handlerVars, registry>>

\* SatelliteDisconnect, then close, one connection after the other.
StopClose(h) ==
  /\ h \in closing
  /\ closing' = closing \ {h}
  /\ wire' = [wire EXCEPT ![h] = "closed"]
  /\ UNCHANGED <<pairingVars, pc, sat, request, token, beat, registry, stale, hubVars>>

\* Fault: only the registered connections are closed.
StopClearOnly ==
  /\ hub = "stopping"
  /\ closing = {}
  /\ hub' = "draining"
  /\ registry' = [s \in Satellites |-> NoHandler]
  /\ UNCHANGED <<pairingVars, pc, sat, request, token, beat, wire, stale, closing, stops>>

\* _connections.clear(), then server.close(): no new connections, the ones
\* that are left are closed.
StopClear ==
  /\ hub = "stopping"
  /\ closing = {}
  /\ hub' = "draining"
  /\ registry' = [s \in Satellites |-> NoHandler]
  /\ wire' = [h \in Handlers |-> "closed"]
  /\ UNCHANGED <<pairingVars, pc, sat, request, token, beat, stale, closing, stops>>

\* The memory of the process is gone.
ProcessEnds ==
  /\ hub' = "down"
  /\ ForgetMemory
  /\ pc' = [h \in Handlers |-> "idle"]
  /\ sat' = [h \in Handlers |-> Nobody]
  /\ request' = [h \in Handlers |-> NoRequest]
  /\ token' = [h \in Handlers |-> NoToken]
  /\ beat' = [h \in Handlers |-> "fresh"]
  /\ wire' = [h \in Handlers |-> "closed"]
  /\ registry' = [s \in Satellites |-> NoHandler]
  /\ stale' = {}
  /\ closing' = {}

\* wait_closed() returns when the last handler has; the add-on exits.
Down ==
  /\ hub = "draining"
  /\ \A h \in Handlers : pc[h] = "idle"
  /\ ProcessEnds
  /\ UNCHANGED stops

\* A crash or a power cut.
Crash ==
  /\ hub # "down"
  /\ stops < MaxStops
  /\ stops' = stops + 1
  /\ ProcessEnds

\* The supervisor starts the add-on again: initialize(), start().
Boot ==
  /\ hub = "down"
  /\ hub' = "running"
  /\ UNCHANGED <<pairingVars, handlerVars, brokerVars, stops>>

-----------------------------------------------------------------------------
Shake(h) ==
  \/ Accept(h)
  \/ HandshakeFails(h)
  \/ AuthAccepted(h)
  \/ Admit(h)
  \/ SendFails(h)
  \/ \E s \in Satellites :
       \/ \E hash \in Requests \cup {UnknownHash} :
            HelloKnown(h, s, hash) \/ HelloRefused(h, s, hash)
       \/ HelloNew(h, s)
       \/ HelloNewRefused(h, s)
       \/ \E t \in 1 .. MaxTokens : Resume(h, s, t) \/ ResumeRefused(h, s, t)

Pair(h) ==
  \/ OfferSent(h)
  \/ Enrol(h)
  \/ EnrolConflict(h)
  \/ Refuse(h)
  \/ TimeoutFires(h)
  \/ Withdraw(h)
  \/ AdmitNew(h)

Serve(h) == Heartbeat(h) \/ LoopEnds(h)

Monitor == MonitorTick \/ \E s \in Satellites : MonitorClose(s)

Owner ==
  /\ hub # "down"
  /\ \/ \E r \in Requests : ApprovePairing(r) \/ RejectPairing(r)
     \/ \E s \in Satellites : UnpairSatellite(s)
  /\ UNCHANGED <<handlerVars, brokerVars, hubVars>>

Time ==
  \/ \E h \in Handlers : Quiet(h)
  \/ /\ \E s \in Satellites : SessionExpires(s)
     /\ UNCHANGED <<handlerVars, brokerVars, hubVars>>

Network == \E h \in Handlers : PeerCloses(h) \/ PeerVanishes(h)

Process == Stop \/ (\E h \in Handlers : StopClose(h)) \/ StopClear \/ Down \/ Crash \/ Boot

Next ==
  \/ \E h \in Handlers : Shake(h) \/ Pair(h) \/ Serve(h)
  \/ Monitor
  \/ Owner
  \/ Time
  \/ Network
  \/ Process

Spec == Init /\ [][Next]_vars

-----------------------------------------------------------------------------
(* What the Hub promises.                                                  *)

\* A satellite is in the household only by a decision of the owner: the secret
\* stored for it was generated by approve_pairing for a request that this very
\* satellite had made, through all races of approval, rejection, time-out,
\* duplicate requests, unpairing and restarts.
EnrolmentWasApproved ==
  \A s \in Satellites : Registered(s) =>
    /\ "approve" \in verdicts[row[s]]
    /\ claimant[row[s]] = s

\* _connections never leads to a coroutine that has returned, that is still in
\* its handshake, or that serves another satellite: send_to_satellite cannot
\* deliver to the wrong device.
RegistryIsLive ==
  \A s \in Satellites : registry[s] # NoHandler =>
    /\ pc[registry[s]] = "loop"
    /\ sat[registry[s]] = s

\* A registered connection of a paired satellite is flagged online, and as
\* long as the process has neither stopped nor crashed, the flag of a
\* satellite without one is down, except while its first HubWelcome is sent.
OnlineFollowsRegistry ==
  \A s \in Satellites :
    /\ Registered(s) /\ registry[s] # NoHandler => online[s]
    /\ stops = 0 /\ online[s] =>
         \/ registry[s] # NoHandler
         \/ \E h \in Handlers : pc[h] = "enrolling" /\ sat[h] = s

\* Of all tokens sent to the connections of a satellite only the newest can be
\* the one that resumes its session: an older one is spent for good.
OnlyNewestTokenResumes ==
  \A h \in Handlers :
    sat[h] # Nobody /\ sessions[sat[h]] # NoToken => token[h] <= sessions[sat[h]]

\* Until the first stop or crash, the requests in memory are those in the
\* database; after it, memory holds no request the database does not have.
PendingIsStored ==
  /\ pending \subseteq pendingRows
  /\ stops = 0 => pending = pendingRows

\* The requests a coroutine can still turn into a registration.
OpenRequests == {request[h] : h \in {g \in Handlers : pc[g] \in {"offering", "waiting"}}}

H == INSTANCE Household WITH member <- row, open <- OpenRequests

\* Whatever races, restarts and time-outs do, the Hub's ledger changes as the
\* abstract household does: a request admits only the satellite that made it,
\* only when approved, only while it is open, and at most once.
HouseholdKept == H!Spec

\* A satellite that is paired keeps its secret until it is unpaired: a second
\* request for it that is approved too cannot replace the secret (it would
\* lock out the device that holds the first one).
SecretNeverReplaced ==
  [][\A s \in Satellites : Registered(s) => row'[s] \in {row[s], NoRow}]_vars

-----------------------------------------------------------------------------
(* Fairness: the loop runs every coroutine that can go on, time-outs fire, *)
(* the monitor ticks, time passes on silent connections.  Nothing is asked *)
(* of satellites, of the owner, or of the network.                         *)
Progress(h) ==
  \/ HandshakeFails(h)
  \/ Admit(h)
  \/ SendFails(h)
  \/ OfferSent(h)
  \/ Refuse(h)
  \/ TimeoutFires(h)
  \/ Withdraw(h)
  \/ AdmitNew(h)
  \/ LoopEnds(h)

Fairness ==
  /\ \A h \in Handlers :
       /\ WF_vars(Progress(h))
       /\ WF_vars(wire[h] = "dead" /\ Quiet(h))
       /\ WF_vars(StopClose(h))
  /\ WF_vars(MonitorTick)
  /\ \A s \in Satellites : WF_vars(MonitorClose(s))
  /\ WF_vars(StopClear)
  /\ WF_vars(Down)
  /\ WF_vars(Boot)

FairSpec == Spec /\ Fairness

\* No connection hangs in its handshake: it is admitted or given up, whatever
\* the satellite and the owner fail to do.
HandshakeEnds ==
  \A h \in Handlers : pc[h] \in Handshake ~> pc[h] \in {"idle", "loop"}

\* A registered connection whose satellite vanished without a word does not
\* stay in _connections: the heartbeat monitor gets it out.
DeadIsDropped ==
  \A s \in Satellites, h \in Handlers :
    registry[s] = h /\ wire[h] = "dead" ~> registry[s] # h

\* stop() comes to its end whatever connections are in their handshake.
StopCompletes == hub = "stopping" ~> hub = "down"
=============================================================================
