--------------------------- MODULE SatelliteLink ----------------------------
(***************************************************************************)
(* Satellites running AssistantClient, connected to the Hub's broker.      *)
(* Every message a handler reads was sent by a client, and every answer is *)
(* read by one.  AssistantClient always sends a hash, so the pairing       *)
(* branch of the broker has no part in this module.                        *)
(***************************************************************************)
EXTENDS SatelliteBroker, Sequences

CONSTANT MaxFaults     \* bound: breakages, delays and power cuts

ASSUME LinkAssumption == MaxFaults \in Nat

VARIABLES
  mode, link, retried, held, known, stored, cut,   \* AssistantClient
  up, down,                                   \* messages under way on each connection
  faults

INSTANCE AssistantClient WITH EmptyHash <- UnknownHash

clientSide == <<mode, link, retried, held, known, stored, cut>>
channelVars == <<up, down>>
linkVars == <<vars, clientSide, channelVars, faults>>

\* All of the Hub but its sockets.
hubSide == <<pairingVars, pc, sat, request, token, beat, brokerVars, hubVars>>

FromClient ==
       [kind : {"hello"}, sat : Satellites, hash : 1 .. UnknownHash]
  \cup [kind : {"reconnect"}, sat : Satellites, token : 1 .. MaxTokens]
  \cup [kind : {"signature"}, sat : Satellites]

FromHub ==
       [kind : {"challenge", "failed", "expired"}]
  \cup [kind : {"welcome"}, token : 1 .. MaxTokens]

ClientTypeOK ==
  /\ mode \in [Satellites -> Modes]
  /\ link \in [Satellites -> Handlers \cup {NoHandler}]
  /\ retried \in [Satellites -> BOOLEAN]
  /\ held \in [Satellites -> 0 .. MaxTokens]
  /\ known \in [Satellites -> 0 .. MaxRequests]
  /\ stored \in [Satellites -> 0 .. MaxRequests]
  /\ cut \subseteq Satellites
  /\ up \in [Handlers -> Seq(FromClient)]
  /\ down \in [Handlers -> Seq(FromHub)]
  /\ faults \in 0 .. MaxFaults

\* The type invariant.
LinkTypeOK == TypeOK /\ ClientTypeOK

Fails == faults < MaxFaults /\ faults' = faults + 1

\* The client of satellite s is at the other end of h.
Attends(s, h) == link[s] = h
Attended(h) == \E s \in Satellites : Attends(s, h)

-----------------------------------------------------------------------------
(* The client's steps.                                                     *)

Connect(s) ==
  /\ \E h \in Handlers : ~Attended(h) /\ Accept(h) /\ Opened(s, h)
  /\ UNCHANGED faults

\* The Hub is down, or the network fails.
ConnectFails(s) ==
  /\ OpenFails(s)
  /\ IF hub \in {"draining", "down"} THEN UNCHANGED faults ELSE Fails
  /\ UNCHANGED hubSide

\* What the client does next when nothing goes wrong.
Proceed(s) ==
  /\ \/ ResumeDenied(s)
     \/ Sign(s)
     \/ Welcomed(s)
     \/ Saved(s)
     \/ Refused(s)
     \/ Lost(s)
     \/ ServiceEnds(s)
     \/ HubSilent(s)
  /\ UNCHANGED <<hubSide, faults>>

\* Ten seconds without an answer: the connection is dead, or an answer is late.
GiveUpWaiting(s) ==
  /\ link[s] # NoHandler
  /\ down[link[s]] = <<>> \/ s \in cut
  /\ ResumeTimesOut(s) \/ AuthTimesOut(s)
  /\ IF s \in cut THEN UNCHANGED faults ELSE Fails
  /\ UNCHANGED hubSide

Power(s) ==
  /\ \/ PowerOff(s) /\ Fails
     \/ PowerOn(s) /\ UNCHANGED faults
  /\ UNCHANGED hubSide

-----------------------------------------------------------------------------
(* The Hub's steps.                                                        *)

\* The handler has read a message and sends its answer, if it still can.
Answer(h, msg) ==
  /\ up' = [up EXCEPT ![h] = Tail(@)]
  /\ down' = IF wire[h] = "open" THEN [down EXCEPT ![h] = Append(@, msg)] ELSE down

ReadHello(h) ==
  LET msg == Head(up[h]) IN
  /\ up[h] # <<>>
  /\ msg.kind = "hello"
  /\ \/ /\ HelloKnown(h, msg.sat, msg.hash)
        /\ Answer(h, [kind |-> "challenge"])
     \/ /\ HelloRefused(h, msg.sat, msg.hash)
        /\ Answer(h, [kind |-> "failed"])

ReadSignature(h) ==
  /\ up[h] # <<>>
  /\ Head(up[h]).kind = "signature"
  /\ AuthAccepted(h)
  /\ Answer(h, [kind |-> "welcome", token |-> issued + 1])

ReadReconnect(h) ==
  LET msg == Head(up[h]) IN
  /\ up[h] # <<>>
  /\ msg.kind = "reconnect"
  /\ \/ /\ Resume(h, msg.sat, msg.token)
        /\ Answer(h, [kind |-> "welcome", token |-> issued + 1])
     \/ /\ ResumeRefused(h, msg.sat, msg.token)
        /\ Answer(h, [kind |-> "expired"])

\* A handler reads what its client sent.
Read(h) ==
  /\ ReadHello(h) \/ ReadSignature(h) \/ ReadReconnect(h)
  /\ UNCHANGED <<clientSide, faults>>

\* A hello that arrives in the message loop has no handler.
Ignore(h) ==
  /\ pc[h] = "loop"
  /\ up[h] # <<>>
  /\ up' = [up EXCEPT ![h] = Tail(@)]
  /\ UNCHANGED <<vars, clientSide, down, faults>>

\* A handler gives its handshake up: the connection is gone, or nothing comes
\* in time although the client is still there.
GiveUpHandler(h) ==
  /\ HandshakeFails(h)
  /\ up[h] = <<>> \/ wire[h] = "dead"
  /\ IF wire[h] = "open" THEN Fails ELSE UNCHANGED faults
  /\ UNCHANGED <<clientSide, channelVars>>

\* A client sends its heartbeats as long as it serves; only a dead connection
\* falls silent.
Beats(h) == wire[h] = "open" /\ \E s \in Satellites : Attends(s, h) /\ mode[s] = "serving"

HubStep(h) ==
  /\ \/ Admit(h)
     \/ SendFails(h)
     \/ LoopEnds(h)
     \/ Beats(h) /\ Heartbeat(h)
     \/ wire[h] = "dead" /\ Quiet(h)
     \/ StopClose(h)
  /\ UNCHANGED <<clientSide, channelVars, faults>>

HubAlone ==
  /\ \/ MonitorTick
     \/ \E s \in Satellites : MonitorClose(s)
     \/ \E s \in Satellites :
          /\ UnpairSatellite(s) \/ SessionExpires(s)
          /\ hub # "down"
          /\ UNCHANGED <<handlerVars, brokerVars, hubVars>>
     \/ Stop
     \/ StopClear
     \/ Down
     \/ Boot
  /\ UNCHANGED <<clientSide, channelVars, faults>>

\* The sockets of a crashed process are reset, those of a Hub without power
\* just fall silent.
HubCrashes ==
  /\ Crash
  /\ \E silent \in {{}, {s \in Satellites : link[s] # NoHandler}} : cut' = cut \cup silent
  /\ UNCHANGED <<mode, link, retried, held, known, stored, channelVars, faults>>

\* A connection is reset, or dies without notice.
Breaks(s) ==
  LET h == link[s] IN
  /\ h # NoHandler
  /\ s \notin cut
  /\ \/ PeerCloses(h) /\ UNCHANGED cut
     \/ PeerVanishes(h) /\ cut' = cut \cup {s}
  /\ Fails
  /\ UNCHANGED <<mode, link, retried, held, known, stored, channelVars>>

LinkNext ==
  \/ \E s \in Satellites :
       Connect(s) \/ ConnectFails(s) \/ Proceed(s) \/ GiveUpWaiting(s) \/ Power(s)
       \/ Breaks(s)
  \/ \E h \in Handlers :
       Read(h) \/ Ignore(h) \/ GiveUpHandler(h) \/ HubStep(h)
  \/ HubAlone
  \/ HubCrashes

\* No satellite is switched on; each has the secret the Hub knows for it.
ClientInit ==
  /\ mode = [s \in Satellites |-> "off"]
  /\ link = [s \in Satellites |-> NoHandler]
  /\ retried = [s \in Satellites |-> FALSE]
  /\ held = [s \in Satellites |-> NoToken]
  /\ known = row
  /\ stored = row
  /\ cut = {}
  /\ up = [h \in Handlers |-> <<>>]
  /\ down = [h \in Handlers |-> <<>>]
  /\ faults = 0

\* Every satellite was paired before; the Hub has just been started.
LinkInit == PairedInit /\ ClientInit

LinkSpec == LinkInit /\ [][LinkNext]_linkVars

(* Fairness: both event loops run what can go on and time-outs on a dead    *)
(* connection fire.  Faults, stops, power and the owner are not fair.       *)
ClientFairness(s) ==
  /\ WF_linkVars(Connect(s))
  /\ WF_linkVars(Proceed(s))
  /\ WF_linkVars(s \in cut /\ GiveUpWaiting(s))

HandlerFairness(h) ==
  /\ WF_linkVars(Read(h))
  /\ WF_linkVars(Ignore(h))
  /\ WF_linkVars(wire[h] # "open" /\ GiveUpHandler(h))
  /\ WF_linkVars(HubStep(h))

LinkFairSpec ==
  /\ LinkSpec
  /\ \A s \in Satellites : ClientFairness(s)
  /\ \A h \in Handlers : HandlerFairness(h)
  /\ WF_linkVars(MonitorTick /\ HubAlone)
  /\ \A s \in Satellites : WF_linkVars(MonitorClose(s) /\ HubAlone)
  /\ WF_linkVars((StopClear \/ Down \/ Boot) /\ HubAlone)

-----------------------------------------------------------------------------
(* What the link promises.                                                 *)

\* A satellite that serves a connection and the handler at its other end, as
\* long as that one runs, speak of the same satellite and hold the same
\* session token: no late, lost or crossed answer of an earlier attempt is
\* taken for the answer of this one.
AgreedSession ==
  \A s \in Satellites : mode[s] = "serving" /\ pc[link[s]] # "idle" =>
    /\ pc[link[s]] \in {"welcoming", "loop"}
    /\ sat[link[s]] = s
    /\ token[link[s]] = held[s]

\* However often a satellite gives up and tries again, it leaves no open
\* connection behind: every open one the Hub serves for it is the one it reads.
NoOrphanLink ==
  \A h \in Handlers : wire[h] = "open" =>
    \E s \in Satellites : Attends(s, h) /\ sat[h] \in {s, Nobody}

\* A client does not hang in its handshake: it serves, tries again or is off,
\* whatever the Hub and the network do.
ClientGoesOn ==
  \A s \in Satellites :
    mode[s] \in {"resuming", "greeting", "signing"}
      ~> mode[s] \notin {"resuming", "greeting", "signing"}

\* A paired satellite that has its secret and no session to resume gets in,
\* through faults and a stop or crash of the Hub.
FreshGetsIn ==
  \A s \in Satellites :
    Registered(s) /\ known[s] = row[s] /\ held[s] = NoToken /\ mode[s] # "off"
      ~> \/ mode[s] \in {"serving", "off"}
         \/ ~Registered(s)

-----------------------------------------------------------------------------
(* What the comments say and the code does not keep.                       *)

\* A paired satellite that has its secret connects again ("On connection loss,
\* reconnects with exponential backoff", "Session expired - tell satellite to
\* do full auth").
LinkRestored ==
  \A s \in Satellites :
    Registered(s) /\ known[s] = row[s] /\ mode[s] # "off"
      ~> \/ mode[s] \in {"serving", "off"}
         \/ ~Registered(s)
=============================================================================
