----------------------- MODULE SatelliteBrokerProofs ------------------------
(***************************************************************************)
(* Proofs about SatelliteBroker and about SatelliteLink, which puts the    *)
(* clients at the other end of its connections, for every set of           *)
(* satellites and handlers and every bound.  The types and invariants of   *)
(* the broker come first, then the abstract household it implements, then  *)
(* the link.                                                               *)
(***************************************************************************)
EXTENDS SatelliteLink, TLAPS

USE DEF Requests, Created, NoRow, NoRequest, NoToken
USE DEF pairingVars, ledgerVars, decisionVars, sessionVars, handlerVars,
        brokerVars, hubVars

\* No step takes the handlers out of their types.
LEMMA HandlerTypeStep ==
  ASSUME TypeOK, [Next]_vars
  PROVE  HandlerTypeOK'
<1> USE PairingAssumption DEF PairingAssumption
<1> USE DEF TypeOK, HandlerTypeOK, PCs, Handshake, PairingStates, Goto, Return, Abandon, Identify
<1>1. ASSUME NEW h \in Handlers, Shake(h) PROVE HandlerTypeOK'
  <2>1. CASE Accept(h) \/ HandshakeFails(h) \/ Admit(h) \/ SendFails(h)
    BY <2>1 DEF Accept, HandshakeFails, Admit, SendFails, Register
  <2>2. CASE AuthAccepted(h)
    BY <2>2 DEF AuthAccepted, Welcome, IssueSession, PairingTypeOK, SessionTypeOK
  <2>3. ASSUME NEW s \in Satellites, NEW k \in Requests \cup {UnknownHash},
               HelloKnown(h, s, k) \/ HelloRefused(h, s, k)
        PROVE  HandlerTypeOK'
    BY <2>3 DEF HelloKnown, HelloRefused
  <2>4. ASSUME NEW s \in Satellites, HelloNew(h, s) \/ HelloNewRefused(h, s)
        PROVE  HandlerTypeOK'
    BY <2>4 DEF HelloNew, HelloNewRefused, StoreRequest
  <2>5. ASSUME NEW s \in Satellites, NEW t \in 1 .. MaxTokens,
               Resume(h, s, t) \/ ResumeRefused(h, s, t)
        PROVE  HandlerTypeOK'
    BY <2>5 DEF Resume, ResumeRefused, RefuseResume, Welcome, IssueSession,
                PairingTypeOK, SessionTypeOK
  <2>6. QED
    BY <1>1, <2>1, <2>2, <2>3, <2>4, <2>5 DEF Shake
<1>2. ASSUME NEW h \in Handlers, Pair(h) PROVE HandlerTypeOK'
  BY <1>2 DEF Pair, OfferSent, Enrol, EnrolConflict, Refuse, TimeoutFires, Withdraw,
     AdmitNew, Register, Welcome, IssueSession, PairingTypeOK, SessionTypeOK
<1>3. ASSUME NEW h \in Handlers, Serve(h) PROVE HandlerTypeOK'
  BY <1>3 DEF Serve, Heartbeat, LoopEnds
<1>4. CASE Monitor
  BY <1>4 DEF Monitor, MonitorTick, MonitorClose, CloseRegistered
<1>5. CASE Owner \/ Time \/ Network
  BY <1>5 DEF Owner, Time, Quiet, Network, PeerCloses, PeerVanishes
<1>6. CASE Process
  BY <1>6 DEF Process, Stop, StopClose, StopClear, Down, Crash, Boot, ProcessEnds
<1>7. CASE UNCHANGED vars
  BY <1>7 DEF vars
<1>8. QED
  BY <1>1, <1>2, <1>3, <1>4, <1>5, <1>6, <1>7 DEF Next

\* No step takes the broker's registry and lists out of their types.
LEMMA BrokerTypeStep ==
  ASSUME TypeOK, [Next]_vars
  PROVE  BrokerTypeOK'
<1> USE BrokerAssumption DEF BrokerAssumption
<1> USE DEF TypeOK, BrokerTypeOK, HandlerTypeOK, Abandon
<1>1. ASSUME NEW h \in Handlers, Shake(h) PROVE BrokerTypeOK'
  BY <1>1 DEF Shake, Accept, HandshakeFails, AuthAccepted, Admit, SendFails, HelloKnown,
     HelloRefused, HelloNew, HelloNewRefused, Resume, ResumeRefused, Register
<1>2. ASSUME NEW h \in Handlers, Pair(h) PROVE BrokerTypeOK'
  BY <1>2 DEF Pair, OfferSent, Enrol, EnrolConflict, Refuse, TimeoutFires, Withdraw,
     AdmitNew, Register
<1>3. ASSUME NEW h \in Handlers, Serve(h) PROVE BrokerTypeOK'
  BY <1>3 DEF Serve, Heartbeat, LoopEnds
<1>4. CASE Monitor
  BY <1>4 DEF Monitor, MonitorTick, MonitorClose, Silent, Connected
<1>5. CASE Owner \/ Time \/ Network
  BY <1>5 DEF Owner, Time, Quiet, Network, PeerCloses, PeerVanishes
<1>6. CASE Process
  <2>1. CASE Stop
    BY <2>1 DEF Stop
  <2>2. CASE StopClear \/ Boot \/ \E h \in Handlers : StopClose(h)
    BY <2>2 DEF StopClear, Boot, StopClose
  <2>3. CASE Down \/ Crash
    BY <2>3 DEF Down, Crash, ProcessEnds
  <2>4. QED
    BY <1>6, <2>1, <2>2, <2>3 DEF Process
<1>7. CASE UNCHANGED vars
  BY <1>7 DEF vars
<1>8. QED
  BY <1>1, <1>2, <1>3, <1>4, <1>5, <1>6, <1>7 DEF Next

\* A new session is within the types of sessions.
LEMMA IssueSessionType ==
  ASSUME NEW s, SessionTypeOK, IssueSession(s)
  PROVE  SessionTypeOK'
<1>1. issued + 1 \in 0 .. MaxTokens
  BY PairingAssumption DEF PairingAssumption, SessionTypeOK, IssueSession
<1>2. QED
  BY <1>1 DEF SessionTypeOK, IssueSession

\* What a step leaves alone keeps its type.
LEMMA PairingFrame ==
  /\ LedgerTypeOK /\ UNCHANGED <<ledgerVars, created>> => LedgerTypeOK'
  /\ DecisionTypeOK /\ UNCHANGED decisionVars => DecisionTypeOK'
  /\ SessionTypeOK /\ UNCHANGED sessionVars => SessionTypeOK'
<1>1. LedgerTypeOK /\ UNCHANGED <<ledgerVars, created>> => LedgerTypeOK'
  BY DEF LedgerTypeOK
<1>2. DecisionTypeOK /\ UNCHANGED decisionVars => DecisionTypeOK'
  BY DEF DecisionTypeOK
<1>3. SessionTypeOK /\ UNCHANGED sessionVars => SessionTypeOK'
  BY DEF SessionTypeOK
<1>4. QED
  BY <1>1, <1>2, <1>3

\* No step takes the pairing service's state out of its type.
LEMMA PairingTypeStep ==
  ASSUME TypeOK, [Next]_vars
  PROVE  PairingTypeOK'
<1> USE PairingAssumption DEF PairingAssumption
<1> USE DEF TypeOK, PairingTypeOK, LedgerTypeOK, DecisionTypeOK, SessionTypeOK
<1>1. ASSUME NEW h \in Handlers, Shake(h) PROVE PairingTypeOK'
  <2>1. CASE Accept(h) \/ HandshakeFails(h) \/ SendFails(h)
    BY <2>1 DEF Accept, HandshakeFails, SendFails
  <2>2. CASE AuthAccepted(h)
    <3>1. SessionTypeOK'
      BY <2>2, IssueSessionType DEF AuthAccepted, Welcome
    <3>2. LedgerTypeOK' /\ DecisionTypeOK'
      BY <2>2, PairingFrame DEF AuthAccepted
    <3>3. QED
      BY <3>1, <3>2
  <2>3. CASE Admit(h)
    BY <2>3 DEF Admit, MarkOnline, Registered
  <2>4. ASSUME NEW s \in Satellites, NEW k \in Requests \cup {UnknownHash},
               HelloKnown(h, s, k) \/ HelloRefused(h, s, k)
        PROVE  PairingTypeOK'
    BY <2>4 DEF HelloKnown, HelloRefused
  <2>5. ASSUME NEW s \in Satellites, HelloNew(h, s) PROVE PairingTypeOK'
    <3>1. created + 1 \in Requests /\ created' = created + 1
      BY <2>5 DEF HelloNew, StoreRequest
    <3>2. Created' = Created \cup {created + 1}
      BY <3>1
    <3>3. QED
      BY <2>5, <3>1, <3>2 DEF HelloNew, StoreRequest
  <2>6. ASSUME NEW s \in Satellites, HelloNewRefused(h, s) PROVE PairingTypeOK'
    BY <2>6 DEF HelloNewRefused
  <2>7. ASSUME NEW s \in Satellites, NEW t \in 1 .. MaxTokens,
               Resume(h, s, t) \/ ResumeRefused(h, s, t)
        PROVE  PairingTypeOK'
    <3>1. CASE Resume(h, s, t)
      <4>1. SessionTypeOK'
        BY <3>1, IssueSessionType DEF Resume, Welcome
      <4>2. LedgerTypeOK' /\ DecisionTypeOK'
        BY <3>1, PairingFrame DEF Resume
      <4>3. QED
        BY <4>1, <4>2
    <3>2. CASE ResumeRefused(h, s, t)
      <4>1. SessionTypeOK'
        <5>1. issued' = issued /\ (expired' = expired \/ expired' = expired \ {s})
          BY <3>2 DEF ResumeRefused, RefuseResume
        <5>2. sessions' = sessions \/ sessions' = [sessions EXCEPT ![s] = 0]
          BY <3>2 DEF ResumeRefused, RefuseResume
        <5>3. 0 \in 0 .. MaxTokens
          OBVIOUS
        <5>4. [sessions EXCEPT ![s] = 0] \in [Satellites -> 0 .. MaxTokens]
          BY <5>3, Zenon
        <5>5. sessions' \in [Satellites -> 0 .. MaxTokens]
          BY <5>2, <5>4, Zenon
        <5>6. QED
          BY <5>1, <5>5
      <4>2. UNCHANGED ledgerVars /\ UNCHANGED decisionVars
        BY <3>2 DEF ResumeRefused
      <4>3. LedgerTypeOK' /\ DecisionTypeOK'
        BY <4>2, PairingFrame
      <4>4. QED
        BY <4>1, <4>3
    <3>3. QED
      BY <2>7, <3>1, <3>2
  <2>8. QED
    BY <1>1, <2>1, <2>2, <2>3, <2>4, <2>5, <2>6, <2>7 DEF Shake
<1>2. ASSUME NEW h \in Handlers, Pair(h) PROVE PairingTypeOK'
  <2>1. CASE OfferSent(h) \/ Refuse(h) \/ TimeoutFires(h)
    BY <2>1 DEF OfferSent, Refuse, TimeoutFires
  <2>2. CASE Enrol(h)
    <3>1. request[h] \in 0 .. MaxRequests
      BY DEF HandlerTypeOK
    <3>2. LedgerTypeOK'
      BY <2>2, <3>1 DEF Enrol, InsertRow
    <3>3. DecisionTypeOK'
      BY <2>2 DEF Enrol
    <3>4. SessionTypeOK'
      BY <2>2, IssueSessionType DEF Enrol, Welcome
    <3>5. QED
      BY <3>2, <3>3, <3>4
  <2>3. CASE EnrolConflict(h) \/ Withdraw(h)
    BY <2>3 DEF EnrolConflict, Withdraw, CleanupPending
  <2>4. CASE AdmitNew(h)
    <3>1. LedgerTypeOK'
      BY <2>4 DEF AdmitNew, CleanupPending, MarkOnline, Registered
    <3>2. DecisionTypeOK' /\ SessionTypeOK'
      BY <2>4 DEF AdmitNew, CleanupPending
    <3>3. QED
      BY <3>1, <3>2
  <2>5. QED
    BY <1>2, <2>1, <2>2, <2>3, <2>4 DEF Pair
<1>3. ASSUME NEW h \in Handlers, Serve(h) PROVE PairingTypeOK'
  BY <1>3 DEF Serve, Heartbeat, LoopEnds, MarkOffline
<1>4. CASE Monitor \/ Network
  BY <1>4 DEF Monitor, MonitorTick, MonitorClose, Network, PeerCloses, PeerVanishes
<1>5. CASE Owner
  <2>1. ASSUME NEW r \in Requests, ApprovePairing(r) PROVE PairingTypeOK'
    BY <2>1 DEF ApprovePairing
  <2>2. ASSUME NEW r \in Requests, RejectPairing(r) PROVE PairingTypeOK'
    BY <2>2 DEF RejectPairing
  <2>3. ASSUME NEW s \in Satellites, UnpairSatellite(s) PROVE PairingTypeOK'
    BY <2>3 DEF UnpairSatellite
  <2>4. QED
    BY <1>5, <2>1, <2>2, <2>3 DEF Owner
<1>6. CASE Time
  BY <1>6 DEF Time, Quiet, SessionExpires
<1>7. CASE Process
  <2>1. CASE Stop \/ StopClear \/ Boot \/ \E h \in Handlers : StopClose(h)
    BY <2>1 DEF Stop, StopClear, Boot, StopClose
  <2>2. CASE Down \/ Crash
    <3>1. ForgetMemory
      BY <2>2 DEF Down, Crash, ProcessEnds
    <3>2. LedgerTypeOK'
      BY <3>1, PairingFrame DEF ForgetMemory
    <3>3. DecisionTypeOK' /\ SessionTypeOK'
      BY <3>1 DEF ForgetMemory
    <3>4. QED
      BY <3>2, <3>3
  <2>3. QED
    BY <1>7, <2>1, <2>2 DEF Process
<1>8. CASE UNCHANGED vars
  BY <1>8 DEF vars
<1>9. QED
  BY <1>1, <1>2, <1>3, <1>4, <1>5, <1>6, <1>7, <1>8 DEF Next

\* Every state of the Hub and of its database has its type.
THEOREM TypeCorrect == Spec => []TypeOK
<1>1. Init => TypeOK
  BY PairingAssumption, BrokerAssumption
  DEF PairingAssumption, BrokerAssumption, Init, PairingInit, BrokerInit, TypeOK,
      PairingTypeOK, LedgerTypeOK, DecisionTypeOK, SessionTypeOK, HandlerTypeOK,
      BrokerTypeOK, PCs
<1>2. TypeOK /\ [Next]_vars => TypeOK'
  BY HandlerTypeStep, BrokerTypeStep, PairingTypeStep DEF TypeOK
<1>3. QED
  BY <1>1, <1>2, PTL DEF Spec

-----------------------------------------------------------------------------
\* The registry leads only to connections that are being served, each to one
\* of its own satellite.
THEOREM RegistryCorrect == Spec => []RegistryIsLive
<1> USE DEF RegistryIsLive, TypeOK, HandlerTypeOK, BrokerTypeOK, Goto, Return, Abandon, Identify
<1>1. Init => RegistryIsLive
  BY DEF Init, BrokerInit
<1>2. TypeOK /\ RegistryIsLive /\ [Next]_vars => RegistryIsLive'
  <2> SUFFICES ASSUME TypeOK, RegistryIsLive, [Next]_vars PROVE RegistryIsLive'
    OBVIOUS
  <2>1. ASSUME NEW h \in Handlers, Shake(h) PROVE RegistryIsLive'
    BY <2>1 DEF Shake, Accept, HandshakeFails, AuthAccepted, Admit, SendFails, HelloKnown,
       HelloRefused, HelloNew, HelloNewRefused, Resume, ResumeRefused, Register
  <2>2. ASSUME NEW h \in Handlers, Pair(h) PROVE RegistryIsLive'
    BY <2>2 DEF Pair, OfferSent, Enrol, EnrolConflict, Refuse, TimeoutFires, Withdraw,
       AdmitNew, Register
  <2>3. ASSUME NEW h \in Handlers, Serve(h) PROVE RegistryIsLive'
    BY <2>3 DEF Serve, Heartbeat, LoopEnds
  <2>4. CASE Monitor
    BY <2>4 DEF Monitor, MonitorTick, MonitorClose
  <2>5. CASE Owner \/ Time \/ Network
    BY <2>5 DEF Owner, Time, Quiet, Network, PeerCloses, PeerVanishes
  <2>6. CASE Process
    BY <2>6 DEF Process, Stop, StopClose, StopClear, Down, Crash, Boot, ProcessEnds
  <2>7. CASE UNCHANGED vars
    BY <2>7 DEF vars
  <2>8. QED
    BY <2>1, <2>2, <2>3, <2>4, <2>5, <2>6, <2>7 DEF Next
<1>3. QED
  BY <1>1, <1>2, TypeCorrect, PTL DEF Spec

-----------------------------------------------------------------------------
(* Enrolment.  The request a coroutine waits for is one its own satellite  *)
(* made, a secret exists only for requests the owner approved, and rows    *)
(* point to requests already created, so a new one cannot change their     *)
(* claimant.                                                               *)

EnrolmentInv ==
  /\ \A h \in Handlers : pc[h] \in PairingStates =>
       request[h] \in Created /\ claimant[request[h]] = sat[h]
  /\ \A r \in secrets : "approve" \in verdicts[r]
  /\ \A s \in Satellites : row[s] <= created
  /\ EnrolmentWasApproved

\* Nothing that leaves the ledger, the requests and the pairing coroutines as
\* they are, or ends some of those coroutines, disturbs EnrolmentInv.
LEMMA EnrolmentFrame ==
  ASSUME EnrolmentInv, UNCHANGED <<row, secrets, created, claimant, verdicts>>,
         \A h \in Handlers : pc'[h] \in PairingStates =>
           /\ pc[h] \in PairingStates
           /\ request'[h] = request[h]
           /\ sat'[h] = sat[h]
  PROVE  EnrolmentInv'
BY DEF EnrolmentInv, EnrolmentWasApproved, Registered

\* Every step of a handler's handshake keeps EnrolmentInv.
LEMMA EnrolmentShake ==
  ASSUME TypeOK, EnrolmentInv, NEW h \in Handlers, Shake(h)
  PROVE  EnrolmentInv'
<1> USE DEF TypeOK, HandlerTypeOK, Abandon, Return, Goto, Identify, PairingStates
<1>1. CASE Accept(h) \/ HandshakeFails(h) \/ AuthAccepted(h) \/ Admit(h) \/ SendFails(h)
  BY <1>1, EnrolmentFrame
  DEF Accept, HandshakeFails, AuthAccepted, Admit, SendFails, Register
<1>2. ASSUME NEW s \in Satellites, NEW k \in Requests \cup {UnknownHash},
             HelloKnown(h, s, k) \/ HelloRefused(h, s, k)
      PROVE  EnrolmentInv'
  BY <1>2, EnrolmentFrame DEF HelloKnown, HelloRefused
<1>3. ASSUME NEW s \in Satellites, HelloNew(h, s) PROVE EnrolmentInv'
  <2> DEFINE r == created + 1
  <2>1. /\ r \in Requests /\ created' = r
        /\ claimant' = [claimant EXCEPT ![r] = s]
        /\ request' = [request EXCEPT ![h] = r]
        /\ sat' = [sat EXCEPT ![h] = s]
        /\ pc' = [pc EXCEPT ![h] = "offering"]
        /\ UNCHANGED <<row, secrets, verdicts>>
    BY <1>3 DEF HelloNew, StoreRequest
  <2>2. created \in Nat /\ claimant \in [Requests -> Satellites \cup {Nobody}]
    BY DEF PairingTypeOK, DecisionTypeOK
  <2>3. \A q \in Created : claimant'[q] = claimant[q]
    BY <2>1, <2>2
  <2>4. ASSUME NEW g \in Handlers, pc'[g] \in PairingStates
        PROVE  request'[g] \in Created' /\ claimant'[request'[g]] = sat'[g]
    BY <2>1, <2>2, <2>3, <2>4 DEF EnrolmentInv
  <2>5. \A q \in secrets' : "approve" \in verdicts'[q]
    BY <2>1 DEF EnrolmentInv
  <2>6. row \in [Satellites -> 0 .. MaxRequests]
    BY DEF PairingTypeOK, LedgerTypeOK
  <2>7. \A u \in Satellites : row'[u] <= created'
    BY <2>1, <2>2, <2>6, PairingAssumption DEF EnrolmentInv, PairingAssumption
  <2>8. EnrolmentWasApproved'
    BY <2>1, <2>2, <2>3, <2>6, PairingAssumption
    DEF EnrolmentInv, EnrolmentWasApproved, Registered, PairingAssumption
  <2>9. QED
    BY <2>4, <2>5, <2>7, <2>8 DEF EnrolmentInv
<1>4. ASSUME NEW s \in Satellites, HelloNewRefused(h, s) PROVE EnrolmentInv'
  BY <1>4, EnrolmentFrame DEF HelloNewRefused
<1>5. ASSUME NEW s \in Satellites, NEW t \in 1 .. MaxTokens,
             Resume(h, s, t) \/ ResumeRefused(h, s, t)
      PROVE  EnrolmentInv'
  BY <1>5, EnrolmentFrame DEF Resume, ResumeRefused
<1>6. QED
  BY <1>1, <1>2, <1>3, <1>4, <1>5 DEF Shake

\* Every step of a pairing coroutine keeps EnrolmentInv: only Enrol writes a
\* row, and the secret it consumes was generated for its own request.
LEMMA EnrolmentPair ==
  ASSUME TypeOK, EnrolmentInv, NEW h \in Handlers, Pair(h)
  PROVE  EnrolmentInv'
<1> USE DEF TypeOK, HandlerTypeOK, Abandon, Return, Goto, PairingStates
<1>1. CASE OfferSent(h) \/ Refuse(h) \/ TimeoutFires(h) \/ Withdraw(h) \/ AdmitNew(h)
  BY <1>1, EnrolmentFrame DEF OfferSent, Refuse, TimeoutFires, Withdraw, AdmitNew, Register
<1>2. CASE EnrolConflict(h)
  BY <1>2 DEF EnrolConflict, EnrolmentInv, EnrolmentWasApproved, Registered
<1>3. CASE Enrol(h)
  <2> DEFINE r == request[h]
  <2>1. /\ r \in secrets /\ secrets' = secrets \ {r}
        /\ row' = [row EXCEPT ![sat[h]] = r]
        /\ pc[h] = "waiting" /\ pc' = [pc EXCEPT ![h] = "enrolling"]
        /\ UNCHANGED <<created, claimant, verdicts, sat, request>>
    BY <1>3 DEF Enrol, InsertRow
  <2>2. r \in Created /\ claimant[r] = sat[h] /\ "approve" \in verdicts[r]
    BY <2>1 DEF EnrolmentInv
  <2>3. row \in [Satellites -> 0 .. MaxRequests]
    BY DEF PairingTypeOK, LedgerTypeOK
  <2>4. \A g \in Handlers : pc'[g] \in PairingStates => pc[g] \in PairingStates
    BY <2>1
  <2>5. \A s \in Satellites : row'[s] = row[s] \/ (s = sat[h] /\ row'[s] = r)
    BY <2>1, <2>3
  <2>6. EnrolmentWasApproved'
    BY <2>1, <2>2, <2>5 DEF EnrolmentInv, EnrolmentWasApproved, Registered
  <2>7. created \in Nat
    BY DEF PairingTypeOK, DecisionTypeOK
  <2>8. \A s \in Satellites : row'[s] <= created'
    BY <2>1, <2>2, <2>5, <2>7 DEF EnrolmentInv
  <2>9. \A g \in Handlers : pc'[g] \in PairingStates =>
          request'[g] \in Created' /\ claimant'[request'[g]] = sat'[g]
    BY <2>1, <2>4 DEF EnrolmentInv
  <2>10. \A q \in secrets' : "approve" \in verdicts'[q]
    BY <2>1 DEF EnrolmentInv
  <2>11. QED
    BY <2>6, <2>8, <2>9, <2>10 DEF EnrolmentInv
<1>4. QED
  BY <1>1, <1>2, <1>3 DEF Pair

\* The owner's operations keep EnrolmentInv: a secret comes with the verdict.
LEMMA EnrolmentOwner ==
  ASSUME TypeOK, EnrolmentInv, Owner
  PROVE  EnrolmentInv'
<1> USE DEF TypeOK, PairingTypeOK
<1>1. verdicts \in [Requests -> SUBSET {"approve", "reject"}]
  BY DEF DecisionTypeOK
<1>2. ASSUME NEW r \in Requests, ApprovePairing(r) \/ RejectPairing(r),
             UNCHANGED handlerVars
      PROVE  EnrolmentInv'
  <2>1. \A q \in Requests : verdicts[q] \subseteq verdicts'[q]
    BY <1>1, <1>2 DEF ApprovePairing, RejectPairing
  <2>2. \A q \in secrets' : "approve" \in verdicts'[q]
    <3>1. secrets \subseteq Requests
      BY PairingAssumption DEF PairingAssumption, DecisionTypeOK
    <3>2. \A q \in secrets : "approve" \in verdicts'[q]
      BY <2>1, <3>1 DEF EnrolmentInv
    <3>3. CASE ApprovePairing(r)
      <4>1. secrets' = secrets \cup {r} /\ "approve" \in verdicts'[r]
        BY <1>1, <3>3 DEF ApprovePairing
      <4>2. QED
        BY <3>2, <4>1
    <3>4. CASE RejectPairing(r)
      BY <3>2, <3>4 DEF RejectPairing
    <3>5. QED
      BY <1>2, <3>3, <3>4
  <2>3. row \in [Satellites -> 0 .. MaxRequests]
    BY DEF LedgerTypeOK
  <2>4. UNCHANGED <<row, created, claimant>>
    BY <1>2 DEF ApprovePairing, RejectPairing
  <2>5. EnrolmentWasApproved'
    <3> SUFFICES ASSUME NEW s \in Satellites, row[s] # 0
                 PROVE  "approve" \in verdicts'[row[s]] /\ claimant[row[s]] = s
      BY <2>4 DEF EnrolmentWasApproved, Registered
    <3>1. row[s] \in Requests
      BY <2>3, PairingAssumption DEF PairingAssumption
    <3>2. QED
      BY <2>1, <3>1 DEF EnrolmentInv, EnrolmentWasApproved, Registered
  <2>6. QED
    BY <1>2, <2>2, <2>4, <2>5 DEF EnrolmentInv
<1>3. ASSUME NEW s \in Satellites, UnpairSatellite(s), UNCHANGED handlerVars
      PROVE  EnrolmentInv'
  <2>1. row \in [Satellites -> 0 .. MaxRequests] /\ created \in Nat
    BY DEF LedgerTypeOK, DecisionTypeOK
  <2>2. \A u \in Satellites : row'[u] = row[u] \/ row'[u] = 0
    BY <1>3, <2>1 DEF UnpairSatellite
  <2>3. UNCHANGED <<secrets, created, claimant, verdicts>>
    BY <1>3 DEF UnpairSatellite
  <2>4. QED
    BY <1>3, <2>1, <2>2, <2>3 DEF EnrolmentInv, EnrolmentWasApproved, Registered
<1>4. QED
  BY <1>2, <1>3 DEF Owner

\* What a coroutine waits for, the secrets and the rows agree at all times.
LEMMA EnrolmentInvariant == Spec => []EnrolmentInv
<1>1. Init => EnrolmentInv
  BY PairingAssumption
  DEF PairingAssumption, Init, PairingInit, BrokerInit, EnrolmentInv, EnrolmentWasApproved,
      Registered, PairingStates
<1>2. TypeOK /\ EnrolmentInv /\ [Next]_vars => EnrolmentInv'
  <2> SUFFICES ASSUME TypeOK, EnrolmentInv, [Next]_vars PROVE EnrolmentInv'
    OBVIOUS
  <2> USE DEF TypeOK, HandlerTypeOK, PairingStates
  <2>1. ASSUME NEW h \in Handlers, Serve(h) PROVE EnrolmentInv'
    BY <2>1, EnrolmentFrame DEF Serve, Heartbeat, LoopEnds, Return, Goto
  <2>2. CASE Monitor
    BY <2>2, EnrolmentFrame DEF Monitor, MonitorTick, MonitorClose
  <2>3. CASE Time \/ Network
    BY <2>3, EnrolmentFrame DEF Time, Quiet, SessionExpires, Network, PeerCloses, PeerVanishes
  <2>4. CASE Process
    <3>1. CASE Stop \/ StopClear \/ Boot \/ \E h \in Handlers : StopClose(h)
      BY <3>1, EnrolmentFrame DEF Stop, StopClear, Boot, StopClose
    <3>2. CASE Down \/ Crash
      BY <3>2 DEF Down, Crash, ProcessEnds, ForgetMemory, EnrolmentInv, EnrolmentWasApproved,
                  Registered
    <3>3. QED
      BY <2>4, <3>1, <3>2 DEF Process
  <2>5. CASE UNCHANGED vars
    BY <2>5, EnrolmentFrame DEF vars
  <2>6. QED
    BY <2>1, <2>2, <2>3, <2>4, <2>5, EnrolmentShake, EnrolmentPair, EnrolmentOwner DEF Next
<1>3. QED
  BY <1>1, <1>2, TypeCorrect, PTL DEF Spec

\* A satellite is in the household only by the owner's approval of a request
\* that this satellite made.
THEOREM EnrolmentCorrect == Spec => []EnrolmentWasApproved
<1>1. EnrolmentInv => EnrolmentWasApproved
  BY DEF EnrolmentInv
<1>2. QED
  BY <1>1, EnrolmentInvariant, PTL

-----------------------------------------------------------------------------
(* The secret of a paired satellite.                                       *)

\* Only Enrol and UnpairSatellite write rows, and Enrol only where there is
\* none: the primary key refuses the second of two approved requests.
THEOREM SecretKept == Spec => SecretNeverReplaced
<1>1. TypeOK /\ [Next]_vars =>
        [\A s \in Satellites : Registered(s) => row'[s] \in {row[s], NoRow}]_vars
  <2> SUFFICES ASSUME TypeOK, Next, NEW s \in Satellites, row[s] # 0
               PROVE  row'[s] = row[s] \/ row'[s] = 0
    BY DEF Registered
  <2> USE DEF Abandon
  <2>0. row \in [Satellites -> 0 .. MaxRequests]
    BY DEF TypeOK, PairingTypeOK, LedgerTypeOK
  <2>1. ASSUME NEW h \in Handlers, Shake(h) PROVE row' = row
    BY <2>1 DEF Shake, Accept, HandshakeFails, AuthAccepted, Admit, SendFails, HelloKnown,
       HelloRefused, HelloNew, HelloNewRefused, Resume, ResumeRefused
  <2>2. ASSUME NEW h \in Handlers, Pair(h) PROVE row'[s] = row[s]
    <3>1. CASE Enrol(h)
      BY <2>0, <3>1 DEF Enrol, InsertRow, Registered
    <3>2. CASE ~Enrol(h)
      BY <2>2, <3>2 DEF Pair, OfferSent, EnrolConflict, Refuse, TimeoutFires, Withdraw, AdmitNew
    <3>3. QED
      BY <3>1, <3>2
  <2>3. ASSUME NEW h \in Handlers, Serve(h) PROVE row' = row
    BY <2>3 DEF Serve, Heartbeat, LoopEnds
  <2>4. CASE Monitor \/ Time \/ Network
    BY <2>4 DEF Monitor, MonitorTick, MonitorClose, Time, Quiet, SessionExpires, Network,
       PeerCloses, PeerVanishes
  <2>5. CASE Owner
    BY <2>0, <2>5 DEF Owner, ApprovePairing, RejectPairing, UnpairSatellite
  <2>6. CASE Process
    BY <2>6 DEF Process, Stop, StopClose, StopClear, Down, Crash, Boot, ProcessEnds,
       ForgetMemory
  <2>7. QED
    BY <2>1, <2>2, <2>3, <2>4, <2>5, <2>6 DEF Next
<1>2. QED
  BY <1>1, TypeCorrect, PTL DEF Spec, SecretNeverReplaced

-----------------------------------------------------------------------------
(* Session tokens.  Tokens are numbered as they are issued, and a coroutine *)
(* gets its satellite before it gets a token.                               *)

TokenInv ==
  /\ \A h \in Handlers : token[h] <= issued
  /\ \A h \in Handlers : pc[h] \in {"idle", "accepted"} => token[h] = NoToken
  /\ OnlyNewestTokenResumes

\* Steps that issue no token and leave every coroutine its satellite and token,
\* or nothing at all, keep TokenInv.
LEMMA TokenFrame ==
  ASSUME TypeOK, TokenInv, issued' = issued,
         \A s \in Satellites : sessions'[s] = sessions[s] \/ sessions'[s] = NoToken,
         \A h \in Handlers :
           \/ token'[h] = NoToken
           \/ /\ token'[h] = token[h]
              /\ sat'[h] = sat[h]
              /\ pc'[h] \in {"idle", "accepted"} => pc[h] \in {"idle", "accepted"},
         SessionTypeOK', HandlerTypeOK'
  PROVE  TokenInv'
<1>1. /\ issued \in Nat /\ sessions \in [Satellites -> Nat]
      /\ sessions' \in [Satellites -> Nat] /\ token' \in [Handlers -> Nat]
      /\ token \in [Handlers -> Nat]
      /\ sat' \in [Handlers -> Satellites \cup {Nobody}]
  BY PairingAssumption
  DEF PairingAssumption, TypeOK, PairingTypeOK, SessionTypeOK, HandlerTypeOK
<1>2. \A h \in Handlers : token'[h] <= issued'
  BY <1>1 DEF TokenInv
<1>3. \A h \in Handlers : pc'[h] \in {"idle", "accepted"} => token'[h] = NoToken
  BY DEF TokenInv
<1>4. ASSUME NEW h \in Handlers, sat'[h] # Nobody, sessions'[sat'[h]] # NoToken
      PROVE  token'[h] <= sessions'[sat'[h]]
  <2>1. sat'[h] \in Satellites
    BY <1>1, <1>4
  <2>2. CASE token'[h] = NoToken
    BY <1>1, <2>1, <2>2
  <2>3. CASE token'[h] = token[h] /\ sat'[h] = sat[h]
    BY <1>1, <1>4, <2>1, <2>3 DEF TokenInv, OnlyNewestTokenResumes
  <2>4. QED
    BY <2>2, <2>3
<1>5. QED
  BY <1>2, <1>3, <1>4 DEF TokenInv, OnlyNewestTokenResumes

\* A HubWelcome with a new token keeps TokenInv: every older token is smaller.
LEMMA TokenWelcome ==
  ASSUME TypeOK, TokenInv, NEW h \in Handlers, NEW s \in Satellites, Welcome(h, s),
         sat' \in {sat, [sat EXCEPT ![h] = s]}, sat'[h] = s,
         NEW label \in PCs \ {"idle", "accepted"}, pc' = [pc EXCEPT ![h] = label]
  PROVE  TokenInv'
<1>1. /\ issued \in Nat /\ sessions \in [Satellites -> Nat] /\ token \in [Handlers -> Nat]
      /\ sat \in [Handlers -> Satellites \cup {Nobody}] /\ pc \in [Handlers -> PCs]
  BY PairingAssumption
  DEF PairingAssumption, TypeOK, PairingTypeOK, SessionTypeOK, HandlerTypeOK
<1>2. /\ issued' = issued + 1
      /\ sessions' = [sessions EXCEPT ![s] = issued + 1]
      /\ token' = [token EXCEPT ![h] = issued + 1]
  BY DEF Welcome, IssueSession
<1>3. \A g \in Handlers : token'[g] <= issued'
  BY <1>1, <1>2 DEF TokenInv
<1>4. \A g \in Handlers : pc'[g] \in {"idle", "accepted"} => token'[g] = NoToken
  BY <1>1, <1>2 DEF TokenInv
<1>5. ASSUME NEW g \in Handlers, sat'[g] # Nobody, sessions'[sat'[g]] # NoToken
      PROVE  token'[g] <= sessions'[sat'[g]]
  <2>1. CASE g = h
    BY <1>1, <1>2, <2>1
  <2>2. CASE g # h
    <3>1. token'[g] = token[g] /\ sat'[g] = sat[g] /\ sat[g] \in Satellites
      BY <1>1, <1>2, <1>5, <2>2
    <3>2. CASE sat[g] = s
      BY <1>1, <1>2, <3>1, <3>2 DEF TokenInv
    <3>3. CASE sat[g] # s
      BY <1>1, <1>2, <1>5, <3>1, <3>3 DEF TokenInv, OnlyNewestTokenResumes
    <3>4. QED
      BY <3>2, <3>3
  <2>3. QED
    BY <2>1, <2>2
<1>6. QED
  BY <1>3, <1>4, <1>5 DEF TokenInv, OnlyNewestTokenResumes

Identified ==
  \A h \in Handlers : pc[h] \notin {"idle", "accepted"} => sat[h] \in Satellites

\* A coroutine past the first message knows its satellite.
LEMMA IdentifiedCorrect == Spec => []Identified
<1> USE DEF Identified, TypeOK, HandlerTypeOK, Goto, Return, Abandon, Identify, PairingStates
<1>1. Init => Identified
  BY DEF Init, BrokerInit
<1>2. TypeOK /\ Identified /\ [Next]_vars => Identified'
  <2> SUFFICES ASSUME TypeOK, Identified, [Next]_vars PROVE Identified'
    OBVIOUS
  <2>1. ASSUME NEW h \in Handlers, Shake(h) PROVE Identified'
    BY <2>1 DEF Shake, Accept, HandshakeFails, AuthAccepted, Admit, SendFails, HelloKnown,
       HelloRefused, HelloNew, HelloNewRefused, Resume, ResumeRefused, Register
  <2>2. ASSUME NEW h \in Handlers, Pair(h) PROVE Identified'
    BY <2>2 DEF Pair, OfferSent, Enrol, EnrolConflict, Refuse, TimeoutFires, Withdraw,
       AdmitNew, Register
  <2>3. ASSUME NEW h \in Handlers, Serve(h) PROVE Identified'
    BY <2>3 DEF Serve, Heartbeat, LoopEnds
  <2>4. CASE Monitor \/ Owner
    BY <2>4 DEF Monitor, MonitorTick, MonitorClose, Owner
  <2>5. CASE Time \/ Network
    BY <2>5 DEF Time, Quiet, Network, PeerCloses, PeerVanishes
  <2>6. CASE Process
    BY <2>6 DEF Process, Stop, StopClose, StopClear, Down, Crash, Boot, ProcessEnds
  <2>7. CASE UNCHANGED vars
    BY <2>7 DEF vars
  <2>8. QED
    BY <2>1, <2>2, <2>3, <2>4, <2>5, <2>6, <2>7 DEF Next
<1>3. QED
  BY <1>1, <1>2, TypeCorrect, PTL DEF Spec

\* Every step of a handler's handshake keeps TokenInv.
LEMMA TokenShake ==
  ASSUME TypeOK, TypeOK', Identified, TokenInv, NEW h \in Handlers, Shake(h)
  PROVE  TokenInv'
<1> USE DEF TypeOK, HandlerTypeOK, PairingTypeOK, Goto, Identify, Abandon, Return
<1>1. CASE Accept(h) \/ HandshakeFails(h) \/ Admit(h) \/ SendFails(h)
  BY <1>1, TokenFrame
  DEF Accept, HandshakeFails, Admit, SendFails, Register, TokenInv
<1>2. CASE AuthAccepted(h)
  <2>1. sat[h] \in Satellites /\ "welcoming" \in PCs \ {"idle", "accepted"}
    BY <1>2 DEF AuthAccepted, Identified, PCs, Handshake
  <2>2. QED
    BY <1>2, <2>1, TokenWelcome DEF AuthAccepted
<1>3. ASSUME NEW s \in Satellites, NEW k \in Requests \cup {UnknownHash},
             HelloKnown(h, s, k) \/ HelloRefused(h, s, k)
      PROVE  TokenInv'
  BY <1>3, TokenFrame DEF HelloKnown, HelloRefused, TokenInv
<1>4. ASSUME NEW s \in Satellites, HelloNew(h, s) \/ HelloNewRefused(h, s)
      PROVE  TokenInv'
  BY <1>4, TokenFrame DEF HelloNew, HelloNewRefused, TokenInv
<1>5. ASSUME NEW s \in Satellites, NEW t \in 1 .. MaxTokens, Resume(h, s, t)
      PROVE  TokenInv'
  <2>1. "welcoming" \in PCs \ {"idle", "accepted"}
    BY DEF PCs, Handshake
  <2>2. /\ Welcome(h, s) /\ pc' = [pc EXCEPT ![h] = "welcoming"]
        /\ sat' = [sat EXCEPT ![h] = s]
    BY <1>5 DEF Resume
  <2>3. sat'[h] = s
    BY <2>2
  <2>4. QED
    BY <2>1, <2>2, <2>3, TokenWelcome
<1>6. ASSUME NEW s \in Satellites, NEW t \in 1 .. MaxTokens, ResumeRefused(h, s, t)
      PROVE  TokenInv'
  <2>1. issued' = issued
    BY <1>6 DEF ResumeRefused, RefuseResume
  <2>2. sessions' = sessions \/ sessions' = [sessions EXCEPT ![s] = NoToken]
    BY <1>6 DEF ResumeRefused, RefuseResume
  <2>3. \A u \in Satellites : sessions'[u] = sessions[u] \/ sessions'[u] = NoToken
    BY <2>2 DEF SessionTypeOK
  <2>4. \A g \in Handlers :
          \/ token'[g] = NoToken
          \/ token'[g] = token[g] /\ sat'[g] = sat[g] /\ pc'[g] = pc[g]
    BY <1>6 DEF ResumeRefused
  <2>5. QED
    BY <2>1, <2>3, <2>4, TokenFrame
<1>7. QED
  BY <1>1, <1>2, <1>3, <1>4, <1>5, <1>6 DEF Shake

\* Every step of a pairing coroutine keeps TokenInv.
LEMMA TokenPair ==
  ASSUME TypeOK, TypeOK', Identified, TokenInv, NEW h \in Handlers, Pair(h)
  PROVE  TokenInv'
<1> USE DEF TypeOK, HandlerTypeOK, PairingTypeOK, Goto, Abandon, Return
<1>1. CASE OfferSent(h) \/ EnrolConflict(h) \/ Refuse(h) \/ TimeoutFires(h) \/ Withdraw(h)
           \/ AdmitNew(h)
  BY <1>1, TokenFrame
  DEF OfferSent, EnrolConflict, Refuse, TimeoutFires, Withdraw, AdmitNew, Register, TokenInv
<1>2. CASE Enrol(h)
  <2>1. sat[h] \in Satellites /\ "enrolling" \in PCs \ {"idle", "accepted"}
    BY <1>2 DEF Enrol, Identified, PCs, Handshake, PairingStates
  <2>2. QED
    BY <1>2, <2>1, TokenWelcome DEF Enrol
<1>3. QED
  BY <1>1, <1>2 DEF Pair

\* No token but the newest one sent to a satellite resumes its session.
THEOREM TokensRotate == Spec => []OnlyNewestTokenResumes
<1>1. Init => TokenInv
  BY DEF Init, PairingInit, BrokerInit, TokenInv, OnlyNewestTokenResumes
<1>2. TypeOK /\ TypeOK' /\ Identified /\ TokenInv /\ [Next]_vars => TokenInv'
  <2> SUFFICES ASSUME TypeOK, TypeOK', Identified, TokenInv, [Next]_vars PROVE TokenInv'
    OBVIOUS
  <2> USE DEF TypeOK, HandlerTypeOK, PairingTypeOK
  <2>1. ASSUME NEW h \in Handlers, Serve(h) PROVE TokenInv'
    BY <2>1, TokenFrame DEF Serve, Heartbeat, LoopEnds, Return, Goto
  <2>2. CASE Monitor
    BY <2>2, TokenFrame DEF Monitor, MonitorTick, MonitorClose
  <2>3. CASE Owner
    BY <2>3, TokenFrame DEF Owner, ApprovePairing, RejectPairing, UnpairSatellite, SessionTypeOK
  <2>4. CASE Time \/ Network
    BY <2>4, TokenFrame DEF Time, Quiet, SessionExpires, Network, PeerCloses, PeerVanishes
  <2>5. CASE Process
    <3>1. CASE Stop \/ StopClear \/ Boot \/ \E h \in Handlers : StopClose(h)
      BY <3>1, TokenFrame DEF Stop, StopClear, Boot, StopClose
    <3>2. CASE Down \/ Crash
      BY <3>2, TokenFrame DEF Down, Crash, ProcessEnds, ForgetMemory
    <3>3. QED
      BY <2>5, <3>1, <3>2 DEF Process
  <2>6. CASE UNCHANGED vars
    BY <2>6, TokenFrame DEF vars
  <2>7. QED
    BY <2>1, <2>2, <2>3, <2>4, <2>5, <2>6, TokenShake, TokenPair DEF Next
<1>3. TokenInv => OnlyNewestTokenResumes
  BY DEF TokenInv
<1>4. QED
  BY <1>1, <1>2, <1>3, TypeCorrect, IdentifiedCorrect, PTL DEF Spec

-----------------------------------------------------------------------------
(* What memory and the database say of each other.  In the first life of   *)
(* the Hub they agree: until then only stop() and crashes part them.       *)

FirstLife == stops = 0 => hub = "running"

\* A Hub that has neither been stopped nor crashed is running.
LEMMA FirstLifeStep ==
  ASSUME TypeOK, FirstLife, [Next]_vars
  PROVE  FirstLife'
<1> USE DEF FirstLife, TypeOK, BrokerTypeOK, Abandon
<1>1. ASSUME NEW h \in Handlers, Shake(h) \/ Pair(h) \/ Serve(h)
      PROVE  UNCHANGED hubVars
  BY <1>1 DEF Shake, Accept, HandshakeFails, AuthAccepted, Admit, SendFails, HelloKnown,
     HelloRefused, HelloNew, HelloNewRefused, Resume, ResumeRefused, Pair, OfferSent, Enrol,
     EnrolConflict, Refuse, TimeoutFires, Withdraw, AdmitNew, Serve, Heartbeat, LoopEnds
<1>2. CASE Monitor \/ Owner \/ Time \/ Network
  BY <1>2 DEF Monitor, MonitorTick, MonitorClose, Owner, Time, Quiet, Network, PeerCloses,
     PeerVanishes
<1>3. stops \in Nat
  BY BrokerAssumption DEF BrokerAssumption
<1>4. CASE Process
  BY <1>3, <1>4 DEF Process, Stop, StopClose, StopClear, Down, Crash, Boot, ProcessEnds
<1>5. CASE UNCHANGED vars
  BY <1>5 DEF vars
<1>6. QED
  BY <1>1, <1>2, <1>4, <1>5 DEF Next

\* Every step of a handler keeps PendingIsStored: a request enters the
\* dictionary and the table together and leaves them together.
LEMMA PendingHandler ==
  ASSUME TypeOK, PendingIsStored, NEW h \in Handlers, Shake(h) \/ Pair(h) \/ Serve(h)
  PROVE  PendingIsStored'
<1> USE DEF PendingIsStored, Abandon
<1>1. CASE Shake(h)
  BY <1>1 DEF Shake, Accept, HandshakeFails, AuthAccepted, Admit, SendFails, HelloKnown,
     HelloRefused, HelloNew, HelloNewRefused, StoreRequest, Resume, ResumeRefused
<1>2. CASE Pair(h)
  BY <1>2 DEF Pair, OfferSent, Enrol, EnrolConflict, Refuse, TimeoutFires, Withdraw, AdmitNew,
     CleanupPending
<1>3. CASE Serve(h)
  BY <1>3 DEF Serve, Heartbeat, LoopEnds
<1>4. QED
  BY <1>1, <1>2, <1>3

\* The database has every pending request that memory has, and until the first
\* stop or crash no other.
THEOREM PendingStored == Spec => []PendingIsStored
<1>1. Init => PendingIsStored /\ FirstLife
  BY DEF Init, PairingInit, BrokerInit, PendingIsStored, FirstLife
<1>2. TypeOK /\ FirstLife /\ PendingIsStored /\ [Next]_vars => PendingIsStored'
  <2> SUFFICES ASSUME TypeOK, FirstLife, PendingIsStored, [Next]_vars PROVE PendingIsStored'
    OBVIOUS
  <2> USE DEF PendingIsStored
  <2>1. stops \in Nat
    BY BrokerAssumption DEF BrokerAssumption, TypeOK, BrokerTypeOK
  <2>2. CASE Monitor \/ Owner \/ Time \/ Network
    BY <2>2 DEF Monitor, MonitorTick, MonitorClose, Owner, ApprovePairing, RejectPairing,
       UnpairSatellite, Time, Quiet, SessionExpires, Network, PeerCloses, PeerVanishes
  <2>3. CASE Stop \/ StopClear \/ Boot \/ \E h \in Handlers : StopClose(h)
    BY <2>1, <2>3 DEF Stop, StopClear, Boot, StopClose
  <2>4. CASE Down \/ Crash
    BY <2>1, <2>4 DEF Down, Crash, ProcessEnds, ForgetMemory, FirstLife
  <2>5. CASE UNCHANGED vars
    BY <2>5 DEF vars
  <2>6. QED
    BY <2>2, <2>3, <2>4, <2>5, PendingHandler DEF Next, Process
<1>3. QED
  BY <1>1, <1>2, TypeCorrect, FirstLifeStep, PTL DEF Spec

\* Every step of a handler keeps the online flags and the registry in step.
LEMMA OnlineHandler ==
  ASSUME TypeOK, OnlineFollowsRegistry, NEW h \in Handlers, Shake(h) \/ Pair(h) \/ Serve(h)
  PROVE  OnlineFollowsRegistry'
<1> USE BrokerAssumption DEF BrokerAssumption
<1> USE DEF OnlineFollowsRegistry, TypeOK, HandlerTypeOK, BrokerTypeOK, PairingTypeOK,
            LedgerTypeOK, Registered, Goto, Return, Abandon, Identify
<1>1. CASE Shake(h)
  <2>1. CASE Admit(h)
    BY <2>1 DEF Admit, Register, MarkOnline
  <2>2. CASE ~Admit(h)
    BY <1>1, <2>2 DEF Shake, Accept, HandshakeFails, AuthAccepted, SendFails, HelloKnown,
       HelloRefused, HelloNew, HelloNewRefused, Resume, ResumeRefused
  <2>3. QED
    BY <2>1, <2>2
<1>2. CASE Pair(h)
  <2>1. CASE OfferSent(h) \/ EnrolConflict(h) \/ Refuse(h) \/ TimeoutFires(h) \/ Withdraw(h)
    BY <2>1 DEF OfferSent, EnrolConflict, Refuse, TimeoutFires, Withdraw
  <2>2. CASE Enrol(h)
    BY <2>2 DEF Enrol, InsertRow
  <2>3. CASE AdmitNew(h)
    BY <2>3 DEF AdmitNew, Register, MarkOnline
  <2>4. QED
    BY <1>2, <2>1, <2>2, <2>3 DEF Pair
<1>3. CASE Serve(h)
  <2>1. CASE Heartbeat(h)
    BY <2>1 DEF Heartbeat
  <2>2. CASE LoopEnds(h)
    BY <2>2 DEF LoopEnds, MarkOffline
  <2>3. QED
    BY <1>3, <2>1, <2>2 DEF Serve
<1>4. QED
  BY <1>1, <1>2, <1>3

\* Registered connections of paired satellites are online; until the first stop
\* or crash nothing else is, but a satellite whose first HubWelcome is sent.
THEOREM OnlineCorrect == Spec => []OnlineFollowsRegistry
<1>1. Init => OnlineFollowsRegistry /\ FirstLife
  BY DEF Init, PairingInit, BrokerInit, OnlineFollowsRegistry, Registered, FirstLife
<1>2. TypeOK /\ FirstLife /\ OnlineFollowsRegistry /\ [Next]_vars => OnlineFollowsRegistry'
  <2> SUFFICES ASSUME TypeOK, FirstLife, OnlineFollowsRegistry, [Next]_vars
               PROVE  OnlineFollowsRegistry'
    OBVIOUS
  <2> USE DEF OnlineFollowsRegistry, Registered
  <2>1. stops \in Nat
    BY BrokerAssumption DEF BrokerAssumption, TypeOK, BrokerTypeOK
  <2>2. CASE Monitor \/ Time \/ Network
    BY <2>2 DEF Monitor, MonitorTick, MonitorClose, Time, Quiet, SessionExpires, Network,
       PeerCloses, PeerVanishes
  <2>3. CASE Owner
    BY <2>3 DEF Owner, ApprovePairing, RejectPairing, UnpairSatellite, TypeOK, PairingTypeOK,
       LedgerTypeOK
  <2>4. CASE Stop \/ Boot \/ \E h \in Handlers : StopClose(h)
    BY <2>1, <2>4 DEF Stop, Boot, StopClose
  <2>5. CASE StopClear \/ Down \/ Crash
    BY <2>1, <2>5 DEF StopClear, Down, Crash, ProcessEnds, ForgetMemory, FirstLife
  <2>6. CASE UNCHANGED vars
    BY <2>6 DEF vars
  <2>7. QED
    BY <2>2, <2>3, <2>4, <2>5, <2>6, OnlineHandler DEF Next, Process
<1>3. QED
  BY <1>1, <1>2, TypeCorrect, FirstLifeStep, PTL DEF Spec

-----------------------------------------------------------------------------
(* SatelliteBroker implements Household: the rows of the database are the  *)
(* members, a request is open while a coroutine offers it or waits for it. *)

\* No two coroutines are concerned with the same request.
DistinctRequests ==
  \A g, h \in Handlers :
    g # h /\ pc[g] \in PairingStates /\ pc[h] \in PairingStates => request[g] # request[h]

\* Only a new request enters PairingStates, and it gets a number of its own.
LEMMA DistinctShake ==
  ASSUME TypeOK, EnrolmentInv, DistinctRequests, NEW h \in Handlers, Shake(h)
  PROVE  DistinctRequests'
<1> USE DEF DistinctRequests, TypeOK, HandlerTypeOK, Goto, Return, Abandon, Identify, PairingStates
<1>1. CASE Accept(h) \/ HandshakeFails(h) \/ AuthAccepted(h) \/ Admit(h) \/ SendFails(h)
  BY <1>1 DEF Accept, HandshakeFails, AuthAccepted, Admit, SendFails, Register
<1>2. ASSUME NEW s \in Satellites, NEW k \in Requests \cup {UnknownHash},
             HelloKnown(h, s, k) \/ HelloRefused(h, s, k)
      PROVE  DistinctRequests'
  BY <1>2 DEF HelloKnown, HelloRefused
<1>3. ASSUME NEW s \in Satellites, HelloNew(h, s) PROVE DistinctRequests'
  <2>1. /\ request' = [request EXCEPT ![h] = created + 1]
        /\ pc' = [pc EXCEPT ![h] = "offering"]
    BY <1>3 DEF HelloNew, StoreRequest
  <2>2. created \in Nat
    BY DEF PairingTypeOK, DecisionTypeOK
  <2>3. \A g \in Handlers : pc[g] \in PairingStates => request[g] # created + 1
    BY <2>2 DEF EnrolmentInv
  <2>4. QED
    BY <2>1, <2>3
<1>4. ASSUME NEW s \in Satellites, HelloNewRefused(h, s) PROVE DistinctRequests'
  BY <1>4 DEF HelloNewRefused
<1>5. ASSUME NEW s \in Satellites, NEW t \in 1 .. MaxTokens,
             Resume(h, s, t) \/ ResumeRefused(h, s, t)
      PROVE  DistinctRequests'
  BY <1>5 DEF Resume, ResumeRefused
<1>6. QED
  BY <1>1, <1>2, <1>3, <1>4, <1>5 DEF Shake

\* No request is ever awaited by two coroutines.
LEMMA DistinctInvariant == Spec => []DistinctRequests
<1> USE DEF DistinctRequests, TypeOK, HandlerTypeOK, PairingStates
<1>1. Init => DistinctRequests
  BY DEF Init, BrokerInit
<1>2. TypeOK /\ EnrolmentInv /\ DistinctRequests /\ [Next]_vars => DistinctRequests'
  <2> SUFFICES ASSUME TypeOK, EnrolmentInv, DistinctRequests, [Next]_vars
               PROVE  DistinctRequests'
    OBVIOUS
  <2>1. ASSUME NEW h \in Handlers, Pair(h) PROVE DistinctRequests'
    BY <2>1 DEF Pair, OfferSent, Enrol, EnrolConflict, Refuse, TimeoutFires, Withdraw,
       AdmitNew, Register, Goto, Return, Abandon
  <2>2. ASSUME NEW h \in Handlers, Serve(h) PROVE DistinctRequests'
    BY <2>2 DEF Serve, Heartbeat, LoopEnds, Goto, Return
  <2>3. CASE Monitor \/ Owner
    BY <2>3 DEF Monitor, MonitorTick, MonitorClose, Owner
  <2>4. CASE Time \/ Network
    BY <2>4 DEF Time, Quiet, Network, PeerCloses, PeerVanishes
  <2>5. CASE Process
    BY <2>5 DEF Process, Stop, StopClose, StopClear, Down, Crash, Boot, ProcessEnds
  <2>6. CASE UNCHANGED vars
    BY <2>6 DEF vars
  <2>7. QED
    BY <2>1, <2>2, <2>3, <2>4, <2>5, <2>6, DistinctShake DEF Next
<1>3. QED
  BY <1>1, <1>2, TypeCorrect, EnrolmentInvariant, PTL DEF Spec

-----------------------------------------------------------------------------
\* A step that leaves rows, requests and verdicts alone and brings no coroutine
\* back to waiting closes requests of the household, or none.
LEMMA CloseStep ==
  ASSUME UNCHANGED <<row, created, claimant, verdicts>>,
         \A h \in Handlers : pc'[h] \in {"offering", "waiting"} =>
           pc[h] \in {"offering", "waiting"} /\ request'[h] = request[h]
  PROVE  H!Next
<1>1. OpenRequests' \subseteq OpenRequests
  BY DEF OpenRequests
<1>2. H!Close
  BY <1>1 DEF H!Close
<1>3. QED
  BY <1>2 DEF H!Next

\* A handshake step opens a request of the household, or closes some.
LEMMA SimulateShake ==
  ASSUME TypeOK, NEW h \in Handlers, Shake(h)
  PROVE  H!Next
<1> USE DEF TypeOK, HandlerTypeOK, Goto, Return, Abandon, Identify
<1>1. CASE Accept(h) \/ HandshakeFails(h) \/ AuthAccepted(h) \/ Admit(h) \/ SendFails(h)
  BY <1>1, CloseStep DEF Accept, HandshakeFails, AuthAccepted, Admit, SendFails, Register
<1>2. ASSUME NEW s \in Satellites, NEW k \in Requests \cup {UnknownHash},
             HelloKnown(h, s, k) \/ HelloRefused(h, s, k)
      PROVE  H!Next
  BY <1>2, CloseStep DEF HelloKnown, HelloRefused
<1>3. ASSUME NEW s \in Satellites, HelloNew(h, s) PROVE H!Next
  <2>1. /\ row[s] = 0 /\ created + 1 \in Requests /\ created' = created + 1
        /\ claimant' = [claimant EXCEPT ![created + 1] = s]
        /\ request' = [request EXCEPT ![h] = created + 1]
        /\ pc[h] = "accepted" /\ pc' = [pc EXCEPT ![h] = "offering"]
        /\ UNCHANGED <<row, verdicts>>
    BY <1>3 DEF HelloNew, StoreRequest, Registered
  <2>2. OpenRequests' = OpenRequests \cup {created + 1}
    BY <2>1 DEF OpenRequests
  <2>3. created \in Nat
    BY DEF PairingTypeOK, DecisionTypeOK
  <2>4. created < MaxRequests
    BY <2>1, <2>3, PairingAssumption DEF PairingAssumption
  <2>5. H!Ask(s)
    BY <2>1, <2>2, <2>4 DEF H!Ask
  <2>6. QED
    BY <2>5 DEF H!Next
<1>4. ASSUME NEW s \in Satellites, HelloNewRefused(h, s) PROVE H!Next
  BY <1>4, CloseStep DEF HelloNewRefused
<1>5. ASSUME NEW s \in Satellites, NEW t \in 1 .. MaxTokens,
             Resume(h, s, t) \/ ResumeRefused(h, s, t)
      PROVE  H!Next
  BY <1>5, CloseStep DEF Resume, ResumeRefused
<1>6. QED
  BY <1>1, <1>2, <1>3, <1>4, <1>5 DEF Shake

\* A pairing step makes a member by its own approved request, or closes some.
LEMMA SimulatePair ==
  ASSUME TypeOK, Identified, EnrolmentInv, DistinctRequests, NEW h \in Handlers, Pair(h)
  PROVE  H!Next
<1> USE DEF TypeOK, HandlerTypeOK, Goto, Return, Abandon
<1>1. CASE OfferSent(h) \/ EnrolConflict(h) \/ Refuse(h) \/ TimeoutFires(h) \/ Withdraw(h)
           \/ AdmitNew(h)
  BY <1>1, CloseStep
  DEF OfferSent, EnrolConflict, Refuse, TimeoutFires, Withdraw, AdmitNew, Register
<1>2. CASE Enrol(h)
  <2> DEFINE r == request[h]
  <2>1. /\ pc[h] = "waiting" /\ r \in secrets /\ row[sat[h]] = 0
        /\ row' = [row EXCEPT ![sat[h]] = r]
        /\ pc' = [pc EXCEPT ![h] = "enrolling"]
        /\ UNCHANGED <<created, claimant, verdicts, request>>
    BY <1>2 DEF Enrol, InsertRow, Registered
  <2>2. /\ sat[h] \in Satellites /\ r \in Created /\ claimant[r] = sat[h]
        /\ "approve" \in verdicts[r]
    BY <2>1 DEF Identified, EnrolmentInv, PairingStates
  <2>3. r \in Requests
    BY <2>2, PairingAssumption DEF PairingAssumption, PairingTypeOK, DecisionTypeOK
  <2>4. OpenRequests' = OpenRequests \ {r}
    <3>1. \A g \in Handlers \ {h} : pc[g] \in {"offering", "waiting"} => request[g] # r
      BY <2>1 DEF DistinctRequests, PairingStates
    <3>2. QED
      BY <2>1, <3>1 DEF OpenRequests
  <2>5. r \in OpenRequests
    BY <2>1 DEF OpenRequests
  <2>6. H!Join(sat[h], r)
    BY <2>1, <2>2, <2>4, <2>5 DEF H!Join
  <2>7. QED
    BY <2>2, <2>3, <2>6 DEF H!Next
<1>3. QED
  BY <1>1, <1>2 DEF Pair

\* The owner's operations are answers and departures of the household.
LEMMA SimulateOwner ==
  ASSUME TypeOK, Owner
  PROVE  H!Next
<1>1. UNCHANGED <<pc, request>> /\ OpenRequests' = OpenRequests
  BY DEF Owner, OpenRequests
<1>2. ASSUME NEW r \in Requests, ApprovePairing(r) PROVE H!Next
  <2>1. r <= created
    BY <1>2 DEF ApprovePairing, TypeOK, PairingTypeOK, DecisionTypeOK
  <2>2. H!Answer(r, "approve")
    BY <1>1, <1>2, <2>1 DEF ApprovePairing, H!Answer
  <2>3. QED
    BY <2>2 DEF H!Next
<1>3. ASSUME NEW r \in Requests, RejectPairing(r) PROVE H!Next
  <2>1. r <= created
    BY <1>3 DEF RejectPairing, TypeOK, PairingTypeOK, DecisionTypeOK
  <2>2. H!Answer(r, "reject")
    BY <1>1, <1>3, <2>1 DEF RejectPairing, H!Answer
  <2>3. QED
    BY <2>2 DEF H!Next
<1>4. ASSUME NEW s \in Satellites, UnpairSatellite(s) PROVE H!Next
  <2>1. H!Leave(s)
    BY <1>1, <1>4 DEF UnpairSatellite, H!Leave
  <2>2. QED
    BY <2>1 DEF H!Next
<1>5. QED
  BY <1>2, <1>3, <1>4 DEF Owner

\* The Hub's pairing, with all its connections, time-outs and restarts,
\* implements the abstract household.
THEOREM BrokerImplementsHousehold == Spec => HouseholdKept
<1>1. Init => H!Init
  BY DEF Init, PairingInit, BrokerInit, OpenRequests, H!Init
<1>2. /\ TypeOK /\ Identified /\ EnrolmentInv /\ DistinctRequests
      /\ [Next]_vars
      => [H!Next]_(H!vars)
  <2> SUFFICES ASSUME TypeOK, Identified, EnrolmentInv, DistinctRequests, [Next]_vars
               PROVE  H!Next \/ UNCHANGED H!vars
    OBVIOUS
  <2> USE DEF TypeOK, HandlerTypeOK
  <2>1. ASSUME NEW h \in Handlers, Serve(h) PROVE H!Next
    BY <2>1, CloseStep DEF Serve, Heartbeat, LoopEnds, Goto, Return
  <2>2. CASE Monitor
    BY <2>2, CloseStep DEF Monitor, MonitorTick, MonitorClose
  <2>3. CASE Time \/ Network
    BY <2>3, CloseStep DEF Time, Quiet, SessionExpires, Network, PeerCloses, PeerVanishes
  <2>4. CASE Process
    BY <2>4, CloseStep DEF Process, Stop, StopClose, StopClear, Down, Crash, Boot, ProcessEnds,
       ForgetMemory
  <2>5. CASE UNCHANGED vars
    BY <2>5, CloseStep DEF vars
  <2>6. QED
    BY <2>1, <2>2, <2>3, <2>4, <2>5, SimulateShake, SimulatePair, SimulateOwner DEF Next
<1>3. QED
  BY <1>1, <1>2, TypeCorrect, IdentifiedCorrect, EnrolmentInvariant, DistinctInvariant, PTL
  DEF Spec, HouseholdKept, H!Spec

-----------------------------------------------------------------------------
(* The link between a satellite and its handler.                           *)

USE DEF clientSide, channelVars, hubSide

\* What a client does to its socket is what the network may do to a connection.
LEMMA ClientIsNetwork ==
  ASSUME LinkTypeOK, NEW s \in Satellites, UNCHANGED hubSide,
         \/ UNCHANGED wire
         \/ LetGo(s)
         \/ \E end \in {"dead", "closed"} :
              wire' = [h \in Handlers |-> IF h = link[s] /\ wire[h] = "open" THEN end ELSE wire[h]]
  PROVE  [Next]_vars
<1>1. wire \in [Handlers -> {"open", "dead", "closed"}]
  BY DEF LinkTypeOK, TypeOK, HandlerTypeOK
<1>2. CASE UNCHANGED wire
  <2>1. UNCHANGED <<pairingVars, handlerVars, brokerVars, hubVars>>
    BY <1>2
  <2>2. QED
    BY <2>1 DEF vars
<1>3. CASE link[s] \notin Handlers \/ wire[link[s]] # "open"
  <2>1. UNCHANGED wire
    BY <1>1, <1>3 DEF LetGo
  <2>2. QED
    BY <1>2, <2>1
<1>4. ASSUME NEW h \in Handlers, wire[h] = "open",
             wire' = [wire EXCEPT ![h] = "closed"] \/ wire' = [wire EXCEPT ![h] = "dead"]
      PROVE  [Next]_vars
  <2>1. PeerCloses(h) \/ PeerVanishes(h)
    BY <1>4 DEF PeerCloses, PeerVanishes
  <2>2. QED
    BY <2>1 DEF Network, Next
<1>5. CASE link[s] \in Handlers /\ wire[link[s]] = "open" /\ ~UNCHANGED wire
  <2>1. wire' = [wire EXCEPT ![link[s]] = "closed"] \/ wire' = [wire EXCEPT ![link[s]] = "dead"]
    BY <1>1, <1>5 DEF LetGo
  <2>2. QED
    BY <1>4, <1>5, <2>1
<1>6. QED
  BY <1>2, <1>3, <1>5

LEMMA Dequeued ==
  ASSUME NEW S, NEW q \in Seq(S), q # <<>>
  PROVE  /\ Head(q) \in S /\ Tail(q) \in Seq(S) /\ Head(q) = q[1] /\ 1 \in 1 .. Len(q)
         /\ \A i \in 1 .. Len(Tail(q)) : Tail(q)[i] = q[i + 1] /\ i + 1 \in 1 .. Len(q)
OBVIOUS

LEMMA Enqueued ==
  ASSUME NEW S, NEW q \in Seq(S), NEW x \in S
  PROVE  /\ Append(q, x) \in Seq(S) /\ <<x>> \in Seq(S)
         /\ \A i \in 1 .. Len(Append(q, x)) :
              Append(q, x)[i] = x \/ (i \in 1 .. Len(q) /\ Append(q, x)[i] = q[i])
OBVIOUS

\* The message at the head of a channel is one of a client.
LEMMA HeadOfUp ==
  ASSUME LinkTypeOK, NEW h \in Handlers, up[h] # <<>>
  PROVE  /\ Head(up[h]) \in FromClient /\ Tail(up[h]) \in Seq(FromClient)
         /\ Head(up[h]) = up[h][1] /\ 1 \in 1 .. Len(up[h])
         /\ \A i \in 1 .. Len(Tail(up[h])) : Tail(up[h])[i] = up[h][i + 1] /\ i + 1 \in 1 .. Len(up[h])
<1>1. up[h] \in Seq(FromClient)
  BY DEF LinkTypeOK, ClientTypeOK
<1>2. QED
  BY <1>1, Dequeued

LEMMA ReadIsShake ==
  ASSUME LinkTypeOK, NEW h \in Handlers, Read(h)
  PROVE  Shake(h)
<1> DEFINE m == Head(up[h])
<1>1. m \in FromClient
  BY HeadOfUp DEF Read, ReadHello, ReadSignature, ReadReconnect
<1>2. CASE ReadHello(h)
  <2>1. m.sat \in Satellites /\ m.hash \in Requests \cup {UnknownHash}
    <3>1. m.kind = "hello"
      BY <1>2 DEF ReadHello
    <3>2. m \in [kind : {"hello"}, sat : Satellites, hash : 1 .. UnknownHash]
      <4> HIDE DEF m
      <4>1. QED
        BY <1>1, <3>1 DEF FromClient
    <3>3. QED
      BY <3>2, PairingAssumption DEF UnknownHash, PairingAssumption
  <2>2. HelloKnown(h, m.sat, m.hash) \/ HelloRefused(h, m.sat, m.hash)
    BY <1>2 DEF ReadHello
  <2>3. QED
    BY <2>1, <2>2 DEF Shake
<1>3. CASE ReadSignature(h)
  BY <1>3 DEF ReadSignature, Shake
<1>4. CASE ReadReconnect(h)
  <2>1. m.sat \in Satellites /\ m.token \in 1 .. MaxTokens
    BY <1>1, <1>4 DEF ReadReconnect, FromClient
  <2>2. Resume(h, m.sat, m.token) \/ ResumeRefused(h, m.sat, m.token)
    BY <1>4 DEF ReadReconnect
  <2>3. QED
    BY <2>1, <2>2 DEF Shake
<1>5. QED
  BY <1>2, <1>3, <1>4 DEF Read

\* Every step of the link is one that SatelliteBroker has, or leaves the Hub alone.
LEMMA LinkStepIsBrokerStep ==
  ASSUME LinkTypeOK, [LinkNext]_linkVars
  PROVE  [Next]_vars
<1>1. ASSUME NEW s \in Satellites, Connect(s) PROVE [Next]_vars
  BY <1>1 DEF Connect, Next, Shake
<1>2. ASSUME NEW s \in Satellites, ConnectFails(s) \/ Proceed(s) \/ GiveUpWaiting(s) \/ Power(s)
      PROVE  [Next]_vars
  <2>1. UNCHANGED hubSide
    BY <1>2 DEF ConnectFails, Proceed, GiveUpWaiting, Power
  <2>2. \/ UNCHANGED wire
        \/ LetGo(s)
        \/ \E end \in {"dead", "closed"} :
              wire' = [h \in Handlers |-> IF h = link[s] /\ wire[h] = "open" THEN end ELSE wire[h]]
    <3>1. CASE ConnectFails(s)
      BY <3>1 DEF ConnectFails, OpenFails
    <3>2. CASE Proceed(s)
      BY <3>2 DEF Proceed, ResumeDenied, GreetInstead, Sign, Welcomed, Saved, Refused, Lost,
                  ServiceEnds, HubSilent
    <3>3. CASE GiveUpWaiting(s)
      BY <3>3 DEF GiveUpWaiting, ResumeTimesOut, AuthTimesOut, GreetInstead
    <3>4. CASE Power(s)
      BY <3>4 DEF Power, PowerOff, PowerOn
    <3>5. QED
      BY <1>2, <3>1, <3>2, <3>3, <3>4
  <2>3. QED
    BY <2>1, <2>2, ClientIsNetwork
<1>3. ASSUME NEW s \in Satellites, Breaks(s) PROVE [Next]_vars
  <2>1. link[s] \in Handlers
    BY <1>3 DEF Breaks, LinkTypeOK, ClientTypeOK
  <2>2. PeerCloses(link[s]) \/ PeerVanishes(link[s])
    BY <1>3 DEF Breaks
  <2>3. QED
    BY <2>1, <2>2 DEF Network, Next
<1>4. ASSUME NEW h \in Handlers, Read(h) \/ GiveUpHandler(h) PROVE [Next]_vars
  <2>1. Shake(h)
    BY <1>4, ReadIsShake DEF GiveUpHandler, Shake
  <2>2. QED
    BY <2>1 DEF Next
<1>5. ASSUME NEW h \in Handlers, Ignore(h) PROVE [Next]_vars
  BY <1>5 DEF Ignore
<1>6. ASSUME NEW h \in Handlers, HubStep(h) PROVE [Next]_vars
  BY <1>6 DEF HubStep, Next, Shake, Serve, Time, Process
<1>7. CASE HubAlone
  BY <1>7 DEF HubAlone, Next, Monitor, Owner, Time, Process
<1>8. CASE HubCrashes
  BY <1>8 DEF HubCrashes, Next, Process
<1>9. CASE UNCHANGED linkVars
  BY <1>9 DEF linkVars
<1>10. QED
  BY <1>1, <1>2, <1>3, <1>4, <1>5, <1>6, <1>7, <1>8, <1>9 DEF LinkNext

\* What a client can say.
LEMMA MessagesOfClient ==
  ASSUME LinkTypeOK, NEW s \in Satellites
  PROVE  /\ Hello(s) \in FromClient /\ Signature(s) \in FromClient
         /\ held[s] # 0 => Reconnect(s) \in FromClient
<1>1. known[s] \in 0 .. MaxRequests /\ held[s] \in 0 .. MaxTokens /\ MaxRequests \in Nat
  BY PairingAssumption DEF LinkTypeOK, ClientTypeOK, PairingAssumption
<1>2. (IF known[s] = 0 THEN UnknownHash ELSE known[s]) \in 1 .. UnknownHash
  BY <1>1 DEF UnknownHash
<1>3. held[s] # 0 => held[s] \in 1 .. MaxTokens
  BY <1>1
<1>4. Hello(s) \in FromClient
  BY <1>2 DEF Hello, FromClient
<1>5. Signature(s) \in FromClient
  BY DEF Signature, FromClient
<1>6. held[s] # 0 => Reconnect(s) \in FromClient
  BY <1>3 DEF Reconnect, FromClient
<1>7. QED
  BY <1>4, <1>5, <1>6

LEMMA SendTypes ==
  ASSUME LinkTypeOK, NEW h, NEW m \in FromClient, Send(h, m)
  PROVE  up' \in [Handlers -> Seq(FromClient)]
<1>1. up \in [Handlers -> Seq(FromClient)]
  BY DEF LinkTypeOK, ClientTypeOK
<1>2. CASE h \in Handlers
  <2>1. Append(up[h], m) \in Seq(FromClient)
    BY <1>1, <1>2, Enqueued
  <2>2. QED
    BY <1>1, <2>1 DEF Send
<1>3. CASE h \notin Handlers
  BY <1>1, <1>3 DEF Send
<1>4. QED
  BY <1>2, <1>3

LEMMA ArrivesTypes ==
  ASSUME LinkTypeOK, NEW s \in Satellites, NEW kinds, link[s] \in Handlers, Arrives(s, kinds)
  PROVE  /\ down' \in [Handlers -> Seq(FromHub)]
         /\ Head(down[link[s]]) \in FromHub /\ Head(down[link[s]]).kind \in kinds
         /\ Head(down[link[s]]) = down[link[s]][1] /\ 1 \in 1 .. Len(down[link[s]])
         /\ down' = [down EXCEPT ![link[s]] = Tail(@)]
         /\ \A i \in 1 .. Len(Tail(down[link[s]])) :
              /\ Tail(down[link[s]])[i] = down[link[s]][i + 1]
              /\ i + 1 \in 1 .. Len(down[link[s]])
<1>1. down \in [Handlers -> Seq(FromHub)]
  BY DEF LinkTypeOK, ClientTypeOK
<1>2. down[link[s]] \in Seq(FromHub) /\ down[link[s]] # <<>>
  BY <1>1 DEF Arrives
<1>3. QED
  BY <1>1, <1>2, Dequeued DEF Arrives

\* The client is connected in all modes but two.
LinkModes ==
  \A s \in Satellites : link[s] = NoHandler <=> mode[s] \in {"off", "opening"}

\* A step of a client keeps the types of its state and of its messages.
LEMMA ClientTypes ==
  ASSUME LinkTypeOK, LinkModes, NEW s \in Satellites,
         Connect(s) \/ ConnectFails(s) \/ Proceed(s) \/ GiveUpWaiting(s) \/ Power(s) \/ Breaks(s)
  PROVE  ClientTypeOK'
<1> USE LinkAssumption, PairingAssumption DEF LinkAssumption, PairingAssumption
<1>0. ClientTypeOK /\ link[s] \in Handlers \cup {NoHandler}
  BY DEF LinkTypeOK, ClientTypeOK
<1>1. faults' \in 0 .. MaxFaults
  BY <1>0 DEF Connect, ConnectFails, Proceed, GiveUpWaiting, Power, Breaks, Fails, ClientTypeOK
<1>2. CASE Connect(s)
  <2>1. PICK h \in Handlers : Opened(s, h)
    BY <1>2 DEF Connect
  <2>2. <<Hello(s)>> \in Seq(FromClient) /\ (held[s] # 0 => <<Reconnect(s)>> \in Seq(FromClient))
    BY MessagesOfClient, Enqueued
  <2>3. up' \in [Handlers -> Seq(FromClient)]
    BY <1>0, <2>1, <2>2 DEF Opened, ClientTypeOK
  <2>4. down' \in [Handlers -> Seq(FromHub)]
    BY <1>0, <2>1 DEF Opened, ClientTypeOK
  <2>5. QED
    BY <1>0, <1>1, <2>1, <2>3, <2>4 DEF Opened, ClientTypeOK, Enter, Modes
<1>3. CASE ConnectFails(s)
  BY <1>0, <1>1, <1>3 DEF ConnectFails, OpenFails, ClientTypeOK
<1>4. ASSUME GreetInstead(s), down' \in [Handlers -> Seq(FromHub)] PROVE ClientTypeOK'
  <2>1. up' \in [Handlers -> Seq(FromClient)]
    BY <1>4, MessagesOfClient, SendTypes DEF GreetInstead
  <2>2. QED
    BY <1>0, <1>1, <1>4, <2>1 DEF GreetInstead, ClientTypeOK, Enter, Modes
<1>5. CASE ResumeDenied(s)
  <2>1. link[s] \in Handlers
    BY <1>0, <1>5 DEF ResumeDenied, GreetInstead, LinkModes
  <2>2. QED
    BY <1>4, <1>5, <2>1, ArrivesTypes DEF ResumeDenied
<1>6. CASE Sign(s)
  <2>1. link[s] \in Handlers
    BY <1>0, <1>6 DEF Sign, LinkModes
  <2>2. up' \in [Handlers -> Seq(FromClient)]
    BY <1>6, MessagesOfClient, SendTypes DEF Sign
  <2>3. QED
    BY <1>0, <1>1, <1>6, <2>1, <2>2, ArrivesTypes DEF Sign, ClientTypeOK, Enter, Modes
<1>7. CASE Welcomed(s)
  <2>1. link[s] \in Handlers
    BY <1>0, <1>7 DEF Welcomed, LinkModes
  <2>2. Head(down[link[s]]) \in FromHub /\ Head(down[link[s]]).kind = "welcome"
    BY <1>7, <2>1, ArrivesTypes DEF Welcomed
  <2>3. Head(down[link[s]]).token \in 0 .. MaxTokens
    <3> HIDE DEF ClientTypeOK
    <3>1. \A m \in FromHub : m.kind = "welcome" => m.token \in 0 .. MaxTokens
      BY DEF FromHub
    <3>2. QED
      BY <2>2, <3>1
  <2>4. QED
    BY <1>0, <1>1, <1>7, <2>1, <2>3, ArrivesTypes DEF Welcomed, ClientTypeOK, Enter, Modes
<1>8. CASE Refused(s)
  <2>1. link[s] \in Handlers
    BY <1>0, <1>8 DEF Refused, LinkModes
  <2>2. down' \in [Handlers -> Seq(FromHub)]
    BY <1>8, <2>1, ArrivesTypes DEF Refused
  <2>3. QED
    BY <1>0, <1>1, <1>8, <2>2 DEF Refused, LetGo, ClientTypeOK, Enter, Modes
<1>9. CASE Saved(s) \/ Lost(s) \/ ServiceEnds(s) \/ HubSilent(s) \/ AuthTimesOut(s)
  BY <1>0, <1>1, <1>9 DEF Saved, Lost, ServiceEnds, HubSilent, AuthTimesOut, LetGo, ClientTypeOK,
     Enter, Modes
<1>10. CASE Power(s)
  <2>1. CASE PowerOff(s)
    <3>1. mode' \in [Satellites -> Modes] /\ link' \in [Satellites -> Handlers \cup {NoHandler}]
      BY <1>0, <2>1 DEF PowerOff, ClientTypeOK, Enter, Modes
    <3>2. cut' \subseteq Satellites
      BY <1>0, <2>1 DEF PowerOff, ClientTypeOK
    <3>3. UNCHANGED <<retried, held, known, stored, up, down>>
      BY <2>1 DEF PowerOff
    <3>4. QED
      BY <1>0, <1>1, <3>1, <3>2, <3>3 DEF ClientTypeOK
  <2>2. CASE PowerOn(s)
    BY <1>0, <1>1, <2>2 DEF PowerOn, ClientTypeOK, Enter, Modes
  <2>3. QED
    BY <1>10, <2>1, <2>2 DEF Power
<1>11. CASE Breaks(s)
  BY <1>0, <1>1, <1>11 DEF Breaks, ClientTypeOK
<1>12. QED
  BY <1>2, <1>3, <1>4, <1>5, <1>6, <1>7, <1>8, <1>9, <1>10, <1>11
  DEF Proceed, GiveUpWaiting, ResumeTimesOut, LinkTypeOK, ClientTypeOK

LEMMA AnswerTypes ==
  ASSUME LinkTypeOK, NEW h \in Handlers, NEW m \in FromHub, up[h] # <<>>, Answer(h, m)
  PROVE  up' \in [Handlers -> Seq(FromClient)] /\ down' \in [Handlers -> Seq(FromHub)]
<1>1. up \in [Handlers -> Seq(FromClient)] /\ down \in [Handlers -> Seq(FromHub)]
  BY DEF LinkTypeOK, ClientTypeOK
<1>2. Tail(up[h]) \in Seq(FromClient) /\ Append(down[h], m) \in Seq(FromHub)
  BY <1>1, HeadOfUp, Enqueued
<1>3. QED
  BY <1>1, <1>2 DEF Answer

\* So does a step of the Hub.
LEMMA HubTypes ==
  ASSUME LinkTypeOK,
         \/ \E h \in Handlers : Read(h) \/ Ignore(h) \/ GiveUpHandler(h) \/ HubStep(h)
         \/ HubAlone \/ HubCrashes
  PROVE  ClientTypeOK'
<1> USE LinkAssumption, PairingAssumption DEF LinkAssumption, PairingAssumption
<1>0. ClientTypeOK
  BY DEF LinkTypeOK
<1>1. ASSUME NEW h \in Handlers, Read(h) PROVE ClientTypeOK'
  <2>1. issued < MaxTokens => [kind |-> "welcome", token |-> issued + 1] \in FromHub
    <3>1. issued \in 0 .. MaxTokens
      BY DEF LinkTypeOK, TypeOK, PairingTypeOK, SessionTypeOK
    <3>2. issued < MaxTokens => issued + 1 \in 1 .. MaxTokens
      BY <3>1
    <3>3. QED
      BY <3>2 DEF FromHub
  <2>2. /\ [kind |-> "challenge"] \in FromHub /\ [kind |-> "failed"] \in FromHub
        /\ [kind |-> "expired"] \in FromHub
    BY DEF FromHub
  <2>3. up' \in [Handlers -> Seq(FromClient)] /\ down' \in [Handlers -> Seq(FromHub)]
    <3>1. CASE ReadHello(h)
      BY <2>2, <3>1, AnswerTypes DEF ReadHello
    <3>2. CASE ReadSignature(h)
      BY <2>1, <3>2, AnswerTypes DEF ReadSignature, AuthAccepted, Welcome, IssueSession
    <3>3. CASE ReadReconnect(h)
      BY <2>1, <2>2, <3>3, AnswerTypes DEF ReadReconnect, Resume, Welcome, IssueSession
    <3>4. QED
      BY <1>1, <3>1, <3>2, <3>3 DEF Read
  <2>4. QED
    BY <1>0, <1>1, <2>3 DEF Read, ClientTypeOK
<1>2. ASSUME NEW h \in Handlers, Ignore(h) PROVE ClientTypeOK'
  <2>1. Tail(up[h]) \in Seq(FromClient)
    BY <1>2, HeadOfUp DEF Ignore
  <2>2. QED
    BY <1>0, <1>2, <2>1 DEF Ignore, ClientTypeOK
<1>3. ASSUME NEW h \in Handlers, GiveUpHandler(h) \/ HubStep(h) PROVE ClientTypeOK'
  BY <1>0, <1>3 DEF GiveUpHandler, HubStep, Fails, ClientTypeOK
<1>4. CASE HubAlone
  BY <1>0, <1>4 DEF HubAlone, ClientTypeOK
<1>5. CASE HubCrashes
  <2>1. cut' \subseteq Satellites
    BY <1>0, <1>5 DEF HubCrashes, ClientTypeOK
  <2>2. QED
    BY <1>0, <1>5, <2>1 DEF HubCrashes, ClientTypeOK
<1>6. QED
  BY <1>1, <1>2, <1>3, <1>4, <1>5

\* The two ends of a connection: what is under way comes from this satellite, a
\* handler that runs speaks of it, and the welcome it sent is its own.
Ends(s, h) ==
  /\ \A i \in 1 .. Len(up[h]) : up[h][i].sat = s
  /\ pc[h] # "idle" =>
       /\ pc[h] \in {"accepted", "challenged", "welcoming", "loop"}
       /\ pc[h] # "accepted" => sat[h] = s
       /\ \A i \in 1 .. Len(down[h]) : down[h][i].kind = "welcome" =>
            pc[h] \in {"welcoming", "loop"} /\ down[h][i].token = token[h]
       /\ mode[s] \in {"saving", "serving"} =>
            pc[h] \in {"welcoming", "loop"} /\ held[s] = token[h]

LinkEnds == \A s \in Satellites, h \in Handlers : Attends(s, h) => Ends(s, h)

OneClient == \A s, t \in Satellites : link[s] = link[t] /\ link[s] # NoHandler => s = t
OpenIsAttended == \A h \in Handlers : wire[h] = "open" => Attended(h)
Unidentified == \A h \in Handlers : pc[h] \in {"idle", "accepted"} => sat[h] = Nobody

LinkInv == LinkTypeOK /\ LinkModes /\ OneClient /\ OpenIsAttended /\ Unidentified /\ LinkEnds

\* A handler that goes on to its message loop, returns or does nothing.
Calm(h) ==
  /\ \/ pc'[h] = pc[h] /\ sat'[h] = sat[h] /\ token'[h] = token[h]
     \/ pc[h] = "welcoming" /\ pc'[h] = "loop" /\ sat'[h] = sat[h] /\ token'[h] = token[h]
     \/ pc'[h] = "idle" /\ sat'[h] = Nobody
  /\ wire'[h] = "open" => wire[h] = "open"
  /\ down'[h] = down[h]
  /\ up'[h] = up[h] \/ (up[h] # <<>> /\ up'[h] = Tail(up[h]))

LEMMA CalmHub ==
  ASSUME LinkTypeOK, NEW h \in Handlers,
         \/ \E g \in Handlers \ {h} : Read(g)
         \/ \E g \in Handlers : Ignore(g) \/ GiveUpHandler(g) \/ HubStep(g)
         \/ HubAlone \/ HubCrashes \/ \E s \in Satellites : Breaks(s)
  PROVE  Calm(h) /\ UNCHANGED <<mode, link, held>>
<1> USE DEF Calm, LinkTypeOK, TypeOK, HandlerTypeOK, ClientTypeOK, Goto, Return, Abandon
<1>1. ASSUME NEW g \in Handlers \ {h}, Read(g) PROVE Calm(h)
  <2>1. up'[h] = up[h] /\ down'[h] = down[h]
    BY <1>1 DEF Read, ReadHello, ReadSignature, ReadReconnect, Answer
  <2>2. pc'[h] = pc[h] /\ sat'[h] = sat[h] /\ token'[h] = token[h] /\ wire'[h] = wire[h]
    BY <1>1 DEF Read, ReadHello, ReadSignature, ReadReconnect, HelloKnown, HelloRefused,
       AuthAccepted, Resume, ResumeRefused, Identify, Welcome
  <2>3. QED
    BY <2>1, <2>2
<1>2. ASSUME NEW g \in Handlers, Ignore(g) PROVE Calm(h)
  <2>1. UNCHANGED <<pc, sat, token, wire>>
    BY <1>2 DEF Ignore, vars
  <2>2. QED
    BY <1>2, <2>1 DEF Ignore
<1>3. ASSUME NEW g \in Handlers, GiveUpHandler(g) PROVE Calm(h)
  BY <1>3 DEF GiveUpHandler, HandshakeFails
<1>4. ASSUME NEW g \in Handlers, HubStep(g) PROVE Calm(h)
  <2>1. UNCHANGED <<up, down>>
    BY <1>4 DEF HubStep
  <2>2. CASE Admit(g) \/ SendFails(g)
    BY <2>1, <2>2 DEF Admit, Register, SendFails
  <2>3. CASE LoopEnds(g)
    BY <2>1, <2>3 DEF LoopEnds
  <2>4. CASE Heartbeat(g) \/ Quiet(g) \/ StopClose(g)
    BY <2>1, <2>4 DEF Heartbeat, Quiet, StopClose
  <2>5. QED
    BY <1>4, <2>2, <2>3, <2>4 DEF HubStep
<1>5. ASSUME HubAlone PROVE Calm(h)
  <2>1. UNCHANGED <<up, down>>
    BY <1>5 DEF HubAlone
  <2>2. CASE MonitorTick \/ \E s \in Satellites : MonitorClose(s)
    BY <2>1, <2>2 DEF MonitorTick, MonitorClose, CloseRegistered
  <2>3. CASE Stop \/ StopClear \/ Boot \/ UNCHANGED handlerVars
    BY <2>1, <2>3 DEF Stop, StopClear, Boot
  <2>4. CASE Down
    BY <2>1, <2>4 DEF Down, ProcessEnds
  <2>5. QED
    BY <1>5, <2>2, <2>3, <2>4 DEF HubAlone
<1>6. CASE HubCrashes
  BY <1>6 DEF HubCrashes, Crash, ProcessEnds
<1>7. ASSUME NEW s \in Satellites, Breaks(s) PROVE Calm(h)
  BY <1>7 DEF Breaks, PeerCloses, PeerVanishes
<1>8. UNCHANGED <<mode, link, held>>
  BY DEF Read, Ignore, GiveUpHandler, HubStep, HubAlone, HubCrashes, Breaks
<1>9. QED
  BY <1>1, <1>2, <1>3, <1>4, <1>5, <1>6, <1>7, <1>8

LEMMA EndsCalm ==
  ASSUME LinkTypeOK, NEW s \in Satellites, NEW h \in Handlers, Ends(s, h), Calm(h),
         mode'[s] = mode[s], held'[s] = held[s]
  PROVE  Ends(s, h)'
<1>1. \A i \in 1 .. Len(up'[h]) : up'[h][i].sat = s
  <2>1. CASE up'[h] = up[h]
    BY <2>1 DEF Ends
  <2>2. CASE up[h] # <<>> /\ up'[h] = Tail(up[h])
    BY <2>2, HeadOfUp DEF Ends
  <2>3. QED
    BY <2>1, <2>2 DEF Calm
<1>2. QED
  BY <1>1 DEF Ends, Calm

\* The handler answers what its client sent.
LEMMA EndsRead ==
  ASSUME LinkTypeOK, NEW s \in Satellites, NEW h \in Handlers, Ends(s, h), Read(h)
  PROVE  Ends(s, h)'
<1> DEFINE m == Head(up[h])  q == down[h]
<1>0. /\ m.sat = s /\ \A i \in 1 .. Len(Tail(up[h])) : Tail(up[h])[i].sat = s
      /\ q \in Seq(FromHub) /\ up[h] # <<>>
  <2>1. up[h] # <<>>
    BY DEF Read, ReadHello, ReadSignature, ReadReconnect
  <2>2. QED
    BY <2>1, HeadOfUp DEF Ends, LinkTypeOK, ClientTypeOK
<1>1. /\ mode' = mode /\ held' = held
      /\ pc \in [Handlers -> PCs] /\ sat \in [Handlers -> Satellites \cup {Nobody}]
      /\ token \in [Handlers -> 0 .. MaxTokens] /\ wire \in [Handlers -> {"open", "dead", "closed"}]
      /\ up \in [Handlers -> Seq(FromClient)] /\ down \in [Handlers -> Seq(FromHub)]
  BY DEF Read, LinkTypeOK, TypeOK, HandlerTypeOK, ClientTypeOK
<1>2. ASSUME NEW a \in FromHub, Answer(h, a)
      PROVE  /\ \A i \in 1 .. Len(up'[h]) : up'[h][i].sat = s
             /\ \A i \in 1 .. Len(down'[h]) :
                  down'[h][i] = a \/ (i \in 1 .. Len(q) /\ down'[h][i] = q[i])
  <2>1. up'[h] = Tail(up[h]) /\ down'[h] \in {q, Append(q, a)}
    BY <1>1, <1>2 DEF Answer
  <2>2. \A i \in 1 .. Len(Append(q, a)) :
          Append(q, a)[i] = a \/ (i \in 1 .. Len(q) /\ Append(q, a)[i] = q[i])
    BY <1>0, Enqueued
  <2>3. QED
    BY <1>0, <2>1, <2>2
<1>3. ASSUME Abandon(h), \E a \in FromHub : Answer(h, a)
      PROVE  Ends(s, h)'
  BY <1>1, <1>2, <1>3 DEF Abandon, Return, Goto, Ends
<1>4. CASE ReadHello(h) /\ HelloKnown(h, m.sat, m.hash)
  <2>1. /\ pc[h] = "accepted" /\ pc'[h] = "challenged" /\ sat'[h] = s
        /\ Answer(h, [kind |-> "challenge"])
    BY <1>0, <1>1, <1>4 DEF ReadHello, HelloKnown, HelloRefused, Identify, Goto
  <2>2. [kind |-> "challenge"] \in FromHub /\ [kind |-> "challenge"].kind # "welcome"
    BY DEF FromHub
  <2>3. \A i \in 1 .. Len(down'[h]) : down'[h][i].kind # "welcome"
    BY <1>2, <2>1, <2>2 DEF Ends
  <2>4. mode[s] \notin {"saving", "serving"}
    BY <2>1 DEF Ends
  <2>5. QED
    BY <1>1, <1>2, <2>1, <2>2, <2>3, <2>4 DEF Ends
<1>5. CASE ReadHello(h) /\ HelloRefused(h, m.sat, m.hash) /\ Answer(h, [kind |-> "failed"])
  <2>1. [kind |-> "failed"] \in FromHub
    BY DEF FromHub
  <2>2. QED
    BY <1>3, <1>5, <2>1 DEF HelloRefused
<1>6. ASSUME pc[h] \in {"accepted", "challenged"}, sat'[h] = s, Goto(h, "welcoming"), Welcome(h, s),
             Answer(h, [kind |-> "welcome", token |-> issued + 1])
      PROVE  Ends(s, h)'
  <2>1. [kind |-> "welcome", token |-> issued + 1] \in FromHub
    <3>1. issued \in 0 .. MaxTokens /\ issued < MaxTokens /\ MaxTokens \in Nat
      BY <1>6, PairingAssumption DEF Welcome, IssueSession, LinkTypeOK, TypeOK, PairingTypeOK,
         SessionTypeOK, PairingAssumption
    <3>2. issued + 1 \in 1 .. MaxTokens
      BY <3>1
    <3>3. QED
      BY <3>2 DEF FromHub
  <2>2. token'[h] = issued + 1 /\ pc'[h] = "welcoming"
    BY <1>1, <1>6 DEF Welcome, Goto
  <2>3. \A i \in 1 .. Len(q) : q[i].kind # "welcome"
    BY <1>6 DEF Ends
  <2>4. \A i \in 1 .. Len(down'[h]) : down'[h][i].kind = "welcome" => down'[h][i].token = token'[h]
    BY <1>2, <1>6, <2>1, <2>2, <2>3
  <2>5. mode[s] \notin {"saving", "serving"}
    BY <1>6 DEF Ends
  <2>6. QED
    BY <1>1, <1>2, <1>6, <2>1, <2>2, <2>4, <2>5 DEF Ends
<1>7. CASE ReadSignature(h)
  <2>1. /\ pc[h] = "challenged" /\ sat[h] = s /\ UNCHANGED sat /\ Goto(h, "welcoming")
        /\ Welcome(h, s) /\ Answer(h, [kind |-> "welcome", token |-> issued + 1])
    BY <1>7 DEF ReadSignature, AuthAccepted, Ends
  <2>2. QED
    BY <1>6, <2>1
<1>8. CASE ReadReconnect(h) /\ Resume(h, m.sat, m.token)
           /\ Answer(h, [kind |-> "welcome", token |-> issued + 1])
  <2>1. /\ pc[h] = "accepted" /\ sat'[h] = s /\ Goto(h, "welcoming")
        /\ Welcome(h, s)
    BY <1>0, <1>1, <1>8 DEF Resume, Identify
  <2>2. QED
    BY <1>6, <1>8, <2>1
<1>9. CASE ReadReconnect(h) /\ ResumeRefused(h, m.sat, m.token) /\ Answer(h, [kind |-> "expired"])
  <2>1. [kind |-> "expired"] \in FromHub
    BY DEF FromHub
  <2>2. QED
    BY <1>3, <1>9, <2>1 DEF ResumeRefused
<1>10. QED
  BY <1>4, <1>5, <1>7, <1>8, <1>9 DEF Read, ReadHello, ReadReconnect

LEMMA ReadShape ==
  ASSUME LinkTypeOK, NEW h \in Handlers, Read(h)
  PROVE  /\ UNCHANGED <<mode, link, held>>
         /\ pc'[h] \in {"idle", "accepted"} => sat'[h] = Nobody
         /\ wire'[h] = "open" => wire[h] = "open"
<1> USE DEF LinkTypeOK, TypeOK, HandlerTypeOK, Goto, Identify
<1>1. CASE Abandon(h)
  BY <1>1 DEF Read, Abandon, Return
<1>2. CASE pc'[h] \in {"challenged", "welcoming"} /\ UNCHANGED wire
  BY <1>2 DEF Read
<1>3. CASE ReadHello(h)
  BY <1>1, <1>2, <1>3 DEF ReadHello, HelloKnown, HelloRefused
<1>4. CASE ReadSignature(h)
  BY <1>1, <1>2, <1>4 DEF ReadSignature, AuthAccepted
<1>5. CASE ReadReconnect(h)
  BY <1>1, <1>2, <1>5 DEF ReadReconnect, Resume, ResumeRefused
<1>6. QED
  BY <1>3, <1>4, <1>5 DEF Read

\* A client reads and writes on its own connection.
LEMMA EndsTalks ==
  ASSUME LinkTypeOK, NEW s \in Satellites, NEW h \in Handlers, Ends(s, h),
         UNCHANGED <<pc, sat, token>>,
         up'[h] = up[h] \/ \E m \in FromClient : m.sat = s /\ up'[h] = Append(up[h], m),
         down'[h] = down[h] \/ (down[h] # <<>> /\ down'[h] = Tail(down[h])),
         mode'[s] \in {"saving", "serving"} /\ pc[h] # "idle" =>
           pc[h] \in {"welcoming", "loop"} /\ held'[s] = token[h]
  PROVE  Ends(s, h)'
<1>0. up[h] \in Seq(FromClient) /\ down[h] \in Seq(FromHub)
  BY DEF LinkTypeOK, ClientTypeOK
<1>1. \A i \in 1 .. Len(up'[h]) : up'[h][i].sat = s
  <2>1. CASE up'[h] = up[h]
    BY <2>1 DEF Ends
  <2>2. ASSUME NEW m \in FromClient, m.sat = s, up'[h] = Append(up[h], m)
        PROVE  \A i \in 1 .. Len(up'[h]) : up'[h][i].sat = s
    <3>1. \A i \in 1 .. Len(Append(up[h], m)) :
            Append(up[h], m)[i] = m \/ (i \in 1 .. Len(up[h]) /\ Append(up[h], m)[i] = up[h][i])
      BY <1>0, Enqueued
    <3>2. QED
      BY <2>2, <3>1 DEF Ends
  <2>3. QED
    BY <2>1, <2>2
<1>2. pc[h] # "idle" => \A i \in 1 .. Len(down'[h]) : down'[h][i].kind = "welcome" =>
        pc[h] \in {"welcoming", "loop"} /\ down'[h][i].token = token[h]
  <2>1. CASE down'[h] = down[h]
    BY <2>1 DEF Ends
  <2>2. CASE down[h] # <<>> /\ down'[h] = Tail(down[h])
    <3>1. \A i \in 1 .. Len(Tail(down[h])) :
            Tail(down[h])[i] = down[h][i + 1] /\ i + 1 \in 1 .. Len(down[h])
      BY <1>0, <2>2, Dequeued
    <3>2. QED
      BY <2>2, <3>1 DEF Ends
  <2>3. QED
    BY <2>1, <2>2
<1>3. QED
  BY <1>1, <1>2 DEF Ends

\* A client that keeps its connection.
LEMMA EndsClient ==
  ASSUME LinkInv, NEW s \in Satellites, NEW h \in Handlers, link[s] = h, link'[s] = h,
         ConnectFails(s) \/ Proceed(s) \/ GiveUpWaiting(s) \/ Power(s)
  PROVE  Ends(s, h)'
<1> USE DEF LinkInv, LinkTypeOK, ClientTypeOK, Enter
<1>0. /\ Ends(s, h) /\ h # NoHandler /\ mode[s] \notin {"off", "opening"}
      /\ UNCHANGED <<pc, sat, token>>
  BY BrokerAssumption DEF LinkEnds, Attends, LinkModes, BrokerAssumption,
     ConnectFails, Proceed, GiveUpWaiting, Power
<1>1. ASSUME NEW m \in FromClient, Send(h, m)
      PROVE  up'[h] = up[h] \/ up'[h] = Append(up[h], m)
  BY <1>1 DEF Send
<1>2. Hello(s) \in FromClient /\ Signature(s) \in FromClient /\ Hello(s).sat = s /\ Signature(s).sat = s
  BY MessagesOfClient DEF Hello, Signature
<1>3. ~LetGo(s) /\ ~PowerOff(s)
  BY <1>0 DEF LetGo, PowerOff
<1>4. ASSUME NEW kinds, Arrives(s, kinds)
      PROVE  down[h] # <<>> /\ down'[h] = Tail(down[h])
  BY <1>4 DEF Arrives
<1>5. CASE ResumeDenied(s) \/ ResumeTimesOut(s)
  <2>1. Send(h, Hello(s)) /\ mode'[s] = "greeting"
    BY <1>5 DEF ResumeDenied, ResumeTimesOut, GreetInstead
  <2>2. down'[h] = down[h] \/ (down[h] # <<>> /\ down'[h] = Tail(down[h]))
    BY <1>4, <1>5 DEF ResumeDenied, ResumeTimesOut
  <2>3. QED
    BY <1>0, <1>1, <1>2, <2>1, <2>2, EndsTalks
<1>6. CASE Sign(s)
  <2>1. Send(h, Signature(s)) /\ mode'[s] = "signing"
    BY <1>6 DEF Sign
  <2>2. down[h] # <<>> /\ down'[h] = Tail(down[h])
    BY <1>4, <1>6 DEF Sign
  <2>3. QED
    BY <1>0, <1>1, <1>2, <2>1, <2>2, EndsTalks
<1>7. CASE Welcomed(s)
  <2>1. down[h] # <<>> /\ down'[h] = Tail(down[h]) /\ UNCHANGED up /\ held'[s] = Head(down[h]).token
    BY <1>4, <1>7 DEF Welcomed
  <2>2. Head(down[h]).kind = "welcome"
    BY <1>7 DEF Welcomed, Arrives
  <2>3. Head(down[h]) = down[h][1] /\ 1 \in 1 .. Len(down[h])
    BY <2>1, Dequeued
  <2>4. pc[h] # "idle" => pc[h] \in {"welcoming", "loop"} /\ held'[s] = token[h]
    BY <1>0, <2>1, <2>2, <2>3 DEF Ends
  <2>5. QED
    BY <1>0, <2>1, <2>4, EndsTalks
<1>8. CASE Saved(s)
  <2>1. UNCHANGED <<up, down, held>> /\ mode[s] = "saving"
    BY <1>8 DEF Saved
  <2>2. pc[h] # "idle" => pc[h] \in {"welcoming", "loop"} /\ held'[s] = token[h]
    BY <1>0, <2>1 DEF Ends
  <2>3. QED
    BY <1>0, <2>1, <2>2, EndsTalks
<1>9. QED
  BY <1>0, <1>3, <1>5, <1>6, <1>7, <1>8 DEF ConnectFails, OpenFails, Proceed, Refused, Lost,
     ServiceEnds, HubSilent, GiveUpWaiting, AuthTimesOut, Power, PowerOn

\* A client that connects.
LEMMA EndsConnect ==
  ASSUME LinkInv, NEW s \in Satellites, NEW h \in Handlers, Connect(s), link'[s] = h
  PROVE  Ends(s, h)'
<1> USE DEF LinkInv, LinkTypeOK, ClientTypeOK, TypeOK, HandlerTypeOK
<1>1. Accept(h) /\ Opened(s, h)
  <2>1. PICK g \in Handlers : Accept(g) /\ Opened(s, g)
    BY DEF Connect
  <2>2. g = h
    BY <2>1 DEF Opened
  <2>3. QED
    BY <2>1, <2>2
<1>2. pc'[h] = "accepted" /\ mode'[s] \in {"resuming", "greeting"} /\ down'[h] = <<>>
  BY <1>1 DEF Accept, Opened, Goto, Enter
<1>3. up'[h] = <<Hello(s)>> \/ up'[h] = <<Reconnect(s)>>
  BY <1>1 DEF Opened
<1>4. \A i \in 1 .. Len(up'[h]) : up'[h][i].sat = s
  BY <1>3 DEF Hello, Reconnect
<1>5. QED
  BY <1>2, <1>4 DEF Ends

\* A client that is not at the other end of a handler does not disturb it.
LEMMA CalmClient ==
  ASSUME LinkInv, NEW t \in Satellites, NEW h \in Handlers, link[t] # h, link'[t] # h,
         Connect(t) \/ ConnectFails(t) \/ Proceed(t) \/ GiveUpWaiting(t) \/ Power(t)
  PROVE  Calm(h)
<1> USE DEF LinkInv, LinkTypeOK, ClientTypeOK, TypeOK, HandlerTypeOK, Calm
<1>1. CASE Connect(t)
  <2>1. PICK g \in Handlers : Accept(g) /\ Opened(t, g)
    BY <1>1 DEF Connect
  <2>2. g # h
    BY <2>1 DEF Opened
  <2>3. QED
    BY <2>1, <2>2 DEF Accept, Opened, Goto
<1>2. CASE ~Connect(t)
  <2>1. UNCHANGED <<pc, sat, token>>
    BY <1>2 DEF ConnectFails, Proceed, GiveUpWaiting, Power
  <2>2. CASE ConnectFails(t)
    BY <2>1, <2>2 DEF ConnectFails, OpenFails
  <2>3. ASSUME NEW m, Send(link[t], m) PROVE up'[h] = up[h]
    BY <2>3 DEF Send
  <2>4. ASSUME NEW kinds, Arrives(t, kinds) PROVE down'[h] = down[h]
    BY <2>4 DEF Arrives
  <2>5. ASSUME LetGo(t) PROVE wire'[h] = wire[h]
    BY <2>5 DEF LetGo
  <2>6. CASE ResumeDenied(t) \/ ResumeTimesOut(t) \/ Sign(t)
    <3>1. UNCHANGED wire /\ up'[h] = up[h]
      BY <2>3, <2>6 DEF ResumeDenied, ResumeTimesOut, GreetInstead, Sign
    <3>2. down'[h] = down[h]
      BY <2>4, <2>6 DEF ResumeDenied, ResumeTimesOut, Sign
    <3>3. QED
      BY <2>1, <3>1, <3>2
  <2>7. CASE Welcomed(t) \/ Saved(t)
    <3>1. UNCHANGED <<wire, up>> /\ down'[h] = down[h]
      BY <2>4, <2>7 DEF Welcomed, Saved
    <3>2. QED
      BY <2>1, <3>1
  <2>8. CASE Refused(t)
    <3>1. UNCHANGED up /\ down'[h] = down[h] /\ wire'[h] = wire[h]
      BY <2>4, <2>5, <2>8 DEF Refused
    <3>2. QED
      BY <2>1, <3>1
  <2>9. CASE Lost(t) \/ ServiceEnds(t) \/ HubSilent(t) \/ AuthTimesOut(t)
    <3>1. UNCHANGED <<up, down>> /\ wire'[h] = wire[h]
      BY <2>5, <2>9 DEF Lost, ServiceEnds, HubSilent, AuthTimesOut
    <3>2. QED
      BY <2>1, <3>1
  <2>10. CASE Power(t)
    <3>1. UNCHANGED <<up, down>> /\ wire'[h] = wire[h]
      BY <2>10 DEF Power, PowerOff, PowerOn
    <3>2. QED
      BY <2>1, <3>1
  <2>11. QED
    BY <1>2, <2>2, <2>6, <2>7, <2>8, <2>9, <2>10 DEF Proceed, GiveUpWaiting
<1>3. QED
  BY <1>1, <1>2

\* How a client comes to its connection, keeps it and lets it go.
LEMMA ClientMoves ==
  ASSUME LinkTypeOK, LinkModes, NEW t \in Satellites,
         Connect(t) \/ ConnectFails(t) \/ Proceed(t) \/ GiveUpWaiting(t) \/ Power(t)
  PROVE  /\ \A s \in Satellites \ {t} : mode'[s] = mode[s] /\ link'[s] = link[s] /\ held'[s] = held[s]
         /\ \/ /\ link'[t] = link[t] /\ UNCHANGED wire
               /\ mode'[t] \in {"off", "opening"} <=> mode[t] \in {"off", "opening"}
            \/ /\ link'[t] = NoHandler /\ mode'[t] \in {"off", "opening"}
               /\ \A h \in Handlers : wire'[h] = "open" => wire[h] = "open" /\ link[t] # h
            \/ /\ link[t] = NoHandler /\ mode'[t] \notin {"off", "opening"}
               /\ \E h \in Handlers : /\ ~Attended(h) /\ link'[t] = h
                                      /\ \A g \in Handlers \ {h} : wire'[g] = wire[g]
<1> USE DEF LinkTypeOK, ClientTypeOK, TypeOK, HandlerTypeOK, Enter
<1> DEFINE Others == \A s \in Satellites \ {t} :
                       mode'[s] = mode[s] /\ link'[s] = link[s] /\ held'[s] = held[s]
           Kept == /\ link'[t] = link[t] /\ UNCHANGED wire
                   /\ mode'[t] \in {"off", "opening"} <=> mode[t] \in {"off", "opening"}
           Gone == /\ link'[t] = NoHandler /\ mode'[t] \in {"off", "opening"}
                   /\ \A h \in Handlers : wire'[h] = "open" => wire[h] = "open" /\ link[t] # h
           Got == /\ link[t] = NoHandler /\ mode'[t] \notin {"off", "opening"}
                  /\ \E h \in Handlers : /\ ~Attended(h) /\ link'[t] = h
                                         /\ \A g \in Handlers \ {h} : wire'[g] = wire[g]
<1>1. CASE Connect(t)
  <2>1. PICK h \in Handlers : ~Attended(h) /\ Accept(h) /\ Opened(t, h)
    BY <1>1 DEF Connect
  <2>2. Others
    BY <2>1 DEF Opened
  <2>3. link[t] = NoHandler /\ link'[t] = h /\ mode'[t] \notin {"off", "opening"}
    BY <2>1 DEF Opened, LinkModes
  <2>4. \A g \in Handlers \ {h} : wire'[g] = wire[g]
    BY <2>1 DEF Accept
  <2>5. QED
    BY <2>1, <2>2, <2>3, <2>4
<1>2. CASE ConnectFails(t) \/ ResumeDenied(t) \/ ResumeTimesOut(t) \/ Sign(t) \/ Saved(t)
  <2>1. UNCHANGED <<link, held, wire>>
    BY <1>2 DEF ConnectFails, OpenFails, ResumeDenied, ResumeTimesOut, GreetInstead, Sign, Saved
  <2>2. \/ UNCHANGED mode
        \/ /\ mode[t] \in {"resuming", "greeting", "saving"}
           /\ \E m \in {"greeting", "signing", "serving"} : mode' = [mode EXCEPT ![t] = m]
    BY <1>2 DEF ConnectFails, OpenFails, ResumeDenied, ResumeTimesOut, GreetInstead, Sign, Saved
  <2>3. Others /\ Kept
    BY <2>1, <2>2
  <2>4. QED
    BY <2>3
<1>3. CASE Welcomed(t)
  <2>1. /\ UNCHANGED <<link, wire>> /\ mode[t] \in {"resuming", "signing"}
        /\ mode' = [mode EXCEPT ![t] = "saving"]
        /\ held' = [held EXCEPT ![t] = Head(down[link[t]]).token]
    BY <1>3 DEF Welcomed
  <2>2. Others /\ Kept
    BY <2>1
  <2>3. QED
    BY <2>2
<1>4. CASE LetGo(t) /\ UNCHANGED held
  <2>1. Others
    BY <1>4 DEF LetGo
  <2>2. \A h \in Handlers : wire'[h] = "open" => wire[h] = "open" /\ link[t] # h
    BY <1>4 DEF LetGo
  <2>3. QED
    BY <1>4, <2>1, <2>2 DEF LetGo
<1>5. CASE PowerOff(t)
  <2>1. Others
    BY <1>5 DEF PowerOff
  <2>2. \A h \in Handlers : wire'[h] = "open" => wire[h] = "open" /\ link[t] # h
    BY <1>5 DEF PowerOff
  <2>3. QED
    BY <1>5, <2>1, <2>2 DEF PowerOff
<1>6. CASE PowerOn(t)
  <2>1. Others /\ Kept
    BY <1>6 DEF PowerOn
  <2>2. QED
    BY <2>1
<1>7. QED
  BY <1>1, <1>2, <1>3, <1>4, <1>5, <1>6 DEF Proceed, Refused, Lost, ServiceEnds, HubSilent,
     GiveUpWaiting, AuthTimesOut, Power

LEMMA LinkInvStep ==
  ASSUME LinkInv, LinkNext
  PROVE  LinkInv'
<1> USE DEF LinkInv
<1>0. NoHandler \notin Handlers
  BY BrokerAssumption DEF BrokerAssumption
<1>1. ASSUME NEW t \in Satellites,
             Connect(t) \/ ConnectFails(t) \/ Proceed(t) \/ GiveUpWaiting(t) \/ Power(t)
      PROVE  (LinkModes /\ OneClient /\ OpenIsAttended /\ Unidentified /\ LinkEnds)'
  <2>1. (LinkModes /\ OneClient)'
    BY <1>0, <1>1, ClientMoves DEF LinkModes, OneClient, Attended, Attends
  <2>2. OpenIsAttended'
    <3>1. SUFFICES ASSUME NEW h \in Handlers, wire'[h] = "open"
                   PROVE  \E s \in Satellites : link'[s] = h
      BY DEF OpenIsAttended, Attended, Attends
    <3>2. CASE link'[t] = h
      BY <3>2
    <3>3. CASE link'[t] # h
      <4>1. wire[h] = "open" /\ link[t] # h
        BY <1>1, <3>1, <3>3, ClientMoves, <1>0
      <4>2. PICK s \in Satellites : link[s] = h
        BY <4>1 DEF OpenIsAttended, Attended, Attends
      <4>3. QED
        BY <1>1, <4>1, <4>2, ClientMoves
    <3>4. QED
      BY <3>2, <3>3
  <2>3. Unidentified'
    <3>1. CASE Connect(t)
      BY <3>1 DEF Connect, Accept, Unidentified, Goto, LinkTypeOK, TypeOK, HandlerTypeOK
    <3>2. CASE ~Connect(t)
      <4>1. UNCHANGED <<pc, sat>>
        BY <1>1, <3>2 DEF ConnectFails, Proceed, GiveUpWaiting, Power
      <4>2. QED
        BY <4>1 DEF Unidentified
    <3>3. QED
      BY <3>1, <3>2
  <2>4. ASSUME NEW s \in Satellites, NEW h \in Handlers, link'[s] = h PROVE Ends(s, h)'
    <3>1. CASE s = t /\ Connect(t)
      BY <2>4, <3>1, EndsConnect
    <3>2. CASE s = t /\ ~Connect(t)
      <4>1. link[s] = h
        <5>1. mode[s] \notin {"off", "opening"} => link[s] # NoHandler
          BY DEF LinkModes
        <5>2. UNCHANGED link \/ LetGo(s) \/ PowerOff(s)
          BY <1>1, <3>2 DEF ConnectFails, OpenFails, Proceed, ResumeDenied, GreetInstead, Sign, Welcomed,
             Saved, Refused, Lost, ServiceEnds, HubSilent, GiveUpWaiting, ResumeTimesOut, AuthTimesOut,
             Power, PowerOn
        <5>3. QED
          BY <1>0, <2>4, <5>2 DEF LetGo, PowerOff, LinkTypeOK, ClientTypeOK
      <4>2. QED
        BY <1>1, <2>4, <3>2, <4>1, EndsClient
    <3>3. CASE s # t
      <4>1. /\ link[s] = h /\ mode'[s] = mode[s] /\ held'[s] = held[s]
            /\ link[t] # h /\ link'[t] # h
        BY <1>0, <1>1, <2>1, <2>4, <3>3, ClientMoves DEF OneClient
      <4>2. Calm(h)
        BY <1>1, <4>1, CalmClient
      <4>3. QED
        BY <4>1, <4>2, EndsCalm DEF LinkEnds, Attends
    <3>4. QED
      BY <3>1, <3>2, <3>3
  <2>5. QED
    BY <2>1, <2>2, <2>3, <2>4 DEF LinkEnds, Attends
<1>2. ASSUME \/ \E h \in Handlers : Read(h) \/ Ignore(h) \/ GiveUpHandler(h) \/ HubStep(h)
             \/ HubAlone \/ HubCrashes \/ \E s \in Satellites : Breaks(s)
      PROVE  (LinkModes /\ OneClient /\ OpenIsAttended /\ Unidentified /\ LinkEnds)'
  <2>1. UNCHANGED <<mode, link, held>>
    BY <1>2 DEF Read, Ignore, GiveUpHandler, HubStep, HubAlone, HubCrashes, Breaks
  <2>2. ASSUME NEW h \in Handlers PROVE Read(h) \/ Calm(h)
    BY <1>2, CalmHub
  <2>3. (LinkModes /\ OneClient)'
    BY <2>1 DEF LinkModes, OneClient
  <2>4. OpenIsAttended'
    BY <2>1, <2>2, ReadShape DEF OpenIsAttended, Attended, Attends, Calm
  <2>5. Unidentified'
    BY <2>2, ReadShape DEF Unidentified, Calm
  <2>6. LinkEnds'
    BY <2>1, <2>2, EndsRead, EndsCalm DEF LinkEnds, Attends
  <2>7. QED
    BY <2>3, <2>4, <2>5, <2>6
<1>3. LinkTypeOK'
  <2>1. TypeOK'
    BY LinkStepIsBrokerStep, HandlerTypeStep, BrokerTypeStep, PairingTypeStep DEF LinkTypeOK, TypeOK
  <2>2. ClientTypeOK'
    BY ClientTypes, HubTypes DEF LinkNext
  <2>3. QED
    BY <2>1, <2>2 DEF LinkTypeOK
<1>4. QED
  BY <1>1, <1>2, <1>3 DEF LinkNext

\* When the Hub starts with its paired satellites, nothing is connected.
LEMMA LinkStarts ==
  LinkInit => LinkInv
<1>1. SUFFICES ASSUME LinkInit PROVE LinkInv
  OBVIOUS
<1> USE PairingAssumption, BrokerAssumption, LinkAssumption
    DEF PairingAssumption, BrokerAssumption, LinkAssumption
<1>2. PICK owner \in [Requests -> Satellites] :
        /\ \A s \in Satellites : \E r \in Requests : owner[r] = s
        /\ row = [s \in Satellites |-> CHOOSE r \in Requests : owner[r] = s]
        /\ claimant = owner
  BY <1>1 DEF LinkInit, PairedInit
<1>3. row \in [Satellites -> 0 .. MaxRequests]
  <2>1. \A s \in Satellites : (CHOOSE r \in Requests : owner[r] = s) \in Requests
    BY <1>2
  <2>2. Requests \subseteq 0 .. MaxRequests
    OBVIOUS
  <2>3. QED
    BY <1>2, <2>1, <2>2
<1>4. PairingTypeOK
  BY <1>1, <1>2, <1>3
  DEF LinkInit, PairedInit, PairingTypeOK, LedgerTypeOK, DecisionTypeOK, SessionTypeOK
<1>5. HandlerTypeOK /\ BrokerTypeOK
  BY <1>1 DEF LinkInit, PairedInit, BrokerInit, HandlerTypeOK, BrokerTypeOK, PCs
<1>6. ClientTypeOK
  BY <1>1, <1>3 DEF LinkInit, ClientInit, ClientTypeOK, Modes
<1>7. LinkModes /\ OneClient
  BY <1>1 DEF LinkInit, ClientInit, LinkModes, OneClient
<1>8. OpenIsAttended /\ Unidentified
  BY <1>1 DEF LinkInit, PairedInit, BrokerInit, OpenIsAttended, Unidentified
<1>9. LinkEnds
  BY <1>1 DEF LinkInit, ClientInit, LinkEnds, Attends
<1>10. QED
  BY <1>4, <1>5, <1>6, <1>7, <1>8, <1>9 DEF LinkInv, LinkTypeOK, TypeOK

LEMMA LinkStutters ==
  ASSUME LinkInv, UNCHANGED linkVars
  PROVE  LinkInv'
<1> USE DEF LinkInv, linkVars, vars
<1>1. LinkTypeOK'
  BY DEF LinkTypeOK, TypeOK, PairingTypeOK, LedgerTypeOK, DecisionTypeOK, SessionTypeOK,
     HandlerTypeOK, BrokerTypeOK, ClientTypeOK
<1>2. (LinkModes /\ OneClient /\ OpenIsAttended /\ Unidentified)'
  BY DEF LinkModes, OneClient, OpenIsAttended, Unidentified, Attended, Attends
<1>3. LinkEnds'
  BY DEF LinkEnds, Ends, Attends
<1>4. QED
  BY <1>1, <1>2, <1>3

LEMMA LinkInvariant == LinkSpec => []LinkInv
<1>1. LinkInv /\ [LinkNext]_linkVars => LinkInv'
  BY LinkInvStep, LinkStutters
<1>2. QED
  BY LinkStarts, <1>1, PTL DEF LinkSpec

\* Every state of the Hub, of the clients and of what is under way has its type.
THEOREM LinkTypeCorrect == LinkSpec => []LinkTypeOK
<1>1. LinkInv => LinkTypeOK
  BY DEF LinkInv
<1>2. QED
  BY <1>1, LinkInvariant, PTL

\* The clients and their network are an environment that SatelliteBroker allows
\* for: each step of the two together is one of the broker's, or none.
THEOREM LinkUsesBroker == LinkSpec => PairedInit /\ [][Next]_vars
<1>1. LinkInit => PairedInit
  BY DEF LinkInit
<1>2. LinkInv /\ [LinkNext]_linkVars => [Next]_vars
  BY LinkStepIsBrokerStep DEF LinkInv
<1>3. QED
  BY <1>1, <1>2, LinkInvariant, PTL DEF LinkSpec

\* A satellite that serves a connection and the handler at its other end, if it
\* still runs, speak of the same satellite and hold the same session token.
THEOREM SessionAgreed == LinkSpec => []AgreedSession
<1>1. LinkInv => AgreedSession
  <2>1. SUFFICES ASSUME LinkInv, NEW s \in Satellites, mode[s] = "serving", pc[link[s]] # "idle"
                 PROVE  /\ pc[link[s]] \in {"welcoming", "loop"}
                        /\ sat[link[s]] = s
                        /\ token[link[s]] = held[s]
    BY DEF AgreedSession
  <2>2. link[s] \in Handlers
    BY <2>1 DEF LinkInv, LinkModes, LinkTypeOK, ClientTypeOK
  <2>3. Ends(s, link[s])
    BY <2>1, <2>2 DEF LinkInv, LinkEnds, Attends
  <2>4. QED
    BY <2>1, <2>3 DEF Ends
<1>2. QED
  BY <1>1, LinkInvariant, PTL

\* Every open connection the Hub serves for a satellite is the one it reads.
THEOREM NoneOrphaned == LinkSpec => []NoOrphanLink
<1>1. LinkInv => NoOrphanLink
  <2>1. SUFFICES ASSUME LinkInv, NEW h \in Handlers, wire[h] = "open"
                 PROVE  \E s \in Satellites : Attends(s, h) /\ sat[h] \in {s, Nobody}
    BY DEF NoOrphanLink
  <2>2. PICK s \in Satellites : Attends(s, h)
    BY <2>1 DEF LinkInv, OpenIsAttended, Attended
  <2>3. Ends(s, h)
    BY <2>1, <2>2 DEF LinkInv, LinkEnds
  <2>4. QED
    BY <2>1, <2>2, <2>3 DEF Ends, LinkInv, Unidentified
<1>2. QED
  BY <1>1, LinkInvariant, PTL
=============================================================================
