----------------------------- MODULE HubPairing -----------------------------
(***************************************************************************)
(* HubPairingService (synork_home/src/hub_pairing.py): the Hub's ledger of *)
(* paired satellites, the owner's decisions on pairing requests and the    *)
(* session tokens for fast reconnection.                                   *)
(*                                                                         *)
(* The service never runs by itself: the connection handlers of the        *)
(* SatelliteBroker call it.  This module holds its state and what each of  *)
(* its operations does to it between two suspension points; SatelliteBroker*)
(* EXTENDS it and sequences the operations.                                *)
(*                                                                         *)
(* Data abstractions.  A request id (uuid4) is the ordinal of the request; *)
(* the device secret generated when a request is approved, and its SHA-256 *)
(* hash, are named by that request; a session token is its ordinal among   *)
(* the tokens issued.  Rooms, names, capabilities and time stamps decide   *)
(* nothing and are left out.                                               *)
(***************************************************************************)
EXTENDS Naturals

CONSTANTS
  Satellites,     \* satellite ids
  Nobody,         \* no satellite
  MaxRequests,    \* bound: pairing requests created in a behaviour
  MaxTokens       \* bound: session tokens issued in a behaviour

ASSUME PairingAssumption ==
  /\ Nobody \notin Satellites
  /\ MaxRequests \in Nat
  /\ MaxTokens \in Nat

Requests == 1 .. MaxRequests
NoRow == 0                        \* no row in `satellites`
NoRequest == 0
NoToken == 0
UnknownHash == MaxRequests + 1    \* the hash of a secret this Hub never issued

VARIABLES
  \* SQLite, survives a restart of the Hub
  row,          \* satellites: the secret (request) of each registered satellite
  online,       \* satellites.online
  pendingRows,  \* the ids in table pending_satellite_pairings
  \* memory of the Hub process
  sessions,     \* _sessions: the token honoured for each satellite
  expired,      \* satellites whose session has outlived _SESSION_DURATION
  pending,      \* keys of _pending
  signalled,    \* requests whose approval_event is set
  secrets,      \* keys of _approved_secrets
  \* the requests and tokens handed out so far
  created,      \* pairing requests created
  claimant,     \* PendingSatellitePairing.satellite_id of each of them
  issued,       \* session tokens issued
  \* history: the answers the owner was given (approve/reject returned True)
  verdicts

ledgerVars   == <<row, online, pendingRows>>
decisionVars == <<pending, signalled, secrets, created, claimant, verdicts>>
sessionVars  == <<sessions, expired, issued>>
pairingVars  == <<ledgerVars, decisionVars, sessionVars>>

Created == 1 .. created

LedgerTypeOK ==
  /\ row \in [Satellites -> 0 .. MaxRequests]
  /\ online \in [Satellites -> BOOLEAN]
  /\ pendingRows \subseteq Created

DecisionTypeOK ==
  /\ created \in 0 .. MaxRequests
  /\ claimant \in [Requests -> Satellites \cup {Nobody}]
  /\ pending \subseteq Created
  /\ signalled \subseteq Created
  /\ secrets \subseteq Created
  /\ verdicts \in [Requests -> SUBSET {"approve", "reject"}]

SessionTypeOK ==
  /\ sessions \in [Satellites -> 0 .. MaxTokens]
  /\ issued \in 0 .. MaxTokens
  /\ expired \subseteq Satellites

PairingTypeOK == LedgerTypeOK /\ DecisionTypeOK /\ SessionTypeOK

PairingInit ==
  /\ row = [s \in Satellites |-> NoRow]
  /\ online = [s \in Satellites |-> FALSE]
  /\ pendingRows = {}
  /\ sessions = [s \in Satellites |-> NoToken]
  /\ expired = {}
  /\ pending = {}
  /\ signalled = {}
  /\ secrets = {}
  /\ created = 0
  /\ claimant = [r \in Requests |-> Nobody]
  /\ issued = 0
  /\ verdicts = [r \in Requests |-> {}]

-----------------------------------------------------------------------------
(* Steps of the service's coroutines, called by connection handlers.       *)

Registered(s) == row[s] # NoRow

\* Fault: a satellite that asks again shares its pending request.
StoreRequestShared(r, s) ==
  /\ r \in Requests
  /\ r = created + 1 \/ (r \in pending /\ claimant[r] = s)
  /\ created' = IF r > created THEN r ELSE created
  /\ claimant' = [claimant EXCEPT ![r] = s]
  /\ pending' = pending \cup {r}
  /\ pendingRows' = pendingRows \cup {r}
  /\ UNCHANGED <<signalled, secrets, verdicts>>

\* The database and the dictionary get the request before the challenge is sent.
StoreRequest(r, s) ==
  /\ r = created + 1
  /\ r \in Requests
  /\ created' = r
  /\ claimant' = [claimant EXCEPT ![r] = s]
  /\ pending' = pending \cup {r}
  /\ pendingRows' = pendingRows \cup {r}
  /\ UNCHANGED <<signalled, secrets, verdicts>>

\* Fault: the row of the request stays in the database.
CleanupMemory(r) ==
  /\ pending' = pending \ {r}
  /\ signalled' = signalled \ {r}
  /\ UNCHANGED pendingRows

\* _cleanup_pending; the approval event is dropped with the entry.
CleanupPending(r) ==
  /\ pending' = pending \ {r}
  /\ signalled' = signalled \ {r}
  /\ pendingRows' = pendingRows \ {r}

\* Fault: the token is sent, but an existing session keeps the one it has.
IssueUnlessPresent(s) ==
  /\ issued < MaxTokens
  /\ issued' = issued + 1
  /\ sessions' = [sessions EXCEPT ![s] = IF @ = NoToken THEN issued + 1 ELSE @]
  /\ expired' = expired \ {s}

\* A fresh token replaces whatever session the satellite had.
IssueSession(s) ==
  /\ issued < MaxTokens
  /\ issued' = issued + 1
  /\ sessions' = [sessions EXCEPT ![s] = issued + 1]
  /\ expired' = expired \ {s}

\* Fault: INSERT OR REPLACE.
ReplaceRow(s, r) ==
  /\ row' = [row EXCEPT ![s] = r]
  /\ online' = [online EXCEPT ![s] = TRUE]

\* INSERT INTO satellites ... online = 1; the primary key refuses a second row.
InsertRow(s, r) ==
  /\ ~Registered(s)
  /\ row' = [row EXCEPT ![s] = r]
  /\ online' = [online EXCEPT ![s] = TRUE]

\* The test of try_session_resume.
Resumable(s, t) ==
  /\ sessions[s] # NoToken
  /\ sessions[s] = t
  /\ s \notin expired
  /\ Registered(s)

\* A matching token that has expired is deleted; any other mismatch changes nothing.
RefuseResume(s, t) ==
  /\ ~Resumable(s, t)
  /\ IF sessions[s] = t /\ s \in expired
     THEN /\ sessions' = [sessions EXCEPT ![s] = NoToken]
          /\ expired' = expired \ {s}
     ELSE UNCHANGED <<sessions, expired>>
  /\ UNCHANGED issued

\* mark_satellite_online, mark_satellite_offline: UPDATE ... WHERE satellite_id
MarkOnline(s)  == online' = [online EXCEPT ![s] = Registered(s)]
MarkOfflineLost(s) == UNCHANGED online     \* fault: the update is lost
MarkOffline(s) == online' = [online EXCEPT ![s] = FALSE]

-----------------------------------------------------------------------------
(* Operations for the REST endpoints (not written yet in src/).            *)

\* A second approval overwrites the first secret; nobody has seen that one.
ApprovePairing(r) ==
  /\ r \in pending
  /\ secrets' = secrets \cup {r}
  /\ signalled' = signalled \cup {r}
  /\ verdicts' = [verdicts EXCEPT ![r] = @ \cup {"approve"}]
  /\ UNCHANGED <<ledgerVars, sessionVars, pending, created, claimant>>

\* Fault: a rejection leaves a secret too.
RejectWithSecret(r) ==
  /\ r \in pending
  /\ secrets' = secrets \cup {r}
  /\ signalled' = signalled \cup {r}
  /\ verdicts' = [verdicts EXCEPT ![r] = @ \cup {"reject"}]
  /\ UNCHANGED <<ledgerVars, sessionVars, pending, created, claimant>>

RejectPairing(r) ==
  /\ r \in pending
  /\ signalled' = signalled \cup {r}
  /\ verdicts' = [verdicts EXCEPT ![r] = @ \cup {"reject"}]
  /\ UNCHANGED <<ledgerVars, sessionVars, pending, secrets, created, claimant>>

\* unpair_satellite
UnpairSatellite(s) ==
  /\ Registered(s)
  /\ row' = [row EXCEPT ![s] = NoRow]
  /\ online' = [online EXCEPT ![s] = FALSE]
  /\ sessions' = [sessions EXCEPT ![s] = NoToken]
  /\ expired' = expired \ {s}
  /\ UNCHANGED <<decisionVars, pendingRows, issued>>

\* Twenty-four hours pass.
SessionExpires(s) ==
  /\ sessions[s] # NoToken
  /\ s \notin expired
  /\ expired' = expired \cup {s}
  /\ UNCHANGED <<ledgerVars, decisionVars, sessions, issued>>

\* The process ends: its dictionaries are gone, the database stays.
ForgetMemory ==
  /\ sessions' = [s \in Satellites |-> NoToken]
  /\ expired' = {}
  /\ pending' = {}
  /\ signalled' = {}
  /\ secrets' = {}
  /\ UNCHANGED <<ledgerVars, created, claimant, issued, verdicts>>
=============================================================================
