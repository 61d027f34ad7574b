----------------------------- MODULE RelayClient -----------------------------
(***************************************************************************)
(* RelayClient (synork_home/src/relay_client.py): the add-on's connection  *)
(* to the Synork relay.  connect() runs as a task of its own: it opens a   *)
(* socket, resumes its session or authenticates, runs the callbacks of     *)
(* on_connected, serves messages until the socket ends, and starts again.  *)
(* A heartbeat task watches the connection, other tasks wait for answers   *)
(* from the relay, and stop() of the add-on disconnects from yet another   *)
(* task.  An action is the code between two awaits.                        *)
(*                                                                         *)
(* The relay is external.  It answers what it reads, and keeps the socket  *)
(* open when it refuses to resume: _connect_once authenticates on it.      *)
(***************************************************************************)
EXTENDS Naturals, Sequences

CONSTANTS
  Calls,        \* correlation ids, each used for one call
  MaxTokens,    \* bound: sessions the relay can issue
  MaxFaults,    \* bound: failed opens, resets, silences, late answers, lost sessions
  MaxInbox      \* bound: messages the relay has under way

ASSUME RelayAssumption == MaxTokens \in Nat /\ MaxFaults \in Nat /\ MaxInbox \in Nat

VARIABLES
  \* the task of connect()
  pc,            \* where it is suspended
  raised,        \* _connect_once is about to raise
  running, connected, authenticated,   \* the flags of those names
  ws,            \* _ws is not None
  token,         \* _session_token, 0 for none
  retried,       \* _reconnect_attempt > 0
  watching,      \* the heartbeat task is alive
  silent,        \* no heartbeat was read for three intervals
  \* callers of wait_for_service_response
  call,          \* the state of each call
  pending,       \* the keys of _pending_calls
  stop,          \* how far Synork.stop() is with the relay
  \* the network and the relay
  wire, inbox, outbox, session, welcomed, issued, faults

taskVars   == <<pc, raised>>
flagVars   == <<running, connected, authenticated, ws>>
tokenVars  == <<token, retried>>
watchVars  == <<watching, silent>>
callVars   == <<call, pending>>
relayVars  == <<session, welcomed, issued>>
netVars    == <<wire, inbox, outbox>>
vars == <<taskVars, flagVars, tokenVars, watchVars, callVars, stop, relayVars, netVars, faults>>

(* "opening", "sleeping" (backoff);  "resuming", "greeting", "signing":      *)
(* await an answer of the handshake;  "calling": on_connected callbacks;     *)
(* "serving": awaits a message;  "handling": a handler runs inline;          *)
(* "cleaning": awaits the end of the heartbeat task;  "leaving": `async      *)
(* with` closes the socket;  "ended".                                        *)
Handshake == {"resuming", "greeting", "signing"}
PCs == Handshake \cup {"opening", "sleeping", "calling", "serving", "handling",
                       "cleaning", "leaving", "ended"}
CallStates == {"new", "sent", "waiting", "answered", "aborted", "told", "none"}

\* The type invariant; _connected is only up while there is a _ws.
FlagTypeOK ==
  /\ raised \in BOOLEAN /\ running \in BOOLEAN /\ connected \in BOOLEAN
  /\ authenticated \in BOOLEAN /\ ws \in BOOLEAN /\ retried \in BOOLEAN
  /\ watching \in BOOLEAN /\ silent \in BOOLEAN /\ welcomed \in BOOLEAN
  /\ connected => ws

StateTypeOK ==
  /\ pc \in PCs
  /\ token \in 0 .. MaxTokens
  /\ call \in [Calls -> CallStates]
  /\ pending \subseteq Calls
  /\ stop \in {"no", "closing", "cancelling", "swallowed"}
  /\ wire \in {"none", "open", "dead", "clean", "reset"}
  /\ issued \in 0 .. MaxTokens
  /\ session \in 0 .. issued
  /\ faults \in 0 .. MaxFaults

TypeOK == FlagTypeOK /\ StateTypeOK

Init ==
  /\ pc = "opening" /\ raised = FALSE
  /\ running = TRUE /\ connected = FALSE /\ authenticated = FALSE /\ ws = FALSE
  /\ token = 0 /\ retried = FALSE
  /\ watching = FALSE /\ silent = FALSE
  /\ call = [c \in Calls |-> "new"] /\ pending = {}
  /\ stop = "no"
  /\ session = 0 /\ welcomed = FALSE /\ issued = 0
  /\ wire = "none" /\ inbox = <<>> /\ outbox = <<>>
  /\ faults = 0

-----------------------------------------------------------------------------
Ready == connected /\ authenticated        \* the property `connected`
Up == wire \in {"open", "dead"}
Msg(kind, n) == [kind |-> kind, n |-> n]

Write(m) ==
  /\ Up
  /\ outbox' = IF wire = "open" THEN Append(outbox, m) ELSE outbox

\* A message of one of these kinds is read: also one from before a close.
Arrives(kinds) ==
  /\ wire # "dead"
  /\ inbox # <<>>
  /\ Head(inbox).kind \in kinds
  /\ inbox' = Tail(inbox)

Fault == faults < MaxFaults /\ faults' = faults + 1

\* A time-out against a relay that would have answered is a fault.
TimesOut == IF wire = "dead" THEN UNCHANGED faults ELSE Fault

\* Fault: the entries go, the futures stay.
DropEntries == pending' = {} /\ UNCHANGED call

\* Every future in _pending_calls is cancelled, the dictionary is cleared.
CancelCalls ==
  /\ call' = [c \in Calls |-> IF c \in pending THEN "aborted" ELSE call[c]]
  /\ pending' = {}

ClearFlags == connected' = FALSE /\ authenticated' = FALSE

-----------------------------------------------------------------------------
(* connect() and _connect_once()                                           *)

\* The socket is open: Reconnect after a failure with a token, else AddonHello.
Opened ==
  LET resumes == token # 0 /\ retried IN
  /\ pc = "opening"
  /\ pc' = IF resumes THEN "resuming" ELSE "greeting"
  /\ outbox' = << IF resumes THEN Msg("reconnect", token) ELSE Msg("hello", 0) >>
  /\ wire' = "open" /\ inbox' = <<>> /\ welcomed' = FALSE
  /\ ws' = TRUE /\ connected' = TRUE
  /\ UNCHANGED <<raised, running, authenticated, tokenVars, watchVars, callVars, stop,
                 session, issued, faults>>

\* The exception handler of connect(): backoff, or the end after disconnect().
Retry ==
  /\ pc' = IF running THEN "sleeping" ELSE "ended"
  /\ IF running THEN ClearFlags ELSE UNCHANGED <<connected, authenticated>>

OpenFails ==
  /\ pc = "opening"
  /\ Fault
  /\ Retry
  /\ UNCHANGED <<raised, running, ws, tokenVars, watchVars, callVars, stop, relayVars, netVars>>

SleepOver ==
  /\ pc = "sleeping"
  /\ retried' = TRUE
  /\ pc' = IF running THEN "opening" ELSE "ended"
  /\ UNCHANGED <<raised, flagVars, token, watchVars, callVars, stop, relayVars, netVars, faults>>

\* RelayWelcome: the callbacks of on_connected run before the message loop.
Admitted ==
  /\ Arrives({"welcome"})
  /\ token' = Head(inbox).n
  /\ authenticated' = TRUE
  /\ retried' = FALSE
  /\ pc' = "calling"
  /\ UNCHANGED <<raised, running, connected, ws, watchVars, callVars, stop, relayVars,
                 wire, outbox, faults>>

Resumed == pc = "resuming" /\ Admitted
Welcomed == pc = "signing" /\ Admitted

\* The session cannot be resumed, or the answer is late: authenticate on the
\* same socket.
ResumeFails ==
  /\ pc = "resuming"
  /\ \/ Arrives({"error", "challenge", "beat", "request"}) /\ UNCHANGED faults
     \/ TimesOut /\ UNCHANGED inbox
  /\ Write(Msg("hello", 0))
  /\ pc' = "greeting"
  /\ UNCHANGED <<raised, flagVars, tokenVars, watchVars, callVars, stop, relayVars, wire>>

Challenged ==
  /\ pc = "greeting"
  /\ Arrives({"challenge"})
  /\ Write(Msg("signature", 0))
  /\ pc' = "signing"
  /\ UNCHANGED <<raised, flagVars, tokenVars, watchVars, callVars, stop, relayVars, wire, faults>>

\* _authenticate returns False: _connect_once returns, and connect() tries
\* again at once, without backoff and with the attempt it had.
AuthFails ==
  /\ pc \in {"greeting", "signing"}
  /\ \/ /\ Arrives({"welcome", "error", "challenge", "beat", "request"})
        /\ Head(inbox).kind # (IF pc = "greeting" THEN "challenge" ELSE "welcome")
        /\ UNCHANGED faults
     \/ TimesOut /\ UNCHANGED inbox
  /\ connected' = FALSE
  /\ pc' = "leaving"
  /\ raised' = FALSE
  /\ UNCHANGED <<running, authenticated, ws, tokenVars, watchVars, callVars, stop,
                 relayVars, wire, outbox>>

\* A send or recv of the handshake raises: the socket is closed, or disconnect()
\* has set _ws to None.
HandshakeBreaks ==
  /\ pc \in Handshake
  /\ ~Up
  /\ pc' = "leaving"
  /\ raised' = TRUE
  /\ UNCHANGED <<flagVars, tokenVars, watchVars, callVars, stop, relayVars, netVars, faults>>

\* The callbacks are done (their errors are logged): the heartbeat task starts.
\* It ends at once when disconnect() has cleared the flags in the meantime.
Serve ==
  /\ pc = "calling"
  /\ pc' = "serving"
  /\ watching' = (running /\ connected)
  /\ silent' = FALSE
  /\ UNCHANGED <<raised, flagVars, tokenVars, callVars, stop, relayVars, netVars, faults>>

-----------------------------------------------------------------------------
(* _message_loop, _dispatch and the heartbeat task                         *)

Beat ==
  /\ pc = "serving"
  /\ Arrives({"beat"})
  /\ silent' = FALSE
  /\ UNCHANGED <<taskVars, flagVars, tokenVars, watching, callVars, stop, relayVars,
                 wire, outbox, faults>>

\* ProtocolError AUTH_EXPIRED: the next connection authenticates.
Expired ==
  /\ pc = "serving"
  /\ Arrives({"error"})
  /\ token' = 0
  /\ UNCHANGED <<taskVars, flagVars, retried, watchVars, callVars, stop, relayVars,
                 wire, outbox, faults>>

\* service_call_response: the future of its call, if there is one, is resolved.
Answered ==
  LET c == Head(inbox).n IN
  /\ pc = "serving"
  /\ Arrives({"answer"})
  /\ call' = IF c \in pending THEN [call EXCEPT ![c] = "answered"] ELSE call
  /\ pending' = pending \ {c}
  /\ UNCHANGED <<taskVars, flagVars, tokenVars, watchVars, stop, relayVars, wire, outbox, faults>>

\* Any other message: its handler runs before the next message is read.
Handle ==
  /\ \/ pc = "serving" /\ Arrives({"request"}) /\ pc' = "handling"
     \/ pc = "handling" /\ pc' = "serving" /\ UNCHANGED inbox
  /\ UNCHANGED <<raised, flagVars, tokenVars, watchVars, callVars, stop, relayVars,
                 wire, outbox, faults>>

\* The loop ends: normally after a clean close, by an exception after another
\* one or without _ws.  `finally` cancels the heartbeat task and awaits it.
ServeEnds ==
  /\ pc = "serving"
  /\ ~ws \/ (~Up /\ inbox = <<>>)
  /\ raised' = (~ws \/ wire = "reset")
  /\ pc' = "cleaning"
  /\ watching' = FALSE
  /\ UNCHANGED <<flagVars, tokenVars, silent, callVars, stop, relayVars, netVars, faults>>

\* Fault: the flags are left as they are.
CleanedKeepsFlags ==
  /\ pc = "cleaning"
  /\ pc' = "leaving"
  /\ ws' = FALSE
  /\ CancelCalls
  /\ UNCHANGED <<raised, running, connected, authenticated, tokenVars, watchVars, stop,
                 relayVars, netVars, faults>>

Cleaned ==
  /\ pc = "cleaning"
  /\ pc' = "leaving"
  /\ ClearFlags
  /\ ws' = FALSE
  /\ CancelCalls
  /\ UNCHANGED <<raised, running, tokenVars, watchVars, stop, relayVars, netVars, faults>>

\* `async with` has closed the socket.
Left ==
  /\ pc = "leaving"
  /\ wire' = "none" /\ inbox' = <<>> /\ outbox' = <<>>
  /\ IF raised THEN Retry
     ELSE /\ pc' = IF running THEN "opening" ELSE "ended"
          /\ UNCHANGED <<connected, authenticated>>
  /\ UNCHANGED <<raised, running, ws, tokenVars, watchVars, callVars, stop, relayVars, faults>>

\* Fault: the heartbeat task only counts.
NeverCloses == FALSE /\ UNCHANGED vars

\* The heartbeat task finds the relay silent and closes the socket, or its own
\* heartbeat cannot be sent; either way it ends.
WatchEnds ==
  /\ watching
  /\ \/ silent /\ wire' = (IF ws /\ Up THEN "reset" ELSE wire)
     \/ ~Up /\ UNCHANGED wire
  /\ watching' = FALSE
  /\ UNCHANGED <<taskVars, flagVars, tokenVars, silent, callVars, stop, relayVars,
                 inbox, outbox, faults>>

-----------------------------------------------------------------------------
(* wait_for_service_response                                               *)

CallSent(c) ==
  /\ call[c] = "new"
  /\ Ready /\ ws
  /\ Write(Msg("call", c))
  /\ call' = [call EXCEPT ![c] = "sent"]
  /\ UNCHANGED <<taskVars, flagVars, tokenVars, watchVars, pending, stop, relayVars,
                 wire, inbox, faults>>

CallWaits(c) ==
  /\ call[c] = "sent"
  /\ call' = [call EXCEPT ![c] = "waiting"]
  /\ pending' = pending \cup {c}
  /\ UNCHANGED <<taskVars, flagVars, tokenVars, watchVars, stop, relayVars, netVars, faults>>

\* wait_for fires, even when the future is done and the caller not yet resumed.
CallTimesOut(c) ==
  /\ call[c] \in {"waiting", "answered", "aborted"}
  /\ call' = [call EXCEPT ![c] = "none"]
  /\ pending' = pending \ {c}
  /\ UNCHANGED <<taskVars, flagVars, tokenVars, watchVars, stop, relayVars, netVars, faults>>

CallReturns(c) ==
  /\ call[c] \in {"answered", "aborted"}
  /\ call' = [call EXCEPT ![c] = IF @ = "answered" THEN "told" ELSE "none"]
  /\ pending' = pending \ {c}
  /\ UNCHANGED <<taskVars, flagVars, tokenVars, watchVars, stop, relayVars, netVars, faults>>

-----------------------------------------------------------------------------
(* disconnect(), and the cancellation of the task by Synork.stop()         *)

\* The end of disconnect(); without a suspension stop() cancels the task.
Disconnected ==
  /\ stop' = "cancelling"
  /\ ClearFlags
  /\ ws' = FALSE
  /\ CancelCalls

\* Fault: _running is not cleared.
DisconnectBeginsRunning ==
  /\ stop = "no"
  /\ watching' = FALSE
  /\ IF ws /\ wire # "none"
     THEN /\ stop' = "closing"
          /\ wire' = IF Up THEN "clean" ELSE wire
          /\ UNCHANGED <<connected, authenticated, ws, callVars>>
     ELSE Disconnected /\ UNCHANGED wire
  /\ UNCHANGED <<taskVars, running, tokenVars, silent, relayVars, inbox, outbox, faults>>

\* Disconnect is sent and the heartbeat task cancelled; the close of a socket
\* is awaited.
DisconnectBegins ==
  /\ stop = "no"
  /\ running' = FALSE
  /\ watching' = FALSE
  /\ IF ws /\ wire # "none"
     THEN /\ stop' = "closing"
          /\ wire' = IF Up THEN "clean" ELSE wire
          /\ UNCHANGED <<connected, authenticated, ws, callVars>>
     ELSE Disconnected /\ UNCHANGED wire
  /\ UNCHANGED <<taskVars, tokenVars, silent, relayVars, inbox, outbox, faults>>

DisconnectEnds ==
  /\ stop = "closing"
  /\ Disconnected
  /\ UNCHANGED <<taskVars, running, tokenVars, watchVars, relayVars, netVars, faults>>

\* CancelledError is what the task sees next: connect() breaks, past the
\* `finally` of a message loop.  Where the task awaits the heartbeat task the
\* error is swallowed, and only _running ends the loop.
Cancelled ==
  /\ stop = "cancelling"
  /\ pc # "ended"
  /\ IF pc = "cleaning"
     THEN stop' = "swallowed" /\ UNCHANGED <<pc, flagVars, watching, callVars, netVars>>
     ELSE /\ pc' = "ended"
          /\ wire' = "none" /\ inbox' = <<>> /\ outbox' = <<>>
          /\ UNCHANGED <<stop, running>>
          /\ IF pc \in {"serving", "handling"}
             THEN watching' = FALSE /\ ClearFlags /\ ws' = FALSE /\ CancelCalls
             ELSE UNCHANGED <<watching, connected, authenticated, ws, callVars>>
  /\ UNCHANGED <<raised, tokenVars, silent, relayVars, faults>>

-----------------------------------------------------------------------------
(* The relay, the network and time.                                        *)

Reply(m) == inbox' = Append(inbox, m)

\* RelayWelcome with a new session token.
Welcome ==
  /\ issued < MaxTokens
  /\ issued' = issued + 1
  /\ session' = issued + 1
  /\ welcomed' = TRUE
  /\ Reply(Msg("welcome", issued + 1))

RelayReads ==
  /\ wire = "open"
  /\ outbox # <<>>
  /\ outbox' = Tail(outbox)
  /\ LET m == Head(outbox) IN
     \/ /\ m.kind = "signature" \/ (m.kind = "reconnect" /\ m.n = session /\ session # 0)
        /\ Welcome
     \/ /\ m.kind = "reconnect" /\ (m.n # session \/ session = 0)
        /\ Reply(Msg("error", 0)) /\ UNCHANGED relayVars
     \/ m.kind = "hello" /\ Reply(Msg("challenge", 0)) /\ UNCHANGED relayVars
     \/ m.kind = "call" /\ Reply(Msg("answer", m.n)) /\ UNCHANGED relayVars
  /\ UNCHANGED <<taskVars, flagVars, tokenVars, watchVars, callVars, stop, wire, faults>>

\* Heartbeats, requests, AUTH_EXPIRED, at any time after the welcome.
RelaySays ==
  /\ wire = "open"
  /\ welcomed
  /\ Len(inbox) < MaxInbox
  /\ \/ \E kind \in {"beat", "request"} : Reply(Msg(kind, 0)) /\ UNCHANGED <<session, faults>>
     \/ Reply(Msg("error", 0)) /\ session' = 0 /\ Fault
  /\ UNCHANGED <<taskVars, flagVars, tokenVars, watchVars, callVars, stop, welcomed, issued,
                 wire, outbox>>

\* The relay restarts: no session survives.
RelayForgets ==
  /\ session # 0
  /\ session' = 0
  /\ Fault
  /\ UNCHANGED <<taskVars, flagVars, tokenVars, watchVars, callVars, stop, welcomed, issued, netVars>>

ConnectionLost ==
  /\ \/ wire = "open" /\ wire' \in {"clean", "reset", "dead"} /\ Fault
     \/ wire = "dead" /\ wire' = "reset" /\ UNCHANGED faults
  /\ UNCHANGED <<taskVars, flagVars, tokenVars, watchVars, callVars, stop, relayVars, inbox, outbox>>

\* Ninety seconds without a heartbeat that was read: the connection is dead,
\* or the relay or a handler that runs inline was slow.
Silence ==
  /\ watching /\ ~silent
  /\ silent' = TRUE
  /\ TimesOut
  /\ UNCHANGED <<taskVars, flagVars, tokenVars, watching, callVars, stop, relayVars, netVars>>

-----------------------------------------------------------------------------
Connect ==
  /\ stop # "cancelling"
  /\ \/ Opened \/ OpenFails \/ SleepOver
     \/ Resumed \/ ResumeFails \/ Challenged \/ Welcomed \/ AuthFails \/ HandshakeBreaks
     \/ Serve \/ Beat \/ Expired \/ Answered \/ Handle \/ ServeEnds \/ Cleaned \/ Left

Call(c) == CallSent(c) \/ CallWaits(c) \/ CallTimesOut(c) \/ CallReturns(c)
Disconnect == DisconnectBegins \/ DisconnectEnds \/ Cancelled
Environment == RelayReads \/ RelaySays \/ RelayForgets \/ ConnectionLost \/ Silence

Next == Connect \/ WatchEnds \/ (\E c \in Calls : Call(c)) \/ Disconnect \/ Environment

\* The loop runs what can go on, an awaited socket or timer fires, a dead
\* connection stays silent, and the relay answers what it reads.  Nothing is
\* asked of faults, of callers, or of stop() before it was called.
Fairness ==
  /\ WF_vars(Connect /\ pc' # pc)
  /\ WF_vars(Beat \/ Expired \/ Answered)
  /\ WF_vars(WatchEnds)
  /\ WF_vars(Silence /\ wire = "dead")
  /\ WF_vars(RelayReads)
  /\ WF_vars(DisconnectEnds \/ Cancelled)

Spec == Init /\ [][Next]_vars
FairSpec == Spec /\ Fairness

-----------------------------------------------------------------------------
(* What the client promises.                                               *)

\* `connected` is what every sender asks before it sends: it is true only for
\* a socket on which the relay has sent its welcome, never left over from an
\* earlier connection, whatever disconnect() and the cancellation interrupt.
ReadyIsWelcomed == Ready => welcomed /\ wire # "none"

\* Through answers, time-outs, lost connections and disconnect(), exactly the
\* calls that wait have an entry: no answer misses a waiting call, and no
\* entry is left behind by a call that is over.
WaitingIsPending == pending = {c \in Calls : call[c] = "waiting"}

\* The heartbeat task acts on _ws, whatever socket that is: no heartbeat task
\* survives its connection to close the next one.
WatchHasConnection == watching => pc \in {"serving", "handling"}

\* stop() never waits for ever: the task ends although one cancellation of it
\* may be swallowed.
StopEnds == stop # "no" ~> pc = "ended"

\* After the last fault the client is connected again to a relay that hears it,
\* unless it was stopped.
ComesBack == [](stop = "no") => []<>(Ready /\ wire = "open")
=============================================================================
