-------------------------- MODULE AssistantClient ---------------------------
(***************************************************************************)
(* AssistantClient (synork_home/src/assistant_client.py): the satellite's  *)
(* end of its connection to the Hub.  The loop of connect() opens a        *)
(* WebSocket, resumes its session or authenticates, saves its              *)
(* configuration, serves messages until the connection ends, and starts    *)
(* again.                                                                  *)
(*                                                                         *)
(* The module is instantiated by SatelliteLink.  A WebSocket is named by   *)
(* the Hub's handler at its other end; `wire` is its state, `up` and `down`*)
(* hold the messages under way.  The client always has exactly one reader  *)
(* of its socket, so an action is what it does with one event.             *)
(***************************************************************************)
EXTENDS Naturals, Sequences

CONSTANTS
  Satellites, Handlers, NoHandler,
  EmptyHash      \* the hash of the empty string

VARIABLES
  mode,      \* where connect() is suspended; "off": no process
  link,      \* the socket of `async with`, _ws
  retried,   \* _reconnect_attempt > 0
  held,      \* _session_token, 0 for none
  known,     \* _device_secret, 0 for the empty string
  stored,    \* device_secret in the satellite's files, 0 for none
  cut,       \* satellites whose connection is dead, without notice
  wire, up, down

(* "opening": opens the socket, or sleeps before it does;  "resuming": has  *)
(* sent SatelliteReconnect;  "greeting": has sent AssistantHello;           *)
(* "signing": has sent the HMAC answer;  "saving": the secret file is       *)
(* truncated and not yet written;  "serving": message loop.                 *)
Modes == {"off", "opening", "resuming", "greeting", "signing", "saving", "serving"}

Enter(s, m) == mode' = [mode EXCEPT ![s] = m]

\* What is written to a socket that is not open is lost.
Send(h, msg) == up' = IF wire[h] = "open" THEN [up EXCEPT ![h] = Append(@, msg)] ELSE up

\* The hash is always there: with no secret it is that of the empty string.
Hello(s) == [kind |-> "hello", sat |-> s, hash |-> IF known[s] = 0 THEN EmptyHash ELSE known[s]]
Reconnect(s) == [kind |-> "reconnect", sat |-> s, token |-> held[s]]
Signature(s) == [kind |-> "signature", sat |-> s]

\* The next message from the Hub is read; it was sent before the socket closed.
Arrives(s, kinds) ==
  LET h == link[s] IN
  /\ s \notin cut
  /\ down[h] # <<>>
  /\ Head(down[h]).kind \in kinds
  /\ down' = [down EXCEPT ![h] = Tail(@)]

\* Fault: the socket is not closed when authentication fails.
LetGoOpen(s) ==
  /\ Enter(s, "opening")
  /\ link' = [link EXCEPT ![s] = NoHandler]
  /\ cut' = cut \ {s}
  /\ UNCHANGED wire

\* `async with` closes the socket; a dead one tells the Hub nothing.
LetGo(s) ==
  /\ Enter(s, "opening")
  /\ link' = [link EXCEPT ![s] = NoHandler]
  /\ cut' = cut \ {s}
  /\ wire' = [wire EXCEPT ![link[s]] = IF @ = "open" THEN "closed" ELSE @]

\* Fault: a session is resumed that may not exist.
OpenedUnchecked(s, h) ==
  /\ mode[s] = "opening"
  /\ Enter(s, IF retried[s] THEN "resuming" ELSE "greeting")
  /\ link' = [link EXCEPT ![s] = h]
  /\ up' = [up EXCEPT ![h] = << IF retried[s] THEN Reconnect(s) ELSE Hello(s) >>]
  /\ down' = [down EXCEPT ![h] = <<>>]
  /\ UNCHANGED <<cut, retried, held, known, stored>>

\* Connected: resume a session after a failure, otherwise authenticate.
Opened(s, h) ==
  LET resumes == held[s] # 0 /\ retried[s] IN
  /\ mode[s] = "opening"
  /\ Enter(s, IF resumes THEN "resuming" ELSE "greeting")
  /\ link' = [link EXCEPT ![s] = h]
  /\ up' = [up EXCEPT ![h] = << IF resumes THEN Reconnect(s) ELSE Hello(s) >>]
  /\ down' = [down EXCEPT ![h] = <<>>]
  /\ UNCHANGED <<cut, retried, held, known, stored>>

\* The Hub cannot be reached; the next attempt comes after the backoff.
OpenFails(s) ==
  /\ mode[s] = "opening"
  /\ retried' = [retried EXCEPT ![s] = TRUE]
  /\ UNCHANGED <<cut, mode, link, held, known, stored, wire, up, down>>

\* No session: authenticate on the same socket.  The token is kept.
GreetInstead(s) ==
  /\ mode[s] = "resuming"
  /\ Enter(s, "greeting")
  /\ Send(link[s], Hello(s))
  /\ UNCHANGED <<cut, link, retried, held, known, stored, wire>>

ResumeDenied(s) ==
  /\ GreetInstead(s)
  /\ Arrives(s, {"expired", "failed", "challenge"})

ResumeTimesOut(s) == GreetInstead(s) /\ UNCHANGED down

\* HubChallenge is answered.
Sign(s) ==
  /\ mode[s] = "greeting"
  /\ Arrives(s, {"challenge"})
  /\ Enter(s, "signing")
  /\ Send(link[s], Signature(s))
  /\ UNCHANGED <<cut, link, retried, held, known, stored, wire>>

\* Fault: a resumed session keeps its old token.
WelcomedKeepsToken(s) ==
  LET h == link[s] IN
  /\ mode[s] \in {"resuming", "signing"}
  /\ Arrives(s, {"welcome"})
  /\ held' = [held EXCEPT ![s] = IF mode[s] = "resuming" THEN @ ELSE Head(down[h]).token]
  /\ Enter(s, "saving")
  /\ retried' = [retried EXCEPT ![s] = FALSE]
  /\ stored' = [stored EXCEPT ![s] = 0]
  /\ UNCHANGED <<cut, link, known, wire, up>>

\* HubWelcome: authenticated or resumed.  The files are opened for writing.
Welcomed(s) ==
  LET h == link[s] IN
  /\ mode[s] \in {"resuming", "signing"}
  /\ Arrives(s, {"welcome"})
  /\ held' = [held EXCEPT ![s] = Head(down[h]).token]
  /\ Enter(s, "saving")
  /\ retried' = [retried EXCEPT ![s] = FALSE]
  /\ stored' = [stored EXCEPT ![s] = 0]
  /\ UNCHANGED <<cut, link, known, wire, up>>

Saved(s) ==
  /\ mode[s] = "saving"
  /\ Enter(s, "serving")
  /\ stored' = [stored EXCEPT ![s] = known[s]]
  /\ UNCHANGED <<cut, link, retried, held, known, wire, up, down>>

\* _authenticate returns False: another attempt at once, without backoff.
Refused(s) ==
  /\ \/ mode[s] = "greeting" /\ Arrives(s, {"failed", "expired", "welcome"})
     \/ mode[s] = "signing" /\ Arrives(s, {"failed", "expired", "challenge"})
  /\ LetGo(s)
  /\ UNCHANGED <<retried, held, known, stored, up>>

\* Fault: after the time-out the answer is awaited again.
AuthWaitsAgain(s) ==
  /\ mode[s] \in {"greeting", "signing"}
  /\ UNCHANGED <<mode, link, cut, retried, held, known, stored, wire, up, down>>

\* HubChallenge or HubWelcome does not come in ten seconds.
AuthTimesOut(s) ==
  /\ mode[s] \in {"greeting", "signing"}
  /\ LetGo(s)
  /\ UNCHANGED <<retried, held, known, stored, up, down>>

\* ConnectionClosed out of the handshake: an exception, so the next is a retry.
Lost(s) ==
  /\ mode[s] \in {"resuming", "greeting", "signing"}
  /\ s \notin cut
  /\ wire[link[s]] = "closed"
  /\ down[link[s]] = <<>>
  /\ LetGo(s)
  /\ retried' = [retried EXCEPT ![s] = TRUE]
  /\ UNCHANGED <<held, known, stored, up, down>>

\* The message loop ends: without an exception after a close handshake, with
\* one after a reset.
ServiceEnds(s) ==
  /\ mode[s] = "serving"
  /\ s \notin cut
  /\ wire[link[s]] = "closed"
  /\ LetGo(s)
  /\ \E failed \in BOOLEAN : retried' = [retried EXCEPT ![s] = failed]
  /\ UNCHANGED <<held, known, stored, up, down>>

\* No HubHeartbeatAck for three intervals: the heartbeat loop closes the
\* socket, the close handshake is not answered, the message loop raises.
HubSilent(s) ==
  /\ mode[s] = "serving"
  /\ s \in cut
  /\ LetGo(s)
  /\ retried' = [retried EXCEPT ![s] = TRUE]
  /\ UNCHANGED <<held, known, stored, up, down>>

\* The satellite loses power, or its process ends.
PowerOff(s) ==
  /\ mode[s] # "off"
  /\ Enter(s, "off")
  /\ link' = [link EXCEPT ![s] = NoHandler]
  /\ cut' = cut \ {s}
  /\ \E end \in {"dead", "closed"} :
       wire' = [h \in Handlers |-> IF h = link[s] /\ wire[h] = "open" THEN end ELSE wire[h]]
  /\ UNCHANGED <<retried, held, known, stored, up, down>>

\* _setup_hub_connection builds the client from the files; without a secret in
\* them, with an empty one, once it has found the Hub.
PowerOn(s) ==
  /\ mode[s] = "off"
  /\ Enter(s, "opening")
  /\ known' = [known EXCEPT ![s] = stored[s]]
  /\ held' = [held EXCEPT ![s] = 0]
  /\ retried' = [retried EXCEPT ![s] = FALSE]
  /\ UNCHANGED <<cut, link, stored, wire, up, down>>
=============================================================================
