----------------------------- MODULE Household ------------------------------
(***************************************************************************)
(* What the pairing of satellites promises, without connections, sessions, *)
(* time-outs, databases and restarts: satellites ask, the owner answers,   *)
(* and an approved request that is still open admits its satellite once.   *)
(* SatelliteBroker implements this specification.                          *)
(***************************************************************************)
EXTENDS Naturals

CONSTANTS Satellites, Nobody, MaxRequests

VARIABLES
  member,     \* the request that admitted each satellite, 0 for none
  created,    \* requests made so far
  claimant,   \* who made each of them
  open,       \* requests that can still admit their satellite
  verdicts    \* what the owner answered

vars == <<member, created, claimant, open, verdicts>>

Init ==
  /\ member = [s \in Satellites |-> 0]
  /\ created = 0
  /\ claimant = [r \in 1 .. MaxRequests |-> Nobody]
  /\ open = {}
  /\ verdicts = [r \in 1 .. MaxRequests |-> {}]

\* A satellite that is no member asks to become one.
Ask(s) ==
  /\ member[s] = 0
  /\ created < MaxRequests
  /\ created' = created + 1
  /\ claimant' = [claimant EXCEPT ![created + 1] = s]
  /\ open' = open \cup {created + 1}
  /\ UNCHANGED <<member, verdicts>>

\* The owner answers, perhaps too late or more than once.
Answer(r, verdict) ==
  /\ r <= created
  /\ verdicts' = [verdicts EXCEPT ![r] = @ \cup {verdict}]
  /\ UNCHANGED <<member, created, claimant, open>>

\* An open request of s that was approved makes s a member and is used up.
Join(s, r) ==
  /\ member[s] = 0
  /\ r \in open
  /\ claimant[r] = s
  /\ "approve" \in verdicts[r]
  /\ member' = [member EXCEPT ![s] = r]
  /\ open' = open \ {r}
  /\ UNCHANGED <<created, claimant, verdicts>>

\* Requests are refused, time out or are lost; no request opens again.
Close ==
  /\ open' \in SUBSET open
  /\ UNCHANGED <<member, created, claimant, verdicts>>

Leave(s) ==
  /\ member' = [member EXCEPT ![s] = 0]
  /\ UNCHANGED <<created, claimant, open, verdicts>>

Next ==
  \/ \E s \in Satellites : Ask(s) \/ Leave(s)
  \/ \E r \in 1 .. MaxRequests, verdict \in {"approve", "reject"} : Answer(r, verdict)
  \/ \E s \in Satellites, r \in 1 .. MaxRequests : Join(s, r)
  \/ Close

Spec == Init /\ [][Next]_vars
=============================================================================
