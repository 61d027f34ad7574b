------------------------- MODULE MCThreadCredentials -------------------------
(***************************************************************************)
(* The instance of ThreadCredentials that TLC checks.                      *)
(***************************************************************************)
EXTENDS ThreadCredentials, TLC

Symmetry == Permutations(Satellites)

\* What makes a behaviour long: a fault, the fourth offer, which a re-keying
\* needs to go through both satellites after their admissions, a report.
Faulty == faults > 0
Fourth == \E o \in Offers : o > 3 /\ offer[o] # "free"
Reported == \E s \in Satellites : \E i \in DOMAIN toHub[s] : toHub[s][i].kind = "status"

\* Bound: they are explored one at a time.
OneTrouble == ~(Faulty /\ Fourth) /\ ~(Faulty /\ Reported) /\ ~(Fourth /\ Reported)
=============================================================================
