-------------------------- MODULE SelfUpdateProofs --------------------------
(***************************************************************************)
(* Proofs about SelfUpdate, for every set of branches, every number of     *)
(* commits and of faults.                                                  *)
(***************************************************************************)
EXTENDS SelfUpdate, TLAPS

USE UpdateAssumption DEF UpdateAssumption, Commits, remoteVars, treeVars, runVars

\* What the tree holds at each step of the bootloader: the code about to be
\* executed has no stamp, because a new clone has none and a cleaned tree has
\* lost it, so its requirements are installed before it runs.
UpdateInv ==
  /\ tree = "cloned" => fetched # 0
  /\ pc \in {"reset", "clean", "exec"} => tree = "cloned"
  /\ pc = "exec" => stamp = 0

\* No step of the bootloader, the poll or the world breaks any of the three.
LEMMA UpdateStep ==
  ASSUME TypeOK, UpdateInv, LiveHasRequirements, [Next]_vars
  PROVE  TypeOK' /\ UpdateInv' /\ LiveHasRequirements'
<1> USE DEF TypeOK, UpdateInv, LiveHasRequirements
<1>1. CASE Boot
  BY <1>1 DEF Boot
<1>2. CASE Clone
  BY <1>2 DEF Clone
<1>3. CASE Fetch
  BY <1>3 DEF Fetch
<1>4. CASE UpdateFails
  BY <1>4 DEF UpdateFails, FallBack
<1>5. CASE Reset
  BY <1>5 DEF Reset, NewHead, FallBack
<1>6. CASE Clean
  BY <1>6 DEF Clean, CleanedStamp
<1>7. CASE Exec
  BY <1>7 DEF Exec
<1>8. CASE Poll
  BY <1>8 DEF Poll
<1>9. CASE Release
  BY <1>9 DEF Release
<1>10. CASE NetworkChanges
  BY <1>10 DEF NetworkChanges, Fault
<1>11. CASE TimesOut
  BY <1>11 DEF TimesOut, Fault, FallBack
<1>12. CASE Restart
  BY <1>12 DEF Restart, Fault
<1>13. CASE UNCHANGED vars
  BY <1>13 DEF vars
<1>14. QED
  BY <1>1, <1>2, <1>3, <1>4, <1>5, <1>6, <1>7, <1>8, <1>9, <1>10, <1>11, <1>12, <1>13
  DEF Next

LEMMA UpdateInvariant == Spec => [](TypeOK /\ UpdateInv /\ LiveHasRequirements)
<1>1. Init => TypeOK /\ UpdateInv /\ LiveHasRequirements
  <2> SUFFICES ASSUME Init PROVE TypeOK /\ UpdateInv /\ LiveHasRequirements
    OBVIOUS
  <2>1. {online, pipFailed} \subseteq BOOLEAN
    BY DEF Init
  <2>2. QED
    BY <2>1 DEF Init, TypeOK, UpdateInv, LiveHasRequirements
<1>2. QED
  BY <1>1, UpdateStep, PTL DEF Spec

\* The tree is absent, broken or a clone with a head, and what runs live is the
\* head of a clone.
THEOREM UpdateTypeCorrect == Spec => []TypeOK
  BY UpdateInvariant, PTL

\* Whatever is killed between fetch, reset, clean and installation, and whatever
\* image, commit or channel comes next: live code runs with the requirements of
\* its own commit unless pip has failed.
THEOREM RequirementsCorrect == Spec => []LiveHasRequirements
  BY UpdateInvariant, PTL
=============================================================================
