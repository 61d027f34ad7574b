----------------------------- MODULE SelfUpdate -----------------------------
(***************************************************************************)
(* The self-update of the add-on: bootloader.py brings the tree under      *)
(* /data/synork/app to the tip of the branch of the configured channel and *)
(* executes it, or else the baseline baked into the image; updater.py, in  *)
(* whichever of the two runs, polls and restarts the container.            *)
(*                                                                         *)
(* Commits are numbered; 0 is none.  Each has requirements of its own.     *)
(* git and pip are external, and modelled by what the calls made here can  *)
(* leave behind: a clone of one branch has a reference to that branch only.*)
(***************************************************************************)
EXTENDS Naturals

CONSTANTS
  Branches,
  MaxCommit,     \* bound: commits
  MaxFaults      \* bound: kills, time-outs, network changes, rebuilds, channel switches

ASSUME UpdateAssumption ==
  MaxCommit \in Nat \ {0} /\ MaxFaults \in Nat /\ Branches # {}

Commits == 0 .. MaxCommit

VARIABLES
  tips,       \* the tip of each branch at the remote
  channel,    \* the branch of SYNORK_UPDATE_CHANNEL
  online,     \* the remote can be reached
  tree,       \* LIVE: "absent", "broken", "cloned"
  followed,   \* the branch the clone has a reference to
  fetched,    \* that reference
  head,       \* HEAD of LIVE
  stamp,      \* LIVE/.req.sha256: the commit whose requirements were installed
  installed,  \* the commit whose requirements the container has
  pc,         \* bootloader and add-on
  loaded,     \* the commit that runs, 0 is the baseline
  pipFailed,  \* the last installation failed
  faults

remoteVars == <<tips, channel, online>>
treeVars == <<tree, followed, fetched, head, stamp>>
runVars == <<loaded, installed, pipFailed>>
vars == <<remoteVars, treeVars, pc, runVars, faults>>

\* The type invariant; what runs live is the head of a proper clone.
TypeOK ==
  /\ tips \in [Branches -> 1 .. MaxCommit]
  /\ {channel, followed} \subseteq Branches
  /\ {online, pipFailed} \subseteq BOOLEAN
  /\ tree \in {"absent", "broken", "cloned"}
  /\ {fetched, head, stamp, installed, loaded} \subseteq Commits
  /\ pc \in {"off", "update", "reset", "clean", "exec", "live", "baseline"}
  /\ tree = "cloned" <=> head # 0
  /\ pc = "live" => tree = "cloned" /\ loaded = head

Init ==
  /\ tips = [b \in Branches |-> 1]
  /\ channel \in Branches /\ followed = channel
  /\ online \in BOOLEAN
  /\ tree = "absent" /\ fetched = 0 /\ head = 0 /\ stamp = 0
  /\ installed = 0 /\ loaded = 0 /\ pipFailed = FALSE
  /\ pc = "off" /\ faults = 0

-----------------------------------------------------------------------------
(* The bootloader.                                                         *)

Boot ==
  /\ pc = "off"
  /\ pc' = "update"
  /\ UNCHANGED <<remoteVars, treeVars, runVars, faults>>

\* _exec_baseline: what is there of the tree is left as it is.
FallBack == pc' = "baseline" /\ loaded' = 0

\* _try_update without a repository: what is there is removed, the branch of
\* the channel is cloned, and that branch alone.
Clone ==
  /\ pc = "update" /\ tree = "absent" /\ online
  /\ tree' = "cloned" /\ followed' = channel
  /\ fetched' = tips[channel] /\ head' = tips[channel] /\ stamp' = 0
  /\ pc' = "exec"
  /\ UNCHANGED <<remoteVars, runVars, faults>>

\* A repository, be it whole or not, is fetched into.  The branch of another
\* channel is fetched too, but no reference to it is made.
Fetch ==
  /\ pc = "update" /\ tree = "cloned" /\ online
  /\ fetched' = IF followed = channel THEN tips[channel] ELSE fetched
  /\ pc' = "reset"
  /\ UNCHANGED <<remoteVars, tree, followed, head, stamp, runVars, faults>>

\* What is there of a repository without a remote is of no use to git.
UpdateFails ==
  /\ pc = "update"
  /\ ~online \/ tree = "broken"
  /\ FallBack
  /\ UNCHANGED <<remoteVars, treeVars, installed, pipFailed, faults>>

\* Fault: the head is left where it is.
NewHeadOld == head

NewHead == fetched

\* reset --hard origin/BRANCH fails when there is no such reference.
Reset ==
  /\ pc = "reset"
  /\ IF followed = channel
     THEN head' = NewHead /\ pc' = "clean" /\ UNCHANGED loaded
     ELSE FallBack /\ UNCHANGED head
  /\ UNCHANGED <<remoteVars, tree, followed, fetched, stamp, installed, pipFailed, faults>>

\* Fault: the stamp is kept.
CleanedStampKept == stamp

\* clean -fd removes the stamp too, which git does not know.
CleanedStamp == 0

Clean ==
  /\ pc = "clean"
  /\ stamp' = CleanedStamp
  /\ pc' = "exec"
  /\ UNCHANGED <<remoteVars, tree, followed, fetched, head, runVars, faults>>

\* _exec_live: the requirements are installed unless the stamp says they are.
Exec ==
  /\ pc = "exec"
  /\ pc' = "live" /\ loaded' = head
  /\ \/ stamp = head /\ UNCHANGED <<stamp, installed, pipFailed>>
     \/ /\ stamp # head
        /\ stamp' = head /\ installed' = head /\ pipFailed' = FALSE
     \/ stamp # head /\ pipFailed' = TRUE /\ UNCHANGED <<stamp, installed>>
  /\ UNCHANGED <<remoteVars, tree, followed, fetched, head, faults>>

-----------------------------------------------------------------------------
(* The updater, in the live code or in the baseline.                       *)

\* _check_once: the head of the tree, whatever runs, is compared with the tip.
Poll ==
  /\ pc \in {"live", "baseline"}
  /\ online /\ tree = "cloned"
  /\ head # tips[channel]
  /\ pc' = "off"
  /\ UNCHANGED <<remoteVars, treeVars, runVars, faults>>

-----------------------------------------------------------------------------
(* The rest of the world.                                                  *)

Release ==
  \E b \in Branches :
    /\ tips[b] < MaxCommit
    /\ tips' = [tips EXCEPT ![b] = @ + 1]
    /\ UNCHANGED <<channel, online, treeVars, pc, runVars, faults>>

Fault == faults < MaxFaults /\ faults' = faults + 1

NetworkChanges ==
  /\ Fault
  /\ online' = ~online
  /\ UNCHANGED <<tips, channel, treeVars, pc, runVars>>

\* A git command is killed by its time-out: a clone stays as it got, and what
\* was reset is not cleaned.
TimesOut ==
  /\ pc \in {"update", "reset", "clean"}
  /\ Fault
  /\ tree' \in {tree} \cup (IF tree = "absent" THEN {"broken"} ELSE {})
  /\ FallBack
  /\ UNCHANGED <<remoteVars, followed, fetched, head, stamp, installed, pipFailed>>

\* The container is stopped; it may come back with another channel, or from a
\* new image, without what was installed.
Restart ==
  /\ pc # "off"
  /\ Fault
  /\ pc' = "off"
  /\ tree' \in {tree} \cup (IF tree = "absent" /\ pc = "update" THEN {"broken"} ELSE {})
  /\ channel' \in Branches
  /\ installed' \in {installed, 0}
  /\ UNCHANGED <<tips, online, followed, fetched, head, stamp, loaded, pipFailed>>

-----------------------------------------------------------------------------
Next ==
  \/ Boot \/ Clone \/ Fetch \/ UpdateFails \/ Reset \/ Clean \/ Exec \/ Poll
  \/ Release \/ NetworkChanges \/ TimesOut \/ Restart

Spec == Init /\ [][Next]_vars

\* The Supervisor restarts the container, the bootloader and the poll go on.
FairSpec ==
  /\ Spec
  /\ WF_vars(Boot) /\ WF_vars(Clone) /\ WF_vars(Fetch) /\ WF_vars(UpdateFails)
  /\ WF_vars(Reset) /\ WF_vars(Clean) /\ WF_vars(Exec) /\ WF_vars(Poll)

-----------------------------------------------------------------------------
(* What the self-update promises.                                          *)

\* Live code runs with the requirements of its own commit, across new images,
\* new commits and installations of earlier ones, unless pip has failed.
LiveHasRequirements == pc = "live" => installed = loaded \/ pipFailed

\* A Hub that comes back to live code again and again ends at the tip of its
\* channel, and is not restarted any more.
FollowsReleases ==
  <>[]online /\ []<>(pc = "live") => <>[](pc = "live" /\ loaded = tips[channel])
=============================================================================
