------------------------------ MODULE MCServices ------------------------------
(***************************************************************************)
(* The components around the walkthrough core for TLC, in one run: a       *)
(* behaviour follows one of them, which is chosen at the start, and the    *)
(* others stay as they begin.  They share nothing but the processes of the *)
(* lock and the pool, so a run explores each of them as a run of its own   *)
(* would.                                                                  *)
(***************************************************************************)
EXTENDS FileLock, WorkspacePool, CodeWorkspaces, WalkthroughSession, DurableCommands,
        SnapshotAcquisition, RepositoryWatcher, ViewedFiles, ReviewRuns, SnapshotBlocks, TLC

CONSTANTS
  Parts,                                \* components the run explores
  p1, p2, p3, a1, a2, a3, t1, t2, t3,   \* processes, lock attempts, turns of the pool
  repo1, repo2, o1, o2, o3, u1,         \* repositories, opens of a workspace, a use
  k1, x1, x2, q1, q2, q3,               \* a command, its calls, requests for a snapshot
  pa, pb, f1, f2, w1, w2, w3            \* projects, viewed files, writers of a block

VARIABLE part

\* The third process gets the number of the first, which may die; two of the three lock
\* attempts are of one process.
HomeOf == [a \in Attempts |-> IF a = a1 THEN p1 ELSE p2]
PidOf == [p \in Processes |-> IF p = p2 THEN 2 ELSE 1]

\* Two turns are for one repository, two are of one process.
TurnProcessOf == [t \in Turns |-> IF t = t1 THEN p1 ELSE p2]
TurnRepositoryOf == [t \in Turns |-> IF t = t2 THEN repo2 ELSE repo1]

\* All opens share a key, all calls a command, all requests a review.
OneKey == [o \in Opens |-> 1]
FirstLease == u1 :> o1
OneCommand == [x \in Calls |-> k1]
OneReview == [q \in Requests |-> 1]

ServicesInit ==
  /\ part \in Parts
  /\ LifeInit /\ LockInit /\ PoolInit /\ WorkspaceInit /\ SessionInit
  /\ ReplayInit /\ CommandInit /\ AcquisitionInit /\ WatcherInit
  /\ RunsInit /\ BlocksInit
  /\ IF part = "viewed files" THEN ViewedInit
     ELSE ViewedInit /\ stored = [f \in ViewedKeys |-> FALSE]

FollowLock ==
  /\ part = "file lock" /\ LockNext
  /\ UNCHANGED <<poolVars, cwVars, sessionVars, deliveryVars, acquisitionVars, watcherVars,
                 viewedVars, runVars, blockVars>>
FollowPool ==
  /\ part = "pool" /\ PoolNext
  /\ UNCHANGED <<lockVars, cwVars, sessionVars, deliveryVars, acquisitionVars, watcherVars,
                 viewedVars, runVars, blockVars>>
FollowWorkspaces ==
  /\ part = "code workspaces" /\ WorkspaceNext
  /\ UNCHANGED <<lockState, poolVars, sessionVars, deliveryVars, acquisitionVars, watcherVars,
                 viewedVars, runVars, blockVars>>
FollowSession ==
  /\ part = "session" /\ SessionNext
  /\ UNCHANGED <<lockState, poolVars, cwVars, deliveryVars, acquisitionVars, watcherVars,
                 viewedVars, runVars, blockVars>>
FollowDelivery ==
  /\ part = "delivery" /\ CommandNext
  /\ UNCHANGED <<lockState, poolVars, cwVars, sessionVars, acquisitionVars, watcherVars,
                 viewedVars, runVars, blockVars>>
FollowAcquisition ==
  /\ part = "acquisition" /\ AcquisitionNext
  /\ UNCHANGED <<lockState, poolVars, cwVars, sessionVars, deliveryVars, watcherVars,
                 viewedVars, runVars, blockVars>>
FollowWatcher ==
  /\ part = "watcher" /\ WatcherNext
  /\ UNCHANGED <<lockState, poolVars, cwVars, sessionVars, deliveryVars, acquisitionVars,
                 viewedVars, runVars, blockVars>>
FollowViewed ==
  /\ part = "viewed files" /\ ViewedNext
  /\ UNCHANGED <<lockState, poolVars, cwVars, sessionVars, deliveryVars, acquisitionVars,
                 watcherVars, runVars, blockVars>>
FollowRuns ==
  /\ part = "review runs" /\ RunsNext
  /\ UNCHANGED <<lockState, poolVars, cwVars, sessionVars, deliveryVars, acquisitionVars,
                 watcherVars, viewedVars, blockVars>>
FollowBlocks ==
  /\ part = "snapshot blocks" /\ BlocksNext
  /\ UNCHANGED <<lockState, poolVars, cwVars, sessionVars, deliveryVars, acquisitionVars,
                 watcherVars, viewedVars, runVars>>

ServicesNext ==
  /\ UNCHANGED part
  /\ \/ FollowLock \/ FollowPool \/ FollowWorkspaces \/ FollowSession
     \/ FollowDelivery \/ FollowAcquisition \/ FollowWatcher \/ FollowViewed
     \/ FollowRuns \/ FollowBlocks

servicesVars == <<part, lockState, poolVars, cwVars, sessionVars, deliveryVars, acquisitionVars,
                  watcherVars, viewedVars, runVars, blockVars>>

ServicesSpec == ServicesInit /\ [][ServicesNext]_servicesVars

\* In its initial states no component is owed a step, so fairness speaks of the one that is
\* followed.
CoreProgress ==
  /\ ServicesSpec
  /\ LockFairness /\ WorkspaceFairness /\ AcquisitionFairness /\ WatcherFairness

DeliveryProgress ==
  /\ ServicesSpec
  /\ SessionFairness /\ ReplayFairness /\ CommandFairness /\ RunsFairness

\* Every variable of every component has its type.
ServicesTypeOK ==
  /\ LifeTypeOK /\ LockTypeOK /\ PoolTypeOK /\ WorkspaceTypeOK /\ SessionTypeOK
  /\ ReplayTypeOK /\ CommandTypeOK /\ AcquisitionTypeOK /\ WatcherTypeOK /\ ViewedTypeOK
  /\ RunsTypeOK /\ BlocksTypeOK
=============================================================================
