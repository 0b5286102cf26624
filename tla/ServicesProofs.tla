---------------------------- MODULE ServicesProofs ----------------------------
(***************************************************************************)
(* The components that the runs of MCServices explore are the components   *)
(* by themselves: every behaviour of the services is one of each, so that  *)
(* what is proved of a component holds where the runs check it.            *)
(***************************************************************************)
EXTENDS MCServices, HostedReviewProofs, DeliveryProofs, ClientProofs

LEMMA ServicesStart ==
  ServicesInit =>
    /\ LifeInit /\ LockInit /\ PoolInit /\ WorkspaceInit /\ SessionInit
    /\ ReplayInit /\ CommandInit /\ AcquisitionInit /\ WatcherInit /\ ViewedInit
    /\ RunsInit /\ BlocksInit
  BY Zenon DEF ServicesInit

\* The processes are the lock's and the pool's: one of them starts or dies for both.
LEMMA ProcessesAreShared ==
  ASSUME [ServicesNext]_servicesVars
  PROVE  [LockNext]_lockState /\ [PoolNext]_poolState
<1>1. CASE FollowLock
  <2>1. LockNext /\ UNCHANGED poolVars
    BY <1>1 DEF FollowLock
  <2>2. CASE LifeNext /\ UNCHANGED lockVars
    BY <2>1, <2>2 DEF PoolNext
  <2>3. CASE UNCHANGED life
    BY <2>1, <2>3 DEF poolState
  <2> QED BY <2>1, <2>2, <2>3 DEF LockNext
<1>2. CASE FollowPool
  <2>1. PoolNext /\ UNCHANGED lockVars
    BY <1>2 DEF FollowPool
  <2>2. CASE LifeNext /\ UNCHANGED poolVars
    BY <2>1, <2>2 DEF LockNext
  <2>3. CASE UNCHANGED life
    BY <2>1, <2>3 DEF lockState
  <2> QED BY <2>1, <2>2, <2>3 DEF PoolNext
<1>3. CASE ~FollowLock /\ ~FollowPool
  <2>1. UNCHANGED <<lockState, poolVars>>
    BY <1>3 DEF ServicesNext, servicesVars, FollowWorkspaces, FollowSession, FollowDelivery,
                FollowAcquisition, FollowWatcher, FollowViewed, FollowRuns, FollowBlocks
  <2> QED BY <2>1 DEF lockState, poolState
<1> QED BY <1>1, <1>2, <1>3

\* The others share nothing: a step is one component's and leaves the others as they are.
LEMMA OthersStandAlone ==
  ASSUME [ServicesNext]_servicesVars
  PROVE  /\ [WorkspaceNext]_cwVars /\ [SessionNext]_sessionVars /\ [CommandNext]_deliveryVars
         /\ [AcquisitionNext]_acquisitionVars /\ [WatcherNext]_watcherVars
         /\ [ViewedNext]_viewedVars /\ [RunsNext]_runVars /\ [BlocksNext]_blockVars
  BY DEF ServicesNext, servicesVars, FollowLock, FollowPool, FollowWorkspaces, FollowSession,
         FollowDelivery, FollowAcquisition, FollowWatcher, FollowViewed, FollowRuns, FollowBlocks

\* A behaviour of the services is a behaviour of each component, whichever it follows.
THEOREM ServicesAreComponents ==
  ServicesSpec =>
    /\ LockSpec /\ PoolSpec /\ WorkspaceSpec /\ SessionSpec /\ DeliverySpec
    /\ AcquisitionSpec /\ WatcherSpec /\ ViewedSpec /\ RunsSpec /\ BlocksSpec
  BY ServicesStart, ProcessesAreShared, OthersStandAlone, PTL
  DEF ServicesSpec, LockSpec, PoolSpec, WorkspaceSpec, SessionSpec, DeliverySpec,
      AcquisitionSpec, WatcherSpec, ViewedSpec, RunsSpec, BlocksSpec

\* Every component's variables have their types, for all values of its constants.
THEOREM ServicesAreTyped == ServicesSpec => []ServicesTypeOK
<1>1. DeliverySpec => [](ReplayTypeOK /\ CommandTypeOK)
  BY DeliveryIsTyped
<1>2. LockIInv /\ PoolIInv => LifeTypeOK /\ LockTypeOK /\ PoolTypeOK
  BY DEF LockIInv, PoolIInv
<1>3. WorkspaceIInv => WorkspaceTypeOK
  BY DEF WorkspaceIInv
<1>4. AcquisitionIInv /\ RunsIInv /\ BlocksIInv => AcquisitionTypeOK /\ RunsTypeOK /\ BlocksTypeOK
  BY DEF AcquisitionIInv, RunsIInv, BlocksIInv
<1>5. WatcherIInv /\ ViewedIInv => WatcherTypeOK /\ ViewedTypeOK
  BY DEF WatcherIInv, ViewedIInv
<1> QED
  BY <1>1, <1>2, <1>3, <1>4, <1>5, ServicesAreComponents, LockIsSafe, PoolIsSafe,
     HoldersAreAccounted, SessionIsTyped, AcquisitionIsSafe, WatcherIsSafe, MarksAreSafe,
     RunsAreSafe, BlocksAreSafe, PTL
  DEF ServicesTypeOK
\* What the runs check of the services holds of them for all values of their constants, in one
\* behaviour of them all.
THEOREM ServicesKeepTheirPromises ==
  ServicesSpec =>
    /\ [](LockIsOwned /\ SlotsAreHandedOver /\ BackingIsAccounted /\ HintsAreContiguous
          /\ AnswerIsCurrent /\ WatchesAreOwned /\ NewestClickIsShown /\ TurnsAreKept
          /\ BlocksAreStored)
    /\ ShownNeverGoesBack /\ OutcomeHolds
  BY ServicesAreComponents, LockIsAlwaysOwned, SlotsAreAlwaysHandedOver,
     BackingIsAlwaysAccounted, HintsStayContiguous, AnswersAreCurrent, WatchesAreAlwaysOwned,
     NewestClickIsAlwaysShown, TurnsAreAlwaysKept, BlocksAreAlwaysStored,
     ShownNeverGoesBackward, RecordIsTrueForGood, PTL
=============================================================================
