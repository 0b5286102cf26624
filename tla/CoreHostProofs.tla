---------------------------- MODULE CoreHostProofs ----------------------------
(***************************************************************************)
(* Theorems about CoreHost for any number of connections, authorizations   *)
(* and business requests.                                                  *)
(***************************************************************************)
EXTENDS CoreHost, TLAPS

USE DEF ClientIds, LifecycleStates, OwnerStates, Serving, Authenticated, Accepted, Becomes,
        OwnerGoes, Breaks, session, state

-----------------------------------------------------------------------------
(* Type correctness *)

\* The session, the lifecycle and the owner fiber keep their types.
THEOREM TypeCorrect == Spec => []TypeOK
<1>1. Init => TypeOK
  <2> SUFFICES ASSUME Init PROVE TypeOK
    OBVIOUS
  <2>1. /\ lifecycle = "starting" /\ owner = "awaiting" /\ winner = "racing"
        /\ authorized = None /\ grant = None /\ lease = None /\ bound = None
        /\ drain = FALSE /\ death = FALSE
        /\ opened = 0 /\ lastGone = -1 /\ notices = <<>>
        /\ closed = {} /\ healthy = {} /\ running = {}
    BY DEF Init
  <2>2. opened \in 0 .. MaxClients /\ lastGone \in -1 .. MaxClients - 1 /\ notices \in Seq(ClientIds)
    BY <2>1, HostAssumption
  <2> QED BY <2>1, <2>2, Zenon DEF TypeOK
<1>2. TypeOK /\ [Next]_vars => TypeOK'
  <2> SUFFICES ASSUME TypeOK, [Next]_vars PROVE TypeOK'
    OBVIOUS
  <2> USE HostAssumption DEF TypeOK
  <2>1. CASE UNCHANGED vars
    BY <2>1 DEF vars
  <2>2. CASE Connect
    BY <2>2 DEF Connect
  <2>3. CASE NoticeDisconnect
    <3>1. Head(notices) \in ClientIds /\ Tail(notices) \in Seq(ClientIds)
      BY <2>3 DEF NoticeDisconnect
    <3>2. lastGone' \in -1 .. MaxClients - 1
      BY <2>3, <3>1 DEF NoticeDisconnect
    <3>3. bound' \in ClientIds \cup {None} /\ death' \in BOOLEAN
      BY <2>3, Zenon DEF NoticeDisconnect
    <3> QED BY <2>3, <3>1, <3>2, <3>3 DEF NoticeDisconnect
  <2>4. ASSUME NEW c \in ClientIds, Disconnect(c) \/ Health(c) PROVE TypeOK'
    <3>1. CASE Disconnect(c)
      BY <3>1 DEF Disconnect
    <3>2. CASE Health(c)
      <4>1. bound' \in ClientIds \cup {None} /\ healthy' \subseteq ClientIds
        BY <3>2 DEF Health
      <4>2. /\ lifecycle' \in LifecycleStates
            /\ authorized' \in AuthorizationIds \cup {None}
            /\ authorized' # None <=> lifecycle' \in {"recovering", "ready"}
        BY <3>2 DEF Health
      <4> QED BY <3>2, <4>1, <4>2 DEF Health
    <3> QED BY <2>4, <3>1, <3>2
  <2>5. CASE LifecycleNext
    <3>1. CASE Shutdown
      BY <3>1 DEF Shutdown
    <3>2. ASSUME NEW id \in AuthorizationIds, Authorize(id) PROVE TypeOK'
      BY <3>2 DEF Authorize
    <3>3. ASSUME NEW r \in Requests, Admit(r) \/ EndRequest(r) PROVE TypeOK'
      <4>1. /\ running' \subseteq Requests
            /\ UNCHANGED <<state, grant, drain, session, death, owner, lease, winner>>
        BY <3>3, Zenon DEF Admit, EndRequest
      <4> QED BY <4>1
    <3> QED BY <2>5, <3>1, <3>2, <3>3 DEF LifecycleNext
  <2>6. CASE OwnerNext
    <3>0. UNCHANGED <<grant, drain, session, death, running>>
      BY <2>6, Zenon DEF OwnerNext, TakeGrant, Acquire, AcquireFails, CompleteRecovery,
                         InitializeFails, Interrupt, CloseScope
    <3> DEFINE OwnerTypes ==
                 /\ lifecycle' \in LifecycleStates
                 /\ authorized' \in AuthorizationIds \cup {None}
                 /\ authorized' # None <=> lifecycle' \in {"recovering", "ready"}
                 /\ lease' \in AuthorizationIds \cup {None} /\ owner' \in OwnerStates
                 /\ winner' \in {"racing", "owner", "ownerFailed", "hostDied", "finished",
                                 "crashed"}
    <3>1. CASE TakeGrant \/ Acquire \/ AcquireFails
      <4>1. OwnerTypes
        BY <3>1 DEF TakeGrant, Acquire, AcquireFails
      <4> QED BY <3>0, <4>1
    <3>2. CASE CompleteRecovery \/ InitializeFails
      <4>1. OwnerTypes
        BY <3>2 DEF CompleteRecovery, InitializeFails
      <4> QED BY <3>0, <4>1
    <3>3. CASE Interrupt \/ CloseScope
      <4>1. OwnerTypes
        BY <3>3 DEF Interrupt, CloseScope
      <4> QED BY <3>0, <4>1
    <3> QED BY <2>6, <3>1, <3>2, <3>3 DEF OwnerNext
  <2>7. CASE HostDies \/ Finish \/ LaunchFails
    <3>1. UNCHANGED <<grant, session, death, owner, lease, running>>
      BY <2>7, Zenon DEF HostDies, Finish, LaunchFails
    <3>2. drain' \in BOOLEAN
      BY <2>7, Zenon DEF HostDies, Finish, LaunchFails
    <3>3. /\ lifecycle' \in LifecycleStates
          /\ authorized' \in AuthorizationIds \cup {None}
          /\ authorized' # None <=> lifecycle' \in {"recovering", "ready"}
          /\ winner' \in {"racing", "owner", "ownerFailed", "hostDied", "finished", "crashed"}
      BY <2>7 DEF HostDies, Finish, LaunchFails
    <3> QED BY <3>1, <3>2, <3>3
  <2> QED BY <2>1, <2>2, <2>3, <2>4, <2>5, <2>6, <2>7 DEF Next, SessionNext
<1> QED BY <1>1, <1>2, PTL DEF Spec

-----------------------------------------------------------------------------
(* The lifecycle and the lease *)

\* What ties the lifecycle to the owner fiber: the authorization is granted once, the lease
\* follows the fiber's phase, and the fiber is interrupted only after the state drains.
LeaseFollowsPhase ==
  /\ owner \in {"initializing", "holding"} => lease = grant /\ grant # None
  /\ owner = "acquiring" => grant # None
  /\ owner \in {"awaiting", "acquiring", "interrupted", "broken"} => lease = None
  /\ lease \in {None, grant}

GrantFollowsState ==
  /\ lifecycle \in {"starting", "awaitingOwnership"} => grant = None
  /\ lifecycle \in {"recovering", "ready"} => authorized = grant /\ grant # None
  /\ lifecycle \notin {"recovering", "ready"} => authorized = None

DrainFollowsState ==
  /\ drain \/ winner = "hostDied" => lifecycle \in {"draining", "stopped"}
  /\ lifecycle = "ready" => owner = "holding"
  /\ lifecycle = "stopped" => owner \in {"interrupted", "broken"}

HostInv == TypeOK /\ LeaseFollowsPhase /\ GrantFollowsState /\ DrainFollowsState

\* The strengthening holds at the start and is kept by every step.
LEMMA HostInvariant == Spec => []HostInv
<1> USE HostAssumption DEF HostInv, LeaseFollowsPhase, GrantFollowsState, DrainFollowsState
<1>1. Init => LeaseFollowsPhase /\ GrantFollowsState /\ DrainFollowsState
  BY DEF Init
<1>2. HostInv /\ TypeOK' /\ [Next]_vars => HostInv'
  <2> SUFFICES ASSUME HostInv, TypeOK', [Next]_vars PROVE HostInv'
    OBVIOUS
  <2>1. CASE UNCHANGED vars
    BY <2>1 DEF vars
  <2>2. CASE SessionNext
    BY <2>2 DEF SessionNext, Connect, NoticeDisconnect, Disconnect, Health
  <2>3. CASE LifecycleNext
    BY <2>3 DEF LifecycleNext, Shutdown, Authorize, Admit, EndRequest, TypeOK
  <2>4. CASE TakeGrant \/ Acquire \/ AcquireFails
    BY <2>4 DEF TakeGrant, Acquire, AcquireFails, TypeOK
  <2>5. CASE CompleteRecovery \/ InitializeFails
    BY <2>5 DEF CompleteRecovery, InitializeFails, TypeOK
  <2>6. CASE Interrupt \/ CloseScope
    BY <2>6 DEF Interrupt, CloseScope, TypeOK
  <2>7. CASE HostDies \/ Finish \/ LaunchFails
    BY <2>7 DEF HostDies, Finish, LaunchFails, TypeOK
  <2> QED BY <2>1, <2>2, <2>3, <2>4, <2>5, <2>6, <2>7 DEF Next, OwnerNext
<1> QED BY <1>1, <1>2, TypeCorrect, PTL DEF Spec

\* A ready Core holds the database under the authorization it reports.
THEOREM ReadyOwns == Spec => []ReadyIsOwned
<1>1. HostInv => ReadyIsOwned
  BY HostAssumption
     DEF HostInv, LeaseFollowsPhase, GrantFollowsState, DrainFollowsState, ReadyIsOwned
<1> QED BY <1>1, HostInvariant, PTL

\* No conflicting authorization is ever acted upon.
THEOREM OneAuthorization == Spec => []AuthorizationIsFinal
<1>1. HostInv => AuthorizationIsFinal
  BY DEF HostInv, LeaseFollowsPhase, GrantFollowsState, AuthorizationIsFinal
<1> QED BY <1>1, HostInvariant, PTL

\* A stopped Core has given the database back.
THEOREM StoppedIsFree == Spec => []StoppedHoldsNothing
<1>1. HostInv => StoppedHoldsNothing
  BY DEF HostInv, LeaseFollowsPhase, DrainFollowsState, StoppedHoldsNothing
<1> QED BY <1>1, HostInvariant, PTL

\* Business requests are admitted by an owner of the database only.
THEOREM AdmissionIsOwned == Spec => RequestsAreOwned
<1>1. HostInv /\ [Next]_vars => [running' \subseteq running \/ lease # None]_vars
  <2> SUFFICES ASSUME HostInv, Next PROVE running' \subseteq running \/ lease # None
    OBVIOUS
  <2>1. CASE \E r \in Requests : Admit(r)
    BY <2>1 DEF Admit, HostInv, LeaseFollowsPhase, GrantFollowsState, DrainFollowsState
  <2>2. CASE ~\E r \in Requests : Admit(r)
    BY <2>2 DEF Next, SessionNext, LifecycleNext, OwnerNext, Connect, NoticeDisconnect,
                Disconnect, Health, Shutdown, Authorize, EndRequest, TakeGrant, Acquire,
                AcquireFails, CompleteRecovery, InitializeFails, Interrupt, CloseScope,
                HostDies, Finish, LaunchFails
  <2> QED BY <2>1, <2>2
<1> QED BY <1>1, HostInvariant, PTL DEF Spec, RequestsAreOwned

\* Once the drain is requested Core never becomes ready again.
THEOREM DrainIsNotUndone == Spec => DrainIsFinal
<1> DEFINE Final ==
      drain => lifecycle' \notin {"starting", "awaitingOwnership", "recovering", "ready"}
<1>1. HostInv /\ [Next]_vars => [Final]_vars
  <2> SUFFICES ASSUME HostInv, Next, drain PROVE Final
    OBVIOUS
  <2>1. lifecycle \in {"draining", "stopped"}
    BY DEF HostInv, DrainFollowsState
  <2> QED
    BY <2>1 DEF Next, SessionNext, LifecycleNext, OwnerNext, Connect, NoticeDisconnect,
                Disconnect, Health, Shutdown, Authorize, Admit, EndRequest, TakeGrant, Acquire,
                AcquireFails, CompleteRecovery, InitializeFails, Interrupt, CloseScope,
                HostDies, Finish, LaunchFails
<1> QED BY <1>1, HostInvariant, PTL DEF Spec, DrainIsFinal

\* What Core reports of its lifecycle and what its owner fiber holds of the database agree,
\* in every interleaving of authorizations, shutdowns, failures and host deaths.
THEOREM LifecycleHolds == Spec => []LifecycleIsTrue
<1>1. ReadyIsOwned /\ AuthorizationIsFinal /\ StoppedHoldsNothing => LifecycleIsTrue
  BY DEF LifecycleIsTrue
<1> QED BY <1>1, ReadyOwns, OneAuthorization, StoppedIsFree, PTL

\* Business requests are an owner's, and a requested drain is final.
THEOREM DrainHolds == Spec => DrainIsRespected
<1> QED BY AdmissionIsOwned, DrainIsNotUndone DEF DrainIsRespected
-----------------------------------------------------------------------------
(* Disconnected clients stay out *)

\* A disconnect that the session has not seen.
Pending(c) == \E i \in DOMAIN notices : notices[i] = c

\* The client whose connection closed is still to be noticed, or counted as gone.
ClosedAreNoticed == \A c \in closed : c > lastGone => Pending(c)

LEMMA HeadIsElement ==
  ASSUME NEW S, NEW s \in Seq(S), s # <<>>
  PROVE  Head(s) \in S
OBVIOUS

LEMMA AppendedIsPending ==
  ASSUME TypeOK, NEW c \in ClientIds, notices' = Append(notices, c)
  PROVE  Pending(c)' /\ \A d : Pending(d) => Pending(d)'
<1>1. notices \in Seq(ClientIds) /\ Len(notices) \in Nat
  BY DEF TypeOK
<1>2. /\ DOMAIN notices' = 1 .. Len(notices) + 1
      /\ notices'[Len(notices) + 1] = c
      /\ \A i \in 1 .. Len(notices) : notices'[i] = notices[i]
      /\ DOMAIN notices = 1 .. Len(notices)
  BY <1>1
<1> QED BY <1>1, <1>2 DEF Pending

LEMMA TailIsPending ==
  ASSUME TypeOK, notices # <<>>, notices' = Tail(notices),
         NEW d, d # Head(notices), Pending(d)
  PROVE  Pending(d)'
<1>1. notices \in Seq(ClientIds) /\ Len(notices) \in Nat \ {0}
  BY DEF TypeOK
<1>2. PICK i \in 1 .. Len(notices) : notices[i] = d
  BY <1>1 DEF Pending
<1>3. i - 1 \in 1 .. Len(notices) - 1
  BY <1>1, <1>2
<1>4. DOMAIN notices' = 1 .. Len(notices) - 1 /\ notices'[i - 1] = d
  BY <1>1, <1>2, <1>3
<1> QED BY <1>3, <1>4 DEF Pending

\* A late call of a closed connection is refused once its disconnect was seen: the session
\* compares the number of the client with the last one that is gone.
THEOREM DeadClientsStayOut == Spec => []DeadClientStaysOut
<1> DEFINE Inv == ClosedAreNoticed /\ DeadClientStaysOut
<1>1. Init => Inv
  BY DEF Init, ClosedAreNoticed, DeadClientStaysOut
<1>2. TypeOK /\ Inv /\ [Next]_vars => Inv'
  <2> SUFFICES ASSUME TypeOK, Inv, [Next]_vars PROVE Inv'
    OBVIOUS
  <2>a. /\ closed \subseteq ClientIds /\ lastGone \in Int /\ None \notin ClientIds
        /\ bound \in closed => Pending(bound)
    BY HostAssumption DEF TypeOK, DeadClientStaysOut, Pending
  <2>b. ASSUME ClosedAreNoticed', bound' \in closed' => Pending(bound)' PROVE Inv'
    BY <2>b DEF DeadClientStaysOut, Pending
  <2>1. ASSUME NEW c \in ClientIds, Disconnect(c) PROVE Inv'
    <3>1. /\ closed' = closed \cup {c} /\ notices' = Append(notices, c)
          /\ bound' = bound /\ lastGone' = lastGone
      BY <2>1 DEF Disconnect
    <3> QED BY <3>1, <2>a, <2>b, AppendedIsPending DEF ClosedAreNoticed
  <2>2. CASE NoticeDisconnect
    <3> DEFINE c == Head(notices)
    <3>1. /\ notices # <<>> /\ notices' = Tail(notices) /\ closed' = closed
          /\ bound' = IF bound = c THEN None ELSE bound
          /\ lastGone' = IF c > lastGone THEN c ELSE lastGone
      BY <2>2 DEF NoticeDisconnect
    <3>2. c \in Int
      <4>1. notices \in Seq(ClientIds) /\ notices # <<>>
        BY <3>1 DEF TypeOK
      <4>2. c \in ClientIds
        BY <4>1, HeadIsElement
      <4> QED BY <4>2, HostAssumption
    <3>3. \A d \in closed : (d # c /\ Pending(d)) => Pending(d)'
      BY <3>1, TailIsPending
    <3>4. \A d \in closed : d > lastGone' => d > lastGone /\ d # c
      BY <3>1, <3>2, <2>a
    <3>5. ClosedAreNoticed'
      BY <3>1, <3>3, <3>4 DEF ClosedAreNoticed
    <3>6. bound' \in closed' => Pending(bound)'
      BY <3>1, <3>3, <2>a
    <3> QED BY <3>5, <3>6, <2>b
  <2>3. ASSUME NEW c \in ClientIds, Health(c) PROVE Inv'
    <3>1. /\ c > lastGone /\ bound' = c
          /\ UNCHANGED <<closed, notices, lastGone>>
      BY <2>3 DEF Health
    <3> QED BY <3>1, <2>a, <2>b DEF ClosedAreNoticed, Pending
  <2>4. CASE UNCHANGED <<closed, notices, lastGone, bound>>
    BY <2>4, <2>a, <2>b DEF ClosedAreNoticed, Pending
  <2> QED
    BY <2>1, <2>2, <2>3, <2>4
       DEF Next, SessionNext, LifecycleNext, OwnerNext, Connect, Shutdown, Authorize, Admit,
           EndRequest, TakeGrant, Acquire, AcquireFails, CompleteRecovery, InitializeFails,
           Interrupt, CloseScope, HostDies, Finish, LaunchFails, vars
<1> HIDE DEF Inv
<1>3. Inv => DeadClientStaysOut
  BY DEF Inv
<1> QED BY <1>1, <1>2, <1>3, TypeCorrect, PTL DEF Spec
=============================================================================
