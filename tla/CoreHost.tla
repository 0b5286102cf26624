------------------------------- MODULE CoreHost -------------------------------
(***************************************************************************)
(* One standalone Core process between its socket and its database lease:  *)
(* the lifecycle state machine (core-lifecycle.ts), the authenticated host *)
(* slot (core-transport-authentication.ts), the fiber that acquires the    *)
(* lease, initializes and holds it (core-host-lifecycle.ts), and the       *)
(* business requests it admits.                                            *)
(*                                                                         *)
(* A handler runs without interruption up to its next asynchronous wait,   *)
(* so the synchronous part of a handler is one action.  What crosses       *)
(* fibers is a step of its own: a queued disconnect notice, the deferred   *)
(* "host died", the deferred "drain", the interruption of a fiber.         *)
(***************************************************************************)
EXTENDS Integers, Sequences

CONSTANTS
  MaxClients,       \* connections the native server accepts, numbered 0, 1, ...
  TokenClients,     \* those that present the right credential
  AuthorizationIds, \* authorizations Electron may send
  Requests,         \* business requests
  None              \* no client, no authorization

ClientIds == 0 .. MaxClients - 1

ASSUME HostAssumption ==
  /\ MaxClients \in Nat
  /\ TokenClients \subseteq ClientIds
  /\ None \notin AuthorizationIds /\ None \notin Nat

VARIABLES
  lifecycle,  \* tag of stateRef
  authorized, \* authorizationId carried by Recovering and Ready
  grant,      \* deferred ownershipAuthorized
  drain,      \* deferred drainRequested
  opened,     \* connections opened so far
  closed,     \* those that are closed
  notices,    \* queue of disconnects that the host session has not seen
  bound,      \* authenticated client
  lastGone,   \* lastDisconnectedClientId
  healthy,    \* clients whose first health call completed
  death,      \* deferred of the authenticated host's death
  owner,      \* state of the fiber that owns and recovers
  lease,      \* authorization under which the database lease is held
  winner,     \* which side of raceFirst(hostDied, ownAndRecover) ended first
  running     \* business requests being served

session == <<opened, closed, notices, bound, lastGone, healthy>>
state == <<lifecycle, authorized>>
vars == <<state, grant, drain, session, death, owner, lease, winner, running>>

LifecycleStates ==
  {"starting", "awaitingOwnership", "recovering", "ready", "draining", "stopped", "failed"}
OwnerStates ==
  {"awaiting", "acquiring", "initializing", "holding", "closing", "closingFailed",
   "interrupted", "broken"}

Init ==
  /\ lifecycle = "starting" /\ authorized = None
  /\ grant = None /\ drain = FALSE /\ death = FALSE
  /\ opened = 0 /\ closed = {} /\ notices = <<>>
  /\ bound = None /\ lastGone = -1 /\ healthy = {}
  /\ owner = "awaiting" /\ lease = None /\ winner = "racing"
  /\ running = {}

\* The process serves until its main fiber ends.
Serving == winner \notin {"finished", "crashed"}

Becomes(tag) == lifecycle' = tag /\ authorized' = None

-----------------------------------------------------------------------------
(* The socket and the authenticated host session *)

Connect ==
  /\ Serving /\ opened < MaxClients
  /\ opened' = opened + 1
  /\ UNCHANGED <<state, grant, drain, closed, notices, bound, lastGone, healthy, death, owner, lease,
                 winner, running>>

Disconnect(c) ==
  /\ Serving /\ c \in 0 .. opened - 1 \ closed
  /\ closed' = closed \cup {c}
  /\ notices' = Append(notices, c)
  /\ UNCHANGED <<state, grant, drain, opened, bound, lastGone, healthy, death, owner, lease,
                 winner, running>>

\* makeHostDeathAwareProtocol forwards a disconnect to the session.
NoticeDisconnect ==
  /\ Serving /\ notices # <<>>
  /\ LET c == Head(notices) IN
       /\ bound' = IF bound = c THEN None ELSE bound
       /\ death' = (death \/ bound = c)
       /\ lastGone' = IF c > lastGone THEN c ELSE lastGone
  /\ notices' = Tail(notices)
  /\ UNCHANGED <<state, grant, drain, opened, closed, healthy, owner, lease, winner, running>>

\* Wrong: a client whose disconnect is already known may still be bound.
Wrong_Accepted(c) == bound \in {None, c}
Accepted(c) == c > lastGone /\ bound \in {None, c}

\* Core.health through the authentication middleware.  A call may be handled after its
\* connection was closed.  In draining and stopped the handler dies after it bound the client.
Health(c) ==
  /\ Serving /\ c < opened /\ c \in TokenClients \cup {bound}
  /\ Accepted(c)
  /\ bound' = c
  /\ IF lifecycle \in {"draining", "stopped"}
       THEN UNCHANGED <<state, healthy>>
       ELSE /\ healthy' = healthy \cup {c}
            /\ IF lifecycle = "starting" THEN Becomes("awaitingOwnership") ELSE UNCHANGED state
  /\ UNCHANGED <<grant, drain, opened, closed, notices, lastGone, death, owner, lease, winner, running>>

Authenticated == bound # None /\ bound \in healthy

-----------------------------------------------------------------------------
(* The lifecycle service *)

\* Wrong: a conflicting authorization replaces the recorded one.
Wrong_Authorize(id) ==
  /\ Serving /\ Authenticated
  /\ lifecycle \in {"awaitingOwnership", "recovering", "ready"}
  /\ IF lifecycle = "awaitingOwnership" THEN lifecycle' = "recovering" ELSE UNCHANGED lifecycle
  /\ authorized' = id
  /\ grant' = IF grant = None THEN id ELSE grant
  /\ UNCHANGED <<drain, session, death, owner, lease, winner, running>>

\* The repeat of the same authorization is answered and changes nothing; a conflicting one
\* and one in another state are refused.
Authorize(id) ==
  /\ Serving /\ Authenticated
  /\ lifecycle = "awaitingOwnership"
  /\ lifecycle' = "recovering" /\ authorized' = id
  /\ grant' = IF grant = None THEN id ELSE grant
  /\ UNCHANGED <<drain, session, death, owner, lease, winner, running>>

\* Wrong: shutdown changes the state and forgets to request the drain.
Wrong_Shutdown ==
  /\ Serving /\ Authenticated
  /\ lifecycle \notin {"starting", "stopped"}
  /\ Becomes("draining")
  /\ UNCHANGED <<grant, drain, session, death, owner, lease, winner, running>>

Shutdown ==
  /\ Serving /\ Authenticated
  /\ lifecycle \notin {"starting", "stopped"}
  /\ Becomes("draining")
  /\ drain' = TRUE
  /\ UNCHANGED <<grant, session, death, owner, lease, winner, running>>

\* Wrong: a recovering Core admits business work.
Wrong_Admit(r) ==
  /\ Serving /\ Authenticated
  /\ lifecycle \in {"recovering", "ready"}
  /\ running' = running \cup {r}
  /\ UNCHANGED <<state, grant, drain, session, death, owner, lease, winner>>

\* admitBusinessRequest.
Admit(r) ==
  /\ Serving /\ Authenticated
  /\ lifecycle = "ready"
  /\ running' = running \cup {r}
  /\ UNCHANGED <<state, grant, drain, session, death, owner, lease, winner>>

\* A request ends by itself, or is interrupted by its client or by the drain.
EndRequest(r) ==
  /\ Serving /\ r \in running
  /\ running' = running \ {r}
  /\ UNCHANGED <<state, grant, drain, session, death, owner, lease, winner>>

-----------------------------------------------------------------------------
(* The fiber that owns and recovers *)

OwnerGoes(phase) ==
  /\ owner' = phase
  /\ UNCHANGED <<grant, drain, session, death, running>>

\* lifecycle.fail, refused once Core drains; the scope closes in either case.
Breaks ==
  /\ IF lifecycle \in {"draining", "stopped"} THEN UNCHANGED state ELSE Becomes("failed")
  /\ OwnerGoes("closingFailed")

TakeGrant ==
  /\ owner = "awaiting" /\ grant # None
  /\ OwnerGoes("acquiring")
  /\ UNCHANGED <<state, lease, winner>>

\* acquireAndRecover is the uninterruptible acquire half of acquireRelease.
Acquire ==
  /\ owner = "acquiring"
  /\ lease' = grant
  /\ OwnerGoes("initializing")
  /\ UNCHANGED <<state, winner>>

AcquireFails ==
  /\ owner = "acquiring"
  /\ Breaks
  /\ UNCHANGED <<lease, winner>>

\* Wrong: readiness does not depend on the state recovery began in.
Wrong_CompleteRecovery ==
  /\ owner = "initializing"
  /\ lifecycle' = "ready" /\ authorized' = grant /\ OwnerGoes("holding")
  /\ UNCHANGED <<lease, winner>>

CompleteRecovery ==
  /\ owner = "initializing"
  /\ IF lifecycle = "recovering"
       THEN lifecycle' = "ready" /\ UNCHANGED authorized /\ OwnerGoes("holding")
       ELSE Breaks
  /\ UNCHANGED <<lease, winner>>

InitializeFails ==
  /\ owner = "initializing"
  /\ Breaks
  /\ UNCHANGED <<lease, winner>>

\* interruptOnDrain, or the loss of the race against the death of the host.
Interrupt ==
  /\ drain \/ winner = "hostDied"
  /\ owner \in {"awaiting", "initializing", "holding"}
  /\ OwnerGoes("closing")
  /\ UNCHANGED <<state, lease, winner>>

\* SQLite closes, then the lease is released, then the fiber ends.  A release whose file
\* operations fail is ignored by the code, which goes on the same way; that case is left out:
\* the record then names a process that ends, and DatabaseOwnership takes it over.
CloseScope ==
  /\ owner \in {"closing", "closingFailed"}
  /\ lease' = None
  /\ OwnerGoes(IF owner = "closing" THEN "interrupted" ELSE "broken")
  /\ winner' = IF winner # "racing" THEN winner
               ELSE IF owner = "closing" THEN "owner" ELSE "ownerFailed"
  /\ UNCHANGED state

-----------------------------------------------------------------------------
(* runCoreHostLifecycle *)

HostDies ==
  /\ death /\ winner = "racing"
  /\ winner' = "hostDied"
  /\ IF lifecycle \in {"draining", "stopped"}
       THEN UNCHANGED <<state, drain>>
       ELSE Becomes("draining") /\ drain' = TRUE
  /\ UNCHANGED <<grant, session, death, owner, lease, running>>

\* Wrong: the loser of the race is not awaited.
Wrong_Finish ==
  /\ winner \in {"owner", "hostDied"}
  /\ lifecycle = "draining"
  /\ Becomes("stopped")
  /\ winner' = "finished"
  /\ UNCHANGED <<grant, drain, session, death, owner, lease, running>>

\* completeShutdown, once the loser of the race has ended too.
Finish ==
  /\ winner \in {"owner", "hostDied"}
  /\ owner \in {"interrupted", "broken"}
  /\ lifecycle = "draining"
  /\ Becomes("stopped")
  /\ winner' = "finished"
  /\ UNCHANGED <<grant, drain, session, death, owner, lease, running>>

\* The failure of the owner ends the launch without completeShutdown.
LaunchFails ==
  /\ winner = "ownerFailed"
  /\ winner' = "crashed"
  /\ UNCHANGED <<state, grant, drain, session, death, owner, lease, running>>

-----------------------------------------------------------------------------
SessionNext ==
  \/ Connect \/ NoticeDisconnect
  \/ \E c \in ClientIds : Disconnect(c) \/ Health(c)

LifecycleNext ==
  \/ Shutdown
  \/ \E id \in AuthorizationIds : Authorize(id)
  \/ \E r \in Requests : Admit(r) \/ EndRequest(r)

OwnerNext ==
  \/ TakeGrant \/ Acquire \/ AcquireFails \/ CompleteRecovery \/ InitializeFails
  \/ Interrupt \/ CloseScope

Next == SessionNext \/ LifecycleNext \/ OwnerNext \/ HostDies \/ Finish \/ LaunchFails

Spec == Init /\ [][Next]_vars

\* The runtime resumes a fiber whose deferred is done, an acquisition ends, finalizers run.
\* Initialization may hang and is only ever interrupted.
Fairness ==
  /\ WF_vars(NoticeDisconnect)
  /\ WF_vars(TakeGrant \/ Acquire \/ AcquireFails \/ CloseScope)
  /\ WF_vars(Interrupt) /\ WF_vars(HostDies)
  /\ WF_vars(Finish) /\ WF_vars(LaunchFails)

FairSpec == Spec /\ Fairness

-----------------------------------------------------------------------------
(* Properties *)

\* Every variable has its type; an authorization is carried by recovering and ready only.
TypeOK ==
  /\ lifecycle \in LifecycleStates
  /\ authorized \in AuthorizationIds \cup {None}
  /\ authorized # None <=> lifecycle \in {"recovering", "ready"}
  /\ grant \in AuthorizationIds \cup {None} /\ lease \in AuthorizationIds \cup {None}
  /\ drain \in BOOLEAN /\ death \in BOOLEAN
  /\ opened \in 0 .. MaxClients /\ closed \subseteq ClientIds
  /\ notices \in Seq(ClientIds) /\ healthy \subseteq ClientIds
  /\ bound \in ClientIds \cup {None} /\ lastGone \in -1 .. MaxClients - 1
  /\ owner \in OwnerStates
  /\ winner \in {"racing", "owner", "ownerFailed", "hostDied", "finished", "crashed"}
  /\ running \subseteq Requests

\* CoreLifecycle.completeRecovery: while Core is ready its owner fiber holds the database,
\* under the very authorization the lifecycle reports.
ReadyIsOwned ==
  lifecycle = "ready" => owner = "holding" /\ lease = authorized /\ lease # None

\* Only one authorization is ever acted upon: neither the lifecycle nor the lease changes
\* over to a conflicting one.
AuthorizationIsFinal ==
  grant # None => authorized \in {None, grant} /\ lease \in {None, grant}

\* runCoreHostLifecycle: stopped is reported only after the database is free again.
StoppedHoldsNothing ==
  lifecycle = "stopped" => lease = None /\ owner \in {"interrupted", "broken"}

\* The lifecycle Core reports and the database its owner fiber holds agree, from the first
\* authorization to the end of the process.
LifecycleIsTrue == ReadyIsOwned /\ AuthorizationIsFinal /\ StoppedHoldsNothing

\* A client whose disconnect the session has seen is never bound again by a late call.
DeadClientStaysOut ==
  bound \in closed => \E i \in DOMAIN notices : notices[i] = bound

\* A business request is only ever admitted by a Core that holds the database.
RequestsAreOwned == [][running' \subseteq running \/ lease # None]_vars

\* Draining is final: recovery that completes late does not make Core ready again.
DrainIsFinal ==
  [][drain => lifecycle' \notin {"starting", "awaitingOwnership", "recovering", "ready"}]_vars

\* Business is done by an owner of the database, and a drain once requested is not undone.
DrainIsRespected == RequestsAreOwned /\ DrainIsFinal

\* A shutdown or the death of the host ends the process with the database free, even while
\* the lease is being acquired or initialization hangs.
DrainFreesDatabase == (death \/ lifecycle = "draining") ~> (~Serving /\ lease = None)

\* "Authenticates and permanently binds the first valid native RPC connection": a further
\* health call of the connected host is accepted.
BoundHostAnswered == bound # None /\ bound \notin closed => Accepted(bound)
=============================================================================
