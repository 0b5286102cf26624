---------------------------- MODULE CodeWorkspaces ----------------------------
(***************************************************************************)
(* Code workspaces (CodeWorkspaceService): leases over worktrees that are  *)
(* shared by reference count.  The first open of a key starts a worker     *)
(* that prepares a worktree, declares it ready and holds it until the last *)
(* reference is given back; later opens of the key join it.  A lease that  *)
(* is not renewed expires, and a loop sweeps the expired ones.  The worker *)
(* may also end by itself, when the renewal of its resource lease fails.   *)
(*                                                                         *)
(* Everything runs on one thread: a step is the code between two points    *)
(* where a fiber can be suspended.  An open is named by its lease, and a   *)
(* backing by the open that created it (its identity is its release        *)
(* deferred, which no other backing has).                                  *)
(***************************************************************************)
EXTENDS FiniteSets, Naturals

CONSTANTS
  Opens,       \* calls of open, each with a lease of its own
  KeyOf,       \* backing key of each: owner, target and resolved revision
  Uses,        \* operations over a lease
  LeaseOf,     \* the lease of each
  MayBreak,    \* whether a worker may end before it is released
  NoBacking    \* no entry in the map, nothing awaited

Keys == {KeyOf[o] : o \in Opens}

ASSUME CodeWorkspacesAssumption ==
  /\ IsFiniteSet(Opens) /\ IsFiniteSet(Uses)
  /\ DOMAIN KeyOf = Opens
  /\ LeaseOf \in [Uses -> Opens]
  /\ MayBreak \in BOOLEAN
  /\ NoBacking \notin Opens

VARIABLES
  backings,     \* the map: identity of the current backing of each key
  count,        \* reference count of each backing
  worker,       \* progress of the worker of each backing
  ready,        \* of each backing: "pending", "prepared" or "failed"
  released,     \* backings whose release was completed
  open,         \* progress of each open
  joined,       \* backing an open created or joined
  sessions,     \* leases in the session map
  expired,      \* those whose time has passed
  sweep,        \* expired leases the loop has removed and not yet closed
  sweepAwaits,  \* backing whose end the loop waits for
  use           \* progress of each operation

backingVars == <<backings, count, released>>
workVars == <<worker, ready>>
sweepVars == <<sweep, sweepAwaits>>
cwVars == <<backingVars, workVars, sweepVars, open, joined, sessions, expired, use>>

WorkspaceTypeOK ==
  /\ backings \in [Keys -> Opens \cup {NoBacking}]
  /\ count \in [Opens -> 0..(Cardinality(Opens) + Cardinality(Uses))]
  /\ worker \in [Opens -> {"none", "preparing", "serving", "cleaning", "collecting", "closed"}]
  /\ ready \in [Opens -> {"pending", "prepared", "failed"}]
  /\ released \subseteq Opens
  /\ open \in [Opens -> {"idle", "waiting", "opened", "failed"}]
  /\ joined \in [Opens -> Opens \cup {NoBacking}]
  /\ sessions \subseteq Opens
  /\ expired \subseteq sessions
  /\ sweep \subseteq Opens
  /\ sweepAwaits \in Opens \cup {NoBacking}
  /\ use \in [Uses -> {"idle", "using", "done"}]

WorkspaceInit ==
  /\ backings = [k \in Keys |-> NoBacking]
  /\ count = [o \in Opens |-> 0]
  /\ worker = [o \in Opens |-> "none"]
  /\ ready = [o \in Opens |-> "pending"]
  /\ released = {}
  /\ open = [o \in Opens |-> "idle"]
  /\ joined = [o \in Opens |-> NoBacking]
  /\ sessions = {}
  /\ expired = {}
  /\ sweep = {}
  /\ sweepAwaits = NoBacking
  /\ use = [u \in Uses |-> "idle"]

-----------------------------------------------------------------------------
\* The backing is still the one the map has for its key.
IsCurrent(b) == backings[KeyOf[b]] = b

LastReference(b) == IsCurrent(b) /\ count[b] <= 1

\* Wrong: the entry of the key is taken whichever backing it is now.
Wrong_ReleaseBacking(b) ==
  LET c == backings[KeyOf[b]]
  IN  IF c = NoBacking THEN UNCHANGED backingVars
      ELSE IF count[c] > 1
        THEN /\ count' = [count EXCEPT ![c] = @ - 1]
             /\ UNCHANGED <<backings, released>>
        ELSE /\ backings' = [backings EXCEPT ![KeyOf[b]] = NoBacking]
             /\ count' = [count EXCEPT ![c] = 0]
             /\ released' = released \cup {b}

\* A reference to a backing that was replaced or has ended is worth nothing.
ReleaseBacking(b) ==
  IF ~IsCurrent(b) THEN UNCHANGED backingVars
  ELSE IF count[b] > 1
    THEN /\ count' = [count EXCEPT ![b] = @ - 1]
         /\ UNCHANGED <<backings, released>>
    ELSE /\ backings' = [backings EXCEPT ![KeyOf[b]] = NoBacking]
         /\ count' = [count EXCEPT ![b] = 0]
         /\ released' = released \cup {b}

-----------------------------------------------------------------------------
(* open *)

\* Wrong: joining a backing does not count as a reference.
Wrong_JoinBacking(o, b) ==
  /\ joined' = [joined EXCEPT ![o] = b]
  /\ IF ready[b] = "prepared"
       THEN open' = [open EXCEPT ![o] = "opened"] /\ sessions' = sessions \cup {o}
       ELSE open' = [open EXCEPT ![o] = "waiting"] /\ UNCHANGED sessions
  /\ UNCHANGED count

\* A backing that is ready makes the lease at once.
JoinBacking(o, b) ==
  /\ joined' = [joined EXCEPT ![o] = b]
  /\ count' = [count EXCEPT ![b] = @ + 1]
  /\ IF ready[b] = "prepared"
       THEN open' = [open EXCEPT ![o] = "opened"] /\ sessions' = sessions \cup {o}
       ELSE open' = [open EXCEPT ![o] = "waiting"] /\ UNCHANGED sessions

Open(o) ==
  LET b == backings[KeyOf[o]]
  IN  /\ open[o] = "idle"
      /\ IF b # NoBacking
           THEN /\ JoinBacking(o, b)
                /\ UNCHANGED <<backings, worker>>
           ELSE /\ backings' = [backings EXCEPT ![KeyOf[o]] = o]
                /\ count' = [count EXCEPT ![o] = 1]
                /\ worker' = [worker EXCEPT ![o] = "preparing"]
                /\ joined' = [joined EXCEPT ![o] = o]
                /\ open' = [open EXCEPT ![o] = "waiting"]
                /\ UNCHANGED sessions
      /\ UNCHANGED <<released, ready, expired, sweepVars, use>>

\* The opener resumes some time after the worker has answered.
StoreSession(o) ==
  /\ open[o] = "waiting"
  /\ ready[joined[o]] = "prepared"
  /\ open' = [open EXCEPT ![o] = "opened"]
  /\ sessions' = sessions \cup {o}
  /\ UNCHANGED <<backingVars, workVars, joined, expired, sweepVars, use>>

\* Wrong: an interrupted open does not give its reference back.
Wrong_OpenFails(o) ==
  /\ open[o] = "waiting"
  /\ open' = [open EXCEPT ![o] = "failed"]
  /\ IF ready[joined[o]] = "failed" THEN ReleaseBacking(joined[o]) ELSE UNCHANGED backingVars
  /\ UNCHANGED <<workVars, joined, sessions, expired, sweepVars, use>>

\* The preparation failed, or the caller is gone.
OpenFails(o) ==
  /\ open[o] = "waiting"
  /\ open' = [open EXCEPT ![o] = "failed"]
  /\ ReleaseBacking(joined[o])
  /\ UNCHANGED <<workVars, joined, sessions, expired, sweepVars, use>>

-----------------------------------------------------------------------------
(* The worker of a backing *)

Prepared(b) ==
  /\ worker[b] = "preparing"
  /\ worker' = [worker EXCEPT ![b] = "serving"]
  /\ ready' = [ready EXCEPT ![b] = "prepared"]
  /\ UNCHANGED <<backingVars, sweepVars, open, joined, sessions, expired, use>>

\* When a worker ends, its leases and its entry in the map go with it.
Sweep(b) ==
  /\ sessions' = {o \in sessions : joined[o] # b}
  /\ expired' = {o \in expired : joined[o] # b}
  /\ backings' = IF IsCurrent(b) THEN [backings EXCEPT ![KeyOf[b]] = NoBacking] ELSE backings
  /\ UNCHANGED <<count, released>>

\* Wrong: a failed preparation leaves its waiting openers without an answer.
Wrong_PreparationFailed(b) ==
  /\ worker[b] = "preparing"
  /\ worker' = [worker EXCEPT ![b] = "collecting"]
  /\ Sweep(b)
  /\ UNCHANGED <<ready, sweepVars, open, joined, use>>

PreparationFailed(b) ==
  /\ worker[b] = "preparing"
  /\ worker' = [worker EXCEPT ![b] = "collecting"]
  /\ ready' = [ready EXCEPT ![b] = "failed"]
  /\ Sweep(b)
  /\ UNCHANGED <<sweepVars, open, joined, use>>

\* Released, or broken: language sessions, resource lease and worktree are taken down.
BeginCleanup(b) ==
  /\ worker[b] = "serving"
  /\ b \in released \/ MayBreak
  /\ worker' = [worker EXCEPT ![b] = "cleaning"]
  /\ UNCHANGED <<backingVars, ready, sweepVars, open, joined, sessions, expired, use>>

EndCleanup(b) ==
  /\ worker[b] = "cleaning"
  /\ worker' = [worker EXCEPT ![b] = "collecting"]
  /\ Sweep(b)
  /\ UNCHANGED <<ready, sweepVars, open, joined, use>>

\* After a collection pass, whatever its result.
Closed(b) ==
  /\ worker[b] = "collecting"
  /\ worker' = [worker EXCEPT ![b] = "closed"]
  /\ UNCHANGED <<backingVars, ready, sweepVars, open, joined, sessions, expired, use>>

-----------------------------------------------------------------------------
(* Leases *)

\* The owner has not renewed the lease in time.
LeaseExpires(o) ==
  /\ o \in sessions \ expired
  /\ expired' = expired \cup {o}
  /\ UNCHANGED <<backingVars, workVars, sweepVars, open, joined, sessions, use>>

\* Wrong: a lease that has expired stays on the list of the expired.
Wrong_CloseSession(o) ==
  /\ o \in sessions
  /\ sessions' = sessions \ {o}
  /\ ReleaseBacking(joined[o])
  /\ UNCHANGED <<workVars, sweepVars, open, joined, expired, use>>

\* release, and any call that finds the lease expired: remove it, give its reference back.
CloseSession(o) ==
  /\ o \in sessions
  /\ sessions' = sessions \ {o}
  /\ expired' = expired \ {o}
  /\ ReleaseBacking(joined[o])
  /\ UNCHANGED <<workVars, sweepVars, open, joined, use>>

\* expireLeases takes every expired lease at once and closes one after the other, waiting
\* for the end of each backing it releases.
ExpireLeases ==
  /\ sweep = {} /\ sweepAwaits = NoBacking
  /\ expired # {}
  /\ sweep' = expired
  /\ sessions' = sessions \ expired
  /\ expired' = {}
  /\ UNCHANGED <<backingVars, workVars, sweepAwaits, open, joined, use>>

SweepOne(o) ==
  /\ o \in sweep /\ sweepAwaits = NoBacking
  /\ sweep' = sweep \ {o}
  /\ ReleaseBacking(joined[o])
  /\ sweepAwaits' = IF LastReference(joined[o]) THEN joined[o] ELSE NoBacking
  /\ UNCHANGED <<workVars, open, joined, sessions, expired, use>>

SweepResumes ==
  /\ sweepAwaits # NoBacking
  /\ worker[sweepAwaits] = "closed"
  /\ sweepAwaits' = NoBacking
  /\ UNCHANGED <<backingVars, workVars, sweep, open, joined, sessions, expired, use>>

-----------------------------------------------------------------------------
(* Operations over a lease *)

\* Wrong: an operation relies on the reference of its lease.
Wrong_AcquireSession(u) ==
  LET o == LeaseOf[u]
  IN  /\ use[u] = "idle"
      /\ o \in sessions \ expired
      /\ IsCurrent(joined[o])
      /\ use' = [use EXCEPT ![u] = "using"]
      /\ UNCHANGED <<backingVars, workVars, sweepVars, open, joined, sessions, expired>>

\* An operation holds a reference of its own: its lease may go while it runs.
AcquireSession(u) ==
  LET o == LeaseOf[u]
  IN  /\ use[u] = "idle"
      /\ o \in sessions \ expired
      /\ IsCurrent(joined[o])
      /\ use' = [use EXCEPT ![u] = "using"]
      /\ count' = [count EXCEPT ![joined[o]] = @ + 1]
      /\ UNCHANGED <<backings, released, workVars, sweepVars, open, joined, sessions, expired>>

\* leaseNotFound: no such lease, or one over a backing that has ended.
LeaseNotFound(u) ==
  LET o == LeaseOf[u]
  IN  /\ use[u] = "idle"
      /\ open[o] \in {"opened", "failed"}
      /\ o \notin sessions \/ (o \notin expired /\ ~IsCurrent(joined[o]))
      /\ use' = [use EXCEPT ![u] = "done"]
      /\ UNCHANGED <<backingVars, workVars, sweepVars, open, joined, sessions, expired>>

ReleaseSession(u) ==
  /\ use[u] = "using"
  /\ use' = [use EXCEPT ![u] = "done"]
  /\ ReleaseBacking(joined[LeaseOf[u]])
  /\ UNCHANGED <<workVars, sweepVars, open, joined, sessions, expired>>

-----------------------------------------------------------------------------
Work(b) ==
  \/ Prepared(b) \/ PreparationFailed(b) \/ BeginCleanup(b) \/ EndCleanup(b) \/ Closed(b)

Expiry == ExpireLeases \/ SweepResumes \/ \E o \in Opens : SweepOne(o)

WorkspaceNext ==
  \/ \E o \in Opens :
       Open(o) \/ StoreSession(o) \/ OpenFails(o) \/ LeaseExpires(o) \/ CloseSession(o)
  \/ \E b \in Opens : Work(b)
  \/ Expiry
  \/ \E u \in Uses : AcquireSession(u) \/ LeaseNotFound(u) \/ ReleaseSession(u)

\* Preparations, clean-ups and operations end (their git and file calls have timeouts),
\* answered openers resume, the expiry loop goes on, and no owner renews for ever.
WorkspaceFairness ==
  /\ \A b \in Opens :
       /\ WF_cwVars(Prepared(b) \/ PreparationFailed(b))
       /\ WF_cwVars(b \in released /\ BeginCleanup(b))
       /\ WF_cwVars(EndCleanup(b) \/ Closed(b))
  /\ \A o \in Opens :
       /\ WF_cwVars(StoreSession(o))
       /\ WF_cwVars(open[o] = "waiting" /\ ready[joined[o]] = "failed" /\ OpenFails(o))
       /\ WF_cwVars(LeaseExpires(o))
  /\ \A u \in Uses : WF_cwVars(ReleaseSession(u))
  /\ WF_cwVars(Expiry)

WorkspaceSpec == WorkspaceInit /\ [][WorkspaceNext]_cwVars

-----------------------------------------------------------------------------
(* What the service promises *)

\* Who holds a reference to a backing: openers that wait, leases, leases the loop has yet
\* to close, operations that run.
Openers(b) == {o \in Opens : open[o] = "waiting" /\ joined[o] = b}
Leases(b) == {o \in sessions \cup sweep : joined[o] = b}
Running(b) == {u \in Uses : use[u] = "using" /\ joined[LeaseOf[u]] = b}

\* The count of a backing in the map is the number of those who hold it, through joins,
\* failed and interrupted opens, expiry, release and operations that outlive their lease.
ReferencesAreCounted ==
  \A b \in Opens : IsCurrent(b) =>
    count[b] = Cardinality(Openers(b)) + Cardinality(Leases(b)) + Cardinality(Running(b))

\* A worktree is given up only when nobody holds it: no opener, lease or operation is left
\* with a backing whose release was requested.
ReleasedIsUnused ==
  \A b \in released : Openers(b) = {} /\ Leases(b) = {} /\ Running(b) = {}

\* Every open is answered, the ones that joined included.
OpenIsAnswered == \A o \in Opens : open[o] = "waiting" ~> open[o] # "waiting"

\* No worktree is kept for ever: whoever forgets to release, the worker of every backing
\* comes to its end.
BackingEnds == \A b \in Opens : worker[b] # "none" ~> worker[b] = "closed"

\* Both together: the reference count says who holds a backing, and decides its release.
BackingIsAccounted == ReferencesAreCounted /\ ReleasedIsUnused

\* Both together: no caller waits for ever, and no worktree stays for ever.
WorkspacesEnd == OpenIsAnswered /\ BackingEnds

=============================================================================
