-------------------------- MODULE ResourceCollection --------------------------
(***************************************************************************)
(* Disposable resources of the hosted-review pools: the catalog rows of    *)
(* resource-catalog.ts, the collection passes of resource-collection.ts,   *)
(* the leases of AgentWorkspaceResources.protect, and the files on disk.   *)
(*                                                                         *)
(* A bare repository is the catalog parent of the worktrees made from it.  *)
(* Runs prepare a worktree, register and lease it with its repository, use *)
(* it and leave; collectors (a policy pass, a cache clearing, the startup  *)
(* reconciliation) move unleased files to quarantine and delete them.      *)
(*                                                                         *)
(* Every catalog transaction is one action.  The pool's preparation and    *)
(* each adapter mutation hold the repository's file lock from end to end,  *)
(* so each is one action as well.  Sizes, quotas and the high-water mark   *)
(* are left out: a pass may choose any collectible resource.               *)
(***************************************************************************)
EXTENDS Naturals, FiniteSets

CONSTANTS
  Repositories,  \* managed bare repositories
  Worktrees,     \* generated worktrees
  RepositoryOf,  \* the repository of each worktree
  Runs,          \* agent runs and code-workspace sessions
  WorktreeOf,    \* the worktree the pool gives to each run
  Collectors,    \* collection fibers
  MaxTokens,     \* bound: collection tokens ever created
  MaxFaults,     \* bound: failed renames and removals
  MaxCrashes,    \* bound: deaths of the Core process
  Nothing        \* target of an idle collector

Resources == Repositories \cup Worktrees
Tokens == 1 .. MaxTokens
NoToken == 0

\* The pool never gives a worktree to two runs (manifest slots, random directory names).
ASSUME PoolAssumption ==
  /\ RepositoryOf \in [Worktrees -> Repositories]
  /\ WorktreeOf \in [Runs -> Worktrees]
  /\ \A a, b \in Runs : WorktreeOf[a] = WorktreeOf[b] => a = b
  /\ Repositories \cap Worktrees = {}
  /\ Nothing \notin Resources
  /\ MaxTokens \in Nat /\ MaxFaults \in Nat /\ MaxCrashes \in Nat

VARIABLES
  state,      \* resources.state; "absent" before the row is registered
  token,      \* resources.recovery_token
  retry,      \* resources whose retry_at_ms is set
  lease,      \* the paired lease rows of each run: "none", "live" or "expired"
  files,      \* resources whose registered path exists
  quarantine, \* files under .diffdash-quarantine: resource and token
  run,        \* next step of each run
  collector,  \* next step, resource and token of each collector
  core,       \* "down", "reconciling" or "up" (requests are admitted)
  visited,    \* resources the running reconciliation has dealt with
  issued, faults, crashes

catalog == <<state, token, retry>>
disk    == <<files, quarantine>>
bounds  == <<issued, faults, crashes>>
vars    == <<catalog, lease, disk, run, collector, core, visited, bounds>>

Collecting == {"collecting", "quarantined", "deletionFailed"}
States == {"absent", "ready", "deleted"} \cup Collecting

RunSteps == {"idle", "inspect", "registerRepository", "registerWorktree", "recordRepository",
             "recordWorktree", "lease", "using", "leaving", "done"}
CollectorSteps == {"quarantine", "record", "delete", "complete", "fail"}

Needs(a) == {WorktreeOf[a], RepositoryOf[WorktreeOf[a]]}
Tree(r)  == {r} \cup {w \in Worktrees : RepositoryOf[w] = r}
Idle     == [step |-> "idle", target |-> Nothing, token |-> NoToken]
AllIdle  == \A c \in Collectors : collector[c] = Idle

\* A first start over a catalog and a pool left by earlier sessions that ended well.
Init ==
  /\ state \in [Resources -> {"absent", "ready", "deleted"}]
  /\ \A w \in Worktrees : state[w] # "absent" => state[RepositoryOf[w]] # "absent"
  /\ files \in SUBSET {r \in Resources : state[r] = "ready"}
  /\ \A w \in files \cap Worktrees : RepositoryOf[w] \in files
  /\ quarantine = {}
  /\ token = [r \in Resources |-> NoToken]
  /\ retry = {}
  /\ lease = [a \in Runs |-> "none"]
  /\ run = [a \in Runs |-> "idle"]
  /\ collector = [c \in Collectors |-> Idle]
  /\ core = "down"
  /\ visited = {}
  /\ issued = 0 /\ faults = 0 /\ crashes = 0

-----------------------------------------------------------------------------
(* A run: the pool prepares its worktree, protect leases it *)

RunAt(a, step) == core = "up" /\ run[a] = step
Goes(a, step)  == run' = [run EXCEPT ![a] = step]

\* prepareBareRepository and recreateWorktree, under the repository's lock.
Prepare(a) ==
  /\ RunAt(a, "idle")
  /\ files' = files \cup Needs(a)
  /\ Goes(a, "inspect")
  /\ UNCHANGED <<catalog, lease, quarantine, collector, core, visited, bounds>>

\* A worktree whose slot in the pool's manifest is not held by a run.
Free(w) == \A a \in Runs : WorktreeOf[a] = w => run[a] \in {"idle", "done"}

\* reserveSlot takes over the oldest free slot when the pool is full.  Its worktree is removed
\* first; the run that does so works on another repository and need not be among Runs.
EvictSlot(w) ==
  /\ core = "up"
  /\ w \in files
  /\ Free(w)
  /\ files' = files \ {w}
  /\ UNCHANGED <<catalog, lease, quarantine, run, collector, core, visited, bounds>>

\* inspectManagedWorkspace measures both directories, which fails when one is missing.
Inspect(a) ==
  /\ RunAt(a, "inspect")
  /\ Goes(a, IF Needs(a) \subseteq files THEN "registerRepository" ELSE "leaving")
  /\ UNCHANGED <<catalog, lease, disk, collector, core, visited, bounds>>

\* INSERT ... ON CONFLICT DO NOTHING: a known row is returned whatever its state.
Register(a, r, step, next) ==
  /\ RunAt(a, step)
  /\ state' = [state EXCEPT ![r] = IF @ = "absent" THEN "ready" ELSE @]
  /\ Goes(a, next)
  /\ UNCHANGED <<token, retry, lease, disk, collector, core, visited, bounds>>

\* The size that was measured is recorded, and a deleted row is ready again.
RecordUsage(a, r, step, next) ==
  /\ RunAt(a, step)
  /\ IF state[r] \in {"ready", "deleted"}
       THEN /\ state' = [state EXCEPT ![r] = "ready"]
            /\ token' = [token EXCEPT ![r] = NoToken]
            /\ retry' = retry \ {r}
            /\ Goes(a, next)
       ELSE Goes(a, "leaving") /\ UNCHANGED catalog
  /\ UNCHANGED <<lease, disk, collector, core, visited, bounds>>

Repository(a) == RepositoryOf[WorktreeOf[a]]

RegisterBoth(a) ==
  \/ Register(a, Repository(a), "registerRepository", "registerWorktree")
  \/ Register(a, WorktreeOf[a], "registerWorktree", "recordRepository")

RecordBoth(a) ==
  \/ RecordUsage(a, Repository(a), "recordRepository", "recordWorktree")
  \/ RecordUsage(a, WorktreeOf[a], "recordWorktree", "lease")

\* Mutant: only the worktree has to be ready.
Wrong_Leasable(a) == state[WorktreeOf[a]] = "ready"

\* INSERT ... SELECT ... WHERE state = 'ready', for both rows in one transaction.
Leasable(a) == \A r \in Needs(a) : state[r] = "ready"

AcquireLeases(a) ==
  /\ RunAt(a, "lease")
  /\ IF Leasable(a)
       THEN lease' = [lease EXCEPT ![a] = "live"] /\ Goes(a, "using")
       ELSE Goes(a, "leaving") /\ UNCHANGED lease
  /\ UNCHANGED <<catalog, disk, collector, core, visited, bounds>>

\* The use ends, is interrupted, or loses the race against a renewal that failed.
ReleaseLeases(a) ==
  /\ RunAt(a, "using")
  /\ lease' = [lease EXCEPT ![a] = "none"]
  /\ Goes(a, "leaving")
  /\ UNCHANGED <<catalog, disk, collector, core, visited, bounds>>

\* No renewal came in time: the machine slept or Core is down.
LeaseExpires(a) ==
  /\ lease[a] = "live"
  /\ lease' = [lease EXCEPT ![a] = "expired"]
  /\ UNCHANGED <<catalog, disk, run, collector, core, visited, bounds>>

\* The pool removes the worktree, restores it for the next run, or fails to.
Leave(a) ==
  /\ RunAt(a, "leaving")
  /\ files' \in {files, files \ {WorktreeOf[a]}}
                  \cup {files \cup {w} : w \in {WorktreeOf[a]} \cap {x \in Worktrees : RepositoryOf[x] \in files}}
  /\ Goes(a, "done")
  /\ UNCHANGED <<catalog, lease, quarantine, collector, core, visited, bounds>>

-----------------------------------------------------------------------------
(* A collector: beginCollection, then resume *)

At(c, step) == core # "down" /\ collector[c].step = step
Turns(c, step) ==
  collector' = [collector EXCEPT ![c] = [@ EXCEPT !.step = step]]
Ends(c) == collector' = [collector EXCEPT ![c] = Idle]

\* Mutant: leases are not consulted.
Wrong_Unleased(r) == TRUE

\* No lease on the resource or a descendant that has not expired.
Unleased(r) == \A a \in Runs : lease[a] = "live" => Needs(a) \cap Tree(r) = {}

\* Mutant: a collection under way may be begun again.
Wrong_Collectible(r) == state[r] \in {"ready"} \cup Collecting /\ Unleased(r)

Collectible(r) == state[r] \in {"ready", "deletionFailed"} /\ Unleased(r)

\* UPDATE resources SET state = 'collecting', recovery_token = ?: a new token each time.
BeginCollection(c, r) ==
  /\ collector[c] = Idle
  /\ Collectible(r)
  /\ issued < MaxTokens
  /\ issued' = issued + 1
  /\ state' = [state EXCEPT ![r] = "collecting"]
  /\ token' = [token EXCEPT ![r] = issued + 1]
  /\ collector' = [collector EXCEPT ![c] =
                     [step |-> "quarantine", target |-> r, token |-> issued + 1]]
  /\ UNCHANGED <<retry, lease, disk, run, core, faults, crashes>>

\* A candidate of collectPolicy or clearCache.
Collect(c, r) ==
  /\ core = "up"
  /\ BeginCollection(c, r)
  /\ UNCHANGED visited

\* The rename and the removal may fail: a busy file, a permission, a full disk.
Fault == faults < MaxFaults /\ faults' = faults + 1

\* adapter.quarantine: nothing to do when the path is missing, refused when both exist.
Quarantine(c) ==
  LET r == collector[c].target
      t == collector[c].token IN
  /\ At(c, "quarantine")
  /\ \/ /\ r \in files /\ <<r, t>> \notin quarantine
        /\ files' = files \ {r}
        /\ quarantine' = quarantine \cup {<<r, t>>}
        /\ Turns(c, "record")
        /\ UNCHANGED faults
     \/ /\ r \notin files
        /\ Turns(c, "record")
        /\ UNCHANGED <<disk, faults>>
     \/ /\ r \in files
        /\ \/ <<r, t>> \in quarantine /\ UNCHANGED faults
           \/ Fault
        /\ Turns(c, "fail")
        /\ UNCHANGED disk
  /\ UNCHANGED <<catalog, lease, run, core, visited, issued, crashes>>

\* The row is still this collection's.
OwnsRow(c, states) ==
  /\ token[collector[c].target] = collector[c].token
  /\ state[collector[c].target] \in states

RecordQuarantine(c) ==
  /\ At(c, "record")
  /\ IF OwnsRow(c, Collecting)
       THEN /\ state' = [state EXCEPT ![collector[c].target] = "quarantined"]
            /\ Turns(c, "delete")
       ELSE Turns(c, "fail") /\ UNCHANGED state
  /\ UNCHANGED <<token, retry, lease, disk, run, core, visited, bounds>>

\* Mutant: an error of rm is ignored, as with force on every error.
Wrong_Delete(c) ==
  /\ At(c, "delete")
  /\ Turns(c, "complete")
  /\ \/ /\ quarantine' = quarantine \ {<<collector[c].target, collector[c].token>>}
        /\ UNCHANGED faults
     \/ Fault /\ UNCHANGED quarantine
  /\ UNCHANGED <<catalog, lease, files, run, core, visited, issued, crashes>>

\* adapter.delete removes the quarantined path of this token, if there is one.
Delete(c) ==
  /\ At(c, "delete")
  /\ \/ /\ quarantine' = quarantine \ {<<collector[c].target, collector[c].token>>}
        /\ Turns(c, "complete")
        /\ UNCHANGED faults
     \/ Fault /\ Turns(c, "fail") /\ UNCHANGED quarantine
  /\ UNCHANGED <<catalog, lease, files, run, core, visited, issued, crashes>>

CompleteDeletion(c) ==
  LET r == collector[c].target IN
  /\ At(c, "complete")
  /\ IF OwnsRow(c, {"quarantined", "deletionFailed"})
       THEN /\ state' = [state EXCEPT ![r] = "deleted"]
            /\ token' = [token EXCEPT ![r] = NoToken]
            /\ retry' = retry \ {r}
            /\ Ends(c)
       ELSE Turns(c, "fail") /\ UNCHANGED catalog
  /\ UNCHANGED <<lease, disk, run, core, visited, bounds>>

\* failDeletion keeps the token and schedules a retry; if the row has moved on it fails too.
FailDeletion(c) ==
  LET r == collector[c].target IN
  /\ At(c, "fail")
  /\ IF OwnsRow(c, Collecting)
       THEN /\ state' = [state EXCEPT ![r] = "deletionFailed"]
            /\ retry' = retry \cup {r}
       ELSE UNCHANGED <<state, retry>>
  /\ Ends(c)
  /\ UNCHANGED <<token, lease, disk, run, core, visited, bounds>>

Resume(c) ==
  Quarantine(c) \/ RecordQuarantine(c) \/ Delete(c) \/ CompleteDeletion(c) \/ FailDeletion(c)

-----------------------------------------------------------------------------
(* Deaths of Core, and the startup that follows before requests are admitted *)

Crash ==
  /\ core # "down"
  /\ crashes < MaxCrashes
  /\ crashes' = crashes + 1
  /\ core' = "down"
  /\ run' = [a \in Runs |-> IF run[a] = "done" THEN "done" ELSE "idle"]
  /\ collector' = [c \in Collectors |-> Idle]
  /\ UNCHANGED <<catalog, lease, disk, visited, issued, faults>>

\* expireStaleOwnership deletes the leases of every other epoch, then reconcile begins.
Restart ==
  /\ core = "down"
  /\ core' = "reconciling"
  /\ lease' = [a \in Runs |-> "none"]
  /\ visited' = {}
  /\ UNCHANGED <<catalog, disk, run, collector, bounds>>

\* reconcile visits the rows one after the other.
Visits(c, r) ==
  /\ core = "reconciling"
  /\ AllIdle
  /\ r \notin visited
  /\ visited' = visited \cup {r}

\* Mutant: only rows whose files were recorded as quarantined are resumed.
Wrong_ResumeStale(c, r) ==
  /\ Visits(c, r)
  /\ state[r] \in Collecting
  /\ collector' = IF state[r] = "collecting" THEN collector
                  ELSE [collector EXCEPT ![c] =
                     [step |-> "quarantine", target |-> r, token |-> token[r]]]
  /\ UNCHANGED <<catalog, lease, disk, run, core, bounds>>

\* A collection that was cut short is resumed with the token of its row.
ResumeStale(c, r) ==
  /\ Visits(c, r)
  /\ state[r] \in Collecting
  /\ collector' = [collector EXCEPT ![c] =
                     [step |-> "quarantine", target |-> r, token |-> token[r]]]
  /\ UNCHANGED <<catalog, lease, disk, run, core, bounds>>

\* A ready row whose path is gone is collected, within the attempts of one pass.
CollectMissing(c, r) ==
  /\ Visits(c, r)
  /\ state[r] = "ready" /\ r \notin files
  /\ BeginCollection(c, r)

\* A retry that is not yet due may be skipped; it is not known here when it is due.
FinishReconcile ==
  /\ core = "reconciling"
  /\ AllIdle
  /\ \A r \in Resources : state[r] \in Collecting => r \in visited \cup retry
  /\ core' = "up"
  /\ UNCHANGED <<catalog, lease, disk, run, collector, visited, bounds>>

-----------------------------------------------------------------------------
RunNext(a) ==
  \/ Prepare(a) \/ Inspect(a) \/ RegisterBoth(a) \/ RecordBoth(a) \/ AcquireLeases(a)
  \/ ReleaseLeases(a) \/ LeaseExpires(a) \/ Leave(a)

Startup ==
  \/ Restart
  \/ \E c \in Collectors, r \in Resources : ResumeStale(c, r)
  \/ FinishReconcile

Next ==
  \/ \E a \in Runs : RunNext(a)
  \/ \E w \in Worktrees : EvictSlot(w)
  \/ \E c \in Collectors :
       Resume(c) \/ \E r \in Resources : Collect(c, r) \/ CollectMissing(c, r)
  \/ Crash
  \/ Startup

Spec == Init /\ [][Next]_vars

\* The application is started again, and a fiber that collects goes on.
Fairness == WF_vars(Startup) /\ \A c \in Collectors : WF_vars(Resume(c))

FairSpec == Spec /\ Fairness

-----------------------------------------------------------------------------
(* Properties *)

\* Every variable has its type; a row has a recovery token exactly while it is being
\* collected (the CHECK of the resources table), and a collector at work has a target.
TypeOK ==
  /\ state \in [Resources -> States]
  /\ token \in [Resources -> Tokens \cup {NoToken}]
  /\ \A r \in Resources : token[r] \in Tokens <=> state[r] \in Collecting
  /\ retry \subseteq Resources
  /\ lease \in [Runs -> {"none", "live", "expired"}]
  /\ files \subseteq Resources
  /\ quarantine \subseteq Resources \X Tokens
  /\ run \in [Runs -> RunSteps]
  /\ collector \in [Collectors ->
                     {Idle} \cup [step : CollectorSteps, target : Resources, token : Tokens]]
  /\ core \in {"down", "reconciling", "up"}
  /\ visited \subseteq Resources
  /\ issued \in 0 .. MaxTokens /\ faults \in 0 .. MaxFaults /\ crashes \in 0 .. MaxCrashes

\* "Agent execution atomically leases both its generated worktree and parent bare
\* repository": while the leases live, neither row leaves the ready state, so that no
\* collection of either can begin or be under way.
LeaseKeepsReady ==
  \A a \in Runs : lease[a] = "live" => \A r \in Needs(a) : state[r] = "ready"

\* A collection has one worker, and while it works the row is being collected under its
\* token: policy passes, cache clearing and reconciliation never share a resource.
CollectionHasOneOwner ==
  \A c \in Collectors :
    collector[c] # Idle =>
      /\ OwnsRow(c, Collecting)
      /\ \A d \in Collectors \ {c} : collector[d].target # collector[c].target

\* The two claims on a row exclude each other: leases keep it ready, and a collection that
\* has begun is one worker's.
RowsAreClaimedOnce == LeaseKeepsReady /\ CollectionHasOneOwner

\* "Live leases on a resource or descendant protect the complete tree": the files of a
\* live lease stay where they are, whatever collectors and other runs do.
LeasedFilesStay ==
  [][\A a \in Runs : lease[a] = "live" => files \cap Needs(a) \subseteq files']_vars

\* A deletion is recorded only when the quarantined files of that collection are gone,
\* although the removal may fail, or Core may die between removal and record.
DeletionIsReal ==
  [][\A r \in Resources :
       (state[r] # "deleted" /\ state'[r] = "deleted") => <<r, token[r]>> \notin quarantine']_vars

\* A collection that Core's death cuts short is finished or reported after the restart.
\* Rows with a retry time are excepted: reconcile may leave them until a later start.
CollectionSettles ==
  \A r \in Resources :
    (state[r] \in {"collecting", "quarantined"} /\ r \notin retry)
      ~> state[r] \notin {"collecting", "quarantined"}

-----------------------------------------------------------------------------
(* What the code does not keep *)

\* "retains failed-deletion bytes and requires the persisted recovery token": a row counts
\* as deleted only when nothing of it is left in quarantine.
DeletedLeavesNothing ==
  \A r \in Resources : state[r] = "deleted" => \A t \in Tokens : <<r, t>> \notin quarantine

\* "policy collection cannot bypass foreground or durable-operation leases": a run works on
\* files that exist.
LeasedFilesExist ==
  \A a \in Runs : (run[a] = "using" /\ lease[a] = "live") => Needs(a) \subseteq files
=============================================================================
