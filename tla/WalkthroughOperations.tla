------------------------ MODULE WalkthroughOperations ------------------------
(***************************************************************************)
(* Durable walkthrough generation: the SQLite rows of                      *)
(* WalkthroughOperationStore, the scoped FiberMap of workers kept by       *)
(* makeWalkthroughOperations, the start semaphore, cancellation requests,  *)
(* and the startup recovery of a Core process whose predecessor died.      *)
(*                                                                         *)
(* Every SQLite transaction is one action; everything Core does between    *)
(* two transactions is a step of its own, so starts, cancellations,        *)
(* workers, crashes and restarts interleave as the fibers do.  Terminal    *)
(* hints are published after a commit, isolated with Effect.exit, and no   *)
(* state depends on them: they are left out.                               *)
(***************************************************************************)
EXTENDS Naturals, FiniteSets

CONSTANTS
  Identities,        \* exact generations: repo, review key, revisions, prompt version
  Keys,              \* idempotency keys of start requests
  Snapshots,         \* immutable snapshot ids a request may name
  Cancellers,        \* concurrent Walkthroughs.cancel requests
  MaxOps,            \* bound: operation rows ever inserted
  MaxClock,          \* bound: distinct wall-clock readings used as accepted_at
  MaxCrashes,        \* bound: deaths of the Core process
  MaxFaults,         \* bound: workers lost to a store error or an inner interrupt
  ClockMayStepBack,  \* whether DateTime.now may return an earlier reading
  HeadOnlyIdentities,\* identities with only a migrated row whose base_sha = head_sha
  NoEvidence,        \* a row without acceptance evidence (accepted by an older version)
  NoArtifact,        \* no walkthroughs row answers WalkthroughStore.get
  HeadOnly,          \* only the base_sha = head_sha fallback row answers it
  OlderArtifact      \* an exact row saved before operations were recorded

Ops == 1 .. MaxOps
NoOp == 0
ArtifactSources == Ops \cup {NoArtifact, HeadOnly, OlderArtifact}

ASSUME BoundsAssumption ==
  /\ MaxOps \in Nat \ {0}
  /\ MaxClock \in Nat \ {0}
  /\ MaxCrashes \in Nat
  /\ MaxFaults \in Nat
  /\ ClockMayStepBack \in BOOLEAN
  /\ HeadOnlyIdentities \subseteq Identities

\* The markers are values of their own, no operation and no evidence record.
ASSUME MarkerAssumption ==
  /\ NoArtifact \notin Ops /\ HeadOnly \notin Ops /\ OlderArtifact \notin Ops
  /\ NoArtifact # HeadOnly /\ NoArtifact # OlderArtifact /\ HeadOnly # OlderArtifact
  /\ NoEvidence \notin [key : Keys, snapshot : Snapshots, regenerate : BOOLEAN]

VARIABLES
  rows,        \* walkthrough_operations joined with walkthrough_operation_acceptances
  artifact,    \* walkthroughs: which operation last saved the identity's content
  core,        \* "down", "recovering" (start is running) or "up" (requests admitted)
  ownEpoch,    \* operations whose evidence carries the running process's epoch
  worker,      \* FiberMap: where each operation's worker fiber stands
  interrupted, \* worker fibers whose interruption has been requested
  starting,    \* the start request inside startSemaphore, after its transaction
  cancelling,  \* the cancelSnapshot loops
  crashes, faults

durable  == <<rows, artifact>>
volatile == <<ownEpoch, worker, interrupted, starting, cancelling>>
counters == <<crashes, faults>>
vars     == <<durable, core, volatile, counters>>

-----------------------------------------------------------------------------
(* Row vocabulary *)

Active    == {"accepted", "running"}
Terminal  == {"completed", "failed", "cancelled", "superseded", "interrupted"}
RowStates == {"absent"} \cup Active \cup Terminal

Evidence == [key : Keys, snapshot : Snapshots, regenerate : BOOLEAN]

Row == [state : RowStates, version : Nat, identity : Identities,
        acceptedAt : 0 .. MaxClock, regenerationOf : Ops \cup {NoOp},
        supersededBy : Ops \cup {NoOp}, evidence : Evidence \cup {NoEvidence}]

WorkerStates == {"none", "starting", "generating", "saved", "failing"}

IsActive(o) == rows[o].state \in Active
Exists(o)   == rows[o].state # "absent"
Regenerates(o) == rows[o].evidence # NoEvidence /\ rows[o].evidence.regenerate

ExactOps(i) == {o \in Ops : Exists(o) /\ rows[o].identity = i}

\* Mutant: rows of equal timestamps are ordered by rowid ascending.
Wrong_NotAfter(p, o) == \/ rows[p].acceptedAt < rows[o].acceptedAt
                        \/ rows[p].acceptedAt = rows[o].acceptedAt /\ p >= o

\* ORDER BY accepted_at DESC, rowid DESC LIMIT 1; operations are numbered by rowid.
NotAfter(p, o) == \/ rows[p].acceptedAt < rows[o].acceptedAt
                  \/ rows[p].acceptedAt = rows[o].acceptedAt /\ p <= o
\* Mutant: any row of the generation, without the ORDER BY.
Wrong_IsLatestExact(o, i) == o \in ExactOps(i)

IsLatestExact(o, i) == o \in ExactOps(i) /\ \A p \in ExactOps(i) : NotAfter(p, o)

\* Mutant: acceptances are not looked up by key.
Wrong_OpsOfKey(k) == {}

OpsOfKey(k) == {o \in Ops : rows[o].evidence # NoEvidence /\ rows[o].evidence.key = k}

\* The id of the next INSERT: rows are numbered in insertion order.
IsNextOp(o) == /\ ~Exists(o)
               /\ \A p \in Ops : p < o => Exists(p)

\* A reading of the wall clock by a transaction.
ClockReads(t) == \/ ClockMayStepBack
                 \/ \A p \in Ops : rows[p].acceptedAt <= t

\* walkthrough_operations_one_active_generation_idx, checked by the INSERT.
NoOtherActive(i, o) == \A p \in ExactOps(i) \ {o} : ~IsActive(p)

HasExactArtifact(i) == artifact[i] \in Ops \cup {OlderArtifact}

AcceptedRow(i, e, t, prior) ==
  [state |-> "accepted", version |-> 1, identity |-> i, acceptedAt |-> t,
   regenerationOf |-> prior, supersededBy |-> NoOp, evidence |-> e]

Settled(row, state) == [row EXCEPT !.state = state, !.version = @ + 1]

\* Mutant: the replaced operation is linked to its replacement but keeps its state.
Wrong_SupersededRow(row, by) == [row EXCEPT !.version = @ + 1, !.supersededBy = by]

SupersededRow(row, by) ==
  [row EXCEPT !.state = "superseded", !.version = @ + 1, !.supersededBy = by]

AbsentRow(i) ==
  [state |-> "absent", version |-> 0, identity |-> i, acceptedAt |-> 0,
   regenerationOf |-> NoOp, supersededBy |-> NoOp, evidence |-> NoEvidence]

NotStarting == [phase |-> "idle", op |-> NoOp, prior |-> NoOp]
NotCancelling == [phase |-> "idle", op |-> NoOp, version |-> 0]

-----------------------------------------------------------------------------
(* A first start of this version over a database that may hold one row      *)
(* accepted by an older version (no evidence) and older walkthroughs rows.  *)

OlderRow(i, state) ==
  [AcceptedRow(i, NoEvidence, 1, NoOp) EXCEPT
     !.state = state, !.version = IF state = "accepted" THEN 1
                                  ELSE IF state = "running" THEN 2 ELSE 3]

Init ==
  /\ \E i \in Identities :
       \E first \in {AbsentRow(i)} \cup
                    {OlderRow(i, s) : s \in {"accepted", "running", "completed", "failed"}} :
         rows = [o \in Ops |-> IF o = 1 THEN first ELSE AbsentRow(i)]
  /\ artifact \in [Identities -> {NoArtifact, HeadOnly, OlderArtifact}]
  /\ \A i \in Identities : (artifact[i] = HeadOnly) = (i \in HeadOnlyIdentities)
  /\ \A o \in Ops : rows[o].state = "completed" => HasExactArtifact(rows[o].identity)
  /\ core = "down"
  /\ ownEpoch = {}
  /\ worker = [o \in Ops |-> "none"]
  /\ interrupted = {}
  /\ starting = NotStarting
  /\ cancelling = [c \in Cancellers |-> NotCancelling]
  /\ crashes = 0
  /\ faults = 0

-----------------------------------------------------------------------------
(* acceptOrGet, under startSemaphore.  A request whose key is already        *)
(* recorded returns that operation or an error, and a non-regenerate request *)
(* whose latest exact operation has evidence returns that operation: neither *)
(* writes anything, so neither is an action.                                 *)

CanStart == core = "up" /\ starting.phase = "idle"

\* A non-regenerate start that attaches to a row without evidence records its own.
AcceptAttach(o, e) ==
  /\ CanStart
  /\ OpsOfKey(e.key) = {}
  /\ ~e.regenerate
  /\ IsLatestExact(o, rows[o].identity)
  /\ rows[o].evidence = NoEvidence
  /\ rows' = [rows EXCEPT ![o].evidence = e]
  /\ UNCHANGED <<artifact, core, volatile, counters>>

\* The first operation of an exact identity.
AcceptFirst(o, i, e, t) ==
  /\ CanStart
  /\ OpsOfKey(e.key) = {}
  /\ ExactOps(i) = {}
  /\ IsNextOp(o)
  /\ ClockReads(t)
  /\ rows' = [rows EXCEPT ![o] = AcceptedRow(i, e, t, NoOp)]
  /\ ownEpoch' = ownEpoch \cup {o}
  /\ starting' = [phase |-> "forking", op |-> o, prior |-> NoOp]
  /\ UNCHANGED <<artifact, core, worker, interrupted, cancelling, counters>>

\* A regeneration supersedes the latest exact operation, whatever its state, in the
\* transaction that inserts the replacement; the unique index may refuse the INSERT.
AcceptRegeneration(o, prior, i, e, t) ==
  /\ CanStart
  /\ OpsOfKey(e.key) = {}
  /\ e.regenerate
  /\ IsLatestExact(prior, i)
  /\ IsNextOp(o)
  /\ ClockReads(t)
  /\ NoOtherActive(i, prior)
  /\ rows' = [rows EXCEPT ![prior] = SupersededRow(rows[prior], o),
                          ![o] = AcceptedRow(i, e, t, prior)]
  /\ ownEpoch' = ownEpoch \cup {o}
  /\ starting' = [phase |-> "superseding", op |-> o, prior |-> prior]
  /\ UNCHANGED <<artifact, core, worker, interrupted, cancelling, counters>>

\* Mutant: the superseded fiber is awaited but not interrupted.
Wrong_InterruptSuperseded ==
  /\ core = "up"
  /\ starting.phase = "superseding"
  /\ starting' = [starting EXCEPT !.phase = "forking"]
  /\ UNCHANGED <<durable, core, ownEpoch, worker, interrupted, cancelling, counters>>

\* activeWorkers.cancel(prior): FiberMap.remove interrupts the fiber and awaits its exit.
InterruptSuperseded ==
  /\ core = "up"
  /\ starting.phase = "superseding"
  /\ interrupted' = interrupted \cup
       (IF worker[starting.prior] = "none" THEN {} ELSE {starting.prior})
  /\ starting' = [starting EXCEPT !.phase = "forking"]
  /\ UNCHANGED <<durable, core, ownEpoch, worker, cancelling, counters>>

\* Mutant: the new worker is forked without awaiting the superseded one.
Wrong_ForkWorker ==
  /\ core = "up"
  /\ starting.phase = "forking"
  /\ worker' = [worker EXCEPT ![starting.op] = "starting"]
  /\ starting' = NotStarting
  /\ UNCHANGED <<durable, core, ownEpoch, interrupted, cancelling, counters>>

\* activeWorkers.run, once the superseded worker has left the map.
ForkWorker ==
  /\ core = "up"
  /\ starting.phase = "forking"
  /\ starting.prior # NoOp => worker[starting.prior] = "none"
  /\ worker' = [worker EXCEPT ![starting.op] = "starting"]
  /\ starting' = NotStarting
  /\ UNCHANGED <<durable, core, ownEpoch, interrupted, cancelling, counters>>

-----------------------------------------------------------------------------
(* runOperation in a worker fiber.  The fiber leaves the FiberMap ("none")   *)
(* however it ends; an interrupted fiber may still finish the call it is in. *)

\* Mutant: an ended fiber is kept in the map.
Wrong_WorkerEnds(o) ==
  /\ worker' = [worker EXCEPT ![o] = "ended"]
  /\ interrupted' = interrupted \ {o}

WorkerEnds(o) ==
  /\ worker' = [worker EXCEPT ![o] = "none"]
  /\ interrupted' = interrupted \ {o}

WorkerAt(o, place) == core = "up" /\ worker[o] = place

\* Mutant: the guard forgets the allowed states and accepts a newer version.
Wrong_Wins(o, version, states) == rows[o].version >= version

\* The guard of guardedTransition: the version read by the caller and an allowed state.
Wins(o, version, states) == rows[o].version = version /\ rows[o].state \in states

MarkRunning(o) ==
  /\ WorkerAt(o, "starting")
  /\ Wins(o, 1, {"accepted"})
  /\ rows' = [rows EXCEPT ![o] = Settled(@, "running")]
  /\ worker' = [worker EXCEPT ![o] = "generating"]
  /\ UNCHANGED <<artifact, core, ownEpoch, interrupted, starting, cancelling, counters>>

MarkRunningLost(o) ==
  /\ WorkerAt(o, "starting")
  /\ ~Wins(o, 1, {"accepted"})
  /\ WorkerEnds(o)
  /\ UNCHANGED <<durable, core, ownEpoch, starting, cancelling, counters>>

\* loadOrGenerate returns the exact cached walkthrough of a non-regenerate operation.
UseCached(o) ==
  /\ WorkerAt(o, "generating")
  /\ ~Regenerates(o) /\ HasExactArtifact(rows[o].identity)
  /\ worker' = [worker EXCEPT ![o] = "saved"]
  /\ UNCHANGED <<durable, core, ownEpoch, interrupted, starting, cancelling, counters>>

\* walkthroughStore.save after the provider answered, or of the head-only fallback row
\* (ensureExactWalkthrough); reading the saved row back may still fail.
SaveArtifact(o) ==
  /\ WorkerAt(o, "generating")
  /\ Regenerates(o) \/ ~HasExactArtifact(rows[o].identity)
  /\ artifact' = [artifact EXCEPT ![rows[o].identity] = o]
  /\ \E place \in {"saved", "failing"} : worker' = [worker EXCEPT ![o] = place]
  /\ UNCHANGED <<rows, core, ownEpoch, interrupted, starting, cancelling, counters>>

\* An expected failure or a defect; both persist state 'failed'.
GenerationFails(o) ==
  /\ WorkerAt(o, "generating")
  /\ worker' = [worker EXCEPT ![o] = "failing"]
  /\ UNCHANGED <<durable, core, ownEpoch, interrupted, starting, cancelling, counters>>

CompleteSuccess(o) ==
  /\ WorkerAt(o, "saved")
  /\ Wins(o, 2, {"running"})
  /\ HasExactArtifact(rows[o].identity)   \* foreign key of the artifact reference
  /\ rows' = [rows EXCEPT ![o] = Settled(@, "completed")]
  /\ WorkerEnds(o)
  /\ UNCHANGED <<artifact, core, ownEpoch, starting, cancelling, counters>>

PersistFailure(o) ==
  /\ WorkerAt(o, "failing")
  /\ Wins(o, 2, Active)
  /\ rows' = [rows EXCEPT ![o] = Settled(@, "failed")]
  /\ WorkerEnds(o)
  /\ UNCHANGED <<artifact, core, ownEpoch, starting, cancelling, counters>>

\* The terminal transition finds another winner: the result is dropped.
TerminalLost(o) ==
  /\ \/ WorkerAt(o, "saved") /\ ~Wins(o, 2, {"running"})
     \/ WorkerAt(o, "failing") /\ ~Wins(o, 2, Active)
  /\ WorkerEnds(o)
  /\ UNCHANGED <<durable, core, ownEpoch, starting, cancelling, counters>>

\* Interruption skips persistWalkthroughTerminalExit.
WorkerInterrupted(o) ==
  /\ core = "up" /\ worker[o] # "none" /\ o \in interrupted
  /\ WorkerEnds(o)
  /\ UNCHANGED <<durable, core, ownEpoch, starting, cancelling, counters>>

\* A store error in markRunning or in the terminal transition, or a generation that ends in
\* interrupts only: the worker ends and the row keeps its active state.
WorkerLost(o) ==
  /\ core = "up" /\ worker[o] # "none"
  /\ faults < MaxFaults
  /\ faults' = faults + 1
  /\ WorkerEnds(o)
  /\ UNCHANGED <<durable, core, ownEpoch, starting, cancelling, crashes>>

-----------------------------------------------------------------------------
(* cancelSnapshot: read, then requestCancellation until a version wins.      *)

CancelRead(c, o) ==
  /\ core = "up" /\ cancelling[c].phase = "idle"
  /\ IsActive(o)
  /\ cancelling' = [cancelling EXCEPT
       ![c] = [phase |-> "requesting", op |-> o, version |-> rows[o].version]]
  /\ UNCHANGED <<durable, core, ownEpoch, worker, interrupted, starting, counters>>

RequestCancellation(c) ==
  LET o == cancelling[c].op IN
  /\ core = "up" /\ cancelling[c].phase = "requesting"
  /\ Wins(o, cancelling[c].version, Active)
  /\ rows' = [rows EXCEPT ![o] = Settled(@, "cancelled")]
  /\ cancelling' = [cancelling EXCEPT ![c].phase = "interrupting"]
  /\ UNCHANGED <<artifact, core, ownEpoch, worker, interrupted, starting, counters>>

\* Mutant: the worker is interrupted whether or not the cancellation won.
Wrong_CancellationLost(c) ==
  LET o == cancelling[c].op IN
  /\ core = "up" /\ cancelling[c].phase = "requesting"
  /\ ~Wins(o, cancelling[c].version, Active)
  /\ cancelling' = [cancelling EXCEPT ![c].phase = "interrupting"]
  /\ UNCHANGED <<durable, core, ownEpoch, worker, interrupted, starting, counters>>

\* Mutant: the loop retries with the version it first read.
Wrong_CancellationRetry(c) ==
  LET o == cancelling[c].op IN
  /\ core = "up" /\ cancelling[c].phase = "requesting"
  /\ ~Wins(o, cancelling[c].version, Active)
  /\ cancelling' = [cancelling EXCEPT ![c] = IF IsActive(o) THEN @ ELSE NotCancelling]
  /\ UNCHANGED <<durable, core, ownEpoch, worker, interrupted, starting, counters>>

\* A lost race returns the row it read: retry from it while it is active.
CancellationLost(c) ==
  LET o == cancelling[c].op IN
  /\ core = "up" /\ cancelling[c].phase = "requesting"
  /\ ~Wins(o, cancelling[c].version, Active)
  /\ cancelling' = [cancelling EXCEPT
       ![c] = IF IsActive(o) THEN [@ EXCEPT !.version = rows[o].version]
                             ELSE NotCancelling]
  /\ UNCHANGED <<durable, core, ownEpoch, worker, interrupted, starting, counters>>

InterruptCancelled(c) ==
  LET o == cancelling[c].op IN
  /\ core = "up" /\ cancelling[c].phase = "interrupting"
  /\ interrupted' = interrupted \cup (IF worker[o] = "none" THEN {} ELSE {o})
  /\ cancelling' = [cancelling EXCEPT ![c].phase = "awaiting"]
  /\ UNCHANGED <<durable, core, ownEpoch, worker, starting, counters>>

CancelReturns(c) ==
  /\ core = "up" /\ cancelling[c].phase = "awaiting"
  /\ cancelling[c].op \notin interrupted
  /\ cancelling' = [cancelling EXCEPT ![c] = NotCancelling]
  /\ UNCHANGED <<durable, core, ownEpoch, worker, interrupted, starting, counters>>

-----------------------------------------------------------------------------
(* The Core process: death, restart, CoreOperationService.start.             *)

LoseMemory ==
  /\ core' = "down"
  /\ ownEpoch' = {}
  /\ worker' = [o \in Ops |-> "none"]
  /\ interrupted' = {}
  /\ starting' = NotStarting
  /\ cancelling' = [c \in Cancellers |-> NotCancelling]

Crash ==
  /\ core # "down"
  /\ crashes < MaxCrashes
  /\ crashes' = crashes + 1
  /\ LoseMemory
  /\ UNCHANGED <<durable, faults>>

Restart ==
  /\ core = "down"
  /\ core' = "recovering"
  /\ UNCHANGED <<durable, volatile, counters>>

\* Mutant: only content the operation itself saved is reconciled, older content is waited for.
Wrong_ReconcileSaved(o) ==
  /\ core = "recovering"
  /\ rows[o].state = "running"
  /\ artifact[rows[o].identity] = o
  /\ rows' = [rows EXCEPT ![o] = Settled(@, "completed")]
  /\ UNCHANGED <<artifact, core, volatile, counters>>

\* A running row whose walkthrough can be read is completed with it.
ReconcileSaved(o) ==
  /\ core = "recovering"
  /\ rows[o].state = "running"
  /\ HasExactArtifact(rows[o].identity)
  /\ rows' = [rows EXCEPT ![o] = Settled(@, "completed")]
  /\ UNCHANGED <<artifact, core, volatile, counters>>

\* WalkthroughStore.get answers with the head-only row, the exact artifact reference has no
\* walkthroughs row to refer to, and the failed transition fails start with CoreStartupError.
ReconcileFails(o) ==
  /\ core = "recovering"
  /\ rows[o].state = "running"
  /\ artifact[rows[o].identity] = HeadOnly
  /\ LoseMemory
  /\ UNCHANGED <<durable, counters>>

\* Mutant: rows that no worker had started are left accepted.
Wrong_RecoverInterrupted ==
  /\ core = "recovering"
  /\ \A o \in Ops : rows[o].state = "running" => artifact[rows[o].identity] = NoArtifact
  /\ rows' = [o \in Ops |-> IF rows[o].state = "running" THEN Settled(rows[o], "interrupted")
                                                         ELSE rows[o]]
  /\ core' = "up"
  /\ UNCHANGED <<artifact, volatile, counters>>

\* recoverActiveAsInterrupted, after every running row has been inspected; then Core is ready.
RecoverInterrupted ==
  /\ core = "recovering"
  /\ \A o \in Ops : rows[o].state = "running" => artifact[rows[o].identity] = NoArtifact
  /\ rows' = [o \in Ops |-> IF IsActive(o) THEN Settled(rows[o], "interrupted")
                                           ELSE rows[o]]
  /\ core' = "up"
  /\ UNCHANGED <<artifact, volatile, counters>>

-----------------------------------------------------------------------------
Accept ==
  \E o \in Ops, e \in Evidence :
    \/ AcceptAttach(o, e)
    \/ \E i \in Identities, t \in 1 .. MaxClock :
         \/ AcceptFirst(o, i, e, t)
         \/ \E prior \in Ops : AcceptRegeneration(o, prior, i, e, t)

StartSteps == InterruptSuperseded \/ ForkWorker

\* The steps a worker fiber takes without waiting for a provider.
WorkerSteps(o) ==
  \/ MarkRunning(o)     \/ MarkRunningLost(o) \/ UseCached(o)
  \/ CompleteSuccess(o) \/ PersistFailure(o)  \/ TerminalLost(o)
  \/ WorkerInterrupted(o)

ProviderSteps(o) == SaveArtifact(o) \/ GenerationFails(o)

CancelSteps(c) ==
  \/ RequestCancellation(c) \/ CancellationLost(c)
  \/ InterruptCancelled(c)  \/ CancelReturns(c)

Recovery ==
  \/ Restart
  \/ \E o \in Ops : ReconcileSaved(o) \/ ReconcileFails(o)
  \/ RecoverInterrupted

Next ==
  \/ Accept
  \/ StartSteps
  \/ \E o \in Ops : WorkerSteps(o) \/ ProviderSteps(o) \/ WorkerLost(o)
  \/ \E c \in Cancellers : CancelSteps(c) \/ \E o \in Ops : CancelRead(c, o)
  \/ Crash
  \/ Recovery

Spec == Init /\ [][Next]_vars

\* Effect schedules every runnable fiber, and the application is started again after Core
\* dies.  Nothing here makes a provider answer: a generation may hang.
Fairness ==
  /\ WF_vars(StartSteps)
  /\ \A o \in Ops : WF_vars(WorkerSteps(o))
  /\ \A c \in Cancellers : WF_vars(CancelSteps(c))
  /\ WF_vars(Recovery)

FairSpec == Spec /\ Fairness

\* Provider calls end, with a walkthrough or with an error.
ProvidersAnswer == \A o \in Ops : WF_vars(ProviderSteps(o))

-----------------------------------------------------------------------------
(* Invariants *)

\* Every variable keeps its shape; a phase names real operations.
TypeOK ==
  /\ rows \in [Ops -> Row]
  /\ artifact \in [Identities -> ArtifactSources]
  /\ core \in {"down", "recovering", "up"}
  /\ ownEpoch \subseteq Ops
  /\ worker \in [Ops -> WorkerStates]
  /\ interrupted \subseteq Ops
  /\ starting \in [phase : {"idle", "superseding", "forking"},
                   op : Ops \cup {NoOp}, prior : Ops \cup {NoOp}]
  /\ starting.phase # "idle" => starting.op \in Ops
  /\ starting.phase = "superseding" => starting.prior \in Ops
  /\ cancelling \in [Cancellers ->
       [phase : {"idle", "requesting", "interrupting", "awaiting"},
        op : Ops \cup {NoOp}, version : Nat]]
  /\ \A c \in Cancellers : cancelling[c].phase # "idle" => cancelling[c].op \in Ops
  /\ crashes \in 0 .. MaxCrashes
  /\ faults \in 0 .. MaxFaults

\* At most one accepted or running operation per exact generation (acceptOrGet, unique index).
OneActivePerGeneration ==
  \A o, p \in Ops :
    (o # p /\ IsActive(o) /\ IsActive(p)) => rows[o].identity # rows[p].identity

\* Once Core admits requests no row is active on behalf of a dead process: startup settled
\* them all, those never started by a worker included (recoverActiveAsInterrupted).
NoDeadEpochWork == core = "up" => \A o \in Ops : IsActive(o) => o \in ownEpoch

\* An active row has its driver: the start request that will fork its worker, or a worker at
\* the matching place whose interruption nobody requested.  Only a lost worker breaks it.
ActiveIsDriven ==
  (core = "up" /\ faults = 0) =>
    \A o \in Ops :
      /\ rows[o].state = "accepted" =>
           \/ starting.phase # "idle" /\ starting.op = o
           \/ worker[o] = "starting" /\ o \notin interrupted
      /\ rows[o].state = "running" =>
           worker[o] \in {"generating", "saved", "failing"} /\ o \notin interrupted

\* Two workers never generate for the same exact generation at once: a regeneration awaits the
\* end of the worker it supersedes before it forks its own (acceptAndRun).
SoleGenerator ==
  \A o, p \in Ops :
    ( /\ o # p
      /\ worker[o] \in {"generating", "saved"} /\ worker[p] \in {"generating", "saved"} )
    => rows[o].identity # rows[p].identity

\* The row a non-regenerate start attaches to is the active one when there is one
\* (findLatestExactOperation and its rowid tie-break).
ActiveIsLatest ==
  \A o \in Ops : IsActive(o) => IsLatestExact(o, rows[o].identity)

\* Regenerations form one chain: an operation is superseded by exactly the operation that
\* says it regenerates it, later in the same generation.
SupersessionIsAChain ==
  \A o, p \in Ops :
    /\ rows[o].supersededBy = p <=> (Exists(p) /\ rows[p].regenerationOf = o)
    /\ rows[o].supersededBy = p =>
         o < p /\ rows[o].identity = rows[p].identity /\ rows[o].state = "superseded"

\* A completed regeneration is answered with the walkthrough it generated, never with the
\* content of the operation it superseded.
CompletedRegenerationIsFresh ==
  \A o \in Ops :
    (rows[o].state = "completed" /\ Regenerates(o)) => artifact[rows[o].identity] = o

\* A retry never accepts a second operation: a key is recorded for at most one.
KeyNamesOneOperation ==
  \A o, p \in Ops :
    ( /\ rows[o].evidence # NoEvidence /\ rows[p].evidence # NoEvidence
      /\ rows[o].evidence.key = rows[p].evidence.key ) => o = p

\* Of a generation, one operation is active, driven by one worker, and found by a start:
\* starts, regenerations, cancellations and workers that interleave agree on which it is.
GenerationIsDriven == ActiveIsDriven /\ SoleGenerator /\ ActiveIsLatest

\* Operations are accepted once and replaced once: neither a retried start nor a raced
\* regeneration forks the history of a generation.
OperationsAreChained == SupersessionIsAChain /\ KeyNamesOneOperation

-----------------------------------------------------------------------------
(* Action properties *)

\* One terminal winner: a terminal row changes state only when an accepted regeneration
\* supersedes it, in the step that inserts the replacement; recording evidence aside,
\* a row changes only with a higher version.
TerminalHasOneWinner ==
  [][\A o \in Ops :
       /\ (rows[o].state \in Terminal /\ rows'[o].state # rows[o].state) =>
            /\ rows'[o].state = "superseded"
            /\ rows'[o].supersededBy \in Ops
            /\ ~Exists(rows'[o].supersededBy)
            /\ rows'[rows'[o].supersededBy].state = "accepted"
       /\ rows'[o].state # rows[o].state => rows'[o].version > rows[o].version]_vars

-----------------------------------------------------------------------------
(* Refinement *)

PhaseOf(state) ==
  CASE state = "absent"                    -> "none"
    [] state \in Active                    -> "open"
    [] state \in Terminal \ {"superseded"} -> "settled"
    [] state = "superseded"                -> "replaced"

Ledger == INSTANCE WalkthroughLedger
            WITH Operations <- Ops, Generations <- Identities,
                 phase <- [o \in Ops |-> PhaseOf(rows[o].state)],
                 generation <- [o \in Ops |-> rows[o].identity]

\* Rows, workers, cancellations, crashes and recovery together implement the ledger.
ImplementsLedger == Ledger!LedgerSpec

-----------------------------------------------------------------------------
(* Liveness *)

\* A cancellation that was admitted returns, although the provider never answers.
CancellationReturns ==
  \A c \in Cancellers : cancelling[c].phase # "idle" ~> cancelling[c].phase = "idle"

\* A start that holds the semaphore releases it, although the worker it supersedes is inside a
\* provider call that never ends.
StartReleasesSemaphore == starting.phase # "idle" ~> starting.phase = "idle"

\* Neither a cancellation nor a start waits for ever.
RequestsReturn == CancellationReturns /\ StartReleasesSemaphore

\* Where providers answer, no worker is lost and Core is ready again and again, every accepted
\* operation is settled in the end, by its worker or by the next startup.
AcceptedSettles ==
  (ProvidersAnswer /\ [](faults = 0) /\ []<>(core = "up")) => \A o \in Ops : IsActive(o) ~> ~IsActive(o)

\* A Core that starts becomes ready: recovery does not keep it down.
CoreBecomesReady == core = "down" ~> core = "up"

\* Recovery keeps Core down only over a running row that the head-only fallback answers.
CoreRecovers ==
  core = "down" ~>
    \/ core = "up"
    \/ \E o \in Ops : rows[o].state = "running" /\ artifact[rows[o].identity] = HeadOnly

\* Work that was accepted is settled, by its worker or by a startup that succeeds.
WorkSettles == AcceptedSettles /\ CoreRecovers
=============================================================================
