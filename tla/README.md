# DiffDash Core in TLA+

DiffDash is a desktop program for reviewing changes. Its Electron window and renderer talk to a
separate process, *Core*, which owns a SQLite database, pools of git worktrees, agents it starts on
command lines, and everything that must survive a crash. This directory models the parts of Core
where several fibers, several processes or a crash and a restart decide what is true, checks them
with TLC on small instances, and proves the main safety results with TLAPS for instances of any
size. Paths below are relative to `packages/` of the repository.

Contents: [inventory](#1-inventory), [modules](#2-modules-and-the-code-they-model),
[runs](#3-what-the-runs-show), [bounds](#4-bounds), [fairness](#5-fairness),
[theorems](#6-what-is-proved), [findings](#7-where-code-and-documentation-disagree),
[limits](#8-what-is-only-checked-or-not-modelled), [plan](#9-plan).

## 1. Inventory

| Component | State it keeps | Operations | What makes it hard | Model |
|---|---|---|---|---|
| Walkthrough operations (`core/src/operations/walkthrough-operations.ts`, `persistence/src/walkthrough-operation-store.ts`, startup in `core/src/core-operation-service.ts`) | operation rows with optimistic versions, acceptance keys, saved walkthroughs; a map of worker fibers, a start semaphore | start, regenerate, cancel, worker transitions, startup reconciliation | cancellation against completion, regeneration against a worker that is still saving, a crash between saving and recording, clock ties | `WalkthroughOperations`, `WalkthroughLedger` |
| Database ownership (`persistence/src/database-ownership.ts`, `core/src/core-ownership-recovery.ts`) | an owner file and a gate file beside the database | acquire, replace a dead owner, release | separate processes interleave between any two system calls and may die between them | `DatabaseOwnership` |
| Core lifecycle and host session (`core/src/core-lifecycle.ts`, `core-transport-authentication.ts`, `core-host-lifecycle.ts`) | lifecycle state, one authenticated client, one ownership fiber | connect, health, authorize, shut down, admit requests | drain or host death at every point of start and recovery; late disconnect notices | `CoreHost` |
| Disposable resources (`persistence/src/resource-catalog.ts`, `core/src/resource-collection.ts`, `core/src/agent-workspace-resources.ts`) | catalog rows with leases and recovery tokens, the files themselves and a quarantine directory | register, lease, renew, collect in four steps, resume after a crash | rows and files change in different steps; a parent and its child are leased together | `ResourceCollection` |
| Workspace file lock (`local-git/src/hosted-review-workspace-file-lock.ts`) | claim files, one link | claim, link, inspect, steal, release | stale locks are stolen by several contenders; process ids are reused | `FileLock`, `PoolProcesses` |
| Workspace pool (`-pool.ts`, `-manifest.ts` beside it) | a manifest of worktree slots, the worktrees | reserve, evict, prepare, lease, restore, quarantine, recover | a slot changes hands between turns, processes and crashes | `WorkspacePool` |
| Code workspaces (`core/src/services/code-workspace.ts`) | sessions, shared backings with a reference count | open, heartbeat, expire, use, close | interruption of an opener, a backing that closes while another joins | `CodeWorkspaces` |
| Durable commands (`core/src/core-durable-command-coordinator.ts`, `persistence/src/core-command-store.ts`) | command rows, active fibers | execute, commit or fail, acknowledge, recover | a repeated command arrives while the first one finishes | `DurableCommands` |
| Event hub and replay (`core/src/core-event-hub.ts`, `desktop/electron/main/external-application-runtime.ts`) | sequence, 256 retained hints, the desktop's cursor | publish, replay, resynchronize | dropped hints, epoch changes, cursors at the edge of the buffer | `EventReplay` |
| Snapshot acquisition (`core/src/core-snapshot-acquisition.ts`) | in-flight acquisitions by review | acquire once for all requesters, recheck the revision | interruption of the first requester; the review moves meanwhile | `SnapshotAcquisition` |
| Snapshot blocks (`persistence/src/snapshot-block-store.ts`, `core/src/core-snapshot-ingestion.ts`) | block rows, resource rows, files | write, promote, commit, publish, collect, recover | a crash or a collection between file and row; two ingestions of one block | `SnapshotBlocks` |
| Review agent runs (`core/src/operations/review-agent-operations.ts`, `persistence/src/review-turn-store.ts`) | runs, turns, messages, active fibers | accept, work, cancel, recover | a cancellation that meets the end of a run or comes before its fiber is registered | `ReviewRuns` |
| Repository watcher (`local-git/src/repository-watcher.ts`) | one selection, timers, one reconciliation | select, change, debounce, publish | late events of an earlier selection | `RepositoryWatcher` |
| Renderer walkthrough session (`app/src/platform/walkthrough-operations.ts`) | what is shown, a promise, a retry key, a timer | start, query, cancel, hint, dispose | answers out of order, lost hints and calls | `WalkthroughSession` |
| Viewed-file writes (`app/src/review/viewed-file-mutations.ts`) | optimistic, pending and confirmed states | submit, write, roll back | failed old writes, newer pending ones | `ViewedFiles` |
| RPC admission, MCP server, subprocesses, language servers | capacities, capabilities, pending requests | admit, call, terminate | deadlines, byte limits | – |
| Desktop host, renderer, settings, providers, schemas, cloud, web | user interface, configuration, parsing | – | little state of their own | – |

How they interact: Electron starts Core and opens one socket (`CoreHost`). Core refuses business
requests until it has acquired the database (`DatabaseOwnership`) and finished startup recovery
(`WalkthroughOperations`, `ResourceCollection`). A walkthrough or review run prepares a worktree in
the pool, leases it in the catalog, and calls an agent; collection passes of the catalog run beside
them. Terminal transitions are announced through the event hub, as hints that no state relies on.

What each component has to get right: one active operation per generation with one terminal winner
and no work left by dead processes; one live owner of the database; a Core that serves only while it
owns, and that frees the database however it is stopped; files of a live lease that stay, and
deletions that are recorded only when they happened; slots and backings that are neither shared by
mistake nor kept by nobody; a record of a command that is true of its effect; hints, answers and
clicks that are not lost silently or shown in the wrong order. `PROJECT.json` lists the hazards line
by line, with the properties that watch them.

## 2. Modules and the code they model

Every SQLite transaction and every file-system call is one action: that is the granularity at which
fibers, respectively processes, interleave. A synchronous stretch of a fiber between two waits is
one action as well, because the JavaScript runtime does not interrupt it. Cancellation of a fiber
takes effect at its next interruptible wait, so a fiber inside `Effect.uninterruptible` completes
its transition first.

### WalkthroughOperations, WalkthroughLedger

| Variable | In the code |
|---|---|
| `rows` | `walkthrough_operations` joined with `walkthrough_operation_acceptances`: state, version, exact generation, acceptance time, links |
| `artifact` | the row `WalkthroughStore.get` answers, by the operation that saved it |
| `worker`, `interrupted` | the scoped `FiberMap` of workers and requested interruptions |
| `starting` | the request inside the start semaphore, between its transaction and the fork |
| `cancelling` | each `cancelSnapshot` loop, with the version it read |
| `core`, `ownEpoch` | whether Core runs, and which rows carry its process epoch |

`AcceptAttach`, `AcceptFirst` and `AcceptRegeneration` are the three outcomes of the acceptance
transaction; `InterruptSuperseded` and `ForkWorker` end a start; `MarkRunning` to `TerminalLost` are
the worker; the cancel actions are the read, the guarded update, the interruption and the wait;
`Crash`, `Restart`, `ReconcileSaved`, `RecoverInterrupted` are a death and the next start.
`WalkthroughLedger` is the abstract promise: an operation opens once, settles once or is replaced,
never reopens, and a generation has at most one open operation. `ImplementsLedger` states that the
detailed module implements it, with rows mapped to phases.

### DatabaseOwnership

`owner` and `gate` are the identities in the two files, `pc` is the next system call of a process,
`holder` the identity it last read, `attempt` its round of the gate loop. The claim file is private
to a process and is not modelled. `Mortal` processes may die at any call. `Verdicts` is the process
inspector: it never claims the opposite of the truth but may be unsure (`MayDoubt`).

### CoreHost

`lifecycle`, `authorized` are the lifecycle reference; `grant`, `drain`, `death` its deferreds;
`bound`, `lastGone`, `healthy` the host session; `notices` the queue of disconnects it has not seen
yet; `owner`, `lease`, `winner` the fiber that owns the database and the race that ends it. A release
always succeeds here (`CloseScope`). In the code a failed one is ignored and the fiber ends just the
same (`core/src/core-ownership-recovery.ts:79`), leaving a record of a process that is about to end,
which `DatabaseOwnership` replaces.

### ResourceCollection

`state`, `token`, `retry` are catalog columns, `lease` the pair of leases a run takes together,
`files` and `quarantine` the disk. `run` and `collector` are program counters. A run prepares and
inspects directories, registers and measures both resources, takes both leases, works, and leaves. A
collector begins a collection, renames, records, removes, records. `ResumeStale` is the startup
reconciliation, `EvictSlot` the pool giving a free slot's worktree away. Each adapter mutation holds
the repository's file lock from end to end and is therefore one action; that the lock excludes is an
assumption here, and `FileLock` shows when it is justified.

### FileLock, WorkspacePool, PoolProcesses

`PoolProcesses` is the operating system: processes start, some die, and a process id may be given to
a later process, so that `IsProcessAlive` takes the new one for the dead one. `FileLock` has one
action per file-system call of `withFileLock`: the claim file is created (`CreateClaim`), linked at
the lock path (`Publish`), the link is read and its inode is read (`Read`, `Identify`: an
inspection), compared with what was observed, stolen (`RemoveStale`), given back (`RemoveOwn`).
`link` is the attempt whose claim is linked, `inode` and `observed` are what the running inspection
and the one before it saw. Timeouts and interruptions of an attempt are actions of their own.

`WorkspacePool` is above the lock: each change of the manifest happens under `manifest.lock` and is
one action that may also fail (`TransactionFails`). A turn reserves a slot and recovers those of dead
processes in the same transaction (`ReserveSlot`), removes the worktree of the slot's former
repository (`EvictSlot`), rebuilds (`RecreateWorktree`), records its lease, lets the agent work,
restores and gives the slot back, or quarantines it. `CutReservation` is the interruption between the
committed reservation and its registration. The choice among eligible slots (by thread, revision and
age) is left open.

### CodeWorkspaces

`backings` is the map from a key to its current backing (a backing has the name of the open that
made it), `count` its reference counter, `worker` and `ready` its fiber, `sessions` and `sweep` the
leases before and after the loop has taken an expired one out. The actions are the stretches between
two waits of `open`, of the worker with its exit handler, of `heartbeat`'s loop and of `withSession`.

### WalkthroughSession, ViewedFiles

Two coordinators of the renderer, with Core behind calls that are answered late, out of order or
not at all. In `WalkthroughSession` a start has a number, and so has its key and the operation Core
creates under the key; a key is kept per kind of start, regenerating or not (`keys`). `core` and
`newest` are Core's side, a version per operation and the latest of them, and the four actions
`Core...` are its operations reduced to what the session can tell apart: a key finds its operation
again, a start joins the latest operation unless it regenerates, a regeneration supersedes it, and a
cancellation is answered with a terminal snapshot. `ViewedFiles` has the queue of writes
(`pending`), the write awaited (`writing`), what Core has (`stored`), what is shown (`display`), and
the list read beside them. A write that is rejected may have been stored, since the call may be lost
on its way back (`Rejected`). Two history variables: `unsure` marks a file whose list failed or
overlapped with its writes, `astray` one that has a rejected write stored.

### DurableCommands, EventReplay

`EventReplay` is the hub (`sequence`, `retained`), the desktop host (`session`, `cursor`, `call`) and
the epochs of Core; a hint is its number, and `taken` records what the host has read.
`DurableCommands` extends it: the table (`rows`), the calls of `execute`, the map of fibers, and
what a command has changed (`effects`: nothing, something, or all of it). A command that fails or is
interrupted leaves what it has changed (`TakeEffect`, `FinishCommand`); recovery after a crash finds
only the row. `lost` and `unrecorded` are history variables that no guard reads: the commands a
completed run of which could not record its end, and those whose last run in this epoch could not.
Ends and recovery publish hints to the hub of `EventReplay`.

### SnapshotAcquisition, SnapshotBlocks

`SnapshotAcquisition` follows each request from the look at `inFlight` to its answer, with the reads
of metadata, diff and metadata again as separate actions between which the review's `head` moves.
`SnapshotBlocks` is one content-addressed block: `row` and `resource` in the database, `staged` and
`final` on the disk (absent, torn or whole), the ingestions that write it, the policy collection and
recovery: that of a failed ingestion, which goes step by step beside the other ingestions, and that
of the next start, which is alone and one action. One collector is at work at a time.

### RepositoryWatcher

One fiber handles `queue`; directories, native watches and readings of the git state are fibers of
their own that come back as events. A selection is a generation. A due event carries the token of
its batch, and one whose token is out of date is dropped when it is handled (`Outdated`). The debounce and the maximum-wait
timer of a batch are one timer that may fire at any time.

### ReviewRuns

One thread: its `transcript`, the status of each run (`turn`), the fiber of each run with its place
in the active map (`agent`), cancellations under way (`stop`), terminal hints (`told`), and Core's
lives. A worker whose snapshot, checkout or store fails outside of what it catches ends without an
end on record and marks its run `stranded`, a history variable. The start path is that of hosted
reviews.

### MCServices

The last ten modules are checked together, to ask one question of each kind instead of ten. A
behaviour of `MCServices` chooses one component (`part`) and follows it; the others keep their
initial state. The components share no variable but the processes of lock and pool, so the states
TLC explores are those of the single specifications side by side, an invariant of the sum is an
invariant of every part, and a fairness condition of a part that is not followed is void, because
none of its actions is enabled under fairness in its initial state. `Parts` selects the components
of a run. `ServicesProofs` proves the direction the theorems need: a behaviour of `MCServices` is a
behaviour of every component.

Definitions named `Wrong_...` are deliberate errors of the code (a dropped guard, a swapped order).
No specification uses them; they exist to confirm that each property can fail.

## 3. What the runs show

| Run | Question and answer |
|---|---|
| `walkthrough_races` | Three operations of one generation, concurrent starts with three keys, regenerations, one cancellation: one active row, each active row has a driver and one generator, supersession is a chain and a key names one operation, a completed regeneration carries its own content. Holds. |
| `walkthrough_recovery` | Two generations, one crash, one lost worker, a start that may fail: no active row of a dead process once Core admits requests; the ledger is implemented; cancellations and starts return although a provider hangs; accepted operations settle where providers answer. Holds. |
| `walkthrough_stale` | With one crash, `CompletedRegenerationIsFresh` fails: finding 1. |
| `ownership_pair` | Two processes that may die between any two calls, over a dead owner's record, with an unsure inspector: one owner at most, the record names it, the gate excludes, a live record stays. Holds. |
| `ownership_takeover` | A survivor gets the database whatever its predecessor left. Holds. |
| `ownership_trio` | Three processes, one of which dies: `SoleOwner` fails: finding 2. |
| `host_safety` | Three connections, two conflicting authorizations, two requests, shutdown, death and failure at any time: lifecycle, lease and host slot agree, a drain is respected, and it frees the database although initialization hangs. Holds. |
| `resources_passes` | A run and two collectors over a bare repository and two worktrees, with a failed rename or removal and a crash: one claim per row, leased files stay, a recorded deletion is real, and collections settle. Holds. |
| `services_safety` | The safety of the ten components of `MCServices`. Holds; see below. |
| `services_core` | Liveness of the file lock, code workspaces, acquisition and watcher. Holds; see below. |
| `services_delivery` | Liveness of the renderer session, of commands and hints, and of review runs. Holds; see below. |
| `lock_steal` | Two attempts steal the link of a dead holder: `OneHolder` fails: finding 3. |

What the properties of the three service runs say, and what they except because the code does not
promise it:

* `LockIsOwned`: until a process has died, whoever is in its section owns the link; and a running
  process is never left linked outside of its section. `AttemptEnds`: every attempt ends and its
  claim file is gone. In `services_core` a holder may die whose id a third process then has: its link
  looks alive and is never stolen, and what ends the other attempt is its deadline (one of the two
  mutants of the property gives every round a deadline of its own).
* `SlotsAreHandedOver`: one turn at a time works on a slot, the one its lease names, in a worktree
  that was rebuilt for it; a busy slot under a live process has a turn working on it, unless the turn
  was cut as it reserved or missed a transaction. Those two cases keep a slot until the process ends.
* `BackingIsAccounted`: the count of a current backing is the number of openers, leases and
  operations that hold it, and a released backing has none. `WorkspacesEnd`: opens are answered and
  every backing ends, even if nobody releases it.
* `ShownNeverGoesBack`: a snapshot shown of an operation is never replaced by an older one.
  `StartSettles`: a start settles although every hint is lost.
* `HintsAreContiguous`: the host has taken every hint up to its cursor. `OutcomeHolds`: the record of
  a command is true of its effect and final. What has changed anything is on record, and a committed
  command has all its effect. A failed command may have changed something; it has all its effect only
  if a completed run of it could not record its end: the table could not be written, Core died
  before, or another run had recorded a failure. `DeliveryEnds`: an accepted command ends on record,
  also when Core dies under it or between its effect and its record, where the next start records it;
  excepted is a command whose run could not record its end, until the epoch is over. And a hint
  arrives or the host was told to resynchronize.
* `AnswerIsCurrent`: a snapshot is of a revision the review had after its acquisition began.
  `RequestsAreAnswered`: except the followers of a request whose own deadline passed.
* `WatchesAreOwned`: no native watch of an earlier selection is left behind. `ChangesArePublished`:
  except where a subscriber defected with the publication, whose fingerprint is set already.
* `NewestClickIsShown`: except for a file whose list failed or overlapped with its writes; and what
  is shown is what Core stores, except after a rejected write that Core has stored, until a later
  write of the file succeeds or the list is read again. The coordinator cannot tell such a write from
  one that was refused, rolls the display back and reports that the state was reverted
  (`app/src/review/viewed-file-mutations.ts:79`).
* `TurnsAreKept`: a running run is the last entry of its thread and has a fiber; a message has one
  complete answer at most; a terminal hint stays true. `TurnsEnd`: except a stranded run.
* `BlocksAreStored`: a placed block has a row; a visible block has its whole file; no torn file
  reaches a final path; recovery fails only over a torn temporary file or over the row of a placed
  block. Executions marked `outrun` are excepted, see section 7.

## 4. Bounds

* `MaxOps`, `MaxClock`: three operations let a regeneration supersede an operation that itself
  superseded one, and two clock readings give ties as well as order. One cancellation loop suffices:
  loops do not interact except through versions, which workers change too.
* `MaxCrashes`, `MaxFaults`: one of each. A second crash starts from a state that recovery already
  covers, since `Restart` keeps only durable state. `ClockMayStepBack` is off in the passing runs:
  with a clock that steps back, `GenerationIsDriven` and `OperationsAreChained` do not hold, because
  the newest operation is chosen by `accepted_at`.
* `MaxAttempts` is 32 in the code. One or two rounds suffice to fail, retry and give up; the pair of
  mortal processes runs with one round, the other instances with two.
* `MaxClients` is three: the host, an intruder, and one that opens later than both. Authorizations
  are two, so that they may conflict.
* `MaxTokens` is two: a collection and its retry under another token. Two worktrees share one
  repository, so a lease protects a parent that another child's collection would also want. One run
  leases one of them; the other is collectible throughout.
* Lock and pool: three processes, of which one dies and another has its process id; three attempts,
  two of them in one process (two attempts in two processes in the liveness run, with the third
  process as the one that gets the dead one's id); three turns for two repositories over two slots, so that slots are
  short, change repository and are recovered.
* Code workspaces: three opens of one key and one operation: a creator, one that joins, and one that
  comes as the backing closes. One key is enough, keys share only the map.
* Session: two starts, so that answers to the first arrive under the second and the second joins or
  supersedes the first's operation, and three versions (accepted, running, terminal).
* Delivery: one command called twice, two epochs of Core, three hints (two in the liveness run) and a
  buffer of one (`ReplayCapacity`, 256 in the code): a cursor is at, just before and, in the safety
  run, well before the oldest hint. Two calls are what makes a second run: one finds the command
  accepted while the other's run ends.
* Acquisition: three requests for one review with three revisions. Reviews share only the map.
* Watcher: two selections. The safety run has two projects, two queued signals and defects; git states
  do not matter to who owns a native watch, and it has one. The liveness run has two git states, one
  project and one queued signal.
* Viewed files: two files, two clicks on each, two lists. Review runs: two runs, two messages, one
  restart; the liveness run has one message. Blocks: three ingestions, two collections, restarts.
* Model values carry no structure: keys, authorizations, processes and resources are compared for
  identity only. Symmetry is used for the contenders of `ownership_pair`, a run without liveness.
* Runs with `CHECK_DEADLOCK FALSE` end legitimately: processes stop, tokens or crashes run out.

## 5. Fairness

The Effect runtime schedules every runnable fiber, so the steps of a start, a worker, a cancellation
and a collector carry weak fairness. A client need not ask for anything: no request carries
fairness. A provider may hang: `SaveArtifact` and `GenerationFails` have none, and only
the part of `WorkSettles` that is about accepted operations assumes answers (`ProvidersAnswer`),
beside no lost worker and a Core that is up again and again. The application is started again after
a crash (`Recovery`, `Startup`, `epoch > 0 /\ Restart`, `RecoverTurns`). In `CoreHost`, an acquisition ends and finalizers run, since
they are uninterruptible and finite; `CompleteRecovery` has no fairness, as initialization may hang.
In `DatabaseOwnership` a live process goes on with its calls; nothing forces it to ask, recover,
release or die.

Around the core, weak fairness stands for a fiber or a process that goes on and for a timer that
fires. Strong fairness is used in three places. `TimeOut` of the lock: an attempt looks at the clock
in every round, so a deadline that has passed is seen. Replays and queries (`AnswerReplay`,
`TakeReplay`, `CoreReads`, `QueryAnswered`): a call may fail any number of times, but not every time
it is repeated. In the watcher, `Poll`, a successful reading and a successful resolution of
directories, for the same reason. Nothing is assumed of hints, of native watch signals, or of a
client that should release, acknowledge or ask again.

## 6. What is proved

Every type invariant, safety invariant and action property that a passing run checks is a theorem.
A theorem holds for every value of the constants that satisfies the named assumptions of the
modules; where one needs more, it says so as a hypothesis (`~ClockMayStepBack`, `MaxCrashes = 0`,
`TwoContend`, `IsFiniteSet(Calls)`) or as a premise inside the invariant (`NoneDied`). They are in
eight modules, one or more per component; `TypeCorrect`, `...IsSafe` and the like are the inductive invariants.

`WalkthroughOperationsProofs`

* `TypeCorrect` is inductive by itself, over lemmas on the row updates. `OneActive` rests on it and
  on `RowsEffect`, which classifies what any step does to the rows: nothing, settle one, insert,
  replace, or recover all. `NoDeadEpoch` is inductive with the types: admission begins only in
  `RecoverInterrupted`, and what is accepted later is of this epoch. `OneWinner` needs
  `AbsentAtZero`, that a row that does not exist has no version. `RefinesLedger` maps each of the
  five effects to a ledger step or a stutter and uses `OneActive` for the guards of `Open` and
  `Replace`. `KeysAreUnique`: only an accepted start records evidence, and it looks for the key
  first. In all of these clock readings are arbitrary, and so are crashes.
* `ActiveHasDriver` (`ActiveIsDriven`), also without any premise. `DriverInv` adds what the code
  relies on without saying it: the start inside the semaphore has forked nothing yet for its row
  (`StartIsUnforked`), a cancellation interrupts a worker only after its own transition won
  (`CancelsAfterWinning`), fibers work on rows that exist (`FibersAreOfRows`), and the version of an
  active row is the one its worker's guarded update expects (`ActiveVersions`).
* `HistoryIsAChain` and `GenerationHasDriver` assume `~ClockMayStepBack`: the newest operation of a
  generation is the one `ORDER BY accepted_at DESC, rowid DESC` finds, and after a step back of the
  wall clock that is an older one (section 4). `History` says that ids are dense and agree with
  times, and that only the last operation of a generation is anything but superseded; `NewestInv`
  that fibers work on the last operation, or on the one a start is replacing and whose end it awaits
  before it forks.
* `RegenerationIsFresh` assumes `MaxCrashes = 0` as well: finding 1 is the counterexample with one
  crash. It combines the previous theorem with `OwnContent`: while the worker of a regeneration has
  saved and not recorded, and from then on, its content is what the generation shows, since no other
  fiber of the generation works meanwhile; and startup finds no regeneration (`StartsWithOldRows`).

`DatabaseOwnershipProofs`

* `TypeCorrect` holds with deaths, and so does `RaceInv`: a process has no record before it acquires
  one (`RecordIsForeign`), does behind the gate what it came for (`PurposeIsKept`), and, while
  `NoneDied`, `GateHeld` (the gate names whoever works behind it, and a gate under inspection names a
  live process) and `Progress` (what each call still knows of the owner record). For any number of
  contenders over any stale record `OwnedUntilDeath` and `RecordsStayUntilDeath` follow. They end with
  the first death: after it, three contenders can make two owners (finding 2).
* `PairHasOneOwner`, `PairFilesAreOwned` and `PairKeepsLiveRecords` are the properties of
  `ownership_pair` for any two contenders (`TwoContend`), any deaths and any number of rounds. After a
  death the survivor is alone (`SurvivorIsAlone`): what it inspects may be stale, but its own record
  is safe because it acquires only what is not its own and releases only what is.

`CoreHostProofs`

* `HostInv` joins three facts: the lease follows the phase of the owner fiber (`LeaseFollowsPhase`),
  lifecycle and lease follow the grant (`GrantFollowsState`), and the lifecycle follows the drain
  (`DrainFollowsState`). `LifecycleHolds` and `DrainHolds` are consequences. `DeadClientsStayOut`
  rests on `ClosedAreNoticed`: a connection that closed has its notice in the queue, or its number is
  not above the one the session compares with.

`ResourceCollectionProofs`

* `LeasesKeepReady` is inductive: no transaction takes a leased row out of ready.
  `CollectionsHaveOneOwner` needs `FailedRowsAreFree`: nobody works on a `deletionFailed` row, which
  `beginCollection` takes over. Both together are `RowsHaveOneClaim`. `FilesOfLeasesStay` combines
  them with `LeasesAreUsed`, that a leased run is using its worktree, and with `PoolAssumption`, that
  two runs never share one. `DeletionsAreReal` rests on the single claim and on `CompletionIsEmpty`: of
  a collector that is about to record a deletion, the files of its token are gone and stay gone.

`HostedReviewProofs`

* `LockIsSafe` strengthens `ExcludesUntilDeath` with what inspections know: live processes have
  distinct ids, a holder that finds another inode than its claim's is not linked any more, and no
  attempt is on its way to a removal before a process died (`StealingNeedsDeath`), because a live
  holder is always seen as alive. `LinkIsHeld` gives `NoOrphanLink`, which needs no such premise.
  `LockIsAlwaysOwned` follows.
* `PoolIsSafe`: whoever works in a running process has a busy slot under its lease (`WorkIsLeased`),
  a lease names a turn that took that slot and has not given it back (`LeasesAreTaken`), and from
  its creation to the agent's end the worktree is as it was built (`BuiltIsClean`).
  `SlotsAreAlwaysHandedOver` follows, with any deaths, reused ids, cuts and missed transactions.
* `AnswersAreCurrent`: a revision at any place of the pipeline is not older than the beginning of
  the acquisition that carries it (`WorkIsRecent`), which two readings of the metadata around the
  diff ensure for the one that leads.
* `BlocksAreAlwaysStored`: what an ingestion relies on between its look at a file and its next call
  (`WritersLooked`), and that closed storage has nobody at work (`ClosedIsQuiet`); `WritersLooked` and
  `FilesAreWhole` speak of the executions that are not `outrun`.
* `TurnsAreAlwaysKept`: the thread is in order (`ThreadIsInOrder`), who is about to tell of an end
  tells of one on record (`EndsAreReal`), and a Core that is down has a restart left.

`ClientProofs`

* `HoldersAreAccounted`: the reference count is a cardinality of openers, leases and operations,
  so each step that adds or removes a holder adds or removes one element of that set. `MapIsLive`,
  `JoinsAreOfKey` and `LeasesAreOpened` say which backing a waiting open, a lease and an operation
  belong to. `BackingIsAlwaysAccounted` follows.
* `ShownNeverGoesBackward` needs only the types, `SessionIsTyped`: every answer
  of the same operation over one that is shown passes the comparison of versions.
* `WatcherIsSafe`: `QueueIsSound` says what each event of the queue speaks of: a generation that
  was given out, and, for a timer whose token is not out of date, a repository that is active.
  `GenerationsAreGiven` and `WorkIsActive` say the same of the fibers and of the handler. Appending an
  event, taking one and renewing the token keep any queue sound and every announced watch announced
  (`Appending`, `Taking`, `Outdating`). `WatchesAreAlwaysOwned` is one of the conjuncts.
* `MarksAreSafe`: the queue holds the newest click of each file (`QueueIsOfNewest`), one write is
  under way at a time (`OneAtATime`, `WriteIsOfNewest`), a list under way is fresh or marked
  (`ListsAreFresh`), and the confirmed value is the stored one unless a rejected write was stored
  (`ConfirmedIsStored`). `NewestClickIsAlwaysShown` follows, for any number of failures, with the
  two exceptions that section 3 names.

`DeliveryProofs`

* `HintsStayContiguous`: the hub keeps exactly the newest hints (`HubKeepsNewest`), so an answer
  that is no resynchronization leaves out no hint after the cursor (`AnswersAreWhole`), and a call
  asks only for what follows the taken hints (`CallContinues`). `RecordIsTrueForGood`: the record
  alone is not inductive; `Accounted` adds, per command, that what runs, is about to run or has
  changed anything has a row (`WorkHasRow`), and that all the effect of a command that is still
  accepted is about to be recorded, or that a completed run of it has lost its record already
  (`EffectIsFollowed`). A failed command may keep a part of its effect; the theorem says what its
  record does rule out.
* `DeliveryIsTyped`: an epoch, a hint or a cursor is one the hub has numbered
  (`HintTypesIInv`), and a version counts the changes of the state (`VersionFollowsState`).

`ServicesProofs`

* `ServicesAreComponents`: a behaviour of `MCServices` is one of each component's specification, so
  what is proved of a component holds where the runs check it. A process that starts or dies does so
  for lock and pool at once; the others share nothing. `ServicesAreTyped` and
  `ServicesKeepTheirPromises` put the theorems above together: the invariants of `services_safety`
  and its two action properties, for every value of the constants.

## 7. Where code and documentation disagree

With a run each:

1. `core/src/core-operation-service.ts:227`: startup completes any running row for which some
   walkthrough exists. A regeneration that died before it saved is completed with the content of the
   operation it superseded (`walkthrough_stale`).
2. `persistence/src/database-ownership.ts:199`: a stale gate is unlinked on the strength of an
   earlier read. A third contender may have replaced it meanwhile; two processes then work behind
   the gate and both take a dead owner's place (`ownership_trio`).
3. `local-git/src/hosted-review-workspace-file-lock.ts:310`: the link is removed by its path after
   the comparison with the link observed. Of two contenders that observed the same stale link, the
   second removes the link the first has published since (`lock_steal`).

Stated in the modules as formulas that the code does not satisfy, without a run of their own:

* `CoreBecomesReady` (`core/src/core-operation-service.ts:240`): the lookup of a saved walkthrough
  also answers with a migrated row whose base revision is the head. Completing the operation with an
  exact reference then violates its foreign key, and every later start fails in the same way.
* `BoundHostAnswered` (`core/src/core-transport-authentication.ts:50`): the test on the last
  disconnected client also applies to the client that is bound. Once a connection with a higher
  number has closed, the live host's health calls are refused.
* `DeletedLeavesNothing` (`persistence/src/resource-catalog.ts:756`): a failed deletion is collected
  again under a new token. The files quarantined under the old token have no owner any more, while
  the row is recorded as deleted with zero bytes.
* `LeasedFilesExist` (`persistence/src/resource-catalog.ts:535`): a run inspects directories, then
  records them, then leases. A collection that completes in between leaves deleted rows which the
  record revives, and the run holds leases on directories that are gone.

Part of the model, with no property against it: the answer of a cancellation settles the promise of
whichever start is pending, also one that began after the cancellation
(`app/src/platform/walkthrough-operations.ts:145`, `CancelAnswered`).

Seen while `SnapshotBlocks` was written, and excepted in `BlocksAreStored`:

* A temporary file that was torn by a crash or a full disk makes the next recovery fail on its
  verification, and every later one; so does the row of a placed block that recovery wants to
  delete, which the foreign key forbids.
* The policy collection does not ask whether a published snapshot places the block.
* If a collection fits between an ingestion's verification and its commit, the row becomes visible
  without a file. In the same way a temporary file that was looked at may be another one by the
  time it is renamed. `outrun` marks these executions.
* The policy collection shelves files in `.diffdash-quarantine`, whereas the store's recovery looks
  in `.snapshot-trash`: what a crash leaves on the shelf stays there.

## 8. What is only checked, or not modelled

Checked by TLC only is liveness, which needs fairness and ENABLED: `RequestsReturn`, `WorkSettles`,
`DeadOwnerIsReplaced`, `DrainFreesDatabase`, `CollectionSettles`, `AttemptEnds`, `WorkspacesEnd`,
`RequestsAreAnswered`, `ChangesArePublished`, `StartSettles`, `DeliveryEnds` and `TurnsEnd`. Every invariant and
action property of a passing run is proved, under the premises named in section 6.

Left out on purpose, in what is modelled. Terminal hints of walkthroughs: published after a commit,
and no state relies on them. Method policies of requests (deadline, bytes, capacity): a request is
admitted and ends. Sizes, quotas and the high-water mark: a pass may choose any collectible resource,
a superset of what the policy chooses; likewise the limits of 50 collections and 20 attempts per
pass. Database errors inside catalog transactions; reservations, `rebindLease`, git references and
updater files. Fsync and claim files of the ownership lease. Calls of the file lock fail for want or
presence of a file only, and a claim file always parses. The pool's pinned comparisons, file copies
and remote repositories. Deltas, hunks, spools, leases and the deletion of snapshots around a block;
`deleteSnapshot` and the collection of the block store have no caller outside of tests. Prompts,
providers, artifacts and thread memory of review runs.

Not modelled: the byte quota and its reservations, snapshot reads and search, RPC admission,
the desktop host's choice of a runtime, window, updater and the renderer's views, subprocesses, the
MCP server, agent, git and language providers, the review data worker, settings, the schema
migrations, the single-statement stores, and the cloud and web programs. Most of them transform data
or draw; the others are bounded wrappers of Node or SQL whose interesting states are in the
components that use them. `PROJECT.json` gives the reason for each.

## 9. Plan

1. `DatabaseOwnership` with deaths: what remains true of three and more contenders, and an abstract
   lease that it implements for two.
2. An abstract lock and an abstract pool, implemented by `FileLock` until a death and by
   `WorkspacePool`; `ReviewRuns` as a second implementation of an abstract ledger of operations.
3. The desktop host's choice and supervision of Core, as the client side of `CoreHost`.
4. Quota reservations as an extension of `ResourceCollection`, with the pool of `WorkspacePool` in
   place of `EvictSlot`.
