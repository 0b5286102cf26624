---------------------------- MODULE SnapshotBlocks ----------------------------
(***************************************************************************)
(* One content-addressed block of review snapshots: its row, its resource  *)
(* row and its files (snapshot-block-store.ts), written by ingestions      *)
(* (persistBlock of core-snapshot-ingestion.ts), taken away by the policy  *)
(* collection of resource-collection.ts, and recovered when Core starts    *)
(* (core-layer.ts).  Blocks share no state but the quota.  Leases, which   *)
(* only put a collection off, and the spools are left out.                 *)
(***************************************************************************)
EXTENDS Naturals

CONSTANTS
  Writers,       \* ingestions that need the block, in any Core process
  MaxBegins      \* bound on the collections of the block

ASSUME SnapshotBlocksAssumption == MaxBegins \in Nat

VARIABLES
  row,         \* state of the block's row
  resource,    \* state of its resource
  staged,      \* temporary file
  final,       \* file at the final path
  outrun,      \* a file was taken away, or another put in its place, under an ingestion that
               \* had looked at it
  placed,      \* a published snapshot places the block
  writer,      \* step of each ingestion
  sweeper,     \* step of the collector
  begins,      \* collections so far
  storage      \* "open", "closed" between two processes, "stuck" when recovery failed

blockRows == <<row, resource, placed>>
blockFiles == <<staged, final, outrun>>
blockVars == <<blockRows, blockFiles, writer, sweeper, begins, storage>>

FileStates == {"none", "torn", "whole"}
Recovering == {"list", "look", "lookStaged", "move", "refinalize", "recommit", "drop"}
Collected == {"collecting", "quarantined", "deletionFailed"}

BlocksTypeOK ==
  /\ row \in {"absent", "pending", "ready"}
  /\ resource \in Collected \cup {"absent", "writing", "ready", "deleted"}
  /\ staged \in FileStates /\ final \in FileStates
  /\ outrun \in BOOLEAN /\ placed \in BOOLEAN
  /\ writer \in [Writers ->
       {"idle", "prepare", "stage", "open", "write", "promote", "rename", "finalize", "commit",
        "verify", "publish", "ended"} \cup Recovering]
  /\ sweeper \in {"idle", "move", "mark", "complete"}
  /\ begins \in 0..MaxBegins
  /\ storage \in {"open", "closed", "stuck"}

BlocksInit ==
  /\ row = "absent" /\ resource = "absent" /\ placed = FALSE
  /\ staged = "none" /\ final = "none" /\ outrun = FALSE
  /\ writer = [w \in Writers |-> "idle"]
  /\ sweeper = "idle" /\ begins = 0 /\ storage = "open"

-----------------------------------------------------------------------------
WriterAt(w, s) == storage = "open" /\ writer[w] = s
WriterGo(w, s) == writer' = [writer EXCEPT ![w] = s]

\* A failed ingestion recovers the pending writes; lazy output of snapshot-repository.ts does not.
Fails(w) == \E s \in {"list", "ended"} : WriterGo(w, s)
FailsOr(w, condition, s) == IF condition THEN WriterGo(w, s) ELSE Fails(w)

Visible == row = "ready" /\ resource = "ready"

\* persistBlock: a visible block is not written again.
LookForBlock(w) ==
  /\ WriterAt(w, "idle")
  /\ WriterGo(w, IF Visible THEN "verify" ELSE "prepare")
  /\ UNCHANGED <<blockRows, blockFiles, sweeper, begins, storage>>

PrepareBlock(w) ==
  /\ WriterAt(w, "prepare")
  /\ IF resource \in {"absent", "deleted"} /\ row \in {"absent", "ready"}
       THEN row' = "pending" /\ resource' = "writing" /\ WriterGo(w, "stage")
       ELSE Fails(w) /\ UNCHANGED <<row, resource>>
  /\ UNCHANGED <<placed, blockFiles, sweeper, begins, storage>>

\* stageBlock: a file that is there already must be the block.
StageBlock(w) ==
  /\ WriterAt(w, "stage")
  /\ IF row = "pending" /\ staged = "none" THEN WriterGo(w, "open")
     ELSE FailsOr(w, row = "pending" /\ staged = "whole", "promote")
  /\ UNCHANGED <<blockRows, blockFiles, sweeper, begins, storage>>

\* A new temporary file takes the place of one that others may have looked at.
OpenStaged(w) ==
  /\ WriterAt(w, "open")
  /\ IF staged = "none"
       THEN /\ WriterGo(w, "write") /\ staged' = "torn"
            /\ outrun' = (outrun \/ \E v \in Writers : writer[v] \in {"promote", "rename", "move"})
       ELSE Fails(w) /\ UNCHANGED <<staged, outrun>>
  /\ UNCHANGED <<blockRows, final, sweeper, begins, storage>>

\* The descriptor follows a file that was moved.
WriteStaged(w) ==
  /\ WriterAt(w, "write")
  /\ IF staged = "torn" THEN staged' = "whole" /\ UNCHANGED final
     ELSE final' = "whole" /\ UNCHANGED staged
  /\ WriterGo(w, "promote")
  /\ UNCHANGED <<blockRows, outrun, sweeper, begins, storage>>

PromoteBlock(w) ==
  /\ WriterAt(w, "promote")
  /\ IF row = "pending" /\ final = "none" THEN WriterGo(w, "rename")
     ELSE FailsOr(w, row = "pending" /\ final = "whole", "finalize")
  /\ UNCHANGED <<blockRows, blockFiles, sweeper, begins, storage>>

\* A rename replaces what is at its target.
MoveStaged(w, next) ==
  IF staged = "none"
    THEN Fails(w) /\ UNCHANGED <<staged, final>>
    ELSE final' = staged /\ staged' = "none" /\ WriterGo(w, next)

RenameStaged(w) ==
  /\ WriterAt(w, "rename")
  /\ MoveStaged(w, "finalize")
  /\ UNCHANGED <<blockRows, outrun, sweeper, begins, storage>>

VerifyFinal(w) ==
  /\ WriterAt(w, "finalize")
  /\ FailsOr(w, row = "pending" /\ final = "whole", "commit")
  /\ UNCHANGED <<blockRows, blockFiles, sweeper, begins, storage>>

\* finalizeBlock's transaction changes only rows in the states it expects.
Commits ==
  /\ resource' = IF resource = "writing" THEN "ready" ELSE resource
  /\ row' = IF row = "pending" THEN "ready" ELSE row

CommitBlock(w) ==
  /\ WriterAt(w, "commit")
  /\ Commits
  /\ WriterGo(w, "verify")
  /\ UNCHANGED <<placed, blockFiles, sweeper, begins, storage>>

VerifyReadyBlock(w) ==
  /\ WriterAt(w, "verify")
  /\ FailsOr(w, Visible, "publish")
  /\ UNCHANGED <<blockRows, blockFiles, sweeper, begins, storage>>

\* The placement asks for the block's row only.
PublishSnapshot(w) ==
  /\ WriterAt(w, "publish")
  /\ FailsOr(w, row = "ready", "ended")
  /\ placed' = (placed \/ row = "ready")
  /\ UNCHANGED <<row, resource, blockFiles, sweeper, begins, storage>>

\* An interruption, a full disk or the failure of another block of the snapshot.
WriterFails(w) ==
  /\ storage = "open" /\ writer[w] \notin {"idle", "ended"} \cup Recovering
  /\ Fails(w)
  /\ staged' \in IF writer[w] = "write" /\ staged = "torn" THEN {"torn", "whole"} ELSE {staged}
  /\ UNCHANGED <<blockRows, final, outrun, sweeper, begins, storage>>

-----------------------------------------------------------------------------
(* recoverWrites after a failed ingestion, while others go on *)

ListPending(w) ==
  /\ WriterAt(w, "list")
  /\ WriterGo(w, IF row = "pending" THEN "look" ELSE "ended")
  /\ UNCHANGED <<blockRows, blockFiles, sweeper, begins, storage>>

LookAtFinal(w) ==
  /\ WriterAt(w, "look")
  /\ WriterGo(w, IF final # "none" THEN "refinalize" ELSE "lookStaged")
  /\ UNCHANGED <<blockRows, blockFiles, sweeper, begins, storage>>

\* Wrong: the temporary file is not verified.
Wrong_LookAtStaged(w) ==
  /\ WriterAt(w, "lookStaged")
  /\ WriterGo(w, IF staged = "none" THEN "drop" ELSE "move")
  /\ UNCHANGED <<blockRows, blockFiles, sweeper, begins, storage>>

LookAtStaged(w) ==
  /\ WriterAt(w, "lookStaged")
  /\ WriterGo(w, CASE staged = "none" -> "drop"
                   [] staged = "whole" -> "move"
                   [] staged = "torn" -> "ended")
  /\ UNCHANGED <<blockRows, blockFiles, sweeper, begins, storage>>

MoveRecovered(w) ==
  /\ WriterAt(w, "move")
  /\ IF staged = "none" THEN WriterGo(w, "ended") /\ UNCHANGED <<staged, final>>
     ELSE MoveStaged(w, "refinalize")
  /\ UNCHANGED <<blockRows, outrun, sweeper, begins, storage>>

VerifyRecovered(w) ==
  /\ WriterAt(w, "refinalize")
  /\ WriterGo(w, IF row = "pending" /\ final = "whole" THEN "recommit" ELSE "ended")
  /\ UNCHANGED <<blockRows, blockFiles, sweeper, begins, storage>>

CommitRecovered(w) ==
  /\ WriterAt(w, "recommit")
  /\ Commits
  /\ WriterGo(w, "ended")
  /\ UNCHANGED <<placed, blockFiles, sweeper, begins, storage>>

\* The rows of a block with no file go, in whatever state they are by then; a placement
\* keeps them.
DropPending(w) ==
  /\ WriterAt(w, "drop")
  /\ IF placed THEN UNCHANGED <<row, resource>> ELSE row' = "absent" /\ resource' = "absent"
  /\ WriterGo(w, "ended")
  /\ UNCHANGED <<placed, blockFiles, sweeper, begins, storage>>

-----------------------------------------------------------------------------
(* The policy collection: the catalog's transitions, the files' moves between them *)

SweeperAt(s) == storage = "open" /\ sweeper = s

BeginSweep ==
  /\ SweeperAt("idle") /\ begins < MaxBegins
  /\ resource \in {"ready", "deletionFailed"}
  /\ resource' = "collecting" /\ begins' = begins + 1
  /\ sweeper' = "move"
  /\ UNCHANGED <<row, placed, blockFiles, writer, storage>>

\* The file is moved by its path, which a new row of the block has too.
ShelveFile ==
  /\ SweeperAt("move")
  /\ final' = "none"
  /\ outrun' = \/ outrun \/ resource # "collecting"
               \/ \E w \in Writers : writer[w] \in {"commit", "recommit"}
  /\ sweeper' = "mark"
  /\ UNCHANGED <<blockRows, staged, writer, begins, storage>>

\* A transition of the catalog finds the state it expects, or the collection ends.
SweepStep(from, expects, becomes, next) ==
  /\ SweeperAt(from)
  /\ resource' = IF resource = expects THEN becomes ELSE resource
  /\ sweeper' = IF resource = expects THEN next ELSE "idle"
  /\ UNCHANGED <<row, placed, blockFiles, writer, begins, storage>>

MarkQuarantined == SweepStep("mark", "collecting", "quarantined", "complete")

\* The block's row stays.
CompleteSweep == SweepStep("complete", "quarantined", "deleted", "idle")

SweepFails ==
  /\ storage = "open" /\ sweeper # "idle"
  /\ resource' = IF resource \in Collected THEN "deletionFailed" ELSE resource
  /\ sweeper' = "idle"
  /\ UNCHANGED <<row, placed, blockFiles, writer, begins, storage>>

-----------------------------------------------------------------------------
StorageCloses ==
  /\ storage = "open"
  /\ storage' = "closed" /\ sweeper' = "idle"
  /\ writer' = [w \in Writers |-> IF writer[w] = "idle" THEN "idle" ELSE "ended"]
  /\ UNCHANGED <<blockRows, blockFiles, begins>>

\* recoverWrites stops at a torn file, and at a placement of a block that is pending again.
RecoveryStops ==
  /\ row = "pending" /\ final # "whole"
  /\ "torn" \in {final, staged} \/ (final = "none" /\ staged = "none" /\ placed)

\* A pending row is committed with the file there is, or goes.
RecoverWrites ==
  IF final = "none" /\ staged = "none"
    THEN row' = "absent" /\ resource' = "absent" /\ UNCHANGED <<staged, final>>
    ELSE /\ Commits
         /\ final' = "whole"
         /\ staged' = IF final = "none" THEN "none" ELSE staged

\* recoverCollections moves the file and deletes the block's row, which a placement refuses.
RecoverCollections ==
  IF resource \notin Collected THEN storage' = "open" /\ UNCHANGED <<row, resource, final>>
  ELSE /\ final' = "none"
       /\ storage' = IF placed THEN "stuck" ELSE "open"
       /\ resource' = IF placed THEN "quarantined" ELSE "deleted"
       /\ row' = IF placed THEN row ELSE "absent"

StorageOpens ==
  /\ storage = "closed"
  /\ CASE RecoveryStops -> storage' = "stuck" /\ UNCHANGED <<row, resource, staged, final>>
       [] row = "pending" /\ ~RecoveryStops -> storage' = "open" /\ RecoverWrites
       [] row # "pending" -> RecoverCollections /\ UNCHANGED staged
  /\ UNCHANGED <<placed, outrun, writer, sweeper, begins>>

-----------------------------------------------------------------------------
WriterStep(w) ==
  \/ LookForBlock(w) \/ PrepareBlock(w) \/ StageBlock(w) \/ OpenStaged(w) \/ WriteStaged(w)
  \/ PromoteBlock(w) \/ RenameStaged(w) \/ VerifyFinal(w) \/ CommitBlock(w)
  \/ VerifyReadyBlock(w) \/ PublishSnapshot(w) \/ WriterFails(w)
  \/ ListPending(w) \/ LookAtFinal(w) \/ LookAtStaged(w) \/ MoveRecovered(w)
  \/ VerifyRecovered(w) \/ CommitRecovered(w) \/ DropPending(w)

BlocksNext ==
  \/ \E w \in Writers : WriterStep(w)
  \/ BeginSweep \/ ShelveFile \/ MarkQuarantined \/ CompleteSweep \/ SweepFails
  \/ StorageCloses \/ StorageOpens

BlocksSpec == BlocksInit /\ [][BlocksNext]_blockVars

-----------------------------------------------------------------------------
(* What the store promises *)

\* Whatever was interleaved or cut: a placement has its row, and unless a file was changed
\* under an ingestion that had looked at it, a visible block has its whole file, no torn
\* file reaches a final path, and storage fails to start only over a torn temporary file or
\* a placed block that was being collected or written again.
BlocksAreStored ==
  /\ placed => row # "absent"
  /\ ~outrun =>
       /\ Visible => final = "whole"
       /\ final # "torn"
       /\ storage = "stuck" => staged = "torn" \/ (placed /\ ~Visible)
=============================================================================
