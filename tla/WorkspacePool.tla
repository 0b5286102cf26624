----------------------------- MODULE WorkspacePool -----------------------------
(***************************************************************************)
(* The pool of isolated review worktrees (HostedReviewWorkspacePool.use):  *)
(* a manifest of at most MaxSlots slots, and one worktree directory per    *)
(* slot below the repository the slot is assigned to.  A turn reserves a   *)
(* slot, evicts the worktree the slot had for another repository, builds a *)
(* clean worktree, runs the review agent in it, rebuilds it and gives the  *)
(* slot back.  Turns of several processes share the pool.                  *)
(*                                                                         *)
(* Every change of the manifest is a read-change-write under manifest.lock *)
(* and one step here; one that fails (the lock times out, the file cannot  *)
(* be written) changes nothing.  Which of the eligible slots is taken (by  *)
(* thread, revision and age) is left open.                                 *)
(***************************************************************************)
EXTENDS PoolProcesses, FiniteSets, Naturals

CONSTANTS
  Turns,             \* review turns that use the pool, each once
  TurnProcess,       \* process that runs the turn
  TurnRepository,    \* repository the turn's review belongs to
  Slots,             \* slot identifiers
  MaxSlots,          \* MAX_POOL_SLOTS
  MayCut,            \* whether a turn may be interrupted as its reservation commits
  MayMiss,           \* whether a manifest transaction may fail
  Nil                \* no turn, no slot, no repository

Repositories == {TurnRepository[t] : t \in Turns}

ASSUME WorkspacePoolAssumption ==
  /\ TurnProcess \in [Turns -> Processes]
  /\ DOMAIN TurnRepository = Turns
  /\ Nil \notin Turns \cup Slots \cup Repositories
  /\ MaxSlots \in Nat
  /\ {MayCut, MayMiss} \subseteq BOOLEAN

VARIABLES
  slots,      \* the manifest: of each slot its state, repository and leasing turn
  worktree,   \* of each repository and slot, what its directory holds
  at,         \* progress of each turn
  slotOf,     \* slot a turn has reserved
  evictee     \* repository its slot was assigned to before, if another

poolVars == <<slots, worktree, at, slotOf, evictee>>

Busy == {"preparing", "leased", "cleaning"}
SlotStates == Busy \cup {"available", "quarantined", "missing"}
Progress == {"idle", "reserved", "evict", "fetch", "build", "record", "use", "release",
             "restore", "giveBack", "quarantine", "done", "cut", "missed"}
Contents == {"none", "partial", "clean", "dirty"}

\* A slot that is not in the manifest.
MissingSlot == [state |-> "missing", repository |-> Nil, lease |-> Nil]

PoolTypeOK ==
  /\ slots \in [Slots -> [state : SlotStates, repository : Repositories \cup {Nil},
                          lease : Turns \cup {Nil}]]
  /\ worktree \in [Repositories -> [Slots -> Contents]]
  /\ at \in [Turns -> Progress]
  /\ slotOf \in [Turns -> Slots \cup {Nil}]
  /\ evictee \in [Turns -> Repositories \cup {Nil}]

PoolInit ==
  /\ slots = [s \in Slots |-> MissingSlot]
  /\ worktree = [r \in Repositories |-> [s \in Slots |-> "none"]]
  /\ at = [t \in Turns |-> "idle"]
  /\ slotOf = [t \in Turns |-> Nil]
  /\ evictee = [t \in Turns |-> Nil]

-----------------------------------------------------------------------------
TurnAt(t, p) == life[TurnProcess[t]] = "alive" /\ at[t] = p
TurnGo(t, p) == at' = [at EXCEPT ![t] = p]

\* updateSlot by the turn; a turn that does not hold a slot id updates nothing.
SetSlot(t, state, lease) ==
  slots' = [slots EXCEPT ![slotOf[t]].state = state, ![slotOf[t]].lease = lease]

Fill(r, s, c) == worktree' = [worktree EXCEPT ![r][s] = c]

LeaseLives(s) ==
  slots[s].lease # Nil /\ IsProcessAlive(Pid[TurnProcess[slots[s].lease]])

\* Wrong: every busy slot of another process is recovered.
Wrong_Recovered(s) == slots[s].state \in Busy

\* A busy slot whose process is gone counts as available again.
Recovered(s) == slots[s].state \in Busy /\ ~LeaseLives(s)

Available(s) == slots[s].state \in {"available", "quarantined"} \/ Recovered(s)

Known == {s \in Slots : slots[s].state # "missing"}

\* reserveSlot: a slot of the repository; else a new one; else, at capacity, any idle one.
Candidates(t) ==
  LET preferred == {s \in Known : Available(s) /\ slots[s].repository = TurnRepository[t]}
  IN  IF preferred # {} THEN preferred
      ELSE IF Cardinality(Known) >= MaxSlots THEN {s \in Known : Available(s)}
      ELSE Slots \ Known

ReserveSlot(t) ==
  /\ TurnAt(t, "idle")
  /\ \E s \in Candidates(t) :
       /\ slots' = [x \in Slots |->
            IF x = s THEN [state |-> "preparing", repository |-> TurnRepository[t], lease |-> t]
            ELSE IF Recovered(x) THEN [slots[x] EXCEPT !.state = "available", !.lease = Nil]
            ELSE slots[x]]
       /\ slotOf' = [slotOf EXCEPT ![t] = s]
       /\ evictee' = [evictee EXCEPT ![t] =
                        IF slots[s].repository \in {Nil, TurnRepository[t]} THEN Nil
                        ELSE slots[s].repository]
  /\ TurnGo(t, "reserved")
  /\ UNCHANGED worktree

AtCapacity(t) ==
  /\ TurnAt(t, "idle")
  /\ Cardinality(Known) >= MaxSlots
  /\ Candidates(t) = {}
  /\ TurnGo(t, "done")
  /\ UNCHANGED <<slots, worktree, slotOf, evictee>>

\* The interruption that arrives while the transaction still releases its lock takes
\* effect before the handlers that quarantine the slot are in place.
CutReservation(t) ==
  /\ MayCut
  /\ TurnAt(t, "reserved")
  /\ TurnGo(t, "cut")
  /\ UNCHANGED <<slots, worktree, slotOf, evictee>>

BeginPreparation(t) ==
  /\ TurnAt(t, "reserved")
  /\ TurnGo(t, IF evictee[t] = Nil THEN "fetch" ELSE "evict")
  /\ UNCHANGED <<slots, worktree, slotOf, evictee>>

\* Under the lock of the repository the slot is taken from.
EvictSlot(t) ==
  /\ TurnAt(t, "evict")
  /\ Fill(evictee[t], slotOf[t], "none")
  /\ TurnGo(t, "fetch")
  /\ UNCHANGED <<slots, slotOf, evictee>>

\* Bare repository, fetch and revision check; then the old directory is removed and a
\* worktree is added at the fetched revision, under the repository's lock.
Fetch(t) ==
  /\ TurnAt(t, "fetch")
  /\ Fill(TurnRepository[t], slotOf[t], "partial")
  /\ TurnGo(t, "build")
  /\ UNCHANGED <<slots, slotOf, evictee>>

\* Wrong: a worktree that is there already is used as it is.
Wrong_RecreateWorktree(t) ==
  /\ TurnAt(t, "build")
  /\ UNCHANGED worktree
  /\ TurnGo(t, "record")
  /\ UNCHANGED <<slots, slotOf, evictee>>

RecreateWorktree(t) ==
  /\ TurnAt(t, "build")
  /\ Fill(TurnRepository[t], slotOf[t], "clean")
  /\ TurnGo(t, "record")
  /\ UNCHANGED <<slots, slotOf, evictee>>

\* A worktree that cannot be added or verified is removed; the removal may fail too.
BuildFails(t) ==
  /\ TurnAt(t, "build")
  /\ \E c \in {"none", "partial"} : Fill(TurnRepository[t], slotOf[t], c)
  /\ TurnGo(t, "quarantine")
  /\ UNCHANGED <<slots, slotOf, evictee>>

RecordLease(t) ==
  /\ TurnAt(t, "record")
  /\ SetSlot(t, "leased", slots[slotOf[t]].lease)
  /\ TurnGo(t, "use")
  /\ UNCHANGED <<worktree, slotOf, evictee>>

\* Any error or interruption of the preparation, a failed transaction included.
PreparationFails(t) ==
  /\ \E p \in {"evict", "fetch", "build", "record"} : TurnAt(t, p)
  /\ TurnGo(t, "quarantine")
  /\ UNCHANGED <<slots, worktree, slotOf, evictee>>

Quarantine(t) ==
  /\ TurnAt(t, "quarantine")
  /\ SetSlot(t, "quarantined", Nil)
  /\ TurnGo(t, "done")
  /\ UNCHANGED <<worktree, slotOf, evictee>>

\* The agent may leave anything in the worktree; success, failure and interruption all
\* lead to the release, which is not interruptible.
EndTurn(t) ==
  /\ TurnAt(t, "use")
  /\ \E c \in {"clean", "dirty"} : Fill(TurnRepository[t], slotOf[t], c)
  /\ TurnGo(t, "release")
  /\ UNCHANGED <<slots, slotOf, evictee>>

BeginRestore(t) ==
  /\ TurnAt(t, "release")
  /\ SetSlot(t, "cleaning", slots[slotOf[t]].lease)
  /\ TurnGo(t, "restore")
  /\ UNCHANGED <<worktree, slotOf, evictee>>

Restore(t) ==
  /\ TurnAt(t, "restore")
  /\ Fill(TurnRepository[t], slotOf[t], "clean")
  /\ TurnGo(t, "giveBack")
  /\ UNCHANGED <<slots, slotOf, evictee>>

RestoreFails(t) ==
  /\ TurnAt(t, "restore")
  /\ \E c \in {"none", "partial", "dirty"} : Fill(TurnRepository[t], slotOf[t], c)
  /\ TurnGo(t, "quarantine")
  /\ UNCHANGED <<slots, slotOf, evictee>>

\* Wrong: the slot is given back as it was reserved.
Wrong_GiveBack(t) ==
  /\ TurnAt(t, "giveBack")
  /\ TurnGo(t, "done")
  /\ UNCHANGED <<slots, worktree, slotOf, evictee>>

GiveBack(t) ==
  /\ TurnAt(t, "giveBack")
  /\ SetSlot(t, "available", Nil)
  /\ TurnGo(t, "done")
  /\ UNCHANGED <<worktree, slotOf, evictee>>

\* Nothing repeats a transaction that fails once the slot is reserved.
TransactionFails(t) ==
  /\ MayMiss
  /\ \E p \in {"quarantine", "release", "giveBack"} : TurnAt(t, p)
  /\ TurnGo(t, "missed")
  /\ UNCHANGED <<slots, worktree, slotOf, evictee>>

-----------------------------------------------------------------------------
Turn(t) ==
  \/ ReserveSlot(t) \/ AtCapacity(t) \/ CutReservation(t) \/ BeginPreparation(t)
  \/ EvictSlot(t) \/ Fetch(t) \/ RecreateWorktree(t) \/ BuildFails(t) \/ RecordLease(t)
  \/ PreparationFails(t) \/ Quarantine(t) \/ EndTurn(t) \/ BeginRestore(t) \/ Restore(t)
  \/ RestoreFails(t) \/ GiveBack(t) \/ TransactionFails(t)

PoolNext ==
  \/ LifeNext /\ UNCHANGED poolVars
  \/ (\E t \in Turns : Turn(t)) /\ UNCHANGED life

poolState == <<life, poolVars>>
PoolSpec == LifeInit /\ PoolInit /\ [][PoolNext]_poolState

-----------------------------------------------------------------------------
(* What the pool promises *)

\* A turn holds its slot from the reservation to the return.
Working == Progress \ {"idle", "done", "cut", "missed"}
WorksOn(t, s) ==
  life[TurnProcess[t]] = "alive" /\ at[t] \in Working /\ slotOf[t] = s

\* A slot is worked on by one turn at a time, the one its lease names, however many turns
\* recover, reserve and quarantine slots at once.
SlotHasOneTurn ==
  \A t \in Turns, s \in Slots :
    WorksOn(t, s) => slots[s].lease = t /\ slots[s].repository = TurnRepository[t]

\* An agent starts in a worktree that was rebuilt for its turn: nothing an earlier agent,
\* a failed preparation or a dead process left is there.
AgentStartsClean ==
  \A t \in Turns : TurnAt(t, "use") => worktree[TurnRepository[t]][slotOf[t]] = "clean"

\* A slot that looks busy under a running process is worked on by a turn of that process,
\* or was lost by one that was cut off as it reserved it or missed a transaction, or is
\* taken for busy because the process id was given to another process.
BusySlotIsWorkedOn ==
  \A s \in Slots :
    slots[s].state \in Busy /\ LeaseLives(s) =>
      LET t == slots[s].lease
      IN  WorksOn(t, s) \/ at[t] \in {"cut", "missed"} \/ life[TurnProcess[t]] = "dead"

\* The three together: a slot goes from turn to turn, clean, and is not kept by nobody.
SlotsAreHandedOver == SlotHasOneTurn /\ AgentStartsClean /\ BusySlotIsWorkedOn

=============================================================================
