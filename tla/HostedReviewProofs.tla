-------------------------- MODULE HostedReviewProofs --------------------------
(***************************************************************************)
(* The safety of what a hosted review stands on: the file lock, the slots  *)
(* of the worktree pool, the snapshots that requests share, the blocks     *)
(* they are stored in, and the review runs; each for every number of       *)
(* processes, attempts, turns, requests, writers and messages.             *)
(***************************************************************************)
EXTENDS FileLock, WorkspacePool, SnapshotAcquisition, SnapshotBlocks, ReviewRuns, TLAPS

-----------------------------------------------------------------------------
(* The file lock *)

\* An attempt takes its steps in a process that was started.
AttemptsAreStarted == \A a \in Attempts : step[a] # "idle" => life[Home[a]] # "unborn"

\* Running processes are told apart by their ids.
IdsAreDistinct ==
  \A p, q \in Processes :
    life[p] = "alive" /\ life[q] = "alive" /\ Pid[p] = Pid[q] => p = q

\* The lock path is linked to an attempt in its section, or of a process that has died.
LinkIsHeld ==
  link # NoAttempt => step[link] \in Holding \/ life[Home[link]] = "dead"

\* A holder that identifies a file other than its claim is no longer linked.
OwnIdentity ==
  \A a \in Attempts :
    step[a] \in {"confirmRead", "reconfirmRead"} /\ link = a => inode[a] = a

\* Nobody sets out to remove a lock before a process has died.
StealingNeedsDeath ==
  NoneDied => \A a \in Attempts : step[a] \notin {"recheck", "recheckRead", "steal"}

LockIInv ==
  /\ LifeTypeOK /\ LockTypeOK
  /\ AttemptsAreStarted /\ IdsAreDistinct /\ LinkIsHeld /\ OwnIdentity
  /\ StealingNeedsDeath /\ ExcludesUntilDeath

LEMMA LockStartsSafe == LifeInit /\ LockInit => LockIInv
<1> USE FileLockAssumption, PoolProcessesAssumption
<1>1. SUFFICES ASSUME LifeInit, LockInit PROVE LockIInv
  OBVIOUS
<1>2. LifeTypeOK /\ LockTypeOK
  BY <1>1 DEF LifeInit, LockInit, LifeTypeOK, LockTypeOK, LockSteps, Nothing
<1>3. AttemptsAreStarted /\ OwnIdentity /\ StealingNeedsDeath /\ ExcludesUntilDeath /\ LinkIsHeld
  BY <1>1 DEF LockInit, AttemptsAreStarted, OwnIdentity, StealingNeedsDeath, LinkIsHeld,
              ExcludesUntilDeath, Holding
<1>4. IdsAreDistinct
  BY <1>1 DEF LifeInit, IdsAreDistinct
<1> QED BY <1>2, <1>3, <1>4 DEF LockIInv

\* A running process that links the lock path is no reason to steal, as long as none has died.
LEMMA LiveHolderIsLeft ==
  ASSUME LockIInv, NoneDied, NEW a \in Attempts, Runs(a), link # NoAttempt
  PROVE  ~ShouldSteal(a, link)
<1> USE FileLockAssumption, PoolProcessesAssumption
<1>1. link \in Attempts /\ Home[link] \in Processes /\ Home[a] \in Processes
  BY DEF LockIInv, LockTypeOK
<1>2. life[Home[link]] = "alive"
  BY <1>1 DEF LockIInv, LinkIsHeld, AttemptsAreStarted, LifeTypeOK, NoneDied, Holding
<1>3. IsProcessAlive(Pid[Home[link]])
  BY <1>1, <1>2 DEF IsProcessAlive
<1>4. Pid[Home[link]] = Pid[Home[a]] => Home[link] = Home[a]
  BY <1>1, <1>2 DEF LockIInv, IdsAreDistinct, Runs
<1> QED BY <1>3, <1>4 DEF ShouldSteal

LEMMA LifeKeepsLock ==
  ASSUME LockIInv, LifeNext, UNCHANGED lockVars
  PROVE  LockIInv'
<1> USE FileLockAssumption, PoolProcessesAssumption
<1>1. PICK p \in Processes : Boot(p) \/ Die(p)
  BY DEF LifeNext
<1>2. LifeTypeOK' /\ LockTypeOK'
  BY <1>1 DEF LockIInv, Boot, Die, LifeTypeOK, LockTypeOK, lockVars
<1>3. AttemptsAreStarted'
  BY <1>1 DEF LockIInv, Boot, Die, LifeTypeOK, LockTypeOK, lockVars, AttemptsAreStarted
<1>4. IdsAreDistinct'
  BY <1>1 DEF LockIInv, Boot, Die, LifeTypeOK, IdsAreDistinct, IsProcessAlive
<1>5. LinkIsHeld'
  BY <1>1 DEF LockIInv, Boot, Die, LifeTypeOK, LockTypeOK, lockVars, LinkIsHeld
<1>6. OwnIdentity'
  BY DEF LockIInv, OwnIdentity, lockVars
<1>7. NoneDied' => NoneDied
  BY <1>1 DEF LockIInv, Boot, Die, LifeTypeOK, NoneDied
<1>8. StealingNeedsDeath'
  BY <1>7 DEF LockIInv, StealingNeedsDeath, lockVars
<1>9. ExcludesUntilDeath'
  <2> SUFFICES ASSUME NoneDied', NEW a \in Attempts, Runs(a)', step[a] \in Holding
               PROVE  link = a
    BY DEF ExcludesUntilDeath, lockVars
  <2>1. life[Home[a]] # "unborn"
    BY DEF LockIInv, AttemptsAreStarted, Holding
  <2>2. Runs(a)
    BY <1>1, <2>1 DEF LockIInv, Boot, Die, LifeTypeOK, Runs
  <2> QED BY <1>7, <2>2 DEF LockIInv, ExcludesUntilDeath
<1> QED BY <1>2, <1>3, <1>4, <1>5, <1>6, <1>8, <1>9 DEF LockIInv

\* An attempt changes no process, so what is left to show of its steps is about the lock.
LEMMA AttemptKeepsLock ==
  ASSUME LockIInv, NEW a \in Attempts, Attempt(a), UNCHANGED life
  PROVE  LockIInv'
<1> USE FileLockAssumption
<1> DEFINE LockPart == LockTypeOK' /\ AttemptsAreStarted' /\ LinkIsHeld' /\ OwnIdentity'
                        /\ StealingNeedsDeath' /\ ExcludesUntilDeath'
<1>0. LifeTypeOK' /\ IdsAreDistinct' /\ (NoneDied' <=> NoneDied) /\ \A b \in Attempts : Runs(b)' <=> Runs(b)
  BY DEF LockIInv, LifeTypeOK, IdsAreDistinct, NoneDied, Runs
<1> USE DEF LockIInv, LockTypeOK, AttemptsAreStarted, LinkIsHeld, OwnIdentity, StealingNeedsDeath,
            ExcludesUntilDeath, LockAt, LockGo, Holding
<1>1. CASE CreateClaim(a)
  BY <1>0, <1>1 DEF CreateClaim, LockSteps, Looks, Reads, Runs
<1>2. CASE ClaimFails(a)
  BY <1>0, <1>2 DEF ClaimFails, LockSteps, Runs
<1>3. CASE Publish(a)
  BY <1>0, <1>3 DEF Publish, LockSteps, Looks, Runs
<1>4. CASE Identify(a)
  BY <1>0, <1>4 DEF Identify, LockSteps, Looks, Reads, Read, Absent, Runs
<1>5. CASE ReadLook(a)
  BY <1>0, <1>5, LiveHolderIsLeft DEF ReadLook, LockSteps, Looks, Runs
<1>6. CASE ReadRecheck(a)
  BY <1>0, <1>6 DEF ReadRecheck, LockSteps, Runs
<1>7. CASE ReadOwn(a)
  BY <1>0, <1>7 DEF ReadOwn, LockSteps, Looks, Runs
<1>8. CASE RemoveStale(a)
  BY <1>0, <1>8 DEF RemoveStale, LockSteps, Runs
<1>9. CASE Retry(a) \/ TimeOut(a)
  BY <1>0, <1>9 DEF Retry, TimeOut, LockSteps, Runs
<1>10. CASE InterruptAttempt(a)
  BY <1>0, <1>10 DEF InterruptAttempt, LockSteps, Runs
<1>11. CASE EndUse(a)
  BY <1>0, <1>11 DEF EndUse, LockSteps, Looks, Runs
<1>12. CASE RemoveOwn(a)
  BY <1>0, <1>12 DEF RemoveOwn, LockSteps, Runs
<1>13. CASE CleanupClaim(a)
  BY <1>0, <1>13 DEF CleanupClaim, LockSteps, Runs
<1> QED BY <1>1, <1>2, <1>3, <1>4, <1>5, <1>6, <1>7, <1>8, <1>9, <1>10, <1>11, <1>12, <1>13
        DEF Attempt

\* Whatever the processes and attempts do, the conjuncts of the invariant hold.
THEOREM LockIsSafe == LockSpec => []LockIInv
<1>1. LockIInv /\ [LockNext]_lockState => LockIInv'
  <2> SUFFICES ASSUME LockIInv, [LockNext]_lockState PROVE LockIInv'
    OBVIOUS
  <2>1. CASE LifeNext /\ UNCHANGED lockVars
    BY <2>1, LifeKeepsLock
  <2>2. CASE (\E a \in Attempts : Attempt(a)) /\ UNCHANGED life
    BY <2>2, AttemptKeepsLock
  <2>3. CASE UNCHANGED lockState
    BY <2>3 DEF lockState, lockVars, LockIInv, LifeTypeOK, LockTypeOK, AttemptsAreStarted,
                IdsAreDistinct, LinkIsHeld, OwnIdentity, StealingNeedsDeath, NoneDied,
                ExcludesUntilDeath, Runs
  <2> QED BY <2>1, <2>2, <2>3 DEF LockNext
<1> QED BY <1>1, LockStartsSafe, PTL DEF LockSpec

\* Until a process dies the lock excludes, for any number of processes and attempts, and a
\* link never outlives the section of an attempt whose process runs.
THEOREM LockIsAlwaysOwned == LockSpec => []LockIsOwned
<1>1. LockIInv => LockIsOwned
  BY DEF LockIInv, LockIsOwned, NoOrphanLink, LinkIsHeld, Runs
<1> QED BY <1>1, LockIsSafe, PTL

-----------------------------------------------------------------------------
(* The worktree pool *)

\* A turn takes its steps in a process that was started.
TurnsAreStarted == \A t \in Turns : at[t] # "idle" => life[TurnProcess[t]] # "unborn"

\* A turn that works in a running process has a busy slot under its lease.
WorkIsLeased ==
  \A t \in Turns :
    life[TurnProcess[t]] = "alive" /\ at[t] \in Working =>
      /\ slotOf[t] \in Slots
      /\ slots[slotOf[t]].lease = t
      /\ slots[slotOf[t]].state \in Busy
      /\ slots[slotOf[t]].repository = TurnRepository[t]

\* A lease names a turn that took the slot and has not given it back.
LeasesAreTaken ==
  \A s \in Slots :
    slots[s].lease # Nil =>
      LET t == slots[s].lease
      IN  slotOf[t] = s /\ at[t] \in Working \cup {"cut", "missed"}

\* From its creation to the agent's end, the worktree is as it was built.
BuiltIsClean ==
  \A t \in Turns :
    life[TurnProcess[t]] = "alive" /\ at[t] \in {"record", "use"} =>
      worktree[TurnRepository[t]][slotOf[t]] = "clean"

PoolIInv ==
  /\ LifeTypeOK /\ PoolTypeOK
  /\ TurnsAreStarted /\ WorkIsLeased /\ LeasesAreTaken /\ BuiltIsClean

LEMMA PoolStartsSafe == LifeInit /\ PoolInit => PoolIInv
<1> USE WorkspacePoolAssumption, PoolProcessesAssumption
<1>1. SUFFICES ASSUME LifeInit, PoolInit PROVE PoolIInv
  OBVIOUS
<1>2. LifeTypeOK /\ PoolTypeOK
  BY <1>1 DEF LifeInit, PoolInit, LifeTypeOK, PoolTypeOK, MissingSlot, SlotStates, Progress,
              Contents
<1>3. TurnsAreStarted /\ WorkIsLeased /\ LeasesAreTaken /\ BuiltIsClean
  BY <1>1 DEF PoolInit, MissingSlot, TurnsAreStarted, WorkIsLeased, LeasesAreTaken,
              BuiltIsClean, Working, Progress
<1> QED BY <1>2, <1>3 DEF PoolIInv

LEMMA LifeKeepsPool ==
  ASSUME PoolIInv, LifeNext, UNCHANGED poolVars
  PROVE  PoolIInv'
<1> USE WorkspacePoolAssumption, PoolProcessesAssumption
<1>1. PICK p \in Processes : Boot(p) \/ Die(p)
  BY DEF LifeNext
<1>2. LifeTypeOK' /\ PoolTypeOK'
  BY <1>1 DEF PoolIInv, Boot, Die, LifeTypeOK, PoolTypeOK, poolVars
<1>3. TurnsAreStarted'
  BY <1>1 DEF PoolIInv, Boot, Die, LifeTypeOK, PoolTypeOK, poolVars, TurnsAreStarted
<1>4. \A t \in Turns :
        life'[TurnProcess[t]] = "alive" /\ at[t] # "idle" => life[TurnProcess[t]] = "alive"
  BY <1>1 DEF PoolIInv, Boot, Die, LifeTypeOK, TurnsAreStarted
<1>5. WorkIsLeased'
  BY <1>4 DEF PoolIInv, WorkIsLeased, poolVars, Working
<1>6. LeasesAreTaken'
  BY DEF PoolIInv, LeasesAreTaken, poolVars
<1>7. BuiltIsClean'
  BY <1>4 DEF PoolIInv, BuiltIsClean, poolVars
<1> QED BY <1>2, <1>3, <1>5, <1>6, <1>7 DEF PoolIInv

\* A slot a running turn works on is none another turn can take.
LEMMA WorkedOnIsNotAvailable ==
  ASSUME PoolIInv, NEW t \in Turns, life[TurnProcess[t]] = "alive", at[t] \in Working
  PROVE  /\ ~Recovered(slotOf[t])
         /\ slotOf[t] \in Known
         /\ ~Available(slotOf[t])
<1> USE WorkspacePoolAssumption, PoolProcessesAssumption
<1>1. /\ slotOf[t] \in Slots /\ slots[slotOf[t]].lease = t
      /\ slots[slotOf[t]].state \in Busy
  BY DEF PoolIInv, WorkIsLeased
<1>2. LeaseLives(slotOf[t])
  BY <1>1 DEF LeaseLives, IsProcessAlive
<1> QED BY <1>1, <1>2 DEF Recovered, Available, Known, Busy

LEMMA CandidatesAreFree ==
  ASSUME NEW t \in Turns, NEW s \in Candidates(t)
  PROVE  s \in Slots /\ (s \in Known => Available(s))
BY DEF Candidates, Known

LEMMA ReservationKeepsPool ==
  ASSUME PoolIInv, UNCHANGED life, NEW t \in Turns, ReserveSlot(t)
  PROVE  PoolIInv'
<1> USE WorkspacePoolAssumption, PoolProcessesAssumption
<1>1. PICK s \in Candidates(t) :
        /\ slots' = [x \in Slots |->
             IF x = s THEN [state |-> "preparing", repository |-> TurnRepository[t], lease |-> t]
             ELSE IF Recovered(x) THEN [slots[x] EXCEPT !.state = "available", !.lease = Nil]
             ELSE slots[x]]
        /\ slotOf' = [slotOf EXCEPT ![t] = s]
        /\ evictee' = [evictee EXCEPT ![t] =
                         IF slots[s].repository \in {Nil, TurnRepository[t]} THEN Nil
                         ELSE slots[s].repository]
  BY DEF ReserveSlot
<1>2. at[t] = "idle" /\ life[TurnProcess[t]] = "alive" /\ at' = [at EXCEPT ![t] = "reserved"]
      /\ worktree' = worktree
  BY DEF ReserveSlot, TurnAt, TurnGo
<1>3. s \in Slots /\ (s \in Known => Available(s))
  BY CandidatesAreFree
<1>4. TurnRepository[t] \in Repositories
  BY DEF Repositories
<1>5. slots' \in [Slots -> [state : SlotStates, repository : Repositories \cup {Nil},
                            lease : Turns \cup {Nil}]]
  <2>1. \A x \in Slots : slots[x] \in [state : SlotStates, repository : Repositories \cup {Nil},
                                       lease : Turns \cup {Nil}]
    BY DEF PoolIInv, PoolTypeOK
  <2>2. \A x \in Slots : slots'[x] \in [state : SlotStates, repository : Repositories \cup {Nil},
                                        lease : Turns \cup {Nil}]
    BY <1>1, <1>4, <2>1 DEF SlotStates, Busy
  <2> QED BY <1>1, <2>2
<1>6. PoolTypeOK' /\ LifeTypeOK' /\ TurnsAreStarted'
  BY <1>1, <1>2, <1>3, <1>5 DEF PoolIInv, PoolTypeOK, LifeTypeOK, TurnsAreStarted, Progress
<1>7. \A u \in Turns \ {t} :
        life[TurnProcess[u]] = "alive" /\ at[u] \in Working =>
          slotOf[u] \in Slots /\ slotOf[u] # s /\ slots'[slotOf[u]] = slots[slotOf[u]]
  <2>1. SUFFICES ASSUME NEW u \in Turns \ {t}, life[TurnProcess[u]] = "alive", at[u] \in Working
                 PROVE  slotOf[u] \in Slots /\ slotOf[u] # s /\ slots'[slotOf[u]] = slots[slotOf[u]]
    OBVIOUS
  <2>2. slotOf[u] \in Known /\ ~Recovered(slotOf[u]) /\ ~Available(slotOf[u])
    BY <2>1, WorkedOnIsNotAvailable
  <2>3. slotOf[u] \in Slots /\ slotOf[u] # s
    BY <1>3, <2>2 DEF Known
  <2> QED BY <1>1, <2>2, <2>3
<1>8. /\ slots'[s].lease = t /\ slots'[s].state \in Busy
      /\ slots'[s].repository = TurnRepository[t]
      /\ slotOf'[t] = s /\ at'[t] = "reserved"
      /\ \A u \in Turns \ {t} : slotOf'[u] = slotOf[u] /\ at'[u] = at[u]
  BY <1>1, <1>2, <1>3 DEF PoolIInv, PoolTypeOK, Busy
<1>9. WorkIsLeased'
  <2>1. \A u \in Turns \ {t} :
          life[TurnProcess[u]] = "alive" /\ at[u] \in Working =>
            /\ slots[slotOf[u]].lease = u /\ slots[slotOf[u]].state \in Busy
            /\ slots[slotOf[u]].repository = TurnRepository[u]
    BY DEF PoolIInv, WorkIsLeased
  <2> QED BY <1>3, <1>7, <1>8, <2>1 DEF WorkIsLeased
<1>10. \A x \in Slots : x # s /\ slots'[x].lease # Nil => slots'[x].lease = slots[x].lease
  <2>1. \A x \in Slots : slots[x] \in [state : SlotStates, repository : Repositories \cup {Nil},
                                       lease : Turns \cup {Nil}]
    BY DEF PoolIInv, PoolTypeOK
  <2> QED BY <1>1, <2>1
<1>11. \A x \in Slots : slots[x].lease # t
  BY <1>2 DEF PoolIInv, LeasesAreTaken, Working
<1>12. \A x \in Slots : slots'[x].lease \in Turns \cup {Nil}
  BY <1>5
<1>13. LeasesAreTaken'
  BY <1>8, <1>10, <1>11, <1>12 DEF PoolIInv, LeasesAreTaken, Working, Progress
<1>14. BuiltIsClean'
  BY <1>2, <1>8 DEF PoolIInv, BuiltIsClean
<1> QED BY <1>6, <1>9, <1>13, <1>14 DEF PoolIInv
\* What every step of a turn that works does: it changes its own progress, the record and the
\* directories of its own slot, and either keeps the slot or gives it back or loses it.
OwnSlotStep(t, p) ==
  /\ life[TurnProcess[t]] = "alive" /\ at[t] \in Working
  /\ at' = [at EXCEPT ![t] = p]
  /\ UNCHANGED <<life, slotOf, evictee>>
  /\ PoolTypeOK'
  /\ \A s \in Slots : s # slotOf[t] => slots'[s] = slots[s]
  /\ \A r \in Repositories, s \in Slots : s # slotOf[t] => worktree'[r][s] = worktree[r][s]
  /\ \/ /\ p \in Working
        /\ slots'[slotOf[t]].lease = t /\ slots'[slotOf[t]].state \in Busy
        /\ slots'[slotOf[t]].repository = slots[slotOf[t]].repository
     \/ p = "done" /\ slots'[slotOf[t]].lease = Nil
     \/ p \in {"cut", "missed"} /\ slots' = slots
  /\ p \in {"record", "use"} => worktree'[TurnRepository[t]][slotOf[t]] = "clean"

LEMMA OwnSlotKeepsPool ==
  ASSUME PoolIInv, NEW t \in Turns, NEW p \in Progress, OwnSlotStep(t, p)
  PROVE  PoolIInv'
<1> USE WorkspacePoolAssumption, PoolProcessesAssumption
<1>1. /\ life' = life /\ slotOf' = slotOf /\ PoolTypeOK'
      /\ life[TurnProcess[t]] = "alive" /\ at[t] \in Working
      /\ at'[t] = p /\ \A u \in Turns \ {t} : at'[u] = at[u]
  BY DEF OwnSlotStep, PoolIInv, PoolTypeOK
<1>2. /\ slotOf[t] \in Slots /\ slots[slotOf[t]].lease = t
      /\ slots[slotOf[t]].repository = TurnRepository[t]
  BY <1>1 DEF PoolIInv, WorkIsLeased
<1>3. \A u \in Turns \ {t} :
        life[TurnProcess[u]] = "alive" /\ at[u] \in Working =>
          /\ slotOf[u] \in Slots /\ slotOf[u] # slotOf[t]
          /\ slots[slotOf[u]].lease = u /\ slots[slotOf[u]].state \in Busy
          /\ slots[slotOf[u]].repository = TurnRepository[u]
          /\ slots'[slotOf[u]] = slots[slotOf[u]]
  BY <1>2 DEF PoolIInv, WorkIsLeased, OwnSlotStep
<1>4. TurnsAreStarted'
  BY <1>1 DEF PoolIInv, TurnsAreStarted
<1>5. WorkIsLeased'
  <2>1. SUFFICES ASSUME NEW u \in Turns, life[TurnProcess[u]] = "alive", at'[u] \in Working
                 PROVE  /\ slotOf[u] \in Slots
                        /\ slots'[slotOf[u]].lease = u /\ slots'[slotOf[u]].state \in Busy
                        /\ slots'[slotOf[u]].repository = TurnRepository[u]
    BY <1>1 DEF WorkIsLeased
  <2>2. CASE u # t
    BY <1>1, <1>3, <2>1, <2>2
  <2>3. CASE u = t
    BY <1>1, <1>2, <2>1, <2>3 DEF OwnSlotStep, Working
  <2> QED BY <2>2, <2>3
<1>6. LeasesAreTaken'
  <2>1. SUFFICES ASSUME NEW s \in Slots, slots'[s].lease # Nil
                 PROVE  /\ slotOf[slots'[s].lease] = s
                        /\ at'[slots'[s].lease] \in Working \cup {"cut", "missed"}
    BY <1>1 DEF LeasesAreTaken
  <2>2. CASE s # slotOf[t]
    <3>1. slots'[s] = slots[s] /\ slots[s].lease \in Turns \cup {Nil}
      BY <2>2 DEF OwnSlotStep, PoolIInv, PoolTypeOK
    <3>2. slotOf[slots[s].lease] = s /\ at[slots[s].lease] \in Working \cup {"cut", "missed"}
      BY <2>1, <3>1 DEF PoolIInv, LeasesAreTaken
    <3> QED BY <1>1, <2>1, <2>2, <3>1, <3>2
  <2>3. CASE s = slotOf[t]
    <3>1. slots'[s].lease = t /\ p \in Working \cup {"cut", "missed"}
      BY <1>2, <2>1, <2>3 DEF OwnSlotStep
    <3> QED BY <1>1, <2>3, <3>1
  <2> QED BY <2>2, <2>3
<1>7. BuiltIsClean'
  <2>1. SUFFICES ASSUME NEW u \in Turns, life[TurnProcess[u]] = "alive",
                        at'[u] \in {"record", "use"}
                 PROVE  worktree'[TurnRepository[u]][slotOf[u]] = "clean"
    BY <1>1 DEF BuiltIsClean
  <2>2. CASE u # t
    <3>1. slotOf[u] \in Slots /\ slotOf[u] # slotOf[t]
      BY <1>1, <1>3, <2>1, <2>2 DEF Working, Progress
    <3>2. TurnRepository[u] \in Repositories
      BY DEF Repositories
    <3>3. worktree[TurnRepository[u]][slotOf[u]] = "clean"
      BY <1>1, <2>1, <2>2 DEF PoolIInv, BuiltIsClean
    <3> QED BY <3>1, <3>2, <3>3 DEF OwnSlotStep
  <2>3. CASE u = t
    BY <1>1, <2>1, <2>3 DEF OwnSlotStep
  <2> QED BY <2>2, <2>3
<1> QED BY <1>1, <1>4, <1>5, <1>6, <1>7 DEF PoolIInv, LifeTypeOK

\* A change of the record of the slot a turn holds is one of that record only.
LEMMA SetSlotEffect ==
  ASSUME PoolIInv, NEW t \in Turns, slotOf[t] \in Slots, NEW state \in SlotStates,
         NEW lease \in Turns \cup {Nil}, SetSlot(t, state, lease)
  PROVE  /\ slots' \in [Slots -> [state : SlotStates, repository : Repositories \cup {Nil},
                                  lease : Turns \cup {Nil}]]
         /\ \A s \in Slots : s # slotOf[t] => slots'[s] = slots[s]
         /\ slots'[slotOf[t]].state = state /\ slots'[slotOf[t]].lease = lease
         /\ slots'[slotOf[t]].repository = slots[slotOf[t]].repository
<1> DEFINE marked == [slots EXCEPT ![slotOf[t]].state = state]
<1>1. slots' = [marked EXCEPT ![slotOf[t]].lease = lease]
  BY Zenon DEF SetSlot
<1>2. slots \in [Slots -> [state : SlotStates, repository : Repositories \cup {Nil},
                           lease : Turns \cup {Nil}]]
  BY DEF PoolIInv, PoolTypeOK
<1>3. /\ marked \in [Slots -> [state : SlotStates, repository : Repositories \cup {Nil},
                               lease : Turns \cup {Nil}]]
      /\ \A s \in Slots : s # slotOf[t] => marked[s] = slots[s]
      /\ marked[slotOf[t]].state = state
      /\ marked[slotOf[t]].repository = slots[slotOf[t]].repository
  BY <1>2
<1> HIDE DEF marked
<1> QED BY <1>1, <1>3

\* A change of a directory of the slot a turn holds.
LEMMA FillEffect ==
  ASSUME PoolIInv, NEW t \in Turns, slotOf[t] \in Slots, NEW r \in Repositories,
         NEW c \in Contents, Fill(r, slotOf[t], c)
  PROVE  /\ worktree' \in [Repositories -> [Slots -> Contents]]
         /\ worktree'[r][slotOf[t]] = c
         /\ \A q \in Repositories, s \in Slots :
              s # slotOf[t] => worktree'[q][s] = worktree[q][s]
BY DEF PoolIInv, PoolTypeOK, Fill
LEMMA WorkingStepKeepsPool ==
  ASSUME PoolIInv, UNCHANGED life, NEW t \in Turns,
         Turn(t), ~ReserveSlot(t), ~AtCapacity(t)
  PROVE  PoolIInv'
<1> USE WorkspacePoolAssumption, PoolProcessesAssumption
<1> SUFFICES \E p \in Progress : OwnSlotStep(t, p)
  BY OwnSlotKeepsPool
<1>1. life[TurnProcess[t]] = "alive" /\ at[t] \in Working
  BY DEF Turn, TurnAt, Working, Progress, CutReservation, BeginPreparation, EvictSlot, Fetch,
         RecreateWorktree, BuildFails, RecordLease, PreparationFails, Quarantine, EndTurn,
         BeginRestore, Restore, RestoreFails, GiveBack, TransactionFails
<1>2. /\ slotOf[t] \in Slots /\ slots[slotOf[t]].lease = t
      /\ slots[slotOf[t]].state \in Busy
      /\ slots[slotOf[t]].repository = TurnRepository[t]
      /\ TurnRepository[t] \in Repositories
  BY <1>1 DEF PoolIInv, WorkIsLeased, Repositories
<1>3. ASSUME NEW p \in Progress, TurnGo(t, p), UNCHANGED <<slots, worktree, slotOf, evictee>>,
             \/ p \in Working \ {"record", "use"}
             \/ p \in {"cut", "missed"}
      PROVE  OwnSlotStep(t, p)
  BY <1>1, <1>2, <1>3 DEF OwnSlotStep, TurnGo, PoolIInv, PoolTypeOK, Working
<1>4. ASSUME NEW p \in Progress, TurnGo(t, p), UNCHANGED <<slots, slotOf, evictee>>,
             NEW r \in Repositories, NEW c \in Contents, Fill(r, slotOf[t], c),
             p \in Working \ {"use"}, p = "record" => r = TurnRepository[t] /\ c = "clean"
      PROVE  OwnSlotStep(t, p)
  <2>1. /\ worktree' \in [Repositories -> [Slots -> Contents]]
        /\ worktree'[r][slotOf[t]] = c
        /\ \A q \in Repositories, s \in Slots : s # slotOf[t] => worktree'[q][s] = worktree[q][s]
    BY <1>2, <1>4, FillEffect
  <2>2. PoolTypeOK'
    BY <1>4, <2>1 DEF PoolIInv, PoolTypeOK, TurnGo
  <2> QED BY <1>1, <1>2, <1>4, <2>1, <2>2 DEF OwnSlotStep, TurnGo
<1>5. ASSUME NEW p \in Progress, TurnGo(t, p), UNCHANGED <<worktree, slotOf, evictee>>,
             NEW state \in SlotStates, NEW lease \in Turns \cup {Nil}, SetSlot(t, state, lease),
             \/ p \in Working \ {"record"} /\ state \in Busy /\ lease = t
             \/ p = "done" /\ lease = Nil,
             p = "use" => at[t] = "record"
      PROVE  OwnSlotStep(t, p)
  <2>1. /\ slots' \in [Slots -> [state : SlotStates, repository : Repositories \cup {Nil},
                                 lease : Turns \cup {Nil}]]
        /\ \A s \in Slots : s # slotOf[t] => slots'[s] = slots[s]
        /\ slots'[slotOf[t]].state = state /\ slots'[slotOf[t]].lease = lease
        /\ slots'[slotOf[t]].repository = slots[slotOf[t]].repository
    BY <1>2, <1>5, SetSlotEffect
  <2>2. PoolTypeOK'
    BY <1>5, <2>1 DEF PoolIInv, PoolTypeOK, TurnGo
  <2>3. p = "use" => worktree'[TurnRepository[t]][slotOf[t]] = "clean"
    BY <1>1, <1>5 DEF PoolIInv, BuiltIsClean
  <2> QED BY <1>1, <1>5, <2>1, <2>2, <2>3 DEF OwnSlotStep, TurnGo
<1> USE DEF Progress, Working, Busy, SlotStates, Contents
<1>6. CASE CutReservation(t)
  BY <1>3, <1>6 DEF CutReservation
<1>7. CASE BeginPreparation(t)
  BY <1>3, <1>7 DEF BeginPreparation
<1>8. CASE EvictSlot(t)
  <2>1. /\ evictee[t] \in Repositories \cup {Nil}
        /\ worktree \in [Repositories -> [Slots -> Contents]]
    BY DEF PoolIInv, PoolTypeOK
  <2>2. CASE evictee[t] \in Repositories
    BY <1>4, <1>8, <2>2 DEF EvictSlot
  <2>3. CASE evictee[t] = Nil
    <3>1. worktree' = [worktree EXCEPT ![Nil] = [worktree[Nil] EXCEPT ![slotOf[t]] = "none"]]
      BY <1>8, <2>3 DEF EvictSlot, Fill
    <3>2. Nil \notin Repositories
      OBVIOUS
    <3>3. UNCHANGED worktree
      BY <2>1, <3>1, <3>2, SMT
    <3> QED BY <1>3, <1>8, <3>3 DEF EvictSlot
  <2> QED BY <2>1, <2>2, <2>3
<1>9. CASE Fetch(t)
  BY <1>2, <1>4, <1>9 DEF Fetch
<1>10. CASE RecreateWorktree(t)
  BY <1>2, <1>4, <1>10 DEF RecreateWorktree
<1>11. CASE BuildFails(t)
  BY <1>2, <1>4, <1>11 DEF BuildFails
<1>12. CASE RecordLease(t)
  BY <1>2, <1>5, <1>12 DEF RecordLease, TurnAt
<1>13. CASE PreparationFails(t)
  BY <1>3, <1>13 DEF PreparationFails
<1>14. CASE Quarantine(t)
  BY <1>5, <1>14 DEF Quarantine
<1>15. CASE EndTurn(t)
  BY <1>2, <1>4, <1>15 DEF EndTurn
<1>16. CASE BeginRestore(t)
  BY <1>2, <1>5, <1>16 DEF BeginRestore
<1>17. CASE Restore(t)
  BY <1>2, <1>4, <1>17 DEF Restore
<1>18. CASE RestoreFails(t)
  BY <1>2, <1>4, <1>18 DEF RestoreFails
<1>19. CASE GiveBack(t)
  BY <1>5, <1>19 DEF GiveBack
<1>20. CASE TransactionFails(t)
  BY <1>3, <1>20 DEF TransactionFails
<1> QED BY <1>6, <1>7, <1>8, <1>9, <1>10, <1>11, <1>12, <1>13, <1>14, <1>15, <1>16, <1>17,
           <1>18, <1>19, <1>20 DEF Turn

\* Whatever the turns and their processes do, the conjuncts of the invariant hold.
THEOREM PoolIsSafe == PoolSpec => []PoolIInv
<1> USE WorkspacePoolAssumption, PoolProcessesAssumption
<1>1. PoolIInv /\ [PoolNext]_poolState => PoolIInv'
  <2> SUFFICES ASSUME PoolIInv, [PoolNext]_poolState PROVE PoolIInv'
    OBVIOUS
  <2>1. CASE LifeNext /\ UNCHANGED poolVars
    BY <2>1, LifeKeepsPool
  <2>2. ASSUME UNCHANGED life, NEW t \in Turns, Turn(t) PROVE PoolIInv'
    <3>1. CASE ReserveSlot(t)
      BY <2>2, <3>1, ReservationKeepsPool
    <3>2. CASE AtCapacity(t)
      <4>1. /\ at[t] = "idle" /\ life[TurnProcess[t]] = "alive"
            /\ at' = [at EXCEPT ![t] = "done"] /\ UNCHANGED <<slots, worktree, slotOf, evictee>>
        BY <3>2 DEF AtCapacity, TurnAt, TurnGo
      <4>2. LifeTypeOK' /\ PoolTypeOK' /\ TurnsAreStarted'
        BY <2>2, <4>1 DEF PoolIInv, LifeTypeOK, PoolTypeOK, TurnsAreStarted, Progress
      <4>3. WorkIsLeased' /\ BuiltIsClean'
        BY <2>2, <4>1 DEF PoolIInv, PoolTypeOK, WorkIsLeased, BuiltIsClean, Working
      <4>4. LeasesAreTaken'
        BY <4>1 DEF PoolIInv, PoolTypeOK, LeasesAreTaken, Working
      <4> QED BY <4>2, <4>3, <4>4 DEF PoolIInv
    <3>3. CASE ~ReserveSlot(t) /\ ~AtCapacity(t)
      BY <2>2, <3>3, WorkingStepKeepsPool
    <3> QED BY <3>1, <3>2, <3>3
  <2>3. CASE UNCHANGED poolState
    BY <2>3 DEF poolState, poolVars, PoolIInv, LifeTypeOK, PoolTypeOK, TurnsAreStarted,
                WorkIsLeased, LeasesAreTaken, BuiltIsClean
  <2> QED BY <2>1, <2>2, <2>3 DEF PoolNext
<1> QED BY <1>1, PoolStartsSafe, PTL DEF PoolSpec

\* A slot goes from turn to turn: one works on it at a time, its agent starts in a clean
\* worktree, and a slot that looks busy is worked on or was visibly lost; for any number of
\* turns, slots and processes, whoever dies, is cut off or misses a transaction.
THEOREM SlotsAreAlwaysHandedOver == PoolSpec => []SlotsAreHandedOver
<1>1. PoolIInv => SlotHasOneTurn
  BY DEF PoolIInv, WorkIsLeased, SlotHasOneTurn, WorksOn
<1>2. PoolIInv => AgentStartsClean
  BY DEF PoolIInv, BuiltIsClean, AgentStartsClean, TurnAt
<1>3. PoolIInv => BusySlotIsWorkedOn
  <2> SUFFICES ASSUME PoolIInv, NEW s \in Slots, LeaseLives(s),
                      ~(at[slots[s].lease] \in {"cut", "missed"}),
                      ~(life[TurnProcess[slots[s].lease]] = "dead")
               PROVE  WorksOn(slots[s].lease, s)
    BY DEF BusySlotIsWorkedOn
  <2>1. slots[s].lease \in Turns /\ slotOf[slots[s].lease] = s /\ at[slots[s].lease] \in Working
    BY DEF PoolIInv, PoolTypeOK, LeasesAreTaken, LeaseLives
  <2>2. life[TurnProcess[slots[s].lease]] = "alive"
    BY <2>1, WorkspacePoolAssumption DEF PoolIInv, LifeTypeOK, TurnsAreStarted, Working
  <2> QED BY <2>1, <2>2 DEF WorksOn
<1> QED BY <1>1, <1>2, <1>3, PoolIsSafe, PTL DEF SlotsAreHandedOver
-----------------------------------------------------------------------------
(* Shared acquisitions *)

\* No request began after its review's revision, and nothing was stored before it existed.
RevisionsHaveBeen ==
  /\ \A q \in Requests : since[q] <= head[Review(q)]
  /\ \A r \in Reviews : completed[r] <= head[r]

\* What an acquisition works on and what it brings is no older than its beginning.
WorkIsRecent ==
  \A q \in Requests :
    /\ progress[q] \in {"source", "ingest"} => since[q] <= detail[q]
    /\ progress[q] = "idle" => result[q].revision = 0
    /\ result[q].revision # 0 => since[q] <= result[q].revision

\* A detail that was read is a revision the review had.
DetailHasBeen == \A q \in Requests : detail[q] <= head[Review(q)]

AcquisitionIInv ==
  AcquisitionTypeOK /\ RevisionsHaveBeen /\ WorkIsRecent /\ DetailHasBeen

LEMMA AcquisitionKeepsRecent ==
  ASSUME AcquisitionIInv, AcquisitionNext
  PROVE  AcquisitionIInv'
<1> USE SnapshotAcquisitionAssumption
<1>0. \A q \in Requests : Review(q) \in Reviews
  BY DEF Review, Reviews
<1>1. head \in [Reviews -> Nat] /\ completed \in [Reviews -> Nat]
      /\ since \in [Requests -> Nat] /\ detail \in [Requests -> Nat]
  BY DEF AcquisitionIInv, AcquisitionTypeOK, Revisions
<1> USE DEF AcquisitionIInv, AcquisitionTypeOK, RevisionsHaveBeen, WorkIsRecent, DetailHasBeen,
            Revisions, Acquiring, Proceed
<1>2. ASSUME NEW r \in Reviews, Push(r) PROVE AcquisitionIInv'
  BY <1>0, <1>1, <1>2 DEF Push
<1>3. ASSUME NEW q \in Requests, Acquire(q) PROVE AcquisitionIInv'
  <2>1. AcquisitionTypeOK'
    <3>1. /\ since' = [since EXCEPT ![q] = head[Review(q)]]
          /\ UNCHANGED <<head, completed, detail, result>>
      BY <1>3 DEF Acquire
    <3>2. CASE inFlight[Review(q)] = Nobody
      <4>1. /\ inFlight' = [inFlight EXCEPT ![Review(q)] = q] /\ follows' = follows
            /\ progress' = [progress EXCEPT ![q] = "detail"]
        BY <1>3, <3>2, Zenon DEF Acquire
      <4> QED BY <1>0, <3>1, <4>1
    <3>3. CASE inFlight[Review(q)] # Nobody
      <4>1. /\ follows' = [follows EXCEPT ![q] = inFlight[Review(q)]] /\ inFlight' = inFlight
            /\ progress' = [progress EXCEPT ![q] = "waiting"]
        BY <1>3, <3>3, Zenon DEF Acquire
      <4> QED BY <1>0, <3>1, <3>3, <4>1
    <3> QED BY <3>2, <3>3
  <2>2. /\ progress[q] = "idle" /\ since' = [since EXCEPT ![q] = head[Review(q)]]
        /\ progress' = [progress EXCEPT ![q] = progress'[q]] /\ progress'[q] \in {"detail", "waiting"}
        /\ UNCHANGED <<head, completed, detail, result>>
    BY <1>3 DEF Acquire
  <2>3. RevisionsHaveBeen' /\ DetailHasBeen'
    BY <1>0, <1>1, <2>2
  <2>4. WorkIsRecent'
    BY <1>0, <1>1, <2>2
  <2> QED BY <2>1, <2>3, <2>4
<1>4. ASSUME NEW q \in Requests, ReadDetail(q) PROVE AcquisitionIInv'
  <2>1. AcquisitionTypeOK'
    <3>1. detail' \in [Requests -> {0} \cup Revisions]
      BY <1>0, <1>4 DEF ReadDetail
    <3>2. progress' \in [Requests -> Acquiring \cup {"idle", "waiting", "answered", "interrupted"}]
      BY SMTT(20), <1>4 DEF ReadDetail
    <3>3. [done |-> FALSE, revision |-> head[Review(q)]]
            \in [done : BOOLEAN, revision : {0} \cup Revisions]
      BY <1>0
    <3>4. result' \in [Requests -> [done : BOOLEAN, revision : {0} \cup Revisions]]
      BY ZenonT(40), <1>4, <3>3 DEF ReadDetail
    <3> QED BY <1>4, <3>1, <3>2, <3>4 DEF ReadDetail
  <2>2. /\ progress[q] = "detail" /\ detail' = [detail EXCEPT ![q] = head[Review(q)]]
        /\ progress' = [progress EXCEPT ![q] = progress'[q]] /\ progress'[q] \in {"source", "complete"}
        /\ UNCHANGED <<head, completed, since>>
    BY <1>4 DEF ReadDetail
  <2>3. /\ \A p \in Requests : p # q => result'[p] = result[p]
        /\ result'[q].revision \in {result[q].revision, head[Review(q)]}
    BY <1>4 DEF ReadDetail
  <2>4. RevisionsHaveBeen' /\ DetailHasBeen'
    BY <1>0, <1>1, <2>2
  <2>5. WorkIsRecent'
    BY <1>0, <1>1, <2>2, <2>3
  <2> QED BY <2>1, <2>4, <2>5
<1>5. ASSUME NEW q \in Requests, ReadSource(q) PROVE AcquisitionIInv'
  BY <1>0, <1>1, <1>5 DEF ReadSource
<1>6. ASSUME NEW q \in Requests, Ingest(q) PROVE AcquisitionIInv'
  BY <1>0, <1>1, <1>6 DEF Ingest
<1>7. ASSUME NEW q \in Requests, AcquisitionFails(q) PROVE AcquisitionIInv'
  BY <1>0, <1>1, <1>7 DEF AcquisitionFails
<1>8. ASSUME NEW q \in Requests, Complete(q) PROVE AcquisitionIInv'
  BY <1>0, <1>1, <1>8 DEF Complete, Failure, Success
<1>9. ASSUME NEW q \in Requests, TakeAnswer(q) PROVE AcquisitionIInv'
  BY <1>0, <1>1, <1>9 DEF TakeAnswer
<1>10. ASSUME NEW q \in Requests, Interrupt(q) PROVE AcquisitionIInv'
  BY <1>0, <1>1, <1>10 DEF Interrupt
<1> QED BY <1>2, <1>3, <1>4, <1>5, <1>6, <1>7, <1>8, <1>9, <1>10
        DEF AcquisitionNext, AcquisitionStep

\* Whatever is pushed and whoever is interrupted, the conjuncts of the invariant hold.
THEOREM AcquisitionIsSafe == AcquisitionSpec => []AcquisitionIInv
<1> USE SnapshotAcquisitionAssumption
<1>1. AcquisitionInit => AcquisitionIInv
  BY DEF AcquisitionInit, AcquisitionIInv, AcquisitionTypeOK, RevisionsHaveBeen, WorkIsRecent,
         DetailHasBeen, Revisions, Acquiring, Pending, Review, Reviews
<1>2. AcquisitionIInv /\ [AcquisitionNext]_acquisitionVars => AcquisitionIInv'
  <2>1. CASE AcquisitionNext
    BY <2>1, AcquisitionKeepsRecent
  <2>2. CASE UNCHANGED acquisitionVars
    BY <2>2 DEF acquisitionVars, AcquisitionIInv, AcquisitionTypeOK, RevisionsHaveBeen,
                WorkIsRecent, DetailHasBeen
  <2> QED BY <2>1, <2>2
<1> QED BY <1>1, <1>2, PTL DEF AcquisitionSpec

\* For any requests, reviews and revisions, whatever is pushed and whoever is interrupted: an
\* answer is never of a revision older than the beginning of the acquisition that brought it.
THEOREM AnswersAreCurrent == AcquisitionSpec => []AnswerIsCurrent
<1>1. AcquisitionIInv => AnswerIsCurrent
  BY DEF AcquisitionIInv, AcquisitionTypeOK, WorkIsRecent, AnswerIsCurrent, Revisions
<1> QED BY <1>1, AcquisitionIsSafe, PTL
-----------------------------------------------------------------------------
(* The blocks of snapshots *)

PlacementHasRow == placed => row # "absent"

\* Only a process that has the storage open has ingestions and a collection under way.
ClosedIsQuiet ==
  storage # "open" =>
    sweeper = "idle" /\ \A w \in Writers : writer[w] \in {"idle", "ended"}

\* What an ingestion relies on: the file it moves is not torn, the one it commits is whole.
WritersLooked ==
  ~outrun => \A w \in Writers :
    /\ writer[w] \in {"promote", "rename", "move"} => staged # "torn"
    /\ writer[w] \in {"commit", "recommit"} => final = "whole"

FilesAreWhole ==
  ~outrun =>
    /\ Visible => final = "whole"
    /\ final # "torn"
    /\ storage = "stuck" => staged = "torn" \/ (placed /\ ~Visible)

BlocksIInv ==
  BlocksTypeOK /\ PlacementHasRow /\ ClosedIsQuiet /\ WritersLooked /\ FilesAreWhole

\* An ingestion that only goes on, to a step whose file it has looked at.
LEMMA LookingKeepsBlocks ==
  ASSUME BlocksIInv, storage = "open", UNCHANGED <<blockRows, blockFiles, sweeper, begins, storage>>,
         NEW w \in Writers,
         NEW s \in {"prepare", "stage", "open", "promote", "rename", "finalize", "commit",
                    "verify", "publish", "ended"} \cup Recovering,
         WriterGo(w, s),
         ~outrun /\ s \in {"promote", "rename", "move"} => staged # "torn",
         ~outrun /\ s \in {"commit", "recommit"} => final = "whole"
  PROVE  BlocksIInv'
<1>1. BlocksTypeOK'
  BY DEF BlocksIInv, BlocksTypeOK, WriterGo, blockRows, blockFiles
<1>2. WritersLooked'
  BY DEF BlocksIInv, BlocksTypeOK, WritersLooked, WriterGo, blockFiles
<1>3. PlacementHasRow' /\ ClosedIsQuiet' /\ FilesAreWhole'
  BY DEF BlocksIInv, PlacementHasRow, ClosedIsQuiet, FilesAreWhole, Visible, blockRows, blockFiles
<1> QED BY <1>1, <1>2, <1>3 DEF BlocksIInv

\* The steps of an ingestion that change no row and no file.
LEMMA LooksKeepBlocks ==
  ASSUME BlocksIInv, NEW w \in Writers,
         \/ LookForBlock(w) \/ StageBlock(w) \/ PromoteBlock(w) \/ VerifyFinal(w)
         \/ VerifyReadyBlock(w) \/ ListPending(w) \/ LookAtFinal(w) \/ LookAtStaged(w)
         \/ VerifyRecovered(w)
  PROVE  BlocksIInv'
<1> USE DEF Recovering, Fails, FailsOr, WriterAt
<1> USE LookingKeepsBlocks
<1>0. staged \in FileStates
  BY DEF BlocksIInv, BlocksTypeOK
<1>1. CASE LookForBlock(w)
  BY <1>1 DEF LookForBlock
<1>2. CASE StageBlock(w)
  BY <1>2 DEF StageBlock
<1>3. CASE PromoteBlock(w)
  <2>1. ~outrun => staged # "torn"
    BY <1>3 DEF PromoteBlock, BlocksIInv, WritersLooked
  <2> QED BY <1>3, <2>1 DEF PromoteBlock
<1>4. CASE VerifyFinal(w)
  BY <1>4 DEF VerifyFinal
<1>5. CASE VerifyReadyBlock(w)
  BY <1>5 DEF VerifyReadyBlock
<1>6. CASE ListPending(w)
  BY <1>6 DEF ListPending
<1>7. CASE LookAtFinal(w)
  BY <1>7 DEF LookAtFinal
<1>8. CASE LookAtStaged(w)
  <2>1. CASE staged = "none"
    BY <1>8, <2>1 DEF LookAtStaged
  <2>2. CASE staged = "whole"
    BY <1>8, <2>2 DEF LookAtStaged
  <2>3. CASE staged = "torn"
    BY <1>8, <2>3 DEF LookAtStaged
  <2> QED BY <1>0, <2>1, <2>2, <2>3 DEF FileStates
<1>9. CASE VerifyRecovered(w)
  BY <1>9 DEF VerifyRecovered
<1> QED BY <1>1, <1>2, <1>3, <1>4, <1>5, <1>6, <1>7, <1>8, <1>9

\* The steps that write and move files.
LEMMA FilesKeepBlocks ==
  ASSUME BlocksIInv, NEW w \in Writers,
         \/ OpenStaged(w) \/ WriteStaged(w) \/ RenameStaged(w) \/ MoveRecovered(w)
         \/ WriterFails(w)
  PROVE  BlocksIInv'
<1> USE DEF BlocksIInv, BlocksTypeOK, PlacementHasRow, ClosedIsQuiet, WritersLooked,
            FilesAreWhole, Visible, Recovering, FileStates, Fails, WriterAt, WriterGo, MoveStaged,
            blockRows
<1>1. CASE OpenStaged(w)
  <2>1. CASE staged = "none"
    <3>1. /\ writer' = [writer EXCEPT ![w] = "write"] /\ staged' = "torn"
          /\ UNCHANGED <<row, resource, placed, final, sweeper, begins, storage>>
      BY <1>1, <2>1 DEF OpenStaged
    <3>2. outrun' \in BOOLEAN
      BY <1>1, <2>1 DEF OpenStaged
    <3>3. ~outrun' =>
            ~outrun /\ \A v \in Writers : writer[v] \notin {"promote", "rename", "move"}
      BY <1>1, <2>1 DEF OpenStaged
    <3>4. storage = "open" /\ writer[w] = "open"
      BY <1>1 DEF OpenStaged
    <3> QED BY <3>1, <3>2, <3>3, <3>4
  <2>2. CASE staged # "none"
    BY <1>1, <2>2 DEF OpenStaged
  <2> QED BY <2>1, <2>2
<1>2. CASE WriteStaged(w)
  BY <1>2 DEF WriteStaged
<1>3. CASE RenameStaged(w)
  BY <1>3 DEF RenameStaged
<1>4. CASE MoveRecovered(w)
  BY <1>4 DEF MoveRecovered
<1>5. CASE WriterFails(w)
  BY <1>5 DEF WriterFails
<1> QED BY <1>1, <1>2, <1>3, <1>4, <1>5

\* The steps that change the rows of the block.
LEMMA RowsKeepBlocks ==
  ASSUME BlocksIInv, NEW w \in Writers,
         \/ PrepareBlock(w) \/ CommitBlock(w) \/ PublishSnapshot(w) \/ CommitRecovered(w)
         \/ DropPending(w)
  PROVE  BlocksIInv'
<1> USE DEF BlocksIInv, BlocksTypeOK, PlacementHasRow, ClosedIsQuiet, WritersLooked,
            FilesAreWhole, Visible, Recovering, Collected, Fails, FailsOr, WriterAt, WriterGo,
            Commits, blockFiles
<1>1. CASE PrepareBlock(w)
  BY <1>1 DEF PrepareBlock
<1>2. CASE CommitBlock(w)
  BY <1>2 DEF CommitBlock
<1>3. CASE PublishSnapshot(w)
  BY <1>3 DEF PublishSnapshot
<1>4. CASE CommitRecovered(w)
  BY <1>4 DEF CommitRecovered
<1>5. CASE DropPending(w)
  BY <1>5 DEF DropPending
<1> QED BY <1>1, <1>2, <1>3, <1>4, <1>5

LEMMA SweepKeepsBlocks ==
  ASSUME BlocksIInv, BeginSweep \/ ShelveFile \/ MarkQuarantined \/ CompleteSweep \/ SweepFails
  PROVE  BlocksIInv'
<1> USE SnapshotBlocksAssumption
<1> USE DEF BlocksIInv, BlocksTypeOK, PlacementHasRow, ClosedIsQuiet, WritersLooked,
            FilesAreWhole, Visible, Collected, FileStates, SweeperAt, blockRows, blockFiles
<1>1. CASE BeginSweep
  BY <1>1 DEF BeginSweep
<1>2. CASE ShelveFile
  BY <1>2 DEF ShelveFile
<1>3. CASE MarkQuarantined
  BY <1>3 DEF MarkQuarantined, SweepStep
<1>4. CASE CompleteSweep
  BY <1>4 DEF CompleteSweep, SweepStep
<1>5. CASE SweepFails
  BY <1>5 DEF SweepFails
<1> QED BY <1>1, <1>2, <1>3, <1>4, <1>5

\* The recovery at the start of Core, which no ingestion runs beside.
LEMMA StartKeepsBlocks ==
  ASSUME BlocksIInv, StorageCloses \/ StorageOpens
  PROVE  BlocksIInv'
<1> USE DEF BlocksIInv, BlocksTypeOK, PlacementHasRow, ClosedIsQuiet, WritersLooked,
            FilesAreWhole, Visible, FileStates, blockRows, blockFiles
<1>1. CASE StorageCloses
  BY <1>1 DEF StorageCloses
<1>2. CASE StorageOpens
  <2>1. storage = "closed" /\ UNCHANGED <<placed, outrun, writer, sweeper, begins>>
        /\ \A w \in Writers : writer[w] \in {"idle", "ended"}
    BY <1>2 DEF StorageOpens
  <2>2. CASE RecoveryStops
    <3>1. storage' = "stuck" /\ UNCHANGED <<row, resource, staged, final>>
      BY <1>2, <2>2 DEF StorageOpens, RecoveryStops
    <3>2. row = "pending" /\ ("torn" \in {final, staged} \/ placed)
      BY <2>2 DEF RecoveryStops
    <3> QED BY <2>1, <3>1, <3>2
  <2>3. CASE row = "pending" /\ ~RecoveryStops
    BY <1>2, <2>1, <2>3 DEF StorageOpens, RecoveryStops, RecoverWrites, Commits
  <2>4. CASE row # "pending"
    <3>1. RecoverCollections /\ staged' = staged
      BY <1>2, <2>4 DEF StorageOpens, RecoveryStops
    <3>2. CASE resource \notin Collected
      BY <2>1, <3>1, <3>2 DEF RecoverCollections
    <3>3. CASE resource \in Collected /\ placed
      BY <2>1, <3>1, <3>3 DEF RecoverCollections, Collected
    <3>4. CASE resource \in Collected /\ ~placed
      BY <2>1, <3>1, <3>4 DEF RecoverCollections, Collected
    <3> QED BY <3>2, <3>3, <3>4 DEF BlocksIInv, BlocksTypeOK
  <2> QED BY <2>2, <2>3, <2>4
<1> QED BY <1>1, <1>2

\* Whoever writes, collects, closes and opens the storage, the conjuncts of the invariant hold.
THEOREM BlocksAreSafe == BlocksSpec => []BlocksIInv
<1>1. BlocksInit => BlocksIInv
  <2> SUFFICES ASSUME BlocksInit PROVE BlocksIInv
    OBVIOUS
  <2>1. BlocksTypeOK
    <3>1. begins \in 0..MaxBegins
      BY SnapshotBlocksAssumption DEF BlocksInit
    <3>2. writer \in [Writers -> {"idle", "prepare", "stage", "open", "write", "promote", "rename",
                                 "finalize", "commit", "verify", "publish", "ended"}
                                \cup Recovering]
      BY DEF BlocksInit
    <3>3. outrun \in BOOLEAN /\ placed \in BOOLEAN
      BY Zenon DEF BlocksInit
    <3> QED BY <3>1, <3>2, <3>3 DEF BlocksInit, BlocksTypeOK, FileStates, Collected
  <2>2. PlacementHasRow /\ ClosedIsQuiet /\ WritersLooked /\ FilesAreWhole
    BY DEF BlocksInit, PlacementHasRow, ClosedIsQuiet, WritersLooked, FilesAreWhole, Visible
  <2> QED BY <2>1, <2>2 DEF BlocksIInv
<1>2. BlocksIInv /\ [BlocksNext]_blockVars => BlocksIInv'
  <2> SUFFICES ASSUME BlocksIInv, [BlocksNext]_blockVars PROVE BlocksIInv'
    OBVIOUS
  <2>1. ASSUME NEW w \in Writers, WriterStep(w) PROVE BlocksIInv'
    BY <2>1, LooksKeepBlocks, FilesKeepBlocks, RowsKeepBlocks DEF WriterStep
  <2>2. CASE BeginSweep \/ ShelveFile \/ MarkQuarantined \/ CompleteSweep \/ SweepFails
    BY <2>2, SweepKeepsBlocks
  <2>3. CASE StorageCloses \/ StorageOpens
    BY <2>3, StartKeepsBlocks
  <2>4. CASE UNCHANGED blockVars
    BY <2>4 DEF blockVars, blockRows, blockFiles, BlocksIInv, BlocksTypeOK, PlacementHasRow,
                ClosedIsQuiet, WritersLooked, FilesAreWhole, Visible
  <2> QED BY <2>1, <2>2, <2>3, <2>4 DEF BlocksNext
<1> QED BY <1>1, <1>2, PTL DEF BlocksSpec

\* Whatever is interleaved, cut or restarted, for any number of ingestions and collections: a
\* placement keeps its row; and unless a file went from under an ingestion that had looked at
\* it, a visible block is whole, and storage fails to open only over a torn temporary file or
\* a placed block that is not visible.
THEOREM BlocksAreAlwaysStored == BlocksSpec => []BlocksAreStored
<1>1. BlocksIInv => BlocksAreStored
  BY DEF BlocksIInv, PlacementHasRow, FilesAreWhole, BlocksAreStored
<1> QED BY <1>1, BlocksAreSafe, PTL
-----------------------------------------------------------------------------
(* Review runs *)

\* The thread begins with the user, each run is in it at most once and from its start on, and
\* there is a latest message of the user.
ThreadIsInOrder ==
  /\ Len(transcript) >= 1 /\ transcript[1] = User
  /\ \A i \in DOMAIN transcript : transcript[i] # User => turn[transcript[i]] # "none"
  /\ \A i, j \in DOMAIN transcript :
       transcript[i] # User /\ transcript[i] = transcript[j] => i = j
  /\ \E i \in Messages : \A j \in Messages : j <= i

\* Who is about to tell of an end tells of one that was recorded.
EndsAreReal ==
  \A r \in RunIds :
    /\ agent[r] = "telling" => turn[r] \in Ended
    /\ stop[r] = "won" => turn[r] \in Ended
    /\ told[r] \in {"none", turn[r]}

RestartsAreLeft == ~serving => lives < MaxLives

RunsIInv ==
  /\ RunsTypeOK /\ ThreadIsInOrder /\ EndsAreReal /\ RestartsAreLeft
  /\ RunningIsDriven /\ AnsweredOnce

LEMMA ThreadShape ==
  ASSUME RunsTypeOK
  PROVE  /\ Len(transcript) \in Nat /\ DOMAIN transcript = 1..Len(transcript)
         /\ \A i \in DOMAIN transcript : transcript[i] \in {User} \cup RunIds
         /\ \A r \in RunIds : r # User
BY ReviewRunsAssumption DEF RunsTypeOK, RunIds, User

LEMMA AppendedThread ==
  ASSUME RunsTypeOK, NEW e \in {User} \cup RunIds, transcript' = Append(transcript, e)
  PROVE  /\ transcript' \in Seq({User} \cup RunIds)
         /\ Len(transcript') = Len(transcript) + 1
         /\ DOMAIN transcript' = 1..Len(transcript) + 1
         /\ transcript'[Len(transcript) + 1] = e
         /\ \A i \in DOMAIN transcript : transcript'[i] = transcript[i]
BY DEF RunsTypeOK

\* A run that is the last entry, however it ended, is a reply to the latest message.
LEMMA LastIsReply ==
  ASSUME RunsTypeOK, ThreadIsInOrder, LastEntry # User
  PROVE  LastEntry \in Replies
<1>1. PICK i \in Messages : \A j \in Messages : j <= i
  BY DEF ThreadIsInOrder
<1>2. LatestMessage \in Messages
  BY <1>1 DEF LatestMessage
<1>3. LatestMessage \in 1..Len(transcript) /\ transcript[LatestMessage] = User
  BY <1>2, ThreadShape DEF Messages
<1>4. LatestMessage + 1 <= Len(transcript)
  BY <1>3, ThreadShape DEF LastEntry
<1>5. Len(transcript) \in LatestMessage + 1..Len(transcript)
  BY <1>3, <1>4, ThreadShape
<1> QED BY <1>5 DEF Replies, LastEntry

LEMMA MessageKeepsRuns ==
  ASSUME RunsIInv, AddMessage
  PROVE  RunsIInv'
<1>1. /\ transcript' = Append(transcript, User) /\ LastEntry # User /\ turn[LastEntry] # "running"
      /\ UNCHANGED <<turn, agent, stop, asked, told, stranded, serving, lives>>
  BY DEF AddMessage
<1>2. /\ transcript' \in Seq({User} \cup RunIds)
      /\ Len(transcript') = Len(transcript) + 1
      /\ DOMAIN transcript' = 1..Len(transcript) + 1
      /\ transcript'[Len(transcript) + 1] = User
      /\ \A i \in DOMAIN transcript : transcript'[i] = transcript[i]
  BY <1>1, AppendedThread DEF RunsIInv
<1>3. /\ Len(transcript) \in Nat /\ DOMAIN transcript = 1..Len(transcript)
      /\ \A i \in DOMAIN transcript : transcript[i] \in {User} \cup RunIds
  BY ThreadShape DEF RunsIInv
<1>4. RunsTypeOK' /\ EndsAreReal' /\ RestartsAreLeft'
  BY <1>1, <1>2 DEF RunsIInv, RunsTypeOK, EndsAreReal, RestartsAreLeft
<1>5. ThreadIsInOrder'
  <2>1. Len(transcript) + 1 \in Messages' /\ \A j \in Messages' : j <= Len(transcript) + 1
    BY <1>2, <1>3 DEF Messages
  <2>2. /\ Len(transcript') >= 1 /\ transcript'[1] = User
        /\ \A i \in DOMAIN transcript' : transcript'[i] # User => turn'[transcript'[i]] # "none"
        /\ \A i, j \in DOMAIN transcript' :
             transcript'[i] # User /\ transcript'[i] = transcript'[j] => i = j
    BY <1>1, <1>2, <1>3 DEF RunsIInv, ThreadIsInOrder
  <2> QED BY <2>1, <2>2 DEF ThreadIsInOrder
<1>6. RunningIsDriven'
  BY <1>1 DEF RunsIInv, RunningIsDriven
<1>7. AnsweredOnce'
  BY <1>1, <1>2, <1>3 DEF RunsIInv, AnsweredOnce
<1> QED BY <1>4, <1>5, <1>6, <1>7 DEF RunsIInv

LEMMA AcceptanceKeepsRuns ==
  ASSUME RunsIInv, NEW r \in RunIds, AcceptTurn(r)
  PROVE  RunsIInv'
<1>1. /\ transcript' = Append(transcript, r) /\ turn[r] = "none"
      /\ turn' = [turn EXCEPT ![r] = "running"] /\ agent' = [agent EXCEPT ![r] = "accepted"]
      /\ Answerable /\ NoActiveTurn
      /\ UNCHANGED <<stop, asked, told, stranded, serving, lives>>
  BY DEF AcceptTurn, AgentGo
<1>2. /\ transcript' \in Seq({User} \cup RunIds)
      /\ Len(transcript') = Len(transcript) + 1
      /\ DOMAIN transcript' = 1..Len(transcript) + 1
      /\ transcript'[Len(transcript) + 1] = r
      /\ \A i \in DOMAIN transcript : transcript'[i] = transcript[i]
  BY <1>1, AppendedThread DEF RunsIInv
<1>3. /\ Len(transcript) \in Nat /\ DOMAIN transcript = 1..Len(transcript)
      /\ \A i \in DOMAIN transcript : transcript[i] \in {User} \cup RunIds
      /\ r # User
  BY ThreadShape DEF RunsIInv
<1>4. /\ turn'[r] = "running" /\ \A s \in RunIds \ {r} : turn'[s] = turn[s]
      /\ agent'[r] = "accepted" /\ \A s \in RunIds \ {r} : agent'[s] = agent[s]
  BY <1>1 DEF RunsIInv, RunsTypeOK
<1>5. RunsTypeOK' /\ RestartsAreLeft'
  BY <1>1, <1>2 DEF RunsIInv, RunsTypeOK, RestartsAreLeft, Registered
<1>6. EndsAreReal'
  BY <1>1, <1>4 DEF RunsIInv, RunsTypeOK, EndsAreReal, Ended
<1>7. \A i \in DOMAIN transcript : transcript[i] # r
  BY <1>1, <1>3 DEF RunsIInv, ThreadIsInOrder
<1>8. ThreadIsInOrder'
  <2>1. Messages' = Messages
    BY <1>2, <1>3 DEF Messages
  <2>2. \E i \in Messages' : \A j \in Messages' : j <= i
    BY <2>1 DEF RunsIInv, ThreadIsInOrder
  <2>3. Len(transcript') >= 1 /\ transcript'[1] = User
    BY <1>2, <1>3 DEF RunsIInv, ThreadIsInOrder
  <2>4. \A i \in DOMAIN transcript' : transcript'[i] # User => turn'[transcript'[i]] # "none"
    BY <1>2, <1>3, <1>4 DEF RunsIInv, ThreadIsInOrder
  <2>5. \A i, j \in DOMAIN transcript' :
          transcript'[i] # User /\ transcript'[i] = transcript'[j] => i = j
    BY <1>2, <1>3, <1>7 DEF RunsIInv, ThreadIsInOrder
  <2> QED BY <2>2, <2>3, <2>4, <2>5 DEF ThreadIsInOrder
<1>9. RunningIsDriven'
  <2>1. \A s \in RunIds : turn'[s] = "running" => s = r
    BY <1>1, <1>4 DEF NoActiveTurn
  <2>2. LastEntry' = r
    BY <1>2 DEF LastEntry
  <2> QED BY <1>4, <2>1, <2>2 DEF RunningIsDriven
<1>10. AnsweredOnce'
  <2>1. SUFFICES ASSUME NEW i \in DOMAIN transcript', transcript'[i] # User,
                        turn'[transcript'[i]] = "completed", i # Len(transcript')
                 PROVE  transcript'[i + 1] = User
    BY DEF AnsweredOnce
  <2>2. /\ i \in DOMAIN transcript /\ transcript'[i] = transcript[i] /\ transcript[i] # r
        /\ turn[transcript[i]] = "completed"
    BY <1>2, <1>3, <1>4, <1>7, <2>1
  <2>3. i # Len(transcript)
    <3>1. i = Len(transcript) => LastEntry \in Replies
      BY <2>1, <2>2, LastIsReply DEF RunsIInv, LastEntry
    <3> QED BY <1>1, <2>2, <3>1 DEF Answerable, LastEntry
  <2>4. transcript[i + 1] = User /\ i + 1 \in DOMAIN transcript
    BY <1>3, <2>1, <2>2, <2>3 DEF RunsIInv, AnsweredOnce
  <2> QED BY <1>2, <2>4
<1> QED BY <1>5, <1>6, <1>8, <1>9, <1>10 DEF RunsIInv
\* Steps that write nothing into the thread and only end runs, where a run that goes on keeps
\* its fiber or is known to be stranded.
LEMMA EndingKeepsRuns ==
  ASSUME RunsIInv, transcript' = transcript, RunsTypeOK', RestartsAreLeft',
         \A r \in RunIds : turn'[r] = turn[r] \/ (turn[r] = "running" /\ turn'[r] \in Ended),
         \A r \in RunIds : agent'[r] = "telling" => turn[r] \in Ended,
         \A r \in RunIds : stop'[r] = "won" => turn'[r] \in Ended,
         \A r \in RunIds : told'[r] = told[r] \/ (told'[r] = turn[r] /\ turn[r] \in Ended),
         \A r \in RunIds : turn'[r] = "running" /\ serving' =>
            r \in stranded' \/ agent'[r] \in {"accepted", "working", "answered", "failing"}
  PROVE  RunsIInv'
<1>1. \A r \in RunIds : turn[r] \in Ended => turn'[r] = turn[r]
  BY DEF Ended
<1>2. \A r \in RunIds : turn[r] # "none" => turn'[r] # "none"
  BY DEF Ended
<1>3. /\ Len(transcript) \in Nat /\ DOMAIN transcript = 1..Len(transcript)
      /\ \A i \in DOMAIN transcript : transcript[i] \in {User} \cup RunIds
  BY ThreadShape DEF RunsIInv
<1>4. ThreadIsInOrder'
  <2>1. Messages' = Messages
    BY DEF Messages
  <2> QED BY <1>2, <1>3, <2>1 DEF RunsIInv, ThreadIsInOrder
<1>5. EndsAreReal'
  <2>1. \A r \in RunIds : told[r] \in Ended \cup {"none"}
    BY DEF RunsIInv, RunsTypeOK
  <2> QED BY <1>1, <2>1 DEF RunsIInv, EndsAreReal
<1>6. RunningIsDriven'
  <2>1. \A r \in RunIds : turn'[r] = "running" => turn[r] = "running"
    BY DEF Ended
  <2>2. LastEntry' = LastEntry
    BY DEF LastEntry
  <2> QED BY <2>1, <2>2 DEF RunsIInv, RunningIsDriven
<1>7. AnsweredOnce'
  <2>1. SUFFICES ASSUME NEW i \in DOMAIN transcript, transcript[i] # User,
                        turn'[transcript[i]] = "completed"
                 PROVE  i = Len(transcript) \/ transcript[i + 1] = User
    BY DEF AnsweredOnce
  <2>2. transcript[i] \in RunIds
    BY <1>3, <2>1
  <2>3. CASE turn[transcript[i]] = "completed"
    BY <2>1, <2>3 DEF RunsIInv, AnsweredOnce
  <2>4. CASE turn[transcript[i]] = "running"
    <3>1. LastEntry = transcript[i]
      BY <2>2, <2>4 DEF RunsIInv, RunningIsDriven
    <3>2. Len(transcript) \in DOMAIN transcript
      BY <1>3 DEF RunsIInv, ThreadIsInOrder
    <3> QED BY <2>1, <3>1, <3>2 DEF RunsIInv, ThreadIsInOrder, LastEntry
  <2> QED BY <2>1, <2>2, <2>3, <2>4
<1> QED BY <1>4, <1>5, <1>6, <1>7 DEF RunsIInv

LEMMA FiberKeepsRuns ==
  ASSUME RunsIInv, NEW r \in RunIds, AgentStep(r)
  PROVE  RunsIInv'
<1> USE DEF AgentAt, AgentGo
<1> DEFINE Driving == {"accepted", "working", "answered", "failing"}
<1>0. /\ RunsTypeOK /\ EndsAreReal /\ RestartsAreLeft
      /\ \A s \in RunIds : turn[s] = "running" /\ serving => s \in stranded \/ agent[s] \in Driving
  BY DEF RunsIInv, RunningIsDriven
<1>1. ASSUME NEW s \in Registered \cup {"gone"}, agent' = [agent EXCEPT ![r] = s],
             s = "telling" => turn[r] \in Ended,
             s \in Driving \/ agent[r] \notin Driving,
             UNCHANGED <<transcript, turn, stop, told, asked, stranded, serving, lives>>
      PROVE  RunsIInv'
  <2>1. RunsTypeOK' /\ RestartsAreLeft'
    BY <1>0, <1>1 DEF RunsTypeOK, RestartsAreLeft
  <2>2. agent'[r] = s /\ \A p \in RunIds \ {r} : agent'[p] = agent[p]
    BY <1>0, <1>1 DEF RunsTypeOK
  <2> QED BY <1>0, <1>1, <2>1, <2>2, EndingKeepsRuns DEF EndsAreReal
<1>2. ASSUME LeavesRow(r) PROVE RunsIInv'
  <2>1. /\ agent' = [agent EXCEPT ![r] = "hinting"]
        /\ stranded' = IF turn[r] = "running" THEN stranded \cup {r} ELSE stranded
        /\ UNCHANGED <<transcript, turn, stop, told, asked, serving, lives>>
    BY <1>2 DEF LeavesRow
  <2>2. RunsTypeOK' /\ RestartsAreLeft'
    BY <1>0, <2>1 DEF RunsTypeOK, RestartsAreLeft, Registered
  <2>3. agent'[r] = "hinting" /\ \A p \in RunIds \ {r} : agent'[p] = agent[p]
    BY <1>0, <2>1 DEF RunsTypeOK
  <2>4. turn[r] = "running" => r \in stranded'
    BY <2>1
  <2>5. stranded \subseteq stranded'
    BY <2>1
  <2> QED BY <1>0, <2>1, <2>2, <2>3, <2>4, <2>5, EndingKeepsRuns DEF EndsAreReal
<1>3. ASSUME NEW s \in {"completed", "failed"}, SettleTurn(r, s) PROVE RunsIInv'
  <2>1. /\ turn' = [turn EXCEPT ![r] = IF @ = "running" THEN s ELSE @]
        /\ agent' = [agent EXCEPT ![r] = "hinting"]
        /\ UNCHANGED <<transcript, stop, told, asked, stranded, serving, lives>>
    BY <1>3 DEF SettleTurn
  <2>2. RunsTypeOK' /\ RestartsAreLeft'
    BY <1>0, <2>1 DEF RunsTypeOK, RestartsAreLeft, Registered, Ended
  <2>3. /\ agent'[r] = "hinting" /\ \A p \in RunIds \ {r} : agent'[p] = agent[p]
        /\ turn'[r] = (IF turn[r] = "running" THEN s ELSE turn[r])
        /\ \A p \in RunIds \ {r} : turn'[p] = turn[p]
    BY <1>0, <2>1 DEF RunsTypeOK
  <2> QED BY <1>0, <2>1, <2>2, <2>3, EndingKeepsRuns DEF EndsAreReal, Ended
<1>4. CASE TellEnd(r)
  <2>1. /\ agent[r] = "telling" /\ agent' = [agent EXCEPT ![r] = "leaving"]
        /\ told' = [told EXCEPT ![r] = turn[r]]
        /\ UNCHANGED <<transcript, turn, stop, asked, stranded, serving, lives>>
    BY <1>4 DEF TellEnd
  <2>2. turn[r] \in Ended
    BY <1>0, <2>1 DEF EndsAreReal
  <2>3. RunsTypeOK' /\ RestartsAreLeft'
    BY <1>0, <2>1, <2>2 DEF RunsTypeOK, RestartsAreLeft, Registered
  <2>4. /\ agent'[r] = "leaving" /\ \A p \in RunIds \ {r} : agent'[p] = agent[p]
        /\ told'[r] = turn[r] /\ \A p \in RunIds \ {r} : told'[p] = told[p]
    BY <1>0, <2>1 DEF RunsTypeOK
  <2> QED BY <1>0, <2>1, <2>2, <2>3, <2>4, EndingKeepsRuns DEF EndsAreReal
<1>5. CASE ForkRun(r) \/ AgentReplies(r) \/ AgentFails(r)
  BY <1>1, <1>5 DEF ForkRun, AgentReplies, AgentFails, Registered
<1>6. CASE ReadForHint(r) \/ LeaveMap(r)
  BY <1>1, <1>6 DEF ReadForHint, LeaveMap, Registered
<1>7. CASE PreflightFails(r) \/ EndNotStored(r) \/ TakeInterrupt(r)
  BY <1>2, <1>7 DEF PreflightFails, EndNotStored, TakeInterrupt
<1>8. CASE CompleteTurn(r) \/ FailTurn(r)
  BY <1>3, <1>8 DEF CompleteTurn, FailTurn
<1> QED BY <1>4, <1>5, <1>6, <1>7, <1>8 DEF AgentStep

LEMMA StopKeepsRuns ==
  ASSUME RunsIInv, NEW r \in RunIds, BeginStop(r) \/ StopStep(r)
  PROVE  RunsIInv'
<1> USE DEF StopAt, StopGo
<1>0. /\ RunsTypeOK /\ EndsAreReal /\ RestartsAreLeft
      /\ \A s \in RunIds : turn[s] = "running" /\ serving =>
           s \in stranded \/ agent[s] \in {"accepted", "working", "answered", "failing"}
  BY DEF RunsIInv, RunningIsDriven
<1>1. CASE BeginStop(r) \/ StopReturns(r) \/ StopCut(r)
  <2>1. PICK s \in {"asking", "done", "cut"} : stop' = [stop EXCEPT ![r] = s]
    BY <1>1 DEF BeginStop, StopReturns, StopCut
  <2>2. UNCHANGED <<transcript, turn, agent, asked, told, stranded, serving, lives>>
    BY <1>1 DEF BeginStop, StopReturns, StopCut
  <2>3. RunsTypeOK' /\ RestartsAreLeft'
    BY <1>0, <2>1, <2>2 DEF RunsTypeOK, RestartsAreLeft
  <2>4. stop'[r] = s /\ \A p \in RunIds \ {r} : stop'[p] = stop[p]
    BY <1>0, <2>1 DEF RunsTypeOK
  <2> QED BY <1>0, <2>2, <2>3, <2>4, EndingKeepsRuns DEF EndsAreReal
<1>2. CASE RequestStop(r)
  <2>1. /\ stop' = [stop EXCEPT ![r] = IF turn[r] = "running" THEN "won" ELSE "done"]
        /\ turn' = [turn EXCEPT ![r] = IF @ = "running" THEN "cancelled" ELSE @]
        /\ UNCHANGED <<transcript, agent, asked, told, stranded, serving, lives>>
    BY <1>2 DEF RequestStop
  <2>2. RunsTypeOK' /\ RestartsAreLeft'
    BY <1>0, <2>1 DEF RunsTypeOK, RestartsAreLeft, Ended
  <2>3. /\ stop'[r] = (IF turn[r] = "running" THEN "won" ELSE "done")
        /\ \A p \in RunIds \ {r} : stop'[p] = stop[p]
        /\ turn'[r] = (IF turn[r] = "running" THEN "cancelled" ELSE turn[r])
        /\ \A p \in RunIds \ {r} : turn'[p] = turn[p]
    BY <1>0, <2>1 DEF RunsTypeOK
  <2> QED BY <1>0, <2>1, <2>2, <2>3, EndingKeepsRuns DEF EndsAreReal, Ended
<1>3. CASE FindFiber(r)
  <2>1. /\ stop[r] = "won" /\ turn[r] \in Ended
        /\ UNCHANGED <<transcript, turn, agent, stranded, serving, lives>>
    BY <1>0, <1>3 DEF FindFiber, EndsAreReal
  <2>2. PICK s \in {"waiting", "done"} : stop' = [stop EXCEPT ![r] = s]
    BY <1>3 DEF FindFiber
  <2>3. told' = told \/ told' = [told EXCEPT ![r] = turn[r]]
    BY <1>3 DEF FindFiber
  <2>4. asked' = asked \/ asked' = asked \cup {r}
    BY <1>3 DEF FindFiber
  <2>5. RunsTypeOK' /\ RestartsAreLeft'
    BY <1>0, <2>1, <2>2, <2>3, <2>4 DEF RunsTypeOK, RestartsAreLeft
  <2>6. /\ stop'[r] = s /\ \A p \in RunIds \ {r} : stop'[p] = stop[p]
        /\ told'[r] \in {told[r], turn[r]} /\ \A p \in RunIds \ {r} : told'[p] = told[p]
    BY <1>0, <2>2, <2>3 DEF RunsTypeOK
  <2> QED BY <1>0, <2>1, <2>5, <2>6, EndingKeepsRuns DEF EndsAreReal
<1> QED BY <1>1, <1>2, <1>3 DEF StopStep

LEMMA RestartKeepsRuns ==
  ASSUME RunsIInv, CoreGoes \/ RecoverTurns
  PROVE  RunsIInv'
<1> USE ReviewRunsAssumption
<1>0. RunsTypeOK /\ EndsAreReal /\ RestartsAreLeft
  BY DEF RunsIInv
<1>1. CASE CoreGoes
  <2>1. /\ \A r \in RunIds : agent'[r] \in {"none", "gone"}
        /\ \A r \in RunIds : stop'[r] # "won"
        /\ serving' = FALSE /\ lives < MaxLives
        /\ UNCHANGED <<transcript, turn, asked, told, stranded, lives>>
    BY <1>1 DEF CoreGoes
  <2>2. RunsTypeOK' /\ RestartsAreLeft'
    BY <1>0, <1>1 DEF CoreGoes, AgentAt, RunsTypeOK, RestartsAreLeft
  <2> QED BY <1>0, <2>1, <2>2, EndingKeepsRuns
<1>2. CASE RecoverTurns
  <2>1. /\ ~serving /\ serving' = TRUE /\ lives' = lives + 1
        /\ turn' = [r \in RunIds |-> IF turn[r] = "running" THEN "interrupted" ELSE turn[r]]
        /\ UNCHANGED <<transcript, agent, stop, asked, told, stranded>>
    BY <1>2 DEF RecoverTurns
  <2>2. RunsTypeOK' /\ RestartsAreLeft'
    BY <1>0, <2>1 DEF RunsTypeOK, RestartsAreLeft, Ended
  <2>3. \A r \in RunIds : turn'[r] = (IF turn[r] = "running" THEN "interrupted" ELSE turn[r])
    BY <2>1
  <2> QED BY <1>0, <2>1, <2>2, <2>3, EndingKeepsRuns DEF EndsAreReal, Ended
<1> QED BY <1>1, <1>2

\* Whoever answers, cancels, and whenever Core dies, the conjuncts of the invariant hold.
THEOREM RunsAreSafe == RunsSpec => []RunsIInv
<1>1. RunsInit => RunsIInv
  <2> SUFFICES ASSUME RunsInit PROVE RunsIInv
    OBVIOUS
  <2> USE ReviewRunsAssumption
  <2>1. /\ transcript \in Seq({User} \cup RunIds) /\ Len(transcript) = 1
        /\ DOMAIN transcript = 1..1 /\ transcript[1] = User
    BY DEF RunsInit
  <2>2. RunsTypeOK
    BY <2>1 DEF RunsInit, RunsTypeOK
  <2>3. ThreadIsInOrder
    BY <2>1 DEF ThreadIsInOrder, Messages
  <2>4. EndsAreReal /\ RunningIsDriven
    BY DEF RunsInit, EndsAreReal, RunningIsDriven
  <2>5. AnsweredOnce /\ RestartsAreLeft
    BY <2>1 DEF RunsInit, AnsweredOnce, RestartsAreLeft
  <2> QED BY <2>2, <2>3, <2>4, <2>5 DEF RunsIInv
<1>2. RunsIInv /\ [RunsNext]_runVars => RunsIInv'
  <2> SUFFICES ASSUME RunsIInv, [RunsNext]_runVars PROVE RunsIInv'
    OBVIOUS
  <2>1. CASE AddMessage
    BY <2>1, MessageKeepsRuns
  <2>2. CASE CoreGoes \/ RecoverTurns
    BY <2>2, RestartKeepsRuns
  <2>3. ASSUME NEW r \in RunIds, AcceptTurn(r) \/ AgentStep(r) \/ BeginStop(r) \/ StopStep(r)
        PROVE  RunsIInv'
    BY <2>3, AcceptanceKeepsRuns, FiberKeepsRuns, StopKeepsRuns
  <2>4. CASE UNCHANGED runVars
    BY <2>4 DEF runVars, RunsIInv, RunsTypeOK, ThreadIsInOrder, Messages, EndsAreReal,
                RestartsAreLeft, RunningIsDriven, LastEntry, AnsweredOnce
  <2> QED BY <2>1, <2>2, <2>3, <2>4 DEF RunsNext
<1> QED BY <1>1, <1>2, PTL DEF RunsSpec

\* For any number of runs, messages, cancellations and deaths of Core: a run that is running
\* is the thread's last entry and has its fiber, or a worker that could not record its end; a
\* message has one complete answer at most; and no hint tells of an end that is not the row's.
THEOREM TurnsAreAlwaysKept == RunsSpec => []TurnsAreKept
<1>1. RunsIInv => TurnsAreKept
  BY DEF RunsIInv, EndsAreReal, TurnsAreKept
<1> QED BY <1>1, RunsAreSafe, PTL

=============================================================================
