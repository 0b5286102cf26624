--------------------- MODULE WalkthroughOperationsProofs ---------------------
(***************************************************************************)
(* Theorems about WalkthroughOperations for every number of operations,    *)
(* generations, keys, crashes and clock readings.                          *)
(***************************************************************************)
EXTENDS WalkthroughOperations, TLAPS

USE DEF Ops, NoOp, Active, Terminal, RowStates

-----------------------------------------------------------------------------
(* Rows *)

\* A guarded transition changes the state and the version of a row, nothing else.
LEMMA SettledRow ==
  ASSUME NEW r \in Row, NEW s \in RowStates
  PROVE  /\ Settled(r, s) \in Row
         /\ Settled(r, s).state = s
         /\ Settled(r, s).version = r.version + 1
         /\ Settled(r, s).identity = r.identity
         /\ Settled(r, s).evidence = r.evidence
         /\ Settled(r, s).acceptedAt = r.acceptedAt
         /\ Settled(r, s).regenerationOf = r.regenerationOf
         /\ Settled(r, s).supersededBy = r.supersededBy
<1>1. r.version + 1 \in Nat
  BY DEF Row
<1>2. Settled(r, s) \in Row
  BY <1>1, Zenon DEF Settled, Row
<1> QED BY <1>2 DEF Settled, Row

\* Superseding a row also links it to its replacement.
LEMMA SupersededRowType ==
  ASSUME NEW r \in Row, NEW o \in Ops
  PROVE  /\ SupersededRow(r, o) \in Row
         /\ SupersededRow(r, o).state = "superseded"
         /\ SupersededRow(r, o).version = r.version + 1
         /\ SupersededRow(r, o).identity = r.identity
         /\ SupersededRow(r, o).evidence = r.evidence
         /\ SupersededRow(r, o).acceptedAt = r.acceptedAt
         /\ SupersededRow(r, o).regenerationOf = r.regenerationOf
         /\ SupersededRow(r, o).supersededBy = o
<1>1. r.version + 1 \in Nat /\ "superseded" \in RowStates /\ o \in Ops \cup {NoOp}
  BY DEF Row
<1>2. SupersededRow(r, o) \in Row
  BY <1>1, Zenon DEF SupersededRow, Row
<1> QED BY <1>2 DEF SupersededRow, Row

\* An inserted row is accepted at version one.
LEMMA AcceptedRowType ==
  ASSUME NEW i \in Identities, NEW e \in Evidence, NEW t \in 1 .. MaxClock,
         NEW prior \in Ops \cup {NoOp}
  PROVE  /\ AcceptedRow(i, e, t, prior) \in Row
         /\ AcceptedRow(i, e, t, prior).state = "accepted"
         /\ AcceptedRow(i, e, t, prior).version = 1
         /\ AcceptedRow(i, e, t, prior).identity = i
         /\ AcceptedRow(i, e, t, prior).evidence = e
         /\ AcceptedRow(i, e, t, prior).acceptedAt = t
         /\ AcceptedRow(i, e, t, prior).regenerationOf = prior
         /\ AcceptedRow(i, e, t, prior).supersededBy = NoOp
BY BoundsAssumption DEF AcceptedRow, Row

\* A row that does not exist yet.
LEMMA AbsentRowType ==
  ASSUME NEW i \in Identities
  PROVE  /\ AbsentRow(i) \in Row
         /\ AbsentRow(i).state = "absent"
         /\ AbsentRow(i).evidence = NoEvidence
         /\ AbsentRow(i).acceptedAt = 0
         /\ AbsentRow(i).regenerationOf = NoOp
         /\ AbsentRow(i).supersededBy = NoOp
BY BoundsAssumption DEF AbsentRow, Row

\* A row an older version left, in any state but a superseded one.
LEMMA OlderRowType ==
  ASSUME NEW i \in Identities, NEW s \in {"accepted", "running", "completed", "failed"}
  PROVE  /\ OlderRow(i, s) \in Row
         /\ OlderRow(i, s).state = s
         /\ OlderRow(i, s).version = IF s = "accepted" THEN 1 ELSE IF s = "running" THEN 2 ELSE 3
         /\ OlderRow(i, s).evidence = NoEvidence
         /\ OlderRow(i, s).regenerationOf = NoOp
         /\ OlderRow(i, s).supersededBy = NoOp
<1> DEFINE base == AcceptedRow(i, NoEvidence, 1, NoOp)
           v == IF s = "accepted" THEN 1 ELSE IF s = "running" THEN 2 ELSE 3
<1>1. base \in Row
  BY BoundsAssumption DEF AcceptedRow, Row
<1>2. s \in RowStates /\ v \in Nat
  OBVIOUS
<1>3. OlderRow(i, s) = [base EXCEPT !.state = s, !.version = v]
  BY DEF OlderRow
<1>6. base.evidence = NoEvidence /\ base.regenerationOf = NoOp /\ base.supersededBy = NoOp
  BY DEF AcceptedRow
<1> HIDE DEF base, v
<1>4. [base EXCEPT !.state = s, !.version = v] \in Row
  BY <1>1, <1>2, Zenon DEF Row
<1>5. /\ [base EXCEPT !.state = s, !.version = v].state = s
      /\ [base EXCEPT !.state = s, !.version = v].version = v
      /\ [base EXCEPT !.state = s, !.version = v].evidence = base.evidence
      /\ [base EXCEPT !.state = s, !.version = v].regenerationOf = base.regenerationOf
      /\ [base EXCEPT !.state = s, !.version = v].supersededBy = base.supersededBy
  BY <1>1, Zenon DEF Row
<1> QED BY <1>3, <1>4, <1>5, <1>6 DEF v

-----------------------------------------------------------------------------
(* Type correctness *)

LEMMA InitTypeOK == Init => TypeOK
<1> SUFFICES ASSUME Init PROVE TypeOK
  OBVIOUS
<1>1. PICK i \in Identities :
        \E first \in {AbsentRow(i)} \cup
                     {OlderRow(i, s) : s \in {"accepted", "running", "completed", "failed"}} :
          rows = [o \in Ops |-> IF o = 1 THEN first ELSE AbsentRow(i)]
  BY DEF Init
<1>2. PICK first \in {AbsentRow(i)} \cup
                     {OlderRow(i, s) : s \in {"accepted", "running", "completed", "failed"}} :
          rows = [o \in Ops |-> IF o = 1 THEN first ELSE AbsentRow(i)]
  BY <1>1
<1>3. first \in Row /\ AbsentRow(i) \in Row
  BY AbsentRowType, OlderRowType
<1>4. rows \in [Ops -> Row]
  BY <1>2, <1>3
<1>5. artifact \in [Identities -> ArtifactSources]
  <2>1. artifact \in [Identities -> {NoArtifact, HeadOnly, OlderArtifact}]
    BY Zenon DEF Init
  <2> QED BY <2>1 DEF ArtifactSources
<1>6. worker \in [Ops -> WorkerStates]
  BY Zenon DEF Init, WorkerStates
<1>7. cancelling = [c \in Cancellers |-> NotCancelling] /\ starting = NotStarting
  BY Zenon DEF Init
<1>8. core = "down" /\ ownEpoch = {} /\ interrupted = {} /\ crashes = 0 /\ faults = 0
  BY Zenon DEF Init
<1> QED
  BY <1>4, <1>5, <1>6, <1>7, <1>8, BoundsAssumption DEF TypeOK, NotStarting, NotCancelling

\* Each action keeps every variable in its set.
LEMMA NextTypeOK == TypeOK /\ [Next]_vars => TypeOK'
<1> SUFFICES ASSUME TypeOK, [Next]_vars PROVE TypeOK'
  OBVIOUS
<1> USE DEF TypeOK
<1>1. ASSUME NEW o \in Ops, NEW e \in Evidence, AcceptAttach(o, e) PROVE TypeOK'
  <2>1. [rows[o] EXCEPT !.evidence = e] \in Row
    <3>1. rows[o] \in Row /\ e \in Evidence \cup {NoEvidence}
      OBVIOUS
    <3> QED BY <3>1, Zenon DEF Row
  <2> QED BY <1>1, <2>1 DEF AcceptAttach, volatile, counters
<1>2. ASSUME NEW o \in Ops, NEW i \in Identities, NEW e \in Evidence,
             NEW t \in 1 .. MaxClock, AcceptFirst(o, i, e, t)
      PROVE  TypeOK'
  BY <1>2, AcceptedRowType DEF AcceptFirst, counters
<1>3. ASSUME NEW o \in Ops, NEW prior \in Ops, NEW i \in Identities, NEW e \in Evidence,
             NEW t \in 1 .. MaxClock, AcceptRegeneration(o, prior, i, e, t)
      PROVE  TypeOK'
  <2>1. AcceptedRow(i, e, t, prior) \in Row /\ SupersededRow(rows[prior], o) \in Row
    BY AcceptedRowType, SupersededRowType
  <2> QED BY <1>3, <2>1 DEF AcceptRegeneration, counters
<1>4. CASE InterruptSuperseded
  BY <1>4 DEF InterruptSuperseded, durable, counters
<1>5. CASE ForkWorker
  BY <1>5 DEF ForkWorker, durable, counters, NotStarting, WorkerStates
<1>6. ASSUME NEW o \in Ops, MarkRunning(o) PROVE TypeOK'
  BY <1>6, SettledRow DEF MarkRunning, counters, WorkerStates
<1>7. ASSUME NEW o \in Ops, MarkRunningLost(o) \/ TerminalLost(o) \/ WorkerInterrupted(o)
      PROVE  TypeOK'
  BY <1>7 DEF MarkRunningLost, TerminalLost, WorkerInterrupted, WorkerEnds, durable,
              counters, WorkerStates
<1>8. ASSUME NEW o \in Ops, UseCached(o) \/ GenerationFails(o) PROVE TypeOK'
  BY <1>8 DEF UseCached, GenerationFails, durable, counters, WorkerStates
<1>9. ASSUME NEW o \in Ops, SaveArtifact(o) PROVE TypeOK'
  BY <1>9 DEF SaveArtifact, counters, WorkerStates, ArtifactSources
<1>10. ASSUME NEW o \in Ops, CompleteSuccess(o) PROVE TypeOK'
  BY <1>10, SettledRow DEF CompleteSuccess, WorkerEnds, counters, WorkerStates
<1>11. ASSUME NEW o \in Ops, PersistFailure(o) PROVE TypeOK'
  BY <1>11, SettledRow DEF PersistFailure, WorkerEnds, counters, WorkerStates
<1>12. ASSUME NEW o \in Ops, WorkerLost(o) PROVE TypeOK'
  BY <1>12, BoundsAssumption DEF WorkerLost, WorkerEnds, durable, WorkerStates
<1>13. ASSUME NEW c \in Cancellers, NEW o \in Ops, CancelRead(c, o) PROVE TypeOK'
  <2>1. rows[o].version \in Nat
    BY DEF Row
  <2> QED BY <1>13, <2>1 DEF CancelRead, durable, counters
<1>14. ASSUME NEW c \in Cancellers, RequestCancellation(c) PROVE TypeOK'
  <2>1. cancelling[c].op \in Ops
    BY <1>14 DEF RequestCancellation
  <2>2. Settled(rows[cancelling[c].op], "cancelled") \in Row
    BY <2>1, SettledRow
  <2> QED BY <1>14, <2>1, <2>2 DEF RequestCancellation, counters
<1>15. ASSUME NEW c \in Cancellers, CancellationLost(c) PROVE TypeOK'
  <2>1. cancelling[c].op \in Ops
    BY <1>15 DEF CancellationLost
  <2>2. rows[cancelling[c].op].version \in Nat
    BY <2>1 DEF Row
  <2> QED BY <1>15, <2>1, <2>2 DEF CancellationLost, durable, counters, NotCancelling
<1>16. ASSUME NEW c \in Cancellers, InterruptCancelled(c) PROVE TypeOK'
  <2>1. cancelling[c].op \in Ops
    BY <1>16 DEF InterruptCancelled
  <2> QED BY ZenonT(40), <1>16, <2>1 DEF InterruptCancelled, durable, counters
<1>17. ASSUME NEW c \in Cancellers, CancelReturns(c) PROVE TypeOK'
  BY <1>17 DEF CancelReturns, durable, counters, NotCancelling
<1>18. CASE Crash
  BY <1>18, BoundsAssumption
     DEF Crash, LoseMemory, durable, NotStarting, NotCancelling, WorkerStates
<1>19. CASE Restart
  BY <1>19 DEF Restart, durable, volatile, counters
<1>20. ASSUME NEW o \in Ops, ReconcileSaved(o) PROVE TypeOK'
  BY <1>20, SettledRow DEF ReconcileSaved, volatile, counters
<1>21. ASSUME NEW o \in Ops, ReconcileFails(o) PROVE TypeOK'
  BY <1>21 DEF ReconcileFails, LoseMemory, durable, counters, NotStarting, NotCancelling,
               WorkerStates
<1>22. CASE RecoverInterrupted
  <2>1. \A o \in Ops : (IF IsActive(o) THEN Settled(rows[o], "interrupted") ELSE rows[o]) \in Row
    BY SettledRow
  <2> QED BY <1>22, <2>1 DEF RecoverInterrupted, volatile, counters
<1>23. CASE UNCHANGED vars
  BY <1>23 DEF vars, durable, volatile, counters
<1> QED
  BY <1>1, <1>2, <1>3, <1>4, <1>5, <1>6, <1>7, <1>8, <1>9, <1>10, <1>11, <1>12, <1>13,
     <1>14, <1>15, <1>16, <1>17, <1>18, <1>19, <1>20, <1>21, <1>22, <1>23
     DEF Next, Accept, StartSteps, WorkerSteps, ProviderSteps, CancelSteps, Recovery

\* The type invariant of rows, workers, requests and the Core process.
THEOREM TypeCorrect == Spec => []TypeOK
<1> QED BY InitTypeOK, NextTypeOK, PTL DEF Spec

-----------------------------------------------------------------------------
(* What any step does to the rows.  The three effects carry every later      *)
(* proof: the actions are taken apart once.                                  *)

\* Rows keep their generation, their place and their links; a row stays, starts to run, or
\* settles with a new version.
Advances ==
  \A o \in Ops :
    /\ rows'[o].identity = rows[o].identity
    /\ rows'[o].acceptedAt = rows[o].acceptedAt
    /\ rows'[o].regenerationOf = rows[o].regenerationOf
    /\ rows'[o].supersededBy = rows[o].supersededBy
    /\ \/ rows'[o].state = rows[o].state /\ rows'[o].version = rows[o].version
       \/ /\ rows'[o].version = rows[o].version + 1
          /\ rows[o].state = "accepted" /\ rows'[o].state = "running"
       \/ /\ rows'[o].version > rows[o].version
          /\ rows[o].state \in Active
          /\ rows'[o].state \in Terminal \ {"superseded"}

Opens(o, i) ==
  /\ ~Exists(o) /\ ExactOps(i) = {}
  /\ IsNextOp(o) /\ ClockReads(rows'[o].acceptedAt)
  /\ rows'[o].state = "accepted" /\ rows'[o].version = 1 /\ rows'[o].identity = i
  /\ rows'[o].regenerationOf = NoOp /\ rows'[o].supersededBy = NoOp
  /\ \A p \in Ops \ {o} : rows'[p] = rows[p]

Replaces(o, prior, i) ==
  /\ ~Exists(o) /\ Exists(prior) /\ rows[prior].identity = i
  /\ \A p \in Ops \ {prior} : IsActive(p) => rows[p].identity # i
  /\ IsNextOp(o) /\ IsLatestExact(prior, i) /\ ClockReads(rows'[o].acceptedAt)
  /\ rows'[o].state = "accepted" /\ rows'[o].version = 1 /\ rows'[o].identity = i
  /\ rows'[o].regenerationOf = prior /\ rows'[o].supersededBy = NoOp
  /\ rows'[prior].state = "superseded" /\ rows'[prior].identity = i
  /\ rows'[prior].version = rows[prior].version + 1
  /\ rows'[prior].acceptedAt = rows[prior].acceptedAt
  /\ rows'[prior].regenerationOf = rows[prior].regenerationOf
  /\ rows'[prior].supersededBy = o
  /\ \A p \in Ops \ {o, prior} : rows'[p] = rows[p]

\* A step that leaves the rows alone advances them trivially.
LEMMA UnchangedAdvances == rows' = rows => Advances
BY DEF Advances

\* A guarded transition of one row is an advance when it starts or settles an active row.
LEMMA OneSettles ==
  ASSUME TypeOK, NEW o \in Ops, NEW s \in RowStates,
         rows' = [rows EXCEPT ![o] = Settled(rows[o], s)],
         \/ rows[o].state = "accepted" /\ s = "running"
         \/ rows[o].state \in Active /\ s \in Terminal \ {"superseded"}
  PROVE  Advances
<1>1. rows[o] \in Row /\ rows \in [Ops -> Row]
  BY DEF TypeOK
<1>2. rows[o].version \in Nat
  BY <1>1 DEF Row
<1> QED BY <1>1, <1>2, SettledRow DEF Advances

\* The steps that write a row; every other step leaves the table alone.
LEMMA RowWriters ==
  ASSUME [Next]_vars
  PROVE  \/ rows' = rows
         \/ RecoverInterrupted
         \/ \E o \in Ops : \/ MarkRunning(o) \/ CompleteSuccess(o) \/ PersistFailure(o)
                           \/ ReconcileSaved(o)
         \/ \E c \in Cancellers : RequestCancellation(c)
         \/ \E o \in Ops, e \in Evidence :
              \/ AcceptAttach(o, e)
              \/ \E i \in Identities, t \in 1 .. MaxClock :
                   \/ AcceptFirst(o, i, e, t)
                   \/ \E prior \in Ops : AcceptRegeneration(o, prior, i, e, t)
BY DEF Next, vars, durable, Accept, StartSteps, WorkerSteps, ProviderSteps, CancelSteps,
     Recovery, InterruptSuperseded, ForkWorker, MarkRunningLost, TerminalLost,
     WorkerInterrupted, WorkerLost, UseCached, SaveArtifact, GenerationFails, CancelRead,
     CancellationLost, InterruptCancelled, CancelReturns, Crash, Restart, ReconcileFails

\* Recording the evidence of an older row changes nothing else of it.
LEMMA AttachAdvances ==
  ASSUME TypeOK, NEW o \in Ops, NEW e \in Evidence, AcceptAttach(o, e)
  PROVE  Advances
<1>1. rows \in [Ops -> Row] /\ rows[o] \in Row
  BY DEF TypeOK
<1>2. /\ [rows[o] EXCEPT !.evidence = e].state = rows[o].state
      /\ [rows[o] EXCEPT !.evidence = e].version = rows[o].version
      /\ [rows[o] EXCEPT !.evidence = e].identity = rows[o].identity
      /\ [rows[o] EXCEPT !.evidence = e].acceptedAt = rows[o].acceptedAt
      /\ [rows[o] EXCEPT !.evidence = e].regenerationOf = rows[o].regenerationOf
      /\ [rows[o] EXCEPT !.evidence = e].supersededBy = rows[o].supersededBy
  BY <1>1 DEF Row
<1> QED BY <1>1, <1>2 DEF AcceptAttach, Advances

LEMMA FirstOpens ==
  ASSUME TypeOK, NEW o \in Ops, NEW i \in Identities, NEW e \in Evidence,
         NEW t \in 1 .. MaxClock, AcceptFirst(o, i, e, t)
  PROVE  Opens(o, i)
<1>1. rows \in [Ops -> Row]
  BY DEF TypeOK
<1> QED BY <1>1, AcceptedRowType DEF AcceptFirst, Opens, IsNextOp

LEMMA RegenerationReplaces ==
  ASSUME TypeOK, NEW o \in Ops, NEW prior \in Ops, NEW i \in Identities, NEW e \in Evidence,
         NEW t \in 1 .. MaxClock, AcceptRegeneration(o, prior, i, e, t)
  PROVE  Replaces(o, prior, i)
<1>1. rows \in [Ops -> Row] /\ rows[prior] \in Row
  BY DEF TypeOK
<1>2. ~Exists(o) /\ prior \in ExactOps(i) /\ NoOtherActive(i, prior)
  BY DEF AcceptRegeneration, IsNextOp, IsLatestExact
<1>3. Exists(prior) /\ rows[prior].identity = i /\ o # prior
  BY <1>2 DEF ExactOps
<1>4. \A p \in Ops \ {prior} : IsActive(p) => rows[p].identity # i
  BY <1>2 DEF ExactOps, NoOtherActive, IsActive, Exists
<1> QED BY <1>1, <1>2, <1>3, <1>4, AcceptedRowType, SupersededRowType
        DEF AcceptRegeneration, Replaces

\* Every step but an accepted start advances the rows.
LEMMA OthersAdvance ==
  ASSUME TypeOK, [Next]_vars, ~Accept
  PROVE  Advances
<1>a. rows \in [Ops -> Row] /\ \A o \in Ops : rows[o] \in Row
  BY DEF TypeOK
<1>1. ASSUME NEW o \in Ops, MarkRunning(o) PROVE Advances
  BY <1>1, OneSettles DEF MarkRunning, Wins
<1>2. ASSUME NEW o \in Ops, CompleteSuccess(o) PROVE Advances
  BY <1>2, OneSettles DEF CompleteSuccess, Wins
<1>3. ASSUME NEW o \in Ops, PersistFailure(o) PROVE Advances
  BY <1>3, OneSettles DEF PersistFailure, Wins
<1>4. ASSUME NEW c \in Cancellers, RequestCancellation(c) PROVE Advances
  <2>1. cancelling[c].op \in Ops
    BY <1>4 DEF RequestCancellation, TypeOK
  <2> QED BY <1>4, <2>1, OneSettles DEF RequestCancellation, Wins
<1>5. ASSUME NEW o \in Ops, ReconcileSaved(o) PROVE Advances
  BY <1>5, OneSettles DEF ReconcileSaved
<1>6. CASE RecoverInterrupted
  <2>1. \A o \in Ops : rows[o].version \in Nat
    BY <1>a DEF Row
  <2> QED BY <1>6, <1>a, <2>1, SettledRow DEF RecoverInterrupted, Advances, IsActive
<1>7. CASE rows' = rows
  BY <1>7, UnchangedAdvances
<1> QED BY <1>1, <1>2, <1>3, <1>4, <1>5, <1>6, <1>7, RowWriters DEF Accept

\* Every step has one of the three effects.
LEMMA RowsEffect ==
  ASSUME TypeOK, [Next]_vars
  PROVE  \/ Advances
         \/ \E o \in Ops, i \in Identities : Opens(o, i)
         \/ \E o \in Ops, prior \in Ops, i \in Identities : Replaces(o, prior, i)
BY AttachAdvances, FirstOpens, RegenerationReplaces, OthersAdvance DEF Accept

-----------------------------------------------------------------------------
(* One active operation per generation *)

LEMMA InitOneActive == Init => OneActivePerGeneration
<1> SUFFICES ASSUME Init PROVE OneActivePerGeneration
  OBVIOUS
<1>1. \A o \in Ops : IsActive(o) => o = 1
  BY AbsentRowType DEF Init, IsActive
<1> QED BY <1>1 DEF OneActivePerGeneration

LEMMA NextOneActive ==
  TypeOK /\ OneActivePerGeneration /\ [Next]_vars => OneActivePerGeneration'
<1> SUFFICES ASSUME TypeOK, OneActivePerGeneration, [Next]_vars
             PROVE  OneActivePerGeneration'
  OBVIOUS
<1> USE DEF OneActivePerGeneration, IsActive
<1>1. CASE Advances
  BY <1>1 DEF Advances
<1>2. ASSUME NEW o \in Ops, NEW i \in Identities, Opens(o, i)
      PROVE  OneActivePerGeneration'
  BY <1>2 DEF Opens, ExactOps, Exists
<1>3. ASSUME NEW o \in Ops, NEW prior \in Ops, NEW i \in Identities, Replaces(o, prior, i)
      PROVE  OneActivePerGeneration'
  BY <1>3 DEF Replaces, Exists
<1> QED BY <1>1, <1>2, <1>3, RowsEffect

\* However the clock runs and whatever crashes, an exact generation never has two accepted or
\* running operations.
THEOREM OneActive == Spec => []OneActivePerGeneration
<1> QED BY InitTypeOK, NextTypeOK, InitOneActive, NextOneActive, PTL DEF Spec

-----------------------------------------------------------------------------
(* Nothing active belongs to a dead process *)

LEMMA NextNoDeadEpoch ==
  TypeOK /\ NoDeadEpochWork /\ [Next]_vars => NoDeadEpochWork'
<1> SUFFICES ASSUME TypeOK, NoDeadEpochWork, [Next]_vars PROVE NoDeadEpochWork'
  OBVIOUS
<1> USE DEF NoDeadEpochWork, IsActive
<1>a. rows \in [Ops -> Row] /\ \A o \in Ops : rows[o] \in Row
  BY DEF TypeOK
<1>1. ASSUME NEW o \in Ops, NEW e \in Evidence, AcceptAttach(o, e) PROVE NoDeadEpochWork'
  <2>1. [rows[o] EXCEPT !.evidence = e].state = rows[o].state
    BY <1>a DEF Row
  <2> QED BY <1>1, <1>a, <2>1 DEF AcceptAttach, volatile
<1>2. ASSUME NEW o \in Ops, NEW i \in Identities, NEW e \in Evidence,
             NEW t \in 1 .. MaxClock, AcceptFirst(o, i, e, t)
      PROVE  NoDeadEpochWork'
  BY <1>2, <1>a DEF AcceptFirst
<1>3. ASSUME NEW o \in Ops, NEW prior \in Ops, NEW i \in Identities, NEW e \in Evidence,
             NEW t \in 1 .. MaxClock, AcceptRegeneration(o, prior, i, e, t)
      PROVE  NoDeadEpochWork'
  BY <1>3, <1>a, SupersededRowType DEF AcceptRegeneration
<1>4. ASSUME NEW o \in Ops, MarkRunning(o) PROVE NoDeadEpochWork'
  BY <1>4, <1>a DEF MarkRunning, Wins
<1>5. ASSUME NEW o \in Ops, CompleteSuccess(o) \/ PersistFailure(o) PROVE NoDeadEpochWork'
  <2>1. CASE CompleteSuccess(o)
    BY <2>1, <1>a, SettledRow DEF CompleteSuccess
  <2>2. CASE PersistFailure(o)
    BY <2>2, <1>a, SettledRow DEF PersistFailure
  <2> QED BY <1>5, <2>1, <2>2
<1>6. ASSUME NEW c \in Cancellers, RequestCancellation(c) PROVE NoDeadEpochWork'
  <2>1. cancelling[c].op \in Ops
    BY <1>6 DEF RequestCancellation, TypeOK
  <2> QED BY <1>6, <1>a, <2>1, SettledRow DEF RequestCancellation
<1>7. ASSUME NEW o \in Ops, ReconcileSaved(o) \/ ReconcileFails(o) PROVE NoDeadEpochWork'
  BY <1>7 DEF ReconcileSaved, ReconcileFails, LoseMemory
<1>8. CASE RecoverInterrupted
  BY <1>8, <1>a, SettledRow DEF RecoverInterrupted
<1>9. CASE Crash \/ Restart
  BY <1>9 DEF Crash, Restart, LoseMemory
<1>10. CASE rows' = rows /\ core' = core /\ ownEpoch' = ownEpoch
  BY <1>10
<1>11. \/ rows' = rows /\ core' = core /\ ownEpoch' = ownEpoch
       \/ RecoverInterrupted \/ Crash \/ Restart
       \/ \E o \in Ops : \/ MarkRunning(o) \/ CompleteSuccess(o) \/ PersistFailure(o)
                         \/ ReconcileSaved(o) \/ ReconcileFails(o)
       \/ \E c \in Cancellers : RequestCancellation(c)
       \/ \E o \in Ops, e \in Evidence :
            \/ AcceptAttach(o, e)
            \/ \E i \in Identities, t \in 1 .. MaxClock :
                 \/ AcceptFirst(o, i, e, t)
                 \/ \E prior \in Ops : AcceptRegeneration(o, prior, i, e, t)
  BY DEF Next, vars, durable, volatile, Accept, StartSteps, WorkerSteps, ProviderSteps,
         CancelSteps, Recovery, InterruptSuperseded, ForkWorker, MarkRunningLost,
         TerminalLost, WorkerInterrupted, WorkerLost, UseCached, SaveArtifact,
         GenerationFails, CancelRead, CancellationLost, InterruptCancelled, CancelReturns
<1> QED BY <1>1, <1>2, <1>3, <1>4, <1>5, <1>6, <1>7, <1>8, <1>9, <1>10, <1>11

\* A Core that admits requests has settled whatever its dead predecessors left active.
THEOREM NoDeadEpoch == Spec => []NoDeadEpochWork
<1>1. Init => NoDeadEpochWork
  BY DEF Init, NoDeadEpochWork
<1> QED BY <1>1, InitTypeOK, NextTypeOK, NextNoDeadEpoch, PTL DEF Spec

-----------------------------------------------------------------------------
(* One terminal winner *)

\* Rows that do not exist are at version zero, below every inserted row.
AbsentAtZero == \A o \in Ops : ~Exists(o) => rows[o].version = 0

LEMMA InitAbsentAtZero == Init => AbsentAtZero
<1> SUFFICES ASSUME Init PROVE AbsentAtZero
  OBVIOUS
<1>1. \A i \in Identities : AbsentRow(i).version = 0
  BY DEF AbsentRow
<1>2. \A o \in Ops : ~Exists(o) => \E i \in Identities : rows[o] = AbsentRow(i)
  BY OlderRowType DEF Init, Exists
<1> QED BY <1>1, <1>2 DEF AbsentAtZero

LEMMA NextAbsentAtZero == TypeOK /\ AbsentAtZero /\ [Next]_vars => AbsentAtZero'
<1> SUFFICES ASSUME TypeOK, AbsentAtZero, [Next]_vars PROVE AbsentAtZero'
  OBVIOUS
<1> USE DEF AbsentAtZero, Exists
<1>1. CASE Advances
  BY <1>1 DEF Advances
<1>2. ASSUME NEW o \in Ops, NEW i \in Identities, Opens(o, i) PROVE AbsentAtZero'
  BY <1>2 DEF Opens
<1>3. ASSUME NEW o \in Ops, NEW prior \in Ops, NEW i \in Identities, Replaces(o, prior, i)
      PROVE  AbsentAtZero'
  BY <1>3 DEF Replaces
<1> QED BY <1>1, <1>2, <1>3, RowsEffect

\* The step formula of TerminalHasOneWinner.
OneWinnerStep ==
  \A o \in Ops :
    /\ (rows[o].state \in Terminal /\ rows'[o].state # rows[o].state) =>
         /\ rows'[o].state = "superseded"
         /\ rows'[o].supersededBy \in Ops
         /\ ~Exists(rows'[o].supersededBy)
         /\ rows'[rows'[o].supersededBy].state = "accepted"
    /\ rows'[o].state # rows[o].state => rows'[o].version > rows[o].version

LEMMA NextOneWinner == TypeOK /\ AbsentAtZero /\ [Next]_vars => OneWinnerStep
<1> SUFFICES ASSUME TypeOK, AbsentAtZero, [Next]_vars PROVE OneWinnerStep
  OBVIOUS
<1>a. \A o \in Ops : rows[o].version \in Nat
  BY DEF TypeOK, Row
<1>1. CASE Advances
  BY <1>1, <1>a DEF Advances, OneWinnerStep
<1>2. ASSUME NEW o \in Ops, NEW i \in Identities, Opens(o, i) PROVE OneWinnerStep
  BY <1>2 DEF Opens, OneWinnerStep, AbsentAtZero, Exists
<1>3. ASSUME NEW o \in Ops, NEW prior \in Ops, NEW i \in Identities, Replaces(o, prior, i)
      PROVE  OneWinnerStep
  BY <1>a, <1>3 DEF Replaces, OneWinnerStep, AbsentAtZero, Exists
<1> QED BY <1>1, <1>2, <1>3, RowsEffect

\* Guarded state versions choose one terminal winner: only a regeneration replaces it.
THEOREM OneWinner == Spec => TerminalHasOneWinner
<1>1. TypeOK /\ AbsentAtZero /\ [Next]_vars => [OneWinnerStep]_vars
  BY NextOneWinner
<1>2. TypeOK /\ AbsentAtZero /\ [Next]_vars => TypeOK' /\ AbsentAtZero'
  BY NextTypeOK, NextAbsentAtZero
<1>3. Spec => [][OneWinnerStep]_vars
  BY <1>1, <1>2, InitTypeOK, InitAbsentAtZero, PTL DEF Spec
<1> QED BY <1>3 DEF TerminalHasOneWinner, OneWinnerStep

-----------------------------------------------------------------------------
(* Refinement of the ledger *)

LEMMA InitLedger == Init => Ledger!LedgerInit
<1> SUFFICES ASSUME Init PROVE Ledger!LedgerInit
  OBVIOUS
<1>1. TypeOK
  BY InitTypeOK
<1>2. \A o \in Ops : rows[o].state \in RowStates /\ rows[o].identity \in Identities
  BY <1>1 DEF TypeOK, Row
<1>3. \A o \in Ops : o # 1 => rows[o].state = "absent"
  BY AbsentRowType DEF Init
<1>4. \A o \in Ops : rows[o].state # "superseded"
  BY AbsentRowType, OlderRowType DEF Init
<1>5. \A o \in Ops : rows[o].state = "absent" => PhaseOf(rows[o].state) = "none"
  BY DEF PhaseOf
<1>6. \A o \in Ops : /\ PhaseOf(rows[o].state) \in {"none", "open", "settled", "replaced"}
                     /\ PhaseOf(rows[o].state) # "replaced"
  BY <1>2, <1>4 DEF PhaseOf
<1> QED BY <1>2, <1>3, <1>5, <1>6
        DEF Ledger!LedgerInit, Ledger!LedgerTypeOK, Ledger!Phases

LEMMA NextLedger ==
  TypeOK /\ OneActivePerGeneration /\ [Next]_vars => [Ledger!LedgerNext]_(Ledger!ledger)
<1> SUFFICES ASSUME TypeOK, OneActivePerGeneration, [Next]_vars
             PROVE  [Ledger!LedgerNext]_(Ledger!ledger)
  OBVIOUS
<1> DEFINE phase == [o \in Ops |-> PhaseOf(rows[o].state)]
           generation == [o \in Ops |-> rows[o].identity]
<1>a. TypeOK'
  BY NextTypeOK
<1>b. \A o \in Ops : rows[o].state \in RowStates /\ rows'[o].state \in RowStates
  BY <1>a DEF TypeOK, Row
<1>c. \A o \in Ops : /\ IsActive(o) <=> phase[o] = "open"
                     /\ Exists(o) <=> phase[o] # "none"
  BY <1>b DEF PhaseOf, IsActive, Exists
<1>1. CASE Advances
  <2> DEFINE settling == {o \in Ops : IsActive(o) /\ rows'[o].state \notin Active}
  <2>1. generation' = generation
    BY <1>1 DEF Advances
  <2>2. \A o \in settling : phase[o] = "open"
    BY <1>c
  <2>3. \A o \in Ops : PhaseOf(rows'[o].state) =
                         IF o \in settling THEN "settled" ELSE PhaseOf(rows[o].state)
    BY <1>1, <1>b DEF Advances, PhaseOf, IsActive
  <2>4. phase' = [o \in Ops |-> IF o \in settling THEN "settled" ELSE phase[o]]
    BY <2>3
  <2>5. CASE settling = {}
    <3>1. phase' = phase
      BY <2>4, <2>5
    <3> QED BY <2>1, <3>1 DEF Ledger!ledger
  <2>6. CASE settling # {}
    <3>1. Ledger!Settle(settling)
      BY <2>1, <2>2, <2>4, <2>6 DEF Ledger!Settle
    <3> QED BY <3>1 DEF Ledger!LedgerNext
  <2> QED BY <2>5, <2>6
<1>2. ASSUME NEW o \in Ops, NEW i \in Identities, Opens(o, i) PROVE Ledger!LedgerNext
  <2>1. phase[o] = "none"
    BY <1>2, <1>c DEF Opens
  <2>2. Ledger!OpenIn(i) = {}
    BY <1>2, <1>c DEF Ledger!OpenIn, Opens, ExactOps, IsActive, Exists
  <2>a. PhaseOf("accepted") = "open"
    BY DEF PhaseOf
  <2>b. \A p \in Ops :
          /\ p # o => rows'[p] = rows[p]
          /\ p = o => rows'[p].state = "accepted" /\ rows'[p].identity = i
    BY <1>2 DEF Opens
  <2>c. \A p \in Ops : PhaseOf(rows'[p].state) = IF p = o THEN "open" ELSE phase[p]
    BY <2>a, <2>b
  <2>d. \A p \in Ops : rows'[p].identity = IF p = o THEN i ELSE generation[p]
    BY <2>b
  <2>3. phase' = [phase EXCEPT ![o] = "open"] /\ generation' = [generation EXCEPT ![o] = i]
    BY <2>c, <2>d
  <2> QED BY <2>1, <2>2, <2>3 DEF Ledger!LedgerNext, Ledger!Open
<1>3. ASSUME NEW o \in Ops, NEW prior \in Ops, NEW i \in Identities, Replaces(o, prior, i)
      PROVE  Ledger!LedgerNext
  <2>1. phase[o] = "none" /\ phase[prior] # "none" /\ generation[prior] = i /\ o # prior
    BY <1>3, <1>c DEF Replaces
  <2>2. Ledger!OpenIn(i) \subseteq {prior}
    BY <1>3, <1>c DEF Ledger!OpenIn, Replaces, IsActive
  <2>3. /\ phase' = [phase EXCEPT ![prior] = "replaced", ![o] = "open"]
        /\ generation' = [generation EXCEPT ![o] = i]
    <3>1. PhaseOf("accepted") = "open" /\ PhaseOf("superseded") = "replaced"
      BY DEF PhaseOf
    <3>2. \A p \in Ops :
            /\ PhaseOf(rows'[p].state) = IF p = o THEN "open" ELSE
                                         IF p = prior THEN "replaced" ELSE PhaseOf(rows[p].state)
            /\ rows'[p].identity = IF p = o THEN i ELSE rows[p].identity
      BY <1>3, <2>1, <3>1 DEF Replaces
    <3> QED BY <2>1, <3>2
  <2>4. Ledger!Replace(o, prior, i)
    BY <2>1, <2>2, <2>3 DEF Ledger!Replace
  <2> QED BY <2>4 DEF Ledger!LedgerNext
<1> QED BY <1>1, <1>2, <1>3, RowsEffect

\* Every behaviour of rows, workers, requests, crashes and recovery is one of the ledger.
THEOREM RefinesLedger == Spec => ImplementsLedger
<1>1. TypeOK /\ OneActivePerGeneration /\ [Next]_vars =>
        TypeOK' /\ OneActivePerGeneration' /\ [Ledger!LedgerNext]_(Ledger!ledger)
  BY NextTypeOK, NextOneActive, NextLedger
<1>2. Init => TypeOK /\ OneActivePerGeneration /\ Ledger!LedgerInit
  BY InitTypeOK, InitOneActive, InitLedger
<1> QED BY <1>1, <1>2, PTL DEF Spec, ImplementsLedger, Ledger!LedgerSpec
-----------------------------------------------------------------------------
(* Operations are chained *)

\* A first start finds at most row one, and that one knows no key and no other operation.
LEMMA InitRows ==
  ASSUME Init, NEW o \in Ops
  PROVE  /\ o # 1 => rows[o].state = "absent"
         /\ rows[o].state # "superseded"
         /\ rows[o].state = "absent" => rows[o].acceptedAt = 0
         /\ rows[o].state = "accepted" => rows[o].version = 1
         /\ rows[o].state = "running" => rows[o].version = 2
         /\ rows[o].evidence = NoEvidence
         /\ rows[o].regenerationOf = NoOp
         /\ rows[o].supersededBy = NoOp
<1>1. PICK i \in Identities :
        \E first \in {AbsentRow(i)} \cup
                     {OlderRow(i, s) : s \in {"accepted", "running", "completed", "failed"}} :
          rows = [q \in Ops |-> IF q = 1 THEN first ELSE AbsentRow(i)]
  BY DEF Init
<1>2. \/ rows[o] = AbsentRow(i)
      \/ o = 1 /\ \E s \in {"accepted", "running", "completed", "failed"} : rows[o] = OlderRow(i, s)
  BY <1>1
<1>3. CASE rows[o] = AbsentRow(i)
  BY <1>3, AbsentRowType
<1>4. ASSUME o = 1,
             NEW s \in {"accepted", "running", "completed", "failed"}, rows[o] = OlderRow(i, s)
      PROVE  /\ rows[o].state = s
             /\ rows[o].version = IF s = "accepted" THEN 1 ELSE IF s = "running" THEN 2 ELSE 3
             /\ rows[o].evidence = NoEvidence
             /\ rows[o].regenerationOf = NoOp
             /\ rows[o].supersededBy = NoOp
  BY <1>4, OlderRowType
<1> QED BY <1>2, <1>3, <1>4

\* The evidence recorded for each kind of accepted start.
LEMMA AttachRecords ==
  ASSUME TypeOK, NEW o \in Ops, NEW e \in Evidence, AcceptAttach(o, e)
  PROVE  /\ OpsOfKey(e.key) = {} /\ rows'[o].evidence = e
         /\ \A p \in Ops \ {o} : rows'[p].evidence = rows[p].evidence
<1>1. rows \in [Ops -> Row] /\ rows[o] \in Row
  BY DEF TypeOK
<1>2. [rows[o] EXCEPT !.evidence = e].evidence = e
  BY <1>1 DEF Row
<1> QED BY <1>1, <1>2 DEF AcceptAttach

LEMMA FirstRecords ==
  ASSUME TypeOK, NEW o \in Ops, NEW i \in Identities, NEW e \in Evidence,
         NEW t \in 1 .. MaxClock, AcceptFirst(o, i, e, t)
  PROVE  /\ OpsOfKey(e.key) = {} /\ rows'[o].evidence = e
         /\ \A p \in Ops \ {o} : rows'[p].evidence = rows[p].evidence
<1>1. rows \in [Ops -> Row]
  BY DEF TypeOK
<1> QED BY <1>1, AcceptedRowType DEF AcceptFirst

LEMMA RegenerationRecords ==
  ASSUME TypeOK, NEW o \in Ops, NEW prior \in Ops, NEW i \in Identities, NEW e \in Evidence,
         NEW t \in 1 .. MaxClock, AcceptRegeneration(o, prior, i, e, t)
  PROVE  /\ OpsOfKey(e.key) = {} /\ rows'[o].evidence = e
         /\ \A p \in Ops \ {o} : rows'[p].evidence = rows[p].evidence
<1>1. rows \in [Ops -> Row] /\ rows[prior] \in Row
  BY DEF TypeOK
<1>2. AcceptedRow(i, e, t, prior).evidence = e
  BY AcceptedRowType
<1>3. SupersededRow(rows[prior], o).evidence = rows[prior].evidence
  BY <1>1, SupersededRowType
<1> QED BY <1>1, <1>2, <1>3 DEF AcceptRegeneration

\* Only an accepted start records evidence.
LEMMA OthersKeepEvidence ==
  ASSUME TypeOK, [Next]_vars, ~Accept
  PROVE  \A o \in Ops : rows'[o].evidence = rows[o].evidence
<1>a. rows \in [Ops -> Row] /\ \A o \in Ops : rows[o] \in Row
  BY DEF TypeOK
<1>1. ASSUME NEW o \in Ops,
             \/ MarkRunning(o) \/ CompleteSuccess(o) \/ PersistFailure(o) \/ ReconcileSaved(o)
      PROVE  \A p \in Ops : rows'[p].evidence = rows[p].evidence
  <2>1. \E s \in RowStates : rows' = [rows EXCEPT ![o] = Settled(rows[o], s)]
    BY <1>1 DEF MarkRunning, CompleteSuccess, PersistFailure, ReconcileSaved
  <2> QED BY <1>a, <2>1, SettledRow
<1>2. ASSUME NEW c \in Cancellers, RequestCancellation(c)
      PROVE  \A p \in Ops : rows'[p].evidence = rows[p].evidence
  <2>1. cancelling[c].op \in Ops
    BY <1>2 DEF RequestCancellation, TypeOK
  <2> QED BY <1>2, <1>a, <2>1, SettledRow DEF RequestCancellation
<1>3. CASE RecoverInterrupted
  BY <1>3, <1>a, SettledRow DEF RecoverInterrupted
<1>4. CASE rows' = rows
  BY <1>4
<1> QED BY <1>1, <1>2, <1>3, <1>4, RowWriters DEF Accept

\* A key enters the table with the one row that records it, or not at all.
LEMMA EvidenceEffect ==
  ASSUME TypeOK, [Next]_vars
  PROVE  \/ \A o \in Ops : rows'[o].evidence = rows[o].evidence
         \/ \E o \in Ops, e \in Evidence :
              /\ OpsOfKey(e.key) = {}
              /\ rows'[o].evidence = e
              /\ \A p \in Ops \ {o} : rows'[p].evidence = rows[p].evidence
<1> DEFINE Recorded(o, e) == /\ OpsOfKey(e.key) = {}
                             /\ rows'[o].evidence = e
                             /\ \A p \in Ops \ {o} : rows'[p].evidence = rows[p].evidence
<1>1. ASSUME NEW o \in Ops, NEW e \in Evidence,
             \/ AcceptAttach(o, e)
             \/ \E i \in Identities, t \in 1 .. MaxClock :
                  \/ AcceptFirst(o, i, e, t)
                  \/ \E prior \in Ops : AcceptRegeneration(o, prior, i, e, t)
      PROVE  Recorded(o, e)
  BY <1>1, AttachRecords, FirstRecords, RegenerationRecords
<1>2. CASE Accept
  BY <1>1, <1>2 DEF Accept
<1>3. CASE ~Accept
  BY <1>3, OthersKeepEvidence
<1> QED BY <1>2, <1>3

LEMMA NextKeys == TypeOK /\ KeyNamesOneOperation /\ [Next]_vars => KeyNamesOneOperation'
<1> SUFFICES ASSUME TypeOK, KeyNamesOneOperation, [Next]_vars PROVE KeyNamesOneOperation'
  OBVIOUS
<1> USE DEF KeyNamesOneOperation
<1>1. CASE \A o \in Ops : rows'[o].evidence = rows[o].evidence
  BY <1>1
<1>2. ASSUME NEW o \in Ops, NEW e \in Evidence, OpsOfKey(e.key) = {},
             rows'[o].evidence = e,
             \A p \in Ops \ {o} : rows'[p].evidence = rows[p].evidence
      PROVE  KeyNamesOneOperation'
  BY <1>2 DEF OpsOfKey
<1> QED BY <1>1, <1>2, EvidenceEffect

\* A retried start finds the operation its key was recorded for: no key ever names two, in any
\* order of starts, retries, crashes and clock readings.
THEOREM KeysAreUnique == Spec => []KeyNamesOneOperation
<1>1. Init => KeyNamesOneOperation
  BY InitRows DEF KeyNamesOneOperation
<1> QED BY <1>1, InitTypeOK, NextTypeOK, NextKeys, PTL DEF Spec
\* The last operation of its generation.
Newest(o) ==
  Exists(o) /\ \A p \in Ops : (Exists(p) /\ rows[p].identity = rows[o].identity) => p <= o

\* Row ids are given out without gaps.
RowsAreDense == \A p, q \in Ops : (p < q /\ Exists(q)) => Exists(p)

\* Under a clock that never steps back, ids and times agree.
TimesFollowIds ==
  \A p, q \in Ops : (p < q /\ Exists(q)) => rows[p].acceptedAt <= rows[q].acceptedAt

\* A row that does not exist is linked to none.
AbsentIsUnlinked ==
  \A o \in Ops : ~Exists(o) => rows[o].supersededBy = NoOp /\ rows[o].regenerationOf = NoOp

\* Only the last operation of a generation is anything but superseded.
OlderIsSuperseded == \A o \in Ops : (Exists(o) /\ rows[o].state # "superseded") => Newest(o)

History ==
  /\ RowsAreDense /\ TimesFollowIds /\ AbsentIsUnlinked /\ OlderIsSuperseded
  /\ SupersessionIsAChain

LEMMA InitHistory == Init => History
<1> SUFFICES ASSUME Init PROVE History
  OBVIOUS
<1>1. \A o \in Ops : Exists(o) => o = 1
  BY InitRows DEF Exists
<1>2. RowsAreDense /\ TimesFollowIds
  BY <1>1 DEF RowsAreDense, TimesFollowIds
<1>3. AbsentIsUnlinked
  BY InitRows DEF AbsentIsUnlinked
<1>4. OlderIsSuperseded
  BY <1>1 DEF OlderIsSuperseded, Newest
<1>5. SupersessionIsAChain
  BY InitRows DEF SupersessionIsAChain
<1> QED BY <1>2, <1>3, <1>4, <1>5 DEF History

\* The id of an INSERT is above every id in the table, its time not below any time in it.
LEMMA NextOpIsAbove ==
  ASSUME TypeOK, RowsAreDense, ~ClockMayStepBack, NEW o \in Ops, IsNextOp(o),
         NEW t, ClockReads(t)
  PROVE  \A p \in Ops : /\ Exists(p) => p < o
                        /\ rows[p].acceptedAt <= t
BY DEF RowsAreDense, IsNextOp, ClockReads

\* The row that ORDER BY accepted_at DESC, rowid DESC finds is the last of its generation.
LEMMA LatestIsNewest ==
  ASSUME TypeOK, TimesFollowIds, NEW o \in Ops, NEW i \in Identities, IsLatestExact(o, i)
  PROVE  Newest(o) /\ rows[o].identity = i
<1>1. \A p \in Ops : rows[p].acceptedAt \in Nat
  BY BoundsAssumption DEF TypeOK, Row
<1> QED BY <1>1 DEF IsLatestExact, ExactOps, NotAfter, Newest, TimesFollowIds

\* The converse: the last of its generation is the row that is found.
LEMMA NewestIsLatest ==
  ASSUME TypeOK, TimesFollowIds, NEW o \in Ops, Newest(o)
  PROVE  IsLatestExact(o, rows[o].identity)
<1>1. \A p \in Ops : rows[p].acceptedAt \in Nat
  BY BoundsAssumption DEF TypeOK, Row
<1> QED BY <1>1 DEF IsLatestExact, ExactOps, NotAfter, Newest, TimesFollowIds

\* An advance leaves it settled which operation of a generation is the last.
LEMMA AdvancesKeepsNewest ==
  ASSUME Advances
  PROVE  \A o \in Ops : /\ Exists(o)' <=> Exists(o)
                        /\ rows'[o].state = "superseded" <=> rows[o].state = "superseded"
                        /\ Newest(o)' <=> Newest(o)
<1>1. \A o \in Ops : /\ Exists(o)' <=> Exists(o)
                     /\ rows'[o].state = "superseded" <=> rows[o].state = "superseded"
  BY DEF Advances, Exists
<1> QED BY <1>1 DEF Newest, Advances

LEMMA AdvancesKeepsHistory ==
  ASSUME TypeOK, History, Advances
  PROVE  History'
<1>1. \A o \in Ops : /\ Exists(o)' <=> Exists(o)
                     /\ rows'[o].state = "superseded" <=> rows[o].state = "superseded"
  BY AdvancesKeepsNewest
<1>2. \A o \in Ops : Newest(o)' <=> Newest(o)
  BY AdvancesKeepsNewest
<1>3. RowsAreDense' /\ TimesFollowIds' /\ AbsentIsUnlinked' /\ OlderIsSuperseded'
  BY <1>1, <1>2 DEF History, RowsAreDense, TimesFollowIds, AbsentIsUnlinked,
                    OlderIsSuperseded, Advances
<1>4. SupersessionIsAChain'
  BY <1>1 DEF History, SupersessionIsAChain, Advances
<1> QED BY <1>3, <1>4 DEF History

LEMMA OpensKeepsHistory ==
  ASSUME TypeOK, ~ClockMayStepBack, History,
         NEW o \in Ops, NEW i \in Identities, Opens(o, i)
  PROVE  History'
<1>1. \A p \in Ops : /\ p # o => rows'[p] = rows[p]
                     /\ Exists(p)' <=> (Exists(p) \/ p = o)
                     /\ Exists(p) => p < o
                     /\ Exists(p) => rows[p].identity # i
                     /\ rows[p].acceptedAt <= rows'[o].acceptedAt
  BY NextOpIsAbove DEF Opens, Exists, History, ExactOps
<1>2. ~Exists(o) /\ \A p \in Ops : p < o => Exists(p)
  BY DEF Opens, IsNextOp
<1>3. RowsAreDense' /\ TimesFollowIds'
  BY <1>1, <1>2 DEF History, RowsAreDense, TimesFollowIds
<1>4. AbsentIsUnlinked'
  BY <1>1 DEF History, AbsentIsUnlinked
<1>5. \A p \in Ops : Newest(p) => Newest(p)'
  BY <1>1, <1>2 DEF Newest, Opens
<1>6. Newest(o)'
  BY <1>1 DEF Newest, Opens
<1>7. OlderIsSuperseded'
  BY <1>1, <1>5, <1>6 DEF History, OlderIsSuperseded
<1>8. SupersessionIsAChain'
  BY <1>1, <1>2 DEF History, SupersessionIsAChain, AbsentIsUnlinked, Opens
<1> QED BY <1>3, <1>4, <1>7, <1>8 DEF History

LEMMA ReplacesKeepsHistory ==
  ASSUME TypeOK, ~ClockMayStepBack, History,
         NEW o \in Ops, NEW prior \in Ops, NEW i \in Identities, Replaces(o, prior, i)
  PROVE  History'
<1>1. \A p \in Ops : /\ p # o /\ p # prior => rows'[p] = rows[p]
                     /\ p # o => /\ rows'[p].acceptedAt = rows[p].acceptedAt
                                 /\ rows'[p].identity = rows[p].identity
                                 /\ rows'[p].regenerationOf = rows[p].regenerationOf
                     /\ Exists(p)' <=> (Exists(p) \/ p = o)
                     /\ Exists(p) => p < o
                     /\ rows[p].acceptedAt <= rows'[o].acceptedAt
  BY NextOpIsAbove DEF Replaces, Exists, History
<1>2. /\ ~Exists(o) /\ Exists(prior) /\ prior < o
      /\ \A p \in Ops : p < o => Exists(p)
  BY <1>1 DEF Replaces, IsNextOp
<1>3. Newest(prior) /\ rows[prior].identity = i
  BY LatestIsNewest DEF Replaces, History
<1>4. RowsAreDense' /\ TimesFollowIds'
  BY <1>1, <1>2 DEF History, RowsAreDense, TimesFollowIds
<1>5. AbsentIsUnlinked'
  BY <1>1, <1>2 DEF History, AbsentIsUnlinked
<1>6. Newest(o)'
  BY <1>1 DEF Newest, Replaces
<1>7. \A p \in Ops : (Newest(p) /\ p # prior) => Newest(p)'
  BY <1>1, <1>2, <1>3 DEF Newest, Replaces
<1>8. OlderIsSuperseded'
  BY <1>1, <1>6, <1>7 DEF History, OlderIsSuperseded, Replaces
<1>9. \A p \in Ops : rows[prior].supersededBy # p /\ (Exists(p) => rows[p].regenerationOf # prior)
  BY <1>3 DEF History, SupersessionIsAChain, Newest
<1>10. \A p \in Ops : rows[p].supersededBy # o /\ (Exists(p) => rows[p].regenerationOf # o)
  BY <1>2 DEF History, SupersessionIsAChain, AbsentIsUnlinked
<1>11. SupersessionIsAChain'
  <2> SUFFICES ASSUME NEW p \in Ops, NEW q \in Ops
               PROVE  /\ rows'[p].supersededBy = q <=> (Exists(q)' /\ rows'[q].regenerationOf = p)
                      /\ rows'[p].supersededBy = q =>
                           p < q /\ rows'[p].identity = rows'[q].identity
                                 /\ rows'[p].state = "superseded"
    BY DEF SupersessionIsAChain
  <2>1. CASE p = prior
    BY <2>1, <1>1, <1>2, <1>9 DEF Replaces
  <2>2. CASE p = o
    BY <2>2, <1>1, <1>2, <1>10 DEF Replaces
  <2>3. CASE p # o /\ p # prior
    <3>1. rows'[p] = rows[p]
      BY <2>3, <1>1
    <3>2. CASE q = o
      BY <2>3, <3>1, <3>2, <1>10 DEF Replaces
    <3>3. CASE q # o
      BY <2>3, <3>1, <3>3, <1>1 DEF History, SupersessionIsAChain
    <3> QED BY <3>2, <3>3
  <2> QED BY <2>1, <2>2, <2>3
<1> QED BY <1>4, <1>5, <1>8, <1>11 DEF History

LEMMA NextHistory == TypeOK /\ ~ClockMayStepBack /\ History /\ [Next]_vars => History'
BY RowsEffect, AdvancesKeepsHistory, OpensKeepsHistory, ReplacesKeepsHistory

\* While the clock does not step back, regenerations of a generation form one chain, each
\* operation replaced once by the operation that says so, and no key names two operations.
THEOREM HistoryIsAChain == ~ClockMayStepBack => (Spec => []OperationsAreChained)
<1> SUFFICES ASSUME ~ClockMayStepBack PROVE Spec => []OperationsAreChained
  OBVIOUS
<1>1. Init => TypeOK /\ History
  BY InitTypeOK, InitHistory
<1>2. TypeOK /\ History /\ [Next]_vars => TypeOK' /\ History'
  BY NextTypeOK, NextHistory
<1>3. History /\ KeyNamesOneOperation => OperationsAreChained
  BY DEF History, OperationsAreChained
<1> QED BY <1>1, <1>2, <1>3, KeysAreUnique, PTL DEF Spec
-----------------------------------------------------------------------------
(* Active operations are driven *)

\* Interruption is requested of fibers in the map only, and those work on rows that exist.
FibersAreOfRows ==
  \A o \in Ops : /\ o \in interrupted => worker[o] # "none"
                 /\ worker[o] # "none" => Exists(o)

\* The start inside the semaphore inserted its row and has forked no worker for it; the row
\* that it replaces is superseded.
StartIsUnforked ==
  starting.phase # "idle" =>
    /\ Exists(starting.op) /\ worker[starting.op] = "none"
    /\ starting.prior # NoOp => rows[starting.prior].state = "superseded"

\* A cancellation interrupts a worker only after its own transition won.
CancelsAfterWinning ==
  \A c \in Cancellers :
    cancelling[c].phase = "interrupting" => rows[cancelling[c].op].state \in Terminal

\* The version an active row is expected at by its worker's guarded transitions.
ActiveVersions ==
  \A o \in Ops : /\ rows[o].state = "accepted" => rows[o].version = 1
                 /\ rows[o].state = "running" => rows[o].version = 2

Driven(o) ==
  /\ rows[o].state = "accepted" =>
       \/ starting.phase # "idle" /\ starting.op = o
       \/ worker[o] = "starting" /\ o \notin interrupted
  /\ rows[o].state = "running" =>
       worker[o] \in {"generating", "saved", "failing"} /\ o \notin interrupted

AllDriven == (core = "up" /\ faults = 0) => \A o \in Ops : Driven(o)

DriverInv ==
  /\ FibersAreOfRows /\ StartIsUnforked /\ CancelsAfterWinning /\ ActiveVersions /\ AllDriven

LEMMA InitDriver == Init => DriverInv
<1> SUFFICES ASSUME Init PROVE DriverInv
  OBVIOUS
<1>1. /\ core = "down" /\ interrupted = {} /\ starting = NotStarting
      /\ worker = [o \in Ops |-> "none"]
      /\ cancelling = [c \in Cancellers |-> NotCancelling]
  BY Zenon DEF Init
<1>2. ActiveVersions
  BY InitRows DEF ActiveVersions
<1> QED BY <1>1, <1>2 DEF DriverInv, FibersAreOfRows, StartIsUnforked, CancelsAfterWinning,
                          AllDriven, NotStarting, NotCancelling

\* A row that exists stays, and so does the end of its work.
LEMMA RowsGoOn ==
  ASSUME TypeOK, ActiveVersions, [Next]_vars
  PROVE  /\ ActiveVersions'
         /\ \A o \in Ops : /\ Exists(o) => Exists(o)'
                           /\ rows[o].state \in Terminal => rows'[o].state \in Terminal
                           /\ rows[o].state = "superseded" => rows'[o].state = "superseded"
<1> USE DEF ActiveVersions, Exists
<1>1. CASE Advances
  BY <1>1 DEF Advances
<1>2. ASSUME NEW o \in Ops, NEW i \in Identities, Opens(o, i)
      PROVE  /\ ActiveVersions'
             /\ \A p \in Ops : /\ Exists(p) => Exists(p)'
                               /\ rows[p].state \in Terminal => rows'[p].state \in Terminal
                               /\ rows[p].state = "superseded" => rows'[p].state = "superseded"
  BY <1>2 DEF Opens
<1>3. ASSUME NEW o \in Ops, NEW prior \in Ops, NEW i \in Identities, Replaces(o, prior, i)
      PROVE  /\ ActiveVersions'
             /\ \A p \in Ops : /\ Exists(p) => Exists(p)'
                               /\ rows[p].state \in Terminal => rows'[p].state \in Terminal
                               /\ rows[p].state = "superseded" => rows'[p].state = "superseded"
  BY <1>3 DEF Replaces
<1> QED BY <1>1, <1>2, <1>3, RowsEffect

\* One row changes its state, all others stay.
OneRowGoes(o, s) ==
  /\ rows'[o].state = s
  /\ \A p \in Ops \ {o} : rows'[p] = rows[p]

LEMMA SettledGoes ==
  ASSUME TypeOK, NEW o \in Ops, NEW s \in RowStates,
         rows' = [rows EXCEPT ![o] = Settled(rows[o], s)]
  PROVE  OneRowGoes(o, s)
<1>1. rows[o] \in Row /\ rows \in [Ops -> Row]
  BY DEF TypeOK
<1> QED BY <1>1, SettledRow DEF OneRowGoes

\* The start of an operation: its new row is driven by the start itself.
LEMMA AcceptKeepsDriver ==
  ASSUME TypeOK, DriverInv, [Next]_vars, Accept
  PROVE  DriverInv'
<1> USE DEF DriverInv
<1>a. rows \in [Ops -> Row] /\ \A o \in Ops : rows[o] \in Row
  BY DEF TypeOK
<1>b. ActiveVersions'
  BY RowsGoOn
<1>1. ASSUME NEW o \in Ops, NEW e \in Evidence, AcceptAttach(o, e) PROVE DriverInv'
  <2>1. [rows[o] EXCEPT !.evidence = e].state = rows[o].state
    BY <1>a DEF Row
  <2>2. \A p \in Ops : rows'[p].state = rows[p].state
    BY <1>1, <1>a, <2>1 DEF AcceptAttach
  <2>3. UNCHANGED <<core, worker, interrupted, starting, cancelling, faults>>
    BY <1>1 DEF AcceptAttach, volatile, counters
  <2>4. CancelsAfterWinning'
    BY <2>2, <2>3 DEF CancelsAfterWinning, TypeOK
  <2>5. StartIsUnforked'
    BY <2>2, <2>3 DEF StartIsUnforked, TypeOK, Exists
  <2> QED BY <1>b, <2>2, <2>3, <2>4, <2>5 DEF FibersAreOfRows, Exists, AllDriven, Driven
<1>2. ASSUME NEW o \in Ops, NEW prior \in Ops \cup {NoOp}, ~Exists(o),
             starting.phase = "idle", starting'.phase # "idle",
             starting'.op = o, starting'.prior = prior,
             UNCHANGED <<core, worker, interrupted, cancelling, faults>>,
             rows'[o].state = "accepted",
             prior # NoOp => rows'[prior].state = "superseded",
             \A p \in Ops \ {o, prior} : rows'[p] = rows[p]
      PROVE  DriverInv'
  <2>1. worker[o] = "none" /\ o \notin interrupted
    BY <1>2 DEF FibersAreOfRows
  <2>2. FibersAreOfRows'
    BY <1>2, RowsGoOn DEF FibersAreOfRows
  <2>3. StartIsUnforked'
    BY <1>2, <2>1 DEF StartIsUnforked, Exists
  <2>4. CancelsAfterWinning'
    BY <1>2, RowsGoOn DEF CancelsAfterWinning, TypeOK
  <2>5. AllDriven'
    BY <1>2 DEF AllDriven, Driven
  <2> QED BY <1>b, <2>2, <2>3, <2>4, <2>5
<1>3. ASSUME NEW o \in Ops, NEW i \in Identities, NEW e \in Evidence,
             NEW t \in 1 .. MaxClock, AcceptFirst(o, i, e, t)
      PROVE  DriverInv'
  <2>1. rows'[o].state = "accepted" /\ \A p \in Ops \ {o} : rows'[p] = rows[p]
    BY <1>3, <1>a, AcceptedRowType DEF AcceptFirst
  <2>2. /\ ~Exists(o) /\ starting.phase = "idle" /\ starting'.phase # "idle"
        /\ starting'.op = o /\ starting'.prior = NoOp
        /\ UNCHANGED <<core, worker, interrupted, cancelling, faults>>
    BY <1>3 DEF AcceptFirst, IsNextOp, CanStart, counters
  <2> QED BY <2>1, <2>2, <1>2
<1>4. ASSUME NEW o \in Ops, NEW prior \in Ops, NEW i \in Identities, NEW e \in Evidence,
             NEW t \in 1 .. MaxClock, AcceptRegeneration(o, prior, i, e, t)
      PROVE  DriverInv'
  <2>0. ~Exists(o) /\ Exists(prior)
    BY <1>4 DEF AcceptRegeneration, IsNextOp, IsLatestExact, ExactOps
  <2>1. /\ rows'[o].state = "accepted" /\ rows'[prior].state = "superseded"
        /\ \A p \in Ops \ {o, prior} : rows'[p] = rows[p]
    BY <1>4, <1>a, <2>0, AcceptedRowType, SupersededRowType DEF AcceptRegeneration
  <2>2. /\ starting.phase = "idle" /\ starting'.phase # "idle"
        /\ starting'.op = o /\ starting'.prior = prior
        /\ UNCHANGED <<core, worker, interrupted, cancelling, faults>>
    BY <1>4 DEF AcceptRegeneration, CanStart, counters
  <2> QED BY <2>0, <2>1, <2>2, <1>2
<1> QED BY <1>1, <1>3, <1>4 DEF Accept
\* A fiber that goes on or ends disturbs its own operation only.
LEMMA FiberKeepsDriver ==
  ASSUME TypeOK, DriverInv, [Next]_vars,
         NEW o \in Ops, NEW place \in WorkerStates, worker[o] # "none",
         worker' = [worker EXCEPT ![o] = place],
         interrupted' \in {interrupted, interrupted \ {o}},
         place = "none" => o \notin interrupted',
         \A p \in Ops \ {o} : rows'[p] = rows[p],
         UNCHANGED <<core, starting, cancelling>>,
         faults' = 0 => faults = 0,
         (core = "up" /\ faults' = 0) => Driven(o)'
  PROVE  DriverInv'
<1> USE DEF DriverInv
<1>1. \A p \in Ops \ {o} : worker'[p] = worker[p] /\ (p \in interrupted' <=> p \in interrupted)
  BY DEF TypeOK
<1>2. worker'[o] = place
  BY DEF TypeOK
<1>3. FibersAreOfRows'
  BY <1>1, <1>2, RowsGoOn DEF FibersAreOfRows
<1>4. StartIsUnforked'
  <2> SUFFICES ASSUME starting'.phase # "idle"
               PROVE  /\ Exists(starting.op)' /\ worker'[starting.op] = "none"
                      /\ starting.prior # NoOp => rows'[starting.prior].state = "superseded"
    BY DEF StartIsUnforked
  <2>1. starting.phase # "idle" /\ starting.op \in Ops /\ starting.prior \in Ops \cup {NoOp}
    BY DEF TypeOK
  <2>2. worker[starting.op] = "none" /\ starting.op # o
    BY <2>1 DEF StartIsUnforked
  <2>3. worker'[starting.op] = "none" /\ Exists(starting.op)'
    BY <1>1, <2>1, <2>2, RowsGoOn DEF StartIsUnforked
  <2>4. starting.prior # NoOp => rows'[starting.prior].state = "superseded"
    BY <2>1, RowsGoOn DEF StartIsUnforked
  <2> QED BY <2>3, <2>4
<1>5. CancelsAfterWinning'
  BY RowsGoOn DEF CancelsAfterWinning, TypeOK
<1>6. AllDriven'
  BY <1>1 DEF AllDriven, Driven
<1> QED BY <1>3, <1>4, <1>5, <1>6, RowsGoOn

\* A worker's own steps: each leaves its row driven or settled.
LEMMA WorkerKeepsDriver ==
  ASSUME TypeOK, DriverInv, [Next]_vars,
         NEW o \in Ops, WorkerSteps(o) \/ ProviderSteps(o) \/ WorkerLost(o)
  PROVE  DriverInv'
<1> USE DEF DriverInv
<1>a. worker[o] # "none" /\ core = "up"
  BY DEF WorkerSteps, ProviderSteps, WorkerLost, MarkRunning, MarkRunningLost, UseCached,
         CompleteSuccess, PersistFailure, TerminalLost, WorkerInterrupted, SaveArtifact,
         GenerationFails, WorkerAt
<1>b. ~(starting.phase # "idle" /\ starting.op = o)
  BY <1>a DEF StartIsUnforked
<1>c. faults = 0 => Driven(o)
  BY <1>a DEF AllDriven
<1>d. worker \in [Ops -> WorkerStates] /\ rows[o].state \in RowStates
  BY DEF TypeOK, Row
<1>1. CASE MarkRunning(o)
  <2>1. OneRowGoes(o, "running") /\ rows[o].state = "accepted"
    BY <1>1, SettledGoes DEF MarkRunning, Wins
  <2>2. /\ worker' = [worker EXCEPT ![o] = "generating"]
        /\ UNCHANGED <<core, interrupted, starting, cancelling, faults>>
    BY <1>1 DEF MarkRunning, counters
  <2>3. (core = "up" /\ faults' = 0) => Driven(o)'
    BY <1>b, <1>c, <1>d, <2>1, <2>2 DEF Driven, OneRowGoes
  <2> QED BY <1>a, <2>1, <2>2, <2>3, FiberKeepsDriver DEF OneRowGoes, WorkerStates
<1>2. CASE UseCached(o) \/ SaveArtifact(o) \/ GenerationFails(o)
  <2>1. \E place \in {"saved", "failing"} : worker' = [worker EXCEPT ![o] = place]
    BY <1>2 DEF UseCached, SaveArtifact, GenerationFails
  <2>2. rows' = rows /\ UNCHANGED <<core, interrupted, starting, cancelling, faults>>
    BY <1>2 DEF UseCached, SaveArtifact, GenerationFails, durable, counters
  <2>3. worker[o] = "generating"
    BY <1>2 DEF UseCached, SaveArtifact, GenerationFails, WorkerAt
  <2>4. (core = "up" /\ faults' = 0) => Driven(o)'
    BY <1>b, <1>c, <1>d, <2>1, <2>2, <2>3 DEF Driven
  <2> QED BY <1>a, <2>1, <2>2, <2>4, FiberKeepsDriver DEF WorkerStates
<1>3. ASSUME WorkerEnds(o), UNCHANGED <<core, starting, cancelling>>,
             faults' = 0 => faults = 0,
             \A p \in Ops \ {o} : rows'[p] = rows[p],
             faults' = 0 => rows'[o].state \notin Active
      PROVE  DriverInv'
  <2>1. /\ worker' = [worker EXCEPT ![o] = "none"]
        /\ interrupted' = interrupted \ {o}
    BY <1>3 DEF WorkerEnds
  <2>2. (core = "up" /\ faults' = 0) => Driven(o)'
    BY <1>3 DEF Driven
  <2> QED BY <1>a, <1>3, <2>1, <2>2, FiberKeepsDriver DEF WorkerStates
<1>4. CASE CompleteSuccess(o)
  <2>1. OneRowGoes(o, "completed")
    BY <1>4, SettledGoes DEF CompleteSuccess
  <2>2. WorkerEnds(o) /\ UNCHANGED <<core, starting, cancelling, faults>>
    BY <1>4 DEF CompleteSuccess, counters
  <2> QED BY <2>1, <2>2, <1>3 DEF OneRowGoes
<1>5. CASE PersistFailure(o)
  <2>1. OneRowGoes(o, "failed")
    BY <1>5, SettledGoes DEF PersistFailure
  <2>2. WorkerEnds(o) /\ UNCHANGED <<core, starting, cancelling, faults>>
    BY <1>5 DEF PersistFailure, counters
  <2> QED BY <2>1, <2>2, <1>3 DEF OneRowGoes
<1>6. CASE MarkRunningLost(o) \/ TerminalLost(o) \/ WorkerInterrupted(o)
  <2>1. rows' = rows /\ WorkerEnds(o) /\ UNCHANGED <<core, starting, cancelling, faults>>
    BY <1>6 DEF MarkRunningLost, TerminalLost, WorkerInterrupted, durable, counters
  <2>2. rows[o].state = "accepted" => Wins(o, 1, {"accepted"})
    BY DEF ActiveVersions, Wins
  <2>3. rows[o].state = "running" => Wins(o, 2, {"running"}) /\ Wins(o, 2, Active)
    BY DEF ActiveVersions, Wins
  <2>4. faults = 0 => rows[o].state \notin Active
    <3>1. CASE MarkRunningLost(o)
      BY <3>1, <1>b, <1>c, <2>2 DEF MarkRunningLost, WorkerAt, Driven
    <3>2. CASE TerminalLost(o)
      BY <3>2, <1>b, <1>c, <2>3 DEF TerminalLost, WorkerAt, Driven
    <3>3. CASE WorkerInterrupted(o)
      BY <3>3, <1>b, <1>c DEF WorkerInterrupted, Driven
    <3> QED BY <1>6, <3>1, <3>2, <3>3
  <2> QED BY <2>1, <2>4, <1>3
<1>7. CASE WorkerLost(o)
  <2>1. rows' = rows /\ WorkerEnds(o) /\ UNCHANGED <<core, starting, cancelling>>
    BY <1>7 DEF WorkerLost, durable
  <2>2. faults' # 0
    BY <1>7, BoundsAssumption DEF WorkerLost, TypeOK
  <2> QED BY <2>1, <2>2, <1>3
<1> QED BY <1>1, <1>2, <1>4, <1>5, <1>6, <1>7 DEF WorkerSteps, ProviderSteps

\* A start interrupts the worker of a superseded row, and forks the driver of its own.
LEMMA StartKeepsDriver ==
  ASSUME TypeOK, DriverInv, [Next]_vars, StartSteps
  PROVE  DriverInv'
<1> USE DEF DriverInv
<1>a. rows' = rows /\ UNCHANGED <<core, cancelling, faults>>
  BY DEF StartSteps, InterruptSuperseded, ForkWorker, durable, counters
<1>b. /\ starting.phase # "idle" /\ starting.op \in Ops
      /\ starting.phase = "superseding" => starting.prior \in Ops
  BY DEF StartSteps, InterruptSuperseded, ForkWorker, TypeOK
<1>c. CancelsAfterWinning' /\ ActiveVersions'
  BY <1>a DEF CancelsAfterWinning, ActiveVersions
<1>1. CASE InterruptSuperseded
  <2>1. /\ worker' = worker /\ starting' = [starting EXCEPT !.phase = "forking"]
        /\ starting.phase = "superseding"
        /\ interrupted' = interrupted \cup
             (IF worker[starting.prior] = "none" THEN {} ELSE {starting.prior})
    BY <1>1 DEF InterruptSuperseded
  <2>2. /\ starting'.phase = "forking" /\ starting'.op = starting.op
        /\ starting'.prior = starting.prior
    BY <2>1 DEF TypeOK
  <2>3. rows[starting.prior].state = "superseded"
    BY <1>b, <2>1 DEF StartIsUnforked
  <2>4. FibersAreOfRows' /\ StartIsUnforked'
    BY <1>a, <1>b, <2>1, <2>2 DEF FibersAreOfRows, StartIsUnforked, Exists
  <2>5. AllDriven'
    BY <1>a, <1>b, <2>1, <2>2, <2>3 DEF AllDriven, Driven
  <2> QED BY <1>c, <2>4, <2>5
<1>2. CASE ForkWorker
  <2>1. /\ worker' = [worker EXCEPT ![starting.op] = "starting"]
        /\ interrupted' = interrupted /\ starting' = NotStarting
    BY <1>2 DEF ForkWorker
  <2>2. starting.op \notin interrupted /\ worker[starting.op] = "none" /\ Exists(starting.op)
    BY <1>b DEF FibersAreOfRows, StartIsUnforked
  <2>3. \A o \in Ops : worker'[o] = IF o = starting.op THEN "starting" ELSE worker[o]
    BY <2>1, <1>b DEF TypeOK
  <2>4. FibersAreOfRows' /\ StartIsUnforked'
    BY <1>a, <2>1, <2>2, <2>3 DEF FibersAreOfRows, StartIsUnforked, NotStarting, Exists
  <2>5. AllDriven'
    BY <1>a, <1>b, <2>1, <2>2, <2>3 DEF AllDriven, Driven
  <2> QED BY <1>c, <2>4, <2>5
<1> QED BY <1>1, <1>2 DEF StartSteps
\* A cancellation interrupts the worker of a row that its transition has settled.
LEMMA CancelKeepsDriver ==
  ASSUME TypeOK, DriverInv, [Next]_vars,
         NEW c \in Cancellers, CancelSteps(c) \/ \E o \in Ops : CancelRead(c, o)
  PROVE  DriverInv'
<1> USE DEF DriverInv
<1>a. UNCHANGED <<core, worker, starting, faults>>
  BY DEF CancelSteps, CancelRead, RequestCancellation, CancellationLost, InterruptCancelled,
         CancelReturns, counters
<1>b. ActiveVersions'
  BY RowsGoOn
<1>c. StartIsUnforked'
  BY <1>a, RowsGoOn DEF StartIsUnforked, TypeOK
<1>d. \A d \in Cancellers \ {c} : cancelling'[d] = cancelling[d]
  BY DEF CancelSteps, CancelRead, RequestCancellation, CancellationLost, InterruptCancelled,
         CancelReturns, TypeOK
<1>1. ASSUME rows' = rows, interrupted' = interrupted, cancelling'[c].phase # "interrupting"
      PROVE  DriverInv'
  <2>1. CancelsAfterWinning'
    BY <1>1, <1>d DEF CancelsAfterWinning
  <2>2. FibersAreOfRows' /\ AllDriven'
    BY <1>1, <1>a DEF FibersAreOfRows, Exists, AllDriven, Driven
  <2> QED BY <1>b, <1>c, <2>1, <2>2
<1>2. CASE \/ \E o \in Ops : CancelRead(c, o)
           \/ CancellationLost(c) \/ CancelReturns(c)
  <2>1. rows' = rows /\ interrupted' = interrupted
    BY <1>2 DEF CancelRead, CancellationLost, CancelReturns, durable
  <2>2. cancelling'[c].phase # "interrupting"
    BY <1>2 DEF CancelRead, CancellationLost, CancelReturns, NotCancelling, TypeOK
  <2> QED BY <2>1, <2>2, <1>1
<1>3. CASE RequestCancellation(c)
  <2>1. cancelling[c].op \in Ops
    BY <1>3 DEF RequestCancellation, TypeOK
  <2>2. OneRowGoes(cancelling[c].op, "cancelled")
    BY <1>3, <2>1, SettledGoes DEF RequestCancellation
  <2>3. cancelling'[c].op = cancelling[c].op /\ interrupted' = interrupted
    BY <1>3 DEF RequestCancellation, TypeOK
  <2>4. CancelsAfterWinning'
    BY <1>d, <2>1, <2>2, <2>3, RowsGoOn DEF CancelsAfterWinning, OneRowGoes, TypeOK
  <2>5. FibersAreOfRows'
    BY <1>a, <2>3, RowsGoOn DEF FibersAreOfRows
  <2>6. AllDriven'
    BY <1>a, <2>1, <2>2, <2>3 DEF AllDriven, Driven, OneRowGoes
  <2> QED BY <1>b, <1>c, <2>4, <2>5, <2>6
<1>4. CASE InterruptCancelled(c)
  <2>1. /\ cancelling[c].op \in Ops /\ rows[cancelling[c].op].state \in Terminal
        /\ rows' = rows
        /\ interrupted' = interrupted \cup
             (IF worker[cancelling[c].op] = "none" THEN {} ELSE {cancelling[c].op})
        /\ cancelling'[c].phase = "awaiting"
    BY <1>4 DEF InterruptCancelled, CancelsAfterWinning, durable, TypeOK
  <2>2. CancelsAfterWinning'
    BY <1>d, <2>1 DEF CancelsAfterWinning
  <2>3. FibersAreOfRows'
    BY <1>a, <2>1 DEF FibersAreOfRows, Exists
  <2>4. AllDriven'
    BY <1>a, <2>1 DEF AllDriven, Driven
  <2> QED BY <1>b, <1>c, <2>2, <2>3, <2>4
<1> QED BY <1>2, <1>3, <1>4 DEF CancelSteps

\* The death of a process empties its memory; a startup admits requests with nothing active.
LEMMA ProcessKeepsDriver ==
  ASSUME TypeOK, DriverInv, [Next]_vars, Crash \/ Recovery \/ UNCHANGED vars
  PROVE  DriverInv'
<1> USE DEF DriverInv
<1>a. ActiveVersions'
  BY RowsGoOn
<1>1. ASSUME LoseMemory PROVE DriverInv'
  <2>1. /\ core' = "down" /\ interrupted' = {} /\ starting' = NotStarting
        /\ worker' = [o \in Ops |-> "none"]
        /\ cancelling' = [c \in Cancellers |-> NotCancelling]
    BY <1>1 DEF LoseMemory
  <2> QED BY <1>a, <2>1 DEF FibersAreOfRows, StartIsUnforked, CancelsAfterWinning, AllDriven,
                            NotStarting, NotCancelling
<1>2. ASSUME UNCHANGED <<worker, interrupted, starting, cancelling>>, AllDriven'
      PROVE  DriverInv'
  <2>1. FibersAreOfRows' /\ CancelsAfterWinning'
    BY <1>2, RowsGoOn DEF FibersAreOfRows, CancelsAfterWinning, TypeOK
  <2>2. StartIsUnforked'
    BY <1>2, RowsGoOn DEF StartIsUnforked, TypeOK
  <2> QED BY <1>a, <1>2, <2>1, <2>2
<1>3. CASE Crash \/ \E o \in Ops : ReconcileFails(o)
  BY <1>1, <1>3 DEF Crash, ReconcileFails
<1>4. CASE Restart \/ \E o \in Ops : ReconcileSaved(o)
  <2>1. UNCHANGED <<worker, interrupted, starting, cancelling>> /\ core' # "up"
    BY <1>4 DEF Restart, ReconcileSaved, volatile
  <2> QED BY <1>2, <2>1 DEF AllDriven
<1>5. CASE RecoverInterrupted
  <2>1. UNCHANGED <<worker, interrupted, starting, cancelling>>
    BY <1>5 DEF RecoverInterrupted, volatile
  <2>2. \A o \in Ops : rows'[o].state \notin Active
    BY <1>5, SettledRow DEF RecoverInterrupted, IsActive, TypeOK
  <2> QED BY <1>2, <2>1, <2>2 DEF AllDriven, Driven
<1>6. CASE UNCHANGED vars
  <2>1. UNCHANGED <<rows, core, worker, interrupted, starting, cancelling, faults>>
    BY <1>6 DEF vars, durable, volatile, counters
  <2> QED BY <1>2, <2>1 DEF AllDriven, Driven
<1> QED BY <1>3, <1>4, <1>5, <1>6 DEF Recovery

LEMMA NextDriver == TypeOK /\ DriverInv /\ [Next]_vars => DriverInv'
BY AcceptKeepsDriver, WorkerKeepsDriver, StartKeepsDriver, CancelKeepsDriver,
   ProcessKeepsDriver DEF Next

\* However the clock runs: while Core admits requests and no worker was lost, every active
\* operation has its driver, and nobody has interrupted it.
THEOREM ActiveHasDriver == Spec => []ActiveIsDriven
<1>1. TypeOK /\ DriverInv /\ [Next]_vars => TypeOK' /\ DriverInv'
  BY NextTypeOK, NextDriver
<1>2. DriverInv => ActiveIsDriven
  BY DEF DriverInv, AllDriven, Driven, ActiveIsDriven
<1> QED BY <1>1, <1>2, InitTypeOK, InitDriver, PTL DEF Spec
-----------------------------------------------------------------------------
(* A generation has one worker, and it works on the last operation *)

\* A fiber works on the last operation of its generation, or on the one that a start is
\* replacing and whose end it awaits.
WorkIsNewest ==
  \A o \in Ops :
    worker[o] # "none" => Newest(o) \/ (starting.phase # "idle" /\ starting.prior = o)

\* The start inside the semaphore holds the last operation of its generation, which at most a
\* cancellation has settled.
StartIsNewest ==
  starting.phase # "idle" =>
    /\ core = "up" /\ Newest(starting.op)
    /\ rows[starting.op].state \in {"accepted", "cancelled"}
    /\ starting.prior # NoOp => rows[starting.prior].identity = rows[starting.op].identity

NewestInv == WorkIsNewest /\ StartIsNewest

\* The induction hypothesis of every step below.
Latest == TypeOK /\ DriverInv /\ History /\ NewestInv

\* A step that advances the rows, forks nothing and only moves the start on.
LEMMA AdvanceKeepsNewestInv ==
  ASSUME Latest, Advances,
         \A o \in Ops : worker'[o] # "none" => worker[o] # "none",
         starting'.phase = "idle" <=> starting.phase = "idle",
         starting'.op = starting.op, starting'.prior = starting.prior,
         starting.phase # "idle" =>
           /\ core' = "up"
           /\ rows'[starting.op].state \in {"accepted", "cancelled"}
  PROVE  NewestInv'
<1>1. WorkIsNewest'
  BY AdvancesKeepsNewest DEF Latest, NewestInv, WorkIsNewest
<1>2. StartIsNewest'
  <2> SUFFICES ASSUME starting'.phase # "idle"
               PROVE  /\ core' = "up" /\ Newest(starting.op)'
                      /\ rows'[starting'.op].state \in {"accepted", "cancelled"}
                      /\ starting'.prior # NoOp =>
                           rows'[starting'.prior].identity = rows'[starting'.op].identity
    BY DEF StartIsNewest
  <2>1. /\ starting.phase # "idle" /\ starting.op \in Ops /\ starting.prior \in Ops \cup {NoOp}
        /\ Newest(starting.op)
        /\ starting.prior # NoOp => rows[starting.prior].identity = rows[starting.op].identity
    BY DEF Latest, TypeOK, NewestInv, StartIsNewest
  <2>2. Newest(starting.op)'
    BY <2>1, AdvancesKeepsNewest DEF Newest
  <2>3. starting'.prior # NoOp =>
           rows'[starting'.prior].identity = rows'[starting'.op].identity
    BY <2>1 DEF Advances
  <2> QED BY <2>1, <2>2, <2>3
<1> QED BY <1>1, <1>2 DEF NewestInv

\* The row that a start inserts becomes the last of its generation; the worker of the one it
\* replaces is the one it awaits.
LEMMA AcceptKeepsNewestInv ==
  ASSUME Latest, ~ClockMayStepBack, [Next]_vars, Accept
  PROVE  NewestInv'
<1> USE DEF Latest
<1>1. ASSUME NEW o \in Ops, NEW e \in Evidence, AcceptAttach(o, e) PROVE NewestInv'
  <2>1. UNCHANGED <<worker, starting>> /\ starting.phase = "idle"
    BY <1>1 DEF AcceptAttach, CanStart, volatile
  <2> QED BY <1>1, <2>1, AttachAdvances, AdvanceKeepsNewestInv
<1>2. ASSUME NEW o \in Ops, NEW i \in Identities, NEW e \in Evidence,
             NEW t \in 1 .. MaxClock, AcceptFirst(o, i, e, t)
      PROVE  NewestInv'
  <2>1. Opens(o, i)
    BY <1>2, FirstOpens
  <2>2. /\ worker' = worker /\ core' = "up" /\ starting.phase = "idle"
        /\ starting'.phase # "idle" /\ starting'.op = o /\ starting'.prior = NoOp
    BY <1>2 DEF AcceptFirst, CanStart
  <2>3. \A p \in Ops : /\ p # o => rows'[p] = rows[p]
                       /\ Exists(p) => p < o /\ rows[p].identity # i
                       /\ Exists(p)' <=> (Exists(p) \/ p = o)
    BY <2>1, NextOpIsAbove DEF Opens, Exists, History, ExactOps
  <2>4. rows'[o].state = "accepted" /\ rows'[o].identity = i
    BY <2>1 DEF Opens
  <2>5. Newest(o)' /\ \A p \in Ops : Newest(p) => Newest(p)'
    BY <2>3, <2>4 DEF Newest
  <2> QED BY <2>2, <2>4, <2>5 DEF NewestInv, WorkIsNewest, StartIsNewest, Newest
<1>3. ASSUME NEW o \in Ops, NEW prior \in Ops, NEW i \in Identities, NEW e \in Evidence,
             NEW t \in 1 .. MaxClock, AcceptRegeneration(o, prior, i, e, t)
      PROVE  NewestInv'
  <2>1. Replaces(o, prior, i)
    BY <1>3, RegenerationReplaces
  <2>2. /\ worker' = worker /\ core' = "up" /\ starting.phase = "idle"
        /\ starting'.phase # "idle" /\ starting'.op = o /\ starting'.prior = prior
    BY <1>3 DEF AcceptRegeneration, CanStart
  <2>3. Newest(prior) /\ rows[prior].identity = i
    BY <2>1, LatestIsNewest DEF Replaces, History
  <2>4. \A p \in Ops : /\ p # o => rows'[p].identity = rows[p].identity
                       /\ Exists(p) => p < o
                       /\ Exists(p)' <=> (Exists(p) \/ p = o)
    BY <2>1, NextOpIsAbove DEF Replaces, Exists, History
  <2>5. /\ rows'[o].state = "accepted" /\ rows'[o].identity = i
        /\ rows'[prior].identity = i /\ prior # NoOp
    BY <2>1 DEF Replaces
  <2>6. Newest(o)' /\ \A p \in Ops : (Newest(p) /\ p # prior) => Newest(p)'
    BY <2>3, <2>4, <2>5 DEF Newest
  <2> QED BY <2>2, <2>5, <2>6 DEF NewestInv, WorkIsNewest, StartIsNewest, Newest
<1> QED BY <1>1, <1>2, <1>3 DEF Accept

\* The semaphore is released when the worker of the replaced operation has ended.
LEMMA StartKeepsNewestInv ==
  ASSUME Latest, [Next]_vars, StartSteps
  PROVE  NewestInv'
<1> USE DEF Latest
<1>a. rows' = rows /\ core' = core /\ core = "up"
  BY DEF StartSteps, InterruptSuperseded, ForkWorker, durable
<1>b. \A o \in Ops : Newest(o)' <=> Newest(o)
  BY <1>a DEF Newest, Exists
<1>1. CASE InterruptSuperseded
  <2>1. worker' = worker /\ starting' = [starting EXCEPT !.phase = "forking"]
        /\ starting.phase = "superseding"
    BY <1>1 DEF InterruptSuperseded
  <2>2. /\ starting'.phase = "forking" /\ starting'.op = starting.op
        /\ starting'.prior = starting.prior
    BY <2>1 DEF TypeOK
  <2>3. rows[starting.op].state \in {"accepted", "cancelled"}
    BY <2>1 DEF NewestInv, StartIsNewest
  <2> QED BY <1>a, <2>1, <2>2, <2>3, UnchangedAdvances, AdvanceKeepsNewestInv
<1>2. CASE ForkWorker
  <2>1. /\ starting.phase # "idle" /\ starting.op \in Ops
        /\ worker' = [worker EXCEPT ![starting.op] = "starting"]
        /\ starting' = NotStarting
        /\ starting.prior # NoOp => worker[starting.prior] = "none"
    BY <1>2 DEF ForkWorker, TypeOK
  <2>2. Newest(starting.op)
    BY <2>1 DEF NewestInv, StartIsNewest
  <2>3. \A o \in Ops : worker'[o] # "none" => Newest(o)
    BY <2>1, <2>2 DEF NewestInv, WorkIsNewest, TypeOK
  <2> QED BY <1>b, <2>1, <2>3 DEF NewestInv, WorkIsNewest, StartIsNewest, NotStarting
<1> QED BY <1>1, <1>2 DEF StartSteps

LEMMA NextNewestInv ==
  ASSUME Latest, ~ClockMayStepBack, [Next]_vars
  PROVE  NewestInv'
<1> USE DEF Latest
<1>a. starting.phase # "idle" =>
        /\ core = "up" /\ starting.op \in Ops /\ worker[starting.op] = "none"
        /\ rows[starting.op].state \in {"accepted", "cancelled"}
  BY DEF NewestInv, StartIsNewest, DriverInv, StartIsUnforked, TypeOK
<1>1. CASE Accept
  BY <1>1, AcceptKeepsNewestInv
<1>2. CASE StartSteps
  BY <1>2, StartKeepsNewestInv
<1>3. ASSUME NEW o \in Ops, WorkerSteps(o) \/ ProviderSteps(o) \/ WorkerLost(o), ~Accept
      PROVE  NewestInv'
  <2>1. worker[o] # "none" /\ UNCHANGED <<core, starting>>
    BY <1>3 DEF WorkerSteps, ProviderSteps, WorkerLost, MarkRunning, MarkRunningLost,
         UseCached, CompleteSuccess, PersistFailure, TerminalLost, WorkerInterrupted,
         SaveArtifact, GenerationFails, WorkerAt
  <2>2. \A p \in Ops : worker'[p] # "none" => worker[p] # "none"
    BY <1>3, <2>1 DEF WorkerSteps, ProviderSteps, WorkerLost, MarkRunning, MarkRunningLost,
         UseCached, CompleteSuccess, PersistFailure, TerminalLost, WorkerInterrupted,
         SaveArtifact, GenerationFails, WorkerEnds, TypeOK
  <2>3. \A p \in Ops \ {o} : rows'[p] = rows[p]
    BY <1>3 DEF WorkerSteps, ProviderSteps, WorkerLost, MarkRunning, MarkRunningLost,
         UseCached, CompleteSuccess, PersistFailure, TerminalLost, WorkerInterrupted,
         SaveArtifact, GenerationFails, durable, TypeOK
  <2> QED BY <1>a, <1>3, <2>1, <2>2, <2>3, OthersAdvance, AdvanceKeepsNewestInv
<1>4. ASSUME NEW c \in Cancellers, CancelSteps(c) \/ \E o \in Ops : CancelRead(c, o), ~Accept
      PROVE  NewestInv'
  <2>1. UNCHANGED <<core, worker, starting>>
    BY <1>4 DEF CancelSteps, CancelRead, RequestCancellation, CancellationLost,
         InterruptCancelled, CancelReturns
  <2>2. \A p \in Ops : rows'[p].state \in {rows[p].state, "cancelled"}
    <3>1. CASE RequestCancellation(c)
      <4>1. cancelling[c].op \in Ops
        BY <3>1 DEF RequestCancellation, TypeOK
      <4> QED BY <3>1, <4>1, SettledGoes DEF RequestCancellation, OneRowGoes
    <3>2. CASE ~RequestCancellation(c)
      BY <1>4, <3>2 DEF CancelSteps, CancelRead, CancellationLost, InterruptCancelled,
         CancelReturns, durable
    <3> QED BY <3>1, <3>2
  <2> QED BY <1>a, <1>4, <2>1, <2>2, OthersAdvance, AdvanceKeepsNewestInv
<1>5. ASSUME LoseMemory PROVE NewestInv'
  BY <1>5 DEF LoseMemory, NewestInv, WorkIsNewest, StartIsNewest, NotStarting
<1>6. ASSUME UNCHANGED <<worker, starting>>, starting.phase = "idle", ~Accept PROVE NewestInv'
  BY <1>6, OthersAdvance, AdvanceKeepsNewestInv
<1>7. CASE (Crash \/ Recovery) /\ ~Accept
  <2>1. CASE Crash \/ \E o \in Ops : ReconcileFails(o)
    BY <2>1, <1>5 DEF Crash, ReconcileFails
  <2>2. CASE Restart \/ RecoverInterrupted \/ \E o \in Ops : ReconcileSaved(o)
    <3>1. UNCHANGED <<worker, starting>> /\ core # "up"
      BY <2>2 DEF Restart, RecoverInterrupted, ReconcileSaved, volatile
    <3> QED BY <1>a, <1>6, <1>7, <3>1
  <2> QED BY <1>7, <2>1, <2>2 DEF Recovery
<1>8. CASE UNCHANGED vars
  <2>1. UNCHANGED <<rows, core, worker, starting>>
    BY <1>8 DEF vars, durable, volatile
  <2> QED BY <1>a, <2>1, UnchangedAdvances, AdvanceKeepsNewestInv
<1> QED BY <1>1, <1>2, <1>3, <1>4, <1>7, <1>8 DEF Next

LEMMA LatestInvariant == ~ClockMayStepBack => (Spec => []Latest)
<1> SUFFICES ASSUME ~ClockMayStepBack PROVE Spec => []Latest
  OBVIOUS
<1>1. Init => Latest
  <2> SUFFICES ASSUME Init PROVE NewestInv
    BY InitTypeOK, InitDriver, InitHistory DEF Latest
  <2>1. starting = NotStarting /\ worker = [o \in Ops |-> "none"]
    BY Zenon DEF Init
  <2> QED BY <2>1 DEF NewestInv, WorkIsNewest, StartIsNewest, NotStarting
<1>2. Latest /\ [Next]_vars => Latest'
  BY NextTypeOK, NextDriver, NextHistory, NextNewestInv DEF Latest
<1> QED BY <1>1, <1>2, PTL DEF Spec

LEMMA LatestIsSole == Latest => SoleGenerator
<1> SUFFICES ASSUME Latest, NEW o \in Ops, NEW p \in Ops, o # p,
                    worker[o] # "none", worker[p] # "none",
                    rows[o].identity = rows[p].identity
             PROVE  FALSE
  BY DEF SoleGenerator
<1>1. ~(Newest(o) /\ Newest(p))
  BY DEF Newest
<1>2. \A q \in {o, p} : Newest(q) \/ (starting.phase # "idle" /\ starting.prior = q)
  BY DEF Latest, NewestInv, WorkIsNewest
<1>3. /\ starting.phase # "idle" /\ starting.prior \in {o, p}
      /\ Newest(o) \/ Newest(p)
  BY <1>1, <1>2
<1>4. /\ Newest(starting.op) /\ worker[starting.op] = "none" /\ starting.op \in Ops
      /\ rows[starting.op].identity = rows[o].identity
  BY <1>3 DEF Latest, NewestInv, StartIsNewest, DriverInv, StartIsUnforked, TypeOK
<1>5. Newest(o) => o = starting.op
  BY <1>4 DEF Newest
<1>6. Newest(p) => p = starting.op
  BY <1>4 DEF Newest
<1> QED BY <1>3, <1>4, <1>5, <1>6

\* While the clock does not step back, a generation has one active operation, which a start
\* finds, which one worker drives, and no other worker generates for it.
THEOREM GenerationHasDriver == ~ClockMayStepBack => (Spec => []GenerationIsDriven)
<1> SUFFICES ASSUME ~ClockMayStepBack PROVE Spec => []GenerationIsDriven
  OBVIOUS
<1>1. Latest => ActiveIsLatest
  BY NewestIsLatest
     DEF Latest, History, OlderIsSuperseded, ActiveIsLatest, IsActive, Exists
<1>2. Latest => ActiveIsDriven
  BY DEF Latest, DriverInv, AllDriven, Driven, ActiveIsDriven
<1>3. Latest => GenerationIsDriven
  BY <1>1, <1>2, LatestIsSole DEF GenerationIsDriven
<1> QED BY <1>3, LatestInvariant, PTL
-----------------------------------------------------------------------------
(* A completed regeneration is fresh, where no process dies *)

\* What a regeneration has saved, or completed with, is its own content.
OwnContent ==
  \A o \in Ops :
    (Regenerates(o) /\ (worker[o] = "saved" \/ rows[o].state = "completed"))
      => artifact[rows[o].identity] = o

\* A process that has not admitted requests yet finds rows of older versions only.
StartsWithOldRows == core # "up" => \A o \in Ops : rows[o].evidence = NoEvidence

FreshInv == OwnContent /\ StartsWithOldRows

\* Attaching to a row makes no regeneration of it.
LEMMA OthersStartNoRegeneration ==
  ASSUME TypeOK, [Next]_vars, ~Accept \/ \E o \in Ops, e \in Evidence : AcceptAttach(o, e)
  PROVE  \A p \in Ops : Regenerates(p)' => Regenerates(p)
<1>1. CASE ~Accept
  BY <1>1, OthersKeepEvidence DEF Regenerates
<1>2. ASSUME NEW o \in Ops, NEW e \in Evidence, AcceptAttach(o, e)
      PROVE  \A p \in Ops : Regenerates(p)' => Regenerates(p)
  <2>1. ~e.regenerate
    BY <1>2 DEF AcceptAttach
  <2> QED BY <1>2, <2>1, AttachRecords DEF Regenerates
<1> QED BY <1>1, <1>2

\* A step that saves nothing, and completes only what was saved.
LEMMA QuietKeepsContent ==
  ASSUME OwnContent, artifact' = artifact, Advances,
         \A p \in Ops : Regenerates(p)' => Regenerates(p),
         \A p \in Ops : (Regenerates(p) /\ worker'[p] = "saved") => worker[p] = "saved",
         \A p \in Ops : (Regenerates(p) /\ rows'[p].state = "completed") =>
                          rows[p].state = "completed" \/ worker[p] = "saved"
  PROVE  OwnContent'
BY DEF OwnContent, Advances

\* Nobody completed waits while another fiber of its generation is at work.
LEMMA WorkerWritesAlone ==
  ASSUME Latest, NEW o \in Ops, worker[o] = "generating", NEW p \in Ops, p # o,
         worker[p] = "saved" \/ rows[p].state = "completed"
  PROVE  rows[p].identity # rows[o].identity
<1> SUFFICES ASSUME rows[p].identity = rows[o].identity PROVE FALSE
  OBVIOUS
<1>1. rows[p].state = "completed"
  BY LatestIsSole DEF SoleGenerator
<1>2. Newest(p)
  BY <1>1 DEF Latest, History, OlderIsSuperseded, Exists
<1>3. ~Newest(o)
  BY <1>2 DEF Newest
<1>4. starting.phase # "idle" /\ starting.prior = o
  BY <1>3 DEF Latest, NewestInv, WorkIsNewest
<1>5. /\ starting.op \in Ops /\ Newest(starting.op)
      /\ rows[starting.op].identity = rows[p].identity
      /\ rows[starting.op].state # "completed"
  BY <1>4 DEF Latest, NewestInv, StartIsNewest, TypeOK
<1>6. starting.op = p
  BY <1>2, <1>5 DEF Newest
<1> QED BY <1>1, <1>5, <1>6

LEMMA AcceptKeepsContent ==
  ASSUME Latest, FreshInv, [Next]_vars, Accept
  PROVE  OwnContent'
<1> USE DEF FreshInv
<1>a. TypeOK
  BY DEF Latest
<1>1. ASSUME NEW o \in Ops, NEW e \in Evidence, AcceptAttach(o, e) PROVE OwnContent'
  <2>1. Advances /\ \A p \in Ops : Regenerates(p)' => Regenerates(p)
    BY <1>1, <1>a, AttachAdvances, OthersStartNoRegeneration
  <2>2. \A p \in Ops : rows'[p].state = "completed" => rows[p].state = "completed"
    <3>1. [rows[o] EXCEPT !.evidence = e].state = rows[o].state
      BY <1>a DEF TypeOK, Row
    <3> QED BY <1>1, <1>a, <3>1 DEF AcceptAttach, TypeOK
  <2>3. artifact' = artifact /\ worker' = worker
    BY <1>1 DEF AcceptAttach, volatile
  <2> QED BY <2>1, <2>2, <2>3, QuietKeepsContent
<1>2. ASSUME NEW o \in Ops, ~Exists(o), rows'[o].state # "completed",
             UNCHANGED <<artifact, worker>>,
             \A p \in Ops \ {o} : /\ rows'[p].evidence = rows[p].evidence
                                  /\ rows'[p].identity = rows[p].identity
                                  /\ rows'[p].state \in {rows[p].state, "superseded"}
      PROVE  OwnContent'
  <2>1. worker[o] = "none"
    BY <1>2 DEF Latest, DriverInv, FibersAreOfRows
  <2> QED BY <1>2, <2>1 DEF OwnContent, Regenerates
<1>3. ASSUME NEW o \in Ops, NEW i \in Identities, NEW e \in Evidence,
             NEW t \in 1 .. MaxClock, AcceptFirst(o, i, e, t)
      PROVE  OwnContent'
  <2>1. Opens(o, i) /\ UNCHANGED <<artifact, worker>>
    BY <1>3, <1>a, FirstOpens DEF AcceptFirst
  <2> QED BY <2>1, <1>2 DEF Opens
<1>4. ASSUME NEW o \in Ops, NEW prior \in Ops, NEW i \in Identities, NEW e \in Evidence,
             NEW t \in 1 .. MaxClock, AcceptRegeneration(o, prior, i, e, t)
      PROVE  OwnContent'
  <2>1. Replaces(o, prior, i) /\ UNCHANGED <<artifact, worker>>
    BY <1>4, <1>a, RegenerationReplaces DEF AcceptRegeneration
  <2>2. \A p \in Ops \ {o} : rows'[p].evidence = rows[p].evidence
    BY <1>4, <1>a, RegenerationRecords
  <2> QED BY <2>1, <2>2, <1>2 DEF Replaces
<1> QED BY <1>1, <1>3, <1>4 DEF Accept

LEMMA NextContent ==
  ASSUME Latest, FreshInv, [Next]_vars, MaxCrashes = 0
  PROVE  OwnContent'
<1> USE DEF FreshInv
<1>a. TypeOK
  BY DEF Latest
<1>1. CASE Accept
  BY <1>1, AcceptKeepsContent
<1>b. ASSUME ~Accept PROVE Advances /\ \A p \in Ops : Regenerates(p)' <=> Regenerates(p)
  BY <1>b, <1>a, OthersAdvance, OthersKeepEvidence DEF Regenerates
<1>2. ASSUME NEW o \in Ops, SaveArtifact(o), ~Accept PROVE OwnContent'
  <2>1. /\ worker[o] = "generating" /\ rows' = rows
        /\ artifact' = [artifact EXCEPT ![rows[o].identity] = o]
        /\ \A p \in Ops \ {o} : worker'[p] = worker[p]
    BY <1>2, <1>a DEF SaveArtifact, WorkerAt, TypeOK
  <2>2. rows[o].identity \in Identities /\ artifact \in [Identities -> ArtifactSources]
    BY <1>a DEF TypeOK, Row
  <2>3. ASSUME NEW p \in Ops, p # o, worker[p] = "saved" \/ rows[p].state = "completed"
        PROVE  artifact'[rows[p].identity] = artifact[rows[p].identity]
    BY <2>1, <2>2, <2>3, WorkerWritesAlone
  <2>4. artifact'[rows[o].identity] = o
    BY <2>1, <2>2
  <2> QED BY <1>2, <1>b, <2>1, <2>3, <2>4 DEF OwnContent
<1>3. ASSUME NEW o \in Ops, CompleteSuccess(o), ~Accept PROVE OwnContent'
  <2>1. OneRowGoes(o, "completed") /\ worker[o] = "saved" /\ artifact' = artifact
    BY <1>3, <1>a, SettledGoes DEF CompleteSuccess, WorkerAt
  <2>2. \A p \in Ops : worker'[p] = "saved" => worker[p] = "saved"
    BY <1>3, <1>a DEF CompleteSuccess, WorkerEnds, TypeOK
  <2> QED BY <1>3, <1>b, <2>1, <2>2, QuietKeepsContent DEF OneRowGoes
<1>4. ASSUME NEW o \in Ops, UseCached(o), ~Accept PROVE OwnContent'
  <2>1. rows' = rows /\ artifact' = artifact /\ ~Regenerates(o)
    BY <1>4 DEF UseCached, durable
  <2>2. \A p \in Ops \ {o} : worker'[p] = worker[p]
    BY <1>4, <1>a DEF UseCached, TypeOK
  <2> QED BY <1>4, <1>b, <2>1, <2>2, QuietKeepsContent
<1>5. ASSUME NEW o \in Ops, ReconcileSaved(o), ~Accept PROVE OwnContent'
  <2>1. OneRowGoes(o, "completed") /\ UNCHANGED <<artifact, worker>> /\ core # "up"
    BY <1>5, <1>a, SettledGoes DEF ReconcileSaved, volatile
  <2>2. \A p \in Ops : ~Regenerates(p)
    BY <2>1 DEF StartsWithOldRows, Regenerates
  <2> QED BY <1>5, <1>b, <2>1, <2>2, QuietKeepsContent
<1>6. ASSUME ~Accept, artifact' = artifact,
             \A p \in Ops : worker'[p] = "saved" => worker[p] = "saved",
             \A p \in Ops : rows'[p].state = "completed" => rows[p].state = "completed"
      PROVE  OwnContent'
  BY <1>6, <1>b, QuietKeepsContent
<1>7. ASSUME NEW o \in Ops, ~Accept,
             \/ MarkRunning(o) \/ MarkRunningLost(o) \/ GenerationFails(o) \/ PersistFailure(o)
             \/ TerminalLost(o) \/ WorkerInterrupted(o) \/ WorkerLost(o)
      PROVE  OwnContent'
  <2>1. artifact' = artifact /\ \A p \in Ops : worker'[p] = "saved" => worker[p] = "saved"
    BY <1>7, <1>a DEF MarkRunning, MarkRunningLost, GenerationFails, PersistFailure,
         TerminalLost, WorkerInterrupted, WorkerLost, WorkerEnds, durable, TypeOK
  <2>2. \/ rows' = rows
        \/ rows' = [rows EXCEPT ![o] = Settled(rows[o], "running")]
        \/ rows' = [rows EXCEPT ![o] = Settled(rows[o], "failed")]
    BY <1>7 DEF MarkRunning, MarkRunningLost, GenerationFails, PersistFailure,
         TerminalLost, WorkerInterrupted, WorkerLost, durable
  <2>3. \A p \in Ops : rows'[p].state = "completed" => rows[p].state = "completed"
    BY <2>2, <1>a, SettledGoes DEF OneRowGoes
  <2> QED BY <1>6, <1>7, <2>1, <2>3
<1>8. ASSUME NEW c \in Cancellers, CancelSteps(c) \/ \E o \in Ops : CancelRead(c, o), ~Accept
      PROVE  OwnContent'
  <2>1. UNCHANGED <<artifact, worker>>
    BY <1>8 DEF CancelSteps, CancelRead, RequestCancellation, CancellationLost,
         InterruptCancelled, CancelReturns, durable
  <2>2. \A p \in Ops : rows'[p].state = "completed" => rows[p].state = "completed"
    <3>1. CASE RequestCancellation(c)
      <4>1. cancelling[c].op \in Ops
        BY <3>1, <1>a DEF RequestCancellation, TypeOK
      <4> QED BY <3>1, <4>1, <1>a, SettledGoes DEF RequestCancellation, OneRowGoes
    <3>2. CASE ~RequestCancellation(c)
      BY <1>8, <3>2 DEF CancelSteps, CancelRead, CancellationLost, InterruptCancelled,
         CancelReturns, durable
    <3> QED BY <3>1, <3>2
  <2> QED BY <1>6, <1>8, <2>1, <2>2
<1>9. CASE StartSteps /\ ~Accept
  <2>1. UNCHANGED <<rows, artifact>>
    BY <1>9 DEF StartSteps, InterruptSuperseded, ForkWorker, durable
  <2>2. \A p \in Ops : worker'[p] = "saved" => worker[p] = "saved"
    BY <1>9, <1>a DEF StartSteps, InterruptSuperseded, ForkWorker, TypeOK
  <2> QED BY <1>6, <1>9, <2>1, <2>2
<1>10. CASE (Crash \/ Restart \/ \E o \in Ops : ReconcileFails(o)) /\ ~Accept
  <2>1. UNCHANGED <<rows, artifact>>
    BY <1>10 DEF Crash, Restart, ReconcileFails, durable
  <2>2. \A p \in Ops : worker'[p] = "saved" => worker[p] = "saved"
    BY <1>10 DEF Crash, Restart, ReconcileFails, LoseMemory, volatile
  <2> QED BY <1>6, <1>10, <2>1, <2>2
<1>11. CASE RecoverInterrupted /\ ~Accept
  <2>1. UNCHANGED <<artifact, worker>>
    BY <1>11 DEF RecoverInterrupted, volatile
  <2>2. \A p \in Ops : rows'[p].state = "completed" => rows[p].state = "completed"
    BY <1>11, <1>a, SettledRow DEF RecoverInterrupted, TypeOK
  <2> QED BY <1>6, <1>11, <2>1, <2>2
<1>12. CASE UNCHANGED vars /\ ~Accept
  BY <1>6, <1>12 DEF vars, durable, volatile
<1> QED BY <1>1, <1>2, <1>3, <1>4, <1>5, <1>7, <1>8, <1>9, <1>10, <1>11, <1>12
        DEF Next, WorkerSteps, ProviderSteps, Recovery

LEMMA NextStartsWithOldRows ==
  ASSUME TypeOK, StartsWithOldRows, [Next]_vars, MaxCrashes = 0
  PROVE  StartsWithOldRows'
<1>1. ~Crash
  BY BoundsAssumption DEF Crash, TypeOK
<1>2. CASE Accept
  <2>1. core' = core /\ core = "up"
    BY <1>2 DEF Accept, AcceptAttach, AcceptFirst, AcceptRegeneration, CanStart
  <2> QED BY <2>1 DEF StartsWithOldRows
<1>3. CASE ~Accept
  <2>1. core' # "up" => core # "up"
    BY <1>1, <1>3 DEF Next, StartSteps, WorkerSteps, ProviderSteps, CancelSteps, Recovery,
         InterruptSuperseded, ForkWorker, MarkRunning, MarkRunningLost, UseCached,
         CompleteSuccess, PersistFailure, TerminalLost, WorkerInterrupted, WorkerLost,
         SaveArtifact, GenerationFails, CancelRead, RequestCancellation, CancellationLost,
         InterruptCancelled, CancelReturns, Restart, ReconcileSaved, ReconcileFails,
         RecoverInterrupted, vars
  <2> QED BY <1>3, <2>1, OthersKeepEvidence DEF StartsWithOldRows
<1> QED BY <1>2, <1>3

\* Where no process dies and the clock does not step back, a completed regeneration is answered
\* with the walkthrough it generated.  A death breaks it: recovery completes a running
\* regeneration with the content it was to replace.
THEOREM RegenerationIsFresh ==
  (MaxCrashes = 0 /\ ~ClockMayStepBack) => (Spec => []CompletedRegenerationIsFresh)
<1> SUFFICES ASSUME MaxCrashes = 0, ~ClockMayStepBack
             PROVE  Spec => []CompletedRegenerationIsFresh
  OBVIOUS
<1>1. Init => FreshInv
  BY InitRows DEF FreshInv, OwnContent, StartsWithOldRows, Regenerates
<1>2. Latest /\ FreshInv /\ [Next]_vars => FreshInv'
  BY NextContent, NextStartsWithOldRows DEF FreshInv, Latest
<1>3. FreshInv => CompletedRegenerationIsFresh
  BY DEF FreshInv, OwnContent, CompletedRegenerationIsFresh
<1> QED BY <1>1, <1>2, <1>3, LatestInvariant, PTL DEF Spec
=============================================================================
