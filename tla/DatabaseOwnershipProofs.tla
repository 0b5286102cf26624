------------------------ MODULE DatabaseOwnershipProofs ------------------------
(***************************************************************************)
(* Theorems about DatabaseOwnership: the mutual exclusion of any number of *)
(* contenders until one of them dies, even over the stale record of an     *)
(* earlier run, and of two contenders whoever dies.                        *)
(* MCDatabaseOwnership_trio.cfg shows that one death among three refutes   *)
(* it.                                                                     *)
(***************************************************************************)
EXTENDS DatabaseOwnership, TLAPS

USE DEF GateCalls, OwnerCalls, ReleaseCalls, Calls, AfterGate, At, Go

\* Verdicts are verdicts, and death is never reported of a live process.
LEMMA DeathIsProved ==
  ASSUME NEW q
  PROVE  "dead" \in Verdicts(q) => q \notin alive
BY DEF Verdicts

-----------------------------------------------------------------------------
(* Type correctness *)

\* The files, the process states and the retry counters keep their types under every
\* interleaving and every death.
THEOREM TypeCorrect == Spec => []TypeOK
<1>1. Init => TypeOK
  BY ProcessesAssumption DEF Init, TypeOK
<1>2. TypeOK /\ [Next]_vars => TypeOK'
  <2> SUFFICES ASSUME TypeOK, [Next]_vars PROVE TypeOK'
    OBVIOUS
  <2>1. CASE UNCHANGED vars
    BY <2>1 DEF TypeOK, vars
  <2>2. ASSUME NEW p \in Processes, Begin(p) \/ Recovered(p) \/ Release(p) \/ Die(p)
        PROVE  TypeOK'
    BY <2>2, ProcessesAssumption DEF TypeOK, Begin, Recovered, Release, Die
  <2>3. ASSUME NEW p \in Processes, GateStep(p)
        PROVE  TypeOK'
    <3>1. CASE LinkGate(p)
      BY <3>1 DEF TypeOK, LinkGate
    <3>2. CASE AttemptsExhausted(p) \/ InspectGate(p)
      BY <3>2 DEF TypeOK, AttemptsExhausted, InspectGate, Fail
    <3>3. CASE ReadGate(p)
      BY <3>3 DEF TypeOK, ReadGate, Fail
    <3>4. CASE UnlinkGate(p)
      BY <3>4, ProcessesAssumption DEF TypeOK, UnlinkGate
    <3>5. CASE LeaveGate(p)
      BY <3>5 DEF TypeOK, LeaveGate
    <3> QED BY <2>3, <3>1, <3>2, <3>3, <3>4, <3>5 DEF GateStep
  <2>4. ASSUME NEW p \in Processes, OwnerStep(p)
        PROVE  TypeOK'
    <3>1. CASE LinkOwner(p) \/ RelinkOwner(p)
      BY <3>1 DEF TypeOK, LinkOwner, RelinkOwner
    <3>2. CASE ReadOwner(p)
      BY <3>2 DEF TypeOK, ReadOwner
    <3>3. CASE InspectOwner(p) \/ CheckOwner(p)
      BY <3>3 DEF TypeOK, InspectOwner, CheckOwner
    <3>4. CASE UnlinkOwner(p) \/ UnlinkOwn(p)
      BY <3>4 DEF TypeOK, UnlinkOwner, UnlinkOwn
    <3> QED BY <2>4, <3>1, <3>2, <3>3, <3>4 DEF OwnerStep
  <2> QED BY <2>1, <2>2, <2>3, <2>4 DEF Next
<1> QED BY <1>1, <1>2, PTL DEF Spec

-----------------------------------------------------------------------------
(* Any number of contenders, until one of them dies *)

Contenders == Processes \ Departed

NoneDied == Contenders \subseteq alive

\* The gate is held by whoever works behind it, so that what a process read of the owner
\* record is still true when it acts on it.
GateHeld ==
  /\ gate \in alive \cup {Nobody}
  /\ \A p \in alive :
       /\ pc[p] \in InGate => gate = p
       /\ pc[p] = "inspectGate" => holder[p] \in alive
       /\ pc[p] # "unlinkGate"

Progress ==
  \A p \in alive :
    /\ pc[p] = "inspectOwner" => owner = holder[p]
    /\ pc[p] = "unlinkOwner" => owner \in Departed
    /\ pc[p] = "relinkOwner" => owner = Nobody

\* What a process does behind the gate is what it came for.
PurposeIsKept ==
  \A p \in alive :
    /\ pc[p] \in {"idle"} \cup OwnerCalls => purpose[p] = "acquire"
    /\ pc[p] \in ReleaseCalls => purpose[p] = "release"

\* Whoever acquires the lease has no record yet.
RecordIsForeign ==
  \A p \in alive :
    pc[p] = "idle" \/ (purpose[p] = "acquire" /\ pc[p] \in GateCalls \cup OwnerCalls)
      => owner # p

RaceInv ==
  /\ TypeOK /\ alive \subseteq Contenders
  /\ PurposeIsKept /\ RecordIsForeign
  /\ NoneDied => GateHeld /\ Progress /\ RecordNamesHolder

\* The strengthening holds at the start.
LEMMA RaceInit == Init => RaceInv /\ RecordNamesHolder
<1> SUFFICES ASSUME Init PROVE RaceInv /\ RecordNamesHolder
  OBVIOUS
<1>1. TypeOK
  BY ProcessesAssumption DEF Init, TypeOK
<1>2. /\ alive = Processes \ Departed /\ gate = Nobody /\ owner \in Departed \cup {Nobody}
      /\ \A p \in alive : pc[p] = "idle" /\ purpose[p] = "acquire"
  BY DEF Init
<1>3. GateHeld /\ Progress /\ RecordNamesHolder
  BY <1>2 DEF GateHeld, Progress, RecordNamesHolder, Holds, InGate
<1>4. PurposeIsKept /\ RecordIsForeign
  BY <1>2, ProcessesAssumption DEF PurposeIsKept, RecordIsForeign
<1> QED BY <1>1, <1>2, <1>3, <1>4 DEF RaceInv, Contenders

\* A process moves itself only, and acquires only what is not its own.
LEMMA PurposeStep ==
  ASSUME RaceInv, [Next]_vars
  PROVE  /\ alive' \subseteq alive
         /\ PurposeIsKept' /\ RecordIsForeign'
<1> USE ProcessesAssumption DEF RaceInv, PurposeIsKept, RecordIsForeign
<1>1. CASE UNCHANGED vars
  BY <1>1 DEF vars
<1>2. ASSUME NEW p \in Processes, Begin(p) \/ Recovered(p) \/ Release(p) \/ Die(p)
      PROVE  alive' \subseteq alive /\ PurposeIsKept' /\ RecordIsForeign'
  BY <1>2 DEF TypeOK, Begin, Recovered, Release, Die
<1>3. ASSUME NEW p \in Processes, GateStep(p)
      PROVE  alive' \subseteq alive /\ PurposeIsKept' /\ RecordIsForeign'
  <2>1. CASE LinkGate(p) \/ UnlinkGate(p) \/ LeaveGate(p)
    BY <2>1 DEF TypeOK, LinkGate, UnlinkGate, LeaveGate
  <2>2. CASE AttemptsExhausted(p) \/ ReadGate(p) \/ InspectGate(p)
    BY <2>2 DEF TypeOK, AttemptsExhausted, ReadGate, InspectGate, Fail
  <2> QED BY <1>3, <2>1, <2>2 DEF GateStep
<1>4. ASSUME NEW p \in Processes, OwnerStep(p)
      PROVE  alive' \subseteq alive /\ PurposeIsKept' /\ RecordIsForeign'
  <2>1. CASE LinkOwner(p) \/ RelinkOwner(p)
    BY <2>1 DEF TypeOK, LinkOwner, RelinkOwner
  <2>2. CASE ReadOwner(p) \/ InspectOwner(p) \/ CheckOwner(p)
    BY <2>2 DEF TypeOK, ReadOwner, InspectOwner, CheckOwner
  <2>3. CASE UnlinkOwner(p) \/ UnlinkOwn(p)
    BY <2>3 DEF TypeOK, UnlinkOwner, UnlinkOwn
  <2> QED BY <1>4, <2>1, <2>2, <2>3 DEF OwnerStep
<1> QED BY <1>1, <1>2, <1>3, <1>4 DEF Next

\* As long as nobody dies each step preserves the strengthening.
LEMMA RaceStep ==
  ASSUME TypeOK', RaceInv, NoneDied, NoneDied', [Next]_vars
  PROVE  GateHeld' /\ Progress' /\ RecordNamesHolder'
<1> DEFINE Held == GateHeld /\ Progress /\ RecordNamesHolder
<1> USE ProcessesAssumption
        DEF RaceInv, GateHeld, Progress, PurposeIsKept, RecordNamesHolder, Holds, InGate
<1>0. alive = Contenders /\ alive' = alive
  BY PurposeStep DEF NoneDied
<1>1. CASE UNCHANGED vars
  BY <1>1 DEF vars
<1>2. ASSUME NEW p \in Processes, Begin(p) \/ Recovered(p) \/ Release(p) \/ Die(p)
      PROVE  Held'
  <2>1. CASE Begin(p)
    <3>1. \A q \in Processes : pc'[q] = (IF q = p THEN "linkGate" ELSE pc[q])
      BY <2>1 DEF TypeOK, Begin
    <3>2. pc[p] = "idle" /\ purpose' = purpose /\ owner' = owner
          /\ gate' = gate /\ holder' = holder
      BY <2>1 DEF Begin
    <3> QED BY <1>0, <3>1, <3>2 DEF TypeOK
  <2>2. CASE Recovered(p)
    BY <1>0, <2>2 DEF TypeOK, Recovered
  <2>3. CASE Release(p)
    <3>1. \A q \in Processes :
            /\ pc'[q] = (IF q = p THEN "linkGate" ELSE pc[q])
            /\ purpose'[q] = (IF q = p THEN "release" ELSE purpose[q])
      BY <2>3 DEF TypeOK, Release
    <3>2. owner = p /\ owner' = owner /\ gate' = gate /\ holder' = holder
      BY <2>3 DEF Release
    <3>3. pc[p] \notin InGate
      BY <2>3 DEF Release
    <3> QED BY <1>0, <3>1, <3>2, <3>3 DEF TypeOK
  <2>4. CASE Die(p)
    BY <1>0, <2>4 DEF Die
  <2> QED BY <1>2, <2>1, <2>2, <2>3, <2>4
<1>3. ASSUME NEW p \in Processes, GateStep(p) PROVE Held'
  <2>1. CASE LinkGate(p)
    BY <1>0, <2>1 DEF TypeOK, LinkGate
  <2>2. CASE AttemptsExhausted(p)
    BY <1>0, <2>2 DEF TypeOK, AttemptsExhausted, Fail
  <2>3. CASE ReadGate(p)
    BY <1>0, <2>3 DEF TypeOK, ReadGate, Fail
  <2>4. CASE InspectGate(p)
    BY <1>0, <2>4, DeathIsProved DEF TypeOK, InspectGate, Fail
  <2>5. CASE UnlinkGate(p)
    BY <1>0, <2>5 DEF UnlinkGate
  <2>6. CASE LeaveGate(p)
    BY <1>0, <2>6 DEF TypeOK, LeaveGate
  <2> QED BY <1>3, <2>1, <2>2, <2>3, <2>4, <2>5, <2>6 DEF GateStep
<1>4. ASSUME NEW p \in Processes, OwnerStep(p) PROVE Held'
  <2>1. CASE LinkOwner(p)
    BY <1>0, <2>1 DEF TypeOK, LinkOwner
  <2>2. CASE ReadOwner(p)
    BY <1>0, <2>2 DEF TypeOK, ReadOwner
  <2>3. CASE InspectOwner(p)
    BY <1>0, <2>3, DeathIsProved DEF TypeOK, InspectOwner, Contenders
  <2>4. CASE UnlinkOwner(p)
    BY <1>0, <2>4 DEF TypeOK, UnlinkOwner, Contenders
  <2>5. CASE RelinkOwner(p)
    BY <1>0, <2>5 DEF TypeOK, RelinkOwner
  <2>6. CASE CheckOwner(p)
    BY <1>0, <2>6 DEF TypeOK, CheckOwner
  <2>7. CASE UnlinkOwn(p)
    BY <1>0, <2>7 DEF TypeOK, UnlinkOwn
  <2> QED BY <1>4, <2>1, <2>2, <2>3, <2>4, <2>5, <2>6, <2>7 DEF OwnerStep
<1> QED BY <1>1, <1>2, <1>3, <1>4 DEF Next

LEMMA RaceInvariant == Spec => []RaceInv
<1>1. RaceInv /\ TypeOK' /\ [Next]_vars => RaceInv'
  BY PurposeStep, RaceStep DEF RaceInv, NoneDied
<1> QED BY <1>1, RaceInit, TypeCorrect, PTL DEF Spec

\* Who holds the database is who the record names, and who is behind the gate is one, as long
\* as the strengthening holds.
LEMMA RecordMakesOneOwner == RecordNamesHolder => SoleOwner
  BY DEF RecordNamesHolder, SoleOwner, Holds

LEMMA GateIsExclusive == GateHeld => GateExcludes
  BY DEF GateHeld, GateExcludes
\* Until a contender dies any number of them, over whatever stale record, make one owner at
\* most; the record names it until it releases, and one process at most is behind the gate.
THEOREM OwnedUntilDeath == Spec => [](NoneDied => SoleOwner /\ FilesAreOwned)
<1>1. RaceInv => (NoneDied => SoleOwner /\ FilesAreOwned)
  BY RecordMakesOneOwner, GateIsExclusive DEF RaceInv, FilesAreOwned
<1> QED BY <1>1, RaceInvariant, PTL

RecordsStay == \A p \in alive : owner = p /\ owner' # p => pc[p] = "unlinkOwn"

\* Only the steps on the owner record change it.
LEMMA RecordStep ==
  ASSUME Next, owner' # owner
  PROVE  \E p \in Processes : OwnerStep(p)
<1>1. PICK p \in Processes :
        Begin(p) \/ GateStep(p) \/ OwnerStep(p) \/ Recovered(p) \/ Release(p) \/ Die(p)
  BY DEF Next
<1>2. CASE OwnerStep(p)
  BY <1>2
<1>3. CASE ~OwnerStep(p)
  BY <1>1, <1>3
     DEF Begin, GateStep, LinkGate, AttemptsExhausted, ReadGate, InspectGate, UnlinkGate,
         LeaveGate, Recovered, Release, Die, Fail
<1> QED BY <1>2, <1>3

\* A step on the owner record is taken by its owner, unless the record is a dead process's.
LEMMA RecordStaysStep ==
  ASSUME RaceInv, [Next]_vars, NoneDied
  PROVE  RecordsStay
<1> SUFFICES ASSUME NEW r \in alive, owner = r, owner' # r PROVE pc[r] = "unlinkOwn"
  BY DEF RecordsStay
<1>1. PICK p \in Processes : OwnerStep(p)
  BY RecordStep DEF vars
<1> QED
  BY <1>1, ProcessesAssumption
     DEF OwnerStep, LinkOwner, ReadOwner, InspectOwner, UnlinkOwner, RelinkOwner, CheckOwner,
         UnlinkOwn, RaceInv, Progress, PurposeIsKept, RecordNamesHolder, Contenders

\* Until a contender dies the record of a live process disappears only by its own release.
THEOREM RecordsStayUntilDeath == Spec => [][NoneDied => RecordsStay]_vars
<1>1. RaceInv /\ [Next]_vars => [NoneDied => RecordsStay]_vars
  BY RecordStaysStep
<1> QED BY <1>1, RaceInvariant, PTL DEF Spec

-----------------------------------------------------------------------------
(* Two contenders, who may both die between any two calls *)

TwoContend == \A p, q, r \in Contenders : p = q \/ q = r \/ p = r

\* When one has died the other is alone with whatever files it left.
LEMMA SurvivorIsAlone ==
  ASSUME TwoContend, RaceInv, ~NoneDied
  PROVE  \A p, q \in alive : p = q
BY DEF TwoContend, RaceInv, NoneDied

\* The survivor's record is its own through each of its calls.
LEMMA SurvivorStep ==
  ASSUME RaceInv, RecordNamesHolder, \A p, q \in alive : p = q, [Next]_vars
  PROVE  RecordNamesHolder' /\ RecordsStay
<1> USE ProcessesAssumption
        DEF RaceInv, PurposeIsKept, RecordIsForeign, RecordNamesHolder, RecordsStay, Holds
<1> DEFINE Good == RecordNamesHolder' /\ RecordsStay
<1>1. CASE UNCHANGED vars
  BY <1>1 DEF vars
<1>2. ASSUME NEW p \in Processes, Begin(p) \/ Recovered(p) \/ Release(p) \/ Die(p)
      PROVE  Good
  BY <1>2 DEF TypeOK, Begin, Recovered, Release, Die
<1>3. ASSUME NEW p \in Processes, GateStep(p) PROVE Good
  <2>1. CASE LinkGate(p) \/ UnlinkGate(p) \/ LeaveGate(p)
    BY <2>1 DEF TypeOK, LinkGate, UnlinkGate, LeaveGate
  <2>2. CASE AttemptsExhausted(p) \/ ReadGate(p) \/ InspectGate(p)
    BY <2>2 DEF TypeOK, AttemptsExhausted, ReadGate, InspectGate, Fail
  <2> QED BY <1>3, <2>1, <2>2 DEF GateStep
<1>4. ASSUME NEW p \in Processes, OwnerStep(p) PROVE Good
  <2>1. CASE LinkOwner(p) \/ RelinkOwner(p)
    BY <2>1 DEF TypeOK, LinkOwner, RelinkOwner
  <2>2. CASE ReadOwner(p) \/ InspectOwner(p) \/ CheckOwner(p)
    BY <2>2 DEF TypeOK, ReadOwner, InspectOwner, CheckOwner
  <2>3. CASE UnlinkOwner(p) \/ UnlinkOwn(p)
    BY <2>3 DEF TypeOK, UnlinkOwner, UnlinkOwn
  <2> QED BY <1>4, <2>1, <2>2, <2>3 DEF OwnerStep
<1> QED BY <1>1, <1>2, <1>3, <1>4 DEF Next

\* A death changes no record and takes away only obligations.
LEMMA DeathStep ==
  ASSUME RaceInv, NoneDied, ~NoneDied', [Next]_vars
  PROVE  RecordNamesHolder'
<1>1. \E p \in Processes : Die(p)
  BY DEF NoneDied, Contenders, Next, vars, Begin, GateStep, LinkGate, AttemptsExhausted,
         ReadGate, InspectGate, UnlinkGate, LeaveGate, OwnerStep, LinkOwner, ReadOwner,
         InspectOwner, UnlinkOwner, RelinkOwner, CheckOwner, UnlinkOwn, Recovered, Release,
         Fail
<1> QED BY <1>1 DEF Die, RaceInv, RecordNamesHolder, Holds

\* Between two contenders every step keeps the record its holder's.
LEMMA PairStep ==
  ASSUME TwoContend, TypeOK', RaceInv, RecordNamesHolder, [Next]_vars
  PROVE  RecordNamesHolder' /\ RecordsStay
<1>1. CASE ~NoneDied
  BY <1>1, SurvivorIsAlone, SurvivorStep
<1>2. CASE NoneDied
  BY <1>2, RaceStep, DeathStep, RecordStaysStep
<1> QED BY <1>1, <1>2

LEMMA PairInvariant == TwoContend => (Spec => []RecordNamesHolder)
<1> SUFFICES ASSUME TwoContend PROVE Spec => []RecordNamesHolder
  OBVIOUS
<1>1. TypeOK' /\ RaceInv /\ RecordNamesHolder /\ [Next]_vars => RecordNamesHolder'
  BY PairStep
<1> QED BY <1>1, RaceInit, RaceInvariant, TypeCorrect, PTL DEF Spec

\* Two contenders, either of which may die at any point, never both hold the database.
THEOREM PairHasOneOwner == TwoContend => (Spec => []SoleOwner)
<1> SUFFICES ASSUME TwoContend PROVE Spec => []SoleOwner
  OBVIOUS
<1> QED BY PairInvariant, RecordMakesOneOwner, PTL

\* Whoever of the two dies where, the record names the other as soon as it holds the
\* database, and one live process at most is behind the gate.
THEOREM PairFilesAreOwned == TwoContend => (Spec => []FilesAreOwned)
<1> SUFFICES ASSUME TwoContend PROVE Spec => []FilesAreOwned
  OBVIOUS
<1>1. RaceInv => GateExcludes
  BY SurvivorIsAlone, GateIsExclusive DEF RaceInv, GateExcludes
<1>2. RecordNamesHolder /\ GateExcludes => FilesAreOwned
  BY DEF FilesAreOwned
<1> QED BY <1>1, <1>2, PairInvariant, RaceInvariant, PTL

\* Neither of the two removes the record of the other while it lives.
THEOREM PairKeepsLiveRecords == TwoContend => (Spec => LiveRecordStays)
<1> SUFFICES ASSUME TwoContend PROVE Spec => LiveRecordStays
  OBVIOUS
<1>1. TypeOK' /\ RaceInv /\ RecordNamesHolder /\ [Next]_vars => [RecordsStay]_vars
  BY PairStep
<1> QED
  BY <1>1, PairInvariant, RaceInvariant, TypeCorrect, PTL DEF Spec, LiveRecordStays, RecordsStay

=============================================================================
