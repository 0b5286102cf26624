------------------------ MODULE ResourceCollectionProofs ------------------------
(***************************************************************************)
(* Theorems about ResourceCollection for any pool, any number of runs and  *)
(* collectors, and any number of collections, faults and crashes.          *)
(***************************************************************************)
EXTENDS ResourceCollection, TLAPS

Work == [step : CollectorSteps, target : Resources, token : Tokens]

-----------------------------------------------------------------------------
(* Facts about collectors and pools *)

\* A collector at a step of resume has work: a target and a token.
LEMMA AtWork ==
  ASSUME TypeOK, NEW c \in Collectors, NEW step \in CollectorSteps, At(c, step)
  PROVE  collector[c] \in Work /\ collector[c] # Idle
<1>1. collector[c] \in {Idle} \cup Work
  BY DEF TypeOK, Work
<1>2. collector[c].step # "idle"
  BY DEF At, CollectorSteps
<1> QED BY <1>1, <1>2 DEF Idle

\* Work is never idleness.
LEMMA WorkIsNotIdle == Idle \notin Work
BY DEF Idle, Work, CollectorSteps

\* A turn moves one collector to another step of the same work.
LEMMA TurnOfOne ==
  ASSUME TypeOK, NEW c \in Collectors, NEW step \in CollectorSteps, collector[c] \in Work,
         Turns(c, step)
  PROVE  /\ collector' \in [Collectors -> {Idle} \cup Work]
         /\ collector'[c] \in Work
         /\ collector'[c].target = collector[c].target
         /\ collector'[c].token = collector[c].token
         /\ \A d \in Collectors \ {c} : collector'[d] = collector[d]
<1>1. collector \in [Collectors -> {Idle} \cup Work]
  BY DEF TypeOK, Work
<1>2. [collector[c] EXCEPT !.step = step] \in Work
  BY DEF Work
<1>3. collector' = [collector EXCEPT ![c] = [collector[c] EXCEPT !.step = step]]
  BY DEF Turns
<1>4. collector'[c] = [collector[c] EXCEPT !.step = step]
  BY <1>1, <1>3
<1>5. /\ [collector[c] EXCEPT !.step = step].target = collector[c].target
      /\ [collector[c] EXCEPT !.step = step].token = collector[c].token
  BY DEF Work
<1> QED BY <1>1, <1>2, <1>3, <1>4, <1>5

\* An end makes one collector idle.
LEMMA EndOfOne ==
  ASSUME TypeOK, NEW c \in Collectors, Ends(c)
  PROVE  /\ collector' \in [Collectors -> {Idle} \cup Work]
         /\ collector'[c] = Idle
         /\ \A d \in Collectors \ {c} : collector'[d] = collector[d]
BY DEF TypeOK, Work, Ends

\* What a run needs are resources.
LEMMA NeedsAreResources == ASSUME NEW a \in Runs PROVE Needs(a) \subseteq Resources
BY PoolAssumption DEF Needs, Resources

-----------------------------------------------------------------------------
(* Type correctness *)

CollectorsAreTyped == collector \in [Collectors -> {Idle} \cup Work]

RowsAreTyped ==
  /\ state \in [Resources -> States]
  /\ token \in [Resources -> Tokens \cup {NoToken}]
  /\ \A r \in Resources : token[r] \in Tokens <=> state[r] \in Collecting
  /\ retry \subseteq Resources

OthersAreTyped ==
  /\ lease \in [Runs -> {"none", "live", "expired"}]
  /\ files \subseteq Resources
  /\ quarantine \subseteq Resources \X Tokens
  /\ run \in [Runs -> RunSteps]
  /\ core \in {"down", "reconciling", "up"}
  /\ visited \subseteq Resources
  /\ issued \in 0 .. MaxTokens /\ faults \in 0 .. MaxFaults /\ crashes \in 0 .. MaxCrashes

LEMMA TypeOKParts == TypeOK <=> CollectorsAreTyped /\ RowsAreTyped /\ OthersAreTyped
BY DEF TypeOK, CollectorsAreTyped, RowsAreTyped, OthersAreTyped, Work

LEMMA TypeOKPartsNext == TypeOK' <=> CollectorsAreTyped' /\ RowsAreTyped' /\ OthersAreTyped'
BY DEF TypeOK, CollectorsAreTyped, RowsAreTyped, OthersAreTyped, Work

\* The catalog rows keep their type and their CHECK constraint under a run's step.
LEMMA RunKeepsRows ==
  ASSUME TypeOK, NEW a \in Runs, RunNext(a)
  PROVE  RowsAreTyped'
<1> USE PoolAssumption DEF RowsAreTyped, States, Collecting
<1>0. RowsAreTyped
  BY TypeOKParts
<1>1. CASE RegisterBoth(a)
  <2>1. ASSUME NEW r \in Resources, NEW step, NEW next, Register(a, r, step, next)
        PROVE  RowsAreTyped'
    BY <1>0, <2>1 DEF Register, Tokens, NoToken
  <2>2. WorktreeOf[a] \in Resources /\ Repository(a) \in Resources
    BY DEF Repository, Resources
  <2> QED BY <1>1, <2>1, <2>2 DEF RegisterBoth
<1>2. CASE RecordBoth(a)
  <2>1. ASSUME NEW r \in Resources, NEW step, NEW next, RecordUsage(a, r, step, next)
        PROVE  RowsAreTyped'
    BY <1>0, <2>1 DEF RecordUsage, catalog, Tokens, NoToken
  <2>2. WorktreeOf[a] \in Resources /\ Repository(a) \in Resources
    BY DEF Repository, Resources
  <2> QED BY <1>2, <2>1, <2>2 DEF RecordBoth
<1>3. CASE UNCHANGED catalog
  BY <1>0, <1>3 DEF catalog
<1> QED BY <1>1, <1>2, <1>3 DEF RunNext, Prepare, Inspect, AcquireLeases, ReleaseLeases,
             LeaseExpires, Leave

\* And under the step of a collector that resumes a collection.
LEMMA ResumeKeepsRows ==
  ASSUME TypeOK, NEW c \in Collectors, Resume(c)
  PROVE  RowsAreTyped'
<1> USE DEF RowsAreTyped, States, Collecting, OwnsRow
<1>0. RowsAreTyped
  BY TypeOKParts
<1>1. CASE Quarantine(c)
  BY <1>0, <1>1 DEF Quarantine, catalog
<1>2. CASE RecordQuarantine(c)
  <2>1. collector[c].target \in Resources
    BY <1>2, AtWork DEF RecordQuarantine, Work, CollectorSteps
  <2> QED BY <1>0, <1>2, <2>1 DEF RecordQuarantine
<1>3. CASE Delete(c)
  BY <1>0, <1>3 DEF Delete, catalog
<1>4. CASE CompleteDeletion(c)
  <2>1. collector[c].target \in Resources
    BY <1>4, AtWork DEF CompleteDeletion, Work, CollectorSteps
  <2> QED BY <1>0, <1>4, <2>1, PoolAssumption DEF CompleteDeletion, catalog, Tokens, NoToken
<1>5. CASE FailDeletion(c)
  <2>1. collector[c].target \in Resources
    BY <1>5, AtWork DEF FailDeletion, Work, CollectorSteps
  <2> QED BY <1>0, <1>5, <2>1 DEF FailDeletion
<1> QED BY <1>1, <1>2, <1>3, <1>4, <1>5 DEF Resume

\* A resumed collector keeps its work or ends; the others are not concerned.
LEMMA ResumeMovesOne ==
  ASSUME TypeOK, NEW c \in Collectors, Resume(c)
  PROVE  /\ collector[c] \in Work
         /\ CollectorsAreTyped'
         /\ \/ collector'[c] = Idle
            \/ /\ collector'[c] \in Work
               /\ collector'[c].target = collector[c].target
               /\ collector'[c].token = collector[c].token
         /\ \A d \in Collectors \ {c} : collector'[d] = collector[d]
<1>1. PICK step \in CollectorSteps : At(c, step)
  BY DEF Resume, Quarantine, RecordQuarantine, Delete, CompleteDeletion, FailDeletion, CollectorSteps
<1>2. collector[c] \in Work
  BY <1>1, AtWork
<1>3. Ends(c) \/ \E next \in CollectorSteps : Turns(c, next)
  BY DEF Resume, Quarantine, RecordQuarantine, Delete, CompleteDeletion, FailDeletion, CollectorSteps
<1>4. CASE Ends(c)
  BY <1>2, <1>4, EndOfOne DEF CollectorsAreTyped
<1>5. CASE \E next \in CollectorSteps : Turns(c, next)
  BY <1>2, <1>5, TurnOfOne DEF CollectorsAreTyped
<1> QED BY <1>3, <1>4, <1>5

\* A collection that begins gives its row a new token and its collector the work.
LEMMA BeginGivesWork ==
  ASSUME TypeOK, NEW c \in Collectors, NEW r \in Resources, BeginCollection(c, r)
  PROVE  /\ RowsAreTyped'
         /\ CollectorsAreTyped'
         /\ issued' \in 0 .. MaxTokens
         /\ collector'[c] = [step |-> "quarantine", target |-> r, token |-> token'[r]]
         /\ \A d \in Collectors \ {c} : collector'[d] = collector[d]
         /\ state'[r] = "collecting"
         /\ \A q \in Resources \ {r} : state'[q] = state[q] /\ token'[q] = token[q]
<1>1. RowsAreTyped /\ CollectorsAreTyped /\ OthersAreTyped
  BY TypeOKParts
<1>2. issued + 1 \in Tokens /\ issued' \in 0 .. MaxTokens
  BY <1>1, PoolAssumption DEF OthersAreTyped, BeginCollection, Tokens
<1>3. RowsAreTyped'
  BY <1>1, <1>2 DEF RowsAreTyped, BeginCollection, States, Collecting
<1>4. [step |-> "quarantine", target |-> r, token |-> issued + 1] \in Work
  BY <1>2 DEF Work, CollectorSteps
<1>5. token'[r] = issued + 1 /\ state'[r] = "collecting"
  BY <1>1 DEF RowsAreTyped, BeginCollection
<1>6. collector' = [collector EXCEPT ![c] = [step |-> "quarantine", target |-> r, token |-> issued + 1]]
  BY DEF BeginCollection
<1>7. CollectorsAreTyped'
  BY <1>1, <1>4, <1>6 DEF CollectorsAreTyped
<1>8. \A q \in Resources \ {r} : state'[q] = state[q] /\ token'[q] = token[q]
  BY <1>1 DEF RowsAreTyped, BeginCollection
<1>9. /\ collector'[c] = [step |-> "quarantine", target |-> r, token |-> token'[r]]
      /\ \A d \in Collectors \ {c} : collector'[d] = collector[d]
  BY <1>1, <1>5, <1>6 DEF CollectorsAreTyped
<1> QED BY <1>2, <1>3, <1>5, <1>7, <1>8, <1>9

\* Reconciliation gives the work of a row that is being collected to an idle collector.
LEMMA ResumeStaleGivesWork ==
  ASSUME TypeOK, NEW c \in Collectors, NEW r \in Resources, ResumeStale(c, r)
  PROVE  /\ CollectorsAreTyped'
         /\ collector'[c] = [step |-> "quarantine", target |-> r, token |-> token[r]]
         /\ \A d \in Collectors \ {c} : collector'[d] = Idle
<1>1. RowsAreTyped /\ CollectorsAreTyped
  BY TypeOKParts
<1>2. token[r] \in Tokens
  BY <1>1 DEF RowsAreTyped, ResumeStale
<1>3. [step |-> "quarantine", target |-> r, token |-> token[r]] \in Work
  BY <1>2 DEF Work, CollectorSteps
<1>4. collector' = [collector EXCEPT ![c] = [step |-> "quarantine", target |-> r, token |-> token[r]]]
  BY DEF ResumeStale
<1>5. \A d \in Collectors : collector[d] = Idle
  BY DEF ResumeStale, Visits, AllIdle
<1> QED BY <1>1, <1>3, <1>4, <1>5 DEF CollectorsAreTyped

\* Every variable has its type; a row has a recovery token exactly while it is collected.
THEOREM TypeCorrect == Spec => []TypeOK
<1>1. Init => TypeOK
  BY PoolAssumption DEF Init, TypeOK, States, Collecting, Tokens, NoToken, Idle, RunSteps
<1>2. ASSUME TypeOK, [Next]_vars
      PROVE  TypeOK'
  <2>0. CollectorsAreTyped /\ RowsAreTyped /\ OthersAreTyped
    BY <1>2, TypeOKParts
  <2>1. ASSUME NEW a \in Runs, RunNext(a)
        PROVE  TypeOK'
    <3>1. CollectorsAreTyped'
      BY <2>0, <2>1 DEF CollectorsAreTyped, RunNext, Prepare, Inspect, RegisterBoth, Register,
         RecordBoth, RecordUsage, AcquireLeases, ReleaseLeases, LeaseExpires, Leave
    <3>2. RowsAreTyped'
      BY <1>2, <2>1, RunKeepsRows
    <3>3. Needs(a) \subseteq Resources /\ WorktreeOf[a] \in Resources
      BY NeedsAreResources, PoolAssumption DEF Resources
    <3>4. run' \in [Runs -> RunSteps] /\ lease' \in [Runs -> {"none", "live", "expired"}]
      BY <2>0, <2>1 DEF OthersAreTyped, RunNext, Goes, RunSteps, Prepare, Inspect, RegisterBoth, Register,
         RecordBoth, RecordUsage, AcquireLeases, ReleaseLeases, LeaseExpires, Leave
    <3>5. files' \subseteq Resources
      BY <2>0, <2>1, <3>3 DEF OthersAreTyped, RunNext, disk, Prepare, Inspect, RegisterBoth, Register,
         RecordBoth, RecordUsage, AcquireLeases, ReleaseLeases, LeaseExpires, Leave
    <3>6. UNCHANGED <<quarantine, core, visited, bounds>>
      BY <2>1 DEF RunNext, disk, Prepare, Inspect, RegisterBoth, Register,
         RecordBoth, RecordUsage, AcquireLeases, ReleaseLeases, LeaseExpires, Leave
    <3>7. OthersAreTyped'
      BY <2>0, <3>4, <3>5, <3>6 DEF OthersAreTyped, bounds
    <3> QED BY <3>1, <3>2, <3>7, TypeOKPartsNext
  <2>2. ASSUME NEW c \in Collectors, Resume(c)
        PROVE  TypeOK'
    <3>1. collector[c].target \in Resources /\ collector[c].token \in Tokens
      BY <1>2, <2>2, ResumeMovesOne DEF Work
    <3>2. files' \subseteq Resources /\ quarantine' \subseteq Resources \X Tokens
      BY <2>0, <2>2, <3>1 DEF OthersAreTyped, Resume, disk, Quarantine, RecordQuarantine, Delete,
         CompleteDeletion, FailDeletion
    <3>3. UNCHANGED <<lease, run, core, visited, issued, crashes>>
      BY <2>2 DEF Resume, bounds, Quarantine, RecordQuarantine, Delete, CompleteDeletion, FailDeletion
    <3>4. faults' \in 0 .. MaxFaults
      BY <2>0, <2>2, PoolAssumption DEF OthersAreTyped, Fault, bounds, disk, Resume, Quarantine,
         RecordQuarantine, Delete, CompleteDeletion, FailDeletion
    <3>5. OthersAreTyped'
      BY <2>0, <3>2, <3>3, <3>4 DEF OthersAreTyped
    <3> QED BY <1>2, <2>2, <3>5, ResumeMovesOne, ResumeKeepsRows, TypeOKPartsNext
  <2>3. ASSUME NEW c \in Collectors, NEW r \in Resources, Collect(c, r) \/ CollectMissing(c, r)
        PROVE  TypeOK'
    <3>1. BeginCollection(c, r)
      BY <2>3 DEF Collect, CollectMissing
    <3>2. visited' \subseteq Resources
      BY <2>0, <2>3 DEF OthersAreTyped, Collect, CollectMissing, Visits
    <3>3. UNCHANGED <<lease, disk, run, core, faults, crashes>>
      BY <3>1 DEF BeginCollection
    <3>4. RowsAreTyped' /\ CollectorsAreTyped' /\ issued' \in 0 .. MaxTokens
      BY <1>2, <3>1, BeginGivesWork
    <3>5. OthersAreTyped'
      BY <2>0, <3>2, <3>3, <3>4 DEF OthersAreTyped, disk
    <3> QED BY <3>4, <3>5, TypeOKPartsNext
  <2>4. CASE Crash
    <3>1. CollectorsAreTyped' /\ RowsAreTyped'
      BY <2>0, <2>4 DEF CollectorsAreTyped, RowsAreTyped, Crash, catalog
    <3>2. OthersAreTyped'
      BY <2>0, <2>4, PoolAssumption DEF OthersAreTyped, Crash, disk, RunSteps
    <3> QED BY <3>1, <3>2, TypeOKPartsNext
  <2>5. CASE Restart
    <3>1. CollectorsAreTyped' /\ RowsAreTyped' /\ OthersAreTyped'
      BY <2>0, <2>5 DEF CollectorsAreTyped, RowsAreTyped, OthersAreTyped, Restart, catalog, disk, bounds
    <3> QED BY <3>1, TypeOKPartsNext
  <2>6. ASSUME NEW c \in Collectors, NEW r \in Resources, ResumeStale(c, r)
        PROVE  TypeOK'
    <3>1. RowsAreTyped' /\ OthersAreTyped'
      BY <2>0, <2>6 DEF RowsAreTyped, OthersAreTyped, ResumeStale, Visits, catalog, disk, bounds
    <3> QED BY <1>2, <2>6, <3>1, ResumeStaleGivesWork, TypeOKPartsNext
  <2>7. CASE FinishReconcile
    <3>1. CollectorsAreTyped' /\ RowsAreTyped' /\ OthersAreTyped'
      BY <2>0, <2>7 DEF CollectorsAreTyped, RowsAreTyped, OthersAreTyped, FinishReconcile, catalog,
         disk, bounds
    <3> QED BY <3>1, TypeOKPartsNext
  <2>8. ASSUME NEW w \in Worktrees, EvictSlot(w)
        PROVE  TypeOK'
    <3>1. CollectorsAreTyped' /\ RowsAreTyped' /\ OthersAreTyped'
      BY <2>0, <2>8 DEF CollectorsAreTyped, RowsAreTyped, OthersAreTyped, EvictSlot, catalog, bounds
    <3> QED BY <3>1, TypeOKPartsNext
  <2>9. CASE UNCHANGED vars
    BY <1>2, <2>9 DEF TypeOK, vars, catalog, disk, bounds
  <2> QED BY <1>2, <2>1, <2>2, <2>3, <2>4, <2>5, <2>6, <2>7, <2>8, <2>9 DEF Next, Startup
<1> QED BY <1>1, <1>2, PTL DEF Spec

-----------------------------------------------------------------------------
(* Leases keep rows ready *)

\* A run's step keeps leased rows ready: only the lease transaction makes a lease live, and
\* registration and recording never take a row out of the ready state.
LEMMA RunKeepsReady ==
  ASSUME TypeOK, LeaseKeepsReady, NEW a \in Runs, RunNext(a)
  PROVE  LeaseKeepsReady'
<1>1. RowsAreTyped /\ OthersAreTyped
  BY TypeOKParts
<1>2. Repository(a) \in Resources /\ WorktreeOf[a] \in Resources
  BY PoolAssumption DEF Repository, Resources
<1>3. \A q \in Resources : state[q] = "ready" => state'[q] = "ready"
  BY <1>1, <1>2 DEF RowsAreTyped, RunNext, catalog, Prepare, Inspect, RegisterBoth, Register, RecordBoth,
     RecordUsage, AcquireLeases, ReleaseLeases, LeaseExpires, Leave
<1>4. \A b \in Runs : Needs(b)' = Needs(b)
  BY DEF Needs
<1>5. ASSUME NEW b \in Runs, lease'[b] = "live"
      PROVE  lease[b] = "live" \/ (Leasable(b) /\ UNCHANGED catalog)
  BY <1>1, <1>5 DEF OthersAreTyped, RunNext, Prepare, Inspect, RegisterBoth, Register, RecordBoth,
     RecordUsage, AcquireLeases, ReleaseLeases, LeaseExpires, Leave
<1>6. \A b \in Runs : Needs(b) \subseteq Resources
  BY NeedsAreResources
<1> QED BY <1>3, <1>4, <1>5, <1>6 DEF LeaseKeepsReady, Leasable, catalog

\* A resumed collection only writes rows that are being collected.
LEMMA ResumeWritesItsRow ==
  ASSUME TypeOK, NEW c \in Collectors, Resume(c)
  PROVE  \A q \in Resources :
           (state'[q] # state[q] \/ token'[q] # token[q])
             => q = collector[c].target /\ OwnsRow(c, Collecting)
<1>1. RowsAreTyped
  BY TypeOKParts
<1>2. collector[c].target \in Resources
  BY ResumeMovesOne DEF Work
<1>3. CASE Quarantine(c) \/ Delete(c)
  BY <1>3 DEF Quarantine, Delete, catalog
<1>4. CASE RecordQuarantine(c)
  BY <1>1, <1>2, <1>4 DEF RowsAreTyped, RecordQuarantine
<1>5. CASE CompleteDeletion(c)
  BY <1>1, <1>2, <1>5 DEF RowsAreTyped, CompleteDeletion, OwnsRow, Collecting, catalog
<1>6. CASE FailDeletion(c)
  BY <1>1, <1>2, <1>6 DEF RowsAreTyped, FailDeletion
<1> QED BY <1>3, <1>4, <1>5, <1>6 DEF Resume

\* Whatever is collected is outside the trees of the live leases.
LEMMA StepKeepsReady ==
  ASSUME TypeOK, LeaseKeepsReady, [Next]_vars
  PROVE  LeaseKeepsReady'
<1>1. \A b \in Runs : Needs(b)' = Needs(b) /\ Needs(b) \subseteq Resources
  BY NeedsAreResources DEF Needs
<1>2. ASSUME NEW a \in Runs, RunNext(a)
      PROVE  LeaseKeepsReady'
  BY <1>2, RunKeepsReady
<1>3. ASSUME NEW c \in Collectors, Resume(c)
      PROVE  LeaseKeepsReady'
  <2>1. UNCHANGED lease
    BY <1>3 DEF Resume, Quarantine, RecordQuarantine, Delete, CompleteDeletion, FailDeletion
  <2>2. \A q \in Resources : state[q] = "ready" => state'[q] = state[q]
    BY <1>3, ResumeWritesItsRow DEF OwnsRow, Collecting
  <2> QED BY <1>1, <2>1, <2>2 DEF LeaseKeepsReady
<1>4. ASSUME NEW c \in Collectors, NEW r \in Resources, BeginCollection(c, r)
      PROVE  LeaseKeepsReady'
  <2>1. \A b \in Runs : lease'[b] = "live" => lease[b] = "live" /\ r \notin Needs(b)
    BY <1>4 DEF BeginCollection, Collectible, Unleased, Tree
  <2>2. \A q \in Resources \ {r} : state'[q] = state[q]
    BY <1>4, BeginGivesWork
  <2> QED BY <1>1, <2>1, <2>2 DEF LeaseKeepsReady
<1>5. ASSUME UNCHANGED state, lease' = lease \/ lease' = [a \in Runs |-> "none"]
      PROVE  LeaseKeepsReady'
  BY <1>1, <1>5 DEF LeaseKeepsReady
<1> QED BY <1>2, <1>3, <1>4, <1>5 DEF Next, Startup, Collect, CollectMissing, Crash, Restart,
            ResumeStale, FinishReconcile, EvictSlot, vars, catalog

\* While the leases of a run live, its worktree and the repository are ready: no collection
\* of either can begin or be under way, in any interleaving of runs, passes and restarts.
THEOREM LeasesKeepReady == Spec => []LeaseKeepsReady
<1>1. Init => LeaseKeepsReady
  BY DEF Init, LeaseKeepsReady
<1> QED BY <1>1, StepKeepsReady, TypeCorrect, PTL DEF Spec

-----------------------------------------------------------------------------
(* One worker for each collection *)

\* Once requests are admitted no worker has a row whose deletion failed: such a row may be
\* collected again, under a new token, and its worker would lose it.
FailedRowsAreFree ==
  core = "up" => \A c \in Collectors :
                   collector[c] # Idle => state[collector[c].target] # "deletionFailed"

OwnersInv == CollectionHasOneOwner /\ FailedRowsAreFree

\* Rows that are being collected are out of a run's reach.
LEMMA RunLeavesOwners ==
  ASSUME TypeOK, OwnersInv, NEW a \in Runs, RunNext(a)
  PROVE  OwnersInv'
<1>1. RowsAreTyped /\ CollectorsAreTyped
  BY TypeOKParts
<1>2. Repository(a) \in Resources /\ WorktreeOf[a] \in Resources
  BY PoolAssumption DEF Repository, Resources
<1>3. \A q \in Resources : state[q] \in Collecting => state'[q] = state[q] /\ token'[q] = token[q]
  BY <1>1, <1>2 DEF RowsAreTyped, Collecting, RunNext, catalog, Prepare, Inspect, RegisterBoth, Register,
     RecordBoth, RecordUsage, AcquireLeases, ReleaseLeases, LeaseExpires, Leave
<1>4. UNCHANGED <<collector, core>>
  BY DEF RunNext, Prepare, Inspect, RegisterBoth, Register,
     RecordBoth, RecordUsage, AcquireLeases, ReleaseLeases, LeaseExpires, Leave
<1>5. \A c \in Collectors : collector[c] # Idle =>
        collector[c].target \in Resources /\ state[collector[c].target] \in Collecting
  BY <1>1 DEF OwnersInv, CollectionHasOneOwner, OwnsRow, CollectorsAreTyped, Work
<1>6. CollectionHasOneOwner'
  BY <1>3, <1>4, <1>5 DEF OwnersInv, CollectionHasOneOwner, OwnsRow, Idle
<1>7. FailedRowsAreFree'
  BY <1>3, <1>4, <1>5 DEF OwnersInv, FailedRowsAreFree, Idle
<1> QED BY <1>6, <1>7 DEF OwnersInv

\* A worker that resumes keeps its row until it ends, and touches no other row.
LEMMA ResumeKeepsOwners ==
  ASSUME TypeOK, OwnersInv, NEW c \in Collectors, Resume(c)
  PROVE  OwnersInv'
<1>1. RowsAreTyped /\ CollectorsAreTyped /\ CollectorsAreTyped'
  BY TypeOKParts, ResumeMovesOne
<1>2. /\ collector[c] \in Work /\ collector[c] # Idle
      /\ \/ collector'[c] = Idle
         \/ /\ collector'[c] # Idle
            /\ collector'[c].target = collector[c].target
            /\ collector'[c].token = collector[c].token
      /\ \A d \in Collectors \ {c} : collector'[d] = collector[d]
  BY ResumeMovesOne, WorkIsNotIdle
<1>3. UNCHANGED core
  BY DEF Resume, Quarantine, RecordQuarantine, Delete, CompleteDeletion, FailDeletion
<1>4. ASSUME NEW d \in Collectors \ {c}, collector[d] # Idle
      PROVE  /\ collector[d].target \in Resources
             /\ state'[collector[d].target] = state[collector[d].target]
             /\ token'[collector[d].target] = token[collector[d].target]
  <2>1. collector[d].target \in Resources
    BY <1>1, <1>4 DEF CollectorsAreTyped, Work
  <2>2. collector[d].target # collector[c].target
    BY <1>2, <1>4 DEF OwnersInv, CollectionHasOneOwner
  <2> QED BY <2>1, <2>2, ResumeWritesItsRow
<1>5. OwnsRow(c, Collecting) /\ collector[c].target \in Resources
  BY <1>2 DEF OwnersInv, CollectionHasOneOwner, Work
<1>6. collector'[c] # Idle =>
        /\ token'[collector[c].target] = token[collector[c].target]
        /\ state'[collector[c].target] \in Collecting
        /\ state'[collector[c].target] \in {state[collector[c].target], "quarantined"}
  <2>1. CASE Quarantine(c) \/ Delete(c)
    BY <1>5, <2>1 DEF OwnsRow, Quarantine, Delete, catalog
  <2>2. CASE RecordQuarantine(c)
    BY <1>1, <1>5, <2>2 DEF RowsAreTyped, OwnsRow, RecordQuarantine, Collecting
  <2>3. CASE CompleteDeletion(c)
    BY <1>1, <1>5, <2>3 DEF CollectorsAreTyped, OwnsRow, CompleteDeletion, Ends, catalog
  <2>4. CASE FailDeletion(c)
    BY <1>1, <2>4 DEF CollectorsAreTyped, FailDeletion, Ends
  <2> QED BY <2>1, <2>2, <2>3, <2>4 DEF Resume
<1>7. CollectionHasOneOwner'
  <2>1. ASSUME NEW d \in Collectors, collector'[d] # Idle
        PROVE  /\ token'[collector'[d].target] = collector'[d].token
               /\ state'[collector'[d].target] \in Collecting
               /\ \A e \in Collectors \ {d} : collector'[e].target # collector'[d].target
    <3>1. collector[d] # Idle /\ collector'[d].target = collector[d].target
                              /\ collector'[d].token = collector[d].token
      BY <1>2, <2>1
    <3>2. /\ token'[collector'[d].target] = collector'[d].token
          /\ state'[collector'[d].target] \in Collecting
      BY <1>2, <1>4, <1>5, <1>6, <2>1, <3>1 DEF OwnersInv, CollectionHasOneOwner, OwnsRow
    <3>3. collector[d].target \in Resources
      BY <1>4, <1>5, <3>1
    <3>4. ASSUME NEW e \in Collectors \ {d}
          PROVE  collector'[e].target # collector'[d].target
      <4>1. collector[e].target # collector[d].target
        BY <3>1 DEF OwnersInv, CollectionHasOneOwner
      <4>2. collector'[e].target \in {collector[e].target, Nothing}
        BY <1>2 DEF Idle
      <4> QED BY <3>1, <3>3, <4>1, <4>2, PoolAssumption
    <3> QED BY <3>2, <3>4
  <2> QED BY <2>1 DEF CollectionHasOneOwner, OwnsRow, Idle
<1>8. FailedRowsAreFree'
  <2>1. ASSUME core = "up", NEW d \in Collectors, collector'[d] # Idle
        PROVE  state'[collector'[d].target] # "deletionFailed"
    <3>1. collector[d] # Idle /\ collector'[d].target = collector[d].target
      BY <1>2, <2>1
    <3>2. state[collector[d].target] # "deletionFailed"
      BY <2>1, <3>1 DEF OwnersInv, FailedRowsAreFree
    <3> QED BY <1>4, <1>6, <2>1, <3>1, <3>2
  <2> QED BY <1>3, <2>1 DEF FailedRowsAreFree, Idle
<1> QED BY <1>7, <1>8 DEF OwnersInv

\* A collection begins on a row no worker has: it is ready, or its deletion has failed and
\* its worker has ended.
LEMMA BeginKeepsOwners ==
  ASSUME TypeOK, OwnersInv, NEW c \in Collectors, NEW r \in Resources,
         Collect(c, r) \/ CollectMissing(c, r)
  PROVE  OwnersInv'
<1>1. BeginCollection(c, r) /\ UNCHANGED core
  BY DEF Collect, CollectMissing, BeginCollection
<1>2. collector[c] = Idle
  BY <1>1 DEF BeginCollection
<1>3. /\ RowsAreTyped'
      /\ collector'[c] = [step |-> "quarantine", target |-> r, token |-> token'[r]]
      /\ \A d \in Collectors \ {c} : collector'[d] = collector[d]
      /\ state'[r] = "collecting"
      /\ \A q \in Resources \ {r} : state'[q] = state[q] /\ token'[q] = token[q]
  BY <1>1, BeginGivesWork
<1>4. ASSUME NEW d \in Collectors \ {c}, collector[d] # Idle
      PROVE  collector[d].target \in Resources \ {r}
  <2>1. collector[d].target \in Resources /\ state[collector[d].target] \in Collecting
    BY <1>4, TypeOKParts DEF CollectorsAreTyped, Work, OwnersInv, CollectionHasOneOwner, OwnsRow
  <2>2. state[r] \notin Collecting \/ (core = "up" /\ state[r] = "deletionFailed")
    BY <1>1 DEF Collect, CollectMissing, BeginCollection, Collectible, Collecting
  <2>3. core = "up" => state[collector[d].target] # "deletionFailed"
    BY <1>4 DEF OwnersInv, FailedRowsAreFree
  <2> QED BY <2>1, <2>2, <2>3
<1>5. \A d \in Collectors \ {c} : collector'[d].target # r
  BY <1>3, <1>4, PoolAssumption DEF Idle
<1>6. CollectionHasOneOwner'
  <2>1. ASSUME NEW d \in Collectors, collector'[d] # Idle
        PROVE  /\ token'[collector'[d].target] = collector'[d].token
               /\ state'[collector'[d].target] \in Collecting
               /\ \A e \in Collectors \ {d} : collector'[e].target # collector'[d].target
    <3>1. CASE d = c
      BY <1>3, <1>5, <3>1 DEF Collecting
    <3>2. CASE d # c
      <4>1. collector'[d] = collector[d] /\ collector[d] # Idle
        BY <1>3, <2>1, <3>2
      <4>2. /\ token'[collector[d].target] = collector[d].token
            /\ state'[collector[d].target] \in Collecting
        BY <1>3, <1>4, <3>2, <4>1 DEF OwnersInv, CollectionHasOneOwner, OwnsRow
      <4>3. \A e \in Collectors \ {d, c} : collector'[e].target # collector'[d].target
        BY <1>3, <4>1 DEF OwnersInv, CollectionHasOneOwner
      <4>4. collector'[c].target # collector'[d].target
        BY <1>3, <1>5, <3>2
      <4> QED BY <4>1, <4>2, <4>3, <4>4
    <3> QED BY <3>1, <3>2
  <2> QED BY <2>1 DEF CollectionHasOneOwner, OwnsRow, Idle
<1>7. FailedRowsAreFree'
  <2>1. ASSUME core = "up", NEW d \in Collectors, collector'[d] # Idle
        PROVE  state'[collector'[d].target] # "deletionFailed"
    <3>1. CASE d = c
      BY <1>3, <3>1
    <3>2. CASE d # c
      BY <1>3, <1>4, <2>1, <3>2 DEF OwnersInv, FailedRowsAreFree
    <3> QED BY <3>1, <3>2
  <2> QED BY <1>1, <2>1 DEF FailedRowsAreFree, Idle
<1> QED BY <1>6, <1>7 DEF OwnersInv

\* Reconciliation resumes one collection at a time.
LEMMA ResumeStaleKeepsOwners ==
  ASSUME TypeOK, OwnersInv, NEW c \in Collectors, NEW r \in Resources, ResumeStale(c, r)
  PROVE  OwnersInv'
<1>1. /\ collector'[c] = [step |-> "quarantine", target |-> r, token |-> token[r]]
      /\ \A d \in Collectors \ {c} : collector'[d] = Idle
  BY ResumeStaleGivesWork
<1>2. UNCHANGED <<state, token, core>> /\ core = "reconciling" /\ state[r] \in Collecting
  BY DEF ResumeStale, Visits, catalog
<1>3. ASSUME NEW d \in Collectors, collector'[d] # Idle
      PROVE  /\ token'[collector'[d].target] = collector'[d].token
             /\ state'[collector'[d].target] \in Collecting
             /\ \A e \in Collectors \ {d} : collector'[e].target # collector'[d].target
  <2>1. d = c
    BY <1>1, <1>3
  <2>2. \A e \in Collectors \ {c} : collector'[e].target = Nothing
    BY <1>1 DEF Idle
  <2> QED BY <1>1, <1>2, <2>1, <2>2, PoolAssumption
<1>4. CollectionHasOneOwner'
  BY <1>3 DEF CollectionHasOneOwner, OwnsRow, Idle
<1>5. FailedRowsAreFree'
  BY <1>2 DEF FailedRowsAreFree
<1> QED BY <1>4, <1>5 DEF OwnersInv

LEMMA StepKeepsOwners ==
  ASSUME TypeOK, OwnersInv, [Next]_vars
  PROVE  OwnersInv'
<1>1. ASSUME NEW a \in Runs, RunNext(a)
      PROVE  OwnersInv'
  BY <1>1, RunLeavesOwners
<1>2. ASSUME NEW c \in Collectors, Resume(c)
      PROVE  OwnersInv'
  BY <1>2, ResumeKeepsOwners
<1>3. ASSUME NEW c \in Collectors, NEW r \in Resources, Collect(c, r) \/ CollectMissing(c, r)
      PROVE  OwnersInv'
  BY <1>3, BeginKeepsOwners
<1>4. ASSUME NEW c \in Collectors, NEW r \in Resources, ResumeStale(c, r)
      PROVE  OwnersInv'
  BY <1>4, ResumeStaleKeepsOwners
<1>5. ASSUME \A c \in Collectors : collector'[c] = Idle
      PROVE  OwnersInv'
  BY <1>5 DEF OwnersInv, CollectionHasOneOwner, FailedRowsAreFree, Idle
<1>6. CASE Crash
  BY <1>5, <1>6 DEF Crash
<1>7. CASE FinishReconcile
  BY <1>5, <1>7 DEF FinishReconcile, AllIdle
<1>8. ASSUME UNCHANGED <<state, token, collector>>, core' = core \/ core' # "up"
      PROVE  OwnersInv'
  BY <1>8 DEF OwnersInv, CollectionHasOneOwner, OwnsRow, FailedRowsAreFree, Idle
<1>9. CASE Restart \/ (\E w \in Worktrees : EvictSlot(w)) \/ UNCHANGED vars
  BY <1>8, <1>9 DEF Restart, EvictSlot, vars, catalog
<1> QED BY <1>1, <1>2, <1>3, <1>4, <1>6, <1>7, <1>9 DEF Next, Startup

\* Policy passes, cache clearing and reconciliation never work on the same resource, and a
\* worker's row is being collected under its token, however the fibers interleave.
THEOREM CollectionsHaveOneOwner == Spec => []CollectionHasOneOwner
<1>1. Init => OwnersInv
  BY DEF Init, OwnersInv, CollectionHasOneOwner, FailedRowsAreFree, Idle
<1>2. OwnersInv => CollectionHasOneOwner
  BY DEF OwnersInv
<1> QED BY <1>1, <1>2, StepKeepsOwners, TypeCorrect, PTL DEF Spec

-----------------------------------------------------------------------------
(* Leased files stay *)

\* While Core runs, only a run that uses its worktree has live leases: leases outlive a
\* crash, but the restart deletes them before any run moves.
LeasesAreUsed ==
  core # "down" => \A a \in Runs : lease[a] = "live" => run[a] = "using"

LEMMA StepKeepsUse ==
  ASSUME TypeOK, LeasesAreUsed, [Next]_vars
  PROVE  LeasesAreUsed'
<1>0. OthersAreTyped
  BY TypeOKParts
<1>1. ASSUME NEW a \in Runs, RunNext(a)
      PROVE  LeasesAreUsed'
  <2>1. core' = core
    BY <1>1 DEF RunNext, Prepare, Inspect, RegisterBoth, Register, RecordBoth, RecordUsage,
       AcquireLeases, ReleaseLeases, LeaseExpires, Leave
  <2>2. \A b \in Runs \ {a} : run'[b] = run[b] /\ lease'[b] = lease[b]
    BY <1>0, <1>1 DEF OthersAreTyped, RunNext, Goes, Prepare, Inspect, RegisterBoth, Register, RecordBoth,
       RecordUsage, AcquireLeases, ReleaseLeases, LeaseExpires, Leave
  <2>3. (lease'[a] = "live" /\ core # "down") => run'[a] = "using"
    <3>1. CASE AcquireLeases(a)
      BY <1>0, <3>1 DEF OthersAreTyped, LeasesAreUsed, AcquireLeases, Goes, RunAt
    <3>2. CASE ReleaseLeases(a) \/ LeaseExpires(a)
      BY <1>0, <3>2 DEF OthersAreTyped, ReleaseLeases, LeaseExpires
    <3>3. CASE UNCHANGED lease /\ run[a] # "using"
      BY <3>3 DEF LeasesAreUsed
    <3> QED BY <1>1, <3>1, <3>2, <3>3 DEF RunNext, RunAt, Prepare, Inspect, RegisterBoth, Register,
       RecordBoth, RecordUsage, Leave
  <2> QED BY <2>1, <2>2, <2>3 DEF LeasesAreUsed
<1>2. ASSUME NEW c \in Collectors, Resume(c)
      PROVE  LeasesAreUsed'
  BY <1>2 DEF LeasesAreUsed, Resume, Quarantine, RecordQuarantine, Delete, CompleteDeletion, FailDeletion
<1>3. ASSUME NEW c \in Collectors, NEW r \in Resources, BeginCollection(c, r)
      PROVE  LeasesAreUsed'
  BY <1>3 DEF LeasesAreUsed, BeginCollection
<1>4. ASSUME NEW c \in Collectors, NEW r \in Resources, ResumeStale(c, r)
      PROVE  LeasesAreUsed'
  BY <1>4 DEF LeasesAreUsed, ResumeStale
<1>5. CASE Crash
  BY <1>5 DEF LeasesAreUsed, Crash
<1>6. CASE Restart
  BY <1>6 DEF LeasesAreUsed, Restart
<1>7. CASE FinishReconcile \/ (\E w \in Worktrees : EvictSlot(w)) \/ UNCHANGED vars
  BY <1>7 DEF LeasesAreUsed, FinishReconcile, EvictSlot, vars
<1> QED BY <1>1, <1>2, <1>3, <1>4, <1>5, <1>6, <1>7 DEF Next, Startup, Collect, CollectMissing

\* A step that takes a file away is a quarantine of a row under collection, which has no live
\* lease, an eviction of a free slot, or a run leaving its own worktree, whose leases it has
\* released.
LEMMA StepLeavesLeasedFiles ==
  ASSUME TypeOK, LeaseKeepsReady, CollectionHasOneOwner, LeasesAreUsed, [Next]_vars,
         NEW a \in Runs, lease[a] = "live"
  PROVE  files \cap Needs(a) \subseteq files'
<1>1. ASSUME NEW b \in Runs, RunNext(b)
      PROVE  files \cap Needs(a) \subseteq files'
  <2>1. CASE Leave(b)
    <3>1. b # a
      BY <2>1 DEF Leave, RunAt, LeasesAreUsed
    <3>2. WorktreeOf[b] \notin Needs(a)
      BY <3>1, PoolAssumption DEF Needs
    <3> QED BY <2>1, <3>2 DEF Leave
  <2>2. CASE files \subseteq files'
    BY <2>2
  <2> QED BY <1>1, <2>1, <2>2 DEF RunNext, disk, Prepare, Inspect, RegisterBoth, Register, RecordBoth,
              RecordUsage, AcquireLeases, ReleaseLeases, LeaseExpires
<1>2. ASSUME NEW c \in Collectors, Resume(c)
      PROVE  files \cap Needs(a) \subseteq files'
  <2>1. collector[c] # Idle
    BY <1>2, ResumeMovesOne, WorkIsNotIdle
  <2>2. state[collector[c].target] \in Collecting
    BY <2>1 DEF CollectionHasOneOwner, OwnsRow
  <2>3. collector[c].target \notin Needs(a)
    BY <2>2 DEF LeaseKeepsReady, Collecting
  <2>4. files \ {collector[c].target} \subseteq files'
    BY <1>2 DEF Resume, Quarantine, RecordQuarantine, Delete, CompleteDeletion, FailDeletion, disk
  <2> QED BY <2>3, <2>4
<1>3. ASSUME NEW w \in Worktrees, EvictSlot(w)
      PROVE  files \cap Needs(a) \subseteq files'
  <2>1. run[a] = "using"
    BY <1>3 DEF EvictSlot, LeasesAreUsed
  <2>2. w \notin Needs(a)
    BY <1>3, <2>1, PoolAssumption DEF EvictSlot, Free, Needs
  <2> QED BY <1>3, <2>2 DEF EvictSlot
<1>4. CASE UNCHANGED files
  BY <1>4
<1> QED BY <1>1, <1>2, <1>3, <1>4 DEF Next, Startup, Collect, CollectMissing, BeginCollection, Crash, Restart,
            ResumeStale, FinishReconcile, vars, disk

\* The files of a run whose leases live stay where they are, whatever the collectors, the other
\* runs and restarts do, for any pool that gives each worktree to one run.
THEOREM FilesOfLeasesStay == Spec => LeasedFilesStay
<1>1. Init => LeasesAreUsed
  BY DEF Init, LeasesAreUsed
<1>2. Spec => []LeasesAreUsed
  BY <1>1, StepKeepsUse, TypeCorrect, PTL DEF Spec
<1>3. ASSUME TypeOK, LeaseKeepsReady, CollectionHasOneOwner, LeasesAreUsed, [Next]_vars
      PROVE  [\A a \in Runs : lease[a] = "live" => files \cap Needs(a) \subseteq files']_vars
  BY <1>3, StepLeavesLeasedFiles
<1> QED BY <1>2, <1>3, TypeCorrect, LeasesKeepReady, CollectionsHaveOneOwner, PTL
     DEF Spec, LeasedFilesStay

\* A row is a leasing run's or one collector's, whatever both do to it at once.
THEOREM RowsHaveOneClaim == Spec => []RowsAreClaimedOnce
<1>1. LeaseKeepsReady /\ CollectionHasOneOwner => RowsAreClaimedOnce
  BY DEF RowsAreClaimedOnce
<1> QED BY <1>1, LeasesKeepReady, CollectionsHaveOneOwner, PTL
-----------------------------------------------------------------------------
(* A recorded deletion is real *)

\* A collector that is about to record the deletion has removed the quarantined files.
CompletionIsEmpty ==
  \A c \in Collectors :
    collector[c].step = "complete" => <<collector[c].target, collector[c].token>> \notin quarantine

LEMMA StepKeepsEmpty ==
  ASSUME TypeOK, CollectionHasOneOwner, CompletionIsEmpty, [Next]_vars
  PROVE  CompletionIsEmpty'
<1>0. collector \in [Collectors -> {Idle} \cup Work]
  BY DEF TypeOK, Work
<1>1. ASSUME NEW c \in Collectors, Resume(c)
      PROVE  CompletionIsEmpty'
  <2>1. /\ collector[c] \in Work /\ collector[c] # Idle
        /\ \A d \in Collectors \ {c} : collector'[d] = collector[d]
    BY <1>1, ResumeMovesOne, WorkIsNotIdle
  <2>2. \A d \in Collectors \ {c} :
          collector[d].step = "complete" => collector[d].target # collector[c].target
    BY <2>1 DEF CollectionHasOneOwner
  <2>3. quarantine' \subseteq quarantine \cup {<<collector[c].target, collector[c].token>>}
    BY <1>1 DEF Resume, Quarantine, RecordQuarantine, Delete, CompleteDeletion, FailDeletion, disk
  <2>4. ASSUME NEW d \in Collectors \ {c}, collector'[d].step = "complete"
        PROVE  <<collector'[d].target, collector'[d].token>> \notin quarantine'
    BY <2>1, <2>2, <2>3, <2>4 DEF CompletionIsEmpty
  <2>5. collector'[c].step = "complete" =>
          <<collector'[c].target, collector'[c].token>> \notin quarantine'
    <3>1. CASE Delete(c)
      <4>1. CASE Turns(c, "complete")
        <5>1. /\ collector'[c].target = collector[c].target
              /\ collector'[c].token = collector[c].token
          BY <2>1, <4>1, TurnOfOne DEF CollectorSteps
        <5>2. quarantine' = quarantine \ {<<collector[c].target, collector[c].token>>}
              \/ Turns(c, "fail")
          BY <3>1 DEF Delete
        <5>3. ~Turns(c, "fail")
          BY <1>0, <2>1, <4>1 DEF Turns, Work
        <5> QED BY <5>1, <5>2, <5>3
      <4>2. CASE Turns(c, "fail")
        BY <1>0, <2>1, <4>2 DEF Turns, Work
      <4> QED BY <3>1, <4>1, <4>2 DEF Delete
    <3>2. CASE Turns(c, "record") \/ Turns(c, "delete") \/ Turns(c, "fail")
      BY <1>0, <2>1, <3>2 DEF Turns, Work
    <3>3. CASE Ends(c)
      BY <1>0, <3>3 DEF Ends, Idle
    <3> QED BY <1>1, <3>1, <3>2, <3>3
            DEF Resume, Quarantine, RecordQuarantine, CompleteDeletion, FailDeletion
  <2> QED BY <2>4, <2>5 DEF CompletionIsEmpty
<1>2. ASSUME quarantine' = quarantine,
             \A d \in Collectors : collector'[d] = collector[d] \/ collector'[d].step # "complete"
      PROVE  CompletionIsEmpty'
  BY <1>2 DEF CompletionIsEmpty
<1>3. ASSUME NEW c \in Collectors, NEW r \in Resources, BeginCollection(c, r) \/ ResumeStale(c, r)
      PROVE  CompletionIsEmpty'
  BY <1>0, <1>2, <1>3 DEF BeginCollection, ResumeStale, disk
<1>4. CASE Crash
  BY <1>2, <1>4 DEF Crash, Idle, disk
<1>5. CASE quarantine' = quarantine /\ collector' = collector
  BY <1>2, <1>5
<1> QED BY <1>1, <1>3, <1>4, <1>5
        DEF Next, Startup, Collect, CollectMissing, RunNext, Prepare, Inspect, RegisterBoth,
            Register, RecordBoth, RecordUsage, AcquireLeases, ReleaseLeases, LeaseExpires, Leave,
            EvictSlot, Restart, FinishReconcile, vars, disk

\* A row becomes deleted in completeDeletion alone, under the token of the collection whose
\* quarantined files have been removed, whatever failed or died in between.
THEOREM DeletionsAreReal == Spec => DeletionIsReal
<1> DEFINE Real == \A r \in Resources :
                     (state[r] # "deleted" /\ state'[r] = "deleted")
                       => <<r, token[r]>> \notin quarantine'
<1>1. Init => CompletionIsEmpty
  BY DEF Init, CompletionIsEmpty, Idle
<1>2. Spec => []CompletionIsEmpty
  BY <1>1, StepKeepsEmpty, TypeCorrect, CollectionsHaveOneOwner, PTL DEF Spec
<1>3. ASSUME TypeOK, CompletionIsEmpty, [Next]_vars
      PROVE  [Real]_vars
  <2> SUFFICES ASSUME NEW r \in Resources, state[r] # "deleted", state'[r] = "deleted"
               PROVE  <<r, token[r]>> \notin quarantine'
    OBVIOUS
  <2>0. state \in [Resources -> States]
    BY <1>3 DEF TypeOK
  <2>1. ASSUME NEW c \in Collectors, CompleteDeletion(c)
        PROVE  <<r, token[r]>> \notin quarantine'
    <3>1. /\ collector[c].step = "complete" /\ quarantine' = quarantine
          /\ OwnsRow(c, {"quarantined", "deletionFailed"}) /\ r = collector[c].target
      BY <2>0, <2>1 DEF CompleteDeletion, At, catalog, disk
    <3> QED BY <1>3, <2>1, <3>1 DEF OwnsRow, CompletionIsEmpty
  <2>2. CASE \E c \in Collectors : CompleteDeletion(c)
    BY <2>1, <2>2
  <2>3. CASE ~\E c \in Collectors : CompleteDeletion(c)
    BY ZenonT(40), <2>0, <2>3, <1>3
       DEF Next, Startup, Collect, CollectMissing, BeginCollection, RunNext, Prepare, Inspect,
           RegisterBoth, Register, RecordBoth, RecordUsage, AcquireLeases, ReleaseLeases,
           LeaseExpires, Leave, EvictSlot, Restart, FinishReconcile, Crash, ResumeStale, Resume,
           Quarantine, RecordQuarantine, Delete, FailDeletion, vars, catalog
  <2> QED BY <2>2, <2>3
<1> QED BY <1>2, <1>3, TypeCorrect, PTL DEF Spec, DeletionIsReal
=============================================================================
