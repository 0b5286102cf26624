--------------------------- MODULE DatabaseOwnership ---------------------------
(***************************************************************************)
(* The cross-process ownership lease of the SQLite database: an owner file *)
(* and a gate file beside the database, both created with link(2) from a   *)
(* claim file that holds the contender's exact process identity.  Every    *)
(* file-system call is a step of its own: the contenders are different     *)
(* operating-system processes and interleave between any two calls.        *)
(* makeCoreOwnershipRecovery acquires the lease, runs startup recovery and *)
(* releases the lease when recovery fails or its scope closes.             *)
(*                                                                         *)
(* A process makes one acquisition and at most one release.  Its claim is  *)
(* its own file, under a nonce no other process has, and is not modelled.  *)
(***************************************************************************)
EXTENDS Naturals

CONSTANTS
  Processes,     \* Core processes that contend for the database
  Departed,      \* processes of earlier runs, dead from the start
  Mortal,        \* those that may die at any point
  MayDoubt,      \* whether the inspector may fail to prove life or death
  MaxAttempts,   \* rounds of the gate loop (32 in the code)
  Nobody         \* no file at the path

ASSUME ProcessesAssumption ==
  /\ Departed \subseteq Processes
  /\ Mortal \subseteq Processes
  /\ Nobody \notin Processes
  /\ MayDoubt \in BOOLEAN
  /\ MaxAttempts \in Nat \ {0}

VARIABLES
  alive,    \* processes that run
  owner,    \* identity recorded in <database>.owner
  gate,     \* identity recorded in <database>.owner-gate
  pc,       \* next call of each process
  purpose,  \* whether it acquires the lease or releases it
  holder,   \* identity it last read, from the gate or from the owner file
  attempt   \* rounds of its gate loop so far

vars == <<alive, owner, gate, pc, purpose, holder, attempt>>

GateCalls  == {"linkGate", "readGate", "inspectGate", "unlinkGate"}
OwnerCalls == {"linkOwner", "readOwner", "inspectOwner", "unlinkOwner", "relinkOwner"}
ReleaseCalls == {"checkOwner", "unlinkOwn"}
Calls == {"idle"} \cup GateCalls \cup OwnerCalls \cup ReleaseCalls
           \cup {"leaveHolding", "leaveFailed", "leaveReleased"}
           \cup {"recovering", "owning", "failed", "closed"}

\* A process of an earlier run may have left its owner record behind.
Init ==
  /\ alive = Processes \ Departed
  /\ owner \in Departed \cup {Nobody}
  /\ gate = Nobody
  /\ pc = [p \in Processes |-> "idle"]
  /\ purpose = [p \in Processes |-> "acquire"]
  /\ holder = [p \in Processes |-> Nobody]
  /\ attempt = [p \in Processes |-> 0]

-----------------------------------------------------------------------------
At(p, call) == p \in alive /\ pc[p] = call
Go(p, call) == pc' = [pc EXCEPT ![p] = call]

\* nodeDatabaseOwnerInspector: never the opposite of the truth, uncertain at worst.
Verdicts(q) == {IF q \in alive THEN "alive" ELSE "dead"}
                 \cup (IF MayDoubt THEN {"uncertain"} ELSE {})

\* Outside the gate an error just ends the operation; a failed release is ignored.
Fail(p) == Go(p, "failed")

Begin(p) ==
  /\ At(p, "idle")
  /\ Go(p, "linkGate")
  /\ UNCHANGED <<alive, owner, gate, purpose, holder, attempt>>

-----------------------------------------------------------------------------
(* acquireGate *)

\* Wrong: the gate path is opened whether or not it exists.
Wrong_LinkGate(p) ==
  /\ At(p, "linkGate")
  /\ attempt[p] < MaxAttempts
  /\ gate' = p
  /\ Go(p, IF purpose[p] = "acquire" THEN "linkOwner" ELSE "checkOwner")
  /\ UNCHANGED <<alive, owner, purpose, holder, attempt>>

LinkGate(p) ==
  /\ At(p, "linkGate")
  /\ attempt[p] < MaxAttempts
  /\ IF gate = Nobody
       THEN /\ gate' = p
            /\ Go(p, IF purpose[p] = "acquire" THEN "linkOwner" ELSE "checkOwner")
       ELSE /\ Go(p, "readGate")
            /\ UNCHANGED gate
  /\ UNCHANGED <<alive, owner, purpose, holder, attempt>>

AttemptsExhausted(p) ==
  /\ At(p, "linkGate")
  /\ attempt[p] = MaxAttempts
  /\ Fail(p)
  /\ UNCHANGED <<alive, owner, gate, purpose, holder, attempt>>

\* A gate that vanished in between cannot be read and fails the operation; so does a gate
\* held under this very identity.
ReadGate(p) ==
  /\ At(p, "readGate")
  /\ IF gate \in {Nobody, p}
       THEN Fail(p) /\ UNCHANGED holder
       ELSE Go(p, "inspectGate") /\ holder' = [holder EXCEPT ![p] = gate]
  /\ UNCHANGED <<alive, owner, gate, purpose, attempt>>

InspectGate(p) ==
  /\ At(p, "inspectGate")
  /\ \E verdict \in Verdicts(holder[p]) :
       IF verdict = "dead" THEN Go(p, "unlinkGate") ELSE Fail(p)
  /\ UNCHANGED <<alive, owner, gate, purpose, holder, attempt>>

\* unlinkIfPresent removes whatever the path names by now, then the loop tries again.
UnlinkGate(p) ==
  /\ At(p, "unlinkGate")
  /\ gate' = Nobody
  /\ attempt' = [attempt EXCEPT ![p] = @ + 1]
  /\ Go(p, "linkGate")
  /\ UNCHANGED <<alive, owner, purpose, holder>>

-----------------------------------------------------------------------------
(* acquireOwner, behind the gate *)

\* Wrong: the claim is renamed over the owner path instead of linked to it.
Wrong_LinkOwner(p) ==
  /\ At(p, "linkOwner")
  /\ owner' = p
  /\ Go(p, "leaveHolding")
  /\ UNCHANGED <<alive, gate, purpose, holder, attempt>>

LinkOwner(p) ==
  /\ At(p, "linkOwner")
  /\ IF owner = Nobody
       THEN owner' = p /\ Go(p, "leaveHolding")
       ELSE Go(p, "readOwner") /\ UNCHANGED owner
  /\ UNCHANGED <<alive, gate, purpose, holder, attempt>>

ReadOwner(p) ==
  /\ At(p, "readOwner")
  /\ IF owner = Nobody
       THEN Go(p, "leaveFailed") /\ UNCHANGED holder
       ELSE Go(p, "inspectOwner") /\ holder' = [holder EXCEPT ![p] = owner]
  /\ UNCHANGED <<alive, owner, gate, purpose, attempt>>

\* Wrong: an owner whose death cannot be proved is treated as dead.
Wrong_InspectOwner(p) ==
  /\ At(p, "inspectOwner")
  /\ \E verdict \in Verdicts(holder[p]) :
       Go(p, IF verdict = "alive" THEN "leaveFailed" ELSE "unlinkOwner")
  /\ UNCHANGED <<alive, owner, gate, purpose, holder, attempt>>

InspectOwner(p) ==
  /\ At(p, "inspectOwner")
  /\ \E verdict \in Verdicts(holder[p]) :
       Go(p, IF verdict = "dead" THEN "unlinkOwner" ELSE "leaveFailed")
  /\ UNCHANGED <<alive, owner, gate, purpose, holder, attempt>>

\* Wrong: the stale record is left where it is.
Wrong_UnlinkOwner(p) ==
  /\ At(p, "unlinkOwner")
  /\ Go(p, "relinkOwner")
  /\ UNCHANGED <<alive, owner, gate, purpose, holder, attempt>>

UnlinkOwner(p) ==
  /\ At(p, "unlinkOwner")
  /\ owner' = Nobody
  /\ Go(p, IF owner = Nobody THEN "leaveFailed" ELSE "relinkOwner")
  /\ UNCHANGED <<alive, gate, purpose, holder, attempt>>

RelinkOwner(p) ==
  /\ At(p, "relinkOwner")
  /\ IF owner = Nobody
       THEN owner' = p /\ Go(p, "leaveHolding")
       ELSE Go(p, "leaveFailed") /\ UNCHANGED owner
  /\ UNCHANGED <<alive, gate, purpose, holder, attempt>>

-----------------------------------------------------------------------------
(* releaseOwnership, behind the gate *)

CheckOwner(p) ==
  /\ At(p, "checkOwner")
  /\ Go(p, IF owner = p THEN "unlinkOwn" ELSE "leaveFailed")
  /\ UNCHANGED <<alive, owner, gate, purpose, holder, attempt>>

UnlinkOwn(p) ==
  /\ At(p, "unlinkOwn")
  /\ owner' = Nobody
  /\ Go(p, IF owner = Nobody THEN "leaveFailed" ELSE "leaveReleased")
  /\ UNCHANGED <<alive, gate, purpose, holder, attempt>>

-----------------------------------------------------------------------------
\* releaseGate runs whatever happened behind the gate, and removes the file at the path
\* without asking whose it is.
AfterGate ==
  [leaveHolding |-> "recovering", leaveFailed |-> "failed", leaveReleased |-> "closed"]

LeaveGate(p) ==
  /\ p \in alive
  /\ pc[p] \in DOMAIN AfterGate
  /\ gate' = Nobody
  /\ Go(p, AfterGate[pc[p]])
  /\ UNCHANGED <<alive, owner, purpose, holder, attempt>>

-----------------------------------------------------------------------------
(* makeCoreOwnershipRecovery: the lease is kept while Core runs *)

Recovered(p) ==
  /\ At(p, "recovering")
  /\ Go(p, "owning")
  /\ UNCHANGED <<alive, owner, gate, purpose, holder, attempt>>

\* Startup recovery failed, or the scope that owns the lease closes.
Release(p) ==
  /\ p \in alive
  /\ pc[p] \in {"recovering", "owning"}
  /\ purpose' = [purpose EXCEPT ![p] = "release"]
  /\ attempt' = [attempt EXCEPT ![p] = 0]
  /\ Go(p, "linkGate")
  /\ UNCHANGED <<alive, owner, gate, holder>>

\* A crash, a kill, or the exit after the end of the operation: its files stay.
Die(p) ==
  /\ p \in alive \cap Mortal
  /\ alive' = alive \ {p}
  /\ UNCHANGED <<owner, gate, pc, purpose, holder, attempt>>

-----------------------------------------------------------------------------
GateStep(p) ==
  \/ LinkGate(p) \/ AttemptsExhausted(p) \/ ReadGate(p) \/ InspectGate(p)
  \/ UnlinkGate(p) \/ LeaveGate(p)

OwnerStep(p) ==
  \/ LinkOwner(p) \/ ReadOwner(p) \/ InspectOwner(p) \/ UnlinkOwner(p)
  \/ RelinkOwner(p) \/ CheckOwner(p) \/ UnlinkOwn(p)

Next ==
  \E p \in Processes :
    Begin(p) \/ GateStep(p) \/ OwnerStep(p) \/ Recovered(p) \/ Release(p) \/ Die(p)

Spec == Init /\ [][Next]_vars

\* A live process goes on with the system calls of the operation it has begun.
Fairness == \A p \in Processes : WF_vars(Begin(p) \/ GateStep(p) \/ OwnerStep(p))

FairSpec == Spec /\ Fairness

-----------------------------------------------------------------------------
(* Properties *)

InGate == OwnerCalls \cup ReleaseCalls \cup DOMAIN AfterGate

\* Every variable has its type, and an inspected identity is one that was read from a
\* file, in a round of the gate loop that counts.
TypeOK ==
  /\ alive \subseteq Processes
  /\ owner \in Processes \cup {Nobody}
  /\ gate \in Processes \cup {Nobody}
  /\ pc \in [Processes -> Calls]
  /\ purpose \in [Processes -> {"acquire", "release"}]
  /\ holder \in [Processes -> Processes \cup {Nobody}]
  /\ attempt \in [Processes -> 0..MaxAttempts]
  /\ \A p \in Processes :
       /\ pc[p] \in {"inspectGate", "inspectOwner"} => holder[p] # Nobody
       /\ pc[p] \in GateCalls \ {"linkGate"} => attempt[p] < MaxAttempts

\* p believes that the database is its own.
Holds(p) == p \in alive /\ pc[p] \in {"leaveHolding", "recovering", "owning"}

\* acquireDatabaseOwnership: two live processes never both hold the database, whatever
\* stale record they contend for.
SoleOwner == \A p, q \in Processes : Holds(p) /\ Holds(q) => p = q

\* While a process holds the database, and until its release unlinks it, the record at
\* the owner path is its own: releaseOwnership is then never denied.
RecordNamesHolder ==
  \A p \in alive :
    \/ Holds(p)
    \/ purpose[p] = "release" /\ pc[p] \in GateCalls \cup ReleaseCalls
    => owner = p

\* acquireGate: at most one live process works behind the gate.
GateExcludes ==
  \A p, q \in alive : pc[p] \in InGate /\ pc[q] \in InGate => p = q

\* The two files agree with those who work on them: the record is its holder's, the gate
\* is one process's, in the middle of every acquisition and release.
FilesAreOwned == RecordNamesHolder /\ GateExcludes

\* "Stale records are replaced only when inspector proves the recorded process identity
\* dead": the record of a live process disappears only by that process's own release.
LiveRecordStays ==
  [][\A p \in alive : owner = p /\ owner' # p => pc[p] = "unlinkOwn"]_vars

\* Whatever files a crashed process left, gate, owner record or both, the only process
\* left alive gets the database if it asks for it, stays alive, and the death can be proved.
DeadOwnerIsReplaced ==
  \A p \in Processes : (pc[p] = "idle" /\ alive = {p}) ~> (pc[p] = "recovering" \/ p \notin alive)
=============================================================================
