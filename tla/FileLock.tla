------------------------------- MODULE FileLock -------------------------------
(***************************************************************************)
(* The file lock of the isolated worktree pool (withFileLock).  A lock is  *)
(* a well-known path linked to the claim file of the attempt that holds    *)
(* it; the claim carries the process id of its writer, by which others     *)
(* judge whether the holder still runs.  Fibers of one process and fibers  *)
(* of several processes contend through the same path, and every call to   *)
(* the file system is a step of its own.                                   *)
(*                                                                         *)
(* An attempt is one call of withFileLock: its token makes its claim       *)
(* unlike any other, so the attempt stands for its claim's inode and       *)
(* contents.  Claims are complete before they are linked: the contents at  *)
(* the lock path always parse, and the corrupt-lock branch is not reached. *)
(***************************************************************************)
EXTENDS PoolProcesses

CONSTANTS
  Attempts,    \* calls of withFileLock
  Home,        \* process of each attempt
  NoAttempt    \* no file at the path, or nothing read

ASSUME FileLockAssumption ==
  /\ Home \in [Attempts -> Processes]
  /\ NoAttempt \notin Attempts

VARIABLES
  link,      \* attempt whose claim is linked at the lock path
  claims,    \* attempts whose claim file exists
  step,      \* next call of each attempt
  inode,     \* attempt whose inode its running inspection saw
  observed   \* what the inspection it acts upon saw: inode and contents

lockVars == <<link, claims, step, inode, observed>>

Looks == {"look", "recheck", "confirm", "reconfirm"}
Reads == {"lookRead", "recheckRead", "confirmRead", "reconfirmRead"}
LockSteps == {"idle", "publish", "wait", "steal", "use", "unlink", "cleanup", "done"}
               \cup Looks \cup Reads

\* The section between a successful publication and the removal of the link.
Holding == {"use", "confirm", "confirmRead", "reconfirm", "reconfirmRead", "unlink"}

Nothing == [inode |-> NoAttempt, contents |-> NoAttempt]

LockTypeOK ==
  /\ link \in Attempts \cup {NoAttempt}
  /\ claims \subseteq Attempts
  /\ step \in [Attempts -> LockSteps]
  /\ inode \in [Attempts -> Attempts \cup {NoAttempt}]
  /\ observed \in [Attempts -> [inode : Attempts \cup {NoAttempt},
                                contents : Attempts \cup {NoAttempt}]]

Runs(a) == life[Home[a]] = "alive"

LockInit ==
  /\ link = NoAttempt
  /\ claims = {}
  /\ step = [a \in Attempts |-> "idle"]
  /\ inode = [a \in Attempts |-> NoAttempt]
  /\ observed = [a \in Attempts |-> Nothing]

-----------------------------------------------------------------------------
LockAt(a, s) == Runs(a) /\ step[a] = s
LockGo(a, s) == step' = [step EXCEPT ![a] = s]

\* A holder that has this process's id without being this process is an earlier one.
ShouldSteal(a, b) ==
  \/ Pid[Home[b]] = Pid[Home[a]] /\ Home[b] # Home[a]
  \/ ~IsProcessAlive(Pid[Home[b]])

-----------------------------------------------------------------------------
CreateClaim(a) ==
  /\ LockAt(a, "idle")
  /\ claims' = claims \cup {a}
  /\ LockGo(a, "publish")
  /\ UNCHANGED <<link, inode, observed>>

\* A claim that cannot be written in full is removed again.
ClaimFails(a) ==
  /\ LockAt(a, "idle")
  /\ LockGo(a, "done")
  /\ UNCHANGED <<link, claims, inode, observed>>

\* Wrong: the lock is published by a rename, which replaces what is there.
Wrong_Publish(a) ==
  /\ LockAt(a, "publish")
  /\ link' = a
  /\ LockGo(a, "use")
  /\ UNCHANGED <<claims, inode, observed>>

\* link(2) publishes the claim or fails because the path exists.
Publish(a) ==
  /\ LockAt(a, "publish")
  /\ IF link = NoAttempt
       THEN link' = a /\ LockGo(a, "use")
       ELSE UNCHANGED link /\ LockGo(a, "look")
  /\ UNCHANGED <<claims, inode, observed>>

-----------------------------------------------------------------------------
(* inspectLock: the identity first, the contents after it *)

Read(s) == CASE s = "look" -> "lookRead"
             [] s = "recheck" -> "recheckRead"
             [] s = "confirm" -> "confirmRead"
             [] s = "reconfirm" -> "reconfirmRead"

\* Where an inspection that finds no lock, or loses it half-way, leads to.
Absent(s) == CASE s \in {"look", "lookRead"} -> "wait"
               [] s \in {"recheck", "recheckRead"} -> "publish"
               [] OTHER -> "cleanup"

Identify(a) ==
  /\ Runs(a)
  /\ step[a] \in Looks
  /\ IF link = NoAttempt
       THEN LockGo(a, Absent(step[a])) /\ UNCHANGED inode
       ELSE LockGo(a, Read(step[a])) /\ inode' = [inode EXCEPT ![a] = link]
  /\ UNCHANGED <<link, claims, observed>>

\* The first look decides by the contents whether the lock is stale.
ReadLook(a) ==
  /\ LockAt(a, "lookRead")
  /\ IF link = NoAttempt
       THEN LockGo(a, "wait") /\ UNCHANGED observed
       ELSE /\ observed' = [observed EXCEPT ![a] = [inode |-> inode[a], contents |-> link]]
            /\ LockGo(a, IF ShouldSteal(a, link) THEN "recheck" ELSE "wait")
  /\ UNCHANGED <<link, claims, inode>>

\* stealObservedLock goes on only if the lock is the one observed.
ReadRecheck(a) ==
  /\ LockAt(a, "recheckRead")
  /\ LockGo(a, IF /\ link # NoAttempt
                  /\ observed[a] = [inode |-> inode[a], contents |-> link]
               THEN "steal" ELSE "publish")
  /\ UNCHANGED <<link, claims, inode, observed>>

\* releasePublishedLock removes only its own link, and looks twice.
ReadOwn(a) ==
  /\ Runs(a)
  /\ step[a] \in {"confirmRead", "reconfirmRead"}
  /\ LockGo(a, IF ~(link = a /\ inode[a] = a) THEN "cleanup"
               ELSE IF step[a] = "confirmRead" THEN "reconfirm" ELSE "unlink")
  /\ UNCHANGED <<link, claims, inode, observed>>

-----------------------------------------------------------------------------
\* rm removes whatever is at the path by now.
RemoveStale(a) ==
  /\ LockAt(a, "steal")
  /\ link' = NoAttempt
  /\ LockGo(a, "publish")
  /\ UNCHANGED <<claims, inode, observed>>

\* The wait is over: another round, or the deadline has passed.
Retry(a) ==
  /\ LockAt(a, "wait")
  /\ LockGo(a, "publish")
  /\ UNCHANGED <<link, claims, inode, observed>>

\* Wrong: the deadline ends the attempt without its finalizers.
Wrong_TimeOut(a) ==
  /\ LockAt(a, "wait")
  /\ LockGo(a, "done")
  /\ UNCHANGED <<link, claims, inode, observed>>

\* Wrong: every round begins with a deadline of its own.
Wrong_Deadline(a) ==
  /\ LockAt(a, "wait")
  /\ LockGo(a, "publish")
  /\ UNCHANGED <<link, claims, inode, observed>>

TimeOut(a) ==
  /\ LockAt(a, "wait")
  /\ LockGo(a, "cleanup")
  /\ UNCHANGED <<link, claims, inode, observed>>

\* An interruption ends the attempt anywhere but in its publication; the finalizers run.
InterruptAttempt(a) ==
  /\ Runs(a)
  /\ step[a] \in {"look", "lookRead", "recheck", "recheckRead", "wait"}
  /\ LockGo(a, "cleanup")
  /\ UNCHANGED <<link, claims, inode, observed>>

\* Wrong: the finalizer that removes the link runs after success only.
Wrong_EndUse(a) ==
  /\ LockAt(a, "use")
  /\ \E s \in {"confirm", "cleanup"} : LockGo(a, s)
  /\ UNCHANGED <<link, claims, inode, observed>>

\* The section ends by success, failure or interruption: the release runs in each case.
EndUse(a) ==
  /\ LockAt(a, "use")
  /\ LockGo(a, "confirm")
  /\ UNCHANGED <<link, claims, inode, observed>>

RemoveOwn(a) ==
  /\ LockAt(a, "unlink")
  /\ link' = NoAttempt
  /\ LockGo(a, "cleanup")
  /\ UNCHANGED <<claims, inode, observed>>

CleanupClaim(a) ==
  /\ LockAt(a, "cleanup")
  /\ claims' = claims \ {a}
  /\ LockGo(a, "done")
  /\ UNCHANGED <<link, inode, observed>>

-----------------------------------------------------------------------------
Attempt(a) ==
  \/ CreateClaim(a) \/ ClaimFails(a) \/ Publish(a) \/ Identify(a)
  \/ ReadLook(a) \/ ReadRecheck(a) \/ ReadOwn(a) \/ RemoveStale(a)
  \/ Retry(a) \/ TimeOut(a) \/ InterruptAttempt(a) \/ EndUse(a)
  \/ RemoveOwn(a) \/ CleanupClaim(a)

LockNext ==
  \/ LifeNext /\ UNCHANGED lockVars
  \/ (\E a \in Attempts : Attempt(a)) /\ UNCHANGED life

lockState == <<life, lockVars>>

\* Every attempt that has begun goes on while its process runs, and its polling ends at
\* the deadline.
LockFairness ==
  \A a \in Attempts : /\ WF_lockVars(step[a] # "idle" /\ Attempt(a))
                      /\ SF_lockVars(TimeOut(a))

LockSpec == LifeInit /\ LockInit /\ [][LockNext]_lockState

-----------------------------------------------------------------------------
(* What the lock promises *)

\* As long as no process has died, whoever is in its section owns the link at the lock
\* path, so no two are: the inspections of others never lead to a removal.
ExcludesUntilDeath ==
  NoneDied =>
    \A a \in Attempts : Runs(a) /\ step[a] \in Holding => link = a

\* A running process is linked at the lock path only while one of its attempts is in its
\* section: whatever way the section ended, and whoever removed which link meanwhile, it
\* leaves nothing that would block every other attempt until the process exits.
NoOrphanLink ==
  link # NoAttempt => ~Runs(link) \/ step[link] \in Holding

\* At no time do two attempts run their section.
OneHolder ==
  \A a, b \in Attempts :
    Runs(a) /\ Runs(b) /\ step[a] = "use" /\ step[b] = "use" => a = b

\* Whoever holds the lock, a dead process whose id another one has by now included, an
\* attempt comes to its end, by its deadline if nothing else ends it, and takes its claim
\* file away.
AttemptEnds ==
  \A a \in Attempts :
    Runs(a) /\ step[a] # "idle" ~> ~Runs(a) \/ (step[a] = "done" /\ a \notin claims)

\* Both together: the lock excludes while nobody has died, and never blocks for nobody.
LockIsOwned == ExcludesUntilDeath /\ NoOrphanLink

=============================================================================
