---------------------------- MODULE PoolProcesses ----------------------------
(***************************************************************************)
(* The operating-system processes that use one directory of isolated       *)
(* worktrees, and what one of them can learn about another: whether a      *)
(* process with a recorded id runs (isProcessAlive).  The file lock and    *)
(* the worktree pool both judge the records of others by it.               *)
(***************************************************************************)
CONSTANTS
  Processes,   \* processes, in the order in which they may be started
  Mortal,      \* those that may die
  Pid          \* process id of each; a later process may get an earlier one's

ASSUME PoolProcessesAssumption ==
  /\ Mortal \subseteq Processes
  /\ DOMAIN Pid = Processes

VARIABLE
  life   \* of each process: "unborn", "alive" or "dead"

LifeTypeOK == life \in [Processes -> {"unborn", "alive", "dead"}]

LifeInit == life = [p \in Processes |-> "unborn"]

\* kill(pid, 0) answers for whichever process has the number now.
IsProcessAlive(pid) == \E p \in Processes : life[p] = "alive" /\ Pid[p] = pid

\* A process id is given to one running process at a time.
Boot(p) ==
  /\ life[p] = "unborn"
  /\ ~IsProcessAlive(Pid[p])
  /\ life' = [life EXCEPT ![p] = "alive"]

\* The files of a dead process stay.
Die(p) ==
  /\ p \in Mortal
  /\ life[p] = "alive"
  /\ life' = [life EXCEPT ![p] = "dead"]

LifeNext == \E p \in Processes : Boot(p) \/ Die(p)

NoneDied == \A p \in Processes : life[p] # "dead"
=============================================================================
