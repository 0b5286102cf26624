------------------------------ MODULE ReviewRuns ------------------------------
(***************************************************************************)
(* The local agent's answers in one review thread                          *)
(* (review-agent-operations.ts over review-turn-store.ts, with the worker  *)
(* of review-agent.ts).  A run and its message change in one transaction,  *)
(* so an agent's message in the transcript is the number of its run and    *)
(* has the status of the run.  Threads share only the acceptance           *)
(* semaphore, and no model of a second thread is needed for it.            *)
(***************************************************************************)
EXTENDS Naturals, Sequences, FiniteSets

CONSTANTS
  MaxRuns,       \* bound on the runs of the thread
  MaxMessages,   \* bound on the user's messages
  MaxLives,      \* bound on the starts of Core
  MayMisfire     \* whether the snapshot, the checkout and the store may fail

ASSUME ReviewRunsAssumption ==
  /\ {MaxRuns, MaxMessages} \subseteq Nat
  /\ MaxLives \in Nat \ {0}
  /\ MayMisfire \in BOOLEAN

RunIds == 1..MaxRuns
User == 0                                    \* an entry of the transcript

VARIABLES
  transcript,   \* messages of the thread
  turn,         \* status of each run
  agent,        \* fiber of each run
  stop,         \* request to cancel each run
  asked,        \* runs whose fiber was told to stop
  told,         \* status each run's terminal hint was published for
  stranded,     \* runs whose worker ended and left the row running
  serving,      \* Core is up
  lives         \* starts of Core so far

runVars == <<transcript, turn, agent, stop, asked, told, stranded, serving, lives>>

Ended == {"completed", "failed", "cancelled", "interrupted"}
Registered == {"working", "answered", "failing", "hinting", "telling", "leaving"}

RunsTypeOK ==
  /\ transcript \in Seq({User} \cup RunIds)
  /\ turn \in [RunIds -> Ended \cup {"none", "running"}]
  /\ agent \in [RunIds -> Registered \cup {"none", "accepted", "gone"}]
  /\ stop \in [RunIds -> {"idle", "asking", "won", "waiting", "done", "cut"}]
  /\ asked \subseteq RunIds /\ stranded \subseteq RunIds
  /\ told \in [RunIds -> Ended \cup {"none"}]
  /\ serving \in BOOLEAN /\ lives \in 1..MaxLives

\* A thread begins with a message of the user.
RunsInit ==
  /\ transcript = <<User>>
  /\ turn = [r \in RunIds |-> "none"]
  /\ agent = [r \in RunIds |-> "none"]
  /\ stop = [r \in RunIds |-> "idle"]
  /\ asked = {} /\ stranded = {}
  /\ told = [r \in RunIds |-> "none"]
  /\ serving = TRUE /\ lives = 1

-----------------------------------------------------------------------------
AgentAt(r, s) == agent[r] = s
AgentGo(r, s) == agent' = [agent EXCEPT ![r] = s]
LastEntry == transcript[Len(transcript)]
Messages == {i \in DOMAIN transcript : transcript[i] = User}
LatestMessage == CHOOSE i \in Messages : \A j \in Messages : j <= i
Replies == {transcript[i] : i \in LatestMessage + 1..Len(transcript)}

\* The user writes again once the agent's last reply has ended.
AddMessage ==
  /\ serving
  /\ LastEntry # User /\ turn[LastEntry] # "running"
  /\ Cardinality(Messages) < MaxMessages
  /\ transcript' = Append(transcript, User)
  /\ UNCHANGED <<turn, agent, stop, asked, told, stranded, serving, lives>>

\* Wrong: a message that has its answer is answered again.
Wrong_Answerable == \A r \in Replies : turn[r] # "running"

Answerable == \A r \in Replies : turn[r] \notin {"running", "completed"}

NoActiveTurn == \A r \in RunIds : turn[r] # "running"

\* Behind the acceptance semaphore, which is held until the fiber is in the map.
AcceptTurn(r) ==
  /\ serving
  /\ turn[r] = "none" /\ \A s \in 1..r - 1 : turn[s] # "none"
  /\ \A s \in RunIds : ~AgentAt(s, "accepted")
  /\ Answerable /\ NoActiveTurn
  /\ transcript' = Append(transcript, r)
  /\ turn' = [turn EXCEPT ![r] = "running"]
  /\ AgentGo(r, "accepted")
  /\ UNCHANGED <<stop, asked, told, stranded, serving, lives>>

\* The fiber starts whatever has become of the row.
ForkRun(r) ==
  /\ AgentAt(r, "accepted")
  /\ AgentGo(r, "working")
  /\ UNCHANGED <<transcript, turn, stop, asked, told, stranded, serving, lives>>

AgentReplies(r) ==
  /\ AgentAt(r, "working")
  /\ AgentGo(r, "answered")
  /\ UNCHANGED <<transcript, turn, stop, asked, told, stranded, serving, lives>>

AgentFails(r) ==
  /\ AgentAt(r, "working")
  /\ AgentGo(r, "failing")
  /\ UNCHANGED <<transcript, turn, stop, asked, told, stranded, serving, lives>>

\* The worker ends without a transition of its row.
LeavesRow(r) ==
  /\ AgentGo(r, "hinting")
  /\ stranded' = IF turn[r] = "running" THEN stranded \cup {r} ELSE stranded
  /\ UNCHANGED <<transcript, turn, stop, asked, told, serving, lives>>

\* The snapshot or the checkout cannot be had: this failure is not caught.
PreflightFails(r) == MayMisfire /\ AgentAt(r, "working") /\ LeavesRow(r)

\* Neither is one of the store that should record the end.
EndNotStored(r) == MayMisfire /\ agent[r] \in {"answered", "failing"} /\ LeavesRow(r)

\* Wrong: the end is recorded over one that came before it.
Wrong_SettleTurn(r, s) ==
  /\ turn' = [turn EXCEPT ![r] = s]
  /\ AgentGo(r, "hinting")
  /\ UNCHANGED <<transcript, stop, asked, told, stranded, serving, lives>>

\* requireOwnedActiveTurn: an ended run refuses the end its worker brings.
SettleTurn(r, s) ==
  /\ turn' = [turn EXCEPT ![r] = IF @ = "running" THEN s ELSE @]
  /\ AgentGo(r, "hinting")
  /\ UNCHANGED <<transcript, stop, asked, told, stranded, serving, lives>>

CompleteTurn(r) == AgentAt(r, "answered") /\ SettleTurn(r, "completed")
FailTurn(r) == AgentAt(r, "failing") /\ SettleTurn(r, "failed")

TakeInterrupt(r) ==
  /\ r \in asked
  /\ agent[r] \in {"working", "answered", "failing"}
  /\ LeavesRow(r)

\* What follows the worker cannot be interrupted.  The terminal state is read, then told.
ReadForHint(r) ==
  /\ AgentAt(r, "hinting")
  /\ AgentGo(r, IF turn[r] \in Ended THEN "telling" ELSE "leaving")
  /\ UNCHANGED <<transcript, turn, stop, asked, told, stranded, serving, lives>>

TellEnd(r) ==
  /\ AgentAt(r, "telling")
  /\ told' = [told EXCEPT ![r] = turn[r]]
  /\ AgentGo(r, "leaving")
  /\ UNCHANGED <<transcript, turn, stop, asked, stranded, serving, lives>>

LeaveMap(r) ==
  /\ AgentAt(r, "leaving")
  /\ AgentGo(r, "gone")
  /\ UNCHANGED <<transcript, turn, stop, asked, told, stranded, serving, lives>>

-----------------------------------------------------------------------------
StopAt(r, s) == stop[r] = s
StopGo(r, s) == stop' = [stop EXCEPT ![r] = s]

\* cancel: a run that has ended is answered at once.
BeginStop(r) ==
  /\ serving
  /\ StopAt(r, "idle") /\ turn[r] = "running"
  /\ StopGo(r, "asking")
  /\ UNCHANGED <<transcript, turn, agent, asked, told, stranded, serving, lives>>

RequestStop(r) ==
  /\ StopAt(r, "asking")
  /\ StopGo(r, IF turn[r] = "running" THEN "won" ELSE "done")
  /\ turn' = [turn EXCEPT ![r] = IF @ = "running" THEN "cancelled" ELSE @]
  /\ UNCHANGED <<transcript, agent, asked, told, stranded, serving, lives>>

\* A fiber that is in the map is told to stop; if there is none the hint is published here.
FindFiber(r) ==
  /\ StopAt(r, "won")
  /\ IF agent[r] \in Registered
       THEN StopGo(r, "waiting") /\ asked' = asked \cup {r} /\ UNCHANGED told
       ELSE StopGo(r, "done") /\ told' = [told EXCEPT ![r] = turn[r]] /\ UNCHANGED asked
  /\ UNCHANGED <<transcript, turn, agent, stranded, serving, lives>>

StopReturns(r) ==
  /\ StopAt(r, "waiting") /\ AgentAt(r, "gone")
  /\ StopGo(r, "done")
  /\ UNCHANGED <<transcript, turn, agent, asked, told, stranded, serving, lives>>

\* The request's deadline passes.
StopCut(r) ==
  /\ stop[r] \in {"asking", "won", "waiting"}
  /\ StopGo(r, "cut")
  /\ UNCHANGED <<transcript, turn, agent, asked, told, stranded, serving, lives>>

\* Core ends, or its scope closes: rows stay as they are.
CoreGoes ==
  /\ serving /\ lives < MaxLives
  /\ serving' = FALSE
  /\ agent' = [r \in RunIds |-> IF AgentAt(r, "none") THEN "none" ELSE "gone"]
  /\ stop' = [r \in RunIds |-> IF stop[r] \in {"idle", "done"} THEN stop[r] ELSE "cut"]
  /\ UNCHANGED <<transcript, turn, asked, told, stranded, lives>>

\* Wrong: the runs of the last life are not recovered.
Wrong_RecoverTurns ==
  /\ ~serving
  /\ serving' = TRUE /\ lives' = lives + 1
  /\ UNCHANGED <<transcript, turn, agent, stop, asked, told, stranded>>

\* The next life begins by ending the runs of the last.
RecoverTurns ==
  /\ ~serving
  /\ serving' = TRUE /\ lives' = lives + 1
  /\ turn' = [r \in RunIds |-> IF turn[r] = "running" THEN "interrupted" ELSE turn[r]]
  /\ UNCHANGED <<transcript, agent, stop, asked, told, stranded>>

-----------------------------------------------------------------------------
AgentStep(r) ==
  \/ ForkRun(r) \/ AgentReplies(r) \/ AgentFails(r) \/ PreflightFails(r) \/ EndNotStored(r)
  \/ CompleteTurn(r) \/ FailTurn(r) \/ TakeInterrupt(r)
  \/ ReadForHint(r) \/ TellEnd(r) \/ LeaveMap(r)

StopStep(r) == RequestStop(r) \/ FindFiber(r) \/ StopReturns(r) \/ StopCut(r)

RunsNext ==
  \/ AddMessage \/ CoreGoes \/ RecoverTurns
  \/ \E r \in RunIds : AcceptTurn(r) \/ AgentStep(r) \/ BeginStop(r) \/ StopStep(r)

\* Fibers and requests proceed, an agent answers within its timeout, and Core is started again.
RunsFairness == WF_runVars(RecoverTurns \/ \E r \in RunIds : AgentStep(r) \/ StopStep(r))

RunsSpec == RunsInit /\ [][RunsNext]_runVars

-----------------------------------------------------------------------------
(* What the thread is promised *)

\* A run that is running is the last entry of the thread, and a fiber works on it unless its
\* worker ended without recording an end.
RunningIsDriven ==
  \A r \in RunIds :
    turn[r] = "running" =>
      /\ LastEntry = r
      /\ serving => r \in stranded \/ agent[r] \in {"accepted", "working", "answered", "failing"}

\* A message has at most one complete answer, after which only the user writes.
AnsweredOnce ==
  \A i \in DOMAIN transcript :
    (transcript[i] # User /\ turn[transcript[i]] = "completed") =>
      i = Len(transcript) \/ transcript[i + 1] = User

\* The thread keeps its turns, and a terminal hint stays true.
TurnsAreKept ==
  /\ RunningIsDriven
  /\ AnsweredOnce
  /\ \A r \in RunIds : told[r] \in {"none", turn[r]}

\* A run ends, unless its worker could not say how.
TurnsEnd ==
  \A r \in RunIds : turn[r] = "running" ~> turn[r] \in Ended \/ r \in stranded
=============================================================================
