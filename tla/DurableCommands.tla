---------------------------- MODULE DurableCommands ----------------------------
(***************************************************************************)
(* Durable commands (makeCoreDurableCommandCoordinator over                *)
(* CoreCommandStore): a command is accepted in the database before its     *)
(* effect runs, its end is recorded, a hint about the end is published,    *)
(* and a client acknowledges it.  A call to execute may be repeated with   *)
(* the same command; Core may die at any point and recovers what it had    *)
(* accepted as failed.  The hints go to the hub of EventReplay.            *)
(***************************************************************************)
EXTENDS EventReplay

CONSTANTS
  Commands,      \* command identifiers
  Calls,         \* calls of execute
  CommandOf,     \* command of each call
  MayNotStore    \* whether recording an end may fail

ASSUME DurableCommandsAssumption ==
  /\ CommandOf \in [Calls -> Commands]
  /\ IsFiniteSet(Commands)
  /\ MayNotStore \in BOOLEAN

VARIABLES
  rows,        \* the table: state, version and accepting epoch of each command
  calling,     \* progress of each call
  fiber,       \* progress of the fiber of each command
  effects,     \* what each command has changed: nothing, something, all it is to change
  lost,        \* commands a completed run of which did not get to record its end (history)
  unrecorded,  \* commands whose last run in this epoch could not record its end (history)
  acks         \* acknowledgements under way: command and the version it was told

commandVars == <<rows, calling, fiber, effects, lost, unrecorded, acks>>

Ends == {"committed", "failed"}
NoRow == [state |-> "none", version |-> 0, epoch |-> 0]
Completed(c) == IF fiber[c] = "succeeded" THEN {c} ELSE {}
Advanced(row, state) == [row EXCEPT !.version = @ + 1, !.state = state]

CommandTypeOK ==
  /\ rows \in [Commands -> [state : {"none", "accepted", "acknowledged"} \cup Ends,
                            version : 0..3, epoch : 0..MaxEpochs]]
  /\ calling \in [Calls -> {"idle", "run", "done"}]
  /\ fiber \in [Commands -> {"none", "running", "succeeded", "failed", "hint"}]
  /\ effects \in [Commands -> {"none", "some", "all"}]
  /\ lost \subseteq Commands
  /\ unrecorded \subseteq Commands
  /\ acks \subseteq Commands \X (0..3)

CommandInit ==
  /\ rows = [c \in Commands |-> NoRow]
  /\ calling = [x \in Calls |-> "idle"]
  /\ fiber = [c \in Commands |-> "none"]
  /\ effects = [c \in Commands |-> "none"]
  /\ lost = {}
  /\ unrecorded = {}
  /\ acks = {}

-----------------------------------------------------------------------------
(* execute *)

\* acceptOrGet: a new row; the row there is, if this epoch accepted it; or a conflict.
Accept(x) ==
  LET c == CommandOf[x]
  IN  /\ running /\ calling[x] = "idle"
      /\ IF rows[c] = NoRow
           THEN /\ rows' = [rows EXCEPT ![c] = [state |-> "accepted", version |-> 1,
                                                epoch |-> epoch]]
                /\ calling' = [calling EXCEPT ![x] = "run"]
           ELSE /\ UNCHANGED rows
                /\ calling' = [calling EXCEPT ![x] =
                     IF rows[c].epoch = epoch /\ rows[c].state = "accepted"
                       THEN "run" ELSE "done"]
      /\ UNCHANGED <<fiber, effects, lost, unrecorded, acks, replayVars>>

\* A command whose fiber is in the map is not run again.
StartWorker(x) ==
  LET c == CommandOf[x]
  IN  /\ calling[x] = "run"
      /\ calling' = [calling EXCEPT ![x] = "done"]
      /\ IF fiber[c] = "none"
           THEN /\ fiber' = [fiber EXCEPT ![c] = "running"]
                /\ unrecorded' = unrecorded \ {c}
           ELSE UNCHANGED <<fiber, unrecorded>>
      /\ UNCHANGED <<rows, effects, lost, acks, replayVars>>

\* The command changes something, and goes on.
TakeEffect(c) ==
  /\ fiber[c] = "running"
  /\ effects[c] = "none"
  /\ effects' = [effects EXCEPT ![c] = "some"]
  /\ UNCHANGED <<rows, calling, fiber, lost, unrecorded, acks, replayVars>>

\* Success, with all the changes made; or failure, an interruption by the closing scope
\* included, which leaves what the command has changed as it is.
FinishCommand(c) ==
  /\ fiber[c] = "running"
  /\ \/ /\ fiber' = [fiber EXCEPT ![c] = "succeeded"]
        /\ effects' = [effects EXCEPT ![c] = "all"]
     \/ /\ fiber' = [fiber EXCEPT ![c] = "failed"]
        /\ UNCHANGED effects
  /\ UNCHANGED <<rows, calling, lost, unrecorded, acks, replayVars>>

\* Wrong: a commit does not look at the state of the row, as a failure does.
Wrong_RecordEnd(c) ==
  /\ fiber[c] \in {"succeeded", "failed"}
  /\ IF fiber[c] = "succeeded" \/ rows[c].state = "accepted"
       THEN /\ rows' = [rows EXCEPT ![c].state = IF fiber[c] = "succeeded" THEN "committed"
                                                                         ELSE "failed",
                                    ![c].version = 2]
            /\ fiber' = [fiber EXCEPT ![c] = "hint"]
       ELSE /\ UNCHANGED rows
            /\ fiber' = [fiber EXCEPT ![c] = "none"]
  /\ UNCHANGED <<calling, effects, lost, unrecorded, acks, replayVars>>

\* commit and fail: of several runs of a command the first records its end.
RecordEnd(c) ==
  /\ fiber[c] \in {"succeeded", "failed"}
  /\ IF rows[c].state = "accepted"
       THEN /\ rows' = [rows EXCEPT ![c] = Advanced(@, IF fiber[c] = "succeeded"
                                                          THEN "committed" ELSE "failed")]
            /\ fiber' = [fiber EXCEPT ![c] = "hint"]
            /\ UNCHANGED lost
       ELSE /\ UNCHANGED rows
            /\ fiber' = [fiber EXCEPT ![c] = "none"]
            /\ lost' = lost \cup Completed(c)
  /\ UNCHANGED <<calling, effects, unrecorded, acks, replayVars>>

\* The fiber ends with the error and nobody is told.
EndNotRecorded(c) ==
  /\ MayNotStore
  /\ fiber[c] \in {"succeeded", "failed"}
  /\ fiber' = [fiber EXCEPT ![c] = "none"]
  /\ lost' = lost \cup Completed(c)
  /\ unrecorded' = unrecorded \cup {c}
  /\ UNCHANGED <<rows, calling, effects, acks, replayVars>>

PublishEnd(c) ==
  /\ fiber[c] = "hint"
  /\ PublishHints(1)
  /\ fiber' = [fiber EXCEPT ![c] = "none"]
  /\ UNCHANGED <<rows, calling, effects, lost, unrecorded, acks, epoch, running, hostVars>>

-----------------------------------------------------------------------------
(* Queries and acknowledgements *)

\* A client is told the ends that nobody has acknowledged.
ListUnacknowledged(c) ==
  /\ running
  /\ rows[c].state \in Ends
  /\ acks' = acks \cup {<<c, rows[c].version>>}
  /\ UNCHANGED <<rows, calling, fiber, effects, lost, unrecorded, replayVars>>

\* The first acknowledgement of that version counts, the others change nothing.
Acknowledge(a) ==
  LET c == a[1]
  IN  /\ running /\ a \in acks
      /\ acks' = acks \ {a}
      /\ rows' = IF rows[c].state \in Ends /\ rows[c].version = a[2]
                   THEN [rows EXCEPT ![c] = Advanced(@, "acknowledged")]
                   ELSE rows
      /\ UNCHANGED <<calling, fiber, effects, lost, unrecorded, replayVars>>

-----------------------------------------------------------------------------
(* Crash and restart *)

Crash ==
  /\ CoreEnds
  /\ lost' = lost \cup UNION {Completed(c) : c \in Commands}
  /\ unrecorded' = {}
  /\ fiber' = [c \in Commands |-> "none"]
  /\ calling' = [x \in Calls |-> IF calling[x] = "run" THEN "done" ELSE calling[x]]
  /\ UNCHANGED <<rows, effects, acks>>

Interrupted == {c \in Commands : rows[c].state = "accepted"}

\* Wrong: a start leaves the commands of the last epoch as they are.
Wrong_Restart ==
  /\ CoreStarts(0)
  /\ UNCHANGED <<rows, calling, fiber, effects, lost, unrecorded, acks>>

\* recoverInterrupted, before requests are served: what was accepted has failed.
Restart ==
  /\ CoreStarts(Cardinality(Interrupted))
  /\ rows' = [c \in Commands |->
                IF c \in Interrupted
                  THEN Advanced(rows[c], "failed")
                  ELSE rows[c]]
  /\ UNCHANGED <<calling, fiber, effects, lost, unrecorded, acks>>

-----------------------------------------------------------------------------
CommandWork(c) ==
  TakeEffect(c) \/ FinishCommand(c) \/ RecordEnd(c) \/ EndNotRecorded(c) \/ PublishEnd(c)

CommandNext ==
  \/ \E x \in Calls : Accept(x) \/ StartWorker(x)
  \/ \E c \in Commands : CommandWork(c) \/ ListUnacknowledged(c)
  \/ \E a \in acks : Acknowledge(a)
  \/ Crash \/ Restart
  \/ ReplayStep /\ UNCHANGED commandVars

deliveryVars == <<replayVars, commandVars>>

\* Fibers go on, commands end, and a Core that died is started again.
CommandFairness ==
  /\ \A x \in Calls : WF_deliveryVars(StartWorker(x))
  /\ \A c \in Commands : WF_deliveryVars(CommandWork(c))
  /\ WF_deliveryVars(epoch > 0 /\ Restart)

DeliverySpec == ReplayInit /\ CommandInit /\ [][CommandNext]_deliveryVars

-----------------------------------------------------------------------------
(* What durable commands promise *)

\* What the row says of a command is true of its effect.  Nothing changes before the command
\* is on record, and all of a committed command took effect.  A failed one is one no run of
\* which completed: what it changed before it failed stays, and the row does not tell.  It is
\* failed with all its effect only if a completed run did not get to record its end: the table
\* could not be written, Core died before, or a call that found the command accepted ran it
\* once more after another run of it had failed.
OutcomeIsTrue ==
  \A c \in Commands :
    /\ effects[c] # "none" => rows[c].state # "none"
    /\ rows[c].state = "committed" => effects[c] = "all"
    /\ rows[c].state = "failed" /\ effects[c] = "all" => c \in lost \cup Completed(c)

\* Every accepted command has an end recorded: by its run, or by the next start when Core died
\* under the command or between its effect and its record.  Excepted is a command whose last
\* run could not record its end, until the epoch is over: its next start records that one too.
CommandsEnd ==
  \A c \in Commands :
    rows[c].state = "accepted" ~> rows[c].state # "accepted" \/ c \in unrecorded

\* An end that is on record stays, but for its acknowledgement: neither a second run of the
\* command nor a late acknowledgement or recovery replaces it.
OutcomeIsFinal ==
  [][\A c \in Commands :
       rows[c].state \in Ends \cup {"acknowledged"} =>
         rows'[c].state \in {rows[c].state, "acknowledged"}]_commandVars

\* Both together: the record is true, and for good.
OutcomeHolds == []OutcomeIsTrue /\ OutcomeIsFinal

\* Both together: a command comes to an end on record, and its hint to the host.
DeliveryEnds == CommandsEnd /\ HintsArrive

=============================================================================
