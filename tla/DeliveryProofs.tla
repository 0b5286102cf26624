---------------------------- MODULE DeliveryProofs ----------------------------
(***************************************************************************)
(* The safety of hints and of durable commands, for every number of        *)
(* commands, calls, epochs and hints and every capacity of the hub.        *)
(***************************************************************************)
EXTENDS DurableCommands, FiniteSetTheorems, TLAPS

-----------------------------------------------------------------------------
(* Hints *)

HintTypes ==
  /\ running \in BOOLEAN
  /\ epoch \in Nat /\ sequence \in Nat /\ session \in Nat
  /\ cursor \in [epoch : Nat, sequence : Nat]
  /\ call \in [epoch : Nat, after : Nat, kind : {"none", "asked", "replay", "resyncRequired"},
               hints : SUBSET Nat]

\* The hub retains the last hints of the epoch, as many as it can.
HubKeepsNewest == retained = {s \in 1..sequence : s + ReplayCapacity > sequence}

\* A call asks for what follows the hints that were taken.
CallContinues ==
  call.kind \in {"asked", "replay"} => \A s \in 1..call.after : <<call.epoch, s>> \in taken

\* An answer has every hint up to its last.
AnswerIsWhole ==
  call.kind = "replay" =>
    \E m \in Nat : call.after <= m /\ call.hints = (call.after + 1)..m

ReplayIInv ==
  HintTypes /\ HubKeepsNewest /\ CallContinues /\ AnswerIsWhole /\ HintsAreContiguous

LEMMA ReplayStarts == ReplayInit => ReplayIInv
<1> SUFFICES ASSUME ReplayInit PROVE ReplayIInv
  OBVIOUS
<1> USE DEF ReplayInit
<1>1. call.kind = "none" /\ call.epoch = 0 /\ call.after = 0 /\ call.hints = {}
  BY DEF NoReplay
<1>2. HintTypes
  BY Zenon DEF HintTypes, NoReplay
<1>3. HubKeepsNewest
  BY EventReplayAssumption DEF HubKeepsNewest
<1>4. CallContinues /\ AnswerIsWhole
  BY <1>1 DEF CallContinues, AnswerIsWhole
<1>5. HintsAreContiguous
  BY DEF HintsAreContiguous
<1> QED BY <1>2, <1>3, <1>4, <1>5 DEF ReplayIInv

\* A publication keeps the newest hints, those of which were retained before.
LEMMA PublicationKeepsNewest ==
  ASSUME ReplayIInv, NEW n \in Nat, PublishHints(n)
  PROVE  sequence' \in Nat /\ HubKeepsNewest'
  BY EventReplayAssumption DEF ReplayIInv, HintTypes, HubKeepsNewest, PublishHints

LEMMA HostUnchanged ==
  ASSUME ReplayIInv, UNCHANGED hostVars
  PROVE  CallContinues' /\ AnswerIsWhole' /\ HintsAreContiguous'
  BY DEF ReplayIInv, hostVars, CallContinues, AnswerIsWhole, HintsAreContiguous

\* If nothing is retained nothing was published; otherwise the oldest hint is retained.
LEMMA OldestIsRetained ==
  ASSUME ReplayIInv, retained # {}
  PROVE  Oldest \in retained
<1> USE EventReplayAssumption DEF ReplayIInv, HintTypes, HubKeepsNewest
<1> DEFINE first == IF sequence + 1 > ReplayCapacity THEN sequence - ReplayCapacity + 1 ELSE 1
<1>1. sequence >= 1
  OBVIOUS
<1>2. first \in retained /\ \A r \in retained : first <= r
  BY <1>1
<1>3. \E s \in retained : \A r \in retained : s <= r
  BY <1>2
<1> HIDE DEF first
<1> QED BY <1>3 DEF Oldest

\* An answer that is no resynchronization leaves out no hint after the cursor.
LEMMA AnswersAreWhole ==
  ASSUME ReplayIInv, call.kind = "asked", ~ResyncRequired(call)
  PROVE  /\ call.after <= sequence
         /\ {s \in retained : s > call.after} = (call.after + 1)..sequence
<1> USE EventReplayAssumption DEF ReplayIInv, HintTypes, HubKeepsNewest
<1>1. call.after <= sequence
  BY DEF ResyncRequired
<1>2. CASE retained = {}
  <2>1. sequence = 0
    BY <1>2
  <2> QED BY <1>1, <1>2, <2>1
<1>3. CASE retained # {}
  <2>1. Oldest \in 1..sequence /\ Oldest + ReplayCapacity > sequence
    BY <1>3, OldestIsRetained
  <2>2. call.after + 1 >= Oldest
    BY <1>3, <2>1 DEF ResyncRequired
  <2>3. ASSUME NEW s \in (call.after + 1)..sequence PROVE s \in retained
    BY <2>1, <2>2
  <2> QED BY <1>1, <2>3
<1> QED BY <1>2, <1>3

LEMMA ReplayStepIsSafe ==
  ASSUME ReplayIInv, ReplayStep
  PROVE  ReplayIInv'
<1> USE EventReplayAssumption
<1>1. CASE PublishWalkthrough
  <2>1. PublishHints(1) /\ UNCHANGED <<epoch, running, hostVars>>
    BY <1>1 DEF PublishWalkthrough
  <2>2. sequence' \in Nat /\ HubKeepsNewest'
    BY <2>1, PublicationKeepsNewest
  <2> QED BY <2>1, <2>2, HostUnchanged DEF ReplayIInv, HintTypes, hostVars
<1>2. CASE AnswerReplay
  <2>1. /\ call.kind = "asked" /\ UNCHANGED <<epoch, running, hubVars, session, cursor, taken>>
        /\ \/ call' = [epoch |-> epoch, after |-> call.after, kind |-> "resyncRequired",
                       hints |-> call.hints]
           \/ /\ ~ResyncRequired(call)
              /\ call' = [epoch |-> call.epoch, after |-> call.after, kind |-> "replay",
                          hints |-> {s \in retained : s > call.after}]
    BY <1>2, Zenon DEF AnswerReplay, ReplayIInv, HintTypes
  <2>2. HintTypes'
    BY <2>1 DEF ReplayIInv, HintTypes, HubKeepsNewest, hubVars
  <2>3. HubKeepsNewest' /\ HintsAreContiguous'
    BY <2>1 DEF ReplayIInv, HubKeepsNewest, HintsAreContiguous, hubVars
  <2>4. CallContinues'
    BY <2>1 DEF ReplayIInv, CallContinues
  <2>5. AnswerIsWhole'
    <3>1. SUFFICES ASSUME call'.kind = "replay"
                   PROVE  call.after <= sequence /\ call'.after = call.after
                            /\ call'.hints = (call.after + 1)..sequence
      BY DEF AnswerIsWhole, ReplayIInv, HintTypes
    <3>2. ~ResyncRequired(call) /\ call'.after = call.after
            /\ call'.hints = {s \in retained : s > call.after}
      BY <2>1, <3>1
    <3> QED BY <2>1, <3>2, AnswersAreWhole
  <2> QED BY <2>2, <2>3, <2>4, <2>5 DEF ReplayIInv
<1>3. CASE Connect
  BY <1>3 DEF Connect, ReplayIInv, HintTypes, HubKeepsNewest, CallContinues, AnswerIsWhole,
              HintsAreContiguous, hubVars
<1>4. CASE AskReplay
  BY <1>4 DEF AskReplay, ReplayIInv, HintTypes, HubKeepsNewest, CallContinues, AnswerIsWhole,
              HintsAreContiguous, hubVars, NoReplay
<1>5. CASE TakeReplay
  <2>1. PICK m \in Nat : call.after <= m /\ call.hints = (call.after + 1)..m
    BY <1>5 DEF TakeReplay, ReplayIInv, AnswerIsWhole
  <2> DEFINE last == CHOOSE s \in call.hints \cup {call.after} : \A r \in call.hints : r <= s
  <2>2. m \in call.hints \cup {call.after} /\ \A r \in call.hints : r <= m
    BY <2>1 DEF ReplayIInv, HintTypes
  <2>3. last \in call.hints \cup {call.after} /\ \A r \in call.hints : r <= last
    BY <2>2
  <2>4. last = m
    BY <2>1, <2>2, <2>3 DEF ReplayIInv, HintTypes
  <2> HIDE DEF last
  <2>5. /\ cursor' = [epoch |-> call.epoch, sequence |-> m]
        /\ taken' = taken \cup {<<call.epoch, s>> : s \in call.hints}
        /\ call' = NoReplay
        /\ UNCHANGED <<epoch, running, hubVars, session>>
    BY <1>5, <2>4 DEF TakeReplay, last
  <2>6. ASSUME NEW s \in 1..m PROVE <<call.epoch, s>> \in taken'
    <3>1. CASE s <= call.after
      BY <1>5, <2>5, <3>1 DEF TakeReplay, ReplayIInv, CallContinues, HintTypes
    <3>2. CASE s > call.after
      BY <2>1, <2>5, <3>2 DEF ReplayIInv, HintTypes
    <3> QED BY <3>1, <3>2 DEF ReplayIInv, HintTypes
  <2>7. HintsAreContiguous'
    BY <2>5, <2>6 DEF HintsAreContiguous
  <2> QED BY <2>5, <2>7 DEF ReplayIInv, HintTypes, HubKeepsNewest, CallContinues, AnswerIsWhole,
                            NoReplay, hubVars
<1>6. CASE TakeResync
  BY <1>6 DEF TakeResync, ReplayIInv, HintTypes, HubKeepsNewest, CallContinues, AnswerIsWhole,
              HintsAreContiguous, hubVars, NoReplay
<1>7. CASE ReplayFails
  BY <1>7 DEF ReplayFails, ReplayIInv, HintTypes, HubKeepsNewest, CallContinues, AnswerIsWhole,
              HintsAreContiguous, hubVars, NoReplay
<1> QED BY <1>1, <1>2, <1>3, <1>4, <1>5, <1>6, <1>7 DEF ReplayStep

\* A Core ends or starts: what the host has is as it was, what the hub has is its own.
LEMMA EpochsAreSafe ==
  ASSUME ReplayIInv, NEW n \in Nat, CoreEnds \/ CoreStarts(n)
  PROVE  ReplayIInv'
<1>1. CASE CoreEnds
  BY <1>1 DEF CoreEnds, ReplayIInv, HintTypes, HubKeepsNewest, CallContinues, AnswerIsWhole,
              HintsAreContiguous, hubVars
<1>2. CASE CoreStarts(n)
  <2>1. CallContinues' /\ AnswerIsWhole' /\ HintsAreContiguous'
    BY <1>2, HostUnchanged DEF CoreStarts
  <2>2. HintTypes' /\ HubKeepsNewest'
    BY <1>2 DEF CoreStarts, ReplayIInv, HintTypes, HubKeepsNewest, hostVars
  <2> QED BY <2>1, <2>2 DEF ReplayIInv
<1> QED BY <1>1, <1>2

\* Of the steps of durable commands three touch the hub: the end of a command is published,
\* Core ends, and Core starts and publishes what it recovered.
LEMMA HintsStaySafe ==
  ASSUME ReplayIInv, [CommandNext]_deliveryVars
  PROVE  ReplayIInv'
<1>1. CASE UNCHANGED replayVars
  BY <1>1 DEF replayVars, hubVars, hostVars, ReplayIInv, HintTypes, HubKeepsNewest,
              CallContinues, AnswerIsWhole, HintsAreContiguous
<1>2. ASSUME NEW c \in Commands, PublishEnd(c) PROVE ReplayIInv'
  <2>1. PublishHints(1) /\ UNCHANGED <<epoch, running, hostVars>>
    BY <1>2 DEF PublishEnd
  <2>2. sequence' \in Nat /\ HubKeepsNewest'
    BY <2>1, PublicationKeepsNewest
  <2> QED BY <2>1, <2>2, HostUnchanged DEF ReplayIInv, HintTypes, hostVars
<1>3. CASE Crash
  BY <1>3, EpochsAreSafe, 0 \in Nat DEF Crash
<1>4. CASE Restart
  <2>1. IsFiniteSet(Interrupted)
    BY FS_Subset, DurableCommandsAssumption DEF Interrupted
  <2>2. Cardinality(Interrupted) \in Nat
    BY <2>1, FS_CardinalityType
  <2> QED BY <1>4, <2>2, EpochsAreSafe DEF Restart
<1>5. CASE ReplayStep
  BY <1>5, ReplayStepIsSafe
<1>6. CASE \E x \in Calls : Accept(x) \/ StartWorker(x)
  BY <1>1, <1>6 DEF Accept, StartWorker
<1>7. CASE \E c \in Commands : CommandWork(c) \/ ListUnacknowledged(c)
  BY <1>1, <1>2, <1>7 DEF CommandWork, TakeEffect, FinishCommand, RecordEnd,
                          EndNotRecorded, ListUnacknowledged
<1>8. CASE \E a \in acks : Acknowledge(a)
  BY <1>1, <1>8 DEF Acknowledge
<1> QED BY <1>1, <1>3, <1>4, <1>5, <1>6, <1>7, <1>8 DEF CommandNext, deliveryVars

\* The host has taken every hint up to its cursor, in every behaviour of hub, host and
\* commands.
THEOREM HintsStayContiguous == DeliverySpec => []HintsAreContiguous
<1>1. ReplayInit => ReplayIInv
  BY ReplayStarts
<1>2. ReplayIInv /\ [CommandNext]_deliveryVars => ReplayIInv'
  BY HintsStaySafe
<1>3. ReplayIInv => HintsAreContiguous
  BY DEF ReplayIInv
<1> QED BY <1>1, <1>2, <1>3, PTL DEF DeliverySpec

-----------------------------------------------------------------------------
(* The record of a command *)

Settled == Ends \cup {"acknowledged"}
RowStates == {"none", "accepted"} \cup Settled
Row == [state : RowStates, version : Nat, epoch : Nat]

\* A call has found the row and has not run the command yet.
Called(c) == \E x \in Calls : CommandOf[x] = c /\ calling[x] = "run"

CommandTypes ==
  /\ rows \in [Commands -> Row]
  /\ calling \in [Calls -> {"idle", "run", "done"}]
  /\ fiber \in [Commands -> {"none", "running", "succeeded", "failed", "hint"}]
  /\ effects \in [Commands -> {"none", "some", "all"}]

\* What runs, or is about to run, and what has changed anything has a row.
WorkHasRow(c) ==
  /\ fiber[c] # "none" \/ effects[c] # "none" => rows[c].state # "none"
  /\ Called(c) => rows[c].state # "none"
  /\ ~running => fiber[c] = "none" /\ ~Called(c)

\* All the effect of an accepted command is recorded next, or a completed run of it has lost
\* its record already.
EffectIsFollowed(c) ==
  /\ fiber[c] = "succeeded" => effects[c] = "all"
  /\ fiber[c] = "hint" => rows[c].state \in Settled
  /\ rows[c].state = "accepted" /\ effects[c] = "all" => c \in lost \/ fiber[c] = "succeeded"

RecordIsTrue(c) ==
  /\ rows[c].state = "committed" => effects[c] = "all"
  /\ rows[c].state = "failed" /\ effects[c] = "all" => c \in lost \/ fiber[c] = "succeeded"

Accounted(c) == WorkHasRow(c) /\ EffectIsFollowed(c) /\ RecordIsTrue(c)

CommandIInv == CommandTypes /\ \A c \in Commands : Accounted(c)

LEMMA CommandsStart == CommandInit => CommandIInv
  BY DEF CommandInit, NoRow, CommandIInv, CommandTypes, Row, RowStates, Settled, Ends, Called,
         Accounted, WorkHasRow, EffectIsFollowed, RecordIsTrue

\* An end or an acknowledgement sets the state and counts the version of a row.
LEMMA RowAdvances ==
  ASSUME NEW row \in Row, NEW s \in RowStates
  PROVE  /\ Advanced(row, s) \in Row /\ Advanced(row, s).state = s
         /\ Advanced(row, s) = [state |-> s, version |-> row.version + 1, epoch |-> row.epoch]
<1> DEFINE counted == [row EXCEPT !.version = row.version + 1]
<1>0. row = [state |-> row.state, version |-> row.version, epoch |-> row.epoch]
  BY DEF Row
<1>3. counted = [state |-> row.state, version |-> row.version + 1, epoch |-> row.epoch]
  BY <1>0
<1>4. Advanced(row, s) = [counted EXCEPT !.state = s]
  BY Zenon DEF Advanced
<1> HIDE DEF counted
<1>1. Advanced(row, s) = [state |-> s, version |-> row.version + 1, epoch |-> row.epoch]
  BY <1>3, <1>4
<1>2. row.version + 1 \in Nat
  BY DEF Row
<1> QED BY <1>1, <1>2 DEF Row

LEMMA AcceptKeepsRecord ==
  ASSUME HintTypes, CommandIInv, NEW x \in Calls, Accept(x)
  PROVE  CommandIInv'
<1> DEFINE c == CommandOf[x]
<1> USE DEF CommandIInv
<1>1. c \in Commands
  BY DurableCommandsAssumption
<1>2. /\ running /\ UNCHANGED <<running, fiber, effects, lost>>
      /\ \A y \in Calls \ {x} : calling'[y] = calling[y]
      /\ CommandTypes'
  BY <1>1 DEF Accept, CommandTypes, HintTypes, Row, RowStates, replayVars
<1>3. \A d \in Commands \ {c} : rows'[d].state = rows[d].state
  BY <1>1 DEF Accept, CommandTypes
<1>4. \/ rows[c].state = "none" /\ rows'[c].state = "accepted"
      \/ rows'[c].state = rows[c].state /\ (calling'[x] = "run" => rows[c].state = "accepted")
  BY <1>1 DEF Accept, CommandTypes, NoRow
<1>5. ASSUME NEW d \in Commands PROVE Accounted(d)'
  <2>1. Accounted(d)
    OBVIOUS
  <2>2. Called(d)' => Called(d) \/ (d = c /\ calling'[x] = "run")
    BY <1>2 DEF Called
  <2>3. CASE d # c
    BY <1>2, <1>3, <2>1, <2>2, <2>3
    DEF Accounted, WorkHasRow, EffectIsFollowed, RecordIsTrue
  <2>4. CASE d = c
    BY <1>1, <1>2, <1>4, <2>1, <2>2, <2>4
    DEF Accounted, WorkHasRow, EffectIsFollowed, RecordIsTrue, Settled, Ends
  <2> QED BY <2>3, <2>4
<1> QED BY <1>2, <1>5

LEMMA StartKeepsRecord ==
  ASSUME HintTypes, CommandIInv, NEW x \in Calls, StartWorker(x)
  PROVE  CommandIInv'
<1> DEFINE c == CommandOf[x]
<1> USE DEF CommandIInv
<1>1. c \in Commands /\ Called(c)
  BY DurableCommandsAssumption DEF StartWorker, Called
<1>2. /\ UNCHANGED <<running, rows, effects, lost>>
      /\ CommandTypes'
      /\ \A d \in Commands \ {c} : fiber'[d] = fiber[d]
      /\ \/ fiber'[c] = fiber[c]
         \/ fiber[c] = "none" /\ fiber'[c] = "running"
  BY <1>1 DEF StartWorker, CommandTypes, replayVars
<1>3. ASSUME NEW d \in Commands, Called(d)' PROVE Called(d)
  BY <1>3 DEF StartWorker, Called, CommandTypes
<1>4. ASSUME NEW d \in Commands PROVE Accounted(d)'
  <2>1. Accounted(d)
    OBVIOUS
  <2>2. CASE fiber'[d] = fiber[d]
    BY <1>2, <1>3, <2>1, <2>2
    DEF Accounted, WorkHasRow, EffectIsFollowed, RecordIsTrue
  <2>3. CASE d = c /\ fiber[c] = "none" /\ fiber'[c] = "running"
    BY <1>1, <1>2, <1>3, <2>1, <2>3
    DEF Accounted, WorkHasRow, EffectIsFollowed, RecordIsTrue
  <2> QED BY <1>2, <2>2, <2>3
<1> QED BY <1>2, <1>4

\* A run changes something or ends, its end is recorded or lost, or the hint about it is published.
LEMMA WorkKeepsRecord ==
  ASSUME HintTypes, CommandIInv, NEW c \in Commands, CommandWork(c)
  PROVE  CommandIInv'
<1> USE DEF CommandIInv
<1> DEFINE moved == IF fiber[c] = "succeeded" THEN "committed" ELSE "failed"
<1>1. UNCHANGED <<running, calling>> /\ fiber[c] # "none" /\ rows[c] \in Row
  BY DEF CommandWork, TakeEffect, FinishCommand, RecordEnd, EndNotRecorded, PublishEnd,
         replayVars, CommandTypes
<1>2. /\ CommandTypes'
      /\ \A d \in Commands \ {c} : /\ rows'[d].state = rows[d].state /\ fiber'[d] = fiber[d]
                                   /\ effects'[d] = effects[d]
                                   /\ d \in lost' <=> d \in lost
  <2>1. moved \in RowStates /\ Advanced(rows[c], moved) \in Row
    BY <1>1, RowAdvances DEF RowStates, Settled, Ends
  <2>2. CommandTypes'
    BY <1>1, <2>1 DEF CommandWork, TakeEffect, FinishCommand, RecordEnd, EndNotRecorded,
                      PublishEnd, CommandTypes
  <2> QED BY <2>2 DEF CommandWork, TakeEffect, FinishCommand, RecordEnd, EndNotRecorded,
                      PublishEnd, CommandTypes, Completed
<1>3. ASSUME NEW d \in Commands \ {c} PROVE Accounted(d)'
  BY <1>1, <1>2
  DEF Accounted, WorkHasRow, EffectIsFollowed, RecordIsTrue, Called
<1>4. Accounted(c)'
  <2>1. Accounted(c)
    OBVIOUS
  <2> USE DEF Accounted, WorkHasRow, EffectIsFollowed, RecordIsTrue, Called
  <2>2. CASE TakeEffect(c)
    BY <1>1, <2>1, <2>2 DEF TakeEffect, CommandTypes
  <2>3. CASE FinishCommand(c)
    BY <1>1, <2>1, <2>3 DEF FinishCommand, CommandTypes, Settled, Ends
  <2>4. CASE RecordEnd(c)
    <3>1. CASE rows[c].state = "accepted"
      <4>1. /\ fiber[c] \in {"succeeded", "failed"} /\ fiber'[c] = "hint"
            /\ UNCHANGED <<effects, lost>>
            /\ rows' = [rows EXCEPT ![c] = Advanced(@, moved)]
        BY <2>4, <3>1 DEF RecordEnd, CommandTypes
      <4>2. rows'[c].state = moved
        <5>1. rows'[c] = Advanced(rows[c], moved) /\ moved \in RowStates
          BY <1>1, <4>1 DEF CommandTypes, RowStates, Settled, Ends
        <5> QED BY <1>1, <5>1, RowAdvances
      <4>3. WorkHasRow(c)'
        BY <1>1, <2>1, <4>1, <4>2
      <4>4. EffectIsFollowed(c)' /\ RecordIsTrue(c)'
        <5>1. moved \in Settled /\ moved # "accepted"
          BY DEF Settled, Ends
        <5>2. /\ moved = "committed" => fiber[c] = "succeeded"
              /\ moved = "failed" => fiber[c] # "succeeded"
          OBVIOUS
        <5> HIDE DEF moved
        <5> QED BY <2>1, <3>1, <4>1, <4>2, <5>1, <5>2
      <4> QED BY <4>3, <4>4
    <3>2. CASE rows[c].state # "accepted"
      BY <1>1, <2>1, <2>4, <3>2 DEF RecordEnd, CommandTypes, Completed, Settled, Ends
    <3> QED BY <3>1, <3>2
  <2>5. CASE EndNotRecorded(c)
    BY <1>1, <2>1, <2>5 DEF EndNotRecorded, CommandTypes, Completed
  <2>6. CASE PublishEnd(c)
    BY <1>1, <2>1, <2>6 DEF PublishEnd, CommandTypes, Settled, Ends
  <2> QED BY <2>2, <2>3, <2>4, <2>5, <2>6 DEF CommandWork
<1> QED BY <1>2, <1>3, <1>4

LEMMA AcknowledgeKeepsRecord ==
  ASSUME HintTypes, CommandIInv, NEW a \in acks, a[1] \in Commands, Acknowledge(a)
  PROVE  CommandIInv'
<1> DEFINE c == a[1]
<1> USE DEF CommandIInv
<1>1. rows[c] \in Row /\ Advanced(rows[c], "acknowledged") \in Row
      /\ Advanced(rows[c], "acknowledged").state = "acknowledged"
  BY RowAdvances DEF CommandTypes, RowStates, Settled
<1>2. /\ UNCHANGED <<running, calling, fiber, effects, lost>>
      /\ CommandTypes'
      /\ \A d \in Commands : \/ rows'[d].state = rows[d].state
                             \/ rows[d].state \in Ends /\ rows'[d].state = "acknowledged"
  BY <1>1 DEF Acknowledge, CommandTypes, replayVars
<1>3. ASSUME NEW d \in Commands PROVE Accounted(d)'
  BY <1>2
  DEF Accounted, WorkHasRow, EffectIsFollowed, RecordIsTrue, Called, Settled, Ends
<1> QED BY <1>2, <1>3

LEMMA CrashKeepsRecord ==
  ASSUME HintTypes, CommandIInv, Crash
  PROVE  CommandIInv'
<1> USE DEF CommandIInv
<1>1. /\ UNCHANGED <<rows, effects>> /\ CommandTypes'
      /\ \A d \in Commands : /\ fiber'[d] = "none" /\ ~Called(d)'
                             /\ d \in lost \/ fiber[d] = "succeeded" => d \in lost'
  BY DEF Crash, CommandTypes, Called, Completed
<1>2. ASSUME NEW d \in Commands PROVE Accounted(d)'
  BY <1>1 DEF Accounted, WorkHasRow, EffectIsFollowed, RecordIsTrue
<1> QED BY <1>1, <1>2

LEMMA RestartKeepsRecord ==
  ASSUME HintTypes, CommandIInv, Restart
  PROVE  CommandIInv'
<1> USE DEF CommandIInv
<1>1. ~running /\ UNCHANGED <<calling, fiber, effects, lost>>
  BY DEF Restart, CoreStarts
<1>2. ASSUME NEW d \in Commands
      PROVE  /\ rows'[d] \in Row
             /\ rows'[d].state = IF rows[d].state = "accepted" THEN "failed" ELSE rows[d].state
  <2>1. rows[d] \in Row /\ Advanced(rows[d], "failed") \in Row
        /\ Advanced(rows[d], "failed").state = "failed"
    BY RowAdvances DEF CommandTypes, RowStates, Settled, Ends
  <2> QED BY <2>1 DEF Restart, Interrupted
<1>3. CommandTypes'
  BY <1>1, <1>2 DEF CommandTypes, Restart
<1>4. ASSUME NEW d \in Commands PROVE Accounted(d)'
  BY <1>1, <1>2 DEF Accounted, WorkHasRow, EffectIsFollowed, RecordIsTrue,
                    Called, Settled, Ends
<1> QED BY <1>3, <1>4

\* An acknowledgement under way is of a command.
AcksAreOfCommands == \A a \in acks : a[1] \in Commands

DeliveryIInv == ReplayIInv /\ CommandIInv /\ AcksAreOfCommands

LEMMA AcksStay ==
  ASSUME AcksAreOfCommands, [CommandNext]_deliveryVars
  PROVE  AcksAreOfCommands'
  BY DEF AcksAreOfCommands, CommandNext, CommandWork, Accept, StartWorker, TakeEffect,
         FinishCommand, RecordEnd, EndNotRecorded, PublishEnd, ListUnacknowledged, Acknowledge,
         Crash, Restart, commandVars, deliveryVars

LEMMA RecordStaysTrue ==
  ASSUME DeliveryIInv, [CommandNext]_deliveryVars
  PROVE  CommandIInv'
<1> USE DEF DeliveryIInv, ReplayIInv
<1>1. CASE UNCHANGED <<running, rows, calling, fiber, effects, lost>>
  BY <1>1 DEF CommandIInv, CommandTypes, Accounted, WorkHasRow,
              EffectIsFollowed, RecordIsTrue, Called
<1>2. CASE \E x \in Calls : Accept(x) \/ StartWorker(x)
  BY <1>2, AcceptKeepsRecord, StartKeepsRecord
<1>3. CASE \E c \in Commands : CommandWork(c) \/ ListUnacknowledged(c)
  BY <1>1, <1>3, WorkKeepsRecord DEF ListUnacknowledged, replayVars
<1>4. CASE \E a \in acks : Acknowledge(a)
  BY <1>4, AcknowledgeKeepsRecord DEF AcksAreOfCommands
<1>5. CASE Crash \/ Restart
  BY <1>5, CrashKeepsRecord, RestartKeepsRecord
<1>6. CASE ReplayStep /\ UNCHANGED commandVars
  <2>1. UNCHANGED running
    BY <1>6 DEF ReplayStep, PublishWalkthrough, AnswerReplay, Connect, AskReplay, TakeReplay,
                TakeResync, ReplayFails
  <2> QED BY <1>1, <1>6, <2>1 DEF commandVars
<1> QED
  BY <1>1, <1>2, <1>3, <1>4, <1>5, <1>6 DEF CommandNext, deliveryVars, commandVars, replayVars

\* An end on record is changed by its acknowledgement alone.
LEMMA EndsAreFinal ==
  ASSUME DeliveryIInv, CommandNext, NEW c \in Commands, rows[c].state \in Settled
  PROVE  rows'[c].state \in {rows[c].state, "acknowledged"}
<1> USE DEF DeliveryIInv, CommandIInv, Settled, Ends
<1>1. CASE UNCHANGED rows
  BY <1>1
<1>2. ASSUME NEW x \in Calls, Accept(x) PROVE rows'[c].state = rows[c].state
  <2>1. rows[c] # NoRow
    BY DEF NoRow
  <2> QED BY <1>2, <2>1 DEF Accept, CommandTypes
<1>3. ASSUME NEW d \in Commands, RecordEnd(d) PROVE rows'[c].state = rows[c].state
  BY <1>3 DEF RecordEnd, CommandTypes
<1>4. ASSUME NEW a \in acks, Acknowledge(a)
      PROVE  rows'[c].state \in {rows[c].state, "acknowledged"}
  <2>1. rows[c] \in Row /\ Advanced(rows[c], "acknowledged").state = "acknowledged"
    BY RowAdvances DEF CommandTypes, RowStates
  <2> QED BY <1>4, <2>1 DEF Acknowledge, CommandTypes
<1>5. CASE Restart
  BY <1>5 DEF Restart, Interrupted
<1> QED
  BY <1>1, <1>2, <1>3, <1>4, <1>5
  DEF CommandNext, CommandWork, StartWorker, TakeEffect, FinishCommand, EndNotRecorded,
      PublishEnd, ListUnacknowledged, Crash, commandVars

\* What the record says of a command is true of its effect, and for good, however often
\* the command is called and whenever Core dies: what changed anything is on record, a
\* committed command has all its effect, and one on record as failed has all of it only if a
\* completed run could not record its end.
THEOREM RecordIsTrueForGood == DeliverySpec => OutcomeHolds
<1>1. ReplayInit /\ CommandInit => DeliveryIInv
  BY ReplayStarts, CommandsStart DEF DeliveryIInv, AcksAreOfCommands, CommandInit
<1>2. DeliveryIInv /\ [CommandNext]_deliveryVars => DeliveryIInv'
  BY HintsStaySafe, RecordStaysTrue, AcksStay DEF DeliveryIInv
<1>3. DeliveryIInv => OutcomeIsTrue
  BY DEF DeliveryIInv, CommandIInv, Accounted, WorkHasRow, RecordIsTrue, OutcomeIsTrue,
         Completed
<1>4. DeliveryIInv /\ [CommandNext]_deliveryVars =>
        [\A c \in Commands :
           rows[c].state \in Ends \cup {"acknowledged"} =>
             rows'[c].state \in {rows[c].state, "acknowledged"}]_commandVars
  BY EndsAreFinal DEF Settled, deliveryVars
<1> QED BY <1>1, <1>2, <1>3, <1>4, PTL DEF DeliverySpec, OutcomeHolds, OutcomeIsFinal

-----------------------------------------------------------------------------
(* Types of hints and commands *)

\* A Core that serves has an epoch, and so has every call for hints.
EpochsBegin == (running => epoch # 0) /\ (call.kind # "none" => call.epoch # 0)

HintTypesIInv == ReplayTypeOK /\ EpochsBegin

\* Each change of a command's state counts its version once.
VersionFollowsState ==
  \A c \in Commands :
    /\ rows[c].state = "none" => rows[c].version = 0
    /\ rows[c].state = "accepted" => rows[c].version = 1
    /\ rows[c].state \in Ends => rows[c].version = 2
    /\ rows[c].state = "acknowledged" => rows[c].version = 3

StoredRow == [state : RowStates, version : 0..3, epoch : 0..MaxEpochs]

StoredTypes ==
  /\ rows \in [Commands -> StoredRow]
  /\ CommandTypes
  /\ lost \subseteq Commands /\ unrecorded \subseteq Commands
  /\ acks \subseteq Commands \X (0..3)

CommandTypesIInv == StoredTypes /\ VersionFollowsState

LEMMA PublicationIsTyped ==
  ASSUME HintTypesIInv, NEW n \in Nat, PublishHints(n), UNCHANGED <<epoch, running, hostVars>>
  PROVE  HintTypesIInv'
<1>1. sequence' \in 0..MaxHints
  BY EventReplayAssumption DEF HintTypesIInv, ReplayTypeOK, PublishHints
<1>2. retained' \subseteq Hints
  <2> SUFFICES ASSUME NEW s \in retained' PROVE s \in Hints
    OBVIOUS
  <2>1. s \in retained \/ s \in (sequence + 1)..(sequence + n)
    BY DEF PublishHints
  <2>2. retained \subseteq Hints /\ sequence \in Nat /\ sequence + n <= MaxHints
    BY DEF HintTypesIInv, ReplayTypeOK, PublishHints
  <2>3. CASE s \in (sequence + 1)..(sequence + n)
    <3>1. MaxHints \in Nat
      BY EventReplayAssumption
    <3> QED BY <2>2, <2>3, <3>1 DEF Hints
  <2> QED BY <2>1, <2>2, <2>3
<1>3. UNCHANGED <<epoch, running, session, cursor, call, taken, resynced>>
  BY DEF hostVars
<1> QED BY <1>1, <1>2, <1>3 DEF HintTypesIInv, ReplayTypeOK, EpochsBegin

LEMMA ReplayStepIsTyped ==
  ASSUME HintTypesIInv, ReplayIInv, ReplayStep
  PROVE  HintTypesIInv'
<1> USE EventReplayAssumption
<1>1. CASE PublishWalkthrough
  BY <1>1, PublicationIsTyped DEF PublishWalkthrough
<1>2. CASE AnswerReplay
  <2>1. /\ UNCHANGED <<epoch, running, hubVars, session, cursor, taken, resynced>>
        /\ running /\ call.kind = "asked"
        /\ \/ call' = [epoch |-> epoch, after |-> call.after, kind |-> "resyncRequired",
                       hints |-> call.hints]
           \/ call' = [epoch |-> call.epoch, after |-> call.after, kind |-> "replay",
                       hints |-> {s \in retained : s > call.after}]
    BY <1>2, Zenon DEF AnswerReplay, HintTypesIInv, ReplayTypeOK
  <2>2. epoch \in 0..MaxEpochs /\ epoch # 0 /\ call.after \in 0..MaxHints
          /\ call.epoch \in 0..MaxEpochs /\ call.epoch # 0 /\ call.hints \subseteq Hints
          /\ retained \subseteq Hints
    BY <2>1 DEF HintTypesIInv, ReplayTypeOK, EpochsBegin
  <2>3. call' \in [epoch : 0..MaxEpochs, after : 0..MaxHints,
                   kind : {"none", "asked", "replay", "resyncRequired"}, hints : SUBSET Hints]
          /\ call'.epoch # 0
    BY <2>1, <2>2
  <2> QED BY <2>1, <2>3 DEF HintTypesIInv, ReplayTypeOK, EpochsBegin, hubVars
<1>3. CASE Connect
  BY <1>3 DEF Connect, HintTypesIInv, ReplayTypeOK, EpochsBegin, hubVars
<1>4. CASE AskReplay
  BY <1>4 DEF AskReplay, HintTypesIInv, ReplayTypeOK, EpochsBegin, hubVars
<1>5. CASE TakeReplay
  <2>1. PICK m \in Nat : call.after <= m /\ call.hints = (call.after + 1)..m
    BY <1>5 DEF TakeReplay, ReplayIInv, AnswerIsWhole
  <2> DEFINE last == CHOOSE s \in call.hints \cup {call.after} : \A r \in call.hints : r <= s
  <2>2. m \in call.hints \cup {call.after} /\ \A r \in call.hints : r <= m
    BY <2>1 DEF ReplayIInv, HintTypes
  <2>3. last \in call.hints \cup {call.after}
    BY <2>2
  <2>4. last \in 0..MaxHints
    <3>1. call.hints \subseteq Hints /\ call.after \in 0..MaxHints
      BY DEF HintTypesIInv, ReplayTypeOK
    <3>2. Hints \subseteq 0..MaxHints
      BY DEF Hints
    <3> QED BY <2>3, <3>1, <3>2
  <2> HIDE DEF last
  <2>5. /\ cursor' = [epoch |-> call.epoch, sequence |-> last]
        /\ taken' = taken \cup {<<call.epoch, s>> : s \in call.hints}
        /\ call' = NoReplay /\ call.epoch \in Epochs /\ call.hints \subseteq Hints
        /\ UNCHANGED <<epoch, running, hubVars, session, resynced>>
    BY <1>5 DEF TakeReplay, last, HintTypesIInv, ReplayTypeOK, EpochsBegin, Epochs
  <2> QED BY <2>4, <2>5 DEF HintTypesIInv, ReplayTypeOK, EpochsBegin, NoReplay, hubVars, Epochs
<1>6. CASE TakeResync
  <2>1. /\ UNCHANGED <<epoch, running, hubVars, session, taken>> /\ call' = NoReplay
        /\ cursor' = [epoch |-> call.epoch, sequence |-> 0]
        /\ resynced' = resynced \cup {call.epoch}
        /\ call.epoch \in Epochs
    BY <1>6 DEF TakeResync, HintTypesIInv, ReplayTypeOK, EpochsBegin, Epochs
  <2>2. resynced' \subseteq Epochs
    BY <2>1 DEF HintTypesIInv, ReplayTypeOK
  <2>3. cursor' \in [epoch : 0..MaxEpochs, sequence : 0..MaxHints]
    BY <2>1 DEF Epochs
  <2> QED BY <2>1, <2>2, <2>3 DEF HintTypesIInv, ReplayTypeOK, EpochsBegin, hubVars, NoReplay
<1>7. CASE ReplayFails
  BY <1>7 DEF ReplayFails, HintTypesIInv, ReplayTypeOK, EpochsBegin, hubVars, NoReplay
<1> QED BY <1>1, <1>2, <1>3, <1>4, <1>5, <1>6, <1>7 DEF ReplayStep

LEMMA HintsStayTyped ==
  ASSUME HintTypesIInv, ReplayIInv, [CommandNext]_deliveryVars
  PROVE  HintTypesIInv'
<1> USE EventReplayAssumption
<1>1. CASE UNCHANGED replayVars
  BY <1>1 DEF replayVars, hubVars, hostVars, HintTypesIInv, ReplayTypeOK, EpochsBegin
<1>2. ASSUME NEW c \in Commands, PublishEnd(c) PROVE HintTypesIInv'
  BY <1>2, PublicationIsTyped DEF PublishEnd
<1>3. CASE Crash
  <2>1. /\ ~running' /\ session' = 0
        /\ UNCHANGED <<epoch, sequence, retained, cursor, call, taken, resynced>>
    BY <1>3 DEF Crash, CoreEnds, hubVars
  <2>2. running' \in BOOLEAN
    BY <1>3, Zenon DEF Crash, CoreEnds
  <2> QED BY <2>1, <2>2 DEF HintTypesIInv, ReplayTypeOK, EpochsBegin
<1>4. CASE Restart
  <2>1. Cardinality(Interrupted) \in Nat
    BY FS_Subset, FS_CardinalityType, DurableCommandsAssumption DEF Interrupted
  <2> DEFINE n == Cardinality(Interrupted)
  <2>2. n \in Nat /\ CoreStarts(n)
    BY <1>4, <2>1 DEF Restart
  <2> HIDE DEF n
  <2> QED BY <2>2 DEF CoreStarts, HintTypesIInv, ReplayTypeOK, EpochsBegin, hostVars, Hints
<1>5. CASE ReplayStep
  BY <1>5, ReplayStepIsTyped
<1>6. CASE \E x \in Calls : Accept(x) \/ StartWorker(x)
  BY <1>1, <1>6 DEF Accept, StartWorker
<1>7. CASE \E c \in Commands : CommandWork(c) \/ ListUnacknowledged(c)
  BY <1>1, <1>2, <1>7 DEF CommandWork, TakeEffect, FinishCommand, RecordEnd,
                          EndNotRecorded, ListUnacknowledged
<1>8. CASE \E a \in acks : Acknowledge(a)
  BY <1>1, <1>8 DEF Acknowledge
<1> QED BY <1>1, <1>3, <1>4, <1>5, <1>6, <1>7, <1>8 DEF CommandNext, deliveryVars

LEMMA CommandsStayTyped ==
  ASSUME HintTypesIInv, CommandTypesIInv, [CommandNext]_deliveryVars
  PROVE  CommandTypesIInv'
<1> USE DurableCommandsAssumption, EventReplayAssumption
<1> DEFINE others == /\ calling \in [Calls -> {"idle", "run", "done"}]
                     /\ fiber \in [Commands -> {"none", "running", "succeeded", "failed", "hint"}]
                     /\ effects \in [Commands -> {"none", "some", "all"}]
                     /\ lost \subseteq Commands /\ unrecorded \subseteq Commands
                     /\ acks \subseteq Commands \X (0..3)
<1>1. ASSUME UNCHANGED rows, others' PROVE CommandTypesIInv'
  BY <1>1 DEF CommandTypesIInv, StoredTypes, CommandTypes, VersionFollowsState
<1>2. ASSUME NEW x \in Calls, Accept(x) PROVE CommandTypesIInv'
  <2> DEFINE c == CommandOf[x]
  <2>1. c \in Commands /\ others'
    BY <1>2 DEF Accept, CommandTypesIInv, StoredTypes, CommandTypes
  <2>2. CASE UNCHANGED rows
    BY <1>1, <2>1, <2>2
  <2>3. CASE rows' = [rows EXCEPT ![c] = [state |-> "accepted", version |-> 1, epoch |-> epoch]]
    <3>1. epoch \in 0..MaxEpochs
      BY DEF HintTypesIInv, ReplayTypeOK
    <3> DEFINE row == [state |-> "accepted", version |-> 1, epoch |-> epoch]
    <3>2. row \in StoredRow /\ row \in Row /\ row.state = "accepted" /\ row.version = 1
      BY <3>1 DEF StoredRow, Row, RowStates
    <3> HIDE DEF row
    <3>3. rows' \in [Commands -> StoredRow] /\ rows' \in [Commands -> Row]
            /\ \A d \in Commands : rows'[d] = IF d = c THEN row ELSE rows[d]
      BY <2>1, <2>3, <3>2 DEF row, CommandTypesIInv, StoredTypes, CommandTypes
    <3>4. VersionFollowsState'
      BY <3>2, <3>3 DEF CommandTypesIInv, VersionFollowsState, Ends
    <3> QED BY <2>1, <3>3, <3>4 DEF CommandTypesIInv, StoredTypes, CommandTypes
  <2> QED BY <1>2, <2>2, <2>3 DEF Accept
<1>3. ASSUME NEW x \in Calls, StartWorker(x) PROVE CommandTypesIInv'
  <2>1. others' /\ UNCHANGED rows
    BY <1>3 DEF StartWorker, CommandTypesIInv, StoredTypes, CommandTypes
  <2> QED BY <1>1, <2>1
<1>4. ASSUME NEW c \in Commands,
             \/ TakeEffect(c) \/ FinishCommand(c) \/ EndNotRecorded(c) \/ PublishEnd(c)
             \/ ListUnacknowledged(c)
      PROVE  CommandTypesIInv'
  <2> USE DEF TakeEffect, FinishCommand, EndNotRecorded, PublishEnd, ListUnacknowledged
  <2>1. UNCHANGED <<rows, calling>>
    BY <1>4
  <2>2. /\ fiber' \in [Commands -> {"none", "running", "succeeded", "failed", "hint"}]
        /\ effects' \in [Commands -> {"none", "some", "all"}]
    BY <1>4 DEF CommandTypesIInv, StoredTypes, CommandTypes
  <2>3. lost' \subseteq Commands /\ unrecorded' \subseteq Commands
    BY <1>4 DEF CommandTypesIInv, StoredTypes, Completed
  <2>4. acks' \subseteq Commands \X (0..3)
    <3>1. <<c, rows[c].version>> \in Commands \X (0..3)
      BY DEF CommandTypesIInv, StoredTypes, StoredRow
    <3> QED BY <1>4, <3>1 DEF CommandTypesIInv, StoredTypes
  <2> QED BY <1>1, <2>1, <2>2, <2>3, <2>4 DEF CommandTypesIInv, StoredTypes, CommandTypes
<1>5. ASSUME others',
             \E C \in SUBSET Commands : \E next \in [Commands -> RowStates] :
               /\ \A c \in C : \/ rows[c].state = "accepted" /\ next[c] \in Ends
                               \/ rows[c].state \in Ends /\ next[c] = "acknowledged"
               /\ rows' = [c \in Commands |-> IF c \in C THEN Advanced(rows[c], next[c])
                                                         ELSE rows[c]]
      PROVE  CommandTypesIInv'
  <2>1. PICK C \in SUBSET Commands, next \in [Commands -> RowStates] :
               /\ \A c \in C : \/ rows[c].state = "accepted" /\ next[c] \in Ends
                               \/ rows[c].state \in Ends /\ next[c] = "acknowledged"
               /\ rows' = [c \in Commands |-> IF c \in C THEN Advanced(rows[c], next[c])
                                                         ELSE rows[c]]
    BY <1>5
  <2>2. ASSUME NEW c \in Commands, c \in C
        PROVE  /\ rows[c].version < 3
               /\ rows'[c] = [state |-> next[c], version |-> rows[c].version + 1,
                              epoch |-> rows[c].epoch]
    <3>1. rows[c] \in Row /\ next[c] \in RowStates
      BY <2>1, <2>2 DEF CommandTypesIInv, StoredTypes, CommandTypes
    <3>2. rows[c].version < 3
      BY <2>1, <2>2 DEF CommandTypesIInv, VersionFollowsState
    <3> QED BY <2>1, <2>2, <3>1, <3>2, RowAdvances
  <2>3. ASSUME NEW c \in Commands
        PROVE  /\ rows'[c] \in StoredRow /\ rows'[c] \in Row
               /\ rows'[c].state = "none" => rows'[c].version = 0
               /\ rows'[c].state = "accepted" => rows'[c].version = 1
               /\ rows'[c].state \in Ends => rows'[c].version = 2
               /\ rows'[c].state = "acknowledged" => rows'[c].version = 3
    <3>1. rows[c] \in StoredRow /\ rows[c] \in Row
      BY DEF CommandTypesIInv, StoredTypes, CommandTypes
    <3>2. CASE c \notin C
      BY <2>1, <3>1, <3>2 DEF CommandTypesIInv, VersionFollowsState
    <3>3. CASE c \in C
      <4>1. rows'[c] = [state |-> next[c], version |-> rows[c].version + 1,
                        epoch |-> rows[c].epoch]
        BY <2>2, <3>3
      <4>2. \/ rows[c].version = 1 /\ next[c] \in Ends
            \/ rows[c].version = 2 /\ next[c] = "acknowledged"
        BY <2>1, <3>3 DEF CommandTypesIInv, VersionFollowsState
      <4>3. next[c] \in RowStates /\ rows[c].epoch \in 0..MaxEpochs /\ rows[c].epoch \in Nat
        BY <2>1, <3>1 DEF StoredRow, Row
      <4>4. /\ rows'[c].state = next[c] /\ rows'[c].version = rows[c].version + 1
            /\ rows'[c] \in StoredRow /\ rows'[c] \in Row
        BY <4>1, <4>2, <4>3 DEF StoredRow, Row
      <4> QED BY <4>2, <4>4 DEF Ends
    <3> QED BY <3>2, <3>3
  <2>4. rows' \in [Commands -> StoredRow] /\ rows' \in [Commands -> Row]
    <3>1. DOMAIN rows' = Commands /\ rows' = [c \in Commands |-> rows'[c]]
      BY <2>1
    <3> QED BY <2>3, <3>1
  <2>5. VersionFollowsState'
    BY <2>3 DEF VersionFollowsState
  <2> QED BY <1>5, <2>4, <2>5 DEF CommandTypesIInv, StoredTypes, CommandTypes
<1>6. ASSUME NEW c \in Commands, RecordEnd(c) PROVE CommandTypesIInv'
  <2>1. others'
    BY <1>6 DEF RecordEnd, CommandTypesIInv, StoredTypes, CommandTypes, Completed
  <2>2. CASE UNCHANGED rows
    BY <1>1, <2>1, <2>2
  <2>3. CASE rows[c].state = "accepted"
    <3> DEFINE end == IF fiber[c] = "succeeded" THEN "committed" ELSE "failed"
    <3>1. end \in Ends /\ end \in RowStates
      BY DEF Ends, RowStates, Settled
    <3>2. rows' = [rows EXCEPT ![c] = Advanced(rows[c], end)]
      BY <1>6, <2>3, Zenon DEF RecordEnd
    <3> HIDE DEF end
    <3> DEFINE next == [d \in Commands |-> end]
    <3>3. next \in [Commands -> RowStates] /\ next[c] = end
      BY <3>1
    <3>4. rows' = [d \in Commands |-> IF d \in {c} THEN Advanced(rows[d], next[d]) ELSE rows[d]]
      BY <3>2, <3>3 DEF CommandTypesIInv, StoredTypes
    <3> HIDE DEF next
    <3>5. {c} \in SUBSET Commands
      OBVIOUS
    <3> QED BY <1>5, <2>1, <2>3, <3>1, <3>3, <3>4, <3>5
  <2> QED BY <1>6, <2>2, <2>3 DEF RecordEnd
<1>7. ASSUME NEW a \in acks, Acknowledge(a) PROVE CommandTypesIInv'
  <2> DEFINE c == a[1]
  <2>1. c \in Commands /\ others'
    BY <1>7 DEF Acknowledge, CommandTypesIInv, StoredTypes, CommandTypes
  <2>2. CASE UNCHANGED rows
    BY <1>1, <2>1, <2>2
  <2>3. CASE /\ rows[c].state \in Ends
             /\ rows' = [rows EXCEPT ![c] = Advanced(rows[c], "acknowledged")]
    <3> DEFINE next == [d \in Commands |-> "acknowledged"]
    <3>1. next \in [Commands -> RowStates] /\ next[c] = "acknowledged"
      BY <2>1 DEF RowStates, Settled
    <3>2. rows' = [d \in Commands |-> IF d \in {c} THEN Advanced(rows[d], next[d]) ELSE rows[d]]
      BY <2>3, <3>1 DEF CommandTypesIInv, StoredTypes
    <3> HIDE DEF next
    <3>3. {c} \in SUBSET Commands
      BY <2>1
    <3> HIDE DEF c
    <3>4. \A d \in {c} : rows[d].state \in Ends /\ next[d] = "acknowledged"
      BY <2>3, <3>1
    <3> QED BY <1>5, <2>1, <3>1, <3>2, <3>3, <3>4
  <2> QED BY <1>7, <2>2, <2>3, Zenon DEF Acknowledge
<1>8. CASE Crash
  <2>1. others' /\ UNCHANGED rows
    BY <1>8 DEF Crash, CommandTypesIInv, StoredTypes, CommandTypes, Completed
  <2> QED BY <1>1, <2>1
<1>9. CASE Restart
  <2> DEFINE next == [c \in Commands |-> "failed"]
  <2>1. next \in [Commands -> RowStates] /\ \A c \in Commands : next[c] = "failed"
    BY DEF RowStates, Settled, Ends
  <2>2. Interrupted \in SUBSET Commands /\ \A c \in Interrupted : rows[c].state = "accepted"
    BY DEF Interrupted
  <2>3. rows' = [c \in Commands |->
                   IF c \in Interrupted THEN Advanced(rows[c], next[c]) ELSE rows[c]]
    BY <1>9, <2>1 DEF Restart
  <2>4. "failed" \in Ends
    BY DEF Ends
  <2>5. others'
    BY <1>9 DEF Restart, CommandTypesIInv, StoredTypes, CommandTypes
  <2> HIDE DEF next, others
  <2> QED BY ZenonT(40), <1>5, <2>1, <2>2, <2>3, <2>4, <2>5
<1>10. CASE UNCHANGED commandVars
  BY <1>1, <1>10 DEF commandVars, CommandTypesIInv, StoredTypes, CommandTypes
<1> QED BY <1>2, <1>3, <1>4, <1>6, <1>7, <1>8, <1>9, <1>10
        DEF CommandNext, CommandWork, deliveryVars

\* Hints and commands are of their types, however often commands are called: an epoch, a hint
\* or a cursor is one the hub has numbered, and a row's version counts the changes of its state.
THEOREM DeliveryIsTyped == DeliverySpec => [](ReplayTypeOK /\ CommandTypeOK)
<1> DEFINE Typed == ReplayIInv /\ HintTypesIInv /\ CommandTypesIInv
<1>1. ReplayInit /\ CommandInit => Typed
  <2> SUFFICES ASSUME ReplayInit, CommandInit PROVE Typed
    OBVIOUS
  <2>1. ReplayIInv
    BY ReplayStarts
  <2>2. HintTypesIInv
    <3>1. running \in BOOLEAN /\ ~running
      BY Zenon DEF ReplayInit
    <3> QED BY <3>1, EventReplayAssumption
            DEF ReplayInit, NoReplay, HintTypesIInv, ReplayTypeOK, EpochsBegin
  <2>3. StoredTypes /\ VersionFollowsState
    BY EventReplayAssumption
    DEF CommandInit, NoRow, StoredTypes, CommandTypes, VersionFollowsState, StoredRow, Row,
        RowStates, Ends
  <2> QED BY <2>1, <2>2, <2>3 DEF CommandTypesIInv
<1>2. Typed /\ [CommandNext]_deliveryVars => Typed'
  BY HintsStaySafe, HintsStayTyped, CommandsStayTyped
<1>3. Typed => ReplayTypeOK /\ CommandTypeOK
  <2> SUFFICES ASSUME Typed PROVE ReplayTypeOK /\ CommandTypeOK
    OBVIOUS
  <2>1. ReplayTypeOK
    BY DEF HintTypesIInv
  <2>2. rows \in [Commands -> [state : {"none", "accepted", "acknowledged"} \cup Ends,
                              version : 0..3, epoch : 0..MaxEpochs]]
    <3>1. RowStates = {"none", "accepted", "acknowledged"} \cup Ends
      BY DEF RowStates, Settled
    <3> QED BY <3>1, Zenon DEF CommandTypesIInv, StoredTypes, StoredRow
  <2> QED BY <2>1, <2>2 DEF CommandTypeOK, CommandTypesIInv, StoredTypes, CommandTypes
<1> HIDE DEF Typed
<1> QED BY <1>1, <1>2, <1>3, PTL DEF DeliverySpec
=============================================================================
