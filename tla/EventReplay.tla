------------------------------ MODULE EventReplay ------------------------------
(***************************************************************************)
(* The way of a hint from Core to the renderer: the hub numbers the hints  *)
(* of a process epoch and retains the last few (core-event-hub.ts); the    *)
(* desktop host asks, one call at a time, for the hints after its cursor,  *)
(* and relays those about walkthroughs (readReplayedWalkthroughHints).     *)
(* Core may die and come back with a new epoch, whose hints are numbered   *)
(* from one again; a call may fail.  A hint is its number.                 *)
(***************************************************************************)
EXTENDS Naturals, FiniteSets

CONSTANTS
  MaxEpochs,       \* bound on the process epochs of Core
  MaxHints,        \* bound on the hints of an epoch
  ReplayCapacity   \* hints the hub retains

ASSUME EventReplayAssumption ==
  /\ {MaxEpochs, MaxHints} \subseteq Nat
  /\ ReplayCapacity \in Nat \ {0}

VARIABLES
  epoch,      \* process epoch of Core, 0 before its first
  running,    \* whether Core serves requests
  sequence,   \* hints published in the epoch
  retained,   \* those the hub retains
  session,    \* epoch of the Core the host is connected to, or 0
  cursor,     \* the host's cursor: epoch and number of the last hint taken
  call,       \* the replay call under way
  taken,      \* hints the host has taken, with their epochs
  resynced    \* epochs in which the host was told to resynchronize

hubVars == <<sequence, retained>>
hostVars == <<session, cursor, call, taken, resynced>>
replayVars == <<epoch, running, hubVars, hostVars>>

Epochs == 1..MaxEpochs
Hints == 1..MaxHints
NoReplay == [epoch |-> 0, after |-> 0, kind |-> "none", hints |-> {}]

ReplayTypeOK ==
  /\ epoch \in 0..MaxEpochs
  /\ running \in BOOLEAN
  /\ sequence \in 0..MaxHints
  /\ retained \subseteq Hints
  /\ session \in 0..MaxEpochs
  /\ cursor \in [epoch : 0..MaxEpochs, sequence : 0..MaxHints]
  /\ call \in [epoch : 0..MaxEpochs, after : 0..MaxHints,
               kind : {"none", "asked", "replay", "resyncRequired"}, hints : SUBSET Hints]
  /\ taken \subseteq Epochs \X Hints
  /\ resynced \subseteq Epochs

ReplayInit ==
  /\ epoch = 0
  /\ running = FALSE
  /\ sequence = 0
  /\ retained = {}
  /\ session = 0
  /\ cursor = [epoch |-> 0, sequence |-> 0]
  /\ call = NoReplay
  /\ taken = {}
  /\ resynced = {}

-----------------------------------------------------------------------------
(* The hub *)

\* Publications and replays exclude each other, so each is one step.
PublishHints(n) ==
  /\ sequence + n <= MaxHints
  /\ sequence' = sequence + n
  /\ retained' = {s \in retained \cup (sequence + 1)..(sequence + n) :
                    s + ReplayCapacity > sequence + n}

\* A hint about a walkthrough operation.
PublishWalkthrough ==
  /\ running
  /\ PublishHints(1)
  /\ UNCHANGED <<epoch, running, hostVars>>

Oldest == CHOOSE s \in retained : \A r \in retained : s <= r

\* Wrong: a cursor two before the oldest retained hint is taken for current.
Wrong_ResyncRequired(c) ==
  \/ c.epoch # epoch
  \/ c.after > sequence
  \/ retained # {} /\ c.after + 2 < Oldest

\* epochChanged, sequenceGap, cursorExpired: the hint after the cursor is retained no more.
ResyncRequired(c) ==
  \/ c.epoch # epoch
  \/ c.after > sequence
  \/ retained # {} /\ c.after + 1 < Oldest

\* A call whose connection is gone is never answered.
AnswerReplay ==
  /\ running
  /\ call.kind = "asked" /\ call.epoch = session
  /\ call' = IF ResyncRequired(call)
               THEN [call EXCEPT !.epoch = epoch, !.kind = "resyncRequired"]
               ELSE [call EXCEPT !.kind = "replay", !.hints = {s \in retained : s > call.after}]
  /\ UNCHANGED <<epoch, running, hubVars, session, cursor, taken, resynced>>

-----------------------------------------------------------------------------
(* The desktop host *)

Connect ==
  /\ running /\ session = 0
  /\ session' = epoch
  /\ UNCHANGED <<epoch, running, hubVars, cursor, call, taken, resynced>>

\* A cursor of another epoch is worth nothing: the new one is read from its beginning.
AskReplay ==
  /\ session # 0
  /\ call = NoReplay
  /\ call' = [epoch |-> session, kind |-> "asked", hints |-> {},
              after |-> IF cursor.epoch = session THEN cursor.sequence ELSE 0]
  /\ UNCHANGED <<epoch, running, hubVars, session, cursor, taken, resynced>>

TakeReplay ==
  /\ call.kind = "replay"
  /\ taken' = taken \cup {<<call.epoch, s>> : s \in call.hints}
  /\ cursor' = [epoch |-> call.epoch,
                sequence |-> CHOOSE s \in call.hints \cup {call.after} :
                               \A r \in call.hints : r <= s]
  /\ call' = NoReplay
  /\ UNCHANGED <<epoch, running, hubVars, session, resynced>>

\* The host starts again from the beginning of the epoch, and tells nobody.
TakeResync ==
  /\ call.kind = "resyncRequired"
  /\ cursor' = [epoch |-> call.epoch, sequence |-> 0]
  /\ resynced' = resynced \cup {call.epoch}
  /\ call' = NoReplay
  /\ UNCHANGED <<epoch, running, hubVars, session, taken>>

\* The connection is lost with the call, or the call is refused.
ReplayFails ==
  /\ call # NoReplay
  /\ call' = NoReplay
  /\ UNCHANGED <<epoch, running, hubVars, session, cursor, taken, resynced>>

-----------------------------------------------------------------------------
(* Core's epochs *)

CoreEnds ==
  /\ running
  /\ epoch < MaxEpochs
  /\ running' = FALSE
  /\ session' = 0
  /\ UNCHANGED <<epoch, hubVars, cursor, call, taken, resynced>>

\* The new hub knows nothing of the old one; n hints are published as it starts.
CoreStarts(n) ==
  /\ ~running
  /\ epoch < MaxEpochs
  /\ n <= MaxHints
  /\ epoch' = epoch + 1
  /\ running' = TRUE
  /\ sequence' = n
  /\ retained' = {s \in 1..n : s + ReplayCapacity > n}
  /\ UNCHANGED hostVars

ReplayStep ==
  PublishWalkthrough \/ AnswerReplay \/ Connect \/ AskReplay \/ TakeReplay \/ TakeResync \/ ReplayFails

\* Both sides go on, a replay does not fail for ever except on a lost connection, and the
\* host asks again after each of its calls to Core.
ReplayFairness ==
  /\ SF_replayVars(AnswerReplay)
  /\ WF_replayVars(Connect)
  /\ WF_replayVars(AskReplay)
  /\ SF_replayVars(TakeReplay \/ TakeResync)
  /\ WF_replayVars(call.epoch # session /\ ReplayFails)

-----------------------------------------------------------------------------
(* What replay promises *)

\* The host has taken every hint up to its cursor: an answer that leaves a hint out,
\* because the hub has dropped it or because it is of another epoch, is never taken for a
\* continuation.
HintsAreContiguous ==
  \A s \in 1..cursor.sequence : <<cursor.epoch, s>> \in taken

\* A published hint reaches the host, or Core ends, or the host was told in that epoch
\* to resynchronize.
HintsArrive ==
  \A e \in Epochs, s \in Hints :
    epoch = e /\ running /\ sequence >= s
      ~> <<e, s>> \in taken \/ e \in resynced \/ epoch # e \/ ~running
=============================================================================
