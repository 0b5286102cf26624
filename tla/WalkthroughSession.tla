-------------------------- MODULE WalkthroughSession --------------------------
(***************************************************************************)
(* The renderer's side of a walkthrough (PreloadWalkthroughOperationSession*)
(* of app/src/platform/walkthrough-operations.ts): one session per review  *)
(* target that starts operations in Core, follows them with queries and    *)
(* settles the promise the panel awaits.  Calls cross two process          *)
(* boundaries: they are answered late, in any order between a query and a  *)
(* cancellation, or fail; hints only prompt a query and may be lost, and a *)
(* timer queries again after every query.                                  *)
(*                                                                         *)
(* A start is numbered; the idempotency key it makes has its number, and   *)
(* so has the operation Core creates under that key.  A snapshot is the    *)
(* operation's number and its version; the last version is terminal.       *)
(*                                                                         *)
(* Core is the one of WalkthroughOperations, reduced to what the session   *)
(* can tell apart: the operations of one review generation, none of them   *)
(* when the session opens.                                                 *)
(***************************************************************************)
EXTENDS Naturals, FiniteSets

CONSTANTS
  MaxStarts,     \* bound on the starts of a session
  LastVersion,   \* version of a terminal operation
  MayLose        \* whether calls may fail and the session may be disposed

ASSUME WalkthroughSessionAssumption ==
  /\ MaxStarts \in Nat \ {0}
  /\ LastVersion \in Nat \ {0, 1}
  /\ MayLose \in BOOLEAN

Starts == 1..MaxStarts
NoStart == 0
Versions == 1..LastVersion

VARIABLES
  core,       \* version of each operation in Core, 0 before it is accepted
  newest,     \* operation Core accepted last
  status,     \* "idle", "accepted", "active" or "terminal"
  shown,      \* operation the session's state is about
  version,    \* version of its snapshot
  started,    \* number of starts
  promise,    \* start the session's promise belongs to
  keys,       \* idempotency keys kept: for the next regeneration, and for the next other start
  accepts,    \* start calls under way, and the operation Core has answered them with
  query,      \* query under way: its operation and the version read for it
  overtaken,  \* whether a cancellation's answer was applied while it was under way
  cancel,     \* cancellation under way, likewise
  timer,      \* whether the fallback timer is set
  hinted,     \* operation whose hints are subscribed to
  disposed

coreVars == <<core, newest>>
stateVars == <<status, shown, version>>
callVars == <<accepts, query, overtaken, cancel>>
sessionVars == <<coreVars, stateVars, started, promise, keys, callVars, timer, hinted, disposed>>

StartCalls == [start : Starts, regenerate : BOOLEAN, key : Starts,
               operation : Starts \cup {NoStart}]
NoCall == [operation |-> NoStart, version |-> 0]
SessionCalls == [operation : Starts \cup {NoStart}, version : 0..LastVersion]

SessionTypeOK ==
  /\ core \in [Starts -> 0..LastVersion]
  /\ newest \in Starts \cup {NoStart}
  /\ status \in {"idle", "accepted", "active", "terminal"}
  /\ shown \in Starts \cup {NoStart}
  /\ version \in 0..LastVersion
  /\ started \in 0..MaxStarts
  /\ promise \in Starts \cup {NoStart}
  /\ keys \in [BOOLEAN -> Starts \cup {NoStart}]
  /\ accepts \subseteq StartCalls
  /\ query \in SessionCalls /\ cancel \in SessionCalls
  /\ overtaken \in BOOLEAN /\ timer \in BOOLEAN /\ disposed \in BOOLEAN
  /\ hinted \in Starts \cup {NoStart}

SessionInit ==
  /\ core = [k \in Starts |-> 0] /\ newest = NoStart
  /\ status = "idle" /\ shown = NoStart /\ version = 0
  /\ started = 0
  /\ promise = NoStart
  /\ keys = [regenerate \in BOOLEAN |-> NoStart]
  /\ accepts = {}
  /\ query = NoCall /\ overtaken = FALSE /\ cancel = NoCall
  /\ timer = FALSE /\ hinted = NoStart /\ disposed = FALSE

-----------------------------------------------------------------------------
(* Core, as far as the session sees it *)

\* An accepted operation goes on until it is terminal.
CoreAdvances(k) ==
  /\ core[k] \in 1..(LastVersion - 1)
  /\ core' = [core EXCEPT ![k] = @ + 1]
  /\ UNCHANGED <<newest, stateVars, started, promise, keys, callVars, timer, hinted, disposed>>

\* The operation created under the key, if there is one; or the latest operation, which a
\* start that does not regenerate is joined to; or a new one, which supersedes the latest.
CoreTakes(c) ==
  LET k == IF core[c.key] = 0 /\ ~c.regenerate /\ newest # NoStart THEN newest ELSE c.key
  IN  /\ c \in accepts /\ c.operation = NoStart
      /\ accepts' = (accepts \ {c}) \cup {[c EXCEPT !.operation = k]}
      /\ IF core[k] # 0
           THEN UNCHANGED coreVars
           ELSE /\ newest' = k
                /\ core' = [o \in Starts |-> IF o = k THEN 1
                                             ELSE IF o = newest THEN LastVersion ELSE core[o]]
      /\ UNCHANGED <<stateVars, started, promise, keys, query, overtaken, cancel, timer, hinted,
                     disposed>>

\* The snapshot a query answers with is the one of this moment.
CoreReads ==
  /\ query # NoCall /\ query.version = 0
  /\ query' = [query EXCEPT !.version = core[query.operation]]
  /\ UNCHANGED <<coreVars, stateVars, started, promise, keys, accepts, overtaken, cancel, timer,
                 hinted, disposed>>

\* A cancellation is answered with a terminal operation: it ends one that runs, and a
\* compare-and-set that it loses is tried again.
CoreCancels ==
  /\ cancel # NoCall /\ cancel.version = 0
  /\ core' = [core EXCEPT ![cancel.operation] = LastVersion]
  /\ cancel' = [cancel EXCEPT !.version = LastVersion]
  /\ UNCHANGED <<newest, stateVars, started, promise, keys, accepts, query, overtaken, timer,
                 hinted, disposed>>

-----------------------------------------------------------------------------
(* Helpers of the session *)

\* #finish: the promise is settled.
FinishStart ==
  /\ promise' = NoStart
  /\ hinted' = NoStart

ScheduleFallback == timer' = (timer \/ (~disposed /\ status' # "terminal"))

\* Wrong: an answer is shown whenever it arrives.
Wrong_Stale(v, late) == FALSE

\* An answer older than one already applied, or than the snapshot shown.
Stale(v, late) == late \/ (status \in {"active", "terminal"} /\ v < version)

\* #applySnapshot of an answer that is not stale.
Show(k, v) ==
  /\ status' = IF v = LastVersion THEN "terminal" ELSE "active"
  /\ shown' = k
  /\ version' = v

-----------------------------------------------------------------------------
(* start *)

\* While a promise is pending, start returns it.  A key that is kept is used again.
StartOperation(regenerate) ==
  LET n == started + 1
      k == IF keys[regenerate] = NoStart THEN n ELSE keys[regenerate]
  IN  /\ started < MaxStarts
      /\ promise = NoStart
      /\ ~disposed
      /\ started' = n
      /\ promise' = n
      /\ keys' = [keys EXCEPT ![regenerate] = k]
      /\ accepts' = accepts \cup {[start |-> n, regenerate |-> regenerate, key |-> k,
                                  operation |-> NoStart]}
      /\ UNCHANGED <<coreVars, stateVars, query, overtaken, cancel, timer, hinted, disposed>>

\* Wrong: no query is scheduled: hints are trusted to arrive.
Wrong_AcceptAnswered(c) ==
  /\ c \in accepts /\ c.operation # NoStart
  /\ accepts' = accepts \ {c}
  /\ keys' = [keys EXCEPT ![c.regenerate] = NoStart]
  /\ status' = "accepted" /\ shown' = c.operation /\ version' = 0
  /\ hinted' = c.operation
  /\ UNCHANGED <<coreVars, started, promise, query, overtaken, cancel, timer, disposed>>

AcceptAnswered(c) ==
  /\ c \in accepts /\ c.operation # NoStart
  /\ accepts' = accepts \ {c}
  /\ keys' = [keys EXCEPT ![c.regenerate] = NoStart]
  /\ status' = "accepted" /\ shown' = c.operation /\ version' = 0
  /\ hinted' = c.operation
  /\ ScheduleFallback
  /\ UNCHANGED <<coreVars, started, promise, query, overtaken, cancel, disposed>>

\* Refused, or lost before or after Core has accepted: the key is kept for a retry.
AcceptFails(c) ==
  /\ MayLose
  /\ c \in accepts
  /\ accepts' = accepts \ {c}
  /\ FinishStart
  /\ timer' = FALSE
  /\ UNCHANGED <<coreVars, stateVars, started, keys, query, overtaken, cancel, disposed>>

-----------------------------------------------------------------------------
(* Queries *)

\* #reconcile does nothing while another query is under way.
ReconcileSession ==
  IF status = "idle" \/ query # NoCall \/ disposed
    THEN UNCHANGED <<query, overtaken>>
    ELSE query' = [operation |-> shown, version |-> 0] /\ overtaken' = FALSE

FallbackFires ==
  /\ timer
  /\ timer' = FALSE
  /\ ReconcileSession
  /\ UNCHANGED <<coreVars, stateVars, started, promise, keys, accepts, cancel, hinted, disposed>>

\* A hint that arrives, for whatever reason it was sent.
HintArrives ==
  /\ hinted # NoStart /\ ~disposed
  /\ ReconcileSession
  /\ UNCHANGED <<coreVars, stateVars, started, promise, keys, accepts, cancel, timer, hinted,
                 disposed>>

\* Wrong: only a terminal answer leads on; otherwise the hints do.
Wrong_QueryAnswered ==
  /\ query.version # 0
  /\ query' = NoCall /\ overtaken' = FALSE
  /\ IF Stale(query.version, overtaken)
       THEN UNCHANGED <<stateVars, promise, hinted, timer>>
       ELSE /\ Show(query.operation, query.version)
            /\ IF query.version = LastVersion
                 THEN FinishStart /\ timer' = FALSE
                 ELSE UNCHANGED <<promise, hinted, timer>>
  /\ UNCHANGED <<coreVars, started, keys, accepts, cancel, disposed>>

\* Whatever the answer does, the next query is scheduled unless the state is terminal.
QueryAnswered ==
  /\ query.version # 0
  /\ query' = NoCall /\ overtaken' = FALSE
  /\ IF Stale(query.version, overtaken)
       THEN UNCHANGED <<stateVars, promise, hinted>>
       ELSE /\ Show(query.operation, query.version)
            /\ IF query.version = LastVersion THEN FinishStart
               ELSE UNCHANGED <<promise, hinted>>
  /\ timer' = (~disposed /\ status' # "terminal")
  /\ UNCHANGED <<coreVars, started, keys, accepts, cancel, disposed>>

\* A transport failure or one worth retrying is ignored; any other rejects the promise.
QueryFails ==
  /\ MayLose
  /\ query # NoCall
  /\ query' = NoCall /\ overtaken' = FALSE
  /\ FinishStart \/ UNCHANGED <<promise, hinted>>
  /\ timer' = (~disposed /\ status # "terminal")
  /\ UNCHANGED <<coreVars, stateVars, started, keys, accepts, cancel, disposed>>

-----------------------------------------------------------------------------
(* cancel and dispose *)

\* The panel offers one cancellation at a time.
CancelOperation ==
  /\ status # "idle" /\ cancel = NoCall
  /\ cancel' = [operation |-> shown, version |-> 0]
  /\ UNCHANGED <<coreVars, stateVars, started, promise, keys, accepts, query, overtaken, timer,
                 hinted, disposed>>

\* Its answer counts as the newest, whatever has happened since it was asked for.
CancelAnswered ==
  /\ cancel.version # 0
  /\ cancel' = NoCall
  /\ IF Stale(cancel.version, FALSE)
       THEN UNCHANGED <<stateVars, promise, hinted, timer, overtaken>>
       ELSE /\ Show(cancel.operation, cancel.version)
            /\ overtaken' = (query # NoCall)
            /\ IF cancel.version = LastVersion
                 THEN FinishStart /\ timer' = FALSE
                 ELSE UNCHANGED <<promise, hinted, timer>>
  /\ UNCHANGED <<coreVars, started, keys, accepts, query, disposed>>

CancelFails ==
  /\ MayLose
  /\ cancel # NoCall
  /\ cancel' = NoCall
  /\ UNCHANGED <<coreVars, stateVars, started, promise, keys, accepts, query, overtaken, timer,
                 hinted, disposed>>

Dispose ==
  /\ MayLose /\ ~disposed
  /\ disposed' = TRUE
  /\ timer' = FALSE /\ hinted' = NoStart
  /\ UNCHANGED <<coreVars, stateVars, started, promise, keys, callVars>>

-----------------------------------------------------------------------------
SessionNext ==
  \/ \E k \in Starts : CoreAdvances(k)
  \/ \E c \in accepts : CoreTakes(c) \/ AcceptAnswered(c) \/ AcceptFails(c)
  \/ CoreReads \/ CoreCancels
  \/ \E regenerate \in BOOLEAN : StartOperation(regenerate)
  \/ FallbackFires \/ HintArrives \/ QueryAnswered \/ QueryFails
  \/ CancelOperation \/ CancelAnswered \/ CancelFails \/ Dispose

\* Operations come to an end and calls are answered or fail, a query not for ever; timers
\* fire.  Nothing is assumed of hints.
SessionFairness ==
  /\ \A k \in Starts : WF_sessionVars(CoreAdvances(k))
  /\ WF_sessionVars(\E c \in accepts : CoreTakes(c) \/ AcceptAnswered(c))
  /\ SF_sessionVars(CoreReads)
  /\ SF_sessionVars(QueryAnswered)
  /\ WF_sessionVars(FallbackFires)
  /\ WF_sessionVars(CoreCancels \/ CancelAnswered)

SessionSpec == SessionInit /\ [][SessionNext]_sessionVars

-----------------------------------------------------------------------------
(* What the session promises *)

\* The snapshot shown of an operation never goes back to an older version: a terminal one
\* stays terminal, however late the answers of queries and cancellations arrive.
ShownNeverGoesBack ==
  [][{status, status'} \subseteq {"active", "terminal"} /\ shown' = shown
       => version' >= version]_sessionVars

\* Every start is settled in the end although every hint may be lost, unless its session
\* is disposed.
StartSettles ==
  \A n \in Starts : promise = n ~> promise # n \/ disposed
=============================================================================
