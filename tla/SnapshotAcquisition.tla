-------------------------- MODULE SnapshotAcquisition --------------------------
(***************************************************************************)
(* Shared acquisitions of review snapshots (acquireHosted of               *)
(* core-snapshot-acquisition.ts; acquireLocal shares in the same way): the *)
(* first request for a review reads its metadata and its diff from the     *)
(* provider and stores a snapshot, the requests that come meanwhile wait   *)
(* for the same answer, and a completed snapshot is reused while the       *)
(* review has not moved.  A request whose deadline passes is interrupted   *)
(* wherever it is.                                                         *)
(***************************************************************************)
EXTENDS Naturals

CONSTANTS
  Requests,       \* requests for a snapshot
  ReviewOf,       \* review each one asks for
  MaxRevision,    \* bound on the revisions of a review
  MayInterrupt,   \* whether deadlines may pass
  Nobody          \* no acquisition in flight

Reviews == {ReviewOf[q] : q \in Requests}
Revisions == 1..MaxRevision

ASSUME SnapshotAcquisitionAssumption ==
  /\ DOMAIN ReviewOf = Requests
  /\ MaxRevision \in Nat \ {0}
  /\ MayInterrupt \in BOOLEAN
  /\ Nobody \notin Requests

VARIABLES
  head,        \* revision of each review at the provider
  inFlight,    \* request that owns the deferred of each review
  completed,   \* revision of the completed snapshot of each review, or 0
  progress,    \* of each request
  follows,     \* request whose answer it takes
  since,       \* the review's revision as it began
  detail,      \* revision its metadata named
  result       \* what its deferred was completed with: a revision, or "failed"

acquisitionVars == <<head, inFlight, completed, progress, follows, since, detail, result>>

Acquiring == {"detail", "source", "ingest", "complete"}

AcquisitionTypeOK ==
  /\ head \in [Reviews -> Revisions]
  /\ inFlight \in [Reviews -> Requests \cup {Nobody}]
  /\ completed \in [Reviews -> {0} \cup Revisions]
  /\ progress \in [Requests -> Acquiring \cup {"idle", "waiting", "answered", "interrupted"}]
  /\ follows \in [Requests -> Requests]
  /\ since \in [Requests -> {0} \cup Revisions]
  /\ detail \in [Requests -> {0} \cup Revisions]
  /\ result \in [Requests -> [done : BOOLEAN, revision : {0} \cup Revisions]]

Pending == [done |-> FALSE, revision |-> 0]
Failure == [done |-> TRUE, revision |-> 0]
Success(v) == [done |-> TRUE, revision |-> v]

AcquisitionInit ==
  /\ head = [r \in Reviews |-> 1]
  /\ inFlight = [r \in Reviews |-> Nobody]
  /\ completed = [r \in Reviews |-> 0]
  /\ progress = [q \in Requests |-> "idle"]
  /\ follows = [q \in Requests |-> q]
  /\ since = [q \in Requests |-> 0]
  /\ detail = [q \in Requests |-> 0]
  /\ result = [q \in Requests |-> Pending]

-----------------------------------------------------------------------------
Review(q) == ReviewOf[q]
Proceed(q, s) == progress' = [progress EXCEPT ![q] = s]

\* Someone pushes to the review.
Push(r) ==
  /\ head[r] < MaxRevision
  /\ head' = [head EXCEPT ![r] = @ + 1]
  /\ UNCHANGED <<inFlight, completed, progress, follows, since, detail, result>>

Acquire(q) ==
  /\ progress[q] = "idle"
  /\ since' = [since EXCEPT ![q] = head[Review(q)]]
  /\ IF inFlight[Review(q)] = Nobody
       THEN /\ inFlight' = [inFlight EXCEPT ![Review(q)] = q]
            /\ Proceed(q, "detail")
            /\ UNCHANGED follows
       ELSE /\ follows' = [follows EXCEPT ![q] = inFlight[Review(q)]]
            /\ Proceed(q, "waiting")
            /\ UNCHANGED inFlight
  /\ UNCHANGED <<head, completed, detail, result>>

\* Wrong: a completed snapshot is reused whatever the metadata says.
Wrong_ReadDetail(q) ==
  /\ progress[q] = "detail"
  /\ detail' = [detail EXCEPT ![q] = head[Review(q)]]
  /\ IF completed[Review(q)] # 0
       THEN /\ result' = [result EXCEPT ![q] = [done |-> FALSE, revision |-> completed[Review(q)]]]
            /\ Proceed(q, "complete")
       ELSE Proceed(q, "source") /\ UNCHANGED result
  /\ UNCHANGED <<head, inFlight, completed, follows, since>>

\* acquireHostedOnce: a completed snapshot is reused if its revisions are the current ones.
ReadDetail(q) ==
  /\ progress[q] = "detail"
  /\ detail' = [detail EXCEPT ![q] = head[Review(q)]]
  /\ IF completed[Review(q)] = head[Review(q)]
       THEN /\ result' = [result EXCEPT ![q] = [done |-> FALSE, revision |-> head[Review(q)]]]
            /\ Proceed(q, "complete")
       ELSE Proceed(q, "source") /\ UNCHANGED result
  /\ UNCHANGED <<head, inFlight, completed, follows, since>>

\* The diff offered must be of the revision the metadata named.
ReadSource(q) ==
  /\ progress[q] = "source"
  /\ Proceed(q, IF head[Review(q)] = detail[q] THEN "ingest" ELSE "complete")
  /\ UNCHANGED <<head, inFlight, completed, follows, since, detail, result>>

Ingest(q) ==
  /\ progress[q] = "ingest"
  /\ completed' = [completed EXCEPT ![Review(q)] = detail[q]]
  /\ result' = [result EXCEPT ![q] = [done |-> FALSE, revision |-> detail[q]]]
  /\ Proceed(q, "complete")
  /\ UNCHANGED <<head, inFlight, follows, since, detail>>

\* The provider, the spool or the store fails.
AcquisitionFails(q) ==
  /\ progress[q] \in {"detail", "source", "ingest"}
  /\ Proceed(q, "complete")
  /\ UNCHANGED <<head, inFlight, completed, follows, since, detail, result>>

\* Wrong: only a success completes the deferred.
Wrong_Complete(q) ==
  /\ progress[q] = "complete"
  /\ result' = [result EXCEPT ![q] = IF @.revision = 0 THEN Pending ELSE Success(@.revision)]
  /\ inFlight' = [inFlight EXCEPT ![Review(q)] = IF @ = q THEN Nobody ELSE @]
  /\ Proceed(q, "answered")
  /\ UNCHANGED <<head, completed, follows, since, detail>>

\* The exit, success or failure, completes the deferred, which leaves the map.
Complete(q) ==
  /\ progress[q] = "complete"
  /\ result' = [result EXCEPT ![q] = IF @.revision = 0 THEN Failure ELSE Success(@.revision)]
  /\ inFlight' = [inFlight EXCEPT ![Review(q)] = IF @ = q THEN Nobody ELSE @]
  /\ Proceed(q, "answered")
  /\ UNCHANGED <<head, completed, follows, since, detail>>

\* A request that waited has the exit of the one it followed.
TakeAnswer(q) ==
  /\ progress[q] = "waiting"
  /\ result[follows[q]].done
  /\ Proceed(q, "answered")
  /\ UNCHANGED <<head, inFlight, completed, follows, since, detail, result>>

\* The deadline of a request: one that acquires leaves its deferred in the map, and nobody
\* completes it any more.
Interrupt(q) ==
  /\ MayInterrupt
  /\ progress[q] \in {"detail", "source", "ingest", "waiting"}
  /\ Proceed(q, "interrupted")
  /\ UNCHANGED <<head, inFlight, completed, follows, since, detail, result>>

-----------------------------------------------------------------------------
AcquisitionStep(q) ==
  ReadDetail(q) \/ ReadSource(q) \/ Ingest(q) \/ AcquisitionFails(q) \/ Complete(q) \/ TakeAnswer(q)

AcquisitionNext ==
  \/ \E r \in Reviews : Push(r)
  \/ \E q \in Requests : Acquire(q) \/ AcquisitionStep(q) \/ Interrupt(q)

AcquisitionFairness == \A q \in Requests : WF_acquisitionVars(AcquisitionStep(q))

AcquisitionSpec == AcquisitionInit /\ [][AcquisitionNext]_acquisitionVars

-----------------------------------------------------------------------------
(* What an acquisition promises *)

\* A snapshot is of a revision the review had after the acquisition that produced the answer
\* had begun: neither the completed snapshots nor the sharing answer with an older one.
AnswerIsCurrent ==
  \A q \in Requests :
    progress[q] = "answered" =>
      LET owner == follows[q]
      IN  result[owner].done => result[owner].revision \in {0} \cup since[owner]..MaxRevision

\* A request is answered, alone or with others, unless its own deadline passes or passed for
\* the request that began the acquisition it shares.
RequestsAreAnswered ==
  \A q \in Requests :
    progress[q] # "idle" ~> progress[q] \in {"answered", "interrupted"}
                              \/ progress[follows[q]] = "interrupted"
=============================================================================
