-------------------------- MODULE RepositoryWatcher --------------------------
(***************************************************************************)
(* The watcher of the selected project's repository (makeRepositoryWatcher *)
(* of local-git/src/repository-watcher.ts): one fiber handles a queue of   *)
(* events; the git directories are resolved, a native watch is started and *)
(* the git state is read by fibers of their own, whose results come back   *)
(* as events when the selection may have changed.  Native watches miss     *)
(* changes; a timer forces a reading of the state.                         *)
(*                                                                         *)
(* The debounce and the maximum-wait timer of a batch of hints are one     *)
(* timer that may fire at any time, and an event of a timer that was       *)
(* replaced by a later one of the same batch is not modelled.  A git state *)
(* is its number.                                                          *)
(***************************************************************************)
EXTENDS Naturals, Sequences, SequencesExt

CONSTANTS
  Projects,         \* projects that can be selected
  MaxGenerations,   \* bound on the selections
  MaxChanges,       \* bound on the changes of a repository
  MaxQueue,         \* queue length beyond which no signal or poll is added
  MayDefect,        \* whether a subscriber may defect
  NoProject         \* nothing selected

ASSUME RepositoryWatcherAssumption ==
  /\ {MaxGenerations, MaxChanges, MaxQueue} \subseteq Nat
  /\ MayDefect \in BOOLEAN
  /\ NoProject \notin Projects

VARIABLES
  actual,       \* git state of each repository
  projectOf,    \* project of each generation that was selected
  selected,     \* generation selected, 0 for none
  latest,       \* last generation given out
  queue,        \* events to be handled
  active,       \* what the fiber knows of the repository it works on
  read,         \* progress of the reading of its state
  resolves,     \* generations whose directories are being resolved
  starts,       \* generations whose native watch is being started
  watching,     \* generations whose native watch runs
  published,    \* generation and state published last
  missed        \* generations of which a publication was lost to a defect

fiberVars == <<read, resolves, starts>>
apiVars == <<projectOf, selected, latest>>
outVars == <<published, missed>>
watcherVars == <<actual, apiVars, queue, active, fiberVars, watching, outVars>>

Generations == 1..MaxGenerations
States == 0..MaxChanges
Unknown == MaxChanges + 1   \* no state read yet
Failed == MaxChanges + 2    \* the reading failed

Inactive == [generation |-> 0, directories |-> FALSE, watch |-> FALSE, fingerprint |-> Unknown,
             resolving |-> FALSE, inFlight |-> FALSE, followUp |-> FALSE, timer |-> FALSE]

Event(tag, of, state) == [tag |-> tag, of |-> of, state |-> state]
Tags == {"Activate", "Deactivate", "Hint", "Force", "Due", "Directories", "WatchReady",
         "Reconciled"}

WatcherTypeOK ==
  /\ actual \in [Projects -> States]
  /\ projectOf \in [Generations -> Projects \cup {NoProject}]
  /\ selected \in 0..latest /\ latest \in 0..MaxGenerations
  /\ queue \in Seq([tag : Tags, of : Generations \cup Projects, state : 0..Failed])
  /\ active \in [generation : 0..latest, directories : BOOLEAN, watch : BOOLEAN,
                 fingerprint : 0..Unknown, resolving : BOOLEAN, inFlight : BOOLEAN,
                 followUp : BOOLEAN, timer : BOOLEAN]
  /\ read \in {"none", "reading"} \X (0..Failed)
  /\ resolves \subseteq Generations /\ starts \subseteq Generations
  /\ watching \subseteq Generations
  /\ published \in (0..MaxGenerations) \X (0..Unknown)
  /\ missed \subseteq Generations

NoRead == <<"none", Unknown>>

WatcherInit ==
  /\ actual = [p \in Projects |-> 0]
  /\ projectOf = [g \in Generations |-> NoProject]
  /\ selected = 0 /\ latest = 0
  /\ queue = <<>>
  /\ active = Inactive
  /\ read = NoRead
  /\ resolves = {} /\ starts = {}
  /\ watching = {}
  /\ published = <<0, Unknown>>
  /\ missed = {}

-----------------------------------------------------------------------------
(* Calls and signals *)

SelectedProject == IF selected = 0 THEN NoProject ELSE projectOf[selected]

Activate(p) ==
  /\ latest < MaxGenerations
  /\ latest' = latest + 1
  /\ selected' = latest + 1
  /\ projectOf' = [projectOf EXCEPT ![latest + 1] = p]
  /\ queue' = Append(queue, Event("Activate", latest + 1, 0))
  /\ UNCHANGED <<actual, active, fiberVars, watching, outVars>>

\* Of a project that is not selected it has no effect.
Deactivate(p) ==
  /\ SelectedProject = p
  /\ selected' = 0
  /\ queue' = Append(queue, Event("Deactivate", p, 0))
  /\ UNCHANGED <<actual, projectOf, latest, active, fiberVars, watching, outVars>>

Change(p) ==
  /\ actual[p] < MaxChanges
  /\ actual' = [actual EXCEPT ![p] = @ + 1]
  /\ UNCHANGED <<apiVars, queue, active, fiberVars, watching, outVars>>

\* A watch gives signals when it likes, for a change or for none.
Signal(g) ==
  /\ g \in watching
  /\ Len(queue) < MaxQueue
  /\ \E tag \in {"Hint", "Force"} : queue' = Append(queue, Event(tag, projectOf[g], 0))
  /\ UNCHANGED <<actual, apiVars, active, fiberVars, watching, outVars>>

Poll ==
  /\ selected # 0
  /\ Len(queue) < MaxQueue
  /\ queue' = Append(queue, Event("Force", SelectedProject, 0))
  /\ UNCHANGED <<actual, apiVars, active, fiberVars, watching, outVars>>

-----------------------------------------------------------------------------
(* The fibers that work for the handler *)

ResolveDirectories(g) ==
  /\ g \in resolves
  /\ resolves' = resolves \ {g}
  /\ \E result \in {0, Failed} : queue' = Append(queue, Event("Directories", g, result))
  /\ UNCHANGED <<actual, apiVars, active, read, starts, watching, outVars>>

StartWatch(g) ==
  /\ g \in starts
  /\ starts' = starts \ {g}
  /\ watching' = watching \cup {g}
  /\ queue' = Append(queue, Event("WatchReady", g, 0))
  /\ UNCHANGED <<actual, apiVars, active, read, resolves, outVars>>

\* The state is read at one moment and its event is queued at a later one.
ReadState ==
  /\ read = <<"reading", Unknown>>
  /\ \E s \in {actual[projectOf[active.generation]], Failed} : read' = <<"reading", s>>
  /\ UNCHANGED <<actual, apiVars, queue, active, resolves, starts, watching, outVars>>

OfferState ==
  /\ read[1] = "reading" /\ read[2] # Unknown
  /\ queue' = Append(queue, Event("Reconciled", active.generation, read[2]))
  /\ read' = NoRead
  /\ UNCHANGED <<actual, apiVars, active, resolves, starts, watching, outVars>>

TimerFires ==
  /\ active.timer
  /\ active' = [active EXCEPT !.timer = FALSE]
  /\ queue' = Append(queue, Event("Due", active.generation, 0))
  /\ UNCHANGED <<actual, apiVars, fiberVars, watching, outVars>>

-----------------------------------------------------------------------------
(* The handler; a is what it knows as it goes on *)

\* The token of a timer is out of date once a reading has taken up its batch, or its
\* repository is no longer the active one: a Due event in the queue will do nothing.
Outdated(q) ==
  [i \in DOMAIN q |-> IF q[i].tag = "Due" THEN [q[i] EXCEPT !.state = Failed] ELSE q[i]]

\* reconcile: resolve first; one reading at a time; a request meanwhile asks for another.
Reconcile(a, rest) ==
  IF ~a.directories
    THEN /\ active' = [a EXCEPT !.resolving = TRUE]
         /\ resolves' = resolves \cup (IF a.resolving THEN {} ELSE {a.generation})
         /\ queue' = rest
         /\ UNCHANGED read
  ELSE IF a.inFlight
    THEN /\ active' = [a EXCEPT !.followUp = TRUE]
         /\ queue' = rest
         /\ UNCHANGED <<resolves, read>>
  ELSE /\ active' = [a EXCEPT !.inFlight = TRUE, !.timer = FALSE]
       /\ read' = <<"reading", Unknown>>
       /\ queue' = Outdated(rest)
       /\ UNCHANGED resolves

\* stopActive: the watch is stopped, the reading interrupted.
StopActive ==
  /\ watching' = IF active.watch THEN watching \ {active.generation} ELSE watching
  /\ read' = NoRead

Next1(tag) == queue # <<>> /\ Head(queue).tag = tag
Concerns(p) == active.generation # 0 /\ projectOf[active.generation] = p
Current(g) == active.generation = g

HandleActivate ==
  /\ Next1("Activate")
  /\ StopActive
  /\ active' = [Inactive EXCEPT !.generation = Head(queue).of, !.resolving = TRUE]
  /\ resolves' = resolves \cup {Head(queue).of}
  /\ queue' = Outdated(Tail(queue))
  /\ UNCHANGED <<actual, apiVars, starts, outVars>>

HandleDeactivate ==
  /\ Next1("Deactivate")
  /\ IF Concerns(Head(queue).of)
       THEN /\ StopActive
            /\ active' = Inactive
            /\ queue' = Outdated(Tail(queue))
       ELSE /\ queue' = Tail(queue)
            /\ UNCHANGED <<active, watching, read>>
  /\ UNCHANGED <<actual, apiVars, resolves, starts, outVars>>

HandleHint ==
  /\ Next1("Hint")
  /\ queue' = Tail(queue)
  /\ active' = IF ~Concerns(Head(queue).of) THEN active
               ELSE IF active.inFlight THEN [active EXCEPT !.followUp = TRUE]
               ELSE [active EXCEPT !.timer = TRUE]
  /\ UNCHANGED <<actual, apiVars, fiberVars, watching, outVars>>

HandleForce ==
  /\ Next1("Force")
  /\ IF Concerns(Head(queue).of) THEN Reconcile(active, Tail(queue))
     ELSE queue' = Tail(queue) /\ UNCHANGED <<active, resolves, read>>
  /\ UNCHANGED <<actual, apiVars, starts, watching, outVars>>

HandleDue ==
  /\ Next1("Due")
  /\ IF Head(queue).state # Failed THEN Reconcile(active, Tail(queue))
     ELSE queue' = Tail(queue) /\ UNCHANGED <<active, resolves, read>>
  /\ UNCHANGED <<actual, apiVars, starts, watching, outVars>>

HandleDirectories ==
  /\ Next1("Directories")
  /\ IF ~Current(Head(queue).of)
       THEN queue' = Tail(queue) /\ UNCHANGED <<active, resolves, starts, read>>
     ELSE IF Head(queue).state = Failed
       THEN /\ active' = [active EXCEPT !.resolving = FALSE]
            /\ queue' = Tail(queue)
            /\ UNCHANGED <<resolves, starts, read>>
     ELSE /\ starts' = starts \cup {Head(queue).of}
          /\ Reconcile([active EXCEPT !.resolving = FALSE, !.directories = TRUE], Tail(queue))
  /\ UNCHANGED <<actual, apiVars, watching, outVars>>

\* Wrong: a watch that comes too late is forgotten.
Wrong_HandleWatchReady ==
  /\ Next1("WatchReady")
  /\ queue' = Tail(queue)
  /\ active' = IF Current(Head(queue).of) THEN [active EXCEPT !.watch = TRUE] ELSE active
  /\ UNCHANGED <<actual, apiVars, fiberVars, watching, outVars>>

HandleWatchReady ==
  /\ Next1("WatchReady")
  /\ queue' = Tail(queue)
  /\ IF Current(Head(queue).of)
       THEN active' = [active EXCEPT !.watch = TRUE] /\ UNCHANGED watching
       ELSE watching' = watching \ {Head(queue).of} /\ UNCHANGED active
  /\ UNCHANGED <<actual, apiVars, fiberVars, outVars>>

\* A state is published when it is new and its generation is still selected.
Publishes(a, e) ==
  e.state # Failed /\ selected = e.of /\ a.fingerprint # e.state

\* Wrong: a reading that fails is still taken for one under way.
Wrong_HandleReconciled ==
  /\ Next1("Reconciled")
  /\ LET e == Head(queue)
         ok == e.state # Failed
         a == [active EXCEPT !.inFlight = ~ok, !.followUp = FALSE,
                             !.fingerprint = IF Publishes(active, e) THEN e.state ELSE @]
     IN  IF ~Current(e.of)
           THEN queue' = Tail(queue) /\ UNCHANGED <<active, resolves, read, outVars>>
           ELSE /\ IF ~Publishes(active, e) THEN UNCHANGED outVars
                   ELSE published' = <<e.of, e.state>> /\ UNCHANGED missed
                /\ IF active.followUp THEN Reconcile(a, Tail(queue))
                   ELSE active' = a /\ queue' = Tail(queue) /\ UNCHANGED <<resolves, read>>
  /\ UNCHANGED <<actual, apiVars, starts, watching>>

HandleReconciled ==
  /\ Next1("Reconciled")
  /\ LET e == Head(queue)
         a == [active EXCEPT !.inFlight = FALSE, !.followUp = FALSE,
                             !.fingerprint = IF Publishes(active, e) THEN e.state ELSE @]
     IN  IF ~Current(e.of)
           THEN queue' = Tail(queue) /\ UNCHANGED <<active, resolves, read, outVars>>
           ELSE /\ IF ~Publishes(active, e) THEN UNCHANGED outVars
                   ELSE \/ published' = <<e.of, e.state>> /\ UNCHANGED missed
                        \/ MayDefect /\ missed' = missed \cup {e.of} /\ UNCHANGED published
                /\ IF active.followUp THEN Reconcile(a, Tail(queue))
                   ELSE active' = a /\ queue' = Tail(queue) /\ UNCHANGED <<resolves, read>>
  /\ UNCHANGED <<actual, apiVars, starts, watching>>

-----------------------------------------------------------------------------
Handle ==
  \/ HandleActivate \/ HandleDeactivate \/ HandleHint \/ HandleForce \/ HandleDue
  \/ HandleDirectories \/ HandleWatchReady \/ HandleReconciled

WatcherNext ==
  \/ \E p \in Projects : Activate(p) \/ Deactivate(p) \/ Change(p)
  \/ \E g \in Generations : Signal(g) \/ ResolveDirectories(g) \/ StartWatch(g)
  \/ Poll \/ ReadState \/ OfferState \/ TimerFires \/ Handle

Succeeds == queue' # queue /\ Last(queue').state = 0

\* Fibers, timers and the handler go on; git does not fail for ever; nothing is assumed of
\* the native watches.
WatcherFairness ==
  /\ WF_watcherVars(Handle)
  /\ SF_watcherVars(Poll)
  /\ \A g \in Generations : /\ SF_watcherVars(ResolveDirectories(g) /\ Succeeds)
                            /\ WF_watcherVars(StartWatch(g))
  /\ SF_watcherVars(ReadState /\ read'[2] # Failed)
  /\ WF_watcherVars(ReadState)
  /\ WF_watcherVars(OfferState)
  /\ WF_watcherVars(TimerFires)

WatcherSpec == WatcherInit /\ [][WatcherNext]_watcherVars

-----------------------------------------------------------------------------
(* What the watcher promises *)

\* A native watch that runs is the active one or on its way to the handler, which will keep
\* or stop it: however fast projects are switched, no watch of an earlier selection is left.
WatchesAreOwned ==
  \A g \in watching :
    \/ active.generation = g /\ active.watch
    \/ \E i \in 1..Len(queue) : queue[i].tag = "WatchReady" /\ queue[i].of = g

\* The state of the selected repository comes to be published, whatever changes and signals
\* fall between the reading of a state and its event, unless a subscriber defected.
ChangesArePublished ==
  \A g \in Generations, s \in States :
    selected = g /\ actual[projectOf[g]] = s
      ~> published = <<g, s>> \/ selected # g \/ actual[projectOf[g]] # s \/ g \in missed
=============================================================================
