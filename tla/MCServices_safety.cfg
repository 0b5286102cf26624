CONSTANTS
  p1 = p1 p2 = p2 p3 = p3 a1 = a1 a2 = a2 a3 = a3 t1 = t1 t2 = t2 t3 = t3
  repo1 = repo1 repo2 = repo2 o1 = o1 o2 = o2 o3 = o3 u1 = u1
  k1 = k1 x1 = x1 x2 = x2 q1 = q1 q2 = q2 q3 = q3
  pa = pa pb = pb f1 = f1 f2 = f2 w1 = w1 w2 = w2 w3 = w3
  NoAttempt = NoAttempt Nil = Nil NoBacking = NoBacking Nobody = Nobody NoProject = NoProject
  Processes = {p1, p2, p3} Mortal = {p1} Pid <- PidOf
  Attempts = {a1, a2, a3} Home <- HomeOf
  Turns = {t1, t2, t3} TurnProcess <- TurnProcessOf TurnRepository <- TurnRepositoryOf
  Slots = {1, 2} MaxSlots = 2 MayCut = TRUE MayMiss = TRUE
  Uses = {u1} KeyOf <- OneKey LeaseOf <- FirstLease MayBreak = TRUE
  MaxStarts = 2 LastVersion = 3 MayLose = TRUE
  Commands = {k1} CommandOf <- OneCommand MayNotStore = TRUE
  MaxEpochs = 2 MaxHints = 3 ReplayCapacity = 1
  Requests = {q1, q2, q3} ReviewOf <- OneReview MaxRevision = 3 MayInterrupt = TRUE
  MaxGenerations = 2 MaxChanges = 0 MaxQueue = 2 MayDefect = TRUE
  ViewedKeys = {f1, f2} MaxSubmits = 2 MaxLists = 2
  Opens = {o1, o2, o3} Calls = {x1, x2} Projects = {pa, pb}
  MaxRuns = 2 MaxMessages = 2 MaxLives = 2 MayMisfire = TRUE
  Writers = {w1, w2, w3} MaxBegins = 2
  Parts = {"file lock", "pool", "code workspaces", "session", "delivery", "acquisition", "watcher", "viewed files", "snapshot blocks", "review runs"}
SPECIFICATION ServicesSpec
INVARIANTS ServicesTypeOK LockIsOwned SlotsAreHandedOver BackingIsAccounted HintsAreContiguous AnswerIsCurrent WatchesAreOwned NewestClickIsShown BlocksAreStored TurnsAreKept
PROPERTIES ShownNeverGoesBack OutcomeHolds
\* operations end, and every bound is reached
CHECK_DEADLOCK FALSE
