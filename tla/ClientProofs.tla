----------------------------- MODULE ClientProofs -----------------------------
(***************************************************************************)
(* The safety of what a client of Core holds on to: its leases of code     *)
(* workspaces, the watch of the repository it has selected, its marks of   *)
(* viewed files and the state of its walkthrough; each for every number of *)
(* opens, selections, clicks and starts.                                   *)
(***************************************************************************)
EXTENDS CodeWorkspaces, RepositoryWatcher, ViewedFiles, WalkthroughSession,
        FiniteSetTheorems, TLAPS

-----------------------------------------------------------------------------
(* Code workspaces: the reference count *)

\* How many hold a backing.
Held(b) == Cardinality(Openers(b)) + Cardinality(Leases(b)) + Cardinality(Running(b))

\* The backing in the map for a key was created for the key and was not released.
MapIsLive ==
  \A k \in Keys :
    backings[k] # NoBacking =>
      KeyOf[backings[k]] = k /\ backings[k] \notin released /\ open[backings[k]] # "idle"

\* Whoever has begun to open has joined a backing of its key, which an open that has begun
\* created; what was released was such a backing.
JoinsAreOfKey ==
  /\ \A o \in Opens : open[o] # "idle" =>
       joined[o] \in Opens /\ KeyOf[joined[o]] = KeyOf[o] /\ open[joined[o]] # "idle"
  /\ \A b \in released : open[b] # "idle"

\* A lease is of an open that succeeded, and is not both in the session map and on the list
\* of the loop; an operation began over a lease.
LeasesAreOpened ==
  /\ \A o \in sessions \cup sweep : open[o] = "opened"
  /\ sessions \cap sweep = {}
  /\ \A u \in Uses : use[u] = "using" => open[LeaseOf[u]] = "opened"

HoldersAreCounted == \A b \in Opens : IsCurrent(b) => count[b] = Held(b)

ReleasedIsUnheld == \A b \in released : Held(b) = 0

WorkspaceIInv ==
  /\ WorkspaceTypeOK /\ MapIsLive /\ JoinsAreOfKey /\ LeasesAreOpened
  /\ HoldersAreCounted /\ ReleasedIsUnheld

\* Sets of holders are finite, and are empty when they count to nothing.
LEMMA HoldersAreFinite ==
  ASSUME NEW O \in SUBSET Opens, NEW L \in SUBSET Opens, NEW R \in SUBSET Uses
  PROVE  /\ IsFiniteSet(O) /\ IsFiniteSet(L) /\ IsFiniteSet(R)
         /\ Cardinality(O) \in Nat /\ Cardinality(L) \in Nat /\ Cardinality(R) \in Nat
         /\ (Cardinality(O) + Cardinality(L) + Cardinality(R) = 0
               <=> O = {} /\ L = {} /\ R = {})
         /\ O \cap L = {} => Cardinality(O) + Cardinality(L) + Cardinality(R)
                               <= Cardinality(Opens) + Cardinality(Uses)
<1> USE CodeWorkspacesAssumption
<1>1. IsFiniteSet(O) /\ IsFiniteSet(L) /\ IsFiniteSet(R) /\ IsFiniteSet(O \cup L)
  BY FS_Subset, Zenon
<1>2. /\ Cardinality(O) \in Nat /\ Cardinality(L) \in Nat /\ Cardinality(R) \in Nat
      /\ Cardinality(O \cup L) \in Nat
      /\ Cardinality(Opens) \in Nat /\ Cardinality(Uses) \in Nat
  BY <1>1, FS_CardinalityType
<1>3. (Cardinality(O) = 0 <=> O = {}) /\ (Cardinality(L) = 0 <=> L = {})
      /\ (Cardinality(R) = 0 <=> R = {})
  BY <1>1, FS_EmptySet
<1>4. Cardinality(O \cup L) <= Cardinality(Opens) /\ Cardinality(R) <= Cardinality(Uses)
  BY FS_Subset
<1>5. O \cap L = {} => Cardinality(O \cup L) = Cardinality(O) + Cardinality(L)
  <2>1. Cardinality(O \cup L) = Cardinality(O) + Cardinality(L) - Cardinality(O \cap L)
    BY <1>1, FS_Union
  <2>2. O \cap L = {} => Cardinality(O \cap L) = 0
    BY FS_EmptySet
  <2> QED BY <1>2, <2>1, <2>2
<1>6. Cardinality(O) + Cardinality(L) + Cardinality(R) = 0 <=> O = {} /\ L = {} /\ R = {}
  BY <1>2, <1>3
<1>7. O \cap L = {} => Cardinality(O) + Cardinality(L) + Cardinality(R)
                          <= Cardinality(Opens) + Cardinality(Uses)
  BY <1>2, <1>4, <1>5
<1> QED BY <1>1, <1>2, <1>6, <1>7

\* One more, or one less.
LEMMA OneMore ==
  ASSUME NEW S, IsFiniteSet(S), NEW x, x \notin S
  PROVE  Cardinality(S \cup {x}) = Cardinality(S) + 1
BY FS_AddElement

LEMMA OneLess ==
  ASSUME NEW S, IsFiniteSet(S), NEW x \in S
  PROVE  Cardinality(S \ {x}) = Cardinality(S) - 1
BY FS_RemoveElement

LEMMA HoldersOf ==
  ASSUME WorkspaceTypeOK, NEW b
  PROVE  /\ Openers(b) \in SUBSET Opens /\ Leases(b) \in SUBSET Opens
         /\ Running(b) \in SUBSET Uses
         /\ Held(b) \in Nat
         /\ Held(b) = 0 <=> Openers(b) = {} /\ Leases(b) = {} /\ Running(b) = {}
<1>1. /\ Openers(b) \in SUBSET Opens /\ Leases(b) \in SUBSET Opens
      /\ Running(b) \in SUBSET Uses
  BY DEF WorkspaceTypeOK, Openers, Leases, Running
<1> QED BY <1>1, HoldersAreFinite DEF Held
Bound == Cardinality(Opens) + Cardinality(Uses)

\* A holder that gives its reference back leaves the accounts true, whether the backing is
\* still in the map, is released with it, or was replaced.
LEMMA ReleaseKeepsAccounts ==
  ASSUME WorkspaceIInv, NEW b \in Opens, open[b] # "idle", ReleaseBacking(b),
         \A o \in Opens : open[o] # "idle" => open'[o] # "idle",
         Held(b)' \in Nat, Held(b)' = Held(b) - 1,
         \A c \in Opens \ {b} : Held(c)' = Held(c)
  PROVE  /\ backings' \in [Keys -> Opens \cup {NoBacking}]
         /\ count' \in [Opens -> 0..Bound]
         /\ released' \subseteq Opens /\ \A c \in released' : open'[c] # "idle"
         /\ MapIsLive' /\ HoldersAreCounted' /\ ReleasedIsUnheld'
<1> USE CodeWorkspacesAssumption
<1>1. /\ backings \in [Keys -> Opens \cup {NoBacking}] /\ count \in [Opens -> 0..Bound]
      /\ released \subseteq Opens /\ KeyOf[b] \in Keys
      /\ \A c \in released : open[c] # "idle"
      /\ \A c \in Opens : Held(c) \in Nat /\ KeyOf[c] \in Keys
  BY HoldersOf DEF WorkspaceIInv, WorkspaceTypeOK, Bound, Keys, JoinsAreOfKey
<1>2. Bound \in Nat
  BY FS_CardinalityType DEF Bound
<1>3. Held(b) >= 1 /\ b \notin released
  BY <1>1 DEF WorkspaceIInv, ReleasedIsUnheld
<1>4. CASE ~IsCurrent(b)
  <2>1. UNCHANGED backingVars
    BY <1>4 DEF ReleaseBacking
  <2>2. backings' = backings /\ count' = count /\ released' = released
    BY <2>1 DEF backingVars
  <2>3. HoldersAreCounted'
    BY <1>4, <2>2 DEF WorkspaceIInv, HoldersAreCounted, IsCurrent
  <2>4. ReleasedIsUnheld'
    BY <1>1, <1>3, <2>2 DEF WorkspaceIInv, ReleasedIsUnheld
  <2>5. MapIsLive'
    BY <1>1, <2>2 DEF WorkspaceIInv, MapIsLive
  <2> QED BY <1>1, <2>2, <2>3, <2>4, <2>5
<1>5. CASE IsCurrent(b) /\ count[b] > 1
  <2>1. backings' = backings /\ released' = released /\ count' = [count EXCEPT ![b] = @ - 1]
    BY <1>5 DEF ReleaseBacking
  <2>2. HoldersAreCounted'
    BY <1>1, <1>5, <2>1 DEF WorkspaceIInv, HoldersAreCounted, IsCurrent
  <2>3. ReleasedIsUnheld'
    BY <1>1, <1>3, <2>1 DEF WorkspaceIInv, ReleasedIsUnheld
  <2>4. MapIsLive'
    BY <1>1, <2>1 DEF WorkspaceIInv, MapIsLive
  <2>5. count' \in [Opens -> 0..Bound]
    BY <1>1, <1>2, <1>5, <2>1
  <2> QED BY <1>1, <2>1, <2>2, <2>3, <2>4, <2>5
<1>6. CASE IsCurrent(b) /\ ~(count[b] > 1)
  <2>1. /\ backings' = [backings EXCEPT ![KeyOf[b]] = NoBacking]
        /\ released' = released \cup {b} /\ count' = [count EXCEPT ![b] = 0]
    BY <1>6 DEF ReleaseBacking
  <2>2. Held(b) = 1 /\ Held(b)' = 0
    BY <1>1, <1>3, <1>6 DEF WorkspaceIInv, HoldersAreCounted
  <2>3. HoldersAreCounted'
    <3> SUFFICES ASSUME NEW c \in Opens, IsCurrent(c)' PROVE count'[c] = Held(c)'
      BY DEF HoldersAreCounted
    <3>1. c # b /\ IsCurrent(c)
      BY <1>1, <2>1 DEF IsCurrent
    <3> QED BY <1>1, <2>1, <3>1 DEF WorkspaceIInv, HoldersAreCounted
  <2>4. ReleasedIsUnheld'
    BY <1>1, <2>1, <2>2 DEF WorkspaceIInv, ReleasedIsUnheld
  <2>5. MapIsLive'
    <3> SUFFICES ASSUME NEW k \in Keys, backings'[k] # NoBacking
                 PROVE  KeyOf[backings'[k]] = k /\ backings'[k] \notin released'
                        /\ open'[backings'[k]] # "idle"
      BY DEF MapIsLive
    <3>1. k # KeyOf[b] /\ backings'[k] = backings[k] /\ backings[k] \in Opens
      BY <1>1, <2>1
    <3> QED BY <2>1, <3>1 DEF WorkspaceIInv, MapIsLive
  <2>6. count' \in [Opens -> 0..Bound] /\ backings' \in [Keys -> Opens \cup {NoBacking}]
    BY <1>1, <1>2, <2>1
  <2> QED BY <1>1, <2>1, <2>3, <2>4, <2>5, <2>6
<1> QED BY <1>4, <1>5, <1>6

\* Steps that leave the map alone and that give no backing a holder more or less.
LEMMA SameHoldersKeepAccounts ==
  ASSUME WorkspaceIInv, UNCHANGED backingVars,
         \A o \in Opens : open[o] # "idle" => open'[o] # "idle",
         \A c \in Opens : Held(c)' = Held(c)
  PROVE  MapIsLive' /\ HoldersAreCounted' /\ ReleasedIsUnheld'
<1>1. /\ backings \in [Keys -> Opens \cup {NoBacking}] /\ released \subseteq Opens
      /\ backings' = backings /\ count' = count /\ released' = released
  BY DEF WorkspaceIInv, WorkspaceTypeOK, backingVars
<1> QED BY <1>1 DEF WorkspaceIInv, MapIsLive, HoldersAreCounted, ReleasedIsUnheld, IsCurrent
\* A backing in the map gets one holder more: the count follows.
LEMMA JoinKeepsAccounts ==
  ASSUME WorkspaceIInv, NEW b \in Opens, IsCurrent(b),
         backings' = backings, released' = released, count' = [count EXCEPT ![b] = @ + 1],
         \A o \in Opens : open[o] # "idle" => open'[o] # "idle",
         Held(b)' \in 0..Bound, Held(b)' = Held(b) + 1,
         \A c \in Opens \ {b} : Held(c)' = Held(c)
  PROVE  count' \in [Opens -> 0..Bound] /\ MapIsLive' /\ HoldersAreCounted' /\ ReleasedIsUnheld'
<1> USE CodeWorkspacesAssumption
<1>1. /\ backings \in [Keys -> Opens \cup {NoBacking}] /\ count \in [Opens -> 0..Bound]
      /\ released \subseteq Opens /\ KeyOf[b] \in Keys
      /\ \A c \in Opens : Held(c) \in Nat /\ KeyOf[c] \in Keys
  BY HoldersOf DEF WorkspaceIInv, WorkspaceTypeOK, Bound, Keys
<1>2. b \notin released /\ count[b] = Held(b)
  BY <1>1 DEF WorkspaceIInv, MapIsLive, HoldersAreCounted, IsCurrent
<1>3. MapIsLive'
  BY <1>1 DEF WorkspaceIInv, MapIsLive
<1>4. HoldersAreCounted'
  BY <1>1, <1>2 DEF WorkspaceIInv, HoldersAreCounted, IsCurrent
<1>5. ReleasedIsUnheld'
  BY <1>1, <1>2 DEF WorkspaceIInv, ReleasedIsUnheld
<1>6. count' \in [Opens -> 0..Bound]
  BY <1>1, <1>2
<1> QED BY <1>3, <1>4, <1>5, <1>6

\* The holders of a backing with one opener, lease or operation less, or one more.
LEMMA HolderLeaves ==
  ASSUME WorkspaceTypeOK, NEW b, NEW x,
         \/ /\ x \in Openers(b) /\ Openers(b)' = Openers(b) \ {x}
            /\ Leases(b)' = Leases(b) /\ Running(b)' = Running(b)
         \/ /\ x \in Leases(b) /\ Leases(b)' = Leases(b) \ {x}
            /\ Openers(b)' = Openers(b) /\ Running(b)' = Running(b)
         \/ /\ x \in Running(b) /\ Running(b)' = Running(b) \ {x}
            /\ Openers(b)' = Openers(b) /\ Leases(b)' = Leases(b)
  PROVE  Held(b)' \in Nat /\ Held(b)' = Held(b) - 1
<1> DEFINE O == Openers(b)  L == Leases(b)  R == Running(b)
<1>1. /\ O \in SUBSET Opens /\ L \in SUBSET Opens /\ R \in SUBSET Uses
      /\ O \ {x} \in SUBSET Opens /\ L \ {x} \in SUBSET Opens /\ R \ {x} \in SUBSET Uses
  BY HoldersOf
<1>2. /\ IsFiniteSet(O) /\ IsFiniteSet(L) /\ IsFiniteSet(R)
      /\ Cardinality(O) \in Nat /\ Cardinality(L) \in Nat /\ Cardinality(R) \in Nat
  BY <1>1, HoldersAreFinite
<1>3. /\ Cardinality(O \ {x}) \in Nat /\ Cardinality(L \ {x}) \in Nat
      /\ Cardinality(R \ {x}) \in Nat
  BY <1>1, HoldersAreFinite
<1>4. /\ x \in O => Cardinality(O \ {x}) = Cardinality(O) - 1
      /\ x \in L => Cardinality(L \ {x}) = Cardinality(L) - 1
      /\ x \in R => Cardinality(R \ {x}) = Cardinality(R) - 1
  BY <1>2, OneLess
<1>5. /\ Held(b) = Cardinality(O) + Cardinality(L) + Cardinality(R)
      /\ Held(b)' = Cardinality(O') + Cardinality(L') + Cardinality(R')
  BY DEF Held
<1> HIDE DEF O, L, R
<1>6. \/ x \in O /\ O' = O \ {x} /\ L' = L /\ R' = R
      \/ x \in L /\ L' = L \ {x} /\ O' = O /\ R' = R
      \/ x \in R /\ R' = R \ {x} /\ O' = O /\ L' = L
  BY DEF O, L, R
<1>7. \/ /\ x \in O /\ Cardinality(O') = Cardinality(O \ {x})
         /\ Cardinality(L') = Cardinality(L) /\ Cardinality(R') = Cardinality(R)
      \/ /\ x \in L /\ Cardinality(L') = Cardinality(L \ {x})
         /\ Cardinality(O') = Cardinality(O) /\ Cardinality(R') = Cardinality(R)
      \/ /\ x \in R /\ Cardinality(R') = Cardinality(R \ {x})
         /\ Cardinality(O') = Cardinality(O) /\ Cardinality(L') = Cardinality(L)
  BY <1>6, Zenon
<1> QED BY <1>2, <1>3, <1>4, <1>5, <1>7

LEMMA HolderComes ==
  ASSUME WorkspaceTypeOK, NEW b, NEW x,
         \/ /\ x \in Opens \ Openers(b) /\ Openers(b)' = Openers(b) \cup {x}
            /\ Leases(b)' = Leases(b) /\ Running(b)' = Running(b)
         \/ /\ x \in Opens \ Leases(b) /\ Leases(b)' = Leases(b) \cup {x}
            /\ Openers(b)' = Openers(b) /\ Running(b)' = Running(b)
         \/ /\ x \in Uses \ Running(b) /\ Running(b)' = Running(b) \cup {x}
            /\ Openers(b)' = Openers(b) /\ Leases(b)' = Leases(b),
         Openers(b)' \cap Leases(b)' = {}
  PROVE  Held(b)' \in 0..Bound /\ Held(b)' = Held(b) + 1
<1> DEFINE O == Openers(b)  L == Leases(b)  R == Running(b)
<1>1. O \in SUBSET Opens /\ L \in SUBSET Opens /\ R \in SUBSET Uses
  BY HoldersOf
<1>2. /\ IsFiniteSet(O) /\ IsFiniteSet(L) /\ IsFiniteSet(R)
      /\ Cardinality(O) \in Nat /\ Cardinality(L) \in Nat /\ Cardinality(R) \in Nat
  BY <1>1, HoldersAreFinite
<1>3. /\ x \notin O => Cardinality(O \cup {x}) = Cardinality(O) + 1
      /\ x \notin L => Cardinality(L \cup {x}) = Cardinality(L) + 1
      /\ x \notin R => Cardinality(R \cup {x}) = Cardinality(R) + 1
  BY <1>2, OneMore
<1>4. /\ Held(b) = Cardinality(O) + Cardinality(L) + Cardinality(R)
      /\ Held(b)' = Cardinality(O') + Cardinality(L') + Cardinality(R')
  BY DEF Held
<1>5. O' \cap L' = {}
  OBVIOUS
<1> HIDE DEF O, L, R
<1>6. \/ x \in Opens \ O /\ O' = O \cup {x} /\ L' = L /\ R' = R
      \/ x \in Opens \ L /\ L' = L \cup {x} /\ O' = O /\ R' = R
      \/ x \in Uses \ R /\ R' = R \cup {x} /\ O' = O /\ L' = L
  BY DEF O, L, R
<1>7. O' \in SUBSET Opens /\ L' \in SUBSET Opens /\ R' \in SUBSET Uses
  BY <1>1, <1>6
<1>8. /\ Cardinality(O') + Cardinality(L') + Cardinality(R')
           <= Cardinality(Opens) + Cardinality(Uses)
      /\ Cardinality(O') \in Nat /\ Cardinality(L') \in Nat /\ Cardinality(R') \in Nat
  BY <1>5, <1>7, HoldersAreFinite
<1>9. Held(b)' = Held(b) + 1
  <2>1. \/ /\ x \notin O /\ Cardinality(O') = Cardinality(O \cup {x})
           /\ Cardinality(L') = Cardinality(L) /\ Cardinality(R') = Cardinality(R)
        \/ /\ x \notin L /\ Cardinality(L') = Cardinality(L \cup {x})
           /\ Cardinality(O') = Cardinality(O) /\ Cardinality(R') = Cardinality(R)
        \/ /\ x \notin R /\ Cardinality(R') = Cardinality(R \cup {x})
           /\ Cardinality(O') = Cardinality(O) /\ Cardinality(L') = Cardinality(L)
    BY <1>6, Zenon
  <2> QED BY <1>2, <1>3, <1>4, <2>1
<1>10. Bound \in Nat
  BY CodeWorkspacesAssumption, FS_CardinalityType DEF Bound
<1> QED BY <1>4, <1>8, <1>9, <1>10 DEF Bound

LEMMA WorkspaceBegins == WorkspaceInit => WorkspaceIInv
<1> SUFFICES ASSUME WorkspaceInit PROVE WorkspaceIInv
  OBVIOUS
<1> USE CodeWorkspacesAssumption
<1>1. Cardinality(Opens) + Cardinality(Uses) \in Nat
  BY FS_CardinalityType
<1>2. WorkspaceTypeOK
  BY <1>1 DEF WorkspaceTypeOK, WorkspaceInit
<1>3. MapIsLive /\ JoinsAreOfKey /\ LeasesAreOpened /\ ReleasedIsUnheld
  BY DEF WorkspaceInit, MapIsLive, JoinsAreOfKey, LeasesAreOpened, ReleasedIsUnheld
<1>4. HoldersAreCounted
  BY DEF WorkspaceInit, HoldersAreCounted, IsCurrent, Keys
<1> QED BY <1>2, <1>3, <1>4 DEF WorkspaceIInv
\* What the joined backing of an open that has begun is.
LEMMA JoinedIsBacking ==
  ASSUME WorkspaceIInv, NEW o \in Opens, open[o] # "idle"
  PROVE  joined[o] \in Opens /\ open[joined[o]] # "idle"
BY DEF WorkspaceIInv, JoinsAreOfKey

LEMMA OpenFailsKeeps ==
  ASSUME WorkspaceIInv, NEW o \in Opens, OpenFails(o)
  PROVE  WorkspaceIInv'
<1> USE DEF sweepVars, workVars
<1>0. PICK b : b = joined[o]
  OBVIOUS
<1>1. /\ open[o] = "waiting" /\ open' = [open EXCEPT ![o] = "failed"] /\ ReleaseBacking(b)
      /\ worker' = worker /\ ready' = ready /\ joined' = joined /\ sessions' = sessions
      /\ expired' = expired /\ sweep' = sweep /\ sweepAwaits' = sweepAwaits /\ use' = use
  BY <1>0 DEF OpenFails
<1>2. b \in Opens /\ open[b] # "idle"
  BY <1>0, <1>1, JoinedIsBacking
<1>3. WorkspaceTypeOK /\ open \in [Opens -> {"idle", "waiting", "opened", "failed"}]
  BY DEF WorkspaceIInv, WorkspaceTypeOK
<1>4. o \in Openers(b) /\ Openers(b)' = Openers(b) \ {o}
  BY <1>0, <1>1, <1>3 DEF Openers
<1>5. \A c \in Opens : Leases(c)' = Leases(c) /\ Running(c)' = Running(c)
  BY <1>0, <1>1 DEF Leases, Running
<1>6. \A c \in Opens \ {b} : Openers(c)' = Openers(c)
  BY <1>0, <1>1, <1>3 DEF Openers
<1>7. Held(b)' \in Nat /\ Held(b)' = Held(b) - 1
  BY <1>0, <1>2, <1>3, <1>4, <1>5, HolderLeaves
<1>8. \A c \in Opens \ {b} : Held(c)' = Held(c)
  BY <1>0, <1>5, <1>6, Zenon DEF Held
<1>9. \A x \in Opens : open[x] # "idle" => open'[x] # "idle"
  BY <1>0, <1>1, <1>3
<1>10. /\ backings' \in [Keys -> Opens \cup {NoBacking}] /\ count' \in [Opens -> 0..Bound]
       /\ released' \subseteq Opens /\ \A c \in released' : open'[c] # "idle"
       /\ MapIsLive' /\ HoldersAreCounted' /\ ReleasedIsUnheld'
  BY <1>0, <1>1, <1>2, <1>7, <1>8, <1>9, ReleaseKeepsAccounts
<1>11. WorkspaceTypeOK'
  BY <1>0, <1>1, <1>3, <1>10 DEF WorkspaceTypeOK, Bound
<1>12. JoinsAreOfKey'
  BY <1>0, <1>1, <1>3, <1>9, <1>10 DEF WorkspaceIInv, JoinsAreOfKey
<1>13. LeasesAreOpened'
  BY <1>0, <1>1, <1>3 DEF WorkspaceIInv, WorkspaceTypeOK, LeasesAreOpened
<1> QED BY <1>0, <1>10, <1>11, <1>12, <1>13 DEF WorkspaceIInv

\* A lease given back by its owner, or by the loop.
LEMMA LeaseEndsKeeps ==
  ASSUME WorkspaceIInv, NEW o \in Opens, CloseSession(o) \/ SweepOne(o)
  PROVE  WorkspaceIInv'
<1> USE DEF sweepVars, workVars
<1>0. PICK b : b = joined[o]
  OBVIOUS
<1>1. /\ ReleaseBacking(b)
      /\ worker' = worker /\ ready' = ready /\ joined' = joined /\ open' = open /\ use' = use
  BY <1>0 DEF CloseSession, SweepOne
<1>2. \/ /\ o \in sessions /\ sessions' = sessions \ {o} /\ expired' = expired \ {o}
         /\ sweep' = sweep /\ sweepAwaits' = sweepAwaits
      \/ /\ o \in sweep /\ sweep' = sweep \ {o} /\ sessions' = sessions /\ expired' = expired
         /\ sweepAwaits' \in {joined[o], NoBacking}
  BY DEF CloseSession, SweepOne
<1>3. WorkspaceTypeOK /\ LeasesAreOpened /\ open[o] = "opened"
  BY <1>0, <1>2 DEF WorkspaceIInv, LeasesAreOpened
<1>4. b \in Opens /\ open[b] # "idle"
  BY <1>0, <1>3, JoinedIsBacking
<1>5. sessions' \cup sweep' = (sessions \cup sweep) \ {o} /\ o \in sessions \cup sweep
  BY <1>0, <1>2, <1>3 DEF LeasesAreOpened
<1>6. o \in Leases(b) /\ Leases(b)' = Leases(b) \ {o}
  BY <1>0, <1>1, <1>5 DEF Leases
<1>7. \A c \in Opens : Openers(c)' = Openers(c) /\ Running(c)' = Running(c)
  BY <1>0, <1>1 DEF Openers, Running
<1>8. \A c \in Opens \ {b} : Leases(c)' = Leases(c)
  BY <1>0, <1>1, <1>5 DEF Leases
<1>9. Held(b)' \in Nat /\ Held(b)' = Held(b) - 1
  BY <1>0, <1>3, <1>4, <1>6, <1>7, HolderLeaves
<1>10. \A c \in Opens \ {b} : Held(c)' = Held(c)
  BY <1>0, <1>7, <1>8, Zenon DEF Held
<1>11. /\ backings' \in [Keys -> Opens \cup {NoBacking}] /\ count' \in [Opens -> 0..Bound]
       /\ released' \subseteq Opens /\ \A c \in released' : open'[c] # "idle"
       /\ MapIsLive' /\ HoldersAreCounted' /\ ReleasedIsUnheld'
  BY <1>0, <1>1, <1>4, <1>9, <1>10, ReleaseKeepsAccounts
<1>12. joined[o] \in Opens
  BY <1>0, <1>4
<1>13. sessions' \subseteq Opens /\ expired' \subseteq sessions' /\ sweep' \subseteq Opens
       /\ sweepAwaits' \in Opens \cup {NoBacking}
  BY <1>0, <1>2, <1>3, <1>12 DEF WorkspaceTypeOK
<1>14. WorkspaceTypeOK'
  BY <1>0, <1>1, <1>3, <1>11, <1>13 DEF WorkspaceTypeOK, Bound
<1>15. JoinsAreOfKey'
  BY <1>0, <1>1, <1>11 DEF WorkspaceIInv, JoinsAreOfKey
<1>16. LeasesAreOpened'
  BY <1>0, <1>1, <1>2, <1>3 DEF LeasesAreOpened
<1> QED BY <1>0, <1>11, <1>14, <1>15, <1>16 DEF WorkspaceIInv

LEMMA ReleaseSessionKeeps ==
  ASSUME WorkspaceIInv, NEW u \in Uses, ReleaseSession(u)
  PROVE  WorkspaceIInv'
<1> USE DEF sweepVars, workVars
<1>0. PICK b : b = joined[LeaseOf[u]]
  OBVIOUS
<1>1. /\ use[u] = "using" /\ use' = [use EXCEPT ![u] = "done"] /\ ReleaseBacking(b)
      /\ worker' = worker /\ ready' = ready /\ joined' = joined /\ sessions' = sessions
      /\ expired' = expired /\ sweep' = sweep /\ sweepAwaits' = sweepAwaits /\ open' = open
  BY <1>0 DEF ReleaseSession
<1>2. LeaseOf[u] \in Opens /\ open[LeaseOf[u]] = "opened"
  BY <1>0, <1>1, CodeWorkspacesAssumption DEF WorkspaceIInv, LeasesAreOpened
<1>3. b \in Opens /\ open[b] # "idle"
  BY <1>0, <1>2, JoinedIsBacking
<1>4. WorkspaceTypeOK /\ use \in [Uses -> {"idle", "using", "done"}]
  BY DEF WorkspaceIInv, WorkspaceTypeOK
<1>5. u \in Running(b) /\ Running(b)' = Running(b) \ {u}
  BY <1>0, <1>1, <1>4 DEF Running
<1>6. \A c \in Opens : Leases(c)' = Leases(c) /\ Openers(c)' = Openers(c)
  BY <1>0, <1>1 DEF Leases, Openers
<1>7. \A c \in Opens \ {b} : Running(c)' = Running(c)
  BY <1>0, <1>1, <1>4 DEF Running
<1>8. Held(b)' \in Nat /\ Held(b)' = Held(b) - 1
  BY <1>0, <1>3, <1>4, <1>5, <1>6, HolderLeaves
<1>9. \A c \in Opens \ {b} : Held(c)' = Held(c)
  BY <1>0, <1>6, <1>7, Zenon DEF Held
<1>10. /\ backings' \in [Keys -> Opens \cup {NoBacking}] /\ count' \in [Opens -> 0..Bound]
       /\ released' \subseteq Opens /\ \A c \in released' : open'[c] # "idle"
       /\ MapIsLive' /\ HoldersAreCounted' /\ ReleasedIsUnheld'
  BY <1>0, <1>1, <1>3, <1>8, <1>9, ReleaseKeepsAccounts
<1>11. WorkspaceTypeOK'
  BY <1>0, <1>1, <1>4, <1>10 DEF WorkspaceTypeOK, Bound
<1>12. JoinsAreOfKey'
  BY <1>0, <1>1, <1>10 DEF WorkspaceIInv, JoinsAreOfKey
<1>13. LeasesAreOpened'
  BY <1>0, <1>1, <1>4 DEF WorkspaceIInv, LeasesAreOpened
<1> QED BY <1>0, <1>10, <1>11, <1>12, <1>13 DEF WorkspaceIInv

\* The lease takes over the reference of its opener.
LEMMA StoreSessionKeeps ==
  ASSUME WorkspaceIInv, NEW o \in Opens, StoreSession(o)
  PROVE  WorkspaceIInv'
<1> USE DEF sweepVars, workVars
<1>0. PICK b : b = joined[o]
  OBVIOUS
<1>1. /\ open[o] = "waiting" /\ open' = [open EXCEPT ![o] = "opened"]
      /\ sessions' = sessions \cup {o} /\ UNCHANGED backingVars
      /\ worker' = worker /\ ready' = ready /\ joined' = joined
      /\ expired' = expired /\ sweep' = sweep /\ sweepAwaits' = sweepAwaits /\ use' = use
  BY DEF StoreSession
<1>2. WorkspaceTypeOK /\ open \in [Opens -> {"idle", "waiting", "opened", "failed"}]
  BY DEF WorkspaceIInv, WorkspaceTypeOK
<1>3. o \notin sessions \cup sweep /\ LeasesAreOpened
  BY <1>0, <1>1 DEF WorkspaceIInv, LeasesAreOpened
<1>4. \A c \in Opens : Running(c)' = Running(c)
  BY <1>0, <1>1 DEF Running
<1>5. /\ o \in Openers(b) /\ o \notin Leases(b)
      /\ Openers(b)' = Openers(b) \ {o} /\ Leases(b)' = Leases(b) \cup {o}
  BY <1>0, <1>1, <1>2, <1>3 DEF Openers, Leases
<1>6. \A c \in Opens \ {b} : Openers(c)' = Openers(c) /\ Leases(c)' = Leases(c)
  BY <1>0, <1>1, <1>2 DEF Openers, Leases
<1>7. \A c \in Opens \ {b} : Held(c)' = Held(c)
  BY <1>0, <1>4, <1>6, Zenon DEF Held
<1>8. b \in Opens
  BY <1>0, <1>1, JoinedIsBacking
<1>9. Held(b)' = Held(b)
  <2> DEFINE O == Openers(b)  L == Leases(b)
  <2>1. O \in SUBSET Opens /\ L \in SUBSET Opens /\ Running(b) \in SUBSET Uses
    BY <1>0, <1>2, HoldersOf
  <2>2. /\ IsFiniteSet(O) /\ IsFiniteSet(L) /\ Cardinality(O) \in Nat
        /\ Cardinality(L) \in Nat /\ Cardinality(Running(b)) \in Nat
    BY <1>0, <2>1, HoldersAreFinite
  <2>3. /\ Cardinality(O \ {o}) = Cardinality(O) - 1
        /\ Cardinality(L \cup {o}) = Cardinality(L) + 1
    BY <1>0, <1>5, <2>2, OneLess, OneMore
  <2>4. /\ Held(b) = Cardinality(O) + Cardinality(L) + Cardinality(Running(b))
        /\ Held(b)' = Cardinality(O \ {o}) + Cardinality(L \cup {o}) + Cardinality(Running(b))
    BY <1>0, <1>4, <1>5, <1>8, Zenon DEF Held
  <2> QED BY <1>0, <2>2, <2>3, <2>4
<1>10. \A c \in Opens : Held(c)' = Held(c)
  BY <1>0, <1>7, <1>9
<1>11. \A x \in Opens : open[x] # "idle" => open'[x] # "idle"
  BY <1>0, <1>1, <1>2
<1>12. MapIsLive' /\ HoldersAreCounted' /\ ReleasedIsUnheld'
  BY <1>0, <1>1, <1>10, <1>11, SameHoldersKeepAccounts
<1>13. backings' = backings /\ count' = count /\ released' = released
  BY <1>0, <1>1 DEF backingVars
<1>14. WorkspaceTypeOK'
  BY <1>0, <1>1, <1>2, <1>13 DEF WorkspaceTypeOK
<1>15. JoinsAreOfKey'
  BY <1>0, <1>1, <1>2, <1>11, <1>13 DEF WorkspaceIInv, WorkspaceTypeOK, JoinsAreOfKey
<1>16. LeasesAreOpened'
  BY <1>0, <1>1, <1>2, <1>3 DEF WorkspaceTypeOK, LeasesAreOpened
<1> QED BY <1>0, <1>12, <1>14, <1>15, <1>16 DEF WorkspaceIInv
LEMMA OpenNewKeeps ==
  ASSUME WorkspaceIInv, NEW o \in Opens, Open(o), backings[KeyOf[o]] = NoBacking
  PROVE  WorkspaceIInv'
<1> USE CodeWorkspacesAssumption DEF sweepVars
<1>1. /\ open[o] = "idle" /\ open' = [open EXCEPT ![o] = "waiting"]
      /\ backings' = [backings EXCEPT ![KeyOf[o]] = o] /\ count' = [count EXCEPT ![o] = 1]
      /\ worker' = [worker EXCEPT ![o] = "preparing"] /\ joined' = [joined EXCEPT ![o] = o]
      /\ released' = released /\ ready' = ready /\ sessions' = sessions
      /\ expired' = expired /\ sweep' = sweep /\ sweepAwaits' = sweepAwaits /\ use' = use
  BY DEF Open
<1>2. /\ WorkspaceTypeOK /\ JoinsAreOfKey /\ LeasesAreOpened /\ MapIsLive
      /\ open \in [Opens -> {"idle", "waiting", "opened", "failed"}]
      /\ joined \in [Opens -> Opens \cup {NoBacking}]
      /\ backings \in [Keys -> Opens \cup {NoBacking}]
      /\ LeaseOf \in [Uses -> Opens] /\ KeyOf[o] \in Keys
  BY DEF WorkspaceIInv, WorkspaceTypeOK, Keys
<1>3. Openers(o) = {} /\ Leases(o) = {} /\ Running(o) = {}
  <2>1. \A x \in Opens : open[x] # "idle" => joined[x] # o
    BY <1>1, <1>2 DEF JoinsAreOfKey
  <2>2. Openers(o) = {}
    BY <2>1 DEF Openers
  <2>3. Leases(o) = {}
    BY <1>2, <2>1 DEF Leases, LeasesAreOpened, WorkspaceTypeOK
  <2>4. Running(o) = {}
    BY <1>2, <2>1 DEF Running, LeasesAreOpened
  <2> QED BY <2>2, <2>3, <2>4
<1>4. Openers(o)' = {o} /\ Leases(o)' = {} /\ Running(o)' = {}
  BY <1>1, <1>2, <1>3 DEF Openers, Leases, Running, LeasesAreOpened
<1>5. \A c \in Opens \ {o} :
        Openers(c)' = Openers(c) /\ Leases(c)' = Leases(c) /\ Running(c)' = Running(c)
  BY <1>1, <1>2 DEF Openers, Leases, Running, LeasesAreOpened
<1>6. \A c \in Opens \ {o} : Held(c)' = Held(c)
  BY <1>5, Zenon DEF Held
<1>7. Held(o)' = 1 /\ Held(o) = 0 /\ Held(o)' \in 0..Bound
  <2>1. Held(o)' = Held(o) + 1 /\ Held(o)' \in 0..Bound
    BY <1>2, <1>3, <1>4, HolderComes
  <2>2. Held(o) = 0
    BY <1>2, <1>3, HoldersOf
  <2> QED BY <2>1, <2>2
<1>8. \A x \in Opens : open[x] # "idle" => open'[x] # "idle"
  BY <1>1, <1>2
<1>9. o \notin released /\ released \subseteq Opens
  BY <1>1, <1>2 DEF JoinsAreOfKey, WorkspaceTypeOK
<1>10. MapIsLive'
  BY <1>1, <1>2, <1>8, <1>9 DEF MapIsLive
<1>11. HoldersAreCounted'
  <2> SUFFICES ASSUME NEW c \in Opens, IsCurrent(c)' PROVE count'[c] = Held(c)'
    BY DEF HoldersAreCounted
  <2>1. KeyOf[c] \in Keys /\ count \in [Opens -> 0..Bound]
    BY <1>2 DEF Keys, WorkspaceTypeOK, Bound
  <2>2. CASE c = o
    BY <1>1, <1>7, <2>1, <2>2
  <2>3. CASE c # o
    <3>1. IsCurrent(c)
      BY <1>1, <1>2, <2>1, <2>3 DEF IsCurrent
    <3> QED BY <1>1, <1>6, <2>1, <2>3, <3>1 DEF WorkspaceIInv, HoldersAreCounted
  <2> QED BY <2>2, <2>3
<1>12. ReleasedIsUnheld'
  BY <1>1, <1>6, <1>9 DEF WorkspaceIInv, ReleasedIsUnheld
<1>13. WorkspaceTypeOK'
  <2>1. count' \in [Opens -> 0..Bound]
    BY <1>1, <1>2, <1>7 DEF WorkspaceTypeOK, Bound
  <2> QED BY <1>1, <1>2, <2>1 DEF WorkspaceTypeOK, Bound
<1>14. JoinsAreOfKey'
  BY <1>1, <1>2, <1>8 DEF JoinsAreOfKey
<1>15. LeasesAreOpened'
  BY <1>1, <1>2 DEF WorkspaceTypeOK, LeasesAreOpened
<1> QED BY <1>10, <1>11, <1>12, <1>13, <1>14, <1>15 DEF WorkspaceIInv

\* A backing that is ready gets a lease more, another an opener.
LEMMA OpenJoinKeeps ==
  ASSUME WorkspaceIInv, NEW o \in Opens, Open(o), backings[KeyOf[o]] # NoBacking
  PROVE  WorkspaceIInv'
<1> USE CodeWorkspacesAssumption DEF sweepVars
<1>0. PICK b : b = backings[KeyOf[o]]
  OBVIOUS
<1>1. /\ open[o] = "idle" /\ joined' = [joined EXCEPT ![o] = b]
      /\ count' = [count EXCEPT ![b] = @ + 1]
      /\ backings' = backings /\ released' = released /\ worker' = worker /\ ready' = ready
      /\ expired' = expired /\ sweep' = sweep /\ sweepAwaits' = sweepAwaits /\ use' = use
  BY <1>0 DEF Open, JoinBacking
<1>2. \/ open' = [open EXCEPT ![o] = "opened"] /\ sessions' = sessions \cup {o}
      \/ open' = [open EXCEPT ![o] = "waiting"] /\ sessions' = sessions
  BY <1>0 DEF Open, JoinBacking
<1>3. /\ WorkspaceTypeOK /\ JoinsAreOfKey /\ LeasesAreOpened /\ MapIsLive
      /\ open \in [Opens -> {"idle", "waiting", "opened", "failed"}]
      /\ joined \in [Opens -> Opens \cup {NoBacking}]
      /\ backings \in [Keys -> Opens \cup {NoBacking}]
      /\ LeaseOf \in [Uses -> Opens] /\ KeyOf[o] \in Keys
  BY DEF WorkspaceIInv, WorkspaceTypeOK, Keys
<1>4. b \in Opens /\ KeyOf[b] = KeyOf[o] /\ IsCurrent(b) /\ open[b] # "idle"
  BY <1>0, <1>3 DEF MapIsLive, IsCurrent
<1>5. o \notin sessions \cup sweep /\ o \notin Openers(b) /\ o \notin Leases(b)
  BY <1>1, <1>3 DEF LeasesAreOpened, Openers, Leases
<1>6. \A c \in Opens : Running(c)' = Running(c)
  BY <1>1, <1>3 DEF Running, LeasesAreOpened
<1>7. \A c \in Opens \ {b} : Openers(c)' = Openers(c) /\ Leases(c)' = Leases(c)
  <2> SUFFICES ASSUME NEW c \in Opens \ {b}
               PROVE  Openers(c)' = Openers(c) /\ Leases(c)' = Leases(c)
    OBVIOUS
  <2>1. Openers(c)' = Openers(c)
    BY <1>1, <1>2, <1>3 DEF Openers
  <2>2. Leases(c)' = Leases(c)
    BY <1>1, <1>2, <1>3, <1>5 DEF Leases, WorkspaceTypeOK
  <2> QED BY <2>1, <2>2
<1>8. \/ Openers(b)' = Openers(b) \cup {o} /\ Leases(b)' = Leases(b)
      \/ Leases(b)' = Leases(b) \cup {o} /\ Openers(b)' = Openers(b)
  <2>1. CASE open' = [open EXCEPT ![o] = "opened"] /\ sessions' = sessions \cup {o}
    <3>1. Openers(b)' = Openers(b)
      BY <1>1, <1>3, <2>1 DEF Openers
    <3>2. Leases(b)' = Leases(b) \cup {o}
      BY <1>1, <1>3, <1>5, <2>1 DEF Leases, WorkspaceTypeOK
    <3> QED BY <3>1, <3>2
  <2>2. CASE open' = [open EXCEPT ![o] = "waiting"] /\ sessions' = sessions
    <3>1. Openers(b)' = Openers(b) \cup {o}
      BY <1>1, <1>3, <2>2 DEF Openers
    <3>2. Leases(b)' = Leases(b)
      BY <1>1, <1>3, <1>5, <2>2 DEF Leases, WorkspaceTypeOK
    <3> QED BY <3>1, <3>2
  <2> QED BY <1>2, <2>1, <2>2
<1>9. LeasesAreOpened'
  BY <1>1, <1>2, <1>3, <1>5 DEF WorkspaceTypeOK, LeasesAreOpened
<1>10. Openers(b)' \cap Leases(b)' = {}
  BY <1>9 DEF LeasesAreOpened, Openers, Leases
<1>11. Held(b)' \in 0..Bound /\ Held(b)' = Held(b) + 1
  BY <1>3, <1>4, <1>5, <1>6, <1>8, <1>10, HolderComes
<1>12. \A c \in Opens \ {b} : Held(c)' = Held(c)
  BY <1>6, <1>7, Zenon DEF Held
<1>13. \A x \in Opens : open[x] # "idle" => open'[x] # "idle"
  BY <1>1, <1>2, <1>3
<1>14. count' \in [Opens -> 0..Bound] /\ MapIsLive' /\ HoldersAreCounted' /\ ReleasedIsUnheld'
  BY <1>1, <1>4, <1>11, <1>12, <1>13, JoinKeepsAccounts
<1>15. WorkspaceTypeOK'
  <2>1. sessions' \subseteq Opens /\ open' \in [Opens -> {"idle", "waiting", "opened", "failed"}]
        /\ expired' \subseteq sessions'
    BY <1>1, <1>2, <1>3 DEF WorkspaceTypeOK
  <2> QED BY <1>1, <1>3, <1>4, <1>14, <2>1 DEF WorkspaceTypeOK, Bound
<1>16. JoinsAreOfKey'
  <2>1. o # b /\ released \subseteq Opens
    BY <1>1, <1>3, <1>4 DEF WorkspaceTypeOK
  <2>2. /\ joined'[o] = b
        /\ \A x \in Opens \ {o} : open'[x] = open[x] /\ joined'[x] = joined[x]
    BY <1>1, <1>2, <1>3
  <2>3. \A x \in Opens : open'[x] # "idle" =>
          joined'[x] \in Opens /\ KeyOf[joined'[x]] = KeyOf[x] /\ open'[joined'[x]] # "idle"
    BY <1>3, <1>4, <1>13, <2>2 DEF JoinsAreOfKey
  <2>4. \A x \in released' : open'[x] # "idle"
    BY <1>1, <1>3, <1>13, <2>1 DEF JoinsAreOfKey
  <2> QED BY <2>3, <2>4 DEF JoinsAreOfKey
<1> QED BY <1>9, <1>14, <1>15, <1>16 DEF WorkspaceIInv

LEMMA AcquireSessionKeeps ==
  ASSUME WorkspaceIInv, NEW u \in Uses, AcquireSession(u)
  PROVE  WorkspaceIInv'
<1> USE CodeWorkspacesAssumption DEF sweepVars, workVars
<1>0. PICK b : b = joined[LeaseOf[u]]
  OBVIOUS
<1>1. /\ use[u] = "idle" /\ LeaseOf[u] \in sessions /\ IsCurrent(b)
      /\ use' = [use EXCEPT ![u] = "using"] /\ count' = [count EXCEPT ![b] = @ + 1]
      /\ backings' = backings /\ released' = released
      /\ worker' = worker /\ ready' = ready /\ joined' = joined /\ sessions' = sessions
      /\ expired' = expired /\ sweep' = sweep /\ sweepAwaits' = sweepAwaits /\ open' = open
  BY <1>0 DEF AcquireSession
<1>2. /\ WorkspaceTypeOK /\ LeasesAreOpened /\ LeaseOf[u] \in Opens
      /\ use \in [Uses -> {"idle", "using", "done"}]
  BY DEF WorkspaceIInv, WorkspaceTypeOK
<1>3. open[LeaseOf[u]] = "opened"
  BY <1>1, <1>2 DEF LeasesAreOpened
<1>4. b \in Opens /\ open[b] # "idle"
  BY <1>0, <1>2, <1>3, JoinedIsBacking
<1>5. u \notin Running(b) /\ Running(b)' = Running(b) \cup {u}
  BY <1>0, <1>1, <1>2 DEF Running
<1>6. \A c \in Opens : Leases(c)' = Leases(c) /\ Openers(c)' = Openers(c)
  BY <1>1 DEF Leases, Openers
<1>7. \A c \in Opens \ {b} : Running(c)' = Running(c)
  BY <1>0, <1>1, <1>2 DEF Running
<1>8. LeasesAreOpened'
  BY <1>1, <1>2, <1>3 DEF LeasesAreOpened
<1>9. Openers(b)' \cap Leases(b)' = {}
  BY <1>8 DEF LeasesAreOpened, Openers, Leases
<1>10. Held(b)' \in 0..Bound /\ Held(b)' = Held(b) + 1
  BY <1>2, <1>4, <1>5, <1>6, <1>9, HolderComes
<1>11. \A c \in Opens \ {b} : Held(c)' = Held(c)
  BY <1>6, <1>7, Zenon DEF Held
<1>12. count' \in [Opens -> 0..Bound] /\ MapIsLive' /\ HoldersAreCounted' /\ ReleasedIsUnheld'
  BY <1>1, <1>4, <1>10, <1>11, JoinKeepsAccounts
<1>13. WorkspaceTypeOK'
  BY <1>1, <1>2, <1>12 DEF WorkspaceTypeOK, Bound
<1>14. JoinsAreOfKey'
  BY <1>1 DEF WorkspaceIInv, JoinsAreOfKey
<1> QED BY <1>8, <1>12, <1>13, <1>14 DEF WorkspaceIInv

\* A worker ends: its leases go, and nobody is counted for it any more.
LEMMA WorkerEndKeeps ==
  ASSUME WorkspaceIInv, NEW b \in Opens, PreparationFailed(b) \/ EndCleanup(b)
  PROVE  WorkspaceIInv'
<1> USE CodeWorkspacesAssumption DEF sweepVars
<1>1. /\ worker' = [worker EXCEPT ![b] = "collecting"]
      /\ ready' \in {ready, [ready EXCEPT ![b] = "failed"]}
      /\ sessions' = {o \in sessions : joined[o] # b}
      /\ expired' = {o \in expired : joined[o] # b}
      /\ count' = count /\ released' = released /\ open' = open /\ joined' = joined
      /\ sweep' = sweep /\ sweepAwaits' = sweepAwaits /\ use' = use
  BY DEF PreparationFailed, EndCleanup, Sweep
<1>2. backings' = IF IsCurrent(b) THEN [backings EXCEPT ![KeyOf[b]] = NoBacking] ELSE backings
  BY DEF PreparationFailed, EndCleanup, Sweep
<1>3. /\ WorkspaceTypeOK /\ LeasesAreOpened /\ MapIsLive /\ KeyOf[b] \in Keys
      /\ backings \in [Keys -> Opens \cup {NoBacking}] /\ released \subseteq Opens
      /\ sessions \subseteq Opens /\ sweep \subseteq Opens
  BY DEF WorkspaceIInv, WorkspaceTypeOK, Keys
<1>4. \A c \in Opens : Openers(c)' = Openers(c) /\ Running(c)' = Running(c)
  BY <1>1 DEF Openers, Running
<1>5. \A c \in Opens \ {b} : Leases(c)' = Leases(c)
  BY <1>1 DEF Leases
<1>6. Leases(b)' \subseteq Leases(b)
  BY <1>1 DEF Leases
<1>7. \A c \in Opens \ {b} : Held(c)' = Held(c)
  BY <1>4, <1>5, Zenon DEF Held
<1>8. MapIsLive'
  <2>1. \A k \in Keys : backings'[k] # NoBacking => backings'[k] = backings[k]
    BY <1>2, <1>3
  <2> QED BY <1>1, <1>3, <2>1 DEF MapIsLive
<1>9. HoldersAreCounted'
  <2> SUFFICES ASSUME NEW c \in Opens, IsCurrent(c)' PROVE count'[c] = Held(c)'
    BY DEF HoldersAreCounted
  <2>1. c # b /\ IsCurrent(c)
    BY <1>2, <1>3 DEF IsCurrent, Keys
  <2> QED BY <1>1, <1>7, <2>1 DEF WorkspaceIInv, HoldersAreCounted
<1>10. ReleasedIsUnheld'
  <2> SUFFICES ASSUME NEW c \in released PROVE Held(c)' = 0
    BY <1>1 DEF ReleasedIsUnheld
  <2>1. c \in Opens /\ Held(c) = 0
    BY <1>3 DEF WorkspaceIInv, ReleasedIsUnheld
  <2>2. CASE c # b
    BY <1>7, <2>1, <2>2
  <2>3. CASE c = b
    <3>1. Openers(b) = {} /\ Leases(b) = {} /\ Running(b) = {}
      BY <1>3, <2>1, <2>3, HoldersOf
    <3>2. Openers(b)' = {} /\ Leases(b)' = {} /\ Running(b)' = {}
      BY <1>4, <1>6, <3>1
    <3>3. Cardinality(Openers(b)') = 0 /\ Cardinality(Leases(b)') = 0
          /\ Cardinality(Running(b)') = 0
      BY <3>2, FS_EmptySet, Zenon
    <3>4. Held(b)' = 0
      BY <3>3 DEF Held
    <3> QED BY <2>3, <3>4
  <2> QED BY <2>2, <2>3
<1>11. WorkspaceTypeOK'
  <2>1. /\ backings' \in [Keys -> Opens \cup {NoBacking}]
        /\ sessions' \subseteq Opens /\ expired' \subseteq sessions'
        /\ worker' \in [Opens -> {"none", "preparing", "serving", "cleaning", "collecting", "closed"}]
        /\ ready' \in [Opens -> {"pending", "prepared", "failed"}]
    BY <1>1, <1>2, <1>3 DEF WorkspaceTypeOK
  <2> QED BY <1>1, <1>3, <2>1 DEF WorkspaceTypeOK
<1>12. JoinsAreOfKey' /\ LeasesAreOpened'
  BY <1>1 DEF WorkspaceIInv, JoinsAreOfKey, LeasesAreOpened
<1> QED BY <1>8, <1>9, <1>10, <1>11, <1>12 DEF WorkspaceIInv

\* Steps that give no backing a holder more or less.
LEMMA OtherStepsKeepWorkspace ==
  ASSUME WorkspaceIInv,
         \/ \E b \in Opens : Prepared(b) \/ BeginCleanup(b) \/ Closed(b)
         \/ \E o \in Opens : LeaseExpires(o)
         \/ ExpireLeases \/ SweepResumes
         \/ \E u \in Uses : LeaseNotFound(u)
         \/ UNCHANGED cwVars
  PROVE  WorkspaceIInv'
<1> USE DEF sweepVars, workVars, backingVars
<1>1. /\ backings' = backings /\ count' = count /\ released' = released
      /\ open' = open /\ joined' = joined
  BY DEF Prepared, BeginCleanup, Closed, LeaseExpires, ExpireLeases, SweepResumes,
         LeaseNotFound, cwVars
<1>2. WorkspaceTypeOK /\ LeasesAreOpened
  BY DEF WorkspaceIInv
<1>3. /\ sessions' \cup sweep' = sessions \cup sweep /\ sessions' \cap sweep' = {}
      /\ sessions' \subseteq Opens /\ sweep' \subseteq Opens /\ expired' \subseteq sessions'
  <2>1. CASE ExpireLeases
    BY <1>2, <2>1 DEF ExpireLeases, WorkspaceTypeOK
  <2>2. CASE ~ExpireLeases
    <3>1. sessions' = sessions /\ sweep' = sweep
      BY <2>2 DEF Prepared, BeginCleanup, Closed, LeaseExpires, SweepResumes, LeaseNotFound, cwVars
    <3>2. expired' \subseteq sessions
      BY <1>2, <2>2 DEF Prepared, BeginCleanup, Closed, LeaseExpires, SweepResumes,
                        LeaseNotFound, cwVars, WorkspaceTypeOK
    <3> QED BY <1>2, <3>1, <3>2 DEF WorkspaceTypeOK, LeasesAreOpened
  <2> QED BY <2>1, <2>2
<1>4. /\ worker' \in [Opens -> {"none", "preparing", "serving", "cleaning", "collecting", "closed"}]
      /\ ready' \in [Opens -> {"pending", "prepared", "failed"}]
      /\ sweepAwaits' \in Opens \cup {NoBacking}
  BY <1>2 DEF Prepared, BeginCleanup, Closed, LeaseExpires, ExpireLeases, SweepResumes,
              LeaseNotFound, cwVars, WorkspaceTypeOK
<1>5. /\ use' \in [Uses -> {"idle", "using", "done"}]
      /\ \A u \in Uses : use'[u] = "using" <=> use[u] = "using"
  BY <1>2 DEF Prepared, BeginCleanup, Closed, LeaseExpires, ExpireLeases, SweepResumes,
              LeaseNotFound, cwVars, WorkspaceTypeOK
<1>6. \A c \in Opens :
        Openers(c)' = Openers(c) /\ Leases(c)' = Leases(c) /\ Running(c)' = Running(c)
  BY <1>1, <1>3, <1>5 DEF Openers, Leases, Running
<1>7. \A c \in Opens : Held(c)' = Held(c)
  BY <1>6, Zenon DEF Held
<1>8. MapIsLive' /\ HoldersAreCounted' /\ ReleasedIsUnheld'
  BY <1>1, <1>7, SameHoldersKeepAccounts
<1>9. WorkspaceTypeOK' /\ JoinsAreOfKey' /\ LeasesAreOpened'
  BY <1>1, <1>3, <1>4, <1>5 DEF WorkspaceIInv, WorkspaceTypeOK, JoinsAreOfKey, LeasesAreOpened
<1> QED BY <1>8, <1>9 DEF WorkspaceIInv

\* Whoever waits, leases or works is counted, and nothing is taken from under them.
THEOREM HoldersAreAccounted == WorkspaceSpec => []WorkspaceIInv
<1>1. WorkspaceIInv /\ [WorkspaceNext]_cwVars => WorkspaceIInv'
  <2> SUFFICES ASSUME WorkspaceIInv, [WorkspaceNext]_cwVars PROVE WorkspaceIInv'
    OBVIOUS
  <2>1. ASSUME NEW o \in Opens, Open(o) PROVE WorkspaceIInv'
    BY <2>1, OpenNewKeeps, OpenJoinKeeps
  <2>2. ASSUME NEW o \in Opens, StoreSession(o) PROVE WorkspaceIInv'
    BY <2>2, StoreSessionKeeps
  <2>3. ASSUME NEW o \in Opens, OpenFails(o) PROVE WorkspaceIInv'
    BY <2>3, OpenFailsKeeps
  <2>4. ASSUME NEW o \in Opens, CloseSession(o) \/ SweepOne(o) PROVE WorkspaceIInv'
    BY <2>4, LeaseEndsKeeps
  <2>5. ASSUME NEW b \in Opens, PreparationFailed(b) \/ EndCleanup(b) PROVE WorkspaceIInv'
    BY <2>5, WorkerEndKeeps
  <2>6. ASSUME NEW u \in Uses, AcquireSession(u) PROVE WorkspaceIInv'
    BY <2>6, AcquireSessionKeeps
  <2>7. ASSUME NEW u \in Uses, ReleaseSession(u) PROVE WorkspaceIInv'
    BY <2>7, ReleaseSessionKeeps
  <2>8. ASSUME \/ \E b \in Opens : Prepared(b) \/ BeginCleanup(b) \/ Closed(b)
               \/ \E o \in Opens : LeaseExpires(o)
               \/ ExpireLeases \/ SweepResumes
               \/ \E u \in Uses : LeaseNotFound(u)
               \/ UNCHANGED cwVars
        PROVE  WorkspaceIInv'
    BY <2>8, OtherStepsKeepWorkspace
  <2> QED BY <2>1, <2>2, <2>3, <2>4, <2>5, <2>6, <2>7, <2>8, Zenon
          DEF WorkspaceNext, Work, Expiry
<1> QED BY <1>1, WorkspaceBegins, PTL DEF WorkspaceSpec

\* The reference count of a backing in the map is the number of openers, leases and
\* operations that hold it, and a backing whose release was completed is held by none of
\* them; for every number of opens, keys and operations, worker failures included.
THEOREM BackingIsAlwaysAccounted == WorkspaceSpec => []BackingIsAccounted
<1>1. WorkspaceIInv => BackingIsAccounted
  <2> SUFFICES ASSUME WorkspaceIInv PROVE BackingIsAccounted
    OBVIOUS
  <2>1. WorkspaceTypeOK /\ HoldersAreCounted /\ ReleasedIsUnheld
    BY DEF WorkspaceIInv
  <2>2. ReferencesAreCounted
    BY <2>1 DEF HoldersAreCounted, ReferencesAreCounted, Held
  <2>3. ReleasedIsUnused
    BY <2>1, HoldersOf DEF ReleasedIsUnheld, ReleasedIsUnused
  <2> QED BY <2>2, <2>3 DEF BackingIsAccounted
<1> QED BY <1>1, HoldersAreAccounted, PTL
-----------------------------------------------------------------------------
(* The walkthrough session of the renderer *)

LEMMA SessionBegins == SessionInit => SessionTypeOK
<1>1. NoCall \in SessionCalls /\ 0 \in 0..LastVersion /\ 0 \in 0..MaxStarts
  BY WalkthroughSessionAssumption DEF SessionCalls, NoCall
<1> QED BY <1>1 DEF SessionInit, SessionTypeOK

LEMMA FinishingIsTyped ==
  FinishStart => promise' \in Starts \cup {NoStart} /\ hinted' \in Starts \cup {NoStart}
BY DEF FinishStart

LEMMA CoreStepsAreTyped ==
  ASSUME SessionTypeOK,
         \/ \E k \in Starts : CoreAdvances(k)
         \/ \E c \in accepts : CoreTakes(c)
         \/ CoreReads \/ CoreCancels
  PROVE  SessionTypeOK'
<1> USE WalkthroughSessionAssumption DEF stateVars, callVars, coreVars
<1>1. /\ status' = status /\ shown' = shown /\ version' = version /\ started' = started
      /\ promise' = promise /\ keys' = keys /\ overtaken' = overtaken
      /\ timer' = timer /\ hinted' = hinted /\ disposed' = disposed
  BY DEF CoreAdvances, CoreTakes, CoreReads, CoreCancels
<1> DEFINE Kept == /\ core' \in [Starts -> 0..LastVersion]
                   /\ newest' \in Starts \cup {NoStart}
                   /\ accepts' \subseteq StartCalls
                   /\ query' \in SessionCalls /\ cancel' \in SessionCalls
<1>2. Kept
  <2>1. ASSUME NEW k \in Starts, CoreAdvances(k) PROVE Kept
    BY <2>1 DEF CoreAdvances, SessionTypeOK
  <2>2. ASSUME NEW c \in accepts, CoreTakes(c) PROVE Kept
    <3> DEFINE k == IF core[c.key] = 0 /\ ~c.regenerate /\ newest # NoStart THEN newest ELSE c.key
    <3>1. c \in StartCalls /\ newest \in Starts \cup {NoStart}
      BY DEF SessionTypeOK
    <3>2. k \in Starts
      BY <3>1 DEF StartCalls
    <3>3. /\ accepts' = (accepts \ {c}) \cup {[c EXCEPT !.operation = k]}
          /\ \/ UNCHANGED <<core, newest>>
             \/ /\ newest' = k
                /\ core' = [o \in Starts |-> IF o = k THEN 1
                                             ELSE IF o = newest THEN LastVersion ELSE core[o]]
          /\ query' = query /\ cancel' = cancel
      BY <2>2 DEF CoreTakes
    <3> HIDE DEF k
    <3>4. [c EXCEPT !.operation = k] \in StartCalls
      BY <3>1, <3>2 DEF StartCalls
    <3>5. core' \in [Starts -> 0..LastVersion] /\ newest' \in Starts \cup {NoStart}
      BY <3>1, <3>2, <3>3 DEF SessionTypeOK
    <3> QED BY <3>3, <3>4, <3>5 DEF SessionTypeOK
  <2>3. ASSUME CoreReads PROVE Kept
    <3>1. query.operation \in Starts
      BY <2>3 DEF CoreReads, SessionTypeOK, SessionCalls, NoCall
    <3> QED BY <2>3, <3>1 DEF CoreReads, SessionTypeOK, SessionCalls
  <2>4. ASSUME CoreCancels PROVE Kept
    BY <2>4 DEF CoreCancels, SessionTypeOK, SessionCalls, NoCall
  <2> QED BY <2>1, <2>2, <2>3, <2>4
<1> QED BY <1>1, <1>2 DEF SessionTypeOK

LEMMA StartStepsAreTyped ==
  ASSUME SessionTypeOK,
         \/ \E regenerate \in BOOLEAN : StartOperation(regenerate)
         \/ \E c \in accepts : AcceptAnswered(c) \/ AcceptFails(c)
  PROVE  SessionTypeOK'
<1> USE WalkthroughSessionAssumption DEF stateVars, coreVars
<1>1. ASSUME NEW regenerate \in BOOLEAN, StartOperation(regenerate) PROVE SessionTypeOK'
  <2> DEFINE n == started + 1
             k == IF keys[regenerate] = NoStart THEN n ELSE keys[regenerate]
             call == [start |-> n, regenerate |-> regenerate, key |-> k, operation |-> NoStart]
  <2>1. n \in Starts /\ k \in Starts
    BY <1>1 DEF StartOperation, SessionTypeOK, Starts, NoStart
  <2>2. started' = n /\ promise' = n /\ keys' = [keys EXCEPT ![regenerate] = k]
    BY <1>1 DEF StartOperation
  <2>3. /\ accepts' = accepts \cup {call}
        /\ UNCHANGED <<coreVars, stateVars, query, overtaken, cancel, timer, hinted, disposed>>
    BY <1>1 DEF StartOperation
  <2> HIDE DEF n, k
  <2>4. call \in StartCalls
    BY <2>1 DEF StartCalls
  <2> HIDE DEF call
  <2>5. started' \in 0..MaxStarts
    BY <2>1, <2>2 DEF Starts
  <2> QED BY <2>1, <2>2, <2>3, <2>4, <2>5 DEF SessionTypeOK
<1>2. ASSUME NEW c \in accepts, AcceptAnswered(c) PROVE SessionTypeOK'
  <2>1. c.operation \in Starts /\ 0 \in 0..LastVersion
    BY <1>2 DEF SessionTypeOK, StartCalls, AcceptAnswered
  <2>2. timer' \in BOOLEAN
    BY <1>2 DEF AcceptAnswered, ScheduleFallback, SessionTypeOK
  <2> QED BY <1>2, <2>1, <2>2 DEF AcceptAnswered, SessionTypeOK
<1>3. ASSUME NEW c \in accepts, AcceptFails(c) PROVE SessionTypeOK'
  BY <1>3, FinishingIsTyped DEF AcceptFails, SessionTypeOK
<1> QED BY <1>1, <1>2, <1>3

LEMMA AnswersAreTyped ==
  ASSUME SessionTypeOK,
         \/ FallbackFires \/ HintArrives \/ QueryAnswered \/ QueryFails
         \/ CancelOperation \/ CancelAnswered \/ CancelFails \/ Dispose
         \/ UNCHANGED sessionVars
  PROVE  SessionTypeOK'
<1> USE WalkthroughSessionAssumption DEF stateVars, callVars, coreVars
<1>0. /\ query.operation \in Starts \cup {NoStart} /\ query.version \in 0..LastVersion
      /\ cancel.operation \in Starts \cup {NoStart} /\ cancel.version \in 0..LastVersion
      /\ NoCall \in SessionCalls /\ [operation |-> shown, version |-> 0] \in SessionCalls
  BY DEF SessionTypeOK, SessionCalls, NoCall
<1>1. CASE FallbackFires \/ HintArrives
  <2>1. ReconcileSession
    BY <1>1 DEF FallbackFires, HintArrives
  <2>2. query' \in SessionCalls /\ overtaken' \in BOOLEAN
    BY <1>0, <2>1 DEF ReconcileSession, SessionTypeOK
  <2> QED BY <1>1, <2>2 DEF FallbackFires, HintArrives, SessionTypeOK
<1>2. CASE QueryAnswered
  <2>1. /\ query' = NoCall /\ overtaken' = FALSE /\ timer' \in BOOLEAN
        /\ UNCHANGED coreVars /\ started' = started /\ keys' = keys /\ accepts' = accepts
        /\ cancel' = cancel /\ disposed' = disposed
    BY <1>2 DEF QueryAnswered
  <2>2. /\ status' \in {"idle", "accepted", "active", "terminal"}
        /\ shown' \in Starts \cup {NoStart} /\ version' \in 0..LastVersion
    BY <1>0, <1>2 DEF QueryAnswered, Show, SessionTypeOK
  <2>3. FinishStart \/ UNCHANGED <<promise, hinted>>
    BY <1>2 DEF QueryAnswered
  <2>4. promise' \in Starts \cup {NoStart} /\ hinted' \in Starts \cup {NoStart}
    BY <2>3, FinishingIsTyped DEF SessionTypeOK
  <2> QED BY <1>0, <2>1, <2>2, <2>4 DEF SessionTypeOK
<1>3. CASE QueryFails
  <2>1. FinishStart \/ UNCHANGED <<promise, hinted>>
    BY <1>3 DEF QueryFails
  <2>2. promise' \in Starts \cup {NoStart} /\ hinted' \in Starts \cup {NoStart}
    BY <2>1, FinishingIsTyped DEF SessionTypeOK
  <2>3. timer' \in BOOLEAN
    BY <1>3 DEF QueryFails
  <2> QED BY <1>0, <1>3, <2>2, <2>3 DEF QueryFails, SessionTypeOK
<1>4. CASE CancelAnswered
  <2>1. /\ cancel' = NoCall /\ timer' \in BOOLEAN /\ overtaken' \in BOOLEAN
        /\ UNCHANGED coreVars /\ started' = started /\ keys' = keys /\ accepts' = accepts
        /\ query' = query /\ disposed' = disposed
    BY <1>4 DEF CancelAnswered, SessionTypeOK
  <2>2. /\ status' \in {"idle", "accepted", "active", "terminal"}
        /\ shown' \in Starts \cup {NoStart} /\ version' \in 0..LastVersion
    BY <1>0, <1>4 DEF CancelAnswered, Show, SessionTypeOK
  <2>3. FinishStart \/ UNCHANGED <<promise, hinted>>
    BY <1>4 DEF CancelAnswered
  <2>4. promise' \in Starts \cup {NoStart} /\ hinted' \in Starts \cup {NoStart}
    BY <2>3, FinishingIsTyped DEF SessionTypeOK
  <2> QED BY <1>0, <2>1, <2>2, <2>4 DEF SessionTypeOK
<1>5. CASE CancelOperation
  BY <1>0, <1>5 DEF CancelOperation, SessionTypeOK
<1>6. CASE CancelFails
  BY <1>0, <1>6 DEF CancelFails, SessionTypeOK
<1>7. CASE Dispose
  BY <1>7 DEF Dispose, SessionTypeOK
<1>8. CASE UNCHANGED sessionVars
  BY <1>8 DEF sessionVars, coreVars, SessionTypeOK
<1> QED BY <1>1, <1>2, <1>3, <1>4, <1>5, <1>6, <1>7, <1>8

THEOREM SessionIsTyped == SessionSpec => []SessionTypeOK
<1>1. SessionTypeOK /\ [SessionNext]_sessionVars => SessionTypeOK'
  BY CoreStepsAreTyped, StartStepsAreTyped, AnswersAreTyped, Zenon DEF SessionNext
<1> QED BY <1>1, SessionBegins, PTL DEF SessionSpec

\* Of one operation, no older snapshot is shown after a newer one, whatever the order in
\* which the answers of queries and cancellations arrive; so a terminal state stays.
THEOREM ShownNeverGoesBackward == SessionSpec => ShownNeverGoesBack
<1> DEFINE Forward == {status, status'} \subseteq {"active", "terminal"} /\ shown' = shown
                        => version' >= version
<1>1. SessionTypeOK /\ [SessionNext]_sessionVars => [Forward]_sessionVars
  <2> SUFFICES ASSUME SessionTypeOK, SessionNext, status \in {"active", "terminal"},
                      status' \in {"active", "terminal"}
               PROVE  version' >= version
    OBVIOUS
  <2> USE DEF stateVars
  <2>1. /\ version \in Nat /\ query.version \in Nat /\ cancel.version \in Nat
        /\ version >= version
    BY WalkthroughSessionAssumption DEF SessionTypeOK, SessionCalls
  <2>2. CASE QueryAnswered
    BY <2>1, <2>2 DEF QueryAnswered, Stale, Show
  <2>3. CASE CancelAnswered
    BY <2>1, <2>3 DEF CancelAnswered, Stale, Show
  <2>4. CASE \E c \in accepts : AcceptAnswered(c)
    BY <2>4 DEF AcceptAnswered
  <2>5. CASE ~(QueryAnswered \/ CancelAnswered \/ \E c \in accepts : AcceptAnswered(c))
    <3>1. version' = version
      BY <2>5 DEF SessionNext, CoreAdvances, CoreTakes, CoreReads, CoreCancels, StartOperation,
                  AcceptFails, FallbackFires, HintArrives, QueryFails, CancelOperation,
                  CancelFails, Dispose
    <3> QED BY <2>1, <3>1
  <2> QED BY <2>2, <2>3, <2>4, <2>5
<1> QED BY <1>1, SessionIsTyped, PTL DEF SessionSpec, ShownNeverGoesBack
-----------------------------------------------------------------------------
(* The repository watcher: native watches *)

Events == [tag : Tags, of : Generations \cup Projects, state : 0..Failed]
ActiveRecords == [generation : 0..latest, directories : BOOLEAN, watch : BOOLEAN,
                  fingerprint : 0..Unknown, resolving : BOOLEAN, inFlight : BOOLEAN,
                  followUp : BOOLEAN, timer : BOOLEAN]

\* The event that hands a watch to the handler is on its way.
Announced(g, q) == \E i \in 1..Len(q) : q[i].tag = "WatchReady" /\ q[i].of = g

\* What an event speaks of: a generation given out or a project; a timer whose token is not
\* out of date, of an active repository.
EventIsSound(e, last, now) ==
  /\ e.tag \in {"Activate", "Due", "Directories", "WatchReady", "Reconciled"} => e.of \in 1..last
  /\ e.tag \in {"Deactivate", "Hint", "Force"} => e.of \in Projects
  /\ e.tag = "Due" /\ e.state # Failed => now # 0

QueueIsSound(q, last, now) == \A i \in 1..Len(q) : EventIsSound(q[i], last, now)

\* Generations that were not given out are nowhere.
GenerationsAreGiven ==
  /\ \A g \in 1..latest : projectOf[g] \in Projects
  /\ resolves \subseteq 1..latest /\ starts \subseteq 1..latest /\ watching \subseteq 1..latest

\* What is read or timed is read or timed for an active repository.
WorkIsActive == read[1] = "reading" \/ active.timer => active.generation # 0

WatcherIInv ==
  /\ WatcherTypeOK /\ GenerationsAreGiven /\ WorkIsActive
  /\ QueueIsSound(queue, latest, active.generation)
  /\ WatchesAreOwned

LEMMA WatcherNumbers ==
  /\ MaxGenerations \in Nat /\ MaxChanges \in Nat /\ MaxQueue \in Nat
  /\ Failed \in 0..Failed /\ Unknown \in 0..Failed /\ Unknown \in 0..Unknown
  /\ 0 \in 0..Failed /\ States \subseteq 0..Failed /\ Failed # Unknown
  /\ \A s \in 0..Failed : s # Failed => s \in 0..Unknown
BY RepositoryWatcherAssumption DEF Failed, Unknown, States

\* One event more at the end of the queue.
LEMMA Appending ==
  ASSUME NEW q \in Seq(Events), NEW e \in Events
  PROVE  /\ Append(q, e) \in Seq(Events)
         /\ \A g : Announced(g, q) => Announced(g, Append(q, e))
         /\ e.tag = "WatchReady" => Announced(e.of, Append(q, e))
         /\ \A last, now : QueueIsSound(q, last, now) /\ EventIsSound(e, last, now)
                              => QueueIsSound(Append(q, e), last, now)
<1>1. /\ Append(q, e) \in Seq(Events) /\ Len(Append(q, e)) = Len(q) + 1 /\ Len(q) \in Nat
      /\ \A i \in 1..Len(q) : Append(q, e)[i] = q[i]
      /\ Append(q, e)[Len(q) + 1] = e
  OBVIOUS
<1>2. \A g : Announced(g, q) => Announced(g, Append(q, e))
  BY <1>1 DEF Announced
<1>3. e.tag = "WatchReady" => Announced(e.of, Append(q, e))
  BY <1>1 DEF Announced
<1>4. ASSUME NEW last, NEW now, QueueIsSound(q, last, now), EventIsSound(e, last, now)
      PROVE  QueueIsSound(Append(q, e), last, now)
  BY <1>1, <1>4 DEF QueueIsSound
<1> QED BY <1>1, <1>2, <1>3, <1>4

\* The first event taken out of the queue.
LEMMA Taking ==
  ASSUME NEW q \in Seq(Events), q # <<>>
  PROVE  /\ Tail(q) \in Seq(Events) /\ Head(q) \in Events
         /\ \A g : Announced(g, q) /\ ~(Head(q).tag = "WatchReady" /\ Head(q).of = g)
                     => Announced(g, Tail(q))
         /\ \A last, now : QueueIsSound(q, last, now)
              => QueueIsSound(Tail(q), last, now) /\ EventIsSound(Head(q), last, now)
<1>1. /\ Tail(q) \in Seq(Events) /\ Len(q) \in Nat \ {0} /\ Len(Tail(q)) = Len(q) - 1
      /\ \A i \in 1..(Len(q) - 1) : Tail(q)[i] = q[i + 1]
      /\ Head(q) = q[1] /\ Head(q) \in Events
  OBVIOUS
<1>2. ASSUME NEW g, Announced(g, q), ~(Head(q).tag = "WatchReady" /\ Head(q).of = g)
      PROVE  Announced(g, Tail(q))
  <2>1. PICK i \in 1..Len(q) : q[i].tag = "WatchReady" /\ q[i].of = g
    BY <1>2 DEF Announced
  <2>2. i # 1
    BY <1>1, <1>2, <2>1
  <2>3. i - 1 \in 1..Len(Tail(q)) /\ Tail(q)[i - 1] = q[i]
    BY <1>1, <2>1, <2>2
  <2> QED BY <2>1, <2>3 DEF Announced
<1>3. ASSUME NEW last, NEW now, QueueIsSound(q, last, now)
      PROVE  QueueIsSound(Tail(q), last, now) /\ EventIsSound(Head(q), last, now)
  <2>1. EventIsSound(q[1], last, now)
    BY <1>1, <1>3 DEF QueueIsSound
  <2>2. \A i \in 1..(Len(q) - 1) : EventIsSound(q[i + 1], last, now)
    BY <1>1, <1>3 DEF QueueIsSound
  <2> QED BY <1>1, <2>1, <2>2 DEF QueueIsSound
<1> QED BY <1>1, <1>2, <1>3

\* Timers out of date are the only thing an outdated queue has lost.
LEMMA Outdating ==
  ASSUME NEW q \in Seq(Events)
  PROVE  /\ Outdated(q) \in Seq(Events)
         /\ \A g : Announced(g, q) => Announced(g, Outdated(q))
         /\ \A last, now, other : QueueIsSound(q, last, now) => QueueIsSound(Outdated(q), last, other)
<1>1. /\ Len(q) \in Nat /\ DOMAIN q = 1..Len(q) /\ \A i \in 1..Len(q) : q[i] \in Events
  OBVIOUS
<1>2. \A i \in 1..Len(q) : /\ Outdated(q)[i] \in Events
                           /\ Outdated(q)[i].tag = q[i].tag /\ Outdated(q)[i].of = q[i].of
                           /\ q[i].tag = "Due" => Outdated(q)[i].state = Failed
  <2> SUFFICES ASSUME NEW i \in 1..Len(q)
               PROVE  /\ Outdated(q)[i] \in Events
                      /\ Outdated(q)[i].tag = q[i].tag /\ Outdated(q)[i].of = q[i].of
                      /\ q[i].tag = "Due" => Outdated(q)[i].state = Failed
    OBVIOUS
  <2>1. Outdated(q)[i] = IF q[i].tag = "Due" THEN [q[i] EXCEPT !.state = Failed] ELSE q[i]
    BY <1>1 DEF Outdated
  <2>2. q[i] \in [tag : Tags, of : Generations \cup Projects, state : 0..Failed]
    BY <1>1 DEF Events
  <2> QED BY <2>1, <2>2, WatcherNumbers DEF Events
<1>3. Outdated(q) \in [1..Len(q) -> Events]
  BY <1>1, <1>2 DEF Outdated
<1>4. Outdated(q) \in Seq(Events) /\ Len(Outdated(q)) = Len(q)
  BY <1>1, <1>3
<1>5. \A g : Announced(g, q) => Announced(g, Outdated(q))
  BY <1>2, <1>4 DEF Announced
<1>6. ASSUME NEW last, NEW now, NEW other, QueueIsSound(q, last, now)
      PROVE  QueueIsSound(Outdated(q), last, other)
  BY <1>2, <1>4, <1>6 DEF QueueIsSound, EventIsSound
<1> QED BY <1>4, <1>5, <1>6
\* A reading that is asked for: what it changes of the handler's knowledge.
LEMMA Reconciling ==
  ASSUME NEW STATE a, NEW STATE rest, a \in ActiveRecords, a.generation \in 1..latest,
         resolves \subseteq 1..latest, read \in {"none", "reading"} \X (0..Failed),
         Reconcile(a, rest)
  PROVE  /\ active' \in ActiveRecords
         /\ active'.generation = a.generation /\ active'.watch = a.watch
         /\ queue' \in {rest, Outdated(rest)}
         /\ resolves' \subseteq 1..latest /\ read' \in {"none", "reading"} \X (0..Failed)
<1>1. CASE ~a.directories
  <2>1. /\ active' = [a EXCEPT !.resolving = TRUE] /\ queue' = rest /\ read' = read
        /\ resolves' = resolves \cup (IF a.resolving THEN {} ELSE {a.generation})
    BY <1>1 DEF Reconcile
  <2> QED BY <2>1 DEF ActiveRecords
<1>2. CASE a.directories /\ a.inFlight
  <2>1. /\ active' = [a EXCEPT !.followUp = TRUE] /\ queue' = rest
        /\ resolves' = resolves /\ read' = read
    BY <1>2 DEF Reconcile
  <2> QED BY <2>1 DEF ActiveRecords
<1>3. CASE a.directories /\ ~a.inFlight
  <2> DEFINE c == [a EXCEPT !.inFlight = TRUE]
  <2>1. /\ active' = [c EXCEPT !.timer = FALSE] /\ queue' = Outdated(rest)
        /\ resolves' = resolves /\ read' = <<"reading", Unknown>>
    BY <1>3 DEF Reconcile
  <2>2. c \in ActiveRecords /\ c.generation = a.generation /\ c.watch = a.watch
    BY DEF ActiveRecords
  <2> HIDE DEF c
  <2>3. /\ active' \in ActiveRecords /\ active'.generation = c.generation
        /\ active'.watch = c.watch
    BY <2>1, <2>2 DEF ActiveRecords
  <2> QED BY <2>1, <2>2, <2>3, WatcherNumbers
<1> QED BY <1>1, <1>2, <1>3

WatcherBookkeeping ==
  /\ read' \in {"none", "reading"} \X (0..Failed)
  /\ read'[1] = "reading" \/ active'.timer => active'.generation # 0
  /\ resolves' \subseteq 1..latest' /\ starts' \subseteq 1..latest'
  /\ published' \in (0..MaxGenerations) \X (0..Unknown)
  /\ missed' \subseteq Generations

\* The handler takes an event and stays with the repository it has.
LEMMA HandledKeeps ==
  ASSUME WatcherIInv, queue # <<>>, Head(queue).tag # "WatchReady",
         queue' \in {Tail(queue), Outdated(Tail(queue))},
         active' \in ActiveRecords, active'.generation = active.generation,
         active'.watch = active.watch, actual' = actual, projectOf' = projectOf,
         selected' = selected, latest' = latest, watching' = watching, WatcherBookkeeping
  PROVE  WatcherIInv'
<1>1. queue \in Seq(Events) /\ WatcherTypeOK
  BY DEF WatcherIInv, WatcherTypeOK, Events
<1>2. /\ Tail(queue) \in Seq(Events)
      /\ \A g : Announced(g, queue) => Announced(g, Tail(queue))
      /\ QueueIsSound(Tail(queue), latest, active.generation)
  BY <1>1, Taking DEF WatcherIInv
<1>3. /\ Outdated(Tail(queue)) \in Seq(Events)
      /\ \A g : Announced(g, Tail(queue)) => Announced(g, Outdated(Tail(queue)))
      /\ QueueIsSound(Outdated(Tail(queue)), latest, active.generation)
  BY <1>2, Outdating
<1>4. /\ queue' \in Seq(Events) /\ \A g : Announced(g, queue) => Announced(g, queue')
      /\ QueueIsSound(queue', latest, active.generation)
  BY <1>2, <1>3, Zenon
<1>5. WatchesAreOwned'
  <2> SUFFICES ASSUME NEW g \in watching', ~(active'.generation = g /\ active'.watch)
               PROVE  Announced(g, queue')
    BY DEF WatchesAreOwned, Announced
  <2>1. Announced(g, queue)
    BY DEF WatcherIInv, WatchesAreOwned, Announced
  <2> QED BY <1>4, <2>1
<1>6. WatcherTypeOK'
  <2>1. 1..latest' \subseteq Generations /\ 0..latest' = 0..latest
    BY <1>1, WatcherNumbers DEF WatcherTypeOK, Generations
  <2>2. watching' \subseteq 1..latest'
    BY DEF WatcherIInv, GenerationsAreGiven
  <2> QED BY <1>1, <1>4, <2>1, <2>2 DEF WatcherTypeOK, WatcherBookkeeping, ActiveRecords, Events
<1>7. GenerationsAreGiven' /\ WorkIsActive'
  BY DEF WatcherIInv, GenerationsAreGiven, WorkIsActive, WatcherBookkeeping
<1>8. QueueIsSound(queue, latest, active.generation)'
  BY <1>4
<1> QED BY <1>5, <1>6, <1>7, <1>8 DEF WatcherIInv

\* An event is added, and the handler stays with the repository it has.
LEMMA AddedKeeps ==
  ASSUME WatcherIInv, NEW e \in Events, queue' = Append(queue, e),
         EventIsSound(e, latest', active.generation),
         active' \in ActiveRecords, active'.generation = active.generation,
         active'.watch = active.watch, actual' = actual,
         projectOf' \in [Generations -> Projects \cup {NoProject}],
         \A g \in 1..latest' : projectOf'[g] \in Projects,
         selected' \in 0..latest', latest' \in 0..MaxGenerations, latest <= latest',
         watching' \subseteq 1..latest',
         \A g \in watching' \ watching : e.tag = "WatchReady" /\ e.of = g,
         WatcherBookkeeping
  PROVE  WatcherIInv'
<1>1. queue \in Seq(Events) /\ WatcherTypeOK /\ latest \in Nat /\ latest' \in Nat
  <2>1. queue \in Seq(Events) /\ WatcherTypeOK
    BY DEF WatcherIInv, WatcherTypeOK, Events
  <2>2. latest \in Nat /\ latest' \in Nat
    BY <2>1, WatcherNumbers DEF WatcherTypeOK
  <2> QED BY <2>1, <2>2
<1>2. QueueIsSound(queue, latest', active.generation)
  <2>1. \A n \in 1..latest : n \in 1..latest'
    BY <1>1
  <2> QED BY <2>1 DEF WatcherIInv, QueueIsSound, EventIsSound
<1>3. /\ queue' \in Seq(Events) /\ \A g : Announced(g, queue) => Announced(g, queue')
      /\ e.tag = "WatchReady" => Announced(e.of, queue')
      /\ QueueIsSound(queue', latest', active.generation)
  BY <1>1, <1>2, Appending
<1>4. WatchesAreOwned'
  <2> SUFFICES ASSUME NEW g \in watching', ~(active'.generation = g /\ active'.watch)
               PROVE  Announced(g, queue')
    BY DEF WatchesAreOwned, Announced
  <2>1. CASE g \in watching
    <3>1. Announced(g, queue)
      BY <2>1 DEF WatcherIInv, WatchesAreOwned, Announced
    <3> QED BY <1>3, <3>1
  <2>2. CASE g \notin watching
    BY <1>3, <2>2
  <2> QED BY <2>1, <2>2
<1>5. 1..latest' \subseteq Generations /\ \A n \in 0..latest : n \in 0..latest'
  BY <1>1, WatcherNumbers DEF Generations
<1>6. active' \in [generation : 0..latest', directories : BOOLEAN, watch : BOOLEAN,
                   fingerprint : 0..Unknown, resolving : BOOLEAN, inFlight : BOOLEAN,
                   followUp : BOOLEAN, timer : BOOLEAN]
  BY <1>5 DEF ActiveRecords
<1>7. WatcherTypeOK'
  BY <1>1, <1>3, <1>5, <1>6 DEF WatcherTypeOK, WatcherBookkeeping, Events
<1>8. GenerationsAreGiven' /\ WorkIsActive'
  BY DEF WatcherIInv, GenerationsAreGiven, WorkIsActive, WatcherBookkeeping
<1>9. QueueIsSound(queue, latest, active.generation)'
  BY <1>3
<1> QED BY <1>4, <1>7, <1>8, <1>9 DEF WatcherIInv
\* What the invariant gives to the proofs of the steps.
LEMMA WatcherFacts ==
  ASSUME WatcherIInv
  PROVE  /\ queue \in Seq(Events) /\ active \in ActiveRecords
         /\ latest \in Nat /\ latest \in 0..MaxGenerations /\ 1..latest \subseteq Generations
         /\ resolves \subseteq 1..latest /\ starts \subseteq 1..latest /\ watching \subseteq 1..latest
         /\ read \in {"none", "reading"} \X (0..Failed)
         /\ published \in (0..MaxGenerations) \X (0..Unknown) /\ missed \subseteq Generations
         /\ projectOf \in [Generations -> Projects \cup {NoProject}]
         /\ \A g \in 1..latest : projectOf[g] \in Projects
         /\ actual \in [Projects -> States] /\ selected \in 0..latest
         /\ read[1] = "reading" \/ active.timer => active.generation # 0
         /\ active.generation \in 0..latest
BY WatcherNumbers DEF WatcherIInv, WatcherTypeOK, GenerationsAreGiven, WorkIsActive, Events,
                      ActiveRecords, Generations

\* The events that are added.
LEMMA EventsAdded ==
  /\ \A g \in Generations, s \in 0..Failed, tag \in Tags : Event(tag, g, s) \in Events
  /\ \A p \in Projects, s \in 0..Failed, tag \in Tags : Event(tag, p, s) \in Events
  /\ \A tag, x, s : /\ Event(tag, x, s).tag = tag /\ Event(tag, x, s).of = x
                    /\ Event(tag, x, s).state = s
BY DEF Event, Events

\* An event about a generation that was given out is sound.
LEMMA GivenIsSound ==
  ASSUME NEW tag \in {"Activate", "Directories", "WatchReady", "Reconciled"},
         NEW last, NEW g \in 1..last, g \in Generations, NEW s \in 0..Failed
  PROVE  /\ Event(tag, g, s) \in Events
         /\ \A now : EventIsSound(Event(tag, g, s), last, now)
<1>1. /\ Event(tag, g, s) \in Events /\ Event(tag, g, s).tag = tag
      /\ Event(tag, g, s).of = g
  BY EventsAdded DEF Tags
<1> QED BY <1>1 DEF EventIsSound

LEMMA CallsKeepWatches ==
  ASSUME WatcherIInv, NEW p \in Projects, Activate(p) \/ Deactivate(p)
  PROVE  WatcherIInv'
<1> USE WatcherFacts DEF fiberVars, outVars
<1>1. CASE Activate(p)
  <2> DEFINE g == latest + 1  e == Event("Activate", latest + 1, 0)
  <2>1. /\ latest' = g /\ selected' = g /\ projectOf' = [projectOf EXCEPT ![g] = p]
        /\ queue' = Append(queue, e) /\ latest < MaxGenerations
        /\ active' = active /\ actual' = actual /\ read' = read /\ resolves' = resolves
        /\ starts' = starts /\ watching' = watching /\ published' = published
        /\ missed' = missed
    BY <1>1 DEF Activate
  <2>2. g \in Generations /\ g \in 1..g /\ 1..latest \subseteq 1..g /\ latest <= g
        /\ g \in 0..MaxGenerations /\ 1..g = 1..latest \cup {g} /\ g \in 0..g
    BY SMTT(20), <2>1, WatcherNumbers DEF Generations
  <2>3. e \in Events /\ EventIsSound(e, g, active.generation)
    BY <2>2, GivenIsSound, WatcherNumbers
  <2> HIDE DEF e, g
  <2>4. /\ projectOf' \in [Generations -> Projects \cup {NoProject}]
        /\ \A x \in 1..g : projectOf'[x] \in Projects
    BY <2>1, <2>2
  <2>5. WatcherBookkeeping
    BY <2>1, <2>2 DEF WatcherBookkeeping
  <2> QED BY <2>1, <2>2, <2>3, <2>4, <2>5, AddedKeeps
<1>2. CASE Deactivate(p)
  <2> DEFINE e == Event("Deactivate", p, 0)
  <2>1. /\ selected' = 0 /\ queue' = Append(queue, e) /\ latest' = latest
        /\ projectOf' = projectOf /\ active' = active /\ actual' = actual /\ read' = read
        /\ resolves' = resolves /\ starts' = starts /\ watching' = watching
        /\ published' = published /\ missed' = missed
    BY <1>2 DEF Deactivate
  <2>2. e \in Events /\ EventIsSound(e, latest, active.generation)
    BY EventsAdded, WatcherNumbers DEF EventIsSound, Tags
  <2> HIDE DEF e
  <2>3. WatcherBookkeeping
    BY <2>1 DEF WatcherBookkeeping
  <2> QED BY <2>1, <2>2, <2>3, AddedKeeps
<1> QED BY <1>1, <1>2

LEMMA SignalsKeepWatches ==
  ASSUME WatcherIInv, Poll \/ \E g \in Generations : Signal(g)
  PROVE  WatcherIInv'
<1> USE WatcherFacts DEF fiberVars, outVars, apiVars
<1>1. PICK p \in Projects, tag \in {"Hint", "Force"} : queue' = Append(queue, Event(tag, p, 0))
  <2>1. CASE Poll
    <3>1. SelectedProject \in Projects
      BY <2>1 DEF Poll, SelectedProject
    <3> QED BY <2>1, <3>1 DEF Poll
  <2>2. ASSUME NEW g \in Generations, Signal(g)
        PROVE  \E p \in Projects, tag \in {"Hint", "Force"} :
                 queue' = Append(queue, Event(tag, p, 0))
    <3>1. projectOf[g] \in Projects
      BY <2>2 DEF Signal
    <3> QED BY <2>2, <3>1 DEF Signal
  <2> QED BY <2>1, <2>2
<1>2. /\ latest' = latest /\ selected' = selected /\ projectOf' = projectOf /\ active' = active
      /\ actual' = actual /\ read' = read /\ resolves' = resolves /\ starts' = starts
      /\ watching' = watching /\ published' = published /\ missed' = missed
  BY DEF Poll, Signal
<1> DEFINE e == Event(tag, p, 0)
<1>3. e \in Events /\ EventIsSound(e, latest, active.generation)
  BY EventsAdded, WatcherNumbers DEF EventIsSound, Tags
<1>4. queue' = Append(queue, e)
  BY <1>1
<1> HIDE DEF e
<1>5. WatcherBookkeeping
  BY <1>2 DEF WatcherBookkeeping
<1> QED BY <1>2, <1>3, <1>4, <1>5, AddedKeeps

LEMMA FibersKeepWatches ==
  ASSUME WatcherIInv,
         \/ \E g \in Generations : ResolveDirectories(g) \/ StartWatch(g)
         \/ OfferState \/ TimerFires
  PROVE  WatcherIInv'
<1> USE WatcherFacts DEF fiberVars, outVars, apiVars
<1>0. /\ latest' = latest /\ selected' = selected /\ projectOf' = projectOf
      /\ actual' = actual /\ published' = published /\ missed' = missed
  BY DEF ResolveDirectories, StartWatch, OfferState, TimerFires
<1>1. ASSUME NEW g \in Generations, ResolveDirectories(g) PROVE WatcherIInv'
  <2>1. PICK result \in {0, Failed} : queue' = Append(queue, Event("Directories", g, result))
    BY <1>1 DEF ResolveDirectories
  <2>2. /\ g \in 1..latest /\ resolves' = resolves \ {g} /\ active' = active /\ read' = read
        /\ starts' = starts /\ watching' = watching
    BY <1>1 DEF ResolveDirectories
  <2> DEFINE e == Event("Directories", g, result)
  <2>3. e \in Events /\ EventIsSound(e, latest, active.generation)
    BY <2>2, GivenIsSound, WatcherNumbers
  <2>4. queue' = Append(queue, e)
    BY <2>1
  <2> HIDE DEF e
  <2>5. WatcherBookkeeping
    BY <1>0, <2>2 DEF WatcherBookkeeping
  <2> QED BY <1>0, <2>2, <2>3, <2>4, <2>5, AddedKeeps
<1>2. ASSUME NEW g \in Generations, StartWatch(g) PROVE WatcherIInv'
  <2> DEFINE e == Event("WatchReady", g, 0)
  <2>1. /\ queue' = Append(queue, e) /\ g \in 1..latest /\ starts' = starts \ {g}
        /\ watching' = watching \cup {g} /\ active' = active /\ read' = read
        /\ resolves' = resolves
    BY <1>2 DEF StartWatch
  <2>2. e \in Events /\ EventIsSound(e, latest, active.generation)
    BY <2>1, GivenIsSound, WatcherNumbers
  <2>3. e.tag = "WatchReady" /\ e.of = g
    BY EventsAdded
  <2> HIDE DEF e
  <2>4. WatcherBookkeeping
    BY <1>0, <2>1 DEF WatcherBookkeeping
  <2>5. watching' \subseteq 1..latest' /\ \A x \in watching' \ watching : x = g
    BY <1>0, <2>1
  <2> QED BY SMTT(20), <1>0, <2>1, <2>2, <2>3, <2>4, <2>5, AddedKeeps
<1>3. CASE OfferState
  <2> DEFINE e == Event("Reconciled", active.generation, read[2])
  <2>1. /\ queue' = Append(queue, e) /\ read[1] = "reading" /\ read' = NoRead
        /\ active' = active /\ resolves' = resolves /\ starts' = starts /\ watching' = watching
    BY <1>3 DEF OfferState
  <2>2. active.generation \in 1..latest /\ read[2] \in 0..Failed
    BY <2>1
  <2>3. e \in Events /\ EventIsSound(e, latest, active.generation)
    BY <2>2, EventsAdded DEF EventIsSound, Tags
  <2> HIDE DEF e
  <2>4. WatcherBookkeeping
    BY <1>0, <2>1, WatcherNumbers DEF WatcherBookkeeping, NoRead
  <2> QED BY <1>0, <2>1, <2>3, <2>4, AddedKeeps
<1>4. CASE TimerFires
  <2> DEFINE e == Event("Due", active.generation, 0)
  <2>1. /\ queue' = Append(queue, e) /\ active.timer /\ active' = [active EXCEPT !.timer = FALSE]
        /\ read' = read /\ resolves' = resolves /\ starts' = starts /\ watching' = watching
    BY <1>4 DEF TimerFires
  <2>2. active.generation \in 1..latest
    BY <2>1
  <2>3. e \in Events /\ EventIsSound(e, latest, active.generation)
    BY <2>2, EventsAdded, WatcherNumbers DEF EventIsSound, Tags
  <2> HIDE DEF e
  <2>4. /\ active' \in ActiveRecords /\ active'.generation = active.generation
        /\ active'.watch = active.watch /\ ~active'.timer
    BY <2>1 DEF ActiveRecords
  <2>5. WatcherBookkeeping
    BY <1>0, <2>1, <2>4 DEF WatcherBookkeeping
  <2>6. queue' = Append(queue, e) /\ watching' = watching
    BY <2>1
  <2> QED BY <1>0, <2>3, <2>4, <2>5, <2>6, AddedKeeps
<1> QED BY <1>1, <1>2, <1>3, <1>4

\* A state is read, a repository changes, or nothing happens: the queue and the watches stay.
LEMMA OtherStepsKeepWatches ==
  ASSUME WatcherIInv, ReadState \/ (\E p \in Projects : Change(p)) \/ UNCHANGED watcherVars
  PROVE  WatcherIInv'
<1> USE WatcherFacts DEF fiberVars, outVars, apiVars
<1>1. /\ latest' = latest /\ selected' = selected /\ projectOf' = projectOf /\ queue' = queue
      /\ active' = active /\ resolves' = resolves /\ starts' = starts /\ watching' = watching
      /\ published' = published /\ missed' = missed
  BY DEF ReadState, Change, watcherVars
<1>2. actual' \in [Projects -> States]
  <2>1. CASE \E p \in Projects : Change(p)
    <3>1. PICK p \in Projects : Change(p)
      BY <2>1
    <3>2. actual[p] + 1 \in States
      BY SMTT(20), <3>1, WatcherNumbers DEF Change, States
    <3> QED BY <3>1, <3>2 DEF Change
  <2>2. CASE ~ \E p \in Projects : Change(p)
    BY <2>2 DEF ReadState, watcherVars
  <2> QED BY <2>1, <2>2
<1>3. read' \in {"none", "reading"} \X (0..Failed) /\ (read'[1] = "reading" => read[1] = "reading")
  <2>1. CASE ReadState
    <3>1. projectOf[active.generation] \in Projects
      BY <2>1 DEF ReadState
    <3>2. PICK s \in {actual[projectOf[active.generation]], Failed} : read' = <<"reading", s>>
      BY <2>1 DEF ReadState
    <3>3. s \in 0..Failed /\ read[1] = "reading"
      BY <2>1, <3>1, WatcherNumbers DEF ReadState
    <3> QED BY <3>2, <3>3
  <2>2. CASE ~ReadState
    BY <2>2 DEF Change, watcherVars
  <2> QED BY <2>1, <2>2
<1>4. WatcherTypeOK' /\ GenerationsAreGiven' /\ WorkIsActive'
  BY <1>1, <1>2, <1>3 DEF WatcherIInv, WatcherTypeOK, GenerationsAreGiven, WorkIsActive
<1>5. WatchesAreOwned' /\ QueueIsSound(queue, latest, active.generation)'
  BY <1>1 DEF WatcherIInv, WatchesAreOwned, QueueIsSound, EventIsSound
<1> QED BY <1>4, <1>5 DEF WatcherIInv
\* The repository changes or goes: its watch is stopped, and every other one is announced.
LEMMA SwitchKeeps ==
  ASSUME WatcherIInv, queue # <<>>, Head(queue).tag # "WatchReady", StopActive,
         queue' = Outdated(Tail(queue)),
         active'.generation = 0 \/ active'.generation \in 1..latest,
         active' \in ActiveRecords, ~active'.timer,
         actual' = actual, projectOf' = projectOf, selected' = selected, latest' = latest,
         resolves' \subseteq 1..latest, starts' = starts,
         published' = published, missed' = missed
  PROVE  WatcherIInv'
<1> USE WatcherFacts
<1>1. /\ Tail(queue) \in Seq(Events)
      /\ \A g : Announced(g, queue) => Announced(g, Tail(queue))
      /\ QueueIsSound(Tail(queue), latest, active.generation)
  BY Taking DEF WatcherIInv
<1>2. PICK now : now = active'.generation
  OBVIOUS
<1>3. /\ Outdated(Tail(queue)) \in Seq(Events)
      /\ \A g : Announced(g, Tail(queue)) => Announced(g, Outdated(Tail(queue)))
      /\ QueueIsSound(Outdated(Tail(queue)), latest, now)
  BY <1>1, Outdating
<1>4. /\ queue' \in Seq(Events)
      /\ \A g : Announced(g, queue) => Announced(g, queue')
      /\ QueueIsSound(queue', latest', active'.generation)
  BY <1>1, <1>2, <1>3, Zenon
<1>5. /\ watching' = IF active.watch THEN watching \ {active.generation} ELSE watching
      /\ read' = NoRead
  BY DEF StopActive
<1>6. WatchesAreOwned'
  <2> SUFFICES ASSUME NEW g \in watching' PROVE Announced(g, queue')
    BY DEF WatchesAreOwned, Announced
  <2>1. g \in watching /\ ~(active.generation = g /\ active.watch)
    BY <1>5
  <2>2. Announced(g, queue)
    BY <2>1 DEF WatcherIInv, WatchesAreOwned, Announced
  <2> QED BY <1>4, <2>2
<1>7. /\ watching' \subseteq 1..latest /\ read' \in {"none", "reading"} \X (0..Failed)
      /\ read'[1] # "reading"
  BY <1>5, WatcherNumbers DEF NoRead
<1>8. WatcherTypeOK'
  BY <1>4, <1>7 DEF WatcherTypeOK, ActiveRecords, Events
<1>9. GenerationsAreGiven' /\ WorkIsActive'
  BY <1>7 DEF GenerationsAreGiven, WorkIsActive
<1>10. QueueIsSound(queue, latest, active.generation)'
  BY <1>4
<1> QED BY <1>6, <1>8, <1>9, <1>10 DEF WatcherIInv

LEMMA SwitchesKeepWatches ==
  ASSUME WatcherIInv, HandleActivate \/ HandleDeactivate
  PROVE  WatcherIInv'
<1> USE WatcherFacts DEF outVars, apiVars
<1> DEFINE e == Head(queue)
<1>0. queue # <<>> /\ e.tag \in {"Activate", "Deactivate"}
  BY DEF HandleActivate, HandleDeactivate, Next1
<1>1. EventIsSound(e, latest, active.generation)
  BY <1>0, Taking DEF WatcherIInv
<1>2. Inactive \in ActiveRecords /\ Inactive.generation = 0 /\ ~Inactive.timer
  BY WatcherNumbers DEF Inactive, ActiveRecords
<1>3. CASE HandleActivate
  <2>1. e.of \in 1..latest
    BY <1>0, <1>1, <1>3 DEF EventIsSound, HandleActivate, Next1
  <2> DEFINE c == [Inactive EXCEPT !.generation = e.of]
  <2>2. c \in ActiveRecords /\ c.generation = e.of /\ ~c.timer
    BY SMTT(20), <1>2, <2>1 DEF ActiveRecords
  <2>3. /\ StopActive /\ active' = [c EXCEPT !.resolving = TRUE]
        /\ resolves' = resolves \cup {e.of} /\ queue' = Outdated(Tail(queue))
        /\ actual' = actual /\ projectOf' = projectOf /\ selected' = selected
        /\ latest' = latest /\ starts' = starts /\ published' = published /\ missed' = missed
    BY <1>3 DEF HandleActivate
  <2> HIDE DEF c
  <2>4. active' \in ActiveRecords /\ active'.generation = c.generation /\ ~active'.timer
    BY <2>2, <2>3 DEF ActiveRecords
  <2>5. resolves' \subseteq 1..latest
    BY <2>1, <2>3
  <2> QED BY <1>0, <2>1, <2>2, <2>3, <2>4, <2>5, SwitchKeeps
<1>4. CASE HandleDeactivate /\ Concerns(e.of)
  <2>1. /\ StopActive /\ active' = Inactive /\ queue' = Outdated(Tail(queue))
        /\ actual' = actual /\ projectOf' = projectOf /\ selected' = selected
        /\ latest' = latest /\ starts' = starts /\ published' = published /\ missed' = missed
        /\ resolves' = resolves
    BY <1>4 DEF HandleDeactivate
  <2> QED BY <1>0, <1>2, <2>1, SwitchKeeps
<1>5. CASE HandleDeactivate /\ ~Concerns(e.of)
  <2>1. /\ queue' = Tail(queue) /\ active' = active /\ watching' = watching /\ read' = read
        /\ actual' = actual /\ projectOf' = projectOf /\ selected' = selected
        /\ latest' = latest /\ starts' = starts /\ published' = published /\ missed' = missed
        /\ resolves' = resolves
    BY <1>5 DEF HandleDeactivate
  <2>2. WatcherBookkeeping
    BY <2>1 DEF WatcherBookkeeping
  <2> QED BY <1>0, <2>1, <2>2, HandledKeeps
<1> QED BY <1>3, <1>4, <1>5

LEMMA HintsKeepWatches ==
  ASSUME WatcherIInv, HandleHint \/ HandleForce \/ HandleDue
  PROVE  WatcherIInv'
<1> USE WatcherFacts DEF outVars, apiVars, fiberVars
<1> DEFINE e == Head(queue)
<1>0. queue # <<>> /\ e.tag \in {"Hint", "Force", "Due"}
  BY DEF HandleHint, HandleForce, HandleDue, Next1
<1>1. EventIsSound(e, latest, active.generation)
  BY <1>0, Taking DEF WatcherIInv
<1>2. /\ actual' = actual /\ projectOf' = projectOf /\ selected' = selected
      /\ latest' = latest /\ starts' = starts /\ published' = published /\ missed' = missed
      /\ watching' = watching
  BY DEF HandleHint, HandleForce, HandleDue
<1>3. CASE HandleHint
  <2>1. /\ queue' = Tail(queue) /\ read' = read /\ resolves' = resolves
        /\ \/ active' = active
           \/ active' = [active EXCEPT !.followUp = TRUE]
           \/ active' = [active EXCEPT !.timer = TRUE] /\ active.generation # 0
    BY <1>3 DEF HandleHint, Concerns
  <2>2. /\ active' \in ActiveRecords /\ active'.generation = active.generation
        /\ active'.watch = active.watch /\ (active'.timer => active.generation # 0)
    BY <2>1 DEF ActiveRecords
  <2>3. WatcherBookkeeping
    BY <1>2, <2>1, <2>2 DEF WatcherBookkeeping
  <2> QED BY <1>0, <1>2, <2>1, <2>2, <2>3, HandledKeeps
<1>4. CASE (HandleForce \/ HandleDue) /\ Reconcile(active, Tail(queue)) /\ active.generation # 0
  <2>0. active.generation \in 1..latest
    BY <1>4
  <2>1. /\ active' \in ActiveRecords
        /\ active'.generation = active.generation /\ active'.watch = active.watch
        /\ queue' \in {Tail(queue), Outdated(Tail(queue))}
        /\ resolves' \subseteq 1..latest /\ read' \in {"none", "reading"} \X (0..Failed)
    BY <1>4, <2>0, Reconciling
  <2>2. WatcherBookkeeping
    BY <1>2, <1>4, <2>1 DEF WatcherBookkeeping
  <2> QED BY <1>0, <1>2, <2>1, <2>2, HandledKeeps
<1>5. CASE UNCHANGED <<active, resolves, read>> /\ queue' = Tail(queue)
  <2>1. WatcherBookkeeping
    BY <1>2, <1>5 DEF WatcherBookkeeping
  <2> QED BY <1>0, <1>2, <1>5, <2>1, HandledKeeps
<1>6. CASE HandleForce
  BY <1>4, <1>5, <1>6 DEF HandleForce, Concerns
<1>7. CASE HandleDue
  <2>1. e.state # Failed => active.generation # 0
    BY <1>1, <1>7 DEF EventIsSound, HandleDue, Next1
  <2> QED BY <1>4, <1>5, <1>7, <2>1 DEF HandleDue
<1> QED BY <1>3, <1>6, <1>7

LEMMA DirectoriesKeepWatches ==
  ASSUME WatcherIInv, HandleDirectories
  PROVE  WatcherIInv'
<1> USE WatcherFacts DEF outVars, apiVars
<1> DEFINE e == Head(queue)
<1>0. queue # <<>> /\ e.tag = "Directories"
  BY DEF HandleDirectories, Next1
<1>1. EventIsSound(e, latest, active.generation)
  BY <1>0, Taking DEF WatcherIInv
<1>2. /\ actual' = actual /\ projectOf' = projectOf /\ selected' = selected
      /\ latest' = latest /\ published' = published /\ missed' = missed
      /\ watching' = watching
  BY DEF HandleDirectories
<1>3. e.of \in 1..latest
  BY <1>0, <1>1 DEF EventIsSound
<1>4. CASE ~Current(e.of) \/ e.state = Failed
  <2>1. /\ queue' = Tail(queue) /\ read' = read /\ resolves' = resolves /\ starts' = starts
        /\ active' = active \/ active' = [active EXCEPT !.resolving = FALSE]
    BY <1>4 DEF HandleDirectories
  <2>2. /\ active' \in ActiveRecords /\ active'.generation = active.generation
        /\ active'.watch = active.watch /\ active'.timer = active.timer
    BY <2>1 DEF ActiveRecords
  <2>3. WatcherBookkeeping
    BY <1>2, <2>1, <2>2 DEF WatcherBookkeeping
  <2> QED BY <1>0, <1>2, <2>1, <2>2, <2>3, HandledKeeps
<1>5. CASE Current(e.of) /\ e.state # Failed
  <2> DEFINE c == [active EXCEPT !.resolving = FALSE]
             a == [active EXCEPT !.resolving = FALSE, !.directories = TRUE]
  <2>1. starts' = starts \cup {e.of} /\ Reconcile(a, Tail(queue))
    BY <1>5 DEF HandleDirectories
  <2>2. /\ a \in ActiveRecords /\ a.generation = active.generation /\ a.watch = active.watch
    <3>1. a = [c EXCEPT !.directories = TRUE]
      BY Zenon
    <3>2. c \in ActiveRecords /\ c.generation = active.generation /\ c.watch = active.watch
      BY DEF ActiveRecords
    <3> HIDE DEF a, c
    <3> QED BY <3>1, <3>2 DEF ActiveRecords
  <2> HIDE DEF a, c
  <2>3. a.generation \in 1..latest /\ active.generation # 0 /\ starts' \subseteq 1..latest
    BY <1>3, <1>5, <2>1, <2>2 DEF Current
  <2>4. /\ active' \in ActiveRecords
        /\ active'.generation = a.generation /\ active'.watch = a.watch
        /\ queue' \in {Tail(queue), Outdated(Tail(queue))}
        /\ resolves' \subseteq 1..latest /\ read' \in {"none", "reading"} \X (0..Failed)
    BY <2>1, <2>2, <2>3, Reconciling
  <2>5. WatcherBookkeeping
    BY <1>2, <2>2, <2>3, <2>4 DEF WatcherBookkeeping
  <2> QED BY <1>0, <1>2, <2>2, <2>4, <2>5, HandledKeeps
<1> QED BY <1>4, <1>5

\* A watch is handed over, or stopped because it comes too late.
LEMMA WatchReadyKeepsWatches ==
  ASSUME WatcherIInv, HandleWatchReady
  PROVE  WatcherIInv'
<1> USE WatcherFacts DEF outVars, apiVars, fiberVars
<1> DEFINE e == Head(queue)
<1>1. /\ queue # <<>> /\ queue' = Tail(queue)
      /\ actual' = actual /\ projectOf' = projectOf /\ selected' = selected
      /\ latest' = latest /\ published' = published /\ missed' = missed
      /\ read' = read /\ resolves' = resolves /\ starts' = starts
  BY DEF HandleWatchReady, Next1
<1>2. \/ Current(e.of) /\ active' = [active EXCEPT !.watch = TRUE] /\ watching' = watching
      \/ ~Current(e.of) /\ watching' = watching \ {e.of} /\ active' = active
  BY DEF HandleWatchReady
<1>3. /\ Tail(queue) \in Seq(Events)
      /\ \A g : Announced(g, queue) /\ g # e.of => Announced(g, Tail(queue))
      /\ QueueIsSound(Tail(queue), latest, active.generation)
  BY <1>1, Taking DEF WatcherIInv
<1>4. /\ active' \in ActiveRecords /\ active'.generation = active.generation
      /\ active'.timer = active.timer /\ (active.watch => active'.watch)
      /\ (Current(e.of) => active'.watch)
  BY <1>2 DEF ActiveRecords
<1>5. WatchesAreOwned'
  <2> SUFFICES ASSUME NEW g \in watching', ~(active'.generation = g /\ active'.watch)
               PROVE  Announced(g, queue')
    BY DEF WatchesAreOwned, Announced
  <2>1. g \in watching /\ g # e.of
    BY <1>2, <1>4 DEF Current
  <2>2. Announced(g, queue)
    BY <1>4, <2>1 DEF WatcherIInv, WatchesAreOwned, Announced
  <2> QED BY <1>1, <1>3, <2>1, <2>2
<1>6. watching' \subseteq 1..latest
  BY <1>2
<1>7. WatcherTypeOK'
  BY <1>1, <1>3, <1>4, <1>6 DEF WatcherTypeOK, ActiveRecords, Events
<1>8. GenerationsAreGiven' /\ WorkIsActive'
  BY <1>1, <1>4, <1>6 DEF GenerationsAreGiven, WorkIsActive
<1>9. QueueIsSound(queue, latest, active.generation)'
  BY <1>1, <1>3, <1>4
<1> QED BY <1>5, <1>7, <1>8, <1>9 DEF WatcherIInv
\* A state that was read is published, or not, and another reading may be asked for.
LEMMA ReconciledKeepsWatches ==
  ASSUME WatcherIInv, HandleReconciled
  PROVE  WatcherIInv'
<1> USE WatcherFacts DEF outVars, apiVars
<1> DEFINE e == Head(queue)
           f == IF Publishes(active, e) THEN e.state ELSE active.fingerprint
           c == [active EXCEPT !.inFlight = FALSE]
           d == [c EXCEPT !.followUp = FALSE]
           a == [d EXCEPT !.fingerprint = f]
<1>0. queue # <<>> /\ e.tag = "Reconciled" /\ e \in Events
  <2>1. queue # <<>> /\ e.tag = "Reconciled"
    BY DEF HandleReconciled, Next1
  <2> QED BY <2>1, Taking
<1>1. EventIsSound(e, latest, active.generation)
  BY <1>0, Taking DEF WatcherIInv
<1>2. /\ actual' = actual /\ projectOf' = projectOf /\ selected' = selected
      /\ latest' = latest /\ starts' = starts /\ watching' = watching
  BY DEF HandleReconciled
<1>3. e.of \in 1..latest /\ e.of \in Generations /\ e.of \in 0..MaxGenerations
  BY <1>0, <1>1, WatcherNumbers DEF EventIsSound, Generations
<1>4. e.state \in 0..Failed /\ f \in 0..Unknown
  BY <1>0, WatcherNumbers DEF Publishes, Events, ActiveRecords
<1>5. published' \in (0..MaxGenerations) \X (0..Unknown) /\ missed' \subseteq Generations
  <2>1. \/ published' = published /\ missed' = missed
        \/ Publishes(active, e) /\ published' = <<e.of, e.state>> /\ missed' = missed
        \/ missed' = missed \cup {e.of} /\ published' = published
    BY DEF HandleReconciled
  <2>2. Publishes(active, e) => e.state \in 0..Unknown
    BY <1>4, WatcherNumbers DEF Publishes
  <2> QED BY <1>3, <2>1, <2>2
<1>6. CASE ~Current(e.of)
  <2>1. queue' = Tail(queue) /\ active' = active /\ resolves' = resolves /\ read' = read
    BY <1>6 DEF HandleReconciled
  <2>2. WatcherBookkeeping
    BY <1>2, <1>5, <2>1 DEF WatcherBookkeeping
  <2> QED BY <1>0, <1>2, <2>1, <2>2, HandledKeeps
<1>7. CASE Current(e.of)
  <2>1. a = [active EXCEPT !.inFlight = FALSE, !.followUp = FALSE, !.fingerprint = f]
    BY Zenon
  <2>2. IF active.followUp THEN Reconcile(a, Tail(queue))
        ELSE active' = a /\ queue' = Tail(queue) /\ resolves' = resolves /\ read' = read
    BY <1>7 DEF HandleReconciled
  <2>3. a \in ActiveRecords /\ a.generation = active.generation /\ a.watch = active.watch
    <3>1. c \in ActiveRecords /\ c.generation = active.generation /\ c.watch = active.watch
      BY DEF ActiveRecords
    <3> HIDE DEF c
    <3>2. d \in ActiveRecords /\ d.generation = active.generation /\ d.watch = active.watch
      BY <3>1 DEF ActiveRecords
    <3> HIDE DEF d, f
    <3> QED BY <1>4, <3>2 DEF ActiveRecords
  <2> HIDE DEF a, c, d, f
  <2>4. a.generation \in 1..latest /\ active.generation # 0
    BY <1>3, <1>7, <2>3 DEF Current
  <2>5. /\ active' \in ActiveRecords
        /\ active'.generation = a.generation /\ active'.watch = a.watch
        /\ queue' \in {Tail(queue), Outdated(Tail(queue))}
        /\ resolves' \subseteq 1..latest /\ read' \in {"none", "reading"} \X (0..Failed)
    <3>1. CASE active.followUp
      BY <2>2, <2>3, <2>4, <3>1, Reconciling
    <3>2. CASE ~active.followUp
      BY <2>2, <2>3, <3>2
    <3> QED BY <3>1, <3>2
  <2>6. WatcherBookkeeping
    BY <1>2, <1>5, <2>3, <2>4, <2>5 DEF WatcherBookkeeping
  <2> QED BY <1>0, <1>2, <2>3, <2>5, <2>6, HandledKeeps
<1> QED BY <1>6, <1>7

LEMMA WatcherBegins == WatcherInit => WatcherIInv
<1> SUFFICES ASSUME WatcherInit PROVE WatcherIInv
  OBVIOUS
<1> USE WatcherNumbers
<1>1. Inactive \in [generation : 0..0, directories : BOOLEAN, watch : BOOLEAN,
                    fingerprint : 0..Unknown, resolving : BOOLEAN, inFlight : BOOLEAN,
                    followUp : BOOLEAN, timer : BOOLEAN]
  BY DEF Inactive
<1>2. WatcherTypeOK
  <2>1. latest = 0 /\ 0 \in 0..MaxGenerations /\ 0 \in States /\ 0 \in 0..0
    BY DEF WatcherInit, States
  <2> QED BY <1>1, <2>1 DEF WatcherInit, WatcherTypeOK, NoRead
<1>3. GenerationsAreGiven /\ WorkIsActive /\ WatchesAreOwned
  BY DEF WatcherInit, GenerationsAreGiven, WorkIsActive, WatchesAreOwned, NoRead, Inactive
<1>4. QueueIsSound(queue, latest, active.generation)
  BY DEF WatcherInit, QueueIsSound
<1> QED BY <1>2, <1>3, <1>4 DEF WatcherIInv

THEOREM WatcherIsSafe == WatcherSpec => []WatcherIInv
<1>1. WatcherIInv /\ [WatcherNext]_watcherVars => WatcherIInv'
  <2> SUFFICES ASSUME WatcherIInv, [WatcherNext]_watcherVars PROVE WatcherIInv'
    OBVIOUS
  <2>1. ASSUME NEW p \in Projects, Activate(p) \/ Deactivate(p) PROVE WatcherIInv'
    BY <2>1, CallsKeepWatches
  <2>2. ASSUME Poll \/ \E g \in Generations : Signal(g) PROVE WatcherIInv'
    BY <2>2, SignalsKeepWatches
  <2>3. ASSUME \/ \E g \in Generations : ResolveDirectories(g) \/ StartWatch(g)
               \/ OfferState \/ TimerFires
        PROVE  WatcherIInv'
    BY <2>3, FibersKeepWatches
  <2>4. ASSUME ReadState \/ (\E p \in Projects : Change(p)) \/ UNCHANGED watcherVars
        PROVE  WatcherIInv'
    BY <2>4, OtherStepsKeepWatches
  <2>5. ASSUME Handle PROVE WatcherIInv'
    BY <2>5, SwitchesKeepWatches, HintsKeepWatches, DirectoriesKeepWatches,
       WatchReadyKeepsWatches, ReconciledKeepsWatches DEF Handle
  <2> QED BY <2>1, <2>2, <2>3, <2>4, <2>5, Zenon DEF WatcherNext
<1> QED BY <1>1, WatcherBegins, PTL DEF WatcherSpec

\* No native watch of an earlier selection is left running: it is the active one, or the
\* event that lets the handler keep or stop it is in the queue; for every number of
\* selections and changes and however they interleave with the starting of watches.
THEOREM WatchesAreAlwaysOwned == WatcherSpec => []WatchesAreOwned
<1>1. WatcherIInv => WatchesAreOwned
  BY DEF WatcherIInv
<1> QED BY <1>1, WatcherIsSafe, PTL
-----------------------------------------------------------------------------
(* The marks of viewed files *)

EntriesOf(q) == {q[i] : i \in DOMAIN q}

FilesAreUnique(q) == \A i, j \in DOMAIN q : q[i].file = q[j].file => i = j

\* A queued write is the newest of its file, which has no other queued.
QueueIsOfNewest ==
  /\ FilesAreUnique(pending)
  /\ \A m \in EntriesOf(pending) : m.version = versions[m.file]

OneAtATime == (\A v, w \in writing : v = w) /\ (\A k, l \in listing : k = l)

\* The write under way is the newest of its file exactly if none is queued behind it.
WriteIsOfNewest ==
  \A w \in writing : IF IsPending(w.file) THEN w.version < versions[w.file]
                                          ELSE w.version = versions[w.file]

\* A list that is sure of a file overlaps with no write of it.
ListsAreFresh ==
  \A f \in ViewedKeys : ~unsure[f] /\ listing # {} =>
    ~Unsaved(f) /\ \A l \in listing : l.read => l.viewed[f] = stored[f]

\* What the coordinator falls back to is what Core stores, unless a rejected write was stored.
ConfirmedIsStored ==
  \A f \in ViewedKeys : ~unsure[f] /\ ~astray[f] /\ listing = {} =>
    confirmed[f] = IF stored[f] THEN "yes" ELSE "no"

ClicksAreShown ==
  \A f \in ViewedKeys : ~unsure[f] /\ listing = {} =>
    /\ ~Unsaved(f) /\ ~astray[f] => display[f] = stored[f]
    /\ \A m \in EntriesOf(pending) : m.file = f => display[f] = m.next
    /\ ~IsPending(f) => \A w \in writing : w.file = f => display[f] = w.next

ViewedIInv ==
  /\ ViewedTypeOK /\ QueueIsOfNewest /\ OneAtATime /\ WriteIsOfNewest
  /\ ListsAreFresh /\ ConfirmedIsStored /\ ClicksAreShown

LEMMA PendingIsEntry == \A f : IsPending(f) <=> \E m \in EntriesOf(pending) : m.file = f
BY DEF IsPending, EntriesOf

\* A new write takes the place of the queued one of its file.
LEMMA Enqueueing ==
  ASSUME NEW q \in Seq(Mutations), FilesAreUnique(q), NEW m \in Mutations
  PROVE  /\ Enqueue(q, m) \in Seq(Mutations) /\ FilesAreUnique(Enqueue(q, m))
         /\ EntriesOf(Enqueue(q, m)) = {x \in EntriesOf(q) : x.file # m.file} \cup {m}
<1> DEFINE r == Enqueue(q, m)
<1>1. Len(q) \in Nat /\ DOMAIN q = 1..Len(q) /\ \A i \in 1..Len(q) : q[i] \in Mutations
  OBVIOUS
<1>2. CASE \E i \in DOMAIN q : q[i].file = m.file
  <2>1. r = [i \in DOMAIN q |-> IF q[i].file = m.file THEN m ELSE q[i]]
    BY <1>2, Zenon DEF Enqueue
  <2> HIDE DEF r
  <2>2. DOMAIN r = 1..Len(q)
        /\ \A i \in 1..Len(q) : r[i] = IF q[i].file = m.file THEN m ELSE q[i]
    BY <1>1, <2>1
  <2>3. r \in [1..Len(q) -> Mutations]
    BY <1>1, <2>1
  <2>4. r \in Seq(Mutations)
    BY <1>1, <2>3
  <2>5. FilesAreUnique(r)
    BY <1>1, <2>2 DEF FilesAreUnique
  <2>6. ASSUME NEW x PROVE x \in EntriesOf(r) <=> x = m \/ (x \in EntriesOf(q) /\ x.file # m.file)
    BY <1>1, <1>2, <2>2 DEF EntriesOf
  <2>7. EntriesOf(r) = {x \in EntriesOf(q) : x.file # m.file} \cup {m}
    BY <2>6
  <2> QED BY <2>4, <2>5, <2>7 DEF r
<1>3. CASE ~ \E i \in DOMAIN q : q[i].file = m.file
  <2>1. r = Append(q, m)
    BY <1>3, Zenon DEF Enqueue
  <2> HIDE DEF r
  <2>2. /\ r \in Seq(Mutations) /\ Len(r) = Len(q) + 1 /\ DOMAIN r = 1..(Len(q) + 1)
        /\ \A i \in 1..Len(q) : r[i] = q[i]
        /\ r[Len(q) + 1] = m
    BY <1>1, <2>1
  <2>3. FilesAreUnique(r)
    <3> SUFFICES ASSUME NEW i \in 1..(Len(q) + 1), NEW j \in 1..(Len(q) + 1),
                        r[i].file = r[j].file
                 PROVE  i = j
      BY <2>2 DEF FilesAreUnique
    <3>1. CASE i = Len(q) + 1 \/ j = Len(q) + 1
      BY <1>1, <1>3, <2>2, <3>1
    <3>2. CASE i # Len(q) + 1 /\ j # Len(q) + 1
      <4>1. i \in 1..Len(q) /\ j \in 1..Len(q)
        BY <1>1, <3>2
      <4> QED BY <1>1, <2>2, <4>1 DEF FilesAreUnique
    <3> QED BY <3>1, <3>2
  <2>4. ASSUME NEW x PROVE x \in EntriesOf(r) <=> x = m \/ (x \in EntriesOf(q) /\ x.file # m.file)
    BY <1>1, <1>3, <2>2 DEF EntriesOf
  <2>5. EntriesOf(r) = {x \in EntriesOf(q) : x.file # m.file} \cup {m}
    BY <2>4
  <2> QED BY <2>2, <2>3, <2>5 DEF r
<1> QED BY <1>2, <1>3

\* The oldest write taken out of the queue.
LEMMA Drawing ==
  ASSUME NEW q \in Seq(Mutations), FilesAreUnique(q), q # <<>>
  PROVE  /\ Head(q) \in Mutations /\ Head(q) \in EntriesOf(q)
         /\ Tail(q) \in Seq(Mutations) /\ FilesAreUnique(Tail(q))
         /\ EntriesOf(Tail(q)) = {x \in EntriesOf(q) : x.file # Head(q).file}
<1>1. /\ Len(q) \in Nat \ {0} /\ DOMAIN q = 1..Len(q)
      /\ Head(q) = q[1] /\ Head(q) \in Mutations
      /\ Tail(q) \in Seq(Mutations) /\ DOMAIN Tail(q) = 1..(Len(q) - 1)
      /\ \A i \in 1..(Len(q) - 1) : Tail(q)[i] = q[i + 1]
  OBVIOUS
<1>2. Head(q) \in EntriesOf(q)
  BY <1>1 DEF EntriesOf
<1>3. FilesAreUnique(Tail(q))
  <2> SUFFICES ASSUME NEW i \in 1..(Len(q) - 1), NEW j \in 1..(Len(q) - 1),
                      q[i + 1].file = q[j + 1].file
               PROVE  i = j
    BY <1>1 DEF FilesAreUnique
  <2>1. i + 1 \in DOMAIN q /\ j + 1 \in DOMAIN q
    BY <1>1
  <2>2. i + 1 = j + 1
    BY <2>1 DEF FilesAreUnique
  <2> QED BY <1>1, <2>2
<1>4. ASSUME NEW x
      PROVE  x \in EntriesOf(Tail(q)) <=> x \in EntriesOf(q) /\ x.file # Head(q).file
  <2>1. ASSUME x \in EntriesOf(Tail(q)) PROVE x \in EntriesOf(q) /\ x.file # Head(q).file
    <3>1. PICK i \in 1..(Len(q) - 1) : x = q[i + 1]
      BY <1>1, <2>1 DEF EntriesOf
    <3>2. i + 1 \in DOMAIN q /\ i + 1 # 1 /\ 1 \in DOMAIN q
      BY <1>1
    <3> QED BY <1>1, <3>1, <3>2 DEF FilesAreUnique, EntriesOf
  <2>2. ASSUME x \in EntriesOf(q), x.file # Head(q).file PROVE x \in EntriesOf(Tail(q))
    <3>1. PICK i \in 1..Len(q) : x = q[i]
      BY <1>1, <2>2 DEF EntriesOf
    <3>2. i # 1
      BY <1>1, <2>2, <3>1
    <3>3. i - 1 \in 1..(Len(q) - 1) /\ Tail(q)[i - 1] = q[i]
      BY <1>1, <3>2
    <3> QED BY <1>1, <3>1, <3>3 DEF EntriesOf
  <2> QED BY <2>1, <2>2
<1>5. EntriesOf(Tail(q)) = {x \in EntriesOf(q) : x.file # Head(q).file}
  BY <1>4
<1> QED BY <1>1, <1>2, <1>3, <1>5
\* What is unsaved of a file.
LEMMA UnsavedIsQueuedOrWritten ==
  \A f : Unsaved(f) <=> \/ \E m \in EntriesOf(pending) : m.file = f
                        \/ \E w \in writing : w.file = f
BY PendingIsEntry DEF Unsaved, InFlight

LEMMA ListsKeepMarks ==
  ASSUME ViewedIInv,
         BeginList \/ CoreLists \/ ListArrives \/ ListFails \/ UNCHANGED viewedVars
  PROVE  ViewedIInv'
<1> USE ViewedBounds
<1>1. versions' = versions /\ pending' = pending /\ writing' = writing /\ stored' = stored
  BY DEF BeginList, CoreLists, ListArrives, ListFails, viewedVars
<1>2. /\ \A f : IsPending(f)' <=> IsPending(f)
      /\ \A f : Unsaved(f)' <=> Unsaved(f)
      /\ EntriesOf(pending') = EntriesOf(pending)
  BY <1>1 DEF IsPending, Unsaved, InFlight, EntriesOf
<1>3. QueueIsOfNewest' /\ WriteIsOfNewest'
  BY <1>1, <1>2 DEF ViewedIInv, QueueIsOfNewest, WriteIsOfNewest
<1>4. /\ ViewedTypeOK /\ ListsAreFresh /\ OneAtATime
      /\ display \in [ViewedKeys -> BOOLEAN] /\ stored \in [ViewedKeys -> BOOLEAN]
      /\ confirmed \in [ViewedKeys -> {"unset", "yes", "no"}] /\ listing \subseteq Listings
      /\ unsure \in [ViewedKeys -> BOOLEAN] /\ astray \in [ViewedKeys -> BOOLEAN]
  BY DEF ViewedIInv, ViewedTypeOK
<1>5. NothingViewed \in [ViewedKeys -> BOOLEAN]
  BY DEF NothingViewed
<1>6. CASE BeginList
  <2>1. /\ lists' \in 0..MaxLists /\ display' = NothingViewed /\ listing' \subseteq Listings
        /\ listing' = {[read |-> FALSE, viewed |-> NothingViewed]}
        /\ unsure' = [f \in ViewedKeys |-> Unsaved(f)] /\ ReplaceConfirmed(NothingViewed)
        /\ astray' = [f \in ViewedKeys |-> FALSE]
    BY <1>4, <1>5, <1>6 DEF BeginList, ViewedTypeOK, Listings
  <2>2. confirmed' \in [ViewedKeys -> {"unset", "yes", "no"}]
    BY <1>4, <2>1 DEF ReplaceConfirmed
  <2>3. unsure' \in [ViewedKeys -> BOOLEAN]
    BY <2>1 DEF Unsaved, IsPending, InFlight
  <2>4. ViewedTypeOK'
    BY <1>1, <1>4, <1>5, <2>1, <2>2, <2>3 DEF ViewedTypeOK
  <2>5. OneAtATime'
    BY <1>1, <1>4, <2>1 DEF OneAtATime
  <2>6. ListsAreFresh'
    BY <1>2, <2>1 DEF ListsAreFresh
  <2>7. ConfirmedIsStored' /\ ClicksAreShown'
    BY <2>1 DEF ConfirmedIsStored, ClicksAreShown
  <2> QED BY <1>3, <2>4, <2>5, <2>6, <2>7 DEF ViewedIInv
<1>7. CASE CoreLists
  <2>1. /\ listing # {} /\ listing' = {[read |-> TRUE, viewed |-> stored]}
        /\ display' = display /\ confirmed' = confirmed /\ lists' = lists /\ unsure' = unsure
        /\ astray' = astray
    BY <1>7 DEF CoreLists
  <2>2. ViewedTypeOK' /\ OneAtATime'
    BY <1>1, <1>4, <2>1 DEF ViewedTypeOK, OneAtATime, Listings
  <2>3. ListsAreFresh'
    BY <1>1, <1>2, <1>4, <2>1 DEF ListsAreFresh
  <2>4. ConfirmedIsStored' /\ ClicksAreShown'
    BY <2>1 DEF ConfirmedIsStored, ClicksAreShown
  <2> QED BY <1>3, <2>2, <2>3, <2>4 DEF ViewedIInv
<1>8. CASE ListArrives
  <2>1. PICK l \in listing : l.read /\ display' = l.viewed /\ ReplaceConfirmed(l.viewed)
    BY <1>8 DEF ListArrives
  <2>2. listing' = {} /\ lists' = lists /\ unsure' = unsure /\ astray' = astray
    BY <1>8 DEF ListArrives
  <2>3. l.viewed \in [ViewedKeys -> BOOLEAN]
    BY <1>4, <2>1 DEF Listings
  <2>4. confirmed' \in [ViewedKeys -> {"unset", "yes", "no"}]
    BY <1>4, <2>1 DEF ReplaceConfirmed
  <2>5. ViewedTypeOK' /\ OneAtATime' /\ ListsAreFresh'
    BY <1>1, <1>4, <2>1, <2>2, <2>3, <2>4 DEF ViewedTypeOK, OneAtATime, ListsAreFresh
  <2>6. \A f \in ViewedKeys : ~unsure[f] => ~Unsaved(f) /\ l.viewed[f] = stored[f]
    BY <1>4, <2>1 DEF ListsAreFresh
  <2>7. ConfirmedIsStored'
    <3> SUFFICES ASSUME NEW f \in ViewedKeys, ~unsure[f]
                 PROVE  confirmed'[f] = IF stored[f] THEN "yes" ELSE "no"
      BY <1>1, <2>2 DEF ConfirmedIsStored
    <3>1. ~IsPending(f) /\ l.viewed[f] = stored[f]
      BY <2>6 DEF Unsaved
    <3> QED BY <2>1, <3>1 DEF ReplaceConfirmed
  <2>8. ClicksAreShown'
    <3> SUFFICES ASSUME NEW f \in ViewedKeys, ~unsure[f]
                 PROVE  /\ display'[f] = stored[f]
                        /\ ~ \E m \in EntriesOf(pending) : m.file = f
                        /\ ~ \E w \in writing : w.file = f
      BY <1>1, <1>2, <2>2 DEF ClicksAreShown
    <3> QED BY <2>1, <2>6, UnsavedIsQueuedOrWritten
  <2> QED BY <1>3, <2>5, <2>7, <2>8 DEF ViewedIInv
<1>9. CASE ListFails
  <2>1. /\ listing' = {} /\ unsure' = [f \in ViewedKeys |-> TRUE]
        /\ display' = display /\ confirmed' = confirmed /\ lists' = lists /\ astray' = astray
    BY <1>9 DEF ListFails
  <2>2. ViewedTypeOK' /\ OneAtATime'
    BY <1>1, <1>4, <2>1 DEF ViewedTypeOK, OneAtATime
  <2>3. ListsAreFresh' /\ ConfirmedIsStored' /\ ClicksAreShown'
    BY <2>1 DEF ListsAreFresh, ConfirmedIsStored, ClicksAreShown
  <2> QED BY <1>3, <2>2, <2>3 DEF ViewedIInv
<1>10. CASE UNCHANGED viewedVars
  <2>1. /\ listing' = listing /\ unsure' = unsure /\ display' = display
        /\ confirmed' = confirmed /\ lists' = lists /\ astray' = astray
    BY <1>10 DEF viewedVars
  <2>2. ViewedTypeOK' /\ OneAtATime'
    BY <1>1, <1>4, <2>1 DEF ViewedTypeOK, OneAtATime
  <2>3. ListsAreFresh' /\ ConfirmedIsStored' /\ ClicksAreShown'
    BY <1>1, <1>2, <2>1 DEF ViewedIInv, ListsAreFresh, ConfirmedIsStored, ClicksAreShown
  <2> QED BY <1>3, <2>2, <2>3 DEF ViewedIInv
<1> QED BY <1>6, <1>7, <1>8, <1>9, <1>10

LEMMA SubmitKeepsMarks ==
  ASSUME ViewedIInv, NEW f \in ViewedKeys, NEW viewed \in BOOLEAN, Submit(f, viewed)
  PROVE  ViewedIInv'
<1> USE ViewedBounds
<1> DEFINE m == [file |-> f, previous |-> display[f], next |-> viewed,
                 version |-> versions[f] + 1]
<1>1. /\ versions' = [versions EXCEPT ![f] = versions[f] + 1] /\ versions[f] < MaxSubmits
      /\ pending' = Enqueue(pending, m) /\ display' = [display EXCEPT ![f] = viewed]
      /\ unsure' = [unsure EXCEPT ![f] = unsure[f] \/ listing # {}]
      /\ writing' = writing /\ stored' = stored /\ listing' = listing /\ lists' = lists
      /\ astray' = astray
  BY DEF Submit
<1>2. confirmed' = [confirmed EXCEPT ![f] =
                      IF confirmed[f] # "unset" THEN confirmed[f]
                      ELSE IF display[f] THEN "yes" ELSE "no"]
  BY DEF Submit
<1>3. /\ ViewedTypeOK /\ versions \in [ViewedKeys -> 0..MaxSubmits]
      /\ pending \in Seq(Mutations) /\ FilesAreUnique(pending) /\ OneAtATime
      /\ \A x \in EntriesOf(pending) : x.version = versions[x.file]
      /\ display \in [ViewedKeys -> BOOLEAN] /\ unsure \in [ViewedKeys -> BOOLEAN]
      /\ confirmed \in [ViewedKeys -> {"unset", "yes", "no"}] /\ writing \subseteq Mutations
      /\ astray \in [ViewedKeys -> BOOLEAN]
  BY DEF ViewedIInv, ViewedTypeOK, QueueIsOfNewest
<1>4. m \in Mutations /\ m.file = f /\ m.next = viewed /\ m.version = versions[f] + 1
  BY <1>1, <1>3 DEF Mutations
<1> HIDE DEF m
<1>5. /\ pending' \in Seq(Mutations) /\ FilesAreUnique(pending')
      /\ EntriesOf(pending') = {x \in EntriesOf(pending) : x.file # f} \cup {m}
  BY <1>1, <1>3, <1>4, Enqueueing
<1>6. /\ \A g : IsPending(g) <=> \E x \in EntriesOf(pending) : x.file = g
      /\ \A g : IsPending(g)' <=> \E x \in EntriesOf(pending') : x.file = g
  BY DEF IsPending, EntriesOf
<1>7. IsPending(f)' /\ Unsaved(f)' /\ \A g \in ViewedKeys \ {f} : IsPending(g)' <=> IsPending(g)
  BY <1>4, <1>5, <1>6 DEF Unsaved
<1>8. \A g \in ViewedKeys \ {f} : Unsaved(g)' <=> Unsaved(g)
  BY <1>1, <1>7 DEF Unsaved, InFlight
<1>9. \A g \in ViewedKeys \ {f} :
        /\ versions'[g] = versions[g] /\ display'[g] = display[g] /\ unsure'[g] = unsure[g]
        /\ confirmed'[g] = confirmed[g]
  BY <1>1, <1>2, <1>3
<1>10. /\ versions'[f] = versions[f] + 1 /\ display'[f] = viewed
       /\ (unsure'[f] <=> unsure[f] \/ listing # {})
       /\ (confirmed[f] # "unset" => confirmed'[f] = confirmed[f])
  BY <1>1, <1>2, <1>3
<1>11. \A x \in EntriesOf(pending) \cup writing : x.file \in ViewedKeys /\ x.version \in Nat
  <2>1. \A x \in EntriesOf(pending) : x \in Mutations
    <3>1. \A i \in DOMAIN pending : pending[i] \in Mutations
      BY <1>3
    <3> QED BY <3>1 DEF EntriesOf
  <2>2. \A x \in Mutations : x.file \in ViewedKeys /\ x.version \in Nat
    BY DEF Mutations
  <2> QED BY <1>3, <2>1, <2>2
<1>12. ViewedTypeOK'
  <2>1. versions' \in [ViewedKeys -> 0..MaxSubmits] /\ display' \in [ViewedKeys -> BOOLEAN]
    BY <1>1, <1>3
  <2>2. unsure' \in [ViewedKeys -> BOOLEAN]
    <3>1. (unsure[f] \/ listing # {}) \in BOOLEAN
      OBVIOUS
    <3> QED BY <1>1, <1>3, <3>1
  <2>3. confirmed' \in [ViewedKeys -> {"unset", "yes", "no"}]
    BY <1>2, <1>3
  <2> QED BY <1>1, <1>3, <1>5, <2>1, <2>2, <2>3 DEF ViewedTypeOK
<1>13. QueueIsOfNewest'
  BY <1>3, <1>4, <1>5, <1>9, <1>10, <1>11 DEF QueueIsOfNewest
<1>14. OneAtATime'
  BY <1>1, <1>3 DEF OneAtATime
<1>15. WriteIsOfNewest'
  <2> SUFFICES ASSUME NEW w \in writing
               PROVE  IF IsPending(w.file)' THEN w.version < versions'[w.file]
                                            ELSE w.version = versions'[w.file]
    BY <1>1 DEF WriteIsOfNewest
  <2>1. w.version <= versions[w.file] /\ versions[w.file] \in Nat /\ w.version \in Nat
        /\ w.file \in ViewedKeys
    <3>1. w.version < versions[w.file] \/ w.version = versions[w.file]
      BY DEF ViewedIInv, WriteIsOfNewest
    <3>2. w.file \in ViewedKeys /\ w.version \in Nat
      BY <1>11
    <3> QED BY <1>3, <3>1, <3>2
  <2>2. CASE w.file = f
    BY <1>7, <1>10, <2>1, <2>2
  <2>3. CASE w.file # f
    BY <1>7, <1>9, <2>1, <2>3 DEF ViewedIInv, WriteIsOfNewest
  <2> QED BY <2>2, <2>3
<1>16. ListsAreFresh'
  BY <1>1, <1>8, <1>9, <1>10 DEF ViewedIInv, ListsAreFresh
<1>17. ConfirmedIsStored'
  <2> SUFFICES ASSUME NEW g \in ViewedKeys, ~unsure'[g], ~astray[g], listing = {}
               PROVE  confirmed'[g] = IF stored[g] THEN "yes" ELSE "no"
    BY <1>1 DEF ConfirmedIsStored
  <2>1. ~unsure[g]
    BY <1>9, <1>10
  <2>2. confirmed[g] = IF stored[g] THEN "yes" ELSE "no"
    BY <2>1 DEF ViewedIInv, ConfirmedIsStored
  <2>3. confirmed'[g] = confirmed[g]
    BY <1>9, <1>10, <2>2
  <2> QED BY <2>2, <2>3
<1>18. ClicksAreShown'
  <2> SUFFICES ASSUME NEW g \in ViewedKeys, ~unsure'[g], listing = {}
               PROVE  /\ ~Unsaved(g)' /\ ~astray[g] => display'[g] = stored[g]
                      /\ \A x \in EntriesOf(pending') : x.file = g => display'[g] = x.next
                      /\ ~IsPending(g)' => \A w \in writing : w.file = g => display'[g] = w.next
    BY <1>1 DEF ClicksAreShown
  <2>1. CASE g = f
    BY <1>4, <1>5, <1>7, <1>10, <2>1
  <2>2. CASE g # f
    <3>1. ~unsure[g]
      BY <1>9, <2>2
    <3>2. /\ ~Unsaved(g) /\ ~astray[g] => display[g] = stored[g]
          /\ \A x \in EntriesOf(pending) : x.file = g => display[g] = x.next
          /\ ~IsPending(g) => \A w \in writing : w.file = g => display[g] = w.next
      BY <3>1 DEF ViewedIInv, ClicksAreShown
    <3>3. display'[g] = display[g] /\ \A x \in EntriesOf(pending') :
                                        x.file = g => x \in EntriesOf(pending)
      BY <1>4, <1>5, <1>9, <2>2
    <3> QED BY <1>7, <1>8, <2>2, <3>2, <3>3
  <2> QED BY <2>1, <2>2
<1> QED BY <1>12, <1>13, <1>14, <1>15, <1>16, <1>17, <1>18 DEF ViewedIInv
LEMMA BeginWriteKeepsMarks ==
  ASSUME ViewedIInv, BeginWrite
  PROVE  ViewedIInv'
<1>0. PICK h : h = Head(pending)
  OBVIOUS
<1>1. /\ writing = {} /\ pending # <<>> /\ writing' = {h} /\ pending' = Tail(pending)
      /\ display' = display /\ confirmed' = confirmed /\ versions' = versions
      /\ stored' = stored /\ listing' = listing /\ lists' = lists /\ unsure' = unsure
      /\ astray' = astray
  BY <1>0 DEF BeginWrite
<1>2. /\ ViewedTypeOK /\ OneAtATime /\ pending \in Seq(Mutations) /\ FilesAreUnique(pending)
      /\ \A x \in EntriesOf(pending) : x.version = versions[x.file]
  BY DEF ViewedIInv, ViewedTypeOK, QueueIsOfNewest
<1>3. /\ h \in Mutations /\ h \in EntriesOf(pending)
      /\ pending' \in Seq(Mutations) /\ FilesAreUnique(pending')
      /\ EntriesOf(pending') = {x \in EntriesOf(pending) : x.file # h.file}
  BY <1>0, <1>1, <1>2, Drawing
<1>4. /\ \A g : IsPending(g) <=> \E x \in EntriesOf(pending) : x.file = g
      /\ \A g : IsPending(g)' <=> \E x \in EntriesOf(pending') : x.file = g
  BY DEF IsPending, EntriesOf
<1>5. ~IsPending(h.file)' /\ \A g : IsPending(g)' <=> IsPending(g) /\ g # h.file
  BY <1>3, <1>4
<1>6. \A g : Unsaved(g)' <=> Unsaved(g)
  <2>1. \A g : Unsaved(g) <=> IsPending(g)
    BY <1>1 DEF Unsaved, InFlight
  <2>2. \A g : Unsaved(g)' <=> IsPending(g)' \/ g = h.file
    BY <1>1 DEF Unsaved, InFlight
  <2>3. IsPending(h.file)
    BY <1>3, <1>4
  <2> QED BY <1>5, <2>1, <2>2, <2>3
<1>7. ViewedTypeOK' /\ OneAtATime'
  BY <1>1, <1>2, <1>3 DEF ViewedTypeOK, OneAtATime
<1>8. QueueIsOfNewest'
  BY <1>1, <1>2, <1>3 DEF QueueIsOfNewest
<1>9. WriteIsOfNewest'
  BY <1>1, <1>2, <1>3, <1>5 DEF WriteIsOfNewest
<1>10. ListsAreFresh' /\ ConfirmedIsStored'
  BY <1>1, <1>6 DEF ViewedIInv, ListsAreFresh, ConfirmedIsStored
<1>11. ClicksAreShown'
  <2> SUFFICES ASSUME NEW g \in ViewedKeys, ~unsure[g], listing = {}
               PROVE  /\ ~Unsaved(g)' /\ ~astray[g] => display[g] = stored[g]
                      /\ \A x \in EntriesOf(pending') : x.file = g => display[g] = x.next
                      /\ h.file = g => display[g] = h.next
    BY <1>1 DEF ClicksAreShown
  <2>1. /\ ~Unsaved(g) /\ ~astray[g] => display[g] = stored[g]
        /\ \A x \in EntriesOf(pending) : x.file = g => display[g] = x.next
    BY DEF ViewedIInv, ClicksAreShown
  <2> QED BY <1>3, <1>6, <2>1
<1> QED BY <1>7, <1>8, <1>9, <1>10, <1>11 DEF ViewedIInv

\* A write that ends, as it was meant or not.
LEMMA WriteEndsKeepsMarks ==
  ASSUME ViewedIInv, WriteSucceeds \/ WriteFails, writing # {}
  PROVE  ViewedIInv'
<1>0. PICK w : w \in writing
  OBVIOUS
<1>1. /\ writing' = {} /\ pending' = pending /\ versions' = versions /\ listing' = listing
      /\ lists' = lists /\ unsure' = unsure
  BY DEF WriteSucceeds, WriteFails
<1>2. /\ ViewedTypeOK /\ w \in Mutations /\ w.file \in ViewedKeys /\ w.next \in BOOLEAN
      /\ w.previous \in BOOLEAN /\ \A v \in writing : v = w
      /\ display \in [ViewedKeys -> BOOLEAN] /\ stored \in [ViewedKeys -> BOOLEAN]
      /\ confirmed \in [ViewedKeys -> {"unset", "yes", "no"}]
      /\ unsure \in [ViewedKeys -> BOOLEAN] /\ astray \in [ViewedKeys -> BOOLEAN]
  BY <1>0 DEF ViewedIInv, ViewedTypeOK, OneAtATime, Mutations
<1>3. \A g : (IsPending(g)' <=> IsPending(g)) /\ (Unsaved(g)' <=> IsPending(g))
             /\ (Unsaved(g) <=> IsPending(g) \/ g = w.file)
  BY <1>0, <1>1, <1>2 DEF Unsaved, IsPending, InFlight
<1>4. EntriesOf(pending') = EntriesOf(pending)
  BY <1>1
<1>5. QueueIsOfNewest' /\ WriteIsOfNewest' /\ OneAtATime'
  BY <1>1, <1>4 DEF ViewedIInv, QueueIsOfNewest, WriteIsOfNewest, OneAtATime
<1>6. \A g \in ViewedKeys : ~unsure[g] /\ listing # {} => g # w.file
  BY <1>3 DEF ViewedIInv, ListsAreFresh
<1>7. CASE WriteSucceeds
  <2>1. /\ stored' = [stored EXCEPT ![w.file] = w.next] /\ display' = display
        /\ confirmed' = [confirmed EXCEPT ![w.file] = IF w.next THEN "yes" ELSE "no"]
        /\ astray' = [astray EXCEPT ![w.file] = FALSE]
    BY <1>0, <1>2, <1>7 DEF WriteSucceeds
  <2>2. ViewedTypeOK'
    BY <1>1, <1>2, <2>1 DEF ViewedTypeOK
  <2>3. ListsAreFresh'
    <3>1. \A g \in ViewedKeys : g # w.file => stored'[g] = stored[g]
      BY <1>2, <2>1
    <3> QED BY <1>1, <1>3, <1>6, <3>1 DEF ViewedIInv, ListsAreFresh
  <2>4. ConfirmedIsStored'
    <3> SUFFICES ASSUME NEW g \in ViewedKeys, ~unsure[g], ~astray'[g], listing = {}
                 PROVE  confirmed'[g] = IF stored'[g] THEN "yes" ELSE "no"
      BY <1>1 DEF ConfirmedIsStored
    <3>1. CASE g = w.file
      BY <1>2, <2>1, <3>1
    <3>2. CASE g # w.file
      BY <1>2, <2>1, <3>2 DEF ViewedIInv, ConfirmedIsStored
    <3> QED BY <3>1, <3>2
  <2>5. ClicksAreShown'
    <3> SUFFICES ASSUME NEW g \in ViewedKeys, ~unsure[g], listing = {}
                 PROVE  /\ ~IsPending(g) /\ ~astray'[g] => display[g] = stored'[g]
                        /\ \A x \in EntriesOf(pending) : x.file = g => display[g] = x.next
      BY <1>1, <1>3, <1>4, <2>1 DEF ClicksAreShown
    <3>1. /\ ~Unsaved(g) /\ ~astray[g] => display[g] = stored[g]
          /\ \A x \in EntriesOf(pending) : x.file = g => display[g] = x.next
          /\ ~IsPending(g) /\ g = w.file => display[g] = w.next
      BY <1>0 DEF ViewedIInv, ClicksAreShown
    <3>2. CASE g = w.file
      BY <1>2, <2>1, <3>1, <3>2
    <3>3. CASE g # w.file
      BY <1>2, <1>3, <2>1, <3>1, <3>3
    <3> QED BY <3>2, <3>3
  <2> QED BY <1>5, <2>2, <2>3, <2>4, <2>5 DEF ViewedIInv
<1>8. CASE WriteFails
  <2>1. Rejected(w) /\ confirmed' = confirmed
    BY <1>0, <1>2, <1>8 DEF WriteFails
  <2>2. display' = IF versions[w.file] = w.version
                   THEN [display EXCEPT ![w.file] = Confirmed(w.file, w.previous)] ELSE display
    BY <1>0, <1>2, <1>8 DEF WriteFails
  <2>3. Confirmed(w.file, w.previous) \in BOOLEAN
    BY <1>2 DEF Confirmed
  <2>4. display' \in [ViewedKeys -> BOOLEAN]
    BY <1>2, <2>2, <2>3
  <2>5. /\ stored' \in [ViewedKeys -> BOOLEAN] /\ astray' \in [ViewedKeys -> BOOLEAN]
        /\ \A g \in ViewedKeys : /\ g # w.file => stored'[g] = stored[g] /\ astray'[g] = astray[g]
                                 /\ ~astray'[g] => stored'[g] = stored[g] /\ ~astray[g]
    BY <1>2, <2>1 DEF Rejected
  <2>6. ViewedTypeOK'
    BY <1>1, <1>2, <2>1, <2>4, <2>5 DEF ViewedTypeOK
  <2>7. ListsAreFresh'
    BY <1>1, <1>3, <1>6, <2>5 DEF ViewedIInv, ListsAreFresh
  <2>8. ConfirmedIsStored'
    BY <1>1, <2>1, <2>5 DEF ViewedIInv, ConfirmedIsStored
  <2>9. ClicksAreShown'
    <3> SUFFICES ASSUME NEW g \in ViewedKeys, ~unsure[g], listing = {}
                 PROVE  /\ ~IsPending(g) /\ ~astray'[g] => display'[g] = stored'[g]
                        /\ \A x \in EntriesOf(pending) : x.file = g => display'[g] = x.next
      BY <1>1, <1>3, <1>4 DEF ClicksAreShown
    <3>1. /\ ~Unsaved(g) /\ ~astray[g] => display[g] = stored[g]
          /\ \A x \in EntriesOf(pending) : x.file = g => display[g] = x.next
          /\ ~astray[g] => confirmed[g] = IF stored[g] THEN "yes" ELSE "no"
      BY DEF ViewedIInv, ClicksAreShown, ConfirmedIsStored
    <3>2. CASE g # w.file
      <4>1. display'[g] = display[g]
        BY <1>2, <2>2, <3>2
      <4> QED BY <1>3, <2>5, <3>1, <3>2, <4>1
    <3>3. CASE g = w.file /\ IsPending(g)
      <4>1. versions[w.file] # w.version
        <5>1. w.version < versions[w.file] /\ w.version \in Nat /\ versions[w.file] \in Nat
          BY <1>0, <1>2, <3>3, ViewedBounds DEF ViewedIInv, WriteIsOfNewest, ViewedTypeOK, Mutations
        <5> QED BY <5>1
      <4>2. display' = display
        BY <2>2, <4>1
      <4> QED BY <3>1, <3>3, <4>2
    <3>4. CASE g = w.file /\ ~IsPending(g)
      <4>1. versions[w.file] = w.version
        BY <1>0, <3>4 DEF ViewedIInv, WriteIsOfNewest
      <4>2. display'[g] = Confirmed(g, w.previous)
        BY <1>2, <2>2, <3>4, <4>1
      <4>3. ASSUME ~astray'[g] PROVE Confirmed(g, w.previous) = stored'[g]
        <5>1. ~astray[g] /\ stored'[g] = stored[g]
          BY <2>5, <4>3
        <5> QED BY <1>2, <3>1, <5>1 DEF Confirmed
      <4> QED BY <3>4, <4>2, <4>3, PendingIsEntry
    <3> QED BY <3>2, <3>3, <3>4
  <2> QED BY <1>5, <2>6, <2>7, <2>8, <2>9 DEF ViewedIInv
<1> QED BY <1>7, <1>8

LEMMA MarksBegin == ViewedInit => ViewedIInv
<1> SUFFICES ASSUME ViewedInit PROVE ViewedIInv
  OBVIOUS
<1>1. ViewedTypeOK
  BY ViewedBounds DEF ViewedInit, ViewedTypeOK, NothingViewed
<1>2. QueueIsOfNewest
  <2>1. DOMAIN pending = {}
    BY DEF ViewedInit
  <2> QED BY <2>1 DEF QueueIsOfNewest, FilesAreUnique, EntriesOf
<1>3. OneAtATime /\ WriteIsOfNewest /\ ListsAreFresh /\ ConfirmedIsStored /\ ClicksAreShown
  BY DEF ViewedInit, OneAtATime, WriteIsOfNewest, ListsAreFresh, ConfirmedIsStored,
         ClicksAreShown
<1> QED BY <1>1, <1>2, <1>3 DEF ViewedIInv

THEOREM MarksAreSafe == ViewedSpec => []ViewedIInv
<1>1. ViewedIInv /\ [ViewedNext]_viewedVars => ViewedIInv'
  <2> SUFFICES ASSUME ViewedIInv, [ViewedNext]_viewedVars PROVE ViewedIInv'
    OBVIOUS
  <2>1. WriteSucceeds \/ WriteFails => writing # {}
    BY DEF WriteSucceeds, WriteFails
  <2> QED BY <2>1, ListsKeepMarks, SubmitKeepsMarks, BeginWriteKeepsMarks,
             WriteEndsKeepsMarks, Zenon DEF ViewedNext
<1> QED BY <1>1, MarksBegin, PTL DEF ViewedSpec

\* The newest click on a file is shown through the failure of older writes, and once its
\* writes have ended what is shown is what Core stores; for every number of files, clicks
\* and lists, of a file whose list neither failed nor overlapped with its writes, and as to
\* what Core stores, not after a rejected write that Core did store.
THEOREM NewestClickIsAlwaysShown == ViewedSpec => []NewestClickIsShown
<1>1. ViewedIInv => NewestClickIsShown
  <2> SUFFICES ASSUME ViewedIInv, NEW f \in ViewedKeys, ~unsure[f], listing = {}
               PROVE  /\ ~Unsaved(f) /\ ~astray[f] => display[f] = stored[f]
                      /\ \A i \in DOMAIN pending : pending[i].file = f => display[f] = pending[i].next
                      /\ ~IsPending(f) => \A w \in writing : w.file = f => display[f] = w.next
    BY DEF NewestClickIsShown
  <2>1. /\ ~Unsaved(f) /\ ~astray[f] => display[f] = stored[f]
        /\ \A m \in EntriesOf(pending) : m.file = f => display[f] = m.next
        /\ ~IsPending(f) => \A w \in writing : w.file = f => display[f] = w.next
    BY DEF ViewedIInv, ClicksAreShown
  <2> QED BY <2>1 DEF EntriesOf
<1> QED BY <1>1, MarksAreSafe, PTL
=============================================================================
