---------------------------- MODULE ViewedFiles ----------------------------
(***************************************************************************)
(* The renderer's viewed-file coordinator: a click is shown at once, its   *)
(* write is queued (one per file, the newest replacing a queued one), the  *)
(* queue is written one at a time in insertion order, and a failed write   *)
(* is undone on screen only when it is the newest of its file.             *)
(*                                                                         *)
(* Around it is the hook that shows the files of one review (another       *)
(* review is another mount): mounting it, or a new inventory, clears what  *)
(* is shown, and a list read from Core replaces it when its answer         *)
(* arrives.  The expansion flag follows the viewed flag and patch hashes   *)
(* never change here; both are left out.                                   *)
(***************************************************************************)
EXTENDS Naturals, Sequences, SequencesExt

CONSTANTS ViewedKeys,     \* review keys of the files
          MaxSubmits,     \* bound: clicks per file
          MaxLists        \* bound: mounts and review changes

ASSUME ViewedBounds == MaxSubmits \in Nat /\ MaxLists \in Nat

VARIABLES display,        \* file -> viewedRef: is it shown as viewed
          confirmed,      \* file -> confirmed, or "unset"
          versions,       \* file -> newest version
          pending,        \* the queue: insertion-ordered map without repeated files
          writing,        \* the writes awaited by the running drain: none or one
          stored,         \* file -> what Core has stored
          listing,        \* the answers on their way: none or one, as [read, viewed]
          lists,          \* lists begun so far
          unsure,         \* file -> a list raced with its writes or failed (history)
          astray          \* file -> a rejected write of it was stored, and since then none
                          \* has succeeded and no list has begun (history)

viewedVars == <<display, confirmed, versions, pending, writing, stored, listing,
                lists, unsure, astray>>

Mutations == [file : ViewedKeys, previous : BOOLEAN, next : BOOLEAN, version : 1..MaxSubmits]
Listings == [read : BOOLEAN, viewed : [ViewedKeys -> BOOLEAN]]

IsPending(f) == \E i \in DOMAIN pending : pending[i].file = f
InFlight(f) == \E w \in writing : w.file = f
Unsaved(f) == IsPending(f) \/ InFlight(f)

NothingViewed == [f \in ViewedKeys |-> FALSE]

(* Map.set keeps the place of a key that is there already.                 *)
Enqueue(queue, mutation) ==
    IF \E i \in DOMAIN queue : queue[i].file = mutation.file
      THEN [i \in DOMAIN queue |-> IF queue[i].file = mutation.file THEN mutation ELSE queue[i]]
      ELSE Append(queue, mutation)

(* replaceConfirmed, for every file of the inventory.                      *)
ReplaceConfirmed(viewed) ==
    confirmed' = [f \in ViewedKeys |->
                    IF IsPending(f) THEN confirmed[f] ELSE IF viewed[f] THEN "yes" ELSE "no"]

Confirmed(f, fallback) ==
    IF confirmed[f] = "unset" THEN fallback ELSE confirmed[f] = "yes"

ViewedInit ==
    /\ display = NothingViewed
    /\ confirmed = [f \in ViewedKeys |-> "unset"]
    /\ versions = [f \in ViewedKeys |-> 0]
    /\ pending = <<>> /\ writing = {}
    /\ stored \in [ViewedKeys -> BOOLEAN]
    /\ listing = {} /\ lists = 0
    /\ unsure = [f \in ViewedKeys |-> TRUE]
    /\ astray = [f \in ViewedKeys |-> FALSE]

-----------------------------------------------------------------------------
(* The effect runs on mount and when the review changes: an older answer   *)
(* is cancelled, nothing is shown as viewed, and the list is asked for.    *)
BeginList ==
    /\ lists < MaxLists
    /\ lists' = lists + 1
    /\ display' = NothingViewed
    /\ ReplaceConfirmed(NothingViewed)
    /\ listing' = {[read |-> FALSE, viewed |-> NothingViewed]}
    /\ unsure' = [f \in ViewedKeys |-> Unsaved(f)]
    /\ astray' = [f \in ViewedKeys |-> FALSE]
    /\ UNCHANGED <<versions, pending, writing, stored>>

(* Core reads the stored rows for the list.                                *)
CoreLists ==
    /\ \E l \in listing : ~l.read /\ listing' = {[read |-> TRUE, viewed |-> stored]}
    /\ UNCHANGED <<display, confirmed, versions, pending, writing, stored, lists,
                   unsure, astray>>

ListArrives ==
    /\ \E l \in listing : l.read /\ display' = l.viewed /\ ReplaceConfirmed(l.viewed)
    /\ listing' = {}
    /\ UNCHANGED <<versions, pending, writing, stored, lists, unsure, astray>>

ListFails ==
    /\ listing # {}
    /\ listing' = {}
    /\ unsure' = [f \in ViewedKeys |-> TRUE]
    /\ UNCHANGED <<display, confirmed, versions, pending, writing, stored, lists, astray>>

-----------------------------------------------------------------------------
(* setFileViewed and submit: shown at once and queued.  Of the two flags,  *)
(* "scheduled" and "draining", one is set whenever the queue is not empty, *)
(* so the queue alone says that a drain will take the next entry.          *)
Submit(f, viewed) ==
    /\ lists > 0
    /\ versions[f] < MaxSubmits
    /\ LET version == versions[f] + 1
       IN /\ versions' = [versions EXCEPT ![f] = version]
          /\ pending' = Enqueue(pending, [file |-> f, previous |-> display[f], next |-> viewed,
                                          version |-> version])
    /\ confirmed' = [confirmed EXCEPT ![f] =
                       IF @ # "unset" THEN @ ELSE IF display[f] THEN "yes" ELSE "no"]
    /\ display' = [display EXCEPT ![f] = viewed]
    /\ unsure' = [unsure EXCEPT ![f] = @ \/ listing # {}]
    /\ UNCHANGED <<writing, stored, listing, lists, astray>>

(* drain takes the oldest entry out of the map and awaits its write.       *)
BeginWrite ==
    /\ writing = {} /\ pending # <<>>
    /\ writing' = {Head(pending)}
    /\ pending' = Tail(pending)
    /\ UNCHANGED <<display, confirmed, versions, stored, listing, lists, unsure, astray>>

WriteSucceeds ==
    /\ \E w \in writing :
         /\ stored' = [stored EXCEPT ![w.file] = w.next]
         /\ confirmed' = [confirmed EXCEPT ![w.file] = IF w.next THEN "yes" ELSE "no"]
         /\ astray' = [astray EXCEPT ![w.file] = FALSE]
    /\ writing' = {}
    /\ UNCHANGED <<display, versions, pending, listing, lists, unsure>>

(* Core refuses a write and stores nothing, or the call is lost, before or *)
(* after Core has stored it; the renderer cannot tell which.               *)
Rejected(w) ==
    \/ UNCHANGED <<stored, astray>>
    \/ /\ stored' = [stored EXCEPT ![w.file] = w.next]
       /\ astray' = [astray EXCEPT ![w.file] = TRUE]

(* Mutant: the display is rolled back although a newer click is shown.     *)
Wrong_WriteFails ==
    /\ \E w \in writing :
         /\ Rejected(w)
         /\ display' = [display EXCEPT ![w.file] = Confirmed(w.file, w.previous)]
    /\ writing' = {}
    /\ UNCHANGED <<confirmed, versions, pending, listing, lists, unsure>>

(* Only the display is rolled back, and only from the newest click.        *)
WriteFails ==
    /\ \E w \in writing :
         /\ Rejected(w)
         /\ display' = IF versions[w.file] = w.version
                       THEN [display EXCEPT ![w.file] = Confirmed(w.file, w.previous)]
                       ELSE display
    /\ writing' = {}
    /\ UNCHANGED <<confirmed, versions, pending, listing, lists, unsure>>

ViewedNext ==
    \/ BeginList \/ CoreLists \/ ListArrives \/ ListFails
    \/ \E f \in ViewedKeys, viewed \in BOOLEAN : Submit(f, viewed)
    \/ BeginWrite \/ WriteSucceeds \/ WriteFails

ViewedSpec == ViewedInit /\ [][ViewedNext]_viewedVars

-----------------------------------------------------------------------------
ViewedTypeOK ==
    /\ display \in [ViewedKeys -> BOOLEAN]
    /\ confirmed \in [ViewedKeys -> {"unset", "yes", "no"}]
    /\ versions \in [ViewedKeys -> 0..MaxSubmits]
    /\ pending \in Seq(Mutations)
    /\ writing \subseteq Mutations
    /\ stored \in [ViewedKeys -> BOOLEAN]
    /\ listing \subseteq Listings
    /\ lists \in 0..MaxLists
    /\ unsure \in [ViewedKeys -> BOOLEAN]
    /\ astray \in [ViewedKeys -> BOOLEAN]

(* The newest click on a file is what is shown for it, through the failure *)
(* of any older write; once its writes have ended, what is shown is what   *)
(* Core stores, whichever of them failed.  Two cases are excepted.  A list *)
(* that failed or overlapped with the file's writes: its answer is applied *)
(* unconditionally and shows the older value when they overlap.  And, for  *)
(* what Core stores, a write that was rejected after Core had stored it:   *)
(* the display alone is rolled back, and differs from what is stored until *)
(* a later write of the file succeeds or the list is read again.           *)
NewestClickIsShown ==
    \A f \in ViewedKeys : ~unsure[f] /\ listing = {} =>
       /\ ~Unsaved(f) /\ ~astray[f] => display[f] = stored[f]
       /\ \A i \in DOMAIN pending : pending[i].file = f => display[f] = pending[i].next
       /\ ~IsPending(f) => \A w \in writing : w.file = f => display[f] = w.next
=============================================================================
