--------------------------- MODULE WalkthroughLedger ---------------------------
(***************************************************************************)
(* What durable walkthrough operations promise their callers, without      *)
(* workers, versions, clocks or processes: an operation opens once, is     *)
(* settled once or replaced by a newer operation of its exact generation,  *)
(* and never opens again; at most one operation of a generation is open.   *)
(***************************************************************************)
CONSTANTS Operations, Generations

VARIABLES
  phase,       \* of each operation
  generation   \* the exact generation an operation was opened for

ledger == <<phase, generation>>

Phases == {"none", "open", "settled", "replaced"}

LedgerTypeOK ==
  /\ phase \in [Operations -> Phases]
  /\ generation \in [Operations -> Generations]

\* The ledger a process finds: at most one operation, left by an older version.
LedgerInit ==
  /\ LedgerTypeOK
  /\ \A o, p \in Operations : phase[o] # "none" /\ phase[p] # "none" => o = p
  /\ \A o \in Operations : phase[o] # "replaced"

OpenIn(g) == {o \in Operations : phase[o] = "open" /\ generation[o] = g}

\* A first operation, when none of its generation is open.
Open(o, g) ==
  /\ phase[o] = "none"
  /\ OpenIn(g) = {}
  /\ phase' = [phase EXCEPT ![o] = "open"]
  /\ generation' = [generation EXCEPT ![o] = g]

\* A newer operation replaces one of its generation, open or not, in one step.
Replace(o, prior, g) ==
  /\ phase[o] = "none" /\ phase[prior] # "none"
  /\ generation[prior] = g
  /\ OpenIn(g) \subseteq {prior}
  /\ phase' = [phase EXCEPT ![prior] = "replaced", ![o] = "open"]
  /\ generation' = [generation EXCEPT ![o] = g]

\* Open operations settle, one at a time by their worker or together at a startup.
Settle(settling) ==
  /\ settling # {}
  /\ \A o \in settling : phase[o] = "open"
  /\ phase' = [o \in Operations |-> IF o \in settling THEN "settled" ELSE phase[o]]
  /\ UNCHANGED generation

LedgerNext ==
  \/ \E o \in Operations, g \in Generations :
       Open(o, g) \/ \E prior \in Operations : Replace(o, prior, g)
  \/ \E settling \in SUBSET Operations : Settle(settling)

LedgerSpec == LedgerInit /\ [][LedgerNext]_ledger
=============================================================================
