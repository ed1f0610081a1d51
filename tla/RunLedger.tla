------------------------------ MODULE RunLedger ------------------------------
(***************************************************************************)
(* What the runs table promises the rest of the system, with no clock, no  *)
(* columns and no SQL: an at-most-once work queue. A run is queued, taken  *)
(* by exactly one worker, and then either ends or is abandoned; nothing    *)
(* ever leaves "ended" or "abandoned".                                     *)
(***************************************************************************)
CONSTANTS RunIds, Workers

VARIABLES
    phase,     \* where each run is in its life
    holders    \* the workers performing it

ledgerVars == <<phase, holders>>

Phases == {"absent", "queued", "held", "abandoned", "ended"}

Init ==
    /\ phase = [r \in RunIds |-> "absent"]
    /\ holders = [r \in RunIds |-> {}]

Queue(r) ==
    /\ phase[r] = "absent"
    /\ phase' = [phase EXCEPT ![r] = "queued"]
    /\ UNCHANGED holders

Take(r, w) ==
    /\ phase[r] = "queued"
    /\ \A q \in RunIds : w \notin holders[q]
    /\ phase' = [phase EXCEPT ![r] = "held"]
    /\ holders' = [holders EXCEPT ![r] = {w}]

(* The only holder lets go, with the outcome recorded or without. *)
LetGo(r) ==
    /\ phase[r] = "held"
    /\ \E p \in {"ended", "abandoned"} : phase' = [phase EXCEPT ![r] = p]
    /\ holders' = [holders EXCEPT ![r] = {}]

Next ==
    \E r \in RunIds :
        \/ Queue(r)
        \/ \E w \in Workers : Take(r, w)
        \/ LetGo(r)

Spec == Init /\ [][Next]_ledgerVars
=============================================================================
