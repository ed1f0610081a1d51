------------------------------ MODULE PlanStore ------------------------------
(***************************************************************************)
(* internal/store/sqlstore: the plans and plan_steps tables.               *)
(*                                                                         *)
(* A computed plan is its content hash (id) and the rating of each of its  *)
(* steps; a row keeps the ratings. The pair (stored_at, seq) only orders   *)
(* the rows, and seq alone orders them the same way: stored_at is compared *)
(* as text, which orders instants of different seconds as time does,       *)
(* cycles are RESYNC_PERIOD (30 s) apart, and the touch, which moves       *)
(* stored_at and not seq, only ever touches the newest row.                *)
(***************************************************************************)
EXTENDS Naturals, Sequences, FiniteSets, FiniteSetsExt, Functions

CONSTANTS
    PlanIds,
    StepsOf,        \* number of steps of each plan: the hash covers the steps
    Ratings,
    Retain          \* plans kept by Prune

ASSUME RetainAssumption == Retain \in Nat \ {0}
ASSUME StepsAssumption == StepsOf \in [PlanIds -> Nat]

VARIABLES
    plans,          \* id -> ratings of its steps, for the ids stored
    seq,            \* id -> its place in time, for the same ids
    runPlans        \* runs.plan_id

storeVars == <<plans, seq, runPlans>>

StoreInit == plans = <<>> /\ seq = <<>> /\ runPlans = {}

-----------------------------------------------------------------------------
(* Latest, ByID and List read rows, newest first.                              *)

Newer(id) == {other \in DOMAIN plans : seq[other] > seq[id]}
IsLatest(id) == id \in DOMAIN plans /\ Newer(id) = {}
LatestId == CHOOSE id \in DOMAIN plans : IsLatest(id)
Latest == plans[LatestId]

-----------------------------------------------------------------------------
(* Save.                                                                    *)

(* The touch: the incoming plan is the latest one, and keeps its place. The
   ratings follow one by one. *)
Touch(c) == IsLatest(c.id) /\ UNCHANGED storeVars

(* Seeded fault: only the wording is refreshed, the rating stays. *)
RefreshStepWording(c, i) == UNCHANGED storeVars

(* refreshStepText, one UPDATE per step. *)
RefreshStepText(c, i) ==
    /\ plans' = [plans EXCEPT ![c.id][i] = c.ratings[i]]
    /\ UNCHANGED <<seq, runPlans>>

(* Seeded fault: the new row shares the place of the newest one. *)
NextSeqShared == Max({0} \cup {seq[id] : id \in DOMAIN plans})

NextSeq == Max({0} \cup {seq[id] : id \in DOMAIN plans}) + 1

(* The transaction: insert or replace the row and all its steps. The row
   becomes the newest, wherever it was. *)
Upsert(c) ==
    /\ ~IsLatest(c.id)
    /\ plans' = [id \in DOMAIN plans \cup {c.id} |-> IF id = c.id THEN c.ratings ELSE plans[id]]
    /\ seq' = [id \in DOMAIN plans \cup {c.id} |-> IF id = c.id THEN NextSeq ELSE seq[id]]
    /\ UNCHANGED runPlans

(* Seeded fault: history is pruned by age alone. *)
PrunableByAge == {id \in DOMAIN plans : Cardinality(Newer(id)) >= Retain}

(* Prune: neither among the newest nor named by a run. *)
Prunable == {id \in DOMAIN plans : Cardinality(Newer(id)) >= Retain /\ id \notin runPlans}

Prune ==
    /\ plans' = Restrict(plans, DOMAIN plans \ Prunable)
    /\ seq' = Restrict(seq, DOMAIN plans \ Prunable)
    /\ UNCHANGED runPlans

(* Enqueue: the run row names its plan. *)
NameInRun(id) == runPlans' = runPlans \cup {id} /\ UNCHANGED <<plans, seq>>
=============================================================================
