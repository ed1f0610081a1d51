-------------------------------- MODULE Impact --------------------------------
(***************************************************************************)
(* internal/impact: the rating of a plan step and the reasons it rests on. *)
(* A move is [pod, from, to]; the wording of rationale and details is left *)
(* out, so a reason is its kind and its subject.                           *)
(***************************************************************************)
EXTENDS Analyzer, Sequences

CONSTANTS YellowPodsMoved, RedPodsMoved, TightPDBHeadroom    \* Thresholds

(* New: a threshold of zero or less takes its default. *)
ASSUME Thresholds == /\ YellowPodsMoved \in Nat \ {0}
                     /\ RedPodsMoved \in Nat \ {0}
                     /\ TightPDBHeadroom \in Nat \ {0}

Reason(kind, subject) == [kind |-> kind, subject |-> subject]

Severity(kind) ==
    CASE kind \in {"PDBZeroHeadroom", "UnmanagedPod", "StatefulWorkload", "BlastRadiusHigh"} -> "Red"
      [] kind \in {"PDBTightHeadroom", "PersistentVolume", "RequiredAntiAffinity",
                   "HardTopologySpread", "BlastRadius"} -> "Yellow"
      [] OTHER -> "Green"

RatingFor(reasons) ==
    LET found == {Severity(r.kind) : r \in reasons}
    IN  IF "Red" \in found THEN "Red" ELSE IF "Yellow" \in found THEN "Yellow" ELSE "Green"

OwnerReasons(pod, p) ==
    If(pod.owner = "None", Reason("UnmanagedPod", p))
    \cup If(pod.owner = "StatefulSet", Reason("StatefulWorkload", p))
    \cup If(pod.pvc, Reason("PersistentVolume", p))

BudgetReasons(s, pod) ==
    {Reason("PDBZeroHeadroom", b) : b \in {c \in Covering(s, pod) : Blocks(c)}}
    \cup {Reason("PDBTightHeadroom", b) :
            b \in {c \in Covering(s, pod) : ~Blocks(c) /\ c.allowed <= TightPDBHeadroom}}

(* Read from the analysis, not derived again. *)
ConstraintReasons(pc, p) ==
    If(\E c \in pc.constraints : c.kind = "PodAntiAffinity", Reason("RequiredAntiAffinity", p))
    \cup If(\E c \in pc.constraints : c.kind = "TopologySpread" /\ c.hard, Reason("HardTopologySpread", p))

SizeReasons(step) ==
    CASE Len(step.moves) >= RedPodsMoved    -> {Reason("BlastRadiusHigh", step.target)}
      [] Len(step.moves) < RedPodsMoved /\ Len(step.moves) >= YellowPodsMoved
                                            -> {Reason("BlastRadius", step.target)}
      [] OTHER                              -> {}

ReasonsFor(s, a, step) ==
    SizeReasons(step)
    \cup UNION {OwnerReasons(s.pod[m.pod], m.pod) \cup BudgetReasons(s, s.pod[m.pod])
                \cup ConstraintReasons(a[m.pod], m.pod) : m \in Range(step.moves)}

(* ClassifyPlan *)
ClassifyStep(s, a, step) ==
    LET reasons == ReasonsFor(s, a, step)
    IN  [target |-> step.target, moves |-> step.moves,
         reasons |-> reasons, impact |-> RatingFor(reasons)]

ClassifyPlan(s, a, steps) == [i \in DOMAIN steps |-> ClassifyStep(s, a, steps[i])]
=============================================================================
