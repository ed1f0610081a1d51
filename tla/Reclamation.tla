----------------------------- MODULE Reclamation -----------------------------
(***************************************************************************)
(* The reclamations table, written by the executor (a node was drained)    *)
(* and by the planner (what became of it), and internal/reclaim, which     *)
(* judges the open records against a snapshot. The key (node, drained_at)  *)
(* is the position in the ledger.                                          *)
(***************************************************************************)
EXTENDS Naturals, Sequences, FiniteSets

CONSTANT Nodes

VARIABLE ledger    \* rows [node, external, outcome]

Outcomes == {"pending", "gone", "returned"}

(* RecordDrain inserts an open row, whatever outcome its argument carries. *)
RecordDrain(n, external) ==
    ledger' = Append(ledger, [node |-> n, external |-> external, outcome |-> "pending"])

(* Seeded fault: a node that was given back is still watched. *)
PendingUntilGone == {i \in DOMAIN ledger : ledger[i].outcome # "gone"}

(* PendingReclamations: the open rows. *)
Pending == {i \in DOMAIN ledger : ledger[i].outcome = "pending"}

(* ResolveReclamation: an outcome is observed once. *)
ResolveReclamation(i, outcome) ==
    ledger' = IF i \in Pending THEN [ledger EXCEPT ![i].outcome = outcome] ELSE ledger

(* Seeded fault: only nodes that are still listed are judged. *)
TransitionsOfListed(pending, snap) ==
    {[row |-> i, outcome |-> "returned"] : i \in {j \in pending : snap[ledger[j].node] = "serving"}}

(* reclaim.Resolve. Absent: gone. Schedulable again: returned. Cordoned: wait. *)
Transitions(pending, snap) ==
    {[row |-> i, outcome |-> "gone"] : i \in {j \in pending : snap[ledger[j].node] = "absent"}}
    \cup {[row |-> i, outcome |-> "returned"] : i \in {j \in pending : snap[ledger[j].node] = "serving"}}
=============================================================================
