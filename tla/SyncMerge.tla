------------------------------ MODULE SyncMerge ------------------------------
(***************************************************************************)
(* What the sync server promises, with transactions, batches, retries and  *)
(* cursors abstracted away: a grow-only set of ops with distinct           *)
(* identities, and a table that is at every moment the last-writer-wins    *)
(* materialization of that set, whatever the order the ops arrived in.     *)
(***************************************************************************)
EXTENDS SyncOps

VARIABLES
    seen,       \* the ops recorded so far
    table       \* the materialized rows

Init == seen = {} /\ table = [r \in Rows |-> NoRow]

(* A committed batch adds ops that were not there; none is ever removed. *)
Observe ==
    /\ seen \subseteq seen'
    /\ seen' \subseteq Ops
    /\ \A a, b \in seen' : SameOp(a, b) => a = b
    /\ table' \in [Rows -> seen' \cup {NoRow}]
    /\ IsMerge(table', seen')

Spec == Init /\ [][Observe]_<<seen, table>>
=============================================================================
