------------------------------- MODULE SyncOps -------------------------------
(***************************************************************************)
(* The ops that ForestNote devices and the server exchange, and the order  *)
(* that decides a conflict (internal/syncstore/op.go, reconcile.go).       *)
(*                                                                         *)
(* An op is a full-row upsert.  What it writes is abstracted to `cols`, a  *)
(* value of Cols, or one of two malformed payloads: Missing lacks a known  *)
(* column, which validateOp sees before anything else; Mistyped has every  *)
(* column but one has the wrong JSON type, which only the coercion done    *)
(* when the row is written can see.                                        *)
(***************************************************************************)
EXTENDS Integers, Sequences

CONSTANTS
    Rows,       \* the (table, pk) pairs in play
    Pages,      \* the rows of table page
    Cols,       \* well-formed payloads
    PageOf,     \* Cols -> SUBSET Pages: the page a stroke or text box is on
    Devices,    \* site ids of the devices, as the numbers their ULIDs order by
    UB,         \* the server's own site id
    Missing,    \* payload without one of the table's known columns
    Mistyped,   \* payload with a value that does not coerce to its column
    NoRow       \* a row the mirror does not hold

Sites == Devices \cup {UB}

ASSUME SyncOpsAssumption ==
    /\ Pages \subseteq Rows
    /\ PageOf \in [Cols -> SUBSET Pages]
    /\ Sites \subseteq Nat
    /\ UB \notin Devices
    /\ Missing \notin Cols
    /\ Mistyped \notin Cols \cup {Missing}

Ops == [row : Rows, site : Sites, opSeq : Nat, wallTS : Nat,
        cols : Cols \cup {Missing, Mistyped}]

ASSUME NoRowAssumption == NoRow \notin Ops

(* The conflict order: lexicographic on (wall_ts, op_seq, site_id). *)
Less(a, b) ==
    \/ a.wallTS < b.wallTS
    \/ /\ a.wallTS = b.wallTS
       /\ \/ a.opSeq < b.opSeq
          \/ a.opSeq = b.opSeq /\ a.site < b.site

(* (site_id, op_seq) is an op's identity, the key of the dedup check. *)
SameOp(a, b) == a.site = b.site /\ a.opSeq = b.opSeq

ValidOp(op) == op.opSeq > 0 /\ op.cols # Missing

(* Mutant: the last op to arrive wins its row. *)
LastArrivedWins(m, n) == TRUE

(* mergeRow's test: the incoming op n wins its row of the table state m. *)
Wins(m, n) == m[n.row] # NoRow => Less(m[n.row], n)

Merged(m, n) == IF Wins(m, n) THEN [m EXCEPT ![n.row] = n] ELSE m

(* The pages whose render input an op that won its row may have changed. *)
ChangedPages(op) == IF op.row \in Pages THEN {op.row} ELSE PageOf[op.cols]

(* m is the materialization of the ops in S: in every row the greatest op
   under Less, and no row that no op wrote (reconcile.go's Merge). *)
IsMerge(m, S) ==
    \A r \in Rows :
        \/ m[r] = NoRow /\ \A o \in S : o.row # r
        \/ /\ m[r] \in S
           /\ m[r].row = r
           /\ \A o \in S : o.row = r => o = m[r] \/ Less(o, m[r])
=============================================================================
