------------------------------ MODULE SyncStore ------------------------------
(***************************************************************************)
(* The server's sync store (internal/syncstore/store.go): the mirror of    *)
(* every row, the append-only changelog, each device's accepted_through    *)
(* and the server's own op counter, all in one SQLite database opened with *)
(* a single connection.  ApplyBatch and AuthorOps each run in one          *)
(* transaction, which owns that connection from BEGIN to COMMIT: here the  *)
(* transaction is open as `tx` and one step handles one op, so that a      *)
(* failure may come between any two ops of a batch.                        *)
(***************************************************************************)
EXTENDS SyncOps

CONSTANT NoTx

VARIABLES
    log,        \* sync_ops in order of seq: log[i] has global seq i
    mirror,     \* the fn_* tables: the op that last won each row
    acked,      \* sync_cursors.acked_op_seq of each device
    authored,   \* sync_site.last_op_seq
    tx,         \* the open transaction, or NoTx
    refused     \* history: the op_seqs each device's committed calls rejected

store == <<log, mirror, acked, authored, refused>>
storeVars == <<log, mirror, acked, authored, tx, refused>>

LogOps(l) == {l[i] : i \in 1 .. Len(l)}

InLog(l, op) == \E o \in LogOps(l) : SameOp(o, op)

(* The op_seqs of site s that the changelog l holds. *)
Logged(l, s) == {o.opSeq : o \in {p \in LogOps(l) : p.site = s}}

TxRecords ==
    [site : Sites, todo : Seq(Ops), log : Seq(Ops),
     mirror : [Rows -> Ops \cup {NoRow}], authored : Nat,
     rejected : SUBSET Nat, pages : SUBSET Pages]

ASSUME NoTxAssumption == NoTx \notin TxRecords

StoreTypeOK ==
    /\ log \in Seq(Ops)
    /\ mirror \in [Rows -> Ops \cup {NoRow}]
    /\ acked \in [Devices -> Nat]
    /\ authored \in Nat
    /\ tx \in TxRecords \cup {NoTx}
    /\ refused \in [Devices -> SUBSET Nat]

StoreInit ==
    /\ log = <<>>
    /\ mirror = [r \in Rows |-> NoRow]
    /\ acked = [d \in Devices |-> 0]
    /\ authored = 0
    /\ tx = NoTx
    /\ refused = [d \in Devices |-> {}]
-----------------------------------------------------------------------------
Begin(s, ops, lastOpSeq) ==
    /\ tx = NoTx
    /\ tx' = [site |-> s, todo |-> ops, log |-> log, mirror |-> mirror,
              authored |-> lastOpSeq, rejected |-> {}, pages |-> {}]
    /\ UNCHANGED store

(* ApplyBatch for a request of device d. *)
BeginApply(d, ops) ==
    /\ \A i \in 1 .. Len(ops) : ops[i].site \in Devices
    /\ Begin(d, ops, authored)

(* AuthorOps: the server stamps its own site id, the next op_seqs and one
   wall_ts on each write; the caller's columns are always well-formed. *)
BeginAuthor(writes, now) ==
    /\ writes # <<>>
    /\ Begin(UB, [i \in 1 .. Len(writes) |->
                    [row |-> writes[i].row, site |-> UB, opSeq |-> authored + i,
                     wallTS |-> now, cols |-> writes[i].cols]],
             authored + Len(writes))

Next1(op) == tx # NoTx /\ tx.todo # <<>> /\ op = Head(tx.todo)

Applying == tx # NoTx /\ tx.site \in Devices

(* The op is refused for good; only an op_seq of the requesting device
   counts towards its water. *)
Reject(op) ==
    /\ tx' = [tx EXCEPT !.todo = Tail(@),
                        !.rejected = IF op.site = tx.site
                                     THEN @ \cup {op.opSeq} ELSE @]
    /\ UNCHANGED store

RejectInvalid(op) == Applying /\ Next1(op) /\ ~ValidOp(op) /\ Reject(op)

SkipLogged(op) ==
    /\ Applying /\ Next1(op)
    /\ ValidOp(op)
    /\ InLog(tx.log, op)
    /\ tx' = [tx EXCEPT !.todo = Tail(@)]
    /\ UNCHANGED store

(* The columns are coerced only when the op wins and its row is written. *)
RejectMistyped(op) ==
    /\ Applying /\ Next1(op)
    /\ ValidOp(op)
    /\ ~InLog(tx.log, op)
    /\ Wins(tx.mirror, op) /\ op.cols = Mistyped
    /\ Reject(op)

(* A storage error inside mergeRow takes the same branch as a bad value. *)
RejectFaulted(op) ==
    /\ Applying /\ Next1(op)
    /\ ValidOp(op)
    /\ ~InLog(tx.log, op)
    /\ Reject(op)

(* Merge into the mirror and append to the changelog, the loser too. *)
Record(op) ==
    /\ Next1(op)
    /\ ValidOp(op)
    /\ ~InLog(tx.log, op)
    /\ Wins(tx.mirror, op) => op.cols # Mistyped
    /\ tx' = [tx EXCEPT
                !.todo = Tail(@),
                !.log = Append(@, op),
                !.mirror = Merged(@, op),
                !.pages = IF Wins(tx.mirror, op)
                          THEN @ \cup ChangedPages(op) ELSE @]
    /\ UNCHANGED store

(* advanceAccepted: walk up from the stored water h over the op_seqs that
   are settled, and stop at the first that is not. *)
IsWater(h, from, settled) ==
    /\ h >= from
    /\ \A n \in from + 1 .. h : n \in settled
    /\ h + 1 \notin settled

(* Mutant: the walk's query is not restricted to the device's own ops. *)
SettledByAnySite(s) == tx.rejected \cup {o.opSeq : o \in LogOps(tx.log)}

Settled(s) == tx.rejected \cup Logged(tx.log, s)

CommitApply ==
    /\ Applying /\ tx.todo = <<>>
    /\ \E h \in {acked[tx.site]} \cup Settled(tx.site) :
          /\ IsWater(h, acked[tx.site], Settled(tx.site))
          /\ acked' = [acked EXCEPT ![tx.site] = h]
    /\ refused' = [refused EXCEPT ![tx.site] = @ \cup tx.rejected]
    /\ log' = tx.log
    /\ mirror' = tx.mirror
    /\ tx' = NoTx
    /\ UNCHANGED authored

(* Mutant: an authored op is merged but not recorded for the relay. *)
CommitUnrelayed ==
    /\ tx # NoTx /\ tx.site = UB /\ tx.todo = <<>>
    /\ mirror' = tx.mirror
    /\ authored' = tx.authored
    /\ tx' = NoTx
    /\ UNCHANGED <<log, acked, refused>>

CommitAuthor ==
    /\ tx # NoTx /\ tx.site = UB /\ tx.todo = <<>>
    /\ log' = tx.log
    /\ mirror' = tx.mirror
    /\ authored' = tx.authored
    /\ tx' = NoTx
    /\ UNCHANGED <<acked, refused>>

(* Any failed statement, a cancelled request or a crash: rolled back. *)
Abort == tx # NoTx /\ tx' = NoTx /\ UNCHANGED store

ApplyOne(op) ==
    \/ RejectInvalid(op)
    \/ SkipLogged(op)
    \/ RejectMistyped(op)
    \/ RejectFaulted(op)
    \/ Record(op)

StoreNext ==
    \/ \E d \in Devices, ops \in Seq(Ops) : BeginApply(d, ops)
    \/ \E writes \in Seq([row : Rows, cols : Cols]), now \in Nat : BeginAuthor(writes, now)
    \/ \E op \in Ops : ApplyOne(op)
    \/ CommitApply
    \/ CommitAuthor
    \/ Abort

StoreSpec == StoreInit /\ [][StoreNext]_storeVars
-----------------------------------------------------------------------------
(* Properties. *)

(* The changelog holds no op twice, whatever is resent (spec 7.3). *)
NoDuplicates ==
    \A i, j \in 1 .. Len(log) : SameOp(log[i], log[j]) => i = j

(* The mirror, which is updated op by op and never rebuilt, is the merge of
   the whole changelog: the losers it recorded cost nothing. *)
MirrorIsMerge == IsMerge(mirror, LogOps(log))

(* accepted_through is contiguous: at and below it, every op_seq is in the
   changelog or was refused in a committed call (spec 4.1, "contiguous"). *)
AcceptedIsSettled ==
    \A d \in Devices : \A n \in 1 .. acked[d] :
        n \in Logged(log, d) \cup refused[d]

(* The server's own op_seqs are exactly 1 .. last_op_seq: "a crash can
   neither double-allocate nor skip a sequence number". *)
AuthoredAreLogged == Logged(log, UB) = 1 .. authored

(* The four together: what makes the committed store sound. *)
StoreIsSound == NoDuplicates /\ MirrorIsMerge /\ AcceptedIsSettled /\ AuthoredAreLogged

(* No step takes an op out of the changelog, reorders it or lowers a
   device's water. *)
OnlyGrows ==
    [][ /\ Len(log) <= Len(log') /\ log = SubSeq(log', 1, Len(log))
        /\ \A d \in Devices : acked[d] <= acked'[d] ]_storeVars

(* The store implements the abstract set of ops: each transaction is one
   step of it, and everything inside a transaction is invisible. *)
Merge == INSTANCE SyncMerge WITH seen <- LogOps(log), table <- mirror
ImplementsMerge == Merge!Spec
=============================================================================
