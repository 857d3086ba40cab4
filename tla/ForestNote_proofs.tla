-------------------------- MODULE ForestNote_proofs --------------------------
(***************************************************************************)
(* What holds of the ForestNote side of the server.  Of the sync store,    *)
(* for every set of devices and rows and every sequence of requests,       *)
(* well-formed or not.  Of the round-trip that uses it, for any number of  *)
(* devices, writes and faults, any relay limit and any payloads: the       *)
(* server's store is used as SyncStore says, no device loses a write, and  *)
(* what a device holds is the merge of its own writes and of every op that *)
(* was relayed to it.  And of the bridge that the store's changes are      *)
(* handed to, for any number of pages, notebooks and events and any length *)
(* of its queue: a page that is out of date is on its way to the worker,   *)
(* or in its hands, or its work was lost in a way that is known.           *)
(***************************************************************************)
EXTENDS SyncProtocol, SyncBridge, FiniteSetTheorems, SequenceTheorems,
        WellFoundedInduction, TLAPS

USE DEF Sites

(***************************************************************************)
(* Lemmas about the conflict order.                                        *)
(***************************************************************************)

(* The order is transitive. *)
LEMMA LessTransitive ==
    ASSUME NEW a \in Ops, NEW b \in Ops, NEW c \in Ops, Less(a, b), Less(b, c)
    PROVE  Less(a, c)
BY SyncOpsAssumption DEF Less, Ops

(* Two ops neither of which beats the other are one op: the order is total
   on op identities. *)
LEMMA LessTotal ==
    ASSUME NEW a \in Ops, NEW b \in Ops, ~Less(a, b), ~SameOp(a, b)
    PROVE  Less(b, a)
BY SyncOpsAssumption DEF Less, Ops, SameOp

(* Merging one more op that the set does not hold yet keeps the table the
   merge of the set. *)
LEMMA MergeOne ==
    ASSUME NEW S \in SUBSET Ops, NEW m \in [Rows -> Ops \cup {NoRow}], IsMerge(m, S),
           NEW op \in Ops, \A o \in S : ~SameOp(o, op)
    PROVE  /\ Merged(m, op) \in [Rows -> Ops \cup {NoRow}]
           /\ IsMerge(Merged(m, op), S \cup {op})
<1>0. op.row \in Rows
  BY DEF Ops
<1>1. Merged(m, op) \in [Rows -> Ops \cup {NoRow}]
  BY <1>0 DEF Merged
<1>2. ASSUME NEW r \in Rows
      PROVE  \/ Merged(m, op)[r] = NoRow /\ \A o \in S \cup {op} : o.row # r
             \/ /\ Merged(m, op)[r] \in S \cup {op}
                /\ Merged(m, op)[r].row = r
                /\ \A o \in S \cup {op} :
                      o.row = r => o = Merged(m, op)[r] \/ Less(o, Merged(m, op)[r])
  <2>1. CASE r # op.row
    BY <1>0, <2>1 DEF IsMerge, Merged
  <2>2. CASE r = op.row /\ Wins(m, op)
    <3>1. Merged(m, op)[r] = op
      BY <1>0, <2>2 DEF Merged
    <3>2. ASSUME NEW o \in S, o.row = r PROVE Less(o, op)
      <4>1. m[r] \in S /\ (o = m[r] \/ Less(o, m[r]))
        BY <3>2 DEF IsMerge
      <4>2. m[r] # NoRow /\ Less(m[r], op)
        BY <4>1, <2>2, NoRowAssumption DEF Wins
      <4>3. QED
        BY <4>1, <4>2, LessTransitive
    <3>3. QED
      BY <3>1, <3>2, <2>2
  <2>3. CASE r = op.row /\ ~Wins(m, op)
    <3>1. Merged(m, op)[r] = m[r] /\ m[r] # NoRow /\ ~Less(m[r], op)
      BY <2>3 DEF Merged, Wins
    <3>2. m[r] \in S /\ m[r].row = r
      BY <3>1 DEF IsMerge
    <3>3. Less(op, m[r])
      BY <3>1, <3>2, LessTotal
    <3>4. QED
      BY <3>1, <3>2, <3>3 DEF IsMerge
  <2>4. QED
    BY <2>1, <2>2, <2>3
<1>3. QED
  BY <1>1, <1>2 DEF IsMerge

(***************************************************************************)
(* Lemmas about the changelog.                                             *)
(***************************************************************************)

(* Appending to the changelog adds exactly that op to it. *)
LEMMA LogOpsAppend ==
    ASSUME NEW l \in Seq(Ops), NEW op \in Ops
    PROVE  LogOps(Append(l, op)) = LogOps(l) \cup {op}
<1>1. Len(Append(l, op)) = Len(l) + 1 /\ Append(l, op)[Len(l) + 1] = op
  OBVIOUS
<1>2. \A i \in 1 .. Len(l) : Append(l, op)[i] = l[i]
  OBVIOUS
<1>3. 1 .. Len(Append(l, op)) = (1 .. Len(l)) \cup {Len(l) + 1}
  BY <1>1
<1>4. QED
  BY <1>1, <1>2, <1>3 DEF LogOps

(* ... and its op_seq, to those of its site. *)
LEMMA LoggedAppend ==
    ASSUME NEW l \in Seq(Ops), NEW op \in Ops, NEW s
    PROVE  Logged(Append(l, op), s) =
             Logged(l, s) \cup (IF op.site = s THEN {op.opSeq} ELSE {})
BY LogOpsAppend DEF Logged

LEMMA LogOpsType ==
    ASSUME NEW l \in Seq(Ops)
    PROVE  LogOps(l) \subseteq Ops
BY DEF LogOps

LEMMA LoggedType ==
    ASSUME NEW l \in Seq(Ops), NEW s
    PROVE  Logged(l, s) \subseteq Nat
BY LogOpsType DEF Logged, Ops

(* A longer changelog logs everything the shorter one did. *)
LEMMA LoggedMonotonic ==
    ASSUME NEW l \in Seq(Ops), NEW k \in Seq(Ops), LogOps(l) \subseteq LogOps(k), NEW s
    PROVE  Logged(l, s) \subseteq Logged(k, s)
BY DEF Logged

(***************************************************************************)
(* The inductive invariant.  What holds of the committed state holds at    *)
(* every COMMIT because it holds of the transaction's own view after every *)
(* op: TxOK says so, together with what the transaction will not touch     *)
(* (a device's request never writes an op of the server's own site) and    *)
(* with how far an authoring transaction has used up the op_seqs it        *)
(* reserved when it began.                                                 *)
(***************************************************************************)
Unique(l) == \A i, j \in 1 .. Len(l) : SameOp(l[i], l[j]) => i = j

Extends(k, l) == Len(l) <= Len(k) /\ \A i \in 1 .. Len(l) : k[i] = l[i]

ApplyOK ==
    /\ \A i \in 1 .. Len(tx.todo) : tx.todo[i].site \in Devices
    /\ tx.authored = authored
    /\ Logged(tx.log, UB) = Logged(log, UB)

AuthorOK ==
    /\ tx.rejected = {}
    /\ Len(tx.todo) <= tx.authored
    /\ \A i \in 1 .. Len(tx.todo) :
          tx.todo[i].site = UB /\ tx.todo[i].opSeq = (tx.authored - Len(tx.todo)) + i
    /\ Logged(tx.log, UB) = 1 .. (tx.authored - Len(tx.todo))

TxOK ==
    tx # NoTx =>
        /\ Extends(tx.log, log)
        /\ Unique(tx.log)
        /\ IsMerge(tx.mirror, LogOps(tx.log))
        /\ tx.site \in Devices => ApplyOK
        /\ tx.site = UB => AuthorOK

StoreInv ==
    /\ StoreTypeOK
    /\ NoDuplicates
    /\ MirrorIsMerge
    /\ AcceptedIsSettled
    /\ AuthoredAreLogged
    /\ TxOK

(* Nothing is logged, and no transaction is open, when the database is new. *)
LEMMA InitStoreInv == StoreInit => StoreInv
<1> SUFFICES ASSUME StoreInit PROVE StoreInv
  OBVIOUS
<1>1. LogOps(log) = {}
  BY DEF StoreInit, LogOps
<1>2. StoreTypeOK
  BY DEF StoreInit, StoreTypeOK
<1>3. NoDuplicates /\ MirrorIsMerge /\ AcceptedIsSettled /\ TxOK
  BY <1>1 DEF StoreInit, NoDuplicates, MirrorIsMerge, IsMerge, AcceptedIsSettled, TxOK
<1>4. AuthoredAreLogged
  BY <1>1 DEF StoreInit, AuthoredAreLogged, Logged
<1>5. QED
  BY <1>2, <1>3, <1>4 DEF StoreInv

(***************************************************************************)
(* Steps inside a transaction leave the committed state alone, so that     *)
(* only the type of tx and TxOK are to be shown for them.                  *)
(***************************************************************************)
LEMMA InsideTx ==
    ASSUME StoreInv, UNCHANGED store, tx' \in TxRecords \cup {NoTx}, TxOK'
    PROVE  StoreInv'
<1>1. StoreTypeOK'
  BY DEF StoreInv, StoreTypeOK, store
<1>2. NoDuplicates' /\ MirrorIsMerge' /\ AcceptedIsSettled' /\ AuthoredAreLogged'
  BY DEF StoreInv, store, NoDuplicates, MirrorIsMerge, AcceptedIsSettled,
         AuthoredAreLogged
<1>3. QED
  BY <1>1, <1>2 DEF StoreInv

(* A transaction begins with a view equal to the committed state. *)
LEMMA BeginInv ==
    ASSUME StoreInv, NEW s \in Sites, NEW ops \in Seq(Ops), NEW n \in Nat,
           Begin(s, ops, n), (s \in Devices => ApplyOK)', (s = UB => AuthorOK)'
    PROVE  StoreInv' /\ tx' \in TxRecords
<1> USE DEF StoreInv, StoreTypeOK
<1>1. tx' \in TxRecords
  BY DEF Begin, TxRecords
<1>2. tx'.log = log /\ tx'.mirror = mirror /\ tx'.site = s /\ log' = log
  BY DEF Begin, store
<1>3. TxOK'
  BY <1>2 DEF TxOK, Extends, Unique, NoDuplicates, MirrorIsMerge
<1>4. QED
  BY <1>1, <1>3, InsideTx DEF Begin

LEMMA BeginApplyInv ==
    ASSUME StoreInv, NEW d \in Devices, NEW ops \in Seq(Ops), BeginApply(d, ops)
    PROVE  StoreInv' /\ tx' \in TxRecords
<1> USE DEF StoreInv, StoreTypeOK
<1>1. /\ tx'.todo = ops /\ tx'.authored = authored /\ tx'.log = log
      /\ log' = log /\ authored' = authored
  BY DEF BeginApply, Begin, store
<1>2. ApplyOK'
  BY <1>1 DEF ApplyOK, BeginApply
<1>3. QED
  BY <1>2, BeginInv, SyncOpsAssumption DEF BeginApply

(* The op_seqs an authoring transaction reserves follow those logged. *)
LEMMA BeginAuthorInv ==
    ASSUME StoreInv, NEW writes \in Seq([row : Rows, cols : Cols]), NEW now \in Nat,
           BeginAuthor(writes, now)
    PROVE  StoreInv'
<1> USE DEF StoreInv, StoreTypeOK
<1> DEFINE ops == [i \in 1 .. Len(writes) |->
                     [row |-> writes[i].row, site |-> UB, opSeq |-> authored + i,
                      wallTS |-> now, cols |-> writes[i].cols]]
<1>1. \A i \in 1 .. Len(writes) : ops[i] \in Ops
  <2> SUFFICES ASSUME NEW i \in 1 .. Len(writes) PROVE ops[i] \in Ops
    OBVIOUS
  <2>1. writes[i] \in [row : Rows, cols : Cols]
    BY ElementOfSeq
  <2>2. QED
    BY <2>1, SyncOpsAssumption DEF Ops
<1>2. ops \in Seq(Ops) /\ Len(ops) = Len(writes)
  <2>1. Len(writes) \in Nat
    OBVIOUS
  <2>2. QED
    BY <1>1, <2>1
<1>3. Begin(UB, ops, authored + Len(writes))
  BY DEF BeginAuthor
<1>4. /\ tx'.todo = ops /\ tx'.authored = authored + Len(writes) /\ tx'.log = log
      /\ tx'.rejected = {}
  BY <1>3 DEF Begin
<1>5. \A i \in 1 .. Len(writes) : ops[i].site = UB /\ ops[i].opSeq = authored + i
  OBVIOUS
<1> HIDE DEF ops
<1>6. AuthorOK'
  <2>1. (tx'.authored - Len(tx'.todo)) = authored /\ Len(tx'.todo) = Len(writes)
    <3>1. authored \in Nat /\ Len(writes) \in Nat
      OBVIOUS
    <3>2. tx'.authored = authored + Len(writes) /\ Len(tx'.todo) = Len(writes)
      BY <1>2, <1>4
    <3>3. QED
      BY <3>1, <3>2
  <2>2. Logged(log, UB) = 1 .. authored
    BY DEF AuthoredAreLogged
  <2>3. QED
    BY <1>2, <1>4, <1>5, <2>1, <2>2 DEF AuthorOK
<1>7. QED
  BY <1>2, <1>3, <1>6, BeginInv, SyncOpsAssumption

(* What is left of a sequence without its first element. *)
LEMMA TailIs ==
    ASSUME NEW s \in Seq(Ops), s # <<>>
    PROVE  /\ Tail(s) \in Seq(Ops) /\ Len(Tail(s)) = Len(s) - 1
           /\ \A i \in 1 .. Len(Tail(s)) : Tail(s)[i] = s[i + 1] /\ i + 1 \in 1 .. Len(s)
OBVIOUS

(* The rest of a run of reserved op_seqs ends where the run ended. *)
LEMMA TailOfNumbered ==
    ASSUME NEW s \in Seq(Ops), s # <<>>, NEW a \in Nat,
           \A i \in 1 .. Len(s) : s[i].site = UB /\ s[i].opSeq = (a - Len(s)) + i
    PROVE  \A i \in 1 .. (Len(s) - 1) :
              Tail(s)[i].site = UB /\ Tail(s)[i].opSeq = (a - (Len(s) - 1)) + i
<1> SUFFICES ASSUME NEW i \in 1 .. (Len(s) - 1)
             PROVE  Tail(s)[i].site = UB /\ Tail(s)[i].opSeq = (a - (Len(s) - 1)) + i
  OBVIOUS
<1>1. Tail(s)[i] = s[i + 1] /\ i + 1 \in 1 .. Len(s)
  OBVIOUS
<1>2. (a - Len(s)) + (i + 1) = (a - (Len(s) - 1)) + i
  OBVIOUS
<1>3. QED
  BY <1>1, <1>2

(* What one step of a transaction does to TxOK: `log` is as before, and the
   ops still to do are those before without the first. *)
LEMMA RejectInv ==
    ASSUME StoreInv, NEW op \in Ops, Applying, Next1(op), Reject(op)
    PROVE  StoreInv' /\ tx' \in TxRecords
<1> USE DEF StoreInv, StoreTypeOK
<1>1. tx \in TxRecords
  BY DEF Next1
<1>2. /\ tx'.log = tx.log /\ tx'.mirror = tx.mirror /\ tx'.site = tx.site
      /\ tx'.todo = Tail(tx.todo) /\ tx'.authored = tx.authored
      /\ log' = log /\ authored' = authored
  BY <1>1 DEF Reject, TxRecords, store
<1>3. tx' \in TxRecords
  <2>1. op.opSeq \in Nat
    BY DEF Ops
  <2>2. tx.rejected \cup {op.opSeq} \in SUBSET Nat
    BY <1>1, <2>1 DEF TxRecords
  <2>3. Tail(tx.todo) \in Seq(Ops)
    BY <1>1 DEF TxRecords, Next1
  <2>4. QED
    BY <1>1, <2>2, <2>3 DEF TxRecords, Reject
<1>4. ApplyOK'
  <2>1. tx.todo \in Seq(Ops) /\ tx.todo # <<>>
    BY <1>1 DEF TxRecords, Next1
  <2>2. \A i \in 1 .. Len(tx.todo) : tx.todo[i].site \in Devices
    BY DEF TxOK, ApplyOK, Applying
  <2>3. \A i \in 1 .. Len(Tail(tx.todo)) : Tail(tx.todo)[i].site \in Devices
    BY <2>1, <2>2, TailIs
  <2>4. QED
    BY <1>2, <2>3 DEF TxOK, ApplyOK, Applying
<1>5. TxOK'
  BY <1>2, <1>4, SyncOpsAssumption DEF TxOK, Applying, Extends, Unique
<1>6. QED
  BY <1>3, <1>5, InsideTx DEF Reject

LEMMA SkipInv ==
    ASSUME StoreInv, NEW op \in Ops, SkipLogged(op)
    PROVE  StoreInv' /\ tx' \in TxRecords
<1> USE DEF StoreInv, StoreTypeOK
<1>1. tx \in TxRecords /\ tx.todo \in Seq(Ops) /\ tx.todo # <<>>
  BY DEF SkipLogged, Next1, TxRecords
<1>2. /\ tx'.log = tx.log /\ tx'.mirror = tx.mirror /\ tx'.site = tx.site
      /\ tx'.todo = Tail(tx.todo) /\ tx'.authored = tx.authored
      /\ log' = log /\ authored' = authored
  BY <1>1 DEF SkipLogged, TxRecords, store
<1>3. tx' \in TxRecords
  <2>1. Tail(tx.todo) \in Seq(Ops)
    BY <1>1
  <2>2. QED
    BY <1>1, <2>1 DEF TxRecords, SkipLogged
<1>4. ApplyOK'
  <2>1. \A i \in 1 .. Len(tx.todo) : tx.todo[i].site \in Devices
    BY DEF TxOK, ApplyOK, Applying, SkipLogged
  <2>2. \A i \in 1 .. Len(Tail(tx.todo)) : Tail(tx.todo)[i].site \in Devices
    BY <1>1, <2>1, TailIs
  <2>3. QED
    BY <1>2, <2>2 DEF TxOK, ApplyOK, Applying, SkipLogged
<1>5. TxOK'
  BY <1>2, <1>4, SyncOpsAssumption DEF TxOK, Applying, SkipLogged, Extends, Unique
<1>6. QED
  BY <1>3, <1>5, InsideTx DEF SkipLogged

(***************************************************************************)
(* Recording an op: the dedup check keeps the changelog free of            *)
(* duplicates, MergeOne keeps the mirror its merge, and the op is the      *)
(* server's own exactly when the transaction is an authoring one.          *)
(***************************************************************************)
LEMMA RecordInv ==
    ASSUME StoreInv, NEW op \in Ops, Record(op)
    PROVE  StoreInv' /\ tx' \in TxRecords
<1> USE DEF StoreInv, StoreTypeOK
<1>1. /\ tx \in TxRecords /\ tx # NoTx
      /\ tx.todo \in Seq(Ops) /\ tx.todo # <<>> /\ op = Head(tx.todo)
      /\ tx.log \in Seq(Ops) /\ tx.mirror \in [Rows -> Ops \cup {NoRow}]
      /\ tx.site \in Sites /\ tx.authored \in Nat
  BY DEF Record, Next1, TxRecords
<1>2. /\ tx'.log = Append(tx.log, op) /\ tx'.mirror = Merged(tx.mirror, op)
      /\ tx'.site = tx.site /\ tx'.todo = Tail(tx.todo)
      /\ tx'.authored = tx.authored /\ tx'.rejected = tx.rejected
      /\ log' = log /\ authored' = authored
  BY <1>1 DEF Record, TxRecords, store
<1>3. \A o \in LogOps(tx.log) : ~SameOp(o, op)
  BY DEF Record, InLog
<1>4. LogOps(tx.log) \subseteq Ops /\ IsMerge(tx.mirror, LogOps(tx.log))
  BY <1>1, LogOpsType DEF TxOK
<1>5. /\ tx'.mirror \in [Rows -> Ops \cup {NoRow}]
      /\ IsMerge(tx'.mirror, LogOps(tx'.log))
  <2>1. LogOps(tx'.log) = LogOps(tx.log) \cup {op}
    BY <1>1, <1>2, LogOpsAppend
  <2>2. /\ Merged(tx.mirror, op) \in [Rows -> Ops \cup {NoRow}]
        /\ IsMerge(Merged(tx.mirror, op), LogOps(tx.log) \cup {op})
    BY <1>1, <1>3, <1>4, MergeOne
  <2>3. QED
    BY <1>2, <2>1, <2>2
<1>6. Extends(tx'.log, log)
  BY <1>1, <1>2 DEF TxOK, Extends
<1>7. Unique(tx'.log)
  <2>1. /\ Len(tx'.log) = Len(tx.log) + 1 /\ tx'.log[Len(tx.log) + 1] = op
        /\ \A i \in 1 .. Len(tx.log) : tx'.log[i] = tx.log[i]
    BY <1>1, <1>2
  <2>2. \A i \in 1 .. Len(tx.log) : ~SameOp(tx.log[i], op) /\ ~SameOp(op, tx.log[i])
    BY <1>3 DEF LogOps, SameOp
  <2>3. \A i \in 1 .. Len(tx'.log) : i \in 1 .. Len(tx.log) \/ i = Len(tx.log) + 1
    BY <2>1, <1>1
  <2>4. Unique(tx.log)
    BY <1>1 DEF TxOK
  <2>5. QED
    BY <2>1, <2>2, <2>3, <2>4 DEF Unique
<1>8. tx' \in TxRecords
  <2>1. ChangedPages(op) \subseteq Pages \/ ~Wins(tx.mirror, op)
    BY SyncOpsAssumption, <1>1 DEF ChangedPages, Record, ValidOp, Ops
  <2>2. Tail(tx.todo) \in Seq(Ops) /\ Append(tx.log, op) \in Seq(Ops)
    BY <1>1
  <2>3. tx.pages \in SUBSET Pages
    BY <1>1 DEF TxRecords
  <2>4. (IF Wins(tx.mirror, op) THEN tx.pages \cup ChangedPages(op) ELSE tx.pages)
           \in SUBSET Pages
    BY <2>1, <2>3
  <2>5. Merged(tx.mirror, op) \in [Rows -> Ops \cup {NoRow}]
    BY <1>2, <1>5
  <2>6. QED
    BY <1>1, <2>2, <2>4, <2>5 DEF TxRecords, Record
<1>9. tx.site \in Devices => ApplyOK'
  <2> HAVE tx.site \in Devices
  <2>1. ApplyOK
    BY <1>1 DEF TxOK
  <2>2. op.site \in Devices
    BY <2>1, <1>1 DEF ApplyOK
  <2>3. Logged(tx'.log, UB) = Logged(tx.log, UB)
    <3>1. op.site # UB
      BY <2>2, SyncOpsAssumption
    <3>2. Logged(Append(tx.log, op), UB) = Logged(tx.log, UB) \cup {}
      BY <1>1, <3>1, LoggedAppend
    <3>3. QED
      BY <1>2, <3>2
  <2>4. ASSUME NEW i \in 1 .. Len(Tail(tx.todo)) PROVE Tail(tx.todo)[i].site \in Devices
    <3>1. tx.todo \in Seq(Ops) /\ tx.todo # <<>>
      BY <1>1
    <3>2. i + 1 \in 1 .. Len(tx.todo) /\ Tail(tx.todo)[i] = tx.todo[i + 1]
      BY <3>1
    <3>3. QED
      BY <2>1, <3>2 DEF ApplyOK
  <2>5. QED
    BY <1>2, <2>1, <2>3, <2>4 DEF ApplyOK
<1>10. tx.site = UB => AuthorOK'
  <2> HAVE tx.site = UB
  <2>1. AuthorOK
    BY <1>1 DEF TxOK
  <2> DEFINE n == Len(tx.todo)
             a == tx.authored
  <2>2. n \in Nat /\ n > 0 /\ n <= a /\ a \in Nat /\ Len(Tail(tx.todo)) = n - 1
    BY <1>1, <2>1 DEF AuthorOK
  <2>3. op.site = UB /\ op.opSeq = (a - n) + 1
    <3>1. op = tx.todo[1]
      BY <1>1
    <3>2. 1 \in 1 .. n
      BY <2>2
    <3>3. tx.todo[1].site = UB /\ tx.todo[1].opSeq = (a - n) + 1
      BY <2>1, <3>2 DEF AuthorOK
    <3>4. QED
      BY <3>1, <3>3
  <2>4. Logged(tx'.log, UB) = (1 .. (a - n)) \cup {(a - n) + 1}
    BY <1>1, <1>2, <2>1, <2>3, LoggedAppend DEF AuthorOK
  <2>5. Logged(tx'.log, UB) = 1 .. (a - (n - 1))
    BY <2>2, <2>4
  <2>6. \A i \in 1 .. (n - 1) : Tail(tx.todo)[i].site = UB
                             /\ Tail(tx.todo)[i].opSeq = (a - (n - 1)) + i
    <3>1. \A i \in 1 .. n : tx.todo[i].site = UB /\ tx.todo[i].opSeq = (a - n) + i
      BY <2>1 DEF AuthorOK
    <3>2. tx.todo \in Seq(Ops) /\ tx.todo # <<>>
      BY <1>1
    <3>3. QED
      BY <2>2, <3>1, <3>2, TailOfNumbered
  <2>7. QED
    BY <1>2, <2>1, <2>2, <2>5, <2>6 DEF AuthorOK
<1>11. TxOK'
  BY <1>2, <1>5, <1>6, <1>7, <1>9, <1>10 DEF TxOK
<1>12. QED
  BY <1>8, <1>11, InsideTx DEF Record

(* A changelog that extends another holds all of its ops. *)
LEMMA ExtendsLogOps ==
    ASSUME NEW k \in Seq(Ops), NEW l \in Seq(Ops), Extends(k, l)
    PROVE  LogOps(l) \subseteq LogOps(k) /\ l = SubSeq(k, 1, Len(l))
<1>1. LogOps(l) \subseteq LogOps(k)
  BY DEF LogOps, Extends
<1>2. \A i \in 1 .. Len(l) : k[i] \in Ops
  BY ElementOfSeq DEF Extends
<1>3. /\ SubSeq(k, 1, Len(l)) \in Seq(Ops)
      /\ Len(SubSeq(k, 1, Len(l))) = Len(l)
      /\ \A i \in 1 .. Len(l) : SubSeq(k, 1, Len(l))[i] = l[i]
  BY DEF Extends
<1>4. QED
  BY <1>1, <1>3, SeqEqual

(***************************************************************************)
(* COMMIT of a device's batch.  The water moves over settled op_seqs only, *)
(* and those it moved over stay settled: the changelog never shrinks and a *)
(* refusal is remembered.                                                  *)
(***************************************************************************)
LEMMA CommitApplyInv ==
    ASSUME StoreInv, CommitApply
    PROVE  /\ StoreInv'
           /\ Extends(log', log)
           /\ \A d \in Devices : acked[d] <= acked'[d]
<1> USE DEF StoreInv, StoreTypeOK
<1>1. /\ tx \in TxRecords /\ tx # NoTx /\ tx.site \in Devices
      /\ tx.log \in Seq(Ops) /\ tx.mirror \in [Rows -> Ops \cup {NoRow}]
      /\ tx.rejected \in SUBSET Nat
  BY DEF CommitApply, Applying, TxRecords
<1>2. /\ log' = tx.log /\ mirror' = tx.mirror /\ tx' = NoTx /\ authored' = authored
      /\ refused' = [refused EXCEPT ![tx.site] = refused[tx.site] \cup tx.rejected]
  BY DEF CommitApply
<1>3. PICK h \in {acked[tx.site]} \cup Settled(tx.site) :
         /\ IsWater(h, acked[tx.site], Settled(tx.site))
         /\ acked' = [acked EXCEPT ![tx.site] = h]
  BY DEF CommitApply
<1>4. h \in Nat /\ acked[tx.site] \in Nat /\ acked[tx.site] <= h
  BY <1>1, <1>3, LoggedType DEF Settled, IsWater
<1>5. Extends(tx.log, log)
  BY <1>1 DEF TxOK
<1>6. StoreTypeOK'
  BY <1>1, <1>2, <1>3, <1>4
<1>7. NoDuplicates' /\ MirrorIsMerge'
  BY <1>1, <1>2 DEF TxOK, Unique, NoDuplicates, MirrorIsMerge
<1>8. AuthoredAreLogged'
  BY <1>1, <1>2 DEF TxOK, ApplyOK, AuthoredAreLogged
<1>9. ASSUME NEW d \in Devices, NEW n \in 1 .. acked'[d]
      PROVE  n \in (Logged(log, d) \cup refused[d])'
  <2>1. Logged(log, d) \subseteq Logged(tx.log, d)
    BY <1>1, <1>5, ExtendsLogOps, LoggedMonotonic
  <2>2. refused[d] \subseteq refused'[d]
    BY <1>1, <1>2
  <2>3. CASE n \in 1 .. acked[d]
    BY <1>2, <2>1, <2>2, <2>3 DEF AcceptedIsSettled
  <2>4. CASE d = tx.site /\ n \notin 1 .. acked[d]
    <3>1. acked'[d] = h /\ refused'[d] = refused[d] \cup tx.rejected
      BY <1>1, <1>2, <1>3, <2>4
    <3>2. n \in (acked[d] + 1) .. h
      BY <1>4, <2>4, <3>1
    <3>3. n \in tx.rejected \cup Logged(tx.log, d)
      BY <1>3, <2>4, <3>2 DEF IsWater, Settled
    <3>4. QED
      BY <1>2, <3>1, <3>3
  <2>5. CASE d # tx.site
    BY <1>3, <2>3, <2>5
  <2>6. QED
    BY <2>3, <2>4, <2>5
<1>10. AcceptedIsSettled'
  BY <1>9 DEF AcceptedIsSettled
<1>11. \A d \in Devices : acked[d] <= acked'[d]
  BY <1>1, <1>3, <1>4
<1>12. QED
  BY <1>2, <1>5, <1>6, <1>7, <1>8, <1>10, <1>11 DEF TxOK

(* COMMIT of the server's own ops: the counter and the changelog move
   together, in one transaction. *)
LEMMA CommitAuthorInv ==
    ASSUME StoreInv, CommitAuthor
    PROVE  StoreInv' /\ Extends(log', log) /\ UNCHANGED acked
<1> USE DEF StoreInv, StoreTypeOK
<1>1. /\ tx \in TxRecords /\ tx # NoTx /\ tx.site = UB /\ tx.todo = <<>>
      /\ tx.log \in Seq(Ops) /\ tx.mirror \in [Rows -> Ops \cup {NoRow}]
      /\ tx.authored \in Nat
  BY DEF CommitAuthor, TxRecords
<1>2. /\ log' = tx.log /\ mirror' = tx.mirror /\ authored' = tx.authored
      /\ tx' = NoTx /\ acked' = acked /\ refused' = refused
  BY DEF CommitAuthor
<1>3. Extends(tx.log, log)
  BY <1>1 DEF TxOK
<1>4. StoreTypeOK'
  BY <1>1, <1>2
<1>5. NoDuplicates' /\ MirrorIsMerge'
  BY <1>1, <1>2 DEF TxOK, Unique, NoDuplicates, MirrorIsMerge
<1>6. Logged(tx.log, UB) = 1 .. tx.authored
  BY <1>1 DEF TxOK, AuthorOK
<1>7. AuthoredAreLogged'
  BY <1>2, <1>6 DEF AuthoredAreLogged
<1>8. AcceptedIsSettled'
  <2>1. \A d \in Devices : Logged(log, d) \subseteq Logged(tx.log, d)
    BY <1>1, <1>3, ExtendsLogOps, LoggedMonotonic
  <2>2. QED
    BY <1>2, <2>1 DEF AcceptedIsSettled
<1>9. QED
  BY <1>2, <1>3, <1>4, <1>5, <1>7, <1>8 DEF TxOK

LEMMA AbortInv ==
    ASSUME StoreInv, Abort
    PROVE  StoreInv'
BY InsideTx DEF Abort, TxOK

(***************************************************************************)
(* What every step does to the committed state: the invariant is kept, the *)
(* changelog is extended, and no water falls.                              *)
(***************************************************************************)
LEMMA StepInv ==
    ASSUME StoreInv, [StoreNext]_storeVars
    PROVE  /\ StoreInv'
           /\ Extends(log', log)
           /\ \A d \in Devices : acked[d] <= acked'[d]
<1> DEFINE Grows == /\ Extends(log', log)
                    /\ \A d \in Devices : acked[d] <= acked'[d]
<1>1. log \in Seq(Ops) /\ acked \in [Devices -> Nat]
  BY DEF StoreInv, StoreTypeOK
<1>2. ASSUME UNCHANGED store PROVE Grows
  BY <1>1, <1>2 DEF store, Extends
<1>3. ASSUME NEW d \in Devices, NEW ops \in Seq(Ops), BeginApply(d, ops)
      PROVE  StoreInv' /\ Grows
  BY <1>2, <1>3, BeginApplyInv DEF BeginApply, Begin
<1>4. ASSUME NEW writes \in Seq([row : Rows, cols : Cols]), NEW now \in Nat,
             BeginAuthor(writes, now)
      PROVE  StoreInv' /\ Grows
  BY <1>2, <1>4, BeginAuthorInv DEF BeginAuthor, Begin
<1>5. ASSUME NEW op \in Ops, ApplyOne(op)
      PROVE  StoreInv' /\ Grows
  <2>1. CASE RejectInvalid(op)
    BY <1>2, <2>1, RejectInv DEF RejectInvalid, Reject
  <2>2. CASE SkipLogged(op)
    BY <1>2, <2>2, SkipInv DEF SkipLogged
  <2>3. CASE RejectMistyped(op)
    BY <1>2, <2>3, RejectInv DEF RejectMistyped, Reject
  <2>4. CASE RejectFaulted(op)
    BY <1>2, <2>4, RejectInv DEF RejectFaulted, Reject
  <2>5. CASE Record(op)
    BY <1>2, <2>5, RecordInv DEF Record
  <2>6. QED
    BY <1>5, <2>1, <2>2, <2>3, <2>4, <2>5 DEF ApplyOne
<1>6. CASE CommitApply
  BY <1>6, CommitApplyInv
<1>7. CASE CommitAuthor
  BY <1>1, <1>7, CommitAuthorInv
<1>8. CASE Abort
  BY <1>2, <1>8, AbortInv DEF Abort
<1>9. CASE UNCHANGED storeVars
  <2>1. UNCHANGED store /\ tx' = tx
    BY <1>9 DEF storeVars, store
  <2>2. tx' \in TxRecords \cup {NoTx} /\ TxOK'
    BY <2>1 DEF StoreInv, StoreTypeOK, TxOK, ApplyOK, AuthorOK, store
  <2>3. QED
    BY <1>2, <2>1, <2>2, InsideTx
<1>10. QED
  BY <1>3, <1>4, <1>5, <1>6, <1>7, <1>8, <1>9 DEF StoreNext

THEOREM StoreInvariant == StoreSpec => []StoreInv
<1>1. StoreInv /\ [StoreNext]_storeVars => StoreInv'
  BY StepInv
<1>2. QED
  BY InitStoreInv, <1>1, PTL DEF StoreSpec

(* The store's variables keep their types. *)
THEOREM StoreTypeCorrect == StoreSpec => []StoreTypeOK
<1>1. StoreInv => StoreTypeOK
  BY DEF StoreInv
<1>2. QED
  BY <1>1, StoreInvariant, PTL

(* However often and in whatever order batches are resent, aborted and
   interleaved with the server's own writes: the changelog never holds an op
   identity twice, the mirror is the last-writer-wins merge of it,
   accepted_through never passes an op_seq that was neither logged nor
   refused, and the server's own op_seqs have no gap and no repeat. *)
THEOREM StoreIsSoundHolds == StoreSpec => []StoreIsSound
<1>1. StoreInv => StoreIsSound
  BY DEF StoreInv, StoreIsSound
<1>2. QED
  BY <1>1, StoreInvariant, PTL

(* No step takes an op out of the changelog, reorders it, or lowers a
   device's accepted_through. *)
THEOREM OnlyGrowsHolds == StoreSpec => OnlyGrows
<1>1. ASSUME StoreInv, StoreInv', [StoreNext]_storeVars
      PROVE  /\ Len(log) <= Len(log') /\ log = SubSeq(log', 1, Len(log))
             /\ \A d \in Devices : acked[d] <= acked'[d]
  <2>1. Extends(log', log) /\ \A d \in Devices : acked[d] <= acked'[d]
    BY <1>1, StepInv
  <2>2. log \in Seq(Ops) /\ log' \in Seq(Ops)
    BY <1>1 DEF StoreInv, StoreTypeOK
  <2>3. log = SubSeq(log', 1, Len(log))
    BY <2>1, <2>2, ExtendsLogOps
  <2>4. QED
    BY <2>1, <2>3 DEF Extends
<1>2. QED
  BY <1>1, StoreInvariant, PTL DEF StoreSpec, OnlyGrows

(***************************************************************************)
(* The store implements SyncMerge, the grow-only set of ops with its       *)
(* merged table: a COMMIT is one Observe step, all the rest is invisible.  *)
(***************************************************************************)
LEMMA InitRefines == StoreInit => Merge!Init
BY DEF StoreInit, Merge!Init, LogOps

LEMMA StepRefines ==
    ASSUME StoreInv, StoreInv', Extends(log', log)
    PROVE  Merge!Observe
<1>1. log \in Seq(Ops) /\ log' \in Seq(Ops) /\ mirror' \in [Rows -> Ops \cup {NoRow}]
  BY DEF StoreInv, StoreTypeOK
<1>2. LogOps(log) \subseteq LogOps(log') /\ LogOps(log') \subseteq Ops
  BY <1>1, ExtendsLogOps, LogOpsType
<1>3. IsMerge(mirror', LogOps(log'))
  BY DEF StoreInv, MirrorIsMerge
<1>4. \A a, b \in LogOps(log') : SameOp(a, b) => a = b
  BY DEF StoreInv, NoDuplicates, LogOps
<1>5. mirror' \in [Rows -> LogOps(log') \cup {NoRow}]
  BY <1>1, <1>3 DEF IsMerge
<1>6. LogOps(log)' = LogOps(log')
  BY DEF LogOps
<1>7. Merge!IsMerge(mirror', LogOps(log'))
  BY <1>3 DEF IsMerge, Less, Merge!IsMerge, Merge!Less
<1>8. Merge!Ops = Ops /\ \A a, b \in LogOps(log') : Merge!SameOp(a, b) => a = b
  BY <1>4 DEF Ops, SameOp, Merge!Ops, Merge!SameOp, Merge!Sites
<1>9. QED
  BY <1>2, <1>5, <1>6, <1>7, <1>8 DEF Merge!Observe

THEOREM StoreImplementsMerge == StoreSpec => ImplementsMerge
<1>1. StoreInv /\ StoreInv' /\ [StoreNext]_storeVars
        => [Merge!Observe]_<<LogOps(log), mirror>>
  BY StepInv, StepRefines
<1>2. QED
  BY InitRefines, StoreInvariant, <1>1, PTL DEF StoreSpec, ImplementsMerge, Merge!Spec
-----------------------------------------------------------------------------
(***************************************************************************)
(* Two facts about the natural numbers, which stand in for induction.      *)
(***************************************************************************)

(* A set of natural numbers that is not empty has a least element. *)
LEMMA Least ==
    ASSUME NEW T, T \subseteq Nat, T # {}
    PROVE  \E x \in T : \A y \in T : x <= y
<1> DEFINE R == {ss \in Nat \X Nat : ss[1] < ss[2]}
<1>1. IsWellFoundedOn(R, Nat)
  BY NatLessThanWellFounded DEF OpToRel
<1>2. \A x, y \in Nat : <<y, x>> \in R <=> y < x
  OBVIOUS
<1> HIDE DEF R
<1>3. PICK x \in T : \A y \in T : ~(<<y, x>> \in R)
  BY <1>1, WFMin
<1>4. ASSUME NEW y \in T PROVE x <= y
  <2>1. x \in Nat /\ y \in Nat
    OBVIOUS
  <2>2. ~(y < x)
    BY <1>2, <1>3, <2>1
  <2>3. QED
    BY <2>1, <2>2
<1>5. QED
  BY <1>4

(* A set that holds 0, and with each number below N the next one, holds all
   the numbers up to N. *)
LEMMA Upto ==
    ASSUME NEW S, NEW N \in Nat, 0 \in S, \A n \in 1 .. N : n - 1 \in S => n \in S
    PROVE  0 .. N \subseteq S
<1> DEFINE T == {n \in 0 .. N : n \notin S}
<1> SUFFICES ASSUME T # {} PROVE FALSE
  OBVIOUS
<1>1. PICK n \in T : \A k \in T : n <= k
  BY Least, T \subseteq Nat
<1>2. n \in 1 .. N /\ n - 1 \notin T
  BY <1>1
<1>3. QED
  BY <1>1, <1>2

(* A set of numbers with an upper bound in it has a greatest element. *)
LEMMA Greatest ==
    ASSUME NEW T, NEW N \in Nat, T \subseteq 0 .. N, T # {}
    PROVE  \E x \in T : \A y \in T : y <= x
<1> DEFINE C == {N - x : x \in T}
<1>1. C \subseteq Nat /\ C # {}
  <2>1. \A x \in T : N - x \in Nat
    OBVIOUS
  <2>2. QED
    BY <2>1
<1>2. PICK c \in C : \A y \in C : c <= y
  BY <1>1, Least
<1>3. PICK x \in T : c = N - x
  OBVIOUS
<1>4. \A y \in T : N - x <= N - y
  BY <1>2, <1>3
<1>5. QED
  BY <1>4

(* How each of N values follows from the one before, and the sequences of
   values that start at a and go on as G says. *)
Steps(N, V) == [1 .. N -> [V -> V]]

Runs(N, V, a, G) ==
    {g \in [0 .. N -> V] : g[0] = a /\ \A k \in 1 .. N : g[k] = G[k][g[k - 1]]}

(* A function on 0 .. N may be defined by its value at 0 and how each value
   follows from the one before. *)
LEMMA Recursion ==
    ASSUME NEW N \in Nat, NEW V, NEW a \in V, NEW G \in Steps(N, V)
    PROVE  Runs(N, V, a, G) # {}
<1> USE DEF Steps
<1> DEFINE IsRun(g, n) == /\ g \in [0 .. n -> V]
                          /\ g[0] = a
                          /\ \A k \in 1 .. n : g[k] = G[k][g[k - 1]]
           Sizes == {n \in 0 .. N : \E g : IsRun(g, n)}
<1>1. 0 \in Sizes
  <2>1. IsRun([k \in 0 .. 0 |-> a], 0)
    OBVIOUS
  <2> HIDE DEF IsRun
  <2>2. QED
    BY <2>1
<1>2. ASSUME NEW n \in 1 .. N, n - 1 \in Sizes PROVE n \in Sizes
  <2>1. PICK g : IsRun(g, n - 1)
    BY <1>2
  <2> DEFINE h == [k \in 0 .. n |-> IF k = n THEN G[n][g[n - 1]] ELSE g[k]]
  <2>2. g[n - 1] \in V /\ G[n][g[n - 1]] \in V
    BY <2>1
  <2>3. h \in [0 .. n -> V] /\ h[0] = a
    BY <2>1, <2>2
  <2>4. ASSUME NEW k \in 1 .. n PROVE h[k] = G[k][h[k - 1]]
    <3>1. CASE k = n
      BY <3>1
    <3>2. CASE k # n
      BY <2>1, <3>2
    <3>3. QED
      BY <3>1, <3>2
  <2> HIDE DEF h
  <2>5. IsRun(h, n)
    BY <2>3, <2>4
  <2> HIDE DEF IsRun
  <2>6. QED
    BY <2>5
<1>3. N \in Sizes
  <2> HIDE DEF Sizes
  <2>1. 0 .. N \subseteq Sizes
    BY <1>1, <1>2, Upto
  <2>2. QED
    BY <2>1
<1>4. QED
  BY <1>3 DEF Runs

(***************************************************************************)
(* What the operators of the protocol compute.                             *)
(***************************************************************************)
(* Taking the first op away leaves the others. *)
LEMMA LogOpsTail ==
    ASSUME NEW s \in Seq(Ops), s # <<>>
    PROVE  Head(s) \in Ops /\ Tail(s) \in Seq(Ops) /\ LogOps(s) = {Head(s)} \cup LogOps(Tail(s))
<1>1. Head(s) = s[1] /\ Head(s) \in Ops /\ Tail(s) \in Seq(Ops) /\ Len(Tail(s)) = Len(s) - 1
  OBVIOUS
<1>2. \A i \in 1 .. Len(Tail(s)) : Tail(s)[i] = s[i + 1]
  OBVIOUS
<1>3. ASSUME NEW i \in 1 .. Len(s) PROVE s[i] \in {Head(s)} \cup LogOps(Tail(s))
  <2>1. CASE i = 1
    BY <1>1, <2>1
  <2>2. CASE i # 1
    <3>1. i - 1 \in 1 .. Len(Tail(s)) /\ Tail(s)[i - 1] = s[i]
      BY <1>1, <1>2, <2>2
    <3>2. QED
      BY <3>1 DEF LogOps
  <2>3. QED
    BY <2>1, <2>2
<1>4. {Head(s)} \cup LogOps(Tail(s)) \subseteq LogOps(s)
  <2>1. \A i \in 1 .. Len(Tail(s)) : i + 1 \in 1 .. Len(s) /\ Tail(s)[i] = s[i + 1]
    BY <1>1, <1>2
  <2>2. 1 \in 1 .. Len(s) /\ Head(s) = s[1]
    BY <1>1
  <2>3. QED
    BY <2>1, <2>2 DEF LogOps
<1>5. QED
  BY <1>1, <1>3, <1>4 DEF LogOps

(* The ops a device sends are those of its outbox above its water that it
   has not quarantined. *)
LEMMA PendingIs ==
    ASSUME NEW d \in Devices, outbox \in [Devices -> Seq(Ops)]
    PROVE  /\ Pending(d) \in Seq(Ops)
           /\ LogOps(Pending(d)) =
                {outbox[d][n] : n \in {k \in 1 .. Len(outbox[d]) :
                                         k > settled[d] /\ k \notin dropped[d]}}
<1> DEFINE N == Len(outbox[d])
           Sent(k) == k > settled[d] /\ k \notin dropped[d]
           Kept(n) == {outbox[d][k] : k \in {j \in 1 .. n : Sent(j)}}
           G == [k \in 1 .. N |-> [s \in Seq(Ops) |->
                   IF Sent(k) THEN Append(s, outbox[d][k]) ELSE s]]
           Rec(f) == [n \in 0 .. N |-> IF n = 0 THEN <<>>
                       ELSE IF n > settled[d] /\ n \notin dropped[d]
                            THEN Append(f[n - 1], outbox[d][n]) ELSE f[n - 1]]
           p == CHOOSE f : f = Rec(f)
<1>1. N \in Nat /\ \A k \in 1 .. N : outbox[d][k] \in Ops
  OBVIOUS
<1>2. Pending(d) = p[N]
  BY DEF Pending
<1>3. G \in [1 .. N -> [Seq(Ops) -> Seq(Ops)]]
  BY <1>1
<1>4. \A k \in 1 .. N : \A s \in Seq(Ops) :
         G[k][s] = IF Sent(k) THEN Append(s, outbox[d][k]) ELSE s
  OBVIOUS
<1> HIDE DEF N, G
<1>5. PICK g \in [0 .. N -> Seq(Ops)] :
         g[0] = <<>> /\ \A k \in 1 .. N : g[k] = G[k][g[k - 1]]
  <2>1. <<>> \in Seq(Ops)
    OBVIOUS
  <2>2. G \in Steps(N, Seq(Ops))
    BY <1>3 DEF Steps
  <2>3. Runs(N, Seq(Ops), <<>>, G) # {}
    BY <1>1, <2>1, <2>2, Recursion
  <2>4. QED
    BY <2>3 DEF Runs
<1>6. g = Rec(g)
  <2>1. ASSUME NEW n \in 0 .. N PROVE g[n] = Rec(g)[n]
    <3>1. CASE n = 0
      BY <1>5, <3>1
    <3>2. CASE n # 0
      <4>1. n \in 1 .. N /\ g[n - 1] \in Seq(Ops)
        BY <1>1, <1>5, <3>2
      <4>2. QED
        BY <1>4, <1>5, <3>2, <4>1
    <3>3. QED
      BY <3>1, <3>2
  <2>2. QED
    BY <1>5, <2>1
<1>7. p = Rec(p)
  BY <1>6
<1> HIDE DEF p
<1>8. p[0] = <<>> /\ \A n \in 1 .. N : p[n] = IF Sent(n) THEN Append(p[n - 1], outbox[d][n])
                                                       ELSE p[n - 1]
  <2>1. \A n \in 0 .. N : p[n] = Rec(p)[n]
    BY <1>7
  <2>2. QED
    BY <1>1, <2>1
<1> DEFINE Right == {n \in 0 .. N : p[n] \in Seq(Ops) /\ LogOps(p[n]) = Kept(n)}
<1>9. 0 \in Right
  <2>1. LogOps(<<>>) = {}
    BY DEF LogOps
  <2>2. Kept(0) = {}
    OBVIOUS
  <2>3. 0 \in 0 .. N /\ p[0] \in Seq(Ops)
    BY <1>1, <1>8
  <2>4. LogOps(p[0]) = Kept(0)
    BY <1>8, <2>1, <2>2
  <2>5. QED
    BY <2>3, <2>4
<1>10. ASSUME NEW n \in 1 .. N, n - 1 \in Right PROVE n \in Right
  <2>1. p[n - 1] \in Seq(Ops) /\ LogOps(p[n - 1]) = Kept(n - 1)
    BY <1>10
  <2>2. 1 .. n = (1 .. n - 1) \cup {n} /\ n \in 0 .. N /\ outbox[d][n] \in Ops
    BY <1>1
  <2>3. CASE Sent(n)
    <3>1. p[n] = Append(p[n - 1], outbox[d][n])
      BY <1>8, <2>3
    <3>2. p[n] \in Seq(Ops) /\ LogOps(p[n]) = Kept(n - 1) \cup {outbox[d][n]}
      BY <2>1, <2>2, <3>1, LogOpsAppend
    <3>3. Kept(n) = Kept(n - 1) \cup {outbox[d][n]}
      BY <2>2, <2>3
    <3> HIDE DEF Kept
    <3>4. QED
      BY <2>2, <3>2, <3>3
  <2>4. CASE ~Sent(n)
    <3>1. Kept(n) = Kept(n - 1)
      BY <2>2, <2>4
    <3>2. p[n] = p[n - 1]
      BY <1>8, <2>4
    <3> HIDE DEF Kept
    <3>3. QED
      BY <2>1, <2>2, <3>1, <3>2
  <2>5. QED
    BY <2>3, <2>4
<1> HIDE DEF Right
<1>11. 0 .. N \subseteq Right
  BY <1>1, <1>9, <1>10, Upto
<1>12. N \in Right
  BY <1>1, <1>11
<1>13. QED
  BY <1>2, <1>12 DEF Right, N

(* Merging ops of the changelog in their order, none of which the rows have
   seen yet, gives the merge of what the rows had and these ops. *)
LEMMA RelayedIs ==
    ASSUME NEW m \in [Rows -> Ops \cup {NoRow}], NEW S \in SUBSET Ops, IsMerge(m, S),
           NEW seqs, seqs \subseteq 1 .. Len(log), log \in Seq(Ops), NoDuplicates,
           \A i \in seqs : \A o \in S : ~SameOp(o, log[i])
    PROVE  /\ Relayed(m, seqs) \in [Rows -> Ops \cup {NoRow}]
           /\ IsMerge(Relayed(m, seqs), S \cup {log[i] : i \in seqs})
<1> DEFINE N == Len(log)
           Tables == [Rows -> Ops \cup {NoRow}]
           Seen(n) == S \cup {log[i] : i \in {j \in seqs : j <= n}}
           G == [k \in 1 .. N |-> [t \in Tables |->
                   IF k \in seqs THEN Merged(t, log[k]) ELSE t]]
           Rec(f) == [n \in 0 .. N |-> IF n = 0 THEN m
                       ELSE IF n \in seqs THEN Merged(f[n - 1], log[n]) ELSE f[n - 1]]
           p == CHOOSE f : f = Rec(f)
<1>1. N \in Nat /\ \A k \in 1 .. N : log[k] \in Ops
  OBVIOUS
<1>0. \A j \in seqs : j \in Int /\ 1 <= j /\ j <= N
  OBVIOUS
<1>2. Relayed(m, seqs) = p[N]
  BY DEF Relayed
<1>3. \A k \in 1 .. N : \A t \in Tables : Merged(t, log[k]) \in Tables
  <2>1. ASSUME NEW k \in 1 .. N, NEW t \in Tables PROVE Merged(t, log[k]) \in Tables
    <3>1. log[k] \in Ops /\ log[k].row \in Rows
      BY <1>1 DEF Ops
    <3>2. QED
      BY <3>1 DEF Merged
  <2>2. QED
    BY <2>1
<1>4. G \in Steps(N, Tables)
  <2> HIDE DEF Tables, N
  <2>1. QED
    BY <1>3 DEF Steps
<1>5. \A k \in 1 .. N : \A t \in Tables :
         G[k][t] = IF k \in seqs THEN Merged(t, log[k]) ELSE t
  OBVIOUS
<1>6. m \in Tables
  OBVIOUS
<1> HIDE DEF N, G, Tables
<1>7. PICK g \in [0 .. N -> Tables] :
         g[0] = m /\ \A k \in 1 .. N : g[k] = G[k][g[k - 1]]
  <2>1. Runs(N, Tables, m, G) # {}
    BY <1>1, <1>4, <1>6, Recursion
  <2>2. QED
    BY <2>1 DEF Runs
<1>8. g = Rec(g)
  <2>1. ASSUME NEW n \in 0 .. N PROVE g[n] = Rec(g)[n]
    <3>1. CASE n = 0
      BY <1>7, <3>1
    <3>2. CASE n # 0
      <4>1. n \in 1 .. N /\ g[n - 1] \in Tables
        BY <1>1, <1>7, <3>2
      <4>2. QED
        BY <1>5, <1>7, <3>2, <4>1
    <3>3. QED
      BY <3>1, <3>2
  <2>2. QED
    BY <1>7, <2>1
<1>9. p = Rec(p)
  BY <1>8
<1> HIDE DEF p
<1>10. p[0] = m /\ \A n \in 1 .. N : p[n] = IF n \in seqs THEN Merged(p[n - 1], log[n])
                                            ELSE p[n - 1]
  <2>1. \A n \in 0 .. N : p[n] = Rec(p)[n]
    BY <1>9
  <2>2. QED
    BY <1>1, <2>1
<1> DEFINE Right == {n \in 0 .. N : p[n] \in Tables /\ IsMerge(p[n], Seen(n))}
<1>11. 0 \in Right
  <2>1. Seen(0) = S
    <3>1. ASSUME NEW j \in seqs PROVE ~(j <= 0)
      BY <1>0
    <3>2. {j \in seqs : j <= 0} = {}
      BY <3>1
    <3>3. QED
      BY <3>2
  <2>2. 0 \in 0 .. N /\ p[0] \in Tables
    BY <1>1, <1>6, <1>10
  <2>3. IsMerge(p[0], Seen(0))
    BY <1>10, <2>1
  <2>4. QED
    BY <2>2, <2>3
<1>12. ASSUME NEW n \in 1 .. N, n - 1 \in Right PROVE n \in Right
  <2>1. p[n - 1] \in Tables /\ IsMerge(p[n - 1], Seen(n - 1))
    BY <1>12
  <2>2. n \in 0 .. N /\ log[n] \in Ops
    BY <1>1
  <2>3. CASE n \in seqs
    <3>1. Seen(n) = Seen(n - 1) \cup {log[n]}
      <4>1. {j \in seqs : j <= n} = {j \in seqs : j <= n - 1} \cup {n}
        BY <1>0, <1>1, <2>3
      <4>2. QED
        BY <4>1
    <3>2. Seen(n - 1) \in SUBSET Ops
      <4>1. \A i \in seqs : log[i] \in Ops
        BY <1>1 DEF N
      <4>2. QED
        BY <4>1
    <3>3. \A o \in Seen(n - 1) : ~SameOp(o, log[n])
      <4>1. ASSUME NEW i \in seqs, i <= n - 1 PROVE ~SameOp(log[i], log[n])
        <5>1. i # n /\ i \in 1 .. Len(log) /\ n \in 1 .. Len(log)
          BY <4>1, <2>3
        <5>2. QED
          BY <5>1 DEF NoDuplicates
      <4>2. QED
        BY <2>3, <4>1
    <3> HIDE DEF Seen
    <3>4. /\ Merged(p[n - 1], log[n]) \in Tables
          /\ IsMerge(Merged(p[n - 1], log[n]), Seen(n - 1) \cup {log[n]})
      BY <2>1, <2>2, <3>2, <3>3, MergeOne DEF Tables
    <3>5. QED
      BY <1>10, <2>2, <2>3, <3>1, <3>4
  <2>4. CASE n \notin seqs
    <3>1. Seen(n) = Seen(n - 1)
      <4>1. ASSUME NEW j \in seqs PROVE j <= n <=> j <= n - 1
        <5>1. j \in Int /\ n \in Int /\ j # n
          BY <1>0, <1>1, <2>4
        <5>2. QED
          BY <5>1
      <4>2. {j \in seqs : j <= n} = {j \in seqs : j <= n - 1}
        BY <4>1
      <4>3. QED
        BY <4>2
    <3>2. p[n] = p[n - 1]
      BY <1>10, <2>4
    <3> HIDE DEF Seen
    <3>3. QED
      BY <2>1, <2>2, <3>1, <3>2
  <2>5. QED
    BY <2>3, <2>4
<1>13. Seen(N) = S \cup {log[i] : i \in seqs}
  <2>1. {j \in seqs : j <= N} = seqs
    BY <1>0
  <2>2. QED
    BY <2>1
<1>14. N \in Right
  <2> HIDE DEF Right
  <2>1. 0 .. N \subseteq Right
    BY <1>1, <1>11, <1>12, Upto
  <2>2. QED
    BY <1>1, <2>1
<1> HIDE DEF Seen
<1>15. p[N] \in Tables /\ IsMerge(p[N], Seen(N))
  BY <1>14
<1>16. QED
  BY <1>2, <1>13, <1>15 DEF Tables

(* A page is all that the changelog holds for the device between the old
   cursor and the new one. *)
LEMMA OpsSinceIs ==
    ASSUME log \in Seq(Ops), NEW since \in 0 .. Len(log), NEW s
    PROVE  /\ OpsSince(since, s).cursor \in since .. Len(log)
           /\ OpsSince(since, s).seqs =
                {i \in since + 1 .. OpsSince(since, s).cursor : log[i].site # s}
<1> DEFINE above == RelaySeqs(since, s)
           page == Page(since, s)
           Before(i) == {j \in above : j < i}
           c == OpsSince(since, s).cursor
<1>1. Len(log) \in Nat /\ above \subseteq since + 1 .. Len(log) /\ page \subseteq above
  BY DEF RelaySeqs, Page
<1>2. OpsSince(since, s).seqs = page
  BY DEF OpsSince
<1>3. CASE page = {}
  <2>1. c = since
    BY <1>3 DEF OpsSince
  <2>2. QED
    BY <1>1, <1>2, <1>3, <2>1
<1>4. CASE page # {}
  <2>1. c = CHOOSE i \in page : \A j \in page : j <= i
    BY <1>4 DEF OpsSince
  <2>2. \E i \in page : \A j \in page : j <= i
    <3>1. page \subseteq 0 .. Len(log)
      BY <1>1
    <3> HIDE DEF page
    <3>2. QED
      BY <1>1, <1>4, <3>1, Greatest
  <2>3. c \in page /\ \A j \in page : j <= c
    BY <2>1, <2>2
  <2>4. ASSUME NEW i \in above, i <= c PROVE i \in page
    <3>1. IsFiniteSet(Before(c)) /\ Before(i) \subseteq Before(c)
      <4>1. Before(c) \subseteq 0 .. Len(log)
        BY <1>1
      <4>2. IsFiniteSet(0 .. Len(log))
        BY <1>1, FS_Interval
      <4>3. QED
        BY <1>1, <2>3, <2>4, <4>1, <4>2, FS_Subset
    <3>2. /\ Cardinality(Before(i)) <= Cardinality(Before(c))
          /\ Cardinality(Before(i)) \in Nat /\ Cardinality(Before(c)) \in Nat
      BY <3>1, FS_Subset, FS_CardinalityType
    <3>3. Cardinality(Before(c)) < BatchLimit
      BY <2>3 DEF Page
    <3>4. Cardinality(Before(i)) < BatchLimit
      BY <3>2, <3>3, ProtocolAssumption
    <3>5. QED
      BY <3>4 DEF Page
  <2>5. c \in since .. Len(log)
    BY <1>1, <2>3
  <2>6. above = {i \in since + 1 .. Len(log) : log[i].site # s}
    BY DEF RelaySeqs
  <2> HIDE DEF page, above, c
  <2>7. ASSUME NEW i \in since + 1 .. c, log[i].site # s PROVE i \in page
    <3>1. i \in above /\ i <= c
      BY <1>1, <2>5, <2>6, <2>7
    <3>2. QED
      BY <2>4, <3>1
  <2>8. ASSUME NEW i \in page PROVE i \in since + 1 .. c /\ log[i].site # s
    <3>1. i \in above /\ i <= c
      BY <1>1, <2>3
    <3>2. i \in since + 1 .. Len(log) /\ log[i].site # s
      BY <2>6, <3>1
    <3>3. QED
      BY <1>1, <2>5, <3>1, <3>2
  <2>9. page = {i \in since + 1 .. c : log[i].site # s}
    BY <2>7, <2>8
  <2>10. QED
    BY <1>2, <2>5, <2>9 DEF c
<1>5. QED
  BY <1>3, <1>4

(***************************************************************************)
(* The inductive invariant.  NoSilentLoss is kept by an answer if the      *)
(* answer tells all (AnswersTellAll).  What the water has passed at a      *)
(* commit may include ops refused in an earlier call whose answer was      *)
(* lost: the device learns of them because its present call brings them    *)
(* again (CallsResend) and the transaction deals with every op of the call *)
(* once more (ServedIsDone).  All of it needs that an answer which is      *)
(* heard is that of the device's only call (OneLive), so that nothing it   *)
(* says is out of date.                                                    *)
(***************************************************************************)

(* The requests whose batch is not committed. *)
Calls == net \cup Served

(* The op_seqs of a sequence of ops. *)
OpSeqs(ops) == {o.opSeq : o \in LogOps(ops)}

(* A device's own ops are numbered without a gap, and none was refused that
   it did not write. *)
OutboxIsOwn ==
    \A d \in Devices :
        /\ \A n \in 1 .. Len(outbox[d]) : outbox[d][n].site = d /\ outbox[d][n].opSeq = n
        /\ refused[d] \subseteq 1 .. Len(outbox[d])

(* Calls hold ops of their device's outbox. *)
CallsAreOwn ==
    \A q \in Calls :
        /\ \A o \in LogOps(q.ops) : o.site = q.site
        /\ OpSeqs(q.ops) \subseteq 1 .. Len(outbox[q.site])

(* A device that waits has exactly one live call, which is in one place and
   was made with the cursor the device still has. *)
OneLive ==
    /\ \A q \in Calls \cup pulling :
          q.live => q.site \in waiting /\ q.cursor = cursor[q.site]
    /\ \A q, p \in Calls : q.live /\ p.live /\ q.site = p.site => q = p
    /\ \A q, p \in pulling : q.live /\ p.live /\ q.site = p.site => q = p
    /\ \A q \in Calls, p \in pulling : q.live /\ p.live => q.site # p.site
    /\ \A q \in net \cap Served : ~q.live
    /\ \A d \in waiting : \E q \in Calls \cup pulling : q.live /\ q.site = d

(* The open transaction of a request: each of its ops is still to be done,
   in the transaction's changelog, or refused. *)
ServedIsDone ==
    /\ tx # NoTx /\ tx.site \in Devices <=> serving # Idle
    /\ serving # Idle =>
          /\ tx.site = serving.site
          /\ \A o \in LogOps(tx.todo) : o.site = tx.site
          /\ OpSeqs(tx.todo) \cup tx.rejected \subseteq OpSeqs(serving.ops)
          /\ OpSeqs(serving.ops) \subseteq
                OpSeqs(tx.todo) \cup Logged(tx.log, tx.site) \cup tx.rejected

(* A live call carries again every op that was refused in a call that got no
   answer, or that may still be refused in one. *)
CallsResend ==
    \A q \in Calls : q.live =>
        /\ \A n \in refused[q.site] :
              n <= settled[q.site] \/ n \in dropped[q.site] \cup OpSeqs(q.ops)
        /\ \A p \in Calls : p.site = q.site =>
              \A n \in OpSeqs(p.ops) :
                  n <= settled[q.site] \/ n \in dropped[q.site] \cup OpSeqs(q.ops)

(* A live answer says of every op_seq it settles what became of it. *)
AnswersTellAll ==
    \A q \in pulling : q.live =>
        \A n \in 1 .. q.accepted : n \in dropped[q.site] \cup Logged(log, q.site) \cup q.rejected

(* Types, and no cursor past the end of the changelog. *)
Types ==
    /\ outbox \in [Devices -> Seq(Ops)]
    /\ settled \in [Devices -> Nat]
    /\ dropped \in [Devices -> SUBSET Nat]
    /\ replica \in [Devices -> [Rows -> Ops \cup {NoRow}]]
    /\ cursor \in [Devices -> Nat]
    /\ \A d \in Devices : cursor[d] <= Len(log)
    /\ waiting \subseteq Devices
    /\ net \subseteq Requests
    /\ serving \in Requests \cup {Idle}
    /\ pulling \subseteq Responses
    /\ faults \in 0 .. MaxFaults

(* The whole. *)
Inv ==
    /\ StoreInv
    /\ Types
    /\ OutboxIsOwn
    /\ CallsAreOwn
    /\ OneLive
    /\ ServedIsDone
    /\ CallsResend
    /\ AnswersTellAll
    /\ NoSilentLoss
    /\ ReplicaIsMerge

(***************************************************************************)
(* The store's side of every step.                                         *)
(***************************************************************************)

(* Whatever the protocol does is a step of the store or leaves it alone. *)
LEMMA StoreStep ==
    ASSUME Inv, [Next]_vars
    PROVE  [StoreNext]_storeVars
<1> USE DEF Inv, Types
<1>1. ASSUME NEW d \in Devices, NEW r \in Rows, NEW now \in Times, NEW cols \in Payloads[d],
             LocalWrite(d, r, now, cols)
      PROVE  UNCHANGED storeVars
  BY <1>1 DEF LocalWrite
<1>2. ASSUME NEW d \in Devices, Send(d) \/ Timeout(d) PROVE UNCHANGED storeVars
  BY <1>2 DEF Send, Timeout
<1>3. ASSUME NEW req \in net, Serve(req) PROVE StoreNext
  <2>1. req.site \in Devices /\ req.ops \in Seq(Ops)
    BY DEF Requests
  <2>2. QED
    BY <1>3, <2>1 DEF Serve, StoreNext
<1>4. ASSUME tx # NoTx, tx.todo # <<>>, Step(Head(tx.todo)) \/ MergeFault(Head(tx.todo))
      PROVE  StoreNext
  <2>1. tx \in TxRecords
    BY <1>4 DEF StoreInv, StoreTypeOK
  <2>2. Head(tx.todo) \in Ops
    BY <1>4, <2>1 DEF TxRecords
  <2>3. QED
    BY <1>4, <2>2 DEF Step, MergeFault, StoreNext, ApplyOne
<1>5. ASSUME NEW r \in Rows, NEW cols \in Cols, NEW now \in Times,
             Author(<<[row |-> r, cols |-> cols]>>, now)
      PROVE  StoreNext
  <2>1. now \in Nat
    BY ProtocolAssumption
  <2>2. <<[row |-> r, cols |-> cols]>> \in Seq([row : Rows, cols : Cols])
    OBVIOUS
  <2>3. QED
    BY <1>5, <2>1, <2>2 DEF Author, StoreNext
<1>6. CASE Commit
  BY <1>6 DEF Commit, StoreNext
<1>7. CASE FinishAuthor
  BY <1>7 DEF FinishAuthor, StoreNext
<1>8. ASSUME NEW q \in pulling, Respond(q) \/ FailPull(q) PROVE UNCHANGED storeVars
  BY <1>8 DEF Respond, FailPull
<1>9. ASSUME NEW req \in net, Lose(req) PROVE UNCHANGED storeVars
  BY <1>9 DEF Lose
<1>10. CASE RollBack
  BY <1>10 DEF RollBack, StoreNext
<1>11. CASE Crash
  BY <1>11 DEF Crash, StoreNext, Abort, store, storeVars
<1>12. CASE UNCHANGED vars
  BY <1>12 DEF vars, storeVars
<1>13. QED
  BY <1>1, <1>2, <1>3, <1>4, <1>5, <1>6, <1>7, <1>8, <1>9, <1>10, <1>11, <1>12 DEF Next

(* So the store's invariant is kept and its changelog only grows. *)
LEMMA StoreGrows ==
    ASSUME Inv, [Next]_vars
    PROVE  /\ StoreInv'
           /\ log \in Seq(Ops) /\ log' \in Seq(Ops)
           /\ Len(log) <= Len(log') /\ \A i \in 1 .. Len(log) : log'[i] = log[i]
           /\ \A s : Logged(log, s) \subseteq Logged(log', s)
<1>1. StoreInv' /\ Extends(log', log)
  BY StoreStep, StepInv DEF Inv
<1>2. log \in Seq(Ops) /\ log' \in Seq(Ops)
  BY <1>1 DEF Inv, StoreInv, StoreTypeOK
<1>3. LogOps(log) \subseteq LogOps(log')
  BY <1>1, <1>2, ExtendsLogOps
<1>4. \A s : Logged(log, s) \subseteq Logged(log', s)
  BY <1>2, <1>3, LoggedMonotonic
<1>5. QED
  BY <1>1, <1>2, <1>4 DEF Extends

(***************************************************************************)
(* What a step does to the calls and the answers.                          *)
(***************************************************************************)

(* Giving up on a call changes nothing in it but that it is not live. *)
LEMMA AbandonRequest ==
    ASSUME NEW d \in Devices, NEW q \in Requests
    PROVE  /\ Abandon(d, q) \in Requests
           /\ Abandon(d, q).site = q.site /\ Abandon(d, q).ops = q.ops
           /\ q.site # d => Abandon(d, q) = q
           /\ q.site = d => ~Abandon(d, q).live
BY DEF Abandon, Requests

(* ... nor in an answer. *)
LEMMA AbandonResponse ==
    ASSUME NEW d \in Devices, NEW q \in Responses
    PROVE  /\ Abandon(d, q) \in Responses
           /\ Abandon(d, q).site = q.site
           /\ q.site # d => Abandon(d, q) = q
           /\ q.site = d => ~Abandon(d, q).live
BY DEF Abandon, Responses

(* A request carries what PendingIs says. *)
LEMMA RequestIs ==
    ASSUME Types, NEW d \in Devices
    PROVE  /\ Request(d) \in Requests
           /\ Request(d).site = d /\ Request(d).cursor = cursor[d] /\ Request(d).live
           /\ LogOps(Request(d).ops) =
                {outbox[d][n] : n \in {k \in 1 .. Len(outbox[d]) :
                                         k > settled[d] /\ k \notin dropped[d]}}
<1>1. Pending(d) \in Seq(Ops) /\ cursor[d] \in Nat
  BY PendingIs DEF Types
<1>2. QED
  BY <1>1, PendingIs DEF Request, Requests, Types

(* A call after the step is a call from before it, the remains of one that
   was given up, or the one just made. *)
LEMMA CallsMove ==
    ASSUME Types, [Next]_vars, NEW q \in Calls'
    PROVE  \/ q \in Calls
           \/ q \in Requests /\ ~q.live /\ \E p \in Calls : q.site = p.site /\ q.ops = p.ops
           \/ \E d \in Devices : Send(d) /\ q = Request(d)
<1> DEFINE Goal == \/ q \in Calls
                   \/ /\ q \in Requests /\ ~q.live
                      /\ \E p \in Calls : q.site = p.site /\ q.ops = p.ops
                   \/ \E d \in Devices : Send(d) /\ q = Request(d)
<1>1. Calls \subseteq Requests
  BY DEF Types, Calls, Served
<1>2. CASE net' \subseteq net /\ serving' \in net \cup {serving, Idle}
  BY <1>2 DEF Calls, Served
<1>3. ASSUME NEW d \in Devices, Send(d) PROVE Goal
  BY <1>3 DEF Send, Calls, Served
<1>4. ASSUME NEW d \in Devices, Timeout(d) PROVE Goal
  <2>1. PICK p \in Calls : q = Abandon(d, p)
    BY <1>4 DEF Timeout, Calls, Served
  <2>2. p \in Requests
    BY <1>1
  <2>3. CASE p.site = d
    BY <2>1, <2>2, <2>3, AbandonRequest
  <2>4. CASE p.site # d
    BY <2>1, <2>2, <2>4, AbandonRequest
  <2>5. QED
    BY <2>3, <2>4
<1>5. ASSUME NEW d \in Devices, NEW r \in Rows, NEW now \in Times, NEW cols \in Payloads[d],
             LocalWrite(d, r, now, cols)
      PROVE  Goal
  BY <1>2, <1>5 DEF LocalWrite
<1>6. ASSUME NEW req \in net, Serve(req) \/ Lose(req) PROVE Goal
  BY <1>2, <1>6 DEF Serve, Lose
<1>7. ASSUME tx # NoTx, tx.todo # <<>>, Step(Head(tx.todo)) \/ MergeFault(Head(tx.todo))
      PROVE  Goal
  BY <1>2, <1>7 DEF Step, MergeFault
<1>8. ASSUME NEW r \in Rows, NEW cols \in Cols, NEW now \in Times,
             Author(<<[row |-> r, cols |-> cols]>>, now)
      PROVE  Goal
  BY <1>2, <1>8 DEF Author
<1>9. ASSUME NEW p \in pulling, Respond(p) \/ FailPull(p) PROVE Goal
  BY <1>2, <1>9 DEF Respond, FailPull
<1>10. ASSUME Commit \/ FinishAuthor \/ RollBack \/ Crash \/ UNCHANGED vars PROVE Goal
  BY <1>2, <1>10 DEF Commit, FinishAuthor, RollBack, Crash, vars
<1>11. QED
  BY <1>3, <1>4, <1>5, <1>6, <1>7, <1>8, <1>9, <1>10 DEF Next

(* What a commit answers. *)
Answer ==
    [site |-> tx.site, cursor |-> serving.cursor, live |-> serving.live,
     accepted |-> acked'[tx.site], rejected |-> tx.rejected]

(* An answer after the step is one from before it, the remains of one that
   was given up, or that of the commit. *)
LEMMA AnswersMove ==
    ASSUME Types, [Next]_vars, NEW q \in pulling'
    PROVE  \/ q \in pulling
           \/ q \in Responses /\ ~q.live
           \/ Commit /\ q = Answer
<1> DEFINE Goal == \/ q \in pulling
                   \/ q \in Responses /\ ~q.live
                   \/ Commit /\ q = Answer
<1>1. CASE pulling' \subseteq pulling
  BY <1>1
<1>2. ASSUME NEW d \in Devices, Timeout(d) PROVE Goal
  <2>1. PICK p \in pulling : q = Abandon(d, p)
    BY <1>2 DEF Timeout
  <2>2. p \in Responses
    BY DEF Types
  <2>3. CASE p.site = d
    BY <2>1, <2>2, <2>3, AbandonResponse
  <2>4. CASE p.site # d
    BY <2>1, <2>2, <2>4, AbandonResponse
  <2>5. QED
    BY <2>3, <2>4
<1>3. ASSUME NEW d \in Devices, Send(d) PROVE Goal
  BY <1>1, <1>3 DEF Send
<1>4. CASE Commit
  BY <1>4 DEF Commit, Answer
<1>5. ASSUME NEW d \in Devices, NEW r \in Rows, NEW now \in Times, NEW cols \in Payloads[d],
             LocalWrite(d, r, now, cols)
      PROVE  Goal
  BY <1>1, <1>5 DEF LocalWrite
<1>6. ASSUME NEW req \in net, Serve(req) \/ Lose(req) PROVE Goal
  BY <1>1, <1>6 DEF Serve, Lose
<1>7. ASSUME tx # NoTx, tx.todo # <<>>, Step(Head(tx.todo)) \/ MergeFault(Head(tx.todo))
      PROVE  Goal
  BY <1>1, <1>7 DEF Step, MergeFault
<1>8. ASSUME NEW r \in Rows, NEW cols \in Cols, NEW now \in Times,
             Author(<<[row |-> r, cols |-> cols]>>, now)
      PROVE  Goal
  BY <1>1, <1>8 DEF Author
<1>9. ASSUME NEW p \in pulling, Respond(p) \/ FailPull(p) PROVE Goal
  BY <1>1, <1>9 DEF Respond, FailPull
<1>10. ASSUME FinishAuthor \/ RollBack \/ Crash \/ UNCHANGED vars PROVE Goal
  BY <1>1, <1>10 DEF FinishAuthor, RollBack, Crash, vars
<1>11. QED
  BY <1>2, <1>3, <1>4, <1>5, <1>6, <1>7, <1>8, <1>9, <1>10 DEF Next

(* What a device holds changes by a write of its own or by an answer it was
   waiting for; otherwise only it alone stays as it was. *)
LEMMA DevicesMove ==
    ASSUME [Next]_vars
    PROVE  /\ \/ UNCHANGED <<outbox, replica>>
              \/ \E d \in Devices, r \in Rows, now \in Times : \E cols \in Payloads[d] :
                    LocalWrite(d, r, now, cols)
              \/ outbox' = outbox /\ \E q \in pulling : q.live /\ Respond(q)
           /\ \/ UNCHANGED <<settled, dropped, cursor>>
              \/ \E q \in pulling : q.live /\ Respond(q)
<1> DEFINE Still == UNCHANGED <<outbox, replica, settled, dropped, cursor>>
<1>1. ASSUME NEW d \in Devices, Send(d) \/ Timeout(d) PROVE Still
  BY <1>1 DEF Send, Timeout
<1>2. ASSUME NEW req \in net, Serve(req) \/ Lose(req) PROVE Still
  BY <1>2 DEF Serve, Lose, deviceVars
<1>3. ASSUME tx # NoTx, tx.todo # <<>>, Step(Head(tx.todo)) \/ MergeFault(Head(tx.todo))
      PROVE  Still
  BY <1>3 DEF Step, MergeFault, deviceVars
<1>4. ASSUME NEW r \in Rows, NEW cols \in Cols, NEW now \in Times,
             Author(<<[row |-> r, cols |-> cols]>>, now)
      PROVE  Still
  BY <1>4 DEF Author, deviceVars
<1>5. ASSUME NEW q \in pulling, FailPull(q) PROVE Still
  BY <1>5 DEF FailPull
<1>6. ASSUME NEW q \in pulling, Respond(q), ~q.live PROVE Still
  BY <1>6 DEF Respond
<1>7. ASSUME NEW q \in pulling, Respond(q) PROVE outbox' = outbox
  BY <1>7 DEF Respond
<1>8. ASSUME Commit \/ FinishAuthor \/ RollBack \/ Crash \/ UNCHANGED vars PROVE Still
  BY <1>8 DEF Commit, FinishAuthor, RollBack, Crash, vars, deviceVars
<1>9. ASSUME NEW d \in Devices, NEW r \in Rows, NEW now \in Times, NEW cols \in Payloads[d],
             LocalWrite(d, r, now, cols)
      PROVE  UNCHANGED <<settled, dropped, cursor>>
  BY <1>9 DEF LocalWrite
<1>10. QED
  BY <1>1, <1>2, <1>3, <1>4, <1>5, <1>6, <1>7, <1>8, <1>9 DEF Next

(* The ops of other sites than s in the changelog l, up to the cursor c. *)
Relay(l, s, c) == {l[i] : i \in {j \in 1 .. c : l[j].site # s}}

(* A device that takes an answer adopts what it says, and its rows become the
   merge of what it holds and the relay page: the page begins where the
   device is, skips nothing, and brings nothing that it has. *)
LEMMA RespondIs ==
    ASSUME Inv, NEW q \in pulling, q.live, Respond(q)
    PROVE  /\ q \in Responses /\ q.site \in Devices
           /\ settled' = [settled EXCEPT ![q.site] = q.accepted]
           /\ dropped' = [dropped EXCEPT ![q.site] = dropped[q.site] \cup q.rejected]
           /\ waiting' = waiting \ {q.site}
           /\ \E c \in cursor[q.site] .. Len(log), m \in [Rows -> Ops \cup {NoRow}] :
                 /\ cursor' = [cursor EXCEPT ![q.site] = c]
                 /\ replica' = [replica EXCEPT ![q.site] = m]
                 /\ IsMerge(m, LogOps(outbox[q.site]) \cup Relay(log, q.site, c))
<1> DEFINE d == q.site
           since == cursor[d]
           relay == OpsSince(since, d)
           c == relay.cursor
           m == Relayed(replica[d], relay.seqs)
<1> USE DEF Inv, Types
<1>1. q \in Responses /\ d \in Devices
  BY DEF Responses
<1>2. q.cursor = since
  BY DEF OneLive
<1>3. Receive(d, q.accepted, q.rejected, relay)
  BY <1>2 DEF Respond
<1>4. log \in Seq(Ops) /\ NoDuplicates /\ since \in 0 .. Len(log)
  BY <1>1 DEF StoreInv, StoreTypeOK
<1>5. c \in since .. Len(log) /\ relay.seqs = {i \in since + 1 .. c : log[i].site # d}
  BY <1>4, OpsSinceIs
<1>6. outbox[d] \in Seq(Ops) /\ replica[d] \in [Rows -> Ops \cup {NoRow}]
  BY <1>1
<1>7. IsMerge(replica[d], Received(d)) /\ Received(d) = LogOps(outbox[d]) \cup Relay(log, d, since)
  BY <1>1 DEF ReplicaIsMerge, Received, Relay
<1>8. Received(d) \in SUBSET Ops
  <2>1. \A j \in 1 .. since : log[j] \in Ops
    BY <1>4
  <2>2. LogOps(outbox[d]) \subseteq Ops
    BY <1>6, LogOpsType
  <2>3. QED
    BY <1>7, <2>1, <2>2 DEF Relay
<1>9. ASSUME NEW i \in relay.seqs, NEW o \in Received(d) PROVE ~SameOp(o, log[i])
  <2>1. i \in since + 1 .. c /\ log[i].site # d
    BY <1>5
  <2>2. CASE o \in LogOps(outbox[d])
    <3>1. o.site = d
      BY <1>1, <2>2 DEF OutboxIsOwn, LogOps
    <3>2. QED
      BY <2>1, <3>1 DEF SameOp
  <2>3. CASE o \in Relay(log, d, since)
    <3>1. PICK j \in 1 .. since : o = log[j]
      BY <2>3 DEF Relay
    <3>2. i # j /\ i \in 1 .. Len(log) /\ j \in 1 .. Len(log)
      BY <1>4, <1>5, <2>1
    <3>3. QED
      BY <1>4, <3>1, <3>2 DEF NoDuplicates, SameOp
  <2>4. QED
    BY <1>7, <2>2, <2>3
<1>10. relay.seqs \subseteq 1 .. Len(log)
  BY <1>4, <1>5
<1>11. Relay(log, d, c) = Relay(log, d, since) \cup {log[i] : i \in relay.seqs}
  <2>1. {j \in 1 .. c : log[j].site # d} =
          {j \in 1 .. since : log[j].site # d} \cup {i \in since + 1 .. c : log[i].site # d}
    BY <1>4, <1>5
  <2>2. QED
    BY <1>5, <2>1 DEF Relay
<1> HIDE DEF relay, since
<1>12. /\ m \in [Rows -> Ops \cup {NoRow}]
       /\ IsMerge(m, Received(d) \cup {log[i] : i \in relay.seqs})
  BY <1>4, <1>6, <1>7, <1>8, <1>9, <1>10, RelayedIs
<1>13. IsMerge(m, LogOps(outbox[d]) \cup Relay(log, d, c))
  <2>1. Received(d) \cup {log[i] : i \in relay.seqs} = LogOps(outbox[d]) \cup Relay(log, d, c)
    BY <1>7, <1>11
  <2>2. QED
    BY <1>12, <2>1
<1>14. /\ cursor' = [cursor EXCEPT ![d] = c] /\ replica' = [replica EXCEPT ![d] = m]
       /\ settled' = [settled EXCEPT ![d] = q.accepted]
       /\ dropped' = [dropped EXCEPT ![d] = dropped[d] \cup q.rejected]
       /\ waiting' = waiting \ {d}
  BY <1>3 DEF Receive
<1>15. c \in cursor[d] .. Len(log)
  BY <1>5 DEF since
<1>16. QED
  BY <1>1, <1>12, <1>13, <1>14, <1>15

(* The merge with one more op of one's own. *)
LEMMA LocalWriteIs ==
    ASSUME Inv, NEW d \in Devices, NEW r \in Rows, NEW now \in Times, NEW cols \in Payloads[d],
           LocalWrite(d, r, now, cols)
    PROVE  \E op \in Ops :
              /\ op.site = d /\ op.opSeq = Len(outbox[d]) + 1
              /\ outbox' = [outbox EXCEPT ![d] = Append(outbox[d], op)]
              /\ \E m \in [Rows -> Ops \cup {NoRow}] :
                    /\ replica' = [replica EXCEPT ![d] = m]
                    /\ IsMerge(m, LogOps(Append(outbox[d], op)) \cup Relay(log, d, cursor[d]))
<1> USE DEF Inv, Types
<1> DEFINE op == [row |-> r, site |-> d, opSeq |-> Len(outbox[d]) + 1,
                  wallTS |-> now, cols |-> cols]
           m == Merged(replica[d], op)
<1>1. outbox[d] \in Seq(Ops) /\ replica[d] \in [Rows -> Ops \cup {NoRow}]
  OBVIOUS
<1>2. now \in Nat /\ cols \in Cols \cup {Missing, Mistyped} /\ Len(outbox[d]) + 1 \in Nat
  BY <1>1, ProtocolAssumption
<1>3. op \in Ops /\ op.site = d /\ op.opSeq = Len(outbox[d]) + 1
  BY <1>2 DEF Ops, Sites
<1>4. /\ outbox' = [outbox EXCEPT ![d] = Append(outbox[d], op)]
      /\ replica' = [replica EXCEPT ![d] = m]
  BY DEF LocalWrite
<1> HIDE DEF op
<1>5. IsMerge(replica[d], Received(d)) /\ Received(d) = LogOps(outbox[d]) \cup Relay(log, d, cursor[d])
  BY DEF ReplicaIsMerge, Received, Relay
<1>6. Received(d) \in SUBSET Ops
  <2>1. log \in Seq(Ops) /\ cursor[d] \in 0 .. Len(log)
    BY DEF StoreInv, StoreTypeOK
  <2>2. \A j \in 1 .. cursor[d] : log[j] \in Ops
    BY <2>1
  <2>3. LogOps(outbox[d]) \subseteq Ops
    BY <1>1, LogOpsType
  <2>4. QED
    BY <1>5, <2>2, <2>3 DEF Relay
<1>7. ASSUME NEW o \in Received(d) PROVE ~SameOp(o, op)
  <2>1. CASE o \in LogOps(outbox[d])
    <3>1. PICK n \in 1 .. Len(outbox[d]) : o = outbox[d][n]
      BY <2>1 DEF LogOps
    <3>2. o.opSeq = n /\ n # Len(outbox[d]) + 1
      BY <1>1, <3>1 DEF OutboxIsOwn
    <3>3. QED
      BY <1>3, <3>2 DEF SameOp
  <2>2. CASE o \in Relay(log, d, cursor[d])
    BY <1>3, <2>2 DEF Relay, SameOp
  <2>3. QED
    BY <1>5, <2>1, <2>2
<1>8. /\ m \in [Rows -> Ops \cup {NoRow}]
      /\ IsMerge(m, Received(d) \cup {op})
  BY <1>1, <1>3, <1>5, <1>6, <1>7, MergeOne
<1>9. Received(d) \cup {op} = LogOps(Append(outbox[d], op)) \cup Relay(log, d, cursor[d])
  BY <1>1, <1>3, <1>5, LogOpsAppend
<1> HIDE DEF m
<1>10. QED
  BY <1>3, <1>4, <1>8, <1>9

(***************************************************************************)
(* Each part of the invariant is kept.                                     *)
(***************************************************************************)
(* A commit is that of the request being applied. *)
LEMMA CommitIs ==
    ASSUME Inv, Commit
    PROVE  /\ serving \in Requests /\ serving # Idle /\ tx.site = serving.site
           /\ serving.site \in Devices /\ tx \in TxRecords
           /\ tx.todo = <<>> /\ log' = tx.log
           /\ refused' = [refused EXCEPT ![tx.site] = refused[tx.site] \cup tx.rejected]
<1>1. Applying /\ tx.todo = <<>>
  BY DEF Commit, CommitApply
<1>2. serving # Idle /\ tx.site = serving.site
  BY <1>1 DEF Inv, ServedIsDone, Applying
<1>3. serving \in Requests /\ serving.site \in Devices
  BY <1>2 DEF Inv, Types, Requests
<1>4. tx \in TxRecords
  BY <1>1 DEF Inv, StoreInv, StoreTypeOK, Applying
<1>5. QED
  BY <1>1, <1>2, <1>3, <1>4 DEF Commit, CommitApply

(* Its answer is a response. *)
LEMMA AnswerIs ==
    ASSUME Inv, StoreInv', Commit
    PROVE  Answer \in Responses
<1>1. acked'[tx.site] \in Nat /\ tx.site \in Devices
  BY CommitIs DEF StoreInv, StoreTypeOK
<1>2. serving.cursor \in Nat /\ serving.live \in BOOLEAN /\ tx.rejected \in SUBSET Nat
  BY CommitIs DEF Requests, TxRecords
<1>3. QED
  BY <1>1, <1>2 DEF Answer, Responses

(* Only a device that makes a call begins to wait. *)
LEMMA WaitingMoves ==
    ASSUME [Next]_vars, MaxFaults \in Nat, faults \in 0 .. MaxFaults
    PROVE  /\ \/ waiting' \subseteq waiting
              \/ \E d \in Devices : Send(d) /\ waiting' = waiting \cup {d}
           /\ faults' \in 0 .. MaxFaults
<1> DEFINE NoMore == waiting' \subseteq waiting
           Few == faults' \in 0 .. MaxFaults
<1>0. Fault => Few
  BY DEF Fault
<1>1. ASSUME NEW d \in Devices, NEW r \in Rows, NEW now \in Times, NEW cols \in Payloads[d],
             LocalWrite(d, r, now, cols)
      PROVE  NoMore /\ Few
  BY <1>1 DEF LocalWrite
<1>2. ASSUME NEW d \in Devices, Send(d) PROVE waiting' = waiting \cup {d} /\ Few
  BY <1>2 DEF Send
<1>3. ASSUME NEW d \in Devices, Timeout(d) PROVE NoMore /\ Few
  BY <1>0, <1>3 DEF Timeout
<1>4. ASSUME NEW req \in net, Serve(req) \/ Lose(req) PROVE NoMore /\ Few
  BY <1>0, <1>4 DEF Serve, Lose, StillWaiting, deviceVars
<1>5. ASSUME tx # NoTx, tx.todo # <<>>, Step(Head(tx.todo)) \/ MergeFault(Head(tx.todo))
      PROVE  NoMore /\ Few
  BY <1>0, <1>5 DEF Step, MergeFault, deviceVars
<1>6. ASSUME NEW r \in Rows, NEW cols \in Cols, NEW now \in Times,
             Author(<<[row |-> r, cols |-> cols]>>, now)
      PROVE  NoMore /\ Few
  BY <1>6 DEF Author, deviceVars
<1>7. ASSUME NEW q \in pulling, Respond(q) \/ FailPull(q) PROVE NoMore /\ Few
  BY <1>0, <1>7 DEF Respond, Receive, FailPull, StillWaiting
<1>8. ASSUME Commit \/ FinishAuthor \/ RollBack \/ Crash \/ UNCHANGED vars
      PROVE  NoMore /\ Few
  BY <1>0, <1>8 DEF Commit, FinishAuthor, RollBack, Crash, StillWaiting, vars, deviceVars
<1>9. QED
  BY <1>1, <1>2, <1>3, <1>4, <1>5, <1>6, <1>7, <1>8 DEF Next

(* No cursor passes the end of the changelog. *)
LEMMA WaterAndCursor ==
    ASSUME Inv, [Next]_vars
    PROVE  /\ settled' \in [Devices -> Nat]
           /\ dropped' \in [Devices -> SUBSET Nat]
           /\ cursor' \in [Devices -> Nat]
           /\ \A d \in Devices : cursor'[d] <= Len(log)
<1> USE DEF Inv
<1> DEFINE Goal == /\ settled' \in [Devices -> Nat]
                   /\ dropped' \in [Devices -> SUBSET Nat]
                   /\ cursor' \in [Devices -> Nat]
                   /\ \A d \in Devices : cursor'[d] <= Len(log)
<1>1. CASE UNCHANGED <<settled, dropped, cursor>>
  BY <1>1 DEF Types
<1>2. ASSUME NEW q \in pulling, q.live, Respond(q) PROVE Goal
  <2>1. PICK c \in cursor[q.site] .. Len(log) : cursor' = [cursor EXCEPT ![q.site] = c]
    BY <1>2, RespondIs
  <2>2. q.site \in Devices /\ q.accepted \in Nat /\ q.rejected \in SUBSET Nat
    BY <1>2, RespondIs DEF Responses
  <2>3. settled' \in [Devices -> Nat] /\ dropped' \in [Devices -> SUBSET Nat]
    <3>1. /\ settled' = [settled EXCEPT ![q.site] = q.accepted]
          /\ dropped' = [dropped EXCEPT ![q.site] = dropped[q.site] \cup q.rejected]
      BY <1>2, RespondIs
    <3>2. dropped[q.site] \cup q.rejected \in SUBSET Nat
      BY <2>2 DEF Types
    <3>3. QED
      BY <2>2, <3>1, <3>2 DEF Types
  <2>4. c \in Nat /\ c <= Len(log)
    BY <2>1, <2>2, StoreGrows DEF Types
  <2>5. cursor' \in [Devices -> Nat] /\ \A d \in Devices : cursor'[d] <= Len(log)
    BY <2>1, <2>4 DEF Types
  <2>6. QED
    BY <2>3, <2>5
<1>3. QED
  BY <1>1, <1>2, DevicesMove

(* The types of the variables are kept. *)
LEMMA TypesStep ==
    ASSUME Inv, [Next]_vars
    PROVE  Types'
<1> USE DEF Inv
<1>1. /\ outbox' \in [Devices -> Seq(Ops)]
      /\ replica' \in [Devices -> [Rows -> Ops \cup {NoRow}]]
  <2> DEFINE Goal == /\ outbox' \in [Devices -> Seq(Ops)]
                     /\ replica' \in [Devices -> [Rows -> Ops \cup {NoRow}]]
  <2>1. CASE UNCHANGED <<outbox, replica>>
    BY <2>1 DEF Types
  <2>2. ASSUME NEW d \in Devices, NEW r \in Rows, NEW now \in Times, NEW cols \in Payloads[d],
               LocalWrite(d, r, now, cols)
        PROVE  Goal
    <3>1. PICK op \in Ops, m \in [Rows -> Ops \cup {NoRow}] :
             /\ outbox' = [outbox EXCEPT ![d] = Append(outbox[d], op)]
             /\ replica' = [replica EXCEPT ![d] = m]
      BY <2>2, LocalWriteIs
    <3>2. Append(outbox[d], op) \in Seq(Ops)
      BY DEF Types
    <3>3. QED
      BY <3>1, <3>2 DEF Types
  <2>3. ASSUME NEW q \in pulling, q.live, Respond(q), outbox' = outbox PROVE Goal
    <3>1. PICK m \in [Rows -> Ops \cup {NoRow}] : replica' = [replica EXCEPT ![q.site] = m]
      BY <2>3, RespondIs
    <3>2. QED
      BY <2>3, <3>1 DEF Types
  <2>4. QED
    BY <2>1, <2>2, <2>3, DevicesMove
<1>2. /\ settled' \in [Devices -> Nat]
      /\ dropped' \in [Devices -> SUBSET Nat]
      /\ cursor' \in [Devices -> Nat]
      /\ \A d \in Devices : cursor'[d] <= Len(log)
  BY WaterAndCursor
<1>3. \A d \in Devices : cursor'[d] <= Len(log')
  <2>1. Len(log) \in Nat /\ Len(log') \in Nat /\ Len(log) <= Len(log')
    BY StoreGrows
  <2>2. \A d \in Devices : cursor'[d] \in Nat
    BY <1>2
  <2>3. QED
    BY <1>2, <2>1, <2>2
<1>4. waiting' \subseteq Devices /\ faults' \in 0 .. MaxFaults
  BY WaitingMoves, ProtocolAssumption DEF Types
<1>5. Calls' \subseteq Requests
  <2>1. ASSUME NEW q \in Calls' PROVE q \in Requests
    <3>1. q \in Calls => q \in Requests
      BY DEF Calls, Served, Types
    <3>2. QED
      BY <3>1, CallsMove, RequestIs
  <2>2. QED
    BY <2>1
<1>6. net' \subseteq Requests /\ serving' \in Requests \cup {Idle}
  BY <1>5 DEF Calls, Served
<1>7. pulling' \subseteq Responses
  <2>1. ASSUME NEW q \in pulling' PROVE q \in Responses
    BY AnswersMove, AnswerIs, StoreGrows DEF Types
  <2>2. QED
    BY <2>1
<1>8. QED
  BY <1>1, <1>2, <1>3, <1>4, <1>6, <1>7 DEF Types

(* The store refuses ops in committed calls only. *)
LEMMA RefusedMoves ==
    ASSUME [Next]_vars
    PROVE  Commit \/ refused' = refused
<1>1. ASSUME NEW d \in Devices, NEW r \in Rows, NEW now \in Times, NEW cols \in Payloads[d],
             LocalWrite(d, r, now, cols)
      PROVE  refused' = refused
  BY <1>1 DEF LocalWrite, storeVars
<1>2. ASSUME NEW d \in Devices, Send(d) \/ Timeout(d) PROVE refused' = refused
  BY <1>2 DEF Send, Timeout, storeVars
<1>3. ASSUME NEW req \in net, Serve(req) \/ Lose(req) PROVE refused' = refused
  BY <1>3 DEF Serve, Lose, BeginApply, Begin, store, storeVars
<1>4. ASSUME tx # NoTx, tx.todo # <<>>, Step(Head(tx.todo)) \/ MergeFault(Head(tx.todo))
      PROVE  refused' = refused
  BY <1>4 DEF Step, MergeFault, RejectInvalid, SkipLogged, RejectMistyped, RejectFaulted,
              Record, Reject, store
<1>5. ASSUME NEW r \in Rows, NEW cols \in Cols, NEW now \in Times,
             Author(<<[row |-> r, cols |-> cols]>>, now)
      PROVE  refused' = refused
  BY <1>5 DEF Author, BeginAuthor, Begin, store
<1>6. ASSUME NEW q \in pulling, Respond(q) \/ FailPull(q) PROVE refused' = refused
  BY <1>6 DEF Respond, FailPull, storeVars
<1>7. ASSUME FinishAuthor \/ RollBack \/ Crash \/ UNCHANGED vars PROVE refused' = refused
  BY <1>7 DEF FinishAuthor, CommitAuthor, RollBack, Abort, Crash, store, vars
<1>8. QED
  BY <1>1, <1>2, <1>3, <1>4, <1>5, <1>6, <1>7 DEF Next

(* An outbox only grows, and what a commit refuses is in it. *)
LEMMA OutboxIsOwnStep ==
    ASSUME Inv, [Next]_vars
    PROVE  OutboxIsOwn' /\ \A d \in Devices : Len(outbox[d]) <= Len(outbox'[d])
<1> USE DEF Inv, Types
<1>1. ASSUME NEW d \in Devices, NEW n \in 1 .. Len(outbox'[d])
      PROVE  outbox'[d][n].site = d /\ outbox'[d][n].opSeq = n
  <2>1. CASE outbox' = outbox
    BY <2>1 DEF OutboxIsOwn
  <2>2. ASSUME NEW e \in Devices, NEW r \in Rows, NEW now \in Times, NEW cols \in Payloads[e],
               LocalWrite(e, r, now, cols)
        PROVE  outbox'[d][n].site = d /\ outbox'[d][n].opSeq = n
    <3>1. PICK op \in Ops : /\ op.site = e /\ op.opSeq = Len(outbox[e]) + 1
                            /\ outbox' = [outbox EXCEPT ![e] = Append(outbox[e], op)]
      BY <2>2, LocalWriteIs
    <3>2. CASE d = e
      <4>1. outbox[d] \in Seq(Ops) /\ outbox'[d] = Append(outbox[d], op)
        BY <3>1, <3>2
      <4>2. CASE n = Len(outbox[d]) + 1
        BY <3>1, <3>2, <4>1, <4>2
      <4>3. CASE n # Len(outbox[d]) + 1
        <5>1. n \in 1 .. Len(outbox[d]) /\ outbox'[d][n] = outbox[d][n]
          BY <4>1, <4>3
        <5>2. QED
          BY <5>1 DEF OutboxIsOwn
      <4>4. QED
        BY <4>2, <4>3
    <3>3. CASE d # e
      BY <3>1, <3>3 DEF OutboxIsOwn
    <3>4. QED
      BY <3>2, <3>3
  <2>3. QED
    BY <2>1, <2>2, DevicesMove
<1>2. ASSUME NEW d \in Devices PROVE Len(outbox[d]) <= Len(outbox'[d])
  <2>1. CASE outbox' = outbox
    BY <2>1
  <2>2. ASSUME NEW e \in Devices, NEW r \in Rows, NEW now \in Times, NEW cols \in Payloads[e],
               LocalWrite(e, r, now, cols)
        PROVE  Len(outbox[d]) <= Len(outbox'[d])
    <3>1. PICK op \in Ops : outbox' = [outbox EXCEPT ![e] = Append(outbox[e], op)]
      BY <2>2, LocalWriteIs
    <3>2. CASE d = e
      <4>1. outbox[d] \in Seq(Ops) /\ outbox'[d] = Append(outbox[d], op)
        BY <3>1, <3>2
      <4>2. QED
        BY <4>1
    <3>3. CASE d # e
      BY <3>1, <3>3
    <3>4. QED
      BY <3>2, <3>3
  <2>3. QED
    BY <2>1, <2>2, DevicesMove
<1>3. ASSUME NEW d \in Devices PROVE refused'[d] \subseteq 1 .. Len(outbox[d])
  <2>1. CASE Commit
    <3>1. tx.rejected \subseteq 1 .. Len(outbox[tx.site])
      BY <2>1, CommitIs DEF ServedIsDone, CallsAreOwn, Calls, Served
    <3>2. refused' = [refused EXCEPT ![tx.site] = refused[tx.site] \cup tx.rejected]
      BY <2>1, CommitIs
    <3>3. refused \in [Devices -> SUBSET Nat]
      BY DEF StoreInv, StoreTypeOK
    <3>4. refused[d] \subseteq 1 .. Len(outbox[d])
      BY DEF OutboxIsOwn
    <3>5. QED
      BY <3>1, <3>2, <3>3, <3>4
  <2>2. CASE refused' = refused
    BY <2>2 DEF OutboxIsOwn
  <2>3. Commit \/ refused' = refused
    BY RefusedMoves
  <2>4. QED
    BY <2>1, <2>2, <2>3
<1>4. ASSUME NEW d \in Devices PROVE refused'[d] \subseteq 1 .. Len(outbox'[d])
  <2>1. Len(outbox[d]) \in Nat /\ Len(outbox'[d]) \in Nat
    BY TypesStep
  <2>2. 1 .. Len(outbox[d]) \subseteq 1 .. Len(outbox'[d])
    BY <1>2, <2>1
  <2>3. QED
    BY <1>3, <2>2
<1>5. QED
  BY <1>1, <1>2, <1>4 DEF OutboxIsOwn

(* Calls hold ops of the outbox as it was or still is. *)
LEMMA CallsAreOwnStep ==
    ASSUME Inv, [Next]_vars
    PROVE  CallsAreOwn'
<1> USE DEF Inv
<1>1. ASSUME NEW q \in Calls'
      PROVE  /\ \A o \in LogOps(q.ops) : o.site = q.site
             /\ OpSeqs(q.ops) \subseteq 1 .. Len(outbox[q.site])
  <2>1. ASSUME NEW d \in Devices, q = Request(d)
        PROVE  /\ \A o \in LogOps(q.ops) : o.site = q.site
               /\ OpSeqs(q.ops) \subseteq 1 .. Len(outbox[q.site])
    <3>1. \A o \in LogOps(q.ops) : \E n \in 1 .. Len(outbox[d]) : o = outbox[d][n]
      BY <2>1, RequestIs
    <3>2. \A o \in LogOps(q.ops) : o.site = d /\ o.opSeq \in 1 .. Len(outbox[d])
      BY <3>1 DEF OutboxIsOwn
    <3>3. q.site = d
      BY <2>1, RequestIs
    <3>4. QED
      BY <3>2, <3>3 DEF OpSeqs
  <2>2. QED
    BY <2>1, CallsMove DEF CallsAreOwn
<1>2. ASSUME NEW q \in Calls' PROVE OpSeqs(q.ops) \subseteq 1 .. Len(outbox'[q.site])
  <2>1. q.site \in Devices
    BY TypesStep DEF Types, Calls, Served, Requests
  <2>2. Len(outbox[q.site]) \in Nat /\ Len(outbox'[q.site]) \in Nat
    BY <2>1, TypesStep DEF Types
  <2>3. 1 .. Len(outbox[q.site]) \subseteq 1 .. Len(outbox'[q.site])
    BY <2>1, <2>2, OutboxIsOwnStep
  <2>4. QED
    BY <1>1, <2>3
<1>3. QED
  BY <1>1, <1>2 DEF CallsAreOwn, OpSeqs

(* A call just made has everything that is in the outbox; one that was out
   keeps what it had, and whatever is refused meanwhile is in some call. *)
LEMMA CallsResendStep ==
    ASSUME Inv, [Next]_vars
    PROVE  CallsResend'
<1> USE DEF Inv
<1> SUFFICES ASSUME NEW q \in Calls', q.live, NEW n,
                    \/ n \in refused'[q.site]
                    \/ \E p \in Calls' : p.site = q.site /\ n \in OpSeqs(p.ops)
             PROVE  n <= settled'[q.site] \/ n \in dropped'[q.site] \cup OpSeqs(q.ops)
  BY DEF CallsResend, OpSeqs
<1> DEFINE d == q.site
<1>1. d \in Devices
  BY TypesStep DEF Types, Calls, Served, Requests
<1>2. ASSUME Send(d), q = Request(d)
      PROVE  n <= settled'[d] \/ n \in dropped'[d] \cup OpSeqs(q.ops)
  <2>1. /\ refused' = refused /\ outbox' = outbox
        /\ settled' = settled /\ dropped' = dropped
    BY <1>2 DEF Send, storeVars
  <2>2. n \in 1 .. Len(outbox[d])
    <3>1. refused[d] \subseteq 1 .. Len(outbox[d])
      BY <1>1 DEF OutboxIsOwn
    <3>2. \A p \in Calls' : p.site = d => OpSeqs(p.ops) \subseteq 1 .. Len(outbox'[d])
      BY CallsAreOwnStep DEF CallsAreOwn, OpSeqs
    <3>3. QED
      BY <2>1, <3>1, <3>2
  <2>3. outbox[d][n].opSeq = n
    BY <1>1, <2>2 DEF OutboxIsOwn
  <2>4. settled[d] \in Nat /\ n \in Nat
    BY <1>1, <2>2 DEF Types
  <2>5. CASE n > settled[d] /\ n \notin dropped[d]
    <3>1. outbox[d][n] \in LogOps(q.ops)
      <4>1. LogOps(q.ops) = {outbox[d][k] : k \in {j \in 1 .. Len(outbox[d]) :
                                                  j > settled[d] /\ j \notin dropped[d]}}
        BY <1>1, <1>2, RequestIs
      <4>2. QED
        BY <2>2, <2>5, <4>1
    <3>2. QED
      BY <2>3, <3>1 DEF OpSeqs
  <2>6. QED
    BY <2>1, <2>4, <2>5
<1>3. ASSUME q \in Calls
      PROVE  n <= settled'[d] \/ n \in dropped'[d] \cup OpSeqs(q.ops)
  <2>1. settled'[d] = settled[d] /\ dropped'[d] = dropped[d]
    <3>1. CASE UNCHANGED <<settled, dropped, cursor>>
      BY <3>1
    <3>2. ASSUME NEW r \in pulling, r.live, Respond(r)
          PROVE  settled'[d] = settled[d] /\ dropped'[d] = dropped[d]
      <4>1. r.site # d
        BY <1>3, <3>2 DEF OneLive
      <4>2. QED
        BY <1>1, <3>2, <4>1, RespondIs DEF Types
    <3>3. QED
      BY <3>1, <3>2, DevicesMove
  <2>2. ASSUME NEW p \in Calls, p.site = d, n \in OpSeqs(p.ops)
        PROVE  n <= settled[d] \/ n \in dropped[d] \cup OpSeqs(q.ops)
    BY <1>3, <2>2 DEF CallsResend
  <2>3. CASE n \in refused'[d]
    <3>1. CASE n \in refused[d]
      BY <1>3, <2>1, <3>1 DEF CallsResend
    <3>2. CASE n \notin refused[d]
      <4>1. Commit
        BY <2>3, <3>2, RefusedMoves
      <4>2. refused' = [refused EXCEPT ![tx.site] = refused[tx.site] \cup tx.rejected]
        BY <4>1, CommitIs
      <4>3. refused \in [Devices -> SUBSET Nat]
        BY DEF StoreInv, StoreTypeOK
      <4>4. tx.site = d /\ n \in tx.rejected
        BY <1>1, <2>3, <3>2, <4>2, <4>3
      <4>5. serving \in Calls /\ serving.site = d /\ n \in OpSeqs(serving.ops)
        BY <4>1, <4>4, CommitIs DEF ServedIsDone, Calls, Served
      <4>6. QED
        BY <2>1, <2>2, <4>5
    <3>3. QED
      BY <3>1, <3>2
  <2>4. ASSUME NEW p \in Calls', p.site = d, n \in OpSeqs(p.ops)
        PROVE  n <= settled'[d] \/ n \in dropped'[d] \cup OpSeqs(q.ops)
    <3>1. ASSUME NEW e \in Devices, Send(e), p = Request(e) PROVE FALSE
      <4>1. d = e /\ e \notin waiting
        BY <2>4, <3>1, RequestIs DEF Send
      <4>2. QED
        BY <1>3, <4>1 DEF OneLive
    <3>2. \E o \in Calls : o.site = d /\ n \in OpSeqs(o.ops)
      BY <2>4, <3>1, CallsMove
    <3>3. QED
      BY <2>1, <2>2, <3>2
  <2>5. QED
    BY <2>3, <2>4
<1>4. \A e \in Devices : q = Request(e) => e = d
  BY RequestIs
<1>5. QED
  BY <1>2, <1>3, <1>4, CallsMove

(* What the water passed at the commit is logged, was refused now, or was
   refused before and is one of the ops the call brought again. *)
LEMMA AnswersTellAllStep ==
    ASSUME Inv, [Next]_vars
    PROVE  AnswersTellAll'
<1> USE DEF Inv
<1> SUFFICES ASSUME NEW q \in pulling', q.live, NEW n \in 1 .. q.accepted
             PROVE  n \in dropped'[q.site] \cup Logged(log', q.site) \cup q.rejected
  BY DEF AnswersTellAll, Logged, LogOps
<1>1. ASSUME NEW d \in Devices PROVE dropped[d] \subseteq dropped'[d]
  <2>1. ASSUME NEW r \in pulling, r.live, Respond(r) PROVE dropped[d] \subseteq dropped'[d]
    <3>1. dropped' = [dropped EXCEPT ![r.site] = dropped[r.site] \cup r.rejected]
      BY <2>1, RespondIs
    <3>2. QED
      BY <3>1 DEF Types
  <2>2. QED
    BY <2>1, DevicesMove
<1>2. CASE q \in pulling
  <2>1. n \in dropped[q.site] \cup Logged(log, q.site) \cup q.rejected
    BY <1>2 DEF AnswersTellAll
  <2>2. q.site \in Devices
    BY <1>2 DEF Types, Responses
  <2>3. QED
    BY <1>1, <2>1, <2>2, StoreGrows
<1>3. CASE Commit /\ q = Answer
  <2> DEFINE d == serving.site
  <2>1. /\ q.site = d /\ q.rejected = tx.rejected /\ q.accepted = acked'[d]
        /\ serving.live /\ d \in Devices /\ tx.site = d /\ serving \in Calls
    BY <1>3, CommitIs DEF Answer, Calls, Served
  <2>2. n \in Logged(log', d) \cup refused'[d]
    BY <2>1, StoreGrows DEF StoreInv, AcceptedIsSettled, Logged, LogOps
  <2>3. refused'[d] = refused[d] \cup tx.rejected
    BY <1>3, <2>1, CommitIs DEF StoreInv, StoreTypeOK
  <2>4. CASE n \in refused[d]
    <3>1. n <= settled[d] \/ n \in dropped[d] \cup OpSeqs(serving.ops)
      BY <2>1, <2>4 DEF CallsResend
    <3>2. CASE n <= settled[d]
      <4>1. n \in 1 .. settled[d]
        BY <2>1, <3>2, StoreGrows DEF StoreInv, StoreTypeOK, Types
      <4>2. n \in Logged(log, d) \cup dropped[d]
        BY <2>1, <4>1 DEF NoSilentLoss
      <4>3. QED
        BY <1>1, <2>1, <4>2, StoreGrows
    <3>3. CASE n \in OpSeqs(serving.ops)
      <4>1. OpSeqs(tx.todo) = {}
        BY <1>3, CommitIs DEF OpSeqs, LogOps
      <4>2. n \in Logged(tx.log, d) \cup tx.rejected
        BY <1>3, <2>1, <3>3, <4>1, CommitIs DEF ServedIsDone
      <4>3. QED
        BY <1>3, <2>1, <4>2, CommitIs
    <3>4. QED
      BY <1>1, <2>1, <3>1, <3>2, <3>3
  <2>5. QED
    BY <2>1, <2>2, <2>3, <2>4
<1>4. QED
  BY <1>2, <1>3, AnswersMove

(* An answer is all the device needs to know of what it settles. *)
LEMMA NoSilentLossStep ==
    ASSUME Inv, [Next]_vars
    PROVE  NoSilentLoss'
<1> USE DEF Inv
<1> SUFFICES ASSUME NEW d \in Devices, NEW n \in 1 .. settled'[d]
             PROVE  n \in Logged(log', d) \cup dropped'[d]
  BY DEF NoSilentLoss, Logged, LogOps
<1>1. CASE settled'[d] = settled[d] /\ dropped'[d] = dropped[d]
  BY <1>1, StoreGrows DEF NoSilentLoss
<1>2. ASSUME NEW q \in pulling, q.live, Respond(q)
      PROVE  n \in Logged(log', d) \cup dropped'[d]
  <2>1. /\ settled' = [settled EXCEPT ![q.site] = q.accepted]
        /\ dropped' = [dropped EXCEPT ![q.site] = dropped[q.site] \cup q.rejected]
    BY <1>2, RespondIs
  <2>2. CASE d = q.site
    <3>1. settled'[d] = q.accepted /\ dropped'[d] = dropped[d] \cup q.rejected
      BY <2>1, <2>2 DEF Types
    <3>2. n \in dropped[d] \cup Logged(log, d) \cup q.rejected
      BY <1>2, <2>2, <3>1 DEF AnswersTellAll
    <3>3. QED
      BY <3>1, <3>2, StoreGrows
  <2>3. CASE d # q.site
    BY <1>1, <2>1, <2>3 DEF Types
  <2>4. QED
    BY <2>2, <2>3
<1>3. QED
  BY <1>1, <1>2, DevicesMove

(* A write and an answer keep the rows a merge; the changelog below the
   cursor never changes. *)
LEMMA ReplicaIsMergeStep ==
    ASSUME Inv, [Next]_vars
    PROVE  ReplicaIsMerge'
<1> USE DEF Inv
<1>1. ASSUME NEW d \in Devices
      PROVE  IsMerge(replica'[d], LogOps(outbox'[d]) \cup Relay(log, d, cursor'[d]))
  <2>0. IsMerge(replica[d], LogOps(outbox[d]) \cup Relay(log, d, cursor[d]))
    BY DEF ReplicaIsMerge, Received, Relay
  <2>1. CASE replica'[d] = replica[d] /\ outbox'[d] = outbox[d] /\ cursor'[d] = cursor[d]
    BY <2>0, <2>1
  <2>2. ASSUME NEW q \in pulling, q.live, Respond(q), outbox' = outbox
        PROVE  IsMerge(replica'[d], LogOps(outbox'[d]) \cup Relay(log, d, cursor'[d]))
    <3>1. PICK c \in cursor[q.site] .. Len(log), m \in [Rows -> Ops \cup {NoRow}] :
             /\ cursor' = [cursor EXCEPT ![q.site] = c]
             /\ replica' = [replica EXCEPT ![q.site] = m]
             /\ IsMerge(m, LogOps(outbox[q.site]) \cup Relay(log, q.site, c))
      BY <2>2, RespondIs
    <3>2. CASE d = q.site
      <4>1. replica'[d] = m /\ cursor'[d] = c
        BY <3>1, <3>2 DEF Types
      <4>2. QED
        BY <2>2, <3>1, <3>2, <4>1
    <3>3. CASE d # q.site
      BY <2>1, <2>2, <3>1, <3>3 DEF Types
    <3>4. QED
      BY <3>2, <3>3
  <2>3. ASSUME NEW e \in Devices, NEW r \in Rows, NEW now \in Times, NEW cols \in Payloads[e],
               LocalWrite(e, r, now, cols)
        PROVE  IsMerge(replica'[d], LogOps(outbox'[d]) \cup Relay(log, d, cursor'[d]))
    <3>1. PICK op \in Ops, m \in [Rows -> Ops \cup {NoRow}] :
             /\ outbox' = [outbox EXCEPT ![e] = Append(outbox[e], op)]
             /\ replica' = [replica EXCEPT ![e] = m]
             /\ IsMerge(m, LogOps(Append(outbox[e], op)) \cup Relay(log, e, cursor[e]))
      BY <2>3, LocalWriteIs
    <3>2. cursor' = cursor
      BY <2>3 DEF LocalWrite
    <3>3. CASE d = e
      <4>1. replica'[d] = m /\ outbox'[d] = Append(outbox[e], op)
        BY <3>1, <3>3 DEF Types
      <4>2. QED
        BY <3>1, <3>2, <3>3, <4>1
    <3>4. CASE d # e
      BY <2>1, <3>1, <3>2, <3>4 DEF Types
    <3>5. QED
      BY <3>3, <3>4
  <2>4. CASE UNCHANGED <<outbox, replica>>
    <3>1. CASE UNCHANGED <<settled, dropped, cursor>>
      BY <2>1, <2>4, <3>1
    <3>2. QED
      BY <2>2, <2>4, <3>1, DevicesMove
  <2>5. ASSUME NEW q \in pulling, q.live, Respond(q) PROVE outbox' = outbox
    BY <2>5 DEF Respond
  <2>6. QED
    BY <2>2, <2>3, <2>4, <2>5, DevicesMove
<1>2. ASSUME NEW d \in Devices
      PROVE  Relay(log, d, cursor'[d]) = Relay(log', d, cursor'[d])
  <2>1. cursor'[d] \in Nat /\ cursor'[d] <= Len(log)
    BY WaterAndCursor
  <2>2. \A j \in 1 .. cursor'[d] : log'[j] = log[j]
    BY <2>1, StoreGrows
  <2>3. QED
    BY <2>2 DEF Relay
<1>3. ASSUME NEW d \in Devices
      PROVE  Received(d)' = LogOps(outbox'[d]) \cup Relay(log', d, cursor'[d])
  BY DEF Received, Relay, LogOps
<1>4. QED
  BY <1>1, <1>2, <1>3 DEF ReplicaIsMerge, IsMerge

(* One op of the open transaction is dealt with: it leaves the ops to do and,
   if it is the requesting device's, is then logged or refused. *)
LEMMA TxMoves ==
    ASSUME Inv, tx # NoTx, tx.todo # <<>>,
           Step(Head(tx.todo)) \/ MergeFault(Head(tx.todo))
    PROVE  /\ tx' # NoTx /\ tx'.site = tx.site /\ serving' = serving
           /\ LogOps(tx.todo) = {Head(tx.todo)} \cup LogOps(tx'.todo)
           /\ \A s : Logged(tx.log, s) \subseteq Logged(tx'.log, s)
           /\ tx.rejected \subseteq tx'.rejected
           /\ tx'.rejected \subseteq tx.rejected \cup {Head(tx.todo).opSeq}
           /\ Head(tx.todo).site = tx.site /\ tx.site \in Devices =>
                Head(tx.todo).opSeq \in Logged(tx'.log, tx.site) \cup tx'.rejected
<1> DEFINE op == Head(tx.todo)
<1>1. tx \in TxRecords /\ tx.todo \in Seq(Ops) /\ tx.log \in Seq(Ops)
  BY DEF Inv, StoreInv, StoreTypeOK, TxRecords
<1>2. op \in Ops /\ LogOps(tx.todo) = {op} \cup LogOps(Tail(tx.todo))
  BY <1>1, LogOpsTail
<1>3. serving' = serving
  BY DEF Step, MergeFault
<1> DEFINE Goal == /\ tx'.site = tx.site /\ tx'.todo = Tail(tx.todo)
                   /\ \A s : Logged(tx.log, s) \subseteq Logged(tx'.log, s)
                   /\ tx.rejected \subseteq tx'.rejected
                   /\ tx'.rejected \subseteq tx.rejected \cup {op.opSeq}
                   /\ op.site = tx.site /\ tx.site \in Devices =>
                        op.opSeq \in Logged(tx'.log, tx.site) \cup tx'.rejected
<1>4. ASSUME Reject(op) PROVE Goal
  <2>1. /\ tx'.site = tx.site /\ tx'.todo = Tail(tx.todo) /\ tx'.log = tx.log
        /\ tx'.rejected = IF op.site = tx.site THEN tx.rejected \cup {op.opSeq}
                                               ELSE tx.rejected
    BY <1>1, <1>4 DEF Reject, TxRecords
  <2>2. QED
    BY <2>1
<1>5. ASSUME SkipLogged(op) PROVE Goal
  <2>1. /\ tx'.site = tx.site /\ tx'.todo = Tail(tx.todo) /\ tx'.log = tx.log
        /\ tx'.rejected = tx.rejected
    BY <1>1, <1>5 DEF SkipLogged, TxRecords
  <2>2. op.opSeq \in Logged(tx.log, op.site)
    BY <1>5 DEF SkipLogged, InLog, SameOp, Logged
  <2>3. QED
    BY <2>1, <2>2
<1>6. ASSUME Record(op) PROVE Goal
  <2>1. /\ tx'.site = tx.site /\ tx'.todo = Tail(tx.todo) /\ tx'.log = Append(tx.log, op)
        /\ tx'.rejected = tx.rejected
    BY <1>1, <1>6 DEF Record, TxRecords
  <2>2. \A s : Logged(tx'.log, s) = Logged(tx.log, s) \cup
                  (IF op.site = s THEN {op.opSeq} ELSE {})
    BY <1>1, <1>2, <2>1, LoggedAppend
  <2>3. QED
    BY <2>1, <2>2
<1>7. Goal
  BY <1>4, <1>5, <1>6 DEF Step, MergeFault, RejectInvalid, RejectMistyped, RejectFaulted
<1>8. tx' # NoTx
  <2>1. ASSUME Reject(op), Applying, Next1(op) PROVE tx' \in TxRecords
    BY <1>2, <2>1, RejectInv DEF Inv
  <2>2. ASSUME SkipLogged(op) \/ Record(op) PROVE tx' \in TxRecords
    BY <1>2, <2>2, SkipInv, RecordInv DEF Inv
  <2>3. tx' \in TxRecords
    BY <2>1, <2>2 DEF Step, MergeFault, RejectInvalid, RejectMistyped, RejectFaulted
  <2>4. QED
    BY <2>3, NoTxAssumption
<1>9. QED
  BY <1>2, <1>3, <1>7, <1>8

(* The ops of the request stay accounted for through BEGIN, every op, COMMIT
   and every way for the transaction to fail. *)
LEMMA ServedIsDoneStep ==
    ASSUME Inv, [Next]_vars
    PROVE  ServedIsDone'
<1> USE DEF Inv
<1> DEFINE Done ==
      /\ tx' # NoTx /\ tx'.site \in Devices <=> serving' # Idle
      /\ serving' # Idle =>
            /\ tx'.site = serving'.site
            /\ \A o \in LogOps(tx'.todo) : o.site = tx'.site
            /\ OpSeqs(tx'.todo) \cup tx'.rejected \subseteq OpSeqs(serving'.ops)
            /\ OpSeqs(serving'.ops) \subseteq
                  OpSeqs(tx'.todo) \cup Logged(tx'.log, tx'.site) \cup tx'.rejected
<1> SUFFICES Done
  BY DEF ServedIsDone, OpSeqs, LogOps, Logged
<1>1. CASE tx' = tx /\ serving' = serving
  BY <1>1 DEF ServedIsDone
<1>2. CASE tx' = NoTx /\ serving' = Idle
  BY <1>2 DEF ServedIsDone
<1>3. ASSUME NEW d \in Devices, Timeout(d) PROVE Done
  <2>1. tx' = tx
    BY <1>3 DEF Timeout, storeVars
  <2>2. CASE serving = Idle
    BY <1>1, <1>3, <2>1, <2>2 DEF Timeout
  <2>3. CASE serving # Idle
    <3>1. serving \in Requests /\ serving' = Abandon(d, serving)
      BY <1>3, <2>3 DEF Timeout, Types
    <3>2. serving' # Idle /\ serving'.site = serving.site /\ serving'.ops = serving.ops
      BY <3>1, AbandonRequest, IdleAssumption
    <3>3. QED
      BY <2>1, <2>3, <3>2 DEF ServedIsDone
  <2>4. QED
    BY <2>2, <2>3
<1>4. ASSUME NEW req \in net, Serve(req) PROVE Done
  <2>1. req \in Requests /\ req.site \in Devices /\ req # Idle
    BY IdleAssumption DEF Types, Requests
  <2>2. /\ tx' = [site |-> req.site, todo |-> req.ops, log |-> log, mirror |-> mirror,
                 authored |-> authored, rejected |-> {}, pages |-> {}]
        /\ serving' = req
    BY <1>4 DEF Serve, BeginApply, Begin
  <2>3. tx' # NoTx
    BY <1>4, <2>1, BeginApplyInv, NoTxAssumption DEF Serve, Requests
  <2>4. \A o \in LogOps(req.ops) : o.site = req.site
    BY DEF CallsAreOwn, Calls
  <2>5. /\ tx'.site = req.site /\ tx'.todo = req.ops /\ tx'.rejected = {}
    BY <2>2
  <2>6. QED
    BY <2>1, <2>2, <2>3, <2>4, <2>5
<1>5. ASSUME NEW r \in Rows, NEW cols \in Cols, NEW now \in Times,
             Author(<<[row |-> r, cols |-> cols]>>, now)
      PROVE  Done
  <2>1. tx = NoTx /\ tx'.site = UB /\ serving' = serving
    BY <1>5 DEF Author, BeginAuthor, Begin
  <2>2. serving = Idle
    BY <2>1 DEF ServedIsDone
  <2>3. QED
    BY <2>1, <2>2, SyncOpsAssumption DEF ServedIsDone
<1>6. ASSUME tx # NoTx, tx.todo # <<>>, Step(Head(tx.todo)) \/ MergeFault(Head(tx.todo))
      PROVE  Done
  <2> DEFINE op == Head(tx.todo)
  <2>1. /\ tx' # NoTx /\ tx'.site = tx.site /\ serving' = serving
        /\ LogOps(tx.todo) = {op} \cup LogOps(tx'.todo)
        /\ \A s : Logged(tx.log, s) \subseteq Logged(tx'.log, s)
        /\ tx.rejected \subseteq tx'.rejected
        /\ tx'.rejected \subseteq tx.rejected \cup {op.opSeq}
        /\ op.site = tx.site /\ tx.site \in Devices =>
             op.opSeq \in Logged(tx'.log, tx.site) \cup tx'.rejected
    BY <1>6, TxMoves
  <2>2. OpSeqs(tx.todo) = {op.opSeq} \cup OpSeqs(tx'.todo)
    BY <2>1 DEF OpSeqs
  <2>3. CASE serving = Idle
    BY <1>6, <2>1, <2>3 DEF ServedIsDone
  <2>4. CASE serving # Idle
    <3>1. /\ tx.site = serving.site /\ tx.site \in Devices
          /\ \A o \in LogOps(tx.todo) : o.site = tx.site
          /\ OpSeqs(tx.todo) \cup tx.rejected \subseteq OpSeqs(serving.ops)
          /\ OpSeqs(serving.ops) \subseteq
                OpSeqs(tx.todo) \cup Logged(tx.log, tx.site) \cup tx.rejected
      BY <2>4 DEF ServedIsDone
    <3>2. op.site = tx.site /\ \A o \in LogOps(tx'.todo) : o.site = tx.site
      BY <2>1, <3>1
    <3>3. OpSeqs(tx'.todo) \cup tx'.rejected \subseteq OpSeqs(serving.ops)
      BY <2>1, <2>2, <3>1
    <3>4. OpSeqs(serving.ops) \subseteq
             OpSeqs(tx'.todo) \cup Logged(tx'.log, tx.site) \cup tx'.rejected
      BY <2>1, <2>2, <3>1, <3>2
    <3>5. QED
      BY <2>1, <2>4, <3>1, <3>2, <3>3, <3>4 DEF ServedIsDone
  <2>5. QED
    BY <2>3, <2>4
<1>7. CASE FinishAuthor
  <2>1. tx.site = UB /\ tx' = NoTx /\ serving' = serving
    BY <1>7 DEF FinishAuthor, CommitAuthor
  <2>2. serving = Idle
    BY <2>1, SyncOpsAssumption DEF ServedIsDone
  <2>3. QED
    BY <1>2, <2>1, <2>2
<1>8. ASSUME Commit \/ RollBack \/ Crash PROVE Done
  BY <1>2, <1>8 DEF Commit, CommitApply, RollBack, Abort, Crash
<1>9. ASSUME NEW d \in Devices, NEW r \in Rows, NEW now \in Times, NEW cols \in Payloads[d],
             LocalWrite(d, r, now, cols)
      PROVE  Done
  BY <1>1, <1>9 DEF LocalWrite, storeVars
<1>10. ASSUME NEW d \in Devices, Send(d) PROVE Done
  BY <1>1, <1>10 DEF Send, storeVars
<1>11. ASSUME NEW q \in pulling, Respond(q) \/ FailPull(q) PROVE Done
  BY <1>1, <1>11 DEF Respond, FailPull, storeVars
<1>12. ASSUME NEW req \in net, Lose(req) PROVE Done
  BY <1>1, <1>12 DEF Lose, storeVars
<1>13. CASE UNCHANGED vars
  BY <1>1, <1>13 DEF vars
<1>14. QED
  BY <1>3, <1>4, <1>5, <1>6, <1>7, <1>8, <1>9, <1>10, <1>11, <1>12, <1>13 DEF Next

(* Calls and answers that are lost leave those of other devices as they were,
   and their own devices no longer wait. *)
LEMMA DropLive ==
    ASSUME OneLive, cursor' = cursor,
           net' \subseteq net, Served' \subseteq Served, pulling' \subseteq pulling,
           waiting' = StillWaiting((net \ net') \cup (Served \ Served') \cup (pulling \ pulling'))
    PROVE  OneLive'
<1> DEFINE gone == (net \ net') \cup (Served \ Served') \cup (pulling \ pulling')
<1> USE DEF Calls
<1>1. ASSUME NEW q \in Calls' \cup pulling', q.live
      PROVE  q.site \in waiting' /\ q.cursor = cursor'[q.site]
  <2>1. q.site \in waiting /\ q.cursor = cursor[q.site]
    BY <1>1 DEF OneLive
  <2>2. ASSUME NEW f \in gone, f.live, f.site = q.site PROVE FALSE
    <3>1. CASE f \in net \cup Served /\ q \in net' \cup Served'
      <4>1. f = q
        BY <1>1, <2>2, <3>1 DEF OneLive
      <4>2. f \in net \cap Served \/ f \in pulling
        BY <2>2, <3>1, <4>1
      <4>3. QED
        BY <1>1, <2>2, <3>1, <4>1, <4>2 DEF OneLive
    <3>2. CASE f \in pulling /\ q \in pulling'
      <4>1. f = q
        BY <1>1, <2>2, <3>2 DEF OneLive
      <4>2. f \in net \cup Served
        BY <2>2, <3>2, <4>1
      <4>3. QED
        BY <1>1, <2>2, <3>2, <4>2 DEF OneLive
    <3>3. CASE f \in pulling /\ q \in net' \cup Served'
      BY <1>1, <2>2, <3>3 DEF OneLive
    <3>4. CASE f \in net \cup Served /\ q \in pulling'
      BY <1>1, <2>2, <3>4 DEF OneLive
    <3>5. QED
      BY <1>1, <2>2, <3>1, <3>2, <3>3, <3>4
  <2>3. q.site \in waiting'
    BY <2>1, <2>2 DEF StillWaiting
  <2>4. QED
    BY <2>1, <2>3
<1>2. ASSUME NEW d \in waiting'
      PROVE  \E q \in Calls' \cup pulling' : q.live /\ q.site = d
  <2>1. d \in waiting /\ \A f \in gone : f.live => f.site # d
    BY DEF StillWaiting
  <2>2. PICK q \in Calls \cup pulling : q.live /\ q.site = d
    BY <2>1 DEF OneLive
  <2>3. QED
    BY <2>1, <2>2
<1>3. /\ \A q, p \in Calls' : q.live /\ p.live /\ q.site = p.site => q = p
      /\ \A q, p \in pulling' : q.live /\ p.live /\ q.site = p.site => q = p
      /\ \A q \in Calls', p \in pulling' : q.live /\ p.live => q.site # p.site
      /\ \A q \in net' \cap Served' : ~q.live
  BY DEF OneLive
<1>4. QED
  BY <1>1, <1>2, <1>3 DEF OneLive

(* A device that does not wait has no live call: the new one is its only one. *)
LEMMA SendLive ==
    ASSUME Inv, NEW d \in Devices, Send(d)
    PROVE  OneLive'
<1> USE DEF Inv, Calls
<1>1. /\ net' = net \cup {Request(d)} /\ waiting' = waiting \cup {d} /\ d \notin waiting
      /\ cursor' = cursor /\ Served' = Served /\ pulling' = pulling
  BY DEF Send, Served
<1>2. Request(d).live /\ Request(d).site = d /\ Request(d).cursor = cursor[d]
  BY RequestIs
<1>3. \A q \in Calls \cup pulling : q.live => q.site # d
  BY <1>1 DEF OneLive
<1>4. /\ \A q \in Calls' \cup pulling' : q.live => q.site \in waiting' /\ q.cursor = cursor'[q.site]
      /\ \A e \in waiting' : \E q \in Calls' \cup pulling' : q.live /\ q.site = e
  BY <1>1, <1>2 DEF OneLive
<1>5. /\ \A q, p \in Calls' : q.live /\ p.live /\ q.site = p.site => q = p
      /\ \A q, p \in pulling' : q.live /\ p.live /\ q.site = p.site => q = p
      /\ \A q \in Calls', p \in pulling' : q.live /\ p.live => q.site # p.site
      /\ \A q \in net' \cap Served' : ~q.live
  BY <1>1, <1>2, <1>3 DEF OneLive
<1>6. QED
  BY <1>4, <1>5 DEF OneLive

(* What is left that is live is not the device's that gave up. *)
LEMMA TimeoutLive ==
    ASSUME Inv, NEW d \in Devices, Timeout(d)
    PROVE  OneLive'
<1> USE DEF Inv, Calls
<1>1. /\ net' = {Abandon(d, q) : q \in net} /\ pulling' = {Abandon(d, q) : q \in pulling}
      /\ cursor' = cursor /\ waiting' = waiting \ {d}
  BY DEF Timeout
<1>2. Served' = {Abandon(d, q) : q \in Served}
  <2>1. CASE serving = Idle
    BY <2>1 DEF Timeout, Served
  <2>2. CASE serving # Idle
    <3>1. serving' = Abandon(d, serving) /\ serving \in Requests
      BY <2>2 DEF Timeout, Types
    <3>2. serving' # Idle
      BY <3>1, AbandonRequest, IdleAssumption
    <3>3. QED
      BY <2>2, <3>1, <3>2 DEF Served
  <2>3. QED
    BY <2>1, <2>2
<1>3. net \subseteq Requests /\ Served \subseteq Requests /\ pulling \subseteq Responses
  BY DEF Types, Served
<1>4. /\ \A q \in net : q.site # d => q \in net'
      /\ \A q \in Served : q.site # d => q \in Served'
      /\ \A q \in pulling : q.site # d => q \in pulling'
  <2>1. \A q \in Requests : q.site # d => Abandon(d, q) = q
    BY AbandonRequest
  <2>2. \A q \in Responses : q.site # d => Abandon(d, q) = q
    BY AbandonResponse
  <2>3. QED
    BY <1>1, <1>2, <1>3, <2>1, <2>2
<1>5. /\ \A q \in net' : q.live => q \in net /\ q.site # d
      /\ \A q \in Served' : q.live => q \in Served /\ q.site # d
      /\ \A q \in pulling' : q.live => q \in pulling /\ q.site # d
  <2>1. \A p \in Requests : Abandon(d, p).live => Abandon(d, p) = p /\ p.site # d
    BY AbandonRequest
  <2>2. \A p \in Responses : Abandon(d, p).live => Abandon(d, p) = p /\ p.site # d
    BY AbandonResponse
  <2>3. QED
    BY <1>1, <1>2, <1>3, <2>1, <2>2
<1>6. \A q \in Calls' \cup pulling' : q.live => q.site \in waiting' /\ q.cursor = cursor'[q.site]
  BY <1>1, <1>5 DEF OneLive
<1>7. \A e \in waiting' : \E q \in Calls' \cup pulling' : q.live /\ q.site = e
  <2>1. ASSUME NEW e \in waiting' PROVE \E q \in Calls' \cup pulling' : q.live /\ q.site = e
    <3>1. PICK q \in Calls \cup pulling : q.live /\ q.site = e
      BY <1>1 DEF OneLive
    <3>2. q \in Calls' \cup pulling'
      BY <1>1, <1>4, <3>1
    <3>3. QED
      BY <3>1, <3>2
  <2>2. QED
    BY <2>1
<1>8. /\ \A q, p \in Calls' : q.live /\ p.live /\ q.site = p.site => q = p
      /\ \A q, p \in pulling' : q.live /\ p.live /\ q.site = p.site => q = p
      /\ \A q \in Calls', p \in pulling' : q.live /\ p.live => q.site # p.site
      /\ \A q \in net' \cap Served' : ~q.live
  BY <1>5 DEF OneLive
<1>9. QED
  BY <1>6, <1>7, <1>8 DEF OneLive

(* A request that is served moves from the network to the transaction. *)
LEMMA ServeLive ==
    ASSUME Inv, NEW req \in net, Serve(req)
    PROVE  OneLive'
<1> USE DEF Inv, Calls
<1>1. /\ net' = net \ {req} /\ serving' = req /\ pulling' = pulling
      /\ cursor' = cursor /\ waiting' = waiting /\ tx = NoTx
  BY DEF Serve, BeginApply, Begin, deviceVars
<1>2. Served = {}
  BY <1>1 DEF ServedIsDone, Served
<1>3. Served' = {req}
  BY <1>1, IdleAssumption DEF Types, Served
<1>4. Calls' = Calls
  BY <1>1, <1>2, <1>3
<1>5. net' \cap Served' = {}
  BY <1>1, <1>3
<1> HIDE DEF Calls
<1>6. QED
  BY <1>1, <1>4, <1>5 DEF OneLive

(* The answer takes the place of the request. *)
LEMMA CommitLive ==
    ASSUME Inv, Commit
    PROVE  OneLive'
<1> USE DEF Inv, Calls
<1>1. /\ net' = net /\ serving' = Idle /\ pulling' = pulling \cup {Answer}
      /\ cursor' = cursor /\ waiting' = waiting
  BY DEF Commit, deviceVars, Answer
<1>2. Served = {serving} /\ Served' = {}
  BY <1>1, CommitIs DEF Served
<1>3. /\ Answer.site = serving.site /\ Answer.cursor = serving.cursor
      /\ Answer.live = serving.live
  BY CommitIs DEF Answer
<1>4. \A q \in Calls' \cup pulling' : q.live => q.site \in waiting' /\ q.cursor = cursor'[q.site]
  BY <1>1, <1>2, <1>3 DEF OneLive
<1>5. \A e \in waiting' : \E q \in Calls' \cup pulling' : q.live /\ q.site = e
  <2>1. ASSUME NEW e \in waiting' PROVE \E q \in Calls' \cup pulling' : q.live /\ q.site = e
    <3>1. PICK q \in Calls \cup pulling : q.live /\ q.site = e
      BY <1>1 DEF OneLive
    <3>2. CASE q = serving
      BY <1>1, <1>3, <3>1, <3>2
    <3>3. CASE q # serving
      BY <1>1, <1>2, <3>1, <3>3
    <3>4. QED
      BY <3>2, <3>3
  <2>2. QED
    BY <2>1
<1>6. \A q \in pulling' : q.live /\ Answer.live /\ q.site = Answer.site => q = Answer
  <2>1. \A q \in pulling : q.live /\ serving.live => q.site # serving.site
    BY <1>2 DEF OneLive
  <2>2. QED
    BY <1>1, <1>3, <2>1
<1>7. \A q \in net : q.live /\ Answer.live => q.site # Answer.site
  BY <1>2, <1>3 DEF OneLive
<1>8. /\ \A q, p \in Calls' : q.live /\ p.live /\ q.site = p.site => q = p
      /\ \A q, p \in pulling' : q.live /\ p.live /\ q.site = p.site => q = p
      /\ \A q \in Calls', p \in pulling' : q.live /\ p.live => q.site # p.site
      /\ \A q \in net' \cap Served' : ~q.live
  <2>1. \A q, p \in pulling' : q.live /\ p.live /\ q.site = p.site => q = p
    BY <1>1, <1>6 DEF OneLive
  <2>2. \A q \in Calls', p \in pulling' : q.live /\ p.live => q.site # p.site
    BY <1>1, <1>2, <1>7 DEF OneLive
  <2>3. QED
    BY <1>1, <1>2, <2>1, <2>2 DEF OneLive
<1>9. QED
  BY <1>4, <1>5, <1>8 DEF OneLive

(* A device that has its answer has no call left. *)
LEMMA RespondLive ==
    ASSUME Inv, NEW q \in pulling, Respond(q)
    PROVE  OneLive'
<1> USE DEF Inv, Calls
<1>1. net' = net /\ Served' = Served /\ pulling' = pulling \ {q}
  BY DEF Respond, Served
<1>2. CASE ~q.live
  <2>1. cursor' = cursor /\ waiting' = waiting
    BY <1>2 DEF Respond
  <2>2. waiting = StillWaiting((net \ net') \cup (Served \ Served') \cup (pulling \ pulling'))
    BY <1>1, <1>2 DEF StillWaiting
  <2>3. QED
    BY <1>1, <2>1, <2>2, DropLive
<1>3. CASE q.live
  <2>1. PICK c \in cursor[q.site] .. Len(log) : cursor' = [cursor EXCEPT ![q.site] = c]
    BY <1>3, RespondIs
  <2>2. waiting' = waiting \ {q.site}
    BY <1>3, RespondIs
  <2>3. \A p \in Calls' \cup pulling' : p.live => p.site # q.site /\ p.site \in Devices
    BY <1>1, <1>3 DEF OneLive, Types
  <2>4. \A p \in Calls' \cup pulling' : p.live => p.site \in waiting' /\ p.cursor = cursor'[p.site]
    BY <1>1, <2>1, <2>2, <2>3 DEF OneLive, Types
  <2>5. \A e \in waiting' : \E p \in Calls' \cup pulling' : p.live /\ p.site = e
    BY <1>1, <2>2 DEF OneLive
  <2>6. /\ \A s, p \in Calls' : s.live /\ p.live /\ s.site = p.site => s = p
        /\ \A s, p \in pulling' : s.live /\ p.live /\ s.site = p.site => s = p
        /\ \A s \in Calls', p \in pulling' : s.live /\ p.live => s.site # p.site
        /\ \A s \in net' \cap Served' : ~s.live
    BY <1>1 DEF OneLive
  <2>7. QED
    BY <2>4, <2>5, <2>6 DEF OneLive
<1>4. QED
  BY <1>2, <1>3

(* All the steps together. *)
LEMMA OneLiveStep ==
    ASSUME Inv, [Next]_vars
    PROVE  OneLive'
<1> USE DEF Inv
<1>1. CASE UNCHANGED <<net, serving, pulling, cursor, waiting>>
  BY <1>1 DEF OneLive, Calls, Served
<1>2. ASSUME NEW d \in Devices, NEW r \in Rows, NEW now \in Times, NEW cols \in Payloads[d],
             LocalWrite(d, r, now, cols)
      PROVE  OneLive'
  BY <1>1, <1>2 DEF LocalWrite
<1>3. ASSUME NEW d \in Devices, Send(d) \/ Timeout(d) PROVE OneLive'
  BY <1>3, SendLive, TimeoutLive
<1>4. ASSUME NEW req \in net, Serve(req) PROVE OneLive'
  BY <1>4, ServeLive
<1>5. ASSUME tx # NoTx, tx.todo # <<>>, Step(Head(tx.todo)) \/ MergeFault(Head(tx.todo))
      PROVE  OneLive'
  BY <1>1, <1>5 DEF Step, MergeFault, deviceVars
<1>6. ASSUME NEW r \in Rows, NEW cols \in Cols, NEW now \in Times,
             Author(<<[row |-> r, cols |-> cols]>>, now)
      PROVE  OneLive'
  BY <1>1, <1>6 DEF Author, deviceVars
<1>7. ASSUME FinishAuthor \/ UNCHANGED vars PROVE OneLive'
  BY <1>1, <1>7 DEF FinishAuthor, deviceVars, vars
<1>8. ASSUME NEW req \in net, Lose(req) PROVE OneLive'
  <2>1. /\ net' = net \ {req} /\ Served' = Served /\ pulling' = pulling /\ cursor' = cursor
        /\ waiting' = StillWaiting({req})
    BY <1>8 DEF Lose, Served
  <2>2. {req} = (net \ net') \cup (Served \ Served') \cup (pulling \ pulling')
    BY <2>1
  <2>3. QED
    BY <2>1, <2>2, DropLive
<1>9. ASSUME NEW q \in pulling, FailPull(q) PROVE OneLive'
  <2>1. /\ net' = net /\ Served' = Served /\ pulling' = pulling \ {q} /\ cursor' = cursor
        /\ waiting' = StillWaiting({q})
    BY <1>9 DEF FailPull, Served
  <2>2. {q} = (net \ net') \cup (Served \ Served') \cup (pulling \ pulling')
    BY <2>1
  <2>3. QED
    BY <2>1, <2>2, DropLive
<1>10. CASE RollBack
  <2>1. /\ net' = net /\ Served' = {} /\ pulling' = pulling /\ cursor' = cursor
        /\ waiting' = StillWaiting(Served)
    BY <1>10 DEF RollBack, Served
  <2>2. Served = (net \ net') \cup (Served \ Served') \cup (pulling \ pulling')
    BY <2>1
  <2>3. QED
    BY <2>1, <2>2, DropLive
<1>11. CASE Crash
  <2>1. /\ net' = net /\ Served' = {} /\ pulling' = {} /\ cursor' = cursor
        /\ waiting' = StillWaiting(pulling \cup Served)
    BY <1>11 DEF Crash, Served
  <2>2. pulling \cup Served = (net \ net') \cup (Served \ Served') \cup (pulling \ pulling')
    BY <2>1
  <2>3. QED
    BY <2>1, <2>2, DropLive
<1>12. QED
  BY <1>2, <1>3, <1>4, <1>5, <1>6, <1>7, <1>8, <1>9, <1>10, <1>11, CommitLive, RespondLive
     DEF Next

(* Nothing is written, sent or logged at first. *)
LEMMA InitInv == Init => Inv
<1> SUFFICES ASSUME Init PROVE Inv
  OBVIOUS
<1> USE DEF Init
<1>1. StoreInv /\ LogOps(<<>>) = {} /\ log = <<>>
  BY InitStoreInv DEF LogOps, StoreInit
<1>2. Types
  BY <1>1, ProtocolAssumption DEF Types
<1>3. Served = {} /\ Calls = {}
  BY DEF Served, Calls
<1>4. tx = NoTx /\ \A d \in Devices : refused[d] = {}
  BY DEF StoreInit
<1>5. OutboxIsOwn /\ CallsAreOwn /\ OneLive /\ ServedIsDone
  BY <1>3, <1>4 DEF OutboxIsOwn, CallsAreOwn, OneLive, ServedIsDone
<1>6. CallsResend /\ AnswersTellAll /\ NoSilentLoss
  BY <1>3 DEF CallsResend, AnswersTellAll, NoSilentLoss
<1>7. ReplicaIsMerge
  <2>1. \A d \in Devices : Received(d) = {}
    BY <1>1 DEF Received
  <2>2. QED
    BY <2>1 DEF ReplicaIsMerge, IsMerge
<1>8. QED
  BY <1>1, <1>2, <1>5, <1>6, <1>7 DEF Inv

(* The inductive invariant holds in every state of the protocol. *)
THEOREM ProtocolInvariant == Spec => []Inv
<1>1. Inv /\ [Next]_vars => Inv'
  <2> SUFFICES ASSUME Inv, [Next]_vars PROVE Inv'
    OBVIOUS
  <2>1. StoreInv' /\ Types' /\ OutboxIsOwn' /\ CallsAreOwn'
    BY StoreGrows, TypesStep, OutboxIsOwnStep, CallsAreOwnStep
  <2>2. OneLive' /\ ServedIsDone'
    BY OneLiveStep, ServedIsDoneStep
  <2>3. CallsResend' /\ AnswersTellAll' /\ NoSilentLoss' /\ ReplicaIsMerge'
    BY CallsResendStep, AnswersTellAllStep, NoSilentLossStep, ReplicaIsMergeStep
  <2>4. QED
    BY <2>1, <2>2, <2>3 DEF Inv
<1>2. QED
  BY InitInv, <1>1, PTL DEF Spec

(* The protocol is a user of the store that keeps to the store's own steps:
   all that is proved of the store is true of it under the protocol. *)
THEOREM ProtocolImplementsStore == Spec => StoreSpec
<1>1. Init => StoreInit
  BY DEF Init
<1>2. Inv /\ [Next]_vars => [StoreNext]_storeVars
  BY StoreStep
<1>3. QED
  BY <1>1, <1>2, ProtocolInvariant, PTL DEF Spec, StoreSpec

(* The changelog, the mirror, the waters and the server's op_seqs are sound
   under every interleaving of devices, lost calls, crashes and the author. *)
THEOREM ProtocolStoreIsSound == Spec => []StoreIsSound
BY ProtocolImplementsStore, StoreIsSoundHolds, PTL

(* ... and the store is a grow-only set of ops with its merged table. *)
THEOREM ProtocolImplementsMerge == Spec => ImplementsMerge
BY ProtocolImplementsStore, StoreImplementsMerge, PTL

(* A device waits exactly if one live call of its is somewhere. *)
LEMMA WaitingIsOneCall ==
    ASSUME Inv, NEW d \in Devices
    PROVE  d \in waiting <=>
             Cardinality({q \in net \cup pulling \cup Served : q.site = d /\ q.live}) = 1
<1> DEFINE live == {q \in net \cup pulling \cup Served : q.site = d /\ q.live}
<1>1. CASE d \in waiting
  <2>1. PICK q \in net \cup pulling \cup Served : q.live /\ q.site = d
    BY <1>1 DEF Inv, OneLive, Calls
  <2>2. \A p \in live : p = q
    BY <2>1 DEF Inv, OneLive, Calls
  <2>3. live = {q}
    BY <2>1, <2>2
  <2>4. QED
    BY <1>1, <2>3, FS_Singleton
<1>2. CASE d \notin waiting
  <2>1. live = {}
    BY <1>2 DEF Inv, OneLive, Calls
  <2>2. Cardinality(live) = 0
    BY <2>1, FS_EmptySet
  <2>3. QED
    BY <1>2, <2>2
<1>3. QED
  BY <1>1, <1>2

(* Types, no cursor past the end of the changelog, the transaction is that of
   the request being applied, and a device waits exactly for one live call. *)
THEOREM ProtocolTypeCorrect == Spec => []TypeOK
<1>1. Inv => TypeOK
  <2> SUFFICES ASSUME Inv PROVE TypeOK
    OBVIOUS
  <2>1. StoreTypeOK
    BY DEF Inv, StoreInv
  <2>2. cursor \in [Devices -> 0 .. Len(log)]
    <3>1. Len(log) \in Nat
      BY <2>1 DEF StoreTypeOK
    <3>2. QED
      BY <3>1 DEF Inv, Types
  <2>3. serving = Idle \/ (tx # NoTx /\ tx.site = serving.site)
    BY DEF Inv, ServedIsDone
  <2>4. QED
    BY <2>1, <2>2, <2>3, WaitingIsOneCall DEF Inv, Types, TypeOK
<1>2. QED
  BY <1>1, ProtocolInvariant, PTL

(* Whatever calls were lost, repeated or given up: an op that its device no
   longer sends is in the changelog, or the device was told it is refused. *)
THEOREM NoSilentLossHolds == Spec => []NoSilentLoss
<1>1. Inv => NoSilentLoss
  BY DEF Inv
<1>2. QED
  BY <1>1, ProtocolInvariant, PTL

(* Whatever pages and cursors a device went through, its rows are the merge
   of its own writes and of every op of the others up to its cursor. *)
THEOREM ReplicaIsMergeHolds == Spec => []ReplicaIsMerge
<1>1. Inv => ReplicaIsMerge
  BY DEF Inv
<1>2. QED
  BY <1>1, ProtocolInvariant, PTL

-----------------------------------------------------------------------------
(***************************************************************************)
(* The bridge.  Its invariant says of a page in the worker's hands what    *)
(* each step has left true, and of every other page that it is up to date. *)
(***************************************************************************)


(***************************************************************************)
(* Types.                                                                  *)
(***************************************************************************)

(* A push, a call or a fault has a version of its own. *)
LEMMA EventIs ==
    ASSUME BridgeTypeOK, Event
    PROVE  Fresh \in Versions /\ events' \in 0 .. MaxEvents /\ events \in Nat
BY BridgeAssumption DEF BridgeTypeOK, Event, Fresh, Versions

(* Nothing recognized is a body too. *)
LEMMA ZeroIsVersion == 0 \in Versions /\ 1 \in Versions /\ Empty \in Bodies
BY BridgeAssumption DEF Versions, Bodies, Empty

(* The backfill authors bodies that are in the index. *)
LEMMA UnauthoredType ==
    ASSUME index \in [Paths -> Bodies \cup {NoEntry}]
    PROVE  Unauthored \subseteq PageIds \X Bodies
BY DEF Unauthored, Paths

(* The database as the bridge finds it. *)
LEMMA TypeInit == BridgeInit => BridgeTypeOK
<1> SUFFICES ASSUME BridgeInit PROVE BridgeTypeOK
  OBVIOUS
<1>1. index \in [Paths -> Bodies \cup {NoEntry}] /\ embedded = index
  BY ZeroIsVersion DEF BridgeInit, Bodies
<1>2. row \in [PageIds -> PageRows]
  <2>1. ASSUME NEW p \in PageIds, \E nb \in Notebooks : <<nb, p>> \in Legacy
        PROVE  [notebook |-> CHOOSE nb \in Notebooks : <<nb, p>> \in Legacy,
                live |-> TRUE] \in PageRows
    <3>1. (CHOOSE nb \in Notebooks : <<nb, p>> \in Legacy) \in Notebooks
      BY <2>1
    <3>2. QED
      BY <3>1 DEF PageRows, Placed
  <2>2. NoPage \in PageRows
    BY DEF PageRows
  <2>3. row = [p \in PageIds |-> IF \E nb \in Notebooks : <<nb, p>> \in Legacy
                              THEN [notebook |-> CHOOSE nb \in Notebooks : <<nb, p>> \in Legacy,
                                    live |-> TRUE]
                              ELSE NoPage]
    BY DEF BridgeInit
  <2>4. QED
    BY <2>1, <2>2, <2>3
<1>3. strokes \in [PageIds -> Versions] /\ boxes \in [PageIds -> Versions]
  BY ZeroIsVersion DEF BridgeInit
<1>4. recognized \in [PageIds -> Bodies \cup {NoEntry}]
  BY DEF BridgeInit
<1>5. filling \subseteq PageIds \X Bodies
  BY <1>1, UnauthoredType DEF BridgeInit
<1>6. queue \in Seq(PageIds) /\ Len(queue) <= QueueCap
  BY BridgeAssumption DEF BridgeInit
<1>7. events \in 0 .. MaxEvents
  BY BridgeAssumption DEF BridgeInit
<1>8. QED
  BY <1>1, <1>2, <1>3, <1>4, <1>5, <1>6, <1>7 DEF BridgeInit, BridgeTypeOK

(* Pushes and edits. *)
LEMMA TypePush ==
    ASSUME BridgeTypeOK, NEW q \in PageIds,
           PushStrokes(q) \/ PushBoxes(q) \/ PushRow(q) \/ EditTextBox(q)
    PROVE  BridgeTypeOK'
<1>1. Event /\ committed' = committed \cup {<<events, q>>}
      /\ UNCHANGED <<derived, queue, worker, deleting, filling, lost>>
  BY DEF PushStrokes, PushBoxes, PushRow, EditTextBox, Push
<1>2. Fresh \in Versions /\ events' \in 0 .. MaxEvents /\ events \in Nat
  BY <1>1, EventIs
<1>3. row' \in [PageIds -> PageRows] /\ purged' \subseteq PageIds
  BY DEF PushStrokes, PushBoxes, PushRow, EditTextBox, BridgeTypeOK
<1>4. strokes' \in [PageIds -> Versions]
  BY <1>2, ZeroIsVersion DEF PushStrokes, PushBoxes, PushRow, EditTextBox, BridgeTypeOK
<1>5. boxes' \in [PageIds -> Versions]
  BY <1>2, ZeroIsVersion DEF PushStrokes, PushBoxes, PushRow, EditTextBox, BridgeTypeOK
<1>6. committed' \subseteq Nat \X PageIds
  BY <1>1, <1>2 DEF BridgeTypeOK
<1>7. QED
  BY <1>1, <1>2, <1>3, <1>4, <1>5, <1>6 DEF BridgeTypeOK, derived

(* Handing a page to the bridge queues it at the end, or loses it. *)
LEMMA EnqueueIs ==
    ASSUME BridgeTypeOK, NEW q \in PageIds, Enqueue(q)
    PROVE  /\ queue' \in Seq(PageIds) /\ Len(queue') <= QueueCap
           /\ lost' \subseteq PageIds /\ lost \subseteq lost'
           /\ \A i \in 1 .. Len(queue) : i \in 1 .. Len(queue') /\ queue'[i] = queue[i]
           /\ q \in lost' \/ \E i \in 1 .. Len(queue') : queue'[i] = q
<1>1. CASE Len(queue) < QueueCap
  <2>1. queue' = Append(queue, q) /\ lost' = lost
    BY <1>1 DEF Enqueue
  <2>2. Len(queue') = Len(queue) + 1 /\ queue'[Len(queue) + 1] = q /\ Len(queue) \in Nat
    BY <2>1 DEF BridgeTypeOK
  <2>3. QED
    BY <1>1, <2>1, <2>2, BridgeAssumption DEF BridgeTypeOK
<1>2. CASE ~(Len(queue) < QueueCap)
  BY <1>2 DEF Enqueue, BridgeTypeOK
<1>3. QED
  BY <1>1, <1>2

(* A handler that has committed tells the bridge, or fails. *)
LEMMA TypeHandler ==
    ASSUME BridgeTypeOK, NEW c \in committed, PagesChanged(c) \/ FailChangelog(c)
    PROVE  BridgeTypeOK'
<1>1. c[2] \in PageIds
  BY DEF BridgeTypeOK
<1>2. CASE PagesChanged(c)
  <2>1. Enqueue(c[2])
    BY <1>2 DEF PagesChanged
  <2>2. queue' \in Seq(PageIds) /\ Len(queue') <= QueueCap /\ lost' \subseteq PageIds
    BY <1>1, <2>1, EnqueueIs
  <2>3. QED
    BY <1>2, <2>2 DEF PagesChanged, BridgeTypeOK, content, derived
<1>3. CASE FailChangelog(c)
  <2>1. events' \in 0 .. MaxEvents
    BY <1>3, EventIs DEF FailChangelog
  <2>2. QED
    BY <1>1, <1>3, <2>1 DEF FailChangelog, BridgeTypeOK, content, derived
<1>4. QED
  BY <1>2, <1>3

(* The steps of the worker, apart from taking a page. *)
Worker ==
    \/ LivePage \/ LivePageStrokes \/ LivePageTextBoxes \/ FailRead
    \/ Recognize \/ IndexPage \/ AuthorText \/ Embed
    \/ DropIndex \/ DropEmbedding \/ DropText

(* Each is a step on the page it holds, and is done or fails. *)
LEMMA WorkerMoves ==
    ASSUME Worker
    PROVE  /\ UNCHANGED <<content, committed, queue, deleting, filling, purged>>
           /\ worker # Waiting
           /\ Worked \/ Failed
<1>1. UNCHANGED <<content, committed, queue, deleting, filling, purged>>
  BY DEF Worker, LivePage, LivePageStrokes, LivePageTextBoxes, FailRead, Recognize,
       IndexPage, AuthorText, Embed, DropIndex, DropEmbedding, DropText, Keep
<1>2. worker # Waiting
  BY DEF Worker, LivePage, LivePageStrokes, LivePageTextBoxes, FailRead, Recognize,
       IndexPage, AuthorText, Embed, DropIndex, DropEmbedding, DropText, Doing
<1>3. Worked \/ Failed
  BY DEF Worker, LivePage, LivePageStrokes, LivePageTextBoxes, FailRead, Recognize,
       IndexPage, AuthorText, Embed, DropIndex, DropEmbedding, DropText
<1>4. QED
  BY <1>1, <1>2, <1>3

(* Removing an entry leaves a table of the same type. *)
LEMMA RemoveType ==
    ASSUME NEW g \in [Paths -> Bodies \cup {NoEntry}]
    PROVE  Remove(g) \in [Paths -> Bodies \cup {NoEntry}]
BY DEF Remove

(* What the worker writes is of the types of the tables it is written to. *)
LEMMA WorkerWrites ==
    ASSUME BridgeTypeOK, Worker
    PROVE  /\ index' \in [Paths -> Bodies \cup {NoEntry}]
           /\ recognized' \in [PageIds -> Bodies \cup {NoEntry}]
           /\ embedded' \in [Paths -> Bodies \cup {NoEntry}]
<1>1. worker \in Works /\ worker.body \in Bodies
  BY WorkerMoves DEF BridgeTypeOK, Works
<1>2. index' = index \/ index' = Remove(index) \/ index' = [index EXCEPT ![Path] = worker.body]
  BY DEF Worker, LivePage, LivePageStrokes, LivePageTextBoxes, FailRead, Recognize, derived,
       IndexPage, AuthorText, Embed, DropIndex, DropEmbedding, DropText
<1>3. embedded' = embedded \/ embedded' = Remove(embedded)
      \/ embedded' = [embedded EXCEPT ![Path] = worker.body]
  BY DEF Worker, LivePage, LivePageStrokes, LivePageTextBoxes, FailRead, Recognize, derived,
       IndexPage, AuthorText, Embed, DropIndex, DropEmbedding, DropText
<1>4. recognized' = recognized \/ recognized' = [recognized EXCEPT ![worker.page] = Empty]
      \/ recognized' = [recognized EXCEPT ![worker.page] = worker.body]
  BY DEF Worker, LivePage, LivePageStrokes, LivePageTextBoxes, FailRead, Recognize, derived,
       IndexPage, AuthorText, Embed, DropIndex, DropEmbedding, DropText
<1>5. QED
  BY <1>1, <1>2, <1>3, <1>4, RemoveType, ZeroIsVersion DEF BridgeTypeOK

(* The worker goes on with its page, or is idle. *)
LEMMA WorkerRecord ==
    ASSUME BridgeTypeOK, Worker
    PROVE  worker' \in Works \cup {Waiting}
<1>1. worker \in Works
  BY WorkerMoves DEF BridgeTypeOK
<1> USE DEF Works, Reads, Writes, Drops
<1>2. CASE LivePage
  <2>1. row[worker.page] = NoPage \/ row[worker.page].notebook \in Notebooks
    BY <1>1 DEF BridgeTypeOK, PageRows, Placed
  <2>2. QED
    BY <1>1, <1>2, <2>1 DEF LivePage
<1>3. CASE LivePageStrokes
  BY <1>1, <1>3 DEF LivePageStrokes, BridgeTypeOK
<1>4. CASE LivePageTextBoxes
  <2>1. boxes[worker.page] \in Versions
    BY <1>1 DEF BridgeTypeOK
  <2>2. QED
    BY <1>1, <1>4, <2>1 DEF LivePageTextBoxes
<1>5. CASE FailRead \/ Embed \/ DropText
  BY <1>5 DEF FailRead, Embed, DropText
<1>6. CASE Recognize
  <2>1. <<worker.strokes, worker.boxes>> \in Bodies /\ <<0, worker.boxes>> \in Bodies
    BY <1>1, ZeroIsVersion DEF Bodies
  <2>2. QED
    BY <1>1, <1>6, <2>1 DEF Recognize
<1>7. CASE IndexPage \/ AuthorText \/ DropIndex \/ DropEmbedding
  BY <1>1, <1>7 DEF IndexPage, AuthorText, DropIndex, DropEmbedding, Goto
<1>8. QED
  BY <1>2, <1>3, <1>4, <1>5, <1>6, <1>7 DEF Worker

(* Only the page the worker holds can be lost. *)
LEMMA WorkerLoses ==
    ASSUME BridgeTypeOK, Worker
    PROVE  /\ lost' = lost \/ lost' = lost \cup {worker.page}
           /\ lost' \subseteq PageIds /\ events' \in 0 .. MaxEvents
<1>1. worker \in Works
  BY WorkerMoves DEF BridgeTypeOK
<1>2. worker.page \in PageIds
  BY <1>1 DEF Works
<1>3. CASE Worked
  BY <1>3 DEF Worked, BridgeTypeOK
<1>4. CASE Failed
  <2>1. events' \in 0 .. MaxEvents
    BY <1>4, EventIs DEF Failed
  <2>2. QED
    BY <1>2, <1>4, <2>1 DEF Failed, BridgeTypeOK
<1>5. QED
  BY <1>3, <1>4, WorkerMoves

(* Types through a step of the worker. *)
LEMMA TypeWorker == ASSUME BridgeTypeOK, Worker PROVE BridgeTypeOK'
<1>1. UNCHANGED <<row, strokes, boxes, committed, queue, deleting, filling, purged>>
  BY WorkerMoves DEF content
<1>2. QED
  BY <1>1, WorkerWrites, WorkerRecord, WorkerLoses DEF BridgeTypeOK

(* A taken page was queued. *)
LEMMA TypeTake == ASSUME BridgeTypeOK, Take PROVE BridgeTypeOK'
<1>1. Head(queue) \in PageIds /\ Tail(queue) \in Seq(PageIds) /\ Len(Tail(queue)) <= QueueCap
  BY BridgeAssumption DEF Take, BridgeTypeOK
<1>2. worker' \in Works
  BY <1>1, ZeroIsVersion DEF Take, Works, Reads, Writes, Drops
<1>3. QED
  BY <1>1, <1>2 DEF Take, BridgeTypeOK, content, derived

(* Deleting a notebook. *)
LEMMA TypeDeletion ==
    ASSUME BridgeTypeOK, NEW x \in deleting, TombstoneNotebook(x) \/ DeindexPage(x)
    PROVE  BridgeTypeOK'
<1>1. x \in Deletions
  BY DEF BridgeTypeOK
<1>2. CASE TombstoneNotebook(x)
  <2>1. row' \in [PageIds -> PageRows]
    <3>1. [notebook |-> x.notebook, live |-> FALSE] \in PageRows
      BY <1>1 DEF Deletions, PageRows, Placed
    <3>2. QED
      BY <1>2, <3>1 DEF TombstoneNotebook, BridgeTypeOK
  <2>2. strokes' \in [PageIds -> Versions]
    BY <1>2, ZeroIsVersion DEF TombstoneNotebook, BridgeTypeOK
  <2>3. recognized' \in [PageIds -> Bodies \cup {NoEntry}]
    BY <1>2, ZeroIsVersion DEF TombstoneNotebook, BridgeTypeOK
  <2>4. deleting' \subseteq Deletions /\ purged' \subseteq PageIds
    <3>1. [x EXCEPT !.stage = "deindex"] \in Deletions
      BY <1>1 DEF Deletions
    <3>2. x.pages \subseteq PageIds
      BY <1>1 DEF Deletions
    <3>3. QED
      BY <1>2, <3>1, <3>2 DEF TombstoneNotebook, BridgeTypeOK
  <2>5. QED
    BY <1>2, <2>1, <2>2, <2>3, <2>4 DEF TombstoneNotebook, BridgeTypeOK
<1>3. CASE DeindexPage(x)
  <2>1. PICK q \in x.pages :
          /\ index' = [index EXCEPT ![PathOf(x.notebook, q)] = NoEntry]
          /\ embedded' = [embedded EXCEPT ![PathOf(x.notebook, q)] = NoEntry]
          /\ lost' = IF q \in purged THEN lost ELSE lost \cup {q}
          /\ deleting' = (deleting \ {x}) \cup
                (IF x.pages = {q} THEN {} ELSE {[x EXCEPT !.pages = @ \ {q}]})
    BY <1>3 DEF DeindexPage
  <2>2. q \in PageIds /\ [x EXCEPT !.pages = @ \ {q}] \in Deletions
    BY <1>1 DEF Deletions
  <2>3. index' \in [Paths -> Bodies \cup {NoEntry}]
    BY <2>1 DEF BridgeTypeOK
  <2>4. embedded' \in [Paths -> Bodies \cup {NoEntry}]
    BY <2>1 DEF BridgeTypeOK
  <2>5. lost' \subseteq PageIds /\ deleting' \subseteq Deletions
    BY <2>1, <2>2 DEF BridgeTypeOK
  <2>6. QED
    BY <1>3, <2>3, <2>4, <2>5 DEF DeindexPage, BridgeTypeOK, content
<1>4. QED
  BY <1>2, <1>3

(* Asking for a deletion or for reprocessing. *)
LEMMA TypeAsk ==
    ASSUME BridgeTypeOK, NEW nb \in Notebooks, ReadNotebook(nb) \/ ReprocessNotebook(nb)
    PROVE  BridgeTypeOK'
<1>1. LiveIn(nb) \subseteq PageIds
  BY DEF LiveIn
<1>2. events' \in 0 .. MaxEvents /\ events \in Nat
  BY EventIs DEF ReadNotebook, ReprocessNotebook
<1>3. CASE ReadNotebook(nb)
  <2>1. [p \in LiveIn(nb) |-> strokes[p]] \in [LiveIn(nb) -> Versions]
    BY <1>1 DEF BridgeTypeOK
  <2>2. [p \in LiveIn(nb) |-> strokes[p]] \in Snapshots
    BY <1>1, <2>1 DEF Snapshots
  <2>3. [notebook |-> nb, stage |-> "author", pages |-> LiveIn(nb),
         strokes |-> [p \in LiveIn(nb) |-> strokes[p]]] \in Deletions
    BY <1>1, <2>2 DEF Deletions
  <2>4. deleting' \subseteq Deletions
    BY <1>3, <2>3 DEF ReadNotebook, BridgeTypeOK
  <2>5. QED
    BY <1>2, <1>3, <2>4 DEF ReadNotebook, BridgeTypeOK, content, derived
<1>4. CASE ReprocessNotebook(nb)
  <2>1. committed' \subseteq Nat \X PageIds
    BY <1>1, <1>2, <1>4 DEF ReprocessNotebook, BridgeTypeOK
  <2>2. QED
    BY <1>2, <1>4, <2>1 DEF ReprocessNotebook, BridgeTypeOK, content, derived
<1>5. QED
  BY <1>3, <1>4

(* What a restart loses are pages. *)
LEMMA TypeRestart == ASSUME BridgeTypeOK, Restart PROVE BridgeTypeOK'
<1>1. \A c \in committed : c[2] \in PageIds
  BY DEF BridgeTypeOK
<1>2. \A i \in 1 .. Len(queue) : queue[i] \in PageIds
  BY DEF BridgeTypeOK
<1>3. worker # Waiting => worker.page \in PageIds
  BY DEF BridgeTypeOK, Works
<1>4. \A x \in deleting : x.pages \subseteq PageIds
  BY DEF BridgeTypeOK, Deletions
<1>5. lost' \subseteq PageIds
  <2>1. {c[2] : c \in committed} \subseteq PageIds
    BY <1>1
  <2>2. {queue[i] : i \in 1 .. Len(queue)} \subseteq PageIds
    BY <1>2
  <2>3. UNION {x.pages : x \in deleting} \subseteq PageIds
    BY <1>4
  <2>4. QED
    BY <1>3, <2>1, <2>2, <2>3 DEF Restart, BridgeTypeOK
<1>6. queue' \in Seq(PageIds) /\ Len(queue') <= QueueCap
  BY BridgeAssumption DEF Restart
<1>7. filling' \subseteq PageIds \X Bodies
  BY UnauthoredType DEF Restart, BridgeTypeOK
<1>8. events' \in 0 .. MaxEvents
  BY EventIs DEF Restart
<1>9. QED
  BY <1>5, <1>6, <1>7, <1>8 DEF Restart, BridgeTypeOK, content, derived

(* The backfill. *)
LEMMA TypeBackfill == ASSUME BridgeTypeOK, NEW f \in filling, Backfill(f) PROVE BridgeTypeOK'
<1>1. f[1] \in PageIds /\ f[2] \in Bodies
  BY DEF BridgeTypeOK
<1>2. events' \in 0 .. MaxEvents
  BY EventIs DEF Backfill, BridgeTypeOK
<1>3. recognized' \in [PageIds -> Bodies \cup {NoEntry}]
  BY <1>1 DEF Backfill, BridgeTypeOK
<1>4. QED
  BY <1>1, <1>2, <1>3 DEF Backfill, BridgeTypeOK, content

(* No step leaves the types. *)
LEMMA TypeStep == ASSUME BridgeTypeOK, [BridgeNext]_bridgeVars PROVE BridgeTypeOK'
<1>1. CASE \E p \in PageIds : PushStrokes(p) \/ PushBoxes(p) \/ PushRow(p) \/ EditTextBox(p)
  BY <1>1, TypePush
<1>2. CASE \E c \in committed : PagesChanged(c) \/ FailChangelog(c)
  BY <1>2, TypeHandler
<1>3. CASE Work
  BY <1>3, TypeTake, TypeWorker DEF Work, Worker
<1>4. CASE \E nb \in Notebooks : ReadNotebook(nb) \/ ReprocessNotebook(nb)
  BY <1>4, TypeAsk
<1>5. CASE \E x \in deleting : TombstoneNotebook(x) \/ DeindexPage(x)
  BY <1>5, TypeDeletion
<1>6. CASE Restart
  BY <1>6, TypeRestart
<1>7. CASE \E f \in filling : Backfill(f)
  BY <1>7, TypeBackfill
<1>8. CASE UNCHANGED bridgeVars
  BY <1>8 DEF bridgeVars, content, derived, pending, BridgeTypeOK
<1>9. QED
  BY <1>1, <1>2, <1>3, <1>4, <1>5, <1>6, <1>7, <1>8 DEF BridgeNext

(***************************************************************************)
(* The invariant.                                                          *)
(***************************************************************************)

(* Page p will be taken (again) by the worker, or its work was lost. *)
Owed(p) ==
    \/ p \in lost
    \/ \E c \in committed : c[2] = p
    \/ \E i \in 1 .. Len(queue) : queue[i] = p

Busy(p) == worker # Waiting /\ worker.page = p

(* What the worker has read of page p is what is there. *)
HasRow(p) == worker.notebook = row[p].notebook /\ row[p].live
HasRead(p) == HasRow(p) /\ worker.strokes = strokes[p] /\ worker.boxes = boxes[p]

(* The worker writes what is on page p, and has written it so far. *)
Writing(p) ==
    /\ worker.stage \in Writes
    /\ HasRead(p)
    /\ ~(worker.strokes = 0 /\ worker.boxes = 0)
    /\ worker.stage # "ocr" => worker.body = <<worker.strokes, worker.boxes>>
    /\ worker.stage \in {"author", "embed"} => index[Home(p)] = worker.body
    /\ worker.stage = "embed" => recognized[p] = worker.body

(* The worker drops page p, on which there is nothing. *)
Dropping(p) ==
    /\ worker.stage \in Drops
    /\ worker.notebook = row[p].notebook
    /\ ~HasBody(p) /\ (HasRow(p) => HasRead(p))
    /\ worker.stage # "unindex" => index[Home(p)] = NoEntry
    /\ worker.stage = "untext" => embedded[Home(p)] = NoEntry

(* The worker will bring page p up to date. *)
Underway(p) ==
    \/ worker.stage = "live"
    \/ worker.stage = "strokes" /\ HasRow(p)
    \/ worker.stage = "boxes" /\ HasRow(p) /\ worker.strokes = strokes[p]
    \/ Writing(p)
    \/ Dropping(p)

(* Devices have the text of page p, or the backfill is about to author it
   and nothing else. *)
Texted(p) ==
    \/ recognized[p] = Body(p)
    \/ /\ recognized[p] = NoEntry
       /\ <<p, Body(p)>> \in filling
       /\ \A nb \in Notebooks : index[PathOf(nb, p)] \in {NoEntry, Body(p)}
       /\ \A f \in filling : f[1] = p => f[2] = Body(p)

(* The index, the vectors and the page text are those of the page. *)
UpToDate(p) ==
    IF HasBody(p)
    THEN index[Home(p)] = Body(p) /\ embedded[Home(p)] = Body(p) /\ Texted(p)
    ELSE index[Home(p)] = NoEntry /\ embedded[Home(p)] = NoEntry /\ recognized[p] = Empty

(* A page that no work is owed to is in the worker's hands or up to date. *)
Sound(p) ==
    row[p] # NoPage /\ p \notin purged /\ ~Owed(p) =>
        IF Busy(p) THEN Underway(p) ELSE UpToDate(p)

BridgeInv == BridgeTypeOK /\ \A p \in PageIds : Sound(p)

(* Nothing about page p has changed, except that more is owed to it. *)
Same(p) ==
    /\ row'[p] = row[p] /\ strokes'[p] = strokes[p] /\ boxes'[p] = boxes[p]
    /\ recognized'[p] = recognized[p]
    /\ \A nb \in Notebooks : /\ index'[PathOf(nb, p)] = index[PathOf(nb, p)]
                             /\ embedded'[PathOf(nb, p)] = embedded[PathOf(nb, p)]
    /\ \A f \in PageIds \X Bodies : f[1] = p => (f \in filling' <=> f \in filling)
    /\ IF Busy(p) THEN worker' = worker ELSE ~Busy(p)'
    /\ Owed(p) => Owed(p)'
    /\ p \notin purged' => p \notin purged

(* A page with a row has a path. *)
LEMMA HomeIs ==
    ASSUME BridgeTypeOK, NEW p \in PageIds, row[p] # NoPage
    PROVE  /\ row[p].notebook \in Notebooks /\ row[p].live \in BOOLEAN
           /\ Home(p) = PathOf(row[p].notebook, p)
           /\ Home(p) \in Paths
BY DEF BridgeTypeOK, PageRows, Placed, Home, PathOf, Paths

(* A step that does not concern page p keeps what is said of it. *)
LEMMA SameSound ==
    ASSUME BridgeTypeOK, BridgeTypeOK', NEW p \in PageIds, Sound(p), Same(p)
    PROVE  Sound(p)'
<1> SUFFICES ASSUME row'[p] # NoPage, p \notin purged', ~Owed(p)'
             PROVE  (IF Busy(p) THEN Underway(p) ELSE UpToDate(p))'
  BY DEF Sound
<1>1. row[p] # NoPage /\ p \notin purged /\ ~Owed(p)
  BY DEF Same
<1>2. row'[p] = row[p] /\ strokes'[p] = strokes[p] /\ boxes'[p] = boxes[p]
      /\ recognized'[p] = recognized[p]
  BY DEF Same
<1>3. Home(p)' = Home(p) /\ HasBody(p)' = HasBody(p) /\ Body(p)' = Body(p)
  BY <1>2 DEF Home, HasBody, Body
<1>4. index'[Home(p)] = index[Home(p)] /\ embedded'[Home(p)] = embedded[Home(p)]
  BY <1>1, HomeIs DEF Same
<1>5. CASE Busy(p)
  <2>1. worker' = worker /\ Busy(p)'
    BY <1>5 DEF Same, Busy
  <2>2. Underway(p)
    BY <1>1, <1>5 DEF Sound
  <2>3. Writing(p) => Writing(p)'
    BY <1>2, <1>3, <1>4, <2>1 DEF Writing, HasRead, HasRow
  <2>4. Dropping(p) => Dropping(p)'
    BY <1>2, <1>3, <1>4, <2>1 DEF Dropping, HasRow, HasRead
  <2>5. Underway(p)'
    BY <1>2, <2>1, <2>2, <2>3, <2>4 DEF Underway, HasRow
  <2>6. QED
    BY <2>1, <2>5
<1>6. CASE ~Busy(p)
  <2>1. ~Busy(p)'
    BY <1>6 DEF Same
  <2>2. UpToDate(p)
    BY <1>1, <1>6 DEF Sound
  <2>3. Texted(p) => Texted(p)'
    <3>1. SUFFICES ASSUME recognized[p] = NoEntry, <<p, Body(p)>> \in filling,
                          \A nb \in Notebooks : index[PathOf(nb, p)] \in {NoEntry, Body(p)},
                          \A f \in filling : f[1] = p => f[2] = Body(p)
                   PROVE  Texted(p)'
      BY <1>2, <1>3 DEF Texted
    <3>2. \A nb \in Notebooks : index'[PathOf(nb, p)] \in {NoEntry, Body(p)}
      BY <3>1 DEF Same
    <3>3. \A f \in filling' : f[1] = p => f \in filling
      BY DEF Same, BridgeTypeOK
    <3>4. <<p, Body(p)>> \in filling'
      BY <3>1 DEF Same, BridgeTypeOK
    <3>5. \A nb : PathOf(nb, p)' = PathOf(nb, p)
      BY DEF PathOf
    <3>6. QED
      BY <1>2, <1>3, <3>1, <3>2, <3>3, <3>4, <3>5 DEF Texted
  <2>4. UpToDate(p)'
    BY <1>2, <1>3, <1>4, <2>2, <2>3 DEF UpToDate
  <2>5. QED
    BY <2>1, <2>4
<1>7. QED
  BY <1>5, <1>6

(* Nothing is asked of a page that more work is owed to. *)
LEMMA OwedSound == ASSUME NEW p \in PageIds, Owed(p)' PROVE Sound(p)'
BY DEF Sound

(* Pages indexed before page text existed are left to the backfill. *)
LEMMA InitSound == ASSUME BridgeInit, NEW p \in PageIds PROVE Sound(p)
<1> SUFFICES ASSUME row[p] # NoPage PROVE UpToDate(p) /\ ~Busy(p)
  BY DEF Sound
<1>1. BridgeTypeOK
  BY TypeInit
<1>2. strokes[p] = 1 /\ boxes[p] = 0 /\ recognized[p] = NoEntry
  BY DEF BridgeInit
<1>3. row[p].live /\ Home(p) \in Legacy
  <2>1. \E nb \in Notebooks : <<nb, p>> \in Legacy
    BY DEF BridgeInit
  <2>2. row[p] = [notebook |-> CHOOSE nb \in Notebooks : <<nb, p>> \in Legacy, live |-> TRUE]
    BY <2>1 DEF BridgeInit
  <2>3. QED
    BY <2>1, <2>2 DEF Home, PathOf
<1>4. Body(p) = <<1, 0>> /\ HasBody(p)
  BY <1>2, <1>3 DEF Body, HasBody
<1>5. \A nb \in Notebooks : index[PathOf(nb, p)] \in {NoEntry, Body(p)}
  BY <1>4 DEF BridgeInit, PathOf, Paths
<1>6. index[Home(p)] = Body(p) /\ embedded[Home(p)] = Body(p) /\ Home(p) \in Paths
  BY <1>1, <1>3, <1>4, HomeIs DEF BridgeInit
<1>7. Body(p) \notin {NoEntry, Empty}
  BY <1>4, ZeroIsVersion, AbsentAssumption DEF Empty, Bodies
<1>8. <<p, Body(p)>> \in Unauthored
  <2>1. Home(p)[2] = p
    BY DEF Home, PathOf
  <2>2. QED
    BY <1>2, <1>3, <1>6, <1>7, <2>1 DEF Unauthored
<1>9. \A f \in Unauthored : f[1] = p => f[2] = Body(p)
  <2> SUFFICES ASSUME NEW f \in Unauthored, f[1] = p PROVE f[2] = Body(p)
    OBVIOUS
  <2>1. PICK x \in Paths : f = <<x[2], index[x]>> /\ index[x] # NoEntry
    BY DEF Unauthored
  <2>2. x = PathOf(x[1], p) /\ x[1] \in Notebooks
    BY <2>1 DEF Paths, PathOf
  <2>3. QED
    BY <1>5, <2>1, <2>2
<1>10. Texted(p)
  BY <1>2, <1>5, <1>8, <1>9 DEF BridgeInit, Texted
<1>11. QED
  BY <1>4, <1>6, <1>10 DEF UpToDate, BridgeInit, Busy

(* A page that is pushed to or edited is owed work; the others are not
   touched. *)
LEMMA SoundPush ==
    ASSUME BridgeTypeOK, BridgeTypeOK', NEW p \in PageIds, Sound(p), NEW q \in PageIds,
           PushStrokes(q) \/ PushBoxes(q) \/ PushRow(q) \/ EditTextBox(q)
    PROVE  Sound(p)'
<1>1. /\ committed' = committed \cup {<<events, q>>}
      /\ UNCHANGED <<recognized, index, embedded, queue, worker, filling, lost>>
  BY DEF PushStrokes, PushBoxes, PushRow, EditTextBox, Push, derived
<1>2. CASE p = q
  <2>1. <<events, q>> \in committed'
    BY <1>1
  <2>2. Owed(p)'
    BY <1>2, <2>1 DEF Owed
  <2>3. QED
    BY <2>2, OwedSound
<1>3. CASE p # q
  <2>1. row'[p] = row[p] /\ strokes'[p] = strokes[p] /\ boxes'[p] = boxes[p]
        /\ (p \notin purged' => p \notin purged)
    BY <1>3 DEF PushStrokes, PushBoxes, PushRow, EditTextBox, BridgeTypeOK
  <2>2. Owed(p) => Owed(p)'
    BY <1>1 DEF Owed
  <2>3. Same(p)
    BY <1>1, <2>1, <2>2 DEF Same, Busy
  <2>4. QED
    BY <2>3, SameSound
<1>4. QED
  BY <1>2, <1>3

(* Telling the bridge moves what is owed, or records that it is lost. *)
LEMMA SoundHandler ==
    ASSUME BridgeTypeOK, BridgeTypeOK', NEW p \in PageIds, Sound(p), NEW c \in committed,
           PagesChanged(c) \/ FailChangelog(c)
    PROVE  Sound(p)'
<1>1. UNCHANGED <<row, strokes, boxes, recognized, index, embedded, worker, filling, purged>>
      /\ committed' = committed \ {c}
  BY DEF PagesChanged, FailChangelog, content, derived
<1>2. c[2] \in PageIds
  BY DEF BridgeTypeOK
<1>3. /\ lost \subseteq lost'
      /\ \A i \in 1 .. Len(queue) : i \in 1 .. Len(queue') /\ queue'[i] = queue[i]
      /\ c[2] \in lost' \/ \E i \in 1 .. Len(queue') : queue'[i] = c[2]
  <2>1. CASE PagesChanged(c)
    BY <1>2, <2>1, EnqueueIs DEF PagesChanged
  <2>2. CASE FailChangelog(c)
    BY <2>2 DEF FailChangelog
  <2>3. QED
    BY <2>1, <2>2
<1>4. Owed(p) => Owed(p)'
  BY <1>1, <1>3 DEF Owed
<1>5. Same(p)
  BY <1>1, <1>4 DEF Same, Busy
<1>6. QED
  BY <1>5, SameSound

(* The page that the worker takes is in its hands, the others stay queued. *)
LEMMA SoundTake ==
    ASSUME BridgeTypeOK, BridgeTypeOK', NEW p \in PageIds, Sound(p), Take
    PROVE  Sound(p)'
<1>1. /\ worker = Waiting /\ queue # <<>> /\ queue \in Seq(PageIds)
      /\ worker' = [page |-> Head(queue), stage |-> "live", notebook |-> NoPage,
                    strokes |-> 0, boxes |-> 0, body |-> Empty]
      /\ queue' = Tail(queue)
      /\ lost' = lost \ {Head(queue)}
      /\ UNCHANGED <<row, strokes, boxes, recognized, index, embedded, committed, filling, purged>>
  BY DEF Take, content, derived, BridgeTypeOK
<1>2. worker'.page = Head(queue) /\ worker'.stage = "live"
  BY <1>1
<1>3. worker' # Waiting
  <2>1. worker' \in Works
    BY <1>1, ZeroIsVersion DEF Works, Reads
  <2>2. QED
    BY <2>1, AbsentAssumption
<1>4. CASE p = Head(queue)
  BY <1>2, <1>3, <1>4 DEF Sound, Busy, Underway
<1>5. CASE p # Head(queue)
  <2>1. ~Busy(p) /\ ~Busy(p)'
    BY <1>1, <1>2, <1>5 DEF Busy
  <2>2. Owed(p) => Owed(p)'
    <3>1. ASSUME NEW i \in 1 .. Len(queue), queue[i] = p
          PROVE  \E j \in 1 .. Len(queue') : queue'[j] = p
      <4>1. i # 1
        BY <1>1, <1>5, <3>1
      <4>2. i - 1 \in 1 .. Len(queue') /\ queue'[i - 1] = p
        BY <1>1, <3>1, <4>1
      <4>3. QED
        BY <4>2
    <3>2. QED
      BY <1>1, <1>5, <3>1 DEF Owed
  <2>3. Same(p)
    BY <1>1, <2>1, <2>2 DEF Same
  <2>4. QED
    BY <2>3, SameSound
<1>6. QED
  BY <1>4, <1>5

(* A restart loses what was on its way, and looks again for page texts to
   author. *)
LEMMA SoundRestart ==
    ASSUME BridgeTypeOK, BridgeTypeOK', NEW p \in PageIds, Sound(p), Restart
    PROVE  Sound(p)'
<1>1. /\ lost' = lost \cup {c[2] : c \in committed} \cup {queue[i] : i \in 1 .. Len(queue)}
                      \cup (IF worker = Waiting THEN {} ELSE {worker.page})
                      \cup UNION {x.pages : x \in deleting}
      /\ worker' = Waiting /\ filling' = Unauthored
      /\ UNCHANGED <<row, strokes, boxes, recognized, index, embedded, purged>>
  BY DEF Restart, content, derived
<1>2. SUFFICES ASSUME row[p] # NoPage, p \notin purged, p \notin lost'
               PROVE  UpToDate(p)' /\ ~Busy(p)'
  BY <1>1 DEF Sound, Owed
<1>3. ~Owed(p) /\ ~Busy(p)
  <2>1. \A c \in committed : c[2] # p
    BY <1>1, <1>2
  <2>2. \A i \in 1 .. Len(queue) : queue[i] # p
    BY <1>1, <1>2
  <2>3. ~Busy(p)
    BY <1>1, <1>2 DEF Busy
  <2>4. QED
    BY <1>1, <1>2, <2>1, <2>2, <2>3 DEF Owed
<1>4. UpToDate(p)
  BY <1>2, <1>3 DEF Sound
<1>5. Home(p)' = Home(p) /\ HasBody(p)' = HasBody(p) /\ Body(p)' = Body(p)
  BY <1>1 DEF Home, HasBody, Body
<1>6. ASSUME HasBody(p) PROVE Texted(p)'
  <2>1. index[Home(p)] = Body(p) /\ Texted(p)
    BY <1>4, <1>6 DEF UpToDate
  <2>2. CASE recognized[p] = Body(p)
    BY <1>1, <1>5, <2>2 DEF Texted
  <2>3. CASE recognized[p] # Body(p)
    <3>1. recognized[p] = NoEntry /\ \A nb \in Notebooks : index[PathOf(nb, p)] \in {NoEntry, Body(p)}
      BY <2>1, <2>3 DEF Texted
    <3>2. Body(p) \notin {NoEntry, Empty} /\ row[p].live
      <4>1. Body(p) \in Bodies
        BY DEF Body, Bodies, BridgeTypeOK
      <4>2. QED
        BY <1>6, <4>1, AbsentAssumption DEF HasBody, Body, Empty
    <3>3. <<p, Body(p)>> \in Unauthored
      <4>1. Home(p)[2] = p /\ Home(p) \in Paths
        BY <1>2, HomeIs DEF PathOf
      <4>2. QED
        BY <1>2, <2>1, <3>1, <3>2, <4>1 DEF Unauthored
    <3>4. ASSUME NEW f \in Unauthored, f[1] = p PROVE f[2] = Body(p)
      <4>1. PICK x \in Paths : f = <<x[2], index[x]>> /\ index[x] # NoEntry
        BY DEF Unauthored
      <4>2. x = PathOf(x[1], p) /\ x[1] \in Notebooks
        BY <3>4, <4>1 DEF Paths, PathOf
      <4>3. QED
        BY <3>1, <4>1, <4>2
    <3>5. \A nb : PathOf(nb, p)' = PathOf(nb, p)
      BY DEF PathOf
    <3>6. QED
      BY <1>1, <1>5, <3>1, <3>3, <3>4, <3>5 DEF Texted
  <2>4. QED
    BY <2>2, <2>3
<1>7. UpToDate(p)'
  BY <1>1, <1>4, <1>5, <1>6 DEF UpToDate
<1>8. QED
  BY <1>1, <1>7 DEF Busy

(* The backfill authors a body that is still the page's, or undoes one that
   the worker has authored since, which is recorded. *)
LEMMA SoundBackfill ==
    ASSUME BridgeTypeOK, BridgeTypeOK', NEW p \in PageIds, Sound(p), NEW f \in filling, Backfill(f)
    PROVE  Sound(p)'
<1>1. /\ filling' = filling \ {f}
      /\ UNCHANGED <<row, strokes, boxes, index, embedded, committed, queue, worker, purged>>
      /\ recognized' = recognized \/ recognized' = [recognized EXCEPT ![f[1]] = f[2]]
      /\ lost' = lost \/ lost' = lost \cup {f[1]}
  BY DEF Backfill, content
<1>2. CASE p # f[1]
  <2>1. recognized'[p] = recognized[p]
    BY <1>1, <1>2 DEF BridgeTypeOK
  <2>2. Owed(p) => Owed(p)'
    BY <1>1 DEF Owed
  <2>3. Same(p)
    BY <1>1, <1>2, <2>1, <2>2 DEF Same, Busy
  <2>4. QED
    BY <2>3, SameSound
<1>3. CASE p = f[1]
  <2>1. SUFFICES ASSUME row[p] # NoPage, p \notin purged, ~Owed(p)'
                 PROVE  (IF Busy(p) THEN Underway(p) ELSE UpToDate(p))'
    BY <1>1 DEF Sound
  <2>2. ~Owed(p) /\ p \notin lost'
    BY <1>1, <2>1 DEF Owed
  <2>3. recognized[p] = NoEntry /\ recognized' = [recognized EXCEPT ![p] = f[2]]
    BY <1>3, <2>2 DEF Backfill
  <2>4. Home(p)' = Home(p) /\ HasBody(p)' = HasBody(p) /\ Body(p)' = Body(p) /\ Busy(p)' = Busy(p)
    BY <1>1 DEF Home, HasBody, Body, Busy
  <2>5. CASE Busy(p)
    <3>1. Underway(p)
      BY <1>1, <2>1, <2>2, <2>5 DEF Sound
    <3>2. ~(worker.stage = "embed" /\ worker.body = recognized[p])
      <4>1. worker \in Works
        BY <2>5 DEF Busy, BridgeTypeOK
      <4>2. worker.body \in Bodies
        BY <4>1 DEF Works
      <4>3. QED
        BY <2>3, <4>2, AbsentAssumption
    <3>3. Writing(p) => Writing(p)'
      BY <1>1, <2>4, <3>2 DEF Writing, HasRead, HasRow
    <3>4. Dropping(p) => Dropping(p)'
      BY <1>1, <2>4 DEF Dropping, HasRow, HasRead
    <3>5. Underway(p)'
      BY <1>1, <3>1, <3>3, <3>4 DEF Underway, HasRow
    <3>6. QED
      BY <2>4, <2>5, <3>5
  <2>6. CASE ~Busy(p)
    <3>1. UpToDate(p)
      BY <1>1, <2>1, <2>2, <2>6 DEF Sound
    <3>2. HasBody(p)
      BY <2>3, <3>1, ZeroIsVersion, AbsentAssumption DEF UpToDate
    <3>3. Body(p) # NoEntry
      BY AbsentAssumption DEF Body, Bodies, BridgeTypeOK
    <3>4. f[2] = Body(p)
      BY <1>3, <2>3, <3>1, <3>2, <3>3 DEF UpToDate, Texted
    <3>5. recognized'[p] = Body(p)
      BY <2>3, <3>4 DEF BridgeTypeOK
    <3>6. UpToDate(p)'
      BY <1>1, <2>4, <3>1, <3>2, <3>5 DEF UpToDate, Texted
    <3>7. QED
      BY <2>4, <2>6, <3>6
  <2>7. QED
    BY <2>5, <2>6
<1>4. QED
  BY <1>2, <1>3

(* Asking for pages to be deleted or reprocessed touches none of them. *)
LEMMA SoundAsk ==
    ASSUME BridgeTypeOK, BridgeTypeOK', NEW p \in PageIds, Sound(p), NEW nb \in Notebooks,
           ReadNotebook(nb) \/ ReprocessNotebook(nb)
    PROVE  Sound(p)'
<1>1. /\ committed \subseteq committed'
      /\ UNCHANGED <<row, strokes, boxes, recognized, index, embedded, queue, worker, filling,
                     lost, purged>>
  BY DEF ReadNotebook, ReprocessNotebook, content, derived
<1>2. Owed(p) => Owed(p)'
  BY <1>1 DEF Owed
<1>3. Same(p)
  BY <1>1, <1>2 DEF Same, Busy
<1>4. QED
  BY <1>3, SameSound

(* A deleted notebook purges its pages; what de-indexing takes away from a
   page that was restored is recorded. *)
LEMMA SoundDeletion ==
    ASSUME BridgeTypeOK, BridgeTypeOK', NEW p \in PageIds, Sound(p), NEW x \in deleting,
           TombstoneNotebook(x) \/ DeindexPage(x)
    PROVE  Sound(p)'
<1>1. x.pages \subseteq PageIds
  BY DEF BridgeTypeOK, Deletions
<1>2. CASE TombstoneNotebook(x)
  <2>1. /\ row' = [q \in PageIds |-> IF q \in x.pages THEN [notebook |-> x.notebook, live |-> FALSE]
                                                   ELSE row[q]]
        /\ strokes' = [q \in PageIds |-> IF q \in x.pages /\ strokes[q] = x.strokes[q]
                                       THEN 0 ELSE strokes[q]]
        /\ recognized' = [q \in PageIds |-> IF q \in x.pages THEN Empty ELSE recognized[q]]
        /\ purged' = purged \cup x.pages
        /\ UNCHANGED <<boxes, index, embedded, committed, queue, worker, filling, lost>>
    BY <1>2 DEF TombstoneNotebook
  <2>2. CASE p \in x.pages
    BY <2>1, <2>2 DEF Sound
  <2>3. CASE p \notin x.pages
    <3>1. row'[p] = row[p] /\ strokes'[p] = strokes[p] /\ recognized'[p] = recognized[p]
      BY <2>1, <2>3
    <3>2. Owed(p) => Owed(p)'
      BY <2>1 DEF Owed
    <3>3. Same(p)
      BY <2>1, <3>1, <3>2 DEF Same, Busy
    <3>4. QED
      BY <3>3, SameSound
  <2>4. QED
    BY <2>2, <2>3
<1>3. CASE DeindexPage(x)
  <2>1. PICK q \in x.pages :
          /\ index' = [index EXCEPT ![PathOf(x.notebook, q)] = NoEntry]
          /\ embedded' = [embedded EXCEPT ![PathOf(x.notebook, q)] = NoEntry]
          /\ lost' = IF q \in purged THEN lost ELSE lost \cup {q}
    BY <1>3 DEF DeindexPage
  <2>2. UNCHANGED <<row, strokes, boxes, recognized, committed, queue, worker, filling, purged>>
    BY <1>3 DEF DeindexPage, content
  <2>3. CASE p = q
    BY <2>1, <2>2, <2>3 DEF Sound, Owed
  <2>4. CASE p # q
    <3>1. \A nb \in Notebooks : PathOf(nb, p) # PathOf(x.notebook, q)
      BY <2>4 DEF PathOf
    <3>2. \A nb \in Notebooks : /\ index'[PathOf(nb, p)] = index[PathOf(nb, p)]
                                /\ embedded'[PathOf(nb, p)] = embedded[PathOf(nb, p)]
      <4>1. \A nb \in Notebooks : PathOf(nb, p) \in Paths
        BY DEF PathOf, Paths
      <4>2. QED
        BY <2>1, <3>1, <4>1 DEF BridgeTypeOK
    <3>3. Owed(p) => Owed(p)'
      BY <2>1, <2>2 DEF Owed
    <3>4. Same(p)
      BY <2>2, <3>2, <3>3 DEF Same, Busy
    <3>5. QED
      BY <3>4, SameSound
  <2>5. QED
    BY <2>3, <2>4
<1>4. QED
  BY <1>2, <1>3

(* A step of the worker does not touch the pages that it is not working on. *)
LEMMA SoundOther ==
    ASSUME BridgeTypeOK, BridgeTypeOK', NEW p \in PageIds, Sound(p), Worker, ~Busy(p)
    PROVE  Sound(p)'
<1>1. worker \in Works /\ worker # Waiting /\ worker.page # p
  BY WorkerMoves DEF BridgeTypeOK, Busy
<1>2. UNCHANGED <<row, strokes, boxes, committed, queue, filling, purged>>
  BY WorkerMoves DEF content
<1>3. \A nb \in Notebooks : PathOf(nb, p) # Path /\ PathOf(nb, p) \in Paths
  BY <1>1 DEF Path, PathOf, Paths
<1>4. index' = index \/ index' = Remove(index) \/ index' = [index EXCEPT ![Path] = worker.body]
  BY DEF Worker, LivePage, LivePageStrokes, LivePageTextBoxes, FailRead, Recognize, derived,
       IndexPage, AuthorText, Embed, DropIndex, DropEmbedding, DropText
<1>5. embedded' = embedded \/ embedded' = Remove(embedded)
      \/ embedded' = [embedded EXCEPT ![Path] = worker.body]
  BY DEF Worker, LivePage, LivePageStrokes, LivePageTextBoxes, FailRead, Recognize, derived,
       IndexPage, AuthorText, Embed, DropIndex, DropEmbedding, DropText
<1>6. \A nb \in Notebooks : /\ index'[PathOf(nb, p)] = index[PathOf(nb, p)]
                            /\ embedded'[PathOf(nb, p)] = embedded[PathOf(nb, p)]
  BY <1>3, <1>4, <1>5 DEF Remove, BridgeTypeOK
<1>7. recognized'[p] = recognized[p]
  <2>1. recognized' = recognized \/ recognized' = [recognized EXCEPT ![worker.page] = Empty]
        \/ recognized' = [recognized EXCEPT ![worker.page] = worker.body]
    BY DEF Worker, LivePage, LivePageStrokes, LivePageTextBoxes, FailRead, Recognize, derived,
         IndexPage, AuthorText, Embed, DropIndex, DropEmbedding, DropText
  <2>2. QED
    BY <1>1, <2>1 DEF BridgeTypeOK
<1>8. ~Busy(p)'
  <2>1. worker' = Waiting \/ worker'.page = worker.page
    BY <1>1 DEF Worker, LivePage, LivePageStrokes, LivePageTextBoxes, FailRead, Recognize,
       Works,
         IndexPage, AuthorText, Embed, DropIndex, DropEmbedding, DropText, Goto
  <2>2. QED
    BY <1>1, <2>1 DEF Busy
<1>9. Owed(p) => Owed(p)'
  BY <1>2, WorkerLoses DEF Owed
<1>10. Same(p)
  BY <1>2, <1>6, <1>7, <1>8, <1>9, Zenon DEF Same
<1>11. QED
  BY <1>10, SameSound

(* What is known when the worker makes a step on page p and does not lose
   it. *)
OnPage(p) ==
    /\ worker \in Works /\ worker # Waiting /\ worker.page = p
    /\ UNCHANGED <<row, strokes, boxes, filling>>
    /\ p \notin lost' /\ ~Failed
    /\ row[p] # NoPage /\ row[p].notebook \in Notebooks /\ row[p].live \in BOOLEAN
    /\ Home(p) \in Paths /\ Home(p) = PathOf(row[p].notebook, p)
    /\ Underway(p)

(* The reads: what the worker has read so far is what is there. *)
LEMMA SoundReads ==
    ASSUME BridgeTypeOK, BridgeTypeOK', NEW p \in PageIds, OnPage(p),
           LivePage \/ LivePageStrokes \/ LivePageTextBoxes \/ FailRead \/ Recognize
    PROVE  (worker' # Waiting => worker'.page = p /\ Underway(p)') /\ worker' # Waiting
<1> USE DEF OnPage
<1>1. Home(p)' = Home(p) /\ HasBody(p)' = HasBody(p)
  BY DEF Home, HasBody
<1>2. worker.stage \in Writes => worker.stage \notin Reads \cup Drops
  BY DEF Writes, Reads, Drops
<1>3. worker.stage \in Drops => worker.stage \notin Reads \cup Writes
  BY DEF Writes, Reads, Drops
<1>4. CASE LivePage
  <2>1. worker' = [worker EXCEPT !.notebook = row[p].notebook,
                                 !.stage = IF row[p].live THEN "strokes" ELSE "unindex"]
    BY <1>4 DEF LivePage
  <2>2. worker' \in Works /\ worker'.notebook = row[p].notebook /\ worker'.page = p
        /\ worker'.stage = IF row[p].live THEN "strokes" ELSE "unindex"
    BY <2>1 DEF Works, Reads, Drops
  <2>3. CASE row[p].live
    BY <2>2, <2>3, AbsentAssumption DEF Underway, HasRow
  <2>4. CASE ~row[p].live
    <3>1. Dropping(p)'
      BY <1>1, <2>2, <2>4 DEF Dropping, HasBody, HasRow, Drops
    <3>2. QED
      BY <2>2, <3>1, AbsentAssumption DEF Underway
  <2>5. QED
    BY <2>3, <2>4
<1>5. CASE LivePageStrokes
  <2>1. worker.stage = "strokes" /\ worker' = [worker EXCEPT !.strokes = strokes[p], !.stage = "boxes"]
    BY <1>5 DEF LivePageStrokes, Doing
  <2>2. HasRow(p)
    BY <1>2, <1>3, <2>1 DEF Underway, Writing, Dropping, Reads
  <2>3. worker' \in Works /\ worker'.notebook = worker.notebook /\ worker'.page = p
        /\ worker'.stage = "boxes" /\ worker'.strokes = strokes[p]
    BY <2>1 DEF Works, Reads, BridgeTypeOK
  <2>4. QED
    BY <2>2, <2>3, AbsentAssumption DEF Underway, HasRow
<1>6. CASE LivePageTextBoxes
  <2>1. /\ worker.stage = "boxes"
        /\ worker' = [worker EXCEPT !.boxes = boxes[p],
                                    !.stage = IF worker.strokes = 0 /\ boxes[p] = 0
                                              THEN "unindex" ELSE "ocr"]
    BY <1>6 DEF LivePageTextBoxes, Doing
  <2>2. HasRow(p) /\ worker.strokes = strokes[p]
    BY <1>2, <1>3, <2>1 DEF Underway, Writing, Dropping, Reads
  <2>3. worker' \in Works /\ worker'.notebook = worker.notebook /\ worker'.page = p
        /\ worker'.strokes = strokes[p] /\ worker'.boxes = boxes[p]
        /\ worker'.stage = IF strokes[p] = 0 /\ boxes[p] = 0 THEN "unindex" ELSE "ocr"
    BY <2>1, <2>2 DEF Works, Writes, Drops, BridgeTypeOK
  <2>4. CASE strokes[p] = 0 /\ boxes[p] = 0
    <3>1. Dropping(p)'
      BY <1>1, <2>2, <2>3, <2>4 DEF Dropping, HasRow, HasRead, HasBody, Drops
    <3>2. QED
      BY <2>3, <3>1, AbsentAssumption DEF Underway
  <2>5. CASE ~(strokes[p] = 0 /\ boxes[p] = 0)
    <3>1. Writing(p)'
      BY <2>2, <2>3, <2>5 DEF Writing, HasRead, HasRow, Writes
    <3>2. QED
      BY <2>3, <3>1, AbsentAssumption DEF Underway
  <2>6. QED
    BY <2>4, <2>5
<1>7. CASE FailRead
  BY <1>7 DEF FailRead
<1>8. CASE Recognize
  <2>1. worker.stage = "ocr"
        /\ worker' = [worker EXCEPT !.body = <<worker.strokes, worker.boxes>>, !.stage = "index"]
    BY <1>8 DEF Recognize, Doing
  <2>2. Writing(p)
    BY <1>3, <2>1 DEF Underway, Dropping, Writes
  <2>3. worker' \in Works /\ worker'.notebook = worker.notebook /\ worker'.page = p
        /\ worker'.strokes = worker.strokes /\ worker'.boxes = worker.boxes
        /\ worker'.stage = "index" /\ worker'.body = <<worker.strokes, worker.boxes>>
    BY <2>1 DEF Works, Writes, Bodies
  <2>4. Writing(p)'
    BY <2>2, <2>3 DEF Writing, HasRead, HasRow, Writes
  <2>5. QED
    BY <2>3, <2>4, AbsentAssumption DEF Underway
<1>9. QED
  BY <1>4, <1>5, <1>6, <1>7, <1>8

(* The writes: the index, the page text and the vectors become those of what
   was read, one after the other. *)
LEMMA SoundWrites ==
    ASSUME BridgeTypeOK, BridgeTypeOK', NEW p \in PageIds, OnPage(p),
           IndexPage \/ AuthorText \/ Embed
    PROVE  IF worker' # Waiting THEN worker'.page = p /\ Underway(p)' ELSE UpToDate(p)'
<1> USE DEF OnPage
<1>1. Home(p)' = Home(p) /\ HasBody(p)' = HasBody(p) /\ Body(p)' = Body(p)
  BY DEF Home, HasBody, Body
<1>2. worker.stage \in {"index", "author", "embed"}
  BY DEF IndexPage, AuthorText, Embed, Doing
<1>3. Writing(p)
  BY <1>2 DEF Underway, Dropping, Drops
<1>4. /\ worker.body = Body(p) /\ HasBody(p) /\ Path = Home(p)
      /\ worker.notebook = row[p].notebook /\ worker.body # Empty
  BY <1>2, <1>3 DEF Writing, HasRead, HasRow, Body, HasBody, Path, Home, Empty
<1>5. CASE IndexPage
  <2>1. worker.stage = "index" /\ index' = [index EXCEPT ![Home(p)] = Body(p)]
        /\ worker' = [worker EXCEPT !.stage = "author"]
    BY <1>4, <1>5 DEF IndexPage, Doing, Goto
  <2>2. index'[Home(p)] = Body(p)
    BY <2>1 DEF BridgeTypeOK
  <2>3. /\ worker' \in Works /\ worker'.notebook = worker.notebook /\ worker'.page = p
        /\ worker'.strokes = worker.strokes /\ worker'.boxes = worker.boxes
        /\ worker'.stage = "author" /\ worker'.body = worker.body
    BY <2>1 DEF Works, Writes
  <2>4. Writing(p)'
    BY <1>1, <1>3, <1>4, <2>1, <2>2, <2>3 DEF Writing, HasRead, HasRow, Writes
  <2>5. QED
    BY <2>3, <2>4, AbsentAssumption DEF Underway
<1>6. CASE AuthorText
  <2>1. worker.stage = "author" /\ recognized' = [recognized EXCEPT ![p] = Body(p)]
        /\ worker' = [worker EXCEPT !.stage = "embed"] /\ index' = index
    BY <1>4, <1>6 DEF AuthorText, Doing, Goto
  <2>2. recognized'[p] = Body(p)
    BY <2>1 DEF BridgeTypeOK
  <2>3. /\ worker' \in Works /\ worker'.notebook = worker.notebook /\ worker'.page = p
        /\ worker'.strokes = worker.strokes /\ worker'.boxes = worker.boxes
        /\ worker'.stage = "embed" /\ worker'.body = worker.body
    BY <2>1 DEF Works, Writes
  <2>4. Writing(p)'
    BY <1>1, <1>3, <1>4, <2>1, <2>2, <2>3 DEF Writing, HasRead, HasRow, Writes
  <2>5. QED
    BY <2>3, <2>4, AbsentAssumption DEF Underway
<1>7. CASE Embed
  <2>1. worker.stage = "embed" /\ embedded' = [embedded EXCEPT ![Home(p)] = Body(p)]
        /\ worker' = Waiting /\ index' = index /\ recognized' = recognized
    BY <1>4, <1>7 DEF Embed, Doing
  <2>2. embedded'[Home(p)] = Body(p)
    BY <2>1 DEF BridgeTypeOK
  <2>3. index[Home(p)] = Body(p) /\ recognized[p] = Body(p)
    BY <1>3, <1>4, <2>1 DEF Writing
  <2>4. UpToDate(p)'
    BY <1>1, <1>4, <2>1, <2>2, <2>3 DEF UpToDate, Texted
  <2>5. QED
    BY <2>1, <2>4
<1>8. QED
  BY <1>5, <1>6, <1>7

(* A page with nothing on it leaves the index and the vectors, and its text
   becomes a tombstone. *)
LEMMA SoundDrops ==
    ASSUME BridgeTypeOK, BridgeTypeOK', NEW p \in PageIds, OnPage(p),
           DropIndex \/ DropEmbedding \/ DropText
    PROVE  IF worker' # Waiting THEN worker'.page = p /\ Underway(p)' ELSE UpToDate(p)'
<1> USE DEF OnPage
<1>1. Home(p)' = Home(p) /\ HasBody(p)' = HasBody(p)
  BY DEF Home, HasBody
<1>2. worker.stage \in Drops
  BY DEF DropIndex, DropEmbedding, DropText, Doing, Drops
<1>3. Dropping(p)
  BY <1>2 DEF Underway, Writing, Drops, Writes
<1>4. Path = Home(p) /\ Path \in Paths /\ ~HasBody(p)
  BY <1>3 DEF Dropping, Path, Home
<1>5. CASE DropIndex
  <2>1. worker.stage = "unindex" /\ index' = [index EXCEPT ![Home(p)] = NoEntry]
        /\ worker' = [worker EXCEPT !.stage = "unembed"]
    BY <1>4, <1>5 DEF DropIndex, Doing, Goto, Remove
  <2>2. index'[Home(p)] = NoEntry
    BY <2>1 DEF BridgeTypeOK
  <2>3. worker' \in Works /\ worker'.notebook = worker.notebook /\ worker'.page = p
        /\ worker'.strokes = worker.strokes /\ worker'.boxes = worker.boxes
        /\ worker'.stage = "unembed"
    BY <2>1 DEF Works, Drops
  <2>4. Dropping(p)'
    BY <1>1, <1>3, <2>2, <2>3 DEF Dropping, HasRow, HasRead, Drops
  <2>5. QED
    BY <2>3, <2>4, AbsentAssumption DEF Underway
<1>6. CASE DropEmbedding
  <2>1. worker.stage = "unembed" /\ embedded' = [embedded EXCEPT ![Home(p)] = NoEntry]
        /\ worker' = [worker EXCEPT !.stage = "untext"] /\ index' = index
    BY <1>4, <1>6 DEF DropEmbedding, Doing, Goto, Remove
  <2>2. embedded'[Home(p)] = NoEntry
    BY <2>1 DEF BridgeTypeOK
  <2>3. worker' \in Works /\ worker'.notebook = worker.notebook /\ worker'.page = p
        /\ worker'.strokes = worker.strokes /\ worker'.boxes = worker.boxes
        /\ worker'.stage = "untext"
    BY <2>1 DEF Works, Drops
  <2>4. Dropping(p)'
    BY <1>1, <1>3, <2>1, <2>2, <2>3 DEF Dropping, HasRow, HasRead, Drops
  <2>5. QED
    BY <2>3, <2>4, AbsentAssumption DEF Underway
<1>7. CASE DropText
  <2>1. worker.stage = "untext" /\ recognized' = [recognized EXCEPT ![p] = Empty]
        /\ worker' = Waiting /\ index' = index /\ embedded' = embedded
    BY <1>7 DEF DropText, Doing
  <2>2. recognized'[p] = Empty
    BY <2>1 DEF BridgeTypeOK
  <2>3. UpToDate(p)'
    BY <1>1, <1>3, <1>4, <2>1, <2>2 DEF UpToDate, Dropping
  <2>4. QED
    BY <2>1, <2>3
<1>8. QED
  BY <1>5, <1>6, <1>7

(* A step of the worker on page p loses it, or goes on with what is there. *)
LEMMA SoundWorker ==
    ASSUME BridgeTypeOK, BridgeTypeOK', NEW p \in PageIds, Sound(p), Worker
    PROVE  Sound(p)'
<1>1. SUFFICES ASSUME Busy(p), row'[p] # NoPage, p \notin purged', ~Owed(p)'
               PROVE  (IF Busy(p) THEN Underway(p) ELSE UpToDate(p))'
  BY SoundOther DEF Sound
<1>2. UNCHANGED <<row, strokes, boxes, committed, queue, filling, purged>> /\ worker \in Works
  BY <1>1, WorkerMoves DEF content, BridgeTypeOK
<1>3. p \notin lost'
  BY <1>1 DEF Owed
<1>4. ~Owed(p)
  BY <1>1, <1>2, <1>3, WorkerLoses DEF Owed
<1>5. Underway(p)
  BY <1>1, <1>2, <1>4 DEF Sound
<1>6. ~Failed
  BY <1>1, <1>3 DEF Failed, Busy
<1>7. OnPage(p)
  BY <1>1, <1>2, <1>3, <1>5, <1>6, HomeIs DEF OnPage, Busy
<1>8. IF worker' # Waiting THEN worker'.page = p /\ Underway(p)' ELSE UpToDate(p)'
  BY <1>7, SoundReads, SoundWrites, SoundDrops DEF Worker
<1>9. QED
  BY <1>8 DEF Busy

(* No step leaves a page out of date that no work is owed to. *)
LEMMA SoundStep ==
    ASSUME BridgeTypeOK, BridgeTypeOK', NEW p \in PageIds, Sound(p), [BridgeNext]_bridgeVars
    PROVE  Sound(p)'
<1>1. CASE \E q \in PageIds : PushStrokes(q) \/ PushBoxes(q) \/ PushRow(q) \/ EditTextBox(q)
  BY <1>1, SoundPush
<1>2. CASE \E c \in committed : PagesChanged(c) \/ FailChangelog(c)
  BY <1>2, SoundHandler
<1>3. CASE Work
  BY <1>3, SoundTake, SoundWorker DEF Work, Worker
<1>4. CASE \E nb \in Notebooks : ReadNotebook(nb) \/ ReprocessNotebook(nb)
  BY <1>4, SoundAsk
<1>5. CASE \E x \in deleting : TombstoneNotebook(x) \/ DeindexPage(x)
  BY <1>5, SoundDeletion
<1>6. CASE Restart
  BY <1>6, SoundRestart
<1>7. CASE \E f \in filling : Backfill(f)
  BY <1>7, SoundBackfill
<1>8. CASE UNCHANGED bridgeVars
  <2>1. Same(p)
    BY <1>8 DEF bridgeVars, content, derived, pending, Same, Busy, Owed
  <2>2. QED
    BY <2>1, SameSound
<1>9. QED
  BY <1>1, <1>2, <1>3, <1>4, <1>5, <1>6, <1>7, <1>8 DEF BridgeNext

(* The inductive invariant: types, and the state of the work for each page. *)
THEOREM BridgeInvariant == BridgeSpec => []BridgeInv
<1>1. BridgeInit => BridgeInv
  BY TypeInit, InitSound DEF BridgeInv
<1>2. BridgeInv /\ [BridgeNext]_bridgeVars => BridgeInv'
  BY TypeStep, SoundStep DEF BridgeInv
<1>3. QED
  BY <1>1, <1>2, PTL DEF BridgeSpec

(* Types, and the bound of the queue. *)
THEOREM BridgeTypeCorrect == BridgeSpec => []BridgeTypeOK
BY BridgeInvariant, PTL DEF BridgeInv

(* Whatever way the pushes, the worker's reads, the handlers, the backfill,
   failures and restarts interleave: a page that is out of date, and was not
   deleted with its notebook, has work pending or recorded as lost. *)
THEOREM StaleIsAccountedHolds == BridgeSpec => []StaleIsAccounted
<1>1. BridgeInv => StaleIsAccounted
  <2> SUFFICES ASSUME BridgeInv, NEW p \in PageIds, row[p] # NoPage, p \notin purged,
                      ~Accounted(p)
               PROVE  Current(p) /\ embedded[Home(p)] = IF HasBody(p) THEN Body(p) ELSE NoEntry
    BY DEF StaleIsAccounted
  <2>1. ~Owed(p) /\ ~Renewing(p)
    BY DEF Accounted, Owed
  <2>2. ~(Busy(p) /\ Underway(p))
    <3>1. SUFFICES ASSUME Busy(p), Underway(p) PROVE Renewing(p)
      BY <2>1
    <3>2. CASE worker.stage = "live" \/ worker.stage = "strokes" \/ worker.stage = "boxes"
      BY <2>1, <3>1, <3>2 DEF Renewing, Busy, Underway, HasRow, Writing, Dropping, HasRead,
         Writes, Drops
    <3>3. CASE Writing(p)
      BY <3>1, <3>3 DEF Writing, Renewing, Busy, HasRead, HasRow
    <3>4. CASE Dropping(p)
      BY <3>1, <3>4 DEF Dropping, Renewing, Busy, HasBody, HasRow, HasRead
    <3>5. QED
      BY <3>1, <3>2, <3>3, <3>4 DEF Underway
  <2>3. UpToDate(p)
    BY <2>1, <2>2 DEF BridgeInv, Sound
  <2>4. QED
    BY <2>3 DEF UpToDate, Current, Texted
<1>2. QED
  BY <1>1, BridgeInvariant, PTL
=============================================================================
