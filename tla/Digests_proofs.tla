---------------------------- MODULE Digests_proofs ----------------------------
(***************************************************************************)
(* What holds of the digests for any number of digests, requests and       *)
(* connections, and any size of the queue: search is accounted for, and    *)
(* the device is owed every deletion of the web page.                      *)
(*                                                                         *)
(* The inductive invariant has three parts.  Basics: what requests, copies *)
(* and jobs know.  Notices: where each deletion of the web page is on its  *)
(* way to the device.  Accounts: of each uid, what was said last about it  *)
(* on the way from the row to the index, and which embedder is going to    *)
(* make the vectors fit it.                                                *)
(***************************************************************************)
EXTENDS Digests, FiniteSetTheorems, WellFoundedInduction, TLAPS

(* The requests about one digest, and what they know of its row. *)
OfDigest(c) == c.stage \in {"write", "index", "tell"}
CallFits(c) ==
  OfDigest(c) =>
    /\ c.id # 0 => c.id \in DOMAIN rows /\ rows[c.id].uid = c.uid
    /\ c.stage # "write" \/ c.kind # "add" => c.id # 0
    /\ c.kind \in {"add", "update"} => c.text \in Texts
CallsFit == \A s \in Slots : CallFits(calls[s])

CopiesFit == \A u \in Uids : copies[u] # NoCopy => copies[u].text \in Texts

(* The startup pass has no requests beside it. *)
BootIsFirst == \A s \in Slots : calls[s] # Idle => boot = <<>>

(* The worker writes a text that can be searched, or removes what there is;
   a backfill only embeds. *)
Removing == {"unindex", "purge", "evict"}
Embedding == {"clear", "forget", "save", "remember"}
JobsFit ==
  /\ jobs["worker"] # Idle =>
       (jobs["worker"].stage \in Removing <=> Shown(jobs["worker"].text) = None)
  /\ jobs["backfill"] # Idle => jobs["backfill"].stage \in Embedding

Basics == TypeOK /\ CallsFit /\ CopiesFit /\ BootIsFirst /\ JobsFit

(* A deletion in the web page that has not come to its tombstone. *)
Tells(c, i) == c.stage \in {"index", "tell"} /\ c.kind = "web" /\ c.id = i
Telling(i) == \E s \in Slots : Tells(calls[s], i)

(* Whatever carries a deletion is about one. *)
Deletions ==
  /\ \A i \in webDeleted : i \in DOMAIN rows /\ ~rows[i].live
  /\ \A i \in Ids : Telling(i) \/ tombs[i] # "no" => i \in webDeleted
  /\ \A c \in Conns : drains[c] # Idle => drains[c].ids \subseteq webDeleted

(* As DeletesAreOwed; a drain counts only with its tombstones or its frame. *)
Owing(i) == tombs[i] # "no" \/ Telling(i) \/ Carried(i) \/ GivenUp(i)
Noticed == \A u \in Uids, i \in webDeleted : copies[u].id = i => Owing(i)

(* What a drain is about to acknowledge is on its way, arrived or lost. *)
Acking ==
  \A c \in Conns : drains[c].stage = "ack" =>
    \A u \in Uids, i \in drains[c].ids : copies[u].id = i => Carried(i) \/ GivenUp(i)

Notices == Deletions /\ Noticed /\ Acking

(* x is the last thing said about a uid: in what the startup pass has still
   to queue, else in the queue, else to the worker, else in the index. *)
LastOf(u, q, k) == q[k].uid = u /\ \A l \in DOMAIN q : q[l].uid = u => l <= k
Ends(u, q, x) == \A k \in DOMAIN q : LastOf(u, q, k) => Shown(q[k].text) = x
Heard(u) == IF Busy("worker", u) THEN Shown(jobs["worker"].text) ELSE index[u]
Says(u, x) ==
  /\ Ends(u, boot, x)
  /\ ~Asks(u, boot) => Ends(u, queue, x)
  /\ ~Asks(u, boot) /\ ~Asks(u, queue) => Heard(u) = x

(* It is what the row asks for, unless a request will still ask, or the
   deletion of the group has asked for what it is going to do. *)
Asking(u) == \E s \in Slots : calls[s].stage = "index" /\ calls[s].uid = u
Condemns(c) == c.stage = "cascade" /\ c.parent = "g"
Condemned(u) ==
  u \in Members /\ LiveOf(u) # {} /\ \E s \in Slots : Condemns(calls[s])
ToldAt(u) ==
  Doubled(u) \/ u \in stale \/ Asking(u) \/ Condemned(u) \/ Says(u, Desired(rows, u))
Told == \A u \in Uids : ToldAt(u)

(* What the worker has done to the index. *)
IndexedAt(u) ==
  u \in stale \/
  (Busy("worker", u) /\ jobs["worker"].stage \notin {"index", "unindex"} =>
     index[u] = Shown(jobs["worker"].text))
Indexed == \A u \in Uids : IndexedAt(u)

(* Only one embedder is between its two writes, or the uid is skewed. *)
ApartAt(u) == u \in skewed \/ ~(InWindow("worker", u) /\ InWindow("backfill", u))
Apart == \A u \in Uids : ApartAt(u)

(* The vectors are those of the indexed text, or an embedder that has not
   got to its last two writes will make them so. *)
Fits(u) ==
  IF Busy("worker", u)
  THEN jobs["worker"].stage \in {"remember", "evict"} => vectors[u] = index[u]
  ELSE IF Busy("backfill", u)
  THEN jobs["backfill"].stage = "remember" =>
         vectors[u] = index[u] /\ jobs["backfill"].text = index[u]
  ELSE vectors[u] = index[u] /\ cache[u] = index[u]
DerivedAt(u) == u \in stale \cup skewed \/ Asks(u, queue) \/ Asks(u, boot) \/ Fits(u)
Derived == \A u \in Uids : DerivedAt(u)

Accounts == Told /\ Indexed /\ Apart /\ Derived

DigestsInv == Basics /\ Notices /\ Accounts

-----------------------------------------------------------------------------
Requests == Call \cup GroupCall \cup {Idle}

(* A request under way has the fields of its kind. *)
LEMMA Kinds ==
    ASSUME TypeOK, NEW s \in Slots
    PROVE  /\ calls[s] \in Requests
           /\ calls[s] # Idle <=> calls[s].stage # "idle"
           /\ OfDigest(calls[s]) => calls[s] \in Call
           /\ calls[s] \in Call => OfDigest(calls[s])
           /\ calls[s].stage \in {"cascade", "drop"} => calls[s] \in GroupCall
<1>1. calls[s] \in Requests
  BY DEF TypeOK, Requests
<1>2. CASE calls[s] = Idle
  BY <1>1, <1>2 DEF Idle, OfDigest, Call, GroupCall, Requests
<1>3. CASE calls[s] \in Call
  BY <1>1, <1>3 DEF Idle, OfDigest, Call
<1>4. CASE calls[s] \in GroupCall
  BY <1>1, <1>4 DEF Idle, OfDigest, GroupCall, Call
<1> QED
  BY <1>1, <1>2, <1>3, <1>4 DEF Requests

(* So has a job. *)
LEMMA Jobs ==
    ASSUME TypeOK, NEW p \in Procs
    PROVE  /\ jobs[p] \in Job \cup {Idle}
           /\ jobs[p] # Idle <=> jobs[p].stage # "idle"
           /\ jobs[p] # Idle => jobs[p] \in Job /\ jobs[p].uid \in Uids /\ jobs[p].text \in Said
<1>1. jobs[p] \in Job \cup {Idle}
  BY DEF TypeOK
<1> QED
  BY <1>1 DEF Idle, Job

(* And a drain. *)
LEMMA Drains ==
    ASSUME TypeOK, NEW c \in Conns
    PROVE  /\ drains[c] \in Drain \cup {Idle}
           /\ drains[c] # Idle <=> drains[c].stage # "idle"
           /\ drains[c] # Idle => drains[c] \in Drain /\ drains[c].ids \subseteq Ids
<1>1. drains[c] \in Drain \cup {Idle}
  BY DEF TypeOK
<1> QED
  BY <1>1 DEF Idle, Drain

(* A step of one request, job or drain. *)
LEMMA CallStep ==
    ASSUME TypeOK, NEW s \in Slots, NEW r \in Requests, calls' = [calls EXCEPT ![s] = r]
    PROVE  /\ calls' \in [Slots -> Requests]
           /\ calls'[s] = r /\ \A t \in Slots : t # s => calls'[t] = calls[t]
BY DEF TypeOK, Requests

(* The job is replaced, and no other. *)
LEMMA JobStep ==
    ASSUME TypeOK, NEW p \in Procs, NEW r \in Job \cup {Idle}, jobs' = [jobs EXCEPT ![p] = r]
    PROVE  /\ jobs' \in [Procs -> Job \cup {Idle}]
           /\ jobs'[p] = r /\ \A q \in Procs : q # p => jobs'[q] = jobs[q]
BY DEF TypeOK

(* The drain is replaced, and no other. *)
LEMMA DrainStep ==
    ASSUME TypeOK, NEW c \in Conns, NEW r \in Drain \cup {Idle},
           drains' = [drains EXCEPT ![c] = r]
    PROVE  /\ drains' \in [Conns -> Drain \cup {Idle}]
           /\ drains'[c] = r /\ \A d \in Conns : d # c => drains'[d] = drains[d]
BY DEF TypeOK

(* A set of natural numbers that is not empty has a least element. *)
LEMMA Least ==
    ASSUME NEW T, T \subseteq Nat, T # {}
    PROVE  \E x \in T : \A y \in T : x <= y
<1> DEFINE R == {ss \in Nat \X Nat : ss[1] < ss[2]}
<1>1. IsWellFoundedOn(R, Nat)
  BY NatLessThanWellFounded DEF OpToRel
<1>2. \A x, y \in Nat : <<y, x>> \in R <=> y < x
  OBVIOUS
<1> HIDE DEF R
<1>3. PICK x \in T : \A y \in T : ~(<<y, x>> \in R)
  BY <1>1, WFMin
<1>4. ASSUME NEW y \in T PROVE x <= y
  <2>1. x \in Nat /\ y \in Nat
    OBVIOUS
  <2>2. ~(y < x)
    BY <1>2, <1>3, <2>1
  <2> QED
    BY <2>1, <2>2
<1> QED
  BY <1>4

(* The other embedder. *)
LEMMA Others == Other("worker") = "backfill" /\ Other("backfill") = "worker"
BY DEF Other, Procs

-----------------------------------------------------------------------------
(* Types. *)

(* The first state is typed. *)
LEMMA InitTypes == ASSUME Init PROVE TypeOK
<1>1. copies \in [Uids -> Copy]
  BY DigestAssumption DEF Init, Copy, Said
<1>2. rows \in Seq(Row) /\ Len(rows) <= MaxRows /\ queue \in Seq(Task)
      /\ Len(queue) <= QueueSize /\ boot \in Seq(Task)
  BY DigestAssumption DEF Init
<1>3. {index, vectors, cache} \subseteq [Uids -> Said]
  BY DEF Init, Said
<1>4. calls \in [Slots -> Call \cup GroupCall \cup {Idle}]
      /\ jobs \in [Procs -> Job \cup {Idle}] /\ drains \in [Conns -> Drain \cup {Idle}]
      /\ tombs \in [Ids -> {"no", "queued", "sent"}]
  BY DEF Init
<1>5. /\ group \in GroupUids \cup {None} /\ frames \subseteq SUBSET Ids
      /\ called \in 0..MaxCalls /\ faults \in 0..MaxFaults
      /\ {stale, skewed} \subseteq SUBSET Uids /\ webDeleted \subseteq Ids
      /\ forgotten \subseteq Ids \X Causes
  BY DigestAssumption DEF Init
<1> QED
  BY <1>1, <1>2, <1>3, <1>4, <1>5 DEF TypeOK

(* What a row is. *)
LEMMA RowTypes ==
    ASSUME TypeOK, NEW i \in DOMAIN rows
    PROVE  /\ i \in Ids /\ i \in 0..MaxRows /\ i # 0
           /\ rows[i] \in Row /\ rows[i].uid \in Uids /\ rows[i].text \in Texts
           /\ rows[i].text \in Said /\ rows[i].live \in BOOLEAN
<1>1. rows \in Seq(Row) /\ Len(rows) <= MaxRows /\ Len(rows) \in Nat /\ MaxRows \in Nat
  BY DigestAssumption DEF TypeOK
<1>2. i \in 1..Len(rows) /\ rows[i] \in Row
  BY <1>1
<1>3. i \in 1..MaxRows
  BY <1>1, <1>2
<1> QED
  BY <1>1, <1>2, <1>3 DEF Ids, Row, Said

(* A statement that changes one row. *)
LEMMA RowStep ==
    ASSUME TypeOK, NEW i \in DOMAIN rows, NEW r \in Row, rows' = [rows EXCEPT ![i] = r]
    PROVE  /\ rows' \in Seq(Row) /\ Len(rows') = Len(rows) /\ DOMAIN rows' = DOMAIN rows
           /\ rows'[i] = r /\ \A j \in DOMAIN rows : j # i => rows'[j] = rows[j]
<1>1. rows \in Seq(Row)
  BY DEF TypeOK
<1> QED
  BY <1>1

(* An update of a live row changes its text alone. *)
LEMMA UpdateStep ==
    ASSUME TypeOK, NEW i, Live(i), NEW t \in Texts, Update(i, t)
    PROVE  /\ rows' \in Seq(Row) /\ Len(rows') = Len(rows) /\ DOMAIN rows' = DOMAIN rows
           /\ \A j \in DOMAIN rows : /\ rows'[j].uid = rows[j].uid /\ rows'[j].live = rows[j].live
                                     /\ j # i => rows'[j] = rows[j]
<1>1. i \in DOMAIN rows /\ rows[i] \in Row
  BY RowTypes DEF Live
<1>2. rows' = [rows EXCEPT ![i] = [rows[i] EXCEPT !.text = t]]
  BY DEF Update
<1>3. [rows[i] EXCEPT !.text = t] \in Row
  BY <1>1 DEF Row
<1> QED
  BY <1>1, <1>2, <1>3, RowStep DEF Row

(* A deletion hides one row and moves none. *)
LEMMA SoftDeleteStep ==
    ASSUME TypeOK, NEW i, Live(i), SoftDelete(i)
    PROVE  /\ rows' \in Seq(Row) /\ Len(rows') = Len(rows) /\ DOMAIN rows' = DOMAIN rows
           /\ i \in DOMAIN rows /\ ~rows'[i].live
           /\ \A j \in DOMAIN rows : /\ rows'[j].uid = rows[j].uid
                                     /\ j # i => rows'[j] = rows[j]
<1>1. i \in DOMAIN rows /\ rows[i] \in Row
  BY RowTypes DEF Live
<1>2. rows' = [rows EXCEPT ![i] = [rows[i] EXCEPT !.live = FALSE]]
  BY DEF SoftDelete
<1>3. [rows[i] EXCEPT !.live = FALSE] \in Row
  BY <1>1 DEF Row
<1> QED
  BY <1>1, <1>2, <1>3, RowStep DEF Row

(* An insert adds one live row after the others. *)
LEMMA CreateStep ==
    ASSUME TypeOK, NEW u \in Uids, NEW t \in Texts, Create(u, t)
    PROVE  /\ rows' \in Seq(Row) /\ Len(rows') = Len(rows) + 1 /\ Len(rows') <= MaxRows
           /\ DOMAIN rows \subseteq DOMAIN rows' /\ Len(rows) + 1 \in DOMAIN rows'
           /\ DOMAIN rows' \subseteq DOMAIN rows \cup {Len(rows) + 1}
           /\ rows'[Len(rows) + 1] = [uid |-> u, text |-> t, live |-> TRUE]
           /\ \A j \in DOMAIN rows : rows'[j] = rows[j]
<1> DEFINE r == [uid |-> u, text |-> t, live |-> TRUE]
<1>1. rows \in Seq(Row) /\ Len(rows) < MaxRows /\ Len(rows) \in Nat /\ MaxRows \in Nat
  BY DigestAssumption DEF TypeOK, Create
<1>2. r \in Row
  BY DEF Row
<1>3. rows' = Append(rows, r)
  BY DEF Create
<1> HIDE DEF r
<1>4. rows' \in Seq(Row) /\ Len(rows') = Len(rows) + 1 /\ DOMAIN rows = 1..Len(rows)
      /\ DOMAIN rows' = 1..(Len(rows) + 1)
  BY <1>1, <1>2, <1>3
<1>5. rows'[Len(rows) + 1] = r /\ \A j \in DOMAIN rows : rows'[j] = rows[j]
  BY <1>1, <1>2, <1>3
<1>6. Len(rows') <= MaxRows /\ DOMAIN rows \subseteq DOMAIN rows'
      /\ Len(rows) + 1 \in DOMAIN rows' /\ DOMAIN rows' \subseteq DOMAIN rows \cup {Len(rows) + 1}
  BY <1>1, <1>4
<1> QED
  BY <1>4, <1>5, <1>6 DEF r

(* The first live row of a uid. *)
LEMMA FoundRow ==
    ASSUME TypeOK, NEW u \in Uids
    PROVE  Found(u) \in 0..MaxRows /\ (Found(u) # 0 => Found(u) \in LiveOf(u))
<1>1. LiveOf(u) \subseteq 1..MaxRows
  BY RowTypes DEF LiveOf, Ids
<1>2. CASE LiveOf(u) = {}
  BY <1>2, DigestAssumption DEF Found
<1>3. CASE LiveOf(u) # {}
  <2>1. \E i \in LiveOf(u) : \A j \in LiveOf(u) : i <= j
    <3>1. LiveOf(u) \subseteq Nat
      BY <1>1
    <3> QED
      BY <1>3, <3>1, Least
  <2> QED
    BY <1>1, <1>3, <2>1 DEF Found
<1> QED
  BY <1>2, <1>3

(* A request begins in a slot that is free, after the startup pass. *)
LEMMA BeginTypes ==
    ASSUME TypeOK, NEW s \in Slots, NEW c \in Requests, Begin(s, c)
    PROVE  /\ calls' \in [Slots -> Call \cup GroupCall \cup {Idle}] /\ called' \in 0..MaxCalls
           /\ calls'[s] = c /\ calls[s] = Idle
           /\ \A t \in Slots : t # s => calls'[t] = calls[t]
           /\ boot = <<>>
<1>1. called' \in 0..MaxCalls /\ calls' = [calls EXCEPT ![s] = c] /\ calls[s] = Idle /\ boot = <<>>
  BY DigestAssumption DEF Begin, TypeOK, Serving
<1> QED
  BY <1>1, CallStep DEF Requests

(* It ends and leaves its slot. *)
LEMMA EndTypes ==
    ASSUME TypeOK, NEW s \in Slots, End(s)
    PROVE  /\ calls' \in [Slots -> Call \cup GroupCall \cup {Idle}]
           /\ calls'[s] = Idle /\ \A t \in Slots : t # s => calls'[t] = calls[t]
BY CallStep DEF End, Requests

(* It goes on to its next statement. *)
LEMMA GoOnTypes ==
    ASSUME TypeOK, NEW s \in Slots, NEW stage \in {"index", "tell", "drop"}, GoOn(s, stage),
           stage = "drop" => calls[s] \in GroupCall,
           stage # "drop" => calls[s] \in Call
    PROVE  /\ calls' \in [Slots -> Call \cup GroupCall \cup {Idle}]
           /\ calls'[s] = [calls[s] EXCEPT !.stage = stage]
           /\ \A t \in Slots : t # s => calls'[t] = calls[t]
<1>1. calls' = [calls EXCEPT ![s] = [calls[s] EXCEPT !.stage = stage]]
  BY DEF GoOn
<1>2. [calls[s] EXCEPT !.stage = stage] \in Requests
  BY DEF Requests, Call, GroupCall
<1> QED
  BY <1>1, <1>2, CallStep DEF Requests

(* Faults are counted up to their bound. *)
LEMMA FaultTypes == ASSUME TypeOK, Fault PROVE faults' \in 0..MaxFaults
BY DigestAssumption DEF TypeOK, Fault

(* The queue never holds more than its size. *)
LEMMA EnqueueTypes ==
    ASSUME TypeOK, NEW s \in Slots, NEW u \in Uids, NEW t \in Said, Enqueue(s, u, t)
    PROVE  queue' \in Seq(Task) /\ Len(queue') <= QueueSize /\ stale' \subseteq Uids
<1>1. [uid |-> u, text |-> t] \in Task
  BY DEF Task
<1>2. queue \in Seq(Task) /\ Len(queue) <= QueueSize /\ QueueSize \in Nat /\ stale \subseteq Uids
  BY DigestAssumption DEF TypeOK
<1> QED
  BY <1>1, <1>2 DEF Enqueue

-----------------------------------------------------------------------------
(* The device, and what begins a request. *)
LEMMA DeviceTypes ==
    ASSUME TypeOK, NEW s \in Slots, NEW u \in Uids, NEW t \in Texts,
           Draw(u, t) \/ AddSummary(s, u) \/ UpdateSummary(s, u, t) \/ DeleteSummary(s, u)
    PROVE  TypeOK'
<1>1. CASE Draw(u, t)
  <2>1. called' \in 0..MaxCalls /\ copies' \in [Uids -> Copy]
    BY <1>1, DigestAssumption DEF Draw, TypeOK, Copy, Said
  <2> QED
    BY <1>1, <2>1 DEF Draw, TypeOK, store, derived, socket, account
<1>2. CASE AddSummary(s, u)
  <2>1. [kind |-> "add", stage |-> "write", uid |-> u, id |-> Found(u),
         text |-> copies[u].text] \in Requests
    BY FoundRow DEF TypeOK, Copy, Requests, Call
  <2>2. calls' \in [Slots -> Call \cup GroupCall \cup {Idle}] /\ called' \in 0..MaxCalls
    BY <1>2, <2>1, BeginTypes DEF AddSummary
  <2> QED
    BY <1>2, <2>2 DEF AddSummary, TypeOK, store, derived, socket, account
<1>3. CASE UpdateSummary(s, u, t)
  <2> DEFINE i == copies[u].id
             c == [kind |-> "update", stage |-> "write", uid |-> rows[i].uid,
                   id |-> i, text |-> t]
  <2>1. copies' \in [Uids -> Copy]
    BY <1>3 DEF UpdateSummary, TypeOK, Copy, Said
  <2>2. calls' \in [Slots -> Call \cup GroupCall \cup {Idle}] /\ called' \in 0..MaxCalls
    <3>1. CASE Live(i)
      <4>1. c \in Requests
        <5>1. i \in 0..MaxRows /\ rows[i].uid \in Uids
          BY <3>1, RowTypes DEF Live
        <5> QED
          BY <5>1 DEF Requests, Call, Said
      <4>2. Begin(s, c)
        BY <1>3, <3>1 DEF UpdateSummary
      <4> QED
        BY <4>1, <4>2, BeginTypes
    <3>2. CASE ~Live(i)
      BY <1>3, <3>2, DigestAssumption DEF UpdateSummary, TypeOK
    <3> QED
      BY <3>1, <3>2
  <2> QED
    BY <1>3, <2>1, <2>2 DEF UpdateSummary, TypeOK, store, derived, socket, account
<1>4. CASE DeleteSummary(s, u)
  <2> DEFINE i == copies[u].id
             c == [kind |-> "delete", stage |-> "write", uid |-> rows[i].uid,
                   id |-> i, text |-> None]
  <2>1. copies' \in [Uids -> Copy]
    BY <1>4, DigestAssumption DEF DeleteSummary, TypeOK, Copy, Said, NoCopy
  <2>2. calls' \in [Slots -> Call \cup GroupCall \cup {Idle}] /\ called' \in 0..MaxCalls
    <3>1. CASE Live(i)
      <4>1. c \in Requests
        <5>1. i \in 0..MaxRows /\ rows[i].uid \in Uids
          BY <3>1, RowTypes DEF Live
        <5> QED
          BY <5>1 DEF Requests, Call, Said
      <4>2. Begin(s, c)
        BY <1>4, <3>1 DEF DeleteSummary
      <4> QED
        BY <4>1, <4>2, BeginTypes
    <3>2. CASE ~Live(i)
      BY <1>4, <3>2, DigestAssumption DEF DeleteSummary, TypeOK
    <3> QED
      BY <3>1, <3>2
  <2> QED
    BY <1>4, <2>1, <2>2 DEF DeleteSummary, TypeOK, store, derived, socket, account
<1> QED
  BY <1>1, <1>2, <1>3, <1>4

(* The device takes what the server has. *)
LEMMA PullTypes == ASSUME TypeOK, NEW u \in Uids, Pull(u) PROVE TypeOK'
<1>1. PICK i \in Listed :
        copies' = [copies EXCEPT ![u] =
                    [text |-> IF @ = NoCopy THEN rows[i].text ELSE @.text, id |-> i]]
  BY DEF Pull
<1>2. i \in 0..MaxRows /\ rows[i].text \in Said
  BY RowTypes DEF Listed
<1>3. copies[u] \in Copy
  BY DEF TypeOK
<1>4. copies' \in [Uids -> Copy]
  BY <1>1, <1>2, <1>3 DEF TypeOK, Copy
<1> QED
  BY <1>4 DEF Pull, TypeOK, store, derived, socket, account

(* The web page begins a deletion. *)
LEMMA DeleteDigestTypes ==
    ASSUME TypeOK, NEW s \in Slots, NEW i \in DOMAIN rows, DeleteDigest(s, i)
    PROVE  TypeOK'
<1> DEFINE c == [kind |-> "web", stage |-> "write", uid |-> rows[i].uid, id |-> i, text |-> None]
<1>1. c \in Requests
  <2>2. rows[i].uid \in Uids /\ i \in 0..MaxRows
    BY RowTypes
  <2> QED
    BY <2>2 DEF Requests, Call, Said
<1>2. Begin(s, c)
  BY DEF DeleteDigest
<1>3. calls' \in [Slots -> Call \cup GroupCall \cup {Idle}] /\ called' \in 0..MaxCalls
  BY <1>1, <1>2, BeginTypes
<1> QED
  BY <1>3 DEF DeleteDigest, TypeOK, store, derived, socket, account

-----------------------------------------------------------------------------
(* The statements of a request. *)
LEMMA WriteTypes == ASSUME Basics, NEW s \in Slots, Write(s) PROVE TypeOK'
<1> DEFINE c == calls[s]
<1>0. TypeOK
  BY DEF Basics
<1>1. c \in Call /\ c.text \in Texts /\ c.uid \in Uids
  <2>1. c.stage = "write" /\ c.kind \in {"add", "update"}
    BY DEF Write, At
  <2> QED
    BY <1>0, <2>1, Kinds DEF OfDigest, Call, Basics, CallsFit, CallFits
<1>2. CASE c.id = 0
  <2>1. Create(c.uid, c.text)
        /\ calls' = [calls EXCEPT ![s] = [[c EXCEPT !.stage = "index"] EXCEPT !.id = Len(rows) + 1]]
    BY <1>2 DEF Write
  <2>2. rows' \in Seq(Row) /\ Len(rows') <= MaxRows /\ Len(rows) + 1 \in 0..MaxRows
    <3>1. Len(rows) \in Nat /\ Len(rows) < MaxRows
      BY <1>0, <2>1 DEF Create, TypeOK
    <3>2. Len(rows) + 1 \in 0..MaxRows
      BY <3>1, DigestAssumption
    <3> QED
      BY <1>0, <1>1, <2>1, <3>2, CreateStep
  <2>3. [[c EXCEPT !.stage = "index"] EXCEPT !.id = Len(rows) + 1] \in Requests
    BY <1>1, <2>2 DEF Call, Requests
  <2>4. calls' \in [Slots -> Call \cup GroupCall \cup {Idle}]
    BY <1>0, <2>1, <2>3, CallStep DEF Requests
  <2> QED
    BY <1>0, <2>2, <2>4 DEF Write, TypeOK, derived, socket, account
<1>3. CASE c.id # 0 /\ Live(c.id)
  <2>1. Update(c.id, c.text) /\ GoOn(s, "index")
    BY <1>3 DEF Write
  <2>2. rows' \in Seq(Row) /\ Len(rows') = Len(rows)
    BY <1>0, <1>1, <1>3, <2>1, UpdateStep
  <2>3. calls' \in [Slots -> Call \cup GroupCall \cup {Idle}]
    BY <1>0, <1>1, <2>1, GoOnTypes
  <2> QED
    BY <1>0, <2>2, <2>3 DEF Write, TypeOK, derived, socket, account
<1>4. CASE c.id # 0 /\ ~Live(c.id)
  <2>1. End(s) /\ UNCHANGED rows
    BY <1>4 DEF Write
  <2> QED
    BY <1>0, <2>1, EndTypes DEF Write, TypeOK, derived, socket, account
<1> QED
  BY <1>2, <1>3, <1>4

(* The row is queued and the device answered. *)
LEMMA AnswerTypes ==
    ASSUME Basics, NEW s \in Slots, NEW lost \in BOOLEAN, Answer(s, lost)
    PROVE  TypeOK'
<1> DEFINE c == calls[s]
<1>0. TypeOK
  BY DEF Basics
<1>1. c \in Call /\ c.id \in 0..MaxRows /\ c.id # 0 /\ c.uid \in Uids /\ c.text \in Said
  <2>1. c.stage = "index" /\ c.kind \in {"add", "update"}
    BY DEF Answer, At
  <2> QED
    BY <1>0, <2>1, Kinds DEF OfDigest, Call, Basics, CallsFit, CallFits
<1>2. queue' \in Seq(Task) /\ Len(queue') <= QueueSize /\ stale' \subseteq Uids
  BY <1>0, <1>1, EnqueueTypes DEF Answer
<1>3. copies' \in [Uids -> Copy] /\ forgotten' \subseteq Ids \X Causes
  <2>1. (copies' = copies \/ copies' = [copies EXCEPT ![c.uid] = [@ EXCEPT !.id = c.id]])
        /\ forgotten' \subseteq forgotten \cup {<<c.id, "late">>}
    BY DEF Answer
  <2>2. c.id \in Ids /\ "late" \in Causes
    BY <1>1, DigestAssumption DEF Ids, Causes
  <2>3. copies \in [Uids -> Copy] /\ forgotten \subseteq Ids \X Causes
    BY <1>0 DEF TypeOK
  <2>4. [copies[c.uid] EXCEPT !.id = c.id] \in Copy
    BY <1>1, <2>3 DEF Copy
  <2>5. copies' \in [Uids -> Copy]
    BY <1>1, <2>1, <2>3, <2>4
  <2> QED
    BY <2>1, <2>2, <2>3, <2>5
<1>4. calls' \in [Slots -> Call \cup GroupCall \cup {Idle}]
  BY <1>0, EndTypes DEF Answer
<1>5. faults' \in 0..MaxFaults
  BY <1>0, FaultTypes DEF Answer, TypeOK
<1> QED
  BY <1>0, <1>2, <1>3, <1>4, <1>5 DEF Answer, TypeOK, store, derived, socket

(* The row is hidden. *)
LEMMA HideTypes == ASSUME Basics, NEW s \in Slots, Hide(s) PROVE TypeOK'
<1> DEFINE c == calls[s]
<1>0. TypeOK
  BY DEF Basics
<1>1. c \in Call /\ c.id \in 0..MaxRows
  BY <1>0, Kinds DEF Hide, At, OfDigest, Call
<1>2. rows' \in Seq(Row) /\ Len(rows') <= MaxRows
  <2>1. CASE Live(c.id)
    BY <1>0, <2>1, SoftDeleteStep DEF Hide, TypeOK
  <2>2. CASE ~Live(c.id)
    BY <1>0, <2>2 DEF Hide, TypeOK
  <2> QED
    BY <2>1, <2>2
<1>3. calls' \in [Slots -> Call \cup GroupCall \cup {Idle}]
  BY <1>0, <1>1, GoOnTypes, EndTypes DEF Hide
<1>4. webDeleted' \subseteq Ids
  <2>1. webDeleted \subseteq Ids
    BY <1>0 DEF TypeOK
  <2>2. webDeleted' \subseteq webDeleted \cup {i \in {c.id} : Live(c.id)}
    BY DEF Hide
  <2>3. Live(c.id) => c.id \in Ids
    BY <1>0, RowTypes DEF Live
  <2> QED
    BY <2>1, <2>2, <2>3
<1> QED
  BY <1>0, <1>2, <1>3, <1>4 DEF Hide, TypeOK, derived, socket

(* The removal is queued. *)
LEMMA DeindexTypes == ASSUME Basics, NEW s \in Slots, Deindex(s) PROVE TypeOK'
<1> DEFINE c == calls[s]
<1>0. TypeOK
  BY DEF Basics
<1>1. c \in Call /\ c.uid \in Uids /\ None \in Said
  BY <1>0, Kinds DEF Deindex, At, OfDigest, Call, Said
<1>2. queue' \in Seq(Task) /\ Len(queue') <= QueueSize /\ stale' \subseteq Uids
  BY <1>0, <1>1, EnqueueTypes DEF Deindex
<1>3. calls' \in [Slots -> Call \cup GroupCall \cup {Idle}]
  BY <1>0, <1>1, GoOnTypes, EndTypes DEF Deindex
<1> QED
  BY <1>0, <1>2, <1>3 DEF Deindex, TypeOK, store, derived, socket

(* A request fails at its write. *)
LEMMA RequestFailsTypes == ASSUME TypeOK, NEW s \in Slots, RequestFails(s) PROVE TypeOK'
<1>1. calls' \in [Slots -> Call \cup GroupCall \cup {Idle}] /\ faults' \in 0..MaxFaults
  BY EndTypes, FaultTypes DEF RequestFails
<1> QED
  BY <1>1 DEF RequestFails, TypeOK, store, derived, socket, account

-----------------------------------------------------------------------------
(* The group. *)

(* There are only so many uids with a row. *)
LEMMA FewOfAGroup ==
    ASSUME TypeOK, NEW M, M \subseteq {u \in Uids : LiveOf(u) # {}}
    PROVE  IsFiniteSet(M) /\ Cardinality(M) \in Nat
<1> DEFINE T == {rows[i].uid : i \in DOMAIN rows}
<1>1. rows \in Seq(Row) /\ Len(rows) \in Nat /\ DOMAIN rows = 1..Len(rows)
  BY DEF TypeOK
<1>2. IsFiniteSet(DOMAIN rows)
  BY <1>1, FS_Interval
<1>3. IsFiniteSet(T)
  <2> DEFINE f == [i \in DOMAIN rows |-> rows[i].uid]
  <2>1. f \in [DOMAIN rows -> T]
    OBVIOUS
  <2>2. f \in Surjection(DOMAIN rows, T)
    BY <2>1 DEF Surjection
  <2> QED
    BY <1>2, <2>2, FS_Surjection
<1>4. M \subseteq T
  BY DEF LiveOf
<1>5. IsFiniteSet(M)
  BY <1>3, <1>4, FS_Subset
<1> QED
  BY <1>5, FS_CardinalityType

(* One sequence after another. *)
LEMMA Appended ==
    ASSUME NEW S, NEW q \in Seq(S), NEW n \in Nat, NEW t \in [1..n -> S]
    PROVE  /\ q \o t \in Seq(S) /\ Len(q) \in Nat /\ Len(q \o t) = Len(q) + n
           /\ DOMAIN q = 1..Len(q) /\ DOMAIN (q \o t) = 1..(Len(q) + n)
           /\ \A k \in 1..Len(q) : (q \o t)[k] = q[k]
           /\ \A k \in 1..n : (q \o t)[Len(q) + k] = t[k]
<1>1. t \in Seq(S)
  OBVIOUS
<1>2. Len(t) = n
  BY <1>1
<1> QED
  BY <1>1, <1>2

(* Each member of the moment is queued for removal, or dropped. *)
LEMMA GroupStep ==
    ASSUME TypeOK, NEW s \in Slots, DeleteSummaryGroup(s)
    PROVE  /\ queue' \in Seq(Task) /\ Len(queue') <= QueueSize
           /\ stale \subseteq stale' /\ stale' \subseteq Uids
           /\ DOMAIN queue \subseteq DOMAIN queue'
           /\ \A k \in DOMAIN queue : queue'[k] = queue[k]
           /\ \A k \in DOMAIN queue' \ DOMAIN queue :
                /\ \A l \in DOMAIN queue : l < k
                /\ queue'[k].uid \in MembersOf(group) /\ LiveOf(queue'[k].uid) # {}
                /\ queue'[k].text = None
           /\ \A u \in MembersOf(group) :
                \/ LiveOf(u) = {} \/ u \in stale'
                \/ \E k \in DOMAIN queue' \ DOMAIN queue : queue'[k].uid = u
<1> DEFINE gone == {u \in MembersOf(group) : LiveOf(u) # {}}
           room == {k \in 1..Cardinality(gone) : k + Len(queue) <= QueueSize}
<1>1. gone \subseteq {u \in Uids : LiveOf(u) # {}}
  BY DigestAssumption DEF MembersOf
<1>2. Cardinality(gone) \in Nat
  BY <1>1, FewOfAGroup
<1>3. queue \in Seq(Task) /\ Len(queue) \in Nat /\ Len(queue) <= QueueSize /\ QueueSize \in Nat
      /\ stale \subseteq Uids /\ DOMAIN queue = 1..Len(queue)
  BY DigestAssumption DEF TypeOK
<1>4. PICK n \in Nat : room = 1..n /\ n + Len(queue) <= QueueSize
  <2> DEFINE N == Cardinality(gone)
             m == QueueSize - Len(queue)
  <2>1. m \in Nat /\ N \in Nat
    BY <1>2, <1>3
  <2>2. room = {k \in 1..N : k <= m}
    BY <1>3, <2>1
  <2> HIDE DEF N, m, room
  <2>3. N <= m => room = 1..N /\ N + Len(queue) <= QueueSize
    BY <1>3, <2>1, <2>2 DEF m
  <2>4. m <= N => room = 1..m /\ m + Len(queue) <= QueueSize
    BY <1>3, <2>1, <2>2 DEF m
  <2>5. N <= m \/ m <= N
    BY <2>1
  <2> QED
    BY <2>1, <2>3, <2>4, <2>5
<1>5. PICK order \in [1..Cardinality(gone) -> gone] :
        /\ \A u \in gone : \E k \in DOMAIN order : order[k] = u
        /\ queue' = queue \o [k \in room |-> [uid |-> order[k], text |-> None]]
        /\ stale' = stale \cup {order[k] : k \in (DOMAIN order) \ room}
  BY DEF DeleteSummaryGroup
<1> DEFINE tail == [k \in 1..n |-> [uid |-> order[k], text |-> None]]
<1>6. \A k \in 1..n : order[k] \in gone
  BY <1>2, <1>4, <1>5
<1>7. tail \in [1..n -> Task]
  <2>1. \A k \in 1..n : [uid |-> order[k], text |-> None] \in Task
    BY <1>1, <1>6 DEF Task, Said
  <2> QED
    BY <1>4, <2>1
<1>8. queue' = queue \o tail
  BY <1>4, <1>5
<1>8a. \A k \in 1..n : tail[k].uid = order[k] /\ tail[k].text = None
  OBVIOUS
<1>8b. \A u \in gone : \E k \in 1..Cardinality(gone) : order[k] = u
  BY <1>5
<1>8c. stale' = stale \cup {order[k] : k \in (1..Cardinality(gone)) \ (1..n)}
  BY <1>4, <1>5
<1>8d. \A k \in 1..Cardinality(gone) : order[k] \in gone
  BY <1>5
<1>8e. n \in Nat /\ n + Len(queue) <= QueueSize
  BY <1>4
<1> HIDE DEF tail
<1>9. queue' \in Seq(Task) /\ Len(queue') = Len(queue) + n /\ DOMAIN queue' = 1..(Len(queue) + n)
      /\ Len(queue') <= QueueSize
  BY <1>3, <1>7, <1>8, <1>8e, Appended
<1>10. \A k \in 1..Len(queue) : queue'[k] = queue[k]
  BY <1>3, <1>7, <1>8, <1>8e, Appended
<1>11. \A k \in 1..n : queue'[Len(queue) + k] = tail[k]
  BY <1>3, <1>7, <1>8, <1>8e, Appended
<1>12. ASSUME NEW k \in DOMAIN queue' \ DOMAIN queue
       PROVE  /\ \A l \in DOMAIN queue : l < k
              /\ queue'[k].uid \in MembersOf(group) /\ LiveOf(queue'[k].uid) # {}
              /\ queue'[k].text = None
  <2>1. k \in Nat /\ k > Len(queue) /\ k <= Len(queue) + n
    BY <1>3, <1>8e, <1>9
  <2>2. PICK j \in 1..n : k = Len(queue) + j
    <3>1. k - Len(queue) \in 1..n /\ k = Len(queue) + (k - Len(queue))
      BY <1>3, <1>8e, <2>1
    <3> QED
      BY <3>1
  <2>3. queue'[k] = tail[j]
    BY <1>11, <2>2
  <2>4. order[j] \in gone
    BY <1>6
  <2>5. \A l \in DOMAIN queue : l < k
    BY <1>3, <2>1
  <2> QED
    BY <1>8a, <2>3, <2>4, <2>5
<1>13. ASSUME NEW u \in gone
       PROVE  u \in stale' \/ \E k \in DOMAIN queue' \ DOMAIN queue : queue'[k].uid = u
  <2>1. PICK k \in 1..Cardinality(gone) : order[k] = u
    BY <1>8b
  <2>2. CASE k \in 1..n
    <3>1. Len(queue) + k \in DOMAIN queue' \ DOMAIN queue
      BY <1>3, <1>8e, <1>9, <2>2
    <3>2. queue'[Len(queue) + k].uid = u
      BY <1>11, <1>8a, <2>1, <2>2
    <3> QED
      BY <3>1, <3>2
  <2>3. CASE k \notin 1..n
    BY <1>8c, <2>1, <2>3
  <2> QED
    BY <2>2, <2>3
<1>14. stale \subseteq stale' /\ stale' \subseteq Uids
  BY <1>1, <1>3, <1>8c, <1>8d
<1>15. DOMAIN queue \subseteq DOMAIN queue'
  BY <1>3, <1>8e, <1>9
<1>16. \A k \in DOMAIN queue : queue'[k] = queue[k]
  BY <1>3, <1>10
<1>17. \A u \in MembersOf(group) :
                \/ LiveOf(u) = {} \/ u \in stale'
                \/ \E k \in DOMAIN queue' \ DOMAIN queue : queue'[k].uid = u
  BY <1>13
<1> QED
  BY <1>9, <1>12, <1>14, <1>15, <1>16, <1>17

(* The deletion of the group begins and ends. *)
LEMMA GroupTypes ==
    ASSUME TypeOK, NEW s \in Slots, DeleteSummaryGroup(s) \/ DropGroup(s)
    PROVE  TypeOK'
<1>2. CASE DeleteSummaryGroup(s)
  <2> DEFINE c == [kind |-> "group", stage |-> "cascade", parent |-> group]
  <2>1. c \in Requests
    BY <1>2 DEF DeleteSummaryGroup, Requests, GroupCall, TypeOK
  <2>2. calls' \in [Slots -> Call \cup GroupCall \cup {Idle}] /\ called' \in 0..MaxCalls
    BY <1>2, <2>1, BeginTypes DEF DeleteSummaryGroup
  <2>3. queue' \in Seq(Task) /\ Len(queue') <= QueueSize /\ stale' \subseteq Uids
    BY <1>2, GroupStep
  <2> QED
    BY <1>2, <2>2, <2>3 DEF DeleteSummaryGroup, TypeOK, store, derived, socket
<1>3. CASE DropGroup(s)
  BY <1>3, EndTypes DEF DropGroup, TypeOK, derived, socket, account
<1> QED
  BY <1>2, <1>3

(* The members' rows are hidden, or nothing is. *)
LEMMA HiddenStep ==
    ASSUME TypeOK, NEW M, SoftDeleteByParent(M)
    PROVE  /\ rows' \in Seq(Row) /\ Len(rows') = Len(rows) /\ DOMAIN rows' = DOMAIN rows
           /\ \A j \in DOMAIN rows :
                /\ rows'[j].uid = rows[j].uid /\ rows'[j].text = rows[j].text
                /\ rows'[j].live <=> rows[j].live /\ rows[j].uid \notin M
<1> DEFINE r(i) == IF rows[i].uid \in M THEN [rows[i] EXCEPT !.live = FALSE] ELSE rows[i]
<1>1. rows' = [i \in DOMAIN rows |-> r(i)]
  BY DEF SoftDeleteByParent
<1>2. \A i \in DOMAIN rows : /\ r(i) \in Row /\ r(i).uid = rows[i].uid /\ r(i).text = rows[i].text
                             /\ r(i).live <=> rows[i].live /\ rows[i].uid \notin M
  <2>1. ASSUME NEW i \in DOMAIN rows PROVE rows[i] \in Row
    BY RowTypes
  <2> QED
    BY <2>1 DEF Row
<1>3. Len(rows) \in Nat /\ DOMAIN rows = 1..Len(rows)
  BY DEF TypeOK
<1> HIDE DEF r
<1>4. rows' \in Seq(Row)
  BY <1>1, <1>2, <1>3
<1>5. DOMAIN rows' = DOMAIN rows /\ Len(rows') = Len(rows)
  BY <1>1, <1>3, <1>4
<1> QED
  BY <1>1, <1>2, <1>4, <1>5

(* Its members are hidden in one statement. *)
LEMMA CascadeTypes ==
    ASSUME TypeOK, NEW s \in Slots, NEW fails \in BOOLEAN, Cascade(s, fails)
    PROVE  TypeOK'
<1> DEFINE hit == {u \in MembersOf(calls[s].parent) : LiveOf(u) # {}}
<1>1. calls[s] \in GroupCall
  BY Kinds DEF Cascade, At
<1>2. calls' \in [Slots -> Call \cup GroupCall \cup {Idle}]
  BY <1>1, GoOnTypes DEF Cascade
<1>3. rows' \in Seq(Row) /\ Len(rows') <= MaxRows /\ faults' \in 0..MaxFaults
  BY HiddenStep, FaultTypes DEF Cascade, TypeOK
<1>4. stale' \subseteq Uids
  <2>1. stale' \subseteq stale \cup hit
    BY DEF Cascade
  <2>2. hit \subseteq Uids
    BY DigestAssumption DEF MembersOf
  <2> QED
    BY <2>1, <2>2 DEF TypeOK
<1> QED
  BY <1>2, <1>3, <1>4 DEF Cascade, TypeOK, derived, socket

-----------------------------------------------------------------------------
(* Tombstones, drains and frames. *)
LEMMA EntombTypes ==
    ASSUME Basics, NEW s \in Slots, NEW fails \in BOOLEAN, Entomb(s, fails)
    PROVE  TypeOK'
<1> DEFINE i == calls[s].id
<1>0. TypeOK
  BY DEF Basics
<1>1. i \in Ids
  <2>1. calls[s].stage = "tell" /\ calls[s].kind = "web"
    BY DEF Entomb, At
  <2>2. i \in 0..MaxRows /\ i # 0
    BY <1>0, <2>1, Kinds DEF OfDigest, Call, Basics, CallsFit, CallFits
  <2> QED
    BY <2>2, DigestAssumption DEF Ids
<1>2. calls' \in [Slots -> Call \cup GroupCall \cup {Idle}] /\ faults' \in 0..MaxFaults
  BY <1>0, EndTypes, FaultTypes DEF Entomb, TypeOK
<1>3. tombs' \in [Ids -> {"no", "queued", "sent"}]
  BY <1>0 DEF Entomb, TypeOK
<1>4. forgotten' \subseteq Ids \X Causes
  BY <1>0, <1>1 DEF Entomb, TypeOK, Causes
<1> QED
  BY <1>0, <1>2, <1>3, <1>4 DEF Entomb, TypeOK, store, derived

(* A heartbeat's drain of the tombstones. *)
LEMMA SocketTypes ==
    ASSUME TypeOK, NEW c \in Conns, Socket(c) \/ EmitFails(c)
    PROVE  TypeOK'
<1>1. CASE Ping(c)
  <2>1. [stage |-> "mark", ids |-> Entombed] \in Drain
    BY DEF Drain, Entombed
  <2>2. drains' \in [Conns -> Drain \cup {Idle}]
    BY <1>1, <2>1, DrainStep DEF Ping
  <2> QED
    BY <1>1, <2>2 DEF Ping, TypeOK, store, derived, account
<1>2. ASSUME NEW stage \in {"emit", "ack"}, GoDrain(c, stage), drains[c] # Idle
      PROVE  drains' \in [Conns -> Drain \cup {Idle}]
  <2>1. drains' = [drains EXCEPT ![c] = [drains[c] EXCEPT !.stage = stage]]
    BY <1>2 DEF GoDrain
  <2>2. [drains[c] EXCEPT !.stage = stage] \in Drain
    BY <1>2, Drains DEF Drain
  <2> QED
    BY <2>1, <2>2, DrainStep
<1>3. CASE MarkSent(c)
  <2>1. drains' \in [Conns -> Drain \cup {Idle}]
    BY <1>2, <1>3, Drains DEF MarkSent
  <2>2. tombs' \in [Ids -> {"no", "queued", "sent"}]
    BY <1>3 DEF MarkSent, TypeOK
  <2> QED
    BY <1>3, <2>1, <2>2 DEF MarkSent, TypeOK, store, derived, account
<1>4. CASE Emit(c)
  <2>1. drains' \in [Conns -> Drain \cup {Idle}] /\ drains[c].ids \subseteq Ids
    BY <1>2, <1>4, Drains DEF Emit
  <2> QED
    BY <1>4, <2>1 DEF Emit, TypeOK, store, derived, account
<1>5. CASE Ack(c)
  <2>1. drains' \in [Conns -> Drain \cup {Idle}]
    BY <1>5, DrainStep DEF Ack, EndDrain
  <2>2. tombs' \in [Ids -> {"no", "queued", "sent"}]
    BY <1>5 DEF Ack, TypeOK
  <2>3. forgotten' \subseteq Ids \X Causes
    BY <1>5 DEF Ack, TypeOK, Causes, Acked
  <2> QED
    BY <1>5, <2>1, <2>2, <2>3 DEF Ack, TypeOK, store, derived
<1>6. CASE EmitFails(c)
  <2>1. drains' \in [Conns -> Drain \cup {Idle}]
    BY <1>6, DrainStep DEF EmitFails, EndDrain
  <2> QED
    BY <1>6, <2>1, FaultTypes DEF EmitFails, TypeOK, store, derived, account
<1> QED
  BY <1>1, <1>3, <1>4, <1>5, <1>6 DEF Socket

(* A frame arrives or is lost. *)
LEMMA FrameTypes ==
    ASSUME TypeOK, NEW ids \in frames, Deliver(ids) \/ LoseFrame(ids)
    PROVE  TypeOK'
<1>1. CASE Deliver(ids)
  <2>1. copies' \in [Uids -> Copy]
    BY <1>1, DigestAssumption DEF Deliver, TypeOK, NoCopy, Copy, Said
  <2>2. frames' \subseteq SUBSET Ids
    BY <1>1 DEF Deliver, TypeOK
  <2> QED
    BY <1>1, <2>1, <2>2 DEF Deliver, TypeOK, store, derived, account
<1>2. CASE LoseFrame(ids)
  <2>1. frames' \subseteq SUBSET Ids /\ forgotten' \subseteq Ids \X Causes
    BY <1>2 DEF LoseFrame, TypeOK, Causes
  <2> QED
    BY <1>2, <2>1, FaultTypes DEF LoseFrame, TypeOK, store, derived
<1> QED
  BY <1>1, <1>2

(* The sweep removes every tombstone. *)
LEMMA SweepTypes == ASSUME TypeOK, Sweep PROVE TypeOK'
<1>1. forgotten' \subseteq Ids \X Causes /\ tombs' \in [Ids -> {"no", "queued", "sent"}]
  BY DEF Sweep, TypeOK, Causes, Entombed
<1> QED
  BY <1>1, FaultTypes DEF Sweep, TypeOK, store, derived

-----------------------------------------------------------------------------
(* The index worker and the backfill. *)
LEMMA GoToStep ==
    ASSUME TypeOK, NEW p \in Procs, NEW stage \in Embedding \cup Removing, jobs[p] # Idle,
           GoTo(p, stage)
    PROVE  /\ jobs' \in [Procs -> Job \cup {Idle}] /\ jobs'[p] # Idle
           /\ jobs'[p].stage = stage /\ jobs'[p].uid = jobs[p].uid /\ jobs'[p].text = jobs[p].text
           /\ \A q \in Procs : q # p => jobs'[q] = jobs[q]
<1>1. jobs' = [jobs EXCEPT ![p] = [jobs[p] EXCEPT !.stage = stage]]
  BY DEF GoTo
<1>2. [jobs[p] EXCEPT !.stage = stage] \in Job
  BY Jobs DEF Job, Embedding, Removing
<1>3. jobs[p] \in Job
  BY Jobs
<1>4. jobs'[p] = [jobs[p] EXCEPT !.stage = stage] /\ jobs' \in [Procs -> Job \cup {Idle}]
      /\ \A q \in Procs : q # p => jobs'[q] = jobs[q]
  BY <1>1, <1>2, JobStep
<1>5. [jobs[p] EXCEPT !.stage = stage].stage = stage
      /\ [jobs[p] EXCEPT !.stage = stage].uid = jobs[p].uid
      /\ [jobs[p] EXCEPT !.stage = stage].text = jobs[p].text
  BY <1>3 DEF Job
<1>6. stage # "idle"
  BY DEF Embedding, Removing
<1> QED
  BY <1>4, <1>5, <1>6 DEF Idle

(* A job ends. *)
LEMMA DoneStep ==
    ASSUME TypeOK, NEW p \in Procs, Done(p)
    PROVE  /\ jobs' \in [Procs -> Job \cup {Idle}] /\ jobs'[p] = Idle
           /\ \A q \in Procs : q # p => jobs'[q] = jobs[q]
BY JobStep DEF Done

(* Where a failure leads. *)
LEMMA FailStep ==
    ASSUME TypeOK, NEW p \in Procs, StepFails(p)
    PROVE  /\ jobs[p] # Idle
           /\ \/ Done(p)
              \/ jobs[p].stage = "index" /\ GoTo(p, "clear")
              \/ jobs[p].stage = "unindex" /\ GoTo(p, "purge")
              \/ jobs[p].stage = "clear" /\ GoTo(p, "save")
<1> DEFINE after == [index |-> {"clear"}, unindex |-> {"purge"}, purge |-> {"idle"},
                     clear |-> {"idle", "save"}, save |-> {"idle"}]
<1>1. jobs[p].stage \in {"index", "unindex", "purge", "clear", "save"}
  <2>1. jobs[p].stage \in DOMAIN after
    BY DEF StepFails
  <2> QED
    BY <2>1
<1>2. PICK next \in after[jobs[p].stage] : IF next = "idle" THEN Done(p) ELSE GoTo(p, next)
  BY DEF StepFails
<1>3. CASE jobs[p].stage = "index"
  <2>1. next = "clear"
    BY <1>2, <1>3
  <2> QED
    BY <1>2, <1>3, <2>1, Jobs
<1>4. CASE jobs[p].stage = "unindex"
  <2>1. next = "purge"
    BY <1>2, <1>4
  <2> QED
    BY <1>2, <1>4, <2>1, Jobs
<1>5. CASE jobs[p].stage \in {"purge", "save"}
  <2>1. next = "idle"
    BY <1>2, <1>5
  <2> QED
    BY <1>2, <1>5, <2>1, Jobs
<1>6. CASE jobs[p].stage = "clear"
  <2>1. next \in {"idle", "save"}
    BY <1>2, <1>6
  <2> QED
    BY <1>2, <1>6, <2>1, Jobs
<1> QED
  BY <1>1, <1>3, <1>4, <1>5, <1>6

(* The head of a sequence, and the rest. *)
LEMMA Popped ==
    ASSUME NEW S, NEW q \in Seq(S), q # <<>>
    PROVE  /\ Head(q) \in S /\ Head(q) = q[1] /\ Tail(q) \in Seq(S)
           /\ Len(q) \in Nat /\ Len(q) > 0 /\ DOMAIN q = 1..Len(q)
           /\ Len(Tail(q)) = Len(q) - 1 /\ DOMAIN Tail(q) = 1..(Len(q) - 1)
           /\ \A k \in 1..(Len(q) - 1) : Tail(q)[k] = q[k + 1]
OBVIOUS

(* A sequence with one more. *)
LEMMA Pushed ==
    ASSUME NEW S, NEW q \in Seq(S), NEW e \in S
    PROVE  /\ Append(q, e) \in Seq(S) /\ Len(q) \in Nat /\ Len(Append(q, e)) = Len(q) + 1
           /\ DOMAIN q = 1..Len(q) /\ DOMAIN Append(q, e) = 1..(Len(q) + 1)
           /\ \A k \in 1..Len(q) : Append(q, e)[k] = q[k]
           /\ Append(q, e)[Len(q) + 1] = e
OBVIOUS

(* The worker takes the first task as its job. *)
LEMMA TakeStep ==
    ASSUME TypeOK, Take
    PROVE  /\ queue \in Seq(Task) /\ queue # <<>> /\ Head(queue) \in Task
           /\ queue' = Tail(queue) /\ queue' \in Seq(Task) /\ Len(queue') <= QueueSize
           /\ jobs["worker"] = Idle /\ jobs'["worker"] \in Job
           /\ jobs'["worker"].uid = Head(queue).uid /\ jobs'["worker"].text = Head(queue).text
           /\ jobs'["worker"].stage = IF Shown(Head(queue).text) = None THEN "unindex" ELSE "index"
           /\ jobs' \in [Procs -> Job \cup {Idle}] /\ jobs'["backfill"] = jobs["backfill"]
<1> DEFINE t == Head(queue)
           r == [stage |-> IF Shown(t.text) = None THEN "unindex" ELSE "index",
                 uid |-> t.uid, text |-> t.text]
<1>1. queue \in Seq(Task) /\ queue # <<>> /\ Len(queue) <= QueueSize /\ QueueSize \in Nat
  BY DigestAssumption DEF TypeOK, Take
<1>2. t \in Task /\ Tail(queue) \in Seq(Task) /\ Len(Tail(queue)) <= QueueSize
  BY <1>1, Popped
<1>3. r \in Job
  BY <1>2 DEF Task, Job
<1>4. jobs' = [jobs EXCEPT !["worker"] = r] /\ jobs["worker"] = Idle /\ queue' = Tail(queue)
  BY DEF Take
<1>5. jobs' \in [Procs -> Job \cup {Idle}] /\ jobs'["worker"] = r /\ jobs'["backfill"] = jobs["backfill"]
  BY <1>3, <1>4, JobStep DEF Procs
<1> QED
  BY <1>1, <1>2, <1>3, <1>4, <1>5

(* A backfill starts with the text that is indexed now. *)
LEMMA BackfillStep ==
    ASSUME TypeOK, NEW u \in Uids, Backfill(u)
    PROVE  /\ jobs["backfill"] = Idle /\ jobs'["backfill"] \in Job
           /\ jobs'["backfill"].uid = u /\ jobs'["backfill"].text = index[u]
           /\ jobs'["backfill"].stage = "clear"
           /\ jobs' \in [Procs -> Job \cup {Idle}] /\ jobs'["worker"] = jobs["worker"]
<1> DEFINE r == [stage |-> "clear", uid |-> u, text |-> index[u]]
<1>1. r \in Job
  BY DEF TypeOK, Job
<1>2. jobs' = [jobs EXCEPT !["backfill"] = r] /\ jobs["backfill"] = Idle
  BY DEF Backfill
<1> QED
  BY <1>1, <1>2, JobStep DEF Procs

(* A write to the vectors beside another embedder is recorded. *)
LEMMA TouchTypes ==
    ASSUME TypeOK, NEW p \in Procs, NEW u \in Uids, Touch(p, u)
    PROVE  skewed' \subseteq Uids
BY DEF Touch, TypeOK

(* The worker's steps are typed. *)
LEMMA WorkerTypes == ASSUME TypeOK, Worker PROVE TypeOK'
<1>0. "worker" \in Procs
  BY DEF Procs
<1>1. CASE Take
  <2>1. jobs' \in [Procs -> Job \cup {Idle}] /\ queue' \in Seq(Task) /\ Len(queue') <= QueueSize
    BY <1>1, TakeStep
  <2> QED
    BY <1>1, <2>1 DEF Take, TypeOK, store, derived, socket, account
<1>2. CASE IndexPage
  <2>1. jobs["worker"] # Idle /\ jobs["worker"].text \in Said
    BY <1>0, <1>2, Jobs DEF IndexPage, Doing
  <2>2. jobs' \in [Procs -> Job \cup {Idle}]
    BY <1>0, <1>2, <2>1, GoToStep DEF IndexPage, Embedding
  <2>3. index' \in [Uids -> Said]
    BY <1>2, <2>1 DEF IndexPage, TypeOK
  <2> QED
    BY <1>2, <2>2, <2>3 DEF IndexPage, TypeOK, store, socket, account
<1>3. CASE Unindex
  <2>1. jobs["worker"] # Idle
    BY <1>0, <1>3, Jobs DEF Unindex, Doing
  <2>2. jobs' \in [Procs -> Job \cup {Idle}]
    BY <1>0, <1>3, <2>1, GoToStep DEF Unindex, Removing
  <2>3. index' \in [Uids -> Said]
    BY <1>3 DEF Unindex, TypeOK, Said
  <2> QED
    BY <1>3, <2>2, <2>3 DEF Unindex, TypeOK, store, socket, account
<1>4. CASE Purge
  <2>1. jobs["worker"] # Idle /\ jobs["worker"].uid \in Uids
    BY <1>0, <1>4, Jobs DEF Purge, Doing
  <2>2. jobs' \in [Procs -> Job \cup {Idle}]
    BY <1>0, <1>4, <2>1, GoToStep DEF Purge, Removing
  <2>3. vectors' \in [Uids -> Said] /\ skewed' \subseteq Uids
    BY <1>0, <1>4, <2>1, TouchTypes DEF Purge, TypeOK, Said
  <2> QED
    BY <1>4, <2>2, <2>3 DEF Purge, TypeOK, store, socket
<1>5. CASE Evict
  <2>2. jobs' \in [Procs -> Job \cup {Idle}]
    BY <1>0, <1>5, DoneStep DEF Evict
  <2>3. cache' \in [Uids -> Said]
    BY <1>5 DEF Evict, TypeOK, Said
  <2> QED
    BY <1>5, <2>2, <2>3 DEF Evict, TypeOK, store, socket, account
<1> QED
  BY <1>1, <1>2, <1>3, <1>4, <1>5 DEF Worker

(* So are those of an embedder. *)
LEMMA EmbedderTypes == ASSUME TypeOK, NEW p \in Procs, Embedder(p) PROVE TypeOK'
<1>1. CASE Clear(p)
  <2>1. jobs[p] # Idle /\ jobs[p].uid \in Uids
    BY <1>1, Jobs DEF Clear, Doing
  <2>2. jobs' \in [Procs -> Job \cup {Idle}]
    BY <1>1, <2>1, GoToStep DEF Clear, Embedding
  <2>3. vectors' \in [Uids -> Said] /\ skewed' \subseteq Uids
    BY <1>1, <2>1, TouchTypes DEF Clear, TypeOK, Said
  <2> QED
    BY <1>1, <2>2, <2>3 DEF Clear, TypeOK, store, socket
<1>2. CASE Forget(p)
  <2>1. jobs[p] # Idle
    BY <1>2, Jobs DEF Forget, Doing
  <2>2. jobs' \in [Procs -> Job \cup {Idle}]
    BY <1>2, <2>1, GoToStep DEF Forget, Embedding
  <2>3. cache' \in [Uids -> Said]
    BY <1>2 DEF Forget, TypeOK, Said
  <2> QED
    BY <1>2, <2>2, <2>3 DEF Forget, TypeOK, store, socket, account
<1>3. CASE Save(p)
  <2>1. jobs[p] # Idle /\ jobs[p].uid \in Uids /\ jobs[p].text \in Said
    BY <1>3, Jobs DEF Save, Doing
  <2>2. jobs' \in [Procs -> Job \cup {Idle}]
    BY <1>3, <2>1, GoToStep DEF Save, Embedding
  <2>3. vectors' \in [Uids -> Said] /\ skewed' \subseteq Uids /\ stale' \subseteq Uids
    BY <1>3, <2>1, TouchTypes DEF Save, TypeOK
  <2> QED
    BY <1>3, <2>2, <2>3 DEF Save, TypeOK, store, socket
<1>4. CASE Remember(p)
  <2>1. jobs[p] # Idle /\ jobs[p].text \in Said
    BY <1>4, Jobs DEF Remember, Doing
  <2>2. jobs' \in [Procs -> Job \cup {Idle}]
    BY <1>4, DoneStep DEF Remember
  <2>3. cache' \in [Uids -> Said]
    BY <1>4, <2>1 DEF Remember, TypeOK
  <2> QED
    BY <1>4, <2>2, <2>3 DEF Remember, TypeOK, store, socket, account
<1> QED
  BY <1>1, <1>2, <1>3, <1>4 DEF Embedder

(* So is their failure. *)
LEMMA StepFailsTypes == ASSUME TypeOK, NEW p \in Procs, StepFails(p) PROVE TypeOK'
<1>1. jobs' \in [Procs -> Job \cup {Idle}]
  BY FailStep, DoneStep, GoToStep DEF Embedding, Removing
<1>2. stale' \subseteq Uids
  BY FailStep, Jobs DEF StepFails, TypeOK
<1> QED
  BY <1>1, <1>2, FaultTypes DEF StepFails, TypeOK, store, derived, socket

(* So is the start of a backfill. *)
LEMMA BackfillTypes == ASSUME TypeOK, NEW u \in Uids, Backfill(u) PROVE TypeOK'
BY BackfillStep, FaultTypes DEF Backfill, TypeOK, store, derived, socket, account

(* The startup pass has a task for every live row, and no other. *)
LEMMA RestartStep ==
    ASSUME TypeOK, Restart
    PROVE  /\ boot' \in Seq(Task)
           /\ \A k \in DOMAIN boot' : \E i \in Listed :
                boot'[k].uid = rows[i].uid /\ boot'[k].text = rows[i].text
           /\ \A i \in Listed : \E k \in DOMAIN boot' :
                boot'[k].uid = rows[i].uid /\ boot'[k].text = rows[i].text
<1> DEFINE n == Cardinality(Listed)
           R == [Uids \X Texts -> BOOLEAN]
<1>1. Listed \subseteq 1..MaxRows /\ Listed \subseteq DOMAIN rows
  BY RowTypes DEF Listed, Ids
<1>2. IsFiniteSet(Listed) /\ n \in Nat
  <2>1. IsFiniteSet(1..MaxRows)
    BY DigestAssumption, FS_Interval
  <2>2. IsFiniteSet(Listed)
    BY <1>1, <2>1, FS_Subset
  <2> QED
    BY <2>2, FS_CardinalityType
<1>3. PICK order \in [1..n -> Listed] :
        /\ \A k, l \in DOMAIN order : k < l => order[k] < order[l]
        /\ boot' = [k \in DOMAIN order |->
                     [uid |-> rows[order[k]].uid, text |-> rows[order[k]].text]]
  BY DEF Restart
<1>4. \A k, l \in 1..n : k < l => order[k] < order[l]
  BY <1>3
<1>5. boot' = [k \in 1..n |-> [uid |-> rows[order[k]].uid, text |-> rows[order[k]].text]]
  BY <1>3
<1>6. \A k \in 1..n : order[k] \in Listed
  BY <1>3
<1> HIDE DEF n
<1>7. boot' \in [1..n -> Task]
  <2>1. ASSUME NEW k \in 1..n
        PROVE  [uid |-> rows[order[k]].uid, text |-> rows[order[k]].text] \in Task
    BY <1>1, <1>6, RowTypes DEF Task
  <2> QED
    BY <1>5, <2>1
<1>8. boot' \in Seq(Task) /\ DOMAIN boot' = 1..n
  BY <1>2, <1>7
<1>9. \A i \in Listed : \E k \in 1..n : order[k] = i
  <2>1. \A k, l \in 1..n : k # l => order[k] # order[l]
    <3>1. TAKE k, l \in 1..n
    <3>2. k \in Nat /\ l \in Nat /\ order[k] \in Nat /\ order[l] \in Nat
      <4>1. order[k] \in 1..MaxRows /\ order[l] \in 1..MaxRows
        BY <1>1, <1>6
      <4> QED
        BY <1>2, <4>1
    <3>3. k < l => order[k] < order[l]
      BY <1>4
    <3>4. l < k => order[l] < order[k]
      BY <1>4
    <3> QED
      BY <3>2, <3>3, <3>4
  <2>2. IsFiniteSet(1..n) /\ Cardinality(1..n) = n
    BY <1>2, FS_Interval
  <2>3. order \in Injection(1..n, Listed)
    BY <1>3, <2>1 DEF Injection, IsInjective, n
  <2>4. order \in Surjection(1..n, Listed)
    BY <1>2, <2>2, <2>3, FS_Injection DEF n
  <2> QED
    BY <2>4 DEF Surjection
<1> QED
  BY <1>5, <1>6, <1>8, <1>9

(* A restart leaves typed what it does not clear. *)
LEMMA RestartTypes == ASSUME Basics, Restart PROVE TypeOK'
<1>0. TypeOK
  BY DEF Basics
<1>1. boot' \in Seq(Task)
  BY <1>0, RestartStep
<1>2. stale' \subseteq Uids /\ skewed' \subseteq Uids
  BY DEF Restart
<1>3. forgotten' \subseteq Ids \X Causes
  <2>1. ASSUME NEW r \in Slots, calls[r].stage \in {"index", "tell"}, calls[r].kind = "web"
        PROVE  calls[r].id \in Ids
    <3>1. calls[r].id \in 0..MaxRows /\ calls[r].id # 0
      BY <1>0, <2>1, Kinds DEF OfDigest, Call, Basics, CallsFit, CallFits
    <3> QED
      BY <3>1, DigestAssumption DEF Ids
  <2>2. forgotten \subseteq Ids \X Causes
    BY <1>0 DEF TypeOK
  <2> QED
    BY <2>1, <2>2 DEF Restart, Causes
<1>4. /\ calls' \in [Slots -> Call \cup GroupCall \cup {Idle}]
      /\ jobs' \in [Procs -> Job \cup {Idle}] /\ drains' \in [Conns -> Drain \cup {Idle}]
      /\ queue' \in Seq(Task) /\ Len(queue') <= QueueSize /\ cache' \in [Uids -> Said]
  BY <1>0, DigestAssumption DEF Restart, TypeOK
<1> QED
  BY <1>0, <1>1, <1>2, <1>3, <1>4, FaultTypes DEF Restart, TypeOK, store

(* The startup pass queues its next task, or drops it. *)
LEMMA BootStep ==
    ASSUME TypeOK, BootIndex
    PROVE  /\ boot \in Seq(Task) /\ boot # <<>> /\ Head(boot) \in Task
           /\ boot' = Tail(boot) /\ boot' \in Seq(Task)
           /\ queue' \in Seq(Task) /\ Len(queue') <= QueueSize /\ stale' \subseteq Uids
<1>1. boot \in Seq(Task) /\ boot # <<>> /\ boot' = Tail(boot) /\ stale \subseteq Uids
      /\ queue \in Seq(Task) /\ Len(queue) <= QueueSize /\ QueueSize \in Nat
  BY DigestAssumption DEF TypeOK, BootIndex
<1>2. Head(boot) \in Task /\ boot' \in Seq(Task)
  BY <1>1, Popped
<1>3. Head(boot).uid \in Uids
  BY <1>2 DEF Task
<1>4. stale' \subseteq stale \cup {Head(boot).uid}
      /\ (queue' = queue \/ (Len(queue) < QueueSize /\ queue' = Append(queue, Head(boot))))
  BY DEF BootIndex
<1>5. queue' \in Seq(Task) /\ Len(queue') <= QueueSize
  <2>1. Append(queue, Head(boot)) \in Seq(Task) /\ Len(Append(queue, Head(boot))) = Len(queue) + 1
        /\ Len(queue) \in Nat
    BY <1>1, <1>2, Pushed
  <2>2. Len(queue) < QueueSize => Len(Append(queue, Head(boot))) <= QueueSize
    BY <1>1, <2>1
  <2> QED
    BY <1>1, <1>4, <2>1, <2>2, Zenon
<1> QED
  BY <1>1, <1>2, <1>3, <1>4, <1>5

(* Its step is typed. *)
LEMMA BootTypes == ASSUME TypeOK, BootIndex PROVE TypeOK'
BY BootStep DEF BootIndex, TypeOK, store, derived, socket

(* Every step keeps the types. *)
LEMMA TypesStep == ASSUME Basics, Next PROVE TypeOK'
<1>0. TypeOK
  BY DEF Basics
<1>1. CASE Device
  <2>1. ASSUME NEW u \in Uids, NEW t \in Texts, Draw(u, t) PROVE TypeOK'
    <3>1. copies' \in [Uids -> Copy] /\ called' \in 0..MaxCalls
      BY <1>0, <2>1, DigestAssumption DEF Draw, TypeOK, Copy, Said
    <3> QED
      BY <1>0, <2>1, <3>1 DEF Draw, TypeOK, store, derived, socket, account
  <2>2. ASSUME NEW s \in Slots, NEW u \in Uids, AddSummary(s, u) \/ DeleteSummary(s, u)
        PROVE  TypeOK'
    <3>1. Blank \in Texts
      BY DigestAssumption
    <3>2. \A t \in Texts : TypeOK'
      BY <1>0, <2>2, DeviceTypes
    <3> QED
      BY <3>1, <3>2
  <2>3. ASSUME NEW s \in Slots, NEW u \in Uids, NEW t \in Texts, UpdateSummary(s, u, t)
        PROVE  TypeOK'
    BY <1>0, <2>3, DeviceTypes
  <2>4. ASSUME NEW u \in Uids, Pull(u) PROVE TypeOK'
    BY <1>0, <2>4, PullTypes
  <2>5. CASE AddSummaryGroup
    <3>1. group' \in GroupUids /\ called' \in 0..MaxCalls
      BY <1>0, <2>5, DigestAssumption DEF AddSummaryGroup, TypeOK, GroupUids
    <3> QED
      BY <1>0, <2>5, <3>1 DEF AddSummaryGroup, TypeOK, derived, socket, account
  <2>6. ASSUME NEW g \in GroupUids, UpdateSummaryGroup(g) PROVE TypeOK'
    <3>1. group' \in GroupUids /\ called' \in 0..MaxCalls
      BY <1>0, <2>6, DigestAssumption DEF UpdateSummaryGroup, TypeOK, GroupUids
    <3> QED
      BY <1>0, <2>6, <3>1 DEF UpdateSummaryGroup, TypeOK, derived, socket, account
  <2>7. ASSUME NEW s \in Slots, DeleteSummaryGroup(s) PROVE TypeOK'
    BY <1>0, <2>7, GroupTypes
  <2>8. ASSUME NEW ids \in frames, Deliver(ids) PROVE TypeOK'
    BY <1>0, <2>8, FrameTypes
  <2> QED
    BY <1>1, <2>1, <2>2, <2>3, <2>4, <2>5, <2>6, <2>7, <2>8 DEF Device
<1>2. ASSUME NEW s \in Slots, NEW i \in DOMAIN rows, DeleteDigest(s, i) PROVE TypeOK'
  BY <1>0, <1>2, DeleteDigestTypes
<1>3. ASSUME NEW s \in Slots, Handler(s) PROVE TypeOK'
  BY <1>0, <1>3, WriteTypes, AnswerTypes, HideTypes, DeindexTypes, CascadeTypes, GroupTypes,
     EntombTypes DEF Handler
<1>4. ASSUME NEW c \in Conns, Socket(c) PROVE TypeOK'
  BY <1>0, <1>4, SocketTypes
<1>5. CASE Faults
  <2>1. ASSUME NEW s \in Slots,
               RequestFails(s) \/ Answer(s, TRUE) \/ Cascade(s, TRUE) \/ Entomb(s, TRUE)
        PROVE  TypeOK'
    BY <1>0, <2>1, RequestFailsTypes, AnswerTypes, CascadeTypes, EntombTypes
  <2>2. ASSUME NEW c \in Conns, EmitFails(c) PROVE TypeOK'
    BY <1>0, <2>2, SocketTypes
  <2>3. ASSUME NEW ids \in frames, LoseFrame(ids) PROVE TypeOK'
    BY <1>0, <2>3, FrameTypes
  <2>4. ASSUME NEW p \in Procs, StepFails(p) PROVE TypeOK'
    BY <1>0, <2>4, StepFailsTypes
  <2>5. ASSUME NEW u \in Uids, Backfill(u) PROVE TypeOK'
    BY <1>0, <2>5, BackfillTypes
  <2> QED
    BY <1>0, <1>5, <2>1, <2>2, <2>3, <2>4, <2>5, SweepTypes, RestartTypes DEF Faults
<1> QED
  BY <1>0, <1>1, <1>2, <1>3, <1>4, <1>5, WorkerTypes, EmbedderTypes, BootTypes DEF Next

-----------------------------------------------------------------------------
(* The rest of what holds of requests, copies and jobs. *)

(* Rows are never removed and keep their uid. *)
RowsKept == /\ DOMAIN rows \subseteq DOMAIN rows'
            /\ \A j \in DOMAIN rows : rows'[j].uid = rows[j].uid

(* An update keeps them. *)
LEMMA UpdateKeeps ==
    ASSUME TypeOK, NEW i, Live(i), NEW t \in Texts, Update(i, t) PROVE RowsKept
<1>1. DOMAIN rows' = DOMAIN rows
  BY UpdateStep
<1>2. \A j \in DOMAIN rows : rows'[j].uid = rows[j].uid
  BY UpdateStep, Zenon
<1> QED
  BY <1>1, <1>2 DEF RowsKept

(* A deletion does. *)
LEMMA SoftDeleteKeeps == ASSUME TypeOK, NEW i, Live(i), SoftDelete(i) PROVE RowsKept
<1>1. DOMAIN rows' = DOMAIN rows
  BY SoftDeleteStep
<1>2. \A j \in DOMAIN rows : rows'[j].uid = rows[j].uid
  BY SoftDeleteStep, Zenon
<1> QED
  BY <1>1, <1>2 DEF RowsKept

(* Only the request of slot s does something. *)
Only(s) == \A t \in Slots : t # s => calls'[t] = calls[t]

(* The other requests still know their rows. *)
LEMMA KeepsCalls ==
    ASSUME Basics, RowsKept, NEW s \in Slots, Only(s), CallFits(calls[s])'
    PROVE  CallsFit'
<1>1. ASSUME NEW t \in Slots, t # s PROVE CallFits(calls[t])'
  <2>1. CallFits(calls[t]) /\ calls'[t] = calls[t]
    BY <1>1 DEF Basics, CallsFit, Only
  <2> QED
    BY <2>1 DEF CallFits, RowsKept, OfDigest
<1> QED
  BY <1>1 DEF CallsFit

(* A request that ends knows nothing. *)
LEMMA EndsFit ==
    ASSUME Basics, RowsKept, NEW s \in Slots, End(s)
    PROVE  CallsFit' /\ (boot' = boot => BootIsFirst')
<1>0. TypeOK
  BY DEF Basics
<1>1. calls'[s] = Idle /\ Only(s)
  BY <1>0, EndTypes DEF Only
<1>2. CallFits(calls[s])'
  BY <1>1 DEF CallFits, OfDigest, Idle
<1> QED
  BY <1>1, <1>2, KeepsCalls DEF BootIsFirst, Only, Basics

(* One that begins knows what it has read. *)
LEMMA BeginsFit ==
    ASSUME Basics, rows' = rows, boot' = boot, NEW s \in Slots, NEW c \in Requests,
           Begin(s, c), CallFits(c)
    PROVE  CallsFit' /\ BootIsFirst'
<1>0. TypeOK
  BY DEF Basics
<1>1. calls'[s] = c /\ Only(s) /\ boot = <<>>
  BY <1>0, BeginTypes DEF Only
<1>2. CallFits(calls[s])'
  BY <1>1 DEF CallFits, OfDigest
<1> QED
  BY <1>1, <1>2, KeepsCalls DEF BootIsFirst, RowsKept

(* One that goes on knows what it knew. *)
LEMMA GoesOnFit ==
    ASSUME Basics, RowsKept, boot' = boot, NEW s \in Slots, NEW stage \in {"index", "tell"},
           GoOn(s, stage), calls[s] \in Call,
           calls[s].id # 0
    PROVE  CallsFit' /\ BootIsFirst'
<1>0. TypeOK
  BY DEF Basics
<1>1. calls'[s] = [calls[s] EXCEPT !.stage = stage] /\ Only(s)
  BY <1>0, GoOnTypes DEF Only
<1>2. OfDigest(calls[s]) /\ CallFits(calls[s]) /\ calls[s] # Idle
  BY <1>0, Kinds DEF Basics, CallsFit, OfDigest, Idle
<1>3. /\ calls'[s].stage = stage /\ calls'[s].id = calls[s].id /\ calls'[s].uid = calls[s].uid
      /\ calls'[s].kind = calls[s].kind /\ calls'[s].text = calls[s].text
  BY <1>1 DEF Call
<1>4. CallFits(calls[s])'
  BY <1>2, <1>3 DEF CallFits, OfDigest, RowsKept
<1> QED
  BY <1>1, <1>2, <1>4, KeepsCalls DEF BootIsFirst, Only, Basics

(* Every step keeps what requests know of their rows. *)
LEMMA CallsStep == ASSUME Basics, Next PROVE CallsFit' /\ BootIsFirst'
<1>0. TypeOK
  BY DEF Basics
<1>a. UNCHANGED <<rows, calls, boot>> => CallsFit' /\ BootIsFirst'
  BY DEF Basics, CallsFit, CallFits, OfDigest, BootIsFirst
<1>b. rows' = rows => RowsKept
  BY DEF RowsKept
<1>1. CASE Device
  <2>1. ASSUME NEW u \in Uids, NEW t \in Texts, Draw(u, t) PROVE UNCHANGED <<rows, calls, boot>>
    BY <2>1 DEF Draw, store
  <2>2. ASSUME NEW s \in Slots, NEW u \in Uids, AddSummary(s, u)
        PROVE  CallsFit' /\ BootIsFirst'
    <3> DEFINE c == [kind |-> "add", stage |-> "write", uid |-> u, id |-> Found(u),
                     text |-> copies[u].text]
    <3>1. c \in Requests
      BY <1>0, FoundRow DEF TypeOK, Copy, Requests, Call
    <3>2. copies[u].text \in Texts
      BY <2>2 DEF AddSummary, Basics, CopiesFit
    <3>3. CallFits(c)
      BY <1>0, <3>2, FoundRow DEF CallFits, OfDigest, LiveOf
    <3> QED
      BY <2>2, <3>1, <3>3, BeginsFit DEF AddSummary, store
  <2>3. ASSUME NEW s \in Slots, NEW u \in Uids, NEW t \in Texts, UpdateSummary(s, u, t)
        PROVE  CallsFit' /\ BootIsFirst'
    <3> DEFINE i == copies[u].id
               c == [kind |-> "update", stage |-> "write", uid |-> rows[i].uid, id |-> i, text |-> t]
    <3>1. CASE Live(i)
      <4>1. i \in DOMAIN rows /\ i \in 0..MaxRows /\ rows[i].uid \in Uids /\ i # 0
        BY <1>0, <3>1, RowTypes DEF Live
      <4>2. c \in Requests
        BY <4>1 DEF Requests, Call, Said
      <4>3. CallFits(c)
        BY <4>1 DEF CallFits, OfDigest
      <4> QED
        BY <2>3, <3>1, <4>2, <4>3, BeginsFit DEF UpdateSummary, store
    <3>2. CASE ~Live(i)
      BY <1>a, <2>3, <3>2 DEF UpdateSummary, store
    <3> QED
      BY <3>1, <3>2
  <2>4. ASSUME NEW s \in Slots, NEW u \in Uids, DeleteSummary(s, u)
        PROVE  CallsFit' /\ BootIsFirst'
    <3> DEFINE i == copies[u].id
               c == [kind |-> "delete", stage |-> "write", uid |-> rows[i].uid, id |-> i,
                     text |-> None]
    <3>1. CASE Live(i)
      <4>1. i \in DOMAIN rows /\ i \in 0..MaxRows /\ rows[i].uid \in Uids /\ i # 0
        BY <1>0, <3>1, RowTypes DEF Live
      <4>2. c \in Requests
        BY <4>1 DEF Requests, Call, Said
      <4>3. CallFits(c)
        BY <4>1 DEF CallFits, OfDigest
      <4> QED
        BY <2>4, <3>1, <4>2, <4>3, BeginsFit DEF DeleteSummary, store
    <3>2. CASE ~Live(i)
      BY <1>a, <2>4, <3>2 DEF DeleteSummary, store
    <3> QED
      BY <3>1, <3>2
  <2>5. ASSUME NEW u \in Uids, Pull(u) PROVE UNCHANGED <<rows, calls, boot>>
    BY <2>5 DEF Pull, store
  <2>6. AddSummaryGroup => UNCHANGED <<rows, calls, boot>>
    BY DEF AddSummaryGroup
  <2>7. ASSUME NEW g \in GroupUids, UpdateSummaryGroup(g) PROVE UNCHANGED <<rows, calls, boot>>
    BY <2>7 DEF UpdateSummaryGroup
  <2>8. ASSUME NEW s \in Slots, DeleteSummaryGroup(s) PROVE CallsFit' /\ BootIsFirst'
    <3> DEFINE c == [kind |-> "group", stage |-> "cascade", parent |-> group]
    <3>1. c \in Requests
      BY <1>0, <2>8 DEF DeleteSummaryGroup, Requests, GroupCall, TypeOK
    <3>2. CallFits(c)
      BY DEF CallFits, OfDigest
    <3> QED
      BY <2>8, <3>1, <3>2, BeginsFit DEF DeleteSummaryGroup, store
  <2>9. ASSUME NEW ids \in frames, Deliver(ids) PROVE UNCHANGED <<rows, calls, boot>>
    BY <2>9 DEF Deliver, store
  <2> QED
    BY <1>a, <1>1, <2>1, <2>2, <2>3, <2>4, <2>5, <2>6, <2>7, <2>8, <2>9 DEF Device
<1>2. ASSUME NEW s \in Slots, NEW i \in DOMAIN rows, DeleteDigest(s, i)
      PROVE  CallsFit' /\ BootIsFirst'
  <2> DEFINE c == [kind |-> "web", stage |-> "write", uid |-> rows[i].uid, id |-> i, text |-> None]
  <2>1. i \in 0..MaxRows /\ rows[i].uid \in Uids /\ i # 0
    BY <1>0, RowTypes
  <2>2. c \in Requests /\ CallFits(c)
    BY <2>1 DEF Requests, Call, Said, CallFits, OfDigest
  <2> QED
    BY <1>2, <2>2, BeginsFit DEF DeleteDigest, store
<1>3. ASSUME NEW s \in Slots, Write(s) PROVE CallsFit' /\ BootIsFirst'
  <2> DEFINE c == calls[s]
  <2>1. c \in Call /\ c.text \in Texts /\ c.uid \in Uids /\ c # Idle
    <3>1. c.stage = "write" /\ c.kind \in {"add", "update"}
      BY <1>3 DEF Write, At
    <3> QED
      BY <1>0, <3>1, Kinds DEF OfDigest, Call, Basics, CallsFit, CallFits, Idle
  <2>2. CASE c.id = 0
    <3>1. Create(c.uid, c.text)
          /\ calls' = [calls EXCEPT ![s] = [[c EXCEPT !.stage = "index"] EXCEPT !.id = Len(rows) + 1]]
      BY <1>3, <2>2 DEF Write
    <3>2. RowsKept /\ Len(rows) + 1 \in DOMAIN rows' /\ rows'[Len(rows) + 1].uid = c.uid
          /\ Len(rows) + 1 \in 0..MaxRows /\ Len(rows) + 1 # 0
      <4>1. Len(rows) \in Nat /\ Len(rows) < MaxRows
        BY <1>0, <3>1 DEF Create, TypeOK
      <4>2. Len(rows) + 1 \in 0..MaxRows /\ Len(rows) + 1 # 0
        BY <4>1, DigestAssumption
      <4>3. DOMAIN rows \subseteq DOMAIN rows' /\ (\A j \in DOMAIN rows : rows'[j] = rows[j])
            /\ Len(rows) + 1 \in DOMAIN rows'
            /\ rows'[Len(rows) + 1] = [uid |-> c.uid, text |-> c.text, live |-> TRUE]
        BY <1>0, <2>1, <3>1, CreateStep
      <4> QED
        BY <4>2, <4>3 DEF RowsKept
    <3> DEFINE d == [[c EXCEPT !.stage = "index"] EXCEPT !.id = Len(rows) + 1]
    <3>3. d \in Requests /\ d.id = Len(rows) + 1 /\ d.uid = c.uid /\ d.text = c.text
      BY <2>1, <3>2 DEF Call, Requests
    <3>4. calls'[s] = d /\ Only(s)
      BY <1>0, <3>1, <3>3, CallStep DEF Only
    <3> HIDE DEF d
    <3>5. CallFits(calls[s])'
      BY <2>1, <3>2, <3>3, <3>4 DEF CallFits
    <3>6. boot' = boot
      BY <1>3 DEF Write
    <3> QED
      BY <2>1, <3>2, <3>4, <3>5, <3>6, KeepsCalls DEF BootIsFirst, Only, Basics
  <2>3. CASE c.id # 0 /\ Live(c.id)
    <3>1. Update(c.id, c.text) /\ GoOn(s, "index") /\ boot' = boot
      BY <1>3, <2>3 DEF Write
    <3>2. RowsKept
      BY <1>0, <2>1, <2>3, <3>1, UpdateKeeps
    <3> QED
      BY <2>1, <2>3, <3>1, <3>2, GoesOnFit
  <2>4. CASE c.id # 0 /\ ~Live(c.id)
    BY <1>3, <1>b, <2>4, EndsFit DEF Write
  <2> QED
    BY <2>2, <2>3, <2>4
<1>4. ASSUME NEW s \in Slots, NEW lost \in BOOLEAN, Answer(s, lost) PROVE CallsFit' /\ BootIsFirst'
  BY <1>4, <1>b, EndsFit DEF Answer, store
<1>5. ASSUME NEW s \in Slots, Hide(s) PROVE CallsFit' /\ BootIsFirst'
  <2> DEFINE c == calls[s]
  <2>1. c \in Call /\ c.id # 0
    BY <1>0, <1>5, Kinds DEF Hide, At, OfDigest, Basics, CallsFit, CallFits
  <2>2. RowsKept
    <3>1. CASE Live(c.id)
      <4>1. SoftDelete(c.id)
        BY <1>5, <3>1 DEF Hide
      <4> QED
        BY <1>0, <3>1, <4>1, SoftDeleteKeeps
    <3>2. CASE ~Live(c.id)
      BY <1>5, <3>2 DEF Hide, RowsKept
    <3> QED
      BY <3>1, <3>2
  <2> QED
    BY <1>5, <2>1, <2>2, EndsFit, GoesOnFit DEF Hide
<1>6. ASSUME NEW s \in Slots, Deindex(s) PROVE CallsFit' /\ BootIsFirst'
  <2>1. calls[s] \in Call /\ calls[s].id # 0
    BY <1>0, <1>6, Kinds DEF Deindex, At, OfDigest, Basics, CallsFit, CallFits
  <2> QED
    BY <1>b, <1>6, <2>1, EndsFit, GoesOnFit DEF Deindex, store
<1>7. ASSUME NEW s \in Slots, NEW fails \in BOOLEAN, Cascade(s, fails) PROVE CallsFit' /\ BootIsFirst'
  <2>1. calls[s] \in GroupCall /\ calls[s] # Idle
    BY <1>0, <1>7, Kinds DEF Cascade, At, Idle
  <2>2. calls'[s] = [calls[s] EXCEPT !.stage = "drop"] /\ Only(s)
    BY <1>0, <1>7, <2>1, GoOnTypes DEF Cascade, Only
  <2>3. CallFits(calls[s])'
    BY <2>1, <2>2 DEF CallFits, OfDigest, GroupCall
  <2>4. RowsKept
    <3>1. CASE rows' = rows
      BY <1>b, <3>1
    <3>2. CASE rows' # rows
      <4> DEFINE hit == {u \in MembersOf(calls[s].parent) : LiveOf(u) # {}}
      <4>1. SoftDeleteByParent(hit)
        BY <1>7, <3>2 DEF Cascade
      <4>2. DOMAIN rows' = DOMAIN rows /\ \A j \in DOMAIN rows : rows'[j].uid = rows[j].uid
        BY <1>0, <4>1, HiddenStep
      <4> QED
        BY <4>2 DEF RowsKept
    <3> QED
      BY <3>1, <3>2
  <2> QED
    BY <1>7, <2>1, <2>2, <2>3, <2>4, KeepsCalls DEF Cascade, BootIsFirst, Only, Basics
<1>8. ASSUME NEW s \in Slots, NEW fails \in BOOLEAN, DropGroup(s) \/ Entomb(s, fails) \/ RequestFails(s)
      PROVE  CallsFit' /\ BootIsFirst'
  BY <1>8, <1>b, EndsFit DEF DropGroup, Entomb, RequestFails, store
<1>9. ASSUME NEW c \in Conns, Socket(c) \/ EmitFails(c) PROVE UNCHANGED <<rows, calls, boot>>
  BY <1>9 DEF Socket, Ping, MarkSent, Emit, Ack, EmitFails, store
<1>10. ASSUME NEW ids \in frames, LoseFrame(ids) PROVE UNCHANGED <<rows, calls, boot>>
  BY <1>10 DEF LoseFrame, store
<1>11. Sweep \/ Worker => UNCHANGED <<rows, calls, boot>>
  BY DEF Sweep, Worker, Take, IndexPage, Unindex, Purge, Evict, store
<1>12. ASSUME NEW p \in Procs, Embedder(p) \/ StepFails(p) PROVE UNCHANGED <<rows, calls, boot>>
  BY <1>12 DEF Embedder, Clear, Forget, Save, Remember, StepFails, store
<1>13. ASSUME NEW u \in Uids, Backfill(u) PROVE UNCHANGED <<rows, calls, boot>>
  BY <1>13 DEF Backfill, store
<1>14. Restart => CallsFit' /\ BootIsFirst'
  BY DEF Restart, CallsFit, CallFits, OfDigest, Idle, BootIsFirst
<1>15. BootIndex => CallsFit' /\ BootIsFirst'
  BY DEF BootIndex, store, Basics, CallsFit, CallFits, OfDigest, BootIsFirst
<1>16. CASE \E s \in Slots : Handler(s)
  BY <1>16, <1>3, <1>4, <1>5, <1>6, <1>7, <1>8 DEF Handler
<1>17. CASE Faults
  BY <1>17, <1>a, <1>4, <1>7, <1>8, <1>9, <1>10, <1>11, <1>12, <1>13, <1>14 DEF Faults
<1> QED
  BY <1>a, <1>1, <1>2, <1>9, <1>11, <1>12, <1>15, <1>16, <1>17 DEF Next

(* The device's copies have texts. *)
LEMMA CopiesStep == ASSUME Basics, Next PROVE CopiesFit'
<1>0. TypeOK
  BY DEF Basics
<1>1. ASSUME NEW u \in Uids, NEW t \in Texts, Draw(u, t) PROVE CopiesFit'
  BY <1>0, <1>1 DEF Draw, Basics, CopiesFit, TypeOK
<1>2. ASSUME NEW s \in Slots, NEW u \in Uids, NEW t \in Texts, UpdateSummary(s, u, t)
      PROVE  CopiesFit'
  <2>1. copies[u] \in Copy /\ copies' = [copies EXCEPT ![u].text = t]
    BY <1>0, <1>2 DEF UpdateSummary, TypeOK
  <2> QED
    BY <1>0, <2>1 DEF Basics, CopiesFit, TypeOK, Copy
<1>3. ASSUME NEW s \in Slots, NEW u \in Uids, DeleteSummary(s, u) PROVE CopiesFit'
  BY <1>0, <1>3 DEF DeleteSummary, Basics, CopiesFit, TypeOK
<1>4. ASSUME NEW u \in Uids, Pull(u) PROVE CopiesFit'
  <2>1. PICK i \in Listed :
          copies' = [copies EXCEPT ![u] =
                      [text |-> IF @ = NoCopy THEN rows[i].text ELSE @.text, id |-> i]]
    BY <1>4 DEF Pull
  <2>2. rows[i].text \in Texts
    BY <1>0, RowTypes DEF Listed
  <2> QED
    BY <1>0, <2>1, <2>2 DEF Basics, CopiesFit, TypeOK
<1>5. ASSUME NEW ids \in frames, Deliver(ids) PROVE CopiesFit'
  BY <1>5 DEF Deliver, Basics, CopiesFit
<1>6. ASSUME NEW s \in Slots, NEW lost \in BOOLEAN, Answer(s, lost) PROVE CopiesFit'
  <2> DEFINE c == calls[s]
  <2>1. \/ copies' = copies
        \/ copies[c.uid] # NoCopy /\ copies' = [copies EXCEPT ![c.uid] = [@ EXCEPT !.id = c.id]]
    BY <1>6 DEF Answer
  <2>2. ASSUME NEW v \in Uids
        PROVE  copies'[v] = copies[v] \/ (copies[v] # NoCopy /\ copies'[v].text = copies[v].text)
    <3>1. copies[c.uid] \in Copy /\ copies \in [Uids -> Copy] /\ c.uid \in Uids
      <4>1. c.uid \in Uids
        BY <1>0, <1>6, Kinds DEF Answer, At, OfDigest, Call
      <4> QED
        BY <1>0, <4>1 DEF TypeOK
    <3> DEFINE d == [copies[c.uid] EXCEPT !.id = c.id]
    <3>2. d.text = copies[c.uid].text
      BY <3>1 DEF Copy
    <3>3. copies' = copies \/ (copies[c.uid] # NoCopy /\ copies' = [copies EXCEPT ![c.uid] = d])
      BY <2>1
    <3> HIDE DEF d
    <3> QED
      BY <3>1, <3>2, <3>3
  <2> QED
    BY <2>2 DEF Basics, CopiesFit
<1>7. UNCHANGED copies => CopiesFit'
  BY DEF Basics, CopiesFit
<1>8. CASE Device
  BY <1>8, <1>1, <1>2, <1>3, <1>4, <1>5, <1>7 DEF Device, AddSummary, AddSummaryGroup, UpdateSummaryGroup, DeleteSummaryGroup
<1>9. CASE \E s \in Slots : Handler(s)
  BY <1>9, <1>6, <1>7 DEF Handler, Write, Hide, Deindex, Cascade, DropGroup, Entomb
<1>10. CASE Faults
  BY <1>10, <1>6, <1>7 DEF Faults, RequestFails, Cascade, Entomb, EmitFails, LoseFrame, StepFails,
     Backfill, Sweep, Restart
<1>11. CASE \/ BootIndex \/ Worker \/ \E c \in Conns : Socket(c)
            \/ \E p \in Procs : Embedder(p)
            \/ \E s \in Slots, i \in DOMAIN rows : DeleteDigest(s, i)
  BY <1>11, <1>7 DEF DeleteDigest, Socket, Ping, MarkSent, Emit, Ack, Worker, Take, IndexPage, Unindex,
     Purge, Evict, Embedder, Clear, Forget, Save, Remember, BootIndex
<1> QED
  BY <1>8, <1>9, <1>10, <1>11 DEF Next

(* The worker and the backfill keep to the stages of their tasks. *)
LEMMA JobsStep == ASSUME Basics, Next PROVE JobsFit'
<1>0. TypeOK /\ JobsFit /\ "worker" \in Procs /\ "backfill" \in Procs
      /\ \A p \in Procs : p = "worker" \/ p = "backfill"
  BY DEF Basics, Procs
<1>1. Take => JobsFit'
  <2>1. SUFFICES ASSUME Take PROVE JobsFit'
    OBVIOUS
  <2> QED
    BY <1>0, <2>1, TakeStep DEF JobsFit, Removing
<1>2. ASSUME NEW p \in Procs, NEW stage \in Embedding \cup Removing, jobs[p] # Idle, GoTo(p, stage),
             stage \in Removing <=> jobs[p].stage \in Removing
      PROVE  JobsFit'
  <2>1. /\ jobs'[p] # Idle /\ jobs'[p].stage = stage /\ jobs'[p].text = jobs[p].text
        /\ \A q \in Procs : q # p => jobs'[q] = jobs[q]
    BY <1>0, <1>2, GoToStep
  <2>2. CASE p = "worker"
    BY <1>0, <1>2, <2>1, <2>2 DEF JobsFit
  <2>3. CASE p = "backfill"
    BY <1>0, <1>2, <2>1, <2>3 DEF JobsFit, Embedding, Removing
  <2> QED
    BY <1>0, <2>2, <2>3
<1>3. ASSUME NEW p \in Procs, Done(p) PROVE JobsFit'
  BY <1>0, <1>3, DoneStep DEF JobsFit
<1>4. Worker => JobsFit'
  <2>1. IndexPage \/ Unindex \/ Purge => jobs["worker"] # Idle
    BY <1>0, Jobs DEF IndexPage, Unindex, Purge, Doing
  <2>2. IndexPage => JobsFit'
    BY <1>0, <1>2, <2>1 DEF IndexPage, Doing, Embedding, Removing
  <2>3. Unindex => JobsFit'
    BY <1>0, <1>2, <2>1 DEF Unindex, Doing, Embedding, Removing
  <2>4. Purge => JobsFit'
    BY <1>0, <1>2, <2>1 DEF Purge, Doing, Embedding, Removing
  <2>5. Evict => JobsFit'
    BY <1>0, <1>3 DEF Evict
  <2> QED
    BY <1>1, <2>2, <2>3, <2>4, <2>5 DEF Worker
<1>5. ASSUME NEW p \in Procs, Embedder(p) PROVE JobsFit'
  <2>1. Clear(p) \/ Forget(p) \/ Save(p) => jobs[p] # Idle
    BY <1>0, Jobs DEF Clear, Forget, Save, Doing
  <2>2. Clear(p) => JobsFit'
    BY <1>2, <2>1 DEF Clear, Doing, Embedding, Removing
  <2>3. Forget(p) => JobsFit'
    BY <1>2, <2>1 DEF Forget, Doing, Embedding, Removing
  <2>4. Save(p) => JobsFit'
    BY <1>2, <2>1 DEF Save, Doing, Embedding, Removing
  <2>5. Remember(p) => JobsFit'
    BY <1>3 DEF Remember
  <2> QED
    BY <1>5, <2>2, <2>3, <2>4, <2>5 DEF Embedder
<1>6. ASSUME NEW p \in Procs, StepFails(p) PROVE JobsFit'
  <2>1. jobs[p] # Idle
    BY <1>0, <1>6, FailStep
  <2>2. jobs[p].stage = "index" /\ GoTo(p, "clear") => JobsFit'
    BY <1>2, <2>1 DEF Embedding, Removing
  <2>3. jobs[p].stage = "unindex" /\ GoTo(p, "purge") => JobsFit'
    BY <1>2, <2>1 DEF Embedding, Removing
  <2>4. jobs[p].stage = "clear" /\ GoTo(p, "save") => JobsFit'
    BY <1>2, <2>1 DEF Embedding, Removing
  <2> QED
    BY <1>0, <1>3, <1>6, <2>2, <2>3, <2>4, FailStep
<1>7. ASSUME NEW u \in Uids, Backfill(u) PROVE JobsFit'
  BY <1>0, <1>7, BackfillStep DEF JobsFit, Embedding
<1>8. Restart => JobsFit'
  BY <1>0 DEF Restart, JobsFit
<1>9. UNCHANGED jobs => JobsFit'
  BY <1>0 DEF JobsFit
<1>10. CASE Device
  BY <1>9, <1>10 DEF Device, Draw, AddSummary, UpdateSummary, DeleteSummary, Pull, AddSummaryGroup, UpdateSummaryGroup,
     DeleteSummaryGroup, Deliver
<1>11. CASE \E s \in Slots : Handler(s)
  BY <1>9, <1>11 DEF Handler, Write, Answer, Hide, Deindex, Cascade, DropGroup, Entomb
<1>12. CASE Faults
  BY <1>6, <1>7, <1>8, <1>9, <1>12 DEF Faults, RequestFails, Answer, Cascade, Entomb, EmitFails, LoseFrame, Sweep
<1>13. CASE \/ BootIndex \/ \E c \in Conns : Socket(c)
            \/ \E s \in Slots, i \in DOMAIN rows : DeleteDigest(s, i)
  BY <1>9, <1>13 DEF DeleteDigest, Socket, Ping, MarkSent, Emit, Ack, BootIndex
<1> QED
  BY <1>4, <1>5, <1>10, <1>11, <1>12, <1>13 DEF Next

(* All this holds at first ... *)
LEMMA BasicsInit == ASSUME Init PROVE Basics
BY InitTypes DEF Init, Basics, CallsFit, CallFits, OfDigest, Idle, CopiesFit, BootIsFirst, JobsFit, Procs

(* ... and after every step. *)
LEMMA BasicsStep == ASSUME Basics, Next PROVE Basics'
BY TypesStep, CallsStep, CopiesStep, JobsStep DEF Basics

-----------------------------------------------------------------------------
(* What the device is owed. *)

(* Deleted rows stay deleted. *)
RowsDie == /\ DOMAIN rows \subseteq DOMAIN rows'
           /\ \A j \in DOMAIN rows : ~rows[j].live => ~rows'[j].live

SameTelling == \A i \in Ids : Telling(i)' <=> Telling(i)

(* The device's copies know no other deleted row. *)
CopiesKept == \A u \in Uids : \/ copies'[u].id = copies[u].id
                              \/ copies'[u].id \notin webDeleted
                              \/ \E cause \in Causes : <<copies'[u].id, cause>> \in forgotten'

(* A step that leaves the tombstones and their ways alone. *)
LEMMA QuietNotices ==
    ASSUME Basics, Notices, socket' = socket, webDeleted' = webDeleted,
           forgotten \subseteq forgotten', RowsDie, SameTelling, CopiesKept
    PROVE  Notices'
<1>1. tombs' = tombs /\ drains' = drains /\ frames' = frames
  BY DEF socket
<1>2. webDeleted \subseteq Ids /\ \A c \in Conns : drains[c] # Idle => drains[c].ids \subseteq Ids
  BY Drains DEF Basics, TypeOK
<1>3. \A i : Carried(i)' <=> Carried(i)
  BY <1>1 DEF Carried
<1>4. \A i : GivenUp(i) => GivenUp(i)'
  BY DEF GivenUp
<1>5. Deletions'
  BY <1>1 DEF Notices, Deletions, RowsDie, SameTelling
<1>6. \A i \in Ids : Owing(i) => Owing(i)'
  BY <1>1, <1>3, <1>4 DEF Owing, SameTelling
<1>7. Noticed'
  <2>1. SUFFICES ASSUME NEW u \in Uids, NEW i \in webDeleted, copies'[u].id = i PROVE Owing(i)'
    BY DEF Noticed
  <2>2. GivenUp(i)' => Owing(i)'
    BY DEF Owing
  <2>3. copies[u].id = i \/ GivenUp(i)'
    BY <2>1 DEF CopiesKept, GivenUp
  <2>4. copies[u].id = i => Owing(i)
    BY DEF Notices, Noticed
  <2> QED
    BY <1>2, <1>6, <2>2, <2>3, <2>4
<1>8. Acking'
  <2>1. SUFFICES ASSUME NEW c \in Conns, drains[c].stage = "ack",
                        NEW u \in Uids, NEW i \in drains[c].ids, copies'[u].id = i
                 PROVE  Carried(i)' \/ GivenUp(i)'
    BY <1>1 DEF Acking
  <2>2. i \in webDeleted
    BY <2>1 DEF Notices, Deletions, Idle
  <2>3. copies[u].id = i \/ GivenUp(i)'
    BY <2>1, <2>2 DEF CopiesKept, GivenUp
  <2>4. copies[u].id = i => Carried(i) \/ GivenUp(i)
    BY <2>1 DEF Notices, Acking
  <2> QED
    BY <1>3, <1>4, <2>3, <2>4
<1> QED
  BY <1>5, <1>7, <1>8 DEF Notices

(* A request that tells of no deletion, before and after. *)
LEMMA QuietSlot ==
    ASSUME NEW s \in Slots, Only(s), \A i \in Ids : Tells(calls[s], i)' <=> Tells(calls[s], i)
    PROVE  SameTelling
<1>1. ASSUME NEW i \in Ids, NEW t \in Slots PROVE Tells(calls[t], i)' <=> Tells(calls[t], i)
  BY DEF Only, Tells
<1> QED
  BY <1>1 DEF SameTelling, Telling

(* The steps that carry no deletion. *)
LEMMA BeginNotices ==
    ASSUME Basics, NEW s \in Slots, NEW c \in Requests, Begin(s, c), c.stage \in {"write", "cascade"}
    PROVE  SameTelling
<1>1. calls'[s] = c /\ calls[s] = Idle /\ Only(s)
  BY BeginTypes DEF Basics, Only
<1>2. \A i \in Ids : ~Tells(calls[s], i)' /\ ~Tells(calls[s], i)
  BY <1>1 DEF Tells, Idle
<1> QED
  BY <1>1, <1>2, QuietSlot

(* A request that ends and had nothing to tell. *)
LEMMA EndNotices ==
    ASSUME Basics, NEW s \in Slots, End(s), \A i \in Ids : ~Tells(calls[s], i)
    PROVE  SameTelling
<1>1. calls'[s] = Idle /\ Only(s)
  BY EndTypes DEF Basics, Only
<1>2. \A i \in Ids : ~Tells(calls[s], i)' /\ ~Tells(calls[s], i)
  BY <1>1 DEF Tells, Idle
<1> QED
  BY <1>1, <1>2, QuietSlot

(* What the device begins tells of no deletion. *)
LEMMA DeviceNotices ==
    ASSUME Basics, Notices, Device, \A ids \in frames : ~Deliver(ids)
    PROVE  Notices'
<1>0. TypeOK
  BY DEF Basics
<1>a. 0 \notin webDeleted
  BY <1>0 DEF TypeOK, Ids
<1>b. rows' = rows => RowsDie
  BY DEF RowsDie
<1>c. calls' = calls => SameTelling
  BY DEF SameTelling, Telling, Tells
<1>d. copies' = copies => CopiesKept
  BY DEF CopiesKept
<1>1. ASSUME NEW u \in Uids, NEW t \in Texts, Draw(u, t) PROVE Notices'
  <2>1. CopiesKept
    BY <1>0, <1>1, <1>a DEF Draw, CopiesKept, TypeOK
  <2> QED
    BY <1>1, <1>b, <1>c, <2>1, QuietNotices DEF Draw, store, account
<1>2. ASSUME NEW s \in Slots, NEW u \in Uids, AddSummary(s, u) PROVE Notices'
  <2> DEFINE c == [kind |-> "add", stage |-> "write", uid |-> u, id |-> Found(u),
                   text |-> copies[u].text]
  <2>1. c \in Requests
    BY <1>0, FoundRow DEF TypeOK, Copy, Requests, Call
  <2>2. SameTelling
    BY <1>2, <2>1, BeginNotices DEF AddSummary
  <2> QED
    BY <1>2, <1>b, <1>d, <2>2, QuietNotices DEF AddSummary, store, account
<1>3. ASSUME NEW s \in Slots, NEW u \in Uids, NEW t \in Texts, UpdateSummary(s, u, t)
      PROVE  Notices'
  <2> DEFINE i == copies[u].id
             c == [kind |-> "update", stage |-> "write", uid |-> rows[i].uid, id |-> i, text |-> t]
  <2>1. SameTelling
    <3>1. CASE Live(i)
      <4>1. i \in 0..MaxRows /\ rows[i].uid \in Uids
        BY <1>0, <3>1, RowTypes DEF Live
      <4>2. c \in Requests
        BY <4>1 DEF Requests, Call, Said
      <4> QED
        BY <1>3, <3>1, <4>2, BeginNotices DEF UpdateSummary
    <3> QED
      BY <1>3, <1>c, <3>1 DEF UpdateSummary
  <2>2. CopiesKept
    <3>1. \A v \in Uids : copies'[v].id = copies[v].id
      BY <1>0, <1>3 DEF UpdateSummary, TypeOK, Copy
    <3> QED
      BY <3>1 DEF CopiesKept
  <2> QED
    BY <1>3, <1>b, <2>1, <2>2, QuietNotices DEF UpdateSummary, store, account
<1>4. ASSUME NEW s \in Slots, NEW u \in Uids, DeleteSummary(s, u) PROVE Notices'
  <2> DEFINE i == copies[u].id
             c == [kind |-> "delete", stage |-> "write", uid |-> rows[i].uid, id |-> i,
                   text |-> None]
  <2>1. SameTelling
    <3>1. CASE Live(i)
      <4>1. i \in 0..MaxRows /\ rows[i].uid \in Uids
        BY <1>0, <3>1, RowTypes DEF Live
      <4>2. c \in Requests
        BY <4>1 DEF Requests, Call, Said
      <4> QED
        BY <1>4, <3>1, <4>2, BeginNotices DEF DeleteSummary
    <3> QED
      BY <1>4, <1>c, <3>1 DEF DeleteSummary
  <2>2. CopiesKept
    BY <1>0, <1>4, <1>a DEF DeleteSummary, CopiesKept, TypeOK, NoCopy
  <2> QED
    BY <1>4, <1>b, <2>1, <2>2, QuietNotices DEF DeleteSummary, store, account
<1>5. ASSUME NEW u \in Uids, Pull(u) PROVE Notices'
  <2>1. PICK i \in Listed :
          copies' = [copies EXCEPT ![u] =
                      [text |-> IF @ = NoCopy THEN rows[i].text ELSE @.text, id |-> i]]
    BY <1>5 DEF Pull
  <2>2. i \notin webDeleted
    BY DEF Listed, Notices, Deletions
  <2>3. CopiesKept
    BY <1>0, <2>1, <2>2 DEF CopiesKept, TypeOK
  <2> QED
    BY <1>5, <1>b, <1>c, <2>3, QuietNotices DEF Pull, store, account
<1>6. ASSUME AddSummaryGroup PROVE Notices'
  BY <1>6, <1>b, <1>c, <1>d, QuietNotices DEF AddSummaryGroup, account
<1>7. ASSUME NEW g \in GroupUids, UpdateSummaryGroup(g) PROVE Notices'
  BY <1>7, <1>b, <1>c, <1>d, QuietNotices DEF UpdateSummaryGroup, account
<1>8. ASSUME NEW s \in Slots, DeleteSummaryGroup(s) PROVE Notices'
  <2> DEFINE c == [kind |-> "group", stage |-> "cascade", parent |-> group]
  <2>1. c \in Requests
    BY <1>0, <1>8 DEF DeleteSummaryGroup, Requests, GroupCall, TypeOK
  <2>2. SameTelling
    BY <1>8, <2>1, BeginNotices DEF DeleteSummaryGroup
  <2> QED
    BY <1>8, <1>b, <1>d, <2>2, QuietNotices DEF DeleteSummaryGroup, store
<1> QED
  BY <1>1, <1>2, <1>3, <1>4, <1>5, <1>6, <1>7, <1>8 DEF Device

(* Nor do the statements of its requests. *)
LEMMA HandlerNotices ==
    ASSUME Basics, Notices, NEW s \in Slots, NEW fails \in BOOLEAN,
           \/ Write(s) \/ Answer(s, fails) \/ Deindex(s) \/ Cascade(s, fails) \/ DropGroup(s)
           \/ RequestFails(s)
    PROVE  Notices'
<1> DEFINE c == calls[s]
<1>0. TypeOK
  BY DEF Basics
<1>b. rows' = rows => RowsDie
  BY DEF RowsDie
<1>d. copies' = copies => CopiesKept
  BY DEF CopiesKept
<1>1. CASE Write(s)
  <2>1. c \in Call /\ c.text \in Texts /\ c.uid \in Uids /\ c.stage = "write" /\ c.kind # "web"
    <3>1. c.stage = "write" /\ c.kind \in {"add", "update"}
      BY <1>1 DEF Write, At
    <3> QED
      BY <1>0, <3>1, Kinds DEF OfDigest, Call, Basics, CallsFit, CallFits
  <2>2. RowsDie /\ SameTelling
    <3>1. CASE c.id = 0
      <4>1. Create(c.uid, c.text)
            /\ calls' = [calls EXCEPT ![s] = [[c EXCEPT !.stage = "index"] EXCEPT !.id = Len(rows) + 1]]
        BY <1>1, <3>1 DEF Write
      <4>2. RowsDie
        BY <1>0, <2>1, <4>1, CreateStep DEF RowsDie
      <4>3. calls'[s].kind = c.kind /\ Only(s)
        BY <1>0, <2>1, <4>1 DEF TypeOK, Only, Call
      <4>4. \A i \in Ids : ~Tells(calls[s], i)' /\ ~Tells(calls[s], i)
        BY <2>1, <4>3 DEF Tells
      <4> QED
        BY <4>2, <4>3, <4>4, QuietSlot
    <3>2. CASE c.id # 0 /\ Live(c.id)
      <4>1. Update(c.id, c.text) /\ GoOn(s, "index")
        BY <1>1, <3>2 DEF Write
      <4>2. RowsDie
        BY <1>0, <2>1, <3>2, <4>1, UpdateStep DEF RowsDie
      <4>3. calls'[s].kind = c.kind /\ Only(s)
        BY <1>0, <2>1, <4>1, GoOnTypes DEF Only, Call
      <4>4. \A i \in Ids : ~Tells(calls[s], i)' /\ ~Tells(calls[s], i)
        BY <2>1, <4>3 DEF Tells
      <4> QED
        BY <4>2, <4>3, <4>4, QuietSlot
    <3>3. CASE c.id # 0 /\ ~Live(c.id)
      <4>1. \A i \in Ids : ~Tells(calls[s], i)
        BY <2>1 DEF Tells
      <4> QED
        BY <1>1, <1>b, <3>3, <4>1, EndNotices DEF Write
    <3> QED
      BY <3>1, <3>2, <3>3
  <2> QED
    BY <1>1, <1>d, <2>2, QuietNotices DEF Write, account
<1>2. CASE Answer(s, fails)
  <2>1. c \in Call /\ c.kind # "web" /\ c.uid \in Uids
    BY <1>0, <1>2, Kinds DEF Answer, At, OfDigest, Call
  <2>2. SameTelling
    <3>1. \A i \in Ids : ~Tells(calls[s], i)
      BY <2>1 DEF Tells
    <3> QED
      BY <1>2, <3>1, EndNotices DEF Answer
  <2>3. CopiesKept
    <3>1. \/ copies' = copies
          \/ /\ copies' = [copies EXCEPT ![c.uid] = [copies[c.uid] EXCEPT !.id = c.id]]
             /\ c.id \in webDeleted => <<c.id, "late">> \in forgotten'
      BY <1>2 DEF Answer
    <3>2. c.id \in webDeleted /\ copies' # copies =>
            \E cause \in Causes : <<c.id, cause>> \in forgotten'
      BY <3>1 DEF Causes
    <3>3. copies[c.uid] \in Copy /\ copies \in [Uids -> Copy]
      BY <1>0, <2>1 DEF TypeOK
    <3> DEFINE d == [copies[c.uid] EXCEPT !.id = c.id]
    <3>4. d.id = c.id
      BY <3>3 DEF Copy
    <3>5. copies' = copies \/ copies' = [copies EXCEPT ![c.uid] = d]
      BY <3>1
    <3> HIDE DEF d
    <3>6. \A u \in Uids : copies'[u].id = copies[u].id \/ (copies' # copies /\ copies'[u].id = c.id)
      BY <3>3, <3>4, <3>5
    <3> QED
      BY <3>2, <3>6 DEF CopiesKept
  <2>4. forgotten \subseteq forgotten'
    BY <1>2 DEF Answer
  <2> QED
    BY <1>2, <1>b, <2>2, <2>3, <2>4, QuietNotices DEF Answer, store
<1>3. CASE Deindex(s)
  <2>1. c \in Call /\ c.stage = "index"
    BY <1>0, <1>3, Kinds DEF Deindex, At, OfDigest
  <2>2. SameTelling
    <3>1. CASE c.kind = "web"
      <4>1. calls'[s] = [c EXCEPT !.stage = "tell"] /\ Only(s)
        BY <1>0, <1>3, <2>1, <3>1, GoOnTypes DEF Deindex, Only
      <4>2. calls'[s].stage = "tell" /\ calls'[s].kind = c.kind /\ calls'[s].id = c.id
        BY <2>1, <4>1 DEF Call
      <4>3. \A i \in Ids : Tells(calls[s], i)' <=> Tells(calls[s], i)
        BY <2>1, <4>2 DEF Tells
      <4> QED
        BY <4>1, <4>3, QuietSlot
    <3>2. CASE c.kind # "web"
      <4>1. \A i \in Ids : ~Tells(calls[s], i)
        BY <3>2 DEF Tells
      <4> QED
        BY <1>3, <3>2, <4>1, EndNotices DEF Deindex
    <3> QED
      BY <3>1, <3>2
  <2> QED
    BY <1>3, <1>b, <1>d, <2>2, QuietNotices DEF Deindex, store
<1>4. CASE Cascade(s, fails)
  <2>1. c \in GroupCall /\ c.stage = "cascade"
    BY <1>0, <1>4, Kinds DEF Cascade, At
  <2>2. calls'[s] = [c EXCEPT !.stage = "drop"] /\ Only(s)
    BY <1>0, <1>4, <2>1, GoOnTypes DEF Cascade, Only
  <2>3. calls'[s].stage = "drop"
    BY <2>1, <2>2 DEF GroupCall
  <2>4. \A i \in Ids : ~Tells(calls[s], i)' /\ ~Tells(calls[s], i)
    BY <2>1, <2>3 DEF Tells
  <2>5. SameTelling
    BY <2>2, <2>4, QuietSlot
  <2>6. RowsDie
    <3>1. CASE rows' # rows
      <4> DEFINE hit == {u \in MembersOf(calls[s].parent) : LiveOf(u) # {}}
      <4>1. SoftDeleteByParent(hit)
        BY <1>4, <3>1 DEF Cascade
      <4> QED
        BY <1>0, <4>1, HiddenStep DEF RowsDie
    <3> QED
      BY <1>b, <3>1
  <2> QED
    BY <1>4, <1>d, <2>5, <2>6, QuietNotices DEF Cascade
<1>5. CASE DropGroup(s) \/ RequestFails(s)
  <2>1. \A i \in Ids : ~Tells(calls[s], i)
    BY <1>5 DEF DropGroup, RequestFails, At, Tells
  <2>2. SameTelling
    BY <1>5, <2>1, EndNotices DEF DropGroup, RequestFails
  <2> QED
    BY <1>5, <1>b, <1>d, <2>2, QuietNotices DEF DropGroup, RequestFails, store, account
<1> QED
  BY <1>1, <1>2, <1>3, <1>4, <1>5

(* The deletion in the web page is to be told from the moment the row is
   hidden. *)
LEMMA HideNotices == ASSUME Basics, Notices, NEW s \in Slots, Hide(s) PROVE Notices'
<1> DEFINE c == calls[s]
<1>0. TypeOK
  BY DEF Basics
<1>1. c \in Call /\ c.stage = "write" /\ c.id # 0
  BY <1>0, Kinds DEF Hide, At, OfDigest, Basics, CallsFit, CallFits
<1>2. copies' = copies /\ boot' = boot /\ tombs' = tombs /\ drains' = drains /\ frames' = frames
      /\ forgotten' = forgotten
  BY DEF Hide, socket
<1>3. CopiesKept
  BY <1>2 DEF CopiesKept
<1>4. RowsDie
  <2>1. CASE Live(c.id)
    <3>1. SoftDelete(c.id)
      BY <2>1 DEF Hide
    <3> QED
      BY <1>0, <2>1, <3>1, SoftDeleteStep DEF RowsDie
  <2>2. CASE ~Live(c.id)
    BY <2>2 DEF Hide, RowsDie
  <2> QED
    BY <2>1, <2>2
<1>5. \A i \in Ids : ~Tells(calls[s], i)
  BY <1>1 DEF Tells
<1>6. CASE ~Live(c.id) /\ c.kind # "delete"
  <2>1. End(s) /\ webDeleted' = webDeleted
    BY <1>6 DEF Hide
  <2> QED
    BY <1>2, <1>3, <1>4, <1>5, <2>1, EndNotices, QuietNotices DEF socket
<1>7. ASSUME Live(c.id) \/ c.kind = "delete"
      PROVE  /\ calls'[s].stage = "index" /\ calls'[s].kind = c.kind /\ calls'[s].id = c.id
             /\ Only(s)
  <2>1. calls'[s] = [c EXCEPT !.stage = "index"] /\ Only(s)
    BY <1>0, <1>1, <1>7, GoOnTypes DEF Hide, Only
  <2> QED
    BY <1>1, <2>1 DEF Call
<1>8. CASE c.kind = "delete"
  <2>1. \A i \in Ids : ~Tells(calls[s], i)'
    BY <1>7, <1>8 DEF Tells
  <2>2. webDeleted' = webDeleted
    BY <1>8 DEF Hide
  <2> QED
    BY <1>2, <1>3, <1>4, <1>5, <1>7, <1>8, <2>1, <2>2, QuietSlot, QuietNotices DEF socket
<1>9. CASE Live(c.id) /\ c.kind # "delete"
  <2>0. PICK d : d = c.id
    OBVIOUS
  <2>1. c.kind = "web"
    BY <1>9 DEF Hide, At
  <2>2. webDeleted' = webDeleted \cup {d} /\ SoftDelete(d) /\ Live(d) /\ d \in DOMAIN rows /\ d \in Ids
    BY <1>0, <1>9, <2>0, <2>1, RowTypes DEF Hide, Live
  <2>3. d \in DOMAIN rows' /\ ~rows'[d].live
    BY <1>0, <2>2, SoftDeleteStep
  <2>4. Telling(d)'
    BY <1>7, <1>9, <2>0, <2>1 DEF Telling, Tells
  <2>5. \A i \in Ids : i # d => (Telling(i)' <=> Telling(i))
    <3>1. \A i \in Ids, t \in Slots : i # d => (Tells(calls[t], i)' <=> Tells(calls[t], i))
      BY <1>5, <1>7, <1>9, <2>0 DEF Tells, Only
    <3> QED
      BY <3>1 DEF Telling
  <2>6. \A i : (Carried(i)' <=> Carried(i)) /\ (GivenUp(i)' <=> GivenUp(i))
    BY <1>2 DEF Carried, GivenUp
  <2>7. Deletions'
    BY <1>2, <1>4, <2>2, <2>3, <2>5 DEF Notices, Deletions, RowsDie
  <2>8. Noticed'
    <3>1. webDeleted \subseteq Ids
      BY <1>0 DEF TypeOK
    <3>2. ASSUME NEW i \in Ids, i = d \/ Owing(i) PROVE Owing(i)'
      BY <1>2, <2>4, <2>5, <2>6, <3>2 DEF Owing
    <3> QED
      BY <1>2, <2>2, <3>1, <3>2 DEF Notices, Noticed
  <2>9. Acking'
    BY <1>2, <2>6 DEF Notices, Acking
  <2> QED
    BY <2>7, <2>8, <2>9 DEF Notices
<1> QED
  BY <1>6, <1>8, <1>9

(* The tombstone takes over, or the failure is recorded. *)
LEMMA EntombNotices ==
    ASSUME Basics, Notices, NEW s \in Slots, NEW fails \in BOOLEAN, Entomb(s, fails)
    PROVE  Notices'
<1>0. TypeOK
  BY DEF Basics
<1>a. PICK j : j = calls[s].id
  OBVIOUS
<1>1. j \in Ids /\ Tells(calls[s], j) /\ \A i : Tells(calls[s], i) => i = j
  <2>1. calls[s].stage = "tell" /\ calls[s].kind = "web"
    BY DEF Entomb, At
  <2>2. j \in 0..MaxRows /\ j # 0
    BY <1>0, <1>a, <2>1, Kinds DEF OfDigest, Call, Basics, CallsFit, CallFits
  <2> QED
    BY <1>a, <2>1, <2>2, DigestAssumption DEF Ids, Tells
<1>2. calls'[s] = Idle /\ Only(s)
  BY <1>0, EndTypes DEF Entomb, Only
<1>3. copies' = copies /\ drains' = drains /\ frames' = frames /\ webDeleted' = webDeleted
      /\ rows' = rows /\ forgotten \subseteq forgotten'
  BY DEF Entomb, store
<1>4. j \in webDeleted
  BY <1>1 DEF Telling, Notices, Deletions
<1>5. \A i \in Ids : (tombs[i] # "no" => tombs'[i] # "no") /\ (tombs'[i] # "no" => tombs[i] # "no" \/ i = j)
  BY <1>0, <1>a DEF Entomb, TypeOK
<1>6. tombs'[j] # "no" \/ GivenUp(j)'
  <2>1. CASE fails
    BY <1>a, <2>1 DEF Entomb, GivenUp, Causes
  <2>2. CASE ~fails
    BY <1>0, <1>1, <1>a, <2>2 DEF Entomb, TypeOK
  <2> QED
    BY <2>1, <2>2
<1>7. \A i \in Ids : (Telling(i) => Telling(i)' \/ i = j) /\ (Telling(i)' => Telling(i))
  <2>1. \A i \in Ids, t \in Slots : /\ Tells(calls[t], i)' => Tells(calls[t], i)
                                    /\ Tells(calls[t], i) => Tells(calls[t], i)' \/ i = j
    BY <1>1, <1>2 DEF Tells, Only, Idle
  <2> QED
    BY <2>1 DEF Telling
<1>8. \A i : (Carried(i)' <=> Carried(i)) /\ (GivenUp(i) => GivenUp(i)')
  BY <1>3 DEF Carried, GivenUp
<1>9. Deletions'
  BY <1>3, <1>4, <1>5, <1>7 DEF Notices, Deletions
<1>10. Noticed'
  <2>1. webDeleted \subseteq Ids
    BY <1>0 DEF TypeOK
  <2>2. ASSUME NEW i \in Ids, Owing(i) PROVE Owing(i)'
    BY <1>5, <1>6, <1>7, <1>8, <2>2 DEF Owing
  <2> QED
    BY <1>3, <2>1, <2>2 DEF Notices, Noticed
<1>11. Acking'
  BY <1>3, <1>8 DEF Notices, Acking
<1> QED
  BY <1>9, <1>10, <1>11 DEF Notices

(* What the steps of tombstones, drains and frames keep. *)
CopiesLeave == \A u \in Uids : copies'[u].id = copies[u].id \/ copies'[u].id = 0
NoNewTombs == \A i \in Ids : tombs'[i] # "no" => tombs[i] # "no"
TombsKept ==
  \A u \in Uids, i \in Ids :
    copies[u].id = i /\ tombs[i] # "no" => tombs'[i] # "no" \/ Carried(i) \/ GivenUp(i)'
CarriedKept ==
  \A u \in Uids, i \in Ids : copies'[u].id = i /\ Carried(i) => Carried(i)' \/ GivenUp(i)'
DrainsFit == \A c \in Conns : drains'[c] # Idle => drains'[c].ids \subseteq webDeleted
AcksKept ==
  \A c \in Conns : drains'[c].stage = "ack" =>
    IF drains[c].stage = "ack" THEN drains'[c] = drains[c]
    ELSE \A i \in drains'[c].ids : Carried(i)'

(* What a step of the socket has to leave in place. *)
LEMMA SocketNotices ==
    ASSUME Basics, Notices, rows' = rows, calls' = calls, webDeleted' = webDeleted,
           forgotten \subseteq forgotten', CopiesLeave, NoNewTombs, TombsKept, CarriedKept,
           DrainsFit, AcksKept
    PROVE  Notices'
<1>0. webDeleted \subseteq Ids /\ 0 \notin Ids
  BY DEF Basics, TypeOK, Ids
<1>1. \A i : (Telling(i)' <=> Telling(i)) /\ (GivenUp(i) => GivenUp(i)')
  BY DEF Telling, Tells, GivenUp
<1>2. Deletions'
  BY <1>1 DEF Notices, Deletions, NoNewTombs, DrainsFit
<1>3. Noticed'
  <2>1. SUFFICES ASSUME NEW u \in Uids, NEW i \in webDeleted, copies'[u].id = i PROVE Owing(i)'
    BY DEF Noticed
  <2>2. copies[u].id = i /\ i \in Ids
    BY <1>0, <2>1 DEF CopiesLeave
  <2>3. tombs[i] # "no" \/ Telling(i) \/ Carried(i) \/ GivenUp(i)
    BY <2>2 DEF Notices, Noticed, Owing
  <2>4. Carried(i) => Carried(i)' \/ GivenUp(i)'
    BY <2>1, <2>2 DEF CarriedKept
  <2> QED
    BY <1>1, <2>2, <2>3, <2>4 DEF Owing, TombsKept
<1>4. Acking'
  <2>1. SUFFICES ASSUME NEW c \in Conns, drains'[c].stage = "ack",
                        NEW u \in Uids, NEW i \in drains'[c].ids, copies'[u].id = i
                 PROVE  Carried(i)' \/ GivenUp(i)'
    BY DEF Acking
  <2>2. i \in Ids
    BY <1>0, <2>1 DEF Idle, DrainsFit
  <2>3. copies[u].id = i
    BY <1>0, <2>1, <2>2 DEF CopiesLeave
  <2>4. CASE drains[c].stage = "ack"
    <3>1. drains'[c] = drains[c]
      BY <2>1, <2>4 DEF AcksKept
    <3>2. Carried(i) \/ GivenUp(i)
      BY <2>1, <2>3, <2>4, <3>1 DEF Notices, Acking
    <3> QED
      BY <1>1, <2>1, <2>2, <3>2 DEF CarriedKept
  <2>5. CASE drains[c].stage # "ack"
    BY <2>1, <2>2, <2>5 DEF AcksKept
  <2> QED
    BY <2>4, <2>5
<1> QED
  BY <1>2, <1>3, <1>4 DEF Notices

(* The frames stay. *)
LEMMA SameCarried == ASSUME frames' = frames PROVE CarriedKept
BY DEF CarriedKept, Carried

(* The tombstones stay. *)
LEMMA SameTombs == ASSUME tombs' = tombs PROVE NoNewTombs /\ TombsKept
BY DEF NoNewTombs, TombsKept

(* A drain, its failure, and what it acknowledges. *)
LEMMA DrainNotices ==
    ASSUME Basics, Notices, NEW c \in Conns, Socket(c) \/ EmitFails(c)
    PROVE  Notices'
<1>0. TypeOK
  BY DEF Basics
<1>a. copies' = copies => CopiesLeave
  BY DEF CopiesLeave
<1>c. /\ \A i \in Ids : tombs[i] # "no" => i \in webDeleted
      /\ \A d \in Conns : drains[d] # Idle => drains[d].ids \subseteq webDeleted
  BY DEF Notices, Deletions
<1>1. CASE Ping(c)
  <2>1. [stage |-> "mark", ids |-> Entombed] \in Drain
    BY DEF Drain, Entombed
  <2>2. drains'[c] = [stage |-> "mark", ids |-> Entombed] /\ \A d \in Conns : d # c => drains'[d] = drains[d]
    BY <1>0, <1>1, <2>1, DrainStep DEF Ping
  <2>3. DrainsFit
    BY <1>c, <2>2 DEF Entombed, DrainsFit
  <2>4. AcksKept
    BY <2>2 DEF AcksKept
  <2> QED
    BY <1>1, <1>a, <2>3, <2>4, SameCarried, SameTombs, SocketNotices DEF Ping, store, account
<1>2. ASSUME NEW stage \in {"emit", "ack"}, GoDrain(c, stage), drains[c] # Idle
      PROVE  /\ drains'[c].stage = stage /\ drains'[c].ids = drains[c].ids
             /\ \A d \in Conns : d # c => drains'[d] = drains[d]
             /\ DrainsFit
  <2>1. drains' = [drains EXCEPT ![c] = [drains[c] EXCEPT !.stage = stage]]
    BY <1>2 DEF GoDrain
  <2>2. drains[c] \in Drain /\ [drains[c] EXCEPT !.stage = stage] \in Drain
    BY <1>0, <1>2, Drains DEF Drain
  <2>3. drains'[c] = [drains[c] EXCEPT !.stage = stage] /\ \A d \in Conns : d # c => drains'[d] = drains[d]
    BY <1>0, <2>1, <2>2, DrainStep
  <2>4. drains'[c].stage = stage /\ drains'[c].ids = drains[c].ids
    BY <2>2, <2>3 DEF Drain
  <2> QED
    BY <1>2, <1>c, <2>3, <2>4 DEF DrainsFit
<1>3. CASE MarkSent(c)
  <2>1. drains[c] # Idle /\ GoDrain(c, "emit")
    BY <1>0, <1>3, Drains DEF MarkSent
  <2>2. NoNewTombs /\ TombsKept
    BY <1>3 DEF MarkSent, NoNewTombs, TombsKept
  <2>3. AcksKept
    BY <1>2, <2>1 DEF AcksKept
  <2>4. DrainsFit
    BY <1>2, <2>1
  <2> QED
    BY <1>3, <1>a, <2>2, <2>3, <2>4, SameCarried, SocketNotices DEF MarkSent, store, account
<1>4. CASE Emit(c)
  <2>1. drains[c] # Idle /\ GoDrain(c, "ack") /\ drains[c].stage = "emit"
        /\ frames' = frames \cup {drains[c].ids} /\ tombs' = tombs
    BY <1>0, <1>4, Drains DEF Emit
  <2>2. drains'[c].stage = "ack" /\ drains'[c].ids = drains[c].ids
        /\ \A d \in Conns : d # c => drains'[d] = drains[d]
    BY <1>2, <2>1
  <2>3. CarriedKept
    BY <2>1 DEF CarriedKept, Carried
  <2>4. \A i \in drains[c].ids : Carried(i)'
    <3>1. drains[c].ids \in frames'
      BY <2>1
    <3> QED
      BY <3>1 DEF Carried
  <2>5. AcksKept
    BY <2>1, <2>2, <2>4 DEF AcksKept
  <2>7. DrainsFit
    BY <1>2, <2>1
  <2> QED
    BY <1>4, <1>a, <2>1, <2>3, <2>5, <2>7, SameTombs, SocketNotices DEF Emit, store, account
<1>5. ASSUME EndDrain(c) PROVE AcksKept /\ DrainsFit
  <2>1. drains'[c] = Idle /\ \A d \in Conns : d # c => drains'[d] = drains[d]
    BY <1>0, <1>5, DrainStep DEF EndDrain
  <2> QED
    BY <1>c, <2>1 DEF Idle, AcksKept, DrainsFit
<1>6. CASE Ack(c)
  <2>1. EndDrain(c) /\ drains[c].stage = "ack" /\ frames' = frames /\ copies' = copies
        /\ forgotten' = forgotten \cup {<<i, "marked">> : i \in {j \in Acked : j \notin drains[c].ids}}
    BY <1>6 DEF Ack
  <2>2. \A i \in Ids : tombs'[i] = IF tombs[i] = "sent" THEN "no" ELSE tombs[i]
    BY <1>6 DEF Ack
  <2>3. ASSUME NEW u \in Uids, NEW i \in Ids, copies[u].id = i, tombs[i] # "no"
        PROVE  tombs'[i] # "no" \/ Carried(i) \/ GivenUp(i)'
    <3>1. CASE tombs[i] # "sent"
      BY <2>2, <2>3, <3>1
    <3>2. CASE tombs[i] = "sent" /\ i \in drains[c].ids
      <4>1. Carried(i) \/ GivenUp(i)
        BY <2>1, <2>3, <3>2 DEF Notices, Acking
      <4> QED
        BY <2>1, <4>1 DEF GivenUp
    <3>3. CASE tombs[i] = "sent" /\ i \notin drains[c].ids
      <4>1. <<i, "marked">> \in forgotten'
        BY <2>1, <3>3 DEF Acked
      <4> QED
        BY <4>1 DEF GivenUp, Causes
    <3> QED
      BY <3>1, <3>2, <3>3
  <2>4. NoNewTombs
    BY <2>2 DEF NoNewTombs
  <2>5. TombsKept
    BY <2>3 DEF TombsKept
  <2>6. rows' = rows /\ calls' = calls /\ webDeleted' = webDeleted
    BY <1>6 DEF Ack, store
  <2>7. forgotten \subseteq forgotten'
    BY <2>1
  <2> QED
    BY <1>5, <1>a, <2>1, <2>4, <2>5, <2>6, <2>7, SameCarried, SocketNotices
<1>7. CASE EmitFails(c)
  BY <1>5, <1>7, <1>a, SameCarried, SameTombs, SocketNotices DEF EmitFails, store, account
<1> QED
  BY <1>1, <1>3, <1>4, <1>6, <1>7 DEF Socket

(* The drains stay. *)
LEMMA SameDrains == ASSUME Notices, drains' = drains PROVE DrainsFit /\ AcksKept
BY DEF Notices, Deletions, DrainsFit, AcksKept

(* A frame arrives, or is lost and recorded as lost. *)
LEMMA FrameNotices ==
    ASSUME Basics, Notices, NEW ids \in frames, Deliver(ids) \/ LoseFrame(ids)
    PROVE  Notices'
<1>0. frames \subseteq SUBSET Ids /\ 0 \notin Ids
  BY DEF Basics, TypeOK, Ids
<1>1. CASE Deliver(ids)
  <2>1. \A u \in Uids : copies'[u] = IF copies[u].id \in ids THEN NoCopy ELSE copies[u]
    BY <1>1 DEF Deliver
  <2>2. CopiesLeave
    BY <2>1 DEF NoCopy, CopiesLeave
  <2>3. ASSUME NEW u \in Uids, NEW i \in Ids, copies'[u].id = i, Carried(i) PROVE Carried(i)'
    <3>1. copies[u].id = i /\ i \notin ids
      BY <1>0, <2>1, <2>3 DEF NoCopy
    <3>2. PICK f \in frames : i \in f
      BY <2>3 DEF Carried
    <3>3. f \in frames'
      BY <1>1, <3>1, <3>2 DEF Deliver
    <3> QED
      BY <3>2, <3>3 DEF Carried
  <2>4. CarriedKept
    BY <2>3 DEF CarriedKept
  <2> QED
    BY <1>1, <2>2, <2>4, SameTombs, SameDrains, SocketNotices DEF Deliver, store, account
<1>2. CASE LoseFrame(ids)
  <2>1. frames' = frames \ {ids} /\ forgotten' = forgotten \cup {<<i, "lost">> : i \in ids}
    BY <1>2 DEF LoseFrame
  <2>2. ASSUME NEW i \in Ids, Carried(i) PROVE Carried(i)' \/ GivenUp(i)'
    <3>1. PICK f \in frames : i \in f
      BY <2>2 DEF Carried
    <3>2. CASE f = ids
      <4>1. <<i, "lost">> \in forgotten'
        BY <2>1, <3>1, <3>2
      <4> QED
        BY <4>1 DEF GivenUp, Causes
    <3>3. CASE f # ids
      BY <2>1, <3>1, <3>3 DEF Carried
    <3> QED
      BY <3>2, <3>3
  <2>3. CarriedKept
    BY <2>2 DEF CarriedKept
  <2>4. CopiesLeave
    BY <1>2 DEF LoseFrame, CopiesLeave
  <2>5. forgotten \subseteq forgotten'
    BY <2>1
  <2> QED
    BY <1>2, <2>3, <2>4, <2>5, SameTombs, SameDrains, SocketNotices DEF LoseFrame, store
<1> QED
  BY <1>1, <1>2

(* What the sweep removes is recorded as swept. *)
LEMMA SweepNotices == ASSUME Basics, Notices, Sweep PROVE Notices'
<1>1. /\ forgotten' = forgotten \cup {<<i, "swept">> : i \in Entombed}
      /\ \A i \in Ids : tombs'[i] = "no"
      /\ frames' = frames /\ drains' = drains /\ copies' = copies
  BY DEF Sweep
<1>2. ASSUME NEW i \in Ids, tombs[i] # "no" PROVE GivenUp(i)'
  <2>1. <<i, "swept">> \in forgotten'
    BY <1>1, <1>2 DEF Entombed
  <2> QED
    BY <2>1 DEF GivenUp, Causes
<1>3. NoNewTombs /\ TombsKept
  BY <1>1, <1>2 DEF NoNewTombs, TombsKept
<1>4. CopiesLeave
  BY <1>1 DEF CopiesLeave
<1>5. forgotten \subseteq forgotten'
  BY <1>1
<1> QED
  BY <1>1, <1>3, <1>4, <1>5, SameCarried, SameDrains, SocketNotices DEF Sweep, store

(* A restart ends the requests; what they had to tell is recorded. *)
LEMMA RestartNotices == ASSUME Basics, Notices, Restart PROVE Notices'
<1>0. webDeleted \subseteq Ids
  BY DEF Basics, TypeOK
<1>1. /\ rows' = rows /\ tombs' = tombs /\ frames' = frames /\ copies' = copies
      /\ webDeleted' = webDeleted /\ forgotten \subseteq forgotten'
      /\ \A s \in Slots : calls'[s] = Idle
      /\ \A c \in Conns : drains'[c] = Idle
  BY DEF Restart, store
<1>2. \A i : ~Telling(i)'
  BY <1>1 DEF Telling, Tells, Idle
<1>3. ASSUME NEW i, Telling(i) PROVE GivenUp(i)'
  <2>1. PICK s \in Slots : Tells(calls[s], i)
    BY <1>3 DEF Telling
  <2>2. <<i, "unqueued">> \in forgotten'
    BY <2>1 DEF Restart, Tells
  <2> QED
    BY <2>2 DEF GivenUp, Causes
<1>4. \A i : (Carried(i) => Carried(i)') /\ (GivenUp(i) => GivenUp(i)')
  BY <1>1 DEF Carried, GivenUp
<1>5. Deletions'
  BY <1>1, <1>2 DEF Notices, Deletions
<1>6. Noticed'
  BY <1>1, <1>3, <1>4 DEF Notices, Noticed, Owing
<1>7. Acking'
  BY <1>1 DEF Acking, Idle
<1> QED
  BY <1>5, <1>6, <1>7 DEF Notices

(* Every step keeps the account of the deletions. *)
LEMMA NoticesStep == ASSUME Basics, Notices, Next PROVE Notices'
<1>0. TypeOK
  BY DEF Basics
<1>a. /\ rows' = rows => RowsDie
      /\ calls' = calls => SameTelling
      /\ copies' = copies => CopiesKept
  BY DEF RowsDie, SameTelling, Telling, Tells, CopiesKept
<1>b. ASSUME rows' = rows, calls' = calls, copies' = copies, socket' = socket,
             webDeleted' = webDeleted, forgotten' = forgotten
      PROVE  Notices'
  BY <1>a, <1>b, QuietNotices
<1>1. CASE Device
  BY <1>1, DeviceNotices, FrameNotices
<1>2. ASSUME NEW s \in Slots, NEW i \in DOMAIN rows, DeleteDigest(s, i) PROVE Notices'
  <2> DEFINE c == [kind |-> "web", stage |-> "write", uid |-> rows[i].uid, id |-> i, text |-> None]
  <2>1. c \in Requests
    <3>1. rows[i].uid \in Uids /\ i \in 0..MaxRows
      BY <1>0, RowTypes
    <3> QED
      BY <3>1 DEF Requests, Call, Said
  <2>2. SameTelling
    BY <1>2, <2>1, BeginNotices DEF DeleteDigest
  <2> QED
    BY <1>2, <1>a, <2>2, QuietNotices DEF DeleteDigest, store, account
<1>3. ASSUME NEW s \in Slots, Handler(s) PROVE Notices'
  BY <1>3, HandlerNotices, HideNotices, EntombNotices DEF Handler
<1>4. CASE Faults
  <2>1. ASSUME NEW s \in Slots,
               RequestFails(s) \/ Answer(s, TRUE) \/ Cascade(s, TRUE) \/ Entomb(s, TRUE)
        PROVE  Notices'
    BY <2>1, HandlerNotices, EntombNotices
  <2>2. ASSUME NEW p \in Procs, StepFails(p) PROVE Notices'
    BY <1>b, <2>2 DEF StepFails, store
  <2>3. ASSUME NEW u \in Uids, Backfill(u) PROVE Notices'
    BY <1>b, <2>3 DEF Backfill, store, account
  <2> QED
    BY <1>4, <2>1, <2>2, <2>3, DrainNotices, FrameNotices, SweepNotices, RestartNotices DEF Faults
<1>5. CASE Worker
  BY <1>5, <1>b DEF Worker, Take, IndexPage, Unindex, Purge, Evict, store, account
<1>6. ASSUME NEW p \in Procs, Embedder(p) PROVE Notices'
  BY <1>6, <1>b DEF Embedder, Clear, Forget, Save, Remember, store, account
<1>7. CASE BootIndex
  BY <1>7, <1>b DEF BootIndex, store
<1> QED
  BY <1>1, <1>2, <1>3, <1>4, <1>5, <1>6, <1>7, DrainNotices DEF Next

(* At first nothing has been deleted. *)
LEMMA NoticesInit == ASSUME Init PROVE Notices
<1>1. \A i : ~Telling(i)
  BY DEF Init, Telling, Tells, Idle
<1> QED
  BY <1>1 DEF Init, Notices, Deletions, Noticed, Acking, Idle

(* The account of the deletions is what the property asks for. *)
LEMMA NoticesTell == ASSUME Basics, Notices PROVE DeletesAreOwed
<1>1. SUFFICES ASSUME NEW u \in Uids, copies[u].id \in webDeleted PROVE Owed(copies[u].id)
  BY DEF DeletesAreOwed
<1>2. Owing(copies[u].id)
  BY <1>1 DEF Notices, Noticed
<1> QED
  BY <1>2 DEF Owing, Owed, Telling, Tells

-----------------------------------------------------------------------------
(* What is said about a uid, in a sequence of tasks. *)
LEMMA AskPush ==
    ASSUME NEW q \in Seq(Task), NEW e \in Task, NEW u
    PROVE  /\ e.uid # u => /\ Asks(u, Append(q, e)) <=> Asks(u, q)
                           /\ \A x : Ends(u, Append(q, e), x) <=> Ends(u, q, x)
           /\ e.uid = u => /\ Asks(u, Append(q, e))
                           /\ Ends(u, Append(q, e), Shown(e.text))
<1> DEFINE r == Append(q, e)
           n == Len(q)
<1>1. /\ n \in Nat /\ DOMAIN q = 1..n /\ DOMAIN r = 1..(n + 1)
      /\ \A k \in 1..n : r[k] = q[k]
      /\ r[n + 1] = e
  BY Pushed
<1> HIDE DEF r, n
<1>2. \A k \in 1..(n + 1) : k \in 1..n \/ k = n + 1
  BY <1>1
<1>3. 1..n \subseteq 1..(n + 1) /\ n + 1 \in 1..(n + 1) /\ \A k \in 1..(n + 1) : k <= n + 1
  BY <1>1
<1>4. CASE e.uid # u
  <2>1. Asks(u, r) <=> Asks(u, q)
    BY <1>1, <1>2, <1>3, <1>4 DEF Asks
  <2>2. \A k \in 1..n : LastOf(u, r, k) <=> LastOf(u, q, k)
    BY <1>1, <1>2, <1>3, <1>4 DEF LastOf
  <2>3. ~LastOf(u, r, n + 1)
    BY <1>1, <1>4 DEF LastOf
  <2>4. ASSUME NEW x PROVE Ends(u, r, x) <=> Ends(u, q, x)
    BY <1>1, <1>2, <1>3, <2>2, <2>3 DEF Ends
  <2> QED
    BY <1>4, <2>1, <2>4 DEF r
<1>5. CASE e.uid = u
  <2>1. Asks(u, r)
    BY <1>1, <1>3, <1>5 DEF Asks
  <2>2. ASSUME NEW k \in 1..(n + 1), LastOf(u, r, k) PROVE k = n + 1
    <3>1. n + 1 <= k
      BY <1>1, <1>3, <1>5, <2>2 DEF LastOf
    <3> QED
      BY <1>1, <3>1
  <2>3. Ends(u, r, Shown(e.text))
    BY <1>1, <2>2 DEF Ends
  <2> QED
    BY <1>5, <2>1, <2>3 DEF r
<1> QED
  BY <1>4, <1>5

(* Without its first task a sequence says the same, or the first said it. *)
LEMMA AskPop ==
    ASSUME NEW q \in Seq(Task), q # <<>>, NEW u
    PROVE  /\ Head(q).uid # u => (Asks(u, Tail(q)) <=> Asks(u, q))
           /\ Head(q).uid = u => Asks(u, q)
           /\ \A x : Ends(u, q, x) => Ends(u, Tail(q), x)
           /\ \A x : Ends(u, q, x) /\ Head(q).uid = u /\ ~Asks(u, Tail(q)) => Shown(Head(q).text) = x
<1> DEFINE r == Tail(q)
           n == Len(q)
           t == Head(q)
<1>1. /\ n \in Nat /\ n > 0 /\ DOMAIN q = 1..n /\ DOMAIN r = 1..(n - 1) /\ t = q[1]
      /\ \A k \in 1..(n - 1) : r[k] = q[k + 1]
  BY Popped
<1> HIDE DEF r, n, t
<1>2. \A k \in 1..n : k = 1 \/ (k - 1 \in 1..(n - 1) /\ (k - 1) + 1 = k)
  BY <1>1
<1>3. 1 \in 1..n /\ \A k \in 1..(n - 1) : k + 1 \in 1..n
  BY <1>1
<1>4. \A k \in 1..n : k = 1 \/ \E l \in 1..(n - 1) : k = l + 1 /\ q[k] = r[l]
  BY <1>1, <1>2
<1>5. t.uid # u => (Asks(u, r) <=> Asks(u, q))
  <2>1. ASSUME NEW k \in 1..(n - 1), r[k].uid = u PROVE \E l \in 1..n : q[l].uid = u
    <3>1. k + 1 \in 1..n /\ q[k + 1] = r[k]
      BY <1>1, <1>3
    <3> QED
      BY <2>1, <3>1
  <2>2. ASSUME NEW l \in 1..n, q[l].uid = u, t.uid # u PROVE \E k \in 1..(n - 1) : r[k].uid = u
    <3>1. l # 1
      BY <1>1, <2>2
    <3>2. PICK k \in 1..(n - 1) : q[l] = r[k]
      BY <1>4, <3>1
    <3> QED
      BY <2>2, <3>2
  <2> QED
    BY <1>1, <2>1, <2>2 DEF Asks
<1>6. t.uid = u => Asks(u, q)
  BY <1>1, <1>3 DEF Asks
<1>7. ASSUME NEW k \in 1..(n - 1), LastOf(u, r, k) PROVE LastOf(u, q, k + 1)
  <2>1. q[k + 1].uid = u
    BY <1>1, <1>7 DEF LastOf
  <2>2. ASSUME NEW l \in 1..n, q[l].uid = u PROVE l <= k + 1
    <3>1. CASE l = 1
      BY <3>1
    <3>2. CASE l # 1
      <4>1. PICK m \in 1..(n - 1) : l = m + 1 /\ q[l] = r[m]
        BY <1>4, <3>2
      <4>2. m <= k
        BY <1>1, <1>7, <2>2, <4>1 DEF LastOf
      <4> QED
        BY <1>1, <4>1, <4>2
    <3> QED
      BY <3>1, <3>2
  <2> QED
    BY <1>1, <2>1, <2>2 DEF LastOf
<1>8. ASSUME NEW x, Ends(u, q, x) PROVE Ends(u, r, x)
  BY <1>1, <1>3, <1>7, <1>8 DEF Ends
<1>9. ASSUME NEW x, Ends(u, q, x), t.uid = u, ~Asks(u, r) PROVE Shown(t.text) = x
  <2>1. \A l \in 1..n : q[l].uid = u => l = 1
    BY <1>1, <1>4, <1>9 DEF Asks
  <2>2. LastOf(u, q, 1)
    BY <1>1, <1>9, <2>1 DEF LastOf
  <2> QED
    BY <1>1, <1>3, <1>9, <2>2 DEF Ends
<1> QED
  BY <1>5, <1>6, <1>8, <1>9 DEF r, t

(* A uid of which nothing is said. *)
LEMMA NotAsked == ASSUME NEW q, NEW u, ~Asks(u, q) PROVE \A x : Ends(u, q, x)
BY DEF Asks, Ends, LastOf

(* No task says anything. *)
LEMMA NoTasks == \A u, x : ~Asks(u, <<>>) /\ Ends(u, <<>>, x)
BY DEF Asks, Ends, LastOf

-----------------------------------------------------------------------------
(* The rows of a uid. *)
SameRows(u) == LiveOf(u)' = LiveOf(u) /\ Desired(rows', u) = Desired(rows, u)

(* Rows of other uids do not change what a uid asks for. *)
LEMMA RowsOf ==
    ASSUME NEW u,
           \A j \in DOMAIN rows : rows[j].uid = u => j \in DOMAIN rows' /\ rows'[j] = rows[j],
           \A j \in DOMAIN rows' : rows'[j].uid = u => j \in DOMAIN rows /\ rows'[j] = rows[j]
    PROVE  SameRows(u)
<1> DEFINE L(table) == {j \in DOMAIN table : table[j].uid = u /\ table[j].live}
<1>1. L(rows') = L(rows) /\ \A j \in L(rows) : rows'[j] = rows[j]
  OBVIOUS
<1>2. LiveOf(u)' = LiveOf(u)
  BY <1>1 DEF LiveOf
<1>3. Wanted(rows', u) = {Shown(rows'[j].text) : j \in L(rows')}
      /\ Wanted(rows, u) = {Shown(rows[j].text) : j \in L(rows)}
  BY DEF Wanted
<1>4. Wanted(rows', u) = Wanted(rows, u)
  BY <1>1, <1>3
<1> QED
  BY <1>2, <1>4 DEF SameRows, Desired

(* A uid without a live row asks for nothing. *)
LEMMA NoneDesired ==
    ASSUME NEW table, NEW u, \A j \in DOMAIN table : ~(table[j].uid = u /\ table[j].live)
    PROVE  Desired(table, u) = None
<1>1. Wanted(table, u) = {}
  BY DEF Wanted
<1> QED
  BY <1>1 DEF Desired

(* A uid with one row asks for its text. *)
LEMMA OneDesired ==
    ASSUME TypeOK, NEW u \in Uids, ~Doubled(u), NEW i \in LiveOf(u)
    PROVE  LiveOf(u) = {i} /\ Desired(rows, u) = Shown(rows[i].text)
<1>1. LiveOf(u) = {i}
  <2>1. SUFFICES ASSUME NEW j \in LiveOf(u), j # i PROVE FALSE
    OBVIOUS
  <2>2. IsFiniteSet(LiveOf(u))
    <3>1. LiveOf(u) \subseteq 1..MaxRows
      BY RowTypes DEF LiveOf, Ids
    <3>2. IsFiniteSet(1..MaxRows)
      BY DigestAssumption, FS_Interval
    <3> QED
      BY <3>1, <3>2, FS_Subset
  <2>3. IsFiniteSet({i}) /\ Cardinality({i}) = 1
    BY FS_Singleton
  <2>4. Cardinality({i} \cup {j}) = 2
    <3>1. j \notin {i}
      BY <2>1
    <3>2. Cardinality({i} \cup {j}) = Cardinality({i}) + 1
      BY <2>3, <3>1, FS_AddElement
    <3> QED
      BY <2>3, <3>2
  <2>5. {i} \cup {j} \subseteq LiveOf(u)
    OBVIOUS
  <2>6. Cardinality({i} \cup {j}) <= Cardinality(LiveOf(u)) /\ Cardinality(LiveOf(u)) \in Nat
    BY <2>2, <2>5, FS_Subset, FS_CardinalityType
  <2> QED
    BY <2>4, <2>6 DEF Doubled
<1>2. Wanted(rows, u) = {Shown(rows[i].text)}
  BY <1>1 DEF Wanted, LiveOf
<1> QED
  BY <1>1, <1>2 DEF Desired

(* What keeps that a uid is told. *)
LEMMA ToldKeeps ==
    ASSUME NEW u, ToldAt(u), SameRows(u), stale \subseteq stale',
           Asking(u) => Asking(u)', Condemned(u) => Condemned(u)',
           \A x : Says(u, x) => u \in stale' \/ Says(u, x)'
    PROVE  ToldAt(u)'
BY DEF ToldAt, SameRows, Doubled

-----------------------------------------------------------------------------
(* A step of the worker or the backfill concerns one uid. *)
LEMMA OthersKeep ==
    ASSUME NEW p \in Procs, NEW u,
           jobs[p] = Idle \/ jobs[p].uid # u, jobs'[p] = Idle \/ jobs'[p].uid # u,
           \A q \in Procs : q # p => jobs'[q] = jobs[q],
           index'[u] = index[u], vectors'[u] = vectors[u], cache'[u] = cache[u],
           stale \subseteq stale', skewed \subseteq skewed'
    PROVE  /\ Heard(u)' = Heard(u)
           /\ IndexedAt(u) => IndexedAt(u)'
           /\ ApartAt(u) => ApartAt(u)'
           /\ Fits(u) => Fits(u)'
<1>1. \A q \in Procs : /\ Busy(q, u)' <=> Busy(q, u)
                       /\ Busy(q, u) => jobs'[q] = jobs[q]
  BY DEF Busy
<1>2. "worker" \in Procs /\ "backfill" \in Procs
  BY DEF Procs
<1>3. Heard(u)' = Heard(u)
  BY <1>1, <1>2 DEF Heard
<1>4. IndexedAt(u) => IndexedAt(u)'
  BY <1>1, <1>2 DEF IndexedAt
<1>5. ApartAt(u) => ApartAt(u)'
  BY <1>1, <1>2 DEF ApartAt, InWindow
<1>6. Fits(u) => Fits(u)'
  BY <1>1, <1>2 DEF Fits
<1> QED
  BY <1>3, <1>4, <1>5, <1>6

(* What such a step has to do for its uid. *)
LEMMA WorkStep ==
    ASSUME Basics, Accounts, NEW p \in Procs, NEW w \in Uids,
           rows' = rows, calls' = calls, queue' = queue, boot' = boot,
           stale \subseteq stale', skewed \subseteq skewed',
           jobs[p] = Idle \/ jobs[p].uid = w, jobs'[p] = Idle \/ jobs'[p].uid = w,
           \A q \in Procs : q # p => jobs'[q] = jobs[q],
           \A u \in Uids : u # w =>
             index'[u] = index[u] /\ vectors'[u] = vectors[u] /\ cache'[u] = cache[u],
           w \notin stale' => Heard(w)' = Heard(w) /\ IndexedAt(w)',
           ApartAt(w)',
           w \notin stale' \cup skewed' /\ ~Asks(w, queue) /\ Fits(w) => Fits(w)'
    PROVE  Accounts'
<1>1. ASSUME NEW u \in Uids
      PROVE  /\ u \notin stale' => Heard(u)' = Heard(u)
             /\ IndexedAt(u)' /\ ApartAt(u)'
             /\ u \notin stale' \cup skewed' /\ ~Asks(u, queue) /\ Fits(u) => Fits(u)'
  <2>1. CASE u = w
    BY <2>1 DEF IndexedAt
  <2>2. CASE u # w
    <3>1. jobs[p] = Idle \/ jobs[p].uid # u
      BY <2>2
    <3>2. jobs'[p] = Idle \/ jobs'[p].uid # u
      BY <2>2
    <3>3. index'[u] = index[u] /\ vectors'[u] = vectors[u] /\ cache'[u] = cache[u]
      BY <2>2
    <3>4. IndexedAt(u) /\ ApartAt(u)
      BY DEF Accounts, Indexed, Apart
    <3> QED
      BY <3>1, <3>2, <3>3, <3>4, OthersKeep
  <2> QED
    BY <2>1, <2>2
<1>2. ASSUME NEW u \in Uids PROVE ToldAt(u)'
  <2>1. ToldAt(u) /\ SameRows(u)
    BY RowsOf DEF Accounts, Told
  <2>2. (Asking(u) => Asking(u)') /\ (Condemned(u) => Condemned(u)')
    BY DEF Asking, Condemned, LiveOf
  <2>3. ASSUME NEW x, Says(u, x) PROVE u \in stale' \/ Says(u, x)'
    BY <1>1, <2>3 DEF Says
  <2> QED
    BY <2>1, <2>2, <2>3, ToldKeeps
<1>3. ASSUME NEW u \in Uids PROVE DerivedAt(u)'
  <2>1. DerivedAt(u)
    BY DEF Accounts, Derived
  <2> QED
    BY <1>1, <2>1 DEF DerivedAt
<1> QED
  BY <1>1, <1>2, <1>3 DEF Accounts, Told, Indexed, Apart, Derived

(* A text that can be searched is shown as it is. *)
LEMMA ShownText == \A t : Shown(t) # None => Shown(t) = t
BY DEF Shown

(* What is known of the worker's task. *)
LEMMA WorkerKnows ==
    ASSUME Basics, Accounts, jobs["worker"] # Idle, NEW w, w = jobs["worker"].uid
    PROVE  /\ w \in Uids /\ Busy("worker", w) /\ jobs["worker"] \in Job
           /\ jobs["worker"].stage \in Removing => Shown(jobs["worker"].text) = None
           /\ jobs["worker"].stage \notin Removing => Shown(jobs["worker"].text) = jobs["worker"].text
           /\ IndexedAt(w) /\ ApartAt(w)
<1>1. "worker" \in Procs
  BY DEF Procs
<1>2. w \in Uids /\ jobs["worker"] \in Job
  BY <1>1, Jobs DEF Basics
<1>3. Busy("worker", w)
  BY DEF Busy
<1>4. IndexedAt(w) /\ ApartAt(w)
  BY <1>2 DEF Accounts, Indexed, Apart
<1> QED
  BY <1>2, <1>3, <1>4, ShownText DEF Basics, JobsFit

(* Whoever writes while the other is between its two writes records it. *)
LEMMA TouchStep ==
    ASSUME NEW p \in Procs, NEW w, Touch(p, w)
    PROVE  skewed \subseteq skewed' /\ (w \in skewed' \/ ~InWindow(Other(p), w))
BY DEF Touch

(* The worker writes the text to the index. *)
LEMMA IndexPageAccounts == ASSUME Basics, Accounts, IndexPage PROVE Accounts'
<1>0. TypeOK /\ "worker" \in Procs
  BY DEF Basics, Procs
<1>1. PICK w : w = jobs["worker"].uid
  OBVIOUS
<1>2. jobs["worker"] # Idle /\ jobs["worker"].stage = "index"
  BY <1>0, Jobs DEF IndexPage, Doing
<1>3. /\ jobs'["worker"] # Idle /\ jobs'["worker"].stage = "clear"
      /\ jobs'["worker"].uid = w /\ jobs'["worker"].text = jobs["worker"].text
      /\ \A q \in Procs : q # "worker" => jobs'[q] = jobs[q]
  BY <1>0, <1>1, <1>2, GoToStep DEF IndexPage, Embedding
<1>4. w \in Uids /\ Busy("worker", w) /\ Shown(jobs["worker"].text) = jobs["worker"].text /\ ApartAt(w)
  BY <1>1, <1>2, WorkerKnows DEF Removing
<1>5. index'[w] = jobs["worker"].text /\ \A u \in Uids : u # w => index'[u] = index[u]
  BY <1>0, <1>1, <1>4 DEF IndexPage, TypeOK
<1>6. rows' = rows /\ calls' = calls /\ queue' = queue /\ boot' = boot /\ vectors' = vectors
      /\ cache' = cache /\ stale' = stale /\ skewed' = skewed
  BY DEF IndexPage, store, account
<1>7. Busy("worker", w)'
  BY <1>3 DEF Busy
<1>8. Heard(w)' = Heard(w)
  BY <1>3, <1>4, <1>7 DEF Heard
<1>9. IndexedAt(w)'
  BY <1>3, <1>4, <1>5 DEF IndexedAt
<1>10. ApartAt(w)'
  BY <1>3, <1>4, <1>6 DEF ApartAt, InWindow
<1>11. Fits(w)'
  BY <1>3, <1>7 DEF Fits
<1>12. jobs["worker"].uid = w
  BY <1>1
<1> QED
  BY <1>0, <1>3, <1>4, <1>5, <1>6, <1>8, <1>9, <1>10, <1>11, <1>12, WorkStep

(* It removes the entry instead. *)
LEMMA UnindexAccounts == ASSUME Basics, Accounts, Unindex PROVE Accounts'
<1>0. TypeOK /\ "worker" \in Procs
  BY DEF Basics, Procs
<1>1. PICK w : w = jobs["worker"].uid
  OBVIOUS
<1>2. jobs["worker"] # Idle /\ jobs["worker"].stage = "unindex"
  BY <1>0, Jobs DEF Unindex, Doing
<1>3. /\ jobs'["worker"] # Idle /\ jobs'["worker"].stage = "purge"
      /\ jobs'["worker"].uid = w /\ jobs'["worker"].text = jobs["worker"].text
      /\ \A q \in Procs : q # "worker" => jobs'[q] = jobs[q]
  BY <1>0, <1>1, <1>2, GoToStep DEF Unindex, Removing
<1>4. w \in Uids /\ Busy("worker", w) /\ Shown(jobs["worker"].text) = None /\ ApartAt(w)
  BY <1>1, <1>2, WorkerKnows DEF Removing
<1>5. index'[w] = None /\ \A u \in Uids : u # w => index'[u] = index[u]
  BY <1>0, <1>1, <1>4 DEF Unindex, TypeOK
<1>6. rows' = rows /\ calls' = calls /\ queue' = queue /\ boot' = boot /\ vectors' = vectors
      /\ cache' = cache /\ stale' = stale /\ skewed' = skewed
  BY DEF Unindex, store, account
<1>7. Busy("worker", w)'
  BY <1>3 DEF Busy
<1>8. Heard(w)' = Heard(w)
  BY <1>3, <1>4, <1>7 DEF Heard
<1>9. IndexedAt(w)'
  BY <1>3, <1>4, <1>5 DEF IndexedAt
<1>10. ApartAt(w)'
  BY <1>3, <1>4, <1>6 DEF ApartAt, InWindow
<1>11. Fits(w)'
  BY <1>3, <1>7 DEF Fits
<1>12. jobs["worker"].uid = w
  BY <1>1
<1> QED
  BY <1>0, <1>3, <1>4, <1>5, <1>6, <1>8, <1>9, <1>10, <1>11, <1>12, WorkStep

(* Then the vectors in the table. *)
LEMMA PurgeAccounts == ASSUME Basics, Accounts, Purge PROVE Accounts'
<1>0. TypeOK /\ "worker" \in Procs
  BY DEF Basics, Procs
<1>1. PICK w : w = jobs["worker"].uid
  OBVIOUS
<1>2. jobs["worker"] # Idle /\ jobs["worker"].stage = "purge"
  BY <1>0, Jobs DEF Purge, Doing
<1>3. /\ jobs'["worker"] # Idle /\ jobs'["worker"].stage = "evict"
      /\ jobs'["worker"].uid = w /\ jobs'["worker"].text = jobs["worker"].text
      /\ \A q \in Procs : q # "worker" => jobs'[q] = jobs[q]
  BY <1>0, <1>1, <1>2, GoToStep DEF Purge, Removing
<1>4. w \in Uids /\ Busy("worker", w) /\ Shown(jobs["worker"].text) = None /\ IndexedAt(w)
  BY <1>1, <1>2, WorkerKnows DEF Removing
<1>5. vectors'[w] = None /\ \A u \in Uids : u # w => vectors'[u] = vectors[u]
  BY <1>0, <1>1, <1>4 DEF Purge, TypeOK
<1>6. rows' = rows /\ calls' = calls /\ queue' = queue /\ boot' = boot /\ index' = index
      /\ cache' = cache /\ stale' = stale
  BY DEF Purge, store
<1>6a. skewed \subseteq skewed' /\ (w \in skewed' \/ ~InWindow("backfill", w))
  BY <1>0, <1>1, TouchStep, Others DEF Purge
<1>7. Busy("worker", w)'
  BY <1>3 DEF Busy
<1>8. Heard(w)' = Heard(w)
  BY <1>3, <1>4, <1>7 DEF Heard
<1>8a. w \notin stale => index[w] = None
  BY <1>2, <1>4 DEF IndexedAt
<1>9. IndexedAt(w)'
  BY <1>3, <1>4, <1>6, <1>8a DEF IndexedAt
<1>10. ApartAt(w)'
  BY <1>3, <1>6a DEF ApartAt, InWindow, Busy, Procs
<1>11. w \notin stale' \cup skewed' => Fits(w)'
  BY <1>5, <1>6, <1>7, <1>8a DEF Fits
<1>12. jobs["worker"].uid = w
  BY <1>1
<1> QED
  BY <1>0, <1>3, <1>4, <1>5, <1>6, <1>6a, <1>8, <1>9, <1>10, <1>11, <1>12, WorkStep

(* The worker's last write. *)
LEMMA LastWrite ==
    ASSUME Basics, Accounts, jobs["worker"] # Idle, Done("worker"),
           jobs["worker"].stage \in {"remember", "evict"},
           cache' = [cache EXCEPT ![jobs["worker"].uid] = Shown(jobs["worker"].text)],
           rows' = rows, calls' = calls, queue' = queue, boot' = boot, index' = index,
           vectors' = vectors, stale' = stale, skewed' = skewed
    PROVE  Accounts'
<1>0. TypeOK /\ "worker" \in Procs /\ "backfill" \in Procs
  BY DEF Basics, Procs
<1>1. PICK w : w = jobs["worker"].uid
  OBVIOUS
<1>3. jobs'["worker"] = Idle /\ \A q \in Procs : q # "worker" => jobs'[q] = jobs[q]
  BY <1>0, DoneStep
<1>4. w \in Uids /\ Busy("worker", w) /\ IndexedAt(w) /\ ApartAt(w)
  BY <1>1, WorkerKnows
<1>5. cache'[w] = Shown(jobs["worker"].text) /\ \A u \in Uids : u # w => cache'[u] = cache[u]
  BY <1>0, <1>1, <1>4 DEF TypeOK
<1>6. w \notin stale => index[w] = Shown(jobs["worker"].text)
  BY <1>4 DEF IndexedAt
<1>7. ~Busy("worker", w)' /\ (Busy("backfill", w)' <=> Busy("backfill", w))
      /\ jobs'["backfill"] = jobs["backfill"]
  BY <1>0, <1>3 DEF Busy
<1>8. w \notin stale' => Heard(w)' = Heard(w)
  BY <1>4, <1>6, <1>7 DEF Heard
<1>9. IndexedAt(w)'
  BY <1>7 DEF IndexedAt
<1>10. ApartAt(w)'
  BY <1>7 DEF ApartAt, InWindow
<1>11. w \notin skewed => ~(Busy("backfill", w) /\ jobs["backfill"].stage = "remember")
  BY <1>4 DEF ApartAt, InWindow
<1>12. w \notin stale' \cup skewed' /\ Fits(w) => Fits(w)'
  <2>1. Fits(w) => vectors[w] = index[w]
    BY <1>4 DEF Fits
  <2> QED
    BY <1>5, <1>6, <1>7, <1>11, <2>1 DEF Fits
<1>13. jobs["worker"].uid = w /\ \A u \in Uids : u # w =>
         index'[u] = index[u] /\ vectors'[u] = vectors[u] /\ cache'[u] = cache[u]
  BY <1>1, <1>5
<1> QED
  BY <1>0, <1>3, <1>4, <1>8, <1>9, <1>10, <1>12, <1>13, WorkStep

(* And those in memory. *)
LEMMA EvictAccounts == ASSUME Basics, Accounts, Evict PROVE Accounts'
<1>0. TypeOK /\ "worker" \in Procs
  BY DEF Basics, Procs
<1>1. jobs["worker"] # Idle /\ jobs["worker"].stage = "evict"
  BY <1>0, Jobs DEF Evict, Doing
<1>2. Shown(jobs["worker"].text) = None
  BY <1>1, WorkerKnows DEF Removing
<1> QED
  BY <1>1, <1>2, LastWrite DEF Evict, store, account

(* The worker takes the first task of the queue. *)
LEMMA TakeAccounts == ASSUME Basics, Accounts, Take PROVE Accounts'
<1>0. TypeOK
  BY DEF Basics
<1> DEFINE t == Head(queue)
<1>1. /\ queue \in Seq(Task) /\ queue # <<>> /\ t \in Task /\ queue' = Tail(queue)
      /\ jobs["worker"] = Idle /\ jobs'["worker"] \in Job
      /\ jobs'["worker"].uid = t.uid /\ jobs'["worker"].text = t.text
      /\ jobs'["worker"].stage \in {"unindex", "index"} /\ jobs'["backfill"] = jobs["backfill"]
  BY <1>0, TakeStep
<1>2. rows' = rows /\ calls' = calls /\ boot' = boot /\ index' = index /\ vectors' = vectors
      /\ cache' = cache /\ stale' = stale /\ skewed' = skewed
  BY DEF Take, store, derived, account
<1>3. jobs'["worker"] # Idle
  BY <1>1 DEF Job, Idle
<1>4. \A u : /\ ~Busy("worker", u)
             /\ Busy("worker", u)' <=> t.uid = u
             /\ Busy("backfill", u)' <=> Busy("backfill", u)
  BY <1>1, <1>3 DEF Busy
<1>5. ASSUME NEW u \in Uids PROVE ToldAt(u)'
  <2>1. ToldAt(u) /\ SameRows(u)
    BY <1>2, RowsOf DEF Accounts, Told
  <2>2. (Asking(u) => Asking(u)') /\ (Condemned(u) => Condemned(u)')
    BY <1>2 DEF Asking, Condemned, LiveOf
  <2>3. ASSUME NEW x, Says(u, x) PROVE Says(u, x)'
    <3>1. Ends(u, boot, x) /\ (~Asks(u, boot) => Ends(u, queue, x))
      BY <2>3 DEF Says
    <3>2. Ends(u, queue, x) => Ends(u, queue', x)
      BY <1>1, AskPop
    <3>3. ASSUME ~Asks(u, boot), ~Asks(u, queue') PROVE Heard(u)' = x
      <4>1. CASE t.uid = u
        <5>1. Shown(t.text) = x
          BY <1>1, <3>1, <3>3, <4>1, AskPop
        <5> QED
          BY <1>1, <1>4, <4>1, <5>1 DEF Heard
      <4>2. CASE t.uid # u
        <5>1. ~Asks(u, queue)
          BY <1>1, <3>3, <4>2, AskPop
        <5>2. Heard(u) = x
          BY <2>3, <3>3, <5>1 DEF Says
        <5> QED
          BY <1>2, <1>4, <4>2, <5>2 DEF Heard
      <4> QED
        BY <4>1, <4>2
    <3> QED
      BY <1>2, <3>1, <3>2, <3>3 DEF Says
  <2> QED
    BY <1>2, <2>1, <2>2, <2>3, ToldKeeps
<1>6. Indexed'
  BY <1>1, <1>4 DEF Indexed, IndexedAt
<1>7. Apart'
  BY <1>1, <1>4 DEF Apart, ApartAt, InWindow
<1>8. ASSUME NEW u \in Uids PROVE DerivedAt(u)'
  <2>1. DerivedAt(u)
    BY DEF Accounts, Derived
  <2>2. CASE t.uid = u
    <3>1. Fits(u)'
      BY <1>1, <1>4, <2>2 DEF Fits
    <3> QED
      BY <3>1 DEF DerivedAt
  <2>3. CASE t.uid # u
    <3>1. Asks(u, queue') <=> Asks(u, queue)
      BY <1>1, <2>3, AskPop
    <3>2. Fits(u)' <=> Fits(u)
      BY <1>1, <1>2, <1>4, <2>3 DEF Fits
    <3> QED
      BY <1>2, <2>1, <3>1, <3>2 DEF DerivedAt
  <2> QED
    BY <2>2, <2>3
<1> QED
  BY <1>5, <1>6, <1>7, <1>8 DEF Accounts, Told, Derived

(* An embedder goes on. *)
LEMMA EmbedStep ==
    ASSUME Basics, Accounts, NEW p \in Procs, NEW w, w = jobs[p].uid,
           jobs[p].stage \in {"clear", "forget", "save"},
           NEW stage \in {"forget", "save", "remember"}, GoTo(p, stage),
           index' = index, stale \subseteq stale'
    PROVE  /\ w \in Uids /\ Busy(p, w) /\ Busy(p, w)'
           /\ jobs'[p].stage = stage /\ jobs'[p].uid = w /\ jobs'[p].text = jobs[p].text
           /\ \A q \in Procs : q # p => jobs'[q] = jobs[q]
           /\ w \notin stale' => Heard(w)' = Heard(w) /\ IndexedAt(w)'
           /\ \A q \in Procs : q # p => (Busy(q, w)' <=> Busy(q, w))
<1>0. TypeOK /\ "worker" \in Procs /\ "backfill" \in Procs /\ p \in {"worker", "backfill"}
  BY DEF Basics, Procs
<1>1. jobs[p] # Idle /\ w \in Uids
  BY <1>0, Jobs
<1>2. /\ jobs'[p] # Idle /\ jobs'[p].stage = stage /\ jobs'[p].uid = w
      /\ jobs'[p].text = jobs[p].text /\ \A q \in Procs : q # p => jobs'[q] = jobs[q]
  BY <1>0, <1>1, GoToStep DEF Embedding
<1>3. Busy(p, w) /\ Busy(p, w)'
  BY <1>1, <1>2 DEF Busy
<1>4. \A q \in Procs : q # p => (Busy(q, w)' <=> Busy(q, w))
  BY <1>2 DEF Busy
<1>5. IndexedAt(w)
  BY <1>1 DEF Accounts, Indexed
<1>6. ASSUME w \notin stale' PROVE Heard(w)' = Heard(w) /\ IndexedAt(w)'
  <2>1. CASE p = "worker"
    BY <1>2, <1>3, <1>5, <1>6, <2>1 DEF Heard, IndexedAt
  <2>2. CASE p = "backfill"
    <3>1. jobs'["worker"] = jobs["worker"] /\ (Busy("worker", w)' <=> Busy("worker", w))
      BY <1>0, <1>2, <1>4, <2>2
    <3> QED
      BY <1>5, <1>6, <3>1 DEF Heard, IndexedAt
  <2> QED
    BY <1>0, <2>1, <2>2
<1> QED
  BY <1>1, <1>2, <1>3, <1>4, <1>6

(* The worker and the backfill, and the one that is not p. *)
LEMMA TheOther ==
    ASSUME NEW p \in Procs
    PROVE  /\ Other(p) \in Procs /\ Other(p) # p
           /\ p = "worker" => Other(p) = "backfill"
           /\ p = "backfill" => Other(p) = "worker"
           /\ p = "worker" \/ p = "backfill"
BY Others DEF Procs

(* An embedder removes the old vectors from the table. *)
LEMMA ClearAccounts == ASSUME Basics, Accounts, NEW p \in Procs, Clear(p) PROVE Accounts'
<1>0. TypeOK
  BY DEF Basics
<1>1. PICK w : w = jobs[p].uid
  OBVIOUS
<1>2. rows' = rows /\ calls' = calls /\ queue' = queue /\ boot' = boot /\ index' = index
      /\ cache' = cache /\ stale' = stale /\ jobs[p].stage = "clear" /\ GoTo(p, "forget")
      /\ jobs[p].uid = w
  BY <1>1 DEF Clear, store, Doing
<1>3. /\ w \in Uids /\ Busy(p, w) /\ Busy(p, w)'
      /\ jobs'[p].stage = "forget" /\ jobs'[p].uid = w
      /\ \A q \in Procs : q # p => jobs'[q] = jobs[q]
      /\ w \notin stale' => Heard(w)' = Heard(w) /\ IndexedAt(w)'
      /\ \A q \in Procs : q # p => (Busy(q, w)' <=> Busy(q, w))
  BY <1>1, <1>2, EmbedStep
<1>4. \A u \in Uids : u # w => vectors'[u] = vectors[u]
  BY <1>0, <1>1 DEF Clear, TypeOK
<1>5. skewed \subseteq skewed' /\ (w \in skewed' \/ ~InWindow(Other(p), w))
  BY <1>1, TouchStep DEF Clear
<1>6. ~InWindow(Other(p), w) => ~InWindow(Other(p), w)'
  BY <1>3, TheOther DEF InWindow
<1>7. ApartAt(w)'
  BY <1>5, <1>6, TheOther DEF ApartAt
<1>8. w \notin stale' \cup skewed' => Fits(w)'
  <2>1. SUFFICES ASSUME w \notin skewed' PROVE Fits(w)'
    OBVIOUS
  <2>2. ~InWindow(Other(p), w)'
    BY <1>5, <1>6, <2>1
  <2>3. CASE p = "worker"
    BY <1>3, <2>3 DEF Fits
  <2>4. CASE p = "backfill"
    BY <1>3, <2>2, <2>4, TheOther DEF Fits, InWindow
  <2> QED
    BY <2>3, <2>4, TheOther
<1> QED
  BY <1>2, <1>3, <1>4, <1>5, <1>7, <1>8, WorkStep

(* And from memory. *)
LEMMA ForgetAccounts == ASSUME Basics, Accounts, NEW p \in Procs, Forget(p) PROVE Accounts'
<1>0. TypeOK
  BY DEF Basics
<1>1. PICK w : w = jobs[p].uid
  OBVIOUS
<1>2. rows' = rows /\ calls' = calls /\ queue' = queue /\ boot' = boot /\ index' = index
      /\ vectors' = vectors /\ stale' = stale /\ skewed' = skewed
      /\ jobs[p].stage = "forget" /\ GoTo(p, "save") /\ jobs[p].uid = w
  BY <1>1 DEF Forget, store, Doing, account
<1>3. /\ w \in Uids /\ Busy(p, w) /\ Busy(p, w)'
      /\ jobs'[p].stage = "save" /\ jobs'[p].uid = w
      /\ \A q \in Procs : q # p => jobs'[q] = jobs[q]
      /\ w \notin stale' => Heard(w)' = Heard(w) /\ IndexedAt(w)'
      /\ \A q \in Procs : q # p => (Busy(q, w)' <=> Busy(q, w))
  BY <1>1, <1>2, EmbedStep
<1>4. \A u \in Uids : u # w => cache'[u] = cache[u]
  BY <1>0, <1>1 DEF Forget, TypeOK
<1>7. ApartAt(w)'
  BY <1>3, TheOther DEF ApartAt, InWindow
<1>8. Fits(w) => Fits(w)'
  <2>1. CASE p = "worker"
    BY <1>3, <2>1 DEF Fits
  <2>2. CASE p = "backfill"
    <3>1. jobs'["worker"] = jobs["worker"] /\ (Busy("worker", w)' <=> Busy("worker", w))
      BY <1>3, <2>2, TheOther
    <3> QED
      BY <1>2, <1>3, <2>2, <3>1 DEF Fits
  <2> QED
    BY <2>1, <2>2, TheOther
<1> QED
  BY <1>2, <1>3, <1>4, <1>7, <1>8, WorkStep

(* It stores the new one in the table: of an older text only if the uid is
   out of date, or the worker is going to rewrite it. *)
LEMMA SaveAccounts == ASSUME Basics, Accounts, NEW p \in Procs, Save(p) PROVE Accounts'
<1>0. TypeOK
  BY DEF Basics
<1>1. PICK w : w = jobs[p].uid
  OBVIOUS
<1>2. rows' = rows /\ calls' = calls /\ queue' = queue /\ boot' = boot /\ index' = index
      /\ cache' = cache /\ stale \subseteq stale'
      /\ jobs[p].stage = "save" /\ GoTo(p, "remember") /\ jobs[p].uid = w
  BY <1>1 DEF Save, store, Doing
<1>3. /\ w \in Uids /\ Busy(p, w) /\ Busy(p, w)'
      /\ jobs'[p].stage = "remember" /\ jobs'[p].uid = w /\ jobs'[p].text = jobs[p].text
      /\ \A q \in Procs : q # p => jobs'[q] = jobs[q]
      /\ w \notin stale' => Heard(w)' = Heard(w) /\ IndexedAt(w)'
      /\ \A q \in Procs : q # p => (Busy(q, w)' <=> Busy(q, w))
  BY <1>1, <1>2, EmbedStep
<1>4. vectors'[w] = jobs[p].text /\ \A u \in Uids : u # w => vectors'[u] = vectors[u]
  BY <1>0, <1>1, <1>3 DEF Save, TypeOK
<1>5. skewed \subseteq skewed' /\ (w \in skewed' \/ ~InWindow(Other(p), w))
  BY <1>1, TouchStep DEF Save
<1>6. ~InWindow(Other(p), w) => ~InWindow(Other(p), w)'
  BY <1>3, TheOther DEF InWindow
<1>7. ApartAt(w)'
  BY <1>5, <1>6, TheOther DEF ApartAt
<1>8. ASSUME w \notin stale' \cup skewed', ~WillRewrite(w) \/ p = "worker" PROVE Fits(w)'
  <2>2. ~InWindow(Other(p), w)'
    BY <1>5, <1>6, <1>8
  <2>3. CASE p = "worker"
    <3>1. Shown(jobs["worker"].text) = jobs["worker"].text /\ IndexedAt(w) /\ jobs["worker"] # Idle
      <4>1. jobs["worker"] # Idle /\ jobs["worker"].stage \notin Removing
        BY <1>0, <1>2, <2>3, Jobs DEF Removing
      <4> QED
        BY <1>2, <2>3, <4>1, WorkerKnows
    <3>2. index[w] = jobs["worker"].text
      BY <1>2, <1>3, <1>8, <2>3, <3>1 DEF IndexedAt
    <3> QED
      BY <1>2, <1>3, <1>4, <2>3, <3>2 DEF Fits
  <2>4. CASE p = "backfill"
    <3>1. jobs[p].text = index[w]
      BY <1>1, <1>8, <2>4 DEF Save
    <3>2. jobs'["worker"] = jobs["worker"] /\ (Busy("worker", w)' <=> Busy("worker", w))
      BY <1>3, <2>4, TheOther
    <3>3. Busy("worker", w) => jobs["worker"].stage \notin {"remember", "evict"}
      BY <2>2, <2>4, <3>2, TheOther DEF InWindow
    <3> QED
      BY <1>2, <1>3, <1>4, <2>4, <3>1, <3>2, <3>3 DEF Fits
  <2> QED
    BY <2>3, <2>4, TheOther
<1>9. ASSUME p = "backfill", WillRewrite(w), ~Asks(w, queue), w \notin skewed' PROVE Fits(w)'
  <2>1. Busy("worker", w) /\ jobs["worker"].stage \notin {"remember", "evict"}
    BY <1>9 DEF WillRewrite
  <2>2. jobs'["worker"] = jobs["worker"] /\ Busy("worker", w)'
    BY <1>3, <1>9, <2>1, TheOther
  <2> QED
    BY <2>1, <2>2 DEF Fits
<1>10. \A u \in Uids : u # w =>
         index'[u] = index[u] /\ vectors'[u] = vectors[u] /\ cache'[u] = cache[u]
  BY <1>2, <1>4
<1>11. w \notin stale' \cup skewed' /\ ~Asks(w, queue) => Fits(w)'
  BY <1>8, <1>9, TheOther
<1> QED
  BY <1>2, <1>3, <1>5, <1>7, <1>10, <1>11, WorkStep

(* And in memory: with that the vectors are again those of one text. *)
LEMMA RememberAccounts == ASSUME Basics, Accounts, NEW p \in Procs, Remember(p) PROVE Accounts'
<1>0. TypeOK
  BY DEF Basics
<1>1. PICK w : w = jobs[p].uid
  OBVIOUS
<1>2. rows' = rows /\ calls' = calls /\ queue' = queue /\ boot' = boot /\ index' = index
      /\ vectors' = vectors /\ stale' = stale /\ skewed' = skewed
      /\ jobs[p].stage = "remember" /\ Done(p)
      /\ cache' = [cache EXCEPT ![jobs[p].uid] = jobs[p].text]
  BY DEF Remember, store, Doing, account
<1>3. jobs[p] # Idle
  BY <1>0, <1>2, Jobs
<1>4. CASE p = "worker"
  <2>1. Shown(jobs["worker"].text) = jobs["worker"].text
    BY <1>2, <1>3, <1>4, WorkerKnows DEF Removing
  <2> QED
    BY <1>2, <1>3, <1>4, <2>1, LastWrite
<1>5. CASE p = "backfill"
  <2>1. jobs'[p] = Idle /\ jobs'["worker"] = jobs["worker"]
        /\ \A q \in Procs : q # p => jobs'[q] = jobs[q]
    BY <1>0, <1>2, <1>5, DoneStep, TheOther
  <2>2. Busy(p, w) /\ ~Busy(p, w)' /\ (Busy("worker", w)' <=> Busy("worker", w)) /\ w \in Uids
    BY <1>0, <1>1, <1>3, <2>1, Jobs DEF Busy
  <2>3. cache'[w] = jobs[p].text /\ \A u \in Uids : u # w => cache'[u] = cache[u]
    BY <1>0, <1>1, <1>2, <2>2 DEF TypeOK
  <2>4. IndexedAt(w)
    BY <2>2 DEF Accounts, Indexed
  <2>5. Heard(w)' = Heard(w) /\ IndexedAt(w)'
    BY <1>2, <2>1, <2>2, <2>4 DEF Heard, IndexedAt
  <2>6. ApartAt(w)'
    BY <1>5, <2>2 DEF ApartAt, InWindow
  <2>7. Fits(w) => Fits(w)'
    BY <1>2, <1>5, <2>1, <2>2, <2>3 DEF Fits
  <2>8. jobs[p].uid = w
    BY <1>1
  <2> QED
    BY <1>2, <2>1, <2>2, <2>3, <2>5, <2>6, <2>7, <2>8, WorkStep
<1> QED
  BY <1>4, <1>5, TheOther

(* A failure leaves the uid out of date. *)
LEMMA StepFailsAccounts == ASSUME Basics, Accounts, NEW p \in Procs, StepFails(p) PROVE Accounts'
<1>0. TypeOK
  BY DEF Basics
<1>1. PICK w : w = jobs[p].uid
  OBVIOUS
<1>2. rows' = rows /\ calls' = calls /\ queue' = queue /\ boot' = boot /\ index' = index
      /\ vectors' = vectors /\ cache' = cache /\ skewed' = skewed /\ stale' = stale \cup {w}
      /\ jobs[p].uid = w
  BY <1>1 DEF StepFails, store, derived
<1>3. jobs[p] # Idle /\ w \in Uids
  BY <1>0, <1>1, FailStep, Jobs
<1>4. /\ jobs'[p] = Idle \/ (jobs'[p].uid = w /\ jobs'[p].stage \in {"clear", "purge", "save"})
      /\ \A q \in Procs : q # p => jobs'[q] = jobs[q]
  BY <1>0, <1>1, FailStep, DoneStep, GoToStep DEF Embedding, Removing
<1>5. ApartAt(w)'
  <2>1. ~InWindow(p, w)'
    BY <1>4 DEF InWindow, Busy
  <2> QED
    BY <2>1, TheOther DEF ApartAt
<1>6. IndexedAt(w)' /\ w \in stale'
  BY <1>2 DEF IndexedAt
<1>7. jobs'[p] = Idle \/ jobs'[p].uid = w
  BY <1>4
<1> QED
  BY <1>2, <1>3, <1>4, <1>5, <1>6, <1>7, WorkStep

(* A backfill starts. *)
LEMMA BackfillAccounts == ASSUME Basics, Accounts, NEW u \in Uids, Backfill(u) PROVE Accounts'
<1>0. TypeOK
  BY DEF Basics
<1>1. /\ jobs["backfill"] = Idle /\ jobs'["backfill"].uid = u /\ jobs'["backfill"].stage = "clear"
      /\ jobs'["worker"] = jobs["worker"] /\ "backfill" \in Procs
      /\ \A q \in Procs : q # "backfill" => jobs'[q] = jobs[q]
  BY <1>0, BackfillStep DEF Procs
<1>2. rows' = rows /\ calls' = calls /\ queue' = queue /\ boot' = boot /\ index' = index
      /\ vectors' = vectors /\ cache' = cache /\ skewed' = skewed /\ stale' = stale
  BY DEF Backfill, store, derived, account
<1>3. (Busy("worker", u)' <=> Busy("worker", u)) /\ ~Busy("backfill", u) /\ IndexedAt(u)
  BY <1>1 DEF Busy, Accounts, Indexed
<1>4. Heard(u)' = Heard(u) /\ IndexedAt(u)'
  BY <1>1, <1>2, <1>3 DEF Heard, IndexedAt
<1>5. ApartAt(u)'
  BY <1>1 DEF ApartAt, InWindow
<1>6. Fits(u) => Fits(u)'
  BY <1>1, <1>2, <1>3 DEF Fits
<1> QED
  BY <1>1, <1>2, <1>4, <1>5, <1>6, WorkStep

-----------------------------------------------------------------------------
(* Requests. *)

SameWork == /\ jobs' = jobs /\ index' = index /\ vectors' = vectors /\ cache' = cache
            /\ skewed' = skewed

(* Then what depends on them is the same. *)
LEMMA SameWorkKeeps ==
    ASSUME SameWork, stale \subseteq stale', NEW u
    PROVE  /\ Heard(u)' = Heard(u)
           /\ IndexedAt(u) => IndexedAt(u)'
           /\ ApartAt(u) => ApartAt(u)'
           /\ Fits(u) => Fits(u)'
BY DEF SameWork, Heard, IndexedAt, ApartAt, Fits, Busy, InWindow

(* A request that only reads, or that ends before it has written. *)
LEMMA QuietAccounts ==
    ASSUME Accounts, SameWork, rows' = rows, queue' = queue, boot' = boot, stale' = stale,
           \A u \in Uids : (Asking(u) => Asking(u)') /\ (Condemned(u) => Condemned(u)')
    PROVE  Accounts'
<1>1. ASSUME NEW u \in Uids PROVE ToldAt(u)'
  <2>1. ToldAt(u) /\ SameRows(u)
    BY RowsOf DEF Accounts, Told
  <2>2. ASSUME NEW x, Says(u, x) PROVE Says(u, x)'
    BY <2>2, SameWorkKeeps DEF Says
  <2> QED
    BY <2>1, <2>2, ToldKeeps
<1>2. Indexed' /\ Apart'
  BY SameWorkKeeps DEF Accounts, Indexed, Apart
<1>3. Derived'
  BY SameWorkKeeps DEF Accounts, Derived, DerivedAt, SameWork
<1> QED
  BY <1>1, <1>2, <1>3 DEF Accounts, Told

(* Another request than that of slot s still asks. *)
LEMMA OnlyKeeps ==
    ASSUME NEW s \in Slots, Only(s), NEW u
    PROVE  /\ calls[s].stage # "index" \/ calls[s].uid # u => (Asking(u) => Asking(u)')
           /\ WillAsk(s, u) => Asking(u)'
           /\ LiveOf(u)' = LiveOf(u) /\ ~Condemns(calls[s]) => (Condemned(u) => Condemned(u)')
<1>1. calls[s].stage # "index" \/ calls[s].uid # u => (Asking(u) => Asking(u)')
  BY DEF Only, Asking
<1>2. WillAsk(s, u) => Asking(u)'
  BY DEF Only, Asking, WillAsk
<1>3. LiveOf(u)' = LiveOf(u) /\ ~Condemns(calls[s]) => (Condemned(u) => Condemned(u)')
  BY DEF Only, Condemned, Condemns
<1> QED
  BY <1>1, <1>2, <1>3

(* One step of such a request, with the others as they were. *)
LEMMA QuietCall ==
    ASSUME Accounts, SameWork, rows' = rows, queue' = queue, boot' = boot, stale' = stale,
           NEW s \in Slots, Only(s), calls[s].stage \notin {"index", "cascade"}
    PROVE  Accounts'
<1>1. ASSUME NEW u \in Uids PROVE (Asking(u) => Asking(u)') /\ (Condemned(u) => Condemned(u)')
  BY OnlyKeeps DEF Condemns, LiveOf
<1> QED
  BY <1>1, QuietAccounts

(* A request that has written a row and will ask for it. *)
LEMMA WritesAccounts ==
    ASSUME Accounts, SameWork, queue' = queue, boot' = boot, stale' = stale,
           NEW s \in Slots, Only(s), calls[s].stage \notin {"index", "cascade"},
           calls'[s].stage = "index", NEW w, calls'[s].uid = w,
           \A u \in Uids : u # w => SameRows(u)
    PROVE  Accounts'
<1>1. ASSUME NEW u \in Uids PROVE ToldAt(u)'
  <2>1. CASE u = w
    <3>1. Asking(u)'
      BY <2>1 DEF Asking
    <3> QED
      BY <3>1 DEF ToldAt
  <2>2. CASE u # w
    <3>1. ToldAt(u) /\ SameRows(u)
      BY <2>2 DEF Accounts, Told
    <3>2. (Asking(u) => Asking(u)') /\ (Condemned(u) => Condemned(u)')
      BY <3>1, OnlyKeeps DEF Condemns, SameRows
    <3>3. ASSUME NEW x, Says(u, x) PROVE Says(u, x)'
      BY <3>3, SameWorkKeeps DEF Says
    <3> QED
      BY <3>1, <3>2, <3>3, ToldKeeps
  <2> QED
    BY <2>1, <2>2
<1>2. Indexed' /\ Apart'
  BY SameWorkKeeps DEF Accounts, Indexed, Apart
<1>3. Derived'
  BY SameWorkKeeps DEF Accounts, Derived, DerivedAt, SameWork
<1> QED
  BY <1>1, <1>2, <1>3 DEF Accounts, Told

(* A request that asks for the index: what it says last is what the row
   wants, or the digest is out of date, or another is going to ask. *)
LEMMA EnqueueAccounts ==
    ASSUME Basics, Accounts, SameWork, rows' = rows, boot' = boot,
           NEW s \in Slots, Only(s), calls[s].stage = "index", NEW w \in Uids, calls[s].uid = w,
           NEW t \in Said, Enqueue(s, w, t)
    PROVE  Accounts'
<1> DEFINE e == [uid |-> w, text |-> t]
<1>1. queue \in Seq(Task) /\ e \in Task /\ e.uid = w /\ e.text = t
  BY DEF Basics, TypeOK, Task
<1>2. (w \in stale' /\ queue' = queue)
      \/ (queue' = Append(queue, e) /\ (w \in stale' \/ WillAsk(s, w) \/ Shown(t) = Desired(rows, w)))
  <2>1. Len(queue) \in Nat /\ QueueSize \in Nat
    BY <1>1, DigestAssumption
  <2>2. CASE Len(queue) < QueueSize
    <3>1. queue' = Append(queue, e)
      BY <2>2 DEF Enqueue
    <3>2. w \in stale' \/ WillAsk(s, w) \/ Shown(t) = Desired(rows, w)
      BY DEF Enqueue
    <3> QED
      BY <3>1, <3>2
  <2>3. CASE Len(queue) >= QueueSize
    <3>1. queue' = queue
      BY <2>1, <2>3 DEF Enqueue
    <3>2. w \in stale'
      BY <2>3 DEF Enqueue
    <3> QED
      BY <3>1, <3>2
  <2> QED
    BY <2>1, <2>2, <2>3
<1>3. stale \subseteq stale'
  BY DEF Enqueue
<1>4. boot = <<>>
  BY DEF Basics, BootIsFirst, Idle
<1>5. ASSUME NEW u \in Uids, u # w
      PROVE  (Asks(u, queue') <=> Asks(u, queue)) /\ \A x : Ends(u, queue', x) <=> Ends(u, queue, x)
  <2>1. CASE queue' = queue
    BY <2>1
  <2>2. CASE queue' = Append(queue, e)
    <3>1. /\ Asks(u, Append(queue, e)) <=> Asks(u, queue)
          /\ \A x : Ends(u, Append(queue, e), x) <=> Ends(u, queue, x)
      BY <1>1, <1>5, AskPush
    <3> QED
      BY <2>2, <3>1
  <2> QED
    BY <1>2, <2>1, <2>2
<1>5a. Asks(w, Append(queue, e)) /\ Ends(w, Append(queue, e), Shown(t))
  BY <1>1, AskPush
<1>6. Asks(w, queue') \/ w \in stale'
  BY <1>2, <1>5a
<1>7. ASSUME NEW u \in Uids PROVE ToldAt(u)'
  <2>1. CASE u = w
    <3>1. CASE w \in stale'
      BY <2>1, <3>1 DEF ToldAt
    <3>2. CASE WillAsk(s, w)
      BY <2>1, <3>2, OnlyKeeps DEF ToldAt
    <3>3. CASE w \notin stale' /\ ~WillAsk(s, w)
      <4>1. queue' = Append(queue, e) /\ Shown(t) = Desired(rows', w)
        BY <1>2, <3>3
      <4>2. Asks(w, queue') /\ Ends(w, queue', Shown(t))
        BY <1>5a, <4>1
      <4>3. Says(w, Shown(t))'
        BY <1>4, <4>2, NoTasks DEF Says
      <4> QED
        BY <2>1, <4>1, <4>3 DEF ToldAt
    <3> QED
      BY <3>1, <3>2, <3>3
  <2>2. CASE u # w
    <3>1. ToldAt(u) /\ SameRows(u)
      BY RowsOf DEF Accounts, Told
    <3>2. (Asking(u) => Asking(u)') /\ (Condemned(u) => Condemned(u)')
      BY <2>2, OnlyKeeps DEF Condemns, LiveOf
    <3>3. ASSUME NEW x, Says(u, x) PROVE Says(u, x)'
      BY <1>3, <1>5, <2>2, <3>3, SameWorkKeeps DEF Says
    <3> QED
      BY <1>3, <3>1, <3>2, <3>3, ToldKeeps
  <2> QED
    BY <2>1, <2>2
<1>8. Indexed' /\ Apart'
  BY <1>3, SameWorkKeeps DEF Accounts, Indexed, Apart
<1>9. ASSUME NEW u \in Uids PROVE DerivedAt(u)'
  <2>1. CASE u = w
    BY <1>6, <2>1 DEF DerivedAt
  <2>2. CASE u # w
    BY <1>3, <1>5, <2>2, SameWorkKeeps DEF Accounts, Derived, DerivedAt, SameWork
  <2> QED
    BY <2>1, <2>2
<1> QED
  BY <1>7, <1>8, <1>9 DEF Accounts, Told, Derived

(* What a request begins with, and where it goes. *)
LEMMA BeginStep ==
    ASSUME TypeOK, NEW s \in Slots, NEW c, Begin(s, c)
    PROVE  Only(s) /\ calls'[s] = c /\ calls[s] = Idle /\ calls[s].stage = "idle" /\ boot = <<>>
BY DEF Begin, TypeOK, Only, Idle, Serving

(* It ends. *)
LEMMA EndStep ==
    ASSUME TypeOK, NEW s \in Slots, End(s)
    PROVE  Only(s) /\ calls'[s] = Idle
BY DEF End, TypeOK, Only

(* It goes on and keeps its digest. *)
LEMMA GoOnStep ==
    ASSUME TypeOK, NEW s \in Slots, calls[s] \in Call, NEW stage \in {"index", "tell"}, GoOn(s, stage)
    PROVE  /\ Only(s) /\ calls'[s].stage = stage /\ calls'[s].uid = calls[s].uid
           /\ calls'[s].id = calls[s].id
<1>1. calls'[s] = [calls[s] EXCEPT !.stage = stage] /\ Only(s)
  BY GoOnTypes DEF Only
<1> QED
  BY <1>1 DEF Call

(* What does not change the index, the vectors or their work. *)
LEMMA Unworked ==
    ASSUME UNCHANGED <<jobs, derived, skewed>> PROVE SameWork
BY DEF SameWork, derived

(* Nothing is said and nobody begins or ends. *)
LEMMA IdleAccounts ==
    ASSUME Accounts, UNCHANGED <<rows, calls, queue, jobs, boot, derived, stale, skewed>>
    PROVE  Accounts'
<1>1. ASSUME NEW u \in Uids PROVE (Asking(u) => Asking(u)') /\ (Condemned(u) => Condemned(u)')
  BY DEF Asking, Condemned, LiveOf
<1>2. SameWork
  BY Unworked
<1> QED
  BY <1>1, <1>2, QuietAccounts

(* A request that begins has said nothing. *)
LEMMA BeginAccounts ==
    ASSUME Basics, Accounts, NEW s \in Slots, NEW c, Begin(s, c),
           UNCHANGED <<rows, queue, jobs, boot, derived, stale, skewed>>
    PROVE  Accounts'
<1>1. Only(s) /\ calls[s].stage = "idle"
  BY BeginStep DEF Basics
<1>2. SameWork
  BY Unworked
<1> QED
  BY <1>1, <1>2, QuietCall

(* Nor has one that ends without having written. *)
LEMMA EndAccounts ==
    ASSUME Basics, Accounts, NEW s \in Slots, End(s), calls[s].stage \notin {"index", "cascade"},
           UNCHANGED <<rows, queue, jobs, boot, derived, stale, skewed>>
    PROVE  Accounts'
<1>1. Only(s)
  BY EndStep DEF Basics
<1>2. SameWork
  BY Unworked
<1> QED
  BY <1>1, <1>2, QuietCall

(* The device begins a request, or is told that its id is unknown. *)
LEMMA DeviceAccounts ==
    ASSUME Basics, Accounts, NEW s \in Slots, NEW u, NEW t,
           AddSummary(s, u) \/ DeleteSummary(s, u) \/ UpdateSummary(s, u, t)
    PROVE  Accounts'
<1>1. CASE AddSummary(s, u)
  BY <1>1, BeginAccounts DEF AddSummary, store, account
<1>2. CASE DeleteSummary(s, u)
  <2>1. CASE Live(copies[u].id)
    BY <1>2, <2>1, BeginAccounts DEF DeleteSummary, store, account
  <2>2. CASE ~Live(copies[u].id)
    BY <1>2, <2>2, IdleAccounts DEF DeleteSummary, store, account
  <2> QED
    BY <2>1, <2>2
<1>3. CASE UpdateSummary(s, u, t)
  <2>1. CASE Live(copies[u].id)
    BY <1>3, <2>1, BeginAccounts DEF UpdateSummary, store, account
  <2>2. CASE ~Live(copies[u].id)
    BY <1>3, <2>2, IdleAccounts DEF UpdateSummary, store, account
  <2> QED
    BY <2>1, <2>2
<1> QED
  BY <1>1, <1>2, <1>3

(* What changes only the device's copy or the group. *)
LEMMA CopyAccounts ==
    ASSUME Accounts, NEW u, NEW t, NEW g,
           Draw(u, t) \/ Pull(u) \/ AddSummaryGroup \/ UpdateSummaryGroup(g)
    PROVE  Accounts'
BY IdleAccounts DEF Draw, Pull, AddSummaryGroup, UpdateSummaryGroup, store, account

(* The web page begins one. *)
LEMMA DeleteDigestAccounts ==
    ASSUME Basics, Accounts, NEW s \in Slots, NEW i \in DOMAIN rows, DeleteDigest(s, i)
    PROVE  Accounts'
BY BeginAccounts DEF DeleteDigest, store, account

(* Requests end with the group's row, the tombstone or a failure. *)
LEMMA EndingAccounts ==
    ASSUME Basics, Accounts, NEW s \in Slots, NEW fails \in BOOLEAN,
           DropGroup(s) \/ Entomb(s, fails) \/ RequestFails(s)
    PROVE  Accounts'
BY EndAccounts DEF DropGroup, Entomb, RequestFails, At, store, account

(* Tombstones and drains say nothing of the index. *)
LEMMA SocketAccounts ==
    ASSUME Accounts, NEW c \in Conns, Socket(c) \/ EmitFails(c) \/ Sweep
    PROVE  Accounts'
BY IdleAccounts DEF Socket, Ping, MarkSent, Emit, Ack, EmitFails, Sweep, store, account

(* Nor do frames. *)
LEMMA FrameAccounts ==
    ASSUME Accounts, NEW ids \in frames, Deliver(ids) \/ LoseFrame(ids)
    PROVE  Accounts'
BY IdleAccounts DEF Deliver, LoseFrame, store, account

(* The row is written; the request will ask for it. *)
LEMMA WriteAccounts == ASSUME Basics, Accounts, NEW s \in Slots, Write(s) PROVE Accounts'
<1>0. TypeOK
  BY DEF Basics
<1> DEFINE c == calls[s]
<1>1. /\ c.stage = "write" /\ SameWork /\ queue' = queue /\ boot' = boot /\ stale' = stale
      /\ UNCHANGED <<queue, jobs, boot, derived, stale, skewed>>
  BY DEF Write, At, SameWork, derived, account
<1>2. c \in Call /\ c.text \in Texts /\ c.uid \in Uids
  <2>1. c.kind \in {"add", "update"}
    BY DEF Write, At
  <2> QED
    BY <1>0, <1>1, <2>1, Kinds DEF OfDigest, Call, Basics, CallsFit, CallFits
<1>3. CASE c.id = 0
  <2>1. /\ Create(c.uid, c.text)
        /\ calls' = [calls EXCEPT ![s] = [[c EXCEPT !.stage = "index"] EXCEPT !.id = Len(rows) + 1]]
    BY <1>3 DEF Write
  <2>2. Only(s) /\ calls'[s].stage = "index" /\ calls'[s].uid = c.uid
    BY <1>0, <1>2, <2>1 DEF TypeOK, Only, Call
  <2>3. /\ DOMAIN rows \subseteq DOMAIN rows'
        /\ DOMAIN rows' \subseteq DOMAIN rows \cup {Len(rows) + 1}
        /\ rows'[Len(rows) + 1].uid = c.uid
        /\ \A j \in DOMAIN rows : rows'[j] = rows[j]
    <3>1. /\ DOMAIN rows \subseteq DOMAIN rows'
          /\ DOMAIN rows' \subseteq DOMAIN rows \cup {Len(rows) + 1}
          /\ rows'[Len(rows) + 1] = [uid |-> c.uid, text |-> c.text, live |-> TRUE]
          /\ \A j \in DOMAIN rows : rows'[j] = rows[j]
      BY <1>0, <1>2, <2>1, CreateStep
    <3>2. rows'[Len(rows) + 1].uid = c.uid
      BY <3>1
    <3> QED
      BY <3>1, <3>2
  <2>4. ASSUME NEW u \in Uids, u # c.uid PROVE SameRows(u)
    BY <2>3, <2>4, RowsOf
  <2> QED
    BY <1>1, <2>2, <2>4, WritesAccounts
<1>4. CASE c.id # 0 /\ Live(c.id)
  <2>1. Update(c.id, c.text) /\ GoOn(s, "index")
    BY <1>4 DEF Write
  <2>2. Only(s) /\ calls'[s].stage = "index" /\ calls'[s].uid = c.uid
    BY <1>0, <1>2, <2>1, GoOnStep
  <2>3. /\ DOMAIN rows' = DOMAIN rows
        /\ \A j \in DOMAIN rows : rows'[j].uid = rows[j].uid /\ (j # c.id => rows'[j] = rows[j])
    BY <1>0, <1>2, <1>4, <2>1, UpdateStep
  <2>4. rows[c.id].uid = c.uid
    BY <1>1, <1>4 DEF Basics, CallsFit, CallFits, OfDigest
  <2>5. ASSUME NEW u \in Uids, u # c.uid PROVE SameRows(u)
    BY <2>3, <2>4, <2>5, RowsOf
  <2> QED
    BY <1>1, <2>2, <2>5, WritesAccounts
<1>5. CASE c.id # 0 /\ ~Live(c.id)
  BY <1>1, <1>5, EndAccounts DEF Write
<1> QED
  BY <1>3, <1>4, <1>5

(* The row is hidden; the request will ask for the removal. *)
LEMMA HideAccounts == ASSUME Basics, Accounts, NEW s \in Slots, Hide(s) PROVE Accounts'
<1>0. TypeOK
  BY DEF Basics
<1> DEFINE c == calls[s]
<1>1. /\ c.stage = "write" /\ SameWork /\ queue' = queue /\ boot' = boot /\ stale' = stale
      /\ UNCHANGED <<queue, jobs, boot, derived, stale, skewed>>
  BY DEF Hide, At, SameWork, derived
<1>2. c \in Call /\ c.id # 0 /\ rows[c.id].uid = c.uid
  <2>1. c.kind # "add"
    BY DEF Hide, At
  <2> QED
    BY <1>0, <1>1, <2>1, Kinds DEF OfDigest, Basics, CallsFit, CallFits
<1>3. CASE Live(c.id) \/ c.kind = "delete"
  <2>1. GoOn(s, "index")
    BY <1>3 DEF Hide
  <2>2. Only(s) /\ calls'[s].stage = "index" /\ calls'[s].uid = c.uid
    BY <1>0, <1>2, <2>1, GoOnStep
  <2>3. ASSUME NEW u \in Uids, u # c.uid PROVE SameRows(u)
    <3>1. CASE Live(c.id)
      <4>1. SoftDelete(c.id)
        BY <3>1 DEF Hide
      <4>2. /\ DOMAIN rows' = DOMAIN rows
            /\ \A j \in DOMAIN rows : rows'[j].uid = rows[j].uid /\ (j # c.id => rows'[j] = rows[j])
        BY <1>0, <3>1, <4>1, SoftDeleteStep
      <4> QED
        BY <1>2, <2>3, <4>2, RowsOf
    <3>2. CASE ~Live(c.id)
      <4>1. rows' = rows
        BY <3>2 DEF Hide
      <4> QED
        BY <4>1, RowsOf
    <3> QED
      BY <3>1, <3>2
  <2> QED
    BY <1>1, <2>2, <2>3, WritesAccounts
<1>4. CASE ~(Live(c.id) \/ c.kind = "delete")
  BY <1>1, <1>4, EndAccounts DEF Hide
<1> QED
  BY <1>3, <1>4

(* The request asks. *)
LEMMA AnswerAccounts ==
    ASSUME Basics, Accounts, NEW s \in Slots, NEW lost \in BOOLEAN, Answer(s, lost)
    PROVE  Accounts'
<1>0. TypeOK
  BY DEF Basics
<1>1. /\ calls[s].stage = "index" /\ calls[s].kind \in {"add", "update"}
      /\ SameWork /\ rows' = rows /\ boot' = boot
      /\ Enqueue(s, calls[s].uid, calls[s].text) /\ End(s)
  BY DEF Answer, At, SameWork, derived, store
<1>2. calls[s].uid \in Uids /\ calls[s].text \in Said
  BY <1>0, <1>1, Kinds DEF OfDigest, Call
<1>3. Only(s)
  BY <1>0, <1>1, EndStep
<1> QED
  BY <1>1, <1>2, <1>3, EnqueueAccounts

(* It asks for the removal. *)
LEMMA DeindexAccounts == ASSUME Basics, Accounts, NEW s \in Slots, Deindex(s) PROVE Accounts'
<1>0. TypeOK
  BY DEF Basics
<1>1. /\ calls[s].stage = "index" /\ SameWork /\ rows' = rows /\ boot' = boot
      /\ Enqueue(s, calls[s].uid, None) /\ (GoOn(s, "tell") \/ End(s))
  BY DEF Deindex, At, SameWork, derived, store
<1>2. calls[s] \in Call /\ calls[s].uid \in Uids /\ None \in Said
  BY <1>0, <1>1, Kinds DEF OfDigest, Call, Said
<1>3. Only(s)
  BY <1>0, <1>1, <1>2, EndStep, GoOnStep
<1> QED
  BY <1>1, <1>2, <1>3, EnqueueAccounts

(* The group's deletion asks for the removal of what it condemns. *)
LEMMA GroupAccounts ==
    ASSUME Basics, Accounts, NEW s \in Slots, DeleteSummaryGroup(s)
    PROVE  Accounts'
<1>0. TypeOK
  BY DEF Basics
<1> DEFINE c == [kind |-> "group", stage |-> "cascade", parent |-> group]
           new == DOMAIN queue' \ DOMAIN queue
<1>1. /\ Begin(s, c) /\ rows' = rows /\ boot' = boot /\ SameWork
  BY DEF DeleteSummaryGroup, store, SameWork, derived
<1>2. Only(s) /\ calls'[s] = c /\ calls[s].stage = "idle" /\ boot = <<>>
  BY <1>0, <1>1, BeginStep
<1>3. /\ stale \subseteq stale'
      /\ DOMAIN queue \subseteq DOMAIN queue'
      /\ \A k \in DOMAIN queue : queue'[k] = queue[k]
      /\ \A k \in new :
           /\ \A l \in DOMAIN queue : l < k
           /\ queue'[k].uid \in MembersOf(group) /\ LiveOf(queue'[k].uid) # {}
           /\ queue'[k].text = None
      /\ \A u \in MembersOf(group) :
           \/ LiveOf(u) = {} \/ u \in stale'
           \/ \E k \in new : queue'[k].uid = u
  BY <1>0, GroupStep
<1> HIDE DEF new
<1>4. \A u : LiveOf(u)' = LiveOf(u)
  BY <1>1 DEF LiveOf
<1>5. \A u \in Uids : SameRows(u)
  BY <1>1, RowsOf
<1>6. ASSUME NEW u \in Uids PROVE (Asking(u) => Asking(u)') /\ (Condemned(u) => Condemned(u)')
  BY <1>2, <1>4, OnlyKeeps DEF Condemns
(* A uid of which nothing new is said. *)
<1>7. ASSUME NEW u \in Uids, \A k \in new : queue'[k].uid # u
      PROVE  (Asks(u, queue') <=> Asks(u, queue)) /\ \A x : Ends(u, queue, x) => Ends(u, queue', x)
  <2>1. \A k \in DOMAIN queue' : queue'[k].uid = u => k \in DOMAIN queue
    BY <1>7 DEF new
  <2>2. Asks(u, queue') <=> Asks(u, queue)
    BY <1>3, <2>1 DEF Asks
  <2>3. ASSUME NEW k \in DOMAIN queue', LastOf(u, queue', k) PROVE k \in DOMAIN queue /\ LastOf(u, queue, k)
    BY <1>3, <2>1, <2>3 DEF LastOf
  <2>4. ASSUME NEW x, Ends(u, queue, x) PROVE Ends(u, queue', x)
    BY <1>3, <2>3, <2>4 DEF Ends
  <2> QED
    BY <2>2, <2>4
(* One of which something new is said. *)
<1>8. ASSUME NEW u \in Uids, NEW k \in new, queue'[k].uid = u
      PROVE  Asks(u, queue') /\ Condemned(u)'
  <2>1. k \in DOMAIN queue'
    BY DEF new
  <2>2. u \in MembersOf(group) /\ LiveOf(u) # {}
    BY <1>3, <1>8
  <2>3. group = "g" /\ u \in Members
    BY <2>2 DEF MembersOf
  <2>4. Condemns(calls'[s])
    BY <1>2, <2>3 DEF Condemns
  <2>5. LiveOf(u)' # {}
    BY <1>4, <2>2
  <2> QED
    BY <1>8, <2>1, <2>3, <2>4, <2>5 DEF Asks, Condemned
<1>9. ASSUME NEW u \in Uids PROVE ToldAt(u)'
  <2>1. CASE \E k \in new : queue'[k].uid = u
    BY <1>8, <2>1 DEF ToldAt
  <2>2. CASE \A k \in new : queue'[k].uid # u
    <3>1. ToldAt(u) /\ SameRows(u)
      BY <1>5 DEF Accounts, Told
    <3>2. ASSUME NEW x, Says(u, x) PROVE Says(u, x)'
      BY <1>1, <1>3, <1>7, <2>2, <3>2, SameWorkKeeps DEF Says
    <3> QED
      BY <1>3, <1>6, <3>1, <3>2, ToldKeeps
  <2> QED
    BY <2>1, <2>2
<1>10. Indexed' /\ Apart'
  BY <1>1, <1>3, SameWorkKeeps DEF Accounts, Indexed, Apart
<1>11. ASSUME NEW u \in Uids PROVE DerivedAt(u)'
  <2>1. Asks(u, queue) => Asks(u, queue')
    BY <1>3 DEF Asks
  <2>2. DerivedAt(u) /\ skewed' = skewed
    BY <1>1 DEF Accounts, Derived, SameWork
  <2> QED
    BY <1>1, <1>3, <2>1, <2>2, SameWorkKeeps DEF DerivedAt
<1> QED
  BY <1>9, <1>10, <1>11 DEF Accounts, Told, Derived

(* What is said last of a uid. *)
LEMMA LastSays ==
    ASSUME TypeOK, NEW u, boot = <<>>, LastSaid(u) = None PROVE Says(u, None)
<1>1. ~Asks(u, boot) /\ Ends(u, boot, None)
  BY NoTasks
<1>2. ASSUME Asks(u, queue) PROVE Ends(u, queue, None)
  <2> DEFINE P(k) == queue[k].uid = u /\ \A l \in DOMAIN queue : queue[l].uid = u => l <= k
             k == CHOOSE k \in DOMAIN queue : P(k)
  <2>1. Shown(queue[k].text) = None
    BY <1>2 DEF LastSaid
  <2>2. ASSUME NEW j \in DOMAIN queue, LastOf(u, queue, j) PROVE j = k
    <3>1. P(j)
      BY <2>2 DEF LastOf
    <3>2. k \in DOMAIN queue /\ P(k)
      BY <3>1
    <3>3. j <= k /\ k <= j /\ j \in Nat /\ k \in Nat
      BY <3>1, <3>2 DEF TypeOK
    <3> QED
      BY <3>3
  <2> QED
    BY <2>1, <2>2 DEF Ends
<1>3. ASSUME ~Asks(u, queue) PROVE Ends(u, queue, None) /\ Heard(u) = None
  BY <1>3, NotAsked DEF LastSaid, Heard
<1> QED
  BY <1>1, <1>2, <1>3 DEF Says

(* The members' rows are hidden, or the deletion fails. *)
LEMMA CascadeAccounts ==
    ASSUME Basics, Accounts, NEW s \in Slots, NEW fails \in BOOLEAN, Cascade(s, fails)
    PROVE  Accounts'
<1>0. TypeOK
  BY DEF Basics
<1> DEFINE hit == {u \in MembersOf(calls[s].parent) : LiveOf(u) # {}}
<1>1. /\ calls[s].stage = "cascade" /\ queue' = queue /\ boot' = boot /\ SameWork /\ GoOn(s, "drop")
      /\ IF fails THEN rows' = rows ELSE SoftDeleteByParent(hit)
      /\ stale' = stale \cup {u \in hit : fails \/ (LastSaid(u) # None /\ ~WillAsk(s, u))}
  BY DEF Cascade, At, SameWork, derived
<1>2. calls[s] \in GroupCall /\ calls[s] # Idle
  BY <1>0, <1>1, Kinds DEF Idle
<1>3. Only(s) /\ calls'[s].stage = "drop"
  <2>1. calls'[s] = [calls[s] EXCEPT !.stage = "drop"] /\ Only(s)
    BY <1>0, <1>1, <1>2, GoOnTypes DEF Only
  <2> QED
    BY <1>2, <2>1 DEF GroupCall
<1>4. boot = <<>>
  BY <1>2 DEF Basics, BootIsFirst
<1>5. stale \subseteq stale'
  BY <1>1
<1>6. ASSUME NEW x, NEW u, Says(u, x) PROVE Says(u, x)'
  BY <1>1, <1>5, <1>6, SameWorkKeeps DEF Says
<1>7. ASSUME NEW u \in Uids, u \notin hit PROVE ToldAt(u)'
  <2>1. SameRows(u)
    <3>1. CASE fails
      <4>1. rows' = rows
        BY <1>1, <3>1
      <4> QED
        BY <4>1, RowsOf
    <3>2. CASE ~fails
      <4>1. SoftDeleteByParent(hit)
        BY <1>1, <3>2
      <4>2. DOMAIN rows' = DOMAIN rows /\ \A j \in DOMAIN rows : rows[j].uid = u => rows'[j] = rows[j]
        BY <1>7, <4>1 DEF SoftDeleteByParent
      <4>3. \A j \in DOMAIN rows : rows'[j].uid = rows[j].uid
        BY <1>0, <4>1, HiddenStep
      <4> QED
        BY <4>2, <4>3, RowsOf
    <3> QED
      BY <3>1, <3>2
  <2>2. Asking(u) => Asking(u)'
    BY <1>1, <1>3, OnlyKeeps
  <2>3. Condemned(u) => Condemned(u)'
    <3>1. SUFFICES ASSUME Condemned(u) PROVE Condemned(u)'
      OBVIOUS
    <3>2. PICK r \in Slots : Condemns(calls[r])
      BY <3>1 DEF Condemned
    <3>3. r # s
      BY <1>7, <3>1, <3>2 DEF Condemns, MembersOf, Condemned
    <3>4. Condemns(calls[r])'
      BY <1>3, <3>2, <3>3 DEF Only
    <3> QED
      BY <2>1, <3>1, <3>4 DEF Condemned, SameRows
  <2> QED
    BY <1>5, <1>6, <2>1, <2>2, <2>3, ToldKeeps DEF Accounts, Told
<1>8. ASSUME NEW u \in Uids, u \in hit PROVE ToldAt(u)'
  <2>1. CASE fails \/ (LastSaid(u) # None /\ ~WillAsk(s, u))
    BY <1>1, <1>8, <2>1 DEF ToldAt
  <2>2. CASE ~fails /\ WillAsk(s, u)
    BY <1>3, <2>2, OnlyKeeps DEF ToldAt
  <2>3. CASE ~fails /\ LastSaid(u) = None
    <3>1. Says(u, None)'
      BY <1>0, <1>4, <1>6, <2>3, LastSays
    <3>2. SoftDeleteByParent(hit)
      BY <1>1, <2>3
    <3>3. LiveOf(u)' = {}
      BY <1>0, <1>8, <3>2, HiddenStep DEF LiveOf
    <3>4. Desired(rows', u) = None
      BY <3>3, NoneDesired DEF LiveOf
    <3> QED
      BY <3>1, <3>4 DEF ToldAt
  <2> QED
    BY <2>1, <2>2, <2>3
<1>9. Indexed' /\ Apart'
  BY <1>1, <1>5, SameWorkKeeps DEF Accounts, Indexed, Apart
<1>10. Derived'
  BY <1>1, <1>5, SameWorkKeeps DEF Accounts, Derived, DerivedAt, SameWork
<1> QED
  BY <1>7, <1>8, <1>9, <1>10 DEF Accounts, Told

(* The startup pass queues its next task, or leaves the uid out of date. *)
LEMMA BootAccounts == ASSUME Basics, Accounts, BootIndex PROVE Accounts'
<1>0. TypeOK
  BY DEF Basics
<1> DEFINE t == Head(boot)
<1>1. /\ boot \in Seq(Task) /\ boot # <<>> /\ t \in Task /\ boot' = Tail(boot)
      /\ queue \in Seq(Task)
  BY <1>0, BootStep DEF TypeOK
<1>2. rows' = rows /\ calls' = calls /\ SameWork
  BY DEF BootIndex, store, derived, SameWork
<1>3. \/ queue' = Append(queue, t) /\ stale' = stale
      \/ queue' = queue /\ stale' = stale \cup {t.uid}
  BY DEF BootIndex
<1>4. stale \subseteq stale'
  BY <1>3
<1>5. ASSUME NEW u
      PROVE  /\ t.uid # u => (Asks(u, boot') <=> Asks(u, boot))
             /\ t.uid = u => Asks(u, boot)
             /\ \A x : Ends(u, boot, x) => Ends(u, boot', x)
             /\ \A x : Ends(u, boot, x) /\ t.uid = u /\ ~Asks(u, boot') => Shown(t.text) = x
  BY <1>1, AskPop
<1>6. ASSUME NEW u, t.uid # u
      PROVE  /\ Asks(u, queue') <=> Asks(u, queue)
             /\ \A x : Ends(u, queue, x) => Ends(u, queue', x)
  <2>1. /\ Asks(u, Append(queue, t)) <=> Asks(u, queue)
        /\ \A x : Ends(u, Append(queue, t), x) <=> Ends(u, queue, x)
    BY <1>1, <1>6, AskPush
  <2> QED
    BY <1>3, <2>1
<1>7. ASSUME NEW u, t.uid = u
      PROVE  u \in stale' \/ (Asks(u, queue') /\ Ends(u, queue', Shown(t.text)))
  <2>1. Asks(u, Append(queue, t)) /\ Ends(u, Append(queue, t), Shown(t.text))
    BY <1>1, <1>7, AskPush
  <2> QED
    BY <1>3, <1>7, <2>1
<1> HIDE DEF t
<1>8. ASSUME NEW u \in Uids PROVE ToldAt(u)'
  <2>1. ToldAt(u) /\ SameRows(u)
    BY <1>2, RowsOf DEF Accounts, Told
  <2>2. (Asking(u) => Asking(u)') /\ (Condemned(u) => Condemned(u)')
    BY <1>2 DEF Asking, Condemned, LiveOf
  <2>3. ASSUME NEW x, Says(u, x), u \notin stale' PROVE Says(u, x)'
    <3>1. Ends(u, boot', x)
      BY <1>5, <2>3 DEF Says
    <3>2. CASE t.uid = u
      <4>1. ~Asks(u, boot') => Shown(t.text) = x
        BY <1>5, <2>3, <3>2 DEF Says
      <4> QED
        BY <1>7, <2>3, <3>1, <3>2, <4>1 DEF Says
    <3>3. CASE t.uid # u
      <4>1. Heard(u)' = Heard(u)
        BY <1>2, <1>4, SameWorkKeeps
      <4> QED
        BY <1>5, <1>6, <2>3, <3>1, <3>3, <4>1 DEF Says
    <3> QED
      BY <3>2, <3>3
  <2> QED
    BY <1>4, <2>1, <2>2, <2>3, ToldKeeps
<1>9. Indexed' /\ Apart'
  BY <1>2, <1>4, SameWorkKeeps DEF Accounts, Indexed, Apart
<1>10. ASSUME NEW u \in Uids PROVE DerivedAt(u)'
  <2>1. DerivedAt(u) /\ skewed' = skewed /\ (Fits(u) => Fits(u)')
    BY <1>2, <1>4, SameWorkKeeps DEF Accounts, Derived, SameWork
  <2>2. CASE t.uid = u
    BY <1>7, <2>2 DEF DerivedAt
  <2>3. CASE t.uid # u
    BY <1>4, <1>5, <1>6, <2>1, <2>3 DEF DerivedAt
  <2> QED
    BY <2>2, <2>3
<1> QED
  BY <1>8, <1>9, <1>10 DEF Accounts, Told, Derived

(* A restart forgets what was under way, and asks for every live row. *)
LEMMA RestartAccounts == ASSUME Basics, Accounts, Restart PROVE Accounts'
<1>0. TypeOK
  BY DEF Basics
<1>1. /\ rows' = rows /\ index' = index /\ vectors' = vectors /\ cache' = vectors
      /\ queue' = <<>>
      /\ \A s \in Slots : calls'[s] = Idle
      /\ \A p \in Procs : jobs'[p] = Idle
      /\ stale' = {u \in Uids : LiveOf(u) = {} /\ (index[u] # None \/ vectors[u] # None)}
  BY DEF Restart, store
<1>2. \A u : ~Busy("worker", u)' /\ ~Busy("backfill", u)'
  BY <1>1 DEF Busy, Procs
<1>3. /\ \A k \in DOMAIN boot' : \E i \in Listed :
           boot'[k].uid = rows[i].uid /\ boot'[k].text = rows[i].text
      /\ \A i \in Listed : \E k \in DOMAIN boot' :
           boot'[k].uid = rows[i].uid /\ boot'[k].text = rows[i].text
  BY <1>0, RestartStep
<1>4. \A u : /\ \A i \in LiveOf(u) : i \in Listed /\ rows[i].uid = u
             /\ \A i \in Listed : rows[i].uid = u => i \in LiveOf(u)
  BY DEF Listed, LiveOf
<1>5. \A u : Asks(u, boot') <=> LiveOf(u) # {}
  BY <1>3, <1>4 DEF Asks
<1>6. \A u, x : ~Asks(u, queue') /\ Ends(u, queue', x)
  BY <1>1, NoTasks
<1>7. ASSUME NEW u \in Uids PROVE ToldAt(u)'
  <2>0. LiveOf(u)' = LiveOf(u)
    BY <1>1 DEF LiveOf
  <2>1. CASE u \in stale'
    BY <2>1 DEF ToldAt
  <2>2. CASE Doubled(u)
    BY <2>0, <2>2 DEF ToldAt, Doubled
  <2>3. CASE u \notin stale' /\ LiveOf(u) = {}
    <3>1. index[u] = None
      BY <1>1, <2>3
    <3>2. Desired(rows', u) = None
      BY <1>1, <2>3, NoneDesired DEF LiveOf
    <3>3. Ends(u, boot', None)
      BY <1>5, <2>3, NotAsked
    <3>4. Heard(u)' = None
      BY <1>1, <1>2, <3>1 DEF Heard
    <3> QED
      BY <1>6, <3>2, <3>3, <3>4 DEF ToldAt, Says
  <2>4. CASE ~Doubled(u) /\ LiveOf(u) # {}
    <3>1. PICK i \in LiveOf(u) : TRUE
      BY <2>4
    <3>2. LiveOf(u) = {i} /\ Desired(rows, u) = Shown(rows[i].text)
      BY <1>0, <2>4, OneDesired
    <3>3. ASSUME NEW k \in DOMAIN boot', boot'[k].uid = u PROVE boot'[k].text = rows[i].text
      <4>1. PICK j \in Listed : boot'[k].uid = rows[j].uid /\ boot'[k].text = rows[j].text
        BY <1>3
      <4>2. j = i
        BY <1>4, <3>2, <3>3, <4>1
      <4> QED
        BY <4>1, <4>2
    <3>4. Ends(u, boot', Desired(rows', u))
      BY <1>1, <3>2, <3>3 DEF Ends, LastOf
    <3> QED
      BY <1>5, <2>4, <3>4 DEF ToldAt, Says
  <2> QED
    BY <2>1, <2>2, <2>3, <2>4
<1>8. Indexed' /\ Apart'
  BY <1>2 DEF Indexed, IndexedAt, Apart, ApartAt, InWindow
<1>9. ASSUME NEW u \in Uids PROVE DerivedAt(u)'
  <2>1. CASE LiveOf(u) # {}
    BY <1>5, <2>1 DEF DerivedAt
  <2>2. CASE LiveOf(u) = {}
    BY <1>1, <1>2, <2>2 DEF DerivedAt, Fits
  <2> QED
    BY <2>1, <2>2
<1> QED
  BY <1>7, <1>8, <1>9 DEF Accounts, Told, Derived

(* At first nothing is stored and nothing is indexed. *)
LEMMA AccountsInit == ASSUME Init PROVE Accounts
<1>1. \A u : LiveOf(u) = {} /\ Desired(rows, u) = None
  BY NoneDesired DEF Init, LiveOf
<1>2. \A p \in Procs : \A u : ~Busy(p, u)
  BY DEF Init, Busy
<1>3. ASSUME NEW u \in Uids
      PROVE  index[u] = None /\ vectors[u] = None /\ cache[u] = None /\ Heard(u) = None
  BY <1>2 DEF Init, Heard, Procs
<1>4. ASSUME NEW u \in Uids PROVE Says(u, None)
  BY <1>3, NoTasks DEF Init, Says
<1>5. Told
  BY <1>1, <1>4 DEF Told, ToldAt
<1>6. Indexed /\ Apart
  BY <1>2 DEF Indexed, IndexedAt, Apart, ApartAt, InWindow, Procs
<1>7. Derived
  BY <1>2, <1>3 DEF Derived, DerivedAt, Fits, Procs
<1> QED
  BY <1>5, <1>6, <1>7 DEF Accounts

(* Every step keeps the account of the index and the vectors. *)
LEMMA AccountsStep == ASSUME Basics, Accounts, Next PROVE Accounts'
<1>1. CASE Device
  BY <1>1, DeviceAccounts, CopyAccounts, GroupAccounts, FrameAccounts DEF Device
<1>2. ASSUME NEW s \in Slots, NEW i \in DOMAIN rows, DeleteDigest(s, i) PROVE Accounts'
  BY <1>2, DeleteDigestAccounts
<1>3. ASSUME NEW s \in Slots, Handler(s) PROVE Accounts'
  BY <1>3, WriteAccounts, AnswerAccounts, HideAccounts, DeindexAccounts, CascadeAccounts,
     EndingAccounts DEF Handler
<1>4. ASSUME NEW c \in Conns, Socket(c) PROVE Accounts'
  BY <1>4, SocketAccounts
<1>5. CASE Worker
  BY <1>5, TakeAccounts, IndexPageAccounts, UnindexAccounts, PurgeAccounts, EvictAccounts DEF Worker
<1>6. ASSUME NEW p \in Procs, Embedder(p) PROVE Accounts'
  BY <1>6, ClearAccounts, ForgetAccounts, SaveAccounts, RememberAccounts DEF Embedder
<1>7. CASE Faults
  <2>1. ASSUME NEW s \in Slots, RequestFails(s) \/ Answer(s, TRUE) \/ Cascade(s, TRUE) \/ Entomb(s, TRUE)
        PROVE  Accounts'
    BY <2>1, AnswerAccounts, CascadeAccounts, EndingAccounts
  <2>2. ASSUME NEW c \in Conns, EmitFails(c) PROVE Accounts'
    BY <2>2, SocketAccounts
  <2>3. Sweep => Accounts'
    BY IdleAccounts DEF Sweep, store, account
  <2> QED
    BY <1>7, <2>1, <2>2, <2>3, FrameAccounts, StepFailsAccounts, BackfillAccounts, RestartAccounts
       DEF Faults
<1> QED
  BY <1>1, <1>2, <1>3, <1>4, <1>5, <1>6, <1>7, BootAccounts DEF Next

(* When all work for a uid is done, what is said, indexed and embedded is
   what the row asks for. *)
LEMMA AccountsTell == ASSUME Basics, Accounts PROVE SearchIsAccounted
<1> SUFFICES ASSUME NEW u \in Uids, ~Pending(u), ~Doubled(u), u \notin stale \cup skewed
             PROVE  /\ index[u] = Desired(rows, u)
                    /\ vectors[u] = Desired(rows, u)
                    /\ cache[u] = Desired(rows, u)
  BY DEF SearchIsAccounted
<1>1. ~Asks(u, queue) /\ ~Asks(u, boot) /\ ~Asking(u) /\ \A p \in Procs : ~Busy(p, u)
  BY DEF Pending, Asking
<1>2. ~Condemned(u)
  <2>1. SUFFICES ASSUME Condemned(u) PROVE FALSE
    OBVIOUS
  <2>2. PICK s \in Slots : Condemns(calls[s])
    BY <2>1 DEF Condemned
  <2>3. calls[s] \in GroupCall
    BY <2>2, Kinds DEF Condemns, Basics
  <2>4. At(s, "group", "cascade")
    BY <2>2, <2>3 DEF At, Condemns, GroupCall
  <2> QED
    BY <2>1, <2>4 DEF Pending, Condemned
<1>3. Says(u, Desired(rows, u))
  BY <1>1, <1>2 DEF Accounts, Told, ToldAt
<1>4. index[u] = Desired(rows, u)
  BY <1>1, <1>3 DEF Says, Heard, Procs
<1>5. Fits(u)
  BY <1>1 DEF Accounts, Derived, DerivedAt
<1>6. vectors[u] = index[u] /\ cache[u] = index[u]
  BY <1>1, <1>5 DEF Fits, Procs
<1> QED
  BY <1>4, <1>6

-----------------------------------------------------------------------------
(* The theorems. *)

(* The inductive invariant holds at first ... *)
LEMMA DigestsInvInit == ASSUME Init PROVE DigestsInv
BY BasicsInit, NoticesInit, AccountsInit DEF DigestsInv

(* ... after every step ... *)
LEMMA DigestsInvStep == ASSUME DigestsInv, Next PROVE DigestsInv'
BY BasicsStep, NoticesStep, AccountsStep DEF DigestsInv

(* ... and when nothing happens. *)
LEMMA DigestsInvStutters == ASSUME DigestsInv, UNCHANGED vars PROVE DigestsInv'
<1>1. Basics'
  BY DEF DigestsInv, vars, store, derived, socket, account, Basics, TypeOK, CallsFit, CallFits, OfDigest,
     CopiesFit, BootIsFirst, JobsFit
<1>2. Notices'
  BY DEF DigestsInv, vars, store, derived, socket, account, Notices, Deletions, Noticed, Acking,
     Owing, Telling, Tells, Carried, GivenUp
<1>3. Accounts'
  BY IdleAccounts DEF DigestsInv, vars, store, account
<1> QED
  BY <1>1, <1>2, <1>3 DEF DigestsInv

(* In every reachable state what the requests, the queue, the worker, the
   backfill and the drains carry accounts for what the index, the vectors
   and the device still lack. *)
THEOREM DigestsInvariant == Spec => []DigestsInv
<1>1. DigestsInv /\ [Next]_vars => DigestsInv'
  BY DigestsInvStep, DigestsInvStutters
<1> QED
  BY <1>1, DigestsInvInit, PTL DEF Spec

(* Every variable keeps its type; the queue keeps its size. *)
THEOREM DigestsTypeCorrect == Spec => []TypeOK
<1>1. DigestsInv => TypeOK
  BY DEF DigestsInv, Basics
<1> QED
  BY <1>1, DigestsInvariant, PTL

(* Whatever requests, worker, backfill, failures and restarts do to each
   other: once the work for a digest is done, the index, the vectors in the
   table and the vectors in memory hold its present text, or nothing when it
   is deleted, except where the code is known to lose a task or to let two
   requests or two embedders overtake each other. *)
THEOREM SearchIsAccountedHolds == Spec => []SearchIsAccounted
<1>1. DigestsInv => SearchIsAccounted
  BY AccountsTell DEF DigestsInv
<1> QED
  BY <1>1, DigestsInvariant, PTL

(* A digest deleted in the web page and still on the device has its notice
   on the way, or the notice was given up at one of the five known places. *)
THEOREM DeletesAreOwedHolds == Spec => []DeletesAreOwed
<1>1. DigestsInv => DeletesAreOwed
  BY NoticesTell DEF DigestsInv
<1> QED
  BY <1>1, DigestsInvariant, PTL
=============================================================================
