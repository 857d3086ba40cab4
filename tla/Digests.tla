------------------------------ MODULE Digests ------------------------------
(***************************************************************************)
(* The digests of a Supernote, from the device's requests and the web page *)
(* to what search and chat find, and back to the device.                   *)
(*                                                                         *)
(*   device --add, update, delete--> rows <--delete-- web page             *)
(*   handlers --index, deindex--> queue --worker--> index, vectors, cache  *)
(*   web page --tombstone--> tombs --heartbeat--> socket --> device        *)
(*                                                                         *)
(* Each SQL statement is one step: the database has one connection, and    *)
(* no handler of this component opens a transaction.  A handler writes its *)
(* row first and hands the text to the queue later, so two handlers may do *)
(* the two in different orders.  The vectors exist twice, in a table and   *)
(* in memory, and each writer changes the one and then the other.          *)
(*                                                                         *)
(* A digest's text stands for name, excerpt and comment; it is embedded in *)
(* one chunk.  Tags, handwriting blobs and paging are left out.            *)
(***************************************************************************)
EXTENDS Naturals, Sequences, FiniteSets

CONSTANTS
  Uids,       \* unique identifiers the device gives its digests
  Members,    \* those it files in the group with the uid "g"
  Texts,      \* texts of a digest
  Blank,      \* the text in which nothing can be searched
  Slots,      \* requests under way at the same time
  Conns,      \* socket connections of the device's user
  QueueSize,  \* tasks the index queue holds
  MaxRows,    \* bound: rows ever created
  MaxCalls,   \* bound: requests of the device and the web page
  MaxFaults   \* bound: failures, losses, restarts, sweeps, backfills

ASSUME DigestAssumption ==
  /\ Members \subseteq Uids
  /\ Blank \in Texts
  /\ QueueSize \in Nat \ {0}
  /\ MaxRows \in Nat /\ MaxCalls \in Nat /\ MaxFaults \in Nat

Ids    == 1..MaxRows
None   == "none"     \* no index entry, no vector
NoCopy == [text |-> None, id |-> 0]
Idle   == [stage |-> "idle"]
GroupUids == {"g", "renamed"}
Said   == Texts \cup {None}

VARIABLES
  rows,       \* the digests table: row i is [uid, text, live]
  group,      \* the uid of the group's live row, or None
  calls,      \* slot -> the request between two of its statements
  copies,     \* uid -> the device's copy and the id it knows for it
  queue,      \* tasks for the index worker; text None asks for removal
  jobs,       \* what the worker and an embedding backfill are doing
  boot,       \* tasks that the startup pass still has to queue
  index,      \* uid -> text in the full-text index
  vectors,    \* uid -> text whose embedding is in the table
  cache,      \* uid -> text whose embedding is in memory
  tombs,      \* id -> "no", "queued" or "sent": the tombstone's row
  drains,     \* connection -> a heartbeat's drain under way
  frames,     \* sets of ids written to a socket and not yet arrived
  called,     \* requests so far
  faults,     \* faults so far
  stale,      \* uids whose index entry or vectors may stay out of date
  skewed,     \* uids written by two embedders at once
  webDeleted, \* ids deleted in the web page
  forgotten   \* <<id, cause>>: the device may never hear of the deletion

store   == <<rows, group>>
derived == <<index, vectors, cache>>
socket  == <<tombs, drains, frames>>
account == <<stale, skewed, webDeleted, forgotten>>
vars    == <<store, calls, copies, queue, jobs, boot, derived, socket,
             called, faults, account>>

-----------------------------------------------------------------------------
(* Types and the initial state.                                            *)

Procs  == {"worker", "backfill"}
Task   == [uid : Uids, text : Said]
Row    == [uid : Uids, text : Texts, live : BOOLEAN]
Copy   == [text : Said, id : 0..MaxRows]
Call   == [kind : {"add", "update", "delete", "web"},
           stage : {"write", "index", "tell"},
           uid : Uids, id : 0..MaxRows, text : Said]
GroupCall == [kind : {"group"}, stage : {"cascade", "drop"}, parent : GroupUids]
Job    == [stage : {"index", "clear", "forget", "save", "remember",
                    "unindex", "purge", "evict"},
           uid : Uids, text : Said]
Drain  == [stage : {"mark", "emit", "ack"}, ids : SUBSET Ids]
Causes == {"marked", "unqueued", "lost", "swept", "late"}

TypeOK ==
  /\ rows \in Seq(Row) /\ Len(rows) <= MaxRows
  /\ group \in GroupUids \cup {None}
  /\ calls \in [Slots -> Call \cup GroupCall \cup {Idle}]
  /\ copies \in [Uids -> Copy]
  /\ queue \in Seq(Task) /\ Len(queue) <= QueueSize
  /\ jobs \in [Procs -> Job \cup {Idle}]
  /\ boot \in Seq(Task)
  /\ {index, vectors, cache} \subseteq [Uids -> Said]
  /\ tombs \in [Ids -> {"no", "queued", "sent"}]
  /\ drains \in [Conns -> Drain \cup {Idle}]
  /\ frames \subseteq SUBSET Ids
  /\ called \in 0..MaxCalls /\ faults \in 0..MaxFaults
  /\ {stale, skewed} \subseteq SUBSET Uids
  /\ webDeleted \subseteq Ids
  /\ forgotten \subseteq Ids \X Causes

Init ==
  /\ rows = <<>> /\ group = None
  /\ calls = [s \in Slots |-> Idle]
  /\ copies \in [Uids -> {[text |-> t, id |-> 0] : t \in Texts \ {Blank}}]
  /\ queue = <<>> /\ boot = <<>>
  /\ jobs = [p \in Procs |-> Idle]
  /\ index = [u \in Uids |-> None]
  /\ vectors = [u \in Uids |-> None]
  /\ cache = [u \in Uids |-> None]
  /\ tombs = [i \in Ids |-> "no"]
  /\ drains = [c \in Conns |-> Idle]
  /\ frames = {}
  /\ called = 0 /\ faults = 0
  /\ stale = {} /\ skewed = {} /\ webDeleted = {} /\ forgotten = {}

-----------------------------------------------------------------------------
(* The digests table.                                                      *)

Live(i) == i \in DOMAIN rows /\ rows[i].live
LiveOf(u) == {i \in DOMAIN rows : rows[i].uid = u /\ rows[i].live}

\* GetByUniqueIdentifier: the first live row of the uid, 0 without one.
Found(u) ==
  IF LiveOf(u) = {} THEN 0
  ELSE CHOOSE i \in LiveOf(u) : \A j \in LiveOf(u) : i <= j

Create(u, t) ==
  /\ Len(rows) < MaxRows
  /\ rows' = Append(rows, [uid |-> u, text |-> t, live |-> TRUE])

\* Update: WHERE is_deleted = 'N'.
Update(i, t) == rows' = [rows EXCEPT ![i].text = t]

SoftDelete(i) == rows' = [rows EXCEPT ![i].live = FALSE]

\* SoftDeleteByParent of the group.
SoftDeleteByParent(members) ==
  rows' = [i \in DOMAIN rows |->
             IF rows[i].uid \in members THEN [rows[i] EXCEPT !.live = FALSE]
             ELSE rows[i]]

\* What the index should hold for a uid in a table, as the worker would
\* write it: a digest without searchable text has no entry.
Shown(t) == IF t = Blank THEN None ELSE t
Wanted(table, u) ==
  {Shown(table[i].text) : i \in {j \in DOMAIN table : table[j].uid = u /\ table[j].live}}
Desired(table, u) ==
  IF Wanted(table, u) = {} THEN None
  ELSE CHOOSE t \in Wanted(table, u) : TRUE

-----------------------------------------------------------------------------
(* The index queue.                                                        *)

Asks(u, q) == \E k \in DOMAIN q : q[k].uid = u
Busy(p, u) == jobs[p] # Idle /\ jobs[p].uid = u

\* The last thing said about a uid: in the queue, to the worker, or in the
\* index.
LastSaid(u) ==
  IF Asks(u, queue)
  THEN Shown(queue[CHOOSE k \in DOMAIN queue :
               /\ queue[k].uid = u
               /\ \A l \in DOMAIN queue : queue[l].uid = u => l <= k].text)
  ELSE IF Busy("worker", u) THEN Shown(jobs["worker"].text)
  ELSE index[u]

\* Another request has written a row of the uid and will still queue it.
WillAsk(s, u) ==
  \E r \in Slots \ {s} :
    /\ calls[r].stage = "index"
    /\ calls[r].uid = u

\* enqueue: a full queue drops the task.  What is dropped, or is older than
\* the row while nobody is going to queue the newer text, is out of date.
Enqueue(s, u, t) ==
  /\ queue' = IF Len(queue) < QueueSize THEN Append(queue, [uid |-> u, text |-> t])
              ELSE queue
  /\ stale' = IF \/ Len(queue) >= QueueSize
                 \/ ~WillAsk(s, u) /\ Shown(t) # Desired(rows, u)
              THEN stale \cup {u} ELSE stale

-----------------------------------------------------------------------------
(* Requests of the device.  All of them wait for the startup pass.         *)

Serving == boot = <<>>
Begin(s, call) ==
  /\ Serving
  /\ calls[s] = Idle /\ called < MaxCalls
  /\ called' = called + 1
  /\ calls' = [calls EXCEPT ![s] = call]
At(s, kind, stage) == calls[s].stage = stage /\ calls[s].kind = kind
End(s) == calls' = [calls EXCEPT ![s] = Idle]
GoOn(s, stage) == calls' = [calls EXCEPT ![s].stage = stage]
Fault == faults < MaxFaults /\ faults' = faults + 1

\* The user makes a digest on the device.
Draw(u, t) ==
  /\ copies[u] = NoCopy
  /\ called < MaxCalls /\ called' = called + 1
  /\ copies' = [copies EXCEPT ![u] = [text |-> t, id |-> 0]]
  /\ UNCHANGED <<store, calls, queue, jobs, boot, derived, socket, faults, account>>

\* AddSummary: the first push, a push whose answer was lost, or the push of
\* a digest that the list of the server no longer has.
AddSummary(s, u) ==
  /\ copies[u] # NoCopy
  /\ Begin(s, [kind |-> "add", stage |-> "write", uid |-> u,
               id |-> Found(u), text |-> copies[u].text])
  /\ UNCHANGED <<store, copies, queue, jobs, boot, derived, socket, faults, account>>

\* The device walks the list of hashes, by which it learns the ids of its
\* own digests, and fetches those it has not.
Listed == {i \in DOMAIN rows : rows[i].live}
Pull(u) ==
  \E i \in Listed :
    /\ Serving
    /\ rows[i].uid = u /\ copies[u].id # i
    /\ copies' = [copies EXCEPT ![u] =
                    [text |-> IF @ = NoCopy THEN rows[i].text ELSE @.text, id |-> i]]
    /\ UNCHANGED <<store, calls, queue, jobs, boot, derived, socket, called, faults, account>>

\* UpdateSummary of a live id.  An unknown id is answered OK and nothing is
\* written, which only changes the device's copy.
UpdateSummary(s, u, t) ==
  LET i == copies[u].id IN
  /\ i # 0 /\ t # copies[u].text
  /\ copies' = [copies EXCEPT ![u].text = t]
  /\ IF Live(i)
     THEN Begin(s, [kind |-> "update", stage |-> "write", uid |-> rows[i].uid,
                    id |-> i, text |-> t])
     ELSE /\ Serving /\ called < MaxCalls /\ called' = called + 1
          /\ UNCHANGED calls
  /\ UNCHANGED <<store, queue, jobs, boot, derived, socket, faults, account>>

\* The write of an add or an update: an insert, or an update that finds
\* nothing when the row has been deleted since it was read.
Write(s) ==
  /\ At(s, "add", "write") \/ At(s, "update", "write")
  /\ LET c == calls[s] IN
     IF c.id = 0
     THEN /\ Create(c.uid, c.text)
          /\ calls' = [calls EXCEPT ![s].stage = "index", ![s].id = Len(rows) + 1]
     ELSE IF Live(c.id)
     THEN Update(c.id, c.text) /\ GoOn(s, "index")
     ELSE End(s) /\ UNCHANGED rows
  /\ UNCHANGED <<group, copies, queue, jobs, boot, derived, socket, called, faults, account>>

\* The row is queued for the index and the device is answered with its id.
\* The answer may be lost; it may also reach the device after the
\* tombstone of the same id.
Answer(s, lost) ==
  /\ At(s, "add", "index") \/ At(s, "update", "index")
  /\ LET c == calls[s] IN
     /\ Enqueue(s, c.uid, c.text)
     /\ IF lost \/ c.kind = "update" \/ copies[c.uid] = NoCopy
        THEN UNCHANGED <<copies, forgotten>>
        ELSE /\ copies' = [copies EXCEPT ![c.uid].id = c.id]
             /\ forgotten' = IF c.id \in webDeleted THEN forgotten \cup {<<c.id, "late">>}
                             ELSE forgotten
  /\ End(s)
  /\ IF lost THEN Fault ELSE UNCHANGED faults
  /\ UNCHANGED <<store, jobs, boot, derived, socket, called, skewed, webDeleted>>

\* DeleteSummary: the user deletes the digest on the device.  The uid is
\* read before the row is hidden.
DeleteSummary(s, u) ==
  LET i == copies[u].id IN
  /\ i # 0
  /\ copies' = [copies EXCEPT ![u] = NoCopy]
  /\ IF Live(i)
     THEN Begin(s, [kind |-> "delete", stage |-> "write", uid |-> rows[i].uid,
                    id |-> i, text |-> None])
     ELSE /\ Serving /\ called < MaxCalls /\ called' = called + 1
          /\ UNCHANGED calls
  /\ UNCHANGED <<store, queue, jobs, boot, derived, socket, faults, account>>

\* The device's delete goes on to the index whether or not the row was
\* still live; the web page's ends with an error when it was not.
Hide(s) ==
  /\ At(s, "delete", "write") \/ At(s, "web", "write")
  /\ LET c == calls[s] IN
     /\ IF Live(c.id) THEN SoftDelete(c.id) ELSE UNCHANGED rows
     /\ IF Live(c.id) \/ c.kind = "delete" THEN GoOn(s, "index") ELSE End(s)
     /\ webDeleted' = IF Live(c.id) /\ c.kind = "web" THEN webDeleted \cup {c.id}
                      ELSE webDeleted
  /\ UNCHANGED <<group, copies, queue, jobs, boot, derived, socket, called, faults,
                 stale, skewed, forgotten>>

Deindex(s) ==
  /\ At(s, "delete", "index") \/ At(s, "web", "index")
  /\ Enqueue(s, calls[s].uid, None)
  /\ IF calls[s].kind = "web" THEN GoOn(s, "tell") ELSE End(s)
  /\ UNCHANGED <<store, copies, jobs, boot, derived, socket, called, faults,
                 skewed, webDeleted, forgotten>>

\* A statement of a request fails: its handler ends with an error.
RequestFails(s) ==
  /\ Fault
  /\ calls[s].stage = "write"
  /\ End(s)
  /\ UNCHANGED <<store, copies, queue, jobs, boot, derived, socket, called, account>>

-----------------------------------------------------------------------------
(* The group.                                                              *)

\* AddSummaryGroup: an upsert by the group's uid.
AddSummaryGroup ==
  /\ Serving /\ group = None
  /\ called < MaxCalls /\ called' = called + 1
  /\ group' = "g"
  /\ UNCHANGED <<rows, calls, copies, queue, jobs, boot, derived, socket, faults, account>>

\* UpdateSummaryGroup may give the group another uid.  Its members keep the
\* old one.
UpdateSummaryGroup(g) ==
  /\ Serving /\ group \notin {None, g}
  /\ called < MaxCalls /\ called' = called + 1
  /\ group' = g
  /\ UNCHANGED <<rows, calls, copies, queue, jobs, boot, derived, socket, faults, account>>

MembersOf(g) == IF g = "g" THEN Members ELSE {}

\* DeleteSummaryGroup: the members of the moment are queued for removal one
\* after the other (a full queue drops them) ...
DeleteSummaryGroup(s) ==
  LET gone == {u \in MembersOf(group) : LiveOf(u) # {}}
      room == {k \in 1..Cardinality(gone) : k + Len(queue) <= QueueSize}
  IN
  /\ group # None
  /\ Begin(s, [kind |-> "group", stage |-> "cascade", parent |-> group])
  /\ \E order \in [1..Cardinality(gone) -> gone] :
       /\ \A u \in gone : \E k \in DOMAIN order : order[k] = u
       /\ queue' = queue \o [k \in room |-> [uid |-> order[k], text |-> None]]
       /\ stale' = stale \cup {order[k] : k \in (DOMAIN order) \ room}
  /\ UNCHANGED <<store, copies, jobs, boot, derived, socket, faults,
                 skewed, webDeleted, forgotten>>

\* ... then all members are hidden, those that came in between too.  A
\* failure here is logged: the members stay, without their index entries.
Cascade(s, fails) ==
  LET hit == {u \in MembersOf(calls[s].parent) : LiveOf(u) # {}} IN
  /\ At(s, "group", "cascade")
  /\ IF fails THEN Fault /\ UNCHANGED rows ELSE SoftDeleteByParent(hit) /\ UNCHANGED faults
  /\ GoOn(s, "drop")
  /\ stale' = stale \cup
       {u \in hit : fails \/ (LastSaid(u) # None /\ ~WillAsk(s, u))}
  /\ UNCHANGED <<group, copies, queue, jobs, boot, derived, socket, called,
                 skewed, webDeleted, forgotten>>

DropGroup(s) ==
  /\ At(s, "group", "drop")
  /\ group' = None
  /\ End(s)
  /\ UNCHANGED <<rows, copies, queue, jobs, boot, derived, socket, called, faults, account>>

-----------------------------------------------------------------------------
(* The web page's delete, and the tombstones.                              *)

DeleteDigest(s, i) ==
  /\ Live(i)
  /\ Begin(s, [kind |-> "web", stage |-> "write", uid |-> rows[i].uid,
               id |-> i, text |-> None])
  /\ UNCHANGED <<store, copies, queue, jobs, boot, derived, socket, faults, account>>

\* Enqueue of the tombstone, whose failure is logged.
Entomb(s, fails) ==
  /\ At(s, "web", "tell")
  /\ LET i == calls[s].id IN
     IF fails
     THEN /\ Fault
          /\ forgotten' = forgotten \cup {<<i, "unqueued">>}
          /\ UNCHANGED tombs
     ELSE /\ tombs' = [tombs EXCEPT ![i] = IF @ = "no" THEN "queued" ELSE @]
          /\ UNCHANGED <<faults, forgotten>>
  /\ End(s)
  /\ UNCHANGED <<store, copies, queue, jobs, boot, derived, drains, frames, called,
                 stale, skewed, webDeleted>>

Entombed == {i \in Ids : tombs[i] # "no"}
GoDrain(c, stage) == drains' = [drains EXCEPT ![c].stage = stage]
EndDrain(c) == drains' = [drains EXCEPT ![c] = Idle]

\* As Ping, reading only what has not been sent.
PingUnsent(c) ==
  LET unsent == {i \in Ids : tombs[i] = "queued"} IN
  /\ Serving
  /\ drains[c] = Idle /\ unsent # {}
  /\ drains' = [drains EXCEPT ![c] = [stage |-> "mark", ids |-> unsent]]
  /\ UNCHANGED <<store, calls, copies, queue, jobs, boot, derived, tombs, frames,
                 called, faults, account>>

\* A heartbeat: Pending reads the user's tombstones ...
Ping(c) ==
  /\ Serving
  /\ drains[c] = Idle /\ Entombed # {}
  /\ drains' = [drains EXCEPT ![c] = [stage |-> "mark", ids |-> Entombed]]
  /\ UNCHANGED <<store, calls, copies, queue, jobs, boot, derived, tombs, frames,
                 called, faults, account>>

\* ... and then marks as sent every one that is not, read or not.
MarkSent(c) ==
  /\ drains[c].stage = "mark"
  /\ tombs' = [i \in Ids |-> IF tombs[i] = "queued" THEN "sent" ELSE tombs[i]]
  /\ GoDrain(c, "emit")
  /\ UNCHANGED <<store, calls, copies, queue, jobs, boot, derived, frames,
                 called, faults, account>>

\* The frame is written to the socket.
Emit(c) ==
  /\ drains[c].stage = "emit"
  /\ frames' = frames \cup {drains[c].ids}
  /\ GoDrain(c, "ack")
  /\ UNCHANGED <<store, calls, copies, queue, jobs, boot, derived, tombs,
                 called, faults, account>>

\* As EmitFails, with the tombstones acknowledged whatever the write returns.
EmitFailsAcked(c) ==
  /\ Fault
  /\ drains[c].stage \in {"mark", "emit"}
  /\ tombs' = [i \in Ids |-> IF tombs[i] = "sent" THEN "no" ELSE tombs[i]]
  /\ EndDrain(c)
  /\ UNCHANGED <<store, calls, copies, queue, jobs, boot, derived, frames,
                 called, account>>

\* The connection breaks before that: the tombstones stay.
EmitFails(c) ==
  /\ Fault
  /\ drains[c].stage \in {"mark", "emit"}
  /\ EndDrain(c)
  /\ UNCHANGED <<store, calls, copies, queue, jobs, boot, derived, tombs, frames,
                 called, account>>

\* AckDigest deletes what is marked as sent.  A tombstone that no frame has
\* carried may be among them.
Acked == {i \in Ids : tombs[i] = "sent"}
Carried(i) == \E ids \in frames : i \in ids
Ack(c) ==
  /\ drains[c].stage = "ack"
  /\ tombs' = [i \in Ids |-> IF tombs[i] = "sent" THEN "no" ELSE tombs[i]]
  /\ forgotten' = forgotten \cup
       {<<i, "marked">> : i \in {j \in Acked : j \notin drains[c].ids}}
  /\ EndDrain(c)
  /\ UNCHANGED <<store, calls, copies, queue, jobs, boot, derived, frames,
                 called, faults, stale, skewed, webDeleted>>

\* The device drops its copy, known by its id, or the frame is lost on the
\* way.
Deliver(ids) ==
  /\ ids \in frames
  /\ frames' = frames \ {ids}
  /\ copies' = [u \in Uids |-> IF copies[u].id \in ids THEN NoCopy ELSE copies[u]]
  /\ UNCHANGED <<store, calls, queue, jobs, boot, derived, tombs, drains,
                 called, faults, account>>

LoseFrame(ids) ==
  /\ Fault
  /\ ids \in frames
  /\ frames' = frames \ {ids}
  /\ forgotten' = forgotten \cup {<<i, "lost">> : i \in ids}
  /\ UNCHANGED <<store, calls, copies, queue, jobs, boot, derived, tombs, drains,
                 called, stale, skewed, webDeleted>>

\* The TTL sweep, for a device that has been away for a month.
Sweep ==
  /\ Fault
  /\ Entombed # {}
  /\ tombs' = [i \in Ids |-> "no"]
  /\ forgotten' = forgotten \cup {<<i, "swept">> : i \in Entombed}
  /\ UNCHANGED <<store, calls, copies, queue, jobs, boot, derived, drains, frames,
                 called, stale, skewed, webDeleted>>

-----------------------------------------------------------------------------
(* The index worker, and a backfill of missing embeddings beside it.       *)

Doing(p, stage) == jobs[p].stage = stage
GoTo(p, stage) == jobs' = [jobs EXCEPT ![p].stage = stage]
Done(p) == jobs' = [jobs EXCEPT ![p] = Idle]
Other(p) == CHOOSE q \in Procs : q # p

\* Between its write to the table and its write to memory.
InWindow(p, u) == Busy(p, u) /\ jobs[p].stage \in {"forget", "remember", "evict"}
Touch(p, u) ==
  skewed' = IF InWindow(Other(p), u) THEN skewed \cup {u} ELSE skewed

Take ==
  /\ jobs["worker"] = Idle /\ queue # <<>>
  /\ LET t == Head(queue) IN
     jobs' = [jobs EXCEPT !["worker"] =
                [stage |-> IF Shown(t.text) = None THEN "unindex" ELSE "index",
                 uid |-> t.uid, text |-> t.text]]
  /\ queue' = Tail(queue)
  /\ UNCHANGED <<store, calls, copies, boot, derived, socket, called, faults, account>>

IndexPage ==
  /\ Doing("worker", "index")
  /\ index' = [index EXCEPT ![jobs["worker"].uid] = jobs["worker"].text]
  /\ GoTo("worker", "clear")
  /\ UNCHANGED <<store, calls, copies, queue, boot, vectors, cache, socket,
                 called, faults, account>>

\* drop: the index entry, the vectors in the table, the vectors in memory.
Unindex ==
  /\ Doing("worker", "unindex")
  /\ index' = [index EXCEPT ![jobs["worker"].uid] = None]
  /\ GoTo("worker", "purge")
  /\ UNCHANGED <<store, calls, copies, queue, boot, vectors, cache, socket,
                 called, faults, account>>

Purge ==
  /\ Doing("worker", "purge")
  /\ LET u == jobs["worker"].uid IN
     vectors' = [vectors EXCEPT ![u] = None] /\ Touch("worker", u)
  /\ GoTo("worker", "evict")
  /\ UNCHANGED <<store, calls, copies, queue, boot, index, cache, socket,
                 called, faults, stale, webDeleted, forgotten>>

EvictNothing ==
  /\ Doing("worker", "evict")
  /\ Done("worker")
  /\ UNCHANGED <<store, calls, copies, queue, boot, derived, socket,
                 called, faults, account>>

Evict ==
  /\ Doing("worker", "evict")
  /\ cache' = [cache EXCEPT ![jobs["worker"].uid] = None]
  /\ Done("worker")
  /\ UNCHANGED <<store, calls, copies, queue, boot, index, vectors, socket,
                 called, faults, account>>

\* EmbedAndStorePage of either process: when the model has answered, the
\* page's old vectors go, first from the table and then from memory, and the
\* new one comes, in the same order.
Clear(p) ==
  /\ Doing(p, "clear")
  /\ LET u == jobs[p].uid IN
     vectors' = [vectors EXCEPT ![u] = None] /\ Touch(p, u)
  /\ GoTo(p, "forget")
  /\ UNCHANGED <<store, calls, copies, queue, boot, index, cache, socket,
                 called, faults, stale, webDeleted, forgotten>>

Forget(p) ==
  /\ Doing(p, "forget")
  /\ cache' = [cache EXCEPT ![jobs[p].uid] = None]
  /\ GoTo(p, "save")
  /\ UNCHANGED <<store, calls, copies, queue, boot, index, vectors, socket,
                 called, faults, account>>

\* The worker is going to write or remove the vectors of a uid itself.
WillRewrite(u) ==
  \/ Asks(u, queue)
  \/ Busy("worker", u) /\ jobs["worker"].stage \notin {"remember", "evict"}

\* A backfill may save the vector of a text that the index no longer has.
Save(p) ==
  /\ Doing(p, "save")
  /\ LET u == jobs[p].uid IN
     /\ vectors' = [vectors EXCEPT ![u] = jobs[p].text]
     /\ Touch(p, u)
     /\ stale' = IF p = "backfill" /\ jobs[p].text # index[u] /\ ~WillRewrite(u)
                 THEN stale \cup {u} ELSE stale
  /\ GoTo(p, "remember")
  /\ UNCHANGED <<store, calls, copies, queue, boot, index, cache, socket,
                 called, faults, webDeleted, forgotten>>

Remember(p) ==
  /\ Doing(p, "remember")
  /\ cache' = [cache EXCEPT ![jobs[p].uid] = jobs[p].text]
  /\ Done(p)
  /\ UNCHANGED <<store, calls, copies, queue, boot, index, vectors, socket,
                 called, faults, account>>

\* A failure is logged and the next step is taken; when the model does not
\* answer, the old vectors stay.
StepFails(p) ==
  LET after == [index |-> {"clear"}, unindex |-> {"purge"}, purge |-> {"idle"},
                clear |-> {"idle", "save"}, save |-> {"idle"}]
  IN
  /\ Fault
  /\ jobs[p].stage \in DOMAIN after
  /\ \E next \in after[jobs[p].stage] : IF next = "idle" THEN Done(p) ELSE GoTo(p, next)
  /\ stale' = stale \cup {jobs[p].uid}
  /\ UNCHANGED <<store, calls, copies, queue, boot, derived, socket, called,
                 skewed, webDeleted, forgotten>>

\* UnembeddedPages: text in the index and no vector in the table.
Unembedded(u) == index[u] # None /\ vectors[u] = None

\* TriggerBackfill in the web page reads the texts now and embeds them later.
Backfill(u) ==
  /\ Fault /\ Serving
  /\ jobs["backfill"] = Idle
  /\ Unembedded(u)
  /\ jobs' = [jobs EXCEPT !["backfill"] = [stage |-> "clear", uid |-> u, text |-> index[u]]]
  /\ UNCHANGED <<store, calls, copies, queue, boot, derived, socket, called, account>>

-----------------------------------------------------------------------------
(* A restart: queue, requests and connections are gone; memory is loaded    *)
(* from the table; the startup pass queues every live digest, before the    *)
(* server listens.  It heals what was lost of a live digest, and nothing of *)
(* a deleted one.                                                          *)

Restart ==
  /\ Fault
  /\ calls' = [s \in Slots |-> Idle]
  /\ queue' = <<>>
  /\ jobs' = [p \in Procs |-> Idle]
  /\ drains' = [c \in Conns |-> Idle]
  /\ cache' = vectors
  /\ \E order \in [1..Cardinality(Listed) -> Listed] :
       /\ \A k, l \in DOMAIN order : k < l => order[k] < order[l]
       /\ boot' = [k \in DOMAIN order |->
                     [uid |-> rows[order[k]].uid, text |-> rows[order[k]].text]]
  /\ stale' = {u \in Uids : LiveOf(u) = {} /\ (index[u] # None \/ vectors[u] # None)}
  /\ skewed' = {}
  /\ forgotten' = forgotten \cup
       {<<calls[s].id, "unqueued">> :
          s \in {r \in Slots : calls[r].stage \in {"index", "tell"} /\ calls[r].kind = "web"}}
  /\ UNCHANGED <<store, copies, index, vectors, tombs, frames, called, webDeleted>>

BootIndex ==
  /\ boot # <<>>
  /\ LET t == Head(boot) IN
     IF Len(queue) < QueueSize
     THEN queue' = Append(queue, t) /\ UNCHANGED stale
     ELSE stale' = stale \cup {t.uid} /\ UNCHANGED queue
  /\ boot' = Tail(boot)
  /\ UNCHANGED <<store, calls, copies, jobs, derived, socket, called, faults,
                 skewed, webDeleted, forgotten>>

-----------------------------------------------------------------------------
Device ==
  \/ \E u \in Uids, t \in Texts : Draw(u, t)
  \/ \E s \in Slots, u \in Uids : AddSummary(s, u) \/ DeleteSummary(s, u)
  \/ \E s \in Slots, u \in Uids, t \in Texts : UpdateSummary(s, u, t)
  \/ \E u \in Uids : Pull(u)
  \/ AddSummaryGroup
  \/ \E g \in GroupUids : UpdateSummaryGroup(g)
  \/ \E s \in Slots : DeleteSummaryGroup(s)
  \/ \E ids \in frames : Deliver(ids)

Handler(s) ==
  \/ Write(s)
  \/ Answer(s, FALSE)
  \/ Hide(s)
  \/ Deindex(s)
  \/ Cascade(s, FALSE)
  \/ DropGroup(s)
  \/ Entomb(s, FALSE)

Socket(c) == Ping(c) \/ MarkSent(c) \/ Emit(c) \/ Ack(c)

Worker == Take \/ IndexPage \/ Unindex \/ Purge \/ Evict
Embedder(p) == Clear(p) \/ Forget(p) \/ Save(p) \/ Remember(p)

Faults ==
  \/ \E s \in Slots : RequestFails(s) \/ Answer(s, TRUE) \/ Cascade(s, TRUE) \/ Entomb(s, TRUE)
  \/ \E c \in Conns : EmitFails(c)
  \/ \E ids \in frames : LoseFrame(ids)
  \/ \E p \in Procs : StepFails(p)
  \/ \E u \in Uids : Backfill(u)
  \/ Sweep
  \/ Restart

Next ==
  \/ Device
  \/ \E s \in Slots, i \in DOMAIN rows : DeleteDigest(s, i)
  \/ \E s \in Slots : Handler(s)
  \/ \E c \in Conns : Socket(c)
  \/ Worker
  \/ \E p \in Procs : Embedder(p)
  \/ BootIndex
  \/ Faults

Spec == Init /\ [][Next]_vars

\* Handlers and the startup pass run to their end, and the device sends its
\* heartbeat and takes what arrives.  Nothing is asked of the index worker.
Fairness ==
  /\ \A s \in Slots : WF_vars(Handler(s))
  /\ \A c \in Conns : WF_vars(Socket(c))
  /\ WF_vars(\E ids \in frames : Deliver(ids))
  /\ WF_vars(BootIndex)

FairSpec == Spec /\ Fairness

-----------------------------------------------------------------------------
(* Properties.                                                             *)

\* Work for a uid is still to be done.
Pending(u) ==
  \/ Asks(u, queue) \/ Asks(u, boot)
  \/ \E p \in Procs : Busy(p, u)
  \/ \E s \in Slots : calls[s].stage = "index" /\ calls[s].uid = u
  \/ u \in Members /\ \E s \in Slots : At(s, "group", "cascade")

Doubled(u) == Cardinality(LiveOf(u)) > 1

\* Search and chat find the present text of every digest and no deleted
\* digest, by keyword (index) and by similarity (the vectors in memory, and
\* in the table from which a restart loads them), once the queue is done
\* with it; excepted are the losses that the code accepts
\* (a full queue, a failed write, requests that overtake each other between
\* row and queue, two embedders at once) and digests stored twice.
SearchIsAccounted ==
  \A u \in Uids :
    Pending(u) \/ Doubled(u) \/ u \in stale \cup skewed
    \/ /\ index[u] = Desired(rows, u)
       /\ vectors[u] = Desired(rows, u)
       /\ cache[u] = Desired(rows, u)

\* The device's copy of a digest deleted in the web page is owed a notice:
\* it is being queued, queued, drained or on its way, unless it was given up
\* at a known place.
GivenUp(i) == \E cause \in Causes : <<i, cause>> \in forgotten
Owed(i) ==
  \/ tombs[i] # "no"
  \/ Carried(i)
  \/ \E c \in Conns : drains[c].stage = "emit" /\ i \in drains[c].ids
  \/ \E s \in Slots : calls[s].stage \in {"index", "tell"} /\ calls[s].id = i
  \/ GivenUp(i)
DeletesAreOwed ==
  \A u \in Uids : copies[u].id \in webDeleted => Owed(copies[u].id)

\* A digest deleted in the web page leaves the device, unless its notice was
\* given up.
DeletesReach ==
  \A u \in Uids, i \in Ids :
    (copies[u].id = i /\ i \in webDeleted) ~> (copies[u].id # i \/ GivenUp(i))
=============================================================================
