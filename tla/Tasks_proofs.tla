----------------------------- MODULE Tasks_proofs -----------------------------
(***************************************************************************)
(* What holds of the task table for any number of tasks, clients and       *)
(* requests: deletes are final, purges are late, and the device is told    *)
(* the truth except where the model records that it is not; what its walk  *)
(* through the pages passes over was moved under it.                       *)
(***************************************************************************)
EXTENDS Tasks, FiniteSetTheorems, WellFoundedInduction, TLAPS

Rows == [title : Titles, status : Statuses, modified : Times, deleted : BOOLEAN]

(* What a client may send: a VTODO may come without a STATUS. *)
Inputs == [title : Titles, status : Statuses \cup {None}]

(* The parts of the state that statements are made from. *)
Typed ==
    /\ tasks \in [Ids -> Rows \cup {None}] /\ gone \in [Ids -> Times] /\ clock \in Times
    /\ calls \subseteq [op : {"insert", "update"}, id : Ids, fields : Inputs]
    /\ copies \in [Ids -> Fields \cup {None}]
    /\ unsent \subseteq {i \in Ids : copies[i] # None}
    /\ fresh \subseteq Ids
    /\ batch \subseteq [id : Ids, fields : Fields, stage : {"update", "create"}]

(* A tombstone is at least as new as the delete that made it, which is past. *)
Tombstones ==
    \A i \in Ids : /\ gone[i] <= clock
                   /\ Exists(i) /\ tasks[i].deleted => gone[i] <= tasks[i].modified

(* A create of the last second that did not fail has its row. *)
StoredCreates == \A b \in seen \ failed : b.id \in Ids /\ Exists(b.id)

IInv == Typed /\ Tombstones /\ StoredCreates /\ AckedIsServed

(* What a statement may do to the table. *)
TableStep ==
    /\ tasks' \in [Ids -> Rows \cup {None}] /\ gone' \in [Ids -> Times]
    /\ \A i \in Ids : /\ gone'[i] <= clock
                      /\ tasks'[i] # None /\ tasks'[i].deleted
                             => gone'[i] <= tasks'[i].modified
    /\ \A i \in Ids : tasks[i] # None /\ tasks[i].deleted /\ tasks'[i] # None
                          => tasks'[i].deleted
    /\ \A i \in Ids : tasks[i] # None /\ tasks'[i] = None
                          => tasks[i].deleted /\ gone[i] + Window < clock

(* It leaves the rows outside S alone and takes no row away. *)
Only(S) ==
    \A j \in Ids : (j \notin S => tasks'[j] = tasks[j]) /\ (tasks[j] # None => tasks'[j] # None)

(* None, which stands for no row and no copy, is none of their values. *)
LEMMA NoneIsNoRow == None \notin Rows /\ None \notin Titles /\ None \notin Statuses
BY TaskAssumption DEF Rows, Times, Statuses

(* A copy of the device is not the lack of one. *)
LEMMA FieldsAreNotNone == ASSUME NEW f \in Fields PROVE f # None
BY TaskAssumption DEF Fields, Statuses

-----------------------------------------------------------------------------
(* An INSERT writes a new row, with what the client sent. *)
LEMMA InsertStep ==
    ASSUME Typed, Tombstones, NEW i \in Ids, NEW f \in Inputs, NEW m \in Times, Insert(i, f, m)
    PROVE  /\ TableStep /\ Only({i}) /\ tasks'[i] # None /\ ~Exists(i)
           /\ f.status # None => TaskToSPC(tasks'[i]) = [title |-> f.title, status |-> f.status]
<1> DEFINE r == [title |-> f.title, modified |-> m, deleted |-> FALSE,
                 status |-> IF f.status = None THEN "needsAction" ELSE f.status]
<1>1. r \in Rows
  BY DEF Inputs, Rows, Statuses
<1>2. tasks' = [tasks EXCEPT ![i] = r] /\ gone' = gone /\ tasks[i] = None
  BY DEF Insert, Exists
<1>3. r # None
  BY <1>1, NoneIsNoRow
<1>4. tasks'[i] = r /\ \A j \in Ids : j # i => tasks'[j] = tasks[j]
  BY <1>2 DEF Typed
<1>5. tasks' \in [Ids -> Rows \cup {None}]
  BY <1>1, <1>2 DEF Typed
<1>6. ~r.deleted /\ r.title = f.title /\ (f.status # None => r.status = f.status)
  OBVIOUS
<1> HIDE DEF r
<1>7. TableStep
  BY <1>2, <1>3, <1>4, <1>5, <1>6 DEF TableStep, Tombstones, Typed, Exists
<1> QED
  BY <1>2, <1>3, <1>4, <1>6, <1>7 DEF Only, Exists, TaskToSPC

(* An UPDATE leaves the row where it is, a tombstone a tombstone. *)
LEMMA UpdateStep ==
    ASSUME Typed, Tombstones, NEW i \in Ids, NEW f \in Inputs, Update(i, f)
    PROVE  /\ TableStep /\ Only({i}) /\ tasks'[i] # None
           /\ TaskToSPC(tasks'[i]) = [title |-> f.title, status |-> f.status]
<1> DEFINE r == [tasks[i] EXCEPT !.title = f.title, !.status = f.status, !.modified = clock]
<1>1. tasks[i] \in Rows /\ f.status \in Statuses /\ f.title \in Titles
  BY DEF Update, Exists, Typed, Inputs
<1>2. /\ r \in Rows /\ r.title = f.title /\ r.status = f.status
      /\ r.modified = clock /\ r.deleted = tasks[i].deleted
  BY <1>1 DEF Rows, Typed
<1>3. tasks' = [tasks EXCEPT ![i] = r] /\ gone' = gone /\ tasks[i] # None
  BY DEF Update, Exists
<1> HIDE DEF r
<1>4. r # None
  BY <1>2, NoneIsNoRow
<1>5. tasks'[i] = r /\ \A j \in Ids : j # i => tasks'[j] = tasks[j]
  BY <1>3 DEF Typed
<1>6. tasks' \in [Ids -> Rows \cup {None}]
  BY <1>2, <1>3 DEF Typed
<1>7. TableStep
  BY <1>2, <1>3, <1>4, <1>5, <1>6 DEF TableStep, Tombstones, Typed, Exists
<1> QED
  BY <1>2, <1>3, <1>4, <1>5, <1>7 DEF Only, TaskToSPC

(* A soft delete dates the tombstone now. *)
LEMMA SoftDeleteStep ==
    ASSUME Typed, Tombstones, NEW S \in SUBSET Ids, \A i \in S : Exists(i), SoftDelete(S)
    PROVE  TableStep /\ Only(S)
<1>1. ASSUME NEW i \in Ids
      PROVE  /\ i \in S => /\ tasks'[i] \in Rows /\ tasks'[i] # None
                           /\ tasks'[i].deleted /\ tasks'[i].modified = clock
                           /\ gone'[i] = clock
             /\ i \notin S => tasks'[i] = tasks[i] /\ gone'[i] = gone[i]
  <2>1. CASE i \in S
    <3>1. tasks[i] \in Rows
      BY <2>1 DEF Exists, Typed
    <3>2. tasks'[i] = [tasks[i] EXCEPT !.deleted = TRUE, !.modified = clock]
          /\ gone'[i] = clock
      BY <2>1 DEF SoftDelete
    <3> QED
      BY <2>1, <3>1, <3>2, NoneIsNoRow DEF Rows, Typed
  <2>2. CASE i \notin S
    BY <2>2 DEF SoftDelete
  <2> QED
    BY <2>1, <2>2
<1>2. clock \in Nat
  BY DEF Typed, Times
<1>3. tasks' \in [Ids -> Rows \cup {None}] /\ gone' \in [Ids -> Times]
  <2>1. tasks' = [i \in Ids |-> tasks'[i]] /\ gone' = [i \in Ids |-> gone'[i]]
    BY DEF SoftDelete
  <2> QED
    BY <1>1, <2>1 DEF Typed
<1> QED
  BY <1>1, <1>2, <1>3 DEF TableStep, Only, Tombstones, Typed, Exists


-----------------------------------------------------------------------------
(* The tombstones need nothing but the table and the clock. *)
LEMMA TombstonesStep ==
    ASSUME TableStep, clock' = clock
    PROVE  Tombstones'
BY DEF TableStep, Tombstones, Exists

(* A statement of somebody else: what it changed, the device knows to be
   old. *)
LEMMA OthersStep ==
    ASSUME IInv, NEW S \in SUBSET Ids, TableStep, Only(S), Others(S),
           calls' \subseteq [op : {"insert", "update"}, id : Ids, fields : Inputs]
    PROVE  IInv'
<1>1. /\ fresh' = fresh \ S /\ clock' = clock /\ copies' = copies /\ unsent' = unsent
      /\ batch' = batch /\ seen' = seen /\ failed' = failed /\ lost' = lost
  BY DEF Others, device, history
<1>2. Typed'
  BY <1>1 DEF IInv, Typed, TableStep
<1>3. Tombstones'
  BY <1>1, TombstonesStep
<1>4. StoredCreates'
  BY <1>1 DEF IInv, StoredCreates, Only, Exists
<1>5. AckedIsServed'
  <2> SUFFICES ASSUME NEW i \in fresh' \ lost'
               PROVE  Exists(i)' /\ TaskToSPC(tasks'[i]) = copies'[i]
    BY DEF AckedIsServed
  <2>1. i \in fresh \ lost /\ i \notin S /\ i \in Ids
    BY <1>1 DEF IInv, Typed
  <2> QED
    BY <1>1, <2>1 DEF IInv, AckedIsServed, Only, Exists
<1> QED
  BY <1>2, <1>3, <1>4, <1>5 DEF IInv


(* A statement of the device: its copy is what the row shows, unless it was
   edited again after it had been sent. *)
LEMMA ServedStep ==
    ASSUME IInv, NEW i \in Ids, NEW f \in Fields, TableStep, Only({i}), tasks'[i] # None,
           TaskToSPC(tasks'[i]) = f, Served(i, f), batch' \subseteq batch
    PROVE  IInv'
<1>1. /\ fresh' = IF copies[i] = f THEN fresh \cup {i} ELSE fresh \ {i}
      /\ lost' = lost \ {i}
      /\ clock' = clock /\ calls' = calls /\ copies' = copies /\ unsent' = unsent
      /\ seen' = seen /\ failed' = failed
  BY DEF Served
<1>2. Typed'
  BY <1>1 DEF IInv, Typed, TableStep
<1>3. Tombstones'
  BY <1>1, TombstonesStep
<1>4. StoredCreates'
  BY <1>1 DEF IInv, StoredCreates, Only, Exists
<1>5. AckedIsServed'
  <2> SUFFICES ASSUME NEW j \in fresh' \ lost'
               PROVE  Exists(j)' /\ TaskToSPC(tasks'[j]) = copies'[j]
    BY DEF AckedIsServed
  <2>1. CASE j = i
    BY <1>1, <2>1 DEF Exists
  <2>2. CASE j # i
    <3>1. j \in fresh \ lost /\ j \in Ids
      BY <1>1, <2>2 DEF IInv, Typed
    <3> QED
      BY <1>1, <2>2, <3>1 DEF IInv, AckedIsServed, Only, Exists
  <2> QED
    BY <2>1, <2>2
<1> QED
  BY <1>2, <1>3, <1>4, <1>5 DEF IInv

-----------------------------------------------------------------------------
(* What every step of the program does to a deleted row. *)
TombstoneStep ==
    /\ \A i \in Ids : tasks[i] # None /\ tasks[i].deleted /\ tasks'[i] # None
                          => tasks'[i].deleted
    /\ \A i \in Ids : tasks[i] # None /\ tasks'[i] = None
                          => tasks[i].deleted /\ gone[i] + Window < clock

(* The server starts with tasks of before, which the device has or has not. *)
LEMMA InitIInv == Init => IInv
<1> SUFFICES ASSUME Init PROVE IInv
  OBVIOUS
<1> PICK old \in SUBSET Ids, t \in Titles :
        /\ tasks = [i \in Ids |-> IF i \notin old THEN None
                      ELSE [title |-> t, status |-> "needsAction", modified |-> 1,
                            deleted |-> FALSE]]
        /\ fresh \in {{}, old}
        /\ copies = [i \in Ids |-> IF i \notin fresh THEN None
                                   ELSE [title |-> t, status |-> "needsAction"]]
  BY DEF Init
<1> DEFINE r == [title |-> t, status |-> "needsAction", modified |-> 1, deleted |-> FALSE]
           f == [title |-> t, status |-> "needsAction"]
<1>1. 1 \in Times
  BY TaskAssumption DEF Times
<1>2. r \in Rows /\ f \in Fields /\ ~r.deleted /\ TaskToSPC(r) = f
  BY <1>1 DEF Rows, Fields, Statuses, TaskToSPC
<1>3. /\ fresh \in {{}, old}
      /\ tasks = [i \in Ids |-> IF i \notin old THEN None ELSE r]
      /\ copies = [i \in Ids |-> IF i \notin fresh THEN None ELSE f]
  OBVIOUS
<1> HIDE DEF r, f
<1>4. r # None
  BY <1>2, NoneIsNoRow
<1>5. gone = [i \in Ids |-> 1] /\ clock = 1 /\ calls = {} /\ unsent = {} /\ batch = {}
      /\ seen = {}
  BY DEF Init
<1>6. tasks \in [Ids -> Rows \cup {None}] /\ copies \in [Ids -> Fields \cup {None}]
  BY <1>2, <1>3
<1>7. Typed
  BY <1>1, <1>3, <1>5, <1>6 DEF Typed
<1>8. Tombstones
  BY <1>2, <1>3, <1>4, <1>5 DEF Tombstones, Exists
<1>9. StoredCreates
  BY <1>5 DEF StoredCreates
<1>10. AckedIsServed
  <2>1. ASSUME NEW i \in fresh PROVE tasks[i] = r /\ copies[i] = f
    BY <1>3
  <2> QED
    BY <1>2, <1>4, <2>1 DEF AckedIsServed, Exists
<1> QED
  BY <1>7, <1>8, <1>9, <1>10 DEF IInv

(* The requests of the web UI, the MCP tools and CalDAV clients. *)
LEMMA ServiceStep ==
    ASSUME IInv,
           \/ \E i \in Ids, t \in Titles : Create(i, t) \/ Patch(i, t)
           \/ \E i \in Ids : Complete(i) \/ Delete(i)
           \/ \E i \in Ids, t \in Titles, s \in Statuses \cup {None} :
                  Put(i, [title |-> t, status |-> s])
           \/ \E c \in calls : Finish(c)
           \/ PurgeCompleted \/ PurgeDeleted
    PROVE  IInv' /\ TombstoneStep
<1> USE DEF IInv
<1>0. Fields \subseteq Inputs
  BY DEF Fields, Inputs
<1>1. ASSUME NEW i \in Ids, NEW f \in Inputs, NEW op \in {"insert", "update"}, Begin(op, i, f)
      PROVE  IInv' /\ TombstoneStep
  BY <1>1 DEF Begin, store, device, history, Typed, Tombstones, StoredCreates,
              AckedIsServed, TombstoneStep, Exists
<1>2. ASSUME NEW i \in Ids, NEW t \in Titles, Create(i, t) PROVE IInv' /\ TombstoneStep
  <2>1. [title |-> t, status |-> "needsAction"] \in Inputs /\ clock \in Times
    BY DEF Inputs, Statuses, Typed
  <2>2. TableStep /\ Only({i})
    BY <1>2, <2>1, InsertStep DEF Create
  <2> QED
    BY <1>2, <2>2, OthersStep DEF Create, Typed, TableStep, TombstoneStep
<1>3. ASSUME NEW i \in Live PROVE i \in Ids /\ Row(i) \in Fields
  BY DEF Live, Row, Exists, Typed, Rows, Fields
<1>4. ASSUME NEW i \in Ids, NEW t \in Titles, Patch(i, t) PROVE IInv' /\ TombstoneStep
  <2>1. [Row(i) EXCEPT !.title = t] \in Inputs
    BY <1>0, <1>3, <1>4 DEF Patch, Fields
  <2> QED
    BY <1>1, <1>4, <2>1 DEF Patch
<1>5. ASSUME NEW i \in Ids, Complete(i) PROVE IInv' /\ TombstoneStep
  <2>1. [Row(i) EXCEPT !.status = "completed"] \in Inputs
    BY <1>0, <1>3, <1>5 DEF Complete, Fields, Statuses
  <2> QED
    BY <1>1, <1>5, <2>1 DEF Complete
<1>6. ASSUME NEW i \in Ids, NEW t \in Titles, NEW s \in Statuses \cup {None},
             Put(i, [title |-> t, status |-> s])
      PROVE  IInv' /\ TombstoneStep
  <2>1. [title |-> t, status |-> s] \in Inputs
    BY DEF Inputs
  <2> QED
    BY <1>1, <1>6, <2>1 DEF Put
<1>7. ASSUME NEW c \in calls, Finish(c) PROVE IInv' /\ TombstoneStep
  <2>1. c.id \in Ids /\ c.fields \in Inputs
    BY DEF Typed
  <2>2. calls' \subseteq [op : {"insert", "update"}, id : Ids, fields : Inputs]
    BY <1>7 DEF Finish, Typed
  <2>3. CASE Update(c.id, c.fields) /\ Others({c.id})
    <3>1. TableStep /\ Only({c.id})
      BY <2>1, <2>3, UpdateStep
    <3> QED
      BY <2>1, <2>2, <2>3, <3>1, OthersStep DEF TableStep, TombstoneStep
  <2>4. CASE (\E m \in Stamps(c.fields) : Insert(c.id, c.fields, m)) /\ Others({c.id})
    <3>1. PICK m \in Stamps(c.fields) : Insert(c.id, c.fields, m)
      BY <2>4
    <3>2. m \in Times
      BY DEF Stamps, Typed
    <3>3. TableStep /\ Only({c.id})
      BY <2>1, <3>1, <3>2, InsertStep
    <3> QED
      BY <2>1, <2>2, <2>4, <3>3, OthersStep DEF TableStep, TombstoneStep
  <2>5. CASE UNCHANGED <<store, clock, device, seen, walk, fresh, history>>
    BY <2>2, <2>5 DEF store, device, history, Typed, Tombstones, StoredCreates,
                      AckedIsServed, TombstoneStep, Exists
  <2> QED
    BY <1>7, <2>3, <2>4, <2>5 DEF Finish
<1>8. ASSUME NEW i \in Ids, Delete(i) PROVE IInv' /\ TombstoneStep
  <2>1. TableStep /\ Only({i})
    BY <1>8, SoftDeleteStep DEF Delete
  <2> QED
    BY <1>8, <2>1, OthersStep DEF Delete, Typed, TableStep, TombstoneStep
<1>9. CASE PurgeCompleted
  <2> DEFINE done == {i \in Live : tasks[i].status = "completed"}
  <2>1. done \in SUBSET Ids /\ \A i \in done : Exists(i)
    BY DEF Live
  <2>2. SoftDelete(done) /\ Others(done) /\ calls' = calls
    BY <1>9 DEF PurgeCompleted
  <2> HIDE DEF done
  <2>3. TableStep /\ Only(done)
    BY <2>1, <2>2, SoftDeleteStep
  <2> QED
    BY <2>1, <2>2, <2>3, OthersStep DEF Typed, TableStep, TombstoneStep
<1>10. CASE PurgeDeleted
  <2> DEFINE old == {i \in Ids : /\ Exists(i) /\ tasks[i].deleted
                                 /\ tasks[i].modified + Window < clock}
  <2>1. /\ \A b \in seen \ failed : b.id \notin old
        /\ tasks' = [i \in Ids |-> IF i \in old THEN None ELSE tasks[i]]
        /\ gone' = gone /\ calls' = calls /\ fresh' = fresh \ old
        /\ clock' = clock /\ copies' = copies /\ unsent' = unsent /\ batch' = batch
        /\ seen' = seen /\ failed' = failed /\ lost' = lost
    BY <1>10 DEF PurgeDeleted, Others, device, history
  <2>2. Typed' /\ Tombstones'
    BY <2>1 DEF Typed, Tombstones, Exists
  <2>3. StoredCreates'
    BY <2>1 DEF StoredCreates, Exists
  <2>4. AckedIsServed'
    BY <2>1 DEF AckedIsServed, Exists, Typed
  <2>5. ASSUME NEW i \in old PROVE tasks[i].deleted /\ gone[i] + Window < clock
    <3>1. /\ gone[i] \in Nat /\ clock \in Nat /\ tasks[i].modified \in Nat
          /\ gone[i] <= tasks[i].modified
      BY DEF Typed, Tombstones, Exists, Rows, Times
    <3> QED
      BY <3>1, TaskAssumption
  <2> QED
    BY <2>1, <2>2, <2>3, <2>4, <2>5 DEF TombstoneStep
<1> QED
  BY <1>2, <1>4, <1>5, <1>6, <1>7, <1>8, <1>9, <1>10


(* The device's own steps and its requests. *)
LEMMA DeviceStep ==
    ASSUME IInv,
           \/ \E i \in Ids, t \in Titles : Draft(i, t)
           \/ \E i \in Ids, f \in Fields : Edit(i, f)
           \/ \E i \in Ids : Repeated(i) \/ TaskCreate(i) \/ TaskCreateFails(i)
                             \/ TaskUpdate(i) \/ TaskDelete(i)
           \/ \E b \in seen : Expire(b)
           \/ \E S \in SUBSET Ids : TaskListUpdate(S)
           \/ \E b \in batch : UpdateItem(b) \/ CreateItem(b)
           \/ StartWalk \/ TaskAll
    PROVE  IInv' /\ TombstoneStep
<1> USE DEF IInv
<1>0. ASSUME NEW f \in Fields
      PROVE  SPCToTask(f) \in Inputs /\ SPCToTask(f).status # None
             /\ [title |-> SPCToTask(f).title, status |-> SPCToTask(f).status] = f
  BY NoneIsNoRow DEF Fields, Inputs, SPCToTask
<1>00. ASSUME NEW i \in unsent PROVE i \in Ids /\ copies[i] \in Fields
  BY DEF Typed
<1>1. ASSUME NEW i \in Ids, NEW t \in Titles, Draft(i, t) PROVE IInv' /\ TombstoneStep
  <2>1. ~Exists(i) /\ tasks' = tasks /\ gone' = gone /\ clock' = clock /\ calls' = calls
        /\ batch' = batch /\ seen' = seen /\ fresh' = fresh /\ failed' = failed /\ lost' = lost
        /\ copies' = [copies EXCEPT ![i] = [title |-> t, status |-> "needsAction"]]
        /\ unsent' = unsent \cup {i}
    BY <1>1 DEF Draft, store, history
  <2>2. [title |-> t, status |-> "needsAction"] \in Fields
        /\ [title |-> t, status |-> "needsAction"] # None
    BY <2>1, TaskAssumption DEF Fields, Statuses
  <2>3. Typed' /\ Tombstones' /\ StoredCreates'
    BY <2>1, <2>2 DEF Typed, Tombstones, StoredCreates, Exists
  <2>4. AckedIsServed'
    BY <2>1 DEF AckedIsServed, Exists, Typed
  <2> QED
    BY <2>1, <2>3, <2>4 DEF TombstoneStep
<1>2. ASSUME NEW i \in Ids, NEW f \in Fields, Edit(i, f) PROVE IInv' /\ TombstoneStep
  <2>1. copies[i] # None /\ tasks' = tasks /\ gone' = gone /\ clock' = clock /\ calls' = calls
        /\ batch' = batch /\ seen' = seen /\ fresh' = fresh \ {i} /\ failed' = failed
        /\ lost' = lost /\ unsent' = unsent /\ copies' = [copies EXCEPT ![i] = f]
    BY <1>2 DEF Edit, store, history
  <2>2. f # None
    BY FieldsAreNotNone
  <2>3. Typed' /\ Tombstones' /\ StoredCreates'
    BY <2>1, <2>2 DEF Typed, Tombstones, StoredCreates, Exists
  <2>4. AckedIsServed'
    BY <2>1 DEF AckedIsServed, Exists, Typed
  <2> QED
    BY <2>1, <2>3, <2>4 DEF TombstoneStep
<1>3. ASSUME NEW i \in Ids, Repeated(i) PROVE IInv' /\ TombstoneStep
  <2>1. /\ i \in unsent /\ Body(i) \in seen /\ unsent' = unsent \ {i}
        /\ fresh' = IF Exists(i) /\ Body(i) \notin failed THEN fresh ELSE fresh \cup {i}
        /\ lost' = IF Body(i) \in failed THEN lost \cup {i} ELSE lost
        /\ tasks' = tasks /\ gone' = gone /\ clock' = clock /\ calls' = calls
        /\ copies' = copies /\ batch' = batch /\ seen' = seen /\ failed' = failed
    BY <1>3 DEF Repeated, store
  <2>2. Typed' /\ Tombstones' /\ StoredCreates'
    BY <2>1 DEF Typed, Tombstones, StoredCreates, Exists
  <2>3. Body(i) \notin failed => Exists(i)
    <3>1. Body(i).id = i
      BY DEF Body
    <3> QED
      BY <2>1, <3>1 DEF StoredCreates
  <2>4. AckedIsServed'
    BY <2>1, <2>3 DEF AckedIsServed, Exists
  <2> QED
    BY <2>1, <2>2, <2>4 DEF TombstoneStep
<1>4. ASSUME NEW i \in Ids, TaskCreate(i) PROVE IInv' /\ TombstoneStep
  <2>1. /\ i \in unsent /\ seen' = seen \cup {Body(i)} /\ fresh' = fresh \cup {i}
        /\ lost' = lost \ {i} /\ unsent' \in {unsent, unsent \ {i}}
        /\ clock' = clock /\ calls' = calls /\ copies' = copies /\ batch' = batch
        /\ failed' = failed
    BY <1>4 DEF TaskCreate
  <2>2. copies[i] \in Fields
    BY <1>00, <2>1
  <2>3. PICK m \in Times : Insert(i, SPCToTask(copies[i]), m)
    BY <1>4 DEF TaskCreate
  <2>4. /\ TableStep /\ Only({i}) /\ tasks'[i] # None
        /\ TaskToSPC(tasks'[i]) = copies[i]
    BY <1>0, <2>2, <2>3, InsertStep
  <2>5. Typed' /\ Tombstones'
    BY <2>1, <2>4, TombstonesStep DEF Typed, TableStep
  <2>6. StoredCreates'
    <3>1. Body(i).id = i
      BY DEF Body
    <3> QED
      BY <2>1, <2>4, <3>1 DEF StoredCreates, Only, Exists
  <2>7. AckedIsServed'
    BY <2>1, <2>4 DEF AckedIsServed, Only, Exists, Typed
  <2> QED
    BY <2>4, <2>5, <2>6, <2>7 DEF TableStep, TombstoneStep
<1>5. ASSUME NEW i \in Ids, TaskCreateFails(i) PROVE IInv' /\ TombstoneStep
  <2>1. /\ seen' = seen \cup {Body(i)} /\ failed' = failed \cup {Body(i)}
        /\ tasks' = tasks /\ gone' = gone /\ clock' = clock /\ calls' = calls
        /\ copies' = copies /\ unsent' = unsent /\ batch' = batch /\ fresh' = fresh
        /\ lost' = lost
    BY <1>5 DEF TaskCreateFails, store, device
  <2> QED
    BY <2>1 DEF Typed, Tombstones, StoredCreates, AckedIsServed, TombstoneStep, Exists
<1>6. ASSUME NEW i \in Ids, TaskUpdate(i) PROVE IInv' /\ TombstoneStep
  <2>1. copies[i] \in Fields /\ batch' = batch /\ Served(i, copies[i])
        /\ Update(i, SPCToTask(copies[i]))
    BY <1>6 DEF TaskUpdate, Typed
  <2>2. /\ TableStep /\ Only({i}) /\ tasks'[i] # None
        /\ TaskToSPC(tasks'[i]) = copies[i]
    BY <1>0, <2>1, UpdateStep
  <2> QED
    BY <2>1, <2>2, ServedStep DEF TableStep, TombstoneStep
<1>7. ASSUME NEW i \in Ids, TaskDelete(i) PROVE IInv' /\ TombstoneStep
  <2>1. /\ copies' = [copies EXCEPT ![i] = None] /\ fresh' = fresh \ {i} /\ i \notin unsent
        /\ clock' = clock /\ calls' = calls /\ unsent' = unsent /\ batch' = batch
        /\ seen' = seen /\ failed' = failed /\ lost' = lost
    BY <1>7 DEF TaskDelete, history
  <2>2. TableStep /\ Only({i})
    BY <1>7, SoftDeleteStep DEF TaskDelete
  <2>3. Typed' /\ Tombstones'
    BY <2>1, <2>2, TombstonesStep DEF Typed, TableStep
  <2>4. StoredCreates' /\ AckedIsServed'
    BY <2>1, <2>2 DEF StoredCreates, AckedIsServed, Only, Exists, Typed
  <2> QED
    BY <2>2, <2>3, <2>4 DEF TableStep, TombstoneStep
<1>8. ASSUME NEW b \in seen, Expire(b) PROVE IInv' /\ TombstoneStep
  <2>1. /\ seen' = seen \ {b} /\ failed' = failed \ {b}
        /\ tasks' = tasks /\ gone' = gone /\ clock' = clock /\ calls' = calls
        /\ copies' = copies /\ unsent' = unsent /\ batch' = batch /\ fresh' = fresh
        /\ lost' = lost
    BY <1>8 DEF Expire, store, device
  <2> QED
    BY <2>1 DEF Typed, Tombstones, StoredCreates, AckedIsServed, TombstoneStep, Exists
<1>9. ASSUME NEW S \in SUBSET Ids, TaskListUpdate(S) PROVE IInv' /\ TombstoneStep
  <2>1. /\ batch' = {[id |-> i, fields |-> copies[i], stage |-> "update"] : i \in S}
        /\ \A i \in S : copies[i] # None
        /\ tasks' = tasks /\ gone' = gone /\ clock' = clock /\ calls' = calls
        /\ copies' = copies /\ unsent' = unsent /\ seen' = seen /\ fresh' = fresh
        /\ failed' = failed /\ lost' = lost
    BY <1>9 DEF TaskListUpdate, store, history
  <2>2. batch' \subseteq [id : Ids, fields : Fields, stage : {"update", "create"}]
    BY <2>1 DEF Typed
  <2> QED
    BY <2>1, <2>2 DEF Typed, Tombstones, StoredCreates, AckedIsServed, TombstoneStep, Exists
<1>10. ASSUME NEW b \in batch PROVE b.id \in Ids /\ b.fields \in Fields
  BY DEF Typed
<1>11. ASSUME NEW b \in batch, UpdateItem(b) PROVE IInv' /\ TombstoneStep
  <2>1. CASE Update(b.id, SPCToTask(b.fields)) /\ batch' = batch \ {b} /\ Served(b.id, b.fields)
    <3>1. /\ TableStep /\ Only({b.id}) /\ tasks'[b.id] # None
          /\ TaskToSPC(tasks'[b.id]) = b.fields
      BY <1>0, <1>10, <2>1, UpdateStep
    <3> QED
      BY <1>10, <2>1, <3>1, ServedStep DEF TableStep, TombstoneStep
  <2>2. CASE batch' = (batch \ {b}) \cup {[b EXCEPT !.stage = "create"]}
             /\ UNCHANGED <<store, clock, calls, copies, unsent, seen, walk, fresh, history>>
    <3>1. batch' \subseteq [id : Ids, fields : Fields, stage : {"update", "create"}]
      BY <2>2 DEF Typed
    <3> QED
      BY <2>2, <3>1 DEF store, history, Typed, Tombstones, StoredCreates, AckedIsServed,
                        TombstoneStep, Exists
  <2> QED
    BY <1>11, <2>1, <2>2 DEF UpdateItem
<1>12. ASSUME NEW b \in batch, CreateItem(b) PROVE IInv' /\ TombstoneStep
  <2>0. batch' = batch \ {b}
    BY <1>12 DEF CreateItem
  <2>1. CASE (\E m \in Times : Insert(b.id, SPCToTask(b.fields), m)) /\ Served(b.id, b.fields)
    <3>1. PICK m \in Times : Insert(b.id, SPCToTask(b.fields), m)
      BY <2>1
    <3>2. /\ TableStep /\ Only({b.id}) /\ tasks'[b.id] # None
          /\ TaskToSPC(tasks'[b.id]) = b.fields
      BY <1>0, <1>10, <3>1, InsertStep
    <3> QED
      BY <1>10, <2>0, <2>1, <3>2, ServedStep DEF TableStep, TombstoneStep
  <2>2. CASE fresh' = fresh \cup {b.id} /\ lost' = lost \cup {b.id}
             /\ UNCHANGED <<store, clock, calls, copies, unsent, seen, walk, failed>>
    BY <1>10, <2>0, <2>2 DEF store, Typed, Tombstones, StoredCreates, AckedIsServed,
                             TombstoneStep, Exists
  <2> QED
    BY <1>12, <2>1, <2>2 DEF CreateItem
<1>13. CASE StartWalk
  BY <1>13 DEF StartWalk, store, device, history, Typed, Tombstones, StoredCreates,
               AckedIsServed, TombstoneStep, Exists
<1>14. CASE TaskAll
  <2>1. PICK page \in SUBSET Live :
            /\ copies' = [i \in Ids |-> IF i \in page THEN TaskToSPC(tasks[i]) ELSE copies[i]]
            /\ unsent' = unsent \ page
            /\ fresh' = fresh \cup page /\ lost' = lost \ page
            /\ tasks' = tasks /\ gone' = gone /\ clock' = clock /\ calls' = calls
            /\ batch' = batch /\ seen' = seen /\ failed' = failed
    BY <1>14 DEF TaskAll, store
  <2>2. \A i \in page : i \in Ids /\ Exists(i) /\ TaskToSPC(tasks[i]) \in Fields
    BY DEF Live, Exists, Typed, TaskToSPC, Rows, Fields
  <2>3. Typed' /\ Tombstones' /\ StoredCreates'
    BY <2>1, <2>2 DEF Typed, Tombstones, StoredCreates, Exists
  <2>4. AckedIsServed'
    BY <2>1, <2>2 DEF AckedIsServed, Exists, Typed
  <2> QED
    BY <2>1, <2>3, <2>4 DEF TombstoneStep
<1> QED
  BY <1>1, <1>2, <1>3, <1>4, <1>5, <1>6, <1>7, <1>8, <1>9, <1>11, <1>12, <1>13, <1>14

(* IInv is inductive, and each step treats deleted rows as it should. *)
LEMMA NextStep == IInv /\ [Next]_vars => IInv' /\ TombstoneStep
<1> SUFFICES ASSUME IInv, [Next]_vars PROVE IInv' /\ TombstoneStep
  OBVIOUS
<1>1. CASE Tick
  BY <1>1, TaskAssumption DEF Tick, store, device, history, IInv, Typed, Tombstones, Times,
                StoredCreates, AckedIsServed, TombstoneStep, Exists
<1>2. CASE UNCHANGED vars
  BY <1>2 DEF vars, store, device, history, IInv, Typed, Tombstones, StoredCreates,
              AckedIsServed, TombstoneStep, Exists
<1> QED
  BY <1>1, <1>2, ServiceStep, DeviceStep DEF Next

(* IInv holds in every state that is reached. *)
LEMMA Inductive == Spec => []IInv
BY InitIInv, NextStep, PTL DEF Spec

-----------------------------------------------------------------------------
(* No request, stale copy or batch brings a deleted task back, and a purged
   row was deleted longer than the window ago. *)
THEOREM DeletesAreFinal == Spec => TombstonesAreKept
<1>1. TombstoneStep =>
        [\A i \in Ids : Exists(i) =>
            /\ tasks'[i] # None => (tasks[i].deleted => tasks'[i].deleted)
            /\ tasks'[i] = None => tasks[i].deleted /\ gone[i] + Window < clock]_vars
  BY DEF TombstoneStep, Exists
<1> QED
  BY <1>1, NextStep, Inductive, PTL DEF Spec, TombstonesAreKept

(* What the device was told is stored is what the table shows. *)
THEOREM AcksAreTrue == Spec => []AckedIsServed
BY Inductive, PTL DEF IInv

-----------------------------------------------------------------------------
(***************************************************************************)
(* The list that the device walks through, and its cursor.                 *)
(***************************************************************************)

(* The first n tasks of the list. *)
Below(n) == {i \in Live : Position(i) < n}

(* The tasks before i in the list. *)
Ahead(i) == {j \in Live : Before(j, i)}

(* A set of natural numbers that is not empty has a least element. *)
LEMMA Least ==
    ASSUME NEW T, T \subseteq Nat, T # {}
    PROVE  \E x \in T : \A y \in T : x <= y
<1> DEFINE R == {ss \in Nat \X Nat : ss[1] < ss[2]}
<1>1. IsWellFoundedOn(R, Nat)
  BY NatLessThanWellFounded DEF OpToRel
<1>2. \A x, y \in Nat : <<y, x>> \in R <=> y < x
  OBVIOUS
<1> HIDE DEF R
<1>3. PICK x \in T : \A y \in T : ~(<<y, x>> \in R)
  BY <1>1, WFMin
<1>4. ASSUME NEW y \in T PROVE x <= y
  <2>1. x \in Nat /\ y \in Nat
    OBVIOUS
  <2>2. ~(y < x)
    BY <1>2, <1>3, <2>1
  <2> QED
    BY <2>1, <2>2
<1> QED
  BY <1>4

(* The list is sorted: a task's place is later than those of the tasks ahead
   of it. *)
InOrder ==
    /\ IsFiniteSet(Live) /\ \A i \in Live : Position(i) \in Nat
    /\ \A i, j \in Live : Before(i, j) => Position(i) < Position(j)
    /\ \A i, j \in Live : i # j => Before(i, j) \/ Before(j, i)

(* The first n places hold n tasks, unless the list is shorter. *)
PlacesFit ==
    \A n \in Nat :
        /\ IsFiniteSet(Below(n)) /\ Cardinality(Below(n)) <= n
        /\ \A x \in Live : n <= Position(x) => n <= Cardinality(Below(n))

(* Rows that have a last_modified and an id can be sorted by them. *)
LEMMA Sorted == Typed => InOrder
<1> SUFFICES ASSUME Typed PROVE InOrder
  OBVIOUS
<1>1. ASSUME NEW i \in Live PROVE i \in Ids /\ i \in Nat /\ tasks[i].modified \in Nat
  <2>1. i \in Ids /\ tasks[i] \in Rows
    BY DEF Live, Exists, Typed
  <2> QED
    BY <2>1, TaskAssumption DEF Rows, Times
<1>2. IsFiniteSet(Live)
  BY TaskAssumption, FS_Subset DEF Live
<1>3. ASSUME NEW i
      PROVE  /\ IsFiniteSet(Ahead(i)) /\ Position(i) = Cardinality(Ahead(i))
             /\ Position(i) \in Nat
  BY <1>2, FS_Subset, FS_CardinalityType DEF Ahead, Position
<1>4. ASSUME NEW i \in Live, NEW j \in Live, Before(i, j) PROVE Position(i) < Position(j)
  <2>1. Ahead(i) \subseteq Ahead(j) /\ i \in Ahead(j) /\ i \notin Ahead(i)
    BY <1>1, <1>4 DEF Ahead, Before
  <2>2. /\ Cardinality(Ahead(i)) <= Cardinality(Ahead(j))
        /\ Cardinality(Ahead(i)) # Cardinality(Ahead(j))
    BY <1>3, <2>1, FS_Subset
  <2> QED
    BY <1>3, <2>2
<1>5. ASSUME NEW i \in Live, NEW j \in Live, i # j PROVE Before(i, j) \/ Before(j, i)
  BY <1>1, <1>5 DEF Before
<1> QED
  BY <1>2, <1>3, <1>4, <1>5 DEF InOrder

(* The places of a list are filled from the first on. *)
LEMMA Places == Typed => PlacesFit
<1> SUFFICES ASSUME Typed, NEW n \in Nat
             PROVE  /\ IsFiniteSet(Below(n)) /\ Cardinality(Below(n)) <= n
                    /\ \A x \in Live : n <= Position(x) => n <= Cardinality(Below(n))
  BY DEF PlacesFit
<1> USE Sorted DEF InOrder
<1>0. IsFiniteSet(Below(n)) /\ Cardinality(Below(n)) \in Nat
  BY FS_Subset, FS_CardinalityType DEF Below
<1>00. ASSUME NEW x PROVE IsFiniteSet(Ahead(x)) /\ Cardinality(Ahead(x)) = Position(x)
  BY FS_Subset DEF Ahead, Position
<1>1. Cardinality(Below(n)) <= n
  <2>1. CASE Below(n) = {}
    BY <2>1, FS_EmptySet
  <2>2. CASE Below(n) # {}
    <3> DEFINE T == {n - Position(i) : i \in Below(n)}
    <3>1. \A i \in Below(n) : i \in Live /\ Position(i) \in Nat /\ Position(i) < n
      BY DEF Below
    <3>2. T \subseteq Nat /\ T # {}
      BY <2>2, <3>1
    <3>3. PICK l \in T : \A y \in T : l <= y
      BY <3>2, Least
    <3>4. PICK x \in Below(n) : l = n - Position(x)
      OBVIOUS
    <3>5. \A y \in Below(n) : Position(y) <= Position(x)
      <4> TAKE y \in Below(n)
      <4>1. l <= n - Position(y)
        BY <3>3
      <4> QED
        BY <3>1, <3>4, <4>1
    <3>6. Below(n) \subseteq Ahead(x) \cup {x}
      <4> SUFFICES ASSUME NEW y \in Below(n), y # x PROVE y \in Ahead(x)
        OBVIOUS
      <4>1. ~Before(x, y)
        BY <3>1, <3>5
      <4> QED
        BY <3>1, <4>1 DEF Ahead
    <3>7. Cardinality(Ahead(x) \cup {x}) <= Position(x) + 1 /\ IsFiniteSet(Ahead(x) \cup {x})
      <4>1. Cardinality(Ahead(x) \cup {x}) \in {Cardinality(Ahead(x)), Cardinality(Ahead(x)) + 1}
        BY <1>00, FS_AddElement
      <4> QED
        BY <1>00, <3>1, <4>1, FS_AddElement
    <3>8. Cardinality(Below(n)) <= Cardinality(Ahead(x) \cup {x})
          /\ Cardinality(Ahead(x) \cup {x}) \in Nat
      BY <3>6, <3>7, FS_Subset, FS_CardinalityType
    <3> QED
      BY <1>0, <3>1, <3>7, <3>8
  <2> QED
    BY <2>1, <2>2
<1>2. ASSUME NEW z \in Live, n <= Position(z) PROVE n <= Cardinality(Below(n))
  <2> DEFINE T == {Position(i) : i \in Live \ Below(n)}
  <2>1. \A i \in Live : Position(i) \in Nat
    OBVIOUS
  <2>2. z \in Live \ Below(n)
    BY <1>2, <2>1 DEF Below
  <2>3. T \subseteq Nat /\ T # {}
    BY <2>1, <2>2
  <2>4. PICK l \in T : \A y \in T : l <= y
    BY <2>3, Least
  <2>5. PICK x \in Live \ Below(n) : l = Position(x)
    OBVIOUS
  <2>6. Ahead(x) \subseteq Below(n)
    <3> SUFFICES ASSUME NEW y \in Ahead(x), y \notin Below(n) PROVE FALSE
      OBVIOUS
    <3>1. y \in Live /\ Before(y, x)
      BY DEF Ahead
    <3>2. Position(y) < Position(x) /\ Position(x) <= Position(y)
      BY <2>4, <2>5, <3>1
    <3> QED
      BY <2>1, <3>1, <3>2
  <2>7. Position(x) <= Cardinality(Below(n)) /\ n <= Position(x)
    BY <1>0, <1>00, <2>1, <2>6, FS_Subset DEF Below
  <2> QED
    BY <1>0, <2>1, <2>7
<1> QED
  BY <1>0, <1>1, <1>2

-----------------------------------------------------------------------------
(* The tasks of a walk that it has passed over. *)
Skipped == {i \in walk.owed : Position(i) < walk.offset}

(* A walk owes tasks that are live, and accounts for those it passed over. *)
Walk ==
    walk # None =>
        /\ walk \in [offset : Nat, owed : SUBSET Live, shifts : Nat, done : BOOLEAN]
        /\ Cardinality(Skipped) <= walk.shifts

(* The rows outside S are as they were. *)
Apart(S) == tasks' \in [Ids -> Rows \cup {None}] /\ \A j \in Ids \ S : tasks'[j] = tasks[j]

(* What is not in S keeps its order, and its place in the table. *)
LEMMA OrderKept ==
    ASSUME NEW S, Apart(S), NEW i \in Ids \ S, NEW j \in Ids \ S
    PROVE  /\ Before(i, j)' <=> Before(i, j)
           /\ i \in Live' <=> i \in Live
BY DEF Apart, Before, Live, Exists

(* A statement that rewrites the tasks of S moves at most as many untouched
   tasks to before the cursor as it took away from there. *)
LEMMA Shifted ==
    ASSUME Typed, Typed', NEW S \in SUBSET Ids, Apart(S), NEW n \in Nat,
           NEW owed \in SUBSET (Live \ S)
    PROVE  /\ IsFiniteSet(owed) /\ owed \subseteq Live'
           /\ Cardinality({i \in owed : Position(i)' < n})
              <= Cardinality({i \in owed : Position(i) < n}) + Cardinality(S \cap Below(n))
<1> DEFINE old == {i \in owed : Position(i) < n}
           new == {i \in owed : Position(i)' < n}
           L == Below(n)
           M == Below(n)'
           Rest == Live \ S
<1>0. /\ IsFiniteSet(L) /\ Cardinality(L) <= n
      /\ \A x \in Live : n <= Position(x) => n <= Cardinality(L)
  BY Places DEF PlacesFit
<1>1. IsFiniteSet(M) /\ Cardinality(M) <= n
  <2>1. PlacesFit'
    BY Places, PTL
  <2> QED
    BY <2>1 DEF PlacesFit
<1>2. Rest \subseteq Live /\ Rest \subseteq Live' /\ Rest \subseteq Ids \ S
  BY OrderKept DEF Live
<1>3. \A i, j \in Rest : Before(i, j)' <=> Before(i, j)
  BY <1>2, OrderKept
<1>4. /\ IsFiniteSet(Live) /\ \A i \in Live : Position(i) \in Nat
      /\ \A i, j \in Live : Before(i, j) => Position(i) < Position(j)
      /\ \A i, j \in Live : i # j => Before(i, j) \/ Before(j, i)
  BY Sorted DEF InOrder
<1>5. /\ \A i \in Live' : Position(i)' \in Nat
      /\ \A i, j \in Live' : Before(i, j)' => Position(i)' < Position(j)'
  <2>1. InOrder'
    BY Sorted, PTL
  <2> QED
    BY <2>1 DEF InOrder
<1>6. L = {i \in Live : Position(i) < n} /\ M = {i \in Live' : Position(i)' < n}
  BY DEF Below
<1>7. IsFiniteSet(owed) /\ IsFiniteSet(old) /\ IsFiniteSet(new)
  BY <1>4, FS_Subset
<1>8. IsFiniteSet(S \cap L) /\ Cardinality(S \cap L) \in Nat /\ Cardinality(old) \in Nat
      /\ Cardinality(new) \in Nat
  BY <1>0, <1>7, FS_Intersection, FS_CardinalityType
<1> HIDE DEF L, M
<1>9. CASE \A i \in new : Position(i) < n
  <2>1. new \subseteq old
    BY <1>9
  <2> QED
    BY <1>2, <1>7, <1>8, <2>1, FS_Subset, <1>6 DEF Below
<1>10. CASE \E i \in new : ~(Position(i) < n)
  <2>1. PICK x \in new : ~(Position(x) < n)
    BY <1>10
  <2>2. x \in Rest /\ x \in Live /\ n <= Position(x) /\ x \in M
    BY <1>2, <1>4, <1>6, <2>1
  <2>3. Cardinality(L) = n
    BY <1>0, <2>2, FS_CardinalityType
  <2> DEFINE U == L \ S
             V == (M \cap Rest) \ L
  <2>4. U \subseteq M
    <3> SUFFICES ASSUME NEW y \in U PROVE y \in M
      OBVIOUS
    <3>1. y \in Rest /\ y \in Live /\ Position(y) < n
      BY <1>6
    <3>2. Before(y, x)
      BY <1>4, <2>2, <3>1
    <3>3. Position(y)' < Position(x)'
      BY <1>2, <1>3, <1>5, <2>2, <3>1, <3>2
    <3> QED
      BY <1>2, <1>5, <1>6, <2>1, <2>2, <3>1, <3>3
  <2>5. U \subseteq Rest /\ U \cap V = {} /\ U \cup V \subseteq M
    BY <1>6, <2>4
  <2>6. IsFiniteSet(U) /\ IsFiniteSet(V) /\ Cardinality(U) = n - Cardinality(S \cap L)
    <3>1. L \cap S = S \cap L
      OBVIOUS
    <3>2. Cardinality(L \ S) = Cardinality(L) - Cardinality(L \cap S) /\ IsFiniteSet(L \ S)
      BY <1>0, FS_Difference
    <3>3. V \subseteq M
      OBVIOUS
    <3>4. IsFiniteSet(V)
      BY <1>1, <3>3, FS_Subset
    <3> QED
      BY <2>3, <3>1, <3>2, <3>4
  <2>7. Cardinality(U) + Cardinality(V) <= n
    <3>1. Cardinality(U \cup V) = Cardinality(U) + Cardinality(V) - Cardinality(U \cap V)
      BY <2>6, FS_Union
    <3>2. Cardinality(U \cap V) = 0
      BY <2>5, FS_EmptySet
    <3>3. Cardinality(U \cup V) <= Cardinality(M)
      BY <1>1, <2>5, FS_Subset
    <3>4. Cardinality(U) \in Nat /\ Cardinality(V) \in Nat /\ Cardinality(M) \in Nat
      BY <1>1, <2>6, FS_CardinalityType
    <3> QED
      BY <1>1, <3>1, <3>2, <3>3, <3>4
  <2>8. Cardinality(V) <= Cardinality(S \cap L) /\ Cardinality(V) \in Nat
    BY <1>8, <2>6, <2>7, FS_CardinalityType
  <2>9. new \subseteq old \cup V
    BY <1>2, <1>6
  <2>10. Cardinality(old \cup V) <= Cardinality(old) + Cardinality(V) /\ IsFiniteSet(old \cup V)
    <3>1. Cardinality(old \cap V) \in Nat
      BY <1>7, FS_Intersection, FS_CardinalityType
    <3>2. Cardinality(old \cup V) = Cardinality(old) + Cardinality(V) - Cardinality(old \cap V)
          /\ IsFiniteSet(old \cup V)
      BY <1>7, <2>6, FS_Union
    <3> QED
      BY <1>8, <2>8, <3>1, <3>2
  <2>11. Cardinality(new) <= Cardinality(old \cup V) /\ Cardinality(old \cup V) \in Nat
    BY <2>9, <2>10, FS_Subset, FS_CardinalityType
  <2>12. Cardinality(new) <= Cardinality(old) + Cardinality(S \cap L)
    BY <1>8, <2>8, <2>10, <2>11
  <2> QED
    BY <1>2, <1>7, <2>12 DEF L
<1> QED
  BY <1>9, <1>10

-----------------------------------------------------------------------------
(* Each statement that changes the table accounts for the rows it rewrites. *)
LEMMA StatementsAreApart ==
    ASSUME Typed, Typed'
    PROVE  /\ \A i \in Ids : \A f, m : Insert(i, f, m) => Written({i}) /\ Apart({i})
           /\ \A i \in Ids : \A f : Update(i, f) => Written({i}) /\ Apart({i})
           /\ \A S \in SUBSET Ids : SoftDelete(S) => Written(S) /\ Apart(S)
<1>1. tasks \in [Ids -> Rows \cup {None}] /\ tasks' \in [Ids -> Rows \cup {None}]
  BY DEF Typed
<1>2. ASSUME NEW i \in Ids, NEW f, NEW m, Insert(i, f, m) PROVE Written({i}) /\ Apart({i})
  BY <1>1, <1>2 DEF Insert, Apart
<1>3. ASSUME NEW i \in Ids, NEW f, Update(i, f) PROVE Written({i}) /\ Apart({i})
  BY <1>1, <1>3 DEF Update, Apart
<1>4. ASSUME NEW S \in SUBSET Ids, SoftDelete(S) PROVE Written(S) /\ Apart(S)
  BY <1>1, <1>4 DEF SoftDelete, Apart
<1> QED
  BY <1>2, <1>3, <1>4

(* What a step may do to the table and to the walk. *)
Rewrites == \E S \in SUBSET Ids : Written(S) /\ Apart(S)
Keeps == tasks' = tasks /\ (walk' = walk \/ StartWalk \/ TaskAll)

(* A request of the web UI, of an MCP tool or of a CalDAV client. *)
LEMMA ServiceWalk ==
    ASSUME Typed, Typed',
           \/ \E i \in Ids, t \in Titles : Create(i, t) \/ Patch(i, t)
           \/ \E i \in Ids : Complete(i) \/ Delete(i)
           \/ \E i \in Ids, t \in Titles, s \in Statuses \cup {None} :
                  Put(i, [title |-> t, status |-> s])
           \/ \E c \in calls : Finish(c)
           \/ PurgeCompleted \/ PurgeDeleted
    PROVE  Rewrites \/ Keeps
<1>1. ASSUME NEW op, NEW i, NEW f, Begin(op, i, f) PROVE Keeps
  BY <1>1 DEF Begin, store, Keeps
<1>2. \A i \in Ids : {i} \in SUBSET Ids
  OBVIOUS
<1>3. ASSUME NEW i \in Ids, NEW t \in Titles, Create(i, t) PROVE Rewrites
  BY <1>2, <1>3, StatementsAreApart DEF Create, Rewrites
<1>4. ASSUME NEW i \in Ids, Delete(i) PROVE Rewrites
  BY <1>2, <1>4, StatementsAreApart DEF Delete, Rewrites
<1>5. ASSUME NEW c \in calls, Finish(c) PROVE Rewrites \/ Keeps
  <2>1. c.id \in Ids
    BY DEF Typed
  <2>2. CASE Update(c.id, c.fields)
    BY <1>2, <2>1, <2>2, StatementsAreApart DEF Rewrites
  <2>3. CASE \E m \in Stamps(c.fields) : Insert(c.id, c.fields, m)
    BY <1>2, <2>1, <2>3, StatementsAreApart DEF Rewrites
  <2>4. CASE UNCHANGED <<store, clock, device, seen, walk, fresh, history>>
    BY <2>4 DEF store, Keeps
  <2> QED
    BY <1>5, <2>2, <2>3, <2>4 DEF Finish
<1>6. CASE PurgeCompleted
  <2> DEFINE done == {i \in Live : tasks[i].status = "completed"}
  <2>1. done \in SUBSET Ids /\ SoftDelete(done)
    BY <1>6 DEF PurgeCompleted, Live
  <2> QED
    BY <2>1, StatementsAreApart DEF Rewrites
<1>7. CASE PurgeDeleted
  <2> DEFINE old == {i \in Ids : /\ Exists(i) /\ tasks[i].deleted
                                 /\ tasks[i].modified + Window < clock}
  <2>1. /\ old \in SUBSET Ids /\ Written(old)
        /\ tasks' = [i \in Ids |-> IF i \in old THEN None ELSE tasks[i]]
    BY <1>7 DEF PurgeDeleted
  <2> HIDE DEF old
  <2>2. Apart(old)
    BY <2>1 DEF Apart, Typed
  <2> QED
    BY <2>1, <2>2 DEF Rewrites
<1> QED
  BY <1>1, <1>3, <1>4, <1>5, <1>6, <1>7 DEF Patch, Complete, Put

(* The device's own steps and its requests. *)
LEMMA DeviceWalk ==
    ASSUME Typed, Typed',
           \/ \E i \in Ids, t \in Titles : Draft(i, t)
           \/ \E i \in Ids, f \in Fields : Edit(i, f)
           \/ \E i \in Ids : Repeated(i) \/ TaskCreate(i) \/ TaskCreateFails(i)
                             \/ TaskUpdate(i) \/ TaskDelete(i)
           \/ \E b \in seen : Expire(b)
           \/ \E S \in SUBSET Ids : TaskListUpdate(S)
           \/ \E b \in batch : UpdateItem(b) \/ CreateItem(b)
           \/ StartWalk \/ TaskAll
    PROVE  Rewrites \/ Keeps
<1>1. \A i \in Ids : {i} \in SUBSET Ids
  OBVIOUS
<1>2. ASSUME NEW i \in Ids, TaskCreate(i) \/ TaskUpdate(i) \/ TaskDelete(i) PROVE Rewrites
  BY <1>1, <1>2, StatementsAreApart DEF TaskCreate, TaskUpdate, TaskDelete, Rewrites
<1>3. ASSUME NEW b \in batch, UpdateItem(b) \/ CreateItem(b) PROVE Rewrites \/ Keeps
  <2>1. b.id \in Ids
    BY DEF Typed
  <2>2. CASE Update(b.id, SPCToTask(b.fields))
    BY <1>1, <2>1, <2>2, StatementsAreApart DEF Rewrites
  <2>3. CASE \E m \in Times : Insert(b.id, SPCToTask(b.fields), m)
    BY <1>1, <2>1, <2>3, StatementsAreApart DEF Rewrites
  <2>4. CASE UNCHANGED <<store, walk>>
    BY <2>4 DEF store, Keeps
  <2> QED
    BY <1>3, <2>2, <2>3, <2>4 DEF UpdateItem, CreateItem
<1>4. ASSUME NEW i \in Ids, NEW t \in Titles, Draft(i, t) PROVE Keeps
  BY <1>4 DEF Draft, store, Keeps
<1>5. ASSUME NEW i \in Ids, NEW f \in Fields, Edit(i, f) PROVE Keeps
  BY <1>5 DEF Edit, store, Keeps
<1>6. ASSUME NEW i \in Ids, Repeated(i) \/ TaskCreateFails(i) PROVE Keeps
  BY <1>6 DEF Repeated, TaskCreateFails, store, Keeps
<1>7. ASSUME NEW b \in seen, Expire(b) PROVE Keeps
  BY <1>7 DEF Expire, store, Keeps
<1>8. ASSUME NEW S \in SUBSET Ids, TaskListUpdate(S) PROVE Keeps
  BY <1>8 DEF TaskListUpdate, store, Keeps
<1>9. CASE StartWalk \/ TaskAll
  BY <1>9 DEF StartWalk, TaskAll, store, Keeps
<1> QED
  BY <1>2, <1>3, <1>4, <1>5, <1>6, <1>7, <1>8, <1>9

(* A page takes PageSize places of the list at most. *)
LEMMA PageFits ==
    ASSUME Typed, NEW o \in Nat, NEW page,
           page = {i \in Live : o <= Position(i) /\ Position(i) < o + PageSize}
    PROVE  Cardinality(page) \in Nat /\ Cardinality(page) <= PageSize
<1> DEFINE L == Below(o)
           M == Below(o + PageSize)
<1>1. PageSize \in Nat /\ o + PageSize \in Nat
  BY TaskAssumption
<1>2. IsFiniteSet(L) /\ IsFiniteSet(M) /\ Cardinality(M) <= o + PageSize
      /\ \A x \in Live : o <= Position(x) => o <= Cardinality(L)
  BY <1>1, Places DEF PlacesFit
<1>3. page = M \ L /\ M \cap L = L
  BY <1>1, Sorted DEF Below, InOrder
<1>4. IsFiniteSet(page) /\ Cardinality(page) = Cardinality(M) - Cardinality(L)
      /\ Cardinality(page) \in Nat
  BY <1>2, <1>3, FS_Difference, FS_CardinalityType
<1>5. Cardinality(L) \in Nat /\ Cardinality(M) \in Nat
  BY <1>2, FS_CardinalityType
<1>6. CASE page = {}
  BY <1>1, <1>4, <1>6, FS_EmptySet
<1>7. CASE page # {}
  <2>1. o <= Cardinality(L)
    BY <1>2, <1>7
  <2> HIDE DEF L, M
  <2> QED
    BY <1>1, <1>2, <1>4, <1>5, <2>1
<1> QED
  BY <1>4, <1>6, <1>7

(* The walk starts, and goes on page by page. *)
LEMMA Pages ==
    ASSUME Typed, Walk, Keeps
    PROVE  Walk'
<1>1. tasks' = tasks
  BY DEF Keeps
<1>2. Live' = Live /\ \A i : Position(i)' = Position(i)
  BY <1>1 DEF Live, Exists, Position, Before
<1>3. CASE walk' = walk
  BY <1>2, <1>3 DEF Walk, Skipped
<1>4. CASE StartWalk
  <2>1. walk' = [offset |-> 0, owed |-> Live, shifts |-> 0, done |-> FALSE]
    BY <1>4 DEF StartWalk
  <2>2. \A i \in Live : Position(i) \in Nat
    BY Sorted DEF InOrder
  <2>3. Skipped' = {}
    BY <1>2, <2>1, <2>2 DEF Skipped
  <2>4. Cardinality(Skipped') = 0
    BY <2>3, FS_EmptySet
  <2> QED
    BY <1>2, <2>1, <2>4 DEF Walk
<1>5. CASE TaskAll
  <2> DEFINE page == {i \in Live : /\ walk.offset <= Position(i)
                                   /\ Position(i) < walk.offset + PageSize}
             o == walk.offset + Cardinality(page)
  <2>1. /\ walk # None
        /\ walk' = [walk EXCEPT !.offset = o, !.owed = @ \ page, !.done = IsLast(page)]
    BY <1>5 DEF TaskAll, Walking, NextPage
  <2>2. /\ walk \in [offset : Nat, owed : SUBSET Live, shifts : Nat, done : BOOLEAN]
        /\ Cardinality(Skipped) <= walk.shifts
    BY <2>1 DEF Walk
  <2>3. Cardinality(page) \in Nat /\ Cardinality(page) <= PageSize
    BY <2>2, PageFits
  <2>4. \A i \in Live : Position(i) \in Nat
    BY Sorted DEF InOrder
  <2>5. \A i \in Live \ page : Position(i) < o => Position(i) < walk.offset
    BY <2>2, <2>3, <2>4, TaskAssumption
  <2>6. o \in Nat /\ IsLast(page) \in BOOLEAN
    BY <2>2, <2>3 DEF IsLast
  <2> HIDE DEF page, o
  <2>7. /\ walk' \in [offset : Nat, owed : SUBSET Live, shifts : Nat, done : BOOLEAN]
        /\ walk'.offset = o /\ walk'.owed = walk.owed \ page /\ walk'.shifts = walk.shifts
    BY <2>1, <2>2, <2>6
  <2>8. Skipped' \subseteq Skipped
    BY <1>2, <2>2, <2>5, <2>7 DEF Skipped
  <2>9. IsFiniteSet(Skipped)
    BY <2>2, Sorted, FS_Subset DEF InOrder, Skipped
  <2>10. /\ Cardinality(Skipped') <= Cardinality(Skipped)
         /\ Cardinality(Skipped') \in Nat /\ Cardinality(Skipped) \in Nat
    BY <2>8, <2>9, FS_Subset, FS_CardinalityType
  <2> QED
    BY <1>2, <2>2, <2>7, <2>10 DEF Walk
<1> QED
  BY <1>3, <1>4, <1>5 DEF Keeps

(* A statement takes what it rewrites out of the walk, and accounts for what
   it moves. *)
LEMMA Statements ==
    ASSUME Typed, Typed', Walk, Rewrites
    PROVE  Walk'
<1> PICK S \in SUBSET Ids : Written(S) /\ Apart(S)
  BY DEF Rewrites
<1>1. CASE walk = None
  BY <1>1 DEF Written, Walk
<1>2. CASE walk # None
  <2> DEFINE k == Cardinality({i \in S \cap Live : Position(i) < walk.offset})
             owed == walk.owed \ S
  <2>1. /\ walk \in [offset : Nat, owed : SUBSET Live, shifts : Nat, done : BOOLEAN]
        /\ Cardinality(Skipped) <= walk.shifts
    BY <1>2 DEF Walk
  <2>2. walk' = [walk EXCEPT !.owed = owed, !.shifts = @ + k]
    BY <1>2 DEF Written
  <2>3. k = Cardinality(S \cap Below(walk.offset)) /\ k \in Nat
    <3>1. {i \in S \cap Live : Position(i) < walk.offset} = S \cap Below(walk.offset)
      BY DEF Below
    <3>2. IsFiniteSet(S \cap Below(walk.offset))
      BY <2>1, Places, FS_Intersection DEF PlacesFit
    <3> QED
      BY <3>1, <3>2, FS_CardinalityType
  <2>4. owed \in SUBSET (Live \ S)
    BY <2>1
  <2> HIDE DEF k, owed
  <2>5. /\ walk'.offset = walk.offset /\ walk'.owed = owed
        /\ walk'.shifts = walk.shifts + k /\ walk'.done = walk.done
    BY <2>1, <2>2
  <2> DEFINE old == {i \in owed : Position(i) < walk.offset}
  <2>6. /\ IsFiniteSet(owed) /\ owed \subseteq Live'
        /\ Cardinality(Skipped') <= Cardinality(old) + k
    <3>1. Skipped' = {i \in owed : Position(i)' < walk.offset}
      BY <2>5 DEF Skipped
    <3> QED
      BY <2>1, <2>3, <2>4, <3>1, Shifted
  <2>7. walk' \in [offset : Nat, owed : SUBSET (Live'), shifts : Nat, done : BOOLEAN]
    <3>1. walk' = [offset |-> walk.offset, owed |-> owed, shifts |-> walk.shifts + k,
                   done |-> walk.done]
      BY <2>1, <2>2
    <3>2. owed \in SUBSET (Live')
      BY <2>6
    <3>3. walk.offset \in Nat /\ walk.shifts + k \in Nat /\ walk.done \in BOOLEAN
      BY <2>1, <2>3
    <3> QED
      BY <3>1, <3>2, <3>3
  <2>8. old \subseteq Skipped
    BY DEF owed, Skipped
  <2>9. IsFiniteSet(Skipped) /\ IsFiniteSet(Skipped')
    BY <2>1, <2>5, <2>6, Sorted, FS_Subset DEF InOrder, Skipped
  <2>10. /\ Cardinality(old) <= Cardinality(Skipped) /\ Cardinality(old) \in Nat
         /\ Cardinality(Skipped) \in Nat /\ Cardinality(Skipped') \in Nat
    BY <2>8, <2>9, FS_Subset, FS_CardinalityType
  <2>11. Cardinality(Skipped') <= walk'.shifts
    BY <2>1, <2>3, <2>5, <2>6, <2>10
  <2> QED
    BY <2>7, <2>11 DEF Walk
<1> QED
  BY <1>1, <1>2

(* Every step leaves the walk accounted for. *)
LEMMA WalkStep == IInv /\ Walk /\ [Next]_vars => Walk'
<1> SUFFICES ASSUME IInv, Walk, [Next]_vars PROVE Walk'
  OBVIOUS
<1>1. Typed /\ Typed'
  BY NextStep DEF IInv
<1>2. CASE Tick \/ UNCHANGED vars
  <2>1. Keeps
    BY <1>2 DEF Tick, vars, store, Keeps
  <2> QED
    BY <1>1, <2>1, Pages
<1>3. Rewrites \/ Keeps => Walk'
  BY <1>1, Pages, Statements
<1> QED
  BY <1>1, <1>2, <1>3, ServiceWalk, DeviceWalk DEF Next

(* The walks of the device pass over no more tasks than were moved under
   them, for lists and pages of any length. *)
THEOREM SkipsAreAccountedHolds == Spec => []SkipsAreAccounted
<1>1. Init => Walk
  BY DEF Init, Walk
<1>2. Walk => SkipsAreAccounted
  BY DEF Walk, SkipsAreAccounted, Skipped
<1> QED
  BY <1>1, <1>2, WalkStep, Inductive, PTL DEF Spec

-----------------------------------------------------------------------------
(* The bounds of the model, and the parts of the state that only its history
   uses. *)
Bounded ==
    /\ writes \in 0..MaxWrites /\ faults \in 0..MaxFaults
    /\ lost \subseteq Ids /\ failed \subseteq seen

(* The bounds are kept, and what is lost are tasks. *)
LEMMA BoundedStep == Typed /\ Bounded /\ [Next]_vars => Bounded'
<1> SUFFICES ASSUME Typed, Bounded, [Next]_vars PROVE Bounded'
  OBVIOUS
<1> USE TaskAssumption DEF Bounded
<1>1. (Request \/ UNCHANGED bounds \/ Fault)
         => writes' \in 0..MaxWrites /\ faults' \in 0..MaxFaults
  BY DEF Request, Fault, bounds
<1>2. CASE Tick \/ StartWalk \/ UNCHANGED vars
  BY <1>1, <1>2 DEF Tick, StartWalk, vars, history
<1>3. ASSUME NEW op, NEW i, NEW f, Begin(op, i, f) PROVE Bounded'
  BY <1>1, <1>3 DEF Begin, history
<1>4. ASSUME NEW i \in Ids, NEW t \in Titles, Create(i, t) \/ Patch(i, t) \/ Draft(i, t)
      PROVE  Bounded'
  BY <1>1, <1>3, <1>4 DEF Create, Patch, Draft, Others, history
<1>5. ASSUME NEW i \in Ids, Complete(i) \/ Delete(i) PROVE Bounded'
  BY <1>1, <1>3, <1>5 DEF Complete, Delete, Others, history
<1>6. ASSUME NEW i \in Ids, NEW f, Put(i, f) PROVE Bounded'
  BY <1>3, <1>6 DEF Put
<1>7. ASSUME NEW c \in calls, Finish(c) PROVE Bounded'
  BY <1>1, <1>7 DEF Finish, Others, history
<1>8. CASE PurgeCompleted \/ PurgeDeleted
  BY <1>1, <1>8 DEF PurgeCompleted, PurgeDeleted, Others, history
<1>9. ASSUME NEW i \in Ids, NEW f \in Fields, Edit(i, f) PROVE Bounded'
  BY <1>1, <1>9 DEF Edit, history
<1>10. ASSUME NEW i \in Ids, Repeated(i) \/ TaskCreate(i) \/ TaskCreateFails(i)
       PROVE  Bounded'
  BY <1>1, <1>10 DEF Repeated, TaskCreate, TaskCreateFails
<1>11. ASSUME NEW i \in Ids, TaskUpdate(i) \/ TaskDelete(i) PROVE Bounded'
  BY <1>1, <1>11 DEF TaskUpdate, TaskDelete, Served, history
<1>12. ASSUME NEW b \in seen, Expire(b) PROVE Bounded'
  BY <1>1, <1>12 DEF Expire
<1>13. ASSUME NEW S \in SUBSET Ids, TaskListUpdate(S) PROVE Bounded'
  BY <1>1, <1>13 DEF TaskListUpdate, history
<1>14. ASSUME NEW b \in batch PROVE b.id \in Ids
  BY DEF Typed
<1>15. ASSUME NEW b \in batch, UpdateItem(b) \/ CreateItem(b) PROVE Bounded'
  BY <1>1, <1>14, <1>15 DEF UpdateItem, CreateItem, Served, history
<1>16. CASE TaskAll
  BY <1>1, <1>16 DEF TaskAll
<1> QED
  BY <1>2, <1>4, <1>5, <1>6, <1>7, <1>8, <1>9, <1>10, <1>11, <1>12, <1>13, <1>15, <1>16
  DEF Next

(* The state keeps its shape, and a walk owes only tasks that are there. *)
THEOREM TypeCorrect == Spec => []TypeOK
<1>1. Init => Walk /\ Bounded
  BY TaskAssumption DEF Init, Walk, Bounded
<1>2. IInv => Typed
  BY DEF IInv
<1>3. Typed /\ Walk /\ Bounded => TypeOK
  <2> SUFFICES ASSUME Typed, Walk, Bounded PROVE TypeOK
    OBVIOUS
  <2>1. ASSUME NEW i \in Ids, tasks[i] # None
        PROVE  /\ TaskToSPC(tasks[i]) \in Fields
               /\ tasks[i].modified \in Times /\ tasks[i].deleted \in BOOLEAN
    BY <2>1 DEF Typed, Rows, Fields, TaskToSPC
  <2>2. walk # None => walk.owed \subseteq Live
    BY DEF Walk
  <2> QED
    BY <2>1, <2>2 DEF TypeOK, Typed, Bounded
<1> QED
  BY <1>1, <1>2, <1>3, WalkStep, BoundedStep, Inductive, PTL DEF Spec
=============================================================================
