-------------------------------- MODULE Tasks --------------------------------
(***************************************************************************)
(* The tasks of the bridge: the table that owns them (internal/taskdb) and *)
(* everybody who writes it at the same time, none of them in a             *)
(* transaction: the web UI and the MCP tools (internal/service/task.go),   *)
(* CalDAV clients (internal/caldav) and the device, which edits copies of  *)
(* its own, sends them in batches and reads the table page by page         *)
(* (internal/spcserver/handlers/schedule.go, mapping, dedup).              *)
(*                                                                         *)
(* Each statement of the database is a step.  Of the columns, those that a *)
(* client sees change are kept: title, status, last_modified, is_deleted.  *)
(* An id stands for the MD5 of a title and a time; ids are ordered as the  *)
(* strings are.                                                            *)
(***************************************************************************)
EXTENDS Naturals, FiniteSets

CONSTANTS
    Ids,            \* task ids
    Titles,
    PageSize,       \* tasks per page of /schedule/task/all
    Window,         \* age from which deleted tasks may be purged
    MaxTime,        \* bound: the clock
    MaxWrites,      \* bound: requests that change a task
    MaxFaults,      \* bound: failed statements and lost answers
    None            \* no row, no copy, no walk; a VTODO without STATUS

ASSUME TaskAssumption ==
    /\ Ids \subseteq Nat /\ IsFiniteSet(Ids)
    /\ PageSize \in Nat \ {0} /\ Window \in Nat
    /\ MaxTime \in Nat \ {0} /\ MaxWrites \in Nat /\ MaxFaults \in Nat
    /\ None \notin Titles \cup {"needsAction", "completed"}
    /\ None \notin [title : Titles, status : {"needsAction", "completed"}]
    /\ None \notin [title : Titles, status : {"needsAction", "completed"},
                    modified : Nat, deleted : BOOLEAN]

VARIABLES
    tasks,      \* the table: a row of each id, or None
    clock,      \* time.Now, as far as last_modified tells times apart
    calls,      \* requests between their Get and their Create or Update
    copies,     \* the device's copy of each task, or None
    unsent,     \* tasks made on the device whose create was not answered OK
    seen,       \* dedup.Checker: creates of the last second
    batch,      \* the items left of the device's bulk update
    walk,       \* the device's way through the pages, or None
    gone,       \* history: when each task was last deleted
    fresh,      \* history: copies the server gave or acknowledged, and whose
                \* row nobody has written since
    failed,     \* history: creates of the last second that were not stored
    lost,       \* history: tasks with a write acknowledged but not stored
    writes, faults

store == <<tasks, gone>>
device == <<copies, unsent, batch>>
history == <<failed, lost>>
bounds == <<writes, faults>>
vars == <<store, clock, calls, device, seen, walk, fresh, history, bounds>>

Statuses == {"needsAction", "completed"}
Fields == [title : Titles, status : Statuses]
Times == 1..MaxTime

(* The server starts with tasks of before; the device has them or is new. *)
Init ==
    \E old \in SUBSET Ids, t \in Titles :
        /\ tasks = [i \in Ids |-> IF i \notin old THEN None
                      ELSE [title |-> t, status |-> "needsAction", modified |-> 1,
                            deleted |-> FALSE]]
        /\ fresh \in {{}, old}
        /\ copies = [i \in Ids |-> IF i \notin fresh THEN None
                                   ELSE [title |-> t, status |-> "needsAction"]]
    /\ gone = [i \in Ids |-> 1] /\ unsent = {} /\ batch = {}
    /\ clock = 1 /\ calls = {} /\ seen = {} /\ walk = None
    /\ failed = {} /\ lost = {}
    /\ writes = 0 /\ faults = 0

Request == writes < MaxWrites /\ writes' = writes + 1 /\ UNCHANGED faults
Fault == faults < MaxFaults /\ faults' = faults + 1 /\ UNCHANGED writes

Tick == clock < MaxTime /\ clock' = clock + 1
        /\ UNCHANGED <<store, calls, device, seen, walk, fresh, history, bounds>>
-----------------------------------------------------------------------------
(* The table. *)

Exists(i) == tasks[i] # None

Live == {i \in Ids : Exists(i) /\ ~tasks[i].deleted}

(* The list is sorted by last_modified, then id; Position counts from 0. *)
Before(i, j) ==
    \/ tasks[i].modified < tasks[j].modified
    \/ tasks[i].modified = tasks[j].modified /\ i < j

Position(i) == Cardinality({j \in Live : Before(j, i)})

(* A statement has written the tasks of S: what the device holds of them is
   old, and those it had been given in this walk leave their place. *)
Written(S) ==
    walk' = IF walk = None THEN None
            ELSE [walk EXCEPT !.owed = @ \ S,
                              !.shifts = @ + Cardinality({i \in S \cap Live :
                                                  Position(i) < walk.offset})]

(* Create: an INSERT with a default for the status; it fails for an id that
   has a row, a soft-deleted one too.  last_modified may come from a client. *)
Insert(i, f, m) ==
    /\ ~Exists(i)
    /\ tasks' = [tasks EXCEPT ![i] = [title |-> f.title, modified |-> m, deleted |-> FALSE,
                    status |-> IF f.status = None THEN "needsAction" ELSE f.status]]
    /\ Written({i}) /\ UNCHANGED gone

(* Mutant: is_deleted is written with the other columns. *)
UpdateDeleted(i, f) ==
    /\ Exists(i) /\ f.status # None
    /\ tasks' = [tasks EXCEPT ![i] = [title |-> f.title, status |-> f.status,
                                      modified |-> clock, deleted |-> FALSE]]
    /\ Written({i}) /\ UNCHANGED gone

(* Update: by id alone, soft-deleted or not.  The status must not be NULL. *)
Update(i, f) ==
    /\ Exists(i) /\ f.status # None
    /\ tasks' = [tasks EXCEPT ![i].title = f.title, ![i].status = f.status,
                              ![i].modified = clock]
    /\ Written({i}) /\ UNCHANGED gone

(* Delete, DeleteCompleted: a tombstone, dated now. *)
SoftDelete(S) ==
    /\ tasks' = [i \in Ids |-> IF i \in S
                               THEN [tasks[i] EXCEPT !.deleted = TRUE, !.modified = clock]
                               ELSE tasks[i]]
    /\ gone' = [i \in Ids |-> IF i \in S THEN clock ELSE gone[i]]
    /\ Written(S)

(* A statement that is not the device's own. *)
Others(S) == fresh' = fresh \ S /\ UNCHANGED <<clock, device, seen, history>>
-----------------------------------------------------------------------------
(* The web UI, the MCP tools and CalDAV clients. *)

(* taskService.Create; the id is new. *)
Create(i, t) ==
    /\ Request
    /\ Insert(i, [title |-> t, status |-> "needsAction"], clock)
    /\ Others({i}) /\ UNCHANGED calls

Begin(op, i, f) ==
    /\ Request
    /\ calls' = calls \cup {[op |-> op, id |-> i, fields |-> f]}
    /\ UNCHANGED <<store, clock, device, seen, walk, fresh, history>>

Row(i) == [title |-> tasks[i].title, status |-> tasks[i].status]

(* taskService.Update and Complete: what they will write is fixed by what
   they read, the columns they do not mean to change included. *)
Patch(i, t) == i \in Live /\ Begin("update", i, [Row(i) EXCEPT !.title = t])
Complete(i) == i \in Live /\ Begin("update", i, [Row(i) EXCEPT !.status = "completed"])

(* PutCalendarObject: any VTODO, whatever the client last read (If-Match is
   not looked at); Get decides between Create and Update. *)
Put(i, f) == Begin(IF i \in Live THEN "update" ELSE "insert", i, f)

(* last_modified of a new VTODO: its COMPLETED, or now. *)
Stamps(f) == IF f.status = "completed" THEN Times ELSE {clock}

(* The second half of the request, or its failure. *)
Finish(c) ==
    /\ c \in calls /\ calls' = calls \ {c}
    /\ \/ /\ c.op = "update" /\ Update(c.id, c.fields)
          /\ Others({c.id})
       \/ /\ c.op = "insert" /\ \E m \in Stamps(c.fields) : Insert(c.id, c.fields, m)
          /\ Others({c.id})
       \/ /\ IF c.op = "insert" THEN Exists(c.id)
             ELSE ~Exists(c.id) \/ c.fields.status = None
          /\ UNCHANGED <<store, clock, device, seen, walk, fresh, history>>
    /\ UNCHANGED bounds

(* taskService.Delete, DeleteCalendarObject: a deleted task may be deleted
   again. *)
Delete(i) ==
    /\ Request /\ Exists(i)
    /\ SoftDelete({i}) /\ Others({i}) /\ UNCHANGED calls

PurgeCompleted ==
    LET done == {i \in Live : tasks[i].status = "completed"} IN
    /\ Request /\ done # {}
    /\ SoftDelete(done) /\ Others(done) /\ UNCHANGED calls

(* HardDeleteOlderThan, the only DELETE.  The window is in days: a create
   that was stored has left the dedup window long before. *)
PurgeDeleted ==
    LET old == {i \in Ids : /\ Exists(i) /\ tasks[i].deleted
                            /\ tasks[i].modified + Window < clock} IN
    /\ Request /\ old # {}
    /\ \A b \in seen \ failed : b.id \notin old
    /\ tasks' = [i \in Ids |-> IF i \in old THEN None ELSE tasks[i]]
    /\ Written(old) /\ Others(old) /\ UNCHANGED <<gone, calls>>
-----------------------------------------------------------------------------
(* The device. *)

(* TaskToSPC and SPCToTask: the status goes through as it is. *)
TaskToSPC(r) == [title |-> r.title, status |-> r.status]

(* Mutant: the status is converted as that of a VTODO is. *)
SPCToTaskCased(s) == [title |-> s.title, status |-> "needsAction"]

SPCToTask(s) == [title |-> s.title, status |-> s.status]

(* A task made on the device has an id of the device's, and is open. *)
Draft(i, t) ==
    /\ Request
    /\ ~Exists(i) /\ copies[i] = None /\ \A c \in calls : c.id # i
    /\ copies' = [copies EXCEPT ![i] = [title |-> t, status |-> "needsAction"]]
    /\ unsent' = unsent \cup {i}
    /\ UNCHANGED <<store, clock, calls, batch, seen, walk, fresh, history>>

Edit(i, f) ==
    /\ Request
    /\ copies[i] \notin {None, f}
    /\ copies' = [copies EXCEPT ![i] = f] /\ fresh' = fresh \ {i}
    /\ UNCHANGED <<store, clock, calls, unsent, batch, seen, walk, history>>

Body(i) == [id |-> i, fields |-> copies[i]]

(* Checker.Seen, true: an identical create within the second is answered OK
   and has no other effect, whatever became of the first one. *)
Repeated(i) ==
    /\ i \in unsent /\ Body(i) \in seen
    /\ unsent' = unsent \ {i}
    /\ fresh' = IF Exists(i) /\ Body(i) \notin failed THEN fresh ELSE fresh \cup {i}
    /\ lost' = IF Body(i) \in failed THEN lost \cup {i} ELSE lost
    /\ UNCHANGED <<store, clock, calls, copies, batch, seen, walk, failed, bounds>>

(* Checker.Seen, false, and the effect of the create: the answer may not
   reach the device. *)
TaskCreate(i) ==
    /\ i \in unsent /\ Body(i) \notin seen
    /\ seen' = seen \cup {Body(i)}
    /\ \E m \in Times : Insert(i, SPCToTask(copies[i]), m)
    /\ fresh' = fresh \cup {i} /\ lost' = lost \ {i}
    /\ \/ unsent' = unsent \ {i} /\ UNCHANGED bounds
       \/ Fault /\ UNCHANGED unsent
    /\ UNCHANGED <<clock, calls, copies, batch, failed>>

(* The create fails, on the primary key or in the storage. *)
TaskCreateFails(i) ==
    /\ i \in unsent /\ Body(i) \notin seen
    /\ seen' = seen \cup {Body(i)} /\ failed' = failed \cup {Body(i)}
    /\ IF Exists(i) THEN UNCHANGED bounds ELSE Fault
    /\ UNCHANGED <<store, clock, calls, device, walk, fresh, lost>>

(* The second is over. *)
Expire(b) ==
    /\ b \in seen
    /\ seen' = seen \ {b} /\ failed' = failed \ {b}
    /\ UNCHANGED <<store, clock, calls, device, walk, fresh, lost, bounds>>

(* The row of task i is now what the device sent. *)
Served(i, f) ==
    /\ fresh' = IF copies[i] = f THEN fresh \cup {i} ELSE fresh \ {i}
    /\ lost' = lost \ {i}
    /\ UNCHANGED <<clock, calls, copies, unsent, seen, failed>>

(* PUT /schedule/task; a failed one is reported. *)
TaskUpdate(i) ==
    /\ Request
    /\ copies[i] # None /\ i \notin unsent
    /\ Update(i, SPCToTask(copies[i]))
    /\ Served(i, copies[i]) /\ UNCHANGED batch

(* PUT /schedule/task/list arrives: the device sends what it holds again. *)
TaskListUpdate(S) ==
    /\ Request
    /\ batch = {} /\ S # {} /\ S \cap unsent = {} /\ \A i \in S : copies[i] # None
    /\ batch' = {[id |-> i, fields |-> copies[i], stage |-> "update"] : i \in S}
    /\ UNCHANGED <<store, clock, calls, copies, unsent, seen, walk, fresh, history>>

UpdateItem(b) ==
    /\ b \in batch /\ b.stage = "update"
    /\ \/ /\ Update(b.id, SPCToTask(b.fields))
          /\ batch' = batch \ {b} /\ Served(b.id, b.fields) /\ UNCHANGED bounds
       \/ /\ IF Exists(b.id) THEN Fault ELSE UNCHANGED bounds
          /\ batch' = (batch \ {b}) \cup {[b EXCEPT !.stage = "create"]}
          /\ UNCHANGED <<store, clock, calls, copies, unsent, seen, walk, fresh, history>>

(* Any failed update is followed by a create, whose failure nobody sees. *)
CreateItem(b) ==
    /\ b \in batch /\ b.stage = "create"
    /\ batch' = batch \ {b}
    /\ \/ /\ \E m \in Times : Insert(b.id, SPCToTask(b.fields), m)
          /\ Served(b.id, b.fields) /\ UNCHANGED bounds
       \/ /\ IF Exists(b.id) THEN UNCHANGED bounds ELSE Fault
          /\ fresh' = fresh \cup {b.id} /\ lost' = lost \cup {b.id}
          /\ UNCHANGED <<store, clock, calls, copies, unsent, seen, walk, failed>>

TaskDelete(i) ==
    /\ Request
    /\ copies[i] # None /\ i \notin unsent /\ Exists(i)
    /\ SoftDelete({i})
    /\ copies' = [copies EXCEPT ![i] = None] /\ fresh' = fresh \ {i}
    /\ UNCHANGED <<clock, calls, unsent, batch, seen, history>>

Walking == walk # None /\ ~walk.done

(* The device asks for all tasks, from the first page on. *)
StartWalk ==
    /\ ~Walking
    /\ walk' = [offset |-> 0, owed |-> Live, shifts |-> 0, done |-> FALSE]
    /\ UNCHANGED <<store, clock, calls, device, seen, fresh, history, bounds>>

(* Mutant: the next page begins one too far. *)
NextPageLate(page) == walk.offset + Cardinality(page) + 1

NextPage(page) == walk.offset + Cardinality(page)

(* Mutant: one task is not worth a page. *)
IsLastSoon(page) == NextPage(page) + 1 >= Cardinality(Live)

IsLast(page) == NextPage(page) >= Cardinality(Live)

(* A page: the rows at these places of the list as it is now.  A cursor
   comes with it while there are more. *)
TaskAll ==
    LET page == {i \in Live : /\ walk.offset <= Position(i)
                              /\ Position(i) < walk.offset + PageSize}
    IN /\ Walking
       /\ walk' = [walk EXCEPT !.offset = NextPage(page), !.owed = @ \ page,
                               !.done = IsLast(page)]
       /\ copies' = [i \in Ids |-> IF i \in page THEN TaskToSPC(tasks[i]) ELSE copies[i]]
       /\ unsent' = unsent \ page
       /\ fresh' = fresh \cup page /\ lost' = lost \ page
       /\ UNCHANGED <<store, clock, calls, batch, seen, failed, bounds>>
-----------------------------------------------------------------------------
Next ==
    \/ Tick
    \/ \E i \in Ids, t \in Titles : Create(i, t) \/ Patch(i, t) \/ Draft(i, t)
    \/ \E i \in Ids : Complete(i) \/ Delete(i)
    \/ \E i \in Ids, t \in Titles, s \in Statuses \cup {None} :
           Put(i, [title |-> t, status |-> s])
    \/ \E c \in calls : Finish(c)
    \/ PurgeCompleted \/ PurgeDeleted
    \/ \E i \in Ids, f \in Fields : Edit(i, f)
    \/ \E i \in Ids : Repeated(i) \/ TaskCreate(i) \/ TaskCreateFails(i)
                      \/ TaskUpdate(i) \/ TaskDelete(i)
    \/ \E b \in seen : Expire(b)
    \/ \E S \in SUBSET Ids : TaskListUpdate(S)
    \/ \E b \in batch : UpdateItem(b) \/ CreateItem(b)
    \/ StartWalk \/ TaskAll

Spec == Init /\ [][Next]_vars

(* The device, told to (STARTSYNC) or by itself, lists the tasks again and
   again. *)
FairSpec == Spec /\ WF_vars(StartWalk \/ TaskAll)
-----------------------------------------------------------------------------
(* The shape of the state; a walk owes only tasks that are there. *)
TypeOK ==
    /\ \A i \in Ids : \/ tasks[i] = None
                      \/ /\ TaskToSPC(tasks[i]) \in Fields
                         /\ tasks[i].modified \in Times /\ tasks[i].deleted \in BOOLEAN
    /\ copies \in [Ids -> Fields \cup {None}] /\ gone \in [Ids -> Times]
    /\ clock \in Times /\ writes \in 0..MaxWrites /\ faults \in 0..MaxFaults
    /\ unsent \subseteq {i \in Ids : copies[i] # None}
    /\ fresh \subseteq Ids /\ lost \subseteq Ids /\ failed \subseteq seen
    /\ walk # None => walk.owed \subseteq Live

(* No write brings a deleted task back: not the second half of an update
   that had read it before it was deleted (PutCalendarObject,
   taskService.Update), nor a stale copy of the device (TaskListUpdate); the
   row stays a tombstone until it is purged.  And a row that is purged was
   deleted, and longer than the window ago, however old the task is and
   whoever wrote its tombstone since (HardDeleteOlderThan reads
   last_modified, which Delete sets). *)
TombstonesAreKept ==
    [][\A i \in Ids : Exists(i) =>
          /\ tasks'[i] # None => (tasks[i].deleted => tasks'[i].deleted)
          /\ tasks'[i] = None => tasks[i].deleted /\ gone[i] + Window < clock]_vars

(* What the device was given or told is stored, and what nobody has written
   since, is what the table shows of the task (TaskListUpdate, TaskCreate,
   TaskAll), except for the tasks in lost: an item of a bulk update that
   failed, and a create that was repeated within the second after it had
   failed, are answered OK. *)
AckedIsServed ==
    \A i \in fresh \ lost : Exists(i) /\ TaskToSPC(tasks[i]) = copies[i]

(* The cursor of TaskAll is an offset into a list that others reorder: a
   walk passes over as many of the tasks that nobody has touched as tasks it
   had been given were moved or deleted meanwhile, and no more. *)
SkipsAreAccounted ==
    walk # None =>
        Cardinality({i \in walk.owed : Position(i) < walk.offset}) <= walk.shifts

(* What one walk passes over, a later one finds: when the writing ends, the
   device holds every live task as the table has it, the writes that were
   acknowledged and not stored included. *)
DeviceCatchesUp == <>[](Live \subseteq fresh \ lost)
=============================================================================
