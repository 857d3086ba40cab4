-------------------------------- MODULE VTodo --------------------------------
(***************************************************************************)
(* One task of the bridge and the three shapes it has at once: the columns *)
(* of its row, the iCalendar object a CalDAV client last stored in it (the *)
(* blob), and the VTODO, made of both, that clients are served             *)
(* (internal/caldav/vtodo.go, backend.go; internal/service/task.go;        *)
(* internal/spcserver/mapping/task.go; internal/taskstore/mapping.go).     *)
(*                                                                         *)
(* A text is a pair of what was typed and how often it has been escaped:   *)
(* in a column not at all, in a VTODO once.  DESCRIPTION stands for        *)
(* PRIORITY too, CATEGORIES for COMMENT and the native URL, Tier 3 for all *)
(* that the bridge has no name for; a day has two instants.  Who deletes a *)
(* task, and the ids of tasks, are in Tasks.                               *)
(***************************************************************************)
EXTENDS Naturals, FiniteSets

CONSTANTS
    Words,          \* what people type
    Urls,           \* values of URL and of the column links
    Extras,         \* the properties of Tier 3, taken together
    Sources,        \* provenance of ForestNote: the X-FORESTNOTE- properties
    Days,           \* days a task can be due on
    Modes,          \* values of the setting due_time_mode
    Bodies,         \* VTODOs a client may make
    MaxTime,        \* bound: the clock, in milliseconds
    MaxWrites,      \* bound: requests that change the task
    MaxCalls,       \* bound: requests at a time
    MaxFaults,      \* bound: objects that cannot be encoded
    None            \* no row, no blob, no copy, no value

ASSUME VTodoAssumption ==
    /\ Days \subseteq Nat \ {0} /\ IsFiniteSet(Days)
    /\ Modes \subseteq {"preserve", "date_only", "datetime"}
    /\ MaxTime \in Nat \ {0} /\ MaxWrites \in Nat /\ MaxCalls \in Nat /\ MaxFaults \in Nat
    /\ None \notin {"completed", "needsAction", "COMPLETED"} \cup (Words \X {0, 1})

VARIABLES
    mode,       \* due_time_mode, fixed when the backend is made
    row,        \* the task's row, or None
    clock,      \* time.Now
    calls,      \* requests between their Get and their last statement
    cache,      \* what the CalDAV client has: an ETag and a VTODO
    copy,       \* what the device has
    meant,      \* history: each property as it was last written, and those lost since
    stamps,     \* history: the values last_modified has had
    shared,     \* history: those that two writes had
    writes, faults

history == <<meant, stamps, shared>>
bounds == <<writes, faults>>
vars == <<mode, row, clock, calls, cache, copy, history, bounds>>

Maybe(S) == S \cup {None}
Times == 1..MaxTime

(* Midnight and midday of a day; no due time is 0. *)
Midnight(d) == 2 * d
Midday(d) == 2 * d + 1
DayOf(at) == at - (at % 2)
Instants == UNION {{Midnight(d), Midday(d)} : d \in Days}

Plain(w) == <<w, 0>>
Texts == {Plain(w) : w \in Words}

(* Props.SetText, escapeICalText; Prop.Text, Prop.TextList. *)
SetText(t) == IF t = None THEN None ELSE <<t[1], t[2] + 1>>
Text(t) == IF t = None \/ t[2] = 0 THEN t ELSE <<t[1], t[2] - 1>>

(* The value of DUE, a VTODO as the bridge knows it, and what clients make. *)
Dues == [form : {"DATE", "DATE-TIME"}, at : Instants]

Vtodos ==
    [title : Maybe(Words \X {1}), detail : Maybe(Words \X {1}),
     status : Maybe({"COMPLETED", "NEEDS-ACTION", "IN-PROCESS"}),
     completed : Maybe(Times), due : Maybe(Dues),
     url : Maybe(Urls), meta : Maybe(Words \X {1}), extra : Maybe(Extras),
     source : Maybe(Sources)]

ASSUME BodyAssumption == Bodies \subseteq Vtodos /\ None \notin Vtodos /\ None \notin Dues

Init ==
    /\ mode \in Modes
    /\ row = None /\ clock = 1 /\ calls = {} /\ cache = None /\ copy = None
    /\ meant = None /\ stamps = {} /\ shared = {}
    /\ writes = 0 /\ faults = 0

Request == writes < MaxWrites /\ writes' = writes + 1 /\ UNCHANGED faults
Fault == faults < MaxFaults /\ faults' = faults + 1 /\ UNCHANGED writes

Tick == clock < MaxTime /\ clock' = clock + 1
        /\ UNCHANGED <<mode, row, calls, cache, copy, history, bounds>>
-----------------------------------------------------------------------------
(* From the row to the VTODO. *)

CalDAVStatus(s) == IF s = "completed" THEN "COMPLETED" ELSE "NEEDS-ACTION"

SupernoteStatus(s) == IF s = "COMPLETED" THEN "completed" ELSE "needsAction"

(* last_modified is the time of completion, as on the device. *)
CompletionTime(r) == IF r.status = "completed" THEN r.modified ELSE None

Due(form, at) == [form |-> form, at |-> IF form = "DATE" THEN DayOf(at) ELSE at]

(* setDueOnTodo: unless the setting says otherwise, DUE keeps the form that
   the VTODO at hand gives it. *)
SetDue(old, at) ==
    Due(CASE mode = "date_only" -> "DATE"
          [] mode = "datetime" -> "DATE-TIME"
          [] OTHER -> IF old = None THEN "DATE-TIME" ELSE old.form, at)

(* taskToVTODOFromFields. *)
FromFields(r) ==
    [title |-> SetText(r.title), detail |-> SetText(r.detail),
     status |-> CalDAVStatus(r.status), completed |-> CompletionTime(r),
     due |-> IF r.due = 0 THEN None ELSE SetDue(None, r.due),
     url |-> r.links, meta |-> None, extra |-> None, source |-> None]

(* taskToVTODOFromBlob: an empty column hides nothing of the blob, except
   the due time; the URL is the blob's. *)
FromBlob(r) ==
    [r.blob EXCEPT
        !.title = IF r.title = None THEN @ ELSE SetText(r.title),
        !.detail = IF r.detail = None THEN @ ELSE SetText(r.detail),
        !.status = CalDAVStatus(r.status), !.completed = CompletionTime(r),
        !.due = IF r.due = 0 THEN None ELSE SetDue(@, r.due)]

TaskToVTODO(r) == IF r.blob = None THEN FromFields(r) ELSE FromBlob(r)

(* Mutant: only what the user sees first. *)
ETagOfTitle(r) == <<r.title, r.status, r.due>>

(* ComputeETag: of these columns only. *)
ETag(r) == <<r.title, r.status, r.due, r.modified>>
-----------------------------------------------------------------------------
(* And back. *)

(* VTODOToTask: the columns from the properties, URL not among them, and the
   whole object as the blob, or no blob when it cannot be encoded. *)
VTODOToTask(v, blob) ==
    [title |-> Text(v.title), detail |-> Text(v.detail),
     status |-> IF v.status = None THEN None ELSE SupernoteStatus(v.status),
     due |-> IF v.due = None THEN 0
             ELSE IF mode = "date_only" THEN DayOf(v.due.at) ELSE v.due.at,
     links |-> None, source |-> v.source, blob |-> blob,
     modified |-> IF v.status = "COMPLETED" THEN v.completed ELSE None]

(* BuildBlobWithMetadata: what has no column, and nothing else. *)
BuildBlob(meta) ==
    IF meta = None THEN None
    ELSE [title |-> None, detail |-> None, status |-> None, completed |-> None,
          due |-> None, url |-> None, meta |-> SetText(meta), extra |-> None,
          source |-> None]

(* Mutant: the blob is made anew. *)
MergeAnew(blob, meta) == BuildBlob(meta)

(* MergeBlobMetadataPatch: the rest of the blob stays. *)
Merge(blob, meta) ==
    IF blob = None THEN BuildBlob(meta) ELSE [blob EXCEPT !.meta = SetText(meta)]

(* TaskToSPC, SPCToTask: the device knows the columns, and neither the blob
   nor the provenance. *)
TaskToSPC(r) == [title |-> r.title, detail |-> r.detail, status |-> r.status,
                 due |-> r.due, links |-> r.links]

SPCToTask(s) ==
    [title |-> s.title, detail |-> s.detail, status |-> s.status, due |-> s.due,
     links |-> s.links, source |-> None, blob |-> None, modified |-> None]
-----------------------------------------------------------------------------
(* The statements, and what their writer meant. *)

(* Now or as given; what was meant is known to nobody but the reader. *)
Stored(r, m, want) ==
    /\ row' = [r EXCEPT !.modified = m]
    /\ meant' = want
    /\ stamps' = stamps \cup {m}
    /\ shared' = IF m \in stamps THEN shared \cup {m} ELSE shared

(* Store.Update: every column, and last_modified is now, whatever the VTODO
   says of its completion. *)
Update(r, want) ==
    /\ row # None /\ r.status # None
    /\ Stored(r, clock, want)

(* Store.Create: a time of completion is taken over. *)
Insert(r, want) ==
    /\ row = None
    /\ Stored([r EXCEPT !.status = IF @ = None THEN "needsAction" ELSE @],
              IF r.modified = None THEN clock ELSE r.modified, want)

(* What only the blob holds, and what the columns say in its place. *)
BlobOnly(w) == [url |-> w.links, form |-> "DATE-TIME", meta |-> None, extra |-> None,
                origin |-> None]

(* A write without the blob, or without the provenance, loses what the task
   has of them. *)
LostBlob(w) == {p \in DOMAIN BlobOnly(w) : w[p] # BlobOnly(w)[p]}
LostSource(w) == {p \in {"source"} : w[p] # None}

(* What a client means by a VTODO: all of it, be the blob kept or not; links
   is the column that the put leaves as it is. *)
MeantByVTODO(v, kept, links) ==
    LET w == [title |-> Text(v.title), detail |-> Text(v.detail),
              status |-> IF v.status = "COMPLETED" THEN "COMPLETED" ELSE "NEEDS-ACTION",
              at |-> IF v.due = None THEN 0
                     ELSE IF mode = "date_only" THEN DayOf(v.due.at) ELSE v.due.at,
              form |-> IF v.due = None THEN "DATE-TIME" ELSE v.due.form,
              url |-> v.url, links |-> links, meta |-> Text(v.meta), extra |-> v.extra,
              origin |-> v.source, source |-> v.source, lost |-> {}]
    IN [w EXCEPT !.lost = IF kept THEN {} ELSE LostBlob(w)]

(* What a task means that is made of these columns. *)
MeantByNew(s) ==
    [title |-> s.title, detail |-> s.detail, status |-> CalDAVStatus(s.status),
     at |-> s.due, form |-> "DATE-TIME", url |-> s.links, links |-> s.links,
     meta |-> None, extra |-> None, origin |-> None, source |-> None, lost |-> {}]

(* What the device means by an update: the columns it knows, and the rest as
   it was; but what it writes has no rest. *)
MeantBySPC(s) ==
    LET w == [meant EXCEPT !.title = s.title, !.detail = s.detail,
                           !.status = CalDAVStatus(s.status), !.at = s.due, !.links = s.links,
                           !.url = IF @ = meant.links THEN s.links ELSE @]
    IN [w EXCEPT !.lost = LostBlob(w) \cup LostSource(w)]
-----------------------------------------------------------------------------
(* CalDAV clients. *)

(* GetCalendarObject, and the lists that are made of the same objects. *)
GetCalendarObject ==
    /\ row # None
    /\ cache' = [etag |-> ETag(row), body |-> TaskToVTODO(row), apart |-> FALSE]
    /\ UNCHANGED <<mode, row, clock, calls, copy, history, bounds>>

(* What a client puts: a task of its own making, or the one it has, changed
   in one place. *)
Edits ==
    IF cache = None THEN {}
    ELSE {[cache.body EXCEPT !.detail = SetText(t)] : t \in Maybe(Texts)}
         \cup {[cache.body EXCEPT !.status = s] : s \in {"COMPLETED", "IN-PROCESS"}}
         \cup {[cache.body EXCEPT !.due = Due("DATE", Midnight(d))] : d \in Days}

(* Mutant: the links are the client's to give. *)
CarriedNot(r) == r

(* The fields that a VTODO does not set. *)
Carried(r) == IF row = None THEN r ELSE [r EXCEPT !.links = row.links]

(* PutCalendarObject up to its Get, which decides between Create and Update;
   If-Match is not looked at. *)
PutCalendarObject(v) ==
    /\ writes < MaxWrites /\ writes' = writes + 1 /\ Cardinality(calls) < MaxCalls
    /\ \E blob \in {v, None} :
          /\ faults' = IF blob = None THEN faults + 1 ELSE faults
          /\ faults' <= MaxFaults
          /\ calls' = calls \cup
                {[op |-> IF row = None THEN "create" ELSE "put",
                  row |-> Carried(VTODOToTask(v, blob)), body |-> v,
                  want |-> MeantByVTODO(v, blob # None,
                              IF row = None THEN None ELSE row.links)]}
    /\ UNCHANGED <<mode, row, clock, cache, copy, history>>

(* The second read, and the answer: the client takes its ETag for that of
   what it sent, though others may have written since. *)
Answer(c) ==
    /\ c \in calls /\ c.op = "answer" /\ calls' = calls \ {c}
    /\ cache' = [etag |-> ETag(row), body |-> c.body,
                 apart |-> c.row # row \/ c.row.blob = None]
    /\ UNCHANGED <<mode, row, clock, copy, history, bounds>>
-----------------------------------------------------------------------------
(* The web UI and the MCP tools. *)

(* taskService.Create. *)
Create(t, u, m) ==
    LET s == [title |-> t, detail |-> None, status |-> "needsAction", due |-> 0, links |-> u]
    IN /\ Request
       /\ Insert([SPCToTask(s) EXCEPT !.blob = BuildBlob(m)],
                 [MeantByNew(s) EXCEPT !.meta = m])
       /\ UNCHANGED <<mode, clock, calls, cache, copy>>

Begin(r, want) ==
    /\ Request /\ Cardinality(calls) < MaxCalls
    /\ calls' = calls \cup {[op |-> "patch", row |-> r, body |-> None, want |-> want]}
    /\ UNCHANGED <<mode, row, clock, cache, copy, history>>

(* taskService.Update up to its write: the patch of one field, on the row
   that was read; Complete likewise. *)
PatchTitle(t) == row # None /\ Begin([row EXCEPT !.title = t], [meant EXCEPT !.title = t])
PatchDetail(t) == row # None /\ Begin([row EXCEPT !.detail = t], [meant EXCEPT !.detail = t])
PatchDue(at) == row # None /\ Begin([row EXCEPT !.due = at], [meant EXCEPT !.at = at])
PatchURL(u) == row # None /\ Begin([row EXCEPT !.links = u],
                                   [meant EXCEPT !.links = u, !.url = u, !.lost = @ \ {"url"}])
PatchMeta(m) == row # None /\ Begin([row EXCEPT !.blob = Merge(@, m)],
                                    [meant EXCEPT !.meta = m, !.lost = @ \ {"meta"}])
Complete == row # None /\ Begin([row EXCEPT !.status = "completed"],
                                [meant EXCEPT !.status = "COMPLETED"])

(* The write of a request, or its failure: a task that is there by now, or a
   VTODO without STATUS for one that was. *)
Finish(c) ==
    /\ c \in calls
    /\ \/ /\ IF c.op = "create" THEN Insert(c.row, c.want) ELSE Update(c.row, c.want)
          /\ c.op # "answer"
          /\ calls' = (calls \ {c}) \cup
                (IF c.op = "patch" THEN {} ELSE {[c EXCEPT !.op = "answer", !.row = row']})
       \/ /\ \/ c.op = "create" /\ row # None
             \/ c.op = "put" /\ c.row.status = None
          /\ calls' = calls \ {c} /\ UNCHANGED <<row, history>>
    /\ UNCHANGED <<mode, clock, cache, copy, bounds>>

(* mapInternalTask. *)
Shown(r) ==
    [title |-> r.title, detail |-> r.detail, at |-> r.due, links |-> r.links,
     source |-> r.source, meta |-> IF r.blob = None THEN None ELSE Text(r.blob.meta)]
-----------------------------------------------------------------------------
(* The device. *)

(* TaskAll, TaskGet. *)
TaskGet ==
    /\ row # None
    /\ copy' = TaskToSPC(row)
    /\ UNCHANGED <<mode, row, clock, calls, cache, history, bounds>>

(* TaskUpdate and an item of TaskListUpdate: the device changes the copy it
   has and sends all of it; the row is not read. *)
TaskUpdate(s) ==
    /\ Request
    /\ Update(SPCToTask(s), MeantBySPC(s))
    /\ copy' = s
    /\ UNCHANGED <<mode, clock, calls, cache>>

(* TaskCreate. *)
TaskCreate(t) ==
    LET s == [title |-> t, detail |-> None, status |-> "needsAction", due |-> 0,
              links |-> None]
    IN /\ Request
       /\ Insert(SPCToTask(s), MeantByNew(s))
       /\ copy' = s
       /\ UNCHANGED <<mode, clock, calls, cache>>

Next ==
    \/ Tick
    \/ GetCalendarObject
    \/ \E v \in Bodies \cup Edits : PutCalendarObject(v)
    \/ \E c \in calls : Finish(c) \/ Answer(c)
    \/ \E t \in Texts, u \in Maybe(Urls), m \in Maybe(Texts) : Create(t, u, m)
    \/ \E t \in Texts : PatchTitle(t) \/ TaskCreate(t)
    \/ \E t \in Maybe(Texts) : PatchDetail(t) \/ PatchMeta(t)
    \/ \E at \in {0} \cup Instants : PatchDue(at)
    \/ \E u \in Maybe(Urls) : PatchURL(u)
    \/ Complete
    \/ TaskGet
    \/ /\ copy # None
       /\ \/ \E t \in Texts : TaskUpdate([copy EXCEPT !.title = t])
          \/ \E at \in {0} \cup Instants : TaskUpdate([copy EXCEPT !.due = at])
          \/ TaskUpdate([copy EXCEPT !.status = "completed"])

Spec == Init /\ [][Next]_vars
-----------------------------------------------------------------------------
Copies == [title : Maybe(Texts), detail : Maybe(Texts),
           status : {"completed", "needsAction"}, due : {0} \cup Instants,
           links : Maybe(Urls)]

(* The shape of the state: what is served and what is in the columns is
   escaped as often as it should be, however often it went back and forth. *)
TypeOK ==
    /\ row # None => /\ TaskToSPC(row) \in Copies /\ row.blob \in Maybe(Vtodos)
                     /\ row.source \in Maybe(Sources) /\ row.modified \in stamps
    /\ cache # None => cache.body \in Vtodos
    /\ copy \in Maybe(Copies)
    /\ clock \in Times /\ stamps \subseteq Times /\ shared \subseteq stamps
    /\ \A c \in calls : c.op \in {"create", "put", "patch", "answer"}
    /\ writes \in 0..MaxWrites /\ faults \in 0..MaxFaults

(* What an empty column leaves to the blob, and the URL that is set outside
   a VTODO when there is a blob. *)
DetailIsMasked ==
    row.blob # None /\ meant.detail = None /\ row.blob.detail # None
URLIsMasked == row.blob # None /\ meant.url = meant.links

(* A client is served each property as it was last written, by whomever: a
   web patch, a completion, an update of the device or the put of a client,
   each of which writes the whole row, leaves the properties it does not
   mean to change as it read them, the form of an all-day due date and what
   the bridge has no column for included (taskToVTODOFromBlob,
   MergeBlobMetadataPatch, PutCalendarObject).  Except for a description that
   was cleared outside the client that put one, for a URL set outside, and
   for what has no column: an update of the device, and a put whose object
   cannot be encoded, store no blob, and what was only in it is lost until
   somebody writes it again (SPCToTask, Store.Update; meant.lost). *)
ServedAsMeant ==
    row # None =>
        LET v == TaskToVTODO(row) IN
        /\ Text(v.title) = meant.title /\ v.status = meant.status
        /\ Text(v.detail) = meant.detail \/ DetailIsMasked
        /\ v.url = meant.url \/ URLIsMasked \/ "url" \in meant.lost
        /\ IF meant.at = 0 THEN v.due = None
           ELSE /\ v.due.at = IF v.due.form = "DATE" THEN DayOf(meant.at) ELSE meant.at
                /\ mode = "preserve" /\ meant.form = "DATE" =>
                       v.due.form = "DATE" \/ "form" \in meant.lost
        /\ Text(v.meta) = meant.meta \/ "meta" \in meant.lost
        /\ v.extra = meant.extra \/ "extra" \in meant.lost
        /\ v.source = meant.origin \/ "origin" \in meant.lost

(* The web UI and the MCP tools show the same task: what they take from the
   columns and what they take from the blob (mapInternalTask) is what was
   last written, a cleared description and the provenance included, unless
   it was lost in such a write; and the URL that a client puts is never
   theirs. *)
ShownAsMeant ==
    row # None =>
        \A p \in {"title", "detail", "at", "links", "meta", "source"} :
            Shown(row)[p] = meant[p] \/ p \in meant.lost

(* What a client makes of a VTODO it has put, the settings and the statuses
   that the bridge does not have being known to it. *)
Settled(v) == [v EXCEPT !.status = IF @ = "COMPLETED" THEN @ ELSE "NEEDS-ACTION",
                        !.due = IF @ = None THEN @ ELSE SetDue(@, @.at),
                        !.completed = None]

(* A client that finds its ETag unchanged has the task as it is, though the
   ETag is made of four columns and answers a put with the ETag of a second
   read: unless that read found another task than the put had stored, or the
   put had lost its blob, or two writes happened in one millisecond (ComputeETag, PutCalendarObject). *)
UnchangedIsCurrent ==
    cache # None /\ row # None /\ cache.etag = ETag(row) =>
        \/ Settled(cache.body) = Settled(TaskToVTODO(row))
        \/ cache.apart \/ row.modified \in shared
=============================================================================
