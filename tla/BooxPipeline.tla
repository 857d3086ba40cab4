----------------------------- MODULE BooxPipeline -----------------------------
(***************************************************************************)
(* Notes that a Boox tablet uploads through WebDAV: from the file          *)
(* (internal/webdav) to a job (internal/booxpipeline) to the search index, *)
(* while the user skips, retries, moves, deletes and imports notes and     *)
(* starts and stops the worker (internal/service/note.go).                 *)
(*                                                                         *)
(* Each statement or transaction of the database is one step, as is each   *)
(* file operation.  The index holds, of a path, the content whose pages    *)
(* are all indexed, Partial when only some are, None when there is none.   *)
(***************************************************************************)
EXTENDS Naturals, Sequences

CONSTANTS
    Paths,          \* paths of note files, of one extension
    Slots,          \* goroutines that may run the worker's loop
    MaxUploads,     \* bound: WebDAV uploads
    MaxEvents,      \* bound: uploads, web requests, failures and restarts
    None,           \* no file, no row, nothing indexed, nobody
    Partial,        \* a file being written; an index that lacks pages
    Blank           \* file_hash of a row that no job has filled in

Contents == 1 .. MaxUploads

(* The requests that take more than one step, and what a worker is at. *)
Webs == [op : {"vectors", "file", "purge", "move", "rename", "copy", "migrate", "import"},
         path : Paths, dest : Paths]
Works == [job : Nat, path : Paths, hash : Contents \cup {None, Partial},
          body : Contents \cup {None, Partial},
          stage : {"open", "dedup", "parse", "clear", "pages", "rest", "todos", "create",
                   "done", "failed"}]

ASSUME PipelineAssumption ==
    /\ Slots # {} /\ MaxUploads \in Nat /\ MaxEvents \in Nat
    /\ None \notin Nat \cup Paths \cup Slots \cup Webs \cup Works
    /\ Partial \notin Nat \cup {None}
    /\ Blank \notin Nat \cup {None, Partial}

VARIABLES
    format,     \* "note" or "pdf", the extension of the files
    file,       \* what is under each path
    calls,      \* uploads being written and enqueues under way
    note,       \* boox_notes: file_hash, or None without a row
    jobs,       \* boox_jobs by id; a deleted row has status "deleted"
    index,      \* note_content
    vectors,    \* the paths that have rows in note_embeddings
    tasks,      \* how many tasks have the title that each content's red ink asks for
    work,       \* the job each worker goroutine executes, or None
    running,    \* goroutines in the worker's loop
    cancelled,  \* those whose context is cancelled
    current,    \* the goroutine that Stop would cancel
    closed,     \* the channel `done` is closed
    request,    \* the goroutine whose context is that of an open request
    web,        \* the delete, move, migration or import under way, or None
    lost,       \* history: paths whose index may be behind their file
    ghosts,     \* history: paths whose derived data may outlive the note
    missed,     \* history: contents whose red ink a job passed over
    raced,      \* history: contents whose red ink two workers read at once
    wanted,     \* history: what the last start or stop request asked for
    uploads, events

todos == <<tasks, missed, raced>>
database == <<note, jobs, index, vectors, todos>>
lifecycle == <<running, cancelled, current, closed, request, wanted>>
history == <<lost, ghosts>>
bounds == <<uploads, events>>
vars == <<format, file, calls, database, work, lifecycle, web, history, bounds>>

Event == uploads + events < MaxEvents /\ events' = events + 1 /\ UNCHANGED uploads

(* The goroutine that main starts, under the context of the process. *)
Main == CHOOSE i \in Slots : TRUE

Init ==
    /\ format \in {"note", "pdf"}
    /\ file = [p \in Paths |-> None]
    /\ calls = {}
    /\ note = [p \in Paths |-> None]
    /\ jobs = <<>>
    /\ index = [p \in Paths |-> None]
    /\ vectors = {}
    /\ tasks = [c \in Contents |-> 0] /\ missed = {} /\ raced = {}
    /\ work = [i \in Slots |-> None]
    /\ running = {Main} /\ current = Main
    /\ cancelled = {} /\ closed = FALSE /\ request = None /\ wanted = "run"
    /\ web = None
    /\ lost = {} /\ ghosts = {}
    /\ uploads = 0 /\ events = 0
-----------------------------------------------------------------------------
(* WebDAV. *)

(* A call's number; enqueues of the web pages write no file. *)
Call(p, at, c, stage) ==
    [n |-> uploads + events, path |-> p, at |-> at, content |-> c, stage |-> stage]

(* The file that other uploads write at p is renamed away under them. *)
Displace(p, new) ==
    {IF c.at = p THEN [c EXCEPT !.at = new] ELSE c : c \in calls}

(* OpenFile: what is there goes to .versions and a new file is created. *)
Upload(p, c) ==
    /\ uploads < MaxUploads /\ uploads + events < MaxEvents
    /\ uploads' = uploads + 1
    /\ file' = [file EXCEPT ![p] = Partial]
    /\ calls' = Displace(p, None) \cup {Call(p, p, c, "writing")}
    /\ UNCHANGED <<format, database, work, lifecycle, web, history, events>>

(* Mutant: the hook is not called. *)
CloseQuietly(c) ==
    /\ c \in calls /\ c.stage = "writing"
    /\ file' = [p \in Paths |-> IF p = c.at THEN c.content ELSE file[p]]
    /\ calls' = calls \ {c}
    /\ UNCHANGED <<format, database, work, lifecycle, web, history, bounds>>

(* The file is complete where it is by now; the hook enqueues the path it
   was opened under. *)
Close(c) ==
    /\ c \in calls /\ c.stage = "writing"
    /\ file' = [p \in Paths |-> IF p = c.at THEN c.content ELSE file[p]]
    /\ calls' = (calls \ {c}) \cup {[c EXCEPT !.stage = "row", !.at = None]}
    /\ lost' = lost \cup ({c.at} \ {c.path, None})
    /\ UNCHANGED <<format, database, work, lifecycle, web, ghosts, bounds>>
-----------------------------------------------------------------------------
(* The job store. *)

(* EnqueueJob: a row for the note if there is none, then the job, which a
   note that was deleted in between has no row for any more. *)
EnsureRow(c) ==
    /\ c \in calls /\ c.stage = "row"
    /\ note' = [note EXCEPT ![c.path] = IF @ = None THEN Blank ELSE @]
    /\ calls' = (calls \ {c}) \cup {[c EXCEPT !.stage = "job"]}
    /\ UNCHANGED <<format, todos, file, jobs, index, vectors, work, lifecycle, web,
                   history, bounds>>

InsertJob(c) ==
    /\ c \in calls /\ c.stage = "job"
    /\ calls' = calls \ {c}
    /\ IF note[c.path] = None
       THEN lost' = lost \cup {c.path} /\ UNCHANGED jobs
       ELSE /\ jobs' = Append(jobs, [path |-> c.path, status |-> "pending"])
            /\ UNCHANGED lost
    /\ UNCHANGED <<format, todos, file, note, index, vectors, work, lifecycle, web,
                   ghosts, bounds>>

(* Either statement fails: of an upload that was acknowledged, the hook only
   logs it.  A copy that fails leaves what it has written. *)
FailCall(c) ==
    /\ Event
    /\ c \in calls /\ c.stage \in {"row", "job", "copying"}
    /\ calls' = calls \ {c}
    /\ lost' = lost \cup {c.path}
    /\ web' = IF c.stage = "copying" THEN None ELSE web
    /\ UNCHANGED <<format, file, database, work, lifecycle, ghosts>>

Update(ids, status) ==
    [k \in DOMAIN jobs |-> IF k \in ids /\ jobs[k].status # "deleted"
                           THEN [jobs[k] EXCEPT !.status = status] ELSE jobs[k]]

WithStatus(status) == {k \in DOMAIN jobs : jobs[k].status = status}

JobsOf(p) == {k \in DOMAIN jobs : jobs[k].path = p /\ jobs[k].status # "deleted"}

(* GetLatestJob, as a set of at most one job. *)
Latest(p) == {k \in JobsOf(p) : \A l \in JobsOf(p) : l <= k}

HasDoneJobWithHash(p, hash) ==
    note[p] = hash /\ \E k \in JobsOf(p) : jobs[k].status = "done"

JobsOnly == UNCHANGED <<format, todos, file, calls, note, index, vectors, work,
                        lifecycle, web, history>>

Skip(p) ==
    /\ Event /\ Latest(p) # {}
    /\ jobs' = Update(Latest(p), "skipped")
    /\ JobsOnly

Unskip(p) ==
    /\ Event /\ Latest(p) \cap WithStatus("skipped") # {}
    /\ jobs' = Update(Latest(p), "pending")
    /\ JobsOnly

RetryAllFailed ==
    /\ Event /\ WithStatus("failed") # {}
    /\ jobs' = Update(WithStatus("failed"), "pending")
    /\ JobsOnly

(* The watchdog, for a job claimed more than ten minutes ago: its goroutine
   has quit, or is that slow. *)
ReclaimStuckJobs(k) ==
    /\ running \ cancelled # {}
    /\ k \in WithStatus("in_progress")
    /\ IF \E i \in Slots : work[i] # None /\ work[i].job = k
       THEN Event ELSE UNCHANGED bounds
    /\ jobs' = Update({k}, "pending")
    /\ JobsOnly
-----------------------------------------------------------------------------
(* The worker.  Every statement is made under the context of its loop, so
   that a cancelled worker changes nothing more: it can only quit. *)

Active(i, stage) == i \in running \ cancelled /\ work[i] # None /\ work[i].stage = stage

Goto(i, stage) == work' = [work EXCEPT ![i].stage = stage]

AtWork(i, p) == work[i] # None /\ work[i].path = p

(* The note was deleted or moved since the job was claimed. *)
Orphaned(i) == LET j == jobs[work[i].job]
               IN  j.path # work[i].path \/ j.status = "deleted"

Haunted(i) == IF Orphaned(i) THEN ghosts \cup {work[i].path} ELSE ghosts

(* Jobs queued within one second are claimed in any order.  Two goroutines
   may be at one note, and then its index is anybody's. *)
ClaimNextJob(i, k) ==
    /\ i \in running \ cancelled /\ work[i] = None
    /\ k \in WithStatus("pending")
    /\ jobs' = Update({k}, "in_progress")
    /\ work' = [work EXCEPT ![i] = [job |-> k, path |-> jobs[k].path, hash |-> None,
                                    body |-> None, stage |-> "open"]]
    /\ lost' = lost \cup {p \in {jobs[k].path} : \E j \in Slots : AtWork(j, p)}
    /\ UNCHANGED <<format, todos, file, calls, note, index, vectors, lifecycle, web,
                   ghosts, bounds>>

(* Open and hash; a note is parsed from the handle opened here. *)
Open(i) ==
    /\ Active(i, "open")
    /\ IF file[work[i].path] = None
       THEN Goto(i, "failed")
       ELSE work' = [work EXCEPT ![i].hash = file[work[i].path], ![i].stage = "dedup"]
    /\ UNCHANGED <<format, file, calls, database, lifecycle, web, history, bounds>>

(* The early exit.  The row has the hash of the last job that began, also
   when that job failed with pages or red ink unread. *)
Dedup(i) ==
    /\ Active(i, "dedup")
    /\ LET p == work[i].path
           c == work[i].hash
       IN  IF HasDoneJobWithHash(p, c)
           THEN /\ Goto(i, "done")
                /\ lost' = IF index[p] = c THEN lost ELSE lost \cup {p}
                /\ missed' = IF tasks[c] = 0 THEN missed \cup {c} ELSE missed
           ELSE Goto(i, "parse") /\ UNCHANGED <<lost, missed>>
    /\ UNCHANGED <<format, file, calls, note, jobs, index, vectors, tasks, raced,
                   lifecycle, web, ghosts, bounds>>

(* What the job makes its pages from: a PDF is opened again by its path. *)
Source(i) == IF format = "pdf" THEN file[work[i].path] ELSE work[i].hash

(* Parse, and record the hash: before there is any page. *)
Parse(i) ==
    /\ Active(i, "parse")
    /\ IF Partial \in {work[i].hash, Source(i)} \/ Source(i) = None
       THEN Goto(i, "failed") /\ UNCHANGED <<note, ghosts>>
       ELSE /\ Goto(i, "clear")
            /\ note' = [note EXCEPT ![work[i].path] = work[i].hash]
            /\ ghosts' = Haunted(i)
    /\ UNCHANGED <<format, todos, file, calls, jobs, index, vectors, lifecycle, web,
                   lost, bounds>>

(* The pages of the last job go.  When they do not, nobody looks at the
   error: some of them may be found beside the new ones. *)
ClearIndex(i) ==
    /\ Active(i, "clear")
    /\ \/ /\ index' = [index EXCEPT ![work[i].path] = None]
          /\ UNCHANGED <<lost, bounds>>
       \/ /\ Event /\ lost' = lost \cup {work[i].path}
          /\ UNCHANGED index
    /\ Goto(i, "pages")
    /\ UNCHANGED <<format, todos, file, calls, note, jobs, vectors, lifecycle, web,
                   ghosts>>

(* The first pages are indexed and embedded. *)
IndexPages(i) ==
    /\ Active(i, "pages")
    /\ IF Source(i) \in {None, Partial}
       THEN Goto(i, "failed") /\ UNCHANGED <<index, vectors, ghosts>>
       ELSE /\ index' = [index EXCEPT ![work[i].path] = Partial]
            /\ vectors' = vectors \cup {work[i].path}
            /\ ghosts' = Haunted(i)
            /\ work' = [work EXCEPT ![i].stage = "rest", ![i].body = Source(i)]
    /\ UNCHANGED <<format, todos, file, calls, note, jobs, lifecycle, web, lost, bounds>>

(* Mutant: the job ends after its first page. *)
IndexFirstPage(i) ==
    /\ Active(i, "rest")
    /\ Goto(i, "done")
    /\ UNCHANGED <<format, file, calls, database, lifecycle, web, history, bounds>>

(* The rest of the pages, of whatever a PDF's path holds by now. *)
IndexRest(i) ==
    /\ Active(i, "rest")
    /\ IF Source(i) \in {None, Partial}
       THEN Goto(i, "failed") /\ UNCHANGED <<index, vectors, ghosts>>
       ELSE /\ index' = [index EXCEPT ![work[i].path] =
                            IF @ = Partial /\ Source(i) = work[i].body
                            THEN Source(i) ELSE Partial]
            /\ vectors' = vectors \cup {work[i].path}
            /\ ghosts' = Haunted(i)
            /\ Goto(i, "todos")
    /\ UNCHANGED <<format, todos, file, calls, note, jobs, lifecycle, web, lost, bounds>>

(* Mutant: the titles that there are are not looked at. *)
FindNothing(i) ==
    /\ Active(i, "todos")
    /\ Goto(i, "create")
    /\ UNCHANGED <<format, file, calls, database, lifecycle, web, history, bounds>>

(* runTodoPass: the page images of this job, under the id in the note's row,
   are read again for red ink, and the titles that tasks have are listed. *)
FindTodos(i) ==
    /\ Active(i, "todos")
    /\ LET c == work[i].body IN
       /\ Goto(i, IF note[work[i].path] # None /\ tasks[c] = 0 THEN "create" ELSE "done")
       /\ missed' = IF note[work[i].path] = None THEN missed \cup {c} ELSE missed
       /\ raced' = IF \E j \in Slots \ {i} : Active(j, "create") /\ work[j].body = c
                   THEN raced \cup {c} ELSE raced
    /\ UNCHANGED <<format, file, calls, note, jobs, index, vectors, tasks,
                   lifecycle, web, history, bounds>>

(* CreateTasksFromTodos: a task for a title that was missing. *)
CreateTask(i) ==
    /\ Active(i, "create")
    /\ tasks' = [tasks EXCEPT ![work[i].body] = @ + 1]
    /\ Goto(i, "done")
    /\ UNCHANGED <<format, file, calls, note, jobs, index, vectors, missed, raced,
                   lifecycle, web, history, bounds>>

(* OCR, the list or the insert fails: the job is done all the same. *)
FailTodos(i) ==
    /\ Event
    /\ Active(i, "todos") \/ Active(i, "create")
    /\ missed' = missed \cup {work[i].body}
    /\ Goto(i, "done")
    /\ UNCHANGED <<format, file, calls, note, jobs, index, vectors, tasks, raced,
                   lifecycle, web, history>>

(* The row, rendering, OCR or the index fails. *)
FailPage(i) ==
    /\ Event
    /\ Active(i, "parse") \/ Active(i, "pages") \/ Active(i, "rest")
    /\ Goto(i, "failed")
    /\ UNCHANGED <<format, file, calls, database, lifecycle, web, history>>

(* CompleteJob and FailJob: by id, whatever has become of the job.  A job
   that fails may leave nothing of what a later one had indexed: an import
   has blanked the hash, and the retry of an old job ran to its end. *)
Finish(i, status) ==
    /\ Active(i, status)
    /\ jobs' = Update({work[i].job}, status)
    /\ work' = [work EXCEPT ![i] = None]
    /\ LET p == work[i].path
           q == jobs[work[i].job].path
       IN  lost' = IF \/ p # q
                      \/ status = "failed" /\ Latest(p) \cap WithStatus("done") # {}
                   THEN lost \cup {p, q} ELSE lost
    /\ UNCHANGED <<format, todos, file, calls, note, index, vectors, lifecycle, web,
                   ghosts, bounds>>

(* The job's end cannot be written: it is left to the watchdog. *)
FailFinish(i) ==
    /\ Event
    /\ Active(i, "done") \/ Active(i, "failed")
    /\ work' = [work EXCEPT ![i] = None]
    /\ UNCHANGED <<format, file, calls, database, lifecycle, web, history>>
-----------------------------------------------------------------------------
(* The web pages.  Besides enqueues, one request at a time. *)

Serving(op, p, q) == web' = [op |-> op, path |-> p, dest |-> q]
Handles(op) == web # None /\ web.op = op

(* Process a note, or a file that a scan finds without a row. *)
Enqueue(p) ==
    /\ Event
    /\ calls' = calls \cup {Call(p, None, None, "row")}
    /\ UNCHANGED <<format, file, database, work, lifecycle, web, history>>

(* The rows of a note, in one transaction. *)
DeleteRows(p) ==
    /\ jobs' = Update(JobsOf(p), "deleted")
    /\ index' = [index EXCEPT ![p] = None]
    /\ note' = [note EXCEPT ![p] = None]

Removed(p) == /\ file' = [file EXCEPT ![p] = None]
              /\ calls' = Displace(p, None)

(* DeleteNote: rows, embeddings, file. *)
DeleteNote(p) ==
    /\ web = None /\ Event
    /\ note[p] # None
    /\ DeleteRows(p)
    /\ Serving("vectors", p, p)
    /\ UNCHANGED <<format, todos, file, calls, vectors, work, lifecycle, history>>

(* Mutant: only the rows of search are deleted. *)
KeepVectors ==
    /\ Handles("vectors")
    /\ Serving("file", web.path, web.path)
    /\ UNCHANGED <<format, file, calls, database, work, lifecycle, history, bounds>>

(* "Best-effort: the note is already gone, so a failure is logged". *)
DeleteVectors ==
    /\ Handles("vectors")
    /\ \/ vectors' = vectors \ {web.path} /\ UNCHANGED <<ghosts, bounds>>
       \/ Event /\ ghosts' = ghosts \cup {web.path} /\ UNCHANGED vectors
    /\ Serving("file", web.path, web.path)
    /\ UNCHANGED <<format, todos, file, calls, note, jobs, index, work, lifecycle, lost>>

(* A note that was uploaded again meanwhile loses its file too.  A file that
   cannot be removed waits for a scan. *)
DeleteFile ==
    /\ Handles("file")
    /\ \/ /\ Removed(web.path)
          /\ ghosts' = IF note[web.path] # None THEN ghosts \cup {web.path} ELSE ghosts
          /\ UNCHANGED <<lost, bounds>>
       \/ /\ Event /\ lost' = lost \cup {web.path}
          /\ UNCHANGED <<file, calls, ghosts>>
    /\ web' = None
    /\ UNCHANGED <<format, database, work, lifecycle>>

(* DeleteAutoNamedNotebooks: file, rows; the embeddings are forgotten, and
   an upload in between loses its job.  Each goes on when the other fails. *)
Purge(p) ==
    /\ web = None /\ Event
    /\ note[p] # None
    /\ Removed(p) \/ UNCHANGED <<file, calls>>
    /\ Serving("purge", p, p)
    /\ UNCHANGED <<format, database, work, lifecycle, history>>

PurgeRows ==
    /\ Handles("purge")
    /\ \/ /\ DeleteRows(web.path)
          /\ ghosts' = ghosts \cup ({web.path} \cap vectors)
          /\ lost' = IF file[web.path] # None THEN lost \cup {web.path} ELSE lost
          /\ UNCHANGED bounds
       \/ /\ Event /\ ghosts' = ghosts \cup {web.path}
          /\ UNCHANGED <<note, jobs, index, lost>>
    /\ web' = None
    /\ UNCHANGED <<format, todos, file, calls, vectors, work, lifecycle>>

(* MoveBooxNote: the file, and then its rows. *)
Move(p, q) ==
    /\ web = None /\ Event
    /\ p # q /\ file[p] # None /\ file[q] = None
    /\ file' = [file EXCEPT ![q] = file[p], ![p] = None]
    /\ calls' = Displace(p, q)
    /\ Serving("move", p, q)
    /\ UNCHANGED <<format, database, work, lifecycle, history>>

(* Rows of the destination are in the way of a primary or unique key. *)
Conflict(p, q) == \/ note[p] # None /\ note[q] # None
                  \/ index[p] # None /\ index[q] # None

MoveRows(p, q) ==
    /\ note' = [note EXCEPT ![q] = IF note[p] = None THEN @ ELSE note[p], ![p] = None]
    /\ jobs' = [k \in DOMAIN jobs |-> IF k \in JobsOf(p) THEN [jobs[k] EXCEPT !.path = q]
                                      ELSE jobs[k]]
    /\ index' = [index EXCEPT ![q] = IF index[p] = None THEN @ ELSE index[p], ![p] = None]

Carried(s, p, q) == IF p \in s THEN s \cup {q} ELSE s

(* A newer upload that was put under the old path loses its job, and an
   enqueue under way its row.  A worker that is at the new path, for a note
   that was there, goes on with what it has read of that one.  When the rows
   cannot be moved, the file has been. *)
MoveNote ==
    /\ Handles("move")
    /\ LET p == web.path
           q == web.dest
       IN  \/ /\ (Conflict(p, q) /\ UNCHANGED bounds) \/ Event
             /\ ghosts' = ghosts \cup {p} /\ lost' = lost \cup {p, q}
             /\ web' = None
             /\ UNCHANGED <<note, jobs, index>>
          \/ /\ ~Conflict(p, q) /\ UNCHANGED bounds
             /\ MoveRows(p, q)
             /\ lost' = IF \/ file[p] # None \/ note[p] = None
                           \/ \E c \in calls : c.path = p
                           \/ \E i \in Slots : AtWork(i, q)
                        THEN lost \cup {p, q} ELSE Carried(lost, p, q)
             /\ ghosts' = Carried(ghosts, p, q)
             /\ Serving("rename", p, q)
    /\ UNCHANGED <<format, todos, file, calls, vectors, work, lifecycle>>

(* Embeddings that stay under the old path, in the way of others or by a
   failure, are only logged. *)
RenameVectors ==
    /\ Handles("rename")
    /\ LET p == web.path
           q == web.dest
       IN  \/ /\ ({p, q} \subseteq vectors /\ UNCHANGED bounds) \/ Event
             /\ ghosts' = ghosts \cup {p} /\ UNCHANGED vectors
          \/ /\ ~({p, q} \subseteq vectors) /\ UNCHANGED bounds
             /\ vectors' = IF p \in vectors THEN (vectors \ {p}) \cup {q} ELSE vectors
             /\ ghosts' = IF note[q] = None THEN ghosts \cup {q} ELSE ghosts
    /\ web' = None
    /\ UNCHANGED <<format, todos, file, calls, note, jobs, index, work, lifecycle, lost>>

(* MigrateImportedFiles copies over what the destination holds (not, here,
   from or over an upload being written). *)
Migrate(p, q) ==
    /\ web = None /\ Event
    /\ p # q /\ note[p] # None /\ file[p] \notin {None, Partial}
    /\ \A c \in calls : c.at # q
    /\ file' = [file EXCEPT ![q] = Partial]
    /\ calls' = calls \cup {Call(q, q, file[p], "copying")}
    /\ Serving("copy", p, q)
    /\ UNCHANGED <<format, database, work, lifecycle, history>>

(* copyFile ends, wherever its file is by now. *)
CopyFile(c) ==
    /\ c \in calls /\ c.stage = "copying"
    /\ file' = [p \in Paths |-> IF p = c.at THEN c.content ELSE file[p]]
    /\ calls' = calls \ {c}
    /\ Serving("migrate", web.path, web.dest)
    /\ UNCHANGED <<format, database, work, lifecycle, history, bounds>>

(* The source stays, and so do its embeddings; when the rows cannot be
   moved the destination is removed. *)
UpdateNotePath ==
    /\ Handles("migrate")
    /\ LET p == web.path
           q == web.dest
       IN  \/ /\ (Conflict(p, q) /\ UNCHANGED bounds) \/ Event
             /\ Removed(q)
             /\ ghosts' = ghosts \cup {q}
             /\ UNCHANGED <<note, jobs, index>>
          \/ /\ ~Conflict(p, q) /\ UNCHANGED bounds
             /\ MoveRows(p, q)
             /\ ghosts' = Carried(ghosts, p, q) \cup ({p} \cap vectors)
             /\ UNCHANGED <<file, calls>>
    /\ lost' = lost \cup {web.path, web.dest}
    /\ web' = None
    /\ UNCHANGED <<format, todos, vectors, work, lifecycle>>

(* ScanAndEnqueue, for one file: its row is written afresh, and it is
   enqueued unless its latest job is done. *)
Import(p) ==
    /\ web = None /\ Event
    /\ file[p] # None
    /\ note' = [note EXCEPT ![p] = Blank]
    /\ Serving("import", p, p)
    /\ UNCHANGED <<format, todos, file, calls, jobs, index, vectors, work, lifecycle, history>>

EnqueueImported ==
    /\ Handles("import")
    /\ \/ /\ calls' = IF Latest(web.path) \subseteq WithStatus("done") /\ Latest(web.path) # {}
                      THEN calls
                      ELSE calls \cup {Call(web.path, None, None, "row")}
          /\ UNCHANGED <<lost, bounds>>
       \/ Event /\ lost' = lost \cup {web.path} /\ UNCHANGED calls
    /\ web' = None
    /\ UNCHANGED <<format, file, database, work, lifecycle, ghosts>>

(* WebDAV's own DELETE and MOVE change the tree and nothing else. *)
RemoveAll(p) ==
    /\ Event
    /\ file[p] # None
    /\ Removed(p)
    /\ ghosts' = ghosts \cup {p}
    /\ UNCHANGED <<format, database, work, lifecycle, web, lost>>

Rename(p, q) ==
    /\ Event
    /\ p # q /\ file[p] # None
    /\ file' = [file EXCEPT ![q] = file[p], ![p] = None]
    /\ calls' = {IF c.at = q THEN [c EXCEPT !.at = None]
                 ELSE IF c.at = p THEN [c EXCEPT !.at = q] ELSE c : c \in calls}
    /\ ghosts' = ghosts \cup {p} /\ lost' = lost \cup {q}
    /\ UNCHANGED <<format, database, work, lifecycle, web>>
-----------------------------------------------------------------------------
(* The life of the worker. *)

StartStop == UNCHANGED <<format, todos, file, calls, note, index, vectors, web, history>>

(* The start request runs another loop, under the request's context. *)
Start(i) ==
    /\ Event
    /\ request = None /\ i \notin running
    /\ jobs' = Update(WithStatus("in_progress"), "pending")
    /\ running' = running \cup {i}
    /\ current' = i /\ request' = i /\ wanted' = "run"
    /\ UNCHANGED <<cancelled, closed, work>> /\ StartStop

(* The handler returns, and net/http cancels the request's context. *)
StartReturns ==
    /\ request # None
    /\ cancelled' = cancelled \cup ({request} \cap running)
    /\ request' = None
    /\ UNCHANGED <<jobs, running, current, closed, wanted, work, bounds>> /\ StartStop

(* Stop then waits for `done`. *)
Stop ==
    /\ Event
    /\ cancelled' = cancelled \cup ({current} \cap running)
    /\ wanted' = "stop"
    /\ UNCHANGED <<jobs, running, current, closed, request, work>> /\ StartStop

(* A new process: uploads, enqueues and requests are cut off, and the jobs
   of the old workers are claimed again. *)
Boot ==
    /\ calls' = {} /\ web' = None
    /\ work' = [i \in Slots |-> None]
    /\ running' = {Main} /\ cancelled' = {} /\ current' = Main
    /\ closed' = FALSE /\ request' = None /\ wanted' = "run"
    /\ jobs' = Update(WithStatus("in_progress"), "pending")
    /\ LET cut == IF web = None THEN {} ELSE {web.path, web.dest} IN
       /\ lost' = lost \cup cut \cup ((UNION {{c.path, c.at} : c \in calls}) \ {None})
       /\ ghosts' = ghosts \cup cut
    /\ UNCHANGED <<format, todos, file, note, index, vectors>>

(* The loop of a cancelled goroutine ends and closes `done`: the second one
   to do so panics, and the process with it. *)
Quit(i) ==
    /\ i \in cancelled
    /\ IF closed
       THEN Boot
       ELSE /\ running' = running \ {i} /\ cancelled' = cancelled \ {i}
            /\ closed' = TRUE
            /\ work' = [work EXCEPT ![i] = None]
            /\ UNCHANGED <<jobs, current, request, wanted>> /\ StartStop
    /\ UNCHANGED bounds

Restart == Event /\ Boot
-----------------------------------------------------------------------------
Work(i) ==
    \/ \E k \in DOMAIN jobs : ClaimNextJob(i, k)
    \/ Open(i) \/ Dedup(i) \/ Parse(i) \/ ClearIndex(i) \/ IndexPages(i)
    \/ IndexRest(i) \/ FindTodos(i) \/ CreateTask(i)
    \/ Finish(i, "done") \/ Finish(i, "failed")

Answer == \E c \in calls : Close(c) \/ CopyFile(c) \/ EnsureRow(c) \/ InsertJob(c)

Handle ==
    \/ DeleteVectors \/ DeleteFile \/ PurgeRows \/ MoveNote \/ RenameVectors
    \/ UpdateNotePath \/ EnqueueImported

Next ==
    \/ \E p \in Paths, c \in 1 .. uploads + 1 : Upload(p, c)
    \/ Answer \/ \E c \in calls : FailCall(c)
    \/ \E i \in Slots : Work(i) \/ FailPage(i) \/ FailTodos(i) \/ FailFinish(i)
    \/ \E k \in DOMAIN jobs : ReclaimStuckJobs(k)
    \/ RetryAllFailed
    \/ \E p \in Paths :
          \/ Enqueue(p) \/ Skip(p) \/ Unskip(p) \/ DeleteNote(p) \/ Purge(p)
          \/ Import(p) \/ RemoveAll(p)
    \/ \E p, q \in Paths : Move(p, q) \/ Migrate(p, q) \/ Rename(p, q)
    \/ Handle
    \/ \E i \in Slots : Start(i) \/ Quit(i)
    \/ StartReturns \/ Stop \/ Restart

Spec == Init /\ [][Next]_vars

(* Requests end, the loop claims every five seconds, its steps end (the OCR
   client has a timeout), the watchdog ticks, a cancelled loop ends. *)
Fairness ==
    /\ WF_vars(Answer) /\ WF_vars(Handle) /\ WF_vars(StartReturns)
    /\ \A i \in Slots : WF_vars(Work(i)) /\ WF_vars(Quit(i))
    /\ WF_vars(\E k \in DOMAIN jobs : ReclaimStuckJobs(k))

FairSpec == Spec /\ Fairness
-----------------------------------------------------------------------------
(* Properties. *)

TypeOK ==
    /\ file \in [Paths -> Contents \cup {None, Partial}]
    /\ note \in [Paths -> Contents \cup {None, Blank}]
    /\ index \in [Paths -> Contents \cup {None, Partial}]
    /\ vectors \subseteq Paths
    /\ cancelled \subseteq running /\ running \subseteq Slots
    /\ \A i \in Slots : work[i] # None => i \in running /\ work[i].job \in DOMAIN jobs
    /\ \A k \in DOMAIN jobs : jobs[k].status \in
          {"pending", "in_progress", "done", "failed", "skipped", "deleted"}

ActiveJobs(p) == JobsOf(p) \cap (WithStatus("pending") \cup WithStatus("in_progress"))

(* What the Files page shows: each note, and how its latest job stands. *)
ListNotes ==
    {[path |-> p, status |-> {jobs[k].status : k \in Latest(p)}] :
        p \in {q \in Paths : note[q] # None}}

(* Nobody is about to change what is known of p. *)
Quiet(p) ==
    /\ ActiveJobs(p) = {}
    /\ \A c \in calls : p \notin {c.path, c.at}
    /\ \A i \in Slots : ~AtWork(i, p)
    /\ web # None => p \notin {web.path, web.dest}

(* "done" means found: the index holds every page of the file as it is now,
   through re-uploads, skips, retries and reclaimed jobs, except where
   `lost` records how the note fell behind. *)
DoneIsIndexed ==
    \A n \in ListNotes :
        Quiet(n.path) /\ n.status = {"done"}
        => index[n.path] = file[n.path] \/ n.path \in lost \cup ghosts

(* Red ink becomes a task, and one only: of a note shown as done whose pages
   are all found, unless a job passed over its red ink or two workers were
   at it. *)
TodosAreTasks ==
    /\ \A c \in Contents : tasks[c] <= 1 \/ c \in raced
    /\ \A n \in ListNotes :
          Quiet(n.path) /\ n.status = {"done"} /\ index[n.path] \in Contents
          => tasks[index[n.path]] > 0 \/ index[n.path] \in missed \/ n.path \in lost

(* Nothing is found of a note without a row or a file: a deletion and a move
   take everything along, except under a worker and in the ways `ghosts`
   records. *)
DerivedHasNote ==
    \A p \in Paths :
        Quiet(p) /\ (index[p] # None \/ p \in vectors)
        => p \in ghosts \/ (note[p] # None /\ file[p] # None)

(* While a worker runs, no upload waits for ever: it is indexed, or its job
   has failed or been skipped by the user. *)
Settled(p) ==
    /\ ActiveJobs(p) = {}
    /\ \/ file[p] \in {None, index[p]}
       \/ Latest(p) # {} /\ Latest(p) \subseteq WithStatus("failed") \cup WithStatus("skipped")
       \/ p \in lost \cup ghosts

UploadsSettle ==
    (<>[](running \ cancelled = {})) \/ <>[](\A p \in Paths : Settled(p))
=============================================================================
