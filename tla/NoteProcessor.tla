---------------------------- MODULE NoteProcessor ----------------------------
(***************************************************************************)
(* The notes of a Supernote: files that the device, or a sync server       *)
(* beside this one, puts into a tree (internal/spcserver); the watcher and *)
(* the scanner that find them there (internal/pipeline,                    *)
(* internal/notestore); the worker that recognizes their text, writes it   *)
(* into the file and indexes it (internal/processor).                      *)
(*                                                                         *)
(* Each statement of the database and each file operation is a step, and   *)
(* so is each call of `Decide`.  A note has one page.  A file is the       *)
(* device's `edit` of a note and whether recognized `text` was written     *)
(* into it: its sha256.  Of its mtime, in whole seconds, it only counts    *)
(* whether its row has the same.  An error that is only logged is a step   *)
(* that does not do its work; those that cost no more than another OCR run *)
(* are left out.                                                           *)
(***************************************************************************)
EXTENDS Naturals, FiniteSetsExt

CONSTANTS
    NotePaths,      \* paths of .note files below the notes directory
    MaxEdits,       \* bound: files the device writes
    MaxEvents,      \* bound: edits, requests, failures and restarts
    Inject,         \* recognized text goes into the file too (sn_inject_enabled)
    None,           \* no file, no row, no job
    Blank           \* an indexed page whose text is empty

Versions == [edit : Nat, text : BOOLEAN]
Rows == [hash : {None} \cup Versions]
Statuses == {"pending", "in_progress", "done", "failed", "skipped"}
JobRows == [id : Nat, status : Statuses]
Scans == [seen : SUBSET NotePaths, changed : SUBSET NotePaths, at : {None} \cup NotePaths,
          stage : {"start", "walked", "prune", "jobs", "row"}]
Works == [id : Nat, path : NotePaths, edit : {None} \cup Nat, body : {None} \cup Nat,
          stage : {"load", "write", "reload", "index", "done", "failed", "skipped"}]

ASSUME NoteAssumption ==
    /\ Inject \in BOOLEAN /\ MaxEdits \in Nat /\ MaxEvents \in Nat
    /\ None \notin NotePaths \cup Nat \cup Versions \cup Rows \cup JobRows \cup Scans \cup Works
    /\ Blank \notin Nat \cup {None}

VARIABLES
    file,       \* what is under each path
    notes,      \* the table notes: the sha256 of each path
    current,    \* paths whose file and row have the same mtime
    jobs,       \* the table jobs, whose note_path is unique
    index,      \* note_content: the edit that the page's text is from
    enqueues,   \* calls of Pipeline.enqueue due (a debounce timer) or under way
    scan,       \* the reconciliation under way, or None
    watching,   \* the watcher runs
    work,       \* the job the worker executes, or None
    alive,      \* the worker's context is not cancelled
    handle,     \* whose context that is while Store.cancel is set, or None
    missed,     \* history: paths whose index may be behind their file
    ghosts,     \* history: paths indexed without a row to prune them by
    edits, events

rows == <<notes, current>>
tables == <<rows, jobs, index>>
detection == <<enqueues, scan, watching>>
worker == <<work, alive, handle>>
history == <<missed, ghosts>>
counts == <<edits, events>>
notesVars == <<file, tables, detection, worker, history, counts>>

Event == edits + events < MaxEvents /\ events' = events + 1 /\ UNCHANGED edits

Complete(p) == file[p] # None /\ index[p] = file[p].edit

FirstScan == [seen |-> {}, changed |-> {}, at |-> None, stage |-> "start"]

NotesInit ==
    /\ file = [p \in NotePaths |-> None]
    /\ notes = [p \in NotePaths |-> None] /\ current = {}
    /\ jobs = [p \in NotePaths |-> None] /\ index = [p \in NotePaths |-> None]
    /\ enqueues = {} /\ scan = FirstScan /\ watching = FALSE
    /\ work = None /\ alive = TRUE /\ handle = "process"
    /\ missed = {} /\ ghosts = {}
    /\ edits = 0 /\ events = 0
-----------------------------------------------------------------------------
(* The job table. *)

Is(p, status) == jobs[p] # None /\ jobs[p].status \in status

(* An INTEGER PRIMARY KEY without AUTOINCREMENT: one more than the largest. *)
NewId == 1 + Max({0} \cup {jobs[p].id : p \in {q \in NotePaths : jobs[q] # None}})

SetStatus(p, status) == jobs' = [jobs EXCEPT ![p].status = status]

(* The worker is past reading p, and will mark it as done without the edit
   that is there now: it has read an older one, or the text is gone again. *)
ReadBefore(p) ==
    /\ work # None /\ work.path = p
    /\ jobs[p] # None /\ work.id = jobs[p].id
    /\ file[p] # None
    /\ \/ work.stage \in {"write", "reload", "index", "done"} /\ file[p].edit # work.edit
       \/ work.stage = "done" /\ ~Complete(p)

Changed == {p \in NotePaths : file[p] # None /\ p \notin current}

(* What is to be queued, and may already have lost its trace in the table,
   or is being pruned. *)
Due == {c.path : c \in enqueues} \cup (IF scan = None THEN {} ELSE scan.changed \cup {scan.at})

(* The file has the mtime of its row, its job is done or will be, and the
   text is another's: no scan finds it. *)
Overlooked(p) ==
    /\ file[p] # None /\ p \notin Due \cup Changed
    /\ \/ Is(p, {"done"}) /\ ~Complete(p)
       \/ Is(p, {"in_progress"}) /\ ReadBefore(p)

(* Neither does one find a file with that mtime and no job at all. *)
Unfound(p) ==
    \/ Overlooked(p)
    \/ file[p] # None /\ jobs[p] = None /\ ~Complete(p) /\ p \notin Due \cup Changed


(* Store.Enqueue: an upsert that leaves pending and running jobs alone, and
   fails without a row of notes.  A file that changes under the worker is
   then not done again. *)
EnqueueJob(p) ==
    /\ jobs' = IF notes[p] = None \/ Is(p, {"pending", "in_progress"}) THEN jobs
               ELSE IF jobs[p] = None
                    THEN [jobs EXCEPT ![p] = [id |-> NewId, status |-> "pending"]]
                    ELSE [jobs EXCEPT ![p].status = "pending"]
    /\ missed' = IF Is(p, {"in_progress"}) /\ ReadBefore(p) THEN missed \cup {p} ELSE missed

Jobs == UNCHANGED <<file, rows, index, detection, worker, ghosts>>

(* The buttons of the web page. *)
Requeue(p) == Event /\ EnqueueJob(p) /\ Jobs

Skip(p) ==
    /\ Event /\ notes[p] # None
    /\ jobs' = [jobs EXCEPT ![p] = [id |-> IF @ = None THEN NewId ELSE @.id,
                                    status |-> "skipped"]]
    /\ UNCHANGED missed /\ Jobs

Unskip(p) ==
    /\ Is(p, {"skipped"})
    /\ SetStatus(p, "pending")
    /\ UNCHANGED <<missed, counts>> /\ Jobs

(* The watchdog: the job was claimed ten minutes ago, by a process that is
   gone or by a worker that is that slow. *)
ReclaimStuck(p) ==
    /\ alive /\ Is(p, {"in_progress"})
    /\ IF work # None /\ work.id = jobs[p].id THEN Event ELSE UNCHANGED counts
    /\ SetStatus(p, "pending")
    /\ UNCHANGED missed /\ Jobs
-----------------------------------------------------------------------------
(* Pipeline.enqueue, called by a timer, the scanner or an upload; of the
   calls for a path that have not begun, one stands for all. *)

Call(p) == [path |-> p, upserted |-> FALSE]

Return(c) == enqueues' = enqueues \ {c}

Called == UNCHANGED <<file, index, scan, watching, worker, ghosts, counts>>

(* UpsertFile: from now on the scanner finds nothing new in the file. *)
Upsert(c) ==
    /\ c \in enqueues /\ ~c.upserted
    /\ LET f == file[c.path] IN
       IF f = None THEN Return(c) /\ UNCHANGED rows
       ELSE /\ notes' = [notes EXCEPT ![c.path] = IF @ = None THEN [hash |-> None] ELSE @]
            /\ current' = current \cup {c.path}
            /\ enqueues' = (enqueues \ {c}) \cup {[c EXCEPT !.upserted = TRUE]}
    /\ UNCHANGED <<jobs, missed>> /\ Called

(* Mutant: whatever is done is left alone. *)
DecideBlindly(c) ==
    /\ c \in enqueues /\ c.upserted /\ Is(c.path, {"done"})
    /\ Return(c)
    /\ UNCHANGED <<rows, jobs, missed>> /\ Called

(* GetJob, GetHash and ComputeSHA256: a file that is done is left alone when
   its hash is the stored one, be it indexed or not. *)
DecideDone(c) ==
    /\ c \in enqueues /\ c.upserted /\ Is(c.path, {"done"})
    /\ LET f == file[c.path] IN
       IF f = None THEN UNCHANGED <<jobs, missed>>
       ELSE IF notes[c.path].hash = f
       THEN /\ UNCHANGED jobs
            /\ missed' = IF Complete(c.path) THEN missed ELSE missed \cup {c.path}
       ELSE EnqueueJob(c.path)
    /\ Return(c)
    /\ UNCHANGED rows /\ Called

(* LookupByHash: paths, one of which is returned, with a job done for the
   same content. *)
SameContent(p) == {q \in NotePaths : /\ file[p] # None /\ Is(q, {"done"})
                                 /\ notes[q].hash = file[p]}

Transferable(p) == SameContent(p) # {} /\ jobs[p] = None /\ notes[p] # None

(* TransferJob and SetHash: the job of the file that seems to have moved,
   and nothing else of it. *)
Transfer(c, old) ==
    /\ c \in enqueues /\ c.upserted
    /\ Transferable(c.path) /\ old \in SameContent(c.path)
    /\ jobs' = [jobs EXCEPT ![c.path] = jobs[old], ![old] = None]
    /\ notes' = [notes EXCEPT ![c.path].hash = file[c.path]]
    /\ missed' = IF Complete(c.path) THEN missed ELSE missed \cup {c.path}
    /\ Return(c)
    /\ UNCHANGED current /\ Called

DecideNew(c) ==
    /\ c \in enqueues /\ c.upserted
    /\ ~Is(c.path, {"done"}) /\ ~Transferable(c.path)
    /\ EnqueueJob(c.path)
    /\ Return(c)
    /\ UNCHANGED rows /\ Called

(* The row, the hash or the job fails: the call returns, with a warning. *)
FailCall(c) ==
    /\ Event
    /\ c \in enqueues
    /\ Return(c)
    /\ UNCHANGED <<file, tables, scan, watching, worker, ghosts>>
    /\ missed' = missed \cup {p \in {c.path} : Unfound(p)'}
-----------------------------------------------------------------------------
(* The watcher and the reconciler. *)

(* A write starts a timer or starts it again, except during the first scan. *)
Notice(p) == enqueues' = IF watching THEN enqueues \cup {Call(p)} ELSE enqueues

Scanning == UNCHANGED <<file, worker>>

Gone == {p \in NotePaths : file[p] = None /\ notes[p] # None}

(* Scan: the rows are brought up to date before anything is queued.  A tick
   that finds nothing but what is due already counts as an event. *)
Walk ==
    /\ scan # None => scan.stage = "start"
    /\ IF scan = None /\ (Changed \ Due) \cup Gone = {} THEN Event ELSE UNCHANGED counts
    /\ notes' = [p \in NotePaths |-> IF p \in Changed /\ notes[p] = None THEN [hash |-> None]
                                 ELSE notes[p]]
    /\ current' = current \cup Changed
    /\ scan' = [seen |-> {p \in NotePaths : file[p] # None}, changed |-> Changed,
                at |-> None, stage |-> "walked"]
    /\ UNCHANGED <<jobs, index, enqueues, watching, history>> /\ Scanning

(* A statement of the walk fails: what was found is not queued. *)
AbortScan ==
    /\ Event
    /\ scan # None /\ scan.stage = "walked"
    /\ scan' = None /\ watching' = TRUE
    /\ UNCHANGED <<tables, enqueues, ghosts>> /\ Scanning
    /\ missed' = missed \cup {p \in scan.changed : Unfound(p)'}

(* pruneOrphans: the rows that the walk did not meet, as of now; none if the
   query fails.  Then reconcile calls for what was found. *)
EndScan ==
    /\ enqueues' = enqueues \cup {Call(p) : p \in scan.changed}
    /\ scan' = None /\ watching' = TRUE

FindOrphans ==
    /\ scan # None /\ scan.stage = "walked"
    /\ LET orphans == {p \in NotePaths \ scan.seen : notes[p] # None} IN
       \/ orphans = {} /\ EndScan /\ UNCHANGED counts
       \/ orphans # {} /\ EndScan /\ Event
       \/ /\ orphans # {}
          /\ scan' = [scan EXCEPT !.stage = "prune", !.seen = orphans]
          /\ UNCHANGED <<enqueues, watching, counts>>
    /\ UNCHANGED <<tables, history>> /\ Scanning

Pruning(stage) == scan # None /\ scan.stage = stage

(* Mutant: the text of the orphan stays. *)
PruneNoIndex(p) ==
    /\ Pruning("prune") /\ p \in scan.seen
    /\ scan' = [scan EXCEPT !.stage = "jobs", !.at = p]
    /\ UNCHANGED <<tables, enqueues, watching, history, counts>> /\ Scanning

(* The three statements of one orphan commit one by one, and an error of one
   does not keep the next from being run. *)
PruneIndex(p) ==
    /\ Pruning("prune") /\ p \in scan.seen
    /\ scan' = [scan EXCEPT !.stage = "jobs", !.at = p]
    /\ \/ /\ index' = [index EXCEPT ![p] = None]
          /\ UNCHANGED <<ghosts, counts>>
       \/ /\ Event /\ index[p] # None
          /\ ghosts' = ghosts \cup {p}
          /\ UNCHANGED index
    /\ UNCHANGED <<rows, jobs, enqueues, watching, missed>> /\ Scanning

PruneJob ==
    /\ Pruning("jobs")
    /\ scan' = [scan EXCEPT !.stage = "row"]
    /\ \/ jobs' = [jobs EXCEPT ![scan.at] = None] /\ UNCHANGED counts
       \/ Event /\ UNCHANGED jobs
    /\ UNCHANGED <<rows, index, enqueues, watching, history>> /\ Scanning

RowGoes(p) == notes' = [notes EXCEPT ![p] = None] /\ current' = current \ {p}

PrunedNext == scan' = [scan EXCEPT !.stage = "prune", !.seen = @ \ {scan.at}, !.at = None]

(* Mutant: without the foreign key. *)
PruneFreely ==
    /\ Pruning("row") /\ PrunedNext
    /\ RowGoes(scan.at)
    /\ UNCHANGED <<jobs, index, enqueues, watching, history, counts>> /\ Scanning

(* A row that has a job, which stayed or came meanwhile, cannot go. *)
PruneRow ==
    /\ Pruning("row") /\ PrunedNext
    /\ \/ /\ jobs[scan.at] = None
          /\ RowGoes(scan.at)
          /\ UNCHANGED counts
       \/ /\ UNCHANGED rows
          /\ IF jobs[scan.at] = None THEN Event ELSE UNCHANGED counts
    /\ UNCHANGED <<jobs, index, enqueues, watching, ghosts>> /\ Scanning
    /\ missed' = missed \cup {p \in {scan.at} : Unfound(p)'}

EnqueueChanged ==
    /\ Pruning("prune") /\ scan.seen = {}
    /\ EndScan
    /\ UNCHANGED <<tables, history, counts>> /\ Scanning
-----------------------------------------------------------------------------
(* The worker.  Under a cancelled context only its writes of files succeed. *)

WorkAt(stage) == alive /\ work # None /\ work.stage = stage
Goto(stage) == work' = [work EXCEPT !.stage = stage]

Working == UNCHANGED <<rows, jobs, index, detection, alive, handle, missed, ghosts>>

(* The path may by now be that of a note done by another job. *)
Misplaced == {p \in {work.path} : Is(p, {"done"}) /\ Overlooked(p)'}

(* claimNext: the job is in progress, and then found again. *)
ClaimNext(p) ==
    /\ alive /\ work = None /\ Is(p, {"pending"})
    /\ SetStatus(p, "in_progress")
    /\ work' = [id |-> jobs[p].id, path |-> p, stage |-> "load",
                edit |-> None, body |-> None]
    /\ UNCHANGED <<file, rows, index, detection, alive, handle, history, counts>>

(* Nothing will prune what is indexed under p. *)
Unlisted(p) ==
    \/ notes[p] = None
    \/ scan # None /\ scan.at = p

(* A page is indexed, or an error is logged. *)
Index(text) ==
    LET p == work.path IN
    \/ /\ index' = [index EXCEPT ![p] = text]
       /\ ghosts' = IF Unlisted(p) THEN ghosts \cup {p} ELSE ghosts
       /\ UNCHANGED counts
    \/ Event /\ UNCHANGED <<index, ghosts>>

(* The size guard, the backup, the file and the text that it already has. *)
Load ==
    /\ WorkAt("load")
    /\ LET f == file[work.path] IN
       IF f = None THEN Goto("failed") /\ UNCHANGED <<index, ghosts, counts>>
       ELSE /\ Index(IF f.text THEN f.edit ELSE Blank)
            /\ work' = [work EXCEPT !.edit = f.edit, !.body = f.edit,
                                    !.stage = IF Inject THEN "write" ELSE "index"]
    /\ UNCHANGED <<file, rows, jobs, detection, alive, handle>>
    /\ missed' = missed \cup Misplaced

RefuseSize ==
    /\ Event
    /\ WorkAt("load") /\ file[work.path] # None
    /\ Goto("skipped")
    /\ UNCHANGED file /\ Working

(* OCR, the injection or the write of a page fails. *)
FailPage ==
    /\ Event
    /\ WorkAt("write") \/ (WorkAt("index") /\ ~Inject)
    /\ Goto("failed")
    /\ UNCHANGED file /\ Working

(* A file written in the second of its row, or under a clock set back, has
   the mtime of the row. *)
Stamp(p) ==
    \/ current' = current \ {p}
    \/ notes[p] # None /\ current' = current \cup {p}

WriteFile(p, f) == file' = [file EXCEPT ![p] = f] /\ Stamp(p)

RemoveFile(p) == file' = [file EXCEPT ![p] = None] /\ current' = current \ {p}

(* The note as it was read, with its text, replaces whatever is there; a
   note removed meanwhile is there again. *)
WritePage ==
    /\ work # None /\ work.stage = "write"
    /\ WriteFile(work.path, [edit |-> work.edit, text |-> TRUE])
    /\ Notice(work.path)
    /\ Goto("reload")
    /\ UNCHANGED <<notes, jobs, index, scan, watching, alive, handle, ghosts, counts>>
    /\ missed' = IF file[work.path] = None THEN missed \cup {work.path} ELSE missed \cup Misplaced

(* The note is from now on the file as it is by now. *)
Reload ==
    /\ WorkAt("reload")
    /\ LET f == file[work.path] IN
       IF f = None THEN Goto("failed") /\ UNCHANGED missed
       ELSE /\ work' = [work EXCEPT !.edit = f.edit, !.stage = "index"]
            /\ missed' = IF f.edit = work.edit THEN missed ELSE missed \cup {work.path}
    /\ UNCHANGED <<file, tables, detection, alive, handle, ghosts, counts>>

IndexPage ==
    /\ WorkAt("index")
    /\ Index(work.body)
    /\ Goto("done")
    /\ UNCHANGED <<file, rows, jobs, detection, alive, handle>>
    /\ missed' = missed \cup Misplaced \cup {p \in {work.path} : index'[p] # work.body}

(* The end of a job; that of one done stores the hash of the file first.
   The job is marked by id: the row may be another note's by now, or ask for
   more. *)
StoreHash(p) ==
    notes' = IF file[p] = None \/ notes[p] = None THEN notes
             ELSE [notes EXCEPT ![p].hash = file[p]]

MarkJob(status) ==
    /\ WorkAt(status)
    /\ IF status = "done" THEN StoreHash(work.path) ELSE UNCHANGED notes
    /\ LET owners == {p \in NotePaths : jobs[p] # None /\ jobs[p].id = work.id} IN
       /\ jobs' = [p \in NotePaths |-> IF p \in owners THEN [jobs[p] EXCEPT !.status = status]
                                   ELSE jobs[p]]
       /\ missed' = missed \cup {p \in owners : p # work.path \/ ~Is(p, {"in_progress"})}
    /\ work' = None
    /\ UNCHANGED <<file, current, index, detection, alive, handle, ghosts, counts>>

(* The row that was claimed is not found again, or its end is not stored. *)
LoseJob ==
    /\ Event
    /\ \E stage \in {"load", "done", "failed", "skipped"} : WorkAt(stage)
    /\ UNCHANGED notes \/ (WorkAt("done") /\ StoreHash(work.path))
    /\ work' = None
    /\ UNCHANGED <<file, current, jobs, index, detection, alive, handle, history>>

(* The loop of a cancelled worker ends; its job stays "in_progress". *)
Quit ==
    /\ ~alive /\ work # None
    /\ work' = None
    /\ UNCHANGED <<file, counts>> /\ Working
-----------------------------------------------------------------------------
(* The device's requests, one at a time, and writers outside this program. *)

NewFile(p) == [edit |-> edits + 1, text |-> FALSE]

(* upload/finish: the staged file is renamed into place and queued. *)
UploadNote(p) ==
    /\ edits < MaxEdits /\ edits + events < MaxEvents
    /\ edits' = edits + 1
    /\ WriteFile(p, NewFile(p))
    /\ enqueues' = enqueues \cup {Call(p)}
    /\ UNCHANGED <<notes, jobs, index, scan, watching, worker, history, events>>

(* Another program writes a file: unnoticed in a directory that is not
   watched yet, and with the mtime of its row not found by a scan either. *)
Put(p) ==
    /\ edits < MaxEdits /\ edits + events < MaxEvents
    /\ edits' = edits + 1
    /\ WriteFile(p, NewFile(p))
    /\ Notice(p) \/ UNCHANGED enqueues
    /\ UNCHANGED <<notes, jobs, index, scan, watching, worker, ghosts, events>>
    /\ missed' = missed \cup {r \in {p} : Unfound(r)'}

(* It removes, moves or copies one. *)
Remove(p) ==
    /\ Event /\ file[p] # None
    /\ RemoveFile(p)
    /\ UNCHANGED <<notes, jobs, index, detection, worker, history>>

Relocate(p, q) ==
    /\ p # q /\ file[p] # None /\ file[q] = None
    /\ file' = [file EXCEPT ![q] = file[p], ![p] = None]
    /\ Notice(q)

(* The row stays, and q may have one of the same second. *)
Apart(p, q) ==
    \/ current' = current \ {p}
    \/ notes[q] # None /\ current' = (current \ {p}) \cup {q}

Duplicate(p, q) ==
    /\ p # q /\ file[p] # None /\ file[q] = None
    /\ WriteFile(q, file[p])
    /\ Notice(q)

Shuffle(p, q) ==
    /\ Event
    /\ (Relocate(p, q) /\ Apart(p, q)) \/ Duplicate(p, q)
    /\ UNCHANGED <<notes, jobs, index, scan, watching, worker, ghosts>>
    /\ missed' = missed \cup {r \in {q} : Unfound(r)'}

(* delete_folder_v3: to .recycle, and out of the index; if that fails, it is
   a `Remove`. *)
DeleteNote(p) ==
    /\ Event /\ file[p] # None
    /\ RemoveFile(p)
    /\ index' = [index EXCEPT ![p] = None]
    /\ UNCHANGED <<notes, jobs, detection, worker, history>>

(* move_v3: the file, and the pages, unless both paths have some (the pages
   of a job under way will go to the old path); then the rows, unless both
   paths have one.  Either may fail; if both do, it is a `Shuffle`. *)
MovePages(p, q) ==
    /\ index[p] # None /\ index[q] = None
    /\ index' = [index EXCEPT ![q] = index[p], ![p] = None]

MoveRows(p, q) ==
    /\ notes[p] # None /\ notes[q] = None
    /\ notes' = [notes EXCEPT ![q] = notes[p], ![p] = None]
    /\ current' = (current \ {p}) \cup {r \in {q} : p \in current}
    /\ jobs' = [jobs EXCEPT ![q] = jobs[p], ![p] = None]

MoveNote(p, q) ==
    /\ Event
    /\ Relocate(p, q)
    /\ \/ MovePages(p, q) /\ MoveRows(p, q)
       \/ MovePages(p, q) /\ Apart(p, q) /\ UNCHANGED <<notes, jobs>>
       \/ MoveRows(p, q) /\ UNCHANGED index
    /\ UNCHANGED <<scan, watching, worker>>
    /\ ghosts' = ghosts \cup {r \in {p, q} : index'[r] # None /\ Unlisted(r)'}
    /\ missed' = missed \cup {r \in {q} : Unfound(r)'}

(* copy_v3: the file and the pages, unless that fails, as in a `Shuffle`;
   rows are left to the scanner. *)
CopyNote(p, q) ==
    /\ Event
    /\ Duplicate(p, q)
    /\ index' = [index EXCEPT ![q] = index[p]]
    /\ UNCHANGED <<notes, jobs, scan, watching, worker>>
    /\ ghosts' = ghosts \cup {r \in {q} : index'[r] # None /\ Unlisted(r)'}
    /\ missed' = missed \cup {r \in {q} : Unfound(r)'}
-----------------------------------------------------------------------------
(* The life of the worker and of the process. *)

Lifecycle == UNCHANGED <<file, tables, detection, history>>

StopWorker ==
    /\ Event /\ handle # None
    /\ handle' = None /\ alive' = FALSE
    /\ UNCHANGED work /\ Lifecycle

(* The worker that the web page starts has the context of the request. *)
StartWorker ==
    /\ Event /\ handle = None /\ work = None
    /\ handle' = "request" /\ alive' = TRUE
    /\ UNCHANGED work /\ Lifecycle

RequestEnds ==
    /\ handle = "request" /\ alive
    /\ alive' = FALSE
    /\ UNCHANGED <<work, handle, counts>> /\ Lifecycle

Restart ==
    /\ Event
    /\ work' = None /\ alive' = TRUE /\ handle' = "process"
    /\ enqueues' = {} /\ scan' = FirstScan /\ watching' = FALSE
    /\ UNCHANGED <<file, tables, ghosts>>
    /\ missed' = missed \cup {p \in NotePaths : Unfound(p)'}
-----------------------------------------------------------------------------
Detect ==
    \/ Walk \/ FindOrphans \/ EnqueueChanged
    \/ PruneJob \/ PruneRow \/ \E p \in NotePaths : PruneIndex(p)

AnswerCalls == \E c \in enqueues :
    \/ Upsert(c) \/ DecideDone(c) \/ DecideNew(c)
    \/ \E q \in NotePaths : Transfer(c, q)

Work ==
    \/ \E p \in NotePaths : ClaimNext(p)
    \/ Load \/ WritePage \/ Reload \/ IndexPage
    \/ MarkJob("done") \/ MarkJob("failed") \/ MarkJob("skipped")
    \/ Quit

NotesNext ==
    \/ Detect \/ AnswerCalls \/ Work
    \/ AbortScan \/ RefuseSize \/ FailPage \/ LoseJob
    \/ \E c \in enqueues : FailCall(c)
    \/ \E p \in NotePaths :
          \/ Requeue(p) \/ Skip(p) \/ Unskip(p) \/ ReclaimStuck(p)
          \/ UploadNote(p) \/ Put(p) \/ Remove(p) \/ DeleteNote(p)
    \/ \E p, q \in NotePaths : Shuffle(p, q) \/ MoveNote(p, q) \/ CopyNote(p, q)
    \/ StopWorker \/ StartWorker \/ RequestEnds \/ Restart

NotesSpec == NotesInit /\ [][NotesNext]_notesVars

(* Timers fire, the reconciler ticks, calls and requests end, the loop
   claims every five seconds and OCR has a timeout, the watchdog ticks. *)
NotesFairness ==
    /\ \A p \in NotePaths : WF_notesVars(ReclaimStuck(p))
    /\ WF_notesVars(Detect) /\ WF_notesVars(AnswerCalls)
    /\ WF_notesVars(Work) /\ WF_notesVars(RequestEnds)

NotesFairSpec == NotesSpec /\ NotesFairness
-----------------------------------------------------------------------------
(* Properties. *)

NotesTypeOK ==
    /\ \A p \in NotePaths :
          /\ file[p] # None => file[p].edit \in 1 .. edits /\ file[p].text \in BOOLEAN
          /\ jobs[p] # None => notes[p] # None
          /\ jobs[p] # None => jobs[p].status \in Statuses
          /\ index[p] \in {None, Blank} \cup 1 .. edits
    /\ \A p, q \in NotePaths : jobs[p] # None /\ jobs[q] # None /\ p # q
                            => jobs[p].id # jobs[q].id
    /\ work # None => work.path \in NotePaths

(* What the Files page shows of the notes: the table, and not the disk. *)
ListNotes ==
    {[path |-> p, status |-> IF jobs[p] = None THEN "" ELSE jobs[p].status] :
        p \in {q \in NotePaths : notes[q] # None}}

(* Nobody is about to change what is known of p, and no scan would. *)
Quiet(p) ==
    /\ notes[p] # None /\ file[p] # None /\ p \in current
    /\ \A c \in enqueues : p # c.path
    /\ scan # None => p \notin scan.changed /\ scan.at # p
    /\ work # None => work.path # p

(* A note shown as done is found: the text indexed is that of the file's
   edit, except where `missed` records how the note fell behind. *)
DoneIsIndexed ==
    \A n \in ListNotes : Quiet(n.path) /\ n.status = "done"
                    => Complete(n.path) \/ n.path \in missed


(* A note whose file is gone is in the end not found any more. *)
RemovedLeave ==
    <>[](\A p \in NotePaths : index[p] # None => file[p] # None \/ p \in ghosts)
=============================================================================
