----------------------------- MODULE BooxDaemon -----------------------------
(***************************************************************************)
(* cmd/boox-bridge: a directory tree as a work queue.  A tablet drops      *)
(* .note files below inbox/; a timer for each path lets the upload settle  *)
(* and then runs the pipeline on it (pipeline.go), which publishes one     *)
(* document and files the note away under archive/, under dlq/ or, when    *)
(* the recognizer is rate-limited, under retry/ with a sidecar.  The       *)
(* spool loop and the web page move files between the same directories.    *)
(* Nothing holds a file while it is worked on: every read and every rename *)
(* finds whatever is under the path at that moment.                        *)
(*                                                                         *)
(* A note's bytes are a number; archive/, dlq/ and retry/ are flat, so     *)
(* notes of one base name share a place there.                             *)
(***************************************************************************)
EXTENDS Naturals, FiniteSets

CONSTANTS
    Paths,          \* paths below inbox/
    Names,          \* base names
    NameOf,         \* Paths -> Names
    RootPath,       \* Names -> Paths: the name directly below inbox/
    Slots,          \* bound: timer callbacks running at the same time
    MaxRetries,     \* cfg.MaxRetries
    MaxUploads,     \* bound: uploads
    MaxEvents,      \* bound: web requests, rate limits, failures and restarts
    None            \* no file, no run, no request, nobody

Contents == 1 .. MaxUploads
Stages == {"settle", "parse", "hwr", "create", "pages", "mark", "archive",
           "dlq", "schedule", "sidecar"}

(* A timer callback: its path, its next step, the hash it took of the file,
   the content it read, the attempt its sidecar will record. *)
Callback == [path : Paths, stage : Stages, hash : Contents \cup {None},
             body : Contents \cup {None}, attempt : 0 .. MaxRetries]

ASSUME DaemonAssumption ==
    /\ NameOf \in [Paths -> Names]
    /\ RootPath \in [Names -> Paths]
    /\ \A n \in Names : NameOf[RootPath[n]] = n
    /\ MaxRetries \in Nat /\ MaxUploads \in Nat /\ MaxEvents \in Nat
    /\ None \notin Contents \cup Callback
    /\ Names \cap (Paths \cup Slots \cup {None}) = {}
    /\ Paths \cap {"retry", "dlq"} = {}

VARIABLES
    inbox, retry, dlq, archive,
    sidecar,    \* attempt count in retry/<name>.retry.json; 0: no such file
    watched,    \* paths whose directory fsnotify watches
    due,        \* paths with an fsnotify event under way or a timer set
    runs,       \* the timer callback in each slot
    lock,       \* who holds spool.mu: a slot, a name being requeued, or None
    web,        \* the request of the web page being served
    seen,       \* dedup.seen
    saved,      \* state/seen.json
    docs,       \* documents created for each content
    published,  \* contents published with all their pages
    dismissed,  \* history: contents skipped by the user, or replaced while a
                \* run worked on them
    excused,    \* history: contents that may get a second document
    stranded,   \* history: files that nothing will come back for
    overtaken,  \* history: contents put under a path whose last content is
                \* about to be archived
    events      \* how many uploads and other events there were

files == <<inbox, retry, dlq, archive, sidecar>>
memory == <<watched, due, runs, lock, web, seen>>
outside == <<saved, docs, published>>
history == <<dismissed, excused, stranded, overtaken>>
vars == <<files, memory, outside, history, events>>

Init ==
    /\ inbox = [p \in Paths |-> None]
    /\ retry = [n \in Names |-> None]
    /\ dlq = [n \in Names |-> None]
    /\ archive = [n \in Names |-> None]
    /\ sidecar = [n \in Names |-> 0]
    /\ watched = {RootPath[n] : n \in Names}
    /\ due = {} /\ runs = [i \in Slots |-> None]
    /\ lock = None /\ web = None
    /\ seen = {} /\ saved = {}
    /\ docs = [c \in Contents |-> 0] /\ published = {}
    /\ dismissed = {} /\ excused = {} /\ stranded = {} /\ overtaken = {}
    /\ events = [uploads |-> 0, others |-> 0]

Event == events.others < MaxEvents /\ events' = [events EXCEPT !.others = @ + 1]

(* A file appears under inbox path p, or one leaves it: fsnotify reports
   both, and both set the path's timer. *)
Notice(p) ==
    /\ due' = due \cup ({p} \cap watched)
    /\ stranded' = IF p \in watched THEN stranded \ {p} ELSE stranded \cup {p}

(* The run's content may still be published and archived. *)
Archiving(i) ==
    /\ runs[i] # None
    /\ runs[i].stage \in {"parse", "hwr", "create", "pages", "mark", "archive"}

(* Content c comes to queue q, name n: a run or a request that has looked at
   what was there before will file c away in its place. *)
Put(q, n, c) ==
    overtaken' =
        IF \/ \E i \in Slots : Archiving(i) /\ runs[i].path = q /\ runs[i].hash # c
           \/ web # None /\ web.stage = "file" /\ web.queue = q /\ web.name = n
        THEN overtaken \cup {c} ELSE overtaken
-----------------------------------------------------------------------------
(* The tablet. *)

(* A new note, an edited one, or the same bytes again. *)
Upload(p, c) ==
    /\ events.uploads < MaxUploads /\ events' = [events EXCEPT !.uploads = @ + 1]
    /\ inbox' = [inbox EXCEPT ![p] = c]
    /\ Notice(p) /\ Put(p, NameOf[p], c)
    /\ UNCHANGED <<retry, dlq, archive, sidecar, watched, runs, lock, web, seen,
                   outside, dismissed, excused>>

(* The Create event of a new directory: it is watched from now on, and what
   was written to it before goes unseen. *)
AttachDir(p) ==
    /\ p \notin watched
    /\ watched' = watched \cup {p}
    /\ UNCHANGED <<files, due, runs, lock, web, seen, outside, history, events>>
-----------------------------------------------------------------------------
(* The timer callback, and process. *)

Working(i, stage) == runs[i] # None /\ runs[i].stage = stage
Goto(i, stage) == runs' = [runs EXCEPT ![i].stage = stage]
Finish(i) == runs' = [runs EXCEPT ![i] = None]
At(i) == inbox[runs[i].path]

Idle(i) == runs[i] = None

(* The timer fires, its entry is dropped, and isStable looks at the file
   for the first time. *)
Fire(p) ==
    /\ p \in due
    /\ due' = due \ {p}
    /\ IF inbox[p] = None
       THEN UNCHANGED runs
       ELSE LET i == CHOOSE j \in Slots : Idle(j)
            IN  /\ \E j \in Slots : Idle(j)
                /\ runs' = [runs EXCEPT ![i] = [path |-> p, stage |-> "settle",
                               hash |-> inbox[p], body |-> None, attempt |-> 0]]
    /\ UNCHANGED <<files, watched, lock, web, seen, outside, history, events>>

(* isStable's second look found another size, or no file. *)
Unstable(i) ==
    /\ Working(i, "settle")
    /\ At(i) # runs[i].hash
    /\ Finish(i)
    /\ UNCHANGED <<files, watched, due, lock, web, seen, outside, history, events>>

(* Mutant: the list of seen notes is never consulted. *)
HasNever(c) == FALSE

Has(c) == c \in seen

(* The contents of runs that are past their dedup check. *)
BeingPublished ==
    {runs[i].hash : i \in {j \in Slots :
        runs[j] # None /\ runs[j].stage \in {"parse", "hwr", "create", "pages", "mark"}}}

(* Hash, dedup and spend check.  A seen note is archived unread; when the
   day's money is spent the note goes to dlq/. *)
Check(i) ==
    /\ Working(i, "settle")
    /\ At(i) # None
    /\ LET c == At(i) IN
       \/ Has(c) /\ runs' = [runs EXCEPT ![i].hash = c, ![i].stage = "archive"]
          /\ UNCHANGED <<excused, events>>
       \/ /\ ~Has(c)
          /\ runs' = [runs EXCEPT ![i].hash = c, ![i].stage = "parse"]
          /\ excused' = IF c \in BeingPublished THEN excused \cup {c} ELSE excused
          /\ UNCHANGED events
       \/ ~Has(c) /\ Event
          /\ runs' = [runs EXCEPT ![i].hash = c, ![i].stage = "dlq"]
          /\ UNCHANGED excused
    /\ UNCHANGED <<files, watched, due, lock, web, seen, outside, dismissed,
                   stranded, overtaken>>

(* openNote reads the file a second time. *)
Parse(i) ==
    /\ Working(i, "parse")
    /\ \/ /\ At(i) # None
          /\ runs' = [runs EXCEPT ![i].body = At(i), ![i].stage = "hwr"]
          /\ excused' = IF At(i) = runs[i].hash THEN excused ELSE excused \cup {At(i)}
          /\ UNCHANGED events
       \/ At(i) = None /\ Goto(i, "dlq") /\ UNCHANGED <<excused, events>>
       \/ At(i) # None /\ Event /\ Goto(i, "dlq") /\ UNCHANGED excused
    /\ UNCHANGED <<files, watched, due, lock, web, seen, outside, dismissed,
                   stranded, overtaken>>

(* Transcribed; or refused for now; or failed. *)
Transcribe(i) ==
    /\ Working(i, "hwr")
    /\ \/ Goto(i, "create") /\ UNCHANGED events
       \/ Goto(i, "schedule") /\ Event
       \/ Goto(i, "dlq") /\ Event
    /\ UNCHANGED <<files, watched, due, lock, web, seen, outside, history>>

(* create_doc, up to the moment Affine has the document.  A call that fails
   may have made it: the answer came too late or was not understood. *)
CreateDoc(i) ==
    /\ Working(i, "create")
    /\ \/ /\ docs' = [docs EXCEPT ![runs[i].body] = @ + 1]
          /\ Goto(i, "pages") /\ UNCHANGED <<excused, events>>
       \/ /\ docs' = [docs EXCEPT ![runs[i].body] = @ + 1]
          /\ excused' = excused \cup {runs[i].body}
          /\ Goto(i, "dlq") /\ Event
       \/ Goto(i, "dlq") /\ Event /\ UNCHANGED <<docs, excused>>
    /\ UNCHANGED <<files, watched, due, lock, web, seen, saved, published, dismissed,
                   stranded, overtaken>>

(* Blobs and image blocks, page by page; a failure leaves the document. *)
AppendPages(i) ==
    /\ Working(i, "pages")
    /\ \/ /\ published' = published \cup {runs[i].body}
          /\ Goto(i, "mark") /\ UNCHANGED <<excused, events>>
       \/ /\ Event /\ Goto(i, "dlq")
          /\ excused' = excused \cup {runs[i].body}
          /\ UNCHANGED published
    /\ UNCHANGED <<files, watched, due, lock, web, seen, saved, docs, dismissed,
                   stranded, overtaken>>

(* mark flushes the whole list; a list that cannot be written is only in
   memory until the next content is marked. *)
Mark(c) ==
    /\ seen' = seen \cup {c}
    /\ \/ saved' = (IF c \in seen THEN saved ELSE seen') /\ UNCHANGED <<excused, events>>
       \/ c \notin seen /\ Event /\ UNCHANGED saved /\ excused' = excused \cup {c}

MarkSeen(i) ==
    /\ Working(i, "mark")
    /\ Mark(runs[i].hash)
    /\ dismissed' = IF runs[i].hash = runs[i].body THEN dismissed
                    ELSE dismissed \cup {runs[i].hash}
    /\ Goto(i, "archive")
    /\ UNCHANGED <<files, watched, due, lock, web, docs, published, stranded, overtaken>>

(* The final rename takes whatever is under the run's path by now. *)
Moved(i) ==
    /\ At(i) # None
    /\ inbox' = [inbox EXCEPT ![runs[i].path] = None]
    /\ due' = due \cup ({runs[i].path} \cap watched)
    /\ UNCHANGED <<stranded, events>>

(* A rename that fails leaves the file without a timer. *)
NotMoved(i) ==
    /\ \/ At(i) = None /\ UNCHANGED <<stranded, events>>
       \/ At(i) # None /\ Event /\ stranded' = stranded \cup {runs[i].path}
    /\ UNCHANGED <<inbox, due>>

Filed(i, place) == [place EXCEPT ![NameOf[runs[i].path]] = At(i)]

Archive(i) ==
    /\ Working(i, "archive")
    /\ \/ Moved(i) /\ archive' = Filed(i, archive)
       \/ NotMoved(i) /\ UNCHANGED archive
    /\ Finish(i)
    /\ UNCHANGED <<retry, dlq, sidecar, watched, lock, web, seen, outside,
                   dismissed, excused, overtaken>>

ToDLQ(i) ==
    /\ Working(i, "dlq")
    /\ \/ Moved(i) /\ dlq' = Filed(i, dlq) /\ Put("dlq", NameOf[runs[i].path], At(i))
       \/ NotMoved(i) /\ UNCHANGED <<dlq, overtaken>>
    /\ Finish(i)
    /\ UNCHANGED <<retry, archive, sidecar, watched, lock, web, seen, outside,
                   dismissed, excused>>
-----------------------------------------------------------------------------
(* The retry spool. *)

(* The budget counts what the sidecar of the name says. *)
Exhausted(n) == sidecar[n] + 1 > MaxRetries

(* schedule, up to the rename. *)
Schedule(i) ==
    /\ Working(i, "schedule")
    /\ lock = None
    /\ LET p == runs[i].path
           n == NameOf[p]
       IN  \/ /\ Exhausted(n) \/ inbox[p] = None
              /\ Goto(i, "dlq")
              /\ UNCHANGED <<inbox, retry, due, lock, overtaken>>
           \/ /\ ~Exhausted(n) /\ inbox[p] # None
              /\ retry' = [retry EXCEPT ![n] = inbox[p]] /\ Put("retry", n, inbox[p])
              /\ inbox' = [inbox EXCEPT ![p] = None]
              /\ due' = due \cup ({p} \cap watched)
              /\ runs' = [runs EXCEPT ![i].stage = "sidecar",
                                      ![i].attempt = sidecar[n] + 1]
              /\ lock' = i
    /\ UNCHANGED <<dlq, archive, sidecar, watched, web, seen, outside, dismissed,
                   excused, stranded, events>>

(* A sidecar that cannot be written: the run reports failure and sends what
   it finds under its own path, maybe a newer upload, to dlq/. *)
WriteSidecar(i) ==
    /\ Working(i, "sidecar")
    /\ LET n == NameOf[runs[i].path] IN
       \/ /\ sidecar' = [sidecar EXCEPT ![n] = runs[i].attempt]
          /\ Finish(i) /\ UNCHANGED <<stranded, events>>
       \/ /\ Event /\ Goto(i, "dlq")
          /\ stranded' = stranded \cup {n}
          /\ UNCHANGED sidecar
    /\ lock' = None
    /\ UNCHANGED <<inbox, retry, dlq, archive, watched, due, web, seen, outside,
                   dismissed, excused, overtaken>>

(* Mutant: the entry is forgotten before its file is moved back. *)
RequeueSidecarFirst(n) ==
    /\ lock = None
    /\ sidecar[n] # 0
    /\ sidecar' = [sidecar EXCEPT ![n] = 0]
    /\ UNCHANGED <<inbox, retry, dlq, archive, memory, outside, history, events>>

(* processDue, for an entry whose time has come. *)
Requeue(n) ==
    /\ lock = None
    /\ sidecar[n] # 0
    /\ IF retry[n] = None
       THEN /\ sidecar' = [sidecar EXCEPT ![n] = 0]
            /\ UNCHANGED <<inbox, retry, due, lock, stranded, overtaken>>
       ELSE /\ inbox' = [inbox EXCEPT ![RootPath[n]] = retry[n]]
            /\ retry' = [retry EXCEPT ![n] = None]
            /\ Notice(RootPath[n]) /\ Put(RootPath[n], n, retry[n])
            /\ lock' = n
            /\ UNCHANGED sidecar
    /\ UNCHANGED <<dlq, archive, watched, runs, web, seen, outside, dismissed,
                   excused, events>>

Requeued(n) ==
    /\ lock = n
    /\ sidecar' = [sidecar EXCEPT ![n] = 0]
    /\ lock' = None
    /\ UNCHANGED <<inbox, retry, dlq, archive, watched, due, runs, web, seen,
                   outside, history, events>>
-----------------------------------------------------------------------------
(* The web page.  Its handlers take no lock. *)

(* The file that queue q holds under name n; for inbox, under the path q. *)
Held(q, n) == CASE q = "retry" -> retry[n]
                [] q = "dlq" -> dlq[n]
                [] OTHER -> inbox[q]

TakeFrom(q, n) ==
    /\ retry' = IF q = "retry" THEN [retry EXCEPT ![n] = None] ELSE retry
    /\ dlq' = IF q = "dlq" THEN [dlq EXCEPT ![n] = None] ELSE dlq

Serving(q, n, stage) == web' = [queue |-> q, name |-> n, stage |-> stage]

(* The sidecar is removed after the file has moved. *)
Cleanup(q, n) == IF q = "retry" THEN Serving(q, n, "cleanup") ELSE web' = None

Queues(n) == {"retry", "dlq"} \cup {p \in Paths : NameOf[p] = n}

WebRetry(q, n) ==
    /\ web = None /\ Event
    /\ Held(q, n) # None /\ q # RootPath[n]
    /\ inbox' = [p \in Paths |-> IF p = RootPath[n] THEN Held(q, n)
                                ELSE IF p = q THEN None ELSE inbox[p]]
    /\ TakeFrom(q, n)
    /\ due' = due \cup ({RootPath[n], q} \cap watched)
    /\ stranded' = stranded \ {RootPath[n]}
    /\ Put(RootPath[n], n, Held(q, n))
    /\ Cleanup(q, n)
    /\ UNCHANGED <<archive, sidecar, watched, runs, lock, seen, outside, dismissed,
                   excused>>

(* handleSkip: the hash is marked first, and then the file is moved; when
   the list cannot be written the file stays. *)
WebSkip(q, n) ==
    /\ web = None /\ Event
    /\ Held(q, n) # None
    /\ seen' = seen \cup {Held(q, n)}
    /\ dismissed' = dismissed \cup {Held(q, n)}
    /\ \/ saved' = (IF Held(q, n) \in seen THEN saved ELSE seen')
          /\ Serving(q, n, "file")
          /\ UNCHANGED excused
       \/ /\ Held(q, n) \notin seen
          /\ excused' = excused \cup {Held(q, n)}
          /\ UNCHANGED <<saved, web>>
    /\ UNCHANGED <<files, watched, due, runs, lock, docs, published, stranded, overtaken>>

WebFile ==
    /\ web # None /\ web.stage = "file"
    /\ IF Held(web.queue, web.name) = None
       THEN web' = None /\ UNCHANGED <<inbox, retry, dlq, archive, due>>
       ELSE /\ archive' = [archive EXCEPT ![web.name] = Held(web.queue, web.name)]
            /\ TakeFrom(web.queue, web.name)
            /\ inbox' = [p \in Paths |-> IF p = web.queue THEN None ELSE inbox[p]]
            /\ due' = due \cup ({web.queue} \cap watched)
            /\ Cleanup(web.queue, web.name)
    /\ UNCHANGED <<sidecar, watched, runs, lock, seen, outside, history, events>>

WebDelete(q, n) ==
    /\ web = None /\ Event
    /\ Held(q, n) # None
    /\ inbox' = [p \in Paths |-> IF p = q THEN None ELSE inbox[p]]
    /\ TakeFrom(q, n)
    /\ Cleanup(q, n)
    /\ UNCHANGED <<archive, sidecar, watched, due, runs, lock, seen, outside, history>>

(* By now the sidecar may be that of a file deferred since. *)
WebCleanup ==
    /\ web # None /\ web.stage = "cleanup"
    /\ sidecar' = [sidecar EXCEPT ![web.name] = 0]
    /\ stranded' = IF sidecar[web.name] # 0 /\ retry[web.name] # None
                   THEN stranded \cup {web.name} ELSE stranded
    /\ web' = None
    /\ UNCHANGED <<inbox, retry, dlq, archive, watched, due, runs, lock, seen,
                   outside, dismissed, excused, overtaken, events>>
-----------------------------------------------------------------------------
Interrupted(stage) == {i \in Slots : Working(i, stage)}

(* Mutant: only new events are acted on after a restart. *)
RestartWithoutSweep ==
    /\ Event
    /\ watched' = watched \cup {p \in Paths : inbox[p] # None}
    /\ due' = {}
    /\ runs' = [i \in Slots |-> None] /\ lock' = None /\ web' = None
    /\ seen' = saved
    /\ excused' = excused \cup {runs[i].body : i \in Interrupted("pages") \cup Interrupted("mark")}
    /\ stranded' = (stranded \ Paths) \cup {NameOf[runs[i].path] : i \in Interrupted("sidecar")}
    /\ UNCHANGED <<files, outside, dismissed, overtaken>>

(* The process ends and a new one watches the tree as it stands, sets a
   timer for every note in it and reads state/.  A run at "pages" may have
   had no answer to create_doc yet: its document is there all the same. *)
Restart ==
    /\ Event
    /\ watched' = watched \cup {p \in Paths : inbox[p] # None}
    /\ due' = {p \in Paths : inbox[p] # None}
    /\ runs' = [i \in Slots |-> None] /\ lock' = None /\ web' = None
    /\ seen' = saved
    /\ excused' = excused \cup {runs[i].body : i \in Interrupted("pages") \cup Interrupted("mark")}
    /\ stranded' = (stranded \ Paths) \cup {NameOf[runs[i].path] : i \in Interrupted("sidecar")}
    /\ UNCHANGED <<files, outside, dismissed, overtaken>>
-----------------------------------------------------------------------------
Run(i) ==
    \/ Unstable(i) \/ Check(i) \/ Parse(i) \/ Transcribe(i) \/ CreateDoc(i)
    \/ AppendPages(i) \/ MarkSeen(i) \/ Archive(i) \/ ToDLQ(i)
    \/ Schedule(i) \/ WriteSidecar(i)

Next ==
    \/ \E p \in Paths, c \in 1 .. events.uploads + 1 : Upload(p, c)
    \/ \E p \in Paths : AttachDir(p) \/ Fire(p)
    \/ \E i \in Slots : Run(i)
    \/ \E n \in Names : Requeue(n) \/ Requeued(n)
    \/ \E n \in Names : \E q \in Queues(n) :
          WebRetry(q, n) \/ WebSkip(q, n) \/ WebDelete(q, n)
    \/ WebFile \/ WebCleanup
    \/ Restart

Spec == Init /\ [][Next]_vars

(* Timers fire, a callback that has begun goes on to its end (the gateway's
   and Affine's calls time out), the spool loop wakes at least every thirty
   seconds.  Rate limits and failures are among the bounded events. *)
Fairness ==
    /\ \A p \in Paths : WF_vars(Fire(p))
    /\ \A i \in Slots : WF_vars(Run(i))
    /\ \A n \in Names : WF_vars(Requeue(n) \/ Requeued(n))
    /\ WF_vars(WebFile \/ WebCleanup)

FairSpec == Spec /\ Fairness
-----------------------------------------------------------------------------
(* Properties. *)

TypeOK ==
    /\ inbox \in [Paths -> Contents \cup {None}]
    /\ {retry, dlq, archive} \subseteq [Names -> Contents \cup {None}]
    /\ sidecar \in [Names -> 0 .. MaxRetries]
    /\ watched \subseteq Paths /\ due \subseteq watched
    /\ runs \in [Slots -> Callback \cup {None}]
    /\ lock \in Slots \cup Names \cup {None}
    /\ saved \subseteq seen /\ seen \subseteq Contents /\ published \subseteq Contents
    /\ stranded \subseteq Paths \cup Names

(* Every note in inbox/ has a callback to come or under way that will take
   it from there, whatever was moved over it or re-uploaded meanwhile,
   except in the ways that `stranded` records. *)
InboxIsWatched ==
    \A p \in Paths :
        \/ inbox[p] = None
        \/ p \in due \cup stranded
        \/ \E i \in Slots : runs[i] # None /\ runs[i].path = p

(* Every note in retry/ has a sidecar, without which the spool never looks
   at it, or will have it when the lock is released. *)
RetryIsScheduled ==
    \A n \in Names :
        \/ retry[n] = None
        \/ sidecar[n] # 0
        \/ n \in stranded
        \/ \E i \in Slots : Working(i, "sidecar") /\ NameOf[runs[i].path] = n

(* A note is archived unread only because a document with its content is
   complete, the user skipped it, or a run that had hashed it read and
   published what replaced it. *)
SeenIsDealtWith == seen \subseteq published \cup dismissed

(* What is in archive/ was published or dismissed, unless it was put under
   its path while a run or the web page was about to archive what had been
   there before: the last rename then takes the newer note along, unread. *)
ArchiveIsDealtWith ==
    \A n \in Names : archive[n] \in {None} \cup published \cup dismissed \cup overtaken

(* The four together: no note is forgotten in inbox/, retry/ or archive/. *)
NoNoteIsForgotten ==
    InboxIsWatched /\ RetryIsScheduled /\ SeenIsDealtWith /\ ArchiveIsDealtWith

(* "Boox's habit of re-uploading the full ZIP on every edit doesn't generate
   duplicate Affine docs": a content has a second document only if a failure
   or a restart came between its document and its mark (the lost answer to
   the call that made the document is one), the list could not be written,
   two runs worked on it at once, or it replaced another content under a
   run. *)
DocsOnce == \A c \in Contents : docs[c] > 1 => c \in excused

(* No note stays in inbox/ or retry/ for ever unless it is stranded. *)
NotesSettle ==
    /\ \A p \in Paths : <>[](inbox[p] = None \/ p \in stranded)
    /\ \A n \in Names : <>[](retry[n] = None \/ n \in stranded)
=============================================================================
