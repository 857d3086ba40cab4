----------------------------- MODULE SyncBridge -----------------------------
(***************************************************************************)
(* From a committed batch to search: the bridge (internal/syncbridge) is   *)
(* told which pages changed, and one worker renders, OCRs, indexes and     *)
(* embeds them and authors their recognized text, while devices go on      *)
(* pushing and the web handlers delete notebooks, edit text boxes and ask  *)
(* for reprocessing.  Nothing about pending work is on disk.               *)
(*                                                                         *)
(* SyncStore shows that each database transaction is atomic and how the    *)
(* conflict order picks a row's winner.  Here a write is one step, and     *)
(* what is left of a page is its row, a version of its strokes and a       *)
(* version of its text boxes (0: none that is live).                       *)
(***************************************************************************)
EXTENDS Naturals, Sequences, FiniteSets

CONSTANTS
    PageIds,        \* fn_page.id
    Notebooks,
    QueueCap,       \* the buffer of the bridge's channel (256)
    Legacy,         \* paths of pages indexed before page text existed
    MaxEvents,      \* bound: pushes, calls of the web handlers and faults
    NoPage,         \* no row for the page
    NoEntry,        \* nothing under this key in the index, in RAG or on devices
    Waiting         \* the worker waits for a page

ASSUME BridgeAssumption ==
    /\ QueueCap \in Nat \ {0}
    /\ Legacy \subseteq Notebooks \X PageIds
    /\ MaxEvents \in Nat
    /\ NoPage \notin Notebooks

Versions == 0 .. (MaxEvents + 1)

(* A body: the version of the strokes that OCR read (0: nothing was
   recognized) and of the text boxes whose text is appended to it. *)
Bodies == Versions \X Versions
Empty == <<0, 0>>

Placed == [notebook : Notebooks, live : BOOLEAN]
PageRows == Placed \cup {NoPage}

(* What the worker does about a page: read it, write what it has recognized,
   or drop it. *)
Reads == {"live", "strokes", "boxes"}
Writes == {"ocr", "index", "author", "embed"}
Drops == {"unindex", "unembed", "untext"}

Works == [page : PageIds, stage : Reads \cup Writes \cup Drops,
          notebook : Notebooks \cup {NoPage},
          strokes : Versions, boxes : Versions, body : Bodies]

(* A notebook being deleted, with what was read of its pages. *)
Snapshots == UNION {[P -> Versions] : P \in SUBSET PageIds}
Deletions == [notebook : Notebooks, stage : {"author", "deindex"},
              pages : SUBSET PageIds, strokes : Snapshots]

ASSUME AbsentAssumption ==
    NoPage \notin Placed /\ NoEntry \notin Bodies /\ Waiting \notin Works

VARIABLES
    row,        \* fn_page
    strokes,    \* fn_stroke: version of the page's live strokes
    boxes,      \* fn_text_box: version of the page's live text boxes
    recognized, \* fn_page_text_from_server; Empty stands for a tombstone
    index,      \* note_content, by notebook and page: the path
    embedded,   \* note_embeddings, by notebook and page
    committed,  \* page changes whose handler has not called PagesChanged
    queue,      \* the bridge's channel
    worker,     \* what the worker has read of the page it is processing
    deleting,   \* notebook deletions: tombstoned, pages still to de-index
    filling,    \* the page texts backfillPageText has still to author
    lost,       \* history: pages some step for which was dropped or undone
    purged,     \* history: pages tombstoned by a notebook deletion
    events      \* pushes, calls and faults so far

content == <<row, strokes, boxes>>
derived == <<recognized, index, embedded>>
pending == <<committed, queue, worker, deleting, filling>>
bridgeVars == <<content, derived, pending, lost, purged, events>>

Paths == Notebooks \X PageIds
PathOf(nb, p) == <<nb, p>>

(* What backfillPageText finds to author: indexed bodies of live pages that
   have no page text, not even a tombstone. *)
Unauthored ==
    {<<x[2], index[x]>> : x \in
        {y \in Paths : /\ index[y] \notin {NoEntry, Empty}
                       /\ recognized[y[2]] = NoEntry
                       /\ row[y[2]] # NoPage /\ row[y[2]].live}}

(* A page that synced and was indexed before page text existed is what
   backfillPageText is for. *)
BridgeInit ==
    /\ index = [x \in Paths |-> IF x \in Legacy THEN <<1, 0>> ELSE NoEntry]
    /\ row = [p \in PageIds |->
                 IF \E nb \in Notebooks : <<nb, p>> \in Legacy
                 THEN [notebook |-> CHOOSE nb \in Notebooks : <<nb, p>> \in Legacy,
                       live |-> TRUE]
                 ELSE NoPage]
    /\ strokes = [p \in PageIds |-> IF row[p] = NoPage THEN 0 ELSE 1]
    /\ embedded = index
    /\ boxes = [p \in PageIds |-> 0]
    /\ recognized = [p \in PageIds |-> NoEntry]
    /\ committed = {} /\ queue = <<>> /\ worker = Waiting
    /\ deleting = {} /\ filling = Unauthored
    /\ lost = {} /\ purged = {}
    /\ events = 0

Event == events < MaxEvents /\ events' = events + 1
Fresh == events + 2
-----------------------------------------------------------------------------
(* Pushes.  ApplyBatch has committed an op that won its row; the handler
   still has to read the changelog before it tells the bridge. *)

Push(p) ==
    /\ Event
    /\ committed' = committed \cup {<<events, p>>}
    /\ UNCHANGED <<derived, queue, worker, deleting, filling, lost>>

PushStrokes(p) ==
    /\ \E v \in {0, Fresh} : v # strokes[p] /\ strokes' = [strokes EXCEPT ![p] = v]
    /\ Push(p)
    /\ UNCHANGED <<row, boxes, purged>>

PushBoxes(p) ==
    /\ \E v \in {0, Fresh} : v # boxes[p] /\ boxes' = [boxes EXCEPT ![p] = v]
    /\ Push(p)
    /\ UNCHANGED <<row, strokes, purged>>

(* Created, moved to another notebook, deleted or restored. *)
PushRow(p) ==
    /\ \E r \in PageRows \ {NoPage, row[p]} : row' = [row EXCEPT ![p] = r]
    /\ purged' = purged \ {p}
    /\ Push(p)
    /\ UNCHANGED <<strokes, boxes>>

(* Mutant: a queue without a bound. *)
EnqueueAlways(p) == queue' = Append(queue, p) /\ UNCHANGED lost

(* PagesChanged: a send that does not wait. *)
Enqueue(p) ==
    IF Len(queue) < QueueCap
    THEN queue' = Append(queue, p) /\ UNCHANGED lost
    ELSE UNCHANGED queue /\ lost' = lost \cup {p}

PagesChanged(c) ==
    /\ c \in committed
    /\ committed' = committed \ {c}
    /\ Enqueue(c[2])
    /\ UNCHANGED <<content, derived, worker, deleting, filling, purged, events>>

(* OpsSince fails, or the caller is gone: 500, and the resend is deduped. *)
FailChangelog(c) ==
    /\ c \in committed
    /\ Event
    /\ committed' = committed \ {c}
    /\ lost' = lost \cup {c[2]}
    /\ UNCHANGED <<content, derived, queue, worker, deleting, filling, purged>>
-----------------------------------------------------------------------------
(* The worker: processPage, one step for each access to the database or to
   the OCR and embedding services. *)

Doing(stage) == worker # Waiting /\ worker.stage = stage
Goto(stage) == worker' = [worker EXCEPT !.stage = stage]
Keep == UNCHANGED <<content, committed, queue, deleting, filling, purged>>

(* A step that fails is logged and the worker goes on. *)
Failed == Event /\ lost' = lost \cup {worker.page}
Worked == UNCHANGED <<lost, events>>

Take ==
    /\ worker = Waiting /\ queue # <<>>
    /\ worker' = [page |-> Head(queue), stage |-> "live", notebook |-> NoPage,
                  strokes |-> 0, boxes |-> 0, body |-> Empty]
    /\ queue' = Tail(queue)
    /\ lost' = lost \ {Head(queue)}
    /\ UNCHANGED <<content, derived, committed, deleting, filling, purged, events>>

(* Mutant: a page that is not live is skipped, not dropped. *)
LivePageSkipping ==
    /\ Doing("live")
    /\ LET r == row[worker.page]
       IN  worker' = IF r # NoPage /\ r.live
                     THEN [worker EXCEPT !.notebook = r.notebook, !.stage = "strokes"]
                     ELSE Waiting
    /\ Worked /\ Keep
    /\ UNCHANGED derived

LivePage ==
    /\ Doing("live")
    /\ LET r == row[worker.page]
       IN  worker' = IF r = NoPage
                     THEN [worker EXCEPT !.stage = "unindex"]
                     ELSE [worker EXCEPT !.notebook = r.notebook,
                                         !.stage = IF r.live THEN "strokes" ELSE "unindex"]
    /\ Worked /\ Keep
    /\ UNCHANGED derived

LivePageStrokes ==
    /\ Doing("strokes")
    /\ worker' = [worker EXCEPT !.strokes = strokes[worker.page], !.stage = "boxes"]
    /\ Worked /\ Keep
    /\ UNCHANGED derived

(* Mutant: there is nothing to do for a blank page. *)
SkipBlankPage ==
    /\ Doing("boxes")
    /\ LET b == boxes[worker.page]
       IN  worker' = IF worker.strokes = 0 /\ b = 0 THEN Waiting
                     ELSE [worker EXCEPT !.boxes = b, !.stage = "ocr"]
    /\ Worked /\ Keep
    /\ UNCHANGED derived

(* A blank page is dropped; otherwise the strokes alone are rendered. *)
LivePageTextBoxes ==
    /\ Doing("boxes")
    /\ LET b == boxes[worker.page]
       IN  worker' = [worker EXCEPT !.boxes = b,
                                    !.stage = IF worker.strokes = 0 /\ b = 0
                                              THEN "unindex" ELSE "ocr"]
    /\ Worked /\ Keep
    /\ UNCHANGED derived

(* The error of any of the three reads, or of rendering, ends the page's
   processing. *)
FailRead ==
    /\ worker # Waiting /\ worker.stage \in Reads \cup {"ocr"}
    /\ Failed
    /\ worker' = Waiting
    /\ Keep /\ UNCHANGED derived

Recognize ==
    /\ Doing("ocr")
    /\ \/ worker.strokes # 0 /\ Worked
          /\ worker' = [worker EXCEPT !.body = <<worker.strokes, worker.boxes>>,
                                      !.stage = "index"]
       \/ /\ IF worker.strokes = 0 THEN Worked ELSE Failed
          /\ worker' = [worker EXCEPT !.body = <<0, worker.boxes>>, !.stage = "index"]
    /\ Keep /\ UNCHANGED derived

Path == PathOf(worker.notebook, worker.page)

IndexPage ==
    /\ Doing("index")
    /\ \/ index' = [index EXCEPT ![Path] = worker.body] /\ Worked
       \/ UNCHANGED index /\ Failed
    /\ Goto("author")
    /\ Keep /\ UNCHANGED <<recognized, embedded>>

(* AuthorPageText, or its tombstone when nothing was recognized; an empty
   body is not embedded, and what was embedded before is left. *)
AuthorText ==
    /\ Doing("author")
    /\ \/ recognized' = [recognized EXCEPT ![worker.page] = worker.body] /\ Worked
       \/ UNCHANGED recognized /\ Failed
    /\ IF worker.body = Empty THEN worker' = Waiting ELSE Goto("embed")
    /\ Keep /\ UNCHANGED <<index, embedded>>

(* EmbedAndStorePage keeps the old vectors when no chunk can be embedded. *)
Embed ==
    /\ Doing("embed")
    /\ \/ embedded' = [embedded EXCEPT ![Path] = worker.body] /\ Worked
       \/ UNCHANGED embedded /\ Failed
    /\ worker' = Waiting
    /\ Keep /\ UNCHANGED <<recognized, index>>

(* dropPage: the index, the embeddings and the page's text, each on its
   own.  A page without a row has no path, and nothing is found there. *)
Remove(f) == IF Path \in Paths THEN [f EXCEPT ![Path] = NoEntry] ELSE f

DropIndex ==
    /\ Doing("unindex")
    /\ \/ index' = Remove(index) /\ Worked
       \/ UNCHANGED index /\ Failed
    /\ Goto("unembed")
    /\ Keep /\ UNCHANGED <<recognized, embedded>>

DropEmbedding ==
    /\ Doing("unembed")
    /\ \/ embedded' = Remove(embedded) /\ Worked
       \/ UNCHANGED embedded /\ Failed
    /\ Goto("untext")
    /\ Keep /\ UNCHANGED <<recognized, index>>

DropText ==
    /\ Doing("untext")
    /\ \/ recognized' = [recognized EXCEPT ![worker.page] = Empty] /\ Worked
       \/ UNCHANGED recognized /\ Failed
    /\ worker' = Waiting
    /\ Keep /\ UNCHANGED <<index, embedded>>

Work ==
    \/ Take
    \/ LivePage \/ LivePageStrokes \/ LivePageTextBoxes \/ FailRead
    \/ Recognize \/ IndexPage \/ AuthorText \/ Embed
    \/ DropIndex \/ DropEmbedding \/ DropText
-----------------------------------------------------------------------------
(* The web handlers. *)

LiveIn(nb) ==
    {p \in PageIds : row[p] # NoPage /\ row[p] = [notebook |-> nb, live |-> TRUE]}

(* SoftDeleteNotebook: the pages and strokes to tombstone are read first... *)
ReadNotebook(nb) ==
    /\ Event
    /\ LiveIn(nb) # {}
    /\ deleting' = deleting \cup {[notebook |-> nb, stage |-> "author", pages |-> LiveIn(nb),
                                   strokes |-> [p \in LiveIn(nb) |-> strokes[p]]]}
    /\ UNCHANGED <<content, derived, committed, queue, worker, filling, lost,
                   purged>>

(* ... and authored, with the page texts, in a transaction of their own;
   text boxes are not among them, and the bridge is not told. *)
TombstoneNotebook(x) ==
    /\ x \in deleting /\ x.stage = "author"
    /\ row' = [p \in PageIds |->
                  IF p \in x.pages THEN [notebook |-> x.notebook, live |-> FALSE] ELSE row[p]]
    /\ strokes' = [p \in PageIds |->
                      IF p \in x.pages /\ strokes[p] = x.strokes[p] THEN 0 ELSE strokes[p]]
    /\ recognized' = [p \in PageIds |-> IF p \in x.pages THEN Empty ELSE recognized[p]]
    /\ purged' = purged \cup x.pages
    /\ deleting' = (deleting \ {x}) \cup {[x EXCEPT !.stage = "deindex"]}
    /\ UNCHANGED <<boxes, index, embedded, committed, queue, worker, filling,
                   lost, events>>

(* DeleteForestNoteNotebook de-indexes the pages one by one.  A page that a
   device has restored meanwhile loses the entry it was given since. *)
DeindexPage(x) ==
    /\ x \in deleting /\ x.stage = "deindex"
    /\ \E p \in x.pages :
          LET path == PathOf(x.notebook, p)
          IN  /\ index' = [index EXCEPT ![path] = NoEntry]
              /\ embedded' = [embedded EXCEPT ![path] = NoEntry]
              /\ lost' = IF p \in purged THEN lost ELSE lost \cup {p}
              /\ deleting' = (deleting \ {x}) \cup
                    (IF x.pages = {p} THEN {} ELSE {[x EXCEPT !.pages = @ \ {p}]})
    /\ UNCHANGED <<content, recognized, committed, queue, worker, filling,
                   purged, events>>

(* EditTextBoxText authors the box's new text, then the bridge is told. *)
EditTextBox(p) ==
    /\ Event
    /\ boxes[p] # 0
    /\ boxes' = [boxes EXCEPT ![p] = Fresh]
    /\ committed' = committed \cup {<<events, p>>}
    /\ UNCHANGED <<row, strokes, derived, queue, worker, deleting, filling, lost,
                   purged>>

(* ReprocessNotebook hands every live page to the bridge, from a goroutine
   that yields between chunks. *)
ReprocessNotebook(nb) ==
    /\ Event
    /\ LiveIn(nb) # {}
    /\ committed' = committed \cup {<<events, p>> : p \in LiveIn(nb)}
    /\ UNCHANGED <<content, derived, queue, worker, deleting, filling, lost,
                   purged>>
-----------------------------------------------------------------------------
(* Restarts. *)

(* The process ends, also by Stop: what was queued or half done is gone. *)
Restart ==
    /\ Event
    /\ lost' = lost \cup {c[2] : c \in committed} \cup {queue[i] : i \in 1 .. Len(queue)}
                    \cup (IF worker = Waiting THEN {} ELSE {worker.page})
                    \cup UNION {x.pages : x \in deleting}
    /\ committed' = {} /\ queue' = <<>> /\ worker' = Waiting /\ deleting' = {}
    /\ filling' = Unauthored
    /\ UNCHANGED <<content, derived, purged>>

(* backfillPageText, which Start launches, authors the bodies it found for
   pages that had no page text when it looked; the worker may have authored
   a newer one since, and then the older one wins. *)
Backfill(f) ==
    /\ f \in filling
    /\ filling' = filling \ {f}
    /\ \/ /\ recognized' = [recognized EXCEPT ![f[1]] = f[2]]
          /\ lost' = IF recognized[f[1]] = NoEntry THEN lost ELSE lost \cup {f[1]}
          /\ UNCHANGED events
       \/ UNCHANGED recognized /\ Event /\ lost' = lost \cup {f[1]}
    /\ UNCHANGED <<content, index, embedded, committed, queue, worker, deleting,
                   purged>>
-----------------------------------------------------------------------------
BridgeNext ==
    \/ \E p \in PageIds : PushStrokes(p) \/ PushBoxes(p) \/ PushRow(p) \/ EditTextBox(p)
    \/ \E c \in committed : PagesChanged(c) \/ FailChangelog(c)
    \/ Work
    \/ \E nb \in Notebooks : ReadNotebook(nb) \/ ReprocessNotebook(nb)
    \/ \E x \in deleting : TombstoneNotebook(x) \/ DeindexPage(x)
    \/ Restart
    \/ \E f \in filling : Backfill(f)

BridgeSpec == BridgeInit /\ [][BridgeNext]_bridgeVars

(* A handler that has committed goes on to its end, and the worker never
   blocks for ever: OCR and embedding calls time out. *)
BridgeFairness ==
    /\ WF_bridgeVars(\E c \in committed : PagesChanged(c))
    /\ WF_bridgeVars(Work)
    /\ WF_bridgeVars(\E x \in deleting : TombstoneNotebook(x) \/ DeindexPage(x))
    /\ WF_bridgeVars(\E f \in filling : Backfill(f))

BridgeFairSpec == BridgeSpec /\ BridgeFairness
-----------------------------------------------------------------------------
(* Properties. *)

BridgeTypeOK ==
    /\ row \in [PageIds -> PageRows]
    /\ strokes \in [PageIds -> Versions] /\ boxes \in [PageIds -> Versions]
    /\ recognized \in [PageIds -> Bodies \cup {NoEntry}]
    /\ index \in [Paths -> Bodies \cup {NoEntry}]
    /\ embedded \in [Paths -> Bodies \cup {NoEntry}]
    /\ committed \subseteq Nat \X PageIds
    /\ queue \in Seq(PageIds) /\ Len(queue) <= QueueCap
    /\ worker \in Works \cup {Waiting}
    /\ deleting \subseteq Deletions
    /\ filling \subseteq PageIds \X Bodies
    /\ lost \subseteq PageIds /\ purged \subseteq PageIds
    /\ events \in 0 .. MaxEvents

(* The worker will bring page p up to date: what it has read of the page so
   far has not changed since. *)
Renewing(p) ==
    /\ worker # Waiting /\ worker.page = p
    /\ \/ worker.stage = "live"
       \/ /\ row[p] # NoPage
          /\ worker.notebook = row[p].notebook
          /\ IF row[p].live
             THEN \/ worker.stage = "strokes"
                  \/ /\ worker.strokes = strokes[p]
                     /\ worker.stage = "boxes" \/ worker.boxes = boxes[p]
             ELSE worker.stage \in Drops

(* Work for page p is on its way, or is known to have been lost. *)
Accounted(p) ==
    \/ p \in lost
    \/ \E c \in committed : c[2] = p
    \/ \E i \in 1 .. Len(queue) : queue[i] = p
    \/ Renewing(p)

HasBody(p) == row[p].live /\ ~(strokes[p] = 0 /\ boxes[p] = 0)
Body(p) == <<strokes[p], boxes[p]>>
Home(p) == PathOf(row[p].notebook, p)

(* Search finds the page by what is on it now, and devices were sent that
   text; a blank or deleted page is not found and carries none. *)
Current(p) ==
    IF HasBody(p)
    THEN /\ index[Home(p)] = Body(p)
         /\ recognized[p] = Body(p) \/ <<p, Body(p)>> \in filling
    ELSE index[Home(p)] = NoEntry /\ recognized[p] \in {NoEntry, Empty}

(* Whatever way the pushes, the reads of the worker, the handlers and the
   backfill interleave, a page that was not deleted with its notebook is out
   of date only while work for it is pending, or because that work was
   dropped or undone in one of the ways that `lost` records.  The vectors
   are out of date when they are not those of its recognized content. *)
StaleIsAccounted ==
    \A p \in PageIds :
        row[p] # NoPage /\ p \notin purged =>
            \/ Accounted(p)
            \/ /\ Current(p)
               /\ embedded[Home(p)] = IF HasBody(p) THEN Body(p) ELSE NoEntry

(* A page whose work is not lost ends up searchable by its last content. *)
PagesSettle ==
    \A p \in PageIds :
        <>[](row[p] = NoPage \/ p \in purged \cup lost \/ Current(p))
=============================================================================
