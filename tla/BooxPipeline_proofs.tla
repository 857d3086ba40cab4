------------------------ MODULE BooxPipeline_proofs ------------------------
(***************************************************************************)
(* The pipeline finds what is there, makes a task of what is red, and      *)
(* nothing is found of what is gone: for every number of notes, uploads,   *)
(* worker goroutines and events.                                           *)
(*                                                                         *)
(* The invariant has five parts.  Basics: the types, and what an upload,   *)
(* a worker and a request rest on.  Manned: one worker at a path, whose    *)
(* job nobody else has ended.  Searched: an idle, undisturbed note is      *)
(* indexed as its file is, and what a worker has in hand will make it so.  *)
(* Once: one worker creates a task, where there is none.  Derived: pages   *)
(* and embeddings have a row and a file.                                   *)
(***************************************************************************)
EXTENDS BooxPipeline, TLAPS

-----------------------------------------------------------------------------
(* The inductive invariant.  First what the variables hold. *)

JobStatuses == {"pending", "in_progress", "done", "failed", "skipped", "deleted"}
Rows == [path : Paths, status : JobStatuses]
CallStages == {"writing", "copying", "row", "job"}
CallRecords == [n : Nat, path : Paths, at : Paths \cup {None},
                content : Contents \cup {None}, stage : CallStages]

Typed ==
    /\ format \in {"note", "pdf"}
    /\ file \in [Paths -> Contents \cup {None, Partial}]
    /\ calls \subseteq CallRecords
    /\ note \in [Paths -> Contents \cup {None, Blank}]
    /\ jobs \in Seq(Rows)
    /\ index \in [Paths -> Contents \cup {None, Partial}]
    /\ vectors \subseteq Paths
    /\ tasks \in [Contents -> Nat]
    /\ work \in [Slots -> Works \cup {None}]
    /\ running \subseteq Slots /\ cancelled \subseteq running
    /\ web \in Webs \cup {None}
    /\ uploads \in 0 .. MaxUploads /\ events \in Nat

Serves(ops, p) == web # None /\ web.op \in ops /\ web.path = p
Delivers(ops, p) == web # None /\ web.op \in ops /\ web.dest = p

(* What is being written is where its call says; it is somewhere else than
   where it was opened only under a move. *)
CallFits(c) ==
    /\ c.stage \in {"writing", "copying"} => c.content # None
    /\ c.stage \in {"row", "job"} => c.at = None
    /\ c.at # None => file[c.at] # None
    /\ c.at \notin {c.path, None} =>
          c.at \in lost \/ (Delivers({"move"}, c.at) /\ web.path \in {c.path} \cup lost)
    /\ c.stage = "copying" =>
          Delivers({"copy"}, c.path) /\ c.at \in {c.path, None} \cup lost

CallsFit ==
    /\ \A c \in calls : CallFits(c)
    /\ \A c, d \in calls : c.stage = "copying" /\ d.stage = "copying" => c = d

(* A worker is in the loop, at a job there is, and has read what its stage
   needs. *)
WorkFits ==
    \A i \in Slots : work[i] # None =>
        /\ i \in running
        /\ work[i].job \in DOMAIN jobs
        /\ work[i].stage \notin {"open", "failed"} => work[i].hash # None
        /\ work[i].stage \in {"clear", "pages", "rest", "todos", "create"} =>
              work[i].hash \in Contents
        /\ work[i].stage \in {"rest", "todos", "create"} => work[i].body \in Contents

WebFits ==
    web # None /\ web.op \in {"move", "rename", "copy", "migrate"} => web.path # web.dest

JobsHaveNotes == \A p \in Paths : JobsOf(p) # {} => note[p] # None

Basics == Typed /\ CallsFit /\ WorkFits /\ WebFits /\ JobsHaveNotes

-----------------------------------------------------------------------------
(* Who works for what. *)

(* One worker at a path. *)
Alone(p) == p \notin lost => \A i, j \in Slots : AtWork(i, p) /\ AtWork(j, p) => i = j

(* Where a worker's note was deleted or moved away, every job is newer. *)
Strange(p) ==
    p \notin lost =>
        \A i \in Slots : AtWork(i, p) /\ Orphaned(i) =>
            \A k \in JobsOf(p) : jobs[k].status \in {"pending", "skipped"}

(* A job at which a worker is has not ended; and when the user skips it, nor
   has a later one. *)
Owned(p) ==
    p \notin lost =>
        \A i \in Slots : AtWork(i, p) /\ ~Orphaned(i) =>
            \/ jobs[work[i].job].status \in {"pending", "in_progress"}
            \/ /\ jobs[work[i].job].status = "skipped"
               /\ \A k \in JobsOf(p) : k >= work[i].job =>
                     jobs[k].status \in {"pending", "skipped"}

Manned == \A p \in Paths : Alone(p) /\ Strange(p) /\ Owned(p)

-----------------------------------------------------------------------------
(* What the index holds. *)

Called(p) == \E c \in calls : p \in {c.path, c.at}

(* The file of the note that the rows of p describe: a move takes the file
   first. *)
Home(p) == IF Serves({"move"}, p) THEN file[web.dest] ELSE file[p]

(* Somebody is about to change the file or the rows of p. *)
Stirred(p) ==
    \/ Called(p)
    \/ Serves({"purge"}, p)
    \/ Delivers({"move", "copy", "migrate"}, p)
    \/ /\ Serves({"move"}, p)
       /\ \/ Called(web.dest) \/ note[web.dest] # None \/ file[p] # None
          \/ web.dest \in lost \cup ghosts

Due(p) == JobsOf(p) \cap (WithStatus("pending") \cup WithStatus("in_progress"))

(* The latest job of p is done, and none is left. *)
Idle(p) == Due(p) = {} /\ Latest(p) # {} /\ Latest(p) \subseteq WithStatus("done")

(* When job k ends p is not idle yet. *)
OthersDue(p, k) ==
    \/ Due(p) \ {k} # {}
    \/ \E l \in Latest(p) : l # k /\ jobs[l].status # "done"

(* An idle note is indexed as its file is. *)
Indexed(p) == Idle(p) /\ ~Stirred(p) => index[p] = Home(p)

(* What a worker has read and written agrees with the file. *)
Fits(i, p) ==
    /\ work[i].hash = Home(p)
    /\ work[i].stage = "rest" => work[i].body = Home(p) /\ index[p] = Partial
    /\ work[i].stage \in {"todos", "create", "done"} => index[p] = Home(p)

(* And what a worker is about to leave behind will be. *)
UnderWay(p) ==
    \A i \in Slots :
        AtWork(i, p) /\ ~Orphaned(i) /\ work[i].stage \notin {"open", "failed"} =>
            Stirred(p) \/ OthersDue(p, work[i].job) \/ Fits(i, p)

Found(p) == p \notin lost \cup ghosts => Indexed(p) /\ UnderWay(p)

(* The red ink of what the index holds has been looked at. *)
Told(p) ==
    /\ index[p] # None
    /\ index[p] \in Contents => tasks[index[p]] > 0 \/ index[p] \in missed

Reads(i, p) ==
    /\ work[i].stage \in {"todos", "create"} =>
          index[p] # None /\ (index[p] \in Contents => index[p] = work[i].body)
    /\ work[i].stage = "done" => Told(p)

Read(p) ==
    p \notin lost =>
        /\ Idle(p) => Told(p)
        /\ \A i \in Slots : AtWork(i, p) /\ ~Orphaned(i) => Reads(i, p)

Searched == \A p \in Paths : Found(p) /\ Read(p)

(* One worker creates a task, where there is none. *)
OnlyOne(c) ==
    c \notin raced =>
        /\ tasks[c] <= 1
        /\ \A i \in Slots : Active(i, "create") /\ work[i].body = c =>
              /\ tasks[c] = 0
              /\ \A j \in Slots : Active(j, "create") /\ work[j].body = c => i = j

Once == \A c \in Contents : OnlyOne(c)

-----------------------------------------------------------------------------
(* What derived data there is. *)

HasRow(p) ==
    p \notin ghosts =>
        /\ index[p] # None => note[p] # None
        /\ p \in vectors => note[p] # None \/ Serves({"vectors", "rename"}, p)

HasFile(p) ==
    p \notin ghosts =>
        /\ index[p] # None => file[p] # None \/ Serves({"purge", "move"}, p)
        /\ p \in vectors => file[p] # None \/ Serves({"purge", "move", "rename"}, p)
        /\ \A i \in Slots :
              AtWork(i, p) /\ ~Orphaned(i) /\ work[i].stage \notin {"open", "failed"} =>
                  file[p] # None \/ Serves({"purge", "move"}, p)
        /\ Delivers({"move", "rename", "copy", "migrate"}, p) => file[p] # None

Derived == \A p \in Paths : HasRow(p) /\ HasFile(p)

PipelineInv == Basics /\ Manned /\ Searched /\ Once /\ Derived

-----------------------------------------------------------------------------
(* Lemmas about the operators of the model. *)

(* None is no value of anything that it stands for the absence of. *)
LEMMA NoneIsApart ==
    /\ \A p \in Paths : p # None
    /\ \A i \in Slots : i # None
    /\ \A c \in Contents : c # None /\ c # Partial /\ c # Blank
    /\ \A r \in Webs : r # None
    /\ \A w \in Works : w # None
    /\ None # Partial /\ None # Blank /\ Partial # Blank
BY PipelineAssumption DEF Contents

(* What a job's row holds. *)
LEMMA JobRows ==
    ASSUME Typed
    PROVE  /\ \A k \in DOMAIN jobs : jobs[k] \in Rows
           /\ \A k \in DOMAIN jobs : jobs[k].path \in Paths /\ jobs[k].status \in JobStatuses
           /\ DOMAIN jobs = 1 .. Len(jobs) /\ Len(jobs) \in Nat
           /\ DOMAIN jobs \subseteq Nat
<1>1. DOMAIN jobs = 1 .. Len(jobs) /\ Len(jobs) \in Nat
  BY DEF Typed
<1>2. \A k \in DOMAIN jobs : jobs[k] \in Rows
  BY DEF Typed
<1> QED
  BY <1>1, <1>2 DEF Rows

(* CompleteJob and the other statements that set a status: they leave the
   paths alone, and what is deleted. *)
LEMMA UpdateSets ==
    ASSUME Typed, NEW ids, NEW s \in JobStatuses, jobs' = Update(ids, s)
    PROVE  /\ jobs' \in Seq(Rows)
           /\ DOMAIN jobs' = DOMAIN jobs
           /\ \A k \in DOMAIN jobs :
                 /\ jobs'[k].path = jobs[k].path
                 /\ jobs'[k].status = IF k \in ids /\ jobs[k].status # "deleted"
                                      THEN s ELSE jobs[k].status
<1>1. \A k \in DOMAIN jobs :
          /\ [jobs[k] EXCEPT !.status = s] \in Rows
          /\ [jobs[k] EXCEPT !.status = s].path = jobs[k].path
          /\ [jobs[k] EXCEPT !.status = s].status = s
  BY JobRows DEF Rows
<1>2. /\ DOMAIN jobs' = DOMAIN jobs
      /\ \A k \in DOMAIN jobs :
            jobs'[k] = IF k \in ids /\ jobs[k].status # "deleted"
                       THEN [jobs[k] EXCEPT !.status = s] ELSE jobs[k]
  BY DEF Update
<1>3. jobs' \in [1 .. Len(jobs) -> Rows]
  <2>1. \A k \in DOMAIN jobs : jobs'[k] \in Rows
    BY <1>1, <1>2, JobRows
  <2>2. jobs' = [k \in DOMAIN jobs |-> jobs'[k]]
    BY <1>2 DEF Update
  <2> QED
    BY <2>1, <2>2, JobRows
<1>4. jobs' \in Seq(Rows)
  BY <1>3, JobRows
<1> QED
  BY <1>1, <1>2, <1>4

(* The jobs of a note are the same after a statement that does not delete. *)
LEMMA UpdateKeeps ==
    ASSUME Typed, NEW ids, NEW s \in JobStatuses \ {"deleted"}, jobs' = Update(ids, s)
    PROVE  \A p \in Paths : JobsOf(p)' = JobsOf(p) /\ Latest(p)' = Latest(p)
<1> SUFFICES ASSUME NEW p \in Paths
             PROVE  JobsOf(p)' = JobsOf(p) /\ Latest(p)' = Latest(p)
  OBVIOUS
<1>1. /\ DOMAIN jobs' = DOMAIN jobs
      /\ \A k \in DOMAIN jobs :
            /\ jobs'[k].path = jobs[k].path
            /\ jobs'[k].status = "deleted" <=> jobs[k].status = "deleted"
  BY UpdateSets
<1>2. JobsOf(p)' = JobsOf(p)
  BY <1>1 DEF JobsOf
<1> QED
  BY <1>2 DEF Latest

(* The rows of one note go: no other job changes. *)
LEMMA DeletedRows ==
    ASSUME Typed, NEW p \in Paths, DeleteRows(p)
    PROVE  /\ jobs' \in Seq(Rows)
           /\ DOMAIN jobs' = DOMAIN jobs
           /\ JobsOf(p)' = {}
           /\ \A k \in DOMAIN jobs :
                 /\ jobs'[k].path = jobs[k].path
                 /\ jobs[k].path = p => jobs'[k].status = "deleted"
                 /\ jobs[k].path # p => jobs'[k].status = jobs[k].status
           /\ \A q \in Paths \ {p} : JobsOf(q)' = JobsOf(q) /\ Latest(q)' = Latest(q)
<1>1. /\ jobs' \in Seq(Rows)
      /\ DOMAIN jobs' = DOMAIN jobs
      /\ \A k \in DOMAIN jobs :
            /\ jobs'[k].path = jobs[k].path
            /\ jobs'[k].status = IF k \in JobsOf(p) /\ jobs[k].status # "deleted"
                                 THEN "deleted" ELSE jobs[k].status
  BY UpdateSets DEF DeleteRows, JobStatuses
<1>2. \A k \in DOMAIN jobs : /\ jobs[k].path = p => jobs'[k].status = "deleted"
                             /\ jobs[k].path # p => jobs'[k].status = jobs[k].status
  BY <1>1 DEF JobsOf
<1>3. JobsOf(p)' = {}
  BY <1>1, <1>2 DEF JobsOf
<1>4. \A q \in Paths \ {p} : JobsOf(q)' = JobsOf(q)
  BY <1>1, <1>2 DEF JobsOf
<1>5. \A q \in Paths \ {p} : Latest(q)' = Latest(q)
  BY <1>4 DEF Latest
<1> QED
  BY <1>1, <1>2, <1>3, <1>4, <1>5

(* The rows of one note become another's. *)
LEMMA MovedRows ==
    ASSUME Typed, NEW p \in Paths, NEW q \in Paths, p # q, MoveRows(p, q)
    PROVE  /\ jobs' \in Seq(Rows)
           /\ DOMAIN jobs' = DOMAIN jobs
           /\ \A k \in DOMAIN jobs :
                 /\ jobs'[k].status = jobs[k].status
                 /\ jobs'[k].path = IF k \in JobsOf(p) THEN q ELSE jobs[k].path
           /\ JobsOf(p)' = {}
           /\ JobsOf(q)' = JobsOf(p) \cup JobsOf(q)
           /\ \A r \in Paths \ {p, q} : JobsOf(r)' = JobsOf(r) /\ Latest(r)' = Latest(r)
<1>1. \A k \in DOMAIN jobs :
          /\ [jobs[k] EXCEPT !.path = q] \in Rows
          /\ [jobs[k] EXCEPT !.path = q].path = q
          /\ [jobs[k] EXCEPT !.path = q].status = jobs[k].status
  BY JobRows DEF Rows
<1>2. /\ DOMAIN jobs' = DOMAIN jobs
      /\ \A k \in DOMAIN jobs :
            jobs'[k] = IF k \in JobsOf(p) THEN [jobs[k] EXCEPT !.path = q] ELSE jobs[k]
  BY DEF MoveRows
<1>3. jobs' \in Seq(Rows)
  <2>1. \A k \in DOMAIN jobs : jobs'[k] \in Rows
    BY <1>1, <1>2, JobRows
  <2>2. jobs' = [k \in DOMAIN jobs |-> jobs'[k]]
    BY <1>2 DEF MoveRows
  <2>3. jobs' \in [1 .. Len(jobs) -> Rows]
    BY <2>1, <2>2, JobRows
  <2> QED
    BY <2>3, JobRows
<1>4. \A k \in DOMAIN jobs :
          /\ jobs'[k].status = jobs[k].status
          /\ jobs'[k].path = IF k \in JobsOf(p) THEN q ELSE jobs[k].path
  BY <1>1, <1>2
<1>5. JobsOf(p)' = {} /\ JobsOf(q)' = JobsOf(p) \cup JobsOf(q)
  BY <1>2, <1>4 DEF JobsOf
<1>6. \A r \in Paths \ {p, q} : JobsOf(r)' = JobsOf(r)
  BY <1>2, <1>4 DEF JobsOf
<1>7. \A r \in Paths \ {p, q} : Latest(r)' = Latest(r)
  BY <1>6 DEF Latest
<1> QED
  BY <1>2, <1>3, <1>4, <1>5, <1>6, <1>7

(* A job is queued behind the others. *)
LEMMA QueuedRow ==
    ASSUME Typed, NEW p \in Paths, jobs' = Append(jobs, [path |-> p, status |-> "pending"])
    PROVE  /\ jobs' \in Seq(Rows)
           /\ Len(jobs') = Len(jobs) + 1
           /\ DOMAIN jobs \subseteq DOMAIN jobs'
           /\ \A k \in DOMAIN jobs : jobs'[k] = jobs[k]
           /\ jobs'[Len(jobs) + 1] = [path |-> p, status |-> "pending"]
           /\ JobsOf(p)' = JobsOf(p) \cup {Len(jobs) + 1}
           /\ \A q \in Paths \ {p} : JobsOf(q)' = JobsOf(q) /\ Latest(q)' = Latest(q)
<1> DEFINE r == [path |-> p, status |-> "pending"]
<1>1. r \in Rows /\ r.path = p /\ r.status = "pending"
  BY DEF Rows, JobStatuses
<1>2. /\ jobs' \in Seq(Rows) /\ Len(jobs') = Len(jobs) + 1
      /\ DOMAIN jobs' = DOMAIN jobs \cup {Len(jobs) + 1}
      /\ \A k \in DOMAIN jobs : jobs'[k] = jobs[k]
      /\ jobs'[Len(jobs) + 1] = r
  BY <1>1 DEF Typed
<1>3. JobsOf(p)' = JobsOf(p) \cup {Len(jobs) + 1}
  BY <1>1, <1>2, JobRows DEF JobsOf
<1>4. \A q \in Paths \ {p} : JobsOf(q)' = JobsOf(q)
  BY <1>1, <1>2, JobRows DEF JobsOf
<1>5. \A q \in Paths \ {p} : Latest(q)' = Latest(q)
  BY <1>4 DEF Latest
<1> QED
  BY <1>2, <1>3, <1>4, <1>5

(* The fields of what a worker is at. *)
LEMMA WorkFields ==
    ASSUME Typed, NEW i \in Slots, work[i] # None
    PROVE  /\ work[i] \in Works
           /\ work[i].path \in Paths /\ work[i].job \in Nat
           /\ work[i].hash \in Contents \cup {None, Partial}
           /\ work[i].body \in Contents \cup {None, Partial}
BY DEF Typed, Works

Stages == {"open", "dedup", "parse", "clear", "pages", "rest", "todos", "create",
           "done", "failed"}

(* A worker goes on with its job. *)
LEMMA GoesOn ==
    ASSUME Typed, NEW i \in Slots, NEW w \in Works, work' = [work EXCEPT ![i] = w]
    PROVE  /\ work' \in [Slots -> Works \cup {None}]
           /\ work'[i] = w /\ work'[i] # None
           /\ \A j \in Slots \ {i} : work'[j] = work[j]
BY NoneIsApart DEF Typed

(* A worker goes on to another stage. *)
LEMMA GotoSets ==
    ASSUME Typed, NEW i \in Slots, work[i] # None, NEW s \in Stages, Goto(i, s)
    PROVE  /\ work' \in [Slots -> Works \cup {None}]
           /\ work'[i] # None
           /\ work'[i].job = work[i].job /\ work'[i].path = work[i].path
           /\ work'[i].stage = s
           /\ work'[i].hash = work[i].hash /\ work'[i].body = work[i].body
           /\ \A j \in Slots \ {i} : work'[j] = work[j]
<1> DEFINE w == [work[i] EXCEPT !.stage = s]
<1>1. /\ w \in Works
      /\ w.job = work[i].job /\ w.path = work[i].path
      /\ w.stage = s /\ w.hash = work[i].hash /\ w.body = work[i].body
  BY WorkFields DEF Works, Stages
<1>2. work' = [work EXCEPT ![i] = w]
  BY DEF Goto, Typed
<1> HIDE DEF w
<1> QED
  BY <1>1, <1>2, GoesOn

(* The first stage sets what was read, and a later one what pages were made
   from. *)
LEMMA OpenSets ==
    ASSUME Typed, NEW i \in Slots, Open(i), file[work[i].path] # None
    PROVE  /\ work' \in [Slots -> Works \cup {None}]
           /\ work'[i] # None
           /\ work'[i].job = work[i].job /\ work'[i].path = work[i].path
           /\ work'[i].stage = "dedup"
           /\ work'[i].hash = file[work[i].path] /\ work'[i].body = work[i].body
           /\ \A j \in Slots \ {i} : work'[j] = work[j]
<1> DEFINE w == [work[i] EXCEPT !.hash = file[work[i].path], !.stage = "dedup"]
<1>1. /\ w \in Works
      /\ w.job = work[i].job /\ w.path = work[i].path
      /\ w.stage = "dedup" /\ w.hash = file[work[i].path] /\ w.body = work[i].body
  BY WorkFields DEF Works, Open, Active, Typed
<1>2. work' = [work EXCEPT ![i] = w]
  BY DEF Open, Typed
<1> HIDE DEF w
<1> QED
  BY <1>1, <1>2, GoesOn

(* The first pages: what they are made from is kept. *)
LEMMA PagesSet ==
    ASSUME Typed, NEW i \in Slots, IndexPages(i), Source(i) \notin {None, Partial}
    PROVE  /\ work' \in [Slots -> Works \cup {None}]
           /\ work'[i] # None
           /\ work'[i].job = work[i].job /\ work'[i].path = work[i].path
           /\ work'[i].stage = "rest"
           /\ work'[i].hash = work[i].hash /\ work'[i].body = Source(i)
           /\ \A j \in Slots \ {i} : work'[j] = work[j]
<1> DEFINE w == [work[i] EXCEPT !.stage = "rest", !.body = Source(i)]
<1>1. Source(i) \in Contents
  BY WorkFields DEF Source, Typed, IndexPages, Active
<1>2. /\ w \in Works
      /\ w.job = work[i].job /\ w.path = work[i].path
      /\ w.stage = "rest" /\ w.hash = work[i].hash /\ w.body = Source(i)
  BY <1>1, WorkFields DEF Works, IndexPages, Active
<1>3. work' = [work EXCEPT ![i] = w]
  BY DEF IndexPages, Typed
<1> HIDE DEF w
<1> QED
  BY <1>2, <1>3, GoesOn

(* A worker takes up a job. *)
LEMMA ClaimSets ==
    ASSUME Typed, NEW i \in Slots, NEW k \in DOMAIN jobs, ClaimNextJob(i, k)
    PROVE  /\ work' \in [Slots -> Works \cup {None}]
           /\ work'[i] # None
           /\ work'[i].job = k /\ work'[i].path = jobs[k].path
           /\ work'[i].stage = "open"
           /\ \A j \in Slots \ {i} : work'[j] = work[j]
<1> DEFINE w == [job |-> k, path |-> jobs[k].path, hash |-> None,
                 body |-> None, stage |-> "open"]
<1>1. /\ w \in Works
      /\ w.job = k /\ w.path = jobs[k].path /\ w.stage = "open"
  BY JobRows DEF Works
<1>2. work' = [work EXCEPT ![i] = w]
  BY DEF ClaimNextJob
<1> HIDE DEF w
<1> QED
  BY <1>1, <1>2, GoesOn

(* What a job makes its pages from. *)
LEMMA SourceIs ==
    ASSUME Typed, NEW i \in Slots, work[i] # None
    PROVE  /\ Source(i) \in Contents \cup {None, Partial}
           /\ Source(i) \in {file[work[i].path], work[i].hash}
           /\ format = "pdf" => Source(i) = file[work[i].path]
           /\ format # "pdf" => Source(i) = work[i].hash
BY WorkFields DEF Source, Typed

(* What becomes of the calls whose file is renamed away or removed. *)
LEMMA Displaced ==
    ASSUME Typed, NEW p \in Paths, NEW new \in Paths \cup {None}
    PROVE  /\ \A d \in Displace(p, new) :
                 /\ d \in CallRecords
                 /\ \E c \in calls : /\ d.path = c.path /\ d.stage = c.stage
                                     /\ d.content = c.content
                                     /\ d.at = IF c.at = p THEN new ELSE c.at
                                     /\ d = IF c.at = p THEN [c EXCEPT !.at = new] ELSE c
           /\ \A c \in calls : \E d \in Displace(p, new) :
                 d.path = c.path /\ d.at = IF c.at = p THEN new ELSE c.at
<1> DEFINE f(c) == IF c.at = p THEN [c EXCEPT !.at = new] ELSE c
<1>1. \A c \in calls : /\ f(c) \in CallRecords
                       /\ f(c).path = c.path /\ f(c).stage = c.stage
                       /\ f(c).content = c.content
                       /\ f(c).at = IF c.at = p THEN new ELSE c.at
  <2> SUFFICES ASSUME NEW c \in calls
               PROVE  /\ f(c) \in CallRecords
                      /\ f(c).path = c.path /\ f(c).stage = c.stage
                      /\ f(c).content = c.content
                      /\ f(c).at = IF c.at = p THEN new ELSE c.at
    OBVIOUS
  <2>1. c \in CallRecords
    BY DEF Typed
  <2> QED
    BY <2>1 DEF CallRecords
<1>2. Displace(p, new) = {f(c) : c \in calls}
  BY DEF Displace
<1> HIDE DEF f
<1>3. \A d \in Displace(p, new) :
          /\ d \in CallRecords
          /\ \E c \in calls : /\ d.path = c.path /\ d.stage = c.stage
                              /\ d.content = c.content
                              /\ d.at = IF c.at = p THEN new ELSE c.at
                              /\ d = f(c)
  BY <1>1, <1>2
<1>4. \A c \in calls : f(c) \in Displace(p, new)
  BY <1>2
<1>5. \A c \in calls : \E d \in Displace(p, new) :
          d.path = c.path /\ d.at = IF c.at = p THEN new ELSE c.at
  BY <1>1, <1>4
<1> QED
  BY <1>3, <1>5 DEF f

(* The fields of a call, and what it is when it gets on. *)
LEMMA CallFields ==
    ASSUME Typed, NEW c \in calls
    PROVE  /\ c \in CallRecords
           /\ c.path \in Paths /\ c.at \in Paths \cup {None}
           /\ c.content \in Contents \cup {None} /\ c.stage \in CallStages
BY DEF Typed, CallRecords

(* A call at a later stage. *)
LEMMA CallGetsOn ==
    ASSUME Typed, NEW c \in calls, NEW s \in CallStages
    PROVE  /\ [c EXCEPT !.stage = s] \in CallRecords
           /\ [c EXCEPT !.stage = s].path = c.path
           /\ [c EXCEPT !.stage = s].at = c.at
           /\ [c EXCEPT !.stage = s].stage = s
           /\ [c EXCEPT !.stage = s, !.at = None] \in CallRecords
           /\ [c EXCEPT !.stage = s, !.at = None].path = c.path
           /\ [c EXCEPT !.stage = s, !.at = None].at = None
           /\ [c EXCEPT !.stage = s, !.at = None].stage = s
BY CallFields DEF CallRecords

(* A call of a request that begins. *)
LEMMA NewCall ==
    ASSUME Typed, NEW p \in Paths, NEW at \in Paths \cup {None},
           NEW c \in Contents \cup {None}, NEW s \in CallStages
    PROVE  /\ Call(p, at, c, s) \in CallRecords
           /\ Call(p, at, c, s).path = p /\ Call(p, at, c, s).at = at
           /\ Call(p, at, c, s).content = c /\ Call(p, at, c, s).stage = s
BY DEF Typed, CallRecords, Call

(* Only what a step changes matters to the notes of jobs, the workers and
   the request. *)
LEMMA JobsKept ==
    ASSUME Basics, \A p \in Paths : JobsOf(p)' \subseteq JobsOf(p),
           \A p \in Paths : note[p] # None => note'[p] # None
    PROVE  JobsHaveNotes'
BY DEF Basics, JobsHaveNotes

(* Workers rest on the loop they are in and on their job. *)
LEMMA WorkKept ==
    ASSUME Basics, UNCHANGED work, running \subseteq running',
           DOMAIN jobs \subseteq DOMAIN jobs'
    PROVE  WorkFits'
BY DEF Basics, WorkFits

(* What is read of the jobs alone. *)
LEMMA JobsAreKept ==
    ASSUME UNCHANGED jobs
    PROVE  /\ \A p : JobsOf(p)' = JobsOf(p) /\ Latest(p)' = Latest(p) /\ Due(p)' = Due(p)
           /\ \A p : Idle(p)' <=> Idle(p)
           /\ \A p, k : OthersDue(p, k)' <=> OthersDue(p, k)
BY DEF JobsOf, Latest, Due, Idle, OthersDue, WithStatus

(* A new file is under its path when its call says so. *)
LEMMA UploadBasics ==
    ASSUME Basics, NEW p \in Paths, NEW c \in 1 .. uploads + 1, Upload(p, c)
    PROVE  Basics'
<1>1. Typed /\ uploads < MaxUploads /\ c \in Contents
  BY PipelineAssumption DEF Basics, Typed, Contents, Upload
<1>2. PICK new \in CallRecords : /\ new = Call(p, p, c, "writing")
                                /\ new.path = p /\ new.at = p
                                /\ new.content = c /\ new.stage = "writing"
  BY <1>1, NewCall DEF CallStages
<1>3. calls' = Displace(p, None) \cup {new}
  BY <1>2 DEF Upload
<1>4. file' = [file EXCEPT ![p] = Partial]
  BY DEF Upload
<1>5. UNCHANGED <<format, database, work, lifecycle, web, history>>
  BY DEF Upload
<1>6. Typed'
  <2>1. calls' \subseteq CallRecords
    BY <1>1, <1>2, <1>3, Displaced
  <2>2. file' \in [Paths -> Contents \cup {None, Partial}]
    BY <1>1, <1>4 DEF Typed
  <2>3. uploads' \in 0 .. MaxUploads /\ events' \in Nat
    BY <1>1, PipelineAssumption DEF Upload, Typed
  <2> QED
    BY <1>1, <1>5, <2>1, <2>2, <2>3 DEF Typed, database, todos, lifecycle
<1>7. CallsFit'
  <2>1. CallFits(new)'
    BY <1>1, <1>2, <1>4, NoneIsApart DEF CallFits, Typed
  <2>2. ASSUME NEW d \in Displace(p, None)
        PROVE  CallFits(d)'
    <3>1. PICK e \in calls : /\ d.path = e.path /\ d.stage = e.stage
                             /\ d.content = e.content
                             /\ d.at = IF e.at = p THEN None ELSE e.at
      BY <1>1, Displaced
    <3>2. CallFits(e)
      BY DEF Basics, CallsFit
    <3> QED
      BY <1>1, <1>4, <1>5, <3>1, <3>2, CallFields
         DEF CallFits, Typed, history, Delivers
  <2>3. \A d, e \in Displace(p, None) :
            d.stage = "copying" /\ e.stage = "copying" => d = e
    BY <1>1, Displaced DEF Basics, CallsFit
  <2> QED
    BY <1>2, <1>3, <2>1, <2>2, <2>3 DEF CallsFit
<1>8. WorkFits' /\ JobsHaveNotes' /\ WebFits'
  BY <1>5, JobsAreKept, JobsKept, WorkKept
     DEF Basics, WebFits, database, lifecycle
<1> QED
  BY <1>6, <1>7, <1>8 DEF Basics

(* A closed file is no longer written anywhere. *)
LEMMA CloseBasics ==
    ASSUME Basics, NEW c \in calls, Close(c)
    PROVE  Basics'
<1> DEFINE new == [c EXCEPT !.stage = "row", !.at = None]
<1>1. Typed /\ CallFits(c) /\ c.stage = "writing"
  BY DEF Basics, CallsFit, Close
<1>2. new \in CallRecords /\ new.path = c.path /\ new.at = None /\ new.stage = "row"
  BY <1>1, CallGetsOn DEF CallStages
<1> HIDE DEF new
<1>3. calls' = (calls \ {c}) \cup {new}
  BY DEF Close, new
<1>4. /\ file' = [p \in Paths |-> IF p = c.at THEN c.content ELSE file[p]]
      /\ lost \subseteq lost'
      /\ UNCHANGED <<format, database, work, lifecycle, web, ghosts, bounds>>
  BY DEF Close
<1>5. c.content \in Contents
  BY <1>1, CallFields, NoneIsApart DEF CallFits
<1>6. /\ file' \in [Paths -> Contents \cup {None, Partial}]
      /\ \A p \in Paths : file[p] # None => file'[p] # None
  BY <1>1, <1>4, <1>5, NoneIsApart DEF Typed
<1>7. Typed'
  BY <1>1, <1>2, <1>3, <1>4, <1>6 DEF Typed, database, todos, lifecycle, bounds
<1>8. CallsFit'
  <2>1. CallFits(new)'
    BY <1>2 DEF CallFits
  <2>2. ASSUME NEW d \in calls
        PROVE  CallFits(d)'
    BY <1>1, <1>4, <1>6, CallFields DEF Basics, CallsFit, CallFits, Delivers
  <2> QED
    BY <1>2, <1>3, <2>1, <2>2 DEF CallsFit, Basics
<1>9. WorkFits' /\ JobsHaveNotes' /\ WebFits'
  BY <1>4, JobsAreKept, JobsKept, WorkKept
     DEF Basics, WebFits, database, lifecycle
<1> QED
  BY <1>7, <1>8, <1>9 DEF Basics

(* The copy ends: no other call was copying. *)
LEMMA CopyFileBasics ==
    ASSUME Basics, NEW c \in calls, CopyFile(c)
    PROVE  Basics'
<1>1. Typed /\ CallFits(c) /\ c.stage = "copying"
  BY DEF Basics, CallsFit, CopyFile
<1>2. web \in Webs /\ web.op = "copy"
  BY <1>1 DEF CallFits, Delivers, Typed
<1>3. web'.op = "migrate" /\ web'.path = web.path /\ web'.dest = web.dest /\ web' \in Webs
  BY <1>2 DEF CopyFile, Serving, Webs
<1>4. calls' = calls \ {c}
  BY DEF CopyFile
<1>5. /\ file' = [p \in Paths |-> IF p = c.at THEN c.content ELSE file[p]]
      /\ UNCHANGED <<format, database, work, lifecycle, history, bounds>>
  BY DEF CopyFile
<1>6. c.content \in Contents
  BY <1>1, CallFields, NoneIsApart DEF CallFits
<1>7. /\ file' \in [Paths -> Contents \cup {None, Partial}]
      /\ \A p \in Paths : file[p] # None => file'[p] # None
  BY <1>1, <1>5, <1>6, NoneIsApart DEF Typed
<1>8. Typed'
  BY <1>1, <1>3, <1>4, <1>5, <1>7 DEF Typed, database, todos, lifecycle, bounds
<1>9. CallsFit'
  <2>1. \A d, e \in calls' : d.stage = "copying" /\ e.stage = "copying" => d = e
    BY <1>4 DEF Basics, CallsFit
  <2>2. ASSUME NEW d \in calls'
        PROVE  CallFits(d)'
    <3>1. d \in calls /\ d # c /\ CallFits(d) /\ d.stage # "copying"
      BY <1>1, <1>4 DEF Basics, CallsFit
    <3> QED
      BY <1>1, <1>2, <1>3, <1>5, <1>7, <3>1, CallFields DEF CallFits, Delivers, history
  <2> QED
    BY <2>1, <2>2 DEF CallsFit
<1>10. WorkFits' /\ JobsHaveNotes'
  BY <1>5, JobsAreKept, JobsKept, WorkKept DEF Basics, database, lifecycle
<1>11. WebFits'
  BY <1>2, <1>3, NoneIsApart DEF Basics, WebFits
<1> QED
  BY <1>8, <1>9, <1>10, <1>11 DEF Basics

(* The calls are the same, some at a later stage or gone. *)
LEMMA CallsGetOn ==
    ASSUME Basics, NEW c \in calls, NEW s \in CallStages, c.stage # "copying",
           s \in {"row", "job"} /\ c.at = None,
           calls' \subseteq calls \cup {[c EXCEPT !.stage = s]},
           UNCHANGED <<file, web>>, lost \subseteq lost'
    PROVE  calls' \subseteq CallRecords /\ CallsFit'
<1> DEFINE new == [c EXCEPT !.stage = s]
<1>1. Typed
  BY DEF Basics
<1>2. new \in CallRecords /\ new.path = c.path /\ new.at = None /\ new.stage = s
  BY <1>1, CallGetsOn
<1> HIDE DEF new
<1>3. calls' \subseteq calls \cup {new}
  BY DEF new
<1>4. CallFits(new)'
  BY <1>2 DEF CallFits
<1>5. ASSUME NEW d \in calls
      PROVE  CallFits(d)'
  BY DEF Basics, CallsFit, CallFits, Delivers
<1> QED
  BY <1>1, <1>2, <1>3, <1>4, <1>5 DEF CallsFit, Basics, Typed

(* The bound counts on. *)
LEMMA EventCounts ==
    ASSUME Typed, Event
    PROVE  uploads' \in 0 .. MaxUploads /\ events' \in Nat
BY DEF Event, Typed

(* A call that fails is gone, and a migration with its copy. *)
LEMMA FailCallBasics ==
    ASSUME Basics, NEW c \in calls, FailCall(c)
    PROVE  Basics'
<1>1. /\ Typed /\ calls' \subseteq calls /\ lost \subseteq lost'
      /\ web' = IF c.stage = "copying" THEN None ELSE web
      /\ UNCHANGED <<format, file, database, work, lifecycle, ghosts>>
  BY DEF Basics, FailCall
<1>2. ASSUME NEW d \in calls'
      PROVE  CallFits(d)'
  <2>1. CallFits(d) /\ d # c /\ d \in calls
    BY <1>1 DEF Basics, CallsFit, FailCall
  <2>2. CASE c.stage = "copying"
    <3>1. web.op = "copy" /\ d.stage # "copying"
      BY <2>1, <2>2 DEF Basics, CallsFit, CallFits, Delivers
    <3> QED
      BY <1>1, <2>1, <3>1 DEF CallFits, Delivers
  <2>3. CASE c.stage # "copying"
    BY <1>1, <2>1, <2>3 DEF CallFits, Delivers
  <2> QED
    BY <2>2, <2>3
<1>3. CallsFit' /\ calls' \subseteq CallRecords
  BY <1>1, <1>2 DEF Basics, CallsFit, Typed
<1>4. uploads' \in 0 .. MaxUploads /\ events' \in Nat
  BY <1>1, EventCounts DEF FailCall
<1>5. Typed'
  BY <1>1, <1>3, <1>4 DEF Typed, database, todos, lifecycle
<1>6. WorkFits' /\ JobsHaveNotes' /\ WebFits'
  BY <1>1, JobsAreKept, JobsKept, WorkKept DEF Basics, WebFits, database, lifecycle
<1> QED
  BY <1>3, <1>5, <1>6 DEF Basics

(* A row is there, or is written. *)
LEMMA EnsureRowBasics ==
    ASSUME Basics, NEW c \in calls, EnsureRow(c)
    PROVE  Basics'
<1>1. Typed /\ CallFits(c) /\ c.stage = "row" /\ c.at = None /\ c.path \in Paths
  BY CallFields DEF Basics, CallsFit, CallFits, EnsureRow
<1>2. calls' \subseteq CallRecords /\ CallsFit'
  BY <1>1, CallsGetOn DEF EnsureRow, history, CallStages
<1>3. /\ note' \in [Paths -> Contents \cup {None, Blank}]
      /\ \A p \in Paths : note[p] # None => note'[p] # None
  BY <1>1, NoneIsApart DEF EnsureRow, Typed
<1>4. UNCHANGED <<format, todos, file, jobs, index, vectors, work, lifecycle, web, bounds>>
  BY DEF EnsureRow
<1>5. Typed'
  BY <1>1, <1>2, <1>3, <1>4 DEF Typed, todos, lifecycle, bounds
<1>6. WorkFits' /\ JobsHaveNotes' /\ WebFits'
  BY <1>3, <1>4, JobsAreKept, JobsKept, WorkKept DEF Basics, WebFits, lifecycle
<1> QED
  BY <1>2, <1>5, <1>6 DEF Basics

(* A job is queued for a row there is. *)
LEMMA InsertJobBasics ==
    ASSUME Basics, NEW c \in calls, InsertJob(c)
    PROVE  Basics'
<1>1. Typed /\ CallFits(c) /\ c.stage = "job" /\ c.at = None /\ c.path \in Paths
  BY CallFields DEF Basics, CallsFit, CallFits, InsertJob
<1>2. UNCHANGED <<format, todos, file, note, index, vectors, work, lifecycle, web, bounds>>
  BY DEF InsertJob
<1>3. calls' \subseteq CallRecords /\ CallsFit'
  <2>1. calls' \subseteq calls /\ lost \subseteq lost'
    BY DEF InsertJob
  <2> QED
    BY <1>1, <1>2, <2>1, CallsGetOn DEF CallStages
<1>4. /\ jobs' \in Seq(Rows) /\ DOMAIN jobs \subseteq DOMAIN jobs' /\ JobsHaveNotes'
  <2>1. CASE note[c.path] = None
    BY <1>1, <1>2, <2>1, JobsAreKept, JobsKept DEF InsertJob, Typed
  <2>2. CASE note[c.path] # None
    <3>1. jobs' = Append(jobs, [path |-> c.path, status |-> "pending"])
      BY <2>2 DEF InsertJob
    <3> QED
      BY <1>1, <1>2, <2>2, <3>1, QueuedRow DEF Basics, JobsHaveNotes
  <2> QED
    BY <2>1, <2>2
<1>5. Typed'
  BY <1>1, <1>2, <1>3, <1>4 DEF Typed, todos, lifecycle, bounds
<1>6. WorkFits' /\ WebFits'
  BY <1>2, <1>4, WorkKept DEF Basics, WebFits, lifecycle
<1> QED
  BY <1>3, <1>4, <1>5, <1>6 DEF Basics

(* An enqueue of the web pages writes no file. *)
LEMMA EnqueueBasics ==
    ASSUME Basics, NEW p \in Paths, Enqueue(p)
    PROVE  Basics'
<1>1. Typed
  BY DEF Basics
<1>2. PICK new \in CallRecords : /\ new = Call(p, None, None, "row")
                                /\ new.path = p /\ new.at = None /\ new.stage = "row"
  BY <1>1, NewCall DEF CallStages
<1>3. calls' = calls \cup {new}
  BY <1>2 DEF Enqueue
<1>4. UNCHANGED <<format, file, database, work, lifecycle, web, history>>
  BY DEF Enqueue
<1>5. Typed'
  BY <1>1, <1>2, <1>3, <1>4, EventCounts
     DEF Enqueue, Typed, database, todos, lifecycle
<1>6. CallsFit'
  <2>1. CallFits(new)'
    BY <1>2 DEF CallFits
  <2>2. \A d \in calls : CallFits(d)'
    BY <1>4 DEF Basics, CallsFit, CallFits, Delivers, history
  <2> QED
    BY <1>2, <1>3, <2>1, <2>2 DEF CallsFit, Basics
<1>7. WorkFits' /\ JobsHaveNotes' /\ WebFits'
  BY <1>4, JobsAreKept, JobsKept, WorkKept DEF Basics, WebFits, database, lifecycle
<1> QED
  BY <1>5, <1>6, <1>7 DEF Basics

(* Calls whose file stays, or is removed: nothing to tell unless the request
   is one that moves or copies files. *)
LEMMA CallsStay ==
    ASSUME Basics, UNCHANGED calls, lost \subseteq lost',
           \A p \in Paths : file[p] # None => file'[p] # None,
           web' = web \/ web = None \/ web.op \notin {"move", "copy"}
    PROVE  CallsFit'
<1> SUFFICES ASSUME NEW c \in calls
             PROVE  CallFits(c)'
  BY DEF CallsFit, Basics
<1>1. CallFits(c)
  BY DEF Basics, CallsFit
<1>2. c.path \in Paths /\ c.at \in Paths \cup {None} /\ None \notin Paths
  BY CallFields, NoneIsApart DEF Basics
<1>3. c.at # None => file'[c.at] # None
  BY <1>1, <1>2 DEF CallFits
<1> QED
  BY <1>1, <1>2, <1>3 DEF CallFits, Delivers

(* A file is removed: what is being written there is nowhere. *)
LEMMA RemovedCalls ==
    ASSUME Basics, NEW p \in Paths, calls' = Displace(p, None), lost \subseteq lost',
           \A q \in Paths \ {p} : file[q] # None => file'[q] # None,
           web' = web \/ web = None \/ web.op \notin {"move", "copy"}
    PROVE  calls' \subseteq CallRecords /\ CallsFit'
<1>1. Typed
  BY DEF Basics
<1>2. calls' \subseteq CallRecords
  BY <1>1, Displaced
<1>3. \A d, e \in calls' : d.stage = "copying" /\ e.stage = "copying" => d = e
  BY <1>1, Displaced DEF Basics, CallsFit
<1>4. ASSUME NEW d \in calls'
      PROVE  CallFits(d)'
  <2>1. PICK c \in calls : /\ d.path = c.path /\ d.stage = c.stage
                           /\ d.content = c.content
                           /\ d.at = IF c.at = p THEN None ELSE c.at
    BY <1>1, Displaced
  <2>2. CallFits(c) /\ c.path \in Paths /\ c.at \in Paths \cup {None}
    BY <1>1, CallFields DEF Basics, CallsFit
  <2> QED
    BY <2>1, <2>2, NoneIsApart DEF CallFits, Delivers
<1> QED
  BY <1>2, <1>3, <1>4 DEF CallsFit

(* A statement that sets statuses. *)
LEMMA StatusBasics ==
    ASSUME Basics, NEW ids, NEW s \in JobStatuses \ {"deleted"}, jobs' = Update(ids, s),
           UNCHANGED <<format, todos, file, calls, note, index, vectors, work, web, history>>,
           running \subseteq running', running' \subseteq Slots, cancelled' \subseteq running',
           uploads' \in 0 .. MaxUploads, events' \in Nat
    PROVE  Basics'
<1>1. /\ jobs' \in Seq(Rows) /\ DOMAIN jobs' = DOMAIN jobs
      /\ \A p \in Paths : JobsOf(p)' = JobsOf(p)
  BY UpdateSets, UpdateKeeps DEF Basics
<1>2. Typed'
  BY <1>1 DEF Basics, Typed, todos
<1>3. CallsFit'
  BY CallsStay DEF history
<1>4. WorkFits' /\ JobsHaveNotes' /\ WebFits'
  BY <1>1, JobsKept, WorkKept DEF Basics, WebFits
<1> QED
  BY <1>2, <1>3, <1>4 DEF Basics

(* Skip, unskip, retry and the watchdog. *)
LEMMA StatusActionBasics ==
    ASSUME Basics,
           \/ \E p \in Paths : Skip(p) \/ Unskip(p)
           \/ RetryAllFailed
           \/ \E k \in DOMAIN jobs : ReclaimStuckJobs(k)
    PROVE  Basics'
<1>1. PICK s \in {"pending", "skipped"} : \E ids : jobs' = Update(ids, s)
  BY DEF Skip, Unskip, RetryAllFailed, ReclaimStuckJobs
<1>2. JobsOnly /\ (Event \/ UNCHANGED bounds)
  BY DEF Skip, Unskip, RetryAllFailed, ReclaimStuckJobs
<1>3. uploads' \in 0 .. MaxUploads /\ events' \in Nat
  BY <1>2, EventCounts DEF Basics, Typed, bounds
<1>4. s \in JobStatuses \ {"deleted"}
  BY DEF JobStatuses
<1>5. running \subseteq running' /\ running' \subseteq Slots /\ cancelled' \subseteq running'
  BY <1>2 DEF JobsOnly, lifecycle, Basics, Typed
<1>6. UNCHANGED <<format, todos, file, calls, note, index, vectors, work, web, history>>
  BY <1>2 DEF JobsOnly
<1> QED
  BY <1>1, <1>3, <1>4, <1>5, <1>6, StatusBasics

(* Another loop, for which nobody has worked yet. *)
LEMMA StartBasics ==
    ASSUME Basics, NEW i \in Slots, Start(i)
    PROVE  Basics'
<1>1. jobs' = Update(WithStatus("in_progress"), "pending")
  BY DEF Start
<1>2. UNCHANGED <<format, todos, file, calls, note, index, vectors, work, web, history>>
  BY DEF Start, StartStop
<1>3. running \subseteq running' /\ running' \subseteq Slots /\ cancelled' \subseteq running'
  BY DEF Start, Basics, Typed
<1>4. uploads' \in 0 .. MaxUploads /\ events' \in Nat
  BY EventCounts DEF Start, Basics
<1>5. "pending" \in JobStatuses \ {"deleted"}
  BY DEF JobStatuses
<1> QED
  BY <1>1, <1>2, <1>3, <1>4, <1>5, StatusBasics

(* Contexts are cancelled. *)
LEMMA StopBasics ==
    ASSUME Basics, StartReturns \/ Stop
    PROVE  Basics'
<1>1. UNCHANGED <<format, todos, file, calls, note, jobs, index, vectors, work, web,
                  history, running>>
  BY DEF StartReturns, Stop, StartStop
<1>2. cancelled' \subseteq running' /\ uploads' \in 0 .. MaxUploads /\ events' \in Nat
  BY <1>1, EventCounts DEF StartReturns, Stop, Basics, Typed, bounds
<1>3. Typed'
  BY <1>1, <1>2 DEF Basics, Typed, todos
<1>4. CallsFit'
  BY <1>1, CallsStay DEF history
<1>5. WorkFits' /\ JobsHaveNotes' /\ WebFits'
  BY <1>1, JobsKept, JobsAreKept, WorkKept DEF Basics, WebFits
<1> QED
  BY <1>3, <1>4, <1>5 DEF Basics

(* The loop that main starts. *)
LEMMA MainIsASlot == Main \in Slots
BY PipelineAssumption DEF Main

(* A new process has no calls, no request and no worker at a job. *)
LEMMA BootBasics ==
    ASSUME Basics, Boot, uploads' \in 0 .. MaxUploads, events' \in Nat
    PROVE  Basics'
<1>1. /\ jobs' \in Seq(Rows) /\ DOMAIN jobs' = DOMAIN jobs
      /\ \A p \in Paths : JobsOf(p)' = JobsOf(p)
  BY UpdateSets, UpdateKeeps DEF Basics, Boot, JobStatuses
<1>2. /\ calls' = {} /\ web' = None /\ running' = {Main} /\ cancelled' = {}
      /\ work' \in [Slots -> Works \cup {None}]
      /\ \A i \in Slots : work'[i] = None
      /\ UNCHANGED <<format, todos, file, note, index, vectors>>
  BY DEF Boot
<1>3. Typed'
  BY <1>1, <1>2, MainIsASlot DEF Basics, Typed, todos
<1>4. CallsFit' /\ WorkFits' /\ WebFits'
  BY <1>2 DEF CallsFit, WorkFits, WebFits
<1>5. JobsHaveNotes'
  BY <1>1, <1>2, JobsKept
<1> QED
  BY <1>3, <1>4, <1>5 DEF Basics

(* A loop ends with what its worker was at. *)
LEMMA QuitBasics ==
    ASSUME Basics, NEW i \in Slots, Quit(i)
    PROVE  Basics'
<1>1. uploads' \in 0 .. MaxUploads /\ events' \in Nat
  BY DEF Quit, bounds, Basics, Typed
<1>2. CASE closed
  BY <1>1, <1>2, BootBasics DEF Quit
<1>3. CASE ~closed
  <2>1. /\ running' = running \ {i} /\ cancelled' = cancelled \ {i}
        /\ work' = [work EXCEPT ![i] = None]
        /\ UNCHANGED <<jobs, format, todos, file, calls, note, index, vectors, web, history>>
    BY <1>3 DEF Quit, StartStop
  <2>2. /\ work' \in [Slots -> Works \cup {None}] /\ work'[i] = None
        /\ \A j \in Slots \ {i} : work'[j] = work[j]
    BY <2>1 DEF Basics, Typed
  <2>3. Typed'
    BY <1>1, <2>1, <2>2 DEF Basics, Typed, todos
  <2>4. CallsFit'
    BY <2>1, CallsStay DEF history
  <2>5. WorkFits'
    BY <2>1, <2>2 DEF Basics, WorkFits
  <2>6. JobsHaveNotes' /\ WebFits'
    BY <2>1, JobsKept, JobsAreKept DEF Basics, WebFits
  <2> QED
    BY <2>3, <2>4, <2>5, <2>6 DEF Basics
<1> QED
  BY <1>2, <1>3

(* A restart is a boot. *)
LEMMA RestartBasics ==
    ASSUME Basics, Restart
    PROVE  Basics'
BY BootBasics, EventCounts DEF Restart, Basics
-----------------------------------------------------------------------------
(* The worker. *)

(* What the steps of a worker at its job have in common. *)
LEMMA WorkerBasics ==
    ASSUME Basics, NEW i \in Slots, work[i] # None,
           work' \in [Slots -> Works \cup {None}], work'[i].job = work[i].job,
           \A j \in Slots \ {i} : work'[j] = work[j],
           work'[i].stage \notin {"open", "failed"} => work'[i].hash # None,
           work'[i].stage \in {"clear", "pages", "rest", "todos", "create"} =>
               work'[i].hash \in Contents,
           work'[i].stage \in {"rest", "todos", "create"} => work'[i].body \in Contents,
           UNCHANGED <<format, file, calls, jobs, lifecycle, web>>, lost \subseteq lost',
           note' \in [Paths -> Contents \cup {None, Blank}],
           \A p \in Paths : note[p] # None => note'[p] # None,
           index' \in [Paths -> Contents \cup {None, Partial}], vectors' \subseteq Paths,
           tasks' \in [Contents -> Nat], uploads' \in 0 .. MaxUploads, events' \in Nat
    PROVE  Basics'
<1>1. Typed'
  BY DEF Basics, Typed, lifecycle
<1>2. CallsFit'
  BY CallsStay
<1>3. WorkFits'
  <2> SUFFICES ASSUME NEW j \in Slots, work'[j] # None
               PROVE  /\ j \in running' /\ work'[j].job \in DOMAIN jobs'
                      /\ work'[j].stage \notin {"open", "failed"} => work'[j].hash # None
                      /\ work'[j].stage \in {"clear", "pages", "rest", "todos", "create"} =>
                            work'[j].hash \in Contents
                      /\ work'[j].stage \in {"rest", "todos", "create"} =>
                            work'[j].body \in Contents
    BY DEF WorkFits
  <2>1. CASE j = i
    BY <2>1 DEF Basics, WorkFits, lifecycle
  <2>2. CASE j # i
    BY <2>2 DEF Basics, WorkFits, lifecycle
  <2> QED
    BY <2>1, <2>2
<1>4. JobsHaveNotes' /\ WebFits'
  BY JobsKept, JobsAreKept DEF Basics, WebFits
<1> QED
  BY <1>1, <1>2, <1>3, <1>4 DEF Basics

(* What is opened has a hash. *)
LEMMA OpenBasics ==
    ASSUME Basics, NEW i \in Slots, Open(i)
    PROVE  Basics'
<1>1. Typed /\ work[i] # None
  BY DEF Basics, Open, Active
<1>2. UNCHANGED <<format, file, calls, database, lifecycle, web, history, bounds>>
  BY DEF Open
<1>3. CASE file[work[i].path] = None
  <2>1. Goto(i, "failed")
    BY <1>3 DEF Open
  <2> QED
    BY <1>1, <1>2, <2>1, GotoSets, WorkerBasics
       DEF Stages, database, todos, history, bounds, Typed
<1>4. CASE file[work[i].path] # None
  BY <1>1, <1>2, <1>4, OpenSets, WorkerBasics
     DEF database, todos, history, bounds, Typed
<1> QED
  BY <1>3, <1>4

(* A worker goes on with what it has read. *)
LEMMA DedupBasics ==
    ASSUME Basics, NEW i \in Slots, Dedup(i)
    PROVE  Basics'
<1>1. Typed /\ work[i] # None /\ work[i].stage = "dedup"
  BY DEF Basics, Dedup, Active
<1>2. UNCHANGED <<format, file, calls, note, jobs, index, vectors, tasks, raced,
                  lifecycle, web, ghosts, bounds>>
  BY DEF Dedup
<1>3. PICK s \in {"done", "parse"} : Goto(i, s)
  BY DEF Dedup
<1>4. lost \subseteq lost'
  BY DEF Dedup
<1>5. work[i].hash # None
  BY <1>1 DEF Basics, WorkFits
<1> QED
  BY <1>1, <1>2, <1>3, <1>4, <1>5, GotoSets, WorkerBasics DEF Stages, bounds, Typed

(* What is parsed is a whole file. *)
LEMMA ParseBasics ==
    ASSUME Basics, NEW i \in Slots, Parse(i)
    PROVE  Basics'
<1>1. Typed /\ work[i] # None /\ work[i].stage = "parse" /\ work[i].hash # None
  BY DEF Basics, Parse, Active, WorkFits
<1>2. UNCHANGED <<format, todos, file, calls, jobs, index, vectors, lifecycle, web,
                  lost, bounds>>
  BY DEF Parse
<1>3. CASE Partial \in {work[i].hash, Source(i)} \/ Source(i) = None
  <2>1. Goto(i, "failed") /\ UNCHANGED note
    BY <1>3 DEF Parse
  <2> QED
    BY <1>1, <1>2, <2>1, GotoSets, WorkerBasics DEF Stages, bounds, todos, Typed
<1>4. CASE ~(Partial \in {work[i].hash, Source(i)} \/ Source(i) = None)
  <2>1. Goto(i, "clear") /\ note' = [note EXCEPT ![work[i].path] = work[i].hash]
    BY <1>4 DEF Parse
  <2>2. work[i].hash \in Contents
    BY <1>1, <1>4, WorkFields
  <2>3. /\ note' \in [Paths -> Contents \cup {None, Blank}]
        /\ \A p \in Paths : note[p] # None => note'[p] # None
    BY <1>1, <2>1, <2>2 DEF Typed
  <2> QED
    <3>1. /\ work' \in [Slots -> Works \cup {None}]
          /\ work'[i].job = work[i].job /\ work'[i].stage = "clear"
          /\ work'[i].hash = work[i].hash
          /\ \A j \in Slots \ {i} : work'[j] = work[j]
      BY <1>1, <2>1, GotoSets DEF Stages
    <3> QED
      BY <1>1, <1>2, <2>2, <2>3, <3>1, WorkerBasics DEF bounds, todos, Typed
<1> QED
  BY <1>3, <1>4

(* The pages of the last job go. *)
LEMMA ClearIndexBasics ==
    ASSUME Basics, NEW i \in Slots, ClearIndex(i)
    PROVE  Basics'
<1>1. Typed /\ work[i] # None /\ work[i].stage = "clear" /\ work[i].hash \in Contents
  BY DEF Basics, ClearIndex, Active, WorkFits
<1>2. /\ UNCHANGED <<format, todos, file, calls, note, jobs, vectors, lifecycle, web,
                     ghosts>>
      /\ lost \subseteq lost'
  BY DEF ClearIndex
<1>3. Goto(i, "pages") /\ index' \in [Paths -> Contents \cup {None, Partial}]
  BY <1>1 DEF ClearIndex, Typed
<1>4. uploads' \in 0 .. MaxUploads /\ events' \in Nat
  BY <1>1, EventCounts DEF ClearIndex, Typed, bounds
<1> QED
  BY <1>1, <1>2, <1>3, <1>4, NoneIsApart, GotoSets, WorkerBasics
     DEF Stages, todos, history, Typed

(* The first pages are of a whole file. *)
LEMMA IndexPagesBasics ==
    ASSUME Basics, NEW i \in Slots, IndexPages(i)
    PROVE  Basics'
<1>1. Typed /\ work[i] # None /\ work[i].stage = "pages" /\ work[i].hash \in Contents
  BY DEF Basics, IndexPages, Active, WorkFits
<1>2. UNCHANGED <<format, todos, file, calls, note, jobs, lifecycle, web, lost, bounds>>
  BY DEF IndexPages
<1>3. CASE Source(i) \in {None, Partial}
  <2>1. Goto(i, "failed") /\ UNCHANGED <<index, vectors>>
    BY <1>3 DEF IndexPages
  <2> QED
    BY <1>1, <1>2, <2>1, GotoSets, WorkerBasics DEF Stages, bounds, todos, Typed
<1>4. CASE Source(i) \notin {None, Partial}
  <2>1. /\ index' \in [Paths -> Contents \cup {None, Partial}] /\ vectors' \subseteq Paths
        /\ Source(i) \in Contents
    BY <1>1, <1>4, WorkFields, SourceIs DEF IndexPages, Typed
  <2> QED
    BY <1>1, <1>2, <1>4, <2>1, NoneIsApart, PagesSet, WorkerBasics DEF bounds, todos, Typed
<1> QED
  BY <1>3, <1>4

(* And so are the others. *)
LEMMA IndexRestBasics ==
    ASSUME Basics, NEW i \in Slots, IndexRest(i)
    PROVE  Basics'
<1>1. /\ Typed /\ work[i] # None /\ work[i].stage = "rest"
      /\ work[i].hash \in Contents /\ work[i].body \in Contents
  BY DEF Basics, IndexRest, Active, WorkFits
<1>2. UNCHANGED <<format, todos, file, calls, note, jobs, lifecycle, web, lost, bounds>>
  BY DEF IndexRest
<1>3. PICK s \in {"failed", "todos"} : Goto(i, s)
  BY DEF IndexRest
<1>4. index' \in [Paths -> Contents \cup {None, Partial}] /\ vectors' \subseteq Paths
  BY <1>1, WorkFields, SourceIs DEF IndexRest, Typed
<1> QED
  BY <1>1, <1>2, <1>3, <1>4, NoneIsApart, GotoSets, WorkerBasics
     DEF Stages, bounds, todos, Typed

(* The stages around the tasks. *)
LEMMA TodoBasics ==
    ASSUME Basics, NEW i \in Slots, FindTodos(i) \/ CreateTask(i) \/ FailTodos(i)
    PROVE  Basics'
<1>1. /\ Typed /\ work[i] # None /\ work[i].stage \in {"todos", "create"}
      /\ work[i].hash \in Contents /\ work[i].body \in Contents
  BY DEF Basics, FindTodos, CreateTask, FailTodos, Active, WorkFits
<1>2. UNCHANGED <<format, file, calls, note, jobs, index, vectors, lifecycle, web, history>>
  BY DEF FindTodos, CreateTask, FailTodos
<1>3. PICK s \in {"create", "done"} : Goto(i, s)
  BY DEF FindTodos, CreateTask, FailTodos
<1>4. tasks' \in [Contents -> Nat]
  BY <1>1 DEF FindTodos, CreateTask, FailTodos, Typed
<1>5. uploads' \in 0 .. MaxUploads /\ events' \in Nat
  BY <1>1, EventCounts DEF FindTodos, CreateTask, FailTodos, bounds, Typed
<1> QED
  BY <1>1, <1>2, <1>3, <1>4, <1>5, NoneIsApart, GotoSets, WorkerBasics
     DEF Stages, history, Typed

(* A job that fails needs nothing it had read. *)
LEMMA FailPageBasics ==
    ASSUME Basics, NEW i \in Slots, FailPage(i)
    PROVE  Basics'
<1>1. Typed /\ work[i] # None /\ Goto(i, "failed")
  BY DEF Basics, FailPage, Active
<1>2. UNCHANGED <<format, file, calls, database, lifecycle, web, history>>
  BY DEF FailPage
<1>3. uploads' \in 0 .. MaxUploads /\ events' \in Nat
  BY <1>1, EventCounts DEF FailPage
<1> QED
  BY <1>1, <1>2, <1>3, GotoSets, WorkerBasics DEF Stages, database, todos, history, Typed

(* A job whose end cannot be written loses its worker. *)
LEMMA FailFinishBasics ==
    ASSUME Basics, NEW i \in Slots, FailFinish(i)
    PROVE  Basics'
<1>1. /\ work' \in [Slots -> Works \cup {None}] /\ work'[i] = None
      /\ \A j \in Slots \ {i} : work'[j] = work[j]
  BY DEF FailFinish, Basics, Typed
<1>2. UNCHANGED <<format, file, calls, database, lifecycle, web, history>>
  BY DEF FailFinish
<1>3. uploads' \in 0 .. MaxUploads /\ events' \in Nat
  BY EventCounts DEF FailFinish, Basics
<1>4. Typed'
  BY <1>1, <1>2, <1>3 DEF Basics, Typed, database, todos, lifecycle
<1>5. CallsFit'
  BY <1>2, CallsStay DEF history
<1>6. WorkFits'
  BY <1>1, <1>2 DEF Basics, WorkFits, database, lifecycle
<1>7. JobsHaveNotes' /\ WebFits'
  BY <1>2, JobsAreKept, JobsKept DEF Basics, WebFits, database
<1> QED
  BY <1>4, <1>5, <1>6, <1>7 DEF Basics

(* A claimed job is one there is. *)
LEMMA ClaimBasics ==
    ASSUME Basics, NEW i \in Slots, NEW k \in DOMAIN jobs, ClaimNextJob(i, k)
    PROVE  Basics'
<1>1. /\ jobs' \in Seq(Rows) /\ DOMAIN jobs' = DOMAIN jobs
      /\ \A p \in Paths : JobsOf(p)' = JobsOf(p)
  BY UpdateSets, UpdateKeeps DEF Basics, ClaimNextJob, JobStatuses
<1>2. /\ work' \in [Slots -> Works \cup {None}]
      /\ work'[i].job = k /\ work'[i].stage = "open"
      /\ \A j \in Slots \ {i} : work'[j] = work[j]
  BY ClaimSets DEF Basics
<1>3. /\ UNCHANGED <<format, todos, file, calls, note, index, vectors, lifecycle, web,
                     ghosts, bounds>>
      /\ lost \subseteq lost' /\ i \in running
  BY DEF ClaimNextJob
<1>4. Typed'
  BY <1>1, <1>2, <1>3 DEF Basics, Typed, todos, lifecycle, bounds
<1>5. CallsFit'
  BY <1>3, CallsStay
<1>6. WorkFits'
  BY <1>1, <1>2, <1>3 DEF Basics, WorkFits, lifecycle
<1>7. JobsHaveNotes' /\ WebFits'
  BY <1>1, <1>3, JobsKept DEF Basics, WebFits
<1> QED
  BY <1>4, <1>5, <1>6, <1>7 DEF Basics

(* A worker leaves its job. *)
LEMMA FinishBasics ==
    ASSUME Basics, NEW i \in Slots, NEW s \in {"done", "failed"}, Finish(i, s)
    PROVE  Basics'
<1>1. /\ jobs' \in Seq(Rows) /\ DOMAIN jobs' = DOMAIN jobs
      /\ \A p \in Paths : JobsOf(p)' = JobsOf(p)
  <2>1. s \in JobStatuses /\ s \in JobStatuses \ {"deleted"}
    BY DEF JobStatuses
  <2>2. jobs' = Update({work[i].job}, s)
    BY DEF Finish
  <2> QED
    BY <2>1, <2>2, UpdateSets, UpdateKeeps DEF Basics
<1>2. /\ work' \in [Slots -> Works \cup {None}] /\ work'[i] = None
      /\ \A j \in Slots \ {i} : work'[j] = work[j]
  BY DEF Finish, Basics, Typed
<1>3. /\ UNCHANGED <<format, todos, file, calls, note, index, vectors, lifecycle, web,
                     ghosts, bounds>>
      /\ lost \subseteq lost'
  BY DEF Finish
<1>4. Typed'
  BY <1>1, <1>2, <1>3 DEF Basics, Typed, todos, lifecycle, bounds
<1>5. CallsFit'
  BY <1>3, CallsStay
<1>6. WorkFits'
  BY <1>1, <1>2, <1>3 DEF Basics, WorkFits, lifecycle
<1>7. JobsHaveNotes' /\ WebFits'
  BY <1>1, <1>3, JobsKept DEF Basics, WebFits
<1> QED
  BY <1>4, <1>5, <1>6, <1>7 DEF Basics

-----------------------------------------------------------------------------
(* The web pages. *)

Ops == {"vectors", "file", "purge", "move", "rename", "copy", "migrate", "import"}

(* A request goes on. *)
LEMMA ServingSets ==
    ASSUME NEW op \in Ops, NEW p \in Paths, NEW q \in Paths, Serving(op, p, q)
    PROVE  web' \in Webs /\ web' # None /\ web'.op = op /\ web'.path = p /\ web'.dest = q
<1>1. web' \in Webs /\ web'.op = op /\ web'.path = p /\ web'.dest = q
  BY DEF Serving, Webs, Ops
<1> QED
  BY <1>1, NoneIsApart

(* What a request is about. *)
LEMMA WebFields ==
    ASSUME Basics, web # None
    PROVE  /\ web \in Webs /\ web.op \in Ops /\ web.path \in Paths /\ web.dest \in Paths
           /\ web.op \in {"move", "rename", "copy", "migrate"} => web.path # web.dest
BY DEF Basics, Typed, Webs, Ops, WebFits

(* Nothing but files, calls, embeddings and notes changes. *)
LEMMA WebBasics ==
    ASSUME Basics, UNCHANGED <<format, tasks, jobs, index, work, running, cancelled>>,
           file' \in [Paths -> Contents \cup {None, Partial}], calls' \subseteq CallRecords,
           CallsFit', note' \in [Paths -> Contents \cup {None, Blank}],
           \A p \in Paths : note[p] # None => note'[p] # None,
           vectors' \subseteq Paths, web' \in Webs \cup {None}, WebFits',
           uploads' \in 0 .. MaxUploads, events' \in Nat
    PROVE  Basics'
<1>1. Typed'
  BY DEF Basics, Typed
<1>2. WorkFits' /\ JobsHaveNotes'
  BY JobsKept, JobsAreKept, WorkKept DEF Basics
<1> QED
  BY <1>1, <1>2 DEF Basics

(* Or rows go, or move. *)
LEMMA RowsBasics ==
    ASSUME Basics, UNCHANGED <<format, tasks, work, running, cancelled>>,
           file' \in [Paths -> Contents \cup {None, Partial}], calls' \subseteq CallRecords,
           CallsFit', note' \in [Paths -> Contents \cup {None, Blank}],
           index' \in [Paths -> Contents \cup {None, Partial}], vectors' \subseteq Paths,
           jobs' \in Seq(Rows), DOMAIN jobs' = DOMAIN jobs, JobsHaveNotes',
           web' \in Webs \cup {None}, WebFits',
           uploads' \in 0 .. MaxUploads, events' \in Nat
    PROVE  Basics'
<1>1. Typed'
  BY DEF Basics, Typed
<1>2. WorkFits'
  BY WorkKept DEF Basics
<1> QED
  BY <1>1, <1>2 DEF Basics

(* The note goes with its jobs. *)
LEMMA DeletedTyped ==
    ASSUME Basics, NEW p \in Paths, DeleteRows(p)
    PROVE  /\ jobs' \in Seq(Rows) /\ DOMAIN jobs' = DOMAIN jobs /\ JobsHaveNotes'
           /\ note' \in [Paths -> Contents \cup {None, Blank}]
           /\ index' \in [Paths -> Contents \cup {None, Partial}]
           /\ note'[p] = None /\ index'[p] = None
           /\ \A q \in Paths \ {p} : note'[q] = note[q] /\ index'[q] = index[q]
<1>1. /\ note' \in [Paths -> Contents \cup {None, Blank}]
      /\ index' \in [Paths -> Contents \cup {None, Partial}]
      /\ note'[p] = None /\ index'[p] = None
      /\ \A q \in Paths \ {p} : note'[q] = note[q] /\ index'[q] = index[q]
  BY DEF DeleteRows, Basics, Typed
<1>2. JobsHaveNotes'
  BY <1>1, DeletedRows DEF Basics, JobsHaveNotes
<1> QED
  BY <1>1, <1>2, DeletedRows DEF Basics

(* The note comes with its jobs. *)
LEMMA MovedTyped ==
    ASSUME Basics, NEW p \in Paths, NEW q \in Paths, p # q, MoveRows(p, q)
    PROVE  /\ jobs' \in Seq(Rows) /\ DOMAIN jobs' = DOMAIN jobs /\ JobsHaveNotes'
           /\ note' \in [Paths -> Contents \cup {None, Blank}]
           /\ index' \in [Paths -> Contents \cup {None, Partial}]
           /\ note'[p] = None /\ index'[p] = None
           /\ note'[q] = IF note[p] = None THEN note[q] ELSE note[p]
           /\ index'[q] = IF index[p] = None THEN index[q] ELSE index[p]
           /\ \A r \in Paths \ {p, q} : note'[r] = note[r] /\ index'[r] = index[r]
<1>1. /\ note' \in [Paths -> Contents \cup {None, Blank}]
      /\ note'[p] = None
      /\ note'[q] = IF note[p] = None THEN note[q] ELSE note[p]
      /\ \A r \in Paths \ {p, q} : note'[r] = note[r]
  BY DEF MoveRows, Basics, Typed
<1>2. /\ index' \in [Paths -> Contents \cup {None, Partial}]
      /\ index'[p] = None
      /\ index'[q] = IF index[p] = None THEN index[q] ELSE index[p]
      /\ \A r \in Paths \ {p, q} : index'[r] = index[r]
  BY DEF MoveRows, Basics, Typed
<1>3. JobsHaveNotes'
  <2> SUFFICES ASSUME NEW r \in Paths, JobsOf(r)' # {}
               PROVE  note'[r] # None
    BY DEF JobsHaveNotes
  <2>1. \A s \in Paths : JobsOf(s) # {} => note[s] # None
    BY DEF Basics, JobsHaveNotes
  <2>2. r # p
    BY MovedRows DEF Basics
  <2>3. CASE r = q
    BY <1>1, <2>1, <2>3, MovedRows DEF Basics
  <2>4. CASE r # q
    BY <1>1, <2>1, <2>2, <2>4, MovedRows DEF Basics
  <2> QED
    BY <2>3, <2>4
<1> QED
  BY <1>1, <1>2, <1>3, MovedRows DEF Basics

(* One file is removed. *)
LEMMA RemovedTyped ==
    ASSUME Basics, NEW p \in Paths, Removed(p)
    PROVE  /\ file' \in [Paths -> Contents \cup {None, Partial}]
           /\ file'[p] = None /\ \A q \in Paths \ {p} : file'[q] = file[q]
           /\ calls' = Displace(p, None)
BY DEF Removed, Basics, Typed

(* The rows of a note go, and the request goes on to its embeddings. *)
LEMMA DeleteNoteBasics ==
    ASSUME Basics, NEW p \in Paths, DeleteNote(p)
    PROVE  Basics'
<1>1. /\ DeleteRows(p) /\ web = None
      /\ UNCHANGED <<format, todos, file, calls, vectors, work, lifecycle, history>>
  BY DEF DeleteNote
<1>2. web' \in Webs /\ web'.op = "vectors"
  BY ServingSets DEF DeleteNote, Ops
<1>3. CallsFit' /\ WebFits'
  BY <1>1, <1>2, CallsStay DEF WebFits, history
<1>4. uploads' \in 0 .. MaxUploads /\ events' \in Nat
  BY EventCounts DEF DeleteNote, Basics
<1> QED
  BY <1>1, <1>2, <1>3, <1>4, DeletedTyped, RowsBasics DEF Basics, Typed, todos, lifecycle

(* The embeddings of a note go, or stay. *)
LEMMA DeleteVectorsBasics ==
    ASSUME Basics, DeleteVectors
    PROVE  Basics'
<1>1. /\ web # None /\ web.op = "vectors" /\ vectors' \subseteq vectors
      /\ UNCHANGED <<format, todos, file, calls, note, jobs, index, work, lifecycle,
                     lost>>
  BY DEF DeleteVectors, Handles
<1>2. web' \in Webs /\ web'.op = "file"
  BY <1>1, WebFields, ServingSets DEF DeleteVectors, Ops
<1>3. CallsFit' /\ WebFits'
  BY <1>1, <1>2, CallsStay DEF WebFits
<1>4. uploads' \in 0 .. MaxUploads /\ events' \in Nat
  BY EventCounts DEF DeleteVectors, Basics, Typed, bounds
<1> QED
  BY <1>1, <1>2, <1>3, <1>4, WebBasics DEF Basics, Typed, todos, lifecycle

(* And then its file. *)
LEMMA DeleteFileBasics ==
    ASSUME Basics, DeleteFile
    PROVE  Basics'
<1>1. /\ web # None /\ web.op = "file" /\ web' = None /\ web.path \in Paths
      /\ UNCHANGED <<format, database, work, lifecycle>> /\ lost \subseteq lost'
  BY WebFields DEF DeleteFile, Handles
<1>2. uploads' \in 0 .. MaxUploads /\ events' \in Nat
  BY EventCounts DEF DeleteFile, Basics, Typed, bounds
<1>3. WebFits'
  BY <1>1 DEF WebFits
<1>4. CASE Removed(web.path)
  <2>1. calls' \subseteq CallRecords /\ CallsFit'
    BY <1>1, <1>4, RemovedTyped, RemovedCalls
  <2> QED
    BY <1>1, <1>2, <1>3, <1>4, <2>1, RemovedTyped, WebBasics
       DEF Basics, Typed, database, todos, lifecycle
<1>5. CASE UNCHANGED <<file, calls>>
  BY <1>1, <1>2, <1>3, <1>5, CallsStay, WebBasics
     DEF Basics, Typed, database, todos, lifecycle
<1> QED
  BY <1>4, <1>5 DEF DeleteFile

(* The file goes first, if it can be removed. *)
LEMMA PurgeBasics ==
    ASSUME Basics, NEW p \in Paths, Purge(p)
    PROVE  Basics'
<1>1. web = None /\ UNCHANGED <<format, database, work, lifecycle, history>>
  BY DEF Purge
<1>2. web' \in Webs /\ web'.op = "purge"
  BY ServingSets DEF Purge, Ops
<1>3. uploads' \in 0 .. MaxUploads /\ events' \in Nat
  BY EventCounts DEF Purge, Basics
<1>4. WebFits'
  BY <1>2 DEF WebFits
<1>5. CASE Removed(p)
  <2>1. calls' \subseteq CallRecords /\ CallsFit'
    BY <1>1, <1>5, RemovedTyped, RemovedCalls DEF history
  <2> QED
    BY <1>1, <1>2, <1>3, <1>4, <1>5, <2>1, RemovedTyped, WebBasics
       DEF Basics, Typed, database, todos, lifecycle
<1>6. CASE UNCHANGED <<file, calls>>
  <2>1. CallsFit'
    BY <1>1, <1>6, CallsStay DEF history
  <2> QED
    BY <1>1, <1>2, <1>3, <1>4, <1>6, <2>1, WebBasics
       DEF Basics, Typed, database, todos, lifecycle
<1> QED
  BY <1>5, <1>6 DEF Purge

(* Then the rows, if they can be deleted. *)
LEMMA PurgeRowsBasics ==
    ASSUME Basics, PurgeRows
    PROVE  Basics'
<1>1. /\ web # None /\ web.op = "purge" /\ web.path \in Paths /\ web' = None
      /\ UNCHANGED <<format, todos, file, calls, vectors, work, lifecycle>>
      /\ lost \subseteq lost'
  BY WebFields DEF PurgeRows, Handles
<1>2. CallsFit' /\ WebFits'
  BY <1>1, CallsStay DEF WebFits
<1>3. uploads' \in 0 .. MaxUploads /\ events' \in Nat
  BY EventCounts DEF PurgeRows, Basics, Typed, bounds
<1>4. CASE DeleteRows(web.path)
  BY <1>1, <1>2, <1>3, <1>4, DeletedTyped, RowsBasics DEF Basics, Typed, todos, lifecycle
<1>5. CASE UNCHANGED <<note, jobs, index>>
  BY <1>1, <1>2, <1>3, <1>5, WebBasics DEF Basics, Typed, todos, lifecycle
<1> QED
  BY <1>4, <1>5 DEF PurgeRows

(* The file moves, and what is being written with it. *)
LEMMA MoveBasics ==
    ASSUME Basics, NEW p \in Paths, NEW q \in Paths, Move(p, q)
    PROVE  Basics'
<1>1. /\ web = None /\ p # q /\ file[p] # None
      /\ UNCHANGED <<format, database, work, lifecycle, history>>
      /\ calls' = Displace(p, q)
  BY DEF Move
<1>2. web' \in Webs /\ web' # None /\ web'.op = "move" /\ web'.path = p /\ web'.dest = q
  BY ServingSets DEF Move, Ops
<1>3. /\ file' \in [Paths -> Contents \cup {None, Partial}]
      /\ file'[q] = file[p] /\ \A r \in Paths \ {p, q} : file'[r] = file[r]
  BY <1>1 DEF Move, Basics, Typed
<1>4. CallsFit'
  <2>1. ASSUME NEW d \in calls'
        PROVE  d.stage # "copying" /\ CallFits(d)'
    <3>1. PICK c \in calls : /\ d.path = c.path /\ d.stage = c.stage
                             /\ d.content = c.content
                             /\ d.at = IF c.at = p THEN q ELSE c.at
      BY <1>1, Displaced DEF Basics
    <3>2. CallFits(c) /\ c.path \in Paths /\ c.at \in Paths \cup {None}
      BY CallFields DEF Basics, CallsFit
    <3> QED
      BY <1>1, <1>2, <1>3, <3>1, <3>2, NoneIsApart DEF CallFits, Delivers, history
  <2> QED
    BY <2>1 DEF CallsFit
<1>5. calls' \subseteq CallRecords /\ WebFits'
  BY <1>1, <1>2, Displaced DEF Basics, WebFits
<1>6. uploads' \in 0 .. MaxUploads /\ events' \in Nat
  BY EventCounts DEF Move, Basics
<1> QED
  BY <1>1, <1>2, <1>3, <1>4, <1>5, <1>6, WebBasics
     DEF Basics, Typed, database, todos, lifecycle

(* The rows follow, unless others are in the way; nothing is copied
   meanwhile. *)
LEMMA MoveNoteBasics ==
    ASSUME Basics, MoveNote
    PROVE  Basics'
<1> DEFINE p == web.path
           q == web.dest
<1>1. /\ web # None /\ web.op = "move" /\ p \in Paths /\ q \in Paths /\ p # q
      /\ UNCHANGED <<format, todos, file, calls, vectors, work, lifecycle>>
  BY WebFields DEF MoveNote, Handles
<1>2. /\ lost \subseteq lost'
      /\ (\E c \in calls : c.path = p) => q \in lost'
  BY DEF MoveNote, Carried
<1>3. p \in lost => q \in lost'
  BY DEF MoveNote, Carried
<1>4. CallsFit'
  <2> SUFFICES ASSUME NEW c \in calls
               PROVE  CallFits(c)'
    BY <1>1 DEF CallsFit, Basics
  <2>1. CallFits(c)
    BY DEF Basics, CallsFit
  <2>2. c.stage # "copying"
    BY <1>1, <2>1 DEF CallFits, Delivers
  <2>3. c.at \notin {c.path, None} => c.at \in lost'
    BY <1>2, <1>3, <2>1 DEF CallFits, Delivers
  <2> QED
    BY <1>1, <2>1, <2>2, <2>3 DEF CallFits
<1>5. uploads' \in 0 .. MaxUploads /\ events' \in Nat
  BY EventCounts DEF MoveNote, Basics, Typed, bounds
<1>6. CASE web' = None /\ UNCHANGED <<note, jobs, index>>
  <2>1. WebFits'
    BY <1>6 DEF WebFits
  <2> QED
    BY <1>1, <1>4, <1>5, <1>6, <2>1, WebBasics DEF Basics, Typed, todos, lifecycle
<1>7. CASE MoveRows(p, q) /\ Serving("rename", p, q)
  <2>2. PICK r \in Paths, s \in Paths : r = p /\ s = q
    BY <1>1
  <2>3. MoveRows(r, s) /\ Serving("rename", r, s) /\ r # s
    BY <1>1, <1>7, <2>2
  <2>4. web' \in Webs /\ WebFits'
    BY <2>3, ServingSets DEF WebFits, Ops
  <2> QED
    BY <1>1, <1>4, <1>5, <2>3, <2>4, MovedTyped, RowsBasics
       DEF Basics, Typed, todos, lifecycle
<1> QED
  BY <1>6, <1>7 DEF MoveNote

(* The embeddings follow. *)
LEMMA RenameVectorsBasics ==
    ASSUME Basics, RenameVectors
    PROVE  Basics'
<1>1. /\ web # None /\ web.op = "rename" /\ web' = None /\ web.dest \in Paths
      /\ UNCHANGED <<format, todos, file, calls, note, jobs, index, work, lifecycle, lost>>
  BY WebFields DEF RenameVectors, Handles
<1>2. vectors' \subseteq Paths
  BY <1>1 DEF RenameVectors, Basics, Typed
<1>3. CallsFit' /\ WebFits'
  BY <1>1, CallsStay DEF WebFits
<1>4. uploads' \in 0 .. MaxUploads /\ events' \in Nat
  BY EventCounts DEF RenameVectors, Basics, Typed, bounds
<1> QED
  BY <1>1, <1>2, <1>3, <1>4, WebBasics DEF Basics, Typed, todos, lifecycle

(* A copy is begun where nothing is being written. *)
LEMMA MigrateBasics ==
    ASSUME Basics, NEW p \in Paths, NEW q \in Paths, Migrate(p, q)
    PROVE  Basics'
<1>1. /\ web = None /\ p # q /\ file[p] \in Contents
      /\ UNCHANGED <<format, database, work, lifecycle, history>>
  BY DEF Migrate, Basics, Typed
<1>2. web' \in Webs /\ web' # None /\ web'.op = "copy" /\ web'.path = p /\ web'.dest = q
  BY ServingSets DEF Migrate, Ops
<1>3. PICK new \in CallRecords : /\ new = Call(q, q, file[p], "copying")
                                /\ new.path = q /\ new.at = q
                                /\ new.content = file[p] /\ new.stage = "copying"
  BY <1>1, NewCall DEF CallStages, Basics
<1>4. calls' = calls \cup {new}
  BY <1>3 DEF Migrate
<1>5. /\ file' \in [Paths -> Contents \cup {None, Partial}]
      /\ file'[q] = Partial /\ \A r \in Paths \ {q} : file'[r] = file[r]
  BY DEF Migrate, Basics, Typed
<1>6. CallsFit'
  <2>1. CallFits(new)'
    BY <1>1, <1>2, <1>3, <1>5, NoneIsApart DEF CallFits, Delivers
  <2>2. ASSUME NEW c \in calls
        PROVE  c.stage # "copying" /\ CallFits(c)'
    <3>1. CallFits(c) /\ c.path \in Paths /\ c.at \in Paths \cup {None}
      BY CallFields DEF Basics, CallsFit
    <3> QED
      BY <1>1, <1>5, <3>1, NoneIsApart DEF CallFits, Delivers, history
  <2> QED
    BY <1>4, <2>1, <2>2 DEF CallsFit
<1>7. calls' \subseteq CallRecords /\ WebFits'
  BY <1>1, <1>2, <1>3, <1>4 DEF Basics, Typed, WebFits
<1>8. uploads' \in 0 .. MaxUploads /\ events' \in Nat
  BY EventCounts DEF Migrate, Basics
<1> QED
  BY <1>1, <1>2, <1>5, <1>6, <1>7, <1>8, WebBasics
     DEF Basics, Typed, database, todos, lifecycle

(* Rows for the copy, or the copy is removed. *)
LEMMA UpdateNotePathBasics ==
    ASSUME Basics, UpdateNotePath
    PROVE  Basics'
<1> DEFINE p == web.path
           q == web.dest
<1>1. /\ web # None /\ web.op = "migrate" /\ p \in Paths /\ q \in Paths /\ p # q
      /\ UNCHANGED <<format, todos, vectors, work, lifecycle>>
      /\ web' = None /\ lost \subseteq lost'
  BY WebFields DEF UpdateNotePath, Handles
<1>2. WebFits'
  BY <1>1 DEF WebFits
<1>3. PICK r \in Paths, s \in Paths : r = p /\ s = q
  BY <1>1
<1>4. uploads' \in 0 .. MaxUploads /\ events' \in Nat
  BY EventCounts DEF UpdateNotePath, Basics, Typed, bounds
<1>5. CASE Removed(q) /\ UNCHANGED <<note, jobs, index>>
  <2>1. Removed(s) /\ UNCHANGED <<note, jobs, index>>
    BY <1>3, <1>5
  <2>2. calls' \subseteq CallRecords /\ CallsFit'
    BY <1>1, <2>1, RemovedTyped, RemovedCalls
  <2> QED
    BY <1>1, <1>2, <1>4, <2>1, <2>2, RemovedTyped, WebBasics
       DEF Basics, Typed, todos, lifecycle
<1>6. CASE MoveRows(p, q) /\ UNCHANGED <<file, calls>>
  <2>1. MoveRows(r, s) /\ r # s /\ UNCHANGED <<file, calls>>
    BY <1>1, <1>3, <1>6
  <2>2. CallsFit'
    BY <1>1, <2>1, CallsStay
  <2> QED
    BY <1>1, <1>2, <1>4, <2>1, <2>2, MovedTyped, RowsBasics
       DEF Basics, Typed, todos, lifecycle
<1> QED
  BY <1>5, <1>6 DEF UpdateNotePath

(* A row is written afresh. *)
LEMMA ImportBasics ==
    ASSUME Basics, NEW p \in Paths, Import(p)
    PROVE  Basics'
<1>1. /\ web = None
      /\ UNCHANGED <<format, todos, file, calls, jobs, index, vectors, work, lifecycle,
                     history>>
  BY DEF Import
<1>2. web' \in Webs /\ web'.op = "import"
  BY ServingSets DEF Import, Ops
<1>3. /\ note' \in [Paths -> Contents \cup {None, Blank}]
      /\ \A r \in Paths : note[r] # None => note'[r] # None
  BY NoneIsApart DEF Import, Basics, Typed
<1>4. CallsFit' /\ WebFits'
  BY <1>1, <1>2, CallsStay DEF WebFits, history
<1>5. uploads' \in 0 .. MaxUploads /\ events' \in Nat
  BY EventCounts DEF Import, Basics
<1> QED
  BY <1>1, <1>2, <1>3, <1>4, <1>5, WebBasics DEF Basics, Typed, todos, lifecycle

(* And a job is asked for, if the latest is not done. *)
LEMMA EnqueueImportedBasics ==
    ASSUME Basics, EnqueueImported
    PROVE  Basics'
<1>1. /\ web # None /\ web.op = "import" /\ web' = None /\ web.path \in Paths
      /\ UNCHANGED <<format, file, database, work, lifecycle>> /\ lost \subseteq lost'
  BY WebFields DEF EnqueueImported, Handles
<1>2. PICK new \in CallRecords : /\ new = Call(web.path, None, None, "row")
                                /\ new.path = web.path /\ new.at = None
                                /\ new.stage = "row"
  <2>1. Typed /\ web.path \in Paths /\ None \in Paths \cup {None}
        /\ None \in Contents \cup {None} /\ "row" \in CallStages
    BY <1>1 DEF CallStages, Basics
  <2> QED
    BY <2>1, NewCall
<1>3. calls' \subseteq calls \cup {new}
  BY <1>2 DEF EnqueueImported
<1>4. CallsFit'
  <2>1. CallFits(new)'
    BY <1>2 DEF CallFits
  <2>2. \A c \in calls : c.stage # "copying" /\ CallFits(c)'
    BY <1>1 DEF Basics, CallsFit, CallFits, Delivers
  <2> QED
    BY <1>2, <1>3, <2>1, <2>2 DEF CallsFit
<1>5. calls' \subseteq CallRecords /\ WebFits'
  BY <1>1, <1>3 DEF Basics, Typed, WebFits
<1>6. uploads' \in 0 .. MaxUploads /\ events' \in Nat
  BY EventCounts DEF EnqueueImported, Basics, Typed, bounds
<1> QED
  BY <1>1, <1>4, <1>5, <1>6, WebBasics
     DEF Basics, Typed, database, todos, lifecycle

(* WebDAV removes a file. *)
LEMMA RemoveAllBasics ==
    ASSUME Basics, NEW p \in Paths, RemoveAll(p)
    PROVE  Basics'
<1>1. Removed(p) /\ UNCHANGED <<format, database, work, lifecycle, web, lost>>
  BY DEF RemoveAll
<1>2. calls' \subseteq CallRecords /\ CallsFit'
  BY <1>1, RemovedTyped, RemovedCalls
<1>3. WebFits'
  BY <1>1 DEF WebFits, Basics
<1>4. uploads' \in 0 .. MaxUploads /\ events' \in Nat
  BY EventCounts DEF RemoveAll, Basics
<1> QED
  BY <1>1, <1>2, <1>3, <1>4, RemovedTyped, WebBasics
     DEF Basics, Typed, database, todos, lifecycle

(* What a MOVE makes of the calls. *)
LEMMA RenamedCalls ==
    ASSUME Basics, NEW p \in Paths, NEW q \in Paths, Rename(p, q)
    PROVE  /\ calls' \subseteq CallRecords
           /\ \A d \in calls' : \E c \in calls :
                 /\ d.path = c.path /\ d.stage = c.stage /\ d.content = c.content
                 /\ d.at = IF c.at = q THEN None ELSE IF c.at = p THEN q ELSE c.at
           /\ \A c \in calls : \E d \in calls' :
                 /\ d.path = c.path
                 /\ d.at = IF c.at = q THEN None ELSE IF c.at = p THEN q ELSE c.at
           /\ \A d, e \in calls' : d.stage = "copying" /\ e.stage = "copying" => d = e
<1> DEFINE f(c) == IF c.at = q THEN [c EXCEPT !.at = None]
                   ELSE IF c.at = p THEN [c EXCEPT !.at = q] ELSE c
<1>1. \A c \in calls :
          /\ f(c) \in CallRecords /\ f(c).path = c.path /\ f(c).stage = c.stage
          /\ f(c).content = c.content
          /\ f(c).at = IF c.at = q THEN None ELSE IF c.at = p THEN q ELSE c.at
  <2> SUFFICES ASSUME NEW c \in calls
               PROVE  /\ f(c) \in CallRecords /\ f(c).path = c.path
                      /\ f(c).stage = c.stage /\ f(c).content = c.content
                      /\ f(c).at = IF c.at = q THEN None
                                   ELSE IF c.at = p THEN q ELSE c.at
    OBVIOUS
  <2>1. c \in CallRecords
    BY DEF Basics, Typed
  <2> QED
    BY <2>1 DEF CallRecords
<1>2. calls' = {f(c) : c \in calls}
  BY DEF Rename
<1> HIDE DEF f
<1>3. \A d, e \in calls' : d.stage = "copying" /\ e.stage = "copying" => d = e
  BY <1>1, <1>2 DEF Basics, CallsFit
<1> QED
  BY <1>1, <1>2, <1>3

(* WebDAV renames a file over another, under what is being written. *)
LEMMA RenameBasics ==
    ASSUME Basics, NEW p \in Paths, NEW q \in Paths, Rename(p, q)
    PROVE  Basics'
<1>1. /\ p # q /\ file[p] # None /\ lost' = lost \cup {q}
      /\ UNCHANGED <<format, database, work, lifecycle, web>>
  BY DEF Rename
<1>2. /\ file' \in [Paths -> Contents \cup {None, Partial}]
      /\ file'[q] = file[p] /\ \A r \in Paths \ {p, q} : file'[r] = file[r]
  BY <1>1 DEF Rename, Basics, Typed
<1>3. CallsFit'
  <2>1. ASSUME NEW d \in calls'
        PROVE  CallFits(d)'
    <3>1. PICK c \in calls :
              /\ d.path = c.path /\ d.stage = c.stage /\ d.content = c.content
              /\ d.at = IF c.at = q THEN None ELSE IF c.at = p THEN q ELSE c.at
      BY RenamedCalls
    <3>2. CallFits(c) /\ c.path \in Paths /\ c.at \in Paths \cup {None}
      BY CallFields DEF Basics, CallsFit
    <3> QED
      BY <1>1, <1>2, <3>1, <3>2, NoneIsApart DEF CallFits, Delivers
  <2> QED
    BY <2>1, RenamedCalls DEF CallsFit
<1>4. WebFits'
  BY <1>1 DEF WebFits, Basics
<1>5. uploads' \in 0 .. MaxUploads /\ events' \in Nat
  BY EventCounts DEF Rename, Basics
<1> QED
  BY <1>1, <1>2, <1>3, <1>4, <1>5, RenamedCalls, WebBasics
     DEF Basics, Typed, database, todos, lifecycle

-----------------------------------------------------------------------------
(* Who works for what. *)

(* Nothing is ever taken out of the histories. *)
LEMMA HistoryGrows ==
    ASSUME [Next]_vars
    PROVE  lost \subseteq lost' /\ ghosts \subseteq ghosts'
<1>1. CASE UNCHANGED vars
  BY <1>1 DEF vars, history
<1>2. ASSUME NEW p \in Paths, NEW c \in 1 .. uploads + 1, Upload(p, c)
      PROVE  lost \subseteq lost' /\ ghosts \subseteq ghosts'
  BY <1>2 DEF Upload, history
<1>3. CASE Answer \/ \E c \in calls : FailCall(c)
  BY <1>3 DEF Answer, Close, CopyFile, EnsureRow, InsertJob, FailCall, history
<1>4. ASSUME NEW i \in Slots, Work(i) \/ FailPage(i) \/ FailTodos(i) \/ FailFinish(i)
      PROVE  lost \subseteq lost' /\ ghosts \subseteq ghosts'
  BY <1>4 DEF Work, FailPage, FailTodos, FailFinish, ClaimNextJob, Open, Dedup, Parse, ClearIndex,
              IndexPages, IndexRest, FindTodos, CreateTask, Finish, Haunted, history
<1>5. CASE (\E k \in DOMAIN jobs : ReclaimStuckJobs(k)) \/ RetryAllFailed
  BY <1>5 DEF ReclaimStuckJobs, RetryAllFailed, JobsOnly, history
<1>6. ASSUME NEW p \in Paths,
             \/ Enqueue(p) \/ Skip(p) \/ Unskip(p) \/ DeleteNote(p) \/ Purge(p)
             \/ Import(p) \/ RemoveAll(p)
      PROVE  lost \subseteq lost' /\ ghosts \subseteq ghosts'
  BY <1>6 DEF Enqueue, Skip, Unskip, JobsOnly, DeleteNote, Purge, Import, RemoveAll, history
<1>7. ASSUME NEW p \in Paths, NEW q \in Paths, Move(p, q) \/ Migrate(p, q) \/ Rename(p, q)
      PROVE  lost \subseteq lost' /\ ghosts \subseteq ghosts'
  BY <1>7 DEF Move, Migrate, Rename, history
<1>8. CASE Handle
  BY <1>8 DEF Handle, DeleteVectors, DeleteFile, PurgeRows, MoveNote, RenameVectors,
              UpdateNotePath, EnqueueImported, Carried, history
<1>9. CASE StartReturns \/ Stop \/ Restart \/ \E i \in Slots : Start(i) \/ Quit(i)
  BY <1>9 DEF StartReturns, Stop, Restart, Start, Quit, StartStop, Boot, history
<1> QED
  BY <1>1, <1>2, <1>3, <1>4, <1>5, <1>6, <1>7, <1>8, <1>9 DEF Next

(* Workers go on or quit, and no job changes. *)
LEMMA MannedKept ==
    ASSUME Basics, Manned, lost \subseteq lost', UNCHANGED jobs,
           \A i \in Slots : work'[i] # None =>
               work[i] # None /\ work'[i].path = work[i].path /\ work'[i].job = work[i].job
    PROVE  Manned'
<1> SUFFICES ASSUME NEW p \in Paths
             PROVE  Alone(p)' /\ Strange(p)' /\ Owned(p)'
  BY DEF Manned
<1>1. Alone(p) /\ Strange(p) /\ Owned(p)
  BY DEF Manned
<1>2. \A i \in Slots : AtWork(i, p)' => AtWork(i, p)
  BY DEF AtWork
<1>3. \A i \in Slots : AtWork(i, p)' => (Orphaned(i)' <=> Orphaned(i))
                                        /\ work'[i].job = work[i].job
  BY DEF AtWork, Orphaned
<1>4. JobsOf(p)' = JobsOf(p)
  BY JobsAreKept
<1> QED
  BY <1>1, <1>2, <1>3, <1>4 DEF Alone, Strange, Owned

(* A statement that queues jobs, for the same workers. *)
LEMMA MannedQueued ==
    ASSUME Basics, Manned, lost \subseteq lost', UNCHANGED work,
           NEW ids, jobs' = Update(ids, "pending")
    PROVE  Manned'
<1> SUFFICES ASSUME NEW p \in Paths
             PROVE  Alone(p)' /\ Strange(p)' /\ Owned(p)'
  BY DEF Manned
<1>1. Alone(p) /\ Strange(p) /\ Owned(p)
  BY DEF Manned
<1>2. \A k \in DOMAIN jobs :
          /\ jobs'[k].path = jobs[k].path
          /\ jobs'[k].status = IF k \in ids /\ jobs[k].status # "deleted"
                               THEN "pending" ELSE jobs[k].status
  BY UpdateSets DEF Basics, JobStatuses
<1>3. JobsOf(p)' = JobsOf(p) /\ JobsOf(p) \subseteq DOMAIN jobs
  BY UpdateKeeps DEF Basics, JobStatuses, JobsOf
<1>4. \A i \in Slots : AtWork(i, p)' <=> AtWork(i, p)
  BY DEF AtWork
<1>5. \A i \in Slots : AtWork(i, p) =>
          work[i].job \in DOMAIN jobs /\ (Orphaned(i)' <=> Orphaned(i))
  BY <1>2 DEF AtWork, Orphaned, Basics, WorkFits
<1>6. Alone(p)'
  BY <1>1, <1>4 DEF Alone
<1>7. Strange(p)'
  BY <1>1, <1>2, <1>3, <1>4, <1>5 DEF Strange
<1>8. Owned(p)'
  BY <1>1, <1>2, <1>3, <1>4, <1>5 DEF Owned
<1> QED
  BY <1>6, <1>7, <1>8

(* A skip, of the latest job: no other that is newer has ended. *)
LEMMA MannedSkip ==
    ASSUME Basics, Manned, NEW q \in Paths, Skip(q)
    PROVE  Manned'
<1> SUFFICES ASSUME NEW p \in Paths
             PROVE  Alone(p)' /\ Strange(p)' /\ Owned(p)'
  BY DEF Manned
<1>1. Alone(p) /\ Strange(p) /\ Owned(p)
  BY DEF Manned
<1>2. UNCHANGED <<work, lost>> /\ jobs' = Update(Latest(q), "skipped")
  BY DEF Skip, JobsOnly, history
<1>3. \A k \in DOMAIN jobs :
          /\ jobs'[k].path = jobs[k].path
          /\ jobs'[k].status = IF k \in Latest(q) /\ jobs[k].status # "deleted"
                               THEN "skipped" ELSE jobs[k].status
  BY <1>2, UpdateSets DEF Basics, JobStatuses
<1>4. JobsOf(p)' = JobsOf(p) /\ JobsOf(p) \subseteq DOMAIN jobs
  BY <1>2, UpdateKeeps DEF Basics, JobStatuses, JobsOf
<1>5. \A i \in Slots : AtWork(i, p)' <=> AtWork(i, p)
  BY <1>2 DEF AtWork
<1>6. \A i \in Slots : AtWork(i, p) =>
          work[i].job \in DOMAIN jobs /\ (Orphaned(i)' <=> Orphaned(i))
  BY <1>2, <1>3 DEF AtWork, Orphaned, Basics, WorkFits
<1>7. Alone(p)'
  BY <1>1, <1>2, <1>5 DEF Alone
<1>8. Strange(p)'
  BY <1>1, <1>2, <1>3, <1>4, <1>5, <1>6 DEF Strange
<1>9. Owned(p)'
  <2> SUFFICES ASSUME p \notin lost, NEW i \in Slots, AtWork(i, p), ~Orphaned(i)
               PROVE  \/ jobs'[work[i].job].status \in {"pending", "in_progress"}
                      \/ /\ jobs'[work[i].job].status = "skipped"
                         /\ \A k \in JobsOf(p) : k >= work[i].job =>
                               jobs'[k].status \in {"pending", "skipped"}
    BY <1>2, <1>4, <1>5, <1>6 DEF Owned
  <2> DEFINE l == work[i].job
  <2>1. l \in JobsOf(p) /\ l \in Nat /\ JobsOf(p) \subseteq Nat
    BY <1>6, JobRows DEF AtWork, Orphaned, JobsOf, Basics
  <2>2. \/ jobs[l].status \in {"pending", "in_progress"}
        \/ /\ jobs[l].status = "skipped"
           /\ \A k \in JobsOf(p) : k >= l => jobs[k].status \in {"pending", "skipped"}
    BY <1>1 DEF Owned
  <2>3. CASE l \in Latest(q)
    <3>1. \A k \in JobsOf(p) : k <= l
      BY <2>1, <2>3 DEF Latest, JobsOf
    <3>2. jobs'[l].status = "skipped"
      BY <1>3, <1>4, <2>1, <2>3 DEF JobsOf
    <3> QED
      BY <2>1, <3>1, <3>2
  <2>4. CASE l \notin Latest(q)
    BY <1>3, <1>4, <2>1, <2>2, <2>4
  <2> QED
    BY <2>3, <2>4
<1> QED
  BY <1>7, <1>8, <1>9

(* A claim: two at a path are recorded, and one is at a job in progress. *)
LEMMA MannedClaim ==
    ASSUME Basics, Manned, NEW i \in Slots, NEW k \in DOMAIN jobs, ClaimNextJob(i, k)
    PROVE  Manned'
<1> SUFFICES ASSUME NEW p \in Paths
             PROVE  Alone(p)' /\ Strange(p)' /\ Owned(p)'
  BY DEF Manned
<1>1. Alone(p) /\ Strange(p) /\ Owned(p)
  BY DEF Manned
<1>2. /\ work'[i].job = k /\ work'[i].path = jobs[k].path /\ work'[i] # None
      /\ \A j \in Slots \ {i} : work'[j] = work[j]
      /\ work[i] = None
  BY ClaimSets DEF Basics, ClaimNextJob
<1>3. \A l \in DOMAIN jobs :
          /\ jobs'[l].path = jobs[l].path
          /\ jobs'[l].status = IF l \in {k} /\ jobs[l].status # "deleted"
                               THEN "in_progress" ELSE jobs[l].status
  BY UpdateSets DEF Basics, JobStatuses, ClaimNextJob
<1>4. JobsOf(p)' = JobsOf(p) /\ JobsOf(p) \subseteq DOMAIN jobs
  BY UpdateKeeps DEF Basics, JobStatuses, JobsOf, ClaimNextJob
<1>5. /\ lost \subseteq lost'
      /\ \A j \in Slots : AtWork(j, jobs[k].path) => jobs[k].path \in lost'
      /\ jobs[k].status = "pending"
  BY DEF ClaimNextJob, AtWork, WithStatus
<1>6. /\ ~Orphaned(i)' /\ jobs'[k].status = "in_progress"
      /\ AtWork(i, p)' <=> p = jobs[k].path
  BY <1>2, <1>3, <1>5 DEF Orphaned, AtWork
<1>7. \A j \in Slots \ {i} : AtWork(j, p) <=> AtWork(j, p)'
  BY <1>2 DEF AtWork
<1>8. \A j \in Slots \ {i} : AtWork(j, p) =>
          work'[j].job = work[j].job /\ work[j].job \in DOMAIN jobs
          /\ (Orphaned(j)' <=> Orphaned(j))
  BY <1>2, <1>3 DEF AtWork, Orphaned, Basics, WorkFits
<1>9. CASE p = jobs[k].path
  <2>1. p \notin lost' => \A j \in Slots \ {i} : ~AtWork(j, p)'
    BY <1>5, <1>7, <1>9
  <2>2. work'[i].job = k /\ jobs'[work'[i].job].status = "in_progress"
    BY <1>2, <1>6
  <2> QED
    BY <1>6, <2>1, <2>2 DEF Alone, Strange, Owned
<1>10. CASE p # jobs[k].path
  <2>1. \A l \in JobsOf(p) : jobs'[l].status = jobs[l].status
    BY <1>3, <1>4, <1>10 DEF JobsOf
  <2>2. ~AtWork(i, p)'
    BY <1>6, <1>10
  <2>3. Alone(p)' /\ Strange(p)'
    BY <1>1, <1>4, <1>5, <1>7, <1>8, <2>1, <2>2 DEF Alone, Strange
  <2>4. \A j \in Slots : AtWork(j, p) /\ ~Orphaned(j) => work[j].job \in JobsOf(p)
    BY DEF AtWork, Orphaned, JobsOf, Basics, WorkFits
  <2>5. Owned(p)'
    BY <1>1, <1>4, <1>5, <1>7, <1>8, <2>1, <2>2, <2>4 DEF Owned
  <2> QED
    BY <2>3, <2>5
<1> QED
  BY <1>9, <1>10

(* Nobody else is at the path of a job that ends. *)
LEMMA MannedFinish ==
    ASSUME Basics, Manned, NEW i \in Slots, NEW s \in {"done", "failed"}, Finish(i, s)
    PROVE  Manned'
<1> SUFFICES ASSUME NEW p \in Paths, p \notin lost'
             PROVE  Alone(p)' /\ Strange(p)' /\ Owned(p)'
  BY DEF Manned, Alone, Strange, Owned
<1>1. /\ Alone(p) /\ Strange(p) /\ Owned(p)
  BY DEF Manned
<1>2. work'[i] = None /\ \A j \in Slots \ {i} : work'[j] = work[j]
  BY DEF Finish, Basics, Typed
<1>3. s \in JobStatuses /\ s \in JobStatuses \ {"deleted"} /\ work[i] # None
      /\ jobs' = Update({work[i].job}, s)
  BY DEF JobStatuses, Finish, Active
<1>4. \A l \in DOMAIN jobs :
          /\ jobs'[l].path = jobs[l].path
          /\ jobs'[l].status = IF l \in {work[i].job} /\ jobs[l].status # "deleted"
                               THEN s ELSE jobs[l].status
  BY <1>3, UpdateSets DEF Basics
<1>5. JobsOf(p)' = JobsOf(p) /\ JobsOf(p) \subseteq DOMAIN jobs
  BY <1>3, UpdateKeeps DEF Basics, JobsOf
<1>6. /\ p \notin lost
      /\ p \in {work[i].path, jobs[work[i].job].path} =>
            p = work[i].path /\ p = jobs[work[i].job].path
  BY DEF Finish
<1>7. \A j \in Slots : AtWork(j, p)' => AtWork(j, p) /\ j # i /\ work'[j] = work[j]
  BY <1>2 DEF AtWork
<1>8. \A j \in Slots : AtWork(j, p)' =>
          work'[j].job = work[j].job /\ work[j].job \in DOMAIN jobs
          /\ (Orphaned(j)' <=> Orphaned(j))
  <2> SUFFICES ASSUME NEW j \in Slots, AtWork(j, p)'
               PROVE  /\ work'[j].job = work[j].job /\ work[j].job \in DOMAIN jobs
                      /\ Orphaned(j)' <=> Orphaned(j)
    OBVIOUS
  <2>1. work'[j] = work[j] /\ work[j].job \in DOMAIN jobs
    BY <1>7 DEF AtWork, Basics, WorkFits
  <2>2. /\ jobs'[work[j].job].path = jobs[work[j].job].path
        /\ jobs'[work[j].job].status = "deleted" <=> jobs[work[j].job].status = "deleted"
    BY <1>3, <1>4, <2>1
  <2> QED
    BY <2>1, <2>2 DEF Orphaned
<1>9. CASE p = work[i].path
  <2>1. \A j \in Slots : ~AtWork(j, p)'
    BY <1>1, <1>3, <1>6, <1>7, <1>9 DEF Alone, AtWork
  <2> QED
    BY <2>1 DEF Alone, Strange, Owned
<1>10. CASE p # work[i].path
  <2>1. \A l \in JobsOf(p) : jobs'[l].status = jobs[l].status
    BY <1>4, <1>5, <1>6, <1>10 DEF JobsOf
  <2>2. Alone(p)' /\ Strange(p)'
    BY <1>1, <1>5, <1>6, <1>7, <1>8, <2>1 DEF Alone, Strange
  <2>3. \A j \in Slots : AtWork(j, p) /\ ~Orphaned(j) => work[j].job \in JobsOf(p)
    BY DEF AtWork, Orphaned, JobsOf, Basics, WorkFits
  <2>4. Owned(p)'
    BY <1>1, <1>5, <1>6, <1>7, <1>8, <2>1, <2>3 DEF Owned
  <2> QED
    BY <2>2, <2>4
<1> QED
  BY <1>9, <1>10

(* A new job is pending. *)
LEMMA MannedInsert ==
    ASSUME Basics, Manned, NEW c \in calls, InsertJob(c)
    PROVE  Manned'
<1>1. UNCHANGED work /\ lost \subseteq lost' /\ c.path \in Paths
  BY CallFields DEF InsertJob, Basics
<1>2. CASE note[c.path] = None
  BY <1>1, <1>2, MannedKept DEF InsertJob
<1>3. CASE note[c.path] # None
  <2> SUFFICES ASSUME NEW p \in Paths
               PROVE  Alone(p)' /\ Strange(p)' /\ Owned(p)'
    BY DEF Manned
  <2>1. Alone(p) /\ Strange(p) /\ Owned(p)
    BY DEF Manned
  <2>2. jobs' = Append(jobs, [path |-> c.path, status |-> "pending"])
    BY <1>3 DEF InsertJob
  <2>3. /\ \A k \in DOMAIN jobs : jobs'[k] = jobs[k]
        /\ \A k \in JobsOf(p)' \ JobsOf(p) : jobs'[k].status = "pending"
    BY <1>1, <2>2, QueuedRow DEF Basics
  <2>4. \A i \in Slots : /\ AtWork(i, p)' <=> AtWork(i, p)
                         /\ AtWork(i, p) => /\ work[i].job \in DOMAIN jobs
                                            /\ Orphaned(i)' <=> Orphaned(i)
    BY <1>1, <2>3 DEF AtWork, Orphaned, Basics, WorkFits
  <2>5. JobsOf(p) \subseteq DOMAIN jobs
    BY DEF JobsOf
  <2> QED
    BY <1>1, <2>1, <2>3, <2>4, <2>5 DEF Alone, Strange, Owned
<1> QED
  BY <1>2, <1>3

(* Where rows are deleted every worker is a stranger, and no job is left. *)
LEMMA MannedDelete ==
    ASSUME Basics, Manned, NEW q \in Paths, DeleteRows(q), UNCHANGED work,
           lost \subseteq lost'
    PROVE  Manned'
<1> SUFFICES ASSUME NEW p \in Paths
             PROVE  Alone(p)' /\ Strange(p)' /\ Owned(p)'
  BY DEF Manned
<1>1. Alone(p) /\ Strange(p) /\ Owned(p)
  BY DEF Manned
<1>2. /\ JobsOf(q)' = {}
      /\ \A k \in DOMAIN jobs :
            /\ jobs'[k].path = jobs[k].path
            /\ jobs[k].path = q => jobs'[k].status = "deleted"
            /\ jobs[k].path # q => jobs'[k].status = jobs[k].status
      /\ p # q => JobsOf(p)' = JobsOf(p)
  BY DeletedRows DEF Basics
<1>3. \A i \in Slots : AtWork(i, p)' <=> AtWork(i, p)
  BY DEF AtWork
<1>4. \A i \in Slots : AtWork(i, p) => work[i].job \in DOMAIN jobs
  BY DEF AtWork, Basics, WorkFits
<1>5. Alone(p)'
  BY <1>1, <1>3 DEF Alone
<1>6. CASE p = q
  <2>1. \A i \in Slots : AtWork(i, p) => Orphaned(i)'
    BY <1>2, <1>4, <1>6 DEF Orphaned, AtWork
  <2> QED
    BY <1>2, <1>3, <1>5, <1>6, <2>1 DEF Strange, Owned
<1>7. CASE p # q
  <2>1. \A i \in Slots : AtWork(i, p) => (Orphaned(i)' <=> Orphaned(i))
    BY <1>2, <1>4, <1>7 DEF Orphaned, AtWork
  <2>2. \A k \in JobsOf(p) : k \in DOMAIN jobs /\ jobs'[k].status = jobs[k].status
    BY <1>2, <1>7 DEF JobsOf
  <2>3. \A i \in Slots : AtWork(i, p) /\ ~Orphaned(i) => work[i].job \in JobsOf(p)
    BY <1>4 DEF AtWork, Orphaned, JobsOf
  <2> QED
    BY <1>1, <1>2, <1>3, <1>5, <1>7, <2>1, <2>2, <2>3 DEF Strange, Owned
<1> QED
  BY <1>6, <1>7

(* No worker is at a place to which the rows of another are moved, unless
   that is recorded. *)
LEMMA MannedMove ==
    ASSUME Basics, Manned, NEW q \in Paths, NEW r \in Paths, q # r, MoveRows(q, r),
           UNCHANGED work, lost \subseteq lost',
           r \in lost' \/ \A i \in Slots : ~AtWork(i, r)
    PROVE  Manned'
<1> SUFFICES ASSUME NEW p \in Paths
             PROVE  Alone(p)' /\ Strange(p)' /\ Owned(p)'
  BY DEF Manned
<1>1. Alone(p) /\ Strange(p) /\ Owned(p)
  BY DEF Manned
<1>2. /\ JobsOf(q)' = {}
      /\ \A k \in DOMAIN jobs :
            /\ jobs'[k].status = jobs[k].status
            /\ jobs'[k].path = IF k \in JobsOf(q) THEN r ELSE jobs[k].path
      /\ p \notin {q, r} => JobsOf(p)' = JobsOf(p)
  BY MovedRows DEF Basics
<1>3. \A i \in Slots : AtWork(i, p)' <=> AtWork(i, p)
  BY DEF AtWork
<1>4. \A i \in Slots : AtWork(i, p) => work[i].job \in DOMAIN jobs
  BY DEF AtWork, Basics, WorkFits
<1>5. Alone(p)'
  BY <1>1, <1>3 DEF Alone
<1>6. CASE p = q
  <2>1. \A i \in Slots : AtWork(i, p) => Orphaned(i)'
    BY <1>2, <1>4, <1>6 DEF Orphaned, AtWork, JobsOf
  <2> QED
    BY <1>2, <1>3, <1>5, <1>6, <2>1 DEF Strange, Owned
<1>7. CASE p = r
  BY <1>3, <1>5, <1>7 DEF Strange, Owned
<1>8. CASE p \notin {q, r}
  <2>1. \A i \in Slots : AtWork(i, p) => (Orphaned(i)' <=> Orphaned(i))
    BY <1>2, <1>4, <1>8 DEF Orphaned, AtWork, JobsOf
  <2>2. \A k \in JobsOf(p) : k \in DOMAIN jobs /\ jobs'[k].status = jobs[k].status
    BY <1>2 DEF JobsOf
  <2>3. \A i \in Slots : AtWork(i, p) /\ ~Orphaned(i) => work[i].job \in JobsOf(p)
    BY <1>4 DEF AtWork, Orphaned, JobsOf
  <2> QED
    BY <1>1, <1>2, <1>3, <1>5, <1>8, <2>1, <2>2, <2>3 DEF Strange, Owned
<1> QED
  BY <1>6, <1>7, <1>8

(* Nobody is at work in a new process. *)
LEMMA MannedBoot ==
    ASSUME Boot
    PROVE  Manned'
<1>1. \A i \in Slots : work'[i] = None
  BY DEF Boot
<1> QED
  BY <1>1 DEF Manned, Alone, Strange, Owned, AtWork

(* A worker that has its stage changed is where it was. *)
LEMMA GoesOnAt ==
    ASSUME Basics, NEW i \in Slots,
           \/ Open(i) \/ Dedup(i) \/ Parse(i) \/ ClearIndex(i) \/ IndexPages(i)
           \/ IndexRest(i) \/ FindTodos(i) \/ CreateTask(i) \/ FailTodos(i) \/ FailPage(i)
    PROVE  /\ work[i] # None /\ work'[i] # None
           /\ work'[i].path = work[i].path /\ work'[i].job = work[i].job
           /\ \A j \in Slots \ {i} : work'[j] = work[j]
           /\ UNCHANGED <<jobs, format, file, calls, web>>
<1>1. Typed /\ work[i] # None
  BY DEF Basics, Open, Dedup, Parse, ClearIndex, IndexPages, IndexRest, FindTodos,
         CreateTask, FailTodos, FailPage, Active
<1>2. UNCHANGED <<jobs, format, file, calls, web>>
  BY DEF Open, Dedup, Parse, ClearIndex, IndexPages, IndexRest, FindTodos,
         CreateTask, FailTodos, FailPage, database
<1>3. CASE \E s \in Stages : Goto(i, s)
  BY <1>1, <1>2, <1>3, GotoSets
<1>4. CASE Open(i)
  BY <1>1, <1>2, <1>3, <1>4, OpenSets DEF Open, Stages
<1>5. CASE IndexPages(i)
  BY <1>1, <1>2, <1>3, <1>5, PagesSet DEF IndexPages, Stages
<1>6. CASE Dedup(i) \/ Parse(i) \/ ClearIndex(i) \/ IndexRest(i)
  BY <1>3, <1>6 DEF Dedup, Parse, ClearIndex, IndexRest, Stages
<1>7. CASE FindTodos(i) \/ CreateTask(i) \/ FailTodos(i) \/ FailPage(i)
  BY <1>3, <1>7 DEF FindTodos, CreateTask, FailTodos, FailPage, Stages
<1> QED
  BY <1>4, <1>5, <1>6, <1>7

-----------------------------------------------------------------------------
(* What the index holds. *)

(* A note with a worker is not idle. *)
LEMMA Busy ==
    ASSUME Basics, Manned, NEW p \in Paths, p \notin lost, NEW i \in Slots, AtWork(i, p)
    PROVE  ~Idle(p)
<1>1. Strange(p) /\ Owned(p)
  BY DEF Manned
<1>2. Latest(p) \subseteq JobsOf(p)
  BY DEF Latest
<1>3. CASE Orphaned(i)
  BY <1>1, <1>2, <1>3 DEF Strange, Idle, WithStatus
<1>4. CASE ~Orphaned(i)
  <2>1. work[i].job \in JobsOf(p)
    BY <1>4 DEF AtWork, Orphaned, JobsOf, Basics, WorkFits
  <2>2. CASE jobs[work[i].job].status \in {"pending", "in_progress"}
    BY <2>1, <2>2 DEF Idle, Due, WithStatus, JobsOf
  <2>3. CASE \A k \in JobsOf(p) : k >= work[i].job =>
                 jobs[k].status \in {"pending", "skipped"}
    <3>1. \A k \in Latest(p) : k >= work[i].job /\ k \in JobsOf(p)
      BY <2>1, JobRows DEF Latest, JobsOf, Basics
    <3> QED
      BY <2>3, <3>1 DEF Idle, WithStatus
  <2> QED
    BY <1>1, <1>4, <2>2, <2>3 DEF Owned
<1> QED
  BY <1>3, <1>4

(* What is known of a note stays known, of the jobs and workers there are. *)
LEMMA FoundKept ==
    ASSUME NEW p \in Paths, Found(p), lost \subseteq lost', ghosts \subseteq ghosts',
           p \notin lost' \cup ghosts' =>
              /\ Idle(p)' => Idle(p)
              /\ index'[p] = index[p]
              /\ ~Stirred(p)' => ~Stirred(p) /\ Home(p)' = Home(p)
              /\ \A i \in Slots :
                    AtWork(i, p)' /\ ~Orphaned(i)' /\ work'[i].stage \notin {"open", "failed"} =>
                        work'[i] = work[i] /\ AtWork(i, p) /\ ~Orphaned(i)
              /\ \A k \in Nat : OthersDue(p, k) => OthersDue(p, k)',
           Typed
    PROVE  Found(p)'
<1> SUFFICES ASSUME p \notin lost' \cup ghosts'
             PROVE  Indexed(p)' /\ UnderWay(p)'
  BY DEF Found
<1>1. Indexed(p) /\ UnderWay(p)
  BY DEF Found
<1>2. Indexed(p)'
  BY <1>1 DEF Indexed
<1>3. UnderWay(p)'
  <2> SUFFICES ASSUME NEW i \in Slots, AtWork(i, p)', ~Orphaned(i)',
                      work'[i].stage \notin {"open", "failed"}, ~Stirred(p)'
               PROVE  OthersDue(p, work[i].job)' \/ Fits(i, p)'
    BY DEF UnderWay
  <2>1. work'[i] = work[i] /\ AtWork(i, p) /\ ~Orphaned(i) /\ work[i].job \in Nat
    BY WorkFields DEF AtWork
  <2>2. ~Stirred(p) /\ Home(p)' = Home(p) /\ index'[p] = index[p]
    OBVIOUS
  <2>3. OthersDue(p, work[i].job) \/ Fits(i, p)
    BY <1>1, <2>1, <2>2 DEF UnderWay
  <2>4. ASSUME NEW k \in Nat, k = work[i].job
        PROVE  OthersDue(p, k) => OthersDue(p, work[i].job)'
    BY <2>1, <2>4 DEF OthersDue
  <2>5. Fits(i, p) => Fits(i, p)'
    BY <2>1, <2>2 DEF Fits
  <2> QED
    BY <2>1, <2>3, <2>4, <2>5
<1> QED
  BY <1>2, <1>3

(* Files, calls and the request change. *)
LEMMA FoundStill ==
    ASSUME Typed, NEW p \in Paths, Found(p), UNCHANGED <<jobs, index, work>>,
           lost \subseteq lost', ghosts \subseteq ghosts',
           p \notin lost' \cup ghosts' =>
              (~Stirred(p)' => ~Stirred(p) /\ Home(p)' = Home(p))
    PROVE  Found(p)'
<1>1. /\ Idle(p)' <=> Idle(p)
      /\ \A k \in Nat : OthersDue(p, k) => OthersDue(p, k)'
  BY JobsAreKept
<1>2. \A i \in Slots : /\ AtWork(i, p)' <=> AtWork(i, p)
                       /\ Orphaned(i)' <=> Orphaned(i)
  BY DEF AtWork, Orphaned
<1> QED
  BY <1>1, <1>2, FoundKept

(* The same, for what is told of red ink. *)
LEMMA ReadStill ==
    ASSUME NEW p \in Paths, Read(p), UNCHANGED <<jobs, index, work, tasks, missed>>,
           lost \subseteq lost'
    PROVE  Read(p)'
<1>1. Idle(p)' <=> Idle(p)
  BY JobsAreKept
<1>2. \A i \in Slots : /\ AtWork(i, p)' <=> AtWork(i, p)
                       /\ Orphaned(i)' <=> Orphaned(i)
  BY DEF AtWork, Orphaned
<1>3. Told(p)' <=> Told(p)
  BY DEF Told
<1> QED
  BY <1>1, <1>2, <1>3 DEF Read, Reads

(* And both, for every note. *)
LEMMA SearchedStill ==
    ASSUME Basics, Searched, UNCHANGED <<jobs, index, work, tasks, missed>>,
           lost \subseteq lost', ghosts \subseteq ghosts',
           \A p \in Paths : p \notin lost' \cup ghosts' =>
              (~Stirred(p)' => ~Stirred(p) /\ Home(p)' = Home(p))
    PROVE  Searched'
<1> SUFFICES ASSUME NEW p \in Paths
             PROVE  Found(p)' /\ Read(p)'
  BY DEF Searched
<1> QED
  BY FoundStill, ReadStill DEF Searched, Basics

(* Under the same request, a path is stirred where its calls change. *)
LEMMA StirredStill ==
    ASSUME Basics, NEW p \in Paths, p \notin lost' \cup ghosts', ~Stirred(p)',
           UNCHANGED web, lost \subseteq lost', ghosts \subseteq ghosts',
           \A r \in Paths : r \notin lost' \cup ghosts' =>
              /\ Called(r) => Called(r)'
              /\ ~Called(r)' => file'[r] = file[r],
           \A r \in Paths : note[r] # None => note'[r] # None
    PROVE  ~Stirred(p) /\ Home(p)' = Home(p)
<1>1. ~Called(p)' /\ ~Called(p) /\ file'[p] = file[p]
  BY DEF Stirred
<1>2. ~Serves({"purge"}, p) /\ ~Delivers({"move", "copy", "migrate"}, p)
  BY DEF Stirred, Serves, Delivers
<1>3. CASE ~Serves({"move"}, p)
  BY <1>1, <1>2, <1>3 DEF Stirred, Home, Serves
<1>4. CASE Serves({"move"}, p)
  <2>1. web.dest \in Paths
    BY <1>4, WebFields DEF Serves
  <2>2. Serves({"move"}, p)'
    BY <1>4 DEF Serves
  <2>3. /\ ~Called(web.dest)' /\ note'[web.dest] = None /\ file'[p] = None
        /\ web.dest \notin lost' \cup ghosts'
    <3> DEFINE q == web.dest
    <3>1. ~(\/ Called(web.dest) \/ note[web.dest] # None \/ file[p] # None
            \/ web.dest \in lost \cup ghosts)'
      BY <2>2 DEF Stirred
    <3> QED
      BY <3>1 DEF Called
  <2>4. ~Called(web.dest) /\ file'[web.dest] = file[web.dest] /\ note[web.dest] = None
    BY <2>1, <2>3 DEF Called
  <2> QED
    BY <1>1, <1>2, <1>4, <2>2, <2>3, <2>4 DEF Stirred, Home
<1> QED
  BY <1>3, <1>4

(* An upload stirs its path. *)
LEMMA UploadSearched ==
    ASSUME Basics, Searched, NEW p \in Paths, NEW c \in 1 .. uploads + 1, Upload(p, c)
    PROVE  Searched'
<1>1. Typed /\ UNCHANGED <<format, database, work, lifecycle, web, history>>
  BY DEF Upload, Basics
<1>2. PICK new : /\ new.path = p /\ new.at = p
                 /\ calls' = Displace(p, None) \cup {new}
  BY DEF Upload, Call
<1>3. ASSUME NEW r \in Paths
      PROVE  (Called(r) => Called(r)') /\ (~Called(r)' => file'[r] = file[r])
  <2>1. CASE r = p
    BY <1>2, <2>1 DEF Called
  <2>2. CASE r # p
    <3>1. file'[r] = file[r]
      BY <2>2 DEF Upload, Basics, Typed
    <3>2. ASSUME NEW d \in calls, r \in {d.path, d.at}
          PROVE  \E e \in calls' : r \in {e.path, e.at}
      <4>1. PICK e \in Displace(p, None) :
                e.path = d.path /\ e.at = IF d.at = p THEN None ELSE d.at
        BY <1>1, Displaced
      <4> QED
        BY <1>2, <2>2, <3>2, <4>1
    <3> QED
      BY <3>1, <3>2 DEF Called
  <2> QED
    BY <2>1, <2>2
<1> QED
  BY <1>1, <1>3, StirredStill, SearchedStill DEF database, todos, history

(* A closed file stirs the path it was opened under until its job is queued;
   elsewhere it is lost. *)
LEMMA CloseSearched ==
    ASSUME Basics, Searched, NEW c \in calls, Close(c)
    PROVE  Searched'
<1>1. /\ UNCHANGED <<format, database, work, lifecycle, web, ghosts, bounds>>
      /\ lost' = lost \cup ({c.at} \ {c.path, None})
      /\ c.path \in Paths /\ Typed
  BY CallFields DEF Close, Basics
<1>2. PICK new : new.path = c.path /\ calls' = (calls \ {c}) \cup {new}
  <2>1. [c EXCEPT !.stage = "row", !.at = None].path = c.path
    BY <1>1, CallGetsOn DEF CallStages
  <2> QED
    BY <2>1 DEF Close
<1>3. \A r \in Paths : r \notin lost' =>
          (Called(r) => Called(r)') /\ (~Called(r)' => file'[r] = file[r])
  <2> SUFFICES ASSUME NEW r \in Paths, r \notin lost'
               PROVE  (Called(r) => Called(r)') /\ (~Called(r)' => file'[r] = file[r])
    OBVIOUS
  <2>1. Called(r) => Called(r)'
    BY <1>1, <1>2, NoneIsApart DEF Called
  <2>2. ~Called(r)' => r # c.at
    BY <1>1, <1>2, NoneIsApart DEF Called
  <2> QED
    BY <2>1, <2>2 DEF Close, Basics, Typed
<1> QED
  BY <1>1, <1>3, StirredStill, SearchedStill DEF database, todos

(* The row of a call: the path is stirred before and after. *)
LEMMA EnsureRowSearched ==
    ASSUME Basics, Searched, NEW c \in calls, EnsureRow(c)
    PROVE  Searched'
<1>1. /\ UNCHANGED <<format, todos, file, jobs, index, vectors, work, lifecycle, web,
                     history, bounds>>
      /\ Typed
  BY DEF EnsureRow, Basics
<1>2. PICK new : /\ new.path = c.path /\ new.at = c.at
                 /\ calls' = (calls \ {c}) \cup {new}
  BY CallGetsOn DEF EnsureRow, Basics, CallStages
<1>3. \A r \in Paths : note[r] # None => note'[r] # None
  BY NoneIsApart DEF EnsureRow, Basics, Typed
<1>4. \A r \in Paths : Called(r) => Called(r)'
  BY <1>2 DEF Called
<1> QED
  BY <1>1, <1>3, <1>4, StirredStill, SearchedStill DEF todos, history

(* An enqueue stirs a path. *)
LEMMA EnqueueSearched ==
    ASSUME Basics, Searched, NEW p \in Paths, Enqueue(p)
    PROVE  Searched'
<1>1. /\ UNCHANGED <<format, file, database, work, lifecycle, web, history>>
      /\ calls \subseteq calls'
  BY DEF Enqueue
<1>2. \A r \in Paths : Called(r) => Called(r)'
  BY <1>1 DEF Called
<1> QED
  BY <1>1, <1>2, StirredStill, SearchedStill DEF database, todos, history

(* Contexts change nothing that is indexed. *)
LEMMA StopSearched ==
    ASSUME Basics, Searched, StartReturns \/ Stop
    PROVE  Searched'
<1>1. UNCHANGED <<format, todos, file, calls, note, jobs, index, vectors, work, web, history>>
  BY DEF StartReturns, Stop, StartStop
<1>2. \A r \in Paths : Called(r) <=> Called(r)'
  BY <1>1 DEF Called
<1> QED
  BY <1>1, <1>2, StirredStill, SearchedStill DEF todos, history

(* The calls at a path are displaced: the others stay. *)
LEMMA DisplacedCalls ==
    ASSUME Basics, NEW p \in Paths, calls' = Displace(p, None)
    PROVE  \A r \in Paths \ {p} : Called(r)' <=> Called(r)
<1> SUFFICES ASSUME NEW r \in Paths \ {p}
             PROVE  Called(r)' <=> Called(r)
  OBVIOUS
<1>1. Called(r) => Called(r)'
  <2> SUFFICES ASSUME NEW c \in calls, r \in {c.path, c.at}
               PROVE  Called(r)'
    BY DEF Called
  <2>1. PICK d \in calls' : d.path = c.path /\ d.at = IF c.at = p THEN None ELSE c.at
    BY Displaced DEF Basics
  <2> QED
    BY <2>1 DEF Called
<1>2. Called(r)' => Called(r)
  <2> SUFFICES ASSUME NEW d \in calls', r \in {d.path, d.at}
               PROVE  Called(r)
    BY DEF Called
  <2>1. PICK c \in calls : d.path = c.path /\ d.at = IF c.at = p THEN None ELSE c.at
    BY Displaced DEF Basics
  <2> QED
    BY <2>1, NoneIsApart DEF Called
<1> QED
  BY <1>1, <1>2

(* A removed file leaves a ghost. *)
LEMMA RemoveAllSearched ==
    ASSUME Basics, Searched, NEW p \in Paths, RemoveAll(p)
    PROVE  Searched'
<1>1. /\ Removed(p) /\ ghosts' = ghosts \cup {p}
      /\ UNCHANGED <<format, database, work, lifecycle, web, lost>>
  BY DEF RemoveAll
<1>2. \A r \in Paths : r \notin ghosts' =>
          (Called(r) => Called(r)') /\ (~Called(r)' => file'[r] = file[r])
  BY <1>1, RemovedTyped, DisplacedCalls
<1> QED
  BY <1>1, <1>2, StirredStill, SearchedStill DEF database, todos, Basics

(* A renamed one leaves a ghost, and what it is put over is lost. *)
LEMMA RenameSearched ==
    ASSUME Basics, Searched, NEW p \in Paths, NEW q \in Paths, Rename(p, q)
    PROVE  Searched'
<1>1. /\ ghosts' = ghosts \cup {p} /\ lost' = lost \cup {q}
      /\ UNCHANGED <<format, database, work, lifecycle, web>>
  BY DEF Rename
<1>2. \A r \in Paths \ {p, q} : Called(r) => Called(r)'
  <2> SUFFICES ASSUME NEW r \in Paths \ {p, q}, NEW c \in calls, r \in {c.path, c.at}
               PROVE  Called(r)'
    BY DEF Called
  <2>1. PICK d \in calls' :
            /\ d.path = c.path
            /\ d.at = IF c.at = q THEN None ELSE IF c.at = p THEN q ELSE c.at
    BY RenamedCalls
  <2> QED
    BY <2>1 DEF Called
<1>3. \A r \in Paths \ {p, q} : file'[r] = file[r]
  BY DEF Rename, Basics, Typed
<1> QED
  BY <1>1, <1>2, <1>3, StirredStill, SearchedStill DEF database, todos, Basics

(* Embeddings are not pages. *)
LEMMA DeleteVectorsSearched ==
    ASSUME Basics, Searched, DeleteVectors
    PROVE  Searched'
<1>1. /\ web # None /\ web.op = "vectors" /\ web.path \in Paths
      /\ UNCHANGED <<format, todos, file, calls, note, jobs, index, work, lifecycle,
                     lost>>
      /\ ghosts \subseteq ghosts'
  BY WebFields DEF DeleteVectors, Handles
<1>2. web'.op = "file"
  BY <1>1, ServingSets DEF DeleteVectors, Ops
<1>3. \A p \in Paths : ~Stirred(p)' => ~Stirred(p) /\ Home(p)' = Home(p)
  BY <1>1, <1>2 DEF Stirred, Home, Called, Serves, Delivers
<1> QED
  BY <1>1, <1>3, SearchedStill DEF todos

(* Nor when they are renamed. *)
LEMMA RenameVectorsSearched ==
    ASSUME Basics, Searched, RenameVectors
    PROVE  Searched'
<1>1. /\ web # None /\ web.op = "rename" /\ web' = None
      /\ UNCHANGED <<format, todos, file, calls, note, jobs, index, work, lifecycle, lost>>
      /\ ghosts \subseteq ghosts'
  BY DEF RenameVectors, Handles
<1>2. \A p \in Paths : ~Stirred(p)' => ~Stirred(p) /\ Home(p)' = Home(p)
  BY <1>1 DEF Stirred, Home, Called, Serves, Delivers
<1> QED
  BY <1>1, <1>2, SearchedStill DEF todos

(* A blank hash is no page. *)
LEMMA ImportSearched ==
    ASSUME Basics, Searched, NEW p \in Paths, Import(p)
    PROVE  Searched'
<1>1. /\ web = None
      /\ UNCHANGED <<format, todos, file, calls, jobs, index, vectors, work, lifecycle,
                     history>>
  BY DEF Import
<1>2. web'.op = "import"
  BY ServingSets DEF Import, Ops
<1>3. \A r \in Paths : ~Stirred(r)' => ~Stirred(r) /\ Home(r)' = Home(r)
  BY <1>1, <1>2 DEF Stirred, Home, Called, Serves, Delivers
<1> QED
  BY <1>1, <1>3, SearchedStill DEF todos, history

(* An imported file is enqueued. *)
LEMMA EnqueueImportedSearched ==
    ASSUME Basics, Searched, EnqueueImported
    PROVE  Searched'
<1>1. /\ web # None /\ web.op = "import" /\ web' = None /\ calls \subseteq calls'
      /\ UNCHANGED <<format, file, database, work, lifecycle, ghosts>>
      /\ lost \subseteq lost'
  BY DEF EnqueueImported, Handles
<1>2. \A r \in Paths : ~Stirred(r)' => ~Stirred(r) /\ Home(r)' = Home(r)
  BY <1>1 DEF Stirred, Home, Called, Serves, Delivers
<1> QED
  BY <1>1, <1>2, SearchedStill DEF database, todos

(* The copied file is under a stirred path. *)
LEMMA CopyFileSearched ==
    ASSUME Basics, Searched, NEW c \in calls, CopyFile(c)
    PROVE  Searched'
<1>1. /\ web # None /\ web.op = "copy" /\ c.path = web.dest
      /\ c.at \in {c.path, None} \cup lost
  BY DEF CopyFile, Basics, CallsFit, CallFits, Delivers
<1>2. web' # None /\ web'.op = "migrate" /\ web'.path = web.path /\ web'.dest = web.dest
  BY <1>1, WebFields, ServingSets DEF CopyFile, Ops
<1>3. /\ UNCHANGED <<format, database, work, lifecycle, history, bounds>>
      /\ calls' = calls \ {c}
      /\ \A r \in Paths : r # c.at => file'[r] = file[r]
  BY DEF CopyFile, Basics, Typed
<1>4. ASSUME NEW p \in Paths, p \notin lost' \cup ghosts', ~Stirred(p)'
      PROVE  ~Stirred(p) /\ Home(p)' = Home(p)
  <2>1. p # web.dest
    BY <1>2, <1>4 DEF Stirred, Delivers
  <2>2. p # c.at
    BY <1>1, <1>3, <1>4, <2>1, NoneIsApart DEF history
  <2>3. ~Called(p) /\ file'[p] = file[p]
    BY <1>1, <1>3, <1>4, <2>1, <2>2 DEF Stirred, Called
  <2> QED
    BY <1>1, <1>2, <1>3, <1>4, <2>1, <2>3 DEF Stirred, Home, Serves, Delivers
<1> QED
  BY <1>3, <1>4, SearchedStill DEF database, todos, history

(* Where a call fails its path is lost. *)
LEMMA FailCallSearched ==
    ASSUME Basics, Searched, NEW c \in calls, FailCall(c)
    PROVE  Searched'
<1>1. /\ UNCHANGED <<format, file, database, work, lifecycle, ghosts>>
      /\ calls' = calls \ {c} /\ lost' = lost \cup {c.path}
      /\ web' = IF c.stage = "copying" THEN None ELSE web
      /\ c.at \in {c.path, None} \cup lost
  BY DEF FailCall, Basics, CallsFit, CallFits
<1>2. \A r \in Paths : r \notin lost' => (Called(r) => Called(r)')
  BY <1>1, NoneIsApart DEF Called
<1>3. CASE c.stage = "copying"
  <2>1. web # None /\ web.op = "copy" /\ c.path = web.dest /\ web' = None
    BY <1>1, <1>3 DEF Basics, CallsFit, CallFits, Delivers
  <2>2. ASSUME NEW p \in Paths, p \notin lost' \cup ghosts', ~Stirred(p)'
        PROVE  ~Stirred(p) /\ Home(p)' = Home(p)
    BY <1>1, <1>2, <2>1, <2>2 DEF Stirred, Home, Serves, Delivers
  <2> QED
    BY <1>1, <2>2, SearchedStill DEF database, todos
<1>4. CASE c.stage # "copying"
  BY <1>1, <1>2, <1>4, StirredStill, SearchedStill DEF database, todos
<1> QED
  BY <1>3, <1>4

(* A migration stirs both its paths. *)
LEMMA MigrateSearched ==
    ASSUME Basics, Searched, NEW p \in Paths, NEW q \in Paths, Migrate(p, q)
    PROVE  Searched'
<1>1. /\ web = None /\ calls \subseteq calls'
      /\ UNCHANGED <<format, database, work, lifecycle, history>>
      /\ \A r \in Paths \ {q} : file'[r] = file[r]
  BY DEF Migrate, Basics, Typed
<1>2. web' # None /\ web'.op = "copy" /\ web'.path = p /\ web'.dest = q
  BY ServingSets DEF Migrate, Ops
<1>3. \A r \in Paths : ~Stirred(r)' => ~Stirred(r) /\ Home(r)' = Home(r)
  BY <1>1, <1>2 DEF Stirred, Home, Called, Serves, Delivers
<1> QED
  BY <1>1, <1>3, SearchedStill DEF database, todos, history

(* A purge stirs the path whose file it takes. *)
LEMMA PurgeSearched ==
    ASSUME Basics, Searched, NEW p \in Paths, Purge(p)
    PROVE  Searched'
<1>1. /\ web = None
      /\ Removed(p) \/ UNCHANGED <<file, calls>>
      /\ UNCHANGED <<format, database, work, lifecycle, history>>
  BY DEF Purge
<1>2. web' # None /\ web'.op = "purge" /\ web'.path = p /\ web'.dest = p
  BY ServingSets DEF Purge, Ops
<1>3. \A r \in Paths \ {p} : /\ Called(r)' <=> Called(r)
                             /\ file'[r] = file[r]
  BY <1>1, RemovedTyped, DisplacedCalls DEF Called
<1>4. \A r \in Paths : ~Stirred(r)' => ~Stirred(r) /\ Home(r)' = Home(r)
  BY <1>1, <1>2, <1>3 DEF Stirred, Home, Serves, Delivers
<1> QED
  BY <1>1, <1>4, SearchedStill DEF database, todos, history

(* A move takes the file along: the rows still describe it. *)
LEMMA MoveSearched ==
    ASSUME Basics, Searched, NEW p \in Paths, NEW q \in Paths, Move(p, q)
    PROVE  Searched'
<1>1. /\ web = None /\ p # q /\ calls' = Displace(p, q)
      /\ UNCHANGED <<format, database, work, lifecycle, history>>
      /\ file'[q] = file[p] /\ \A r \in Paths \ {p, q} : file'[r] = file[r]
  BY DEF Move, Basics, Typed
<1>2. web' # None /\ web'.op = "move" /\ web'.path = p /\ web'.dest = q
  BY ServingSets DEF Move, Ops
<1>3. \A c \in calls : \E d \in calls' :
          d.path = c.path /\ d.at = IF c.at = p THEN q ELSE c.at
  BY <1>1, Displaced DEF Basics
<1>4. \A r \in Paths \ {p} : Called(r) => Called(r)'
  BY <1>3 DEF Called
<1>5. Called(p) => Called(p)' \/ Called(q)'
  BY <1>3 DEF Called
<1>6. Stirred(q)'
  BY <1>2 DEF Stirred, Delivers
<1>7. ~Stirred(p)' => ~Called(p)' /\ ~Called(q)'
  <2>1. Serves({"move"}, p)'
    BY <1>2 DEF Serves
  <2>2. Called(web.dest)' <=> Called(q)'
    BY <1>2 DEF Called
  <2> QED
    BY <2>1, <2>2 DEF Stirred
<1>8. ~Stirred(p)' => ~Stirred(p) /\ Home(p)' = Home(p)
  BY <1>1, <1>2, <1>5, <1>7 DEF Stirred, Home, Serves, Delivers
<1>9. \A r \in Paths \ {p, q} : ~Stirred(r)' => ~Stirred(r) /\ Home(r)' = Home(r)
  BY <1>1, <1>2, <1>4 DEF Stirred, Home, Serves, Delivers
<1> QED
  BY <1>1, <1>6, <1>8, <1>9, SearchedStill DEF database, todos, history

(* The file of a deleted note had no rows; one that was uploaded again is a
   ghost. *)
LEMMA DeleteFileSearched ==
    ASSUME Basics, Searched, DeleteFile
    PROVE  Searched'
<1>1. PICK p \in Paths : web # None /\ web.op = "file" /\ web.path = p
  BY WebFields DEF DeleteFile, Handles
<1>2. /\ UNCHANGED <<format, database, work, lifecycle>> /\ web' = None
      /\ lost \subseteq lost' /\ ghosts \subseteq ghosts'
      /\ p \in lost' \/ note[p] = None \/ p \in ghosts'
      /\ Removed(p) \/ UNCHANGED <<file, calls>>
  BY <1>1 DEF DeleteFile
<1>3. \A r \in Paths \ {p} : /\ Called(r)' <=> Called(r)
                             /\ file'[r] = file[r]
  BY <1>2, RemovedTyped, DisplacedCalls DEF Called
<1>4. \A r \in Paths \ {p} : ~Stirred(r)' => ~Stirred(r) /\ Home(r)' = Home(r)
  BY <1>1, <1>2, <1>3 DEF Stirred, Home, Serves, Delivers
<1>5. UNCHANGED <<jobs, index, work, tasks, missed, note>>
  BY <1>2 DEF database, todos
<1>6. Found(p)'
  <2>1. CASE p \in lost' \cup ghosts'
    BY <2>1 DEF Found
  <2>2. CASE p \notin lost' \cup ghosts'
    <3>1. JobsOf(p) = {}
      BY <1>2, <2>2 DEF Basics, JobsHaveNotes
    <3>2. JobsOf(p)' = {}
      BY <1>5, <3>1, JobsAreKept
    <3>3. ~Idle(p)'
      BY <3>2 DEF Idle, Latest
    <3>4. \A i \in Slots : AtWork(i, p)' => Orphaned(i)'
      BY <1>5, <3>1 DEF AtWork, Orphaned, JobsOf, Basics, WorkFits
    <3> QED
      BY <3>3, <3>4 DEF Found, Indexed, UnderWay
  <2> QED
    BY <2>1, <2>2
<1>7. \A r \in Paths \ {p} : Found(r)'
  BY <1>2, <1>4, <1>5, FoundStill DEF Basics, Searched
<1> QED
  BY <1>2, <1>5, <1>6, <1>7, ReadStill DEF Searched

(* What red ink has become is kept when the note is. *)
LEMMA ReadKept ==
    ASSUME NEW p \in Paths, Read(p), lost \subseteq lost',
           p \notin lost' =>
              /\ Idle(p)' => Idle(p)
              /\ index'[p] = index[p]
              /\ \A c \in Contents : tasks[c] > 0 => tasks'[c] > 0
              /\ missed \subseteq missed'
              /\ \A i \in Slots :
                    AtWork(i, p)' /\ ~Orphaned(i)' /\ work'[i].stage # "open" =>
                        work'[i] = work[i] /\ AtWork(i, p) /\ ~Orphaned(i)
    PROVE  Read(p)'
<1> SUFFICES ASSUME p \notin lost'
             PROVE  /\ Idle(p)' => Told(p)'
                    /\ \A i \in Slots : AtWork(i, p)' /\ ~Orphaned(i)' => Reads(i, p)'
  BY DEF Read
<1>1. Told(p) => Told(p)'
  BY DEF Told
<1>2. ASSUME NEW i \in Slots, AtWork(i, p)', ~Orphaned(i)'
      PROVE  Reads(i, p)'
  <2>1. CASE work'[i].stage = "open"
    BY <2>1 DEF Reads
  <2>2. CASE work'[i].stage # "open"
    <3>1. work'[i] = work[i] /\ index'[p] = index[p] /\ Reads(i, p)
      BY <1>2, <2>2 DEF Read
    <3> QED
      BY <1>1, <3>1 DEF Reads
  <2> QED
    BY <2>1, <2>2
<1> QED
  BY <1>1, <1>2 DEF Read

(* After a statement that queues, claims or skips, no more notes are idle. *)
LEMMA LessIdle ==
    ASSUME Typed, NEW ids, NEW s \in {"pending", "in_progress", "skipped"},
           jobs' = Update(ids, s), s = "skipped" => \E q \in Paths : ids = Latest(q)
    PROVE  /\ \A p \in Paths : Idle(p)' => Idle(p)
           /\ \A p \in Paths : \A k \in Nat : OthersDue(p, k) => OthersDue(p, k)'
<1>1. s \in JobStatuses \ {"deleted"}
  BY DEF JobStatuses
<1>2. /\ DOMAIN jobs' = DOMAIN jobs
      /\ \A k \in DOMAIN jobs :
            jobs'[k].status = IF k \in ids /\ jobs[k].status # "deleted"
                              THEN s ELSE jobs[k].status
  BY <1>1, UpdateSets
<1>3. \A p \in Paths : JobsOf(p)' = JobsOf(p) /\ Latest(p)' = Latest(p)
  BY <1>1, UpdateKeeps
<1>4. \A p \in Paths : /\ JobsOf(p) \subseteq DOMAIN jobs /\ Latest(p) \subseteq JobsOf(p)
                       /\ \A k \in JobsOf(p) : jobs[k].path = p /\ jobs[k].status # "deleted"
  BY DEF JobsOf, Latest
<1>5. \A k \in DOMAIN jobs : jobs'[k].status = "done" => jobs[k].status = "done"
  BY <1>2
<1>6. ASSUME NEW p \in Paths, NEW l \in Due(p)
      PROVE  l \in Due(p)' \/ (l \in Latest(p) /\ jobs'[l].status = "skipped")
  <2>1. l \in JobsOf(p) /\ l \in DOMAIN jobs /\ jobs[l].status \in {"pending", "in_progress"}
    BY <1>4 DEF Due, WithStatus
  <2>2. CASE l \in ids /\ s = "skipped"
    BY <1>2, <1>4, <2>1, <2>2 DEF Latest
  <2>3. CASE ~(l \in ids /\ s = "skipped")
    BY <1>2, <1>3, <2>1, <2>3 DEF Due, WithStatus
  <2> QED
    BY <2>2, <2>3
<1>7. ASSUME NEW p \in Paths, Idle(p)'
      PROVE  Idle(p)
  <2>1. Due(p)' = {} /\ Latest(p) # {}
    BY <1>3, <1>7 DEF Idle
  <2>2. \A k \in Latest(p) : jobs'[k].status = "done"
    BY <1>3, <1>7 DEF Idle, WithStatus
  <2>3. Latest(p) \subseteq WithStatus("done")
    BY <1>4, <1>5, <2>2 DEF WithStatus
  <2>4. Due(p) = {}
    BY <1>6, <2>1, <2>2
  <2> QED
    BY <2>1, <2>3, <2>4 DEF Idle
<1>8. ASSUME NEW p \in Paths, NEW k \in Nat, OthersDue(p, k)
      PROVE  OthersDue(p, k)'
  <2>1. CASE \E l \in Latest(p) : l # k /\ jobs[l].status # "done"
    BY <1>3, <1>4, <1>5, <2>1 DEF OthersDue
  <2>2. CASE Due(p) \ {k} # {}
    BY <1>3, <1>6, <2>2 DEF OthersDue
  <2> QED
    BY <1>8, <2>1, <2>2 DEF OthersDue
<1> QED
  BY <1>7, <1>8

(* A note can only become less idle by a job that is queued, claimed or
   skipped. *)
LEMMA SearchedStatus ==
    ASSUME Basics, Searched, NEW ids, NEW s \in {"pending", "in_progress", "skipped"},
           jobs' = Update(ids, s), s = "skipped" => \E q \in Paths : ids = Latest(q),
           UNCHANGED <<file, calls, note, index, work, web, tasks, missed, history>>
    PROVE  Searched'
<1> SUFFICES ASSUME NEW p \in Paths
             PROVE  Found(p)' /\ Read(p)'
  BY DEF Searched
<1>1. /\ Idle(p)' => Idle(p)
      /\ \A k \in Nat : OthersDue(p, k) => OthersDue(p, k)'
  BY LessIdle DEF Basics
<1>2. /\ Stirred(p)' <=> Stirred(p)
      /\ Home(p)' = Home(p)
  BY DEF Stirred, Home, Called, Serves, Delivers, history
<1>3. \A k \in DOMAIN jobs :
          /\ jobs'[k].path = jobs[k].path
          /\ jobs'[k].status = "deleted" <=> jobs[k].status = "deleted"
  BY UpdateSets DEF Basics, JobStatuses
<1>4. \A i \in Slots : AtWork(i, p)' => AtWork(i, p) /\ (Orphaned(i)' <=> Orphaned(i))
  BY <1>3 DEF AtWork, Orphaned, Basics, WorkFits
<1> QED
  BY <1>1, <1>2, <1>4, FoundKept, ReadKept DEF Searched, history, Basics

(* Skip, unskip, retry, the watchdog and a start. *)
LEMMA StatusActionSearched ==
    ASSUME Basics, Searched,
           \/ \E p \in Paths : Skip(p) \/ Unskip(p)
           \/ RetryAllFailed
           \/ \E k \in DOMAIN jobs : ReclaimStuckJobs(k)
           \/ \E i \in Slots : Start(i)
    PROVE  Searched'
<1>1. UNCHANGED <<file, calls, note, index, work, web, tasks, missed, history>>
  BY DEF Skip, Unskip, RetryAllFailed, ReclaimStuckJobs, Start, StartStop, JobsOnly, todos
<1>2. \/ \E ids : jobs' = Update(ids, "pending")
      \/ \E q \in Paths : jobs' = Update(Latest(q), "skipped")
  BY DEF Skip, Unskip, RetryAllFailed, ReclaimStuckJobs, Start
<1>3. ASSUME NEW ids, jobs' = Update(ids, "pending")
      PROVE  Searched'
  BY <1>1, <1>3, SearchedStatus
<1>4. ASSUME NEW q \in Paths, jobs' = Update(Latest(q), "skipped")
      PROVE  Searched'
  <2>1. PICK s \in {"pending", "in_progress", "skipped"} : s = "skipped"
    OBVIOUS
  <2>2. PICK ids : ids = Latest(q)
    OBVIOUS
  <2>3. jobs' = Update(ids, s) /\ (s = "skipped" => \E r \in Paths : ids = Latest(r))
    BY <1>4, <2>1, <2>2
  <2> QED
    BY <1>1, <2>3, SearchedStatus
<1> QED
  BY <1>2, <1>3, <1>4

-----------------------------------------------------------------------------
(* A file that is there and that nobody is about to move is the note's. *)
LEMMA HomeIsHere ==
    ASSUME NEW p \in Paths, ~Stirred(p), file[p] # None
    PROVE  Home(p) = file[p]
BY DEF Stirred, Home

(* The steps of a worker at its job: it is alone at its path, and its note is
   not idle. *)
LEMMA WorkerSearched ==
    ASSUME Basics, Manned, Searched, NEW i \in Slots, NEW q \in Paths,
           work[i] # None, work[i].path = q,
           work'[i] # None, work'[i].path = q, work'[i].job = work[i].job,
           \A j \in Slots \ {i} : work'[j] = work[j],
           UNCHANGED <<jobs, file, calls, web>>,
           lost \subseteq lost', ghosts \subseteq ghosts',
           \A r \in Paths : note[r] # None => note'[r] # None,
           \A r \in Paths \ {q} : index'[r] = index[r],
           \A c \in Contents : tasks[c] > 0 => tasks'[c] > 0,
           missed \subseteq missed',
           /\ q \notin lost' \cup ghosts' /\ ~Stirred(q)
           /\ work'[i].stage \notin {"open", "failed"}
           /\ work[i].stage \notin {"open", "failed"} => Fits(i, q)
           => Fits(i, q)',
           q \notin lost' /\ Reads(i, q) => Reads(i, q)'
    PROVE  Searched'
<1> SUFFICES ASSUME NEW p \in Paths
             PROVE  Found(p)' /\ Read(p)'
  BY DEF Searched
<1>1. /\ Idle(p)' <=> Idle(p)
      /\ \A k \in Nat : OthersDue(p, k) <=> OthersDue(p, k)'
  BY JobsAreKept
<1>2. \A j \in Slots : /\ AtWork(j, p)' <=> AtWork(j, p)
                       /\ Orphaned(j)' <=> Orphaned(j)
                       /\ work'[j].job = work[j].job
  <2> SUFFICES ASSUME NEW j \in Slots
               PROVE  /\ AtWork(j, p)' <=> AtWork(j, p)
                      /\ Orphaned(j)' <=> Orphaned(j)
                      /\ work'[j].job = work[j].job
    OBVIOUS
  <2>1. /\ work'[j] = None <=> work[j] = None
        /\ work'[j].path = work[j].path /\ work'[j].job = work[j].job
    BY <1>1
  <2> QED
    BY <2>1 DEF AtWork, Orphaned
<1>3. p \notin lost' \cup ghosts' => (~Stirred(p)' => ~Stirred(p) /\ Home(p)' = Home(p))
  <2>1. \A r \in Paths : Called(r)' <=> Called(r)
    BY DEF Called
  <2> QED
    BY <2>1, StirredStill
<1>4. CASE p # q
  <2>1. \A j \in Slots : AtWork(j, p)' => work'[j] = work[j]
    BY <1>4 DEF AtWork
  <2> QED
    BY <1>1, <1>2, <1>3, <1>4, <2>1, FoundKept, ReadKept DEF Searched, Basics
<1>5. CASE p = q
  <2>1. Found(p) /\ Read(p) /\ Alone(p)
    BY DEF Searched, Manned
  <2>2. AtWork(i, p)
    BY <1>5 DEF AtWork
  <2>3. p \notin lost' => /\ ~Idle(p)'
                          /\ \A j \in Slots : AtWork(j, p)' => j = i
    BY <1>1, <1>2, <2>1, <2>2, Busy DEF Alone
  <2>4. Read(p)'
    <3>1. p \notin lost' /\ ~Orphaned(i) => Reads(i, p)
      BY <2>1, <2>2 DEF Read
    <3> QED
      BY <1>2, <1>5, <2>3, <3>1 DEF Read
  <2>5. Found(p)'
    <3> SUFFICES ASSUME p \notin lost' \cup ghosts', ~Stirred(p)', ~Orphaned(i)',
                        work'[i].stage \notin {"open", "failed"},
                        ~OthersDue(p, work[i].job)
                 PROVE  Fits(i, p)'
      <4>1. work[i].job \in Nat
        BY WorkFields DEF Basics
      <4>2. OthersDue(p, work[i].job) => OthersDue(p, work[i].job)'
        BY <1>2, JobsAreKept DEF OthersDue
      <4> QED
        BY <2>3, <4>1, <4>2 DEF Found, Indexed, UnderWay
    <3>1. ~Stirred(p) /\ ~Orphaned(i)
      BY <1>2, <1>3
    <3>2. work[i].stage \notin {"open", "failed"} => Fits(i, p)
      BY <2>1, <2>2, <3>1 DEF Found, UnderWay
    <3> QED
      BY <1>5, <3>1, <3>2
  <2> QED
    BY <2>4, <2>5
<1> QED
  BY <1>4, <1>5

(* What a worker opens is the file, or the path is stirred. *)
LEMMA OpenSearched ==
    ASSUME Basics, Manned, Searched, NEW i \in Slots, Open(i)
    PROVE  Searched'
<1>1. PICK q \in Paths : work[i].path = q
  BY WorkFields DEF Open, Active, Basics
<1>2. UNCHANGED <<format, file, calls, database, lifecycle, web, history, bounds>>
  BY DEF Open
<1>3. UNCHANGED <<note, jobs, index, tasks, missed, lost, ghosts>>
  BY <1>2 DEF database, todos, history
<1>4. work'[i].stage \notin {"open", "failed"} =>
          /\ work'[i].stage = "dedup" /\ file[q] # None /\ work'[i].hash = file[q]
  <2>1. CASE file[q] = None
    BY <1>1, <2>1, GotoSets DEF Open, Active, Basics, Stages
  <2>2. CASE file[q] # None
    BY <1>1, <2>2, OpenSets DEF Basics
  <2> QED
    BY <2>1, <2>2
<1>5. work'[i].stage \in {"dedup", "failed"}
  <2>1. CASE file[q] = None
    BY <1>1, <2>1, GotoSets DEF Open, Active, Basics, Stages
  <2>2. CASE file[q] # None
    BY <1>1, <2>2, OpenSets DEF Basics
  <2> QED
    BY <2>1, <2>2
<1>6. Home(q)' = Home(q)
  BY <1>2 DEF Home, Serves
<1>7. /\ ~Stirred(q) /\ work'[i].stage \notin {"open", "failed"} => Fits(i, q)'
      /\ Reads(i, q)'
  BY <1>4, <1>5, <1>6, HomeIsHere DEF Fits, Reads
<1> QED
  BY <1>1, <1>2, <1>3, <1>7, GoesOnAt, WorkerSearched

(* The early exit: an index that does not hold the hash is recorded. *)
LEMMA DedupSearched ==
    ASSUME Basics, Manned, Searched, NEW i \in Slots, Dedup(i)
    PROVE  Searched'
<1>1. PICK q \in Paths : work[i].path = q
  BY WorkFields DEF Dedup, Active, Basics
<1>2. /\ UNCHANGED <<format, file, calls, note, jobs, index, vectors, tasks, raced,
                     lifecycle, web, ghosts, bounds>>
      /\ lost \subseteq lost' /\ missed \subseteq missed'
      /\ work[i] # None /\ work[i].stage = "dedup" /\ work[i].hash # None
  BY DEF Dedup, Active, Basics, WorkFits
<1>3. PICK s \in {"done", "parse"} :
          /\ Goto(i, s)
          /\ s = "done" => /\ index[q] = work[i].hash \/ q \in lost'
                           /\ tasks[work[i].hash] = 0 => work[i].hash \in missed'
  BY <1>1 DEF Dedup
<1>4. work'[i].stage = s /\ work'[i].hash = work[i].hash
  BY <1>2, <1>3, GotoSets DEF Stages, Basics
<1>5. Home(q)' = Home(q) /\ index' = index
  BY <1>2 DEF Home, Serves
<1>6. q \notin lost' => Reads(i, q)'
  <2> SUFFICES ASSUME q \notin lost', s = "done"
               PROVE  Told(q)'
    BY <1>4 DEF Reads
  <2>1. index[q] = work[i].hash /\ index[q] # None
    BY <1>2, <1>3
  <2>2. index[q] \in Contents => tasks[index[q]] \in Nat
    BY DEF Basics, Typed
  <2> QED
    BY <1>2, <1>3, <2>1, <2>2 DEF Told
<1>7. q \notin lost' /\ Fits(i, q) => Fits(i, q)'
  BY <1>3, <1>4, <1>5 DEF Fits
<1> QED
  BY <1>1, <1>2, <1>6, <1>7, GoesOnAt, WorkerSearched

(* A file that is parsed is whole. *)
LEMMA ParseSearched ==
    ASSUME Basics, Manned, Searched, NEW i \in Slots, Parse(i)
    PROVE  Searched'
<1>1. PICK q \in Paths : work[i].path = q
  BY WorkFields DEF Parse, Active, Basics
<1>2. /\ UNCHANGED <<format, todos, file, calls, jobs, index, vectors, lifecycle, web,
                     lost, bounds>>
      /\ ghosts \subseteq ghosts'
      /\ work[i] # None /\ work[i].stage = "parse" /\ work[i].hash # None
  BY DEF Parse, Haunted, Active, Basics, WorkFits
<1>3. PICK s \in {"failed", "clear"} : Goto(i, s)
  BY DEF Parse
<1>4. work'[i].stage = s /\ work'[i].hash = work[i].hash
  BY <1>2, <1>3, GotoSets DEF Stages, Basics
<1>5. \A r \in Paths : note[r] # None => note'[r] # None
  BY <1>2 DEF Parse, Basics, Typed
<1>6. Home(q)' = Home(q) /\ index' = index
  BY <1>2 DEF Home, Serves
<1>7. Reads(i, q)' /\ (Fits(i, q) => Fits(i, q)')
  BY <1>4, <1>6 DEF Fits, Reads
<1> QED
  BY <1>1, <1>2, <1>5, <1>7, GoesOnAt, WorkerSearched DEF todos

(* The index is cleared under a note that is not idle. *)
LEMMA ClearIndexSearched ==
    ASSUME Basics, Manned, Searched, NEW i \in Slots, ClearIndex(i)
    PROVE  Searched'
<1>1. PICK q \in Paths : work[i].path = q
  BY WorkFields DEF ClearIndex, Active, Basics
<1>2. /\ UNCHANGED <<format, todos, file, calls, note, jobs, vectors, lifecycle, web,
                     ghosts>>
      /\ work[i] # None /\ work[i].stage = "clear" /\ Goto(i, "pages")
      /\ index' = [index EXCEPT ![q] = None] \/ (UNCHANGED index /\ q \in lost')
      /\ lost \subseteq lost'
  BY <1>1 DEF ClearIndex, Active
<1>3. work'[i].stage = "pages" /\ work'[i].hash = work[i].hash
  BY <1>2, GotoSets DEF Stages, Basics
<1>4. Home(q)' = Home(q) /\ \A r \in Paths \ {q} : index'[r] = index[r]
  BY <1>2 DEF Home, Serves, Basics, Typed
<1>5. Reads(i, q)' /\ (Fits(i, q) => Fits(i, q)')
  BY <1>3, <1>4 DEF Fits, Reads
<1> QED
  BY <1>1, <1>2, <1>4, <1>5, GoesOnAt, WorkerSearched DEF todos

(* What a job makes pages from is the note's file. *)
LEMMA SourceIsHome ==
    ASSUME Typed, NEW i \in Slots, NEW q \in Paths, work[i] # None, work[i].path = q,
           ~Stirred(q), work[i].hash = Home(q), Source(i) # None
    PROVE  Source(i) = Home(q)
<1>1. CASE format = "pdf"
  BY <1>1, SourceIs, HomeIsHere
<1>2. CASE format # "pdf"
  BY <1>2, SourceIs
<1> QED
  BY <1>1, <1>2

(* The first pages are those of the file. *)
LEMMA IndexPagesSearched ==
    ASSUME Basics, Manned, Searched, NEW i \in Slots, IndexPages(i)
    PROVE  Searched'
<1>1. PICK q \in Paths : work[i].path = q
  BY WorkFields DEF IndexPages, Active, Basics
<1>2. /\ UNCHANGED <<format, todos, file, calls, note, jobs, lifecycle, web, lost, bounds>>
      /\ ghosts \subseteq ghosts'
      /\ work[i] # None /\ work[i].stage = "pages"
  BY DEF IndexPages, Haunted, Active
<1>3. Home(q)' = Home(q) /\ \A r \in Paths \ {q} : index'[r] = index[r]
  BY <1>1, <1>2 DEF Home, Serves, Basics, Typed, IndexPages
<1>4. CASE Source(i) \in {None, Partial}
  <2>1. work'[i].stage = "failed"
    BY <1>2, <1>4, GotoSets DEF IndexPages, Stages, Basics
  <2>2. Reads(i, q)'
    BY <2>1 DEF Reads
  <2> QED
    BY <1>1, <1>2, <1>3, <2>1, <2>2, GoesOnAt, WorkerSearched DEF todos
<1>5. CASE Source(i) \notin {None, Partial}
  <2>1. /\ work'[i].stage = "rest" /\ work'[i].hash = work[i].hash
        /\ work'[i].body = Source(i)
    BY <1>5, PagesSet DEF Basics
  <2>2. index'[q] = Partial
    BY <1>1, <1>5 DEF IndexPages, Basics, Typed
  <2>3. Reads(i, q)'
    BY <2>1 DEF Reads
  <2>4. ~Stirred(q) /\ Fits(i, q) => Fits(i, q)'
    BY <1>1, <1>2, <1>3, <1>5, <2>1, <2>2, SourceIsHome DEF Fits, Basics
  <2> QED
    BY <1>1, <1>2, <1>3, <2>3, <2>4, GoesOnAt, WorkerSearched DEF todos
<1> QED
  BY <1>4, <1>5

(* And so are the others: then the index is as the file is. *)
LEMMA IndexRestSearched ==
    ASSUME Basics, Manned, Searched, NEW i \in Slots, IndexRest(i)
    PROVE  Searched'
<1>1. PICK q \in Paths : work[i].path = q
  BY WorkFields DEF IndexRest, Active, Basics
<1>2. /\ UNCHANGED <<format, todos, file, calls, note, jobs, lifecycle, web, lost, bounds>>
      /\ ghosts \subseteq ghosts'
      /\ work[i] # None /\ work[i].stage = "rest"
  BY DEF IndexRest, Haunted, Active
<1>3. Home(q)' = Home(q) /\ \A r \in Paths \ {q} : index'[r] = index[r]
  BY <1>1, <1>2 DEF Home, Serves, Basics, Typed, IndexRest
<1>4. CASE Source(i) \in {None, Partial}
  <2>1. work'[i].stage = "failed"
    BY <1>2, <1>4, GotoSets DEF IndexRest, Stages, Basics
  <2>2. Reads(i, q)'
    BY <2>1 DEF Reads
  <2> QED
    BY <1>1, <1>2, <1>3, <2>1, <2>2, GoesOnAt, WorkerSearched DEF todos
<1>5. CASE Source(i) \notin {None, Partial}
  <2>1. /\ work'[i].stage = "todos" /\ work'[i].hash = work[i].hash
        /\ work'[i].body = work[i].body
    BY <1>2, <1>5, GotoSets DEF IndexRest, Stages, Basics
  <2>2. index'[q] = IF index[q] = Partial /\ Source(i) = work[i].body
                    THEN Source(i) ELSE Partial
    BY <1>1, <1>5 DEF IndexRest, Basics, Typed
  <2>3. Reads(i, q)'
    BY <1>5, <2>1, <2>2, NoneIsApart DEF Reads
  <2>4. ~Stirred(q) /\ Fits(i, q) => Fits(i, q)'
    BY <1>1, <1>2, <1>3, <1>5, <2>1, <2>2, SourceIsHome DEF Fits, Basics
  <2> QED
    BY <1>1, <1>2, <1>3, <2>3, <2>4, GoesOnAt, WorkerSearched DEF todos
<1> QED
  BY <1>4, <1>5

(* The pass over red ink: a task there is, a task made, or what was missed is
   recorded. *)
LEMMA TodosSearched ==
    ASSUME Basics, Manned, Searched, NEW i \in Slots,
           FindTodos(i) \/ CreateTask(i) \/ FailTodos(i)
    PROVE  Searched'
<1>1. PICK q \in Paths : work[i].path = q
  BY WorkFields DEF FindTodos, CreateTask, FailTodos, Active, Basics
<1>2. /\ UNCHANGED <<format, file, calls, note, jobs, index, vectors, lifecycle, web, history>>
      /\ missed \subseteq missed'
      /\ work[i] # None /\ work[i].stage \in {"todos", "create"} /\ work[i].body \in Contents
  BY DEF FindTodos, CreateTask, FailTodos, Active, Basics, WorkFits
<1>3. PICK s \in {"create", "done"} :
          /\ Goto(i, s)
          /\ s = "done" => tasks'[work[i].body] > 0 \/ work[i].body \in missed'
  <2>1. tasks[work[i].body] \in Nat
    BY <1>2 DEF Basics, Typed
  <2>2. CASE FindTodos(i)
    BY <1>1, <2>1, <2>2 DEF FindTodos
  <2>3. CASE CreateTask(i)
    BY <1>2, <2>1, <2>3 DEF CreateTask, Basics, Typed
  <2>4. CASE FailTodos(i)
    BY <2>4 DEF FailTodos
  <2> QED
    BY <2>2, <2>3, <2>4
<1>4. /\ work'[i].stage = s /\ work'[i].hash = work[i].hash
      /\ work'[i].body = work[i].body
  BY <1>2, <1>3, GotoSets DEF Stages, Basics
<1>5. \A c \in Contents : tasks[c] > 0 => tasks'[c] > 0
  BY <1>2 DEF FindTodos, CreateTask, FailTodos, Basics, Typed
<1>6. Home(q)' = Home(q) /\ index' = index
  BY <1>2 DEF Home, Serves
<1>7. Reads(i, q) => Reads(i, q)'
  BY <1>2, <1>3, <1>4, <1>6 DEF Reads, Told
<1>8. Fits(i, q) => Fits(i, q)'
  BY <1>2, <1>4, <1>6 DEF Fits
<1>9. UNCHANGED <<lost, ghosts, note>>
  BY <1>2 DEF history
<1> QED
  BY <1>1, <1>2, <1>5, <1>6, <1>7, <1>8, <1>9, GoesOnAt, WorkerSearched

(* A worker that fails claims nothing. *)
LEMMA FailPageSearched ==
    ASSUME Basics, Manned, Searched, NEW i \in Slots, FailPage(i)
    PROVE  Searched'
<1>1. PICK q \in Paths : work[i].path = q
  BY WorkFields DEF FailPage, Active, Basics
<1>2. /\ UNCHANGED <<format, file, calls, database, lifecycle, web, history>>
      /\ work[i] # None /\ Goto(i, "failed")
  BY DEF FailPage, Active
<1>3. work'[i].stage = "failed"
  BY <1>2, GotoSets DEF Stages, Basics
<1>4. Reads(i, q)'
  BY <1>3 DEF Reads
<1>5. UNCHANGED <<note, jobs, index, tasks, missed, lost, ghosts>>
  BY <1>2 DEF database, todos, history
<1> QED
  BY <1>1, <1>2, <1>3, <1>4, <1>5, GoesOnAt, WorkerSearched

(* A claim leaves a note no more idle, and its worker has read nothing. *)
LEMMA ClaimSearched ==
    ASSUME Basics, Manned, Searched, NEW i \in Slots, NEW k \in DOMAIN jobs,
           ClaimNextJob(i, k)
    PROVE  Searched'
<1> SUFFICES ASSUME NEW p \in Paths
             PROVE  Found(p)' /\ Read(p)'
  BY DEF Searched
<1>1. /\ UNCHANGED <<format, todos, file, calls, note, index, vectors, lifecycle, web,
                     ghosts, bounds>>
      /\ lost \subseteq lost' /\ jobs' = Update({k}, "in_progress") /\ work[i] = None
  BY DEF ClaimNextJob
<1>2. /\ work'[i].stage = "open"
      /\ \A j \in Slots \ {i} : work'[j] = work[j]
  BY ClaimSets DEF Basics
<1>3. /\ Idle(p)' => Idle(p)
      /\ \A l \in Nat : OthersDue(p, l) => OthersDue(p, l)'
  BY <1>1, LessIdle DEF Basics
<1>4. p \notin lost' \cup ghosts' => (~Stirred(p)' => ~Stirred(p) /\ Home(p)' = Home(p))
  <2>1. \A r \in Paths : Called(r)' <=> Called(r)
    BY <1>1 DEF Called
  <2> QED
    BY <1>1, <2>1, StirredStill
<1>5. \A l \in DOMAIN jobs :
          /\ jobs'[l].path = jobs[l].path
          /\ jobs'[l].status = "deleted" <=> jobs[l].status = "deleted"
  BY <1>1, UpdateSets DEF Basics, JobStatuses
<1>6. \A j \in Slots : AtWork(j, p)' /\ work'[j].stage # "open" =>
          work'[j] = work[j] /\ AtWork(j, p) /\ (Orphaned(j)' <=> Orphaned(j))
  BY <1>2, <1>5 DEF AtWork, Orphaned, Basics, WorkFits
<1> QED
  BY <1>1, <1>3, <1>4, <1>6, FoundKept, ReadKept DEF Searched, Basics, todos

(* A job that ends: its note is idle when no other is due, and then as its
   worker left it. *)
LEMMA FinishSearched ==
    ASSUME Basics, Manned, Searched, NEW i \in Slots, NEW s \in {"done", "failed"},
           Finish(i, s)
    PROVE  Searched'
<1> SUFFICES ASSUME NEW p \in Paths, p \notin lost'
             PROVE  Found(p)' /\ Read(p)'
  BY DEF Searched, Found, Read
<1>1. /\ UNCHANGED <<format, todos, file, calls, note, index, vectors, lifecycle, web,
                     ghosts, bounds>>
      /\ lost \subseteq lost' /\ work[i] # None /\ work[i].stage = s
      /\ jobs' = Update({work[i].job}, s)
  BY DEF Finish, Active
<1>2. work'[i] = None /\ \A j \in Slots \ {i} : work'[j] = work[j]
  BY DEF Finish, Basics, Typed
<1>3. s \in JobStatuses /\ s \in JobStatuses \ {"deleted"}
  BY DEF JobStatuses
<1>4. PICK k \in DOMAIN jobs : k = work[i].job
  BY <1>1 DEF Basics, WorkFits
<1>5. \A l \in DOMAIN jobs :
          /\ jobs'[l].path = jobs[l].path
          /\ jobs'[l].status = IF l \in {k} /\ jobs[l].status # "deleted"
                               THEN s ELSE jobs[l].status
  BY <1>1, <1>3, <1>4, UpdateSets DEF Basics
<1>6. /\ JobsOf(p)' = JobsOf(p) /\ Latest(p)' = Latest(p)
      /\ JobsOf(p) \subseteq DOMAIN jobs /\ Latest(p) \subseteq JobsOf(p)
      /\ DOMAIN jobs' = DOMAIN jobs
  BY <1>1, <1>3, UpdateKeeps, UpdateSets DEF Basics, JobsOf, Latest
<1>7. /\ p \notin lost
      /\ p \in {work[i].path, jobs[k].path} => p = work[i].path /\ p = jobs[k].path
      /\ p = work[i].path /\ s = "failed" => Latest(p) \cap WithStatus("done") = {}
  BY <1>4 DEF Finish
<1>8. ~Stirred(p)' => ~Stirred(p) /\ Home(p)' = Home(p)
  <2>1. p \in ghosts' => p \in ghosts
    BY <1>1
  <2>2. \A r \in Paths : Called(r)' <=> Called(r)
    BY <1>1 DEF Called
  <2>3. Home(p)' = Home(p)
    BY <1>1 DEF Home, Serves
  <2>4. Stirred(p) => Stirred(p)'
    <3>1. \A r \in lost \cup ghosts : r \in lost' \cup ghosts'
      BY <1>1
    <3> QED
      BY <1>1, <3>1 DEF Stirred, Called, Serves, Delivers
  <2> QED
    BY <2>3, <2>4
<1>9. CASE p # work[i].path
  <2>1. \A l \in JobsOf(p) : jobs'[l].status = jobs[l].status
    BY <1>5, <1>6, <1>7, <1>9 DEF JobsOf
  <2>2. Due(p)' = Due(p)
    BY <1>6, <2>1 DEF Due, WithStatus
  <2>3. Idle(p)' <=> Idle(p)
    BY <1>6, <2>1, <2>2 DEF Idle, WithStatus
  <2>4. \A l \in Nat : OthersDue(p, l) => OthersDue(p, l)'
    BY <1>6, <2>1, <2>2 DEF OthersDue
  <2>5. \A j \in Slots : AtWork(j, p)' => work'[j] = work[j] /\ AtWork(j, p)
    BY <1>2 DEF AtWork
  <2>6. \A j \in Slots : AtWork(j, p)' => (Orphaned(j)' <=> Orphaned(j))
    <3> SUFFICES ASSUME NEW j \in Slots, AtWork(j, p)'
                 PROVE  Orphaned(j)' <=> Orphaned(j)
      OBVIOUS
    <3>1. work'[j] = work[j] /\ work[j].job \in DOMAIN jobs
      BY <2>5 DEF AtWork, Basics, WorkFits
    <3>2. jobs'[work[j].job].path = jobs[work[j].job].path
      BY <1>5, <3>1
    <3>3. jobs'[work[j].job].status = "deleted" <=> jobs[work[j].job].status = "deleted"
      BY <1>3, <1>5, <3>1
    <3> QED
      BY <3>1, <3>2, <3>3 DEF Orphaned
  <2> QED
    BY <1>1, <1>8, <2>3, <2>4, <2>5, <2>6, FoundKept, ReadKept DEF Searched, Basics, todos
<1>10. CASE p = work[i].path
  <2>1. Alone(p) /\ Found(p) /\ Read(p) /\ AtWork(i, p)
    BY <1>1, <1>10 DEF Manned, Searched, AtWork
  <2>2. \A j \in Slots : ~AtWork(j, p)'
    BY <1>2, <1>7, <2>1 DEF Alone, AtWork
  <2>3. ~Idle(p)
    BY <1>7, <2>1, Busy
  <2>4. ASSUME Idle(p)'
        PROVE  /\ s = "done" /\ ~Orphaned(i) /\ ~OthersDue(p, work[i].job)
    <3>1. \A l \in Latest(p) : jobs'[l].status = "done"
      BY <1>6, <2>4 DEF Idle, WithStatus
    <3>2. \A l \in JobsOf(p) : jobs'[l].status \notin {"pending", "in_progress"}
      BY <1>6, <2>4 DEF Idle, Due, WithStatus
    <3>3. Latest(p) # {}
      BY <1>6, <2>4 DEF Idle
    <3>4. jobs[k].status # "deleted"
      <4> SUFFICES ASSUME jobs[k].status = "deleted"
                   PROVE  FALSE
        OBVIOUS
      <4>1. \A l \in DOMAIN jobs : jobs'[l].status = jobs[l].status
        BY <1>5
      <4>2. Idle(p)
        BY <1>6, <3>1, <3>2, <3>3, <4>1 DEF Idle, Due, WithStatus
      <4> QED
        BY <2>3, <4>2
    <3>5. ~Orphaned(i)
      BY <1>4, <1>7, <1>10, <3>4 DEF Orphaned
    <3>6. s # "failed"
      <4> SUFFICES ASSUME s = "failed"
                   PROVE  FALSE
        OBVIOUS
      <4>1. \A l \in Latest(p) : jobs[l].status # "done"
        BY <1>6, <1>7, <1>10 DEF WithStatus
      <4>2. \A l \in Latest(p) : jobs'[l].status # "done"
        BY <1>5, <1>6, <4>1
      <4> QED
        BY <3>1, <3>3, <4>2
    <3>7. \A l \in DOMAIN jobs : l # k => jobs'[l].status = jobs[l].status
      BY <1>5
    <3>8. ~OthersDue(p, k)
      BY <1>6, <3>1, <3>2, <3>7 DEF OthersDue, Due, WithStatus
    <3> QED
      BY <1>4, <3>5, <3>6, <3>8
  <2>5. Indexed(p)' \/ p \in ghosts'
    <3> SUFFICES ASSUME Idle(p)', ~Stirred(p)', p \notin ghosts'
                 PROVE  index'[p] = Home(p)'
      BY DEF Indexed
    <3>1. Fits(i, p)
      BY <1>1, <1>7, <1>8, <2>1, <2>4 DEF Found, UnderWay
    <3> QED
      BY <1>1, <1>8, <2>4, <3>1 DEF Fits
  <2>6. Idle(p)' => Told(p)'
    <3> SUFFICES ASSUME Idle(p)'
                 PROVE  Told(p)'
      OBVIOUS
    <3>1. Told(p)
      BY <1>1, <1>7, <2>1, <2>4 DEF Read, Reads
    <3> QED
      BY <1>1, <3>1 DEF Told, todos
  <2> QED
    BY <2>2, <2>5, <2>6 DEF Found, UnderWay, Read
<1> QED
  BY <1>9, <1>10

(* What a new process cuts off is recorded. *)
LEMMA BootSearched ==
    ASSUME Basics, Searched, Boot
    PROVE  Searched'
<1> SUFFICES ASSUME NEW p \in Paths
             PROVE  Found(p)' /\ Read(p)'
  BY DEF Searched
<1>1. /\ calls' = {} /\ web' = None /\ UNCHANGED <<todos, file, note, index>>
      /\ jobs' = Update(WithStatus("in_progress"), "pending")
      /\ \A i \in Slots : work'[i] = None
  BY DEF Boot
<1>5. \A c \in calls : {c.path, c.at} \ {None} \subseteq lost'
  <2>1. TAKE c \in calls
  <2> DEFINE cut == UNION {{d.path, d.at} : d \in calls}
  <2>2. {c.path, c.at} \subseteq cut
    OBVIOUS
  <2>3. cut \ {None} \subseteq lost'
    BY DEF Boot
  <2> HIDE DEF cut
  <2> QED
    BY <2>2, <2>3
<1>6. /\ web # None => {web.path, web.dest} \subseteq lost'
      /\ lost \subseteq lost' /\ ghosts \subseteq ghosts'
  BY DEF Boot
<1>2. /\ Idle(p)' => Idle(p)
      /\ \A k \in Nat : OthersDue(p, k) => OthersDue(p, k)'
  BY <1>1, LessIdle DEF Basics
<1>3. \A i \in Slots : ~AtWork(i, p)'
  BY <1>1 DEF AtWork
<1>4. ASSUME p \notin lost' \cup ghosts'
      PROVE  ~Stirred(p) /\ Home(p)' = Home(p)
  <2>1. \A c \in calls : p # c.path /\ p # c.at
    BY <1>5, <1>4, NoneIsApart
  <2>2. web # None => p # web.path /\ p # web.dest
    BY <1>6, <1>4
  <2> QED
    BY <1>1, <2>1, <2>2 DEF Stirred, Called, Home, Serves, Delivers
<1> QED
  BY <1>1, <1>2, <1>3, <1>4, <1>6, FoundKept, ReadKept DEF Searched, Basics, todos

(* A worker that cannot write the end of its job leaves. *)
LEMMA FailFinishSearched ==
    ASSUME Basics, Searched, NEW i \in Slots, FailFinish(i)
    PROVE  Searched'
<1> SUFFICES ASSUME NEW p \in Paths
             PROVE  Found(p)' /\ Read(p)'
  BY DEF Searched
<1>1. /\ work' = [work EXCEPT ![i] = None]
      /\ UNCHANGED <<jobs, todos, file, calls, note, index, web, history>>
  BY DEF FailFinish, database
<1>2. \A j \in Slots : AtWork(j, p)' =>
          work'[j] = work[j] /\ AtWork(j, p) /\ (Orphaned(j)' <=> Orphaned(j))
  BY <1>1 DEF AtWork, Orphaned, Basics, Typed
<1>3. /\ Idle(p)' <=> Idle(p)
      /\ \A k \in Nat : OthersDue(p, k) => OthersDue(p, k)'
  BY <1>1, JobsAreKept
<1>4. /\ Stirred(p)' <=> Stirred(p)
      /\ Home(p)' = Home(p)
  BY <1>1 DEF Stirred, Home, Called, Serves, Delivers, history
<1> QED
  BY <1>1, <1>2, <1>3, <1>4, FoundKept, ReadKept
     DEF Searched, Basics, Typed, todos, history

(* A loop ends, or the process with it. *)
LEMMA QuitSearched ==
    ASSUME Basics, Searched, NEW i \in Slots, Quit(i)
    PROVE  Searched'
<1>1. CASE closed
  BY <1>1, BootSearched DEF Quit
<1>2. CASE ~closed
  <2> SUFFICES ASSUME NEW p \in Paths
               PROVE  Found(p)' /\ Read(p)'
    BY DEF Searched
  <2>1. /\ work' = [work EXCEPT ![i] = None]
        /\ UNCHANGED <<jobs, format, todos, file, calls, note, index, vectors, web, history>>
    BY <1>2 DEF Quit, StartStop
  <2>2. \A j \in Slots : AtWork(j, p)' =>
            work'[j] = work[j] /\ AtWork(j, p) /\ (Orphaned(j)' <=> Orphaned(j))
    BY <2>1 DEF AtWork, Orphaned, Basics, Typed
  <2>3. /\ Idle(p)' <=> Idle(p)
        /\ \A k \in Nat : OthersDue(p, k) => OthersDue(p, k)'
    BY <2>1, JobsAreKept
  <2>4. /\ Stirred(p)' <=> Stirred(p)
        /\ Home(p)' = Home(p)
    BY <2>1 DEF Stirred, Home, Called, Serves, Delivers, history
  <2> QED
    BY <2>1, <2>2, <2>3, <2>4, FoundKept, ReadKept
       DEF Searched, Basics, Typed, todos, history
<1> QED
  BY <1>1, <1>2

(* A queued job makes its note less idle; a lost one is recorded. *)
LEMMA InsertSearched ==
    ASSUME Basics, Searched, NEW c \in calls, InsertJob(c)
    PROVE  Searched'
<1>1. /\ UNCHANGED <<format, todos, file, note, index, vectors, work, lifecycle, web,
                     ghosts, bounds>>
      /\ lost \subseteq lost' /\ calls' = calls \ {c} /\ c.at = None
  BY DEF InsertJob, Basics, CallsFit, CallFits
<1>2. PICK q \in Paths : q = c.path
  BY CallFields DEF Basics
<1>3. \A r \in Paths \ {q} : Called(r)' <=> Called(r)
  BY <1>1, <1>2, NoneIsApart DEF Called
<1>4. CASE note[q] = None
  <2>1. q \in lost' /\ UNCHANGED jobs
    BY <1>2, <1>4 DEF InsertJob
  <2> QED
    BY <1>1, <1>3, <2>1, StirredStill, SearchedStill DEF todos
<1>5. CASE note[q] # None
  <2> SUFFICES ASSUME NEW p \in Paths
               PROVE  Found(p)' /\ Read(p)'
    BY DEF Searched
  <2>1. jobs' = Append(jobs, [path |-> q, status |-> "pending"]) /\ UNCHANGED lost
    BY <1>2, <1>5 DEF InsertJob
  <2>2. /\ \A k \in DOMAIN jobs : jobs'[k] = jobs[k]
        /\ jobs'[Len(jobs) + 1].status = "pending"
        /\ JobsOf(q)' = JobsOf(q) \cup {Len(jobs) + 1}
        /\ DOMAIN jobs' = 1 .. Len(jobs) + 1
        /\ p # q => JobsOf(p)' = JobsOf(p) /\ Latest(p)' = Latest(p)
    BY <2>1, QueuedRow DEF Basics
  <2>3. \A i \in Slots : /\ AtWork(i, p)' <=> AtWork(i, p)
                         /\ AtWork(i, p) => /\ work[i].job \in DOMAIN jobs
                                            /\ Orphaned(i)' <=> Orphaned(i)
    BY <1>1, <2>2 DEF AtWork, Orphaned, Basics, WorkFits
  <2>4. CASE p = q
    <3>1. Len(jobs) + 1 \in Due(p)'
      BY <2>2, <2>4, JobRows DEF Due, WithStatus, Basics
    <3>2. \A i \in Slots : AtWork(i, p) => OthersDue(p, work[i].job)'
      <4> SUFFICES ASSUME NEW i \in Slots, AtWork(i, p)
                   PROVE  OthersDue(p, work[i].job)'
        OBVIOUS
      <4>1. work[i].job # Len(jobs) + 1 /\ work'[i].job = work[i].job
        BY <1>1, <2>3, JobRows DEF Basics
      <4> QED
        BY <3>1, <4>1 DEF OthersDue
    <3>3. ~Idle(p)'
      BY <3>1 DEF Idle
    <3>4. Found(p)'
      BY <2>3, <3>2, <3>3 DEF Found, Indexed, UnderWay
    <3>5. Read(p)'
      BY <1>1, <2>1, <2>3, <3>3, ReadKept DEF Searched, todos
    <3> QED
      BY <3>4, <3>5
  <2>5. CASE p # q
    <3>1. JobsOf(p)' = JobsOf(p) /\ Latest(p)' = Latest(p) /\ Latest(p) \subseteq JobsOf(p)
          /\ JobsOf(p) \subseteq DOMAIN jobs
      BY <2>2, <2>5 DEF JobsOf, Latest
    <3>2. DOMAIN jobs \subseteq DOMAIN jobs'
      BY <2>2, JobRows DEF Basics
    <3>3. Due(p)' = Due(p)
      BY <2>2, <3>1, <3>2 DEF Due, WithStatus
    <3>4. Idle(p)' => Idle(p)
      BY <2>2, <3>1, <3>2, <3>3 DEF Idle, WithStatus
    <3>5. \A k \in Nat : OthersDue(p, k) => OthersDue(p, k)'
      BY <2>2, <3>1, <3>2, <3>3 DEF OthersDue
    <3>6. Home(p)' = Home(p)
      BY <1>1 DEF Home, Serves
    <3>7. Stirred(p) => Stirred(p)'
      <4>1. CASE Serves({"move"}, p) /\ web.dest = q
        <5>1. Serves({"move"}, p)' /\ note'[web'.dest] # None
          BY <1>1, <1>5, <4>1 DEF Serves
        <5>2. (Serves({"move"}, p) /\ note[web.dest] # None)'
          BY <5>1
        <5> QED
          BY <5>2 DEF Stirred
      <4>2. CASE ~(Serves({"move"}, p) /\ web.dest = q)
        <5>1. Serves({"move"}, p) => web.dest \in Paths \ {q}
          BY <4>2, WebFields DEF Serves
        <5>2. Called(p)' <=> Called(p)
          BY <1>3, <2>5
        <5>3. Serves({"move"}, p) => (Called(web.dest)' <=> Called(web.dest))
          BY <1>1, <1>3, <5>1 DEF Called
        <5> QED
          BY <1>1, <2>1, <5>2, <5>3 DEF Stirred, Serves, Delivers
      <4> QED
        BY <4>1, <4>2
    <3> QED
      BY <1>1, <2>1, <2>3, <3>4, <3>5, <3>6, <3>7, FoundKept, ReadKept
         DEF Searched, Basics, todos
  <2> QED
    BY <2>4, <2>5
<1> QED
  BY <1>4, <1>5

(* Of a note whose rows are gone there is nothing to find. *)
LEMMA NothingToFind ==
    ASSUME NEW p \in Paths, JobsOf(p)' = {},
           \A i \in Slots : AtWork(i, p)' => Orphaned(i)'
    PROVE  Found(p)' /\ Read(p)'
<1>1. ~Idle(p)'
  BY DEF Idle, Latest
<1> QED
  BY <1>1 DEF Found, Indexed, UnderWay, Read

(* Another's rows are gone or moved: the same is known of p. *)
LEMMA OtherRows ==
    ASSUME Basics, Searched, NEW p \in Paths, UNCHANGED <<work, tasks, missed>>,
           lost \subseteq lost', ghosts \subseteq ghosts',
           JobsOf(p)' = JobsOf(p), Latest(p)' = Latest(p), DOMAIN jobs' = DOMAIN jobs,
           \A k \in JobsOf(p) : jobs'[k].status = jobs[k].status,
           \A k \in DOMAIN jobs : jobs'[k].path = p /\ jobs'[k].status # "deleted" =>
               jobs[k].path = p /\ jobs[k].status # "deleted",
           index'[p] = index[p],
           p \notin lost' \cup ghosts' => (~Stirred(p)' => ~Stirred(p) /\ Home(p)' = Home(p))
    PROVE  Found(p)' /\ Read(p)'
<1>1. JobsOf(p) \subseteq DOMAIN jobs /\ Latest(p) \subseteq JobsOf(p)
  BY DEF JobsOf, Latest
<1>2. Due(p)' = Due(p)
  BY <1>1 DEF Due, WithStatus
<1>3. Idle(p)' <=> Idle(p)
  BY <1>1, <1>2 DEF Idle, WithStatus
<1>4. \A k \in Nat : OthersDue(p, k) => OthersDue(p, k)'
  BY <1>1, <1>2 DEF OthersDue
<1>5. \A i \in Slots : AtWork(i, p)' /\ ~Orphaned(i)' => AtWork(i, p) /\ ~Orphaned(i)
  <2> SUFFICES ASSUME NEW i \in Slots, AtWork(i, p)', ~Orphaned(i)'
               PROVE  AtWork(i, p) /\ ~Orphaned(i)
    OBVIOUS
  <2>1. AtWork(i, p) /\ work[i].job \in DOMAIN jobs /\ work'[i] = work[i]
    BY DEF AtWork, Basics, WorkFits
  <2> QED
    BY <2>1 DEF AtWork, Orphaned
<1> QED
  BY <1>3, <1>4, <1>5, FoundKept, ReadKept DEF Searched, Basics

(* The rows of one note go, no other is touched. *)
LEMMA DeleteSearched ==
    ASSUME Basics, Searched, NEW q \in Paths, DeleteRows(q),
           UNCHANGED <<work, tasks, missed>>,
           lost \subseteq lost', ghosts \subseteq ghosts',
           \A p \in Paths \ {q} :
               p \notin lost' \cup ghosts' =>
                   (~Stirred(p)' => ~Stirred(p) /\ Home(p)' = Home(p))
    PROVE  Searched'
<1> SUFFICES ASSUME NEW p \in Paths
             PROVE  Found(p)' /\ Read(p)'
  BY DEF Searched
<1>1. CASE p = q
  <2>1. \A i \in Slots : AtWork(i, p)' => Orphaned(i)'
    BY <1>1, DeletedRows DEF AtWork, Orphaned, Basics, WorkFits
  <2> QED
    BY <1>1, <2>1, DeletedRows, NothingToFind DEF Basics
<1>2. CASE p # q
  <2>1. \A k \in JobsOf(p) : k \in DOMAIN jobs /\ jobs[k].path = p
    BY DEF JobsOf
  <2> QED
    BY <1>2, <2>1, DeletedRows, DeletedTyped, OtherRows DEF Basics
<1> QED
  BY <1>1, <1>2

(* A deletion begins with the rows. *)
LEMMA DeleteNoteSearched ==
    ASSUME Basics, Searched, NEW q \in Paths, DeleteNote(q)
    PROVE  Searched'
<1>1. /\ DeleteRows(q) /\ web = None
      /\ UNCHANGED <<format, todos, file, calls, vectors, work, lifecycle, history>>
  BY DEF DeleteNote
<1>2. web'.op = "vectors"
  BY ServingSets DEF DeleteNote, Ops
<1>3. \A p \in Paths : ~Stirred(p)' => ~Stirred(p) /\ Home(p)' = Home(p)
  BY <1>1, <1>2 DEF Stirred, Home, Called, Serves, Delivers
<1> QED
  BY <1>1, <1>3, DeleteSearched DEF todos, history

(* A purge ends with them; a file put there meanwhile is recorded. *)
LEMMA PurgeRowsSearched ==
    ASSUME Basics, Searched, PurgeRows
    PROVE  Searched'
<1>1. PICK q \in Paths : web # None /\ web.op = "purge" /\ web.path = q
  BY WebFields DEF PurgeRows, Handles
<1>2. /\ web' = None /\ lost \subseteq lost' /\ ghosts \subseteq ghosts'
      /\ UNCHANGED <<format, todos, file, calls, vectors, work, lifecycle>>
      /\ DeleteRows(q) \/ (UNCHANGED <<note, jobs, index>> /\ q \in ghosts')
  BY <1>1 DEF PurgeRows
<1>3. \A p \in Paths \ {q} : ~Stirred(p)' => ~Stirred(p) /\ Home(p)' = Home(p)
  <2>1. CASE DeleteRows(q)
    BY <1>1, <1>2, <2>1 DEF Stirred, Home, Called, Serves, Delivers
  <2>2. CASE UNCHANGED <<note, jobs, index>>
    BY <1>1, <1>2, <2>2 DEF Stirred, Home, Called, Serves, Delivers
  <2> QED
    BY <1>2, <2>1, <2>2
<1>4. CASE DeleteRows(q)
  BY <1>2, <1>3, <1>4, DeleteSearched DEF todos
<1>5. CASE UNCHANGED <<note, jobs, index>> /\ q \in ghosts'
  BY <1>2, <1>3, <1>5, SearchedStill DEF todos
<1> QED
  BY <1>2, <1>4, <1>5

(* The rows of p are moved to q: what matters is what is known of q. *)
LEMMA MovedSearched ==
    ASSUME Basics, Searched, NEW p \in Paths, NEW q \in Paths, p # q, MoveRows(p, q),
           UNCHANGED <<work, tasks, missed>>,
           lost \subseteq lost', ghosts \subseteq ghosts',
           Found(q)', Read(q)',
           \A r \in Paths \ {p, q} :
               r \notin lost' \cup ghosts' =>
                   (~Stirred(r)' => ~Stirred(r) /\ Home(r)' = Home(r))
    PROVE  Searched'
<1> SUFFICES ASSUME NEW r \in Paths
             PROVE  Found(r)' /\ Read(r)'
  BY DEF Searched
<1>1. CASE r = p
  <2>1. \A i \in Slots : AtWork(i, r)' => Orphaned(i)'
    BY <1>1, MovedRows DEF AtWork, Orphaned, JobsOf, Basics, WorkFits
  <2> QED
    BY <1>1, <2>1, MovedRows, NothingToFind DEF Basics
<1>2. CASE r = q
  BY <1>2
<1>3. CASE r \notin {p, q}
  <2>1. \A k \in JobsOf(r) : k \in DOMAIN jobs /\ jobs[k].path = r
    BY DEF JobsOf
  <2>2. \A k \in DOMAIN jobs : /\ jobs'[k].status = jobs[k].status
                               /\ jobs'[k].path = IF k \in JobsOf(p) THEN q ELSE jobs[k].path
    BY MovedRows DEF Basics
  <2>3. JobsOf(r)' = JobsOf(r) /\ Latest(r)' = Latest(r) /\ DOMAIN jobs' = DOMAIN jobs
    BY <1>3, MovedRows DEF Basics
  <2>4. index'[r] = index[r]
    BY <1>3, MovedTyped
  <2> QED
    BY <1>3, <2>1, <2>2, <2>3, <2>4, OtherRows
<1> QED
  BY <1>1, <1>2, <1>3

(* Both paths of a migration are recorded. *)
LEMMA UpdateNotePathSearched ==
    ASSUME Basics, Searched, UpdateNotePath
    PROVE  Searched'
<1>1. PICK p \in Paths, q \in Paths :
          web # None /\ web.op = "migrate" /\ web.path = p /\ web.dest = q /\ p # q
  BY WebFields DEF UpdateNotePath, Handles
<1>2. /\ lost' = lost \cup {p, q} /\ web' = None /\ ghosts \subseteq ghosts'
      /\ UNCHANGED <<format, todos, vectors, work, lifecycle>>
  BY <1>1 DEF UpdateNotePath, Carried
<1>3. Found(q)' /\ Read(q)'
  BY <1>2 DEF Found, Read
<1>4. CASE Removed(q) /\ UNCHANGED <<note, jobs, index>>
  <2>2. \A r \in Paths \ {q} : /\ Called(r)' <=> Called(r)
                               /\ file'[r] = file[r]
    BY <1>4, RemovedTyped, DisplacedCalls
  <2>3. \A r \in Paths \ {p, q} : ~Stirred(r)' => ~Stirred(r) /\ Home(r)' = Home(r)
    BY <1>1, <1>2, <2>2 DEF Stirred, Home, Serves, Delivers
  <2> QED
    BY <1>2, <1>4, <2>3, SearchedStill DEF todos
<1>5. CASE MoveRows(p, q) /\ UNCHANGED <<file, calls>>
  <2>2. \A r \in Paths \ {p, q} : ~Stirred(r)' => ~Stirred(r) /\ Home(r)' = Home(r)
    BY <1>1, <1>2, <1>5 DEF Stirred, Home, Called, Serves, Delivers
  <2> QED
    BY <1>1, <1>2, <1>3, <1>5, <2>2, MovedSearched DEF todos
<1> QED
  BY <1>1, <1>4, <1>5 DEF UpdateNotePath

(* The rows of a moved note describe the file that went before them; if
   anything else was there meanwhile both paths are recorded. *)
LEMMA MoveNoteSearched ==
    ASSUME Basics, Manned, Searched, MoveNote
    PROVE  Searched'
<1>1. PICK p \in Paths, q \in Paths :
          web # None /\ web.op = "move" /\ web.path = p /\ web.dest = q /\ p # q
  BY WebFields DEF MoveNote, Handles
<1>2. /\ UNCHANGED <<format, todos, file, calls, vectors, work, lifecycle>>
      /\ lost \subseteq lost' /\ ghosts \subseteq ghosts'
  BY DEF MoveNote, Carried
<1>3. web' = None \/ (web' # None /\ web'.op = "rename")
  BY <1>1, ServingSets DEF MoveNote, Ops
<1>4. \A r \in Paths \ {p, q} : ~Stirred(r)' => ~Stirred(r) /\ Home(r)' = Home(r)
  BY <1>1, <1>2, <1>3 DEF Stirred, Home, Called, Serves, Delivers
<1> DEFINE moved ==
        /\ ~Conflict(p, q) /\ MoveRows(p, q)
        /\ lost' = IF \/ file[p] # None \/ note[p] = None
                      \/ \E c \in calls : c.path = p
                      \/ \E i \in Slots : AtWork(i, q)
                   THEN lost \cup {p, q} ELSE Carried(lost, p, q)
        /\ ghosts' = Carried(ghosts, p, q)
<1>7. moved \/ ({p, q} \subseteq lost' /\ UNCHANGED <<note, jobs, index>>)
  BY <1>1 DEF MoveNote
<1>5. CASE {p, q} \subseteq lost' /\ UNCHANGED <<note, jobs, index>>
  BY <1>2, <1>4, <1>5, SearchedStill DEF todos
<1>6. CASE moved
  <2>1. /\ MoveRows(p, q) /\ ~Conflict(p, q)
        /\ lost' = IF \/ file[p] # None \/ note[p] = None
                      \/ \E c \in calls : c.path = p
                      \/ \E i \in Slots : AtWork(i, q)
                   THEN lost \cup {p, q} ELSE Carried(lost, p, q)
        /\ ghosts' = Carried(ghosts, p, q)
    BY <1>6
  <2>2. CASE q \in lost'
    <3>1. Found(q)' /\ Read(q)'
      BY <2>2 DEF Found, Read
    <3> QED
      BY <1>1, <1>2, <1>4, <2>1, <3>1, MovedSearched DEF todos
  <2>3. CASE q \notin lost'
    <3>1. /\ file[p] = None /\ note[p] # None /\ \A c \in calls : c.path # p
          /\ \A i \in Slots : ~AtWork(i, q)
          /\ p \notin lost /\ q \notin lost
          /\ q \notin ghosts' => p \notin ghosts /\ q \notin ghosts
      BY <2>1, <2>3 DEF Carried
    <3>2. note[q] = None /\ JobsOf(q) = {}
      BY <2>1, <3>1 DEF Conflict, Basics, JobsHaveNotes
    <3>3. \A i \in Slots : ~AtWork(i, q)'
      BY <1>2, <3>1 DEF AtWork
    <3>4. /\ JobsOf(q)' = JobsOf(p)
          /\ \A k \in DOMAIN jobs : jobs'[k].status = jobs[k].status
          /\ DOMAIN jobs' = DOMAIN jobs
      <4>1. JobsOf(q)' = JobsOf(p) \cup JobsOf(q)
        BY <1>1, <2>1, MovedRows DEF Basics
      <4>2. \A k \in DOMAIN jobs : jobs'[k].status = jobs[k].status
        BY <1>1, <2>1, MovedRows DEF Basics
      <4>3. DOMAIN jobs' = DOMAIN jobs
        BY <1>1, <2>1, MovedRows DEF Basics
      <4> QED
        BY <3>2, <4>1, <4>2, <4>3
    <3>5. Latest(q)' = Latest(p) /\ Latest(p) \subseteq DOMAIN jobs
      BY <3>4 DEF Latest, JobsOf
    <3>6. Idle(q)' => Idle(p)
      BY <3>4, <3>5 DEF Idle, Due, WithStatus
    <3>7. Found(p) /\ Read(p)
      BY DEF Searched
    <3>8. Idle(q)' => index'[q] = index[p] /\ Told(p)
      <4>1. Idle(p) => Told(p)
        BY <3>1, <3>7 DEF Read
      <4> QED
        BY <1>1, <2>1, <3>6, <4>1, MovedTyped DEF Told
    <3>9. Read(q)'
      BY <1>2, <3>3, <3>8 DEF Read, Told, todos
    <3>10. q \notin ghosts' /\ ~Stirred(q)' => ~Stirred(p)
      <4> SUFFICES ASSUME q \notin ghosts', ~Stirred(q)'
                   PROVE  ~Stirred(p)
        OBVIOUS
      <4>1. ~Called(q)
        BY <1>2 DEF Stirred, Called
      <4>2. ~Called(p)
        BY <3>1, NoneIsApart DEF Called, Basics, CallsFit, CallFits
      <4> QED
        BY <1>1, <3>1, <3>2, <4>1, <4>2 DEF Stirred, Serves, Delivers
    <3>11. Found(q)'
      <4> SUFFICES ASSUME q \notin ghosts', Idle(q)', ~Stirred(q)'
                   PROVE  index'[q] = Home(q)'
        BY <3>3 DEF Found, Indexed, UnderWay
      <4>1. index[p] = Home(p)
        BY <3>1, <3>6, <3>7, <3>10 DEF Found, Indexed
      <4>2. Home(p) = file[q]
        BY <1>1 DEF Home, Serves
      <4>3. Home(q)' = file[q]
        BY <1>1, <1>2, <1>3 DEF Home, Serves
      <4> QED
        BY <3>8, <4>1, <4>2, <4>3
    <3> QED
      BY <1>1, <1>2, <1>4, <2>1, <3>9, <3>11, MovedSearched DEF todos
  <2> QED
    BY <2>2, <2>3
<1> QED
  BY <1>5, <1>6, <1>7

-----------------------------------------------------------------------------
(* Every step. *)

LEMMA BasicsStep ==
    ASSUME Basics, [Next]_vars
    PROVE  Basics'
<1>1. CASE UNCHANGED vars
  <2>1. Typed' /\ WorkFits' /\ WebFits'
    BY <1>1 DEF vars, database, lifecycle, bounds, todos, Basics, Typed, WorkFits, WebFits
  <2>2. CallsFit'
    BY <1>1 DEF vars, history, Basics, CallsFit, CallFits, Delivers
  <2>3. JobsHaveNotes'
    BY <1>1 DEF vars, database, Basics, JobsHaveNotes, JobsOf
  <2> QED
    BY <2>1, <2>2, <2>3 DEF Basics
<1>2. ASSUME NEW p \in Paths, NEW c \in 1 .. uploads + 1, Upload(p, c)
      PROVE  Basics'
  BY <1>2, UploadBasics
<1>3. CASE Answer \/ \E c \in calls : FailCall(c)
  BY <1>3, CloseBasics, CopyFileBasics, EnsureRowBasics, InsertJobBasics, FailCallBasics
     DEF Answer
<1>4. ASSUME NEW i \in Slots, Work(i) \/ FailPage(i) \/ FailTodos(i) \/ FailFinish(i)
      PROVE  Basics'
  BY <1>4, ClaimBasics, OpenBasics, DedupBasics, ParseBasics, ClearIndexBasics,
     IndexPagesBasics, IndexRestBasics, TodoBasics, FailPageBasics, FinishBasics,
     FailFinishBasics DEF Work
<1>5. CASE (\E k \in DOMAIN jobs : ReclaimStuckJobs(k)) \/ RetryAllFailed
  BY <1>5, StatusActionBasics
<1>6. ASSUME NEW p \in Paths,
             \/ Enqueue(p) \/ Skip(p) \/ Unskip(p) \/ DeleteNote(p) \/ Purge(p)
             \/ Import(p) \/ RemoveAll(p)
      PROVE  Basics'
  BY <1>6, EnqueueBasics, StatusActionBasics, DeleteNoteBasics, PurgeBasics, ImportBasics,
     RemoveAllBasics
<1>7. ASSUME NEW p \in Paths, NEW q \in Paths, Move(p, q) \/ Migrate(p, q) \/ Rename(p, q)
      PROVE  Basics'
  BY <1>7, MoveBasics, MigrateBasics, RenameBasics
<1>8. CASE Handle
  BY <1>8, DeleteVectorsBasics, DeleteFileBasics, PurgeRowsBasics, MoveNoteBasics,
     RenameVectorsBasics, UpdateNotePathBasics, EnqueueImportedBasics DEF Handle
<1>9. CASE StartReturns \/ Stop \/ Restart \/ \E i \in Slots : Start(i) \/ Quit(i)
  BY <1>9, StopBasics, RestartBasics, StartBasics, QuitBasics
<1> QED
  BY <1>1, <1>2, <1>3, <1>4, <1>5, <1>6, <1>7, <1>8, <1>9 DEF Next

(* Who works for what, whatever the step. *)
LEMMA MannedStep ==
    ASSUME Basics, Manned, [Next]_vars
    PROVE  Manned'
<1>0. lost \subseteq lost'
  BY HistoryGrows
<1>1. ASSUME UNCHANGED <<jobs, work>>
      PROVE  Manned'
  BY <1>0, <1>1, MannedKept
<1>2. CASE UNCHANGED vars
  BY <1>1, <1>2 DEF vars, database
<1>3. ASSUME NEW p \in Paths, NEW c \in 1 .. uploads + 1, Upload(p, c)
      PROVE  Manned'
  BY <1>1, <1>3 DEF database, Upload
<1>4. CASE Answer \/ \E c \in calls : FailCall(c)
  <2>1. ASSUME NEW c \in calls, Close(c) \/ CopyFile(c) \/ EnsureRow(c) \/ FailCall(c)
        PROVE  Manned'
    BY <1>1, <2>1 DEF database, Close, CopyFile, EnsureRow, FailCall
  <2> QED
    BY <1>4, <2>1, MannedInsert DEF Answer
<1>5. ASSUME NEW i \in Slots, Work(i) \/ FailPage(i) \/ FailTodos(i) \/ FailFinish(i)
      PROVE  Manned'
  <2>1. CASE \/ Open(i) \/ Dedup(i) \/ Parse(i) \/ ClearIndex(i) \/ IndexPages(i)
             \/ IndexRest(i) \/ FindTodos(i) \/ CreateTask(i) \/ FailTodos(i) \/ FailPage(i)
    BY <1>0, <2>1, GoesOnAt, MannedKept
  <2>2. CASE FailFinish(i)
    <3>1. UNCHANGED jobs /\ work' = [work EXCEPT ![i] = None]
      BY <2>2 DEF FailFinish, database
    <3>2. \A j \in Slots : work'[j] # None => work'[j] = work[j]
      BY <3>1 DEF Basics, Typed
    <3> QED
      BY <1>0, <3>1, <3>2, MannedKept
  <2> QED
    BY <1>5, <2>1, <2>2, MannedClaim, MannedFinish DEF Work
<1>6. CASE (\E k \in DOMAIN jobs : ReclaimStuckJobs(k)) \/ RetryAllFailed
           \/ (\E p \in Paths : Unskip(p)) \/ \E i \in Slots : Start(i)
  BY <1>0, <1>6, MannedQueued DEF ReclaimStuckJobs, RetryAllFailed, Unskip, JobsOnly, Start
<1>7. ASSUME NEW p \in Paths,
             \/ Enqueue(p) \/ Skip(p) \/ DeleteNote(p) \/ Purge(p)
             \/ Import(p) \/ RemoveAll(p)
      PROVE  Manned'
  <2>1. CASE Enqueue(p) \/ Purge(p) \/ Import(p) \/ RemoveAll(p)
    BY <1>1, <2>1 DEF Enqueue, Purge, Import, RemoveAll, database
  <2>2. CASE DeleteNote(p)
    BY <1>0, <2>2, MannedDelete DEF DeleteNote
  <2> QED
    BY <1>7, <2>1, <2>2, MannedSkip
<1>8. ASSUME NEW p \in Paths, NEW q \in Paths, Move(p, q) \/ Migrate(p, q) \/ Rename(p, q)
      PROVE  Manned'
  BY <1>1, <1>8 DEF Move, Migrate, Rename, database
<1>9. CASE Handle
  <2>1. CASE DeleteVectors \/ DeleteFile \/ RenameVectors \/ EnqueueImported
    BY <1>1, <2>1 DEF DeleteVectors, DeleteFile, RenameVectors, EnqueueImported,
                      database
  <2>2. CASE PurgeRows
    <3>1. UNCHANGED work /\ web.path \in Paths
      BY <2>2, WebFields DEF PurgeRows, Handles
    <3>2. CASE DeleteRows(web.path)
      BY <1>0, <3>1, <3>2, MannedDelete
    <3>3. CASE UNCHANGED jobs
      BY <1>1, <3>1, <3>3
    <3> QED
      BY <2>2, <3>2, <3>3 DEF PurgeRows
  <2>3. CASE MoveNote \/ UpdateNotePath
    <3> DEFINE p == web.path
               q == web.dest
    <3>1. p \in Paths /\ q \in Paths /\ p # q /\ UNCHANGED work
      BY <2>3, WebFields DEF MoveNote, UpdateNotePath, Handles
    <3>2. CASE UNCHANGED jobs
      BY <1>1, <3>1, <3>2
    <3>3. CASE MoveRows(p, q) /\ (q \in lost' \/ \A i \in Slots : ~AtWork(i, q))
      BY <1>0, <3>1, <3>3, MannedMove
    <3> QED
      BY <2>3, <3>2, <3>3 DEF MoveNote, UpdateNotePath
  <2> QED
    BY <1>9, <2>1, <2>2, <2>3 DEF Handle
<1>10. CASE StartReturns \/ Stop \/ Restart
  BY <1>1, <1>10, MannedBoot DEF StartReturns, Stop, Restart
<1>11. ASSUME NEW i \in Slots, Quit(i)
       PROVE  Manned'
  <2>1. CASE closed
    BY <1>11, <2>1, MannedBoot DEF Quit
  <2>2. CASE ~closed
    <3>1. UNCHANGED jobs /\ work' = [work EXCEPT ![i] = None]
      BY <1>11, <2>2 DEF Quit
    <3>2. \A j \in Slots : work'[j] # None => work'[j] = work[j]
      BY <3>1 DEF Basics, Typed
    <3> QED
      BY <1>0, <3>1, <3>2, MannedKept
  <2> QED
    BY <2>1, <2>2
<1> QED
  BY <1>2, <1>3, <1>4, <1>5, <1>6, <1>7, <1>8, <1>9, <1>10, <1>11 DEF Next

(* What the index holds, whatever the step. *)
LEMMA SearchedStep ==
    ASSUME Basics, Manned, Searched, [Next]_vars
    PROVE  Searched'
<1>1. CASE UNCHANGED vars
  <2>1. UNCHANGED <<file, calls, note, jobs, index, work, web, lost, ghosts, tasks, missed>>
    BY <1>1 DEF vars, database, todos, history
  <2>2. \A p \in Paths : Stirred(p)' = Stirred(p) /\ Home(p)' = Home(p)
    BY <2>1 DEF Stirred, Home, Called, Serves, Delivers
  <2> QED
    BY <2>1, <2>2, SearchedStill
<1>2. ASSUME NEW p \in Paths, NEW c \in 1 .. uploads + 1, Upload(p, c)
      PROVE  Searched'
  BY <1>2, UploadSearched
<1>3. CASE Answer \/ \E c \in calls : FailCall(c)
  BY <1>3, CloseSearched, CopyFileSearched, EnsureRowSearched, InsertSearched,
     FailCallSearched DEF Answer
<1>4. ASSUME NEW i \in Slots, Work(i) \/ FailPage(i) \/ FailTodos(i) \/ FailFinish(i)
      PROVE  Searched'
  BY <1>4, ClaimSearched, OpenSearched, DedupSearched, ParseSearched, ClearIndexSearched,
     IndexPagesSearched, IndexRestSearched, TodosSearched, FailPageSearched, FinishSearched,
     FailFinishSearched DEF Work
<1>5. CASE (\E k \in DOMAIN jobs : ReclaimStuckJobs(k)) \/ RetryAllFailed
  BY <1>5, StatusActionSearched
<1>6. ASSUME NEW p \in Paths,
             \/ Enqueue(p) \/ Skip(p) \/ Unskip(p) \/ DeleteNote(p) \/ Purge(p)
             \/ Import(p) \/ RemoveAll(p)
      PROVE  Searched'
  BY <1>6, EnqueueSearched, StatusActionSearched, DeleteNoteSearched, PurgeSearched,
     ImportSearched, RemoveAllSearched
<1>7. ASSUME NEW p \in Paths, NEW q \in Paths, Move(p, q) \/ Migrate(p, q) \/ Rename(p, q)
      PROVE  Searched'
  BY <1>7, MoveSearched, MigrateSearched, RenameSearched
<1>8. CASE Handle
  BY <1>8, DeleteVectorsSearched, DeleteFileSearched, PurgeRowsSearched, MoveNoteSearched,
     RenameVectorsSearched, UpdateNotePathSearched, EnqueueImportedSearched DEF Handle
<1>9. CASE StartReturns \/ Stop \/ Restart \/ \E i \in Slots : Start(i) \/ Quit(i)
  BY <1>9, StopSearched, BootSearched, StatusActionSearched, QuitSearched DEF Restart
<1> QED
  BY <1>1, <1>2, <1>3, <1>4, <1>5, <1>6, <1>7, <1>8, <1>9 DEF Next

-----------------------------------------------------------------------------
(* One task for what is red. *)

(* No worker comes to create a task. *)
LEMMA OnceKept ==
    ASSUME Once, UNCHANGED tasks, raced \subseteq raced',
           \A j \in Slots : Active(j, "create")' => Active(j, "create") /\ work'[j] = work[j]
    PROVE  Once'
BY DEF Once, OnlyOne

(* A step of a worker that does not take it to the creation of tasks. *)
LEMMA OnceGoesOn ==
    ASSUME Basics, Once, NEW i \in Slots, UNCHANGED <<tasks, raced, running, cancelled>>,
           \A j \in Slots \ {i} : work'[j] = work[j],
           work'[i] = None \/ work'[i].stage # "create"
    PROVE  Once'
<1>1. \A j \in Slots : Active(j, "create")' => Active(j, "create") /\ work'[j] = work[j]
  BY DEF Active
<1> QED
  BY <1>1, OnceKept

(* A worker that finds no task for red ink: if another is about to create it,
   that is recorded. *)
LEMMA OnceFind ==
    ASSUME Basics, Once, NEW i \in Slots, FindTodos(i)
    PROVE  Once'
<1>1. /\ Typed /\ work[i] # None /\ work[i].body \in Contents
      /\ UNCHANGED <<tasks, running, cancelled>>
  BY DEF Basics, FindTodos, Active, WorkFits, lifecycle
<1> DEFINE c == work[i].body
<1>2. /\ \A j \in Slots \ {i} : work'[j] = work[j]
      /\ work'[i] # None /\ work'[i].body = c
      /\ work'[i].stage = "create" => tasks[c] = 0
  <2>1. PICK s \in Stages : Goto(i, s) /\ (s = "create" => tasks[c] = 0)
    BY DEF FindTodos, Stages
  <2> QED
    BY <1>1, <2>1, GotoSets
<1>3. /\ raced \subseteq raced'
      /\ c \notin raced' => \A j \in Slots \ {i} : ~(Active(j, "create") /\ work[j].body = c)
  BY DEF FindTodos
<1>4. \A j \in Slots \ {i} : Active(j, "create")' <=> Active(j, "create")
  BY <1>1, <1>2 DEF Active
<1>5. SUFFICES ASSUME NEW d \in Contents
               PROVE  OnlyOne(d)'
  BY DEF Once
<1>6. OnlyOne(d)
  BY DEF Once
<1>7. CASE d = c
  <2>1. d \notin raced' => \A j \in Slots \ {i} : ~(Active(j, "create")' /\ work'[j].body = d)
    BY <1>2, <1>3, <1>4, <1>7
  <2>2. Active(i, "create")' => tasks'[d] = 0
    BY <1>1, <1>2, <1>7 DEF Active
  <2> QED
    BY <1>1, <1>3, <1>6, <2>1, <2>2 DEF OnlyOne
<1>8. CASE d # c
  BY <1>1, <1>2, <1>3, <1>4, <1>6, <1>8 DEF OnlyOne
<1> QED
  BY <1>7, <1>8

(* A worker creates the task that was missing. *)
LEMMA OnceCreate ==
    ASSUME Basics, Once, NEW i \in Slots, CreateTask(i)
    PROVE  Once'
<1>1. /\ Typed /\ work[i] # None /\ work[i].body \in Contents /\ Active(i, "create")
      /\ UNCHANGED <<raced, running, cancelled>>
  BY DEF Basics, CreateTask, Active, WorkFits, lifecycle
<1> DEFINE c == work[i].body
<1>2. /\ \A j \in Slots \ {i} : work'[j] = work[j]
      /\ work'[i] # None /\ work'[i].stage = "done"
  BY <1>1, GotoSets DEF CreateTask, Stages
<1>3. /\ tasks'[c] = tasks[c] + 1
      /\ \A d \in Contents \ {c} : tasks'[d] = tasks[d]
      /\ tasks[c] \in Nat
  BY <1>1 DEF CreateTask, Typed
<1>4. /\ ~Active(i, "create")'
      /\ \A j \in Slots \ {i} : Active(j, "create")' <=> Active(j, "create")
  BY <1>1, <1>2 DEF Active
<1>5. SUFFICES ASSUME NEW d \in Contents
               PROVE  OnlyOne(d)'
  BY DEF Once
<1>6. OnlyOne(d)
  BY DEF Once
<1>7. CASE d = c
  <2>1. d \notin raced => tasks[d] = 0
                          /\ \A j \in Slots \ {i} : ~(Active(j, "create") /\ work[j].body = d)
    BY <1>1, <1>6, <1>7 DEF OnlyOne
  <2>2. d \notin raced' => tasks'[d] = 1
                          /\ \A j \in Slots : ~(Active(j, "create")' /\ work'[j].body = d)
    BY <1>1, <1>2, <1>3, <1>4, <1>7, <2>1
  <2> QED
    BY <2>2 DEF OnlyOne
<1>8. CASE d # c
  BY <1>1, <1>2, <1>3, <1>4, <1>6, <1>8 DEF OnlyOne
<1> QED
  BY <1>7, <1>8

(* One task, whatever the step. *)
LEMMA OnceStep ==
    ASSUME Basics, Once, [Next]_vars
    PROVE  Once'
<1>0. Typed
  BY DEF Basics
<1>1. ASSUME UNCHANGED <<tasks, raced, work, running, cancelled>>
      PROVE  Once'
  BY <1>1, OnceKept DEF Active
<1>2. CASE UNCHANGED vars
  BY <1>1, <1>2 DEF vars, database, todos, lifecycle
<1>3. ASSUME NEW p \in Paths, NEW c \in 1 .. uploads + 1, Upload(p, c)
      PROVE  Once'
  BY <1>1, <1>3 DEF Upload, database, todos, lifecycle
<1>4. CASE Answer \/ \E c \in calls : FailCall(c)
  BY <1>1, <1>4 DEF Answer, Close, CopyFile, EnsureRow, InsertJob, FailCall, database,
                    todos, lifecycle
<1>5. ASSUME NEW i \in Slots, Work(i) \/ FailPage(i) \/ FailTodos(i) \/ FailFinish(i)
      PROVE  Once'
  <2>1. CASE \E k \in DOMAIN jobs : ClaimNextJob(i, k)
    BY <1>0, <2>1, ClaimSets, OnceGoesOn DEF ClaimNextJob, todos, lifecycle
  <2>2. CASE Open(i)
    <3>1. UNCHANGED <<tasks, raced, running, cancelled>> /\ work[i] # None
      BY <2>2 DEF Open, Active, database, todos, lifecycle
    <3>2. CASE file[work[i].path] = None
      BY <1>0, <2>2, <3>1, <3>2, GotoSets, OnceGoesOn DEF Open, Stages
    <3>3. CASE file[work[i].path] # None
      BY <1>0, <2>2, <3>1, <3>3, OpenSets, OnceGoesOn
    <3> QED
      BY <3>2, <3>3
  <2>3. CASE IndexPages(i)
    <3>1. UNCHANGED <<tasks, raced, running, cancelled>> /\ work[i] # None
      BY <2>3 DEF IndexPages, Active, todos, lifecycle
    <3>2. CASE Source(i) \in {None, Partial}
      BY <1>0, <2>3, <3>1, <3>2, GotoSets, OnceGoesOn DEF IndexPages, Stages
    <3>3. CASE Source(i) \notin {None, Partial}
      BY <1>0, <2>3, <3>1, <3>3, PagesSet, OnceGoesOn
    <3> QED
      BY <3>2, <3>3
  <2>4. CASE \/ Dedup(i) \/ Parse(i) \/ ClearIndex(i)
             \/ IndexRest(i) \/ FailPage(i) \/ FailTodos(i)
    <3>1. UNCHANGED <<tasks, raced, running, cancelled>> /\ work[i] # None
      BY <2>4 DEF Dedup, Parse, ClearIndex, IndexRest, FailPage, FailTodos, Active,
                  database, todos, lifecycle
    <3>2. PICK s \in Stages \ {"create"} : Goto(i, s)
      BY <2>4 DEF Dedup, Parse, ClearIndex, IndexRest, FailPage, FailTodos, Stages
    <3> QED
      BY <1>0, <3>1, <3>2, GotoSets, OnceGoesOn
  <2>5. CASE FailFinish(i) \/ \E s \in {"done", "failed"} : Finish(i, s)
    <3>1. UNCHANGED <<tasks, raced, running, cancelled>> /\ work' = [work EXCEPT ![i] = None]
      BY <2>5 DEF Finish, FailFinish, database, todos, lifecycle
    <3>2. work'[i] = None /\ \A j \in Slots \ {i} : work'[j] = work[j]
      BY <1>0, <3>1 DEF Typed
    <3> QED
      BY <3>1, <3>2, OnceGoesOn
  <2> QED
    BY <1>5, <2>1, <2>2, <2>3, <2>4, <2>5, OnceFind, OnceCreate DEF Work
<1>6. CASE (\E k \in DOMAIN jobs : ReclaimStuckJobs(k)) \/ RetryAllFailed
  BY <1>1, <1>6 DEF ReclaimStuckJobs, RetryAllFailed, JobsOnly, todos, lifecycle
<1>7. ASSUME NEW p \in Paths,
             \/ Enqueue(p) \/ Skip(p) \/ Unskip(p) \/ DeleteNote(p) \/ Purge(p)
             \/ Import(p) \/ RemoveAll(p)
      PROVE  Once'
  BY <1>1, <1>7 DEF Enqueue, Skip, Unskip, JobsOnly, DeleteNote, Purge, Import, RemoveAll,
                    database, todos, lifecycle
<1>8. ASSUME NEW p \in Paths, NEW q \in Paths, Move(p, q) \/ Migrate(p, q) \/ Rename(p, q)
      PROVE  Once'
  BY <1>1, <1>8 DEF Move, Migrate, Rename, database, todos, lifecycle
<1>9. CASE Handle
  BY <1>1, <1>9 DEF Handle, DeleteVectors, DeleteFile, PurgeRows, MoveNote, RenameVectors,
                    UpdateNotePath, EnqueueImported, database, todos, lifecycle
<1>10. ASSUME UNCHANGED <<tasks, raced>>, \A i \in Slots : work'[i] = None
       PROVE  Once'
  BY <1>10, OnceKept DEF Active
<1>11. CASE Restart
  BY <1>10, <1>11 DEF Restart, Boot, todos
<1>12. CASE StartReturns \/ Stop
  <2>1. UNCHANGED <<tasks, raced, work, running>> /\ cancelled \subseteq cancelled'
    BY <1>12 DEF StartReturns, Stop, StartStop, todos
  <2> QED
    BY <2>1, OnceKept DEF Active
<1>13. ASSUME NEW i \in Slots, Start(i)
       PROVE  Once'
  <2>1. UNCHANGED <<tasks, raced, work, cancelled>> /\ running' = running \cup {i}
    BY <1>13 DEF Start, StartStop, todos
  <2>2. work[i] = None
    BY <1>13 DEF Start, Basics, WorkFits
  <2> QED
    BY <2>1, <2>2, OnceKept DEF Active
<1>14. ASSUME NEW i \in Slots, Quit(i)
       PROVE  Once'
  <2>1. CASE closed
    BY <1>10, <1>14, <2>1 DEF Quit, Boot, todos
  <2>2. CASE ~closed
    <3>1. /\ UNCHANGED <<tasks, raced>> /\ work' = [work EXCEPT ![i] = None]
          /\ running' = running \ {i} /\ cancelled' = cancelled \ {i}
      BY <1>14, <2>2 DEF Quit, StartStop, todos
    <3>2. work'[i] = None /\ \A j \in Slots \ {i} : work'[j] = work[j]
      BY <1>0, <3>1 DEF Typed
    <3> QED
      BY <3>1, <3>2, OnceKept DEF Active
  <2> QED
    BY <2>1, <2>2
<1> QED
  BY <1>2, <1>3, <1>4, <1>5, <1>6, <1>7, <1>8, <1>9, <1>11, <1>12, <1>13, <1>14 DEF Next

-----------------------------------------------------------------------------
(* What derived data there is. *)

Arrives(p) == Delivers({"move", "rename", "copy", "migrate"}, p)

(* A worker that has opened the file of a note there is. *)
Reader(i, p) == AtWork(i, p) /\ ~Orphaned(i) /\ work[i].stage \notin {"open", "failed"}

(* Nothing of p is added, and what it rests on stays. *)
LEMMA DerivedAt ==
    ASSUME NEW p \in Paths, HasRow(p), HasFile(p), ghosts \subseteq ghosts',
           p \notin ghosts' =>
              /\ note[p] # None => note'[p] # None
              /\ file[p] # None => file'[p] # None
              /\ index'[p] # None => index[p] # None
              /\ p \in vectors' => /\ p \in vectors
                                   /\ web' = web \/ ~Serves({"vectors", "rename"}, p)
              /\ web' = web \/ ~Serves({"purge", "move"}, p)
              /\ Arrives(p)' => file'[p] # None \/ Arrives(p)
              /\ \A i \in Slots : Reader(i, p)' => file'[p] # None \/ Reader(i, p)
    PROVE  HasRow(p)' /\ HasFile(p)'
<1>1. CASE p \in ghosts'
  BY <1>1 DEF HasRow, HasFile
<1>2. CASE p \notin ghosts'
  <2>1. /\ index[p] # None => note[p] # None
        /\ p \in vectors => note[p] # None \/ Serves({"vectors", "rename"}, p)
        /\ index[p] # None => file[p] # None \/ Serves({"purge", "move"}, p)
        /\ p \in vectors => file[p] # None \/ Serves({"purge", "move", "rename"}, p)
        /\ \A i \in Slots : Reader(i, p) => file[p] # None \/ Serves({"purge", "move"}, p)
        /\ Arrives(p) => file[p] # None
    BY <1>2 DEF HasRow, HasFile, Reader, Arrives
  <2>2. /\ index'[p] # None => note'[p] # None
        /\ p \in vectors' => note'[p] # None \/ Serves({"vectors", "rename"}, p)'
    BY <1>2, <2>1 DEF Serves
  <2>3. /\ index'[p] # None => file'[p] # None \/ Serves({"purge", "move"}, p)'
        /\ p \in vectors' => file'[p] # None \/ Serves({"purge", "move", "rename"}, p)'
    BY <1>2, <2>1 DEF Serves
  <2>4. \A i \in Slots : Reader(i, p)' => file'[p] # None \/ Serves({"purge", "move"}, p)'
    BY <1>2, <2>1 DEF Serves
  <2>5. Arrives(p)' => file'[p] # None
    BY <1>2, <2>1
  <2> QED
    BY <2>2, <2>3, <2>4, <2>5 DEF HasRow, HasFile, Reader, Arrives
<1> QED
  BY <1>1, <1>2

(* The same, for steps of the files and the web pages that leave the jobs
   alone. *)
LEMMA DerivedStill ==
    ASSUME NEW p \in Paths, HasRow(p), HasFile(p), UNCHANGED <<jobs, work>>,
           ghosts \subseteq ghosts',
           p \notin ghosts' =>
              /\ note[p] # None => note'[p] # None
              /\ file[p] # None => file'[p] # None
              /\ index'[p] # None => index[p] # None
              /\ p \in vectors' => /\ p \in vectors
                                   /\ web' = web \/ ~Serves({"vectors", "rename"}, p)
              /\ web' = web \/ ~Serves({"purge", "move"}, p)
              /\ Arrives(p)' => file'[p] # None \/ Arrives(p)
    PROVE  HasRow(p)' /\ HasFile(p)'
<1>1. \A i \in Slots : Reader(i, p)' <=> Reader(i, p)
  BY DEF Reader, AtWork, Orphaned
<1> QED
  BY <1>1, DerivedAt

(* And for those that leave rows, embeddings and the request alone. *)
LEMMA DerivedFiles ==
    ASSUME Derived, UNCHANGED <<jobs, work, index, vectors, web>>, ghosts \subseteq ghosts',
           \A p \in Paths \ ghosts' : /\ note[p] # None => note'[p] # None
                                      /\ file[p] # None => file'[p] # None
    PROVE  Derived'
<1> SUFFICES ASSUME NEW p \in Paths
             PROVE  HasRow(p)' /\ HasFile(p)'
  BY DEF Derived
<1>1. HasRow(p) /\ HasFile(p)
  BY DEF Derived
<1> QED
  BY <1>1, DerivedStill DEF Arrives, Delivers

(* Statuses change, and workers may stop. *)
LEMMA DerivedStatus ==
    ASSUME Basics, Derived, UNCHANGED <<file, note, index, vectors, web>>,
           ghosts \subseteq ghosts',
           NEW ids, NEW s \in JobStatuses \ {"deleted"}, jobs' = Update(ids, s),
           \A i \in Slots : work'[i] # None => work'[i] = work[i] \/ work'[i].stage = "open"
    PROVE  Derived'
<1> SUFFICES ASSUME NEW p \in Paths
             PROVE  HasRow(p)' /\ HasFile(p)'
  BY DEF Derived
<1>1. HasRow(p) /\ HasFile(p)
  BY DEF Derived
<1>2. \A k \in DOMAIN jobs : /\ jobs'[k].path = jobs[k].path
                             /\ jobs'[k].status = "deleted" <=> jobs[k].status = "deleted"
  BY UpdateSets DEF Basics
<1>3. \A i \in Slots : Reader(i, p)' => Reader(i, p)
  BY <1>2 DEF Reader, AtWork, Orphaned, Basics, WorkFits
<1> QED
  BY <1>1, <1>3, DerivedAt DEF Arrives, Delivers

(* The steps of a worker that add nothing. *)
LEMMA DerivedGoesOn ==
    ASSUME Basics, Derived, NEW i \in Slots, work[i] # None,
           UNCHANGED <<jobs, file, vectors, web>>, ghosts \subseteq ghosts',
           \A p \in Paths : /\ note[p] # None => note'[p] # None
                            /\ index'[p] # None => index[p] # None,
           work'[i].path = work[i].path, work'[i].job = work[i].job,
           \A j \in Slots \ {i} : work'[j] = work[j],
           \/ work[i].stage \notin {"open", "failed"}
           \/ work'[i].stage = "failed"
           \/ file[work[i].path] # None
    PROVE  Derived'
<1> SUFFICES ASSUME NEW p \in Paths
             PROVE  HasRow(p)' /\ HasFile(p)'
  BY DEF Derived
<1>1. HasRow(p) /\ HasFile(p)
  BY DEF Derived
<1>2. \A j \in Slots : Reader(j, p)' => file'[p] # None \/ Reader(j, p)
  BY DEF Reader, AtWork, Orphaned
<1> QED
  BY <1>1, <1>2, DerivedAt DEF Arrives, Delivers

(* A worker adds pages and embeddings: under a note that is there, or the
   path is among the ghosts. *)
LEMMA DerivedPages ==
    ASSUME Basics, Derived, NEW i \in Slots, work[i] # None,
           work[i].stage \in {"pages", "rest"},
           UNCHANGED <<jobs, file, note, web>>, ghosts' = Haunted(i),
           vectors' = vectors \cup {work[i].path},
           \A p \in Paths \ {work[i].path} : index'[p] = index[p],
           work'[i].path = work[i].path, work'[i].job = work[i].job,
           \A j \in Slots \ {i} : work'[j] = work[j]
    PROVE  Derived'
<1> DEFINE q == work[i].path
<1>0. q \in Paths /\ work[i].job \in DOMAIN jobs /\ ghosts \subseteq ghosts'
  BY WorkFields DEF Basics, WorkFits, Haunted
<1> SUFFICES ASSUME NEW p \in Paths
             PROVE  HasRow(p)' /\ HasFile(p)'
  BY DEF Derived
<1>1. HasRow(p) /\ HasFile(p)
  BY DEF Derived
<1>2. \A j \in Slots : Reader(j, p)' => Reader(j, p)
  BY DEF Reader, AtWork, Orphaned
<1>3. CASE p # q
  BY <1>0, <1>1, <1>2, <1>3, DerivedAt DEF Arrives, Delivers
<1>4. CASE p = q /\ Orphaned(i)
  BY <1>4 DEF Haunted, HasRow, HasFile
<1>5. CASE p = q /\ ~Orphaned(i)
  <2>1. note[q] # None
    BY <1>0, <1>5 DEF Basics, JobsHaveNotes, JobsOf, Orphaned
  <2>2. Reader(i, p)
    BY <1>5 DEF Reader, AtWork
  <2>3. p \notin ghosts' => file[p] # None \/ Serves({"purge", "move"}, p)
    BY <1>0, <1>1, <2>2 DEF HasFile, Reader
  <2>4. HasRow(p)'
    BY <1>5, <2>1 DEF HasRow
  <2>5. HasFile(p)'
    BY <1>0, <1>1, <1>2, <2>3 DEF HasFile, Reader, Serves, Delivers
  <2> QED
    BY <2>4, <2>5
<1> QED
  BY <1>3, <1>4, <1>5

(* The steps of the workers. *)
LEMMA DerivedWork ==
    ASSUME Basics, Derived, NEW i \in Slots, 
           Work(i) \/ FailPage(i) \/ FailTodos(i) \/ FailFinish(i)
    PROVE  Derived'
<1>0. Typed
  BY DEF Basics
<1>1. CASE \E k \in DOMAIN jobs : ClaimNextJob(i, k)
  <2>1. PICK k \in DOMAIN jobs : ClaimNextJob(i, k)
    BY <1>1
  <2>2. /\ UNCHANGED <<file, note, index, vectors, web, ghosts>>
        /\ jobs' = Update({k}, "in_progress")
    BY <2>1 DEF ClaimNextJob
  <2>3. \A j \in Slots : work'[j] # None => work'[j] = work[j] \/ work'[j].stage = "open"
    BY <1>0, <2>1, ClaimSets
  <2> QED
    BY <2>2, <2>3, DerivedStatus DEF JobStatuses
<1>2. ASSUME NEW s \in {"done", "failed"}, Finish(i, s)
      PROVE  Derived'
  <2>1. /\ UNCHANGED <<file, note, index, vectors, web, ghosts>>
        /\ jobs' = Update({work[i].job}, s) /\ s \in JobStatuses \ {"deleted"}
    BY <1>2 DEF Finish, JobStatuses
  <2>2. \A j \in Slots : work'[j] # None => work'[j] = work[j]
    BY <1>0, <1>2 DEF Finish, Typed
  <2> QED
    BY <2>1, <2>2, DerivedStatus
<1>3. CASE IndexPages(i) \/ IndexRest(i)
  <2>1. /\ work[i] # None /\ work[i].stage \in {"pages", "rest"} /\ work[i].path \in Paths
        /\ UNCHANGED <<jobs, file, note, web>>
    BY <1>0, <1>3, WorkFields DEF IndexPages, IndexRest, Active
  <2>2. /\ work'[i].path = work[i].path /\ work'[i].job = work[i].job
        /\ \A j \in Slots \ {i} : work'[j] = work[j]
    <3>1. CASE IndexPages(i) \/ IndexRest(i)
      BY <3>1, GoesOnAt
    <3> QED
      BY <1>3, <3>1
  <2>3. CASE Source(i) \in {None, Partial}
    <3>1. UNCHANGED <<index, vectors, ghosts>>
      BY <1>3, <2>3 DEF IndexPages, IndexRest
    <3> QED
      BY <2>1, <2>2, <3>1, DerivedGoesOn
  <2>4. CASE Source(i) \notin {None, Partial}
    <3>1. ghosts' = Haunted(i) /\ vectors' = vectors \cup {work[i].path}
      BY <1>3, <2>4 DEF IndexPages, IndexRest
    <3>2. \A p \in Paths \ {work[i].path} : index'[p] = index[p]
      BY <1>0, <1>3, <2>4 DEF IndexPages, IndexRest, Typed
    <3> QED
      BY <2>1, <2>2, <3>1, <3>2, DerivedPages
  <2> QED
    BY <2>3, <2>4
<1>4. CASE \/ Open(i) \/ Dedup(i) \/ Parse(i) \/ ClearIndex(i)
           \/ FindTodos(i) \/ CreateTask(i) \/ FailTodos(i) \/ FailPage(i)
  <2>1. /\ work[i] # None /\ UNCHANGED <<jobs, file, web>>
        /\ work'[i].path = work[i].path /\ work'[i].job = work[i].job
        /\ \A j \in Slots \ {i} : work'[j] = work[j]
    BY <1>4, GoesOnAt
  <2>2. UNCHANGED vectors /\ ghosts \subseteq ghosts'
    BY <1>4 DEF Open, Dedup, Parse, ClearIndex, FindTodos, CreateTask, FailTodos, FailPage,
                database, history, Haunted
  <2>3. \A p \in Paths : /\ note[p] # None => note'[p] # None
                         /\ index'[p] # None => index[p] # None
    <3>1. CASE Parse(i)
      BY <1>0, <3>1 DEF Parse, Active, Basics, WorkFits, Typed
    <3>2. CASE ClearIndex(i)
      BY <1>0, <3>2 DEF ClearIndex, Typed
    <3>3. CASE \/ Open(i) \/ Dedup(i)
               \/ FindTodos(i) \/ CreateTask(i) \/ FailTodos(i) \/ FailPage(i)
      BY <3>3 DEF Open, Dedup, FindTodos, CreateTask, FailTodos, FailPage, database
    <3> QED
      BY <1>4, <3>1, <3>2, <3>3
  <2>4. \/ work[i].stage \notin {"open", "failed"}
        \/ work'[i].stage = "failed"
        \/ file[work[i].path] # None
    <3>1. CASE Open(i)
      BY <1>0, <2>1, <3>1, GotoSets DEF Open, Stages
    <3>2. CASE \/ Dedup(i) \/ Parse(i) \/ ClearIndex(i)
               \/ FindTodos(i) \/ CreateTask(i) \/ FailTodos(i) \/ FailPage(i)
      BY <3>2 DEF Dedup, Parse, ClearIndex, FindTodos, CreateTask, FailTodos, FailPage, Active
    <3> QED
      BY <1>4, <3>1, <3>2
  <2> QED
    BY <2>1, <2>2, <2>3, <2>4, DerivedGoesOn
<1>5. CASE FailFinish(i)
  <2>1. UNCHANGED <<file, note, jobs, index, vectors, web, ghosts>>
    BY <1>5 DEF FailFinish, database, history
  <2>2. \A j \in Slots : work'[j] # None => work'[j] = work[j]
    BY <1>0, <1>5 DEF FailFinish, Typed
  <2> SUFFICES ASSUME NEW p \in Paths
               PROVE  HasRow(p)' /\ HasFile(p)'
    BY DEF Derived
  <2>3. HasRow(p) /\ HasFile(p)
    BY DEF Derived
  <2>4. \A j \in Slots : Reader(j, p)' => Reader(j, p)
    BY <2>1, <2>2 DEF Reader, AtWork, Orphaned
  <2> QED
    BY <2>1, <2>3, <2>4, DerivedAt DEF Arrives, Delivers
<1> QED
  BY <1>1, <1>2, <1>3, <1>4, <1>5 DEF Work

(* A note without rows has nothing but embeddings. *)
LEMMA NothingDerived ==
    ASSUME NEW p \in Paths, index'[p] = None, JobsOf(p)' = {},
           \A i \in Slots : AtWork(i, p)' => Orphaned(i)',
           p \in vectors' => /\ p \notin ghosts' => Serves({"vectors", "rename"}, p)'
                             /\ p \notin ghosts' => file'[p] # None \/ Serves({"rename"}, p)',
           ~Arrives(p)'
    PROVE  HasRow(p)' /\ HasFile(p)'
<1>1. \A i \in Slots : ~Reader(i, p)'
  BY DEF Reader
<1>2. HasRow(p)'
  BY DEF HasRow
<1>3. Serves({"rename"}, p)' => Serves({"purge", "move", "rename"}, p)'
  BY DEF Serves
<1>4. HasFile(p)'
  BY <1>1, <1>3 DEF HasFile, Reader, Arrives
<1> QED
  BY <1>2, <1>4

(* The notes whose rows were not deleted. *)
LEMMA DerivedDelete ==
    ASSUME Basics, Derived, NEW q \in Paths, DeleteRows(q),
           UNCHANGED <<file, vectors, work>>, ghosts \subseteq ghosts',
           web' = web \/ web = None \/ web.path = q,
           web' = None \/ web'.op \in {"vectors", "file"},
           q \in vectors => q \in ghosts' \/ (Serves({"vectors"}, q)' /\ file[q] # None)
    PROVE  Derived'
<1> SUFFICES ASSUME NEW p \in Paths
             PROVE  HasRow(p)' /\ HasFile(p)'
  BY DEF Derived
<1>1. HasRow(p) /\ HasFile(p)
  BY DEF Derived
<1>2. /\ JobsOf(q)' = {}
      /\ \A k \in DOMAIN jobs :
            /\ jobs'[k].path = jobs[k].path
            /\ jobs[k].path = q => jobs'[k].status = "deleted"
            /\ jobs[k].path # q => jobs'[k].status = jobs[k].status
      /\ index'[q] = None /\ \A r \in Paths \ {q} : note'[r] = note[r] /\ index'[r] = index[r]
  BY DeletedRows, DeletedTyped DEF Basics
<1>3. ~Arrives(p)'
  BY DEF Arrives, Delivers
<1>4. CASE p = q
  <2>1. \A i \in Slots : AtWork(i, p)' => Orphaned(i)'
    BY <1>2, <1>4 DEF AtWork, Orphaned, Basics, WorkFits
  <2>2. p \in vectors' /\ p \notin ghosts' =>
            Serves({"vectors", "rename"}, p)' /\ file'[p] # None
    BY <1>4 DEF Serves
  <2> QED
    BY <1>2, <1>3, <1>4, <2>1, <2>2, NothingDerived
<1>5. CASE p # q
  <2>1. \A i \in Slots : Reader(i, p)' => Reader(i, p)
    BY <1>2, <1>5 DEF Reader, AtWork, Orphaned, Basics, WorkFits
  <2>2. web' = web \/ (~Serves({"vectors", "rename"}, p) /\ ~Serves({"purge", "move"}, p))
    BY <1>5 DEF Serves
  <2> QED
    BY <1>1, <1>2, <1>3, <1>5, <2>1, <2>2, DerivedAt
<1> QED
  BY <1>4, <1>5

(* A note that takes over the rows of another has a file. *)
LEMMA DerivedMoved ==
    ASSUME Basics, Derived, NEW p \in Paths, NEW q \in Paths, p # q, MoveRows(p, q),
           UNCHANGED <<file, vectors, work>>, Carried(ghosts, p, q) \subseteq ghosts',
           Delivers({"move", "migrate"}, q), web.path = p,
           web' = None \/ (Serves({"rename"}, p)' /\ web'.dest = q),
           p \in vectors /\ p \notin ghosts' => Serves({"rename"}, p)'
    PROVE  Derived'
<1> SUFFICES ASSUME NEW r \in Paths
             PROVE  HasRow(r)' /\ HasFile(r)'
  BY DEF Derived
<1>1. HasRow(p) /\ HasFile(p) /\ HasRow(q) /\ HasFile(q) /\ HasRow(r) /\ HasFile(r)
  BY DEF Derived
<1>2. /\ JobsOf(p)' = {}
      /\ \A k \in DOMAIN jobs :
            /\ jobs'[k].status = jobs[k].status
            /\ jobs'[k].path = IF k \in JobsOf(p) THEN q ELSE jobs[k].path
  BY MovedRows DEF Basics
<1>3. /\ note'[p] = None /\ index'[p] = None
      /\ note'[q] = IF note[p] = None THEN note[q] ELSE note[p]
      /\ index'[q] = IF index[p] = None THEN index[q] ELSE index[p]
      /\ \A s \in Paths \ {p, q} : note'[s] = note[s] /\ index'[s] = index[s]
  BY MovedTyped
<1>4. /\ ghosts \subseteq ghosts' /\ (p \in ghosts => q \in ghosts')
      /\ r # q => ~Arrives(r)'
      /\ r # p => ~Serves({"vectors", "rename"}, r) /\ ~Serves({"purge", "move"}, r)
  BY DEF Carried, Arrives, Delivers, Serves
<1>5. CASE r = p
  <2>1. \A i \in Slots : AtWork(i, r)' => Orphaned(i)'
    BY <1>2, <1>5 DEF AtWork, Orphaned, Basics, WorkFits, JobsOf
  <2>2. Serves({"rename"}, r)' => Serves({"vectors", "rename"}, r)'
    BY DEF Serves
  <2> QED
    BY <1>2, <1>3, <1>4, <1>5, <2>1, <2>2, NothingDerived
<1>6. CASE r = q
  <2>1. r \notin ghosts' => file'[r] # None
    BY <1>1, <1>4, <1>6 DEF HasFile, Delivers
  <2>2. r \notin ghosts' => /\ index'[r] # None => note'[r] # None
                            /\ r \in vectors' => note'[r] # None
    BY <1>1, <1>3, <1>4, <1>6, NoneIsApart DEF HasRow
  <2> QED
    BY <2>1, <2>2 DEF HasRow, HasFile
<1>7. CASE r \notin {p, q}
  <2>1. \A i \in Slots : Reader(i, r)' => Reader(i, r)
    BY <1>2, <1>7 DEF Reader, AtWork, Orphaned, Basics, WorkFits, JobsOf
  <2> QED
    BY <1>1, <1>3, <1>4, <1>7, <2>1, DerivedAt
<1> QED
  BY <1>5, <1>6, <1>7

(* The steps of requests under way. *)
LEMMA DerivedHandle ==
    ASSUME Basics, Derived, Handle
    PROVE  Derived'
<1>8. /\ Typed /\ web # None /\ web.path \in Paths /\ web.dest \in Paths
      /\ web.op \in {"move", "rename", "copy", "migrate"} => web.path # web.dest
      /\ ghosts \subseteq ghosts'
  BY WebFields DEF Basics, Handle, Handles, DeleteVectors, DeleteFile, PurgeRows, MoveNote,
     RenameVectors, UpdateNotePath, EnqueueImported, Carried, history
<1>9. PICK p \in Paths, q \in Paths : p = web.path /\ q = web.dest
  BY <1>8
<1>0. /\ Typed /\ web # None /\ p = web.path /\ q = web.dest
      /\ web.op \in {"move", "rename", "copy", "migrate"} => p # q
      /\ ghosts \subseteq ghosts'
  BY <1>8, <1>9
<1>1. CASE DeleteVectors
  <2> SUFFICES ASSUME NEW r \in Paths
               PROVE  HasRow(r)' /\ HasFile(r)'
    BY DEF Derived
  <2>1. HasRow(r) /\ HasFile(r)
    BY DEF Derived
  <2>2. /\ UNCHANGED <<jobs, work, note, file, index>> /\ web.op = "vectors"
        /\ vectors' = vectors \ {p} \/ (UNCHANGED vectors /\ p \in ghosts')
    BY <1>0, <1>1 DEF DeleteVectors, Handles
  <2>3. web' # None /\ web'.op = "file"
    BY <1>0, <1>1, ServingSets DEF DeleteVectors, Ops
  <2>4. /\ ~Serves({"purge", "move"}, r) /\ ~Arrives(r)'
        /\ r # p => ~Serves({"vectors", "rename"}, r)
    BY <1>0, <2>2, <2>3 DEF Serves, Arrives, Delivers
  <2> QED
    BY <1>0, <2>1, <2>2, <2>4, DerivedStill
<1>2. CASE DeleteFile
  <2> SUFFICES ASSUME NEW r \in Paths
               PROVE  HasRow(r)' /\ HasFile(r)'
    BY DEF Derived
  <2>1. HasRow(r) /\ HasFile(r)
    BY DEF Derived
  <2>2. /\ UNCHANGED <<jobs, work, note, index, vectors>> /\ web' = None /\ web.op = "file"
        /\ UNCHANGED file \/ (note[p] # None => p \in ghosts')
        /\ \A s \in Paths \ {p} : file'[s] = file[s]
    BY <1>0, <1>2, RemovedTyped DEF DeleteFile, Handles, database
  <2>3. ~Serves({"purge", "move"}, r) /\ ~Arrives(r)' /\ ~Serves({"vectors", "rename"}, r)
    BY <1>0, <2>2 DEF Serves, Arrives, Delivers
  <2>4. CASE r # p \/ UNCHANGED file
    BY <1>0, <2>1, <2>2, <2>3, <2>4, DerivedStill
  <2>5. CASE r = p /\ r \notin ghosts' /\ (note[p] # None => p \in ghosts')
    <3>1. note[r] = None /\ index[r] = None /\ r \notin vectors /\ JobsOf(r) = {}
      BY <1>0, <2>1, <2>2, <2>3, <2>5 DEF HasRow, Basics, JobsHaveNotes
    <3>2. JobsOf(r)' = {} /\ \A i \in Slots : AtWork(i, r)' => Orphaned(i)'
      BY <2>2, <3>1 DEF JobsOf, AtWork, Orphaned, Basics, WorkFits
    <3> QED
      BY <2>2, <2>3, <3>1, <3>2, NothingDerived
  <2>6. CASE r \in ghosts'
    BY <2>6 DEF HasRow, HasFile
  <2> QED
    BY <2>2, <2>4, <2>5, <2>6
<1>3. CASE PurgeRows
  <2>1. UNCHANGED <<file, vectors, work>> /\ web' = None /\ web.op = "purge"
    BY <1>0, <1>3 DEF PurgeRows, Handles
  <2>2. CASE DeleteRows(p) /\ (p \in vectors => p \in ghosts')
    BY <1>0, <2>1, <2>2, DerivedDelete
  <2>3. CASE UNCHANGED <<note, jobs, index>> /\ p \in ghosts'
    <3> SUFFICES ASSUME NEW r \in Paths
                 PROVE  HasRow(r)' /\ HasFile(r)'
      BY DEF Derived
    <3>1. HasRow(r) /\ HasFile(r)
      BY DEF Derived
    <3>2. /\ r # p => ~Serves({"purge", "move"}, r) /\ ~Serves({"vectors", "rename"}, r)
          /\ ~Arrives(r)'
      BY <1>0, <2>1 DEF Serves, Arrives, Delivers
    <3> QED
      BY <1>0, <2>1, <2>3, <3>1, <3>2, DerivedStill
  <2> QED
    BY <1>0, <1>3, <2>2, <2>3 DEF PurgeRows
<1>4. CASE MoveNote
  <2>1. /\ UNCHANGED <<file, vectors, work>> /\ web.op = "move"
        /\ Delivers({"move", "migrate"}, q)
    BY <1>0, <1>4 DEF MoveNote, Handles, Delivers
  <2>2. CASE UNCHANGED <<note, jobs, index>> /\ p \in ghosts' /\ web' = None
    <3> SUFFICES ASSUME NEW r \in Paths
                 PROVE  HasRow(r)' /\ HasFile(r)'
      BY DEF Derived
    <3>2. HasRow(r) /\ HasFile(r)
      BY DEF Derived
    <3>3. /\ r # p => ~Serves({"purge", "move"}, r) /\ ~Serves({"vectors", "rename"}, r)
          /\ ~Arrives(r)'
      BY <1>0, <2>2 DEF Serves, Arrives, Delivers
    <3> QED
      BY <1>0, <2>1, <2>2, <3>2, <3>3, DerivedStill
  <2>3. CASE MoveRows(p, q) /\ ghosts' = Carried(ghosts, p, q) /\ Serving("rename", p, q)
    <3>2. Serves({"rename"}, p)' /\ web'.dest = q
      BY <1>0, <2>3, ServingSets DEF Serves, Ops
    <3> QED
      BY <1>0, <2>1, <2>3, <3>2, DerivedMoved
  <2> QED
    BY <1>0, <1>4, <2>2, <2>3 DEF MoveNote
<1>5. CASE RenameVectors
  <2> SUFFICES ASSUME NEW r \in Paths
               PROVE  HasRow(r)' /\ HasFile(r)'
    BY DEF Derived
  <2>1. HasRow(r) /\ HasFile(r)
    BY DEF Derived
  <2>2. /\ UNCHANGED <<jobs, work, note, file, index>> /\ web' = None /\ web.op = "rename"
        /\ p # q
    BY <1>0, <1>5 DEF RenameVectors, Handles
  <2>3. /\ ~Serves({"purge", "move"}, r) /\ ~Arrives(r)'
        /\ r # p => ~Serves({"vectors", "rename"}, r)
    BY <1>0, <2>2 DEF Serves, Arrives, Delivers
  <2>4. CASE r = p
    <3>1. p \notin ghosts' => p \notin vectors'
      BY <1>0, <1>5, <2>2 DEF RenameVectors
    <3> QED
      BY <1>0, <2>1, <2>2, <2>3, <2>4, <3>1, DerivedStill
  <2>5. CASE r = q
    <3>1. CASE UNCHANGED vectors /\ p \in ghosts'
      BY <1>0, <1>5, <2>1, <2>2, <2>3, <2>5, <3>1, DerivedStill DEF RenameVectors
    <3>2. CASE ghosts' = IF note[q] = None THEN ghosts \cup {q} ELSE ghosts
      <4>1. r \notin ghosts' => note'[r] # None
        BY <1>0, <2>2, <2>5, <3>2
      <4>2. r \notin ghosts' => file'[r] # None
        BY <1>0, <2>1, <2>2, <2>5 DEF HasFile, Delivers
      <4> QED
        BY <4>1, <4>2 DEF HasRow, HasFile
    <3> QED
      BY <1>0, <1>5, <3>1, <3>2 DEF RenameVectors
  <2>6. CASE r \notin {p, q}
    <3>1. r \in vectors' => r \in vectors
      BY <1>0, <1>5, <2>6 DEF RenameVectors
    <3> QED
      BY <1>0, <2>1, <2>2, <2>3, <2>6, <3>1, DerivedStill
  <2> QED
    BY <2>4, <2>5, <2>6
<1>6. CASE UpdateNotePath
  <2>1. /\ UNCHANGED <<vectors, work>> /\ web.op = "migrate" /\ web' = None
        /\ Delivers({"move", "migrate"}, q)
    BY <1>0, <1>6 DEF UpdateNotePath, Handles, Delivers
  <2>2. CASE UNCHANGED <<note, jobs, index>> /\ q \in ghosts' /\ Removed(q)
    <3>2. \A s \in Paths \ {q} : file'[s] = file[s]
      BY <1>0, <2>2, RemovedTyped
    <3> SUFFICES ASSUME NEW r \in Paths
                 PROVE  HasRow(r)' /\ HasFile(r)'
      BY DEF Derived
    <3>3. HasRow(r) /\ HasFile(r)
      BY DEF Derived
    <3>4. /\ ~Serves({"purge", "move"}, r) /\ ~Serves({"vectors", "rename"}, r)
          /\ ~Arrives(r)'
      BY <1>0, <2>1 DEF Serves, Arrives, Delivers
    <3> QED
      BY <1>0, <2>1, <2>2, <3>2, <3>3, <3>4, DerivedStill
  <2>3. CASE /\ MoveRows(p, q) /\ UNCHANGED file
             /\ ghosts' = Carried(ghosts, p, q) \cup ({p} \cap vectors)
    BY <1>0, <2>1, <2>3, DerivedMoved
  <2> QED
    BY <1>0, <1>6, <2>2, <2>3 DEF UpdateNotePath
<1>7. CASE EnqueueImported
  <2> SUFFICES ASSUME NEW r \in Paths
               PROVE  HasRow(r)' /\ HasFile(r)'
    BY DEF Derived
  <2>1. HasRow(r) /\ HasFile(r)
    BY DEF Derived
  <2>2. /\ UNCHANGED <<jobs, work, note, file, index, vectors>> /\ web' = None
        /\ web.op = "import"
    BY <1>7 DEF EnqueueImported, Handles, database
  <2>3. ~Serves({"purge", "move"}, r) /\ ~Arrives(r)' /\ ~Serves({"vectors", "rename"}, r)
    BY <1>0, <2>2 DEF Serves, Arrives, Delivers
  <2> QED
    BY <1>0, <2>1, <2>2, <2>3, DerivedStill
<1> QED
  BY <1>1, <1>2, <1>3, <1>4, <1>5, <1>6, <1>7 DEF Handle

(* Derived data, whatever the step. *)
LEMMA DerivedStep ==
    ASSUME Basics, Derived, [Next]_vars
    PROVE  Derived'
<1>0. Typed /\ ghosts \subseteq ghosts'
  BY HistoryGrows DEF Basics
<1>1. CASE UNCHANGED vars
  BY <1>0, <1>1, DerivedFiles DEF vars, database
<1>2. ASSUME NEW p \in Paths, NEW c \in 1 .. uploads + 1, Upload(p, c)
      PROVE  Derived'
  <2>1. UNCHANGED <<jobs, work, note, index, vectors, web>>
    BY <1>2 DEF Upload, database
  <2>2. \A r \in Paths : file[r] # None => file'[r] # None
    BY <1>0, <1>2, NoneIsApart DEF Upload, Typed
  <2> QED
    BY <1>0, <2>1, <2>2, DerivedFiles
<1>3. ASSUME NEW c \in calls, Close(c) \/ EnsureRow(c) \/ InsertJob(c) \/ CopyFile(c)
      PROVE  Derived'
  <2>1. c.path \in Paths /\ CallFits(c)
    BY <1>0, CallFields DEF Basics, CallsFit
  <2>2. CASE Close(c)
    <3>1. UNCHANGED <<jobs, work, note, index, vectors, web>>
      BY <2>2 DEF Close, database
    <3>2. \A r \in Paths : file[r] # None => file'[r] # None
      BY <2>1, <2>2 DEF Close, CallFits
    <3> QED
      BY <1>0, <3>1, <3>2, DerivedFiles
  <2>3. CASE EnsureRow(c)
    <3>1. UNCHANGED <<jobs, work, file, index, vectors, web>>
      BY <2>3 DEF EnsureRow
    <3>2. \A r \in Paths : note[r] # None => note'[r] # None
      BY <1>0, <2>3 DEF EnsureRow, Typed
    <3> QED
      BY <1>0, <3>1, <3>2, DerivedFiles
  <2>4. CASE InsertJob(c)
    <3>1. UNCHANGED <<work, file, note, index, vectors, web>>
      BY <2>4 DEF InsertJob
    <3>2. CASE note[c.path] = None
      BY <1>0, <2>4, <3>1, <3>2, DerivedFiles DEF InsertJob
    <3>3. CASE note[c.path] # None
      <4>1. \A k \in DOMAIN jobs : jobs'[k] = jobs[k]
        BY <1>0, <2>1, <2>4, <3>3, QueuedRow DEF InsertJob
      <4> SUFFICES ASSUME NEW r \in Paths
                   PROVE  HasRow(r)' /\ HasFile(r)'
        BY DEF Derived
      <4>2. HasRow(r) /\ HasFile(r)
        BY DEF Derived
      <4>3. \A i \in Slots : Reader(i, r)' => Reader(i, r)
        BY <3>1, <4>1 DEF Reader, AtWork, Orphaned, Basics, WorkFits
      <4> QED
        BY <1>0, <3>1, <4>2, <4>3, DerivedAt DEF Arrives, Delivers
    <3> QED
      BY <3>2, <3>3
  <2>5. CASE CopyFile(c)
    <3>1. UNCHANGED <<jobs, work, note, index, vectors>> /\ web # None /\ web.op = "copy"
      BY <2>1, <2>5 DEF CopyFile, database, CallFits, Delivers
    <3>2. \A r \in Paths : file[r] # None => file'[r] # None
      BY <2>1, <2>5 DEF CopyFile, CallFits
    <3>3. web' # None /\ web'.dest = web.dest
      BY <2>5, <3>1, WebFields, ServingSets DEF CopyFile, Ops
    <3> SUFFICES ASSUME NEW r \in Paths
                 PROVE  HasRow(r)' /\ HasFile(r)'
      BY DEF Derived
    <3>4. HasRow(r) /\ HasFile(r)
      BY DEF Derived
    <3>5. /\ ~Serves({"purge", "move"}, r) /\ ~Serves({"vectors", "rename"}, r)
          /\ Arrives(r)' => Arrives(r)
      BY <3>1, <3>3 DEF Serves, Arrives, Delivers
    <3> QED
      BY <1>0, <3>1, <3>2, <3>4, <3>5, DerivedStill
  <2> QED
    BY <1>3, <2>2, <2>3, <2>4, <2>5
<1>13. ASSUME NEW c \in calls, FailCall(c)
       PROVE  Derived'
  <2>1. /\ UNCHANGED <<jobs, work, note, file, index, vectors>>
        /\ web' = IF c.stage = "copying" THEN None ELSE web
    BY <1>13 DEF FailCall, database
  <2>2. c.stage = "copying" => web.op = "copy"
    BY DEF Basics, CallsFit, CallFits, Delivers
  <2> SUFFICES ASSUME NEW r \in Paths
               PROVE  HasRow(r)' /\ HasFile(r)'
    BY DEF Derived
  <2>3. HasRow(r) /\ HasFile(r)
    BY DEF Derived
  <2>4. /\ web' # web => ~Serves({"purge", "move"}, r) /\ ~Serves({"vectors", "rename"}, r)
        /\ Arrives(r)' => Arrives(r)
    BY <2>1, <2>2 DEF Serves, Arrives, Delivers
  <2> QED
    BY <1>0, <2>1, <2>3, <2>4, DerivedStill
<1>4. ASSUME NEW i \in Slots, Work(i) \/ FailPage(i) \/ FailTodos(i) \/ FailFinish(i)
      PROVE  Derived'
  BY <1>4, DerivedWork
<1>5. CASE \/ (\E k \in DOMAIN jobs : ReclaimStuckJobs(k)) \/ RetryAllFailed
           \/ (\E p \in Paths : Skip(p) \/ Unskip(p)) \/ \E i \in Slots : Start(i)
  <2>1. UNCHANGED <<file, note, index, vectors, web, work>>
    BY <1>5 DEF ReclaimStuckJobs, RetryAllFailed, Skip, Unskip, JobsOnly, Start, StartStop
  <2>2. "pending" \in JobStatuses \ {"deleted"} /\ "skipped" \in JobStatuses \ {"deleted"}
    BY DEF JobStatuses
  <2>3. ASSUME NEW ids, jobs' = Update(ids, "pending")
        PROVE  Derived'
    BY <1>0, <2>1, <2>2, <2>3, DerivedStatus
  <2>4. ASSUME NEW ids, jobs' = Update(ids, "skipped")
        PROVE  Derived'
    BY <1>0, <2>1, <2>2, <2>4, DerivedStatus
  <2> QED
    BY <1>5, <2>3, <2>4 DEF ReclaimStuckJobs, RetryAllFailed, Skip, Unskip, Start
<1>6. ASSUME NEW p \in Paths,
             Enqueue(p) \/ DeleteNote(p) \/ Purge(p) \/ Import(p) \/ RemoveAll(p)
      PROVE  Derived'
  <2>1. CASE Enqueue(p)
    BY <1>0, <2>1, DerivedFiles DEF Enqueue, database
  <2>2. CASE DeleteNote(p)
    <3>1. /\ DeleteRows(p) /\ UNCHANGED <<file, vectors, work, ghosts>> /\ web = None
          /\ Serving("vectors", p, p)
      BY <2>2 DEF DeleteNote, history
    <3>2. web' # None /\ web'.op = "vectors" /\ web'.path = p
      BY <3>1, ServingSets DEF Ops
    <3>3. p \in vectors => p \in ghosts \/ file[p] # None
      BY <3>1 DEF Derived, HasFile, Serves
    <3> QED
      BY <1>0, <3>1, <3>2, <3>3, DerivedDelete DEF Serves
  <2>3. CASE Purge(p)
    <3>1. /\ Removed(p) \/ UNCHANGED file
          /\ UNCHANGED <<note, jobs, index, vectors, work, ghosts>> /\ web = None
          /\ Serving("purge", p, p)
      BY <2>3 DEF Purge, database, history
    <3>2. /\ web' # None /\ web'.op = "purge" /\ web'.path = p
          /\ \A r \in Paths \ {p} : file'[r] = file[r]
      BY <3>1, ServingSets, RemovedTyped DEF Ops
    <3> SUFFICES ASSUME NEW r \in Paths
                 PROVE  HasRow(r)' /\ HasFile(r)'
      BY DEF Derived
    <3>3. HasRow(r) /\ HasFile(r)
      BY DEF Derived
    <3>4. /\ ~Serves({"purge", "move"}, r) /\ ~Serves({"vectors", "rename"}, r)
          /\ ~Arrives(r)'
      BY <3>1, <3>2 DEF Serves, Arrives, Delivers
    <3>5. CASE r # p
      BY <1>0, <3>1, <3>2, <3>3, <3>4, <3>5, DerivedStill
    <3>6. CASE r = p
      <4>1. HasRow(r)'
        BY <3>1, <3>3, <3>4 DEF HasRow
      <4>2. Serves({"purge", "move"}, r)' /\ Serves({"purge", "move", "rename"}, r)'
        BY <3>2, <3>6 DEF Serves
      <4>3. HasFile(r)'
        BY <3>4, <4>2 DEF HasFile, Arrives
      <4> QED
        BY <4>1, <4>3
    <3> QED
      BY <3>5, <3>6
  <2>4. CASE Import(p)
    <3>1. /\ UNCHANGED <<file, jobs, index, vectors, work, ghosts>> /\ web = None
          /\ Serving("import", p, p) /\ \A r \in Paths : note[r] # None => note'[r] # None
      BY <1>0, <2>4, NoneIsApart DEF Import, Typed, history
    <3>2. web' # None /\ web'.op = "import"
      BY <3>1, ServingSets DEF Ops
    <3> SUFFICES ASSUME NEW r \in Paths
                 PROVE  HasRow(r)' /\ HasFile(r)'
      BY DEF Derived
    <3>3. HasRow(r) /\ HasFile(r)
      BY DEF Derived
    <3>4. /\ ~Serves({"purge", "move"}, r) /\ ~Serves({"vectors", "rename"}, r)
          /\ ~Arrives(r)'
      BY <3>1, <3>2 DEF Serves, Arrives, Delivers
    <3> QED
      BY <1>0, <3>1, <3>3, <3>4, DerivedStill
  <2>5. CASE RemoveAll(p)
    <3>1. UNCHANGED <<note, jobs, index, vectors, work, web>> /\ Removed(p) /\ p \in ghosts'
      BY <2>5 DEF RemoveAll, database
    <3> QED
      BY <1>0, <3>1, RemovedTyped, DerivedFiles
  <2> QED
    BY <1>6, <2>1, <2>2, <2>3, <2>4, <2>5
<1>7. ASSUME NEW p \in Paths, NEW q \in Paths, Move(p, q) \/ Migrate(p, q)
      PROVE  Derived'
  <2>1. UNCHANGED <<note, jobs, index, vectors, work, ghosts>> /\ web = None /\ p # q
    BY <1>7 DEF Move, Migrate, database, history
  <2> SUFFICES ASSUME NEW r \in Paths
               PROVE  HasRow(r)' /\ HasFile(r)'
    BY DEF Derived
  <2>2. HasRow(r) /\ HasFile(r)
    BY DEF Derived
  <2>3. ~Serves({"purge", "move"}, r) /\ ~Serves({"vectors", "rename"}, r)
    BY <2>1 DEF Serves
  <2>4. CASE Move(p, q)
    <3>1. /\ web' # None /\ web'.op = "move" /\ web'.path = p /\ web'.dest = q
          /\ file'[q] # None /\ \A s \in Paths \ {p, q} : file'[s] = file[s]
      BY <1>0, <2>1, <2>4, ServingSets DEF Move, Ops, Typed
    <3>2. Arrives(r)' => file'[r] # None
      BY <3>1 DEF Arrives, Delivers
    <3>3. CASE r # p
      BY <1>0, <2>1, <2>2, <2>3, <3>1, <3>2, <3>3, DerivedStill
    <3>4. CASE r = p
      <4>1. HasRow(r)'
        BY <2>1, <2>2, <2>3 DEF HasRow
      <4>2. Serves({"purge", "move"}, r)' /\ Serves({"purge", "move", "rename"}, r)'
        BY <3>1, <3>4 DEF Serves
      <4>3. HasFile(r)'
        BY <3>2, <4>2 DEF HasFile, Arrives
      <4> QED
        BY <4>1, <4>3
    <3> QED
      BY <3>3, <3>4
  <2>5. CASE Migrate(p, q)
    <3>1. /\ web' # None /\ web'.op = "copy" /\ web'.path = p /\ web'.dest = q
          /\ file'[q] # None /\ \A s \in Paths \ {q} : file'[s] = file[s]
      BY <1>0, <2>1, <2>5, ServingSets, NoneIsApart DEF Migrate, Ops, Typed
    <3>2. Arrives(r)' => file'[r] # None
      BY <3>1 DEF Arrives, Delivers
    <3> QED
      BY <1>0, <2>1, <2>2, <2>3, <3>1, <3>2, DerivedStill
  <2> QED
    BY <1>7, <2>4, <2>5
<1>8. ASSUME NEW p \in Paths, NEW q \in Paths, Rename(p, q)
      PROVE  Derived'
  <2>1. UNCHANGED <<note, jobs, index, vectors, work, web>> /\ p \in ghosts'
    BY <1>8 DEF Rename, database
  <2>2. \A r \in Paths \ {p} : file[r] # None => file'[r] # None
    BY <1>0, <1>8 DEF Rename, Typed
  <2> QED
    BY <1>0, <2>1, <2>2, DerivedFiles
<1>9. CASE Handle
  BY <1>9, DerivedHandle
<1>10. CASE StartReturns \/ Stop
  BY <1>0, <1>10, DerivedFiles DEF StartReturns, Stop, StartStop
<1>11. ASSUME Boot
       PROVE  Derived'
  <2>1. /\ UNCHANGED <<file, note, index, vectors>> /\ web' = None
        /\ jobs' = Update(WithStatus("in_progress"), "pending")
        /\ \A i \in Slots : work'[i] = None
        /\ web # None => web.path \in ghosts'
    BY <1>11 DEF Boot
  <2> SUFFICES ASSUME NEW r \in Paths
               PROVE  HasRow(r)' /\ HasFile(r)'
    BY DEF Derived
  <2>2. HasRow(r) /\ HasFile(r)
    BY DEF Derived
  <2>3. /\ r \notin ghosts' => /\ ~Serves({"purge", "move"}, r)
                               /\ ~Serves({"vectors", "rename"}, r)
        /\ ~Arrives(r)' /\ \A i \in Slots : ~Reader(i, r)'
    BY <2>1 DEF Serves, Arrives, Delivers, Reader, AtWork
  <2> QED
    BY <1>0, <2>1, <2>2, <2>3, DerivedAt
<1>12. ASSUME NEW i \in Slots, Quit(i)
       PROVE  Derived'
  <2>1. CASE closed
    BY <1>11, <1>12, <2>1 DEF Quit
  <2>2. CASE ~closed
    <3>1. /\ UNCHANGED <<jobs, file, note, index, vectors, web>>
          /\ work' = [work EXCEPT ![i] = None]
      BY <1>12, <2>2 DEF Quit, StartStop
    <3> SUFFICES ASSUME NEW r \in Paths
                 PROVE  HasRow(r)' /\ HasFile(r)'
      BY DEF Derived
    <3>2. HasRow(r) /\ HasFile(r)
      BY DEF Derived
    <3>3. \A j \in Slots : Reader(j, r)' => Reader(j, r)
      BY <1>0, <3>1 DEF Reader, AtWork, Orphaned, Typed
    <3> QED
      BY <1>0, <3>1, <3>2, <3>3, DerivedAt DEF Arrives, Delivers
  <2> QED
    BY <2>1, <2>2
<1> QED
  BY <1>1, <1>2, <1>3, <1>4, <1>5, <1>6, <1>7, <1>8, <1>9, <1>10, <1>11, <1>12, <1>13
     DEF Next, Answer, Restart
-----------------------------------------------------------------------------
(* The invariant. *)

LEMMA InitInv ==
    ASSUME Init
    PROVE  PipelineInv
<1>1. Typed
  BY PipelineAssumption, MainIsASlot DEF Init, Typed, CallRecords, Contents
<1>2. /\ calls = {} /\ jobs = <<>> /\ web = None /\ vectors = {} /\ DOMAIN jobs = {}
      /\ \A p \in Paths : note[p] = None /\ index[p] = None
      /\ \A i \in Slots : work[i] = None
      /\ \A c \in Contents : tasks[c] = 0
  BY DEF Init
<1>3. \A p \in Paths : JobsOf(p) = {} /\ Latest(p) = {}
  BY <1>2 DEF JobsOf, Latest
<1>4. Basics
  BY <1>1, <1>2, <1>3 DEF Basics, CallsFit, WorkFits, WebFits, JobsHaveNotes
<1>5. Manned
  BY <1>2 DEF Manned, Alone, Strange, Owned, AtWork
<1>6. Searched
  BY <1>2, <1>3 DEF Searched, Found, Indexed, UnderWay, Read, Idle, AtWork
<1>7. Once
  BY <1>2 DEF Once, OnlyOne, Active
<1>8. Derived
  BY <1>2 DEF Derived, HasRow, HasFile, AtWork, Delivers
<1> QED
  BY <1>4, <1>5, <1>6, <1>7, <1>8 DEF PipelineInv

(* Every step of the pipeline keeps the invariant, from any number of notes,
   uploads and worker goroutines. *)
THEOREM PipelineInvariant == Spec => []PipelineInv
<1>1. Init => PipelineInv
  BY InitInv
<1>2. PipelineInv /\ [Next]_vars => PipelineInv'
  BY BasicsStep, MannedStep, SearchedStep, OnceStep, DerivedStep DEF PipelineInv
<1> QED
  BY <1>1, <1>2, PTL DEF Spec

(* What the variables hold: rows of notes, jobs and pages are well formed, and
   a worker is in the loop, at a job there is. *)
THEOREM PipelineTypeCorrect == Spec => []TypeOK
<1>1. PipelineInv => TypeOK
  <2> SUFFICES ASSUME Basics
               PROVE  TypeOK
    BY DEF PipelineInv
  <2>1. \A k \in DOMAIN jobs : jobs[k].status \in
           {"pending", "in_progress", "done", "failed", "skipped", "deleted"}
    BY JobRows DEF Basics, JobStatuses
  <2> QED
    BY <2>1 DEF Basics, Typed, WorkFits, TypeOK
<1> QED
  BY <1>1, PipelineInvariant, PTL

(* A quiet note that is shown as done is idle. *)
LEMMA QuietIsIdle ==
    ASSUME Basics, NEW n \in ListNotes, Quiet(n.path), n.status = {"done"}
    PROVE  /\ n.path \in Paths /\ Idle(n.path) /\ ~Stirred(n.path)
           /\ Home(n.path) = file[n.path]
<1>1. PICK p \in Paths :
          n = [path |-> p, status |-> {jobs[k].status : k \in Latest(p)}]
  BY DEF ListNotes
<1>2. n.path = p /\ {jobs[k].status : k \in Latest(p)} = {"done"}
  BY <1>1
<1>3. /\ Due(p) = {} /\ ~Called(p)
      /\ web # None => p # web.path /\ p # web.dest
  BY <1>2 DEF Quiet, ActiveJobs, Due, Called
<1>4. Latest(p) # {} /\ Latest(p) \subseteq DOMAIN jobs
  BY <1>2 DEF Latest, JobsOf
<1>5. \A k \in Latest(p) : jobs[k].status = "done"
  BY <1>2
<1>6. Idle(p)
  BY <1>3, <1>4, <1>5 DEF Idle, WithStatus
<1>7. ~Stirred(p) /\ Home(p) = file[p]
  BY <1>3 DEF Stirred, Home, Serves, Delivers
<1> QED
  BY <1>2, <1>6, <1>7

(* "done" means found: what a note shown as done is searched by is what its
   file holds, whatever uploads, skips, retries, reclaimed jobs, moves and
   restarts came before, except at the recorded paths. *)
THEOREM DoneIsIndexedHolds == Spec => []DoneIsIndexed
<1>1. PipelineInv => DoneIsIndexed
  BY QuietIsIdle DEF PipelineInv, DoneIsIndexed, Searched, Found, Indexed
<1> QED
  BY <1>1, PipelineInvariant, PTL

(* Red ink becomes one task: no two workers create it, and of a note that is
   found none is forgotten, but for what is recorded. *)
THEOREM TodosAreTasksHolds == Spec => []TodosAreTasks
<1>1. ASSUME PipelineInv
      PROVE  TodosAreTasks
  <2>1. \A c \in Contents : tasks[c] <= 1 \/ c \in raced
    BY <1>1 DEF PipelineInv, Once, OnlyOne
  <2>2. ASSUME NEW n \in ListNotes, Quiet(n.path), n.status = {"done"},
               index[n.path] \in Contents
        PROVE  tasks[index[n.path]] > 0 \/ index[n.path] \in missed \/ n.path \in lost
    BY <1>1, <2>2, QuietIsIdle DEF PipelineInv, Searched, Read, Told
  <2> QED
    BY <2>1, <2>2 DEF TodosAreTasks
<1> QED
  BY <1>1, PipelineInvariant, PTL

(* Nothing is found of a note that is gone: deletions, moves and migrations
   take pages and embeddings along, except at the recorded paths. *)
THEOREM DerivedHasNoteHolds == Spec => []DerivedHasNote
<1>1. ASSUME PipelineInv
      PROVE  DerivedHasNote
  <2> SUFFICES ASSUME NEW p \in Paths, Quiet(p), index[p] # None \/ p \in vectors,
                      p \notin ghosts
               PROVE  note[p] # None /\ file[p] # None
    BY DEF DerivedHasNote
  <2>1. HasRow(p) /\ HasFile(p)
    BY <1>1 DEF PipelineInv, Derived
  <2>2. web # None => p # web.path
    BY DEF Quiet
  <2> QED
    BY <2>1, <2>2 DEF HasRow, HasFile, Serves
<1> QED
  BY <1>1, PipelineInvariant, PTL
=============================================================================
