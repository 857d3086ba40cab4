-------------------------- MODULE BooxDaemon_proofs --------------------------
(***************************************************************************)
(* No note is forgotten by the daemon, for any tree of inbox paths and     *)
(* base names, any number of callbacks, retries, uploads and events.       *)
(*                                                                         *)
(* "A callback is at work on the path" is not inductive: a callback that   *)
(* has seen another size gives up, and one whose file has gone to retry/   *)
(* ends without looking at its path again.  So the invariant names the     *)
(* callbacks that will take what lies under their path (Takes); whatever   *)
(* changes a file under one that will not has set the path's timer.        *)
(*                                                                         *)
(* "One document for each content" needs to know who publishes what: a     *)
(* content that nothing excuses is past the dedup check of one run at      *)
(* most, and its document is listed or in the hands of that run (Once).    *)
(***************************************************************************)
EXTENDS BooxDaemon, TLAPS

Types ==
    /\ inbox \in [Paths -> Contents \cup {None}]
    /\ retry \in [Names -> Contents \cup {None}]
    /\ dlq \in [Names -> Contents \cup {None}]
    /\ sidecar \in [Names -> 0 .. MaxRetries]
    /\ runs \in [Slots -> Callback \cup {None}]
    /\ web # None => web.name \in Names /\ web.queue \in Queues(web.name)
    /\ events \in [uploads : 0 .. MaxUploads, others : Nat]

(* Callback i will file away what is under p, unless that changes again. *)
Takes(i, p) ==
    /\ runs[i] # None /\ runs[i].path = p
    /\ \/ runs[i].stage \notin {"settle", "sidecar"}
       \/ runs[i].stage = "settle" /\ runs[i].hash = inbox[p]

InboxIsTaken ==
    \A p \in Paths :
        inbox[p] = None \/ p \in due \cup stranded \/ \E i \in Slots : Takes(i, p)

(* The name being requeued has left retry/ before its sidecar goes. *)
RequeuedHasLeft == lock \in Names => retry[lock] = None

(* A content is marked once its document is complete, and a sidecar counts
   at least one attempt. *)
StagesAreReached ==
    \A i \in Slots :
        /\ Working(i, "mark") => runs[i].body \in published
        /\ Working(i, "sidecar") => runs[i].attempt > 0

IInv ==
    /\ Types
    /\ \A n \in Names : RootPath[n] \in watched
    /\ InboxIsTaken
    /\ RetryIsScheduled
    /\ RequeuedHasLeft
    /\ StagesAreReached
    /\ saved \subseteq seen
    /\ SeenIsDealtWith

(* The invariant says more than the properties of inbox/, retry/ and seen. *)
LEMMA IInvSuffices == IInv => InboxIsWatched /\ RetryIsScheduled /\ SeenIsDealtWith
  BY DEF IInv, InboxIsTaken, Takes, InboxIsWatched

LEMMA InitIInv == Init => IInv
  <1> SUFFICES ASSUME Init PROVE IInv
    OBVIOUS
  <1> USE DaemonAssumption DEF Init
  <1>1. Types
    BY DEF Types
  <1>2. StagesAreReached
    BY DEF StagesAreReached, Working
  <1> QED
    BY <1>1, <1>2 DEF IInv, InboxIsTaken, RetryIsScheduled, RequeuedHasLeft, SeenIsDealtWith
-----------------------------------------------------------------------------
(* A callback goes on to a step from which it will take its file. *)
LEMMA RunStep ==
    ASSUME IInv, NEW i \in Slots, NEW r \in Callback,
           runs[i] # None, runs[i].stage # "sidecar",
           r.path = runs[i].path, r.stage \notin {"settle", "sidecar"},
           r.stage = "mark" => r.body \in published',
           runs' = [runs EXCEPT ![i] = r],
           published \subseteq published',
           seen' = seen, saved' = saved,
           events' \in [uploads : 0 .. MaxUploads, others : Nat],
           UNCHANGED <<files, watched, due, lock, web, dismissed, stranded>>
    PROVE  IInv'
  <1> USE DaemonAssumption DEF files
  <1>1. Types'
    BY DEF IInv, Types, Queues
  <1>2. /\ runs'[i] = r /\ r # None
        /\ \A j \in Slots \ {i} : runs'[j] = runs[j]
    BY DEF IInv, Types
  <1>3. InboxIsTaken'
    BY <1>2 DEF IInv, InboxIsTaken, Takes
  <1>4. RetryIsScheduled'
    BY <1>2 DEF IInv, RetryIsScheduled, Working
  <1>5. StagesAreReached'
    BY <1>2 DEF IInv, StagesAreReached, Working
  <1> QED
    BY <1>1, <1>3, <1>4, <1>5 DEF IInv, RequeuedHasLeft, SeenIsDealtWith

(* The steps of process up to the mark. *)
LEMMA ProcessStep ==
    ASSUME IInv, NEW i \in Slots,
           Check(i) \/ Parse(i) \/ Transcribe(i) \/ CreateDoc(i) \/ AppendPages(i)
    PROVE  IInv'
  <1> DEFINE r == runs'[i]
  <1> USE DaemonAssumption
  <1>1. runs[i] \in Callback /\ runs[i].stage \notin {"sidecar", "mark"}
    BY DEF IInv, Types, Working, Check, Parse, Transcribe, CreateDoc, AppendPages
  <1>2. runs[i] # None /\ At(i) \in Contents \cup {None}
    BY <1>1 DEF IInv, Types, At, Callback
  <1>3. events' \in [uploads : 0 .. MaxUploads, others : Nat]
    BY DEF IInv, Types, Event, Check, Parse, Transcribe, CreateDoc, AppendPages
  <1>4. /\ runs' = [runs EXCEPT ![i] = r] /\ r \in Callback /\ r.path = runs[i].path
        /\ r.stage \notin {"settle", "sidecar"}
        /\ r.stage = "mark" => r.body \in published'
        /\ published \subseteq published'
    <2>0. runs \in [Slots -> Callback \cup {None}]
      BY DEF IInv, Types
    <2>1. CASE Check(i)
      <3>1. PICK s \in {"archive", "parse", "dlq"} :
               runs' = [runs EXCEPT ![i].hash = At(i), ![i].stage = s]
        BY <2>1 DEF Check
      <3>2. runs' = [runs EXCEPT ![i] = [runs[i] EXCEPT !.hash = At(i), !.stage = s]]
        BY <2>0, <3>1
      <3>3. UNCHANGED published
        BY <2>1 DEF Check, outside
      <3> QED
        BY <1>1, <1>2, <2>0, <3>2, <3>3 DEF Callback, Stages
    <2>2. CASE Parse(i)
      <3>1. UNCHANGED published
        BY <2>2 DEF Parse, outside
      <3>2. CASE runs' = [runs EXCEPT ![i].body = At(i), ![i].stage = "hwr"]
        <4>1. runs' = [runs EXCEPT ![i] = [runs[i] EXCEPT !.body = At(i), !.stage = "hwr"]]
          BY <2>0, <3>2
        <4> QED
          BY <1>1, <1>2, <2>0, <3>1, <4>1 DEF Callback, Stages
      <3>3. CASE Goto(i, "dlq")
        BY <1>1, <2>0, <3>1, <3>3 DEF Goto, Callback, Stages
      <3> QED
        BY <2>2, <3>2, <3>3 DEF Parse
    <2>3. CASE Transcribe(i)
      BY <1>1, <1>2, <2>3 DEF Transcribe, Goto, IInv, Types, Callback, Stages, outside
    <2>4. CASE CreateDoc(i)
      BY <1>1, <1>2, <2>4 DEF CreateDoc, Goto, IInv, Types, Callback, Stages
    <2>5. CASE AppendPages(i)
      BY <1>1, <1>2, <2>5 DEF AppendPages, Goto, IInv, Types, Callback, Stages
    <2> QED
      BY <2>1, <2>2, <2>3, <2>4, <2>5
  <1>5. /\ UNCHANGED <<files, watched, due, lock, web, dismissed, stranded>>
        /\ seen' = seen /\ saved' = saved
    BY DEF Check, Parse, Transcribe, CreateDoc, AppendPages, outside, history
  <1> QED
    BY <1>1, <1>2, <1>3, <1>4, <1>5, RunStep

LEMMA MarkSeenStep == ASSUME IInv, NEW i \in Slots, MarkSeen(i) PROVE IInv'
  <1> USE DaemonAssumption DEF MarkSeen
  <1>1. /\ runs \in [Slots -> Callback \cup {None}] /\ runs[i] \in Callback
        /\ runs[i].stage = "mark" /\ runs[i] # None
    BY DEF IInv, Types, Working
  <1>2. /\ runs'[i] = [runs[i] EXCEPT !.stage = "archive"]
        /\ runs' \in [Slots -> Callback \cup {None}]
        /\ \A j \in Slots \ {i} : runs'[j] = runs[j]
    BY <1>1 DEF Goto, Callback, Stages
  <1>3. runs'[i].stage = "archive" /\ runs'[i].path = runs[i].path /\ runs'[i] # None
    BY <1>1, <1>2 DEF Callback, Stages
  <1>4. Types'
    BY <1>2 DEF IInv, Types, Mark, Event, files, Queues
  <1>5. InboxIsTaken'
    <2>1. inbox' = inbox /\ due' = due /\ stranded' = stranded
      BY DEF files
    <2>2. \A p \in Paths, j \in Slots : Takes(j, p) => Takes(j, p)'
      BY <1>1, <1>2, <1>3, <2>1 DEF Takes
    <2> QED
      BY <2>1, <2>2 DEF IInv, InboxIsTaken
  <1>6. RetryIsScheduled'
    BY <1>1, <1>2, <1>3 DEF IInv, RetryIsScheduled, Working, files
  <1>7. StagesAreReached'
    BY <1>2, <1>3 DEF IInv, StagesAreReached, Working
  <1>8. runs[i].hash = runs[i].body => runs[i].hash \in published
    BY <1>1 DEF IInv, StagesAreReached, Working
  <1>9. SeenIsDealtWith' /\ (saved \subseteq seen)'
    BY <1>8 DEF IInv, SeenIsDealtWith, Mark
  <1> QED
    BY <1>4, <1>5, <1>6, <1>7, <1>9 DEF IInv, RequeuedHasLeft, files

(* A callback that sees another size is done: it would not have taken the
   file, and another one will, or the timer is set. *)
LEMMA UnstableStep == ASSUME IInv, NEW i \in Slots, Unstable(i) PROVE IInv'
  <1> USE DaemonAssumption DEF Unstable, Finish
  <1>1. /\ runs' \in [Slots -> Callback \cup {None}] /\ runs'[i] = None
        /\ \A j \in Slots \ {i} : runs'[j] = runs[j]
    BY DEF IInv, Types
  <1>2. \A p \in Paths : ~Takes(i, p)
    BY DEF Takes, Working, At
  <1>3. InboxIsTaken'
    BY <1>1, <1>2 DEF IInv, InboxIsTaken, Takes, files, history
  <1>4. RetryIsScheduled'
    BY <1>1 DEF IInv, RetryIsScheduled, Working, files, history
  <1>5. StagesAreReached'
    BY <1>1 DEF IInv, StagesAreReached, Working, outside
  <1> QED
    BY <1>1, <1>3, <1>4, <1>5
    DEF IInv, Types, RequeuedHasLeft, SeenIsDealtWith, files, outside, history, Queues

(* Whatever is under the path goes to the archive or to dlq/, or stays
   without a timer, which is recorded. *)
LEMMA FileStep == ASSUME IInv, NEW i \in Slots, Archive(i) \/ ToDLQ(i) PROVE IInv'
  <1> USE DaemonAssumption
  <1>1. /\ runs[i] \in Callback /\ runs[i].stage \in {"archive", "dlq"}
        /\ runs[i].path \in Paths
    BY DEF IInv, Types, Working, Archive, ToDLQ, Callback
  <1>2. /\ runs' \in [Slots -> Callback \cup {None}] /\ runs'[i] = None
        /\ \A j \in Slots \ {i} : runs'[j] = runs[j]
    BY DEF IInv, Types, Archive, ToDLQ, Finish
  <1>3. /\ UNCHANGED <<retry, sidecar, watched, lock, web, seen, saved, published, dismissed>>
        /\ \/ Moved(i)
           \/ NotMoved(i)
    BY DEF Archive, ToDLQ, outside
  <1>4. /\ inbox' \in [Paths -> Contents \cup {None}]
        /\ inbox'[runs[i].path] = None \/ runs[i].path \in stranded'
        /\ \A p \in Paths \ {runs[i].path} : inbox'[p] = inbox[p]
        /\ due \subseteq due' /\ stranded \subseteq stranded'
    BY <1>1, <1>3 DEF IInv, Types, Moved, NotMoved, At
  <1>5. dlq' \in [Names -> Contents \cup {None}]
    BY <1>1 DEF IInv, Types, Archive, ToDLQ, Filed, At
  <1>6. events' \in [uploads : 0 .. MaxUploads, others : Nat]
    BY <1>3 DEF IInv, Types, Moved, NotMoved, Event
  <1>7. Types'
    BY <1>2, <1>3, <1>4, <1>5, <1>6 DEF IInv, Types, Queues
  <1>8. InboxIsTaken'
    BY <1>1, <1>2, <1>4 DEF IInv, InboxIsTaken, Takes
  <1>9. RetryIsScheduled'
    BY <1>1, <1>2, <1>3, <1>4 DEF IInv, RetryIsScheduled, Working
  <1>10. StagesAreReached'
    BY <1>2, <1>3 DEF IInv, StagesAreReached, Working
  <1> QED
    BY <1>3, <1>7, <1>8, <1>9, <1>10 DEF IInv, RequeuedHasLeft, SeenIsDealtWith
-----------------------------------------------------------------------------
(* The spool. *)

LEMMA ScheduleStep == ASSUME IInv, NEW i \in Slots, Schedule(i) PROVE IInv'
  <1> DEFINE p == runs[i].path
             n == NameOf[p]
  <1> USE DaemonAssumption
  <1>1. /\ runs[i] \in Callback /\ runs[i].stage = "schedule" /\ runs[i] # None
        /\ p \in Paths /\ n \in Names /\ runs \in [Slots -> Callback \cup {None}]
    BY DEF IInv, Types, Working, Schedule, Callback
  <1>2. CASE Goto(i, "dlq") /\ UNCHANGED <<inbox, retry, due, lock>>
    <2> DEFINE r == [runs[i] EXCEPT !.stage = "dlq"]
    <2>1. /\ runs' = [runs EXCEPT ![i] = r] /\ r \in Callback /\ r.path = runs[i].path
          /\ r.stage = "dlq"
      BY <1>1, <1>2 DEF Goto, Callback, Stages
    <2>2. /\ UNCHANGED <<files, watched, due, lock, web, dismissed, stranded>>
          /\ UNCHANGED <<seen, saved, published, events>>
      BY <1>2 DEF Schedule, files, outside, history
    <2>3. events' \in [uploads : 0 .. MaxUploads, others : Nat]
      BY <2>2 DEF IInv, Types
    <2> HIDE DEF r
    <2> QED
      BY <1>1, <2>1, <2>2, <2>3, RunStep
  <1>3. CASE /\ ~Exhausted(n) /\ inbox[p] # None
             /\ retry' = [retry EXCEPT ![n] = inbox[p]]
             /\ inbox' = [inbox EXCEPT ![p] = None]
             /\ due' = due \cup ({p} \cap watched)
             /\ runs' = [runs EXCEPT ![i].stage = "sidecar", ![i].attempt = sidecar[n] + 1]
             /\ lock' = i
    <2>1. UNCHANGED <<dlq, sidecar, watched, web, seen, saved, published, dismissed,
                      stranded, events>>
      BY DEF Schedule, outside, history
    <2>2. sidecar[n] + 1 \in 1 .. MaxRetries
      BY <1>1, <1>3 DEF IInv, Types, Exhausted
    <2>3. runs' = [runs EXCEPT ![i] =
                      [runs[i] EXCEPT !.stage = "sidecar", !.attempt = sidecar[n] + 1]]
      BY <1>1, <1>3
    <2>4. /\ runs' \in [Slots -> Callback \cup {None}]
          /\ runs'[i] # None /\ runs'[i].path = p /\ runs'[i].stage = "sidecar"
          /\ runs'[i].attempt > 0
          /\ \A j \in Slots \ {i} : runs'[j] = runs[j]
      <3>1. PICK a \in 1 .. MaxRetries : a = sidecar[n] + 1
        BY <2>2
      <3> DEFINE r == [runs[i] EXCEPT !.stage = "sidecar", !.attempt = a]
      <3>2. a \in 0 .. MaxRetries /\ a > 0
        OBVIOUS
      <3>3. r \in Callback /\ r.path = p /\ r.stage = "sidecar" /\ r.attempt = a
        BY <1>1, <3>2 DEF Callback, Stages
      <3>4. r # None
        BY <3>3
      <3>5. runs' = [runs EXCEPT ![i] = r]
        BY <2>3, <3>1
      <3> HIDE DEF r
      <3> QED
        BY <1>1, <3>2, <3>3, <3>4, <3>5
    <2>5. /\ retry' \in [Names -> Contents \cup {None}]
          /\ inbox' \in [Paths -> Contents \cup {None}] /\ inbox'[p] = None
          /\ \A q \in Paths \ {p} : inbox'[q] = inbox[q]
          /\ \A m \in Names \ {n} : retry'[m] = retry[m]
      BY <1>1, <1>3 DEF IInv, Types
    <2>6. Types'
      BY <2>1, <2>4, <2>5 DEF IInv, Types, Queues
    <2>7. InboxIsTaken'
      BY <1>1, <1>3, <2>1, <2>4, <2>5 DEF IInv, InboxIsTaken, Takes
    <2>8. RetryIsScheduled'
      BY <1>1, <2>1, <2>4, <2>5 DEF IInv, RetryIsScheduled, Working
    <2>9. StagesAreReached'
      BY <2>1, <2>4 DEF IInv, StagesAreReached, Working
    <2>10. RequeuedHasLeft'
      BY <1>3 DEF RequeuedHasLeft
    <2> QED
      BY <2>1, <2>6, <2>7, <2>8, <2>9, <2>10 DEF IInv, SeenIsDealtWith
  <1> QED
    BY <1>2, <1>3 DEF Schedule

LEMMA WriteSidecarStep == ASSUME IInv, NEW i \in Slots, WriteSidecar(i) PROVE IInv'
  <1> DEFINE n == NameOf[runs[i].path]
  <1> USE DaemonAssumption
  <1>1. /\ runs[i] \in Callback /\ runs[i].stage = "sidecar" /\ runs[i] # None
        /\ runs[i].path \in Paths /\ n \in Names
        /\ runs[i].attempt \in 1 .. MaxRetries
        /\ runs \in [Slots -> Callback \cup {None}]
    BY DEF IInv, Types, Working, WriteSidecar, Callback, StagesAreReached
  <1>2. /\ UNCHANGED <<inbox, retry, dlq, watched, due, web, seen, saved, published, dismissed>>
        /\ lock' = None
    BY DEF WriteSidecar, outside
  <1>3. CASE /\ sidecar' = [sidecar EXCEPT ![n] = runs[i].attempt]
             /\ Finish(i) /\ UNCHANGED <<stranded, events>>
    <2>1. /\ runs' \in [Slots -> Callback \cup {None}] /\ runs'[i] = None
          /\ \A j \in Slots \ {i} : runs'[j] = runs[j]
      BY <1>1, <1>3 DEF Finish
    <2>2. /\ sidecar' \in [Names -> 0 .. MaxRetries] /\ sidecar'[n] # 0
          /\ \A m \in Names \ {n} : sidecar'[m] = sidecar[m]
      BY <1>1, <1>3 DEF IInv, Types
    <2>3. Types'
      BY <1>2, <1>3, <2>1, <2>2 DEF IInv, Types, Queues
    <2>4. InboxIsTaken'
      BY <1>1, <1>2, <1>3, <2>1 DEF IInv, InboxIsTaken, Takes
    <2>5. RetryIsScheduled'
      BY <1>1, <1>2, <1>3, <2>1, <2>2 DEF IInv, RetryIsScheduled, Working
    <2>6. StagesAreReached'
      BY <1>2, <2>1 DEF IInv, StagesAreReached, Working
    <2> QED
      BY <1>2, <2>3, <2>4, <2>5, <2>6 DEF IInv, RequeuedHasLeft, SeenIsDealtWith
  <1>4. CASE /\ Event /\ Goto(i, "dlq")
             /\ stranded' = stranded \cup {n}
             /\ UNCHANGED sidecar
    <2>1. runs' = [runs EXCEPT ![i] = [runs[i] EXCEPT !.stage = "dlq"]]
      BY <1>1, <1>4 DEF Goto
    <2>2. /\ runs' \in [Slots -> Callback \cup {None}] /\ runs'[i] # None
          /\ runs'[i].stage = "dlq" /\ runs'[i].path = runs[i].path
          /\ \A j \in Slots \ {i} : runs'[j] = runs[j]
      BY <1>1, <2>1 DEF Callback, Stages
    <2>3. Types'
      BY <1>2, <1>4, <2>2 DEF IInv, Types, Queues, Event
    <2>4. InboxIsTaken'
      BY <1>1, <1>2, <1>4, <2>2 DEF IInv, InboxIsTaken, Takes
    <2>5. RetryIsScheduled'
      BY <1>1, <1>2, <1>4, <2>2 DEF IInv, RetryIsScheduled, Working
    <2>6. StagesAreReached'
      BY <1>2, <2>2 DEF IInv, StagesAreReached, Working
    <2> QED
      BY <1>2, <2>3, <2>4, <2>5, <2>6 DEF IInv, RequeuedHasLeft, SeenIsDealtWith
  <1> QED
    BY <1>3, <1>4 DEF WriteSidecar

(* A note goes back to the name directly below inbox/, whose directory is
   always watched. *)
LEMMA RequeueStep == ASSUME IInv, NEW n \in Names, Requeue(n) PROVE IInv'
  <1> USE DaemonAssumption
  <1>1. /\ UNCHANGED <<dlq, watched, runs, web, seen, saved, published, dismissed, events>>
        /\ RootPath[n] \in Paths \cap watched
    BY DEF Requeue, IInv, Types, outside
  <1>2. CASE /\ retry[n] = None
             /\ sidecar' = [sidecar EXCEPT ![n] = 0]
             /\ UNCHANGED <<inbox, retry, due, lock, stranded>>
    <2>1. Types'
      BY <1>1, <1>2 DEF IInv, Types, Queues
    <2>2. InboxIsTaken'
      BY <1>1, <1>2 DEF IInv, InboxIsTaken, Takes
    <2>3. RetryIsScheduled'
      BY <1>1, <1>2 DEF IInv, Types, RetryIsScheduled, Working
    <2> QED
      BY <1>1, <1>2, <2>1, <2>2, <2>3
      DEF IInv, RequeuedHasLeft, StagesAreReached, Working, SeenIsDealtWith
  <1>3. CASE /\ retry[n] # None
             /\ inbox' = [inbox EXCEPT ![RootPath[n]] = retry[n]]
             /\ retry' = [retry EXCEPT ![n] = None]
             /\ Notice(RootPath[n])
             /\ lock' = n
             /\ UNCHANGED sidecar
    <2>1. Types'
      BY <1>1, <1>3 DEF IInv, Types, Queues
    <2>2. InboxIsTaken'
      BY <1>1, <1>3 DEF IInv, Types, InboxIsTaken, Takes, Notice
    <2>3. stranded \ Paths \subseteq stranded'
      BY <1>1, <1>3 DEF Notice
    <2>4. RetryIsScheduled'
      BY <1>1, <1>3, <2>3 DEF IInv, Types, RetryIsScheduled, Working
    <2>5. RequeuedHasLeft'
      BY <1>3 DEF IInv, Types, RequeuedHasLeft
    <2> QED
      BY <1>1, <2>1, <2>2, <2>4, <2>5 DEF IInv, StagesAreReached, Working, SeenIsDealtWith
  <1> QED
    BY <1>2, <1>3 DEF Requeue

(* The sidecar goes, of a name that has left retry/. *)
LEMMA RequeuedStep == ASSUME IInv, NEW n \in Names, Requeued(n) PROVE IInv'
  <1> USE DaemonAssumption DEF Requeued
  <1>1. retry[n] = None
    BY DEF IInv, RequeuedHasLeft
  <1>2. Types'
    BY DEF IInv, Types, Queues, outside, history
  <1>3. InboxIsTaken'
    BY DEF IInv, InboxIsTaken, Takes, history
  <1>4. RetryIsScheduled'
    BY <1>1 DEF IInv, Types, RetryIsScheduled, Working, history
  <1> QED
    BY <1>2, <1>3, <1>4
    DEF IInv, RequeuedHasLeft, StagesAreReached, Working, SeenIsDealtWith, outside, history
-----------------------------------------------------------------------------
(* The tablet, and the timers. *)

LEMMA UploadStep ==
    ASSUME IInv, NEW p \in Paths, NEW c \in 1 .. events.uploads + 1, Upload(p, c)
    PROVE  IInv'
  <1> USE DaemonAssumption DEF Upload
  <1>1. events.uploads \in Nat /\ events.others \in Nat /\ c \in Contents
    BY DEF IInv, Types, Contents
  <1>2. Types'
    BY <1>1 DEF IInv, Types, Queues
  <1>3. InboxIsTaken'
    BY DEF IInv, Types, InboxIsTaken, Takes, Notice
  <1>4. stranded \ Paths \subseteq stranded'
    BY DEF Notice
  <1>5. RetryIsScheduled'
    BY <1>4 DEF IInv, Types, RetryIsScheduled, Working
  <1> QED
    BY <1>2, <1>3, <1>5
    DEF IInv, RequeuedHasLeft, StagesAreReached, Working, SeenIsDealtWith, outside

LEMMA AttachDirStep == ASSUME IInv, NEW p \in Paths, AttachDir(p) PROVE IInv'
  BY DEF AttachDir, IInv, Types, Queues, InboxIsTaken, Takes, RetryIsScheduled, Working,
         RequeuedHasLeft, StagesAreReached, SeenIsDealtWith, files, outside, history

(* The callback that a timer starts has seen what is there now. *)
LEMMA FireStep == ASSUME IInv, NEW p \in Paths, Fire(p) PROVE IInv'
  <1> USE DaemonAssumption DEF Fire
  <1>1. CASE inbox[p] = None /\ UNCHANGED runs
    <2>1. Types'
      BY <1>1 DEF IInv, Types, Queues, files, history
    <2>2. InboxIsTaken'
      BY <1>1 DEF IInv, InboxIsTaken, Takes, files, history
    <2> QED
      BY <1>1, <2>1, <2>2
      DEF IInv, RetryIsScheduled, Working, RequeuedHasLeft, StagesAreReached,
          SeenIsDealtWith, files, outside, history
  <1>2. CASE inbox[p] # None
    <2> DEFINE r == [path |-> p, stage |-> "settle", hash |-> inbox[p], body |-> None,
                     attempt |-> 0]
    <2>1. PICK i \in Slots : runs[i] = None /\ runs' = [runs EXCEPT ![i] = r]
      <3> DEFINE j == CHOOSE k \in Slots : Idle(k)
      <3>1. j \in Slots /\ Idle(j)
        BY <1>2
      <3>2. runs' = [runs EXCEPT ![j] = r]
        BY <1>2
      <3> HIDE DEF j, r
      <3> QED
        BY <3>1, <3>2 DEF Idle
    <2>2. /\ r \in Callback /\ r.path = p /\ r.stage = "settle" /\ r.hash = inbox[p]
      BY <1>2 DEF IInv, Types, Callback, Stages
    <2>3. r # None
      BY <2>2
    <2> HIDE DEF r
    <2>4. /\ runs' \in [Slots -> Callback \cup {None}] /\ runs'[i] = r
          /\ \A j \in Slots \ {i} : runs'[j] = runs[j]
      BY <2>1, <2>2 DEF IInv, Types
    <2>5. UNCHANGED <<inbox, retry, dlq, sidecar, watched, lock, web, seen, saved,
                      published, dismissed, stranded, events>>
      BY DEF files, outside, history
    <2>6. Types'
      BY <2>4, <2>5 DEF IInv, Types, Queues
    <2>7. InboxIsTaken'
      <3>1. \A j \in Slots, q \in Paths : Takes(j, q) => Takes(j, q)'
        BY <2>1, <2>4, <2>5 DEF Takes
      <3>2. Takes(i, p)'
        BY <2>2, <2>3, <2>4, <2>5 DEF Takes
      <3>3. due \ {p} \subseteq due'
        OBVIOUS
      <3> QED
        BY <2>5, <3>1, <3>2, <3>3 DEF IInv, InboxIsTaken
    <2>8. RetryIsScheduled'
      BY <2>1, <2>4, <2>5 DEF IInv, RetryIsScheduled, Working
    <2>9. StagesAreReached'
      BY <2>2, <2>4, <2>5 DEF IInv, StagesAreReached, Working
    <2> QED
      BY <2>5, <2>6, <2>7, <2>8, <2>9 DEF IInv, RequeuedHasLeft, SeenIsDealtWith
  <1> QED
    BY <1>1, <1>2
-----------------------------------------------------------------------------
(* The web page. *)

(* What a queue holds is a content, and taking it leaves the other names
   as they are. *)
LEMMA TakenFromQueue ==
    ASSUME Types, NEW n \in Names, NEW q \in Queues(n)
    PROVE  /\ Held(q, n) \in Contents \cup {None}
           /\ TakeFrom(q, n) =>
                /\ retry' \in [Names -> Contents \cup {None}]
                /\ dlq' \in [Names -> Contents \cup {None}]
                /\ \A m \in Names : retry'[m] \in {retry[m], None}
  <1> USE DaemonAssumption
  <1>1. Held(q, n) \in Contents \cup {None}
    BY DEF Types, Held, Queues
  <1>2. ASSUME TakeFrom(q, n)
        PROVE  /\ retry' \in [Names -> Contents \cup {None}]
               /\ dlq' \in [Names -> Contents \cup {None}]
               /\ \A m \in Names : retry'[m] \in {retry[m], None}
    BY <1>2 DEF Types, TakeFrom
  <1> QED
    BY <1>1, <1>2

(* The request that remains after a move is one for the same file. *)
LEMMA ServedNext ==
    ASSUME NEW n \in Names, NEW q \in Queues(n),
           Cleanup(q, n) \/ (\E s \in {"file", "cleanup"} : Serving(q, n, s))
    PROVE  web' # None => web'.name \in Names /\ web'.queue \in Queues(web'.name)
  BY DEF Cleanup, Serving

(* A step of the web page that moves nothing to inbox/ but, perhaps, to
   paths whose timers it sets, and takes what it takes from retry/. *)
LEMMA WebStep ==
    ASSUME IInv,
           inbox' \in [Paths -> Contents \cup {None}],
           retry' \in [Names -> Contents \cup {None}],
           dlq' \in [Names -> Contents \cup {None}],
           web' # None => web'.name \in Names /\ web'.queue \in Queues(web'.name),
           events' \in [uploads : 0 .. MaxUploads, others : Nat],
           \A p \in Paths : inbox'[p] \in {inbox[p], None} \/ p \in due',
           \A n \in Names : retry'[n] \in {retry[n], None},
           due \subseteq due', stranded \subseteq stranded' \cup (Paths \cap due'),
           UNCHANGED <<sidecar, watched, runs, lock, published>>,
           saved' \subseteq seen', seen' \subseteq published' \cup dismissed'
    PROVE  IInv'
  <1> USE DaemonAssumption
  <1>1. Types'
    BY DEF IInv, Types, Queues
  <1>2. InboxIsTaken'
    BY DEF IInv, InboxIsTaken, Takes
  <1>3. RetryIsScheduled'
    BY DEF IInv, RetryIsScheduled, Working
  <1> QED
    BY <1>1, <1>2, <1>3 DEF IInv, RequeuedHasLeft, StagesAreReached, Working, SeenIsDealtWith

LEMMA WebRetryStep ==
    ASSUME IInv, NEW n \in Names, NEW q \in Queues(n), WebRetry(q, n)
    PROVE  IInv'
  <1> USE DaemonAssumption DEF WebRetry
  <1>1. RootPath[n] \in Paths \cap watched
    BY DEF IInv
  <1>2. /\ Held(q, n) \in Contents \cup {None}
        /\ retry' \in [Names -> Contents \cup {None}]
        /\ dlq' \in [Names -> Contents \cup {None}]
        /\ \A m \in Names : retry'[m] \in {retry[m], None}
    BY TakenFromQueue DEF IInv
  <1>3. web' # None => web'.name \in Names /\ web'.queue \in Queues(web'.name)
    BY ServedNext
  <1>4. events' \in [uploads : 0 .. MaxUploads, others : Nat]
    BY DEF IInv, Types, Event
  <1>5. inbox' \in [Paths -> Contents \cup {None}]
    BY <1>2 DEF IInv, Types
  <1>6. \A p \in Paths : inbox'[p] \in {inbox[p], None} \/ p \in due'
    BY <1>1
  <1>7. due \subseteq due' /\ stranded \subseteq stranded' \cup (Paths \cap due')
    BY <1>1
  <1>8. /\ UNCHANGED <<sidecar, watched, runs, lock, published>>
        /\ saved' \subseteq seen' /\ seen' \subseteq published' \cup dismissed'
    BY DEF IInv, SeenIsDealtWith, outside
  <1> QED
    BY <1>2, <1>3, <1>4, <1>5, <1>6, <1>7, <1>8, WebStep

LEMMA WebSkipStep ==
    ASSUME IInv, NEW n \in Names, NEW q \in Queues(n), WebSkip(q, n)
    PROVE  IInv'
  <1> USE DaemonAssumption DEF WebSkip
  <1>1. UNCHANGED <<inbox, retry, dlq, sidecar, watched, due, runs, lock, published, stranded>>
    BY DEF files
  <1>2. web' # None => web'.name \in Names /\ web'.queue \in Queues(web'.name)
    BY ServedNext
  <1>3. events' \in [uploads : 0 .. MaxUploads, others : Nat]
    BY DEF IInv, Types, Event
  <1>4. saved' \subseteq seen' /\ seen' \subseteq published' \cup dismissed'
    BY DEF IInv, SeenIsDealtWith
  <1>5. /\ inbox' \in [Paths -> Contents \cup {None}]
        /\ retry' \in [Names -> Contents \cup {None}]
        /\ dlq' \in [Names -> Contents \cup {None}]
    BY <1>1 DEF IInv, Types
  <1> QED
    BY <1>1, <1>2, <1>3, <1>4, <1>5, WebStep

LEMMA WebFileStep == ASSUME IInv, WebFile PROVE IInv'
  <1> DEFINE q == web.queue
             n == web.name
  <1> USE DaemonAssumption DEF WebFile
  <1>1. /\ n \in Names /\ q \in Queues(n)
        /\ UNCHANGED <<sidecar, watched, runs, lock, seen, saved, published, dismissed,
                       stranded, events>>
    BY DEF IInv, Types, outside, history
  <1>2. /\ events' \in [uploads : 0 .. MaxUploads, others : Nat]
        /\ saved' \subseteq seen' /\ seen' \subseteq published' \cup dismissed'
    BY <1>1 DEF IInv, Types, SeenIsDealtWith
  <1>3. CASE web' = None /\ UNCHANGED <<inbox, retry, dlq, archive, due>>
    <2>1. /\ inbox' \in [Paths -> Contents \cup {None}]
          /\ retry' \in [Names -> Contents \cup {None}]
          /\ dlq' \in [Names -> Contents \cup {None}]
      BY <1>3 DEF IInv, Types
    <2> QED
      BY <1>1, <1>2, <1>3, <2>1, WebStep
  <1>4. CASE /\ TakeFrom(q, n) /\ Cleanup(q, n)
             /\ inbox' = [p \in Paths |-> IF p = q THEN None ELSE inbox[p]]
             /\ due' = due \cup ({q} \cap watched)
    <2>1. /\ retry' \in [Names -> Contents \cup {None}]
          /\ dlq' \in [Names -> Contents \cup {None}]
          /\ \A m \in Names : retry'[m] \in {retry[m], None}
      BY <1>1, <1>4, TakenFromQueue DEF IInv
    <2>2. web' # None => web'.name \in Names /\ web'.queue \in Queues(web'.name)
      BY <1>1, <1>4, ServedNext
    <2>3. /\ inbox' \in [Paths -> Contents \cup {None}]
          /\ \A p \in Paths : inbox'[p] \in {inbox[p], None}
      BY <1>4 DEF IInv, Types
    <2> QED
      BY <1>1, <1>2, <1>4, <2>1, <2>2, <2>3, WebStep
  <1> QED
    BY <1>3, <1>4

LEMMA WebDeleteStep ==
    ASSUME IInv, NEW n \in Names, NEW q \in Queues(n), WebDelete(q, n)
    PROVE  IInv'
  <1> USE DaemonAssumption DEF WebDelete
  <1>1. /\ retry' \in [Names -> Contents \cup {None}]
        /\ dlq' \in [Names -> Contents \cup {None}]
        /\ \A m \in Names : retry'[m] \in {retry[m], None}
    BY TakenFromQueue DEF IInv
  <1>2. web' # None => web'.name \in Names /\ web'.queue \in Queues(web'.name)
    BY ServedNext
  <1>3. events' \in [uploads : 0 .. MaxUploads, others : Nat]
    BY DEF IInv, Types, Event
  <1>4. /\ inbox' \in [Paths -> Contents \cup {None}]
        /\ \A p \in Paths : inbox'[p] \in {inbox[p], None}
    BY DEF IInv, Types
  <1>5. /\ UNCHANGED <<sidecar, watched, due, runs, lock, published, stranded>>
        /\ saved' \subseteq seen' /\ seen' \subseteq published' \cup dismissed'
    BY DEF IInv, SeenIsDealtWith, outside, history
  <1> QED
    BY <1>1, <1>2, <1>3, <1>4, <1>5, WebStep

(* The sidecar that is removed last may be a later one's. *)
LEMMA WebCleanupStep == ASSUME IInv, WebCleanup PROVE IInv'
  <1> USE DaemonAssumption DEF WebCleanup
  <1>1. /\ web.name \in Names
        /\ UNCHANGED <<inbox, retry, dlq, watched, due, runs, lock, seen, saved, published,
                       dismissed, events>>
    BY DEF IInv, Types, outside
  <1>2. Types'
    BY <1>1 DEF IInv, Types, Queues
  <1>3. stranded \subseteq stranded'
    OBVIOUS
  <1>4. InboxIsTaken'
    BY <1>1, <1>3 DEF IInv, InboxIsTaken, Takes
  <1>5. RetryIsScheduled'
    BY <1>1, <1>3 DEF IInv, Types, RetryIsScheduled, Working
  <1> QED
    BY <1>1, <1>2, <1>4, <1>5
    DEF IInv, RequeuedHasLeft, StagesAreReached, Working, SeenIsDealtWith
-----------------------------------------------------------------------------
(* The sweep at the start sets a timer for every note; a note that was
   between its rename and its sidecar is recorded. *)
LEMMA RestartStep == ASSUME IInv, Restart PROVE IInv'
  <1> USE DaemonAssumption DEF Restart
  <1>1. /\ UNCHANGED <<inbox, retry, dlq, sidecar, saved, published, dismissed>>
        /\ \A i \in Slots : runs'[i] = None
    BY DEF files, outside
  <1>2. Types'
    BY <1>1 DEF IInv, Types, Queues, Event
  <1>3. InboxIsTaken'
    BY <1>1 DEF InboxIsTaken
  <1>4. RetryIsScheduled'
    BY <1>1 DEF IInv, RetryIsScheduled, Working, Interrupted
  <1>5. StagesAreReached'
    BY <1>1 DEF StagesAreReached, Working
  <1> QED
    BY <1>1, <1>2, <1>3, <1>4, <1>5 DEF IInv, RequeuedHasLeft, SeenIsDealtWith

(* Every step keeps the invariant. *)
LEMMA NextIInv == IInv /\ [Next]_vars => IInv'
  <1> SUFFICES ASSUME IInv, [Next]_vars PROVE IInv'
    OBVIOUS
  <1>1. CASE \E p \in Paths, c \in 1 .. events.uploads + 1 : Upload(p, c)
    BY <1>1, UploadStep
  <1>2. CASE \E p \in Paths : AttachDir(p) \/ Fire(p)
    BY <1>2, AttachDirStep, FireStep
  <1>3. CASE \E i \in Slots : Run(i)
    BY <1>3, ProcessStep, MarkSeenStep, UnstableStep, FileStep, ScheduleStep,
       WriteSidecarStep DEF Run
  <1>4. CASE \E n \in Names : Requeue(n) \/ Requeued(n)
    BY <1>4, RequeueStep, RequeuedStep
  <1>5. CASE \E n \in Names : \E q \in Queues(n) :
                WebRetry(q, n) \/ WebSkip(q, n) \/ WebDelete(q, n)
    BY <1>5, WebRetryStep, WebSkipStep, WebDeleteStep
  <1>6. CASE WebFile \/ WebCleanup
    BY <1>6, WebFileStep, WebCleanupStep
  <1>7. CASE Restart
    BY <1>7, RestartStep
  <1>8. CASE UNCHANGED vars
    BY <1>8 DEF vars, files, memory, outside, history, IInv, Types, Queues, InboxIsTaken,
       Takes, RetryIsScheduled, Working, RequeuedHasLeft, StagesAreReached, SeenIsDealtWith
  <1> QED
    BY <1>1, <1>2, <1>3, <1>4, <1>5, <1>6, <1>7, <1>8 DEF Next

(* What every state of the daemon satisfies: the callbacks, queues and lists
   are in step with each other. *)
THEOREM DaemonInvariant == Spec => []IInv
  BY InitIInv, NextIInv, PTL DEF Spec

-----------------------------------------------------------------------------
(* What is archived was dealt with: a run that may archive finds under its
   path what it had hashed, or what is recorded to have come there since, and
   likewise the web page that is about to file a skipped note. *)

ArchiveIsDue ==
    /\ \A i \in Slots : Archiving(i) => At(i) \in {None, runs[i].hash} \cup overtaken
    /\ \A i \in Slots : Working(i, "archive") => runs[i].hash \in published \cup dismissed
    /\ web # None /\ web.stage = "file" =>
          Held(web.queue, web.name) \in {None} \cup dismissed \cup overtaken

ArchiveInv ==
    /\ ArchiveIsDue
    /\ archive \in [Names -> {None} \cup published \cup dismissed \cup overtaken]

(* What a step has to keep. *)
LEMMA ArchiveKeeps ==
    ASSUME ArchiveInv,
           published \subseteq published', dismissed \subseteq dismissed',
           overtaken \subseteq overtaken',
           \A i \in Slots : Archiving(i)' =>
              \/ At(i)' = runs'[i].hash
              \/ /\ Archiving(i) /\ runs'[i].hash = runs[i].hash
                 /\ At(i)' \in {At(i), None, runs[i].hash} \cup overtaken',
           \A i \in Slots : Working(i, "archive")' =>
              \/ runs'[i].hash \in published' \cup dismissed'
              \/ Working(i, "archive") /\ runs'[i].hash = runs[i].hash,
           web' # None /\ web'.stage = "file" =>
              \/ Held(web.queue, web.name)' \in {None} \cup dismissed' \cup overtaken'
              \/ /\ web' = web
                 /\ Held(web.queue, web.name)' = Held(web.queue, web.name),
           \/ archive' = archive
           \/ \E n \in Names : \E c \in {None} \cup published \cup dismissed \cup overtaken :
                 archive' = [archive EXCEPT ![n] = c]
    PROVE  ArchiveInv'
<1>1. ArchiveIsDue'
  BY DEF ArchiveInv, ArchiveIsDue
<1>2. archive' \in [Names -> {None} \cup published' \cup dismissed' \cup overtaken']
  BY DEF ArchiveInv
<1>3. QED
  BY <1>1, <1>2 DEF ArchiveInv

(* Steps of the callbacks that move no file. *)
LEMMA CallbackArchive ==
    ASSUME IInv, ArchiveInv, NEW i \in Slots, NEW r \in Callback \cup {None},
           runs' = [runs EXCEPT ![i] = r],
           UNCHANGED <<inbox, retry, dlq, archive, web, overtaken>>,
           published \subseteq published', dismissed \subseteq dismissed',
           Archiving(i)' => \/ inbox[r.path] = r.hash
                            \/ Archiving(i) /\ r.hash = runs[i].hash /\ r.path = runs[i].path,
           Working(i, "archive")' => r.hash \in published' \cup dismissed'
    PROVE  ArchiveInv'
<1>1. runs'[i] = r /\ \A j \in Slots \ {i} : runs'[j] = runs[j]
  BY DEF IInv, Types
<1>2. \A j \in Slots : Archiving(j)' =>
         \/ At(j)' = runs'[j].hash
         \/ Archiving(j) /\ runs'[j].hash = runs[j].hash /\ At(j)' = At(j)
  BY <1>1 DEF Archiving, At
<1>3. \A j \in Slots : Working(j, "archive")' =>
         \/ runs'[j].hash \in published' \cup dismissed'
         \/ Working(j, "archive") /\ runs'[j].hash = runs[j].hash
  BY <1>1 DEF Working
<1>4. Held(web.queue, web.name)' = Held(web.queue, web.name)
  BY DEF Held
<1>5. QED
  BY <1>2, <1>3, <1>4, ArchiveKeeps

LEMMA ProcessArchive ==
    ASSUME IInv, ArchiveInv, NEW i \in Slots,
           \/ Check(i) \/ Parse(i) \/ Transcribe(i) \/ CreateDoc(i) \/ AppendPages(i)
           \/ MarkSeen(i) \/ Unstable(i) \/ WriteSidecar(i)
    PROVE  ArchiveInv'
<1>1. /\ runs \in [Slots -> Callback \cup {None}] /\ runs[i] \in Callback /\ runs[i] # None
      /\ At(i) \in Contents \cup {None}
  BY DaemonAssumption DEF IInv, Types, Working, Check, Parse, Transcribe, CreateDoc, AppendPages,
     MarkSeen, Unstable, WriteSidecar, At, Callback
<1>2. /\ UNCHANGED <<inbox, retry, dlq, archive, web, overtaken>>
      /\ published \subseteq published' /\ dismissed \subseteq dismissed'
  BY DEF Check, Parse, Transcribe, CreateDoc, AppendPages, MarkSeen, Unstable, WriteSidecar,
         files, outside, history
<1>3. CASE Check(i)
  <2>1. PICK s \in {"archive", "parse", "dlq"} :
           /\ runs' = [runs EXCEPT ![i].hash = At(i), ![i].stage = s]
           /\ s = "archive" => At(i) \in seen
    BY <1>3 DEF Check, Has
  <2> DEFINE r == [runs[i] EXCEPT !.hash = At(i), !.stage = s]
  <2>2. runs' = [runs EXCEPT ![i] = r]
    BY <1>1, <2>1
  <2>3. r \in Callback /\ r.path = runs[i].path /\ r.hash = At(i) /\ r.stage = s
    BY <1>1 DEF Callback, Stages
  <2>4. inbox[r.path] = r.hash
    BY <2>3 DEF At
  <2> HIDE DEF r
  <2>5. runs'[i] = r
    BY <1>1, <2>2
  <2>6. Working(i, "archive")' => r.hash \in published' \cup dismissed'
    BY <1>2, <2>1, <2>3, <2>5 DEF Working, IInv, SeenIsDealtWith
  <2>7. QED
    BY <1>2, <2>2, <2>3, <2>4, <2>6, CallbackArchive
<1>4. CASE Parse(i) /\ runs' = [runs EXCEPT ![i].body = At(i), ![i].stage = "hwr"]
  <2> DEFINE r == [runs[i] EXCEPT !.body = At(i), !.stage = "hwr"]
  <2>1. runs' = [runs EXCEPT ![i] = r]
    BY <1>1, <1>4
  <2>2. /\ r \in Callback /\ r.path = runs[i].path /\ r.hash = runs[i].hash
        /\ r.stage = "hwr"
    BY <1>1 DEF Callback, Stages
  <2> HIDE DEF r
  <2>3. runs'[i] = r /\ Archiving(i)
    BY <1>1, <1>4, <2>1 DEF Archiving, Parse, Working
  <2>4. ~Working(i, "archive")'
    BY <2>2, <2>3 DEF Working
  <2>5. QED
    BY <1>2, <2>1, <2>2, <2>3, <2>4, CallbackArchive
<1>5. CASE \E s \in {"create", "pages", "schedule", "dlq"} : Goto(i, s) /\ ~Working(i, "settle")
  <2>1. PICK s \in {"create", "pages", "schedule", "dlq"} : Goto(i, s)
    BY <1>5
  <2> DEFINE r == [runs[i] EXCEPT !.stage = s]
  <2>2. runs' = [runs EXCEPT ![i] = r]
    BY <1>1, <2>1 DEF Goto
  <2>3. r \in Callback /\ r.path = runs[i].path /\ r.hash = runs[i].hash /\ r.stage = s
    BY <1>1 DEF Callback, Stages
  <2> HIDE DEF r
  <2>4. runs'[i] = r
    BY <1>1, <2>2
  <2>5. Archiving(i)' => Archiving(i)
    <3>1. CASE Transcribe(i) \/ CreateDoc(i)
      BY <1>1, <3>1 DEF Transcribe, CreateDoc, Working, Archiving
    <3>2. CASE s = "dlq"
      BY <2>3, <2>4, <3>2 DEF Archiving
    <3>3. CASE runs[i].stage \in {"parse", "pages", "mark"}
      BY <1>1, <3>3 DEF Archiving
    <3>4. CASE WriteSidecar(i) /\ s # "dlq"
      <4>1. Goto(i, "dlq") \/ Finish(i)
        BY <3>4 DEF WriteSidecar
      <4>2. runs'[i] = None \/ runs'[i].stage = "dlq"
        BY <1>1, <4>1 DEF Goto, Finish, Callback
      <4>3. QED
        BY <2>3, <2>4, <3>4, <4>2 DEF Archiving
    <3>5. CASE Unstable(i)
      BY <1>5, <3>5 DEF Unstable
    <3>6. CASE Check(i)
      BY <1>5, <3>6 DEF Check
    <3>7. QED
      BY <3>1, <3>2, <3>3, <3>4, <3>5, <3>6 DEF Parse, AppendPages, MarkSeen, Working
  <2>6. ~Working(i, "archive")'
    BY <2>3, <2>4 DEF Working
  <2>7. QED
    BY <1>2, <2>2, <2>3, <2>4, <2>5, <2>6, CallbackArchive
<1>6. CASE AppendPages(i) /\ Goto(i, "mark")
  <2> DEFINE r == [runs[i] EXCEPT !.stage = "mark"]
  <2>1. runs' = [runs EXCEPT ![i] = r]
    BY <1>1, <1>6 DEF Goto
  <2>2. r \in Callback /\ r.path = runs[i].path /\ r.hash = runs[i].hash /\ r.stage = "mark"
    BY <1>1 DEF Callback, Stages
  <2> HIDE DEF r
  <2>3. runs'[i] = r /\ Archiving(i)
    BY <1>1, <1>6, <2>1 DEF AppendPages, Working, Archiving
  <2>4. ~Working(i, "archive")'
    BY <2>2, <2>3 DEF Working
  <2>5. QED
    BY <1>2, <2>1, <2>2, <2>3, <2>4, CallbackArchive
<1>7. CASE MarkSeen(i)
  <2> DEFINE r == [runs[i] EXCEPT !.stage = "archive"]
  <2>1. runs' = [runs EXCEPT ![i] = r]
    BY <1>1, <1>7 DEF MarkSeen, Goto
  <2>2. r \in Callback /\ r.path = runs[i].path /\ r.hash = runs[i].hash
    BY <1>1 DEF Callback, Stages
  <2> HIDE DEF r
  <2>3. Archiving(i) /\ runs[i].body \in published
    BY <1>1, <1>7 DEF MarkSeen, Working, Archiving, IInv, StagesAreReached
  <2>4. r.hash \in published' \cup dismissed'
    BY <1>2, <1>7, <2>2, <2>3 DEF MarkSeen
  <2>5. QED
    BY <1>2, <2>1, <2>2, <2>3, <2>4, CallbackArchive
<1>8. CASE Finish(i)
  <2>1. runs' = [runs EXCEPT ![i] = None] /\ runs'[i] = None
    BY <1>1, <1>8 DEF Finish
  <2>2. ~Archiving(i)' /\ ~Working(i, "archive")'
    BY <2>1 DEF Archiving, Working
  <2>3. QED
    BY <1>2, <2>1, <2>2, CallbackArchive
<1>9. CASE Parse(i) \/ Transcribe(i) \/ CreateDoc(i) \/ AppendPages(i) \/ WriteSidecar(i)
  BY <1>4, <1>5, <1>6, <1>8, <1>9
  DEF Parse, Transcribe, CreateDoc, AppendPages, WriteSidecar, Working
<1>10. QED
  BY <1>3, <1>7, <1>8, <1>9 DEF Unstable

(* A content that comes to a place is recorded if something is about to
   archive what was there before. *)
LEMMA PutIs ==
    ASSUME NEW q, NEW n, NEW c, Put(q, n, c)
    PROVE  /\ overtaken \subseteq overtaken'
           /\ \A i \in Slots : Archiving(i) /\ runs[i].path = q => c = runs[i].hash \/ c \in overtaken'
           /\ web # None /\ web.stage = "file" /\ web.queue = q /\ web.name = n => c \in overtaken'
BY DEF Put

(* Steps that move files under callbacks which stay as they are, or end. *)
LEMMA FilesArchive ==
    ASSUME IInv, ArchiveInv,
           \A i \in Slots : Archiving(i)' => runs'[i] = runs[i],
           UNCHANGED <<published, dismissed>>, overtaken \subseteq overtaken',
           \A p \in Paths :
              \/ inbox'[p] \in {inbox[p], None}
              \/ \A i \in Slots : Archiving(i) /\ runs[i].path = p =>
                    inbox'[p] \in {runs[i].hash} \cup overtaken',
           web' # None /\ web'.stage = "file" =>
              /\ web' = web
              /\ Held(web.queue, web.name)' \in {None, Held(web.queue, web.name)} \cup overtaken',
           \/ archive' = archive
           \/ \E n \in Names : \E c \in {None} \cup published \cup dismissed \cup overtaken :
                 archive' = [archive EXCEPT ![n] = c]
    PROVE  ArchiveInv'
<1>1. ASSUME NEW i \in Slots, Archiving(i)'
      PROVE  /\ Archiving(i) /\ runs'[i].hash = runs[i].hash
             /\ At(i)' \in {At(i), None, runs[i].hash} \cup overtaken'
  <2>1. runs'[i] = runs[i] /\ Archiving(i)
    BY <1>1 DEF Archiving
  <2>2. runs[i].path \in Paths
    BY <2>1 DEF IInv, Types, Callback, Archiving
  <2>3. QED
    BY <2>1, <2>2 DEF At
<1>2. ASSUME NEW i \in Slots, Working(i, "archive")'
      PROVE  Working(i, "archive") /\ runs'[i].hash = runs[i].hash
  BY <1>2 DEF Working, Archiving
<1>3. web' # None /\ web'.stage = "file" =>
         Held(web.queue, web.name)' \in {None} \cup dismissed' \cup overtaken'
  BY DEF ArchiveInv, ArchiveIsDue
<1>4. QED
  BY <1>1, <1>2, <1>3, ArchiveKeeps

(* The web page holds a path below inbox/ under its own name. *)
LEMMA WebNames == IInv /\ web # None /\ web.queue \in Paths => web.name = NameOf[web.queue]
  BY DaemonAssumption DEF IInv, Types, Queues

LEMMA UploadArchive ==
    ASSUME IInv, ArchiveInv, NEW p \in Paths, NEW c, Upload(p, c)
    PROVE  ArchiveInv'
<1>1. /\ inbox' = [inbox EXCEPT ![p] = c] /\ Put(p, NameOf[p], c)
      /\ UNCHANGED <<retry, dlq, archive, runs, web, published, dismissed>>
  BY DEF Upload, outside
<1>2. /\ inbox'[p] = c /\ \A q \in Paths \ {p} : inbox'[q] = inbox[q]
  BY <1>1 DEF IInv, Types
<1>3. web # None /\ web.stage = "file" =>
         Held(web.queue, web.name)' \in {None, Held(web.queue, web.name)} \cup overtaken'
  BY <1>1, <1>2, PutIs, WebNames, DaemonAssumption DEF Held, IInv, Types, Queues
<1>4. \A i \in Slots : Archiving(i) /\ runs[i].path = p => inbox'[p] \in {runs[i].hash} \cup overtaken'
  BY <1>1, <1>2, PutIs
<1>5. QED
  BY <1>1, <1>2, <1>3, <1>4, PutIs, FilesArchive

LEMMA RequeueArchive ==
    ASSUME IInv, ArchiveInv, NEW n \in Names, Requeue(n)
    PROVE  ArchiveInv'
<1> DEFINE p == RootPath[n]
<1>1. p \in Paths /\ NameOf[p] = n /\ UNCHANGED <<dlq, archive, runs, web, published, dismissed>>
  BY DaemonAssumption DEF Requeue, outside
<1>2. CASE UNCHANGED <<inbox, retry, overtaken>>
  <2>1. Held(web.queue, web.name)' = Held(web.queue, web.name)
    BY <1>1, <1>2 DEF Held
  <2>2. QED
    BY <1>1, <1>2, <2>1, FilesArchive
<1>3. CASE /\ inbox' = [inbox EXCEPT ![p] = retry[n]]
           /\ retry' = [retry EXCEPT ![n] = None]
           /\ Put(p, n, retry[n])
  <2>1. /\ inbox'[p] = retry[n] /\ \A q \in Paths \ {p} : inbox'[q] = inbox[q]
        /\ retry'[n] = None /\ \A m \in Names \ {n} : retry'[m] = retry[m]
    BY <1>1, <1>3 DEF IInv, Types
  <2>2. web # None /\ web.stage = "file" =>
           Held(web.queue, web.name)' \in {None, Held(web.queue, web.name)} \cup overtaken'
    BY <1>1, <1>3, <2>1, PutIs, WebNames, DaemonAssumption DEF Held, IInv, Types, Queues
  <2>3. \A i \in Slots : Archiving(i) /\ runs[i].path = p => inbox'[p] \in {runs[i].hash} \cup overtaken'
    BY <1>3, <2>1, PutIs
  <2>4. overtaken \subseteq overtaken'
    BY <1>3, PutIs
  <2> HIDE DEF p
  <2>5. QED
    BY <1>1, <2>1, <2>2, <2>3, <2>4, FilesArchive
<1>4. QED
  BY <1>2, <1>3 DEF Requeue

(* The last rename takes to the archive what is recorded, or known. *)
LEMMA FileArchive ==
    ASSUME IInv, ArchiveInv, NEW i \in Slots, Archive(i) \/ ToDLQ(i)
    PROVE  ArchiveInv'
<1> DEFINE p == runs[i].path
           n == NameOf[p]
<1>1. /\ runs[i] \in Callback /\ runs[i] # None /\ p \in Paths /\ n \in Names
      /\ runs[i].stage \in {"archive", "dlq"}
      /\ UNCHANGED <<retry, web, published, dismissed>>
  BY DaemonAssumption DEF IInv, Types, Working, Archive, ToDLQ, Callback, outside
<1>2. runs'[i] = None /\ \A j \in Slots \ {i} : runs'[j] = runs[j]
  BY DEF IInv, Types, Archive, ToDLQ, Finish
<1>3. \A j \in Slots : Archiving(j)' => runs'[j] = runs[j]
  BY <1>2 DEF Archiving
<1>4. \A q \in Paths : inbox'[q] \in {inbox[q], None}
  <2>1. inbox' = inbox \/ inbox' = [inbox EXCEPT ![p] = None]
    BY DEF Archive, ToDLQ, Moved, NotMoved
  <2>2. QED
    BY <2>1 DEF IInv, Types
<1>5. CASE Archive(i)
  <2>1. /\ UNCHANGED <<dlq, overtaken>>
        /\ archive' = [archive EXCEPT ![n] = At(i)] \/ archive' = archive
    BY <1>5 DEF Archive, Filed
  <2>2. At(i) \in {None} \cup published \cup dismissed \cup overtaken
    BY <1>1, <1>5 DEF Archive, ArchiveInv, ArchiveIsDue, Archiving, Working
  <2>3. \/ archive' = archive
        \/ \E m \in Names : \E c \in {None} \cup published \cup dismissed \cup overtaken :
              archive' = [archive EXCEPT ![m] = c]
    BY <1>1, <2>1, <2>2
  <2>4. web # None /\ web.stage = "file" =>
           Held(web.queue, web.name)' \in {None, Held(web.queue, web.name)} \cup overtaken'
    BY <1>1, <1>4, <2>1, DaemonAssumption DEF Held, IInv, Types, Queues
  <2>5. QED
    BY <1>1, <1>3, <1>4, <2>1, <2>3, <2>4, FilesArchive
<1>6. CASE ToDLQ(i)
  <2>1. /\ UNCHANGED archive
        /\ \/ dlq' = [dlq EXCEPT ![n] = At(i)] /\ Put("dlq", n, At(i))
           \/ UNCHANGED <<dlq, overtaken>>
    BY <1>6 DEF ToDLQ, Filed
  <2>2. overtaken \subseteq overtaken'
    BY <2>1, PutIs
  <2>3. web # None /\ web.stage = "file" /\ web.queue = "dlq" =>
           dlq'[web.name] \in {dlq[web.name]} \cup overtaken'
    <3>1. CASE UNCHANGED dlq
      BY <3>1
    <3>2. CASE dlq' = [dlq EXCEPT ![n] = At(i)] /\ Put("dlq", n, At(i))
      <4>1. dlq'[n] = At(i) /\ \A m \in Names \ {n} : dlq'[m] = dlq[m]
        BY <1>1, <3>2 DEF IInv, Types
      <4>2. web # None /\ web.stage = "file" /\ web.queue = "dlq" /\ web.name = n =>
               At(i) \in overtaken'
        BY <3>2, PutIs
      <4> HIDE DEF n
      <4>3. QED
        BY <4>1, <4>2 DEF IInv, Types
    <3>3. QED
      BY <2>1, <3>1, <3>2
  <2>4. web # None /\ web.stage = "file" =>
           Held(web.queue, web.name)' \in {None, Held(web.queue, web.name)} \cup overtaken'
    BY <1>1, <1>4, <2>3, DaemonAssumption DEF Held, IInv, Types, Queues
  <2>5. QED
    BY <1>1, <1>3, <1>4, <2>1, <2>2, <2>4, FilesArchive
<1>7. QED
  BY <1>5, <1>6

LEMMA ScheduleArchive ==
    ASSUME IInv, ArchiveInv, NEW i \in Slots, Schedule(i)
    PROVE  ArchiveInv'
<1> DEFINE p == runs[i].path
           n == NameOf[p]
<1>1. /\ runs[i] \in Callback /\ runs[i] # None /\ p \in Paths /\ n \in Names
      /\ runs \in [Slots -> Callback \cup {None}]
      /\ UNCHANGED <<dlq, archive, web, published, dismissed>>
  BY DaemonAssumption DEF IInv, Types, Working, Schedule, Callback, outside
<1>2. CASE Goto(i, "dlq") /\ UNCHANGED <<inbox, retry, overtaken>>
  <2>1. runs'[i].stage = "dlq" /\ \A j \in Slots \ {i} : runs'[j] = runs[j]
    BY <1>1, <1>2 DEF Goto, Callback
  <2>2. \A j \in Slots : Archiving(j)' => runs'[j] = runs[j]
    BY <2>1 DEF Archiving
  <2>3. Held(web.queue, web.name)' = Held(web.queue, web.name)
    BY <1>1, <1>2 DEF Held
  <2>4. QED
    BY <1>1, <1>2, <2>2, <2>3, FilesArchive
<1>3. CASE /\ retry' = [retry EXCEPT ![n] = inbox[p]] /\ Put("retry", n, inbox[p])
           /\ inbox' = [inbox EXCEPT ![p] = None]
           /\ runs' = [runs EXCEPT ![i].stage = "sidecar", ![i].attempt = sidecar[n] + 1]
  <2>1. PICK a : a = sidecar[n] + 1
    OBVIOUS
  <2>2. runs'[i] = [runs[i] EXCEPT !.stage = "sidecar", !.attempt = a]
        /\ \A j \in Slots \ {i} : runs'[j] = runs[j]
    BY <1>1, <1>3, <2>1
  <2>3. runs'[i].stage = "sidecar"
    BY <1>1, <2>2 DEF Callback
  <2>4. \A j \in Slots : Archiving(j)' => runs'[j] = runs[j]
    BY <2>2, <2>3 DEF Archiving
  <2>5. /\ \A q \in Paths : inbox'[q] \in {inbox[q], None}
        /\ retry'[n] = inbox[p] /\ \A m \in Names \ {n} : retry'[m] = retry[m]
    BY <1>1, <1>3 DEF IInv, Types
  <2>6. web # None /\ web.stage = "file" /\ web.queue = "retry" /\ web.name = n =>
           inbox[p] \in overtaken'
    BY <1>3, PutIs
  <2>7. overtaken \subseteq overtaken'
    BY <1>3, PutIs
  <2> HIDE DEF n, p
  <2>8. web # None /\ web.stage = "file" =>
           Held(web.queue, web.name)' \in {None, Held(web.queue, web.name)} \cup overtaken'
    BY <1>1, <2>5, <2>6, DaemonAssumption DEF Held, IInv, Types, Queues
  <2>9. QED
    BY <1>1, <2>4, <2>5, <2>7, <2>8, FilesArchive
<1>4. QED
  BY <1>2, <1>3 DEF Schedule

(* The web page itself: what it skips is dismissed before it is filed. *)
LEMMA WebArchive ==
    ASSUME IInv, ArchiveInv,
           \/ \E n \in Names : \E q \in Queues(n) : WebRetry(q, n) \/ WebSkip(q, n) \/ WebDelete(q, n)
           \/ WebFile
    PROVE  ArchiveInv'
<1>1. ASSUME NEW n \in Names, NEW q \in Queues(n), WebRetry(q, n) PROVE ArchiveInv'
  <2> DEFINE p == RootPath[n]
             c == Held(q, n)
  <2>1. /\ p \in Paths /\ UNCHANGED <<archive, runs, published, dismissed>>
        /\ Put(p, n, c)
    BY <1>1, DaemonAssumption DEF WebRetry, outside
  <2>2. \A r \in Paths : inbox'[r] = (IF r = p THEN c ELSE IF r = q THEN None ELSE inbox[r])
    BY <1>1 DEF WebRetry
  <2>3. ~(web' # None /\ web'.stage = "file")
    BY <1>1 DEF WebRetry, Cleanup, Serving
  <2>4. \A i \in Slots : Archiving(i) /\ runs[i].path = p => c \in {runs[i].hash} \cup overtaken'
    BY <2>1, PutIs
  <2>5. overtaken \subseteq overtaken'
    BY <2>1, PutIs
  <2> HIDE DEF p, c
  <2>6. QED
    BY <2>1, <2>2, <2>3, <2>4, <2>5, FilesArchive
<1>2. ASSUME NEW n \in Names, NEW q \in Queues(n), WebSkip(q, n) PROVE ArchiveInv'
  <2>1. /\ UNCHANGED <<inbox, retry, dlq, archive, runs, published, overtaken>>
        /\ dismissed' = dismissed \cup {Held(q, n)}
    BY <1>2 DEF WebSkip, files
  <2>2. /\ \A i \in Slots : /\ Archiving(i)' <=> Archiving(i)
                            /\ Working(i, "archive")' <=> Working(i, "archive")
        /\ \A i \in Slots : At(i)' = At(i)
    BY <2>1 DEF Archiving, Working, At
  <2>3. web' # None => web'.queue = q /\ web'.name = n
    BY <1>2 DEF WebSkip, Serving
  <2>4. Held(q, n)' = Held(q, n)
    BY <2>1 DEF Held
  <2>5. ArchiveIsDue'
    BY <2>1, <2>2, <2>3, <2>4 DEF ArchiveInv, ArchiveIsDue
  <2>6. QED
    BY <2>1, <2>5 DEF ArchiveInv
<1>3. ASSUME NEW n \in Names, NEW q \in Queues(n), WebDelete(q, n) PROVE ArchiveInv'
  <2>1. /\ UNCHANGED <<archive, runs, published, dismissed, overtaken>>
        /\ \A p \in Paths : inbox'[p] \in {inbox[p], None}
    BY <1>3 DEF WebDelete, outside, history
  <2>2. ~(web' # None /\ web'.stage = "file")
    BY <1>3 DEF WebDelete, Cleanup, Serving
  <2>3. QED
    BY <2>1, <2>2, FilesArchive
<1>4. CASE WebFile
  <2> DEFINE c == Held(web.queue, web.name)
  <2>1. /\ web # None /\ web.stage = "file"
        /\ UNCHANGED <<runs, published, dismissed, overtaken>>
        /\ ~(web' # None /\ web'.stage = "file")
    BY <1>4 DEF WebFile, Cleanup, Serving, outside, history
  <2>2. c \in {None} \cup dismissed \cup overtaken
    BY <2>1 DEF ArchiveInv, ArchiveIsDue
  <2>3. \A p \in Paths : inbox'[p] \in {inbox[p], None}
    BY <1>4 DEF WebFile
  <2>4. archive' = archive \/ archive' = [archive EXCEPT ![web.name] = c]
    BY <1>4 DEF WebFile
  <2> HIDE DEF c
  <2>5. \/ archive' = archive
        \/ \E m \in Names : \E d \in {None} \cup published \cup dismissed \cup overtaken :
              archive' = [archive EXCEPT ![m] = d]
    BY <2>1, <2>2, <2>4 DEF IInv, Types
  <2>6. QED
    BY <2>1, <2>3, <2>5, FilesArchive
<1>5. QED
  BY <1>1, <1>2, <1>3, <1>4

(* A new callback has looked at nothing that it would archive. *)
LEMMA FireArchive == ASSUME IInv, ArchiveInv, NEW p \in Paths, Fire(p) PROVE ArchiveInv'
<1>1. UNCHANGED <<inbox, retry, dlq, archive, web, published, dismissed, overtaken>>
  BY DEF Fire, files, outside, history
<1>2. Held(web.queue, web.name)' = Held(web.queue, web.name)
  BY <1>1 DEF Held
<1>3. \A j \in Slots : Archiving(j)' => runs'[j] = runs[j]
  <2>1. CASE UNCHANGED runs
    BY <2>1
  <2>2. CASE ~(inbox[p] = None)
    <3> DEFINE r == [path |-> p, stage |-> "settle", hash |-> inbox[p], body |-> None, attempt |-> 0]
               k == CHOOSE j \in Slots : Idle(j)
    <3>1. runs' = [runs EXCEPT ![k] = r] /\ r.stage = "settle"
      BY <2>2 DEF Fire
    <3> HIDE DEF r, k
    <3>2. \A j \in Slots : runs'[j] \in {r, runs[j]}
      BY <3>1 DEF IInv, Types
    <3>3. QED
      BY <3>1, <3>2 DEF Archiving
  <2>3. QED
    BY <2>1, <2>2 DEF Fire
<1>4. QED
  BY <1>1, <1>2, <1>3, FilesArchive

LEMMA NextArchive == IInv /\ ArchiveInv /\ [Next]_vars => ArchiveInv'
<1> SUFFICES ASSUME IInv, ArchiveInv, [Next]_vars PROVE ArchiveInv'
  OBVIOUS
<1>1. CASE \E i \in Slots : Run(i)
  BY <1>1, ProcessArchive, FileArchive, ScheduleArchive DEF Run
<1>2. CASE \E p \in Paths, c \in 1 .. events.uploads + 1 : Upload(p, c)
  BY <1>2, UploadArchive
<1>3. CASE \E p \in Paths : Fire(p)
  BY <1>3, FireArchive
<1>4. CASE \E n \in Names : Requeue(n)
  BY <1>4, RequeueArchive
<1>5. CASE \/ \E n \in Names : \E q \in Queues(n) : WebRetry(q, n) \/ WebSkip(q, n) \/ WebDelete(q, n)
           \/ WebFile
  BY <1>5, WebArchive
<1>6. CASE WebCleanup \/ Restart
  <2>1. /\ web' = None /\ UNCHANGED <<inbox, archive, published, dismissed, overtaken>>
        /\ \A i \in Slots : Archiving(i)' => runs'[i] = runs[i]
    BY <1>6 DEF WebCleanup, Restart, files, outside, Archiving
  <2>2. QED
    BY <2>1, FilesArchive
<1>7. CASE \/ \E p \in Paths : AttachDir(p)
           \/ \E n \in Names : Requeued(n)
           \/ UNCHANGED vars
  <2>1. UNCHANGED <<inbox, retry, dlq, archive, runs, web, published, dismissed, overtaken>>
    BY <1>7 DEF AttachDir, Requeued, vars, files, memory, outside, history
  <2>2. Held(web.queue, web.name)' = Held(web.queue, web.name)
    BY <2>1 DEF Held
  <2>3. QED
    BY <2>1, <2>2, FilesArchive
<1>8. QED
  BY <1>1, <1>2, <1>3, <1>4, <1>5, <1>6, <1>7 DEF Next

LEMMA InitArchive == Init => ArchiveInv
  BY DEF Init, ArchiveInv, ArchiveIsDue, Archiving, Working

(* The property of the run `daemon`: whatever the tablet, the callbacks, the
   spool, the web page and restarts do to the files of the shared
   directories, a note in inbox/ is taken, one in retry/ has its sidecar, and
   only what was published or dismissed is archived, except for the files
   that the model records as stranded, and as overtaken: those that came
   under a path whose last content was about to be archived. *)
THEOREM NoNoteIsForgottenHolds == Spec => []NoNoteIsForgotten
<1>1. IInv /\ ArchiveInv => NoNoteIsForgotten
  BY IInvSuffices DEF ArchiveInv, ArchiveIsDealtWith, NoNoteIsForgotten
<1>2. QED
  BY <1>1, InitArchive, NextArchive, DaemonInvariant, PTL DEF Spec
-----------------------------------------------------------------------------
(* One document for each content. *)

(* The stages of a run that is past its dedup check, and whose document is
   not marked yet. *)
Past == {"parse", "hwr", "create", "pages", "mark"}

Publishing(i, c) == runs[i] # None /\ runs[i].stage \in Past /\ runs[i].hash = c

Created(i, c) ==
    runs[i] # None /\ runs[i].stage \in {"pages", "mark"} /\ runs[i].body = c

(* A content that nothing excuses has one run at most past the dedup check,
   which read what it had hashed; its document is not marked only while
   that run is on its way to the mark. *)
Once(c) ==
    c \notin excused =>
        /\ \A i, j \in Slots : Publishing(i, c) /\ Publishing(j, c) => i = j
        /\ \A i \in Slots :
              runs[i] # None /\ runs[i].stage \in Past \ {"parse"} /\ runs[i].body = c
              => runs[i].hash = c
        /\ docs[c] \in {0, 1}
        /\ docs[c] = 1 => c \in seen \/ \E i \in Slots : Created(i, c)
        /\ \A i \in Slots :
              Publishing(i, c) /\ runs[i].stage \in {"parse", "hwr", "create"} => docs[c] = 0

(* What is read of a file is a content; what a restart forgets was excused. *)
BodiesAreRead ==
    \A i \in Slots :
        runs[i] # None /\ runs[i].stage \in Past \ {"parse"} => runs[i].body \in Contents

DocsInv ==
    /\ docs \in [Contents -> Nat]
    /\ BodiesAreRead
    /\ seen \ saved \subseteq excused
    /\ \A c \in Contents : Once(c)

(* Nothing is published at first. *)
LEMMA InitDocs == Init => DocsInv
<1> SUFFICES ASSUME Init PROVE DocsInv
  OBVIOUS
<1>1. docs \in [Contents -> Nat] /\ \A c \in Contents : docs[c] = 0
  BY DEF Init
<1>2. \A i \in Slots : runs[i] = None
  BY DEF Init
<1>3. \A c \in Contents : Once(c)
  BY <1>1, <1>2 DEF Once, Publishing, Created
<1>4. QED
  BY <1>1, <1>2, <1>3 DEF DocsInv, BodiesAreRead, Init

(* A run that has no document open is given up, or sent elsewhere. *)
LEMMA RunLeaves ==
    ASSUME DocsInv, NEW i \in Slots,
           runs[i] = None \/ runs[i].stage \notin {"pages", "mark"} \/ runs[i].body \in excused',
           runs'[i] = None \/ runs'[i].stage \notin Past,
           \A j \in Slots \ {i} : runs'[j] = runs[j],
           docs' \in [Contents -> Nat],
           \A c \in Contents : c \notin excused' => docs'[c] = docs[c],
           UNCHANGED <<seen, saved>>, excused \subseteq excused'
    PROVE  DocsInv'
<1>1. ASSUME NEW c \in Contents, c \notin excused' PROVE Once(c)'
  <2>1. Once(c) /\ c \notin excused /\ docs'[c] = docs[c]
    BY <1>1 DEF DocsInv
  <2>2. \A j \in Slots : Publishing(j, c)' => Publishing(j, c) /\ runs'[j] = runs[j]
    BY DEF Publishing
  <2>3. \A j \in Slots : Created(j, c) => Created(j, c)'
    BY <1>1 DEF Created
  <2>4. \A j \in Slots : runs'[j] # None /\ runs'[j].stage \in Past => runs'[j] = runs[j]
    OBVIOUS
  <2>5. QED
    BY <2>1, <2>2, <2>3, <2>4 DEF Once
<1>2. \A c \in Contents : Once(c)'
  BY <1>1 DEF Once
<1>3. BodiesAreRead'
  BY DEF DocsInv, BodiesAreRead
<1>4. QED
  BY <1>2, <1>3 DEF DocsInv

(* Steps that neither move a run nor write a list or a document. *)
LEMMA RunsStay ==
    ASSUME DocsInv, UNCHANGED <<runs, docs, seen, saved, excused>>
    PROVE  DocsInv'
BY DEF DocsInv, Once, Publishing, Created, BodiesAreRead

(* A run past its dedup check goes on with what it has hashed and read. *)
LEMMA RunGoesOn ==
    ASSUME DocsInv, NEW i \in Slots, NEW s \in {"hwr", "create"},
           runs[i] # None, runs'[i] # None,
           runs[i].stage \in {"parse", "hwr"}, runs'[i].stage = s,
           runs'[i].hash = runs[i].hash, runs'[i].body \in Contents,
           runs'[i].body \notin excused' => runs'[i].body = runs[i].hash,
           \A j \in Slots \ {i} : runs'[j] = runs[j],
           UNCHANGED <<docs, seen, saved>>, excused \subseteq excused'
    PROVE  DocsInv'
<1>1. ASSUME NEW c \in Contents, c \notin excused' PROVE Once(c)'
  <2>1. Once(c) /\ c \notin excused
    BY <1>1 DEF DocsInv
  <2>2. \A j \in Slots : Publishing(j, c)' <=> Publishing(j, c)
    BY DEF Publishing, Past
  <2>3. \A j \in Slots : Created(j, c) => Created(j, c)'
    BY <1>1 DEF Created
  <2>4. \A j \in Slots : j # i => runs'[j] = runs[j]
    OBVIOUS
  <2>5. \A j \in Slots : runs'[j] # None /\ runs'[j].stage \in Past \ {"parse"} /\ runs'[j].body = c
                         => runs'[j].hash = c
    BY <1>1, <2>1, <2>4 DEF Once
  <2>6. \A j \in Slots : Publishing(j, c)' /\ runs'[j].stage \in {"parse", "hwr", "create"}
                         => docs[c] = 0
    BY <2>1, <2>2, <2>4 DEF Once
  <2>7. QED
    BY <2>1, <2>2, <2>3, <2>5, <2>6 DEF Once
<1>2. \A c \in Contents : Once(c)'
  BY <1>1 DEF Once
<1>3. BodiesAreRead'
  BY DEF DocsInv, BodiesAreRead
<1>4. QED
  BY <1>2, <1>3 DEF DocsInv

(* What a step makes of a run, field by field. *)
LEMMA RunFields ==
    ASSUME IInv, NEW i \in Slots, runs[i] # None
    PROVE  /\ runs[i] \in Callback /\ runs \in [Slots -> Callback \cup {None}]
           /\ \A s \in Stages : Goto(i, s) =>
                /\ runs'[i] # None /\ runs'[i].stage = s /\ runs'[i].hash = runs[i].hash
                /\ runs'[i].body = runs[i].body
                /\ \A j \in Slots \ {i} : runs'[j] = runs[j]
<1>1. runs \in [Slots -> Callback \cup {None}] /\ runs[i] \in Callback
  BY DEF IInv, Types
<1>2. ASSUME NEW s \in Stages, Goto(i, s)
      PROVE  /\ runs'[i] # None /\ runs'[i].stage = s /\ runs'[i].hash = runs[i].hash
             /\ runs'[i].body = runs[i].body
             /\ \A j \in Slots \ {i} : runs'[j] = runs[j]
  <2>1. runs'[i] = [runs[i] EXCEPT !.stage = s]
    BY <1>1, <1>2 DEF Goto
  <2>2. runs'[i] \in Callback
    BY <1>1, <2>1 DEF Callback
  <2>3. QED
    BY <1>1, <1>2, <2>1, <2>2, DaemonAssumption DEF Callback, Goto
<1>3. QED
  BY <1>1, <1>2

(* A content that is neither listed nor being published has no document, and
   a second run of one that is being published excuses it. *)
LEMMA CheckDocs == ASSUME IInv, DocsInv, NEW i \in Slots, Check(i) PROVE DocsInv'
<1> DEFINE c == At(i)
<1>1. /\ runs[i] # None /\ runs[i].stage = "settle" /\ runs[i] \in Callback
      /\ runs \in [Slots -> Callback \cup {None}] /\ c \in Contents
      /\ UNCHANGED <<docs, seen, saved>>
  BY RunFields DEF Check, Working, At, IInv, Types, Callback, outside
<1>2. ASSUME NEW s \in Stages, runs' = [runs EXCEPT ![i].hash = c, ![i].stage = s]
      PROVE  /\ runs'[i] # None /\ runs'[i].stage = s /\ runs'[i].hash = c
             /\ \A j \in Slots \ {i} : runs'[j] = runs[j]
  <2>1. runs'[i] = [runs[i] EXCEPT !.hash = c, !.stage = s]
    BY <1>1, <1>2
  <2>2. runs'[i] \in Callback
    BY <1>1, <2>1 DEF Callback
  <2>3. QED
    BY <1>1, <1>2, <2>1, <2>2, DaemonAssumption DEF Callback
<1>3. CASE \/ runs' = [runs EXCEPT ![i].hash = c, ![i].stage = "archive"] /\ UNCHANGED excused
           \/ runs' = [runs EXCEPT ![i].hash = c, ![i].stage = "dlq"] /\ UNCHANGED excused
  <2>1. "archive" \in Stages /\ "dlq" \in Stages
    BY DEF Stages
  <2>2. runs'[i] # None /\ runs'[i].stage \in {"archive", "dlq"}
        /\ \A j \in Slots \ {i} : runs'[j] = runs[j]
    BY <1>2, <1>3, <2>1
  <2>3. QED
    BY <1>1, <1>3, <2>2, RunLeaves DEF DocsInv, Past
<1>4. CASE /\ ~Has(c)
           /\ runs' = [runs EXCEPT ![i].hash = c, ![i].stage = "parse"]
           /\ excused' = IF c \in BeingPublished THEN excused \cup {c} ELSE excused
  <2>1. /\ runs'[i] # None /\ runs'[i].stage = "parse" /\ runs'[i].hash = c
        /\ \A j \in Slots \ {i} : runs'[j] = runs[j]
    BY <1>2, <1>4 DEF Stages
  <2>2. ASSUME NEW d \in Contents, d \notin excused' PROVE Once(d)'
    <3>1. Once(d) /\ d \notin excused
      BY <1>4, <2>2 DEF DocsInv
    <3>2. \A j \in Slots : j # i => (Publishing(j, d)' <=> Publishing(j, d))
      BY <2>1 DEF Publishing
    <3>3. \A j \in Slots : Created(j, d) => Created(j, d)'
      BY <1>1, <2>1 DEF Created
    <3>4. \A j \in Slots : runs'[j] # None /\ runs'[j].stage \in Past \ {"parse"} => runs'[j] = runs[j]
      BY <2>1
    <3>5. CASE d # c
      <4>1. ~Publishing(i, d)'
        BY <2>1, <3>5 DEF Publishing
      <4>2. QED
        BY <1>1, <2>1, <3>1, <3>2, <3>3, <3>4, <4>1 DEF Once
    <3>6. CASE d = c
      <4>1. \A j \in Slots : ~Publishing(j, d)
        <5>1. c \notin BeingPublished
          BY <1>4, <2>2, <3>6
        <5>2. QED
          BY <3>6, <5>1 DEF BeingPublished, Publishing, Past
      <4>2. \A j \in Slots : ~Created(j, d)
        BY <3>1, <4>1 DEF Created, Publishing, Once, Past
      <4>3. docs[d] = 0
        BY <1>4, <3>1, <3>6, <4>2 DEF Once, Has
      <4>4. QED
        BY <1>1, <3>1, <3>2, <3>4, <4>1, <4>3 DEF Once
    <3>7. QED
      BY <3>5, <3>6
  <2>3. \A d \in Contents : Once(d)'
    BY <2>2 DEF Once
  <2>4. BodiesAreRead'
    BY <2>1 DEF DocsInv, BodiesAreRead
  <2>5. QED
    BY <1>1, <1>4, <2>3, <2>4 DEF DocsInv
<1>5. QED
  BY <1>3, <1>4 DEF Check

(* A run that reads another content than it hashed excuses that one. *)
LEMMA ParseDocs == ASSUME IInv, DocsInv, NEW i \in Slots, Parse(i) PROVE DocsInv'
<1>1. /\ runs[i] # None /\ runs[i].stage = "parse" /\ runs[i] \in Callback
      /\ runs \in [Slots -> Callback \cup {None}]
      /\ UNCHANGED <<docs, seen, saved>> /\ At(i) \in Contents \cup {None}
  BY RunFields DEF Parse, Working, outside, At, IInv, Types, Callback
<1>2. CASE /\ At(i) # None
           /\ runs' = [runs EXCEPT ![i].body = At(i), ![i].stage = "hwr"]
           /\ excused' = IF At(i) = runs[i].hash THEN excused ELSE excused \cup {At(i)}
  <2>1. runs'[i] = [runs[i] EXCEPT !.body = At(i), !.stage = "hwr"]
        /\ \A j \in Slots \ {i} : runs'[j] = runs[j]
    BY <1>1, <1>2
  <2>2. runs'[i] \in Callback
    BY <1>1, <2>1 DEF Callback, Stages
  <2>3. runs'[i] # None /\ runs'[i].stage = "hwr" /\ runs'[i].hash = runs[i].hash
        /\ runs'[i].body = At(i)
    BY <1>1, <2>1, <2>2, DaemonAssumption DEF Callback
  <2>4. runs'[i].body \in Contents /\ excused \subseteq excused'
        /\ (runs'[i].body \notin excused' => runs'[i].body = runs[i].hash)
    BY <1>1, <1>2, <2>3
  <2>5. QED
    BY <1>1, <2>1, <2>3, <2>4, RunGoesOn
<1>3. CASE Goto(i, "dlq") /\ UNCHANGED excused
  <2>1. runs'[i].stage = "dlq" /\ \A j \in Slots \ {i} : runs'[j] = runs[j]
    BY <1>1, <1>3, RunFields DEF Stages
  <2>2. QED
    BY <1>1, <1>3, <2>1, RunLeaves DEF DocsInv, Past
<1>4. QED
  BY <1>2, <1>3 DEF Parse

(* A run that is refused for now has no document yet. *)
LEMMA TranscribeDocs == ASSUME IInv, DocsInv, NEW i \in Slots, Transcribe(i) PROVE DocsInv'
<1>1. /\ runs[i] # None /\ runs[i].stage = "hwr"
      /\ UNCHANGED <<docs, seen, saved, excused>>
  BY DEF Transcribe, Working, outside, history
<1>2. CASE Goto(i, "create")
  <2>1. runs[i].body \in Contents
    BY <1>1 DEF DocsInv, BodiesAreRead, Past
  <2>2. runs[i].body \notin excused => runs[i].body = runs[i].hash
    BY <1>1, <2>1 DEF DocsInv, Once, Past
  <2>3. /\ runs'[i] # None /\ runs'[i].stage = "create" /\ runs'[i].hash = runs[i].hash
        /\ runs'[i].body = runs[i].body
        /\ \A j \in Slots \ {i} : runs'[j] = runs[j]
    BY <1>1, <1>2, RunFields DEF Stages
  <2>4. QED
    BY <1>1, <2>1, <2>2, <2>3, RunGoesOn
<1>3. CASE Goto(i, "schedule") \/ Goto(i, "dlq")
  <2>1. runs'[i].stage \in {"schedule", "dlq"} /\ \A j \in Slots \ {i} : runs'[j] = runs[j]
    BY <1>1, <1>3, RunFields DEF Stages
  <2>2. QED
    BY <1>1, <2>1, RunLeaves DEF DocsInv, Past
<1>4. QED
  BY <1>2, <1>3 DEF Transcribe

(* The document of a content is its first: no run of it was marked. *)
LEMMA CreateDocDocs == ASSUME IInv, DocsInv, NEW i \in Slots, CreateDoc(i) PROVE DocsInv'
<1>1. /\ runs[i] # None /\ runs[i].stage = "create"
      /\ UNCHANGED <<seen, saved>>
  BY DEF CreateDoc, Working
<1>2. CASE docs' = [docs EXCEPT ![runs[i].body] = @ + 1] /\ Goto(i, "pages") /\ UNCHANGED excused
  <2> DEFINE b == runs[i].body
  <2>1. b \in Contents
    BY <1>1 DEF DocsInv, BodiesAreRead, Past
  <2>2. /\ runs'[i] # None /\ runs'[i].stage = "pages" /\ runs'[i].hash = runs[i].hash
        /\ runs'[i].body = b
        /\ \A j \in Slots \ {i} : runs'[j] = runs[j]
    BY <1>1, <1>2, RunFields DEF Stages
  <2>3. docs' \in [Contents -> Nat] /\ docs'[b] = docs[b] + 1
        /\ \A c \in Contents \ {b} : docs'[c] = docs[c]
    BY <1>2, <2>1 DEF DocsInv
  <2>4. ASSUME NEW c \in Contents, c \notin excused' PROVE Once(c)'
    <3>1. Once(c) /\ c \notin excused
      BY <1>2, <2>4 DEF DocsInv
    <3>2. \A j \in Slots : Publishing(j, c)' <=> Publishing(j, c)
      BY <1>1, <2>2 DEF Publishing, Past
    <3>3. \A j \in Slots : Created(j, c) => Created(j, c)'
      BY <1>1, <2>2 DEF Created
    <3>4. \A j \in Slots : j # i => runs'[j] = runs[j]
      BY <2>2
    <3>5. \A j \in Slots : runs'[j] # None /\ runs'[j].stage \in Past \ {"parse"} /\ runs'[j].body = c
                           => runs'[j].hash = c
      BY <1>1, <2>2, <3>1 DEF Once, Past
    <3>6. CASE c = b
      <4>1. runs[i].hash = c
        BY <1>1, <3>1, <3>6 DEF Once, Past
      <4>2. docs[c] = 0 /\ Publishing(i, c)
        BY <1>1, <3>1, <4>1 DEF Once, Publishing, Past
      <4>3. docs'[c] = 1 /\ Created(i, c)'
        BY <2>2, <2>3, <3>6, <4>2 DEF Created
      <4>4. \A j \in Slots : Publishing(j, c)' => j = i
        BY <3>1, <3>2, <4>2 DEF Once
      <4>5. QED
        BY <2>2, <3>5, <4>3, <4>4 DEF Once
    <3>7. CASE c # b
      <4>1. docs'[c] = docs[c]
        BY <2>3, <3>7
      <4>2. \A j \in Slots : Publishing(j, c)' /\ runs'[j].stage \in {"parse", "hwr", "create"}
                             => docs[c] = 0
        BY <2>2, <3>1, <3>2 DEF Once
      <4>3. \A j, k \in Slots : Publishing(j, c)' /\ Publishing(k, c)' => j = k
        BY <3>1, <3>2 DEF Once
      <4>4. docs[c] = 1 => c \in seen' \/ \E j \in Slots : Created(j, c)'
        BY <1>1, <3>1, <3>3 DEF Once
      <4>5. docs[c] \in {0, 1}
        BY <3>1 DEF Once
      <4>6. QED
        BY <3>5, <4>1, <4>2, <4>3, <4>4, <4>5 DEF Once
    <3>8. QED
      BY <3>6, <3>7
  <2>5. \A c \in Contents : Once(c)'
    BY <2>4 DEF Once
  <2>6. BodiesAreRead'
    BY <2>1, <2>2 DEF DocsInv, BodiesAreRead
  <2>7. QED
    BY <1>1, <1>2, <2>3, <2>5, <2>6 DEF DocsInv
<1>3. CASE /\ Goto(i, "dlq")
           /\ \/ UNCHANGED <<docs, excused>>
              \/ /\ docs' = [docs EXCEPT ![runs[i].body] = @ + 1]
                 /\ excused' = excused \cup {runs[i].body}
  <2>1. runs'[i].stage = "dlq" /\ \A j \in Slots \ {i} : runs'[j] = runs[j]
    BY <1>1, <1>3, RunFields DEF Stages
  <2>2. runs[i].body \in Contents
    BY <1>1 DEF DocsInv, BodiesAreRead, Past
  <2>3. docs' \in [Contents -> Nat] /\ \A c \in Contents : c \notin excused' => docs'[c] = docs[c]
    BY <1>3, <2>2 DEF DocsInv
  <2>4. excused \subseteq excused'
    BY <1>3
  <2>5. QED
    BY <1>1, <2>1, <2>3, <2>4, RunLeaves DEF Past
<1>4. QED
  BY <1>2, <1>3 DEF CreateDoc

(* A document whose pages fail is excused. *)
LEMMA AppendPagesDocs == ASSUME IInv, DocsInv, NEW i \in Slots, AppendPages(i) PROVE DocsInv'
<1>1. /\ runs[i] # None /\ runs[i].stage = "pages"
      /\ UNCHANGED <<docs, seen, saved>>
  BY DEF AppendPages, Working
<1>2. CASE Goto(i, "mark") /\ UNCHANGED excused
  <2>1. /\ runs'[i] # None /\ runs'[i].stage = "mark" /\ runs'[i].hash = runs[i].hash
        /\ runs'[i].body = runs[i].body
        /\ \A j \in Slots \ {i} : runs'[j] = runs[j]
    BY <1>1, <1>2, RunFields DEF Stages
  <2>2. ASSUME NEW c \in Contents PROVE Once(c)'
    <3>1. Once(c)
      BY DEF DocsInv
    <3>2. \A j \in Slots : /\ Publishing(j, c)' <=> Publishing(j, c)
                           /\ Created(j, c)' <=> Created(j, c)
      BY <1>1, <2>1 DEF Publishing, Created, Past
    <3>3. \A j \in Slots : runs'[j] # None /\ runs'[j].stage \in Past \ {"parse"} /\ runs'[j].body = c
          => runs[j] # None /\ runs[j].stage \in Past \ {"parse"} /\ runs[j].body = c
             /\ runs'[j].hash = runs[j].hash
      BY <1>1, <2>1 DEF Past
    <3>4. \A j \in Slots : Publishing(j, c)' /\ runs'[j].stage \in {"parse", "hwr", "create"}
          => Publishing(j, c) /\ runs[j].stage \in {"parse", "hwr", "create"}
      BY <2>1, <3>2
    <3>5. QED
      BY <1>1, <1>2, <3>1, <3>2, <3>3, <3>4 DEF Once
  <2>3. BodiesAreRead'
    BY <1>1, <2>1 DEF DocsInv, BodiesAreRead, Past
  <2>4. QED
    BY <1>1, <1>2, <2>2, <2>3 DEF DocsInv
<1>3. CASE Goto(i, "dlq") /\ excused' = excused \cup {runs[i].body}
  <2>1. runs'[i].stage = "dlq" /\ \A j \in Slots \ {i} : runs'[j] = runs[j]
    BY <1>1, <1>3, RunFields DEF Stages
  <2>2. QED
    BY <1>1, <1>3, <2>1, RunLeaves DEF DocsInv, Past
<1>4. QED
  BY <1>2, <1>3 DEF AppendPages

(* A content marked in memory and not in the list is excused. *)
LEMMA MarkIs ==
    ASSUME seen \ saved \subseteq excused, NEW c, Mark(c)
    PROVE  seen' = seen \cup {c} /\ seen' \ saved' \subseteq excused' /\ excused \subseteq excused'
BY DEF Mark

(* A run that reaches its mark hands its document over to the list. *)
LEMMA MarkSeenDocs == ASSUME IInv, DocsInv, NEW i \in Slots, MarkSeen(i) PROVE DocsInv'
<1> DEFINE h == runs[i].hash
<1>1. /\ runs[i] # None /\ runs[i].stage = "mark"
      /\ docs' = docs /\ Mark(h) /\ Goto(i, "archive")
  BY DEF MarkSeen, Working
<1>2. seen' = seen \cup {h} /\ seen' \ saved' \subseteq excused' /\ excused \subseteq excused'
  BY <1>1, MarkIs DEF DocsInv
<1>3. runs'[i].stage = "archive" /\ \A j \in Slots \ {i} : runs'[j] = runs[j]
  BY <1>1, RunFields DEF Stages
<1>4. ASSUME NEW c \in Contents, c \notin excused' PROVE Once(c)'
  <2>1. Once(c) /\ c \notin excused
    BY <1>2, <1>4 DEF DocsInv
  <2>2. \A j \in Slots : Publishing(j, c)' => Publishing(j, c) /\ runs'[j] = runs[j]
    BY <1>3 DEF Publishing, Past
  <2>3. \A j \in Slots : runs'[j] # None /\ runs'[j].stage \in Past => runs'[j] = runs[j]
    BY <1>3 DEF Past
  <2>4. ASSUME docs[c] = 1 PROVE c \in seen' \/ \E j \in Slots : Created(j, c)'
    <3>1. CASE c \in seen
      BY <1>2, <3>1
    <3>2. CASE \E j \in Slots : Created(j, c)
      <4>1. PICK j \in Slots : Created(j, c)
        BY <3>2
      <4>2. CASE j = i
        <5>1. h = c
          BY <1>1, <2>1, <4>1, <4>2 DEF Once, Created, Past
        <5>2. QED
          BY <1>2, <5>1
      <4>3. CASE j # i
        <5>1. Created(j, c)'
          BY <1>3, <4>1, <4>3 DEF Created
        <5>2. QED
          BY <5>1
      <4>4. QED
        BY <4>2, <4>3
    <3>3. QED
      BY <2>1, <2>4, <3>1, <3>2 DEF Once
  <2>5. QED
    BY <1>1, <2>1, <2>2, <2>3, <2>4 DEF Once
<1>5. \A c \in Contents : Once(c)'
  BY <1>4 DEF Once
<1>6. BodiesAreRead'
  BY <1>3 DEF DocsInv, BodiesAreRead, Past
<1>7. QED
  BY <1>1, <1>2, <1>5, <1>6 DEF DocsInv

(* The steps that end a run, or take it out of the pipeline. *)
LEMMA EndDocs ==
    ASSUME IInv, DocsInv, NEW i \in Slots,
           Unstable(i) \/ Archive(i) \/ ToDLQ(i) \/ Schedule(i) \/ WriteSidecar(i)
    PROVE  DocsInv'
<1>1. /\ UNCHANGED <<docs, seen, saved, excused>>
      /\ runs[i] # None /\ runs[i].stage \notin {"pages", "mark"}
  BY DEF Unstable, Archive, ToDLQ, Schedule, WriteSidecar, Working, outside, history
<1>2. runs \in [Slots -> Callback \cup {None}] /\ runs[i] \in Callback
  BY <1>1, RunFields
<1>3. (runs'[i] = None \/ runs'[i].stage \notin Past) /\ \A j \in Slots \ {i} : runs'[j] = runs[j]
  <2>1. CASE Finish(i)
    BY <1>2, <2>1 DEF Finish
  <2>2. CASE Goto(i, "dlq")
    BY <1>1, <2>2, RunFields DEF Stages, Past
  <2>3. CASE \E a : runs' = [runs EXCEPT ![i].stage = "sidecar", ![i].attempt = a]
    <3>1. PICK a : runs' = [runs EXCEPT ![i].stage = "sidecar", ![i].attempt = a]
      BY <2>3
    <3>2. runs'[i] = [runs[i] EXCEPT !.stage = "sidecar", !.attempt = a]
          /\ \A j \in Slots \ {i} : runs'[j] = runs[j]
      BY <1>2, <3>1
    <3>3. runs'[i].stage = "sidecar"
      BY <1>2, <3>2 DEF Callback
    <3>4. QED
      BY <3>2, <3>3 DEF Past
  <2>4. QED
    BY <2>1, <2>2, <2>3 DEF Unstable, Archive, ToDLQ, Schedule, WriteSidecar
<1>4. QED
  BY <1>1, <1>3, RunLeaves DEF DocsInv

(* A timer starts a run before its check. *)
LEMMA FireDocs == ASSUME IInv, DocsInv, NEW p \in Paths, Fire(p) PROVE DocsInv'
<1>1. UNCHANGED <<docs, seen, saved, excused>>
  BY DEF Fire, outside, history
<1>2. CASE UNCHANGED runs
  BY <1>1, <1>2, RunsStay
<1>3. CASE ~(inbox[p] = None)
  <2> DEFINE r == [path |-> p, stage |-> "settle", hash |-> inbox[p], body |-> None, attempt |-> 0]
             k == CHOOSE j \in Slots : Idle(j)
  <2>1. k \in Slots /\ runs[k] = None /\ runs' = [runs EXCEPT ![k] = r]
    <3>1. (\E j \in Slots : Idle(j)) /\ runs' = [runs EXCEPT ![k] = r]
      BY <1>3 DEF Fire
    <3> HIDE DEF r
    <3>2. k \in Slots /\ Idle(k)
      BY <3>1
    <3>3. QED
      BY <3>1, <3>2 DEF Idle
  <2>2. r.stage = "settle"
    OBVIOUS
  <2> HIDE DEF r, k
  <2>3. runs'[k] = r /\ \A j \in Slots \ {k} : runs'[j] = runs[j]
    BY <2>1 DEF IInv, Types
  <2>4. QED
    BY <1>1, <2>1, <2>2, <2>3, RunLeaves DEF DocsInv, Past
<1>4. QED
  BY <1>2, <1>3 DEF Fire

(* Skipping marks a content that may have no document. *)
LEMMA WebSkipDocs ==
    ASSUME IInv, DocsInv, NEW n \in Names, NEW q \in Queues(n), WebSkip(q, n)
    PROVE  DocsInv'
<1> DEFINE h == Held(q, n)
<1>1. /\ seen' = seen \cup {h} /\ UNCHANGED <<runs, docs>> /\ excused \subseteq excused'
      /\ seen' \ saved' \subseteq excused'
  BY DEF WebSkip, DocsInv
<1>2. ASSUME NEW c \in Contents, c \notin excused' PROVE Once(c)'
  <2>1. Once(c) /\ c \notin excused
    BY <1>1, <1>2 DEF DocsInv
  <2>2. QED
    BY <1>1, <2>1 DEF Once, Publishing, Created
<1>3. \A c \in Contents : Once(c)'
  BY <1>2 DEF Once
<1>4. QED
  BY <1>1, <1>3 DEF DocsInv, BodiesAreRead

(* A restart forgets what is not in the list and ends every run; what had a
   document and no mark is excused. *)
LEMMA RestartDocs == ASSUME IInv, DocsInv, Restart PROVE DocsInv'
<1>1. /\ \A i \in Slots : runs'[i] = None
      /\ seen' = saved /\ UNCHANGED <<docs, saved>> /\ excused \subseteq excused'
      /\ \A i \in Slots : Working(i, "pages") \/ Working(i, "mark") => runs[i].body \in excused'
  BY DEF Restart, outside, Interrupted
<1>2. ASSUME NEW c \in Contents, c \notin excused' PROVE Once(c)'
  <2>1. Once(c) /\ c \notin excused
    BY <1>1, <1>2 DEF DocsInv
  <2>2. \A i \in Slots : ~Created(i, c)
    BY <1>1, <1>2 DEF Created, Working
  <2>3. c \in seen => c \in saved
    BY <2>1 DEF DocsInv
  <2>4. QED
    BY <1>1, <2>1, <2>2, <2>3 DEF Once, Publishing, Created
<1>3. \A c \in Contents : Once(c)'
  BY <1>2 DEF Once
<1>4. QED
  BY <1>1, <1>3 DEF DocsInv, BodiesAreRead

(* No step publishes a content twice that nothing excuses. *)
LEMMA NextDocs == IInv /\ DocsInv /\ [Next]_vars => DocsInv'
<1> SUFFICES ASSUME IInv, DocsInv, [Next]_vars PROVE DocsInv'
  OBVIOUS
<1>1. CASE \E i \in Slots : Run(i)
  BY <1>1, CheckDocs, ParseDocs, TranscribeDocs, CreateDocDocs, AppendPagesDocs,
     MarkSeenDocs, EndDocs DEF Run
<1>2. CASE \E p \in Paths : Fire(p)
  BY <1>2, FireDocs
<1>3. CASE \E n \in Names : \E q \in Queues(n) : WebSkip(q, n)
  BY <1>3, WebSkipDocs
<1>4. CASE Restart
  BY <1>4, RestartDocs
<1>5. CASE \/ \E p \in Paths, c \in 1 .. events.uploads + 1 : Upload(p, c)
           \/ \E p \in Paths : AttachDir(p)
           \/ \E n \in Names : Requeue(n) \/ Requeued(n)
           \/ \E n \in Names : \E q \in Queues(n) : WebRetry(q, n) \/ WebDelete(q, n)
           \/ WebFile \/ WebCleanup \/ UNCHANGED vars
  <2>1. UNCHANGED <<runs, docs, seen, saved, excused>>
    BY <1>5 DEF Upload, AttachDir, Requeue, Requeued, WebRetry, WebDelete, WebFile, WebCleanup,
                vars, memory, outside, history
  <2>2. QED
    BY <2>1, RunsStay
<1>6. QED
  BY <1>1, <1>2, <1>3, <1>4, <1>5 DEF Next

(* "Boox's habit of re-uploading the full ZIP on every edit doesn't generate
   duplicate Affine docs": for any number of uploads of one content, under any
   number of paths, callbacks and restarts, a second document has one of the
   causes that the model records. *)
THEOREM DocsOnceHolds == Spec => []DocsOnce
<1>1. DocsInv => DocsOnce
  BY DEF DocsInv, Once, DocsOnce
<1>2. Init => DocsInv
  BY InitDocs
<1>3. IInv /\ DocsInv /\ [Next]_vars => DocsInv'
  BY NextDocs
<1>4. QED
  BY <1>1, <1>2, <1>3, DaemonInvariant, PTL DEF Spec
=============================================================================
