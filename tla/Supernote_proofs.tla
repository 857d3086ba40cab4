-------------------------- MODULE Supernote_proofs --------------------------
(***************************************************************************)
(* What holds of a Supernote's files and notes.                            *)
(*                                                                         *)
(* The first part is about DeviceFiles, for any number of paths, folders,  *)
(* requests at a time, uploads, ids, failures and crashes.  The inductive  *)
(* invariant has these parts:                                              *)
(*                                                                         *)
(*   CallsFit   the handle of a POST leads to the file of its own upload,  *)
(*              wherever that file is by now, a copy has both its files,   *)
(*              and a move has an id of the table;                         *)
(*   Places     a file is at one place: no two paths, no path and upload,  *)
(*              no two uploads lead to it, and a staged file is unknown    *)
(*              to the device and to the tree's history;                   *)
(*   Checked    what a finish has verified is so still when it renames, or *)
(*              is marked as reopened;                                     *)
(*   Addressed  IdsAddress, with the path that a move has given its file;  *)
(*   Tidy       the folders of NothingIsLeft;                              *)
(*   Used and Swept   its staged files: an upload that was not applied for *)
(*              has neither bytes nor requests.                            *)
(*                                                                         *)
(* Based (types, CallsFit and Places) is inductive by itself, and so is    *)
(* each of the other parts beside it; each action has a lemma for each     *)
(* part that it could disturb.                                             *)
(*                                                                         *)
(* The second part is about NoteProcessor, for any number of paths, edits, *)
(* requests, failures and restarts.  Its parts are:                        *)
(*                                                                         *)
(*   Basics     types; nothing is of an edit to come; a job has a row and  *)
(*              an id of its own;                                          *)
(*   ScanFits   a reconciliation that has not walked owes nothing, and one *)
(*              that is not amid an orphan has none in hand;               *)
(*   WorkFits   the pages that the worker is going to write are of the     *)
(*              edit that it takes the file for;                           *)
(*   Settled    a path that no call, scan or worker will look at again is  *)
(*              indexed as its file is, or recorded.                       *)
(***************************************************************************)
EXTENDS DeviceFiles, NoteProcessor, WellFoundedInduction, TLAPS


(* The requests of each kind. *)
PostRequests ==
  [kind : {"post"}, stage : {"open", "fill"}, n : Uploads, inode : 0..MaxInodes]
FinishRequests ==
  [kind : {"finish"}, stage : {"verify", "rename", "entry"}, n : Uploads, to : Paths]
DeleteRequests == [kind : {"delete"}, stage : {"recycle", "prune"}, from : Paths]
MoveRequests ==
  [kind : {"move"}, stage : {"rename", "repoint", "answer"}, id : Nat,
   from : Paths, to : Paths, inode : 0..MaxInodes]
CopyRequests ==
  [kind : {"copy"}, stage : {"create", "fill"}, from : Paths,
   to : Paths, source : 0..MaxInodes, inode : 0..MaxInodes]

(* The handle of a request leads to a file that exists.  A POST has opened
   the file of its own upload, wherever that file is by now. *)
Writing(s, kind) == calls[s].stage = "fill" /\ calls[s].kind = kind
OfUpload(o, n) ==
  claim[o] \in {0, n} /\ \A m \in Uploads : staged[m] = o => m = n
PostFits(s) ==
  Writing(s, "post") =>
    calls[s].inode \in DOMAIN bytes /\ OfUpload(calls[s].inode, calls[s].n)
CopyFits(s) ==
  Writing(s, "copy") =>
    calls[s].inode \in DOMAIN bytes /\ calls[s].source \in DOMAIN bytes

(* A move is by an id of the table and not onto itself; after its rename it
   knows the file. *)
IsMove(c) == c.stage # "idle" /\ c.kind = "move"
MoveFits(s) ==
  IsMove(calls[s]) =>
    /\ calls[s].id \in DOMAIN ids /\ calls[s].from # calls[s].to
    /\ calls[s].stage = "repoint" => calls[s].inode # 0

CallsFit == \A s \in Slots : PostFits(s) /\ CopyFits(s) /\ MoveFits(s)

(* A file is at one place: at one path or in the staging area for one upload.
   One that is staged was never in the tree, nor was one not created yet. *)
Fresh(o) == claim[o] = 0 /\ holds[o] = 0
Places ==
  /\ \A p \in Paths : tree[p] <= Len(bytes)
  /\ \A n \in Uploads : staged[n] <= Len(bytes)
  /\ \A p, q \in Paths : tree[p] # 0 /\ tree[p] = tree[q] => p = q
  /\ \A m, n \in Uploads : staged[m] # 0 /\ staged[m] = staged[n] => m = n
  /\ \A p \in Paths, n \in Uploads : staged[n] # 0 => tree[p] # staged[n]
  /\ \A n \in Uploads : staged[n] # 0 => Fresh(staged[n])
  /\ \A o \in Inodes : o > Len(bytes) => Fresh(o)

(* What a finish has verified is still so when it renames, or was reopened. *)
Checked ==
  \A s \in Slots : At(s, "finish", "rename") =>
    LET n == calls[s].n IN
    staged[n] # 0 => bytes[staged[n]] = n \/ staged[n] \in reopened

(* As IdsAddress, with the path that the move under way has given the file. *)
Addressed ==
  \A p \in Paths : tree[p] # 0 /\ holds[tree[p]] # 0 =>
    \/ ids[holds[tree[p]]] = p
    \/ tree[p] \in misled
    \/ \E s \in Slots : /\ At(s, "move", "repoint")
                        /\ calls[s].inode = tree[p] /\ calls[s].to = p

(* A folder with a file, and one that is accounted for. *)
Filled(d) == \E p \in Paths : p.dir = d /\ tree[p] # 0
Excused(d) == d \in wanted \cup strays

(* As the first part of NothingIsLeft. *)
Tidy ==
  \A d \in dirs : Filled(d) \/ Excused(d) \/ \E s \in Slots : Involves(calls[s], d)

(* An upload that was not applied for has no bytes and no request. *)
OfAnUpload(c) == c.stage # "idle" /\ c.kind \in {"post", "finish"}
Used ==
  /\ \A n \in Uploads : uploads[n].row = "unused" => staged[n] = 0
  /\ \A s \in Slots : OfAnUpload(calls[s]) => uploads[calls[s].n].row # "unused"

(* As the second part of NothingIsLeft. *)
Swept == \A n \in Uploads : staged[n] # 0 => uploads[n].row = "applied" \/ n \in leaked

FilesInv ==
  /\ TypeOK /\ CallsFit /\ Places
  /\ Checked /\ UploadsAreKept
  /\ Addressed
  /\ Tidy /\ Used /\ Swept

-----------------------------------------------------------------------------
(* A request under way has the fields of its kind. *)
LEMMA Kinds ==
    ASSUME TypeOK, NEW s \in Slots
    PROVE  /\ calls[s].stage # "idle" /\ calls[s].kind = "post" => calls[s] \in PostRequests
           /\ calls[s].stage # "idle" /\ calls[s].kind = "finish" => calls[s] \in FinishRequests
           /\ calls[s].stage # "idle" /\ calls[s].kind = "delete" => calls[s] \in DeleteRequests
           /\ calls[s].stage # "idle" /\ calls[s].kind = "move" => calls[s] \in MoveRequests
           /\ calls[s].stage # "idle" /\ calls[s].kind = "copy" => calls[s] \in CopyRequests
           /\ calls[s].stage = "fill" => calls[s].kind \in {"post", "copy"}
           /\ calls[s].stage = "idle" => calls[s] = Idle
<1>1. calls[s] \in Request \cup {Idle}
  BY DEF TypeOK
<1> HIDE DEF TypeOK
<1>2. CASE calls[s] = Idle
  BY <1>2 DEF Idle
<1>3. CASE calls[s] \in Request
  <2>1. calls[s] \in PostRequests \cup FinishRequests \cup DeleteRequests \cup MoveRequests
                     \cup CopyRequests
    BY <1>3 DEF Request, PostRequests, FinishRequests, DeleteRequests, MoveRequests,
                CopyRequests
  <2>2. CASE calls[s] \in PostRequests
    BY <2>2 DEF PostRequests
  <2>3. CASE calls[s] \in FinishRequests
    BY <2>3 DEF FinishRequests
  <2>4. CASE calls[s] \in DeleteRequests
    BY <2>4 DEF DeleteRequests
  <2>5. CASE calls[s] \in MoveRequests
    BY <2>5 DEF MoveRequests
  <2>6. CASE calls[s] \in CopyRequests
    BY <2>6 DEF CopyRequests
  <2> QED
    BY <2>1, <2>2, <2>3, <2>4, <2>5, <2>6
<1> QED
  BY <1>1, <1>2, <1>3

(* There are no other requests. *)
LEMMA Sorts ==
    PostRequests \cup FinishRequests \cup DeleteRequests \cup MoveRequests \cup CopyRequests
      = Request
BY DEF Request, PostRequests, FinishRequests, DeleteRequests, MoveRequests, CopyRequests

(* A step that changes the request of one slot. *)
LEMMA CallStep ==
    ASSUME TypeOK, NEW s \in Slots, NEW r \in Request \cup {Idle},
           calls' = [calls EXCEPT ![s] = r]
    PROVE  /\ calls' \in [Slots -> Request \cup {Idle}]
           /\ calls'[s] = r /\ \A t \in Slots : t # s => calls'[t] = calls[t]
BY DEF TypeOK

(* What an answer does to the table of ids and to what the device knows. *)
LEMMA Answer ==
    ASSUME TypeOK, NEW p \in Paths, NEW lost \in BOOLEAN, AnswerEntry(p, lost)
    PROVE  /\ ids' \in Seq(Paths) /\ \A i, j \in DOMAIN ids' : ids'[i] = ids'[j] => i = j
           /\ Len(ids) <= Len(ids') /\ \A i \in DOMAIN ids : ids'[i] = ids[i]
           /\ holds' \in [Inodes -> 0..Len(ids')] /\ misled' \in SUBSET Inodes
           /\ \A o \in Inodes : o # tree[p] => holds'[o] = holds[o]
           /\ \A o \in Inodes : o # tree[p] => (o \in misled' <=> o \in misled)
           /\ tree[p] # 0 => \/ holds'[tree[p]] = holds[tree[p]] /\ misled' = misled
                             \/ ids'[holds'[tree[p]]] = p
<1>1. /\ ids \in Seq(Paths) /\ \A i, j \in DOMAIN ids : ids[i] = ids[j] => i = j
      /\ holds \in [Inodes -> 0..Len(ids)] /\ misled \in SUBSET Inodes
      /\ tree[p] \in 0..MaxInodes
  BY DEF TypeOK
<1> HIDE DEF TypeOK
<1>2. CASE tree[p] = 0
  BY <1>1, <1>2 DEF AnswerEntry
<1>3. CASE tree[p] # 0
  <2>1. tree[p] \in Inodes
    BY <1>1, <1>3 DEF Inodes
  <2>2. ids' = IDFor(p)
    BY <1>3 DEF AnswerEntry
  <2>3. /\ ids' \in Seq(Paths) /\ \A i, j \in DOMAIN ids' : ids'[i] = ids'[j] => i = j
        /\ Len(ids) <= Len(ids') /\ \A i \in DOMAIN ids : ids'[i] = ids[i]
        /\ \E i \in DOMAIN ids' : ids'[i] = p
    <3>1. CASE p \in Range(ids)
      BY <3>1, <2>2, <1>1 DEF IDFor, Range
    <3>2. CASE p \notin Range(ids)
      <4>1. ids' = Append(ids, p) /\ \A i \in DOMAIN ids : ids[i] # p
        BY <3>2, <2>2 DEF IDFor, Range
      <4>2. Len(ids') = Len(ids) + 1 /\ ids'[Len(ids) + 1] = p /\ ids' \in Seq(Paths)
            /\ \A i \in 1..Len(ids) : ids'[i] = ids[i]
        BY <4>1, <1>1
      <4> QED
        BY <4>1, <4>2, <1>1
    <3> QED
      BY <3>1, <3>2
  <2>4. IdOf(p, ids') \in DOMAIN ids' /\ ids'[IdOf(p, ids')] = p
    BY <2>3 DEF IdOf
  <2>5. IdOf(p, ids') \in 0..Len(ids')
    BY <2>3, <2>4
  <2>6. CASE lost
    <3>1. holds' = holds /\ misled' = misled
      BY <2>6, <1>3 DEF AnswerEntry
    <3> QED
      BY <3>1, <2>3, <1>1
  <2>7. CASE ~lost
    <3>1. holds' = [holds EXCEPT ![tree[p]] = IdOf(p, ids')] /\ misled' = misled \ {tree[p]}
      BY <2>7, <1>3 DEF AnswerEntry
    <3>2. holds' \in [Inodes -> 0..Len(ids')] /\ holds'[tree[p]] = IdOf(p, ids')
      BY <3>1, <2>1, <2>3, <2>5, <1>1
    <3>3. \A o \in Inodes : o # tree[p] => holds'[o] = holds[o]
      BY <3>1, <1>1
    <3> QED
      BY <3>1, <3>2, <3>3, <2>3, <2>4, <1>1
  <2> QED
    BY <2>6, <2>7
<1> QED
  BY <1>2, <1>3

(* The requests of the other slots still fit when files are only created, ids
   only added and files keep to their upload. *)
LEMMA FitFrame ==
    ASSUME TypeOK, CallsFit, NEW s \in Slots, NEW r \in Request \cup {Idle},
           calls' = [calls EXCEPT ![s] = r],
           DOMAIN bytes \subseteq DOMAIN bytes', DOMAIN ids \subseteq DOMAIN ids',
           \A o \in DOMAIN bytes, n \in Uploads : OfUpload(o, n) => OfUpload(o, n)',
           (PostFits(s) /\ CopyFits(s) /\ MoveFits(s))'
    PROVE  CallsFit'
<1>1. \A t \in Slots : t # s => calls'[t] = calls[t]
  BY CallStep
<1>2. ASSUME NEW t \in Slots, t # s
      PROVE  (PostFits(t) /\ CopyFits(t) /\ MoveFits(t))'
  <2>1. PostFits(t) /\ CopyFits(t) /\ MoveFits(t) /\ calls'[t] = calls[t]
    BY <1>1, <1>2 DEF CallsFit
  <2>2. PostFits(t)'
    <3>1. SUFFICES ASSUME Writing(t, "post") PROVE PostFits(t)'
      BY <2>1 DEF PostFits, Writing
    <3>2. calls[t] \in PostRequests
      BY <3>1, Kinds DEF Writing
    <3>3. calls[t].n \in Uploads
      BY <3>2 DEF PostRequests
    <3> QED
      BY <3>1, <3>3, <2>1 DEF PostFits
  <2>3. CopyFits(t)'
    BY <2>1 DEF CopyFits, Writing
  <2>4. MoveFits(t)'
    BY <2>1 DEF MoveFits, IsMove
  <2> QED
    BY <2>2, <2>3, <2>4
<1> QED
  BY <1>2 DEF CallsFit

Based == TypeOK /\ CallsFit /\ Places

(* A step that only moves a request on, and perhaps makes a folder. *)
LEMMA RequestStep ==
    ASSUME Based, NEW s \in Slots, NEW r \in Request \cup {Idle},
           calls' = [calls EXCEPT ![s] = r],
           (PostFits(s) /\ CopyFits(s) /\ MoveFits(s))',
           called' \in 0..MaxCalls, faults' \in 0..MaxFaults,
           dirs' \subseteq Folders, wanted' \subseteq Folders, strays' \subseteq Folders,
           UNCHANGED <<tree, recycled, bytes, staging, ids, holds, kept, misled, leaked>>
    PROVE  Based'
<1>1. TypeOK /\ CallsFit /\ Places
  BY DEF Based
<1>2. calls' \in [Slots -> Request \cup {Idle}]
  BY <1>1, CallStep
<1>3. TypeOK'
  BY <1>1, <1>2 DEF TypeOK, staging, kept
<1>4. CallsFit'
  <2>1. \A o \in DOMAIN bytes, n \in Uploads : OfUpload(o, n) => OfUpload(o, n)'
    BY DEF OfUpload, staging, kept
  <2> QED
    BY <1>1, <2>1, FitFrame
<1>5. Places'
  BY <1>1 DEF Places, Fresh, staging, kept
<1> QED
  BY <1>3, <1>4, <1>5 DEF Based

(* A request that has ended fits. *)
LEMMA IdleFits ==
    ASSUME NEW s \in Slots, calls'[s] = Idle
    PROVE  (PostFits(s) /\ CopyFits(s) /\ MoveFits(s))'
BY DEF PostFits, CopyFits, MoveFits, Writing, IsMove, Idle

(* A fault is counted within the bound. *)
LEMMA FaultStep ==
    ASSUME TypeOK, Fault PROVE faults' \in 0..MaxFaults
BY FilesAssumption DEF TypeOK, Fault

(* A POST that begins has opened nothing. *)
LEMMA UploadStreamBased ==
    ASSUME Based, NEW s \in Slots, NEW n \in Uploads, UploadStream(s, n)
    PROVE  Based'
<1> DEFINE r == [kind |-> "post", stage |-> "open", n |-> n, inode |-> 0]
<1>1. TypeOK
  BY DEF Based
<1>2. r \in Request
  BY FilesAssumption DEF Request
<1>3. calls' = [calls EXCEPT ![s] = r]
  BY DEF UploadStream, Start
<1>4. calls'[s] = r
  BY <1>1, <1>2, <1>3, CallStep
<1>5. (PostFits(s) /\ CopyFits(s) /\ MoveFits(s))'
  BY <1>4 DEF PostFits, CopyFits, MoveFits, Writing, IsMove
<1>6. faults' \in 0..MaxFaults
  BY <1>1, FaultStep DEF UploadStream, Repeated, TypeOK
<1>7. /\ called' \in 0..MaxCalls
      /\ dirs' \subseteq Folders /\ wanted' \subseteq Folders /\ strays' \subseteq Folders
      /\ UNCHANGED <<tree, recycled, bytes, staging, ids, holds, kept, misled, leaked>>
  BY <1>1 DEF UploadStream, TypeOK, area, left
<1> QED
  BY <1>2, <1>3, <1>5, <1>6, <1>7, RequestStep

(* A finish has the path of its upload. *)
LEMMA FinishBased ==
    ASSUME Based, NEW s \in Slots, NEW n \in Uploads, Finish(s, n)
    PROVE  Based'
<1> DEFINE r == [kind |-> "finish", stage |-> "verify", n |-> n, to |-> uploads[n].path]
<1>1. TypeOK
  BY DEF Based
<1>2. r \in Request
  BY <1>1 DEF Request, TypeOK, Upload
<1>3. calls' = [calls EXCEPT ![s] = r]
  BY DEF Finish, Start
<1>4. calls'[s] = r
  BY <1>1, <1>2, <1>3, CallStep
<1>5. (PostFits(s) /\ CopyFits(s) /\ MoveFits(s))'
  BY <1>4 DEF PostFits, CopyFits, MoveFits, Writing, IsMove
<1>6. faults' \in 0..MaxFaults
  BY <1>1, FaultStep DEF Finish, Repeated, TypeOK
<1>7. /\ called' \in 0..MaxCalls
      /\ dirs' \subseteq Folders /\ wanted' \subseteq Folders /\ strays' \subseteq Folders
      /\ UNCHANGED <<tree, recycled, bytes, staging, ids, holds, kept, misled, leaked>>
  BY <1>1 DEF Finish, TypeOK, area, left
<1> QED
  BY <1>2, <1>3, <1>5, <1>6, <1>7, RequestStep

(* A request that begins is counted within the bound. *)
LEMMA BeginStep ==
    ASSUME TypeOK, NEW s \in Slots, NEW r, Begin(s, r)
    PROVE  calls' = [calls EXCEPT ![s] = r] /\ called' \in 0..MaxCalls /\ calls[s] = Idle
BY FilesAssumption DEF TypeOK, Begin, Start

(* A delete begins at the path of its id. *)
LEMMA DeleteFolderBased ==
    ASSUME Based, NEW s \in Slots, NEW i \in DOMAIN ids, DeleteFolder(s, i)
    PROVE  Based'
<1> DEFINE r == [kind |-> "delete", stage |-> "recycle", from |-> ids[i]]
<1>1. TypeOK
  BY DEF Based
<1>2. r \in Request
  BY <1>1 DEF Request, TypeOK
<1>3. calls' = [calls EXCEPT ![s] = r] /\ called' \in 0..MaxCalls
  BY <1>1, BeginStep DEF DeleteFolder
<1>4. calls'[s] = r
  BY <1>1, <1>2, <1>3, CallStep
<1>5. (PostFits(s) /\ CopyFits(s) /\ MoveFits(s))'
  BY <1>4 DEF PostFits, CopyFits, MoveFits, Writing, IsMove
<1>7. /\ faults' \in 0..MaxFaults
      /\ dirs' \subseteq Folders /\ wanted' \subseteq Folders /\ strays' \subseteq Folders
      /\ UNCHANGED <<tree, recycled, bytes, staging, ids, holds, kept, misled, leaked>>
  BY <1>1 DEF DeleteFolder, TypeOK, area, left
<1> QED
  BY <1>2, <1>3, <1>5, <1>7, RequestStep

(* The target of a move or a copy is free, so that it is not its source. *)
LEMMA TargetIsFree ==
    ASSUME TypeOK, NEW q \in Paths, NEW to \in Targets(q)
    PROVE  to \in Paths /\ tree[to] = 0
BY DEF Targets

(* A move begins with an id of the table, for a path that is free and so not
   its own. *)
LEMMA MoveBased ==
    ASSUME Based, NEW s \in Slots, NEW i \in DOMAIN ids, NEW q \in Paths, Move(s, i, q)
    PROVE  Based'
<1>1. TypeOK
  BY DEF Based
<1>2. PICK to \in Targets(q) :
        /\ Begin(s, [kind |-> "move", stage |-> "rename", id |-> i, from |-> ids[i],
                     to |-> to, inode |-> 0])
        /\ dirs' = MkdirAll(to)
  BY DEF Move
<1> DEFINE r == [kind |-> "move", stage |-> "rename", id |-> i, from |-> ids[i],
                 to |-> to, inode |-> 0]
<1>3. to \in Paths /\ tree[to] = 0 /\ tree[ids[i]] # 0 /\ ids[i] \in Paths /\ i \in Nat
  BY <1>1, <1>2, TargetIsFree DEF Move, Resolves, TypeOK
<1>4. r \in Request
  BY <1>3, FilesAssumption DEF Request
<1>5. calls' = [calls EXCEPT ![s] = r] /\ called' \in 0..MaxCalls
  BY <1>1, <1>2, BeginStep
<1>6. calls'[s] = r
  BY <1>1, <1>4, <1>5, CallStep
<1>7. (PostFits(s) /\ CopyFits(s) /\ MoveFits(s))'
  BY <1>3, <1>6 DEF PostFits, CopyFits, MoveFits, Writing, IsMove, Move
<1>8. /\ faults' \in 0..MaxFaults /\ dirs' \subseteq Folders
      /\ wanted' \subseteq Folders /\ strays' \subseteq Folders
      /\ UNCHANGED <<tree, recycled, bytes, staging, ids, holds, kept, misled, leaked>>
  BY <1>1, <1>2 DEF Move, TypeOK, MkdirAll, left
<1> QED
  BY <1>4, <1>5, <1>7, <1>8, RequestStep

(* A copy begins with no file open. *)
LEMMA CopyBased ==
    ASSUME Based, NEW s \in Slots, NEW i \in DOMAIN ids, NEW q \in Paths, Copy(s, i, q)
    PROVE  Based'
<1>1. TypeOK
  BY DEF Based
<1>2. PICK to \in Targets(q) :
        Begin(s, [kind |-> "copy", stage |-> "create", from |-> ids[i], to |-> to,
                  source |-> 0, inode |-> 0])
  BY DEF Copy
<1> DEFINE r == [kind |-> "copy", stage |-> "create", from |-> ids[i], to |-> to,
                 source |-> 0, inode |-> 0]
<1>3. to \in Paths /\ ids[i] \in Paths
  BY <1>1, <1>2, TargetIsFree DEF TypeOK
<1>4. r \in Request
  BY <1>3, FilesAssumption DEF Request
<1>5. calls' = [calls EXCEPT ![s] = r] /\ called' \in 0..MaxCalls
  BY <1>1, <1>2, BeginStep
<1>6. calls'[s] = r
  BY <1>1, <1>4, <1>5, CallStep
<1>7. (PostFits(s) /\ CopyFits(s) /\ MoveFits(s))'
  BY <1>3, <1>6 DEF PostFits, CopyFits, MoveFits, Writing, IsMove
<1>8. /\ faults' \in 0..MaxFaults /\ dirs' \subseteq Folders
      /\ wanted' \subseteq Folders /\ strays' \subseteq Folders
      /\ UNCHANGED <<tree, recycled, bytes, staging, ids, holds, kept, misled, leaked>>
  BY <1>1 DEF Copy, TypeOK, area, left
<1> QED
  BY <1>4, <1>5, <1>7, <1>8, RequestStep

(* A finish is checked, or ends. *)
LEMMA FinalizeVerifyBased ==
    ASSUME Based, NEW s \in Slots, FinalizeVerify(s)
    PROVE  Based'
<1>1. TypeOK
  BY DEF Based
<1> DEFINE c == calls[s]
           g == [c EXCEPT !.stage = "rename"]
<1>2. c \in FinishRequests
  BY <1>1, Kinds DEF FinalizeVerify, At
<1>3. PICK r \in {g, Idle} : calls' = [calls EXCEPT ![s] = r]
  BY DEF FinalizeVerify, GoTo, End
<1>4. r \in Request \cup {Idle} /\ (r = Idle \/ r \in FinishRequests)
  BY <1>2, <1>3, Sorts DEF FinishRequests
<1>5. calls'[s] = r
  BY <1>1, <1>3, <1>4, CallStep
<1>6. (PostFits(s) /\ CopyFits(s) /\ MoveFits(s))'
  BY <1>4, <1>5, IdleFits
     DEF PostFits, CopyFits, MoveFits, Writing, IsMove, FinishRequests
<1>7. /\ called' \in 0..MaxCalls /\ faults' \in 0..MaxFaults /\ dirs' \subseteq Folders
      /\ wanted' \subseteq Folders /\ strays' \subseteq Folders
      /\ UNCHANGED <<tree, recycled, bytes, staging, ids, holds, kept, misled, leaked>>
  BY <1>1 DEF FinalizeVerify, TypeOK, MkdirAll, bounds, left
<1> QED
  BY <1>3, <1>4, <1>6, <1>7, RequestStep

(* A prune ends its request and removes at most a folder. *)
LEMMA PruneBased ==
    ASSUME Based, NEW s \in Slots, Prune(s)
    PROVE  Based'
<1>1. TypeOK
  BY DEF Based
<1>2. calls' = [calls EXCEPT ![s] = Idle]
  BY DEF Prune, End
<1>3. (PostFits(s) /\ CopyFits(s) /\ MoveFits(s))'
  BY <1>1, <1>2, IdleFits, CallStep
<1>4. /\ called' \in 0..MaxCalls /\ faults' \in 0..MaxFaults /\ dirs' \subseteq Folders
      /\ wanted' \subseteq Folders /\ strays' \subseteq Folders
      /\ UNCHANGED <<tree, recycled, bytes, staging, ids, holds, kept, misled, leaked>>
  BY <1>1 DEF Prune, PruneEmptyParents, TypeOK, bounds
<1> QED
  BY <1>2, <1>3, <1>4, RequestStep

(* A writer that breaks off leaves the files where they are. *)
LEMMA WriteFailsBased ==
    ASSUME Based, NEW s \in Slots, WriteFails(s)
    PROVE  Based'
<1>1. TypeOK
  BY DEF Based
<1>2. calls' = [calls EXCEPT ![s] = Idle]
  BY DEF WriteFails, End
<1>3. (PostFits(s) /\ CopyFits(s) /\ MoveFits(s))'
  BY <1>1, <1>2, IdleFits, CallStep
<1>4. faults' \in 0..MaxFaults
  BY <1>1, FaultStep DEF WriteFails
<1>5. /\ called' \in 0..MaxCalls /\ dirs' \subseteq Folders
      /\ wanted' \subseteq Folders /\ strays' \subseteq Folders
      /\ UNCHANGED <<tree, recycled, bytes, staging, ids, holds, kept, misled, leaked>>
  BY <1>1 DEF WriteFails, TypeOK, area, left
<1> QED
  BY <1>2, <1>3, <1>4, <1>5, RequestStep

(* As FitFrame, when no request moves on. *)
LEMMA FitKept ==
    ASSUME TypeOK, CallsFit, calls' = calls,
           DOMAIN bytes \subseteq DOMAIN bytes', DOMAIN ids \subseteq DOMAIN ids',
           \A o \in DOMAIN bytes, n \in Uploads : OfUpload(o, n) => OfUpload(o, n)'
    PROVE  CallsFit'
<1>1. ASSUME NEW t \in Slots
      PROVE  (PostFits(t) /\ CopyFits(t) /\ MoveFits(t))'
  <2>1. PostFits(t) /\ CopyFits(t) /\ MoveFits(t)
    BY DEF CallsFit
  <2>2. PostFits(t)'
    <3>1. SUFFICES ASSUME Writing(t, "post") PROVE PostFits(t)'
      BY DEF PostFits, Writing
    <3>2. calls[t] \in PostRequests
      BY <3>1, Kinds DEF Writing
    <3>3. calls[t].n \in Uploads
      BY <3>2 DEF PostRequests
    <3> QED
      BY <3>1, <3>3, <2>1 DEF PostFits
  <2>3. CopyFits(t)'
    BY <2>1 DEF CopyFits, Writing
  <2>4. MoveFits(t)'
    BY <2>1 DEF MoveFits, IsMove
  <2> QED
    BY <2>2, <2>3, <2>4
<1> QED
  BY <1>1 DEF CallsFit

(* An apply writes one row. *)
LEMMA ApplyBased ==
    ASSUME Based, NEW n \in Uploads, NEW p \in Paths, NEW recorded \in BOOLEAN,
           Apply(n, p, recorded)
    PROVE  Based'
<1>1. TypeOK /\ CallsFit /\ Places
  BY DEF Based
<1>2. uploads' \in [Uploads -> Upload]
  <2> DEFINE u == [uploads[n] EXCEPT !.path = p, !.row = IF recorded THEN "applied" ELSE "none"]
  <2>1. uploads[n] \in Upload /\ uploads \in [Uploads -> Upload]
    BY <1>1 DEF TypeOK
  <2>2. u \in Upload
    BY <2>1 DEF Upload
  <2>3. uploads' = [uploads EXCEPT ![n] = u]
    BY DEF Apply
  <2> QED
    BY <2>1, <2>2, <2>3
<1>3. faults' \in 0..MaxFaults
  BY <1>1, FaultStep DEF Apply, TypeOK
<1>4. TypeOK'
  BY <1>1, <1>2, <1>3 DEF Apply, TypeOK, area, kept, left
<1>5. CallsFit'
  <2>1. \A o \in DOMAIN bytes, m \in Uploads : OfUpload(o, m) => OfUpload(o, m)'
    BY DEF Apply, OfUpload, kept
  <2> QED
    BY <1>1, <2>1, FitKept DEF Apply
<1>6. Places'
  BY <1>1 DEF Apply, Places, Fresh, area, kept
<1> QED
  BY <1>4, <1>5, <1>6 DEF Based

(* A signature runs out, and nothing else. *)
LEMMA ExpireBased ==
    ASSUME Based, NEW n \in Uploads, Expire(n)
    PROVE  Based'
<1>1. TypeOK /\ CallsFit /\ Places
  BY DEF Based
<1>2. uploads' \in [Uploads -> Upload]
  <2> DEFINE u == [uploads[n] EXCEPT !.live = FALSE]
  <2>1. uploads[n] \in Upload /\ uploads \in [Uploads -> Upload]
    BY <1>1 DEF TypeOK
  <2>2. u \in Upload
    BY <2>1 DEF Upload
  <2>3. uploads' = [uploads EXCEPT ![n] = u]
    BY DEF Expire
  <2> QED
    BY <2>1, <2>2, <2>3
<1>3. faults' \in 0..MaxFaults
  BY <1>1, FaultStep DEF Expire
<1>4. TypeOK'
  BY <1>1, <1>2, <1>3 DEF Expire, TypeOK, area, kept, left
<1>5. CallsFit'
  <2>1. \A o \in DOMAIN bytes, m \in Uploads : OfUpload(o, m) => OfUpload(o, m)'
    BY DEF Expire, OfUpload, kept
  <2> QED
    BY <1>1, <2>1, FitKept DEF Expire
<1>6. Places'
  BY <1>1 DEF Expire, Places, Fresh, area, kept
<1> QED
  BY <1>4, <1>5, <1>6 DEF Based

(* A sweep takes one file from the staging area. *)
LEMMA SweepBased ==
    ASSUME Based, NEW n \in Uploads, Sweep(n)
    PROVE  Based'
<1>1. TypeOK /\ CallsFit /\ Places
  BY DEF Based
<1>2. uploads' \in [Uploads -> Upload]
  <2> DEFINE u == [uploads[n] EXCEPT !.row = "none"]
  <2>1. uploads[n] \in Upload /\ uploads \in [Uploads -> Upload]
    BY <1>1 DEF TypeOK
  <2>2. u \in Upload
    BY <2>1 DEF Upload
  <2>3. uploads' = [uploads EXCEPT ![n] = u]
    BY DEF Sweep
  <2> QED
    BY <2>1, <2>2, <2>3
<1>3. /\ staged' \in [Uploads -> 0..MaxInodes]
      /\ \A m \in Uploads : staged'[m] \in {0, staged[m]}
  BY <1>1, FilesAssumption DEF Sweep, TypeOK
<1>4. TypeOK'
  BY <1>1, <1>2, <1>3 DEF Sweep, TypeOK, area, kept, bounds
<1>5. CallsFit'
  <2>1. \A o \in DOMAIN bytes, m \in Uploads : OfUpload(o, m) => OfUpload(o, m)'
    BY <1>1, <1>3 DEF Sweep, OfUpload, kept, TypeOK
  <2> QED
    BY <1>1, <2>1, FitKept DEF Sweep
<1>6. Places'
  <2>1. 0 <= Len(bytes)
    BY <1>1 DEF TypeOK
  <2> QED
    BY <1>1, <1>3, <2>1 DEF Sweep, Places, Fresh, area, kept
<1> QED
  BY <1>4, <1>5, <1>6 DEF Based

(* A folder comes to the folders. *)
LEMMA CreateFolderBased ==
    ASSUME Based, NEW d \in Folders, CreateFolder(d)
    PROVE  Based'
<1>1. TypeOK /\ CallsFit /\ Places
  BY DEF Based
<1>2. TypeOK'
  BY <1>1, FilesAssumption DEF CreateFolder, TypeOK, staging, kept
<1>3. CallsFit'
  <2>1. \A o \in DOMAIN bytes, m \in Uploads : OfUpload(o, m) => OfUpload(o, m)'
    BY DEF CreateFolder, OfUpload, kept, staging
  <2> QED
    BY <1>1, <2>1, FitKept DEF CreateFolder
<1>4. Places'
  BY <1>1 DEF CreateFolder, Places, Fresh, kept, staging
<1> QED
  BY <1>2, <1>3, <1>4 DEF Based

(* A file that the device learns the id of is in the tree. *)
LEMMA AnswerPlaces ==
    ASSUME TypeOK, Places, NEW p \in Paths, NEW lost \in BOOLEAN, AnswerEntry(p, lost),
           UNCHANGED <<tree, staged, claim>>, Len(bytes') = Len(bytes)
    PROVE  Places'
<1>1. \A o \in Inodes : o # tree[p] => holds'[o] = holds[o]
  BY Answer
<1>2. \A n \in Uploads : staged[n] # 0 => staged[n] \in Inodes /\ staged[n] # tree[p]
  BY FilesAssumption DEF TypeOK, Places, Inodes
<1>3. \A o \in Inodes : o > Len(bytes) => o # tree[p]
  BY DEF TypeOK, Places, Inodes
<1>4. \A n \in Uploads : staged[n] # 0 => Fresh(staged[n])'
  BY <1>1, <1>2 DEF Places, Fresh
<1>5. \A o \in Inodes : o > Len(bytes) => Fresh(o)'
  BY <1>1, <1>3 DEF Places, Fresh
<1> QED
  BY <1>4, <1>5 DEF Places

(* A listing gives out ids, of files in the tree. *)
LEMMA ListBased ==
    ASSUME Based, NEW p \in Paths, List(p)
    PROVE  Based'
<1>1. TypeOK /\ CallsFit /\ Places /\ AnswerEntry(p, FALSE)
  BY DEF Based, List
<1>2. /\ ids' \in Seq(Paths) /\ \A i, j \in DOMAIN ids' : ids'[i] = ids'[j] => i = j
      /\ Len(ids) <= Len(ids') /\ holds' \in [Inodes -> 0..Len(ids')]
      /\ misled' \in SUBSET Inodes
  BY <1>1, Answer
<1>3. called' \in 0..MaxCalls
  BY <1>1, FilesAssumption DEF List, TypeOK
<1>4. TypeOK'
  BY <1>1, <1>2, <1>3 DEF List, TypeOK, area, staging, kept, left
<1>5. CallsFit'
  <2>1. \A o \in DOMAIN bytes, m \in Uploads : OfUpload(o, m) => OfUpload(o, m)'
    BY DEF List, OfUpload, kept, staging
  <2>2. DOMAIN ids \subseteq DOMAIN ids'
    BY <1>1, <1>2 DEF TypeOK
  <2> QED
    BY <1>1, <2>1, <2>2, FitKept DEF List
<1>6. Places'
  BY <1>1, AnswerPlaces DEF List, area, staging, kept
<1> QED
  BY <1>4, <1>5, <1>6 DEF Based

(* A finish finalizes a row and gives out the id of its path. *)
LEMMA FinishEntryBased ==
    ASSUME Based, NEW s \in Slots, NEW lost \in BOOLEAN, FinishEntry(s, lost)
    PROVE  Based'
<1>1. TypeOK /\ CallsFit /\ Places
  BY DEF Based
<1>2. calls[s] \in FinishRequests
  BY <1>1, Kinds DEF FinishEntry, At
<1>3. calls[s].n \in Uploads /\ calls[s].to \in Paths /\ AnswerEntry(calls[s].to, lost)
  BY <1>2 DEF FinishEntry, FinishRequests
<1>4. /\ ids' \in Seq(Paths) /\ \A i, j \in DOMAIN ids' : ids'[i] = ids'[j] => i = j
      /\ Len(ids) <= Len(ids') /\ holds' \in [Inodes -> 0..Len(ids')]
      /\ misled' \in SUBSET Inodes
  BY <1>1, <1>3, Answer
<1>5. uploads' \in [Uploads -> Upload] /\ leaked' \subseteq Uploads
  <2> DEFINE n == calls[s].n
             u == [uploads[n] EXCEPT !.row = IF @ = "applied" THEN "finalized" ELSE @]
  <2>1. uploads[n] \in Upload /\ uploads \in [Uploads -> Upload] /\ leaked \subseteq Uploads
    BY <1>1, <1>3 DEF TypeOK
  <2>2. u \in Upload
    BY <2>1 DEF Upload
  <2>3. uploads' = [uploads EXCEPT ![n] = u] /\ leaked' \in {leaked, leaked \cup {n}}
    BY DEF FinishEntry
  <2> QED
    BY <2>1, <2>2, <2>3, <1>3
<1>6. faults' \in 0..MaxFaults
  BY <1>1, FaultStep DEF FinishEntry, TypeOK
<1>7. calls' = [calls EXCEPT ![s] = Idle]
  BY DEF FinishEntry, End
<1>8. calls' \in [Slots -> Request \cup {Idle}] /\ calls'[s] = Idle
  BY <1>1, <1>7, CallStep
<1>9. TypeOK'
  BY <1>1, <1>4, <1>5, <1>6, <1>8 DEF FinishEntry, TypeOK, area, kept
<1>10. CallsFit'
  <2>1. \A o \in DOMAIN bytes, m \in Uploads : OfUpload(o, m) => OfUpload(o, m)'
    BY DEF FinishEntry, OfUpload, kept
  <2>2. DOMAIN ids \subseteq DOMAIN ids'
    BY <1>1, <1>4 DEF TypeOK
  <2> QED
    BY <1>1, <1>7, <1>8, <2>1, <2>2, FitFrame, IdleFits DEF FinishEntry
<1>11. Places'
  BY <1>1, <1>3, AnswerPlaces DEF FinishEntry, area, kept
<1> QED
  BY <1>9, <1>10, <1>11 DEF Based

(* A move gives out the id of its target. *)
LEMMA MoveAnswerBased ==
    ASSUME Based, NEW s \in Slots, NEW lost \in BOOLEAN, MoveAnswer(s, lost)
    PROVE  Based'
<1>1. TypeOK /\ CallsFit /\ Places
  BY DEF Based
<1>2. calls[s] \in MoveRequests
  BY <1>1, Kinds DEF MoveAnswer, At
<1>3. calls[s].to \in Paths /\ AnswerEntry(calls[s].to, lost)
  BY <1>2 DEF MoveAnswer, MoveRequests
<1>4. /\ ids' \in Seq(Paths) /\ \A i, j \in DOMAIN ids' : ids'[i] = ids'[j] => i = j
      /\ Len(ids) <= Len(ids') /\ holds' \in [Inodes -> 0..Len(ids')]
      /\ misled' \in SUBSET Inodes
  BY <1>1, <1>3, Answer
<1>5. dirs' \subseteq Folders /\ wanted' \subseteq Folders /\ strays' \subseteq Folders
  BY <1>1 DEF MoveAnswer, PruneEmptyParents, TypeOK
<1>6. faults' \in 0..MaxFaults
  BY <1>1, FaultStep DEF MoveAnswer, TypeOK
<1>7. calls' = [calls EXCEPT ![s] = Idle]
  BY DEF MoveAnswer, End
<1>8. calls' \in [Slots -> Request \cup {Idle}] /\ calls'[s] = Idle
  BY <1>1, <1>7, CallStep
<1>9. TypeOK'
  BY <1>1, <1>4, <1>5, <1>6, <1>8 DEF MoveAnswer, TypeOK, staging, kept
<1>10. CallsFit'
  <2>1. \A o \in DOMAIN bytes, m \in Uploads : OfUpload(o, m) => OfUpload(o, m)'
    BY DEF MoveAnswer, OfUpload, kept, staging
  <2>2. DOMAIN ids \subseteq DOMAIN ids'
    BY <1>1, <1>4 DEF TypeOK
  <2> QED
    BY <1>1, <1>7, <1>8, <2>1, <2>2, FitFrame, IdleFits DEF MoveAnswer
<1>11. Places'
  BY <1>1, <1>3, AnswerPlaces DEF MoveAnswer, staging, kept
<1> QED
  BY <1>9, <1>10, <1>11 DEF Based

(* Writing to a file that exists makes no other. *)
LEMMA Written ==
    ASSUME NEW S, NEW b \in Seq(S), NEW o \in DOMAIN b, NEW v \in S
    PROVE  /\ [b EXCEPT ![o] = v] \in Seq(S) /\ Len([b EXCEPT ![o] = v]) = Len(b)
           /\ DOMAIN [b EXCEPT ![o] = v] = DOMAIN b
OBVIOUS

(* A copy writes into the file it has opened. *)
LEMMA CopyFillBased ==
    ASSUME Based, NEW s \in Slots, NEW lost \in BOOLEAN, CopyFill(s, lost)
    PROVE  Based'
<1>1. TypeOK /\ CallsFit /\ Places
  BY DEF Based
<1>2. calls[s] \in CopyRequests /\ calls[s].stage = "fill" /\ calls[s].kind = "copy"
  BY <1>1, Kinds DEF CopyFill, At
<1>3. calls[s].to \in Paths /\ AnswerEntry(calls[s].to, lost)
  BY <1>2 DEF CopyFill, CopyRequests
<1>4. /\ ids' \in Seq(Paths) /\ \A i, j \in DOMAIN ids' : ids'[i] = ids'[j] => i = j
      /\ Len(ids) <= Len(ids') /\ holds' \in [Inodes -> 0..Len(ids')]
      /\ misled' \in SUBSET Inodes
  BY <1>1, <1>3, Answer
<1>5. Opened(s) \in DOMAIN bytes /\ calls[s].source \in DOMAIN bytes
  BY <1>1, <1>2 DEF CallsFit, CopyFits, Writing, Opened
<1>6. /\ bytes' \in Seq(Uploads \cup {Partial}) /\ Len(bytes') = Len(bytes)
      /\ DOMAIN bytes' = DOMAIN bytes /\ Opened(s) \in Inodes
  <2> DEFINE v == bytes[calls[s].source]
  <2>1. bytes \in Seq(Uploads \cup {Partial}) /\ Len(bytes) <= MaxInodes /\ Len(bytes) \in Nat
    BY <1>1 DEF TypeOK
  <2>2. v \in Uploads \cup {Partial} /\ bytes' = [bytes EXCEPT ![Opened(s)] = v]
    BY <2>1, <1>5 DEF CopyFill
  <2>3. Opened(s) \in Inodes
    BY <2>1, <1>5, FilesAssumption DEF Inodes
  <2> QED
    BY <2>1, <2>2, <2>3, <1>5, Written
<1>7. faults' \in 0..MaxFaults
  BY <1>1, FaultStep DEF CopyFill, TypeOK
<1>8. calls' = [calls EXCEPT ![s] = Idle]
  BY DEF CopyFill, End
<1>9. calls' \in [Slots -> Request \cup {Idle}] /\ calls'[s] = Idle
  BY <1>1, <1>8, CallStep
<1>10. TypeOK'
  BY <1>1, <1>4, <1>6, <1>7, <1>9 DEF CopyFill, TypeOK, area, staging, left
<1>11. CallsFit'
  <2>1. \A o \in DOMAIN bytes, m \in Uploads : OfUpload(o, m) => OfUpload(o, m)'
    BY DEF CopyFill, OfUpload, staging
  <2>2. DOMAIN ids \subseteq DOMAIN ids'
    BY <1>1, <1>4 DEF TypeOK
  <2> QED
    BY <1>1, <1>6, <1>8, <1>9, <2>1, <2>2, FitFrame, IdleFits
<1>12. Places'
  BY <1>1, <1>3, <1>6, AnswerPlaces DEF CopyFill, area, staging
<1> QED
  BY <1>10, <1>11, <1>12 DEF Based

(* What creating a file, or opening one that is there, does to the bytes. *)
LEMMA Opening ==
    ASSUME TypeOK, NEW o \in Inodes, o \in DOMAIN bytes \/ o = NewInode,
           bytes' = IF o = NewInode THEN Append(bytes, Partial)
                    ELSE [bytes EXCEPT ![o] = Partial]
    PROVE  /\ bytes' \in Seq(Uploads \cup {Partial}) /\ Len(bytes') <= MaxInodes
           /\ o \in DOMAIN bytes' /\ DOMAIN bytes \subseteq DOMAIN bytes'
           /\ Len(bytes) <= Len(bytes') /\ o <= Len(bytes')
           /\ \A x \in DOMAIN bytes : x # o => bytes'[x] = bytes[x]
<1>1. /\ bytes \in Seq(Uploads \cup {Partial}) /\ Len(bytes) <= MaxInodes
      /\ Len(bytes) \in Nat /\ Partial \in Uploads \cup {Partial} /\ o \in 1..MaxInodes
  BY DEF TypeOK, Inodes
<1> HIDE DEF TypeOK
<1>2. CASE o = NewInode
  <2>1. bytes' = Append(bytes, Partial) /\ o = Len(bytes) + 1
    BY <1>2 DEF NewInode
  <2>2. /\ bytes' \in Seq(Uploads \cup {Partial}) /\ Len(bytes') = Len(bytes) + 1
        /\ \A x \in 1..Len(bytes) : bytes'[x] = bytes[x]
    BY <2>1, <1>1
  <2> QED
    BY <1>1, <2>1, <2>2
<1>3. CASE o # NewInode
  <2>1. bytes' = [bytes EXCEPT ![o] = Partial] /\ o \in DOMAIN bytes
    BY <1>3
  <2> DEFINE S == Uploads \cup {Partial}
  <2>2. bytes \in Seq(S) /\ Partial \in S
    BY <1>1
  <2> HIDE DEF S
  <2>3. /\ bytes' \in Seq(S) /\ Len(bytes') = Len(bytes)
        /\ DOMAIN bytes' = DOMAIN bytes
    BY <2>1, <2>2, Written
  <2> USE DEF S
  <2> QED
    BY <1>1, <2>1, <2>3
<1> QED
  BY <1>2, <1>3

(* What a POST does when it opens the file of its upload. *)
Opens(s, n, o) ==
  /\ calls[s] \in PostRequests /\ n \in Uploads
  /\ o \in Inodes /\ claim[o] = 0 /\ holds[o] = 0
  /\ \A m \in Uploads : staged[m] = o => m = n
  /\ \A p \in Paths : tree[p] # o
  /\ staged' \in [Uploads -> 0..MaxInodes] /\ staged'[n] = o
  /\ \A m \in Uploads : m # n => staged'[m] = staged[m]
  /\ bytes' \in Seq(Uploads \cup {Partial}) /\ Len(bytes') <= MaxInodes
  /\ o \in DOMAIN bytes' /\ DOMAIN bytes \subseteq DOMAIN bytes'
  /\ Len(bytes) <= Len(bytes') /\ o <= Len(bytes')
  /\ \A x \in DOMAIN bytes : x # o => bytes'[x] = bytes[x]
  /\ staged[n] = o \/ o > Len(bytes)

(* A POST opens the file that is staged for its upload, or a new one; it is
   at no path. *)
LEMMA StageOpenDoes ==
    ASSUME Based, NEW s \in Slots, StageOpen(s), NEW n, n = calls[s].n,
           NEW o, o = IF staged[n] # 0 THEN staged[n] ELSE NewInode
    PROVE  Opens(s, n, o)
<1>1. TypeOK /\ CallsFit /\ Places
  BY DEF Based
<1>2. calls[s] \in PostRequests
  BY <1>1, Kinds DEF StageOpen, At
<1>3. n \in Uploads
  BY <1>2 DEF PostRequests
<1>4. /\ o \in Inodes /\ staged' = [staged EXCEPT ![n] = o]
      /\ bytes' = IF o = NewInode THEN Append(bytes, Partial) ELSE [bytes EXCEPT ![o] = Partial]
  BY DEF StageOpen
<1>5. /\ Len(bytes) \in Nat /\ DOMAIN bytes = 1..Len(bytes) /\ staged[n] \in 0..MaxInodes
      /\ staged[n] <= Len(bytes)
  BY <1>1, <1>3 DEF TypeOK, Places
<1>6. \/ staged[n] # 0 /\ o = staged[n]
      \/ staged[n] = 0 /\ o = NewInode /\ o > Len(bytes)
  BY <1>5 DEF NewInode
<1>7. o \in DOMAIN bytes \/ o = NewInode
  BY <1>5, <1>6
<1>8. claim[o] = 0 /\ holds[o] = 0 /\ \A m \in Uploads : staged[m] = o => m = n
  <2>1. CASE staged[n] # 0
    BY <2>1, <1>1, <1>3 DEF Places, Fresh
  <2>2. CASE staged[n] = 0
    BY <2>2, <1>1, <1>4, <1>5, <1>6 DEF Places, Fresh, TypeOK
  <2> QED
    BY <2>1, <2>2
<1>9. \A p \in Paths : tree[p] # o
  <2>1. CASE staged[n] # 0
    BY <2>1, <1>1, <1>3 DEF Places
  <2>2. CASE staged[n] = 0
    BY <2>2, <1>1, <1>5, <1>6 DEF Places, TypeOK
  <2> QED
    BY <2>1, <2>2
<1>10. staged' \in [Uploads -> 0..MaxInodes] /\ staged'[n] = o
       /\ \A m \in Uploads : m # n => staged'[m] = staged[m]
  <2>1. staged \in [Uploads -> 0..MaxInodes] /\ o \in 0..MaxInodes
    BY <1>1, <1>4 DEF TypeOK, Inodes
  <2> QED
    BY <2>1, <1>3, <1>4
<1>11. /\ bytes' \in Seq(Uploads \cup {Partial}) /\ Len(bytes') <= MaxInodes
       /\ o \in DOMAIN bytes' /\ DOMAIN bytes \subseteq DOMAIN bytes'
       /\ Len(bytes) <= Len(bytes') /\ o <= Len(bytes')
       /\ \A x \in DOMAIN bytes : x # o => bytes'[x] = bytes[x]
  BY <1>1, <1>4, <1>7, Opening
<1> QED
  BY <1>2, <1>3, <1>4, <1>6, <1>8, <1>9, <1>10, <1>11 DEF Opens

(* So the file a POST has opened is that of its own upload. *)
LEMMA StageOpenBased ==
    ASSUME Based, NEW s \in Slots, StageOpen(s)
    PROVE  Based'
<1>1. TypeOK /\ CallsFit /\ Places
  BY DEF Based
<1>0. PICK n, o : n = calls[s].n /\ o = IF staged[n] # 0 THEN staged[n] ELSE NewInode
  OBVIOUS
<1> DEFINE r == [[calls[s] EXCEPT !.stage = "fill"] EXCEPT !.inode = o]
<1>2. /\ reopened' \in {reopened, reopened \cup {o}} /\ leaked' \in {leaked, leaked \cup {n}}
      /\ calls' = [calls EXCEPT ![s] = r]
      /\ UNCHANGED <<area, uploads, ids, holds, bounds, claim, replaced, misled, wanted, strays>>
  BY <1>0 DEF StageOpen
<1>3. /\ calls[s] \in PostRequests /\ n \in Uploads
      /\ o \in Inodes /\ claim[o] = 0 /\ holds[o] = 0
      /\ \A m \in Uploads : staged[m] = o => m = n
      /\ \A p \in Paths : tree[p] # o
      /\ staged' \in [Uploads -> 0..MaxInodes] /\ staged'[n] = o
      /\ \A m \in Uploads : m # n => staged'[m] = staged[m]
      /\ bytes' \in Seq(Uploads \cup {Partial}) /\ Len(bytes') <= MaxInodes
      /\ o \in DOMAIN bytes' /\ DOMAIN bytes \subseteq DOMAIN bytes'
      /\ Len(bytes) <= Len(bytes') /\ o <= Len(bytes')
      /\ staged[n] = o \/ o > Len(bytes)
  BY <1>0, StageOpenDoes DEF Opens
<1>4. r \in PostRequests /\ r.stage = "fill" /\ r.kind = "post" /\ r.inode = o /\ r.n = n
  <2>1. o \in 0..MaxInodes
    BY <1>3 DEF Inodes
  <2> QED
    BY <2>1, <1>0, <1>3 DEF PostRequests
<1>5. r \in Request \cup {Idle}
  BY <1>4, Sorts
<1> HIDE DEF r
<1>6. calls' \in [Slots -> Request \cup {Idle}] /\ calls'[s] = r
  BY <1>1, <1>2, <1>5, CallStep
<1>7. TypeOK'
  <2>1. reopened' \in SUBSET Inodes /\ leaked' \subseteq Uploads
    BY <1>1, <1>2, <1>3 DEF TypeOK
  <2> QED
    BY <2>1, <1>1, <1>2, <1>3, <1>6 DEF TypeOK, area, bounds
<1>8. CallsFit'
  <2>1. ASSUME NEW x \in DOMAIN bytes, NEW m \in Uploads, OfUpload(x, m)
        PROVE  OfUpload(x, m)'
    <3>1. claim[x] \in {0, m} /\ claim' = claim /\ \A k \in Uploads : staged[k] = x => k = m
      BY <2>1, <1>2 DEF OfUpload
    <3>2. CASE x # o
      BY <3>1, <3>2, <1>3 DEF OfUpload
    <3>3. CASE x = o
      <4>1. x <= Len(bytes) /\ x \in Nat /\ Len(bytes) \in Nat
        BY <1>1 DEF TypeOK
      <4>2. staged[n] = o
        BY <3>3, <4>1, <1>3
      <4> QED
        BY <4>2, <3>1, <3>3, <1>3 DEF OfUpload
    <3> QED
      BY <3>2, <3>3
  <2>2. claim'[o] \in {0, n} /\ \A m \in Uploads : staged'[m] = o => m = n
    BY <1>2, <1>3
  <2>3. (PostFits(s) /\ CopyFits(s) /\ MoveFits(s))'
    BY <2>2, <1>3, <1>4, <1>6 DEF PostFits, CopyFits, MoveFits, OfUpload, Writing, IsMove
  <2> QED
    BY <1>1, <1>2, <1>3, <1>5, <2>1, <2>3, FitFrame
<1>9. Places'
  <2>1. UNCHANGED <<tree, claim, holds>>
    BY <1>2 DEF area
  <2>2. /\ \A p \in Paths : tree[p] <= Len(bytes')
        /\ \A m \in Uploads : staged'[m] <= Len(bytes')
    <3>1. \A p \in Paths : tree[p] \in Nat /\ tree[p] <= Len(bytes)
      BY <1>1, FilesAssumption DEF TypeOK, Places
    <3>2. \A m \in Uploads : staged[m] \in Nat /\ staged[m] <= Len(bytes)
      BY <1>1, FilesAssumption DEF TypeOK, Places
    <3>3. Len(bytes') \in Nat /\ Len(bytes) \in Nat
      BY <1>1, <1>3 DEF TypeOK
    <3> QED
      BY <3>1, <3>2, <3>3, <1>3
  <2>3. \A m, k \in Uploads : staged'[m] # 0 /\ staged'[m] = staged'[k] => m = k
    BY <1>1, <1>3 DEF Places
  <2>4. \A p \in Paths, m \in Uploads : staged'[m] # 0 => tree[p] # staged'[m]
    BY <1>1, <1>3 DEF Places
  <2>5. \A m \in Uploads : staged'[m] # 0 => Fresh(staged'[m])
    BY <1>1, <1>3 DEF Places, Fresh
  <2>6. \A x \in Inodes : x > Len(bytes') => Fresh(x)
    <3>1. Len(bytes') \in Nat /\ Len(bytes) \in Nat
      BY <1>1, <1>3 DEF TypeOK
    <3> QED
      BY <1>1, <1>3, <3>1 DEF Places, Inodes
  <2> QED
    BY <1>1, <2>1, <2>2, <2>3, <2>4, <2>5, <2>6 DEF Places, Fresh
<1> QED
  BY <1>7, <1>8, <1>9 DEF Based

(* A POST writes into the file it has opened. *)
LEMMA StageFillBased ==
    ASSUME Based, NEW s \in Slots, StageFill(s)
    PROVE  Based'
<1>1. TypeOK /\ CallsFit /\ Places
  BY DEF Based
<1>2. calls[s] \in PostRequests /\ calls[s].stage = "fill" /\ calls[s].kind = "post"
  BY <1>1, Kinds DEF StageFill, At
<1>3. calls[s].n \in Uploads
  BY <1>2 DEF PostRequests
<1>4. Opened(s) \in DOMAIN bytes
  BY <1>1, <1>2 DEF CallsFit, PostFits, Writing, Opened
<1>5. /\ bytes' \in Seq(Uploads \cup {Partial}) /\ Len(bytes') = Len(bytes)
      /\ DOMAIN bytes' = DOMAIN bytes
  <2>1. bytes \in Seq(Uploads \cup {Partial}) /\ bytes' = [bytes EXCEPT ![Opened(s)] = calls[s].n]
    BY <1>1 DEF TypeOK, StageFill
  <2> QED
    BY <2>1, <1>3, <1>4, Written
<1>6. calls' = [calls EXCEPT ![s] = Idle]
  BY DEF StageFill, End
<1>7. calls' \in [Slots -> Request \cup {Idle}] /\ calls'[s] = Idle
  BY <1>1, <1>6, CallStep
<1>8. TypeOK'
  BY <1>1, <1>5, <1>7 DEF StageFill, TypeOK, area, staging, bounds, left
<1>9. CallsFit'
  <2>1. \A o \in DOMAIN bytes, m \in Uploads : OfUpload(o, m) => OfUpload(o, m)'
    BY DEF StageFill, OfUpload, staging
  <2> QED
    BY <1>1, <1>5, <1>6, <1>7, <2>1, FitFrame, IdleFits DEF StageFill
<1>10. Places'
  BY <1>1, <1>5 DEF StageFill, Places, Fresh, area, staging
<1> QED
  BY <1>8, <1>9, <1>10 DEF Based

(* A file leaves its path for the recycling area. *)
LEMMA RecycleBased ==
    ASSUME Based, NEW s \in Slots, Recycle(s)
    PROVE  Based'
<1>1. TypeOK /\ CallsFit /\ Places
  BY DEF Based
<1> DEFINE g == [calls[s] EXCEPT !.stage = "prune"]
<1>2. calls[s] \in DeleteRequests
  BY <1>1, Kinds DEF Recycle, At
<1>3. PICK r \in {g, Idle} : calls' = [calls EXCEPT ![s] = r]
  BY DEF Recycle, GoTo, End
<1>4. r \in Request \cup {Idle} /\ (r = Idle \/ r \in DeleteRequests)
  BY <1>2, <1>3, Sorts DEF DeleteRequests
<1>5. calls' \in [Slots -> Request \cup {Idle}] /\ calls'[s] = r
  BY <1>1, <1>3, <1>4, CallStep
<1>6. (PostFits(s) /\ CopyFits(s) /\ MoveFits(s))'
  BY <1>4, <1>5, IdleFits
     DEF PostFits, CopyFits, MoveFits, Writing, IsMove, DeleteRequests
<1>7. calls[s].from \in Paths
  BY <1>2 DEF DeleteRequests
<1>8. /\ tree' \in [Paths -> 0..MaxInodes] /\ recycled' \subseteq Inodes
      /\ \A p \in Paths : tree'[p] \in {0, tree[p]}
  <2>1. tree \in [Paths -> 0..MaxInodes] /\ recycled \subseteq Inodes
        /\ tree[calls[s].from] \in 0..MaxInodes
    BY <1>1, <1>7 DEF TypeOK
  <2>2. CASE tree[calls[s].from] # 0
    <3>1. /\ tree' = [tree EXCEPT ![calls[s].from] = 0]
          /\ recycled' = recycled \cup {tree[calls[s].from]}
      BY <2>2 DEF Recycle
    <3> QED
      BY <2>1, <2>2, <3>1, <1>7, FilesAssumption DEF Inodes
  <2>3. CASE tree[calls[s].from] = 0
    BY <2>1, <2>3 DEF Recycle
  <2> QED
    BY <2>2, <2>3
<1>9. TypeOK'
  BY <1>1, <1>5, <1>8 DEF Recycle, TypeOK, staging, bounds, kept, left
<1>10. CallsFit'
  <2>1. \A o \in DOMAIN bytes, m \in Uploads : OfUpload(o, m) => OfUpload(o, m)'
    BY DEF Recycle, OfUpload, staging, kept
  <2> QED
    BY <1>1, <1>3, <1>4, <1>6, <2>1, FitFrame DEF Recycle
<1>11. Places'
  <2>1. UNCHANGED <<bytes, staged, claim, holds>> /\ 0 <= Len(bytes)
    BY <1>1 DEF Recycle, staging, kept, TypeOK
  <2> QED
    BY <1>1, <1>8, <2>1 DEF Places, Fresh
<1> QED
  BY <1>9, <1>10, <1>11 DEF Based

(* The two outcomes of the rename of a finish. *)
Stored(s, c, o) ==
  /\ o # 0 /\ HasDir(c.to)
  /\ o \in Inodes /\ o <= Len(bytes) /\ claim[o] = 0 /\ holds[o] = 0
  /\ \A m \in Uploads : staged[m] = o => m = c.n
  /\ \A p \in Paths : tree[p] # o
  /\ tree' \in [Paths -> 0..MaxInodes] /\ tree'[c.to] = o
  /\ \A p \in Paths : p # c.to => tree'[p] = tree[p]
  /\ staged' \in [Uploads -> 0..MaxInodes] /\ staged'[c.n] = 0
  /\ \A m \in Uploads : m # c.n => staged'[m] = staged[m]
  /\ claim' \in [Inodes -> Uploads \cup {0}] /\ claim'[o] = c.n
  /\ \A x \in Inodes : x # o => claim'[x] = claim[x]
  /\ replaced' = replaced \cup ({tree[c.to]} \ {0}) /\ replaced' \in SUBSET Inodes
  /\ leaked' = leaked \ {c.n}
  /\ calls' = [calls EXCEPT ![s] = [c EXCEPT !.stage = "entry"]]
  /\ calls'[s] \in FinishRequests /\ calls'[s].stage = "entry"
  /\ UNCHANGED <<dirs, recycled, bytes, uploads, ids, holds, bounds, reopened,
                 misled, wanted, strays>>
NotStored(s, c, o) ==
  /\ ~(o # 0 /\ HasDir(c.to))
  /\ calls' = [calls EXCEPT ![s] = Idle] /\ calls'[s] = Idle
  /\ strays' = strays \cup ({c.to.dir} \cap Folders)
  /\ UNCHANGED <<tree, staged, claim, replaced, leaked, dirs, recycled, bytes,
                 uploads, ids, holds, bounds, reopened, misled, wanted>>

(* The staged file of an upload goes to its path, and belongs to the upload. *)
LEMMA FinalizeRenameDoes ==
    ASSUME Based, NEW s \in Slots, FinalizeRename(s), NEW c, c = calls[s],
           NEW o, o = staged[c.n]
    PROVE  /\ c \in FinishRequests /\ c.n \in Uploads /\ c.to \in Paths
           /\ c.stage = "rename" /\ c.kind = "finish"
           /\ Stored(s, c, o) \/ NotStored(s, c, o)
           /\ \A t \in Slots : t # s => calls'[t] = calls[t]
<1>1. TypeOK /\ CallsFit /\ Places
  BY DEF Based
<1>2. c \in FinishRequests /\ c.stage = "rename" /\ c.kind = "finish"
  BY <1>1, Kinds DEF FinalizeRename, At
<1>3. c.n \in Uploads /\ c.to \in Paths /\ o \in 0..MaxInodes
  BY <1>1, <1>2 DEF FinishRequests, TypeOK
<1>4. CASE o # 0 /\ HasDir(c.to)
  <2> DEFINE r == [c EXCEPT !.stage = "entry"]
  <2>1. /\ tree' = [tree EXCEPT ![c.to] = o] /\ staged' = [staged EXCEPT ![c.n] = 0]
        /\ claim' = [claim EXCEPT ![o] = c.n]
        /\ replaced' = replaced \cup ({tree[c.to]} \ {0}) /\ leaked' = leaked \ {c.n}
        /\ calls' = [calls EXCEPT ![s] = r]
        /\ UNCHANGED <<dirs, recycled, bytes, uploads, ids, holds, bounds, reopened, misled,
                       wanted, strays>>
    BY <1>4 DEF FinalizeRename, GoTo
  <2>2. r \in FinishRequests /\ r.stage = "entry"
    BY <1>2 DEF FinishRequests
  <2>3. r \in Request \cup {Idle}
    BY <2>2, Sorts
  <2>4. calls'[s] = r /\ \A t \in Slots : t # s => calls'[t] = calls[t]
    BY <1>1, <2>1, <2>3, CallStep
  <2>5. o \in Inodes /\ o <= Len(bytes)
    BY <1>1, <1>3, <1>4 DEF Inodes, TypeOK, Places
  <2>6. /\ claim[o] = 0 /\ holds[o] = 0
        /\ \A m \in Uploads : staged[m] = o => m = c.n
        /\ \A p \in Paths : tree[p] # o
    BY <1>1, <1>3, <1>4 DEF Places, Fresh
  <2>7. /\ tree' \in [Paths -> 0..MaxInodes] /\ tree'[c.to] = o
        /\ \A p \in Paths : p # c.to => tree'[p] = tree[p]
    BY <1>1, <1>3, <2>1 DEF TypeOK
  <2>8. /\ staged' \in [Uploads -> 0..MaxInodes] /\ staged'[c.n] = 0
        /\ \A m \in Uploads : m # c.n => staged'[m] = staged[m]
    BY <1>1, <1>3, <2>1, FilesAssumption DEF TypeOK
  <2>9. /\ claim' \in [Inodes -> Uploads \cup {0}] /\ claim'[o] = c.n
        /\ \A x \in Inodes : x # o => claim'[x] = claim[x]
    BY <1>1, <1>3, <2>1, <2>5 DEF TypeOK
  <2>10. replaced' \in SUBSET Inodes
    <3>1. tree[c.to] \in 0..MaxInodes /\ replaced \in SUBSET Inodes
      BY <1>1, <1>3 DEF TypeOK
    <3> QED
      BY <3>1, <2>1, FilesAssumption DEF Inodes
  <2> QED
    BY <1>2, <1>3, <1>4, <2>1, <2>2, <2>4, <2>5, <2>6, <2>7, <2>8, <2>9, <2>10 DEF Stored
<1>5. CASE ~(o # 0 /\ HasDir(c.to))
  <2>1. /\ calls' = [calls EXCEPT ![s] = Idle]
        /\ strays' = strays \cup ({c.to.dir} \cap Folders)
        /\ UNCHANGED <<tree, staged, claim, replaced, leaked, dirs, recycled, bytes, uploads,
                       ids, holds, bounds, reopened, misled, wanted>>
    BY <1>5 DEF FinalizeRename, End
  <2>2. calls'[s] = Idle /\ \A t \in Slots : t # s => calls'[t] = calls[t]
    BY <1>1, <2>1, CallStep
  <2> QED
    BY <1>2, <1>3, <1>5, <2>1, <2>2 DEF NotStored
<1> QED
  BY <1>4, <1>5

(* The file goes from the one place to the other, and then belongs to its
   upload. *)
LEMMA FinalizeRenameBased ==
    ASSUME Based, NEW s \in Slots, FinalizeRename(s)
    PROVE  Based'
<1>1. TypeOK /\ CallsFit /\ Places
  BY DEF Based
<1>0. PICK c, o : c = calls[s] /\ o = staged[c.n]
  OBVIOUS
<1> DEFINE r == [c EXCEPT !.stage = "entry"]
<1>2. /\ c \in FinishRequests /\ c.n \in Uploads /\ c.to \in Paths
      /\ Stored(s, c, o) \/ NotStored(s, c, o)
  BY <1>0, FinalizeRenameDoes
<1>3. CASE Stored(s, c, o)
  <2>1. /\ o \in Inodes /\ o <= Len(bytes) /\ claim[o] = 0 /\ holds[o] = 0
        /\ \A m \in Uploads : staged[m] = o => m = c.n
        /\ \A p \in Paths : tree[p] # o
        /\ tree' \in [Paths -> 0..MaxInodes] /\ tree'[c.to] = o
        /\ \A p \in Paths : p # c.to => tree'[p] = tree[p]
        /\ staged' \in [Uploads -> 0..MaxInodes] /\ staged'[c.n] = 0
        /\ \A m \in Uploads : m # c.n => staged'[m] = staged[m]
        /\ claim' \in [Inodes -> Uploads \cup {0}] /\ claim'[o] = c.n
        /\ \A x \in Inodes : x # o => claim'[x] = claim[x]
        /\ replaced' \in SUBSET Inodes /\ leaked' = leaked \ {c.n}
        /\ calls' = [calls EXCEPT ![s] = r]
        /\ UNCHANGED <<dirs, recycled, bytes, uploads, ids, holds, bounds, reopened, misled,
                       wanted, strays>>
    BY <1>3 DEF Stored
  <2>2. r \in FinishRequests /\ r.kind = "finish" /\ r.stage = "entry"
    BY <1>2 DEF FinishRequests
  <2>3. r \in Request \cup {Idle}
    BY <2>2, Sorts
  <2>4. calls' \in [Slots -> Request \cup {Idle}] /\ calls'[s] = r
    BY <1>1, <2>1, <2>3, CallStep
  <2>5. (PostFits(s) /\ CopyFits(s) /\ MoveFits(s))'
    BY <2>2, <2>4 DEF PostFits, CopyFits, MoveFits, Writing, IsMove
  <2> HIDE DEF r
  <2>6. TypeOK'
    BY <1>1, <2>1, <2>4 DEF TypeOK, bounds
  <2>7. CallsFit'
    <3>1. ASSUME NEW x \in DOMAIN bytes, NEW m \in Uploads, OfUpload(x, m)
          PROVE  OfUpload(x, m)'
      <4>1. claim[x] \in {0, m} /\ \A k \in Uploads : staged[k] = x => k = m
        BY <3>1 DEF OfUpload
      <4>2. x \in Inodes /\ x # 0
        <5>1. x \in 1..Len(bytes) /\ Len(bytes) <= MaxInodes /\ Len(bytes) \in Nat
          BY <1>1 DEF TypeOK
        <5> QED
          BY <5>1, FilesAssumption DEF Inodes
      <4>3. \A k \in Uploads : staged'[k] = x => k = m
        BY <4>1, <4>2, <1>2, <2>1
      <4>4. claim'[x] \in {0, m}
        BY <4>1, <4>2, <1>0, <1>2, <2>1
      <4> QED
        BY <4>3, <4>4 DEF OfUpload
    <3> QED
      BY <1>1, <2>1, <2>3, <2>5, <3>1, FitFrame DEF r
  <2>8. Places'
    <3>1. /\ \A p \in Paths : tree'[p] <= Len(bytes')
          /\ \A m \in Uploads : staged'[m] <= Len(bytes')
      <4>1. 0 <= Len(bytes)
        BY <1>1 DEF TypeOK
      <4> QED
        BY <1>1, <2>1, <4>1 DEF Places
    <3>2. \A p, q \in Paths : tree'[p] # 0 /\ tree'[p] = tree'[q] => p = q
      BY <1>1, <1>2, <2>1 DEF Places
    <3>3. \A m, k \in Uploads : staged'[m] # 0 /\ staged'[m] = staged'[k] => m = k
      BY <1>1, <2>1 DEF Places
    <3>4. \A p \in Paths, m \in Uploads : staged'[m] # 0 => tree'[p] # staged'[m]
      BY <1>1, <2>1 DEF Places
    <3>5. \A m \in Uploads : staged'[m] # 0 => Fresh(staged[m])'
      <4>1. SUFFICES ASSUME NEW m \in Uploads, staged'[m] # 0 PROVE Fresh(staged[m])'
        OBVIOUS
      <4>2. m # c.n /\ staged'[m] = staged[m] /\ staged[m] # o /\ staged[m] \in Inodes
        BY <4>1, <2>1, <1>1 DEF TypeOK, Inodes
      <4> QED
        BY <4>1, <4>2, <1>1, <2>1 DEF Places, Fresh
    <3>6. \A x \in Inodes : x > Len(bytes') => Fresh(x)'
      <4>1. Len(bytes) \in Nat
        BY <1>1 DEF TypeOK
      <4> QED
        BY <1>1, <2>1, <4>1 DEF Places, Fresh, Inodes
    <3> QED
      BY <3>1, <3>2, <3>3, <3>4, <3>5, <3>6 DEF Places
  <2> QED
    BY <2>6, <2>7, <2>8 DEF Based
<1>4. CASE NotStored(s, c, o)
  <2>1. /\ calls' = [calls EXCEPT ![s] = Idle] /\ calls'[s] = Idle
        /\ strays' = strays \cup ({c.to.dir} \cap Folders)
        /\ UNCHANGED <<tree, staged, claim, replaced, leaked, dirs, recycled, bytes, uploads,
                       ids, holds, bounds, reopened, misled, wanted>>
    BY <1>4 DEF NotStored
  <2>2. (PostFits(s) /\ CopyFits(s) /\ MoveFits(s))'
    BY <2>1, IdleFits
  <2>3. /\ called' \in 0..MaxCalls /\ faults' \in 0..MaxFaults /\ dirs' \subseteq Folders
        /\ wanted' \subseteq Folders /\ strays' \subseteq Folders
        /\ UNCHANGED <<tree, recycled, bytes, staging, ids, holds, kept, misled, leaked>>
    BY <1>1, <2>1 DEF TypeOK, bounds, staging, kept
  <2> QED
    BY <2>1, <2>2, <2>3, RequestStep
<1> QED
  BY <1>2, <1>3, <1>4

(* The two outcomes of the rename of a move. *)
Renamed(s, c, o) ==
  /\ o # 0 /\ HasDir(c.to) /\ o \in Inodes
  /\ tree' \in [Paths -> 0..MaxInodes] /\ tree'[c.to] = o /\ tree'[c.from] = 0
  /\ \A p \in Paths \ {c.from, c.to} : tree'[p] = tree[p]
  /\ replaced' = replaced \cup ({tree[c.to]} \ {0}) /\ replaced' \in SUBSET Inodes
  /\ calls' = [calls EXCEPT ![s] = [[c EXCEPT !.stage = "repoint"]
                                      EXCEPT !.inode = o]]
  /\ calls'[s] \in MoveRequests /\ calls'[s].kind = "move"
  /\ calls'[s].stage = "repoint" /\ calls'[s].inode = o /\ calls'[s].id = c.id
  /\ calls'[s].from = c.from /\ calls'[s].to = c.to
  /\ UNCHANGED <<dirs, recycled, bytes, staged, uploads, ids, holds, bounds, claim,
                 reopened, misled, wanted, strays, leaked>>
NotRenamed(s, c, o) ==
  /\ ~(o # 0 /\ HasDir(c.to))
  /\ calls' = [calls EXCEPT ![s] = Idle] /\ calls'[s] = Idle
  /\ strays' = strays \cup ({c.to.dir} \cap Folders)
  /\ UNCHANGED <<tree, staged, uploads, claim, replaced, leaked, dirs, recycled,
                 bytes, ids, holds, bounds, reopened, misled, wanted>>

(* The file at the source of a move goes to its target. *)
LEMMA MoveRenameDoes ==
    ASSUME Based, NEW s \in Slots, MoveRename(s), NEW c, c = calls[s],
           NEW o, o = tree[c.from]
    PROVE  /\ c \in MoveRequests /\ c.stage = "rename" /\ c.kind = "move"
           /\ c.from \in Paths /\ c.to \in Paths /\ c.from # c.to /\ c.id \in DOMAIN ids
           /\ Renamed(s, c, o) \/ NotRenamed(s, c, o)
           /\ \A t \in Slots : t # s => calls'[t] = calls[t]
<1>1. TypeOK /\ CallsFit /\ Places
  BY DEF Based
<1>2. c \in MoveRequests /\ c.stage = "rename" /\ c.kind = "move"
  BY <1>1, Kinds DEF MoveRename, At
<1>3. c.from \in Paths /\ c.to \in Paths /\ o \in 0..MaxInodes
  BY <1>1, <1>2 DEF MoveRequests, TypeOK
<1>4. c.id \in DOMAIN ids /\ c.from # c.to
  BY <1>1, <1>2 DEF CallsFit, MoveFits, IsMove
<1>5. CASE o # 0 /\ HasDir(c.to)
  <2> DEFINE r == [[c EXCEPT !.stage = "repoint"] EXCEPT !.inode = o]
  <2>1. /\ tree' = [tree EXCEPT ![c.to] = o, ![c.from] = 0]
        /\ replaced' = replaced \cup ({tree[c.to]} \ {0})
        /\ calls' = [calls EXCEPT ![s] = r]
        /\ UNCHANGED <<dirs, recycled, bytes, staged, uploads, ids, holds, bounds, claim,
                       reopened, misled, wanted, strays, leaked>>
    BY <1>5 DEF MoveRename, staging
  <2>2. /\ r \in MoveRequests /\ r.kind = "move" /\ r.stage = "repoint"
        /\ r.inode = o /\ r.id = c.id /\ r.from = c.from /\ r.to = c.to
    BY <1>2, <1>3 DEF MoveRequests
  <2>3. r \in Request \cup {Idle}
    BY <2>2, Sorts
  <2>4. calls'[s] = r /\ \A t \in Slots : t # s => calls'[t] = calls[t]
    BY <1>1, <2>1, <2>3, CallStep
  <2>5. o \in Inodes
    BY <1>3, <1>5, FilesAssumption DEF Inodes
  <2>6. /\ tree' \in [Paths -> 0..MaxInodes] /\ tree'[c.to] = o /\ tree'[c.from] = 0
        /\ \A p \in Paths \ {c.from, c.to} : tree'[p] = tree[p]
    <3>1. tree \in [Paths -> 0..MaxInodes] /\ 0 \in 0..MaxInodes
      BY <1>1, FilesAssumption DEF TypeOK
    <3> QED
      BY <3>1, <1>3, <1>4, <2>1
  <2>7. replaced' \in SUBSET Inodes
    <3>1. tree[c.to] \in 0..MaxInodes /\ replaced \in SUBSET Inodes
      BY <1>1, <1>3 DEF TypeOK
    <3> QED
      BY <3>1, <2>1, FilesAssumption DEF Inodes
  <2> QED
    BY <1>2, <1>3, <1>4, <1>5, <2>1, <2>2, <2>4, <2>5, <2>6, <2>7 DEF Renamed
<1>6. CASE ~(o # 0 /\ HasDir(c.to))
  <2>1. /\ calls' = [calls EXCEPT ![s] = Idle]
        /\ strays' = strays \cup ({c.to.dir} \cap Folders)
        /\ UNCHANGED <<tree, staged, uploads, claim, replaced, leaked, dirs, recycled, bytes,
                       ids, holds, bounds, reopened, misled, wanted>>
    BY <1>6 DEF MoveRename, End, staging
  <2>2. calls'[s] = Idle /\ \A t \in Slots : t # s => calls'[t] = calls[t]
    BY <1>1, <2>1, CallStep
  <2> QED
    BY <1>2, <1>3, <1>4, <1>6, <2>1, <2>2 DEF NotRenamed
<1> QED
  BY <1>5, <1>6

(* The file goes from the one path to the other, and its move knows it. *)
LEMMA MoveRenameBased ==
    ASSUME Based, NEW s \in Slots, MoveRename(s)
    PROVE  Based'
<1>1. TypeOK /\ CallsFit /\ Places
  BY DEF Based
<1>0. PICK c, o : c = calls[s] /\ o = tree[c.from]
  OBVIOUS
<1> DEFINE r == [[c EXCEPT !.stage = "repoint"] EXCEPT !.inode = o]
<1>2. /\ c.from \in Paths /\ c.to \in Paths /\ c.from # c.to /\ c.id \in DOMAIN ids
      /\ Renamed(s, c, o) \/ NotRenamed(s, c, o)
  BY <1>0, MoveRenameDoes
<1>3. CASE Renamed(s, c, o)
  <2>1. /\ o # 0 /\ o \in Inodes
        /\ tree' \in [Paths -> 0..MaxInodes] /\ tree'[c.to] = o /\ tree'[c.from] = 0
        /\ \A p \in Paths \ {c.from, c.to} : tree'[p] = tree[p]
        /\ replaced' \in SUBSET Inodes
        /\ calls' = [calls EXCEPT ![s] = r]
        /\ calls'[s] \in MoveRequests /\ calls'[s].kind = "move"
        /\ calls'[s].stage = "repoint" /\ calls'[s].inode = o /\ calls'[s].id = c.id
        /\ calls'[s].from = c.from /\ calls'[s].to = c.to
        /\ UNCHANGED <<dirs, recycled, bytes, staged, uploads, ids, holds, bounds, claim,
                       reopened, misled, wanted, strays, leaked>>
    BY <1>3 DEF Renamed
  <2> HIDE DEF r
  <2>2. calls'[s] = r
    BY <1>1, <2>1 DEF TypeOK
  <2>3. r \in Request \cup {Idle}
    BY <2>1, <2>2, Sorts
  <2>4. calls' \in [Slots -> Request \cup {Idle}]
    BY <1>1, <2>1, <2>3, CallStep
  <2>5. (PostFits(s) /\ CopyFits(s) /\ MoveFits(s))'
    BY <1>2, <2>1 DEF PostFits, CopyFits, MoveFits, Writing, IsMove
  <2>6. TypeOK'
    BY <1>1, <2>1, <2>4 DEF TypeOK, bounds
  <2>7. CallsFit'
    <3>1. \A x \in DOMAIN bytes, m \in Uploads : OfUpload(x, m) => OfUpload(x, m)'
      BY <2>1 DEF OfUpload
    <3> QED
      BY <1>1, <2>1, <2>3, <2>5, <3>1, FitFrame
  <2>8. Places'
    <3>1. \A p \in Paths : tree'[p] <= Len(bytes')
      <4>1. Len(bytes) \in Nat
        BY <1>1 DEF TypeOK
      <4> QED
        BY <4>1, <1>0, <1>1, <1>2, <2>1 DEF Places
    <3>2. \A p, q \in Paths : tree'[p] # 0 /\ tree'[p] = tree'[q] => p = q
      BY <1>0, <1>1, <1>2, <2>1 DEF Places
    <3>3. \A p \in Paths, m \in Uploads : staged'[m] # 0 => tree'[p] # staged'[m]
      BY <1>0, <1>1, <1>2, <2>1 DEF Places
    <3> QED
      BY <1>1, <2>1, <3>1, <3>2, <3>3 DEF Places, Fresh
  <2> QED
    BY <2>6, <2>7, <2>8 DEF Based
<1>4. CASE NotRenamed(s, c, o)
  <2>1. /\ calls' = [calls EXCEPT ![s] = Idle] /\ calls'[s] = Idle
        /\ strays' = strays \cup ({c.to.dir} \cap Folders)
        /\ UNCHANGED <<tree, staged, uploads, claim, replaced, leaked, dirs, recycled, bytes,
                       ids, holds, bounds, reopened, misled, wanted>>
    BY <1>4 DEF NotRenamed
  <2>2. (PostFits(s) /\ CopyFits(s) /\ MoveFits(s))'
    BY <2>1, IdleFits
  <2>3. /\ called' \in 0..MaxCalls /\ faults' \in 0..MaxFaults /\ dirs' \subseteq Folders
        /\ wanted' \subseteq Folders /\ strays' \subseteq Folders
        /\ UNCHANGED <<tree, recycled, bytes, staging, ids, holds, kept, misled, leaked>>
    BY <1>1, <2>1 DEF TypeOK, bounds, staging, kept
  <2> QED
    BY <2>1, <2>2, <2>3, RequestStep
<1> QED
  BY <1>2, <1>3, <1>4

(* What the row of a moved id becomes, unless another row has the target. *)
LEMMA RepointTable ==
    ASSUME Based, NEW s \in Slots, NEW failed \in BOOLEAN, Repoint(s, failed)
    PROVE  /\ calls[s] \in MoveRequests /\ calls[s].kind = "move" /\ calls[s].stage = "repoint"
           /\ calls[s].id \in DOMAIN ids /\ calls[s].from # calls[s].to
           /\ calls[s].inode # 0
           /\ ids' \in Seq(Paths) /\ Len(ids') = Len(ids) /\ DOMAIN ids' = DOMAIN ids
           /\ \A i, j \in DOMAIN ids' : ids'[i] = ids'[j] => i = j
           /\ \A i \in DOMAIN ids : i # calls[s].id => ids'[i] = ids[i]
<1>1. TypeOK /\ CallsFit
  BY DEF Based
<1> DEFINE c == calls[s]
<1>2. c \in MoveRequests /\ c.stage = "repoint" /\ c.kind = "move"
  BY <1>1, Kinds DEF Repoint, At
<1>3. c.id \in DOMAIN ids /\ c.from # c.to /\ c.inode # 0
  BY <1>1, <1>2 DEF CallsFit, MoveFits, IsMove
<1>4. ids' = IF c.to \in Range(ids) \/ failed THEN ids ELSE [ids EXCEPT ![c.id] = c.to]
  BY DEF Repoint
<1>5. ids \in Seq(Paths) /\ c.to \in Paths
      /\ \A i, j \in DOMAIN ids : ids[i] = ids[j] => i = j
  BY <1>1, <1>2 DEF TypeOK, MoveRequests
<1>6. CASE c.to \in Range(ids) \/ failed
  BY <1>2, <1>3, <1>4, <1>5, <1>6
<1>7. CASE c.to \notin Range(ids) /\ ~failed
  <2>1. ids' = [ids EXCEPT ![c.id] = c.to] /\ \A i \in DOMAIN ids : ids[i] # c.to
    BY <1>4, <1>7 DEF Range
  <2>2. ids' \in Seq(Paths) /\ Len(ids') = Len(ids) /\ DOMAIN ids' = DOMAIN ids
    BY <2>1, <1>3, <1>5, Written
  <2>3. ids'[c.id] = c.to /\ \A i \in DOMAIN ids : i # c.id => ids'[i] = ids[i]
    BY <2>1, <1>3, <1>5
  <2> QED
    BY <2>1, <2>2, <2>3, <1>2, <1>3, <1>5
<1> QED
  BY <1>6, <1>7

(* The table keeps its length, and no two ids have one path. *)
LEMMA RepointBased ==
    ASSUME Based, NEW s \in Slots, NEW failed \in BOOLEAN, Repoint(s, failed)
    PROVE  Based'
<1>1. TypeOK /\ CallsFit /\ Places
  BY DEF Based
<1> DEFINE c == calls[s]
           r == [c EXCEPT !.stage = "answer"]
<1>2. /\ c \in MoveRequests /\ c.kind = "move" /\ c.stage = "repoint"
      /\ c.id \in DOMAIN ids /\ c.from # c.to /\ c.inode # 0
      /\ ids' \in Seq(Paths) /\ Len(ids') = Len(ids) /\ DOMAIN ids' = DOMAIN ids
      /\ \A i, j \in DOMAIN ids' : ids'[i] = ids'[j] => i = j
  BY RepointTable
<1>3. /\ calls' = [calls EXCEPT ![s] = r]
      /\ misled' \in SUBSET Inodes
      /\ UNCHANGED <<area, bytes, staging, holds, called, kept, left>>
  BY <1>1 DEF Repoint, GoTo, TypeOK
<1>4. r \in MoveRequests /\ r.kind = "move" /\ r.stage = "answer" /\ r.id = c.id
      /\ r.from = c.from /\ r.to = c.to
  BY <1>2 DEF MoveRequests
<1>5. r \in Request \cup {Idle}
  BY <1>4, Sorts
<1> HIDE DEF r
<1>6. calls' \in [Slots -> Request \cup {Idle}] /\ calls'[s] = r
  BY <1>1, <1>3, <1>5, CallStep
<1>7. faults' \in 0..MaxFaults
  BY <1>1, FaultStep DEF Repoint, TypeOK
<1>8. TypeOK'
  BY <1>1, <1>2, <1>3, <1>6, <1>7 DEF TypeOK, area, staging, kept, left
<1>9. CallsFit'
  <2>1. \A x \in DOMAIN bytes, m \in Uploads : OfUpload(x, m) => OfUpload(x, m)'
    BY <1>3 DEF OfUpload, staging, kept
  <2>2. (PostFits(s) /\ CopyFits(s) /\ MoveFits(s))'
    BY <1>2, <1>4, <1>6 DEF PostFits, CopyFits, MoveFits, Writing, IsMove
  <2> QED
    BY <1>1, <1>2, <1>3, <1>5, <2>1, <2>2, FitFrame
<1>10. Places'
  BY <1>1, <1>3 DEF Places, Fresh, area, staging, kept
<1> QED
  BY <1>8, <1>9, <1>10 DEF Based

(* The two outcomes of opening the target of a copy. *)
Created(s, c, o) ==
  /\ tree[c.from] # 0 /\ o \in Inodes /\ dirs' = MkdirAll(c.to)
  /\ \A n \in Uploads : staged[n] # 0 => staged[n] # o
  /\ \A p \in Paths : p # c.to => tree[p] # o
  /\ tree[c.to] = o \/ o > Len(bytes)
  /\ tree' \in [Paths -> 0..MaxInodes] /\ tree'[c.to] = o
  /\ \A p \in Paths : p # c.to => tree'[p] = tree[p]
  /\ bytes' \in Seq(Uploads \cup {Partial}) /\ Len(bytes') <= MaxInodes
  /\ o \in DOMAIN bytes' /\ DOMAIN bytes \subseteq DOMAIN bytes'
  /\ Len(bytes) <= Len(bytes') /\ o <= Len(bytes')
  /\ \A x \in DOMAIN bytes : x # o => bytes'[x] = bytes[x]
  /\ reopened' = reopened \cup {o}
  /\ calls' = [calls EXCEPT ![s] = [[[c EXCEPT !.stage = "fill"] EXCEPT !.inode = o]
                                      EXCEPT !.source = tree[c.from]]]
  /\ calls'[s] \in CopyRequests /\ calls'[s].kind = "copy"
  /\ calls'[s].stage = "fill" /\ calls'[s].inode = o
  /\ calls'[s].source = tree[c.from]
  /\ UNCHANGED <<recycled, staging, ids, holds, bounds, claim, replaced, misled, left>>
NotCreated(s, c) ==
  /\ tree[c.from] = 0
  /\ calls' = [calls EXCEPT ![s] = Idle] /\ calls'[s] = Idle
  /\ UNCHANGED <<tree, dirs, bytes, reopened, recycled, staging, ids, holds, bounds,
                 claim, replaced, misled, left>>

(* A copy opens the file at its target, or a new one there. *)
LEMMA CopyCreateDoes ==
    ASSUME Based, NEW s \in Slots, CopyCreate(s), NEW c, c = calls[s],
           NEW o, o = IF tree[c.to] # 0 THEN tree[c.to] ELSE NewInode
    PROVE  /\ c \in CopyRequests /\ c.from \in Paths /\ c.to \in Paths /\ c.stage = "create"
           /\ Created(s, c, o) \/ NotCreated(s, c)
           /\ \A t \in Slots : t # s => calls'[t] = calls[t]
<1>1. TypeOK /\ CallsFit /\ Places
  BY DEF Based
<1>2. c \in CopyRequests /\ c.stage = "create"
  BY <1>1, Kinds DEF CopyCreate, At
<1>3. c.from \in Paths /\ c.to \in Paths /\ tree[c.from] \in 0..MaxInodes
      /\ tree[c.to] \in 0..MaxInodes
  BY <1>1, <1>2 DEF CopyRequests, TypeOK
<1>4. CASE tree[c.from] = 0
  <2>1. /\ calls' = [calls EXCEPT ![s] = Idle]
        /\ UNCHANGED <<tree, dirs, bytes, reopened, recycled, staging, ids, holds, bounds,
                       claim, replaced, misled, left>>
    BY <1>4 DEF CopyCreate, End
  <2>2. calls'[s] = Idle /\ \A t \in Slots : t # s => calls'[t] = calls[t]
    BY <1>1, <2>1, CallStep
  <2> QED
    BY <1>2, <1>3, <1>4, <2>1, <2>2 DEF NotCreated
<1>5. CASE tree[c.from] # 0
  <2> DEFINE r == [[[c EXCEPT !.stage = "fill"] EXCEPT !.inode = o]
                     EXCEPT !.source = tree[c.from]]
  <2>1. /\ o \in Inodes /\ dirs' = MkdirAll(c.to)
        /\ tree' = [tree EXCEPT ![c.to] = o]
        /\ bytes' = IF o = NewInode THEN Append(bytes, Partial) ELSE [bytes EXCEPT ![o] = Partial]
        /\ reopened' = reopened \cup {o}
        /\ calls' = [calls EXCEPT ![s] = r]
        /\ UNCHANGED <<recycled, staging, ids, holds, bounds, claim, replaced, misled, left>>
    BY <1>5 DEF CopyCreate
  <2>2. /\ Len(bytes) \in Nat /\ DOMAIN bytes = 1..Len(bytes)
        /\ tree[c.to] <= Len(bytes) /\ tree[c.from] <= Len(bytes)
    BY <1>1, <1>3 DEF TypeOK, Places
  <2>3. \/ tree[c.to] # 0 /\ o = tree[c.to]
        \/ tree[c.to] = 0 /\ o = NewInode /\ o > Len(bytes)
    BY <2>2 DEF NewInode
  <2>4. o \in DOMAIN bytes \/ o = NewInode
    BY <1>3, <2>2, <2>3
  <2>5. /\ r \in CopyRequests /\ r.kind = "copy" /\ r.stage = "fill" /\ r.inode = o
        /\ r.source = tree[c.from]
    <3>1. o \in 0..MaxInodes
      BY <2>1 DEF Inodes
    <3> QED
      BY <3>1, <1>2, <1>3 DEF CopyRequests
  <2>6. \A n \in Uploads : staged[n] # 0 => staged[n] # o
    <3>1. CASE tree[c.to] # 0
      BY <3>1, <1>1, <1>3 DEF Places
    <3>2. CASE tree[c.to] = 0
      BY <3>2, <2>3, <1>1, <2>1, <2>2 DEF Places, TypeOK
    <3> QED
      BY <3>1, <3>2
  <2>7. \A p \in Paths : p # c.to => tree[p] # o
    <3>1. CASE tree[c.to] # 0
      BY <3>1, <1>1, <1>3 DEF Places
    <3>2. CASE tree[c.to] = 0
      BY <3>2, <2>3, <1>1, <2>1, <2>2 DEF Places, TypeOK
    <3> QED
      BY <3>1, <3>2
  <2> HIDE DEF r
  <2>8. /\ bytes' \in Seq(Uploads \cup {Partial}) /\ Len(bytes') <= MaxInodes
        /\ o \in DOMAIN bytes' /\ DOMAIN bytes \subseteq DOMAIN bytes'
        /\ Len(bytes) <= Len(bytes') /\ o <= Len(bytes')
        /\ \A x \in DOMAIN bytes : x # o => bytes'[x] = bytes[x]
    BY <1>1, <2>1, <2>4, Opening
  <2>9. r \in Request \cup {Idle}
    BY <2>5, Sorts
  <2>10. calls'[s] = r /\ \A t \in Slots : t # s => calls'[t] = calls[t]
    BY <1>1, <2>1, <2>9, CallStep
  <2>11. /\ tree' \in [Paths -> 0..MaxInodes] /\ tree'[c.to] = o
         /\ \A p \in Paths : p # c.to => tree'[p] = tree[p]
    BY <1>1, <1>3, <2>1 DEF TypeOK, Inodes
  <2> QED
    BY <1>2, <1>3, <1>5, <2>1, <2>3, <2>5, <2>6, <2>7, <2>8, <2>10, <2>11 DEF Created, r
<1> QED
  BY <1>4, <1>5

(* A new file is at the target of its copy alone. *)
LEMMA CopyCreateBased ==
    ASSUME Based, NEW s \in Slots, CopyCreate(s)
    PROVE  Based'
<1>1. TypeOK /\ CallsFit /\ Places
  BY DEF Based
<1>0. PICK c, o : c = calls[s] /\ o = IF tree[c.to] # 0 THEN tree[c.to] ELSE NewInode
  OBVIOUS
<1> DEFINE r == [[[c EXCEPT !.stage = "fill"] EXCEPT !.inode = o]
                   EXCEPT !.source = tree[c.from]]
<1>2. /\ c.from \in Paths /\ c.to \in Paths
      /\ Created(s, c, o) \/ NotCreated(s, c)
  BY <1>0, CopyCreateDoes
<1>3. CASE NotCreated(s, c)
  <2>1. /\ calls' = [calls EXCEPT ![s] = Idle] /\ calls'[s] = Idle
        /\ UNCHANGED <<tree, dirs, bytes, reopened, recycled, staging, ids, holds, bounds,
                       claim, replaced, misled, left>>
    BY <1>3 DEF NotCreated
  <2>2. (PostFits(s) /\ CopyFits(s) /\ MoveFits(s))'
    BY <2>1, IdleFits
  <2>3. /\ called' \in 0..MaxCalls /\ faults' \in 0..MaxFaults /\ dirs' \subseteq Folders
        /\ wanted' \subseteq Folders /\ strays' \subseteq Folders
        /\ UNCHANGED <<tree, recycled, bytes, staging, ids, holds, kept, misled, leaked>>
    BY <1>1, <2>1 DEF TypeOK, bounds, staging, kept, left
  <2> QED
    BY <2>1, <2>2, <2>3, RequestStep
<1>4. CASE Created(s, c, o)
  <2>1. /\ tree[c.from] # 0 /\ o \in Inodes /\ dirs' = MkdirAll(c.to)
        /\ \A n \in Uploads : staged[n] # 0 => staged[n] # o
        /\ \A p \in Paths : p # c.to => tree[p] # o
        /\ tree' \in [Paths -> 0..MaxInodes] /\ tree'[c.to] = o
        /\ \A p \in Paths : p # c.to => tree'[p] = tree[p]
        /\ bytes' \in Seq(Uploads \cup {Partial}) /\ Len(bytes') <= MaxInodes
        /\ o \in DOMAIN bytes' /\ DOMAIN bytes \subseteq DOMAIN bytes'
        /\ Len(bytes) <= Len(bytes') /\ o <= Len(bytes')
        /\ reopened' = reopened \cup {o}
        /\ calls' = [calls EXCEPT ![s] = r]
        /\ calls'[s] \in CopyRequests /\ calls'[s].kind = "copy"
        /\ calls'[s].stage = "fill" /\ calls'[s].inode = o
        /\ calls'[s].source = tree[c.from]
        /\ UNCHANGED <<recycled, staging, ids, holds, bounds, claim, replaced, misled, left>>
    BY <1>4 DEF Created
  <2>2. /\ Len(bytes) \in Nat /\ DOMAIN bytes = 1..Len(bytes)
        /\ tree[c.from] <= Len(bytes) /\ tree[c.from] \in Nat
    BY <1>1, <1>2, FilesAssumption DEF TypeOK, Places
  <2> HIDE DEF r
  <2>3. calls'[s] = r
    BY <1>1, <2>1 DEF TypeOK
  <2>4. r \in Request \cup {Idle}
    BY <2>1, <2>3, Sorts
  <2>5. calls' \in [Slots -> Request \cup {Idle}]
    BY <1>1, <2>1, <2>4, CallStep
  <2>6. dirs' \subseteq Folders /\ reopened' \in SUBSET Inodes
    BY <1>1, <2>1 DEF TypeOK, MkdirAll
  <2>7. TypeOK'
    BY <1>1, <2>1, <2>5, <2>6 DEF TypeOK, staging, bounds, left
  <2>8. CallsFit'
    <3>1. \A x \in DOMAIN bytes, m \in Uploads : OfUpload(x, m) => OfUpload(x, m)'
      BY <2>1 DEF OfUpload, staging
    <3>2. tree[c.from] \in DOMAIN bytes'
      BY <2>1, <2>2
    <3>3. (PostFits(s) /\ CopyFits(s) /\ MoveFits(s))'
      BY <2>1, <3>2 DEF PostFits, CopyFits, MoveFits, Writing, IsMove
    <3> QED
      BY <1>1, <2>1, <2>4, <3>1, <3>3, FitFrame
  <2>9. Places'
    <3>1. UNCHANGED <<staged, claim, holds>> /\ Len(bytes') \in Nat
      BY <2>1 DEF staging
    <3>2. \A p \in Paths : tree'[p] <= Len(bytes')
      <4>1. \A p \in Paths : tree[p] \in Nat /\ tree[p] <= Len(bytes)
        BY <1>1, FilesAssumption DEF TypeOK, Places
      <4> QED
        BY <4>1, <2>1, <2>2, <3>1
    <3>3. \A n \in Uploads : staged[n] <= Len(bytes')
      <4>1. \A n \in Uploads : staged[n] \in Nat /\ staged[n] <= Len(bytes)
        BY <1>1, FilesAssumption DEF TypeOK, Places
      <4> QED
        BY <4>1, <2>1, <2>2, <3>1
    <3>4. \A p, q \in Paths : tree'[p] # 0 /\ tree'[p] = tree'[q] => p = q
      BY <1>1, <2>1 DEF Places
    <3>5. \A p \in Paths, n \in Uploads : staged[n] # 0 => tree'[p] # staged[n]
      BY <1>1, <2>1 DEF Places
    <3>6. \A x \in Inodes : x > Len(bytes') => Fresh(x)
      BY <1>1, <2>1, <2>2, <3>1 DEF Places, Inodes
    <3> QED
      BY <1>1, <3>1, <3>2, <3>3, <3>4, <3>5, <3>6 DEF Places, Fresh
  <2> QED
    BY <2>7, <2>8, <2>9 DEF Based
<1> QED
  BY <1>2, <1>3, <1>4

(* A crash leaves the files where they are, and no requests. *)
LEMMA CrashBased ==
    ASSUME Based, Crash
    PROVE  Based'
<1>1. TypeOK /\ CallsFit /\ Places
  BY DEF Based
<1>2. calls' = [s \in Slots |-> Idle]
  BY DEF Crash
<1>3. faults' \in 0..MaxFaults
  BY <1>1, FaultStep DEF Crash
<1>4. misled' \in SUBSET Inodes
  <2>1. ASSUME NEW s \in Slots, At(s, "move", "repoint")
        PROVE  calls[s].inode \in Inodes
    <3>1. calls[s] \in MoveRequests /\ calls[s].inode # 0
      BY <1>1, <2>1, Kinds DEF At, CallsFit, MoveFits, IsMove
    <3> QED
      BY <3>1, FilesAssumption DEF MoveRequests, Inodes
  <2> QED
    BY <1>1, <2>1 DEF Crash, TypeOK
<1>5. strays' \subseteq Folders
  BY <1>1 DEF Crash, TypeOK
<1>6. TypeOK'
  BY <1>1, <1>2, <1>3, <1>4, <1>5 DEF Crash, TypeOK, area, staging, kept
<1>7. CallsFit'
  BY <1>2, IdleFits DEF CallsFit
<1>8. Places'
  BY <1>1 DEF Crash, Places, Fresh, area, staging, kept
<1> QED
  BY <1>6, <1>7, <1>8 DEF Based

(* Nothing is there at first. *)
LEMMA InitBased == Init => Based
<1> SUFFICES ASSUME Init PROVE Based
  OBVIOUS
<1>1. (CHOOSE p \in Paths : TRUE) \in Paths
  BY FilesAssumption
<1>2. TypeOK
  <2>1. uploads \in [Uploads -> Upload]
    BY <1>1 DEF Init, Upload
  <2> QED
    BY <2>1, FilesAssumption DEF Init, TypeOK
<1>3. CallsFit
  BY DEF Init, CallsFit, PostFits, CopyFits, MoveFits, Writing, IsMove, Idle
<1>4. Places
  BY DEF Init, Places, Fresh, Inodes
<1> QED
  BY <1>2, <1>3, <1>4 DEF Based

Kept == Checked /\ UploadsAreKept

(* A file that finish took has been created. *)
LEMMA ClaimedExists ==
    ASSUME TypeOK, Places, NEW o \in Inodes, claim[o] # 0
    PROVE  o \in DOMAIN bytes
BY DEF TypeOK, Places, Fresh, Inodes

(* A staged file has been created. *)
LEMMA StagedExists ==
    ASSUME TypeOK, Places, NEW n \in Uploads, staged[n] # 0
    PROVE  staged[n] \in DOMAIN bytes /\ staged[n] \in Inodes
<1>1. /\ staged[n] \in 0..MaxInodes /\ staged[n] <= Len(bytes)
      /\ Len(bytes) \in Nat /\ DOMAIN bytes = 1..Len(bytes)
  BY DEF TypeOK, Places
<1> QED
  BY <1>1, FilesAssumption DEF Inodes

(* The upload of a finish. *)
LEMMA FinishN ==
    ASSUME TypeOK, NEW t \in Slots, At(t, "finish", "rename")
    PROVE  calls[t].n \in Uploads
BY Kinds DEF At, FinishRequests

(* A step that writes no file, moves none and lets no finish through. *)
KeptFrame ==
  /\ UNCHANGED <<tree, bytes, staged, claim, recycled, replaced, reopened>>
  /\ \A t \in Slots : At(t, "finish", "rename")' => calls'[t] = calls[t]

(* Such a step keeps what was kept. *)
LEMMA KeptFrameStep ==
    ASSUME Based, Kept, KeptFrame
    PROVE  Kept'
BY DEF Kept, KeptFrame, Checked, UploadsAreKept, InTree, At

(* Requests that begin, and those that end or go on without a file, are such
   steps. *)
LEMMA KeptQuietly ==
    ASSUME Based, NEW s \in Slots,
           \/ \E n \in Uploads : UploadStream(s, n) \/ Finish(s, n)
           \/ \E i \in DOMAIN ids : DeleteFolder(s, i)
           \/ \E i \in DOMAIN ids, q \in Paths : Move(s, i, q) \/ Copy(s, i, q)
           \/ Prune(s) \/ WriteFails(s)
           \/ \E lost \in BOOLEAN : \/ FinishEntry(s, lost) \/ MoveAnswer(s, lost)
                                    \/ Repoint(s, lost)
    PROVE  KeptFrame
<1>1. TypeOK
  BY DEF Based
<1>2. ASSUME NEW r, calls' = [calls EXCEPT ![s] = r], ~(r.stage = "rename" /\ r.kind = "finish")
      PROVE  \A t \in Slots : At(t, "finish", "rename")' => calls'[t] = calls[t]
  BY <1>1, <1>2 DEF TypeOK, At
<1>3. CASE \E n \in Uploads : UploadStream(s, n)
  <2>1. \A t \in Slots : At(t, "finish", "rename")' => calls'[t] = calls[t]
    BY <1>2, <1>3 DEF UploadStream, Start
  <2> QED
    BY <1>3, <2>1 DEF KeptFrame, UploadStream, area, staging, kept
<1>4. CASE \E n \in Uploads : Finish(s, n)
  <2>1. \A t \in Slots : At(t, "finish", "rename")' => calls'[t] = calls[t]
    BY <1>2, <1>4 DEF Finish, Start
  <2> QED
    BY <1>4, <2>1 DEF KeptFrame, Finish, area, staging, kept
<1>5. CASE \E i \in DOMAIN ids : DeleteFolder(s, i)
  <2>1. \A t \in Slots : At(t, "finish", "rename")' => calls'[t] = calls[t]
    BY <1>2, <1>5 DEF DeleteFolder, Begin, Start
  <2> QED
    BY <1>5, <2>1 DEF KeptFrame, DeleteFolder, area, staging, kept
<1>6. CASE \E i \in DOMAIN ids, q \in Paths : Move(s, i, q)
  <2>1. \A t \in Slots : At(t, "finish", "rename")' => calls'[t] = calls[t]
    <3>1. PICK i \in DOMAIN ids, q \in Paths, to \in Paths :
            Begin(s, [kind |-> "move", stage |-> "rename", id |-> i, from |-> ids[i],
                      to |-> to, inode |-> 0])
      BY <1>6, <1>1, TargetIsFree DEF Move
    <3> QED
      BY <1>2, <3>1 DEF Begin, Start
  <2> QED
    BY <1>6, <2>1 DEF KeptFrame, Move, staging, kept
<1>7. CASE \E i \in DOMAIN ids, q \in Paths : Copy(s, i, q)
  <2>1. \A t \in Slots : At(t, "finish", "rename")' => calls'[t] = calls[t]
    <3>1. PICK i \in DOMAIN ids, q \in Paths, to \in Paths :
            Begin(s, [kind |-> "copy", stage |-> "create", from |-> ids[i], to |-> to,
                      source |-> 0, inode |-> 0])
      BY <1>7, <1>1, TargetIsFree DEF Copy
    <3> QED
      BY <1>2, <3>1 DEF Begin, Start
  <2> QED
    BY <1>7, <2>1 DEF KeptFrame, Copy, area, staging, kept
<1>8. CASE Prune(s) \/ WriteFails(s)
  <2>1. \A t \in Slots : At(t, "finish", "rename")' => calls'[t] = calls[t]
    BY <1>2, <1>8 DEF Prune, WriteFails, End, Idle
  <2> QED
    BY <1>8, <2>1 DEF KeptFrame, Prune, WriteFails, area, staging, kept
<1>9. CASE \E lost \in BOOLEAN : FinishEntry(s, lost) \/ MoveAnswer(s, lost)
  <2>1. \A t \in Slots : At(t, "finish", "rename")' => calls'[t] = calls[t]
    BY <1>2, <1>9 DEF FinishEntry, MoveAnswer, End, Idle
  <2> QED
    BY <1>9, <2>1 DEF KeptFrame, FinishEntry, MoveAnswer, area, staging, kept
<1>10. CASE \E lost \in BOOLEAN : Repoint(s, lost)
  <2>1. calls[s] \in MoveRequests
    BY <1>10, <1>1, Kinds DEF Repoint, At
  <2>2. calls' = [calls EXCEPT ![s] = [calls[s] EXCEPT !.stage = "answer"]]
    BY <1>10 DEF Repoint, GoTo
  <2>3. [calls[s] EXCEPT !.stage = "answer"].stage = "answer"
    BY <2>1 DEF MoveRequests
  <2>4. \A t \in Slots : At(t, "finish", "rename")' => calls'[t] = calls[t]
    BY <1>2, <2>2, <2>3
  <2> QED
    BY <1>10, <2>4 DEF KeptFrame, Repoint, area, staging, kept
<1> QED
  BY <1>3, <1>4, <1>5, <1>6, <1>7, <1>8, <1>9, <1>10

(* So are the steps that belong to no request, but the sweep. *)
LEMMA KeptIdly ==
    ASSUME Based,
           \/ \E n \in Uploads, p \in Paths, recorded \in BOOLEAN : Apply(n, p, recorded)
           \/ \E n \in Uploads : Expire(n)
           \/ \E p \in Paths : List(p)
           \/ \E d \in Folders : CreateFolder(d)
           \/ Crash
    PROVE  KeptFrame
<1>1. CASE \E n \in Uploads, p \in Paths, recorded \in BOOLEAN : Apply(n, p, recorded)
  BY <1>1 DEF KeptFrame, Apply, area, kept
<1>2. CASE \E n \in Uploads : Expire(n)
  BY <1>2 DEF KeptFrame, Expire, area, kept
<1>3. CASE \E p \in Paths : List(p)
  BY <1>3 DEF KeptFrame, List, area, staging, kept
<1>4. CASE \E d \in Folders : CreateFolder(d)
  BY <1>4 DEF KeptFrame, CreateFolder, staging, kept
<1>5. CASE Crash
  BY <1>5 DEF KeptFrame, Crash, area, staging, kept, At, Idle
<1> QED
  BY <1>1, <1>2, <1>3, <1>4, <1>5

(* A POST truncates the file of its upload: no file of the tree; one that a
   finish has verified is marked. *)
LEMMA StageOpenKept ==
    ASSUME Based, Kept, NEW s \in Slots, StageOpen(s)
    PROVE  Kept'
<1>0. PICK n, o : n = calls[s].n /\ o = IF staged[n] # 0 THEN staged[n] ELSE NewInode
  OBVIOUS
<1>1. TypeOK /\ Places /\ Checked /\ UploadsAreKept
  BY DEF Based, Kept
<1>2. Opens(s, n, o)
  BY <1>0, StageOpenDoes
<1>3. /\ calls' = [calls EXCEPT ![s] = [[calls[s] EXCEPT !.stage = "fill"] EXCEPT !.inode = o]]
      /\ reopened' = IF Verified(n) THEN reopened \cup {o} ELSE reopened
      /\ UNCHANGED <<tree, recycled, claim, replaced>>
  BY <1>0 DEF StageOpen, area
<1>4. calls[s] \in PostRequests
  BY <1>2 DEF Opens
<1>5. \A t \in Slots : At(t, "finish", "rename")' => t # s /\ calls'[t] = calls[t]
  BY <1>1, <1>3, <1>4 DEF At, TypeOK, PostRequests
<1>6. UploadsAreKept'
  <2>1. SUFFICES ASSUME NEW x \in Inodes, claim[x] # 0
                 PROVE  /\ InTree(x)' \/ x \in (recycled \cup replaced)'
                        /\ bytes'[x] = claim[x] \/ x \in reopened'
    BY <1>3 DEF UploadsAreKept
  <2>2. x \in DOMAIN bytes /\ x # o
    BY <1>1, <1>2, <2>1, ClaimedExists DEF Opens
  <2>3. bytes'[x] = bytes[x]
    BY <1>2, <2>2 DEF Opens
  <2> QED
    BY <1>1, <1>3, <2>1, <2>3 DEF UploadsAreKept, InTree
<1>7. Checked'
  <2>1. SUFFICES ASSUME NEW t \in Slots, At(t, "finish", "rename")', staged'[calls[t].n] # 0
                 PROVE  \/ bytes'[staged'[calls[t].n]] = calls[t].n
                        \/ staged'[calls[t].n] \in reopened'
    BY <1>5 DEF Checked
  <2>2. At(t, "finish", "rename")
    BY <1>5, <2>1 DEF At
  <2>3. calls[t].n \in Uploads
    BY <1>1, <2>2, FinishN
  <2>4. CASE calls[t].n = n
    BY <2>2, <2>4, <1>2, <1>3 DEF Verified, Opens
  <2>5. CASE calls[t].n # n
    <3>1. staged'[calls[t].n] = staged[calls[t].n] /\ staged[calls[t].n] # o
      BY <1>2, <2>3, <2>5 DEF Opens
    <3>2. staged[calls[t].n] \in DOMAIN bytes
      BY <1>1, <2>1, <2>3, <3>1, StagedExists
    <3>3. bytes'[staged[calls[t].n]] = bytes[staged[calls[t].n]]
      BY <1>2, <3>1, <3>2 DEF Opens
    <3> QED
      BY <1>1, <1>3, <2>1, <2>2, <3>1, <3>3 DEF Checked
  <2> QED
    BY <2>4, <2>5
<1> QED
  BY <1>6, <1>7 DEF Kept

(* A POST fills in the content of its upload. *)
LEMMA StageFillKept ==
    ASSUME Based, Kept, NEW s \in Slots, StageFill(s)
    PROVE  Kept'
<1>0. PICK n, o : n = calls[s].n /\ o = calls[s].inode
  OBVIOUS
<1>1. TypeOK /\ Places /\ Checked /\ UploadsAreKept /\ CallsFit
  BY DEF Based, Kept
<1>2. /\ o \in DOMAIN bytes /\ claim[o] \in {0, n}
      /\ \A m \in Uploads : staged[m] = o => m = n
  BY <1>0, <1>1, Kinds DEF StageFill, At, CallsFit, PostFits, Writing, OfUpload
<1>3. /\ calls' = [calls EXCEPT ![s] = Idle]
      /\ bytes' = [bytes EXCEPT ![o] = n] /\ reopened' = reopened \ {o}
      /\ UNCHANGED <<tree, recycled, staged, claim, replaced>>
  BY <1>0 DEF StageFill, End, Opened, area, staging
<1>4. \A t \in Slots : At(t, "finish", "rename")' => calls'[t] = calls[t]
  BY <1>1, <1>3 DEF At, TypeOK, Idle
<1>5. bytes'[o] = n /\ \A x \in DOMAIN bytes : x # o => bytes'[x] = bytes[x]
  BY <1>1, <1>2, <1>3 DEF TypeOK
<1>6. UploadsAreKept'
  <2>1. SUFFICES ASSUME NEW x \in Inodes, claim[x] # 0
                 PROVE  /\ InTree(x)' \/ x \in (recycled \cup replaced)'
                        /\ bytes'[x] = claim[x] \/ x \in reopened'
    BY <1>3 DEF UploadsAreKept
  <2>2. x \in DOMAIN bytes
    BY <1>1, <2>1, ClaimedExists
  <2> QED
    BY <1>1, <1>2, <1>3, <1>5, <2>1, <2>2 DEF UploadsAreKept, InTree
<1>7. Checked'
  <2>1. SUFFICES ASSUME NEW t \in Slots, At(t, "finish", "rename")', staged[calls[t].n] # 0
                 PROVE  \/ bytes'[staged[calls[t].n]] = calls[t].n
                        \/ staged[calls[t].n] \in reopened'
    BY <1>3, <1>4 DEF Checked
  <2>2. At(t, "finish", "rename")
    BY <1>4, <2>1 DEF At
  <2>3. calls[t].n \in Uploads /\ staged[calls[t].n] \in DOMAIN bytes
    BY <1>1, <2>1, <2>2, FinishN, StagedExists
  <2> QED
    BY <1>1, <1>2, <1>3, <1>5, <2>1, <2>2, <2>3 DEF Checked
<1> QED
  BY <1>6, <1>7 DEF Kept

(* A finish goes on when the hash is that of its upload. *)
LEMMA FinalizeVerifyKept ==
    ASSUME Based, Kept, NEW s \in Slots, FinalizeVerify(s)
    PROVE  Kept'
<1>1. TypeOK /\ Checked /\ UploadsAreKept
  BY DEF Based, Kept
<1>2. calls[s] \in FinishRequests
  BY <1>1, Kinds DEF FinalizeVerify, At
<1>3. UNCHANGED <<tree, recycled, bytes, staged, claim, replaced, reopened>>
  BY DEF FinalizeVerify, staging, kept
<1>4. CASE staged[calls[s].n] # 0 /\ bytes[staged[calls[s].n]] = calls[s].n
  <2>1. calls' = [calls EXCEPT ![s] = [calls[s] EXCEPT !.stage = "rename"]]
    BY <1>4 DEF FinalizeVerify, GoTo
  <2>2. \A t \in Slots : t # s => calls'[t] = calls[t]
    BY <1>1, <2>1 DEF TypeOK
  <2>3. calls'[s].n = calls[s].n
    BY <1>1, <1>2, <2>1 DEF TypeOK, FinishRequests
  <2> QED
    BY <1>1, <1>3, <1>4, <2>2, <2>3 DEF Kept, Checked, UploadsAreKept, InTree, At
<1>5. CASE ~(staged[calls[s].n] # 0 /\ bytes[staged[calls[s].n]] = calls[s].n)
  <2>1. calls' = [calls EXCEPT ![s] = Idle]
    BY <1>5 DEF FinalizeVerify, End
  <2>2. \A t \in Slots : At(t, "finish", "rename")' => calls'[t] = calls[t]
    BY <1>1, <2>1 DEF TypeOK, At, Idle
  <2> QED
    BY <1>3, <2>2, KeptFrameStep DEF KeptFrame
<1> QED
  BY <1>4, <1>5

(* What the finish has verified is in the tree, what was there is replaced. *)
LEMMA FinalizeRenameKept ==
    ASSUME Based, Kept, NEW s \in Slots, FinalizeRename(s)
    PROVE  Kept'
<1>0. PICK c, o : c = calls[s] /\ o = staged[c.n]
  OBVIOUS
<1>1. TypeOK /\ Places /\ Checked /\ UploadsAreKept
  BY DEF Based, Kept
<1>2. /\ c \in FinishRequests /\ c.n \in Uploads /\ c.to \in Paths
      /\ c.stage = "rename" /\ c.kind = "finish"
      /\ Stored(s, c, o) \/ NotStored(s, c, o)
      /\ \A t \in Slots : t # s => calls'[t] = calls[t]
  BY <1>0, FinalizeRenameDoes
<1>3. CASE Stored(s, c, o)
  <2>1. bytes[o] = c.n \/ o \in reopened
    BY <1>0, <1>1, <1>2, <1>3 DEF Checked, At, Stored
  <2>2. \A t \in Slots : At(t, "finish", "rename")' => t # s /\ calls'[t] = calls[t]
    BY <1>2, <1>3 DEF Stored, At
  <2>3. UploadsAreKept'
    <3>1. SUFFICES ASSUME NEW x \in Inodes, claim'[x] # 0
                   PROVE  /\ InTree(x)' \/ x \in (recycled \cup replaced)'
                          /\ bytes'[x] = claim'[x] \/ x \in reopened'
      BY DEF UploadsAreKept
    <3>2. CASE x = o
      <4>1. InTree(x)'
        BY <1>2, <1>3, <3>2 DEF Stored, InTree, Range
      <4> QED
        BY <1>3, <2>1, <3>2, <4>1 DEF Stored
    <3>3. CASE x # o
      <4>1. claim[x] # 0 /\ claim'[x] = claim[x]
        BY <1>3, <3>1, <3>3 DEF Stored
      <4>2. InTree(x) => InTree(x)' \/ x \in replaced'
        <5>1. SUFFICES ASSUME NEW p \in Paths, tree[p] = x PROVE InTree(x)' \/ x \in replaced'
          BY <1>1 DEF InTree, Range, TypeOK
        <5>2. CASE p = c.to
          BY <1>3, <5>1, <5>2, <3>1, FilesAssumption DEF Stored, Inodes
        <5>3. CASE p # c.to
          BY <1>3, <5>1, <5>3 DEF Stored, InTree, Range
        <5> QED
          BY <5>2, <5>3
      <4> QED
        BY <1>1, <1>3, <4>1, <4>2 DEF UploadsAreKept, Stored
    <3> QED
      BY <3>2, <3>3
  <2>4. Checked'
    <3>1. SUFFICES ASSUME NEW t \in Slots, At(t, "finish", "rename")', staged'[calls[t].n] # 0
                   PROVE  \/ bytes'[staged'[calls[t].n]] = calls[t].n
                          \/ staged'[calls[t].n] \in reopened'
      BY <2>2 DEF Checked
    <3>2. At(t, "finish", "rename")
      BY <2>2, <3>1 DEF At
    <3>3. calls[t].n \in Uploads
      BY <1>1, <3>2, FinishN
    <3> QED
      BY <1>1, <1>3, <3>1, <3>2, <3>3 DEF Checked, Stored
  <2> QED
    BY <2>3, <2>4 DEF Kept
<1>4. CASE NotStored(s, c, o)
  <2>1. \A t \in Slots : At(t, "finish", "rename")' => calls'[t] = calls[t]
    BY <1>2, <1>4 DEF At, Idle, NotStored
  <2> QED
    BY <1>4, <2>1, KeptFrameStep DEF KeptFrame, NotStored
<1> QED
  BY <1>2, <1>3, <1>4

(* A finish that is about to rename, with what it finds staged. *)
LEMMA CheckedFrame ==
    ASSUME Based, Checked,
           \A t \in Slots : At(t, "finish", "rename")' => calls'[t] = calls[t],
           \A n \in Uploads : staged'[n] \in {0, staged[n]},
           \A n \in Uploads : staged[n] # 0 => \/ bytes'[staged[n]] = bytes[staged[n]]
                                               \/ staged[n] \in reopened',
           reopened \subseteq reopened'
    PROVE  Checked'
<1>1. TypeOK
  BY DEF Based
<1>2. SUFFICES ASSUME NEW t \in Slots, At(t, "finish", "rename")', staged'[calls[t].n] # 0
               PROVE  \/ bytes'[staged'[calls[t].n]] = calls[t].n
                      \/ staged'[calls[t].n] \in reopened'
  BY DEF Checked
<1>3. At(t, "finish", "rename")
  BY <1>2 DEF At
<1>4. calls[t].n \in Uploads
  BY <1>1, <1>3, FinishN
<1> QED
  BY <1>2, <1>3, <1>4 DEF Checked

(* A recycled file is in the recycling area. *)
LEMMA RecycleKept ==
    ASSUME Based, Kept, NEW s \in Slots, Recycle(s)
    PROVE  Kept'
<1>0. PICK p : p = calls[s].from
  OBVIOUS
<1>1. TypeOK /\ Checked /\ UploadsAreKept
  BY DEF Based, Kept
<1>2. calls[s] \in DeleteRequests
  BY <1>1, Kinds DEF Recycle, At
<1>3. p \in Paths /\ UNCHANGED <<bytes, staged, claim, replaced, reopened>>
  BY <1>0, <1>2 DEF DeleteRequests, Recycle, staging, kept
<1>4. Checked'
  <2>1. calls' = [calls EXCEPT ![s] = Idle]
        \/ calls' = [calls EXCEPT ![s] = [calls[s] EXCEPT !.stage = "prune"]]
    BY DEF Recycle, GoTo, End
  <2>2. \A t \in Slots : At(t, "finish", "rename")' => calls'[t] = calls[t]
    BY <1>1, <1>2, <2>1 DEF TypeOK, At, Idle, DeleteRequests
  <2> QED
    BY <1>1, <1>3, <2>2, CheckedFrame
<1>5. UploadsAreKept'
  <2>1. SUFFICES ASSUME NEW x \in Inodes, claim[x] # 0, InTree(x)
                 PROVE  InTree(x)' \/ x \in recycled'
    <3>1. recycled \subseteq recycled'
      BY DEF Recycle
    <3> QED
      BY <1>1, <1>3, <3>1 DEF UploadsAreKept
  <2>2. PICK q \in Paths : tree[q] = x
    BY <1>1, <2>1 DEF InTree, Range, TypeOK
  <2>3. CASE tree[p] # 0
    <3>1. recycled' = recycled \cup {tree[p]} /\ tree' = [tree EXCEPT ![p] = 0]
      BY <1>0, <2>3 DEF Recycle
    <3>2. CASE q = p
      BY <2>2, <3>1, <3>2
    <3>3. CASE q # p
      <4>1. tree'[q] = x /\ q \in DOMAIN tree'
        BY <1>1, <1>3, <2>2, <3>1, <3>3 DEF TypeOK
      <4> QED
        BY <4>1 DEF InTree, Range
    <3> QED
      BY <3>2, <3>3
  <2>4. CASE tree[p] = 0
    BY <1>0, <2>1, <2>4 DEF Recycle, InTree
  <2> QED
    BY <2>3, <2>4
<1> QED
  BY <1>4, <1>5 DEF Kept

(* A moved file is at its target, what was there is replaced. *)
LEMMA MoveRenameKept ==
    ASSUME Based, Kept, NEW s \in Slots, MoveRename(s)
    PROVE  Kept'
<1>0. PICK c, o : c = calls[s] /\ o = tree[c.from]
  OBVIOUS
<1>1. TypeOK /\ Checked /\ UploadsAreKept
  BY DEF Based, Kept
<1>2. /\ c.from \in Paths /\ c.to \in Paths
      /\ Renamed(s, c, o) \/ NotRenamed(s, c, o)
      /\ \A t \in Slots : t # s => calls'[t] = calls[t]
  BY <1>0, MoveRenameDoes
<1>3. CASE Renamed(s, c, o)
  <2>1. UNCHANGED <<bytes, staged, claim, reopened, recycled>>
    BY <1>3 DEF Renamed
  <2>2. Checked'
    <3>1. \A t \in Slots : At(t, "finish", "rename")' => calls'[t] = calls[t]
      BY <1>2, <1>3 DEF Renamed, At
    <3> QED
      BY <1>1, <2>1, <3>1, CheckedFrame
  <2>3. UploadsAreKept'
    <3>1. SUFFICES ASSUME NEW x \in Inodes, claim[x] # 0, InTree(x)
                   PROVE  InTree(x)' \/ x \in replaced'
      <4>1. replaced \subseteq replaced'
        BY <1>3 DEF Renamed
      <4> QED
        BY <1>1, <2>1, <4>1 DEF UploadsAreKept
    <3>2. PICK q \in Paths : tree[q] = x
      BY <1>1, <3>1 DEF InTree, Range, TypeOK
    <3>3. DOMAIN tree' = Paths
      BY <1>3 DEF Renamed
    <3>4. CASE q = c.from
      <4>1. tree'[c.to] = x
        BY <1>0, <1>3, <3>2, <3>4 DEF Renamed
      <4> QED
        BY <1>2, <3>3, <4>1 DEF InTree, Range
    <3>5. CASE q = c.to
      <4>1. x # 0
        BY FilesAssumption DEF Inodes
      <4> QED
        BY <1>3, <3>2, <3>5, <4>1 DEF Renamed
    <3>6. CASE q \notin {c.from, c.to}
      <4>1. tree'[q] = x
        BY <1>3, <3>2, <3>6 DEF Renamed
      <4> QED
        BY <3>3, <4>1 DEF InTree, Range
    <3> QED
      BY <3>4, <3>5, <3>6
  <2> QED
    BY <2>2, <2>3 DEF Kept
<1>4. CASE NotRenamed(s, c, o)
  <2>1. \A t \in Slots : At(t, "finish", "rename")' => calls'[t] = calls[t]
    BY <1>2, <1>4 DEF At, Idle, NotRenamed
  <2> QED
    BY <1>4, <2>1, KeptFrameStep DEF KeptFrame, NotRenamed
<1> QED
  BY <1>2, <1>3, <1>4

(* A copy marks the file that it truncates. *)
LEMMA CopyCreateKept ==
    ASSUME Based, Kept, NEW s \in Slots, CopyCreate(s)
    PROVE  Kept'
<1>0. PICK c, o : c = calls[s] /\ o = IF tree[c.to] # 0 THEN tree[c.to] ELSE NewInode
  OBVIOUS
<1>1. TypeOK /\ Places /\ Checked /\ UploadsAreKept
  BY DEF Based, Kept
<1>2. /\ c.from \in Paths /\ c.to \in Paths
      /\ Created(s, c, o) \/ NotCreated(s, c)
      /\ \A t \in Slots : t # s => calls'[t] = calls[t]
  BY <1>0, CopyCreateDoes
<1>3. CASE Created(s, c, o)
  <2>1. UNCHANGED <<staged, claim, replaced, recycled>> /\ reopened' = reopened \cup {o}
    BY <1>3 DEF Created, staging
  <2>2. \A x \in DOMAIN bytes : x # o => bytes'[x] = bytes[x]
    BY <1>3 DEF Created
  <2>3. Checked'
    <3>1. \A t \in Slots : At(t, "finish", "rename")' => calls'[t] = calls[t]
      BY <1>2, <1>3 DEF Created, At
    <3>2. \A n \in Uploads : staged[n] # 0 => bytes'[staged[n]] = bytes[staged[n]]
      BY <1>1, <1>3, <2>2, StagedExists DEF Created
    <3> QED
      BY <1>1, <2>1, <3>1, <3>2, CheckedFrame
  <2>4. UploadsAreKept'
    <3>1. SUFFICES ASSUME NEW x \in Inodes, claim[x] # 0
                   PROVE  /\ InTree(x) => InTree(x)'
                          /\ bytes'[x] = bytes[x] \/ x \in reopened'
      BY <1>1, <2>1 DEF UploadsAreKept
    <3>2. x \in DOMAIN bytes
      BY <1>1, <3>1, ClaimedExists
    <3>3. InTree(x) => InTree(x)'
      <4>1. SUFFICES ASSUME NEW q \in Paths, tree[q] = x PROVE InTree(x)'
        BY <1>1 DEF InTree, Range, TypeOK
      <4>2. x # 0
        BY FilesAssumption DEF Inodes
      <4>3. tree'[q] = x /\ DOMAIN tree' = Paths
        BY <1>0, <1>3, <4>1, <4>2 DEF Created
      <4> QED
        BY <4>3 DEF InTree, Range
    <3> QED
      BY <2>1, <2>2, <3>2, <3>3
  <2> QED
    BY <2>3, <2>4 DEF Kept
<1>4. CASE NotCreated(s, c)
  <2>1. \A t \in Slots : At(t, "finish", "rename")' => calls'[t] = calls[t]
    BY <1>2, <1>4 DEF At, Idle, NotCreated
  <2> QED
    BY <1>4, <2>1, KeptFrameStep DEF KeptFrame, NotCreated, staging
<1> QED
  BY <1>2, <1>3, <1>4

(* The file that a copy has written is marked as reopened. *)
LEMMA CopyFillKept ==
    ASSUME Based, Kept, NEW s \in Slots, NEW lost \in BOOLEAN, CopyFill(s, lost)
    PROVE  Kept'
<1>0. PICK o : o = calls[s].inode
  OBVIOUS
<1>1. TypeOK /\ Places /\ CallsFit /\ Checked /\ UploadsAreKept
  BY DEF Based, Kept
<1>2. o \in DOMAIN bytes
  BY <1>0, <1>1 DEF CopyFill, At, CallsFit, CopyFits, Writing
<1>3. /\ calls' = [calls EXCEPT ![s] = Idle]
      /\ bytes' = [bytes EXCEPT ![o] = bytes[calls[s].source]] /\ reopened' = reopened \cup {o}
      /\ UNCHANGED <<tree, recycled, staged, claim, replaced>>
  BY <1>0 DEF CopyFill, End, Opened, area, staging
<1>4. \A t \in Slots : At(t, "finish", "rename")' => calls'[t] = calls[t]
  BY <1>1, <1>3 DEF At, TypeOK, Idle
<1>5. \A x \in DOMAIN bytes : x # o => bytes'[x] = bytes[x]
  BY <1>1, <1>2, <1>3 DEF TypeOK
<1>6. Checked'
  <2>1. \A n \in Uploads : staged[n] # 0 => \/ bytes'[staged[n]] = bytes[staged[n]]
                                            \/ staged[n] \in reopened'
    BY <1>1, <1>3, <1>5, StagedExists
  <2> QED
    BY <1>1, <1>3, <1>4, <2>1, CheckedFrame
<1>7. UploadsAreKept'
  <2>1. SUFFICES ASSUME NEW x \in Inodes, claim[x] # 0
                 PROVE  /\ InTree(x)' \/ x \in (recycled \cup replaced)'
                        /\ bytes'[x] = claim[x] \/ x \in reopened'
    BY <1>3 DEF UploadsAreKept
  <2>2. x \in DOMAIN bytes
    BY <1>1, <2>1, ClaimedExists
  <2> QED
    BY <1>1, <1>3, <1>5, <2>1, <2>2 DEF UploadsAreKept, InTree
<1> QED
  BY <1>6, <1>7 DEF Kept

(* The sweep takes no file that finish took. *)
LEMMA SweepKept ==
    ASSUME Based, Kept, NEW n \in Uploads, Sweep(n)
    PROVE  Kept'
<1>1. TypeOK /\ Checked /\ UploadsAreKept
  BY DEF Based, Kept
<1>2. UNCHANGED <<tree, recycled, bytes, claim, replaced, reopened, calls>>
  BY DEF Sweep, area, kept
<1>3. \A m \in Uploads : staged'[m] \in {0, staged[m]}
  BY <1>1 DEF Sweep, TypeOK
<1>4. Checked'
  BY <1>1, <1>2, <1>3, CheckedFrame
<1>5. UploadsAreKept'
  BY <1>1, <1>2 DEF UploadsAreKept, InTree
<1> QED
  BY <1>4, <1>5 DEF Kept

(* The requests between the rename and the row of a move stay as they are. *)
MovesStay == \A t \in Slots : At(t, "move", "repoint") => calls'[t] = calls[t]

AddressedFrame == UNCHANGED <<tree, ids, holds, misled>> /\ MovesStay

(* A step that leaves files, ids and moves where they are. *)
LEMMA AddressedFrameStep ==
    ASSUME Addressed, AddressedFrame
    PROVE  Addressed'
BY DEF Addressed, AddressedFrame, MovesStay, At

(* A request that is not between them may move on. *)
LEMMA OthersStay ==
    ASSUME TypeOK, NEW s \in Slots, ~At(s, "move", "repoint"),
           \E r : calls' = [calls EXCEPT ![s] = r]
    PROVE  MovesStay
BY DEF MovesStay, TypeOK

(* An idle slot is not between them. *)
LEMMA IdleStays ==
    ASSUME TypeOK, NEW s \in Slots, calls[s] = Idle
    PROVE  ~At(s, "move", "repoint")
BY DEF At, Idle

(* Requests that begin, writers and prunes leave them so. *)
LEMMA AddressedQuietly ==
    ASSUME Based, NEW s \in Slots,
           \/ \E n \in Uploads : UploadStream(s, n) \/ Finish(s, n)
           \/ \E i \in DOMAIN ids : DeleteFolder(s, i)
           \/ \E i \in DOMAIN ids, q \in Paths : Move(s, i, q) \/ Copy(s, i, q)
           \/ StageOpen(s) \/ StageFill(s) \/ FinalizeVerify(s)
           \/ Prune(s) \/ WriteFails(s)
    PROVE  AddressedFrame
<1>1. TypeOK
  BY DEF Based
<1>2. CASE \E n \in Uploads : UploadStream(s, n)
  <2>1. MovesStay
    BY <1>1, <1>2, OthersStay, IdleStays DEF UploadStream, Start
  <2> QED
    BY <1>2, <2>1 DEF AddressedFrame, UploadStream, area
<1>3. CASE \E n \in Uploads : Finish(s, n)
  <2>1. MovesStay
    BY <1>1, <1>3, OthersStay, IdleStays DEF Finish, Start
  <2> QED
    BY <1>3, <2>1 DEF AddressedFrame, Finish, area
<1>4. CASE \E i \in DOMAIN ids : DeleteFolder(s, i)
  <2>1. MovesStay
    BY <1>1, <1>4, OthersStay, IdleStays DEF DeleteFolder, Begin, Start
  <2> QED
    BY <1>4, <2>1 DEF AddressedFrame, DeleteFolder, area
<1>5. CASE \E i \in DOMAIN ids, q \in Paths : Move(s, i, q)
  <2>1. MovesStay
    BY <1>1, <1>5, OthersStay, IdleStays DEF Move, Begin, Start
  <2> QED
    BY <1>5, <2>1 DEF AddressedFrame, Move
<1>6. CASE \E i \in DOMAIN ids, q \in Paths : Copy(s, i, q)
  <2>1. MovesStay
    BY <1>1, <1>6, OthersStay, IdleStays DEF Copy, Begin, Start
  <2> QED
    BY <1>6, <2>1 DEF AddressedFrame, Copy, area
<1>7. CASE StageOpen(s)
  <2>1. \E r : calls' = [calls EXCEPT ![s] = r]
    BY <1>7 DEF StageOpen
  <2>2. MovesStay
    BY <1>1, <1>7, <2>1, OthersStay DEF StageOpen, At
  <2> QED
    BY <1>7, <2>2 DEF AddressedFrame, StageOpen, area
<1>8. CASE StageFill(s)
  <2>1. MovesStay
    BY <1>1, <1>8, OthersStay DEF StageFill, At, End
  <2> QED
    BY <1>8, <2>1 DEF AddressedFrame, StageFill, area
<1>9. CASE FinalizeVerify(s)
  <2>1. \E r : calls' = [calls EXCEPT ![s] = r]
    BY <1>9 DEF FinalizeVerify, GoTo, End
  <2>2. MovesStay
    BY <1>1, <1>9, <2>1, OthersStay DEF FinalizeVerify, At
  <2> QED
    BY <1>9, <2>2 DEF AddressedFrame, FinalizeVerify
<1>10. CASE Prune(s)
  <2>1. MovesStay
    BY <1>1, <1>10, OthersStay DEF Prune, At, End
  <2> QED
    BY <1>10, <2>1 DEF AddressedFrame, Prune
<1>11. CASE WriteFails(s)
  <2>1. MovesStay
    BY <1>1, <1>11, OthersStay DEF WriteFails, At, End
  <2> QED
    BY <1>11, <2>1 DEF AddressedFrame, WriteFails, area
<1> QED
  BY <1>2, <1>3, <1>4, <1>5, <1>6, <1>7, <1>8, <1>9, <1>10, <1>11

(* So do the steps that belong to no request, but a listing and a crash. *)
LEMMA AddressedIdly ==
    ASSUME Based,
           \/ \E n \in Uploads, p \in Paths, recorded \in BOOLEAN : Apply(n, p, recorded)
           \/ \E n \in Uploads : Expire(n) \/ Sweep(n)
           \/ \E d \in Folders : CreateFolder(d)
    PROVE  AddressedFrame
<1>1. CASE \E n \in Uploads, p \in Paths, recorded \in BOOLEAN : Apply(n, p, recorded)
  BY <1>1 DEF AddressedFrame, MovesStay, Apply, area
<1>2. CASE \E n \in Uploads : Expire(n) \/ Sweep(n)
  BY <1>2 DEF AddressedFrame, MovesStay, Expire, Sweep, area
<1>3. CASE \E d \in Folders : CreateFolder(d)
  BY <1>3 DEF AddressedFrame, MovesStay, CreateFolder
<1> QED
  BY <1>1, <1>2, <1>3

(* The file at a path, and an id of the table. *)
LEMMA FileAt ==
    ASSUME TypeOK, NEW p \in Paths, tree[p] # 0
    PROVE  /\ tree[p] \in Inodes
           /\ holds[tree[p]] # 0 => holds[tree[p]] \in DOMAIN ids
<1>1. tree[p] \in Inodes
  BY FilesAssumption DEF TypeOK, Inodes
<1> QED
  BY <1>1 DEF TypeOK

(* An id that is given out is that of the path where the file is. *)
LEMMA AnswerAddressed ==
    ASSUME Based, Addressed, NEW q \in Paths, NEW lost \in BOOLEAN, AnswerEntry(q, lost),
           tree' = tree, MovesStay
    PROVE  Addressed'
<1>1. TypeOK /\ Places
  BY DEF Based
<1>2. /\ \A i \in DOMAIN ids : ids'[i] = ids[i]
      /\ \A o \in Inodes : o # tree[q] => holds'[o] = holds[o]
      /\ \A o \in Inodes : o # tree[q] => (o \in misled' <=> o \in misled)
      /\ tree[q] # 0 => \/ holds'[tree[q]] = holds[tree[q]] /\ misled' = misled
                        \/ ids'[holds'[tree[q]]] = q
  BY <1>1, Answer
<1>3. SUFFICES ASSUME NEW p \in Paths, tree[p] # 0, holds'[tree[p]] # 0
               PROVE  \/ ids'[holds'[tree[p]]] = p
                      \/ tree[p] \in misled'
                      \/ \E s \in Slots : /\ At(s, "move", "repoint")
                                          /\ calls[s].inode = tree[p] /\ calls[s].to = p
  BY DEF Addressed, MovesStay, At
<1>4. tree[p] \in Inodes /\ (holds[tree[p]] # 0 => holds[tree[p]] \in DOMAIN ids)
  BY <1>1, <1>3, FileAt
<1>5. tree[p] = tree[q] => p = q
  BY <1>1, <1>3 DEF Places
<1>6. holds[tree[p]] # 0 => \/ ids[holds[tree[p]]] = p
                            \/ tree[p] \in misled
                            \/ \E s \in Slots : /\ At(s, "move", "repoint")
                                                /\ calls[s].inode = tree[p] /\ calls[s].to = p
  BY <1>3 DEF Addressed
<1>7. CASE p = q
  BY <1>2, <1>3, <1>4, <1>6, <1>7
<1>8. CASE p # q
  BY <1>2, <1>3, <1>4, <1>5, <1>6, <1>8
<1> QED
  BY <1>7, <1>8

(* The four handlers that give out an id. *)
LEMMA AnsweringAddressed ==
    ASSUME Based, Addressed,
           \/ \E p \in Paths : List(p)
           \/ \E s \in Slots, lost \in BOOLEAN : \/ FinishEntry(s, lost) \/ MoveAnswer(s, lost)
                                                 \/ CopyFill(s, lost)
    PROVE  Addressed'
<1>1. TypeOK
  BY DEF Based
<1>2. ASSUME NEW p \in Paths, List(p) PROVE Addressed'
  <2>1. AnswerEntry(p, FALSE) /\ tree' = tree /\ MovesStay
    BY <1>2 DEF List, area, MovesStay
  <2> QED
    BY <2>1, AnswerAddressed
<1>3. ASSUME NEW s \in Slots, NEW lost \in BOOLEAN, FinishEntry(s, lost) PROVE Addressed'
  <2>1. calls[s].to \in Paths
    BY <1>1, <1>3, Kinds DEF FinishEntry, At, FinishRequests
  <2>2. MovesStay
    BY <1>1, <1>3, OthersStay DEF FinishEntry, At, End
  <2>3. AnswerEntry(calls[s].to, lost) /\ tree' = tree
    BY <1>3 DEF FinishEntry, area
  <2> QED
    BY <2>1, <2>2, <2>3, AnswerAddressed
<1>4. ASSUME NEW s \in Slots, NEW lost \in BOOLEAN, MoveAnswer(s, lost) PROVE Addressed'
  <2>1. calls[s].to \in Paths
    BY <1>1, <1>4, Kinds DEF MoveAnswer, At, MoveRequests
  <2>2. MovesStay
    BY <1>1, <1>4, OthersStay DEF MoveAnswer, At, End
  <2>3. AnswerEntry(calls[s].to, lost) /\ tree' = tree
    BY <1>4 DEF MoveAnswer
  <2> QED
    BY <2>1, <2>2, <2>3, AnswerAddressed
<1>5. ASSUME NEW s \in Slots, NEW lost \in BOOLEAN, CopyFill(s, lost) PROVE Addressed'
  <2>1. calls[s].to \in Paths
    BY <1>1, <1>5, Kinds DEF CopyFill, At, CopyRequests
  <2>2. MovesStay
    BY <1>1, <1>5, OthersStay DEF CopyFill, At, End
  <2>3. AnswerEntry(calls[s].to, lost) /\ tree' = tree
    BY <1>5 DEF CopyFill, area
  <2> QED
    BY <2>1, <2>2, <2>3, AnswerAddressed
<1> QED
  BY <1>2, <1>3, <1>4, <1>5

(* The file that a finish stores has no id yet. *)
LEMMA FinalizeRenameAddressed ==
    ASSUME Based, Addressed, NEW s \in Slots, FinalizeRename(s)
    PROVE  Addressed'
<1>0. PICK c, o : c = calls[s] /\ o = staged[c.n]
  OBVIOUS
<1>1. TypeOK
  BY DEF Based
<1>2. /\ c.stage = "rename" /\ c.kind = "finish"
      /\ Stored(s, c, o) \/ NotStored(s, c, o)
      /\ \A t \in Slots : t # s => calls'[t] = calls[t]
  BY <1>0, FinalizeRenameDoes
<1>3. MovesStay
  BY <1>2 DEF MovesStay, At, FinalizeRename
<1>4. CASE Stored(s, c, o)
  <2>1. /\ UNCHANGED <<ids, holds, misled>> /\ holds[o] = 0 /\ tree'[c.to] = o
        /\ \A p \in Paths : p # c.to => tree'[p] = tree[p]
    BY <1>4 DEF Stored
  <2> QED
    BY <1>3, <2>1 DEF Addressed, MovesStay, At
<1>5. CASE NotStored(s, c, o)
  BY <1>3, <1>5, AddressedFrameStep DEF AddressedFrame, NotStored
<1> QED
  BY <1>2, <1>4, <1>5

(* A delete takes a file out of the tree, and no id. *)
LEMMA RecycleAddressed ==
    ASSUME Based, Addressed, NEW s \in Slots, Recycle(s)
    PROVE  Addressed'
<1>1. TypeOK
  BY DEF Based
<1>2. calls[s].from \in Paths
  BY <1>1, Kinds DEF Recycle, At, DeleteRequests
<1>3. \A p \in Paths : tree'[p] \in {0, tree[p]}
  BY <1>1, <1>2 DEF Recycle, TypeOK
<1>4. UNCHANGED <<ids, holds, misled>>
  BY DEF Recycle
<1>5. \E r : calls' = [calls EXCEPT ![s] = r]
  BY DEF Recycle, GoTo, End
<1>6. MovesStay
  BY <1>1, <1>5, OthersStay DEF Recycle, At
<1> QED
  BY <1>3, <1>4, <1>6 DEF Addressed, MovesStay, At

(* A moved file is one of a move under way. *)
LEMMA MoveRenameAddressed ==
    ASSUME Based, Addressed, NEW s \in Slots, MoveRename(s)
    PROVE  Addressed'
<1>0. PICK c, o : c = calls[s] /\ o = tree[c.from]
  OBVIOUS
<1>1. /\ c.stage = "rename" /\ c.from \in Paths /\ c.to \in Paths
      /\ Renamed(s, c, o) \/ NotRenamed(s, c, o)
      /\ \A t \in Slots : t # s => calls'[t] = calls[t]
  BY <1>0, MoveRenameDoes
<1>2. MovesStay
  BY <1>1 DEF MovesStay, At, MoveRename
<1>3. CASE Renamed(s, c, o)
  <2>1. UNCHANGED <<ids, holds, misled>>
    BY <1>3 DEF Renamed
  <2>2. SUFFICES ASSUME NEW p \in Paths, tree'[p] # 0, holds[tree'[p]] # 0
                 PROVE  \/ ids[holds[tree'[p]]] = p
                        \/ tree'[p] \in misled
                        \/ \E t \in Slots : /\ At(t, "move", "repoint")'
                                            /\ calls'[t].inode = tree'[p] /\ calls'[t].to = p
    BY <2>1 DEF Addressed
  <2>3. CASE p = c.to
    BY <1>3, <2>3 DEF Renamed, At
  <2>4. CASE p # c.to
    <3>1. p # c.from /\ tree'[p] = tree[p]
      BY <1>3, <2>2, <2>4 DEF Renamed
    <3> QED
      BY <1>2, <2>2, <3>1 DEF Addressed, MovesStay, At
  <2> QED
    BY <2>3, <2>4
<1>4. CASE NotRenamed(s, c, o)
  BY <1>2, <1>4, AddressedFrameStep DEF AddressedFrame, NotRenamed
<1> QED
  BY <1>1, <1>3, <1>4

(* The row follows the file, or the file is marked; a file at a path that the
   row leaves is marked as well. *)
LEMMA RepointAddressed ==
    ASSUME Based, Addressed, NEW s \in Slots, NEW failed \in BOOLEAN, Repoint(s, failed)
    PROVE  Addressed'
<1>0. PICK c : c = calls[s]
  OBVIOUS
<1>1. TypeOK
  BY DEF Based
<1>2. /\ c \in MoveRequests /\ c.id \in DOMAIN ids /\ DOMAIN ids' = DOMAIN ids
      /\ \A i \in DOMAIN ids : i # c.id => ids'[i] = ids[i]
  BY <1>0, RepointTable
<1>3. c.from \in Paths /\ c.to \in Paths /\ ids[c.id] \in Paths
  BY <1>1, <1>2 DEF MoveRequests, TypeOK
<1>4. /\ tree' = tree /\ holds' = holds
      /\ ids' = (IF c.to \in Range(ids) \/ failed THEN ids ELSE [ids EXCEPT ![c.id] = c.to])
      /\ misled' = misled \cup {o \in Inodes : holds[o] # 0 /\ \E p \in Paths :
           /\ <<o, p>> \in {<<c.inode, c.to>>} \cup {<<tree[q], q>> : q \in {c.from, ids[c.id]}}
           /\ ids'[holds[o]] # p}
  BY <1>0 DEF Repoint, area
<1>5. \A t \in Slots : t # s => calls'[t] = calls[t]
  BY <1>1 DEF Repoint, GoTo, TypeOK
<1>6. SUFFICES ASSUME NEW p \in Paths, tree[p] # 0, holds[tree[p]] # 0
               PROVE  \/ ids'[holds[tree[p]]] = p
                      \/ tree[p] \in misled'
                      \/ \E t \in Slots : /\ At(t, "move", "repoint")'
                                          /\ calls'[t].inode = tree[p] /\ calls'[t].to = p
  BY <1>4 DEF Addressed
<1>7. tree[p] \in Inodes /\ holds[tree[p]] \in DOMAIN ids
  BY <1>1, <1>6, FileAt
<1>8. CASE tree[p] \in misled
  BY <1>4, <1>8
<1>9. CASE ids[holds[tree[p]]] = p
  <2>1. CASE holds[tree[p]] # c.id
    BY <1>2, <1>7, <1>9, <2>1
  <2>2. CASE holds[tree[p]] = c.id
    <3>1. <<tree[p], p>> \in {<<tree[q], q>> : q \in {c.from, ids[c.id]}}
      BY <1>9, <2>2
    <3> QED
      BY <1>4, <1>6, <1>7, <3>1
  <2> QED
    BY <2>1, <2>2
<1>10. ASSUME NEW t \in Slots, At(t, "move", "repoint"), calls[t].inode = tree[p],
              calls[t].to = p
       PROVE  \/ ids'[holds[tree[p]]] = p
              \/ tree[p] \in misled'
              \/ \E r \in Slots : /\ At(r, "move", "repoint")'
                                  /\ calls'[r].inode = tree[p] /\ calls'[r].to = p
  <2>1. CASE t = s
    <3>1. <<tree[p], p>> = <<c.inode, c.to>>
      BY <1>0, <1>10, <2>1
    <3> QED
      BY <1>4, <1>6, <1>7, <3>1
  <2>2. CASE t # s
    BY <1>5, <1>10, <2>2 DEF At
  <2> QED
    BY <2>1, <2>2
<1> QED
  BY <1>6, <1>8, <1>9, <1>10 DEF Addressed

(* A new copy has no id yet. *)
LEMMA CopyCreateAddressed ==
    ASSUME Based, Addressed, NEW s \in Slots, CopyCreate(s)
    PROVE  Addressed'
<1>0. PICK c, o : c = calls[s] /\ o = IF tree[c.to] # 0 THEN tree[c.to] ELSE NewInode
  OBVIOUS
<1>1. TypeOK /\ Places
  BY DEF Based
<1>2. /\ c.stage = "create"
      /\ Created(s, c, o) \/ NotCreated(s, c)
      /\ \A t \in Slots : t # s => calls'[t] = calls[t]
  BY <1>0, CopyCreateDoes
<1>3. MovesStay
  BY <1>2 DEF MovesStay, At, CopyCreate
<1>4. CASE Created(s, c, o)
  <2>1. UNCHANGED <<ids, holds, misled>> /\ tree'[c.to] = o
        /\ \A p \in Paths : p # c.to => tree'[p] = tree[p]
    BY <1>4 DEF Created
  <2>2. tree[c.to] # o => holds[o] = 0
    BY <1>1, <1>4 DEF Created, Places, Fresh
  <2> QED
    BY <1>3, <2>1, <2>2 DEF Addressed, MovesStay, At
<1>5. CASE NotCreated(s, c)
  BY <1>3, <1>5, AddressedFrameStep DEF AddressedFrame, NotCreated
<1> QED
  BY <1>2, <1>4, <1>5

(* What is under way when the server stops is marked. *)
LEMMA CrashAddressed ==
    ASSUME Based, Addressed, Crash
    PROVE  Addressed'
<1>1. UNCHANGED <<tree, ids, holds>>
  BY DEF Crash, area
<1>2. misled' = misled \cup {calls[s].inode : s \in {r \in Slots : At(r, "move", "repoint")}}
  BY DEF Crash
<1> QED
  BY <1>1, <1>2 DEF Addressed

TidyFrame ==
  /\ UNCHANGED <<tree, dirs, wanted, strays>>
  /\ \A s \in Slots, d \in Folders : Involves(calls[s], d) => Involves(calls'[s], d)

(* A step that leaves the folders and who is at work in them. *)
LEMMA TidyFrameStep ==
    ASSUME TypeOK, Tidy, TidyFrame
    PROVE  Tidy'
BY DEF TypeOK, Tidy, TidyFrame, Filled, Excused

(* What a step of one request has to show of a folder. *)
Shown(s, d) == Filled(d)' \/ Excused(d)' \/ Involves(calls'[s], d)

(* A step of one request keeps Tidy, if it shows what it has to of each
   folder. *)
LEMMA TidyStep ==
    ASSUME Tidy, NEW s \in Slots, \A t \in Slots : t # s => calls'[t] = calls[t],
           \A d \in dirs' : /\ d \in dirs => (Filled(d) => Shown(s, d))
                            /\ d \in dirs => (Excused(d) => Shown(s, d))
                            /\ Involves(calls[s], d) => Shown(s, d)
                            /\ d \notin dirs => Shown(s, d)
    PROVE  Tidy'
BY DEF Tidy, Shown

(* The other requests remain at work where they are. *)
LEMMA OneInvolves ==
    ASSUME TypeOK, NEW s \in Slots, NEW r, calls' = [calls EXCEPT ![s] = r],
           \A d \in Folders : Involves(calls[s], d) => Involves(r, d)
    PROVE  \A t \in Slots, d \in Folders : Involves(calls[t], d) => Involves(calls'[t], d)
BY DEF TypeOK

(* Starting a request other than a move, and the steps of a POST or a copy. *)
LEMMA TidyQuietly ==
    ASSUME TypeOK, Tidy, NEW s \in Slots,
           \/ \E n \in Uploads : UploadStream(s, n) \/ Finish(s, n)
           \/ \E i \in DOMAIN ids : DeleteFolder(s, i)
           \/ \E i \in DOMAIN ids, q \in Paths : Copy(s, i, q)
           \/ StageOpen(s) \/ StageFill(s) \/ WriteFails(s)
           \/ \E lost \in BOOLEAN : FinishEntry(s, lost) \/ CopyFill(s, lost)
    PROVE  Tidy'
<1>1. UNCHANGED <<tree, dirs, wanted, strays>>
  BY DEF UploadStream, Finish, DeleteFolder, Copy, StageOpen, StageFill, WriteFails, FinishEntry,
         CopyFill, area, left
<1>2. \E r : calls' = [calls EXCEPT ![s] = r]
  BY DEF UploadStream, Finish, DeleteFolder, Copy, StageOpen, StageFill, WriteFails, FinishEntry,
         CopyFill, Begin, Start, End
<1>3. calls[s].stage \in {"idle", "open", "fill", "entry"}
  BY DEF UploadStream, Finish, DeleteFolder, Copy, StageOpen, StageFill, WriteFails, FinishEntry,
         CopyFill, Begin, Start, At, Idle
<1>4. \A d \in Folders : ~Involves(calls[s], d)
  BY <1>3 DEF Involves
<1> QED
  BY <1>1, <1>2, <1>4, OneInvolves, TidyFrameStep DEF TidyFrame

(* The steps that belong to no request, but a new folder and a crash. *)
LEMMA TidyIdly ==
    ASSUME TypeOK, Tidy,
           \/ \E n \in Uploads, p \in Paths, recorded \in BOOLEAN : Apply(n, p, recorded)
           \/ \E n \in Uploads : Expire(n) \/ Sweep(n)
           \/ \E p \in Paths : List(p)
    PROVE  Tidy'
<1>1. UNCHANGED <<tree, dirs, wanted, strays, calls>>
  BY DEF Apply, Expire, Sweep, List, area, left
<1> QED
  BY <1>1, TidyFrameStep DEF TidyFrame

(* A new folder is one that the device asked for. *)
LEMMA CreateFolderTidy ==
    ASSUME Tidy, NEW d \in Folders, CreateFolder(d)
    PROVE  Tidy'
<1>1. /\ UNCHANGED <<tree, calls, strays>> /\ dirs' = dirs \cup {d} /\ wanted' = wanted \cup {d}
  BY DEF CreateFolder
<1> QED
  BY <1>1 DEF Tidy, Filled, Excused

(* Whoever makes a folder for a file has the rename before it. *)
LEMMA FinalizeVerifyTidy ==
    ASSUME TypeOK, Tidy, NEW s \in Slots, FinalizeVerify(s)
    PROVE  Tidy'
<1>0. PICK c : c = calls[s]
  OBVIOUS
<1>1. UNCHANGED <<tree, wanted, strays>> /\ c \in FinishRequests /\ c.stage = "verify"
  BY <1>0, Kinds DEF FinalizeVerify, left, At
<1>2. \/ /\ calls' = [calls EXCEPT ![s] = [c EXCEPT !.stage = "rename"]]
         /\ dirs' = MkdirAll(c.to)
      \/ calls' = [calls EXCEPT ![s] = Idle] /\ dirs' = dirs
  BY <1>0 DEF FinalizeVerify, GoTo, End
<1>3. \A t \in Slots : t # s => calls'[t] = calls[t]
  BY <1>2 DEF TypeOK
<1>4. \A d \in dirs' : d \notin dirs => Involves(calls'[s], d)
  <2>1. CASE dirs' = dirs
    BY <2>1
  <2>2. CASE calls' = [calls EXCEPT ![s] = [c EXCEPT !.stage = "rename"]] /\ dirs' = MkdirAll(c.to)
    <3>1. calls'[s] = [c EXCEPT !.stage = "rename"]
      BY <2>2 DEF TypeOK
    <3>2. calls'[s].stage = "rename" /\ calls'[s].to = c.to
      BY <1>1, <3>1 DEF FinishRequests
    <3> QED
      BY <2>2, <3>2 DEF MkdirAll, Involves
  <2> QED
    BY <1>2, <2>1, <2>2
<1>5. \A d : ~Involves(c, d)
  BY <1>1 DEF Involves
<1> QED
  BY <1>0, <1>1, <1>3, <1>4, <1>5, TidyStep DEF Shown, Filled, Excused

(* So has a move, whose target the folder is for. *)
LEMMA MoveTidy ==
    ASSUME TypeOK, Tidy, NEW s \in Slots, NEW i \in DOMAIN ids, NEW q \in Paths, Move(s, i, q)
    PROVE  Tidy'
<1>1. PICK to \in Targets(q) :
        /\ Begin(s, [kind |-> "move", stage |-> "rename", id |-> i, from |-> ids[i],
                     to |-> to, inode |-> 0])
        /\ dirs' = MkdirAll(to)
  BY DEF Move
<1>2. UNCHANGED <<tree, wanted, strays>>
  BY DEF Move, left
<1>3. /\ calls[s] = Idle /\ \A t \in Slots : t # s => calls'[t] = calls[t]
      /\ calls'[s] = [kind |-> "move", stage |-> "rename", id |-> i, from |-> ids[i],
                      to |-> to, inode |-> 0]
  BY <1>1 DEF Begin, Start, TypeOK
<1>4. \A d \in dirs' : d \notin dirs => Involves(calls'[s], d)
  BY <1>1, <1>3 DEF MkdirAll, Involves
<1>5. \A d : ~Involves(calls[s], d)
  BY <1>3 DEF Involves, Idle
<1> QED
  BY <1>2, <1>3, <1>4, <1>5, TidyStep DEF Shown, Filled, Excused

(* The rename fills the folder, or its failure leaves a stray. *)
LEMMA FinalizeRenameTidy ==
    ASSUME Based, Tidy, NEW s \in Slots, FinalizeRename(s)
    PROVE  Tidy'
<1>0. PICK c, o : c = calls[s] /\ o = staged[c.n]
  OBVIOUS
<1>1. /\ c.stage = "rename" /\ c.to \in Paths
      /\ Stored(s, c, o) \/ NotStored(s, c, o)
      /\ \A t \in Slots : t # s => calls'[t] = calls[t]
  BY <1>0, FinalizeRenameDoes
<1>2. dirs' = dirs /\ dirs \subseteq Folders
  BY DEF FinalizeRename, Based, TypeOK
<1>3. \A d : Involves(c, d) => c.to.dir = d
  BY <1>1 DEF Involves
<1>4. CASE Stored(s, c, o)
  <2>1. /\ tree'[c.to] # 0 /\ \A p \in Paths : p # c.to => tree'[p] = tree[p]
        /\ UNCHANGED <<wanted, strays>>
    BY <1>4 DEF Stored
  <2>2. Filled(c.to.dir)' /\ \A d : Filled(d) => Filled(d)'
    BY <1>1, <2>1 DEF Filled
  <2> QED
    BY <1>0, <1>1, <1>2, <1>3, <2>1, <2>2, TidyStep DEF Shown, Excused
<1>5. CASE NotStored(s, c, o)
  <2>1. /\ UNCHANGED <<tree, wanted>> /\ strays' = strays \cup ({c.to.dir} \cap Folders)
    BY <1>5 DEF NotStored
  <2> QED
    BY <1>0, <1>1, <1>2, <1>3, <2>1, TidyStep DEF Shown, Excused, Filled
<1> QED
  BY <1>1, <1>4, <1>5

(* A folder that a move empties has its prune before it. *)
LEMMA MoveRenameTidy ==
    ASSUME Based, Tidy, NEW s \in Slots, MoveRename(s)
    PROVE  Tidy'
<1>0. PICK c, o : c = calls[s] /\ o = tree[c.from]
  OBVIOUS
<1>1. /\ c.stage = "rename" /\ c.from \in Paths /\ c.to \in Paths
      /\ Renamed(s, c, o) \/ NotRenamed(s, c, o)
      /\ \A t \in Slots : t # s => calls'[t] = calls[t]
  BY <1>0, MoveRenameDoes
<1>2. dirs' = dirs /\ dirs \subseteq Folders
  BY DEF MoveRename, Based, TypeOK
<1>3. \A d : Involves(c, d) => c.to.dir = d
  BY <1>1 DEF Involves
<1>4. CASE Renamed(s, c, o)
  <2>1. /\ tree'[c.to] # 0 /\ \A p \in Paths \ {c.from, c.to} : tree'[p] = tree[p]
        /\ UNCHANGED <<wanted, strays>>
        /\ calls'[s].stage = "repoint" /\ calls'[s].from = c.from
    BY <1>4 DEF Renamed
  <2>2. Filled(c.to.dir)'
    BY <1>1, <2>1 DEF Filled
  <2>3. Involves(calls'[s], c.from.dir)
    BY <2>1 DEF Involves
  <2>4. \A d : Filled(d) => Filled(d)' \/ d = c.from.dir
    BY <1>1, <2>1 DEF Filled
  <2> QED
    BY <1>0, <1>1, <1>2, <1>3, <2>1, <2>2, <2>3, <2>4, TidyStep DEF Shown, Excused
<1>5. CASE NotRenamed(s, c, o)
  <2>1. /\ UNCHANGED <<tree, wanted>> /\ strays' = strays \cup ({c.to.dir} \cap Folders)
    BY <1>5 DEF NotRenamed
  <2> QED
    BY <1>0, <1>1, <1>2, <1>3, <2>1, TidyStep DEF Shown, Excused, Filled
<1> QED
  BY <1>1, <1>4, <1>5

(* A folder that a delete empties has the prune before it. *)
LEMMA RecycleTidy ==
    ASSUME TypeOK, Tidy, NEW s \in Slots, Recycle(s)
    PROVE  Tidy'
<1>0. PICK c : c = calls[s]
  OBVIOUS
<1>1. c \in DeleteRequests /\ c.stage = "recycle" /\ c.from \in Paths
  BY <1>0, Kinds DEF Recycle, At, DeleteRequests
<1>2. UNCHANGED <<dirs, wanted, strays>>
  BY DEF Recycle, left
<1>3. \A d : ~Involves(c, d)
  BY <1>1 DEF Involves
<1>4. CASE tree[c.from] # 0
  <2>1. /\ tree' = [tree EXCEPT ![c.from] = 0]
        /\ calls' = [calls EXCEPT ![s] = [c EXCEPT !.stage = "prune"]]
    BY <1>0, <1>4 DEF Recycle, GoTo
  <2>2. /\ calls'[s] = [c EXCEPT !.stage = "prune"]
        /\ \A t \in Slots : t # s => calls'[t] = calls[t]
    BY <2>1 DEF TypeOK
  <2>3. calls'[s].stage = "prune" /\ calls'[s].from = c.from
    BY <1>1, <2>2 DEF DeleteRequests
  <2>4. Involves(calls'[s], c.from.dir)
    BY <2>3 DEF Involves
  <2>5. \A p \in Paths : p # c.from => tree'[p] = tree[p]
    BY <2>1 DEF TypeOK
  <2>6. \A d : Filled(d) => Filled(d)' \/ d = c.from.dir
    BY <2>5 DEF Filled
  <2> QED
    BY <1>0, <1>2, <1>3, <2>2, <2>4, <2>6, TidyStep DEF Shown, Excused
<1>5. CASE tree[c.from] = 0
  <2>1. tree' = tree /\ calls' = [calls EXCEPT ![s] = Idle]
    BY <1>0, <1>5 DEF Recycle, End
  <2>2. \A t \in Slots : t # s => calls'[t] = calls[t]
    BY <2>1 DEF TypeOK
  <2> QED
    BY <1>0, <1>2, <1>3, <2>1, <2>2, TidyStep DEF Shown, Excused, Filled
<1> QED
  BY <1>4, <1>5

(* A prune removes the folder, or it holds a file. *)
LEMMA PruneTidy ==
    ASSUME TypeOK, Tidy, NEW s \in Slots, NEW p \in Paths, PruneEmptyParents(p),
           tree' = tree, calls' = [calls EXCEPT ![s] = Idle],
           \A d : Involves(calls[s], d) => d = p.dir
    PROVE  Tidy'
<1>1. /\ dirs' = dirs \ Empty(p)
      /\ wanted' = wanted \ Empty(p) /\ strays' = strays \ Empty(p)
  BY DEF PruneEmptyParents
<1>2. \A t \in Slots : t # s => calls'[t] = calls[t]
  BY DEF TypeOK
<1>3. \A d \in dirs' : d = p.dir => Filled(d)'
  <2>1. \A d \in dirs' : d \in Folders /\ d \notin Empty(p)
    BY <1>1 DEF TypeOK
  <2>2. \A d \in dirs' : d = p.dir => InDir(d) # {}
    BY <2>1 DEF Empty
  <2> QED
    BY <2>2 DEF InDir, Filled
<1>4. \A d \in dirs' : Excused(d) => Excused(d)'
  BY <1>1 DEF Excused
<1> QED
  BY <1>1, <1>2, <1>3, <1>4, TidyStep DEF Shown, Filled

(* The prune of a delete, and that of a move. *)
LEMMA PruningTidy ==
    ASSUME TypeOK, Tidy, NEW s \in Slots,
           Prune(s) \/ \E lost \in BOOLEAN : MoveAnswer(s, lost)
    PROVE  Tidy'
<1>1. /\ calls[s].stage \in {"prune", "answer"} /\ calls[s].from \in Paths
  BY Kinds DEF Prune, MoveAnswer, At, DeleteRequests, MoveRequests
<1>2. /\ PruneEmptyParents(calls[s].from) /\ tree' = tree
      /\ calls' = [calls EXCEPT ![s] = Idle]
  BY DEF Prune, MoveAnswer, End
<1>3. \A d : Involves(calls[s], d) => d = calls[s].from.dir
  BY <1>1 DEF Involves
<1> QED
  BY <1>1, <1>2, <1>3, PruneTidy

(* The row of a move leaves the prune before it. *)
LEMMA RepointTidy ==
    ASSUME TypeOK, Tidy, NEW s \in Slots, NEW failed \in BOOLEAN, Repoint(s, failed)
    PROVE  Tidy'
<1>0. PICK c : c = calls[s]
  OBVIOUS
<1>1. /\ UNCHANGED <<tree, dirs, wanted, strays>>
      /\ calls' = [calls EXCEPT ![s] = [c EXCEPT !.stage = "answer"]]
  BY <1>0 DEF Repoint, GoTo, area, left
<1>2. c \in MoveRequests /\ c.stage = "repoint"
  BY <1>0, Kinds DEF Repoint, At
<1>3. \A d \in Folders : Involves(c, d) => Involves([c EXCEPT !.stage = "answer"], d)
  BY <1>2 DEF Involves, MoveRequests
<1> QED
  BY <1>0, <1>1, <1>3, OneInvolves, TidyFrameStep DEF TidyFrame

(* A copy makes the folder and its file in one. *)
LEMMA CopyCreateTidy ==
    ASSUME Based, Tidy, NEW s \in Slots, CopyCreate(s)
    PROVE  Tidy'
<1>0. PICK c, o : c = calls[s] /\ o = IF tree[c.to] # 0 THEN tree[c.to] ELSE NewInode
  OBVIOUS
<1>1. /\ c.stage = "create" /\ c.to \in Paths
      /\ Created(s, c, o) \/ NotCreated(s, c)
      /\ \A t \in Slots : t # s => calls'[t] = calls[t]
  BY <1>0, CopyCreateDoes
<1>2. \A d : ~Involves(c, d)
  BY <1>1 DEF Involves
<1>3. UNCHANGED <<wanted, strays>>
  BY DEF CopyCreate, left
<1>4. CASE Created(s, c, o)
  <2>1. /\ tree'[c.to] # 0 /\ \A p \in Paths : p # c.to => tree'[p] = tree[p]
        /\ dirs' = MkdirAll(c.to)
    BY <1>4 DEF Created, Inodes
  <2>2. Filled(c.to.dir)' /\ \A d : Filled(d) => Filled(d)'
    BY <1>1, <2>1 DEF Filled
  <2>3. \A d \in dirs' : d \notin dirs => d = c.to.dir
    BY <2>1 DEF MkdirAll
  <2> QED
    BY <1>0, <1>1, <1>2, <1>3, <2>2, <2>3, TidyStep DEF Shown, Excused
<1>5. CASE NotCreated(s, c)
  <2>1. UNCHANGED <<tree, dirs>>
    BY <1>5 DEF NotCreated
  <2> QED
    BY <1>0, <1>1, <1>2, <1>3, <2>1, TidyStep DEF Shown, Excused, Filled
<1> QED
  BY <1>1, <1>4, <1>5

(* The folders of the requests that a crash ends are strays. *)
LEMMA CrashTidy ==
    ASSUME TypeOK, Tidy, Crash
    PROVE  Tidy'
<1>1. /\ UNCHANGED <<tree, dirs, wanted>>
      /\ strays' = strays \cup {d \in Folders : \E s \in Slots : Involves(calls[s], d)}
  BY DEF Crash, area
<1> QED
  BY <1>1 DEF TypeOK, Tidy, Filled, Excused

(* A POST or a finish is of one of the uploads. *)
LEMMA OfAnUploadIs ==
    ASSUME TypeOK, NEW s \in Slots, OfAnUpload(calls[s])
    PROVE  calls[s].n \in Uploads
BY Kinds DEF OfAnUpload, PostRequests, FinishRequests

(* A step that leaves the staging area alone. *)
LEMMA SweptFrame ==
    ASSUME Used, Swept, UNCHANGED <<staged, uploads, leaked>>,
           \A s \in Slots : OfAnUpload(calls'[s]) =>
             \/ OfAnUpload(calls[s]) /\ calls'[s].n = calls[s].n
             \/ uploads[calls'[s].n].row # "unused"
    PROVE  (Used /\ Swept)'
BY DEF Used, Swept

(* A request may go on for its upload, or begin for one that was applied for. *)
LEMMA SweptOne ==
    ASSUME TypeOK, Used, Swept, UNCHANGED <<staged, uploads, leaked>>,
           NEW s \in Slots, NEW r, calls' = [calls EXCEPT ![s] = r],
           OfAnUpload(r) => \/ OfAnUpload(calls[s]) /\ r.n = calls[s].n
                            \/ uploads[r.n].row # "unused"
    PROVE  (Used /\ Swept)'
<1>1. \A t \in Slots : calls'[t] = IF t = s THEN r ELSE calls[t]
  BY DEF TypeOK
<1> QED
  BY <1>1, SweptFrame

(* Every handler but three leaves the staging area alone. *)
LEMMA SweptQuietly ==
    ASSUME Based, Used, Swept, NEW s \in Slots,
           \/ \E n \in Uploads : UploadStream(s, n) \/ Finish(s, n)
           \/ \E i \in DOMAIN ids : DeleteFolder(s, i)
           \/ \E i \in DOMAIN ids, q \in Paths : Move(s, i, q) \/ Copy(s, i, q)
           \/ StageFill(s) \/ FinalizeVerify(s) \/ Recycle(s) \/ Prune(s) \/ WriteFails(s)
           \/ MoveRename(s) \/ CopyCreate(s)
           \/ \E lost \in BOOLEAN : Repoint(s, lost) \/ MoveAnswer(s, lost) \/ CopyFill(s, lost)
    PROVE  (Used /\ Swept)'
<1>1. TypeOK
  BY DEF Based
<1>2. UNCHANGED <<staged, uploads, leaked>>
  BY DEF UploadStream, Finish, DeleteFolder, Move, Copy, StageFill, FinalizeVerify, Recycle,
         Prune, WriteFails, MoveRename, CopyCreate, Repoint, MoveAnswer, CopyFill, staging, left
<1>3. CASE \E n \in Uploads : UploadStream(s, n)
  <2>1. PICK n \in Uploads : UploadStream(s, n)
    BY <1>3
  <2>2. /\ uploads[n].row # "unused"
        /\ calls' = [calls EXCEPT ![s] = [kind |-> "post", stage |-> "open", n |-> n,
                                          inode |-> 0]]
    BY <2>1 DEF UploadStream, Start
  <2> QED
    BY <1>1, <1>2, <2>2, SweptOne
<1>4. CASE \E n \in Uploads : Finish(s, n)
  <2>1. PICK n \in Uploads : Finish(s, n)
    BY <1>4
  <2>2. /\ uploads[n].row # "unused"
        /\ calls' = [calls EXCEPT ![s] = [kind |-> "finish", stage |-> "verify", n |-> n,
                                          to |-> uploads[n].path]]
    BY <2>1 DEF Finish, Start
  <2> QED
    BY <1>1, <1>2, <2>2, SweptOne
<1>5. CASE \E i \in DOMAIN ids : DeleteFolder(s, i)
  BY <1>1, <1>2, <1>5, SweptOne DEF DeleteFolder, Begin, Start, OfAnUpload
<1>6. CASE \E i \in DOMAIN ids, q \in Paths : Move(s, i, q)
  BY <1>1, <1>2, <1>6, SweptOne DEF Move, Begin, Start, OfAnUpload
<1>7. CASE \E i \in DOMAIN ids, q \in Paths : Copy(s, i, q)
  BY <1>1, <1>2, <1>7, SweptOne DEF Copy, Begin, Start, OfAnUpload
<1>8. ASSUME calls' = [calls EXCEPT ![s] = Idle] PROVE (Used /\ Swept)'
  BY <1>1, <1>2, <1>8, SweptOne DEF OfAnUpload, Idle
<1>9. CASE FinalizeVerify(s)
  <2>1. PICK c : c = calls[s]
    OBVIOUS
  <2>2. c \in FinishRequests /\ c.stage = "verify"
    BY <1>1, <1>9, <2>1, Kinds DEF FinalizeVerify, At
  <2>3. \/ calls' = [calls EXCEPT ![s] = [c EXCEPT !.stage = "rename"]]
        \/ calls' = [calls EXCEPT ![s] = Idle]
    BY <1>9, <2>1 DEF FinalizeVerify, GoTo, End
  <2>4. OfAnUpload(c) /\ [c EXCEPT !.stage = "rename"].n = c.n
    BY <2>2 DEF OfAnUpload, FinishRequests
  <2> QED
    BY <1>1, <1>2, <1>8, <2>1, <2>3, <2>4, SweptOne
<1>10. CASE Recycle(s)
  <2>1. PICK c : c = calls[s]
    OBVIOUS
  <2>2. c \in DeleteRequests
    BY <1>1, <1>10, <2>1, Kinds DEF Recycle, At
  <2>3. \/ calls' = [calls EXCEPT ![s] = [c EXCEPT !.stage = "prune"]]
        \/ calls' = [calls EXCEPT ![s] = Idle]
    BY <1>10, <2>1 DEF Recycle, GoTo, End
  <2>4. ~OfAnUpload([c EXCEPT !.stage = "prune"])
    BY <2>2 DEF OfAnUpload, DeleteRequests
  <2> QED
    BY <1>1, <1>2, <1>8, <2>1, <2>3, <2>4, SweptOne
<1>11. CASE MoveRename(s)
  <2>1. PICK c, o : c = calls[s] /\ o = tree[c.from]
    OBVIOUS
  <2>2. /\ Renamed(s, c, o) \/ NotRenamed(s, c, o)
        /\ \A t \in Slots : t # s => calls'[t] = calls[t]
    BY <1>11, <2>1, MoveRenameDoes
  <2>3. ~OfAnUpload(calls'[s])
    BY <2>2 DEF Renamed, NotRenamed, OfAnUpload, Idle
  <2> QED
    BY <1>2, <2>2, <2>3, SweptFrame
<1>12. CASE CopyCreate(s)
  <2>1. PICK c, o : c = calls[s] /\ o = IF tree[c.to] # 0 THEN tree[c.to] ELSE NewInode
    OBVIOUS
  <2>2. /\ Created(s, c, o) \/ NotCreated(s, c)
        /\ \A t \in Slots : t # s => calls'[t] = calls[t]
    BY <1>12, <2>1, CopyCreateDoes
  <2>3. ~OfAnUpload(calls'[s])
    BY <2>2 DEF Created, NotCreated, OfAnUpload, Idle
  <2> QED
    BY <1>2, <2>2, <2>3, SweptFrame
<1>13. CASE \E lost \in BOOLEAN : Repoint(s, lost)
  <2>1. PICK c : c = calls[s]
    OBVIOUS
  <2>2. c \in MoveRequests
    BY <1>1, <1>13, <2>1, Kinds DEF Repoint, At
  <2>3. calls' = [calls EXCEPT ![s] = [c EXCEPT !.stage = "answer"]]
    BY <1>13, <2>1 DEF Repoint, GoTo
  <2>4. ~OfAnUpload([c EXCEPT !.stage = "answer"])
    BY <2>2 DEF OfAnUpload, MoveRequests
  <2> QED
    BY <1>1, <1>2, <2>1, <2>3, <2>4, SweptOne
<1>14. CASE \/ StageFill(s) \/ Prune(s) \/ WriteFails(s)
            \/ \E lost \in BOOLEAN : MoveAnswer(s, lost) \/ CopyFill(s, lost)
  BY <1>8, <1>14 DEF StageFill, Prune, WriteFails, MoveAnswer, CopyFill, End
<1> QED
  BY <1>3, <1>4, <1>5, <1>6, <1>7, <1>9, <1>10, <1>11, <1>12, <1>13, <1>14

(* And so do a crash, a listing and a new folder. *)
LEMMA SweptIdly ==
    ASSUME Used, Swept,
           Crash \/ (\E p \in Paths : List(p)) \/ \E d \in Folders : CreateFolder(d)
    PROVE  (Used /\ Swept)'
<1>1. UNCHANGED <<staged, uploads, leaked>> /\ (calls' = calls \/ calls' = [s \in Slots |-> Idle])
  BY DEF Crash, List, CreateFolder, staging, left
<1>2. \A s \in Slots : OfAnUpload(calls'[s]) => OfAnUpload(calls[s]) /\ calls'[s].n = calls[s].n
  BY <1>1 DEF OfAnUpload, Idle
<1> QED
  BY <1>1, <1>2, SweptFrame

(* An apply is of an upload without bytes. *)
LEMMA ApplySwept ==
    ASSUME TypeOK, Used, Swept, NEW n \in Uploads, NEW p \in Paths, NEW recorded \in BOOLEAN,
           Apply(n, p, recorded)
    PROVE  (Used /\ Swept)'
<1>1. /\ UNCHANGED <<staged, leaked, calls>> /\ uploads[n].row = "unused"
      /\ \A m \in Uploads : m # n => uploads'[m] = uploads[m]
      /\ uploads'[n].row # "unused"
  BY DEF Apply, left, TypeOK, Upload
<1>2. \A s \in Slots : OfAnUpload(calls[s]) => calls[s].n \in Uploads
  BY OfAnUploadIs
<1> QED
  BY <1>1, <1>2 DEF Used, Swept

(* A signature that runs out leaves the row applied. *)
LEMMA ExpireSwept ==
    ASSUME TypeOK, Used, Swept, NEW n \in Uploads, Expire(n)
    PROVE  (Used /\ Swept)'
<1>1. /\ UNCHANGED <<staged, leaked, calls>>
      /\ \A m \in Uploads : uploads'[m].row = uploads[m].row
  BY DEF Expire, left, TypeOK, Upload
<1>2. \A s \in Slots : OfAnUpload(calls[s]) => calls[s].n \in Uploads
  BY OfAnUploadIs
<1> QED
  BY <1>1, <1>2 DEF Used, Swept

(* The sweep takes the row away and the file with it. *)
LEMMA SweepSwept ==
    ASSUME TypeOK, Used, Swept, NEW n \in Uploads, Sweep(n)
    PROVE  (Used /\ Swept)'
<1>1. /\ calls' = calls /\ leaked' = leaked \ {n} /\ staged'[n] = 0
      /\ \A m \in Uploads : m # n => uploads'[m] = uploads[m] /\ staged'[m] = staged[m]
      /\ uploads'[n].row # "unused"
  BY DEF Sweep, TypeOK, Upload
<1>2. \A s \in Slots : OfAnUpload(calls[s]) => calls[s].n \in Uploads
  BY OfAnUploadIs
<1> QED
  BY <1>1, <1>2 DEF Used, Swept

(* A file staged for an upload without a row is marked. *)
LEMMA StageOpenSwept ==
    ASSUME Based, Used, Swept, NEW s \in Slots, StageOpen(s)
    PROVE  (Used /\ Swept)'
<1>0. PICK n, o : n = calls[s].n /\ o = IF staged[n] # 0 THEN staged[n] ELSE NewInode
  OBVIOUS
<1>1. TypeOK
  BY DEF Based
<1>2. /\ calls[s] \in PostRequests /\ n \in Uploads
      /\ \A m \in Uploads : m # n => staged'[m] = staged[m]
  BY <1>0, StageOpenDoes DEF Opens
<1>3. /\ uploads' = uploads
      /\ leaked' = (IF uploads[n].row = "applied" THEN leaked ELSE leaked \cup {n})
      /\ calls' = [calls EXCEPT ![s] = [[calls[s] EXCEPT !.stage = "fill"] EXCEPT !.inode = o]]
  BY <1>0 DEF StageOpen
<1>4. /\ calls'[s] = [[calls[s] EXCEPT !.stage = "fill"] EXCEPT !.inode = o]
      /\ \A t \in Slots : t # s => calls'[t] = calls[t]
  BY <1>1, <1>3 DEF TypeOK
<1>5. calls'[s].n = n
  BY <1>0, <1>2, <1>4 DEF PostRequests
<1>6. uploads[n].row # "unused"
  BY <1>0, <1>2 DEF Used, OfAnUpload, PostRequests, StageOpen, At
<1> QED
  BY <1>2, <1>3, <1>4, <1>5, <1>6 DEF Used, Swept

(* The file that goes to the tree is staged no more. *)
LEMMA FinalizeRenameSwept ==
    ASSUME Based, Used, Swept, NEW s \in Slots, FinalizeRename(s)
    PROVE  (Used /\ Swept)'
<1>0. PICK c, o : c = calls[s] /\ o = staged[c.n]
  OBVIOUS
<1>1. /\ c.stage = "rename" /\ c.kind = "finish" /\ c.n \in Uploads /\ c \in FinishRequests
      /\ Stored(s, c, o) \/ NotStored(s, c, o)
      /\ \A t \in Slots : t # s => calls'[t] = calls[t]
  BY <1>0, FinalizeRenameDoes
<1>2. CASE Stored(s, c, o)
  <2>1. /\ staged'[c.n] = 0 /\ \A m \in Uploads : m # c.n => staged'[m] = staged[m]
        /\ leaked' = leaked \ {c.n} /\ uploads' = uploads
    BY <1>2 DEF Stored
  <2>2. calls'[s] = [c EXCEPT !.stage = "entry"]
    BY <1>2 DEF Stored, Based, TypeOK
  <2>3. calls'[s].n = c.n /\ OfAnUpload(c)
    BY <1>1, <2>2 DEF FinishRequests, OfAnUpload
  <2> QED
    BY <1>0, <1>1, <2>1, <2>3 DEF Used, Swept
<1>3. CASE NotStored(s, c, o)
  <2>1. ~OfAnUpload(calls'[s]) /\ UNCHANGED <<staged, uploads, leaked>>
    BY <1>3 DEF NotStored, OfAnUpload, Idle
  <2> QED
    BY <1>1, <2>1, SweptFrame
<1> QED
  BY <1>1, <1>2, <1>3

(* Whose row is finalized while bytes have come again is marked. *)
LEMMA FinishEntrySwept ==
    ASSUME TypeOK, Used, Swept, NEW s \in Slots, NEW lost \in BOOLEAN, FinishEntry(s, lost)
    PROVE  (Used /\ Swept)'
<1>0. PICK n : n = calls[s].n
  OBVIOUS
<1>1. n \in Uploads /\ OfAnUpload(calls[s])
  BY <1>0, Kinds DEF FinishEntry, At, FinishRequests, OfAnUpload
<1>2. /\ staged' = staged /\ calls' = [calls EXCEPT ![s] = Idle]
      /\ uploads' = [uploads EXCEPT ![n].row = IF @ = "applied" THEN "finalized" ELSE @]
      /\ leaked' = (IF staged[n] # 0 THEN leaked \cup {n} ELSE leaked)
  BY <1>0 DEF FinishEntry, End
<1>3. /\ \A m \in Uploads : m # n => uploads'[m] = uploads[m]
      /\ uploads'[n].row # "unused" <=> uploads[n].row # "unused"
  BY <1>1, <1>2 DEF TypeOK, Upload
<1>4. \A t \in Slots : OfAnUpload(calls'[t]) => calls'[t] = calls[t]
  BY <1>2 DEF TypeOK, OfAnUpload, Idle
<1>5. \A t \in Slots : OfAnUpload(calls[t]) => calls[t].n \in Uploads
  BY OfAnUploadIs
<1> QED
  BY <1>0, <1>1, <1>2, <1>3, <1>4, <1>5 DEF Used, Swept

(* The steps of one request, and those that belong to none. *)
Handling(s) ==
  \/ \E n \in Uploads : UploadStream(s, n) \/ Finish(s, n)
  \/ \E i \in DOMAIN ids : DeleteFolder(s, i)
  \/ \E i \in DOMAIN ids, q \in Paths : Move(s, i, q) \/ Copy(s, i, q)
  \/ StageOpen(s) \/ StageFill(s) \/ FinalizeVerify(s) \/ FinalizeRename(s)
  \/ Recycle(s) \/ Prune(s) \/ MoveRename(s) \/ CopyCreate(s) \/ WriteFails(s)
  \/ \E lost \in BOOLEAN : \/ FinishEntry(s, lost) \/ MoveAnswer(s, lost)
                           \/ CopyFill(s, lost) \/ Repoint(s, lost)
Standing ==
  \/ \E n \in Uploads, p \in Paths, recorded \in BOOLEAN : Apply(n, p, recorded)
  \/ \E n \in Uploads : Expire(n) \/ Sweep(n)
  \/ \E p \in Paths : List(p)
  \/ \E d \in Folders : CreateFolder(d)
  \/ Crash

(* There are no other steps. *)
LEMMA NextIs == Next => Standing \/ \E s \in Slots : Handling(s)
<1>1. Device => Standing \/ \E s \in Slots : Handling(s)
  BY DEF Device, Standing, Handling
<1>2. ASSUME NEW s \in Slots, Handler(s) PROVE Handling(s)
  BY <1>2 DEF Handler, Handling
<1>3. Faults => Standing \/ \E s \in Slots : Handling(s)
  BY DEF Faults, Standing, Handling
<1> QED
  BY <1>1, <1>2, <1>3 DEF Next, Standing

(* Every step keeps types, requests and places. *)
LEMMA BasedNext ==
    ASSUME Based, Next
    PROVE  Based'
<1>1. CASE Standing
  BY <1>1, ApplyBased, ExpireBased, SweepBased, ListBased, CreateFolderBased, CrashBased
  DEF Standing
<1>2. ASSUME NEW s \in Slots, Handling(s) PROVE Based'
  BY <1>2, UploadStreamBased, FinishBased, DeleteFolderBased, MoveBased, CopyBased,
     StageOpenBased, StageFillBased, FinalizeVerifyBased, FinalizeRenameBased, RecycleBased,
     PruneBased, MoveRenameBased, CopyCreateBased, WriteFailsBased, FinishEntryBased,
     MoveAnswerBased, CopyFillBased, RepointBased
  DEF Handling
<1> QED
  BY <1>1, <1>2, NextIs

(* Every step keeps what finish took, and what it is about to take. *)
LEMMA KeptNext ==
    ASSUME Based, Kept, Next
    PROVE  Kept'
<1>1. CASE Standing
  BY <1>1, KeptIdly, KeptFrameStep, SweepKept DEF Standing
<1>2. ASSUME NEW s \in Slots, Handling(s) PROVE Kept'
  BY <1>2, KeptQuietly, KeptFrameStep, StageOpenKept, StageFillKept, FinalizeVerifyKept,
     FinalizeRenameKept, RecycleKept, MoveRenameKept, CopyCreateKept, CopyFillKept
  DEF Handling
<1> QED
  BY <1>1, <1>2, NextIs

(* Every step keeps files and ids together. *)
LEMMA AddressedNext ==
    ASSUME Based, Addressed, Next
    PROVE  Addressed'
<1>1. CASE Standing
  BY <1>1, AddressedIdly, AddressedFrameStep, AnsweringAddressed, CrashAddressed DEF Standing
<1>2. ASSUME NEW s \in Slots, Handling(s) PROVE Addressed'
  BY <1>2, AddressedQuietly, AddressedFrameStep, AnsweringAddressed, FinalizeRenameAddressed,
     RecycleAddressed, MoveRenameAddressed, RepointAddressed, CopyCreateAddressed
  DEF Handling
<1> QED
  BY <1>1, <1>2, NextIs

(* Every step keeps the folders accounted for. *)
LEMMA TidyNext ==
    ASSUME Based, Tidy, Next
    PROVE  Tidy'
<1>0. TypeOK
  BY DEF Based
<1>1. CASE Standing
  BY <1>0, <1>1, TidyIdly, CreateFolderTidy, CrashTidy DEF Standing
<1>2. ASSUME NEW s \in Slots, Handling(s) PROVE Tidy'
  BY <1>0, <1>2, TidyQuietly, FinalizeVerifyTidy, MoveTidy, FinalizeRenameTidy, MoveRenameTidy,
     RecycleTidy, PruningTidy, RepointTidy, CopyCreateTidy
  DEF Handling
<1> QED
  BY <1>1, <1>2, NextIs

(* Every step keeps the staged files accounted for. *)
LEMMA SweptNext ==
    ASSUME Based, Used, Swept, Next
    PROVE  (Used /\ Swept)'
<1>0. TypeOK
  BY DEF Based
<1>1. CASE Standing
  BY <1>0, <1>1, SweptIdly, ApplySwept, ExpireSwept, SweepSwept DEF Standing
<1>2. ASSUME NEW s \in Slots, Handling(s) PROVE (Used /\ Swept)'
  BY <1>0, <1>2, SweptQuietly, StageOpenSwept, FinalizeRenameSwept, FinishEntrySwept
  DEF Handling
<1> QED
  BY <1>1, <1>2, NextIs

(* The invariant holds of a server without files. *)
LEMMA InitHolds == Init => FilesInv
<1> SUFFICES ASSUME Init PROVE FilesInv
  OBVIOUS
<1>1. Based
  BY InitBased
<1>2. \A s \in Slots : calls[s] = Idle
  BY DEF Init
<1>3. \A o \in Inodes : claim[o] = 0
  BY DEF Init
<1>4. \A p \in Paths : tree[p] = 0
  BY DEF Init
<1>5. dirs = {} /\ \A n \in Uploads : staged[n] = 0
  BY DEF Init
<1>6. Checked /\ UploadsAreKept /\ Addressed
  BY <1>2, <1>3, <1>4 DEF Checked, UploadsAreKept, Addressed, At, Idle
<1>7. Tidy /\ Used /\ Swept
  BY <1>2, <1>5 DEF Tidy, Used, Swept, OfAnUpload, Idle
<1> QED
  BY <1>1, <1>6, <1>7 DEF FilesInv, Based

(* It speaks of the variables only. *)
LEMMA StutterHolds ==
    ASSUME FilesInv, UNCHANGED vars
    PROVE  FilesInv'
<1>1. UNCHANGED <<tree, dirs, recycled, bytes, staged, uploads, ids, calls, holds, called, faults,
                  claim, replaced, reopened, misled, wanted, strays, leaked>>
  BY DEF vars, area, staging, bounds, kept, left
<1>2. TypeOK' /\ CallsFit' /\ Places'
  BY <1>1 DEF FilesInv, TypeOK, CallsFit, PostFits, CopyFits, MoveFits, Writing, OfUpload, IsMove,
              Places, Fresh
<1>3. Checked' /\ UploadsAreKept' /\ Addressed'
  BY <1>1 DEF FilesInv, Checked, UploadsAreKept, InTree, Addressed, At
<1>4. Tidy' /\ Used' /\ Swept'
  BY <1>1 DEF FilesInv, Tidy, Filled, Excused, Used, OfAnUpload, Swept
<1> QED
  BY <1>2, <1>3, <1>4 DEF FilesInv

(* The inductive invariant holds of every behaviour of the handlers of the
   device's files. *)
THEOREM FilesInvariant == Spec => []FilesInv
<1>1. FilesInv /\ Next => FilesInv'
  BY BasedNext, KeptNext, AddressedNext, TidyNext, SweptNext DEF FilesInv, Based, Kept
<1> QED
  BY <1>1, InitHolds, StutterHolds, PTL DEF Spec

(* The tree, the staging area, the tables and the requests keep their types;
   the ids of two paths differ. *)
THEOREM FilesTypeCorrect == Spec => []TypeOK
<1>1. FilesInv => TypeOK
  BY DEF FilesInv
<1> QED
  BY <1>1, FilesInvariant, PTL

(* A file that finish took stays in the tree or the recycling area until its
   path is taken, with the bytes whose hash was verified, whatever the device
   deletes, moves, copies, repeats or breaks off. *)
THEOREM UploadsAreKeptHolds == Spec => []UploadsAreKept
<1>1. FilesInv => UploadsAreKept
  BY DEF FilesInv
<1> QED
  BY <1>1, FilesInvariant, PTL

(* The id that the device last learned for a file leads to the file and to no
   other. *)
THEOREM IdsAddressHolds == Spec => []IdsAddress
<1>1. FilesInv => IdsAddress
  BY DEF FilesInv, Addressed, IdsAddress
<1> QED
  BY <1>1, FilesInvariant, PTL

(* No folder stays behind empty and no staged file out of the reach of the
   sweep, but those that are named. *)
THEOREM NothingIsLeftHolds == Spec => []NothingIsLeft
<1>1. FilesInv => NothingIsLeft
  <2> SUFFICES ASSUME FilesInv PROVE NothingIsLeft
    OBVIOUS
  <2>1. Tidy /\ Swept
    BY DEF FilesInv
  <2>2. \A d : Filled(d) => InDir(d) # {}
    BY DEF Filled, InDir
  <2> QED
    BY <2>1, <2>2 DEF NothingIsLeft, Tidy, Excused, Swept
<1> QED
  BY <1>1, FilesInvariant, PTL

-----------------------------------------------------------------------------
(* The notes: what each variable holds.                                    *)
NotesTypes ==
    /\ edits \in Nat
    /\ file \in [NotePaths -> {None} \cup Versions]
    /\ notes \in [NotePaths -> {None} \cup Rows]
    /\ jobs \in [NotePaths -> {None} \cup JobRows]
    /\ index \in [NotePaths -> {None, Blank} \cup Nat]
    /\ enqueues \subseteq [path : NotePaths, upserted : BOOLEAN]
    /\ scan \in {None} \cup Scans
    /\ work \in {None} \cup Works

(* Nothing is of an edit that is still to come. *)
EditsFit ==
    /\ \A p \in NotePaths :
          /\ file[p] # None => file[p].edit \in 1 .. edits
          /\ index[p] \in {None, Blank} \cup 1 .. edits
    /\ work # None => /\ work.edit # None => work.edit \in 1 .. edits
                      /\ work.stage \in {"write", "reload", "index"} =>
                            work.edit \in 1 .. edits /\ work.body \in 1 .. edits

(* A job has a row of notes and an id of its own, and ids have a bound. *)
JobsFit ==
    /\ \A p \in NotePaths : jobs[p] # None => notes[p] # None
    /\ \A p, q \in NotePaths :
          jobs[p] # None /\ jobs[q] # None /\ p # q => jobs[p].id # jobs[q].id
    /\ \E n \in Nat : \A p \in NotePaths : jobs[p] # None => jobs[p].id <= n

(* A reconciliation that has not walked owes nothing, and one that is not
   amid an orphan has none in hand. *)
ScanFits ==
    scan # None => /\ scan.stage = "start" => scan.changed = {}
                   /\ scan.stage \notin {"jobs", "row"} => scan.at = None

(* The pages that a worker is going to write are of the edit that it takes
   the file for. *)
WorkFits ==
    work # None /\ work.stage \in {"write", "reload", "index"}
        => work.body = work.edit \/ work.path \in missed

(* What nobody will look at again is recorded, done or about to be done. *)
Settled == \A p \in NotePaths : Overlooked(p) => p \in missed

-----------------------------------------------------------------------------
LEMMA NoneFacts ==
    /\ \A v \in Versions : v # None
    /\ \A r \in Rows : r # None
    /\ \A j \in JobRows : j # None
    /\ \A s \in Scans : s # None
    /\ \A w \in Works : w # None
    /\ None \notin Nat /\ None \notin NotePaths
BY NoteAssumption

(* Bounded numbers have a largest one. *)
LEMMA LargestExists ==
    ASSUME NEW S \in SUBSET Nat, S # {}, NEW n \in Nat, \A s \in S : s <= n
    PROVE  \E m \in S : \A s \in S : m >= s
<1> DEFINE R == {ss \in Nat \X Nat : ss[1] < ss[2]}
<1> DEFINE Upper == {m \in Nat : \A s \in S : s <= m}
<1>1. IsWellFoundedOn(R, Nat)
  BY NatLessThanWellFounded DEF OpToRel
<1>2. \A x, y \in Nat : <<y, x>> \in R <=> y < x
  OBVIOUS
<1>3. n \in Upper /\ Upper \subseteq Nat
  OBVIOUS
<1>4. \A m \in Nat : m \in Upper <=> \A s \in S : s <= m
  OBVIOUS
<1> HIDE DEF R, Upper
<1>5. PICK m \in Upper : \A k \in Upper : ~(<<k, m>> \in R)
  BY <1>1, <1>3, WFMin
<1>6. m \in Nat /\ \A s \in S : s \in Nat /\ s <= m
  BY <1>3, <1>4
<1>7. CASE m \in S
  BY <1>6, <1>7
<1>8. CASE m \notin S
  <2>1. m # 0
    <3>1. PICK s \in S : TRUE
      OBVIOUS
    <3> QED
      BY <1>6, <1>8, <3>1
  <2>2. m - 1 \in Nat /\ \A s \in S : s <= m - 1
    BY <1>6, <1>8, <2>1
  <2>3. m - 1 \in Upper
    BY <1>4, <2>2
  <2>4. ~(m - 1 < m)
    BY <1>2, <1>5, <1>6, <2>2, <2>3
  <2> QED
    BY <1>6, <2>2, <2>4
<1> QED
  BY <1>7, <1>8

(* A new job has a new id. *)
LEMMA NewIdIsNew ==
    ASSUME NotesTypes, JobsFit
    PROVE  NewId \in Nat /\ \A p \in NotePaths : jobs[p] # None => jobs[p].id < NewId
<1> DEFINE S == {0} \cup {jobs[p].id : p \in {q \in NotePaths : jobs[q] # None}}
<1>1. \A p \in NotePaths : jobs[p] # None => jobs[p].id \in Nat
  BY DEF NotesTypes, JobRows
<1>2. PICK n \in Nat : \A p \in NotePaths : jobs[p] # None => jobs[p].id <= n
  BY DEF JobsFit
<1>3. S \subseteq Nat /\ S # {} /\ \A s \in S : s <= n
  BY <1>1, <1>2
<1> HIDE DEF S
<1>4. PICK m \in S : \A s \in S : m >= s
  BY <1>3, LargestExists
<1> DEFINE M == Max(S)
<1>5. M \in S /\ \A s \in S : M >= s
  BY <1>4 DEF Max
<1>6. NewId = 1 + M
  BY DEF NewId, S
<1>7. \A p \in NotePaths : jobs[p] # None => jobs[p].id \in S
  BY DEF S
<1> HIDE DEF M
<1>8. M \in Nat /\ NewId = M + 1
  BY <1>3, <1>5, <1>6
<1>9. ASSUME NEW p \in NotePaths, jobs[p] # None
      PROVE  jobs[p].id < NewId
  BY <1>1, <1>5, <1>7, <1>8, <1>9
<1> QED
  BY <1>8, <1>9

(* What it is to be overlooked, and to be settled after a step. *)
LEMMA OverlookedMeans ==
    ASSUME NEW p \in NotePaths
    PROVE  Overlooked(p) <=>
              /\ file[p] # None /\ p \in current
              /\ \A c \in enqueues : c.path # p
              /\ scan # None => p \notin scan.changed /\ p # scan.at
              /\ \/ jobs[p] # None /\ jobs[p].status = "done" /\ index[p] # file[p].edit
                 \/ /\ jobs[p] # None /\ jobs[p].status = "in_progress"
                    /\ work # None /\ work.path = p /\ work.id = jobs[p].id
                    /\ \/ /\ work.stage \in {"write", "reload", "index", "done"}
                          /\ file[p].edit # work.edit
                       \/ work.stage = "done" /\ index[p] # file[p].edit
BY DEF Overlooked, Due, Changed, Is, ReadBefore, Complete

LEMMA OverlookedMeansLater ==
    ASSUME NEW p \in NotePaths
    PROVE  Overlooked(p)' <=>
              /\ file'[p] # None /\ p \in current'
              /\ \A c \in enqueues' : c.path # p
              /\ scan' # None => p \notin scan'.changed /\ p # scan'.at
              /\ \/ jobs'[p] # None /\ jobs'[p].status = "done" /\ index'[p] # file'[p].edit
                 \/ /\ jobs'[p] # None /\ jobs'[p].status = "in_progress"
                    /\ work' # None /\ work'.path = p /\ work'.id = jobs'[p].id
                    /\ \/ /\ work'.stage \in {"write", "reload", "index", "done"}
                          /\ file'[p].edit # work'.edit
                       \/ work'.stage = "done" /\ index'[p] # file'[p].edit
BY DEF Overlooked, Due, Changed, Is, ReadBefore, Complete

-----------------------------------------------------------------------------
(* Types, edits and jobs. *)

Basics == NotesTypes /\ EditsFit /\ JobsFit

(* Jobs that keep their ids, or go, fit as long as their rows are there. *)
LEMMA KeptJobsFit ==
    ASSUME NotesTypes, JobsFit,
           \A p \in NotePaths :
              jobs'[p] # None => /\ jobs[p] # None /\ jobs'[p].id = jobs[p].id
                                 /\ notes'[p] # None
    PROVE  JobsFit'
<1>1. PICK n \in Nat : \A p \in NotePaths : jobs[p] # None => jobs[p].id <= n
  BY DEF JobsFit
<1>2. \A p \in NotePaths : jobs'[p] # None => jobs'[p].id <= n
  BY <1>1
<1> QED
  BY <1>2 DEF JobsFit

(* So do jobs of which one is new. *)
LEMMA NewJobFits ==
    ASSUME NotesTypes, JobsFit, NEW p \in NotePaths, jobs'[p] # None, jobs'[p].id = NewId,
           notes'[p] # None,
           \A q \in NotePaths \ {p} : jobs'[q] = jobs[q] /\ notes'[q] = notes[q]
    PROVE  JobsFit'
<1>1. NewId \in Nat /\ \A q \in NotePaths : jobs[q] # None => jobs[q].id < NewId
  BY NewIdIsNew
<1>1a. \A q \in NotePaths : jobs[q] # None => jobs[q].id \in Nat
  BY DEF NotesTypes, JobRows
<1>2. \A q \in NotePaths : jobs'[q] # None => jobs'[q].id <= NewId /\ notes'[q] # None
  BY <1>1, <1>1a DEF JobsFit
<1>3. ASSUME NEW q \in NotePaths, NEW r \in NotePaths, q # r,
             jobs'[q] # None, jobs'[r] # None
      PROVE  jobs'[q].id # jobs'[r].id
  BY <1>1, <1>1a, <1>3 DEF JobsFit
<1>4. \E n \in Nat : \A q \in NotePaths : jobs'[q] # None => jobs'[q].id <= n
  BY <1>1, <1>2
<1> QED
  BY <1>2, <1>3, <1>4 DEF JobsFit

(* Store.Enqueue. *)
LEMMA EnqueueJobFits ==
    ASSUME NotesTypes, JobsFit, NEW p \in NotePaths, EnqueueJob(p), notes' = notes
    PROVE  jobs' \in [NotePaths -> {None} \cup JobRows] /\ JobsFit'
<1>1. CASE jobs' = jobs
  BY <1>1, KeptJobsFit DEF NotesTypes, JobsFit
<1>2. CASE /\ notes[p] # None /\ jobs[p] = None
           /\ jobs' = [jobs EXCEPT ![p] = [id |-> NewId, status |-> "pending"]]
  <2> DEFINE new == [id |-> NewId, status |-> "pending"]
  <2>1. new \in JobRows /\ new.id = NewId
    BY NewIdIsNew DEF JobRows, Statuses
  <2> HIDE DEF new
  <2>2. jobs' = [jobs EXCEPT ![p] = new]
    BY <1>2 DEF new
  <2>3. new # None
    BY <2>1, NoneFacts
  <2>4. jobs' \in [NotePaths -> {None} \cup JobRows] /\ jobs'[p] = new
        /\ \A q \in NotePaths \ {p} : jobs'[q] = jobs[q]
    BY <2>1, <2>2 DEF NotesTypes
  <2> QED
    BY <1>2, <2>1, <2>3, <2>4, NewJobFits
<1>3. CASE /\ notes[p] # None /\ jobs[p] # None
           /\ jobs' = [jobs EXCEPT ![p].status = "pending"]
  <2>1. jobs[p] \in JobRows
    BY <1>3 DEF NotesTypes
  <2>2. [jobs[p] EXCEPT !.status = "pending"] \in JobRows
        /\ [jobs[p] EXCEPT !.status = "pending"].id = jobs[p].id
    BY <2>1 DEF JobRows, Statuses
  <2>3. jobs' \in [NotePaths -> {None} \cup JobRows]
        /\ jobs'[p] = [jobs[p] EXCEPT !.status = "pending"]
        /\ \A q \in NotePaths \ {p} : jobs'[q] = jobs[q]
    BY <1>3, <2>2 DEF NotesTypes
  <2>4. \A q \in NotePaths : jobs'[q] # None => jobs[q] # None /\ jobs'[q].id = jobs[q].id
    BY <1>3, <2>2, <2>3
  <2>5. JobsFit'
    BY <2>4, KeptJobsFit DEF JobsFit
  <2> QED
    BY <2>3, <2>5
<1> QED
  BY <1>1, <1>2, <1>3 DEF EnqueueJob

(* Where files, rows, pages, jobs and the worker are as before, or none. *)
LEMMA SameBasics ==
    ASSUME Basics, UNCHANGED <<file, notes, jobs, index, work, edits>>,
           enqueues' \subseteq [path : NotePaths, upserted : BOOLEAN],
           scan' \in {None} \cup Scans
    PROVE  Basics'
<1>1. JobsFit'
  BY KeptJobsFit DEF Basics, JobsFit
<1> QED
  BY <1>1 DEF Basics, NotesTypes, EditsFit

LEMMA CallType ==
    \A p \in NotePaths : /\ Call(p) \in [path : NotePaths, upserted : BOOLEAN]
                         /\ Call(p).path = p
BY DEF Call

(* The buttons of the page, and the watchdog. *)
LEMMA ButtonsBasics ==
    ASSUME Basics, NEW p \in NotePaths,
           Requeue(p) \/ Skip(p) \/ Unskip(p) \/ ReclaimStuck(p)
    PROVE  Basics'
<1> USE DEF Basics
<1>1. UNCHANGED <<file, notes, index, enqueues, scan, work, edits>>
  BY DEF Requeue, Skip, Unskip, ReclaimStuck, Jobs, Event, rows, detection, worker, counts
<1>2. jobs' \in [NotePaths -> {None} \cup JobRows] /\ JobsFit'
  <2>1. CASE Requeue(p)
    BY <1>1, <2>1, EnqueueJobFits DEF Requeue
  <2>2. CASE Skip(p)
    <3>1. CASE jobs[p] = None
      <4> DEFINE new == [id |-> NewId, status |-> "skipped"]
      <4>1. new \in JobRows /\ new.id = NewId /\ new # None
        BY NewIdIsNew, NoneFacts DEF JobRows, Statuses
      <4>2. jobs' = [jobs EXCEPT ![p] = new]
        BY <2>2, <3>1 DEF Skip
      <4> HIDE DEF new
      <4>3. jobs' \in [NotePaths -> {None} \cup JobRows] /\ jobs'[p] = new
            /\ \A q \in NotePaths \ {p} : jobs'[q] = jobs[q]
        BY <4>1, <4>2 DEF NotesTypes
      <4>4. notes[p] # None
        BY <2>2 DEF Skip
      <4> QED
        BY <1>1, <4>1, <4>3, <4>4, NewJobFits
    <3>2. CASE jobs[p] # None
      <4> DEFINE new == [id |-> jobs[p].id, status |-> "skipped"]
      <4>1. new \in JobRows /\ new.id = jobs[p].id
        BY <3>2 DEF NotesTypes, JobRows, Statuses
      <4>2. jobs' = [jobs EXCEPT ![p] = new]
        BY <2>2, <3>2 DEF Skip
      <4> HIDE DEF new
      <4>3. jobs' \in [NotePaths -> {None} \cup JobRows] /\ jobs'[p] = new
            /\ \A q \in NotePaths \ {p} : jobs'[q] = jobs[q]
        BY <4>1, <4>2 DEF NotesTypes
      <4>4. \A q \in NotePaths :
               jobs'[q] # None => jobs[q] # None /\ jobs'[q].id = jobs[q].id /\ notes[q] # None
        BY <3>2, <4>1, <4>3 DEF JobsFit
      <4> QED
        BY <1>1, <4>3, <4>4, KeptJobsFit
    <3> QED
      BY <3>1, <3>2
  <2>3. ASSUME NEW status \in Statuses, SetStatus(p, status), jobs[p] # None
        PROVE  jobs' \in [NotePaths -> {None} \cup JobRows] /\ JobsFit'
    <3>1. [jobs[p] EXCEPT !.status = status] \in JobRows
          /\ [jobs[p] EXCEPT !.status = status].id = jobs[p].id
      BY <2>3 DEF NotesTypes, JobRows
    <3>2. jobs' \in [NotePaths -> {None} \cup JobRows]
          /\ jobs'[p] = [jobs[p] EXCEPT !.status = status]
          /\ \A q \in NotePaths \ {p} : jobs'[q] = jobs[q]
      BY <2>3, <3>1 DEF NotesTypes, SetStatus
    <3>3. \A q \in NotePaths :
             jobs'[q] # None => jobs[q] # None /\ jobs'[q].id = jobs[q].id /\ notes[q] # None
      BY <2>3, <3>1, <3>2 DEF JobsFit
    <3> QED
      BY <1>1, <3>2, <3>3, KeptJobsFit
  <2>4. CASE Unskip(p) \/ ReclaimStuck(p)
    BY <2>3, <2>4 DEF Unskip, ReclaimStuck, Is, Statuses
  <2> QED
    BY <2>1, <2>2, <2>4
<1> QED
  BY <1>1, <1>2 DEF NotesTypes, EditsFit

(* The calls of Pipeline.enqueue. *)
LEMMA CallsBasics ==
    ASSUME Basics, NEW c \in enqueues,
           \/ Upsert(c) \/ DecideDone(c) \/ DecideNew(c) \/ FailCall(c)
           \/ \E q \in NotePaths : Transfer(c, q)
    PROVE  Basics'
<1> USE DEF Basics
<1>1. UNCHANGED <<file, index, scan, work, edits>>
  BY DEF Upsert, DecideDone, DecideNew, Transfer, FailCall, Called, Event, worker, counts,
         tables
<1>2. c \in [path : NotePaths, upserted : BOOLEAN] /\ c.path \in NotePaths
  BY DEF NotesTypes
<1>3. enqueues' \subseteq [path : NotePaths, upserted : BOOLEAN]
  <2>1. \/ enqueues' = enqueues \ {c} \/ enqueues' = enqueues
        \/ enqueues' = (enqueues \ {c}) \cup {[c EXCEPT !.upserted = TRUE]}
    <3>1. CASE Upsert(c)
      BY <3>1 DEF Upsert, Return
    <3>2. CASE DecideDone(c) \/ DecideNew(c) \/ FailCall(c)
               \/ \E q \in NotePaths : Transfer(c, q)
      BY <3>2 DEF DecideDone, DecideNew, FailCall, Transfer, Return
    <3> QED
      BY <3>1, <3>2
  <2>2. [c EXCEPT !.upserted = TRUE] \in [path : NotePaths, upserted : BOOLEAN]
    BY <1>2
  <2> QED
    BY <2>1, <2>2 DEF NotesTypes
<1>4. CASE Upsert(c)
  <2>1. CASE file[c.path] = None
    BY <1>1, <1>3, <1>4, <2>1, SameBasics DEF Upsert, rows, NotesTypes, Return
  <2>2. CASE file[c.path] # None
    <3> DEFINE row == IF notes[c.path] = None THEN [hash |-> None] ELSE notes[c.path]
    <3>1. row \in Rows /\ row # None
      BY <1>2, NoneFacts DEF NotesTypes, Rows
    <3>2. notes' = [notes EXCEPT ![c.path] = row] /\ jobs' = jobs
      BY <1>4, <2>2 DEF Upsert
    <3> HIDE DEF row
    <3>3. notes' \in [NotePaths -> {None} \cup Rows] /\ notes'[c.path] = row
          /\ \A q \in NotePaths \ {c.path} : notes'[q] = notes[q]
      BY <1>2, <3>1, <3>2 DEF NotesTypes
    <3>4. JobsFit'
      BY <3>1, <3>2, <3>3, KeptJobsFit DEF JobsFit
    <3> QED
      BY <1>1, <1>3, <3>2, <3>3, <3>4 DEF NotesTypes, EditsFit
  <2> QED
    BY <2>1, <2>2
<1>5. CASE DecideDone(c) \/ DecideNew(c)
  <2>1. notes' = notes
    BY <1>5 DEF DecideDone, DecideNew, rows
  <2>2. jobs' \in [NotePaths -> {None} \cup JobRows] /\ JobsFit'
    <3>1. CASE jobs' = jobs
      BY <2>1, <3>1, KeptJobsFit DEF NotesTypes, JobsFit
    <3>2. CASE EnqueueJob(c.path)
      BY <1>2, <2>1, <3>2, EnqueueJobFits
    <3> QED
      BY <1>5, <3>1, <3>2 DEF DecideDone, DecideNew
  <2> QED
    BY <1>1, <1>3, <2>1, <2>2 DEF NotesTypes, EditsFit
<1>6. ASSUME NEW old \in NotePaths, Transfer(c, old)
      PROVE  Basics'
  <2> DEFINE p == c.path
  <2>1. /\ notes[p] # None /\ file[p] # None /\ jobs[p] = None /\ jobs[old] # None
        /\ jobs' = [jobs EXCEPT ![p] = jobs[old], ![old] = None]
        /\ notes' = [notes EXCEPT ![p].hash = file[p]]
    BY <1>6 DEF Transfer, Transferable, SameContent, Is
  <2>2. p \in NotePaths /\ old # p
    BY <1>2, <2>1
  <2> HIDE DEF p
  <2>3. notes[p] \in Rows /\ file[p] \in Versions /\ jobs[old] \in JobRows
    BY <2>1, <2>2 DEF NotesTypes
  <2>4. [notes[p] EXCEPT !.hash = file[p]] \in Rows
    BY <2>3 DEF Rows
  <2>5. /\ notes' \in [NotePaths -> {None} \cup Rows]
        /\ notes'[p] = [notes[p] EXCEPT !.hash = file[p]]
        /\ \A q \in NotePaths \ {p} : notes'[q] = notes[q]
    BY <2>1, <2>2, <2>4 DEF NotesTypes
  <2>6. /\ jobs' \in [NotePaths -> {None} \cup JobRows]
        /\ jobs'[p] = jobs[old] /\ jobs'[old] = None
        /\ \A q \in NotePaths \ {p, old} : jobs'[q] = jobs[q]
    BY <2>1, <2>2, <2>3 DEF NotesTypes
  <2>7. \A q \in NotePaths : notes[q] # None => notes'[q] # None
    BY <2>4, <2>5, NoneFacts
  <2>8. JobsFit'
    <3>1. PICK n \in Nat : \A q \in NotePaths : jobs[q] # None => jobs[q].id <= n
      BY DEF JobsFit
    <3>2. \A q \in NotePaths : jobs'[q] # None => jobs'[q].id <= n /\ notes'[q] # None
      BY <2>1, <2>2, <2>6, <2>7, <3>1 DEF JobsFit
    <3>3. ASSUME NEW q \in NotePaths, NEW r \in NotePaths, q # r,
                 jobs'[q] # None, jobs'[r] # None
          PROVE  jobs'[q].id # jobs'[r].id
      BY <2>1, <2>2, <2>6, <3>3 DEF JobsFit
    <3> QED
      BY <3>2, <3>3 DEF JobsFit
  <2> QED
    BY <1>1, <1>3, <2>5, <2>6, <2>8 DEF NotesTypes, EditsFit
<1>7. CASE FailCall(c)
  <2>1. UNCHANGED <<notes, jobs>>
    BY <1>7 DEF FailCall, tables, rows
  <2> QED
    BY <1>1, <1>3, <2>1, KeptJobsFit DEF JobsFit, NotesTypes, EditsFit
<1> QED
  BY <1>4, <1>5, <1>6, <1>7

(* The reconciliation. *)
LEMMA EndScanCalls ==
    ASSUME Basics, scan # None, EndScan
    PROVE  /\ enqueues' \subseteq [path : NotePaths, upserted : BOOLEAN]
           /\ scan' = None
<1>1. scan.changed \subseteq NotePaths
  BY DEF Basics, NotesTypes, Scans
<1>2. \A p \in scan.changed : Call(p) \in [path : NotePaths, upserted : BOOLEAN]
  BY <1>1, CallType
<1> QED
  BY <1>2 DEF EndScan, Basics, NotesTypes

(* What pruning does to a reconciliation under way. *)
LEMMA PrunedScan ==
    ASSUME NotesTypes, scan # None,
           \/ PrunedNext
           \/ scan' = [scan EXCEPT !.stage = "row"]
           \/ \E p \in NotePaths : scan' = [scan EXCEPT !.stage = "jobs", !.at = p]
           \/ \E S \in SUBSET NotePaths :
                 scan' = [scan EXCEPT !.stage = "prune", !.seen = S]
    PROVE  /\ scan' \in Scans /\ scan' # None /\ scan'.changed = scan.changed
           /\ scan'.stage # "start"
           /\ PrunedNext => scan'.at = None /\ scan'.stage = "prune"
           /\ scan' = [scan EXCEPT !.stage = "row"] => scan'.at = scan.at /\ scan'.stage = "row"
           /\ \A p \in NotePaths : scan' = [scan EXCEPT !.stage = "jobs", !.at = p]
                                  => scan'.at = p /\ scan'.stage = "jobs"
           /\ \A S \in SUBSET NotePaths : scan' = [scan EXCEPT !.stage = "prune", !.seen = S]
                                  => scan'.at = scan.at /\ scan'.stage = "prune"
<1>1. scan \in Scans
  BY DEF NotesTypes
<1>2. scan' \in Scans
  BY <1>1 DEF Scans, PrunedNext
<1> QED
  BY <1>1, <1>2, NoneFacts DEF Scans, PrunedNext

LEMMA ScanBasics ==
    ASSUME Basics,
           \/ Walk \/ AbortScan \/ FindOrphans \/ EnqueueChanged
           \/ PruneJob \/ PruneRow \/ \E p \in NotePaths : PruneIndex(p)
    PROVE  Basics'
<1> USE DEF Basics
<1>1. UNCHANGED <<file, work, edits>>
  BY DEF Walk, AbortScan, FindOrphans, EnqueueChanged, PruneIndex, PruneJob, PruneRow, Scanning,
         Event, worker, counts
<1>2. scan # None => scan \in Scans
  BY DEF NotesTypes
<1>3. CASE Walk
  <2>1. /\ notes' = [p \in NotePaths |-> IF p \in Changed /\ notes[p] = None
                                       THEN [hash |-> None] ELSE notes[p]]
        /\ scan' = [seen |-> {p \in NotePaths : file[p] # None}, changed |-> Changed,
                    at |-> None, stage |-> "walked"]
        /\ UNCHANGED <<jobs, index, enqueues>>
    BY <1>3 DEF Walk
  <2>2. [hash |-> None] \in Rows /\ [hash |-> None] # None
    BY NoneFacts DEF Rows
  <2>3. notes' \in [NotePaths -> {None} \cup Rows]
        /\ \A p \in NotePaths : notes[p] # None => notes'[p] # None
    BY <2>1, <2>2 DEF NotesTypes
  <2>4. JobsFit'
    BY <2>1, <2>3, KeptJobsFit DEF JobsFit
  <2>5. scan' \in Scans
    BY <2>1 DEF Scans, Changed
  <2> QED
    BY <1>1, <2>1, <2>3, <2>4, <2>5 DEF NotesTypes, EditsFit
<1>4. CASE AbortScan
  BY <1>1, <1>4, SameBasics DEF AbortScan, tables, rows, NotesTypes
<1>5. CASE FindOrphans
  <2> DEFINE orphans == {p \in NotePaths \ scan.seen : notes[p] # None}
  <2>1. UNCHANGED <<notes, jobs, index>> /\ scan # None
    BY <1>5 DEF FindOrphans, tables, rows
  <2>2. \/ EndScan
        \/ scan' = [scan EXCEPT !.stage = "prune", !.seen = orphans] /\ enqueues' = enqueues
    BY <1>5 DEF FindOrphans
  <2>3. orphans \in SUBSET NotePaths
    OBVIOUS
  <2> HIDE DEF orphans
  <2>4. /\ enqueues' \subseteq [path : NotePaths, upserted : BOOLEAN]
        /\ scan' \in {None} \cup Scans
    BY <2>1, <2>2, <2>3, EndScanCalls, PrunedScan DEF NotesTypes
  <2> QED
    BY <1>1, <2>1, <2>4, SameBasics
<1>6. CASE EnqueueChanged
  BY <1>1, <1>6, EndScanCalls, SameBasics DEF EnqueueChanged, Pruning, tables, rows
<1>7. ASSUME NEW p \in NotePaths, PruneIndex(p)
      PROVE  Basics'
  <2>1. /\ UNCHANGED <<notes, jobs, enqueues>> /\ scan # None
        /\ scan' = [scan EXCEPT !.stage = "jobs", !.at = p]
        /\ index' = index \/ index' = [index EXCEPT ![p] = None]
    BY <1>7 DEF PruneIndex, Pruning, rows
  <2>2. scan' \in Scans
    BY <2>1, PrunedScan
  <2>3. index' \in [NotePaths -> {None, Blank} \cup Nat]
        /\ \A q \in NotePaths : index'[q] = None \/ index'[q] = index[q]
    BY <2>1 DEF NotesTypes
  <2>4. JobsFit'
    BY <2>1, KeptJobsFit DEF JobsFit
  <2>5. EditsFit'
    BY <1>1, <2>1, <2>3 DEF EditsFit
  <2> QED
    BY <1>1, <2>1, <2>2, <2>3, <2>4, <2>5 DEF NotesTypes
<1>8. CASE PruneJob
  <2>1. /\ UNCHANGED <<notes, index, enqueues>> /\ scan # None
        /\ scan' = [scan EXCEPT !.stage = "row"]
        /\ jobs' = jobs \/ jobs' = [jobs EXCEPT ![scan.at] = None]
    BY <1>8 DEF PruneJob, Pruning, rows
  <2>2. scan' \in Scans
    BY <2>1, PrunedScan
  <2>3. jobs' \in [NotePaths -> {None} \cup JobRows]
        /\ \A q \in NotePaths : jobs'[q] = None \/ jobs'[q] = jobs[q]
    BY <2>1 DEF NotesTypes
  <2>4. JobsFit'
    BY <2>1, <2>3, KeptJobsFit DEF JobsFit
  <2> QED
    BY <1>1, <2>1, <2>2, <2>3, <2>4 DEF NotesTypes, EditsFit
<1>9. CASE PruneRow
  <2>1. /\ UNCHANGED <<jobs, index, enqueues>> /\ scan # None /\ PrunedNext
        /\ notes' = notes \/ (jobs[scan.at] = None /\ notes' = [notes EXCEPT ![scan.at] = None])
    BY <1>9 DEF PruneRow, RowGoes, Pruning, rows
  <2>2. scan' \in Scans
    BY <2>1, PrunedScan
  <2>3. notes' \in [NotePaths -> {None} \cup Rows]
        /\ \A q \in NotePaths : jobs[q] # None => notes'[q] = notes[q]
    BY <2>1 DEF NotesTypes
  <2>4. JobsFit'
    BY <2>1, <2>3, KeptJobsFit DEF JobsFit
  <2> QED
    BY <1>1, <2>1, <2>2, <2>3, <2>4 DEF NotesTypes, EditsFit
<1> QED
  BY <1>3, <1>4, <1>5, <1>6, <1>7, <1>8, <1>9

(* The worker. *)
LEMMA WorkBasics ==
    ASSUME Basics,
           \/ \E p \in NotePaths : ClaimNext(p)
           \/ Load \/ WritePage \/ Reload \/ IndexPage \/ RefuseSize \/ FailPage \/ Quit
    PROVE  Basics'
<1> USE DEF Basics
<1>1. UNCHANGED <<notes, scan, edits>>
  BY DEF ClaimNext, Load, WritePage, Reload, IndexPage, Index, RefuseSize, FailPage, Quit, Event,
         Working, detection, tables, rows, counts
<1>2. work # None => work \in Works /\ work.path \in NotePaths
  BY DEF NotesTypes, Works
<1>3. ASSUME NEW p \in NotePaths, ClaimNext(p)
      PROVE  Basics'
  <2>1. /\ jobs[p] # None /\ jobs' = [jobs EXCEPT ![p].status = "in_progress"]
        /\ work' = [id |-> jobs[p].id, path |-> p, stage |-> "load",
                    edit |-> None, body |-> None]
        /\ UNCHANGED <<file, index, enqueues>>
    BY <1>3 DEF ClaimNext, Is, SetStatus, detection
  <2>2. jobs[p] \in JobRows
    BY <2>1 DEF NotesTypes
  <2>3. [jobs[p] EXCEPT !.status = "in_progress"] \in JobRows
        /\ [jobs[p] EXCEPT !.status = "in_progress"].id = jobs[p].id
    BY <2>2 DEF JobRows, Statuses
  <2>4. /\ jobs' \in [NotePaths -> {None} \cup JobRows]
        /\ jobs'[p] = [jobs[p] EXCEPT !.status = "in_progress"]
        /\ \A q \in NotePaths \ {p} : jobs'[q] = jobs[q]
    BY <2>1, <2>3 DEF NotesTypes
  <2>5. JobsFit'
    BY <1>1, <2>1, <2>3, <2>4, KeptJobsFit DEF JobsFit
  <2>6. work' \in Works
    BY <2>1, <2>2 DEF Works, JobRows
  <2>7. EditsFit'
    BY <1>1, <2>1 DEF EditsFit
  <2> QED
    BY <1>1, <2>1, <2>4, <2>5, <2>6, <2>7 DEF NotesTypes
<1>4. ASSUME jobs' = jobs PROVE JobsFit'
  BY <1>1, <1>4, KeptJobsFit DEF JobsFit
<1>5. CASE Load
  <2>1. work \in Works /\ work.path \in NotePaths /\ jobs' = jobs /\ file' = file
        /\ enqueues' = enqueues
    BY <1>2, <1>5 DEF Load, WorkAt, detection
  <2> DEFINE f == file[work.path]
  <2>2. CASE f = None
    <3>1. work' = [work EXCEPT !.stage = "failed"] /\ index' = index
      BY <1>5, <2>2 DEF Load, Goto
    <3>2. work' \in Works /\ work'.edit = work.edit /\ work'.stage = "failed"
          /\ work' # None /\ work # None
      BY <2>1, <3>1, NoneFacts DEF Works
    <3> QED
      BY <1>1, <1>4, <2>1, <3>1, <3>2 DEF NotesTypes, EditsFit
  <2>3. CASE f # None
    <3> DEFINE next == IF Inject THEN "write" ELSE "index"
               page == IF f.text THEN f.edit ELSE Blank
    <3>1. /\ work' = [work EXCEPT !.edit = f.edit, !.body = f.edit, !.stage = next]
          /\ index' = index \/ index' = [index EXCEPT ![work.path] = page]
      BY <1>5, <2>3 DEF Load, Index
    <3>2. f \in Versions /\ f.edit \in Nat /\ f.edit \in 1 .. edits
      BY <2>1, <2>3 DEF NotesTypes, Versions, EditsFit
    <3> HIDE DEF f
    <3>3. page \in {Blank} \cup 1 .. edits /\ page \in {None, Blank} \cup Nat
      BY <3>2
    <3>4. next \in {"write", "index"}
      OBVIOUS
    <3> HIDE DEF next, page
    <3>5. work' \in Works /\ work'.edit = f.edit /\ work'.body = f.edit
          /\ work'.stage = next
      BY <2>1, <3>1, <3>2, <3>4 DEF Works
    <3>6. index' \in [NotePaths -> {None, Blank} \cup Nat]
          /\ \A q \in NotePaths : index'[q] \in {None, Blank} \cup 1 .. edits
      BY <2>1, <3>1, <3>3 DEF NotesTypes, EditsFit
    <3>7. EditsFit'
      BY <1>1, <2>1, <3>2, <3>5, <3>6 DEF EditsFit
    <3> QED
      BY <1>1, <1>4, <2>1, <3>5, <3>6, <3>7 DEF NotesTypes
  <2> QED
    BY <2>2, <2>3
<1>6. CASE WritePage
  <2>1. /\ work \in Works /\ work.path \in NotePaths /\ work # None
        /\ work.stage = "write"
        /\ jobs' = jobs /\ index' = index
        /\ work' = [work EXCEPT !.stage = "reload"]
        /\ file' = [file EXCEPT ![work.path] = [edit |-> work.edit, text |-> TRUE]]
        /\ Notice(work.path)
    BY <1>2, <1>6 DEF WritePage, WriteFile, Goto, tables
  <2>2. work.edit \in 1 .. edits /\ work.body \in 1 .. edits
    BY <2>1 DEF EditsFit
  <2>3. [edit |-> work.edit, text |-> TRUE] \in Versions
    BY <2>2 DEF Versions, NotesTypes
  <2>4. file' \in [NotePaths -> {None} \cup Versions]
        /\ \A q \in NotePaths : file'[q] # None => file'[q].edit \in 1 .. edits
    BY <2>1, <2>2, <2>3 DEF NotesTypes, EditsFit
  <2>5. work' \in Works /\ work'.edit = work.edit /\ work'.body = work.body
    BY <2>1 DEF Works
  <2>6. enqueues' \subseteq [path : NotePaths, upserted : BOOLEAN]
    BY <2>1, CallType DEF NotesTypes, Notice
  <2>7. EditsFit'
    BY <1>1, <2>1, <2>2, <2>4, <2>5 DEF EditsFit
  <2> QED
    BY <1>1, <1>4, <2>1, <2>4, <2>5, <2>6, <2>7 DEF NotesTypes
<1>7. CASE Reload
  <2>1. /\ work \in Works /\ work.path \in NotePaths /\ work # None
        /\ work.stage = "reload"
        /\ jobs' = jobs /\ index' = index /\ file' = file /\ enqueues' = enqueues
    BY <1>2, <1>7 DEF Reload, WorkAt, tables, detection
  <2> DEFINE f == file[work.path]
  <2>2. CASE f = None
    <3>1. work' = [work EXCEPT !.stage = "failed"]
      BY <1>7, <2>2 DEF Reload, Goto
    <3>2. work' \in Works /\ work'.edit = work.edit /\ work'.stage = "failed"
      BY <2>1, <3>1 DEF Works
    <3> QED
      BY <1>1, <1>4, <2>1, <3>2 DEF NotesTypes, EditsFit
  <2>3. CASE f # None
    <3>1. work' = [work EXCEPT !.edit = f.edit, !.stage = "index"]
      BY <1>7, <2>3 DEF Reload
    <3>2. f.edit \in Nat /\ f.edit \in 1 .. edits
      BY <2>1, <2>3 DEF NotesTypes, Versions, EditsFit
    <3> HIDE DEF f
    <3>3. work' \in Works /\ work'.edit = f.edit /\ work'.body = work.body
      BY <2>1, <3>1, <3>2 DEF Works
    <3>4. work.body \in 1 .. edits
      BY <2>1 DEF EditsFit
    <3>5. EditsFit'
      BY <1>1, <2>1, <3>2, <3>3, <3>4 DEF EditsFit
    <3> QED
      BY <1>1, <1>4, <2>1, <3>3, <3>5 DEF NotesTypes
  <2> QED
    BY <2>2, <2>3
<1>8. CASE IndexPage
  <2>1. /\ work \in Works /\ work.path \in NotePaths /\ work # None
        /\ work.stage = "index"
        /\ jobs' = jobs /\ file' = file /\ enqueues' = enqueues
        /\ work' = [work EXCEPT !.stage = "done"]
        /\ index' = index \/ index' = [index EXCEPT ![work.path] = work.body]
    BY <1>2, <1>8 DEF IndexPage, Index, WorkAt, Goto, detection
  <2>2. work.body \in 1 .. edits
    BY <2>1 DEF EditsFit
  <2>3. work' \in Works /\ work'.edit = work.edit /\ work'.stage = "done"
    BY <2>1 DEF Works
  <2>4. index' \in [NotePaths -> {None, Blank} \cup Nat]
        /\ \A q \in NotePaths : index'[q] \in {None, Blank} \cup 1 .. edits
    BY <2>1, <2>2 DEF NotesTypes, EditsFit
  <2>5. EditsFit'
    BY <1>1, <2>1, <2>3, <2>4 DEF EditsFit
  <2> QED
    BY <1>1, <1>4, <2>1, <2>3, <2>4, <2>5 DEF NotesTypes
<1>9. CASE RefuseSize \/ FailPage
  <2>1. /\ work # None /\ UNCHANGED <<file, jobs, index, enqueues>>
        /\ \E stage \in {"skipped", "failed"} : work' = [work EXCEPT !.stage = stage]
    BY <1>9 DEF RefuseSize, FailPage, WorkAt, Goto, Working, detection
  <2>2. work' \in Works /\ work'.edit = work.edit /\ work'.stage \in {"skipped", "failed"}
    BY <1>2, <2>1 DEF Works
  <2> QED
    BY <1>1, <1>4, <2>1, <2>2 DEF NotesTypes, EditsFit
<1>10. CASE Quit
  <2>1. work' = None /\ UNCHANGED <<file, jobs, index, enqueues>>
    BY <1>10 DEF Quit, Working, detection
  <2> QED
    BY <1>1, <1>4, <2>1 DEF NotesTypes, EditsFit
<1> QED
  BY <1>3, <1>5, <1>6, <1>7, <1>8, <1>9, <1>10

LEMMA MarkJobBasics ==
    ASSUME Basics,
           LoseJob \/ \E status \in {"done", "failed", "skipped"} : MarkJob(status)
    PROVE  Basics'
<1> USE DEF Basics
<1>1. /\ UNCHANGED <<file, index, enqueues, scan, edits>> /\ work' = None /\ work # None
      /\ notes' = notes \/ StoreHash(work.path)
  BY DEF LoseJob, MarkJob, WorkAt, detection, counts, Event
<1>2. work.path \in NotePaths
  BY <1>1 DEF NotesTypes, Works
<1>3. /\ jobs' \in [NotePaths -> {None} \cup JobRows]
      /\ \A p \in NotePaths : jobs'[p] # None => jobs[p] # None /\ jobs'[p].id = jobs[p].id
  <2>1. CASE jobs' = jobs
    BY <2>1 DEF NotesTypes
  <2>2. ASSUME NEW status \in {"done", "failed", "skipped"}, MarkJob(status)
        PROVE  <1>3!1 /\ <1>3!2
    <3> DEFINE owners == {p \in NotePaths : jobs[p] # None /\ jobs[p].id = work.id}
    <3>1. jobs' = [p \in NotePaths |-> IF p \in owners THEN [jobs[p] EXCEPT !.status = status]
                                      ELSE jobs[p]]
      BY <2>2 DEF MarkJob
    <3>2. ASSUME NEW p \in owners
          PROVE  /\ [jobs[p] EXCEPT !.status = status] \in JobRows
                 /\ [jobs[p] EXCEPT !.status = status].id = jobs[p].id
                 /\ jobs[p] # None /\ p \in NotePaths
      <4>1. jobs[p] \in JobRows
        BY DEF NotesTypes
      <4> QED
        BY <4>1 DEF JobRows, Statuses
    <3> HIDE DEF owners
    <3> QED
      BY <3>1, <3>2 DEF NotesTypes
  <2> QED
    BY <2>1, <2>2 DEF LoseJob
<1>4. /\ notes' \in [NotePaths -> {None} \cup Rows]
      /\ \A p \in NotePaths : notes[p] # None => notes'[p] # None
  <2>1. CASE notes' = notes
    BY <2>1 DEF NotesTypes
  <2>2. CASE /\ file[work.path] # None /\ notes[work.path] # None
             /\ notes' = [notes EXCEPT ![work.path].hash = file[work.path]]
    <3> DEFINE row == [notes[work.path] EXCEPT !.hash = file[work.path]]
    <3>1. row \in Rows
      BY <1>2, <2>2 DEF NotesTypes, Rows
    <3>2. row # None
      BY <3>1, NoneFacts
    <3>3. notes' = [notes EXCEPT ![work.path] = row]
      BY <2>2
    <3> HIDE DEF row
    <3> QED
      BY <1>2, <2>2, <3>1, <3>2, <3>3 DEF NotesTypes
  <2> QED
    BY <1>1, <2>1, <2>2 DEF StoreHash
<1>5. JobsFit'
  BY <1>3, <1>4, KeptJobsFit DEF JobsFit
<1>6. EditsFit'
  BY <1>1 DEF EditsFit
<1> QED
  BY <1>1, <1>3, <1>4, <1>5, <1>6 DEF NotesTypes

(* The device, and writers outside. *)
LEMMA FilesBasics ==
    ASSUME Basics, NEW p \in NotePaths,
           UploadNote(p) \/ Put(p) \/ Remove(p) \/ DeleteNote(p)
    PROVE  Basics'
<1> USE DEF Basics
<1>1. UNCHANGED <<notes, jobs, scan, work>>
  BY DEF UploadNote, Put, Remove, DeleteNote, tables, rows, detection, worker
<1>2. JobsFit'
  BY <1>1, KeptJobsFit DEF JobsFit
<1>3. CASE UploadNote(p) \/ Put(p)
  <2>1. /\ edits' = edits + 1 /\ file' = [file EXCEPT ![p] = NewFile(p)] /\ index' = index
        /\ enqueues' \subseteq enqueues \cup {Call(p)}
    BY <1>3 DEF UploadNote, Put, Notice, WriteFile, tables
  <2>2. NewFile(p) \in Versions /\ NewFile(p).edit = edits + 1
    BY DEF NewFile, Versions, NotesTypes
  <2>3. enqueues' \subseteq [path : NotePaths, upserted : BOOLEAN]
    BY <2>1, CallType DEF NotesTypes
  <2>4. file' \in [NotePaths -> {None} \cup Versions] /\ file'[p] = NewFile(p)
        /\ \A q \in NotePaths \ {p} : file'[q] = file[q]
    BY <2>1, <2>2 DEF NotesTypes
  <2>5. edits \in Nat /\ edits' \in Nat /\ edits + 1 \in 1 .. edits'
        /\ \A n \in 1 .. edits : n \in 1 .. edits'
    BY <2>1 DEF NotesTypes
  <2>6. EditsFit'
    BY <1>1, <2>1, <2>2, <2>4, <2>5 DEF EditsFit
  <2> QED
    BY <1>1, <1>2, <2>1, <2>3, <2>4, <2>5, <2>6 DEF NotesTypes
<1>4. CASE Remove(p) \/ DeleteNote(p)
  <2>1. /\ file' = [file EXCEPT ![p] = None] /\ edits' = edits /\ enqueues' = enqueues
        /\ index' = index \/ index' = [index EXCEPT ![p] = None]
    BY <1>4 DEF Remove, DeleteNote, RemoveFile, Event, tables, detection
  <2>2. \A q \in NotePaths : /\ file'[q] = None \/ file'[q] = file[q]
                             /\ index'[q] = None \/ index'[q] = index[q]
    BY <2>1 DEF NotesTypes
  <2>3. EditsFit'
    BY <1>1, <2>1, <2>2 DEF EditsFit
  <2> QED
    BY <1>1, <1>2, <2>1, <2>3 DEF NotesTypes
<1> QED
  BY <1>3, <1>4

LEMMA MovesBasics ==
    ASSUME Basics, NEW p \in NotePaths, NEW q \in NotePaths,
           Shuffle(p, q) \/ MoveNote(p, q) \/ CopyNote(p, q)
    PROVE  Basics'
<1> USE DEF Basics
<1>1. /\ p # q /\ file[p] # None /\ UNCHANGED <<scan, work, edits>> /\ Notice(q)
      /\ \/ file' = [file EXCEPT ![q] = file[p], ![p] = None]
         \/ file' = [file EXCEPT ![q] = file[p]]
  <2>1. CASE Shuffle(p, q)
    BY <2>1 DEF Shuffle, Relocate, Duplicate, WriteFile, Event, worker
  <2>2. CASE MoveNote(p, q)
    BY <2>2 DEF MoveNote, Relocate, Event, worker
  <2>3. CASE CopyNote(p, q)
    BY <2>3 DEF CopyNote, Duplicate, WriteFile, Event, worker
  <2> QED
    BY <2>1, <2>2, <2>3
<1>2. file' \in [NotePaths -> {None} \cup Versions]
      /\ \A r \in NotePaths : file'[r] = None \/ \E o \in {p, r} : file'[r] = file[o]
  BY <1>1 DEF NotesTypes
<1>3. enqueues' \subseteq [path : NotePaths, upserted : BOOLEAN]
  BY <1>1, CallType DEF NotesTypes, Notice
<1>4. /\ index' \in [NotePaths -> {None, Blank} \cup Nat]
      /\ \A r \in NotePaths : index'[r] = None \/ \E o \in {p, r} : index'[r] = index[o]
  <2>1. \/ index' = index \/ index' = [index EXCEPT ![q] = index[p], ![p] = None]
        \/ index' = [index EXCEPT ![q] = index[p]]
    BY DEF Shuffle, MoveNote, MovePages, CopyNote
  <2> QED
    BY <2>1 DEF NotesTypes
<1>5. CASE UNCHANGED <<notes, jobs>>
  <2>1. JobsFit'
    BY <1>5, KeptJobsFit DEF JobsFit
  <2>2. EditsFit'
    BY <1>1, <1>2, <1>4, <1>5 DEF EditsFit
  <2> QED
    BY <1>1, <1>2, <1>3, <1>4, <1>5, <2>1, <2>2 DEF NotesTypes
<1>6. CASE /\ notes[p] # None /\ notes[q] = None
           /\ notes' = [notes EXCEPT ![q] = notes[p], ![p] = None]
           /\ jobs' = [jobs EXCEPT ![q] = jobs[p], ![p] = None]
  <2>1. /\ notes' \in [NotePaths -> {None} \cup Rows] /\ notes'[q] = notes[p]
        /\ notes'[p] = None /\ \A r \in NotePaths \ {p, q} : notes'[r] = notes[r]
    BY <1>1, <1>6 DEF NotesTypes
  <2>2. /\ jobs' \in [NotePaths -> {None} \cup JobRows] /\ jobs'[q] = jobs[p]
        /\ jobs'[p] = None /\ \A r \in NotePaths \ {p, q} : jobs'[r] = jobs[r]
    BY <1>1, <1>6 DEF NotesTypes
  <2>3. JobsFit'
    <3>1. PICK n \in Nat : \A r \in NotePaths : jobs[r] # None => jobs[r].id <= n
      BY DEF JobsFit
    <3>2. \A r \in NotePaths : jobs'[r] # None => jobs'[r].id <= n /\ notes'[r] # None
      BY <1>1, <1>6, <2>1, <2>2, <3>1 DEF JobsFit
    <3>3. ASSUME NEW r \in NotePaths, NEW s \in NotePaths, r # s,
                 jobs'[r] # None, jobs'[s] # None
          PROVE  jobs'[r].id # jobs'[s].id
      BY <1>1, <2>2, <3>3 DEF JobsFit
    <3> QED
      BY <3>2, <3>3 DEF JobsFit
  <2>5. EditsFit'
    BY <1>1, <1>2, <1>4 DEF EditsFit
  <2> QED
    BY <1>1, <1>2, <1>3, <1>4, <2>1, <2>2, <2>3, <2>5 DEF NotesTypes
<1> QED
  BY <1>5, <1>6 DEF Shuffle, MoveNote, MoveRows, CopyNote

(* The life of the worker and of the process, and no step. *)
LEMMA LifeBasics ==
    ASSUME Basics, StopWorker \/ StartWorker \/ RequestEnds \/ Restart \/ UNCHANGED notesVars
    PROVE  Basics'
<1> USE DEF Basics
<1>1. UNCHANGED <<file, notes, jobs, index, edits>> /\ (work' = work \/ work' = None)
  BY DEF StopWorker, StartWorker, RequestEnds, Restart, notesVars, Lifecycle, Event, tables,
         rows, detection, worker, counts
<1>2. /\ enqueues' \subseteq [path : NotePaths, upserted : BOOLEAN]
      /\ scan' \in {None} \cup Scans
  <2>1. FirstScan \in Scans
    BY DEF FirstScan, Scans
  <2> QED
    BY <2>1 DEF StopWorker, StartWorker, RequestEnds, Restart, notesVars, Lifecycle,
                detection, NotesTypes
<1>3. JobsFit'
  BY <1>1, KeptJobsFit DEF JobsFit
<1> QED
  BY <1>1, <1>2, <1>3 DEF NotesTypes, EditsFit

LEMMA BasicsKept ==
    ASSUME Basics, [NotesNext]_notesVars
    PROVE  Basics'
<1>1. CASE Detect \/ AbortScan
  BY <1>1, ScanBasics DEF Detect
<1>2. CASE AnswerCalls \/ \E c \in enqueues : FailCall(c)
  BY <1>2, CallsBasics DEF AnswerCalls
<1>3. CASE Work \/ RefuseSize \/ FailPage \/ LoseJob
  BY <1>3, WorkBasics, MarkJobBasics DEF Work
<1>4. ASSUME NEW p \in NotePaths,
             \/ Requeue(p) \/ Skip(p) \/ Unskip(p) \/ ReclaimStuck(p)
             \/ UploadNote(p) \/ Put(p) \/ Remove(p) \/ DeleteNote(p)
      PROVE  Basics'
  BY <1>4, ButtonsBasics, FilesBasics
<1>5. ASSUME NEW p \in NotePaths, NEW q \in NotePaths,
             Shuffle(p, q) \/ MoveNote(p, q) \/ CopyNote(p, q)
      PROVE  Basics'
  BY <1>5, MovesBasics
<1>6. CASE StopWorker \/ StartWorker \/ RequestEnds \/ Restart \/ UNCHANGED notesVars
  BY <1>6, LifeBasics
<1> QED
  BY <1>1, <1>2, <1>3, <1>4, <1>5, <1>6 DEF NotesNext

-----------------------------------------------------------------------------
(* What nobody looks at again. *)

(* A path that a step makes overlooked must be recorded by it. *)
LEMMA StaysSettled ==
    ASSUME Settled, missed \subseteq missed',
           \A p \in NotePaths : Overlooked(p)' => Overlooked(p) \/ p \in missed'
    PROVE  Settled'
BY DEF Settled

(* A step that leaves all that matters to p as it was does not. *)
LEMMA SameOverlooked ==
    ASSUME NEW p \in NotePaths, Overlooked(p)',
           file'[p] = file[p], p \in current' => p \in current,
           jobs'[p] = jobs[p], index'[p] = index[p],
           \A c \in enqueues : c \in enqueues' \/ c.path # p,
           scan # None /\ p \in scan.changed =>
              (scan' # None /\ scan'.changed = scan.changed) \/ Call(p) \in enqueues',
           scan # None /\ scan.at = p => scan' # None /\ scan'.at = scan.at,
           work' = work \/ work' = None
    PROVE  Overlooked(p)
BY CallType, OverlookedMeans, OverlookedMeansLater

(* A request for p settles it: it waits, or it is recorded. *)
LEMMA EnqueueJobSettles ==
    ASSUME Settled, NEW p \in NotePaths, EnqueueJob(p), NotesTypes, JobsFit,
           UNCHANGED <<file, notes, current, index, scan, work>>,
           \A c \in enqueues : c \in enqueues' \/ c.path = p
    PROVE  Settled' /\ missed \subseteq missed'
<1>1. missed \subseteq missed'
  BY DEF EnqueueJob
<1>2. ASSUME NEW r \in NotePaths, r # p, Overlooked(r)'
      PROVE  Overlooked(r)
  <2>1. jobs'[r] = jobs[r]
    BY <1>2 DEF EnqueueJob, NotesTypes
  <2> QED
    BY <1>2, <2>1, SameOverlooked
<1>3. ASSUME Overlooked(p)', p \notin missed'
      PROVE  FALSE
  <2>1. \/ jobs' = jobs /\ notes[p] = None
        \/ jobs' = jobs /\ Is(p, {"pending", "in_progress"})
        \/ jobs'[p].status = "pending"
    <3>1. CASE jobs[p] = None
      BY <3>1 DEF EnqueueJob, NotesTypes
    <3>2. CASE jobs[p] # None
      <4>1. jobs[p] \in JobRows
        BY <3>2 DEF NotesTypes
      <4>2. [jobs EXCEPT ![p].status = "pending"][p].status = "pending"
        BY <4>1 DEF NotesTypes, JobRows
      <4> QED
        BY <3>2, <4>2 DEF EnqueueJob
    <3> QED
      BY <3>1, <3>2
  <2>2. CASE jobs' = jobs /\ Is(p, {"pending", "in_progress"})
    <3>1. ~(Is(p, {"in_progress"}) /\ ReadBefore(p))
      BY <1>3 DEF EnqueueJob
    <3> QED
      BY <1>3, <2>2, <3>1 DEF Overlooked, Is, ReadBefore, Complete
  <2> QED
    BY <1>3, <2>1, <2>2, OverlookedMeansLater DEF JobsFit
<1> QED
  BY <1>1, <1>2, <1>3, StaysSettled

(* The parts that are about what happens later. *)
Rest == ScanFits /\ WorkFits /\ Settled
RestStays == Rest' /\ missed \subseteq missed'

(* A step that does not touch scan and worker, or ends the worker. *)
LEMMA SameRest ==
    ASSUME Rest, Settled', missed \subseteq missed', scan' = scan, work' = work \/ work' = None
    PROVE  RestStays
BY DEF RestStays, Rest, ScanFits, WorkFits

LEMMA ButtonsSettle ==
    ASSUME Basics, Rest, NEW p \in NotePaths,
           Requeue(p) \/ Skip(p) \/ Unskip(p) \/ ReclaimStuck(p)
    PROVE  RestStays
<1> USE DEF Basics
<1>1. UNCHANGED <<file, notes, current, index, enqueues, scan, work>>
  BY DEF Requeue, Skip, Unskip, ReclaimStuck, Jobs, Event, rows, detection, worker, counts
<1>2. CASE Requeue(p)
  BY <1>1, <1>2, EnqueueJobSettles, SameRest DEF Requeue, Rest
<1>3. CASE Skip(p) \/ Unskip(p) \/ ReclaimStuck(p)
  <2>1. missed' = missed
    BY <1>3 DEF Skip, Unskip, ReclaimStuck
  <2>2. jobs'[p].status \in {"skipped", "pending"}
        /\ \A r \in NotePaths \ {p} : jobs'[r] = jobs[r]
    <3>1. CASE Skip(p)
      BY <3>1 DEF Skip, NotesTypes
    <3>2. CASE Unskip(p) \/ ReclaimStuck(p)
      <4>1. jobs[p] # None /\ jobs' = [jobs EXCEPT ![p].status = "pending"]
        BY <3>2 DEF Unskip, ReclaimStuck, Is, SetStatus
      <4>2. jobs[p] \in JobRows
        BY <4>1 DEF NotesTypes
      <4> QED
        BY <4>1, <4>2 DEF NotesTypes, JobRows
    <3> QED
      BY <1>3, <3>1, <3>2
  <2>3. ~Overlooked(p)'
    BY <2>2, OverlookedMeansLater
  <2>4. ASSUME NEW r \in NotePaths, r # p, Overlooked(r)'
        PROVE  Overlooked(r)
    BY <1>1, <2>2, <2>4, SameOverlooked
  <2>5. Settled'
    BY <2>1, <2>3, <2>4, StaysSettled DEF Rest
  <2> QED
    BY <1>1, <2>1, <2>5, SameRest
<1> QED
  BY <1>2, <1>3

LEMMA CallsSettle ==
    ASSUME Basics, Rest, NEW c \in enqueues,
           \/ Upsert(c) \/ DecideDone(c) \/ DecideNew(c) \/ FailCall(c)
           \/ \E q \in NotePaths : Transfer(c, q)
    PROVE  RestStays
<1> USE DEF Basics
<1> DEFINE p == c.path
<1>1. UNCHANGED <<file, index, scan, work>>
  BY DEF Upsert, DecideDone, DecideNew, FailCall, Transfer, Called, worker, tables
<1>2. c \in [path : NotePaths, upserted : BOOLEAN] /\ p \in NotePaths
  BY DEF NotesTypes
<1>3. \A d \in enqueues : d \in enqueues' \/ d.path = p
  <2>1. enqueues \ {c} \subseteq enqueues'
    <3>1. CASE Upsert(c)
      BY <3>1 DEF Upsert, Return
    <3>2. CASE DecideDone(c) \/ DecideNew(c) \/ FailCall(c)
               \/ \E q \in NotePaths : Transfer(c, q)
      BY <3>2 DEF DecideDone, DecideNew, FailCall, Transfer, Return
    <3> QED
      BY <3>1, <3>2
  <2> QED
    BY <2>1
<1>4. CASE Upsert(c)
  <2>1. jobs' = jobs /\ missed' = missed
    BY <1>4 DEF Upsert
  <2>2. \A r \in NotePaths \ {p} : r \in current' => r \in current
    BY <1>4 DEF Upsert, rows
  <2>3. ~Overlooked(p)'
    <3>1. CASE file[p] = None
      BY <1>1, <1>2, <3>1, OverlookedMeansLater
    <3>2. CASE file[p] # None
      <4>1. [c EXCEPT !.upserted = TRUE] \in enqueues'
        BY <1>4, <3>2 DEF Upsert
      <4>2. [c EXCEPT !.upserted = TRUE].path = p
        BY <1>2
      <4> QED
        BY <1>2, <4>1, <4>2, OverlookedMeansLater
    <3> QED
      BY <3>1, <3>2
  <2> HIDE DEF p
  <2>4. ASSUME NEW r \in NotePaths, r # p, Overlooked(r)'
        PROVE  Overlooked(r)
    BY <1>1, <1>3, <2>1, <2>2, <2>4, SameOverlooked
  <2>5. Settled'
    BY <2>1, <2>3, <2>4, StaysSettled DEF Rest
  <2> QED
    BY <1>1, <2>1, <2>5, SameRest
<1>5. CASE DecideDone(c)
  <2>1. UNCHANGED <<notes, current>>
    BY <1>5 DEF DecideDone, rows
  <2>2. CASE EnqueueJob(p)
    <3> HIDE DEF p
    <3> QED
      BY <1>1, <1>2, <1>3, <2>1, <2>2, EnqueueJobSettles, SameRest DEF Rest
  <2>3. CASE /\ jobs' = jobs
             /\ \/ file[p] = None /\ missed' = missed
                \/ Complete(p) /\ missed' = missed
                \/ missed' = missed \cup {p}
    <3>1. missed \subseteq missed'
      BY <2>3
    <3>2. Is(p, {"done"})
      BY <1>5 DEF DecideDone
    <3>3. Overlooked(p)' => p \in missed'
      <4>1. file[p] = None => ~Overlooked(p)'
        BY <1>1, <1>2, OverlookedMeansLater
      <4>2. Complete(p) => ~Overlooked(p)'
        BY <1>1, <1>2, <2>3, <3>2, OverlookedMeansLater DEF Complete, Is
      <4> QED
        BY <2>3, <4>1, <4>2
    <3> HIDE DEF p
    <3>4. ASSUME NEW r \in NotePaths, r # p, Overlooked(r)'
          PROVE  Overlooked(r)
      BY <1>1, <1>3, <2>1, <2>3, <3>4, SameOverlooked
    <3>5. Settled'
      BY <3>1, <3>3, <3>4, StaysSettled DEF Rest
    <3> QED
      BY <1>1, <3>1, <3>5, SameRest
  <2> QED
    BY <1>5, <2>2, <2>3 DEF DecideDone
<1>6. CASE DecideNew(c)
  <2>1. UNCHANGED <<notes, current>> /\ EnqueueJob(p)
    BY <1>6 DEF DecideNew, rows
  <2> HIDE DEF p
  <2> QED
    BY <1>1, <1>2, <1>3, <2>1, EnqueueJobSettles, SameRest DEF Rest
<1>7. ASSUME NEW old \in NotePaths, Transfer(c, old)
      PROVE  RestStays
  <2>1. /\ notes[p] # None /\ file[p] # None /\ jobs[p] = None
        /\ jobs[old] # None /\ jobs[old].status = "done"
        /\ jobs' = [jobs EXCEPT ![p] = jobs[old], ![old] = None]
        /\ current' = current
        /\ missed' = IF Complete(p) THEN missed ELSE missed \cup {p}
    BY <1>7 DEF Transfer, Transferable, SameContent, Is
  <2> HIDE DEF p
  <2>2. old # p /\ missed \subseteq missed'
    BY <2>1
  <2>3. /\ jobs'[p] = jobs[old] /\ jobs'[old] = None
        /\ \A r \in NotePaths \ {p, old} : jobs'[r] = jobs[r]
    BY <1>2, <2>1, <2>2 DEF NotesTypes
  <2>4. ~Overlooked(old)'
    BY <2>3, OverlookedMeansLater
  <2>5. Overlooked(p)' => p \in missed'
    <3>1. Complete(p) => ~Overlooked(p)'
      BY <1>1, <1>2, <2>1, <2>3, OverlookedMeansLater DEF Complete
    <3> QED
      BY <2>1, <3>1
  <2>6. ASSUME NEW r \in NotePaths, r # p, r # old, Overlooked(r)'
        PROVE  Overlooked(r)
    BY <1>1, <1>3, <2>1, <2>3, <2>6, SameOverlooked
  <2>7. Settled'
    BY <2>2, <2>4, <2>5, <2>6, StaysSettled DEF Rest
  <2> QED
    BY <1>1, <2>2, <2>7, SameRest
<1>8. CASE FailCall(c)
  <2>1. /\ UNCHANGED <<current, jobs>>
        /\ missed' = missed \cup {r \in {p} : Unfound(r)'}
    BY <1>8 DEF FailCall, tables, rows
  <2>2. Overlooked(p)' => p \in missed'
    BY <2>1 DEF Unfound
  <2> HIDE DEF p
  <2>3. ASSUME NEW r \in NotePaths, r # p, Overlooked(r)'
        PROVE  Overlooked(r)
    BY <1>1, <1>3, <2>1, <2>3, SameOverlooked
  <2>4. Settled' /\ missed \subseteq missed'
    BY <2>1, <2>2, <2>3, StaysSettled DEF Rest
  <2> QED
    BY <1>1, <2>4, SameRest
<1> QED
  BY <1>4, <1>5, <1>6, <1>7, <1>8

(* What a reconciliation that ends has found is called for. *)
LEMMA EndScanSettles ==
    ASSUME Basics, Rest, NEW p \in NotePaths, Overlooked(p)', EndScan,
           scan # None, scan.stage \notin {"jobs", "row"},
           UNCHANGED <<file, current, jobs, index, work>>
    PROVE  Overlooked(p)
<1>1. scan.at = None
  BY DEF Rest, ScanFits
<1>2. enqueues \subseteq enqueues' /\ (p \in scan.changed => Call(p) \in enqueues')
  BY DEF EndScan
<1> QED
  BY <1>1, <1>2, SameOverlooked, NoneFacts

LEMMA ScanSettles ==
    ASSUME Basics, Rest,
           \/ Walk \/ AbortScan \/ FindOrphans \/ EnqueueChanged
           \/ PruneJob \/ PruneRow \/ \E p \in NotePaths : PruneIndex(p)
    PROVE  RestStays
<1> USE DEF Basics
<1>1. UNCHANGED <<file, work>>
  BY DEF Walk, AbortScan, FindOrphans, EnqueueChanged, PruneIndex, PruneJob, PruneRow, Scanning,
         worker
<1>2. missed \subseteq missed'
  BY DEF Walk, AbortScan, FindOrphans, EnqueueChanged, PruneIndex, PruneJob, PruneRow, history
<1>3. WorkFits'
  BY <1>1, <1>2 DEF WorkFits, Rest
<1>4. ASSUME ScanFits', \A p \in NotePaths : Overlooked(p)' => Overlooked(p) \/ p \in missed'
      PROVE  RestStays
  BY <1>2, <1>3, <1>4, StaysSettled DEF RestStays, Rest
<1>5. CASE Walk
  <2>1. /\ UNCHANGED <<jobs, index, enqueues>> /\ current' = current \cup Changed
        /\ scan' = [seen |-> {p \in NotePaths : file[p] # None}, changed |-> Changed,
                    at |-> None, stage |-> "walked"]
    BY <1>5 DEF Walk
  <2>2. scan' # None
    BY <2>1, NoneFacts DEF Scans, Changed
  <2>3. scan'.changed = Changed /\ scan'.at = None /\ scan'.stage = "walked"
    BY <2>1
  <2>4. scan # None => scan.changed = {} /\ scan.at = None
    BY <1>5 DEF Walk, Rest, ScanFits
  <2>5. ASSUME NEW p \in NotePaths, Overlooked(p)'
        PROVE  Overlooked(p)
    <3>1. p \notin Changed
      BY <2>2, <2>3, <2>5, OverlookedMeansLater
    <3> QED
      BY <1>1, <2>1, <2>4, <2>5, <3>1, NoneFacts, SameOverlooked
  <2> QED
    BY <1>4, <2>3, <2>5 DEF ScanFits
<1>6. CASE AbortScan
  <2>1. /\ UNCHANGED <<current, jobs, index, enqueues>> /\ scan # None /\ scan' = None
        /\ scan.stage = "walked"
        /\ missed' = missed \cup {r \in scan.changed : Unfound(r)'}
    BY <1>6 DEF AbortScan, tables, rows
  <2>2. scan.at = None
    BY <2>1 DEF Rest, ScanFits
  <2>3. ASSUME NEW p \in NotePaths, Overlooked(p)'
        PROVE  Overlooked(p) \/ p \in missed'
    <3>1. CASE p \in scan.changed
      BY <2>1, <2>3, <3>1 DEF Unfound
    <3>2. CASE p \notin scan.changed
      BY <1>1, <2>1, <2>2, <2>3, <3>2, NoneFacts, SameOverlooked
    <3> QED
      BY <3>1, <3>2
  <2> QED
    BY <1>4, <2>1, <2>3 DEF ScanFits
<1>7. CASE FindOrphans
  <2> DEFINE orphans == {p \in NotePaths \ scan.seen : notes[p] # None}
  <2>1. UNCHANGED <<current, jobs, index>> /\ scan # None /\ scan.stage = "walked"
    BY <1>7 DEF FindOrphans, tables, rows
  <2>2. \/ EndScan
        \/ scan' = [scan EXCEPT !.stage = "prune", !.seen = orphans] /\ enqueues' = enqueues
    BY <1>7 DEF FindOrphans
  <2>3. orphans \in SUBSET NotePaths
    OBVIOUS
  <2> HIDE DEF orphans
  <2>4. CASE EndScan
    <3>1. ScanFits'
      BY <2>4 DEF EndScan, ScanFits
    <3> QED
      BY <1>1, <1>4, <2>1, <2>4, <3>1, EndScanSettles
  <2>5. CASE scan' = [scan EXCEPT !.stage = "prune", !.seen = orphans] /\ enqueues' = enqueues
    <3>1. /\ scan' # None /\ scan'.changed = scan.changed /\ scan'.at = scan.at
          /\ scan'.stage = "prune"
      BY <2>1, <2>3, <2>5, PrunedScan
    <3>2. ScanFits'
      BY <2>1, <3>1 DEF ScanFits, Rest
    <3> QED
      BY <1>1, <1>4, <2>1, <2>5, <3>1, <3>2, SameOverlooked
  <2> QED
    BY <2>2, <2>4, <2>5
<1>8. CASE EnqueueChanged
  <2>1. EndScan /\ UNCHANGED <<current, jobs, index>> /\ scan # None /\ scan.stage = "prune"
    BY <1>8 DEF EnqueueChanged, Pruning, tables, rows
  <2>2. ScanFits'
    BY <2>1 DEF EndScan, ScanFits
  <2> QED
    BY <1>1, <1>4, <2>1, <2>2, EndScanSettles
<1>9. ASSUME NEW q \in NotePaths, PruneIndex(q)
      PROVE  RestStays
  <2>1. /\ UNCHANGED <<current, jobs, enqueues>> /\ scan # None /\ scan.stage = "prune"
        /\ scan' = [scan EXCEPT !.stage = "jobs", !.at = q]
        /\ index' = index \/ index' = [index EXCEPT ![q] = None]
    BY <1>9 DEF PruneIndex, Pruning, rows
  <2>2. /\ scan' # None /\ scan'.changed = scan.changed /\ scan'.at = q /\ scan.at = None
        /\ scan'.stage = "jobs"
    BY <2>1, PrunedScan DEF Rest, ScanFits
  <2>3. ASSUME NEW p \in NotePaths, Overlooked(p)'
        PROVE  Overlooked(p)
    <3>1. p # q
      BY <2>2, <2>3, OverlookedMeansLater
    <3>2. index'[p] = index[p]
      BY <2>1, <3>1 DEF NotesTypes
    <3> QED
      BY <1>1, <2>1, <2>2, <2>3, <3>2, NoneFacts, SameOverlooked
  <2> QED
    BY <1>4, <2>2, <2>3 DEF ScanFits
<1>10. CASE PruneJob
  <2>1. /\ UNCHANGED <<current, index, enqueues>> /\ scan # None
        /\ scan' = [scan EXCEPT !.stage = "row"]
        /\ jobs' = jobs \/ jobs' = [jobs EXCEPT ![scan.at] = None]
    BY <1>10 DEF PruneJob, Pruning, rows
  <2>2. /\ scan' # None /\ scan'.changed = scan.changed /\ scan'.at = scan.at
        /\ scan'.stage = "row"
    BY <2>1, PrunedScan
  <2>3. ASSUME NEW p \in NotePaths, Overlooked(p)'
        PROVE  Overlooked(p)
    <3>1. jobs'[p] = jobs[p]
      BY <2>1, <2>2, <2>3, OverlookedMeansLater DEF NotesTypes
    <3> QED
      BY <1>1, <2>1, <2>2, <2>3, <3>1, SameOverlooked
  <2> QED
    BY <1>4, <2>2, <2>3 DEF ScanFits
<1>11. CASE PruneRow
  <2>1. /\ UNCHANGED <<jobs, index, enqueues>> /\ scan # None /\ PrunedNext
        /\ current' \subseteq current
        /\ missed' = missed \cup {p \in {scan.at} : Unfound(p)'}
    BY <1>11 DEF PruneRow, RowGoes, Pruning, rows
  <2>2. /\ scan' # None /\ scan'.changed = scan.changed /\ scan'.at = None
        /\ scan'.stage = "prune"
    BY <2>1, PrunedScan
  <2>3. ASSUME NEW p \in NotePaths, Overlooked(p)'
        PROVE  Overlooked(p) \/ p \in missed'
    <3>1. CASE p = scan.at
      BY <2>1, <2>3, <3>1 DEF Unfound
    <3>2. CASE p # scan.at
      BY <1>1, <2>1, <2>2, <2>3, <3>2, SameOverlooked
    <3> QED
      BY <3>1, <3>2
  <2> QED
    BY <1>4, <2>2, <2>3 DEF ScanFits
<1> QED
  BY <1>5, <1>6, <1>7, <1>8, <1>9, <1>10, <1>11

LEMMA ClaimSettles ==
    ASSUME Basics, Rest, NEW p \in NotePaths, ClaimNext(p)
    PROVE  RestStays
<1> USE DEF Basics
<1>1. /\ work = None /\ jobs[p] # None /\ jobs' = [jobs EXCEPT ![p].status = "in_progress"]
      /\ work' = [id |-> jobs[p].id, path |-> p, stage |-> "load",
                  edit |-> None, body |-> None]
      /\ UNCHANGED <<file, current, index, enqueues, scan, missed>>
  BY DEF ClaimNext, Is, SetStatus, rows, detection, history
<1>2. /\ jobs'[p].status = "in_progress"
      /\ \A r \in NotePaths \ {p} : jobs'[r] = jobs[r]
  <2>1. jobs[p] \in JobRows
    BY <1>1 DEF NotesTypes
  <2> QED
    BY <1>1, <2>1 DEF NotesTypes, JobRows
<1>3. work'.stage = "load" /\ work'.path = p
  BY <1>1
<1>4. ~Overlooked(p)'
  BY <1>2, <1>3, OverlookedMeansLater
<1>5. ASSUME NEW r \in NotePaths, r # p, Overlooked(r)'
      PROVE  Overlooked(r)
  BY <1>1, <1>2, <1>3, <1>5, OverlookedMeans, OverlookedMeansLater
<1>6. Settled'
  BY <1>1, <1>4, <1>5, StaysSettled DEF Rest
<1> QED
  BY <1>1, <1>3, <1>6 DEF RestStays, Rest, ScanFits, WorkFits

LEMMA WorkSettles ==
    ASSUME Basics, Rest,
           Load \/ WritePage \/ Reload \/ IndexPage \/ RefuseSize \/ FailPage \/ Quit
    PROVE  RestStays
<1> USE DEF Basics
<1>1. /\ UNCHANGED <<jobs, scan>> /\ work # None /\ work \in Works
      /\ enqueues \subseteq enqueues'
  <2>1. UNCHANGED <<jobs, scan>> /\ work # None
    BY DEF Load, WritePage, Reload, IndexPage, RefuseSize, FailPage, Quit, WorkAt, Working,
           detection, tables
  <2>2. CASE WritePage
    BY <2>1, <2>2 DEF WritePage, Notice, NotesTypes
  <2>3. CASE Load \/ Reload \/ IndexPage \/ RefuseSize \/ FailPage \/ Quit
    BY <2>1, <2>3 DEF Load, Reload, IndexPage, RefuseSize, FailPage, Quit, Working,
                      detection, NotesTypes
  <2> QED
    BY <2>2, <2>3
<1>2. PICK w \in NotePaths : w = work.path
  BY <1>1 DEF Works
<1>3. missed \subseteq missed'
  BY DEF Load, WritePage, Reload, IndexPage, RefuseSize, FailPage, Quit, Working
<1>4. ScanFits'
  BY <1>1 DEF ScanFits, Rest
<1>5. \A r \in NotePaths \ {w} :
         file'[r] = file[r] /\ index'[r] = index[r] /\ (r \in current' <=> r \in current)
  <2>1. CASE Load
    BY <1>2, <2>1 DEF Load, Index, rows, NotesTypes
  <2>2. CASE WritePage
    BY <1>2, <2>2 DEF WritePage, WriteFile, Stamp, NotesTypes
  <2>3. CASE Reload \/ RefuseSize \/ FailPage \/ Quit
    BY <2>3 DEF Reload, RefuseSize, FailPage, Quit, Working, tables, rows
  <2>4. CASE IndexPage
    BY <1>2, <2>4 DEF IndexPage, Index, rows, NotesTypes
  <2> QED
    BY <2>1, <2>2, <2>3, <2>4
<1>6. work' = None \/ (work'.path = w /\ work'.id = work.id)
  BY <1>1, <1>2 DEF Load, WritePage, Reload, IndexPage, RefuseSize, FailPage, Quit, Goto, Works
<1>7. ASSUME NEW r \in NotePaths, r # w, Overlooked(r)'
      PROVE  Overlooked(r)
  <2>1. file'[r] = file[r] /\ index'[r] = index[r] /\ (r \in current' <=> r \in current)
    BY <1>5, <1>7
  <2> QED
    BY <1>1, <1>2, <1>6, <1>7, <2>1, OverlookedMeans, OverlookedMeansLater
<1>8. (Overlooked(w)' => Overlooked(w) \/ w \in missed') /\ WorkFits'
  <2>1. ASSUME missed' = missed \cup Misplaced, Overlooked(w)', Is(w, {"done"})
        PROVE  w \in missed'
    BY <1>2, <2>1 DEF Misplaced
  <2>2. Overlooked(w)' => Is(w, {"done"}) \/ Is(w, {"in_progress"})
    BY <1>1, <1>2, OverlookedMeansLater DEF Is
  <2>3. CASE Load
    <3>1. missed' = missed \cup Misplaced /\ file' = file
      BY <2>3 DEF Load
    <3>2. CASE file[w] = None
      <4>1. ~Overlooked(w)'
        BY <1>2, <3>1, <3>2, OverlookedMeansLater
      <4>2. work'.stage = "failed"
        BY <1>1, <1>2, <2>3, <3>2 DEF Load, Goto, Works
      <4> QED
        BY <4>1, <4>2 DEF WorkFits
    <3>3. CASE file[w] # None
      <4>1. /\ work'.edit = file[w].edit /\ work'.body = file[w].edit
            /\ work'.stage \in {"write", "index"}
        BY <1>1, <1>2, <2>3, <3>3 DEF Load, Works
      <4>2. ASSUME Is(w, {"in_progress"}), Overlooked(w)' PROVE FALSE
        BY <1>1, <1>2, <3>1, <4>1, <4>2, OverlookedMeansLater DEF Is
      <4> QED
        BY <2>1, <2>2, <3>1, <4>1, <4>2 DEF WorkFits
    <3> QED
      BY <3>2, <3>3
  <2>4. CASE WritePage
    <3>1. /\ missed' = IF file[w] = None THEN missed \cup {w} ELSE missed \cup Misplaced
          /\ file' = [file EXCEPT ![w] = [edit |-> work.edit, text |-> TRUE]]
          /\ work' = [work EXCEPT !.stage = "reload"] /\ work.stage = "write"
      BY <1>2, <2>4 DEF WritePage, WriteFile, Goto
    <3>2. file'[w].edit = work.edit
      BY <1>2, <3>1 DEF NotesTypes
    <3>3. work'.edit = work.edit /\ work'.body = work.body /\ work'.stage = "reload"
      BY <1>1, <1>2, <3>1 DEF Works
    <3>4. ASSUME Is(w, {"in_progress"}), Overlooked(w)' PROVE FALSE
      BY <1>1, <1>2, <3>2, <3>3, <3>4, OverlookedMeansLater DEF Is
    <3>5. WorkFits'
      BY <1>1, <1>2, <1>3, <1>6, <3>1, <3>3 DEF WorkFits, Rest
    <3>6. Overlooked(w)' => w \in missed'
      BY <2>1, <2>2, <3>1, <3>4
    <3> QED
      BY <3>5, <3>6
  <2>5. CASE Reload
    <3>1. UNCHANGED <<file, current, index, enqueues>> /\ work.stage = "reload"
      BY <2>5 DEF Reload, tables, rows, detection, WorkAt
    <3>2. CASE file[w] = None
      <4>1. ~Overlooked(w)'
        BY <1>2, <3>1, <3>2, OverlookedMeansLater
      <4>2. work'.stage = "failed"
        BY <1>1, <1>2, <2>5, <3>2 DEF Reload, Goto, Works
      <4> QED
        BY <4>1, <4>2 DEF WorkFits
    <3>3. CASE file[w] # None
      <4>1. /\ work'.edit = file[w].edit /\ work'.body = work.body /\ work'.stage = "index"
            /\ missed' = IF file[w].edit = work.edit THEN missed ELSE missed \cup {w}
        BY <1>1, <1>2, <2>5, <3>3 DEF Reload, Works
      <4>2. Overlooked(w)' => Overlooked(w)
        BY <1>1, <1>2, <3>1, <4>1, OverlookedMeans, OverlookedMeansLater
      <4>3. WorkFits'
        BY <1>1, <1>2, <1>6, <3>1, <4>1 DEF WorkFits, Rest
      <4> QED
        BY <4>2, <4>3
    <3> QED
      BY <3>2, <3>3
  <2>6. CASE IndexPage
    <3>1. /\ missed' = missed \cup Misplaced \cup {p \in {w} : index'[p] # work.body}
          /\ UNCHANGED <<file, current, enqueues>>
          /\ work.stage = "index"
      BY <1>2, <2>6 DEF IndexPage, WorkAt, rows, detection
    <3>3. work'.edit = work.edit /\ work'.stage = "done"
      BY <1>1, <1>2, <2>6 DEF IndexPage, Goto, Works
    <3>4. ASSUME Is(w, {"in_progress"}), Overlooked(w)', w \notin missed' PROVE FALSE
      <4>0. w \notin missed /\ index'[w] = work.body
        BY <3>1, <3>4
      <4>1. work.body = work.edit
        BY <1>1, <1>2, <3>1, <4>0 DEF WorkFits, Rest
      <4>2. ~Overlooked(w)
        BY <1>2, <4>0 DEF Settled, Rest
      <4>3. file[w].edit # work.edit
        BY <1>1, <1>2, <3>1, <3>3, <4>0, <3>4, <4>1, OverlookedMeansLater DEF Is
      <4>4. work.path = w
        BY <1>2
      <4>5. work.id = jobs[w].id
        BY <1>1, <1>2, <1>6, <3>1, <3>4, OverlookedMeansLater DEF Is
      <4> QED
        BY <1>1, <1>2, <3>1, <3>4, <4>2, <4>3, <4>4, <4>5, OverlookedMeans,
           OverlookedMeansLater DEF Is
    <3>5. WorkFits'
      BY <3>3 DEF WorkFits
    <3>6. Overlooked(w)' => w \in missed'
      BY <1>2, <2>2, <3>1, <3>4 DEF Misplaced
    <3> QED
      BY <3>5, <3>6
  <2>7. CASE RefuseSize \/ FailPage
    <3>1. UNCHANGED <<file, current, index, enqueues>>
          /\ work'.stage \in {"failed", "skipped"}
      BY <1>1, <1>2, <2>7 DEF RefuseSize, FailPage, Goto, Working, rows, detection, Works
    <3>2. Overlooked(w)' => Overlooked(w)
      BY <1>1, <1>2, <3>1, OverlookedMeans, OverlookedMeansLater
    <3>3. WorkFits'
      BY <3>1 DEF WorkFits
    <3> QED
      BY <3>2, <3>3
  <2>8. CASE Quit
    <3>1. UNCHANGED <<file, current, index, enqueues>> /\ work' = None
      BY <2>8 DEF Quit, Working, rows, detection
    <3>2. Overlooked(w)' => Overlooked(w)
      BY <1>1, <1>2, <3>1, OverlookedMeans, OverlookedMeansLater
    <3>3. WorkFits'
      BY <3>1 DEF WorkFits
    <3> QED
      BY <3>2, <3>3
  <2> QED
    BY <2>3, <2>4, <2>5, <2>6, <2>7, <2>8
<1>9. Settled'
  BY <1>3, <1>7, <1>8, StaysSettled DEF Rest
<1> QED
  BY <1>3, <1>4, <1>8, <1>9 DEF RestStays, Rest

LEMMA MarkJobSettles ==
    ASSUME Basics, Rest, NEW status \in {"done", "failed", "skipped"}, MarkJob(status)
    PROVE  RestStays
<1> USE DEF Basics
<1> DEFINE owners == {p \in NotePaths : jobs[p] # None /\ jobs[p].id = work.id}
<1>1. /\ UNCHANGED <<file, current, index, enqueues, scan>> /\ work' = None /\ work # None
      /\ work.stage = status
      /\ jobs' = [p \in NotePaths |-> IF p \in owners THEN [jobs[p] EXCEPT !.status = status]
                                     ELSE jobs[p]]
      /\ missed' = missed \cup {p \in owners : p # work.path \/ ~Is(p, {"in_progress"})}
  BY DEF MarkJob, WorkAt, detection
<1>2. ASSUME NEW r \in NotePaths, Overlooked(r)'
      PROVE  Overlooked(r) \/ r \in missed'
  <2>2. CASE r \notin owners
    <3>1. jobs'[r] = jobs[r]
      BY <1>1, <2>2
    <3>2. jobs[r] # None /\ jobs[r].status = "done" /\ index[r] # file[r].edit
      BY <1>1, <1>2, <3>1, OverlookedMeansLater
    <3> QED
      BY <1>1, <1>2, <3>1, <3>2, OverlookedMeans, OverlookedMeansLater
  <2>3. CASE r \in owners
    <3>1. jobs[r] \in JobRows /\ jobs'[r] = [jobs[r] EXCEPT !.status = status]
          /\ work.id = jobs[r].id /\ jobs[r] # None
      BY <1>1, <2>3 DEF NotesTypes
    <3>2. jobs'[r].status = status
      BY <3>1 DEF JobRows
    <3>3. r # work.path \/ ~Is(r, {"in_progress"}) => r \in missed'
      BY <1>1, <2>3
    <3>4. status = "done" /\ index[r] # file[r].edit
      BY <1>1, <1>2, <3>2, OverlookedMeansLater
    <3> QED
      BY <1>1, <1>2, <3>1, <3>3, <3>4, OverlookedMeans, OverlookedMeansLater DEF Is
  <2> QED
    BY <2>2, <2>3
<1>3. Settled' /\ missed \subseteq missed'
  BY <1>1, <1>2, StaysSettled DEF Rest
<1> QED
  BY <1>1, <1>3, SameRest

(* A job whose end is not stored stays in progress. *)
LEMMA LoseJobSettles ==
    ASSUME Basics, Rest, LoseJob
    PROVE  RestStays
<1>1. UNCHANGED <<file, current, jobs, index, enqueues, scan, missed>> /\ work' = None
  BY DEF LoseJob, detection, history
<1>2. Settled'
  BY <1>1, SameOverlooked, StaysSettled DEF Rest
<1> QED
  BY <1>1, <1>2, SameRest

LEMMA FilesSettle ==
    ASSUME Basics, Rest, NEW p \in NotePaths,
           UploadNote(p) \/ Put(p) \/ Remove(p) \/ DeleteNote(p)
    PROVE  RestStays
<1> USE DEF Basics
<1>1. /\ UNCHANGED <<jobs, scan, work>> /\ enqueues \subseteq enqueues'
      /\ \A r \in NotePaths \ {p} : /\ file'[r] = file[r] /\ index'[r] = index[r]
                                    /\ r \in current' => r \in current
  <2>1. UNCHANGED <<jobs, scan, work>>
    BY DEF UploadNote, Put, Remove, DeleteNote, tables, detection, worker
  <2>2. enqueues \subseteq enqueues'
    BY DEF UploadNote, Put, Remove, DeleteNote, Notice, detection
  <2>3. ASSUME NEW r \in NotePaths \ {p}
        PROVE  file'[r] = file[r] /\ index'[r] = index[r] /\ (r \in current' => r \in current)
    BY DEF UploadNote, Put, Remove, DeleteNote, WriteFile, RemoveFile, Stamp, tables, NotesTypes
  <2> QED
    BY <2>1, <2>2, <2>3
<1>2. (Overlooked(p)' => p \in missed') /\ missed \subseteq missed'
  <2>1. CASE UploadNote(p)
    <3>1. Call(p) \in enqueues' /\ Call(p).path = p
      BY <2>1, CallType DEF UploadNote
    <3> QED
      BY <2>1, <3>1, OverlookedMeansLater DEF UploadNote, history
  <2>2. CASE Put(p)
    BY <2>2 DEF Put, Unfound
  <2>3. CASE Remove(p) \/ DeleteNote(p)
    <3>1. file'[p] = None
      BY <2>3 DEF Remove, DeleteNote, RemoveFile, NotesTypes
    <3> QED
      BY <2>3, <3>1, OverlookedMeansLater DEF Remove, DeleteNote, history
  <2> QED
    BY <2>1, <2>2, <2>3
<1>3. ASSUME NEW r \in NotePaths, r # p, Overlooked(r)'
      PROVE  Overlooked(r)
  BY <1>1, <1>3, SameOverlooked
<1>4. Settled'
  BY <1>2, <1>3, StaysSettled DEF Rest
<1> QED
  BY <1>1, <1>2, <1>4, SameRest

LEMMA MovesSettle ==
    ASSUME Basics, Rest, NEW p \in NotePaths, NEW q \in NotePaths,
           Shuffle(p, q) \/ MoveNote(p, q) \/ CopyNote(p, q)
    PROVE  RestStays
<1> USE DEF Basics
<1>1. /\ p # q /\ UNCHANGED <<scan, work>> /\ missed \subseteq missed'
      /\ enqueues \subseteq enqueues'
      /\ Overlooked(q)' => q \in missed'
  <2>1. p # q /\ UNCHANGED <<scan, work>> /\ Notice(q)
    BY DEF Shuffle, MoveNote, CopyNote, Relocate, Duplicate, worker
  <2>2. missed' = missed \cup {r \in {q} : Unfound(r)'}
    BY DEF Shuffle, MoveNote, CopyNote
  <2> QED
    BY <2>1, <2>2 DEF Notice, Unfound
<1>2. ASSUME NEW r \in NotePaths \ {p, q}
      PROVE  /\ file'[r] = file[r] /\ index'[r] = index[r] /\ jobs'[r] = jobs[r]
             /\ r \in current' => r \in current
  <2>1. CASE Shuffle(p, q)
    BY <2>1 DEF Shuffle, Relocate, Apart, Duplicate, WriteFile, Stamp, NotesTypes
  <2>2. CASE MoveNote(p, q)
    BY <2>2 DEF MoveNote, MovePages, MoveRows, Apart, Relocate, NotesTypes
  <2>3. CASE CopyNote(p, q)
    BY <2>3 DEF CopyNote, Duplicate, WriteFile, Stamp, NotesTypes
  <2> QED
    BY <2>1, <2>2, <2>3
<1>3. \/ file'[p] = None
      \/ /\ file'[p] = file[p] /\ index'[p] = index[p] /\ jobs'[p] = jobs[p]
         /\ p \in current' => p \in current
  <2>1. CASE Shuffle(p, q)
    <3>1. CASE Relocate(p, q)
      BY <3>1 DEF Relocate, NotesTypes
    <3>2. CASE Duplicate(p, q)
      BY <2>1, <3>2 DEF Shuffle, Duplicate, WriteFile, Stamp, NotesTypes
    <3> QED
      BY <2>1, <3>1, <3>2 DEF Shuffle
  <2>2. CASE MoveNote(p, q)
    BY <2>2 DEF MoveNote, Relocate, NotesTypes
  <2>3. CASE CopyNote(p, q)
    BY <2>3 DEF CopyNote, Duplicate, WriteFile, Stamp, NotesTypes
  <2> QED
    BY <2>1, <2>2, <2>3
<1>4. ASSUME NEW r \in NotePaths, r # q, Overlooked(r)'
      PROVE  Overlooked(r)
  <2>1. file'[r] # None
    BY <1>4, OverlookedMeansLater
  <2> QED
    BY <1>1, <1>2, <1>3, <1>4, <2>1, SameOverlooked
<1>5. Settled'
  BY <1>1, <1>4, StaysSettled DEF Rest
<1> QED
  BY <1>1, <1>5, SameRest

LEMMA LifeSettles ==
    ASSUME Basics, Rest, StopWorker \/ StartWorker \/ RequestEnds \/ Restart \/ UNCHANGED notesVars
    PROVE  RestStays
<1> USE DEF Basics
<1>1. UNCHANGED <<file, current, jobs, index>> /\ (work' = work \/ work' = None)
  BY DEF StopWorker, StartWorker, RequestEnds, Restart, notesVars, Lifecycle, tables, rows, worker
<1>2. CASE StopWorker \/ StartWorker \/ RequestEnds \/ UNCHANGED notesVars
  <2>1. UNCHANGED <<enqueues, scan, missed>>
    BY <1>2 DEF StopWorker, StartWorker, RequestEnds, notesVars, Lifecycle, detection, history
  <2>2. Settled'
    BY <1>1, <2>1, SameOverlooked, StaysSettled DEF Rest
  <2> QED
    BY <1>1, <2>1, <2>2, SameRest
<1>3. CASE Restart
  <2>1. /\ enqueues' = {} /\ scan' = FirstScan /\ work' = None
        /\ missed' = missed \cup {p \in NotePaths : Unfound(p)'}
    BY <1>3 DEF Restart
  <2>2. ASSUME NEW r \in NotePaths, Overlooked(r)'
        PROVE  r \in missed'
    BY <2>1, <2>2 DEF Unfound
  <2>3. Settled' /\ missed \subseteq missed'
    BY <2>1, <2>2, StaysSettled DEF Rest
  <2>4. ScanFits' /\ WorkFits'
    BY <2>1 DEF ScanFits, WorkFits, FirstScan
  <2> QED
    BY <2>3, <2>4 DEF RestStays, Rest
<1> QED
  BY <1>2, <1>3

LEMMA RestKept ==
    ASSUME Basics, Rest, [NotesNext]_notesVars
    PROVE  RestStays
<1>1. CASE Detect \/ AbortScan
  BY <1>1, ScanSettles DEF Detect
<1>2. CASE AnswerCalls \/ \E c \in enqueues : FailCall(c)
  BY <1>2, CallsSettle DEF AnswerCalls
<1>3. CASE Work \/ RefuseSize \/ FailPage \/ LoseJob
  BY <1>3, ClaimSettles, WorkSettles, MarkJobSettles, LoseJobSettles DEF Work
<1>4. ASSUME NEW p \in NotePaths,
             \/ Requeue(p) \/ Skip(p) \/ Unskip(p) \/ ReclaimStuck(p)
             \/ UploadNote(p) \/ Put(p) \/ Remove(p) \/ DeleteNote(p)
      PROVE  RestStays
  BY <1>4, ButtonsSettle, FilesSettle
<1>5. ASSUME NEW p \in NotePaths, NEW q \in NotePaths,
             Shuffle(p, q) \/ MoveNote(p, q) \/ CopyNote(p, q)
      PROVE  RestStays
  BY <1>5, MovesSettle
<1>6. CASE StopWorker \/ StartWorker \/ RequestEnds \/ Restart \/ UNCHANGED notesVars
  BY <1>6, LifeSettles
<1> QED
  BY <1>1, <1>2, <1>3, <1>4, <1>5, <1>6 DEF NotesNext
-----------------------------------------------------------------------------
LEMMA NotesInitInv == NotesInit => Basics /\ Rest
<1> SUFFICES ASSUME NotesInit PROVE Basics /\ Rest
  OBVIOUS
<1>1. NotesTypes
  BY DEF NotesInit, NotesTypes, FirstScan, Scans
<1>2. EditsFit /\ ScanFits /\ WorkFits
  BY DEF NotesInit, EditsFit, ScanFits, WorkFits, FirstScan
<1>3. JobsFit
  <2>1. \A p \in NotePaths : jobs[p] = None
    BY DEF NotesInit
  <2>2. \E n \in Nat : \A p \in NotePaths : jobs[p] # None => jobs[p].id <= n
    <3>1. \A p \in NotePaths : jobs[p] # None => jobs[p].id <= 0
      BY <2>1
    <3> QED
      BY <3>1
  <2> QED
    BY <2>1, <2>2 DEF JobsFit
<1>4. Settled
  BY OverlookedMeans DEF NotesInit, Settled
<1> QED
  BY <1>1, <1>2, <1>3, <1>4 DEF Basics, Rest

(* The inductive invariant holds of every behaviour.                       *)
THEOREM NotesInvariant == NotesSpec => [](Basics /\ Rest)
<1>1. Basics /\ Rest /\ [NotesNext]_notesVars => (Basics /\ Rest)'
  BY BasicsKept, RestKept DEF RestStays
<1> QED
  BY <1>1, NotesInitInv, PTL DEF NotesSpec

(* Rows, jobs, pages and the worker's job are what the tables allow: a job
   has a row of notes and an id of its own, whatever was pruned, transferred
   or moved meanwhile, and nothing is of an edit that nobody made. *)
THEOREM NotesTypeCorrect == NotesSpec => []NotesTypeOK
<1>1. Basics => NotesTypeOK
  <2> SUFFICES ASSUME Basics PROVE NotesTypeOK
    OBVIOUS
  <2>1. ASSUME NEW p \in NotePaths
        PROVE  /\ file[p] # None => file[p].edit \in 1 .. edits /\ file[p].text \in BOOLEAN
               /\ jobs[p] # None => notes[p] # None
               /\ jobs[p] # None => jobs[p].status \in Statuses
               /\ index[p] \in {None, Blank} \cup 1 .. edits
    <3>1. file[p] # None => file[p] \in Versions
      BY DEF Basics, NotesTypes
    <3>2. jobs[p] # None => jobs[p] \in JobRows
      BY DEF Basics, NotesTypes
    <3> QED
      BY <3>1, <3>2 DEF Basics, EditsFit, JobsFit, Versions, JobRows
  <2>2. work # None => work.path \in NotePaths
    BY DEF Basics, NotesTypes, Works
  <2>3. \A p, q \in NotePaths : jobs[p] # None /\ jobs[q] # None /\ p # q
                                => jobs[p].id # jobs[q].id
    BY DEF Basics, JobsFit
  <2> QED
    BY <2>1, <2>2, <2>3 DEF NotesTypeOK
<1> QED
  BY <1>1, NotesInvariant, PTL

(* A note that the Files page shows as done, and that nobody is about to
   look at, is indexed with the text of its file's edit, however often it
   was edited, moved, copied, pruned, queued or restarted and whatever
   statement failed, but for the paths that fell behind in one of the
   recorded ways, an error of the index that was only logged being one. *)
THEOREM DoneIsIndexedHolds == NotesSpec => []DoneIsIndexed
<1>1. Basics /\ Rest => DoneIsIndexed
  <2> SUFFICES ASSUME Basics, Rest, NEW n \in ListNotes, Quiet(n.path), n.status = "done"
               PROVE  Complete(n.path) \/ n.path \in missed
    BY DEF DoneIsIndexed
  <2>1. PICK p \in NotePaths :
           /\ notes[p] # None
           /\ n = [path |-> p, status |-> IF jobs[p] = None THEN "" ELSE jobs[p].status]
    BY DEF ListNotes
  <2>2. n.path = p /\ jobs[p] # None /\ jobs[p].status = "done"
    BY <2>1
  <2>3. ~Complete(p) => Overlooked(p)
    BY <2>1, <2>2, OverlookedMeans DEF Quiet, Complete
  <2> QED
    BY <2>2, <2>3 DEF Rest, Settled
<1> QED
  BY <1>1, NotesInvariant, PTL
=============================================================================
