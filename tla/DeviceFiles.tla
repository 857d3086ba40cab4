---------------------------- MODULE DeviceFiles ----------------------------
(***************************************************************************)
(* The files of a Supernote that syncs against this server: the tree below *)
(* FILE_ROOT, the staging area in which an upload waits for its hash, the  *)
(* recycling area, and the table that gives every path the numeric id by   *)
(* which the device addresses it.                                          *)
(*                                                                         *)
(*   apply --> POST of the bytes --> .staging --> finish --> tree          *)
(*   delete, move, copy by id --> tree, .recycle, spc_file_ids             *)
(*                                                                         *)
(* Handlers run side by side: the device repeats a request whose answer it *)
(* has not seen.  Every file operation and every statement that another    *)
(* handler could come before is a step of its own; what a handler only     *)
(* checks is done with the step before.  Two handles on one file share its *)
(* bytes, so files are inodes: a path leads to an inode, an inode has the  *)
(* content of one upload or is incomplete.                                 *)
(*                                                                         *)
(* What search does with these files is in NoteProcessor.  Ids of folders, *)
(* downloads, capacity and the handwriting of digests are left out.        *)
(***************************************************************************)
EXTENDS Naturals, Sequences, FiniteSets, Functions

CONSTANTS
  Paths,      \* paths of files, as [dir, name]
  Folders,    \* folders that the user makes; other dirs are the device's own
  Slots,      \* requests under way at the same time
  MaxUploads, \* bound: uploads the device applies for
  MaxInodes,  \* bound: files ever created
  MaxCalls,   \* bound: other requests of the device
  MaxFaults   \* bound: repeated requests, lost answers, failures, crashes

ASSUME FilesAssumption ==
  /\ Paths # {} /\ Folders \subseteq {p.dir : p \in Paths}
  /\ MaxUploads \in Nat /\ MaxInodes \in Nat
  /\ MaxCalls \in Nat /\ MaxFaults \in Nat

Uploads == 1..MaxUploads
Inodes  == 1..MaxInodes
Idle    == [stage |-> "idle"]
Partial == 0     \* the content of a file that is not completely written

VARIABLES
  tree,      \* path -> inode, 0 without a file
  dirs,      \* the folders that exist
  bytes,     \* content of each inode: an upload's, or Partial
  staged,    \* upload -> inode of its file in .staging, 0 without one
  uploads,   \* upload -> its path and the state of its row in spc_uploads
  recycled,  \* inodes below .recycle
  ids,       \* spc_file_ids: the path of each id
  calls,     \* slot -> the request between two of its steps
  holds,     \* inode -> the id that the device last learned for the file
  called, faults,
  claim,     \* history: inode -> the content that finish verified, 0 before
  replaced,  \* history: inodes that another file took the path of
  reopened,  \* history: inodes written again after they were verified
  misled,    \* history: inodes whose id the device does not know any more
  wanted,    \* history: folders the device asked for
  strays,    \* history: folders made for a file that did not come
  leaked     \* history: uploads whose staged file the sweep does not find

area    == <<tree, dirs, recycled>>
staging == <<staged, uploads>>
bounds  == <<called, faults>>
kept    == <<claim, replaced, reopened>>
left    == <<wanted, strays, leaked>>
vars    == <<area, bytes, staging, ids, calls, holds, bounds, kept, misled, left>>

-----------------------------------------------------------------------------
Upload == [path : Paths, row : {"unused", "none", "applied", "finalized"},
           live : BOOLEAN]     \* within the 30 minutes of its signature
Request ==
  [kind : {"post"}, stage : {"open", "fill"}, n : Uploads, inode : 0..MaxInodes]
  \cup [kind : {"finish"}, stage : {"verify", "rename", "entry"}, n : Uploads,
        to : Paths]
  \cup [kind : {"delete"}, stage : {"recycle", "prune"}, from : Paths]
  \cup [kind : {"move"}, stage : {"rename", "repoint", "answer"}, id : Nat,
        from : Paths, to : Paths, inode : 0..MaxInodes]
  \cup [kind : {"copy"}, stage : {"create", "fill"}, from : Paths,
        to : Paths, source : 0..MaxInodes, inode : 0..MaxInodes]

TypeOK ==
  /\ tree \in [Paths -> 0..MaxInodes]
  /\ dirs \subseteq Folders
  /\ bytes \in Seq(Uploads \cup {Partial}) /\ Len(bytes) <= MaxInodes
  /\ staged \in [Uploads -> 0..MaxInodes]
  /\ uploads \in [Uploads -> Upload]
  /\ recycled \subseteq Inodes
  /\ ids \in Seq(Paths) /\ \A i, j \in DOMAIN ids : ids[i] = ids[j] => i = j
  /\ calls \in [Slots -> Request \cup {Idle}]
  /\ holds \in [Inodes -> 0..Len(ids)]
  /\ called \in 0..MaxCalls /\ faults \in 0..MaxFaults
  /\ claim \in [Inodes -> Uploads \cup {0}]
  /\ {replaced, reopened, misled} \subseteq SUBSET Inodes
  /\ {wanted, strays} \subseteq SUBSET Folders
  /\ leaked \subseteq Uploads

Init ==
  /\ tree = [p \in Paths |-> 0] /\ dirs = {} /\ recycled = {}
  /\ bytes = <<>>
  /\ staged = [n \in Uploads |-> 0]
  /\ uploads = [n \in Uploads |-> [path |-> CHOOSE p \in Paths : TRUE,
                                  row |-> "unused", live |-> TRUE]]
  /\ ids = <<>>
  /\ calls = [s \in Slots |-> Idle]
  /\ holds = [o \in Inodes |-> 0]
  /\ called = 0 /\ faults = 0
  /\ claim = [o \in Inodes |-> 0]
  /\ replaced = {} /\ reopened = {} /\ misled = {}
  /\ wanted = {} /\ strays = {} /\ leaked = {}

-----------------------------------------------------------------------------
(* Files, folders and ids.                                                 *)

Fault == faults < MaxFaults /\ faults' = faults + 1
NewInode == Len(bytes) + 1
InDir(d) == {p \in Paths : p.dir = d /\ tree[p] # 0}
HasDir(p) == p.dir \in Folders => p.dir \in dirs
MkdirAll(p) == dirs \cup ({p.dir} \cap Folders)

\* pruneEmptyParents: a folder of the user that holds no file goes, a native
\* bucket stays.
Empty(p) == {d \in {p.dir} \cap Folders : InDir(d) = {}}
PruneEmptyParents(p) ==
  /\ dirs' = dirs \ Empty(p)
  /\ wanted' = wanted \ Empty(p) /\ strays' = strays \ Empty(p)

\* IDFor: INSERT OR IGNORE, then the row of the path.
IDFor(p) == IF p \in Range(ids) THEN ids ELSE Append(ids, p)
IdOf(p, table) == CHOOSE i \in DOMAIN table : table[i] = p

\* EntryFor of a path, and the answer that carries its id; without a file
\* there the answer is an error.  It may be lost.
AnswerEntry(p, lost) ==
  IF tree[p] = 0 THEN UNCHANGED <<ids, holds, misled>>
  ELSE /\ ids' = IDFor(p)
       /\ IF lost THEN UNCHANGED <<holds, misled>>
          ELSE /\ holds' = [holds EXCEPT ![tree[p]] = IdOf(p, ids')]
               /\ misled' = misled \ {tree[p]}

-----------------------------------------------------------------------------
(* Requests.                                                               *)

At(s, kind, stage) == calls[s].stage = stage /\ calls[s].kind = kind
GoTo(s, stage) == calls' = [calls EXCEPT ![s].stage = stage]
End(s) == calls' = [calls EXCEPT ![s] = Idle]
Free == \E s \in Slots : calls[s] = Idle
Start(s, request) == calls[s] = Idle /\ calls' = [calls EXCEPT ![s] = request]
Begin(s, request) ==
  Start(s, request) /\ called < MaxCalls /\ called' = called + 1

\* Upload apply: the row of the upload, best effort.
Apply(n, p, recorded) ==
  /\ uploads[n].row = "unused" /\ \A m \in 1..(n - 1) : uploads[m].row # "unused"
  /\ uploads' = [uploads EXCEPT ![n].path = p,
                                ![n].row = IF recorded THEN "applied" ELSE "none"]
  /\ IF recorded THEN UNCHANGED faults ELSE Fault
  /\ UNCHANGED <<area, bytes, staged, ids, calls, holds, called, kept, misled, left>>

\* A request that the device repeats, not having seen the answer, counts as a
\* fault.
UnderWay(kind, n) == \E s \in Slots : calls[s] # Idle /\ calls[s].kind = kind /\ calls[s].n = n
Repeated(again) == IF again THEN Fault ELSE UNCHANGED faults

\* UploadStream: the signature is valid for as long as the upload is live.
UploadStream(s, n) ==
  /\ uploads[n].row # "unused" /\ uploads[n].live
  /\ Start(s, [kind |-> "post", stage |-> "open", n |-> n, inode |-> 0])
  /\ Repeated(staged[n] # 0 \/ UnderWay("post", n) \/ UnderWay("finish", n)
              \/ n \in Range(claim))
  /\ UNCHANGED <<area, bytes, staging, ids, holds, called, kept, misled, left>>

\* Stage opens the path in .staging: a file that is there is truncated, also
\* one that a finish has just verified.
Verified(n) == \E s \in Slots : At(s, "finish", "rename") /\ calls[s].n = n
Opened(s) == calls[s].inode
StageOpen(s) ==
  /\ At(s, "post", "open")
  /\ LET n == calls[s].n
         o == IF staged[n] # 0 THEN staged[n] ELSE NewInode
     IN
     /\ o \in Inodes
     /\ bytes' = IF o = NewInode THEN Append(bytes, Partial)
                 ELSE [bytes EXCEPT ![o] = Partial]
     /\ staged' = [staged EXCEPT ![n] = o]
     /\ reopened' = IF Verified(n) THEN reopened \cup {o} ELSE reopened
     /\ leaked' = IF uploads[n].row = "applied" THEN leaked ELSE leaked \cup {n}
     /\ calls' = [calls EXCEPT ![s].stage = "fill", ![s].inode = o]
  /\ UNCHANGED <<area, uploads, ids, holds, bounds, claim, replaced, misled,
                 wanted, strays>>

StageFill(s) ==
  /\ At(s, "post", "fill")
  /\ bytes' = [bytes EXCEPT ![Opened(s)] = calls[s].n]
  /\ reopened' = reopened \ {Opened(s)}
  /\ End(s)
  /\ UNCHANGED <<area, staging, ids, holds, bounds, claim, replaced, misled, left>>

\* Upload finish, also of an upload whose finish was answered already.
Finish(s, n) ==
  /\ uploads[n].row # "unused"
  /\ Start(s, [kind |-> "finish", stage |-> "verify", n |-> n, to |-> uploads[n].path])
  /\ Repeated(staged[n] = 0 \/ UnderWay("post", n) \/ UnderWay("finish", n))
  /\ UNCHANGED <<area, bytes, staging, ids, holds, called, kept, misled, left>>

\* As FinalizeVerify, taking what is there.
FinalizeBlindly(s) ==
  /\ At(s, "finish", "verify")
  /\ LET c == calls[s] IN
     IF staged[c.n] # 0
     THEN /\ GoTo(s, "rename")
          /\ dirs' = MkdirAll(c.to)
     ELSE End(s) /\ UNCHANGED dirs
  /\ UNCHANGED <<tree, recycled, bytes, staging, ids, holds, bounds, kept, misled, left>>

\* Finalize: the staged file must have the size and the hash of the upload;
\* then the folder of its target is made ...
FinalizeVerify(s) ==
  /\ At(s, "finish", "verify")
  /\ LET c == calls[s] IN
     IF staged[c.n] # 0 /\ bytes[staged[c.n]] = c.n
     THEN /\ GoTo(s, "rename")
          /\ dirs' = MkdirAll(c.to)
     ELSE End(s) /\ UNCHANGED dirs
  /\ UNCHANGED <<tree, recycled, bytes, staging, ids, holds, bounds, kept, misled, left>>

\* ... and the file is renamed to it, over the one that is there.  By now
\* the staged file may be gone, or the folder pruned.
FinalizeRename(s) ==
  /\ At(s, "finish", "rename")
  /\ LET c == calls[s]
         o == staged[c.n]
     IN
     IF o # 0 /\ HasDir(c.to)
     THEN /\ tree' = [tree EXCEPT ![c.to] = o]
          /\ staged' = [staged EXCEPT ![c.n] = 0]
          /\ claim' = [claim EXCEPT ![o] = c.n]
          /\ replaced' = replaced \cup ({tree[c.to]} \ {0})
          /\ leaked' = leaked \ {c.n}
          /\ GoTo(s, "entry")
          /\ UNCHANGED strays
     ELSE /\ End(s)
          /\ strays' = strays \cup ({c.to.dir} \cap Folders)
          /\ UNCHANGED <<tree, staged, claim, replaced, leaked>>
  /\ UNCHANGED <<dirs, recycled, bytes, uploads, ids, holds, bounds, reopened, misled,
                 wanted>>

\* The row is finalized, if the sweep has left it, and the device is answered.
FinishEntry(s, lost) ==
  /\ At(s, "finish", "entry")
  /\ LET c == calls[s] IN
     /\ uploads' = [uploads EXCEPT ![c.n].row = IF @ = "applied" THEN "finalized" ELSE @]
     /\ leaked' = IF staged[c.n] # 0 THEN leaked \cup {c.n} ELSE leaked
     /\ AnswerEntry(c.to, lost)
  /\ IF lost THEN Fault ELSE UNCHANGED faults
  /\ End(s)
  /\ UNCHANGED <<area, bytes, staged, called, kept, wanted, strays>>

\* Half an hour passes; the sweep removes an upload that was not finished,
\* first its file and then its row.
Expire(n) ==
  /\ Fault
  /\ uploads[n].row # "unused" /\ uploads[n].live
  /\ uploads' = [uploads EXCEPT ![n].live = FALSE]
  /\ UNCHANGED <<area, bytes, staged, ids, calls, holds, called, kept, misled, left>>

Sweep(n) ==
  /\ uploads[n].row = "applied" /\ ~uploads[n].live
  /\ staged' = [staged EXCEPT ![n] = 0]
  /\ uploads' = [uploads EXCEPT ![n].row = "none"]
  /\ leaked' = leaked \ {n}
  /\ UNCHANGED <<area, bytes, ids, calls, holds, bounds, kept, misled, wanted, strays>>

-----------------------------------------------------------------------------
(* Listing, folders, delete, move and copy.                                *)

\* An entry of ListFolder, QueryByID, QueryByPath or DownloadV3.
List(p) ==
  /\ tree[p] # 0 /\ Free
  /\ called < MaxCalls /\ called' = called + 1
  /\ AnswerEntry(p, FALSE)
  /\ UNCHANGED <<area, bytes, staging, calls, faults, kept, left>>

CreateFolder(d) ==
  /\ d \notin dirs /\ Free
  /\ called < MaxCalls /\ called' = called + 1
  /\ dirs' = dirs \cup {d} /\ wanted' = wanted \cup {d}
  /\ UNCHANGED <<tree, recycled, bytes, staging, ids, calls, holds, faults, kept, misled,
                 strays, leaked>>

\* PathFor and Lstat: the id must lead to a file.  An answer that it does
\* not changes nothing.
Known == Range(holds) \ {0}
Resolves(i) == i \in Known /\ tree[ids[i]] # 0

DeleteFolder(s, i) ==
  /\ Resolves(i)
  /\ Begin(s, [kind |-> "delete", stage |-> "recycle", from |-> ids[i]])
  /\ UNCHANGED <<area, bytes, staging, ids, holds, faults, kept, misled, left>>

\* recycle renames the file that is at the path by now, below a directory of
\* its own.
Recycle(s) ==
  /\ At(s, "delete", "recycle")
  /\ LET p == calls[s].from IN
     IF tree[p] # 0
     THEN /\ recycled' = recycled \cup {tree[p]}
          /\ tree' = [tree EXCEPT ![p] = 0]
          /\ GoTo(s, "prune")
     ELSE End(s) /\ UNCHANGED <<tree, recycled>>
  /\ UNCHANGED <<dirs, bytes, staging, ids, holds, bounds, kept, misled, left>>

\* As Prune, for a handler that leaves the folder.
PruneNothing(s) ==
  /\ At(s, "delete", "prune")
  /\ End(s)
  /\ UNCHANGED <<area, bytes, staging, ids, holds, bounds, kept, misled, left>>

Prune(s) ==
  /\ At(s, "delete", "prune")
  /\ PruneEmptyParents(calls[s].from)
  /\ End(s)
  /\ UNCHANGED <<tree, recycled, bytes, staging, ids, holds, bounds, kept, misled, leaked>>

\* targetPath: a free path as asked for; of a taken one, with autorename, a
\* free path in the same directory.
Targets(q) ==
  IF tree[q] = 0 THEN {q}
  ELSE {p \in Paths : p.dir = q.dir /\ tree[p] = 0}

Move(s, i, q) ==
  /\ Resolves(i)
  /\ \E to \in Targets(q) :
       /\ Begin(s, [kind |-> "move", stage |-> "rename", id |-> i, from |-> ids[i],
                    to |-> to, inode |-> 0])
       /\ dirs' = MkdirAll(to)
  /\ UNCHANGED <<tree, recycled, bytes, staging, ids, holds, faults, kept, misled, left>>

\* The rename replaces a file that has come to the target since.
MoveRename(s) ==
  /\ At(s, "move", "rename")
  /\ LET c == calls[s]
         o == tree[c.from]
     IN
     IF o # 0 /\ HasDir(c.to)
     THEN /\ tree' = [tree EXCEPT ![c.to] = o, ![c.from] = 0]
          /\ replaced' = replaced \cup ({tree[c.to]} \ {0})
          /\ calls' = [calls EXCEPT ![s].stage = "repoint", ![s].inode = o]
          /\ UNCHANGED strays
     ELSE /\ End(s)
          /\ strays' = strays \cup ({c.to.dir} \cap Folders)
          /\ UNCHANGED <<tree, replaced>>
  /\ UNCHANGED <<dirs, recycled, bytes, staging, ids, holds, bounds, claim, reopened,
                 misled, wanted, leaked>>

\* As Repoint, leaving the row where it is.
RepointNothing(s, failed) ==
  /\ At(s, "move", "repoint") /\ ~failed
  /\ GoTo(s, "answer")
  /\ UNCHANGED <<area, bytes, staging, ids, holds, bounds, kept, misled, left>>

\* UpdatePath: the id follows its file.  The statement fails when the target
\* has a row, of a file that was there before or of a listing that has seen
\* the file there; the move goes on.  It takes the id from a file that was
\* stored under the old path since the rename, or, when that file was moved
\* by the same id, from the one whose move was first.
Repoint(s, failed) ==
  LET c == calls[s]
      table == IF c.to \in Range(ids) \/ failed THEN ids
               ELSE [ids EXCEPT ![c.id] = c.to]
      files == {<<c.inode, c.to>>} \cup {<<tree[p], p>> : p \in {c.from, ids[c.id]}}
  IN
  /\ At(s, "move", "repoint")
  /\ ids' = table
  /\ misled' = misled \cup {o \in Inodes : holds[o] # 0 /\ \E p \in Paths :
                              <<o, p>> \in files /\ table[holds[o]] # p}
  /\ GoTo(s, "answer")
  /\ IF failed THEN Fault ELSE UNCHANGED faults
  /\ UNCHANGED <<area, bytes, staging, holds, called, kept, left>>

MoveAnswer(s, lost) ==
  /\ At(s, "move", "answer")
  /\ PruneEmptyParents(calls[s].from)
  /\ AnswerEntry(calls[s].to, lost)
  /\ IF lost THEN Fault ELSE UNCHANGED faults
  /\ End(s)
  /\ UNCHANGED <<tree, recycled, bytes, staging, called, kept, leaked>>

Copy(s, i, q) ==
  /\ Resolves(i)
  /\ \E to \in Targets(q) :
       Begin(s, [kind |-> "copy", stage |-> "create", from |-> ids[i], to |-> to,
                 source |-> 0, inode |-> 0])
  /\ UNCHANGED <<area, bytes, staging, ids, holds, faults, kept, misled, left>>

\* copyFile opens the source and creates the target, by then perhaps a file
\* that has come there, which it truncates.
CopyCreate(s) ==
  /\ At(s, "copy", "create")
  /\ LET c == calls[s]
         o == IF tree[c.to] # 0 THEN tree[c.to] ELSE NewInode
     IN
     IF tree[c.from] = 0
     THEN End(s) /\ UNCHANGED <<tree, dirs, bytes, reopened>>
     ELSE /\ o \in Inodes
          /\ dirs' = MkdirAll(c.to)
          /\ tree' = [tree EXCEPT ![c.to] = o]
          /\ bytes' = IF o = NewInode THEN Append(bytes, Partial)
                      ELSE [bytes EXCEPT ![o] = Partial]
          /\ reopened' = reopened \cup {o}
          /\ calls' = [calls EXCEPT ![s].stage = "fill", ![s].inode = o,
                                    ![s].source = tree[c.from]]
  /\ UNCHANGED <<recycled, staging, ids, holds, bounds, claim, replaced, misled, left>>

CopyFill(s, lost) ==
  /\ At(s, "copy", "fill")
  /\ bytes' = [bytes EXCEPT ![Opened(s)] = bytes[calls[s].source]]
  /\ reopened' = reopened \cup {Opened(s)}
  /\ AnswerEntry(calls[s].to, lost)
  /\ IF lost THEN Fault ELSE UNCHANGED faults
  /\ End(s)
  /\ UNCHANGED <<area, staging, called, claim, replaced, left>>

-----------------------------------------------------------------------------
(* Failures.                                                               *)

\* The bytes of a POST or a copy break off: what is written stays, a copy's
\* in the tree.
WriteFails(s) ==
  /\ Fault
  /\ calls[s].stage = "fill"
  /\ End(s)
  /\ UNCHANGED <<area, bytes, staging, ids, holds, called, kept, misled, left>>

\* The server stops between two steps of its handlers, of which some are at
\* work in a folder.
Involves(c, d) ==
  \/ c.stage \in {"prune", "repoint", "answer"} /\ c.from.dir = d
  \/ c.stage = "rename" /\ c.to.dir = d
Crash ==
  /\ Fault
  /\ \E s \in Slots : calls[s] # Idle
  /\ calls' = [s \in Slots |-> Idle]
  /\ misled' = misled \cup {calls[s].inode : s \in {r \in Slots : At(r, "move", "repoint")}}
  /\ strays' = strays \cup {d \in Folders : \E s \in Slots : Involves(calls[s], d)}
  /\ UNCHANGED <<area, bytes, staging, ids, holds, called, kept, wanted, leaked>>

-----------------------------------------------------------------------------
Device ==
  \/ \E n \in Uploads, p \in Paths : Apply(n, p, TRUE)
  \/ \E s \in Slots, n \in Uploads : UploadStream(s, n) \/ Finish(s, n)
  \/ \E p \in Paths : List(p)
  \/ \E d \in Folders : CreateFolder(d)
  \/ \E s \in Slots, i \in DOMAIN ids : DeleteFolder(s, i)
  \/ \E s \in Slots, i \in DOMAIN ids, q \in Paths : Move(s, i, q) \/ Copy(s, i, q)

Handler(s) ==
  \/ StageOpen(s) \/ StageFill(s)
  \/ FinalizeVerify(s) \/ FinalizeRename(s) \/ FinishEntry(s, FALSE)
  \/ Recycle(s) \/ Prune(s)
  \/ MoveRename(s) \/ Repoint(s, FALSE) \/ MoveAnswer(s, FALSE)
  \/ CopyCreate(s) \/ CopyFill(s, FALSE)

Faults ==
  \/ \E n \in Uploads, p \in Paths : Apply(n, p, FALSE)
  \/ \E s \in Slots : FinishEntry(s, TRUE) \/ MoveAnswer(s, TRUE) \/ CopyFill(s, TRUE)
  \/ \E s \in Slots : Repoint(s, TRUE) \/ WriteFails(s)
  \/ Crash

Next ==
  \/ Device
  \/ \E s \in Slots : Handler(s)
  \/ \E n \in Uploads : Expire(n) \/ Sweep(n)
  \/ Faults

Spec == Init /\ [][Next]_vars

-----------------------------------------------------------------------------
(* Properties.                                                             *)

InTree(o) == o \in Range(tree)

\* A file that finish took into the tree stays the device's: it is there or
\* in the recycling area until another file takes its path, whatever is
\* deleted, moved, copied, repeated or cut off, and its bytes are those
\* whose hash was verified, unless a writer opened it again: a late POST
\* between the check and the rename, or a copy that lands on it
\* (staging/staging.go:6 keeps unverified bytes out of the tree).
UploadsAreKept ==
  \A o \in Inodes : claim[o] # 0 =>
    /\ InTree(o) \/ o \in recycled \cup replaced
    /\ bytes[o] = claim[o] \/ o \in reopened

\* The id that the device last learned for a file leads to that file and to
\* no other, while it is in the tree and no move of it is under way; excepted
\* are a move whose id could not follow and whose answer did not arrive, a
\* file stored under a path whose id was just being moved away, and the one
\* that then loses the id to it in a second move.
IdsAddress ==
  \A p \in Paths :
    LET o == tree[p] IN
    (o # 0 /\ holds[o] # 0) =>
      \/ ids[holds[o]] = p
      \/ o \in misled
      \/ \E s \in Slots : At(s, "move", "repoint") /\ calls[s].inode = o

\* Nothing is left behind: an empty folder is one the device asked for, or a
\* handler is at work in it (a folder emptied by a delete or a move would
\* come back to the device as a zombie), and a staged file is one that the
\* sweep will find or a handler is at work on; excepted are the folders of a
\* file that did not come and the files of a POST that came too late.
NothingIsLeft ==
  /\ \A d \in dirs : InDir(d) # {} \/ d \in wanted \cup strays
                     \/ \E s \in Slots : Involves(calls[s], d)
  /\ \A n \in Uploads : staged[n] # 0 =>
       \/ uploads[n].row = "applied"
       \/ n \in leaked

=============================================================================
