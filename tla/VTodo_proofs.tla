----------------------------- MODULE VTodo_proofs -----------------------------
(***************************************************************************)
(* What holds of a task and its three shapes for any words, days, settings *)
(* and VTODOs a client may make, and any number of requests under way at a *)
(* time.                                                                   *)
(*                                                                         *)
(* What is served and shown at a moment does not suffice for a step: a     *)
(* request writes a row that it made earlier, so what is true of the row   *)
(* has to be true of every row about to be written, with what its request  *)
(* means by it (Fits); and the answer to a put is about a row that was     *)
(* made of its VTODO (Derived).                                            *)
(***************************************************************************)
EXTENDS VTodo, TLAPS

(* A row, stored or about to be; a put may come without a status. *)
Rows == [title : Maybe(Texts), detail : Maybe(Texts),
         status : Maybe({"completed", "needsAction"}), due : {0} \cup Instants,
         links : Maybe(Urls), source : Maybe(Sources), blob : Maybe(Vtodos),
         modified : Maybe(Times)]

(* What was meant, as far as the shape goes. *)
Wants == [title : Maybe(Texts), detail : Maybe(Texts),
          status : {"COMPLETED", "NEEDS-ACTION"}, at : {0} \cup Instants,
          form : {"DATE", "DATE-TIME"}, url : Maybe(Urls), links : Maybe(Urls),
          meta : Maybe(Texts), extra : Maybe(Extras), origin : Maybe(Sources),
          source : Maybe(Sources), lost : SUBSET {"url", "form", "meta", "extra", "origin", "source"}]

Calls == [op : {"create", "put", "patch", "answer"}, row : Rows, body : Maybe(Vtodos),
          want : Wants]

(* Nothing here takes a row away. *)
Written == stamps # {}

(* The parts of the state that statements are made from. *)
Typed ==
    /\ row # None => Written
    /\ Written => /\ row \in Rows /\ row.status # None /\ row.modified \in stamps
                  /\ meant \in Wants
    /\ cache # None => cache.body \in Vtodos
    /\ copy \in Maybe(Copies)
    /\ clock \in Times /\ stamps \subseteq Times /\ shared \subseteq stamps
    /\ writes \in 0..MaxWrites /\ faults \in 0..MaxFaults

(* A row and what was meant by it: of the columns each is so; what the blob
   holds beside them is so, or is masked in one of the two known ways, or is
   recorded as lost; and a form to keep has a blob that keeps it. *)
FitColumns(r, w) ==
    /\ r.title = w.title /\ r.detail = w.detail /\ CalDAVStatus(r.status) = w.status
    /\ r.due = w.at /\ r.links = w.links
    /\ r.source = w.source \/ "source" \in w.lost
FitBlob(b, w) ==
    IF b = None
    THEN /\ w.url = w.links \/ "url" \in w.lost
         /\ w.form = "DATE-TIME" \/ "form" \in w.lost
         /\ w.meta = None \/ "meta" \in w.lost
         /\ w.extra = None \/ "extra" \in w.lost
         /\ w.origin = None \/ "origin" \in w.lost
    ELSE /\ w.title = None => b.title = None
         /\ b.url = w.url \/ w.url = w.links \/ "url" \in w.lost
         /\ \/ w.form = "DATE" => b.due # None /\ b.due.form = "DATE"
            \/ "form" \in w.lost
         /\ w.meta = Text(b.meta) \/ "meta" \in w.lost
         /\ w.extra = b.extra \/ "extra" \in w.lost
         /\ w.origin = b.source \/ "origin" \in w.lost
Fits(r, w) == FitColumns(r, w) /\ FitBlob(r.blob, w)

Meant == Written => Fits(row, meant)

(* A row that was made of a VTODO, and is served as this. *)
Derived(r, v) == r.blob # None => Settled(TaskToVTODO(r)) = Settled(v)

(* What a request is about to write fits what it means, and what a put has
   made of its VTODO, or has stored, is served as this. *)
CallFits(c) ==
    /\ c \in Calls
    /\ c.op = "patch" => c.row.status # None
    /\ c.op = "answer" => Written
    /\ c.op # "answer" => Fits(c.row, c.want)
    /\ c.op # "patch" => c.body \in Vtodos /\ Derived(c.row, c.body)
Requests == \A c \in calls : CallFits(c)

(* The ETag of the client is that of a write; if it is of the last one, the
   client has what is served now. *)
Current ==
    cache # None =>
        /\ cache.etag[4] \in stamps
        /\ row.modified = cache.etag[4] =>
              \/ cache.apart \/ row.modified \in shared
              \/ Settled(cache.body) = Settled(TaskToVTODO(row))

VTodoInv == Typed /\ Meant /\ Requests /\ Current

-----------------------------------------------------------------------------
(* Days, texts and due times. *)

(* The day of an instant is its midnight, which is an instant and not 0. *)
LEMMA DayOfInstant ==
    ASSUME NEW at \in Instants
    PROVE  DayOf(at) \in Instants /\ DayOf(DayOf(at)) = DayOf(at) /\ at # 0 /\ DayOf(at) # 0
<1>1. PICK d \in Days : at = Midnight(d) \/ at = Midday(d)
  BY DEF Instants
<1>2. d \in Nat /\ d # 0
  BY VTodoAssumption
<1>3. DayOf(at) = Midnight(d)
  BY <1>1, <1>2 DEF DayOf, Midnight, Midday
<1>4. DayOf(Midnight(d)) = Midnight(d)
  BY <1>2 DEF DayOf, Midnight
<1>5. Midnight(d) \in Instants
  BY DEF Instants
<1>6. at # 0 /\ Midnight(d) # 0
  BY <1>1, <1>2 DEF Midnight, Midday
<1> QED
  BY <1>3, <1>4, <1>5, <1>6

(* Escaping and reading back. *)
LEMMA TextOfSetText ==
    ASSUME NEW t \in Maybe(Texts)
    PROVE  /\ Text(SetText(t)) = t /\ SetText(t) \in Maybe(Words \X {1})
           /\ t # None => SetText(t) # None
<1>1. CASE t = None
  BY <1>1 DEF SetText, Text, Maybe
<1>2. CASE t # None
  <2>1. PICK w \in Words : t = <<w, 0>>
    BY <1>2 DEF Maybe, Texts, Plain
  <2>2. SetText(t) = <<w, 1>>
    BY <1>2, <2>1 DEF SetText
  <2>3. <<w, 1>> # None /\ <<w, 1>> \in Words \X {1}
    BY VTodoAssumption
  <2>4. Text(<<w, 1>>) = <<w, 0>>
    BY <2>3 DEF Text
  <2> QED
    BY <2>1, <2>2, <2>3, <2>4 DEF Maybe
<1> QED
  BY <1>1, <1>2

(* And from a VTODO to a column and back, nothing being no text either way. *)
LEMMA SetTextOfText ==
    ASSUME NEW v \in Maybe(Words \X {1})
    PROVE  /\ Text(v) \in Maybe(Texts) /\ (Text(v) = None <=> v = None)
           /\ SetText(Text(v)) = v
<1>1. CASE v = None
  BY <1>1 DEF SetText, Text, Maybe
<1>2. CASE v # None
  <2>1. PICK w \in Words : v = <<w, 1>>
    BY <1>2 DEF Maybe
  <2>2. Text(v) = <<w, 0>>
    BY <1>2, <2>1 DEF Text
  <2>3. <<w, 0>> # None /\ <<w, 0>> \in Texts
    BY VTodoAssumption DEF Texts, Plain
  <2>4. SetText(<<w, 0>>) = <<w, 1>>
    BY <2>3 DEF SetText
  <2> QED
    BY <1>2, <2>1, <2>2, <2>3, <2>4 DEF Maybe
<1> QED
  BY <1>1, <1>2

-----------------------------------------------------------------------------
(* What is served for a row. *)

(* DUE is set to the due time, or to its day, in the form that it had or that
   the setting asks for. *)
LEMMA SetDueTypes ==
    ASSUME NEW old \in Maybe(Dues), NEW at \in Instants
    PROVE  /\ SetDue(old, at) \in Dues
           /\ SetDue(old, at).at = IF SetDue(old, at).form = "DATE" THEN DayOf(at) ELSE at
           /\ mode = "preserve" /\ old # None => SetDue(old, at).form = old.form
<1> DEFINE f == CASE mode = "date_only" -> "DATE"
                  [] mode = "datetime" -> "DATE-TIME"
                  [] OTHER -> IF old = None THEN "DATE-TIME" ELSE old.form
<1>1. SetDue(old, at) = Due(f, at)
  BY DEF SetDue
<1>2. f \in {"DATE", "DATE-TIME"} /\ (mode = "preserve" /\ old # None => f = old.form)
  BY DEF Maybe, Dues
<1> HIDE DEF f
<1>3. Due(f, at).form = f /\ Due(f, at).at = (IF f = "DATE" THEN DayOf(at) ELSE at)
  BY DEF Due
<1>4. Due(f, at) \in Dues
  BY <1>2, DayOfInstant DEF Due, Dues
<1> QED
  BY <1>1, <1>2, <1>3, <1>4

(* The form and the day of a due time are settled by the first SetDue: a
   second one, with the due time of the first, or with the day of it where
   only days are kept, finds nothing to change. *)
LEMMA SetDueAgain ==
    ASSUME NEW due \in Dues, NEW at,
           at = IF mode = "date_only" THEN DayOf(due.at) ELSE due.at
    PROVE  SetDue(SetDue(due, at), SetDue(due, at).at) = SetDue(due, due.at)
<1>1. due.at \in Instants /\ due.form \in {"DATE", "DATE-TIME"} /\ due # None
  BY VTodoAssumption, BodyAssumption DEF Dues
<1>2. DayOf(DayOf(due.at)) = DayOf(due.at)
  BY <1>1, DayOfInstant
<1>3. at \in Instants
  BY <1>1, DayOfInstant
<1> DEFINE f == CASE mode = "date_only" -> "DATE"
                  [] mode = "datetime" -> "DATE-TIME"
                  [] OTHER -> due.form
<1>4. \A x : SetDue(due, x) = Due(f, x)
  BY <1>1 DEF SetDue
<1>5. f \in {"DATE", "DATE-TIME"} /\ (mode = "date_only" => f = "DATE")
  BY <1>1
<1>6. \A x : SetDue(Due(f, at), x) = Due(f, x)
  <2>1. Due(f, at) # None /\ Due(f, at).form = f
    <3>1. due \in Maybe(Dues)
      BY DEF Maybe
    <3>2. SetDue(due, at) \in Dues
      BY <3>1, <1>3, SetDueTypes
    <3> QED
      BY <1>4, <3>2, BodyAssumption DEF Due
  <2> QED
    BY <2>1 DEF SetDue
<1> HIDE DEF f
<1>7. Due(f, at).at = IF f = "DATE" THEN DayOf(at) ELSE at
  BY DEF Due
<1>8. Due(f, Due(f, at).at) = Due(f, due.at)
  BY <1>2, <1>5, <1>7 DEF Due
<1> QED
  BY <1>4, <1>6, <1>8

(* What is served for a row, field by field. *)
LEMMA ServedFields ==
    ASSUME NEW r \in Rows
    PROVE  LET v == TaskToVTODO(r)
               b == r.blob IN
           /\ v \in Vtodos
           /\ v.title = IF b # None /\ r.title = None THEN b.title ELSE SetText(r.title)
           /\ v.detail = IF b # None /\ r.detail = None THEN b.detail ELSE SetText(r.detail)
           /\ v.status = CalDAVStatus(r.status)
           /\ v.due = IF r.due = 0 THEN None
                      ELSE SetDue(IF b = None THEN None ELSE b.due, r.due)
           /\ v.url = IF b = None THEN r.links ELSE b.url
           /\ v.meta = IF b = None THEN None ELSE b.meta
           /\ v.extra = IF b = None THEN None ELSE b.extra
           /\ v.source = IF b = None THEN None ELSE b.source
<1>1. /\ r.title \in Maybe(Texts) /\ r.detail \in Maybe(Texts) /\ r.links \in Maybe(Urls)
      /\ r.due \in {0} \cup Instants /\ r.modified \in Maybe(Times)
      /\ r.blob \in Maybe(Vtodos)
  BY DEF Rows
<1>2. /\ SetText(r.title) \in Maybe(Words \X {1}) /\ SetText(r.detail) \in Maybe(Words \X {1})
  BY <1>1, TextOfSetText
<1>3. CalDAVStatus(r.status) \in Maybe({"COMPLETED", "NEEDS-ACTION", "IN-PROCESS"})
  BY DEF CalDAVStatus, Maybe
<1>4. CompletionTime(r) \in Maybe(Times)
  BY <1>1 DEF CompletionTime, Maybe
<1>5. \A old \in Maybe(Dues) :
         (IF r.due = 0 THEN None ELSE SetDue(old, r.due)) \in Maybe(Dues)
  <2>1. ASSUME NEW old \in Maybe(Dues), r.due # 0 PROVE SetDue(old, r.due) \in Dues
    BY <1>1, <2>1, SetDueTypes
  <2> QED
    BY <2>1 DEF Maybe
<1>6. CASE r.blob = None
  <2>1. TaskToVTODO(r) = FromFields(r)
    BY <1>6 DEF TaskToVTODO
  <2>2. None \in Maybe(Dues) /\ None \in Maybe(Words \X {1}) /\ None \in Maybe(Extras)
        /\ None \in Maybe(Sources)
    BY DEF Maybe
  <2>3. FromFields(r) \in Vtodos
    BY <1>1, <1>2, <1>3, <1>4, <1>5, <2>2 DEF FromFields, Vtodos
  <2> QED
    BY <1>6, <2>1, <2>3 DEF FromFields
<1>7. CASE r.blob # None
  <2>1. r.blob \in Vtodos
    BY <1>1, <1>7 DEF Maybe
  <2>2. TaskToVTODO(r) = FromBlob(r)
    BY <1>7 DEF TaskToVTODO
  <2>3. r.blob.due \in Maybe(Dues)
    BY <2>1 DEF Vtodos
  <2>4. FromBlob(r) \in Vtodos
    BY <1>2, <1>3, <1>4, <1>5, <2>1, <2>3 DEF FromBlob, Vtodos
  <2> QED
    BY <1>7, <2>1, <2>2, <2>4 DEF FromBlob, Vtodos
<1> QED
  BY <1>6, <1>7

(* What two VTODOs have to agree on for the client that knows how they are
   settled. *)
LEMMA SettledAlike ==
    ASSUME NEW u \in Vtodos, NEW v \in Vtodos,
           u.title = v.title, u.detail = v.detail, u.url = v.url, u.meta = v.meta,
           u.extra = v.extra, u.source = v.source,
           u.status = "COMPLETED" <=> v.status = "COMPLETED",
           u.due = None <=> v.due = None,
           u.due # None => SetDue(u.due, u.due.at) = SetDue(v.due, v.due.at)
    PROVE  Settled(u) = Settled(v)
<1> DEFINE S(x) == IF x = "COMPLETED" THEN x ELSE "NEEDS-ACTION"
           D(x) == IF x = None THEN x ELSE SetDue(x, x.at)
<1>1. \A w \in Vtodos : Settled(w) =
          [title |-> w.title, detail |-> w.detail, status |-> S(w.status),
           completed |-> None, due |-> D(w.due), url |-> w.url, meta |-> w.meta,
           extra |-> w.extra, source |-> w.source]
  <2> TAKE w \in Vtodos
  <2>1. w = [title |-> w.title, detail |-> w.detail, status |-> w.status,
             completed |-> w.completed, due |-> w.due, url |-> w.url, meta |-> w.meta,
             extra |-> w.extra, source |-> w.source]
    BY DEF Vtodos
  <2>2. Settled(w) = [[title |-> w.title, detail |-> w.detail, status |-> w.status,
             completed |-> w.completed, due |-> w.due, url |-> w.url, meta |-> w.meta,
             extra |-> w.extra, source |-> w.source]
               EXCEPT !.status = S(w.status), !.due = D(w.due), !.completed = None]
    BY <2>1 DEF Settled
  <2> QED
    BY <2>2
<1>2. S(u.status) = S(v.status) /\ D(u.due) = D(v.due)
  OBVIOUS
<1> HIDE DEF S, D
<1> QED
  BY <1>1, <1>2

(* What a statement adds to a row, the time and the status of a task that has
   none, is not what a client compares. *)
LEMMA StampedIsDerived ==
    ASSUME NEW r \in Rows, NEW q \in Rows, NEW v, Derived(r, v),
           q.title = r.title, q.detail = r.detail, q.due = r.due, q.links = r.links,
           q.blob = r.blob, CalDAVStatus(q.status) = CalDAVStatus(r.status)
    PROVE  Derived(q, v)
<1> SUFFICES ASSUME q.blob # None
             PROVE  Settled(TaskToVTODO(q)) = Settled(TaskToVTODO(r))
  BY DEF Derived
<1> DEFINE x == TaskToVTODO(q)
           y == TaskToVTODO(r)
<1>1. x \in Vtodos /\ y \in Vtodos
  BY ServedFields
<1>2. /\ x.title = y.title /\ x.detail = y.detail /\ x.url = y.url /\ x.meta = y.meta
      /\ x.extra = y.extra /\ x.source = y.source /\ x.status = y.status
      /\ x.due = y.due
  BY ServedFields
<1> HIDE DEF x, y
<1>3. Settled(x) = Settled(y)
  BY <1>1, <1>2, SettledAlike
<1> QED
  BY <1>3 DEF x, y

-----------------------------------------------------------------------------
(* What the requests make of a VTODO, of a row, and of what a device sends. *)

(* What a write without the blob loses, property by property. *)
LEMMA LostFields ==
    ASSUME NEW w
    PROVE  /\ LostBlob(w) \in SUBSET {"url", "form", "meta", "extra", "origin"}
           /\ LostSource(w) \in SUBSET {"source"}
           /\ "url" \in LostBlob(w) <=> w.url # w.links
           /\ "form" \in LostBlob(w) <=> w.form # "DATE-TIME"
           /\ "meta" \in LostBlob(w) <=> w.meta # None
           /\ "extra" \in LostBlob(w) <=> w.extra # None
           /\ "origin" \in LostBlob(w) <=> w.origin # None
           /\ "source" \in LostSource(w) <=> w.source # None
<1>1. DOMAIN BlobOnly(w) = {"url", "form", "meta", "extra", "origin"}
  BY DEF BlobOnly
<1>2. /\ BlobOnly(w)["url"] = w.links /\ BlobOnly(w)["form"] = "DATE-TIME"
      /\ BlobOnly(w)["meta"] = None /\ BlobOnly(w)["extra"] = None
      /\ BlobOnly(w)["origin"] = None
  BY DEF BlobOnly
<1> QED
  BY <1>1, <1>2 DEF LostBlob, LostSource

(* The row of a put, its blob kept or lost, is what the client meant by it;
   and where it is kept, the client is served what it put. *)
LEMMA PutFits ==
    ASSUME NEW v \in Vtodos, NEW blob \in {v, None}, NEW links \in Maybe(Urls)
    PROVE  LET r == [VTODOToTask(v, blob) EXCEPT !.links = links]
               w == MeantByVTODO(v, blob # None, links) IN
           /\ r \in Rows /\ w \in Wants /\ Fits(r, w)
           /\ Derived(r, v)
<1> DEFINE r == [VTODOToTask(v, blob) EXCEPT !.links = links]
           w == MeantByVTODO(v, blob # None, links)
           at == IF v.due = None THEN 0
                 ELSE IF mode = "date_only" THEN DayOf(v.due.at) ELSE v.due.at
<1>1. /\ v.title \in Maybe(Words \X {1}) /\ v.detail \in Maybe(Words \X {1})
      /\ v.status \in Maybe({"COMPLETED", "NEEDS-ACTION", "IN-PROCESS"})
      /\ v.completed \in Maybe(Times) /\ v.due \in Maybe(Dues) /\ v.url \in Maybe(Urls)
      /\ v.meta \in Maybe(Words \X {1}) /\ v.extra \in Maybe(Extras)
      /\ v.source \in Maybe(Sources) /\ v # None
  BY BodyAssumption DEF Vtodos
<1>2. /\ Text(v.title) \in Maybe(Texts) /\ Text(v.detail) \in Maybe(Texts)
      /\ Text(v.meta) \in Maybe(Texts)
      /\ (Text(v.title) = None <=> v.title = None)
      /\ (Text(v.detail) = None <=> v.detail = None)
      /\ SetText(Text(v.title)) = v.title /\ SetText(Text(v.detail)) = v.detail
  BY <1>1, SetTextOfText
<1>3. v.due # None => /\ v.due \in Dues /\ v.due.at \in Instants
                      /\ v.due.form \in {"DATE", "DATE-TIME"}
  BY <1>1 DEF Maybe, Dues
<1>4. at \in {0} \cup Instants /\ (at = 0 <=> v.due = None)
  BY <1>3, DayOfInstant
<1>5. /\ r.title = Text(v.title) /\ r.detail = Text(v.detail) /\ r.due = at
      /\ r.status = (IF v.status = None THEN None ELSE SupernoteStatus(v.status))
      /\ r.links = links /\ r.source = v.source /\ r.blob = blob
      /\ r.modified = (IF v.status = "COMPLETED" THEN v.completed ELSE None)
  BY DEF VTODOToTask
<1>6. r.status \in Maybe({"completed", "needsAction"})
  BY <1>5 DEF SupernoteStatus, Maybe
<1>7. r \in Rows
  <2>1. r.modified \in Maybe(Times) /\ r.blob \in Maybe(Vtodos)
    BY <1>1, <1>5 DEF Maybe
  <2>2. r = [title |-> r.title, detail |-> r.detail, status |-> r.status, due |-> r.due,
             links |-> r.links, source |-> r.source, blob |-> r.blob,
             modified |-> r.modified]
    BY DEF VTODOToTask
  <2> HIDE DEF r, at
  <2> QED
    BY <1>1, <1>2, <1>4, <1>5, <1>6, <2>1, <2>2 DEF Rows
<1> DEFINE full == [title |-> Text(v.title), detail |-> Text(v.detail),
              status |-> IF v.status = "COMPLETED" THEN "COMPLETED" ELSE "NEEDS-ACTION",
              at |-> at,
              form |-> IF v.due = None THEN "DATE-TIME" ELSE v.due.form,
              url |-> v.url, links |-> links, meta |-> Text(v.meta), extra |-> v.extra,
              origin |-> v.source, source |-> v.source, lost |-> {}]
           lost == IF blob # None THEN {} ELSE LostBlob(full)
<1>W. w = [full EXCEPT !.lost = lost]
  BY DEF MeantByVTODO
<1>L. /\ lost \in SUBSET {"url", "form", "meta", "extra", "origin", "source"}
      /\ blob = None => lost = LostBlob(full)
  BY LostFields
<1> HIDE DEF w
<1>8. /\ w.title = Text(v.title) /\ w.detail = Text(v.detail)
      /\ w.status = (IF v.status = "COMPLETED" THEN "COMPLETED" ELSE "NEEDS-ACTION")
      /\ w.at = at /\ w.links = links /\ w.source = v.source
      /\ w.form = (IF v.due = None THEN "DATE-TIME" ELSE v.due.form)
      /\ w.url = v.url /\ w.meta = Text(v.meta) /\ w.extra = v.extra
      /\ w.origin = v.source /\ w.lost = lost
  <2> HIDE DEF lost, at
  <2> QED
    BY <1>W
<1>9. w \in Wants
  <2>1. w = [title |-> w.title, detail |-> w.detail, status |-> w.status, at |-> w.at,
             form |-> w.form, url |-> w.url, links |-> w.links, meta |-> w.meta,
             extra |-> w.extra, origin |-> w.origin, source |-> w.source,
             lost |-> w.lost]
    <3> HIDE DEF lost, at
    <3> QED
      BY <1>W
  <2>2. w.form \in {"DATE", "DATE-TIME"}
    BY <1>3, <1>8
  <2> HIDE DEF lost, at
  <2> QED
    BY <1>1, <1>2, <1>4, <1>8, <1>L, <2>1, <2>2 DEF Wants, Maybe
<1>A. CalDAVStatus(r.status) = w.status
  BY <1>1, <1>5, <1>8, VTodoAssumption DEF CalDAVStatus, SupernoteStatus
<1>B. FitBlob(r.blob, w)
  <2> HIDE DEF r, at
  <2>1. CASE blob = None
    <3>1. /\ full.url = v.url /\ full.links = links /\ full.meta = Text(v.meta)
          /\ full.form = (IF v.due = None THEN "DATE-TIME" ELSE v.due.form)
          /\ full.extra = v.extra /\ full.origin = v.source
      OBVIOUS
    <3>2. w.lost = LostBlob(full)
      BY <2>1, <1>L, <1>8
    <3> HIDE DEF full, lost
    <3>3. /\ "url" \in w.lost <=> full.url # full.links
          /\ "form" \in w.lost <=> full.form # "DATE-TIME"
          /\ "meta" \in w.lost <=> full.meta # None
          /\ "extra" \in w.lost <=> full.extra # None
          /\ "origin" \in w.lost <=> full.origin # None
      BY <3>2, LostFields
    <3>4. r.blob = None
      BY <2>1, <1>5
    <3> QED
      BY <3>1, <3>3, <3>4, <1>8 DEF FitBlob
  <2>2. CASE blob # None
    <3>1. blob = v
      BY <2>2
    <3>2. w.form = "DATE" => v.due # None /\ v.due.form = "DATE"
      BY <1>8
    <3> QED
      BY <2>2, <3>1, <3>2, <1>2, <1>5, <1>8 DEF FitBlob
  <2> QED
    BY <2>1, <2>2
<1>C. Fits(r, w)
  <2> HIDE DEF r, w, at
  <2> QED
    BY <1>5, <1>8, <1>A, <1>B DEF Fits, FitColumns
<1>D. Derived(r, v)
  <2> HIDE DEF r, w, at
  <2> SUFFICES ASSUME blob # None PROVE Settled(TaskToVTODO(r)) = Settled(v)
    BY <1>5 DEF Derived
  <2> DEFINE x == TaskToVTODO(r)
  <2>1. r.blob = v /\ v # None
    BY <1>1, <1>5
  <2>2. /\ x \in Vtodos /\ x.title = v.title /\ x.detail = v.detail /\ x.url = v.url
        /\ x.meta = v.meta /\ x.extra = v.extra /\ x.source = v.source
        /\ x.status = CalDAVStatus(r.status)
        /\ x.due = (IF r.due = 0 THEN None ELSE SetDue(v.due, r.due))
    BY <1>2, <1>5, <1>7, <2>1, ServedFields
  <2>3. x.status = "COMPLETED" <=> v.status = "COMPLETED"
    BY <1>8, <1>A, <2>2
  <2>4. CASE v.due = None
    <3>1. x.due = None
      BY <1>4, <1>5, <2>2, <2>4
    <3> HIDE DEF x
    <3> QED
      BY <2>2, <2>3, <2>4, <3>1, SettledAlike DEF x
  <2>5. CASE v.due # None
    <3>1. v.due \in Dues /\ r.due # 0 /\ r.due \in Instants
      BY <1>3, <1>4, <1>5, <2>5
    <3>2. x.due = SetDue(v.due, r.due)
      BY <2>2, <3>1
    <3>3. r.due = IF mode = "date_only" THEN DayOf(v.due.at) ELSE v.due.at
      BY <1>5, <2>5 DEF at
    <3>4. SetDue(x.due, x.due.at) = SetDue(v.due, v.due.at)
      BY <3>1, <3>2, <3>3, SetDueAgain
    <3>5. x.due # None
      <4>1. v.due \in Maybe(Dues)
        BY <1>1
      <4>2. SetDue(v.due, r.due) \in Dues
        BY <3>1, <4>1, SetDueTypes
      <4> QED
        BY <3>2, <4>2, BodyAssumption
    <3> HIDE DEF x
    <3> QED
      BY <2>2, <2>3, <2>5, <3>4, <3>5, SettledAlike DEF x
  <2> QED
    BY <2>4, <2>5
<1> QED
  BY <1>7, <1>9, <1>C, <1>D DEF w

(* A patch of one field of the row, on what was meant of it at the time. *)
LEMMA PatchFits ==
    ASSUME NEW r \in Rows, r.status # None, NEW w \in Wants, Fits(r, w)
    PROVE  /\ \A t \in Texts : LET q == [r EXCEPT !.title = t]
                                   x == [w EXCEPT !.title = t] IN
                 q \in Rows /\ q.status # None /\ x \in Wants /\ Fits(q, x)
           /\ \A t \in Maybe(Texts) : LET q == [r EXCEPT !.detail = t]
                                          x == [w EXCEPT !.detail = t] IN
                 q \in Rows /\ q.status # None /\ x \in Wants /\ Fits(q, x)
           /\ \A at \in {0} \cup Instants : LET q == [r EXCEPT !.due = at]
                                                x == [w EXCEPT !.at = at] IN
                 q \in Rows /\ q.status # None /\ x \in Wants /\ Fits(q, x)
           /\ \A u \in Maybe(Urls) : LET q == [r EXCEPT !.links = u]
                                         x == [w EXCEPT !.links = u, !.url = u,
                                                        !.lost = @ \ {"url"}] IN
                 q \in Rows /\ q.status # None /\ x \in Wants /\ Fits(q, x)
           /\ LET q == [r EXCEPT !.status = "completed"]
                  x == [w EXCEPT !.status = "COMPLETED"] IN
                 q \in Rows /\ q.status # None /\ x \in Wants /\ Fits(q, x)
<1> USE DEF Fits, FitColumns, FitBlob
<1>1. ASSUME NEW t \in Texts
      PROVE  LET q == [r EXCEPT !.title = t]
                 x == [w EXCEPT !.title = t] IN
             q \in Rows /\ q.status # None /\ x \in Wants /\ Fits(q, x)
  <2>1. t # None
    BY VTodoAssumption DEF Texts, Plain
  <2> QED
    BY <2>1 DEF Rows, Wants, Maybe
<1>2. ASSUME NEW t \in Maybe(Texts)
      PROVE  LET q == [r EXCEPT !.detail = t]
                 x == [w EXCEPT !.detail = t] IN
             q \in Rows /\ q.status # None /\ x \in Wants /\ Fits(q, x)
  BY DEF Rows, Wants
<1>3. ASSUME NEW at \in {0} \cup Instants
      PROVE  LET q == [r EXCEPT !.due = at]
                 x == [w EXCEPT !.at = at] IN
             q \in Rows /\ q.status # None /\ x \in Wants /\ Fits(q, x)
  BY DEF Rows, Wants
<1>4. ASSUME NEW u \in Maybe(Urls)
      PROVE  LET q == [r EXCEPT !.links = u]
                 x == [w EXCEPT !.links = u, !.url = u,
                                                        !.lost = @ \ {"url"}] IN
             q \in Rows /\ q.status # None /\ x \in Wants /\ Fits(q, x)
  BY DEF Rows, Wants
<1>5. LET q == [r EXCEPT !.status = "completed"]
          x == [w EXCEPT !.status = "COMPLETED"] IN
      q \in Rows /\ q.status # None /\ x \in Wants /\ Fits(q, x)
  BY VTodoAssumption DEF Rows, Wants, Maybe, CalDAVStatus
<1> HIDE DEF Fits
<1> QED
  BY <1>1, <1>2, <1>3, <1>4, <1>5

(* The blob that metadata is set in keeps the rest, or is made of it alone. *)
LEMMA MergeFits ==
    ASSUME NEW r \in Rows, r.status # None, NEW w \in Wants, Fits(r, w),
           NEW m \in Maybe(Texts)
    PROVE  LET q == [r EXCEPT !.blob = Merge(@, m)]
               x == [w EXCEPT !.meta = m, !.lost = @ \ {"meta"}] IN
           q \in Rows /\ q.status # None /\ x \in Wants /\ Fits(q, x)
<1> DEFINE b == Merge(r.blob, m)
           q == [r EXCEPT !.blob = b]
           x == [w EXCEPT !.meta = m, !.lost = @ \ {"meta"}]
<1>1. /\ SetText(m) \in Maybe(Words \X {1}) /\ Text(SetText(m)) = m
  BY TextOfSetText
<1>2. r.blob \in Maybe(Vtodos)
  BY DEF Rows
<1>3. x \in Wants /\ x.meta = m /\ x.form = w.form /\ x.url = w.url /\ x.links = w.links
      /\ x.extra = w.extra /\ x.origin = w.origin /\ x.title = w.title
      /\ x.lost = w.lost \ {"meta"}
  BY DEF Wants
<1>4. b \in Maybe(Vtodos) /\ FitBlob(b, x)
  <2>1. CASE r.blob = None /\ m = None
    <3>1. b = None
      BY <2>1 DEF Merge, BuildBlob
    <3> QED
      BY <1>3, <2>1, <3>1 DEF Fits, FitBlob, Maybe
  <2>2. CASE r.blob = None /\ m # None
    <3>1. b = [title |-> None, detail |-> None, status |-> None, completed |-> None,
               due |-> None, url |-> None, meta |-> SetText(m), extra |-> None,
               source |-> None]
      BY <2>2 DEF Merge, BuildBlob
    <3>2. b \in Vtodos
      BY <1>1, <3>1 DEF Vtodos, Maybe
    <3> QED
      BY <1>1, <1>3, <2>2, <3>1, <3>2, BodyAssumption DEF Fits, FitBlob, Maybe
  <2>3. CASE r.blob # None
    <3>1. b = [r.blob EXCEPT !.meta = SetText(m)] /\ r.blob \in Vtodos
      BY <1>2, <2>3 DEF Merge, Maybe
    <3>2. b \in Vtodos
      BY <1>1, <3>1 DEF Vtodos
    <3>3. b # None /\ b.meta = SetText(m) /\ b.title = r.blob.title /\ b.url = r.blob.url
          /\ b.due = r.blob.due /\ b.extra = r.blob.extra /\ b.source = r.blob.source
      BY <3>1, <3>2, BodyAssumption DEF Vtodos
    <3> HIDE DEF b, x
    <3> QED
      BY <1>1, <1>3, <2>3, <3>2, <3>3 DEF Fits, FitBlob, Maybe
  <2> QED
    BY <2>1, <2>2, <2>3
<1> HIDE DEF b
<1>5. q \in Rows /\ q.status # None
  BY <1>4 DEF Rows
<1>6. FitColumns(q, x) /\ q.blob = b
  BY DEF Fits, FitColumns, Rows, Wants
<1>7. Fits(q, x)
  BY <1>4, <1>6 DEF Fits
<1> QED
  BY <1>3, <1>5, <1>7 DEF b

(* A task made of its columns, and an update of the device, which knows no more
   of a task: what had no column is lost. *)
LEMMA SPCFits ==
    ASSUME NEW s \in Copies
    PROVE  LET r == SPCToTask(s) IN
           /\ r \in Rows /\ r.status # None /\ r.modified = None
           /\ MeantByNew(s) \in Wants /\ Fits(r, MeantByNew(s))
           /\ MeantByNew(s).lost = {}
           /\ meant \in Wants => MeantBySPC(s) \in Wants /\ Fits(r, MeantBySPC(s))
<1>1. SPCToTask(s) \in Rows
  BY DEF SPCToTask, Copies, Rows, Maybe
<1>2. SPCToTask(s).status # None /\ SPCToTask(s).modified = None
  BY VTodoAssumption, <1>1 DEF SPCToTask, Copies
<1>3. MeantByNew(s) \in Wants /\ MeantByNew(s).lost = {}
  BY DEF MeantByNew, Copies, Wants, Maybe, CalDAVStatus
<1>4. Fits(SPCToTask(s), MeantByNew(s))
  BY DEF SPCToTask, MeantByNew, Fits, FitColumns, FitBlob
<1>5. ASSUME meant \in Wants PROVE MeantBySPC(s) \in Wants /\ Fits(SPCToTask(s), MeantBySPC(s))
  <2> DEFINE w == [meant EXCEPT !.title = s.title, !.detail = s.detail,
                                !.status = CalDAVStatus(s.status), !.at = s.due,
                                !.links = s.links,
                                !.url = IF @ = meant.links THEN s.links ELSE @]
  <2>1. /\ w \in Wants /\ w.title = s.title /\ w.detail = s.detail
        /\ w.status = CalDAVStatus(s.status) /\ w.at = s.due /\ w.links = s.links
    BY <1>5 DEF Copies, Wants, CalDAVStatus
  <2>2. MeantBySPC(s) = [w EXCEPT !.lost = LostBlob(w) \cup LostSource(w)]
    BY DEF MeantBySPC
  <2> HIDE DEF w
  <2>3. LostBlob(w) \cup LostSource(w)
            \in SUBSET {"url", "form", "meta", "extra", "origin", "source"}
    BY LostFields
  <2>4. PICK x, l : x = MeantBySPC(s) /\ l = LostBlob(w) \cup LostSource(w)
    OBVIOUS
  <2>5. x \in Wants
    BY <2>1, <2>2, <2>3, <2>4 DEF Wants
  <2>6. /\ x.title = w.title /\ x.detail = w.detail /\ x.status = w.status /\ x.at = w.at
        /\ x.links = w.links /\ x.url = w.url /\ x.form = w.form /\ x.meta = w.meta
        /\ x.extra = w.extra /\ x.origin = w.origin /\ x.source = w.source /\ x.lost = l
    BY <2>1, <2>2, <2>4 DEF Wants
  <2>7. FitColumns(SPCToTask(s), x)
    BY <2>1, <2>4, <2>6, LostFields DEF FitColumns, SPCToTask
  <2>8. FitBlob(SPCToTask(s).blob, x)
    BY <2>4, <2>6, LostFields DEF FitBlob, SPCToTask
  <2> QED
    BY <2>4, <2>5, <2>7, <2>8 DEF Fits
<1> QED
  BY <1>1, <1>2, <1>3, <1>4, <1>5

-----------------------------------------------------------------------------
(* What a statement does, and what it leaves of the rest. *)

(* Settling depends on the setting alone, which nothing changes. *)
LEMMA SettledKept ==
    ASSUME mode' = mode
    PROVE  /\ \A v : Settled(v)' = Settled(v)
           /\ \A r : TaskToVTODO(r)' = TaskToVTODO(r)
<1>1. \A o, at : SetDue(o, at)' = SetDue(o, at)
  BY DEF SetDue, Due, DayOf
<1>2. ASSUME NEW v PROVE Settled(v)' = Settled(v)
  <2>1. v.due # None => SetDue(v.due, v.due.at)' = SetDue(v.due, v.due.at)
    BY <1>1
  <2> QED
    BY <1>1, <2>1 DEF Settled
<1>3. ASSUME NEW r PROVE FromFields(r)' = FromFields(r)
  BY <1>1 DEF FromFields, CalDAVStatus, CompletionTime, SetText
<1>4. ASSUME NEW r PROVE FromBlob(r)' = FromBlob(r)
  BY <1>1 DEF FromBlob, CalDAVStatus, CompletionTime, SetText
<1>5. ASSUME NEW r PROVE TaskToVTODO(r)' = TaskToVTODO(r)
  BY <1>3, <1>4 DEF TaskToVTODO
<1> QED
  BY <1>2, <1>5

(* A request under way fits what it means whatever others write. *)
LEMMA CallKept ==
    ASSUME NEW c, CallFits(c), mode' = mode, Written => Written'
    PROVE  CallFits(c)'
<1>1. Derived(c.row, c.body) => Derived(c.row, c.body)'
  BY SettledKept DEF Derived
<1>2. Fits(c.row, c.want)' <=> Fits(c.row, c.want)
  BY DEF Fits, FitColumns, FitBlob, CalDAVStatus, Text
<1> QED
  BY <1>1, <1>2 DEF CallFits, Calls, Rows, Wants, Vtodos, Maybe, Texts, Plain, Times,
     Dues, Instants, Midnight, Midday

(* The store's own columns: a row as given, at a time, with a status. *)
LEMMA RowWritten ==
    ASSUME VTodoInv, mode' = mode, cache' = cache, clock' \in Times, copy' \in Maybe(Copies),
           writes' \in 0..MaxWrites, faults' \in 0..MaxFaults,
           NEW r \in Rows, r.status # None, NEW m \in Times, NEW w \in Wants, Fits(r, w),
           Stored(r, m, w)
    PROVE  /\ Typed' /\ Meant' /\ Current' /\ Written'
           /\ row' \in Rows
           /\ \A v : Derived(r, v) => Derived(row', v)
<1>1. /\ row' = [r EXCEPT !.modified = m] /\ meant' = w /\ stamps' = stamps \cup {m}
      /\ shared' = IF m \in stamps THEN shared \cup {m} ELSE shared
  BY DEF Stored
<1>2. /\ row' \in Rows /\ row'.modified = m /\ row'.status = r.status
      /\ row'.title = r.title /\ row'.detail = r.detail /\ row'.due = r.due
      /\ row'.links = r.links /\ row'.source = r.source /\ row'.blob = r.blob
  BY <1>1 DEF Rows, Maybe
<1>3. Written' /\ m \in stamps' /\ stamps' \subseteq Times /\ shared' \subseteq stamps'
  BY <1>1 DEF Written, VTodoInv, Typed
<1>4. Typed'
  BY <1>1, <1>2, <1>3 DEF VTodoInv, Typed, Rows, Wants, Copies, Vtodos, Maybe, Times,
     Texts, Plain, Dues, Instants, Midnight, Midday
<1>5. Fits(row', w)
  BY <1>2 DEF Fits, FitColumns
<1>6. Meant'
  BY <1>1, <1>5 DEF Meant, Fits, FitColumns, FitBlob, CalDAVStatus, Text
<1>7. Current'
  BY <1>1, <1>2 DEF Current, VTodoInv
<1>8. ASSUME NEW v, Derived(r, v) PROVE Derived(row', v)
  BY <1>2, <1>8, StampedIsDerived
<1> QED
  BY <1>2, <1>3, <1>4, <1>6, <1>7, <1>8

(* A step that leaves the row alone. *)
LEMMA RowKept ==
    ASSUME VTodoInv, UNCHANGED <<mode, row, history>>, clock' \in Times,
           copy' \in Maybe(Copies), writes' \in 0..MaxWrites, faults' \in 0..MaxFaults,
           cache' # None => /\ cache'.body \in Vtodos /\ cache'.etag[4] \in stamps
                            /\ row.modified = cache'.etag[4] =>
                                  \/ cache'.apart \/ row.modified \in shared
                                  \/ Settled(cache'.body) = Settled(TaskToVTODO(row))
    PROVE  Typed' /\ Meant' /\ Current'
<1>1. stamps' = stamps /\ shared' = shared /\ meant' = meant /\ row' = row
  BY DEF history
<1>2. Typed'
  BY <1>1 DEF VTodoInv, Typed, Written, Rows, Wants, Copies, Vtodos, Maybe, Times,
     Texts, Plain, Dues, Instants, Midnight, Midday
<1>3. Meant'
  BY <1>1 DEF VTodoInv, Meant, Written, Fits, FitColumns, FitBlob, CalDAVStatus, Text
<1>4. Current'
  BY <1>1, SettledKept DEF Current
<1> QED
  BY <1>2, <1>3, <1>4

(* The same when the client has what it had. *)
LEMMA RowAndCacheKept ==
    ASSUME VTodoInv, UNCHANGED <<mode, row, history, cache>>, clock' \in Times,
           copy' \in Maybe(Copies), writes' \in 0..MaxWrites, faults' \in 0..MaxFaults
    PROVE  Typed' /\ Meant' /\ Current'
<1>1. cache' # None =>
         /\ cache'.body \in Vtodos /\ cache'.etag[4] \in stamps
         /\ row.modified = cache'.etag[4] =>
               \/ cache'.apart \/ row.modified \in shared
               \/ Settled(cache'.body) = Settled(TaskToVTODO(row))
  BY DEF VTodoInv, Typed, Current
<1> QED
  BY <1>1, RowKept

(* The requests under way, when none is begun, and when one is. *)
LEMMA RequestsKept ==
    ASSUME VTodoInv, mode' = mode, Written => Written',
           \A c \in calls' \ calls : CallFits(c)'
    PROVE  Requests'
<1>1. \A c \in calls : CallFits(c)'
  BY CallKept DEF VTodoInv, Requests
<1> QED
  BY <1>1 DEF Requests

-----------------------------------------------------------------------------
(* One action at a time. *)

(* The counters stay within their bounds. *)
LEMMA Bounds ==
    ASSUME Typed
    PROVE  /\ Request => writes' \in 0..MaxWrites /\ faults' \in 0..MaxFaults
           /\ UNCHANGED bounds => writes' \in 0..MaxWrites /\ faults' \in 0..MaxFaults
           /\ clock \in Times /\ copy \in Maybe(Copies)
<1>1. /\ writes \in 0..MaxWrites /\ faults \in 0..MaxFaults /\ MaxWrites \in Nat
      /\ clock \in Times /\ copy \in Maybe(Copies)
  BY VTodoAssumption DEF Typed
<1> QED
  BY <1>1 DEF Request, bounds

(* Time passes. *)
LEMMA TickStep ==
    ASSUME VTodoInv, Tick
    PROVE  VTodoInv'
<1>1. clock' \in Times
  BY VTodoAssumption DEF VTodoInv, Typed, Tick, Times
<1>2. Typed' /\ Meant' /\ Current'
  BY <1>1, Bounds, RowAndCacheKept DEF VTodoInv, Tick
<1>3. Requests'
  BY RequestsKept DEF Tick, Written, history
<1> QED
  BY <1>2, <1>3 DEF VTodoInv

(* The client is served what the row and its blob make at the moment. *)
LEMMA GetCalendarObjectStep ==
    ASSUME VTodoInv, GetCalendarObject
    PROVE  VTodoInv'
<1>1. row \in Rows /\ row.modified \in stamps
  BY DEF VTodoInv, Typed, GetCalendarObject
<1>2. TaskToVTODO(row) \in Vtodos
  BY <1>1, ServedFields
<1>3. cache'.body = TaskToVTODO(row) /\ cache'.etag[4] = row.modified
  BY DEF GetCalendarObject, ETag
<1>4. Typed' /\ Meant' /\ Current'
  BY <1>1, <1>2, <1>3, Bounds, RowKept DEF VTodoInv, GetCalendarObject
<1>5. Requests'
  BY RequestsKept DEF GetCalendarObject, Written, history
<1> QED
  BY <1>4, <1>5 DEF VTodoInv

(* What a client puts is a VTODO. *)
LEMMA PutsAreVtodos ==
    ASSUME VTodoInv
    PROVE  Bodies \cup Edits \subseteq Vtodos
<1>1. Bodies \subseteq Vtodos
  BY BodyAssumption
<1>2. ASSUME cache # None PROVE Edits \subseteq Vtodos
  <2>1. cache.body \in Vtodos
    BY <1>2 DEF VTodoInv, Typed
  <2>2. ASSUME NEW t \in Maybe(Texts)
        PROVE  [cache.body EXCEPT !.detail = SetText(t)] \in Vtodos
    <3>1. SetText(t) \in Maybe(Words \X {1})
      BY TextOfSetText
    <3> QED
      BY <2>1, <3>1 DEF Vtodos
  <2>3. ASSUME NEW s \in {"COMPLETED", "IN-PROCESS"}
        PROVE  [cache.body EXCEPT !.status = s] \in Vtodos
    BY <2>1 DEF Vtodos, Maybe
  <2>4. ASSUME NEW d \in Days
        PROVE  [cache.body EXCEPT !.due = Due("DATE", Midnight(d))] \in Vtodos
    <3>1. Midnight(d) \in Instants
      BY DEF Instants
    <3>2. Due("DATE", Midnight(d)) \in Dues
      BY <3>1, DayOfInstant DEF Due, Dues
    <3> QED
      BY <2>1, <3>2 DEF Vtodos, Maybe
  <2> QED
    BY <1>2, <2>2, <2>3, <2>4 DEF Edits
<1> QED
  BY <1>1, <1>2 DEF Edits

(* A put begins with a row that fits what its VTODO means, whichever of Create
   and Update it will be and whether or not it can be encoded. *)
LEMMA PutCalendarObjectStep ==
    ASSUME VTodoInv, NEW v \in Vtodos, PutCalendarObject(v)
    PROVE  VTodoInv'
<1>1. PICK blob \in {v, None} :
         /\ faults' = IF blob = None THEN faults + 1 ELSE faults
         /\ faults' <= MaxFaults
         /\ calls' = calls \cup
               {[op |-> IF row = None THEN "create" ELSE "put",
                 row |-> Carried(VTODOToTask(v, blob)), body |-> v,
                 want |-> MeantByVTODO(v, blob # None,
                             IF row = None THEN None ELSE row.links)]}
  BY DEF PutCalendarObject
<1> DEFINE links == IF row = None THEN None ELSE row.links
           r == [VTODOToTask(v, blob) EXCEPT !.links = links]
           w == MeantByVTODO(v, blob # None, links)
           call == [op |-> IF row = None THEN "create" ELSE "put",
                    row |-> r, body |-> v, want |-> w]
<1>2. links \in Maybe(Urls)
  BY DEF VTodoInv, Typed, Rows, Maybe
<1>3. Carried(VTODOToTask(v, blob)) = r
  BY DEF Carried, VTODOToTask
<1>4. calls' = calls \cup {call}
  BY <1>1, <1>3
<1> HIDE DEF links
<1>5. r \in Rows /\ w \in Wants /\ Fits(r, w) /\ Derived(r, v)
  BY <1>2, PutFits
<1> HIDE DEF r, w
<1>6. CallFits(call)
  BY <1>5 DEF CallFits, Calls, Maybe
<1> HIDE DEF call
<1>7. mode' = mode /\ (Written => Written')
  BY DEF PutCalendarObject, Written, history
<1>8. PICK c : calls' = calls \cup {c} /\ CallFits(c)
  BY <1>4, <1>6
<1>9. Requests'
  BY <1>7, <1>8, CallKept, RequestsKept
<1>A. writes' \in 0..MaxWrites /\ faults' \in 0..MaxFaults
  BY <1>1, VTodoAssumption DEF VTodoInv, Typed, PutCalendarObject
<1>B. Typed' /\ Meant' /\ Current'
  BY <1>A, Bounds, RowAndCacheKept DEF VTodoInv, PutCalendarObject
<1> QED
  BY <1>9, <1>B DEF VTodoInv

(* The answer to a put that kept its blob, and that nobody came after, is
   served as the VTODO that was put. *)
LEMMA AnswerStep ==
    ASSUME VTodoInv, NEW c \in calls, Answer(c)
    PROVE  VTodoInv'
<1>1. CallFits(c) /\ c.op = "answer"
  BY DEF VTodoInv, Requests, Answer
<1>2. Written /\ row.modified \in stamps
  BY <1>1 DEF VTodoInv, Typed, CallFits
<1>3. /\ cache'.body = c.body /\ cache'.etag[4] = row.modified
      /\ cache'.apart = (c.row # row \/ c.row.blob = None)
  BY DEF Answer, ETag
<1>4. c.body \in Vtodos /\ Derived(c.row, c.body)
  BY <1>1 DEF CallFits
<1>5. cache'.apart \/ Settled(cache'.body) = Settled(TaskToVTODO(row))
  BY <1>3, <1>4 DEF Derived
<1>6. Typed' /\ Meant' /\ Current'
  BY <1>2, <1>3, <1>4, <1>5, Bounds, RowKept DEF VTodoInv, Answer
<1>7. Requests'
  BY RequestsKept DEF Answer, Written, history
<1> QED
  BY <1>6, <1>7 DEF VTodoInv

(* A new task of the web UI or of a tool, with its metadata in a blob. *)
LEMMA CreateStep ==
    ASSUME VTodoInv, NEW t \in Texts, NEW u \in Maybe(Urls), NEW m \in Maybe(Texts),
           Create(t, u, m)
    PROVE  VTodoInv'
<1> DEFINE s == [title |-> t, detail |-> None, status |-> "needsAction", due |-> 0,
                 links |-> u]
           r == [SPCToTask(s) EXCEPT !.blob = BuildBlob(m)]
           w == [MeantByNew(s) EXCEPT !.meta = m]
<1>1. Insert(r, w) /\ Request /\ UNCHANGED <<mode, clock, calls, cache, copy>>
  BY DEF Create
<1>2. s \in Copies
  BY DEF Copies, Maybe
<1>3. /\ SPCToTask(s) \in Rows /\ SPCToTask(s).status # None /\ MeantByNew(s) \in Wants
      /\ Fits(SPCToTask(s), MeantByNew(s)) /\ SPCToTask(s).modified = None
      /\ MeantByNew(s).lost = {}
  BY <1>2, SPCFits
<1>4. SPCToTask(s).blob = None
  BY DEF SPCToTask
<1> HIDE DEF s
<1>5. Merge(SPCToTask(s).blob, m) = BuildBlob(m)
  BY <1>4 DEF Merge
<1>6. r \in Rows /\ r.status # None /\ w \in Wants /\ Fits(r, w)
  <2>1. w = [MeantByNew(s) EXCEPT !.meta = m, !.lost = @ \ {"meta"}]
    BY <1>3 DEF Wants
  <2> QED
    BY <1>3, <1>5, <2>1, MergeFits
<1>7. r.modified = None
  BY <1>3 DEF Rows
<1> HIDE DEF r, w
<1>8. Stored(r, clock, w)
  <2>1. [r EXCEPT !.status = IF @ = None THEN "needsAction" ELSE @] = r
    BY <1>6 DEF Rows
  <2> QED
    BY <1>1, <1>7, <2>1 DEF Insert
<1>9. PICK q \in Rows, x \in Wants : q.status # None /\ Fits(q, x) /\ Stored(q, clock, x)
  BY <1>6, <1>8
<1>A. clock \in Times /\ clock' \in Times /\ copy' \in Maybe(Copies)
      /\ writes' \in 0..MaxWrites /\ faults' \in 0..MaxFaults
  BY <1>1, Bounds DEF VTodoInv
<1>B. PICK at \in Times : Stored(q, at, x)
  BY <1>9, <1>A
<1>C. Typed' /\ Meant' /\ Current' /\ Written'
  BY <1>1, <1>9, <1>A, <1>B, RowWritten
<1>D. Requests'
  BY <1>1, <1>C, RequestsKept
<1> QED
  BY <1>C, <1>D DEF VTodoInv

(* What the device sends is stored with no blob, and is what it is said to
   mean. *)
LEMMA DeviceWriteStep ==
    ASSUME VTodoInv, NEW s \in Copies, Request, copy' = s,
           UNCHANGED <<mode, clock, calls, cache>>,
           NEW want \in Wants, Fits(SPCToTask(s), want),
           Stored(SPCToTask(s), clock, want)
    PROVE  VTodoInv'
<1>1. SPCToTask(s) \in Rows /\ SPCToTask(s).status # None
  BY SPCFits
<1>2. clock \in Times /\ clock' \in Times /\ writes' \in 0..MaxWrites
      /\ faults' \in 0..MaxFaults
  BY Bounds DEF VTodoInv
<1>3. copy' \in Maybe(Copies)
  BY DEF Maybe
<1>4. PICK q \in Rows, x \in Wants, at \in Times :
         q.status # None /\ Fits(q, x) /\ Stored(q, at, x)
  BY <1>1, <1>2
<1>5. Typed' /\ Meant' /\ Current' /\ Written'
  BY <1>2, <1>3, <1>4, RowWritten
<1>6. Requests'
  BY <1>5, RequestsKept
<1> QED
  BY <1>5, <1>6 DEF VTodoInv

(* A new task of the device. *)
LEMMA TaskCreateStep ==
    ASSUME VTodoInv, NEW t \in Texts, TaskCreate(t)
    PROVE  VTodoInv'
<1> DEFINE s == [title |-> t, detail |-> None, status |-> "needsAction", due |-> 0,
                 links |-> None]
<1>1. s \in Copies
  BY DEF Copies, Maybe
<1>2. Insert(SPCToTask(s), MeantByNew(s)) /\ Request /\ copy' = s
      /\ UNCHANGED <<mode, clock, calls, cache>>
  BY DEF TaskCreate
<1> HIDE DEF s
<1>3. Stored(SPCToTask(s), clock, MeantByNew(s))
  <2>1. SPCToTask(s) \in Rows /\ SPCToTask(s).status # None /\ SPCToTask(s).modified = None
    BY <1>1, SPCFits
  <2>2. [SPCToTask(s) EXCEPT !.status = IF @ = None THEN "needsAction" ELSE @]
            = SPCToTask(s)
    BY <2>1 DEF Rows
  <2> QED
    BY <1>2, <2>1, <2>2 DEF Insert
<1>4. PICK w \in Wants : Fits(SPCToTask(s), w) /\ Stored(SPCToTask(s), clock, w)
  BY <1>1, <1>3, SPCFits
<1> QED
  BY <1>1, <1>2, <1>4, DeviceWriteStep

(* The device sends the copy it has, changed. *)
LEMMA TaskUpdateStep ==
    ASSUME VTodoInv, NEW s \in Copies, TaskUpdate(s)
    PROVE  VTodoInv'
<1>1. /\ row # None /\ Stored(SPCToTask(s), clock, MeantBySPC(s)) /\ Request /\ copy' = s
      /\ UNCHANGED <<mode, clock, calls, cache>>
  BY DEF TaskUpdate, Update
<1>2. meant \in Wants
  BY <1>1 DEF VTodoInv, Typed
<1>3. PICK w \in Wants : Fits(SPCToTask(s), w) /\ Stored(SPCToTask(s), clock, w)
  BY <1>1, <1>2, SPCFits
<1> QED
  BY <1>1, <1>3, DeviceWriteStep

(* The device is told the columns. *)
LEMMA TaskGetStep ==
    ASSUME VTodoInv, TaskGet
    PROVE  VTodoInv'
<1>1. TaskToSPC(row) \in Copies
  BY DEF VTodoInv, Typed, TaskGet, TaskToSPC, Rows, Copies, Maybe
<1>2. copy' \in Maybe(Copies)
  BY <1>1 DEF TaskGet, Maybe
<1>3. Typed' /\ Meant' /\ Current'
  BY <1>2, Bounds, RowAndCacheKept DEF VTodoInv, TaskGet
<1>4. Requests'
  BY RequestsKept DEF TaskGet, Written, history
<1> QED
  BY <1>3, <1>4 DEF VTodoInv

(* A request of the web UI or of a tool, with a row that fits. *)
LEMMA BeginStep ==
    ASSUME VTodoInv, NEW r \in Rows, r.status # None, NEW w \in Wants, Fits(r, w),
           Begin(r, w)
    PROVE  VTodoInv'
<1>1. mode' = mode /\ (Written => Written')
  BY DEF Begin, Written, history
<1>2. PICK c : calls' = calls \cup {c} /\ CallFits(c)
  <2> DEFINE call == [op |-> "patch", row |-> r, body |-> None, want |-> w]
  <2>1. CallFits(call) /\ calls' = calls \cup {call}
    BY DEF CallFits, Calls, Begin, Maybe
  <2> HIDE DEF call
  <2> QED
    BY <2>1
<1>3. Requests'
  BY <1>1, <1>2, CallKept, RequestsKept
<1>4. Typed' /\ Meant' /\ Current'
  BY Bounds, RowAndCacheKept DEF VTodoInv, Begin
<1> QED
  BY <1>3, <1>4 DEF VTodoInv

(* The patches of one field, and the completion, each on the row as read. *)
LEMMA PatchStep ==
    ASSUME VTodoInv,
           \/ \E t \in Texts : PatchTitle(t)
           \/ \E t \in Maybe(Texts) : PatchDetail(t) \/ PatchMeta(t)
           \/ \E at \in {0} \cup Instants : PatchDue(at)
           \/ \E u \in Maybe(Urls) : PatchURL(u)
           \/ Complete
    PROVE  VTodoInv'
<1>1. PICK r \in Rows, w \in Wants :
         r.status # None /\ Fits(r, w) /\ row = r /\ meant = w
  BY DEF PatchTitle, PatchDetail, PatchMeta, PatchDue, PatchURL, Complete, VTodoInv,
     Typed, Meant
<1>2. CASE \E t \in Texts : PatchTitle(t)
  BY <1>1, <1>2, PatchFits, BeginStep DEF PatchTitle
<1>3. CASE \E t \in Maybe(Texts) : PatchDetail(t)
  BY <1>1, <1>3, PatchFits, BeginStep DEF PatchDetail
<1>4. CASE \E t \in Maybe(Texts) : PatchMeta(t)
  BY <1>1, <1>4, MergeFits, BeginStep DEF PatchMeta
<1>5. CASE \E at \in {0} \cup Instants : PatchDue(at)
  BY <1>1, <1>5, PatchFits, BeginStep DEF PatchDue
<1>6. CASE \E u \in Maybe(Urls) : PatchURL(u)
  BY <1>1, <1>6, PatchFits, BeginStep DEF PatchURL
<1>7. CASE Complete
  BY <1>1, <1>7, PatchFits, BeginStep DEF Complete
<1> QED
  BY <1>2, <1>3, <1>4, <1>5, <1>6, <1>7

(* The write of a request stores what it means, and what a put has stored is
   served as the VTODO that was put. *)
LEMMA FinishStep ==
    ASSUME VTodoInv, NEW c \in calls, Finish(c)
    PROVE  VTodoInv'
<1>1. CallFits(c)
  BY DEF VTodoInv, Requests
<1>2. /\ mode' = mode /\ cache' = cache /\ clock' \in Times /\ copy' \in Maybe(Copies)
      /\ writes' \in 0..MaxWrites /\ faults' \in 0..MaxFaults /\ clock \in Times
  BY Bounds DEF VTodoInv, Finish
<1>3. CASE calls' = calls \ {c} /\ UNCHANGED <<row, history>>
  <2>1. Typed' /\ Meant' /\ Current'
    BY <1>2, <1>3, RowAndCacheKept
  <2>2. Requests'
    BY <1>2, <1>3, RequestsKept DEF Written, history
  <2> QED
    BY <2>1, <2>2 DEF VTodoInv
<1>4. CASE /\ IF c.op = "create" THEN Insert(c.row, c.want) ELSE Update(c.row, c.want)
           /\ c.op # "answer"
           /\ calls' = (calls \ {c}) \cup
                 (IF c.op = "patch" THEN {} ELSE {[c EXCEPT !.op = "answer", !.row = row']})
  <2> DEFINE filled == [c.row EXCEPT !.status = IF @ = None THEN "needsAction" ELSE @]
  <2>1. /\ c.row \in Rows /\ c.want \in Wants /\ Fits(c.row, c.want)
        /\ c.op # "patch" => Derived(c.row, c.body) /\ c.body \in Vtodos
    BY <1>1, <1>4 DEF CallFits, Calls
  <2>2. \E r \in Rows, m \in Times :
            /\ r.status # None /\ Fits(r, c.want) /\ Stored(r, m, c.want)
            /\ c.op # "patch" => Derived(r, c.body)
    <3>1. CASE c.op = "create"
      <4>1. /\ filled \in Rows /\ filled.status # None
            /\ filled.title = c.row.title /\ filled.detail = c.row.detail
            /\ filled.due = c.row.due /\ filled.links = c.row.links
            /\ filled.source = c.row.source /\ filled.blob = c.row.blob
            /\ CalDAVStatus(filled.status) = CalDAVStatus(c.row.status)
        BY <2>1, VTodoAssumption DEF Rows, Maybe, CalDAVStatus
      <4>2. PICK m \in Times : Stored(filled, m, c.want)
        <5>1. c.row.modified \in Maybe(Times)
          BY <2>1 DEF Rows
        <5>2. (IF c.row.modified = None THEN clock ELSE c.row.modified) \in Times
          BY <1>2, <5>1 DEF Maybe
        <5> HIDE DEF filled
        <5> QED
          BY <1>4, <3>1, <5>2 DEF Insert, filled
      <4> HIDE DEF filled
      <4>3. Fits(filled, c.want)
        BY <2>1, <4>1 DEF Fits, FitColumns
      <4>4. Derived(filled, c.body)
        BY <2>1, <3>1, <4>1, StampedIsDerived
      <4> QED
        BY <4>1, <4>2, <4>3, <4>4
    <3>2. CASE c.op # "create"
      BY <1>2, <1>4, <2>1, <3>2 DEF Update
    <3> QED
      BY <3>1, <3>2
  <2>3. PICK r \in Rows, m \in Times :
            /\ r.status # None /\ Fits(r, c.want) /\ Stored(r, m, c.want)
            /\ c.op # "patch" => Derived(r, c.body)
    BY <2>2
  <2>4. /\ Typed' /\ Meant' /\ Current' /\ Written' /\ row' \in Rows
        /\ c.op # "patch" => Derived(row', c.body)
    BY <1>2, <2>1, <2>3, RowWritten
  <2>5. PICK q \in Rows : q = row'
    BY <2>4
  <2>6. ASSUME c.op # "patch" PROVE CallFits([c EXCEPT !.op = "answer", !.row = q])'
    <3> DEFINE a == [c EXCEPT !.op = "answer", !.row = q]
    <3>1. a \in Calls /\ a.op = "answer" /\ a.row = q /\ a.body = c.body
      BY <1>1 DEF CallFits, Calls
    <3> HIDE DEF a
    <3>2. Derived(q, c.body) /\ c.body \in Vtodos
      BY <2>1, <2>4, <2>5, <2>6
    <3>3. Derived(q, c.body)'
      BY <1>2, <3>2, SettledKept DEF Derived
    <3>4. CallFits(a)'
      BY <2>4, <3>1, <3>2, <3>3 DEF CallFits, Calls, Rows, Wants, Vtodos, Maybe, Texts,
         Plain, Times, Dues, Instants, Midnight, Midday
    <3> QED
      BY <3>4 DEF a
  <2>7. Requests'
    BY <1>2, <1>4, <2>4, <2>5, <2>6, RequestsKept
  <2> QED
    BY <2>4, <2>7 DEF VTodoInv
<1> QED
  BY <1>3, <1>4 DEF Finish

(* The row fits what was last meant, every request is about to store what it
   means, and the copy of the client is current, or of an older write, or one of
   the known exceptions: at every step of any run. *)
THEOREM VTodoInvariant == Spec => []VTodoInv
<1>1. Init => VTodoInv
  BY VTodoAssumption DEF Init, VTodoInv, Typed, Meant, Requests, Current, Written, Times, Maybe
<1>2. VTodoInv /\ [Next]_vars => VTodoInv'
  <2> SUFFICES ASSUME VTodoInv, [Next]_vars PROVE VTodoInv'
    OBVIOUS
  <2>1. CASE Tick
    BY <2>1, TickStep
  <2>2. CASE GetCalendarObject
    BY <2>2, GetCalendarObjectStep
  <2>3. CASE \E v \in Bodies \cup Edits : PutCalendarObject(v)
    <3>1. PICK v \in Vtodos : PutCalendarObject(v)
      BY <2>3, PutsAreVtodos
    <3> QED
      BY <3>1, PutCalendarObjectStep
  <2>4. CASE \E c \in calls : Finish(c) \/ Answer(c)
    <3>1. PICK c : c \in calls /\ (Finish(c) \/ Answer(c))
      BY <2>4
    <3> QED
      BY <3>1, FinishStep, AnswerStep
  <2>5. CASE \E t \in Texts, u \in Maybe(Urls), m \in Maybe(Texts) : Create(t, u, m)
    BY <2>5, CreateStep
  <2>6. CASE \/ \E t \in Texts : PatchTitle(t)
             \/ \E t \in Maybe(Texts) : PatchDetail(t) \/ PatchMeta(t)
             \/ \E at \in {0} \cup Instants : PatchDue(at)
             \/ \E u \in Maybe(Urls) : PatchURL(u)
             \/ Complete
    BY <2>6, PatchStep
  <2>7. CASE \E t \in Texts : TaskCreate(t)
    BY <2>7, TaskCreateStep
  <2>8. CASE TaskGet
    BY <2>8, TaskGetStep
  <2>9. CASE /\ copy # None
             /\ \/ \E t \in Texts : TaskUpdate([copy EXCEPT !.title = t])
                \/ \E at \in {0} \cup Instants : TaskUpdate([copy EXCEPT !.due = at])
                \/ TaskUpdate([copy EXCEPT !.status = "completed"])
    <3>1. copy \in Copies
      BY <2>9 DEF VTodoInv, Typed, Maybe
    <3>2. /\ \A t \in Texts : [copy EXCEPT !.title = t] \in Copies
          /\ \A at \in {0} \cup Instants : [copy EXCEPT !.due = at] \in Copies
          /\ [copy EXCEPT !.status = "completed"] \in Copies
      BY <3>1 DEF Copies, Maybe
    <3>3. PICK s \in Copies : TaskUpdate(s)
      BY <2>9, <3>2
    <3> QED
      BY <3>3, TaskUpdateStep
  <2>A. CASE UNCHANGED vars
    <3>1. /\ UNCHANGED <<mode, row, history, cache, calls>>
          /\ clock' = clock /\ copy' = copy /\ UNCHANGED bounds
      BY <2>A DEF vars
    <3>2. Typed' /\ Meant' /\ Current'
      BY <3>1, Bounds, RowAndCacheKept DEF VTodoInv
    <3>3. Requests'
      BY <3>1, RequestsKept DEF Written, history
    <3> QED
      BY <3>2, <3>3 DEF VTodoInv
  <2> QED
    BY <2>1, <2>2, <2>3, <2>4, <2>5, <2>6, <2>7, <2>8, <2>9, <2>A DEF Next
<1> QED
  BY <1>1, <1>2, PTL DEF Spec

(* The shape of the state: however often a text goes back and forth between
   columns and VTODOs, it is escaped as often as it should be. *)
THEOREM VTodoTypeCorrect == Spec => []TypeOK
<1>1. VTodoInv => TypeOK
  <2> SUFFICES ASSUME VTodoInv PROVE TypeOK
    OBVIOUS
  <2>1. row # None => TaskToSPC(row) \in Copies
    BY DEF VTodoInv, Typed, TaskToSPC, Rows, Copies, Maybe
  <2>2. row # None => row.blob \in Maybe(Vtodos) /\ row.source \in Maybe(Sources)
                      /\ row.modified \in stamps
    BY DEF VTodoInv, Typed, Rows
  <2>3. \A c \in calls : c.op \in {"create", "put", "patch", "answer"}
    BY DEF VTodoInv, Requests, CallFits, Calls
  <2> QED
    BY <2>1, <2>2, <2>3 DEF VTodoInv, Typed, TypeOK
<1> QED
  BY <1>1, VTodoInvariant, PTL

(* A client is served each property as it was last written, by whomever,
   taskToVTODOFromBlob and MergeBlobMetadataPatch included; except for a cleared
   description, a URL set outside, and what was only in a blob that an update of
   the device or a put that cannot be encoded did not write (meant.lost), as
   ServedAsMeant says. *)
THEOREM ServedAsMeantHolds == Spec => []ServedAsMeant
<1>1. VTodoInv => ServedAsMeant
  <2> SUFFICES ASSUME VTodoInv, row # None PROVE ServedAsMeant
    BY DEF ServedAsMeant
  <2> DEFINE v == TaskToVTODO(row)
  <2>1. row \in Rows /\ FitColumns(row, meant) /\ FitBlob(row.blob, meant)
    BY DEF VTodoInv, Typed, Meant, Fits
  <2>2. /\ v.title = IF row.blob # None /\ row.title = None
                     THEN row.blob.title ELSE SetText(row.title)
        /\ v.detail = IF row.blob # None /\ row.detail = None
                      THEN row.blob.detail ELSE SetText(row.detail)
        /\ v.status = CalDAVStatus(row.status)
        /\ v.due = IF row.due = 0 THEN None
                   ELSE SetDue(IF row.blob = None THEN None ELSE row.blob.due, row.due)
        /\ v.url = IF row.blob = None THEN row.links ELSE row.blob.url
        /\ v.meta = IF row.blob = None THEN None ELSE row.blob.meta
        /\ v.extra = IF row.blob = None THEN None ELSE row.blob.extra
        /\ v.source = IF row.blob = None THEN None ELSE row.blob.source
    BY <2>1, ServedFields
  <2> HIDE DEF v
  <2>3. Text(SetText(row.title)) = row.title /\ Text(SetText(row.detail)) = row.detail
    BY <2>1, TextOfSetText DEF Rows
  <2>4. Text(None) = None
    BY DEF Text
  <2>5. Text(v.title) = meant.title /\ v.status = meant.status
    BY <2>1, <2>2, <2>3, <2>4 DEF FitColumns, FitBlob
  <2>6. Text(v.detail) = meant.detail \/ DetailIsMasked
    BY <2>1, <2>2, <2>3, <2>4 DEF FitColumns, DetailIsMasked
  <2>7. v.url = meant.url \/ URLIsMasked \/ "url" \in meant.lost
    BY <2>1, <2>2 DEF FitColumns, FitBlob, URLIsMasked
  <2>8. /\ Text(v.meta) = meant.meta \/ "meta" \in meant.lost
        /\ v.extra = meant.extra \/ "extra" \in meant.lost
        /\ v.source = meant.origin \/ "origin" \in meant.lost
    BY <2>1, <2>2, <2>4 DEF FitBlob
  <2>9. meant.at = 0 => v.due = None
    BY <2>1, <2>2 DEF FitColumns
  <2>A. ASSUME meant.at # 0
        PROVE  /\ v.due.at = IF v.due.form = "DATE" THEN DayOf(meant.at) ELSE meant.at
               /\ mode = "preserve" /\ meant.form = "DATE" =>
                      v.due.form = "DATE" \/ "form" \in meant.lost
    <3> DEFINE old == IF row.blob = None THEN None ELSE row.blob.due
    <3>1. row.due = meant.at /\ row.due \in Instants
      BY <2>1, <2>A DEF FitColumns, Rows
    <3>2. old \in Maybe(Dues)
      BY <2>1 DEF Rows, Vtodos, Maybe
    <3>3. v.due = SetDue(old, row.due)
      BY <2>2, <2>A, <3>1
    <3>4. \/ meant.form = "DATE" => old # None /\ old.form = "DATE"
          \/ "form" \in meant.lost
      BY <2>1 DEF FitBlob
    <3> HIDE DEF old
    <3> QED
      BY <3>1, <3>2, <3>3, <3>4, SetDueTypes
  <2> QED
    BY <2>5, <2>6, <2>7, <2>8, <2>9, <2>A DEF ServedAsMeant, v
<1> QED
  BY <1>1, VTodoInvariant, PTL

(* The web UI and the MCP tools show, of columns and blob, what was last
   written (mapInternalTask), or was lost in a write without the blob or, of the
   provenance, without the column (meant.lost). *)
THEOREM ShownAsMeantHolds == Spec => []ShownAsMeant
<1>1. VTodoInv => ShownAsMeant
  BY DEF VTodoInv, Typed, Meant, Fits, FitColumns, FitBlob, ShownAsMeant, Shown
<1> QED
  BY <1>1, VTodoInvariant, PTL

(* A client that finds its ETag unchanged has the task as it is, with the three
   exceptions of UnchangedIsCurrent (ComputeETag, PutCalendarObject). *)
THEOREM UnchangedIsCurrentHolds == Spec => []UnchangedIsCurrent
<1>1. VTodoInv => UnchangedIsCurrent
  <2> SUFFICES ASSUME VTodoInv, cache # None, cache.etag = ETag(row)
               PROVE  \/ Settled(cache.body) = Settled(TaskToVTODO(row))
                      \/ cache.apart \/ row.modified \in shared
    BY DEF UnchangedIsCurrent
  <2>1. cache.etag[4] = row.modified
    BY DEF ETag
  <2> QED
    BY <2>1 DEF VTodoInv, Current
<1> QED
  BY <1>1, VTodoInvariant, PTL
===============================================================================
