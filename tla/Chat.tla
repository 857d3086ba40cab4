-------------------------------- MODULE Chat --------------------------------
(***************************************************************************)
(* The chat: pages in browsers, the goroutine that answers a question, the *)
(* handler that passes its events on, and the retrieval behind the prompt. *)
(*                                                                         *)
(*   tab --POST /chat/ask--> handleAsk <--events-- Ask --> model server    *)
(*                                                  |                      *)
(*      sessions, messages <------- reads, writes --+-- reads --> index    *)
(*                                                                         *)
(* An ask is one goroutine; every statement it runs and every event it     *)
(* hands to the handler is a step of its own, and other asks, also of the  *)
(* same session, lie between them.  The events go over a channel without a *)
(* buffer: the goroutine goes on once the handler has taken the event, and *)
(* the handler takes the next one when it has written this one.            *)
(*                                                                         *)
(* A message's text is the number of the ask it belongs to; messages are   *)
(* told apart and put in order by the time they bear, which is taken       *)
(* before the insert.  (Two of one millisecond come in the order of their  *)
(* inserts, as if their times had been taken in that order.)  The pages of *)
(* all notes are one set; what another component does to the index or to   *)
(* the vectors in memory is one action here, in any order.                 *)
(***************************************************************************)
EXTENDS Naturals, Sequences, FiniteSets, SequencesExt

CONSTANTS
  Tabs,       \* how many browser pages show the chat
  Pages,      \* pages of notes
  Keyword,    \* the pages with the question's words, best first
  Near,       \* the pages whose vector is near the question's, nearest first
  Limit,      \* results a prompt may cite: 5 in the code
  Window,     \* earlier messages a prompt may hold: 10 in the code
  MaxAsks,    \* bound: questions ever asked
  MaxTroubles \* bound: failures, lost clients, crashes, changes of the index

Texts  == {"none", "short", "long"}
Roles  == {"user", "assistant"}
Dead   == {"closed", "crashed"}

(* Where a goroutine is from the time of its question until its prompt is   *)
(* sent.                                                                   *)
Asking == {"user", "session", "search", "enrich", "context", "prompt", "post"}
Stages == Asking \cup Dead \cup {"create", "question", "stream", "answer",
                                 "assistant", "done", "failed", "close"}
Events == {"none", "session", "context", "content", "done", "error"}

Messages == [session : Nat, role : Roles, ask : Nat, created : Nat]

(* What an ask is: its session, its next step, whether its client has      *)
(* gone, the event its handler holds, the time of the message it is about  *)
(* to insert, the ranked pages, the cited pages, and the history in its    *)
(* prompt.                                                                 *)
(* The last four are for the properties: the pages that had no text to     *)
(* cite since it began, whether another ask wrote into its session         *)
(* between the time of its question and its prompt, the statements that    *)
(* failed, and the event it ended with.                                    *)
Asks ==
  [session : Nat, at : Stages, gone : BOOLEAN, event : Events, now : Nat,
   ranked : Seq(Pages), cited : SUBSET Pages, history : SUBSET Messages,
   bare : SUBSET Pages, crossed : BOOLEAN, failed : SUBSET (Roles \cup {"history"}),
   said : Events]

ASSUME ChatAssumption ==
  /\ Tabs \in Nat /\ IsFiniteSet(Pages)
  /\ Keyword \in Seq(Pages) /\ IsInjective(Keyword)
  /\ Near \in Seq(Pages) /\ IsInjective(Near)
  /\ Limit \in Nat \ {0} /\ Window \in Nat
  /\ MaxAsks \in Nat /\ MaxTroubles \in Nat

VARIABLES
  sessions,  \* how many there are: their ids are 1..sessions
  messages,  \* the messages of all sessions
  clock,     \* the time that was taken last
  text,      \* page -> what the index has of it: "none", "short" or "long"
  vectors,   \* pages with a vector in memory
  asks,      \* the requests so far
  troubles   \* faults and changes so far

chatVars == <<sessions, messages, clock, text, vectors, asks, troubles>>
store == <<sessions, messages, clock>>
notes == <<text, vectors>>

NewAsk(sid) ==
  [session |-> sid, at |-> IF sid = 0 THEN "create" ELSE "question",
   gone |-> FALSE, event |-> "none", now |-> 0, ranked |-> <<>>, cited |-> {},
   history |-> {}, bare |-> {p \in Pages : text[p] # "long"},
   crossed |-> FALSE, failed |-> {}, said |-> "none"]

(* The database holds an index and an earlier conversation.                *)
ChatInit ==
  /\ text = [p \in Pages |-> "long"]
  /\ vectors = Pages
  /\ sessions = 1
  /\ messages = {[session |-> 1, role |-> "user", ask |-> 0, created |-> 1],
                 [session |-> 1, role |-> "assistant", ask |-> 0, created |-> 2]}
  /\ clock = 2
  /\ asks = <<>>
  /\ troubles = 0

-----------------------------------------------------------------------------
(* The page in the browser.                                                *)

(* The conversations to choose from; 0 is a new one.                       *)
ListSessions == 1..sessions

(* The requests a page waits for: it disables its form until their end.    *)
Awaited == {a \in DOMAIN asks : asks[a].at \notin Dead /\ ~asks[a].gone}

(* A question in the session a page shows: one chosen from the list, or    *)
(* none.  (What the page takes for the id in the first event is not the    *)
(* id, so that its next question has none unless one was chosen.)          *)
Ask ==
  /\ Cardinality(Awaited) < Tabs /\ Len(asks) < MaxAsks
  /\ \E s \in ListSessions \cup {0} : asks' = Append(asks, NewAsk(s))
  /\ UNCHANGED <<store, notes, troubles>>

(* The page is reloaded, or its connection breaks: net/http cancels the    *)
(* context of the request, and the handler keeps running.                  *)
Leave(a) ==
  /\ troubles < MaxTroubles /\ troubles' = troubles + 1
  /\ a \in Awaited
  /\ asks' = [asks EXCEPT ![a].gone = TRUE]
  /\ UNCHANGED <<store, notes>>

-----------------------------------------------------------------------------
(* Steps of a request.                                                     *)

Step(a, from) == a \in DOMAIN asks /\ asks[a].at = from

(* The goroutine hands an event over, which the handler must be free for.  *)
Send(a, event, next) ==
  /\ asks[a].event = "none"
  /\ asks' = [asks EXCEPT ![a].event = event, ![a].at = next]

Go(a, next) == asks' = [asks EXCEPT ![a].at = next]

(* A statement fails when the client is gone, or for a reason of its own.  *)
Fails(a) ==
  \/ asks[a].gone /\ UNCHANGED troubles
  \/ ~asks[a].gone /\ troubles < MaxTroubles /\ troubles' = troubles + 1

Works(a) == ~asks[a].gone /\ UNCHANGED troubles

(* Mutant: the handler returns at the first event it cannot write.         *)
WriteUntilGone(a) ==
  /\ a \in DOMAIN asks /\ asks[a].event # "none" /\ asks[a].at # "close"
  /\ ~asks[a].gone
  /\ asks' = [asks EXCEPT ![a].event = "none"]
  /\ UNCHANGED <<store, notes, troubles>>

(* The handler writes an event to the client, or to nobody.                *)
WriteEvent(a) ==
  /\ a \in DOMAIN asks /\ asks[a].event # "none" /\ asks[a].at # "close"
  /\ asks' = [asks EXCEPT ![a].event = "none"]
  /\ UNCHANGED <<store, notes, troubles>>

CreateSession(a) ==
  /\ Step(a, "create")
  /\ \/ /\ Works(a)
        /\ sessions' = sessions + 1
        /\ asks' = [asks EXCEPT ![a].session = sessions', ![a].at = "question"]
     \/ /\ Fails(a)
        /\ Go(a, "failed") /\ UNCHANGED sessions
  /\ UNCHANGED <<messages, clock, notes>>

(* AddMessage: the time of the message, and then the statement.            *)
TakeTime(a, from, next) ==
  /\ Step(a, from)
  /\ clock' = clock + 1
  /\ asks' = [asks EXCEPT ![a].now = clock', ![a].at = next]
  /\ UNCHANGED <<sessions, messages, notes, troubles>>

(* The message is inserted, or Ask goes on without it.  (A second statement *)
(* moves the session up in the list, whose order is left out.)             *)
AddMessage(a, role, next) ==
  /\ Step(a, role)
  /\ \/ /\ Works(a)
        /\ messages' = messages \cup {[session |-> asks[a].session, role |-> role,
                                      ask |-> a, created |-> asks[a].now]}
        /\ asks' = [b \in DOMAIN asks |->
             IF b = a THEN [asks[a] EXCEPT !.at = next, !.now = 0]
             ELSE IF asks[b].session = asks[a].session /\ asks[b].at \in Asking
                  THEN [asks[b] EXCEPT !.crossed = TRUE]
             ELSE asks[b]]
     \/ /\ Fails(a)
        /\ asks' = [asks EXCEPT ![a].at = next, ![a].now = 0, ![a].failed = @ \cup {role}]
        /\ UNCHANGED messages
  /\ UNCHANGED <<sessions, clock, notes>>

TimeQuestion(a) == TakeTime(a, "question", "user")
SaveQuestion(a) == AddMessage(a, "user", "session")
TimeAnswer(a) == TakeTime(a, "answer", "assistant")
SaveAnswer(a) == AddMessage(a, "assistant", "done")

SendSession(a) ==
  /\ Step(a, "session") /\ Send(a, "session", "search")
  /\ UNCHANGED <<store, notes, troubles>>

-----------------------------------------------------------------------------
(* Retrieval.                                                              *)

Overfetch == 2 * Limit

(* The place of a page among those of S in a list, of which the first      *)
(* Overfetch are taken; 0 when it is not one of them.                      *)
Rank(list, S, p) ==
  LET places == {i \in DOMAIN list : list[i] \in S}
      upto == {i \in places : \E j \in places : i <= j /\ list[j] = p}
  IN  IF Cardinality(upto) > Overfetch THEN 0 ELSE Cardinality(upto)

(* The pages that the index can find, and those near the question among    *)
(* what is in memory: without the question's own vector there is nothing   *)
(* to compare with.                                                        *)
KeywordHits == {p \in Pages : text[p] # "none"}
AllEmbeddings == vectors

(* Reciprocal rank fusion: 1 / (60 + rank) for each list that has the page, *)
(* as a fraction.                                                          *)
Score(i, j) ==
  [num |-> (IF i > 0 THEN 60 + j ELSE 0) + (IF j > 0 THEN 60 + i ELSE 0),
   den |-> (60 + i) * (60 + j)]
AtLeast(x, y) == x.num * y.den >= y.num * x.den

(* The pages of both lists by their scores, equal ones in any order.       *)
Merged(hits, embedded) ==
  LET score(p) == Score(Rank(Keyword, hits, p), Rank(Near, embedded, p))
  IN  {s \in SetToSeqs({p \in Pages : score(p).num > 0}) :
         \A i, j \in DOMAIN s : i < j => AtLeast(score(s[i]), score(s[j]))}

(* The first half of a search.  An embedder that does not answer leaves the *)
(* keywords; an index that does not answer leaves nothing and no event.    *)
Search(a) ==
  /\ Step(a, "search")
  /\ \/ /\ Works(a)
        /\ \E embedded \in {AllEmbeddings, {}} : \E s \in Merged(KeywordHits, embedded) :
             asks' = [asks EXCEPT ![a].ranked = s, ![a].at = "enrich"]
     \/ Fails(a) /\ Go(a, "prompt")
  /\ UNCHANGED <<store, notes>>

(* The second half: texts are read page by page until there are Limit      *)
(* results; a page the index has no longer is a result without a text, one *)
(* that cannot be read is passed over.                                     *)
EnrichResult(p) == [page |-> p, body |-> text[p]]
Results(s) == {EnrichResult(s[i]) : i \in DOMAIN s \cap 1..Limit}

(* Mutant: a page without a text is cited by its name.                     *)
CitesAll(results) == {p \in Pages : \E r \in results : r.page = p}

(* buildPrompt cites no page with next to no text.                         *)
Cites(results) == {p \in Pages : \E r \in results : r.page = p /\ r.body = "long"}

Enrich(a) ==
  /\ Step(a, "enrich")
  /\ \E read \in {asks[a].ranked, <<>>} \cup {Remove(asks[a].ranked, p) : p \in Pages} :
       /\ (Works(a) /\ read = asks[a].ranked) \/ Fails(a)
       /\ asks' = [asks EXCEPT ![a].cited = Cites(Results(read)),
                               ![a].ranked = <<>>, ![a].at = "context"]
  /\ UNCHANGED <<store, notes>>

SendContext(a) ==
  /\ Step(a, "context") /\ Send(a, "context", "prompt")
  /\ UNCHANGED <<store, notes, troubles>>

-----------------------------------------------------------------------------
(* The prompt and the answer.                                              *)

GetMessages(s) == {m \in messages : m.session = s}

(* The n latest of some messages; a list of messages is in their order.    *)
Latest(S, n) == {m \in S : Cardinality({o \in S : o.created > m.created}) < n}

(* Mutant: the question is taken for a part of the conversation.           *)
WholeHistory(s) == Latest(GetMessages(s), Window)

(* All but the last message, which buildPrompt takes for the question, and *)
(* no more than Window of them.                                            *)
History(s) ==
  Latest({m \in GetMessages(s) : \E o \in GetMessages(s) : o.created > m.created}, Window)

BuildPrompt(a) ==
  /\ Step(a, "prompt")
  /\ \/ /\ Works(a)
        /\ asks' = [asks EXCEPT ![a].history = History(asks[a].session), ![a].at = "post"]
     \/ /\ Fails(a)
        /\ asks' = [asks EXCEPT ![a].failed = @ \cup {"history"}, ![a].at = "post"]
  /\ UNCHANGED <<store, notes>>

(* The model server is asked.  Only a broken connection is a failure: an   *)
(* answer with another status than 200 is a stream without any piece.      *)
StreamFromVLLM(a) ==
  /\ Step(a, "post")
  /\ \E next \in {"stream", "failed"} :
       /\ IF next = "stream" THEN Works(a) ELSE Fails(a)
       /\ asks' = [asks EXCEPT ![a].history = {}, ![a].cited = {}, ![a].bare = {},
                               ![a].crossed = FALSE, ![a].at = next]
  /\ UNCHANGED <<store, notes>>

Chunk(a) ==
  /\ Step(a, "stream")
  /\ Send(a, "content", "stream")
  /\ UNCHANGED <<store, notes, troubles>>

(* Mutant: a stream that ends is answered before its answer is stored.     *)
StreamEndsUnsaved(a) ==
  /\ Step(a, "stream")
  /\ \/ Works(a) /\ Go(a, "done")
     \/ Fails(a) /\ Go(a, "failed")
  /\ UNCHANGED <<store, notes>>

(* The stream ends, cut or whole, or breaks, at the latest after the 120   *)
(* seconds the client gives the server.                                    *)
StreamEnds(a) ==
  /\ Step(a, "stream")
  /\ \/ Works(a) /\ Go(a, "answer")
     \/ Fails(a) /\ Go(a, "failed")
  /\ UNCHANGED <<store, notes>>

SendLast(a) ==
  /\ a \in DOMAIN asks /\ asks[a].event = "none"
  /\ \E event \in {"done", "error"} :
       /\ asks[a].at = IF event = "done" THEN "done" ELSE "failed"
       /\ asks' = [asks EXCEPT ![a].event = event, ![a].said = event,
                               ![a].at = "close", ![a].bare = {}]
  /\ UNCHANGED <<store, notes, troubles>>

(* The last event is written, the handler returns, and the page can ask.   *)
Close(a) ==
  /\ Step(a, "close")
  /\ asks' = [asks EXCEPT ![a].event = "none", ![a].at = "closed",
                          ![a].gone = FALSE]
  /\ UNCHANGED <<store, notes, troubles>>

-----------------------------------------------------------------------------
(* What the other components do meanwhile, and a crash.                    *)

IndexPage(p, t) ==
  /\ troubles < MaxTroubles /\ troubles' = troubles + 1
  /\ text[p] # t /\ text' = [text EXCEPT ![p] = t]
  /\ asks' = [a \in DOMAIN asks |->
       IF t = "long" THEN [asks[a] EXCEPT !.bare = @ \ {p}] ELSE asks[a]]
  /\ UNCHANGED <<store, vectors>>

EmbedPage(p) ==
  /\ troubles < MaxTroubles /\ troubles' = troubles + 1
  /\ vectors' = IF p \in vectors THEN vectors \ {p} ELSE vectors \cup {p}
  /\ UNCHANGED <<store, text, asks>>

Crash ==
  /\ troubles < MaxTroubles /\ troubles' = troubles + 1
  /\ \E a \in DOMAIN asks : asks[a].at \notin Dead
  /\ asks' = [a \in DOMAIN asks |->
       IF asks[a].at \in Dead THEN asks[a]
       ELSE [NewAsk(0) EXCEPT !.at = "crashed", !.bare = {}]]
  /\ UNCHANGED <<store, notes>>

Goroutine(a) ==
  \/ CreateSession(a) \/ TimeQuestion(a) \/ SaveQuestion(a) \/ SendSession(a)
  \/ Search(a) \/ Enrich(a) \/ SendContext(a) \/ BuildPrompt(a)
  \/ StreamFromVLLM(a) \/ StreamEnds(a)
  \/ TimeAnswer(a) \/ SaveAnswer(a) \/ SendLast(a) \/ Close(a)

ChatNext ==
  \/ Ask
  \/ \E a \in 1..MaxAsks : Goroutine(a) \/ Chunk(a) \/ WriteEvent(a) \/ Leave(a)
  \/ \E p \in Pages, t \in Texts : IndexPage(p, t)
  \/ \E p \in Pages : EmbedPage(p)
  \/ Crash

ChatSpec == ChatInit /\ [][ChatNext]_chatVars

(* A goroutine that can go on does: the client of the model server has a   *)
(* timeout.  A write ends: a client reads, or its connection breaks.       *)
ChatFairSpec ==
  /\ ChatSpec
  /\ \A a \in 1..MaxAsks : WF_chatVars(Goroutine(a)) /\ WF_chatVars(WriteEvent(a))

-----------------------------------------------------------------------------
(* Properties.                                                             *)

(* Messages have the times of their asks, and everything is what the tables *)
(* and the goroutine allow.                                                *)
ChatTypeOK ==
  /\ sessions \in Nat /\ clock \in Nat /\ troubles \in Nat
  /\ messages \subseteq Messages
  /\ \A m \in messages : m.created <= clock /\ m.ask <= Len(asks)
  /\ text \in [Pages -> Texts] /\ vectors \subseteq Pages
  /\ asks \in Seq(Asks)
  /\ \A a \in DOMAIN asks : asks[a].now <= clock

Turns(a, role) == {m \in GetMessages(asks[a].session) : m.ask = a /\ m.role = role}

(* Whatever else is asked, also in the same session, fails or crashes: an  *)
(* ask that ended with "done" has its question and then its answer in one  *)
(* session, each once, except for one whose insert failed; an ask that has *)
(* ended otherwise has no answer there for a later prompt to repeat.       *)
TurnsAreStored ==
  \A a \in DOMAIN asks :
    /\ asks[a].said = "done" =>
         /\ \A r \in Roles \ asks[a].failed : Cardinality(Turns(a, r)) = 1
         /\ \A q \in Turns(a, "user"), m \in Turns(a, "assistant") : q.created < m.created
    /\ asks[a].said = "error" => Turns(a, "assistant") = {}

(* An ask into whose session nobody else wrote between the time of its     *)
(* question and its prompt sends the conversation before its question,     *)
(* without the question itself: the last Window messages.                  *)
PromptIsConversation ==
  \A a \in DOMAIN asks :
    asks[a].at = "post" /\ ~asks[a].crossed /\ asks[a].failed = {} =>
      \E q \in Turns(a, "user") :
         asks[a].history =
           Latest({m \in GetMessages(asks[a].session) : m.created < q.created}, Window)

(* The prompt cites no page that had next to no text all the time since    *)
(* the question, although its vector, or its place in a ranking made       *)
(* before, outlives its text; and it cites no more than Limit pages.       *)
CitesWhatIsThere ==
  \A a \in DOMAIN asks :
    asks[a].cited \cap asks[a].bare = {} /\ Cardinality(asks[a].cited) <= Limit

(* Every ask ends, also when its client has gone: neither its goroutine    *)
(* nor its handler waits for ever on the other side of the channel, and    *)
(* its page can ask again.  (No ask begins again and there are MaxAsks of  *)
(* them, so that this is as much as that each one ends.)                   *)
AsksEnd ==
  []<>(\A a \in DOMAIN asks : asks[a].at \in Dead)
=============================================================================
