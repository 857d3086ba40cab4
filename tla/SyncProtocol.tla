---------------------------- MODULE SyncProtocol ----------------------------
(***************************************************************************)
(* The ForestNote round-trip: devices that write while offline and push    *)
(* and pull through POST /sync/v1 (internal/syncsvc/service.go), over      *)
(* connections that may time out before or after the server did the work.  *)
(* The device side is not in this repository; it follows the loop the      *)
(* server is written for, docs/sync/forestnote-sync-protocol.md section    *)
(* 4.2, and sends every op above its own accepted_through.                 *)
(*                                                                         *)
(* A request goes through three stages: in flight (`net`), being applied   *)
(* (`serving`, whose ops the store's transaction works through) and        *)
(* committed, waiting for its relay page (`pulling`).  A device has one    *)
(* live call at most, but a call it gave up on may still be anywhere.      *)
(***************************************************************************)
EXTENDS SyncStore, FiniteSets

CONSTANTS
    BatchLimit,     \* SyncBatchLimit: relay ops per response
    Times,          \* the clock readings in play
    Payloads,       \* what each device may put on the wire, good or malformed
    MaxWrites,      \* bound: ops each device writes
    MaxAuthored,    \* bound: ops the server authors
    MaxFaults,      \* bound: timeouts, storage errors and crashes together
    Idle            \* no request is being applied

ASSUME ProtocolAssumption ==
    /\ BatchLimit \in Nat \ {0}
    /\ Times \subseteq Nat
    /\ Payloads \in [Devices -> SUBSET (Cols \cup {Missing, Mistyped})]
    /\ MaxAuthored \in Nat /\ MaxFaults \in Nat
    /\ MaxWrites \in [Devices -> Nat]

(* A request, and what of a response is fixed once the batch is committed. *)
Requests == [site : Devices, cursor : Nat, ops : Seq(Ops), live : BOOLEAN]
Responses == [site : Devices, cursor : Nat, live : BOOLEAN, accepted : Nat,
              rejected : SUBSET Nat]

ASSUME IdleAssumption == Idle \notin Requests

VARIABLES
    outbox,     \* the ops each device wrote; outbox[d][n] has op_seq n
    settled,    \* the accepted_through each device has adopted
    dropped,    \* the op_seqs each device has quarantined
    replica,    \* each device's own copy of the rows
    cursor,     \* the global seq each device has applied up to
    waiting,    \* the devices that have a call out
    net,        \* requests in flight
    serving,    \* the request the open transaction is applying, or Idle
    pulling,    \* committed requests whose response is not written yet
    faults      \* faults so far

deviceVars == <<outbox, settled, dropped, replica, cursor, waiting>>
vars == <<log, mirror, acked, authored, tx, refused, outbox, settled, dropped,
          replica, cursor, waiting, net, serving, pulling, faults>>

(* The request being applied, if there is one. *)
Served == {serving} \ {Idle}

Init ==
    /\ StoreInit
    /\ outbox = [d \in Devices |-> <<>>]
    /\ settled = [d \in Devices |-> 0]
    /\ dropped = [d \in Devices |-> {}]
    /\ replica = [d \in Devices |-> [r \in Rows |-> NoRow]]
    /\ cursor = [d \in Devices |-> 0]
    /\ waiting = {}
    /\ net = {} /\ serving = Idle /\ pulling = {}
    /\ faults = 0

Fault == faults < MaxFaults /\ faults' = faults + 1
-----------------------------------------------------------------------------
(* The devices. *)

(* A local edit is applied at once and queued; only the payload that
   reaches the wire may be malformed. *)
LocalWrite(d, r, now, cols) ==
    LET op == [row |-> r, site |-> d, opSeq |-> Len(outbox[d]) + 1,
               wallTS |-> now, cols |-> cols]
    IN  /\ Len(outbox[d]) < MaxWrites[d]
        /\ outbox' = [outbox EXCEPT ![d] = Append(@, op)]
        /\ replica' = [replica EXCEPT ![d] = Merged(@, op)]
        /\ UNCHANGED <<storeVars, settled, dropped, cursor, waiting, net,
                       serving, pulling, faults>>

(* The outbox above the water, in order, without what was quarantined. *)
Pending(d) ==
    LET pending[n \in 0 .. Len(outbox[d])] ==
          IF n = 0 THEN <<>>
          ELSE IF n > settled[d] /\ n \notin dropped[d]
               THEN Append(pending[n - 1], outbox[d][n])
               ELSE pending[n - 1]
    IN  pending[Len(outbox[d])]

Request(d) ==
    [site |-> d, cursor |-> cursor[d], ops |-> Pending(d), live |-> TRUE]

Send(d) ==
    /\ d \notin waiting
    /\ waiting' = waiting \cup {d}
    /\ net' = net \cup {Request(d)}
    /\ UNCHANGED <<storeVars, outbox, settled, dropped, replica, cursor,
                   serving, pulling, faults>>

Abandon(d, req) == IF req.site = d THEN [req EXCEPT !.live = FALSE] ELSE req

(* The device gives up on its call, wherever the request has got to. *)
Timeout(d) ==
    /\ d \in waiting
    /\ Fault
    /\ waiting' = waiting \ {d}
    /\ net' = {Abandon(d, q) : q \in net}
    /\ serving' = IF serving = Idle THEN Idle ELSE Abandon(d, serving)
    /\ pulling' = {Abandon(d, q) : q \in pulling}
    /\ UNCHANGED <<storeVars, outbox, settled, dropped, replica, cursor>>
-----------------------------------------------------------------------------
(* The server. *)

Serve(req) ==
    /\ req \in net
    /\ BeginApply(req.site, req.ops)
    /\ net' = net \ {req}
    /\ serving' = req
    /\ UNCHANGED <<deviceVars, pulling, faults>>

Step(op) ==
    /\ \/ RejectInvalid(op)
       \/ SkipLogged(op)
       \/ RejectMistyped(op)
       \/ Record(op)
    /\ UNCHANGED <<deviceVars, net, serving, pulling, faults>>

(* Mutant: the response does not name what it refused. *)
CommitUnnamed ==
    /\ CommitApply
    /\ serving' = Idle
    /\ pulling' = pulling \cup
         {[site |-> tx.site, cursor |-> serving.cursor, live |-> serving.live,
           accepted |-> acked'[tx.site], rejected |-> {}]}
    /\ UNCHANGED <<deviceVars, net, faults>>

(* ApplyBatch returns its result to Sync. *)
Commit ==
    /\ CommitApply
    /\ serving' = Idle
    /\ pulling' = pulling \cup
         {[site |-> tx.site, cursor |-> serving.cursor, live |-> serving.live,
           accepted |-> acked'[tx.site], rejected |-> tx.rejected]}
    /\ UNCHANGED <<deviceVars, net, faults>>

Author(writes, now) ==
    /\ authored + Len(writes) <= MaxAuthored
    /\ BeginAuthor(writes, now)
    /\ UNCHANGED <<deviceVars, net, serving, pulling, faults>>

FinishAuthor ==
    /\ CommitAuthor
    /\ UNCHANGED <<deviceVars, net, serving, pulling, faults>>

(* The seqs of the ops of other sites above the cursor, and the first
   BatchLimit of them. *)
RelaySeqs(since, s) == {i \in since + 1 .. Len(log) : log[i].site # s}

Page(since, s) ==
    {i \in RelaySeqs(since, s) :
       Cardinality({j \in RelaySeqs(since, s) : j < i}) < BatchLimit}

(* Mutants: the cursor moves by the batch limit, or to the end of the log. *)
OpsSinceByLimit(since, s) ==
    [seqs |-> Page(since, s), cursor |-> since + BatchLimit]
OpsSinceToEnd(since, s) ==
    [seqs |-> Page(since, s), cursor |-> Len(log)]

(* The new cursor is the seq of the page's last op. *)
OpsSince(since, s) ==
    LET page == Page(since, s)
    IN  [seqs |-> page,
         cursor |-> IF page = {} THEN since
                    ELSE CHOOSE i \in page : \A j \in page : j <= i]

(* The rows m after the ops with these seqs, in the order of the changelog. *)
Relayed(m, seqs) ==
    LET merge[n \in 0 .. Len(log)] ==
          IF n = 0 THEN m
          ELSE IF n \in seqs THEN Merged(merge[n - 1], log[n]) ELSE merge[n - 1]
    IN  merge[Len(log)]

(* The device takes a response in one local transaction: refused ops leave
   the outbox, the water and the cursor become the server's. *)
Receive(d, accepted, rejected, relay) ==
    /\ dropped' = [dropped EXCEPT ![d] = @ \cup rejected]
    /\ settled' = [settled EXCEPT ![d] = accepted]
    /\ replica' = [replica EXCEPT ![d] = Relayed(@, relay.seqs)]
    /\ cursor' = [cursor EXCEPT ![d] = relay.cursor]
    /\ waiting' = waiting \ {d}

(* The rest of Sync, after ApplyBatch: one read of the changelog, while no
   transaction owns the connection, and the response, which a device that
   has given up on the call never sees. *)
Respond(q) ==
    /\ q \in pulling
    /\ tx = NoTx
    /\ pulling' = pulling \ {q}
    /\ IF q.live
       THEN Receive(q.site, q.accepted, q.rejected, OpsSince(q.cursor, q.site))
       ELSE UNCHANGED <<dropped, settled, replica, cursor, waiting>>
    /\ UNCHANGED <<storeVars, outbox, net, serving, faults>>
-----------------------------------------------------------------------------
(* Faults.  A failed call reaches a device that still waits as a 5xx or a
   broken connection, and the device will retry. *)
StillWaiting(failed) == waiting \ {q.site : q \in {r \in failed : r.live}}

(* A request lost on the way. *)
Lose(req) ==
    /\ req \in net
    /\ Fault
    /\ net' = net \ {req}
    /\ waiting' = StillWaiting({req})
    /\ UNCHANGED <<storeVars, outbox, settled, dropped, replica, cursor,
                   serving, pulling>>

(* The transaction fails: 500 for a request, an error for the author. *)
RollBack ==
    /\ Fault
    /\ Abort
    /\ serving' = Idle
    /\ waiting' = StillWaiting(Served)
    /\ UNCHANGED <<outbox, settled, dropped, replica, cursor, net, pulling>>

(* OpsSince fails after the batch has been committed. *)
FailPull(q) ==
    /\ q \in pulling
    /\ Fault
    /\ pulling' = pulling \ {q}
    /\ waiting' = StillWaiting({q})
    /\ UNCHANGED <<storeVars, outbox, settled, dropped, replica, cursor, net,
                   serving>>

(* One statement of mergeRow fails and the transaction goes on. *)
MergeFault(op) ==
    /\ Fault
    /\ RejectFaulted(op)
    /\ UNCHANGED <<deviceVars, net, serving, pulling>>

(* The process dies: the open transaction and every handler are gone, and
   the devices they served see the connection close. *)
Crash ==
    /\ Fault
    /\ tx' = NoTx /\ serving' = Idle /\ pulling' = {}
    /\ waiting' = StillWaiting(pulling \cup Served)
    /\ UNCHANGED <<store, outbox, settled, dropped, replica, cursor, net>>
-----------------------------------------------------------------------------
Next ==
    \/ \E d \in Devices, r \in Rows, now \in Times : \E cols \in Payloads[d] :
          LocalWrite(d, r, now, cols)
    \/ \E d \in Devices : Send(d)
    \/ \E d \in Devices : Timeout(d)
    \/ \E req \in net : Serve(req)
    \/ tx # NoTx /\ tx.todo # <<>> /\ Step(Head(tx.todo))
    \/ Commit
    \/ \E r \in Rows, cols \in Cols, now \in Times :
          Author(<<[row |-> r, cols |-> cols]>>, now)
    \/ FinishAuthor
    \/ \E q \in pulling : Respond(q)
    \/ \E req \in net : Lose(req)
    \/ RollBack
    \/ \E q \in pulling : FailPull(q)
    \/ tx # NoTx /\ tx.todo # <<>> /\ MergeFault(Head(tx.todo))
    \/ Crash

Spec == Init /\ [][Next]_vars

(***************************************************************************)
(* Fairness.  A device keeps syncing and handles the responses it gets;    *)
(* database/sql hands the one connection to waiting requests in turn, so   *)
(* no device's request or relay read waits for ever.  Faults are finite.   *)
(***************************************************************************)
Fairness ==
    /\ \A d \in Devices :
          /\ WF_vars(Send(d))
          /\ SF_vars(\E req \in net : req.site = d /\ Serve(req))
          /\ SF_vars(\E q \in pulling : q.site = d /\ Respond(q))
    /\ WF_vars(tx # NoTx /\ tx.todo # <<>> /\ Step(Head(tx.todo)))
    /\ WF_vars(Commit)
    /\ WF_vars(FinishAuthor)

FairSpec == Spec /\ Fairness
-----------------------------------------------------------------------------
(* Properties. *)

TypeOK ==
    /\ StoreTypeOK
    /\ outbox \in [Devices -> Seq(Ops)]
    /\ settled \in [Devices -> Nat]
    /\ dropped \in [Devices -> SUBSET Nat]
    /\ replica \in [Devices -> [Rows -> Ops \cup {NoRow}]]
    /\ cursor \in [Devices -> 0 .. Len(log)]
    /\ net \subseteq Requests /\ pulling \subseteq Responses
    /\ serving \in Requests \cup {Idle}
    /\ serving = Idle \/ (tx # NoTx /\ tx.site = serving.site)
    /\ \A d \in Devices :
          d \in waiting <=>
            Cardinality({q \in net \cup pulling \cup Served :
                           q.site = d /\ q.live}) = 1
    /\ faults \in 0 .. MaxFaults

(* What a device holds: its own writes, and every op of the other sites up
   to its cursor.  Paging with has_more, lost responses and calls that the
   device gave up on skip no relayed op and bring none out of order. *)
Received(d) ==
    LogOps(outbox[d]) \cup {log[i] : i \in {j \in 1 .. cursor[d] : log[j].site # d}}

ReplicaIsMerge == \A d \in Devices : IsMerge(replica[d], Received(d))

(* A device stops resending an op only when the changelog holds it or the
   device was told that it is refused (spec 4.1: "silent data loss"). *)
NoSilentLoss ==
    \A d \in Devices : \A n \in 1 .. settled[d] :
        n \in Logged(log, d) \cup dropped[d]

(* Every write of a device is one day in the changelog or quarantined, and
   devices none of whose ops were refused end with the server's rows. *)
Converges ==
    <>[](\A d \in Devices :
            /\ \A n \in 1 .. Len(outbox[d]) : n \in Logged(log, d) \cup dropped[d]
            /\ dropped[d] = {} => replica[d] = mirror)
=============================================================================
