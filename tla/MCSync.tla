------------------------------- MODULE MCSync -------------------------------
(***************************************************************************)
(* Small instances of the sync protocol for TLC: two devices and the       *)
(* server, whose site ids order as 1 < 2 < 3, contending for rows of one   *)
(* page.                                                                   *)
(***************************************************************************)
EXTENDS SyncProtocol

CONSTANTS p1, ink

MCPageOf == [c \in {ink} |-> {p1}]

(* Device 1 writes twice, device 3 only reads; the server is the rival. *)
TwoAndNone == [d \in {1, 3} |-> IF d = 1 THEN 2 ELSE 0]
AnyPayload == [d \in {1, 3} |-> {ink, Mistyped, Missing}]

(* Both devices write once, one of them possibly a refused op. *)
OneEach == [d \in {1, 3} |-> 1]
MostlyGood == [d \in {1, 3} |-> IF d = 1 THEN {ink, Mistyped} ELSE {ink}]
=============================================================================
