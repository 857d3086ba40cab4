------------------------------ MODULE MCBridge ------------------------------
(* Two pages over a one-place queue, so that a burst overflows it. *)
EXTENDS SyncBridge

CONSTANTS p1, p2, n1, n2

OldPage == {<<n1, p1>>}
=============================================================================
