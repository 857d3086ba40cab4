----------------------------- MODULE MCDigests -----------------------------
(* Digests with one digest and its group. *)
EXTENDS Digests

MCTexts == {"blank", "a"}
=============================================================================
