------------------------------- MODULE MCChat -------------------------------
(* Chat with two pages of notes, ranked differently by words and vectors.  *)
EXTENDS Chat

MCKeyword == <<"p", "q">>
MCNear    == <<"q">>
=============================================================================
