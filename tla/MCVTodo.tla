------------------------------- MODULE MCVTodo -------------------------------
(* One task, a client that makes an all-day task with everything in it and a
   bare one without STATUS, and one day. *)
EXTENDS VTodo

CONSTANTS w1, w2, u1, x1, n1

MCWords == {w1, w2}
MCUrls == {u1}
MCDays == {1}

Full == [title |-> <<w1, 1>>, detail |-> <<w2, 1>>, status |-> "NEEDS-ACTION",
         completed |-> None, due |-> [form |-> "DATE", at |-> Midnight(1)],
         url |-> u1, meta |-> <<w1, 1>>, extra |-> x1, source |-> n1]

Bare == [title |-> <<w2, 1>>, detail |-> None, status |-> None, completed |-> None,
         due |-> [form |-> "DATE-TIME", at |-> Midday(1)], url |-> None,
         meta |-> None, extra |-> None, source |-> None]

MCBodies == {Full, Bare}
=============================================================================
