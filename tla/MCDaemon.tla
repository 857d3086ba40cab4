------------------------------ MODULE MCDaemon ------------------------------
(* One base name that two inbox paths share: a note directly in inbox/, and
   one in a device's own directory, which is created while the daemon runs. *)
EXTENDS BooxDaemon

CONSTANTS top, sub, note

BothNotes == [p \in {top, sub} |-> note]
TopOf == [n \in {note} |-> top]
=============================================================================
