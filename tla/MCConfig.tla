------------------------------ MODULE MCConfig ------------------------------
(* Seven settings: the collection name and the due-time mode have defaults,
   and the latter is not among those that ask for a restart; the mode of the
   server comes with the environment. *)
EXTENDS Config

CONSTANTS name, due, user, hash, sync, mode, oss, file, a, b

MCKeys == {name, due, user, hash, sync, mode, oss}
MCFlagged == MCKeys \ {due}
MCDefaults == [k \in MCKeys |-> IF k \in {name, due} THEN a ELSE Blank]
MCBodies == {[k \in {user, sync, name} |-> IF k = user THEN Blank ELSE b]}
MCForms == {[k \in {name, due} |-> IF k = due THEN b ELSE Blank]}
MCLogins == {[k \in {user, hash} |-> b]}
MCEnvironments ==
    {[k \in MCKeys \cup {file} |-> Unset],
     [k \in MCKeys \cup {file} |->
         CASE k \in {user, mode} -> a [] k = file -> b [] OTHER -> Unset]}
=============================================================================
