--------------------------- MODULE MCDeviceFiles ---------------------------
(* DeviceFiles with a bucket and a folder of the user. *)
EXTENDS DeviceFiles, TLC

MCPaths == {[dir |-> "Note", name |-> "a"], [dir |-> "f", name |-> "a"], [dir |-> "f", name |-> "b"]}
Symmetry == Permutations(Slots)
=============================================================================
