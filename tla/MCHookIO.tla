------------------------------ MODULE MCHookIO ------------------------------
(* Instances of HookIO for TLC. *)
EXTENDS HookIO

WriteOnly == {"WRITE"}
ReadWrite == {"READ", "WRITE"}
=============================================================================
