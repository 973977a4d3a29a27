-------------------------------- MODULE MCConnect --------------------------------
(* Instance of Connect for TLC: all its constants are given in the .cfg. *)
EXTENDS Connect

=============================================================================
