------------------------------- MODULE MCDownload -------------------------------
(* Instance of Download for TLC.  Slots are interchangeable. *)
EXTENDS Download, TLC

Symmetry == Permutations(Workers)

=============================================================================
