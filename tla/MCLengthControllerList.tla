------------------------- MODULE MCLengthControllerList -------------------------
(* Instance of LengthControllerList for TLC.  The code never looks at more *)
(* of a worker than its identity and its offset, so workers are            *)
(* interchangeable.                                                        *)
EXTENDS LengthControllerList, TLC

Symmetry == Permutations(Workers)

=============================================================================
