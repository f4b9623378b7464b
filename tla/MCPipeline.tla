------------------------------ MODULE MCPipeline ------------------------------
(***************************************************************************)
(* The instances of Pipeline that TLC checks.  The configurations give the *)
(* files as model values; they are interchangeable, since no action orders *)
(* them, and the safety runs use that symmetry.                            *)
(***************************************************************************)
EXTENDS Pipeline, TLC

FileSymmetry == Permutations(Files)
=============================================================================
