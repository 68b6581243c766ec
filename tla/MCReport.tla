------------------------------ MODULE MCReport ------------------------------
(* Symmetry of the sources for TLC.                                        *)
EXTENDS Report

SourceSymmetry == Permutations(ShredSource)
=============================================================================
