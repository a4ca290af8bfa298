---------------------------- MODULE MCJSClass ----------------------------
(* Small instances of JSClass for TLC. *)
EXTENDS JSClass, TLC

Symmetry == Permutations(Objects)
===========================================================================
