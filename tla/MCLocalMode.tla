---------------------------- MODULE MCLocalMode ----------------------------
(* LocalMode on small sets.  The agents run on the devices and are         *)
(* assigned the tasks.                                                     *)
EXTENDS LocalMode, TLC

Symmetry == Permutations(Passes)
=============================================================================
