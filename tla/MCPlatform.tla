----------------------------- MODULE MCPlatform -----------------------------
(* Platform on small sets; devices, passes, jobs and saves are             *)
(* interchangeable.                                                        *)
EXTENDS Platform, TLC

Symmetry == Permutations(Devices) \cup Permutations(Passes) \cup Permutations(JobIds)
                \cup Permutations(Saves)
=============================================================================
