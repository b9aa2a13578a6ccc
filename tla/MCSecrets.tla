------------------------------ MODULE MCSecrets ------------------------------
(****************************************************************************)
(* Instances of Secrets for TLC.                                            *)
(****************************************************************************)
EXTENDS Secrets, TLC

CONSTANTS c1, c2, w1, w2, value1, value2

Symmetry == Permutations(Callers) \cup Permutations(Workloads)

==============================================================================
