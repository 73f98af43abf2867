-------------------------- MODULE MCDebuginfoStore --------------------------
(* Instances of DebuginfoStore for TLC. *)
EXTENDS DebuginfoStore, TLC

CONSTANTS c1, c2, s1, f1, f2

MCSymmetry == Permutations({c1, c2}) \cup Permutations({f1, f2})

=============================================================================
