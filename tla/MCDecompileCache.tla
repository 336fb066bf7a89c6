-------------------------- MODULE MCDecompileCache --------------------------
(* Instances of DecompileCache for TLC. *)
EXTENDS DecompileCache

CONSTANTS k1, k2, k3

ThreeKeys == {k1, k2, k3}

(* All but the key the warm-up thread decompiles are alike. *)
Alike == Permutations({k2, k3})

(* Small, half the cap and more, and larger than the whole cap. *)
SomeSizes == {2, 3, 6}
=============================================================================
