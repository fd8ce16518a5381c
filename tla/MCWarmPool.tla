----------------------------- MODULE MCWarmPool -----------------------------
(* Small instances of WarmPool for TLC.                                    *)
EXTENDS WarmPool, TLC

(* API goroutines are interchangeable, and so are eligible sandboxes.      *)
Symmetry == Permutations(Api) \cup Permutations(Eligible)
=============================================================================
