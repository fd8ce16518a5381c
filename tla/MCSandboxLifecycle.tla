------------------------- MODULE MCSandboxLifecycle -------------------------
(* Small instances of SandboxLifecycle for TLC.                            *)
EXTENDS SandboxLifecycle, TLC

(* API threads are interchangeable.                                        *)
Symmetry == Permutations(Api)
=============================================================================
