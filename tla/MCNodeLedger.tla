---------------------------- MODULE MCNodeLedger ----------------------------
(* Small instances of NodeLedger for TLC.                                  *)
EXTENDS NodeLedger, TLC

(* Routes, engines and operations are interchangeable: no property names a *)
(* particular one.                                                         *)
Symmetry == Permutations(Routes) \cup Permutations(Engines) \cup Permutations(Ops)
=============================================================================
