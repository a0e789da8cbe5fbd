---------------------------- MODULE MCSecTsTouch ----------------------------
(* Two fingers: the smallest panel on which the count, the key and the      *)
(* slots can disagree.                                                      *)
EXTENDS SecTsTouch, TLC

CONSTANTS f1, f2

MCFingers == {f1, f2}
MCOneFinger == {f1}
FingerSymmetry == Permutations(MCFingers)
=============================================================================
