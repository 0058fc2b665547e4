------------------------------ MODULE MCArmLock ------------------------------
(* Instances of ArmLock for TLC.                                            *)
EXTENDS ArmLock, TLC

CONSTANTS t1, t2, t3

MCThreads == {t1, t2, t3}
TwoThreads == {t1, t2}
Symmetry == Permutations(MCThreads)
=============================================================================
