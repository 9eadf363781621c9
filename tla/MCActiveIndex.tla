----------------------------- MODULE MCActiveIndex -----------------------------
(* Instances of ActiveIndex for TLC. *)
EXTENDS ActiveIndex, TLC

CONSTANTS t1, t2, t3, v1, v2, v3

TwoThreads == {t1, t2}
ThreeThreads == {t1, t2, t3}
TwoVersions == {v1, v2}
ThreeVersions == {v1, v2, v3}

\* Nothing orders threads or versions.
Symmetry == Permutations(Threads) \cup Permutations(Versions)
===============================================================================
