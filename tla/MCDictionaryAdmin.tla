--------------------------- MODULE MCDictionaryAdmin ---------------------------
(* Instances of DictionaryAdmin for TLC. *)
EXTENDS DictionaryAdmin, TLC

CONSTANTS t1, t2

TwoThreads == {t1, t2}
\* Threads are interchangeable.
SymmetryOfThreads == Permutations(Threads)

OneContent == {"A"}
===============================================================================
