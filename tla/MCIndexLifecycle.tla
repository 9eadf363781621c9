--------------------------- MODULE MCIndexLifecycle ---------------------------
(* Instances of IndexLifecycle for TLC. *)
EXTENDS IndexLifecycle, TLC

CONSTANTS r1, r2, r3, r4, c1, c2, d1, d2

TwoRequests == {r1, r2}
ThreeRequests == {r1, r2, r3}
FourRequests == {r1, r2, r3, r4}
OneCorpus == {c1}
TwoCorpora == {c1, c2}
OneDoc == {d1}
TwoDocs == {d1, d2}

OverlappingHandlers == Ops \ {"folder"}  \* overlapped like index, read like upload
SerialHandlers == Ops \ {"index", "upload"}   \* alone, each is a folder run

NoFaults == {}
StageFaults == {"stage"}
AllFaults == FaultKinds

\* Requests, corpora and documents are interchangeable: nothing orders them.
SymmetryOfRequests == Permutations(Requests)
SymmetryOfAll ==
    Permutations(Requests) \cup Permutations(Corpora) \cup Permutations(DocIds)
===============================================================================
