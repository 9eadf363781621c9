---------------------------- MODULE MCSearchPipeline ----------------------------
(* Values for the constants of SearchPipeline. *)
EXTENDS SearchPipeline

ThreeChunks == 1 .. 3
AnyTopK == -1 .. 3

\* Every set of allowed chunks, and both kinds of terms.
SomeFilters == {<<Chunks, {}>>, <<{}, {}>>} \cup {<<Chunks \ {b}, {c}>> : b, c \in Chunks}
=================================================================================
