---------------------------- MODULE MCWeightedFusion ----------------------------
(* Values for the constants of WeightedFusion: three chunks, scores of either sign,
   equal, unequal, zero and negative weights. *)
EXTENDS WeightedFusion

ThreeChunks == 1 .. 3
SomeScores == {-1, 0, 2}
SomeWeights == {[dense |-> 1, lexical |-> 1], [dense |-> 3, lexical |-> 1],
                [dense |-> 0, lexical |-> 1], [dense |-> 2, lexical |-> -1]}
SomeFactors == {1, 3}
SomeOffsets == {-1, 0, 2}
=================================================================================
