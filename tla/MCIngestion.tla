------------------------------- MODULE MCIngestion -------------------------------
(* An instance of Ingestion for TLC: two stems, one with two texts, and of the files
   that end as an error one of each kind. *)
EXTENDS Ingestion

TwoIds == {1, 2}
SomeTexts == {<<>>, <<1>>, <<1, 3>>, <<2, 3>>}
SomeFiles ==
    {[stem |-> 1, supported |-> TRUE, content |-> text] : text \in {<<1>>, <<2, 3>>}}
    \cup {[stem |-> 2, supported |-> TRUE, content |-> <<1, 3>>],
          [stem |-> 1, supported |-> FALSE, content |-> Unreadable],
          [stem |-> 1, supported |-> TRUE, content |-> Unreadable],
          [stem |-> 2, supported |-> TRUE, content |-> <<>>]}
===============================================================================
