------------------------- MODULE MCWorldReplication -------------------------
(* Instances of WorldReplication for TLC. *)
EXTENDS WorldReplication

\* "here" and "there" are more than 512 apart; the settlement covers both; the
\* hostile stands "here", out of the sight of a player that comes back "there".
HereOnly == {<<"here", "here">>, <<"there", "there">>}
Reach == [s \in Settlements |-> {"here", "there"}]
Limit == [s \in Settlements |-> 2]
Standing == [a \in Actors |-> "here"]

=============================================================================
