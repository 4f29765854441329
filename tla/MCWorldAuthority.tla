-------------------------- MODULE MCWorldAuthority --------------------------
(* Instances of WorldAuthority for TLC. *)
EXTENDS WorldAuthority

\* "here" and "there" are more than 512 apart and both within settlement s1;
\* s2 covers "here" only; the hostiles stand "here".
HereOnly == {<<"here", "here">>, <<"there", "there">>}
Reach == [s \in Settlements |-> IF s = "s1" THEN {"here", "there"} ELSE {"here"}]
Limit == [s \in Settlements |-> IF s = "s1" THEN 2 ELSE 1]
Standing == [a \in Actors |-> "here"]

=============================================================================
