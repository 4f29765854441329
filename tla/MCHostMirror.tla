---------------------------- MODULE MCHostMirror ----------------------------
(* Instances of HostMirror for TLC. *)
EXTENDS HostMirror

Choice(id, enabled, text) == [choice_id |-> id, enabled |-> enabled, text |-> text]

\* Two lists: two enabled choices, and a list one longer than MaxChoices whose
\* first entry disables a choice the other list offers.
Offers ==
    {<<Choice(1, TRUE, "yes"), Choice(2, TRUE, "no")>>,
     <<Choice(1, FALSE, "yes"), Choice(2, TRUE, "no"), Choice(1, TRUE, "ask"), Choice(3, TRUE, "go")>>}

Objective(id, state) == [objective_id |-> id, state |-> state, text |-> ""]

\* An open and a completed objective, and a state the protocol does not know.
Reports == {<<Objective(1, s)>> : s \in {QOBJ_ACTIVE, QOBJ_COMPLETED, 3}}

GuestSymmetry == Permutations(Guests)

=============================================================================
