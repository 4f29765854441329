----------------------------- MODULE Membership -----------------------------
(***************************************************************************)
(* What the session half of the service promises its clients, without      *)
(* slots, endpoints, connection ids, the registry's size and ticks:        *)
(* who holds which player id, and which id is whose for good.              *)
(*                                                                         *)
(* SessionService implements this specification (ImplementsMembership);    *)
(* ClientSession composes a client with it.                                *)
(*                                                                         *)
(* One step is one handled message.  Whoever the tick of that message      *)
(* finds expired leaves in the same step.                                  *)
(***************************************************************************)
EXTENDS Naturals

CONSTANTS
    Guids,     \* client GUIDs
    Ids,       \* player ids
    Nobody     \* the holder of a free id

ASSUME MembershipAssumption ==
    /\ Ids \subseteq Nat \ {0}
    /\ Nobody \notin Guids

VARIABLES
    seat,      \* seat[i]: the GUID that plays as i, or Nobody
    home       \* home[g]: the id a HELLO of g is given back, 0 while there is none

membership == <<seat, home>>

\* The seats when the players gone have been removed.
Vacated(s, gone) == [i \in Ids |-> IF i \in gone THEN Nobody ELSE s[i]]

\* MSG_HELLO of a GUID without a home: it gets a free id.  The id becomes its
\* home, unless the registry cannot keep the GUID.
Enter(g, i, gone) ==
    /\ home[g] = 0
    /\ seat[i] = Nobody
    /\ i \notin gone
    /\ seat' = Vacated([seat EXCEPT ![i] = g], gone)
    /\ home' \in {home, [home EXCEPT ![g] = i]}

\* MSG_HELLO of a GUID with a home: it gets its home, whoever plays as that.
Return(g, gone) ==
    /\ home[g] \in Ids
    /\ home[g] \notin gone
    /\ seat' = Vacated([seat EXCEPT ![home[g]] = g], gone)
    /\ UNCHANGED home

\* MSG_DISCONNECT, and the timeouts found by the tick of any message.
Depart(gone) ==
    /\ seat' = Vacated(seat, gone)
    /\ UNCHANGED home

MInit ==
    /\ seat = [i \in Ids |-> Nobody]
    /\ home = [g \in Guids |-> 0]

MNext ==
    \E gone \in SUBSET Ids :
        \/ \E g \in Guids, i \in Ids : Enter(g, i, gone)
        \/ \E g \in Guids : Return(g, gone)
        \/ Depart(gone)

MSpec == MInit /\ [][MNext]_membership

=============================================================================
