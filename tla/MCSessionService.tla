-------------------------- MODULE MCSessionService --------------------------
(* Instances of SessionService for TLC. *)
EXTENDS SessionService

CONSTANTS e1, e2, e3, e4, g1, g2, g3

\* Every endpoint is one client with a GUID of its own, except that e4 is
\* the client of e1 after a restart on another port.
OwnGuid == [e \in Endpoints |->
    IF e \in {e1, e4} THEN {g1} ELSE IF e = e2 THEN {g2} ELSE {g3}]

OneStamp == {[seq |-> 1, tick |-> 1]}

=============================================================================
