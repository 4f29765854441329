-------------------------- MODULE WorldReplication --------------------------
(***************************************************************************)
(* WorldAuthority composed with its clients: the datagrams in flight and   *)
(* the proxies each plugin keeps of actors and objects (protocol_apply.c,  *)
(* proxy_runtime.c).                                                       *)
(*                                                                         *)
(* Every client has a channel.  Its head is the oldest datagram; the       *)
(* network may deliver any of the first Window datagrams, so Window = 1 is *)
(* a network that keeps order and a larger Window one that does not.       *)
(* Nothing is lost here.  A client that restarts uses a new socket, so the *)
(* datagrams of its former self never reach it.                            *)
(***************************************************************************)
EXTENDS WorldAuthority

CONSTANTS
    Window,           \* how far the network may reorder
    MaxInFlight,      \* bound of the model: datagrams in a channel when a step starts
    MaxProxyObjects   \* PLUGIN_MAX_PROXY_OBJECTS (256)

ASSUME ReplicationAssumption ==
    /\ Window \in Nat \ {0}
    /\ MaxInFlight \in Nat
    /\ MaxProxyObjects \in Nat

VARIABLES
    chan,    \* chan[c]: datagrams on their way to c
    view,    \* view[c]: the proxies of c
    since    \* since[c]: history, the next net id when c's process started

netVars == <<chan, view, since>>

-----------------------------------------------------------------------------
(***************************************************************************)
(* Proxies                                                                 *)
(***************************************************************************)

NetIds == 1 .. MaxNetId

NoProxy == [in_use |-> FALSE, health |-> 0, is_dead |-> FALSE]

NoProxyObject == [in_use |-> FALSE, place |-> Origin, moved |-> FALSE]

\* proxy_runtime_init.
EmptyView ==
    [actors  |-> [a \in Actors |-> NoProxy],
     objects |-> [id \in NetIds |-> NoProxyObject]]

\* proxy_spawn_actor: a zeroed record with full health.
proxy_spawn_actor(v, a) ==
    [v EXCEPT !.actors[a] = [in_use |-> TRUE, health |-> Full, is_dead |-> FALSE]]

\* pa_apply_actor_state: an unknown actor is spawned first; a positive health
\* clears is_dead.
pa_apply_actor_state(v, m) ==
    LET w == IF v.actors[m.id].in_use THEN v ELSE proxy_spawn_actor(v, m.id)
        x == w.actors[m.id]
    IN  [w EXCEPT !.actors[m.id] =
            [x EXCEPT !.health = m.health, !.is_dead = x.is_dead /\ m.health = 0]]

\* proxy_set_damage_result.
proxy_set_damage_result(v, m) ==
    LET x == v.actors[m.id]
    IN  IF ~x.in_use THEN v
        ELSE [v EXCEPT !.actors[m.id] =
                [x EXCEPT !.health = m.health, !.is_dead = x.is_dead \/ m.health = 0]]

\* proxy_set_death_event.
proxy_set_death_event(v, m) ==
    IF ~v.actors[m.id].in_use THEN v
    ELSE [v EXCEPT !.actors[m.id] = [@ EXCEPT !.health = 0, !.is_dead = TRUE]]

\* proxy_despawn_actor; it fails, and changes nothing, when the actor is unknown.
proxy_despawn_actor(v, m) == [v EXCEPT !.actors[m.id] = NoProxy]

ProxyObjects(v) == {id \in NetIds : v.objects[id].in_use}

\* proxy_spawn_object: the object's own record or a free one.
proxy_spawn_object(v, m) ==
    IF m.id \in ProxyObjects(v) \/ Cardinality(ProxyObjects(v)) < MaxProxyObjects
    THEN [v EXCEPT !.objects[m.id] =
            [in_use |-> TRUE, place |-> m.place, moved |-> m.moved]]
    ELSE v

\* Mutant: only the position of OBJECT_UPDATE is taken over.
proxy_update_object_placeOnly(v, m) ==
    IF m.id \in ProxyObjects(v)
    THEN [v EXCEPT !.objects[m.id] = [@ EXCEPT !.place = m.place]] ELSE v

\* proxy_update_object: an unknown object is not created.
proxy_update_object(v, m) ==
    IF m.id \in ProxyObjects(v)
    THEN [v EXCEPT !.objects[m.id] = [@ EXCEPT !.place = m.place, !.moved = m.moved]]
    ELSE v

proxy_despawn_object(v, m) == [v EXCEPT !.objects[m.id] = NoProxyObject]

plugin_apply_packet(v, m) ==
    CASE m.kind = "actor_spawn"    -> proxy_spawn_actor(v, m.id)
      [] m.kind = "actor_state"    -> pa_apply_actor_state(v, m)
      [] m.kind = "actor_despawn"  -> proxy_despawn_actor(v, m)
      [] m.kind = "damage"         -> proxy_set_damage_result(v, m)
      [] m.kind = "death"          -> proxy_set_death_event(v, m)
      [] m.kind = "object_spawn"   -> proxy_spawn_object(v, m)
      [] m.kind = "object_update"  -> proxy_update_object(v, m)
      [] m.kind = "object_despawn" -> proxy_despawn_object(v, m)

-----------------------------------------------------------------------------
(***************************************************************************)
(* Steps                                                                   *)
(***************************************************************************)

Room == \A c \in Clients : Len(chan[c]) <= MaxInFlight

\* The service sends the outputs of its iteration.
Send == chan' = [c \in Clients |-> chan[c] \o outputs'[c]]

\* A client process starts (or starts again): ebstub_init clears the proxies
\* and opens the connection, and its HELLO is handled.
ClientStarts(c) ==
    /\ Room
    /\ Hello(c)
    /\ chan' = [d \in Clients |-> IF d = c THEN outputs'[c] ELSE chan[d] \o outputs'[d]]
    /\ view' = [view EXCEPT ![c] = EmptyView]
    /\ since' = [since EXCEPT ![c] = nextObject]

\* A retried or duplicated HELLO of a client that has been answered already.
HelloAgain(c) ==
    /\ Room
    /\ c \in connected
    /\ Hello(c)
    /\ Send
    /\ UNCHANGED <<view, since>>

\* mlcb_close: the client says goodbye; its proxies stay until it starts again.
ClientCloses(c) ==
    /\ Room
    /\ Disconnect(c)
    /\ chan' = [d \in Clients |-> IF d = c THEN <<>> ELSE chan[d] \o outputs'[d]]
    /\ UNCHANGED <<view, since>>

\* Any other handled message.
WorldStep(c) ==
    /\ Room
    /\ \/ \E p \in Places : PlayerState(c, p)
       \/ \E t \in Actors : ac_handle_fire_intent(c, t)
       \/ \E s \in Settlements, p \in Places : ac_handle_build_request(c, s, p)
       \/ \E s \in Settlements, p \in Places : BuildWithoutRoom(c, s, p)
       \/ TickOnly(c)
       \/ \E id \in NetIds, p \in Places : ac_handle_object_move(c, id, p)
       \/ \E id \in NetIds : ac_handle_object_scrap(c, id)
    /\ Send
    /\ UNCHANGED <<view, since>>

\* ptc_poll_once of client c takes one datagram and applies it.
Deliver(c) ==
    /\ \E k \in 1 .. Len(chan[c]) :
        /\ k <= Window
        /\ view' = [view EXCEPT ![c] = plugin_apply_packet(@, chan[c][k])]
        /\ chan' = [chan EXCEPT ![c] = RemoveAt(@, k)]
    /\ UNCHANGED <<vars, since>>

RInit ==
    /\ Init
    /\ chan = [c \in Clients |-> <<>>]
    /\ view = [c \in Clients |-> EmptyView]
    /\ since = [c \in Clients |-> 1]

RNext ==
    \E c \in Clients :
        ClientStarts(c) \/ HelloAgain(c) \/ ClientCloses(c) \/ WorldStep(c) \/ Deliver(c)

RSpec == RInit /\ [][RNext]_<<vars, netVars>>

-----------------------------------------------------------------------------
(***************************************************************************)
(* Correctness                                                             *)
(***************************************************************************)

\* What c will show once the datagrams in flight have arrived in order.
Settled(c) == FoldLeft(plugin_apply_packet, view[c], chan[c])

\* Nothing a client shows is wrong in the end: every actor proxy is a live
\* actor with the service's health, whatever mix of spawns, states, damage and
\* deaths a late join, a repeated HELLO and the fight produced.
ActorViewsConverge ==
    \A c \in connected : \A a \in Actors :
        LET x == Settled(c).actors[a]
        IN  x.in_use => /\ actors[a].in_use
                        /\ x.health = actors[a].health
                        /\ ~x.is_dead

\* Every object proxy is an object of the service, where the service has it;
\* and every object built since the client started is shown, wherever it is.
ObjectViewsConverge ==
    \A c \in connected :
        LET v == Settled(c)
        IN  /\ \A id \in ProxyObjects(v) : \E i \in Named(objects, id) :
                   /\ v.objects[id].place = objects[i].place
                   /\ v.objects[id].moved = objects[i].moved
            /\ \A i \in InUse(objects) :
                   objects[i].id >= since[c] => objects[i].id \in ProxyObjects(v)

=============================================================================
