--------------------------- MODULE WorldAuthority ---------------------------
(***************************************************************************)
(* The world half of the co-op service: hostile actors, workshop objects   *)
(* and settlements (authority_core.c, authority_validation.c,              *)
(* world_state_store.c), the handlers of transport_loop.c that change      *)
(* them, and the snapshot a joining player is sent.                        *)
(*                                                                         *)
(* One step is one iteration of the main loop: a handled message, then     *)
(* tl_tick, then the outputs are sent.  Refused messages change nothing    *)
(* here and are stuttering steps, except a refused build, which is         *)
(* answered and ticks.  The idle timeout is off, as it is by default: a    *)
(* player leaves by MSG_DISCONNECT.                                        *)
(*                                                                         *)
(* Positions are abstracted to places.  What the code asks of two          *)
(* positions is whether they are within a distance: of the bubble, of a    *)
(* settlement's centre, or of the joining player.  Which hostile a shot    *)
(* hits (cone and line of sight) is a choice among the live ones.  Health  *)
(* is counted in quarters; net ids count from 1.                           *)
(***************************************************************************)
EXTENDS Naturals, FiniteSets, SequencesExt

CONSTANTS
    Clients,       \* player slots, numbered as in SessionService
    Places,        \* positions the properties tell apart
    Origin,        \* where a zeroed replicated_state is
    Bubble,        \* places inside the session bubble (only Origin: radius 0)
    Near,          \* pairs of places within the replay radius of 512
    Settlements,   \* settlement ids
    Allowed,       \* Allowed[s]: the places within settlement s
    Budget,        \* object_budget of each settlement
    MaxObjects,    \* F4MP_MAX_OBJECTS_PER_SESSION (8192)
    Actors,        \* net ids of the hostiles spawned at startup
    ActorPlace,    \* where each of them stands
    MaxDespawn,    \* entries of to_despawn in tl_tick (64)
    MaxOutputs,    \* entries of TransportLoopContext.outputs (64)
    MaxNetId       \* bound of the model: object net ids stay below it

Full == 4          \* health_norm 1.0 in quarters

ObjectSlots == 1 .. MaxObjects

ASSUME WorldAssumption ==
    /\ Clients \subseteq Nat \ {0}
    /\ IsFiniteSet(Clients)
    /\ Origin \in Places
    /\ Bubble \subseteq Places
    /\ Settlements # {}
    /\ Near \subseteq Places \X Places
    /\ Allowed \in [Settlements -> SUBSET Places]
    /\ Budget \in [Settlements -> Nat]
    /\ MaxObjects \in Nat \ {0}
    /\ Actors \subseteq Nat \ {0}
    /\ IsFiniteSet(Actors)
    /\ ActorPlace \in [Actors -> Places]
    /\ MaxDespawn \in Nat \ {0}
    /\ MaxOutputs \in Nat
    /\ MaxNetId \in Nat \ {0}

VARIABLES
    connected,   \* the connected player slots
    pos,         \* pos[c]: the position in c's replicated_state
    actors,      \* the actor slots, by net id
    objects,     \* the object slots
    count,       \* object_count of each settlement
    nextObject,  \* g_next_object_id
    outputs      \* outputs[c]: what the last iteration sent to c, in order

vars == <<connected, pos, actors, objects, count, nextObject, outputs>>

-----------------------------------------------------------------------------
(***************************************************************************)
(* Slots                                                                   *)
(***************************************************************************)

ActorRecord ==
    [in_use : BOOLEAN, health : 0 .. Full, dead : BOOLEAN, pending : BOOLEAN]

NoActor == [in_use |-> FALSE, health |-> 0, dead |-> FALSE, pending |-> FALSE]

\* ac_spawn_hostile_actor.
Hostile == [in_use |-> TRUE, health |-> Full, dead |-> FALSE, pending |-> FALSE]

\* ObjectRuntimeState; moved is the OBJF_MOVED flag.  The owner is stored by
\* the code and never read.  A free slot's fields are zero, its settlement and
\* place then mean nothing.
ObjectRecord ==
    [in_use : BOOLEAN, id : 0 .. MaxNetId, settlement : Settlements,
     place : Places, moved : BOOLEAN]

NoObject ==
    [in_use |-> FALSE, id |-> 0, settlement |-> CHOOSE s \in Settlements : TRUE,
     place |-> Origin, moved |-> FALSE]

InUse(os) == {i \in ObjectSlots : os[i].in_use}

\* find_object: the first slot in use that carries the net id.
Named(os, id) == {i \in InUse(os) : os[i].id = id}

find_object(os, id) == Min(Named(os, id))

\* ws_alloc_object and the assignments after it.
ws_alloc_object(os, id, s, p) ==
    [os EXCEPT ![Min(ObjectSlots \ InUse(os))] =
        [in_use |-> TRUE, id |-> id, settlement |-> s, place |-> p, moved |-> FALSE]]

ws_remove_object(os, id) == [os EXCEPT ![find_object(os, id)] = NoObject]

-----------------------------------------------------------------------------
(***************************************************************************)
(* Outputs                                                                 *)
(***************************************************************************)

ActorSpawn(a)      == [kind |-> "actor_spawn", id |-> a]
ActorState(a, r)   == [kind |-> "actor_state", id |-> a, health |-> r.health]
Damage(a, r)       == [kind |-> "damage", id |-> a, health |-> r.health]
Death(a)           == [kind |-> "death", id |-> a]
ActorDespawn(a)    == [kind |-> "actor_despawn", id |-> a]
ObjectSpawn(o)     == [kind |-> "object_spawn", id |-> o.id, place |-> o.place,
                       moved |-> o.moved]
ObjectUpdate(o)    == [kind |-> "object_update", id |-> o.id, place |-> o.place,
                       moved |-> o.moved]
ObjectDespawn(id)  == [kind |-> "object_despawn", id |-> id]

\* Slots are searched in the order of the net ids in them.
InOrder(S) ==
    CHOOSE f \in [1 .. Cardinality(S) -> S] : \A i, j \in DOMAIN f : i < j => f[i] < f[j]

\* How many of n messages, each broadcast to the slots cs in turn, reach c when
\* base messages are already in the buffer: tl_push_output drops the rest.
Fits(cs, c, n, base) ==
    LET rank == Cardinality({d \in cs : d <= c})
    IN  Cardinality({k \in 1 .. n :
            base + (k - 1) * Cardinality(cs) + rank <= MaxOutputs})

Broadcast(cs, msgs, base) ==
    [c \in Clients |->
        IF c \in cs THEN SubSeq(msgs, 1, Fits(cs, c, Len(msgs), base)) ELSE <<>>]

\* Mutant: MSG_ACTOR_SPAWN is not followed by MSG_ACTOR_STATE.
ReplayOf_spawnOnly(as, os, p) ==
    FlattenSeq([k \in 1 .. Cardinality(Actors) |->
        LET a == InOrder(Actors)[k]
        IN  IF as[a].in_use /\ <<ActorPlace[a], p>> \in Near
            THEN <<ActorSpawn(a)>> ELSE <<>>])

\* tl_send_existing_state_to_player to a player at place p: actors with their
\* state, then objects, in the order of their slots.
ReplayOf(as, os, p) ==
    FlattenSeq([k \in 1 .. Cardinality(Actors) |->
        LET a == InOrder(Actors)[k]
        IN  IF as[a].in_use /\ <<ActorPlace[a], p>> \in Near
            THEN <<ActorSpawn(a), ActorState(a, as[a])>> ELSE <<>>])
    \o
    FlattenSeq([i \in ObjectSlots |->
        IF os[i].in_use /\ <<os[i].place, p>> \in Near
        THEN <<ObjectSpawn(os[i])>> ELSE <<>>])

\* Five messages (welcome and profile) and the other players' states precede
\* the replay.
HelloBase(cs) == 5 + (Cardinality(cs) - 1)

HelloReply(cs, c, msgs) == Broadcast({c}, msgs, HelloBase(cs))

-----------------------------------------------------------------------------
(***************************************************************************)
(* tl_tick                                                                 *)
(***************************************************************************)

\* Mutant: dead actors are never marked.
ac_tick_noMark(as) == as

\* ac_tick: a dead actor is marked; one marked before is removed on the spot.
ac_tick(as) ==
    [a \in Actors |->
        IF as[a].in_use /\ as[a].dead
        THEN IF as[a].pending THEN NoActor ELSE [as[a] EXCEPT !.pending = TRUE]
        ELSE as[a]]

Doomed(as) == {a \in Actors : as[a].in_use /\ as[a].pending /\ as[a].dead}

\* Mutant: the list is one entry shorter.
Despawned_short(as) ==
    {a \in Doomed(as) : Cardinality({b \in Doomed(as) : b <= a}) < MaxDespawn}

\* The first MaxDespawn of them fit into to_despawn.
Despawned(as) ==
    {a \in Doomed(as) : Cardinality({b \in Doomed(as) : b <= a}) <= MaxDespawn}

Despawns(gone) ==
    [k \in 1 .. Cardinality(gone) |-> ActorDespawn(InOrder(gone)[k])]

\* The handler left the actors at as, put out into the buffer as number base.
tl_tick(as, cs, out, base) ==
    LET ts   == ac_tick(as)
        gone == Despawned(ts)
        last == Broadcast(cs, Despawns(gone), base)
    IN  /\ actors' = [a \in Actors |-> IF a \in gone THEN NoActor ELSE ts[a]]
        /\ outputs' = [c \in Clients |-> out[c] \o last[c]]

Silence == [c \in Clients |-> <<>>]

-----------------------------------------------------------------------------
(***************************************************************************)
(* Players                                                                 *)
(***************************************************************************)

\* MSG_HELLO: a new slot starts at Origin, a known one keeps its position.
Hello(c) ==
    \E p \in IF c \in connected THEN {pos[c]} ELSE {Origin, pos[c]} :
        LET cs   == connected \cup {c}
            msgs == ReplayOf(actors, objects, p)
        IN  /\ connected' = cs
            /\ pos' = [pos EXCEPT ![c] = p]
            /\ tl_tick(actors, cs, HelloReply(cs, c, msgs), HelloBase(cs) + Len(msgs))
            /\ UNCHANGED <<objects, count, nextObject>>

\* MSG_DISCONNECT.
Disconnect(c) ==
    /\ c \in connected
    /\ connected' = connected \ {c}
    /\ tl_tick(actors, connected', Silence, Cardinality(connected))
    /\ UNCHANGED <<pos, objects, count, nextObject>>

\* MSG_PLAYER_STATE that the relay filter accepts.
PlayerState(c, p) ==
    /\ c \in connected
    /\ pos' = [pos EXCEPT ![c] = p]
    /\ tl_tick(actors, connected, Silence, Cardinality(connected))
    /\ UNCHANGED <<connected, objects, count, nextObject>>

-----------------------------------------------------------------------------
(***************************************************************************)
(* Combat                                                                  *)
(***************************************************************************)

Targets == {a \in Actors : actors[a].in_use /\ ~actors[a].dead}

\* A quarter less, at least 0; dead at 0.
Hit(r) ==
    LET h == IF r.health > 0 THEN r.health - 1 ELSE 0
    IN  [r EXCEPT !.health = h, !.dead = (h = 0)]

\* MSG_FIRE_INTENT that hits hostile t.
ac_handle_fire_intent(c, t) ==
    /\ c \in connected
    /\ pos[c] \in Bubble
    /\ t \in Targets
    /\ LET r    == Hit(actors[t])
           msgs == <<Damage(t, r), ActorState(t, r)>>
                   \o (IF r.dead THEN <<Death(t)>> ELSE <<>>)
       IN  tl_tick([actors EXCEPT ![t] = r], connected,
                   Broadcast(connected, msgs, 0), Len(msgs) * Cardinality(connected))
    /\ UNCHANGED <<connected, pos, objects, count, nextObject>>

-----------------------------------------------------------------------------
(***************************************************************************)
(* Workshop                                                                *)
(***************************************************************************)

\* Mutant: one object more than the budget.
validate_build_request_over(c, s, p) ==
    c \in connected /\ count[s] <= Budget[s] /\ p \in Allowed[s]

\* validate_build_request, for a whitelisted form with no snap target or one
\* in the same settlement.
validate_build_request(c, s, p) ==
    c \in connected /\ count[s] < Budget[s] /\ p \in Allowed[s]

\* Mutant: the net id counter is not advanced.
ac_handle_build_request_sameId(c, s, p) ==
    /\ nextObject < MaxNetId
    /\ validate_build_request(c, s, p)
    /\ ObjectSlots \ InUse(objects) # {}
    /\ objects' = ws_alloc_object(objects, nextObject, s, p)
    /\ count' = [count EXCEPT ![s] = @ + 1]
    /\ LET o == objects'[find_object(objects', nextObject)]
       IN  tl_tick(actors, connected, Broadcast(connected, <<ObjectSpawn(o)>>, 1),
                   1 + Cardinality(connected))
    /\ UNCHANGED <<connected, pos, nextObject>>

\* MSG_BUILD_REQUEST that is accepted: one MSG_BUILD_RESULT, then the spawn.
ac_handle_build_request(c, s, p) ==
    /\ nextObject < MaxNetId
    /\ validate_build_request(c, s, p)
    /\ ObjectSlots \ InUse(objects) # {}
    /\ objects' = ws_alloc_object(objects, nextObject, s, p)
    /\ nextObject' = nextObject + 1
    /\ count' = [count EXCEPT ![s] = @ + 1]
    /\ LET o == objects'[find_object(objects', nextObject)]
       IN  tl_tick(actors, connected, Broadcast(connected, <<ObjectSpawn(o)>>, 1),
                   1 + Cardinality(connected))
    /\ UNCHANGED <<connected, pos>>

\* ... and one that finds no free slot: the net id is consumed all the same.
BuildWithoutRoom(c, s, p) ==
    /\ nextObject < MaxNetId
    /\ validate_build_request(c, s, p)
    /\ ObjectSlots \ InUse(objects) = {}
    /\ nextObject' = nextObject + 1
    /\ tl_tick(actors, connected, Silence, 1)
    /\ UNCHANGED <<connected, pos, objects, count>>

\* A refused build, MSG_PING, MSG_INPUT_STATE, a stale MSG_PLAYER_STATE, a shot
\* that hits nobody: the actors are ticked, nothing of the world is sent.
TickOnly(c) ==
    /\ c \in connected
    /\ \E base \in {0, 1, Cardinality(connected)} :
          tl_tick(actors, connected, Silence, base)
    /\ UNCHANGED <<connected, pos, objects, count, nextObject>>

\* MSG_OBJECT_MOVE_REQ of any connected player, owner or not.
ac_handle_object_move(c, id, p) ==
    /\ c \in connected
    /\ Named(objects, id) # {}
    /\ LET i == find_object(objects, id)
       IN  /\ p \in Allowed[objects[i].settlement]
           /\ objects' = [objects EXCEPT ![i] = [@ EXCEPT !.place = p, !.moved = TRUE]]
           /\ tl_tick(actors, connected,
                      Broadcast(connected, <<ObjectUpdate(objects'[i])>>, 0),
                      Cardinality(connected))
    /\ UNCHANGED <<connected, pos, count, nextObject>>

\* MSG_OBJECT_SCRAP_REQ.
ac_handle_object_scrap(c, id) ==
    /\ c \in connected
    /\ Named(objects, id) # {}
    /\ count' = [count EXCEPT ![objects[find_object(objects, id)].settlement] =
                    IF @ > 0 THEN @ - 1 ELSE 0]
    /\ objects' = ws_remove_object(objects, id)
    /\ tl_tick(actors, connected, Broadcast(connected, <<ObjectDespawn(id)>>, 0),
               Cardinality(connected))
    /\ UNCHANGED <<connected, pos, nextObject>>

-----------------------------------------------------------------------------

Init ==
    /\ connected = {}
    /\ pos = [c \in Clients |-> Origin]
    /\ actors = [a \in Actors |-> Hostile]
    /\ objects = [i \in ObjectSlots |-> NoObject]
    /\ count = [s \in Settlements |-> 0]
    /\ nextObject = 1
    /\ outputs = Silence

Step(c) ==
    \/ Hello(c)
    \/ Disconnect(c)
    \/ \E p \in Places : PlayerState(c, p)
    \/ \E t \in Actors : ac_handle_fire_intent(c, t)
    \/ \E s \in Settlements, p \in Places : ac_handle_build_request(c, s, p)
    \/ \E s \in Settlements, p \in Places : BuildWithoutRoom(c, s, p)
    \/ TickOnly(c)
    \/ \E id \in 1 .. MaxNetId, p \in Places : ac_handle_object_move(c, id, p)
    \/ \E id \in 1 .. MaxNetId : ac_handle_object_scrap(c, id)

Next == \E c \in Clients : Step(c)

Spec == Init /\ [][Next]_vars

-----------------------------------------------------------------------------
(***************************************************************************)
(* Correctness                                                             *)
(***************************************************************************)

\* Types: health stays between 0 and 1.0 however often an actor is hit, and
\* slots, counters and positions stay in their ranges.
TypeOK ==
    /\ connected \subseteq Clients
    /\ pos \in [Clients -> Places]
    /\ actors \in [Actors -> ActorRecord]
    /\ objects \in [ObjectSlots -> ObjectRecord]
    /\ count \in [Settlements -> Nat]
    /\ nextObject \in 1 .. MaxNetId

ObjectsOf(s) == {i \in InUse(objects) : objects[i].settlement = s}

\* A settlement's object_count is kept apart from the slots and updated by two
\* handlers: it is the number of its objects, and it respects the budget.
BudgetIsKept ==
    \A s \in Settlements :
        count[s] = Cardinality(ObjectsOf(s)) /\ count[s] <= Budget[s]

\* Requests name objects by net id and the code takes the first match: no two
\* objects share a net id, and none has one that is still to be given out,
\* although slots are reused and failed builds consume ids.
NetIdsAreUnique ==
    /\ \A i, j \in InUse(objects) : objects[i].id = objects[j].id => i = j
    /\ \A i \in InUse(objects) : objects[i].id < nextObject

\* A kill is completed by the tick of its own iteration: a joining player is
\* never sent a corpse, and nobody shoots one.
NoCorpseStays ==
    \A a \in Actors : actors[a].in_use => ~actors[a].dead /\ ~actors[a].pending

\* ac_tick has a path that removes an actor without a word.  Whenever an actor
\* goes, every connected player is sent MSG_ACTOR_DESPAWN.
DespawnIsAnnounced ==
    [][\A a \in Actors : actors[a].in_use /\ ~actors'[a].in_use =>
          \A c \in connected' : ActorDespawn(a) \in Range(outputs'[c])]_vars

=============================================================================
