--------------------------- MODULE SessionService ---------------------------
(***************************************************************************)
(* The session half of the co-op service: the UDP main loop of             *)
(* service_main.c, the envelope handler and the tick of transport_loop.c,  *)
(* the player slots (session_manager.c, world_state_store.c) and the GUID  *)
(* registry (session_registry.c).                                          *)
(*                                                                         *)
(* The service is single threaded.  One step of this specification is one  *)
(* iteration of the main loop: a datagram is received, its endpoint gets a *)
(* connection id, the envelope is handled, and - only when the handler     *)
(* returns true - tl_tick runs and the collected outputs are sent.         *)
(*                                                                         *)
(* Slots are numbered from 1 here (0..7 in the code), connection ids are   *)
(* the binding's position (100, 101, ... in the code), and last_heard_tick *)
(* is kept as the number of ticks since the player was last heard.         *)
(***************************************************************************)
EXTENDS Naturals, FiniteSets, FiniteSetsExt, RelayPolicy

CONSTANTS
    Endpoints,     \* UDP endpoints that send datagrams
    Guids,         \* client GUIDs
    EmptyGuids,    \* those that are the empty string
    LongGuids,     \* those of 64 bytes: longer than a registry entry holds
    Speaks,        \* Speaks[e]: the GUIDs endpoint e puts into its HELLOs
    MaxPlayers,    \* F4MP_MAX_PLAYERS_PER_SESSION (8)
    MaxRegistry,   \* F4MP_MAX_REGISTRY (32)
    MaxBindings,   \* entries of g_bindings (16)
    MaxOutputs,    \* entries of TransportLoopContext.outputs (64)
    TimeoutTicks,  \* F4MP_PLAYER_TIMEOUT_TICKS; 0 switches the timeout off
    States,        \* the stamps a MSG_PLAYER_STATE may carry
    WorldReplay    \* how many actor and object messages a join may replay

Slots == 1 .. MaxPlayers

\* candidate_id runs from 1 and must stay below F4MP_MAX_PLAYERS_PER_SESSION.
PlayerIds == 1 .. (MaxPlayers - 1)

ASSUME SizesAssumption ==
    /\ MaxPlayers \in Nat \ {0, 1}
    /\ MaxRegistry \in Nat \ {0}
    /\ MaxBindings \in Nat \ {0}
    /\ TimeoutTicks \in Nat
    /\ MaxOutputs \in Nat
    /\ MaxOutputs >= 5 + MaxPlayers

ASSUME InputsAssumption ==
    /\ States \subseteq Stamps
    /\ WorldReplay \subseteq Nat
    /\ EmptyGuids \subseteq Guids
    /\ LongGuids \subseteq Guids
    /\ EmptyGuids \cap LongGuids = {}
    /\ Speaks \in [Endpoints -> SUBSET Guids]

VARIABLES
    binding,    \* binding[e]: the connection id of endpoint e, 0 when it has none
    bound,      \* number of g_bindings entries in use (they are never freed)
    registry,   \* registry[g]: the player id GUID g finds, 0 when it finds none
    used,       \* number of g_registry entries in use (they are never freed)
    players,    \* the player slots
    outputs     \* what the last loop iteration sent

vars == <<binding, bound, registry, used, players, outputs>>

-----------------------------------------------------------------------------
(***************************************************************************)
(* Slots                                                                   *)
(***************************************************************************)

\* PlayerRuntimeState: state is the player_id inside replicated_state, which
\* stays 0 until the first accepted MSG_PLAYER_STATE; guid is profile_ref's.
PlayerRecord ==
    [connected : BOOLEAN,
     player_id : 0 .. MaxPlayers,
     conn      : 0 .. MaxBindings,
     silent    : 0 .. TimeoutTicks,
     stats     : Stamps,
     state     : 0 .. MaxPlayers,
     guid      : Guids \cup {"none"}]

\* The zeroed slot of ws_init_session.
EmptySlot ==
    [connected |-> FALSE, player_id |-> 0, conn |-> 0, silent |-> 0,
     stats |-> NoStats, state |-> 0, guid |-> "none"]

Connected(ps) == {i \in Slots : ps[i].connected}

\* find_player: the first connected slot with this id.
find_player(ps, id) ==
    Min({i \in Connected(ps) : ps[i].player_id = id})

\* tl_find_player_by_connection.
HasPlayer(ps, c) == \E i \in Connected(ps) : ps[i].conn = c

find_by_connection(ps, c) == Min({i \in Connected(ps) : ps[i].conn = c})

\* Mutant: the last free slot instead of the first.
ws_alloc_player_last(ps, id, c) ==
    [ps EXCEPT ![Max(Slots \ Connected(ps))] =
        [connected |-> TRUE, player_id |-> id, conn |-> c, silent |-> 0,
         stats |-> NoStats, state |-> 0, guid |-> "none"]]

\* ws_alloc_player: the first slot that is not connected is zeroed and taken.
ws_alloc_player(ps, id, c) ==
    [ps EXCEPT ![Min(Slots \ Connected(ps))] =
        [connected |-> TRUE, player_id |-> id, conn |-> c, silent |-> 0,
         stats |-> NoStats, state |-> 0, guid |-> "none"]]

\* sm_reconnect_player: the first slot with this id, connected or not.
sm_reconnect_player(ps, id, c) ==
    [ps EXCEPT ![Min({i \in Slots : ps[i].player_id = id})] =
        [@ EXCEPT !.connected = TRUE, !.conn = c]]

\* sm_remove_player keeps the id, the relay stats and the replicated state.
Removed(p) == [p EXCEPT !.connected = FALSE, !.conn = 0, !.silent = 0]

\* The players of the slots gone are removed by their ids: of each, the first
\* slot that carries the id, connected or not.
SlotsById(ps, gone) ==
    {Min({k \in Slots : ps[k].player_id = ps[i].player_id}) : i \in gone}

sm_remove_player(ps, gone) ==
    [i \in Slots |-> IF i \in SlotsById(ps, gone) THEN Removed(ps[i]) ELSE ps[i]]

\* Mutant: a message counts as one of every player.
Heard_all(ps, i) == [j \in Slots |-> [ps[j] EXCEPT !.silent = 0]]

\* last_heard_tick = current_tick.
Heard(ps, i) == [ps EXCEPT ![i].silent = 0]

-----------------------------------------------------------------------------
(***************************************************************************)
(* Outputs.  The buffer is a set of datagrams: UDP does not keep an order, *)
(* so the order matters only for what no longer fits (tl_push_output       *)
(* drops silently).  A message is kept when its position in the buffer is  *)
(* within MaxOutputs; base counts the pushes before it.                    *)
(***************************************************************************)

Output(c, k, id) == [to |-> c, kind |-> k, who |-> id]

Outputs ==
    [to : 1 .. MaxBindings, kind : {"welcome", "state", "left", "pong"},
     who : 0 .. MaxPlayers]

\* tl_broadcast_player_state, the first broadcast of its iteration.
StateBroadcast(ps, i) ==
    {Output(ps[j].conn, "state", ps[i].state) : j \in Connected(ps)}

\* Mutant: the loop over the receivers starts behind the leaver's slot.
LeftPairs_behind(ps, gone) ==
    {p \in gone \X Connected(ps) : p[2] >= p[1]}

\* The (leaver, receiver) pairs that tl_broadcast_player_left sends while the
\* leavers are removed one after the other: a leaver still hears of itself,
\* and of those removed before it, but of none removed after it.
LeftPairs(ps, gone) ==
    {p \in gone \X Connected(ps) : ~(p[2] \in gone /\ p[2] < p[1])}

\* The pairs sent up to and including p.
UpTo(pairs, p) ==
    {q \in pairs : q[1] < p[1] \/ (q[1] = p[1] /\ q[2] <= p[2])}

LeftBroadcast(ps, gone, base) ==
    LET pairs == LeftPairs(ps, gone)
        fits  == {p \in pairs : base + Cardinality(UpTo(pairs, p)) <= MaxOutputs}
    IN  {Output(ps[p[2]].conn, "left", ps[p[1]].player_id) : p \in fits}

\* The part of the HELLO reply that always fits: MSG_WELCOME, four profile
\* messages (counted, not listed) and the state of every other live player.
JoinReply(ps, i) ==
    {Output(ps[i].conn, "welcome", ps[i].player_id)}
    \cup {Output(ps[i].conn, "state", ps[j].state) : j \in Connected(ps) \ {i}}

\* How many outputs the whole reply pushes, world replay included.
JoinReplySize(ps, w) == 5 + (Cardinality(Connected(ps)) - 1) + w

-----------------------------------------------------------------------------
(***************************************************************************)
(* tl_tick                                                                 *)
(***************************************************************************)

Expired(ps) ==
    {i \in Connected(ps) : TimeoutTicks > 0 /\ ps[i].silent + 1 > TimeoutTicks}

\* current_tick++: everybody who stays has been silent for one tick more.
Aged(ps) ==
    [i \in Slots |->
        IF ps[i].connected /\ TimeoutTicks > 0
        THEN [ps[i] EXCEPT !.silent = @ + 1]
        ELSE ps[i]]

\* Mutant: timed-out players are removed without a broadcast.
tl_tick_quiet(ps, out, base) ==
    players' = Aged(sm_remove_player(ps, Expired(ps))) /\ outputs' = out

\* The handler left the slots at ps, produced out and pushed base messages.
tl_tick(ps, out, base) ==
    LET gone == Expired(ps)
    IN  /\ players' = Aged(sm_remove_player(ps, gone))
        /\ outputs' = out \cup LeftBroadcast(ps, gone, base)

\* The handler returned false: no tick, and its outputs are not sent.
NotHandled(ps) == players' = ps /\ outputs' = {}

-----------------------------------------------------------------------------
(***************************************************************************)
(* The main loop: a connection id for every endpoint ever heard            *)
(***************************************************************************)

\* The id get_connection_id_for_endpoint returns; 0 when the table is full.
ConnectionOf(e) ==
    IF binding[e] # 0 THEN binding[e]
    ELSE IF bound < MaxBindings THEN bound + 1 ELSE 0

\* ... and the entry it takes for an endpoint it has not seen.
get_connection_id_for_endpoint(e) ==
    /\ ConnectionOf(e) # 0
    /\ binding' = [binding EXCEPT ![e] = ConnectionOf(e)]
    /\ bound' = IF binding[e] # 0 THEN bound ELSE bound + 1

\* A datagram of a player that has joined: its slot, unless the datagram is
\* one of an unknown connection (then Refused below is the step).
FromPlayer(e, i) ==
    /\ HasPlayer(players, ConnectionOf(e))
    /\ i = find_player(players,
             players[find_by_connection(players, ConnectionOf(e))].player_id)
    /\ get_connection_id_for_endpoint(e)
    /\ UNCHANGED <<registry, used>>

-----------------------------------------------------------------------------
(***************************************************************************)
(* MSG_HELLO                                                               *)
(***************************************************************************)

\* Mutant: the id search goes one too far.
FreeIds_oneTooMany(ps) ==
    {id \in 1 .. MaxPlayers : \A i \in Connected(ps) : ps[i].player_id # id}

\* The ids no connected player holds (find_player_const in the id search).
FreeIds(ps) == {id \in PlayerIds : \A i \in Connected(ps) : ps[i].player_id # id}

\* Mutants: nothing is stored; a full registry starts again from its first entry.
sr_bind_player_lost(g, id) == UNCHANGED <<registry, used>>

sr_bind_player_restart(g, id) ==
    /\ used' = IF used = MaxRegistry THEN used ELSE used + 1
    /\ registry' =
         LET kept == IF used = MaxRegistry THEN [h \in Guids |-> 0] ELSE registry
         IN  IF g \in LongGuids THEN kept ELSE [kept EXCEPT ![g] = id]

\* sr_bind_player, for a GUID that sr_find_player_id did not find: an empty
\* GUID is not stored, a full registry stores nothing, and a GUID of 64 bytes
\* takes an entry that no lookup will match.
sr_bind_player(g, id) ==
    IF g \in EmptyGuids \/ used = MaxRegistry
    THEN UNCHANGED <<registry, used>>
    ELSE /\ used' = used + 1
         /\ registry' = IF g \in LongGuids THEN registry
                        ELSE [registry EXCEPT ![g] = id]

\* Mutant: a reconnect keeps the GUID of the slot's former player.
Greet_oldGuid(ps, id, c, g, w) ==
    LET i  == find_player(ps, id)
        qs == [ps EXCEPT ![i] = [@ EXCEPT !.conn = c, !.silent = 0]]
    IN  tl_tick(qs, JoinReply(qs, i), JoinReplySize(qs, w))

\* What the handler does once the slot is known, and the tick after it.
\* strncpy into profile_ref, connection_id, last_heard_tick, profile, replies.
Greet(ps, id, c, g, w) ==
    LET i  == find_player(ps, id)
        qs == [ps EXCEPT ![i] = [@ EXCEPT !.conn = c, !.silent = 0, !.guid = g]]
    IN  tl_tick(qs, JoinReply(qs, i), JoinReplySize(qs, w))

\* A GUID the registry does not know: the lowest free id in the lowest free
\* slot.
JoinSession(e, g, w) ==
    /\ registry[g] = 0
    /\ FreeIds(players) # {}
    /\ Slots \ Connected(players) # {}
    /\ get_connection_id_for_endpoint(e)
    /\ LET id == Min(FreeIds(players))
           c  == ConnectionOf(e)
       IN  /\ sr_bind_player(g, id)
           /\ Greet(ws_alloc_player(players, id, c), id, c, g, w)

\* A GUID the registry knows: its slot is taken over, whoever holds it.
Reconnect(e, g, w) ==
    /\ registry[g] # 0
    /\ \E i \in Slots : players[i].player_id = registry[g]
    /\ get_connection_id_for_endpoint(e)
    /\ LET id == registry[g]
           c  == ConnectionOf(e)
       IN  Greet(sm_reconnect_player(players, id, c), id, c, g, w)
    /\ UNCHANGED <<registry, used>>

-----------------------------------------------------------------------------
(***************************************************************************)
(* The other messages                                                      *)
(***************************************************************************)

\* MSG_PING.
RecvPing(e) ==
    \E i \in Slots :
        /\ FromPlayer(e, i)
        /\ tl_tick(Heard(players, i), {Output(ConnectionOf(e), "pong", 0)}, 1)

\* MSG_DISCONNECT: everybody, the leaver included, is told before it goes.
RecvDisconnect(e) ==
    \E i \in Slots :
        /\ FromPlayer(e, i)
        /\ LET ps == Heard(players, i)
           IN  tl_tick(sm_remove_player(ps, {i}), LeftBroadcast(ps, {i}, 0),
                       Cardinality(Connected(ps)))

\* MSG_PLAYER_STATE with the sender's own id, accepted by the relay policy.
RelayPlayerState(e, m) ==
    \E i \in Slots :
        /\ FromPlayer(e, i)
        /\ psr_evaluate(players[i].stats, m)
        /\ LET ps == [Heard(players, i) EXCEPT
                        ![i].stats = psr_absorb(@, m),
                        ![i].state = players[i].player_id]
           IN  tl_tick(ps, StateBroadcast(ps, i), Cardinality(Connected(ps)))

\* MSG_PLAYER_STATE refused by the relay policy: still heard, still a tick.
StalePlayerState(e, m) ==
    \E i \in Slots :
        /\ FromPlayer(e, i)
        /\ ~psr_evaluate(players[i].stats, m)
        /\ tl_tick(Heard(players, i), {}, 0)

\* MSG_INPUT_STATE: the stored state is sent again with the new equipment.
RecvInputState(e) ==
    \E i \in Slots :
        /\ FromPlayer(e, i)
        /\ LET ps == Heard(players, i)
           IN  tl_tick(ps, StateBroadcast(ps, i), Cardinality(Connected(ps)))

\* MSG_FIRE_INTENT that passes validation (nothing hit; damage and actor
\* state; death as well) and MSG_BUILD_REQUEST (refused; accepted).
RecvCombatOrBuild(e) ==
    \E i \in Slots :
        /\ FromPlayer(e, i)
        /\ LET ps == Heard(players, i)
               n  == Cardinality(Connected(ps))
           IN  \E base \in {0, 2 * n, 3 * n, 1, 1 + n} : tl_tick(ps, {}, base)

\* MSG_FIRE_INTENT that validation refuses, after last_heard_tick was set.
RefusedFire(e) ==
    \E i \in Slots :
        /\ FromPlayer(e, i)
        /\ NotHandled(Heard(players, i))

\* MSG_OBJECT_MOVE_REQ, MSG_OBJECT_SCRAP_REQ and MSG_DIALOGUE_SELECT that
\* are accepted.  These handlers do not set last_heard_tick.
RecvWorkshopOrDialogue(e) ==
    \E i \in Slots :
        /\ FromPlayer(e, i)
        /\ \E base \in {0, Cardinality(Connected(players))} :
              tl_tick(players, {}, base)

\* Everything tl_handle_envelope refuses without a trace: a malformed packet,
\* an unknown connection, another player's id, a full session, a world
\* request that validation denies, an unsupported type.
Refused(e) ==
    /\ get_connection_id_for_endpoint(e)
    /\ NotHandled(players)
    /\ UNCHANGED <<registry, used>>

\* "udp drop: endpoint binding table full".
TableFull(e) ==
    /\ ConnectionOf(e) = 0
    /\ NotHandled(players)
    /\ UNCHANGED <<binding, bound, registry, used>>

-----------------------------------------------------------------------------

Init ==
    /\ binding = [e \in Endpoints |-> 0]
    /\ bound = 0
    /\ registry = [g \in Guids |-> 0]
    /\ used = 0
    /\ players = [i \in Slots |-> EmptySlot]
    /\ outputs = {}

\* Steps that set the sender's last_heard_tick and then tick.
KeepsAlive(e) ==
    \/ \E g \in Speaks[e], w \in WorldReplay : JoinSession(e, g, w)
    \/ \E g \in Speaks[e], w \in WorldReplay : Reconnect(e, g, w)
    \/ RecvPing(e)
    \/ \E m \in States : RelayPlayerState(e, m)
    \/ \E m \in States : StalePlayerState(e, m)
    \/ RecvInputState(e)
    \/ RecvCombatOrBuild(e)

\* Steps after which tl_tick runs.
Handled(e) ==
    \/ KeepsAlive(e)
    \/ RecvDisconnect(e)
    \/ RecvWorkshopOrDialogue(e)

Next ==
    \E e \in Endpoints :
        \/ Handled(e)
        \/ RefusedFire(e)
        \/ Refused(e)
        \/ TableFull(e)

Spec == Init /\ [][Next]_vars

-----------------------------------------------------------------------------
(***************************************************************************)
(* Correctness                                                             *)
(***************************************************************************)

\* Types and table limits: connection ids, registry entries, player ids and
\* silence stay within the sizes of the arrays and counters they index.
TypeOK ==
    /\ binding \in [Endpoints -> 0 .. MaxBindings]
    /\ bound \in 0 .. MaxBindings
    /\ registry \in [Guids -> 0 .. (MaxPlayers - 1)]
    /\ used \in 0 .. MaxRegistry
    /\ players \in [Slots -> PlayerRecord]
    /\ outputs \subseteq Outputs

\* The GUIDs the registry can give back.
Bindable == Guids \ (EmptyGuids \cup LongGuids)

\* A player id names one slot.  The code looks for a free id and for a free
\* slot in two separate loops, and finds players by id in a third; all of
\* them agree because slot i only ever holds id i, whatever the order of
\* joins, leaves, timeouts and reconnects.
SlotIdentity ==
    \A i \in Slots :
        /\ players[i].player_id \in {0, i}
        /\ players[i].connected => players[i].player_id = i
        /\ players[i].state \in {0, i}

\* sm_reconnect_player never fails: the slot of a registered GUID is still
\* there, although leaving clears slots and joining reuses them.
ReconnectFindsSlot ==
    \A g \in Guids : registry[g] # 0 => players[registry[g]].player_id = registry[g]

\* A live player is found again under its own GUID, so the HELLO it repeats
\* reaches its own slot.  Only a GUID that came when the registry was full
\* is not.
LiveGuidIsRegistered ==
    \A i \in Connected(players) :
        players[i].guid \in Bindable =>
            \/ registry[players[i].guid] = i
            \/ used = MaxRegistry /\ registry[players[i].guid] = 0

\* One live slot per GUID while the registry has room: retried, duplicated
\* and late HELLOs do not multiply a player.
OneSlotPerGuid ==
    \A i, j \in Connected(players) :
        /\ used < MaxRegistry
        /\ players[i].guid \in Bindable
        /\ players[i].guid = players[j].guid
        => i = j

\* The connection of a live slot belongs to an endpoint that said HELLO with
\* that slot's GUID: what is broadcast to the slot goes to the right place.
RouteIsOwn ==
    \A i \in Connected(players) :
        \E e \in Endpoints :
            binding[e] = players[i].conn /\ players[i].guid \in Speaks[e]

\* tl_find_player_by_connection stops at the first slot with the connection.
\* That is the sender's slot if the sender sticks to one GUID.
ConnectionNamesOneSlot ==
    \A i, j \in Connected(players) :
        /\ used < MaxRegistry
        /\ \A e \in Endpoints : binding[e] = players[i].conn =>
               \A g, h \in Speaks[e] : g = h /\ g \in Bindable
        /\ players[i].conn = players[j].conn
        => i = j

\* Connection ids are handed out once.
BindingsAreDistinct ==
    \A e, f \in Endpoints : binding[e] = binding[f] /\ binding[e] # 0 => e = f

\* Every player that is left after the step has been told who went during it,
\* be it by MSG_DISCONNECT or by a timeout in the tick of somebody else's
\* message, and a player that joined in this very step has been told too.
LeaveIsAnnounced ==
    [][\A i \in Connected(players) \ Connected(players)' :
          \A j \in Connected(players)' :
              Output(players'[j].conn, "left", i) \in outputs']_vars

\* No client is left with a ghost: a state that is sent either is the state
\* of a player still live after the tick, or its PLAYER_LEFT is sent with it.
\* A state that was never set carries id 0 and is nobody's.
NoGhostIsSent ==
    \A m \in outputs :
        m.kind = "state" /\ m.who # 0 =>
            \/ players[m.who].connected
            \/ Output(m.to, "left", m.who) \in outputs

\* A player whose endpoint stays silent is removed for good, as long as the
\* service keeps handling messages of others (the only thing that makes ticks).
IdleEventuallyLeaves ==
    \A e \in Endpoints :
        /\ <>[][~KeepsAlive(e) /\ ~RefusedFire(e)]_vars
        /\ []<><<\E f \in Endpoints : Handled(f)>>_vars
        => <>[](\A i \in Connected(players) : players[i].conn # binding[e])

\* The registry and the slots, two tables that are updated in different
\* places, together keep the promise of Membership: a HELLO of a GUID the
\* registry gives back takes that GUID's own id, any other takes an id that
\* nobody plays as, nobody else's seat changes hands in between, and an id,
\* once given, is never given back to the registry.
SeatOf(i) == IF players[i].connected THEN players[i].guid ELSE "none"

M == INSTANCE Membership WITH
        Ids <- PlayerIds, Nobody <- "none",
        seat <- [i \in PlayerIds |-> SeatOf(i)], home <- registry

ImplementsMembership == M!MSpec

-----------------------------------------------------------------------------
(***************************************************************************)
(* What the documentation says and the code does not do                    *)
(***************************************************************************)

\* "Session and reconnect identity by stable client GUID": a live player's
\* slot is not given to another GUID.
LivePlayerKeepsSlot ==
    [][\A i \in Connected(players) \cap Connected(players)' :
          players'[i].guid = players[i].guid]_vars

=============================================================================
