----------------------------- MODULE SceneProxy -----------------------------
(***************************************************************************)
(* From a remote player's state to the actor that shows him: the remote    *)
(* proxy manager and its update policy (remote_proxy_manager.c,            *)
(* remote_proxy_update_policy.c), the exchangeable backend                 *)
(* (remote_proxy_backend.c), the scene backend with its interpolation      *)
(* (fo4_scene_proxy_backend_stub.c), the spawn contract and the actor      *)
(* driver (fo4_proxy_actor_spawn_contract.c, fo4_proxy_actor_driver.c),    *)
(* and the counting backend (fo4_proxy_actor_backend_stub.c).              *)
(*                                                                         *)
(* Positions are integers, one unit being the spacing of the floats near   *)
(* the target: an addition of the code rounds to the nearest of them, ties *)
(* to the even one.  A rotation is treated by the same formulas as a       *)
(* position and is not a variable of its own.  Handles, counters and the   *)
(* look of the player are left out.  Every table has 8 entries and the     *)
(* service hands out 8 player ids, so that no table fills up: each is a    *)
(* function of the player id.                                              *)
(***************************************************************************)
EXTENDS Integers

CONSTANTS
    Players,           \* ids of remote players
    LocalIds,          \* ids the service may give to this client
    MaxPos,            \* bound of the model: positions are 0 .. MaxPos
    TeleportDistance,  \* teleport_distance of the update policy
    PolicyAlpha,       \* <<n, d>>: position_lerp_alpha = n / d of the policy
    InterpAlpha,       \* the same of the scene backend
    SuppressSelf,      \* suppress_self_spawn of the spawn contract
    ContractLocal,     \* local_player_id of the spawn contract, 0 if none
    MaxMoves,          \* bounds of the model: moves of the players, ...
    MaxJoins           \* ... and handshakes of this client

Positions == 0 .. MaxPos

ASSUME SceneAssumption ==
    /\ Players \subseteq Nat \ {0}
    /\ LocalIds \subseteq Nat
    /\ MaxPos \in Nat
    /\ TeleportDistance \in Nat
    /\ PolicyAlpha \in Nat \X (Nat \ {0}) /\ PolicyAlpha[1] <= PolicyAlpha[2]
    /\ InterpAlpha \in Nat \X (Nat \ {0}) /\ InterpAlpha[1] <= InterpAlpha[2]
    /\ SuppressSelf \in BOOLEAN
    /\ ContractLocal \in Nat
    /\ MaxMoves \in Nat /\ MaxJoins \in Nat

VARIABLES
    truth,    \* truth[p]: where player p really is, or Gone
    moves,    \* bound: how often a player came, moved or left
    joins,    \* bound: handshakes so far
    local,    \* g_local_player_id
    backend,  \* g_backend: "default", "scene" or "counting"
    interp,   \* g_scene.interp.enabled
    shown     \* shown[p]: what this process keeps about player p

vars == <<truth, moves, joins, local, backend, interp, shown>>

Gone == -1

-----------------------------------------------------------------------------
(***************************************************************************)
(* What is kept about a player                                             *)
(***************************************************************************)

NoProxy == [in_use |-> FALSE, pos |-> 0]

NoScene ==
    [in_use |-> FALSE, visible |-> FALSE, despawned |-> FALSE, presented |-> 0,
     target |-> 0, teleported |-> FALSE, pending |-> FALSE]

NoActor == [in_use |-> FALSE, visible |-> FALSE, despawned |-> FALSE, pos |-> 0]

NoCount == [in_use |-> FALSE, pos |-> 0, despawned |-> FALSE]

Nothing == [proxy |-> NoProxy, scene |-> NoScene, actor |-> NoActor, count |-> NoCount]

-----------------------------------------------------------------------------
(***************************************************************************)
(* Smoothing                                                               *)
(***************************************************************************)

\* lerpf in floats: a + (b - a) * n/d, rounded to the nearest position, ties
\* to the even one.
lerpf(a, b, alpha) ==
    LET x == (b - a) * alpha[1]
        q == a + (x \div alpha[2])
        r == 2 * (x % alpha[2])
    IN  IF r < alpha[2] \/ (r = alpha[2] /\ q % 2 = 0) THEN q ELSE q + 1

Distance(a, b) == IF a < b THEN b - a ELSE a - b

Teleports(current, pos) == Distance(current, pos) > TeleportDistance

\* Mutant: the threshold is taken for a dead zone.
rpup_apply_player_update_deadZone(current, pos) ==
    IF Teleports(current, pos) THEN pos ELSE current

\* rpup_apply_player_update_ex, as set up by rpup_init_default: the position
\* that is handed on to the backend.
rpup_apply_player_update(current, pos) ==
    IF Teleports(current, pos) THEN pos ELSE lerpf(current, pos, PolicyAlpha)

-----------------------------------------------------------------------------
(***************************************************************************)
(* Actor driver and spawn contract                                         *)
(***************************************************************************)

\* fpasc_build_create_spec with the default base form.
ContractAccepts(p) == ~(SuppressSelf /\ ContractLocal # 0 /\ p = ContractLocal)

\* default_create_actor.
fpad_create(pos) == [in_use |-> TRUE, visible |-> TRUE, despawned |-> FALSE, pos |-> pos]

\* default_move_actor and default_rotate_actor: also an unknown or a despawned
\* actor is visible afterwards.
fpad_move(a, pos) ==
    [a EXCEPT !.in_use = TRUE, !.visible = TRUE, !.despawned = FALSE, !.pos = pos]

\* default_despawn_actor of an actor that is known.
fpad_despawn(a) == [a EXCEPT !.visible = FALSE, !.despawned = TRUE]

-----------------------------------------------------------------------------
(***************************************************************************)
(* Scene backend                                                           *)
(***************************************************************************)

\* apply_driver_presented_state: the driver is told the presented position.
Presented(v) == [v EXCEPT !.actor = fpad_move(@, v.scene.presented)]

\* ensure_scene_player_from_spawn.  The entry is filled in before the contract
\* is asked.
ensure_scene_player_from_spawn(v, p, pos) ==
    [v EXCEPT !.scene = [NoScene EXCEPT !.in_use = TRUE, !.visible = TRUE,
                                        !.presented = pos, !.target = pos],
              !.actor = IF ContractAccepts(p) THEN fpad_create(pos) ELSE @]

\* scene_spawn; when the contract refuses, no proxy is created.
scene_spawn(v, p, pos) ==
    LET w == ensure_scene_player_from_spawn(v, p, pos)
    IN  IF ContractAccepts(p)
        THEN [w EXCEPT !.proxy = [in_use |-> TRUE, pos |-> pos]] ELSE w

\* Mutant: the target is set, the flag of the last update is left.
Retarget_noPending(s, pos) ==
    [s EXCEPT !.target = pos,
              !.presented = IF s.teleported \/ ~interp THEN pos ELSE @,
              !.pending = FALSE]

\* The new target of scene_update; it is presented at once after a teleport or
\* when the interpolation is off.
Retarget(s, pos) ==
    LET shownAt == IF s.teleported \/ ~interp THEN pos ELSE s.presented
    IN  [s EXCEPT !.target = pos, !.presented = shownAt, !.pending = shownAt # pos]

\* scene_update: an entry that is missing is made from the update.
scene_update(v, p, pos) ==
    LET known == v.scene.in_use
        w     == IF known THEN v ELSE ensure_scene_player_from_spawn(v, p, pos)
    IN  IF ~known /\ ~ContractAccepts(p) THEN w
        ELSE Presented([w EXCEPT !.scene = Retarget(@, pos), !.proxy.pos = pos])

\* Mutant: the actor is left to the driver.
scene_despawn_actorStays(v) ==
    IF ~v.scene.in_use \/ ~v.proxy.in_use THEN v
    ELSE [v EXCEPT !.proxy = NoProxy,
                   !.scene = [@ EXCEPT !.visible = FALSE, !.despawned = TRUE]]

\* scene_despawn: the proxy first; the entry stays in use.
scene_despawn(v) ==
    IF ~v.scene.in_use \/ ~v.proxy.in_use THEN v
    ELSE LET w == [v EXCEPT !.proxy = NoProxy]
         IN  IF ~w.actor.in_use THEN w
             ELSE [w EXCEPT !.actor = fpad_despawn(@),
                            !.scene = [@ EXCEPT !.visible = FALSE, !.despawned = TRUE]]

\* fo4_scene_proxy_backend_stub_note_policy_result.  It is told before the
\* update, so a teleport presents the previous target.
note_policy_result(v, teleported) ==
    IF ~v.scene.in_use THEN v
    ELSE IF teleported
         THEN Presented([v EXCEPT !.scene = [@ EXCEPT !.teleported = TRUE, !.pending = FALSE,
                                                      !.presented = v.scene.target]])
         ELSE [v EXCEPT !.scene = [@ EXCEPT !.teleported = FALSE,
                                            !.pending = v.scene.presented # v.scene.target]]

\* fo4_scene_proxy_backend_stub_step for one entry.
SceneStep(v) ==
    LET s == v.scene
        q == lerpf(s.presented, s.target, InterpAlpha)
    IN  IF ~s.in_use \/ ~s.visible \/ s.despawned \/ ~interp \/ s.teleported THEN v
        ELSE Presented([v EXCEPT !.scene = [@ EXCEPT !.presented = q, !.pending = q # s.target]])

\* fo4_proxy_actor_live_validation.c: is the actor where and as the scene says?
\* The counters of the live candidate it looks at too are left out.
fpalv_validate_present(v) ==
    /\ v.scene.in_use /\ v.scene.visible /\ ~v.scene.despawned
    /\ v.actor.in_use /\ v.actor.visible /\ ~v.actor.despawned
    /\ v.actor.pos = v.scene.presented

fpalv_validate_despawn(v) ==
    /\ v.scene.in_use /\ ~v.scene.visible /\ v.scene.despawned
    /\ v.actor.in_use /\ ~v.actor.visible /\ v.actor.despawned

-----------------------------------------------------------------------------
(***************************************************************************)
(* The backends behind rpb_get_backend                                     *)
(***************************************************************************)

spawn_player(v, p, pos) ==
    CASE backend = "default"  -> [v EXCEPT !.proxy = [in_use |-> TRUE, pos |-> pos]]
      [] backend = "scene"    -> scene_spawn(v, p, pos)
      [] backend = "counting" -> [v EXCEPT !.count = [in_use |-> TRUE, pos |-> pos,
                                                      despawned |-> FALSE]]

\* proxy_update_player fails for an unknown proxy; the counting backend makes
\* an entry.
update_player(v, p, pos) ==
    CASE backend = "default"  -> IF v.proxy.in_use THEN [v EXCEPT !.proxy.pos = pos] ELSE v
      [] backend = "scene"    -> scene_update(v, p, pos)
      [] backend = "counting" -> [v EXCEPT !.count = [@ EXCEPT !.in_use = TRUE, !.pos = pos]]

despawn_player(v) ==
    CASE backend = "default"  -> [v EXCEPT !.proxy = NoProxy]
      [] backend = "scene"    -> scene_despawn(v)
      [] backend = "counting" -> [v EXCEPT !.count.despawned = v.count.in_use]

-----------------------------------------------------------------------------
(***************************************************************************)
(* Remote proxy manager                                                    *)
(***************************************************************************)

\* The update of a state that passed the filter.
Updated(v, p, pos) ==
    IF ~v.proxy.in_use THEN update_player(v, p, pos)
    ELSE LET noted == note_policy_result(v, Teleports(v.proxy.pos, pos))
         IN  update_player(noted, p, rpup_apply_player_update(v.proxy.pos, pos))

\* rpm_apply_remote_player_state.  A state of an unknown player spawns him; an
\* older state than the last one is dropped only when there is a proxy to
\* compare it with (the stamps themselves are in MovementPath).
rpm_apply_remote_player_state(p, pos, older) ==
    LET v       == shown[p]
        known   == v.proxy.in_use
        spawned == IF known THEN v ELSE spawn_player(v, p, pos)
        refused == ~known /\ backend = "scene" /\ ~ContractAccepts(p)
    IN  shown' = [shown EXCEPT ![p] =
            IF p = local \/ (known /\ older) THEN v
            ELSE IF refused THEN spawned
            ELSE Updated(spawned, p, pos)]

\* The current state of player p arrives.
Receive(p) ==
    /\ truth[p] # Gone
    /\ rpm_apply_remote_player_state(p, truth[p], FALSE)
    /\ UNCHANGED <<truth, moves, joins, local, backend, interp>>

\* A datagram that was overtaken arrives.
ReceiveOld(p, pos) ==
    /\ rpm_apply_remote_player_state(p, pos, TRUE)
    /\ UNCHANGED <<truth, moves, joins, local, backend, interp>>

\* MSG_PLAYER_LEFT: rpm_remove_remote_player.
rpm_remove_remote_player(p) ==
    /\ truth[p] = Gone
    /\ shown' = [shown EXCEPT ![p] = IF p = local THEN @ ELSE despawn_player(@)]
    /\ UNCHANGED <<truth, moves, joins, local, backend, interp>>

\* rpb_step_backend.
rpb_step_backend ==
    /\ shown' = IF backend = "scene" THEN [p \in Players |-> SceneStep(shown[p])] ELSE shown
    /\ UNCHANGED <<truth, moves, joins, local, backend, interp>>

\* The first tick after WELCOME (rpm_init): the default backend is put back, and
\* with a new process the proxies are empty too.
Join(id, restarted) ==
    /\ joins < MaxJoins
    /\ joins' = joins + 1
    /\ local' = id
    /\ backend' = "default"
    /\ interp' = (~restarted /\ interp)
    /\ shown' = IF restarted THEN [p \in Players |-> Nothing] ELSE shown
    /\ UNCHANGED <<truth, moves>>

\* fo4_scene_proxy_backend_stub_install resets the scene, not the driver.
fo4_scene_proxy_backend_stub_install ==
    /\ backend # "scene"
    /\ backend' = "scene"
    /\ interp' = TRUE
    /\ shown' = [p \in Players |-> [shown[p] EXCEPT !.scene = NoScene]]
    /\ UNCHANGED <<truth, moves, joins, local>>

fo4_proxy_backend_stub_install ==
    /\ backend # "counting"
    /\ backend' = "counting"
    /\ shown' = [p \in Players |-> [shown[p] EXCEPT !.count = NoCount]]
    /\ UNCHANGED <<truth, moves, joins, local, interp>>

fo4_scene_proxy_backend_stub_set_interpolation_config(on) ==
    /\ interp # on
    /\ interp' = on
    /\ UNCHANGED <<truth, moves, joins, local, backend, shown>>

\* A player comes, moves or leaves.
Move(p, pos) ==
    /\ moves < MaxMoves
    /\ moves' = moves + 1
    /\ pos # truth[p]
    /\ truth' = [truth EXCEPT ![p] = pos]
    /\ UNCHANGED <<joins, local, backend, interp, shown>>

-----------------------------------------------------------------------------
Init ==
    /\ truth = [p \in Players |-> Gone]
    /\ moves = 0
    /\ joins = 0
    /\ local = 0
    /\ backend = "default"
    /\ interp = FALSE
    /\ shown = [p \in Players |-> Nothing]

Next ==
    \/ rpb_step_backend
    \/ \E id \in LocalIds, restarted \in BOOLEAN : Join(id, restarted)
    \/ fo4_scene_proxy_backend_stub_install
    \/ fo4_proxy_backend_stub_install
    \/ \E on \in BOOLEAN : fo4_scene_proxy_backend_stub_set_interpolation_config(on)
    \/ \E p \in Players :
        \/ Receive(p)
        \/ rpm_remove_remote_player(p)
        \/ \E pos \in Positions : ReceiveOld(p, pos)
        \/ \E pos \in Positions \cup {Gone} : Move(p, pos)

Spec == Init /\ [][Next]_vars

\* The publisher sends its state again and again (force_resend_ticks), and
\* mlcb_tick steps the backend in every frame.
Fairness == WF_vars(rpb_step_backend) /\ \A p \in Players : WF_vars(Receive(p))

FairSpec == Spec /\ Fairness

-----------------------------------------------------------------------------
(***************************************************************************)
(* Correctness                                                             *)
(***************************************************************************)

\* scene_spawn, scene_update and scene_despawn against proxy_runtime.c and the
\* driver: while the scene backend is in charge, a player it has an entry for
\* passes the validation of a present actor exactly while he has a proxy, whose
\* position is the target, and that of a removed actor otherwise; whatever was
\* left behind by other backends and former sessions.
SceneMatchesProxy ==
    backend = "scene" =>
        \A p \in Players : LET v == shown[p] IN
            v.scene.in_use /\ ContractAccepts(p) =>
                IF v.proxy.in_use
                THEN fpalv_validate_present(v) /\ v.scene.target = v.proxy.pos
                ELSE fpalv_validate_despawn(v)

\* docs/phase1r-scene-interpolation-pending.md: interpolation_pending is set
\* exactly while the presented position differs from the target, and a teleport
\* leaves nothing pending, although note_policy_result runs before the update.
PendingIsExact ==
    \A p \in Players : LET s == shown[p].scene IN
        s.in_use => /\ s.pending = (s.presented # s.target)
                    /\ s.teleported => ~s.pending

\* A player who has come to rest is shown where he is, up to what the two
\* roundings leave: the resent states and the steps bring the actor there
\* from wherever it was, through smoothing, teleports and changes of the
\* configuration, once that is left alone.
Slack(alpha) == alpha[2] \div (2 * alpha[1])

Close(p) ==
    /\ shown[p].actor.visible
    /\ Distance(shown[p].actor.pos, truth[p]) <= Slack(PolicyAlpha) + Slack(InterpAlpha)

ActorSettles ==
    \A p \in Players :
        /\ <>[](backend = "scene" /\ local # p /\ truth[p] # Gone /\ ContractAccepts(p))
        /\ <>[]interp \/ <>[]~interp
        => <>[]Close(p)

=============================================================================
