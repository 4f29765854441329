-------------------------- MODULE SceneProxyProofs --------------------------
(***************************************************************************)
(* Theorems about the remote proxy manager and its scene backend, for any  *)
(* players, positions, smoothing factors and configuration of the spawn    *)
(* contract, and for any number of moves and handshakes.                   *)
(***************************************************************************)
EXTENDS SceneProxy, TLAPS

-----------------------------------------------------------------------------
(***************************************************************************)
(* Smoothing                                                               *)
(***************************************************************************)

Alphas == {alpha \in Nat \X (Nat \ {0}) : alpha[1] <= alpha[2]}

\* The share n/d of a distance, n <= d, is part of it.
LEMMA ShareBounds ==
    ASSUME NEW c \in Int, NEW n \in Nat, NEW d \in Nat \ {0}, n <= d
    PROVE  /\ c >= 0 => 0 <= c * n /\ c * n <= c * d
           /\ c <= 0 => c * d <= c * n /\ c * n <= 0
<1>1. ASSUME NEW a \in Nat, NEW b \in Nat  PROVE a * b \in Nat
  BY <1>1, SMT
<1>2. CASE c >= 0
  <2>1. c * n \in Nat /\ c * (d - n) \in Nat
    BY <1>1, <1>2
  <2>2. c * (d - n) = c * d - c * n
    OBVIOUS
  <2>3. c * n \in Int /\ c * d \in Int
    OBVIOUS
  <2>4. c <= 0 => c = 0
    BY <1>2
  <2>. QED  BY <2>1, <2>2, <2>3, <2>4
<1>3. CASE c <= 0
  <2>1. (-c) * n \in Nat /\ (-c) * (d - n) \in Nat
    BY <1>1, <1>3
  <2>2. (-c) * n = -(c * n) /\ (-c) * (d - n) = c * n - c * d
    OBVIOUS
  <2>3. c * n \in Int /\ c * d \in Int
    OBVIOUS
  <2>4. c >= 0 => c = 0
    BY <1>3
  <2>. QED  BY <2>1, <2>2, <2>3, <2>4
<1>. QED  BY <1>2, <1>3

\* What integer division and remainder are.
LEMMA DivMod ==
    ASSUME NEW x \in Int, NEW d \in Nat \ {0}
    PROVE  /\ x \div d \in Int /\ x % d \in 0 .. (d - 1)
           /\ x = d * (x \div d) + (x % d)
  OBVIOUS

\* A quotient rounded to one of its two neighbours stays within the bounds
\* that the dividend keeps.
LEMMA QuotientBounds ==
    ASSUME NEW x \in Int, NEW d \in Nat \ {0}, NEW lo \in Int, NEW hi \in Int,
           lo * d <= x, x <= hi * d
    PROVE  /\ lo <= x \div d /\ x \div d <= hi
           /\ x % d # 0 => x \div d < hi
<1> DEFINE q == x \div d
           r == x % d
<1>1. q \in Int /\ r \in 0 .. (d - 1) /\ x = d * q + r
  BY DivMod
<1> HIDE DEF q, r
<1>2. ASSUME q < lo  PROVE FALSE
  <2>1. d * (lo - q - 1) >= 0
    BY <1>1, <1>2
  <2>2. d * (lo - q - 1) = lo * d - d * q - d
    BY <1>1
  <2>. QED  BY <2>1, <2>2, <1>1
<1>3. ASSUME q > hi  PROVE FALSE
  <2>1. d * (q - hi - 1) >= 0
    BY <1>1, <1>3
  <2>2. d * (q - hi - 1) = d * q - hi * d - d
    BY <1>1
  <2>. QED  BY <2>1, <2>2, <1>1
<1>4. ASSUME r # 0, q = hi  PROVE FALSE
  <2>1. d * q = hi * d
    BY <1>1, <1>4
  <2>. QED  BY <2>1, <1>1, <1>4
<1>5. lo <= q /\ q <= hi /\ (r # 0 => q < hi)
  BY <1>1, <1>2, <1>3, <1>4
<1>. QED  BY <1>5 DEF q, r

\* lerpf never overshoots: the position it returns lies between the two it is
\* given, however it is rounded.
LEMMA LerpBetween ==
    ASSUME NEW a \in Int, NEW b \in Int, NEW alpha \in Alphas
    PROVE  /\ lerpf(a, b, alpha) \in Int
           /\ a <= b => a <= lerpf(a, b, alpha) /\ lerpf(a, b, alpha) <= b
           /\ b <= a => b <= lerpf(a, b, alpha) /\ lerpf(a, b, alpha) <= a
<1> DEFINE n == alpha[1]
           d == alpha[2]
           x == (b - a) * n
           q == x \div d
           r == x % d
<1>1. n \in Nat /\ d \in Nat \ {0} /\ n <= d
  BY DEF Alphas
<1> HIDE DEF n, d
<1>2. x \in Int
  BY <1>1
<1>3. /\ a <= b => 0 <= x /\ x <= (b - a) * d
      /\ b <= a => (b - a) * d <= x /\ x <= 0
  <2>1. b - a \in Int
    OBVIOUS
  <2>2. (a <= b => b - a >= 0) /\ (b <= a => b - a <= 0)
    OBVIOUS
  <2>. QED  BY <1>1, <2>1, <2>2, ShareBounds
<1> HIDE DEF x
<1>4. q \in Int /\ r \in 0 .. (d - 1)
  BY <1>1, <1>2, DivMod
<1>5. a <= b => 0 <= q /\ q <= b - a /\ (r # 0 => q < b - a)
  <2>1. 0 * d = 0 /\ b - a \in Int
    BY <1>1
  <2>. QED  BY <1>1, <1>2, <1>3, <2>1, QuotientBounds
<1>6. b <= a => b - a <= q /\ q <= 0 /\ (r # 0 => q < 0)
  <2>1. 0 * d = 0 /\ b - a \in Int
    BY <1>1
  <2>. QED  BY <1>1, <1>2, <1>3, <2>1, QuotientBounds
<1>7. \/ lerpf(a, b, alpha) = a + q
      \/ lerpf(a, b, alpha) = a + q + 1 /\ r # 0
  <2>1. lerpf(a, b, alpha)
          = IF 2 * r < d \/ (2 * r = d /\ (a + q) % 2 = 0) THEN a + q ELSE a + q + 1
    BY DEF lerpf, n, d, x
  <2> HIDE DEF q, r
  <2>2. r = 0 => 2 * r < d
    BY <1>1
  <2>. QED  BY <2>1, <2>2
<1> HIDE DEF q, r
<1>. QED  BY <1>1, <1>4, <1>5, <1>6, <1>7

\* The update policy hands on a position between the last one and the new one.
LEMMA PolicyPosition ==
    ASSUME NEW a \in Positions, NEW b \in Positions
    PROVE  rpup_apply_player_update(a, b) \in Positions
<1>1. PolicyAlpha \in Alphas /\ MaxPos \in Nat
  BY SceneAssumption DEF Alphas
<1>2. a \in Int /\ b \in Int
  BY <1>1 DEF Positions
<1>3. lerpf(a, b, PolicyAlpha) \in Positions
  <2>. HIDE DEF lerpf
  <2>. QED  BY <1>1, <1>2, LerpBetween DEF Positions
<1>. QED  BY <1>3 DEF rpup_apply_player_update

\* A step of the interpolation stays between the presented and the target one.
LEMMA InterpPosition ==
    ASSUME NEW a \in Positions, NEW b \in Positions
    PROVE  lerpf(a, b, InterpAlpha) \in Positions
<1>1. InterpAlpha \in Alphas /\ MaxPos \in Nat
  BY SceneAssumption DEF Alphas
<1>2. a \in Int /\ b \in Int
  BY <1>1 DEF Positions
<1>. QED  BY <1>1, <1>2, LerpBetween DEF Positions

-----------------------------------------------------------------------------
(***************************************************************************)
(* The inductive invariant                                                 *)
(***************************************************************************)

ProxyRecords == [in_use : BOOLEAN, pos : Positions]

SceneRecords ==
    [in_use : BOOLEAN, visible : BOOLEAN, despawned : BOOLEAN, presented : Positions,
     target : Positions, teleported : BOOLEAN, pending : BOOLEAN]

ActorRecords == [in_use : BOOLEAN, visible : BOOLEAN, despawned : BOOLEAN, pos : Positions]

CountRecords == [in_use : BOOLEAN, pos : Positions, despawned : BOOLEAN]

Kept == [proxy : ProxyRecords, scene : SceneRecords, actor : ActorRecords, count : CountRecords]

\* Every position that is kept, smoothed or not, is one of Positions.
TypeOK ==
    /\ truth \in [Players -> Positions \cup {Gone}]
    /\ moves \in Nat /\ joins \in Nat
    /\ local \in Nat
    /\ backend \in {"default", "scene", "counting"}
    /\ interp \in BOOLEAN
    /\ shown \in [Players -> Kept]

\* PendingIsExact for one player.
Exact(v) ==
    v.scene.in_use => /\ v.scene.pending = (v.scene.presented # v.scene.target)
                      /\ v.scene.teleported => ~v.scene.pending

\* SceneMatchesProxy for one player, while the scene backend is in charge.
Match(v, p) ==
    v.scene.in_use /\ ContractAccepts(p) =>
        IF v.proxy.in_use
        THEN fpalv_validate_present(v) /\ v.scene.target = v.proxy.pos
        ELSE fpalv_validate_despawn(v)

\* What holds of one player: a stale entry of a former scene backend keeps an
\* exact pending flag, but need not match the proxy.
Good(v, p) == v \in Kept /\ Exact(v) /\ (backend = "scene" => Match(v, p))

IInv == TypeOK /\ \A p \in Players : Good(shown[p], p)

-----------------------------------------------------------------------------
(***************************************************************************)
(* The operators on one player                                             *)
(***************************************************************************)

LEMMA SpawnIsGood ==
    ASSUME NEW p \in Players, NEW pos \in Positions, NEW v, Good(v, p),
           ~v.proxy.in_use, TypeOK
    PROVE  Good(spawn_player(v, p, pos), p)
<1>1. MaxPos \in Nat /\ 0 \in Positions
  BY SceneAssumption DEF Positions
<1>2. CASE backend = "default"
  BY <1>1, <1>2 DEF Good, Exact, Match, Kept, ProxyRecords, spawn_player, TypeOK
<1>3. CASE backend = "counting"
  BY <1>1, <1>3 DEF Good, Exact, Match, Kept, CountRecords, spawn_player, TypeOK
<1>4. CASE backend = "scene"
  <2>1. spawn_player(v, p, pos) = scene_spawn(v, p, pos)
    BY <1>4 DEF spawn_player
  <2>2. scene_spawn(v, p, pos) \in Kept
    BY <1>1 DEF Good, Kept, ProxyRecords, SceneRecords, ActorRecords, scene_spawn,
                ensure_scene_player_from_spawn, NoScene, fpad_create
  <2>3. Exact(scene_spawn(v, p, pos))
    BY DEF Good, Exact, Kept, scene_spawn, ensure_scene_player_from_spawn, NoScene
  <2>4. Match(scene_spawn(v, p, pos), p)
    BY DEF Good, Match, Kept, scene_spawn, ensure_scene_player_from_spawn, NoScene,
           fpad_create, fpalv_validate_present
  <2>. QED  BY <2>1, <2>2, <2>3, <2>4 DEF Good
<1>. QED  BY <1>2, <1>3, <1>4 DEF TypeOK

LEMMA NoteIsGood ==
    ASSUME NEW p \in Players, NEW v, Good(v, p), v.proxy.in_use, NEW teleported \in BOOLEAN
    PROVE  /\ Good(note_policy_result(v, teleported), p)
           /\ note_policy_result(v, teleported).proxy = v.proxy
           /\ note_policy_result(v, teleported).scene.in_use = v.scene.in_use
<1> DEFINE w == note_policy_result(v, teleported)
<1>0. v \in Kept /\ v.scene \in SceneRecords /\ v.actor \in ActorRecords
  BY DEF Good, Kept
<1>1. CASE ~v.scene.in_use
  BY <1>1 DEF note_policy_result
<1>2. CASE v.scene.in_use /\ teleported
  <2> DEFINE s == [v.scene EXCEPT !.teleported = TRUE, !.pending = FALSE,
                                  !.presented = v.scene.target]
             a == fpad_move(v.actor, v.scene.target)
  <2>1. s \in SceneRecords /\ a \in ActorRecords
    BY <1>0 DEF SceneRecords, ActorRecords, fpad_move
  <2>2. /\ s.in_use = v.scene.in_use /\ s.visible = v.scene.visible
        /\ s.despawned = v.scene.despawned /\ s.target = v.scene.target
        /\ s.presented = v.scene.target /\ s.pending = FALSE
    BY <1>0 DEF SceneRecords
  <2>3. a.in_use = TRUE /\ a.visible = TRUE /\ a.despawned = FALSE /\ a.pos = v.scene.target
    BY <1>0 DEF ActorRecords, fpad_move
  <2>4. w = [v EXCEPT !.scene = s, !.actor = a]
    <3>1. w = Presented([v EXCEPT !.scene = s])
      BY <1>2 DEF note_policy_result
    <3>2. [v EXCEPT !.scene = s].scene = s /\ [v EXCEPT !.scene = s].actor = v.actor
      BY <1>0 DEF Kept
    <3>. QED  BY <3>1, <3>2, <2>2, <1>0 DEF Presented, Kept
  <2> HIDE DEF s, a, w
  <2>5. w \in Kept /\ w.proxy = v.proxy /\ w.scene = s /\ w.actor = a
    BY <2>1, <2>4, <1>0 DEF Kept
  <2>6. Exact(w)
    BY <2>2, <2>5 DEF Exact
  <2>7. Match(v, p) => Match(w, p)
    BY <2>2, <2>3, <2>5, <1>2 DEF Match, fpalv_validate_present
  <2>. QED  BY <2>2, <2>5, <2>6, <2>7 DEF Good, w
<1>3. CASE v.scene.in_use /\ ~teleported
  <2> DEFINE s == [v.scene EXCEPT !.teleported = FALSE,
                                  !.pending = v.scene.presented # v.scene.target]
  <2>1. s \in SceneRecords
    BY <1>0 DEF SceneRecords
  <2>2. /\ s.in_use = v.scene.in_use /\ s.visible = v.scene.visible
        /\ s.despawned = v.scene.despawned /\ s.target = v.scene.target
        /\ s.presented = v.scene.presented /\ s.teleported = FALSE
        /\ s.pending = (s.presented # s.target)
    BY <1>0 DEF SceneRecords
  <2>3. w = [v EXCEPT !.scene = s]
    BY <1>3 DEF note_policy_result
  <2> HIDE DEF s, w
  <2>4. w \in Kept /\ w.proxy = v.proxy /\ w.scene = s /\ w.actor = v.actor
    BY <2>1, <2>3, <1>0 DEF Kept
  <2>5. Exact(w)
    BY <2>2, <2>4 DEF Exact
  <2>6. Match(v, p) => Match(w, p)
    BY <2>2, <2>4, <1>3 DEF Match, fpalv_validate_present
  <2>. QED  BY <2>2, <2>4, <2>5, <2>6 DEF Good, w
<1>. QED  BY <1>1, <1>2, <1>3

\* An entry that is given a new target and whose actor is moved to it.
LEMMA RetargetIsGood ==
    ASSUME NEW p \in Players, NEW pos \in Positions, NEW v, v \in Kept, TypeOK,
           v.proxy.in_use, v.scene.in_use,
           ContractAccepts(p) => v.scene.visible /\ ~v.scene.despawned
    PROVE  Good(Presented([v EXCEPT !.scene = Retarget(@, pos), !.proxy.pos = pos]), p)
<1> DEFINE s == Retarget(v.scene, pos)
           x == [v.proxy EXCEPT !.pos = pos]
           a == fpad_move(v.actor, s.presented)
           w == Presented([v EXCEPT !.scene = Retarget(@, pos), !.proxy.pos = pos])
<1>0. /\ v.scene \in SceneRecords /\ v.actor \in ActorRecords /\ v.proxy \in ProxyRecords
      /\ v.count \in CountRecords
  BY DEF Kept
<1>1. /\ s \in SceneRecords
      /\ s.in_use = v.scene.in_use /\ s.visible = v.scene.visible
      /\ s.despawned = v.scene.despawned /\ s.target = pos
      /\ s.pending = (s.presented # s.target)
      /\ s.teleported => s.presented = s.target
  BY <1>0 DEF SceneRecords, Retarget
<1>2. x \in ProxyRecords /\ x.in_use = v.proxy.in_use /\ x.pos = pos
  BY <1>0 DEF ProxyRecords
<1>3. s.presented \in Positions
  BY <1>1 DEF SceneRecords
<1>4. /\ a \in ActorRecords
      /\ a.in_use = TRUE /\ a.visible = TRUE /\ a.despawned = FALSE /\ a.pos = s.presented
  <2> HIDE DEF s
  <2>. QED  BY <1>0, <1>3 DEF ActorRecords, fpad_move
<1>5. w = [v EXCEPT !.scene = s, !.proxy = x, !.actor = a]
  <2> DEFINE u == [v EXCEPT !.scene = Retarget(@, pos), !.proxy.pos = pos]
  <2>1. u = [v EXCEPT !.scene = s, !.proxy = x]
    <3> HIDE DEF Retarget
    <3>. QED  BY <1>0 DEF Kept
  <2> HIDE DEF s, x
  <2>2. u.scene = s /\ u.actor = v.actor
    BY <2>1, <1>0 DEF Kept
  <2>3. w = [u EXCEPT !.actor = a]
    BY <2>2 DEF Presented
  <2> HIDE DEF u, a, w
  <2>. QED  BY <2>1, <2>3, <1>0 DEF Kept
<1> HIDE DEF s, x, a, w
<1>6. w \in Kept /\ w.proxy = x /\ w.scene = s /\ w.actor = a
  BY <1>0, <1>1, <1>2, <1>4, <1>5 DEF Kept
<1>7. Exact(w)
  BY <1>1, <1>6 DEF Exact
<1>8. Match(w, p)
  BY <1>1, <1>2, <1>4, <1>6 DEF Match, fpalv_validate_present
<1>. QED  BY <1>6, <1>7, <1>8 DEF Good, w

LEMMA UpdateIsGood ==
    ASSUME NEW p \in Players, NEW pos \in Positions, NEW v, Good(v, p), TypeOK,
           backend = "scene" => v.proxy.in_use
    PROVE  Good(update_player(v, p, pos), p)
<1>0. v \in Kept /\ v.proxy \in ProxyRecords /\ v.count \in CountRecords
  BY DEF Good, Kept
<1>1. CASE backend = "default"
  BY <1>0, <1>1 DEF Good, Exact, Kept, ProxyRecords, update_player
<1>2. CASE backend = "counting"
  BY <1>0, <1>2 DEF Good, Exact, Kept, CountRecords, update_player
<1>3. CASE backend = "scene" /\ v.scene.in_use
  <2>1. update_player(v, p, pos)
          = Presented([v EXCEPT !.scene = Retarget(@, pos), !.proxy.pos = pos])
    BY <1>3 DEF update_player, scene_update
  <2>2. ContractAccepts(p) => v.scene.visible /\ ~v.scene.despawned
    BY <1>3 DEF Good, Match, fpalv_validate_present
  <2>. QED  BY <2>1, <2>2, <1>0, <1>3, RetargetIsGood
<1>4. CASE backend = "scene" /\ ~v.scene.in_use
  <2> DEFINE w == ensure_scene_player_from_spawn(v, p, pos)
  <2>1. /\ w \in Kept /\ w.proxy = v.proxy
        /\ w.scene = [NoScene EXCEPT !.in_use = TRUE, !.visible = TRUE,
                                     !.presented = pos, !.target = pos]
    <3>1. MaxPos \in Nat /\ 0 \in Positions
      BY SceneAssumption DEF Positions
    <3>. QED
      BY <1>0, <3>1 DEF Kept, SceneRecords, ActorRecords, ensure_scene_player_from_spawn,
                        NoScene, fpad_create
  <2>2. /\ w.scene.in_use = TRUE /\ w.scene.visible = TRUE /\ w.scene.despawned = FALSE
        /\ w.scene.presented = pos /\ w.scene.target = pos /\ w.scene.pending = FALSE
    BY <2>1 DEF NoScene
  <2> HIDE DEF w
  <2>3. CASE ContractAccepts(p)
    <3>1. update_player(v, p, pos)
            = Presented([w EXCEPT !.scene = Retarget(@, pos), !.proxy.pos = pos])
      BY <1>4, <2>3 DEF update_player, scene_update, w
    <3>2. w.proxy.in_use /\ w.scene.in_use /\ w.scene.visible /\ ~w.scene.despawned
      BY <2>1, <2>2, <1>4
    <3>3. Good(Presented([w EXCEPT !.scene = Retarget(@, pos), !.proxy.pos = pos]), p)
      BY <2>1, <3>2, RetargetIsGood
    <3>. QED  BY <3>1, <3>3
  <2>4. CASE ~ContractAccepts(p)
    <3>1. update_player(v, p, pos) = w
      BY <1>4, <2>4 DEF update_player, scene_update, w
    <3>. QED  BY <3>1, <2>1, <2>2, <2>4 DEF Good, Exact, Match
  <2>. QED  BY <2>3, <2>4
<1>. QED  BY <1>1, <1>2, <1>3, <1>4 DEF TypeOK

LEMMA UpdatedIsGood ==
    ASSUME NEW p \in Players, NEW pos \in Positions, NEW v, Good(v, p), TypeOK,
           backend = "scene" => v.proxy.in_use
    PROVE  Good(Updated(v, p, pos), p)
<1>1. CASE ~v.proxy.in_use
  BY <1>1, UpdateIsGood DEF Updated
<1>2. CASE v.proxy.in_use
  <2> DEFINE noted == note_policy_result(v, Teleports(v.proxy.pos, pos))
             to == rpup_apply_player_update(v.proxy.pos, pos)
  <2>1. Updated(v, p, pos) = update_player(noted, p, to)
    BY <1>2 DEF Updated
  <2>2. Teleports(v.proxy.pos, pos) \in BOOLEAN
    BY DEF Teleports
  <2>3. Good(noted, p) /\ noted.proxy = v.proxy
    BY <1>2, <2>2, NoteIsGood
  <2>4. to \in Positions
    <3>1. v.proxy.pos \in Positions
      BY DEF Good, Kept, ProxyRecords
    <3>. QED  BY <3>1, PolicyPosition
  <2> HIDE DEF noted, to
  <2>. QED  BY <1>2, <2>1, <2>3, <2>4, UpdateIsGood
<1>. QED  BY <1>1, <1>2

LEMMA DespawnIsGood ==
    ASSUME NEW p \in Players, NEW v, Good(v, p), TypeOK
    PROVE  Good(despawn_player(v), p)
<1>0. /\ v \in Kept /\ v.scene \in SceneRecords /\ v.actor \in ActorRecords
      /\ v.count \in CountRecords /\ 0 \in Positions
  BY SceneAssumption DEF Good, Kept, Positions
<1>1. CASE backend = "default"
  BY <1>0, <1>1 DEF Good, Exact, Kept, ProxyRecords, NoProxy, despawn_player
<1>2. CASE backend = "counting"
  BY <1>0, <1>2 DEF Good, Exact, Kept, CountRecords, despawn_player
<1>3. CASE backend = "scene" /\ (~v.scene.in_use \/ ~v.proxy.in_use)
  BY <1>3 DEF despawn_player, scene_despawn
<1>4. CASE backend = "scene" /\ v.scene.in_use /\ v.proxy.in_use
  <2> DEFINE u == [v EXCEPT !.proxy = NoProxy]
             s == [v.scene EXCEPT !.visible = FALSE, !.despawned = TRUE]
             a == fpad_despawn(v.actor)
             w == despawn_player(v)
  <2>1. /\ u \in Kept /\ u.proxy = NoProxy /\ u.scene = v.scene /\ u.actor = v.actor
        /\ u.count = v.count
    BY <1>0 DEF Kept, NoProxy, ProxyRecords
  <2>2. CASE ~v.actor.in_use
    <3>1. w = u
      BY <1>4, <2>1, <2>2 DEF despawn_player, scene_despawn
    <3>2. ~ContractAccepts(p)
      BY <1>4, <2>2 DEF Good, Match, fpalv_validate_present
    <3> HIDE DEF u, w
    <3>. QED  BY <2>1, <3>1, <3>2 DEF Good, Exact, Match, w
  <2>3. CASE v.actor.in_use
    <3>1. w = [u EXCEPT !.actor = fpad_despawn(@),
                        !.scene = [@ EXCEPT !.visible = FALSE, !.despawned = TRUE]]
      BY <1>4, <2>1, <2>3 DEF despawn_player, scene_despawn
    <3>2. /\ s \in SceneRecords
          /\ s.in_use = TRUE /\ s.visible = FALSE /\ s.despawned = TRUE
          /\ s.presented = v.scene.presented /\ s.target = v.scene.target
          /\ s.pending = v.scene.pending /\ s.teleported = v.scene.teleported
      BY <1>0, <1>4 DEF SceneRecords
    <3>3. /\ a \in ActorRecords
          /\ a.in_use = TRUE /\ a.visible = FALSE /\ a.despawned = TRUE
      BY <1>0, <2>3 DEF ActorRecords, fpad_despawn
    <3> HIDE DEF u, w
    <3>4. w = [u EXCEPT !.actor = a, !.scene = s]
      BY <2>1, <3>1
    <3> HIDE DEF s, a
    <3>5. w \in Kept /\ w.proxy = NoProxy /\ w.scene = s /\ w.actor = a
      BY <2>1, <3>2, <3>3, <3>4 DEF Kept
    <3>6. Exact(w)
      BY <1>4, <3>2, <3>5 DEF Good, Exact
    <3>7. Match(w, p)
      BY <3>2, <3>3, <3>5 DEF Match, fpalv_validate_despawn, NoProxy
    <3>. QED  BY <3>5, <3>6, <3>7 DEF Good, w
  <2>. QED  BY <2>2, <2>3
<1>. QED  BY <1>1, <1>2, <1>3, <1>4 DEF TypeOK

LEMMA StepIsGood ==
    ASSUME NEW p \in Players, NEW v, Good(v, p), TypeOK
    PROVE  Good(SceneStep(v), p)
<1>0. v \in Kept /\ v.scene \in SceneRecords /\ v.actor \in ActorRecords
  BY DEF Good, Kept
<1> DEFINE q == lerpf(v.scene.presented, v.scene.target, InterpAlpha)
           s == [v.scene EXCEPT !.presented = q, !.pending = q # v.scene.target]
           a == fpad_move(v.actor, q)
           w == SceneStep(v)
           idle == \/ ~v.scene.in_use \/ ~v.scene.visible \/ v.scene.despawned
                   \/ ~interp \/ v.scene.teleported
<1>1. CASE idle
  BY <1>1 DEF SceneStep
<1>2. CASE ~idle
  <2>1. q \in Positions
    <3>1. v.scene.presented \in Positions /\ v.scene.target \in Positions
      BY <1>0 DEF SceneRecords
    <3>. QED  BY <3>1, InterpPosition
  <2>2. w = Presented([v EXCEPT !.scene = s])
    <3>1. w = Presented([v EXCEPT !.scene = [@ EXCEPT !.presented = q,
                                                      !.pending = q # v.scene.target]])
      BY <1>2 DEF SceneStep
    <3>. QED  BY <3>1
  <2> HIDE DEF q
  <2>3. /\ s \in SceneRecords
        /\ s.in_use = TRUE /\ s.visible = TRUE /\ s.despawned = FALSE
        /\ s.presented = q /\ s.target = v.scene.target
        /\ s.pending = (s.presented # s.target) /\ s.teleported = FALSE
    BY <1>0, <1>2, <2>1 DEF SceneRecords
  <2>4. /\ a \in ActorRecords
        /\ a.in_use = TRUE /\ a.visible = TRUE /\ a.despawned = FALSE /\ a.pos = q
    BY <1>0, <2>1 DEF ActorRecords, fpad_move
  <2> HIDE DEF s
  <2>5. w = [v EXCEPT !.scene = s, !.actor = a]
    BY <1>0, <2>2, <2>3 DEF Presented, Kept
  <2> HIDE DEF a, w
  <2>6. w \in Kept /\ w.proxy = v.proxy /\ w.scene = s /\ w.actor = a
    BY <1>0, <2>3, <2>4, <2>5 DEF Kept
  <2>7. Exact(w)
    BY <2>3, <2>6 DEF Exact
  <2>8. Match(v, p) => Match(w, p)
    BY <1>2, <2>3, <2>4, <2>6 DEF Match, fpalv_validate_present, fpalv_validate_despawn
  <2>. QED  BY <2>6, <2>7, <2>8 DEF Good, w
<1>. QED  BY <1>1, <1>2

-----------------------------------------------------------------------------
(***************************************************************************)
(* Invariance                                                              *)
(***************************************************************************)

LEMMA NothingIsGood ==
    ASSUME NEW p \in Players
    PROVE  Nothing \in Kept /\ Good(Nothing, p)
<1>1. 0 \in Positions
  BY SceneAssumption DEF Positions
<1>2. Nothing \in Kept
  BY <1>1 DEF Nothing, NoProxy, NoScene, NoActor, NoCount, Kept, ProxyRecords,
              SceneRecords, ActorRecords, CountRecords
<1>. QED  BY <1>2 DEF Good, Exact, Match, Nothing, NoScene

LEMMA InitHolds ==
    Init => IInv
<1> SUFFICES ASSUME Init PROVE IInv
  OBVIOUS
<1>1. shown = [p \in Players |-> Nothing]
  BY DEF Init
<1>2. TypeOK
  <2>1. shown \in [Players -> Kept]
    BY <1>1, NothingIsGood
  <2>. QED  BY <2>1 DEF Init, TypeOK
<1>. QED  BY <1>1, <1>2, NothingIsGood DEF IInv

\* A state that arrives, current or overtaken.
LEMMA ApplyIsGood ==
    ASSUME IInv, NEW p \in Players, NEW pos \in Positions, NEW older \in BOOLEAN,
           rpm_apply_remote_player_state(p, pos, older),
           UNCHANGED <<truth, moves, joins, local, backend, interp>>
    PROVE  IInv'
<1> DEFINE v == shown[p]
           spawned == IF v.proxy.in_use THEN v ELSE spawn_player(v, p, pos)
           w == shown'[p]
<1>1. Good(v, p) /\ TypeOK
  BY DEF IInv
<1>2. Good(spawned, p)
  BY <1>1, SpawnIsGood
<1>3. shown' = [shown EXCEPT ![p] = w]
  BY <1>1 DEF rpm_apply_remote_player_state, TypeOK
<1>4. Good(w, p)
  <2> DEFINE refused == ~v.proxy.in_use /\ backend = "scene" /\ ~ContractAccepts(p)
  <2>1. w = IF p = local \/ (v.proxy.in_use /\ older) THEN v
            ELSE IF refused THEN spawned ELSE Updated(spawned, p, pos)
    BY <1>1 DEF rpm_apply_remote_player_state, TypeOK
  <2>2. ~refused /\ backend = "scene" => spawned.proxy.in_use
    <3>1. CASE v.proxy.in_use
      BY <3>1
    <3>2. CASE ~v.proxy.in_use /\ backend = "scene" /\ ContractAccepts(p)
      <4>1. v \in Kept
        BY <1>1 DEF Good
      <4>. QED
        BY <3>2, <4>1 DEF spawn_player, scene_spawn, ensure_scene_player_from_spawn, Kept
    <3>. QED  BY <3>1, <3>2
  <2>3. ~refused => Good(Updated(spawned, p, pos), p)
    <3> HIDE DEF refused, spawned
    <3>. QED  BY <1>1, <1>2, <2>2, UpdatedIsGood
  <2> HIDE DEF refused, spawned, v
  <2>. QED  BY <1>1, <1>2, <2>1, <2>3
<1> HIDE DEF w
<1>5. w \in Kept
  BY <1>4 DEF Good
<1>6. TypeOK'
  BY <1>1, <1>3, <1>5 DEF TypeOK
<1>7. ASSUME NEW x \in Players  PROVE Good(shown'[x], x)
  <2>1. Good(shown[x], x)
    BY DEF IInv
  <2>. QED  BY <1>1, <1>3, <1>4, <2>1 DEF TypeOK
<1>8. ASSUME NEW x \in Players  PROVE Good(shown[x], x)'
  BY <1>7 DEF Good
<1>. QED  BY <1>6, <1>8 DEF IInv

LEMMA StepHolds ==
    IInv /\ [Next]_vars => IInv'
<1> SUFFICES ASSUME IInv, [Next]_vars  PROVE IInv'
  OBVIOUS
<1>0. TypeOK /\ \A p \in Players : Good(shown[p], p)
  BY DEF IInv
<1>1. CASE rpb_step_backend
  <2>1. UNCHANGED <<truth, moves, joins, local, backend, interp>>
    BY <1>1 DEF rpb_step_backend
  <2>2. ASSUME NEW p \in Players  PROVE Good(shown'[p], p)
    BY <1>0, <1>1, StepIsGood DEF rpb_step_backend
  <2>3. shown' \in [Players -> Kept]
    <3>1. \A p \in Players : shown'[p] \in Kept
      BY <2>2 DEF Good
    <3>2. shown' = shown \/ shown' = [p \in Players |-> SceneStep(shown[p])]
      BY <1>1 DEF rpb_step_backend
    <3>. QED  BY <1>0, <3>1, <3>2 DEF TypeOK
  <2>. QED  BY <1>0, <2>1, <2>2, <2>3 DEF IInv, TypeOK, Good
<1>2. ASSUME NEW id \in LocalIds, NEW restarted \in BOOLEAN, Join(id, restarted)
      PROVE  IInv'
  <2>1. ASSUME NEW p \in Players
        PROVE  shown'[p] \in Kept /\ Exact(shown'[p])
    BY <1>0, <1>2, NothingIsGood DEF Join, Good
  <2>2. shown' \in [Players -> Kept]
    <3>1. shown' = shown \/ shown' = [p \in Players |-> Nothing]
      BY <1>2 DEF Join
    <3>. QED  BY <1>0, <3>1, NothingIsGood DEF TypeOK
  <2>3. backend' = "default" /\ joins' \in Nat /\ local' \in Nat /\ interp' \in BOOLEAN
        /\ UNCHANGED <<truth, moves>>
    BY <1>0, <1>2, SceneAssumption DEF Join, TypeOK
  <2>4. TypeOK'
    BY <1>0, <2>2, <2>3 DEF TypeOK
  <2>. QED  BY <2>1, <2>3, <2>4 DEF IInv, Good
<1>3. CASE fo4_scene_proxy_backend_stub_install
  <2>1. 0 \in Positions
    BY SceneAssumption DEF Positions
  <2>2. ASSUME NEW p \in Players
        PROVE  shown'[p] \in Kept /\ ~shown'[p].scene.in_use
    <3>1. shown'[p] = [shown[p] EXCEPT !.scene = NoScene] /\ shown[p] \in Kept
      BY <1>0, <1>3 DEF fo4_scene_proxy_backend_stub_install, Good
    <3>2. NoScene \in SceneRecords /\ ~NoScene.in_use
      BY <2>1 DEF NoScene, SceneRecords
    <3>. QED  BY <3>1, <3>2 DEF Kept
  <2>3. shown' \in [Players -> Kept]
    BY <1>3, <2>2 DEF fo4_scene_proxy_backend_stub_install
  <2>4. TypeOK'
    BY <1>0, <1>3, <2>3 DEF fo4_scene_proxy_backend_stub_install, TypeOK
  <2>. QED  BY <2>2, <2>4 DEF IInv, Good, Exact, Match
<1>4. CASE fo4_proxy_backend_stub_install
  <2>1. 0 \in Positions
    BY SceneAssumption DEF Positions
  <2>2. ASSUME NEW p \in Players
        PROVE  shown'[p] \in Kept /\ shown'[p].scene = shown[p].scene
    <3>1. shown'[p] = [shown[p] EXCEPT !.count = NoCount] /\ shown[p] \in Kept
      BY <1>0, <1>4 DEF fo4_proxy_backend_stub_install, Good
    <3>2. NoCount \in CountRecords
      BY <2>1 DEF NoCount, CountRecords
    <3>. QED  BY <3>1, <3>2 DEF Kept
  <2>3. shown' \in [Players -> Kept]
    BY <1>4, <2>2 DEF fo4_proxy_backend_stub_install
  <2>4. TypeOK'
    BY <1>0, <1>4, <2>3 DEF fo4_proxy_backend_stub_install, TypeOK
  <2>5. backend' = "counting"
    BY <1>4 DEF fo4_proxy_backend_stub_install
  <2>. QED  BY <1>0, <2>2, <2>4, <2>5 DEF IInv, Good, Exact
<1>5. ASSUME NEW on \in BOOLEAN, fo4_scene_proxy_backend_stub_set_interpolation_config(on)
      PROVE  IInv'
  BY <1>0, <1>5
     DEF fo4_scene_proxy_backend_stub_set_interpolation_config, IInv, TypeOK, Good
<1>6. ASSUME NEW p \in Players, Receive(p)  PROVE IInv'
  <2>1. truth[p] \in Positions
    BY <1>0, <1>6 DEF Receive, TypeOK
  <2>. QED  BY <1>6, <2>1, ApplyIsGood DEF Receive
<1>7. ASSUME NEW p \in Players, rpm_remove_remote_player(p)  PROVE IInv'
  <2>1. /\ UNCHANGED <<truth, moves, joins, local, backend, interp>>
        /\ shown' = [shown EXCEPT ![p] = IF p = local THEN @ ELSE despawn_player(@)]
    BY <1>7 DEF rpm_remove_remote_player
  <2>2. ASSUME NEW x \in Players  PROVE Good(shown'[x], x)
    <3>1. shown'[x] = shown[x] \/ shown'[x] = despawn_player(shown[x])
      BY <1>0, <2>1 DEF TypeOK
    <3>. QED  BY <1>0, <3>1, DespawnIsGood
  <2>3. shown' \in [Players -> Kept]
    <3>1. \A x \in Players : shown'[x] \in Kept
      BY <2>2 DEF Good
    <3>2. shown' = [shown EXCEPT ![p] = shown'[p]]
      BY <1>0, <2>1 DEF TypeOK
    <3>. QED  BY <1>0, <3>1, <3>2 DEF TypeOK
  <2>. QED  BY <1>0, <2>1, <2>2, <2>3 DEF IInv, TypeOK, Good
<1>8. ASSUME NEW p \in Players, NEW pos \in Positions, ReceiveOld(p, pos)  PROVE IInv'
  BY <1>8, ApplyIsGood DEF ReceiveOld
<1>9. ASSUME NEW p \in Players, NEW pos \in Positions \cup {Gone}, Move(p, pos)  PROVE IInv'
  BY <1>0, <1>9 DEF Move, IInv, TypeOK, Good
<1>10. CASE UNCHANGED vars
  BY <1>0, <1>10 DEF vars, IInv, TypeOK, Good
<1>. QED  BY <1>1, <1>2, <1>3, <1>4, <1>5, <1>6, <1>7, <1>8, <1>9, <1>10 DEF Next

\* The invariant is inductive.
THEOREM Invariance ==
    Spec => []IInv
  BY InitHolds, StepHolds, PTL DEF Spec

\* TypeOK is an invariant: with smoothing factors of at most 1 (lerpf) no proxy,
\* entry or actor is ever placed beyond the positions of the players.
THEOREM TypeCorrect ==
    Spec => []TypeOK
<1>1. IInv => TypeOK
  BY DEF IInv
<1>. QED  BY <1>1, Invariance, PTL

\* scene_spawn, scene_update, scene_despawn, note_policy_result and the step
\* agree with the proxies and the driver: whatever other backends and former
\* sessions left behind, an entry of the scene backend is a present actor at
\* the presented position exactly while there is a proxy.
THEOREM SceneFollowsProxy ==
    Spec => []SceneMatchesProxy
<1>1. IInv => SceneMatchesProxy
  BY DEF IInv, Good, Match, SceneMatchesProxy
<1>. QED  BY <1>1, Invariance, PTL

\* interpolation_pending is set exactly while something is left to interpolate,
\* and never after a teleport (note_policy_result, scene_update and the step),
\* under every configuration.
THEOREM PendingFlagIsExact ==
    Spec => []PendingIsExact
<1>1. IInv => PendingIsExact
  BY DEF IInv, Good, Exact, PendingIsExact
<1>. QED  BY <1>1, Invariance, PTL

=============================================================================
