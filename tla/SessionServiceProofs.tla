------------------------ MODULE SessionServiceProofs ------------------------
(***************************************************************************)
(* Proofs about SessionService.                                            *)
(***************************************************************************)
EXTENDS SessionService, SharedLemmas, FiniteSetTheorems, TLAPS

-----------------------------------------------------------------------------
(***************************************************************************)
(* The inductive invariant, with its parts as predicates on the value of   *)
(* the slots: a handler first makes an intermediate value of them, which   *)
(* tl_tick then ages.                                                      *)
(***************************************************************************)

SlotsOK(ps) ==
    /\ ps \in [Slots -> PlayerRecord]
    /\ \A i \in Slots :
        /\ ps[i].player_id \in {0, i}
        /\ ps[i].connected => ps[i].player_id = i /\ ps[i].conn # 0 /\ i \in PlayerIds
        /\ ps[i].state \in {0, i}

ReachOK(ps, reg) ==
    \A g \in Guids : reg[g] # 0 => ps[reg[g]].player_id = reg[g]

GuidsOK(ps, reg, us) ==
    \A i \in Slots :
        ps[i].connected /\ ps[i].guid \in Bindable =>
            reg[ps[i].guid] = i \/ (us = MaxRegistry /\ reg[ps[i].guid] = 0)

RoutesOK(ps, bnd) ==
    \A i \in Slots : ps[i].connected =>
        \E e \in Endpoints : bnd[e] = ps[i].conn /\ ps[i].guid \in Speaks[e]

BindingsOK ==
    /\ \A e \in Endpoints : binding[e] <= bound
    /\ BindingsAreDistinct

IInv ==
    /\ TypeOK
    /\ SlotsOK(players)
    /\ ReachOK(players, registry)
    /\ GuidsOK(players, registry, used)
    /\ RoutesOK(players, binding)
    /\ BindingsOK

\* qs differs from ps only by players that are gone and by their silence.
Keeps(ps, qs) ==
    \A i \in Slots :
        /\ qs[i].player_id = ps[i].player_id
        /\ qs[i].connected => /\ ps[i].connected
                              /\ qs[i].conn = ps[i].conn
                              /\ qs[i].guid = ps[i].guid

\* What does not depend on who has left carries over from ps to qs.
LEMMA KeepsCarries ==
    ASSUME NEW ps, NEW qs, NEW reg, NEW us, NEW bnd, Keeps(ps, qs),
           reg \in [Guids -> 0 .. (MaxPlayers - 1)]
    PROVE  /\ ReachOK(ps, reg) => ReachOK(qs, reg)
           /\ GuidsOK(ps, reg, us) => GuidsOK(qs, reg, us)
           /\ RoutesOK(ps, bnd) => RoutesOK(qs, bnd)
<1>1. ReachOK(ps, reg) => ReachOK(qs, reg)
  BY SizesAssumption DEF Keeps, ReachOK, Slots
<1>2. GuidsOK(ps, reg, us) => GuidsOK(qs, reg, us)
  BY DEF Keeps, GuidsOK
<1>3. RoutesOK(ps, bnd) => RoutesOK(qs, bnd)
  BY DEF Keeps, RoutesOK
<1>. QED  BY <1>1, <1>2, <1>3

\* Removing a player keeps its id and its state.
LEMMA RemovedIsSafe ==
    ASSUME NEW p \in PlayerRecord
    PROVE  /\ Removed(p) \in PlayerRecord
           /\ Removed(p).player_id = p.player_id
           /\ Removed(p).state = p.state
           /\ ~Removed(p).connected
<1>1. 0 \in 0 .. MaxBindings /\ 0 \in 0 .. TimeoutTicks
  BY SizesAssumption
<1> DEFINE q == [p EXCEPT !.connected = FALSE, !.conn = 0]
<1>2. q \in PlayerRecord /\ q.player_id = p.player_id /\ q.state = p.state /\ ~q.connected
  BY <1>1 DEF PlayerRecord
<1>3. Removed(p) = [q EXCEPT !.silent = 0]
  BY DEF Removed
<1> HIDE DEF q
<1>. QED  BY <1>1, <1>2, <1>3 DEF PlayerRecord

\* Removing connected players by their ids removes their own slots.
LEMMA RemovalById ==
    ASSUME NEW ps, SlotsOK(ps), NEW gone, gone \subseteq Connected(ps)
    PROVE  SlotsById(ps, gone) = gone
<1>1. ASSUME NEW i \in gone
      PROVE  Min({k \in Slots : ps[k].player_id = ps[i].player_id}) = i
  <2>1. i \in Slots /\ ps[i].player_id = i /\ i # 0
    BY SizesAssumption DEF SlotsOK, Connected, Slots
  <2>2. {k \in Slots : ps[k].player_id = ps[i].player_id} = {i}
    BY <2>1 DEF SlotsOK
  <2>. QED  BY <2>2, MinOfOne
<1>. QED  BY <1>1 DEF SlotsById

\* tl_tick keeps the slots well formed and only removes players.
LEMMA TickIsSafe ==
    ASSUME NEW ps, NEW out, NEW base, SlotsOK(ps), out \subseteq Outputs,
           tl_tick(ps, out, base)
    PROVE  SlotsOK(players') /\ outputs' \subseteq Outputs /\ Keeps(ps, players')
<1> DEFINE gone == Expired(ps)
           rs == sm_remove_player(ps, gone)
<1>1. players' = Aged(rs) /\ outputs' = out \cup LeftBroadcast(ps, gone, base)
  BY DEF tl_tick
<1>2. \A i \in Slots : rs[i] = IF i \in gone THEN Removed(ps[i]) ELSE ps[i]
  <2>1. SlotsById(ps, gone) = gone
    BY RemovalById DEF Expired
  <2>. QED  BY <2>1 DEF sm_remove_player
<1>3. \A i \in Slots : ps[i].connected /\ TimeoutTicks > 0 /\ i \notin gone
                       => ps[i].silent + 1 <= TimeoutTicks
  BY SizesAssumption DEF Expired, Connected, SlotsOK, PlayerRecord
<1>4. \A i \in Slots : /\ Removed(ps[i]) \in PlayerRecord
                       /\ Removed(ps[i]).player_id = ps[i].player_id
                       /\ Removed(ps[i]).state = ps[i].state
                       /\ ~Removed(ps[i]).connected
  BY RemovedIsSafe DEF SlotsOK
<1>5. \A i \in Slots :
        players'[i] = IF rs[i].connected /\ TimeoutTicks > 0
                      THEN [rs[i] EXCEPT !.silent = @ + 1] ELSE rs[i]
  BY <1>1 DEF Aged
<1>6. ASSUME NEW i \in Slots
      PROVE  /\ players'[i] \in PlayerRecord
             /\ players'[i].player_id = ps[i].player_id
             /\ players'[i].state = ps[i].state
             /\ players'[i].connected => /\ ps[i].connected
                                         /\ players'[i].conn = ps[i].conn
                                         /\ players'[i].guid = ps[i].guid
  <2>1. CASE i \in gone
    BY <1>2, <1>4, <1>5, <2>1
  <2>2. CASE i \notin gone
    <3> HIDE DEF gone
    <3>1. rs[i] = ps[i] /\ ps[i] \in PlayerRecord
      BY <1>2, <2>2 DEF SlotsOK
    <3>2. CASE ps[i].connected /\ TimeoutTicks > 0
      <4>1. players'[i] = [ps[i] EXCEPT !.silent = @ + 1]
        BY <1>5, <3>1, <3>2
      <4>2. ps[i].silent + 1 \in 0 .. TimeoutTicks
        BY <1>3, <2>2, <3>1, <3>2, SizesAssumption DEF PlayerRecord
      <4>. QED  BY <4>1, <4>2, <3>1 DEF PlayerRecord
    <3>3. CASE ~(ps[i].connected /\ TimeoutTicks > 0)
      BY <1>5, <3>1, <3>3
    <3>. QED  BY <3>2, <3>3
  <2>. QED  BY <2>1, <2>2
<1>7. players' \in [Slots -> PlayerRecord]
  BY <1>1, <1>6 DEF Aged
<1>8. SlotsOK(players') /\ Keeps(ps, players')
  BY <1>6, <1>7 DEF SlotsOK, Keeps
<1>9. LeftBroadcast(ps, gone, base) \subseteq Outputs
  <2>1. \A p \in LeftPairs(ps, gone) : /\ p[1] \in Slots /\ p[2] \in Slots
                                       /\ ps[p[2]].connected
    BY DEF LeftPairs, Expired, Connected
  <2>2. \A p \in LeftPairs(ps, gone) :
           Output(ps[p[2]].conn, "left", ps[p[1]].player_id) \in Outputs
    BY <2>1, SizesAssumption DEF SlotsOK, PlayerRecord, Output, Outputs
  <2>. QED  BY <2>2 DEF LeftBroadcast
<1>. QED  BY <1>1, <1>8, <1>9

-----------------------------------------------------------------------------
(***************************************************************************)
(* The steps                                                               *)
(***************************************************************************)

\* Setting last_heard_tick changes nothing the invariant reads.
LEMMA HeardIsSafe ==
    ASSUME NEW ps, NEW i \in Slots, SlotsOK(ps)
    PROVE  /\ SlotsOK(Heard(ps, i)) /\ Keeps(ps, Heard(ps, i))
           /\ Connected(Heard(ps, i)) = Connected(ps)
           /\ Heard(ps, i)[i].silent = 0
<1>1. Heard(ps, i) \in [Slots -> PlayerRecord]
  BY SizesAssumption DEF Heard, SlotsOK, PlayerRecord
<1>2. \A j \in Slots : /\ Heard(ps, i)[j].player_id = ps[j].player_id
                       /\ Heard(ps, i)[j].connected = ps[j].connected
                       /\ Heard(ps, i)[j].conn = ps[j].conn
                       /\ Heard(ps, i)[j].state = ps[j].state
                       /\ Heard(ps, i)[j].guid = ps[j].guid
  BY DEF Heard, SlotsOK, PlayerRecord
<1>3. Heard(ps, i)[i].silent = 0
  BY DEF Heard, SlotsOK, PlayerRecord
<1>4. Connected(Heard(ps, i)) = Connected(ps)
  BY <1>2 DEF Connected
<1>. QED  BY <1>1, <1>2, <1>3, <1>4 DEF SlotsOK, Keeps

\* A new binding takes a fresh id and leaves the others alone.
LEMMA BindingIsSafe ==
    ASSUME TypeOK, BindingsOK, NEW e \in Endpoints,
           get_connection_id_for_endpoint(e)
    PROVE  /\ binding' \in [Endpoints -> 0 .. MaxBindings]
           /\ bound' \in 0 .. MaxBindings
           /\ BindingsOK'
           /\ binding'[e] = ConnectionOf(e)
           /\ ConnectionOf(e) \in 1 .. MaxBindings
           /\ \A ps : RoutesOK(ps, binding) /\ SlotsOK(ps) => RoutesOK(ps, binding')
<1>1. CASE binding[e] # 0
  <2>1. binding' = binding /\ bound' = bound /\ ConnectionOf(e) = binding[e]
    BY <1>1 DEF get_connection_id_for_endpoint, ConnectionOf, TypeOK
  <2>. QED  BY <1>1, <2>1 DEF TypeOK, BindingsOK, BindingsAreDistinct
<1>2. CASE binding[e] = 0
  <2>1. /\ bound < MaxBindings
        /\ binding' = [binding EXCEPT ![e] = bound + 1]
        /\ bound' = bound + 1
        /\ ConnectionOf(e) = bound + 1
    BY <1>2 DEF get_connection_id_for_endpoint, ConnectionOf
  <2>2. \A f \in Endpoints : binding'[f] = IF f = e THEN bound + 1 ELSE binding[f]
    BY <2>1 DEF TypeOK
  <2>3. bound \in Nat /\ MaxBindings \in Nat /\ \A f \in Endpoints : binding[f] \in Nat
    BY SizesAssumption DEF TypeOK
  <2>4. BindingsOK'
    BY <2>1, <2>2, <2>3 DEF BindingsOK, BindingsAreDistinct
  <2>5. ASSUME NEW ps, RoutesOK(ps, binding), SlotsOK(ps)
        PROVE  RoutesOK(ps, binding')
    BY <1>2, <2>2, <2>5 DEF RoutesOK, SlotsOK
  <2>6. /\ binding' \in [Endpoints -> 0 .. MaxBindings]
        /\ bound' \in 0 .. MaxBindings
        /\ bound + 1 \in 1 .. MaxBindings
    BY <2>1, <2>3 DEF TypeOK
  <2>. QED  BY <2>1, <2>2, <2>4, <2>5, <2>6
<1>. QED  BY <1>1, <1>2

\* A datagram of a joined player is handled for a connected slot.
LEMMA FromPlayerIsSafe ==
    ASSUME IInv, NEW e \in Endpoints, NEW i \in Slots, FromPlayer(e, i)
    PROVE  /\ players[i].connected
           /\ get_connection_id_for_endpoint(e)
           /\ registry' = registry /\ used' = used
           /\ ConnectionOf(e) \in 1 .. MaxBindings
<1> DEFINE c == ConnectionOf(e)
           S == {j \in Connected(players) : players[j].conn = c}
           k == find_by_connection(players, c)
           T == {j \in Connected(players) : players[j].player_id = players[k].player_id}
<1>1. S # {} /\ S \subseteq Nat
  BY SizesAssumption DEF FromPlayer, HasPlayer, Connected, Slots
<1>2. k \in Connected(players)
  BY <1>1, MinIsLeast DEF find_by_connection
<1>3. T # {} /\ T \subseteq Nat
  BY <1>2, SizesAssumption DEF Connected, Slots
<1>4. i = Min(T)
  BY DEF FromPlayer, find_player
<1>5. i \in Connected(players)
  <2> HIDE DEF k
  <2>. QED BY <1>3, <1>4, MinIsLeast
<1>. QED
  BY <1>5, BindingIsSafe DEF FromPlayer, Connected, IInv

\* A step that ticks from a well-formed value of the slots keeps the invariant.
LEMMA TickStep ==
    ASSUME IInv, NEW e \in Endpoints, get_connection_id_for_endpoint(e),
           registry' \in [Guids -> 0 .. (MaxPlayers - 1)], used' \in 0 .. MaxRegistry,
           NEW ps, NEW out, NEW base,
           SlotsOK(ps), ReachOK(ps, registry'), GuidsOK(ps, registry', used'),
           RoutesOK(ps, binding'), out \subseteq Outputs,
           tl_tick(ps, out, base)
    PROVE  IInv'
<1>1. SlotsOK(players') /\ outputs' \subseteq Outputs /\ Keeps(ps, players')
  BY TickIsSafe
<1>2. /\ ReachOK(players', registry')
      /\ GuidsOK(players', registry', used')
      /\ RoutesOK(players', binding')
  BY <1>1, KeepsCarries
<1>3. /\ binding' \in [Endpoints -> 0 .. MaxBindings]
      /\ bound' \in 0 .. MaxBindings
      /\ BindingsOK'
  BY BindingIsSafe DEF IInv
<1>4. players' \in [Slots -> PlayerRecord]
  BY <1>1 DEF SlotsOK
<1>5. TypeOK'
  BY <1>1, <1>3, <1>4 DEF TypeOK
<1>6. SlotsOK(players)' /\ ReachOK(players, registry)' /\ GuidsOK(players, registry, used)'
      /\ RoutesOK(players, binding)'
  BY <1>1, <1>2 DEF SlotsOK, ReachOK, GuidsOK, RoutesOK
<1>. QED  BY <1>3, <1>5, <1>6 DEF IInv

\* A handled message of a joined player whose handler keeps everybody's id,
\* connection and GUID.
LEMMA PlayerStep ==
    ASSUME IInv, NEW e \in Endpoints, NEW i \in Slots, FromPlayer(e, i),
           NEW ps, NEW out, NEW base, SlotsOK(ps), Keeps(players, ps),
           out \subseteq Outputs, tl_tick(ps, out, base)
    PROVE  IInv' /\ Keeps(players, players') /\ registry' = registry
<1>1. /\ get_connection_id_for_endpoint(e)
      /\ registry' = registry /\ used' = used
  BY FromPlayerIsSafe
<1>2. RoutesOK(ps, binding')
  <2>1. RoutesOK(ps, binding)
    BY KeepsCarries DEF IInv, TypeOK
  <2>. QED  BY <2>1, <1>1, BindingIsSafe DEF IInv
<1>3. ReachOK(ps, registry') /\ GuidsOK(ps, registry', used')
  BY <1>1, KeepsCarries DEF IInv, TypeOK
<1>4. registry' \in [Guids -> 0 .. (MaxPlayers - 1)] /\ used' \in 0 .. MaxRegistry
  BY <1>1 DEF IInv, TypeOK
<1>5. Keeps(ps, players')
  BY TickIsSafe
<1>6. Keeps(players, players')
  BY <1>5 DEF Keeps
<1>7. IInv'
  BY <1>1, <1>2, <1>3, <1>4, TickStep
<1>. QED  BY <1>1, <1>6, <1>7

\* A message that is refused after the slots became ps.
LEMMA RefusedStep ==
    ASSUME IInv, NEW e \in Endpoints, get_connection_id_for_endpoint(e),
           registry' = registry, used' = used,
           NEW ps, SlotsOK(ps), Keeps(players, ps), NotHandled(ps)
    PROVE  IInv' /\ Keeps(players, players') /\ registry' = registry
<1>1. players' = ps /\ outputs' = {}
  BY DEF NotHandled
<1>2. RoutesOK(ps, binding')
  <2>1. RoutesOK(ps, binding)
    BY KeepsCarries DEF IInv, TypeOK
  <2>. QED  BY <2>1, BindingIsSafe DEF IInv
<1>3. ReachOK(ps, registry') /\ GuidsOK(ps, registry', used')
  BY KeepsCarries DEF IInv, TypeOK
<1>4. /\ binding' \in [Endpoints -> 0 .. MaxBindings]
      /\ bound' \in 0 .. MaxBindings
      /\ BindingsOK'
  BY BindingIsSafe DEF IInv
<1>5. TypeOK'
  BY <1>1, <1>4 DEF TypeOK, SlotsOK, IInv
<1>6. SlotsOK(players)' /\ ReachOK(players, registry)' /\ GuidsOK(players, registry, used)'
      /\ RoutesOK(players, binding)'
  BY <1>1, <1>2, <1>3 DEF SlotsOK, ReachOK, GuidsOK, RoutesOK
<1>7. IInv'
  BY <1>4, <1>5, <1>6 DEF IInv
<1>. QED  BY <1>1, <1>7

\* The outputs of a state broadcast and of a leave are well formed.
LEMMA BroadcastsAreOutputs ==
    ASSUME NEW ps, SlotsOK(ps), NEW i \in Slots, NEW gone \in SUBSET Slots, NEW base
    PROVE  /\ StateBroadcast(ps, i) \subseteq Outputs
           /\ LeftBroadcast(ps, gone, base) \subseteq Outputs
<1>1. StateBroadcast(ps, i) \subseteq Outputs
  BY SizesAssumption DEF StateBroadcast, Connected, SlotsOK, PlayerRecord, Output, Outputs
<1>2. \A p \in LeftPairs(ps, gone) : /\ p[1] \in Slots /\ p[2] \in Slots
                                     /\ ps[p[2]].connected
  BY DEF LeftPairs, Connected
<1>3. \A p \in LeftPairs(ps, gone) :
         Output(ps[p[2]].conn, "left", ps[p[1]].player_id) \in Outputs
  BY <1>2, SizesAssumption DEF SlotsOK, PlayerRecord, Output, Outputs
<1>4. LeftBroadcast(ps, gone, base) \subseteq Outputs
  BY <1>3 DEF LeftBroadcast
<1>. QED  BY <1>1, <1>4

\* Every message of a joined player preserves the invariant, and takes nobody's
\* seat for somebody else.
LEMMA PlayerMessages ==
    ASSUME IInv, NEW e \in Endpoints,
           \/ RecvPing(e)
           \/ RecvDisconnect(e)
           \/ \E m \in States : RelayPlayerState(e, m)
           \/ \E m \in States : StalePlayerState(e, m)
           \/ RecvInputState(e)
           \/ RecvCombatOrBuild(e)
           \/ RefusedFire(e)
           \/ RecvWorkshopOrDialogue(e)
    PROVE  IInv' /\ Keeps(players, players') /\ registry' = registry
<1>1. SlotsOK(players) /\ Keeps(players, players)
  BY DEF IInv, Keeps
<1>2. \A i \in Slots : SlotsOK(Heard(players, i)) /\ Keeps(players, Heard(players, i))
  BY <1>1, HeardIsSafe
<1>3. CASE RecvPing(e)
  <2>1. PICK i \in Slots :
          /\ FromPlayer(e, i)
          /\ tl_tick(Heard(players, i), {Output(ConnectionOf(e), "pong", 0)}, 1)
    BY <1>3 DEF RecvPing
  <2>2. {Output(ConnectionOf(e), "pong", 0)} \subseteq Outputs
    BY <2>1, FromPlayerIsSafe, SizesAssumption DEF Output, Outputs
  <2>. QED  BY <2>1, <2>2, <1>2, PlayerStep
<1>4. CASE RecvDisconnect(e)
  <2>1. PICK i \in Slots :
          /\ FromPlayer(e, i)
          /\ tl_tick(sm_remove_player(Heard(players, i), {i}),
                     LeftBroadcast(Heard(players, i), {i}, 0),
                     Cardinality(Connected(Heard(players, i))))
    BY <1>4 DEF RecvDisconnect
  <2> DEFINE hs == Heard(players, i)
             ps == sm_remove_player(hs, {i})
  <2>2. SlotsOK(hs) /\ Keeps(players, hs)
    BY <1>2
  <2> HIDE DEF hs
  <2>3. \A j \in Slots : ps[j] = Removed(hs[j]) \/ ps[j] = hs[j]
    BY DEF sm_remove_player
  <2>4. \A j \in Slots : hs[j] \in PlayerRecord
    BY <2>2 DEF SlotsOK
  <2>5. \A j \in Slots : /\ ps[j] \in PlayerRecord
                         /\ ps[j].player_id = hs[j].player_id
                         /\ ps[j].state = hs[j].state
                         /\ ps[j].connected => ps[j] = hs[j]
    BY <2>3, <2>4, RemovedIsSafe
  <2>6. ps \in [Slots -> PlayerRecord]
    BY <2>5 DEF sm_remove_player
  <2>7. SlotsOK(ps) /\ Keeps(players, ps)
    BY <2>2, <2>5, <2>6 DEF SlotsOK, Keeps
  <2>8. LeftBroadcast(hs, {i}, 0) \subseteq Outputs
    BY <2>2, BroadcastsAreOutputs
  <2>. QED  BY <2>1, <2>7, <2>8, PlayerStep DEF hs
<1>5. CASE \E m \in States : RelayPlayerState(e, m)
  <2>1. PICK m \in States, i \in Slots :
          /\ FromPlayer(e, i)
          /\ LET ps == [Heard(players, i) EXCEPT
                          ![i].stats = psr_absorb(@, m),
                          ![i].state = players[i].player_id]
             IN  tl_tick(ps, StateBroadcast(ps, i), Cardinality(Connected(ps)))
    BY <1>5 DEF RelayPlayerState
  <2> DEFINE hs == Heard(players, i)
             qs == [hs EXCEPT ![i].stats = psr_absorb(@, m)]
             ps == [qs EXCEPT ![i].state = players[i].player_id]
  <2>2. tl_tick(ps, StateBroadcast(ps, i), Cardinality(Connected(ps)))
    BY <2>1
  <2>3. SlotsOK(hs) /\ Keeps(players, hs)
    BY <1>2
  <2>4. m \in Stamps /\ hs[i] \in PlayerRecord /\ players[i].player_id \in {0, i}
    BY <1>1, <2>3, InputsAssumption DEF SlotsOK
  <2>5. players[i].player_id \in 0 .. MaxPlayers
    BY <1>1 DEF SlotsOK, PlayerRecord
  <2> HIDE DEF hs
  <2>6. psr_absorb(hs[i].stats, m) \in Stamps
    BY <2>4 DEF psr_absorb, PlayerRecord, Stamps
  <2>7. /\ qs \in [Slots -> PlayerRecord]
        /\ \A j \in Slots : /\ qs[j].player_id = hs[j].player_id
                            /\ qs[j].connected = hs[j].connected
                            /\ qs[j].conn = hs[j].conn
                            /\ qs[j].state = hs[j].state
                            /\ qs[j].guid = hs[j].guid
    BY <2>3, <2>6 DEF SlotsOK, PlayerRecord
  <2> HIDE DEF qs
  <2>8. /\ ps \in [Slots -> PlayerRecord]
        /\ \A j \in Slots : /\ ps[j].player_id = hs[j].player_id
                            /\ ps[j].connected = hs[j].connected
                            /\ ps[j].conn = hs[j].conn
                            /\ ps[j].state \in {hs[j].state, players[i].player_id}
                            /\ j # i => ps[j].state = hs[j].state
                            /\ ps[j].guid = hs[j].guid
    BY <2>5, <2>7 DEF PlayerRecord
  <2>9. SlotsOK(ps) /\ Keeps(players, ps)
    BY <2>3, <2>4, <2>8 DEF SlotsOK, Keeps
  <2> HIDE DEF ps
  <2>10. StateBroadcast(ps, i) \subseteq Outputs
    BY <2>9, BroadcastsAreOutputs
  <2>. QED  BY <2>1, <2>2, <2>9, <2>10, PlayerStep
<1>6. CASE \E m \in States : StalePlayerState(e, m)
  <2>1. PICK i \in Slots : FromPlayer(e, i) /\ tl_tick(Heard(players, i), {}, 0)
    BY <1>6 DEF StalePlayerState
  <2>. QED  BY <2>1, <1>2, PlayerStep
<1>7. CASE RecvInputState(e)
  <2>1. PICK i \in Slots :
          /\ FromPlayer(e, i)
          /\ tl_tick(Heard(players, i), StateBroadcast(Heard(players, i), i),
                     Cardinality(Connected(Heard(players, i))))
    BY <1>7 DEF RecvInputState
  <2>2. StateBroadcast(Heard(players, i), i) \subseteq Outputs
    BY <1>2, BroadcastsAreOutputs
  <2>. QED  BY <2>1, <2>2, <1>2, PlayerStep
<1>8. CASE RecvCombatOrBuild(e)
  <2>1. PICK i \in Slots : FromPlayer(e, i) /\ \E base : tl_tick(Heard(players, i), {}, base)
    BY <1>8 DEF RecvCombatOrBuild
  <2>2. PICK base : tl_tick(Heard(players, i), {}, base)
    BY <2>1
  <2>. QED  BY <2>1, <2>2, <1>2, PlayerStep
<1>9. CASE RefusedFire(e)
  <2>1. PICK i \in Slots : FromPlayer(e, i) /\ NotHandled(Heard(players, i))
    BY <1>9 DEF RefusedFire
  <2>2. get_connection_id_for_endpoint(e) /\ registry' = registry /\ used' = used
    BY <2>1, FromPlayerIsSafe
  <2>. QED  BY <2>1, <2>2, <1>2, RefusedStep
<1>10. CASE RecvWorkshopOrDialogue(e)
  <2>1. PICK i \in Slots : FromPlayer(e, i) /\ \E base : tl_tick(players, {}, base)
    BY <1>10 DEF RecvWorkshopOrDialogue
  <2>2. PICK base : tl_tick(players, {}, base)
    BY <2>1
  <2>. QED  BY <2>1, <2>2, <1>1, PlayerStep
<1>. QED
  BY <1>3, <1>4, <1>5, <1>6, <1>7, <1>8, <1>9, <1>10

-----------------------------------------------------------------------------
(***************************************************************************)
(* MSG_HELLO                                                               *)
(***************************************************************************)

\* GuidsOK and RoutesOK for every slot but k.
OthersOK(ps, k, reg, us, bnd) ==
    \A i \in Slots \ {k} : ps[i].connected =>
        /\ ps[i].guid \in Bindable =>
              reg[ps[i].guid] = i \/ (us = MaxRegistry /\ reg[ps[i].guid] = 0)
        /\ \E e \in Endpoints : bnd[e] = ps[i].conn /\ ps[i].guid \in Speaks[e]

\* Greeting the player of slot k, once the registry knows its GUID if it can.
LEMMA GreetStep ==
    ASSUME IInv, NEW e \in Endpoints, get_connection_id_for_endpoint(e),
           NEW g \in Speaks[e], NEW w \in Nat, NEW k \in PlayerIds, NEW ps,
           SlotsOK(ps), ps[k].connected,
           registry' \in [Guids -> 0 .. (MaxPlayers - 1)], used' \in 0 .. MaxRegistry,
           ReachOK(ps, registry'),
           OthersOK(ps, k, registry', used', binding'),
           g \in Bindable =>
              registry'[g] = k \/ (used' = MaxRegistry /\ registry'[g] = 0),
           Greet(ps, k, ConnectionOf(e), g, w)
    PROVE  IInv'
<1> DEFINE c == ConnectionOf(e)
           p == [ps[k] EXCEPT !.conn = c, !.silent = 0]
           q == [p EXCEPT !.guid = g]
           qs == [ps EXCEPT ![k] = q]
<1>1. k \in Slots /\ k \in Nat
  BY SizesAssumption DEF PlayerIds, Slots
<1>2. find_player(ps, k) = k
  <2>1. {i \in Connected(ps) : ps[i].player_id = k} = {k}
    BY <1>1 DEF Connected, SlotsOK
  <2>. QED  BY <2>1, MinOfOne DEF find_player
<1>3. c \in 1 .. MaxBindings /\ binding'[e] = c
  BY BindingIsSafe DEF IInv
<1>4. g \in Guids
  BY InputsAssumption
<1>5. tl_tick(qs, JoinReply(qs, k), JoinReplySize(qs, w))
  BY <1>2 DEF Greet
<1> HIDE DEF c
<1>6. ps[k] \in PlayerRecord /\ 0 \in 0 .. TimeoutTicks /\ c \in 0 .. MaxBindings
  BY <1>1, <1>3, SizesAssumption DEF SlotsOK
<1>7. /\ p \in PlayerRecord /\ p.conn = c /\ p.connected = ps[k].connected
      /\ p.player_id = ps[k].player_id /\ p.state = ps[k].state
  BY <1>6 DEF PlayerRecord
<1> HIDE DEF p
<1>8. /\ q \in PlayerRecord /\ q.conn = c /\ q.connected = ps[k].connected
      /\ q.player_id = ps[k].player_id /\ q.state = ps[k].state /\ q.guid = g
  BY <1>4, <1>7 DEF PlayerRecord
<1> HIDE DEF q
<1>9. /\ qs \in [Slots -> PlayerRecord]
      /\ \A i \in Slots : qs[i] = IF i = k THEN q ELSE ps[i]
  BY <1>1, <1>8 DEF SlotsOK
<1> HIDE DEF qs
<1>10. SlotsOK(qs)
  BY <1>3, <1>8, <1>9 DEF SlotsOK
<1>11. ReachOK(qs, registry')
  <2>1. \A i \in Slots : qs[i].player_id = ps[i].player_id
    BY <1>8, <1>9
  <2>2. \A h \in Guids : registry'[h] # 0 => registry'[h] \in Slots
    BY SizesAssumption DEF Slots
  <2>. QED  BY <2>1, <2>2 DEF ReachOK
<1>12. GuidsOK(qs, registry', used')
  BY <1>8, <1>9 DEF GuidsOK, OthersOK
<1>13. RoutesOK(qs, binding')
  BY <1>3, <1>8, <1>9 DEF RoutesOK, OthersOK
<1>14. JoinReply(qs, k) \subseteq Outputs
  <2>1. Output(qs[k].conn, "welcome", qs[k].player_id) \in Outputs
    BY <1>1, <1>3, <1>8, <1>9, SizesAssumption DEF Output, Outputs, PlayerRecord
  <2>2. \A j \in Slots : Output(qs[k].conn, "state", qs[j].state) \in Outputs
    BY <1>1, <1>3, <1>8, <1>9, SizesAssumption DEF Output, Outputs, PlayerRecord
  <2>. QED  BY <2>1, <2>2 DEF JoinReply, Connected
<1>. QED  BY <1>5, <1>10, <1>11, <1>12, <1>13, <1>14, TickStep

\* The id search and the slot search of a join agree.
LEMMA FreeIdIsFreeSlot ==
    ASSUME NEW ps, SlotsOK(ps), FreeIds(ps) # {}
    PROVE  /\ Min(FreeIds(ps)) \in PlayerIds \ Connected(ps)
           /\ Min(Slots \ Connected(ps)) = Min(FreeIds(ps))
<1> DEFINE F == FreeIds(ps)
           U == Slots \ Connected(ps)
<1>1. F = PlayerIds \ Connected(ps)
  BY SizesAssumption DEF FreeIds, Connected, SlotsOK, PlayerIds, Slots
<1>2. PlayerIds \subseteq Slots /\ Slots \subseteq Nat
  BY SizesAssumption DEF PlayerIds, Slots
<1>3. F \subseteq U /\ U \subseteq Nat /\ F \subseteq Nat /\ F # {} /\ U # {}
  BY <1>1, <1>2
<1>4. Min(F) \in F /\ \A y \in F : Min(F) <= y
  BY <1>3, MinIsLeast
<1>5. Min(U) \in U /\ \A y \in U : Min(U) <= y
  BY <1>3, MinIsLeast
<1>6. Min(U) <= Min(F)
  BY <1>3, <1>4, <1>5
<1>7. Min(U) \in PlayerIds
  <2>1. Min(F) \in PlayerIds
    BY <1>1, <1>4
  <2>2. Min(U) \in Slots
    BY <1>5
  <2> HIDE DEF U, F
  <2>. QED  BY <2>1, <2>2, <1>6, SizesAssumption DEF PlayerIds, Slots
<1>8. Min(U) \in F
  BY <1>1, <1>5, <1>7
<1>9. Min(F) <= Min(U)
  BY <1>4, <1>8
<1>10. Min(F) \in Nat /\ Min(U) \in Nat
  BY <1>3, <1>4, <1>5
<1>11. Min(U) = Min(F)
  <2> HIDE DEF U, F
  <2>. QED  BY <1>6, <1>9, <1>10
<1>. QED  BY <1>1, <1>4, <1>11

\* A HELLO with an unknown GUID.
LEMMA JoinStep ==
    ASSUME IInv, NEW e \in Endpoints, NEW g \in Speaks[e], NEW w \in WorldReplay,
           JoinSession(e, g, w)
    PROVE  IInv'
<1> DEFINE c == ConnectionOf(e)
           k == Min(FreeIds(players))
           new == [connected |-> TRUE, player_id |-> k, conn |-> c, silent |-> 0,
                   stats |-> NoStats, state |-> 0, guid |-> "none"]
           ps == [players EXCEPT ![k] = new]
<1>1. /\ registry[g] = 0
      /\ FreeIds(players) # {}
      /\ get_connection_id_for_endpoint(e)
      /\ sr_bind_player(g, k)
      /\ Greet(ws_alloc_player(players, k, c), k, c, g, w)
  BY DEF JoinSession
<1>2. SlotsOK(players)
  BY DEF IInv
<1>3. k \in PlayerIds /\ k \notin Connected(players) /\ Min(Slots \ Connected(players)) = k
  BY <1>1, <1>2, FreeIdIsFreeSlot
<1>4. g \in Guids /\ w \in Nat
  BY InputsAssumption
<1>5. c \in 1 .. MaxBindings
  BY <1>1, BindingIsSafe DEF IInv
<1>6. ws_alloc_player(players, k, c) = ps
  BY <1>3 DEF ws_alloc_player
<1> HIDE DEF c, k
<1>7. k \in Slots /\ k \in 1 .. (MaxPlayers - 1)
  BY <1>3, SizesAssumption DEF PlayerIds, Slots
<1>8. new \in PlayerRecord
  BY <1>5, <1>7, SizesAssumption DEF PlayerRecord, NoStats, Stamps
<1>10. new.connected /\ new.player_id = k /\ new.conn = c /\ new.state = 0
  OBVIOUS
<1> HIDE DEF new
<1>11. /\ ps \in [Slots -> PlayerRecord]
       /\ \A i \in Slots : ps[i] = IF i = k THEN new ELSE players[i]
  BY <1>2, <1>7, <1>8 DEF SlotsOK
<1> HIDE DEF ps
<1>12. SlotsOK(ps) /\ ps[k].connected
  BY <1>2, <1>3, <1>5, <1>7, <1>10, <1>11 DEF SlotsOK
<1>13. /\ registry' \in [Guids -> 0 .. (MaxPlayers - 1)]
       /\ used' \in 0 .. MaxRegistry
       /\ \A h \in Guids : h # g => registry'[h] = registry[h]
       /\ registry'[g] \in {0, k}
       /\ g \in Bindable => registry'[g] = k \/ (used' = MaxRegistry /\ registry'[g] = 0)
       /\ used = MaxRegistry => used' = MaxRegistry
  BY <1>1, <1>4, <1>7, SizesAssumption DEF sr_bind_player, IInv, TypeOK, Bindable
<1>14. ReachOK(ps, registry')
  <2>1. \A h \in Guids : registry[h] # 0 =>
          registry[h] \in Slots /\ players[registry[h]].player_id = registry[h]
    BY SizesAssumption DEF IInv, TypeOK, ReachOK, Slots
  <2>. QED  BY <2>1, <1>4, <1>7, <1>10, <1>11, <1>13 DEF ReachOK
<1>15. OthersOK(ps, k, registry', used', binding')
  <2>1. RoutesOK(players, binding')
    BY <1>1, <1>2, BindingIsSafe DEF IInv
  <2>2. \A i \in Slots : players[i].connected /\ players[i].guid \in Bindable =>
          \/ registry'[players[i].guid] = i
          \/ used' = MaxRegistry /\ registry'[players[i].guid] = 0
          \/ players[i].guid = g
    BY <1>4, <1>13 DEF IInv, GuidsOK, Bindable
  <2>3. \A i \in Slots : players[i].connected /\ players[i].guid = g /\ g \in Bindable =>
          used = MaxRegistry
    BY <1>1, SizesAssumption DEF IInv, GuidsOK, Slots
  <2>4. used = MaxRegistry => registry' = registry
    BY <1>1 DEF sr_bind_player
  <2>. QED
    BY <2>1, <2>2, <2>3, <2>4, <1>1, <1>11, <1>13 DEF OthersOK, RoutesOK
<1>16. Greet(ps, k, ConnectionOf(e), g, w)
  BY <1>1, <1>6 DEF c
<1>. QED
  BY <1>1, <1>3, <1>4, <1>12, <1>13, <1>14, <1>15, <1>16, GreetStep

\* A HELLO with a GUID the registry knows.
LEMMA ReconnectStep ==
    ASSUME IInv, NEW e \in Endpoints, NEW g \in Speaks[e], NEW w \in WorldReplay,
           Reconnect(e, g, w)
    PROVE  IInv'
<1> DEFINE c == ConnectionOf(e)
           k == registry[g]
           p == [players[k] EXCEPT !.connected = TRUE, !.conn = c]
           ps == [players EXCEPT ![k] = p]
<1>1. /\ registry[g] # 0
      /\ get_connection_id_for_endpoint(e)
      /\ Greet(sm_reconnect_player(players, k, c), k, c, g, w)
      /\ registry' = registry /\ used' = used
  BY DEF Reconnect
<1>2. SlotsOK(players) /\ g \in Guids /\ w \in Nat
  BY InputsAssumption DEF IInv
<1>3. k \in PlayerIds /\ k \in Slots /\ players[k].player_id = k
  BY <1>1, <1>2, SizesAssumption DEF IInv, TypeOK, ReachOK, PlayerIds, Slots
<1>4. c \in 1 .. MaxBindings
  BY <1>1, BindingIsSafe DEF IInv
<1>5. sm_reconnect_player(players, k, c) = ps
  <2>1. {i \in Slots : players[i].player_id = k} = {k}
    BY <1>1, <1>2, <1>3 DEF SlotsOK
  <2>2. Min({i \in Slots : players[i].player_id = k}) = k
    BY <2>1, MinOfOne
  <2>. QED  BY <2>2 DEF sm_reconnect_player
<1> HIDE DEF c
<1>6. players[k] \in PlayerRecord /\ c \in 0 .. MaxBindings
  BY <1>2, <1>3, <1>4, SizesAssumption DEF SlotsOK
<1>7. /\ p \in PlayerRecord /\ p.connected /\ p.player_id = k /\ p.conn = c
      /\ p.state = players[k].state
  BY <1>3, <1>6 DEF PlayerRecord
<1> HIDE DEF p
<1>8. /\ ps \in [Slots -> PlayerRecord]
      /\ \A i \in Slots : ps[i] = IF i = k THEN p ELSE players[i]
  BY <1>2, <1>3, <1>7 DEF SlotsOK
<1> HIDE DEF ps
<1>9. SlotsOK(ps) /\ ps[k].connected
  BY <1>2, <1>3, <1>4, <1>7, <1>8 DEF SlotsOK
<1>10. ReachOK(ps, registry')
  <2>1. \A h \in Guids : registry[h] # 0 =>
          registry[h] \in Slots /\ players[registry[h]].player_id = registry[h]
    BY SizesAssumption DEF IInv, TypeOK, ReachOK, Slots
  <2>. QED  BY <2>1, <1>1, <1>7, <1>8 DEF ReachOK
<1>11. OthersOK(ps, k, registry', used', binding')
  <2>1. RoutesOK(players, binding')
    BY <1>1, <1>2, BindingIsSafe DEF IInv
  <2>2. GuidsOK(players, registry', used')
    BY <1>1 DEF IInv
  <2>. QED  BY <2>1, <2>2, <1>8 DEF OthersOK, RoutesOK, GuidsOK
<1>12. Greet(ps, k, ConnectionOf(e), g, w)
  BY <1>1, <1>5 DEF c
<1>13. /\ registry' \in [Guids -> 0 .. (MaxPlayers - 1)]
       /\ used' \in 0 .. MaxRegistry
       /\ registry'[g] = k
  BY <1>1 DEF IInv, TypeOK
<1> HIDE DEF k
<1>. QED
  BY <1>1, <1>2, <1>3, <1>9, <1>10, <1>11, <1>12, <1>13, GreetStep

-----------------------------------------------------------------------------
(***************************************************************************)
(* The theorems                                                            *)
(***************************************************************************)

\* The service starts in a state that satisfies the invariant.
LEMMA InitIInv == Init => IInv
<1> SUFFICES ASSUME Init PROVE IInv
  OBVIOUS
<1>1. EmptySlot \in PlayerRecord
  BY SizesAssumption DEF EmptySlot, PlayerRecord, NoStats, Stamps
<1>2. players \in [Slots -> PlayerRecord] /\ \A i \in Slots : players[i] = EmptySlot
  BY <1>1 DEF Init
<1>3. SlotsOK(players) /\ GuidsOK(players, registry, used) /\ RoutesOK(players, binding)
  BY <1>2 DEF SlotsOK, GuidsOK, RoutesOK, EmptySlot
<1>4. TypeOK
  BY <1>2, SizesAssumption DEF Init, TypeOK
<1>5. ReachOK(players, registry) /\ BindingsOK
  BY DEF Init, ReachOK, BindingsOK, BindingsAreDistinct
<1>. QED  BY <1>3, <1>4, <1>5 DEF IInv

\* Every iteration of the main loop preserves the invariant.
LEMMA NextIInv == IInv /\ [Next]_vars => IInv'
<1> SUFFICES ASSUME IInv, [Next]_vars PROVE IInv'
  OBVIOUS
<1>1. CASE UNCHANGED vars
  BY <1>1 DEF vars, IInv, TypeOK, SlotsOK, ReachOK, GuidsOK, RoutesOK,
              BindingsOK, BindingsAreDistinct
<1>2. ASSUME NEW e \in Endpoints, Handled(e) PROVE IInv'
  BY <1>2, JoinStep, ReconnectStep, PlayerMessages DEF Handled, KeepsAlive
<1>3. ASSUME NEW e \in Endpoints, RefusedFire(e) PROVE IInv'
  BY <1>3, PlayerMessages
<1>4. ASSUME NEW e \in Endpoints, Refused(e) PROVE IInv'
  <2>1. SlotsOK(players) /\ Keeps(players, players)
    BY DEF IInv, Keeps
  <2>. QED  BY <1>4, <2>1, RefusedStep DEF Refused
<1>5. ASSUME NEW e \in Endpoints, TableFull(e) PROVE IInv'
  <2>1. /\ UNCHANGED <<binding, bound, registry, used, players>>
        /\ outputs' = {}
    BY <1>5 DEF TableFull, NotHandled
  <2>. QED  BY <2>1 DEF IInv, TypeOK, SlotsOK, ReachOK, GuidsOK, RoutesOK,
                        BindingsOK, BindingsAreDistinct
<1>. QED  BY <1>1, <1>2, <1>3, <1>4, <1>5 DEF Next

\* The inductive invariant holds for every number of slots, endpoints, GUIDs,
\* registry and binding entries, and every timeout.
THEOREM SessionInvariant == Spec => []IInv
  BY InitIInv, NextIInv, PTL DEF Spec

\* The state of the session service stays within its types.
THEOREM SessionTypes == Spec => []TypeOK
<1>1. IInv => TypeOK
  BY DEF IInv
<1>. QED  BY <1>1, SessionInvariant, PTL

\* A player id names one slot, whatever the order of joins and leaves.
THEOREM SessionSlotIdentity == Spec => []SlotIdentity
<1>1. IInv => SlotIdentity
  BY DEF IInv, SlotsOK, SlotIdentity
<1>. QED  BY <1>1, SessionInvariant, PTL

\* The slot a registered GUID reconnects to always exists.
THEOREM SessionReconnect == Spec => []ReconnectFindsSlot
<1>1. IInv => ReconnectFindsSlot
  BY DEF IInv, ReachOK, ReconnectFindsSlot
<1>. QED  BY <1>1, SessionInvariant, PTL

\* A live player is registered under its own GUID, unless there was no room.
THEOREM SessionLiveGuids == Spec => []LiveGuidIsRegistered
<1>1. IInv => LiveGuidIsRegistered
  BY DEF IInv, GuidsOK, LiveGuidIsRegistered, Connected
<1>. QED  BY <1>1, SessionInvariant, PTL

\* Repeated HELLOs of one GUID do not multiply the player.
THEOREM SessionOneSlotPerGuid == Spec => []OneSlotPerGuid
<1>1. IInv => OneSlotPerGuid
  <2> SUFFICES ASSUME IInv, NEW i \in Connected(players), NEW j \in Connected(players),
                      used < MaxRegistry, players[i].guid \in Bindable,
                      players[i].guid = players[j].guid
               PROVE  i = j
    BY DEF OneSlotPerGuid
  <2>1. used # MaxRegistry
    BY SizesAssumption DEF IInv, TypeOK
  <2>2. registry[players[i].guid] = i /\ registry[players[j].guid] = j
    BY <2>1 DEF IInv, GuidsOK, Connected
  <2>. QED  BY <2>2
<1>. QED  BY <1>1, SessionInvariant, PTL

\* What is sent to a slot goes to an endpoint of that slot's client.
THEOREM SessionRoutes == Spec => []RouteIsOwn
<1>1. IInv => RouteIsOwn
  BY DEF IInv, RoutesOK, RouteIsOwn, Connected
<1>. QED  BY <1>1, SessionInvariant, PTL

\* A datagram is attributed to the slot of the client that sent it.
THEOREM SessionConnections == Spec => []ConnectionNamesOneSlot
<1>1. IInv => ConnectionNamesOneSlot
  <2> SUFFICES ASSUME IInv, NEW i \in Connected(players), NEW j \in Connected(players),
                      used < MaxRegistry,
                      \A e \in Endpoints : binding[e] = players[i].conn =>
                          \A g, h \in Speaks[e] : g = h /\ g \in Bindable,
                      players[i].conn = players[j].conn
               PROVE  i = j
    BY DEF ConnectionNamesOneSlot
  <2>1. used # MaxRegistry
    BY SizesAssumption DEF IInv, TypeOK
  <2>2. PICK e \in Endpoints : binding[e] = players[i].conn /\ players[i].guid \in Speaks[e]
    BY DEF IInv, RoutesOK, Connected
  <2>3. PICK f \in Endpoints : binding[f] = players[j].conn /\ players[j].guid \in Speaks[f]
    BY DEF IInv, RoutesOK, Connected
  <2>4. players[i].conn # 0
    BY DEF IInv, SlotsOK, Connected
  <2>5. e = f
    BY <2>2, <2>3, <2>4 DEF IInv, BindingsOK, BindingsAreDistinct
  <2>6. players[i].guid = players[j].guid /\ players[i].guid \in Bindable
    BY <2>2, <2>3, <2>5
  <2>7. registry[players[i].guid] = i /\ registry[players[j].guid] = j
    BY <2>1, <2>6 DEF IInv, GuidsOK, Connected
  <2>. QED  BY <2>6, <2>7
<1>. QED  BY <1>1, SessionInvariant, PTL

-----------------------------------------------------------------------------
(***************************************************************************)
(* SessionService implements Membership, for every size of its tables.     *)
(* Every message either greets the player of one seat or seats nobody, and *)
(* the tick after it only empties seats: never the one just greeted.       *)
(***************************************************************************)

\* Who plays as i in the slots ps.
Seated(ps, i) == IF ps[i].connected THEN ps[i].guid ELSE "none"

LEMMA IdsAreSlots == PlayerIds \subseteq Slots /\ PlayerIds \subseteq Nat \ {0}
  BY SizesAssumption DEF PlayerIds, Slots

\* Whoever leaves between ps and qs leaves an empty seat; nothing else changes.
LEMMA KeepsVacates ==
    ASSUME NEW ps, NEW qs, Keeps(ps, qs)
    PROVE  \E gone \in SUBSET PlayerIds :
              /\ \A i \in PlayerIds :
                    Seated(qs, i) = IF i \in gone THEN "none" ELSE Seated(ps, i)
              /\ \A i \in gone : ~qs[i].connected
<1> DEFINE gone == {i \in PlayerIds : ps[i].connected /\ ~qs[i].connected}
<1>1. \A i \in PlayerIds :
         Seated(qs, i) = IF i \in gone THEN "none" ELSE Seated(ps, i)
  BY IdsAreSlots DEF Keeps, Seated
<1>2. gone \in SUBSET PlayerIds /\ \A i \in gone : ~qs[i].connected
  OBVIOUS
<1>. QED  BY <1>1, <1>2

\* A player heard in this very iteration survives its tick.
LEMMA HeardSurvives ==
    ASSUME NEW ps, NEW out, NEW base, SlotsOK(ps), tl_tick(ps, out, base),
           NEW k \in Slots, ps[k].connected, ps[k].silent = 0
    PROVE  players'[k].connected
<1> DEFINE gone == Expired(ps)
           rs == sm_remove_player(ps, gone)
<1>1. k \notin gone
  BY SizesAssumption DEF Expired
<1>2. rs[k] = ps[k]
  <2>1. SlotsById(ps, gone) = gone
    BY RemovalById DEF Expired
  <2>. QED  BY <2>1, <1>1 DEF sm_remove_player
<1>3. players' = Aged(rs)
  BY DEF tl_tick
<1> HIDE DEF rs
<1>4. players'[k] = IF ps[k].connected /\ TimeoutTicks > 0
                    THEN [ps[k] EXCEPT !.silent = @ + 1] ELSE ps[k]
  BY <1>2, <1>3 DEF Aged
<1>5. ps[k] \in PlayerRecord
  BY DEF SlotsOK
<1>. QED  BY <1>4, <1>5 DEF PlayerRecord

\* Greeting the player of slot k seats g there and nobody else anywhere.
LEMMA GreetSeats ==
    ASSUME NEW c \in 1 .. MaxBindings, NEW g \in Guids, NEW w, NEW k \in PlayerIds,
           NEW ps, SlotsOK(ps), ps[k].connected, Greet(ps, k, c, g, w)
    PROVE  \E gone \in SUBSET PlayerIds :
              /\ k \notin gone
              /\ \A i \in PlayerIds :
                    Seated(players', i) = IF i \in gone THEN "none"
                                          ELSE IF i = k THEN g ELSE Seated(ps, i)
<1> DEFINE p == [ps[k] EXCEPT !.conn = c, !.silent = 0]
           q == [p EXCEPT !.guid = g]
           qs == [ps EXCEPT ![k] = q]
<1>1. k \in Slots /\ PlayerIds \subseteq Slots
  BY IdsAreSlots
<1>2. find_player(ps, k) = k
  <2>1. {i \in Connected(ps) : ps[i].player_id = k} = {k}
    BY <1>1 DEF Connected, SlotsOK
  <2>. QED  BY <2>1, IdsAreSlots, MinOfOne DEF find_player
<1>3. tl_tick(qs, JoinReply(qs, k), JoinReplySize(qs, w))
  BY <1>2 DEF Greet
<1>4. ps[k] \in PlayerRecord /\ 0 \in 0 .. TimeoutTicks /\ c \in 0 .. MaxBindings /\ c # 0
  BY <1>1, SizesAssumption DEF SlotsOK
<1>5. /\ p \in PlayerRecord /\ p.conn = c /\ p.connected = ps[k].connected
      /\ p.player_id = ps[k].player_id /\ p.state = ps[k].state /\ p.silent = 0
  BY <1>4 DEF PlayerRecord
<1> HIDE DEF p
<1>6. /\ q \in PlayerRecord /\ q.conn = c /\ q.connected = ps[k].connected
      /\ q.player_id = ps[k].player_id /\ q.state = ps[k].state /\ q.guid = g
      /\ q.silent = 0
  BY <1>5 DEF PlayerRecord
<1> HIDE DEF q
<1>7. /\ qs \in [Slots -> PlayerRecord]
      /\ \A i \in Slots : qs[i] = IF i = k THEN q ELSE ps[i]
  BY <1>1, <1>6 DEF SlotsOK
<1> HIDE DEF qs
<1>8. SlotsOK(qs)
  BY <1>4, <1>6, <1>7 DEF SlotsOK
<1>9. JoinReply(qs, k) \subseteq Outputs
  <2>1. Output(qs[k].conn, "welcome", qs[k].player_id) \in Outputs
    BY <1>1, <1>4, <1>6, <1>7, SizesAssumption DEF Output, Outputs, PlayerRecord
  <2>2. \A j \in Slots : Output(qs[k].conn, "state", qs[j].state) \in Outputs
    BY <1>1, <1>4, <1>6, <1>7, SizesAssumption DEF Output, Outputs, PlayerRecord
  <2>. QED  BY <2>1, <2>2 DEF JoinReply, Connected
<1>10. Keeps(qs, players')
  BY <1>3, <1>8, <1>9, TickIsSafe
<1>11. players'[k].connected
  BY <1>1, <1>3, <1>6, <1>7, <1>8, HeardSurvives
<1>12. PICK gone \in SUBSET PlayerIds :
          /\ \A i \in PlayerIds :
                Seated(players', i) = IF i \in gone THEN "none" ELSE Seated(qs, i)
          /\ \A i \in gone : ~players'[i].connected
  BY <1>10, KeepsVacates
<1>13. \A i \in PlayerIds : Seated(qs, i) = IF i = k THEN g ELSE Seated(ps, i)
  BY <1>1, <1>6, <1>7 DEF Seated
<1>. QED  BY <1>11, <1>12, <1>13

-----------------------------------------------------------------------------
(***************************************************************************)
(* The steps of the service as steps of Membership                         *)
(***************************************************************************)

\* The refinement mapping, in terms of Seated.
LEMMA SeatsNow == \A i \in PlayerIds : SeatOf(i) = Seated(players, i)
  BY DEF SeatOf, Seated

LEMMA SeatsNext == \A i \in PlayerIds : SeatOf(i)' = Seated(players', i)
  BY DEF SeatOf, Seated

\* A step that seats nobody.
LEMMA DepartStep ==
    ASSUME Keeps(players, players'), registry' = registry
    PROVE  M!MNext
<1>1. PICK gone \in SUBSET PlayerIds :
         \A i \in PlayerIds :
            Seated(players', i) = IF i \in gone THEN "none" ELSE Seated(players, i)
  BY KeepsVacates
<1>2. M!Depart(gone)
  BY <1>1, SeatsNow, SeatsNext DEF M!Depart, M!Vacated
<1>. QED  BY <1>1, <1>2 DEF M!MNext

\* A HELLO with an unknown GUID.
LEMMA EnterStep ==
    ASSUME IInv, NEW e \in Endpoints, NEW g \in Speaks[e], NEW w \in WorldReplay,
           JoinSession(e, g, w)
    PROVE  M!MNext
<1> DEFINE c == ConnectionOf(e)
           k == Min(FreeIds(players))
           new == [connected |-> TRUE, player_id |-> k, conn |-> c, silent |-> 0,
                   stats |-> NoStats, state |-> 0, guid |-> "none"]
           ps == [players EXCEPT ![k] = new]
<1>1. /\ registry[g] = 0
      /\ FreeIds(players) # {}
      /\ get_connection_id_for_endpoint(e)
      /\ sr_bind_player(g, k)
      /\ Greet(ws_alloc_player(players, k, c), k, c, g, w)
  BY DEF JoinSession
<1>2. SlotsOK(players) /\ g \in Guids
  BY InputsAssumption DEF IInv
<1>3. k \in PlayerIds /\ k \notin Connected(players) /\ Min(Slots \ Connected(players)) = k
  BY <1>1, <1>2, FreeIdIsFreeSlot
<1>4. c \in 1 .. MaxBindings
  BY <1>1, BindingIsSafe DEF IInv
<1>5. ws_alloc_player(players, k, c) = ps
  BY <1>3 DEF ws_alloc_player
<1> HIDE DEF c, k
<1>6. k \in Slots /\ k \in 1 .. (MaxPlayers - 1) /\ ~players[k].connected
  BY <1>3, SizesAssumption DEF PlayerIds, Slots, Connected
<1>7. new \in PlayerRecord
  BY <1>4, <1>6, SizesAssumption DEF PlayerRecord, NoStats, Stamps
<1>8. new.connected /\ new.player_id = k /\ new.conn = c /\ new.state = 0
  OBVIOUS
<1> HIDE DEF new
<1>9. /\ ps \in [Slots -> PlayerRecord]
      /\ \A i \in Slots : ps[i] = IF i = k THEN new ELSE players[i]
  BY <1>2, <1>6, <1>7 DEF SlotsOK
<1>10. Greet(ps, k, c, g, w)
  BY <1>1, <1>5
<1> HIDE DEF ps
<1>11. SlotsOK(ps) /\ ps[k].connected
  BY <1>2, <1>3, <1>4, <1>6, <1>8, <1>9 DEF SlotsOK
<1>12. PICK gone \in SUBSET PlayerIds :
          /\ k \notin gone
          /\ \A i \in PlayerIds :
                Seated(players', i) = IF i \in gone THEN "none"
                                      ELSE IF i = k THEN g ELSE Seated(ps, i)
  BY <1>2, <1>3, <1>4, <1>10, <1>11, GreetSeats
<1>13. \A i \in PlayerIds : i # k => Seated(ps, i) = Seated(players, i)
  BY <1>9, IdsAreSlots DEF Seated
<1>14. Seated(players, k) = "none"
  BY <1>6 DEF Seated
<1>15. registry' \in {registry, [registry EXCEPT ![g] = k]}
  BY <1>1 DEF sr_bind_player
<1>16. M!Enter(g, k, gone)
  BY <1>1, <1>3, <1>12, <1>13, <1>14, <1>15, SeatsNow, SeatsNext DEF M!Enter, M!Vacated
<1>. QED  BY <1>2, <1>3, <1>12, <1>16 DEF M!MNext

\* A HELLO with a GUID the registry knows.
LEMMA ReturnStep ==
    ASSUME IInv, NEW e \in Endpoints, NEW g \in Speaks[e], NEW w \in WorldReplay,
           Reconnect(e, g, w)
    PROVE  M!MNext
<1> DEFINE c == ConnectionOf(e)
           k == registry[g]
           p == [players[k] EXCEPT !.connected = TRUE, !.conn = c]
           ps == [players EXCEPT ![k] = p]
<1>1. /\ registry[g] # 0
      /\ get_connection_id_for_endpoint(e)
      /\ Greet(sm_reconnect_player(players, k, c), k, c, g, w)
      /\ registry' = registry
  BY DEF Reconnect
<1>2. SlotsOK(players) /\ g \in Guids
  BY InputsAssumption DEF IInv
<1>3. k \in PlayerIds /\ k \in Slots /\ players[k].player_id = k
  BY <1>1, <1>2, SizesAssumption DEF IInv, TypeOK, ReachOK, PlayerIds, Slots
<1>4. c \in 1 .. MaxBindings
  BY <1>1, BindingIsSafe DEF IInv
<1>5. sm_reconnect_player(players, k, c) = ps
  <2>1. {i \in Slots : players[i].player_id = k} = {k}
    BY <1>1, <1>2, <1>3 DEF SlotsOK
  <2>2. Min({i \in Slots : players[i].player_id = k}) = k
    BY <2>1, MinOfOne
  <2>. QED  BY <2>2 DEF sm_reconnect_player
<1> HIDE DEF c
<1>6. players[k] \in PlayerRecord /\ c \in 0 .. MaxBindings
  BY <1>2, <1>3, <1>4, SizesAssumption DEF SlotsOK
<1>7. /\ p \in PlayerRecord /\ p.connected /\ p.player_id = k /\ p.conn = c
      /\ p.state = players[k].state
  BY <1>3, <1>6 DEF PlayerRecord
<1> HIDE DEF p
<1>8. /\ ps \in [Slots -> PlayerRecord]
      /\ \A i \in Slots : ps[i] = IF i = k THEN p ELSE players[i]
  BY <1>2, <1>3, <1>7 DEF SlotsOK
<1>9. Greet(ps, k, c, g, w)
  BY <1>1, <1>5
<1> HIDE DEF ps
<1>10. SlotsOK(ps) /\ ps[k].connected
  BY <1>2, <1>3, <1>4, <1>7, <1>8 DEF SlotsOK
<1>11. PICK gone \in SUBSET PlayerIds :
          /\ k \notin gone
          /\ \A i \in PlayerIds :
                Seated(players', i) = IF i \in gone THEN "none"
                                      ELSE IF i = k THEN g ELSE Seated(ps, i)
  BY <1>2, <1>3, <1>4, <1>9, <1>10, GreetSeats
<1>12. \A i \in PlayerIds : i # k => Seated(ps, i) = Seated(players, i)
  BY <1>8, IdsAreSlots DEF Seated
<1>13. M!Return(g, gone)
  BY <1>1, <1>3, <1>11, <1>12, SeatsNow, SeatsNext DEF M!Return, M!Vacated
<1>. QED  BY <1>2, <1>11, <1>13 DEF M!MNext

\* The service keeps the promise of Membership: registry and slots, searched by
\* three different loops and emptied by the timeout in between, seat a GUID at
\* its own id or at a free one, for any number of slots, GUIDs, endpoints and
\* registry entries and any timeout.
THEOREM SessionImplementsMembership == Spec => ImplementsMembership
<1>1. Init => M!MInit
  <2> SUFFICES ASSUME Init PROVE M!MInit
    OBVIOUS
  <2>1. \A i \in PlayerIds : players[i] = EmptySlot
    BY IdsAreSlots DEF Init
  <2>2. \A i \in PlayerIds : SeatOf(i) = "none"
    BY <2>1 DEF SeatOf, EmptySlot
  <2>. QED  BY <2>2 DEF Init, M!MInit
<1>2. IInv /\ [Next]_vars => [M!MNext]_(M!membership)
  <2> SUFFICES ASSUME IInv, [Next]_vars PROVE M!MNext \/ UNCHANGED M!membership
    OBVIOUS
  <2>1. CASE UNCHANGED vars
    BY <2>1 DEF vars, M!membership, SeatOf
  <2>2. ASSUME NEW e \in Endpoints, Handled(e) PROVE M!MNext
    BY <2>2, EnterStep, ReturnStep, PlayerMessages, DepartStep DEF Handled, KeepsAlive
  <2>3. ASSUME NEW e \in Endpoints, RefusedFire(e) PROVE M!MNext
    BY <2>3, PlayerMessages, DepartStep
  <2>4. ASSUME NEW e \in Endpoints, Refused(e) \/ TableFull(e)
        PROVE  UNCHANGED M!membership
    BY <2>4 DEF Refused, TableFull, NotHandled, M!membership, SeatOf
  <2>. QED  BY <2>1, <2>2, <2>3, <2>4 DEF Next
<1>. QED
  BY <1>1, <1>2, SessionInvariant, PTL DEF Spec, ImplementsMembership, M!MSpec

-----------------------------------------------------------------------------
(***************************************************************************)
(* Departures are announced, as long as the output buffer has room for     *)
(* what one iteration can push.  The largest iterations are a shot that    *)
(* kills and a HELLO: three broadcasts, or the join reply with the world,  *)
(* and then, for everybody but the sender, a broadcast of the timeout.     *)
(* With eight slots and 64 outputs the first needs 63.                     *)
(***************************************************************************)

Roomy ==
    LET n == MaxPlayers - 1
    IN  /\ n * (n + 2) <= MaxOutputs
        /\ \A w \in WorldReplay : 4 + n + w + n * (n - 1) <= MaxOutputs

LEMMA TimesGrows ==
    ASSUME NEW a \in Nat, NEW b \in Nat, NEW c \in Nat, NEW d \in Nat, a <= c, b <= d
    PROVE  a * b <= c * d /\ a * b \in Nat /\ c * d \in Nat
<1>1. ASSUME NEW x \in Nat, NEW y \in Nat  PROVE x * y \in Nat
  BY <1>1, SMT
<1>2. a * (d - b) \in Nat /\ (c - a) * d \in Nat
  BY <1>1
<1>3. a * (d - b) = a * d - a * b /\ (c - a) * d = c * d - a * d
  OBVIOUS
<1>4. a * b \in Nat /\ a * d \in Nat /\ c * d \in Nat
  BY <1>1
<1>. QED  BY <1>2, <1>3, <1>4

\* There is one slot more than there are player ids, so it stays empty.
LEMMA CrowdIsBounded ==
    ASSUME NEW ps, SlotsOK(ps), NEW gone \in SUBSET Connected(ps)
    PROVE  /\ IsFiniteSet(Connected(ps)) /\ IsFiniteSet(gone)
           /\ Cardinality(Connected(ps)) \in 0 .. (MaxPlayers - 1)
           /\ Cardinality(gone) \in 0 .. Cardinality(Connected(ps))
           /\ gone # Connected(ps) => Cardinality(gone) <= MaxPlayers - 2
<1>1. Connected(ps) \subseteq 1 .. (MaxPlayers - 1)
  BY DEF Connected, SlotsOK, PlayerIds
<1>2. /\ IsFiniteSet(1 .. (MaxPlayers - 1))
      /\ Cardinality(1 .. (MaxPlayers - 1)) = MaxPlayers - 1
  <2>1. MaxPlayers - 1 \in Int /\ 1 \in Int /\ ~(1 > MaxPlayers - 1)
    BY SizesAssumption
  <2>2. (MaxPlayers - 1) - 1 + 1 = MaxPlayers - 1
    BY SizesAssumption
  <2>. QED  BY <2>1, <2>2, FS_Interval
<1>3. /\ IsFiniteSet(Connected(ps))
      /\ Cardinality(Connected(ps)) <= MaxPlayers - 1
  BY <1>1, <1>2, FS_Subset
<1>4. /\ IsFiniteSet(gone) /\ Cardinality(gone) <= Cardinality(Connected(ps))
      /\ gone # Connected(ps) => Cardinality(gone) # Cardinality(Connected(ps))
  BY <1>3, FS_Subset
<1>5. Cardinality(Connected(ps)) \in Nat /\ Cardinality(gone) \in Nat
  BY <1>3, <1>4, FS_CardinalityType
<1>. QED  BY <1>3, <1>4, <1>5, SizesAssumption

\* A leave broadcast that fits reaches everybody who stays.
LEMMA LeftReaches ==
    ASSUME NEW ps, SlotsOK(ps), NEW gone \in SUBSET Connected(ps), NEW base \in Nat,
           base + Cardinality(gone) * Cardinality(Connected(ps)) <= MaxOutputs,
           NEW i \in gone, NEW j \in Connected(ps), j \notin gone \/ j = i
    PROVE  Output(ps[j].conn, "left", i) \in LeftBroadcast(ps, gone, base)
<1> DEFINE pairs == LeftPairs(ps, gone)
           all   == gone \X Connected(ps)
           p     == <<i, j>>
           to    == UpTo(pairs, p)
<1>1. p \in pairs
  BY SizesAssumption DEF LeftPairs, Connected, Slots
<1>2. IsFiniteSet(gone) /\ IsFiniteSet(Connected(ps))
  BY CrowdIsBounded
<1>3. IsFiniteSet(all) /\ Cardinality(all) = Cardinality(gone) * Cardinality(Connected(ps))
  BY <1>2, FS_Product
<1>4. to \subseteq all
  BY DEF UpTo, LeftPairs
<1>5. IsFiniteSet(to) /\ Cardinality(to) <= Cardinality(all)
  BY <1>3, <1>4, FS_Subset
<1>6. Cardinality(to) \in Nat /\ Cardinality(all) \in Nat
  BY <1>3, <1>5, FS_CardinalityType
<1>7. base + Cardinality(to) <= MaxOutputs
  BY <1>3, <1>5, <1>6, SizesAssumption
<1>8. ps[p[1]].player_id = i /\ ps[p[2]].conn = ps[j].conn
  BY DEF SlotsOK, Connected
<1> HIDE DEF to, pairs
<1>9. p \in {q \in pairs : base + Cardinality(UpTo(pairs, q)) <= MaxOutputs}
  BY <1>1, <1>7 DEF to
<1> HIDE DEF p
<1>. QED  BY <1>8, <1>9 DEF LeftBroadcast, pairs

\* Who is gone after a tick had expired, and everybody else has been told if
\* the broadcasts fit.
LEMMA TickAnnounces ==
    ASSUME NEW ps, NEW out, NEW base \in Nat, SlotsOK(ps), tl_tick(ps, out, base),
           base + Cardinality(Expired(ps)) * Cardinality(Connected(ps)) <= MaxOutputs,
           NEW i \in Connected(ps)
    PROVE  \/ players'[i].connected
           \/ /\ i \in Expired(ps)
              /\ \A j \in Connected(ps) \ Expired(ps) :
                    Output(ps[j].conn, "left", i) \in outputs'
<1> DEFINE gone == Expired(ps)
           rs == sm_remove_player(ps, gone)
<1>1. players' = Aged(rs) /\ outputs' = out \cup LeftBroadcast(ps, gone, base)
  BY DEF tl_tick
<1>2. gone \in SUBSET Connected(ps) /\ i \in Slots
  BY DEF Expired, Connected
<1>3. CASE i \in gone
  <2>1. \A j \in Connected(ps) \ gone :
           Output(ps[j].conn, "left", i) \in LeftBroadcast(ps, gone, base)
    BY <1>2, <1>3, LeftReaches
  <2>. QED  BY <1>1, <1>3, <2>1
<1>4. CASE i \notin gone
  <2>1. rs[i] = ps[i]
    <3>1. SlotsById(ps, gone) = gone
      BY <1>2, RemovalById
    <3>. QED  BY <3>1, <1>2, <1>4 DEF sm_remove_player
  <2> HIDE DEF rs
  <2>2. players'[i] = IF ps[i].connected /\ TimeoutTicks > 0
                      THEN [ps[i] EXCEPT !.silent = @ + 1] ELSE ps[i]
    BY <1>1, <1>2, <2>1 DEF Aged
  <2>3. ps[i] \in PlayerRecord /\ ps[i].connected
    BY <1>2 DEF SlotsOK, Connected
  <2>. QED  BY <2>2, <2>3 DEF PlayerRecord
<1>. QED  BY <1>3, <1>4

\* Nobody who expires stays.
LEMMA ExpiredIsGone ==
    ASSUME NEW ps, NEW out, NEW base, SlotsOK(ps), tl_tick(ps, out, base),
           NEW i \in Expired(ps)
    PROVE  ~players'[i].connected
<1> DEFINE gone == Expired(ps)
           rs == sm_remove_player(ps, gone)
<1>1. players' = Aged(rs) /\ i \in Slots
  BY DEF tl_tick, Expired, Connected
<1>2. rs[i] = Removed(ps[i])
  <2>1. SlotsById(ps, gone) = gone
    BY RemovalById DEF Expired
  <2>. QED  BY <1>1, <2>1 DEF sm_remove_player
<1>3. ~rs[i].connected
  BY <1>1, <1>2, RemovedIsSafe DEF SlotsOK
<1> HIDE DEF rs
<1>. QED  BY <1>1, <1>3 DEF Aged

\* What is pushed before the tick leaves room for the timeouts it finds.
Fits(ps, base) ==
    base + Cardinality(Expired(ps)) * Cardinality(Connected(ps)) <= MaxOutputs

LEMMA RoomForTick ==
    ASSUME Roomy, NEW ps, SlotsOK(ps), NEW base \in Nat
    PROVE  /\ base <= MaxPlayers - 1 => Fits(ps, base)
           /\ \A k \in Connected(ps) : ps[k].silent = 0 =>
                 /\ k \notin Expired(ps)
                 /\ base <= 3 * (MaxPlayers - 1) => Fits(ps, base)
                 /\ \A w \in WorldReplay :
                       base <= 4 + (MaxPlayers - 1) + w => Fits(ps, base)
<1> DEFINE n == MaxPlayers - 1
           a == Cardinality(Expired(ps))
           b == Cardinality(Connected(ps))
<1>0. Expired(ps) \in SUBSET Connected(ps)
  BY DEF Expired
<1>1. n \in Nat \ {0} /\ n - 1 \in Nat /\ MaxOutputs \in Nat
  BY SizesAssumption
<1>2. a \in Nat /\ b \in Nat /\ a <= n /\ b <= n
  BY <1>0, <1>1, CrowdIsBounded
<1>3. n * (n + 2) = n * n + 2 * n /\ n * (n - 1) = n * n - n /\ (n - 1) * n = n * n - n
  BY <1>1
<1>4. n * n \in Nat
  BY <1>1, TimesGrows
<1>5. n * (n + 2) <= MaxOutputs /\ \A w \in WorldReplay : 4 + n + w + n * (n - 1) <= MaxOutputs
  BY DEF Roomy
<1>6. ASSUME base <= MaxPlayers - 1
      PROVE  Fits(ps, base)
  <2>1. a * b <= n * n /\ a * b \in Nat
    BY <1>1, <1>2, TimesGrows
  <2>2. base + a * b <= MaxOutputs
    <3> HIDE DEF a, b, n
    <3>. QED  BY <1>1, <1>3, <1>4, <1>5, <1>6, <2>1 DEF n
  <2>. QED  BY <2>2 DEF Fits
<1>7. ASSUME NEW k \in Connected(ps), ps[k].silent = 0
      PROVE  /\ k \notin Expired(ps)
             /\ base <= 3 * (MaxPlayers - 1) => Fits(ps, base)
             /\ \A w \in WorldReplay :
                   base <= 4 + (MaxPlayers - 1) + w => Fits(ps, base)
  <2>1. k \notin Expired(ps)
    BY <1>7, SizesAssumption DEF Expired
  <2>2. a <= n - 1
    <3>1. Expired(ps) # Connected(ps)
      BY <1>7, <2>1
    <3>2. a <= MaxPlayers - 2
      BY <1>0, <3>1, CrowdIsBounded
    <3> HIDE DEF a
    <3>. QED  BY <1>2, <3>2, SizesAssumption
  <2>3. a * b <= (n - 1) * n /\ a * b \in Nat
    BY <1>1, <1>2, <2>2, TimesGrows
  <2>4. base <= 3 * n => base + a * b <= MaxOutputs
    <3> HIDE DEF a, b, n
    <3>. QED  BY <1>1, <1>3, <1>4, <1>5, <2>3
  <2>5. ASSUME NEW w \in WorldReplay, base <= 4 + n + w
        PROVE  base + a * b <= MaxOutputs
    <3>1. w \in Nat
      BY InputsAssumption
    <3> HIDE DEF a, b, n
    <3>. QED  BY <1>1, <1>3, <1>4, <1>5, <2>3, <2>5, <3>1
  <2>. QED  BY <2>1, <2>4, <2>5 DEF Fits
<1>. QED  BY <1>6, <1>7

\* What an iteration does before its tick: the slots are ps, out has been
\* produced and base messages have been pushed.
Prepared(ps, out, base) ==
    /\ SlotsOK(ps) /\ tl_tick(ps, out, base)
    /\ base \in Nat /\ Fits(ps, base)
    /\ \A i \in Connected(players) :
          \/ i \in Connected(ps)
          \/ \A j \in Connected(ps) : Output(ps[j].conn, "left", i) \in out
    /\ \A m \in out : m.kind = "state" /\ m.who # 0 =>
          /\ m.who \in Connected(ps)
          /\ \/ m.who \notin Expired(ps)
             \/ \E j \in Connected(ps) \ Expired(ps) : m.to = ps[j].conn

Announces ==
    /\ \A i \in Connected(players) \ Connected(players)' :
          \A j \in Connected(players)' :
              Output(players'[j].conn, "left", i) \in outputs'
    /\ NoGhostIsSent'

\* An iteration so prepared leaves nobody unannounced and no ghost.
LEMMA PreparedAnnounces ==
    ASSUME NEW ps, NEW out, NEW base, Prepared(ps, out, base),
           out \subseteq Outputs
    PROVE  Announces
<1>1. SlotsOK(ps) /\ tl_tick(ps, out, base) /\ base \in Nat
  BY DEF Prepared
<1>2. base + Cardinality(Expired(ps)) * Cardinality(Connected(ps)) <= MaxOutputs
  BY DEF Prepared, Fits
<1>3. SlotsOK(players') /\ Keeps(ps, players')
  BY <1>1, TickIsSafe
<1>4. Connected(players)' = Connected(players')
  BY DEF Connected
<1>5. \A j \in Connected(players') :
         /\ j \in Connected(ps) \ Expired(ps)
         /\ players'[j].conn = ps[j].conn
  BY <1>1, <1>3, ExpiredIsGone DEF Connected, Keeps
<1>6. out \subseteq outputs' /\ LeftBroadcast(ps, Expired(ps), base) \subseteq outputs'
  BY <1>1 DEF tl_tick
<1>7. \A i \in Connected(ps) :
         \/ players'[i].connected
         \/ /\ i \in Expired(ps)
            /\ \A j \in Connected(ps) \ Expired(ps) :
                  Output(ps[j].conn, "left", i) \in outputs'
  BY <1>1, <1>2, TickAnnounces
<1>8. ASSUME NEW i \in Connected(players), i \notin Connected(players'),
             NEW j \in Connected(players')
      PROVE  Output(players'[j].conn, "left", i) \in outputs'
  <2>1. CASE i \in Connected(ps)
    BY <1>5, <1>7, <1>8, <2>1 DEF Connected
  <2>2. CASE i \notin Connected(ps)
    <3>1. Output(ps[j].conn, "left", i) \in out
      BY <1>5, <2>2 DEF Prepared
    <3>. QED  BY <1>5, <1>6, <3>1
  <2>. QED  BY <2>1, <2>2
<1>9. ASSUME NEW m \in outputs', m.kind = "state", m.who # 0, ~players'[m.who].connected
      PROVE  Output(m.to, "left", m.who) \in outputs'
  <2>1. m \in out
    <3>1. \A x \in LeftBroadcast(ps, Expired(ps), base) : x.kind = "left"
      BY DEF LeftBroadcast, Output
    <3>. QED  BY <1>1, <1>9, <3>1 DEF tl_tick
  <2>2. /\ m.who \in Connected(ps)
        /\ \/ m.who \notin Expired(ps)
           \/ \E j \in Connected(ps) \ Expired(ps) : m.to = ps[j].conn
    BY <1>9, <2>1 DEF Prepared
  <2>. QED  BY <1>7, <1>9, <2>2
<1>10. NoGhostIsSent'
  BY <1>9 DEF NoGhostIsSent
<1>. QED  BY <1>4, <1>8, <1>10 DEF Announces

\* The slots of a relayed state.
Relayed(hs, i, m, id) ==
    [hs EXCEPT ![i].stats = psr_absorb(@, m), ![i].state = id]

LEMMA RelayedIsSafe ==
    ASSUME NEW rs, NEW hs, NEW i \in Slots, NEW m \in States, SlotsOK(rs), SlotsOK(hs),
           hs[i].silent = 0
    PROVE  LET ps == Relayed(hs, i, m, rs[i].player_id)
           IN  SlotsOK(ps) /\ Connected(ps) = Connected(hs) /\ ps[i].silent = 0
<1> DEFINE qs == [hs EXCEPT ![i].stats = psr_absorb(@, m)]
           ps == [qs EXCEPT ![i].state = rs[i].player_id]
<1> SUFFICES SlotsOK(ps) /\ Connected(ps) = Connected(hs) /\ ps[i].silent = 0
  BY DEF Relayed
<1>1. /\ m \in Stamps /\ hs[i] \in PlayerRecord
      /\ rs[i].player_id \in {0, i} /\ rs[i].player_id \in 0 .. MaxPlayers
  BY InputsAssumption DEF SlotsOK, PlayerRecord
<1>2. psr_absorb(hs[i].stats, m) \in Stamps
  BY <1>1 DEF psr_absorb, PlayerRecord, Stamps
<1>3. /\ qs \in [Slots -> PlayerRecord]
      /\ \A j \in Slots : /\ qs[j].player_id = hs[j].player_id
                          /\ qs[j].connected = hs[j].connected
                          /\ qs[j].conn = hs[j].conn
                          /\ qs[j].state = hs[j].state
                          /\ qs[j].silent = hs[j].silent
  BY <1>2 DEF SlotsOK, PlayerRecord
<1> HIDE DEF qs
<1>4. /\ ps \in [Slots -> PlayerRecord]
      /\ \A j \in Slots : /\ ps[j].player_id = hs[j].player_id
                          /\ ps[j].connected = hs[j].connected
                          /\ ps[j].conn = hs[j].conn
                          /\ ps[j].state \in {hs[j].state, rs[i].player_id}
                          /\ j # i => ps[j].state = hs[j].state
                          /\ ps[j].silent = hs[j].silent
  BY <1>1, <1>3 DEF PlayerRecord
<1>5. SlotsOK(ps)
  BY <1>1, <1>4 DEF SlotsOK
<1>. QED  BY <1>4, <1>5 DEF Connected

\* The messages of a joined player.
LEMMA PlayerPrepares ==
    ASSUME Roomy, IInv, NEW e \in Endpoints,
           \/ RecvPing(e)
           \/ RecvDisconnect(e)
           \/ \E m \in States : RelayPlayerState(e, m)
           \/ \E m \in States : StalePlayerState(e, m)
           \/ RecvInputState(e)
           \/ RecvCombatOrBuild(e)
           \/ RecvWorkshopOrDialogue(e)
    PROVE  \E ps, base : \E out \in SUBSET Outputs : Prepared(ps, out, base)
<1> DEFINE P == MaxPlayers - 1
<1>0. P \in Nat \ {0}
  BY SizesAssumption
<1>1. SlotsOK(players)
  BY DEF IInv
<1>2. \A i \in Slots : /\ SlotsOK(Heard(players, i))
                       /\ Connected(Heard(players, i)) = Connected(players)
                       /\ Heard(players, i)[i].silent = 0
  BY <1>1, HeardIsSafe
<1>3. \A i \in Slots : FromPlayer(e, i) => i \in Connected(players)
  BY FromPlayerIsSafe DEF Connected
\* The sender is heard and survives the tick.
<1>4. ASSUME NEW ps, NEW i \in Connected(ps), SlotsOK(ps), ps[i].silent = 0,
             Connected(ps) = Connected(players),
             NEW out \in SUBSET Outputs, NEW base \in Nat, base <= 3 * P,
             tl_tick(ps, out, base),
             \A m \in out : m.kind = "state" => m.who \in {0, i}
      PROVE  Prepared(ps, out, base)
  <2>1. Fits(ps, base) /\ i \notin Expired(ps)
    BY <1>4, RoomForTick
  <2>. QED  BY <1>4, <2>1 DEF Prepared
<1>5. \A ps : SlotsOK(ps) => Cardinality(Connected(ps)) \in 0 .. P
  BY CrowdIsBounded
<1>6. CASE RecvPing(e)
  <2>1. PICK i \in Slots :
          /\ FromPlayer(e, i)
          /\ tl_tick(Heard(players, i), {Output(ConnectionOf(e), "pong", 0)}, 1)
    BY <1>6 DEF RecvPing
  <2> DEFINE out == {Output(ConnectionOf(e), "pong", 0)}
  <2>2. out \in SUBSET Outputs
    BY <2>1, FromPlayerIsSafe, SizesAssumption DEF Output, Outputs
  <2>3. \A m \in out : m.kind # "state"
    BY DEF Output
  <2>4. tl_tick(Heard(players, i), out, 1) /\ 1 <= 3 * P
    BY <2>1, SizesAssumption
  <2> HIDE DEF out, P
  <2>5. Prepared(Heard(players, i), out, 1)
    BY <1>2, <1>3, <1>4, <2>1, <2>2, <2>3, <2>4
  <2>. QED  BY <2>2, <2>5
<1>7. CASE \E m \in States : StalePlayerState(e, m)
  <2>1. PICK i \in Slots : FromPlayer(e, i) /\ tl_tick(Heard(players, i), {}, 0)
    BY <1>7 DEF StalePlayerState
  <2>2. Prepared(Heard(players, i), {}, 0)
    BY <1>0, <1>2, <1>3, <1>4, <2>1
  <2>. QED  BY <2>2
<1>8. CASE RecvCombatOrBuild(e)
  <2>1. PICK i \in Slots :
          /\ FromPlayer(e, i)
          /\ LET n == Cardinality(Connected(Heard(players, i)))
             IN  \E base \in {0, 2 * n, 3 * n, 1, 1 + n} : tl_tick(Heard(players, i), {}, base)
    BY <1>8 DEF RecvCombatOrBuild
  <2> DEFINE n == Cardinality(Connected(Heard(players, i)))
  <2>2. PICK base \in {0, 2 * n, 3 * n, 1, 1 + n} : tl_tick(Heard(players, i), {}, base)
    BY <2>1
  <2>3. n \in 0 .. P
    BY <1>2, <1>5
  <2> HIDE DEF n, P
  <2>4. base \in Nat /\ base <= 3 * P
    BY <1>0, <2>2, <2>3
  <2>5. Prepared(Heard(players, i), {}, base)
    BY <1>2, <1>3, <1>4, <2>1, <2>2, <2>4
  <2>. QED  BY <2>5
<1>9. CASE RecvWorkshopOrDialogue(e)
  <2>1. PICK i \in Slots, base \in {0, Cardinality(Connected(players))} :
           tl_tick(players, {}, base)
    BY <1>9 DEF RecvWorkshopOrDialogue
  <2>2. base \in Nat /\ base <= P
    BY <1>0, <1>1, <1>5, <2>1
  <2>3. Fits(players, base)
    BY <1>1, <2>2, RoomForTick
  <2>4. Prepared(players, {}, base)
    BY <1>1, <2>1, <2>2, <2>3 DEF Prepared
  <2>. QED  BY <2>4
<1>10. CASE RecvInputState(e)
  <2>1. PICK i \in Slots :
          /\ FromPlayer(e, i)
          /\ tl_tick(Heard(players, i), StateBroadcast(Heard(players, i), i),
                     Cardinality(Connected(Heard(players, i))))
    BY <1>10 DEF RecvInputState
  <2> DEFINE ps == Heard(players, i)
             out == StateBroadcast(ps, i)
             base == Cardinality(Connected(ps))
  <2>2. SlotsOK(ps) /\ Connected(ps) = Connected(players) /\ ps[i].silent = 0
    BY <1>2
  <2>3. tl_tick(ps, out, base) /\ i \in Connected(players)
    BY <1>3, <2>1
  <2> HIDE DEF ps
  <2>4. out \in SUBSET Outputs
    BY <2>2, BroadcastsAreOutputs
  <2>5. \A m \in out : m.kind = "state" => m.who \in {0, i}
    BY <2>2 DEF StateBroadcast, Output, SlotsOK
  <2>6. base \in Nat /\ base <= 3 * P
    BY <1>0, <1>5, <2>2
  <2> HIDE DEF out, base
  <2>7. Prepared(ps, out, base)
    BY <1>4, <2>2, <2>3, <2>4, <2>5, <2>6
  <2>. QED  BY <2>4, <2>7
<1>11. CASE \E m \in States : RelayPlayerState(e, m)
  <2>1. PICK m \in States, i \in Slots :
          /\ FromPlayer(e, i)
          /\ LET ps == [Heard(players, i) EXCEPT
                          ![i].stats = psr_absorb(@, m),
                          ![i].state = players[i].player_id]
             IN  tl_tick(ps, StateBroadcast(ps, i), Cardinality(Connected(ps)))
    BY <1>11 DEF RelayPlayerState
  <2> DEFINE hs == Heard(players, i)
             ps == Relayed(hs, i, m, players[i].player_id)
             out == StateBroadcast(ps, i)
             base == Cardinality(Connected(ps))
  <2>2. tl_tick(ps, out, base) /\ i \in Connected(players)
    BY <1>3, <2>1 DEF Relayed
  <2>3. SlotsOK(hs) /\ Connected(hs) = Connected(players) /\ hs[i].silent = 0
    BY <1>2
  <2>4. SlotsOK(ps) /\ Connected(ps) = Connected(players) /\ ps[i].silent = 0
    BY <1>1, <2>1, <2>3, RelayedIsSafe
  <2> HIDE DEF ps
  <2>5. out \in SUBSET Outputs
    BY <2>4, BroadcastsAreOutputs
  <2>6. \A x \in out : x.kind = "state" => x.who \in {0, i}
    BY <2>4 DEF StateBroadcast, Output, SlotsOK
  <2>7. base \in Nat /\ base <= 3 * P
    BY <1>0, <1>5, <2>4
  <2> HIDE DEF out, base
  <2>8. Prepared(ps, out, base)
    BY <1>4, <2>2, <2>4, <2>5, <2>6, <2>7
  <2>. QED  BY <2>5, <2>8
<1>12. CASE RecvDisconnect(e)
  <2>1. PICK i \in Slots :
          /\ FromPlayer(e, i)
          /\ tl_tick(sm_remove_player(Heard(players, i), {i}),
                     LeftBroadcast(Heard(players, i), {i}, 0),
                     Cardinality(Connected(Heard(players, i))))
    BY <1>12 DEF RecvDisconnect
  <2> DEFINE hs == Heard(players, i)
             ps == sm_remove_player(hs, {i})
             out == LeftBroadcast(hs, {i}, 0)
             base == Cardinality(Connected(hs))
  <2>2. SlotsOK(hs) /\ Connected(hs) = Connected(players) /\ i \in Connected(hs)
    BY <1>2, <1>3, <2>1
  <2>3. tl_tick(ps, out, base)
    BY <2>1
  <2> HIDE DEF hs
  <2>4. SlotsById(hs, {i}) = {i}
    BY <2>2, RemovalById
  <2>5. \A j \in Slots : ps[j] = IF j = i THEN Removed(hs[j]) ELSE hs[j]
    BY <2>4 DEF sm_remove_player
  <2>6. \A j \in Slots : hs[j] \in PlayerRecord
    BY <2>2 DEF SlotsOK
  <2>7. \A j \in Slots : /\ ps[j] \in PlayerRecord
                         /\ ps[j].player_id = hs[j].player_id
                         /\ ps[j].state = hs[j].state
                         /\ ps[j].connected => j # i /\ ps[j] = hs[j]
                         /\ j # i => ps[j] = hs[j]
    BY <2>5, <2>6, RemovedIsSafe
  <2>8. ps \in [Slots -> PlayerRecord]
    BY <2>7 DEF sm_remove_player
  <2>9. SlotsOK(ps)
    BY <2>2, <2>7, <2>8 DEF SlotsOK
  <2>10. Connected(ps) = Connected(hs) \ {i} /\ \A j \in Connected(ps) : ps[j].conn = hs[j].conn
    BY <2>7 DEF Connected
  <2> HIDE DEF ps
  <2>11. out \in SUBSET Outputs
    BY <2>2, BroadcastsAreOutputs
  <2>12. base \in Nat /\ base <= P
    BY <1>0, <1>5, <2>2
  <2>13. Fits(ps, base)
    BY <2>9, <2>12, RoomForTick
  <2>14. \A j \in Connected(ps) : Output(ps[j].conn, "left", i) \in out
    <3>1. {i} \in SUBSET Connected(hs) /\ Cardinality({i}) = 1
      BY <2>2, FS_Singleton
    <3>2. 0 + Cardinality({i}) * base <= MaxOutputs
      <4>1. P * (P + 2) <= MaxOutputs
        BY DEF Roomy
      <4>2. P * (P + 2) = P * P + 2 * P /\ P * P \in Nat
        BY <1>0, TimesGrows
      <4>3. MaxOutputs \in Nat
        BY SizesAssumption
      <4> HIDE DEF base, P
      <4>. QED  BY <1>0, <2>12, <3>1, <4>1, <4>2, <4>3
    <3>3. \A j \in Connected(hs) : j # i => Output(hs[j].conn, "left", i) \in out
      BY <2>2, <3>1, <3>2, LeftReaches
    <3>. QED  BY <2>10, <3>3
  <2>15. \A m \in out : m.kind # "state"
    BY DEF LeftBroadcast, Output
  <2> HIDE DEF out, base
  <2>16. Prepared(ps, out, base)
    BY <2>2, <2>3, <2>9, <2>10, <2>12, <2>13, <2>14, <2>15 DEF Prepared
  <2>. QED  BY <2>11, <2>16
<1>. QED  BY <1>6, <1>7, <1>8, <1>9, <1>10, <1>11, <1>12

\* A HELLO: whoever has expired is announced to the player that is greeted, in
\* the same iteration that sends it the expired player's state.
LEMMA GreetPrepares ==
    ASSUME Roomy, NEW c \in 1 .. MaxBindings, NEW g \in Guids, NEW w \in WorldReplay,
           NEW k \in PlayerIds, NEW ps, SlotsOK(ps), ps[k].connected,
           Connected(players) \subseteq Connected(ps), Greet(ps, k, c, g, w)
    PROVE  \E qs, base : \E out \in SUBSET Outputs : Prepared(qs, out, base)
<1> DEFINE p == [ps[k] EXCEPT !.conn = c, !.silent = 0]
           q == [p EXCEPT !.guid = g]
           qs == [ps EXCEPT ![k] = q]
           out == JoinReply(qs, k)
           base == JoinReplySize(qs, w)
<1>1. k \in Slots
  BY IdsAreSlots
<1>2. find_player(ps, k) = k
  <2>1. {i \in Connected(ps) : ps[i].player_id = k} = {k}
    BY <1>1 DEF Connected, SlotsOK
  <2>. QED  BY <2>1, IdsAreSlots, MinOfOne DEF find_player
<1>3. tl_tick(qs, out, base)
  BY <1>2 DEF Greet
<1>4. ps[k] \in PlayerRecord /\ 0 \in 0 .. TimeoutTicks /\ c \in 0 .. MaxBindings /\ c # 0
  BY <1>1, SizesAssumption DEF SlotsOK
<1>5. /\ p \in PlayerRecord /\ p.conn = c /\ p.connected = ps[k].connected
      /\ p.player_id = ps[k].player_id /\ p.state = ps[k].state /\ p.silent = 0
  BY <1>4 DEF PlayerRecord
<1> HIDE DEF p
<1>6. /\ q \in PlayerRecord /\ q.conn = c /\ q.connected = ps[k].connected
      /\ q.player_id = ps[k].player_id /\ q.state = ps[k].state /\ q.silent = 0
  BY <1>5 DEF PlayerRecord
<1> HIDE DEF q
<1>7. /\ qs \in [Slots -> PlayerRecord]
      /\ \A i \in Slots : qs[i] = IF i = k THEN q ELSE ps[i]
  BY <1>1, <1>6 DEF SlotsOK
<1> HIDE DEF qs
<1>8. SlotsOK(qs) /\ Connected(qs) = Connected(ps) /\ k \in Connected(qs) /\ qs[k].silent = 0
  <2>1. SlotsOK(qs)
    BY <1>4, <1>6, <1>7 DEF SlotsOK
  <2>2. Connected(qs) = Connected(ps)
    BY <1>6, <1>7 DEF Connected
  <2>. QED  BY <1>1, <1>6, <1>7, <2>1, <2>2 DEF Connected
<1>9. out \in SUBSET Outputs
  <2>1. Output(qs[k].conn, "welcome", qs[k].player_id) \in Outputs
    BY <1>1, <1>4, <1>6, <1>7, SizesAssumption DEF Output, Outputs, PlayerRecord
  <2>2. \A j \in Slots : Output(qs[k].conn, "state", qs[j].state) \in Outputs
    BY <1>1, <1>4, <1>6, <1>7, SizesAssumption DEF Output, Outputs, PlayerRecord
  <2>. QED  BY <2>1, <2>2 DEF JoinReply, Connected
<1>10. base \in Nat /\ base <= 4 + (MaxPlayers - 1) + w
  <2>1. /\ IsFiniteSet(Connected(qs))
        /\ Cardinality(Connected(qs)) \in 0 .. (MaxPlayers - 1)
    BY <1>8, CrowdIsBounded
  <2>2. Cardinality(Connected(qs)) # 0
    BY <1>8, <2>1, FS_EmptySet
  <2>3. w \in Nat /\ MaxPlayers \in Nat
    BY InputsAssumption, SizesAssumption
  <2>. QED  BY <2>1, <2>2, <2>3 DEF JoinReplySize
<1> HIDE DEF base
<1>11. Fits(qs, base) /\ k \notin Expired(qs)
  BY <1>8, <1>10, RoomForTick
<1>12. ASSUME NEW m \in out, m.kind = "state", m.who # 0
       PROVE  m.who \in Connected(qs) /\ m.to = qs[k].conn
  <2>1. PICK j \in Connected(qs) \ {k} : m = Output(qs[k].conn, "state", qs[j].state)
    BY <1>12 DEF JoinReply, Output
  <2>2. m.who = qs[j].state /\ m.to = qs[k].conn
    BY <2>1 DEF Output
  <2>3. qs[j].state \in {0, j}
    BY <1>8 DEF SlotsOK, Connected
  <2>. QED  BY <1>12, <2>1, <2>2, <2>3
<1> HIDE DEF out
<1>13. Prepared(qs, out, base)
  BY <1>3, <1>8, <1>10, <1>11, <1>12 DEF Prepared
<1>. QED  BY <1>9, <1>13

LEMMA JoinPrepares ==
    ASSUME Roomy, IInv, NEW e \in Endpoints, NEW g \in Speaks[e], NEW w \in WorldReplay,
           JoinSession(e, g, w)
    PROVE  \E qs, base : \E out \in SUBSET Outputs : Prepared(qs, out, base)
<1> DEFINE c == ConnectionOf(e)
           k == Min(FreeIds(players))
           new == [connected |-> TRUE, player_id |-> k, conn |-> c, silent |-> 0,
                   stats |-> NoStats, state |-> 0, guid |-> "none"]
           ps == [players EXCEPT ![k] = new]
<1>1. /\ FreeIds(players) # {}
      /\ get_connection_id_for_endpoint(e)
      /\ Greet(ws_alloc_player(players, k, c), k, c, g, w)
  BY DEF JoinSession
<1>2. SlotsOK(players) /\ g \in Guids
  BY InputsAssumption DEF IInv
<1>3. k \in PlayerIds /\ k \notin Connected(players) /\ Min(Slots \ Connected(players)) = k
  BY <1>1, <1>2, FreeIdIsFreeSlot
<1>4. c \in 1 .. MaxBindings
  BY <1>1, BindingIsSafe DEF IInv
<1>5. Greet(ps, k, c, g, w)
  BY <1>1, <1>3 DEF ws_alloc_player
<1> HIDE DEF c, k
<1>6. k \in Slots /\ k \in 1 .. (MaxPlayers - 1)
  BY <1>3, SizesAssumption DEF PlayerIds, Slots
<1>7. new \in PlayerRecord
  BY <1>4, <1>6, SizesAssumption DEF PlayerRecord, NoStats, Stamps
<1>8. new.connected /\ new.player_id = k /\ new.conn = c /\ new.state = 0
  OBVIOUS
<1> HIDE DEF new
<1>9. /\ ps \in [Slots -> PlayerRecord]
      /\ \A i \in Slots : ps[i] = IF i = k THEN new ELSE players[i]
  BY <1>2, <1>6, <1>7 DEF SlotsOK
<1> HIDE DEF ps
<1>10. SlotsOK(ps) /\ ps[k].connected /\ Connected(players) \subseteq Connected(ps)
  <2>1. SlotsOK(ps)
    BY <1>2, <1>3, <1>4, <1>6, <1>8, <1>9 DEF SlotsOK
  <2>. QED  BY <1>6, <1>8, <1>9, <2>1 DEF Connected
<1>. QED  BY <1>2, <1>3, <1>4, <1>5, <1>10, GreetPrepares

LEMMA ReconnectPrepares ==
    ASSUME Roomy, IInv, NEW e \in Endpoints, NEW g \in Speaks[e], NEW w \in WorldReplay,
           Reconnect(e, g, w)
    PROVE  \E qs, base : \E out \in SUBSET Outputs : Prepared(qs, out, base)
<1> DEFINE c == ConnectionOf(e)
           k == registry[g]
           p == [players[k] EXCEPT !.connected = TRUE, !.conn = c]
           ps == [players EXCEPT ![k] = p]
<1>1. /\ registry[g] # 0
      /\ get_connection_id_for_endpoint(e)
      /\ Greet(sm_reconnect_player(players, k, c), k, c, g, w)
  BY DEF Reconnect
<1>2. SlotsOK(players) /\ g \in Guids
  BY InputsAssumption DEF IInv
<1>3. k \in PlayerIds /\ k \in Slots /\ players[k].player_id = k
  BY <1>1, <1>2, SizesAssumption DEF IInv, TypeOK, ReachOK, PlayerIds, Slots
<1>4. c \in 1 .. MaxBindings
  BY <1>1, BindingIsSafe DEF IInv
<1>5. Greet(ps, k, c, g, w)
  <2>1. {i \in Slots : players[i].player_id = k} = {k}
    BY <1>1, <1>2, <1>3 DEF SlotsOK
  <2>2. Min({i \in Slots : players[i].player_id = k}) = k
    BY <2>1, MinOfOne
  <2>. QED  BY <1>1, <2>2 DEF sm_reconnect_player
<1> HIDE DEF c
<1>6. players[k] \in PlayerRecord /\ c \in 0 .. MaxBindings
  BY <1>2, <1>3, <1>4, SizesAssumption DEF SlotsOK
<1>7. /\ p \in PlayerRecord /\ p.connected /\ p.player_id = k /\ p.conn = c
      /\ p.state = players[k].state
  BY <1>3, <1>6 DEF PlayerRecord
<1> HIDE DEF p
<1>8. /\ ps \in [Slots -> PlayerRecord]
      /\ \A i \in Slots : ps[i] = IF i = k THEN p ELSE players[i]
  BY <1>2, <1>3, <1>7 DEF SlotsOK
<1> HIDE DEF ps
<1>9. SlotsOK(ps) /\ ps[k].connected /\ Connected(players) \subseteq Connected(ps)
  <2>1. SlotsOK(ps)
    BY <1>2, <1>3, <1>4, <1>7, <1>8 DEF SlotsOK
  <2>. QED  BY <1>3, <1>7, <1>8, <2>1 DEF Connected
<1>. QED  BY <1>2, <1>3, <1>4, <1>5, <1>9, GreetPrepares

\* Every iteration of the main loop.
LEMMA NextAnnounces ==
    ASSUME Roomy, IInv, Next
    PROVE  Announces
<1>1. ASSUME NEW e \in Endpoints, Handled(e)
      PROVE  Announces
  <2>1. PICK ps, base : \E out \in SUBSET Outputs : Prepared(ps, out, base)
    BY <1>1, JoinPrepares, ReconnectPrepares, PlayerPrepares DEF Handled, KeepsAlive
  <2>. QED  BY <2>1, PreparedAnnounces
<1>2. ASSUME NEW e \in Endpoints, RefusedFire(e) \/ Refused(e) \/ TableFull(e)
      PROVE  Announces
  <2>1. outputs' = {} /\ Connected(players') = Connected(players)
    <3>1. ASSUME NEW i \in Slots, NotHandled(Heard(players, i))
          PROVE  outputs' = {} /\ Connected(players') = Connected(players)
      BY <3>1, HeardIsSafe DEF NotHandled, IInv
    <3>2. ASSUME NotHandled(players)
          PROVE  outputs' = {} /\ Connected(players') = Connected(players)
      BY <3>2 DEF NotHandled
    <3>. QED  BY <1>2, <3>1, <3>2 DEF RefusedFire, Refused, TableFull
  <2>2. Connected(players)' = Connected(players')
    BY DEF Connected
  <2>. QED  BY <2>1, <2>2 DEF Announces, NoGhostIsSent
<1>. QED  BY <1>1, <1>2 DEF Next

\* A player that goes, by MSG_DISCONNECT or by a timeout in the tick of anybody's
\* message, is announced by tl_broadcast_player_left to everybody who stays.
THEOREM SessionLeaves ==
    ASSUME Roomy
    PROVE  Spec => LeaveIsAnnounced
<1>1. IInv /\ [Next]_vars =>
        [\A i \in Connected(players) \ Connected(players)' :
            \A j \in Connected(players)' :
                Output(players'[j].conn, "left", i) \in outputs']_vars
  BY NextAnnounces DEF Announces
<1>. QED  BY <1>1, SessionInvariant, PTL DEF Spec, LeaveIsAnnounced

\* The join reply and the state broadcasts never leave a client with a player that
\* the tick of the same iteration removes.
THEOREM SessionNoGhost ==
    ASSUME Roomy
    PROVE  Spec => []NoGhostIsSent
<1>1. Init => NoGhostIsSent
  BY DEF Init, NoGhostIsSent
<1>2. IInv /\ NoGhostIsSent /\ [Next]_vars => NoGhostIsSent'
  <2>1. IInv /\ Next => NoGhostIsSent'
    BY NextAnnounces DEF Announces
  <2>2. NoGhostIsSent /\ UNCHANGED vars => NoGhostIsSent'
    BY DEF NoGhostIsSent, vars
  <2>. QED  BY <2>1, <2>2
<1>. QED  BY <1>1, <1>2, SessionInvariant, PTL DEF Spec

=============================================================================
