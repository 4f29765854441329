---------------------------- MODULE MovementPath ----------------------------
(***************************************************************************)
(* The way of one player's state to another player's screen: the movement  *)
(* publisher (movement_sync_bridge.c, movement_live_client_bridge.c), the  *)
(* relay of the service (transport_loop.c, player_state_relay_policy.c),   *)
(* the network between them, and the filter and the proxy of the observer  *)
(* (remote_proxy_manager.c, proxy_runtime.c).                              *)
(*                                                                         *)
(* One publisher, one observer.  Either may come late, close and open its  *)
(* connection again, or start again as a new process; a new connection     *)
(* uses a new socket.  The publisher's HELLO is a datagram like the others *)
(* and is sent again until a WELCOME is found; the observer's HELLO and    *)
(* what it is answered are one step.  Any of the first Window datagrams of *)
(* a channel may arrive next; an unreliable network also loses and         *)
(* duplicates them.  The idle timeout is off.                              *)
(*                                                                         *)
(* look is what is copied from message to proxy as it is: stance,          *)
(* animation and equipment.  The smoothing of positions is not part of     *)
(* this module.  run is a history stamp: the publisher process a state or  *)
(* a HELLO comes from.                                                     *)
(***************************************************************************)
EXTENDS SequencesExt, RelayPolicy

CONSTANTS
    Looks,         \* the looks of the player
    MinInterval,   \* min_send_interval_ticks
    ForceResend,   \* force_resend_ticks
    Window,        \* how far the network may reorder
    Unreliable,    \* whether it may lose and duplicate
    MaxMoves,      \* bounds of the model: changes of the look, ...
    MaxInputs,     \* ... MSG_INPUT_STATE sent, ...
    MaxOpens,      \* ... connections opened by the publisher, ...
    MaxHellos,     \* ... HELLOs it sends once more, ...
    MaxRuns,       \* ... processes of the publisher, ...
    MaxSeq,        \* ... states sent by one process, ...
    MaxInFlight    \* ... datagrams in a channel when something is sent

ASSUME PathAssumption ==
    /\ Looks # {}
    /\ MinInterval \in Nat /\ ForceResend \in Nat
    /\ Window \in Nat \ {0}
    /\ Unreliable \in BOOLEAN
    /\ {MaxMoves, MaxInputs, MaxOpens, MaxHellos, MaxRuns, MaxSeq, MaxInFlight}
          \subseteq Nat

VARIABLES
    pub,       \* the publisher's process
    made,      \* history: how often it moved, sent input, was opened, repeated HELLO
    up,        \* datagrams from the publisher to the service
    slot,      \* the publisher's player slot in the service
    greeted,   \* the HELLOs handled: the connections a WELCOME was sent to, and,
               \* as history, the process of the last one and whether one was late
    down,      \* datagrams from the service to the observer
    watching,  \* whether the observer is connected
    proxy      \* the observer's proxy of the publisher

vars == <<pub, made, up, slot, greeted, down, watching, proxy>>

-----------------------------------------------------------------------------
(***************************************************************************)
(* The publisher                                                           *)
(***************************************************************************)

\* msb statics; conn is 0 while no connection is open; joined: it has found its
\* WELCOME.
NewProcess(r, l) ==
    [conn |-> 0, joined |-> FALSE, run |-> r, look |-> l, seq |-> 0, tick |-> 0,
     have |-> FALSE, last |-> l, quiet |-> 0, emit |-> 0]

\* g_observed_tick++.  Only the order of the ticks of sent states matters, so
\* counting stops where the next state may be sent.
Observed(p) == [p EXCEPT !.tick = IF @ - p.emit > MinInterval THEN @ ELSE @ + 1]

Changed(p) == p.look # p.last

TooSoon(p) == Changed(p) /\ p.emit # 0 /\ p.tick - p.emit < MinInterval

Emits(p) ==
    \/ ~p.have
    \/ Changed(p) /\ ~TooSoon(p)
    \/ ~Changed(p) /\ ForceResend # 0 /\ p.quiet + 1 >= ForceResend

\* Mutant: a change that comes too soon is taken as seen.
Kept_seen(p) ==
    [p EXCEPT !.quiet = IF Changed(p) \/ ForceResend = 0 THEN @ ELSE @ + 1,
              !.last = p.look]

\* A tick that sends nothing.
Kept(p) == [p EXCEPT !.quiet = IF Changed(p) \/ ForceResend = 0 THEN @ ELSE @ + 1]

Emitted(p) ==
    [p EXCEPT !.seq = @ + 1, !.last = p.look, !.have = TRUE, !.quiet = 0, !.emit = p.tick]

msb_build_player_state_if_changed(p) == IF Emits(p) THEN Emitted(p) ELSE Kept(p)

-----------------------------------------------------------------------------
(***************************************************************************)
(* Datagrams                                                               *)
(***************************************************************************)

\* who is 0 in a replicated_state that was never set.
NoState ==
    [kind |-> "state", who |-> 0, seq |-> 0, tick |-> 0,
     look |-> CHOOSE l \in Looks : TRUE, run |-> 0]

StateOf(p) ==
    [kind |-> "state", who |-> 1, seq |-> p.seq, tick |-> p.tick, look |-> p.look,
     run |-> p.run]

HelloOf(p) == [kind |-> "hello", run |-> p.run]

Left == [kind |-> "left"]

Room(ch) == Len(ch) < MaxInFlight

\* What is left of channel ch when its k-th datagram has been taken.
Taken(ch, k) == {RemoveAt(ch, k)} \cup (IF Unreliable THEN {ch} ELSE {})

Arrivals(ch) == {k \in 1 .. Len(ch) : k <= Window}

-----------------------------------------------------------------------------
(***************************************************************************)
(* Steps of the publisher                                                  *)
(***************************************************************************)

\* The player changes stance, animation or equipment.
Move ==
    /\ made.moves < MaxMoves
    /\ \E l \in Looks \ {pub.look} : pub' = [pub EXCEPT !.look = l]
    /\ made' = [made EXCEPT !.moves = @ + 1]
    /\ UNCHANGED <<up, slot, greeted, down, watching, proxy>>

\* mlcb_open: a new socket and the first HELLO.
PublisherOpens ==
    /\ pub.conn = 0
    /\ made.opens < MaxOpens
    /\ Room(up)
    /\ made' = [made EXCEPT !.opens = @ + 1]
    /\ pub' = [pub EXCEPT !.conn = made'.opens]
    /\ up' = Append(up, [conn |-> pub'.conn, body |-> HelloOf(pub)])
    /\ UNCHANGED <<slot, greeted, down, watching, proxy>>

\* mlcb_tick without a WELCOME, at the retry interval: HELLO once more.
PublisherHelloAgain ==
    /\ pub.conn # 0 /\ ~pub.joined
    /\ made.hellos < MaxHellos
    /\ Room(up)
    /\ made' = [made EXCEPT !.hellos = @ + 1]
    /\ up' = Append(up, [conn |-> pub.conn, body |-> HelloOf(pub)])
    /\ UNCHANGED <<pub, slot, greeted, down, watching, proxy>>

\* mlcb_tick, with a WELCOME found now or before: observe, and perhaps send.
PublisherTicks ==
    LET p == Observed([pub EXCEPT !.joined = TRUE])
    IN  /\ pub.conn # 0
        /\ pub.joined \/ pub.conn \in greeted.conns
        /\ Emits(p) => p.seq < MaxSeq /\ Room(up)
        /\ pub' = msb_build_player_state_if_changed(p)
        /\ up' = IF Emits(p)
                 THEN Append(up, [conn |-> pub.conn, body |-> StateOf(pub')]) ELSE up
        /\ UNCHANGED <<made, slot, greeted, down, watching, proxy>>

\* A client that sends MSG_INPUT_STATE with what it has equipped.
PublisherInput ==
    /\ pub.joined
    /\ made.inputs < MaxInputs
    /\ Room(up)
    /\ made' = [made EXCEPT !.inputs = @ + 1]
    /\ \E l \in Looks :
          up' = Append(up, [conn |-> pub.conn, body |-> [kind |-> "input", look |-> l]])
    /\ UNCHANGED <<pub, slot, greeted, down, watching, proxy>>

\* mlcb_close: MSG_DISCONNECT, by a client that has its WELCOME, and the socket is
\* closed.  Nothing resets the statics of movement_sync_bridge.c.
PublisherCloses ==
    /\ pub.conn # 0
    /\ IF pub.joined
       THEN /\ Room(up)
            /\ up' = Append(up, [conn |-> pub.conn, body |-> [kind |-> "disconnect"]])
       ELSE UNCHANGED up
    /\ pub' = [pub EXCEPT !.conn = 0, !.joined = FALSE]
    /\ UNCHANGED <<made, slot, greeted, down, watching, proxy>>

\* The process ends without a word and a new one is started.
PublisherRestarts ==
    /\ pub.run < MaxRuns
    /\ pub' = NewProcess(pub.run + 1, pub.look)
    /\ UNCHANGED <<made, up, slot, greeted, down, watching, proxy>>

-----------------------------------------------------------------------------
(***************************************************************************)
(* Steps of the service                                                    *)
(***************************************************************************)

Tell(m) == down' = IF watching THEN Append(down, m) ELSE down

\* MSG_PLAYER_STATE: the filter, then the slot, then the broadcast.
HandlePlayerState(m) ==
    IF psr_evaluate(slot.stats, m)
    THEN /\ slot' = [slot EXCEPT !.stats = psr_absorb(@, m), !.state = m]
         /\ Tell(m)
    ELSE UNCHANGED <<slot, down>>

\* MSG_INPUT_STATE: the equipment in the slot changes, its stamps do not.
ac_handle_input_state(m) ==
    /\ slot' = [slot EXCEPT !.state.look = m.look]
    /\ Tell(slot'.state)

\* MSG_DISCONNECT: tl_broadcast_player_left, then sm_remove_player.
HandleDisconnect ==
    /\ slot' = [slot EXCEPT !.connected = FALSE, !.conn = 0]
    /\ Tell(Left)

\* MSG_HELLO, from any connection and however late: sm_reconnect_player turns the
\* slot to that connection and keeps all else in it, the connection is sent a
\* WELCOME, and no other player is sent anything.
HandleHello(m) ==
    /\ slot' = [slot EXCEPT !.connected = TRUE, !.conn = m.conn]
    /\ greeted' = [conns |-> greeted.conns \cup {m.conn}, run |-> m.body.run,
                   late |-> greeted.late \/ m.body.run < greeted.run]
    /\ UNCHANGED down

\* Mutant: any connection that ever was a player's is taken for it.
Routed_ever(m) == slot.connected /\ m.conn \in greeted.conns

\* tl_find_player_by_connection.
Routed(m) == slot.connected /\ slot.conn = m.conn

\* What the connection of a player may send.
HandlePlayerMessage(m) ==
    CASE m.kind = "state"      -> HandlePlayerState(m)
      [] m.kind = "input"      -> ac_handle_input_state(m)
      [] m.kind = "disconnect" -> HandleDisconnect

\* A datagram of a connection that is not, or no longer, a player's is refused,
\* unless it is a HELLO.
ServiceReceives ==
    \E k \in Arrivals(up) :
        LET m == up[k]
        IN  /\ Room(down)
            /\ up' \in Taken(up, k)
            /\ \/ m.body.kind = "hello" /\ HandleHello(m)
               \/ /\ m.body.kind # "hello"
                  /\ IF Routed(m)
                     THEN HandlePlayerMessage(m.body) ELSE UNCHANGED <<slot, down>>
                  /\ UNCHANGED greeted
            /\ UNCHANGED <<pub, made, watching, proxy>>

-----------------------------------------------------------------------------
(***************************************************************************)
(* Steps of the observer                                                   *)
(***************************************************************************)

NoProxy ==
    [in_use |-> FALSE, seq |-> 0, tick |-> 0,
     look |-> CHOOSE l \in Looks : TRUE, run |-> 0]

\* Mutant: a state with the same sequence is refused whatever its tick.
Stale_orEqual(px, m) == m.seq # 0 /\ px.seq # 0 /\ m.seq <= px.seq

Stale(px, m) ==
    \/ m.seq # 0 /\ px.seq # 0 /\ m.seq < px.seq
    \/ m.seq = px.seq /\ m.tick # 0 /\ px.tick # 0 /\ m.tick <= px.tick

\* proxy_spawn_player: a zeroed record with the looks of the message.
proxy_spawn_player(m) ==
    [in_use |-> TRUE, seq |-> 0, tick |-> 0, look |-> m.look, run |-> m.run]

rpm_apply_remote_player_state(px, m) ==
    LET current == IF px.in_use THEN px ELSE proxy_spawn_player(m)
    IN  IF m.who = 0 THEN px
        ELSE IF Stale(current, m) THEN current
        ELSE [in_use |-> TRUE, seq |-> m.seq, tick |-> m.tick, look |-> m.look, run |-> m.run]

\* plugin_apply_packet, for the messages about the publisher.
Apply(px, m) ==
    IF m.kind = "left" THEN NoProxy ELSE rpm_apply_remote_player_state(px, m)

\* Mutant: the replay is not limited to connected players.
Replay_all == <<slot.state>>

\* tl_send_existing_state_to_player.
Replay == IF slot.connected THEN <<slot.state>> ELSE <<>>

\* ebstub_init and the first HELLO of an observer process.
ObserverStarts ==
    /\ watching' = TRUE
    /\ proxy' = NoProxy
    /\ down' = Replay
    /\ UNCHANGED <<pub, made, up, slot, greeted>>

\* A retried or duplicated HELLO: the state is replayed once more.
ObserverHelloAgain ==
    /\ watching
    /\ Room(down)
    /\ down' = down \o Replay
    /\ UNCHANGED <<pub, made, up, slot, greeted, watching, proxy>>

\* The observer's connection is closed.
ObserverCloses ==
    /\ watching
    /\ watching' = FALSE
    /\ down' = <<>>
    /\ UNCHANGED <<pub, made, up, slot, greeted, proxy>>

\* ptc_poll_once.
ObserverReceives ==
    /\ \E k \in Arrivals(down) :
        /\ proxy' = Apply(proxy, down[k])
        /\ down' \in Taken(down, k)
    /\ UNCHANGED <<pub, made, up, slot, greeted, watching>>

\* The network drops a datagram.
Lose ==
    /\ Unreliable
    /\ \/ \E k \in 1 .. Len(up) : up' = RemoveAt(up, k) /\ UNCHANGED down
       \/ \E k \in 1 .. Len(down) : down' = RemoveAt(down, k) /\ UNCHANGED up
    /\ UNCHANGED <<pub, made, slot, greeted, watching, proxy>>

-----------------------------------------------------------------------------

Init ==
    /\ \E l \in Looks : pub = NewProcess(1, l)
    /\ made = [moves |-> 0, inputs |-> 0, opens |-> 0, hellos |-> 0]
    /\ up = <<>>
    /\ slot = [connected |-> FALSE, conn |-> 0, stats |-> NoStats, state |-> NoState]
    /\ greeted = [conns |-> {}, run |-> 0, late |-> FALSE]
    /\ down = <<>>
    /\ watching = FALSE
    /\ proxy = NoProxy

Next ==
    \/ Move
    \/ PublisherOpens
    \/ PublisherHelloAgain
    \/ PublisherTicks
    \/ PublisherInput
    \/ PublisherCloses
    \/ PublisherRestarts
    \/ ServiceReceives
    \/ ObserverStarts
    \/ ObserverHelloAgain
    \/ ObserverCloses
    \/ ObserverReceives
    \/ Lose

Spec == Init /\ [][Next]_vars

\* The game calls mlcb_tick on every frame, the service polls its socket for
\* ever, and a network that loses nothing delivers what it has, the WELCOME too.
FairSpec ==
    /\ Spec
    /\ WF_vars(PublisherTicks)
    /\ WF_vars(ServiceReceives)
    /\ WF_vars(ObserverReceives)

-----------------------------------------------------------------------------
(***************************************************************************)
(* Correctness                                                             *)
(***************************************************************************)

Older(x, y) == x.run = y.run /\ x.seq < y.seq

OfEarlierProcess(x, y) == x.run < y.run

\* Neither the slot nor a proxy ever goes back to an older state of the same
\* process, although datagrams are lost, duplicated and reordered on both ways,
\* HELLOs replay the slot, and the two filters compare stamps by different rules.
\* Nor to a state of an earlier process, as long as no HELLO of an earlier
\* process has arrived behind one of a later process: late states alone are kept
\* out, because the connection they come over is no player's any more.
NeverBackwards ==
    [][/\ ~Older(slot'.state, slot.state)
       /\ ~greeted.late => ~OfEarlierProcess(slot'.state, slot.state)
       /\ watching /\ proxy.in_use /\ proxy'.in_use =>
             /\ ~Older(proxy', proxy)
             /\ ~greeted.late => ~OfEarlierProcess(proxy', proxy)]_vars

\* What the observer will show once the datagrams in flight have arrived.
Settled == FoldLeft(Apply, proxy, down)

\* What the service accepts the observer never refuses: on a network that keeps
\* order, a shown publisher is shown with the state in its slot.
ShownIsRelayed ==
    watching /\ Settled.in_use =>
        /\ Settled.run = slot.state.run
        /\ Settled.seq = slot.state.seq
        /\ Settled.look = slot.state.look

\* "explicit disconnect removes the remote proxy": when everything sent has
\* arrived, an observer shows the publisher only while it is connected.
NoGhostPlayer ==
    watching /\ down = <<>> /\ proxy.in_use => slot.connected

\* "late join replays the latest movement state", and movement reaches those
\* who are there: a player that comes to rest is in the end shown as it is,
\* whether the rate limit held its last change back or the observer came late.
\* Not so for a player that has reconnected: nothing is sent before it moves.
\* (A client sends no HELLO any more once it has its WELCOME.)
StillPlayerIsShown ==
    /\ [](made.opens <= 1 /\ pub.run = 1)
    /\ <>[](watching /\ pub.conn # 0)
    /\ <>[][~ObserverStarts /\ ~ObserverHelloAgain]_vars
    => <>[](proxy.in_use /\ proxy.look = pub.look)

=============================================================================
