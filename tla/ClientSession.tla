--------------------------- MODULE ClientSession ---------------------------
(***************************************************************************)
(* The client half of the session: the exported entry points of the plugin *)
(* (f4se_plugin_exports.cpp), the development transport that they start    *)
(* and stop (plugin_live_transport_dev.c, plugin_live_transport_config.c), *)
(* the bridge ticked once a frame (movement_live_client_bridge.c) and the  *)
(* UDP client (plugin_transport_client.c), composed with the service as    *)
(* Membership describes it and with the network between them.              *)
(*                                                                         *)
(* Two GUIDs: Me is the client modelled here, Peer everybody else.  The    *)
(* service handles one datagram per step, as in SessionService: the        *)
(* handler, then the tick that may find Me expired.  The GUIDs fit into    *)
(* the registry and the registry has room.                                 *)
(*                                                                         *)
(* The link is one of two networks, for good.  A prompt one loses and      *)
(* duplicates nothing, delivers to the service before the next client      *)
(* tick, and lets others send Chatter messages per client tick; a lossy    *)
(* one loses, duplicates and delays.  Neither keeps an order.              *)
(*                                                                         *)
(* A connection is a socket of the client, numbered from 1; a socket that  *)
(* is closed receives nothing more.  What a movement state says is the     *)
(* subject of MovementPath, proxies beyond their existence of SceneProxy.  *)
(***************************************************************************)
EXTENDS Membership, FiniteSets, SequencesExt

CONSTANTS
    Me, Peer,
    Disks,             \* the contents the config files may have
    RetryPolls,        \* hello_retry_interval_polls (4)
    DefaultHeartbeat,  \* heartbeat_interval_ticks without a config line (10)
    TimeoutTicks,      \* F4MP_PLAYER_TIMEOUT_TICKS; 0 switches the timeout off
    Chatter,           \* messages of others per client tick on a prompt link
    MaxFaults,         \* bounds of the model: crashes of the service and datagrams
                       \* the client cannot apply, by link, ...
    MaxOpens,          \* ... connections opened, ...
    MaxInFlight        \* ... datagrams in flight each way when one is sent

\* The files fltcfg_load_default looks for, in this order; the first is the one
\* named by F4MP_LIVE_CONFIG.
Candidates == <<"F4MP_LIVE_CONFIG", "f4mp_live.ini", "F4SE/f4mp_live.ini",
                "Data/F4SE/Plugins/f4mp_live.ini">>

Links == {"prompt", "lossy"}

ASSUME ClientAssumption ==
    /\ Guids = {Me, Peer} /\ Me # Peer
    /\ Cardinality(Ids) >= 2
    /\ RetryPolls \in Nat \ {0} /\ DefaultHeartbeat \in Nat
    /\ {TimeoutTicks, Chatter, MaxOpens, MaxInFlight} \subseteq Nat
    /\ MaxFaults \in [Links -> Nat]
    /\ \A d \in Disks : DOMAIN d \subseteq ToSet(Candidates)

VARIABLES
    link,       \* the kind of network
    disk,       \* the config files that exist, by path: the lines of each
    client,     \* the process of the client
    reopened,   \* history: it opened a connection without ebstub_init
    up,         \* whether the service runs
    crashes,    \* history: how often it has crashed
    route,      \* the connection in the slot of Me, 0 while Me has no seat
    silent,     \* ticks of the service since Me was heard, on a prompt link
    chat,       \* messages of others handled since the last client tick
    refused,    \* history: datagrams sent that the client cannot apply
    toService,  \* datagrams on their way to the service
    toClient    \* datagrams on their way to the client's socket

service == <<seat, home, up, crashes, route, silent>>
vars == <<link, disk, client, reopened, service, chat, refused, toService, toClient>>

-----------------------------------------------------------------------------
(***************************************************************************)
(* Configuration                                                           *)
(***************************************************************************)

\* fltcfg_set_defaults.
Defaults == [enabled |-> FALSE, host |-> TRUE, heartbeat |-> DefaultHeartbeat]

\* parse_key_value: a value that cannot be parsed leaves the setting as it was,
\* a key in a section it does not belong to is passed over.  host is whether
\* inet_pton accepts the address.
parse_key_value(cfg, l) ==
    CASE l.key = "enabled" /\ l.section \in {"", "live_transport"} /\ l.valid ->
            [cfg EXCEPT !.enabled = (l.value = 1)]
      [] l.key = "host" /\ l.section \in {"", "live_transport"} ->
            [cfg EXCEPT !.host = l.valid]
      [] l.key = "heartbeat_interval_ticks" /\ l.section \in {"bridge", "live_transport"}
            /\ l.valid ->
            [cfg EXCEPT !.heartbeat = l.value]
      [] OTHER -> cfg

fltcfg_load_file(lines) == FoldLeft(parse_key_value, Defaults, lines)

\* The first file that exists is the configuration, whole.
fltcfg_load_default(d) ==
    LET there == {k \in DOMAIN Candidates : Candidates[k] \in DOMAIN d}
    IN  IF there = {} THEN Defaults
        ELSE fltcfg_load_file(d[Candidates[CHOOSE k \in there : \A j \in there : k <= j]])

\* parse_u32_value gives the interval.
ASSUME HeartbeatAssumption == \A d \in Disks : fltcfg_load_default(d).heartbeat \in Nat

-----------------------------------------------------------------------------
(***************************************************************************)
(* The client.  An operation maps a process to the set of results it may   *)
(* have: the process after it, the datagrams sent and whether it returned  *)
(* true.  hello_pending is ~connected while a connection is open.          *)
(***************************************************************************)

NoProxies == [i \in Ids |-> 0]

\* A zeroed process.  proxies[i] is the connection on which the proxy of player
\* i was spawned, 0 when there is none; opens counts the sockets.
NewProcess(n) ==
    [bridge |-> FALSE, loaded |-> FALSE, started |-> FALSE, conn |-> 0,
     connected |-> FALSE, id |-> 0, since |-> 0, joined |-> FALSE, tick |-> 0,
     heartbeat |-> 0, rpm |-> 0, lpo |-> 0, proxies |-> NoProxies, opens |-> n]

\* reset_state: the statics of the other files stay as they are.
reset_state(c) ==
    [NewProcess(c.opens) EXCEPT !.bridge = c.bridge, !.rpm = c.rpm, !.lpo = c.lpo,
                                !.proxies = c.proxies]

Result(c, out, ok) == [client |-> c, sent |-> out, ok |-> ok]

Done(c) == {Result(c, {}, TRUE)}

\* One operation after the other.
Then(R, f(_)) ==
    UNION {{Result(s.client, r.sent \cup s.sent, s.ok) : s \in f(r.client)} : r \in R}

Datagram(c, k, i) == [conn |-> c.conn, kind |-> k, id |-> i]

\* Mutant: the configuration is set before mlcb_open, which sets the defaults.
mlcb_open_last(c, cfg) ==
    LET o == [c EXCEPT !.started = TRUE, !.opens = @ + 1, !.conn = c.opens + 1,
                       !.heartbeat = DefaultHeartbeat]
    IN  {Result(o, {Datagram(o, "hello", 0)}, TRUE)}

\* mlcb_open with a good address, and mlcb_set_config after it: a new socket, the
\* first HELLO.
mlcb_open(c, cfg) ==
    LET o == [c EXCEPT !.started = TRUE, !.opens = @ + 1, !.conn = c.opens + 1,
                       !.heartbeat = cfg.heartbeat]
    IN  {Result(o, {Datagram(o, "hello", 0)}, TRUE)}

\* fltdev_init; after a failure everything is tried again by the next call.
fltdev_init(c) ==
    LET cfg == fltcfg_load_default(disk)
        r   == [reset_state(c) EXCEPT !.loaded = TRUE]
    IN  IF c.started \/ c.loaded THEN Done(c)
        ELSE IF ~cfg.enabled THEN Done(r)
        ELSE IF ~cfg.host THEN {Result(reset_state(c), {}, FALSE)}
        ELSE mlcb_open(r, cfg)

\* Mutant: the proxies of the last connection survive.
ebstub_init_keeps(c) == fltdev_init([c EXCEPT !.rpm = 0, !.bridge = TRUE])

\* f4mp_bridge_init_once calls ebstub_init: no proxies, no local player.
ebstub_init(c) == fltdev_init([c EXCEPT !.proxies = NoProxies, !.rpm = 0, !.bridge = TRUE])

f4mp_bridge_init_once(c) == IF c.bridge THEN Done(c) ELSE ebstub_init(c)

\* Mutant: the polls are counted, and HELLO is sent once.
ptc_maybe_retry_hello_once(c) ==
    Done(IF c.connected \/ c.since < RetryPolls THEN c ELSE [c EXCEPT !.since = 0])

ptc_maybe_retry_hello(c) ==
    IF c.connected \/ c.since < RetryPolls THEN Done(c)
    ELSE {Result([c EXCEPT !.since = 0], {Datagram(c, "hello", 0)}, TRUE)}

\* rpm_apply_remote_player_state: of the local player and of nobody is ignored.
rpm_apply_remote_player_state(c, i) ==
    IF i \in {0, c.rpm} THEN c
    ELSE [c EXCEPT !.proxies[i] = IF @ = 0 THEN c.conn ELSE @]

rpm_remove_remote_player(c, i) == IF i = c.rpm THEN c ELSE [c EXCEPT !.proxies[i] = 0]

Nothing == [kind |-> "nothing", id |-> 0]

\* What plugin_apply_packet refuses (an update of an object the client does not
\* know) is ignored before WELCOME and an error after it.
Refuse(c) == IF c.connected THEN {Result(c, {}, FALSE)} ELSE ptc_maybe_retry_hello(c)

\* ptc_poll_once takes at most one datagram.  since is the number of polls since
\* the last HELLO, as long as there is no WELCOME.
ptc_poll_once(d, m) ==
    LET c == IF d.connected THEN d ELSE [d EXCEPT !.since = @ + 1]
    IN  CASE m.kind = "welcome" -> Done([c EXCEPT !.connected = TRUE, !.id = m.id, !.since = 0])
          [] m.kind = "state"   -> ptc_maybe_retry_hello(rpm_apply_remote_player_state(c, m.id))
          [] m.kind = "left"    -> ptc_maybe_retry_hello(rpm_remove_remote_player(c, m.id))
          [] m.kind = "refused" -> Refuse(c)
          [] OTHER              -> ptc_maybe_retry_hello(c)

\* Mutant: the remote player filter is not told who is local.
Joined_halfway(c) ==
    IF c.connected /\ ~c.joined THEN [c EXCEPT !.joined = TRUE, !.lpo = c.id] ELSE c

\* The first tick after WELCOME: lpo_init and rpm_init.
Joined(c) ==
    IF c.connected /\ ~c.joined
    THEN [c EXCEPT !.joined = TRUE, !.lpo = c.id, !.rpm = c.id] ELSE c

\* tick_counter, kept modulo the heartbeat interval.
Counted(c) ==
    IF c.heartbeat = 0 THEN c ELSE [c EXCEPT !.tick = (@ + 1) % c.heartbeat]

\* A ping when the interval is over, and a state when
\* msb_build_player_state_if_changed has one.
Spoken(c) ==
    LET ping == IF c.joined /\ c.heartbeat > 0 /\ c.tick = 0
                THEN {Datagram(c, "ping", 0)} ELSE {}
    IN  {Result(c, ping \cup s, TRUE) :
            s \in {{}} \cup (IF c.joined THEN {{Datagram(c, "state", c.lpo)}} ELSE {})}

mlcb_tick(d, m) ==
    LET polled == ptc_poll_once(d, m)
        Rest(c) == Spoken(Counted(Joined(c)))
    IN  {r \in polled : ~r.ok} \cup Then({r \in polled : r.ok}, Rest)

\* fltdev_tick.
fltdev_tick(d, m) ==
    LET Run(c)  == IF c.started THEN mlcb_tick(c, m) ELSE Done(c)
        inited  == IF d.loaded THEN Done(d) ELSE fltdev_init(d)
    IN  {r \in inited : ~r.ok} \cup Then({r \in inited : r.ok}, Run)

\* mlcb_close of an open connection, and reset_state: a goodbye and one last poll
\* when there was a WELCOME.
fltdev_shutdown(c, m) ==
    IF c.started /\ c.connected
    THEN {Result(reset_state(r.client), {Datagram(c, "bye", 0)}, TRUE) : r \in ptc_poll_once(c, m)}
    ELSE Done(reset_state(c))

-----------------------------------------------------------------------------
(***************************************************************************)
(* The network                                                             *)
(***************************************************************************)

Prompt == link = "prompt"

\* What is left of a network when m has been taken from it.
Taken(net, m) == {net \ {m}} \cup (IF Prompt THEN {} ELSE {net})

\* What the next poll of the client may find.  On a prompt link it finds nothing
\* only when there is nothing.
Inbox == toClient \cup (IF Prompt /\ toClient # {} THEN {} ELSE {Nothing})

\* A network that is full loses what it had.
Added(net, msgs) == IF Cardinality(net \cup msgs) <= MaxInFlight THEN net \cup msgs ELSE msgs

\* Datagrams to a service that does not run are lost.
SentToService(net, msgs) ==
    IF ~up THEN {} ELSE IF Prompt THEN net \cup msgs ELSE Added(net, msgs)

\* A client step with one of the results R, which took m from its socket.
ClientStep(R, m) ==
    /\ Prompt => toService = {}
    /\ \E r \in R :
          /\ r.client.opens <= MaxOpens
          /\ client' = r.client
          /\ toService' = SentToService(toService, r.sent)
          /\ IF r.client.conn = client.conn /\ client.conn # 0
             THEN toClient' \in Taken(toClient, m) ELSE toClient' = {}
    /\ UNCHANGED <<link, disk, service, refused>>

-----------------------------------------------------------------------------
(***************************************************************************)
(* Entry points of the plugin                                              *)
(***************************************************************************)

\* F4MP_LiveTick; a poll of a socket just opened finds nothing.
LiveTickOn(m) ==
    LET Tick(c) == fltdev_tick(c, IF c.conn = client.conn THEN m ELSE Nothing)
    IN  /\ ClientStep(Then(f4mp_bridge_init_once(client), Tick), m)
        /\ chat' = 0
        /\ UNCHANGED reopened

LiveTick == \E m \in Inbox : LiveTickOn(m)

\* clf4_player_hook_callback_stub_emit ticks as well, without init_once: before
\* F4MP_Shutdown this is LiveTick, after it the connection is opened again.
EmissionTick ==
    \E m \in Inbox :
        /\ ~client.bridge
        /\ ClientStep(fltdev_tick(client, m), m)
        /\ chat' = 0
        /\ reopened' = (reopened \/ (client'.conn # client.conn))

\* F4MP_LiveEnabled, F4MP_LiveConnected and F4MP_LiveConfigPath start what is
\* not started.
LiveQuery ==
    LET Query(c) == IF c.loaded THEN Done(c) ELSE fltdev_init(c)
    IN  /\ ~client.loaded \/ ~client.bridge
        /\ ClientStep(Then(f4mp_bridge_init_once(client), Query), Nothing)
        /\ UNCHANGED <<reopened, chat>>

\* F4MP_Shutdown, and DllMain when the process ends in an orderly way.
Shutdown ==
    \E m \in Inbox :
        /\ client.bridge
        /\ ClientStep(fltdev_shutdown([client EXCEPT !.bridge = FALSE], m), m)
        /\ UNCHANGED <<reopened, chat>>

\* The game crashes and is started again.
ClientCrash ==
    /\ client.opens < MaxOpens
    /\ client' = NewProcess(client.opens)
    /\ reopened' = FALSE
    /\ toClient' = {}
    /\ UNCHANGED <<link, disk, service, chat, refused, toService>>

-----------------------------------------------------------------------------
(***************************************************************************)
(* The service                                                             *)
(***************************************************************************)

Message(k, i) == [kind |-> k, id |-> i]

\* What is sent to connection r arrives if that is the client's socket.
SentToClient(r, msgs) ==
    toClient' = IF r = 0 \/ r # client.conn \/ msgs = {} THEN toClient
                ELSE IF Prompt THEN toClient \cup msgs ELSE Added(toClient, msgs)

\* Whom the tick may find expired.  On a lossy link others may have sent any
\* number of messages, and silent is not counted.
MayExpire ==
    IF route = 0 \/ TimeoutTicks = 0 THEN {{}}
    ELSE IF ~Prompt THEN {{}, {home[Me]}}
    ELSE IF silent + 1 > TimeoutTicks THEN {{home[Me]}} ELSE {{}}

Counting == Prompt /\ TimeoutTicks > 0

\* last_heard_tick is set, and the tick of this iteration counted.
HeardMe == silent' = IF Counting THEN 1 ELSE 0

\* MSG_HELLO of Me: WELCOME, and the state of the other player.
HandleHello(m) ==
    /\ m.kind = "hello"
    /\ \/ \E i \in Ids : Enter(Me, i, {}) /\ home' = [home EXCEPT ![Me] = i]
       \/ Return(Me, {})
    /\ route' = m.conn
    /\ HeardMe
    /\ SentToClient(m.conn, {Message("welcome", home'[Me])}
          \cup {Message("state", i) : i \in {i \in Ids : seat'[i] = Peer}})

\* MSG_PING.  The client only counts the MSG_PONG it is answered with.
HandlePing(m) ==
    /\ m.kind = "ping" /\ m.conn = route
    /\ HeardMe
    /\ UNCHANGED <<seat, home, route, toClient>>

\* MSG_PLAYER_STATE with the id of the sender: relayed to everybody, the sender
\* included, or refused by the relay filter.
HandleState(m) ==
    /\ m.kind = "state" /\ m.conn = route /\ m.id = home[Me]
    /\ HeardMe
    /\ \E out \in {{}, {Message("state", m.id)}} : SentToClient(route, out)
    /\ UNCHANGED <<seat, home, route>>

\* MSG_DISCONNECT.
HandleBye(m) ==
    /\ m.kind = "bye" /\ m.conn = route
    /\ Depart({home[Me]})
    /\ route' = 0 /\ silent' = 0
    /\ SentToClient(route, {Message("left", home[Me])})

\* A connection nobody plays on, or somebody else's id: no answer, no tick.
HandleUnknown(m) ==
    /\ m.kind # "hello"
    /\ m.conn # route \/ (m.kind = "state" /\ m.id # home[Me])
    /\ UNCHANGED <<seat, home, route, silent, toClient>>

ServiceHandles(m) ==
    /\ up
    /\ toService' \in Taken(toService, m)
    /\ \/ HandleHello(m) \/ HandlePing(m) \/ HandleState(m) \/ HandleBye(m)
       \/ HandleUnknown(m)
    /\ UNCHANGED <<link, disk, client, reopened, up, crashes, chat, refused>>

\* A message of Peer whose tick finds the players gone expired; out is what is
\* broadcast by it.
PeerStep(gone, out) ==
    /\ up
    /\ Prompt /\ client.started => chat < Chatter /\ Cardinality(toClient) < MaxInFlight
    /\ chat' = IF Prompt /\ client.started THEN chat + 1 ELSE chat
    /\ SentToClient(IF route # 0 /\ seat'[home[Me]] = Peer THEN 0 ELSE route,
                    out \cup {Message("left", i) : i \in gone})
    /\ route' = IF route # 0 /\ seat'[home[Me]] = Me THEN route ELSE 0
    /\ silent' = IF route' # 0 /\ Counting THEN silent + 1 ELSE 0
    /\ UNCHANGED <<link, disk, client, reopened, up, crashes, toService>>

PeerSeats == {i \in Ids : seat[i] = Peer}

\* MSG_HELLO of Peer.  When its home is the seat of Me, Me loses the seat.
PeerHello ==
    /\ PeerSeats = {}
    /\ \E gone \in MayExpire :
          /\ \/ \E i \in Ids : Enter(Peer, i, gone) /\ home' = [home EXCEPT ![Peer] = i]
             \/ Return(Peer, gone \ {home[Peer]})
          /\ PeerStep(gone, {})
    /\ UNCHANGED refused

\* MSG_PLAYER_STATE of Peer, MSG_PING, MSG_DISCONNECT.
PeerTalks ==
    /\ PeerSeats # {}
    /\ \E gone \in MayExpire :
          \/ Depart(gone) /\ PeerStep(gone, {Message("state", i) : i \in PeerSeats})
          \/ Depart(gone) /\ PeerStep(gone, {})
          \/ Depart(gone \cup PeerSeats)
             /\ PeerStep(gone, {Message("left", i) : i \in PeerSeats})
    /\ UNCHANGED refused

\* News of the world that this client cannot apply, such as MSG_OBJECT_UPDATE of
\* an object that was out of its sight when it joined.
PeerNews ==
    /\ PeerSeats # {}
    /\ refused + crashes < MaxFaults[link]
    /\ refused' = refused + 1
    /\ \E gone \in MayExpire : Depart(gone) /\ PeerStep(gone, {Message("refused", 0)})

ServiceStarts ==
    /\ ~up
    /\ up' = TRUE
    /\ UNCHANGED <<link, disk, client, reopened, seat, home, crashes, route, silent,
                   chat, refused, toService, toClient>>

\* Registry and slots are not persisted.
ServiceCrash ==
    /\ up
    /\ refused + crashes < MaxFaults[link]
    /\ crashes' = crashes + 1
    /\ up' = FALSE
    /\ seat' = [i \in Ids |-> Nobody]
    /\ home' = [g \in Guids |-> 0]
    /\ route' = 0 /\ silent' = 0
    /\ toService' = {}
    /\ UNCHANGED <<link, disk, client, reopened, chat, refused, toClient>>

Lose ==
    /\ ~Prompt
    /\ \/ \E m \in toService : toService' = toService \ {m} /\ UNCHANGED toClient
       \/ \E m \in toClient : toClient' = toClient \ {m} /\ UNCHANGED toService
    /\ UNCHANGED <<link, disk, client, reopened, service, chat, refused>>

-----------------------------------------------------------------------------

Init ==
    /\ MInit
    /\ link \in Links
    /\ disk \in Disks
    /\ client = NewProcess(0)
    /\ reopened = FALSE
    /\ up = FALSE
    /\ crashes = 0
    /\ route = 0 /\ silent = 0
    /\ chat = 0 /\ refused = 0
    /\ toService = {} /\ toClient = {}

Next ==
    \/ LiveTick
    \/ EmissionTick
    \/ LiveQuery
    \/ Shutdown
    \/ ClientCrash
    \/ \E m \in toService : ServiceHandles(m)
    \/ PeerHello
    \/ PeerTalks
    \/ PeerNews
    \/ ServiceStarts
    \/ ServiceCrash
    \/ Lose

Spec == Init /\ [][Next]_vars

\* The handshake is going on.
Waiting == client.started /\ ~client.connected

IsHello(m) == m.kind = "hello" /\ m.conn = client.conn

\* The game calls F4MP_LiveTick on every frame, somebody starts the service, and
\* a network does not lose every HELLO nor every WELCOME.  Nothing is asked of
\* them once the handshake is over.
FairSpec ==
    /\ Spec
    /\ WF_vars(Waiting /\ LiveTick)
    /\ WF_vars(ServiceStarts)
    /\ SF_vars(\E m \in toService : Waiting /\ IsHello(m) /\ ServiceHandles(m))
    /\ SF_vars(\E m \in toClient : Waiting /\ m.kind = "welcome" /\ LiveTickOn(m))

-----------------------------------------------------------------------------
(***************************************************************************)
(* Correctness                                                             *)
(***************************************************************************)

\* "latch local player id": as long as the service does not crash, the id the
\* client plays as, the id it stamps on its states and the id its filter takes
\* for its own are the id the service keeps for its GUID, whatever was lost,
\* repeated or delayed, and however often it closed and opened the connection.
IdentityAgrees ==
    client.joined /\ crashes = 0 =>
        /\ client.id = home[Me]
        /\ client.lpo = home[Me]
        /\ ~reopened => client.rpm = home[Me]

\* Every proxy was spawned on the connection that is open: nothing of an earlier
\* session, whose players may be gone, stays on the screen.  And none is of the
\* client itself, although the service sends every state back to its sender.
\* Only a connection opened behind the back of init_once escapes this.
ProxiesAreCurrent ==
    client.started /\ ~reopened =>
        /\ \A i \in Ids : client.proxies[i] \in {0, client.conn}
        /\ client.joined /\ crashes = 0 => client.proxies[home[Me]] = 0

\* How long the service may wait for a sign of life on a prompt link: the polls
\* until a WELCOME that other datagrams overtake is found or HELLO is sent again,
\* the rest of a heartbeat interval, and one more client tick for every datagram
\* that the client cannot apply, all the time others are talking.
LongestSilence(cfg) == 1 + (RetryPolls + cfg.heartbeat + MaxFaults.prompt) * Chatter

\* With heartbeats, and a timeout that is long enough, a client that keeps
\* ticking is not timed out.  It loses its seat by its own goodbye, by a crash
\* of the service, or to the GUID that had the seat before.
KeepsSeat ==
    [][LET cfg == fltcfg_load_default(disk)
       IN  /\ Prompt /\ cfg.heartbeat > 0 /\ TimeoutTicks >= LongestSilence(cfg)
           /\ client.started /\ route = client.conn
           => \/ route' = route
              \/ client' # client \/ up' # up
              \/ seat'[home[Me]] = Peer]_vars

\* "resilient to a lost first HELLO or a service that starts after the client has
\* already opened": an open connection gets its WELCOME, or is closed.
JoinIsResilient == client.started ~> (client.connected \/ ~client.started)

=============================================================================
