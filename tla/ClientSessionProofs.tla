------------------------ MODULE ClientSessionProofs ------------------------
(***************************************************************************)
(* Theorems about the client and its connections, for any player ids,      *)
(* configuration files, intervals and bounds, on either kind of network.   *)
(*                                                                         *)
(* The invariant says what may be in flight.  A connection number is used  *)
(* once and a socket hears only what was sent to it, so whatever the       *)
(* client receives was sent after the HELLO of its present connection: a   *)
(* WELCOME carries the home of Me, and a state of that id is the client's  *)
(* own on its way back, which only a client that has joined can cause.     *)
(*                                                                         *)
(* A second invariant, on top of the first, keeps an account of the ticks  *)
(* between two signs of life; KeepsSeat follows from it.                   *)
(***************************************************************************)
EXTENDS ClientSession, Integers, TLAPS

-----------------------------------------------------------------------------
(***************************************************************************)
(* The inductive invariant                                                 *)
(***************************************************************************)

Fields == {"bridge", "loaded", "started", "conn", "connected", "id", "since", "joined",
           "tick", "heartbeat", "rpm", "lpo", "proxies", "opens"}

\* What of a process the invariant speaks of.
Typed(c) ==
    /\ DOMAIN c = Fields
    /\ c.conn \in Nat /\ c.opens \in Nat
    /\ c.proxies \in [Ids -> Nat]

\* Only a started client has a connection, and init_once leaves no proxies to a
\* client that is not started yet.
Sound(c) ==
    /\ c.started => c.loaded /\ c.conn \in 1 .. c.opens
    /\ ~c.started => c.conn = 0 /\ ~c.connected /\ ~c.joined
    /\ c.joined => c.connected
    /\ c.bridge /\ ~c.started => c.proxies = NoProxies

\* b: whether a connection was opened behind the back of init_once.
Current(c, b) ==
    /\ c.started /\ ~c.bridge => b
    /\ c.started /\ ~b => \A i \in Ids : c.proxies[i] \in {0, c.conn}

\* As long as the service has not crashed, what the client remembers comes from
\* the home of Me.
AtHome(c, b) ==
    crashes = 0 =>
        /\ home[Me] = 0 => c.proxies = NoProxies /\ ~c.connected
        /\ c.connected => c.id = home[Me]
        /\ c.joined => c.lpo = home[Me] /\ (~b => c.rpm = home[Me])
        /\ c.started /\ ~b /\ home[Me] \in Ids => c.proxies[home[Me]] = 0

Fit(c, b) == Typed(c) /\ Sound(c) /\ Current(c, b) /\ AtHome(c, b)

\* A route is the seat of Me.
SeatInv ==
    /\ seat \in [Ids -> Guids \cup {Nobody}]
    /\ home \in [Guids -> Ids \cup {0}]
    /\ route \in Nat /\ route <= client.opens
    /\ route # 0 => home[Me] \in Ids /\ seat[home[Me]] = Me
    /\ crashes \in Nat

\* What may be on its way from a process: a state on its present connection
\* is of a client that has joined.
Speaks(c, out) ==
    \A m \in out :
        /\ m.conn \in 1 .. c.opens
        /\ m.kind = "state" /\ m.conn = c.conn => c.joined

\* What a process may find in its socket.
Arrives(c, m) ==
    /\ c.conn = 0 => m.kind = "nothing"
    /\ m.id \in Nat
    /\ crashes = 0 =>
          /\ home[Me] = 0 => m.kind = "nothing"
          /\ m.kind = "welcome" => m.id = home[Me]
          /\ m.kind = "state" /\ m.id = home[Me] => c.joined

\* Nothing is in flight to a closed connection, or before Me has a home.
NetInv ==
    /\ Speaks(client, toService)
    /\ \A m \in toClient : m.kind # "nothing" /\ Arrives(client, m)

IInv == Fit(client, reopened) /\ SeatInv /\ NetInv

-----------------------------------------------------------------------------
(***************************************************************************)
(* What an operation of the client may do                                  *)
(***************************************************************************)

\* From c to d the connection stays, is closed, or is a new one; a client that
\* has joined remains so for as long as the connection stays.
Moves(c, d) ==
    /\ c.opens <= d.opens
    /\ \/ d.conn = 0
       \/ d.conn > c.opens
       \/ d.conn = c.conn /\ (c.joined => d.joined)

\* A result of an operation on c.
Proper(c, b, r) == Fit(r.client, b) /\ Moves(c, r.client) /\ Speaks(r.client, r.sent)

LEMMA ResultFields ==
    ASSUME NEW c, NEW out, NEW ok
    PROVE  /\ Result(c, out, ok).client = c
           /\ Result(c, out, ok).sent = out
           /\ Result(c, out, ok).ok = ok
  BY DEF Result

\* A process and the operation that leaves it alone.
LEMMA DoneIsProper ==
    ASSUME NEW c, NEW b, Fit(c, b), NEW r \in Done(c)
    PROVE  Proper(c, b, r) /\ r.client = c
<1>1. r.client = c /\ r.sent = {}
  BY DEF Done, Result
<1>2. Moves(c, c)
  BY DEF Moves, Fit, Typed
<1>. QED  BY <1>1, <1>2 DEF Proper, Speaks

\* One operation after the other.
LEMMA ProperThen ==
    ASSUME NEW c, NEW b, NEW r, NEW s, Fit(c, b),
           Proper(c, b, r), Proper(r.client, b, s)
    PROVE  Proper(c, b, Result(s.client, r.sent \cup s.sent, s.ok))
<1> DEFINE d == r.client
           e == s.client
<1>1. /\ c.opens \in Nat /\ d.opens \in Nat /\ e.opens \in Nat
      /\ c.conn \in Nat /\ d.conn \in Nat /\ e.conn \in Nat
  BY DEF Proper, Fit, Typed
<1>2. Moves(c, d) /\ Moves(d, e) /\ Speaks(d, r.sent) /\ Speaks(e, s.sent)
  BY DEF Proper
<1>3. Moves(c, e)
  BY <1>1, <1>2 DEF Moves
<1>4. Speaks(e, r.sent \cup s.sent)
  <2> SUFFICES ASSUME NEW m \in r.sent
               PROVE  /\ m.conn \in 1 .. e.opens
                      /\ m.kind = "state" /\ m.conn = e.conn => e.joined
    BY <1>2 DEF Speaks
  <2>1. /\ m.conn \in 1 .. d.opens
        /\ m.kind = "state" /\ m.conn = d.conn => d.joined
    BY <1>2 DEF Speaks
  <2>. QED  BY <1>1, <1>2, <2>1 DEF Moves
<1>. QED  BY <1>3, <1>4, ResultFields DEF Proper

\* Opening a connection behind the back of init_once only asks for less, and
\* nothing is asked of a client without a connection.
LEMMA FitWeaker ==
    ASSUME NEW c, NEW b, Fit(c, b)
    PROVE  Fit(c, TRUE)
  BY DEF Fit, Current, AtHome

LEMMA FitClosed ==
    ASSUME NEW c, NEW b, Fit(c, TRUE), ~c.started
    PROVE  Fit(c, b)
  BY DEF Fit, Current, AtHome, Sound

-----------------------------------------------------------------------------
(***************************************************************************)
(* Polling                                                                 *)
(***************************************************************************)

\* What a poll leaves as it was.
Kept(c, d) ==
    /\ d.conn = c.conn /\ d.opens = c.opens
    /\ d.started = c.started /\ d.joined = c.joined /\ d.bridge = c.bridge

LEMMA KeptMoves ==
    ASSUME NEW c, NEW d, Typed(c), Kept(c, d)
    PROVE  Moves(c, d)
  BY DEF Moves, Kept, Typed

\* d differs from c in counters only.
Alike(c, d) ==
    /\ DOMAIN d = Fields
    /\ d.bridge = c.bridge /\ d.loaded = c.loaded /\ d.started = c.started
    /\ d.conn = c.conn /\ d.opens = c.opens /\ d.connected = c.connected
    /\ d.id = c.id /\ d.joined = c.joined /\ d.rpm = c.rpm /\ d.lpo = c.lpo
    /\ d.proxies = c.proxies

LEMMA FitAlike ==
    ASSUME NEW c, NEW d, NEW b, Fit(c, b), Alike(c, d)
    PROVE  Fit(d, b) /\ Kept(c, d) /\ Moves(c, d)
<1>1. Fit(d, b)
  BY DEF Alike, Fit, Typed, Sound, Current, AtHome
<1>2. Kept(c, d)
  BY DEF Alike, Kept
<1>. QED  BY <1>1, <1>2, KeptMoves DEF Fit

LEMMA RetryIsProper ==
    ASSUME NEW c, NEW b, Fit(c, b), c.started, NEW r \in ptc_maybe_retry_hello(c)
    PROVE  Proper(c, b, r) /\ Kept(c, r.client) /\ r.ok = TRUE
<1>1. CASE c.connected \/ c.since < RetryPolls
  <2>1. r \in Done(c)
    BY <1>1 DEF ptc_maybe_retry_hello
  <2>2. r.ok = TRUE
    BY <2>1 DEF Done, Result
  <2>. QED  BY <2>1, <2>2, DoneIsProper DEF Kept
<1>2. CASE ~(c.connected \/ c.since < RetryPolls)
  <2> DEFINE d == [c EXCEPT !.since = 0]
             h == Datagram(c, "hello", 0)
  <2>1. r = Result(d, {h}, TRUE)
    BY <1>2 DEF ptc_maybe_retry_hello
  <2>2. r.client = d /\ r.sent = {h} /\ r.ok = TRUE
    BY <2>1 DEF Result
  <2>3. Alike(c, d)
    BY DEF Alike, Fit, Typed, Fields
  <2> HIDE DEF d
  <2>4. Fit(d, b) /\ Kept(c, d) /\ Moves(c, d)
    BY <2>3, FitAlike
  <2>6. Speaks(d, {h})
    BY <2>3 DEF Alike, Speaks, Datagram, Fit, Sound
  <2>. QED  BY <2>2, <2>4, <2>6 DEF Proper
<1>. QED  BY <1>1, <1>2

\* rpm_apply_remote_player_state spawns on the present connection, and never the
\* local player: a state of the home of Me only comes to a client that knows it.
LEMMA StateFits ==
    ASSUME NEW c, NEW b, NEW m, Fit(c, b), c.started, Arrives(c, m), m.kind = "state"
    PROVE  LET d == rpm_apply_remote_player_state(c, m.id)
           IN  Fit(d, b) /\ Kept(c, d)
<1> DEFINE d == rpm_apply_remote_player_state(c, m.id)
<1> SUFFICES Fit(d, b) /\ Kept(c, d)
  OBVIOUS
<1>1. CASE m.id \in {0, c.rpm}
  <2>1. d = c
    BY <1>1 DEF rpm_apply_remote_player_state
  <2>. QED  BY <2>1 DEF Kept
<1>2. CASE m.id \notin {0, c.rpm}
  <2> DEFINE p == IF c.proxies[m.id] = 0 THEN c.conn ELSE c.proxies[m.id]
             q == [c.proxies EXCEPT ![m.id] = p]
  <2>1. d = [c EXCEPT !.proxies = q]
    BY <1>2 DEF rpm_apply_remote_player_state
  <2>2. /\ DOMAIN d = Fields
        /\ d.bridge = c.bridge /\ d.loaded = c.loaded /\ d.started = c.started
        /\ d.conn = c.conn /\ d.opens = c.opens /\ d.connected = c.connected
        /\ d.id = c.id /\ d.joined = c.joined /\ d.rpm = c.rpm /\ d.lpo = c.lpo
        /\ d.proxies = q
    BY <2>1 DEF Fit, Typed, Fields
  <2>3. /\ q \in [Ids -> Nat]
        /\ \A i \in Ids : q[i] \in {c.proxies[i], c.conn}
        /\ \A i \in Ids : i # m.id => q[i] = c.proxies[i]
    BY DEF Fit, Typed
  <2>4. crashes = 0 => home[Me] # 0
    BY DEF Arrives
  <2>5. crashes = 0 /\ ~b => m.id # home[Me]
    BY <1>2 DEF Arrives, Fit, AtHome
  <2>6. \A i \in Ids : c.proxies[i] \in {0, c.conn} => q[i] \in {0, c.conn}
    BY <2>3
  <2> HIDE DEF d, q
  <2>7. Typed(d) /\ Sound(d)
    BY <2>2, <2>3 DEF Fit, Typed, Sound
  <2>8. Current(d, b)
    BY <2>2, <2>6 DEF Fit, Current
  <2>9. AtHome(d, b)
    BY <2>2, <2>3, <2>4, <2>5, SMT DEF Fit, AtHome, Typed
  <2>. QED  BY <2>2, <2>7, <2>8, <2>9 DEF Fit, Kept
<1>. QED  BY <1>1, <1>2

\* rpm_remove_remote_player.
LEMMA LeftFits ==
    ASSUME NEW c, NEW b, NEW m, Fit(c, b), c.started
    PROVE  LET d == rpm_remove_remote_player(c, m.id)
           IN  Fit(d, b) /\ Kept(c, d)
<1> DEFINE d == rpm_remove_remote_player(c, m.id)
<1> SUFFICES Fit(d, b) /\ Kept(c, d)
  OBVIOUS
<1>1. CASE m.id = c.rpm
  <2>1. d = c
    BY <1>1 DEF rpm_remove_remote_player
  <2>. QED  BY <2>1 DEF Kept
<1>2. CASE m.id # c.rpm
  <2> DEFINE q == [c.proxies EXCEPT ![m.id] = 0]
  <2>1. d = [c EXCEPT !.proxies = q]
    BY <1>2 DEF rpm_remove_remote_player
  <2>2. /\ DOMAIN d = Fields
        /\ d.bridge = c.bridge /\ d.loaded = c.loaded /\ d.started = c.started
        /\ d.conn = c.conn /\ d.opens = c.opens /\ d.connected = c.connected
        /\ d.id = c.id /\ d.joined = c.joined /\ d.rpm = c.rpm /\ d.lpo = c.lpo
        /\ d.proxies = q
    BY <2>1 DEF Fit, Typed, Fields
  <2>3. /\ q \in [Ids -> Nat]
        /\ \A i \in Ids : q[i] \in {c.proxies[i], 0}
    BY DEF Fit, Typed
  <2>4. c.proxies = NoProxies => q = NoProxies
    BY DEF NoProxies
  <2> HIDE DEF d, q
  <2>5. Typed(d) /\ Sound(d)
    BY <2>2, <2>3, <2>4 DEF Fit, Typed, Sound
  <2>6. Current(d, b)
    BY <2>2, <2>3 DEF Fit, Current
  <2>7. AtHome(d, b)
    BY <2>2, <2>3, <2>4 DEF Fit, AtHome, Typed
  <2>. QED  BY <2>2, <2>5, <2>6, <2>7 DEF Fit, Kept
<1>. QED  BY <1>1, <1>2

\* The poll counter runs first.
LEMMA CountedPoll ==
    ASSUME NEW c, NEW b, Fit(c, b)
    PROVE  LET d == IF c.connected THEN c ELSE [c EXCEPT !.since = @ + 1]
           IN  Alike(c, d)
  BY DEF Alike, Fit, Typed, Fields

\* A poll, whatever it finds.
LEMMA PollIsProper ==
    ASSUME NEW c, NEW b, NEW m, Fit(c, b), c.started, Arrives(c, m),
           NEW r \in ptc_poll_once(c, m)
    PROVE  Proper(c, b, r) /\ Kept(c, r.client)
<1> DEFINE d == IF c.connected THEN c ELSE [c EXCEPT !.since = @ + 1]
<1>1. Alike(c, d)
  BY CountedPoll
<1>2. /\ r \in CASE m.kind = "welcome" ->
                        Done([d EXCEPT !.connected = TRUE, !.id = m.id, !.since = 0])
               [] m.kind = "state"   -> ptc_maybe_retry_hello(rpm_apply_remote_player_state(d, m.id))
               [] m.kind = "left"    -> ptc_maybe_retry_hello(rpm_remove_remote_player(d, m.id))
               [] m.kind = "refused" -> Refuse(d)
               [] OTHER              -> ptc_maybe_retry_hello(d)
  BY DEF ptc_poll_once
<1> HIDE DEF d
<1>3. Fit(d, b) /\ Kept(c, d) /\ d.started /\ Arrives(d, m)
  BY <1>1, FitAlike DEF Kept, Arrives
<1>4. ASSUME NEW e, Fit(e, b), Kept(d, e), NEW s \in ptc_maybe_retry_hello(e)
      PROVE  Proper(c, b, s) /\ Kept(c, s.client)
  <2>1. e.started
    BY <1>3, <1>4 DEF Kept
  <2>2. Proper(e, b, s) /\ Kept(e, s.client)
    BY <1>4, <2>1, RetryIsProper
  <2>3. Kept(c, s.client)
    BY <1>3, <1>4, <2>2 DEF Kept
  <2>. QED  BY <2>2, <2>3, KeptMoves DEF Proper, Fit
<1>5. CASE m.kind = "welcome"
  <2> DEFINE e == [d EXCEPT !.connected = TRUE, !.id = m.id, !.since = 0]
  <2>1. r \in Done(e)
    BY <1>2, <1>5
  <2>2. /\ DOMAIN e = Fields
        /\ e.bridge = d.bridge /\ e.loaded = d.loaded /\ e.started = d.started
        /\ e.conn = d.conn /\ e.opens = d.opens /\ e.connected = TRUE
        /\ e.id = m.id /\ e.joined = d.joined /\ e.rpm = d.rpm /\ e.lpo = d.lpo
        /\ e.proxies = d.proxies
    BY <1>3 DEF Fit, Typed, Fields
  <2> HIDE DEF e
  <2>3. Typed(e) /\ Sound(e) /\ Current(e, b)
    BY <1>3, <2>2 DEF Fit, Typed, Sound, Current
  <2>4. AtHome(e, b)
    BY <1>3, <1>5, <2>2 DEF Fit, AtHome, Arrives
  <2>5. Fit(e, b)
    BY <2>3, <2>4 DEF Fit
  <2>6. Kept(c, e)
    BY <1>3, <2>2 DEF Kept
  <2>7. Proper(e, b, r) /\ r.client = e
    BY <2>1, <2>5, DoneIsProper
  <2>. QED  BY <2>6, <2>7, KeptMoves DEF Proper, Fit
<1>6. CASE m.kind = "state"
  <2> DEFINE e == rpm_apply_remote_player_state(d, m.id)
  <2>1. Fit(e, b) /\ Kept(d, e)
    BY <1>3, <1>6, StateFits
  <2>2. r \in ptc_maybe_retry_hello(e)
    BY <1>2, <1>6
  <2>. QED  BY <1>4, <2>1, <2>2
<1>7. CASE m.kind = "left"
  <2> DEFINE e == rpm_remove_remote_player(d, m.id)
  <2>1. Fit(e, b) /\ Kept(d, e)
    BY <1>3, LeftFits
  <2>2. r \in ptc_maybe_retry_hello(e)
    BY <1>2, <1>7
  <2>. QED  BY <1>4, <2>1, <2>2
<1>8. Kept(d, d)
  BY DEF Kept
<1>9. CASE m.kind = "refused"
  <2>1. r \in Refuse(d)
    BY <1>2, <1>9
  <2>2. CASE d.connected
    <3>1. r.client = d /\ r.sent = {}
      BY <2>1, <2>2 DEF Refuse, Result
    <3>. QED  BY <1>3, <3>1, KeptMoves DEF Proper, Fit, Speaks
  <2>3. CASE ~d.connected
    <3>1. r \in ptc_maybe_retry_hello(d)
      BY <2>1, <2>3 DEF Refuse
    <3>. QED  BY <1>3, <1>4, <1>8, <3>1
  <2>. QED  BY <2>2, <2>3
<1>10. CASE m.kind \notin {"welcome", "state", "left", "refused"}
  <2>1. r \in ptc_maybe_retry_hello(d)
    BY <1>2, <1>10
  <2>. QED  BY <1>3, <1>4, <1>8, <2>1
<1>. QED  BY <1>5, <1>6, <1>7, <1>9, <1>10

-----------------------------------------------------------------------------
(***************************************************************************)
(* The tick                                                                *)
(***************************************************************************)

\* The first tick after WELCOME latches the id in the observer and in the filter.
LEMMA JoinedFits ==
    ASSUME NEW c, NEW b, Fit(c, b)
    PROVE  LET d == Joined(c)
           IN  /\ Fit(d, b) /\ Moves(c, d) /\ d.conn = c.conn /\ d.opens = c.opens
               /\ d.started = c.started
<1> DEFINE d == Joined(c)
<1> SUFFICES /\ Fit(d, b) /\ Moves(c, d) /\ d.conn = c.conn /\ d.opens = c.opens
             /\ d.started = c.started
  OBVIOUS
<1>1. CASE c.connected /\ ~c.joined
  <2>1. d = [c EXCEPT !.joined = TRUE, !.lpo = c.id, !.rpm = c.id]
    BY <1>1 DEF Joined
  <2>2. /\ DOMAIN d = Fields
        /\ d.bridge = c.bridge /\ d.loaded = c.loaded /\ d.started = c.started
        /\ d.conn = c.conn /\ d.opens = c.opens /\ d.connected = c.connected
        /\ d.id = c.id /\ d.joined = TRUE /\ d.rpm = c.id /\ d.lpo = c.id
        /\ d.proxies = c.proxies
    BY <2>1 DEF Fit, Typed, Fields
  <2> HIDE DEF d
  <2>3. Typed(d) /\ Sound(d) /\ Current(d, b)
    BY <1>1, <2>2 DEF Fit, Typed, Sound, Current
  <2>4. AtHome(d, b)
    BY <1>1, <2>2 DEF Fit, AtHome
  <2>5. Moves(c, d)
    BY <2>2 DEF Moves, Fit, Typed
  <2>. QED  BY <2>2, <2>3, <2>4, <2>5 DEF Fit
<1>2. CASE ~(c.connected /\ ~c.joined)
  <2>1. d = c
    BY <1>2 DEF Joined
  <2>2. Moves(c, c)
    BY DEF Moves, Fit, Typed
  <2>. QED  BY <2>1, <2>2
<1>. QED  BY <1>1, <1>2

LEMMA CountedIsAlike ==
    ASSUME NEW c, NEW b, Fit(c, b)
    PROVE  Alike(c, Counted(c))
  BY DEF Alike, Counted, Fit, Typed, Fields

\* Only a client that has joined sends states.
LEMMA SpokenIsProper ==
    ASSUME NEW c, NEW b, Fit(c, b), c.started, NEW r \in Spoken(c)
    PROVE  Proper(c, b, r) /\ r.client = c
<1> DEFINE ping == IF c.joined /\ c.heartbeat > 0 /\ c.tick = 0
                   THEN {Datagram(c, "ping", 0)} ELSE {}
<1>1. PICK s \in {{}} \cup (IF c.joined THEN {{Datagram(c, "state", c.lpo)}} ELSE {}) :
        r = Result(c, ping \cup s, TRUE)
  BY DEF Spoken
<1>2. r.client = c /\ r.sent = ping \cup s
  BY <1>1 DEF Result
<1>3. c.conn \in 1 .. c.opens
  BY DEF Fit, Sound
<1>4. Speaks(c, ping)
  BY <1>3 DEF Speaks, Datagram
<1>5. Speaks(c, s)
  BY <1>1, <1>3 DEF Speaks, Datagram
<1>6. Moves(c, c)
  BY DEF Moves, Fit, Typed
<1> HIDE DEF ping
<1>. QED  BY <1>2, <1>4, <1>5, <1>6 DEF Proper, Speaks

\* What follows the poll.
LEMMA RestIsProper ==
    ASSUME NEW c, NEW b, Fit(c, b), c.started, NEW r \in Spoken(Counted(Joined(c)))
    PROVE  Proper(c, b, r)
<1> DEFINE d == Joined(c)
           e == Counted(d)
<1>1. Fit(d, b) /\ Moves(c, d) /\ d.started
  BY JoinedFits
<1>2. Alike(d, e)
  BY <1>1, CountedIsAlike
<1>3. Fit(e, b) /\ Kept(d, e)
  BY <1>1, <1>2, FitAlike
<1>4. Proper(e, b, r) /\ r.client = e
  BY <1>1, <1>3, SpokenIsProper DEF Kept
<1>5. Moves(c, e)
  BY <1>1, <1>3 DEF Moves, Kept
<1>. QED  BY <1>4, <1>5 DEF Proper

LEMMA BridgeTickIsProper ==
    ASSUME NEW c, NEW b, NEW m, Fit(c, b), c.started, Arrives(c, m),
           NEW r \in mlcb_tick(c, m)
    PROVE  Proper(c, b, r)
<1>1. CASE r \in ptc_poll_once(c, m)
  BY <1>1, PollIsProper
<1>2. CASE r \notin ptc_poll_once(c, m)
  <2>1. PICK p \in ptc_poll_once(c, m) :
          \E s \in Spoken(Counted(Joined(p.client))) :
             r = Result(s.client, p.sent \cup s.sent, s.ok)
    BY <1>2 DEF mlcb_tick, Then
  <2>2. PICK s \in Spoken(Counted(Joined(p.client))) :
          r = Result(s.client, p.sent \cup s.sent, s.ok)
    BY <2>1
  <2>3. Proper(c, b, p) /\ Kept(c, p.client)
    BY PollIsProper
  <2>4. Fit(p.client, b) /\ p.client.started
    BY <2>3 DEF Proper, Kept
  <2>5. Proper(p.client, b, s)
    BY <2>4, RestIsProper
  <2>. QED  BY <2>2, <2>3, <2>5, ProperThen
<1>. QED  BY <1>1, <1>2

-----------------------------------------------------------------------------
(***************************************************************************)
(* Opening and closing                                                     *)
(***************************************************************************)

LEMMA ResetFields ==
    ASSUME NEW c, NEW d, d = reset_state(c)
    PROVE  /\ DOMAIN d = Fields
           /\ d.bridge = c.bridge /\ d.loaded = FALSE /\ d.started = FALSE
           /\ d.conn = 0 /\ d.opens = c.opens /\ d.connected = FALSE
           /\ d.joined = FALSE /\ d.rpm = c.rpm /\ d.lpo = c.lpo
           /\ d.proxies = c.proxies
  BY DEF reset_state, NewProcess, Fields

\* reset_state, of a client whose proxies are gone or no longer looked after.
LEMMA ResetFits ==
    ASSUME NEW c, NEW b, Typed(c), AtHome(c, TRUE),
           c.bridge => c.proxies = NoProxies
    PROVE  Fit(reset_state(c), b) /\ Moves(c, reset_state(c))
<1> DEFINE d == reset_state(c)
<1>1. /\ DOMAIN d = Fields
      /\ d.bridge = c.bridge /\ d.loaded = FALSE /\ d.started = FALSE
      /\ d.conn = 0 /\ d.opens = c.opens /\ d.connected = FALSE
      /\ d.joined = FALSE /\ d.rpm = c.rpm /\ d.lpo = c.lpo
      /\ d.proxies = c.proxies
  BY ResetFields
<1> HIDE DEF d
<1>2. Typed(d) /\ Sound(d) /\ Current(d, b) /\ AtHome(d, b)
  BY <1>1 DEF Typed, Sound, Current, AtHome
<1>3. Moves(c, d)
  BY <1>1 DEF Moves, Typed
<1>. QED  BY <1>2, <1>3 DEF Fit, d

\* fltdev_init: the connection is new.
LEMMA InitIsProper ==
    ASSUME NEW c, NEW b, Fit(c, b), c.bridge \/ b, NEW r \in fltdev_init(c)
    PROVE  /\ Proper(c, b, r)
           /\ c.started => r.client = c
           /\ r.client.bridge = c.bridge
<1> DEFINE cfg == fltcfg_load_default(disk)
           n   == reset_state(c)
           q   == [n EXCEPT !.loaded = TRUE]
<1>1. CASE c.started \/ c.loaded
  <2>1. r \in Done(c)
    BY <1>1 DEF fltdev_init
  <2>. QED  BY <2>1, DoneIsProper
<1>2. CASE ~(c.started \/ c.loaded)
  <2>1. Typed(c) /\ AtHome(c, TRUE) /\ (c.bridge => c.proxies = NoProxies)
    BY <1>2, FitWeaker DEF Fit, Sound
  <2>2. Fit(n, b) /\ Moves(c, n)
    BY <2>1, ResetFits
  <2>3. /\ DOMAIN n = Fields
        /\ n.bridge = c.bridge /\ n.loaded = FALSE /\ n.started = FALSE
        /\ n.conn = 0 /\ n.opens = c.opens /\ n.connected = FALSE
        /\ n.joined = FALSE /\ n.rpm = c.rpm /\ n.lpo = c.lpo
        /\ n.proxies = c.proxies
    BY ResetFields
  <2>4. \/ r = Result(q, {}, TRUE)
        \/ r = Result(n, {}, FALSE)
        \/ r \in mlcb_open(q, cfg)
    BY <1>2 DEF fltdev_init, Done
  <2> HIDE DEF n
  <2>5. /\ DOMAIN q = Fields
        /\ q.bridge = c.bridge /\ q.loaded = TRUE /\ q.started = FALSE
        /\ q.conn = 0 /\ q.opens = c.opens /\ q.connected = FALSE
        /\ q.joined = FALSE /\ q.rpm = c.rpm /\ q.lpo = c.lpo
        /\ q.proxies = c.proxies
    BY <2>3 DEF Fields
  <2> HIDE DEF q
  <2>6. CASE r = Result(q, {}, TRUE)
    <3>1. r.client = q /\ r.sent = {}
      BY <2>6 DEF Result
    <3>2. Fit(q, b)
      BY <2>2, <2>3, <2>5 DEF Fit, Typed, Sound, Current, AtHome
    <3>3. Moves(c, q)
      BY <2>1, <2>5 DEF Moves, Typed
    <3>. QED  BY <1>2, <2>5, <3>1, <3>2, <3>3 DEF Proper, Speaks
  <2>7. CASE r = Result(n, {}, FALSE)
    <3>1. r.client = n /\ r.sent = {}
      BY <2>7 DEF Result
    <3>. QED  BY <1>2, <2>2, <2>3, <3>1 DEF Proper, Speaks
  <2>8. CASE r \in mlcb_open(q, cfg)
    <3> DEFINE o == [q EXCEPT !.started = TRUE, !.opens = @ + 1, !.conn = q.opens + 1,
                              !.heartbeat = cfg.heartbeat]
               h == Datagram(o, "hello", 0)
    <3>1. r = Result(o, {h}, TRUE)
      BY <2>8 DEF mlcb_open
    <3>2. r.client = o /\ r.sent = {h}
      BY <3>1 DEF Result
    <3>3. /\ DOMAIN o = Fields
          /\ o.bridge = c.bridge /\ o.loaded = TRUE /\ o.started = TRUE
          /\ o.conn = c.opens + 1 /\ o.opens = c.opens + 1 /\ o.connected = FALSE
          /\ o.joined = FALSE /\ o.rpm = c.rpm /\ o.lpo = c.lpo
          /\ o.proxies = c.proxies
      BY <2>5 DEF Fields
    <3> HIDE DEF o
    <3>4. Typed(o) /\ Sound(o) /\ Moves(c, o)
      BY <2>1, <3>3 DEF Typed, Sound, Moves
    <3>5. Current(o, b) /\ AtHome(o, b)
      BY <2>1, <3>3 DEF Current, AtHome, NoProxies
    <3>6. Speaks(o, {h})
      BY <2>1, <3>3 DEF Speaks, Datagram, Typed
    <3>. QED  BY <1>2, <3>2, <3>3, <3>4, <3>5, <3>6 DEF Proper, Fit
  <2>. QED  BY <2>4, <2>6, <2>7, <2>8
<1>. QED  BY <1>1, <1>2

\* f4mp_bridge_init_once.
LEMMA OnceIsProper ==
    ASSUME NEW c, NEW b, Fit(c, b), NEW r \in f4mp_bridge_init_once(c)
    PROVE  /\ Proper(c, b, r)
           /\ r.client.bridge \/ b
<1>1. CASE c.bridge
  <2>1. r \in Done(c)
    BY <1>1 DEF f4mp_bridge_init_once
  <2>. QED  BY <1>1, <2>1, DoneIsProper
<1>2. CASE ~c.bridge
  <2> DEFINE d == [c EXCEPT !.proxies = NoProxies, !.rpm = 0, !.bridge = TRUE]
  <2>1. r \in fltdev_init(d)
    BY <1>2 DEF f4mp_bridge_init_once, ebstub_init
  <2>2. /\ DOMAIN d = Fields
        /\ d.bridge = TRUE /\ d.loaded = c.loaded /\ d.started = c.started
        /\ d.conn = c.conn /\ d.opens = c.opens /\ d.connected = c.connected
        /\ d.id = c.id /\ d.joined = c.joined /\ d.rpm = 0 /\ d.lpo = c.lpo
        /\ d.proxies = NoProxies
    BY DEF Fit, Typed, Fields
  <2> HIDE DEF d
  <2>3. Typed(d) /\ Sound(d)
    BY <2>2 DEF Fit, Typed, Sound, NoProxies
  <2>4. Current(d, b)
    BY <2>2 DEF Fit, Current, NoProxies
  <2>5. AtHome(d, b)
    BY <1>2, <2>2 DEF Fit, Sound, Current, AtHome, NoProxies
  <2>6. Fit(d, b)
    BY <2>3, <2>4, <2>5 DEF Fit
  <2>7. Proper(d, b, r) /\ (d.started => r.client = d)
    BY <2>1, <2>2, <2>6, InitIsProper
  <2>8. Moves(c, r.client)
    BY <2>2, <2>7 DEF Proper, Moves
  <2>9. r.client.bridge
    BY <2>1, <2>2, <2>6, InitIsProper
  <2>. QED  BY <2>7, <2>8, <2>9 DEF Proper
<1>. QED  BY <1>1, <1>2

\* fltdev_tick.
LEMMA TickIsProper ==
    ASSUME NEW c, NEW b, NEW m, Fit(c, b), c.started \/ c.loaded \/ c.bridge \/ b,
           Arrives(c, m), NEW r \in fltdev_tick(c, m)
    PROVE  Proper(c, b, r)
<1> DEFINE inited == IF c.loaded THEN Done(c) ELSE fltdev_init(c)
           Run(d) == IF d.started THEN mlcb_tick(d, m) ELSE Done(d)
<1>1. ASSUME NEW p \in inited
      PROVE  Proper(c, b, p) /\ Arrives(p.client, m)
  <2>1. CASE c.loaded
    <3>1. p \in Done(c)
      BY <1>1, <2>1
    <3>. QED  BY <3>1, DoneIsProper
  <2>2. CASE ~c.loaded
    <3>1. p \in fltdev_init(c)
      BY <1>1, <2>2
    <3>2. ~c.started /\ c.conn = 0 /\ (c.bridge \/ b)
      BY <2>2 DEF Fit, Sound
    <3>3. Proper(c, b, p)
      BY <3>1, <3>2, InitIsProper
    <3>4. Arrives(p.client, m)
      BY <3>2 DEF Arrives
    <3>. QED  BY <3>3, <3>4
  <2>. QED  BY <2>1, <2>2
<1>2. ASSUME NEW d, Fit(d, b), Arrives(d, m), NEW s \in Run(d)
      PROVE  Proper(d, b, s)
  <2>1. CASE d.started
    <3>1. s \in mlcb_tick(d, m)
      BY <1>2, <2>1
    <3>. QED  BY <1>2, <2>1, <3>1, BridgeTickIsProper
  <2>2. CASE ~d.started
    <3>1. s \in Done(d)
      BY <1>2, <2>2
    <3>. QED  BY <1>2, <3>1, DoneIsProper
  <2>. QED  BY <2>1, <2>2
<1>3. \/ r \in inited
      \/ \E p \in inited : \E s \in Run(p.client) :
            r = Result(s.client, p.sent \cup s.sent, s.ok)
  BY DEF fltdev_tick, Then
<1> HIDE DEF inited, Run
<1>4. CASE r \in inited
  BY <1>1, <1>4
<1>5. ASSUME NEW p \in inited, NEW s \in Run(p.client),
             r = Result(s.client, p.sent \cup s.sent, s.ok)
      PROVE  Proper(c, b, r)
  <2>1. Proper(c, b, p) /\ Arrives(p.client, m) /\ Fit(p.client, b)
    BY <1>1, <1>5 DEF Proper
  <2>2. Proper(p.client, b, s)
    BY <1>2, <1>5, <2>1
  <2>. QED  BY <1>5, <2>1, <2>2, ProperThen
<1>. QED  BY <1>3, <1>4, <1>5

\* fltdev_shutdown.
LEMMA ShutdownIsProper ==
    ASSUME NEW c, NEW b, NEW m, Fit(c, b), Arrives(c, m),
           NEW r \in fltdev_shutdown([c EXCEPT !.bridge = FALSE], m)
    PROVE  Proper(c, b, r)
<1> DEFINE d == [c EXCEPT !.bridge = FALSE]
<1>1. /\ DOMAIN d = Fields
      /\ d.bridge = FALSE /\ d.loaded = c.loaded /\ d.started = c.started
      /\ d.conn = c.conn /\ d.opens = c.opens /\ d.connected = c.connected
      /\ d.id = c.id /\ d.joined = c.joined /\ d.rpm = c.rpm /\ d.lpo = c.lpo
      /\ d.proxies = c.proxies
  BY DEF Fit, Typed, Fields
<1>2. r \in fltdev_shutdown(d, m)
  OBVIOUS
<1> HIDE DEF d
<1>3. Fit(c, TRUE)
  BY FitWeaker
<1>4. Fit(d, TRUE)
  BY <1>1, <1>3 DEF Fit, Typed, Sound, Current, AtHome
<1>5. Arrives(d, m)
  BY <1>1 DEF Arrives
<1>6. ASSUME NEW e, Fit(e, TRUE), e.opens = c.opens, ~e.bridge
      PROVE  /\ Fit(reset_state(e), b) /\ Moves(c, reset_state(e))
             /\ reset_state(e).opens = c.opens /\ reset_state(e).conn = 0
  <2>1. Typed(e) /\ AtHome(e, TRUE)
    BY <1>6 DEF Fit
  <2>2. Fit(reset_state(e), b)
    BY <1>6, <2>1, ResetFits
  <2>3. reset_state(e).opens = c.opens /\ reset_state(e).conn = 0
    BY <1>6, ResetFields
  <2>4. c.opens \in Nat
    BY DEF Fit, Typed
  <2>. QED  BY <2>2, <2>3, <2>4 DEF Moves
<1>7. CASE d.started /\ d.connected
  <2>1. PICK p \in ptc_poll_once(d, m) :
          r = Result(reset_state(p.client), {Datagram(d, "bye", 0)}, TRUE)
    BY <1>2, <1>7 DEF fltdev_shutdown
  <2> DEFINE e == p.client
             h == Datagram(d, "bye", 0)
  <2>2. r.client = reset_state(e) /\ r.sent = {h}
    BY <2>1 DEF Result
  <2>3. Proper(d, TRUE, p) /\ Kept(d, e)
    BY <1>4, <1>5, <1>7, PollIsProper
  <2>4. e.opens = c.opens /\ Fit(e, TRUE)
    BY <1>1, <2>3 DEF Kept, Proper
  <2>5. ~e.bridge
    BY <1>1, <2>3 DEF Kept
  <2>6. /\ Fit(reset_state(e), b) /\ Moves(c, reset_state(e))
        /\ reset_state(e).opens = c.opens /\ reset_state(e).conn = 0
    BY <1>6, <2>4, <2>5
  <2>7. Speaks(reset_state(e), {h})
    BY <1>1, <1>4, <1>7, <2>6 DEF Speaks, Datagram, Fit, Sound, Typed
  <2>. QED  BY <2>2, <2>6, <2>7 DEF Proper
<1>8. CASE ~(d.started /\ d.connected)
  <2>1. r \in Done(reset_state(d))
    BY <1>2, <1>8 DEF fltdev_shutdown
  <2>2. r.client = reset_state(d) /\ r.sent = {}
    BY <2>1 DEF Done, Result
  <2>3. Fit(reset_state(d), b) /\ Moves(c, reset_state(d))
    BY <1>1, <1>4, <1>6
  <2>. QED  BY <2>2, <2>3 DEF Proper, Speaks
<1>. QED  BY <1>7, <1>8

-----------------------------------------------------------------------------
(***************************************************************************)
(* The steps of the client                                                 *)
(***************************************************************************)

\* A step with a proper result preserves the invariant.
LEMMA ClientStepKeeps ==
    ASSUME IInv, NEW r, NEW R, NEW m, r \in R,
           Proper(client, reopened', r), client' = r.client,
           toService' \subseteq toService \cup r.sent, toClient' \subseteq toClient,
           (r.client.conn = client.conn /\ client.conn # 0) \/ toClient' = {},
           UNCHANGED <<seat, home, crashes, route>>
    PROVE  IInv'
<1> DEFINE d == r.client
<1>1. Fit(client, reopened)'
  BY DEF Proper, Fit, Typed, Sound, Current, AtHome, NoProxies
<1>2. /\ client.opens \in Nat /\ d.opens \in Nat /\ client.conn \in Nat /\ d.conn \in Nat
      /\ client.opens <= d.opens
  BY DEF IInv, Proper, Fit, Typed, Moves
<1>3. SeatInv'
  BY <1>2 DEF IInv, SeatInv
<1>4. Speaks(client, toService)'
  <2> SUFFICES ASSUME NEW x \in toService
               PROVE  /\ x.conn \in 1 .. d.opens
                      /\ x.kind = "state" /\ x.conn = d.conn => d.joined
    BY DEF Proper, Speaks
  <2>1. /\ x.conn \in 1 .. client.opens
        /\ x.kind = "state" /\ x.conn = client.conn => client.joined
    BY DEF IInv, NetInv, Speaks
  <2>. QED  BY <1>2, <2>1 DEF Proper, Moves
<1>5. \A x \in toClient' : x.kind # "nothing" /\ Arrives(client, x)'
  <2> SUFFICES ASSUME NEW x \in toClient'
               PROVE  x.kind # "nothing" /\ Arrives(client, x)'
    OBVIOUS
  <2>1. x.kind # "nothing" /\ Arrives(client, x)
    BY DEF IInv, NetInv
  <2>2. d.conn = client.conn /\ client.conn # 0
    OBVIOUS
  <2>3. client.joined => d.joined
    BY <1>2, <2>2 DEF IInv, Fit, Sound, Proper, Moves
  <2>. QED  BY <2>1, <2>2, <2>3 DEF Arrives
<1>. QED  BY <1>1, <1>3, <1>4, <1>5 DEF IInv, NetInv

\* What the next poll may find arrives at the client.
LEMMA InboxArrives ==
    ASSUME IInv, NEW m \in Inbox
    PROVE  Arrives(client, m)
<1>1. CASE m \in toClient
  BY <1>1 DEF IInv, NetInv
<1>2. CASE m = Nothing
  BY <1>2 DEF Arrives, Nothing
<1>. QED  BY <1>1, <1>2 DEF Inbox

\* The parts of ClientStep.
LEMMA StepParts ==
    ASSUME NEW R, NEW m, ClientStep(R, m)
    PROVE  /\ \E r \in R :
                /\ client' = r.client
                /\ toService' \subseteq toService \cup r.sent
                /\ toClient' \subseteq toClient
                /\ (r.client.conn = client.conn /\ client.conn # 0) \/ toClient' = {}
           /\ UNCHANGED <<seat, home, crashes, route>>
<1>1. PICK r \in R :
        /\ client' = r.client
        /\ toService' = SentToService(toService, r.sent)
        /\ IF r.client.conn = client.conn /\ client.conn # 0
           THEN toClient' \in Taken(toClient, m) ELSE toClient' = {}
  BY DEF ClientStep
<1>2. toService' \subseteq toService \cup r.sent
  BY <1>1 DEF SentToService, Added
<1>3. toClient' \subseteq toClient
  BY <1>1 DEF Taken
<1>4. UNCHANGED <<seat, home, crashes, route>>
  BY DEF ClientStep, service
<1>. QED  BY <1>1, <1>2, <1>3, <1>4

\* A step whose results all are proper.
LEMMA ProperStep ==
    ASSUME IInv, NEW R, NEW m, ClientStep(R, m),
           \A r \in R : client' = r.client => Proper(client, reopened', r)
    PROVE  IInv'
<1>1. PICK r \in R :
        /\ client' = r.client
        /\ toService' \subseteq toService \cup r.sent
        /\ toClient' \subseteq toClient
        /\ (r.client.conn = client.conn /\ client.conn # 0) \/ toClient' = {}
  BY StepParts
<1>2. UNCHANGED <<seat, home, crashes, route>>
  BY StepParts
<1>3. Proper(client, reopened', r)
  BY <1>1
<1>. QED  BY <1>1, <1>2, <1>3, ClientStepKeeps

LEMMA LiveTickKeeps == IInv /\ LiveTick => IInv'
<1> SUFFICES ASSUME IInv, NEW m \in Inbox, LiveTickOn(m)
             PROVE  IInv'
  BY DEF LiveTick
<1> DEFINE Tick(c) == fltdev_tick(c, IF c.conn = client.conn THEN m ELSE Nothing)
           R == UNION {{Result(s.client, p.sent \cup s.sent, s.ok) : s \in Tick(p.client)} :
                          p \in f4mp_bridge_init_once(client)}
<1>1. ClientStep(R, m) /\ reopened' = reopened
  BY DEF LiveTickOn, Then
<1>2. Fit(client, reopened)
  BY DEF IInv
<1>3. ASSUME NEW r \in R
      PROVE  Proper(client, reopened, r)
  <2>1. PICK p \in f4mp_bridge_init_once(client) : \E s \in Tick(p.client) :
          r = Result(s.client, p.sent \cup s.sent, s.ok)
    BY <1>3
  <2>2. PICK s \in Tick(p.client) : r = Result(s.client, p.sent \cup s.sent, s.ok)
    BY <2>1
  <2> DEFINE d == p.client
             x == IF d.conn = client.conn THEN m ELSE Nothing
  <2>3. s \in fltdev_tick(d, x)
    OBVIOUS
  <2>4. Proper(client, reopened, p) /\ (d.bridge \/ reopened)
    BY <1>2, OnceIsProper
  <2>5. Fit(d, reopened) /\ Moves(client, d)
    BY <2>4 DEF Proper
  <2>6. Arrives(client, m)
    BY InboxArrives
  <2>7. Arrives(d, x)
    <3>1. CASE d.conn = client.conn /\ client.conn # 0
      <4>1. client.joined => d.joined
        BY <1>2, <2>5, <3>1 DEF Fit, Typed, Sound, Moves
      <4>. QED  BY <2>6, <3>1, <4>1 DEF Arrives
    <3>2. CASE d.conn = client.conn /\ client.conn = 0
      <4>1. x = m /\ m.kind = "nothing"
        BY <2>6, <3>2 DEF Arrives
      <4>. QED  BY <2>6, <4>1 DEF Arrives
    <3>3. CASE d.conn # client.conn
      <4>1. x = Nothing
        BY <3>3
      <4>. QED  BY <4>1 DEF Arrives, Nothing
    <3>. QED  BY <3>1, <3>2, <3>3
  <2> HIDE DEF x
  <2>8. Proper(d, reopened, s)
    BY <2>3, <2>4, <2>5, <2>7, TickIsProper
  <2>. QED  BY <1>2, <2>2, <2>4, <2>8, ProperThen
<1> HIDE DEF R
<1>. QED  BY <1>1, <1>3, ProperStep

LEMMA EmissionTickKeeps == IInv /\ EmissionTick => IInv'
<1> SUFFICES ASSUME IInv, NEW m \in Inbox, ~client.bridge,
                    ClientStep(fltdev_tick(client, m), m),
                    reopened' = (reopened \/ (client'.conn # client.conn))
             PROVE  IInv'
  BY DEF EmissionTick
<1> DEFINE R == fltdev_tick(client, m)
<1>1. Fit(client, reopened) /\ Fit(client, TRUE)
  BY FitWeaker DEF IInv
<1>2. Arrives(client, m)
  BY InboxArrives
<1>3. ASSUME NEW r \in R, client' = r.client
      PROVE  Proper(client, reopened', r)
  <2>1. Proper(client, TRUE, r)
    BY <1>1, <1>2, <1>3, TickIsProper
  <2>2. CASE client.started
    <3>1. Proper(client, reopened, r)
      BY <1>1, <1>2, <1>3, <2>2, TickIsProper
    <3>2. reopened
      BY <1>1, <2>2 DEF Fit, Current
    <3>3. Fit(r.client, reopened')
      BY <2>1, <3>2 DEF Proper, Fit, Current, AtHome
    <3>. QED  BY <2>1, <3>3 DEF Proper
  <2>3. CASE ~client.started
    <3>1. CASE r.client.started
      <4>1. r.client.conn # 0 /\ client.conn = 0
        BY <1>1, <2>1, <2>3, <3>1 DEF Proper, Fit, Sound
      <4>2. reopened'
        BY <1>3, <4>1
      <4>3. Fit(r.client, reopened')
        BY <2>1, <4>2 DEF Proper, Fit, Current, AtHome
      <4>. QED  BY <2>1, <4>3 DEF Proper
    <3>2. CASE ~r.client.started
      BY <2>1, <3>2, FitClosed DEF Proper
    <3>. QED  BY <3>1, <3>2
  <2>. QED  BY <2>2, <2>3
<1> HIDE DEF R
<1>. QED  BY <1>3, ProperStep DEF R

LEMMA LiveQueryKeeps == IInv /\ LiveQuery => IInv'
<1> SUFFICES ASSUME IInv, LiveQuery
             PROVE  IInv'
  OBVIOUS
<1> DEFINE Query(c) == IF c.loaded THEN Done(c) ELSE fltdev_init(c)
           R == UNION {{Result(s.client, p.sent \cup s.sent, s.ok) : s \in Query(p.client)} :
                          p \in f4mp_bridge_init_once(client)}
<1>1. ClientStep(R, Nothing) /\ reopened' = reopened
  BY DEF LiveQuery, Then
<1>2. Fit(client, reopened)
  BY DEF IInv
<1>3. ASSUME NEW r \in R
      PROVE  Proper(client, reopened, r)
  <2>1. PICK p \in f4mp_bridge_init_once(client) : \E s \in Query(p.client) :
          r = Result(s.client, p.sent \cup s.sent, s.ok)
    BY <1>3
  <2>2. PICK s \in Query(p.client) : r = Result(s.client, p.sent \cup s.sent, s.ok)
    BY <2>1
  <2> DEFINE d == p.client
  <2>3. Proper(client, reopened, p) /\ (d.bridge \/ reopened) /\ Fit(d, reopened)
    BY <1>2, OnceIsProper DEF Proper
  <2>4. Proper(d, reopened, s)
    <3>1. CASE d.loaded
      <4>1. s \in Done(d)
        BY <3>1
      <4>. QED  BY <2>3, <4>1, DoneIsProper
    <3>2. CASE ~d.loaded
      <4>1. s \in fltdev_init(d)
        BY <3>2
      <4>. QED  BY <2>3, <4>1, InitIsProper
    <3>. QED  BY <3>1, <3>2
  <2>. QED  BY <1>2, <2>2, <2>3, <2>4, ProperThen
<1> HIDE DEF R
<1>. QED  BY <1>1, <1>3, ProperStep

LEMMA ShutdownKeeps == IInv /\ Shutdown => IInv'
<1> SUFFICES ASSUME IInv, NEW m \in Inbox,
                    ClientStep(fltdev_shutdown([client EXCEPT !.bridge = FALSE], m), m),
                    reopened' = reopened
             PROVE  IInv'
  BY DEF Shutdown
<1> DEFINE R == fltdev_shutdown([client EXCEPT !.bridge = FALSE], m)
<1>1. Fit(client, reopened) /\ Arrives(client, m)
  BY InboxArrives DEF IInv
<1>2. \A r \in R : Proper(client, reopened, r)
  BY <1>1, ShutdownIsProper
<1> HIDE DEF R
<1>. QED  BY <1>2, ProperStep DEF R

LEMMA ClientCrashKeeps == IInv /\ ClientCrash => IInv'
<1> SUFFICES ASSUME IInv, ClientCrash
             PROVE  IInv'
  OBVIOUS
<1> DEFINE d == NewProcess(client.opens)
<1>1. /\ DOMAIN d = Fields
      /\ d.bridge = FALSE /\ d.loaded = FALSE /\ d.started = FALSE
      /\ d.conn = 0 /\ d.opens = client.opens /\ d.connected = FALSE
      /\ d.joined = FALSE /\ d.proxies = NoProxies
  BY DEF NewProcess, Fields
<1>2. /\ client' = d /\ toClient' = {}
      /\ UNCHANGED <<seat, home, crashes, route, toService>>
  BY DEF ClientCrash, service
<1> HIDE DEF d
<1>3. client.opens \in Nat
  BY DEF IInv, Fit, Typed
<1>4. Fit(client, reopened)'
  BY <1>1, <1>2, <1>3 DEF Fit, Typed, Sound, Current, AtHome, NoProxies
<1>5. SeatInv'
  BY <1>1, <1>2 DEF IInv, SeatInv
<1>6. Speaks(client, toService)'
  BY <1>1, <1>2, <1>3 DEF IInv, NetInv, Speaks
<1>. QED  BY <1>2, <1>4, <1>5, <1>6 DEF IInv, NetInv

-----------------------------------------------------------------------------
(***************************************************************************)
(* The steps of the service                                                *)
(***************************************************************************)

\* A step that leaves the client alone and the home of Me where it is.
LEMMA HomeStays ==
    ASSUME IInv, UNCHANGED <<client, reopened, crashes>>, home'[Me] = home[Me],
           SeatInv', toService' \subseteq toService,
           \A m \in toClient' : m \in toClient \/ (m.kind # "nothing" /\ Arrives(client, m))
    PROVE  IInv'
<1>1. Fit(client, reopened)'
  BY DEF IInv, Fit, Typed, Sound, Current, AtHome, NoProxies
<1>2. Speaks(client, toService)'
  BY DEF IInv, NetInv, Speaks
<1>3. \A m \in toClient' : m.kind # "nothing" /\ Arrives(client, m)'
  BY DEF IInv, NetInv, Arrives
<1>. QED  BY <1>1, <1>2, <1>3 DEF IInv, NetInv

\* What SentToClient may add.
LEMMA SentParts ==
    ASSUME NEW r, NEW msgs, SentToClient(r, msgs)
    PROVE  /\ toClient' \subseteq toClient \cup msgs
           /\ r = 0 \/ r # client.conn => toClient' = toClient
  BY DEF SentToClient, Added

\* MSG_HELLO of Me: the first one gives it a home.
LEMMA HelloKeeps ==
    ASSUME IInv, NEW m \in toService, HandleHello(m), toService' \subseteq toService,
           UNCHANGED <<client, reopened, crashes>>
    PROVE  IInv'
<1> DEFINE msgs == {Message("welcome", home'[Me])}
                   \cup {Message("state", i) : i \in {i \in Ids : seat'[i] = Peer}}
<1>0. /\ Me \in Guids /\ Peer \in Guids /\ Me # Peer /\ Nobody \notin Guids
      /\ Ids \subseteq Nat \ {0}
  BY ClientAssumption, MembershipAssumption
<1>1. SentToClient(m.conn, msgs) /\ route' = m.conn
  BY DEF HandleHello
<1>2. m.conn \in 1 .. client.opens /\ client.opens \in Nat
  BY DEF IInv, NetInv, Speaks, Fit, Typed
<1>3. /\ home' \in [Guids -> Ids \cup {0}] /\ home'[Me] \in Ids
      /\ home[Me] # 0 => home'[Me] = home[Me]
      /\ seat' \in [Ids -> Guids \cup {Nobody}] /\ seat'[home'[Me]] = Me
  <2>1. /\ seat \in [Ids -> Guids \cup {Nobody}]
        /\ home \in [Guids -> Ids \cup {0}]
    BY DEF IInv, SeatInv
  <2>2. CASE Return(Me, {})
    BY <1>0, <2>1, <2>2 DEF Return, Vacated
  <2>3. ASSUME NEW i \in Ids, Enter(Me, i, {}), home' = [home EXCEPT ![Me] = i]
        PROVE  /\ home' \in [Guids -> Ids \cup {0}] /\ home'[Me] \in Ids
               /\ home[Me] # 0 => home'[Me] = home[Me]
               /\ seat' \in [Ids -> Guids \cup {Nobody}] /\ seat'[home'[Me]] = Me
    BY <1>0, <2>1, <2>3 DEF Enter, Vacated
  <2>. QED  BY <2>2, <2>3 DEF HandleHello
<1>4. SeatInv'
  BY <1>1, <1>2, <1>3 DEF IInv, SeatInv
<1>5. \A x \in msgs :
        /\ x.kind # "nothing" /\ x.id \in Nat
        /\ x.kind = "welcome" => x.id = home'[Me]
        /\ x.kind = "state" => x.id # home'[Me]
  BY <1>0, <1>3 DEF Message
<1> HIDE DEF msgs
<1>6. /\ toClient' \subseteq toClient \cup msgs
      /\ client.conn = 0 => toClient' = toClient
  BY <1>1, <1>2, SentParts
<1>7. CASE home[Me] # 0 \/ crashes # 0
  <2>1. crashes = 0 => home'[Me] = home[Me]
    BY <1>3, <1>7
  <2>2. Fit(client, reopened)'
    BY <2>1 DEF IInv, Fit, Typed, Sound, Current, AtHome, NoProxies
  <2>3. Speaks(client, toService)'
    BY DEF IInv, NetInv, Speaks
  <2>4. \A x \in toClient : x.kind # "nothing" /\ Arrives(client, x)'
    BY <2>1 DEF IInv, NetInv, Arrives
  <2>5. client.conn # 0 => \A x \in msgs : x.kind # "nothing" /\ Arrives(client, x)'
    BY <1>0, <1>3, <1>5 DEF Arrives
  <2>. QED  BY <1>4, <1>6, <2>2, <2>3, <2>4, <2>5 DEF IInv, NetInv
<1>8. CASE home[Me] = 0 /\ crashes = 0
  <2>1. toClient = {}
    BY <1>8 DEF IInv, NetInv, Arrives
  <2>2. client.proxies = NoProxies /\ ~client.connected /\ ~client.joined
    BY <1>8 DEF IInv, Fit, AtHome, Sound
  <2>3. Fit(client, reopened)'
    BY <1>0, <1>3, <2>2 DEF IInv, Fit, Typed, Sound, Current, AtHome, NoProxies
  <2>4. Speaks(client, toService)'
    BY DEF IInv, NetInv, Speaks
  <2>5. client.conn # 0 => \A x \in msgs : x.kind # "nothing" /\ Arrives(client, x)'
    BY <1>0, <1>3, <1>5 DEF Arrives
  <2>. QED  BY <1>4, <1>6, <2>1, <2>3, <2>4, <2>5 DEF IInv, NetInv
<1>. QED  BY <1>7, <1>8

\* The other messages of Me.
LEMMA HandlesKeeps ==
    ASSUME IInv, NEW m \in toService, ServiceHandles(m)
    PROVE  IInv'
<1>0. /\ Me \in Guids /\ Nobody \notin Guids /\ Ids \subseteq Nat \ {0}
  BY ClientAssumption, MembershipAssumption
<1>1. UNCHANGED <<client, reopened, crashes>> /\ toService' \subseteq toService
  BY DEF ServiceHandles, Taken
<1>2. m.conn \in 1 .. client.opens /\ client.opens \in Nat
  BY DEF IInv, NetInv, Speaks, Fit, Typed
<1>3. CASE HandleHello(m)
  BY <1>1, <1>3, HelloKeeps
<1>4. CASE HandlePing(m) \/ HandleUnknown(m)
  <2>1. UNCHANGED <<seat, home, route, toClient>>
    BY <1>4 DEF HandlePing, HandleUnknown
  <2>2. SeatInv'
    BY <1>1, <2>1 DEF IInv, SeatInv
  <2>. QED  BY <1>1, <2>1, <2>2, HomeStays
<1>5. CASE HandleState(m)
  <2>1. /\ UNCHANGED <<seat, home, route>>
        /\ m.kind = "state" /\ m.conn = route /\ m.id = home[Me]
    BY <1>5 DEF HandleState
  <2>2. SeatInv'
    BY <1>1, <2>1 DEF IInv, SeatInv
  <2>3. PICK out \in {{}, {Message("state", m.id)}} : SentToClient(route, out)
    BY <1>5 DEF HandleState
  <2>4. route # 0 /\ home[Me] \in Ids
    BY <1>2, <2>1 DEF IInv, SeatInv
  <2>5. route = client.conn => client.joined
    BY <2>1 DEF IInv, NetInv, Speaks
  <2>6. route = client.conn => \A x \in out : x.kind # "nothing" /\ Arrives(client, x)
    <3>1. \A x \in out : x.kind = "state" /\ x.id = home[Me]
      BY <2>1, <2>3 DEF Message
    <3>. QED  BY <1>0, <2>4, <2>5, <3>1 DEF Arrives
  <2>7. /\ toClient' \subseteq toClient \cup out
        /\ route # client.conn => toClient' = toClient
    BY <2>3, SentParts
  <2>8. \A x \in toClient' : x \in toClient \/ (x.kind # "nothing" /\ Arrives(client, x))
    BY <2>6, <2>7
  <2>. QED  BY <1>1, <2>1, <2>2, <2>8, HomeStays
<1>6. CASE HandleBye(m)
  <2> DEFINE out == {Message("left", home[Me])}
  <2>1. /\ seat' = Vacated(seat, {home[Me]}) /\ home' = home /\ route' = 0
        /\ m.conn = route /\ SentToClient(route, out)
    BY <1>6 DEF HandleBye, Depart
  <2>2. SeatInv'
    BY <1>0, <1>1, <1>2, <2>1 DEF IInv, SeatInv, Vacated
  <2>3. route # 0 /\ home[Me] \in Ids
    BY <1>2, <2>1 DEF IInv, SeatInv
  <2>4. route = client.conn => \A x \in out : x.kind # "nothing" /\ Arrives(client, x)
    <3>1. \A x \in out : x.kind = "left" /\ x.id = home[Me]
      BY DEF Message
    <3>. QED  BY <1>0, <2>3, <3>1 DEF Arrives
  <2>5. /\ toClient' \subseteq toClient \cup out
        /\ route # client.conn => toClient' = toClient
    BY <2>1, SentParts
  <2>6. \A x \in toClient' : x \in toClient \/ (x.kind # "nothing" /\ Arrives(client, x))
    BY <2>4, <2>5
  <2>. QED  BY <1>1, <2>1, <2>2, <2>6, HomeStays
<1>. QED  BY <1>3, <1>4, <1>5, <1>6 DEF ServiceHandles

\* A message of Peer.  What is broadcast goes to the route of Me, and the state
\* of Peer is not one of the home of Me as long as Me sits there.
LEMMA PeerStepKeeps ==
    ASSUME IInv, NEW gone \in SUBSET Ids, NEW out, PeerStep(gone, out),
           seat' \in [Ids -> Guids \cup {Nobody}], home' \in [Guids -> Ids \cup {0}],
           home'[Me] = home[Me],
           \A x \in out : /\ x.kind \notin {"nothing", "welcome"} /\ x.id \in Nat
                          /\ route # 0 /\ x.kind = "state" => x.id # home[Me]
    PROVE  IInv'
<1> DEFINE msgs == out \cup {Message("left", i) : i \in gone}
           to   == IF route # 0 /\ seat'[home[Me]] = Peer THEN 0 ELSE route
<1>0. Ids \subseteq Nat \ {0}
  BY MembershipAssumption
<1>1. /\ UNCHANGED <<client, reopened, crashes, toService>>
      /\ SentToClient(to, msgs)
      /\ route' = IF route # 0 /\ seat'[home[Me]] = Me THEN route ELSE 0
  BY DEF PeerStep
<1>2. SeatInv'
  BY <1>1 DEF IInv, SeatInv, Fit, Typed
<1>3. \A x \in msgs : /\ x.kind \notin {"nothing", "welcome"} /\ x.id \in Nat
                      /\ route # 0 /\ x.kind = "state" => x.id # home[Me]
  <2> SUFFICES ASSUME NEW x \in msgs
               PROVE  /\ x.kind \notin {"nothing", "welcome"} /\ x.id \in Nat
                      /\ route # 0 /\ x.kind = "state" => x.id # home[Me]
    BY Zenon
  <2>1. CASE x \in out
    BY <2>1, Zenon
  <2>2. ASSUME NEW i \in gone, x = Message("left", i)
        PROVE  x.kind = "left" /\ x.id \in Nat
    <3>1. i \in Nat
      BY <1>0
    <3>. QED  BY <2>2, <3>1 DEF Message
  <2>3. CASE x \notin out
    <3>1. PICK i \in gone : x = Message("left", i)
      BY <2>3
    <3>2. x.kind = "left" /\ x.id \in Nat
      BY <2>2, <3>1, Zenon
    <3>. QED  BY <3>2
  <2>. QED  BY <2>1, <2>3
<1> HIDE DEF msgs
<1>4. /\ toClient' \subseteq toClient \cup msgs
      /\ to = 0 \/ to # client.conn => toClient' = toClient
  BY <1>1, SentParts
<1>5. to # 0 => route # 0 /\ home[Me] \in Ids
  BY DEF IInv, SeatInv
<1>6. to # 0 /\ to = client.conn =>
        \A x \in msgs : x.kind # "nothing" /\ Arrives(client, x)
  BY <1>0, <1>3, <1>5 DEF Arrives
<1> HIDE DEF to
<1>7. \A x \in toClient' : x \in toClient \/ (x.kind # "nothing" /\ Arrives(client, x))
  BY <1>4, <1>6
<1>. QED  BY <1>1, <1>2, <1>7, HomeStays

LEMMA ExpiredIsMe ==
    ASSUME IInv, NEW gone \in MayExpire
    PROVE  gone \in SUBSET Ids
  BY DEF MayExpire, IInv, SeatInv

LEMMA PeerHelloKeeps == IInv /\ PeerHello => IInv'
<1> SUFFICES ASSUME IInv, NEW gone \in MayExpire,
                    \/ \E i \in Ids : Enter(Peer, i, gone) /\ home' = [home EXCEPT ![Peer] = i]
                    \/ Return(Peer, gone \ {home[Peer]}),
                    PeerStep(gone, {})
             PROVE  IInv'
  BY DEF PeerHello
<1>0. Me \in Guids /\ Peer \in Guids /\ Me # Peer
  BY ClientAssumption
<1>1. gone \in SUBSET Ids
  BY ExpiredIsMe
<1>2. /\ seat \in [Ids -> Guids \cup {Nobody}]
      /\ home \in [Guids -> Ids \cup {0}]
  BY DEF IInv, SeatInv
<1>3. /\ seat' \in [Ids -> Guids \cup {Nobody}]
      /\ home' \in [Guids -> Ids \cup {0}] /\ home'[Me] = home[Me]
  BY <1>0, <1>2 DEF Enter, Return, Vacated
<1>. QED  BY <1>1, <1>3, PeerStepKeeps

\* The other messages of Peer.
LEMMA PeerDepartKeeps ==
    ASSUME IInv, NEW gone \in MayExpire, NEW left \in SUBSET Ids, NEW out,
           Depart(left), PeerStep(gone, out),
           \A x \in out : \/ x.kind \in {"left", "refused"} /\ x.id \in Nat
                          \/ \E i \in PeerSeats : x = Message("state", i)
    PROVE  IInv'
<1>0. Me # Peer /\ Ids \subseteq Nat \ {0}
  BY ClientAssumption, MembershipAssumption
<1>1. gone \in SUBSET Ids
  BY ExpiredIsMe
<1>2. /\ seat' \in [Ids -> Guids \cup {Nobody}]
      /\ home' \in [Guids -> Ids \cup {0}] /\ home'[Me] = home[Me]
  BY DEF IInv, SeatInv, Depart, Vacated
<1>3. \A i \in PeerSeats : i \in Nat /\ (route # 0 => i # home[Me])
  BY <1>0 DEF IInv, SeatInv, PeerSeats
<1>4. \A i : Message("state", i).kind = "state" /\ Message("state", i).id = i
  BY DEF Message
<1>5. \A x \in out : /\ x.kind \notin {"nothing", "welcome"} /\ x.id \in Nat
                     /\ route # 0 /\ x.kind = "state" => x.id # home[Me]
  BY <1>3, <1>4
<1>. QED  BY <1>1, <1>2, <1>5, PeerStepKeeps

LEMMA PeerTalksKeeps == IInv /\ PeerTalks => IInv'
<1> SUFFICES ASSUME IInv, NEW gone \in MayExpire,
                    \/ /\ Depart(gone)
                       /\ PeerStep(gone, {Message("state", i) : i \in PeerSeats})
                    \/ Depart(gone) /\ PeerStep(gone, {})
                    \/ /\ Depart(gone \cup PeerSeats)
                       /\ PeerStep(gone, {Message("left", i) : i \in PeerSeats})
             PROVE  IInv'
  BY DEF PeerTalks
<1>1. gone \in SUBSET Ids /\ PeerSeats \in SUBSET Ids /\ Ids \subseteq Nat
  BY ExpiredIsMe, MembershipAssumption DEF PeerSeats
<1>2. \A i : Message("left", i).kind = "left" /\ Message("left", i).id = i
  BY DEF Message
<1>3. CASE Depart(gone) /\ PeerStep(gone, {Message("state", i) : i \in PeerSeats})
  BY <1>1, <1>3, PeerDepartKeeps
<1>4. CASE Depart(gone) /\ PeerStep(gone, {})
  BY <1>1, <1>4, PeerDepartKeeps
<1>5. CASE /\ Depart(gone \cup PeerSeats)
           /\ PeerStep(gone, {Message("left", i) : i \in PeerSeats})
  <2> DEFINE out == {Message("left", i) : i \in PeerSeats}
  <2>1. \A x \in out : x.kind \in {"left", "refused"} /\ x.id \in Nat
    BY <1>1, <1>2
  <2>2. gone \cup PeerSeats \in SUBSET Ids
    BY <1>1
  <2> HIDE DEF out
  <2>. QED  BY <1>5, <2>1, <2>2, PeerDepartKeeps DEF out
<1>. QED  BY <1>3, <1>4, <1>5

LEMMA PeerNewsKeeps == IInv /\ PeerNews => IInv'
<1> SUFFICES ASSUME IInv, NEW gone \in MayExpire, Depart(gone),
                    PeerStep(gone, {Message("refused", 0)})
             PROVE  IInv'
  BY DEF PeerNews
<1>1. Message("refused", 0).kind = "refused" /\ Message("refused", 0).id = 0
  BY DEF Message
<1>. QED  BY <1>1, ExpiredIsMe, PeerDepartKeeps

LEMMA ServiceCrashKeeps == IInv /\ ServiceCrash => IInv'
<1> SUFFICES ASSUME IInv, ServiceCrash
             PROVE  IInv'
  OBVIOUS
<1>1. /\ crashes' = crashes + 1 /\ crashes \in Nat
      /\ seat' = [i \in Ids |-> Nobody] /\ home' = [g \in Guids |-> 0]
      /\ route' = 0 /\ toService' = {}
      /\ UNCHANGED <<client, reopened, toClient>>
  BY DEF ServiceCrash, IInv, SeatInv
<1>2. Fit(client, reopened)'
  BY <1>1 DEF IInv, Fit, Typed, Sound, Current, AtHome, NoProxies
<1>3. SeatInv'
  BY <1>1 DEF IInv, SeatInv, Fit, Typed
<1>4. NetInv'
  BY <1>1 DEF IInv, NetInv, Speaks, Arrives
<1>. QED  BY <1>2, <1>3, <1>4 DEF IInv

-----------------------------------------------------------------------------
(***************************************************************************)
(* The theorems                                                            *)
(***************************************************************************)

LEMMA InitIInv == Init => IInv
<1> SUFFICES ASSUME Init
             PROVE  IInv
  OBVIOUS
<1> DEFINE d == NewProcess(0)
<1>1. /\ DOMAIN d = Fields
      /\ d.bridge = FALSE /\ d.started = FALSE
      /\ d.conn = 0 /\ d.opens = 0 /\ d.connected = FALSE
      /\ d.joined = FALSE /\ d.proxies = NoProxies
  BY DEF NewProcess, Fields
<1>2. client = d
  BY DEF Init
<1> HIDE DEF d
<1>3. Fit(client, reopened)
  BY <1>1, <1>2 DEF Fit, Typed, Sound, Current, AtHome, NoProxies
<1>4. SeatInv
  BY <1>1, <1>2 DEF Init, MInit, SeatInv
<1>5. NetInv
  BY DEF Init, NetInv, Speaks
<1>. QED  BY <1>3, <1>4, <1>5 DEF IInv

LEMMA NextIInv == IInv /\ [Next]_vars => IInv'
<1> SUFFICES ASSUME IInv, [Next]_vars
             PROVE  IInv'
  OBVIOUS
<1>1. CASE LiveTick \/ EmissionTick \/ LiveQuery \/ Shutdown \/ ClientCrash
  BY <1>1, LiveTickKeeps, EmissionTickKeeps, LiveQueryKeeps, ShutdownKeeps, ClientCrashKeeps
<1>2. CASE \E m \in toService : ServiceHandles(m)
  BY <1>2, HandlesKeeps
<1>3. CASE PeerHello \/ PeerTalks \/ PeerNews \/ ServiceCrash
  BY <1>3, PeerHelloKeeps, PeerTalksKeeps, PeerNewsKeeps, ServiceCrashKeeps
<1>4. CASE ServiceStarts \/ Lose \/ UNCHANGED vars
  <2>1. /\ UNCHANGED <<client, reopened, crashes, seat, home, route>>
        /\ toService' \subseteq toService /\ toClient' \subseteq toClient
    BY <1>4 DEF ServiceStarts, Lose, vars, service
  <2>2. SeatInv'
    BY <2>1 DEF IInv, SeatInv
  <2>. QED  BY <2>1, <2>2, HomeStays
<1>. QED  BY <1>1, <1>2, <1>3, <1>4 DEF Next

\* What the client remembers, what is in flight and what the service keeps fit
\* together, whatever is lost, repeated, delayed, closed or restarted.
THEOREM Invariance == Spec => []IInv
  BY InitIInv, NextIInv, PTL DEF Spec

\* The id latched by the first tick after WELCOME is the one the service keeps:
\* in the observer that stamps it on states, and in the filter that ignores it.
THEOREM IdentityIsLatched == Spec => []IdentityAgrees
<1>1. IInv => IdentityAgrees
  BY DEF IInv, Fit, Sound, AtHome, IdentityAgrees
<1>. QED  BY <1>1, Invariance, PTL

\* rpm_apply_remote_player_state never leaves a proxy of an earlier connection
\* or of the client itself on the screen, although the service relays a state to
\* its sender and the client may close and open at any time.
THEOREM ProxiesOfThisSession == Spec => []ProxiesAreCurrent
<1>1. IInv => ProxiesAreCurrent
  <2> SUFFICES ASSUME IInv, client.started, ~reopened
               PROVE  /\ \A i \in Ids : client.proxies[i] \in {0, client.conn}
                      /\ client.joined /\ crashes = 0 => client.proxies[home[Me]] = 0
    BY DEF ProxiesAreCurrent
  <2>1. \A i \in Ids : client.proxies[i] \in {0, client.conn}
    BY DEF IInv, Fit, Current
  <2>2. ASSUME client.joined, crashes = 0
        PROVE  client.proxies[home[Me]] = 0
    <3>1. home[Me] # 0
      BY <2>2 DEF IInv, Fit, Sound, AtHome
    <3>2. home[Me] \in Ids
      BY <3>1, ClientAssumption DEF IInv, SeatInv
    <3>. QED  BY <2>2, <3>2 DEF IInv, Fit, AtHome
  <2>. QED  BY <2>1, <2>2
<1>. QED  BY <1>1, Invariance, PTL

-----------------------------------------------------------------------------
(***************************************************************************)
(* Signs of life                                                           *)
(*                                                                         *)
(* Between two signs of life the client may tick Left times, or once more  *)
(* for each datagram it cannot apply, and others may send Chatter messages *)
(* per tick.  The invariant is this account: what the service has counted  *)
(* and what may still be counted stay below LongestSilence.                *)
(***************************************************************************)

Beat == fltcfg_load_default(disk).heartbeat

\* The counters of an open connection.
Timed(c) ==
    c.started =>
        /\ c.heartbeat = Beat
        /\ c.since \in 0 .. (RetryPolls - 1)
        /\ c.tick \in Nat /\ (Beat > 0 => c.tick < Beat)

\* Ticks until the next HELLO or ping, as long as everything can be applied.
Left(c) ==
    IF c.connected THEN c.heartbeat - c.tick
    ELSE RetryPolls - c.since + c.heartbeat - 1

Refusal == Message("refused", 0)

\* Ticks that may yet be lost to a datagram that cannot be applied.
Spare ==
    MaxFaults[link] - refused - crashes + (IF Refusal \in toClient THEN 1 ELSE 0)

\* A HELLO or a ping: on a prompt link it is handled before the next client tick.
Signs(out) == \E m \in out : m.kind \in {"hello", "ping"}

\* What a process says on its present connection.
Own(c, out) == \A m \in out : m.conn = c.conn /\ m.kind \in {"hello", "ping", "state"}

\* Seated and ticking, with heartbeats.
Watched == Prompt /\ client.started /\ route = client.conn /\ Beat > 0

Patience(n) ==
    /\ silent + (Chatter - chat) <= n
    /\ Signs(toService) \/ silent + Chatter * (Left(client) + Spare) + (Chatter - chat) <= n

\* The counters of the network and of the service.
Counters ==
    /\ disk \in Disks /\ link \in Links
    /\ chat \in 0 .. Chatter /\ silent \in Nat
    /\ refused \in Nat /\ refused + crashes <= MaxFaults[link]
    /\ up \/ route = 0
    /\ \A x \in toClient : x.kind = "refused" => x = Refusal /\ refused > 0

SilenceInv ==
    /\ Counters
    /\ Timed(client)
    /\ Prompt /\ client.started => Own(client, toService)
    /\ Watched => Patience(LongestSilence(fltcfg_load_default(disk)))

\* Multiplying out what one tick costs.
LEMMA OneTickLess ==
    ASSUME NEW k \in Nat, NEW x \in Int, NEW y \in Int, x < y
    PROVE  k * x + k <= k * y /\ k * x <= k * y
<1> DEFINE z == y - x - 1
<1>1. z \in Nat /\ y = x + 1 + z
  OBVIOUS
<1>2. k * z \in Nat
  BY <1>1
<1>3. k * (x + 1 + z) = k * x + k + k * z
  BY <1>1
<1>4. k * x \in Int
  OBVIOUS
<1> HIDE DEF z
<1>. QED  BY <1>1, <1>2, <1>3, <1>4

LEMMA NoMore ==
    ASSUME NEW k \in Nat, NEW x \in Int, NEW y \in Int, x <= y
    PROVE  k * x <= k * y
<1>1. CASE x = y
  BY <1>1
<1>2. CASE x < y
  BY <1>2, OneTickLess
<1>. QED  BY <1>1, <1>2

\* The tick counter without the division.
LEMMA NextCount ==
    ASSUME NEW h \in Nat \ {0}, NEW t \in Nat, t < h
    PROVE  (t + 1) % h = IF t + 1 = h THEN 0 ELSE t + 1
<1>1. CASE t + 1 = h
  <2>1. h % h = 0
    OBVIOUS
  <2>. QED  BY <1>1, <2>1
<1>2. CASE t + 1 < h
  BY <1>2
<1>. QED  BY <1>1, <1>2

\* The files hold an interval.
LEMMA BeatIsNat ==
    ASSUME disk \in Disks
    PROVE  Beat \in Nat
  BY HeartbeatAssumption DEF Beat

\* d is c as far as connection and counters go.
SameClock(c, d) ==
    /\ DOMAIN d = Fields
    /\ d.started = c.started /\ d.conn = c.conn /\ d.connected = c.connected
    /\ d.joined = c.joined /\ d.since = c.since /\ d.tick = c.tick
    /\ d.heartbeat = c.heartbeat

LEMMA SameClockTimed ==
    ASSUME NEW c, NEW d, SameClock(c, d)
    PROVE  /\ Timed(c) => Timed(d)
           /\ Left(d) = Left(c)
           /\ \A out : Own(c, out) => Own(d, out)
  BY DEF SameClock, Timed, Left, Own

LEMMA ProxiesSameClock ==
    ASSUME NEW c, NEW i, DOMAIN c = Fields
    PROVE  /\ SameClock(c, rpm_apply_remote_player_state(c, i))
           /\ SameClock(c, rpm_remove_remote_player(c, i))
<1>1. ASSUME NEW q
      PROVE  SameClock(c, [c EXCEPT !.proxies = q])
  BY DEF SameClock, Fields
<1>2. SameClock(c, c)
  BY DEF SameClock
<1>3. SameClock(c, rpm_apply_remote_player_state(c, i))
  <2>1. CASE i \in {0, c.rpm}
    BY <1>2, <2>1 DEF rpm_apply_remote_player_state
  <2>2. CASE i \notin {0, c.rpm}
    <3> DEFINE q == [c.proxies EXCEPT ![i] = IF @ = 0 THEN c.conn ELSE @]
    <3>1. rpm_apply_remote_player_state(c, i) = [c EXCEPT !.proxies = q]
      BY <2>2 DEF rpm_apply_remote_player_state
    <3> HIDE DEF q
    <3>. QED  BY <1>1, <3>1
  <2>. QED  BY <2>1, <2>2
<1>4. SameClock(c, rpm_remove_remote_player(c, i))
  <2>1. CASE i = c.rpm
    BY <1>2, <2>1 DEF rpm_remove_remote_player
  <2>2. CASE i # c.rpm
    <3> DEFINE q == [c.proxies EXCEPT ![i] = 0]
    <3>1. rpm_remove_remote_player(c, i) = [c EXCEPT !.proxies = q]
      BY <2>2 DEF rpm_remove_remote_player
    <3> HIDE DEF q
    <3>. QED  BY <1>1, <3>1
  <2>. QED  BY <2>1, <2>2
<1>. QED  BY <1>3, <1>4

\* What a poll does to connection and counters.
Polled(c, r) ==
    /\ DOMAIN r.client = Fields
    /\ r.client.started = c.started /\ r.client.conn = c.conn
    /\ r.client.joined = c.joined /\ r.client.tick = c.tick
    /\ r.client.heartbeat = c.heartbeat
    /\ r.client.since \in 0 .. (RetryPolls - 1)
    /\ Own(r.client, r.sent)
    /\ c.connected => r.client.connected
    /\ ~r.client.connected => Signs(r.sent) \/ r.client.since = c.since + 1

\* ptc_maybe_retry_hello, behind the counter.
LEMMA RetryPolled ==
    ASSUME NEW c, NEW d, NEW e, DOMAIN c = Fields, c.since \in 0 .. (RetryPolls - 1),
           d = (IF c.connected THEN c ELSE [c EXCEPT !.since = @ + 1]),
           SameClock(d, e), NEW r \in ptc_maybe_retry_hello(e)
    PROVE  Polled(c, r) /\ r.ok
<1>0. RetryPolls \in Nat \ {0}
  BY ClientAssumption
<1>1. /\ d.started = c.started /\ d.conn = c.conn /\ d.connected = c.connected
      /\ d.joined = c.joined /\ d.tick = c.tick /\ d.heartbeat = c.heartbeat
      /\ c.connected => d.since = c.since
      /\ ~c.connected => d.since = c.since + 1
  BY DEF Fields
<1>2. /\ DOMAIN e = Fields
      /\ e.started = c.started /\ e.conn = c.conn /\ e.connected = c.connected
      /\ e.joined = c.joined /\ e.tick = c.tick /\ e.heartbeat = c.heartbeat
      /\ c.connected => e.since = c.since
      /\ ~c.connected => e.since = c.since + 1
  BY <1>1 DEF SameClock
<1>3. CASE e.connected \/ e.since < RetryPolls
  <2>1. r.client = e /\ r.sent = {} /\ r.ok
    BY <1>3 DEF ptc_maybe_retry_hello, Done, Result
  <2>2. e.since \in 0 .. (RetryPolls - 1)
    BY <1>0, <1>2, <1>3
  <2>. QED  BY <1>2, <2>1, <2>2 DEF Polled, Own
<1>4. CASE ~(e.connected \/ e.since < RetryPolls)
  <2> DEFINE f == [e EXCEPT !.since = 0]
             h == Datagram(e, "hello", 0)
  <2>1. r.client = f /\ r.sent = {h} /\ r.ok
    BY <1>4 DEF ptc_maybe_retry_hello, Result
  <2>2. /\ DOMAIN f = Fields
        /\ f.started = e.started /\ f.conn = e.conn /\ f.connected = e.connected
        /\ f.joined = e.joined /\ f.tick = e.tick /\ f.heartbeat = e.heartbeat
        /\ f.since = 0
    BY <1>2 DEF Fields
  <2>3. h.conn = e.conn /\ h.kind = "hello"
    BY DEF Datagram
  <2> HIDE DEF f, h
  <2>4. Own(f, {h}) /\ Signs({h})
    BY <2>2, <2>3 DEF Own, Signs
  <2>. QED  BY <1>0, <1>2, <2>1, <2>2, <2>4 DEF Polled
<1>. QED  BY <1>3, <1>4

LEMMA PollPolled ==
    ASSUME NEW c, NEW m, DOMAIN c = Fields, c.since \in 0 .. (RetryPolls - 1),
           NEW r \in ptc_poll_once(c, m)
    PROVE  /\ Polled(c, r)
           /\ ~r.ok => m.kind = "refused" /\ c.connected /\ r.client = c
<1> DEFINE d == IF c.connected THEN c ELSE [c EXCEPT !.since = @ + 1]
<1>0. RetryPolls \in Nat \ {0}
  BY ClientAssumption
<1>1. /\ r \in CASE m.kind = "welcome" ->
                        Done([d EXCEPT !.connected = TRUE, !.id = m.id, !.since = 0])
               [] m.kind = "state"   -> ptc_maybe_retry_hello(rpm_apply_remote_player_state(d, m.id))
               [] m.kind = "left"    -> ptc_maybe_retry_hello(rpm_remove_remote_player(d, m.id))
               [] m.kind = "refused" -> Refuse(d)
               [] OTHER              -> ptc_maybe_retry_hello(d)
  BY DEF ptc_poll_once
<1>2. /\ DOMAIN d = Fields /\ d.started = c.started /\ d.conn = c.conn
      /\ d.connected = c.connected /\ d.joined = c.joined /\ d.tick = c.tick
      /\ d.heartbeat = c.heartbeat /\ (c.connected => d = c)
  BY DEF Fields
<1>3. ASSUME NEW e, SameClock(d, e), NEW s \in ptc_maybe_retry_hello(e)
      PROVE  Polled(c, s) /\ s.ok
  BY <1>3, RetryPolled
<1> HIDE DEF d
<1>4. SameClock(d, d)
  BY <1>2 DEF SameClock
<1>5. CASE m.kind = "welcome"
  <2> DEFINE e == [d EXCEPT !.connected = TRUE, !.id = m.id, !.since = 0]
  <2>1. r.client = e /\ r.sent = {} /\ r.ok
    BY <1>1, <1>5 DEF Done, Result
  <2>2. /\ DOMAIN e = Fields /\ e.started = c.started /\ e.conn = c.conn
        /\ e.connected = TRUE /\ e.joined = c.joined /\ e.tick = c.tick
        /\ e.heartbeat = c.heartbeat /\ e.since = 0
    BY <1>2 DEF Fields
  <2> HIDE DEF e
  <2>. QED  BY <1>0, <2>1, <2>2 DEF Polled, Own
<1>6. CASE m.kind = "state"
  <2> DEFINE e == rpm_apply_remote_player_state(d, m.id)
  <2>1. SameClock(d, e)
    BY <1>2, ProxiesSameClock
  <2>2. r \in ptc_maybe_retry_hello(e)
    BY <1>1, <1>6
  <2> HIDE DEF e
  <2>. QED  BY <1>3, <2>1, <2>2
<1>7. CASE m.kind = "left"
  <2> DEFINE e == rpm_remove_remote_player(d, m.id)
  <2>1. SameClock(d, e)
    BY <1>2, ProxiesSameClock
  <2>2. r \in ptc_maybe_retry_hello(e)
    BY <1>1, <1>7
  <2> HIDE DEF e
  <2>. QED  BY <1>3, <2>1, <2>2
<1>8. CASE m.kind = "refused"
  <2>1. r \in Refuse(d)
    BY <1>1, <1>8
  <2>2. CASE d.connected
    <3>1. r.client = c /\ r.sent = {}
      BY <1>2, <2>1, <2>2 DEF Refuse, Result
    <3>. QED  BY <1>2, <1>8, <2>2, <3>1 DEF Polled, Own
  <2>3. CASE ~d.connected
    <3>1. r \in ptc_maybe_retry_hello(d)
      BY <2>1, <2>3 DEF Refuse
    <3>. QED  BY <1>3, <1>4, <3>1
  <2>. QED  BY <2>2, <2>3
<1>9. CASE m.kind \notin {"welcome", "state", "left", "refused"}
  <2>1. r \in ptc_maybe_retry_hello(d)
    BY <1>1, <1>9
  <2>. QED  BY <1>3, <1>4, <2>1
<1>. QED  BY <1>5, <1>6, <1>7, <1>8, <1>9

\* What a tick of an open connection does to the time that is left: a sign of
\* life is on its way, or one tick is over, or it was lost to m.
Beats(c, m, r) ==
    /\ r.client.started /\ r.client.conn = c.conn
    /\ Beat > 0 => \/ Signs(r.sent)
                   \/ Left(r.client) < Left(c)
                   \/ m.kind = "refused" /\ Left(r.client) = Left(c)

\* A result that keeps the counters.
Timely(r) ==
    /\ Timed(r.client)
    /\ r.client.started => Own(r.client, r.sent)
    /\ ~r.client.started => r.sent = {}

\* What follows the poll.
LEMMA RestBeats ==
    ASSUME NEW c, DOMAIN c = Fields, c.started, Timed(c), Beat \in Nat,
           NEW r \in Spoken(Counted(Joined(c)))
    PROVE  /\ Timely(r) /\ r.client.started /\ r.client.conn = c.conn
           /\ r.client.connected = c.connected /\ r.client.since = c.since
           /\ r.client.heartbeat = c.heartbeat
           /\ Beat > 0 => r.client.tick = (IF c.tick + 1 = Beat THEN 0 ELSE c.tick + 1)
           /\ Beat > 0 /\ c.connected /\ c.tick + 1 = Beat => Signs(r.sent)
<1> DEFINE d == Joined(c)
           e == Counted(d)
<1>1. /\ DOMAIN d = Fields /\ d.started = c.started /\ d.conn = c.conn
      /\ d.connected = c.connected /\ d.since = c.since /\ d.tick = c.tick
      /\ d.heartbeat = c.heartbeat /\ (c.connected => d.joined)
  BY DEF Joined, Fields
<1>2. e = Counted(d) /\ r \in Spoken(e)
  OBVIOUS
<1> HIDE DEF d, e
<1>3. /\ DOMAIN e = Fields /\ e.started = c.started /\ e.conn = c.conn
      /\ e.connected = c.connected /\ e.since = c.since /\ e.joined = d.joined
      /\ e.heartbeat = c.heartbeat
      /\ e.heartbeat = 0 => e.tick = c.tick
      /\ e.heartbeat # 0 => e.tick = (c.tick + 1) % e.heartbeat
  BY <1>1, <1>2 DEF Counted, Fields
<1>4. c.heartbeat = Beat /\ c.since \in 0 .. (RetryPolls - 1) /\ c.tick \in Nat
      /\ (Beat > 0 => c.tick < Beat)
  BY DEF Timed
<1>5. Beat > 0 => e.tick = (IF c.tick + 1 = Beat THEN 0 ELSE c.tick + 1)
  BY <1>3, <1>4, NextCount
<1>6. Timed(e)
  BY <1>3, <1>4, <1>5 DEF Timed
<1> DEFINE ping == IF e.joined /\ e.heartbeat > 0 /\ e.tick = 0
                   THEN {Datagram(e, "ping", 0)} ELSE {}
<1>7. PICK s \in {{}} \cup (IF e.joined THEN {{Datagram(e, "state", e.lpo)}} ELSE {}) :
        r = Result(e, ping \cup s, TRUE)
  BY <1>2 DEF Spoken
<1>8. r.client = e /\ r.sent = ping \cup s
  BY <1>7 DEF Result
<1>9. \A k \in {"ping", "state"} : \A i :
        Datagram(e, k, i).conn = e.conn /\ Datagram(e, k, i).kind = k
  BY DEF Datagram
<1>10. Own(e, ping) /\ Own(e, s)
  BY <1>7, <1>9 DEF Own
<1>11. Own(e, ping \cup s)
  BY <1>10 DEF Own
<1>12. Beat > 0 /\ c.connected /\ c.tick + 1 = Beat => Signs(ping)
  BY <1>1, <1>3, <1>4, <1>5, <1>9 DEF Signs
<1> HIDE DEF ping
<1>13. Beat > 0 /\ c.connected /\ c.tick + 1 = Beat => Signs(ping \cup s)
  BY <1>12 DEF Signs
<1>. QED  BY <1>3, <1>5, <1>6, <1>8, <1>11, <1>13 DEF Timely

LEMMA TickBeats ==
    ASSUME NEW c, NEW m, DOMAIN c = Fields, c.started, Timed(c), Beat \in Nat,
           NEW r \in mlcb_tick(c, m)
    PROVE  Timely(r) /\ Beats(c, m, r)
<1>0. RetryPolls \in Nat \ {0}
  BY ClientAssumption
<1>1. /\ c.heartbeat = Beat /\ c.since \in 0 .. (RetryPolls - 1) /\ c.tick \in Nat
      /\ Beat > 0 => c.tick < Beat
  BY DEF Timed
<1>2. CASE r \in ptc_poll_once(c, m) /\ ~r.ok
  <2>1. Polled(c, r) /\ m.kind = "refused" /\ r.client = c
    BY <1>1, <1>2, PollPolled
  <2>. QED  BY <2>1 DEF Timely, Beats, Polled
<1>3. CASE ~(r \in ptc_poll_once(c, m) /\ ~r.ok)
  <2>1. PICK p \in ptc_poll_once(c, m) :
          \E s \in Spoken(Counted(Joined(p.client))) :
             r = Result(s.client, p.sent \cup s.sent, s.ok)
    BY <1>3 DEF mlcb_tick, Then
  <2>2. PICK s \in Spoken(Counted(Joined(p.client))) :
          r = Result(s.client, p.sent \cup s.sent, s.ok)
    BY <2>1
  <2>3. r.client = s.client /\ r.sent = p.sent \cup s.sent
    BY <2>2 DEF Result
  <2>4. Polled(c, p)
    BY <1>1, PollPolled
  <2> DEFINE d == p.client
             e == s.client
  <2>5. Timed(d) /\ d.started /\ DOMAIN d = Fields
    BY <1>1, <2>4 DEF Timed, Polled
  <2>6. /\ Timely(s) /\ e.started /\ e.conn = d.conn
        /\ e.connected = d.connected /\ e.since = d.since
        /\ e.heartbeat = d.heartbeat
        /\ Beat > 0 => e.tick = (IF d.tick + 1 = Beat THEN 0 ELSE d.tick + 1)
        /\ Beat > 0 /\ d.connected /\ d.tick + 1 = Beat => Signs(s.sent)
    BY <2>5, RestBeats
  <2>7. /\ d.conn = c.conn /\ d.tick = c.tick /\ d.heartbeat = c.heartbeat
        /\ d.since \in 0 .. (RetryPolls - 1)
        /\ Own(d, p.sent)
        /\ c.connected => d.connected
        /\ ~d.connected => Signs(p.sent) \/ d.since = c.since + 1
    BY <2>4 DEF Polled
  <2>8. Timely(r)
    BY <2>3, <2>6, <2>7 DEF Timely, Own
  <2> HIDE DEF d, e
  <2>9. Signs(p.sent) \/ Signs(s.sent) => Signs(r.sent)
    BY <2>3 DEF Signs
  <2>10. ASSUME Beat > 0, ~Signs(r.sent)
         PROVE  Left(e) < Left(c)
    BY <1>0, <1>1, <2>6, <2>7, <2>9, <2>10 DEF Left
  <2>. QED  BY <2>3, <2>6, <2>7, <2>8, <2>10 DEF Beats, e
<1>. QED  BY <1>2, <1>3

\* A connection that was not open before is a new one.
Opens(c, d) ==
    ~c.started => IF d.started THEN d.conn = c.opens + 1 ELSE d.opens = c.opens

\* Opening: the counters are set.
LEMMA InitTimely ==
    ASSUME NEW c, DOMAIN c = Fields, Timed(c), Beat \in Nat, NEW r \in fltdev_init(c)
    PROVE  /\ Timely(r) /\ DOMAIN r.client = Fields /\ Opens(c, r.client)
           /\ c.started => r.client = c /\ r.sent = {} /\ r.ok
<1> DEFINE cfg == fltcfg_load_default(disk)
           n   == reset_state(c)
           q   == [n EXCEPT !.loaded = TRUE]
<1>0. RetryPolls \in Nat \ {0}
  BY ClientAssumption
<1>1. CASE c.started \/ c.loaded
  <2>1. r.client = c /\ r.sent = {} /\ r.ok
    BY <1>1 DEF fltdev_init, Done, Result
  <2>. QED  BY <2>1 DEF Timely, Own, Opens
<1>2. CASE ~(c.started \/ c.loaded)
  <2>1. \/ r = Result(q, {}, TRUE)
        \/ r = Result(n, {}, FALSE)
        \/ r \in mlcb_open(q, cfg)
    BY <1>2 DEF fltdev_init, Done
  <2>2. /\ DOMAIN n = Fields /\ n.started = FALSE /\ n.since = 0 /\ n.tick = 0
        /\ n.opens = c.opens
    BY DEF reset_state, NewProcess, Fields
  <2> HIDE DEF n
  <2>3. /\ DOMAIN q = Fields /\ q.started = FALSE /\ q.since = 0 /\ q.tick = 0
        /\ q.opens = c.opens
    BY <2>2 DEF Fields
  <2> HIDE DEF q
  <2>4. CASE r = Result(q, {}, TRUE)
    BY <1>2, <2>3, <2>4 DEF Result, Timely, Timed, Opens
  <2>5. CASE r = Result(n, {}, FALSE)
    BY <1>2, <2>2, <2>5 DEF Result, Timely, Timed, Opens
  <2>6. CASE r \in mlcb_open(q, cfg)
    <3> DEFINE o == [q EXCEPT !.started = TRUE, !.opens = @ + 1, !.conn = q.opens + 1,
                              !.heartbeat = cfg.heartbeat]
               h == Datagram(o, "hello", 0)
    <3>1. r.client = o /\ r.sent = {h}
      BY <2>6 DEF mlcb_open, Result
    <3>2. /\ DOMAIN o = Fields /\ o.started = TRUE /\ o.since = 0 /\ o.tick = 0 
          /\ o.heartbeat = Beat /\ o.conn = c.opens + 1
      BY <2>3 DEF Fields, Beat
    <3>3. h.conn = o.conn /\ h.kind = "hello"
      BY DEF Datagram
    <3> HIDE DEF o, h
    <3>4. Timed(o) /\ Own(o, {h})
      BY <1>0, <3>2, <3>3 DEF Timed, Own
    <3>. QED  BY <1>2, <3>1, <3>2, <3>4 DEF Timely, Opens
  <2>. QED  BY <2>1, <2>4, <2>5, <2>6
<1>. QED  BY <1>1, <1>2

LEMMA OnceTimely ==
    ASSUME NEW c, DOMAIN c = Fields, Timed(c), Beat \in Nat, NEW r \in f4mp_bridge_init_once(c)
    PROVE  /\ Timely(r) /\ DOMAIN r.client = Fields /\ Opens(c, r.client)
           /\ c.started => /\ SameClock(c, r.client) /\ r.client.loaded = c.loaded
                           /\ r.sent = {} /\ r.ok
<1>1. CASE c.bridge
  <2>1. r.client = c /\ r.sent = {} /\ r.ok
    BY <1>1 DEF f4mp_bridge_init_once, Done, Result
  <2>. QED  BY <2>1 DEF Timely, Own, SameClock, Opens
<1>2. CASE ~c.bridge
  <2> DEFINE d == [c EXCEPT !.proxies = NoProxies, !.rpm = 0, !.bridge = TRUE]
  <2>1. r \in fltdev_init(d)
    BY <1>2 DEF f4mp_bridge_init_once, ebstub_init
  <2>2. SameClock(c, d) /\ d.loaded = c.loaded /\ d.opens = c.opens
    BY DEF SameClock, Fields
  <2> HIDE DEF d
  <2>3. DOMAIN d = Fields /\ Timed(d) /\ d.started = c.started
    BY <2>2, SameClockTimed DEF SameClock
  <2>4. /\ Timely(r) /\ DOMAIN r.client = Fields /\ Opens(d, r.client)
        /\ d.started => r.client = d /\ r.sent = {} /\ r.ok
    BY <2>1, <2>3, InitTimely
  <2>. QED  BY <2>2, <2>3, <2>4 DEF Opens
<1>. QED  BY <1>1, <1>2

\* fltdev_tick, which may open the connection first.
LEMMA DevTickBeats ==
    ASSUME NEW c, NEW m, DOMAIN c = Fields, Timed(c), Beat \in Nat,
           c.started => c.loaded, NEW r \in fltdev_tick(c, m)
    PROVE  Timely(r) /\ Opens(c, r.client) /\ (c.started => Beats(c, m, r))
<1> DEFINE inited == IF c.loaded THEN Done(c) ELSE fltdev_init(c)
           Run(d) == IF d.started THEN mlcb_tick(d, m) ELSE Done(d)
<1>1. ASSUME NEW p \in inited
      PROVE  /\ Timely(p) /\ DOMAIN p.client = Fields /\ Opens(c, p.client)
             /\ c.started => p.client = c /\ p.sent = {} /\ p.ok
  <2>1. CASE c.loaded
    <3>1. p.client = c /\ p.sent = {} /\ p.ok
      BY <1>1, <2>1 DEF Done, Result
    <3>. QED  BY <3>1 DEF Timely, Own, Opens
  <2>2. CASE ~c.loaded
    BY <1>1, <2>2, InitTimely
  <2>. QED  BY <2>1, <2>2
<1>2. \/ r \in inited /\ ~r.ok
      \/ \E p \in inited : \E s \in Run(p.client) :
            r = Result(s.client, p.sent \cup s.sent, s.ok)
  BY DEF fltdev_tick, Then
<1>3. ASSUME NEW d, NEW s \in Run(d)
      PROVE  /\ d.started => s \in mlcb_tick(d, m)
             /\ ~d.started => s.client = d /\ s.sent = {}
  BY <1>3 DEF Done, Result
<1> HIDE DEF inited, Run
<1>4. CASE r \in inited /\ ~r.ok
  BY <1>1, <1>4
<1>5. ASSUME NEW p \in inited, NEW s \in Run(p.client),
             r = Result(s.client, p.sent \cup s.sent, s.ok)
      PROVE  Timely(r) /\ Opens(c, r.client) /\ (c.started => Beats(c, m, r))
  <2> DEFINE d == p.client
  <2>1. r.client = s.client /\ r.sent = p.sent \cup s.sent
    BY <1>5 DEF Result
  <2>2. /\ Timely(p) /\ DOMAIN d = Fields /\ Opens(c, d)
        /\ c.started => d = c /\ p.sent = {}
    BY <1>1
  <2>3. CASE d.started
    <3>1. s \in mlcb_tick(d, m)
      BY <1>3, <2>3
    <3>2. Timely(s) /\ Beats(d, m, s)
      BY <2>2, <2>3, <3>1, TickBeats DEF Timely
    <3>3. Own(d, p.sent) /\ Own(s.client, s.sent) /\ s.client.conn = d.conn
      BY <2>2, <2>3, <3>2 DEF Timely, Beats
    <3>4. Own(s.client, p.sent \cup s.sent)
      BY <3>3 DEF Own
    <3>5. Timely(r)
      BY <2>1, <3>2, <3>4 DEF Timely, Beats
    <3>6. c.started => d = c /\ r.sent = s.sent
      BY <2>1, <2>2
    <3>. QED  BY <2>1, <2>2, <2>3, <3>2, <3>5, <3>6 DEF Beats, Opens
  <2>4. CASE ~d.started
    <3>1. s.client = d /\ s.sent = {}
      BY <1>3, <2>4
    <3>. QED  BY <2>1, <2>2, <2>4, <3>1 DEF Timely, Opens
  <2>. QED  BY <2>3, <2>4
<1>. QED  BY <1>2, <1>4, <1>5

\* F4MP_LiveTick: f4mp_bridge_init_once and fltdev_tick.
LEMMA LiveTickBeats ==
    ASSUME IInv, SilenceInv, NEW m, NEW x, NEW p \in f4mp_bridge_init_once(client),
           x = (IF p.client.conn = client.conn THEN m ELSE Nothing),
           NEW s \in fltdev_tick(p.client, x),
           NEW r, r = Result(s.client, p.sent \cup s.sent, s.ok)
    PROVE  /\ Timely(r) /\ Opens(client, r.client)
           /\ client.started => Beats(client, m, r)
<1> DEFINE d == p.client
<1>1. r.client = s.client /\ r.sent = p.sent \cup s.sent
  BY DEF Result
<1>2. DOMAIN client = Fields /\ Timed(client) /\ Beat \in Nat
  BY BeatIsNat DEF IInv, Fit, Typed, SilenceInv, Counters
<1>3. /\ Timely(p) /\ DOMAIN d = Fields /\ Opens(client, d)
      /\ client.started => SameClock(client, d) /\ p.sent = {}
  BY <1>2, OnceTimely
<1>4. d.started => d.loaded
  BY OnceIsProper DEF IInv, Proper, Fit, Sound
<1>5. /\ Timely(s) /\ Opens(d, s.client)
      /\ d.started => Beats(d, x, s)
  BY <1>2, <1>3, <1>4, DevTickBeats DEF Timely
<1>6. CASE client.started
  <2>1. d.started /\ d.conn = client.conn /\ x = m /\ r.sent = s.sent
    BY <1>1, <1>3, <1>6 DEF SameClock
  <2>2. Left(d) = Left(client)
    BY <1>3, <1>6, SameClockTimed
  <2>3. Beats(client, m, r)
    BY <1>1, <1>5, <2>1, <2>2 DEF Beats
  <2>. QED  BY <1>1, <1>5, <1>6, <2>1, <2>3 DEF Timely, Opens
<1>7. CASE ~client.started
  <2>1. CASE d.started
    <3>1. s.client.started /\ s.client.conn = d.conn /\ d.conn = client.opens + 1
      BY <1>3, <1>5, <1>7, <2>1 DEF Beats, Opens
    <3>2. Own(d, p.sent) /\ Own(s.client, s.sent)
      BY <1>3, <1>5, <2>1, <3>1 DEF Timely
    <3>3. Own(s.client, p.sent \cup s.sent)
      BY <3>1, <3>2 DEF Own
    <3>. QED  BY <1>1, <1>5, <1>7, <3>1, <3>3 DEF Timely, Opens
  <2>2. CASE ~d.started
    <3>1. p.sent = {} /\ d.opens = client.opens /\ r.sent = s.sent
      BY <1>1, <1>3, <1>7, <2>2 DEF Timely, Opens
    <3>. QED  BY <1>1, <1>5, <1>7, <2>2, <3>1 DEF Timely, Opens
  <2>. QED  BY <2>1, <2>2
<1>. QED  BY <1>6, <1>7

-----------------------------------------------------------------------------

\* What is left is bounded, whatever the connection is doing.
LEMMA LeftBounds ==
    ASSUME NEW c, c.started, Timed(c), Beat \in Nat, Beat > 0
    PROVE  Left(c) \in 1 .. (RetryPolls + Beat - 1)
  BY ClientAssumption DEF Timed, Left

LEMMA SpareBounds ==
    ASSUME Counters, crashes \in Nat
    PROVE  Spare \in 0 .. MaxFaults[link]
<1>1. MaxFaults[link] \in Nat
  BY ClientAssumption DEF Counters
<1>2. Refusal.kind = "refused"
  BY DEF Refusal, Message
<1>3. Refusal \in toClient => refused > 0
  BY <1>2 DEF Counters
<1>. QED  BY <1>1, <1>3 DEF Counters, Spare

LEMMA Longest ==
    ASSUME Prompt
    PROVE  LongestSilence(fltcfg_load_default(disk))
              = 1 + (RetryPolls + Beat + MaxFaults[link]) * Chatter
  BY DEF Prompt, LongestSilence, Beat

\* A step of the client leaves the counters of the others alone.
LEMMA ClientCounters ==
    ASSUME Counters, NEW R, NEW m, ClientStep(R, m), chat' \in {0, chat}
    PROVE  /\ Counters' /\ UNCHANGED <<disk, link, up, crashes, refused, route, silent>>
           /\ toClient' \subseteq toClient
<1>1. UNCHANGED <<disk, link, up, crashes, refused, route, silent>>
  BY DEF ClientStep, service
<1>2. toClient' \subseteq toClient
  BY StepParts
<1>3. Chatter \in Nat
  BY ClientAssumption
<1>. QED  BY <1>1, <1>2, <1>3 DEF Counters, Refusal

\* A tick of the client: HELLO or a ping is on its way, or the account is one
\* tick shorter.
LEMMA TickKeepsSilence ==
    ASSUME IInv, SilenceInv, NEW R, NEW m \in Inbox, ClientStep(R, m), chat' = 0,
           \A r \in R : /\ Timely(r) /\ Opens(client, r.client)
                        /\ client.started => Beats(client, m, r)
    PROVE  SilenceInv'
<1>0. Chatter \in Nat
  BY ClientAssumption
<1>1. /\ Counters' /\ UNCHANGED <<disk, link, up, crashes, refused, route, silent>>
      /\ toClient' \subseteq toClient
  BY ClientCounters DEF SilenceInv
<1>2. PICK r \in R :
        /\ client' = r.client
        /\ toService' = SentToService(toService, r.sent)
        /\ IF r.client.conn = client.conn /\ client.conn # 0
           THEN toClient' \in Taken(toClient, m) ELSE toClient' = {}
  BY DEF ClientStep
<1>3. /\ Timely(r) /\ Opens(client, r.client)
      /\ client.started => Beats(client, m, r)
  BY <1>2
<1>4. Beat' = Beat /\ Beat \in Nat /\ Prompt' = Prompt
  BY <1>1, BeatIsNat DEF Beat, SilenceInv, Counters, Prompt
<1>5. Timed(client)'
  BY <1>2, <1>3, <1>4 DEF Timely, Timed
<1>6. Prompt => toService = {} /\ toService' \subseteq r.sent /\ (up => toService' = r.sent)
  BY <1>2 DEF ClientStep, SentToService
<1>7. (Prompt /\ client.started => Own(client, toService))'
  BY <1>2, <1>3, <1>4, <1>6 DEF Timely, Own
<1> DEFINE n == LongestSilence(fltcfg_load_default(disk))
<1>8. ASSUME Watched'
      PROVE  Patience(n)'
  <2>1. Prompt /\ r.client.started /\ route = r.client.conn /\ Beat > 0
    BY <1>1, <1>2, <1>4, <1>8 DEF Watched
  <2>2. client.started
    <3>1. route \in Nat /\ client.opens \in Nat /\ route <= client.opens
      BY DEF IInv, SeatInv, Fit, Typed
    <3>. QED  BY <1>3, <2>1, <3>1 DEF Opens
  <2>3. /\ r.client.conn = client.conn
        /\ \/ Signs(r.sent)
           \/ Left(r.client) < Left(client)
           \/ m.kind = "refused" /\ Left(r.client) = Left(client)
    BY <1>3, <2>1, <2>2 DEF Beats
  <2>4. Patience(n)
    BY <2>1, <2>2, <2>3 DEF SilenceInv, Watched
  <2>5. client.conn # 0
    BY <2>2 DEF IInv, Fit, Sound
  <2>6. up
    BY <2>1, <2>3, <2>5 DEF SilenceInv, Counters
  <2>7. toClient' = toClient \ {m}
    BY <1>2, <2>1, <2>3, <2>5 DEF Taken
  <2>8. /\ Left(client) \in 1 .. (RetryPolls + Beat - 1)
        /\ Left(r.client) \in 1 .. (RetryPolls + Beat - 1)
    BY <1>3, <1>4, <2>1, <2>2, LeftBounds DEF SilenceInv, Timely
  <2>9. crashes \in Nat /\ Spare \in 0 .. MaxFaults[link] /\ MaxFaults[link] \in Nat
    BY SpareBounds, ClientAssumption DEF IInv, SeatInv, SilenceInv, Counters
  <2>10. Spare' \in 0 .. MaxFaults[link]
    BY <1>1, <2>9, SpareBounds, ClientAssumption DEF Counters, Spare, Refusal
  <2>11. Spare' <= Spare /\ (m.kind = "refused" => Spare' < Spare)
    <3>1. m.kind = "refused" => m = Refusal /\ m \in toClient
      BY DEF SilenceInv, Counters, Inbox, Nothing
    <3>2. /\ (Refusal \in toClient)' => Refusal \in toClient
          /\ m.kind = "refused" => Refusal \in toClient /\ ~(Refusal \in toClient)'
      BY <2>7, <3>1 DEF Refusal
    <3>. QED  BY <1>1, <2>9, <3>2 DEF Spare, Refusal, SilenceInv, Counters
  <2> DEFINE before == Left(client) + Spare
             after  == Left(r.client) + Spare'
  <2>12. Left(client)' = Left(r.client)
    BY <1>2 DEF Left
  <2>13. before \in Int /\ after \in Int /\ before >= 1
    BY <2>8, <2>9, <2>10, ClientAssumption
  <2>14. Signs(r.sent) \/ after < before
    BY <2>3, <2>8, <2>9, <2>10, <2>11
  <2>15. Signs(toService') \/ after < before
    BY <1>6, <2>1, <2>6, <2>14
  <2>16. ~Signs(toService)
    BY <1>6, <2>1 DEF Signs
  <2>17. silent + Chatter * before + (Chatter - chat) <= n
    BY <2>4, <2>16 DEF Patience
  <2> HIDE DEF before, after
  <2>18. n \in Int /\ silent \in Nat /\ chat \in 0 .. Chatter
    BY <1>0, <1>4, <2>1, <2>9, Longest, ClientAssumption DEF SilenceInv, Counters
  <2> HIDE DEF n
  <2>19. Chatter * before \in Int /\ Chatter * after \in Int /\ Chatter <= Chatter * before
    BY <1>0, <2>13, NoMore
  <2>20. silent + Chatter <= n
    BY <1>0, <2>17, <2>18, <2>19
  <2>21. after < before => silent + Chatter * after + Chatter <= n
    <3>1. after < before => Chatter * after + Chatter <= Chatter * before
      BY <1>0, <2>13, OneTickLess
    <3>. QED  BY <1>0, <2>17, <2>18, <2>19, <3>1
  <2>22. n' = n /\ silent' = silent
    BY <1>1 DEF n
  <2>. QED  BY <1>0, <2>12, <2>15, <2>20, <2>21, <2>22 DEF Patience, after
<1>. QED  BY <1>1, <1>5, <1>7, <1>8 DEF SilenceInv

\* A step that takes nothing off the account.
LEMMA PatienceKept ==
    ASSUME SilenceInv, Watched, Counters', crashes \in Nat, crashes' \in Nat,
           UNCHANGED <<disk, link>>, Left(client)' = Left(client), Spare' <= Spare,
           Signs(toService) => Signs(toService'),
           silent' + (Chatter - chat') <= silent + (Chatter - chat)
    PROVE  Patience(LongestSilence(fltcfg_load_default(disk)))'
<1> DEFINE n == LongestSilence(fltcfg_load_default(disk))
           before == Left(client) + Spare
           after  == Left(client)' + Spare'
<1>0. Chatter \in Nat
  BY ClientAssumption
<1>1. Beat \in Nat /\ MaxFaults[link] \in Nat /\ Prompt
  BY BeatIsNat, ClientAssumption DEF SilenceInv, Counters, Watched
<1>2. Left(client) \in Int /\ Spare \in Int /\ Spare' \in Int
  <2>1. Left(client) \in 1 .. (RetryPolls + Beat - 1)
    BY <1>1, LeftBounds DEF SilenceInv, Watched
  <2>2. Spare \in 0 .. MaxFaults[link]
    BY SpareBounds DEF SilenceInv
  <2>3. Spare' \in Int
    BY <1>1 DEF Spare, Counters
  <2>. QED  BY <2>1, <2>2, <2>3
<1>3. before \in Int /\ after \in Int /\ after <= before
  BY <1>2
<1>4. Patience(n) /\ n' = n
  BY DEF SilenceInv
<1>5. n \in Int
  BY <1>0, <1>1, Longest, ClientAssumption
<1> DEFINE old == Chatter * before
           new == Chatter * after
<1>6. silent + (Chatter - chat) <= n
  BY <1>4 DEF Patience
<1>7. Signs(toService) \/ silent + old + (Chatter - chat) <= n
  BY <1>4 DEF Patience
<1> HIDE DEF before, after, n
<1>8. old \in Int /\ new \in Int /\ new <= old
  BY <1>0, <1>3, NoMore
<1>9. silent \in Nat /\ silent' \in Nat /\ chat \in Int /\ chat' \in Int
  BY <1>0 DEF SilenceInv, Counters
<1> DEFINE s == silent'
           c == chat'
<1>10. s \in Int /\ c \in Int /\ s + (Chatter - c) <= silent + (Chatter - chat)
  BY <1>9
<1> HIDE DEF old, new, s, c
<1>11. s + (Chatter - c) <= n
  BY <1>0, <1>5, <1>6, <1>9, <1>10
<1>12. Signs(toService) \/ s + new + (Chatter - c) <= n
  BY <1>0, <1>5, <1>7, <1>8, <1>9, <1>10
<1>13. /\ silent' + (Chatter - chat') <= n'
       /\ \/ Signs(toService')
          \/ silent' + Chatter * (Left(client)' + Spare') + (Chatter - chat') <= n'
  BY <1>4, <1>11, <1>12 DEF new, after, s, c
<1>. QED  BY <1>13 DEF Patience, n

\* A step that hears the client settles the account.
LEMMA PatienceRenewed ==
    ASSUME Counters', Timed(client)', crashes' \in Nat, silent' <= 1, Watched'
    PROVE  Patience(LongestSilence(fltcfg_load_default(disk)))'
<1> DEFINE n == LongestSilence(fltcfg_load_default(disk))'
           left == Left(client)'
           spare == Spare'
           top == RetryPolls + Beat' + MaxFaults[link']
<1>0. Chatter \in Nat /\ RetryPolls \in Nat \ {0}
  BY ClientAssumption
<1>1. Beat' \in Nat /\ Beat' > 0 /\ MaxFaults[link'] \in Nat /\ Prompt'
  BY HeartbeatAssumption, ClientAssumption DEF Counters, Watched, Beat
<1>2. left \in 1 .. (RetryPolls + Beat' - 1)
  BY <1>0, <1>1 DEF Timed, Left, Watched
<1>3. spare \in 0 .. MaxFaults[link']
  <2>1. Refusal' = Refusal /\ Refusal.kind = "refused"
    BY DEF Refusal, Message
  <2>2. Refusal \in toClient' => refused' > 0
    BY <2>1 DEF Counters
  <2>3. /\ refused' \in Nat /\ refused' + crashes' <= MaxFaults[link']
    BY DEF Counters
  <2>. QED  BY <1>1, <2>1, <2>2, <2>3 DEF Spare
<1>4. n = 1 + top * Chatter
  BY <1>1 DEF Prompt, LongestSilence, Beat
<1>5. top \in Int /\ left + spare \in Int /\ left + spare < top /\ 0 < top
  BY <1>0, <1>1, <1>2, <1>3
<1> DEFINE x == left + spare
<1> HIDE DEF top, x, n
<1> DEFINE y == Chatter * x
           z == Chatter * top
<1>6. y + Chatter <= z /\ y \in Int /\ z \in Int
  BY <1>0, <1>5, OneTickLess DEF x
<1>7. Chatter <= z
  <2>1. Chatter * 0 + Chatter <= z
    BY <1>0, <1>5, OneTickLess
  <2>. QED  BY <1>0, <1>6, <2>1
<1>8. n = 1 + z
  BY <1>0, <1>4, <1>5
<1>9. silent' \in Nat /\ chat' \in 0 .. Chatter
  BY DEF Counters
<1> DEFINE s == silent'
           c == chat'
<1>10. s \in Nat /\ s <= 1 /\ c \in 0 .. Chatter
  BY <1>9
<1> HIDE DEF y, z, s, c
<1>11. s + (Chatter - c) <= n
  BY <1>0, <1>6, <1>7, <1>8, <1>10
<1>12. s + y + (Chatter - c) <= n
  BY <1>0, <1>6, <1>8, <1>10
<1>13. /\ silent' + (Chatter - chat') <= n
       /\ silent' + Chatter * (Left(client)' + Spare') + (Chatter - chat') <= n
  BY <1>11, <1>12 DEF y, x, s, c
<1>. QED  BY <1>13 DEF Patience, n

LEMMA LiveTickSilence == IInv /\ SilenceInv /\ LiveTick => SilenceInv'
<1> SUFFICES ASSUME IInv, SilenceInv, NEW m \in Inbox, LiveTickOn(m)
             PROVE  SilenceInv'
  BY DEF LiveTick
<1> DEFINE Tick(c) == fltdev_tick(c, IF c.conn = client.conn THEN m ELSE Nothing)
           R == UNION {{Result(s.client, p.sent \cup s.sent, s.ok) : s \in Tick(p.client)} :
                          p \in f4mp_bridge_init_once(client)}
<1>1. ClientStep(R, m) /\ chat' = 0
  BY DEF LiveTickOn, Then
<1>2. ASSUME NEW r \in R
      PROVE  /\ Timely(r) /\ Opens(client, r.client)
             /\ client.started => Beats(client, m, r)
  <2>1. PICK p \in f4mp_bridge_init_once(client) : \E s \in Tick(p.client) :
          r = Result(s.client, p.sent \cup s.sent, s.ok)
    BY <1>2
  <2>2. PICK s \in Tick(p.client) : r = Result(s.client, p.sent \cup s.sent, s.ok)
    BY <2>1
  <2> DEFINE x == IF p.client.conn = client.conn THEN m ELSE Nothing
  <2>3. s \in fltdev_tick(p.client, x)
    OBVIOUS
  <2>. QED  BY <2>2, <2>3, LiveTickBeats
<1> HIDE DEF R
<1>. QED  BY <1>1, <1>2, TickKeepsSilence

LEMMA EmissionTickSilence == IInv /\ SilenceInv /\ EmissionTick => SilenceInv'
<1> SUFFICES ASSUME IInv, SilenceInv, NEW m \in Inbox,
                    ClientStep(fltdev_tick(client, m), m), chat' = 0
             PROVE  SilenceInv'
  BY DEF EmissionTick
<1> DEFINE R == fltdev_tick(client, m)
<1>1. /\ DOMAIN client = Fields /\ Timed(client) /\ Beat \in Nat
      /\ client.started => client.loaded
  BY BeatIsNat DEF IInv, Fit, Typed, Sound, SilenceInv, Counters
<1>2. \A r \in R : /\ Timely(r) /\ Opens(client, r.client)
                   /\ client.started => Beats(client, m, r)
  BY <1>1, DevTickBeats
<1> HIDE DEF R
<1>. QED  BY <1>2, TickKeepsSilence DEF R

\* A step after which the client is not the one watched.
LEMMA UnwatchedSilence ==
    ASSUME Counters', Timed(client)', (Prompt /\ client.started => Own(client, toService))',
           ~Watched'
    PROVE  SilenceInv'
  BY DEF SilenceInv

\* A query of a started client changes nothing that counts.
LEMMA LiveQuerySilence == IInv /\ SilenceInv /\ LiveQuery => SilenceInv'
<1> SUFFICES ASSUME IInv, SilenceInv, LiveQuery
             PROVE  SilenceInv'
  OBVIOUS
<1> DEFINE Query(c) == IF c.loaded THEN Done(c) ELSE fltdev_init(c)
           R == UNION {{Result(s.client, p.sent \cup s.sent, s.ok) : s \in Query(p.client)} :
                          p \in f4mp_bridge_init_once(client)}
<1>1. ClientStep(R, Nothing) /\ chat' = chat
  BY DEF LiveQuery, Then
<1>2. /\ DOMAIN client = Fields /\ Timed(client) /\ Beat \in Nat
      /\ client.started => client.loaded
  BY BeatIsNat DEF IInv, Fit, Typed, Sound, SilenceInv, Counters
<1>3. ASSUME NEW r \in R
      PROVE  /\ Timely(r) /\ Opens(client, r.client)
             /\ client.started => SameClock(client, r.client) /\ r.sent = {}
  <2>1. PICK p \in f4mp_bridge_init_once(client) : \E s \in Query(p.client) :
          r = Result(s.client, p.sent \cup s.sent, s.ok)
    BY <1>3
  <2>2. PICK s \in Query(p.client) : r = Result(s.client, p.sent \cup s.sent, s.ok)
    BY <2>1
  <2> DEFINE d == p.client
  <2>3. r.client = s.client /\ r.sent = p.sent \cup s.sent
    BY <2>2 DEF Result
  <2>4. /\ Timely(p) /\ DOMAIN d = Fields /\ Opens(client, d)
        /\ client.started => SameClock(client, d) /\ d.loaded /\ p.sent = {}
    BY <1>2, OnceTimely
  <2>5. d.started => d.loaded
    BY OnceIsProper DEF IInv, Proper, Fit, Sound
  <2>6. CASE d.loaded
    <3>1. s.client = d /\ s.sent = {}
      BY <2>6 DEF Done, Result
    <3>. QED  BY <2>3, <2>4, <3>1 DEF Timely
  <2>7. CASE ~d.loaded
    <3>1. s \in fltdev_init(d)
      BY <2>7
    <3>2. Timely(s) /\ Opens(d, s.client)
      BY <1>2, <2>4, <3>1, InitTimely DEF Timely
    <3>3. ~d.started /\ ~client.started /\ p.sent = {} /\ d.opens = client.opens
      BY <2>4, <2>5, <2>7 DEF Timely, Opens
    <3>. QED  BY <2>3, <3>2, <3>3 DEF Timely, Opens
  <2>. QED  BY <2>6, <2>7
<1> HIDE DEF R
<1>4. /\ Counters' /\ UNCHANGED <<disk, link, up, crashes, refused, route, silent>>
      /\ toClient' \subseteq toClient
  BY <1>1, ClientCounters DEF SilenceInv
<1>5. PICK r \in R :
        /\ client' = r.client
        /\ toService' = SentToService(toService, r.sent)
        /\ IF r.client.conn = client.conn /\ client.conn # 0
           THEN toClient' \in Taken(toClient, Nothing) ELSE toClient' = {}
  BY <1>1 DEF ClientStep
<1>6. /\ Timely(r) /\ Opens(client, r.client)
      /\ client.started => SameClock(client, r.client) /\ r.sent = {}
  BY <1>3, <1>5
<1>7. Beat' = Beat /\ Prompt' = Prompt
  BY <1>4 DEF Beat, Prompt
<1>8. Timed(client)'
  BY <1>5, <1>6, <1>7 DEF Timely, Timed
<1>9. Prompt => toService = {} /\ toService' \subseteq r.sent
  BY <1>1, <1>5 DEF ClientStep, SentToService
<1>10. (Prompt /\ client.started => Own(client, toService))'
  BY <1>5, <1>6, <1>7, <1>9 DEF Timely, Own
<1>11. CASE client.started
  <2>1. SameClock(client, client')
    BY <1>5, <1>6, <1>11
  <2>2. CASE Watched'
    <3>1. Watched
      BY <1>4, <1>7, <2>1, <2>2 DEF Watched, SameClock
    <3>2. Patience(LongestSilence(fltcfg_load_default(disk)))
      BY <3>1 DEF SilenceInv
    <3>3. Left(client)' = Left(client)
      BY <2>1 DEF Left, SameClock
    <3>4. crashes \in Nat /\ refused \in Nat /\ MaxFaults[link] \in Nat
      BY ClientAssumption DEF IInv, SeatInv, SilenceInv, Counters
    <3>5. Spare' <= Spare
      BY <1>4, <3>4 DEF Spare, Refusal
    <3>6. ~Signs(toService)
      BY <1>9, <3>1 DEF Signs, Watched
    <3>7. silent' + (Chatter - chat') <= silent + (Chatter - chat)
      BY <1>1, <1>4, ClientAssumption DEF SilenceInv, Counters
    <3>8. Patience(LongestSilence(fltcfg_load_default(disk)))'
      BY <1>4, <3>1, <3>3, <3>4, <3>5, <3>6, <3>7, PatienceKept
    <3>. QED  BY <1>4, <1>8, <1>10, <3>8 DEF SilenceInv
  <2>3. CASE ~Watched'
    BY <1>4, <1>8, <1>10, <2>3, UnwatchedSilence
  <2>. QED  BY <2>2, <2>3
<1>12. CASE ~client.started
  <2>1. route \in Nat /\ client.opens \in Nat /\ route <= client.opens
    BY DEF IInv, SeatInv, Fit, Typed
  <2>2. ~Watched'
    BY <1>4, <1>5, <1>6, <1>12, <2>1 DEF Watched, Opens
  <2>. QED  BY <1>4, <1>8, <1>10, <2>2, UnwatchedSilence
<1>. QED  BY <1>11, <1>12

LEMMA ShutdownSilence == IInv /\ SilenceInv /\ Shutdown => SilenceInv'
<1> SUFFICES ASSUME IInv, SilenceInv, NEW m \in Inbox, chat' = chat,
                    ClientStep(fltdev_shutdown([client EXCEPT !.bridge = FALSE], m), m)
             PROVE  SilenceInv'
  BY DEF Shutdown
<1> DEFINE c == [client EXCEPT !.bridge = FALSE]
           R == fltdev_shutdown(c, m)
<1>1. \A r \in R : \E d : r.client = reset_state(d)
  BY DEF fltdev_shutdown, Done, Result
<1>2. client' \in {r.client : r \in R}
  BY DEF ClientStep
<1>3. PICK d : client' = reset_state(d)
  BY <1>1, <1>2
<1>4. ~client'.started
  BY <1>3, ResetFields
<1>5. Counters'
  BY ClientCounters DEF SilenceInv
<1>. QED  BY <1>4, <1>5, UnwatchedSilence DEF Timed, Watched

LEMMA ClientCrashSilence == IInv /\ SilenceInv /\ ClientCrash => SilenceInv'
<1> SUFFICES ASSUME IInv, SilenceInv, ClientCrash
             PROVE  SilenceInv'
  OBVIOUS
<1>1. ~client'.started
  BY DEF ClientCrash, NewProcess
<1>2. UNCHANGED <<disk, link, up, crashes, refused, route, silent, chat>> /\ toClient' = {}
  BY DEF ClientCrash, service
<1>3. Counters'
  BY <1>2 DEF SilenceInv, Counters
<1>. QED  BY <1>1, <1>3, UnwatchedSilence DEF Timed, Watched

-----------------------------------------------------------------------------

\* A step of the service leaves connection and counters of the client alone.
LEMMA ServiceSilence ==
    ASSUME IInv, SilenceInv, UNCHANGED <<client, disk, link>>, toService' \subseteq toService,
           Counters', Watched' => Patience(LongestSilence(fltcfg_load_default(disk)))'
    PROVE  SilenceInv'
<1>1. Timed(client)'
  BY DEF SilenceInv, Timed, Beat
<1>2. (Prompt /\ client.started => Own(client, toService))'
  BY DEF SilenceInv, Prompt, Own
<1>. QED  BY <1>1, <1>2 DEF SilenceInv

\* What the service sends that is not a refusal.
LEMMA PlainCounters ==
    ASSUME Counters, UNCHANGED <<disk, link, refused, crashes>>, NEW out,
           chat' \in 0 .. Chatter, silent' \in Nat, up' \/ route' = 0,
           toClient' \subseteq toClient \cup out, \A x \in out : x.kind # "refused"
    PROVE  Counters' /\ (crashes \in Nat => Spare' <= Spare)
<1>1. \A x \in toClient' : x.kind = "refused" => x = Refusal /\ refused' > 0
  BY DEF Counters
<1>2. Refusal' = Refusal /\ Refusal.kind = "refused"
  BY DEF Refusal, Message
<1>3. Counters'
  BY <1>1, <1>2 DEF Counters
<1>4. Refusal \in toClient' => Refusal \in toClient
  BY <1>2
<1>5. MaxFaults[link] \in Nat /\ refused \in Nat
  BY ClientAssumption DEF Counters
<1>. QED  BY <1>2, <1>3, <1>4, <1>5 DEF Spare

\* A message of Me: the account is settled, or it was not one of this connection.
LEMMA HandlesSilence ==
    ASSUME IInv, SilenceInv, NEW m \in toService, ServiceHandles(m)
    PROVE  SilenceInv'
<1>1. /\ UNCHANGED <<client, disk, link, refused, crashes, chat, up>> /\ up
      /\ toService' \subseteq toService /\ (Prompt => toService' = toService \ {m})
  BY DEF ServiceHandles, Taken
<1>2. crashes \in Nat /\ chat \in 0 .. Chatter /\ Counters
  BY DEF IInv, SeatInv, SilenceInv, Counters
<1>3. Timed(client)'
  BY <1>1 DEF SilenceInv, Timed, Beat
<1>4. ASSUME NEW out, toClient' \subseteq toClient \cup out, HeardMe,
             \A x \in out : x.kind # "refused"
      PROVE  SilenceInv'
  <2>1. silent' \in {0, 1}
    BY <1>4 DEF HeardMe
  <2>2. Counters'
    BY <1>1, <1>2, <1>4, <2>1, PlainCounters
  <2>3. silent' <= 1 /\ crashes' \in Nat
    BY <1>1, <1>2, <2>1
  <2>4. Watched' => Patience(LongestSilence(fltcfg_load_default(disk)))'
    BY <1>3, <2>2, <2>3, PatienceRenewed
  <2>. QED  BY <1>1, <2>2, <2>4, ServiceSilence
<1>5. CASE HandleHello(m)
  <2> DEFINE out == {Message("welcome", home'[Me])}
                    \cup {Message("state", i) : i \in {i \in Ids : seat'[i] = Peer}}
  <2>1. SentToClient(m.conn, out) /\ HeardMe
    BY <1>5 DEF HandleHello
  <2>2. \A x \in out : x.kind # "refused"
    BY DEF Message
  <2> HIDE DEF out
  <2>3. toClient' \subseteq toClient \cup out
    BY <2>1, SentParts
  <2>. QED  BY <1>4, <2>1, <2>2, <2>3
<1>6. CASE HandlePing(m)
  <2> DEFINE out == {}
  <2>1. HeardMe /\ toClient' \subseteq toClient \cup out /\ \A x \in out : x.kind # "refused"
    BY <1>6 DEF HandlePing
  <2> HIDE DEF out
  <2>. QED  BY <1>4, <2>1
<1>7. CASE HandleState(m)
  <2>1. PICK out \in {{}, {Message("state", m.id)}} : SentToClient(route, out)
    BY <1>7 DEF HandleState
  <2>2. HeardMe /\ \A x \in out : x.kind # "refused"
    BY <1>7, <2>1 DEF HandleState, Message
  <2>3. toClient' \subseteq toClient \cup out
    BY <2>1, SentParts
  <2>. QED  BY <1>4, <2>2, <2>3
<1>8. CASE HandleBye(m)
  <2> DEFINE out == {Message("left", home[Me])}
  <2>1. SentToClient(route, out) /\ route' = 0 /\ silent' = 0
    BY <1>8 DEF HandleBye
  <2>2. \A x \in out : x.kind # "refused"
    BY DEF Message
  <2> HIDE DEF out
  <2>3. toClient' \subseteq toClient \cup out
    BY <2>1, SentParts
  <2>4. Counters'
    BY <1>1, <1>2, <2>1, <2>2, <2>3, PlainCounters
  <2>5. ~Watched'
    BY <1>1, <2>1 DEF Watched, IInv, Fit, Sound
  <2>. QED  BY <1>1, <2>4, <2>5, ServiceSilence
<1>9. CASE HandleUnknown(m)
  <2>1. /\ m.kind # "hello" /\ UNCHANGED <<route, silent, toClient>>
        /\ m.conn # route \/ m.kind = "state"
    BY <1>9 DEF HandleUnknown
  <2>2. Counters' /\ Spare' <= Spare
    <3> DEFINE out == {}
    <3>1. /\ silent' \in Nat /\ up'
          /\ toClient' \subseteq toClient \cup out /\ \A x \in out : x.kind # "refused"
      BY <1>1, <2>1 DEF SilenceInv, Counters
    <3> HIDE DEF out
    <3>. QED  BY <1>1, <1>2, <3>1, PlainCounters
  <2>3. ASSUME Watched'
        PROVE  Patience(LongestSilence(fltcfg_load_default(disk)))'
    <3>1. Watched
      BY <1>1, <2>1, <2>3 DEF Watched, Prompt, Beat
    <3>2. m.conn = client.conn /\ m.kind # "ping"
      BY <2>1, <3>1 DEF SilenceInv, Own, Watched
    <3>3. Signs(toService) => Signs(toService')
      BY <1>1, <2>1, <3>1, <3>2 DEF Signs, Watched
    <3>4. Left(client)' = Left(client)
      BY <1>1 DEF Left
    <3>5. silent' + (Chatter - chat') <= silent + (Chatter - chat)
      BY <1>1, <1>2, <2>1, ClientAssumption DEF SilenceInv, Counters
    <3>. QED  BY <1>1, <1>2, <2>2, <3>1, <3>3, <3>4, <3>5, PatienceKept
  <2>. QED  BY <1>1, <2>2, <2>3, ServiceSilence
<1>. QED  BY <1>5, <1>6, <1>7, <1>8, <1>9 DEF ServiceHandles

\* A message of Peer adds one to what has been counted and takes one from what
\* others may send before the next tick.
LEMMA PeerStepSilence ==
    ASSUME IInv, SilenceInv, NEW gone, NEW out, PeerStep(gone, out),
           \/ refused' = refused /\ \A x \in out : x.kind # "refused"
           \/ /\ refused' = refused + 1 /\ refused + crashes < MaxFaults[link]
              /\ out = {Refusal}
    PROVE  SilenceInv'
<1> DEFINE msgs == out \cup {Message("left", i) : i \in gone}
           to   == IF route # 0 /\ seat'[home[Me]] = Peer THEN 0 ELSE route
<1>0. Chatter \in Nat
  BY ClientAssumption
<1>1. /\ UNCHANGED <<client, disk, link, crashes, up, toService>> /\ up
      /\ Prompt /\ client.started => chat < Chatter
      /\ chat' = IF Prompt /\ client.started THEN chat + 1 ELSE chat
      /\ SentToClient(to, msgs)
      /\ route' = IF route # 0 /\ seat'[home[Me]] = Me THEN route ELSE 0
      /\ silent' = IF route' # 0 /\ Counting THEN silent + 1 ELSE 0
  BY DEF PeerStep
<1>2. /\ crashes \in Nat /\ chat \in 0 .. Chatter /\ silent \in Nat /\ refused \in Nat
      /\ MaxFaults[link] \in Nat /\ Counters
  BY ClientAssumption DEF IInv, SeatInv, SilenceInv, Counters
<1>3. toClient' \subseteq toClient \cup msgs
  BY <1>1, SentParts
<1>4. \A x \in msgs : x.kind = "refused" => x \in out
  BY DEF Message
<1> HIDE DEF msgs, to
<1>5. chat' \in 0 .. Chatter /\ silent' \in {0, silent + 1} /\ silent' \in Nat
  BY <1>0, <1>1, <1>2
<1>6. Counters' /\ Spare' <= Spare
  <2>1. CASE refused' = refused /\ \A x \in out : x.kind # "refused"
    <3>1. \A x \in msgs : x.kind # "refused"
      BY <1>4, <2>1
    <3>. QED  BY <1>1, <1>2, <1>3, <1>5, <2>1, <3>1, PlainCounters
  <2>2. CASE /\ refused' = refused + 1 /\ refused + crashes < MaxFaults[link]
             /\ out = {Refusal}
    <3>1. \A x \in toClient' : x.kind = "refused" => x = Refusal
      BY <1>2, <1>3, <1>4, <2>2 DEF Counters
    <3>2. Refusal' = Refusal
      BY DEF Refusal, Message
    <3>3. Counters'
      BY <1>1, <1>2, <1>5, <2>2, <3>1, <3>2 DEF Counters
    <3>. QED  BY <1>1, <1>2, <2>2, <3>2, <3>3 DEF Spare
  <2>. QED  BY <2>1, <2>2
<1>7. ASSUME Watched'
      PROVE  Patience(LongestSilence(fltcfg_load_default(disk)))'
  <2>1. client.conn # 0 /\ Prompt /\ client.started /\ Beat > 0 /\ route' = client.conn
    BY <1>1, <1>7 DEF Watched, Prompt, Beat, IInv, Fit, Sound
  <2>2. Watched
    BY <1>1, <2>1 DEF Watched
  <2> DEFINE s == silent'
             c == chat'
  <2>3. s \in {0, silent + 1} /\ c = chat + 1
    BY <1>1, <1>5, <2>1
  <2>4. s + (Chatter - c) <= silent + (Chatter - chat)
    <3> HIDE DEF s, c
    <3>. QED  BY <1>0, <1>2, <2>3
  <2>5. Left(client)' = Left(client)
    BY <1>1 DEF Left
  <2>. QED  BY <1>1, <1>2, <1>6, <2>2, <2>4, <2>5, PatienceKept
<1>. QED  BY <1>1, <1>6, <1>7, ServiceSilence

LEMMA PeerSilence ==
    ASSUME IInv, SilenceInv, PeerHello \/ PeerTalks \/ PeerNews
    PROVE  SilenceInv'
<1>1. CASE PeerHello
  <2>1. PICK gone \in MayExpire : PeerStep(gone, {})
    BY <1>1 DEF PeerHello
  <2>2. refused' = refused
    BY <1>1 DEF PeerHello
  <2> DEFINE out == {}
  <2>3. PeerStep(gone, out) /\ \A x \in out : x.kind # "refused"
    BY <2>1
  <2> HIDE DEF out
  <2>. QED  BY <2>2, <2>3, PeerStepSilence
<1>2. CASE PeerTalks
  <2>1. PICK gone \in MayExpire : \E out :
          PeerStep(gone, out) /\ \A x \in out : x.kind # "refused"
    <3>1. \A k, i : Message(k, i).kind = k
      BY DEF Message
    <3>2. PICK gone \in MayExpire :
            \/ PeerStep(gone, {Message("state", i) : i \in PeerSeats})
            \/ PeerStep(gone, {})
            \/ PeerStep(gone, {Message("left", i) : i \in PeerSeats})
      BY <1>2 DEF PeerTalks
    <3>3. /\ \A x \in {Message("state", i) : i \in PeerSeats} : x.kind # "refused"
          /\ \A x \in {Message("left", i) : i \in PeerSeats} : x.kind # "refused"
          /\ \A x \in {} : x.kind # "refused"
      BY <3>1
    <3>. QED  BY <3>2, <3>3
  <2>2. refused' = refused
    BY <1>2 DEF PeerTalks
  <2>. QED  BY <2>1, <2>2, PeerStepSilence
<1>3. CASE PeerNews
  <2>1. PICK gone \in MayExpire : PeerStep(gone, {Refusal})
    BY <1>3 DEF PeerNews, Refusal
  <2>2. refused' = refused + 1 /\ refused + crashes < MaxFaults[link]
    BY <1>3 DEF PeerNews
  <2>. QED  BY <2>1, <2>2, PeerStepSilence
<1>. QED  BY <1>1, <1>2, <1>3

\* Without a route nobody is watched.
LEMMA NoRouteSilence ==
    ASSUME IInv, SilenceInv, ServiceStarts \/ ServiceCrash \/ Lose
    PROVE  SilenceInv'
<1>1. CASE ServiceStarts
  <2>1. UNCHANGED <<client, disk, link, route, silent, chat, refused, crashes, toClient, toService>>
        /\ up'
    BY <1>1 DEF ServiceStarts
  <2>2. Counters'
    BY <2>1 DEF SilenceInv, Counters, Refusal
  <2>3. ~Watched'
    BY <1>1, <2>1 DEF ServiceStarts, SilenceInv, Counters, Watched, IInv, Fit, Sound
  <2>. QED  BY <2>1, <2>2, <2>3, ServiceSilence
<1>2. CASE ServiceCrash
  <2>1. /\ UNCHANGED <<client, disk, link, chat, refused, toClient>>
        /\ crashes' = crashes + 1 /\ refused + crashes < MaxFaults[link]
        /\ route' = 0 /\ silent' = 0 /\ toService' = {}
    BY <1>2 DEF ServiceCrash
  <2>2. crashes \in Nat /\ refused \in Nat /\ MaxFaults[link] \in Nat
    BY ClientAssumption DEF IInv, SeatInv, SilenceInv, Counters
  <2>3. Counters'
    BY <2>1, <2>2 DEF SilenceInv, Counters, Refusal
  <2>4. ~Watched'
    BY <2>1 DEF Watched, IInv, Fit, Sound
  <2>. QED  BY <2>1, <2>3, <2>4, ServiceSilence
<1>3. CASE Lose
  <2>1. /\ UNCHANGED <<client, disk, link, chat, refused, up, crashes, route, silent>>
        /\ toService' \subseteq toService /\ toClient' \subseteq toClient /\ ~Prompt
    BY <1>3 DEF Lose, service
  <2>2. Counters'
    BY <2>1 DEF SilenceInv, Counters, Refusal
  <2>3. ~Watched'
    BY <2>1 DEF Watched, Prompt
  <2>. QED  BY <2>1, <2>2, <2>3, ServiceSilence
<1>. QED  BY <1>1, <1>2, <1>3

LEMMA InitSilence == Init => SilenceInv
<1> SUFFICES ASSUME Init
             PROVE  SilenceInv
  OBVIOUS
<1>1. ~client.started
  BY DEF Init, NewProcess
<1>2. Counters
  <2>1. link \in Links /\ MaxFaults[link] \in Nat /\ Chatter \in Nat
    BY ClientAssumption DEF Init
  <2>. QED  BY <2>1 DEF Init, Counters
<1>. QED  BY <1>1, <1>2 DEF SilenceInv, Timed, Watched

LEMMA NextSilence == IInv /\ SilenceInv /\ [Next]_vars => SilenceInv'
<1> SUFFICES ASSUME IInv, SilenceInv, [Next]_vars
             PROVE  SilenceInv'
  OBVIOUS
<1>1. CASE LiveTick \/ EmissionTick \/ LiveQuery \/ Shutdown \/ ClientCrash
  BY <1>1, LiveTickSilence, EmissionTickSilence, LiveQuerySilence, ShutdownSilence,
     ClientCrashSilence
<1>2. CASE \E m \in toService : ServiceHandles(m)
  BY <1>2, HandlesSilence
<1>3. CASE PeerHello \/ PeerTalks \/ PeerNews
  BY <1>3, PeerSilence
<1>4. CASE ServiceStarts \/ ServiceCrash \/ Lose
  BY <1>4, NoRouteSilence
<1>5. CASE UNCHANGED vars
  BY <1>5 DEF vars, service, SilenceInv, Counters, Timed, Own, Watched, Patience, Beat, Prompt,
              Left, Spare, Signs, Refusal
<1>. QED  BY <1>1, <1>2, <1>3, <1>4, <1>5 DEF Next

\* What the service has counted since the last sign of life, and what may be
\* counted until the next, stay below LongestSilence, on every connection that is
\* the route of Me on a prompt link.
THEOREM SilenceIsBounded == Spec => []SilenceInv
  BY InitSilence, NextSilence, Invariance, PTL DEF Spec

\* The step in which Me is timed out would be one of a message of Peer, and the
\* account leaves room for it.
LEMMA NotExpired ==
    ASSUME IInv, SilenceInv, Watched,
           TimeoutTicks >= LongestSilence(fltcfg_load_default(disk)),
           chat < Chatter, NEW gone \in MayExpire
    PROVE  gone = {}
<1> DEFINE n == LongestSilence(fltcfg_load_default(disk))
<1>1. silent + (Chatter - chat) <= n
  BY DEF SilenceInv, Patience
<1>2. /\ silent \in Nat /\ chat \in Nat /\ Chatter \in Nat /\ TimeoutTicks \in Nat
      /\ Beat \in Nat /\ MaxFaults[link] \in Nat /\ Prompt /\ RetryPolls \in Nat
  BY ClientAssumption, BeatIsNat DEF SilenceInv, Counters, Watched
<1>3. n \in Int
  BY <1>2, Longest
<1> HIDE DEF n
<1>4. ~(silent + 1 > TimeoutTicks)
  BY <1>1, <1>2, <1>3 DEF n
<1>. QED  BY <1>2, <1>4 DEF MayExpire

LEMMA SeatStep ==
    ASSUME IInv, SilenceInv, Next, Watched,
           TimeoutTicks >= LongestSilence(fltcfg_load_default(disk))
    PROVE  \/ route' = route
           \/ client' # client \/ up' # up
           \/ seat'[home[Me]] = Peer
<1>0. client.conn # 0 /\ route # 0 /\ Prompt /\ client.started /\ route = client.conn
  BY DEF Watched, IInv, Fit, Sound
<1>1. home[Me] \in Ids /\ seat[home[Me]] = Me /\ seat \in [Ids -> Guids \cup {Nobody}]
  BY <1>0 DEF IInv, SeatInv
<1>2. CASE LiveTick \/ EmissionTick \/ LiveQuery \/ Shutdown \/ ClientCrash \/ Lose
  BY <1>2 DEF LiveTick, LiveTickOn, EmissionTick, LiveQuery, Shutdown, ClientCrash, Lose,
              ClientStep, service
<1>3. CASE ServiceStarts \/ ServiceCrash
  BY <1>3 DEF ServiceStarts, ServiceCrash
<1>4. ASSUME NEW m \in toService, ServiceHandles(m)
      PROVE  route' = route
  <2>1. m.conn = route /\ m.kind \in {"hello", "ping", "state"}
    BY <1>0 DEF SilenceInv, Own
  <2>. QED  BY <1>4, <2>1 DEF ServiceHandles, HandleHello, HandlePing, HandleState, HandleBye,
                             HandleUnknown
<1>5. ASSUME NEW gone \in MayExpire, NEW out, PeerStep(gone, out)
      PROVE  gone = {} /\ (seat'[home[Me]] = Me => route' = route)
  <2>1. chat < Chatter
    BY <1>0, <1>5 DEF PeerStep
  <2>2. gone = {}
    BY <2>1, NotExpired
  <2>. QED  BY <1>0, <1>5, <2>2 DEF PeerStep
<1>6. CASE PeerHello
  <2>1. PICK gone \in MayExpire :
          /\ \/ \E i \in Ids : Enter(Peer, i, gone)
             \/ Return(Peer, gone \ {home[Peer]})
          /\ PeerStep(gone, {})
    BY <1>6 DEF PeerHello
  <2>2. gone = {} /\ (seat'[home[Me]] = Me => route' = route)
    BY <1>5, <2>1
  <2>3. seat'[home[Me]] \in {Me, Peer}
    BY <1>1, <2>1, <2>2 DEF Enter, Return, Vacated
  <2>. QED  BY <2>2, <2>3
<1>7. ASSUME NEW gone \in MayExpire, NEW out, PeerStep(gone, out),
             Depart(gone) \/ Depart(gone \cup PeerSeats)
      PROVE  route' = route
  <2>1. gone = {} /\ (seat'[home[Me]] = Me => route' = route)
    BY <1>5, <1>7
  <2>2. home[Me] \notin PeerSeats
    BY <1>1, ClientAssumption DEF PeerSeats
  <2>. QED  BY <1>1, <1>7, <2>1, <2>2 DEF Depart, Vacated
<1>8. CASE PeerTalks
  BY <1>7, <1>8 DEF PeerTalks
<1>9. CASE PeerNews
  BY <1>7, <1>9 DEF PeerNews
<1>. QED  BY <1>2, <1>3, <1>4, <1>6, <1>8, <1>9 DEF Next

\* On a prompt link, with heartbeats and a timeout of at least LongestSilence,
\* the service's timeout never takes the seat of a client that keeps ticking.
THEOREM TimeoutSparesTheLiving == Spec => KeepsSeat
<1> DEFINE A == LET cfg == fltcfg_load_default(disk)
                IN  /\ Prompt /\ cfg.heartbeat > 0 /\ TimeoutTicks >= LongestSilence(cfg)
                    /\ client.started /\ route = client.conn
                    => \/ route' = route
                       \/ client' # client \/ up' # up
                       \/ seat'[home[Me]] = Peer
<1>1. IInv /\ SilenceInv /\ [Next]_vars => [A]_vars
  BY SeatStep DEF Watched, Beat
<1>2. KeepsSeat <=> [][A]_vars
  BY DEF KeepsSeat
<1>. QED  BY <1>1, <1>2, Invariance, SilenceIsBounded, PTL DEF Spec

=============================================================================
