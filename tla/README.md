# A verification project for F4MP2

F4MP2 is a host-authoritative co-op scaffold for Fallout 4: a service in C that
owns the session and the world (`service/src`), and a plugin that runs in each
player's game, talks UDP to the service and shows what it says
(`plugin/src`).  This directory holds TLA+ models of the two, the TLC
configurations that check them, and theorems with proofs that TLAPS checks.

## 1. The system

| Component | State | Operations | Interacts through |
|---|---|---|---|
| Main loop, endpoint table (`service_main.c`) | `g_bindings`: 16 endpoints, never freed | receive, bind, handle, tick, send | datagrams |
| Envelope handler and tick (`transport_loop.c`) | output buffer of 64, `current_tick`, timeout, one pending selection | one handler per message, `tl_tick` | calls into all of the below |
| Player slots (`session_manager.c`, `world_state_store.c`, `service_indices.c`) | 8 slots, ids 1..7, kept after leaving | join, reconnect, remove | player ids, connection ids |
| GUID registry (`session_registry.c`) | 32 entries, never freed, 63 bytes of a GUID | find, bind | player ids |
| Relay filter (`player_state_relay_policy.c`) | last sequence and tick of each slot | evaluate | stamps of `MSG_PLAYER_STATE` |
| Authority core (`authority_core.c`, `authority_validation.c`) | actors, objects, settlements, net id counters | fire, build, move, scrap, tick | messages, broadcasts |
| Host event mirror (`host_event_mirror.c`, dialogue and quest policies) | one dialogue, one quest | open, line, choices, close, select, quest update | broadcasts; called from tests only |
| Proxies (`proxy_runtime.c`, `protocol_apply.c`) | players 8, actors 128, objects 256, dialogue, quest, profile | one per message | what the game shows |
| Remote player filter (`remote_proxy_manager.c`, `remote_proxy_update_policy.c`) | stamps per proxy, the local id | apply, remove, smooth | proxies, backend |
| Scene backend, spawn contract, actor driver (`fo4_*.c`) | scene records, actors | spawn, update, step, despawn | the game's actors |
| Movement publisher (`movement_sync_bridge.c`) | last sent state, sequence, tick, quiet ticks | build if changed | `MSG_PLAYER_STATE` |
| Client transport (`plugin_transport_client.c`, `movement_live_client_bridge.c`, `plugin_live_transport_dev.c`, `plugin_live_transport_config.c`) | HELLO retry counters, connected, joined, heartbeat | configure, open, poll, tick, close | UDP, the exports |
| Local observer (`local_player_observer*.c`) | ring of 8 samples, two providers | submit, capture | publisher, hooks |
| Hook bring-up (`f4se_plugin_exports.cpp`, `hook_*`, `plugin_startup_*`) | registry of four families, startup report | query, load, self-check | F4SE |
| Hook install pipeline (`commonlibf4_player_hook_*`, `player_hook_*`) | discovery, candidate, callback stub, shim, probe | discover, attempt, install, emit, reset | the game's code |
| Patch realization (`commonlibf4_player_hook_patch_realization.c`) | trampoline, gateway, report | decode, plan, allocate, write | the game's code |
| Evidence gates (`phase1r_*`) | wiring, dry run, armed attempt, gate | evaluate | reports |
| Codec, profile store, whitelist, sockets, replay log | bytes and files | encode, decode, load, save | disk and wire |

Nothing in the repository runs in more than one thread.  What is hard is
elsewhere: clients, service and network interleave freely; UDP loses,
duplicates and reorders, and although messages are flagged `MSGF_RELIABLE` and
`MSGF_ORDERED` no code acknowledges, resends or orders anything; HELLO is
retried and every copy runs the whole join path; ids and slots are recycled
while the registry and the relay stamps survive; ticks, and with them timeouts,
happen only inside the handling of somebody's message; dozens of file-level
statics of the plugin are reset by different calls at different times; and every table has a
limit whose refusal most callers ignore.  `PROJECT.json` lists each of these
under `hazards`, at its line.

What makes the components correct: a player id, a GUID, a connection and a slot
always mean the same player; a departure is announced to all
who stay; a client that waits gets in and one that ticks stays in; a settlement's
count is the number of its objects; a net id names one
object; what clients show converges to what the service has; no client ever
goes back to an older state of a player's process; an offer is answered once; and what the hook
pipeline reports is what is in the game's memory.

## 2. The modules

### 2.1 Membership and SessionService (with RelayPolicy)

`Membership` is the abstract specification of the session: `seat[i]` is the
GUID that plays as id i, `home[g]` the id a HELLO of g is given back.  A HELLO
enters a free id or returns to its home; everything else only empties seats.
It has no slots, endpoints, connection ids, table sizes and ticks.

`SessionService` is the code.  One step is one iteration of the loop in
`service_main.c`: the endpoint is
bound, the envelope handled, and - when the handler returned true - `tl_tick`
run and the outputs sent.  `binding`/`bound` are `g_bindings`;
`registry`/`used` are `g_registry`, the former read as "which id does
`sr_find_player_id` give for this GUID"; `players` are the slots;
`outputs` is what the iteration sent, as the kinds the properties
distinguish.  Slots count from 1; `last_heard_tick` is kept as the number of
ticks since (`silent`), which is all that the timeout compares.
Each message has its action: `JoinSession` and `Reconnect` (HELLO),
`RecvPing`, `RecvDisconnect`, `RelayPlayerState`, `StalePlayerState`,
`RecvInputState`, `RecvCombatOrBuild`, `RefusedFire`,
`RecvWorkshopOrDialogue`; `Refused` and `TableFull` are the datagrams that
change nothing but perhaps a binding.  A dropped output (the 65th) is modelled
for PLAYER_LEFT, where a property looks.  `RelayPolicy` holds
the filter of `player_state_relay_policy.c` as operators on stamps.

`ImplementsMembership` is the refinement: `seat[i]` is the GUID in slot i while
that is connected, `home` is the registry.  It is checked by the run
SessionIdentity and proved in `SessionServiceProofs`.

### 2.2 ClientSession

The other half of the handshake, composed with the service as `Membership`
describes it (EXTENDS; every service step conjoins `Enter`, `Return` or
`Depart`).  `client` is the process: the flags of `f4mp_bridge_init_once` and
`fltdev_init`, the connection (`connected`, `id`, polls since the last HELLO),
`joined` and the tick counter of `mlcb_tick`, the ids latched by `lpo_init` and
`rpm_init`, and which proxies exist and since which connection.  Operations keep
the names of the source and map a process to the set of results they may have:
the process after, the datagrams sent, the return value.  Actions are the exports
(`LiveTick`, `LiveQuery`, `Shutdown`), the tick of the hook's
synthetic emission (`EmissionTick`), crashes of the client and the service, the
service's handlers for this client's messages, and a `Peer` that stands for
everybody else and whose messages make the service tick.

The network is one of two.  A *prompt* one loses nothing, delivers to the
service before the next client tick and lets others send `Chatter` messages
per client tick; only there can one say how long a client may be silent.  A
*lossy* one loses, duplicates and delays; there the silence is not counted and
any message of a peer may find the client expired.  The configuration
files (`fltcfg_*`) are sequences of lines of a section, a key, a value and
whether it parses; `MSG_PONG`, which the client only counts, is left out.

### 2.3 WorldAuthority and WorldReplication

`WorldAuthority` is the same loop seen from the world: `actors`, `objects`, `count`
(a settlement's `object_count`), `nextObject` (`g_next_object_id`), `pos` and
`connected` of the players, and `outputs`, here with order and contents,
because clients apply them in order.  Actions: `Hello` (with the join replay),
`Disconnect`, `PlayerState`, `ac_handle_fire_intent`,
`ac_handle_build_request`, `BuildWithoutRoom`, `ac_handle_object_move`,
`ac_handle_object_scrap`, and `TickOnly` for everything else that is handled.
Each ends in `tl_tick`: `ac_tick` marks the dead, the
second loop collects and broadcasts them, then they are removed.  Positions are
places with the three distance tests as relations; which hostile a shot hits is
a choice, because the geometry is floating point.

`WorldReplication` composes it with its clients (EXTENDS; each step conjoins a service
step with the channels): every client has a channel and a `view`, the actor and
object records of `proxy_runtime.c`.  `Deliver` is `ptc_poll_once`;
`ClientStarts` is `ebstub_init` of a new process, `HelloAgain` a retried HELLO,
`ClientCloses` `mlcb_close`.  `Window` says how far the network may reorder.
That the composition implements `WorldAuthority` is a theorem (`ReplicationIsTheService`).

### 2.4 MovementPath

One publisher, the service's slot of it, one observer, and two channels that may
reorder (`Window`), lose and duplicate (`Unreliable`).  `pub` are the
statics of `movement_sync_bridge.c` and the connection; `slot` the
replicated state and relay stamps; `proxy` the observer's record.  Both sides
may open late, close, come back, or start again as new processes.
The publisher's HELLO is a datagram as its states are: `PublisherOpens` sends it,
`PublisherHelloAgain` repeats it, and `HandleHello` turns the slot to the connection it
came over, however late it comes.  Only the WELCOME is no message: the publisher
finds it at some tick after its connection has come into `greeted.conns`.
`run` is a history stamp: which process of the publisher a state or a HELLO is from;
`greeted.run` is that of the HELLO handled last, and `greeted.late` says that one of an
earlier process has come behind one of a later process.  Only what is copied unchanged (stance, animation, equipment) is followed;
positions are smoothed on the way and are the subject of SceneProxy.

### 2.5 HostMirror

`dialogue` and `quest` of the session, the one-entry slot for a guest's
selection and what the host has popped from it, a channel to and from each
guest, and each guest's dialogue and quest state.  The host calls the `hem_`
functions in any order; selections pass `dsp_apply_selection` on arrival and
the progression policy when the host applies them.  The encoder's text
lookup is modelled by what it reads, `Texts` are the texts it may find.  `intact`, `fresh` and `answers` are
history: who saw the dialogue open, who was sent the last quest update, how
often the offer was answered.

### 2.6 SceneProxy

From a relayed state to the actor on the screen: the manager, its smoothing and
teleport policy, the three exchangeable backends, the scene backend's
interpolation, the spawn contract and the driver.  Positions are integers, one
unit being the spacing of floats at the target, and an addition rounds as the
processor does; so the point where rounding stops the interpolation is in the
model.  `Join` is the first tick after WELCOME, whose `rpm_init` puts the default
backend back.

### 2.7 HookPatch

The inline patch as a program on memory cells.  A cell is a byte of an
instruction: the decoder sees bytes, the processor (`Execute`) instructions.
`clf4_phpr_attempt` decodes, plans, allocates and writes, with a failure at each
allocation and protection call; `CallTarget` runs the patched function.
Every way back goes through rax (`emit_mov_rax_jmp_rax`), so an instruction also says
whether it reads or writes rax, and the processor keeps whose value is in it (`own`):
none of the function's, which is called with nothing in rax; its own; an address loaded over its own
(`lost`); or such an address that it has read (`misread`).  After that the model follows
the code on, to say what else it would do; the program itself would fault.  The function is
followed straight on: none of its jumps is taken, and none comes back into the moved bytes.
The prologues of the run are real x64 encodings.  For all others `PatchAssumption`
says what is relied on: a prologue is longer than the 16 captured bytes, and the
decoder knows it (`Knows`): the instructions it accepts there have the length it
measures, and those it calls safe do not depend on their place.  It need not
accept anything.  TLC evaluates the assumption for all prologues of the run.  A
wide immediate behind an operand-size prefix, which the decoder counts as 4 bytes
and the processor as 2, is outside it.

### 2.8 HookTargets, HookBringup, PlayerObservation, HookInstall

`HookTargets`: address providers, sites, runtime profiles, discovery, attempt
and the trusted file, as functions.  `HookBringup`: registry of the hook families,
readiness and blocking policies, self-check.  `PlayerObservation`: the path of a
sample from the shim through callback stub, adapter, normaliser and probe to the
two providers and the observer, as operations on a record of their statics.
`HookInstall` extends the three and has the state: the exports' Query and Load,
install and uninstall, live callback candidate, dry run, armed attempt,
validation, evidence and arming gate, called in any order.  `patched`, `direct`
and `submitted` are history.

### 2.9 Proof modules

One for each component, `SessionServiceProofs` (with the refinement of Membership),
`ClientSessionProofs`, `WorldProofs` (WorldAuthority and WorldReplication),
`MovementPathProofs`, `HostMirrorProofs`, `SceneProxyProofs`, `HookProofs`
(HookInstall and HookPatch), and `SharedLemmas`
for what several need: search loops written as `Min` of the matching indices,
induction over an interval, `Max`, what appending to and removing from a channel
does to its elements, `FoldLeft` over a channel one message at a time, and
`FlattenSeq` one sequence at a time.

## 3. The runs

| Run | Shows |
|---|---|
| SessionIdentity | 3 GUIDs (one of 64 bytes), 4 endpoints (one client restarts on a new port), 2 ids, idle timeout of 2 ticks, joins that replay 50 world messages; registry and endpoint table fill up: types, `SlotIdentity`, `OneSlotPerGuid`, `RouteIsOwn`, `NoGhostIsSent`, `LeaveIsAnnounced`, and the refinement `ImplementsMembership` |
| SessionIdle | two clients, one with an empty GUID; liveness: `IdleEventuallyLeaves` |
| ClientSession | two connections of a client that may be shut down, crash, be ticked by the hook; a service that starts late and crashes; both networks: `IdentityAgrees`, `ProxiesAreCurrent`, `KeepsSeat`; liveness: `JoinIsResilient` |
| WorldObjects | two settlements compete for two object slots, a hostile is fought: `BudgetIsKept`, `NetIdsAreUnique`, `NoCorpseStays`, `DespawnIsAnnounced` |
| WorldViews | ordered network, late joins, retried HELLOs, restarts: `ActorViewsConverge`, `ObjectViewsConverge` |
| MovementOrder | loss, duplication and reordering of states and HELLOs, restarts, inputs: `NeverBackwards` |
| MovementOrdered | ordered network with the rate limit on: `ShownIsRelayed`, `NoGhostPlayer`; liveness: `StillPlayerIsShown` |
| HostMirror | two guests, two dialogues, a quest, a talker that dies, answers that race: `DialogueIsMirrored`, `AnsweredOnce`, `QuestIsMirrored`, `GuestStageNeverFalls` |
| SceneProxy | moves, teleports, stale states, backends switched under way, a join: `SceneMatchesProxy`, `PendingIsExact`; liveness: `ActorSettles` |
| HookPatch | 342 prologues, two attempts of every outcome, resets and calls: `PrologueRunsOnce`, `NoOrphanBlock`, `MarkerIsEvidence`, `RealizedIsTrue` |
| HookInstall | exports and inner callers in every order, two attempts: `AcceptedIsCounted`, `RingHoldsLatest`, `FailedInstallLeavesNoCallback`, `ShippedNeverPatches`, `SelfcheckIsExact`, `WiredIsPatched`, `AllowedIsCurrent` |
| SessionTakeover | ends in a counterexample: A leaves, B joins with A's id, A's HELLO takes B's live slot (`LivePlayerKeepsSlot`; `findings` quotes the line it contradicts) |

`KeepsSeat` cannot be had for less: with `LongestSilence` one smaller TLC finds a
client that is timed out, for a retry interval of 3, a heartbeat of 2 and two messages
of others per client tick.  It says what three settings have to do with each other,
`hello_retry_interval_polls` and `heartbeat_interval_ticks` in client ticks and
`player_timeout_ticks` in messages of anybody: with the defaults of 4 and 10 frames and n
messages of others per frame, a timeout of 14n + 1 is enough.  The retry interval
belongs to it because a WELCOME may be overtaken by messages of others, of which the client
polls one per tick: it is silent until it finds the WELCOME or repeats its HELLO.

### Known deviations

What the models show the code to do against its documentation or its evident
purpose, besides SessionTakeover; the properties exclude these cases by a named
premise, and each is a hazard in `PROJECT.json` or is told here:

- a 64-byte GUID is registered with 63 bytes, is never found again, and takes a
  slot with each HELLO;
- the 65th output of an iteration is dropped: a join that replays sixty messages
  drowns a timeout's PLAYER_LEFT (docs/goal0-heartbeat-timeout.md:9), and a
  client that joins a large world misses the rest of it;
- move, scrap and dialogue requests do not refresh `last_heard_tick`;
- an ACTOR_STATE behind its ACTOR_DESPAWN brings the actor back, a PLAYER_STATE
  behind its PLAYER_LEFT the player;
- MSG_INPUT_STATE is broadcast under old stamps and refused by all observers
  (docs/vertical-slice-test-plan.md:18);
- a restarted client's states are refused until it has sent as many as before
  (docs/goal0-relay-contract.md:6);
- after a restart of the service, or its own timeout, a client that had its
  WELCOME never says HELLO again; a late HELLO of its old connection takes the
  route away from the new one, and late states of the old process with larger stamps
  then overwrite newer ones, although "stale replays cannot overwrite newer live movement"
  (docs/goal0-relay-contract.md:8);
- `fltdev_tick` from the hook's emission after `F4MP_Shutdown` reopens the
  connection with the old proxies in place;
- the texts of choices and objectives are looked up behind the records in use,
  where the payload does not have them unless the list is full
  (`transport_loop.c:58` and `:60`);
- an objective left out of a quest update is forgotten and may come back as
  active;
- a death closes a dialogue in the guests and not in the service;
- the arming gate collects evidence and looks at none of it
  (docs/phase1r-real-hook-arming-gate.md:10);
- the adapter stub passes the floor runtime to the executor, so the player family
  fails at every load (`commonlibf4_hook_adapter_stub.cpp:8`);
- an operand size prefix makes the decoder count a 16-bit immediate as 32;
- the jump at the end of the trampoline leaves a code address in rax
  (`commonlibf4_player_hook_patch_realization.c:509`), and nothing looks whether the
  function needs its rax there: prologues that start with `mov rax, rsp` and use rax
  behind the cut are accepted and misread it, although a prologue is moved "only when" it is
  "supported and relocation-safe"
  (docs/iterations/slice3h-15-byte-boundary-aligned-trampoline-realizer.md:5).

The last one and the late HELLO are premises of `PrologueRunsOnce` (`CarriesRax`) and of `NeverBackwards`
(`greeted.late`), and both happen in the runs: without the premise TLC ends
in a counterexample.  In MovementOrder a copy of the old process's HELLO arrives after the new
process has joined, and a late state of the old one, with the larger stamps, replaces the newer.
In HookPatch `mov rax, rsp` and what follows up to the cut is moved, the trampoline jumps back,
and the next use of rax reads the address it jumped to.

### Bounds

Tables keep their real relations and lose their sizes: ids are one fewer than
slots (7 of 8 in the code, 2 of 3 here), the registry is larger than
the number of ids except where it is meant to fill.  Three clients and two
ids are enough for every pairing of a leaver, one who takes the freed id, and a
bystander; a fourth endpoint gives one client two addresses.  The output buffer
keeps its 64 in the session runs (a join may add 50 world messages as a
number).  In ClientSession two ids and two GUIDs let the peer have the
client's old id; two connections let a late datagram of the first meet the
second; retry interval, heartbeat and timeout are 2, 2 and 6, the smallest
timeout `KeepsSeat` promises anything for; one fault (a crash or
a datagram that cannot be applied) on the prompt network, two datagrams in flight
each way on the lossy one.  In the world runs two object slots,
two settlements and budgets 2 and 1 make slots, budget and reuse of a slot
collide; net ids are capped by `MaxNetId`, which allows each slot to be
reused.  Health counts quarters as in the code (0.25 a hit).  In the
replication and mirror runs a service step waits until the channels are empty
(`MaxInFlight = 0`): what a step sends is a burst of up to five messages, whose
delivery interleaves with nothing but other deliveries; with one datagram left
in flight the same properties of WorldReplication hold (2.1 million states), which takes too long to
keep as a run.  In MovementOrder two states, two connections, two processes and
three datagrams in flight, any of which may arrive next, allow a late state behind a late HELLO to
meet each of its successors; there is one look, which only an input tells from another
state, and no repeated HELLO, because duplication makes the copies.  MovementOrdered has
three states, two looks, one repeated HELLO and two datagrams in flight.
`Observed` stops counting ticks where the next state may be sent, because only
the order of the ticks of sent states is ever compared.  SceneProxy has one remote
player, whose id may become the client's own, six positions and two moves: smoothing,
teleport and both roundings occur.  HookPatch combines any two of 18 encodings
before a usual prologue, and puts each of them into one that keeps rsp in rax beyond
the twelfth byte; HookInstall allows five calls, an attempt counting
twice, with a ring of two.

### Fairness

`IdleEventuallyLeaves` assumes no fairness of the service: its premise is that
messages of others keep being handled, because nothing else makes
`tl_tick` run - the main loop polls but does not tick on its own.
`FairSpec` of MovementPath asks for weak fairness of the publisher's tick (the
game calls `mlcb_tick` on each frame), of the service's receive and of
the observer's poll, on a network that loses nothing; the publisher's tick includes finding the
WELCOME, which on such a network arrives.  On a lossy network the
property needs `force_resend_ticks`; the counters it drives have no bound
that TLC could explore.  `FairSpec` of ClientSession asks for weak fairness of
the client's tick and of the service being started, and strong fairness of a HELLO of the
open connection being handled and of a WELCOME being received, all of it only
while the client waits: a network that loses every copy cannot be served, and
the retries are what makes the copies recur.  `FairSpec` of SceneProxy: the
backend is stepped in every frame and the publisher's state comes again.

Deadlock is checked in every run but HookInstall, whose calls are used up when
the budget is; in the others some datagram or call is always possible.

## 4. The proofs

All theorems hold for every value of the constants that satisfies the named
assumptions of the modules (finite sets, positive sizes, an output buffer with room for
one join).  Where a theorem needs more it says so in an `ASSUME` of its own, named
below with the reason.  Every listed theorem is a fact about the specification
a run checks, and most state the very property of that run.

**SessionService** (`SessionServiceProofs`).  `IInv` is TypeOK and five parts:
slot i only ever holds id i, and a connected slot has a connection
(`SlotsOK`); a registered id is still in its slot (`ReachOK`); a live GUID leads
to its own slot unless the registry was full (`GuidsOK`); a live slot's
connection belongs to an endpoint that says this GUID (`RoutesOK`); connection
ids are handed out once (`BindingsOK`).  None of the checked properties is
inductive alone: a join searches a free *id* and then a free *slot*, and only
`SlotIdentity` makes the two searches meet; `OneSlotPerGuid` needs
`GuidsOK`, because a second HELLO is kept off a second slot by the registry
alone.  The parts are predicates on the value of the slots, because each handler first makes
an intermediate value which the tick then ages (`Keeps`, `KeepsCarries`).
Proved: `SessionTypes`, `SessionSlotIdentity`, `SessionReconnect`,
`SessionLiveGuids`, `SessionOneSlotPerGuid`, `SessionRoutes`,
`SessionConnections`.

What an iteration sends depends on the room in its buffer.  `Roomy` says that
there is room for the largest iteration: a killing shot, or a join
with its replay, followed by the timeout of everybody but the sender, each announced to
all others.  With 8 slots and 64 outputs it holds as long as a join replays at most
11 world messages; the run SessionIdentity has 3 slots and satisfies it with 50.
Without it the properties fail (section 3, deviations).  Under `Roomy`:
`SessionLeaves` (`LeaveIsAnnounced`) and `SessionNoGhost` (`NoGhostIsSent`).  The
argument counts what each handler pushes, and shows that a state
sent in an iteration is either the state of somebody who stays or followed by that
player's PLAYER_LEFT.

**The refinement** (same module): `SessionImplementsMembership`,
that every behaviour of SessionService is one of Membership.  Each message is
shown to greet the player of one seat or to seat nobody, then its tick only
empties seats, and never the one just greeted, because that slot was heard in
this very iteration; `IInv` says that slot and id are the same, which makes the
mapped HELLO an `Enter` or a `Return`.

**ClientSession** (`ClientSessionProofs`): `IdentityIsLatched`
(`IdentityAgrees`) and `ProxiesOfThisSession` (`ProxiesAreCurrent`), on both networks
and for any number of connections and crashes.  The properties speak of what a
client remembers; the invariant has to speak of what is in flight.
A connection number is used once and a socket hears only what was sent to it, so every
datagram the client can still receive (`Arrives`) was sent after the HELLO of its present
connection: a WELCOME carries `home[Me]`, and a state of that id is the client's own,
relayed back, which only a client that has joined can have caused (`Speaks`).  Each operation
maps a process that fits into processes that fit (`Sound`, `Current`, `AtHome`), for
whatever line the configuration file holds.

`TimeoutSparesTheLiving` is the action property `KeepsSeat`, for every retry interval,
heartbeat, timeout and rate of messages.  It follows from a second invariant, `SilenceInv`
(`SilenceIsBounded`), an account in service ticks: what has been counted since Me was
heard, plus `Chatter` for each client tick until the next HELLO or ping
(`Left`, from the poll and tick counters) and for each tick that may be lost to a datagram
the client cannot apply (`Spare`), plus what others may still send before the next tick, is at most
`LongestSilence`.  A message of others moves one from the last part to the first, a tick of
the client pays with `Left` or `Spare` or sends a sign of life, a sign of life settles
everything.  A bound without the retry interval is too short: with an interval of 4 and a
heartbeat of 2 TLC finds a client that is timed out.  The proof uses
`HeartbeatAssumption`, that the interval read from a file is a natural number: what a
fold over the lines of any file computes would need an induction.

**WorldAuthority** (`WorldProofs`).  `WInv` is the conjunction of
TypeOK, `BudgetIsKept`, `NetIdsAreUnique`, `NoCorpseStays`; together they are
inductive.  A scrap lowers the right count because a net id names one
slot; a new id is fresh because all ids lie below the counter; at most
one actor can be doomed in a tick (`TickDooms`) because no corpse was left by the tick
before, so `to_despawn` never overflows whatever its size.  Proved:
`WorldTypes`, `WorldBudget`, `WorldNetIds`, `WorldNoCorpse`, and, if four
broadcasts fit into the buffer (`CombatFits`: 28 outputs of 64 with 7 players),
`WorldDespawns` (`DespawnIsAnnounced`).

**WorldReplication** (`WorldProofs`).  `ReplicationIsTheService` (`RSpec => Spec`) carries
all of the above over.  The new results are about what a client ends up with when its
channel is delivered, `Settled(c)`, a fold of the client's handlers over the channel, on a
network that keeps order (`Window = 1`; otherwise a despawn may overtake the actor state sent
before it, which then spawns the actor again).  A delivery does not change `Settled`; what a
service step appends is followed output by output, for every view that agreed before
the step (`Shown`, `Built`, `Alive`: relations between a view and the
service's slots).  A join appends a replay of any length, cut wherever the output buffer
is full, so each prefix of a replay has to keep the relation too.

- `ShownObjectsAreReal`: no client ends up with an object the service does not have, or has
  elsewhere, however many there are, if a build result and its spawns fit
  (`ObjectFits`: 8 of 64 outputs with 7 players).
- `ObjectsConverge` (`ObjectViewsConverge`): while the service never has more objects than
  the plugin has records (`Few`: 256, where the budget in `service_main.c` is 512), every
  client also ends up with each object built since its process started.  The
  premise is needed: a spawn beyond the 256th is not stored.
  `FewObjectsConverge` is the case in which there are no more slots than records.
- `ActorsConverge` (`ActorViewsConverge`): every actor shown is alive with the same health,
  if the outputs of a kill (`CombatFits`), of a build and of the hostiles in a replay
  (`ReplayFits`: 4 + players + 2 per hostile, of 64) fit.  Without the last one a
  replay can be cut between an actor's spawn and its state, and a wounded actor is
  shown unhurt until its next hit.

**MovementPath** (`MovementPathProofs`).  `MovementNeverGoesBack`
(`NeverBackwards`) holds on every network: neither slot nor proxy goes back to an older state of
the same process, and to one of an earlier process only after a HELLO of an
earlier process came behind one of a later (`greeted.late`), which does happen.  The invariant has two halves.  `DownInv` orders everything that may be seen
again: no state in the channel or in the proxy has larger stamps than the slot's, and until
a HELLO was late the smaller stamps never belong to the newer process, and equal stamps
belong to the same one (`Relayed`, `InStep`).  `UpInv` says who may be heard: all
states and HELLOs on their way over one connection are of one process, those over the slot's connection
of the process whose HELLO came last (`greeted.run`), and until a HELLO was late that is none before
the process of the slot's state.  A new process starts its stamps again while
the slot keeps the old ones, so it takes both halves of the relay filter and the
routing together to keep the order.
`NoGhostStays` (`NoGhostPlayer`) assumes a network that keeps order
(`Window = 1`, `~Unreliable`), and `ShownStateIsRelayed` (`ShownIsRelayed`) in addition
`MaxInputs = 0`: a datagram that overtakes PLAYER_LEFT and an input state under old stamps
are known deviations, so without these premises the statements are false.  Both follow from
`SettledInv`, which folds the observer's filter over the channel.

**HostMirror** (`HostMirrorProofs`): `TypeCorrect`, `DialogueMirror`
(`DialogueIsMirrored`), `OneAnswer` (`AnsweredOnce`), `QuestMirrored`
(`QuestIsMirrored`), `StagesOnlyRise` (`GuestStageNeverFalls`).  That a guest's settled
dialogue mirrors the service's is kept by each message because sender and receiver do the
same to related dialogues (`Mirrors`; the service does not make a dialogue
active when it offers choices, the guests do).  That stages rise needs two facts about the whole
channel: the stages in it rise (`Ascending`), and each is one the
service has had (`Known`).  An answered offer has been withdrawn (`OfferInv`).

**SceneProxy** (`SceneProxyProofs`): `TypeCorrect`, `SceneFollowsProxy`
(`SceneMatchesProxy`), `PendingFlagIsExact` (`PendingIsExact`).  `Good` is a predicate on
one player's records that every operation keeps; an entry that a former scene
backend left has an exact pending flag but need not match the proxy.  `TypeCorrect` is
a result about the arithmetic: a share of at most 1 of a distance, rounded to
either neighbour, does not pass the target.

**HookInstall** (`HookProofs`).  An attempt is a chain of a dozen calls on
shared statics, and the exports may start it in any order.  `Fit` is a
predicate on the record of all of them, shown to be kept by each call: callback, adapter
and provider come and go together and only with a written patch, and the counts of
adapter and probe agree (`Linked`, `Counted`).  Along the chain a candidate is reset
(`Fresh`), primed by this very call (`Primed`), and then confirmed by its own
sample.  Proved: `CallbackFollowsInstall` (`FailedInstallLeavesNoCallback`),
`AdapterCountsAgree` (`AcceptedIsCounted`), `ShippedIsDry` (`ShippedNeverPatches`:
`Clean` is kept by everything an export can do by itself), `RingIsLatest`
(`RingHoldsLatest`, for a ring of any size), `SelfcheckTells` (`SelfcheckIsExact`),
and the action properties `WiredMeansPatched` (`WiredIsPatched`) and `GateIsCurrent`
(`AllowedIsCurrent`).

**HookPatch** (`HookProofs`), for every set of prologues that satisfies
`PatchAssumption` and any number of attempts and calls: `PrologueRuns`
(`PrologueRunsOnce`), `NoBlockOrphaned` (`NoOrphanBlock`), `MarkerCounts`
(`MarkerIsEvidence`), `RealizedStands` (`RealizedIsTrue`).  What the processor does is a
recursion over the memory, so the invariant does not mention it.  It says that there
is a `Path`: a set of stages, each with an address, the whole instruction there, the number
of original instructions done, the blocks jumped from, the marks counted and the
steps left; every stage leads to another one of the set, and one without steps left is behind
the target with everything done and every allocated block seen.  `RunFollows`
is the one induction: a processor started at the first stage goes through the path,
within `Fuel`.  `PatchedPath` builds the path after a successful attempt from the one
before: stages inside the cut move to the trampoline, the others stay, the entry,
the gateway and the way back are added.  It needs a cut between two stages.
On untouched code the planner's cursor is always at the start of an instruction,
because the decoder knows the prologue (`PlanOnCode`); on a target hooked before, the
planner decodes the earlier `mov rax; jmp rax` and cuts behind its 12 bytes (`PlanOnJump`),
and no stage but the first lies there (`Hooked`).
That nobody but the function writes its rax is not true; `PrologueRunsOnce` says when it
matters: only if one of the moved instructions writes rax and one behind them reads that value
(`CarriesRax`).  On every path, after any number of attempts, jumps are taken before the first instruction
or behind the n-th, where n is what the first attempt moved (`TurnsAt`, `CutPlace`): a later attempt moves
only the earlier jump.  `RaxOf` says what `own` is after d instructions then, and is
kept by an instruction (`RaxOfNext`) and by a jump at 0 or n (`RaxOfJump`).  Blocks: an attempt that fails
returns what it took and took nothing in use, and two are free at each attempt
because every earlier one left at most two (`BlocksCounted`).

`SessionReconnect`, `SessionLiveGuids`, `SessionConnections`, `WorldTypes` and the
`TypeCorrect` of HostMirror and SceneProxy state definitions that no run repeats.

Only model-checked:

- liveness (`IdleEventuallyLeaves`, `JoinIsResilient`, `StillPlayerIsShown`,
  `ActorSettles`), which is outside what the prover does;
- SessionTakeover, which is a counterexample.

## 5. Not modelled

Byte layout (`packet_codec.c`, reader, writer), files (profile, whitelist,
replay log, traces and reports), sockets, floating-point geometry, event translation
(copies), `interest_manager.c` (never called), the probe harvest and the phase 1R
files that only print what the modelled ones hold.  Two things noticed on the
way that no module covers: outside the tests nobody
calls `msb_init`, so the live client runs with `force_resend_ticks` and
`min_send_interval_ticks` 0; and the snapshot getters of
`engine_bridge_stub.c` count ids from 1 while net ids start at 1000 and
2000.

## 6. The plan

1. Done: the modules of section 2, the refinement of Membership, the proofs of
   SessionService and WorldAuthority.
2. Done: the safety properties of ClientSession, MovementPath, HostMirror,
   SceneProxy and HookInstall, the announcements of SessionService and WorldAuthority.
3. Done: the convergence of the clients' worlds (WorldReplication) and the inline
   patch (HookPatch), and how long a client may be silent (`KeepsSeat`), so that every
   safety property a passing run checks is also a theorem.
4. An abstract specification of the movement path for MovementPath: for each process of
   a player a register that only moves forward, and a choice of the process heard, which
   a late HELLO may turn back.
