-------------------------- MODULE PlayerObservation --------------------------
(***************************************************************************)
(* How a sample of the local player travels: the detour's shim, the        *)
(* callback stub, the source candidate adapter, the runtime probe, the two *)
(* providers and the observer that everybody else captures from.  The      *)
(* globals of these files are the fields of one record o, and an operation *)
(* maps a record to the record after the call, so that the install path    *)
(* can call several of them in one step.                                   *)
(***************************************************************************)
EXTENDS HookTargets

CONSTANT QueueMax       \* LPO_LIVE_PROVIDER_MAX_QUEUE, 8 in the code
ASSUME QueueAssumption == QueueMax \in Nat \ {0}

(* A hook event: the player it is stamped with, 0 for none, and a position, *)
(* 0 when it, the rotation or the velocity is not finite or the stance is  *)
(* out of range.                                                           *)
NoPlayer == 0
BadPos   == 0
NoState  == [player |-> NoPlayer, pos |-> BadPos]

-----------------------------------------------------------------------------
(* commonlibf4_player_live_adapter: one instance, used by the probe and by *)
(* the live provider.                                                      *)

clf4_pla_reset(o, id) == [o EXCEPT !.pla = [fallback |-> id, accepts |-> 0, rejects |-> 0]]

resolved_player_id(o, e) == IF e.player # NoPlayer THEN e.player ELSE o.pla.fallback

clf4_pla_normalize(o, e) ==
  LET ok == resolved_player_id(o, e) # NoPlayer /\ e.pos # BadPos
  IN  [ok |-> ok, state |-> [player |-> resolved_player_id(o, e), pos |-> e.pos],
       o |-> IF ok THEN [o EXCEPT !.pla.accepts = @ + 1] ELSE [o EXCEPT !.pla.rejects = @ + 1]]

-----------------------------------------------------------------------------
(* The runtime probe.                                                      *)

ProbeZero ==
  [configured |-> FALSE, expected |-> NoPlayer, needUpdate |-> FALSE, needInput |-> FALSE,
   needCallback |-> FALSE, ready |-> FALSE, supported |-> FALSE, profile |-> "", update |-> NoAddr,
   input |-> NoAddr, callbacks |-> 0, rejected |-> 0, mismatched |-> 0, last |-> NoState, correct |-> FALSE]

refresh_hook_correctness(p) ==
  [p EXCEPT !.correct = /\ p.ready /\ p.supported
                        /\ p.needUpdate => p.update # NoAddr
                        /\ p.needInput => p.input # NoAddr
                        /\ p.needCallback => p.callbacks > 0
                        /\ p.mismatched = 0]

(* The registry reset of clf4_phrp_reset is in module HookInstall.         *)
clf4_phrp_reset(o) == clf4_pla_reset([o EXCEPT !.probe = ProbeZero], NoPlayer)

ConfiguredProbe(p, expected, update, input, callback) ==
  [p EXCEPT !.configured = TRUE, !.expected = expected, !.needUpdate = update,
            !.needInput = input, !.needCallback = callback]
clf4_phrp_configure(o, expected, update, input, callback) ==
  clf4_pla_reset(
    [o EXCEPT !.probe = refresh_hook_correctness(ConfiguredProbe(o.probe, expected, update, input, callback))],
    expected)

(* clf4_phrp_install_with_prototype on the probe; ready says whether the   *)
(* attempt ended in an installed hook.                                     *)
InstalledProbe(p, profile, r, ready) ==
  LET found(a) == IF profile.build THEN a.addr ELSE NoAddr
  IN  [p EXCEPT !.ready = ready, !.supported = profile.build, !.profile = profile.name,
                !.update = found(r.update), !.input = found(r.input)]
clf4_phrp_install_with_prototype(o, f4se, provider, site, ready) ==
  [o EXCEPT !.probe = refresh_hook_correctness(
     InstalledProbe(o.probe, clf4_phrprof_resolve(site, f4se), clf4_phdsp_resolve(site, f4se, provider), ready))]

(* What the probe makes of the normalised sample n.                        *)
TalliedProbe(p, ok, foreign, state) ==
  IF ok THEN [p EXCEPT !.callbacks = @ + 1, !.last = state, !.mismatched = IF foreign THEN @ + 1 ELSE @]
  ELSE [p EXCEPT !.rejected = @ + 1]
ProbeSample(n) ==
  LET p       == n.o.probe
      foreign == p.expected # NoPlayer /\ n.state.player # p.expected
  IN  [ok |-> n.ok /\ ~foreign,
       o |-> [n.o EXCEPT !.probe = refresh_hook_correctness(TalliedProbe(p, n.ok, foreign, n.state))]]

clf4_phrp_submit_callback(o, e) ==
  IF o.probe.ready THEN ProbeSample(clf4_pla_normalize(o, e)) ELSE [o |-> o, ok |-> FALSE]

-----------------------------------------------------------------------------
(* The probe's provider.                                                   *)

LpppZero == [installed |-> FALSE, expected |-> NoPlayer, correct |-> FALSE, has |-> FALSE, last |-> NoState]
clf4_lppp_install(o, expected, correct) ==
  [o EXCEPT !.lppp = [LpppZero EXCEPT !.installed = TRUE, !.expected = expected, !.correct = correct]]
clf4_lppp_uninstall(o) == [o EXCEPT !.lppp = LpppZero]

Captured(o, state) == [ok |-> TRUE, state |-> state, o |-> o]
NotCaptured(o)     == [ok |-> FALSE, state |-> NoState, o |-> o]

probe_provider_capture(o) ==
  IF /\ o.probe.ready /\ o.probe.callbacks > 0
     /\ o.lppp.correct => o.probe.correct
     /\ o.lppp.expected \in {NoPlayer, o.probe.last.player}
  THEN Captured([o EXCEPT !.lppp.has = TRUE, !.lppp.last = o.probe.last], o.probe.last)
  ELSE NotCaptured(o)

-----------------------------------------------------------------------------
(* The live provider and its ring of samples.                              *)

LiveZero == [installed |-> FALSE, head |-> 0, tail |-> 0, count |-> 0, queue |-> [i \in 0..QueueMax-1 |-> NoState],
             has |-> FALSE, last |-> NoState, submits |-> 0, dropped |-> 0]

live_queue_push(live, state) ==
  LET full == live.count = QueueMax
  IN  [live EXCEPT !.head = IF full THEN (@ + 1) % QueueMax ELSE @,
                   !.dropped = IF full THEN @ + 1 ELSE @,
                   !.queue[live.tail] = state,
                   !.tail = (@ + 1) % QueueMax,
                   !.count = IF full THEN @ ELSE @ + 1]

(* Mutant: the oldest sample is handed out.                                *)
live_queue_peek_oldest(live) == live.queue[live.head]
live_queue_peek_latest(live) == live.queue[(live.tail + QueueMax - 1) % QueueMax]

live_provider_capture(o) ==
  LET s == IF o.live.count > 0 THEN live_queue_peek_latest(o.live) ELSE o.live.last
  IN  IF o.live.count > 0 \/ o.live.has
      THEN Captured([o EXCEPT !.live.has = TRUE, !.live.last = s], s) ELSE NotCaptured(o)

lpo_live_provider_install(o, id) == clf4_pla_reset([o EXCEPT !.live = [LiveZero EXCEPT !.installed = TRUE]], id)
lpo_live_provider_uninstall(o)   == clf4_pla_reset([o EXCEPT !.live = LiveZero], NoPlayer)
TalliedLive(pushed, state) == [pushed EXCEPT !.submits = @ + 1, !.has = TRUE, !.last = state]
LiveSample(n) ==
  IF ~n.ok THEN [n EXCEPT !.state = NoState]
  ELSE [n EXCEPT !.o.live = TalliedLive(live_queue_push(@, n.state), n.state)]
lpo_live_provider_submit(o, e) ==
  IF o.live.installed THEN LiveSample(clf4_pla_normalize(o, e)) ELSE [o |-> o, ok |-> FALSE, state |-> NoState]

-----------------------------------------------------------------------------
(* The observer.                                                           *)

lpo_init(o, id) == [o EXCEPT !.local = id, !.synth = [valid |-> FALSE, state |-> [NoState EXCEPT !.player = id]]]
lpo_set_synthetic_state(o, s) ==
  [o EXCEPT !.synth = [valid |-> TRUE, state |-> [s EXCEPT !.player = IF @ = NoPlayer THEN o.local ELSE @]]]

(* Only one provider is asked; when it fails the synthetic state answers.  *)
AskProvider(o) ==
  IF o.lppp.installed THEN probe_provider_capture(o)
  ELSE IF o.live.installed THEN live_provider_capture(o) ELSE NotCaptured(o)
OrSynthetic(asked) ==
  IF asked.ok THEN [asked EXCEPT !.state.player = IF @ = NoPlayer THEN asked.o.local ELSE @]
  ELSE IF asked.o.synth.valid THEN Captured(asked.o, asked.o.synth.state) ELSE asked
lpo_capture(o) == OrSynthetic(AskProvider(o))

-----------------------------------------------------------------------------
(* The source candidate adapter and the callback stub.                     *)

AdapterZero == [installed |-> FALSE, fwd |-> 0, acc |-> 0, rej |-> 0, rfwd |-> 0, racc |-> 0, rrej |-> 0,
                has |-> FALSE, last |-> NoState]

Tally(real) == IF real THEN 1 ELSE 0

(* The state it keeps is the provider's of before this sample.             *)
TalliedAdapter(a, ok, real, kept, state) ==
  [a EXCEPT !.fwd = @ + 1, !.rfwd = @ + Tally(real),
            !.acc = @ + Tally(ok), !.racc = @ + Tally(real /\ ok),
            !.rej = @ + Tally(~ok), !.rrej = @ + Tally(real /\ ~ok),
            !.has = @ \/ kept, !.last = IF kept THEN state ELSE @]
CountForwarded(sub, real) ==
  [ok |-> sub.ok,
   o |-> [sub.o EXCEPT !.adapter = TalliedAdapter(@, sub.ok, real, sub.ok /\ sub.o.lppp.has, sub.o.lppp.last)]]
source_candidate_cb(o, e, real) == CountForwarded(clf4_phrp_submit_callback(o, e), real)

clf4_phsca_install(o, expected, correct) ==
  LET fresh == clf4_lppp_install([o EXCEPT !.adapter = [AdapterZero EXCEPT !.installed = TRUE]], expected, correct)
  IN  [fresh EXCEPT !.stub.registered = TRUE]

clf4_phsca_uninstall(o) == [clf4_lppp_uninstall(o) EXCEPT !.adapter = AdapterZero, !.stub.registered = FALSE]

StubZero == [registered |-> FALSE, emits |-> 0, succ |-> 0, fail |-> 0, remits |-> 0, rsucc |-> 0, rfail |-> 0]

TalliedStub(s, ok, real) ==
  [s EXCEPT !.emits = @ + 1, !.remits = @ + Tally(real),
            !.succ = @ + Tally(ok), !.rsucc = @ + Tally(real /\ ok),
            !.fail = @ + Tally(~ok), !.rfail = @ + Tally(real /\ ~ok)]
CountEmitted(called, real) ==
  [ok |-> called.ok, o |-> [called.o EXCEPT !.stub = TalliedStub(@, called.ok, real)]]
dispatch_emit(o, e, real) ==
  CountEmitted(IF o.stub.registered THEN source_candidate_cb(o, e, real) ELSE [o |-> o, ok |-> FALSE], real)

-----------------------------------------------------------------------------
(* The shim the detour and the bridge call.  It also hands the sample to   *)
(* the remote proxies (fbi_ingest_remote_player_state), which keep nothing *)
(* of the state here.                                                      *)

ShimZero == [bridge |-> 0, entries |-> 0, succ |-> 0, fail |-> 0, detours |-> 0]

CountIngested(d) == [d.o EXCEPT !.shim.succ = @ + Tally(d.ok), !.shim.fail = @ + Tally(~d.ok)]
phs_ingest_real_player_snapshot(o, e) ==
  CountIngested(dispatch_emit([o EXCEPT !.shim.bridge = @ + 1, !.shim.entries = @ + 1], e, TRUE))
phs_ingest_null(o) == [o EXCEPT !.shim.bridge = @ + 1]
phs_note_manual_detour_entry(o) == [o EXCEPT !.shim.detours = @ + 1]

ObsZero == [pla |-> [fallback |-> NoPlayer, accepts |-> 0, rejects |-> 0], probe |-> ProbeZero,
            lppp |-> LpppZero, live |-> LiveZero, adapter |-> AdapterZero, stub |-> StubZero, shim |-> ShimZero,
            local |-> NoPlayer, synth |-> [valid |-> FALSE, state |-> NoState]]
=============================================================================
