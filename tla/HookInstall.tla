----------------------------- MODULE HookInstall -----------------------------
(***************************************************************************)
(* The player hook from the plugin's exports to the game: discovery,       *)
(* install candidate, live callback candidate, callback validation, the    *)
(* evidence and arming gates, the wiring attempt, and the bring-up and the *)
(* sample path they share state with.  Everything runs on the game's main  *)
(* thread, one call after the other, in any order the callers choose.      *)
(***************************************************************************)
EXTENDS HookBringup, PlayerObservation

CONSTANTS Envs,         \* what the game and the environment offer the exports
          Configs,      \* wiring configurations of callers inside the plugin
          Providers,    \* and the address providers they pass
          Plans,        \* install plans of the bring-up
          Events,       \* hook events: a player, 0 for unstamped, and a position, 0 for invalid
          MaxAttempts,  \* bound on installs and bring-ups
          Budget        \* bound on all calls, an attempt counting twice

VARIABLES
  env,        \* the runtime, the editor flag, F4MP_* and the trusted file
  registry,   \* g_records
  results,    \* the bring-up report
  startup,    \* the startup report
  obs,        \* the sample path, module PlayerObservation
  patch,      \* clf4_phpr_state()
  cand,       \* g_candidate
  phlcc,      \* the fields of the live callback candidate that no poll refreshes
  wiring,     \* phase1r_rlhw's g_state
  gate,       \* phase1r_rhag's g_state
  armed,      \* phase1r_rlhaf's recommended_action
  prearm,     \* g_query_prearm_attempted
  patched,    \* every address the game's code was ever patched at
  direct,     \* whether anyone but the exports started an attempt
  submitted,  \* the samples the live provider accepted since its install
  attempts, events

hidden == <<patched, direct, submitted>>
vars == <<env, registry, results, startup, obs, patch, cand, phlcc, wiring, gate, armed, prearm, attempts, events, hidden>>

F4se == [runtime |-> env.runtime, editor |-> env.editor]

PatchZero  == [attempted |-> FALSE, write |-> FALSE, markers |-> FALSE]
CandZero   == [configured |-> FALSE, ready |-> FALSE, adapter |-> FALSE, path |-> FALSE]
PhlccZero  == [activated |-> FALSE, expected |-> NoPlayer]
WiringZero == [attempted |-> FALSE, activated |-> FALSE, emitted |-> FALSE, validated |-> FALSE,
               ready |-> FALSE, built |-> FALSE, wireReady |-> FALSE, wired |-> FALSE]
GateZero   == [evaluated |-> FALSE, allowed |-> FALSE, evidence |-> FALSE, strict |-> FALSE]

(* The globals an attempt goes through, as one value.                      *)
World == [registry |-> registry, obs |-> obs, patch |-> patch, cand |-> cand, phlcc |-> phlcc,
          wiring |-> wiring, gate |-> gate, patched |-> patched]
Commit(w) ==
  /\ registry' = w.registry /\ obs' = w.obs /\ patch' = w.patch /\ cand' = w.cand
  /\ phlcc' = w.phlcc /\ wiring' = w.wiring /\ gate' = w.gate /\ patched' = w.patched

-----------------------------------------------------------------------------
(* The install candidate.                                                  *)

clf4_phic_stats(w) ==
  LET o == w.obs
      ready == w.cand.ready /\ o.probe.ready
      adapter == w.cand.adapter \/ o.adapter.installed
  IN  [install_ready |-> ready, adapter_installed |-> adapter,
       callback_registered |-> o.stub.registered, provider_installed |-> o.lppp.installed,
       path_ready |-> ready /\ adapter /\ o.stub.registered /\ o.lppp.installed,
       supported |-> o.probe.supported, profile |-> o.probe.profile,
       has |-> o.lppp.has \/ o.adapter.has,
       last |-> IF o.lppp.has THEN o.lppp.last ELSE o.adapter.last]

phrp_reset(w) == [w EXCEPT !.obs = clf4_phrp_reset(@), !.registry = hook_install_registry_reset]

(* Mutant: the probe keeps what it counted.                                *)
clf4_phic_reset_keepProbe(w) ==
  [w EXCEPT !.obs = clf4_phsca_uninstall(@), !.patch = PatchZero, !.cand = CandZero]
clf4_phic_reset(w) ==
  [phrp_reset([w EXCEPT !.obs = clf4_phsca_uninstall(@)]) EXCEPT !.patch = PatchZero, !.cand = CandZero]
clf4_phic_uninstall(w) == [w EXCEPT !.obs = clf4_phsca_uninstall(@), !.cand = CandZero]

(* One attempt on the probe: it may reach the patch step, whose outcome    *)
(* patchOk decides when the patch module could succeed at all.             *)
PatchStep(w, f4se, provider, site, patchOk, r) ==
  LET ok == r.state = "PATCH" /\ PatchCanSucceed(site, r.target) /\ patchOk
      done == IF r.state # "PATCH" THEN r.state ELSE IF ok THEN "INSTALLED" ELSE "FAILED"
      err  == IF r.state = "PATCH" /\ ~ok THEN "PATCH_REJECTED" ELSE r.error
  IN  [w EXCEPT !.obs = clf4_phrp_install_with_prototype(@, f4se, provider, site, ok),
                !.registry = hook_install_registry_mark_state(@, "PLAYER", done, err),
                !.patch = IF r.state = "PATCH" THEN [attempted |-> TRUE, write |-> ok, markers |-> FALSE] ELSE @,
                !.patched = IF ok THEN @ \cup {r.target} ELSE @]
phrp_install(w, f4se, provider, site, allowed, policy, patchOk) ==
  PatchStep(w, f4se, provider, site, patchOk, install_with_resolution(f4se, provider, site, allowed, policy))

snapshot_probe_config(w, cfg) ==
  [w EXCEPT !.obs = clf4_phrp_configure(@, cfg.expected, cfg.needUpdate, cfg.needInput, cfg.needCallback)]

(* Mutant: the adapter is installed whether or not the probe is ready.     *)
clf4_phic_install_with_provider_early(w, f4se, provider, cfg, patchOk) ==
  LET fresh == [clf4_phic_reset(w) EXCEPT !.cand.configured = TRUE]
      tried == phrp_install(snapshot_probe_config(fresh, cfg), f4se, provider, cfg.site,
                            cfg.allowed, cfg.policy, patchOk)
  IN  IF phd_run_player_discovery(f4se, provider).selected = NoCandidate THEN fresh
      ELSE [tried EXCEPT !.obs = clf4_phsca_install(@, cfg.expected, cfg.needCorrect),
                         !.cand.ready = tried.obs.probe.ready, !.cand.adapter = TRUE,
                         !.cand.path = tried.obs.probe.ready]

AdapterIfReady(tried, cfg) ==
  IF ~tried.obs.probe.ready THEN tried
  ELSE [tried EXCEPT !.obs = clf4_phsca_install(@, cfg.expected, cfg.needCorrect),
                     !.cand.ready = TRUE, !.cand.adapter = TRUE, !.cand.path = TRUE]
TryCandidate(fresh, f4se, provider, cfg, patchOk) ==
  IF phd_run_player_discovery(f4se, provider).selected = NoCandidate THEN fresh
  ELSE AdapterIfReady(phrp_install(snapshot_probe_config(fresh, cfg), f4se, provider, cfg.site,
                                   cfg.allowed, cfg.policy, patchOk), cfg)
clf4_phic_install_with_provider(w, f4se, provider, cfg, patchOk) ==
  TryCandidate([clf4_phic_reset(w) EXCEPT !.cand.configured = TRUE], f4se, provider, cfg, patchOk)

-----------------------------------------------------------------------------
(* The live callback candidate.                                            *)

clf4_phlcc_reset(w) == [clf4_phic_uninstall(w) EXCEPT !.phlcc = PhlccZero]

Activated(tried, stats, cfg) ==
  [tried EXCEPT !.phlcc =
     [expected |-> cfg.expected,
      activated |-> /\ tried.cand.path /\ stats.callback_registered /\ stats.provider_installed
                    /\ cfg.needProfile => stats.supported]]
ActivateTried(tried, cfg) == Activated(tried, clf4_phic_stats(tried), cfg)
clf4_phlcc_activate_with_provider(w, f4se, provider, cfg, patchOk) ==
  ActivateTried(
    clf4_phic_install_with_provider(clf4_phlcc_reset(w), f4se, provider, cfg, patchOk), cfg)

-----------------------------------------------------------------------------
(* Validation of the callback, evidence and gates.  Validation captures,   *)
(* so it changes the providers.                                            *)

(* The strict configuration asks everything, the zeroed one only that the  *)
(* candidate is active.                                                    *)
Validated(w, stats, captured, strict, expected) ==
  LET wanted   == IF expected # NoPlayer THEN expected ELSE w.phlcc.expected
      observed == IF captured.ok THEN captured.state.player
                  ELSE IF stats.has THEN stats.last.player ELSE NoPlayer
  IN  [w |-> [w EXCEPT !.obs = captured.o],
       ok |-> /\ w.phlcc.activated /\ stats.install_ready
              /\ strict => /\ stats.supported /\ stats.callback_registered /\ stats.provider_installed
                           /\ w.obs.adapter.fwd >= 1 /\ w.obs.adapter.acc >= 1
                           /\ stats.has \/ captured.ok
                           /\ wanted \in {NoPlayer, observed}]
clf4_phlcv_validate_current(w, strict, expected) ==
  Validated(w, clf4_phic_stats(w), lpo_capture(w.obs), strict, expected)

(* phase1r_igmv_validate_current as the evidence calls it: the toolchain   *)
(* and the callback count, proxies, scene and driver do not.               *)
Harness(stats, v) ==
  [w |-> v.w, toolchain |-> stats.supported /\ stats.profile = ManifestProfileName, callback |-> v.ok]
phase1r_igmv_validate_current(w) ==
  Harness(clf4_phic_stats(w), clf4_phlcv_validate_current(w, FALSE, NoPlayer))

Evidence(harness) == [w |-> harness.w, ok |-> harness.toolchain /\ harness.callback]
phase1r_rhe_collect(w) == Evidence(phase1r_igmv_validate_current(w))

(* Mutant: the activated flag is trusted without the probe's.              *)
phase1r_rhag_evaluate_flagOnly(w, strict) ==
  LET e == phase1r_rhe_collect(w)
      allowed == ~strict \/ e.w.phlcc.activated
  IN  [e.w EXCEPT !.gate = [evaluated |-> TRUE, allowed |-> allowed, evidence |-> e.ok, strict |-> strict]]

GateVerdict(e, stats, strict) ==
  LET policyArmed == e.w.phlcc.activated /\ stats.install_ready
      allowed == ~strict \/ (e.w.phlcc.activated /\ stats.supported /\ policyArmed)
  IN  [e.w EXCEPT !.gate = [evaluated |-> TRUE, allowed |-> allowed, evidence |-> e.ok, strict |-> strict]]

GateOnEvidence(e, strict) == GateVerdict(e, clf4_phic_stats(e.w), strict)
phase1r_rhag_evaluate(w, strict) == GateOnEvidence(phase1r_rhe_collect(w), strict)

(* The plans above the gate pass a zeroed configuration down to it.        *)
phase1r_rhfp_plan(w) == phase1r_rhag_evaluate(w, FALSE)
ArmedValidation(w)   == w.gate.allowed
phase1r_rhwp_plan(w) == phase1r_rhfp_plan(w)
Judged(planned) == [w |-> planned, ready |-> ArmedValidation(planned)]
phase1r_rhwr_evaluate(w) == Judged(phase1r_rhwp_plan(w))

-----------------------------------------------------------------------------
(* The wiring attempt.                                                     *)

RealCounts(o) == o.adapter.rfwd > 0 \/ o.adapter.racc > 0 \/ o.adapter.rrej > 0

(* What the outside decides in an attempt: whether the bytes at the target *)
(* can be patched, and whether the movement bridge has a message to build. *)
GameAnswers == {[patchOk |-> FALSE, changed |-> FALSE], [patchOk |-> TRUE, changed |-> FALSE], [patchOk |-> TRUE, changed |-> TRUE]}

(* Mutant: the outcome of the validation is ignored.                       *)
Wired_unvalidated(cfg, wired) == wired.activated /\ (cfg.emit => wired.emitted)
Wired(cfg, wired) ==
  /\ wired.activated /\ wired.validated
  /\ cfg.emit => wired.emitted
  /\ cfg.build => wired.built
  /\ cfg.needWire => wired.wireReady

(* phase1r_rlhw_attempt, last step first: each step hands its result to    *)
(* the one after it.                                                       *)
CloseAttempt(w, state, cfg) == [w EXCEPT !.wiring = [state EXCEPT !.wired = Wired(cfg, state)]]
MessageStep(judged, message, emitted, validated, cfg, choice) ==
  CloseAttempt([judged.w EXCEPT !.obs = message.o],
    [attempted |-> TRUE, activated |-> judged.w.phlcc.activated, emitted |-> emitted, validated |-> validated,
     ready |-> judged.ready, built |-> message.ok /\ choice.changed,
     wireReady |-> judged.ready /\ RealCounts(message.o), wired |-> FALSE],
    cfg)
JudgeStep(judged, emitted, validated, cfg, choice) ==
  MessageStep(judged,
    IF judged.w.phlcc.activated /\ validated /\ cfg.build
    THEN lpo_capture(judged.w.obs) ELSE NotCaptured(judged.w.obs),
    emitted, validated, cfg, choice)
ValidateStep(valid, emitted, cfg, choice) ==
  JudgeStep(phase1r_rhwr_evaluate(valid.w), emitted, valid.ok, cfg, choice)
SampleStep(active, sample, cfg, choice) ==
  ValidateStep(clf4_phlcv_validate_current([active EXCEPT !.obs = sample.o], TRUE, cfg.validExpected),
               sample.ok, cfg, choice)
ActivateStep(active, cfg, choice) ==
  SampleStep(active,
    IF active.phlcc.activated /\ cfg.emit
    THEN dispatch_emit(active.obs, cfg.sample, FALSE) ELSE [o |-> active.obs, ok |-> FALSE],
    cfg, choice)
phase1r_rlhw_attempt(w, f4se, provider, cfg, choice) ==
  ActivateStep(clf4_phlcc_activate_with_provider([w EXCEPT !.wiring = WiringZero], f4se, provider,
                                                 cfg, choice.patchOk), cfg, choice)

(* Every read of the wiring state refreshes its readiness, from counters   *)
(* of the shim that no attempt resets too.                                 *)
phase1r_rlhw_state(w) ==
  IF ~w.wiring.attempted THEN w
  ELSE [w EXCEPT !.wiring.wireReady =
          /\ w.wiring.ready
          /\ RealCounts(w.obs) \/ w.patch.markers \/ w.obs.shim.detours > 0 \/ w.obs.shim.bridge > 0]

(* The wiring configuration of the exports: a dry run, never a patch.      *)
ExportSite(site) ==
  [site |-> site, allowed |-> FALSE, policy |-> "dry_run_resolve_only", expected |-> 1, validExpected |-> 1,
   needCorrect |-> TRUE, needUpdate |-> site.need_update, needInput |-> site.need_input, needCallback |-> TRUE,
   needProfile |-> TRUE, emit |-> FALSE, sample |-> [player |-> 1, pos |-> 1], build |-> FALSE, needWire |-> FALSE]
(* Mutant: the exports arm the hook.                                       *)
f4mp_prepare_wire_config_armed(site) ==
  [ExportSite(site) EXCEPT !.allowed = TRUE, !.policy = "armed_install"]
f4mp_prepare_wire_config(site) == ExportSite(site)

(* The default of the wiring itself.                                       *)
rlhw_default_config ==
  [site |-> DefaultSite, allowed |-> TRUE, policy |-> "armed_install", expected |-> NoPlayer,
   validExpected |-> NoPlayer, needCorrect |-> TRUE, needUpdate |-> TRUE, needInput |-> FALSE,
   needCallback |-> TRUE, needProfile |-> TRUE, emit |-> FALSE, sample |-> NoState, build |-> FALSE,
   needWire |-> TRUE]

(* phase1r_rlhdf_run resets the probe and resolves with a dry run; the     *)
(* candidate, the adapter and the activation stay as they are.             *)
phase1r_rlhdf_run(w, f4se, provider, expected) ==
  LET configured == snapshot_probe_config(phrp_reset(w),
                      [expected |-> expected, needUpdate |-> TRUE, needInput |-> TRUE, needCallback |-> FALSE])
  IN  phrp_install(configured, f4se, provider, DefaultSite, TRUE, "dry_run_resolve_only", FALSE)
DryRunReady(w, f4se, provider) ==
  LET r == clf4_phdsp_resolve(DefaultSite, f4se, provider)
  IN  w.obs.probe.supported /\ r.update.ok /\ r.input.ok /\ f4se.runtime = ManifestRuntime

-----------------------------------------------------------------------------
(* Actions.                                                                *)

Init ==
  /\ env \in Envs
  /\ registry = hook_install_registry_reset /\ results = Results(registry, "NONE")
  /\ startup = NoStartupReport /\ obs = ObsZero /\ patch = PatchZero /\ cand = CandZero
  /\ phlcc = PhlccZero /\ wiring = WiringZero /\ gate = GateZero /\ armed = "NONE"
  /\ prearm = FALSE /\ patched = {} /\ direct = FALSE /\ submitted = <<>>
  /\ attempts = 0 /\ events = 0

CountAttempt == attempts < MaxAttempts /\ 2 * attempts + events + 2 <= Budget /\ attempts' = attempts + 1
CountEvent   == 2 * attempts + events + 1 <= Budget /\ events' = events + 1

(* F4SEPlugin_Query.                                                       *)
Query ==
  LET pivot == f4mp_make_manual_pivot_selection(env)
  IN  /\ CountAttempt
      /\ startup' = NoStartupReport
      /\ IF env.editor THEN Commit(World) /\ prearm' = prearm
         ELSE /\ \E choice \in GameAnswers :
                   Commit(phase1r_rlhw_attempt(World, F4se, pivot.provider, f4mp_prepare_wire_config(pivot.site), choice))
              /\ prearm' = TRUE
      /\ UNCHANGED <<env, results, armed, direct, submitted, events>>

(* F4SEPlugin_Load: the bring-up, a second wiring attempt unless the one   *)
(* of the query is still ready, the strict gate and a read of the state.   *)
Load ==
  LET loaded == clf4_plugin_load_for_mode(registry, results, F4se, "VANILLA_MIRROR")
      start  == [World EXCEPT !.registry = loaded.registry]
      pivot  == f4mp_make_manual_pivot_selection(env)
      kept   == prearm /\ wiring.attempted /\ clf4_phic_stats(start).install_ready
  IN  /\ CountAttempt
      /\ startup' = loaded.startup /\ results' = loaded.results
      /\ \E choice \in GameAnswers :
           LET wiredUp == IF kept THEN phase1r_rlhw_state(start)
                          ELSE phase1r_rlhw_state(phase1r_rlhw_attempt(start, F4se, pivot.provider,
                                                   f4mp_prepare_wire_config(pivot.site), choice))
           IN  Commit(phase1r_rlhw_state(phase1r_rhag_evaluate(wiredUp, TRUE)))
      /\ prearm' = TRUE
      /\ UNCHANGED <<env, armed, direct, submitted, events>>

(* A caller inside the plugin wires with a configuration of its own.       *)
Attempt(provider, cfg, choice) ==
  /\ CountAttempt /\ direct' = TRUE
  /\ Commit(phase1r_rlhw_attempt(World, F4se, provider, cfg, choice))
  /\ UNCHANGED <<env, results, startup, armed, prearm, submitted, events>>

DryRun(provider) ==
  /\ CountEvent
  /\ Commit(phase1r_rlhdf_run(World, F4se, provider, 1))
  /\ UNCHANGED <<env, results, startup, armed, prearm, direct, submitted, attempts>>

(* phase1r_rlhaf_attempt: the dry run, then the wiring attempt whatever    *)
(* the dry run said; logs is what the F4SE logs show.                      *)
ArmedAction(dryReady, wired, logs) ==
  IF ~(dryReady /\ wired /\ logs.healthy) THEN "HOLD_SCAFFOLD"
  ELSE IF logs.seen THEN "ATTEMPT_ARMED_HOOK_NOW" ELSE "BUILD_PLUGIN_DLL_DROP"
phase1r_rlhaf_attempt(provider, cfg, choice, logs) ==
  LET dry   == phase1r_rlhdf_run(World, F4se, provider, 1)
      wired == phase1r_rlhw_state(phase1r_rlhw_attempt(dry, F4se, provider, cfg, choice))
  IN  /\ CountAttempt /\ direct' = TRUE
      /\ Commit(wired)
      /\ armed' = ArmedAction(DryRunReady(dry, F4se, provider), wiring'.wired, logs)
      /\ UNCHANGED <<env, results, startup, prearm, submitted, events>>
Logs == {[healthy |-> FALSE, seen |-> FALSE], [healthy |-> TRUE, seen |-> FALSE], [healthy |-> TRUE, seen |-> TRUE]}

(* The gate, by anyone who asks it with its default configuration.         *)
EvaluateGate ==
  /\ CountEvent
  /\ Commit(phase1r_rhag_evaluate(World, TRUE))
  /\ UNCHANGED <<env, results, startup, armed, prearm, direct, submitted, attempts>>

(* Uninstall and reset of the candidate.                                   *)
Uninstall ==
  /\ CountEvent
  /\ \/ Commit(clf4_phic_uninstall(World))
     \/ Commit(clf4_phlcc_reset(World))
     \/ Commit(clf4_phic_reset(World))
  /\ UNCHANGED <<env, results, startup, armed, prearm, direct, submitted, attempts>>

(* Bring-up with a plan: the install simulation of the hook adapter.       *)
clf4_hook_adapter_init_mode_with_plan(mode, plan) ==
  /\ CountAttempt
  /\ registry' = hook_attempt_executor_apply_mode_plan(mode, plan)
  /\ results' = Results(registry', mode)
  /\ UNCHANGED <<env, startup, obs, patch, cand, phlcc, wiring, gate, armed, prearm, hidden, events>>

(* Samples and captures.                                                   *)
Observe(o) ==
  /\ CountEvent
  /\ obs' = o
  /\ UNCHANGED <<env, registry, results, startup, patch, cand, phlcc, wiring, gate, armed, prearm,
                 patched, direct, attempts>>

RealCallback(e) == Observe(phs_ingest_real_player_snapshot(obs, e)) /\ UNCHANGED submitted
NullCallback    == Observe(phs_ingest_null(obs)) /\ UNCHANGED submitted
(* A synthetic emission ends with a live tick, which captures when the     *)
(* client is connected.                                                    *)
EmitSynthetic(e) ==
  /\ \E ticks \in BOOLEAN :
       LET d == dispatch_emit(obs, e, FALSE)
       IN  Observe(IF ticks THEN lpo_capture(d.o).o ELSE d.o)
  /\ UNCHANGED submitted
Capture == Observe(lpo_capture(obs).o) /\ UNCHANGED submitted

clf4_phob_install(id) == Observe(lpo_live_provider_install(obs, id)) /\ submitted' = <<>>
clf4_phob_uninstall   == Observe(lpo_live_provider_uninstall(obs)) /\ submitted' = <<>>
clf4_phob_submit(e) ==
  LET s == lpo_live_provider_submit(obs, e)
  IN  Observe(s.o) /\ submitted' = IF s.ok THEN Append(submitted, s.state) ELSE submitted

SetObserver == Observe(lpo_init(obs, 1)) /\ UNCHANGED submitted
SetSynthetic(s) == Observe(lpo_set_synthetic_state(obs, s)) /\ UNCHANGED submitted

(* The patched code runs through a gateway that counts or one that does    *)
(* not; a reset of the patch state does not take the gateway away.         *)
GameRunsTarget ==
  /\ CountEvent /\ patched # {}
  /\ \E counts \in BOOLEAN : patch' = [patch EXCEPT !.markers = @ \/ counts]
  /\ UNCHANGED <<env, registry, results, startup, obs, cand, phlcc, wiring, gate, armed, prearm, hidden, attempts>>
NoteEntry == Observe(phs_note_manual_detour_entry(obs)) /\ UNCHANGED submitted

PollWiring ==
  /\ CountEvent
  /\ Commit(phase1r_rlhw_state(World))
  /\ UNCHANGED <<env, results, startup, armed, prearm, direct, submitted, attempts>>

Next ==
  \/ Query \/ Load
  \/ \E provider \in Providers, cfg \in Configs, choice \in GameAnswers : Attempt(provider, cfg, choice)
  \/ \E provider \in Providers, cfg \in Configs, choice \in GameAnswers, logs \in Logs :
       phase1r_rlhaf_attempt(provider, cfg, choice, logs)
  \/ \E provider \in Providers : DryRun(provider)
  \/ EvaluateGate \/ Uninstall \/ PollWiring \/ GameRunsTarget \/ NoteEntry
  \/ \E mode \in Modes, plan \in Plans : clf4_hook_adapter_init_mode_with_plan(mode, plan)
  \/ \E e \in Events : RealCallback(e) \/ EmitSynthetic(e) \/ clf4_phob_submit(e) \/ SetSynthetic(e)
  \/ NullCallback \/ Capture \/ SetObserver \/ clf4_phob_uninstall
  \/ \E id \in 1..2 : clf4_phob_install(id)

Spec == Init /\ [][Next]_vars

-----------------------------------------------------------------------------
(* Properties.                                                             *)

(* While the adapter sits on a ready probe, what it accepted and refused   *)
(* is what the probe counted: dry runs, validations and other users of the *)
(* shared normaliser never make the two disagree.                          *)
AcceptedIsCounted ==
  obs.adapter.installed /\ obs.probe.ready =>
    /\ obs.adapter.acc = obs.probe.callbacks - obs.probe.mismatched
    /\ obs.adapter.rej = obs.probe.rejected + obs.probe.mismatched

(* The ring holds the most recent samples, a capture takes the newest of   *)
(* them, and the rest are counted as dropped.                              *)
RingHoldsLatest ==
  LET live == obs.live
      kept == IF Len(submitted) > QueueMax THEN QueueMax ELSE Len(submitted)
  IN  live.installed =>
        /\ live.count = kept /\ live.submits = Len(submitted) /\ live.dropped = Len(submitted) - kept
        /\ \A i \in 0..kept-1 :
             live.queue[(live.head + i) % QueueMax] = submitted[Len(submitted) - kept + 1 + i]
        /\ live.count > 0 => live.last = live_queue_peek_latest(live)

(* An attempt that reports the hook as wired has patched the game, has its *)
(* callback registered and has seen a sample of the player it expects.     *)
WiredIsPatched ==
  [][wiring' # wiring /\ wiring'.wired /\ ~wiring.wired =>
       /\ patched' # {} /\ patch'.write /\ obs'.stub.registered /\ obs'.adapter.acc > 0
       /\ obs'.probe.last.player = phlcc'.expected \/ phlcc'.expected = NoPlayer]_vars

(* The strict gate allows only what is installed at that moment, not what  *)
(* was before a dry run, a reset or an uninstall.                          *)
AllowedIsCurrent ==
  [][gate' # gate /\ gate'.strict /\ gate'.allowed =>
       patched' # {} /\ obs'.probe.ready /\ cand'.ready /\ obs'.probe.supported]_vars

(* As shipped, with only the exports calling, nothing reaches the patch    *)
(* step and no callback is registered, whatever the environment says.      *)
ShippedNeverPatches ==
  ~direct => ~patch.attempted /\ patched = {} /\ ~obs.stub.registered

(* A callback is registered exactly while its adapter and its provider     *)
(* are installed, and never by an install that failed.                     *)
FailedInstallLeavesNoCallback ==
  /\ obs.stub.registered <=> obs.adapter.installed
  /\ obs.adapter.installed <=> obs.lppp.installed
  /\ obs.adapter.installed => cand.path /\ patched # {}

(* The self-check says ready exactly when every family of the mode is      *)
(* installed, and unavailable when the player's or the workshop's is not.  *)
SelfcheckIsExact ==
  \A mode \in {"BASIC_SYNC", "VANILLA_MIRROR"} :
    LET enabled == hook_bringup_config_for_mode(mode)
        check   == plugin_startup_selfcheck(registry, mode)
    IN  /\ check.readiness = "READY" <=> \A f \in enabled : registry[f].state = "INSTALLED"
        /\ (\E f \in {"PLAYER", "WORKSHOP"} : registry[f].state # "INSTALLED") => check.readiness = "UNAVAILABLE"

=============================================================================
