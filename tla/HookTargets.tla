----------------------------- MODULE HookTargets -----------------------------
(***************************************************************************)
(* Where the player hook would go: address providers, hook sites, runtime  *)
(* profiles, the discovery that picks a candidate, the attempt that ends   *)
(* in the patch step, and the pivot the plugin's exports derive from the   *)
(* environment and the trusted address file.  Everything here is a         *)
(* function of its arguments; the state is in the modules that extend it.  *)
(*                                                                         *)
(* Runtime versions are numbered in their order.  Address 0 is none, 1     *)
(* stands for the stub range below 0x100000, larger ones are code or data. *)
(***************************************************************************)
EXTENDS Naturals, Sequences

CONSTANTS Executable,   \* the addresses VirtualQuery reports as committed code
          RuntimeBase   \* GetModuleHandleW(nullptr)

ASSUME ExecutableAssumption == Executable \subseteq Nat /\ {0, 1} \cap Executable = {}
ASSUME BaseAssumption == RuntimeBase \in Nat /\ RuntimeBase > 1

OldRuntime == 0         \* anything older than the next two
Legacy984  == 1         \* 0x010A03D8
Runtime984 == 2         \* 0x010A3D80
Legacy191  == 3         \* 0x010B00BF
Runtime191 == 4         \* 0x010B0BF0
NoRuntime  == Runtime191 + 1    \* a trusted file without a runtime_version line

NoAddr   == 0
StubAddr == 1
ControlsRva == 7        \* 0x00DDC780, the built-in fallback of the controls pivot

Keys == {"PLAYER_UPDATE", "PLAYER_INPUT", "ACTOR_UPDATE", "ACTOR_DAMAGE", "WORKSHOP_PLACE",
         "WORKSHOP_SCRAP", "DIALOGUE_OBSERVER", "QUEST_OBSERVER"}

-----------------------------------------------------------------------------
(* Address providers: what a provider says of each key.                    *)

Unresolved == [ok |-> FALSE, addr |-> NoAddr, source |-> "UNRESOLVED"]
make_fixed(available) ==
  [k \in Keys |-> IF k \in available THEN [ok |-> TRUE, addr |-> StubAddr, source |-> "STUB"] ELSE Unresolved]
make_exact(entries) ==
  [k \in Keys |-> IF k \in DOMAIN entries
                  THEN [ok |-> TRUE, addr |-> entries[k].addr, source |-> entries[k].source]
                  ELSE Unresolved]
is_executable_address(addr) == addr \in Executable

-----------------------------------------------------------------------------
(* Hook sites and runtime profiles.                                        *)

Site(name, symbol, key, min, update) ==
  [name |-> name, symbol |-> symbol, update_key |-> key, minimum |-> min,
   need_update |-> update, need_input |-> ~update]

DefaultSite     == Site("before_input", "PlayerCharacter::Update", "PLAYER_UPDATE", Legacy191, TRUE)
BeforeInputSite == Site("before_input", "PlayerCharacter::Update", "PLAYER_UPDATE", Runtime191, TRUE)
AfterInputSite  == Site("after_input", "PlayerCharacter::Update", "PLAYER_UPDATE", Runtime191, TRUE)
ActorSite       == Site("actor_filtered", "Actor::Update", "ACTOR_UPDATE", Runtime191, TRUE)
ControlsSite    == Site("controls", "CreatePlayerControlHandlers", "PLAYER_UPDATE", Runtime191, FALSE)
Sites == {DefaultSite, BeforeInputSite, AfterInputSite, ActorSite, ControlsSite}

(* Each canonical runtime also matches its legacy encoding.                *)
runtime_matches(observed, canonical) ==
  \/ observed = canonical
  \/ canonical = Runtime984 /\ observed = Legacy984
  \/ canonical = Runtime191 /\ observed = Legacy191

ProfileName == [p \in {"before_input", "after_input", "controls"} |->
  [r \in {Runtime984, Runtime191} |->
    CASE p = "before_input" /\ r = Runtime984 -> "fo4_1_10_984_playercharacter_update_before_input"
      [] p = "before_input" /\ r = Runtime191 -> "fo4_1_11_191_playercharacter_update_before_input"
      [] p = "after_input"  /\ r = Runtime984 -> "fo4_1_10_984_playercharacter_update_after_input"
      [] p = "after_input"  /\ r = Runtime191 -> "fo4_1_11_191_playercharacter_update_after_input"
      [] p = "controls"     /\ r = Runtime984 -> "fo4_1_10_984_movement_playercontrols_input_path"
      [] p = "controls"     /\ r = Runtime191 -> "fo4_1_11_191_movement_playercontrols_input_path"]]

(* Sites without a profile of their own get the one of before_input, and   *)
(* runtimes that match neither version the one of 1.11.191.                *)
select_profile(site, runtime) ==
  LET path     == IF site.name \in DOMAIN ProfileName THEN site.name ELSE "before_input"
      required == IF runtime_matches(runtime, Runtime984) THEN Runtime984 ELSE Runtime191
  IN  [name |-> ProfileName[path][required], required |-> required]

clf4_phrprof_resolve(site, f4se) ==
  LET profile == select_profile(site, f4se.runtime)
  IN  [name |-> profile.name,
       runtime_supported |-> ~f4se.editor,
       build |-> ~f4se.editor /\ runtime_matches(f4se.runtime, profile.required)]

(* The manifest's name of the profile is not the one the profile has.      *)
ManifestProfileName == "fo4_1_11_191_player_character_update_before_input"
ManifestRuntime     == Runtime191

clf4_phdsp_resolve(site, f4se, provider) ==
  LET at(k, needed) == IF needed THEN provider[k] ELSE [ok |-> TRUE, addr |-> NoAddr, source |-> "UNRESOLVED"]
  IN  [runtime_supported |-> ~f4se.editor /\ f4se.runtime >= site.minimum,
       update |-> at(site.update_key, site.need_update),
       input  |-> at("PLAYER_INPUT", site.need_input)]

-----------------------------------------------------------------------------
(* Discovery.                                                              *)

slice_runtime_is_ae(f4se) == ~f4se.editor /\ f4se.runtime \in {Runtime191, Legacy191}

map_provider_source(source) == IF source = "UNKNOWN" THEN "UNRESOLVED" ELSE source

fill_resolution(provider, key) ==
  [resolved |-> provider[key].ok, source |-> map_provider_source(provider[key].source),
   executable |-> is_executable_address(provider[key].addr)]

(* The verdict on the address of one key, reasons in the code's order.     *)
finalize_assessment(f4se, provider, key) ==
  LET profile == clf4_phrprof_resolve(DefaultSite, f4se)
      found   == fill_resolution(provider, key)
  IN  IF ~profile.runtime_supported THEN "UNSUPPORTED_RUNTIME"
      ELSE IF ~profile.build THEN "UNSUPPORTED_BUILD"
      ELSE IF ~found.resolved THEN "UNRESOLVED_REQUIRED_ADDRESS"
      ELSE IF found.source = "STUB" THEN "STUB_ADDRESS_SOURCE"
      ELSE IF ~found.executable THEN "NON_EXECUTABLE_TARGET"
      ELSE "ARMABLE"

(* The four candidates and what they score when they can be armed: the two *)
(* update families; the other two are always of weak confidence.           *)
Score == [UPDATE_BEFORE_INPUT |-> 100, UPDATE_AFTER_INPUT |-> 80, ACTOR_UPDATE |-> 60, PLAYER_CONTROLS |-> 10]
Assessments(f4se, provider) ==
  [UPDATE_BEFORE_INPUT  |-> finalize_assessment(f4se, provider, "PLAYER_UPDATE"),
   UPDATE_AFTER_INPUT   |-> "WEAK_CONFIDENCE",
   ACTOR_UPDATE         |-> finalize_assessment(f4se, provider, "ACTOR_UPDATE"),
   PLAYER_CONTROLS      |-> "WEAK_CONFIDENCE"]

NoCandidate == "INVALID"

phd_run_player_discovery(f4se, provider) ==
  LET verdict == Assessments(f4se, provider)
      armable == {c \in DOMAIN verdict : verdict[c] = "ARMABLE"}
      chosen  == IF armable = {} THEN NoCandidate
                 ELSE CHOOSE c \in armable : \A d \in armable : Score[d] <= Score[c]
  IN  IF ~slice_runtime_is_ae(f4se)
      THEN [selected |-> NoCandidate, action |-> "UNSUPPORTED_RUNTIME"]
      ELSE [selected |-> chosen,
            action |-> IF chosen # NoCandidate THEN "INSTALL_LIVE"
                       ELSE IF \E c \in DOMAIN verdict : verdict[c] = "STUB_ADDRESS_SOURCE"
                       THEN "REJECT_STUB_PROVIDER" ELSE "TRY_NEXT_CANDIDATE"]

-----------------------------------------------------------------------------
(* The attempt on one site.                                                *)

clf4_phpp_is_armed(policy) == policy = "armed_install"
clf4_phpp_patch_step_allowed(policy, allowed) == clf4_phpp_is_armed(policy) /\ allowed

resolution_is_stub(r) ==
  LET highest == IF r.update.addr > r.input.addr THEN r.update.addr ELSE r.input.addr
  IN  highest = StubAddr

detour_destination_label(symbol) ==
  IF symbol = "CreatePlayerControlHandlers"
  THEN "phs_create_player_controls_manual_detour_thunk" ELSE "phs_note_manual_detour_entry"

patch_target_addr(site, r) == IF site.need_update THEN r.update.addr ELSE r.input.addr

Outcome(state, error) == [state |-> state, error |-> error, target |-> NoAddr]

(* install_with_resolution up to the patch step.  The state "PATCH" stands *)
(* for the call of clf4_phpr_attempt on the target; everything else is     *)
(* returned before it.                                                     *)
install_with_resolution(f4se, provider, site, allowed, policy) ==
  LET profile == clf4_phrprof_resolve(site, f4se)
      r       == clf4_phdsp_resolve(site, f4se, provider)
  IN  IF ~profile.build \/ ~r.runtime_supported THEN Outcome("FAILED", "UNSUPPORTED_RUNTIME")
      ELSE IF ~r.update.ok \/ ~r.input.ok THEN Outcome("PARTIAL", "ADDRESS_MISSING")
      ELSE IF resolution_is_stub(r) THEN Outcome("FAILED", "ADDRESS_MISSING")
      ELSE IF ~clf4_phpp_is_armed(policy) THEN Outcome("PARTIAL", "NONE")
      ELSE IF ~clf4_phpp_patch_step_allowed(policy, allowed) THEN Outcome("FAILED", "PATCH_REJECTED")
      ELSE [state |-> "PATCH", error |-> "NONE", target |-> patch_target_addr(site, r)]

(* What clf4_phpr_attempt (module HookPatch) can answer: it refuses a      *)
(* target of 0 and every detour but the thunk, and may fail otherwise.     *)
PatchCanSucceed(site, target) ==
  /\ target # NoAddr
  /\ detour_destination_label(site.symbol) = "phs_create_player_controls_manual_detour_thunk"

-----------------------------------------------------------------------------
(* The pivot of the exports.                                               *)

PivotKinds == {"controls", "before_input", "after_input", "actor_filtered"}

(* F4MP_MANUAL_CANDIDATE: before_input when unset, controls for a name     *)
(* nobody knows.                                                           *)
f4mp_read_manual_pivot_kind(name) ==
  IF name = "unset" THEN "before_input" ELSE IF name \in PivotKinds THEN name ELSE "controls"

(* An absolute address wins over one relative to the module; 0 is unset.   *)
f4mp_resolve_env_address(setting) ==
  IF setting.addr # 0 THEN setting.addr ELSE IF setting.rva # 0 THEN RuntimeBase + setting.rva ELSE NoAddr

(* The trusted address file is a sequence of key=value lines, the last one *)
(* of a key wins; comments and lines without '=' are skipped.              *)
f4mp_parse_key_value(line) == line.key \notin {"comment", "text"}
LastValue(file, key, default) ==
  LET lines == {n \in 1..Len(file) : f4mp_parse_key_value(file[n]) /\ file[n].key = key}
  IN  IF lines = {} THEN default ELSE file[CHOOSE n \in lines : \A m \in lines : m <= n].value

f4mp_load_trusted_profile(kind, runtime, file) ==
  LET runtimeLine == LastValue(file, "runtime_version", NoRuntime)
      pivotLine   == LastValue(file, "pivot", "")
      at(addr, rva) == f4mp_resolve_env_address([addr |-> LastValue(file, addr, 0), rva |-> LastValue(file, rva, 0)])
      addrs == [update |-> at("update_addr", "update_rva"), input |-> at("input_addr", "input_rva"),
                actor |-> at("actor_addr", "actor_rva")]
  IN  [addrs |-> addrs,
       accepted |-> /\ runtimeLine = runtime
                    /\ pivotLine \in {"", kind}
                    /\ \E a \in DOMAIN addrs : addrs[a] # NoAddr]

(* f4mp_make_manual_pivot_selection: on any runtime but 1.11.191 no entry  *)
(* is filled in and the site is the controls one.                          *)
f4mp_make_manual_pivot_selection(env) ==
  LET kind    == f4mp_read_manual_pivot_kind(env.pivot)
      trusted == f4mp_load_trusted_profile(kind, env.runtime, env.file)
      manual(name) == f4mp_resolve_env_address(env.manual[name])
      entry(name) ==
        IF manual(name) # NoAddr THEN [addr |-> manual(name), source |-> "MANUAL_OFFSET"]
        ELSE IF trusted.accepted /\ trusted.addrs[name] # NoAddr
        THEN [addr |-> trusted.addrs[name], source |-> "TRUSTED_PROFILE"]
        ELSE IF kind = "controls" THEN [addr |-> RuntimeBase + ControlsRva, source |-> "MANUAL_OFFSET"]
        ELSE [addr |-> NoAddr, source |-> "UNRESOLVED"]
      wanted == CASE kind = "before_input"   -> [PLAYER_UPDATE |-> "update", PLAYER_INPUT |-> "input"]
                  [] kind = "after_input"    -> [PLAYER_UPDATE |-> "update"]
                  [] kind = "actor_filtered" -> [ACTOR_UPDATE |-> "actor"]
                  [] OTHER                   -> [PLAYER_INPUT |-> "input"]
      filled == {k \in DOMAIN wanted : entry(wanted[k]).addr # NoAddr}
      site   == CASE kind = "before_input"   -> BeforeInputSite
                  [] kind = "after_input"    -> AfterInputSite
                  [] kind = "actor_filtered" -> ActorSite
                  [] OTHER                   -> ControlsSite
  IN  IF env.runtime = Runtime191
      THEN [site |-> site, provider |-> make_exact([k \in filled |-> entry(wanted[k])])]
      ELSE [site |-> ControlsSite, provider |-> make_exact(<<>>)]
=============================================================================
