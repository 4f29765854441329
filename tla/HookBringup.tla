----------------------------- MODULE HookBringup -----------------------------
(***************************************************************************)
(* Bring-up of the four hook families at plugin load: the install registry, *)
(* the attempts per mode, the readiness and blocking policies and the      *)
(* startup self-check.  A registry is an argument and a result here; the   *)
(* variable that holds it is in module HookInstall.                        *)
(***************************************************************************)
EXTENDS HookTargets, FiniteSets

Families == {"PLAYER", "ACTOR", "WORKSHOP", "DIALOGUE_QUEST"}
Modes    == {"NONE", "BASIC_SYNC", "VANILLA_MIRROR"}

Rec(state, error) == [state |-> state, error |-> error]
NotAttempted == Rec("NOT_ATTEMPTED", "NONE")

hook_bringup_config_for_mode(mode) ==
  CASE mode = "BASIC_SYNC"     -> {"PLAYER", "WORKSHOP"}
    [] mode = "VANILLA_MIRROR" -> Families
    [] OTHER                   -> {}

-----------------------------------------------------------------------------
(* The registry.                                                           *)

hook_install_registry_reset == [f \in Families |-> NotAttempted]
hook_install_registry_mark_state(reg, family, state, error) == [reg EXCEPT ![family] = Rec(state, error)]

-----------------------------------------------------------------------------
(* Readiness and blocking.                                                 *)

classify_readiness(reg, used) ==
  IF \A f \in used : reg[f].state = "INSTALLED" THEN "READY"
  ELSE IF \E f \in used : reg[f].state # "NOT_ATTEMPTED" THEN "PARTIAL"
  ELSE "UNAVAILABLE"

hook_bringup_readiness(reg, mode) ==
  IF mode = "NONE" THEN "UNAVAILABLE" ELSE classify_readiness(reg, hook_bringup_config_for_mode(mode))

(* Mutant: only the player blocks.                                         *)
startup_blocking_for_family_playerOnly(mode, family, state) ==
  IF family \notin hook_bringup_config_for_mode(mode) \/ state = "INSTALLED" THEN "NONE"
  ELSE IF state = "NOT_ATTEMPTED" \/ family = "PLAYER" THEN "FATAL" ELSE "DEGRADABLE"

startup_blocking_for_family(mode, family, state) ==
  IF family \notin hook_bringup_config_for_mode(mode) \/ state = "INSTALLED" THEN "NONE"
  ELSE IF state = "NOT_ATTEMPTED" \/ family \in {"PLAYER", "WORKSHOP"} THEN "FATAL"
  ELSE "DEGRADABLE"

startup_blocking_summary_for_mode(reg, mode) ==
  LET blocked(kind) == {f \in Families : startup_blocking_for_family(mode, f, reg[f].state) = kind}
      base == hook_bringup_readiness(reg, mode)
  IN  [fatal |-> Cardinality(blocked("FATAL")), degradable |-> Cardinality(blocked("DEGRADABLE")),
       adjusted |-> IF blocked("FATAL") # {} THEN "UNAVAILABLE"
                    ELSE IF blocked("DEGRADABLE") # {} /\ base = "READY" THEN "PARTIAL" ELSE base]

plugin_startup_selfcheck(reg, mode) ==
  LET blocking == startup_blocking_summary_for_mode(reg, mode)
  IN  [has |-> TRUE, mode |-> mode, readiness |-> blocking.adjusted,
       fatal |-> blocking.fatal, degradable |-> blocking.degradable]

NoStartupReport == [has |-> FALSE, mode |-> "NONE", readiness |-> "UNAVAILABLE", fatal |-> 0, degradable |-> 0]

-----------------------------------------------------------------------------
(* The attempts.                                                           *)

AllKeys == make_fixed(Keys)

FloorAttempt(f4se, addresses) ==
  IF f4se.editor \/ f4se.runtime < Legacy984 THEN Rec("FAILED", "UNSUPPORTED_RUNTIME")
  ELSE IF \E k \in addresses : ~AllKeys[k].ok THEN Rec("PARTIAL", "ADDRESS_MISSING")
  ELSE Rec("INSTALLED", "NONE")

attempt_install_actor_hook(f4se)          == FloorAttempt(f4se, {"ACTOR_UPDATE", "ACTOR_DAMAGE"})
attempt_install_workshop_hook(f4se)       == FloorAttempt(f4se, {"WORKSHOP_PLACE", "WORKSHOP_SCRAP"})
attempt_install_dialogue_quest_hook(f4se) == FloorAttempt(f4se, {"DIALOGUE_OBSERVER", "QUEST_OBSERVER"})

(* Every attempt gets the provider whose addresses are all stubs.          *)
runtime_attempt_for_family(f4se, family) ==
  CASE family = "PLAYER" ->
         LET r == install_with_resolution(f4se, AllKeys, DefaultSite, TRUE, "armed_install")
         IN  Rec(r.state, r.error)
    [] family = "ACTOR" -> attempt_install_actor_hook(f4se)
    [] family = "WORKSHOP" -> attempt_install_workshop_hook(f4se)
    [] OTHER -> attempt_install_dialogue_quest_hook(f4se)

(* Both executors rewrite the whole registry: families that the mode does  *)
(* not enable are back to not attempted.                                   *)
hook_attempt_executor_apply_mode_plan(mode, plan) ==
  [f \in Families |-> IF f \in hook_bringup_config_for_mode(mode) THEN plan[f] ELSE NotAttempted]
hook_attempt_executor_apply_mode_runtime_stub(f4se, mode) ==
  [f \in Families |-> IF f \in hook_bringup_config_for_mode(mode)
                      THEN runtime_attempt_for_family(f4se, f) ELSE NotAttempted]

hook_install_plan_success_for_mode(mode) ==
  [f \in Families |-> IF f \in hook_bringup_config_for_mode(mode) THEN Rec("INSTALLED", "NONE") ELSE NotAttempted]

(* The report of the last bring-up, one result per family.                 *)
Results(reg, mode) ==
  [f \in Families |-> [state |-> reg[f].state, attempted |-> f \in hook_bringup_config_for_mode(mode),
                       blocking |-> startup_blocking_for_family(mode, f, reg[f].state)]]

-----------------------------------------------------------------------------
(* The entry point.  The adapter's own runtime is the floor version,       *)
(* whatever the game's is.                                                 *)

AdapterRuntime == [runtime |-> Legacy984, editor |-> FALSE]

clf4_plugin_query(f4se) == ~f4se.editor /\ f4se.runtime >= Legacy984

(* The registry and the report the load leaves, given those before it; the *)
(* exports call it right after clf4_plugin_query.                          *)
clf4_plugin_load_for_mode(reg, report, f4se, mode) ==
  LET after == hook_attempt_executor_apply_mode_runtime_stub(AdapterRuntime, mode)
  IN  IF ~clf4_plugin_query(f4se)
      THEN [registry |-> reg, results |-> report, startup |-> NoStartupReport]
      ELSE [registry |-> after, results |-> Results(after, mode),
            startup |-> plugin_startup_selfcheck(after, mode)]
=============================================================================
