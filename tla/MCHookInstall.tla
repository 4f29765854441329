---------------------------- MODULE MCHookInstall ----------------------------
(* Instances of HookInstall.  Code is at 10 and above, the module's base   *)
(* is 5.                                                                   *)
EXTENDS HookInstall, TLC

MCExecutable == 10..20

Unset  == [addr |-> 0, rva |-> 0]
At(a)  == [addr |-> a, rva |-> 0]
Rva(r) == [addr |-> 0, rva |-> r]
Manual(u, i, a) == [update |-> u, input |-> i, actor |-> a]
Env(runtime, editor, pivot, manual, file) ==
  [runtime |-> runtime, editor |-> editor, pivot |-> pivot, manual |-> manual, file |-> file]
Line(key, value) == [key |-> key, value |-> value]

MCEnvs ==
  {Env(Runtime191, FALSE, "unset", Manual(Rva(6), At(12), Unset), <<>>),
   Env(Runtime191, FALSE, "actor_filtered", Manual(Unset, Unset, Unset),
       <<Line("comment", 0), Line("runtime_version", Runtime191), Line("pivot", "actor_filtered"), Line("actor_rva", 9)>>),
   Env(Runtime984, FALSE, "nonsense", Manual(At(11), Unset, Unset), <<>>),
   Env(Runtime191, TRUE, "after_input", Manual(At(11), Unset, Unset), <<>>)}

(* Another player, nobody, and the local player with an invalid position.  *)
MCEvents == {[player |-> 2, pos |-> 1], [player |-> 0, pos |-> 2], [player |-> 1, pos |-> 0]}

(* An executable update with an input, and an executable actor update      *)
(* whose input is a stub.                                                  *)
MCProviders ==
  {make_exact([PLAYER_UPDATE |-> [addr |-> 10, source |-> "MANUAL_OFFSET"],
               PLAYER_INPUT  |-> [addr |-> 12, source |-> "MANUAL_OFFSET"]]),
   make_exact([ACTOR_UPDATE  |-> [addr |-> 11, source |-> "TRUSTED_PROFILE"],
               PLAYER_INPUT  |-> [addr |-> StubAddr, source |-> "STUB"]])}

Armed(expected, emit) ==
  [rlhw_default_config EXCEPT !.site = ControlsSite, !.expected = expected, !.validExpected = expected,
     !.needUpdate = FALSE, !.needInput = TRUE, !.emit = emit, !.sample = [player |-> 0, pos |-> 1],
     !.build = emit, !.needWire = FALSE]
MCConfigs ==
  {rlhw_default_config, Armed(1, TRUE), [Armed(1, FALSE) EXCEPT !.needCorrect = FALSE, !.needWire = TRUE]}

MCPlans ==
  {hook_install_plan_success_for_mode("VANILLA_MIRROR"),
   [hook_install_plan_success_for_mode("VANILLA_MIRROR") EXCEPT !["WORKSHOP"] = Rec("PARTIAL", "ADDRESS_MISSING")],
   [hook_install_plan_success_for_mode("VANILLA_MIRROR") EXCEPT !["ACTOR"] = Rec("FAILED", "PATCH_REJECTED")]}
=============================================================================
