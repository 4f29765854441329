------------------------------ MODULE HookPatch ------------------------------
(***************************************************************************)
(* The inline patch of the player hook                                     *)
(* (commonlibf4_player_hook_patch_realization.c): the x64 length decoder,  *)
(* the planner that looks for an instruction boundary at or past 12 bytes, *)
(* the trampoline and the gateway it allocates, and the jump it writes     *)
(* over the target.                                                        *)
(*                                                                         *)
(* Memory is a sequence of cells.  A cell is one byte of one instruction:  *)
(* the byte is what the decoder reads, the instruction it belongs to is    *)
(* what the processor executes.  The decoder never sees the second, so a   *)
(* boundary it gets wrong shows as a torn instruction when the code runs.  *)
(* The function is followed straight on: of its own jumps none is taken,   *)
(* and none comes back to the bytes that are moved.                        *)
(***************************************************************************)
EXTENDS Integers, Sequences, FiniteSets, SequencesExt

CONSTANTS Prologues,    \* the code a target may start with: sequences of instructions
          MaxTries,     \* bound: calls of clf4_phpr_attempt
          MaxHits       \* bound: calls of the patched function between two resets

VARIABLES program,      \* the prologue the target was compiled to
          target,       \* the cells at plan->target_addr
          heap,         \* VirtualAlloc'ed blocks: id -> cells
          realized,     \* g_state of the patch realization
          trampoline,   \* the pointer kept by phs_set_manual_create_player_controls_trampoline
          markerCount,  \* g_marker_gateway_count
          hits,         \* ghost: runs of the target since the last clf4_phpr_reset
          tries         \* ghost: calls of clf4_phpr_attempt

patchVars == <<program, target, heap, realized, trampoline, markerCount, hits, tries>>

(* VERIFY_CAPTURE_BYTES, VERIFY_MIN_JUMP_BYTES and the length of lengths[]. *)
CaptureBytes  == 16
MinJumpBytes  == 12
PlanSlots     == 8
NoBlock       == 0
MaxBlocks     == 2 * MaxTries

(* An instruction: its bytes, whether it is relative to its own address,   *)
(* what executing it does, the argument of that, and what the function's   *)
(* own code does to rax with it: it reads some of it, replaces all of it.  *)
Uses == SUBSET {"reads", "writes"}
Instruction(enc, pcrel, uses) ==
  [enc |-> enc, pcrel |-> pcrel, op |-> "original", arg |-> <<>>, uses |-> uses]
Cells(ins) == [k \in 1..Len(ins.enc) |-> [ins |-> ins, off |-> k]]
Assemble(code) == FlattenSeq([k \in 1..Len(code) |-> Cells(code[k])])
Bytes(cells) == [k \in 1..Len(cells) |-> cells[k].ins.enc[cells[k].off]]

-----------------------------------------------------------------------------
(* The decoder.  Positions are counted from 1; `avail` is Len(bytes).      *)

Fail == [ok |-> FALSE, len |-> 0, safe |-> FALSE]
Decoded(len, safe, bytes) == IF len > Len(bytes) THEN Fail ELSE [ok |-> TRUE, len |-> len, safe |-> safe]

(* The addressing bytes that follow an opcode at position c: the ModRM     *)
(* byte, the SIB byte, the displacement.                                   *)
parse_modrm_sib(bytes, c) ==
  LET modrm == bytes[c]
      mod   == modrm \div 64
      rm    == modrm % 8
      sib   == rm = 4 /\ mod # 3
      base5 == sib /\ mod = 0 /\ c < Len(bytes) /\ bytes[c + 1] % 8 = 5
      disp  == IF mod = 1 THEN 1 ELSE IF mod = 2 \/ (mod = 0 /\ rm = 5) \/ base5 THEN 4 ELSE 0
      len   == 1 + (IF sib THEN 1 ELSE 0) + disp
  IN  IF c > Len(bytes) \/ c + len - 1 > Len(bytes)
      THEN [ok |-> FALSE, len |-> 0, rip |-> FALSE]
      ELSE [ok |-> TRUE, len |-> len, rip |-> mod = 0 /\ rm = 5]
ModRMLength(bytes, at, imm, m) == IF m.ok THEN Decoded(at - 1 + m.len + imm, ~m.rip, bytes) ELSE Fail
WithModRM(bytes, at, imm) == ModRMLength(bytes, at, imm, parse_modrm_sib(bytes, at))

IsPrefixByte(b) == b \in 64..79 \cup {102, 103, 242, 243}
PlainModRM == {1, 3, 33, 35, 41, 43, 49, 51, 57, 59, 99, 133, 135, 137, 139, 141, 255}
ModRMImm8  == {128, 130, 131, 192, 193, 198}
ModRMImm32 == {129, 105, 199}

(* decode_instruction_x64: the immediate of B8..BF is 8 bytes wide when a  *)
(* REX.W prefix is present, every other wide immediate counts as 4 bytes   *)
(* whatever the prefixes say.                                              *)
DecodeOpcode(bytes, c, op) ==
  LET rexW == \E k \in 1..(c - 1) : bytes[k] \in 72..79
  IN  CASE op \in 80..95 \cup {144, 195, 204} -> Decoded(c, TRUE, bytes)
        [] op = 104 -> Decoded(c + 4, TRUE, bytes)
        [] op = 106 -> Decoded(c + 1, TRUE, bytes)
        [] op \in {232, 233} -> Decoded(c + 4, FALSE, bytes)
        [] op \in {235} \cup 112..127 -> Decoded(c + 1, FALSE, bytes)
        [] op = 15 ->
             IF c = Len(bytes) THEN Fail
             ELSE CASE bytes[c + 1] \in 128..143 -> Decoded(c + 5, FALSE, bytes)
                    [] bytes[c + 1] = 31 -> WithModRM(bytes, c + 2, 0)
                    [] OTHER -> Fail
        [] op \in 184..191 -> Decoded(c + (IF rexW THEN 8 ELSE 4), TRUE, bytes)
        [] op \in PlainModRM -> WithModRM(bytes, c + 1, 0)
        [] op \in ModRMImm8  -> WithModRM(bytes, c + 1, 1)
        [] op \in ModRMImm32 -> WithModRM(bytes, c + 1, 4)
        [] OTHER -> Fail
DecodeAt(bytes, c) == DecodeOpcode(bytes, c, bytes[c])
decode_instruction_x64(bytes) ==
  LET opcodes == {k \in 1..Len(bytes) : ~IsPrefixByte(bytes[k])}
  IN  IF opcodes = {} THEN Fail ELSE DecodeAt(bytes, CHOOSE k \in opcodes : \A j \in opcodes : k <= j)

(* Mutant: cuts the jump's 12 bytes out wherever an instruction ends.      *)
FixedCut(bytes) == [supported |-> TRUE, safe |-> TRUE, overwrite |-> MinJumpBytes]

(* compute_patch_plan_boundary over the captured bytes: step n is the      *)
(* cursor after n instructions, and the plan is the first one at or past   *)
(* the bytes the jump needs.                                               *)
Advance(w, d) == [at |-> w.at + d.len, ok |-> d.ok, safe |-> w.safe /\ d.safe]
PlanStep(bytes, w) ==
  IF ~w.ok \/ w.at >= MinJumpBytes \/ w.at >= Len(bytes) THEN w
  ELSE Advance(w, decode_instruction_x64(SubSeq(bytes, w.at + 1, Len(bytes))))
Boundary(end) ==
  LET supported == end.ok /\ end.at >= MinJumpBytes
  IN  [supported |-> supported, safe |-> supported /\ end.safe,
       overwrite |-> IF supported THEN end.at ELSE 0]
compute_patch_plan_boundary(bytes) ==
  LET walk[n \in 0..PlanSlots] ==
        IF n = 0 THEN [at |-> 0, ok |-> TRUE, safe |-> TRUE]
        ELSE PlanStep(bytes, walk[n - 1])
  IN  Boundary(walk[PlanSlots])

-----------------------------------------------------------------------------
(* Code the patch writes.                                                  *)

Addr(block, at) == <<block, at>>
TargetBlock == -1
PatchCode(enc, op, arg) == [enc |-> enc, pcrel |-> FALSE, op |-> op, arg |-> arg, uses |-> {}]
MovRax(addr) == PatchCode(<<72, 184, 0, 0, 0, 0, 0, 0, 0, 0>>, "movrax", addr)
JmpRax == PatchCode(<<255, 224>>, "jmprax", <<>>)
Nop    == PatchCode(<<144>>, "nop", <<>>)
\* pushfq, push rax .. add dword ptr [counter], 1 .. pop rax, popfq: saved and restored around the increment
CountEntry == PatchCode(<<156>>, "count", <<>>)

emit_mov_rax_jmp_rax(addr) == Assemble(<<MovRax(addr), JmpRax>>)

allocate_passthrough_gateway(addr) == emit_mov_rax_jmp_rax(addr)

(* Mutant: the marker gateway forgets to count.                            *)
SilentGateway(addr) == emit_mov_rax_jmp_rax(addr)

allocate_marker_gateway(addr) == Cells(CountEntry) \o emit_mov_rax_jmp_rax(addr)

(* use_marker_gateway_variant: what F4MP_GATEWAY_VARIANT says, marker when *)
(* unset or unknown.                                                       *)
EnvVariants == {"unset", "pass", "marker"}
use_marker_gateway_variant(env) == env # "pass"

SupportedLabels == {"phs_create_player_controls_manual_detour_thunk",
                    "phpr_passthrough_gateway", "phpr_marker_gateway"}
is_supported_detour_label(label) == label \in SupportedLabels

(* CommonLibF4PlayerHookPatchRealizationPlan: either address may be 0.     *)
PatchPlans == [target : BOOLEAN, detour : BOOLEAN,
          label : {"phs_create_player_controls_manual_detour_thunk", "phs_note_manual_detour_entry"}]

(* g_state as clf4_phpr_reset leaves it.                                   *)
ResetState == [attempted |-> FALSE, write |-> FALSE, trampoline |-> NoBlock,
               gateway |-> NoBlock, label |-> "", overwritten |-> 0, error |-> "NOT_ATTEMPTED"]

(* Mutant: an attempt that does not start from a reset state.              *)
KeepOldState(error) == [realized EXCEPT !.attempted = TRUE, !.error = error]

set_error(error) == [ResetState EXCEPT !.attempted = TRUE, !.error = error]

(* The k-th instruction of a prologue, told apart from its like by k.      *)
Compiled(code) == [k \in 1..Len(code) |-> [code[k] EXCEPT !.arg = k]]

(* The decoder knows a prologue when it measures every instruction it      *)
(* accepts there, within the captured bytes and before the jump's end, as  *)
(* the processor does, and calls none safe that is relative to its place.  *)
Knows(cells) ==
  \A at \in 0..(MinJumpBytes - 1) :
    LET d   == decode_instruction_x64(SubSeq(Bytes(SubSeq(cells, 1, CaptureBytes)), at + 1, CaptureBytes))
        ins == cells[at + 1].ins
    IN  cells[at + 1].off = 1 /\ d.ok => d.len = Len(ins.enc) /\ (d.safe => ~ins.pcrel)

(* A prologue is longer than what is captured of it.                       *)
ASSUME PatchAssumption ==
  /\ MaxTries \in Nat /\ MaxHits \in Nat
  /\ \A p \in Prologues :
        /\ p \in Seq([enc : Seq(0..255), pcrel : BOOLEAN, op : {"original"}, arg : {<<>>}, uses : Uses])
        /\ \A k \in 1..Len(p) : Len(p[k].enc) > 0
        /\ Len(Assemble(Compiled(p))) >= CaptureBytes
        /\ Knows(Assemble(Compiled(p)))

FreeBlocks == (1..MaxBlocks) \ DOMAIN heap
Least(S) == CHOOSE x \in S : \A y \in S : x <= y

-----------------------------------------------------------------------------
PatchInit ==
  /\ program \in Prologues
  /\ target = Assemble(Compiled(program))
  /\ heap = <<>>
  /\ realized = ResetState
  /\ trampoline = NoBlock
  /\ markerCount = 0
  /\ hits = 0
  /\ tries = 0

(* The part of every attempt that comes from clf4_phpr_reset.              *)
ClearEvidence == markerCount' = 0 /\ hits' = 0

clf4_phpr_reset ==
  /\ realized' = ResetState
  /\ trampoline' = NoBlock
  /\ ClearEvidence
  /\ UNCHANGED <<program, target, heap, tries>>

(* An attempt refused before anything is allocated.                        *)
Refuse(error) ==
  /\ tries < MaxTries
  /\ tries' = tries + 1
  /\ realized' = set_error(error)
  /\ trampoline' = NoBlock
  /\ ClearEvidence
  /\ UNCHANGED <<program, target, heap>>

Plan == compute_patch_plan_boundary(Bytes(SubSeq(target, 1, CaptureBytes)))

(* The checks that come before any allocation, in the order of the code.   *)
AttemptRefused(plan) ==
  \/ ~plan.target /\ Refuse("TARGET_MISSING")
  \/ plan.target /\ ~plan.detour /\ Refuse("DETOUR_MISSING")
  \/ /\ plan.target /\ plan.detour /\ ~is_supported_detour_label(plan.label)
     /\ Refuse("INCOMPATIBLE_DETOUR_ENTRY")
  \/ /\ plan.target /\ plan.detour /\ is_supported_detour_label(plan.label)
     /\ ~(Plan.supported /\ Plan.safe)
     /\ Refuse("PLANNER_UNSUPPORTED_INSTRUCTION")

Patchable(plan) ==
  /\ plan.target /\ plan.detour /\ is_supported_detour_label(plan.label)
  /\ Plan.supported /\ Plan.safe

(* What can fail once the plan is accepted, what has been allocated by     *)
(* then, and what the error path gives back with VirtualFree.              *)
Failures == {"trampoline", "gateway", "protect"}
TrampolineBlock == Least(FreeBlocks)
GatewayBlock == Least(FreeBlocks \ {TrampolineBlock})
Allocated(failure) ==
  IF failure = "trampoline" THEN {} ELSE IF failure = "gateway" THEN {TrampolineBlock}
  ELSE {TrampolineBlock, GatewayBlock}

(* Mutant: a protect failure that frees the gateway only.                  *)
FreedGatewayOnly(failure) == Allocated(failure) \ (IF failure = "protect" THEN {TrampolineBlock} ELSE {})

VirtualFreed(failure) == Allocated(failure)

AttemptFails(plan, failure) ==
  /\ Patchable(plan)
  /\ tries < MaxTries
  /\ tries' = tries + 1
  /\ heap' = [b \in (DOMAIN heap \cup Allocated(failure)) \ VirtualFreed(failure) |->
                IF b \in DOMAIN heap THEN heap[b] ELSE <<>>]
  /\ realized' = set_error(IF failure = "protect" THEN "PROTECT_FAILED" ELSE "TRAMPOLINE_ALLOC_FAILED")
  /\ trampoline' = NoBlock
  /\ ClearEvidence
  /\ UNCHANGED <<program, target>>

(* The trampoline: the bytes about to be overwritten, then a jump to the   *)
(* instruction behind them.  Written before the target is touched.         *)
TrampolineCells(cut) == SubSeq(target, 1, cut) \o emit_mov_rax_jmp_rax(Addr(TargetBlock, cut + 1))

AttemptSucceeds(plan, env) ==
  /\ Patchable(plan)
  /\ tries < MaxTries
  /\ tries' = tries + 1
  /\ LET cut == Plan.overwrite
         tr  == TrampolineBlock
         gw  == GatewayBlock
         marker == use_marker_gateway_variant(env)
         gateway == IF marker
                    THEN allocate_marker_gateway(Addr(tr, 1))
                    ELSE allocate_passthrough_gateway(Addr(tr, 1))
     IN  /\ heap' = [b \in DOMAIN heap \cup {tr, gw} |->
                       IF b = tr THEN TrampolineCells(cut) ELSE IF b = gw THEN gateway ELSE heap[b]]
         /\ target' = emit_mov_rax_jmp_rax(Addr(gw, 1))
                      \o Assemble([k \in 1..(cut - MinJumpBytes) |-> Nop])
                      \o SubSeq(target, cut + 1, Len(target))
         /\ realized' = [attempted |-> TRUE, write |-> TRUE, trampoline |-> tr,
                         gateway |-> gw, overwritten |-> cut, error |-> "NONE",
                         label |-> IF marker THEN "phpr_marker_gateway" ELSE "phpr_passthrough_gateway"]
         /\ trampoline' = tr
  /\ ClearEvidence
  /\ UNCHANGED program

clf4_phpr_attempt(plan) ==
  \/ AttemptRefused(plan)
  \/ \E failure \in Failures : AttemptFails(plan, failure)
  \/ \E env \in EnvVariants : AttemptSucceeds(plan, env)

-----------------------------------------------------------------------------
(* The processor: what the game's call of the target executes.             *)

CodeAt(block) == IF block = TargetBlock THEN target ELSE heap[block]
Mapped(block) == block = TargetBlock \/ block \in DOMAIN heap

(* The instruction at an address, if the cells there are one whole         *)
(* instruction.                                                            *)
Whole(block, at) ==
  LET cells == CodeAt(block)
      ins   == cells[at].ins
  IN  /\ at + Len(ins.enc) - 1 <= Len(cells)
      /\ \A k \in 1..Len(ins.enc) : cells[at + k - 1] = [ins |-> ins, off |-> k]
      /\ ins.op = "original" /\ ins.pcrel => block = TargetBlock

(* What ends a run at an address: it ends behind the target's known code,  *)
(* or in a fault: unmapped memory or half an instruction.                  *)
Stop(block, at) ==
  IF ~Mapped(block) THEN "unmapped"
  ELSE IF at > Len(CodeAt(block)) THEN IF block = TargetBlock THEN "return" ELSE "unmapped"
  ELSE IF Whole(block, at) THEN "" ELSE "torn"

(* Whose value rax holds: none of the function's own yet (it is called     *)
(* with nothing in rax), its own, or an address the patch loaded over its  *)
(* own.  A function that then reads rax has misread it, and does not       *)
(* recover: in the game it faults or goes astray, here it is followed on.  *)
RaxOwners == {"none", "held", "lost", "misread"}
Overwritten(own) == IF own = "held" THEN "lost" ELSE own
OwnRax(own, uses) ==
  IF own = "misread" \/ (own = "lost" /\ "reads" \in uses) THEN "misread"
  ELSE IF "writes" \in uses THEN "held" ELSE own

(* What one instruction does to the processor's state.                     *)
Perform(s, ins) ==
  LET next == Addr(s.pc[1], s.pc[2] + Len(ins.enc))
  IN  CASE ins.op = "movrax" -> [s EXCEPT !.pc = next, !.rax = ins.arg, !.own = Overwritten(@),
                                          !.blocks = @ \cup {s.pc[1]}]
        [] ins.op = "jmprax" -> [s EXCEPT !.pc = s.rax]
        [] ins.op = "count"  -> [s EXCEPT !.pc = next, !.count = @ + 1]
        [] ins.op = "nop"    -> [s EXCEPT !.pc = next]
        [] OTHER -> [s EXCEPT !.pc = next, !.own = OwnRax(@, ins.uses), !.trace = Append(@, ins.arg)]

Execute(s) ==
  LET stop == Stop(s.pc[1], s.pc[2])
  IN  IF s.end # "" THEN s
      ELSE IF stop # "" THEN [s EXCEPT !.end = stop]
      ELSE Perform(s, CodeAt(s.pc[1])[s.pc[2]].ins)

(* Enough steps: every patch adds a few, and one ends the run.             *)
Fuel == Len(program) + 8 * MaxTries + 1
Boot == [pc |-> Addr(TargetBlock, 1), rax |-> <<NoBlock, 1>>, own |-> "none", trace |-> <<>>,
         count |-> 0, blocks |-> {}, end |-> ""]
Run ==
  LET cpu[n \in 0..Fuel] == IF n = 0 THEN Boot ELSE Execute(cpu[n - 1])
  IN  cpu[Fuel]

(* The game calls the function the hook was put on.                        *)
CallTarget ==
  /\ hits < MaxHits
  /\ hits' = hits + 1
  /\ markerCount' = markerCount + Run.count
  /\ UNCHANGED <<program, target, heap, realized, trampoline, tries>>

PatchNext ==
  \/ clf4_phpr_reset
  \/ \E plan \in PatchPlans : clf4_phpr_attempt(plan)
  \/ CallTarget

PatchSpec == PatchInit /\ [][PatchNext]_patchVars

-----------------------------------------------------------------------------
(* How many of the target's instructions the first patch moves, and        *)
(* whether a value of the function's own is in rax there: one of them      *)
(* writes it and one behind them reads it.                                 *)
MovedInstructions(code) ==
  LET cells == Assemble(Compiled(code))
  IN  cells[compute_patch_plan_boundary(Bytes(SubSeq(cells, 1, CaptureBytes))).overwrite].ins.arg
CarriesRax(code, n) ==
  \E j \in 1..n, k \in (n + 1)..Len(code) :
    /\ "writes" \in code[j].uses /\ "reads" \in code[k].uses
    /\ \A i \in (j + 1)..(k - 1) : "writes" \notin code[i].uses

(* Whatever attempts were made, refused, failed half way or repeated over *)
(* an earlier patch, calling the target executes every instruction of the  *)
(* original code exactly once and in order: clf4_phpr_attempt moves whole  *)
(* instructions, and only position-independent ones.  The jumps through    *)
(* rax that do it (emit_mov_rax_jmp_rax) cost the function a value of its  *)
(* own in one case only: it computed one among the moved instructions and  *)
(* uses it behind them.                                                    *)
PrologueRunsOnce ==
  /\ Run.end = "return" /\ Run.trace = [k \in 1..Len(program) |-> k]
  /\ Run.own = "misread" => CarriesRax(program, MovedInstructions(program))

(* An allocation outlives its attempt only when the patched code runs      *)
(* through it: every error path of clf4_phpr_attempt frees what it         *)
(* allocated, and nothing the code jumps to is freed.                      *)
NoOrphanBlock == DOMAIN heap = Run.blocks \ {TargetBlock}

(* A marker count is evidence: it rises only by calls of the target since  *)
(* the last reset, and while a marker gateway is the realized one no call  *)
(* goes uncounted (use_marker_gateway_variant: "a real post-install hit    *)
(* leaves hard evidence").                                                 *)
MarkerIsEvidence ==
  /\ markerCount > 0 => hits > 0
  /\ realized.write /\ realized.label = "phpr_marker_gateway" => markerCount >= hits

(* When the state reports a realized patch, the target's first instruction *)
(* leads to the reported gateway, that gateway to the reported trampoline, *)
(* and the pointer handed to the shim is that trampoline.                  *)
RealizedIsTrue ==
  realized.write =>
    /\ target[1].ins.arg = Addr(realized.gateway, 1)
    /\ \E k \in 1..Len(heap[realized.gateway]) :
         heap[realized.gateway][k].ins = MovRax(Addr(realized.trampoline, 1))
    /\ trampoline = realized.trampoline
=============================================================================
