----------------------------- MODULE MCHookPatch -----------------------------
(* Instances of HookPatch: prologues made of real x64 encodings.           *)
EXTENDS HookPatch

SubRsp     == Instruction(<<72, 131, 236, 32>>, FALSE, {})                    \* sub rsp, 20h
PushRdi    == Instruction(<<87>>, FALSE, {})                                  \* push rdi
PushRbx    == Instruction(<<64, 83>>, FALSE, {})                              \* push rbx
SaveRbx    == Instruction(<<72, 137, 92, 36, 8>>, FALSE, {})                  \* mov [rsp+8], rbx
LeaRbp     == Instruction(<<72, 141, 172, 36, 0, 255, 255, 255>>, FALSE, {})  \* lea rbp, [rsp-100h]
LeaRip     == Instruction(<<72, 141, 13, 0, 1, 0, 0>>, TRUE, {})              \* lea rcx, [rip+100h]
XorEdx     == Instruction(<<51, 210>>, FALSE, {})                             \* xor edx, edx
MovR8Imm64 == Instruction(<<73, 184, 1, 2, 3, 4, 5, 6, 7, 8>>, FALSE, {})     \* mov r8, imm64
MovEaxImm  == Instruction(<<184, 1, 0, 0, 0>>, FALSE, {"writes"})             \* mov eax, 1
StoreImm32 == Instruction(<<199, 68, 36, 8, 1, 0, 0, 0>>, FALSE, {})          \* mov dword [rsp+8], 1
LoadAbs    == Instruction(<<72, 139, 4, 37, 0, 16, 0, 0>>, FALSE, {"writes"}) \* mov rax, [1000h]
NopMulti   == Instruction(<<15, 31, 68, 0, 0>>, FALSE, {})                    \* nop [rax+rax]
CallRel    == Instruction(<<232, 0, 1, 0, 0>>, TRUE, {"writes"})              \* call rel32
JzShort    == Instruction(<<116, 5>>, TRUE, {})                               \* jz rel8
JzNear     == Instruction(<<15, 132, 0, 1, 0, 0>>, TRUE, {})                  \* jz rel32
PushImm8   == Instruction(<<106, 1>>, FALSE, {})                              \* push 1
PushImm32  == Instruction(<<104, 1, 0, 0, 0>>, FALSE, {})                     \* push 1 (imm32)
TestAl     == Instruction(<<132, 192>>, FALSE, {"reads"})                     \* test al, al: not in the tables

Common == {SubRsp, PushRdi, PushRbx, SaveRbx, LeaRbp, LeaRip, XorEdx, MovR8Imm64, MovEaxImm,
           StoreImm32, LoadAbs, NopMulti, CallRel, JzShort, JzNear, PushImm8, PushImm32, TestAl}

(* Two chosen instructions, then a usual MSVC prologue behind them.        *)
Body == <<PushRdi, SubRsp, SaveRbx, PushRbx, SubRsp, XorEdx>>
CommonPrologues == {<<a, b>> \o Body : a \in Common, b \in Common}

(* A prologue that keeps the caller's stack pointer in rax and uses it     *)
(* up to behind the first twelve bytes, with a chosen instruction in it.   *)
MovRaxRsp  == Instruction(<<72, 139, 196>>, FALSE, {"writes"})      \* mov rax, rsp
SaveRbxRax == Instruction(<<72, 137, 88, 8>>, FALSE, {"reads"})     \* mov [rax+8], rbx
SaveRsiRax == Instruction(<<72, 137, 112, 16>>, FALSE, {"reads"})   \* mov [rax+10h], rsi
LeaRbpRax  == Instruction(<<72, 141, 104, 161>>, FALSE, {"reads"})  \* lea rbp, [rax-5Fh]
RaxPrologues ==
  {<<MovRaxRsp, SaveRbxRax, SaveRsiRax, a, LeaRbpRax, SubRsp, XorEdx>> : a \in Common}
AllPrologues == CommonPrologues \cup RaxPrologues
=============================================================================
