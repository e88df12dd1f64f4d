-------------------------- MODULE MC_Mos6502Claims --------------------------
(***************************************************************************)
(* What comments of the repository say of the CPU and the code does not    *)
(* do.  Each run checks one of these against the same few guests.          *)
(***************************************************************************)
EXTENDS Mos6502, TLC

MCRamSize == 32768
MCArgv    == <<>>
MCResults == {3}
MCData    == {7}

Org == \hA000
Rom(code) ==
  [ad \in Org..(Org + Len(code) - 1) |-> code[ad - Org + 1]]
  @@ (\hFFFC :> Lo(Org)) @@ (\hFFFD :> Hi(Org))

(* paravirtual close; ROL 0300, then a loop; NOP, JMP Org                  *)
MCImages == {Rom(<<\h80, 3, \h4C, 2, \hA0>>), Rom(<<\h2E, 0, 3, \h4C, 3, \hA0>>),
             Rom(<<\hEA, \h4C, 0, \hA0>>)}

(* vmcall.c:214, "PC will have been moved to the next opcode at this       *)
(* point": a paravirtual call leaves the PC two bytes further.             *)
VmCallMovesPc == [][VmCallStep => cpu'.pc = U16(cpu.pc + 2)]_vars

(* mos6502.c:1634, the table of ROL: the absolute mode has three bytes.    *)
RolAbsoluteLength ==
  [][ShiftMem /\ Op = "ROL" /\ Mode = "ABS" => cpu'.pc = U16(cpu.pc + 3)]_vars
=============================================================================
