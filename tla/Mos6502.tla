------------------------------ MODULE Mos6502 -------------------------------
(***************************************************************************)
(* The CPU of the emulator: mos6502_step fetches an opcode through the bus,*)
(* calls the handler of the dispatch table (or handle_vmcall for 0x80) and *)
(* hands the instruction's cycles to the clock.  One action per handler    *)
(* family.  Operands are read in the order of the code; the memory is that *)
(* of the Hawknest system (see Vmcall).                                    *)
(***************************************************************************)
EXTENDS Mos6502Isa, Vmcall

CONSTANTS Images,    \* ROM images: functions from addresses to bytes
          VmResults, \* what the host's open, close, read and write return
          VmData     \* bytes the host's read may deliver

ASSUME ImagesAssumption ==
  \A rom \in Images : DOMAIN rom \subseteq RamSize..65535 /\ \A ad \in DOMAIN rom : rom[ad] \in Byte
ASSUME VmAssumption == VmResults \subseteq Word /\ VmData \subseteq Byte

VARIABLES cpu,      \* mos6502_t: a, x, y, sp, pc, p and intr_status
          mem,      \* the bytes that differ from an untouched RAM
          status,   \* "off" until mos6502_reset, "running", "exited" by
                    \* VMCALL_EXIT, "crashed" by a call through NULL
          elapsed   \* CPU cycles the last step handed to the timekeeper

vars == <<cpu, mem, status, elapsed>>

Rd(ad) == MemRead(mem, U16(ad))

Opcode  == Rd(cpu.pc)
Op      == lookup[Opcode][1]
Mode    == lookup[Opcode][2]
Operand == Rd(cpu.pc + 1)
Operand16 == MakeWord(Rd(cpu.pc + 2), Operand)

(* The address a handler reads its value from, by addressing mode.         *)
IdxAddr == LET lo == U8(Operand + cpu.x) IN MakeWord(U8(lo + 1), lo)
IdrAddr == MakeWord(Rd(U8(Operand + 1)), Rd(Operand + cpu.y))

Source ==
  CASE Mode = "IMM"  -> U16(cpu.pc + 1)
    [] Mode = "ZP"   -> Operand
    [] Mode = "ZPX"  -> Operand + cpu.x          \* may leave the zero page
    [] Mode = "ZPY"  -> Operand + cpu.y
    [] Mode = "ABS"  -> Operand16
    [] Mode = "ABSX" -> U16(IF Op = "ORA" THEN Operand16 - cpu.x ELSE Operand16 + cpu.x)
    [] Mode = "ABSY" -> U16(IF Op = "ORA" THEN Operand16 - cpu.y ELSE Operand16 + cpu.y)
    [] Mode = "IDX"  -> IdxAddr
    [] Mode = "IDR"  ->
         IF Op # "LDA" THEN IdrAddr
         ELSE \* hi << 8 | (lo + y): a carry out of the low byte is or-ed in
              LET lo == Lo(IdrAddr) + cpu.y
              IN  MakeWord(BitOr(Hi(IdrAddr), Hi(lo)), Lo(lo))

Value == Rd(Source)

(* The address a handler writes to.                                        *)
Target ==
  CASE Op \in {"INC", "DEC"} /\ Mode = "ZPX" -> Operand
    [] Op = "STX" /\ Mode = "ZPY"            -> Operand
    [] Op = "STY" /\ Mode = "ZPX"            -> Operand
    [] Op = "STA" /\ Mode = "IDX"            -> Lo(IdxAddr)
    [] OTHER                                 -> Source

NextPc == U16(cpu.pc + Length(Op, Mode))

(* A step that executes a handler of one of these families.                *)
Instr(ops) ==
  /\ status = "running"
  /\ Opcode \in DOMAIN lookup
  /\ Op \in ops
  /\ elapsed' = CyclesOf(Opcode)
  /\ UNCHANGED status

-----------------------------------------------------------------------------
Init ==
  /\ mem \in Images
  /\ cpu = [a |-> 0, x |-> 0, y |-> 0, sp |-> 0, pc |-> 0, p |-> {}, intr |-> "none"]
  /\ status = "off"
  /\ elapsed = 0

(* mos6502_reset: power-up values, the start address from the vector.      *)
Reset ==
  /\ status = "off"
  /\ cpu' = [cpu EXCEPT !.pc = Read16(mem, \hFFFC), !.a = 0, !.x = 0, !.y = 0,
                        !.sp = \hFD, !.p = PFromVal(\h34)]
  /\ status' = "running"
  /\ elapsed' = 8
  /\ UNCHANGED mem

RaiseIrq ==
  /\ status = "running"
  /\ cpu' = [cpu EXCEPT !.intr = "irq"]
  /\ UNCHANGED <<mem, status, elapsed>>

RaiseNmi ==
  /\ status = "running"
  /\ cpu' = [cpu EXCEPT !.intr = "nmi"]
  /\ UNCHANGED <<mem, status, elapsed>>

-----------------------------------------------------------------------------
Load ==
  /\ Instr({"LDA", "LDX", "LDY"})
  /\ LET q == LoadFlags(Op, Value, cpu.p)
     IN  cpu' = CASE Op = "LDA" -> [cpu EXCEPT !.a = Value, !.p = q, !.pc = NextPc]
                  [] Op = "LDX" -> [cpu EXCEPT !.x = Value, !.p = q, !.pc = NextPc]
                  [] Op = "LDY" -> [cpu EXCEPT !.y = Value, !.p = q, !.pc = NextPc]
  /\ UNCHANGED mem

Store ==
  /\ Instr({"STA", "STX", "STY"})
  /\ mem' = MemWrite(mem, Target, CASE Op = "STA" -> cpu.a
                                    [] Op = "STX" -> cpu.x
                                    [] Op = "STY" -> cpu.y)
  /\ cpu' = [cpu EXCEPT !.pc = NextPc]

LogicOp ==
  /\ Instr({"AND", "ORA", "EOR"})
  /\ LET r == Logic(Op, cpu.a, Value, Mode)
     IN  cpu' = [cpu EXCEPT !.a = r, !.p = LogicFlags(Op, r, @, Mode), !.pc = NextPc]
  /\ UNCHANGED mem

AddSub ==
  /\ Instr({"ADC", "SBC"})
  /\ LET r == IF Op = "ADC" THEN Adc(cpu.a, Value, cpu.p)
                            ELSE Sbc(cpu.a, Value, cpu.p, Mode)
     IN  cpu' = [cpu EXCEPT !.a = r.a, !.p = r.p, !.pc = NextPc]
  /\ UNCHANGED mem

CompareOp ==
  /\ Instr({"CMP", "CPX", "CPY"})
  /\ LET r == CASE Op = "CMP" -> cpu.a [] Op = "CPX" -> cpu.x [] Op = "CPY" -> cpu.y
     IN  cpu' = [cpu EXCEPT !.p = Compare(r, Value, @), !.pc = NextPc]
  /\ UNCHANGED mem

BitOp ==
  /\ Instr({"BIT"})
  /\ cpu' = [cpu EXCEPT !.p = BitTest(cpu.a, Value, @), !.pc = NextPc]
  /\ UNCHANGED mem

ShiftAcc ==
  /\ Instr({"ASL", "LSR", "ROL", "ROR"})
  /\ Mode = "IMP"
  /\ LET r == Shifted(Op, cpu.a, cpu.p)
     IN  cpu' = [cpu EXCEPT !.a = r, !.p = ShiftFlags(Op, cpu.a, r, @, FALSE),
                            !.pc = NextPc]
  /\ UNCHANGED mem

ShiftMem ==
  /\ Instr({"ASL", "LSR", "ROL", "ROR"})
  /\ Mode # "IMP"
  /\ LET r == Shifted(Op, Value, cpu.p)
     IN  /\ mem' = MemWrite(mem, Target, r)
         /\ cpu' = [cpu EXCEPT !.p = ShiftFlags(Op, Value, r, @, TRUE), !.pc = NextPc]

IncDecMem ==
  /\ Instr({"INC", "DEC"})
  /\ LET r == IncDec(Op, Value)
     IN  /\ mem' = MemWrite(mem, Target, r)
         /\ cpu' = [cpu EXCEPT !.p = ExactZN(@, r), !.pc = NextPc]

IncDecReg ==
  /\ Instr({"INX", "INY", "DEX", "DEY"})
  /\ LET r == IncDec(Op, IF Op \in {"INX", "DEX"} THEN cpu.x ELSE cpu.y)
         q == ExactZN(cpu.p, r)
     IN  cpu' = IF Op \in {"INX", "DEX"}
                THEN [cpu EXCEPT !.x = r, !.p = q, !.pc = NextPc]
                ELSE [cpu EXCEPT !.y = r, !.p = q, !.pc = NextPc]
  /\ UNCHANGED mem

Transfer ==
  /\ Instr({"TAX", "TAY", "TXA", "TYA", "TSX", "TXS"})
  /\ LET p == cpu.p
         t == [cpu EXCEPT !.pc = NextPc]
     IN  cpu' = CASE Op = "TAX" -> [t EXCEPT !.x = cpu.a, !.p = StickyZN(p, cpu.a)]
                  [] Op = "TAY" -> [t EXCEPT !.y = cpu.a, !.p = StickyZN(p, cpu.a)]
                  [] Op = "TXA" -> [t EXCEPT !.a = cpu.x, !.p = StickyZN(p, cpu.x)]
                  [] Op = "TYA" -> [t EXCEPT !.a = cpu.y, !.p = StickyZN(p, cpu.y)]
                  [] Op = "TSX" -> [t EXCEPT !.x = cpu.sp, !.p = ExactZN(p, cpu.sp)]
                  [] Op = "TXS" -> [t EXCEPT !.sp = cpu.x]
  /\ UNCHANGED mem

SetFlag ==
  /\ Instr({"CLC", "SEC", "CLI", "SEI", "CLD", "SED", "CLV"})
  /\ cpu' = [cpu EXCEPT !.p = FlagOp(Op, @), !.pc = NextPc]
  /\ UNCHANGED mem

Nop ==
  /\ Instr({"NOP"})
  /\ cpu' = [cpu EXCEPT !.pc = NextPc]
  /\ UNCHANGED mem

-----------------------------------------------------------------------------
Branch ==
  /\ Instr({"BPL", "BMI", "BVC", "BVS", "BCC", "BCS", "BNE", "BEQ"})
  /\ cpu' = [cpu EXCEPT !.pc = U16(cpu.pc + 2 + IF BranchTaken(Op, cpu.p)
                                                THEN Displacement(Operand) ELSE 0)]
  /\ UNCHANGED mem

Jump ==
  /\ Instr({"JMP"})
  /\ cpu' = [cpu EXCEPT !.pc = IF Mode = "ABS" THEN Operand16 ELSE Read16(mem, Operand16)]
  /\ UNCHANGED mem

(* The return address is that of the next instruction; the second byte     *)
(* goes to the 16-bit address below the first.                             *)
Jsr ==
  /\ Instr({"JSR"})
  /\ LET ret == U16(cpu.pc + 3)
         top == 256 + cpu.sp
         m   == MemWrite(MemWrite(mem, top, Hi(ret)), top - 1, Lo(ret))
     IN  /\ mem' = m
         /\ cpu' = [cpu EXCEPT !.sp = U8(top - 2),
                               !.pc = MakeWord(MemRead(m, U16(cpu.pc + 2)),
                                               MemRead(m, U16(cpu.pc + 1)))]

(* Mutant: the bytes of the return address are swapped.                    *)
Mutant_RtsSwapped ==
  /\ Instr({"RTS"})
  /\ LET top == 256 + cpu.sp
     IN  cpu' = [cpu EXCEPT !.pc = MakeWord(Rd(top + 1), Rd(top + 2)), !.sp = U8(top + 2)]
  /\ UNCHANGED mem

Rts ==
  /\ Instr({"RTS"})
  /\ LET top == 256 + cpu.sp
     IN  cpu' = [cpu EXCEPT !.pc = MakeWord(Rd(top + 2), Rd(top + 1)), !.sp = U8(top + 2)]
  /\ UNCHANGED mem

Push ==
  /\ Instr({"PHA", "PHP"})
  /\ mem' = MemWrite(mem, 256 + cpu.sp, IF Op = "PHA" THEN cpu.a ELSE PVal(cpu.p))
  /\ cpu' = [cpu EXCEPT !.sp = U8(cpu.sp - 1), !.pc = NextPc]

(* Mutant: PLP leaves S alone.                                             *)
Mutant_PullOnlyMovesForPla ==
  /\ Instr({"PLA", "PLP"})
  /\ LET v == Rd(256 + cpu.sp + 1)
         t == [cpu EXCEPT !.pc = NextPc]
     IN  cpu' = IF Op = "PLA" THEN [t EXCEPT !.a = v, !.p = StickyZN(@, v), !.sp = U8(@ + 1)]
                              ELSE [t EXCEPT !.p = PFromVal(v)]
  /\ UNCHANGED mem

Pull ==
  /\ Instr({"PLA", "PLP"})
  /\ LET v == Rd(256 + cpu.sp + 1)
         t == [cpu EXCEPT !.sp = U8(cpu.sp + 1), !.pc = NextPc]
     IN  cpu' = IF Op = "PLA" THEN [t EXCEPT !.a = v, !.p = StickyZN(@, v)]
                              ELSE [t EXCEPT !.p = PFromVal(v)]
  /\ UNCHANGED mem

(* BRK pushes to the zero page and keeps the low byte of the vector only.  *)
Brk ==
  /\ Instr({"BRK"})
  /\ LET ret == U16(cpu.pc + 2)
         s   == cpu.sp
         m   == MemWrite(MemWrite(MemWrite(mem, s, Hi(ret)), U8(s - 1), Lo(ret)),
                         U8(s - 2), PVal(cpu.p))
     IN  /\ mem' = m
         /\ cpu' = [cpu EXCEPT !.sp = U8(s - 3), !.p = @ \cup {"b"},
                               !.pc = MemRead(m, \hFFFE)]

Rti ==
  /\ Instr({"RTI"})
  /\ LET s == cpu.sp
     IN  cpu' = [cpu EXCEPT !.p = Assign(@, "v", Rd(s) # 0), !.sp = U8(s + 2),
                            !.pc = MakeWord(Rd(U8(s + 2)), Rd(U8(s + 1)))]
  /\ UNCHANGED mem

-----------------------------------------------------------------------------
(* Opcode 0x80.  The result of handle_vmcall is dropped and the PC stays;  *)
(* breakpoint and unknown calls therefore change nothing.                  *)
VmCallStep ==
  /\ status = "running"
  /\ Opcode = \h80
  /\ elapsed' = IF Operand = 1 THEN elapsed ELSE CyclesOf(Opcode)
  /\ status' = IF Operand = 1 THEN "exited" ELSE status
  /\ \E ret \in VmResults, data \in VmData :
       LET done == CASE Operand = 0 -> ArgsCall(cpu, mem)
                     [] Operand = 2 -> OpenCall(cpu, mem, ret)
                     [] Operand = 3 -> CloseCall(cpu, mem, ret)
                     [] Operand = 4 -> ReadCall(cpu, mem, ret, data)
                     [] Operand = 5 -> WriteCall(cpu, mem, ret)
                     [] OTHER       -> [regs |-> cpu, mem |-> mem]
       IN  /\ Operand \in {4, 5} => ret = 65535 \/ ret <= GetAX(cpu)
           /\ cpu' = done.regs
           /\ mem' = done.mem

(* A NULL entry of the table is called all the same.                       *)
CallNull ==
  /\ status = "running"
  /\ Opcode \notin DOMAIN lookup \cup {\h80}
  /\ status' = "crashed"
  /\ UNCHANGED <<cpu, mem, elapsed>>

Step ==
  \/ Load \/ Store \/ LogicOp \/ AddSub \/ CompareOp \/ BitOp \/ ShiftAcc \/ ShiftMem
  \/ IncDecMem \/ IncDecReg \/ Transfer \/ SetFlag \/ Nop \/ Branch \/ Jump
  \/ Jsr \/ Rts \/ Push \/ Pull \/ Brk \/ Rti \/ VmCallStep \/ CallNull

Next == Reset \/ RaiseIrq \/ RaiseNmi \/ Step

Spec == Init /\ [][Next]_vars

(* run_shell without -i resets, then steps the CPU in a loop.              *)
FairSpec == Spec /\ WF_vars(Reset) /\ WF_vars(Step)

-----------------------------------------------------------------------------
Regs == [a : Byte, x : Byte, y : Byte, sp : Byte, pc : Word, p : SUBSET Flags,
         intr : {"none", "irq", "nmi"}]

TypeOK ==
  /\ cpu \in Regs
  /\ DOMAIN mem \subseteq Word /\ \A ad \in DOMAIN mem : mem[ad] \in Byte
  /\ status \in {"off", "running", "exited", "crashed"}
  /\ elapsed \in 0..8
=============================================================================
