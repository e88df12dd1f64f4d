----------------------------- MODULE Mos6502Isa -----------------------------
(***************************************************************************)
(* The instruction set of emu/mos6502/mos6502.c as operators on values:    *)
(* bytes and words, the status register, the dispatch table and what the   *)
(* arithmetic handlers compute.  The machine that executes instructions is *)
(* Mos6502.                                                                *)
(*                                                                         *)
(* The status register is the set of its flags that are 1.  The handlers   *)
(* of the code come in families that differ in the addressing mode only;   *)
(* an operator below stands for a family, and where one member differs     *)
(* from the others, it says so.                                            *)
(***************************************************************************)
EXTENDS Integers, FiniteSets

Byte == 0..255
Word == 0..65535

U8(n)  == n % 256
U16(n) == n % 65536
Bit7(v) == v >= 128

(* Bytes as sets of bit numbers, for &, | and ^.                           *)
Bits(v)  == {i \in 0..7 : (v \div 2^i) % 2 = 1}
FromBits(S) ==
  LET bit(i, weight) == IF i \in S THEN weight ELSE 0
  IN  bit(0, 1) + bit(1, 2) + bit(2, 4) + bit(3, 8)
        + bit(4, 16) + bit(5, 32) + bit(6, 64) + bit(7, 128)

BitAnd(v, w) == FromBits(Bits(v) \cap Bits(w))
BitOr(v, w)  == FromBits(Bits(v) \cup Bits(w))
BitXor(v, w) == FromBits((Bits(v) \ Bits(w)) \cup (Bits(w) \ Bits(v)))

-----------------------------------------------------------------------------
(* stat_reg_t: the flags and the bit each has in .val ("u" is unnamed).    *)
FlagBit == [c |-> 0, z |-> 1, i |-> 2, d |-> 3, b |-> 4, u |-> 5, v |-> 6, n |-> 7]
Flags   == DOMAIN FlagBit

PVal(p)      == FromBits({FlagBit[f] : f \in p})
PFromVal(v)  == {f \in Flags : FlagBit[f] \in Bits(v)}

Assign(p, f, cond) == IF cond THEN p \cup {f} ELSE p \ {f}

(* Two ways the handlers set Z and N from a result: assigning both, and    *)
(* (x ? 1 : p.z) which sets a flag but never clears it.                    *)
ExactZN(p, v)  == Assign(Assign(p, "z", v = 0), "n", Bit7(v))
StickyZ(p, v)  == p \cup {f \in {"z"} : v = 0}
StickyZN(p, v) == StickyZ(p, v) \cup {f \in {"n"} : Bit7(v)}

-----------------------------------------------------------------------------
(* The dispatch table: opcode -> <<handler family, addressing mode>>.      *)
(* Opcodes outside its domain are NULL entries.                            *)
Entries(op, modes) == {<<m[1], op, m[2]>> : m \in modes}

(* The eight columns the accumulator instructions share.                   *)
AluModes(base) ==
  {<<base + \h01, "IDX">>, <<base + \h05, "ZP">>, <<base + \h09, "IMM">>,
   <<base + \h0D, "ABS">>, <<base + \h11, "IDR">>, <<base + \h15, "ZPX">>,
   <<base + \h19, "ABSY">>, <<base + \h1D, "ABSX">>}

(* The four memory columns of shifts and of INC and DEC.                   *)
RmwModes(base) ==
  {<<base + \h06, "ZP">>, <<base + \h0E, "ABS">>,
   <<base + \h16, "ZPX">>, <<base + \h1E, "ABSX">>}

Implied(op, code) == {<<code, op, "IMP">>}
Relative(op, code) == {<<code, op, "REL">>}

AluEntries ==
  UNION {
    Entries("ORA", AluModes(\h00)), Entries("AND", AluModes(\h20)),
    Entries("EOR", AluModes(\h40)), Entries("ADC", AluModes(\h60)),
    Entries("STA", AluModes(\h80) \ {<<\h89, "IMM">>}),
    Entries("LDA", AluModes(\hA0)),
    \* CMP_IDX_IDR_handler and SBC_IDX_IDR_handler fill two entries each
    Entries("CMP", (AluModes(\hC0) \ {<<\hD1, "IDR">>}) \cup {<<\hD1, "IDX">>}),
    Entries("SBC", (AluModes(\hE0) \ {<<\hF1, "IDR">>}) \cup {<<\hF1, "IDX">>}) }

RmwEntries ==
  UNION {
    Entries("ASL", RmwModes(\h00)), Entries("ROL", RmwModes(\h20)),
    Entries("LSR", RmwModes(\h40)),
    \* lookup[7][6] is STX_ZP_handler
    Entries("ROR", RmwModes(\h60) \ {<<\h76, "ZPX">>}),
    Entries("DEC", RmwModes(\hC0)), Entries("INC", RmwModes(\hE0)),
    Implied("ASL", \h0A), Implied("ROL", \h2A), Implied("LSR", \h4A), Implied("ROR", \h6A) }

IndexEntries ==
  UNION {
    Entries("STX", {<<\h76, "ZP">>, <<\h86, "ZP">>, <<\h8E, "ABS">>, <<\h96, "ZPY">>}),
    Entries("STY", {<<\h84, "ZP">>, <<\h8C, "ABS">>, <<\h94, "ZPX">>}),
    Entries("LDX", {<<\hA2, "IMM">>, <<\hA6, "ZP">>, <<\hAE, "ABS">>,
                    <<\hB6, "ZPY">>, <<\hBE, "ABSY">>}),
    Entries("LDY", {<<\hA0, "IMM">>, <<\hA4, "ZP">>, <<\hAC, "ABS">>,
                    <<\hB4, "ZPX">>, <<\hBC, "ABSX">>}),
    Entries("CPX", {<<\hE0, "IMM">>, <<\hE4, "ZP">>, <<\hEC, "ABS">>}),
    Entries("CPY", {<<\hC0, "IMM">>, <<\hC4, "ZP">>, <<\hCC, "ABS">>}),
    Entries("BIT", {<<\h24, "ZP">>, <<\h2C, "ABS">>}) }

FlowEntries ==
  UNION {
    Entries("JMP", {<<\h4C, "ABS">>, <<\h6C, "IND">>}),
    Relative("BPL", \h10), Relative("BMI", \h30), Relative("BVC", \h50),
    Relative("BVS", \h70), Relative("BCC", \h90), Relative("BCS", \hB0),
    Relative("BNE", \hD0), Relative("BEQ", \hF0),
    Implied("BRK", \h00), Implied("JSR", \h20), Implied("RTI", \h40), Implied("RTS", \h60) }

RegisterEntries ==
  UNION {
    Implied("PHP", \h08), Implied("PLP", \h28), Implied("PHA", \h48), Implied("PLA", \h68),
    Implied("CLC", \h18), Implied("SEC", \h38), Implied("CLI", \h58), Implied("SEI", \h78),
    Implied("CLV", \hB8), Implied("CLD", \hD8), Implied("SED", \hF8),
    Implied("TXA", \h8A), Implied("TYA", \h98), Implied("TXS", \h9A),
    Implied("TAY", \hA8), Implied("TAX", \hAA), Implied("TSX", \hBA),
    Implied("DEY", \h88), Implied("INY", \hC8), Implied("DEX", \hCA),
    Implied("INX", \hE8), Implied("NOP", \hEA) }

LookupEntries == AluEntries \cup RmwEntries \cup IndexEntries \cup FlowEntries \cup RegisterEntries

lookup ==
  [code \in {e[1] : e \in LookupEntries} |->
     LET e == CHOOSE e \in LookupEntries : e[1] = code IN <<e[2], e[3]>>]

(* instr_cycles, a row per high nibble.                                    *)
instr_cycles == <<
  <<7, 6, 2, 8, 3, 3, 5, 5, 3, 2, 2, 2, 4, 4, 6, 6>>,
  <<2, 5, 2, 8, 4, 4, 6, 6, 2, 4, 2, 7, 4, 4, 7, 7>>,
  <<6, 6, 2, 8, 3, 3, 5, 5, 4, 2, 2, 2, 4, 4, 6, 6>>,
  <<2, 5, 2, 8, 4, 4, 6, 6, 2, 4, 2, 7, 4, 4, 7, 7>>,
  <<6, 6, 2, 8, 3, 3, 5, 5, 3, 2, 2, 2, 3, 4, 6, 6>>,
  <<2, 5, 2, 8, 4, 4, 6, 6, 2, 4, 2, 7, 4, 4, 7, 7>>,
  <<6, 6, 2, 8, 3, 3, 5, 5, 4, 2, 2, 2, 5, 4, 6, 6>>,
  <<2, 5, 2, 8, 4, 4, 6, 6, 2, 4, 2, 7, 4, 4, 7, 7>>,
  <<6, 6, 2, 6, 3, 3, 3, 3, 2, 2, 2, 2, 4, 4, 4, 4>>,
  <<2, 6, 2, 6, 4, 4, 4, 4, 2, 5, 2, 5, 5, 5, 5, 5>>,
  <<2, 6, 2, 6, 3, 3, 3, 3, 2, 2, 2, 2, 4, 4, 4, 4>>,
  <<2, 5, 2, 5, 4, 4, 4, 4, 2, 4, 2, 4, 4, 4, 4, 4>>,
  <<2, 6, 2, 8, 3, 3, 5, 5, 2, 2, 2, 2, 4, 4, 6, 6>>,
  <<2, 5, 2, 8, 4, 4, 6, 6, 2, 4, 2, 7, 4, 4, 7, 7>>,
  <<2, 6, 2, 8, 3, 3, 5, 5, 2, 2, 2, 2, 4, 4, 6, 6>>,
  <<2, 5, 2, 8, 4, 4, 6, 6, 2, 4, 2, 7, 4, 4, 7, 7>> >>

CyclesOf(opcode) == instr_cycles[1 + (opcode \div 16)][1 + (opcode % 16)]

(* What a handler adds to the PC.                                          *)
Length(op, mode) ==
  CASE op = "ORA" /\ mode \in {"IDX", "IDR"}  -> 3
    [] op = "ROL" /\ mode \in {"ABS", "ABSX"} -> 2
    [] op = "STX" /\ mode = "ZPY"             -> 1
    [] mode = "IMP"                           -> 1
    [] mode \in {"ABS", "ABSX", "ABSY"}       -> 3
    [] OTHER                                  -> 2

-----------------------------------------------------------------------------
(* Mutant: the carry of an earlier sum stays.                              *)
Mutant_AdcKeepsCarry(a, v, p) ==
  LET sum == a + v + (IF "c" \in p THEN 1 ELSE 0)
  IN  [a |-> U8(sum), p |-> ExactZN(IF sum > 255 THEN p \cup {"c", "v"} ELSE p, U8(sum))]

(* ADC: the sum is taken in 16 bits; V follows the carry and is never      *)
(* cleared.                                                                *)
Adc(a, v, p) ==
  LET sum == a + v + (IF "c" \in p THEN 1 ELSE 0)
      q   == IF sum > 255 THEN p \cup {"c", "v"} ELSE p \ {"c"}
  IN  [a |-> U8(sum), p |-> ExactZN(q, U8(sum))]

(* SBC: the 16-bit difference that decides the flags leaves out the borrow *)
(* in some modes, always takes it in immediate mode, and an underflow      *)
(* subtracts the operand once more.                                        *)
Sbc(a, v, p, mode) ==
  LET borrow == IF "c" \in p THEN 0 ELSE 1
      diff   == CASE mode = "IMM"                 -> a - v - 1
                  [] mode \in {"ZP", "ZPX", "ABS"} -> a - v
                  [] OTHER                        -> a - v - borrow
      res    == U8(a - v - borrow)
      under  == diff < 0
      q      == IF under THEN p \cup {"c", "v"} ELSE p
      neg    == IF mode = "IDX" THEN under \/ Bit7(diff) ELSE Bit7(U8(diff))
  IN  [a |-> IF under THEN U8(res - v - 255) ELSE res,
       p |-> Assign(Assign(q, "n", neg), "z", diff = 0)]

(* CMP, CPX, CPY: C is set, never cleared; N is the int difference shifted *)
(* by 7, so every borrow sets it.                                          *)
Compare(r, v, p) ==
  LET q == IF r >= v THEN p \cup {"c"} ELSE p
  IN  Assign(Assign(q, "n", r < v \/ Bit7(r - v)), "z", r = v)

(* BIT: Z is 1 when the masked bits are not all 0.                         *)
BitTest(a, v, p) ==
  Assign(Assign(Assign(p, "z", BitAnd(v, a) # 0), "n", Bit7(v)),
         "v", 6 \in Bits(v))

(* Shifts and rotates.  ROL masks with 0xFD when no carry comes in.        *)
Shifted(op, v, p) ==
  CASE op = "ASL" -> U8(2 * v)
    [] op = "LSR" -> v \div 2
    [] op = "ROL" -> IF "c" \in p THEN U8(2 * v) + 1 ELSE BitAnd(U8(2 * v), \hFD)
    [] op = "ROR" -> (v \div 2) + (IF "c" \in p THEN 128 ELSE 0)

ShiftFlags(op, v, r, p, inMemory) ==
  LET q == Assign(p, "c", IF op \in {"ASL", "ROL"} THEN Bit7(v) ELSE v % 2 = 1)
  IN  CASE op = "ASL" /\ inMemory -> StickyZ(q, r)
        [] op = "LSR" /\ inMemory -> StickyZ(q, r) \cup {f \in {"n"} : Bit7(v)}
        [] OTHER                  -> StickyZN(q, r)

(* AND, ORA, EOR and the loads: the value and how it sets Z and N.         *)
Logic(op, a, v, mode) ==
  CASE op = "AND" -> BitAnd(a, v)
    [] op = "ORA" -> BitOr(a, v)
    [] op = "EOR" /\ mode # "IDR" -> BitXor(a, v)
    [] OTHER -> v                 \* EOR_IDR_IDX_handler loads its operand

LogicFlags(op, r, p, mode) ==
  CASE op = "EOR" -> StickyZ(p, r)
    [] op = "ORA" /\ mode \notin {"IMM", "ZP"} -> ExactZN(p, r)
    [] OTHER -> StickyZN(p, r)

LoadFlags(op, r, p) == IF op = "LDY" THEN ExactZN(p, r) ELSE StickyZN(p, r)

(* The conditional branches: which flag, and its value when taken.         *)
BranchTaken(op, p) ==
  CASE op = "BPL" -> "n" \notin p
    [] op = "BMI" -> "n" \in p
    [] op = "BVC" -> "v" \notin p
    [] op = "BVS" -> "v" \in p
    [] op = "BCC" -> "c" \notin p
    [] op = "BCS" -> "c" \in p
    [] op = "BNE" -> "z" \notin p
    [] op = "BEQ" -> "z" \in p

(* Mutant: the operand is taken as unsigned.                               *)
Mutant_DisplacementUnsigned(operand) == operand

(* convert(): the operand of a branch is a signed byte.                    *)
Displacement(operand) == IF Bit7(operand) THEN operand - 256 ELSE operand

(* INC, DEC and the register forms, in a byte                              *)
IncDec(op, n) == U8(IF op \in {"INC", "INX", "INY"} THEN n + 1 ELSE n - 1)

FlagOp(op, p) ==
  CASE op = "CLC" -> p \ {"c"}  [] op = "SEC" -> p \cup {"c"}
    [] op = "CLI" -> p \ {"i"}  [] op = "SEI" -> p \cup {"i"}
    [] op = "CLD" -> p \ {"d"}  [] op = "SED" -> p \cup {"d"}
    [] op = "CLV" -> p \ {"v"}
=============================================================================
