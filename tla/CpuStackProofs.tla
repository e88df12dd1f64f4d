-------------------------- MODULE CpuStackProofs ---------------------------
(***************************************************************************)
(* Proofs about the CPU for every guest image, every host and every        *)
(* command line: the registers keep their widths and the memory its bytes, *)
(* and the CPU with its memory implements Mos6502Stack over page one, so   *)
(* that a guest that keeps the discipline has the stack of BoundedStack.   *)
(***************************************************************************)
EXTENDS CpuStack, WellFoundedInduction, TLAPS

(* A guest's memory: bytes at 16-bit addresses.                            *)
Memory(m) == DOMAIN m \subseteq Word /\ \A ad \in DOMAIN m : m[ad] \in Byte

-----------------------------------------------------------------------------
(* Widths.  The intervals stay closed in what follows: spelled out they    *)
(* are 65536 numbers.                                                      *)
LEMMA IsWord == \A w : w \in Word <=> w \in Int /\ 0 <= w /\ w < 65536
<1> DEFINE last == 65535
<1>1. Word = 0..last
  BY DEF Word
<1>2. last \in Int /\ \A w \in Int : w <= last <=> w < 65536
  OBVIOUS
<1> HIDE DEF last
<1>3. \A w : w \in Word <=> w \in Int /\ 0 <= w /\ w <= last
  BY <1>1, <1>2
<1> QED
  BY <1>2, <1>3

LEMMA IsByte == \A v : v \in Byte <=> v \in Int /\ 0 <= v /\ v < 256
<1> DEFINE last == 255
<1>1. Byte = 0..last
  BY DEF Byte
<1>2. last \in Int /\ \A v \in Int : v <= last <=> v < 256
  OBVIOUS
<1> HIDE DEF last
<1>3. \A v : v \in Byte <=> v \in Int /\ 0 <= v /\ v <= last
  BY <1>1, <1>2
<1> QED
  BY <1>2, <1>3

LEMMA Widths == /\ Byte \subseteq Int /\ Word \subseteq Int /\ Byte \subseteq Word
                /\ 0 \in Byte /\ 255 \in Byte /\ 0 \in Word
BY IsByte, IsWord

LEMMA Mod16 == \A n \in Int : n % 65536 \in Word
BY IsWord

LEMMA Mod8 == \A n \in Int : n % 256 \in Byte
BY IsByte

LEMMA U16Word == \A n \in Int : U16(n) \in Word
BY Mod16 DEF U16

LEMMA U8Byte == \A n \in Int : U8(n) \in Byte
BY Mod8 DEF U8

LEMMA LoHi == \A w \in Int : Lo(w) \in Byte /\ Hi(w) \in Byte
<1> SUFFICES ASSUME NEW w \in Int PROVE w % 256 \in Byte /\ (w \div 256) % 256 \in Byte
  BY DEF Lo, Hi
<1>1. w \div 256 \in Int
  OBVIOUS
<1> QED
  BY <1>1, Mod8

LEMMA WordOf == \A hi, lo \in Byte : MakeWord(hi, lo) \in Word
BY IsByte, IsWord DEF MakeWord

LEMMA FromBitsByte == \A S : FromBits(S) \in Byte
<1> SUFFICES ASSUME NEW S PROVE FromBits(S) \in Byte
  OBVIOUS
<1> DEFINE b(i, weight) == IF i \in S THEN weight ELSE 0
<1>1. FromBits(S) = b(0, 1) + b(1, 2) + b(2, 4) + b(3, 8) + b(4, 16) + b(5, 32) + b(6, 64) + b(7, 128)
  BY DEF FromBits
<1>2. ASSUME NEW i, NEW weight \in Nat PROVE b(i, weight) \in Nat /\ b(i, weight) <= weight
  OBVIOUS
<1> HIDE DEF b
<1> QED
  BY <1>1, <1>2, IsByte

LEMMA BitOpsByte == \A v, w : BitAnd(v, w) \in Byte /\ BitOr(v, w) \in Byte /\ BitXor(v, w) \in Byte
BY FromBitsByte DEF BitAnd, BitOr, BitXor

-----------------------------------------------------------------------------
(* Memory.                                                                 *)
LEMMA ReadByte ==
  ASSUME NEW m, Memory(m), NEW ad
  PROVE  MemRead(m, ad) \in Byte
BY Widths DEF Memory, MemRead

LEMMA WriteKeeps ==
  ASSUME NEW m, Memory(m), NEW ad \in Word, NEW v \in Byte
  PROVE  Memory(MemWrite(m, ad, v))
BY DEF Memory, MemWrite

LEMMA WriteReads ==
  ASSUME NEW m, NEW ad, NEW v, NEW c
  PROVE  MemRead(MemWrite(m, ad, v), c) = IF c = ad /\ ad < RamSize THEN v ELSE MemRead(m, c)
BY DEF MemRead, MemWrite

LEMMA Read16Word ==
  ASSUME NEW m, Memory(m), NEW ad
  PROVE  Read16(m, ad) \in Word
BY ReadByte, WordOf DEF Read16

LEMMA Write16Keeps ==
  ASSUME NEW m, Memory(m), NEW ad \in Word, NEW w \in Int
  PROVE  Memory(Write16(m, ad, w))
<1>1. Lo(w) \in Byte /\ Hi(w) \in Byte
  BY LoHi
<1>2. (ad + 1) % 65536 \in Word
  BY Mod16, Widths
<1>3. Memory(MemWrite(m, ad, Lo(w)))
  BY <1>1, WriteKeeps
<1> QED
  BY <1>1, <1>2, <1>3, WriteKeeps DEF Write16

LEMMA BlockIndex ==
  ASSUME NEW ad \in Word, NEW j \in Word
  PROVE  (((ad + j) % 65536) - ad) % 65536 = j
<1>1. ad \in Int /\ j \in Int /\ 0 <= ad /\ ad < 65536 /\ 0 <= j /\ j < 65536
  BY IsWord
<1>2. ad + j < 65536 => (ad + j) % 65536 = ad + j
  BY <1>1
<1>3. ad + j >= 65536 => (ad + j) % 65536 = ad + j - 65536
  BY <1>1
<1>4. j % 65536 = j /\ (j - 65536) % 65536 = j
  BY <1>1
<1> QED
  BY <1>1, <1>2, <1>3, <1>4

LEMMA SeqBytes ==
  ASSUME NEW bytes \in Seq(Byte)
  PROVE  Len(bytes) \in Nat /\ \A i \in 1..Len(bytes) : bytes[i] \in Byte
OBVIOUS

LEMMA BlockKeeps ==
  ASSUME NEW m, Memory(m), NEW ad \in Word, NEW bytes \in Seq(Byte)
  PROVE  Memory(WriteBlock(m, ad, bytes))
<1> DEFINE n == Len(bytes)
           at(c) == 1 + ((c - ad) % 65536)
           written == {(ad + i - 1) % 65536 : i \in 1..n} \cap 0..(RamSize - 1)
           block == [c \in DOMAIN m \cup written |-> IF c \in written THEN bytes[at(c)] ELSE m[c]]
<1>1. WriteBlock(m, ad, bytes) = block
  BY DEF WriteBlock
<1>2. n \in Nat /\ \A i \in 1..n : bytes[i] \in Byte
  BY SeqBytes
<1> HIDE DEF n
<1>3. ASSUME NEW c \in written PROVE c \in Word /\ at(c) \in 1..n
  <2>1. PICK i \in 1..n : c = (ad + i - 1) % 65536
    OBVIOUS
  <2>2. c \in Word /\ ad \in Int /\ i \in Int /\ 1 <= i /\ i <= n
    BY <1>2, <2>1, Mod16, Widths
  <2>3. c - ad \in Int
    BY <2>2, Widths
  <2> DEFINE back == (c - ad) % 65536
  <2>4. back \in Int /\ 0 <= back /\ back < 65536
    BY <2>3, Mod16, IsWord
  <2>5. CASE i - 1 < 65536
    <3>1. i - 1 \in Word /\ ad + i - 1 = ad + (i - 1)
      BY <2>2, <2>5, IsWord
    <3>2. back = i - 1
      BY <2>1, <3>1, BlockIndex
    <3> HIDE DEF back
    <3>3. 1 + back \in 1..n
      BY <2>2, <3>2
    <3> QED
      BY <2>2, <3>3 DEF back
  <2>6. CASE ~(i - 1 < 65536)
    <3> HIDE DEF back
    <3>1. 1 + back \in 1..n
      BY <1>2, <2>2, <2>4, <2>6
    <3> QED
      BY <2>2, <3>1 DEF back
  <2> QED
    BY <2>5, <2>6
<1> HIDE DEF at, written
<1>4. Memory(block)
  BY <1>2, <1>3 DEF Memory
<1> QED
  BY <1>1, <1>4

-----------------------------------------------------------------------------
(* The instruction set: bytes stay bytes, flags stay flags.                *)
LEMMA FlagNames == Flags = {"c", "z", "i", "d", "b", "u", "v", "n"}
BY DEF Flags, FlagBit

LEMMA AssignFlags ==
  ASSUME NEW p \in SUBSET Flags, NEW f \in Flags, NEW cond
  PROVE  Assign(p, f, cond) \in SUBSET Flags
BY DEF Assign

LEMMA ZNFlags ==
  ASSUME NEW p \in SUBSET Flags, NEW v
  PROVE  /\ ExactZN(p, v) \in SUBSET Flags
         /\ StickyZ(p, v) \in SUBSET Flags
         /\ StickyZN(p, v) \in SUBSET Flags
<1>1. "z" \in Flags /\ "n" \in Flags
  BY FlagNames
<1> QED
  BY <1>1, AssignFlags DEF ExactZN, StickyZ, StickyZN

LEMMA ValFlags == \A v : PFromVal(v) \in SUBSET Flags
BY DEF PFromVal

LEMMA ValByte == \A p : PVal(p) \in Byte
BY FromBitsByte DEF PVal

LEMMA AdcTypes ==
  ASSUME NEW a \in Byte, NEW v \in Byte, NEW p \in SUBSET Flags
  PROVE  Adc(a, v, p).a \in Byte /\ Adc(a, v, p).p \in SUBSET Flags
<1> DEFINE sum == a + v + (IF "c" \in p THEN 1 ELSE 0)
           q == IF sum > 255 THEN p \cup {"c", "v"} ELSE p \ {"c"}
<1>1. sum \in Int
  BY Widths
<1>2. U8(sum) \in Byte
  BY <1>1, Mod8 DEF U8
<1>3. q \in SUBSET Flags
  BY FlagNames
<1>4. Adc(a, v, p) = [a |-> U8(sum), p |-> ExactZN(q, U8(sum))]
  BY DEF Adc
<1> HIDE DEF sum, q
<1> QED
  BY <1>2, <1>3, <1>4, ZNFlags

LEMMA SbcTypes ==
  ASSUME NEW a \in Byte, NEW v \in Byte, NEW p \in SUBSET Flags, NEW mode
  PROVE  Sbc(a, v, p, mode).a \in Byte /\ Sbc(a, v, p, mode).p \in SUBSET Flags
<1> DEFINE borrow == IF "c" \in p THEN 0 ELSE 1
           diff == CASE mode = "IMM"                  -> a - v - 1
                     [] mode \in {"ZP", "ZPX", "ABS"} -> a - v
                     [] OTHER                         -> a - v - borrow
           res == U8(a - v - borrow)
           under == diff < 0
           q == IF under THEN p \cup {"c", "v"} ELSE p
           neg == IF mode = "IDX" THEN under \/ Bit7(diff) ELSE Bit7(U8(diff))
           r == IF under THEN U8(res - v - 255) ELSE res
<1>1. Sbc(a, v, p, mode) = [a |-> r, p |-> Assign(Assign(q, "n", neg), "z", diff = 0)]
  BY DEF Sbc
<1>2. r \in Byte
  <2>1. a \in Int /\ v \in Int /\ borrow \in Int
    BY Widths
  <2> HIDE DEF borrow
  <2>2. res \in Byte
    BY <2>1, Mod8 DEF U8
  <2> HIDE DEF res, diff
  <2>3. res - v - 255 \in Int
    BY <2>1, <2>2, Widths
  <2> QED
    BY <2>2, <2>3, Mod8 DEF U8
<1>3. q \in SUBSET Flags /\ "n" \in Flags /\ "z" \in Flags
  BY FlagNames
<1> HIDE DEF r, q, neg, diff
<1>4. Assign(Assign(q, "n", neg), "z", diff = 0) \in SUBSET Flags
  <2>1. Assign(q, "n", neg) \in SUBSET Flags
    BY <1>3, AssignFlags
  <2> QED
    BY <1>3, <2>1, AssignFlags
<1> QED
  BY <1>1, <1>2, <1>4

LEMMA CompareFlags ==
  ASSUME NEW r, NEW v, NEW p \in SUBSET Flags
  PROVE  Compare(r, v, p) \in SUBSET Flags
<1> DEFINE q == IF r >= v THEN p \cup {"c"} ELSE p
           neg == r < v \/ Bit7(r - v)
           zero == r = v
<1>1. q \in SUBSET Flags /\ "n" \in Flags /\ "z" \in Flags
  BY FlagNames
<1>2. Compare(r, v, p) = Assign(Assign(q, "n", neg), "z", zero)
  BY DEF Compare
<1> HIDE DEF q, neg, zero
<1> QED
  BY <1>1, <1>2, AssignFlags

LEMMA BitTestFlags ==
  ASSUME NEW a, NEW v, NEW p \in SUBSET Flags
  PROVE  BitTest(a, v, p) \in SUBSET Flags
<1> DEFINE zero == BitAnd(v, a) # 0
           neg == Bit7(v)
           over == 6 \in Bits(v)
<1>1. "n" \in Flags /\ "z" \in Flags /\ "v" \in Flags
  BY FlagNames
<1>2. BitTest(a, v, p) = Assign(Assign(Assign(p, "z", zero), "n", neg), "v", over)
  BY DEF BitTest
<1> HIDE DEF zero, neg, over
<1> QED
  BY <1>1, <1>2, AssignFlags

LEMMA ShiftTypes ==
  ASSUME NEW op \in {"ASL", "LSR", "ROL", "ROR"}, NEW v \in Byte, NEW p \in SUBSET Flags
  PROVE  /\ Shifted(op, v, p) \in Byte
         /\ \A inMemory \in BOOLEAN : ShiftFlags(op, v, Shifted(op, v, p), p, inMemory) \in SUBSET Flags
<1>1. Shifted(op, v, p) \in Byte
  <2>1. v \in Int /\ 0 <= v /\ v < 256
    BY IsByte
  <2>2. v \div 2 \in Int /\ 0 <= v \div 2 /\ v \div 2 < 128
    BY <2>1
  <2>3. CASE op = "ASL"
    BY <2>1, <2>3, Mod8 DEF Shifted, U8
  <2>4. CASE op = "LSR"
    BY <2>2, <2>4, IsByte DEF Shifted
  <2>5. CASE op = "ROR"
    BY <2>2, <2>5, IsByte DEF Shifted
  <2>6. CASE op = "ROL"
    <3>1. (2 * v) % 256 \in Int /\ 0 <= (2 * v) % 256 /\ (2 * v) % 256 < 255
      BY <2>1
    <3> DEFINE w == (2 * v) % 256
    <3>2. Shifted(op, v, p) = IF "c" \in p THEN w + 1 ELSE BitAnd(w, 253)
      BY <2>6 DEF Shifted, U8
    <3> HIDE DEF w
    <3>3. w + 1 \in Byte
      BY <3>1, IsByte DEF w
    <3> QED
      BY <3>2, <3>3, BitOpsByte
  <2> QED
    BY <2>3, <2>4, <2>5, <2>6
<1>2. ASSUME NEW inMemory \in BOOLEAN, NEW r
      PROVE  ShiftFlags(op, v, r, p, inMemory) \in SUBSET Flags
  <2> DEFINE carry == IF op \in {"ASL", "ROL"} THEN Bit7(v) ELSE v % 2 = 1
             q == Assign(p, "c", carry)
  <2>1. "c" \in Flags /\ "n" \in Flags
    BY FlagNames
  <2> HIDE DEF carry
  <2>2. q \in SUBSET Flags
    BY <2>1, AssignFlags
  <2>3. \/ ShiftFlags(op, v, r, p, inMemory) = StickyZ(q, r)
        \/ ShiftFlags(op, v, r, p, inMemory) = StickyZ(q, r) \cup {f \in {"n"} : Bit7(v)}
        \/ ShiftFlags(op, v, r, p, inMemory) = StickyZN(q, r)
    BY DEF ShiftFlags, carry
  <2> HIDE DEF q
  <2>4. StickyZ(q, r) \in SUBSET Flags /\ StickyZN(q, r) \in SUBSET Flags
    BY <2>2, ZNFlags
  <2> QED
    BY <2>1, <2>3, <2>4
<1> QED
  BY <1>1, <1>2

LEMMA LogicTypes ==
  ASSUME NEW op, NEW a, NEW v \in Byte, NEW mode, NEW p \in SUBSET Flags, NEW r
  PROVE  /\ Logic(op, a, v, mode) \in Byte
         /\ LogicFlags(op, r, p, mode) \in SUBSET Flags
         /\ LoadFlags(op, r, p) \in SUBSET Flags
<1>1. Logic(op, a, v, mode) \in Byte
  BY BitOpsByte DEF Logic
<1>2. LogicFlags(op, r, p, mode) \in SUBSET Flags
  BY ZNFlags DEF LogicFlags
<1>3. LoadFlags(op, r, p) \in SUBSET Flags
  BY ZNFlags DEF LoadFlags
<1> QED
  BY <1>1, <1>2, <1>3

LEMMA FlagOpTypes ==
  ASSUME NEW op \in {"CLC", "SEC", "CLI", "SEI", "CLD", "SED", "CLV"}, NEW p \in SUBSET Flags
  PROVE  FlagOp(op, p) \in SUBSET Flags
BY FlagNames DEF FlagOp

LEMMA IncDecByte == \A op : \A n \in Byte : IncDec(op, n) \in Byte
<1> SUFFICES ASSUME NEW op, NEW n \in Byte PROVE IncDec(op, n) \in Byte
  OBVIOUS
<1>1. n + 1 \in Int /\ n - 1 \in Int
  BY Widths
<1> QED
  BY <1>1, Mod8 DEF IncDec, U8

LEMMA LengthInt == \A op, mode : Length(op, mode) \in Int
BY DEF Length

LEMMA DisplacementInt == \A v \in Byte : Displacement(v) \in Int
BY Widths DEF Displacement

LEMMA CyclesRange == \A opcode \in Byte : CyclesOf(opcode) \in 2..8
<1> SUFFICES ASSUME NEW opcode \in Byte PROVE CyclesOf(opcode) \in 2..8
  OBVIOUS
<1>1. 1 + (opcode \div 16) \in 1..16 /\ 1 + (opcode % 16) \in 1..16
  BY IsByte
<1>2. \A r \in 1..16 : \A i \in 1..16 : instr_cycles[r][i] \in 2..8
  BY DEF instr_cycles
<1> QED
  BY <1>1, <1>2 DEF CyclesOf

-----------------------------------------------------------------------------
(* The dispatch table, as far as types go: the handlers that write to      *)
(* memory have a mode that says where.                                     *)
MemModes  == {"ZP", "ZPX", "ZPY", "ABS", "ABSX", "ABSY", "IDX", "IDR"}
Shifts    == {"ASL", "LSR", "ROL", "ROR"}
Writers   == {"STA", "STX", "STY", "INC", "DEC"} \cup Shifts
WellModed(op, mode) == op \in Writers => mode \in MemModes \/ (op \in Shifts /\ mode = "IMP")
Modest(S) == \A e \in S : WellModed(e[2], e[3])

LEMMA TableModed == Modest(LookupEntries)
<1> USE DEF Modest, WellModed, Writers, Shifts, MemModes
<1>1. Modest(AluEntries)
  BY DEF AluEntries, Entries, AluModes
<1>2. Modest(RmwEntries)
  BY DEF RmwEntries, Entries, RmwModes, Implied
<1>3. Modest(IndexEntries)
  BY DEF IndexEntries, Entries
<1>4. Modest(FlowEntries)
  BY DEF FlowEntries, Entries, Relative, Implied
<1>5. Modest(RegisterEntries)
  BY DEF RegisterEntries, Implied
<1> HIDE DEF WellModed, Writers, Shifts, MemModes
<1> QED
  BY <1>1, <1>2, <1>3, <1>4, <1>5 DEF LookupEntries

LEMMA OpcodeModed ==
  ASSUME NEW code \in DOMAIN lookup
  PROVE  WellModed(lookup[code][1], lookup[code][2])
<1> DEFINE found == CHOOSE e \in LookupEntries : e[1] = code
<1>1. lookup[code] = <<found[2], found[3]>> /\ \E e \in LookupEntries : e[1] = code
  BY DEF lookup
<1>2. found \in LookupEntries
  BY <1>1
<1> HIDE DEF found
<1>3. WellModed(found[2], found[3])
  BY <1>2, TableModed DEF Modest
<1> QED
  BY <1>1, <1>3

-----------------------------------------------------------------------------
(* One step of the CPU.                                                    *)
LEMMA RegTypes ==
  ASSUME NEW r \in Regs
  PROVE  /\ r.a \in Byte /\ r.x \in Byte /\ r.y \in Byte /\ r.sp \in Byte
         /\ r.pc \in Word /\ r.p \in SUBSET Flags /\ r.intr \in {"none", "irq", "nmi"}
         /\ r.a \in Int /\ r.x \in Int /\ r.y \in Int /\ r.sp \in Int /\ r.pc \in Int
<1>1. /\ r.a \in Byte /\ r.x \in Byte /\ r.y \in Byte /\ r.sp \in Byte
      /\ r.pc \in Word /\ r.p \in SUBSET Flags /\ r.intr \in {"none", "irq", "nmi"}
  BY DEF Regs
<1> QED
  BY <1>1, Widths

LEMMA ReadTypes ==
  ASSUME TypeOK
  PROVE  /\ Memory(mem) /\ cpu \in Regs
         /\ \A ad : Rd(ad) \in Byte
         /\ Opcode \in Byte /\ Operand \in Byte /\ Operand16 \in Word /\ Value \in Byte
         /\ IdxAddr \in Word /\ IdrAddr \in Word
         /\ NextPc \in Word
<1>1. Memory(mem) /\ cpu \in Regs
  BY DEF TypeOK, Memory
<1>2. \A ad : Rd(ad) \in Byte
  BY <1>1, ReadByte DEF Rd
<1>3. Opcode \in Byte /\ Operand \in Byte /\ Value \in Byte /\ Operand16 \in Word
  BY <1>2, WordOf DEF Opcode, Operand, Operand16, Value
<1>4. IdrAddr \in Word
  BY <1>2, WordOf DEF IdrAddr
<1>5. IdxAddr \in Word
  <2>1. Operand + cpu.x \in Int
    BY <1>1, <1>3, Widths, RegTypes
  <2>2. U8(Operand + cpu.x) \in Byte
    BY <2>1, U8Byte
  <2>3. U8(U8(Operand + cpu.x) + 1) \in Byte
    <3> DEFINE n == U8(Operand + cpu.x)
    <3>1. n \in Int
      BY <2>2, Widths
    <3> HIDE DEF n
    <3>2. U8(n + 1) \in Byte
      BY <3>1, U8Byte
    <3> QED
      BY <3>2 DEF n
  <2> QED
    BY <2>2, <2>3, WordOf DEF IdxAddr
<1>6. NextPc \in Word
  <2>1. cpu.pc \in Int /\ Length(Op, Mode) \in Int
    BY <1>1, RegTypes, LengthInt
  <2>2. cpu.pc + Length(Op, Mode) \in Int
    BY <2>1
  <2> QED
    BY <2>2, U16Word DEF NextPc
<1> QED
  BY <1>1, <1>2, <1>3, <1>4, <1>5, <1>6

LEMMA SourceWord ==
  ASSUME TypeOK, Mode \in MemModes
  PROVE  Source \in Word
<1>1. /\ cpu \in Regs /\ Operand \in Byte /\ Operand16 \in Word
      /\ IdxAddr \in Word /\ IdrAddr \in Word
  BY ReadTypes
<1>2. /\ Operand + cpu.x \in Word /\ Operand + cpu.y \in Word /\ Operand \in Word
      /\ Operand16 - cpu.x \in Int /\ Operand16 + cpu.x \in Int
      /\ Operand16 - cpu.y \in Int /\ Operand16 + cpu.y \in Int
  <2>1. cpu.x \in Byte /\ cpu.y \in Byte
    BY <1>1, RegTypes
  <2> QED
    BY <1>1, <2>1, IsByte, IsWord
<1>3. CASE Mode \in {"ABSX", "ABSY"}
  BY <1>2, <1>3, U16Word DEF Source
<1>4. CASE Mode = "IDR"
  <2> DEFINE low == Lo(IdrAddr)
             lo == low + cpu.y
  <2>1. low \in Int /\ cpu.y \in Int
    BY <1>1, LoHi, Widths, RegTypes
  <2>2. lo \in Int
    <3> HIDE DEF low
    <3> QED
      BY <2>1
  <2>3. MakeWord(BitOr(Hi(IdrAddr), Hi(lo)), Lo(lo)) \in Word
    BY <2>2, BitOpsByte, LoHi, WordOf
  <2>4. Source = IF Op # "LDA" THEN IdrAddr ELSE MakeWord(BitOr(Hi(IdrAddr), Hi(lo)), Lo(lo))
    BY <1>4 DEF Source
  <2> QED
    BY <1>1, <2>3, <2>4
<1>5. CASE Mode \in {"ZP", "ZPX", "ZPY", "ABS", "IDX"}
  BY <1>1, <1>2, <1>5 DEF Source
<1> QED
  BY <1>3, <1>4, <1>5 DEF MemModes

LEMMA TargetWord ==
  ASSUME TypeOK, Mode \in MemModes
  PROVE  Target \in Word
<1>1. Source \in Word /\ Operand \in Word
  BY SourceWord, ReadTypes, Widths
<1>2. Lo(IdxAddr) \in Word
  BY ReadTypes, LoHi, Widths
<1> QED
  BY <1>1, <1>2 DEF Target

(* What every handler does to the status and the clock                     *)
LEMMA InstrTypes ==
  ASSUME TypeOK, NEW ops, Instr(ops)
  PROVE  /\ status' \in {"off", "running", "exited", "crashed"} /\ elapsed' \in 0..8
         /\ status = "running" /\ Op \in ops /\ Opcode \in DOMAIN lookup
<1>1. CyclesOf(Opcode) \in 2..8
  BY ReadTypes, CyclesRange
<1> QED
  BY <1>1 DEF Instr, TypeOK

LEMMA WriterWord ==
  ASSUME TypeOK, NEW ops, Instr(ops), ops \subseteq Writers, Mode # "IMP" \/ ops \cap Shifts = {}
  PROVE  Target \in Word
<1>1. Op \in ops /\ WellModed(Op, Mode)
  BY OpcodeModed DEF Instr, Op, Mode
<1>2. Mode \in MemModes
  BY <1>1 DEF WellModed
<1> QED
  BY <1>2, TargetWord

(* TypeOK from the parts a handler changes                                 *)
LEMMA Typed ==
  ASSUME TypeOK, NEW ops, Instr(ops), cpu' \in Regs, Memory(mem')
  PROVE  TypeOK'
BY InstrTypes DEF TypeOK, Memory

-----------------------------------------------------------------------------
(* The handlers, one lemma each or one for a few that are alike            *)
LEMMA LoadTypes ==
  ASSUME TypeOK, Load
  PROVE  TypeOK'
<1> DEFINE q == LoadFlags(Op, Value, cpu.p)
           v == Value
           n == NextPc
<1>1. Instr({"LDA", "LDX", "LDY"}) /\ mem' = mem
  BY DEF Load
<1>2. cpu' = CASE Op = "LDA" -> [cpu EXCEPT !.a = v, !.p = q, !.pc = n]
               [] Op = "LDX" -> [cpu EXCEPT !.x = v, !.p = q, !.pc = n]
               [] Op = "LDY" -> [cpu EXCEPT !.y = v, !.p = q, !.pc = n]
  BY DEF Load
<1>3. v \in Byte /\ n \in Word /\ cpu \in Regs /\ Memory(mem)
  BY ReadTypes
<1>4. q \in SUBSET Flags
  BY <1>3, RegTypes, LogicTypes
<1>5. Op \in {"LDA", "LDX", "LDY"}
  BY <1>1, InstrTypes
<1> HIDE DEF q, v, n
<1>6. cpu' \in Regs
  BY <1>2, <1>3, <1>4, <1>5 DEF Regs
<1> QED
  BY <1>1, <1>3, <1>6, Typed

LEMMA StoreTypes ==
  ASSUME TypeOK, Store
  PROVE  TypeOK'
<1> DEFINE v == CASE Op = "STA" -> cpu.a [] Op = "STX" -> cpu.x [] Op = "STY" -> cpu.y
           n == NextPc
           t == Target
<1>1. Instr({"STA", "STX", "STY"}) /\ mem' = MemWrite(mem, t, v) /\ cpu' = [cpu EXCEPT !.pc = n]
  BY DEF Store
<1>2. n \in Word /\ cpu \in Regs /\ Memory(mem)
  BY ReadTypes
<1>3. Op \in {"STA", "STX", "STY"}
  BY <1>1, InstrTypes
<1>4. v \in Byte
  BY <1>2, <1>3, RegTypes
<1>5. t \in Word
  <2>1. {"STA", "STX", "STY"} \subseteq Writers /\ {"STA", "STX", "STY"} \cap Shifts = {}
    BY DEF Writers, Shifts
  <2> QED
    BY <1>1, <2>1, WriterWord
<1> HIDE DEF v, n, t
<1>6. cpu' \in Regs
  BY <1>1, <1>2 DEF Regs
<1>7. Memory(mem')
  BY <1>1, <1>2, <1>4, <1>5, WriteKeeps
<1> QED
  BY <1>1, <1>6, <1>7, Typed

LEMMA LogicOpTypes ==
  ASSUME TypeOK, LogicOp
  PROVE  TypeOK'
<1> DEFINE r == Logic(Op, cpu.a, Value, Mode)
           q == LogicFlags(Op, r, cpu.p, Mode)
           n == NextPc
<1>1. Instr({"AND", "ORA", "EOR"}) /\ mem' = mem /\ cpu' = [cpu EXCEPT !.a = r, !.p = q, !.pc = n]
  BY DEF LogicOp
<1>2. Value \in Byte /\ n \in Word /\ cpu \in Regs /\ Memory(mem)
  BY ReadTypes
<1>3. r \in Byte /\ q \in SUBSET Flags
  BY <1>2, RegTypes, LogicTypes
<1> HIDE DEF r, q, n
<1>4. cpu' \in Regs
  BY <1>1, <1>2, <1>3 DEF Regs
<1> QED
  BY <1>1, <1>2, <1>4, Typed

LEMMA AddSubTypes ==
  ASSUME TypeOK, AddSub
  PROVE  TypeOK'
<1> DEFINE r == IF Op = "ADC" THEN Adc(cpu.a, Value, cpu.p) ELSE Sbc(cpu.a, Value, cpu.p, Mode)
           n == NextPc
<1>1. Instr({"ADC", "SBC"}) /\ mem' = mem /\ cpu' = [cpu EXCEPT !.a = r.a, !.p = r.p, !.pc = n]
  BY DEF AddSub
<1>2. Value \in Byte /\ n \in Word /\ cpu \in Regs /\ Memory(mem)
  BY ReadTypes
<1>3. r.a \in Byte /\ r.p \in SUBSET Flags
  <2>1. cpu.a \in Byte /\ cpu.p \in SUBSET Flags
    BY <1>2, RegTypes
  <2> QED
    BY <1>2, <2>1, AdcTypes, SbcTypes
<1> HIDE DEF r, n
<1>4. cpu' \in Regs
  BY <1>1, <1>2, <1>3 DEF Regs
<1> QED
  BY <1>1, <1>2, <1>4, Typed

LEMMA CompareOpTypes ==
  ASSUME TypeOK, CompareOp
  PROVE  TypeOK'
<1> DEFINE r == CASE Op = "CMP" -> cpu.a [] Op = "CPX" -> cpu.x [] Op = "CPY" -> cpu.y
           q == Compare(r, Value, cpu.p)
           n == NextPc
<1>1. Instr({"CMP", "CPX", "CPY"}) /\ mem' = mem /\ cpu' = [cpu EXCEPT !.p = q, !.pc = n]
  BY DEF CompareOp
<1>2. n \in Word /\ cpu \in Regs /\ Memory(mem)
  BY ReadTypes
<1>3. q \in SUBSET Flags
  BY <1>2, RegTypes, CompareFlags
<1> HIDE DEF q, n
<1>4. cpu' \in Regs
  BY <1>1, <1>2, <1>3 DEF Regs
<1> QED
  BY <1>1, <1>2, <1>4, Typed

LEMMA BitOpTypes ==
  ASSUME TypeOK, BitOp
  PROVE  TypeOK'
<1> DEFINE q == BitTest(cpu.a, Value, cpu.p)
           n == NextPc
<1>1. Instr({"BIT"}) /\ mem' = mem /\ cpu' = [cpu EXCEPT !.p = q, !.pc = n]
  BY DEF BitOp
<1>2. n \in Word /\ cpu \in Regs /\ Memory(mem)
  BY ReadTypes
<1>3. q \in SUBSET Flags
  BY <1>2, RegTypes, BitTestFlags
<1> HIDE DEF q, n
<1>4. cpu' \in Regs
  BY <1>1, <1>2, <1>3 DEF Regs
<1> QED
  BY <1>1, <1>2, <1>4, Typed

LEMMA ShiftAccTypes ==
  ASSUME TypeOK, ShiftAcc
  PROVE  TypeOK'
<1> DEFINE r == Shifted(Op, cpu.a, cpu.p)
           q == ShiftFlags(Op, cpu.a, r, cpu.p, FALSE)
           n == NextPc
<1>1. /\ Instr({"ASL", "LSR", "ROL", "ROR"}) /\ mem' = mem
      /\ cpu' = [cpu EXCEPT !.a = r, !.p = q, !.pc = n]
  BY DEF ShiftAcc
<1>2. n \in Word /\ cpu \in Regs /\ Memory(mem)
  BY ReadTypes
<1>3. r \in Byte /\ q \in SUBSET Flags
  <2>1. Op \in {"ASL", "LSR", "ROL", "ROR"} /\ cpu.a \in Byte /\ cpu.p \in SUBSET Flags
    BY <1>1, <1>2, RegTypes, InstrTypes
  <2> QED
    BY <2>1, ShiftTypes
<1> HIDE DEF r, q, n
<1>4. cpu' \in Regs
  BY <1>1, <1>2, <1>3 DEF Regs
<1> QED
  BY <1>1, <1>2, <1>4, Typed

LEMMA ShiftMemTypes ==
  ASSUME TypeOK, ShiftMem
  PROVE  TypeOK'
<1> DEFINE r == Shifted(Op, Value, cpu.p)
           q == ShiftFlags(Op, Value, r, cpu.p, TRUE)
           n == NextPc
           t == Target
<1>1. /\ Instr({"ASL", "LSR", "ROL", "ROR"}) /\ mem' = MemWrite(mem, t, r) /\ Mode # "IMP"
      /\ cpu' = [cpu EXCEPT !.p = q, !.pc = n]
  BY DEF ShiftMem
<1>2. Value \in Byte /\ n \in Word /\ cpu \in Regs /\ Memory(mem)
  BY ReadTypes
<1>3. r \in Byte /\ q \in SUBSET Flags
  <2>1. Op \in {"ASL", "LSR", "ROL", "ROR"} /\ cpu.p \in SUBSET Flags
    BY <1>1, <1>2, RegTypes, InstrTypes
  <2> QED
    BY <1>2, <2>1, ShiftTypes
<1>4. t \in Word
  <2>1. {"ASL", "LSR", "ROL", "ROR"} \subseteq Writers
    BY DEF Writers, Shifts
  <2> QED
    BY <1>1, <2>1, WriterWord
<1> HIDE DEF r, q, n, t
<1>5. cpu' \in Regs
  BY <1>1, <1>2, <1>3 DEF Regs
<1>6. Memory(mem')
  BY <1>1, <1>2, <1>3, <1>4, WriteKeeps
<1> QED
  BY <1>1, <1>5, <1>6, Typed

LEMMA IncDecMemTypes ==
  ASSUME TypeOK, IncDecMem
  PROVE  TypeOK'
<1> DEFINE r == IncDec(Op, Value)
           q == ExactZN(cpu.p, r)
           n == NextPc
           t == Target
<1>1. /\ Instr({"INC", "DEC"}) /\ mem' = MemWrite(mem, t, r)
      /\ cpu' = [cpu EXCEPT !.p = q, !.pc = n]
  BY DEF IncDecMem
<1>2. Value \in Byte /\ n \in Word /\ cpu \in Regs /\ Memory(mem)
  BY ReadTypes
<1>3. r \in Byte /\ q \in SUBSET Flags
  BY <1>2, RegTypes, IncDecByte, ZNFlags
<1>4. t \in Word
  <2>1. {"INC", "DEC"} \subseteq Writers /\ {"INC", "DEC"} \cap Shifts = {}
    BY DEF Writers, Shifts
  <2> QED
    BY <1>1, <2>1, WriterWord
<1> HIDE DEF r, q, n, t
<1>5. cpu' \in Regs
  BY <1>1, <1>2, <1>3 DEF Regs
<1>6. Memory(mem')
  BY <1>1, <1>2, <1>3, <1>4, WriteKeeps
<1> QED
  BY <1>1, <1>5, <1>6, Typed

LEMMA IncDecRegTypes ==
  ASSUME TypeOK, IncDecReg
  PROVE  TypeOK'
<1> DEFINE r == IncDec(Op, IF Op \in {"INX", "DEX"} THEN cpu.x ELSE cpu.y)
           q == ExactZN(cpu.p, r)
           n == NextPc
<1>1. /\ Instr({"INX", "INY", "DEX", "DEY"}) /\ mem' = mem
      /\ cpu' = IF Op \in {"INX", "DEX"}
                THEN [cpu EXCEPT !.x = r, !.p = q, !.pc = n]
                ELSE [cpu EXCEPT !.y = r, !.p = q, !.pc = n]
  BY DEF IncDecReg
<1>2. n \in Word /\ cpu \in Regs /\ Memory(mem)
  BY ReadTypes
<1>3. r \in Byte /\ q \in SUBSET Flags
  BY <1>2, RegTypes, IncDecByte, ZNFlags
<1> HIDE DEF r, q, n
<1>4. cpu' \in Regs
  BY <1>1, <1>2, <1>3 DEF Regs
<1> QED
  BY <1>1, <1>2, <1>4, Typed

LEMMA TransferTypes ==
  ASSUME TypeOK, Transfer
  PROVE  TypeOK'
<1> DEFINE n == NextPc
           t == [cpu EXCEPT !.pc = n]
           s(v) == StickyZN(cpu.p, v)
           e(v) == ExactZN(cpu.p, v)
<1>1. Instr({"TAX", "TAY", "TXA", "TYA", "TSX", "TXS"}) /\ mem' = mem
  BY DEF Transfer
<1>2. cpu' = CASE Op = "TAX" -> [t EXCEPT !.x = cpu.a, !.p = s(cpu.a)]
               [] Op = "TAY" -> [t EXCEPT !.y = cpu.a, !.p = s(cpu.a)]
               [] Op = "TXA" -> [t EXCEPT !.a = cpu.x, !.p = s(cpu.x)]
               [] Op = "TYA" -> [t EXCEPT !.a = cpu.y, !.p = s(cpu.y)]
               [] Op = "TSX" -> [t EXCEPT !.x = cpu.sp, !.p = e(cpu.sp)]
               [] Op = "TXS" -> [t EXCEPT !.sp = cpu.x]
  BY DEF Transfer
<1>3. n \in Word /\ cpu \in Regs /\ Memory(mem)
  BY ReadTypes
<1>4. \A v : s(v) \in SUBSET Flags /\ e(v) \in SUBSET Flags
  BY <1>3, RegTypes, ZNFlags
<1>5. Op \in {"TAX", "TAY", "TXA", "TYA", "TSX", "TXS"}
  BY <1>1, InstrTypes
<1> HIDE DEF n, s, e
<1>6. t \in Regs
  BY <1>3 DEF Regs
<1>7. cpu.a \in Byte /\ cpu.x \in Byte /\ cpu.y \in Byte /\ cpu.sp \in Byte
  BY <1>3, RegTypes
<1> HIDE DEF t
<1>8. cpu' \in Regs
  BY <1>2, <1>4, <1>5, <1>6, <1>7 DEF Regs
<1> QED
  BY <1>1, <1>3, <1>8, Typed

LEMMA FlagNopTypes ==
  ASSUME TypeOK, SetFlag \/ Nop
  PROVE  TypeOK'
<1> DEFINE q == FlagOp(Op, cpu.p)
           n == NextPc
<1>1. n \in Word /\ cpu \in Regs /\ Memory(mem)
  BY ReadTypes
<1>2. CASE SetFlag
  <2>1. /\ Instr({"CLC", "SEC", "CLI", "SEI", "CLD", "SED", "CLV"}) /\ mem' = mem
        /\ cpu' = [cpu EXCEPT !.p = q, !.pc = n]
    BY <1>2 DEF SetFlag
  <2>2. q \in SUBSET Flags
    <3>1. Op \in {"CLC", "SEC", "CLI", "SEI", "CLD", "SED", "CLV"} /\ cpu.p \in SUBSET Flags
      BY <1>1, <2>1, RegTypes, InstrTypes
    <3> QED
      BY <3>1, FlagOpTypes
  <2> HIDE DEF q, n
  <2>3. cpu' \in Regs
    BY <1>1, <2>1, <2>2 DEF Regs
  <2> QED
    BY <1>1, <2>1, <2>3, Typed
<1>3. CASE Nop
  <2>1. Instr({"NOP"}) /\ mem' = mem /\ cpu' = [cpu EXCEPT !.pc = n]
    BY <1>3 DEF Nop
  <2> HIDE DEF q, n
  <2>2. cpu' \in Regs
    BY <1>1, <2>1 DEF Regs
  <2> QED
    BY <1>1, <2>1, <2>2, Typed
<1> QED
  BY <1>2, <1>3

LEMMA FlowTypes ==
  ASSUME TypeOK, Branch \/ Jump
  PROVE  TypeOK'
<1>1. cpu \in Regs /\ Memory(mem) /\ Operand \in Byte /\ Operand16 \in Word
  BY ReadTypes
<1>2. CASE Branch
  <2> DEFINE d == IF BranchTaken(Op, cpu.p) THEN Displacement(Operand) ELSE 0
             n == U16(cpu.pc + 2 + d)
  <2>1. /\ Instr({"BPL", "BMI", "BVC", "BVS", "BCC", "BCS", "BNE", "BEQ"}) /\ mem' = mem
        /\ cpu' = [cpu EXCEPT !.pc = n]
    BY <1>2 DEF Branch
  <2>2. d \in Int /\ cpu.pc \in Int
    BY <1>1, DisplacementInt, RegTypes
  <2> HIDE DEF d
  <2>3. cpu.pc + 2 + d \in Int
    BY <2>2
  <2>4. n \in Word
    BY <2>3, U16Word
  <2> HIDE DEF n
  <2>5. cpu' \in Regs
    BY <1>1, <2>1, <2>4 DEF Regs
  <2> QED
    BY <1>1, <2>1, <2>5, Typed
<1>3. CASE Jump
  <2> DEFINE n == IF Mode = "ABS" THEN Operand16 ELSE Read16(mem, Operand16)
  <2>1. Instr({"JMP"}) /\ mem' = mem /\ cpu' = [cpu EXCEPT !.pc = n]
    BY <1>3 DEF Jump
  <2>2. n \in Word
    BY <1>1, Read16Word
  <2> HIDE DEF n
  <2>3. cpu' \in Regs
    BY <1>1, <2>1, <2>2 DEF Regs
  <2> QED
    BY <1>1, <2>1, <2>3, Typed
<1> QED
  BY <1>2, <1>3

(* The addresses a push uses                                               *)
LEMMA StackAddress ==
  ASSUME NEW s \in Byte
  PROVE  /\ 256 + s \in Word /\ (256 + s) - 1 \in Word /\ s \in Word
         /\ U8(s - 1) \in Byte /\ U8(s - 2) \in Byte /\ U8(s - 3) \in Byte
         /\ U8(s + 1) \in Byte /\ U8(s + 2) \in Byte
         /\ U8((256 + s) - 2) = U8(s - 2) /\ U8((256 + s) + 2) = U8(s + 2)
<1>1. s \in Int /\ 0 <= s /\ s < 256
  BY IsByte
<1>2. 256 + s \in Word /\ (256 + s) - 1 \in Word /\ s \in Word
  BY <1>1, IsWord
<1>3. /\ U8(s - 1) \in Byte /\ U8(s - 2) \in Byte /\ U8(s - 3) \in Byte
      /\ U8(s + 1) \in Byte /\ U8(s + 2) \in Byte
  BY <1>1, IsByte DEF U8
<1>4. U8((256 + s) - 2) = U8(s - 2)
  BY <1>1 DEF U8
<1>5. U8((256 + s) + 2) = U8(s + 2)
  BY <1>1 DEF U8
<1> QED
  BY <1>2, <1>3, <1>4, <1>5

LEMMA JsrTypes ==
  ASSUME TypeOK, Jsr
  PROVE  TypeOK'
<1> DEFINE ret == U16(cpu.pc + 3)
           top == 256 + cpu.sp
           h == Hi(ret)
           l == Lo(ret)
           m == MemWrite(MemWrite(mem, top, h), top - 1, l)
           s == U8(top - 2)
           n == MakeWord(MemRead(m, U16(cpu.pc + 2)), MemRead(m, U16(cpu.pc + 1)))
<1>1. Instr({"JSR"}) /\ mem' = m /\ cpu' = [cpu EXCEPT !.sp = s, !.pc = n]
  BY DEF Jsr
<1>2. cpu \in Regs /\ Memory(mem)
  BY ReadTypes
<1>3. h \in Byte /\ l \in Byte
  <2>1. cpu.pc + 3 \in Int
    BY <1>2, RegTypes
  <2>2. ret \in Int
    BY <2>1, U16Word, Widths
  <2> QED
    BY <2>2, LoHi
<1>4. top \in Word /\ top - 1 \in Word /\ s \in Byte
  BY <1>2, RegTypes, StackAddress
<1> HIDE DEF ret, top, h, l, s
<1>5. Memory(m)
  BY <1>2, <1>3, <1>4, WriteKeeps
<1> HIDE DEF m
<1>6. n \in Word
  BY <1>5, ReadByte, WordOf
<1> HIDE DEF n
<1>7. cpu' \in Regs
  BY <1>1, <1>2, <1>4, <1>6 DEF Regs
<1> QED
  BY <1>1, <1>5, <1>7, Typed

LEMMA RtsTypes ==
  ASSUME TypeOK, Rts
  PROVE  TypeOK'
<1> DEFINE top == 256 + cpu.sp
           s == U8(top + 2)
           n == MakeWord(Rd(top + 2), Rd(top + 1))
<1>1. Instr({"RTS"}) /\ mem' = mem /\ cpu' = [cpu EXCEPT !.pc = n, !.sp = s]
  BY DEF Rts
<1>2. cpu \in Regs /\ Memory(mem) /\ n \in Word
  BY ReadTypes, WordOf
<1>3. s \in Byte
  BY <1>2, RegTypes, StackAddress
<1> HIDE DEF s, n
<1>4. cpu' \in Regs
  BY <1>1, <1>2, <1>3 DEF Regs
<1> QED
  BY <1>1, <1>2, <1>4, Typed

LEMMA PushTypes ==
  ASSUME TypeOK, Push
  PROVE  TypeOK'
<1> DEFINE v == IF Op = "PHA" THEN cpu.a ELSE PVal(cpu.p)
           ad == 256 + cpu.sp
           s == U8(cpu.sp - 1)
           n == NextPc
<1>1. /\ Instr({"PHA", "PHP"}) /\ mem' = MemWrite(mem, ad, v)
      /\ cpu' = [cpu EXCEPT !.sp = s, !.pc = n]
  BY DEF Push
<1>2. cpu \in Regs /\ Memory(mem) /\ n \in Word
  BY ReadTypes
<1>3. ad \in Word /\ s \in Byte /\ v \in Byte
  BY <1>2, RegTypes, StackAddress, ValByte
<1> HIDE DEF v, ad, s, n
<1>4. cpu' \in Regs
  BY <1>1, <1>2, <1>3 DEF Regs
<1>5. Memory(mem')
  BY <1>1, <1>2, <1>3, WriteKeeps
<1> QED
  BY <1>1, <1>4, <1>5, Typed

LEMMA PullTypes ==
  ASSUME TypeOK, Pull
  PROVE  TypeOK'
<1> DEFINE v == Rd(256 + cpu.sp + 1)
           s == U8(cpu.sp + 1)
           n == NextPc
           q == StickyZN(cpu.p, v)
           f == PFromVal(v)
           t == [cpu EXCEPT !.sp = s, !.pc = n]
<1>1. /\ Instr({"PLA", "PLP"}) /\ mem' = mem
      /\ cpu' = IF Op = "PLA" THEN [t EXCEPT !.a = v, !.p = q] ELSE [t EXCEPT !.p = f]
  BY DEF Pull
<1>2. cpu \in Regs /\ Memory(mem) /\ n \in Word /\ v \in Byte
  BY ReadTypes
<1>3. s \in Byte
  BY <1>2, RegTypes, StackAddress
<1>4. q \in SUBSET Flags /\ f \in SUBSET Flags
  BY <1>2, RegTypes, ZNFlags, ValFlags
<1> HIDE DEF v, s, n, q, f
<1>5. t \in Regs
  BY <1>2, <1>3 DEF Regs
<1> HIDE DEF t
<1>6. cpu' \in Regs
  BY <1>1, <1>2, <1>4, <1>5 DEF Regs
<1> QED
  BY <1>1, <1>2, <1>6, Typed

LEMMA BrkTypes ==
  ASSUME TypeOK, Brk
  PROVE  TypeOK'
<1> DEFINE ret == U16(cpu.pc + 2)
           s == cpu.sp
           h == Hi(ret)
           l == Lo(ret)
           v == PVal(cpu.p)
           s1 == U8(s - 1)
           s2 == U8(s - 2)
           s3 == U8(s - 3)
           m == MemWrite(MemWrite(MemWrite(mem, s, h), s1, l), s2, v)
           q == cpu.p \cup {"b"}
           vector == \hFFFE
           n == MemRead(m, vector)
<1>1. /\ Instr({"BRK"}) /\ mem' = m
      /\ cpu' = [cpu EXCEPT !.sp = s3, !.p = q, !.pc = n]
  BY DEF Brk
<1>2. cpu \in Regs /\ Memory(mem)
  BY ReadTypes
<1>3. h \in Byte /\ l \in Byte /\ v \in Byte
  <2>1. cpu.pc + 2 \in Int
    BY <1>2, RegTypes
  <2>2. ret \in Int
    BY <2>1, U16Word, Widths
  <2> QED
    BY <2>2, LoHi, ValByte
<1>4. s \in Word /\ s1 \in Word /\ s2 \in Word /\ s3 \in Byte
  BY <1>2, RegTypes, StackAddress, Widths
<1>5. q \in SUBSET Flags
  BY <1>2, RegTypes, FlagNames
<1> HIDE DEF ret, s, h, l, v, s1, s2, s3, q, vector
<1>6. Memory(m)
  <2>1. Memory(MemWrite(mem, s, h))
    BY <1>2, <1>3, <1>4, WriteKeeps
  <2>2. Memory(MemWrite(MemWrite(mem, s, h), s1, l))
    BY <1>3, <1>4, <2>1, WriteKeeps
  <2> QED
    BY <1>3, <1>4, <2>2, WriteKeeps
<1> HIDE DEF m
<1>7. n \in Word
  <2>1. n \in Byte
    BY <1>6, ReadByte
  <2> QED
    BY <2>1, Widths
<1> HIDE DEF n
<1>8. cpu' \in Regs
  BY <1>1, <1>2, <1>4, <1>5, <1>7 DEF Regs
<1> QED
  BY <1>1, <1>6, <1>8, Typed

LEMMA RtiTypes ==
  ASSUME TypeOK, Rti
  PROVE  TypeOK'
<1> DEFINE s == cpu.sp
           s2 == U8(s + 2)
           cond == Rd(s) # 0
           q == Assign(cpu.p, "v", cond)
           n == MakeWord(Rd(s2), Rd(U8(s + 1)))
<1>1. Instr({"RTI"}) /\ mem' = mem /\ cpu' = [cpu EXCEPT !.p = q, !.sp = s2, !.pc = n]
  BY DEF Rti
<1>2. cpu \in Regs /\ Memory(mem) /\ n \in Word
  BY ReadTypes, WordOf
<1>3. s2 \in Byte
  BY <1>2, RegTypes, StackAddress
<1> HIDE DEF cond
<1>4. q \in SUBSET Flags
  BY <1>2, RegTypes, AssignFlags, FlagNames
<1> HIDE DEF s, s2, q, n
<1>5. cpu' \in Regs
  BY <1>1, <1>2, <1>3, <1>4 DEF Regs
<1> QED
  BY <1>1, <1>2, <1>5, Typed

LEMMA ResetRaiseTypes ==
  ASSUME TypeOK, Reset \/ RaiseIrq \/ RaiseNmi \/ CallNull
  PROVE  TypeOK'
<1>1. cpu \in Regs /\ Memory(mem)
  BY ReadTypes
<1>2. CASE Reset
  <2> DEFINE vector == \hFFFC
             flags == \h34
             n == Read16(mem, vector)
             q == PFromVal(flags)
  <2>1. /\ mem' = mem /\ status' = "running" /\ elapsed' = 8
        /\ cpu' = [cpu EXCEPT !.pc = n, !.a = 0, !.x = 0, !.y = 0, !.sp = \hFD, !.p = q]
    BY <1>2 DEF Reset
  <2> HIDE DEF vector, flags
  <2>2. n \in Word /\ q \in SUBSET Flags /\ 0 \in Byte /\ \hFD \in Byte
    BY <1>1, Read16Word, ValFlags, IsByte
  <2> HIDE DEF n, q
  <2>3. cpu' \in Regs
    BY <1>1, <2>1, <2>2 DEF Regs
  <2> QED
    BY <1>1, <2>1, <2>3 DEF TypeOK, Memory
<1>3. CASE RaiseIrq \/ RaiseNmi
  <2>1. /\ UNCHANGED <<mem, status, elapsed>>
        /\ \E i \in {"irq", "nmi"} : cpu' = [cpu EXCEPT !.intr = i]
    BY <1>3 DEF RaiseIrq, RaiseNmi
  <2>2. cpu' \in Regs
    BY <1>1, <2>1 DEF Regs
  <2> QED
    BY <2>1, <2>2 DEF TypeOK
<1>4. CASE CallNull
  BY <1>4 DEF CallNull, TypeOK
<1> QED
  BY <1>2, <1>3, <1>4

-----------------------------------------------------------------------------
(* The paravirtual calls                                                   *)
LEMMA SetAXRegs ==
  ASSUME NEW r \in Regs, NEW w \in Int
  PROVE  SetAX(r, w) \in Regs
<1> DEFINE l == Lo(w)
           h == Hi(w)
<1>1. l \in Byte /\ h \in Byte
  BY LoHi
<1>2. SetAX(r, w) = [r EXCEPT !.a = l, !.x = h]
  BY DEF SetAX
<1> HIDE DEF l, h
<1> QED
  BY <1>1, <1>2 DEF Regs

LEMMA PopTypes ==
  ASSUME NEW m, Memory(m), NEW incr \in Int
  PROVE  PopParm(m, incr).val \in Word /\ Memory(PopParm(m, incr).mem)
<1> DEFINE sp == Read16(m, 0)
           next == (sp + incr) % 65536
<1>1. PopParm(m, incr) = [val |-> Read16(m, sp), mem |-> Write16(m, 0, next)]
  BY DEF PopParm
<1>2. sp \in Int
  BY Read16Word, Widths
<1> HIDE DEF sp
<1>3. next \in Int
  <2>1. sp + incr \in Int
    BY <1>2
  <2> QED
    BY <2>1, Mod16, Widths
<1> HIDE DEF next
<1>4. Memory(Write16(m, 0, next)) /\ Read16(m, sp) \in Word
  BY <1>3, Read16Word, Write16Keeps, Widths
<1> QED
  BY <1>1, <1>4

(* The state of the loop of handle_args                                    *)
ArgsState(s) == Memory(s.mem) /\ s.sp \in Word /\ s.args \in Word

LEMMA StringBytes ==
  ASSUME NEW S, S \subseteq Byte, NEW arg \in Seq(S)
  PROVE  Append(arg, 0) \in Seq(Byte) /\ Len(arg) \in Nat
<1>1. Len(arg) \in Nat /\ arg \in [1..Len(arg) -> S]
  OBVIOUS
<1>2. arg \in Seq(Byte)
  BY <1>1
<1>3. 0 \in Byte
  BY Widths
<1> QED
  BY <1>1, <1>2, <1>3

LEMMA PushArgTypes ==
  ASSUME NEW s, ArgsState(s), NEW arg \in Seq(1..255)
  PROVE  ArgsState(PushArg(s, arg))
<1> DEFINE n == Len(arg)
           text == Append(arg, 0)
           top == (s.sp - (n + 1)) % 65536
           block == WriteBlock(s.mem, top, text)
           next == (s.args + 2) % 65536
           m == Write16(block, s.args, top)
<1>1. PushArg(s, arg) = [mem |-> m, sp |-> top, args |-> next]
  BY DEF PushArg
<1>2. text \in Seq(Byte) /\ n \in Nat
  <2> DEFINE last == 255
             S == 1..last
  <2>1. last \in Int /\ arg \in Seq(S) /\ last < 256
    OBVIOUS
  <2> HIDE DEF last
  <2>2. S \subseteq Byte
    BY <2>1, IsByte
  <2> HIDE DEF S
  <2> QED
    BY <2>1, <2>2, StringBytes
<1> HIDE DEF n, text
<1>3. top \in Word /\ next \in Word
  <2> DEFINE low == s.sp
             slot == s.args
  <2>1. low \in Int /\ slot \in Int
    BY Widths DEF ArgsState
  <2> HIDE DEF low, slot
  <2>2. low - (n + 1) \in Int /\ slot + 2 \in Int
    BY <1>2, <2>1
  <2>3. (low - (n + 1)) % 65536 \in Word /\ (slot + 2) % 65536 \in Word
    BY <2>2, Mod16
  <2> QED
    BY <2>3 DEF low, slot
<1> HIDE DEF top, next
<1>4. Memory(block)
  BY <1>2, <1>3, BlockKeeps DEF ArgsState
<1> HIDE DEF block
<1>5. Memory(m)
  BY <1>3, <1>4, Write16Keeps, Widths DEF ArgsState
<1> HIDE DEF m
<1> QED
  BY <1>1, <1>3, <1>5 DEF ArgsState

LEMMA LeastOf ==
  ASSUME NEW S, S \subseteq Nat, S # {}
  PROVE  \E x \in S : \A y \in S : x <= y
<1> DEFINE R == {ss \in Nat \X Nat : ss[1] < ss[2]}
<1>1. R = OpToRel(<, Nat)
  BY DEF OpToRel
<1>2. IsWellFoundedOn(R, Nat)
  BY <1>1, NatLessThanWellFounded
<1> HIDE DEF R
<1>3. PICK x \in S : \A y \in S : ~(<<y, x>> \in R)
  BY <1>2, WFMin
<1>4. ASSUME NEW y \in S PROVE x <= y
  <2>1. <<y, x>> \in R <=> y < x
    BY DEF R
  <2> QED
    BY <1>3, <2>1
<1> QED
  BY <1>4

(* The loop of handle_args over n strings is a function: its table can be  *)
(* extended by an argument at a time.                                      *)
Unrolled(f, n, start) ==
  f = [k \in 0..n |-> IF k = 0 THEN start ELSE PushArg(f[k - 1], ParavirtArgv[k])]

LEMMA Unrolls ==
  ASSUME NEW n \in Nat, NEW start
  PROVE  \E f : Unrolled(f, n, start)
<1> DEFINE Bad == {k \in Nat : ~\E f : Unrolled(f, k, start)}
<1>1. SUFFICES ASSUME Bad # {} PROVE FALSE
  OBVIOUS
<1>2. PICK k \in Bad : \A j \in Bad : k <= j
  BY <1>1, LeastOf
<1>3. k # 0
  <2> DEFINE f == [j \in 0..0 |-> start]
  <2>1. Unrolled(f, 0, start)
    BY DEF Unrolled
  <2> QED
    BY <2>1
<1>4. k - 1 \in Nat /\ k - 1 \notin Bad
  BY <1>2, <1>3
<1>5. PICK f : Unrolled(f, k - 1, start)
  BY <1>4
<1> DEFINE last == PushArg(f[k - 1], ParavirtArgv[k])
           g == [j \in 0..k |-> IF j = k THEN last ELSE f[j]]
<1>6. ASSUME NEW j \in 0..k
      PROVE  g[j] = IF j = 0 THEN start ELSE PushArg(g[j - 1], ParavirtArgv[j])
  <2>1. CASE j = k
    <3>1. g[j] = last /\ g[j - 1] = f[k - 1] /\ j # 0
      BY <1>3, <1>4, <2>1
    <3> QED
      BY <2>1, <3>1
  <2>2. CASE j # k
    <3>1. j \in 0..(k - 1) /\ g[j] = f[j] /\ (j # 0 => g[j - 1] = f[j - 1])
      BY <1>4, <2>2
    <3>2. f[j] = IF j = 0 THEN start ELSE PushArg(f[j - 1], ParavirtArgv[j])
      BY <1>5, <3>1 DEF Unrolled
    <3> QED
      BY <3>1, <3>2
  <2> QED
    BY <2>1, <2>2
<1>7. Unrolled(g, k, start)
  <2>1. g = [j \in 0..k |-> g[j]]
    OBVIOUS
  <2> HIDE DEF g
  <2> QED
    BY <1>6, <2>1 DEF Unrolled
<1> QED
  BY <1>2, <1>7

LEMMA ArgvLoopTypes ==
  ASSUME NEW start, ArgsState(start)
  PROVE  ArgsState(ArgvLoop(start)[Len(ParavirtArgv)])
<1> DEFINE n == Len(ParavirtArgv)
           built == ArgvLoop(start)
<1>1. n \in Nat /\ \A k \in 1..n : ParavirtArgv[k] \in Seq(1..255)
  BY ArgvAssumption
<1>2. built = CHOOSE f : Unrolled(f, n, start)
  BY Zenon DEF ArgvLoop, Unrolled
<1> HIDE DEF n, built
<1>3. Unrolled(built, n, start)
  BY <1>1, <1>2, Unrolls
<1>4. ASSUME NEW k \in 0..n
      PROVE  built[k] = IF k = 0 THEN start ELSE PushArg(built[k - 1], ParavirtArgv[k])
  BY <1>3 DEF Unrolled
<1> DEFINE Bad == {k \in 0..n : ~ArgsState(built[k])}
<1>5. Bad = {}
  <2> SUFFICES ASSUME Bad # {} PROVE FALSE
    OBVIOUS
  <2>1. Bad \subseteq Nat
    BY <1>1
  <2>2. PICK k \in Bad : \A j \in Bad : k <= j
    BY <2>1, LeastOf
  <2>3. k \in 0..n /\ k # 0
    BY <1>4
  <2>4. k - 1 \in 0..n /\ k \in 1..n /\ k - 1 \notin Bad
    BY <1>1, <2>2, <2>3
  <2>5. ArgsState(built[k - 1]) /\ ParavirtArgv[k] \in Seq(1..255)
    BY <1>1, <2>4
  <2>6. ArgsState(PushArg(built[k - 1], ParavirtArgv[k]))
    BY <2>5, PushArgTypes
  <2> QED
    BY <1>4, <2>3, <2>6
<1>6. ArgsState(built[n])
  BY <1>1, <1>5
<1> QED
  BY <1>6 DEF n, built

Sound(done) == done.regs \in Regs /\ Memory(done.mem)

LEMMA ArgsCallTypes ==
  ASSUME NEW r \in Regs, NEW m, Memory(m)
  PROVE  Sound(ArgsCall(r, m))
<1> DEFINE argc == Len(ParavirtArgv)
           args == (Read16(m, 0) - 2 * (argc + 1)) % 65536
           first == Write16(m, GetAX(r), args)
           start == [mem |-> first, sp |-> args, args |-> args]
           end == ArgvLoop(start)[argc]
           last == Write16(end.mem, 0, end.sp)
<1>1. ArgsCall(r, m) = [regs |-> SetAX(r, argc), mem |-> last]
  BY DEF ArgsCall
<1>2. argc \in Nat
  BY ArgvAssumption
<1>3. ArgsState(start) => ArgsState(end)
  BY ArgvLoopTypes
<1> HIDE DEF argc
<1>4. args \in Word
  <2> DEFINE sp == Read16(m, 0)
  <2>1. sp \in Int
    BY Read16Word, Widths
  <2> HIDE DEF sp
  <2>2. sp - 2 * (argc + 1) \in Int
    BY <1>2, <2>1
  <2>3. (sp - 2 * (argc + 1)) % 65536 \in Word
    BY <2>2, Mod16
  <2> QED
    BY <2>3 DEF sp
<1> HIDE DEF args
<1>5. ArgsState(start)
  <2>1. GetAX(r) \in Word
    BY RegTypes, WordOf DEF GetAX
  <2>2. Memory(first)
    BY <1>4, <2>1, Write16Keeps, Widths
  <2> HIDE DEF first
  <2> QED
    BY <1>4, <2>2 DEF ArgsState
<1>6. ArgsState(end)
  BY <1>3, <1>5
<1> HIDE DEF end
<1>7. Memory(last)
  BY <1>6, Write16Keeps, Widths DEF ArgsState
<1>8. SetAX(r, argc) \in Regs
  BY <1>2, SetAXRegs
<1> HIDE DEF last
<1> QED
  BY <1>1, <1>7, <1>8 DEF Sound

LEMMA HostCallTypes ==
  ASSUME NEW r \in Regs, NEW m, Memory(m), NEW ret \in Word, NEW data \in Byte
  PROVE  /\ Sound(OpenCall(r, m, ret)) /\ Sound(CloseCall(r, m, ret))
         /\ Sound(ReadCall(r, m, ret, data)) /\ Sound(WriteCall(r, m, ret))
<1> DEFINE regs == SetAX(r, ret)
<1>1. regs \in Regs
  BY SetAXRegs, Widths
<1> HIDE DEF regs
<1>2. Sound(OpenCall(r, m, ret))
  <2> DEFINE drop == r.y - 4
             mode == PopParm(m, drop)
             flags == PopParm(mode.mem, 2)
             name == PopParm(flags.mem, 2)
  <2>1. OpenCall(r, m, ret) = [regs |-> regs, mem |-> name.mem]
    BY DEF OpenCall, regs
  <2>2. drop \in Int
    BY RegTypes
  <2> HIDE DEF drop
  <2>3. Memory(mode.mem)
    BY <2>2, PopTypes
  <2> HIDE DEF mode
  <2>4. Memory(flags.mem)
    BY <2>3, PopTypes
  <2> HIDE DEF flags
  <2>5. Memory(name.mem)
    BY <2>4, PopTypes
  <2> HIDE DEF name
  <2> QED
    BY <1>1, <2>1, <2>5 DEF Sound
<1>3. Sound(CloseCall(r, m, ret))
  BY <1>1 DEF CloseCall, regs, Sound
<1> DEFINE buf == PopParm(m, 2)
           fd == PopParm(buf.mem, 2)
<1>4. buf.val \in Word /\ Memory(buf.mem)
  BY PopTypes
<1>5. Memory(fd.mem)
  <2> HIDE DEF buf
  <2> QED
    BY <1>4, PopTypes
<1>6. Sound(WriteCall(r, m, ret))
  <2>1. WriteCall(r, m, ret) = [regs |-> regs, mem |-> fd.mem]
    BY DEF WriteCall, regs
  <2> HIDE DEF fd
  <2> QED
    BY <1>1, <1>5, <2>1 DEF Sound
<1>7. Sound(ReadCall(r, m, ret, data))
  <2> DEFINE n == IF ret = 65535 THEN 0 ELSE ret
             text == [i \in 1..n |-> data]
             block == WriteBlock(fd.mem, buf.val, text)
  <2>1. ReadCall(r, m, ret, data) = [regs |-> regs, mem |-> block]
    BY DEF ReadCall, regs
  <2>2. n \in Nat
    BY IsWord
  <2> HIDE DEF n
  <2>3. text \in Seq(Byte)
    BY <2>2
  <2> HIDE DEF text, buf, fd
  <2>4. Memory(block)
    BY <1>4, <1>5, <2>3, BlockKeeps
  <2> HIDE DEF block
  <2> QED
    BY <1>1, <2>1, <2>4 DEF Sound
<1> QED
  BY <1>2, <1>3, <1>6, <1>7

LEMMA VmCallTypes ==
  ASSUME TypeOK, VmCallStep
  PROVE  TypeOK'
<1>1. cpu \in Regs /\ Memory(mem) /\ Opcode \in Byte
  BY ReadTypes
<1>2. PICK ret \in VmResults, data \in VmData :
        LET done == CASE Operand = 0 -> ArgsCall(cpu, mem)
                      [] Operand = 2 -> OpenCall(cpu, mem, ret)
                      [] Operand = 3 -> CloseCall(cpu, mem, ret)
                      [] Operand = 4 -> ReadCall(cpu, mem, ret, data)
                      [] Operand = 5 -> WriteCall(cpu, mem, ret)
                      [] OTHER       -> [regs |-> cpu, mem |-> mem]
        IN  cpu' = done.regs /\ mem' = done.mem
  BY DEF VmCallStep
<1> DEFINE done == CASE Operand = 0 -> ArgsCall(cpu, mem)
                     [] Operand = 2 -> OpenCall(cpu, mem, ret)
                     [] Operand = 3 -> CloseCall(cpu, mem, ret)
                     [] Operand = 4 -> ReadCall(cpu, mem, ret, data)
                     [] Operand = 5 -> WriteCall(cpu, mem, ret)
                     [] OTHER       -> [regs |-> cpu, mem |-> mem]
<1>3. ret \in Word /\ data \in Byte
  BY VmAssumption
<1>4. Sound(ArgsCall(cpu, mem)) /\ Sound([regs |-> cpu, mem |-> mem])
  BY <1>1, ArgsCallTypes DEF Sound
<1>5. Sound(done)
  BY <1>1, <1>3, <1>4, HostCallTypes
<1>6. cpu' = done.regs /\ mem' = done.mem
  BY <1>2
<1> HIDE DEF done
<1>7. cpu' \in Regs /\ Memory(mem')
  BY <1>5, <1>6 DEF Sound
<1>8. elapsed' \in 0..8 /\ status' \in {"off", "running", "exited", "crashed"}
  <2>1. CyclesOf(Opcode) \in 2..8
    BY <1>1, CyclesRange
  <2>2. elapsed' = elapsed \/ elapsed' = CyclesOf(Opcode)
    BY DEF VmCallStep
  <2>3. status' = "exited" \/ status' = status
    BY DEF VmCallStep
  <2> QED
    BY <2>1, <2>2, <2>3 DEF TypeOK
<1> QED
  BY <1>7, <1>8 DEF TypeOK, Memory

LEMMA InitTypes == Init => TypeOK
<1> SUFFICES ASSUME Init PROVE TypeOK
  OBVIOUS
<1>1. cpu \in Regs
  BY Widths DEF Init, Regs
<1>2. DOMAIN mem \subseteq Word /\ \A ad \in DOMAIN mem : mem[ad] \in Byte
  <2>1. DOMAIN mem \subseteq RamSize..65535 /\ \A ad \in DOMAIN mem : mem[ad] \in Byte
    BY ImagesAssumption DEF Init
  <2> DEFINE last == 65535
  <2>2. DOMAIN mem \subseteq RamSize..last /\ last \in Int
    BY <2>1
  <2>3. \A ad \in Int : ad <= last <=> ad < 65536
    OBVIOUS
  <2>4. RamSize \in Int /\ 0 <= RamSize
    <3> DEFINE top == 65536
    <3>1. RamSize \in 0..top /\ top \in Int
      BY RamSizeAssumption
    <3> HIDE DEF top
    <3> QED
      BY <3>1
  <2> HIDE DEF last
  <2> QED
    BY <2>1, <2>2, <2>3, <2>4, IsWord
<1> QED
  BY <1>1, <1>2 DEF Init, TypeOK

LEMMA NextTypes == TypeOK /\ [Next]_vars => TypeOK'
<1> SUFFICES ASSUME TypeOK, [Next]_vars PROVE TypeOK'
  OBVIOUS
<1>1. CASE UNCHANGED vars
  BY <1>1 DEF vars, TypeOK
<1>2. CASE Next
  BY <1>2, LoadTypes, StoreTypes, LogicOpTypes, AddSubTypes, CompareOpTypes, BitOpTypes,
     ShiftAccTypes, ShiftMemTypes, IncDecMemTypes, IncDecRegTypes, TransferTypes, FlagNopTypes,
     FlowTypes, JsrTypes, RtsTypes, PushTypes, PullTypes, BrkTypes, RtiTypes, ResetRaiseTypes,
     VmCallTypes DEF Next, Step
<1> QED
  BY <1>1, <1>2

(* Whatever bytes a guest consists of, and whatever the host answers, the  *)
(* registers stay within their widths, every address a handler or a        *)
(* paravirtual call computes for a write is a 16-bit one, the memory holds *)
(* bytes, and a step takes at most 8 cycles (mos6502.c mos6502_step and its *)
(* handlers, vmcall.c).                                                    *)
THEOREM CpuTypes == Spec => []TypeOK
BY InitTypes, NextTypes, PTL DEF Spec

-----------------------------------------------------------------------------
(* The page at 0x100.  As in Mos6502StackProofs the discipline and the     *)
(* types are inductive together; the sets of numbers stay closed.          *)
Slots  == 1..256
PTypes ==
  /\ page \in [Page!Cells -> Byte]
  /\ Top \in Byte /\ cap \in Byte /\ depth \in 0..cap
  /\ stack \in [Slots -> Byte]
  /\ out \in Page!Outputs
  /\ ok \in BOOLEAN
PInv == PTypes /\ Page!StackInPage

LEMMA IsSlot == \A i : i \in Slots <=> i \in Int /\ 1 <= i /\ i <= 256
<1> DEFINE n == 256
<1>1. Slots = 1..n
  BY DEF Slots
<1>2. n \in Int /\ \A i \in Int : i <= n <=> i <= 256
  OBVIOUS
<1> HIDE DEF n
<1>3. \A i : i \in Slots <=> i \in Int /\ 1 <= i /\ i <= n
  BY <1>1, <1>2
<1> QED
  BY <1>2, <1>3

LEMMA IsCell == \A c : c \in Page!Cells <=> c \in Int /\ -1 <= c /\ c <= 257
<1> DEFINE n == 256
<1>1. Page!Cells = -1..(n + 1)
  BY DEF Page!Cells
<1>2. n \in Int /\ \A c \in Int : c <= n + 1 <=> c <= 257
  OBVIOUS
<1> HIDE DEF n
<1>3. \A c : c \in Page!Cells <=> c \in Int /\ -1 <= c /\ c <= n + 1
  BY <1>1, <1>2
<1> QED
  BY <1>2, <1>3

LEMMA ByteRange == 0..(256 - 1) = Byte
<1> DEFINE n == 256
<1>1. 0..(256 - 1) = 0..(n - 1)
  OBVIOUS
<1>2. n \in Int /\ \A s \in Int : s <= n - 1 <=> s < 256
  OBVIOUS
<1> HIDE DEF n
<1>3. \A s : s \in 0..(n - 1) <=> s \in Int /\ 0 <= s /\ s <= n - 1
  BY <1>2
<1>4. \A s : s \in 0..(n - 1) <=> s \in Byte
  BY <1>2, <1>3, IsByte
<1>5. 0..(n - 1) = Byte
  BY <1>4
<1> QED
  BY <1>1, <1>5

LEMMA NoOutput == <<>> \in Page!Outputs
BY DEF Page!Outputs

LEMMA PageNumbers ==
  ASSUME PInv
  PROVE  /\ Top \in Int /\ 0 <= Top /\ Top < 256
         /\ cap \in Int /\ 0 <= cap /\ cap < 256
         /\ depth \in Int /\ 0 <= depth /\ depth <= cap
         /\ ok => Top = cap - depth
<1>1. /\ Top \in Int /\ 0 <= Top /\ Top < 256
      /\ cap \in Int /\ 0 <= cap /\ cap < 256
  BY IsByte DEF PInv, PTypes
<1>2. depth \in 0..cap /\ (ok => Top = cap - depth)
  BY DEF PInv, PTypes, Page!StackInPage
<1> QED
  BY <1>1, <1>2

(* S moves by a few bytes: modulo 256, and without wrapping inside a byte. *)
LEMMA Moves ==
  ASSUME NEW i \in Int
  PROVE  i % 256 \in Byte /\ (0 <= i /\ i < 256 => i % 256 = i)
<1>1. i % 256 \in Byte
  BY Mod8
<1>2. 0 <= i /\ i < 256 => i % 256 = i
  OBVIOUS
<1> QED
  BY <1>1, <1>2

(* What a step does to the history if the discipline is kept, and if not   *)
LEMMA Kept ==
  ASSUME NEW cond, NEW s, NEW d, Page!Track(cond, s, d), ok, cond
  PROVE  stack' = s /\ depth' = d /\ cap' = cap /\ ok' = ok
BY DEF Page!Track

LEMMA Lost ==
  ASSUME PInv, NEW cond, NEW s, NEW d, Page!Track(cond, s, d), ~(ok /\ cond),
         Top' \in Byte, page' \in [Page!Cells -> Byte], out' \in Page!Outputs
  PROVE  PInv' /\ Page!Abstract!Undisciplined
<1>1. ok' = FALSE /\ stack' = stack /\ depth' = depth /\ cap' = cap
  BY DEF Page!Track
<1>2. PTypes'
  BY <1>1 DEF PInv, PTypes
<1>3. Page!StackInPage'
  BY <1>1 DEF Page!StackInPage
<1>4. Page!Abstract!Undisciplined
  BY <1>1 DEF Page!Abstract!Undisciplined, Page!Abstract!Outputs, Page!Outputs
<1> QED
  BY <1>2, <1>3, <1>4 DEF PInv

LEMMA PageLoadS ==
  ASSUME PInv, NEW s \in Byte, Page!LoadS(s)
  PROVE  PInv' /\ Page!Abstract!ALoadS(s)
<1>1. /\ Top' = s /\ cap' = s /\ depth' = 0 /\ ok' = TRUE /\ out' = <<>>
      /\ page' = page /\ stack' = stack
  BY DEF Page!LoadS
<1>2. PTypes'
  <2>1. 0 \in 0..s /\ s \in Int
    BY IsByte
  <2> QED
    BY <1>1, <2>1, NoOutput DEF PInv, PTypes
<1>3. Page!StackInPage'
  <2>1. s = s - 0
    BY IsByte
  <2> QED
    BY <1>1, <2>1 DEF Page!StackInPage
<1>4. Page!Abstract!ALoadS(s)
  BY <1>1 DEF Page!Abstract!ALoadS
<1> QED
  BY <1>2, <1>3, <1>4 DEF PInv

LEMMA PagePush ==
  ASSUME PInv, NEW v \in Byte, Page!Push(v)
  PROVE  PInv' /\ Page!Abstract!ANext
<1>1. /\ page' = [page EXCEPT ![Top] = v] /\ Top' = (Top - 1) % 256 /\ out' = <<>>
      /\ Page!Track(depth < cap, [stack EXCEPT ![depth + 1] = v], depth + 1)
  BY DEF Page!Push
<1>2. page' \in [Page!Cells -> Byte]
  BY <1>1 DEF PInv, PTypes
<1>3. Top' \in Byte
  BY <1>1, PageNumbers, Moves
<1>4. CASE ok /\ depth < cap
  <2>1. /\ stack' = [stack EXCEPT ![depth + 1] = v] /\ depth' = depth + 1
        /\ cap' = cap /\ ok' = ok
    BY <1>1, <1>4, Kept
  <2>2. /\ Top' = cap - (depth + 1) /\ Top = cap - depth /\ depth + 1 \in 0..cap
        /\ depth + 1 \in Slots
    <3>1. Top - 1 \in Int /\ 0 <= Top - 1 /\ Top - 1 < 256
      BY <1>4, PageNumbers
    <3>2. Top' = Top - 1
      BY <1>1, <3>1, Moves
    <3> QED
      BY <1>4, <3>2, PageNumbers, IsSlot
  <2>3. PTypes'
    BY <1>1, <1>2, <1>3, <2>1, <2>2, NoOutput DEF PInv, PTypes
  <2>4. ASSUME NEW i \in 1..(depth + 1)
        PROVE  page'[cap - i + 1] = stack'[i]
    <3>1. cap - i + 1 \in Page!Cells /\ Top \in Page!Cells
      BY <1>4, <2>2, PageNumbers, IsCell
    <3>2. i \in Slots
      BY <1>4, PageNumbers, IsSlot
    <3>3. CASE i = depth + 1
      <4>1. cap - i + 1 = Top
        BY <2>2, <3>3, PageNumbers
      <4> QED
        BY <1>1, <2>1, <3>1, <3>2, <3>3, <4>1 DEF PInv, PTypes
    <3>4. CASE i # depth + 1
      <4>1. i \in 1..depth /\ cap - i + 1 # Top
        BY <2>2, <3>4, PageNumbers
      <4>2. page[cap - i + 1] = stack[i]
        BY <1>4, <4>1 DEF PInv, Page!StackInPage
      <4> QED
        BY <1>1, <2>1, <3>1, <3>2, <3>4, <4>1, <4>2 DEF PInv, PTypes
    <3> QED
      BY <3>3, <3>4
  <2>5. Page!StackInPage'
    BY <2>1, <2>2, <2>4 DEF Page!StackInPage
  <2>6. Page!Abstract!APush
    BY <1>1, <1>4, <2>1 DEF Page!Abstract!APush
  <2> QED
    BY <2>3, <2>5, <2>6 DEF PInv, Page!Abstract!ANext
<1>5. CASE ~(ok /\ depth < cap)
  <2> DEFINE kept == depth < cap
             st   == [stack EXCEPT ![depth + 1] = v]
             d    == depth + 1
  <2>1. Page!Track(kept, st, d) /\ ~(ok /\ kept)
    BY <1>1, <1>5
  <2>2. out' \in Page!Outputs
    BY <1>1, NoOutput
  <2> HIDE DEF kept, st, d
  <2>3. PInv' /\ Page!Abstract!Undisciplined
    BY <1>2, <1>3, <2>1, <2>2, Lost
  <2> QED
    BY <2>3 DEF Page!Abstract!ANext
<1> QED
  BY <1>4, <1>5

LEMMA PagePull ==
  ASSUME PInv, Page!Pull
  PROVE  PInv' /\ Page!Abstract!ANext
<1>1. /\ page' = page /\ Top' = (Top + 1) % 256 /\ out' = <<page[Top + 1]>>
      /\ Page!Track(depth >= 1, stack, depth - 1)
  BY DEF Page!Pull
<1>2. page' \in [Page!Cells -> Byte]
  BY <1>1 DEF PInv, PTypes
<1>3. Top' \in Byte
  BY <1>1, PageNumbers, Moves
<1>4. out' \in Page!Outputs
  <2>1. Top + 1 \in Page!Cells
    BY PageNumbers, IsCell
  <2>2. page[Top + 1] \in Byte
    BY <2>1 DEF PInv, PTypes
  <2> QED
    BY <1>1, <2>2 DEF Page!Outputs
<1>5. CASE ok /\ depth >= 1
  <2>1. stack' = stack /\ depth' = depth - 1 /\ cap' = cap /\ ok' = ok
    BY <1>1, <1>5, Kept
  <2>2. /\ Top' = cap - (depth - 1) /\ Top + 1 = cap - depth + 1 /\ depth - 1 \in 0..cap
        /\ depth \in 1..depth
    <3>1. Top + 1 \in Int /\ 0 <= Top + 1 /\ Top + 1 < 256
      BY <1>5, PageNumbers
    <3>2. Top' = Top + 1
      BY <1>1, <3>1, Moves
    <3> QED
      BY <1>5, <3>2, PageNumbers
  <2>3. PTypes'
    BY <1>2, <1>3, <1>4, <2>1, <2>2 DEF PInv, PTypes
  <2>4. \A i \in 1..depth : page[cap - i + 1] = stack[i]
    BY <1>5 DEF PInv, Page!StackInPage
  <2>5. Page!StackInPage'
    <3>1. \A i \in 1..(depth - 1) : i \in 1..depth
      BY PageNumbers
    <3> QED
      BY <1>1, <2>1, <2>2, <2>4, <3>1 DEF Page!StackInPage
  <2>6. page[Top + 1] = stack[depth]
    BY <2>2, <2>4
  <2>7. Page!Abstract!APull
    BY <1>1, <1>5, <2>1, <2>6 DEF Page!Abstract!APull
  <2> QED
    BY <2>3, <2>5, <2>7 DEF PInv, Page!Abstract!ANext
<1>6. CASE ~(ok /\ depth >= 1)
  <2> DEFINE kept == depth >= 1
             d    == depth - 1
  <2>1. Page!Track(kept, stack, d) /\ ~(ok /\ kept)
    BY <1>1, <1>6
  <2> HIDE DEF kept, d
  <2>2. PInv' /\ Page!Abstract!Undisciplined
    BY <1>2, <1>3, <1>4, <2>1, Lost
  <2> QED
    BY <2>2 DEF Page!Abstract!ANext
<1> QED
  BY <1>5, <1>6

LEMMA PageCall ==
  ASSUME PInv, NEW h \in Byte, NEW l \in Byte, Page!Call(h, l)
  PROVE  PInv' /\ Page!Abstract!ANext
<1>1. /\ page' = [page EXCEPT ![Top] = h, ![Top - 1] = l] /\ Top' = (Top - 2) % 256
      /\ Page!Track(depth + 2 <= cap, [stack EXCEPT ![depth + 1] = h, ![depth + 2] = l], depth + 2)
      /\ out' = <<>>
  BY DEF Page!Call
<1>2. page' \in [Page!Cells -> Byte]
  BY <1>1 DEF PInv, PTypes
<1>3. Top' \in Byte
  BY <1>1, PageNumbers, Moves
<1>4. CASE ok /\ depth + 2 <= cap
  <2>1. /\ stack' = [stack EXCEPT ![depth + 1] = h, ![depth + 2] = l] /\ depth' = depth + 2
        /\ cap' = cap /\ ok' = ok
    <3> DEFINE kept == depth + 2 <= cap
               st   == [stack EXCEPT ![depth + 1] = h, ![depth + 2] = l]
               d    == depth + 2
    <3>1. Page!Track(kept, st, d) /\ ok /\ kept
      BY <1>1, <1>4
    <3> HIDE DEF kept, st, d
    <3>2. stack' = st /\ depth' = d /\ cap' = cap /\ ok' = ok
      BY <3>1, Kept
    <3> QED
      BY <3>2 DEF st, d
  <2>2. /\ Top' = cap - (depth + 2) /\ Top = cap - depth /\ depth + 2 \in 0..cap
        /\ depth + 1 \in Slots /\ depth + 2 \in Slots
    <3>1. Top - 2 \in Int /\ 0 <= Top - 2 /\ Top - 2 < 256
      BY <1>4, PageNumbers
    <3>2. Top' = Top - 2
      BY <1>1, <3>1, Moves
    <3> QED
      BY <1>4, <3>2, PageNumbers, IsSlot
  <2>3. PTypes'
    <3>1. stack' \in [Slots -> Byte]
      BY <2>1 DEF PInv, PTypes
    <3> QED
      BY <1>1, <1>2, <1>3, <2>1, <2>2, <3>1, NoOutput DEF PInv, PTypes
  <2>4. ASSUME NEW i \in 1..(depth + 2)
        PROVE  page'[cap - i + 1] = stack'[i]
    <3>1. /\ cap - i + 1 \in Page!Cells /\ Top \in Page!Cells /\ Top - 1 \in Page!Cells
          /\ Top # Top - 1 /\ depth + 1 # depth + 2
      BY <1>4, <2>2, PageNumbers, IsCell
    <3>2. i \in Slots
      BY <1>4, PageNumbers, IsSlot
    <3>3. CASE i = depth + 2
      <4>1. cap - i + 1 = Top - 1
        BY <2>2, <3>3, PageNumbers
      <4> QED
        BY <1>1, <2>1, <3>1, <3>2, <3>3, <4>1 DEF PInv, PTypes
    <3>4. CASE i = depth + 1
      <4>1. cap - i + 1 = Top
        BY <2>2, <3>4, PageNumbers
      <4> QED
        BY <1>1, <2>1, <3>1, <3>2, <3>4, <4>1 DEF PInv, PTypes
    <3>5. CASE i # depth + 1 /\ i # depth + 2
      <4>1. i \in 1..depth /\ cap - i + 1 # Top /\ cap - i + 1 # Top - 1
        BY <2>2, <3>5, PageNumbers
      <4>2. page[cap - i + 1] = stack[i]
        BY <1>4, <4>1 DEF PInv, Page!StackInPage
      <4> QED
        BY <1>1, <2>1, <3>1, <3>2, <3>5, <4>1, <4>2 DEF PInv, PTypes
    <3> QED
      BY <3>3, <3>4, <3>5
  <2>5. Page!StackInPage'
    BY <2>1, <2>2, <2>4 DEF Page!StackInPage
  <2>6. Page!Abstract!ACall
    BY <1>1, <1>4, <2>1 DEF Page!Abstract!ACall
  <2> QED
    BY <2>3, <2>5, <2>6 DEF PInv, Page!Abstract!ANext
<1>5. CASE ~(ok /\ depth + 2 <= cap)
  <2> DEFINE kept == depth + 2 <= cap
             st   == [stack EXCEPT ![depth + 1] = h, ![depth + 2] = l]
             d    == depth + 2
  <2>1. Page!Track(kept, st, d) /\ ~(ok /\ kept)
    BY <1>1, <1>5
  <2>2. out' \in Page!Outputs
    BY <1>1, NoOutput
  <2> HIDE DEF kept, st, d
  <2>3. PInv' /\ Page!Abstract!Undisciplined
    BY <1>2, <1>3, <2>1, <2>2, Lost
  <2> QED
    BY <2>3 DEF Page!Abstract!ANext
<1> QED
  BY <1>4, <1>5

LEMMA PageReturn ==
  ASSUME PInv, Page!Return
  PROVE  PInv' /\ Page!Abstract!ANext
<1>1. /\ page' = page /\ Top' = (Top + 2) % 256 /\ out' = <<page[Top + 2], page[Top + 1]>>
      /\ Page!Track(depth >= 2, stack, depth - 2)
  BY DEF Page!Return
<1>2. page' \in [Page!Cells -> Byte]
  BY <1>1 DEF PInv, PTypes
<1>3. Top' \in Byte
  BY <1>1, PageNumbers, Moves
<1>4. out' \in Page!Outputs
  <2>1. Top + 1 \in Page!Cells /\ Top + 2 \in Page!Cells
    BY PageNumbers, IsCell
  <2>2. page[Top + 1] \in Byte /\ page[Top + 2] \in Byte
    BY <2>1 DEF PInv, PTypes
  <2> QED
    BY <1>1, <2>2 DEF Page!Outputs
<1>5. CASE ok /\ depth >= 2
  <2>1. stack' = stack /\ depth' = depth - 2 /\ cap' = cap /\ ok' = ok
    BY <1>1, <1>5, Kept
  <2>2. /\ Top' = cap - (depth - 2) /\ Top + 1 = cap - depth + 1
        /\ Top + 2 = cap - (depth - 1) + 1 /\ depth - 2 \in 0..cap
        /\ depth \in 1..depth /\ depth - 1 \in 1..depth
    <3>1. Top + 2 \in Int /\ 0 <= Top + 2 /\ Top + 2 < 256
      BY <1>5, PageNumbers
    <3>2. Top' = Top + 2
      BY <1>1, <3>1, Moves
    <3> QED
      BY <1>5, <3>2, PageNumbers
  <2>3. PTypes'
    BY <1>2, <1>3, <1>4, <2>1, <2>2 DEF PInv, PTypes
  <2>4. \A i \in 1..depth : page[cap - i + 1] = stack[i]
    BY <1>5 DEF PInv, Page!StackInPage
  <2>5. Page!StackInPage'
    <3>1. \A i \in 1..(depth - 2) : i \in 1..depth
      BY PageNumbers
    <3> QED
      BY <1>1, <2>1, <2>2, <2>4, <3>1 DEF Page!StackInPage
  <2>6. page[Top + 1] = stack[depth] /\ page[Top + 2] = stack[depth - 1]
    BY <2>2, <2>4
  <2>7. Page!Abstract!AReturn
    BY <1>1, <1>5, <2>1, <2>6 DEF Page!Abstract!AReturn
  <2> QED
    BY <2>3, <2>5, <2>7 DEF PInv, Page!Abstract!ANext
<1>6. CASE ~(ok /\ depth >= 2)
  <2> DEFINE kept == depth >= 2
             d    == depth - 2
  <2>1. Page!Track(kept, stack, d) /\ ~(ok /\ kept)
    BY <1>1, <1>6
  <2> HIDE DEF kept, d
  <2>2. PInv' /\ Page!Abstract!Undisciplined
    BY <1>2, <1>3, <1>4, <2>1, Lost
  <2> QED
    BY <2>2 DEF Page!Abstract!ANext
<1> QED
  BY <1>5, <1>6

LEMMA PageInterrupt ==
  ASSUME PInv, Page!Brk \/ Page!Rti
  PROVE  PInv' /\ Page!Abstract!ANext
<1>1. /\ ok' = FALSE /\ out' = <<>> /\ stack' = stack /\ depth' = depth /\ cap' = cap
      /\ Top' = (Top - 3) % 256 \/ Top' = (Top + 2) % 256
  BY DEF Page!Brk, Page!Rti
<1>2. Top' \in Byte
  BY <1>1, PageNumbers, Moves
<1>3. page' \in [Page!Cells -> Byte]
  BY DEF Page!Brk, Page!Rti, PInv, PTypes
<1>4. PTypes' /\ Page!StackInPage'
  BY <1>1, <1>2, <1>3, NoOutput DEF PInv, PTypes, Page!StackInPage
<1>5. Page!Abstract!Undisciplined
  BY <1>1 DEF Page!Abstract!Undisciplined, Page!Abstract!Outputs
<1> QED
  BY <1>4, <1>5 DEF PInv, Page!Abstract!ANext

LEMMA PageStore ==
  ASSUME PInv, Page!Store
  PROVE  PInv' /\ Page!Abstract!ANext
<1>1. /\ page' \in [Page!Cells -> Byte] /\ Top' = Top /\ out' = <<>>
      /\ ok' = (ok /\ \A c \in Page!Cells : Page!Live(c) => page'[c] = page[c])
      /\ stack' = stack /\ depth' = depth /\ cap' = cap
  BY DEF Page!Store
<1>2. PTypes'
  <2>1. ok' \in BOOLEAN
    BY <1>1
  <2> QED
    BY <1>1, <2>1, NoOutput DEF PInv, PTypes
<1>3. ASSUME ok', NEW i \in 1..depth
      PROVE  page'[cap - i + 1] = stack[i]
  <2>1. ok /\ \A c \in Page!Cells : Page!Live(c) => page'[c] = page[c]
    BY <1>1, <1>3
  <2>2. cap - i + 1 \in Page!Cells /\ Page!Live(cap - i + 1)
    BY <1>3, PageNumbers, IsCell DEF Page!Live
  <2> QED
    BY <2>1, <2>2 DEF PInv, Page!StackInPage
<1>4. Page!StackInPage'
  <2>1. ok' => ok
    BY <1>1
  <2> QED
    BY <1>1, <1>3, <2>1 DEF PInv, Page!StackInPage
<1>5. Page!Abstract!AOther \/ Page!Abstract!Undisciplined
  <2>1. CASE ok'
    <3>1. ok' = ok
      BY <1>1, <2>1 DEF PInv, PTypes
    <3> QED
      BY <1>1, <3>1 DEF Page!Abstract!AOther
  <2>2. CASE ~ok'
    <3>1. ok' = FALSE
      BY <1>2, <2>2 DEF PTypes
    <3> QED
      BY <1>1, <3>1 DEF Page!Abstract!Undisciplined, Page!Abstract!Outputs
  <2> QED
    BY <2>1, <2>2
<1> QED
  BY <1>2, <1>4, <1>5 DEF PInv, Page!Abstract!ANext

(* Every step of the page keeps the invariant and is a step of the stack.  *)
LEMMA PageStep ==
  ASSUME PInv, Page!Next
  PROVE  PInv' /\ Page!Abstract!ANext
<1>1. ASSUME NEW s \in 0..(256 - 1), Page!LoadS(s)
      PROVE  PInv' /\ Page!Abstract!ANext
  <2>1. s \in Byte
    BY ByteRange
  <2>2. PInv' /\ Page!Abstract!ALoadS(s)
    BY <1>1, <2>1, PageLoadS
  <2> QED
    BY <2>2 DEF Page!Abstract!ANext
<1> QED
  BY <1>1, PagePush, PagePull, PageCall, PageReturn, PageInterrupt, PageStore DEF Page!Next

-----------------------------------------------------------------------------
(* Bytes and flags: PLP after PHP restores every flag, and a byte that PLP *)
(* takes is the one the next PHP pushes.                                   *)
LEMMA BitsOfByte == \A v \in Byte : FromBits(Bits(v)) = v
<1> SUFFICES ASSUME NEW v \in Byte PROVE FromBits(Bits(v)) = v
  OBVIOUS
<1> DEFINE p1 == v \div 2    p2 == v \div 4    p3 == v \div 8    p4 == v \div 16
           p5 == v \div 32   p6 == v \div 64   p7 == v \div 128
           bit(i) == IF i \in Bits(v) THEN 1 ELSE 0
<1>1. v \in Int /\ 0 <= v /\ v < 256
  BY IsByte
<1>2. /\ v = 2 * p1 + (v % 2)    /\ p1 = 2 * p2 + (p1 % 2) /\ p2 = 2 * p3 + (p2 % 2)
      /\ p3 = 2 * p4 + (p3 % 2)  /\ p4 = 2 * p5 + (p4 % 2) /\ p5 = 2 * p6 + (p5 % 2)
      /\ p6 = 2 * p7 + (p6 % 2)  /\ p7 = p7 % 2
  BY <1>1
<1>3. p1 \in Int /\ p2 \in Int /\ p3 \in Int /\ p4 \in Int /\ p5 \in Int /\ p6 \in Int /\ p7 \in Int
  BY <1>1
<1>4. /\ (0 \in Bits(v) <=> v % 2 = 1)
      /\ (1 \in Bits(v) <=> p1 % 2 = 1)
      /\ (2 \in Bits(v) <=> p2 % 2 = 1)
      /\ (3 \in Bits(v) <=> p3 % 2 = 1)
      /\ (4 \in Bits(v) <=> p4 % 2 = 1)
      /\ (5 \in Bits(v) <=> p5 % 2 = 1)
      /\ (6 \in Bits(v) <=> p6 % 2 = 1)
      /\ (7 \in Bits(v) <=> p7 % 2 = 1)
  BY <1>1 DEF Bits
<1> HIDE DEF p1, p2, p3, p4, p5, p6, p7
<1>5. /\ v % 2 = bit(0)  /\ p1 % 2 = bit(1) /\ p2 % 2 = bit(2) /\ p3 % 2 = bit(3)
      /\ p4 % 2 = bit(4) /\ p5 % 2 = bit(5) /\ p6 % 2 = bit(6) /\ p7 % 2 = bit(7)
  BY <1>1, <1>3, <1>4
<1>6. FromBits(Bits(v)) = bit(0) + 2 * bit(1) + 4 * bit(2) + 8 * bit(3)
                            + 16 * bit(4) + 32 * bit(5) + 64 * bit(6) + 128 * bit(7)
  BY DEF FromBits
<1> DEFINE b0 == bit(0)  b1 == bit(1)  b2 == bit(2)  b3 == bit(3)
           b4 == bit(4)  b5 == bit(5)  b6 == bit(6)  b7 == bit(7)
<1>7. /\ b0 \in Int /\ b1 \in Int /\ b2 \in Int /\ b3 \in Int
      /\ b4 \in Int /\ b5 \in Int /\ b6 \in Int /\ b7 \in Int
  OBVIOUS
<1> HIDE DEF bit, b0, b1, b2, b3, b4, b5, b6, b7
<1>8. v = b0 + 2 * b1 + 4 * b2 + 8 * b3 + 16 * b4 + 32 * b5 + 64 * b6 + 128 * b7
  <2>1. /\ v = 2 * p1 + b0 /\ p1 = 2 * p2 + b1 /\ p2 = 2 * p3 + b2 /\ p3 = 2 * p4 + b3
        /\ p4 = 2 * p5 + b4 /\ p5 = 2 * p6 + b5 /\ p6 = 2 * p7 + b6 /\ p7 = b7
    BY <1>2, <1>5 DEF b0, b1, b2, b3, b4, b5, b6, b7
  <2> QED
    BY <1>3, <1>7, <2>1
<1> QED
  BY <1>6, <1>8 DEF b0, b1, b2, b3, b4, b5, b6, b7

LEMMA FlagBits ==
  /\ \A f \in Flags : FlagBit[f] \in 0..7
  /\ \A i \in 0..7 : \E f \in Flags : FlagBit[f] = i
  /\ \A f, g \in Flags : FlagBit[f] = FlagBit[g] => f = g
<1>1. \A f \in Flags : FlagBit[f] \in 0..7
  BY FlagNames DEF FlagBit
<1>2. /\ FlagBit["c"] = 0 /\ FlagBit["z"] = 1 /\ FlagBit["i"] = 2 /\ FlagBit["d"] = 3
      /\ FlagBit["b"] = 4 /\ FlagBit["u"] = 5 /\ FlagBit["v"] = 6 /\ FlagBit["n"] = 7
  BY DEF FlagBit
<1>3. \A i \in 0..7 : \E f \in Flags : FlagBit[f] = i
  BY <1>2, FlagNames
<1>4. \A f, g \in Flags : FlagBit[f] = FlagBit[g] => f = g
  BY <1>2, FlagNames
<1> QED
  BY <1>1, <1>3, <1>4

(* A byte that PLP takes from the page is the one PHP would push back.     *)
LEMMA FlagsOfByte == \A v \in Byte : PVal(PFromVal(v)) = v
<1> SUFFICES ASSUME NEW v \in Byte PROVE PVal(PFromVal(v)) = v
  OBVIOUS
<1>1. {FlagBit[f] : f \in PFromVal(v)} = Bits(v)
  <2>1. \A i \in Bits(v) : i \in 0..7
    BY DEF Bits
  <2>2. \A i \in Bits(v) : \E f \in PFromVal(v) : FlagBit[f] = i
    BY <2>1, FlagBits DEF PFromVal
  <2>3. \A f \in PFromVal(v) : FlagBit[f] \in Bits(v)
    BY DEF PFromVal
  <2> QED
    BY <2>2, <2>3
<1> QED
  BY <1>1, BitsOfByte DEF PVal

LEMMA WordParts == \A hi, lo \in Byte : Hi(MakeWord(hi, lo)) = hi /\ Lo(MakeWord(hi, lo)) = lo
<1> SUFFICES ASSUME NEW hi \in Byte, NEW lo \in Byte
             PROVE  ((256 * hi + lo) \div 256) % 256 = hi /\ (256 * hi + lo) % 256 = lo
  BY DEF Hi, Lo, MakeWord
<1>1. hi \in Int /\ 0 <= hi /\ hi < 256 /\ lo \in Int /\ 0 <= lo /\ lo < 256
  BY IsByte
<1>2. (256 * hi + lo) \div 256 = hi /\ (256 * hi + lo) % 256 = lo
  BY <1>1
<1>3. hi % 256 = hi
  BY <1>1
<1> QED
  BY <1>2, <1>3

-----------------------------------------------------------------------------
(* The page and S as the CPU's steps see them                              *)
LEMMA CellSet == -1..257 = Page!Cells
<1> DEFINE n == 257
<1>1. -1..257 = -1..n
  OBVIOUS
<1>2. n \in Int /\ \A c \in Int : c <= n <=> c <= 257
  OBVIOUS
<1> HIDE DEF n
<1>3. \A c : c \in -1..n <=> c \in Page!Cells
  BY <1>2, IsCell
<1>4. -1..n = Page!Cells
  BY <1>3
<1> QED
  BY <1>1, <1>4

LEMMA PageShape ==
  /\ page  = [c \in Page!Cells |-> MemRead(mem, 256 + c)]
  /\ page' = [c \in Page!Cells |-> MemRead(mem', 256 + c)]
BY CellSet, Zenon DEF page

LEMMA PageTyped ==
  /\ Memory(mem) => page \in [Page!Cells -> Byte]
  /\ Memory(mem') => page' \in [Page!Cells -> Byte]
<1>1. ASSUME Memory(mem) PROVE [c \in Page!Cells |-> MemRead(mem, 256 + c)] \in [Page!Cells -> Byte]
  BY <1>1, ReadByte
<1>2. ASSUME Memory(mem') PROVE [c \in Page!Cells |-> MemRead(mem', 256 + c)] \in [Page!Cells -> Byte]
  BY <1>2, ReadByte
<1> QED
  BY <1>1, <1>2, PageShape

(* Two pages with the same bytes are the same                              *)
LEMMA SamePage ==
  ASSUME NEW f, f = [c \in Page!Cells |-> f[c]],
         \A c \in Page!Cells : MemRead(mem', 256 + c) = f[c]
  PROVE  page' = f
BY PageShape

LEMMA PageUnchanged ==
  ASSUME mem' = mem
  PROVE  page' = page
BY PageShape

LEMMA RamAbove ==
  ASSUME NEW c \in Page!Cells
  PROVE  256 + c < RamSize /\ 256 + c \in Word
BY IsCell, IsWord, PageInRam, RamSizeAssumption

LEMMA PageWrite ==
  ASSUME NEW c \in Page!Cells, NEW v, mem' = MemWrite(mem, 256 + c, v)
  PROVE  page' = [page EXCEPT ![c] = v]
<1> DEFINE f == [page EXCEPT ![c] = v]
<1>1. f = [b \in Page!Cells |-> f[b]]
  BY PageShape
<1>2. ASSUME NEW b \in Page!Cells PROVE MemRead(mem', 256 + b) = f[b]
  <2>1. MemRead(mem', 256 + b) = IF 256 + b = 256 + c /\ 256 + c < RamSize THEN v
                                 ELSE MemRead(mem, 256 + b)
    BY WriteReads
  <2>2. 256 + b = 256 + c <=> b = c
    BY IsCell
  <2>3. page[b] = MemRead(mem, 256 + b)
    BY PageShape
  <2>4. f[b] = IF b = c THEN v ELSE page[b]
    BY PageShape
  <2> QED
    BY <2>1, <2>2, <2>3, <2>4, RamAbove
<1> HIDE DEF f
<1>3. page' = f
  BY <1>1, <1>2, SamePage
<1> QED
  BY <1>3 DEF f

-----------------------------------------------------------------------------
(* What a step of the CPU does to the page                                 *)
LEMMA Running ==
  ASSUME NEW ops, Instr(ops)
  PROVE  Top = cpu.sp /\ Top' = cpu'.sp /\ status = "running" /\ status' = "running"
BY DEF Instr, Top

LEMMA LoadsPage ==
  ASSUME TypeOK, Loads
  PROVE  Page!Next
<1> DEFINE n == NextPc
<1>1. Instr({"TAX", "TAY", "TXA", "TYA", "TSX", "TXS"}) /\ mem' = mem /\ Op = "TXS"
      /\ cap' = cpu.x /\ depth' = 0 /\ ok' = TRUE /\ out' = <<>> /\ stack' = stack
  BY DEF Loads, Transfer
<1>2. cpu' = [[cpu EXCEPT !.pc = n] EXCEPT !.sp = cpu.x]
  BY <1>1 DEF Loads, Transfer
<1>3. cpu \in Regs
  BY ReadTypes
<1> HIDE DEF n
<1>4. cpu'.sp = cpu.x
  BY <1>2, <1>3 DEF Regs
<1>5. Top' = cpu.x /\ page' = page
  BY <1>1, <1>4, Running, PageUnchanged
<1>6. cpu.x \in 0..(256 - 1)
  BY <1>3, RegTypes, ByteRange
<1>7. Page!LoadS(cpu.x)
  BY <1>1, <1>5 DEF Page!LoadS
<1> QED
  BY <1>6, <1>7 DEF Page!Next

LEMMA PushesPage ==
  ASSUME TypeOK, Pushes
  PROVE  Page!Next
<1> DEFINE v == IF Op = "PHA" THEN cpu.a ELSE PVal(cpu.p)
           n == NextPc
<1>1. /\ Instr({"PHA", "PHP"}) /\ mem' = MemWrite(mem, 256 + cpu.sp, v)
      /\ cpu' = [cpu EXCEPT !.sp = U8(cpu.sp - 1), !.pc = n]
      /\ Page!Track(depth < cap, [stack EXCEPT ![depth + 1] = v], depth + 1)
      /\ out' = <<>>
  BY DEF Pushes, Push
<1>2. cpu \in Regs /\ cpu.a \in Byte /\ cpu.sp \in Byte /\ cpu.sp \in Int
  BY ReadTypes, RegTypes
<1>3. v \in Byte
  BY <1>2, ValByte
<1> HIDE DEF v, n
<1>4. Top = cpu.sp /\ Top' = cpu'.sp
  BY <1>1, Running
<1>5. cpu'.sp = (cpu.sp - 1) % 256
  BY <1>1, <1>2 DEF Regs, U8
<1>6. cpu.sp \in Page!Cells
  BY <1>2, IsByte, IsCell
<1>7. page' = [page EXCEPT ![Top] = v]
  BY <1>1, <1>4, <1>6, PageWrite
<1>8. Page!Push(v)
  BY <1>1, <1>4, <1>5, <1>7 DEF Page!Push
<1> QED
  BY <1>3, <1>8 DEF Page!Next

LEMMA PullsPage ==
  ASSUME TypeOK, Pulls
  PROVE  Page!Next
<1> DEFINE v == Rd(256 + cpu.sp + 1)
           n == NextPc
           q == StickyZN(cpu.p, v)
           s == U8(cpu.sp + 1)
           t == [cpu EXCEPT !.sp = s, !.pc = n]
<1>1. /\ Instr({"PLA", "PLP"}) /\ mem' = mem
      /\ out' = <<IF Op = "PLA" THEN cpu'.a ELSE PVal(cpu'.p)>>
      /\ Page!Track(depth >= 1, stack, depth - 1)
  BY DEF Pulls, Pull
<1>2. cpu' = IF Op = "PLA" THEN [t EXCEPT !.a = v, !.p = StickyZN(@, v)]
                           ELSE [t EXCEPT !.p = PFromVal(v)]
  BY DEF Pulls, Pull
<1>3. cpu \in Regs /\ v \in Byte /\ cpu.sp \in Byte /\ cpu.sp \in Int
  BY ReadTypes, RegTypes
<1>4. v = MemRead(mem, 256 + (cpu.sp + 1))
  <2>1. (256 + cpu.sp + 1) % 65536 = 256 + (cpu.sp + 1)
    BY <1>3, IsByte
  <2> QED
    BY <2>1 DEF Rd, U16
<1> HIDE DEF v, n, s
<1>5. t.p = cpu.p /\ t.sp = s /\ t \in [{"a", "x", "y", "sp", "pc", "p", "intr"} -> {t[f] : f \in DOMAIN t}]
  BY <1>3 DEF Regs
<1>6. t = [f \in DOMAIN t |-> t[f]] /\ DOMAIN t = {"a", "x", "y", "sp", "pc", "p", "intr"}
  BY <1>5
<1> HIDE DEF t
<1>7. /\ cpu'.sp = s
      /\ Op = "PLA" => cpu'.a = v
      /\ Op # "PLA" => cpu'.p = PFromVal(v)
  BY <1>2, <1>5, <1>6
<1>8. out' = <<v>>
  BY <1>1, <1>3, <1>7, FlagsOfByte
<1>9. Top = cpu.sp /\ Top' = (Top + 1) % 256
  BY <1>1, <1>7, Running DEF s, U8
<1>10. Top + 1 \in Page!Cells
  BY <1>3, <1>9, IsByte, IsCell
<1>11. page[Top + 1] = v
  BY <1>4, <1>9, <1>10, PageShape
<1>12. Page!Pull
  BY <1>1, <1>8, <1>9, <1>11, PageUnchanged DEF Page!Pull
<1> QED
  BY <1>12 DEF Page!Next

LEMMA CallsPage ==
  ASSUME TypeOK, Calls
  PROVE  Page!Next
<1> DEFINE ret == U16(cpu.pc + 3)
           top == 256 + cpu.sp
           h   == Hi(ret)
           l   == Lo(ret)
           m   == MemWrite(MemWrite(mem, top, h), top - 1, l)
           n   == MakeWord(MemRead(m, U16(cpu.pc + 2)), MemRead(m, U16(cpu.pc + 1)))
<1>1. /\ Instr({"JSR"}) /\ mem' = m /\ cpu' = [cpu EXCEPT !.sp = U8(top - 2), !.pc = n]
      /\ Page!Track(depth + 2 <= cap, [stack EXCEPT ![depth + 1] = h, ![depth + 2] = l], depth + 2)
      /\ out' = <<>>
  BY DEF Calls, Jsr
<1>2. cpu \in Regs /\ cpu.sp \in Byte /\ cpu.sp \in Int /\ cpu.pc \in Int
  BY ReadTypes, RegTypes
<1>3. h \in Byte /\ l \in Byte
  <2>1. cpu.pc + 3 \in Int
    BY <1>2
  <2>2. ret \in Int
    BY <2>1, U16Word, Widths
  <2> HIDE DEF ret
  <2> QED
    BY <2>2, LoHi
<1> HIDE DEF h, l, n
<1>4. cpu'.sp = U8(top - 2)
  BY <1>1, <1>2 DEF Regs
<1>5. U8(top - 2) = (cpu.sp - 2) % 256
  BY <1>2, IsByte DEF U8
<1>6. Top = cpu.sp /\ Top' = (Top - 2) % 256
  BY <1>1, <1>4, <1>5, Running
<1>7. Top \in Page!Cells /\ Top - 1 \in Page!Cells /\ Top \in Int /\ top - 1 = 256 + (Top - 1) /\ top = 256 + Top
  BY <1>2, <1>6, IsByte, IsCell
<1>8. page' = [page EXCEPT ![Top] = h, ![Top - 1] = l]
  <2> DEFINE f == [page EXCEPT ![Top] = h, ![Top - 1] = l]
  <2>1. f = [b \in Page!Cells |-> f[b]]
    BY PageShape
  <2>2. ASSUME NEW b \in Page!Cells PROVE MemRead(mem', 256 + b) = f[b]
    <3>1. MemRead(mem', 256 + b) =
            IF 256 + b = 256 + (Top - 1) THEN l
            ELSE IF 256 + b = 256 + Top THEN h ELSE MemRead(mem, 256 + b)
      BY <1>1, <1>7, WriteReads, RamAbove
    <3>2. /\ 256 + b = 256 + Top <=> b = Top
          /\ 256 + b = 256 + (Top - 1) <=> b = Top - 1
      BY <1>7, IsCell
    <3>3. page[b] = MemRead(mem, 256 + b)
      BY PageShape
    <3>4. f[b] = IF b = Top - 1 THEN l ELSE IF b = Top THEN h ELSE page[b]
      BY <1>7, PageShape
    <3> QED
      BY <3>1, <3>2, <3>3, <3>4
  <2> HIDE DEF f
  <2>3. page' = f
    BY <2>1, <2>2, SamePage
  <2> QED
    BY <2>3 DEF f
<1>9. Page!Call(h, l)
  BY <1>1, <1>6, <1>8 DEF Page!Call
<1> QED
  BY <1>3, <1>9 DEF Page!Next

LEMMA ReturnsPage ==
  ASSUME TypeOK, Returns
  PROVE  Page!Next
<1> DEFINE top == 256 + cpu.sp
           h   == Rd(top + 2)
           l   == Rd(top + 1)
           n   == MakeWord(h, l)
           s   == U8(top + 2)
<1>1. /\ Instr({"RTS"}) /\ mem' = mem /\ cpu' = [cpu EXCEPT !.pc = n, !.sp = s]
      /\ Page!Track(depth >= 2, stack, depth - 2)
      /\ out' = <<Hi(cpu'.pc), Lo(cpu'.pc)>>
  BY DEF Returns, Rts
<1>2. cpu \in Regs /\ cpu.sp \in Byte /\ cpu.sp \in Int /\ h \in Byte /\ l \in Byte
  BY ReadTypes, RegTypes
<1>3. h = MemRead(mem, 256 + (cpu.sp + 2)) /\ l = MemRead(mem, 256 + (cpu.sp + 1))
  <2>1. /\ (256 + cpu.sp + 2) % 65536 = 256 + (cpu.sp + 2)
        /\ (256 + cpu.sp + 1) % 65536 = 256 + (cpu.sp + 1)
    BY <1>2, IsByte
  <2> QED
    BY <2>1 DEF Rd, U16
<1>4. s = (cpu.sp + 2) % 256
  BY <1>2, IsByte DEF U8
<1> HIDE DEF h, l, s
<1>5. Hi(n) = h /\ Lo(n) = l
  BY <1>2, WordParts
<1> HIDE DEF n
<1>6. cpu'.sp = s /\ cpu'.pc = n
  BY <1>1, <1>2 DEF Regs
<1>7. out' = <<h, l>>
  BY <1>1, <1>5, <1>6
<1>8. Top = cpu.sp /\ Top' = (Top + 2) % 256
  BY <1>1, <1>4, <1>6, Running
<1>9. Top + 1 \in Page!Cells /\ Top + 2 \in Page!Cells
  BY <1>2, <1>8, IsByte, IsCell
<1>10. page[Top + 1] = l /\ page[Top + 2] = h
  BY <1>3, <1>8, <1>9, PageShape
<1>11. Page!Return
  BY <1>1, <1>7, <1>8, <1>10, PageUnchanged DEF Page!Return
<1> QED
  BY <1>11 DEF Page!Next

(* BRK: the bytes go to page zero, of which the page has the last cell     *)
LEMMA BrkPage ==
  ASSUME TypeOK, TypeOK', Brk, ok' = FALSE, out' = <<>>, UNCHANGED <<stack, depth, cap>>
  PROVE  Page!Brk
<1> DEFINE ret == U16(cpu.pc + 2)
           s   == cpu.sp
           s1  == U8(s - 1)
           s2  == U8(s - 2)
           h   == Hi(ret)
           l   == Lo(ret)
           q   == PVal(cpu.p)
           w   == U8(s - 3)
           n   == MemRead(mem', \hFFFE)
           one == MemWrite(mem, s, h)
           two == MemWrite(one, s1, l)
<1>1. /\ Instr({"BRK"}) /\ mem' = MemWrite(two, s2, q)
      /\ cpu' = [cpu EXCEPT !.sp = w, !.p = @ \cup {"b"}, !.pc = n]
  BY DEF Brk
<1>2. cpu \in Regs /\ s \in Byte /\ s \in Int /\ 0 <= s /\ s < 256
  BY ReadTypes, RegTypes, IsByte
<1>3. /\ s1 \in Int /\ s1 < 256 /\ (s1 = 255 <=> s = 0)
      /\ s2 \in Int /\ s2 < 256 /\ (s2 = 255 <=> s = 1)
      /\ w = (s - 3) % 256
  BY <1>2 DEF U8
<1> HIDE DEF n, w
<1>4. cpu'.sp = w
  BY <1>1, <1>2 DEF Regs
<1>5. Top = s /\ Top' = (Top - 3) % 256
  BY <1>1, <1>3, <1>4, Running
<1>6. page' \in [Page!Cells -> Byte]
  BY PageTyped DEF TypeOK, Memory
<1> HIDE DEF s, s1, s2, h, l, q, one
<1>7. ASSUME NEW b \in Page!Cells, 256 + b # s, 256 + b # s1, 256 + b # s2
      PROVE  page'[b] = page[b]
  <2>1. MemRead(mem', 256 + b) = MemRead(two, 256 + b)
    <3> HIDE DEF two
    <3> QED
      BY <1>1, <1>7, WriteReads
  <2>2. MemRead(two, 256 + b) = MemRead(one, 256 + b)
    BY <1>7, WriteReads
  <2>3. MemRead(one, 256 + b) = MemRead(mem, 256 + b)
    BY <1>7, WriteReads DEF one
  <2> QED
    BY <2>1, <2>2, <2>3, PageShape
<1>8. \A b \in Page!Cells : b # -1 => 256 + b # s /\ 256 + b # s1 /\ 256 + b # s2
  BY <1>2, <1>3, IsCell
<1>9. Page!Cells = DOMAIN page /\ Page!Cells = DOMAIN page' /\ -1 \in Page!Cells
  BY PageShape, IsCell
<1>10. page = [b \in Page!Cells |-> page[b]] /\ page' = [b \in Page!Cells |-> page'[b]]
  BY PageShape
<1>11. CASE s \in {0, 1, 256 - 1}
  <2>1. page' = [page EXCEPT ![-1] = page'[-1]]
    BY <1>7, <1>8, <1>9, <1>10
  <2>2. page'[-1] \in Byte
    BY <1>6, <1>9
  <2> DEFINE v == page'[-1]
  <2> HIDE DEF v
  <2>3. v \in Byte /\ page' = [page EXCEPT ![-1] = v]
    BY <2>1, <2>2 DEF v
  <2>4. \E u \in Byte : page' = IF Top \in {0, 1, 256 - 1} THEN [page EXCEPT ![-1] = u] ELSE page
    BY <1>5, <1>11, <2>3
  <2> QED
    BY <1>5, <2>4 DEF Page!Brk
<1>12. CASE s \notin {0, 1, 256 - 1}
  <2>1. \A b \in Page!Cells : page'[b] = page[b]
    <3>1. 256 + (-1) # s /\ 256 + (-1) # s1 /\ 256 + (-1) # s2
      BY <1>2, <1>3, <1>12
    <3> QED
      BY <1>7, <1>8, <3>1
  <2>2. page' = page
    BY <1>10, <2>1
  <2>3. \E u \in Byte : page' = IF Top \in {0, 1, 256 - 1} THEN [page EXCEPT ![-1] = u] ELSE page
    BY <1>5, <1>12, <2>2, Widths
  <2> QED
    BY <1>5, <2>3 DEF Page!Brk
<1> QED
  BY <1>11, <1>12

LEMMA InterruptsPage ==
  ASSUME TypeOK, TypeOK', Interrupts
  PROVE  Page!Next
<1>1. /\ ok' = FALSE /\ out' = <<>> /\ UNCHANGED <<stack, depth, cap>>
      /\ Brk \/ Rti
  BY DEF Interrupts
<1>2. CASE Brk
  <2>1. Page!Brk
    BY <1>1, <1>2, BrkPage
  <2> QED
    BY <2>1 DEF Page!Next
<1>3. CASE Rti
  <2> DEFINE s == U8(cpu.sp + 2)
             q == Assign(cpu.p, "v", Rd(cpu.sp) # 0)
             n == MakeWord(Rd(U8(cpu.sp + 2)), Rd(U8(cpu.sp + 1)))
  <2>1. Instr({"RTI"}) /\ mem' = mem /\ cpu' = [cpu EXCEPT !.p = q, !.sp = s, !.pc = n]
    BY <1>3 DEF Rti
  <2>2. cpu \in Regs /\ s = (cpu.sp + 2) % 256
    BY ReadTypes DEF U8
  <2> HIDE DEF s, q, n
  <2>3. cpu'.sp = s
    BY <2>1, <2>2 DEF Regs
  <2>4. Top = cpu.sp /\ Top' = (Top + 2) % 256
    BY <2>1, <2>2, <2>3, Running
  <2>5. Page!Rti
    BY <1>1, <2>1, <2>4, PageUnchanged DEF Page!Rti
  <2> QED
    BY <2>5 DEF Page!Next
<1> QED
  BY <1>1, <1>2, <1>3

-----------------------------------------------------------------------------
(* No other instruction moves S; what any of them stores is a store to the *)
(* page as far as the guest's stack is concerned.                          *)
LEMMA AccumulatorSp ==
  ASSUME TypeOK, LogicOp \/ AddSub \/ ShiftAcc
  PROVE  cpu'.sp = cpu.sp
<1>1. cpu \in Regs
  BY ReadTypes
<1> DEFINE n == NextPc
<1>2. CASE LogicOp
  <2> DEFINE r == Logic(Op, cpu.a, Value, Mode)
             q == LogicFlags(Op, r, cpu.p, Mode)
  <2>1. cpu' = [cpu EXCEPT !.a = r, !.p = q, !.pc = n]
    BY <1>2 DEF LogicOp
  <2> HIDE DEF r, q, n
  <2> QED
    BY <1>1, <2>1 DEF Regs
<1>3. CASE AddSub
  <2> DEFINE r == IF Op = "ADC" THEN Adc(cpu.a, Value, cpu.p) ELSE Sbc(cpu.a, Value, cpu.p, Mode)
  <2>1. cpu' = [cpu EXCEPT !.a = r.a, !.p = r.p, !.pc = n]
    BY <1>3 DEF AddSub
  <2> HIDE DEF r, n
  <2> QED
    BY <1>1, <2>1 DEF Regs
<1>4. CASE ShiftAcc
  <2> DEFINE r == Shifted(Op, cpu.a, cpu.p)
             q == ShiftFlags(Op, cpu.a, r, cpu.p, FALSE)
  <2>1. cpu' = [cpu EXCEPT !.a = r, !.p = q, !.pc = n]
    BY <1>4 DEF ShiftAcc
  <2> HIDE DEF r, q, n
  <2> QED
    BY <1>1, <2>1 DEF Regs
<1> QED
  BY <1>2, <1>3, <1>4

LEMMA FlagsSp ==
  ASSUME TypeOK, Store \/ CompareOp \/ BitOp \/ ShiftMem \/ IncDecMem \/ SetFlag \/ Nop
                 \/ Branch \/ Jump
  PROVE  cpu'.sp = cpu.sp
<1>1. cpu \in Regs
  BY ReadTypes
<1>2. \E q, n : cpu' = [cpu EXCEPT !.p = q, !.pc = n] \/ cpu' = [cpu EXCEPT !.pc = n]
  BY Zenon DEF Store, CompareOp, BitOp, ShiftMem, IncDecMem, SetFlag, Nop, Branch, Jump
<1> QED
  BY <1>1, <1>2 DEF Regs

LEMMA IndexSp ==
  ASSUME TypeOK, Load \/ IncDecReg \/ (Transfer /\ Op # "TXS")
  PROVE  cpu'.sp = cpu.sp
<1>1. cpu \in Regs
  BY ReadTypes
<1> DEFINE n == NextPc
<1>2. CASE Load
  <2> DEFINE q == LoadFlags(Op, Value, cpu.p)
             v == Value
  <2>1. Op \in {"LDA", "LDX", "LDY"}
    BY <1>2 DEF Load, Instr
  <2>2. cpu' = CASE Op = "LDA" -> [cpu EXCEPT !.a = v, !.p = q, !.pc = n]
                 [] Op = "LDX" -> [cpu EXCEPT !.x = v, !.p = q, !.pc = n]
                 [] Op = "LDY" -> [cpu EXCEPT !.y = v, !.p = q, !.pc = n]
    BY <1>2 DEF Load
  <2> HIDE DEF q, v, n
  <2> QED
    BY <1>1, <2>1, <2>2 DEF Regs
<1>3. CASE IncDecReg
  <2> DEFINE r == IncDec(Op, IF Op \in {"INX", "DEX"} THEN cpu.x ELSE cpu.y)
             q == ExactZN(cpu.p, r)
  <2>1. cpu' = IF Op \in {"INX", "DEX"}
               THEN [cpu EXCEPT !.x = r, !.p = q, !.pc = n]
               ELSE [cpu EXCEPT !.y = r, !.p = q, !.pc = n]
    BY <1>3 DEF IncDecReg
  <2> HIDE DEF r, q, n
  <2> QED
    BY <1>1, <2>1 DEF Regs
<1>4. CASE Transfer /\ Op # "TXS"
  <2> DEFINE t == [cpu EXCEPT !.pc = n]
             qa == StickyZN(cpu.p, cpu.a)
             qx == StickyZN(cpu.p, cpu.x)
             qy == StickyZN(cpu.p, cpu.y)
             qs == ExactZN(cpu.p, cpu.sp)
  <2>1. Op \in {"TAX", "TAY", "TXA", "TYA", "TSX"}
    BY <1>4 DEF Transfer, Instr
  <2>2. cpu' = CASE Op = "TAX" -> [t EXCEPT !.x = cpu.a, !.p = qa]
                 [] Op = "TAY" -> [t EXCEPT !.y = cpu.a, !.p = qa]
                 [] Op = "TXA" -> [t EXCEPT !.a = cpu.x, !.p = qx]
                 [] Op = "TYA" -> [t EXCEPT !.a = cpu.y, !.p = qy]
                 [] Op = "TSX" -> [t EXCEPT !.x = cpu.sp, !.p = qs]
                 [] Op = "TXS" -> [t EXCEPT !.sp = cpu.x]
    BY <1>4 DEF Transfer
  <2> HIDE DEF qa, qx, qy, qs, n
  <2>3. t.sp = cpu.sp /\ t = [f \in {"a", "x", "y", "sp", "pc", "p", "intr"} |-> t[f]]
    BY <1>1 DEF Regs
  <2> HIDE DEF t
  <2> QED
    BY <2>1, <2>2, <2>3
<1> QED
  BY <1>2, <1>3, <1>4

LEMMA VmCallSp ==
  ASSUME TypeOK, VmCallStep
  PROVE  cpu'.sp = cpu.sp /\ status = "running" /\ status' # "off"
<1>1. cpu \in Regs
  BY ReadTypes
<1>2. status = "running" /\ status' # "off"
  BY DEF VmCallStep
<1>3. \A w : SetAX(cpu, w).sp = cpu.sp
  <2>1. \A l, h : [cpu EXCEPT !.a = l, !.x = h].sp = cpu.sp
    BY <1>1 DEF Regs
  <2> QED
    BY <2>1 DEF SetAX
<1>4. /\ ArgsCall(cpu, mem).regs.sp = cpu.sp
      /\ \A ret, data : /\ OpenCall(cpu, mem, ret).regs.sp = cpu.sp
                        /\ CloseCall(cpu, mem, ret).regs.sp = cpu.sp
                        /\ ReadCall(cpu, mem, ret, data).regs.sp = cpu.sp
                        /\ WriteCall(cpu, mem, ret).regs.sp = cpu.sp
  <2>1. ArgsCall(cpu, mem).regs = SetAX(cpu, Len(ParavirtArgv))
    BY DEF ArgsCall
  <2>2. ASSUME NEW ret, NEW data
        PROVE  /\ OpenCall(cpu, mem, ret).regs = SetAX(cpu, ret)
               /\ CloseCall(cpu, mem, ret).regs = SetAX(cpu, ret)
               /\ ReadCall(cpu, mem, ret, data).regs = SetAX(cpu, ret)
               /\ WriteCall(cpu, mem, ret).regs = SetAX(cpu, ret)
    BY DEF OpenCall, CloseCall, ReadCall, WriteCall
  <2> DEFINE w == Len(ParavirtArgv)
  <2>3. ArgsCall(cpu, mem).regs = SetAX(cpu, w)
    BY <2>1
  <2> HIDE DEF w
  <2> QED
    BY <1>3, <2>2, <2>3
<1>5. PICK ret \in VmResults, data \in VmData :
        cpu' = (CASE Operand = 0 -> ArgsCall(cpu, mem)
                  [] Operand = 2 -> OpenCall(cpu, mem, ret)
                  [] Operand = 3 -> CloseCall(cpu, mem, ret)
                  [] Operand = 4 -> ReadCall(cpu, mem, ret, data)
                  [] Operand = 5 -> WriteCall(cpu, mem, ret)
                  [] OTHER       -> [regs |-> cpu, mem |-> mem]).regs
  BY DEF VmCallStep
<1>6. [regs |-> cpu, mem |-> mem].regs.sp = cpu.sp
  OBVIOUS
<1>7. cpu'.sp = cpu.sp
  <2> DEFINE none == [regs |-> cpu, mem |-> mem]
             c0 == ArgsCall(cpu, mem)
             c2 == OpenCall(cpu, mem, ret)
             c3 == CloseCall(cpu, mem, ret)
             c4 == ReadCall(cpu, mem, ret, data)
             c5 == WriteCall(cpu, mem, ret)
  <2>1. cpu' = (CASE Operand = 0 -> c0 [] Operand = 2 -> c2 [] Operand = 3 -> c3
                  [] Operand = 4 -> c4 [] Operand = 5 -> c5 [] OTHER -> none).regs
    BY <1>5
  <2>2. /\ none.regs.sp = cpu.sp /\ c0.regs.sp = cpu.sp /\ c2.regs.sp = cpu.sp
        /\ c3.regs.sp = cpu.sp /\ c4.regs.sp = cpu.sp /\ c5.regs.sp = cpu.sp
    BY <1>4, <1>6
  <2> HIDE DEF none, c0, c2, c3, c4, c5
  <2> QED
    BY <2>1, <2>2
<1> QED
  BY <1>2, <1>7

LEMMA OtherTop ==
  ASSUME TypeOK, Others
  PROVE  Top' = Top
<1>1. CASE Reset
  <2> DEFINE n == Read16(mem, \hFFFC)
             q == PFromVal(\h34)
  <2>1. /\ cpu' = [cpu EXCEPT !.pc = n, !.a = 0, !.x = 0, !.y = 0, !.sp = \hFD, !.p = q]
        /\ status = "off" /\ status' = "running"
    BY <1>1 DEF Reset
  <2> HIDE DEF n, q
  <2>2. cpu'.sp = 253
    BY <2>1, ReadTypes DEF Regs
  <2> QED
    BY <2>1, <2>2 DEF Top
<1>2. CASE RaiseIrq \/ RaiseNmi
  <2>1. cpu'.sp = cpu.sp
    BY <1>2, ReadTypes DEF RaiseIrq, RaiseNmi, Regs
  <2> QED
    BY <1>2, <2>1 DEF RaiseIrq, RaiseNmi, Top
<1>3. CASE VmCallStep
  BY <1>3, VmCallSp DEF Top
<1>4. CASE CallNull
  BY <1>4 DEF CallNull, Top
<1>5. CASE \/ Load \/ Store \/ LogicOp \/ AddSub \/ CompareOp \/ BitOp \/ ShiftAcc \/ ShiftMem
           \/ IncDecMem \/ IncDecReg \/ (Transfer /\ Op # "TXS") \/ SetFlag \/ Nop \/ Branch \/ Jump
  <2>1. cpu'.sp = cpu.sp
    BY <1>5, AccumulatorSp, FlagsSp, IndexSp
  <2>2. \E ops : Instr(ops)
    BY <1>5, Zenon DEF Load, Store, LogicOp, AddSub, CompareOp, BitOp, ShiftAcc, ShiftMem,
       IncDecMem, IncDecReg, Transfer, SetFlag, Nop, Branch, Jump
  <2> QED
    BY <2>1, <2>2, Running
<1> QED
  BY <1>1, <1>2, <1>3, <1>4, <1>5 DEF Others

LEMMA OthersPage ==
  ASSUME TypeOK, TypeOK', Others
  PROVE  Page!Next
<1>1. /\ ok' = (ok /\ \A c \in Page!Cells : Page!Live(c) => page'[c] = page[c])
      /\ out' = <<>> /\ UNCHANGED <<stack, depth, cap>>
  BY DEF Others
<1>2. page' \in [Page!Cells -> Byte]
  BY PageTyped DEF TypeOK, Memory
<1>3. Page!Store
  BY <1>1, <1>2, OtherTop DEF Page!Store
<1> QED
  BY <1>3 DEF Page!Next

(* Every step of the machine is a step of the page-one stack on its own.   *)
LEMMA StepOfPage ==
  ASSUME TypeOK, TypeOK', [HNext]_hvars
  PROVE  [Page!Next]_(Page!vars)
<1>1. CASE UNCHANGED hvars
  <2>1. mem' = mem /\ Top' = Top /\ UNCHANGED hist
    BY <1>1 DEF hvars, vars, Top
  <2> QED
    BY <2>1, PageUnchanged DEF Page!vars, hist
<1>2. CASE HNext
  BY <1>2, LoadsPage, PushesPage, PullsPage, CallsPage, ReturnsPage, InterruptsPage, OthersPage
     DEF HNext
<1> QED
  BY <1>1, <1>2

(* The history variables only watch: every step is a step of the CPU.      *)
LEMMA StepOfCpu == [HNext]_hvars => [Next]_vars
<1> SUFFICES ASSUME [HNext]_hvars PROVE [Next]_vars
  OBVIOUS
<1>1. CASE UNCHANGED hvars
  BY <1>1 DEF hvars
<1>2. CASE HNext
  BY <1>2, Zenon DEF HNext, Loads, Pushes, Pulls, Calls, Returns, Interrupts, Others, Next, Step
<1> QED
  BY <1>1, <1>2

LEMMA PageInit ==
  ASSUME HInit
  PROVE  TypeOK /\ PInv /\ Page!Init /\ Page!Abstract!AInit
<1>1. TypeOK
  BY InitTypes DEF HInit
<1>2. /\ stack = [i \in 1..256 |-> 255] /\ depth = 0 /\ cap = 253 /\ out = <<>> /\ ok = TRUE
      /\ Top = 253
  BY DEF HInit, Init, Top
<1>3. 253 \in Byte /\ 255 \in Byte /\ 253 = 256 - 3
  BY IsByte
<1>4. stack \in [Slots -> Byte]
  BY <1>2, <1>3 DEF Slots
<1>5. page \in [Page!Cells -> Byte]
  BY <1>1, PageTyped DEF TypeOK, Memory
<1>6. PTypes
  <2>1. 0 \in 0..cap
    BY <1>2
  <2> QED
    BY <1>2, <1>3, <1>4, <1>5, <2>1, NoOutput DEF PTypes
<1>7. Page!StackInPage
  BY <1>2 DEF Page!StackInPage
<1>8. Page!Init
  BY <1>2, <1>3, <1>4, <1>5 DEF Page!Init, Slots
<1>9. Page!Abstract!AInit
  <2>1. cap \in 0..(256 - 1)
    BY <1>2, <1>3, ByteRange
  <2> QED
    BY <1>2, <1>4, <2>1 DEF Page!Abstract!AInit, Slots
<1> QED
  BY <1>1, <1>6, <1>7, <1>8, <1>9 DEF PInv

(* The types of the CPU and the invariant of the page, together            *)
HInv == TypeOK /\ PInv

LEMMA HStep ==
  HInv /\ [HNext]_hvars => /\ HInv'
                           /\ [Page!Next]_(Page!vars)
                           /\ [Page!Abstract!ANext]_(Page!Abstract!avars)
<1> SUFFICES ASSUME HInv, [HNext]_hvars
             PROVE  /\ HInv'
                    /\ [Page!Next]_(Page!vars)
                    /\ [Page!Abstract!ANext]_(Page!Abstract!avars)
  OBVIOUS
<1>1. TypeOK /\ PInv /\ TypeOK'
  BY StepOfCpu, NextTypes DEF HInv
<1>2. [Page!Next]_(Page!vars)
  BY <1>1, StepOfPage
<1>3. CASE Page!Next
  BY <1>1, <1>2, <1>3, PageStep DEF HInv
<1>4. CASE UNCHANGED Page!vars
  <2>1. page' = page /\ Top' = Top /\ UNCHANGED <<out, stack, depth, cap, ok>>
    BY <1>4 DEF Page!vars
  <2>2. PInv'
    BY <1>1, <2>1 DEF PInv, PTypes, Page!StackInPage
  <2>3. UNCHANGED Page!Abstract!avars
    BY <2>1 DEF Page!Abstract!avars
  <2> QED
    BY <1>1, <1>2, <2>2, <2>3 DEF HInv
<1> QED
  BY <1>2, <1>3, <1>4

(* The bytes around 0x100 and S of the CPU are an instance of the stack of *)
(* Mos6502Stack, whatever the guest: every instruction and paravirtual     *)
(* call is one of its steps.                                               *)
THEOREM CpuRunsThePage == HSpec => Page!Spec
<1>1. HInit => HInv /\ Page!Init
  BY PageInit DEF HInv
<1> QED
  BY <1>1, HStep, PTL DEF HSpec, Page!Spec

(* For every guest that keeps the discipline S is where it left it and the *)
(* page holds what it saved, in every reachable state (mos6502.c           *)
(* PHA_handler .. PLP_handler, JSR_ABS_handler, RTS_handler, TXS_handler). *)
THEOREM GuestStack == HSpec => []GuestStackIntact
<1>1. HInit => HInv
  BY PageInit DEF HInv
<1>2. HInv => GuestStackIntact
  BY DEF HInv, PInv, GuestStackIntact
<1> QED
  BY <1>1, <1>2, HStep, PTL DEF HSpec

(* PLA and PLP give back the byte or the flags last saved and RTS goes to  *)
(* where the matching JSR said, for every guest and every ROM.             *)
THEOREM GuestStackRefines == HSpec => GuestHasStack
<1>1. HInit => HInv /\ Page!Abstract!AInit
  BY PageInit DEF HInv
<1> QED
  BY <1>1, HStep, PTL DEF HSpec, GuestHasStack, Page!ImplementsStack, Page!Abstract!ASpec

-----------------------------------------------------------------------------
(* A sum of weighted bits has the bits it was made of.                     *)
LEMMA BitsOfSet == \A S \in SUBSET (0..7) : Bits(FromBits(S)) = S
<1> SUFFICES ASSUME NEW S \in SUBSET (0..7) PROVE Bits(FromBits(S)) = S
  OBVIOUS
<1> DEFINE bit(i) == IF i \in S THEN 1 ELSE 0
           b0 == bit(0)  b1 == bit(1)  b2 == bit(2)  b3 == bit(3)
           b4 == bit(4)  b5 == bit(5)  b6 == bit(6)  b7 == bit(7)
           v == FromBits(S)
<1>1. v = b0 + 2 * b1 + 4 * b2 + 8 * b3 + 16 * b4 + 32 * b5 + 64 * b6 + 128 * b7
  BY DEF FromBits
<1>2. /\ b0 \in {0, 1} /\ b1 \in {0, 1} /\ b2 \in {0, 1} /\ b3 \in {0, 1}
      /\ b4 \in {0, 1} /\ b5 \in {0, 1} /\ b6 \in {0, 1} /\ b7 \in {0, 1}
  OBVIOUS
<1>3. /\ (0 \in S <=> b0 = 1)
      /\ (1 \in S <=> b1 = 1)
      /\ (2 \in S <=> b2 = 1)
      /\ (3 \in S <=> b3 = 1)
      /\ (4 \in S <=> b4 = 1)
      /\ (5 \in S <=> b5 = 1)
      /\ (6 \in S <=> b6 = 1)
      /\ (7 \in S <=> b7 = 1)
  OBVIOUS
<1> HIDE DEF bit, b0, b1, b2, b3, b4, b5, b6, b7, v
<1>4. /\ v \div 2   = b1 + 2 * b2 + 4 * b3 + 8 * b4 + 16 * b5 + 32 * b6 + 64 * b7
      /\ v \div 4   = b2 + 2 * b3 + 4 * b4 + 8 * b5 + 16 * b6 + 32 * b7
      /\ v \div 8   = b3 + 2 * b4 + 4 * b5 + 8 * b6 + 16 * b7
      /\ v \div 16  = b4 + 2 * b5 + 4 * b6 + 8 * b7
      /\ v \div 32  = b5 + 2 * b6 + 4 * b7
      /\ v \div 64  = b6 + 2 * b7
      /\ v \div 128 = b7
      /\ v \in Int
  BY <1>1, <1>2
<1>5. /\ v % 2 = b0            /\ (v \div 2) % 2 = b1   /\ (v \div 4) % 2 = b2
      /\ (v \div 8) % 2 = b3   /\ (v \div 16) % 2 = b4  /\ (v \div 32) % 2 = b5
      /\ (v \div 64) % 2 = b6  /\ (v \div 128) % 2 = b7
  BY <1>1, <1>2, <1>4
<1>6. /\ (0 \in Bits(v) <=> v % 2 = 1)
      /\ (1 \in Bits(v) <=> (v \div 2) % 2 = 1)
      /\ (2 \in Bits(v) <=> (v \div 4) % 2 = 1)
      /\ (3 \in Bits(v) <=> (v \div 8) % 2 = 1)
      /\ (4 \in Bits(v) <=> (v \div 16) % 2 = 1)
      /\ (5 \in Bits(v) <=> (v \div 32) % 2 = 1)
      /\ (6 \in Bits(v) <=> (v \div 64) % 2 = 1)
      /\ (7 \in Bits(v) <=> (v \div 128) % 2 = 1)
  BY <1>4 DEF Bits
<1>7. \A i \in 0..7 : i \in Bits(v) <=> i \in S
  BY <1>3, <1>5, <1>6
<1>8. Bits(v) \subseteq 0..7
  BY DEF Bits
<1>9. Bits(v) = S
  BY <1>7, <1>8
<1> QED
  BY <1>9 DEF v

(* What PHP pushes PLP turns into the same flags, and what PLP took is     *)
(* what PHP would push, all eight bits of the status register included     *)
(* (mos6502.c PHP_handler, PLP_handler, mos6502.h stat_reg_t).             *)
THEOREM StatusRoundTrip ==
  /\ \A p \in SUBSET Flags : PFromVal(PVal(p)) = p
  /\ \A v \in Byte : PVal(PFromVal(v)) = v
<1>1. ASSUME NEW p \in SUBSET Flags PROVE PFromVal(PVal(p)) = p
  <2> DEFINE S == {FlagBit[f] : f \in p}
  <2>1. S \in SUBSET (0..7)
    BY FlagBits
  <2>2. \A f \in Flags : FlagBit[f] \in S <=> f \in p
    BY FlagBits
  <2> HIDE DEF S
  <2>3. Bits(FromBits(S)) = S
    BY <2>1, BitsOfSet
  <2>4. PFromVal(PVal(p)) = {f \in Flags : FlagBit[f] \in S}
    BY <2>3 DEF PFromVal, PVal, S
  <2> QED
    BY <2>2, <2>4
<1> QED
  BY <1>1, FlagsOfByte

(* The carry as a number                                                   *)
CarryOf(p) == IF "c" \in p THEN 1 ELSE 0

(* ADC is exact: carry and accumulator together are the sum (mos6502.c     *)
(* ADC_IMM_handler and the other modes).                                   *)
THEOREM AdcAdds ==
  \A a, v \in Byte : \A p \in SUBSET Flags :
    256 * CarryOf(Adc(a, v, p).p) + Adc(a, v, p).a = a + v + CarryOf(p)
<1> SUFFICES ASSUME NEW a \in Byte, NEW v \in Byte, NEW p \in SUBSET Flags
             PROVE  256 * CarryOf(Adc(a, v, p).p) + Adc(a, v, p).a = a + v + CarryOf(p)
  OBVIOUS
<1> DEFINE sum == a + v + CarryOf(p)
           q   == IF sum > 255 THEN p \cup {"c", "v"} ELSE p \ {"c"}
           r   == U8(sum)
<1>1. Adc(a, v, p) = [a |-> r, p |-> ExactZN(q, r)]
  BY DEF Adc, CarryOf
<1>2. sum \in Int /\ 0 <= sum /\ sum < 512
  BY IsByte DEF CarryOf
<1>3. "c" \in q <=> sum > 255
  OBVIOUS
<1> HIDE DEF q, sum
<1>4. r = IF sum > 255 THEN sum - 256 ELSE sum
  BY <1>2 DEF U8
<1> HIDE DEF r
<1>5. "c" \in ExactZN(q, r) <=> "c" \in q
  BY DEF ExactZN, Assign
<1>6. CarryOf(Adc(a, v, p).p) = IF sum > 255 THEN 1 ELSE 0
  BY <1>1, <1>3, <1>5 DEF CarryOf
<1>7. Adc(a, v, p).a = r
  BY <1>1
<1>8. 256 * CarryOf(Adc(a, v, p).p) + Adc(a, v, p).a = sum
  BY <1>2, <1>4, <1>6, <1>7
<1> QED
  BY <1>8 DEF sum

(* So a guest adds words byte by byte: CLC, ADC of the low bytes, ADC of   *)
(* the high bytes with the carry of the first.                             *)
THEOREM AdcAddsWords ==
  ASSUME NEW h1 \in Byte, NEW l1 \in Byte, NEW h2 \in Byte, NEW l2 \in Byte,
         NEW p \in SUBSET Flags, "c" \notin p
  PROVE  LET low  == Adc(l1, l2, p)
             high == Adc(h1, h2, low.p)
         IN  65536 * CarryOf(high.p) + MakeWord(high.a, low.a)
               = MakeWord(h1, l1) + MakeWord(h2, l2)
<1> DEFINE low  == Adc(l1, l2, p)
           high == Adc(h1, h2, low.p)
           c    == CarryOf(low.p)
           d    == CarryOf(high.p)
<1>1. low.a \in Byte /\ low.p \in SUBSET Flags
  BY AdcTypes
<1>2. 256 * c + low.a = l1 + l2
  <2>1. 256 * c + low.a = l1 + l2 + CarryOf(p)
    BY AdcAdds
  <2>2. CarryOf(p) = 0
    BY DEF CarryOf
  <2> QED
    BY <2>1, <2>2, Widths
<1> HIDE DEF low
<1>3. high.a \in Byte
  BY <1>1, AdcTypes
<1>4. 256 * d + high.a = h1 + h2 + c
  BY <1>1, AdcAdds
<1>5. c \in Int /\ d \in Int
  BY DEF CarryOf
<1> HIDE DEF high, c, d
<1>6. 65536 * d + (256 * high.a + low.a) = (256 * h1 + l1) + (256 * h2 + l2)
  <2> DEFINE x == high.a
             y == low.a
  <2>1. x \in Int /\ y \in Int /\ h1 \in Int /\ l1 \in Int /\ h2 \in Int /\ l2 \in Int
    BY <1>1, <1>3, Widths
  <2>2. 256 * c + y = l1 + l2 /\ 256 * d + x = h1 + h2 + c
    BY <1>2, <1>4
  <2> HIDE DEF x, y
  <2>3. 65536 * d + (256 * x + y) = (256 * h1 + l1) + (256 * h2 + l2)
    BY <1>5, <2>1, <2>2
  <2> QED
    BY <2>3 DEF x, y
<1> QED
  BY <1>6 DEF MakeWord, low, high, d

-----------------------------------------------------------------------------
(* Every instruction a guest executes, whatever its bytes, takes two to    *)
(* eight cycles: what the mapper's filter for consecutive writes and the   *)
(* composition with the picture rest on (mos6502.c instr_cycles and        *)
(* mos6502_step).                                                          *)
THEOREM InstructionCosts == Spec => [][Step /\ status' = "running" => elapsed' \in 2..8]_vars
<1>1. ASSUME TypeOK, Step, status' = "running"
      PROVE  elapsed' \in 2..8
  <2>1. CyclesOf(Opcode) \in 2..8
    BY <1>1, ReadTypes, CyclesRange
  <2>2. CASE \E ops : Instr(ops)
    BY <2>1, <2>2 DEF Instr
  <2>3. CASE VmCallStep
    <3>1. Operand # 1
      BY <1>1, <2>3 DEF VmCallStep
    <3>2. elapsed' = CyclesOf(Opcode)
      BY <2>3, <3>1 DEF VmCallStep
    <3> QED
      BY <2>1, <3>2
  <2>4. CASE CallNull
    BY <1>1, <2>4 DEF CallNull
  <2>5. (\E ops : Instr(ops)) \/ VmCallStep \/ CallNull
    BY <1>1 DEF Step, Load, Store, LogicOp, AddSub, CompareOp, BitOp, ShiftAcc, ShiftMem,
       IncDecMem, IncDecReg, Transfer, SetFlag, Nop, Branch, Jump, Jsr, Rts, Push, Pull, Brk, Rti
  <2> QED
    BY <2>2, <2>3, <2>4, <2>5
<1>2. TypeOK /\ [Next]_vars => [Step /\ status' = "running" => elapsed' \in 2..8]_vars
  BY <1>1
<1> QED
  BY <1>2, CpuTypes, PTL DEF Spec

-----------------------------------------------------------------------------
(* A comparison and the branch after it: equality decides BEQ and BNE      *)
(* exactly; a carry of before the comparison takes BCS as well, whatever   *)
(* is compared, and makes BCC fall through (mos6502.c CMP_IMM_handler,     *)
(* CPX_IMM_handler, CPY_IMM_handler, BEQ_handler .. BCS_handler).          *)
THEOREM CompareThenBranch ==
  \A r, v \in Byte : \A p \in SUBSET Flags :
    /\ BranchTaken("BEQ", Compare(r, v, p)) <=> r = v
    /\ BranchTaken("BNE", Compare(r, v, p)) <=> r # v
    /\ BranchTaken("BCS", Compare(r, v, p)) <=> (r >= v \/ "c" \in p)
    /\ BranchTaken("BCC", Compare(r, v, p)) <=> (r < v /\ "c" \notin p)
    /\ BranchTaken("BMI", Compare(r, v, p)) <=> (r < v \/ r - v >= 128)
<1> SUFFICES ASSUME NEW r \in Byte, NEW v \in Byte, NEW p \in SUBSET Flags
             PROVE  /\ "z" \in Compare(r, v, p) <=> r = v
                    /\ "c" \in Compare(r, v, p) <=> (r >= v \/ "c" \in p)
                    /\ "n" \in Compare(r, v, p) <=> (r < v \/ r - v >= 128)
                    /\ (r < v /\ "c" \notin p) <=> ~ (r >= v \/ "c" \in p)
  BY DEF BranchTaken
<1> DEFINE less == r < v
           far  == r - v >= 128
           same == r = v
           q    == IF r >= v THEN p \cup {"c"} ELSE p
<1>1. Compare(r, v, p) = Assign(Assign(q, "n", less \/ far), "z", same)
  BY DEF Compare, Bit7
<1>2. "c" \in q <=> (r >= v \/ "c" \in p)
  OBVIOUS
<1>3. r >= v <=> ~ less
  BY Widths
<1> HIDE DEF less, far, same, q
<1>4. /\ "z" \in Compare(r, v, p) <=> same
      /\ "n" \in Compare(r, v, p) <=> (less \/ far)
      /\ "c" \in Compare(r, v, p) <=> "c" \in q
  BY <1>1 DEF Assign
<1> QED
  BY <1>2, <1>3, <1>4 DEF less, far, same

(* SBC subtracts exactly, in every mode but the immediate one, as long as  *)
(* nothing is borrowed from above; C then stays what it was (mos6502.c     *)
(* SBC_ZP_handler and the other modes).                                    *)
THEOREM SbcSubtracts ==
  \A a, v \in Byte : \A p \in SUBSET Flags : \A mode \in MemModes :
    v + (1 - CarryOf(p)) <= a =>
      /\ Sbc(a, v, p, mode).a = a - v - (1 - CarryOf(p))
      /\ CarryOf(Sbc(a, v, p, mode).p) = CarryOf(p)
<1> SUFFICES ASSUME NEW a \in Byte, NEW v \in Byte, NEW p \in SUBSET Flags, NEW mode \in MemModes,
                    v + (1 - CarryOf(p)) <= a
             PROVE  /\ Sbc(a, v, p, mode).a = a - v - (1 - CarryOf(p))
                    /\ CarryOf(Sbc(a, v, p, mode).p) = CarryOf(p)
  OBVIOUS
<1> DEFINE borrow == IF "c" \in p THEN 0 ELSE 1
           diff   == CASE mode = "IMM"                 -> a - v - 1
                       [] mode \in {"ZP", "ZPX", "ABS"} -> a - v
                       [] OTHER                        -> a - v - borrow
           res    == U8(a - v - borrow)
           neg    == IF mode = "IDX" THEN diff < 0 \/ Bit7(diff) ELSE Bit7(U8(diff))
           zero   == diff = 0
           q      == IF diff < 0 THEN p \cup {"c", "v"} ELSE p
           acc    == IF diff < 0 THEN U8(res - v - 255) ELSE res
<1>1. Sbc(a, v, p, mode) = [a |-> acc, p |-> Assign(Assign(q, "n", neg), "z", zero)]
  BY DEF Sbc
<1>2. borrow = 1 - CarryOf(p) /\ borrow \in {0, 1}
  BY DEF CarryOf
<1>3. mode # "IMM"
  BY DEF MemModes
<1>4. diff = a - v \/ diff = a - v - borrow
  BY <1>3
<1> HIDE DEF borrow, diff
<1>5. a \in Int /\ v \in Int /\ 0 <= v /\ a < 256 /\ v + borrow <= a
  BY <1>2, IsByte
<1>6. diff >= 0 /\ diff \in Int
  BY <1>2, <1>4, <1>5
<1>7. res = a - v - borrow
  <2> DEFINE d == a - v - borrow
  <2>1. d \in Int /\ 0 <= d /\ d < 256
    BY <1>2, <1>5
  <2> HIDE DEF d
  <2>2. d % 256 = d
    BY <2>1
  <2> QED
    BY <2>2 DEF U8, d
<1> HIDE DEF res, neg, zero
<1>8. acc = res /\ q = p
  BY <1>6
<1> HIDE DEF acc, q
<1>9. "c" \in Sbc(a, v, p, mode).p <=> "c" \in p
  BY <1>1, <1>8 DEF Assign
<1> QED
  BY <1>1, <1>2, <1>7, <1>8, <1>9 DEF CarryOf
=============================================================================
