------------------------------- MODULE Sxrom -------------------------------
(***************************************************************************)
(* An SxROM cartridge: the MMC1 mapper's serial port (emu/nes/mmc1.c) and  *)
(* the memory windows emu/nes/sxrom.c sets from its registers after every  *)
(* write.  A bit is shifted in below the top of a register whose sentinel, *)
(* the 1 of its reset value, tells when five have come.                    *)
(*                                                                         *)
(* Windows are in units of the banks: 16K of PRG ROM, 4K of CHR ROM, 1K    *)
(* of video RAM.                                                           *)
(***************************************************************************)
EXTENDS Integers, Sequences

CONSTANTS
  Carts,      \* sizes [prg, chr] of cartridges, in banks
  Values,     \* what the program writes to a register
  MinCycles   \* the least entry of instr_cycles (2)

NBits    == 5
Regs     == 0..3
Sentinel == 2^NBits
FarApart == 3         \* a gap as good as any longer one

(* sxrom_setup takes ROMs of whole 32K and 8K units.                       *)
ASSUME CartsAssumption ==
  \A c \in Carts : /\ c.prg \in Nat \ {0} /\ c.prg % 2 = 0
                   /\ c.chr \in Nat \ {0} /\ c.chr % 2 = 0
ASSUME ValuesAssumption == Values \subseteq 0..(Sentinel - 1)
ASSUME CyclesAssumption == MinCycles \in 2..FarApart

VARIABLES
  cart,       \* the sizes of its memories
  shiftreg, reg, \* reg[0] to reg[3]
  gap,        \* CPU cycles since last_cpu_cyclenum, up to FarApart
  map,        \* what the windows of the two buses show
  lost        \* history: whether a write was ignored

vars == <<cart, shiftreg, reg, gap, map, lost>>

-----------------------------------------------------------------------------
(* The fields of the registers                                             *)
mirroring(r)   == r[0] % 4
HighFixed(r)   == (r[0] \div 4) % 2 = 1
Switching16(r) == (r[0] \div 8) % 2 = 1
Switching4(r)  == (r[0] \div 16) % 2 = 1
banksel(r)     == r[3] % 16
Even(n)        == 2 * (n \div 2)

(* Mutant: the last two mirrorings are swapped.                            *)
Mutant_NametablesSwapped(r) ==
  CASE mirroring(r) \in {0, 1} -> [q \in 1..4 |-> mirroring(r)]
    [] mirroring(r) = 2 -> <<0, 0, 1, 1>>
    [] mirroring(r) = 3 -> <<0, 1, 0, 1>>

Nametables(r) ==
  CASE mirroring(r) = 0 -> <<0, 0, 0, 0>>
    [] mirroring(r) = 1 -> <<1, 1, 1, 1>>
    [] mirroring(r) = 2 -> <<0, 1, 0, 1>>
    [] mirroring(r) = 3 -> <<0, 0, 1, 1>>

(* Mutant: a 32K switch takes the bank number as it is.                    *)
Mutant_PrgWindowsOdd(c, r) ==
  CASE ~Switching16(r) -> LET b == banksel(r) % c.prg IN <<b, b + 1>>
    [] Switching16(r) /\ ~HighFixed(r) -> <<0, banksel(r) % c.prg>>
    [] Switching16(r) /\ HighFixed(r) -> <<banksel(r) % c.prg, c.prg - 1>>

PrgWindows(c, r) ==
  CASE ~Switching16(r) -> LET b == Even(banksel(r)) % c.prg IN <<b, b + 1>>
    [] Switching16(r) /\ ~HighFixed(r) -> <<0, banksel(r) % c.prg>>
    [] Switching16(r) /\ HighFixed(r) -> <<banksel(r) % c.prg, c.prg - 1>>

ChrWindows(c, r) ==
  IF Switching4(r)
  THEN <<r[1] % c.chr, r[2] % c.chr>>
  ELSE LET b == Even(r[1]) % c.chr IN <<b, b + 1>>

remap(c, r) == [prg |-> PrgWindows(c, r), chr |-> ChrWindows(c, r), nt |-> Nametables(r)]

-----------------------------------------------------------------------------
(* The reset: 16K switching with the low bank fixed, the other registers   *)
(* zero from their allocation, and no write ever seen: a gap of FarApart.  *)
(* The code notes UINT64_MAX as the last write's cycle, which would make a *)
(* write at cycle 0 a consecutive one; there is none, as mos6502_reset     *)
(* spends 8 cycles before the first instruction.                           *)
Init ==
  /\ cart \in Carts
  /\ shiftreg = Sentinel
  /\ reg = [k \in Regs |-> CASE k = 0 -> 8 [] k = 3 -> 15 [] k \in {1, 2} -> 0]
  /\ gap = FarApart
  /\ map = remap(cart, reg)
  /\ lost = FALSE

(* An instruction passes; its writes have come before its cycles.          *)
Instruction ==
  /\ \E cycles \in MinCycles..FarApart :
       gap' = IF gap + cycles > FarApart THEN FarApart ELSE gap + cycles
  /\ UNCHANGED <<cart, shiftreg, reg, map, lost>>

(* Mutants: two writes in one cycle count as consecutive; a bit enters     *)
(* where it leaves.                                                        *)
Mutant_IgnoredSame == gap <= 1
Mutant_ShiftedLow(b) == (shiftreg \div 2) + (Sentinel \div 2) * b

(* The shift register with the next bit in it                              *)
Shifted(b) == (shiftreg \div 2) + Sentinel * b
Done(s) == s % 2 = 1

(* Consecutive writes are ignored; and the value below the sentinel.       *)
Ignored == gap = 1
Delivered(s) == s \div 2

(* mmc1_reg_write: a bit for the register its address names                *)
WriteBit(r, b) ==
  /\ gap' = 0
  /\ IF Ignored
     THEN lost' = TRUE /\ UNCHANGED <<shiftreg, reg>>
     ELSE /\ LET s == Shifted(b)
             IN  IF Done(s)
                 THEN shiftreg' = Sentinel /\ reg' = [reg EXCEPT ![r] = Delivered(s)]
                 ELSE shiftreg' = s /\ UNCHANGED reg
          /\ UNCHANGED lost
  /\ map' = remap(cart, reg')
  /\ UNCHANGED cart

(* A write with bit 7: it returns before the time of the write is noted.   *)
WriteReset ==
  /\ IF Ignored
     THEN gap' = 0 /\ lost' = TRUE /\ UNCHANGED shiftreg
     ELSE shiftreg' = Sentinel /\ UNCHANGED <<gap, lost>>
  /\ map' = remap(cart, reg)
  /\ UNCHANGED <<cart, reg>>

-----------------------------------------------------------------------------
(* The bits collected: the sentinel is the lowest 1 of the register.       *)
Count == CHOOSE n \in 0..(NBits - 1) :
           shiftreg % 2^(NBits - n) = 0 /\ (shiftreg \div 2^(NBits - n)) % 2 = 1
Collected == [k \in 1..Count |-> (shiftreg \div 2^(NBits - Count + k)) % 2]
BitsOf(n) == [k \in 1..NBits |-> (n \div 2^(k - 1)) % 2]

(* The program writes the bits of one of its values ...                    *)
Writing(b) == \E n \in Values : SubSeq(BitsOf(n), 1, Count + 1) = Append(Collected, b)

Next ==
  \/ Instruction
  \/ \E r \in Regs, b \in {0, 1} : Writing(b) /\ WriteBit(r, b)
  \/ WriteReset

Spec == Init /\ [][Next]_vars

-----------------------------------------------------------------------------
TypeOK ==
  /\ cart \in Carts
  /\ shiftreg \in 0..(2 * Sentinel - 1) /\ ~Done(shiftreg)
  /\ reg \in [Regs -> 0..(Sentinel - 1)]
  /\ gap \in 0..FarApart /\ lost \in BOOLEAN
  /\ map.nt \in [1..4 -> {0, 1}]

(* No window ever shows memory beyond the end of a ROM, whatever the sizes *)
(* and whatever junk the registers hold (memory.c:29, an assertion that is *)
(* compiled out); a window of two banks shows two neighbours.              *)
MapInBounds ==
  /\ \A k \in 1..2 : map.prg[k] \in 0..(cart.prg - 1) /\ map.chr[k] \in 0..(cart.chr - 1)
  /\ ~Switching16(reg) => map.prg[2] = map.prg[1] + 1
  /\ ~Switching4(reg) => map.chr[2] = map.chr[1] + 1

(* The filter for consecutive writes never takes a program's write away:   *)
(* instructions are at least two cycles apart, several writes at one cycle *)
(* (a VM call's buffer, the shell's poke) are no cycle apart, and the      *)
(* first write is not one cycle after the "never" of the reset.            *)
EveryWriteCounts == ~lost

(* The sentinel trick implements the serial port.                          *)
Port == INSTANCE SerialPort WITH bits <- Collected,
                                 regs <- [r \in Regs |-> BitsOf(reg[r])]
ImplementsPort == Port!Spec
=============================================================================
