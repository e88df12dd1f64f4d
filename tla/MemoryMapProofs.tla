--------------------------- MODULE MemoryMapProofs ---------------------------
(***************************************************************************)
(* Proofs about Sxrom, for any cartridges and any values written, and then *)
(* about MemoryMap for every page size, every proportion K and every       *)
(* header: the two tables of a bus agree, no page shows memory beyond the  *)
(* end of its memory, every page of a cartridge's windows shows what its   *)
(* mapper promises, and the nametables have the geometry of their          *)
(* mirroring.                                                              *)
(***************************************************************************)
EXTENDS MemoryMap, SequenceTheorems, TLAPS

-----------------------------------------------------------------------------
(* The mapper alone                                                        *)

(* A write is not one cycle after the one before; and the windows are what *)
(* the registers say.                                                      *)
GapInv == gap # 1 /\ ~lost
MapInv == map = remap(cart, reg)

RegsOK(r) == r \in [Regs -> 0..(Sentinel - 1)]
CartOK(c) == /\ c.prg \in Nat \ {0} /\ c.prg % 2 = 0
             /\ c.chr \in Nat \ {0} /\ c.chr % 2 = 0

LEMMA SentinelValue == Sentinel = 32
BY DEF Sentinel, NBits

LEMMA RegFacts ==
  ASSUME NEW r, RegsOK(r)
  PROVE  \A k \in Regs : r[k] \in 0..31
BY SentinelValue DEF RegsOK

-----------------------------------------------------------------------------
(* The remainder of a bank number is a bank, and that of an even one by an *)
(* even number of banks is the first of two.                               *)
LEMMA BankInRom ==
  ASSUME NEW size \in Nat \ {0}, NEW x \in Nat
  PROVE  x % size \in 0..(size - 1)
OBVIOUS

LEMMA PairInRom ==
  ASSUME NEW size \in Nat \ {0}, size % 2 = 0, NEW x \in Nat
  PROVE  Even(x) % size \in 0..(size - 1) /\ (Even(x) % size) + 1 \in 0..(size - 1)
<1> DEFINE e == Even(x)
           b == e % size
           q == e \div size
           h == size \div 2
<1>1. e \in Nat /\ e = 2 * (x \div 2) /\ x \div 2 \in Int
  BY DEF Even
<1>2. size = 2 * h /\ h \in Int
  OBVIOUS
<1>3. e = size * q + b /\ q \in Int /\ b \in 0..(size - 1)
  <2> HIDE DEF e
  <2> QED
    BY <1>1
<1>4. size * q = 2 * (h * q) /\ h * q \in Int
  <2>1. \A u, v \in Int : (2 * u) * v = 2 * (u * v) /\ u * v \in Int
    OBVIOUS
  <2> HIDE DEF q, h
  <2> QED
    BY <1>2, <1>3, <2>1
<1>5. b # size - 1
  <2>1. ASSUME NEW m \in Int, NEW y \in Int, NEW k \in Int, NEW z \in Int,
               2 * y = 2 * m + z, z = 2 * k - 1
        PROVE  FALSE
    BY <2>1
  <2> HIDE DEF e, b, q, h
  <2> QED
    BY <1>1, <1>2, <1>3, <1>4, <2>1
<1> QED
  BY <1>3, <1>5

LEMMA RemapInBounds ==
  ASSUME NEW c, CartOK(c), NEW r, RegsOK(r)
  PROVE  LET m == remap(c, r)
         IN  /\ m.prg[1] \in 0..(c.prg - 1) /\ m.prg[2] \in 0..(c.prg - 1)
             /\ m.chr[1] \in 0..(c.chr - 1) /\ m.chr[2] \in 0..(c.chr - 1)
             /\ ~Switching16(r) => m.prg[2] = m.prg[1] + 1
             /\ ~Switching4(r) => m.chr[2] = m.chr[1] + 1
<1> DEFINE m == remap(c, r)
<1>1. banksel(r) \in Nat /\ r[1] \in Nat /\ r[2] \in Nat
  <2>1. r[0] \in 0..31 /\ r[1] \in 0..31 /\ r[2] \in 0..31 /\ r[3] \in 0..31
    BY RegFacts DEF Regs
  <2> QED
    BY <2>1 DEF banksel
<1>2. m.prg = PrgWindows(c, r) /\ m.chr = ChrWindows(c, r)
  BY DEF remap
<1>3. /\ m.prg[1] \in 0..(c.prg - 1) /\ m.prg[2] \in 0..(c.prg - 1)
      /\ ~Switching16(r) => m.prg[2] = m.prg[1] + 1
  <2> DEFINE b == Even(banksel(r)) % c.prg
             s == banksel(r) % c.prg
  <2>1. b \in 0..(c.prg - 1) /\ b + 1 \in 0..(c.prg - 1)
    BY <1>1, PairInRom DEF CartOK
  <2>2. s \in 0..(c.prg - 1) /\ 0 \in 0..(c.prg - 1) /\ c.prg - 1 \in 0..(c.prg - 1)
    <3>1. c.prg \in Nat \ {0}
      BY DEF CartOK
    <3>2. s \in 0..(c.prg - 1)
      BY <1>1, <3>1, BankInRom
    <3> QED
      BY <3>1, <3>2
  <2>3. CASE ~Switching16(r)
    <3>1. PrgWindows(c, r) = <<b, b + 1>>
      BY <2>3, Zenon DEF PrgWindows
    <3> HIDE DEF b, m
    <3> QED
      BY <1>2, <2>1, <2>3, <3>1
  <2>4. CASE Switching16(r) /\ ~HighFixed(r)
    <3>1. PrgWindows(c, r) = <<0, s>>
      BY <2>4, Zenon DEF PrgWindows
    <3> HIDE DEF s, m
    <3> QED
      BY <1>2, <2>2, <2>4, <3>1
  <2>5. CASE Switching16(r) /\ HighFixed(r)
    <3>1. PrgWindows(c, r) = <<s, c.prg - 1>>
      BY <2>5, Zenon DEF PrgWindows
    <3> HIDE DEF s, m
    <3> QED
      BY <1>2, <2>2, <2>5, <3>1
  <2> QED
    BY <2>3, <2>4, <2>5
<1>4. /\ m.chr[1] \in 0..(c.chr - 1) /\ m.chr[2] \in 0..(c.chr - 1)
      /\ ~Switching4(r) => m.chr[2] = m.chr[1] + 1
  <2> DEFINE b == Even(r[1]) % c.chr
  <2>1. CASE ~Switching4(r)
    <3>1. b \in 0..(c.chr - 1) /\ b + 1 \in 0..(c.chr - 1)
      BY <1>1, PairInRom DEF CartOK
    <3>2. ChrWindows(c, r) = <<b, b + 1>>
      BY <2>1, Zenon DEF ChrWindows
    <3> HIDE DEF b, m
    <3> QED
      BY <1>2, <2>1, <3>1, <3>2
  <2>2. CASE Switching4(r)
    <3>1. r[1] % c.chr \in 0..(c.chr - 1) /\ r[2] % c.chr \in 0..(c.chr - 1)
      BY <1>1, BankInRom DEF CartOK
    <3>2. ChrWindows(c, r) = <<r[1] % c.chr, r[2] % c.chr>>
      BY <2>2, Zenon DEF ChrWindows
    <3> HIDE DEF m
    <3> QED
      BY <1>2, <2>2, <3>1, <3>2
  <2> QED
    BY <2>1, <2>2
<1> QED
  BY <1>3, <1>4

LEMMA NametablesType ==
  ASSUME NEW c, NEW r, RegsOK(r)
  PROVE  remap(c, r).nt \in [1..4 -> {0, 1}]
<1>1. mirroring(r) \in {0, 1, 2, 3}
  <2>1. r[0] \in 0..31
    BY RegFacts DEF Regs
  <2> QED
    BY <2>1 DEF mirroring
<1>2. Nametables(r) \in {<<0, 0, 0, 0>>, <<1, 1, 1, 1>>, <<0, 1, 0, 1>>, <<0, 0, 1, 1>>}
  BY <1>1, Zenon DEF Nametables
<1>3. {<<0, 0, 0, 0>>, <<1, 1, 1, 1>>, <<0, 1, 0, 1>>, <<0, 0, 1, 1>>} \subseteq [1..4 -> {0, 1}]
  OBVIOUS
<1> QED
  BY <1>2, <1>3 DEF remap

-----------------------------------------------------------------------------
(* A shifted register is in range, and what is delivered of it fits.       *)
LEMMA ShiftedType ==
  ASSUME NEW b \in {0, 1}, shiftreg \in 0..63
  PROVE  Shifted(b) \in 0..63 /\ Delivered(Shifted(b)) \in 0..31
<1>1. shiftreg \div 2 \in 0..31
  OBVIOUS
<1>2. Shifted(b) \in 0..63
  BY <1>1, SentinelValue DEF Shifted
<1> HIDE DEF Shifted
<1> QED
  BY <1>2 DEF Delivered

Inv == TypeOK /\ MapInv /\ GapInv

LEMMA CartFacts == \A c \in Carts : CartOK(c)
BY CartsAssumption DEF CartOK

LEMMA InitInv == Init => Inv
<1> SUFFICES ASSUME Init PROVE Inv
  OBVIOUS
<1>1. RegsOK(reg)
  <2>1. \A k \in Regs : (CASE k = 0 -> 8 [] k = 3 -> 15 [] k \in {1, 2} -> 0) \in 0..31
    BY DEF Regs
  <2>2. [k \in Regs |-> CASE k = 0 -> 8 [] k = 3 -> 15 [] k \in {1, 2} -> 0] \in [Regs -> 0..31]
    BY <2>1, Zenon
  <2>3. 0..(Sentinel - 1) = 0..31
    BY SentinelValue
  <2> QED
    BY <2>2, <2>3, Zenon DEF Init, RegsOK
<1>2. shiftreg \in 0..(2 * Sentinel - 1) /\ ~Done(shiftreg)
  BY SentinelValue DEF Init, Done
<1>3. gap \in 0..FarApart /\ gap # 1 /\ lost = FALSE
  BY DEF Init, FarApart
<1>4. map.nt \in [1..4 -> {0, 1}]
  BY <1>1, NametablesType DEF Init
<1> QED
  BY <1>1, <1>2, <1>3, <1>4 DEF Init, Inv, TypeOK, MapInv, GapInv, RegsOK

(* The part of the invariant that a step of the port must establish        *)
LEMMA Rest ==
  ASSUME Inv, cart' = cart, RegsOK(reg'), map' = remap(cart, reg'),
         shiftreg' \in 0..(2 * Sentinel - 1) /\ ~Done(shiftreg'),
         gap' \in 0..FarApart, gap' # 1, lost' = FALSE
  PROVE  Inv'
<1>1. map'.nt \in [1..4 -> {0, 1}]
  BY NametablesType
<1> QED
  BY <1>1 DEF Inv, TypeOK, MapInv, GapInv, RegsOK

LEMMA NextInv == Inv /\ [Next]_vars => Inv'
<1> SUFFICES ASSUME Inv, [Next]_vars PROVE Inv'
  OBVIOUS
<1>0. /\ RegsOK(reg) /\ gap \in 0..3 /\ gap # 1 /\ lost = FALSE /\ ~Ignored
      /\ shiftreg \in 0..(2 * Sentinel - 1) /\ ~Done(shiftreg)
      /\ map = remap(cart, reg)
  BY DEF Inv, TypeOK, MapInv, GapInv, RegsOK, Ignored, FarApart
<1>1. CASE Instruction
  <2>1. PICK cycles \in MinCycles..FarApart :
          gap' = IF gap + cycles > FarApart THEN FarApart ELSE gap + cycles
    BY <1>1 DEF Instruction
  <2>2. gap' \in 0..FarApart /\ gap' # 1
    BY <1>0, <2>1, CyclesAssumption DEF FarApart
  <2> QED
    BY <1>0, <1>1, <2>2, Rest DEF Instruction
<1>2. ASSUME NEW r \in Regs, NEW b \in {0, 1}, WriteBit(r, b) PROVE Inv'
  <2>1. gap' \in 0..FarApart /\ gap' # 1 /\ lost' = FALSE /\ cart' = cart
    BY <1>0, <1>2 DEF WriteBit, FarApart
  <2>2. map' = remap(cart, reg')
    BY <1>2 DEF WriteBit
  <2>3. Shifted(b) \in 0..63 /\ Delivered(Shifted(b)) \in 0..31
    BY <1>0, SentinelValue, ShiftedType
  <2>4. CASE Done(Shifted(b))
    <3>1. shiftreg' = Sentinel /\ reg' = [reg EXCEPT ![r] = Delivered(Shifted(b))]
      BY <1>0, <1>2, <2>4, Zenon DEF WriteBit
    <3>2. RegsOK(reg')
      BY <1>0, <2>3, <3>1, SentinelValue DEF RegsOK
    <3>3. shiftreg' \in 0..(2 * Sentinel - 1) /\ ~Done(shiftreg')
      BY <3>1, SentinelValue DEF Done
    <3> QED
      BY <2>1, <2>2, <3>2, <3>3, Rest
  <2>5. CASE ~Done(Shifted(b))
    <3>1. shiftreg' = Shifted(b) /\ reg' = reg
      BY <1>0, <1>2, <2>5, Zenon DEF WriteBit
    <3>2. shiftreg' \in 0..(2 * Sentinel - 1) /\ ~Done(shiftreg')
      BY <2>3, <2>5, <3>1, SentinelValue
    <3> QED
      BY <1>0, <2>1, <2>2, <3>1, <3>2, Rest
  <2> QED
    BY <2>4, <2>5
<1>3. CASE WriteReset
  <2>1. shiftreg' = Sentinel /\ gap' = gap /\ lost' = lost
    BY <1>0, <1>3, Zenon DEF WriteReset
  <2>2. shiftreg' \in 0..(2 * Sentinel - 1) /\ ~Done(shiftreg')
    BY <2>1, SentinelValue DEF Done
  <2> QED
    BY <1>0, <1>3, <2>1, <2>2, Rest DEF WriteReset, FarApart
<1>4. CASE UNCHANGED vars
  BY <1>4 DEF vars, Inv, TypeOK, MapInv, GapInv
<1> QED
  BY <1>1, <1>2, <1>3, <1>4 DEF Next

-----------------------------------------------------------------------------
(* Type correctness: between writes the shift register is never complete,  *)
(* and a register never holds more than five bits.                         *)
THEOREM TypeCorrect == Spec => []TypeOK
<1>1. Inv => TypeOK
  BY DEF Inv
<1> QED
  BY <1>1, InitInv, NextInv, PTL DEF Spec

(* No register contents map a window beyond a ROM, for ROMs of any even    *)
(* number of banks.                                                        *)
THEOREM WindowsInRom == Spec => []MapInBounds
<1>1. Inv => MapInBounds
  <2> SUFFICES ASSUME Inv PROVE MapInBounds
    OBVIOUS
  <2>1. CartOK(cart) /\ RegsOK(reg) /\ map = remap(cart, reg)
    BY CartFacts DEF Inv, TypeOK, MapInv, RegsOK
  <2>2. /\ map.prg[1] \in 0..(cart.prg - 1) /\ map.prg[2] \in 0..(cart.prg - 1)
        /\ map.chr[1] \in 0..(cart.chr - 1) /\ map.chr[2] \in 0..(cart.chr - 1)
        /\ ~Switching16(reg) => map.prg[2] = map.prg[1] + 1
        /\ ~Switching4(reg) => map.chr[2] = map.chr[1] + 1
    BY <2>1, RemapInBounds, Zenon
  <2>3. \A k \in 1..2 : k = 1 \/ k = 2
    OBVIOUS
  <2> QED
    BY <2>2, <2>3, Zenon DEF MapInBounds
<1> QED
  BY <1>1, InitInv, NextInv, PTL DEF Spec

(* The filter for consecutive writes takes none away, as long as no        *)
(* instruction takes fewer than two cycles.                                *)
THEOREM NoWriteIsLost == Spec => []EveryWriteCounts
<1>1. Inv => EveryWriteCounts
  BY DEF Inv, GapInv, EveryWriteCounts
<1> QED
  BY <1>1, InitInv, NextInv, PTL DEF Spec

-----------------------------------------------------------------------------
(* The serial port.  Bits of a number, and what shifting does to them      *)
Bit(x, j) == (x \div 2^j) % 2

LEMMA Powers ==
  /\ 2^0 = 1 /\ 2^1 = 2 /\ 2^2 = 4 /\ 2^3 = 8 /\ 2^4 = 16 /\ 2^5 = 32
  /\ \A j \in 0..5 : j = 0 \/ j = 1 \/ j = 2 \/ j = 3 \/ j = 4 \/ j = 5
OBVIOUS

LEMMA BitType == ASSUME NEW x \in Nat, NEW j \in 0..5 PROVE Bit(x, j) \in {0, 1}
<1>1. 2^j \in {1, 2, 4, 8, 16, 32}
  BY Powers, Zenon
<1>2. \A d \in {1, 2, 4, 8, 16, 32} : (x \div d) % 2 \in {0, 1}
  OBVIOUS
<1> QED
  BY <1>1, <1>2 DEF Bit

LEMMA BitsShift ==
  ASSUME NEW x \in 0..63, NEW b \in {0, 1}
  PROVE  /\ \A j \in 0..4 : Bit((x \div 2) + 32 * b, j) = Bit(x, j + 1)
         /\ Bit((x \div 2) + 32 * b, 5) = b
<1> DEFINE y == (x \div 2) + 32 * b
<1>1. /\ (y \div 1) % 2 = (x \div 2) % 2 /\ (y \div 2) % 2 = (x \div 4) % 2
      /\ (y \div 4) % 2 = (x \div 8) % 2 /\ (y \div 8) % 2 = (x \div 16) % 2
      /\ (y \div 16) % 2 = (x \div 32) % 2 /\ (y \div 32) % 2 = b
  <2>1. CASE b = 0
    BY <2>1
  <2>2. CASE b = 1
    BY <2>2
  <2> QED
    BY <2>1, <2>2
<1>2. /\ Bit(y, 0) = (y \div 1) % 2 /\ Bit(y, 1) = (y \div 2) % 2 /\ Bit(y, 2) = (y \div 4) % 2
      /\ Bit(y, 3) = (y \div 8) % 2 /\ Bit(y, 4) = (y \div 16) % 2 /\ Bit(y, 5) = (y \div 32) % 2
  BY Powers, Zenon DEF Bit
<1>3. /\ Bit(x, 1) = (x \div 2) % 2 /\ Bit(x, 2) = (x \div 4) % 2
      /\ Bit(x, 3) = (x \div 8) % 2 /\ Bit(x, 4) = (x \div 16) % 2 /\ Bit(x, 5) = (x \div 32) % 2
  BY Powers, Zenon DEF Bit
<1> HIDE DEF y
<1>4. /\ Bit(y, 0) = Bit(x, 1) /\ Bit(y, 1) = Bit(x, 2) /\ Bit(y, 2) = Bit(x, 3)
      /\ Bit(y, 3) = Bit(x, 4) /\ Bit(y, 4) = Bit(x, 5) /\ Bit(y, 5) = b
  BY <1>1, <1>2, <1>3, Zenon
<1>5. \A j \in 0..4 : (j = 0 \/ j = 1 \/ j = 2 \/ j = 3 \/ j = 4)
  OBVIOUS
<1>6. 0 + 1 = 1 /\ 1 + 1 = 2 /\ 2 + 1 = 3 /\ 3 + 1 = 4 /\ 4 + 1 = 5
  OBVIOUS
<1>7. \A j \in 0..4 : Bit(y, j) = Bit(x, j + 1)
  BY <1>4, <1>5, <1>6, Zenon
<1> QED
  BY <1>4, <1>7 DEF y

LEMMA BitsHalf ==
  ASSUME NEW x \in Nat, NEW j \in 0..4
  PROVE  Bit(x \div 2, j) = Bit(x, j + 1)
<1>1. /\ ((x \div 2) \div 1) % 2 = (x \div 2) % 2 /\ ((x \div 2) \div 2) % 2 = (x \div 4) % 2
      /\ ((x \div 2) \div 4) % 2 = (x \div 8) % 2 /\ ((x \div 2) \div 8) % 2 = (x \div 16) % 2
      /\ ((x \div 2) \div 16) % 2 = (x \div 32) % 2
  OBVIOUS
<1>2. j = 0 \/ j = 1 \/ j = 2 \/ j = 3 \/ j = 4
  OBVIOUS
<1>3. 0 + 1 = 1 /\ 1 + 1 = 2 /\ 2 + 1 = 3 /\ 3 + 1 = 4 /\ 4 + 1 = 5
  OBVIOUS
<1> QED
  BY <1>1, <1>2, <1>3, Powers, Zenon DEF Bit

(* How many bits a register x holds: its sentinel is bit 5 - n.            *)
Holds(x, n) == x % 2^(5 - n) = 0 /\ Bit(x, 5 - n) = 1

LEMMA HoldsCases ==
  ASSUME NEW x \in 0..63
  PROVE  /\ Holds(x, 0) <=> x % 32 = 0 /\ (x \div 32) % 2 = 1
         /\ Holds(x, 1) <=> x % 16 = 0 /\ (x \div 16) % 2 = 1
         /\ Holds(x, 2) <=> x % 8 = 0 /\ (x \div 8) % 2 = 1
         /\ Holds(x, 3) <=> x % 4 = 0 /\ (x \div 4) % 2 = 1
         /\ Holds(x, 4) <=> x % 2 = 0 /\ (x \div 2) % 2 = 1
<1>1. 5 - 0 = 5 /\ 5 - 1 = 4 /\ 5 - 2 = 3 /\ 5 - 3 = 2 /\ 5 - 4 = 1
  OBVIOUS
<1>2. Holds(x, 0) <=> x % 32 = 0 /\ (x \div 32) % 2 = 1
  BY <1>1, Powers, Zenon DEF Holds, Bit
<1>3. Holds(x, 1) <=> x % 16 = 0 /\ (x \div 16) % 2 = 1
  BY <1>1, Powers, Zenon DEF Holds, Bit
<1>4. Holds(x, 2) <=> x % 8 = 0 /\ (x \div 8) % 2 = 1
  BY <1>1, Powers, Zenon DEF Holds, Bit
<1>5. Holds(x, 3) <=> x % 4 = 0 /\ (x \div 4) % 2 = 1
  BY <1>1, Powers, Zenon DEF Holds, Bit
<1>6. Holds(x, 4) <=> x % 2 = 0 /\ (x \div 2) % 2 = 1
  BY <1>1, Powers, Zenon DEF Holds, Bit
<1> QED
  BY <1>2, <1>3, <1>4, <1>5, <1>6

LEMMA FourCases == \A n \in 0..4 : n = 0 \/ n = 1 \/ n = 2 \/ n = 3 \/ n = 4
OBVIOUS

LEMMA HoldsOne ==
  ASSUME NEW x \in 0..63, NEW m \in 0..4, NEW n \in 0..4, Holds(x, m), Holds(x, n)
  PROVE  m = n
<1>1. /\ ~(Holds(x, 0) /\ Holds(x, 1)) /\ ~(Holds(x, 0) /\ Holds(x, 2))
      /\ ~(Holds(x, 0) /\ Holds(x, 3)) /\ ~(Holds(x, 0) /\ Holds(x, 4))
      /\ ~(Holds(x, 1) /\ Holds(x, 2)) /\ ~(Holds(x, 1) /\ Holds(x, 3))
      /\ ~(Holds(x, 1) /\ Holds(x, 4)) /\ ~(Holds(x, 2) /\ Holds(x, 3))
      /\ ~(Holds(x, 2) /\ Holds(x, 4)) /\ ~(Holds(x, 3) /\ Holds(x, 4))
  BY HoldsCases
<1> QED
  BY <1>1, FourCases, Zenon

LEMMA HoldsSome ==
  ASSUME NEW x \in 1..63, x % 2 = 0
  PROVE  \E n \in 0..4 : Holds(x, n)
<1>1. Holds(x, 0) \/ Holds(x, 1) \/ Holds(x, 2) \/ Holds(x, 3) \/ Holds(x, 4)
  BY HoldsCases
<1>2. 0 \in 0..4 /\ 1 \in 0..4 /\ 2 \in 0..4 /\ 3 \in 0..4 /\ 4 \in 0..4
  OBVIOUS
<1> QED
  BY <1>1, <1>2, Zenon

LEMMA HoldsShift ==
  ASSUME NEW x \in 1..63, x % 2 = 0, NEW b \in {0, 1}, NEW n \in 0..4, Holds(x, n)
  PROVE  /\ n < 4 => Holds((x \div 2) + 32 * b, n + 1) /\ ~Done((x \div 2) + 32 * b)
         /\ n = 4 => Done((x \div 2) + 32 * b)
<1> DEFINE y == (x \div 2) + 32 * b
<1>1. y \in 0..63
  OBVIOUS
<1>2. /\ Holds(x, 0) => y % 16 = 0 /\ (y \div 16) % 2 = 1
      /\ Holds(x, 1) => y % 8 = 0 /\ (y \div 8) % 2 = 1
      /\ Holds(x, 2) => y % 4 = 0 /\ (y \div 4) % 2 = 1
      /\ Holds(x, 3) => y % 2 = 0 /\ (y \div 2) % 2 = 1
      /\ Holds(x, 4) => y % 2 = 1
  <2>1. CASE b = 0
    BY <2>1, HoldsCases
  <2>2. CASE b = 1
    BY <2>2, HoldsCases
  <2> QED
    BY <2>1, <2>2
<1> HIDE DEF y
<1>3. /\ y % 16 = 0 => y % 2 = 0
      /\ y % 8 = 0 => y % 2 = 0
      /\ y % 4 = 0 => y % 2 = 0
  BY <1>1
<1>4. /\ Holds(x, 0) => Holds(y, 1) /\ y % 2 = 0
      /\ Holds(x, 1) => Holds(y, 2) /\ y % 2 = 0
      /\ Holds(x, 2) => Holds(y, 3) /\ y % 2 = 0
      /\ Holds(x, 3) => Holds(y, 4) /\ y % 2 = 0
  BY <1>1, <1>2, <1>3, HoldsCases, Zenon
<1>5. 0 + 1 = 1 /\ 1 + 1 = 2 /\ 2 + 1 = 3 /\ 3 + 1 = 4 /\ ~(4 < 4) /\ ~(0 = 1)
      /\ 0 # 4 /\ 1 # 4 /\ 2 # 4 /\ 3 # 4
  OBVIOUS
<1>6. n < 4 => Holds(y, n + 1) /\ y % 2 = 0
  BY <1>4, <1>5, FourCases, Zenon
<1>7. n = 4 => y % 2 = 1
  BY <1>2, Zenon
<1> QED
  BY <1>5, <1>6, <1>7, Zenon DEF Done, y

-----------------------------------------------------------------------------
(* The bits collected by a register x that holds n of them                 *)
BitsIn(x, n) == [k \in 1..n |-> Bit(x, 5 - n + k)]

LEMMA CollectedIs ==
  ASSUME shiftreg \in 1..63, shiftreg % 2 = 0
  PROVE  Count \in 0..4 /\ Holds(shiftreg, Count) /\ Collected = BitsIn(shiftreg, Count)
<1>1. NBits = 5 /\ NBits - 1 = 4
  BY DEF NBits
<1>2. Count = CHOOSE n \in 0..4 : Holds(shiftreg, n)
  BY <1>1, Zenon DEF Count, Holds, Bit
<1>3. Count \in 0..4 /\ Holds(shiftreg, Count)
  BY <1>2, HoldsSome, Zenon
<1>4. Collected = BitsIn(shiftreg, Count)
  BY <1>1, Zenon DEF Collected, BitsIn, Bit
<1> QED
  BY <1>3, <1>4

LEMMA BitsInType ==
  ASSUME NEW x \in Nat, NEW n \in 0..5
  PROVE  /\ BitsIn(x, n) \in Seq({0, 1}) /\ Len(BitsIn(x, n)) = n
         /\ \A k \in 1..n : BitsIn(x, n)[k] = Bit(x, 5 - n + k)
<1>1. \A k \in 1..n : Bit(x, 5 - n + k) \in {0, 1}
  <2>1. \A k \in 1..n : 5 - n + k \in 0..5
    OBVIOUS
  <2> QED
    BY <2>1, BitType
<1>2. BitsIn(x, n) \in [1..n -> {0, 1}] /\ n \in Nat
  BY <1>1 DEF BitsIn
<1>3. BitsIn(x, n) \in Seq({0, 1})
  BY <1>2, SeqDef, Zenon
<1>4. DOMAIN BitsIn(x, n) = 1..n
  BY <1>2
<1>5. Len(BitsIn(x, n)) = n
  BY <1>2, <1>3, <1>4
<1> QED
  BY <1>3, <1>5, Zenon DEF BitsIn

(* Shifting a bit in appends it to the bits collected; the fifth completes *)
(* the value that is delivered.                                            *)
LEMMA AppendBit ==
  ASSUME NEW x \in 0..63, NEW b \in {0, 1}, NEW n \in 0..4
  PROVE  BitsIn((x \div 2) + 32 * b, n + 1) = Append(BitsIn(x, n), b)
<1> DEFINE y == (x \div 2) + 32 * b
<1>1. x \in Nat /\ y \in Nat /\ n + 1 \in 0..5 /\ n \in 0..5
  OBVIOUS
<1>2. /\ \A j \in 0..4 : Bit(y, j) = Bit(x, j + 1)
      /\ Bit(y, 5) = b
  BY BitsShift
<1> HIDE DEF y
<1>3. ASSUME NEW k \in 1..(n + 1)
      PROVE  BitsIn(y, n + 1)[k] = Append(BitsIn(x, n), b)[k]
  <2>1. BitsIn(y, n + 1)[k] = Bit(y, 5 - (n + 1) + k)
    BY <1>1, BitsInType
  <2>2. BitsIn(x, n) \in Seq({0, 1}) /\ Len(BitsIn(x, n)) = n
    BY <1>1, BitsInType
  <2>3. CASE k = n + 1
    <3>1. 5 - (n + 1) + k = 5 /\ Append(BitsIn(x, n), b)[k] = b
      BY <2>2, <2>3
    <3> QED
      BY <1>2, <2>1, <3>1, Zenon
  <2>4. CASE k # n + 1
    <3> DEFINE j == 5 - (n + 1) + k
    <3>1. k \in 1..n /\ j \in 0..4 /\ j + 1 = 5 - n + k
      BY <2>4
    <3>2. Append(BitsIn(x, n), b)[k] = BitsIn(x, n)[k]
      BY <2>2, <3>1
    <3>3. BitsIn(x, n)[k] = Bit(x, j + 1)
      BY <1>1, <3>1, BitsInType
    <3> HIDE DEF j
    <3>4. Bit(y, j) = Bit(x, j + 1)
      BY <1>2, <3>1
    <3> QED
      BY <2>1, <3>2, <3>3, <3>4, Zenon DEF j
  <2> QED
    BY <2>3, <2>4
<1>4. BitsIn(y, n + 1) \in Seq({0, 1}) /\ Len(BitsIn(y, n + 1)) = n + 1
  BY <1>1, BitsInType
<1>5. Append(BitsIn(x, n), b) \in Seq({0, 1}) /\ Len(Append(BitsIn(x, n), b)) = n + 1
  <2>1. BitsIn(x, n) \in Seq({0, 1}) /\ Len(BitsIn(x, n)) = n
    BY <1>1, BitsInType
  <2> QED
    BY <2>1
<1>6. BitsIn(y, n + 1) = Append(BitsIn(x, n), b)
  BY <1>3, <1>4, <1>5, SeqEqual
<1> QED
  BY <1>6 DEF y

LEMMA DeliveredBits ==
  ASSUME NEW y \in Nat
  PROVE  BitsOf(y \div 2) = BitsIn(y, 5)
<1>1. ASSUME NEW k \in 1..5 PROVE Bit(y \div 2, k - 1) = Bit(y, 5 - 5 + k)
  <2>1. k - 1 \in 0..4 /\ (k - 1) + 1 = k /\ 5 - 5 + k = k
    OBVIOUS
  <2> QED
    BY <2>1, BitsHalf
<1>2. BitsOf(y \div 2) = [k \in 1..5 |-> Bit(y \div 2, k - 1)]
  BY Zenon DEF BitsOf, NBits, Bit
<1> QED
  BY <1>1, <1>2, Zenon DEF BitsIn

LEMMA BitsOfType == ASSUME NEW x \in Nat PROVE BitsOf(x) \in [1..NBits -> {0, 1}]
<1>1. \A k \in 1..5 : k - 1 \in 0..5
  OBVIOUS
<1>2. \A k \in 1..5 : Bit(x, k - 1) \in {0, 1}
  BY <1>1, BitType
<1> QED
  BY <1>2 DEF BitsOf, Bit, NBits

-----------------------------------------------------------------------------
(* The port's state                                                        *)
Loaded == shiftreg # 0 /\ Inv

LEMMA LoadedFacts == Loaded => shiftreg \in 1..63 /\ shiftreg % 2 = 0
BY SentinelValue DEF Loaded, Inv, TypeOK, Done

LEMMA LoadedInit == Init => Loaded
BY InitInv, SentinelValue DEF Init, Loaded

LEMMA ShiftedIs == \A b \in {0, 1} : Shifted(b) = (shiftreg \div 2) + 32 * b
BY SentinelValue DEF Shifted

LEMMA LoadedNext == Loaded /\ [Next]_vars => Loaded'
<1> SUFFICES ASSUME Loaded, [Next]_vars PROVE Loaded'
  OBVIOUS
<1>0. Inv' /\ shiftreg \in 1..63 /\ shiftreg % 2 = 0
  BY NextInv, LoadedFacts DEF Loaded
<1>1. ASSUME NEW b \in {0, 1} PROVE Shifted(b) # 0
  BY <1>0, <1>1, ShiftedIs
<1>2. shiftreg' = shiftreg \/ shiftreg' = Sentinel \/ \E b \in {0, 1} : shiftreg' = Shifted(b)
  <2>1. CASE Instruction
    BY <2>1 DEF Instruction
  <2>2. ASSUME NEW r \in Regs, NEW b \in {0, 1}, WriteBit(r, b)
        PROVE  shiftreg' = shiftreg \/ shiftreg' = Sentinel \/ shiftreg' = Shifted(b)
    BY <2>2, Zenon DEF WriteBit
  <2>3. CASE WriteReset
    BY <2>3, Zenon DEF WriteReset
  <2>4. CASE UNCHANGED vars
    BY <2>4 DEF vars
  <2> QED
    BY <2>1, <2>2, <2>3, <2>4, Zenon DEF Next
<1>3. shiftreg' # 0
  BY <1>0, <1>1, <1>2, SentinelValue
<1> QED
  BY <1>0, <1>3 DEF Loaded

LEMMA ResetCollects ==
  /\ shiftreg = Sentinel => Collected = <<>>
  /\ shiftreg' = Sentinel => Collected' = <<>>
<1>1. Holds(32, 0)
  BY HoldsCases
<1>2. \A x : BitsIn(x, 0) = <<>>
  <2>1. 1..0 = {}
    OBVIOUS
  <2> QED
    BY <2>1 DEF BitsIn
<1>3. 32 \in 0..63 /\ 32 \in 1..63 /\ 32 % 2 = 0 /\ 0 \in 0..4
  OBVIOUS
<1>4. \A n \in 0..4 : Holds(32, n) => n = 0
  BY <1>1, <1>3, HoldsOne
<1>5. shiftreg = Sentinel => Collected = <<>>
  <2> SUFFICES ASSUME shiftreg = 32 PROVE Collected = <<>>
    BY SentinelValue
  <2>1. Count \in 0..4 /\ Holds(32, Count) /\ Collected = BitsIn(32, Count)
    BY <1>3, CollectedIs
  <2> QED
    BY <1>2, <1>4, <2>1
<1>6. NBits = 5 /\ NBits - 1 = 4
  BY DEF NBits
<1>7. ASSUME shiftreg' = 32 PROVE Collected' = <<>>
  <2>1. Count' = CHOOSE n \in 0..4 : Holds(32, n)
    BY <1>6, <1>7, Zenon DEF Count, Holds, Bit
  <2>2. Count' = 0
    BY <1>1, <1>3, <1>4, <2>1, Zenon
  <2>3. Collected' = BitsIn(32, 0)
    BY <1>6, <1>7, <2>2, Zenon DEF Collected, BitsIn, Bit
  <2> QED
    BY <1>2, <2>3
<1> QED
  BY <1>5, <1>7, SentinelValue

(* The port's registers are the mapper's, bit by bit.                      *)
Registers == [r \in Regs |-> BitsOf(reg[r])]

(* The sentinel trick implements the serial port, whatever is written and  *)
(* whenever: a step of the mapper is a step of the port or none.           *)
THEOREM PortImplemented == Spec => ImplementsPort
<1>1. Init => Port!Init
  <2> SUFFICES ASSUME Init PROVE Port!Init
    OBVIOUS
  <2>1. Collected = <<>>
    BY ResetCollects DEF Init
  <2>2. ASSUME NEW r \in Regs PROVE BitsOf(reg[r]) \in [1..NBits -> {0, 1}]
    <3>1. reg \in [Regs -> 0..31]
      <4>1. reg \in [Regs -> 0..(Sentinel - 1)] /\ Sentinel - 1 = 31
        BY InitInv, SentinelValue DEF Inv, TypeOK
      <4> QED
        BY <4>1
    <3>2. reg[r] \in Nat
      BY <3>1
    <3> QED
      BY <3>2, BitsOfType
  <2> QED
    BY <2>1, <2>2 DEF Port!Init
<1>2. Loaded /\ [Next]_vars => [Port!Next]_<<Collected, Registers>>
  <2> SUFFICES ASSUME Loaded, [Next]_vars
               PROVE  Port!Next \/ (Collected' = Collected /\ Registers' = Registers)
    OBVIOUS
  <2>0. /\ shiftreg \in 1..63 /\ shiftreg % 2 = 0 /\ shiftreg \in 0..63 /\ ~Ignored
        /\ reg \in [Regs -> 0..31]
    BY LoadedFacts, SentinelValue DEF Loaded, Inv, TypeOK, GapInv, Ignored
  <2> DEFINE n == Count
  <2>1. n \in 0..4 /\ Holds(shiftreg, n) /\ Collected = BitsIn(shiftreg, n)
    BY <2>0, CollectedIs
  <2>2. Collected \in Seq({0, 1}) /\ Len(Collected) = n
    <3>1. shiftreg \in Nat /\ n \in 0..5
      BY <2>0, <2>1
    <3> QED
      BY <2>1, <3>1, BitsInType, Zenon
  <2>3. ASSUME UNCHANGED <<shiftreg, reg>>
        PROVE  Collected' = Collected /\ Registers' = Registers
    <3>1. shiftreg' = shiftreg /\ reg' = reg
      BY <2>3
    <3>2. Count' = Count
      BY <3>1 DEF Count
    <3>3. Collected' = Collected
      BY <3>1, <3>2 DEF Collected
    <3>4. Registers' = Registers
      BY <3>1 DEF Registers
    <3> QED
      BY <3>3, <3>4
  <2>4. CASE Instruction
    BY <2>3, <2>4 DEF Instruction
  <2>5. CASE UNCHANGED vars
    BY <2>3, <2>5 DEF vars
  <2>6. CASE WriteReset
    <3>1. shiftreg' = Sentinel /\ reg' = reg
      BY <2>0, <2>6, Zenon DEF WriteReset
    <3>2. Collected' = <<>> /\ Registers' = Registers
      BY <3>1, ResetCollects DEF Registers
    <3> QED
      BY <3>2 DEF Port!Next, Port!Clear, Registers
  <2>7. ASSUME NEW r \in Regs, NEW b \in {0, 1}, WriteBit(r, b) PROVE Port!Next
    <3> DEFINE y == Shifted(b)
    <3>1. y = (shiftreg \div 2) + 32 * b
      BY ShiftedIs
    <3>2. y \in 0..63 /\ y \in Nat
      BY <2>0, <3>1
    <3>3. /\ n < 4 => Holds(y, n + 1) /\ ~Done(y)
          /\ n = 4 => Done(y)
          /\ BitsIn(y, n + 1) = Append(Collected, b)
      BY <2>0, <2>1, <3>1, HoldsShift, AppendBit
    <3>4. NBits = 5
      BY DEF NBits
    <3>5. CASE n = 4
      <4>1. shiftreg' = Sentinel /\ reg' = [reg EXCEPT ![r] = Delivered(y)]
        BY <2>0, <2>7, <3>3, <3>5, Zenon DEF WriteBit
      <4>2. Collected' = <<>>
        BY <4>1, ResetCollects
      <4>3. BitsOf(Delivered(y)) = Append(Collected, b)
        BY <3>2, <3>3, <3>5, DeliveredBits DEF Delivered
      <4>4. Registers' = [Registers EXCEPT ![r] = Append(Collected, b)]
        <5>1. \A q \in Regs : BitsOf(reg'[q]) = IF q = r THEN Append(Collected, b)
                                                 ELSE BitsOf(reg[q])
          BY <2>0, <4>1, <4>3
        <5>2. \A q \in Regs : q = r \/ q # r
          OBVIOUS
        <5> QED
          BY <5>1 DEF Registers
      <4>5. Len(Collected) + 1 = NBits
        BY <2>2, <3>4, <3>5
      <4>6. Port!Deliver(r, b)
        BY <4>2, <4>4, <4>5 DEF Port!Deliver, Registers
      <4> QED
        BY <4>6, Zenon DEF Port!Next
    <3>6. CASE n # 4
      <4>1. n < 4 /\ n + 1 \in 0..4
        BY <2>1, <3>6
      <4>2. shiftreg' = y /\ reg' = reg
        BY <2>0, <2>7, <3>3, <4>1, Zenon DEF WriteBit
      <4>3. Collected' = BitsIn(y, n + 1)
        <5>1. Count' = CHOOSE m \in 0..4 : Holds(y, m)
          <6>1. NBits - 1 = 4
            BY <3>4
          <6> QED
            BY <3>4, <4>2, <6>1, Zenon DEF Count, Holds, Bit
        <5>2. \A m \in 0..4 : Holds(y, m) => m = n + 1
          BY <3>2, <3>3, <4>1, HoldsOne
        <5>3. Count' = n + 1
          BY <3>3, <4>1, <5>1, <5>2, Zenon
        <5> QED
          BY <3>4, <4>2, <5>3, Zenon DEF Collected, BitsIn, Bit
      <4>4. Registers' = Registers
        BY <4>2 DEF Registers
      <4>5. Len(Collected) + 1 < NBits
        BY <2>2, <3>4, <4>1
      <4>6. Port!Collect(b)
        BY <3>3, <4>3, <4>4, <4>5 DEF Port!Collect, Registers
      <4> QED
        BY <4>6, Zenon DEF Port!Next
    <3> QED
      BY <3>5, <3>6
  <2> QED
    BY <2>4, <2>5, <2>6, <2>7 DEF Next
<1>3. Loaded /\ [Next]_vars => [Port!Next]_<<Collected, [r \in Regs |-> BitsOf(reg[r])]>>
  BY <1>2 DEF Registers
<1> QED
  BY <1>1, <1>3, LoadedInit, LoadedNext, PTL DEF Spec, ImplementsPort, Port!Spec

-----------------------------------------------------------------------------
(* The mapper on the buses                                                 *)

LEMMA Sizes == /\ PageSize \in Nat \ {0} /\ K \in Nat \ {0} /\ RamUnit \in Nat \ {0}
               /\ B \in Nat \ {0}
<1>1. PageSize \in Nat \ {0} /\ K \in Nat \ {0} /\ RamUnit \in Nat \ {0}
  BY PageAssumption, KAssumption
<1>2. \A a, b \in Nat \ {0} : a * b \in Nat \ {0}
  OBVIOUS
<1> QED
  BY <1>1, <1>2 DEF B

-----------------------------------------------------------------------------
(* Products and quotients                                                  *)
LEMMA TimesMonotone ==
  ASSUME NEW a \in Nat, NEW b \in Nat, NEW d \in Nat, a <= b
  PROVE  a * d \in Nat /\ b * d \in Nat /\ a * d <= b * d
<1>1. PICK m \in Nat : b = a + m
  <2>1. b - a \in Nat /\ b = a + (b - a)
    OBVIOUS
  <2> QED
    BY <2>1
<1>2. b * d = a * d + m * d /\ m * d \in Nat /\ a * d \in Nat
  BY <1>1
<1> QED
  BY <1>2

LEMMA QuotientTimes ==
  ASSUME NEW x \in Nat, NEW d \in Nat \ {0}
  PROVE  x \div d \in Nat /\ (x \div d) * d <= x /\ x < (x \div d) * d + d
OBVIOUS

LEMMA QuotientAtLeast ==
  ASSUME NEW x \in Nat, NEW a \in Nat, NEW d \in Nat \ {0}, a * d <= x
  PROVE  a <= x \div d
<1> DEFINE q == x \div d
<1>1. q \in Nat /\ x < q * d + d
  BY QuotientTimes
<1>2. ASSUME q + 1 <= a PROVE FALSE
  <2>1. (q + 1) * d <= a * d
    BY <1>1, <1>2, TimesMonotone
  <2>2. (q + 1) * d = q * d + d
    BY <1>1
  <2>3. q * d \in Nat /\ a * d \in Nat
    BY <1>1
  <2> HIDE DEF q
  <2> QED
    BY <1>1, <2>1, <2>2, <2>3
<1> HIDE DEF q
<1>3. a <= q
  BY <1>1, <1>2
<1> QED
  BY <1>3 DEF q

LEMMA QuotientSum ==
  ASSUME NEW x \in Nat, NEW y \in Nat, NEW d \in Nat \ {0}, NEW a \in Nat, x + y <= a * d
  PROVE  (x \div d) + (y \div d) <= a
<1> DEFINE q == x \div d
           r == y \div d
<1>1. q \in Nat /\ q * d <= x /\ r \in Nat /\ r * d <= y
  BY QuotientTimes
<1>2. ASSUME a + 1 <= q + r PROVE FALSE
  <2> HIDE DEF q, r
  <2>1. (a + 1) * d <= (q + r) * d
    BY <1>1, <1>2, TimesMonotone
  <2>2. (a + 1) * d = a * d + d /\ (q + r) * d = q * d + r * d
    BY <1>1
  <2>3. q * d \in Nat /\ r * d \in Nat /\ a * d \in Nat
    BY <1>1
  <2> QED
    BY <1>1, <2>1, <2>2, <2>3
<1> HIDE DEF q, r
<1>3. q + r <= a
  BY <1>1, <1>2
<1> QED
  BY <1>3 DEF q, r

(* The pages of a window lie where its addresses do, and the places it     *)
(* shows lie in the part of the memory it is given.                        *)
LEMMA WindowBounds ==
  ASSUME NEW from \in Nat, NEW size \in Nat, NEW a \in Nat, a * PageSize <= from
  PROVE  \A p \in Window(from, size) : p \in Nat /\ a <= p
<1>1. from \div PageSize \in Nat /\ size \div PageSize \in Nat /\ a <= from \div PageSize
  BY Sizes, QuotientTimes, QuotientAtLeast
<1> QED
  BY <1>1 DEF Window

LEMMA WindowEnds ==
  ASSUME NEW from \in Nat, NEW size \in Nat, NEW b \in Nat, from + size <= b * PageSize
  PROVE  \A p \in Window(from, size) : p < b
<1>1. /\ from \div PageSize \in Nat /\ size \div PageSize \in Nat
      /\ (from \div PageSize) + (size \div PageSize) <= b
  BY Sizes, QuotientTimes, QuotientSum
<1> QED
  BY <1>1 DEF Window

LEMMA WindowPlaces ==
  ASSUME NEW from \in Nat, NEW size \in Nat, NEW start \in Nat, NEW p \in Window(from, size)
  PROVE  LET at == start + (p - (from \div PageSize)) * PageSize
         IN  at \in Nat /\ at + PageSize <= start + size
<1> DEFINE f == from \div PageSize
           s == size \div PageSize
           k == p - f
<1>1. f \in Nat /\ s \in Nat /\ s * PageSize <= size
  BY Sizes, QuotientTimes
<1>2. k \in Nat /\ k + 1 <= s
  BY <1>1 DEF Window
<1> HIDE DEF f, s, k
<1>3. (k + 1) * PageSize <= s * PageSize
  BY <1>1, <1>2, Sizes, TimesMonotone
<1>4. (k + 1) * PageSize = k * PageSize + PageSize /\ k * PageSize \in Nat /\ s * PageSize \in Nat
  BY <1>1, <1>2, Sizes
<1>5. start + k * PageSize \in Nat /\ start + k * PageSize + PageSize <= start + size
  BY <1>1, <1>3, <1>4, Sizes
<1> QED
  BY <1>5 DEF f, k

-----------------------------------------------------------------------------
(* What is kept of a bus whose RAM is on the pages lo..hi-1: its pages lie *)
(* in their memories, writes go to RAM only, on those pages, and where     *)
(* reads do; a handler in the upper half is an SxROM's and gets an address *)
(* of that half.                                                           *)
Pages == 0..(8 * K - 1)
Rams  == {"ram", "wram", "vram"}

Within(e) == e.kind = "data" => e.at \in Nat /\ e.at + PageSize <= SizeOf(e.obj)

PagesOK(r, x, lo, hi) ==
  \A p \in Pages :
    /\ Within(r[p]) /\ Within(x[p])
    /\ x[p].kind = "data" => lo <= p /\ p < hi /\ r[p] = x[p] /\ x[p].obj \in Rams
    /\ x[p].kind = "handler" /\ 4 * K <= p =>
         mapper = 1 /\ x[p].at \in 0..(4 * B - 1)

Good(bus, lo, hi) ==
  DOMAIN bus.read = Pages /\ DOMAIN bus.write = Pages /\ PagesOK(bus.read, bus.write, lo, hi)

LEMMA EmptyGood == \A lo, hi : Good(EmptyBus(8 * K), lo, hi)
BY DEF Good, PagesOK, Pages, EmptyBus, NoMapping, Within

(* Entries that show a memory from start on, on some pages                 *)
Showing(e, mem) == e.kind = "data" /\ e.obj = mem.name /\ Within(e)

LEMMA EntryOfWindow ==
  ASSUME NEW mem, NEW from \in Nat, NEW size \in Nat, NEW start \in Nat,
         SizeOf(mem.name) \in Nat, start + size <= SizeOf(mem.name),
         NEW p \in Window(from, size)
  PROVE  Showing(Data(mem.name, start + (p - (from \div PageSize)) * PageSize), mem)
<1> DEFINE at == start + (p - (from \div PageSize)) * PageSize
<1>1. at \in Nat /\ at + PageSize <= start + size
  BY WindowPlaces
<1> HIDE DEF at
<1>2. at + PageSize <= SizeOf(mem.name)
  BY <1>1, Sizes
<1> QED
  <2>1. Data(mem.name, at).kind = "data" /\ Data(mem.name, at).obj = mem.name
        /\ Data(mem.name, at).at = at
    BY DEF Data
  <2>2. Showing(Data(mem.name, at), mem)
    BY <1>1, <1>2, <2>1, Zenon DEF Showing, Within
  <2> QED
    BY <2>2 DEF at

LEMMA MapRam ==
  ASSUME NEW bus, NEW lo, NEW hi, Good(bus, lo, hi),
         NEW mem, mem.writeable = TRUE, mem.name \in Rams,
         NEW from \in Nat, NEW size \in Nat, NEW start \in Nat,
         SizeOf(mem.name) \in Nat, start + size <= SizeOf(mem.name),
         \A p \in Window(from, size) : lo <= p /\ p < hi
  PROVE  Good(memory_map(bus, mem, from, size, start), lo, hi)
<1> DEFINE new == memory_map(bus, mem, from, size, start)
           e(p) == Data(mem.name, start + (p - (from \div PageSize)) * PageSize)
<1>1. /\ new.read = Shown(bus.read, mem, from, size, start)
      /\ new.write = Shown(bus.write, mem, from, size, start)
  BY DEF memory_map
<1>2. DOMAIN new.read = Pages /\ DOMAIN new.write = Pages
  BY <1>1 DEF Shown, Good
<1>3. ASSUME NEW p \in Pages, p \in Window(from, size)
      PROVE  new.read[p] = e(p) /\ new.write[p] = e(p) /\ Showing(e(p), mem)
  BY <1>1, <1>3, EntryOfWindow DEF Shown, Good
<1>4. ASSUME NEW p \in Pages, p \notin Window(from, size)
      PROVE  new.read[p] = bus.read[p] /\ new.write[p] = bus.write[p]
  BY <1>1, <1>4 DEF Shown, Good
<1> HIDE DEF new, e
<1>5. PagesOK(new.read, new.write, lo, hi)
  <2> SUFFICES ASSUME NEW p \in Pages
               PROVE  /\ Within(new.read[p]) /\ Within(new.write[p])
                      /\ new.write[p].kind = "data" =>
                           /\ lo <= p /\ p < hi /\ new.read[p] = new.write[p]
                           /\ new.write[p].obj \in Rams
                      /\ new.write[p].kind = "handler" /\ 4 * K <= p =>
                           mapper = 1 /\ new.write[p].at \in 0..(4 * B - 1)
    BY Zenon DEF PagesOK
  <2>1. CASE p \in Window(from, size)
    BY <1>3, <2>1 DEF Showing
  <2>2. CASE p \notin Window(from, size)
    BY <1>4, <2>2 DEF Good, PagesOK
  <2> QED
    BY <2>1, <2>2
<1> QED
  BY <1>2, <1>5 DEF Good, new

LEMMA MapRom ==
  ASSUME NEW bus, NEW lo, NEW hi, Good(bus, lo, hi),
         NEW mem, mem.writeable = FALSE,
         NEW from \in Nat, NEW size \in Nat, NEW start \in Nat,
         SizeOf(mem.name) \in Nat, start + size <= SizeOf(mem.name),
         \A p \in Window(from, size) : ~(lo <= p /\ p < hi)
  PROVE  Good(memory_map(bus, mem, from, size, start), lo, hi)
<1> DEFINE new == memory_map(bus, mem, from, size, start)
           e(p) == Data(mem.name, start + (p - (from \div PageSize)) * PageSize)
<1>1. new.read = Shown(bus.read, mem, from, size, start) /\ new.write = bus.write
  BY DEF memory_map
<1>2. DOMAIN new.read = Pages /\ DOMAIN new.write = Pages
  BY <1>1 DEF Shown, Good
<1>3. ASSUME NEW p \in Pages, p \in Window(from, size)
      PROVE  new.read[p] = e(p) /\ Showing(e(p), mem) /\ bus.write[p].kind # "data"
  BY <1>1, <1>3, EntryOfWindow DEF Shown, Good, PagesOK
<1>4. ASSUME NEW p \in Pages, p \notin Window(from, size)
      PROVE  new.read[p] = bus.read[p]
  BY <1>1, <1>4 DEF Shown, Good
<1> HIDE DEF e
<1>5. PagesOK(new.read, new.write, lo, hi)
  <2>1. new.write = bus.write
    BY <1>1
  <2> HIDE DEF new
  <2> QED
    BY <1>3, <1>4, <2>1 DEF Good, PagesOK, Showing
<1> QED
  BY <1>2, <1>5 DEF Good

(* The same of the mirrors.                                                *)
LEMMA EntryOfMirror ==
  ASSUME NEW mem, NEW from \in Nat, NEW size \in Nat, NEW start \in Nat, NEW n \in Nat,
         SizeOf(mem.name) \in Nat, start + size <= SizeOf(mem.name),
         NEW entries, NEW p \in DOMAIN entries
  PROVE  LET new == Mirrored(entries, mem, from, size, start, n)
         IN  IF LastMirror(p, from, size, n) = {} THEN new[p] = entries[p]
             ELSE /\ Showing(new[p], mem)
                  /\ \E i \in 0..(n - 1) : p \in Window(from + i * size, size)
<1> DEFINE m == LastMirror(p, from, size, n)
           new == Mirrored(entries, mem, from, size, start, n)
<1>1. CASE m = {}
  BY <1>1 DEF Mirrored
<1>2. CASE m # {}
  <2> DEFINE i == CHOOSE j \in m : TRUE
  <2>1. i \in m
    BY <1>2
  <2>2. i \in 0..(n - 1) /\ p \in Window(from + i * size, size)
    <3> HIDE DEF i
    <3> QED
      BY <2>1 DEF LastMirror
  <2>3. new[p] = Data(mem.name, start + (p - ((from + i * size) \div PageSize)) * PageSize)
    BY <1>2 DEF Mirrored
  <2>4. from + i * size \in Nat
    <3> HIDE DEF i
    <3>1. i \in Nat
      BY <2>2
    <3> QED
      BY <3>1
  <2> HIDE DEF i, m, new
  <2>5. Showing(new[p], mem)
    BY <2>2, <2>3, <2>4, EntryOfWindow
  <2> QED
    BY <1>2, <2>2, <2>5 DEF m, new
<1> QED
  BY <1>1, <1>2

LEMMA MirrorRam ==
  ASSUME NEW bus, NEW lo, NEW hi, Good(bus, lo, hi),
         NEW mem, mem.writeable = TRUE, mem.name \in Rams,
         NEW from \in Nat, NEW size \in Nat, NEW start \in Nat, NEW n \in Nat,
         SizeOf(mem.name) \in Nat, start + size <= SizeOf(mem.name),
         \A i \in 0..(n - 1) : \A p \in Window(from + i * size, size) : lo <= p /\ p < hi
  PROVE  Good(memory_map_mirroring(bus, mem, from, size, start, n), lo, hi)
<1> DEFINE new == memory_map_mirroring(bus, mem, from, size, start, n)
           m(p) == LastMirror(p, from, size, n)
<1>1. /\ new.read = Mirrored(bus.read, mem, from, size, start, n)
      /\ new.write = Mirrored(bus.write, mem, from, size, start, n)
  BY DEF memory_map_mirroring
<1>2. DOMAIN new.read = Pages /\ DOMAIN new.write = Pages
  BY <1>1 DEF Mirrored, Good
<1>3. ASSUME NEW p \in Pages, m(p) # {}
      PROVE  lo <= p /\ p < hi /\ new.read[p] = new.write[p] /\ Showing(new.read[p], mem)
  <2>1. p \in DOMAIN bus.read /\ p \in DOMAIN bus.write
    BY DEF Good
  <2>2. Showing(new.read[p], mem) /\ \E i \in 0..(n - 1) : p \in Window(from + i * size, size)
    BY <1>1, <1>3, <2>1, EntryOfMirror
  <2>3. new.read[p] = new.write[p]
    BY <1>1, <1>3, <2>1 DEF Mirrored
  <2> QED
    BY <2>2, <2>3
<1>4. ASSUME NEW p \in Pages, m(p) = {}
      PROVE  new.read[p] = bus.read[p] /\ new.write[p] = bus.write[p]
  BY <1>1, <1>4 DEF Mirrored, Good
<1> HIDE DEF new, m
<1>5. PagesOK(new.read, new.write, lo, hi)
  <2> SUFFICES ASSUME NEW p \in Pages
               PROVE  /\ Within(new.read[p]) /\ Within(new.write[p])
                      /\ new.write[p].kind = "data" =>
                           /\ lo <= p /\ p < hi /\ new.read[p] = new.write[p]
                           /\ new.write[p].obj \in Rams
                      /\ new.write[p].kind = "handler" /\ 4 * K <= p =>
                           mapper = 1 /\ new.write[p].at \in 0..(4 * B - 1)
    BY Zenon DEF PagesOK
  <2>1. CASE m(p) # {}
    BY <1>3, <2>1 DEF Showing
  <2>2. CASE m(p) = {}
    BY <1>4, <2>2 DEF Good, PagesOK
  <2> QED
    BY <2>1, <2>2
<1> QED
  BY <1>2, <1>5 DEF Good, new

LEMMA MirrorRom ==
  ASSUME NEW bus, NEW lo, NEW hi, Good(bus, lo, hi),
         NEW mem, mem.writeable = FALSE,
         NEW from \in Nat, NEW size \in Nat, NEW start \in Nat, NEW n \in Nat,
         SizeOf(mem.name) \in Nat, start + size <= SizeOf(mem.name),
         \A i \in 0..(n - 1) : \A p \in Window(from + i * size, size) : ~(lo <= p /\ p < hi)
  PROVE  Good(memory_map_mirroring(bus, mem, from, size, start, n), lo, hi)
<1> DEFINE new == memory_map_mirroring(bus, mem, from, size, start, n)
           m(p) == LastMirror(p, from, size, n)
<1>1. new.read = Mirrored(bus.read, mem, from, size, start, n) /\ new.write = bus.write
  BY DEF memory_map_mirroring
<1>2. DOMAIN new.read = Pages /\ DOMAIN new.write = Pages
  BY <1>1 DEF Mirrored, Good
<1>3. ASSUME NEW p \in Pages, m(p) # {}
      PROVE  Showing(new.read[p], mem) /\ bus.write[p].kind # "data"
  <2>1. p \in DOMAIN bus.read
    BY DEF Good
  <2>2. Showing(new.read[p], mem) /\ \E i \in 0..(n - 1) : p \in Window(from + i * size, size)
    BY <1>1, <1>3, <2>1, EntryOfMirror
  <2>3. ~(lo <= p /\ p < hi)
    BY <2>2
  <2> QED
    BY <2>2, <2>3 DEF Good, PagesOK
<1>4. ASSUME NEW p \in Pages, m(p) = {}
      PROVE  new.read[p] = bus.read[p]
  BY <1>1, <1>4 DEF Mirrored, Good
<1>5. PagesOK(new.read, new.write, lo, hi)
  <2>1. new.write = bus.write
    BY <1>1
  <2> HIDE DEF new, m
  <2> QED
    BY <1>3, <1>4, <2>1 DEF Good, PagesOK, Showing
<1> QED
  BY <1>2, <1>5 DEF Good

(* Handlers on some pages of both tables                                   *)
LEMMA HandlersGood ==
  ASSUME NEW bus, NEW lo, NEW hi, Good(bus, lo, hi), NEW obj, NEW at,
         \A p \in DOMAIN at : p < 4 * K
  PROVE  Good([read |-> Handled(bus.read, obj, at), write |-> Handled(bus.write, obj, at)], lo, hi)
<1> DEFINE r == Handled(bus.read, obj, at)
           x == Handled(bus.write, obj, at)
<1>1. DOMAIN r = Pages /\ DOMAIN x = Pages
  BY DEF Good, Handled
<1>2. ASSUME NEW p \in Pages, p \in DOMAIN at
      PROVE  r[p].kind = "handler" /\ x[p].kind = "handler" /\ p < 4 * K
  BY <1>2 DEF Good, Handled, Handler
<1>3. ASSUME NEW p \in Pages, p \notin DOMAIN at
      PROVE  r[p] = bus.read[p] /\ x[p] = bus.write[p]
  BY <1>3 DEF Good, Handled
<1> HIDE DEF r, x
<1>4. PagesOK(r, x, lo, hi)
  <2> SUFFICES ASSUME NEW p \in Pages
               PROVE  /\ Within(r[p]) /\ Within(x[p])
                      /\ x[p].kind = "data" => lo <= p /\ p < hi /\ r[p] = x[p] /\ x[p].obj \in Rams
                      /\ x[p].kind = "handler" /\ 4 * K <= p =>
                           mapper = 1 /\ x[p].at \in 0..(4 * B - 1)
    BY Zenon DEF PagesOK
  <2>1. CASE p \in DOMAIN at
    <3>1. ~(4 * K <= p)
      BY <1>2, <2>1, Sizes DEF Pages
    <3> QED
      BY <1>2, <2>1, <3>1 DEF Within
  <2>2. CASE p \notin DOMAIN at
    BY <1>3, <2>2 DEF Good, PagesOK
  <2> QED
    BY <2>1, <2>2
<1>5. [read |-> r, write |-> x].read = r /\ [read |-> r, write |-> x].write = x
  OBVIOUS
<1>6. Good([read |-> r, write |-> x], lo, hi)
  BY <1>1, <1>4, <1>5, Zenon DEF Good
<1> QED
  BY <1>6 DEF r, x

-----------------------------------------------------------------------------
(* The sizes of the memories                                               *)
LEMMA RamPowers == \A n \in 0..15 : 2^n \in Nat
<1>1. \A n \in 0..15 : \/ n = 0 \/ n = 1 \/ n = 2 \/ n = 3 \/ n = 4 \/ n = 5 \/ n = 6 \/ n = 7
                       \/ n = 8 \/ n = 9 \/ n = 10 \/ n = 11 \/ n = 12 \/ n = 13 \/ n = 14 \/ n = 15
  OBVIOUS
<1>2. /\ 2^0 \in Nat /\ 2^1 \in Nat /\ 2^2 \in Nat /\ 2^3 \in Nat /\ 2^4 \in Nat /\ 2^5 \in Nat
      /\ 2^6 \in Nat /\ 2^7 \in Nat /\ 2^8 \in Nat /\ 2^9 \in Nat /\ 2^10 \in Nat
      /\ 2^11 \in Nat /\ 2^12 \in Nat /\ 2^13 \in Nat /\ 2^14 \in Nat /\ 2^15 \in Nat
  OBVIOUS
<1> QED
  BY <1>1, <1>2

LEMMA HeaderSizes ==
  ASSUME header \in Fields
  PROVE  wram_size \in Nat /\ prgrom_size \in Nat /\ chrom_size \in Nat
<1>1. \A a, b \in Nat : a * b \in Nat
  OBVIOUS
<1>2. /\ header.prg \in Nat /\ header.prghi \in Nat /\ header.chr \in Nat /\ header.chrhi \in Nat
      /\ header.wram \in Nat /\ header.nbbwram \in 0..15 /\ header.bbwram \in 0..15
      /\ header.wram_present \in BOOLEAN
  BY DEF Fields
<1>3. \A n \in 0..15 : decode_ram_size(n) \in Nat
  BY <1>1, RamPowers, Sizes DEF decode_ram_size
<1>4. wram_size \in Nat
  BY <1>1, <1>2, <1>3, Sizes DEF wram_size
<1>5. prgrom_size \in Nat
  <2>1. header.prg + (IF ines2 THEN 256 * header.prghi ELSE 0) \in Nat /\ 2 * B \in Nat
    BY <1>2, Sizes
  <2> QED
    BY <1>1, <2>1 DEF prgrom_size
<1>6. chrom_size \in Nat
  <2>1. header.chr + (IF ines2 THEN 256 * header.chrhi ELSE 0) \in Nat
    BY <1>2
  <2> QED
    BY <1>1, <2>1, Sizes DEF chrom_size
<1> QED
  BY <1>4, <1>5, <1>6

LEMMA Units ==
  /\ B = K * PageSize /\ 4 * B = (4 * K) * PageSize
  /\ 0 = 0 * PageSize /\ 8 * B = (8 * K) * PageSize
BY Sizes DEF B

(* The windows that lie below, and those that lie above, a number of pages *)
LEMMA Below ==
  ASSUME NEW from \in Nat, NEW size \in Nat, from + size <= 4 * B
  PROVE  \A p \in Window(from, size) : 0 <= p /\ p < 4 * K
<1>1. 4 * K \in Nat /\ from + size <= (4 * K) * PageSize /\ 0 * PageSize <= from
  BY Sizes, Units
<1> QED
  BY <1>1, WindowBounds, WindowEnds

LEMMA Above ==
  ASSUME NEW from \in Nat, NEW size \in Nat, 4 * B <= from
  PROVE  \A p \in Window(from, size) : ~(0 <= p /\ p < 4 * K)
<1>1. 4 * K \in Nat /\ (4 * K) * PageSize <= from
  BY Sizes, Units
<1>2. \A p \in Window(from, size) : p \in Nat /\ 4 * K <= p
  BY <1>1, WindowBounds
<1> QED
  BY <1>1, <1>2

LEMMA InPatterns ==
  ASSUME NEW from \in Nat, NEW size \in Nat, from + size <= B
  PROVE  \A p \in Window(from, size) : ~(K <= p /\ p < 8 * K)
<1>1. from + size <= K * PageSize
  BY Units
<1>2. \A p \in Window(from, size) : p \in Nat /\ p < K
  <2>1. 0 * PageSize <= from
    BY Sizes
  <2> QED
    BY <1>1, <2>1, Sizes, WindowBounds, WindowEnds
<1> QED
  BY <1>2, Sizes

LEMMA InNames ==
  ASSUME NEW from \in Nat, NEW size \in Nat, B <= from, from + size <= 8 * B
  PROVE  \A p \in Window(from, size) : K <= p /\ p < 8 * K
<1>1. K * PageSize <= from /\ 8 * K \in Nat /\ from + size <= (8 * K) * PageSize
  BY Sizes, Units
<1> QED
  BY <1>1, Sizes, WindowBounds, WindowEnds

-----------------------------------------------------------------------------
(* The maps of the system, one by one.  On the CPU's bus the RAM is in the *)
(* lower half, on the picture unit's it is above the pattern tables.       *)
CpuGood(bus) == Good(bus, 0, 4 * K)
PpuGood(bus) == Good(bus, K, 8 * K)

LEMMA Memories ==
  /\ ram.writeable = TRUE /\ ram.name = "ram" /\ SizeOf("ram") = ram.size
  /\ wram.writeable = TRUE /\ wram.name = "wram" /\ SizeOf("wram") = wram_size
  /\ vram.writeable = TRUE /\ vram.name = "vram" /\ SizeOf("vram") = B \div 4
  /\ prgrom.writeable = FALSE /\ prgrom.name = "prgrom" /\ SizeOf("prgrom") = prgrom_size
  /\ chrom.writeable = FALSE /\ chrom.name = "chrom" /\ SizeOf("chrom") = chrom_size
  /\ cartrom.writeable = FALSE /\ cartrom.name = "cartrom" /\ SizeOf("cartrom") = 3 * B
  /\ cartrom.size = 3 * B
BY DEF ram, wram, vram, prgrom, chrom, cartrom, Ram, Rom, SizeOf

LEMMA RamSize == ram.size \in Nat /\ ram.size <= 4 * B
BY Sizes DEF ram, Ram

LEMMA RamNames ==
  /\ ram.name \in Rams /\ SizeOf(ram.name) = ram.size
  /\ wram.name \in Rams /\ SizeOf(wram.name) = wram_size
  /\ vram.name \in Rams /\ SizeOf(vram.name) = B \div 4
BY Memories DEF Rams

(* RAM and ROM, mapped from their first byte                               *)
LEMMA MapWholeRam ==
  ASSUME NEW bus, CpuGood(bus),
         NEW mem, mem.writeable = TRUE, mem.name \in Rams,
         NEW from \in Nat, NEW size \in Nat, from + size <= 4 * B,
         SizeOf(mem.name) = size
  PROVE  CpuGood(memory_map(bus, mem, from, size, 0))
<1>1. \A p \in Window(from, size) : 0 <= p /\ p < 4 * K
  BY Below
<1>2. 0 \in Nat /\ 0 + size <= SizeOf(mem.name) /\ SizeOf(mem.name) \in Nat
  OBVIOUS
<1> QED
  BY <1>1, <1>2, MapRam DEF CpuGood

LEMMA MapUpperRom ==
  ASSUME NEW bus, CpuGood(bus),
         NEW mem, mem.writeable = FALSE,
         NEW from \in Nat, NEW size \in Nat, 4 * B <= from,
         NEW start \in Nat, SizeOf(mem.name) \in Nat, start + size <= SizeOf(mem.name)
  PROVE  CpuGood(memory_map(bus, mem, from, size, start))
<1>1. \A p \in Window(from, size) : ~(0 <= p /\ p < 4 * K)
  BY Above
<1> QED
  BY <1>1, MapRom DEF CpuGood

LEMMA CommonGood == CpuGood(CommonMap)
<1> DEFINE bus == memory_map(EmptyBus(8 * K), ram, 0, ram.size, 0)
           ppuPages == [p \in K..(2 * K - 1) |-> 0]
           ioPages == [p \in {2 * K} |-> 0]
           mid == [read |-> Handled(bus.read, "ppu", ppuPages),
                   write |-> Handled(bus.write, "ppu", ppuPages)]
<1>1. CpuGood(bus)
  <2>1. CpuGood(EmptyBus(8 * K))
    BY EmptyGood DEF CpuGood
  <2>2. 0 \in Nat /\ 0 + ram.size <= 4 * B
    BY RamSize
  <2> QED
    BY <2>1, <2>2, Memories, RamNames, RamSize, MapWholeRam
<1>2. CpuGood(mid)
  <2>1. \A p \in DOMAIN ppuPages : p < 4 * K
    BY Sizes
  <2> QED
    BY <1>1, <2>1, HandlersGood DEF CpuGood
<1>3. CpuGood([read |-> Handled(mid.read, "io", ioPages),
               write |-> Handled(mid.write, "io", ioPages)])
  <2>1. \A p \in DOMAIN ioPages : p < 4 * K
    BY Sizes
  <2> HIDE DEF mid, ioPages
  <2> QED
    BY <1>2, <2>1, HandlersGood DEF CpuGood
<1>4. CommonMap = [read |-> Handled(mid.read, "io", ioPages),
                   write |-> Handled(mid.write, "io", ioPages)]
  BY DEF CommonMap
<1> QED
  BY <1>3, <1>4

LEMMA HawknestGood == CpuGood(HawknestMap)
<1> DEFINE roms == memory_map(EmptyBus(8 * K), cartrom, 5 * B, cartrom.size, 0)
<1>1. CpuGood(roms)
  <2>1. CpuGood(EmptyBus(8 * K))
    BY EmptyGood DEF CpuGood
  <2>2. /\ 5 * B \in Nat /\ 4 * B <= 5 * B /\ 3 * B \in Nat /\ 0 \in Nat
        /\ cartrom.size = 3 * B /\ SizeOf(cartrom.name) = 3 * B /\ 0 + 3 * B <= 3 * B
    BY Sizes, Memories
  <2> QED
    BY <2>1, <2>2, Memories, MapUpperRom
<1>2. 0 \in Nat /\ 0 + ram.size <= 4 * B
  BY RamSize
<1> HIDE DEF roms
<1>3. CpuGood(memory_map(roms, ram, 0, ram.size, 0))
  BY <1>1, <1>2, Memories, RamNames, RamSize, MapWholeRam
<1> QED
  BY <1>3 DEF HawknestMap, roms

(* A size that fits n times into a window ends in it the i-th time.        *)
LEMMA MirrorFits ==
  ASSUME NEW total \in Nat, NEW size \in Nat \ {0}, NEW i \in 0..((total \div size) - 1)
  PROVE  i * size \in Nat /\ i * size + size <= total
<1> DEFINE n == total \div size
<1>1. n \in Nat /\ n * size <= total
  BY QuotientTimes
<1> HIDE DEF n
<1>2. i \in Nat /\ i + 1 \in Nat /\ i + 1 <= n
  BY <1>1 DEF n
<1>3. (i + 1) * size <= n * size
  BY <1>1, <1>2, TimesMonotone
<1>4. (i + 1) * size = i * size + size /\ i * size \in Nat /\ n * size \in Nat
  BY <1>1, <1>2
<1> QED
  BY <1>1, <1>3, <1>4

LEMMA NromCpuGood ==
  ASSUME header \in Fields, NromTakes
  PROVE  CpuGood(NromCpu)
<1> DEFINE times == B \div wram_size
           work == IF wram_size = 0 THEN CommonMap
                   ELSE memory_map_mirroring(CommonMap, wram, 3 * B, wram_size, 0, times)
           n == (4 * B) \div prgrom_size
<1>1. /\ wram_size \in Nat /\ prgrom_size \in Nat \ {0} /\ B \in Nat \ {0}
      /\ 3 * B \in Nat /\ 4 * B \in Nat /\ 0 \in Nat
  BY HeaderSizes, Sizes DEF NromTakes
<1>2. CpuGood(work)
  <2>1. CASE wram_size = 0
    BY <2>1, CommonGood
  <2>2. CASE wram_size # 0
    <3>1. times \in Nat
      BY <1>1, <2>2, QuotientTimes
    <3>2. ASSUME NEW i \in 0..(times - 1)
          PROVE  \A p \in Window(3 * B + i * wram_size, wram_size) : 0 <= p /\ p < 4 * K
      <4>1. i * wram_size \in Nat /\ i * wram_size + wram_size <= B
        BY <1>1, <2>2, MirrorFits
      <4>2. 3 * B + i * wram_size \in Nat /\ 3 * B + i * wram_size + wram_size <= 4 * B
        BY <1>1, <4>1
      <4> QED
        BY <1>1, <4>2, Below
    <3>3. 0 + wram_size <= SizeOf(wram.name) /\ SizeOf(wram.name) \in Nat
      BY <1>1, RamNames
    <3> HIDE DEF times
    <3>4. CpuGood(memory_map_mirroring(CommonMap, wram, 3 * B, wram_size, 0, times))
      BY <1>1, <3>1, <3>2, <3>3, CommonGood, Memories, RamNames, MirrorRam DEF CpuGood
    <3> QED
      BY <2>2, <3>4
  <2> QED
    BY <2>1, <2>2
<1>3. n \in Nat
  BY <1>1, QuotientTimes
<1>4. ASSUME NEW i \in 0..(n - 1)
      PROVE  \A p \in Window(4 * B + i * prgrom_size, prgrom_size) : ~(0 <= p /\ p < 4 * K)
  <2>1. i * prgrom_size \in Nat
    BY <1>1, <1>3
  <2>2. 4 * B + i * prgrom_size \in Nat /\ 4 * B <= 4 * B + i * prgrom_size
    BY <1>1, <2>1
  <2> QED
    BY <1>1, <2>2, Above
<1>5. 0 + prgrom_size <= SizeOf(prgrom.name) /\ SizeOf(prgrom.name) \in Nat
  BY <1>1, Memories
<1> HIDE DEF work, n
<1>6. CpuGood(memory_map_mirroring(work, prgrom, 4 * B, prgrom_size, 0, n))
  BY <1>1, <1>2, <1>3, <1>4, <1>5, Memories, MirrorRom DEF CpuGood
<1> QED
  BY <1>6 DEF NromCpu, work, n

-----------------------------------------------------------------------------
(* Nametables are an eighth of B, and B is a multiple of 8.                *)
nt == B \div 8
half == B \div 2

LEMMA Parts ==
  /\ B = 8 * nt /\ nt \in Nat \ {0} /\ B \div 4 = 2 * nt
  /\ half = 4 * nt /\ half \in Nat \ {0} /\ B = 2 * half
<1> DEFINE k == K \div 8
<1>1. K = 8 * k /\ k \in Nat /\ K \in Nat \ {0} /\ PageSize \in Nat \ {0}
  BY KAssumption, PageAssumption
<1>2. k \in Nat \ {0}
  BY <1>1
<1> HIDE DEF k
<1>3. \A a, b \in Nat \ {0} : (8 * a) * b = 8 * (a * b) /\ a * b \in Nat \ {0}
  OBVIOUS
<1> DEFINE e == k * PageSize
<1>4. B = 8 * e /\ e \in Nat \ {0}
  BY <1>1, <1>2, <1>3 DEF B
<1> HIDE DEF e
<1>5. nt = e /\ half = 4 * e /\ B \div 4 = 2 * e
  BY <1>4 DEF nt, half
<1> QED
  BY <1>4, <1>5

LEMMA MapName ==
  ASSUME NEW bus, PpuGood(bus), NEW from \in Nat, NEW start \in Nat,
         B <= from, from + nt <= 8 * B, start + nt <= 2 * nt
  PROVE  PpuGood(memory_map(bus, vram, from, nt, start))
<1>1. nt \in Nat /\ SizeOf(vram.name) = 2 * nt /\ SizeOf(vram.name) \in Nat
  BY Parts, RamNames
<1>2. \A p \in Window(from, nt) : K <= p /\ p < 8 * K
  BY <1>1, InNames
<1> QED
  BY <1>1, <1>2, Memories, RamNames, MapRam DEF PpuGood

LEMMA MirrorName ==
  ASSUME NEW bus, PpuGood(bus), NEW from \in Nat, NEW start \in Nat,
         B <= from, from + 2 * nt <= 8 * B, start + nt <= 2 * nt
  PROVE  PpuGood(memory_map_mirroring(bus, vram, from, nt, start, 2))
<1>1. nt \in Nat /\ SizeOf(vram.name) = 2 * nt /\ SizeOf(vram.name) \in Nat
  BY Parts, RamNames
<1>2. ASSUME NEW i \in 0..(2 - 1)
      PROVE  \A p \in Window(from + i * nt, nt) : K <= p /\ p < 8 * K
  <2>1. i * nt = 0 \/ i * nt = nt
    BY <1>1
  <2>2. from + i * nt \in Nat /\ B <= from + i * nt /\ from + i * nt + nt <= 8 * B
    BY <1>1, <2>1, Sizes
  <2> QED
    BY <1>1, <2>2, InNames
<1>3. 2 \in Nat
  OBVIOUS
<1> QED
  BY <1>1, <1>2, <1>3, Memories, RamNames, MirrorRam DEF PpuGood

LEMMA MapPattern ==
  ASSUME NEW bus, PpuGood(bus), NEW from \in Nat, NEW size \in Nat, from + size <= B,
         NEW start \in Nat, chrom_size \in Nat, start + size <= chrom_size
  PROVE  PpuGood(memory_map(bus, chrom, from, size, start))
<1>1. \A p \in Window(from, size) : ~(K <= p /\ p < 8 * K)
  BY InPatterns
<1>2. SizeOf(chrom.name) = chrom_size
  BY Memories
<1> QED
  BY <1>1, <1>2, Memories, MapRom DEF PpuGood

LEMMA NromPpuGood ==
  ASSUME header \in Fields, NromTakes
  PROVE  PpuGood(NromPpu)
<1> DEFINE pattern == memory_map(EmptyBus(8 * K), chrom, 0, chrom_size, 0)
           Nt(bus, q, start) == memory_map(bus, vram, B + q * nt, nt, start)
<1>1. PpuGood(pattern)
  <2>1. PpuGood(EmptyBus(8 * K))
    BY EmptyGood DEF PpuGood
  <2>2. chrom_size \in Nat /\ 0 \in Nat /\ 0 + chrom_size <= B /\ 0 + chrom_size <= chrom_size
    BY Sizes DEF NromTakes
  <2> QED
    BY <2>1, <2>2, MapPattern
<1> HIDE DEF pattern
<1>2. PpuGood(memory_map_mirroring(memory_map_mirroring(pattern, vram, B, nt, 0, 2),
                                   vram, B + 2 * nt, nt, nt, 2))
  <2> DEFINE upper == memory_map_mirroring(pattern, vram, B, nt, 0, 2)
  <2>1. PpuGood(upper)
    <3>1. 0 \in Nat /\ B \in Nat /\ B <= B /\ B + 2 * nt <= 8 * B /\ 0 + nt <= 2 * nt
      BY Parts
    <3> QED
      BY <1>1, <3>1, MirrorName
  <2>2. /\ B + 2 * nt \in Nat /\ nt \in Nat /\ B <= B + 2 * nt
        /\ B + 2 * nt + 2 * nt <= 8 * B /\ nt + nt <= 2 * nt
    BY Parts
  <2> HIDE DEF upper
  <2>3. PpuGood(memory_map_mirroring(upper, vram, B + 2 * nt, nt, nt, 2))
    BY <2>1, <2>2, MirrorName
  <2> QED
    BY <2>3 DEF upper
<1>3. ASSUME NEW bus, PpuGood(bus), NEW q \in 0..3, NEW start \in {0, nt}
      PROVE  PpuGood(Nt(bus, q, start))
  <2>1. /\ B + q * nt \in Nat /\ B <= B + q * nt /\ B + q * nt + nt <= 8 * B
        /\ start \in Nat /\ start + nt <= 2 * nt
    <3>1. q * nt = 0 \/ q * nt = nt \/ q * nt = 2 * nt \/ q * nt = 3 * nt
      BY Parts
    <3> QED
      BY <3>1, Parts
  <2> QED
    BY <1>3, <2>1, MapName
<1> HIDE DEF Nt
<1>4. PpuGood(Nt(Nt(Nt(Nt(pattern, 0, 0), 1, nt), 2, 0), 3, nt))
  BY <1>1, <1>3
<1>5. NromPpu = IF header.mirroring = 0
                THEN memory_map_mirroring(memory_map_mirroring(pattern, vram, B, nt, 0, 2),
                                          vram, B + 2 * nt, nt, nt, 2)
                ELSE Nt(Nt(Nt(Nt(pattern, 0, 0), 1, nt), 2, 0), 3, nt)
  BY DEF NromPpu, nt, pattern, Nt
<1> QED
  BY <1>2, <1>4, <1>5

-----------------------------------------------------------------------------
(* An SxROM cartridge: a bank number below the ROM's banks is inside it.   *)
LEMMA BankFits ==
  ASSUME NEW total \in Nat, NEW bank \in Nat \ {0}, NEW b \in Nat, NEW n \in Nat,
         b + n <= total \div bank
  PROVE  b * bank \in Nat /\ b * bank + n * bank <= total
<1> DEFINE q == total \div bank
<1>1. q \in Nat /\ q * bank <= total
  BY QuotientTimes
<1>2. b + n <= q
  OBVIOUS
<1> HIDE DEF q
<1>3. (b + n) * bank <= q * bank /\ (b + n) * bank = b * bank + n * bank
  BY <1>1, <1>2, TimesMonotone
<1>4. b * bank \in Nat /\ n * bank \in Nat /\ q * bank \in Nat
  BY <1>1
<1> QED
  BY <1>1, <1>3, <1>4

(* The windows m are inside ROMs of the header's sizes.                    *)
WindowsOK(r, m) ==
  LET c == CartOfHeader
  IN  /\ m.prg[1] \in 0..(c.prg - 1) /\ m.prg[2] \in 0..(c.prg - 1)
      /\ m.chr[1] \in 0..(c.chr - 1) /\ m.chr[2] \in 0..(c.chr - 1)
      /\ ~Switching16(r) => m.prg[2] = m.prg[1] + 1
      /\ ~Switching4(r) => m.chr[2] = m.chr[1] + 1
      /\ m.nt \in [1..4 -> {0, 1}]

LEMMA Banks ==
  ASSUME header \in Fields
  PROVE  /\ prgrom_size \in Nat /\ chrom_size \in Nat /\ 2 * B \in Nat \ {0}
         /\ CartOfHeader.prg = prgrom_size \div (2 * B) /\ CartOfHeader.prg \in Nat
         /\ CartOfHeader.chr = chrom_size \div half /\ CartOfHeader.chr \in Nat
<1>1. prgrom_size \in Nat /\ chrom_size \in Nat /\ 2 * B \in Nat \ {0} /\ half \in Nat \ {0}
  BY HeaderSizes, Sizes, Parts
<1>2. prgrom_size \div (2 * B) \in Nat /\ chrom_size \div half \in Nat
  BY <1>1, QuotientTimes
<1> QED
  BY <1>1, <1>2 DEF CartOfHeader, half

LEMMA SxromCpuGood ==
  ASSUME mapper = 1
  PROVE  CpuGood(SxromCpu)
<1> DEFINE at == [p \in RegisterPages |-> (p - 4 * K) * PageSize]
           x == Handled(CommonMap.write, "cart", at)
<1>1. SxromCpu.read = CommonMap.read /\ SxromCpu.write = x
  BY DEF SxromCpu, CommonMap
<1>2. Good(CommonMap, 0, 4 * K)
  BY CommonGood DEF CpuGood
<1>3. DOMAIN x = Pages
  BY <1>2 DEF Handled, Good
<1>4. ASSUME NEW p \in Pages, p \in RegisterPages
      PROVE  x[p].kind = "handler" /\ x[p].at \in 0..(4 * B - 1)
  <2>1. x[p] = Handler("cart", (p - 4 * K) * PageSize)
    BY <1>2, <1>4 DEF Handled, Good
  <2>2. (p - 4 * K) \in Nat /\ (p - 4 * K) + 1 <= 4 * K /\ 4 * K \in Nat
    BY <1>4, Sizes DEF RegisterPages
  <2> DEFINE k == p - 4 * K
  <2>3. (k + 1) * PageSize <= (4 * K) * PageSize
    BY <2>2, Sizes, TimesMonotone
  <2>4. (k + 1) * PageSize = k * PageSize + PageSize /\ k * PageSize \in Nat
    <3>1. k \in Nat
      BY <2>2
    <3> HIDE DEF k
    <3> QED
      BY <3>1, Sizes
  <2>5. k * PageSize \in 0..(4 * B - 1)
    BY <2>3, <2>4, Sizes, Units
  <2> QED
    BY <2>1, <2>5 DEF Handler
<1>5. ASSUME NEW p \in Pages, p \notin RegisterPages
      PROVE  x[p] = CommonMap.write[p]
  BY <1>2, <1>5 DEF Handled, Good
<1> HIDE DEF x
<1>6. PagesOK(CommonMap.read, x, 0, 4 * K)
  <2> SUFFICES ASSUME NEW p \in Pages
               PROVE  /\ Within(CommonMap.read[p]) /\ Within(x[p])
                      /\ x[p].kind = "data" =>
                           /\ 0 <= p /\ p < 4 * K /\ CommonMap.read[p] = x[p]
                           /\ x[p].obj \in Rams
                      /\ x[p].kind = "handler" /\ 4 * K <= p =>
                           mapper = 1 /\ x[p].at \in 0..(4 * B - 1)
    BY Zenon DEF PagesOK
  <2>1. CASE p \in RegisterPages
    BY <1>2, <1>4, <2>1 DEF Within, Good, PagesOK
  <2>2. CASE p \notin RegisterPages
    BY <1>2, <1>5, <2>2 DEF Good, PagesOK
  <2> QED
    BY <2>1, <2>2
<1> QED
  BY <1>1, <1>2, <1>3, <1>6 DEF CpuGood, Good

LEMMA RemapCpuGood ==
  ASSUME header \in Fields, SxromTakes, NEW bus, CpuGood(bus), NEW r, NEW m, WindowsOK(r, m)
  PROVE  CpuGood(RemapCpu(bus, r, m))
<1> DEFINE bank == 2 * B
           Prg(b, from, size, k) == memory_map(b, prgrom, from, size, m.prg[k] * bank)
           rom == IF Switching16(r) THEN Prg(Prg(bus, 4 * B, bank, 1), 6 * B, bank, 2)
                  ELSE Prg(bus, 4 * B, 2 * bank, 1)
<1>1. /\ prgrom_size \in Nat /\ bank \in Nat \ {0} /\ B \in Nat \ {0}
      /\ 4 * B \in Nat /\ 6 * B \in Nat /\ 4 * B <= 6 * B /\ 2 * bank \in Nat
      /\ SizeOf(prgrom.name) = prgrom_size /\ prgrom.writeable = FALSE
  BY Banks, Sizes, Memories
<1>2. /\ m.prg[1] \in 0..(CartOfHeader.prg - 1) /\ m.prg[2] \in 0..(CartOfHeader.prg - 1)
      /\ ~Switching16(r) => m.prg[2] = m.prg[1] + 1
      /\ CartOfHeader.prg = prgrom_size \div bank /\ CartOfHeader.prg \in Nat
  BY Banks DEF WindowsOK
<1> HIDE DEF bank
<1>3. ASSUME NEW b, CpuGood(b), NEW k \in {1, 2}, NEW from \in {4 * B, 6 * B}
      PROVE  CpuGood(Prg(b, from, bank, k))
  <2>1. m.prg[k] \in Nat /\ 1 \in Nat /\ m.prg[k] + 1 <= prgrom_size \div bank
    BY <1>2
  <2>2. m.prg[k] * bank \in Nat /\ m.prg[k] * bank + 1 * bank <= prgrom_size
    BY <1>1, <2>1, BankFits
  <2> DEFINE start == m.prg[k] * bank
  <2>3. start \in Nat /\ start + bank <= prgrom_size
    BY <1>1, <2>2
  <2>4. from \in Nat /\ 4 * B <= from
    BY <1>1
  <2> HIDE DEF start
  <2>5. CpuGood(memory_map(b, prgrom, from, bank, start))
    BY <1>1, <1>3, <2>3, <2>4, MapUpperRom
  <2> QED
    BY <2>5 DEF start
<1>4. ASSUME Switching16(r) PROVE CpuGood(rom)
  <2> DEFINE low == Prg(bus, 4 * B, bank, 1)
  <2>1. CpuGood(low)
    BY <1>3
  <2> HIDE DEF low
  <2>2. CpuGood(Prg(low, 6 * B, bank, 2))
    BY <1>3, <2>1
  <2>3. rom = Prg(low, 6 * B, bank, 2)
    BY <1>4 DEF low
  <2> HIDE DEF Prg, rom
  <2> QED
    BY <2>2, <2>3
<1>5. ASSUME ~Switching16(r) PROVE CpuGood(rom)
  <2>1. m.prg[1] \in Nat /\ 2 \in Nat /\ m.prg[1] + 2 <= prgrom_size \div bank
    BY <1>2, <1>5
  <2>2. m.prg[1] * bank \in Nat /\ m.prg[1] * bank + 2 * bank <= prgrom_size
    BY <1>1, <2>1, BankFits
  <2> DEFINE start == m.prg[1] * bank
             size == 2 * bank
  <2>3. CpuGood(Prg(bus, 4 * B, 2 * bank, 1))
    <3>1. size \in Nat /\ start \in Nat /\ start + size <= prgrom_size /\ 4 * B <= 4 * B
      BY <1>1, <2>2
    <3> HIDE DEF start, size
    <3>2. CpuGood(memory_map(bus, prgrom, 4 * B, size, start))
      BY <1>1, <3>1, MapUpperRom
    <3> QED
      BY <3>2 DEF start, size
  <2>4. rom = Prg(bus, 4 * B, 2 * bank, 1)
    BY <1>5
  <2> HIDE DEF Prg, rom
  <2> QED
    BY <2>3, <2>4
<1>6. CpuGood(rom)
  BY <1>4, <1>5
<1>7. RemapCpu(bus, r, m) = IF wram_size = 0 THEN rom ELSE memory_map(rom, wram, 3 * B, B, 0)
  BY DEF RemapCpu, bank
<1> HIDE DEF rom
<1>8. CASE wram_size # 0
  <2>1. SizeOf(wram.name) = B /\ 3 * B \in Nat /\ 3 * B + B <= 4 * B
    BY <1>1, <1>8, RamNames DEF SxromTakes
  <2>2. CpuGood(memory_map(rom, wram, 3 * B, B, 0))
    BY <1>1, <1>6, <2>1, Memories, RamNames, MapWholeRam
  <2> QED
    BY <1>7, <1>8, <2>2
<1> QED
  BY <1>6, <1>7, <1>8

LEMMA RemapPpuGood ==
  ASSUME header \in Fields, NEW bus, PpuGood(bus), NEW r, NEW m, WindowsOK(r, m)
  PROVE  PpuGood(RemapPpu(bus, r, m))
<1> DEFINE Nt(b, q) == memory_map(b, vram, B + (q - 1) * nt, nt, m.nt[q] * nt)
           Chr(b, from, size, k) == memory_map(b, chrom, from, size, m.chr[k] * half)
           names == Nt(Nt(Nt(Nt(bus, 1), 2), 3), 4)
<1>1. /\ chrom_size \in Nat /\ half \in Nat \ {0} /\ B = 2 * half /\ B \in Nat
      /\ CartOfHeader.chr = chrom_size \div half /\ CartOfHeader.chr \in Nat
  BY Banks, Sizes, Parts
<1>2. /\ m.chr[1] \in 0..(CartOfHeader.chr - 1) /\ m.chr[2] \in 0..(CartOfHeader.chr - 1)
      /\ ~Switching4(r) => m.chr[2] = m.chr[1] + 1
      /\ m.nt \in [1..4 -> {0, 1}]
  BY DEF WindowsOK
<1>3. ASSUME NEW b, PpuGood(b), NEW q \in 1..4
      PROVE  PpuGood(Nt(b, q))
  <2> DEFINE start == m.nt[q] * nt
             from == B + (q - 1) * nt
  <2>1. start \in Nat /\ start + nt <= 2 * nt
    <3>1. m.nt[q] = 0 \/ m.nt[q] = 1
      BY <1>2
    <3>2. start = 0 \/ start = nt
      BY <3>1, Parts
    <3> HIDE DEF start
    <3> QED
      BY <3>2, Parts
  <2>2. from \in Nat /\ B <= from /\ from + nt <= 8 * B
    <3>1. q = 1 \/ q = 2 \/ q = 3 \/ q = 4
      OBVIOUS
    <3>2. from = B \/ from = B + nt \/ from = B + 2 * nt \/ from = B + 3 * nt
      BY <3>1, Parts
    <3> HIDE DEF from
    <3> QED
      BY <3>2, Parts
  <2> HIDE DEF start, from
  <2>3. PpuGood(memory_map(b, vram, from, nt, start))
    BY <1>3, <2>1, <2>2, MapName
  <2> QED
    BY <2>3 DEF start, from
<1>4. ASSUME NEW b, PpuGood(b), NEW k \in {1, 2}, NEW from \in {0, half}
      PROVE  PpuGood(Chr(b, from, half, k))
  <2>1. m.chr[k] \in Nat /\ 1 \in Nat /\ m.chr[k] + 1 <= chrom_size \div half
    BY <1>1, <1>2
  <2>2. m.chr[k] * half \in Nat /\ m.chr[k] * half + 1 * half <= chrom_size
    BY <1>1, <2>1, BankFits
  <2> DEFINE start == m.chr[k] * half
  <2>3. start \in Nat /\ start + half <= chrom_size
    BY <1>1, <2>2
  <2>4. from \in Nat /\ from + half <= B
    BY <1>1
  <2> HIDE DEF start
  <2>5. PpuGood(memory_map(b, chrom, from, half, start))
    BY <1>1, <1>4, <2>3, <2>4, MapPattern
  <2> QED
    BY <2>5 DEF start
<1>5. PpuGood(names)
  <2> HIDE DEF Nt
  <2> QED
    BY <1>3
<1> HIDE DEF names
<1>6. ASSUME ~Switching4(r) PROVE PpuGood(Chr(names, 0, B, 1))
  <2>1. m.chr[1] \in Nat /\ 2 \in Nat /\ m.chr[1] + 2 <= chrom_size \div half
    BY <1>1, <1>2, <1>6
  <2>2. m.chr[1] * half \in Nat /\ m.chr[1] * half + 2 * half <= chrom_size
    BY <1>1, <2>1, BankFits
  <2> DEFINE start == m.chr[1] * half
  <2>3. start \in Nat /\ start + B <= chrom_size /\ 0 \in Nat /\ 0 + B <= B
    BY <1>1, <2>2
  <2> HIDE DEF start
  <2>4. PpuGood(memory_map(names, chrom, 0, B, start))
    BY <1>1, <1>5, <2>3, MapPattern
  <2> QED
    BY <2>4 DEF start
<1>7. PpuGood(Chr(Chr(names, 0, half, 1), half, half, 2))
  <2> DEFINE low == Chr(names, 0, half, 1)
  <2>1. PpuGood(low)
    BY <1>4, <1>5
  <2> HIDE DEF low
  <2>2. PpuGood(Chr(low, half, half, 2))
    BY <1>4, <2>1
  <2> QED
    BY <2>2 DEF low
<1>8. RemapPpu(bus, r, m) = IF Switching4(r) THEN Chr(Chr(names, 0, half, 1), half, half, 2)
                            ELSE Chr(names, 0, B, 1)
  BY DEF RemapPpu, nt, half, names
<1> HIDE DEF Chr
<1> QED
  BY <1>6, <1>7, <1>8

-----------------------------------------------------------------------------
(* The invariant of the composition                                        *)
MInv ==
  /\ Inv
  /\ header \in Headers
  /\ phase \in {"loaded", "running"} => Accepted
  /\ Accepted /\ mapper = 1 => cart = CartOfHeader
  /\ CpuGood(cpu) /\ PpuGood(ppu)

LEMMA MInvInit == MapInit => MInv
<1> SUFFICES ASSUME MapInit PROVE MInv
  OBVIOUS
<1>1. Inv
  BY InitInv DEF MapInit
<1>2. CpuGood(cpu) /\ PpuGood(ppu)
  BY EmptyGood DEF MapInit, CpuGood, PpuGood
<1>3. Accepted /\ mapper = 1 => cart = CartOfHeader
  BY DEF MapInit
<1> QED
  BY <1>1, <1>2, <1>3 DEF MapInit, MInv

(* A file with a mapper is an iNES file.                                   *)
LEMMA MapperOfInes ==
  ASSUME header \in Headers, mapper \in {0, 1}
  PROVE  header \in Fields
<1>1. header # Hawknest
  BY DEF mapper
<1> QED
  BY <1>1, HeadersAssumption

LEMMA LoadGood ==
  ASSUME MInv, Load
  PROVE  CpuGood(cpu') /\ PpuGood(ppu')
<1>0. CpuGood(cpu) /\ PpuGood(ppu) /\ header \in Headers
  BY DEF MInv
<1>1. CASE header = Hawknest
  <2>1. mapper # 0 /\ mapper # 1
    BY <1>1 DEF mapper
  <2>2. cpu' = HawknestMap /\ ppu' = ppu
    BY <1>1, <2>1, Zenon DEF Load
  <2> QED
    BY <1>0, <2>2, HawknestGood
<1>2. CASE header # Hawknest /\ header.unsupported
  BY <1>0, <1>2 DEF Load, Accepted
<1>3. CASE header # Hawknest /\ ~header.unsupported /\ ~Accepted
  BY <1>0, <1>3, CommonGood DEF Load
<1>4. CASE header # Hawknest /\ ~header.unsupported /\ Accepted
  <2>1. (mapper = 0 /\ NromTakes) \/ (mapper = 1 /\ SxromTakes)
    BY <1>4, Zenon DEF Accepted
  <2>2. CASE mapper = 0 /\ NromTakes
    <3>1. header \in Fields
      BY <1>0, <2>2, MapperOfInes
    <3>2. cpu' = NromCpu /\ ppu' = NromPpu
      BY <1>4, <2>2 DEF Load
    <3> QED
      BY <2>2, <3>1, <3>2, NromCpuGood, NromPpuGood
  <2>3. CASE mapper = 1
    <3>1. cpu' = SxromCpu /\ ppu' = ppu
      BY <1>4, <2>3 DEF Load
    <3> QED
      BY <1>0, <2>3, <3>1, SxromCpuGood
  <2> QED
    BY <2>1, <2>2, <2>3
<1> QED
  BY <1>1, <1>2, <1>3, <1>4

(* A write reaches one of the four registers.                              *)
LEMMA RegisterReached ==
  ASSUME CpuGood(cpu), NEW p \in WritePages, cpu.write[p].kind = "handler"
  PROVE  RegisterOf(cpu.write[p]) \in Regs
<1>1. p \in Pages /\ 4 * K <= p
  BY WritePagesAssumption, Sizes DEF Pages
<1> DEFINE at == cpu.write[p].at
<1>2. at \in 0..(4 * B - 1)
  BY <1>1 DEF CpuGood, Good, PagesOK
<1>3. RegisterOf(cpu.write[p]) = (at + (0 % PageSize)) \div B
  BY DEF RegisterOf, Landing
<1> HIDE DEF at
<1>4. at + (0 % PageSize) = at
  BY <1>2, Sizes
<1> DEFINE q == at \div B
<1>5. q \in Nat /\ q * B <= at
  BY <1>2, Sizes, QuotientTimes
<1> HIDE DEF q
<1>6. ASSUME 4 <= q PROVE FALSE
  <2>1. 4 * B <= q * B /\ q * B \in Nat
    BY <1>5, <1>6, Sizes, TimesMonotone
  <2> QED
    BY <1>2, <1>5, <2>1, Sizes
<1>7. q \in 0..3
  BY <1>5, <1>6
<1> QED
  BY <1>3, <1>4, <1>7 DEF Regs, q

(* Every step is one of the mapper's or nothing to it.                     *)
LEMMA StepsOfSxrom == CpuGood(cpu) /\ [MapNext]_bvars => [Next]_vars
<1> SUFFICES ASSUME CpuGood(cpu), [MapNext]_bvars PROVE [Next]_vars
  OBVIOUS
<1>1. CASE Load \/ PowerOn \/ UNCHANGED bvars
  BY <1>1 DEF Load, PowerOn, bvars
<1>2. CASE Execute
  BY <1>2 DEF Execute, Next
<1>3. ASSUME NEW p \in WritePages, Write(p) PROVE Next
  <2>1. cpu.write[p].kind = "handler"
    BY <1>3 DEF Write
  <2>2. RegisterOf(cpu.write[p]) \in Regs
    BY <2>1, RegisterReached
  <2>3. \/ \E b \in {0, 1} : Writing(b) /\ WriteBit(RegisterOf(cpu.write[p]), b)
        \/ WriteReset
    BY <1>3 DEF Write
  <2> QED
    BY <2>2, <2>3 DEF Next
<1> QED
  BY <1>1, <1>2, <1>3 DEF MapNext

(* The sizes depend on the header only, which never changes.               *)
LEMMA SameHeader ==
  ASSUME header' = header
  PROVE  /\ Accepted' <=> Accepted
         /\ mapper' = mapper /\ CartOfHeader' = CartOfHeader
         /\ (CpuGood(cpu))' <=> CpuGood(cpu')
         /\ (PpuGood(ppu))' <=> PpuGood(ppu')
         /\ \A r, m : WindowsOK(r, m)' <=> WindowsOK(r, m)
BY DEF Accepted, mapper, CartOfHeader, CpuGood, PpuGood, Good, PagesOK, Within, SizeOf,
       WindowsOK, ram, wram, vram, prgrom, chrom, cartrom, Ram, Rom, wram_size, prgrom_size,
       chrom_size, chram_size, decode_ram_size, ines2, NromTakes, SxromTakes

(* After a step of the mapper the pages of an SxROM are mapped anew.       *)
LEMMA RemapGood ==
  ASSUME MInv, Inv', header' = header, Accepted, mapper = 1, cart' = CartOfHeader
  PROVE  CpuGood(RemapCpu(cpu, reg', map')) /\ PpuGood(RemapPpu(ppu, reg', map'))
<1>1. header \in Fields /\ SxromTakes
  <2>1. header \in Headers
    BY DEF MInv
  <2>2. header \in Fields
    BY <2>1, MapperOfInes
  <2>3. header # Hawknest
    BY DEF mapper
  <2> QED
    BY <2>2, <2>3 DEF Accepted
<1>2. WindowsOK(reg', map')
  <2>1. CartOK(cart') /\ RegsOK(reg') /\ map' = remap(cart', reg') /\ map'.nt \in [1..4 -> {0, 1}]
    BY CartFacts DEF Inv, TypeOK, MapInv, RegsOK
  <2>2. /\ map'.prg[1] \in 0..(cart'.prg - 1) /\ map'.prg[2] \in 0..(cart'.prg - 1)
        /\ map'.chr[1] \in 0..(cart'.chr - 1) /\ map'.chr[2] \in 0..(cart'.chr - 1)
        /\ ~Switching16(reg') => map'.prg[2] = map'.prg[1] + 1
        /\ ~Switching4(reg') => map'.chr[2] = map'.chr[1] + 1
    BY <2>1, RemapInBounds, Zenon
  <2> QED
    BY <2>1, <2>2, Zenon DEF WindowsOK
<1>3. CpuGood(cpu) /\ PpuGood(ppu)
  BY DEF MInv
<1> QED
  BY <1>1, <1>2, <1>3, RemapCpuGood, RemapPpuGood

LEMMA MInvStep == MInv /\ [MapNext]_bvars => MInv'
<1> SUFFICES ASSUME MInv, [MapNext]_bvars PROVE MInv'
  OBVIOUS
<1>1. Inv'
  BY StepsOfSxrom, NextInv DEF MInv
<1>2. header' = header /\ cart' = cart
  <2>1. CASE Load \/ PowerOn \/ UNCHANGED bvars
    BY <2>1 DEF Load, PowerOn, bvars, vars
  <2>2. CASE Execute
    BY <2>2 DEF Execute, Instruction
  <2>3. ASSUME NEW p \in WritePages, Write(p) PROVE header' = header /\ cart' = cart
    BY <2>3 DEF Write, WriteBit, WriteReset
  <2> QED
    BY <2>1, <2>2, <2>3 DEF MapNext
<1>3. phase' \in {"loaded", "running"} => Accepted
  <2>1. CASE Load
    BY <2>1 DEF Load
  <2>2. CASE PowerOn
    BY <2>2 DEF PowerOn, MInv
  <2>3. CASE Execute \/ UNCHANGED bvars
    BY <2>3 DEF Execute, bvars, MInv
  <2>4. ASSUME NEW p \in WritePages, Write(p) PROVE Accepted
    BY <2>4 DEF Write, MInv
  <2> QED
    BY <2>1, <2>2, <2>3, <2>4 DEF MapNext
<1>4. CpuGood(cpu') /\ PpuGood(ppu')
  <2>0. CpuGood(cpu) /\ PpuGood(ppu)
    BY DEF MInv
  <2>1. CASE Load
    BY <2>1, LoadGood
  <2>2. CASE PowerOn
    <3>1. CASE mapper = 1
      <4>1. Accepted /\ cart' = CartOfHeader
        BY <1>2, <2>2, <3>1 DEF PowerOn, MInv
      <4>2. reg' = reg /\ map' = map
        BY <2>2 DEF PowerOn, vars
      <4>3. cpu' = RemapCpu(cpu, reg', map') /\ ppu' = RemapPpu(ppu, reg', map')
        BY <2>2, <3>1, <4>2 DEF PowerOn
      <4> QED
        BY <1>1, <1>2, <3>1, <4>1, <4>3, RemapGood
    <3>2. CASE mapper # 1
      BY <2>0, <2>2, <3>2 DEF PowerOn
    <3> QED
      BY <3>1, <3>2
  <2>3. CASE Execute \/ UNCHANGED bvars
    BY <2>0, <2>3 DEF Execute, bvars
  <2>4. ASSUME NEW p \in WritePages, Write(p) PROVE CpuGood(cpu') /\ PpuGood(ppu')
    <3>1. phase = "running" /\ cpu.write[p].kind = "handler"
      BY <2>4 DEF Write
    <3>2. mapper = 1
      <4>1. p \in Pages /\ 4 * K <= p
        BY WritePagesAssumption, Sizes DEF Pages
      <4> QED
        BY <2>0, <3>1, <4>1 DEF CpuGood, Good, PagesOK
    <3>3. Accepted /\ cart' = CartOfHeader
      BY <1>2, <3>1, <3>2 DEF MInv
    <3>4. cpu' = RemapCpu(cpu, reg', map') /\ ppu' = RemapPpu(ppu, reg', map')
      BY <2>4 DEF Write
    <3> QED
      BY <1>1, <1>2, <3>2, <3>3, <3>4, RemapGood
  <2> QED
    BY <2>1, <2>2, <2>3, <2>4 DEF MapNext
<1>5. (Accepted /\ mapper = 1 => cart = CartOfHeader)'
  BY <1>2, SameHeader DEF MInv
<1> QED
  BY <1>1, <1>2, <1>3, <1>4, <1>5, SameHeader DEF MInv

LEMMA MInvHolds == MapSpec => []MInv
BY MInvInit, MInvStep, PTL DEF MapSpec

(* No page of either bus shows memory beyond the end of the memory it is   *)
(* mapped to, whatever the header's sizes, the size of a page and what the *)
(* registers hold (memory.c:29, an assertion that is compiled out).        *)
THEOREM EveryPageInBounds == MapSpec => []PagesInBounds
<1>1. MInv => PagesInBounds
  <2> SUFFICES ASSUME MInv,
                      NEW bus \in {cpu, ppu}, NEW p \in DOMAIN bus.read,
                      NEW entry \in {bus.read[p], bus.write[p]}, entry.kind = "data"
               PROVE  entry.at >= 0 /\ entry.at + PageSize <= SizeOf(entry.obj)
    BY DEF PagesInBounds
  <2>1. p \in Pages /\ Within(bus.read[p]) /\ Within(bus.write[p])
    BY DEF MInv, CpuGood, PpuGood, Good, PagesOK
  <2>2. entry.at \in Nat /\ entry.at + PageSize <= SizeOf(entry.obj)
    BY <2>1 DEF Within
  <2> QED
    BY <2>2
<1> QED
  BY <1>1, MInvHolds, PTL

(* A page whose writes go to a memory reads the same place, and no ROM is  *)
(* written, though mapping a ROM leaves a page's writes as they were       *)
(* (memory.c:36).                                                          *)
THEOREM TablesAgree == MapSpec => []Coherent
<1>1. MInv => Coherent
  BY DEF MInv, CpuGood, PpuGood, Good, PagesOK, Coherent, Rams
<1> QED
  BY <1>1, MInvHolds, PTL

(* In the composition too no write to the mapper is taken for a            *)
(* consecutive one (mmc1.c:53).                                            *)
THEOREM EveryWriteOfTheProgramCounts == MapSpec => []EveryWriteCounts
<1>1. MInv => EveryWriteCounts
  BY DEF MInv, Inv, GapInv, EveryWriteCounts
<1> QED
  BY <1>1, MInvHolds, PTL

(* To a program that writes through the bus the mapper is the serial port: *)
(* the pages mapped anew never change which register a write reaches       *)
(* (sxrom.c:187-188, mmc1.c:84).                                           *)
THEOREM PortThroughTheBus == MapSpec => ImplementsPort
<1>1. MapInit => Init
  BY DEF MapInit
<1>2. MInv /\ [MapNext]_bvars => [Next]_vars
  BY StepsOfSxrom DEF MInv
<1>3. MapSpec => Spec
  BY <1>1, <1>2, MInvHolds, PTL DEF MapSpec, Spec
<1> QED
  BY <1>3, PortImplemented

-----------------------------------------------------------------------------
(* What a page shows, after all the mappings of a cartridge.  Every window *)
(* begins at the start of a page; its pages are counted from there.        *)
LEMMA QuotientIs ==
  ASSUME NEW x \in Nat, NEW q \in Nat, NEW d \in Nat \ {0}, q * d <= x, x < q * d + d
  PROVE  x \div d = q /\ x % d = x - q * d
<1> DEFINE p == x \div d
<1>1. p \in Nat /\ p * d <= x /\ x < p * d + d /\ x % d = x - p * d
  <2>1. x = p * d + (x % d)
    OBVIOUS
  <2> QED
    BY <2>1, QuotientTimes
<1>2. q <= p
  BY QuotientAtLeast
<1> HIDE DEF p
<1>3. ASSUME q + 1 <= p PROVE FALSE
  <2>1. (q + 1) * d <= p * d /\ (q + 1) * d = q * d + d /\ p * d \in Nat /\ q * d \in Nat
    BY <1>1, <1>3, TimesMonotone
  <2> QED
    BY <1>1, <2>1
<1>4. p = q
  BY <1>1, <1>2, <1>3
<1> QED
  BY <1>1, <1>4 DEF p

LEMMA QuotientExact ==
  ASSUME NEW a \in Nat, NEW d \in Nat \ {0}
  PROVE  a * d \in Nat /\ (a * d) \div d = a
<1>1. a * d \in Nat /\ a * d < a * d + d
  OBVIOUS
<1> QED
  BY <1>1, QuotientIs

LEMMA QuotientScales ==
  ASSUME NEW x \in Nat, NEW s \in Nat \ {0}, NEW d \in Nat \ {0}
  PROVE  (x * d) \div (s * d) = x \div s /\ (x * d) % (s * d) = (x % s) * d
<1> DEFINE q == x \div s
           r == x % s
<1>1. q \in Nat /\ r \in Nat /\ r + 1 <= s /\ x = q * s + r
  BY QuotientTimes
<1> HIDE DEF q, r
<1>2. /\ x * d \in Nat /\ s * d \in Nat \ {0} /\ q * (s * d) \in Nat /\ r * d \in Nat
      /\ x * d = q * (s * d) + r * d
  <2>1. x * d = (q * s + r) * d
    BY <1>1
  <2>2. (q * s + r) * d = q * (s * d) + r * d
    BY <1>1
  <2>3. \A a, b \in Nat : a * b \in Nat
    OBVIOUS
  <2>4. \A a, b \in Nat \ {0} : a * b \in Nat \ {0}
    OBVIOUS
  <2> QED
    BY <1>1, <2>1, <2>2, <2>3, <2>4
<1>3. r * d + d <= s * d
  <2>1. (r + 1) * d <= s * d /\ (r + 1) * d = r * d + d
    BY <1>1, TimesMonotone
  <2> QED
    BY <2>1
<1>4. (x * d) % (s * d) = x * d - q * (s * d) /\ (x * d) \div (s * d) = q
  <2> DEFINE y == x * d
             e == s * d
  <2>1. y \in Nat /\ e \in Nat \ {0} /\ q * e <= y /\ y < q * e + e
    BY <1>1, <1>2, <1>3
  <2> HIDE DEF y, e
  <2>2. y % e = y - q * e /\ y \div e = q
    BY <1>1, <2>1, QuotientIs
  <2> QED
    BY <2>2 DEF y, e
<1>5. (x * d) % (s * d) = r * d
  BY <1>2, <1>4
<1> QED
  BY <1>2, <1>4, <1>5 DEF q, r

LEMMA RemainderScales ==
  ASSUME NEW x \in Nat, NEW s \in Nat \ {0}, NEW d \in Nat \ {0}
  PROVE  (x * d) % (s * d) = (x % s) * d
BY QuotientScales, Zenon

LEMMA PagesOfWindow ==
  ASSUME NEW a \in Nat, NEW s \in Nat
  PROVE  /\ a * PageSize \in Nat /\ s * PageSize \in Nat
         /\ (a * PageSize) \div PageSize = a
         /\ Window(a * PageSize, s * PageSize) = a..(a + s - 1)
<1>1. /\ a * PageSize \in Nat /\ s * PageSize \in Nat
      /\ (a * PageSize) \div PageSize = a /\ (s * PageSize) \div PageSize = s
  BY Sizes, QuotientExact
<1> QED
  BY <1>1, Zenon DEF Window

(* The page p of the window of s pages from page a on shows this place.    *)
Place(mem, a, start, p) == Data(mem.name, start + (p - a) * PageSize)

LEMMA PageShown ==
  ASSUME NEW bus, NEW mem, NEW a \in Nat, NEW s \in Nat, NEW start, NEW p \in DOMAIN bus.read
  PROVE  LET new == memory_map(bus, mem, a * PageSize, s * PageSize, start)
         IN  new.read[p] = IF p \in a..(a + s - 1) THEN Place(mem, a, start, p) ELSE bus.read[p]
BY PagesOfWindow DEF memory_map, Shown, Place

LEMMA MirrorWindow ==
  ASSUME NEW a \in Nat, NEW s \in Nat \ {0}, NEW i \in Nat
  PROVE  /\ i * s \in Nat
         /\ (a * PageSize + i * (s * PageSize)) \div PageSize = a + i * s
         /\ Window(a * PageSize + i * (s * PageSize), s * PageSize) = (a + i * s)..(a + i * s + s - 1)
<1>1. i * s \in Nat
  OBVIOUS
<1>2. a * PageSize + i * (s * PageSize) = (a + i * s) * PageSize
  BY Sizes
<1>3. a + i * s \in Nat /\ s \in Nat
  BY <1>1
<1> QED
  BY <1>1, <1>2, <1>3, PagesOfWindow

LEMMA PageOfMirrors ==
  ASSUME NEW entries, NEW mem, NEW a \in Nat, NEW s \in Nat \ {0}, NEW n \in Nat, NEW start,
         NEW p \in a..(a + n * s - 1), p \in DOMAIN entries
  PROVE  Mirrored(entries, mem, a * PageSize, s * PageSize, start, n)[p] =
           Data(mem.name, start + ((p - a) % s) * PageSize)
<1> DEFINE from == a * PageSize
           size == s * PageSize
           last == LastMirror(p, from, size, n)
<1>1. ASSUME NEW i \in 0..(n - 1)
      PROVE  /\ i \in Nat /\ i * s \in Nat
             /\ (from + i * size) \div PageSize = a + i * s
             /\ Window(from + i * size, size) = (a + i * s)..(a + i * s + s - 1)
  <2>1. i \in Nat
    OBVIOUS
  <2> QED
    BY <2>1, MirrorWindow, Zenon
<1>2. p \in a..(a + n * s - 1) /\ p \in Nat
  OBVIOUS
<1>3. Mirrored(entries, mem, from, size, start, n)[p] =
        Data(mem.name, start + ((p - a) % s) * PageSize)
  <2> DEFINE x == p - a
             q == x \div s
  <2>0. x \in Nat /\ n * s \in Nat /\ x < n * s
    BY <1>2
  <2>1. q \in Nat /\ q * s <= x /\ x < q * s + s /\ x % s = x - q * s /\ q * s \in Nat
    <3> HIDE DEF x
    <3>1. q \in Nat /\ q * s <= x /\ x < q * s + s
      BY <2>0, QuotientTimes
    <3> HIDE DEF q
    <3>2. q * s \in Nat
      BY <3>1
    <3> QED
      BY <2>0, <3>1, <3>2, QuotientIs
  <2>2. q < n
    <3> HIDE DEF q, x
    <3>1. ASSUME n <= q PROVE FALSE
      <4>1. n * s <= q * s
        BY <2>1, <3>1, TimesMonotone
      <4> QED
        BY <2>0, <2>1, <4>1
    <3> QED
      BY <2>1, <3>1
  <2>3. q \in 0..(n - 1)
    BY <2>1, <2>2
  <2>4. p \in Window(from + q * size, size)
    <3> HIDE DEF q
    <3> QED
      BY <1>1, <1>2, <2>1, <2>3
  <2>5. ASSUME NEW i \in 0..(n - 1), p \in Window(from + i * size, size)
        PROVE  i = q
    <3>1. i \in Nat /\ i * s \in Nat /\ i * s <= x /\ x < i * s + s
      BY <1>1, <2>5
    <3> HIDE DEF x
    <3> QED
      BY <2>0, <3>1, QuotientIs
  <2>6. last = {q}
    <3> HIDE DEF q, from, size
    <3> QED
      BY <2>3, <2>4, <2>5 DEF LastMirror
  <2>7. (CHOOSE i \in last : TRUE) = q
    BY <2>6
  <2>8. Mirrored(entries, mem, from, size, start, n)[p] =
          Data(mem.name, start + (p - ((from + q * size) \div PageSize)) * PageSize)
    <3> HIDE DEF q
    <3>1. last # {}
      BY <2>6
    <3> HIDE DEF from, size
    <3> QED
      BY <2>7, <3>1, Zenon DEF Mirrored
  <2>9. p - ((from + q * size) \div PageSize) = x % s
    <3>1. (from + q * size) \div PageSize = a + q * s
      BY <1>1, <2>3
    <3>2. p - (a + q * s) = x - q * s
      <4> HIDE DEF q
      <4> QED
        BY <2>1
    <3> QED
      BY <2>1, <3>1, <3>2
  <2> QED
    BY <1>2, <2>8, <2>9
<1> QED
  BY <1>3

LEMMA PageBesideMirrors ==
  ASSUME NEW entries, NEW mem, NEW a \in Nat, NEW s \in Nat \ {0}, NEW n \in Nat, NEW start,
         NEW p \in Nat, p \notin a..(a + n * s - 1), p \in DOMAIN entries
  PROVE  Mirrored(entries, mem, a * PageSize, s * PageSize, start, n)[p] = entries[p]
<1> DEFINE from == a * PageSize
           size == s * PageSize
           last == LastMirror(p, from, size, n)
<1>1. ASSUME NEW i \in 0..(n - 1)
      PROVE  /\ i \in Nat /\ i * s \in Nat
             /\ (from + i * size) \div PageSize = a + i * s
             /\ Window(from + i * size, size) = (a + i * s)..(a + i * s + s - 1)
  <2>1. i \in Nat
    OBVIOUS
  <2>2. i * s \in Nat
    BY <2>1
  <2>3. (from + i * size) \div PageSize = a + i * s
    BY <2>1, MirrorWindow
  <2>4. Window(from + i * size, size) = (a + i * s)..(a + i * s + s - 1)
    BY <2>1, MirrorWindow
  <2> QED
    BY <2>1, <2>2, <2>3, <2>4, Zenon
<1>2. ASSUME NEW i \in 0..(n - 1), p \in Window(from + i * size, size)
      PROVE  FALSE
  <2>1. i \in Nat /\ i * s \in Nat /\ a + i * s <= p /\ p < a + i * s + s
    BY <1>1, <1>2
  <2>2. (i + 1) * s <= n * s /\ (i + 1) * s = i * s + s /\ n * s \in Nat
    <3>1. i + 1 \in Nat /\ i + 1 <= n
      OBVIOUS
    <3> QED
      BY <2>1, <3>1, TimesMonotone
  <2> QED
    BY <2>1, <2>2
<1>3. last = {}
  <2> HIDE DEF from, size
  <2> QED
    BY <1>2 DEF LastMirror
<1> QED
  BY <1>3 DEF Mirrored

LEMMA PageRepeats ==
  ASSUME NEW entries, NEW mem, NEW a \in Nat, NEW s \in Nat \ {0}, NEW n \in Nat,
         NEW p \in a..(a + n * s - 1), p \in DOMAIN entries
  PROVE  Mirrored(entries, mem, a * PageSize, s * PageSize, 0, n)[p] =
           Data(mem.name, ((p - a) * PageSize) % (s * PageSize))
<1> DEFINE x == p - a
           at == (x % s) * PageSize
<1>1. p \in Nat /\ x \in Nat /\ x % s \in Nat
  OBVIOUS
<1>2. Mirrored(entries, mem, a * PageSize, s * PageSize, 0, n)[p] = Data(mem.name, 0 + at)
  BY PageOfMirrors
<1>3. 0 + at = (x * PageSize) % (s * PageSize)
  <2> HIDE DEF x
  <2>1. (x * PageSize) % (s * PageSize) = at
    BY <1>1, Sizes, RemainderScales
  <2>2. at \in Nat
    BY <1>1, Sizes
  <2> HIDE DEF at
  <2> QED
    BY <2>1, <2>2
<1> HIDE DEF at
<1> QED
  BY <1>2, <1>3, Zenon

-----------------------------------------------------------------------------
(* Everything in proportion to K, in pages                                 *)
k8 == K \div 8

LEMMA WholePages ==
  /\ PageSize \in Nat \ {0} /\ k8 \in Nat \ {0} /\ K = 8 * k8 /\ K \in Nat \ {0}
  /\ K \div 2 = 4 * k8 /\ (3 * K) \div 2 = 12 * k8
  /\ B = K * PageSize /\ 2 * B = (2 * K) * PageSize /\ 3 * B = (3 * K) * PageSize
  /\ 4 * B = (4 * K) * PageSize /\ 6 * B = (6 * K) * PageSize
  /\ 2 * (2 * B) = (4 * K) * PageSize
  /\ B \div 8 = nt /\ nt = k8 * PageSize /\ 2 * nt = (2 * k8) * PageSize
  /\ B \div 2 = half /\ half = (4 * k8) * PageSize
<1>1. /\ PageSize \in Nat \ {0} /\ k8 \in Nat \ {0} /\ K = 8 * k8 /\ K \in Nat \ {0}
  BY KAssumption, PageAssumption DEF k8
<1>2. K \div 2 = 4 * k8 /\ (3 * K) \div 2 = 12 * k8
  BY <1>1
<1>3. /\ B = K * PageSize /\ 2 * B = (2 * K) * PageSize /\ 3 * B = (3 * K) * PageSize
      /\ 4 * B = (4 * K) * PageSize /\ 6 * B = (6 * K) * PageSize
      /\ 2 * (2 * B) = (4 * K) * PageSize
  BY <1>1 DEF B
<1>4. 8 * nt = 8 * (k8 * PageSize) /\ k8 * PageSize \in Nat /\ nt \in Nat
  <2>1. B = 8 * (k8 * PageSize)
    BY <1>1 DEF B
  <2> QED
    BY <1>1, <2>1, Parts
<1>5. nt = k8 * PageSize
  <2> DEFINE e == k8 * PageSize
  <2> HIDE DEF e
  <2>1. 8 * nt = 8 * e /\ e \in Nat /\ nt \in Nat
    BY <1>4 DEF e
  <2>2. nt = e
    BY <2>1
  <2> QED
    BY <2>2 DEF e
<1>6. half = (4 * k8) * PageSize /\ 2 * nt = (2 * k8) * PageSize
  BY <1>1, <1>5, Parts
<1> QED
  BY <1>1, <1>2, <1>3, <1>5, <1>6 DEF nt, half

-----------------------------------------------------------------------------
(* The pages of an SxROM.  The mapping of a window leaves the other pages  *)
(* alone, and the mappings of the two buses' other memories are elsewhere. *)
Upper == (4 * K)..(8 * K - 1)
WorkPages == (3 * K)..(4 * K - 1)

PrgShown(bus, m) ==
  \A p \in Upper :
    LET n == p - 4 * K
    IN  bus.read[p] = Data("prgrom", m.prg[n \div (2 * K) + 1] * 2 * B
                                       + (n % (2 * K)) * PageSize)

LEMMA UpperHalves ==
  ASSUME NEW p \in Upper
  PROVE  LET n == p - 4 * K
         IN  /\ p \in 4 * K..(4 * K + 2 * K - 1) =>
                  n \div (2 * K) = 0 /\ n % (2 * K) = p - 4 * K
             /\ p \notin 4 * K..(4 * K + 2 * K - 1) =>
                  n \div (2 * K) = 1 /\ n % (2 * K) = p - 6 * K
<1> DEFINE n == p - 4 * K
           d == 2 * K
           low == 4 * K..(4 * K + 2 * K - 1)
<1>1. /\ n \in Nat /\ d \in Nat \ {0} /\ n < 2 * d
      /\ p \in low <=> n < d
      /\ n - d = p - 6 * K
  BY Sizes DEF Upper
<1>2. ASSUME p \in low PROVE n \div d = 0 /\ n % d = n
  <2> HIDE DEF n, d, low
  <2>1. 0 * d <= n /\ n < 0 * d + d /\ n - 0 * d = n
    BY <1>1, <1>2
  <2> QED
    BY <1>1, <2>1, QuotientIs
<1>3. ASSUME p \notin low PROVE n \div d = 1 /\ n % d = p - 6 * K
  <2> HIDE DEF n, d, low
  <2>1. 1 * d <= n /\ n < 1 * d + d /\ n - 1 * d = n - d
    BY <1>1, <1>3
  <2>2. n \div d = 1 /\ n % d = n - d
    BY <1>1, <2>1, QuotientIs
  <2> QED
    BY <1>1, <2>2
<1>4. /\ p \in low => n \div d = 0 /\ n % d = n
      /\ p \notin low => n \div d = 1 /\ n % d = p - 6 * K
  BY <1>2, <1>3
<1> QED
  BY <1>4, Zenon

LEMMA RemapCpuShows ==
  ASSUME NEW bus, DOMAIN bus.read = Pages, DOMAIN bus.write = Pages, NEW r, NEW m,
         m.prg[1] \in Nat, m.prg[2] \in Nat, ~Switching16(r) => m.prg[2] = m.prg[1] + 1
  PROVE  /\ PrgShown(RemapCpu(bus, r, m), m)
         /\ \A p \in Upper : RemapCpu(bus, r, m).write[p] = bus.write[p]
<1> DEFINE bank == 2 * B
           Prg(b, from, size, k) == memory_map(b, prgrom, from, size, m.prg[k] * bank)
           rom == IF Switching16(r) THEN Prg(Prg(bus, 4 * B, bank, 1), 6 * B, bank, 2)
                  ELSE Prg(bus, 4 * B, 2 * bank, 1)
<1>0. /\ 4 * K \in Nat /\ 6 * K \in Nat /\ 2 * K \in Nat /\ 3 * K \in Nat /\ K \in Nat
      /\ \A p \in Upper : p \in Pages /\ p \in Nat
  BY Sizes DEF Upper, Pages
<1>1. ASSUME NEW b, DOMAIN b.read = Pages, NEW mem, NEW a \in Nat, NEW s \in Nat, NEW start
      PROVE  DOMAIN memory_map(b, mem, a * PageSize, s * PageSize, start).read = Pages
  BY <1>1 DEF memory_map, Shown
<1>2. PrgShown(rom, m) /\ DOMAIN rom.read = Pages /\ rom.write = bus.write
  <2>1. CASE Switching16(r)
    <3> DEFINE low == memory_map(bus, prgrom, (4 * K) * PageSize, (2 * K) * PageSize, m.prg[1] * bank)
               new == memory_map(low, prgrom, (6 * K) * PageSize, (2 * K) * PageSize, m.prg[2] * bank)
    <3>1. rom = new
      BY <2>1, WholePages
    <3>2. DOMAIN low.read = Pages /\ DOMAIN new.read = Pages
      BY <1>0, <1>1
    <3>3. new.write = bus.write
      BY Memories DEF memory_map
    <3>4. ASSUME NEW p \in Upper
          PROVE  new.read[p] = IF p \in 4 * K..(4 * K + 2 * K - 1)
                               THEN Place(prgrom, 4 * K, m.prg[1] * bank, p)
                               ELSE Place(prgrom, 6 * K, m.prg[2] * bank, p)
      <4>1. low.read[p] = IF p \in 4 * K..(4 * K + 2 * K - 1)
                          THEN Place(prgrom, 4 * K, m.prg[1] * bank, p) ELSE bus.read[p]
        BY <1>0, PageShown
      <4>2. new.read[p] = IF p \in 6 * K..(6 * K + 2 * K - 1)
                          THEN Place(prgrom, 6 * K, m.prg[2] * bank, p) ELSE low.read[p]
        <5> HIDE DEF low
        <5> QED
          BY <1>0, <3>2, PageShown
      <4>3. p \in 6 * K..(6 * K + 2 * K - 1) <=> p \notin 4 * K..(4 * K + 2 * K - 1)
        BY Sizes DEF Upper
      <4> HIDE DEF low, new
      <4> QED
        BY <4>1, <4>2, <4>3
    <3> HIDE DEF new, low
    <3>5. PrgShown(new, m)
      <4> SUFFICES ASSUME NEW p \in Upper
                   PROVE  LET n == p - 4 * K
                          IN  new.read[p] = Data("prgrom", m.prg[n \div (2 * K) + 1] * 2 * B
                                                   + (n % (2 * K)) * PageSize)
        BY DEF PrgShown
      <4>1. CASE p \in 4 * K..(4 * K + 2 * K - 1)
        <5>1. new.read[p] = Data("prgrom", m.prg[1] * bank + (p - 4 * K) * PageSize)
          BY <3>4, <4>1, Memories DEF Place
        <5>2. m.prg[1] * bank = m.prg[1] * 2 * B
          BY Sizes
        <5> QED
          BY <4>1, <5>1, <5>2, UpperHalves
      <4>2. CASE p \notin 4 * K..(4 * K + 2 * K - 1)
        <5>1. new.read[p] = Data("prgrom", m.prg[2] * bank + (p - 6 * K) * PageSize)
          BY <3>4, <4>2, Memories DEF Place
        <5>2. m.prg[2] * bank = m.prg[2] * 2 * B
          BY Sizes
        <5> QED
          BY <4>2, <5>1, <5>2, UpperHalves
      <4> QED
        BY <4>1, <4>2
    <3> QED
      BY <3>1, <3>2, <3>3, <3>5
  <2>2. CASE ~Switching16(r)
    <3> DEFINE new == memory_map(bus, prgrom, (4 * K) * PageSize, (4 * K) * PageSize, m.prg[1] * bank)
    <3>1. rom = new
      BY <2>2, WholePages
    <3>2. DOMAIN new.read = Pages
      BY <1>0, <1>1
    <3>3. new.write = bus.write
      BY Memories DEF memory_map
    <3>4. ASSUME NEW p \in Upper
          PROVE  new.read[p] = Data("prgrom", m.prg[1] * bank + (p - 4 * K) * PageSize)
      <4>1. new.read[p] = IF p \in 4 * K..(4 * K + 4 * K - 1)
                          THEN Place(prgrom, 4 * K, m.prg[1] * bank, p) ELSE bus.read[p]
        BY <1>0, PageShown
      <4>2. p \in 4 * K..(4 * K + 4 * K - 1)
        BY Sizes DEF Upper
      <4> HIDE DEF new
      <4> QED
        BY <4>1, <4>2, Memories DEF Place
    <3> HIDE DEF new
    <3>5. PrgShown(new, m)
      <4> SUFFICES ASSUME NEW p \in Upper
                   PROVE  LET n == p - 4 * K
                          IN  new.read[p] = Data("prgrom", m.prg[n \div (2 * K) + 1] * 2 * B
                                                   + (n % (2 * K)) * PageSize)
        BY DEF PrgShown
      <4>1. CASE p \in 4 * K..(4 * K + 2 * K - 1)
        <5>1. m.prg[1] * bank = m.prg[1] * 2 * B
          BY Sizes
        <5> QED
          BY <3>4, <4>1, <5>1, UpperHalves
      <4>2. CASE p \notin 4 * K..(4 * K + 2 * K - 1)
        <5>1. m.prg[1] * bank + (p - 4 * K) * PageSize = m.prg[2] * 2 * B + (p - 6 * K) * PageSize
          <6>1. p \in Nat /\ m.prg[2] = m.prg[1] + 1 /\ 2 * B = (2 * K) * PageSize
            BY <1>0, <2>2, WholePages
          <6>2. (p - 4 * K) * PageSize = (p - 6 * K) * PageSize + (2 * K) * PageSize
            BY <6>1, Sizes
          <6>3. m.prg[2] * 2 * B = m.prg[1] * (2 * B) + 2 * B
            BY <6>1, Sizes
          <6>4. (p - 6 * K) * PageSize \in Int /\ m.prg[1] * (2 * B) \in Int /\ 2 * B \in Int
            BY <6>1, Sizes
          <6> QED
            BY <6>1, <6>2, <6>3, <6>4
        <5> QED
          BY <3>4, <4>2, <5>1, UpperHalves
      <4> QED
        BY <4>1, <4>2
    <3> QED
      BY <3>1, <3>2, <3>3, <3>5
  <2> QED
    BY <2>1, <2>2
<1>3. RemapCpu(bus, r, m) = IF wram_size = 0 THEN rom ELSE memory_map(rom, wram, 3 * B, B, 0)
  BY DEF RemapCpu
<1> HIDE DEF rom
<1>4. CASE wram_size # 0
  <2> DEFINE new == memory_map(rom, wram, (3 * K) * PageSize, K * PageSize, 0)
  <2>1. RemapCpu(bus, r, m) = new
    BY <1>3, <1>4, WholePages
  <2>2. ASSUME NEW p \in Upper
        PROVE  new.read[p] = rom.read[p] /\ new.write[p] = rom.write[p]
    <3>1. p \notin 3 * K..(3 * K + K - 1)
      BY Sizes DEF Upper
    <3>2. new.read[p] = rom.read[p]
      BY <1>0, <1>2, <3>1, PageShown
    <3>3. new.write[p] = rom.write[p]
      BY <1>0, <1>2, <3>1, PagesOfWindow DEF memory_map, Shown
    <3> QED
      BY <3>2, <3>3
  <2> QED
    BY <1>2, <2>1, <2>2 DEF PrgShown
<1> QED
  BY <1>2, <1>3, <1>4

-----------------------------------------------------------------------------
(* The picture unit's bus: the pages of the pattern tables, and page i of  *)
(* nametable q.                                                            *)
Patterns == 0..(K - 1)
NamePages == 0..(k8 - 1)
NamePage(q, i) == K + q * k8 + i

LEMMA PagesOfNames ==
  /\ \A q \in 0..3, i \in NamePages : NamePage(q, i) \in Pages /\ NamePage(q, i) \in Nat
  /\ \A q \in 0..3 : /\ q * k8 \in Nat /\ K + q * k8 \in Nat
                     /\ B + q * nt = (K + q * k8) * PageSize
  /\ \A p \in Patterns : p \in Pages /\ p \in Nat
<1>1. /\ \A p \in Patterns : p \in Pages /\ p \in Nat
      /\ k8 \in Nat \ {0} /\ K = 8 * k8 /\ nt = k8 * PageSize /\ B = K * PageSize
      /\ PageSize \in Nat \ {0}
  BY WholePages DEF Patterns, Pages
<1>2. \A q \in 0..3, i \in NamePages : NamePage(q, i) \in Pages /\ NamePage(q, i) \in Nat
  <2> SUFFICES ASSUME NEW q \in 0..3, NEW i \in NamePages
               PROVE  NamePage(q, i) \in Pages /\ NamePage(q, i) \in Nat
    OBVIOUS
  <2>1. q * k8 = 0 \/ q * k8 = k8 \/ q * k8 = 2 * k8 \/ q * k8 = 3 * k8
    BY <1>1
  <2> QED
    BY <1>1, <2>1 DEF NamePage, NamePages, Pages
<1>3. \A q \in 0..3 : /\ q * k8 \in Nat /\ K + q * k8 \in Nat
                      /\ B + q * nt = (K + q * k8) * PageSize
  BY <1>1
<1> QED
  BY <1>1, <1>2, <1>3

(* The pages of two nametables are apart.                                  *)
LEMMA NamesApart ==
  ASSUME NEW q \in 0..3, NEW o \in 0..3, NEW i \in NamePages
  PROVE  /\ NamePage(o, i) \in (K + q * k8)..(K + q * k8 + k8 - 1) <=> o = q
         /\ o = q => NamePage(o, i) - (K + q * k8) = i
<1>1. k8 \in Nat \ {0} /\ K \in Nat /\ i \in 0..(k8 - 1)
  BY WholePages DEF NamePages
<1>2. /\ q = 0 \/ q = 1 \/ q = 2 \/ q = 3
      /\ o = 0 \/ o = 1 \/ o = 2 \/ o = 3
  OBVIOUS
<1> QED
  BY <1>1, <1>2 DEF NamePage

LEMMA NameMapped ==
  ASSUME NEW bus, DOMAIN bus.read = Pages, NEW q \in 0..3, NEW start
  PROVE  LET new == memory_map(bus, vram, B + q * nt, nt, start)
         IN  /\ DOMAIN new.read = Pages
             /\ \A o \in 0..3, i \in NamePages :
                  new.read[NamePage(o, i)] = IF o = q THEN Data("vram", start + i * PageSize)
                                             ELSE bus.read[NamePage(o, i)]
             /\ \A p \in Patterns : new.read[p] = bus.read[p]
<1> DEFINE a == K + q * k8
           new == memory_map(bus, vram, a * PageSize, k8 * PageSize, start)
<1>1. memory_map(bus, vram, B + q * nt, nt, start) = new
  BY PagesOfNames, WholePages
<1>2. a \in Nat /\ k8 \in Nat
  BY PagesOfNames, WholePages
<1>3. DOMAIN new.read = Pages
  BY DEF memory_map, Shown
<1>4. ASSUME NEW p \in Pages
      PROVE  new.read[p] = IF p \in a..(a + k8 - 1) THEN Place(vram, a, start, p) ELSE bus.read[p]
  <2> HIDE DEF a
  <2> QED
    BY <1>2, PageShown DEF new
<1>5. ASSUME NEW o \in 0..3, NEW i \in NamePages
      PROVE  new.read[NamePage(o, i)] = IF o = q THEN Data("vram", start + i * PageSize)
                                        ELSE bus.read[NamePage(o, i)]
  <2>1. NamePage(o, i) \in Pages
    BY PagesOfNames
  <2>2. NamePage(o, i) \in a..(a + k8 - 1) <=> o = q
    BY NamesApart
  <2>3. o = q => NamePage(o, i) - a = i
    BY NamesApart
  <2> HIDE DEF a, new
  <2> QED
    BY <1>4, <2>1, <2>2, <2>3, Memories DEF Place
<1>6. ASSUME NEW p \in Patterns PROVE new.read[p] = bus.read[p]
  <2>1. p \notin a..(a + k8 - 1)
    BY <1>2, PagesOfNames, WholePages DEF Patterns
  <2> HIDE DEF a, new
  <2> QED
    BY <1>4, <2>1, PagesOfNames
<1> QED
  BY <1>1, <1>3, <1>5, <1>6

(* Pattern tables are mapped below the nametables.                         *)
LEMMA PatternMapped ==
  ASSUME NEW bus, DOMAIN bus.read = Pages, NEW a \in Nat, NEW s \in Nat, a + s <= K, NEW start
  PROVE  LET new == memory_map(bus, chrom, a * PageSize, s * PageSize, start)
         IN  /\ DOMAIN new.read = Pages
             /\ \A o \in 0..3, i \in NamePages :
                  new.read[NamePage(o, i)] = bus.read[NamePage(o, i)]
             /\ \A p \in Patterns :
                  new.read[p] = IF p \in a..(a + s - 1)
                                THEN Data("chrom", start + (p - a) * PageSize) ELSE bus.read[p]
<1> DEFINE new == memory_map(bus, chrom, a * PageSize, s * PageSize, start)
<1>1. DOMAIN new.read = Pages
  BY DEF memory_map, Shown
<1>2. ASSUME NEW p \in Pages
      PROVE  new.read[p] = IF p \in a..(a + s - 1) THEN Place(chrom, a, start, p) ELSE bus.read[p]
  BY PageShown
<1> HIDE DEF new
<1>3. ASSUME NEW o \in 0..3, NEW i \in NamePages
      PROVE  new.read[NamePage(o, i)] = bus.read[NamePage(o, i)]
  <2>1. NamePage(o, i) \in Pages /\ K <= NamePage(o, i) /\ K \in Nat /\ NamePage(o, i) \in Nat
    <3>1. i \in Nat /\ o * k8 \in Nat /\ K \in Nat
      BY PagesOfNames, WholePages DEF NamePages
    <3> QED
      BY <3>1, PagesOfNames DEF NamePage
  <2>2. NamePage(o, i) \notin a..(a + s - 1)
    BY <2>1
  <2> QED
    BY <1>2, <2>1, <2>2
<1>4. ASSUME NEW p \in Patterns
      PROVE  new.read[p] = IF p \in a..(a + s - 1)
                           THEN Data("chrom", start + (p - a) * PageSize) ELSE bus.read[p]
  BY <1>2, PagesOfNames, Memories DEF Place
<1> QED
  BY <1>1, <1>3, <1>4 DEF new

(* Nametable q is the f[q + 1]-th of the two in video memory.              *)
NamesShown(bus, f) ==
  \A q \in 0..3, i \in NamePages :
    bus.read[NamePage(q, i)] = Data("vram", f[q + 1] * nt + i * PageSize)

PatternsShown(bus, m) ==
  \A p \in Patterns :
    bus.read[p] = Data("chrom", m.chr[p \div (K \div 2) + 1] * (B \div 2)
                                  + (p % (K \div 2)) * PageSize)

LEMMA PatternHalves ==
  ASSUME NEW p \in Patterns
  PROVE  /\ p \in 0..(0 + 4 * k8 - 1) => p \div (K \div 2) = 0 /\ p % (K \div 2) = p - 0
         /\ p \notin 0..(0 + 4 * k8 - 1) => p \div (K \div 2) = 1 /\ p % (K \div 2) = p - 4 * k8
         /\ p \in 4 * k8..(4 * k8 + 4 * k8 - 1) <=> p \notin 0..(0 + 4 * k8 - 1)
<1> DEFINE d == 4 * k8
<1>1. d \in Nat \ {0} /\ p \in Nat /\ p < 2 * d /\ K \div 2 = d
  BY WholePages DEF Patterns
<1> HIDE DEF d
<1>2. CASE p < d
  <2>1. 0 * d <= p /\ p < 0 * d + d /\ p - 0 * d = p
    BY <1>1, <1>2
  <2>2. p \div d = 0 /\ p % d = p
    BY <1>1, <2>1, QuotientIs
  <2> QED
    BY <1>1, <1>2, <2>2 DEF d
<1>3. CASE d <= p
  <2>1. 1 * d <= p /\ p < 1 * d + d /\ p - 1 * d = p - d
    BY <1>1, <1>3
  <2>2. p \div d = 1 /\ p % d = p - d
    BY <1>1, <2>1, QuotientIs
  <2> QED
    BY <1>1, <1>3, <2>2 DEF d
<1> QED
  BY <1>1, <1>2, <1>3

LEMMA RemapPpuShows ==
  ASSUME NEW bus, DOMAIN bus.read = Pages, NEW r, NEW m, m.chr[1] \in Nat, m.chr[2] \in Nat,
         ~Switching4(r) => m.chr[2] = m.chr[1] + 1
  PROVE  NamesShown(RemapPpu(bus, r, m), m.nt) /\ PatternsShown(RemapPpu(bus, r, m), m)
<1> DEFINE Name(b, q) == memory_map(b, vram, B + (q - 1) * nt, nt, m.nt[q] * nt)
           Chr(b, from, size, k) == memory_map(b, chrom, from, size, m.chr[k] * half)
           one == Name(bus, 1)
           two == Name(one, 2)
           three == Name(two, 3)
           names == Name(three, 4)
<1>1. ASSUME NEW b, DOMAIN b.read = Pages, NEW q \in 1..4
      PROVE  /\ DOMAIN Name(b, q).read = Pages
             /\ \A o \in 0..3, i \in NamePages :
                  Name(b, q).read[NamePage(o, i)] =
                    IF o = q - 1 THEN Data("vram", m.nt[q] * nt + i * PageSize)
                    ELSE b.read[NamePage(o, i)]
  <2>1. q - 1 \in 0..3
    OBVIOUS
  <2> QED
    BY <1>1, <2>1, NameMapped
<1>2. DOMAIN names.read = Pages /\ NamesShown(names, m.nt)
  <2> HIDE DEF Name
  <2>1. /\ DOMAIN one.read = Pages
        /\ \A i \in NamePages : one.read[NamePage(0, i)] = Data("vram", m.nt[1] * nt + i * PageSize)
    BY <1>1
  <2> HIDE DEF one
  <2>2. /\ DOMAIN two.read = Pages
        /\ \A i \in NamePages :
             /\ two.read[NamePage(0, i)] = Data("vram", m.nt[1] * nt + i * PageSize)
             /\ two.read[NamePage(1, i)] = Data("vram", m.nt[2] * nt + i * PageSize)
    BY <1>1, <2>1
  <2> HIDE DEF two
  <2>3. /\ DOMAIN three.read = Pages
        /\ \A i \in NamePages :
             /\ three.read[NamePage(0, i)] = Data("vram", m.nt[1] * nt + i * PageSize)
             /\ three.read[NamePage(1, i)] = Data("vram", m.nt[2] * nt + i * PageSize)
             /\ three.read[NamePage(2, i)] = Data("vram", m.nt[3] * nt + i * PageSize)
    BY <1>1, <2>2
  <2> HIDE DEF three
  <2>4. /\ DOMAIN names.read = Pages
        /\ \A i \in NamePages :
             /\ names.read[NamePage(0, i)] = Data("vram", m.nt[1] * nt + i * PageSize)
             /\ names.read[NamePage(1, i)] = Data("vram", m.nt[2] * nt + i * PageSize)
             /\ names.read[NamePage(2, i)] = Data("vram", m.nt[3] * nt + i * PageSize)
             /\ names.read[NamePage(3, i)] = Data("vram", m.nt[4] * nt + i * PageSize)
    BY <1>1, <2>3
  <2> HIDE DEF names
  <2>5. \A q \in 0..3 : q = 0 \/ q = 1 \/ q = 2 \/ q = 3
    OBVIOUS
  <2> QED
    BY <2>4, <2>5 DEF NamesShown
<1>3. RemapPpu(bus, r, m) = IF Switching4(r) THEN Chr(Chr(names, 0, half, 1), half, half, 2)
                            ELSE Chr(names, 0, B, 1)
  BY DEF RemapPpu, nt, half
<1> HIDE DEF names
<1>4. 0 \in Nat /\ 4 * k8 \in Nat /\ 0 + 4 * k8 <= K /\ 4 * k8 + 4 * k8 <= K /\ 0 + K <= K /\ K \in Nat
  BY WholePages
<1>5. CASE Switching4(r)
  <2> DEFINE low == memory_map(names, chrom, 0 * PageSize, (4 * k8) * PageSize, m.chr[1] * half)
             new == memory_map(low, chrom, (4 * k8) * PageSize, (4 * k8) * PageSize, m.chr[2] * half)
  <2>1. RemapPpu(bus, r, m) = new
    BY <1>3, <1>5, WholePages, Units
  <2>2. /\ DOMAIN low.read = Pages
        /\ \A o \in 0..3, i \in NamePages : low.read[NamePage(o, i)] = names.read[NamePage(o, i)]
        /\ \A p \in Patterns :
             low.read[p] = IF p \in 0..(0 + 4 * k8 - 1)
                           THEN Data("chrom", m.chr[1] * half + (p - 0) * PageSize) ELSE names.read[p]
    BY <1>2, <1>4, PatternMapped
  <2> HIDE DEF low
  <2>3. /\ \A o \in 0..3, i \in NamePages : new.read[NamePage(o, i)] = low.read[NamePage(o, i)]
        /\ \A p \in Patterns :
             new.read[p] = IF p \in 4 * k8..(4 * k8 + 4 * k8 - 1)
                           THEN Data("chrom", m.chr[2] * half + (p - 4 * k8) * PageSize) ELSE low.read[p]
    BY <1>4, <2>2, PatternMapped
  <2> HIDE DEF new
  <2>4. NamesShown(new, m.nt)
    BY <1>2, <2>2, <2>3 DEF NamesShown
  <2>5. PatternsShown(new, m)
    <3> SUFFICES ASSUME NEW p \in Patterns
                 PROVE  new.read[p] = Data("chrom", m.chr[p \div (K \div 2) + 1] * (B \div 2)
                                                      + (p % (K \div 2)) * PageSize)
      BY DEF PatternsShown
    <3>1. CASE p \in 0..(0 + 4 * k8 - 1)
      <4>1. new.read[p] = Data("chrom", m.chr[1] * half + (p - 0) * PageSize)
        BY <2>2, <2>3, <3>1, PatternHalves
      <4> QED
        BY <3>1, <4>1, PatternHalves DEF half
    <3>2. CASE p \notin 0..(0 + 4 * k8 - 1)
      <4>1. new.read[p] = Data("chrom", m.chr[2] * half + (p - 4 * k8) * PageSize)
        BY <2>3, <3>2, PatternHalves
      <4> QED
        BY <3>2, <4>1, PatternHalves DEF half
    <3> QED
      BY <3>1, <3>2
  <2> QED
    BY <2>1, <2>4, <2>5
<1>6. CASE ~Switching4(r)
  <2> DEFINE new == memory_map(names, chrom, 0 * PageSize, K * PageSize, m.chr[1] * half)
  <2>1. RemapPpu(bus, r, m) = new
    BY <1>3, <1>6, WholePages, Units
  <2>2. /\ \A o \in 0..3, i \in NamePages : new.read[NamePage(o, i)] = names.read[NamePage(o, i)]
        /\ \A p \in Patterns :
             new.read[p] = IF p \in 0..(0 + K - 1)
                           THEN Data("chrom", m.chr[1] * half + (p - 0) * PageSize) ELSE names.read[p]
    BY <1>2, <1>4, PatternMapped
  <2> HIDE DEF new
  <2>3. NamesShown(new, m.nt)
    BY <1>2, <2>2 DEF NamesShown
  <2>4. PatternsShown(new, m)
    <3> SUFFICES ASSUME NEW p \in Patterns
                 PROVE  new.read[p] = Data("chrom", m.chr[p \div (K \div 2) + 1] * (B \div 2)
                                                      + (p % (K \div 2)) * PageSize)
      BY DEF PatternsShown
    <3>1. p \in 0..(0 + K - 1) /\ p \in Nat
      BY <1>4 DEF Patterns
    <3>2. new.read[p] = Data("chrom", m.chr[1] * half + p * PageSize)
      BY <2>2, <3>1
    <3>3. CASE p \in 0..(0 + 4 * k8 - 1)
      BY <3>1, <3>2, <3>3, PatternHalves DEF half
    <3>4. CASE p \notin 0..(0 + 4 * k8 - 1)
      <4>1. m.chr[1] * half + p * PageSize = m.chr[2] * half + (p - 4 * k8) * PageSize
        <5>1. m.chr[2] = m.chr[1] + 1 /\ half = (4 * k8) * PageSize /\ half \in Nat
          BY <1>6, WholePages, Parts
        <5>2. p * PageSize = (p - 4 * k8) * PageSize + (4 * k8) * PageSize
          BY <3>1, WholePages
        <5>3. m.chr[2] * half = m.chr[1] * half + half
          BY <5>1
        <5>4. (p - 4 * k8) * PageSize \in Int /\ m.chr[1] * half \in Int
          BY <3>1, <5>1, WholePages
        <5> QED
          BY <5>1, <5>2, <5>3, <5>4
      <4> QED
        BY <3>2, <3>4, <4>1, PatternHalves DEF half
    <3> QED
      BY <3>3, <3>4
  <2> QED
    BY <2>1, <2>3, <2>4
<1> QED
  BY <1>5, <1>6

-----------------------------------------------------------------------------
(* The pages of an NROM                                                    *)
PrgRepeats(bus) ==
  \A p \in Upper : bus.read[p] = Data("prgrom", ((p - 4 * K) * PageSize) % prgrom_size)

WramRepeats(bus) ==
  wram_size # 0 /\ wram_size % PageSize = 0 /\ B % wram_size = 0 =>
    \A p \in (3 * K)..(4 * K - 1) :
      bus.write[p] = Data("wram", ((p - 3 * K) * PageSize) % wram_size)

LEMMA NromPrg ==
  ASSUME header \in Fields, NromTakes
  PROVE  \/ prgrom_size = 2 * B /\ (4 * B) \div prgrom_size = 2
         \/ prgrom_size = 4 * B /\ (4 * B) \div prgrom_size = 1
<1> DEFINE n == header.prg + IF ines2 THEN 256 * header.prghi ELSE 0
<1>1. n \in Nat /\ B \in Nat \ {0}
  BY Sizes DEF Fields
<1>2. prgrom_size = 2 * B * n /\ prgrom_size # 0 /\ prgrom_size <= 4 * B
  BY DEF prgrom_size, NromTakes
<1> HIDE DEF n
<1>3. n # 0
  BY <1>1, <1>2
<1>4. ASSUME 3 <= n PROVE FALSE
  <2>1. 3 * B <= n * B /\ n * B \in Nat
    BY <1>1, <1>4, TimesMonotone
  <2>2. 2 * B * n = 2 * (n * B)
    BY <1>1
  <2> QED
    BY <1>1, <1>2, <2>1, <2>2
<1>5. n = 1 \/ n = 2
  BY <1>1, <1>3, <1>4
<1>6. prgrom_size = 2 * B \/ prgrom_size = 4 * B
  BY <1>1, <1>2, <1>5
<1>7. (4 * B) \div (2 * B) = 2 /\ (4 * B) \div (4 * B) = 1
  <2> DEFINE c == 4 * B
             d == 2 * B
  <2>1. c \in Nat \ {0} /\ d \in Nat \ {0} /\ c = 2 * d /\ c = 1 * c
    BY <1>1
  <2> HIDE DEF c, d
  <2>2. (2 * d) \div d = 2 /\ (1 * c) \div c = 1
    BY <2>1, QuotientExact
  <2> QED
    BY <2>1, <2>2 DEF c, d
<1> QED
  BY <1>6, <1>7

LEMMA DividesExactly ==
  ASSUME NEW x \in Nat, NEW d \in Nat \ {0}, x % d = 0
  PROVE  x \div d \in Nat /\ x = (x \div d) * d
<1>1. x = d * (x \div d) + (x % d)
  OBVIOUS
<1> QED
  BY <1>1, QuotientTimes

LEMMA NromWram ==
  ASSUME header \in Fields, wram_size # 0, wram_size % PageSize = 0, B % wram_size = 0
  PROVE  \E s \in Nat \ {0} : wram_size = s * PageSize /\ (B \div wram_size) * s = K
<1> DEFINE s == wram_size \div PageSize
           n == B \div wram_size
<1>1. wram_size \in Nat \ {0} /\ PageSize \in Nat \ {0} /\ B \in Nat /\ K \in Nat
  BY HeaderSizes, Sizes
<1>2. s \in Nat /\ wram_size = s * PageSize
  BY <1>1, DividesExactly
<1>3. n \in Nat /\ B = n * wram_size
  BY <1>1, DividesExactly
<1> HIDE DEF s, n
<1>4. s # 0
  BY <1>1, <1>2
<1>5. n * s \in Nat /\ K * PageSize = (n * s) * PageSize
  BY <1>1, <1>2, <1>3 DEF B
<1>6. n * s = K
  <2>1. (K * PageSize) \div PageSize = K /\ ((n * s) * PageSize) \div PageSize = n * s
    BY <1>1, <1>5, QuotientExact
  <2> QED
    BY <1>5, <2>1
<1> QED
  BY <1>2, <1>4, <1>6 DEF n

(* The same with the products named: bytes of pages, pages of mirrors      *)
Bytes(n) == n * PageSize
Mirrors(a, s, n) == a..(a + n * s - 1)

LEMMA PageOfMirror ==
  ASSUME NEW entries, NEW mem, NEW a \in Nat, NEW s \in Nat \ {0}, NEW n \in Nat,
         NEW p \in Mirrors(a, s, n), p \in DOMAIN entries
  PROVE  Mirrored(entries, mem, Bytes(a), Bytes(s), 0, n)[p] =
           Data(mem.name, Bytes(p - a) % Bytes(s))
BY PageRepeats DEF Bytes, Mirrors

LEMMA PlaceOfMirror ==
  ASSUME NEW entries, NEW mem, NEW a \in Nat, NEW s \in Nat \ {0}, NEW n \in Nat, NEW start,
         NEW p \in Mirrors(a, s, n), p \in DOMAIN entries
  PROVE  Mirrored(entries, mem, Bytes(a), Bytes(s), start, n)[p] =
           Data(mem.name, start + Bytes((p - a) % s))
BY PageOfMirrors DEF Bytes, Mirrors

LEMMA PageBesideMirror ==
  ASSUME NEW entries, NEW mem, NEW a \in Nat, NEW s \in Nat \ {0}, NEW n \in Nat, NEW start,
         NEW p \in Nat, p \notin Mirrors(a, s, n), p \in DOMAIN entries
  PROVE  Mirrored(entries, mem, Bytes(a), Bytes(s), start, n)[p] = entries[p]
BY PageBesideMirrors DEF Bytes, Mirrors

LEMMA PrgOfMirrors ==
  ASSUME NEW bus, DOMAIN bus.read = Pages, NEW s \in Nat \ {0}, NEW n \in Nat, n * s = 4 * K,
         prgrom_size = s * PageSize, NEW p \in Upper
  PROVE  Mirrored(bus.read, prgrom, 4 * B, prgrom_size, 0, n)[p] =
           Data("prgrom", ((p - 4 * K) * PageSize) % prgrom_size)
<1> DEFINE a == 4 * K
           e == bus.read
           m == prgrom
<1>1. /\ a \in Nat /\ 4 * B = Bytes(a) /\ prgrom_size = Bytes(s)
      /\ p \in Mirrors(a, s, n) /\ p \in DOMAIN e
  BY WholePages DEF Upper, Pages, Bytes, Mirrors
<1> HIDE DEF a, e, m
<1>2. Mirrored(e, m, Bytes(a), Bytes(s), 0, n)[p] = Data(m.name, Bytes(p - a) % Bytes(s))
  BY <1>1, PageOfMirror
<1>3. m.name = "prgrom"
  BY Memories DEF m
<1>4. Mirrored(e, m, 4 * B, prgrom_size, 0, n)[p] = Data("prgrom", Bytes(p - a) % prgrom_size)
  BY <1>1, <1>2, <1>3
<1> QED
  BY <1>4 DEF a, e, m, Bytes

LEMMA WramOfMirrors ==
  ASSUME NEW bus, DOMAIN bus.write = Pages, NEW s \in Nat \ {0}, NEW n \in Nat, n * s = K,
         wram_size = s * PageSize, NEW p \in WorkPages
  PROVE  Mirrored(bus.write, wram, 3 * B, wram_size, 0, n)[p] =
           Data("wram", ((p - 3 * K) * PageSize) % wram_size)
<1> DEFINE a == 3 * K
           e == bus.write
           m == wram
<1>1. /\ a \in Nat /\ 3 * B = Bytes(a) /\ wram_size = Bytes(s)
      /\ p \in Mirrors(a, s, n) /\ p \in DOMAIN e
  BY WholePages DEF WorkPages, Pages, Bytes, Mirrors
<1> HIDE DEF a, e, m
<1>2. Mirrored(e, m, Bytes(a), Bytes(s), 0, n)[p] = Data(m.name, Bytes(p - a) % Bytes(s))
  BY <1>1, PageOfMirror
<1>3. m.name = "wram"
  BY Memories DEF m
<1>4. Mirrored(e, m, 3 * B, wram_size, 0, n)[p] = Data("wram", Bytes(p - a) % wram_size)
  BY <1>1, <1>2, <1>3
<1> QED
  BY <1>4 DEF a, e, m, Bytes

LEMMA NromCpuShows ==
  ASSUME header \in Fields, NromTakes
  PROVE  PrgRepeats(NromCpu) /\ WramRepeats(NromCpu)
<1> DEFINE times == B \div wram_size
           work == IF wram_size = 0 THEN CommonMap
                   ELSE memory_map_mirroring(CommonMap, wram, 3 * B, wram_size, 0, times)
           n == (4 * B) \div prgrom_size
<1>0. /\ CpuGood(CommonMap) /\ DOMAIN CommonMap.read = Pages /\ DOMAIN CommonMap.write = Pages
      /\ 2 * K \in Nat \ {0} /\ 4 * K \in Nat \ {0}
  BY CommonGood, Sizes DEF CpuGood, Good
<1>1. DOMAIN work.read = Pages /\ DOMAIN work.write = Pages
  BY <1>0 DEF memory_map_mirroring, Mirrored
<1>2. /\ NromCpu.read = Mirrored(work.read, prgrom, 4 * B, prgrom_size, 0, n)
      /\ NromCpu.write = work.write
  BY Memories DEF NromCpu, memory_map_mirroring
<1>3. PrgRepeats(NromCpu)
  <2> HIDE DEF work, n
  <2>1. ASSUME NEW s \in Nat \ {0}, prgrom_size = s * PageSize, n \in Nat, n * s = 4 * K
        PROVE  PrgRepeats(NromCpu)
    BY <1>1, <1>2, <2>1, PrgOfMirrors DEF PrgRepeats
  <2>2. CASE prgrom_size = 2 * B /\ n = 2
    <3>1. prgrom_size = (2 * K) * PageSize /\ n * (2 * K) = 4 * K /\ n \in Nat
      BY <2>2, WholePages
    <3> QED
      BY <1>0, <2>1, <3>1
  <2>3. CASE prgrom_size = 4 * B /\ n = 1
    <3>1. prgrom_size = (4 * K) * PageSize /\ n * (4 * K) = 4 * K /\ n \in Nat
      BY <2>3, WholePages
    <3> QED
      BY <1>0, <2>1, <3>1
  <2> QED
    BY <2>2, <2>3, NromPrg DEF n
<1>4. WramRepeats(NromCpu)
  <2> SUFFICES ASSUME wram_size # 0, wram_size % PageSize = 0, B % wram_size = 0
               PROVE  \A p \in (3 * K)..(4 * K - 1) :
                        NromCpu.write[p] = Data("wram", ((p - 3 * K) * PageSize) % wram_size)
    BY DEF WramRepeats
  <2>1. PICK s \in Nat \ {0} : wram_size = s * PageSize /\ times * s = K
    BY NromWram
  <2>2. times \in Nat
    BY HeaderSizes, Sizes, QuotientTimes
  <2> HIDE DEF times
  <2>3. \A p \in (3 * K)..(4 * K - 1) :
          Mirrored(CommonMap.write, wram, 3 * B, wram_size, 0, times)[p] =
            Data("wram", ((p - 3 * K) * PageSize) % wram_size)
    BY <1>0, <2>1, <2>2, WramOfMirrors DEF WorkPages
  <2>4. work.write = Mirrored(CommonMap.write, wram, 3 * B, wram_size, 0, times)
    <3>1. work = memory_map_mirroring(CommonMap, wram, 3 * B, wram_size, 0, times)
      BY Zenon
    <3> HIDE DEF work
    <3> QED
      BY <3>1, Memories DEF memory_map_mirroring
  <2> QED
    BY <1>2, <2>3, <2>4
<1> QED
  BY <1>3, <1>4

-----------------------------------------------------------------------------
(* The nametables of an NROM                                               *)
LEMMA TwoNames ==
  ASSUME NEW q \in {0, 2}, NEW o \in 0..3, NEW i \in NamePages
  PROVE  /\ NamePage(o, i) \in Mirrors(K + q * k8, k8, 2) <=> o \in {q, q + 1}
         /\ o \in {q, q + 1} => (NamePage(o, i) - (K + q * k8)) % k8 = i
<1>1. k8 \in Nat \ {0} /\ K \in Nat /\ i \in 0..(k8 - 1)
  BY WholePages DEF NamePages
<1>2. o = 0 \/ o = 1 \/ o = 2 \/ o = 3
  OBVIOUS
<1>3. NamePage(o, i) \in Mirrors(K + q * k8, k8, 2) <=> o \in {q, q + 1}
  BY <1>1, <1>2 DEF NamePage, Mirrors
<1>4. ASSUME NEW x, x = 0 * k8 + i \/ x = 1 * k8 + i PROVE x % k8 = i
  <2>1. i \in Nat /\ i < k8 /\ x \in Nat /\ k8 \in Nat \ {0}
    BY <1>1, <1>4
  <2>2. CASE x = 0 * k8 + i
    <3>1. 0 * k8 <= x /\ x < 0 * k8 + k8 /\ x - 0 * k8 = i
      BY <2>1, <2>2
    <3>2. x % k8 = x - 0 * k8
      BY <2>1, <3>1, QuotientIs
    <3> QED
      BY <3>1, <3>2
  <2>3. CASE x = 1 * k8 + i
    <3>1. 1 * k8 <= x /\ x < 1 * k8 + k8 /\ x - 1 * k8 = i
      BY <2>1, <2>3
    <3>2. x % k8 = x - 1 * k8
      BY <2>1, <3>1, QuotientIs
    <3> QED
      BY <3>1, <3>2
  <2> QED
    BY <1>4, <2>2, <2>3
<1>5. ASSUME o \in {q, q + 1} PROVE (NamePage(o, i) - (K + q * k8)) % k8 = i
  <2> DEFINE x == NamePage(o, i) - (K + q * k8)
  <2>1. x = 0 * k8 + i \/ x = 1 * k8 + i
    BY <1>1, <1>2, <1>5 DEF NamePage
  <2> HIDE DEF x
  <2>2. x % k8 = i
    BY <1>4, <2>1
  <2> QED
    BY <2>2 DEF x
<1> QED
  BY <1>3, <1>5

LEMMA NameMirrored ==
  ASSUME NEW bus, DOMAIN bus.read = Pages, NEW q \in {0, 2}, NEW start
  PROVE  LET new == memory_map_mirroring(bus, vram, B + q * nt, nt, start, 2)
         IN  /\ DOMAIN new.read = Pages
             /\ \A o \in 0..3, i \in NamePages :
                  new.read[NamePage(o, i)] =
                    IF o \in {q, q + 1} THEN Data("vram", start + i * PageSize)
                    ELSE bus.read[NamePage(o, i)]
<1> DEFINE a == K + q * k8
           e == bus.read
           new == Mirrored(e, vram, Bytes(a), Bytes(k8), start, 2)
<1>1. a \in Nat /\ k8 \in Nat \ {0} /\ 2 \in Nat
  BY PagesOfNames, WholePages
<1>2. B + q * nt = Bytes(a) /\ nt = Bytes(k8)
  BY PagesOfNames, WholePages DEF Bytes
<1>3. memory_map_mirroring(bus, vram, B + q * nt, nt, start, 2).read = new
  BY <1>2 DEF memory_map_mirroring
<1>4. DOMAIN new = Pages
  BY DEF Mirrored
<1>5. ASSUME NEW o \in 0..3, NEW i \in NamePages
      PROVE  new[NamePage(o, i)] = IF o \in {q, q + 1} THEN Data("vram", start + i * PageSize)
                                   ELSE bus.read[NamePage(o, i)]
  <2> DEFINE p == NamePage(o, i)
  <2>1. p \in Nat /\ p \in DOMAIN e
    BY PagesOfNames
  <2>2. p \in Mirrors(a, k8, 2) <=> o \in {q, q + 1}
    BY TwoNames
  <2>3. o \in {q, q + 1} => (p - a) % k8 = i
    BY TwoNames
  <2> HIDE DEF a, e, p
  <2>4. ASSUME o \in {q, q + 1} PROVE new[p] = Data("vram", start + i * PageSize)
    <3>1. new[p] = Data(vram.name, start + Bytes((p - a) % k8))
      BY <1>1, <2>1, <2>2, <2>4, PlaceOfMirror
    <3> QED
      BY <2>3, <2>4, <3>1, Memories DEF Bytes
  <2>5. ASSUME o \notin {q, q + 1} PROVE new[p] = e[p]
    BY <1>1, <2>1, <2>2, <2>5, PageBesideMirror
  <2>6. new[p] = IF o \in {q, q + 1} THEN Data("vram", start + i * PageSize) ELSE e[p]
    BY <2>4, <2>5
  <2> QED
    BY <2>6 DEF p, e
<1> QED
  BY <1>3, <1>4, <1>5

NromNames == IF header.mirroring = 0 THEN <<0, 0, 1, 1>> ELSE <<0, 1, 0, 1>>

LEMMA NromPpuShows == NamesShown(NromPpu, NromNames)
<1> DEFINE pattern == memory_map(EmptyBus(8 * K), chrom, 0, chrom_size, 0)
           Nt(bus, q, start) == memory_map(bus, vram, B + q * nt, nt, start)
           Two(bus, q, start) == memory_map_mirroring(bus, vram, B + q * nt, nt, start, 2)
<1>1. DOMAIN pattern.read = Pages
  BY DEF memory_map, Shown, EmptyBus, Pages
<1>2. NromPpu = IF header.mirroring = 0 THEN Two(Two(pattern, 0, 0), 2, nt)
                ELSE Nt(Nt(Nt(Nt(pattern, 0, 0), 1, nt), 2, 0), 3, nt)
  <2>1. B + 0 * nt = B
    BY Parts
  <2> QED
    BY <2>1 DEF NromPpu, nt
<1>3. \A o \in 0..3 : o = 0 \/ o = 1 \/ o = 2 \/ o = 3
  OBVIOUS
<1>4. /\ 0 * nt = 0 /\ 1 * nt = nt
      /\ \A i \in NamePages : 0 + i * PageSize \in Nat
  BY Parts, WholePages DEF NamePages
<1> HIDE DEF pattern
<1>5. NamesShown(Two(Two(pattern, 0, 0), 2, nt), <<0, 0, 1, 1>>)
  <2> DEFINE one == Two(pattern, 0, 0)
             two == Two(one, 2, nt)
  <2>1. /\ DOMAIN one.read = Pages
        /\ \A o \in 0..3, i \in NamePages :
             one.read[NamePage(o, i)] =
               IF o \in {0, 0 + 1} THEN Data("vram", 0 + i * PageSize)
               ELSE pattern.read[NamePage(o, i)]
    BY <1>1, NameMirrored
  <2> HIDE DEF one
  <2>2. \A o \in 0..3, i \in NamePages :
          two.read[NamePage(o, i)] =
            IF o \in {2, 2 + 1} THEN Data("vram", nt + i * PageSize)
            ELSE one.read[NamePage(o, i)]
    BY <2>1, NameMirrored
  <2> HIDE DEF two
  <2>3. NamesShown(two, <<0, 0, 1, 1>>)
    BY <1>3, <1>4, <2>1, <2>2 DEF NamesShown
  <2> QED
    BY <2>3 DEF two, one
<1>6. NamesShown(Nt(Nt(Nt(Nt(pattern, 0, 0), 1, nt), 2, 0), 3, nt), <<0, 1, 0, 1>>)
  <2> DEFINE one == Nt(pattern, 0, 0)
             two == Nt(one, 1, nt)
             three == Nt(two, 2, 0)
             four == Nt(three, 3, nt)
  <2>0. 0 \in 0..3 /\ 1 \in 0..3 /\ 2 \in 0..3 /\ 3 \in 0..3
    OBVIOUS
  <2>1. /\ DOMAIN one.read = Pages
        /\ \A o \in 0..3, i \in NamePages :
             one.read[NamePage(o, i)] = IF o = 0 THEN Data("vram", 0 + i * PageSize)
                                        ELSE pattern.read[NamePage(o, i)]
    BY <1>1, <2>0, NameMapped
  <2> HIDE DEF one
  <2>2. /\ DOMAIN two.read = Pages
        /\ \A o \in 0..3, i \in NamePages :
             two.read[NamePage(o, i)] = IF o = 1 THEN Data("vram", nt + i * PageSize)
                                        ELSE one.read[NamePage(o, i)]
    BY <2>0, <2>1, NameMapped
  <2> HIDE DEF two
  <2>3. /\ DOMAIN three.read = Pages
        /\ \A o \in 0..3, i \in NamePages :
             three.read[NamePage(o, i)] = IF o = 2 THEN Data("vram", 0 + i * PageSize)
                                          ELSE two.read[NamePage(o, i)]
    BY <2>0, <2>2, NameMapped
  <2> HIDE DEF three
  <2>4. \A o \in 0..3, i \in NamePages :
          four.read[NamePage(o, i)] = IF o = 3 THEN Data("vram", nt + i * PageSize)
                                      ELSE three.read[NamePage(o, i)]
    BY <2>0, <2>3, NameMapped
  <2> HIDE DEF four
  <2>5. NamesShown(four, <<0, 1, 0, 1>>)
    BY <1>3, <1>4, <2>1, <2>2, <2>3, <2>4 DEF NamesShown
  <2> QED
    BY <2>5 DEF four, three, two, one
<1> QED
  BY <1>2, <1>5, <1>6 DEF NromNames

-----------------------------------------------------------------------------
(* The registers an SxROM's handlers are at, and what is kept of the pages *)
RegsReached(bus) ==
  \A p \in Upper : bus.write[p] = Handler("cart", (p - 4 * K) * PageSize)

LEMMA SxromRegsReached == DOMAIN SxromCpu.write = Pages /\ RegsReached(SxromCpu)
<1>1. \A p \in Upper : p \in DOMAIN CommonMap.write /\ p \in RegisterPages
  <2>1. DOMAIN CommonMap.write = Pages
    BY CommonGood DEF CpuGood, Good
  <2>2. \A p \in Upper : p \in Pages /\ p \in RegisterPages
    BY Sizes DEF Upper, Pages, RegisterPages
  <2> QED
    BY <2>1, <2>2
<1>2. SxromCpu.write = Handled(CommonMap.write, "cart", [p \in RegisterPages |-> (p - 4 * K) * PageSize])
  BY CommonGood DEF SxromCpu, CommonMap
<1>3. DOMAIN SxromCpu.write = Pages
  BY <1>2, CommonGood DEF Handled, CpuGood, Good
<1> QED
  BY <1>1, <1>2, <1>3 DEF RegsReached, Handled

LEMMA RegisterOfPage ==
  ASSUME NEW p \in Upper
  PROVE  RegisterOf(Handler("cart", (p - 4 * K) * PageSize)) = (p - 4 * K) \div K
<1> DEFINE n == p - 4 * K
<1>1. n \in Nat /\ K \in Nat \ {0} /\ PageSize \in Nat \ {0}
  BY Sizes DEF Upper
<1> HIDE DEF n
<1>2. n * PageSize \in Nat /\ 0 % PageSize = 0
  BY <1>1
<1>3. RegisterOf(Handler("cart", n * PageSize)) = (n * PageSize) \div (K * PageSize)
  <2>1. RegisterOf(Handler("cart", n * PageSize)) = (n * PageSize + (0 % PageSize)) \div (K * PageSize)
    BY DEF RegisterOf, Landing, Handler, B
  <2> QED
    BY <1>2, <2>1
<1>4. (n * PageSize) \div (K * PageSize) = n \div K
  BY <1>1, QuotientScales
<1> QED
  BY <1>3, <1>4 DEF n

IsNrom  == phase \in {"loaded", "running"} /\ mapper = 0
IsSxrom == phase \in {"loaded", "running"} /\ mapper = 1

(* An NROM's maps stay as its setup made them; an SxROM's pages show, from *)
(* the reset on, what its mapper's registers ask for.                      *)
CInv ==
  /\ MInv
  /\ IsNrom => cpu = NromCpu /\ ppu = NromPpu
  /\ IsSxrom => RegsReached(cpu)
  /\ IsSxrom /\ phase = "running" =>
       PrgShown(cpu, map) /\ NamesShown(ppu, map.nt) /\ PatternsShown(ppu, map)

LEMMA SameCartridge ==
  ASSUME header' = header
  PROVE  /\ mapper' = mapper /\ NromCpu' = NromCpu /\ NromPpu' = NromPpu
         /\ (RegsReached(cpu))' <=> RegsReached(cpu')
         /\ (PrgShown(cpu, map))' <=> PrgShown(cpu', map')
         /\ (NamesShown(ppu, map.nt))' <=> NamesShown(ppu', map'.nt)
         /\ (PatternsShown(ppu, map))' <=> PatternsShown(ppu', map')
<1>1. mapper' = mapper
  BY DEF mapper, ines2
<1>2. NromCpu' = NromCpu
  BY DEF NromCpu, CommonMap, ram, wram, prgrom, Ram, Rom, wram_size, prgrom_size, chrom_size,
         decode_ram_size, ines2
<1>3. NromPpu' = NromPpu
  BY DEF NromPpu, vram, chrom, Ram, Rom, chrom_size, ines2
<1> QED
  BY <1>1, <1>2, <1>3 DEF RegsReached, PrgShown, NamesShown, PatternsShown

(* The pages after the mapper's step                                       *)
LEMMA RemapShows ==
  ASSUME MInv, Inv', header' = header, Accepted, mapper = 1, cart' = CartOfHeader,
         RegsReached(cpu)
  PROVE  LET c == RemapCpu(cpu, reg', map')
             q == RemapPpu(ppu, reg', map')
         IN  RegsReached(c) /\ PrgShown(c, map') /\ NamesShown(q, map'.nt) /\ PatternsShown(q, map')
<1>1. /\ map'.prg[1] \in Nat /\ map'.prg[2] \in Nat /\ map'.chr[1] \in Nat /\ map'.chr[2] \in Nat
      /\ ~Switching16(reg') => map'.prg[2] = map'.prg[1] + 1
      /\ ~Switching4(reg') => map'.chr[2] = map'.chr[1] + 1
  <2>1. CartOK(cart') /\ RegsOK(reg') /\ map' = remap(cart', reg')
    BY CartFacts DEF Inv, TypeOK, MapInv, RegsOK
  <2>2. /\ map'.prg[1] \in 0..(cart'.prg - 1) /\ map'.prg[2] \in 0..(cart'.prg - 1)
        /\ map'.chr[1] \in 0..(cart'.chr - 1) /\ map'.chr[2] \in 0..(cart'.chr - 1)
        /\ ~Switching16(reg') => map'.prg[2] = map'.prg[1] + 1
        /\ ~Switching4(reg') => map'.chr[2] = map'.chr[1] + 1
    BY <2>1, RemapInBounds, Zenon
  <2>3. \A n, x : x \in 0..(n - 1) => x \in Nat
    OBVIOUS
  <2> QED
    BY <2>2, <2>3, Zenon
<1>2. DOMAIN cpu.read = Pages /\ DOMAIN cpu.write = Pages /\ DOMAIN ppu.read = Pages
  BY DEF MInv, CpuGood, PpuGood, Good
<1>3. /\ PrgShown(RemapCpu(cpu, reg', map'), map')
      /\ \A p \in Upper : RemapCpu(cpu, reg', map').write[p] = cpu.write[p]
  BY <1>1, <1>2, RemapCpuShows
<1>4. /\ NamesShown(RemapPpu(ppu, reg', map'), map'.nt)
      /\ PatternsShown(RemapPpu(ppu, reg', map'), map')
  BY <1>1, <1>2, RemapPpuShows
<1> QED
  BY <1>3, <1>4 DEF RegsReached

LEMMA CInvInit == MapInit => CInv
BY MInvInit DEF MapInit, CInv, IsNrom, IsSxrom

LEMMA CInvStep == CInv /\ [MapNext]_bvars => CInv'
<1> SUFFICES ASSUME CInv, [MapNext]_bvars PROVE CInv'
  OBVIOUS
<1>1. MInv /\ MInv' /\ Inv'
  BY MInvStep DEF CInv, MInv
<1>2. header' = header /\ cart' = cart
  <2>1. CASE Load \/ PowerOn \/ UNCHANGED bvars
    BY <2>1 DEF Load, PowerOn, bvars, vars
  <2>2. CASE Execute
    BY <2>2 DEF Execute, Instruction
  <2>3. ASSUME NEW p \in WritePages, Write(p) PROVE header' = header /\ cart' = cart
    BY <2>3 DEF Write, WriteBit, WriteReset
  <2> QED
    BY <2>1, <2>2, <2>3 DEF MapNext
<1> DEFINE Kept == /\ IsNrom' => cpu' = NromCpu /\ ppu' = NromPpu
                   /\ IsSxrom' => RegsReached(cpu')
                   /\ IsSxrom' /\ phase' = "running" =>
                        /\ PrgShown(cpu', map') /\ NamesShown(ppu', map'.nt)
                        /\ PatternsShown(ppu', map')
<1>3. mapper' = mapper
  BY <1>2, SameCartridge
<1>4. ASSUME Load PROVE Kept
  <2>1. CASE phase' = "loaded"
    <3>1. Accepted
      BY <1>4, <2>1 DEF Load
    <3>0. mapper \in {0, 1} => header # Hawknest /\ ~header.unsupported
      BY <3>1 DEF Accepted, mapper
    <3>2. CASE mapper = 0
      <4>1. cpu' = NromCpu /\ ppu' = NromPpu
        BY <1>4, <3>0, <3>1, <3>2 DEF Load
      <4> QED
        BY <1>3, <3>2, <4>1 DEF IsNrom, IsSxrom
    <3>3. CASE mapper = 1
      <4>1. cpu' = SxromCpu
        BY <1>4, <3>0, <3>1, <3>3 DEF Load
      <4> QED
        BY <1>3, <2>1, <3>3, <4>1, SxromRegsReached DEF IsNrom, IsSxrom
    <3>4. CASE mapper \notin {0, 1}
      BY <1>3, <3>4 DEF IsNrom, IsSxrom
    <3> QED
      BY <3>2, <3>3, <3>4
  <2>2. CASE phase' = "refused"
    BY <2>2 DEF IsNrom, IsSxrom
  <2> QED
    BY <1>4, <2>1, <2>2 DEF Load
<1>5. ASSUME PowerOn PROVE Kept
  <2>1. phase = "loaded" /\ phase' = "running" /\ reg' = reg /\ map' = map
    BY <1>5 DEF PowerOn, vars
  <2>2. CASE mapper = 1
    <3>1. Accepted /\ cart' = CartOfHeader /\ RegsReached(cpu)
      BY <1>1, <1>2, <2>1, <2>2 DEF MInv, CInv, IsSxrom
    <3>2. cpu' = RemapCpu(cpu, reg', map') /\ ppu' = RemapPpu(ppu, reg', map')
      BY <1>5, <2>1, <2>2 DEF PowerOn
    <3>3. RegsReached(cpu') /\ PrgShown(cpu', map') /\ NamesShown(ppu', map'.nt) /\ PatternsShown(ppu', map')
      BY <1>1, <1>2, <2>2, <3>1, <3>2, RemapShows
    <3> QED
      BY <1>3, <2>2, <3>3 DEF IsNrom, IsSxrom
  <2>3. CASE mapper # 1
    <3>1. cpu' = cpu /\ ppu' = ppu
      BY <1>5, <2>3 DEF PowerOn
    <3> QED
      BY <1>3, <2>1, <2>3, <3>1 DEF CInv, IsNrom, IsSxrom
  <2> QED
    BY <2>2, <2>3
<1>6. ASSUME Execute \/ UNCHANGED bvars PROVE Kept
  <2>1. cpu' = cpu /\ ppu' = ppu /\ phase' = phase /\ map' = map
    BY <1>6 DEF Execute, Instruction, bvars, vars
  <2> QED
    BY <1>3, <2>1 DEF CInv, IsNrom, IsSxrom
<1>7. ASSUME NEW p \in WritePages, Write(p) PROVE Kept
  <2>1. phase = "running" /\ phase' = phase /\ cpu.write[p].kind = "handler"
    BY <1>7 DEF Write
  <2>2. mapper = 1
    <3>1. p \in Pages /\ 4 * K <= p
      BY WritePagesAssumption, Sizes DEF Pages
    <3> QED
      BY <1>1, <2>1, <3>1 DEF MInv, CpuGood, Good, PagesOK
  <2>3. Accepted /\ cart' = CartOfHeader /\ RegsReached(cpu)
    BY <1>1, <1>2, <2>1, <2>2 DEF MInv, CInv, IsSxrom
  <2>4. cpu' = RemapCpu(cpu, reg', map') /\ ppu' = RemapPpu(ppu, reg', map')
    BY <1>7 DEF Write
  <2>5. RegsReached(cpu') /\ PrgShown(cpu', map') /\ NamesShown(ppu', map'.nt) /\ PatternsShown(ppu', map')
    BY <1>1, <1>2, <2>2, <2>3, <2>4, RemapShows
  <2> QED
    BY <1>3, <2>2, <2>5 DEF IsNrom, IsSxrom
<1>8. Kept
  BY <1>4, <1>5, <1>6, <1>7 DEF MapNext
<1> HIDE DEF Kept
<1> QED
  <2>1. /\ IsNrom' => cpu' = NromCpu' /\ ppu' = NromPpu'
        /\ IsSxrom' => (RegsReached(cpu))'
        /\ IsSxrom' /\ phase' = "running" =>
             (PrgShown(cpu, map))' /\ (NamesShown(ppu, map.nt))' /\ (PatternsShown(ppu, map))'
    BY <1>2, <1>8, SameCartridge, Zenon DEF Kept
  <2> QED
    BY <1>1, <2>1, Zenon DEF CInv

LEMMA CInvHolds == MapSpec => []CInv
BY CInvInit, CInvStep, PTL DEF MapSpec

-----------------------------------------------------------------------------
(* The nametable and the page in it, of a page                             *)
LEMMA PageOfName ==
  ASSUME NEW p \in K..((3 * K) \div 2 - 1)
  PROVE  /\ (p - K) \div (K \div 8) \in 0..3 /\ p % (K \div 8) \in NamePages
         /\ NamePage((p - K) \div (K \div 8), p % (K \div 8)) = p
<1> DEFINE x == p - K
           q == x \div k8
<1>1. /\ K = 8 * k8 /\ K \in Nat /\ k8 \in Nat \ {0} /\ (3 * K) \div 2 = 12 * k8
      /\ p \in Nat /\ x \in Nat /\ x < 4 * k8
  BY WholePages
<1>2. q \in Nat /\ q * k8 <= x /\ x < q * k8 + k8
  <2> HIDE DEF x
  <2> QED
    BY <1>1, QuotientTimes
<1> HIDE DEF q
<1>3. q * k8 \in Nat /\ (8 + q) * k8 = K + q * k8 /\ 8 + q \in Nat
  BY <1>1, <1>2
<1>4. q \in 0..3
  <2>1. ASSUME 4 <= q PROVE FALSE
    <3>1. 4 * k8 <= q * k8
      BY <1>1, <1>2, <2>1, TimesMonotone
    <3> QED
      BY <1>1, <1>2, <1>3, <3>1
  <2> QED
    BY <1>2, <2>1
<1>5. p % k8 = p - (8 + q) * k8
  <2>1. (8 + q) * k8 <= p /\ p < (8 + q) * k8 + k8
    BY <1>1, <1>2, <1>3
  <2> QED
    BY <1>1, <1>3, <2>1, QuotientIs
<1>6. p % k8 \in NamePages /\ NamePage(q, p % k8) = p
  BY <1>1, <1>2, <1>3, <1>5 DEF NamePages, NamePage
<1> QED
  BY <1>4, <1>6 DEF q, k8

LEMMA SxromPages ==
  ASSUME RegsReached(cpu), PrgShown(cpu, map), NamesShown(ppu, map.nt), PatternsShown(ppu, map)
  PROVE  SxromMapped
<1>1. ASSUME NEW p \in (4 * K)..(8 * K - 1)
      PROVE  LET n == p - 4 * K
             IN  /\ cpu.read[p] = Data("prgrom", map.prg[n \div (2 * K) + 1] * 2 * B
                                                   + (n % (2 * K)) * PageSize)
                 /\ cpu.write[p].obj = "cart" /\ RegisterOf(cpu.write[p]) = n \div K
  <2>1. p \in Upper
    BY DEF Upper
  <2>2. cpu.write[p] = Handler("cart", (p - 4 * K) * PageSize)
    BY <2>1, Zenon DEF RegsReached
  <2>3. cpu.write[p].obj = "cart"
    BY <2>2 DEF Handler
  <2>4. RegisterOf(cpu.write[p]) = (p - 4 * K) \div K
    <3>1. RegisterOf(Handler("cart", (p - 4 * K) * PageSize)) = (p - 4 * K) \div K
      BY <2>1, RegisterOfPage, Zenon
    <3> QED
      BY <2>2, <3>1
  <2> QED
    BY <2>1, <2>3, <2>4, Zenon DEF PrgShown
<1>2. \A p \in 0..(K - 1) :
        ppu.read[p] = Data("chrom", map.chr[p \div (K \div 2) + 1] * (B \div 2)
                                      + (p % (K \div 2)) * PageSize)
  BY Zenon DEF PatternsShown, Patterns
<1>3. ASSUME NEW p \in K..((3 * K) \div 2 - 1)
      PROVE  ppu.read[p] = Data("vram", map.nt[(p - K) \div (K \div 8) + 1] * (B \div 8)
                                          + (p % (K \div 8)) * PageSize)
  <2> DEFINE q == (p - K) \div (K \div 8)
             i == p % (K \div 8)
  <2>1. q \in 0..3 /\ i \in NamePages /\ NamePage(q, i) = p
    BY PageOfName, Zenon
  <2> HIDE DEF q, i
  <2>2. ppu.read[NamePage(q, i)] = Data("vram", map.nt[q + 1] * (B \div 8) + i * PageSize)
    BY <2>1, Zenon DEF NamesShown, nt
  <2>3. ppu.read[p] = Data("vram", map.nt[q + 1] * (B \div 8) + i * PageSize)
    BY <2>1, <2>2, Zenon
  <2> QED
    BY <2>3 DEF q, i
<1> QED
  BY <1>1, <1>2, <1>3, Zenon DEF SxromMapped

(* What the running system's header says                                   *)
LEMMA RunningNrom ==
  ASSUME MInv, phase = "running", mapper = 0
  PROVE  header \in Fields /\ NromTakes
<1>1. Accepted /\ header \in Headers
  BY DEF MInv
<1>2. header \in Fields
  BY <1>1, MapperOfInes
<1>3. header # Hawknest
  BY DEF mapper
<1> QED
  BY <1>1, <1>2, <1>3 DEF Accepted

(* A program finds the cartridge its header describes: every page of the   *)
(* windows of an NROM and an SxROM shows what the mapper promises, after   *)
(* any history of mappings, for every page size and every header           *)
(* (nrom.c:32-44, sxrom.c:20-97 and 187-189).                            *)
THEOREM CartridgeAsDescribed == MapSpec => []CartridgeMapped
<1>1. CInv => CartridgeMapped
  <2> SUFFICES ASSUME CInv, phase = "running"
               PROVE  /\ mapper = 0 => NromMapped
                      /\ mapper = 1 => SxromMapped
    BY DEF CartridgeMapped
  <2>1. ASSUME mapper = 0 PROVE NromMapped
    <3>1. cpu = NromCpu /\ header \in Fields /\ NromTakes
      BY <2>1, RunningNrom DEF CInv, IsNrom
    <3>2. PrgRepeats(cpu) /\ WramRepeats(cpu)
      BY <3>1, NromCpuShows
    <3> QED
      BY <3>2, Zenon DEF PrgRepeats, WramRepeats, NromMapped, Upper
  <2>2. ASSUME mapper = 1 PROVE SxromMapped
    BY <2>2, SxromPages DEF CInv, IsSxrom
  <2> QED
    BY <2>1, <2>2
<1> QED
  BY <1>1, CInvHolds, PTL

-----------------------------------------------------------------------------
(* The geometry of nametables that show the f's                            *)
LEMMA SharedNames ==
  ASSUME NEW f, NamesShown(ppu, f), NEW a \in 0..3, NEW b \in 0..3
  PROVE  /\ f[a + 1] = f[b + 1] => Repeats(a, b)
         /\ f[a + 1] = 0 /\ f[b + 1] = 1 => Apart(a, b)
<1>1. \A q \in 0..3, i \in NamePages :
        ppu.read[K + q * (K \div 8) + i] = Data("vram", f[q + 1] * nt + i * PageSize)
  BY DEF NamesShown, NamePage, k8
<1>2. ASSUME f[a + 1] = f[b + 1] PROVE Repeats(a, b)
  BY <1>1, <1>2 DEF Repeats, NamePages, k8
<1>3. ASSUME f[a + 1] = 0, f[b + 1] = 1 PROVE Apart(a, b)
  <2> SUFFICES ASSUME NEW i \in NamePages, NEW j \in NamePages
               PROVE  ppu.read[K + a * (K \div 8) + i] # ppu.read[K + b * (K \div 8) + j]
    BY DEF Apart, NamePages, k8
  <2>1. /\ ppu.read[K + a * (K \div 8) + i] = Data("vram", 0 * nt + i * PageSize)
        /\ ppu.read[K + b * (K \div 8) + j] = Data("vram", 1 * nt + j * PageSize)
    BY <1>1, <1>3
  <2>2. 0 * nt + i * PageSize # 1 * nt + j * PageSize
    <3> DEFINE x == i * PageSize
               y == j * PageSize
    <3>1. i \in Nat /\ j \in Nat /\ i + 1 <= k8 /\ k8 \in Nat /\ PageSize \in Nat \ {0}
          /\ nt = k8 * PageSize
      BY WholePages DEF NamePages
    <3>2. (i + 1) * PageSize <= k8 * PageSize /\ (i + 1) * PageSize = i * PageSize + PageSize
      BY <3>1, TimesMonotone
    <3>3. x \in Nat /\ y \in Nat /\ nt \in Nat
      BY <3>1
    <3>6. x < nt
      BY <3>1, <3>2, <3>3
    <3>4. 0 * nt = 0 /\ 1 * nt = nt
      BY <3>3
    <3> HIDE DEF x, y
    <3>5. 0 * nt + x # 1 * nt + y
      BY <3>3, <3>4, <3>6
    <3> QED
      BY <3>5 DEF x, y
  <2>3. \A x : Data("vram", x).at = x
    BY DEF Data
  <2> QED
    BY <2>1, <2>2, <2>3
<1> QED
  BY <1>2, <1>3

(* The four nametables repeat and differ as the mirroring says, an NROM's  *)
(* from its file and an SxROM's from its register, on every page           *)
(* (nrom.c:48-89, mmc1.c:29-56).                                          *)
THEOREM NametablesAsDescribed == MapSpec => []NametableGeometry
<1> DEFINE Shape ==
      CASE Mirroring = "vertical" -> Repeats(0, 2) /\ Repeats(1, 3) /\ Apart(0, 1)
        [] Mirroring = "horizontal" -> Repeats(0, 1) /\ Repeats(2, 3) /\ Apart(0, 2)
        [] Mirroring = "single" -> Repeats(0, 1) /\ Repeats(0, 2) /\ Repeats(0, 3)
<1>1. ASSUME NamesShown(ppu, <<0, 1, 0, 1>>) PROVE Repeats(0, 2) /\ Repeats(1, 3) /\ Apart(0, 1)
  BY <1>1, SharedNames
<1>2. ASSUME NamesShown(ppu, <<0, 0, 1, 1>>) PROVE Repeats(0, 1) /\ Repeats(2, 3) /\ Apart(0, 2)
  BY <1>2, SharedNames
<1>3. ASSUME NEW x, NamesShown(ppu, <<x, x, x, x>>)
      PROVE  Repeats(0, 1) /\ Repeats(0, 2) /\ Repeats(0, 3)
  BY <1>3, SharedNames
<1>4. CInv /\ phase = "running" /\ mapper = 0 => Shape
  <2> SUFFICES ASSUME CInv, phase = "running", mapper = 0 PROVE Shape
    OBVIOUS
  <2>1. NamesShown(ppu, NromNames) /\ header \in Fields
    BY NromPpuShows, RunningNrom DEF CInv, IsNrom
  <2>2. Mirroring = IF header.mirroring = 1 THEN "vertical" ELSE "horizontal"
    BY DEF Mirroring
  <2>3. header.mirroring \in {0, 1}
    BY <2>1 DEF Fields
  <2>4. CASE header.mirroring = 0
    BY <1>2, <2>1, <2>2, <2>4 DEF NromNames
  <2>5. CASE header.mirroring = 1
    BY <1>1, <2>1, <2>2, <2>5 DEF NromNames
  <2> QED
    BY <2>3, <2>4, <2>5
<1>5. CInv /\ phase = "running" /\ mapper = 1 => Shape
  <2> SUFFICES ASSUME CInv, phase = "running", mapper = 1 PROVE Shape
    OBVIOUS
  <2>1. NamesShown(ppu, Nametables(reg))
    BY DEF CInv, IsSxrom, MInv, Inv, MapInv, remap
  <2>2. Mirroring = <<"single", "single", "vertical", "horizontal">>[mirroring(reg) + 1]
    BY DEF Mirroring
  <2>3. mirroring(reg) \in 0..3
    <3>1. reg[0] \in 0..31
      BY RegFacts DEF CInv, MInv, Inv, TypeOK, RegsOK, Regs
    <3> QED
      BY <3>1 DEF mirroring
  <2>4. CASE mirroring(reg) = 0
    BY <1>3, <2>1, <2>2, <2>4 DEF Nametables
  <2>5. CASE mirroring(reg) = 1
    BY <1>3, <2>1, <2>2, <2>5 DEF Nametables
  <2>6. CASE mirroring(reg) = 2
    BY <1>1, <2>1, <2>2, <2>6 DEF Nametables
  <2>7. CASE mirroring(reg) = 3
    BY <1>2, <2>1, <2>2, <2>7 DEF Nametables
  <2>8. mirroring(reg) = 0 \/ mirroring(reg) = 1 \/ mirroring(reg) = 2 \/ mirroring(reg) = 3
    BY <2>3
  <2> HIDE DEF Shape
  <2> QED
    BY <2>4, <2>5, <2>6, <2>7, <2>8, Zenon
<1>6. ASSUME CInv, phase = "running", header # Hawknest PROVE mapper \in {0, 1}
  <2>1. Accepted
    BY <1>6 DEF CInv, MInv
  <2> QED
    BY <1>6, <2>1, Zenon DEF Accepted
<1>7. CInv => NametableGeometry
  BY <1>4, <1>5, <1>6, Zenon DEF NametableGeometry
<1> QED
  BY <1>7, CInvHolds, PTL
=============================================================================
