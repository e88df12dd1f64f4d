---------------------------- MODULE IoRegProofs ----------------------------
(***************************************************************************)
(* Proofs about IoReg, for any number of buttons, size of the object       *)
(* memory, offsets of the ports and use of the keyboard.                   *)
(***************************************************************************)
EXTENDS IoReg, TLAPS

(* What a register that was empty at the last poll holds: the latched keys *)
(* that have not been read yet, the next one at its bottom.                *)
Remaining(p) ==
  [b \in Buttons |->
     IF Len(got[p]) + b < NButtons THEN latched[p][Len(got[p]) + b] ELSE FALSE]

ShiftInv == \A p \in clean : shift[p] = Remaining(p)

(* How the copy got where it is.                                           *)
Dummies == IF startOdd THEN 1 ELSE 2
DmaInv ==
  /\ dma = "align" => elapsed = 1 /\ (odd <=> ~startOdd) /\ i = 0
  /\ dma = "get" => ~odd /\ elapsed = 2 * i + Dummies
  /\ dma = "put" => odd /\ elapsed = 2 * i + Dummies + 1

-----------------------------------------------------------------------------
LEMMA ShiftedType ==
  ASSUME NEW s \in [Buttons -> BOOLEAN]
  PROVE  Shifted(s) \in [Buttons -> BOOLEAN]
<1>1. ASSUME NEW b \in Buttons, b # NButtons - 1 PROVE s[b + 1] \in BOOLEAN
  <2>1. b + 1 \in Buttons
    BY <1>1, ButtonsAssumption DEF Buttons
  <2> QED
    BY <2>1
<1>2. \A b \in Buttons : (IF b = NButtons - 1 THEN FALSE ELSE s[b + 1]) \in BOOLEAN
  BY <1>1, Zenon
<1> QED
  BY <1>2, Zenon DEF Shifted

LEMMA CellsFacts ==
  /\ 0 \in Cells
  /\ \A a \in Cells : (a + 1) % OamSize \in Cells
  /\ \A k \in Cells : k + 1 # OamSize => k + 1 \in Cells
BY OamAssumption DEF Cells

LEMMA ByteFacts ==
  /\ Zero \in Byte
  /\ \A b \in Byte, x \in BOOLEAN : [hi |-> b.hi, lo |-> Low(x)] \in Byte
BY BytesAssumption DEF Low

LEMMA HeldFacts ==
  /\ KeyStates \subseteq Held
  /\ Released \in [Buttons -> BOOLEAN]
  /\ \A p \in Pads : p \in Buttons
BY KeysAssumption, ButtonsAssumption DEF Released, Buttons, Pads, Held

(* The parts of the type invariant                                         *)
PadsType ==
  /\ keys \in KeyStates
  /\ strobe \in BOOLEAN /\ shift \in Held
  /\ latched \in Held /\ clean \in SUBSET Pads
  /\ got \in [Pads -> Seq(BOOLEAN)]
BusType == lanes \in Byte /\ oam \in [Cells -> Byte] /\ oam_addr \in Cells
CopyType ==
  /\ odd \in BOOLEAN
  /\ dma \in {"off", "align", "get", "put"} /\ page \in {"ram", "io"}
  /\ i \in Cells
  /\ elapsed \in Nat /\ startOdd \in BOOLEAN /\ startAddr \in Cells

LEMMA TypeParts == TypeOK <=> PadsType /\ BusType /\ CopyType
BY DEF TypeOK, PadsType, BusType, CopyType

-----------------------------------------------------------------------------
(* The helpers of the actions keep the types they touch.                   *)
LEMMA SetStrobeType ==
  ASSUME PadsType, NEW val \in BOOLEAN, SetStrobe(val), keys' = keys
  PROVE  PadsType'
<1>1. keys \in Held
  BY HeldFacts DEF PadsType
<1>2. CASE strobe /\ ~val
  <2>1. \A p \in Pads : [b \in Buttons |-> shift[p][b] \/ keys[p][b]] \in [Buttons -> BOOLEAN]
    BY Zenon
  <2>2. shift' \in Held
    BY <1>2, <2>1 DEF SetStrobe, Held
  <2>3. <<>> \in Seq(BOOLEAN)
    OBVIOUS
  <2>4. got' \in [Pads -> Seq(BOOLEAN)]
    BY <1>2, <2>3 DEF SetStrobe
  <2>5. latched' \in Held /\ clean' \in SUBSET Pads /\ strobe' \in BOOLEAN
    BY <1>1, <1>2 DEF SetStrobe
  <2> QED
    BY <2>2, <2>4, <2>5 DEF PadsType
<1>3. CASE ~(strobe /\ ~val)
  BY <1>3 DEF SetStrobe, PadsType
<1> QED
  BY <1>2, <1>3

LEMMA ReadPortType ==
  ASSUME PadsType, BusType, NEW p \in Pads, ReadPort(p), keys' = keys
  PROVE  PadsType' /\ lanes' \in Byte
<1>1. PortBit(p) \in BOOLEAN
  <2>1. 0 \in Pads /\ 0 \in Buttons /\ p \in Buttons
    BY HeldFacts DEF Pads
  <2>2. keys \in Held /\ shift \in Held
    BY HeldFacts DEF PadsType
  <2>3. keys[0][p] \in BOOLEAN /\ shift[p][0] \in BOOLEAN
    BY <2>1, <2>2 DEF Held
  <2> QED
    BY <2>3, Zenon DEF PortBit
<1>2. lanes' \in Byte
  BY <1>1, ByteFacts DEF ReadPort, BusType
<1>3. CASE strobe
  BY <1>2, <1>3 DEF ReadPort, PadsType
<1>4. CASE ~strobe
  <2>1. shift[p] \in [Buttons -> BOOLEAN] /\ shift[p][0] \in BOOLEAN
    BY ButtonsAssumption DEF PadsType, Held, Buttons
  <2>2. shift' \in Held
    BY <1>4, <2>1, ShiftedType DEF ReadPort, PadsType, Held
  <2>3. Append(got[p], shift[p][0]) \in Seq(BOOLEAN)
    BY <2>1 DEF PadsType
  <2>4. got' \in [Pads -> Seq(BOOLEAN)]
    BY <1>4, <2>3 DEF ReadPort, PadsType
  <2> QED
    BY <1>2, <1>4, <2>2, <2>4 DEF ReadPort, PadsType
<1> QED
  BY <1>3, <1>4

LEMMA OamDataType ==
  ASSUME BusType, NEW b \in Byte, OamData(b)
  PROVE  BusType'
BY CellsFacts DEF BusType, OamData

LEMMA InitType == Init => TypeOK
<1> SUFFICES ASSUME Init PROVE TypeOK
  OBVIOUS
<1>1. PadsType
  <2>1. shift \in Held /\ latched \in Held
    BY HeldFacts DEF Init, Held
  <2>2. got \in [Pads -> Seq(BOOLEAN)]
    BY DEF Init
  <2> QED
    BY <2>1, <2>2 DEF Init, PadsType
<1>2. BusType
  BY CellsFacts, ByteFacts DEF Init, BusType
<1>3. CopyType
  BY CellsFacts DEF Init, CopyType
<1> QED
  BY <1>1, <1>2, <1>3, TypeParts

LEMMA NextType == TypeOK /\ [Next]_vars => TypeOK'
<1> SUFFICES ASSUME TypeOK, [Next]_vars PROVE PadsType' /\ BusType' /\ CopyType'
  BY TypeParts DEF TypeOK, PadsType, BusType, CopyType
<1>0. PadsType /\ BusType /\ CopyType
  BY TypeParts
<1>1. CASE Press
  <2>1. PadsType'
    BY <1>0, <1>1 DEF Press, PadsType, pads
  <2>2. BusType' /\ CopyType'
    BY <1>0, <1>1 DEF Press, BusType, CopyType, objs, copy
  <2> QED
    BY <2>1, <2>2
<1>2. CASE OtherInstruction
  BY <1>0, <1>2 DEF OtherInstruction, Instruction, PadsType, BusType, CopyType, pads, objs, copy
<1>3. ASSUME NEW b \in Byte, WriteStrobe(b) PROVE PadsType' /\ BusType' /\ CopyType'
  <2>1. PadsType'
    BY <1>0, <1>3, SetStrobeType DEF WriteStrobe, Instruction
  <2>2. BusType' /\ CopyType'
    BY <1>0, <1>3 DEF WriteStrobe, Instruction, BusType, CopyType, objs, copy
  <2> QED
    BY <2>1, <2>2
<1>4. ASSUME NEW p \in Pads, CpuRead(p) PROVE PadsType' /\ BusType' /\ CopyType'
  <2>1. PadsType' /\ lanes' \in Byte
    BY <1>0, <1>4, ReadPortType DEF CpuRead, Instruction
  <2>2. BusType' /\ CopyType'
    BY <1>0, <1>4, <2>1 DEF CpuRead, Instruction, BusType, CopyType, objs, copy
  <2> QED
    BY <2>1, <2>2
<1>5. ASSUME NEW a \in Cells, WriteOamAddr(a) PROVE PadsType' /\ BusType' /\ CopyType'
  BY <1>0, <1>5 DEF WriteOamAddr, Instruction, PadsType, BusType, CopyType, pads, copy
<1>6. ASSUME NEW b \in Byte, WriteOamData(b) PROVE PadsType' /\ BusType' /\ CopyType'
  <2>1. BusType'
    BY <1>0, <1>6, OamDataType DEF WriteOamData
  <2>2. PadsType' /\ CopyType'
    BY <1>0, <1>6 DEF WriteOamData, Instruction, PadsType, CopyType, pads, copy
  <2> QED
    BY <2>1, <2>2
<1>7. ASSUME NEW pg \in {"ram", "io"}, StartDma(pg) PROVE PadsType' /\ BusType' /\ CopyType'
  <2>1. PadsType' /\ BusType'
    BY <1>0, <1>7, BytesAssumption DEF StartDma, PadsType, BusType, pads, objs
  <2>2. CopyType'
    BY <1>0, <1>7, CellsFacts DEF StartDma, CopyType, BusType
  <2> QED
    BY <2>1, <2>2
<1>8. CASE Align
  <2>1. PadsType' /\ BusType'
    BY <1>0, <1>8 DEF Align, PadsType, BusType, pads, objs
  <2>2. CopyType'
    <3>1. elapsed' \in Nat
      <4>1. elapsed \in Nat /\ (elapsed' = elapsed \/ elapsed' = elapsed + 1)
        BY <1>0, <1>8, Zenon DEF Align, CopyType
      <4> QED
        BY <4>1
    <3>2. odd' \in BOOLEAN
      BY <1>0, <1>8, Zenon DEF Align, CopyType
    <3> QED
      BY <1>0, <1>8, <3>1, <3>2 DEF Align, CopyType
  <2> QED
    BY <2>1, <2>2
<1>9. CASE Get
  <2>1. CopyType'
    BY <1>0, <1>9 DEF Get, CopyType
  <2>2. oam' = oam /\ oam_addr' = oam_addr /\ keys' = keys
    BY <1>9 DEF Get, objs
  <2>3. CASE page = "ram"
    <3>1. lanes' \in Byte /\ UNCHANGED pads
      BY <1>0, <1>9, <2>3, BytesAssumption DEF Get, CopyType
    <3> QED
      BY <1>0, <2>1, <2>2, <3>1 DEF PadsType, BusType, pads
  <2>4. ASSUME NEW p \in Pads, ReadPort(p) PROVE PadsType' /\ BusType'
    <3>1. PadsType' /\ lanes' \in Byte
      BY <1>0, <2>2, <2>4, ReadPortType
    <3> QED
      BY <1>0, <2>2, <3>1 DEF BusType
  <2>5. CASE UNCHANGED <<pads, lanes>>
    <3>1. BusType'
      BY <1>0, <2>2, <2>5 DEF BusType
    <3>2. PadsType'
      BY <1>0, <2>2, <2>5 DEF PadsType, pads
    <3> QED
      BY <2>1, <3>1, <3>2
  <2>6. page = "ram" \/ (\E p \in Pads : ReadPort(p)) \/ UNCHANGED <<pads, lanes>>
    BY <1>9, Zenon DEF Get
  <2> QED
    BY <2>1, <2>3, <2>4, <2>5, <2>6, Zenon
<1>10. CASE Put
  <2>1. BusType'
    BY <1>0, <1>10, OamDataType DEF Put, BusType
  <2>2. PadsType'
    BY <1>0, <1>10 DEF Put, PadsType, pads
  <2>3. CopyType'
    <3>1. CASE LoopDone
      BY <1>0, <1>10, <3>1, CellsFacts DEF Put, LoopDone, CopyType
    <3>2. CASE i + 1 # OamSize /\ LoopOn(i + 1)
      <4>1. i' \in Cells
        BY <1>0, <3>2, CellsFacts DEF LoopOn, CopyType
      <4>2. elapsed' \in Nat
        <5>1. elapsed \in Nat /\ elapsed' = elapsed + 1
          BY <1>0, <3>2, Zenon DEF LoopOn, CopyType
        <5> QED
          BY <5>1
      <4>3. odd' \in BOOLEAN
        BY <1>10, Zenon DEF Put
      <4> QED
        BY <1>0, <3>2, <4>1, <4>2, <4>3, Zenon DEF LoopOn, CopyType
    <3> QED
      BY <1>10, <3>1, <3>2 DEF Put
  <2> QED
    BY <2>1, <2>2, <2>3
<1>11. CASE UNCHANGED vars
  BY <1>0, <1>11 DEF vars, PadsType, BusType, CopyType, pads, objs, copy
<1> QED
  BY <1>1, <1>2, <1>3, <1>4, <1>5, <1>6, <1>7, <1>8, <1>9, <1>10, <1>11 DEF Next, Dma

(* Type correctness: every index stays in its array.                       *)
THEOREM TypeCorrect == Spec => []TypeOK
BY InitType, NextType, PTL DEF Spec

-----------------------------------------------------------------------------
(* The steps of a copy keep account of its cycles.                         *)
LEMMA DmaStep == TypeOK /\ DmaInv /\ [Next]_vars => DmaInv'
<1> SUFFICES ASSUME TypeOK, DmaInv, [Next]_vars PROVE DmaInv'
  OBVIOUS
<1> USE DEF Dummies
<1>0. i \in Int /\ elapsed \in Int /\ odd \in BOOLEAN /\ startOdd \in BOOLEAN
  BY OamAssumption DEF TypeOK, Cells
<1>1. CASE UNCHANGED <<odd, copy>>
  BY <1>1 DEF DmaInv, copy
<1>2. CASE dma = "off" /\ UNCHANGED copy
  BY <1>2 DEF DmaInv, copy
<1>3. ASSUME NEW pg \in {"ram", "io"}, StartDma(pg) PROVE DmaInv'
  BY <1>0, <1>3 DEF StartDma, DmaInv
<1>4. CASE Align
  <2>1. dma' = "get" /\ i' = i /\ startOdd' = startOdd /\ elapsed = 1 /\ i = 0
    BY <1>4 DEF Align, DmaInv
  <2>2. CASE odd
    <3>1. ~odd' /\ elapsed' = elapsed + 1 /\ ~startOdd
      BY <1>4, <2>2, Zenon DEF Align, DmaInv
    <3> QED
      BY <2>1, <3>1 DEF DmaInv
  <2>3. CASE ~odd
    <3>1. ~odd' /\ elapsed' = elapsed /\ startOdd
      BY <1>0, <1>4, <2>3, Zenon DEF Align, DmaInv
    <3> QED
      BY <2>1, <3>1 DEF DmaInv
  <2> QED
    BY <2>2, <2>3
<1>5. CASE Get
  <2>1. dma' = "put" /\ i' = i /\ startOdd' = startOdd /\ elapsed' = elapsed + 1
    BY <1>5 DEF Get
  <2>2. odd'
    BY <1>5, Zenon DEF Get, DmaInv
  <2>3. elapsed = 2 * i + Dummies
    BY <1>5, Zenon DEF Get, DmaInv
  <2> QED
    BY <1>0, <2>1, <2>2, <2>3 DEF DmaInv
<1>6. CASE Put
  <2>1. CASE LoopDone
    BY <2>1 DEF LoopDone, DmaInv
  <2>2. CASE LoopOn(i + 1)
    <3>1. dma' = "get" /\ i' = i + 1 /\ startOdd' = startOdd /\ elapsed' = elapsed + 1
      BY <2>2 DEF LoopOn
    <3>2. ~odd'
      BY <1>6, Zenon DEF Put, DmaInv
    <3>3. elapsed = 2 * i + Dummies + 1
      BY <1>6, Zenon DEF Put, DmaInv
    <3> QED
      BY <1>0, <3>1, <3>2, <3>3 DEF DmaInv
  <2> QED
    BY <1>6, <2>1, <2>2 DEF Put
<1> QED
  BY <1>1, <1>2, <1>3, <1>4, <1>5, <1>6
  DEF Next, Dma, Press, OtherInstruction, WriteStrobe, WriteOamData, CpuRead, WriteOamAddr,
      Instruction, vars

(* A copy of any length takes two cycles a byte and one or two before the  *)
(* first, by the clock's parity when it starts.                            *)
THEOREM DmaTakesTheBus == Spec => []DmaTiming
<1>1. Init => DmaInv
  BY DEF Init, DmaInv
<1>2. TypeOK /\ DmaInv => DmaTiming
  <2> SUFFICES ASSUME TypeOK, DmaInv PROVE DmaTiming
    OBVIOUS
  <2>0. i \in Int /\ elapsed \in Int
    BY OamAssumption DEF TypeOK, Cells
  <2>1. CASE startOdd
    BY <2>0, <2>1 DEF DmaInv, DmaTiming, Dummies
  <2>2. CASE ~startOdd
    BY <2>0, <2>2 DEF DmaInv, DmaTiming, Dummies
  <2> QED
    BY <2>1, <2>2
<1> QED
  BY <1>1, <1>2, TypeCorrect, DmaStep, PTL DEF Spec

-----------------------------------------------------------------------------
(* Reading a register moves what remains of a poll down by one.            *)
LEMMA RemainingShifts ==
  ASSUME TypeOK, NEW p \in Pads, shift[p] = Remaining(p),
         got'[p] = Append(got[p], shift[p][0]), latched' = latched
  PROVE  Shifted(shift[p]) = Remaining(p)'
<1> DEFINE n == Len(got[p])
           After == [b \in Buttons |-> IF n + 1 + b < NButtons THEN latched[p][n + 1 + b] ELSE FALSE]
<1>1. n \in Nat /\ Len(got'[p]) = n + 1
  BY DEF TypeOK
<1>2. Remaining(p)' = After
  BY <1>1 DEF Remaining
<1>3. ASSUME NEW b \in Buttons, b # NButtons - 1
      PROVE  shift[p][b + 1] = After[b]
  <2>1. b \in Int /\ b >= 0 /\ b < NButtons /\ n \in Int
    BY <1>1, ButtonsAssumption DEF Buttons
  <2>2. b + 1 \in Buttons
    BY <1>3, ButtonsAssumption DEF Buttons
  <2>3. n + (b + 1) = n + 1 + b
    <3>1. \A x, y \in Int : x + (y + 1) = x + 1 + y
      OBVIOUS
    <3> HIDE DEF n
    <3> QED
      BY <2>1, <3>1, Zenon
  <2> QED
    BY <2>2, <2>3 DEF Remaining
<1>4. After[NButtons - 1] = FALSE
  BY <1>1, ButtonsAssumption DEF Buttons
<1>5. \A b \in Buttons : (IF b = NButtons - 1 THEN FALSE ELSE shift[p][b + 1]) = After[b]
  BY <1>3, <1>4, Zenon
<1>6. Shifted(shift[p]) = [b \in Buttons |-> After[b]]
  BY <1>5, Zenon DEF Shifted
<1> QED
  BY <1>2, <1>6

(* ... and the bit read is the first of what remained.                     *)
LEMMA ReadsNext ==
  ASSUME TypeOK, NEW p \in Pads, shift[p] = Remaining(p)
  PROVE  shift[p][0] = IF Len(got[p]) + 1 <= NButtons THEN latched[p][Len(got[p])] ELSE FALSE
<1>1. Len(got[p]) \in Nat /\ 0 \in Buttons
  BY ButtonsAssumption DEF TypeOK, Buttons
<1>2. Len(got[p]) + 0 = Len(got[p])
      /\ (Len(got[p]) < NButtons <=> Len(got[p]) + 1 <= NButtons)
  BY <1>1, ButtonsAssumption
<1> QED
  BY <1>1, <1>2 DEF Remaining
(* Both facts about polls are inductive together.                          *)
PollInv == ShiftInv /\ PollDelivers

(* The poll of a register that was empty starts with all keys remaining.   *)
LEMMA StrobeKeepsPolls ==
  ASSUME TypeOK, PollInv, NEW val \in BOOLEAN, SetStrobe(val)
  PROVE  PollInv'
<1>1. CASE strobe /\ ~val
  <2> SUFFICES ASSUME NEW p \in clean'
               PROVE  /\ shift'[p] = Remaining(p)'
                      /\ \A k \in 1..Len(got'[p]) :
                           got'[p][k] = IF k <= NButtons THEN latched'[p][k - 1] ELSE FALSE
    BY DEF PollInv, ShiftInv, PollDelivers
  <2>1. p \in Pads /\ shift[p] = Released /\ got'[p] = <<>> /\ latched' = keys
    BY <1>1 DEF SetStrobe
  <2>2. Len(got'[p]) = 0
    BY <2>1
  <2>3. keys[p] \in [Buttons -> BOOLEAN]
    BY <2>1, HeldFacts DEF TypeOK, Held
  <2>4. shift'[p] = [b \in Buttons |-> shift[p][b] \/ keys[p][b]]
    BY <1>1, <2>1 DEF SetStrobe
  <2>5. \A b \in Buttons : (shift[p][b] \/ keys[p][b]) = keys[p][b]
    <3>1. \A b \in Buttons : shift[p][b] = FALSE
      BY <2>1, Zenon DEF Released
    <3> QED
      BY <2>3, <3>1, Zenon
  <2>6. shift'[p] = [b \in Buttons |-> keys[p][b]]
    BY <2>4, <2>5, Zenon
  <2>7. Remaining(p)' = [b \in Buttons |-> keys[p][b]]
    <3>1. \A b \in Buttons : 0 + b = b /\ 0 + b < NButtons
      BY ButtonsAssumption DEF Buttons
    <3>2. ASSUME NEW b \in Buttons
          PROVE  (IF Len(got'[p]) + b < NButtons THEN latched'[p][Len(got'[p]) + b] ELSE FALSE)
                   = keys[p][b]
      <4>1. Len(got'[p]) + b = b /\ b < NButtons
        BY <2>2, <3>1
      <4> QED
        BY <2>1, <4>1, Zenon
    <3> QED
      BY <3>2, Zenon DEF Remaining
  <2>8. 1..Len(got'[p]) = {}
    BY <2>2
  <2> QED
    BY <2>6, <2>7, <2>8, Zenon
<1>2. CASE ~(strobe /\ ~val)
  <2>1. UNCHANGED <<shift, latched, clean, got>>
    BY <1>2, Zenon DEF SetStrobe
  <2> QED
    BY <2>1 DEF PollInv, ShiftInv, PollDelivers, Remaining
<1> QED
  BY <1>1, <1>2

LEMMA ReadKeepsPolls ==
  ASSUME TypeOK, PollInv, NEW p \in Pads, ReadPort(p)
  PROVE  PollInv'
<1>1. CASE strobe
  BY <1>1 DEF ReadPort, PollInv, ShiftInv, PollDelivers, Remaining
<1>2. CASE ~strobe
  <2>0. latched' = latched /\ clean' = clean /\ clean \subseteq Pads
    BY DEF ReadPort, TypeOK
  <2>1. shift'[p] = Shifted(shift[p]) /\ got'[p] = Append(got[p], shift[p][0])
    BY <1>2 DEF ReadPort, TypeOK, Held
  <2>2. \A q \in Pads \ {p} : shift'[q] = shift[q] /\ got'[q] = got[q]
    BY <1>2 DEF ReadPort, TypeOK, Held
  <2>3. ASSUME p \in clean
        PROVE  /\ shift'[p] = Remaining(p)'
               /\ \A k \in 1..Len(got'[p]) :
                    got'[p][k] = IF k <= NButtons THEN latched[p][k - 1] ELSE FALSE
    <3>1. shift[p] = Remaining(p)
      BY <2>3 DEF PollInv, ShiftInv
    <3>2. shift'[p] = Remaining(p)'
      BY <2>0, <2>1, <3>1, RemainingShifts
    <3>3. shift[p][0] = IF Len(got[p]) + 1 <= NButtons THEN latched[p][Len(got[p])] ELSE FALSE
      BY <3>1, ReadsNext
    <3>4. got[p] \in Seq(BOOLEAN) /\ Len(got[p]) \in Nat
      BY DEF TypeOK
    <3>5. \A k \in 1..Len(got'[p]) :
             k = Len(got[p]) + 1 \/ (k \in 1..Len(got[p]) /\ got'[p][k] = got[p][k])
      BY <2>1, <3>4
    <3>6. got'[p][Len(got[p]) + 1] = shift[p][0]
      BY <2>1, <3>4
    <3>7. Len(got[p]) + 1 - 1 = Len(got[p])
      BY <3>4
    <3>8. \A k \in 1..Len(got[p]) :
            got[p][k] = IF k <= NButtons THEN latched[p][k - 1] ELSE FALSE
      BY <2>3 DEF PollInv, PollDelivers
    <3>9. ASSUME NEW k \in 1..Len(got'[p])
          PROVE  got'[p][k] = IF k <= NButtons THEN latched[p][k - 1] ELSE FALSE
      <4>1. CASE k = Len(got[p]) + 1
        <5>1. k - 1 = Len(got[p])
          BY <3>7, <4>1
        <5>2. got'[p][k] = shift[p][0]
          BY <3>6, <4>1
        <5>3. shift[p][0] = IF k <= NButtons THEN latched[p][k - 1] ELSE FALSE
          BY <3>3, <4>1, <5>1
        <5> QED
          BY <5>2, <5>3
      <4>2. CASE k \in 1..Len(got[p]) /\ got'[p][k] = got[p][k]
        BY <3>8, <4>2, Zenon
      <4> QED
        BY <3>5, <4>1, <4>2, Zenon
    <3> QED
      BY <3>2, <3>9
  <2>4. ASSUME NEW q \in clean, q # p
        PROVE  /\ shift'[q] = Remaining(q)'
               /\ \A k \in 1..Len(got'[q]) :
                    got'[q][k] = IF k <= NButtons THEN latched[q][k - 1] ELSE FALSE
    BY <2>0, <2>2, <2>4 DEF PollInv, ShiftInv, PollDelivers, Remaining
  <2> QED
    BY <2>0, <2>3, <2>4, Zenon DEF PollInv, ShiftInv, PollDelivers
<1> QED
  BY <1>1, <1>2

(* What the guest reads is what was held at the poll, whatever the number  *)
(* of buttons, the keyboard's use and the page a copy is made of.          *)
THEOREM PollsDeliver == Spec => []PollDelivers
<1>1. Init => PollInv
  <2> SUFFICES ASSUME Init, NEW p \in Pads PROVE shift[p] = Remaining(p) /\ 1..Len(got[p]) = {}
    BY DEF Init, PollInv, ShiftInv, PollDelivers
  <2>1. shift[p] = Released /\ latched[p] = Released /\ got[p] = <<>> /\ Len(got[p]) = 0
    BY DEF Init
  <2>2. \A b \in Buttons : 0 + b = b /\ 0 + b < NButtons
    BY ButtonsAssumption DEF Buttons
  <2>3. \A b \in Buttons : (IF 0 + b < NButtons THEN Released[0 + b] ELSE FALSE) = FALSE
    BY <2>2, Zenon DEF Released
  <2>4. shift[p] = Remaining(p)
    BY <2>1, <2>3, Zenon DEF Remaining, Released
  <2> QED
    BY <2>1, <2>4
<1>2. TypeOK /\ PollInv /\ [Next]_vars => PollInv'
  <2> SUFFICES ASSUME TypeOK, PollInv, [Next]_vars PROVE PollInv'
    OBVIOUS
  <2>1. CASE UNCHANGED pads
    BY <2>1 DEF pads, PollInv, ShiftInv, PollDelivers, Remaining
  <2>2. ASSUME NEW b \in Byte, WriteStrobe(b) PROVE PollInv'
    BY <2>2, StrobeKeepsPolls DEF WriteStrobe
  <2>3. ASSUME NEW p \in Pads, ReadPort(p) PROVE PollInv'
    BY <2>3, ReadKeepsPolls
  <2>4. CASE Get
    <3>1. UNCHANGED pads \/ \E p \in Pads : ReadPort(p)
      BY <2>4, Zenon DEF Get, pads
    <3> QED
      BY <2>1, <2>3, <3>1
  <2>5. CASE Put
    BY <2>1, <2>5 DEF Put
  <2> QED
    BY <2>1, <2>2, <2>3, <2>4, <2>5
    DEF Next, Dma, Press, OtherInstruction, Align, StartDma, WriteOamData, CpuRead,
        WriteOamAddr, vars
<1>3. PollInv => PollDelivers
  BY DEF PollInv
<1> QED
  BY <1>1, <1>2, <1>3, TypeCorrect, PTL DEF Spec

-----------------------------------------------------------------------------
(* Where byte k of a copy goes, as a case distinction.                     *)
Place(k) == (startAddr + k) % OamSize

LEMMA PlaceFacts ==
  ASSUME startAddr \in Cells
  PROVE  /\ Place(0) = startAddr /\ Place(OamSize) = startAddr
         /\ \A k \in Cells : Place(k) \in Cells /\ (Place(k) + 1) % OamSize = Place(k + 1)
         /\ \A j, k \in Cells : Place(j) = Place(k) => j = k
<1> DEFINE N == OamSize
           s == startAddr
<1>0. N \in Nat \ {0} /\ s \in Int /\ 0 <= s /\ s < N
  BY OamAssumption DEF Cells
<1>1. ASSUME NEW x \in Int, 0 <= x, x < N PROVE x % N = x
  BY <1>0, <1>1
<1>2. ASSUME NEW x \in Int, N <= x, x < 2 * N PROVE x % N = x - N
  BY <1>0, <1>2
<1> HIDE DEF N, s
<1>3. ASSUME NEW k \in Int, 0 <= k, k <= N
      PROVE  (s + k) % N = IF s + k < N THEN s + k ELSE s + k - N
  <2>1. CASE s + k < N
    BY <1>0, <1>1, <1>3, <2>1
  <2>2. CASE ~(s + k < N)
    BY <1>0, <1>2, <1>3, <2>2
  <2> QED
    BY <2>1, <2>2
<1>4. (s + 0) % N = s /\ (s + N) % N = s
  BY <1>0, <1>3
<1>5. ASSUME NEW k \in 0..(N - 1)
      PROVE  (s + k) % N \in 0..(N - 1) /\ (((s + k) % N) + 1) % N = (s + (k + 1)) % N
  <2> DEFINE p == (s + k) % N
  <2>1. k \in Int /\ 0 <= k /\ k + 1 <= N /\ k <= N
    BY <1>0, <1>5
  <2>2. p = IF s + k < N THEN s + k ELSE s + k - N
    BY <1>3, <2>1
  <2>3. (s + (k + 1)) % N = IF s + (k + 1) < N THEN s + (k + 1) ELSE s + (k + 1) - N
    BY <1>3, <2>1
  <2>4. p \in 0..(N - 1)
    <3> HIDE DEF p
    <3> QED
      BY <1>0, <2>1, <2>2
  <2>5. (p + 1) % N = IF p + 1 < N THEN p + 1 ELSE 0
    <3> HIDE DEF p
    <3>1. CASE p + 1 < N
      BY <1>0, <1>1, <2>4, <3>1
    <3>2. CASE p + 1 = N
      BY <1>0, <1>2, <2>4, <3>2
    <3> QED
      BY <1>0, <2>4, <3>1, <3>2
  <2>6. (p + 1) % N = (s + (k + 1)) % N
    <3> HIDE DEF p
    <3> DEFINE q == (p + 1) % N
               r == (s + (k + 1)) % N
    <3>1. q = IF p + 1 < N THEN p + 1 ELSE 0
      BY <2>5
    <3>2. r = IF s + (k + 1) < N THEN s + (k + 1) ELSE s + (k + 1) - N
      BY <2>3
    <3> HIDE DEF q, r
    <3>3. q = r
      BY <1>0, <2>1, <2>2, <2>4, <3>1, <3>2
    <3> QED
      BY <3>3 DEF q, r
  <2> QED
    BY <2>4, <2>6
<1>6. ASSUME NEW j \in 0..(N - 1), NEW k \in 0..(N - 1), (s + j) % N = (s + k) % N
      PROVE  j = k
  <2> DEFINE p == (s + j) % N
             q == (s + k) % N
  <2>1. p = (IF s + j < N THEN s + j ELSE s + j - N) /\ q = IF s + k < N THEN s + k ELSE s + k - N
    BY <1>0, <1>3, <1>6
  <2>2. p = q
    BY <1>6
  <2> HIDE DEF p, q
  <2> QED
    BY <1>0, <2>1, <2>2
<1> QED
  BY <1>4, <1>5, <1>6 DEF Place, Cells, N, s

(* What a copy has done when it is at byte i.                              *)
CopyInv ==
  /\ dma = "align" => oam_addr = startAddr
  /\ dma \in {"get", "put"} => oam_addr = Place(i)
  /\ dma \in {"get", "put"} /\ page = "ram" =>
       \A k \in Cells : k < i => oam[Place(k)] = Ram[k]
  /\ dma = "put" /\ page = "ram" => lanes = Ram[i]

LEMMA CopyStep == TypeOK /\ DmaInv /\ CopyInv /\ [Next]_vars => CopyInv'
<1> SUFFICES ASSUME TypeOK, DmaInv, CopyInv, [Next]_vars PROVE CopyInv'
  OBVIOUS
<1> USE DEF Place
<1>0. startAddr \in Cells /\ i \in Cells
  BY DEF TypeOK
<1>1. CASE UNCHANGED <<lanes, objs, copy>>
  BY <1>1 DEF CopyInv, copy, objs
<1>2. CASE dma = "off" /\ UNCHANGED copy
  BY <1>2 DEF CopyInv, copy
<1>3. ASSUME NEW pg \in {"ram", "io"}, StartDma(pg) PROVE CopyInv'
  BY <1>3 DEF StartDma, CopyInv, objs
<1>4. CASE Align
  <2>1. i = 0 /\ dma' = "get" /\ UNCHANGED <<oam, oam_addr, page, i, startAddr, lanes>>
    BY <1>4 DEF Align, DmaInv, objs
  <2>2. oam_addr' = Place(i)' /\ \A k \in Cells : ~(k < 0)
    BY <1>0, <1>4, <2>1, PlaceFacts, OamAssumption DEF Align, CopyInv, Cells
  <2> QED
    BY <2>1, <2>2 DEF CopyInv
<1>5. CASE Get
  <2>1. dma = "get" /\ dma' = "put" /\ UNCHANGED <<oam, oam_addr, page, i, startAddr>>
    BY <1>5 DEF Get, objs
  <2>2. page = "ram" => lanes' = Ram[i]
    BY <1>5, Zenon DEF Get
  <2> QED
    BY <2>1, <2>2 DEF CopyInv
<1>6. CASE Put
  <2>1. CASE LoopDone
    BY <2>1 DEF LoopDone, CopyInv
  <2>2. CASE i + 1 # OamSize /\ LoopOn(i + 1)
    <3>1. dma' = "get" /\ i' = i + 1 /\ UNCHANGED <<page, startAddr>> /\ dma = "put"
      BY <1>6, <2>2 DEF LoopOn, Put
    <3>2. oam' = [oam EXCEPT ![oam_addr] = lanes] /\ oam_addr' = (oam_addr + 1) % OamSize
      BY <1>6 DEF Put, OamData
    <3>3. oam_addr' = Place(i)'
      BY <1>0, <3>1, <3>2, PlaceFacts DEF CopyInv
    <3>4. ASSUME page = "ram", NEW k \in Cells, k < i + 1 PROVE oam'[Place(k)] = Ram[k]
      <4>1. CASE k = i
        BY <1>0, <3>1, <3>2, <3>4, <4>1, PlaceFacts DEF CopyInv, TypeOK
      <4>2. CASE k # i
        <5>1. k < i
          BY <1>0, <3>4, <4>2, OamAssumption DEF Cells
        <5>2. Place(k) # Place(i) /\ Place(k) \in Cells
          BY <1>0, <4>2, PlaceFacts, Zenon
        <5>3. oam'[Place(k)] = oam[Place(k)]
          BY <3>1, <3>2, <5>2 DEF CopyInv, TypeOK
        <5> QED
          BY <3>1, <3>4, <5>1, <5>3, Zenon DEF CopyInv
      <4> QED
        BY <4>1, <4>2
    <3> QED
      BY <3>1, <3>3, <3>4 DEF CopyInv
  <2> QED
    BY <1>6, <2>1, <2>2 DEF Put
<1> QED
  BY <1>1, <1>2, <1>3, <1>4, <1>5, <1>6
  DEF Next, Dma, Press, OtherInstruction, WriteStrobe, WriteOamData, CpuRead, WriteOamAddr,
      Instruction, vars

(* A copy of any size that starts anywhere writes every byte of its page   *)
(* to its place and leaves OAMADDR as it found it.                         *)
THEOREM CopiesAreWhole == Spec => CopyIsWhole
<1>1. Init => DmaInv /\ CopyInv
  BY DEF Init, DmaInv, CopyInv
<1>2. ASSUME TypeOK, CopyInv, [Next]_vars, dma = "put", dma' = "off"
      PROVE  /\ oam_addr' = startAddr
             /\ page = "ram" => \A k \in Cells : oam'[(startAddr + k) % OamSize] = Ram[k]
  <2>0. startAddr \in Cells /\ i \in Cells
    BY <1>2 DEF TypeOK
  <2>1. Put /\ i + 1 = OamSize
    BY <1>2 DEF Next, Dma, Press, OtherInstruction, WriteStrobe, WriteOamData, CpuRead,
      WriteOamAddr, Instruction, StartDma, Align, Get, Put, LoopOn, copy, vars
  <2>2. oam' = [oam EXCEPT ![Place(i)] = lanes] /\ oam_addr' = (Place(i) + 1) % OamSize
    BY <1>2, <2>1 DEF Put, OamData, CopyInv
  <2>3. oam_addr' = startAddr
    BY <2>0, <2>1, <2>2, PlaceFacts
  <2>4. ASSUME page = "ram", NEW k \in Cells PROVE oam'[Place(k)] = Ram[k]
    <3>1. CASE k = i
      BY <1>2, <2>0, <2>2, <2>4, <3>1, PlaceFacts DEF CopyInv, TypeOK
    <3>2. CASE k # i
      <4>1. k < i
        BY <2>0, <2>1, <3>2, OamAssumption DEF Cells
      <4>2. Place(k) # Place(i) /\ Place(k) \in Cells
        BY <2>0, <3>2, PlaceFacts, Zenon
      <4>3. oam'[Place(k)] = oam[Place(k)]
        BY <1>2, <2>2, <4>2 DEF TypeOK
      <4> QED
        BY <1>2, <2>4, <4>1, <4>3, Zenon DEF CopyInv
    <3> QED
      BY <3>1, <3>2
  <2> QED
    BY <2>3, <2>4 DEF Place
<1>3. TypeOK /\ CopyInv /\ [Next]_vars =>
        [dma = "put" /\ dma' = "off" =>
          /\ oam_addr' = startAddr
          /\ page = "ram" => \A k \in Cells : oam'[(startAddr + k) % OamSize] = Ram[k]]_vars
  BY <1>2
<1> QED
  BY <1>1, <1>3, TypeCorrect, DmaStep, CopyStep, PTL DEF Spec, CopyIsWhole
=============================================================================
