------------------------------- MODULE IoReg -------------------------------
(***************************************************************************)
(* The I/O register page of the NES, emu/nes/io_reg.c: the two controllers *)
(* with their shift registers, and OAMDMA, which takes the CPU over and    *)
(* copies a page to the PPU's object memory (OAMADDR and OAMDATA of        *)
(* emu/nes/ppu.c) one byte every two CPU cycles.  A copy reads through the *)
(* bus, so the page it copies may be the register page itself.             *)
(*                                                                         *)
(* A byte on the bus is [hi, lo]: the three lanes a controller port leaves *)
(* undriven, and the five it drives.  A key changes between any two steps. *)
(***************************************************************************)
EXTENDS Integers, Sequences

CONSTANTS
  NButtons,     \* CONTROLLER_NBUTTONS (8)
  OamSize,      \* 256: bytes of object memory, and of a page
  PortAt,       \* 0x16 and 0x17: offsets of the two ports in their page
  Byte,         \* the bytes used
  PageByte,     \* the byte whose write to OAMDMA copies a page; 0x40 for "io"
  Ram,          \* the page of memory that is copied: [0..OamSize-1 -> Byte]
  KeyStates,    \* what the players may hold down
  MaxReads      \* bound on the reads of one poll

Pads    == {0, 1}
Buttons == 0..(NButtons - 1)     \* 0 is A, 1 is B
Cells   == 0..(OamSize - 1)
Held    == [Pads -> [Buttons -> BOOLEAN]]
Low(b)  == IF b THEN 1 ELSE 0
Zero    == [hi |-> 0, lo |-> 0]

ASSUME ButtonsAssumption == NButtons \in Nat /\ NButtons >= 2
ASSUME OamAssumption     == OamSize \in Nat \ {0}
ASSUME PortsAssumption   == PortAt \in [Pads -> Cells] /\ PortAt[0] # PortAt[1]
ASSUME BytesAssumption   ==
  /\ \A b \in Byte, x \in {0, 1} : [hi |-> b.hi, lo |-> x] \in Byte
  /\ \A b \in Byte : b.lo \in Nat
  /\ Zero \in Byte
  /\ Ram \in [Cells -> Byte] /\ PageByte \in [{"ram", "io"} -> Byte]
ASSUME KeysAssumption    == KeyStates \subseteq Held
ASSUME ReadsAssumption   == MaxReads \in Nat

VARIABLES
  keys,         \* the keyboard
  strobe, shift,\* controller_strobe, controller_shiftregs
  lanes,        \* the bus's data_lanes: the last byte on it
  oam, oam_addr,
  odd,          \* whether the number of CPU cycles is odd
  dma,          \* "off", "align", "get", "put": where OAMDMA is
  page, i,      \* what it copies: "ram" or "io"; and its loop variable
  elapsed, startOdd, startAddr, \* history: the cycles it took, how it found
                                \* the clock and oam_addr
  latched,      \* history: the keys at the last falling edge of the strobe
  clean,        \* history: which shift registers were empty at that edge
  got           \* history: the bits read from each port since

pads == <<strobe, shift, latched, clean, got>>
copy == <<dma, page, i, elapsed, startOdd, startAddr>>
objs == <<oam, oam_addr>>
vars == <<keys, pads, lanes, objs, odd, copy>>

Released == [b \in Buttons |-> FALSE]

-----------------------------------------------------------------------------
(* reset() of the registers and of the PPU                                 *)
Init ==
  /\ keys \in KeyStates
  /\ strobe = FALSE /\ shift = [p \in Pads |-> Released]
  /\ lanes \in Byte
  /\ oam = [c \in Cells |-> Zero] /\ oam_addr = 0
  /\ odd \in BOOLEAN
  /\ dma = "off" /\ page = "ram" /\ i = 0
  /\ elapsed = 0 /\ startOdd = FALSE /\ startAddr = 0
  /\ latched = [p \in Pads |-> Released] /\ clean = Pads
  /\ got = [p \in Pads |-> <<>>]

(* The players                                                             *)
Press ==
  /\ keys' \in KeyStates \ {keys}
  /\ UNCHANGED <<pads, lanes, objs, odd, copy>>

(* set_strobe: on the falling edge the keys are or-ed into the registers.  *)
SetStrobe(val) ==
  /\ strobe' = val
  /\ IF strobe /\ ~val
     THEN /\ shift' = [p \in Pads |-> [b \in Buttons |-> shift[p][b] \/ keys[p][b]]]
          /\ latched' = keys
          /\ clean' = {p \in Pads : shift[p] = Released}
          /\ got' = [p \in Pads |-> <<>>]
     ELSE UNCHANGED <<shift, latched, clean, got>>

Shifted(s) == [b \in Buttons |-> IF b = NButtons - 1 THEN FALSE ELSE s[b + 1]]

(* The bit a port shows: with the strobe high it is read from the keyboard *)
(* at controller_mappings[p][CONTROLLER_BUTTON_A], an array indexed by     *)
(* button first: button p of the first player.                             *)
PortBit(p) == IF strobe THEN keys[0][p] ELSE shift[p][0]

(* Mutant: a read clocks the registers of both controllers.                *)
Mutant_ReadPortBoth(p) ==
  /\ lanes' = [hi |-> lanes.hi, lo |-> Low(PortBit(p))]
  /\ IF strobe
     THEN UNCHANGED <<shift, got>>
     ELSE /\ shift' = [q \in Pads |-> Shifted(shift[q])]
          /\ got' = [got EXCEPT ![p] = Append(@, shift[p][0])]
  /\ UNCHANGED <<strobe, latched, clean>>

(* read() of a port                                                        *)
ReadPort(p) ==
  /\ lanes' = [hi |-> lanes.hi, lo |-> Low(PortBit(p))]
  /\ IF strobe
     THEN UNCHANGED <<shift, got>>
     ELSE /\ shift' = [shift EXCEPT ![p] = Shifted(@)]
          /\ got' = [got EXCEPT ![p] = Append(@, shift[p][0])]
  /\ UNCHANGED <<strobe, latched, clean>>

-----------------------------------------------------------------------------
(* The CPU executes instructions only while no copy runs.                  *)
Instruction(odds) == dma = "off" /\ odd' = odds /\ UNCHANGED <<keys, copy>>

(* A write to 0x4016                                                       *)
WriteStrobe(b) ==
  /\ \E odds \in BOOLEAN : Instruction(odds)
  /\ SetStrobe(b.lo % 2 = 1)
  /\ lanes' = b
  /\ UNCHANGED objs

CpuRead(p) ==
  /\ \E odds \in BOOLEAN : Instruction(odds)
  /\ Len(got[p]) < MaxReads
  /\ ReadPort(p)
  /\ UNCHANGED objs

WriteOamAddr(a) ==
  /\ \E odds \in BOOLEAN : Instruction(odds)
  /\ oam_addr' = a
  /\ lanes' \in Byte
  /\ UNCHANGED <<pads, oam>>

OamData(b) ==
  /\ lanes' = b
  /\ oam' = [oam EXCEPT ![oam_addr] = b]
  /\ oam_addr' = (oam_addr + 1) % OamSize

WriteOamData(b) ==
  /\ \E odds \in BOOLEAN : Instruction(odds)
  /\ OamData(b)
  /\ UNCHANGED pads

(* Anything else the CPU does leaves some byte on the bus.                 *)
OtherInstruction ==
  /\ \E odds \in BOOLEAN : Instruction(odds)
  /\ lanes' \in Byte
  /\ UNCHANGED <<pads, objs>>

-----------------------------------------------------------------------------
(* OAMDMA.  The dummy read cycle, and a second one on an odd cycle ...     *)
StartDma(pg) ==
  /\ dma = "off"
  /\ dma' = "align" /\ page' = pg /\ i' = 0
  /\ odd' = ~odd
  /\ \A p \in Pads : Len(got[p]) < MaxReads
  /\ lanes' = PageByte[pg]
  /\ elapsed' = 1 /\ startOdd' = odd /\ startAddr' = oam_addr
  /\ UNCHANGED <<keys, pads, objs>>

(* Mutant: the second dummy cycle is taken on an even cycle.               *)
Mutant_AlignEven ==
  /\ dma = "align"
  /\ dma' = "get"
  /\ IF odd THEN UNCHANGED <<odd, elapsed>> ELSE odd' = ~odd /\ elapsed' = elapsed + 1
  /\ UNCHANGED <<keys, pads, lanes, objs, page, i, startOdd, startAddr>>

Align ==
  /\ dma = "align"
  /\ dma' = "get"
  /\ IF odd THEN odd' = ~odd /\ elapsed' = elapsed + 1 ELSE UNCHANGED <<odd, elapsed>>
  /\ UNCHANGED <<keys, pads, lanes, objs, page, i, startOdd, startAddr>>

(* ... then a read, which leaves the byte on the bus.                      *)
Get ==
  /\ dma = "get"
  /\ dma' = "put"
  /\ \/ page = "ram" /\ lanes' = Ram[i] /\ UNCHANGED pads
     \/ \E p \in Pads : page = "io" /\ PortAt[p] = i /\ ReadPort(p)
     \/ /\ page = "io" /\ \A p \in Pads : PortAt[p] # i
        /\ UNCHANGED <<pads, lanes>>          \* nothing drives the bus
  /\ odd' = ~odd /\ elapsed' = elapsed + 1
  /\ UNCHANGED <<keys, objs, page, i, startOdd, startAddr>>

(* The loop's test: the copy ends, and its history with it, ...            *)
LoopDone ==
  /\ dma' = "off" /\ i' = 0 /\ page' = "ram"
  /\ elapsed' = 0 /\ startOdd' = FALSE /\ startAddr' = 0
(* ... or goes on at the next byte.                                        *)
LoopOn(next) ==
  /\ dma' = "get" /\ i' = next /\ elapsed' = elapsed + 1
  /\ UNCHANGED <<page, startOdd, startAddr>>

(* Mutants: the loop stops one byte early; the index wraps to 0 like the   *)
(* uint8_t it could be, before it is compared with 256.                    *)
Mutant_PutShort ==
  /\ dma = "put"
  /\ OamData(lanes)
  /\ odd' = ~odd
  /\ IF i + 1 >= OamSize - 1 THEN LoopDone ELSE LoopOn(i + 1)
  /\ UNCHANGED <<keys, pads>>
Mutant_PutWraps ==
  /\ dma = "put"
  /\ OamData(lanes)
  /\ odd' = ~odd
  /\ dma' = "get" /\ i' = (i + 1) % OamSize
  /\ elapsed' = IF i' = 0 THEN (IF startOdd THEN 1 ELSE 2) ELSE elapsed + 1
  /\ UNCHANGED <<keys, pads, page, startOdd, startAddr>>

(* The write of that byte to OAMDATA.                                      *)
Put ==
  /\ dma = "put"
  /\ OamData(lanes)
  /\ odd' = ~odd
  /\ IF i + 1 = OamSize THEN LoopDone ELSE LoopOn(i + 1)
  /\ UNCHANGED <<keys, pads>>

Dma == Align \/ Get \/ Put

Next ==
  \/ Press \/ OtherInstruction \/ Dma
  \/ \E b \in Byte : WriteStrobe(b) \/ WriteOamData(b)
  \/ \E p \in Pads : CpuRead(p)
  \/ \E a \in Cells : WriteOamAddr(a)
  \/ \E pg \in {"ram", "io"} : StartDma(pg)

Spec == Init /\ [][Next]_vars

(* The copy is a loop inside write(); nothing else runs until it returns.  *)
FairSpec == Spec /\ WF_vars(Dma)

-----------------------------------------------------------------------------
TypeOK ==
  /\ keys \in KeyStates
  /\ strobe \in BOOLEAN /\ shift \in Held
  /\ lanes \in Byte
  /\ oam \in [Cells -> Byte] /\ oam_addr \in Cells
  /\ odd \in BOOLEAN
  /\ dma \in {"off", "align", "get", "put"} /\ page \in {"ram", "io"}
  /\ i \in Cells
  /\ elapsed \in Nat /\ startOdd \in BOOLEAN /\ startAddr \in Cells
  /\ latched \in Held /\ clean \in SUBSET Pads
  /\ got \in [Pads -> Seq(BOOLEAN)]

(* A poll delivers the buttons: when a register had been read to its end   *)
(* before the strobe fell, the bits the guest reads from the port are the  *)
(* keys at that moment, from A on, then zeros -- whatever is pressed since *)
(* and whoever reads the port, a copy of the register page included.       *)
PollDelivers ==
  \A p \in clean : \A k \in 1..Len(got[p]) :
    got[p][k] = IF k <= NButtons THEN latched[p][k - 1] ELSE FALSE

(* The copy takes the CPU for 513 cycles when it finds the clock at an odd *)
(* cycle and for 514 at an even one: it reads on even cycles, writes on    *)
(* odd ones, and the last write is the last of those cycles.               *)
DmaTiming ==
  /\ dma = "get" => ~odd
  /\ dma = "put" => odd /\ elapsed + 1 = 2 * (i + 1) + IF startOdd THEN 1 ELSE 2

(* When the copy is over, object memory holds the page, rotated to start   *)
(* at OAMADDR, and OAMADDR is back where it was.                           *)
CopyIsWhole ==
  [][dma = "put" /\ dma' = "off" =>
       /\ oam_addr' = startAddr
       /\ page = "ram" => \A k \in Cells : oam'[(startAddr + k) % OamSize] = Ram[k]]_vars

(* The CPU gets the bus back.                                              *)
DmaEnds == dma # "off" ~> dma = "off"

(* io_reg.c:20: "Update the shift registers according to the current       *)
(* key-press state" -- on the falling edge they show the keys.             *)
StrobeRefreshes == [][strobe /\ ~strobe' => shift' = keys]_vars
=============================================================================
