------------------------------ MODULE Machine -------------------------------
(***************************************************************************)
(* The CPU and the picture unit on one clock.  An instruction makes its    *)
(* accesses first and asks for its cycles afterwards (mos6502_step), an    *)
(* OAMDMA asks for them one by one between the accesses of its loop; the   *)
(* clock hands every cycle out as dots of the picture before the next      *)
(* access.  That a request becomes that many dots, each in its turn, is    *)
(* what TimerService promises and Timekeeper keeps; here a request is the  *)
(* number of dots still owed.                                              *)
(*                                                                         *)
(* The clock itself is kept only as far as something depends on it: the    *)
(* parity of the CPU's cycle, which OAMDMA reads, and the dots since the   *)
(* reset modulo a pair of frames, so that the machine runs for ever in     *)
(* finitely many states.                                                   *)
(***************************************************************************)
EXTENDS Ppu

CONSTANTS
  DotsPerCycle, \* 3: MOS6502_CLKDIVISOR / PPU_CLKDIVISOR
  InstrCycles,  \* 2..7: values of instr_cycles
  DmaBytes      \* 256

ASSUME CycleAssumption ==
  /\ DotsPerCycle \in Nat \ {0}
  /\ InstrCycles \subseteq Nat \ {0}
  /\ DmaBytes \in Nat \ {0}

VARIABLES
  owed,  \* dots of the cycles asked for that have not run yet
  dma,   \* the OAMDMA loop: its stage, the page it copies and its index
  even,  \* whether clk_cyclenum / MOS6502_CLKDIVISOR is even
  now,   \* history: dots since the reset, modulo a pair of frames
  polled, \* history: whether PPUSTATUS was read since vblank was last raised
  seen   \* history: how many of those reads found it set

machineVars == <<vars, owed, dma, even, now, polled, seen>>

NoDma  == [stage |-> "off", page |-> "ram", i |-> 0]
Frame  == (PreRender + 1) * Dots                \* the dots of an even frame
Pair   == 2 * Frame - 1

-----------------------------------------------------------------------------
(* Power-on: the reset of the CPU asks for 8 cycles.                       *)
MachineInit ==
  /\ Init
  /\ owed = 8 * DotsPerCycle /\ dma = NoDma /\ even = TRUE
  /\ now = 0 /\ polled = TRUE /\ seen = 1

(* The clock fires the timer of the picture unit.                          *)
Dot ==
  /\ owed > 0
  /\ Step
  /\ owed' = owed - 1
  /\ even' = IF owed % DotsPerCycle = 1 % DotsPerCycle THEN ~even ELSE even
  /\ now' = (now + 1) % Pair
  /\ polled' = (polled /\ ~AtVblank)
  /\ seen' = IF AtVblank THEN 0 ELSE seen
  /\ UNCHANGED dma

WindowCloses == owed > 0 /\ Quit /\ UNCHANGED <<owed, dma, even, now, polled, seen>>

(* The history that a read of PPUSTATUS leaves.                            *)
Polled == polled' = TRUE /\ seen' = IF vblank /\ seen < 2 THEN seen + 1 ELSE seen
NotPolled == UNCHANGED <<polled, seen>>

Poll  == ReadStatus /\ Polled
Write == \/ \E c \in CtrlWrites : WriteCtrl(c)
         \/ \E m \in MaskWrites : WriteMask(m)
Away  == open /\ UNCHANGED vars      \* an access to anything else

(* Mutant: an instruction does not ask for its cycles.                     *)
Mutant_ExecuteForgets(c) ==
  /\ owed = 0 /\ dma.stage = "off"
  /\ Poll \/ (Write /\ NotPolled) \/ (Away /\ NotPolled)
  /\ UNCHANGED <<owed, dma, even, now>>

(* An instruction of c cycles.                                             *)
Execute(c) ==
  /\ owed = 0 /\ dma.stage = "off"
  /\ Poll \/ (Write /\ NotPolled) \/ (Away /\ NotPolled)
  /\ owed' = c * DotsPerCycle
  /\ UNCHANGED <<dma, even, now>>

(* A write to OAMDMA: a dummy cycle, another one on an odd cycle, then a   *)
(* read and a write of a cycle each for every byte, and at last the cycles *)
(* of the instruction that wrote the register.                             *)
StartDma(page) ==
  /\ owed = 0 /\ dma.stage = "off" /\ Away /\ NotPolled
  /\ dma' = [stage |-> "align", page |-> page, i |-> 0]
  /\ owed' = DotsPerCycle
  /\ UNCHANGED <<even, now>>

Align ==
  /\ owed = 0 /\ dma.stage = "align" /\ Away /\ NotPolled
  /\ dma' = [dma EXCEPT !.stage = "get"]
  /\ owed' = IF even THEN 0 ELSE DotsPerCycle
  /\ UNCHANGED <<even, now>>

(* The loop reads through the bus: on the page of the picture unit it      *)
(* reads the registers, and with them what a read of them does.            *)
Get ==
  /\ owed = 0 /\ dma.stage = "get" /\ dma.i < DmaBytes
  /\ LET register == IF dma.page = "ppu" THEN dma.i % 8 ELSE 0
     IN  \/ register = 2 /\ Poll
         \/ register = 7 /\ AccessData /\ NotPolled
         \/ register \notin {2, 7} /\ Away /\ NotPolled
  /\ dma' = [dma EXCEPT !.stage = "put"]
  /\ owed' = DotsPerCycle
  /\ UNCHANGED <<even, now>>

Put ==
  /\ owed = 0 /\ dma.stage = "put" /\ Away /\ NotPolled
  /\ dma' = [dma EXCEPT !.stage = "get", !.i = @ + 1]
  /\ owed' = DotsPerCycle
  /\ UNCHANGED <<even, now>>

EndDma(c) ==
  /\ owed = 0 /\ dma.stage = "get" /\ dma.i = DmaBytes /\ Away /\ NotPolled
  /\ dma' = NoDma
  /\ owed' = c * DotsPerCycle
  /\ UNCHANGED <<even, now>>

MachineNext ==
  \/ Dot \/ WindowCloses
  \/ \E c \in InstrCycles : Execute(c) \/ EndDma(c)
  \/ \E page \in {"ram", "ppu"} : StartDma(page)
  \/ Align \/ Get \/ Put

(* One thread runs it all: as long as it can go on it does.                *)
MachineSpec == MachineInit /\ [][MachineNext]_machineVars
FairMachineSpec == MachineSpec /\ WF_machineVars(MachineNext)

-----------------------------------------------------------------------------
MachineTypeOK ==
  /\ owed \in Nat /\ even \in BOOLEAN
  /\ dma \in [stage : {"off", "align", "get", "put"}, page : {"ram", "ppu"}, i : 0..DmaBytes]
  /\ now \in 0..(Pair - 1) /\ polled \in BOOLEAN /\ seen \in 0..2

(* The dots since the reset that the cursor shows, modulo a pair of        *)
(* frames: the first pre-render line is a long one and the next a short.   *)
Position ==
  CASE sl = PreRender /\ ~odd -> dot
    [] sl = PreRender /\ odd  -> Frame + dot
    [] sl # PreRender /\ odd  -> (sl + 1) * Dots + dot
    [] sl # PreRender /\ ~odd -> Frame - 1 + (sl + 1) * Dots + dot

(***************************************************************************)
(* The picture never drifts against the program: the line, the dot and the *)
(* parity of the frame are those the clock alone determines, whatever      *)
(* instructions, accesses and copies the cycles were spent on              *)
(* (ppu.c move_cursor, mos6502.c:291, io_reg.c:73-91).                     *)
(***************************************************************************)
PictureOnTime == now = Position

(***************************************************************************)
(* The handshake on which programs pace themselves: up to the moment the   *)
(* flags are cleared, the first read of PPUSTATUS after a vblank began has *)
(* seen it, and no other has, whoever read it: a program whose reads are   *)
(* never further apart than the vblank is long counts every frame once.    *)
(***************************************************************************)
VblankSeenOnce ==
  /\ seen <= 1
  /\ polled /\ (sl \in (VblankLine + 1)..(PreRender - 1) \/ AtClear) => seen = 1

(***************************************************************************)
(* Every run of the machine is one of the picture unit on its own, and a   *)
(* fair one: that its dots keep coming, which Ppu assumes, follows here    *)
(* from instructions that always cost cycles and copies that end.          *)
(***************************************************************************)
PpuIsFair == FairSpec
=============================================================================
