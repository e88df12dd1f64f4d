-------------------------------- MODULE Ppu --------------------------------
(***************************************************************************)
(* The NES picture unit, emu/nes/ppu.c: the cursor that walks the dots of  *)
(* a frame, the status flags and NMIs it raises on the way, the scroll     *)
(* registers it moves, and the CPU's accesses to the registers, which fall *)
(* between any two dots.  What sprite evaluation and drawing find is       *)
(* chosen by \E here and computed in Picture; bus data are left out.       *)
(* OAMADDR and OAMDATA are in IoReg, the countdown of step() in Timekeeper.*)
(*                                                                         *)
(* The picture's geometry is a parameter; the values of the code are in    *)
(* the comments.                                                           *)
(***************************************************************************)
EXTENDS Integers, FiniteSets

CONSTANTS
  Dots,         \* 341: dots in a line
  VisibleLines, \* 240
  VblankLine,   \* 241
  PreRender,    \* 261: the last line
  DrawDots,     \* 256: dots 1..DrawDots draw a pixel
  CopyFirst, CopyLast, \* 280, 304: dots of the vertical copy
  Prefetch,     \* 328: from here on a line fetches for the next
  TileDots,     \* 8
  Cols,         \* 32: values of the coarse x-scroll
  Rows,         \* 30: rows of a nametable
  CoarseRows,   \* 32: values of the coarse y-scroll
  FineRows,     \* 8
  LoSpan,       \* 256: values of the low byte of an address
  OverflowDots, \* 66..176: dots at which a sprite overflow may be due
  CtrlWrites, MaskWrites, ScrollWrites, AddrWrites, \* what the guest writes
  DataAccess    \* whether it uses PPUDATA

(* The bits of PPUMASK that say what is drawn: the two layers, and whether *)
(* each of them is drawn in the leftmost column of tiles too.              *)
MaskBits == {"bg", "sprite", "left_bg", "left_sprite"}

(* The bits of an address register below the fine row's high bit.          *)
AddrBits == 4 * Cols * CoarseRows * (FineRows \div 2)

ASSUME GeometryAssumption ==
  /\ Dots \in Nat /\ VisibleLines \in Nat /\ VblankLine \in Nat /\ PreRender \in Nat
  /\ DrawDots \in Nat /\ CopyFirst \in Nat /\ CopyLast \in Nat /\ Prefetch \in Nat
  /\ 0 < VisibleLines /\ VisibleLines < VblankLine /\ VblankLine < PreRender
  /\ 1 < DrawDots /\ DrawDots + 2 < CopyFirst /\ CopyFirst <= CopyLast
  /\ CopyLast + 2 < Dots /\ DrawDots + 2 < Prefetch
  /\ OverflowDots \subseteq 1..DrawDots

ASSUME AddressAssumption ==
  /\ TileDots \in Nat \ {0} /\ Cols \in Nat \ {0} /\ LoSpan \in Nat \ {0}
  /\ Rows \in Nat \ {0} /\ CoarseRows \in Nat \ {0} /\ Rows <= CoarseRows
  /\ FineRows \in Nat \ {0} /\ FineRows % 2 = 0 /\ AddrBits % LoSpan = 0
  /\ DrawDots % TileDots = 0     \* a line is of whole tiles

ASSUME GuestAssumption ==
  /\ CtrlWrites \subseteq [nt : 0..3, inc : BOOLEAN, nmi : BOOLEAN, tall : BOOLEAN]
  /\ MaskWrites \subseteq SUBSET MaskBits
  /\ ScrollWrites \subseteq [coarse : 0..(CoarseRows - 1), fine : 0..(FineRows - 1)]
  /\ AddrWrites \subseteq [hi : 0..((AddrBits \div LoSpan) - 1), lo : 0..(LoSpan - 1)]
  /\ DataAccess \in BOOLEAN

VARIABLES
  sl, dot, odd,     \* slnum, dotnum, and whether framenum is odd
  vblank, hit, overflow,  \* the bits of PPUSTATUS
  hitDue, overflowDot,    \* sprite0_hit_shouldset, overflow_dotnum (0: none)
  sprite0,          \* <<next_scanline_has_sprite0, scanline_has_sprite0>>
  mask, ctrl,       \* the MaskBits of PPUMASK; inc, nmi_en, spritesize of PPUCTRL
  w, t, v,          \* write_toggle, tmp_vram_addr, vram_addr
  events,           \* what the last operation told the CPU and the screen
  open,             \* FALSE once the window was closed: the process exits
  quiet             \* history: how far the scroll is from a guest's access

status == <<vblank, hit, overflow, hitDue, overflowDot, sprite0>>
vars   == <<sl, dot, odd, status, mask, ctrl, w, t, v, events, open, quiet>>

-----------------------------------------------------------------------------
(* The fields of an address register: coarse x, coarse y, the two          *)
(* nametable bits, the fine row, and the bit 15 that only sums reach.      *)
CoarseX(a) == a % Cols
CoarseY(a) == (a \div Cols) % CoarseRows
NtX(a)     == (a \div (Cols * CoarseRows)) % 2
NtY(a)     == (a \div (2 * Cols * CoarseRows)) % 2
FineY(a)   == (a \div (4 * Cols * CoarseRows)) % FineRows
Top(a)     == a \div (4 * Cols * CoarseRows * FineRows)

Addr(x, y, nx, ny, f, b) ==
  x + Cols * (y + CoarseRows * (nx + 2 * (ny + 2 * (f + FineRows * b))))

Addresses == 0..(4 * AddrBits - 1)

inc_coarse_x(a) ==
  IF CoarseX(a) = Cols - 1
  THEN Addr(0, CoarseY(a), 1 - NtX(a), NtY(a), FineY(a), Top(a))
  ELSE a + 1

(* Mutant: after the last row of a nametable comes the first of the same.  *)
Mutant_IncYKeepsTable(a) ==
  IF FineY(a) # FineRows - 1
  THEN Addr(CoarseX(a), CoarseY(a), NtX(a), NtY(a), FineY(a) + 1, Top(a))
  ELSE Addr(CoarseX(a), IF CoarseY(a) = Rows - 1 THEN 0 ELSE (CoarseY(a) + 1) % CoarseRows,
            NtX(a), NtY(a), 0, Top(a))

inc_y(a) ==
  LET y == CoarseY(a)
      NextRow(row, ny) == Addr(CoarseX(a), row, NtX(a), ny, 0, Top(a))
  IN  CASE FineY(a) # FineRows - 1 -> Addr(CoarseX(a), y, NtX(a), NtY(a), FineY(a) + 1, Top(a))
        [] FineY(a) = FineRows - 1 /\ y = Rows - 1 -> NextRow(0, 1 - NtY(a))
        [] FineY(a) = FineRows - 1 /\ y # Rows - 1 -> NextRow((y + 1) % CoarseRows, NtY(a))

(* The copies from the temporary register: the x part (mask 0x041F), and   *)
(* the y part, whose mask 0x3BE0 leaves the fine row's high bit out.       *)
CopyX(a, b) == Addr(CoarseX(b), CoarseY(a), NtX(b), NtY(a), FineY(a), Top(a))
CopyY(a, b) ==
  LET half == FineRows \div 2
  IN  Addr(CoarseX(a), CoarseY(b), NtX(a), NtY(b),
           half * (FineY(a) \div half) + (FineY(b) % half), Top(a))

Rendering == "bg" \in mask \/ "sprite" \in mask
Outside   == sl >= VisibleLines /\ sl # PreRender     \* neither drawn nor pre-rendered

(* inc_vram_addr_rw, by an access to PPUDATA                               *)
DataIncrement ==
  IF ~Rendering \/ Outside
  THEN (v + IF ctrl.inc THEN Cols ELSE 1) % (4 * AddrBits)
  ELSE inc_y(inc_coarse_x(v))

(* update_vram_addr, at the current dot                                    *)
Scrolled ==
  CASE ~Rendering -> v
    [] Rendering /\ sl < VisibleLines ->
         IF (dot >= Prefetch \/ dot <= DrawDots + 1) /\ dot > 1 /\ (dot - 1) % TileDots = 0
         THEN LET x == inc_coarse_x(v) IN IF dot = DrawDots + 1 THEN inc_y(x) ELSE x
         ELSE IF dot = DrawDots + 2 THEN CopyX(v, t) ELSE v
    [] Rendering /\ sl >= VisibleLines ->
         IF sl = PreRender /\ dot \in CopyFirst..CopyLast THEN CopyY(v, t) ELSE v

-----------------------------------------------------------------------------
(* reset(): the cursor starts at the pre-render line of frame 0.           *)
Init ==
  /\ sl = PreRender /\ dot = 0 /\ odd = FALSE
  /\ vblank = FALSE /\ hit = FALSE /\ overflow = FALSE
  /\ hitDue = FALSE /\ overflowDot = 0 /\ sprite0 = <<FALSE, FALSE>>
  /\ mask = {} /\ ctrl = [inc |-> FALSE, nmi |-> FALSE, tall |-> FALSE]
  /\ w = FALSE /\ t = 0 /\ v = 0
  /\ events = {} /\ open = TRUE /\ quiet = 0

(* Mutants: the flags are cleared a dot late; a frame is presented only    *)
(* when NMIs are enabled.                                                  *)
Mutant_AtClearLate  == sl = PreRender /\ dot = 2
Mutant_AtVblankNmi  == sl = VblankLine /\ dot = 1 /\ ctrl.nmi

AtVblank == sl = VblankLine /\ dot = 1
AtClear  == sl = PreRender /\ dot = 1

(* move_cursor                                                             *)
LineLength == IF sl = PreRender /\ odd THEN Dots - 1 ELSE Dots
(* Mutant: the short line of odd frames is forgotten.                      *)
Mutant_MoveCursorFullLine ==
  IF dot + 1 # Dots
  THEN dot' = dot + 1 /\ UNCHANGED <<sl, odd>>
  ELSE /\ dot' = 0
       /\ sl' = IF sl = PreRender THEN 0 ELSE sl + 1
       /\ odd' = IF sl = PreRender THEN ~odd ELSE odd

MoveCursor ==
  IF dot + 1 # LineLength
  THEN dot' = dot + 1 /\ UNCHANGED <<sl, odd>>
  ELSE /\ dot' = 0
       /\ sl' = IF sl = PreRender THEN 0 ELSE sl + 1
       /\ odd' = IF sl = PreRender THEN ~odd ELSE odd

(* spriteeval, at dot 0 of a visible line: whether sprite 0 is on the next *)
(* line and whether, and where, an overflow is due.                        *)
(* Mutant: sprites are evaluated on every line.                            *)
Mutant_EvaluatingEveryLine == Rendering /\ dot = 0

Evaluating == Rendering /\ dot = 0 /\ sl < VisibleLines

(* draw_pixel: whether an opaque pixel of sprite 0 may meet the background *)
MayHit == /\ {"bg", "sprite"} \subseteq mask /\ sprite0[2]
          /\ dot \in 1..(DrawDots - 1) /\ sl < VisibleLines

(* History: 1 from the start of an undisturbed last visible line, 2 from   *)
(* the end of the undisturbed vertical copy that follows it.               *)
Undisturbed ==
  CASE quiet = 0 /\ Rendering /\ sl = VisibleLines - 1 /\ dot = 0 -> 1
    [] quiet = 1 /\ sl = PreRender /\ dot = CopyLast -> 2
    [] OTHER -> quiet

(* One dot of step().  The events are those of the vblank dot.             *)
Step ==
  /\ open
  /\ events' = IF AtVblank THEN {"present"} \cup {e \in {"nmi"} : ctrl.nmi} ELSE {}
  /\ vblank' = (AtVblank \/ (vblank /\ ~AtClear))
  /\ hit' = ((hit \/ hitDue) /\ ~AtClear)
  /\ overflow' = ((overflow \/ (overflowDot # 0 /\ dot = overflowDot)) /\ ~AtClear)
  /\ w' = (w /\ ~AtClear)
  /\ v' = Scrolled
  /\ IF Evaluating
     THEN /\ \E found \in BOOLEAN : sprite0' = <<found, sprite0[1]>>
          /\ \E d \in OverflowDots \cup {overflowDot} : overflowDot' = d
     ELSE /\ overflowDot' = IF dot = overflowDot THEN 0 ELSE overflowDot
          /\ UNCHANGED sprite0
  /\ \E h \in IF MayHit THEN BOOLEAN ELSE {FALSE} : hitDue' = h
  /\ MoveCursor
  /\ quiet' = Undisturbed
  /\ UNCHANGED <<mask, ctrl, t, open>>

(* present_frame() finds a request to quit and exits the process.          *)
Quit ==
  /\ open /\ AtVblank
  /\ open' = FALSE /\ events' = {}
  /\ UNCHANGED <<sl, dot, odd, status, mask, ctrl, w, t, v, quiet>>

-----------------------------------------------------------------------------
(* The CPU's accesses.                                                     *)
Access == open /\ UNCHANGED <<sl, dot, odd, hit, overflow, hitDue, overflowDot, sprite0, open>>

(* Mutant: reading the status leaves the vblank flag alone.                *)
Mutant_ReadStatusKeeps ==
  /\ Access
  /\ w' = FALSE /\ events' = {}
  /\ UNCHANGED <<vblank, mask, ctrl, t, v, quiet>>

ReadStatus ==
  /\ Access
  /\ vblank' = FALSE /\ w' = FALSE
  /\ events' = {}
  /\ UNCHANGED <<mask, ctrl, t, v, quiet>>

(* A change of nmi_en during vblank, in either direction, raises an NMI.   *)
WriteCtrl(c) ==
  /\ Access
  /\ t' = Addr(CoarseX(t), CoarseY(t), c.nt % 2, c.nt \div 2, FineY(t), Top(t))
  /\ ctrl' = [inc |-> c.inc, nmi |-> c.nmi, tall |-> c.tall]
  /\ events' = {e \in {"nmi"} : c.nmi # ctrl.nmi /\ vblank}
  /\ quiet' = 0
  /\ UNCHANGED <<vblank, mask, w, v>>

WriteMask(m) ==
  /\ Access
  /\ mask' = m
  /\ events' = {} /\ quiet' = 0
  /\ UNCHANGED <<vblank, ctrl, w, t, v>>

(* The fine x-scroll is used by drawing only and left out.                 *)
WriteScroll(s) ==
  /\ Access
  /\ t' = IF ~w
          THEN Addr(s.coarse % Cols, CoarseY(t), NtX(t), NtY(t), FineY(t), Top(t))
          ELSE Addr(CoarseX(t), s.coarse, NtX(t), NtY(t), s.fine, Top(t))
  /\ w' = ~w
  /\ events' = {} /\ quiet' = 0
  /\ UNCHANGED <<vblank, mask, ctrl, v>>

(* The first write replaces bits 8 to 13, the second the low byte.         *)
WriteAddr(b) ==
  /\ Access
  /\ t' = IF ~w
          THEN AddrBits * (t \div AddrBits) + LoSpan * b.hi + (t % LoSpan)
          ELSE LoSpan * (t \div LoSpan) + b.lo
  /\ v' = IF w THEN t' ELSE v
  /\ w' = ~w
  /\ events' = {} /\ quiet' = 0
  /\ UNCHANGED <<vblank, mask, ctrl>>

(* PPUDATA, read or written                                                *)
AccessData ==
  /\ Access /\ DataAccess
  /\ v' = DataIncrement
  /\ events' = {} /\ quiet' = 0
  /\ UNCHANGED <<vblank, mask, ctrl, w, t>>

Guest ==
  \/ ReadStatus
  \/ \E c \in CtrlWrites : WriteCtrl(c)
  \/ \E m \in MaskWrites : WriteMask(m)
  \/ \E s \in ScrollWrites : WriteScroll(s)
  \/ \E b \in AddrWrites : WriteAddr(b)
  \/ AccessData

Next == Step \/ Quit \/ Guest

Spec == Init /\ [][Next]_vars

(* The timekeeper calls step() for every 4 units of the clock that         *)
(* instructions advance: ServesTimers says so of the clock, and in Machine *)
(* this fairness follows from the program's (PpuIsFair).                   *)
FairSpec == Spec /\ WF_vars(Step)

-----------------------------------------------------------------------------
TypeOK ==
  /\ sl \in 0..PreRender /\ odd \in BOOLEAN
  /\ dot \in 0..(LineLength - 1)
  /\ vblank \in BOOLEAN /\ hit \in BOOLEAN /\ overflow \in BOOLEAN
  /\ hitDue \in BOOLEAN /\ overflowDot \in OverflowDots \cup {0}
  /\ sprite0 \in BOOLEAN \X BOOLEAN
  /\ mask \in SUBSET MaskBits
  /\ ctrl \in [inc : BOOLEAN, nmi : BOOLEAN, tall : BOOLEAN]
  /\ w \in BOOLEAN /\ t \in Addresses /\ v \in Addresses
  /\ events \in SUBSET {"nmi", "present"} /\ open \in BOOLEAN /\ quiet \in 0..2

(* The vblank flag is 1 only from the vblank dot to the clearing dot, so   *)
(* a guest that sees it may use video memory; an NMI comes only then.      *)
VblankWindow ==
  vblank => \/ sl = VblankLine /\ dot > 1
            \/ sl > VblankLine /\ sl < PreRender
            \/ sl = PreRender /\ dot <= 1

(* A flag that is due is due on the line that found it: an overflow at a   *)
(* dot that is still to come, a sprite 0 hit at the very next dot.  So the *)
(* clearing of the flags never comes between, and none is left over for    *)
(* another line or frame.                                                  *)
DueOnThisLine ==
  /\ overflowDot # 0 => sl < VisibleLines /\ 0 < dot /\ dot <= overflowDot
  /\ hitDue => sl < VisibleLines /\ 1 < dot /\ dot <= DrawDots

(* A frame is presented again and again until the window is closed,        *)
(* whatever the guest does between dots.                                   *)
FramesForever == []<>("present" \in events \/ ~open)

(* Where the picture is.  In a frame that no access disturbed, line sl     *)
(* shows the row the guest scrolled to plus sl, and the tile fetched is    *)
(* the column scrolled to, plus those fetched ahead, plus those passed on  *)
(* this line; both wrap around the two nametables of their direction.  The *)
(* fine row's high bit is whatever it was: the vertical copy skips it.     *)
Column(a) == CoarseX(a) + Cols * NtX(a)
Row(fine, a) == fine + FineRows * (CoarseY(a) + Rows * NtY(a))
TileSteps(ds) == Cardinality({d \in ds : (d - 1) % TileDots = 0})

ScrollPosition ==
  quiet = 2 /\ sl < VisibleLines /\ dot <= DrawDots + 1 /\ CoarseY(t) < Rows =>
    /\ Column(v) = (Column(t) + TileSteps(Prefetch..(Dots - 1)) + TileSteps(2..(dot - 1)))
                     % (2 * Cols)
    /\ \E high \in 0..1 :
         LET half == FineRows \div 2
         IN  Row(FineY(v), v) = (Row(high * half + (FineY(t) % half), t) + sl)
                                  % (2 * FineRows * Rows)
=============================================================================
