------------------------------ MODULE Picture ------------------------------
(***************************************************************************)
(* What the picture unit draws (emu/nes/ppu.c): the fetches of background  *)
(* and sprite data, the shift registers they are loaded into, the sprite   *)
(* evaluation of the line before, and the pixel of each dot.  The module   *)
(* adds them to the cursor, the flags and the scroll registers of Ppu.     *)
(*                                                                         *)
(* A byte read from video memory is represented by the place it was read   *)
(* from: a cell of the nametables, a block of the attribute tables, a row  *)
(* of the tile that a cell or a sprite names.  So a pixel says where it    *)
(* comes from.  A pixel has a bit in each of two planes and is opaque if   *)
(* one of them is 1; BgBit and SpriteBit say which bits are, by place.     *)
(* What is left out: the palettes' colours, which of two opaque layers is  *)
(* on the screen (behind_bg), and the pattern tables' bases.               *)
(***************************************************************************)
EXTENDS Ppu, Sequences

CONSTANTS
  MaxSprites,   \* 8: sprites on a line
  NSprites,     \* 64: sprites in object memory
  OamImages,    \* what the guest copies there
  BgBit(_, _, _), SpriteBit(_, _, _), \* the bit of a plane, of a tile's row, at a pixel
  AccessPoints, \* bound: the <<line, dot>>s at which the guest acts
  MaxAccesses   \* bound: how often it does

FetchFirst == Prefetch - TileDots + 1         \* 321
FetchLast  == FetchFirst + 2 * TileDots - 1   \* 336
ByteSpan   == 256

Sprites == [y : 0..(ByteSpan - 1), x : 0..(ByteSpan - 1), tile : Nat,
            horiz : BOOLEAN, verti : BOOLEAN]

ASSUME SpriteAssumption ==
  /\ MaxSprites \in Nat \ {0} /\ NSprites \in Nat /\ MaxSprites < NSprites
  /\ FetchFirst = DrawDots + 1 + MaxSprites * TileDots
  /\ OamImages \subseteq [1..NSprites -> Sprites]
  /\ 2 * FineRows <= ByteSpan /\ VisibleLines <= FineRows * Rows  \* no taller than a nametable

(* A tile has room for its four fetches, the fine x-scroll moves within a  *)
(* tile, and a line ends after two tiles of the next and before a third.   *)
ASSUME PipelineAssumption ==
  /\ 8 <= TileDots /\ FineRows <= TileDots
  /\ FetchLast + 1 < Dots /\ Dots <= FetchLast + TileDots + 1

VARIABLES
  fine_xscroll,
  nt_latch, attr_latch, bmp_latch,     \* the bytes fetched last
  bmp_regs, attr_regs, bg_palette,     \* the background's shift registers
  oam, eval_sprites,                   \* object memory; the sprites found
  sprite_regs, sprite_xs,              \* the sprites being drawn
  shown,                               \* the pixel of the last dot
  accesses                             \* bound: those of the guest so far

background == <<nt_latch, attr_latch, bmp_latch, bmp_regs, attr_regs, bg_palette>>
sprites    == <<eval_sprites, sprite_regs, sprite_xs>>
pvars      == <<vars, background, sprites, fine_xscroll, oam, shown, accesses>>

-----------------------------------------------------------------------------
(* Where the address register points: nt_addr and attr_addr.               *)
Cell(a)     == <<Column(a), CoarseY(a) + CoarseRows * NtY(a)>>
Block(a)    == <<NtX(a), NtY(a), CoarseX(a) \div 4, CoarseY(a) \div 4>>
Quadrant(a) == <<(CoarseX(a) \div 2) % 2, (CoarseY(a) \div 2) % 2>>

NoCell    == <<-1, -1>>
BlankRow  == <<NoCell, 0>>
Blank     == <<BlankRow, BlankRow, 0>>    \* the zero bits shifted in
NoPalette == <<<<0, 0, 0, 0>>, <<0, 0>>>>
Empty     == [tile |-> <<-1, FALSE>>, row |-> 0, horiz |-> FALSE, left |-> 0]
Unused    == [y |-> ByteSpan - 1, x |-> ByteSpan - 1, tile |-> -1,
              horiz |-> TRUE, verti |-> TRUE]
NoPlace   == <<<<<<-1, FALSE>>, 0>>, 0>>
NoSprite  == <<NoPlace, NoPlace>>
NothingShown == [x |-> -1, y |-> -1, bg |-> Blank, palette |-> NoPalette, sprite |-> NoSprite]

ASSUME BlankAssumption ==      \* zero bits are transparent
  \A plane \in 1..2 : ~BgBit(plane, BlankRow, 0)

-----------------------------------------------------------------------------
(* memfetch.  A tile takes TileDots dots, its four bytes at every other.   *)
Fetching   == Rendering /\ ~Outside
Slot       == (dot - 1) % TileDots
BgFetch    == Fetching /\ dot \in 1..DrawDots \cup FetchFirst..FetchLast
SpriteFetch == Fetching /\ dot \in (DrawDots + 1)..(FetchFirst - 1)

FetchBackground ==
  /\ nt_latch' = IF BgFetch /\ Slot = 1 THEN Cell(v) ELSE nt_latch
  /\ attr_latch' = IF BgFetch /\ Slot = 3 THEN Block(v) ELSE attr_latch
  /\ bmp_latch' = [plane \in 1..2 |->
       IF BgFetch /\ Slot = (IF plane = 1 THEN 5 ELSE 7)
       THEN <<nt_latch, FineY(v)>> ELSE bmp_latch[plane]]

(* shift_shiftregs, then load_shiftregs: neither asks whether rendering is *)
(* on.  The palette of a tile waits in bg_palette for its pixels' turn.    *)
Shifting == dot \in 2..(DrawDots + 1) \cup (FetchFirst + 1)..(FetchLast + 1)
Loading  == Slot = 0 /\ dot \notin {1, FetchFirst} \cup (DrawDots + 1)..(FetchFirst - 1)

(* Mutant: the palette is chosen by the position after the increment.      *)
Mutant_PaletteOf(a) == <<attr_latch, Quadrant(inc_coarse_x(a))>>
PaletteOf(a) == <<attr_latch, Quadrant(a)>>

ShiftAndLoad ==
  LET bits == IF Shifting THEN Append(Tail(bmp_regs), Blank) ELSE bmp_regs
      Pixel(k) == <<bmp_latch[1], bmp_latch[2], k>>
  IN  /\ bmp_regs' = IF Loading
                     THEN SubSeq(bits, 1, TileDots) \o [k \in 1..TileDots |-> Pixel(k - 1)]
                     ELSE bits
      /\ attr_regs' = IF Shifting THEN Append(Tail(attr_regs), bg_palette) ELSE attr_regs
      /\ bg_palette' = IF Loading THEN PaletteOf(v) ELSE bg_palette

(* spriteeval: the first sprites of object memory that overlap the line,   *)
(* each at its rank among those that do.  A tall sprite is of two tiles.   *)
Height == IF ctrl.tall THEN 2 * FineRows ELSE FineRows
OnLine(s, line) == s.y <= line /\ line < s.y + Height
Found(line) == {n \in 1..NSprites : OnLine(oam[n], line)}
Rank(n, line) == Cardinality({i \in Found(line) : i <= n})
Taken(line) ==
  [k \in {Rank(n, line) : n \in Found(line)} \cap 1..MaxSprites |->
     oam[CHOOSE n \in Found(line) : Rank(n, line) = k]]

(* The sprite after the last one taken is due to overflow, on the line or  *)
(* not: the comparison that should tell is always true.                    *)
Excess(line) ==
  {n \in 1..NSprites : Rank(n - 1, line) = MaxSprites}
OverflowDue(line) ==
  IF Excess(line) = {} THEN overflowDot
  ELSE LET n == CHOOSE n \in Excess(line) : \A o \in Excess(line) : n <= o
       IN  MaxSprites * TileDots + (n - MaxSprites) * 2

EvaluateSprites ==
  IF Evaluating
  THEN /\ eval_sprites' = Taken(sl)
       /\ sprite0'[1] = OnLine(oam[1], sl)
       /\ overflowDot' = OverflowDue(sl)
  ELSE UNCHANGED eval_sprites

(* sprite_memfetch: the row of the sprite is computed from the background's *)
(* position, as an unsigned byte.  A tall sprite names a pair of tiles and *)
(* its rows are counted through both: flipped, they exchange their places, *)
(* and each is read from its end.                                          *)
(* Mutant: the two tiles of a flipped sprite stay where they are.          *)
Offset(a, s) == (CoarseY(a) * FineRows + FineY(a) - 1 - s.y) % ByteSpan
Mutant_OtherTile(half) == half
OtherTile(half) == half + 1 - 2 * (half % 2)
SpriteRow(a, s, tall) ==
  LET offset == Offset(a, s)
  IN  CASE ~s.verti -> offset
        [] s.verti /\ ~tall -> (FineRows - 1 - offset) % ByteSpan
        [] s.verti /\ tall ->
             FineRows * OtherTile(offset \div FineRows) + FineRows - 1 - (offset % FineRows)

FetchedSprite(n) == IF n \in DOMAIN eval_sprites THEN eval_sprites[n] ELSE Unused
Plane(s, n) == IF n \in DOMAIN eval_sprites
               THEN [tile |-> <<s.tile, ctrl.tall>>, row |-> SpriteRow(v, s, ctrl.tall),
                     horiz |-> s.horiz, left |-> TileDots]
               ELSE Empty

(* The pixel of a sprite that its register of a plane has at its end; one  *)
(* that has shifted all of them out is left with zeros.                    *)
SpritePixel(reg) == <<<<reg.tile, reg.row>>,
                      IF reg.horiz THEN reg.left - 1 ELSE TileDots - reg.left>>
OpaqueIn(plane, place) == SpriteBit(plane, place[1], place[2])
SpriteOpaque(n) ==
  \E plane \in 1..2 : LET reg == sprite_regs[n][plane]
                      IN  reg.left > 0 /\ OpaqueIn(plane, SpritePixel(reg))

(* draw_pixel counts the sprites' x-positions down and shifts those that   *)
(* have arrived; of their pixels it takes the first that is opaque.        *)
(* Mutant: the first sprite is taken though its pixel is transparent.      *)
Drawing == Rendering /\ dot \in 1..DrawDots /\ sl < VisibleLines

Arrived(n) == sprite_xs[n] <= 1
Mutant_OnTopOpaque == {n \in 1..MaxSprites : /\ Arrived(n) /\ sprite_regs[n][1].left > 0
                                             /\ \A o \in 1..(n - 1) : ~Arrived(o)}
OnTop == {n \in 1..MaxSprites :
            /\ Arrived(n) /\ SpriteOpaque(n)
            /\ \A o \in 1..(n - 1) : ~(Arrived(o) /\ SpriteOpaque(o))}

FetchAndDrawSprites ==
  LET n == ((dot - DrawDots - 1) \div TileDots) + 1
      s == FetchedSprite(n)
  IN  CASE SpriteFetch /\ Slot = 5 ->
             sprite_regs' = [sprite_regs EXCEPT ![n][1] = Plane(s, n)] /\ UNCHANGED sprite_xs
        [] SpriteFetch /\ Slot = 7 ->
             /\ sprite_regs' = [sprite_regs EXCEPT ![n][2] = Plane(s, n)]
             /\ sprite_xs' = [sprite_xs EXCEPT ![n] = s.x]
        [] Drawing ->
             /\ sprite_xs' = [i \in 1..MaxSprites |-> IF Arrived(i) THEN 0 ELSE sprite_xs[i] - 1]
             /\ sprite_regs' = [i \in 1..MaxSprites |-> [plane \in 1..2 |->
                  LET left == sprite_regs[i][plane].left
                  IN  IF Arrived(i) /\ left > 0
                      THEN [sprite_regs[i][plane] EXCEPT !.left = left - 1]
                      ELSE sprite_regs[i][plane]]]
        [] OTHER -> UNCHANGED <<sprite_regs, sprite_xs>>

(* The pixel of the dot, from the registers as they are now shifted; each  *)
(* layer, and its leftmost column of tiles, has a switch of its own.       *)
(* Mutant: the last pixel of a line raises a hit as well.                  *)
Mutant_MayRaiseHitLast == TRUE

DrawnHere(layer, left) == layer \in mask /\ (left \in mask \/ dot > TileDots)
SpriteShown == DrawnHere("sprite", "left_sprite") /\ OnTop # {}
Opaque(pixel) == \E plane \in 1..2 : BgBit(plane, pixel[plane], pixel[3])
IsSprite0 == 1 \in OnTop /\ sprite0[2]
MayRaiseHit == dot # DrawDots

DrawPixel ==
  /\ shown' =
       IF ~Drawing THEN NothingShown
       ELSE [x |-> dot - 1, y |-> sl,
             bg |-> IF DrawnHere("bg", "left_bg") THEN bmp_regs'[fine_xscroll + 1] ELSE Blank,
             palette |-> attr_regs'[fine_xscroll + 1],
             sprite |-> IF SpriteShown
                        THEN LET regs == sprite_regs[CHOOSE n \in OnTop : TRUE]
                             IN  <<SpritePixel(regs[1]), SpritePixel(regs[2])>>
                        ELSE NoSprite]
  /\ hitDue' = (Drawing /\ SpriteShown /\ IsSprite0 /\ Opaque(shown'.bg) /\ MayRaiseHit)

-----------------------------------------------------------------------------
PictureInit ==
  /\ Init
  /\ fine_xscroll = 0
  /\ nt_latch = NoCell /\ attr_latch = <<0, 0, 0, 0>> /\ bmp_latch = [plane \in 1..2 |-> BlankRow]
  /\ bmp_regs = [k \in 1..(2 * TileDots) |-> Blank]
  /\ attr_regs = [k \in 1..TileDots |-> NoPalette] /\ bg_palette = NoPalette
  /\ oam \in OamImages
  /\ eval_sprites = <<>>
  /\ sprite_regs = [n \in 1..MaxSprites |-> [plane \in 1..2 |-> Empty]]
  /\ sprite_xs = [n \in 1..MaxSprites |-> 0]
  /\ shown = NothingShown /\ accesses = 0

(* One dot of step(): the parts of Ppu's, and what they leave to chance    *)
(* there decided.                                                          *)
PictureStep ==
  /\ Step
  /\ FetchBackground /\ ShiftAndLoad
  /\ EvaluateSprites /\ FetchAndDrawSprites
  /\ DrawPixel
  /\ UNCHANGED <<fine_xscroll, oam, accesses>>

(* An access to a register: a first write to PPUSCROLL sets the fine       *)
(* x-scroll as well.                                                       *)
Bounded == /\ <<sl, dot>> \in AccessPoints
           /\ accesses < MaxAccesses /\ accesses' = accesses + 1

PictureGuest ==
  /\ Bounded
  /\ \/ \E s \in ScrollWrites : /\ WriteScroll(s)
                                /\ fine_xscroll' = IF w THEN fine_xscroll ELSE s.fine
     \/ /\ \/ ReadStatus \/ AccessData
           \/ \E c \in CtrlWrites : WriteCtrl(c)
           \/ \E m \in MaskWrites : WriteMask(m)
           \/ \E b \in AddrWrites : WriteAddr(b)
        /\ UNCHANGED fine_xscroll
  /\ UNCHANGED <<background, sprites, oam, shown>>

(* The guest fills object memory, by OAMDMA or by OAMDATA (see IoReg).     *)
CopyOam ==
  /\ Bounded /\ open
  /\ oam' \in OamImages \ {oam} /\ quiet' = 0
  /\ UNCHANGED <<sl, dot, odd, status, mask, ctrl, w, t, v, events, open,
                 background, sprites, fine_xscroll, shown>>

PictureQuit == Quit /\ UNCHANGED <<background, sprites, fine_xscroll, oam, shown, accesses>>

PictureNext == PictureStep \/ PictureGuest \/ CopyOam \/ PictureQuit

PictureSpec == PictureInit /\ [][PictureNext]_pvars
FairPictureSpec == PictureSpec /\ WF_pvars(PictureStep)

-----------------------------------------------------------------------------
PictureTypeOK ==
  /\ TypeOK
  /\ fine_xscroll \in 0..(TileDots - 1)
  /\ DOMAIN bmp_regs = 1..(2 * TileDots) /\ DOMAIN attr_regs = 1..TileDots
  /\ DOMAIN eval_sprites \subseteq 1..MaxSprites
  /\ sprite_xs \in [1..MaxSprites -> 0..(ByteSpan - 1)]
  /\ \A n \in 1..MaxSprites, plane \in 1..2 : sprite_regs[n][plane].left \in 0..TileDots

(* What drawing finds, is what Ppu allows: a step of the picture is one of *)
(* Ppu's, so the flags and the cursor never wait for a pixel.              *)
StepAllowed == open => ENABLED PictureStep

(* Each pixel of the background is the picture's pixel there: the one at   *)
(* the scroll position plus the pixel's own, of the tile and the palette   *)
(* that belong to that cell -- through a pipeline that fetched it up to    *)
(* sixteen pixels earlier, partly on the line before, while the address    *)
(* moved on.  The first line is excepted: the pre-render line fetches its  *)
(* first two tiles without moving the address.  The high bit of the fine   *)
(* row is whatever it was (ScrollPosition).  The leftmost column of tiles  *)
(* is drawn if its switch is on.                                           *)
PixelOf(column, row, k) ==
  LET ny == row \div (FineRows * Rows)
      y  == (row \div FineRows) % Rows
      bits == <<<<column, y + CoarseRows * ny>>, row % FineRows>>
  IN  [bg |-> <<bits, bits, k>>,
       palette |-> << <<column \div Cols, ny, (column % Cols) \div 4, y \div 4>>,
                      <<((column % Cols) \div 2) % 2, (y \div 2) % 2>> >>]

ScreenPixel(high) ==
  LET x == fine_xscroll + shown.x
      half == FineRows \div 2
      row == Row(high * half + (FineY(t) % half), t) + shown.y
  IN  PixelOf((Column(t) + (x \div TileDots)) % (2 * Cols),
              row % (2 * FineRows * Rows), x % TileDots)

ShownHere(layer, left) == layer \in mask /\ (left \in mask \/ shown.x >= TileDots)

BackgroundPixel ==
  quiet = 2 /\ shown.y > 0 /\ ShownHere("bg", "left_bg") /\ CoarseY(t) < Rows =>
    \E high \in 0..1 : /\ shown.bg = ScreenPixel(high).bg
                       /\ shown.palette = ScreenPixel(high).palette

(* On a line below the first, and where the picture is not scrolled        *)
(* vertically, the sprite shown at a pixel is the first of object memory   *)
(* among the MaxSprites first on its line that covers the pixel with an    *)
(* opaque pixel of its own, and that is the pixel shown: of the row that   *)
(* belongs to the line, in a sprite of one tile or two, flipped or not.  A *)
(* sprite at x covers the TileDots pixels from x - 1 on: its position is   *)
(* counted down once before its first dot.                                 *)
Preceding(line) == IF line = 0 THEN VisibleLines - 1 ELSE line - 1
Left(s) == IF s.x = 0 THEN 0 ELSE s.x - 1
Covers(s) == shown.x - Left(s) \in 0..(TileDots - 1)
OwnPixel(s) ==
  LET row == shown.y - 1 - s.y
      k == shown.x - Left(s)
  IN  <<<<<<s.tile, ctrl.tall>>, IF s.verti THEN Height - 1 - row ELSE row>>,
        IF s.horiz THEN TileDots - 1 - k ELSE k>>
OwnOpaque(s) == \E plane \in 1..2 : OpaqueIn(plane, OwnPixel(s))
OnPreceding == Taken(Preceding(shown.y))
Covering == {n \in DOMAIN OnPreceding : Covers(OnPreceding[n]) /\ OwnOpaque(OnPreceding[n])}
Unscrolled == shown.y > 0 /\ Row(FineY(v), v) = shown.y

SpriteOnItsLines ==
  quiet = 2 /\ Unscrolled /\ ShownHere("sprite", "left_sprite") =>
    IF Covering = {} THEN shown.sprite = NoSprite
    ELSE \E n \in Covering :
           /\ \A o \in Covering : n <= o
           /\ shown.sprite = <<OwnPixel(OnPreceding[n]), OwnPixel(OnPreceding[n])>>

(* In an undisturbed frame a hit is due only when sprite 0 was found on    *)
(* the line before, covers the pixel just drawn where sprites are drawn,   *)
(* and meets an opaque one of the background that is not the last of its   *)
(* line; and where the picture is not scrolled vertically, exactly when    *)
(* the pixel it covers this one with is opaque as well.  So the two flags  *)
(* that travel a line behind the evaluation and the sprite in the first    *)
(* register are always those of the same line.  The line before the first  *)
(* is the last visible one of the frame before.                            *)
Sprite0Hit ==
  quiet = 2 /\ shown # NothingShown =>
    LET Meets == /\ OnLine(oam[1], Preceding(shown.y)) /\ Covers(oam[1])
                 /\ ShownHere("sprite", "left_sprite")
                 /\ Opaque(shown.bg) /\ shown.x < DrawDots - 1
    IN  /\ hitDue => Meets
        /\ Unscrolled => (hitDue <=> Meets /\ OwnOpaque(oam[1]))
=============================================================================
