---------------------------- MODULE PictureProofs ----------------------------
(***************************************************************************)
(* That the pipelines of Picture show the picture: what the latches and    *)
(* the shift registers of the background hold at every dot of an           *)
(* undisturbed frame (Pipe), on top of where the address register is then  *)
(* (SInv of PpuProofs), and so which pixel each dot draws                  *)
(* (BackgroundPixel); which sprites were found, what their registers hold  *)
(* at every dot of the line after (Evaluated, Fetched, Ready), and so      *)
(* which of them each dot shows and when it hits (SpriteOnItsLines,        *)
(* Sprite0Hit).                                                            *)
(***************************************************************************)
EXTENDS Picture, PpuProofs, SequenceTheorems

LEMMA TileSizes ==
  /\ TileDots \in Nat \ {0} /\ 8 <= TileDots /\ FineRows <= TileDots
  /\ Dots \in Nat /\ VisibleLines \in Nat /\ DrawDots \in Nat /\ MaxSprites \in Nat \ {0}
  /\ FetchFirst \in Nat /\ FetchLast \in Nat /\ Prefetch \in Nat
  /\ FetchFirst = DrawDots + 1 + MaxSprites * TileDots /\ DrawDots + 2 < FetchFirst
  /\ Prefetch = FetchFirst + TileDots - 1 /\ FetchLast = FetchFirst + 2 * TileDots - 1
  /\ FetchLast + 1 < Dots /\ Dots <= FetchLast + TileDots + 1 /\ 1 < DrawDots
<1> DEFINE p == MaxSprites * TileDots
<1>1. /\ TileDots \in Nat \ {0} /\ 8 <= TileDots /\ FineRows <= TileDots
      /\ MaxSprites \in Nat \ {0} /\ DrawDots \in Nat /\ Dots \in Nat /\ Prefetch \in Nat
      /\ VisibleLines \in Nat /\ 1 < DrawDots
  BY PipelineAssumption, SpriteAssumption, AddressAssumption, Dimensions
<1>2. p \in Nat /\ TileDots <= p
  <2>1. 1 * TileDots <= MaxSprites * TileDots /\ MaxSprites * TileDots \in Nat
    BY <1>1, TimesMonotone
  <2> QED
    BY <1>1, <2>1
<1>3. FetchFirst = DrawDots + 1 + p
  BY SpriteAssumption
<1> HIDE DEF p
<1>4. Prefetch = FetchFirst + TileDots - 1 /\ FetchLast = FetchFirst + 2 * TileDots - 1
  <2>1. FetchFirst = Prefetch - TileDots + 1
    BY DEF FetchFirst
  <2> QED
    BY <1>1, <1>2, <1>3, <2>1 DEF FetchLast
<1>5. FetchLast + 1 < Dots /\ Dots <= FetchLast + TileDots + 1
  BY PipelineAssumption
<1>6. FetchFirst \in Nat /\ FetchLast \in Nat /\ DrawDots + 2 < FetchFirst
  BY <1>1, <1>2, <1>3, <1>4
<1> QED
  BY <1>1, <1>3, <1>4, <1>5, <1>6 DEF p

(* The dots of a tile have the same slots wherever the tile begins.        *)
LEMMA SlotOfTile ==
  ASSUME NEW d \in Nat \ {0}, NEW x \in Nat, NEW q \in Nat
  PROVE  (x + d * q) % d = x % d
<1> DEFINE r == x % d
           p == x \div d
<1>1. r \in 0..(d - 1) /\ p \in Nat /\ x = r + d * p
  BY QuotientTimes
<1> HIDE DEF r, p
<1>2. x + d * q = r + d * (p + q)
  <2>1. d * (p + q) = d * p + d * q /\ d * p \in Nat /\ d * q \in Nat
    BY <1>1
  <2> DEFINE a == d * p
             b == d * q
             c == d * (p + q)
  <2>2. c = a + b /\ a \in Nat /\ b \in Nat /\ x = r + a
    BY <1>1, <2>1
  <2> HIDE DEF a, b, c
  <2>3. x + b = r + c
    BY <1>1, <2>2
  <2> QED
    BY <2>3 DEF b, c
<1>3. (r + d * (p + q)) % d = r
  BY <1>1, DigitRemains
<1> QED
  BY <1>2, <1>3 DEF r

LEMMA NextQuotient ==
  ASSUME NEW d \in Nat \ {0}, NEW x \in Nat
  PROVE  /\ (x + 1) % d = 0 => (x + 1) \div d = (x \div d) + 1 /\ x + 1 = d * ((x \div d) + 1)
         /\ (x + 1) % d # 0 => (x + 1) \div d = x \div d
<1> DEFINE q == x \div d
           r == x % d
           y == x + 1
<1>1. q \in Nat /\ r \in 0..(d - 1) /\ x = r + d * q
  BY QuotientTimes
<1>2. y % d = IF r = d - 1 THEN 0 ELSE r + 1
  BY NextDigit
<1> HIDE DEF q, r
<1>3. ASSUME y % d = 0 PROVE y \div d = q + 1 /\ y = d * (q + 1)
  <2>1. r = d - 1
    BY <1>1, <1>2, <1>3
  <2>2. d * (q + 1) = d * q + d /\ d * q \in Nat
    BY <1>1
  <2> DEFINE a == d * q
             b == d * (q + 1)
  <2>3. b = a + d /\ a \in Nat /\ x = r + a
    BY <1>1, <2>2
  <2> HIDE DEF a, b
  <2>4. y = 0 + b
    BY <1>1, <2>1, <2>3
  <2>5. (0 + b) \div d = q + 1
    <3>1. 0 \in 0..(d - 1) /\ q + 1 \in Nat
      BY <1>1
    <3>2. (0 + d * (q + 1)) \div d = q + 1
      BY <3>1, DigitIs
    <3> QED
      BY <3>2 DEF b
  <2>6. 0 + b = b
    BY <2>3
  <2>7. y = b
    BY <2>4, <2>6
  <2> HIDE DEF y
  <2> QED
    BY <2>4, <2>5, <2>7 DEF b
<1>4. ASSUME y % d # 0 PROVE y \div d = q
  <2>1. r # d - 1
    BY <1>2, <1>4
  <2>2. r + 1 \in 0..(d - 1)
    BY <1>1, <2>1
  <2>3. ((r + 1) + d * q) \div d = q
    BY <1>1, <2>2, DigitIs
  <2> DEFINE a == d * q
  <2>4. a \in Nat /\ x = r + a
    BY <1>1
  <2>5. y = (r + 1) + a
    <3> HIDE DEF a
    <3> QED
      BY <1>1, <2>4
  <2> QED
    BY <2>3, <2>5
<1> QED
  BY <1>3, <1>4 DEF q

(* A shift register, shifted by one and loaded                             *)
LEMMA ShiftSequence ==
  ASSUME NEW S, NEW s \in Seq(S), NEW m \in Nat \ {0}, Len(s) = m, NEW e \in S
  PROVE  /\ Append(Tail(s), e) \in Seq(S) /\ Len(Append(Tail(s), e)) = m
         /\ \A i \in 1..(m - 1) : Append(Tail(s), e)[i] = s[i + 1]
         /\ Append(Tail(s), e)[m] = e
<1> DEFINE u == Tail(s)
<1>1. s # <<>>
  <2>1. s = <<>> => Len(s) = 0
    OBVIOUS
  <2> QED
    BY <2>1
<1>2. u \in Seq(S) /\ Len(u) = m - 1 /\ \A i \in 1..Len(u) : u[i] = s[i + 1]
  BY <1>1, HeadTailProperties
<1> HIDE DEF u
<1>3. /\ Append(u, e) \in Seq(S) /\ Len(Append(u, e)) = Len(u) + 1
      /\ \A i \in 1..Len(u) : Append(u, e)[i] = u[i]
      /\ Append(u, e)[Len(u) + 1] = e
  BY <1>2, AppendProperties
<1>4. Len(u) + 1 = m
  BY <1>2
<1> QED
  BY <1>2, <1>3, <1>4 DEF u

LEMMA LoadSequence ==
  ASSUME NEW S, NEW s \in Seq(S), NEW m \in Nat \ {0}, Len(s) = 2 * m,
         NEW g \in [1..m -> S]
  PROVE  /\ SubSeq(s, 1, m) \o g \in Seq(S) /\ Len(SubSeq(s, 1, m) \o g) = 2 * m
         /\ \A i \in 1..m : (SubSeq(s, 1, m) \o g)[i] = s[i]
         /\ \A i \in 1..m : (SubSeq(s, 1, m) \o g)[m + i] = g[i]
<1> DEFINE u == SubSeq(s, 1, m)
<1>1. \A i \in 1..m : s[i] \in S
  OBVIOUS
<1>2. u \in Seq(S) /\ Len(u) = m /\ \A i \in 1..m : u[i] = s[i]
  <2>1. /\ u \in Seq(S) /\ Len(u) = IF 1 <= m THEN m - 1 + 1 ELSE 0
        /\ \A i \in 1..(m - 1 + 1) : u[i] = s[1 + i - 1]
    BY <1>1, SubSeqProperties
  <2> HIDE DEF u
  <2>2. m - 1 + 1 = m /\ 1 <= m /\ \A i \in 1..m : 1 + i - 1 = i
    OBVIOUS
  <2> QED
    BY <2>1, <2>2
<1>3. g \in Seq(S) /\ Len(g) = m
  OBVIOUS
<1> HIDE DEF u
<1>4. /\ u \o g \in Seq(S) /\ Len(u \o g) = Len(u) + Len(g)
      /\ \A i \in 1..(Len(u) + Len(g)) : (u \o g)[i] = IF i <= Len(u) THEN u[i] ELSE g[i - Len(u)]
  BY <1>2, <1>3, ConcatProperties
<1>5. \A i \in 1..m : (u \o g)[i] = s[i]
  BY <1>2, <1>3, <1>4
<1>6. \A i \in 1..m : (u \o g)[m + i] = g[i]
  <2> SUFFICES ASSUME NEW i \in 1..m PROVE (u \o g)[m + i] = g[i]
    OBVIOUS
  <2>1. m + i \in 1..(Len(u) + Len(g)) /\ ~(m + i <= Len(u)) /\ m + i - Len(u) = i
    BY <1>2, <1>3
  <2> QED
    BY <1>4, <2>1
<1>7. Len(u \o g) = 2 * m
  BY <1>2, <1>3, <1>4
<1> QED
  BY <1>4, <1>5, <1>6, <1>7 DEF u

-----------------------------------------------------------------------------
(* What the latches and the shift registers hold                           *)
Cells    == Int \X Int
BmpRows  == Cells \X Int
Pixels   == BmpRows \X BmpRows \X Int
Blocks   == Int \X Int \X Int \X Int
Palettes == Blocks \X (Int \X Int)

PipeTypes ==
  /\ nt_latch \in Cells /\ attr_latch \in Blocks /\ bmp_latch \in [1..2 -> BmpRows]
  /\ bmp_regs \in Seq(Pixels) /\ Len(bmp_regs) = 2 * TileDots
  /\ attr_regs \in Seq(Palettes) /\ Len(attr_regs) = TileDots
  /\ bg_palette \in Palettes /\ fine_xscroll \in 0..(TileDots - 1)

LEMMA PlaceTypes ==
  ASSUME NEW a \in Nat
  PROVE  /\ Cell(a) \in Cells /\ Block(a) \in Blocks /\ Quadrant(a) \in Int \X Int
         /\ FineY(a) \in Int
<1>1. /\ CoarseX(a) \in Nat /\ CoarseY(a) \in Nat /\ NtX(a) \in Nat /\ NtY(a) \in Nat
      /\ FineY(a) \in Nat /\ CoarseRows \in Nat
  BY FieldRanges, FieldSizes
<1>2. Column(a) \in Int
  <2>1. Column(a) \in 0..(2 * Cols - 1)
    BY ColumnRange
  <2> QED
    BY <2>1
<1>3. CoarseY(a) + CoarseRows * NtY(a) \in Int
  <2>1. \A x, y, z \in Nat : x + y * z \in Int
    OBVIOUS
  <2> QED
    BY <1>1, <2>1
<1>4. \A x \in Nat : x \div 4 \in Int /\ (x \div 2) % 2 \in Int
  OBVIOUS
<1> QED
  BY <1>1, <1>2, <1>3, <1>4 DEF Cell, Block, Quadrant, Cells, Blocks

LEMMA BlankTypes ==
  Blank \in Pixels /\ NoPalette \in Palettes /\ NoCell \in Cells /\ BlankRow \in BmpRows
BY DEF Blank, NoPalette, NoCell, BlankRow, Pixels, Palettes, Cells, BmpRows, Blocks

LEMMA PipeTypesInit == PictureInit => PipeTypes
<1> SUFFICES ASSUME PictureInit PROVE PipeTypes
  OBVIOUS
<1>1. TileDots \in Nat \ {0}
  BY TileSizes
<1>2. bmp_regs \in Seq(Pixels) /\ Len(bmp_regs) = 2 * TileDots
  <2>1. bmp_regs = [k \in 1..(2 * TileDots) |-> Blank] /\ 2 * TileDots \in Nat
    BY <1>1 DEF PictureInit
  <2>2. Blank \in Pixels
    BY BlankTypes
  <2> HIDE DEF Pixels, Blank
  <2> QED
    BY <2>1, <2>2
<1>3. attr_regs \in Seq(Palettes) /\ Len(attr_regs) = TileDots
  <2>1. attr_regs = [k \in 1..TileDots |-> NoPalette]
    BY DEF PictureInit
  <2>2. NoPalette \in Palettes
    BY BlankTypes
  <2> QED
    BY <1>1, <2>1, <2>2
<1>4. nt_latch \in Cells /\ bmp_latch \in [1..2 -> BmpRows] /\ bg_palette \in Palettes
  BY BlankTypes DEF PictureInit
<1>5. attr_latch \in Blocks /\ fine_xscroll \in 0..(TileDots - 1)
  BY <1>1 DEF PictureInit, Blocks
<1> QED
  BY <1>2, <1>3, <1>4, <1>5 DEF PipeTypes

(* One dot shifts and loads the registers as follows.                      *)
Shifted == IF Shifting THEN Append(Tail(bmp_regs), Blank) ELSE bmp_regs
Fresh   == [k \in 1..TileDots |-> <<bmp_latch[1], bmp_latch[2], k - 1>>]

LEMMA ShiftTypes ==
  ASSUME PipeTypes, ShiftAndLoad
  PROVE  /\ Shifted \in Seq(Pixels) /\ Len(Shifted) = 2 * TileDots
         /\ Fresh \in [1..TileDots -> Pixels]
         /\ bmp_regs' = IF Loading THEN SubSeq(Shifted, 1, TileDots) \o Fresh ELSE Shifted
<1>1. TileDots \in Nat \ {0} /\ 2 * TileDots \in Nat \ {0}
  BY TileSizes
<1>2. bmp_regs \in Seq(Pixels) /\ Len(bmp_regs) = 2 * TileDots /\ Blank \in Pixels
  BY BlankTypes DEF PipeTypes
<1>3. Shifted \in Seq(Pixels) /\ Len(Shifted) = 2 * TileDots
  <2>1. CASE Shifting
    BY <1>1, <1>2, <2>1, ShiftSequence DEF Shifted
  <2>2. CASE ~Shifting
    BY <1>2, <2>2 DEF Shifted
  <2> QED
    BY <2>1, <2>2
<1>4. Fresh \in [1..TileDots -> Pixels]
  <2>1. bmp_latch[1] \in BmpRows /\ bmp_latch[2] \in BmpRows
    BY DEF PipeTypes
  <2>2. \A k \in 1..TileDots : <<bmp_latch[1], bmp_latch[2], k - 1>> \in Pixels
    BY <1>1, <2>1 DEF Pixels
  <2> QED
    BY <2>2 DEF Fresh
<1>5. bmp_regs' = IF Loading THEN SubSeq(Shifted, 1, TileDots) \o Fresh ELSE Shifted
  BY DEF ShiftAndLoad, Shifted, Fresh
<1> QED
  BY <1>3, <1>4, <1>5

LEMMA StepPipeTypes ==
  ASSUME PipeTypes, PictureStep, v \in Nat
  PROVE  PipeTypes'
<1>1. FetchBackground /\ ShiftAndLoad /\ fine_xscroll' = fine_xscroll
  BY DEF PictureStep
<1>2. TileDots \in Nat \ {0} /\ 2 * TileDots \in Nat \ {0}
  BY TileSizes
<1>3. /\ nt_latch \in Cells /\ attr_latch \in Blocks /\ bmp_latch \in [1..2 -> BmpRows]
      /\ bg_palette \in Palettes /\ fine_xscroll \in 0..(TileDots - 1)
      /\ attr_regs \in Seq(Palettes) /\ Len(attr_regs) = TileDots
  BY DEF PipeTypes
<1>4. /\ Cell(v) \in Cells /\ Block(v) \in Blocks /\ Quadrant(v) \in Int \X Int
      /\ FineY(v) \in Int
  BY PlaceTypes
<1>5. nt_latch' \in Cells /\ attr_latch' \in Blocks
  BY <1>1, <1>3, <1>4 DEF FetchBackground
<1>6. bmp_latch' \in [1..2 -> BmpRows]
  <2>1. <<nt_latch, FineY(v)>> \in BmpRows
    BY <1>3, <1>4 DEF BmpRows
  <2>2. bmp_latch' = [plane \in 1..2 |->
          IF BgFetch /\ Slot = (IF plane = 1 THEN 5 ELSE 7)
          THEN <<nt_latch, FineY(v)>> ELSE bmp_latch[plane]]
    BY <1>1 DEF FetchBackground
  <2>3. \A plane \in 1..2 : bmp_latch[plane] \in BmpRows
    BY <1>3
  <2> QED
    BY <2>1, <2>2, <2>3, Zenon
<1>7. bmp_regs' \in Seq(Pixels) /\ Len(bmp_regs') = 2 * TileDots
  <2>1. /\ Shifted \in Seq(Pixels) /\ Len(Shifted) = 2 * TileDots
        /\ Fresh \in [1..TileDots -> Pixels]
        /\ bmp_regs' = IF Loading THEN SubSeq(Shifted, 1, TileDots) \o Fresh ELSE Shifted
    BY <1>1, ShiftTypes
  <2>2. /\ SubSeq(Shifted, 1, TileDots) \o Fresh \in Seq(Pixels)
        /\ Len(SubSeq(Shifted, 1, TileDots) \o Fresh) = 2 * TileDots
    BY <1>2, <2>1, LoadSequence
  <2> QED
    BY <2>1, <2>2
<1>8. attr_regs' \in Seq(Palettes) /\ Len(attr_regs') = TileDots
  <2>1. attr_regs' = IF Shifting THEN Append(Tail(attr_regs), bg_palette) ELSE attr_regs
    BY <1>1 DEF ShiftAndLoad
  <2>2. /\ Append(Tail(attr_regs), bg_palette) \in Seq(Palettes)
        /\ Len(Append(Tail(attr_regs), bg_palette)) = TileDots
    BY <1>2, <1>3, ShiftSequence
  <2> QED
    BY <1>3, <2>1, <2>2
<1>9. bg_palette' \in Palettes
  <2>1. PaletteOf(v) \in Palettes
    BY <1>3, <1>4 DEF PaletteOf, Palettes
  <2> QED
    BY <1>1, <1>3, <2>1 DEF ShiftAndLoad
<1> QED
  BY <1>1, <1>3, <1>5, <1>6, <1>7, <1>8, <1>9 DEF PipeTypes

-----------------------------------------------------------------------------
(* The picture of the line on which the address register is a, when the    *)
(* guest scrolled to c: the column of its tile m, that tile's row and      *)
(* palette, and its pixel x.                                               *)
ColumnOf(m, c) == (Column(c) + m) % (2 * Cols)
TileBits(m, a, c) == <<<<ColumnOf(m, c), CoarseY(a) + CoarseRows * NtY(a)>>, FineY(a)>>
TilePalette(m, a, c) ==
  <<<<ColumnOf(m, c) \div Cols, NtY(a), (ColumnOf(m, c) % Cols) \div 4, CoarseY(a) \div 4>>,
    <<((ColumnOf(m, c) % Cols) \div 2) % 2, (CoarseY(a) \div 2) % 2>>>>
LinePixel(x, a, c) ==
  <<TileBits(x \div TileDots, a, c), TileBits(x \div TileDots, a, c), x % TileDots>>

(* The pipeline when e dots have passed since the first tile of a line was *)
(* begun: the register at k holds pixel k - 1 + e - 2 * TileDots of the    *)
(* line, if its tile was loaded and it was not shifted out; the palettes   *)
(* are TileDots ahead of their registers' first pixel; and what the        *)
(* latches hold of the tile that is fetched depends on the slot.           *)
PixelAt(k, e) == k - 1 + e - 2 * TileDots

PixelsHeld(e, a, c, regs) ==
  \A k \in 1..(2 * TileDots) :
    PixelAt(k, e) \in 0..(TileDots * (e \div TileDots) - 1)
      => regs[k] = LinePixel(PixelAt(k, e), a, c)

PalettesHeld(e, a, c, regs, last) ==
  /\ \A k \in 1..TileDots :
       PixelAt(k, e) >= 0 => regs[k] = TilePalette(PixelAt(k, e) \div TileDots, a, c)
  /\ e \div TileDots >= 1 => last = TilePalette((e \div TileDots) - 1, a, c)

TileFetched(s, a, nt, attr, bmp) ==
  /\ s = 0 \/ s >= 2 => nt = Cell(a)
  /\ s = 0 \/ s >= 4 => attr = Block(a)
  /\ s = 0 \/ s >= 6 => bmp[1] = <<Cell(a), FineY(a)>>
  /\ s = 0 \/ s >= 8 => bmp[2] = <<Cell(a), FineY(a)>>

LEMMA SameLine ==
  ASSUME NEW a, NEW b, NEW c, SameRow(b, a)
  PROVE  /\ \A m : /\ TileBits(m, b, c) = TileBits(m, a, c)
                  /\ TilePalette(m, b, c) = TilePalette(m, a, c)
         /\ \A x : LinePixel(x, b, c) = LinePixel(x, a, c)
<1>1. \A m : TileBits(m, b, c) = TileBits(m, a, c)
  BY DEF SameRow, TileBits
<1>2. \A m : TilePalette(m, b, c) = TilePalette(m, a, c)
  BY DEF SameRow, TilePalette
<1> QED
  BY <1>1, <1>2, Zenon DEF LinePixel

(* The tile that the address register points to                            *)
LEMMA TileAt ==
  ASSUME NEW a \in Nat, NEW c, NEW n, ColumnIs(a, c, n)
  PROVE  /\ TileBits(n, a, c) = <<Cell(a), FineY(a)>>
         /\ TilePalette(n, a, c) = <<Block(a), Quadrant(a)>>
<1>1. ColumnOf(n, c) = Column(a)
  BY DEF ColumnIs, ColumnOf
<1>2. Column(a) \div Cols = NtX(a) /\ Column(a) % Cols = CoarseX(a)
  <2> DEFINE x == CoarseX(a)
             nx == NtX(a)
  <2>1. x \in 0..(Cols - 1) /\ nx \in Nat /\ Cols \in Nat \ {0}
    BY FieldRanges, FieldSizes
  <2> HIDE DEF x, nx
  <2>2. (x + Cols * nx) \div Cols = nx /\ (x + Cols * nx) % Cols = x
    BY <2>1, DigitIs, DigitRemains
  <2> QED
    BY <2>2 DEF Column, x, nx
<1>3. TileBits(n, a, c) = <<Cell(a), FineY(a)>>
  BY <1>1 DEF TileBits, Cell
<1>4. TilePalette(n, a, c) = <<Block(a), Quadrant(a)>>
  BY <1>1, <1>2 DEF TilePalette, Block, Quadrant
<1> QED
  BY <1>3, <1>4

(* The tiles and pixels behind e                                           *)
LEMMA TileCount ==
  ASSUME NEW e \in Nat
  PROVE  /\ e \div TileDots \in Nat
         /\ TileDots * (e \div TileDots) \in Nat
         /\ TileDots * (e \div TileDots) <= e
         /\ e < TileDots * (e \div TileDots) + TileDots
         /\ TileDots * ((e \div TileDots) + 1) = TileDots * (e \div TileDots) + TileDots
<1>1. TileDots \in Nat \ {0}
  BY TileSizes
<1> DEFINE q == e \div TileDots
<1>2. q \in Nat /\ q * TileDots <= e /\ e < q * TileDots + TileDots
  BY <1>1, QuotientTimes
<1> HIDE DEF q
<1>3. q * TileDots = TileDots * q /\ TileDots * q \in Nat
      /\ TileDots * (q + 1) = TileDots * q + TileDots
  BY <1>1, <1>2
<1> QED
  BY <1>2, <1>3 DEF q

(* The pixel TileDots behind e is of the tile before the one begun.        *)
LEMMA TileBehind ==
  ASSUME NEW e \in Nat, e - TileDots >= 0
  PROVE  e \div TileDots >= 1 /\ (e - TileDots) \div TileDots = (e \div TileDots) - 1
<1> DEFINE n == e \div TileDots
           p == TileDots * n
           m == n - 1
<1>1. TileDots \in Nat \ {0}
  BY TileSizes
<1>2. n \in Nat /\ p \in Nat /\ p <= e /\ e < p + TileDots
  BY TileCount
<1>3. n >= 1
  <2>1. n = 0 => p = 0
    BY <1>1
  <2> HIDE DEF n, p
  <2> QED
    BY <1>1, <1>2, <2>1
<1>4. m \in Nat /\ m * TileDots = p - TileDots
  <2> HIDE DEF n
  <2>1. m \in Nat
    BY <1>2, <1>3
  <2>2. (n - 1) * TileDots = TileDots * n - TileDots
    BY <1>1, <1>2
  <2> QED
    BY <2>1, <2>2
<1> HIDE DEF n, p, m
<1>5. e - TileDots \in Nat /\ m * TileDots <= e - TileDots /\ e - TileDots < m * TileDots + TileDots
  BY <1>1, <1>2, <1>4
<1>6. (e - TileDots) \div TileDots = m
  BY <1>1, <1>4, <1>5, QuotientIs
<1> QED
  BY <1>3, <1>6 DEF n, m

LEMMA PalettesShift ==
  ASSUME NEW e \in Nat, NEW a, NEW c, NEW regs \in Seq(Palettes), Len(regs) = TileDots,
         NEW last \in Palettes, PalettesHeld(e, a, c, regs, last)
  PROVE  \A k \in 1..TileDots : PixelAt(k, e + 1) >= 0 =>
           Append(Tail(regs), last)[k] = TilePalette(PixelAt(k, e + 1) \div TileDots, a, c)
<1> SUFFICES ASSUME NEW k \in 1..TileDots, PixelAt(k, e + 1) >= 0
             PROVE  Append(Tail(regs), last)[k] = TilePalette(PixelAt(k, e + 1) \div TileDots, a, c)
  OBVIOUS
<1>1. TileDots \in Nat \ {0}
  BY TileSizes
<1>2. /\ \A i \in 1..(TileDots - 1) : Append(Tail(regs), last)[i] = regs[i + 1]
      /\ Append(Tail(regs), last)[TileDots] = last
  BY <1>1, ShiftSequence
<1>3. CASE k # TileDots
  <2>1. k \in 1..(TileDots - 1) /\ k + 1 \in 1..TileDots
    BY <1>1, <1>3
  <2>2. PixelAt(k + 1, e) = PixelAt(k, e + 1)
    BY <1>1, <2>1 DEF PixelAt
  <2>3. regs[k + 1] = TilePalette(PixelAt(k + 1, e) \div TileDots, a, c)
    BY <2>1, <2>2 DEF PalettesHeld
  <2> QED
    BY <1>2, <2>1, <2>2, <2>3
<1>4. CASE k = TileDots
  <2>1. PixelAt(k, e + 1) = e - TileDots
    BY <1>1, <1>4 DEF PixelAt
  <2>2. e \div TileDots >= 1 /\ (e - TileDots) \div TileDots = (e \div TileDots) - 1
    BY <2>1, TileBehind
  <2>3. last = TilePalette((e \div TileDots) - 1, a, c)
    BY <2>2 DEF PalettesHeld
  <2> QED
    BY <1>2, <1>4, <2>1, <2>2, <2>3
<1> QED
  BY <1>3, <1>4

LEMMA PixelsShift ==
  ASSUME NEW e \in Nat, NEW a, NEW c, NEW regs \in Seq(Pixels), Len(regs) = 2 * TileDots,
         PixelsHeld(e, a, c, regs), NEW last \in Pixels
  PROVE  \A k \in 1..(2 * TileDots) :
           PixelAt(k, e + 1) \in 0..(TileDots * (e \div TileDots) - 1)
             => Append(Tail(regs), last)[k] = LinePixel(PixelAt(k, e + 1), a, c)
<1> DEFINE p == TileDots * (e \div TileDots)
<1> SUFFICES ASSUME NEW k \in 1..(2 * TileDots), PixelAt(k, e + 1) \in 0..(p - 1)
             PROVE  Append(Tail(regs), last)[k] = LinePixel(PixelAt(k, e + 1), a, c)
  OBVIOUS
<1>1. TileDots \in Nat \ {0} /\ 2 * TileDots \in Nat \ {0} /\ p \in Nat /\ p <= e
  BY TileSizes, TileCount
<1>2. \A i \in 1..(2 * TileDots - 1) : Append(Tail(regs), last)[i] = regs[i + 1]
  BY <1>1, ShiftSequence
<1>3. \A i \in 1..(2 * TileDots) :
        PixelAt(i, e) \in 0..(p - 1) => regs[i] = LinePixel(PixelAt(i, e), a, c)
  BY DEF PixelsHeld
<1> HIDE DEF p
<1>4. k # 2 * TileDots
  <2>1. k = 2 * TileDots => PixelAt(k, e + 1) = e
    BY <1>1 DEF PixelAt
  <2> QED
    BY <1>1, <2>1
<1>5. k \in 1..(2 * TileDots - 1) /\ k + 1 \in 1..(2 * TileDots)
  BY <1>1, <1>4
<1>6. PixelAt(k + 1, e) = PixelAt(k, e + 1)
  BY <1>1, <1>5 DEF PixelAt
<1> QED
  BY <1>2, <1>3, <1>5, <1>6

LEMMA HeldOnLine ==
  ASSUME NEW e, NEW a, NEW b, NEW c, NEW regs, NEW attrs, NEW last, SameRow(b, a),
         PixelsHeld(e, a, c, regs), PalettesHeld(e, a, c, attrs, last)
  PROVE  PixelsHeld(e, b, c, regs) /\ PalettesHeld(e, b, c, attrs, last)
<1>1. /\ \A m : TilePalette(m, b, c) = TilePalette(m, a, c)
      /\ \A x : LinePixel(x, b, c) = LinePixel(x, a, c)
  BY SameLine
<1>2. PixelsHeld(e, b, c, regs)
  BY <1>1, Zenon DEF PixelsHeld
<1>3. PalettesHeld(e, b, c, attrs, last)
  BY <1>1, Zenon DEF PalettesHeld
<1> QED
  BY <1>2, <1>3

LEMMA LoadPixels ==
  ASSUME NEW s \in Seq(Pixels), Len(s) = 2 * TileDots, NEW g \in [1..TileDots -> Pixels]
  PROVE  \A k \in 1..TileDots : /\ (SubSeq(s, 1, TileDots) \o g)[k] = s[k]
                                /\ (SubSeq(s, 1, TileDots) \o g)[TileDots + k] = g[k]
<1>1. TileDots \in Nat \ {0}
  BY TileSizes
<1> QED
  BY <1>1, LoadSequence

(* A dot between two tiles' loads shifts the registers.                    *)
LEMMA PipeShift ==
  ASSUME PipeTypes, ShiftAndLoad, Shifting, ~Loading, NEW e \in Nat, (e + 1) % TileDots # 0,
         PixelsHeld(e, v, t, bmp_regs), PalettesHeld(e, v, t, attr_regs, bg_palette)
  PROVE  PixelsHeld(e + 1, v, t, bmp_regs') /\ PalettesHeld(e + 1, v, t, attr_regs', bg_palette')
<1>1. TileDots \in Nat \ {0}
  BY TileSizes
<1>2. (e + 1) \div TileDots = e \div TileDots
  BY <1>1, NextQuotient
<1>3. /\ bmp_regs \in Seq(Pixels) /\ Len(bmp_regs) = 2 * TileDots /\ Blank \in Pixels
      /\ attr_regs \in Seq(Palettes) /\ Len(attr_regs) = TileDots /\ bg_palette \in Palettes
  BY BlankTypes DEF PipeTypes
<1>4. bmp_regs' = Append(Tail(bmp_regs), Blank)
  BY DEF ShiftAndLoad
<1>5. attr_regs' = Append(Tail(attr_regs), bg_palette) /\ bg_palette' = bg_palette
  BY DEF ShiftAndLoad
<1>6. \A k \in 1..(2 * TileDots) :
        PixelAt(k, e + 1) \in 0..(TileDots * (e \div TileDots) - 1)
          => bmp_regs'[k] = LinePixel(PixelAt(k, e + 1), v, t)
  BY <1>3, <1>4, PixelsShift
<1>7. \A k \in 1..TileDots : PixelAt(k, e + 1) >= 0 =>
        attr_regs'[k] = TilePalette(PixelAt(k, e + 1) \div TileDots, v, t)
  BY <1>3, <1>5, PalettesShift
<1>8. (e + 1) \div TileDots >= 1 => bg_palette' = TilePalette(((e + 1) \div TileDots) - 1, v, t)
  BY <1>2, <1>5 DEF PalettesHeld
<1>9. PixelsHeld(e + 1, v, t, bmp_regs')
  BY <1>2, <1>6, Zenon DEF PixelsHeld
<1>10. PalettesHeld(e + 1, v, t, attr_regs', bg_palette')
  BY <1>7, <1>8, Zenon DEF PalettesHeld
<1> QED
  BY <1>9, <1>10

(* The dot after a tile's last shifts them, and loads the tile.            *)
LEMMA PipeLoad ==
  ASSUME PipeTypes, ShiftAndLoad, Shifting, Loading, NEW e \in Nat, (e + 1) % TileDots = 0,
         v \in Nat, ColumnIs(v, t, e \div TileDots),
         PixelsHeld(e, v, t, bmp_regs), PalettesHeld(e, v, t, attr_regs, bg_palette),
         TileFetched(0, v, nt_latch, attr_latch, bmp_latch)
  PROVE  PixelsHeld(e + 1, v, t, bmp_regs') /\ PalettesHeld(e + 1, v, t, attr_regs', bg_palette')
<1> DEFINE n == e \div TileDots
           p == TileDots * n
           K == TileDots
<1>1. K \in Nat \ {0} /\ 2 * K \in Nat \ {0}
  BY TileSizes
<1>2. (e + 1) \div K = n + 1 /\ e + 1 = p + K /\ n \in Nat /\ p \in Nat
  <2>1. (e + 1) \div K = n + 1 /\ e + 1 = K * (n + 1)
    BY <1>1, NextQuotient
  <2>2. n \in Nat /\ p \in Nat /\ K * (n + 1) = p + K
    BY TileCount
  <2> HIDE DEF n, p, K
  <2> QED
    BY <2>1, <2>2
<1>3. /\ bmp_regs \in Seq(Pixels) /\ Len(bmp_regs) = 2 * TileDots /\ Blank \in Pixels
      /\ attr_regs \in Seq(Palettes) /\ Len(attr_regs) = TileDots /\ bg_palette \in Palettes
  BY BlankTypes DEF PipeTypes
<1> DEFINE bits == Append(Tail(bmp_regs), Blank)
<1>4. /\ bits \in Seq(Pixels) /\ Len(bits) = 2 * TileDots /\ Fresh \in [1..TileDots -> Pixels]
      /\ bmp_regs' = SubSeq(bits, 1, TileDots) \o Fresh
  BY ShiftTypes DEF Shifted
<1>5. \A k \in 1..(2 * TileDots) :
        PixelAt(k, e + 1) \in 0..(TileDots * (e \div TileDots) - 1)
          => bits[k] = LinePixel(PixelAt(k, e + 1), v, t)
  BY <1>3, PixelsShift
<1>6. attr_regs' = Append(Tail(attr_regs), bg_palette) /\ bg_palette' = PaletteOf(v)
  BY DEF ShiftAndLoad
<1>7. \A k \in 1..TileDots : PixelAt(k, e + 1) >= 0 =>
        attr_regs'[k] = TilePalette(PixelAt(k, e + 1) \div TileDots, v, t)
  BY <1>3, <1>6, PalettesShift
<1>8. /\ attr_latch = Block(v)
      /\ bmp_latch[1] = <<Cell(v), FineY(v)>> /\ bmp_latch[2] = <<Cell(v), FineY(v)>>
  BY DEF TileFetched
<1>9. TileBits(n, v, t) = <<Cell(v), FineY(v)>> /\ TilePalette(n, v, t) = <<Block(v), Quadrant(v)>>
  BY TileAt
<1>10. bg_palette' = TilePalette(n, v, t)
  BY <1>6, <1>8, <1>9 DEF PaletteOf
<1>11. \A k \in 1..K : Fresh[k] = <<TileBits(n, v, t), TileBits(n, v, t), k - 1>>
  BY <1>8, <1>9, Zenon DEF Fresh
<1> HIDE DEF bits, n, p
<1>12. /\ \A k \in 1..K : bmp_regs'[k] = bits[k]
       /\ \A k \in 1..K : bmp_regs'[K + k] = Fresh[k]
  <2>1. \A k \in 1..TileDots :
          /\ (SubSeq(bits, 1, TileDots) \o Fresh)[k] = bits[k]
          /\ (SubSeq(bits, 1, TileDots) \o Fresh)[TileDots + k] = Fresh[k]
    BY <1>4, LoadPixels, Zenon
  <2> QED
    BY <1>4, <2>1
<1> HIDE DEF K
<1>13. ASSUME NEW k \in 1..K, PixelAt(k, e + 1) \in 0..(p + K - 1)
       PROVE  bmp_regs'[k] = LinePixel(PixelAt(k, e + 1), v, t)
  <2>1. k \in 1..(2 * K) /\ PixelAt(k, e + 1) \in 0..(p - 1)
    BY <1>1, <1>2, <1>13 DEF PixelAt, K
  <2>2. bits[k] = LinePixel(PixelAt(k, e + 1), v, t)
    BY <1>5, <2>1 DEF K, p, n
  <2> QED
    BY <1>12, <2>2
<1>14. ASSUME NEW k \in 1..K
       PROVE  bmp_regs'[K + k] = LinePixel(PixelAt(K + k, e + 1), v, t)
  <2>1. PixelAt(K + k, e + 1) = (k - 1) + p /\ k - 1 \in 0..(K - 1)
    BY <1>1, <1>2 DEF PixelAt, K
  <2>2. ((k - 1) + p) \div K = n /\ ((k - 1) + p) % K = k - 1
    <3>1. ((k - 1) + K * n) \div K = n /\ ((k - 1) + K * n) % K = k - 1
      BY <1>1, <1>2, <2>1, DigitIs, DigitRemains
    <3> QED
      BY <3>1 DEF p, K
  <2>3. LinePixel((k - 1) + p, v, t) = <<TileBits(n, v, t), TileBits(n, v, t), k - 1>>
    BY <2>2 DEF LinePixel, K
  <2> QED
    BY <1>11, <1>12, <2>1, <2>3
<1>15. PixelsHeld(e + 1, v, t, bmp_regs')
  <2>1. ASSUME NEW i \in 1..(2 * K), PixelAt(i, e + 1) \in 0..(p + K - 1)
        PROVE  bmp_regs'[i] = LinePixel(PixelAt(i, e + 1), v, t)
    <3>1. CASE i <= K
      <4>1. i \in 1..K
        BY <1>1, <3>1
      <4> QED
        BY <1>13, <2>1, <4>1
    <3>2. CASE ~(i <= K)
      <4> DEFINE k == i - K
      <4>1. k \in 1..K /\ i = K + k
        BY <1>1, <3>2
      <4> HIDE DEF k
      <4> QED
        BY <1>14, <4>1
    <3> QED
      BY <3>1, <3>2
  <2>2. TileDots * ((e + 1) \div TileDots) = p + K
    <3>1. (e + 1) \div TileDots = n + 1
      BY <1>2 DEF K
    <3>2. TileDots * (n + 1) = p + K
      <4>1. TileDots * ((e \div TileDots) + 1) = TileDots * (e \div TileDots) + TileDots
        BY TileCount
      <4> QED
        BY <4>1 DEF p, K, n
    <3> QED
      BY <3>1, <3>2
  <2> DEFINE q == TileDots * ((e + 1) \div TileDots)
  <2>3. q = p + K
    BY <2>2
  <2> HIDE DEF q
  <2>4. ASSUME NEW i \in 1..(2 * TileDots), PixelAt(i, e + 1) \in 0..(q - 1)
        PROVE  bmp_regs'[i] = LinePixel(PixelAt(i, e + 1), v, t)
    <3>1. i \in 1..(2 * K)
      BY DEF K
    <3>2. PixelAt(i, e + 1) \in 0..(p + K - 1)
      BY <1>1, <1>2, <2>3, <2>4
    <3> QED
      BY <2>1, <3>1, <3>2
  <2> QED
    BY <2>4, Zenon DEF PixelsHeld, q
<1>16. PalettesHeld(e + 1, v, t, attr_regs', bg_palette')
  <2>1. ((e + 1) \div TileDots) - 1 = n
    <3>1. (e + 1) \div TileDots = n + 1 /\ (n + 1) - 1 = n
      BY <1>2 DEF K
    <3> QED
      BY <3>1
  <2> QED
    BY <1>7, <1>10, <2>1, Zenon DEF PalettesHeld
<1> QED
  BY <1>15, <1>16

(* The slots of a tile fetch its four bytes.                               *)
LEMMA FetchSlot ==
  ASSUME FetchBackground, NEW s \in 0..(TileDots - 1), Slot = s, s # 0 => BgFetch,
         TileFetched(s, v, nt_latch, attr_latch, bmp_latch)
  PROVE  TileFetched(IF s = TileDots - 1 THEN 0 ELSE s + 1, v, nt_latch', attr_latch', bmp_latch')
<1>1. TileDots \in Nat /\ 8 <= TileDots
  BY TileSizes
<1> DEFINE u == IF s = TileDots - 1 THEN 0 ELSE s + 1
           row == <<Cell(v), FineY(v)>>
<1>2. s \in Nat /\ (s >= 1 <=> (u = 0 \/ u >= 2)) /\ (s >= 3 <=> (u = 0 \/ u >= 4))
      /\ (s >= 5 <=> (u = 0 \/ u >= 6)) /\ (s >= 7 <=> (u = 0 \/ u >= 8))
  BY <1>1
<1> HIDE DEF u
<1>3. /\ nt_latch' = IF BgFetch /\ Slot = 1 THEN Cell(v) ELSE nt_latch
      /\ attr_latch' = IF BgFetch /\ Slot = 3 THEN Block(v) ELSE attr_latch
      /\ bmp_latch'[1] = IF BgFetch /\ Slot = 5 THEN <<nt_latch, FineY(v)>> ELSE bmp_latch[1]
      /\ bmp_latch'[2] = IF BgFetch /\ Slot = 7 THEN <<nt_latch, FineY(v)>> ELSE bmp_latch[2]
  BY DEF FetchBackground
<1>4. /\ s = 0 \/ s >= 2 => nt_latch = Cell(v)
      /\ s = 0 \/ s >= 4 => attr_latch = Block(v)
      /\ s = 0 \/ s >= 6 => bmp_latch[1] = row
      /\ s = 0 \/ s >= 8 => bmp_latch[2] = row
  BY DEF TileFetched
<1>5. s >= 1 => nt_latch' = Cell(v)
  BY <1>2, <1>3, <1>4
<1>6. s >= 3 => attr_latch' = Block(v)
  BY <1>2, <1>3, <1>4
<1>7. s >= 5 => bmp_latch'[1] = row
  BY <1>2, <1>3, <1>4
<1>8. s >= 7 => bmp_latch'[2] = row
  BY <1>2, <1>3, <1>4
<1>9. TileFetched(u, v, nt_latch', attr_latch', bmp_latch')
  BY <1>2, <1>5, <1>6, <1>7, <1>8 DEF TileFetched
<1> QED
  BY <1>9 DEF u

-----------------------------------------------------------------------------
(* Where the slots of a line begin                                         *)
LEMMA WholeTiles == \E q \in Nat : FetchFirst - 1 = TileDots * q
<1>1. /\ TileDots \in Nat \ {0} /\ DrawDots \in Nat /\ MaxSprites \in Nat
      /\ FetchFirst = DrawDots + 1 + MaxSprites * TileDots
  BY TileSizes
<1> DEFINE m == DrawDots \div TileDots
           p == TileDots * m
           s == MaxSprites * TileDots
<1>2. m \in Nat /\ DrawDots = p
  <2>1. m \in Nat /\ DrawDots = (DrawDots % TileDots) + p
    BY <1>1, QuotientTimes
  <2>2. DrawDots % TileDots = 0
    BY AddressAssumption
  <2>3. p \in Nat
    <3>1. \A i, j \in Nat : i * j \in Nat
      OBVIOUS
    <3> QED
      BY <1>1, <2>1, <3>1
  <2> HIDE DEF m, p
  <2> QED
    BY <2>1, <2>2, <2>3
<1>3. p + s = TileDots * (m + MaxSprites)
  <2>1. \A i, j, k \in Nat : i * j + k * i = i * (j + k)
    OBVIOUS
  <2> QED
    BY <1>1, <1>2, <2>1
<1>4. s \in Nat /\ p \in Nat
  <2>1. \A i, j \in Nat : i * j \in Nat
    OBVIOUS
  <2> QED
    BY <1>1, <1>2, <2>1
<1>5. FetchFirst - 1 = p + s
  <2>1. FetchFirst = p + 1 + s
    BY <1>1, <1>2
  <2> HIDE DEF p, s
  <2> QED
    BY <1>4, <2>1
<1>6. m + MaxSprites \in Nat
  BY <1>1, <1>2
<1> QED
  BY <1>3, <1>5, <1>6

LEMMA DrawSlot ==
  ASSUME dot \in Nat, 2 <= dot
  PROVE  2 * TileDots + dot - 2 \in Nat /\ Slot = ((2 * TileDots + dot - 2) + 1) % TileDots
<1>1. TileDots \in Nat \ {0} /\ dot - 1 \in Nat /\ 2 \in Nat
  BY TileSizes
<1>2. ((dot - 1) + TileDots * 2) % TileDots = (dot - 1) % TileDots
  BY <1>1, SlotOfTile
<1>3. (dot - 1) + TileDots * 2 = (2 * TileDots + dot - 2) + 1 /\ 2 * TileDots + dot - 2 \in Nat
  BY <1>1
<1> QED
  BY <1>2, <1>3 DEF Slot

LEMMA FetchSlots ==
  ASSUME dot \in Nat, dot >= FetchFirst
  PROVE  dot - FetchFirst \in Nat /\ Slot = (dot - FetchFirst) % TileDots
<1>1. TileDots \in Nat \ {0} /\ FetchFirst \in Nat
  BY TileSizes
<1>2. PICK q \in Nat : FetchFirst - 1 = TileDots * q
  BY WholeTiles
<1> DEFINE x == dot - FetchFirst
           p == TileDots * q
<1>3. x \in Nat /\ dot - 1 = x + p
  <2>1. FetchFirst - 1 = p
    BY <1>2
  <2> HIDE DEF p
  <2> QED
    BY <1>1, <2>1
<1>4. (x + TileDots * q) % TileDots = x % TileDots
  <2> HIDE DEF x
  <2> QED
    BY <1>1, <1>3, SlotOfTile
<1> QED
  BY <1>3, <1>4 DEF Slot

(* No tile is loaded at dot 0 nor after the second of the next line.       *)
LEMMA IdleSlot ==
  ASSUME dot \in Nat, dot < Dots, dot = 0 \/ dot > FetchLast + 1
  PROVE  Slot # 0
<1>1. /\ TileDots \in Nat \ {0} /\ 8 <= TileDots /\ Dots <= FetchLast + TileDots + 1
      /\ FetchFirst \in Nat /\ FetchLast = FetchFirst + 2 * TileDots - 1 /\ Dots \in Nat
  BY TileSizes
<1>2. CASE dot = 0
  <2>1. dot - 1 = -1
    BY <1>2
  <2>2. (-1) % TileDots # 0
    BY <1>1
  <2> QED
    BY <2>1, <2>2 DEF Slot
<1>3. CASE dot > FetchLast + 1
  <2>1. dot >= FetchFirst
    BY <1>1, <1>3
  <2>2. Slot = (dot - FetchFirst) % TileDots
    BY <2>1, FetchSlots
  <2> DEFINE j == dot - FetchFirst - 2 * TileDots
  <2>3. j \in 1..(TileDots - 1) /\ dot - FetchFirst = j + TileDots * 2
    BY <1>1, <1>3
  <2> HIDE DEF j
  <2>4. (j + TileDots * 2) % TileDots = j
    <3>1. j \in 0..(TileDots - 1) /\ 2 \in Nat
      BY <1>1, <2>3
    <3> QED
      BY <1>1, <3>1, DigitRemains
  <2> QED
    BY <2>2, <2>3, <2>4
<1> QED
  BY <1>2, <1>3

(* The whole pipeline, e dots after the first tile of its line was begun   *)
Pipe(e) ==
  /\ ColumnIs(v, t, e \div TileDots)
  /\ PixelsHeld(e, v, t, bmp_regs)
  /\ PalettesHeld(e, v, t, attr_regs, bg_palette)
  /\ TileFetched((e + 1) % TileDots, v, nt_latch, attr_latch, bmp_latch)

LEMMA PipeStarts ==
  ASSUME ColumnIs(v, t, 0)
  PROVE  Pipe(0)
<1>1. TileDots \in Nat \ {0} /\ 8 <= TileDots
  BY TileSizes
<1>2. 0 \div TileDots = 0 /\ (0 + 1) % TileDots = 1
  <2>1. (0 + TileDots * 0) \div TileDots = 0 /\ 0 + TileDots * 0 = 0
    <3>1. 0 \in 0..(TileDots - 1) /\ 0 \in Nat
      BY <1>1
    <3> QED
      BY <1>1, <3>1, DigitIs
  <2>2. (1 + TileDots * 0) % TileDots = 1 /\ 1 + TileDots * 0 = 0 + 1
    <3>1. 1 \in 0..(TileDots - 1) /\ 0 \in Nat
      BY <1>1
    <3> QED
      BY <1>1, <3>1, DigitRemains
  <2> QED
    BY <2>1, <2>2
<1>3. TileDots * 0 = 0
  BY <1>1
<1>4. PixelsHeld(0, v, t, bmp_regs)
  <2>1. TileDots * (0 \div TileDots) = 0
    BY <1>2, <1>3
  <2> DEFINE q == TileDots * (0 \div TileDots)
  <2>2. q = 0
    BY <2>1
  <2> HIDE DEF q
  <2>3. \A k \in 1..(2 * TileDots) : PixelAt(k, 0) \notin 0..(q - 1)
    BY <2>2
  <2> QED
    BY <2>3, Zenon DEF PixelsHeld, q
<1>5. PalettesHeld(0, v, t, attr_regs, bg_palette)
  <2>1. \A k \in 1..TileDots : ~(PixelAt(k, 0) >= 0)
    BY <1>1 DEF PixelAt
  <2>2. ~((0 \div TileDots) >= 1)
    BY <1>2
  <2> QED
    BY <2>1, <2>2, Zenon DEF PalettesHeld
<1>6. TileFetched((0 + 1) % TileDots, v, nt_latch, attr_latch, bmp_latch)
  <2>1. TileFetched(1, v, nt_latch, attr_latch, bmp_latch)
    BY DEF TileFetched
  <2> QED
    BY <1>2, <2>1
<1> QED
  BY <1>2, <1>4, <1>5, <1>6 DEF Pipe

(* A dot that neither shifts nor loads, with two tiles held                *)
LEMMA PipeIdle ==
  ASSUME ShiftAndLoad, ~Shifting, ~Loading, v' = v, t' = t, Pipe(2 * TileDots)
  PROVE  Pipe(2 * TileDots)'
<1>1. bmp_regs' = bmp_regs /\ attr_regs' = attr_regs /\ bg_palette' = bg_palette
  BY DEF ShiftAndLoad
<1>2. (2 * TileDots + 1) % TileDots = 1
  <2>1. TileDots \in Nat \ {0} /\ 1 \in 0..(TileDots - 1) /\ 2 \in Nat
    BY TileSizes
  <2>2. (1 + TileDots * 2) % TileDots = 1 /\ 1 + TileDots * 2 = 2 * TileDots + 1
    BY <2>1, DigitRemains
  <2> QED
    BY <2>2
<1>3. TileFetched((2 * TileDots + 1) % TileDots, v', nt_latch', attr_latch', bmp_latch')
  <2>1. TileFetched(1, v', nt_latch', attr_latch', bmp_latch')
    BY DEF TileFetched
  <2> QED
    BY <1>2, <2>1
<1>4. /\ ColumnIs(v', t', (2 * TileDots) \div TileDots)
      /\ PixelsHeld(2 * TileDots, v', t', bmp_regs')
      /\ PalettesHeld(2 * TileDots, v', t', attr_regs', bg_palette')
  BY <1>1 DEF Pipe
<1> QED
  BY <1>3, <1>4 DEF Pipe

(* A dot of a tile: the last of it moves the address register to the next. *)
LEMMA PipeMoves ==
  ASSUME PipeTypes, FetchBackground, ShiftAndLoad, NEW e \in Nat, v \in Nat, t \in Nat, Pipe(e),
         Shifting, Slot = (e + 1) % TileDots, Loading <=> Slot = 0, Slot # 0 => BgFetch,
         t' = t, SameRow(v', v), Slot = 0 => v' = inc_coarse_x(v), Slot # 0 => v' = v
  PROVE  Pipe(e + 1)'
<1> DEFINE s == (e + 1) % TileDots
           r == (e + 1 + 1) % TileDots
           n == e \div TileDots
           m == (e + 1) \div TileDots
<1>1. TileDots \in Nat \ {0} /\ 8 <= TileDots /\ e + 1 \in Nat
  BY TileSizes
<1>2. s \in 0..(TileDots - 1) /\ n \in Nat /\ m \in Nat
  BY <1>1, QuotientTimes
<1>3. r = IF s = TileDots - 1 THEN 0 ELSE s + 1
  BY <1>1, NextDigit
<1>4. (s = 0 => m = n + 1) /\ (s # 0 => m = n)
  BY <1>1, NextQuotient
<1>5. /\ ColumnIs(v, t, n) /\ PixelsHeld(e, v, t, bmp_regs)
      /\ PalettesHeld(e, v, t, attr_regs, bg_palette)
      /\ TileFetched(s, v, nt_latch, attr_latch, bmp_latch) /\ Slot = s
  BY DEF Pipe
<1> HIDE DEF s, r, n, m
<1>6. ColumnIs(v', t', m)
  <2>1. CASE s = 0
    <3>1. ColumnIs(inc_coarse_x(v), t, n + 1)
      BY <1>2, <1>5, ColumnMoves
    <3> QED
      BY <1>4, <1>5, <2>1, <3>1
  <2>2. CASE s # 0
    BY <1>4, <1>5, <2>2
  <2> QED
    BY <2>1, <2>2
<1>7. PixelsHeld(e + 1, v, t, bmp_regs') /\ PalettesHeld(e + 1, v, t, attr_regs', bg_palette')
  <2>1. CASE s = 0
    <3>1. (e + 1) % TileDots = 0 /\ Loading /\ TileFetched(0, v, nt_latch, attr_latch, bmp_latch)
      BY <1>5, <2>1 DEF s
    <3>2. ColumnIs(v, t, e \div TileDots)
      BY <1>5 DEF n
    <3> QED
      BY <1>5, <3>1, <3>2, PipeLoad
  <2>2. CASE s # 0
    <3>1. (e + 1) % TileDots # 0 /\ ~Loading
      BY <1>5, <2>2 DEF s
    <3> QED
      BY <1>5, <3>1, PipeShift
  <2> QED
    BY <2>1, <2>2
<1>8. PixelsHeld(e + 1, v', t', bmp_regs') /\ PalettesHeld(e + 1, v', t', attr_regs', bg_palette')
  BY <1>7, HeldOnLine
<1>9. TileFetched(r, v', nt_latch', attr_latch', bmp_latch')
  <2>1. CASE s = 0
    <3>1. r = 1
      BY <1>1, <1>3, <2>1
    <3> QED
      BY <3>1 DEF TileFetched
  <2>2. CASE s # 0
    <3>1. TileFetched(IF s = TileDots - 1 THEN 0 ELSE s + 1, v, nt_latch', attr_latch', bmp_latch')
      BY <1>2, <1>5, <2>2, FetchSlot
    <3>2. v' = v
      BY <1>5, <2>2
    <3> QED
      BY <1>3, <3>1, <3>2
  <2> QED
    BY <2>1, <2>2
<1> QED
  BY <1>6, <1>8, <1>9 DEF Pipe, r, m

(* The pipeline through an undisturbed frame: from the first dots that     *)
(* fetch ahead, over the end of the line, to the last pixel of the next    *)
PipeAhead ==
  quiet = 2 /\ sl < VisibleLines /\ dot > FetchFirst =>
    \A e \in Nat :
      e = (IF dot <= FetchLast + 2 THEN dot - 1 - FetchFirst ELSE 2 * TileDots) => Pipe(e)
PipeLine ==
  quiet = 2 /\ 0 < sl /\ sl < VisibleLines /\ dot <= DrawDots + 1 =>
    \A e \in Nat :
      e = (IF dot <= 2 THEN 2 * TileDots ELSE 2 * TileDots + dot - 2) => Pipe(e)

LEMMA FetchAhead ==
  ASSUME SInv, PipeTypes, PictureStep, PipeAhead, quiet = 2, sl < VisibleLines, dot > FetchFirst
  PROVE  \A e \in Nat :
           (\/ dot <= FetchLast + 1 /\ e = dot - FetchFirst
            \/ dot >= FetchLast + 1 /\ e = 2 * TileDots)
             => Pipe(e)'
<1>1. Step /\ FetchBackground /\ ShiftAndLoad
  BY DEF PictureStep
<1>2. IInv /\ QuietWhere /\ v \in Nat /\ t \in Nat
  BY AddressNat DEF SInv, TypeOK, Scroll
<1>3. /\ sl \in Nat /\ dot \in Nat /\ dot < Dots /\ t' = t /\ Rendering
  BY <1>1, <1>2, StepMoves, Dimensions DEF QuietWhere
<1>4. /\ TileDots \in Nat \ {0} /\ 8 <= TileDots /\ FetchFirst \in Nat /\ FetchLast \in Nat
      /\ DrawDots \in Nat /\ Dots \in Nat /\ DrawDots + 2 < FetchFirst /\ Prefetch \in Nat
      /\ Prefetch = FetchFirst + TileDots - 1 /\ FetchLast = FetchFirst + 2 * TileDots - 1
      /\ FetchLast + 1 < Dots
  BY TileSizes
<1>5. SameRow(v', v)
  BY <1>1, <1>2, <1>3, <1>4, VisibleRow
<1>6. Slot = 0 <=> OnTile(dot)
  BY DEF Slot, OnTile
<1>7. ASSUME dot <= FetchLast + 1, NEW n \in Nat, n = dot - FetchFirst PROVE Pipe(n)'
  <2> PICK e \in Nat : e = dot - 1 - FetchFirst
    BY <1>3, <1>4
  <2>1. e + 1 = dot - FetchFirst /\ dot <= FetchLast + 2 /\ dot >= FetchFirst
    BY <1>3, <1>4, <1>7
  <2>2. Pipe(e)
    BY <2>1 DEF PipeAhead
  <2>3. Slot = (dot - FetchFirst) % TileDots
    BY <1>3, <2>1, FetchSlots
  <2>4. Shifting /\ (Loading <=> Slot = 0)
    BY <1>3, <1>4, <1>7 DEF Shifting, Loading
  <2>5. ~Outside
    BY <1>3, Dimensions DEF Outside
  <2>6. Slot # 0 => BgFetch
    <3>1. ASSUME dot = FetchLast + 1 PROVE Slot = 0
      <4>1. dot - FetchFirst = 0 + TileDots * 2
        BY <1>4, <3>1
      <4>2. (0 + TileDots * 2) % TileDots = 0
        <5>1. 0 \in 0..(TileDots - 1) /\ 2 \in Nat
          BY <1>4
        <5> QED
          BY <1>4, <5>1, DigitRemains
      <4> QED
        BY <2>3, <4>1, <4>2
    <3>2. dot # FetchLast + 1 => dot \in FetchFirst..FetchLast
      BY <1>3, <1>4, <1>7
    <3> QED
      BY <1>3, <2>5, <3>1, <3>2 DEF BgFetch, Fetching
  <2>7. ~OnTile(dot) => v' = v
    BY <1>1, <1>3, <1>4, ScrollVisible
  <2>8. OnTile(dot) => v' = inc_coarse_x(v)
    <3>1. ASSUME OnTile(dot) PROVE dot >= Prefetch
      <4>1. CASE dot - FetchFirst \in 1..(TileDots - 1)
        <5> DEFINE j == dot - FetchFirst
        <5>1. j \in 1..(TileDots - 1)
          BY <4>1
        <5> HIDE DEF j
        <5>2. (j + TileDots * 0) % TileDots = j /\ j + TileDots * 0 = j
          <6>1. j \in 0..(TileDots - 1) /\ 0 \in Nat
            BY <1>4, <5>1
          <6> QED
            BY <1>4, <6>1, DigitRemains
        <5>3. Slot = j
          BY <2>3, <5>2 DEF j
        <5> QED
          BY <1>6, <3>1, <5>1, <5>3
      <4>2. CASE dot - FetchFirst >= TileDots
        BY <1>3, <1>4, <4>2
      <4> QED
        BY <1>3, <1>4, <4>1, <4>2
    <3> QED
      BY <1>1, <1>3, <1>4, <3>1, ScrollVisible
  <2>9. Slot = (e + 1) % TileDots
    BY <2>1, <2>3
  <2>10. Pipe(e + 1)'
    BY <1>1, <1>2, <1>3, <1>5, <1>6, <2>1, <2>2, <2>4, <2>6, <2>7, <2>8, <2>9, PipeMoves
  <2>11. n = e + 1
    BY <1>7, <2>1
  <2> QED
    BY <2>10, <2>11
<1>8. ASSUME dot > FetchLast + 1, NEW e \in Nat, e = 2 * TileDots PROVE Pipe(e)'
  <2>1. Slot # 0
    BY <1>3, <1>8, IdleSlot
  <2>2. ~Shifting /\ ~Loading
    BY <1>3, <1>4, <1>8, <2>1 DEF Shifting, Loading
  <2>3. v' = v
    <3>1. ~OnTile(dot) /\ dot # DrawDots + 2
      BY <1>3, <1>4, <1>6, <1>8, <2>1
    <3> QED
      BY <1>1, <1>3, <3>1, ScrollVisible
  <2>4. Pipe(2 * TileDots)
    <3>1. e = IF dot <= FetchLast + 2 THEN dot - 1 - FetchFirst ELSE 2 * TileDots
      BY <1>3, <1>4, <1>8
    <3> QED
      BY <1>8, <3>1 DEF PipeAhead
  <2>5. Pipe(2 * TileDots)'
    BY <1>1, <1>3, <2>2, <2>3, <2>4, PipeIdle
  <2> QED
    BY <1>8, <2>5
<1>9. ASSUME NEW e \in Nat, e = 2 * TileDots, dot = FetchLast + 1 PROVE Pipe(e)'
  <2>1. e = dot - FetchFirst /\ dot <= FetchLast + 1
    BY <1>4, <1>9
  <2> QED
    BY <1>7, <2>1
<1> QED
  BY <1>3, <1>4, <1>7, <1>8, <1>9

LEMMA FetchLine ==
  ASSUME SInv, PipeTypes, PictureStep, PipeLine, quiet = 2, 0 < sl, sl < VisibleLines,
         dot <= DrawDots
  PROVE  \A e \in Nat :
           ((dot <= 1 /\ e = 2 * TileDots) \/ (dot >= 1 /\ e = 2 * TileDots + dot - 1)) => Pipe(e)'
<1>1. Step /\ FetchBackground /\ ShiftAndLoad
  BY DEF PictureStep
<1>2. IInv /\ QuietWhere /\ v \in Nat /\ t \in Nat
  BY AddressNat DEF SInv, TypeOK, Scroll
<1>3. /\ sl \in Nat /\ dot \in Nat /\ dot < Dots /\ t' = t /\ Rendering
  BY <1>1, <1>2, StepMoves, Dimensions DEF QuietWhere
<1>4. /\ TileDots \in Nat \ {0} /\ 8 <= TileDots /\ FetchFirst \in Nat /\ FetchLast \in Nat
      /\ DrawDots \in Nat /\ Dots \in Nat /\ DrawDots + 2 < FetchFirst /\ Prefetch \in Nat
      /\ Prefetch = FetchFirst + TileDots - 1 /\ FetchLast = FetchFirst + 2 * TileDots - 1
      /\ FetchLast + 1 < Dots
  BY TileSizes
<1>5. SameRow(v', v)
  BY <1>1, <1>2, <1>3, <1>4, VisibleRow
<1>6. Slot = 0 <=> OnTile(dot)
  BY DEF Slot, OnTile
<1>7. ASSUME dot >= 2, NEW n \in Nat, n = 2 * TileDots + dot - 1 PROVE Pipe(n)'
  <2> PICK e \in Nat : e = 2 * TileDots + dot - 2
    BY <1>3, <1>4, <1>7, DrawSlot
  <2>1. e = IF dot <= 2 THEN 2 * TileDots ELSE 2 * TileDots + dot - 2
    BY <1>3, <1>4, <1>7
  <2>2. Pipe(e)
    BY <1>3, <1>4, <2>1 DEF PipeLine
  <2>3. Slot = (e + 1) % TileDots
    BY <1>3, <1>7, DrawSlot
  <2>4. Shifting /\ (Loading <=> Slot = 0)
    BY <1>3, <1>4, <1>7 DEF Shifting, Loading
  <2>5. ~Outside
    BY <1>3, Dimensions DEF Outside
  <2>6. BgFetch
    BY <1>3, <1>4, <1>7, <2>5 DEF BgFetch, Fetching
  <2>7. ~OnTile(dot) => v' = v
    BY <1>1, <1>3, <1>4, ScrollVisible
  <2>8. OnTile(dot) => v' = inc_coarse_x(v)
    BY <1>1, <1>3, <1>4, <1>7, ScrollVisible
  <2>9. Pipe(e + 1)'
    BY <1>1, <1>2, <1>3, <1>5, <1>6, <2>2, <2>3, <2>4, <2>6, <2>7, <2>8, PipeMoves
  <2>10. n = e + 1
    BY <1>3, <1>4, <1>7
  <2> QED
    BY <2>9, <2>10
<1>8. ASSUME dot <= 1, NEW e \in Nat, e = 2 * TileDots PROVE Pipe(e)'
  <2>1. dot = 0 => Slot # 0
    BY <1>3, IdleSlot
  <2>2. ~Shifting /\ ~Loading
    BY <1>3, <1>4, <1>8, <2>1 DEF Shifting, Loading
  <2>3. v' = v
    BY <1>1, <1>3, <1>4, <1>8, ScrollVisible
  <2>4. Pipe(2 * TileDots)
    <3>1. e = IF dot <= 2 THEN 2 * TileDots ELSE 2 * TileDots + dot - 2
      BY <1>3, <1>4, <1>8
    <3> QED
      BY <1>3, <1>4, <1>8, <3>1 DEF PipeLine
  <2>5. Pipe(2 * TileDots)'
    BY <1>1, <1>3, <2>2, <2>3, <2>4, PipeIdle
  <2> QED
    BY <1>8, <2>5
<1>9. ASSUME NEW e \in Nat, e = 2 * TileDots + dot - 1, dot = 1 PROVE Pipe(e)'
  <2>1. e = 2 * TileDots /\ dot <= 1
    BY <1>4, <1>9
  <2> QED
    BY <1>8, <2>1
<1> QED
  BY <1>3, <1>7, <1>8, <1>9

(* A line is never left undisturbed without having begun so.               *)
LEMMA QuietBefore ==
  ASSUME IInv, QuietWhere, Step, quiet' = 2, sl' < VisibleLines
  PROVE  quiet = 2
<1>1. sl \in Nat /\ dot \in Nat /\ dot < LineLength /\ LineLength \in {Dots - 1, Dots}
  BY StepMoves, Dimensions
<1>2. dot = CopyLast /\ sl = PreRender => dot' = dot + 1 /\ sl' = sl
  BY <1>1, StepMoves, Dimensions
<1> QED
  BY <1>2, StepMoves, Dimensions

LEMMA StepPipeAhead ==
  ASSUME SInv, SInv', PipeTypes, PictureStep, PipeAhead
  PROVE  PipeAhead'
<1> SUFFICES ASSUME quiet' = 2, sl' < VisibleLines, dot' > FetchFirst, NEW e \in Nat,
                    e = IF dot' <= FetchLast + 2 THEN dot' - 1 - FetchFirst ELSE 2 * TileDots
             PROVE  Pipe(e)'
  BY DEF PipeAhead
<1>1. IInv /\ QuietWhere /\ Step
  BY DEF SInv, Scroll, PictureStep
<1>2. /\ TileDots \in Nat \ {0} /\ 8 <= TileDots /\ FetchFirst \in Nat /\ FetchLast \in Nat
      /\ DrawDots \in Nat /\ Dots \in Nat /\ DrawDots + 2 < FetchFirst /\ Prefetch \in Nat
      /\ Prefetch = FetchFirst + TileDots - 1 /\ FetchLast = FetchFirst + 2 * TileDots - 1
  BY TileSizes
<1>3. sl' = sl /\ dot' = dot + 1 /\ dot \in Nat /\ t' = t
  BY <1>1, <1>2, StepMoves
<1>4. quiet = 2
  BY <1>1, QuietBefore
<1>5. CASE dot = FetchFirst
  <2>1. dot' = FetchFirst + 1 /\ dot' - 1 = FetchFirst /\ dot' > DrawDots + 2
    BY <1>2, <1>3, <1>5
  <2>2. ColumnIs(v', t', TileSteps(Prefetch..(dot' - 1)))
    <3>1. AheadColumn'
      BY DEF SInv, Scroll
    <3> QED
      BY <2>1, <3>1 DEF AheadColumn
  <2>3. TileSteps(Prefetch..FetchFirst) = 0
    <3>1. FetchFirst < Prefetch
      BY <1>2
    <3> QED
      BY <1>2, <3>1, TilesNone
  <2>4. ColumnIs(v, t, 0)'
    BY <2>1, <2>2, <2>3
  <2>5. Pipe(0)'
    BY <2>4, PipeStarts, PTL
  <2>6. e = 0
    BY <1>2, <2>1
  <2> QED
    BY <2>5, <2>6
<1>6. CASE dot > FetchFirst
  <2>1. \/ dot <= FetchLast + 1 /\ e = dot - FetchFirst
        \/ dot >= FetchLast + 1 /\ e = 2 * TileDots
    BY <1>2, <1>3
  <2>2. sl < VisibleLines
    BY <1>3
  <2>3. \A n \in Nat :
          (\/ dot <= FetchLast + 1 /\ n = dot - FetchFirst
           \/ dot >= FetchLast + 1 /\ n = 2 * TileDots)
            => Pipe(n)'
    BY <1>4, <1>6, <2>2, FetchAhead
  <2> QED
    BY <2>1, <2>3
<1> QED
  BY <1>2, <1>3, <1>5, <1>6

LEMMA StepPipeLine ==
  ASSUME SInv, PipeTypes, PictureStep, PipeAhead, PipeLine
  PROVE  PipeLine'
<1> SUFFICES ASSUME quiet' = 2, 0 < sl', sl' < VisibleLines, dot' <= DrawDots + 1, NEW e \in Nat,
                    e = IF dot' <= 2 THEN 2 * TileDots ELSE 2 * TileDots + dot' - 2
             PROVE  Pipe(e)'
  BY DEF PipeLine
<1>1. IInv /\ QuietWhere /\ Step
  BY DEF SInv, Scroll, PictureStep
<1>2. /\ TileDots \in Nat \ {0} /\ 8 <= TileDots /\ FetchFirst \in Nat /\ FetchLast \in Nat
      /\ DrawDots \in Nat /\ Dots \in Nat /\ DrawDots + 2 < FetchFirst
      /\ FetchLast = FetchFirst + 2 * TileDots - 1 /\ FetchLast + 1 < Dots
  BY TileSizes
<1>3. dot \in Nat /\ sl \in Nat
  BY <1>1, StepMoves
<1>4. quiet = 2
  BY <1>1, QuietBefore
<1>5. CASE sl' = sl /\ dot' = dot + 1
  <2>1. dot <= DrawDots /\ 0 < sl /\ sl < VisibleLines
    BY <1>2, <1>3, <1>5
  <2>2. \/ dot <= 1 /\ e = 2 * TileDots
        \/ dot >= 1 /\ e = 2 * TileDots + dot - 1
    BY <1>2, <1>3, <1>5
  <2> QED
    BY <1>4, <2>1, <2>2, FetchLine
<1>6. CASE sl < PreRender /\ sl' = sl + 1 /\ dot' = 0 /\ dot + 1 = LineLength
  <2>1. dot >= FetchLast + 1 /\ dot > FetchFirst /\ sl < VisibleLines /\ e = 2 * TileDots
    BY <1>1, <1>2, <1>3, <1>6, StepMoves, Dimensions
  <2> QED
    BY <1>4, <2>1, FetchAhead
<1> QED
  BY <1>1, <1>5, <1>6, StepMoves

-----------------------------------------------------------------------------
(* The pixel of the screen from the row and column that the address        *)
(* register keeps in its fields                                            *)
LEMMA RowDigits ==
  ASSUME NEW a \in Nat, CoarseY(a) < Rows, NEW r, r = Row(FineY(a), a)
  PROVE  /\ r \div (FineRows * Rows) = NtY(a) /\ (r \div FineRows) % Rows = CoarseY(a)
         /\ r % FineRows = FineY(a)
<1> DEFINE f == FineY(a)
           y == CoarseY(a)
           ny == NtY(a)
           F == FineRows
           R == Rows
           L == y + R * ny
<1>1. /\ f \in 0..(F - 1) /\ y \in 0..(R - 1) /\ ny \in Nat
      /\ F \in Nat \ {0} /\ R \in Nat \ {0} /\ r = f + F * L
  <2>1. f \in 0..(F - 1) /\ y \in Nat /\ ny \in Nat /\ F \in Nat \ {0} /\ R \in Nat \ {0}
    BY FieldRanges, FieldSizes
  <2>2. r = f + F * L
    BY DEF Row
  <2>3. y < R
    OBVIOUS
  <2> HIDE DEF f, y, ny, F, R, L
  <2>4. y \in 0..(R - 1)
    BY <2>1, <2>3
  <2> QED
    BY <2>1, <2>2, <2>4
<1> HIDE DEF f, y, ny, F, R
<1>2. L \in Nat /\ L \div R = ny /\ L % R = y
  BY <1>1, DigitIs, DigitRemains
<1> HIDE DEF L
<1>3. r \in Nat /\ r \div F = L /\ r % F = f
  BY <1>1, <1>2, DigitIs, DigitRemains
<1>4. r \div (F * R) = ny
  <2>1. r \div (F * R) = (r \div F) \div R
    BY <1>1, <1>3, QuotientOfQuotient
  <2> QED
    BY <1>2, <1>3, <2>1
<1>5. (r \div F) % R = y
  BY <1>2, <1>3
<1> QED
  BY <1>3, <1>4, <1>5 DEF f, y, ny, F, R

LEMMA LineOnScreen ==
  ASSUME NEW a \in Nat, NEW c \in Nat, NEW x \in Nat, NEW n, RowIs(a, c, n)
  PROVE  \E high \in 0..1 :
           LET p == PixelOf((Column(c) + (x \div TileDots)) % (2 * Cols),
                            (Row(high * (FineRows \div 2) + (FineY(c) % (FineRows \div 2)), c) + n)
                              % (2 * FineRows * Rows),
                            x % TileDots)
           IN  p.bg = LinePixel(x, a, c) /\ p.palette = TilePalette(x \div TileDots, a, c)
<1> PICK high \in 0..1 :
      Row(FineY(a), a) = (Row(high * (FineRows \div 2) + (FineY(c) % (FineRows \div 2)), c) + n)
                           % (2 * FineRows * Rows)
  BY DEF RowIs
<1> DEFINE r == Row(FineY(a), a)
           m == x \div TileDots
           k == x % TileDots
           p == PixelOf(ColumnOf(m, c), r, k)
<1>1. /\ r \div (FineRows * Rows) = NtY(a) /\ (r \div FineRows) % Rows = CoarseY(a)
      /\ r % FineRows = FineY(a)
  BY RowDigits DEF RowIs
<1> HIDE DEF r, m, k
<1>2. p.bg = <<TileBits(m, a, c), TileBits(m, a, c), k>> /\ p.palette = TilePalette(m, a, c)
  BY <1>1 DEF PixelOf, TileBits, TilePalette
<1>3. ColumnOf(m, c) = (Column(c) + (x \div TileDots)) % (2 * Cols)
  BY DEF ColumnOf, m
<1>4. LinePixel(x, a, c) = <<TileBits(m, a, c), TileBits(m, a, c), k>>
  BY DEF LinePixel, m, k
<1> HIDE DEF p
<1>5. /\ p = PixelOf((Column(c) + (x \div TileDots)) % (2 * Cols),
                     (Row(high * (FineRows \div 2) + (FineY(c) % (FineRows \div 2)), c) + n)
                       % (2 * FineRows * Rows),
                     x % TileDots)
      /\ p.bg = LinePixel(x, a, c) /\ p.palette = TilePalette(x \div TileDots, a, c)
  BY <1>2, <1>3, <1>4 DEF p, r, m, k
<1> QED
  BY <1>5

(* The pixel drawn is the one of the line as many dots after the fine      *)
(* x-scroll as were drawn before it.                                       *)
LEMMA PixelDrawn ==
  ASSUME SInv, PipeTypes, PictureStep, PipeLine, Drawing, quiet = 2, sl > 0
  PROVE  /\ fine_xscroll + (dot - 1) \in Nat
         /\ bmp_regs'[fine_xscroll + 1] = LinePixel(fine_xscroll + (dot - 1), v', t')
         /\ attr_regs'[fine_xscroll + 1]
              = TilePalette((fine_xscroll + (dot - 1)) \div TileDots, v', t')
<1> DEFINE k == fine_xscroll + 1
           x == fine_xscroll + (dot - 1)
<1>1. TileDots \in Nat \ {0} /\ DrawDots \in Nat
  BY TileSizes
<1>2. dot \in 1..DrawDots /\ sl < VisibleLines
  BY DEF Drawing
<1>3. fine_xscroll \in 0..(TileDots - 1)
  BY DEF PipeTypes
<1> PICK e \in Nat : e = 2 * TileDots + dot - 1
  <2>1. 2 * TileDots + dot - 1 \in Nat
    BY <1>1, <1>2
  <2> QED
    BY <2>1
<1>4. Pipe(e)'
  <2>1. dot <= DrawDots /\ dot >= 1 /\ 0 < sl
    BY <1>1, <1>2, StepMoves, Dimensions
  <2>2. \A n \in Nat :
          ((dot <= 1 /\ n = 2 * TileDots) \/ (dot >= 1 /\ n = 2 * TileDots + dot - 1)) => Pipe(n)'
    BY <1>2, <2>1, FetchLine
  <2> QED
    BY <2>1, <2>2
<1>5. k \in 1..TileDots /\ k \in 1..(2 * TileDots) /\ PixelAt(k, e) = x /\ x \in Nat
  BY <1>1, <1>2, <1>3 DEF PixelAt
<1>6. PixelAt(k, e) \in 0..(TileDots * (e \div TileDots) - 1)
  <2> DEFINE q == TileDots * (e \div TileDots)
  <2>1. q \in Nat /\ e < q + TileDots
    BY TileCount
  <2> HIDE DEF q
  <2>2. x <= q - 1
    BY <1>1, <1>2, <1>3, <2>1
  <2>3. PixelAt(k, e) \in 0..(q - 1)
    BY <1>5, <2>1, <2>2
  <2> QED
    BY <2>3 DEF q
<1>7. PixelsHeld(e, v', t', bmp_regs') /\ PalettesHeld(e, v', t', attr_regs', bg_palette')
  BY <1>4 DEF Pipe
<1> HIDE DEF k, x
<1>8. bmp_regs'[k] = LinePixel(x, v', t')
  <2>1. bmp_regs'[k] = LinePixel(PixelAt(k, e), v', t')
    BY <1>5, <1>6, <1>7, Zenon DEF PixelsHeld
  <2> QED
    BY <1>5, <2>1
<1>9. attr_regs'[k] = TilePalette(x \div TileDots, v', t')
  <2>1. PixelAt(k, e) >= 0
    BY <1>5
  <2>2. attr_regs'[k] = TilePalette(PixelAt(k, e) \div TileDots, v', t')
    BY <1>5, <1>7, <2>1, Zenon DEF PalettesHeld
  <2> QED
    BY <1>5, <2>2
<1> QED
  BY <1>5, <1>8, <1>9 DEF k, x

(* The leftmost tile's pixels are those of the first dots.                 *)
LEMMA ShownWhereDrawn ==
  ASSUME NEW layer, NEW left, Drawing, mask' = mask, shown'.x = dot - 1
  PROVE  ShownHere(layer, left)' <=> DrawnHere(layer, left)
<1>1. dot \in 1..DrawDots /\ DrawDots \in Nat /\ TileDots \in Nat
  BY TileSizes DEF Drawing
<1>2. shown'.x >= TileDots <=> dot > TileDots
  BY <1>1
<1> QED
  BY <1>2 DEF ShownHere, DrawnHere

LEMMA StepPixel ==
  ASSUME SInv, SInv', PipeTypes, PictureStep, PipeLine
  PROVE  BackgroundPixel'
<1> SUFFICES ASSUME quiet' = 2, shown'.y > 0, ShownHere("bg", "left_bg")', CoarseY(t') < Rows
             PROVE  \E high \in 0..1 : /\ shown'.bg = ScreenPixel(high)'.bg
                                       /\ shown'.palette = ScreenPixel(high)'.palette
  BY DEF BackgroundPixel
<1>1. Step /\ IInv /\ QuietWhere /\ DrawPixel /\ fine_xscroll' = fine_xscroll
  BY DEF SInv, Scroll, PictureStep
<1>2. Drawing
  <2>1. ASSUME ~Drawing PROVE FALSE
    <3>1. shown' = NothingShown
      BY <1>1, <2>1 DEF DrawPixel
    <3>2. shown'.y = -1
      BY <3>1 DEF NothingShown
    <3> QED
      BY <3>2
  <2> QED
    BY <2>1
<1>3. mask' = mask
  BY <1>1, StepMoves
<1>4. /\ shown'.x = dot - 1 /\ shown'.y = sl /\ shown'.bg = bmp_regs'[fine_xscroll + 1]
      /\ shown'.palette = attr_regs'[fine_xscroll + 1]
  <2>1. /\ shown'.x = dot - 1 /\ shown'.y = sl
        /\ shown'.bg = IF DrawnHere("bg", "left_bg") THEN bmp_regs'[fine_xscroll + 1] ELSE Blank
        /\ shown'.palette = attr_regs'[fine_xscroll + 1]
    BY <1>1, <1>2 DEF DrawPixel
  <2>2. DrawnHere("bg", "left_bg")
    BY <1>2, <1>3, <2>1, ShownWhereDrawn
  <2> QED
    BY <2>1, <2>2
<1>5. dot \in 1..DrawDots /\ sl < VisibleLines /\ sl > 0
  BY <1>2, <1>4 DEF Drawing
<1>6. sl' = sl /\ dot' = dot + 1
  BY <1>1, <1>5, StepMoves, Dimensions
<1>7. quiet = 2
  BY <1>1, <1>5, <1>6, QuietBefore
<1>8. RowIs(v', t', sl) /\ v' \in Nat /\ t' \in Nat
  <2>1. LineRow' /\ TypeOK'
    BY DEF SInv, Scroll
  <2>2. dot' <= DrawDots + 1
    BY <1>5, <1>6, Dimensions
  <2>3. RowIs(v', t', sl')
    BY <1>5, <1>6, <2>1, <2>2 DEF LineRow
  <2>4. v' \in Addresses /\ t' \in Addresses
    BY <2>1 DEF TypeOK
  <2> QED
    BY <1>6, <2>3, <2>4, AddressNat
<1> DEFINE x == fine_xscroll + (dot - 1)
<1>9. /\ x \in Nat /\ shown'.bg = LinePixel(x, v', t')
      /\ shown'.palette = TilePalette(x \div TileDots, v', t')
  BY <1>2, <1>4, <1>5, <1>7, PixelDrawn
<1> HIDE DEF x
<1> PICK high \in 0..1 :
      LET p == PixelOf((Column(t') + (x \div TileDots)) % (2 * Cols),
                       (Row(high * (FineRows \div 2) + (FineY(t') % (FineRows \div 2)), t') + sl)
                         % (2 * FineRows * Rows),
                       x % TileDots)
      IN  p.bg = LinePixel(x, v', t') /\ p.palette = TilePalette(x \div TileDots, v', t')
  BY <1>8, <1>9, LineOnScreen
<1>10. fine_xscroll' + shown'.x = x
  BY <1>1, <1>4 DEF x
<1>11. ScreenPixel(high)' =
         PixelOf((Column(t') + (x \div TileDots)) % (2 * Cols),
                 (Row(high * (FineRows \div 2) + (FineY(t') % (FineRows \div 2)), t') + sl)
                   % (2 * FineRows * Rows),
                 x % TileDots)
  BY <1>4, <1>10 DEF ScreenPixel
<1> QED
  BY <1>9, <1>11

-----------------------------------------------------------------------------
(* The steps of the picture are steps of Ppu; filling object memory is     *)
(* none, but disturbs the frame and nothing else.                          *)
LEMMA PictureSteps ==
  ASSUME [PictureNext]_pvars
  PROVE  \/ PictureStep
         \/ Guest /\ UNCHANGED <<background, shown>> /\ (fine_xscroll' = fine_xscroll \/ quiet' = 0)
         \/ /\ quiet' = 0
            /\ UNCHANGED <<sl, dot, odd, status, mask, ctrl, w, t, v, events, open>>
            /\ UNCHANGED <<background, shown, fine_xscroll>>
         \/ [Next]_vars /\ UNCHANGED <<sl, dot, mask, t, v, quiet, background, shown, fine_xscroll>>
<1>1. CASE PictureStep
  BY <1>1
<1>2. CASE PictureGuest
  <2>1. Guest
    BY <1>2 DEF PictureGuest, Guest
  <2>2. fine_xscroll' = fine_xscroll \/ quiet' = 0
    BY <1>2 DEF PictureGuest, WriteScroll
  <2>3. UNCHANGED <<background, shown>>
    BY <1>2 DEF PictureGuest
  <2> QED
    BY <2>1, <2>2, <2>3
<1>3. CASE CopyOam
  BY <1>3 DEF CopyOam
<1>4. CASE PictureQuit
  <2>1. Next
    BY <1>4 DEF PictureQuit, Next
  <2>2. UNCHANGED <<sl, dot, mask, t, v, quiet, background, shown, fine_xscroll>>
    BY <1>4 DEF PictureQuit, Quit
  <2> QED
    BY <2>1, <2>2
<1>5. CASE UNCHANGED pvars
  BY <1>5 DEF pvars, vars
<1> QED
  BY <1>1, <1>2, <1>3, <1>4, <1>5 DEF PictureNext

LEMMA DisturbedInv ==
  ASSUME SInv, quiet' = 0, UNCHANGED <<sl, dot, odd, status, mask, ctrl, w, t, v, events, open>>
  PROVE  SInv'
<1>1. UNCHANGED <<sl, dot, odd, vblank, hit, overflow, hitDue, overflowDot, sprite0, mask, ctrl,
                  w, t, v, events, open>>
  BY DEF status
<1>2. IInv'
  BY <1>1
  DEF SInv, IInv, CursorInFrame, VblankWindow, Due, DueOnThisLine, LineLength
<1>3. TypeOK'
  BY <1>1 DEF SInv, TypeOK, LineLength
<1>4. Scroll'
  BY DEF Scroll, QuietWhere, LineColumn, AheadColumn, BlankColumn, LineRow, NextLineRow, FrameRow
<1> QED
  BY <1>2, <1>3, <1>4 DEF SInv

(* The inductive invariant of the picture                                  *)
PInv == SInv /\ PipeTypes /\ PipeAhead /\ PipeLine /\ BackgroundPixel

LEMMA PictureInvInit == PictureInit => PInv
<1> SUFFICES ASSUME PictureInit PROVE PInv
  OBVIOUS
<1>1. SInv
  BY ScrollInit DEF PictureInit
<1>2. quiet = 0
  BY DEF PictureInit, Init
<1> QED
  BY <1>1, <1>2, PipeTypesInit DEF PInv, PipeAhead, PipeLine, BackgroundPixel

LEMMA GuestFine ==
  ASSUME PipeTypes, [PictureNext]_pvars
  PROVE  fine_xscroll' \in 0..(TileDots - 1)
<1>1. fine_xscroll \in 0..(TileDots - 1)
  BY DEF PipeTypes
<1>2. CASE fine_xscroll' = fine_xscroll
  BY <1>1, <1>2
<1>3. CASE PictureGuest
  <2>1. CASE \E s \in ScrollWrites : fine_xscroll' = s.fine
    <3>1. PICK s \in ScrollWrites : fine_xscroll' = s.fine
      BY <2>1
    <3>2. s.fine \in 0..(FineRows - 1)
      BY GuestAssumption
    <3>3. FineRows <= TileDots /\ TileDots \in Nat /\ FineRows \in Nat
      BY TileSizes, FieldSizes
    <3> QED
      BY <3>1, <3>2, <3>3
  <2> QED
    BY <1>2, <1>3, <2>1 DEF PictureGuest
<1> QED
  BY <1>2, <1>3 DEF PictureNext, PictureStep, CopyOam, PictureQuit, pvars

(* What no step of the cursor changes stays; a disturbed frame claims      *)
(* nothing.                                                                *)
LEMMA PictureStays ==
  ASSUME PInv, SInv', PipeTypes', UNCHANGED <<background, shown>>,
         quiet' = 0 \/ UNCHANGED <<sl, dot, mask, t, v, quiet, fine_xscroll>>
  PROVE  PInv'
<1>1. CASE quiet' = 0
  BY <1>1 DEF PInv, PipeAhead, PipeLine, BackgroundPixel
<1>2. CASE UNCHANGED <<sl, dot, mask, t, v, quiet, fine_xscroll>>
  <2>1. /\ sl' = sl /\ dot' = dot /\ mask' = mask /\ t' = t /\ v' = v /\ quiet' = quiet
        /\ fine_xscroll' = fine_xscroll /\ shown' = shown
        /\ nt_latch' = nt_latch /\ attr_latch' = attr_latch /\ bmp_latch' = bmp_latch
        /\ bmp_regs' = bmp_regs /\ attr_regs' = attr_regs /\ bg_palette' = bg_palette
    BY <1>2 DEF background
  <2>2. \A e \in Nat : Pipe(e)' <=> Pipe(e)
    BY <2>1 DEF Pipe
  <2>3. PipeAhead' /\ PipeLine'
    BY <2>1, <2>2 DEF PInv, PipeAhead, PipeLine
  <2>4. BackgroundPixel'
    BY <2>1 DEF PInv, BackgroundPixel, ScreenPixel, ShownHere
  <2> QED
    BY <2>3, <2>4 DEF PInv
<1> QED
  BY <1>1, <1>2

LEMMA PictureInvStep == PInv /\ [PictureNext]_pvars => PInv'
<1> SUFFICES ASSUME PInv, [PictureNext]_pvars PROVE PInv'
  OBVIOUS
<1>1. SInv /\ PipeTypes /\ PipeAhead /\ PipeLine
  BY DEF PInv
<1>2. CASE PictureStep
  <2>1. Step /\ Next
    BY <1>2 DEF PictureStep, Next
  <2>2. SInv'
    BY <1>1, <2>1, ScrollStep
  <2>3. v \in Nat
    BY <1>1, AddressNat DEF SInv, TypeOK
  <2>4. PipeTypes'
    BY <1>1, <1>2, <2>3, StepPipeTypes
  <2>5. PipeAhead'
    BY <1>1, <1>2, <2>2, StepPipeAhead
  <2>6. PipeLine'
    BY <1>1, <1>2, StepPipeLine
  <2>7. BackgroundPixel'
    BY <1>1, <1>2, <2>2, StepPixel
  <2> QED
    BY <2>2, <2>4, <2>5, <2>6, <2>7 DEF PInv
<1>3. ASSUME UNCHANGED <<background, shown>> PROVE PipeTypes'
  <2>1. fine_xscroll' \in 0..(TileDots - 1)
    BY <1>1, GuestFine
  <2>2. /\ nt_latch' = nt_latch /\ attr_latch' = attr_latch /\ bmp_latch' = bmp_latch
        /\ bmp_regs' = bmp_regs /\ attr_regs' = attr_regs /\ bg_palette' = bg_palette
    BY <1>3 DEF background
  <2> QED
    BY <1>1, <2>1, <2>2 DEF PipeTypes
<1>4. CASE Guest /\ UNCHANGED <<background, shown>> /\ (fine_xscroll' = fine_xscroll \/ quiet' = 0)
  <2>1. SInv'
    BY <1>1, <1>4, ScrollStep DEF Next
  <2>2. quiet' = 0 \/ UNCHANGED <<sl, dot, mask, t, v, quiet, fine_xscroll>>
    BY <1>4
    DEF Guest, Access, ReadStatus, WriteCtrl, WriteMask, WriteScroll, WriteAddr, AccessData
  <2> QED
    BY <1>3, <1>4, <2>1, <2>2, PictureStays
<1>5. CASE /\ quiet' = 0
           /\ UNCHANGED <<sl, dot, odd, status, mask, ctrl, w, t, v, events, open>>
           /\ UNCHANGED <<background, shown, fine_xscroll>>
  <2>1. SInv'
    BY <1>1, <1>5, DisturbedInv
  <2> QED
    BY <1>3, <1>5, <2>1, PictureStays
<1>6. CASE [Next]_vars /\ UNCHANGED <<sl, dot, mask, t, v, quiet, background, shown, fine_xscroll>>
  <2>1. SInv'
    BY <1>1, <1>6, ScrollStep
  <2> QED
    BY <1>3, <1>6, <2>1, PictureStays
<1> QED
  BY <1>2, <1>4, <1>5, <1>6, PictureSteps

LEMMA PictureInvHolds == PictureSpec => []PInv
BY PictureInvInit, PictureInvStep, PTL DEF PictureSpec

(* In a frame that no access disturbed, each pixel of the background is    *)
(* the picture's own pixel there, in its tile's palette: the latches and   *)
(* the shift registers of ppu.c deliver every tile that memfetch read, in  *)
(* order and at its dot, whatever the size of the picture and of a tile.   *)
THEOREM BackgroundAsScrolled == PictureSpec => []BackgroundPixel
<1>1. PInv => BackgroundPixel
  BY DEF PInv
<1> QED
  BY <1>1, PictureInvHolds, PTL

(* What is proved of Ppu's own steps, about the scroll and the flags that  *)
(* are due, holds when the pixels and the sprites found decide what they   *)
(* leave to chance, and when object memory is filled at any dot.           *)
THEOREM PictureScroll == PictureSpec => []ScrollPosition
<1>1. PInv => ScrollPosition
  BY LineScrolled DEF PInv
<1> QED
  BY <1>1, PictureInvHolds, PTL

(* In particular a hit that a pixel made due is set at the next dot of the *)
(* same line, and an overflow at the dot that spriteeval computed.         *)
THEOREM PictureFlags == PictureSpec => []DueOnThisLine
<1>1. PInv => DueOnThisLine
  BY DEF PInv, SInv, IInv, Due
<1> QED
  BY <1>1, PictureInvHolds, PTL

-----------------------------------------------------------------------------
(* The sprites.  What is found on a line, whatever is in object memory     *)
LEMMA TakenSprites ==
  ASSUME oam \in [1..NSprites -> Sprites], NEW line, NEW k \in DOMAIN Taken(line)
  PROVE  /\ k \in 1..MaxSprites
         /\ Taken(line)[k] \in Sprites /\ OnLine(Taken(line)[k], line)
<1>1. k \in {Rank(n, line) : n \in Found(line)} \cap 1..MaxSprites
  BY DEF Taken
<1>2. Taken(line)[k] = oam[CHOOSE n \in Found(line) : Rank(n, line) = k]
  BY <1>1 DEF Taken
<1>3. \E n \in Found(line) : Rank(n, line) = k
  BY <1>1
<1>4. (CHOOSE n \in Found(line) : Rank(n, line) = k) \in Found(line)
  BY <1>3
<1> QED
  BY <1>1, <1>2, <1>4 DEF Found

(* The first sprite of object memory, on a line at all, is the first there *)
LEMMA FirstOfMemory ==
  ASSUME NEW line, OnLine(oam[1], line)
  PROVE  1 \in DOMAIN Taken(line) /\ Taken(line)[1] = oam[1]
<1>1. MaxSprites \in Nat \ {0} /\ NSprites \in Nat /\ MaxSprites < NSprites
  BY SpriteAssumption
<1>2. 1 \in Found(line)
  BY <1>1 DEF Found
<1> DEFINE F == Found(line)
           Upto(n) == {i \in F : i <= n}
<1>3. IsFiniteSet(F) /\ F \subseteq 1..NSprites
  <2>1. IsFiniteSet(1..NSprites) /\ Found(line) \subseteq 1..NSprites
    BY <1>1, FS_Interval DEF Found
  <2> QED
    BY <2>1, FS_Subset
<1>4. \A n : Rank(n, line) = Cardinality(Upto(n)) /\ IsFiniteSet(Upto(n))
  BY <1>3, FS_Subset DEF Rank
<1> HIDE DEF F
<1>5. Rank(1, line) = 1
  <2>1. Upto(1) = {1}
    BY <1>2, <1>3 DEF F
  <2> QED
    BY <1>4, <2>1, FS_Singleton
<1>6. ASSUME NEW n \in F, Rank(n, line) = 1 PROVE n = 1
  <2>1. 1 \in Upto(n) /\ n \in Upto(n)
    BY <1>2, <1>3 DEF F
  <2>2. PICK x : Upto(n) = {x}
    BY <1>4, <1>6, FS_Singleton
  <2> QED
    BY <2>1, <2>2
<1>7. (CHOOSE n \in Found(line) : Rank(n, line) = 1) = 1
  BY <1>2, <1>5, <1>6 DEF F
<1>8. 1 \in {Rank(n, line) : n \in Found(line)} \cap 1..MaxSprites
  BY <1>1, <1>2, <1>5
<1> QED
  BY <1>7, <1>8 DEF Taken

(* The dots at which a sprite is fetched                                   *)
FetchDot(n, slot) == DrawDots + 1 + (n - 1) * TileDots + slot

LEMMA FetchDots ==
  ASSUME NEW n \in 1..MaxSprites, NEW s \in 0..(TileDots - 1)
  PROVE  /\ FetchDot(n, s) \in (DrawDots + 1)..(FetchFirst - 1)
         /\ (FetchDot(n, s) - 1) % TileDots = s
         /\ ((FetchDot(n, s) - DrawDots - 1) \div TileDots) + 1 = n
         /\ FetchDot(n, s) = FetchDot(n, 0) + s /\ DrawDots + 1 <= FetchDot(n, 0)
<1> DEFINE K == TileDots
           D == DrawDots
           p == K * (n - 1)
           q == K * MaxSprites
           m == D \div K
           o == K * m
<1>1. K \in Nat \ {0} /\ D \in Nat /\ MaxSprites \in Nat \ {0} /\ n - 1 \in Nat /\ n \in Nat
  BY TileSizes
<1>2. FetchFirst = D + 1 + q /\ q \in Nat
  <2>1. q = MaxSprites * TileDots /\ q \in Nat
    BY <1>1
  <2> QED
    BY <2>1, TileSizes
<1>3. p \in Nat /\ p + K <= q /\ FetchDot(n, s) = D + 1 + p + s /\ FetchDot(n, 0) = D + 1 + p
  <2>1. n * K <= MaxSprites * K /\ n * K \in Nat
    BY <1>1, TimesMonotone
  <2>2. p \in Nat /\ p + K = n * K /\ p = (n - 1) * K /\ MaxSprites * K = q
    BY <1>1
  <2>3. FetchDot(n, s) = D + 1 + p + s /\ FetchDot(n, 0) = D + 1 + p
    BY <1>1, <2>2 DEF FetchDot
  <2> QED
    BY <2>1, <2>2, <2>3
<1>4. D = o /\ m \in Nat
  <2>1. m \in Nat /\ D = (D % K) + o
    BY <1>1, QuotientTimes
  <2>2. D % K = 0 /\ o \in Nat
    <3>1. D % K = 0
      BY AddressAssumption
    <3> QED
      BY <1>1, <2>1, <3>1
  <2> QED
    BY <2>1, <2>2
<1>5. (FetchDot(n, s) - 1) % K = s
  <2>1. K * (m + (n - 1)) = o + p /\ m + (n - 1) \in Nat
    <3>1. \A x, y, z \in Nat : x * (y + z) = x * y + x * z
      OBVIOUS
    <3> HIDE DEF m
    <3> QED
      BY <1>1, <1>4, <3>1
  <2> DEFINE r == m + (n - 1)
  <2>2. r \in Nat /\ K * r = o + p
    BY <2>1
  <2> HIDE DEF r, m
  <2>3. (s + K * r) % K = s
    BY <1>1, <2>2, DigitRemains
  <2>4. s + K * r = FetchDot(n, s) - 1
    <3> HIDE DEF K, D, o, p
    <3> QED
      BY <1>1, <1>3, <1>4, <2>2
  <2> QED
    BY <2>3, <2>4
<1>6. ((FetchDot(n, s) - D - 1) \div K) + 1 = n
  <2>1. (s + K * (n - 1)) \div K = n - 1
    BY <1>1, DigitIs
  <2>2. FetchDot(n, s) - D - 1 = s + K * (n - 1)
    <3> HIDE DEF D
    <3>1. FetchDot(n, s) - D - 1 = s + p
      <4> HIDE DEF p
      <4> QED
        BY <1>1, <1>3
    <3> QED
      BY <3>1
  <2> QED
    BY <1>1, <2>1, <2>2
<1>7. FetchDot(n, s) \in (D + 1)..(FetchFirst - 1)
  <2> HIDE DEF p, q, D, K, m, o
  <2>1. s \in 0..(K - 1)
    BY DEF K
  <2> QED
    BY <1>1, <1>2, <1>3, <2>1
<1>8. FetchDot(n, s) = FetchDot(n, 0) + s /\ D + 1 <= FetchDot(n, 0)
  <2> HIDE DEF p, q, D, K, m, o
  <2>1. s \in 0..(K - 1)
    BY DEF K
  <2> QED
    BY <1>1, <1>3, <2>1
<1> QED
  BY <1>5, <1>6, <1>7, <1>8

(* Every dot of the sprites' fetches is one of these.                      *)
SpriteIndex == ((dot - DrawDots - 1) \div TileDots) + 1

LEMMA SpriteSlot ==
  ASSUME dot \in Nat, SpriteFetch
  PROVE  SpriteIndex \in 1..MaxSprites /\ dot = FetchDot(SpriteIndex, Slot) /\ Slot \in 0..(TileDots - 1)
<1> DEFINE K == TileDots
           x == dot - DrawDots - 1
           i == x \div K
           r == x % K
           n == i + 1
<1>1. K \in Nat \ {0} /\ DrawDots \in Nat /\ MaxSprites \in Nat \ {0}
      /\ FetchFirst = DrawDots + 1 + MaxSprites * K /\ MaxSprites * K \in Nat
  <2>1. \A y, z \in Nat : y * z \in Nat
    OBVIOUS
  <2> QED
    BY <2>1, TileSizes
<1>2. dot \in (DrawDots + 1)..(FetchFirst - 1)
  BY DEF SpriteFetch
<1>3. x \in Nat /\ x < MaxSprites * K /\ dot = DrawDots + 1 + x
  <2> DEFINE q == MaxSprites * K
  <2>1. q \in Nat /\ FetchFirst = DrawDots + 1 + q
    BY <1>1
  <2> HIDE DEF q, K
  <2>2. x \in Nat /\ x < q /\ dot = DrawDots + 1 + x
    BY <1>1, <1>2, <2>1
  <2> QED
    BY <2>2 DEF q
<1> HIDE DEF x
<1>4. i \in Nat /\ r \in 0..(K - 1) /\ i * K <= x /\ x = r + K * i
  BY <1>1, <1>3, QuotientTimes
<1> HIDE DEF i, r
<1>5. i < MaxSprites
  <2> SUFFICES ASSUME MaxSprites <= i PROVE FALSE
    BY <1>1, <1>4
  <2>1. MaxSprites * K <= i * K /\ i * K \in Nat
    BY <1>1, <1>4, TimesMonotone
  <2> QED
    BY <1>1, <1>3, <1>4, <2>1
<1>6. n \in 1..MaxSprites /\ n - 1 = i
  BY <1>1, <1>4, <1>5
<1>7. dot = FetchDot(n, r)
  <2>1. (n - 1) * K = K * i
    BY <1>1, <1>4, <1>6
  <2> DEFINE p == K * i
  <2>2. FetchDot(n, r) = DrawDots + 1 + p + r
    BY <2>1 DEF FetchDot
  <2>3. p \in Nat /\ x = r + p
    BY <1>1, <1>4
  <2> HIDE DEF p, n
  <2> QED
    BY <1>1, <1>3, <1>4, <2>2, <2>3
<1>8. r = Slot
  <2>1. (FetchDot(n, r) - 1) % TileDots = r
    BY <1>4, <1>6, FetchDots
  <2> QED
    BY <1>7, <2>1 DEF Slot
<1>9. n = SpriteIndex
  BY DEF SpriteIndex, i, x
<1> QED
  BY <1>4, <1>6, <1>7, <1>8, <1>9

-----------------------------------------------------------------------------
(* What the sprites' registers hold                                        *)
Registers == [tile : Int \X BOOLEAN, row : Int, horiz : BOOLEAN, left : 0..TileDots]

SpriteTypes ==
  /\ oam \in [1..NSprites -> Sprites]
  /\ \A n \in DOMAIN eval_sprites : n \in 1..MaxSprites /\ eval_sprites[n] \in Sprites
  /\ sprite_xs \in [1..MaxSprites -> 0..(ByteSpan - 1)]
  /\ sprite_regs \in [1..MaxSprites -> [1..2 -> Registers]]

LEMMA EmptyType == Empty \in Registers
<1> DEFINE e == <<-1, FALSE>>
<1>1. e \in Int \X BOOLEAN
  <2>1. -1 \in Int /\ FALSE \in BOOLEAN
    OBVIOUS
  <2> QED
    BY <2>1
<1>2. 0 \in 0..TileDots
  BY TileSizes
<1>3. Empty = [tile |-> e, row |-> 0, horiz |-> FALSE, left |-> 0]
  BY DEF Empty
<1> HIDE DEF e
<1> QED
  BY <1>1, <1>2, <1>3 DEF Registers

LEMMA SpriteTypesInit == PictureInit => SpriteTypes
<1> SUFFICES ASSUME PictureInit PROVE SpriteTypes
  OBVIOUS
<1>1. oam \in [1..NSprites -> Sprites]
  BY SpriteAssumption DEF PictureInit
<1>2. \A n \in DOMAIN eval_sprites : n \in 1..MaxSprites /\ eval_sprites[n] \in Sprites
  <2>1. eval_sprites = <<>>
    BY DEF PictureInit
  <2>2. DOMAIN eval_sprites = {}
    BY <2>1
  <2> QED
    BY <2>2
<1>3. sprite_xs \in [1..MaxSprites -> 0..(ByteSpan - 1)]
  <2>1. 0 \in 0..(ByteSpan - 1)
    BY DEF ByteSpan
  <2> QED
    BY <2>1 DEF PictureInit
<1>4. sprite_regs \in [1..MaxSprites -> [1..2 -> Registers]]
  BY EmptyType DEF PictureInit
<1> QED
  BY <1>1, <1>2, <1>3, <1>4 DEF SpriteTypes

LEMMA RowIsInt ==
  ASSUME NEW a \in Nat, NEW s \in Sprites, NEW tall \in BOOLEAN
  PROVE  SpriteRow(a, s, tall) \in Int
<1> DEFINE r == CoarseY(a) * FineRows + FineY(a) - 1 - s.y
           o == Offset(a, s)
<1>1. CoarseY(a) \in Nat /\ FineY(a) \in Nat /\ FineRows \in Nat \ {0}
  BY FieldRanges, FieldSizes
<1>2. s.y \in Int /\ s.verti \in BOOLEAN
  BY DEF Sprites
<1>3. r \in Int
  <2>1. CoarseY(a) * FineRows \in Nat
    <3>1. \A x, y \in Nat : x * y \in Nat
      OBVIOUS
    <3> QED
      BY <1>1, <3>1
  <2> QED
    BY <1>1, <1>2, <2>1
<1>4. o = r % ByteSpan
  BY DEF Offset
<1> HIDE DEF r, o
<1>5. o \in Int
  BY <1>3, <1>4 DEF ByteSpan
<1>6. (FineRows - 1 - o) % ByteSpan \in Int
  BY <1>1, <1>5 DEF ByteSpan
<1> DEFINE h == o \div FineRows
           k == o % FineRows
           g == OtherTile(h)
<1>7. h \in Int /\ k \in Int
  BY <1>1, <1>5
<1> HIDE DEF h, k
<1>8. g \in Int
  BY <1>7 DEF OtherTile
<1> HIDE DEF g
<1>9. FineRows * g + FineRows - 1 - k \in Int
  BY <1>1, <1>7, <1>8
<1>10. SpriteRow(a, s, tall) = IF ~s.verti THEN o
                               ELSE IF ~tall THEN (FineRows - 1 - o) % ByteSpan
                               ELSE FineRows * g + FineRows - 1 - k
  BY <1>2 DEF SpriteRow, o, h, k, g
<1> QED
  BY <1>5, <1>6, <1>9, <1>10

LEMMA FetchedTypes ==
  ASSUME SpriteTypes, v \in Nat, ctrl.tall \in BOOLEAN, NEW n \in 1..MaxSprites
  PROVE  /\ FetchedSprite(n).x \in 0..(ByteSpan - 1)
         /\ Plane(FetchedSprite(n), n) \in Registers
<1>1. TileDots \in 0..TileDots /\ 0 \in 0..TileDots
  BY TileSizes
<1>2. CASE n \in DOMAIN eval_sprites
  <2>1. FetchedSprite(n) = eval_sprites[n] /\ FetchedSprite(n) \in Sprites
    BY <1>2 DEF FetchedSprite, SpriteTypes
  <2>2. SpriteRow(v, FetchedSprite(n), ctrl.tall) \in Int
    BY <2>1, RowIsInt
  <2>3. /\ FetchedSprite(n).x \in 0..(ByteSpan - 1) /\ FetchedSprite(n).tile \in Int
        /\ FetchedSprite(n).horiz \in BOOLEAN
    BY <2>1 DEF Sprites
  <2> QED
    BY <1>1, <1>2, <2>2, <2>3 DEF Plane, Registers
<1>3. CASE n \notin DOMAIN eval_sprites
  <2>1. FetchedSprite(n).x \in 0..(ByteSpan - 1)
    BY <1>3 DEF FetchedSprite, Unused, ByteSpan
  <2> QED
    BY <1>3, <2>1, EmptyType DEF Plane
<1> QED
  BY <1>2, <1>3

(* A register that counts down and shifts                                  *)
Counted(n) == IF Arrived(n) THEN 0 ELSE sprite_xs[n] - 1
ShiftedPlane(n, plane) ==
  IF Arrived(n) /\ sprite_regs[n][plane].left > 0
  THEN [sprite_regs[n][plane] EXCEPT !.left = sprite_regs[n][plane].left - 1]
  ELSE sprite_regs[n][plane]

(* The four things that a dot does to the sprites                          *)
LEMMA SpriteCases ==
  ASSUME FetchAndDrawSprites, dot \in Nat
  PROVE  \/ /\ SpriteFetch /\ Slot = 5 /\ sprite_xs' = sprite_xs
            /\ sprite_regs' = [sprite_regs EXCEPT ![SpriteIndex][1] = Plane(FetchedSprite(SpriteIndex), SpriteIndex)]
         \/ /\ SpriteFetch /\ Slot = 7
            /\ sprite_regs' = [sprite_regs EXCEPT ![SpriteIndex][2] = Plane(FetchedSprite(SpriteIndex), SpriteIndex)]
            /\ sprite_xs' = [sprite_xs EXCEPT ![SpriteIndex] = FetchedSprite(SpriteIndex).x]
         \/ /\ Drawing
            /\ sprite_xs' = [i \in 1..MaxSprites |-> Counted(i)]
            /\ sprite_regs' = [i \in 1..MaxSprites |-> [plane \in 1..2 |-> ShiftedPlane(i, plane)]]
         \/ /\ ~Drawing /\ ~(SpriteFetch /\ Slot = 5) /\ ~(SpriteFetch /\ Slot = 7)
            /\ sprite_regs' = sprite_regs /\ sprite_xs' = sprite_xs
<1>1. ~(SpriteFetch /\ Drawing)
  BY TileSizes DEF SpriteFetch, Drawing
<1>2. CASE SpriteFetch /\ Slot = 5
  BY <1>1, <1>2 DEF FetchAndDrawSprites, SpriteIndex
<1>3. CASE SpriteFetch /\ Slot = 7
  BY <1>1, <1>3 DEF FetchAndDrawSprites, SpriteIndex
<1>4. CASE Drawing
  <2>1. /\ sprite_xs' = [i \in 1..MaxSprites |-> IF Arrived(i) THEN 0 ELSE sprite_xs[i] - 1]
        /\ sprite_regs' = [i \in 1..MaxSprites |-> [plane \in 1..2 |->
             LET left == sprite_regs[i][plane].left
             IN  IF Arrived(i) /\ left > 0
                 THEN [sprite_regs[i][plane] EXCEPT !.left = left - 1]
                 ELSE sprite_regs[i][plane]]]
    BY <1>1, <1>4 DEF FetchAndDrawSprites
  <2> QED
    BY <1>4, <2>1 DEF Counted, ShiftedPlane
<1>5. CASE ~Drawing /\ ~(SpriteFetch /\ Slot = 5) /\ ~(SpriteFetch /\ Slot = 7)
  BY <1>5 DEF FetchAndDrawSprites
<1> QED
  BY <1>2, <1>3, <1>4, <1>5

LEMMA RegisterStep ==
  ASSUME SpriteTypes, FetchAndDrawSprites, dot \in Nat, NEW n \in 1..MaxSprites
  PROVE  /\ Fetching /\ dot = FetchDot(n, 5) => sprite_regs'[n][1] = Plane(FetchedSprite(n), n)
         /\ Fetching /\ dot = FetchDot(n, 7) =>
              /\ sprite_regs'[n][2] = Plane(FetchedSprite(n), n)
              /\ sprite_xs'[n] = FetchedSprite(n).x
         /\ Drawing => /\ sprite_xs'[n] = Counted(n)
                       /\ \A plane \in 1..2 : sprite_regs'[n][plane] = ShiftedPlane(n, plane)
         /\ ~Drawing /\ dot # FetchDot(n, 5) => sprite_regs'[n][1] = sprite_regs[n][1]
         /\ ~Drawing /\ dot # FetchDot(n, 7) =>
              sprite_xs'[n] = sprite_xs[n] /\ sprite_regs'[n][2] = sprite_regs[n][2]
<1>1. 5 \in 0..(TileDots - 1) /\ 7 \in 0..(TileDots - 1)
  BY TileSizes
<1>2. /\ sprite_xs \in [1..MaxSprites -> 0..(ByteSpan - 1)]
      /\ sprite_regs \in [1..MaxSprites -> [1..2 -> Registers]]
  BY DEF SpriteTypes
<1>3. ASSUME NEW s \in {5, 7}, dot = FetchDot(n, s), Fetching
      PROVE  SpriteFetch /\ Slot = s /\ SpriteIndex = n /\ ~Drawing
  <2>1. /\ dot \in (DrawDots + 1)..(FetchFirst - 1) /\ (dot - 1) % TileDots = s
        /\ ((dot - DrawDots - 1) \div TileDots) + 1 = n
    BY <1>1, <1>3, FetchDots
  <2>2. ~(dot \in 1..DrawDots)
    BY <2>1, TileSizes
  <2> QED
    BY <1>3, <2>1, <2>2 DEF SpriteFetch, Slot, SpriteIndex, Drawing
<1>4. ASSUME SpriteFetch, SpriteIndex = n PROVE dot = FetchDot(n, Slot)
  BY <1>4, SpriteSlot
<1>5. SpriteFetch => SpriteIndex \in 1..MaxSprites /\ ~Drawing /\ Fetching
  BY SpriteSlot, TileSizes DEF SpriteFetch, Drawing
<1> DEFINE i == SpriteIndex
           e == Plane(FetchedSprite(i), i)
           x == FetchedSprite(i).x
<1>6. CASE /\ SpriteFetch /\ Slot = 5 /\ sprite_xs' = sprite_xs
           /\ sprite_regs' = [sprite_regs EXCEPT ![i][1] = e]
  <2>1. dot # FetchDot(n, 7) /\ sprite_regs'[n][2] = sprite_regs[n][2]
    <3>1. dot # FetchDot(n, 7)
      BY <1>3, <1>5, <1>6
    <3> HIDE DEF i, e
    <3> QED
      BY <1>2, <1>6, <3>1
  <2>2. CASE i = n
    <3>1. dot = FetchDot(n, 5)
      BY <1>4, <1>6, <2>2
    <3>2. sprite_regs'[n][1] = e
      <4> HIDE DEF i, e
      <4> QED
        BY <1>2, <1>6, <2>2
    <3>3. e = Plane(FetchedSprite(n), n)
      BY <2>2
    <3> QED
      BY <1>5, <1>6, <2>1, <3>1, <3>2, <3>3
  <2>3. CASE i # n
    <3>1. dot # FetchDot(n, 5)
      BY <1>3, <1>5, <2>3, <1>6
    <3>2. sprite_regs'[n][1] = sprite_regs[n][1]
      <4> HIDE DEF i, e
      <4> QED
        BY <1>2, <1>6, <2>3
    <3> QED
      BY <1>5, <1>6, <2>1, <3>1, <3>2
  <2> QED
    BY <2>2, <2>3
<1>7. CASE /\ SpriteFetch /\ Slot = 7
           /\ sprite_regs' = [sprite_regs EXCEPT ![i][2] = e]
           /\ sprite_xs' = [sprite_xs EXCEPT ![i] = x]
  <2>1. dot # FetchDot(n, 5)
    BY <1>3, <1>5, <1>7
  <2>2. sprite_regs'[n][1] = sprite_regs[n][1]
    <3> HIDE DEF i, e, x
    <3> QED
      BY <1>2, <1>7
  <2>3. CASE i = n
    <3>1. dot = FetchDot(n, 7)
      BY <1>4, <1>7, <2>3
    <3>2. sprite_xs'[n] = x /\ sprite_regs'[n][2] = e
      <4> HIDE DEF i, e, x
      <4> QED
        BY <1>2, <1>7, <2>3
    <3>3. x = FetchedSprite(n).x /\ e = Plane(FetchedSprite(n), n)
      BY <2>3
    <3> QED
      BY <1>5, <1>7, <2>1, <2>2, <3>1, <3>2, <3>3
  <2>4. CASE i # n
    <3>1. dot # FetchDot(n, 7)
      BY <1>3, <1>5, <2>4, <1>7
    <3>2. sprite_xs'[n] = sprite_xs[n] /\ sprite_regs'[n][2] = sprite_regs[n][2]
      <4> HIDE DEF i, e, x
      <4> QED
        BY <1>2, <1>7, <2>4
    <3> QED
      BY <1>5, <1>7, <2>1, <2>2, <3>1, <3>2
  <2> QED
    BY <2>3, <2>4
<1>8. CASE /\ Drawing
           /\ sprite_xs' = [m \in 1..MaxSprites |-> Counted(m)]
           /\ sprite_regs' = [m \in 1..MaxSprites |-> [plane \in 1..2 |-> ShiftedPlane(m, plane)]]
  <2>1. sprite_xs'[n] = Counted(n)
    BY <1>8
  <2>2. \A plane \in 1..2 : sprite_regs'[n][plane] = ShiftedPlane(n, plane)
    <3>1. sprite_regs'[n] = [plane \in 1..2 |-> ShiftedPlane(n, plane)]
      BY <1>8
    <3> QED
      BY <3>1
  <2>3. ~(Fetching /\ dot = FetchDot(n, 5)) /\ ~(Fetching /\ dot = FetchDot(n, 7))
    BY <1>3, <1>8
  <2> QED
    BY <1>8, <2>1, <2>2, <2>3
<1>9. CASE /\ ~Drawing /\ ~(SpriteFetch /\ Slot = 5) /\ ~(SpriteFetch /\ Slot = 7)
           /\ sprite_regs' = sprite_regs /\ sprite_xs' = sprite_xs
  <2>1. ~(Fetching /\ dot = FetchDot(n, 5)) /\ ~(Fetching /\ dot = FetchDot(n, 7))
    BY <1>3, <1>9
  <2> QED
    BY <1>9, <2>1
<1> QED
  BY <1>6, <1>7, <1>8, <1>9, SpriteCases

(* The same of either plane                                                *)
SlotOf(plane) == IF plane = 1 THEN 5 ELSE 7

LEMMA PlaneStep ==
  ASSUME SpriteTypes, FetchAndDrawSprites, dot \in Nat, NEW n \in 1..MaxSprites, NEW plane \in 1..2
  PROVE  /\ Fetching /\ dot = FetchDot(n, SlotOf(plane)) =>
              sprite_regs'[n][plane] = Plane(FetchedSprite(n), n)
         /\ Drawing => sprite_regs'[n][plane] = ShiftedPlane(n, plane)
         /\ ~Drawing /\ dot # FetchDot(n, SlotOf(plane)) =>
              sprite_regs'[n][plane] = sprite_regs[n][plane]
<1>1. CASE plane = 1
  <2>1. SlotOf(plane) = 5
    BY <1>1 DEF SlotOf
  <2> QED
    BY <1>1, <2>1, RegisterStep
<1>2. CASE plane = 2
  <2>1. SlotOf(plane) = 7
    BY <1>2 DEF SlotOf
  <2> QED
    BY <1>2, <2>1, RegisterStep
<1> QED
  BY <1>1, <1>2

LEMMA StepSpriteTypes ==
  ASSUME SpriteTypes, PictureStep, v \in Nat, dot \in Nat, ctrl.tall \in BOOLEAN
  PROVE  SpriteTypes'
<1>1. oam' = oam /\ EvaluateSprites /\ FetchAndDrawSprites
  BY DEF PictureStep
<1>2. oam' \in [1..NSprites -> Sprites]
  BY <1>1 DEF SpriteTypes
<1>3. \A n \in DOMAIN eval_sprites' : n \in 1..MaxSprites /\ eval_sprites'[n] \in Sprites
  <2>1. CASE Evaluating
    <3>1. eval_sprites' = Taken(sl)
      BY <1>1, <2>1 DEF EvaluateSprites
    <3> QED
      BY <3>1, TakenSprites DEF SpriteTypes
  <2>2. CASE ~Evaluating
    <3>1. eval_sprites' = eval_sprites
      BY <1>1, <2>2 DEF EvaluateSprites
    <3> QED
      BY <3>1 DEF SpriteTypes
  <2> QED
    BY <2>1, <2>2
<1>4. /\ sprite_xs \in [1..MaxSprites -> 0..(ByteSpan - 1)]
      /\ sprite_regs \in [1..MaxSprites -> [1..2 -> Registers]]
  BY DEF SpriteTypes
<1>5. SpriteFetch => SpriteIndex \in 1..MaxSprites
  BY SpriteSlot
<1>6. \A n \in 1..MaxSprites : /\ FetchedSprite(n).x \in 0..(ByteSpan - 1)
                               /\ Plane(FetchedSprite(n), n) \in Registers
  BY FetchedTypes
<1>7. \A n \in 1..MaxSprites : Counted(n) \in 0..(ByteSpan - 1)
  <2> SUFFICES ASSUME NEW n \in 1..MaxSprites PROVE Counted(n) \in 0..(ByteSpan - 1)
    OBVIOUS
  <2>1. sprite_xs[n] \in 0..(ByteSpan - 1)
    BY <1>4
  <2> QED
    BY <2>1 DEF Counted, Arrived, ByteSpan
<1>8. \A n \in 1..MaxSprites, plane \in 1..2 : ShiftedPlane(n, plane) \in Registers
  <2> SUFFICES ASSUME NEW n \in 1..MaxSprites, NEW plane \in 1..2
               PROVE  ShiftedPlane(n, plane) \in Registers
    OBVIOUS
  <2>1. sprite_regs[n][plane] \in Registers /\ TileDots \in Nat
    BY <1>4, TileSizes
  <2> QED
    BY <2>1 DEF ShiftedPlane, Registers
<1> DEFINE i == SpriteIndex
           e == Plane(FetchedSprite(i), i)
           x == FetchedSprite(i).x
<1>9. /\ sprite_xs' \in [1..MaxSprites -> 0..(ByteSpan - 1)]
      /\ sprite_regs' \in [1..MaxSprites -> [1..2 -> Registers]]
  <2>1. CASE /\ SpriteFetch /\ Slot = 5 /\ sprite_xs' = sprite_xs
             /\ sprite_regs' = [sprite_regs EXCEPT ![i][1] = e]
    <3>1. i \in 1..MaxSprites /\ e \in Registers
      BY <1>5, <1>6, <2>1
    <3> HIDE DEF i, e
    <3> QED
      BY <1>4, <2>1, <3>1
  <2>2. CASE /\ SpriteFetch /\ Slot = 7
             /\ sprite_regs' = [sprite_regs EXCEPT ![i][2] = e]
             /\ sprite_xs' = [sprite_xs EXCEPT ![i] = x]
    <3>1. i \in 1..MaxSprites /\ e \in Registers /\ x \in 0..(ByteSpan - 1)
      BY <1>5, <1>6, <2>2
    <3> HIDE DEF i, e, x
    <3> QED
      BY <1>4, <2>2, <3>1
  <2>3. CASE /\ Drawing
             /\ sprite_xs' = [m \in 1..MaxSprites |-> Counted(m)]
             /\ sprite_regs' = [m \in 1..MaxSprites |-> [plane \in 1..2 |-> ShiftedPlane(m, plane)]]
    BY <1>7, <1>8, <2>3
  <2>4. CASE sprite_regs' = sprite_regs /\ sprite_xs' = sprite_xs
    BY <1>4, <2>4
  <2> QED
    BY <1>1, <2>1, <2>2, <2>3, <2>4, SpriteCases
<1> QED
  BY <1>2, <1>3, <1>9 DEF SpriteTypes

-----------------------------------------------------------------------------
(* Sprite evaluation.  The sprites found last are those of this line, once *)
(* its first dot has passed, until then and while nothing is drawn those   *)
(* of the line drawn before; the flag for sprite 0 follows a line later.   *)
LastEvaluated ==
  IF sl >= VisibleLines THEN VisibleLines - 1 ELSE IF dot = 0 THEN Preceding(sl) ELSE sl

Evaluated ==
  quiet # 0 => \A line \in Nat : line = LastEvaluated =>
    eval_sprites = Taken(line) /\ sprite0[1] = OnLine(oam[1], line)
Carried ==
  quiet = 2 /\ sl < VisibleLines /\ dot > 0 => \A line \in Nat : line = Preceding(sl) =>
    sprite0[2] = OnLine(oam[1], line)

LEMMA MemoryStays ==
  ASSUME oam' = oam, ctrl' = ctrl, NEW line
  PROVE  Taken(line)' = Taken(line) /\ OnLine(oam[1], line)' = OnLine(oam[1], line)
BY DEF Taken, Rank, Found, OnLine, Height

LEMMA StepEvaluated ==
  ASSUME SInv, PictureStep, Evaluated
  PROVE  Evaluated'
<1> SUFFICES ASSUME quiet' # 0, NEW line \in Nat, line = LastEvaluated'
             PROVE  eval_sprites' = Taken(line)' /\ sprite0'[1] = OnLine(oam[1], line)'
  BY DEF Evaluated
<1>1. Step /\ IInv /\ QuietWhere /\ EvaluateSprites /\ oam' = oam /\ ctrl' = ctrl
  BY DEF SInv, Scroll, PictureStep, Step
<1>2. /\ sl \in Nat /\ dot \in Nat /\ VisibleLines \in Nat \ {0} /\ Rendering
      /\ dot + 1 = LineLength => dot # 0
  BY <1>1, StepMoves, Dimensions
<1>3. Taken(line)' = Taken(line) /\ OnLine(oam[1], line)' = OnLine(oam[1], line)
  BY <1>1, MemoryStays
<1>4. CASE Evaluating
  <2>1. sl' = sl /\ dot' = dot + 1 /\ sl < VisibleLines
    BY <1>1, <1>2, <1>4, StepMoves DEF Evaluating
  <2>2. line = sl
    BY <1>2, <2>1 DEF LastEvaluated
  <2>3. eval_sprites' = Taken(sl) /\ sprite0'[1] = OnLine(oam[1], sl)
    BY <1>1, <1>4 DEF EvaluateSprites
  <2> QED
    BY <1>3, <2>2, <2>3
<1>5. CASE ~Evaluating
  <2>1. eval_sprites' = eval_sprites /\ sprite0' = sprite0
    BY <1>1, <1>5 DEF EvaluateSprites, Step
  <2>2. dot # 0 \/ sl >= VisibleLines
    BY <1>2, <1>5 DEF Evaluating
  <2>3. quiet # 0
    BY <1>1, <1>2, <2>2, StepMoves, Dimensions DEF QuietWhere
  <2>4. line = LastEvaluated
    <3>1. CASE sl' = sl /\ dot' = dot + 1
      BY <1>2, <2>2, <3>1 DEF LastEvaluated
    <3>2. CASE sl < PreRender /\ sl' = sl + 1 /\ dot' = 0 /\ dot + 1 = LineLength
      BY <1>2, <3>2 DEF LastEvaluated, Preceding
    <3>3. CASE sl = PreRender /\ sl' = 0 /\ dot' = 0
      BY <1>2, <3>3, Dimensions DEF LastEvaluated, Preceding
    <3> QED
      BY <1>1, <3>1, <3>2, <3>3, StepMoves
  <2>5. eval_sprites = Taken(line) /\ sprite0[1] = OnLine(oam[1], line)
    BY <2>3, <2>4 DEF Evaluated
  <2> QED
    BY <1>3, <2>1, <2>5
<1> QED
  BY <1>4, <1>5

LEMMA StepCarried ==
  ASSUME SInv, PictureStep, Evaluated, Carried
  PROVE  Carried'
<1> SUFFICES ASSUME quiet' = 2, sl' < VisibleLines, dot' > 0, NEW line \in Nat, line = Preceding(sl')
             PROVE  sprite0'[2] = OnLine(oam[1], line)'
  BY DEF Carried, Preceding
<1>1. Step /\ IInv /\ QuietWhere /\ oam' = oam /\ ctrl' = ctrl
  BY DEF SInv, Scroll, PictureStep, Step
<1>2. sl \in Nat /\ dot \in Nat /\ Rendering /\ sl' = sl /\ dot' = dot + 1 /\ quiet = 2
  BY <1>1, StepMoves, QuietBefore, Dimensions
<1>3. OnLine(oam[1], line)' = OnLine(oam[1], line)
  BY <1>1, MemoryStays
<1>4. CASE dot = 0
  <2>1. sprite0'[2] = sprite0[1]
    BY <1>1, <1>2, <1>4 DEF Evaluating, Step
  <2>2. line = LastEvaluated
    BY <1>2, <1>4, Dimensions DEF LastEvaluated
  <2>3. sprite0[1] = OnLine(oam[1], line)
    BY <1>2, <2>2 DEF Evaluated
  <2> QED
    BY <1>3, <2>1, <2>3
<1>5. CASE dot # 0
  <2>1. sprite0' = sprite0
    BY <1>1, <1>5 DEF Evaluating, Step
  <2>2. sprite0[2] = OnLine(oam[1], line)
    BY <1>2, <1>5 DEF Carried
  <2> QED
    BY <1>3, <2>1, <2>2
<1> QED
  BY <1>4, <1>5

-----------------------------------------------------------------------------
(* The sprites' fetches, in the dots after the line's last pixel.  The row *)
(* that was fetched is the one of the address register at a, which keeps   *)
(* its row on a visible line from here on.                                 *)
Shows(reg, s, a, tall) ==
  reg.tile = <<s.tile, tall>> /\ reg.row = SpriteRow(a, s, tall) /\ reg.horiz = s.horiz

Holds(reg, n, found, a, tall, visible) ==
  IF n \in DOMAIN found
  THEN reg.left = TileDots /\ (visible => Shows(reg, found[n], a, tall))
  ELSE reg.left = 0

Fetched ==
  quiet # 0 /\ ~Outside => \A n \in 1..MaxSprites :
    /\ \A plane \in 1..2 : dot > FetchDot(n, SlotOf(plane)) =>
         Holds(sprite_regs[n][plane], n, eval_sprites, v, ctrl.tall, sl < VisibleLines)
    /\ dot > FetchDot(n, 7) => sprite_xs[n] = FetchedSprite(n).x

LEMMA RowAtSame ==
  ASSUME NEW a, NEW b, SameRow(b, a), NEW reg, NEW s, NEW tall
  PROVE  Shows(reg, s, a, tall) => Shows(reg, s, b, tall)
BY DEF SameRow, Shows, SpriteRow, Offset

LEMMA PlaneHolds ==
  ASSUME NEW n
  PROVE  Holds(Plane(FetchedSprite(n), n), n, eval_sprites, v, ctrl.tall, TRUE)
<1>1. CASE n \in DOMAIN eval_sprites
  <2> DEFINE s == eval_sprites[n]
             r == SpriteRow(v, s, ctrl.tall)
  <2>1. Plane(FetchedSprite(n), n) = [tile |-> <<s.tile, ctrl.tall>>, row |-> r,
                                      horiz |-> s.horiz, left |-> TileDots]
    BY <1>1 DEF Plane, FetchedSprite
  <2>2. r = SpriteRow(v, s, ctrl.tall)
    OBVIOUS
  <2> HIDE DEF r, s
  <2>3. /\ Shows(Plane(FetchedSprite(n), n), s, v, ctrl.tall)
        /\ Plane(FetchedSprite(n), n).left = TileDots
    BY <2>1, <2>2 DEF Shows
  <2> QED
    BY <1>1, <2>3 DEF Holds, s
<1>2. CASE n \notin DOMAIN eval_sprites
  BY <1>2 DEF Holds, Plane, Empty
<1> QED
  BY <1>1, <1>2

LEMMA StepFetched ==
  ASSUME SInv, SpriteTypes, PictureStep, Fetched
  PROVE  Fetched'
<1>0. ctrl' = ctrl
  BY DEF PictureStep, Step
<1> SUFFICES ASSUME quiet' # 0, ~Outside', NEW n \in 1..MaxSprites
             PROVE  /\ \A plane \in 1..2 : dot' > FetchDot(n, SlotOf(plane)) =>
                         Holds(sprite_regs'[n][plane], n, eval_sprites', v', ctrl'.tall,
                               sl' < VisibleLines)
                    /\ dot' > FetchDot(n, 7) => sprite_xs'[n] = FetchedSprite(n)'.x
  BY DEF Fetched
<1>1. Step /\ IInv /\ QuietWhere /\ EvaluateSprites /\ FetchAndDrawSprites /\ v \in Nat /\ t \in Nat
  BY AddressNat DEF SInv, TypeOK, Scroll, PictureStep
<1>2. 5 \in 0..(TileDots - 1) /\ 7 \in 0..(TileDots - 1)
  BY TileSizes
<1> DEFINE f == FetchDot(n, 0)
<1>3. FetchDot(n, 5) = f + 5 /\ FetchDot(n, 7) = f + 7 /\ DrawDots + 1 <= f /\ f \in Nat
  <2>1. FetchDot(n, 5) = f + 5 /\ FetchDot(n, 7) = f + 7 /\ DrawDots + 1 <= f
    BY <1>2, FetchDots
  <2>2. 0 \in 0..(TileDots - 1) /\ DrawDots \in Nat
    BY TileSizes
  <2>3. f \in (DrawDots + 1)..(FetchFirst - 1)
    BY <2>2, FetchDots
  <2> QED
    BY <2>1, <2>2, <2>3
<1> HIDE DEF f
<1>4. /\ sl \in Nat /\ dot \in Nat /\ DrawDots \in Nat
      /\ dot' > f + 5 => sl' = sl /\ dot' = dot + 1 /\ dot >= f + 5 /\ dot > DrawDots + 1
  BY <1>1, <1>3, StepMoves, Dimensions
<1>5. ASSUME dot' > f + 5
      PROVE  /\ quiet # 0 /\ ~Outside /\ Rendering /\ Fetching
             /\ ~Drawing /\ eval_sprites' = eval_sprites /\ FetchedSprite(n)' = FetchedSprite(n)
             /\ sl < VisibleLines => SameRow(v', v)
  <2>1. quiet # 0
    BY <1>1, <1>4, <1>5, StepMoves DEF QuietWhere
  <2>2. ~Outside /\ Rendering /\ Fetching
    BY <1>1, <1>4, <1>5, <2>1 DEF Outside, QuietWhere, Fetching
  <2>3. ~Drawing /\ ~Evaluating
    BY <1>4, <1>5 DEF Drawing, Evaluating
  <2>4. eval_sprites' = eval_sprites
    BY <1>1, <2>3 DEF EvaluateSprites
  <2>5. FetchedSprite(n)' = FetchedSprite(n)
    BY <2>4 DEF FetchedSprite
  <2>6. sl < VisibleLines => SameRow(v', v)
    BY <1>1, <1>4, <1>5, <2>1, VisibleRow
  <2> QED
    BY <2>1, <2>2, <2>3, <2>4, <2>5, <2>6
<1>6. ASSUME NEW plane \in 1..2, dot' > FetchDot(n, SlotOf(plane))
      PROVE  Holds(sprite_regs'[n][plane], n, eval_sprites', v', ctrl'.tall, sl' < VisibleLines)
  <2> DEFINE g == FetchDot(n, SlotOf(plane))
  <2>1. g \in Nat /\ g >= f + 5
    BY <1>3 DEF SlotOf
  <2>2. dot' > g /\ g = FetchDot(n, SlotOf(plane))
    BY <1>6
  <2> HIDE DEF g
  <2>3. dot' > f + 5
    <3>1. dot' \in Nat
      BY <1>1, StepMoves
    <3> QED
      BY <1>3, <2>1, <2>2, <3>1
  <2>4. sl' = sl /\ dot' = dot + 1 /\ dot \in Nat
    BY <1>4, <2>3
  <2>5. Holds(sprite_regs'[n][plane], n, eval_sprites, v, ctrl.tall, sl < VisibleLines)
    <3>1. CASE dot = g
      <4>1. sprite_regs'[n][plane] = Plane(FetchedSprite(n), n)
        BY <1>1, <1>5, <2>2, <2>3, <2>4, <3>1, PlaneStep
      <4>2. Holds(sprite_regs'[n][plane], n, eval_sprites, v, ctrl.tall, TRUE)
        BY <4>1, PlaneHolds
      <4> QED
        BY <4>2 DEF Holds
    <3>2. CASE dot > g
      <4>1. sprite_regs'[n][plane] = sprite_regs[n][plane]
        <5>1. dot # FetchDot(n, SlotOf(plane))
          BY <2>1, <2>2, <2>4, <3>2
        <5> QED
          BY <1>1, <1>5, <2>3, <2>4, <5>1, PlaneStep
      <4>2. Holds(sprite_regs[n][plane], n, eval_sprites, v, ctrl.tall, sl < VisibleLines)
        BY <1>5, <2>2, <2>3, <3>2 DEF Fetched
      <4> QED
        BY <4>1, <4>2
    <3> QED
      BY <2>1, <2>2, <2>4, <3>1, <3>2
  <2> QED
    BY <1>0, <1>5, <2>3, <2>4, <2>5, RowAtSame DEF Holds
<1>7. ASSUME dot' > FetchDot(n, 7) PROVE sprite_xs'[n] = FetchedSprite(n)'.x
  <2>1. dot' > f + 5 /\ dot' > f + 7
    <3>1. dot' \in Nat
      BY <1>1, StepMoves
    <3> QED
      BY <1>3, <1>7, <3>1
  <2>2. CASE dot = f + 7
    <3>1. dot = FetchDot(n, 7)
      BY <1>3, <2>2
    <3> QED
      BY <1>1, <1>4, <1>5, <2>1, <3>1, RegisterStep
  <2>3. CASE dot > f + 7
    <3>1. sprite_xs'[n] = sprite_xs[n]
      <4>1. dot # FetchDot(n, 7)
        BY <1>3, <1>4, <2>3
      <4> QED
        BY <1>1, <1>4, <1>5, <2>1, <4>1, RegisterStep
    <3>2. sprite_xs[n] = FetchedSprite(n).x
      BY <1>3, <1>5, <2>1, <2>3 DEF Fetched
    <3> QED
      BY <1>5, <2>1, <3>1, <3>2
  <2> QED
    BY <1>3, <1>4, <2>1, <2>2, <2>3
<1> QED
  BY <1>6, <1>7

-----------------------------------------------------------------------------
(* The sprites of the line that is drawn, when c of its dots have passed:  *)
(* each at its position less c, and what is left of it, if it has arrived. *)
Placed(x, reg, s, c) ==
  /\ x = IF s.x > c THEN s.x - c ELSE 0
  /\ reg.left = IF c <= Left(s) THEN TileDots
                ELSE IF c < Left(s) + TileDots THEN Left(s) + TileDots - c ELSE 0

ReadyAt(x, reg, n, found, c, a, tall, below) ==
  IF n \in DOMAIN found
  THEN Placed(x, reg, found[n], c) /\ (below => Shows(reg, found[n], a, tall))
  ELSE reg.left = 0

Drawn(d) == IF d = 0 THEN 0 ELSE d - 1

Ready ==
  quiet = 2 /\ sl < VisibleLines /\ dot <= DrawDots => \A line \in Nat : line = Preceding(sl) =>
    \A n \in 1..MaxSprites, plane \in 1..2 :
      ReadyAt(sprite_xs[n], sprite_regs[n][plane], n, Taken(line), Drawn(dot), v, ctrl.tall, sl > 0)

LEMMA PlacedMoves ==
  ASSUME NEW s \in Sprites, NEW c \in Nat, NEW x, NEW reg \in Registers, Placed(x, reg, s, c),
         NEW y, y = IF x <= 1 THEN 0 ELSE x - 1,
         NEW r, r = IF x <= 1 /\ reg.left > 0 THEN [reg EXCEPT !.left = reg.left - 1] ELSE reg
  PROVE  Placed(y, r, s, c + 1) /\ r.tile = reg.tile /\ r.row = reg.row /\ r.horiz = reg.horiz
<1>1. s.x \in Nat /\ Left(s) \in Nat /\ Left(s) = (IF s.x = 0 THEN 0 ELSE s.x - 1)
  <2>1. s.x \in 0..(ByteSpan - 1)
    BY DEF Sprites
  <2> QED
    BY <2>1 DEF Left, ByteSpan
<1>2. TileDots \in Nat \ {0}
  BY TileSizes
<1> DEFINE z == s.x
           f == Left(s)
           m == reg.left
<1>3. x = (IF z > c THEN z - c ELSE 0)
  BY DEF Placed
<1>4. m = IF c <= f THEN TileDots ELSE IF c < f + TileDots THEN f + TileDots - c ELSE 0
  BY DEF Placed
<1>5. /\ r.left = (IF x <= 1 /\ m > 0 THEN m - 1 ELSE m)
      /\ r.tile = reg.tile /\ r.row = reg.row /\ r.horiz = reg.horiz
  BY DEF Registers
<1> HIDE DEF z, f, m
<1>6. x <= 1 <=> f <= c
  BY <1>1, <1>3 DEF z, f
<1>7. y = IF z > c + 1 THEN z - (c + 1) ELSE 0
  BY <1>1, <1>3 DEF z
<1>8. r.left = IF c + 1 <= f THEN TileDots
               ELSE IF c + 1 < f + TileDots THEN f + TileDots - (c + 1) ELSE 0
  <2> DEFINE n == r.left
  <2>1. f \in Nat /\ n = (IF x <= 1 /\ m > 0 THEN m - 1 ELSE m)
    BY <1>1, <1>5 DEF f
  <2> HIDE DEF n
  <2>2. n = IF c + 1 <= f THEN TileDots
            ELSE IF c + 1 < f + TileDots THEN f + TileDots - (c + 1) ELSE 0
    BY <1>2, <1>4, <1>6, <2>1
  <2> QED
    BY <2>2 DEF n
<1> QED
  BY <1>5, <1>7, <1>8 DEF Placed, z, f

(* At the end of a line every sprite is loaded.                            *)
LEMMA LoadedAtEnd ==
  ASSUME SpriteTypes, Fetched, quiet # 0, ~Outside, dot \in Nat, dot >= FetchFirst,
         NEW n \in 1..MaxSprites, NEW plane \in 1..2
  PROVE  ReadyAt(sprite_xs[n], sprite_regs[n][plane], n, eval_sprites, 0, v, ctrl.tall,
                 sl < VisibleLines)
<1>1. 5 \in 0..(TileDots - 1) /\ 7 \in 0..(TileDots - 1) /\ DrawDots \in Nat /\ FetchFirst \in Nat
      /\ TileDots \in Nat
  BY TileSizes
<1>2. dot > FetchDot(n, SlotOf(plane)) /\ dot > FetchDot(n, 7)
  <2>1. /\ FetchDot(n, 5) \in (DrawDots + 1)..(FetchFirst - 1)
        /\ FetchDot(n, 7) \in (DrawDots + 1)..(FetchFirst - 1)
    BY <1>1, FetchDots
  <2> QED
    BY <1>1, <2>1 DEF SlotOf
<1>3. /\ Holds(sprite_regs[n][plane], n, eval_sprites, v, ctrl.tall, sl < VisibleLines)
      /\ sprite_xs[n] = FetchedSprite(n).x
  BY <1>2 DEF Fetched
<1>4. CASE n \in DOMAIN eval_sprites
  <2> DEFINE s == eval_sprites[n]
  <2>1. sprite_xs[n] = s.x /\ s \in Sprites
    BY <1>3, <1>4 DEF FetchedSprite, SpriteTypes
  <2>2. s.x \in 0..(ByteSpan - 1)
    BY <2>1 DEF Sprites
  <2>3. /\ sprite_regs[n][plane].left = TileDots
        /\ (sl < VisibleLines => Shows(sprite_regs[n][plane], s, v, ctrl.tall))
    BY <1>3, <1>4 DEF Holds
  <2> HIDE DEF s
  <2>4. 0 <= Left(s)
    BY <2>2 DEF Left, ByteSpan
  <2>5. Placed(sprite_xs[n], sprite_regs[n][plane], s, 0)
    BY <2>1, <2>2, <2>3, <2>4 DEF Placed, ByteSpan
  <2> QED
    BY <1>4, <2>3, <2>5 DEF ReadyAt, s
<1>5. CASE n \notin DOMAIN eval_sprites
  BY <1>3, <1>5 DEF Holds, ReadyAt
<1> QED
  BY <1>4, <1>5

LEMMA ReadyOnRow ==
  ASSUME NEW x, NEW reg, NEW n, NEW found, NEW c, NEW a, NEW b, NEW tall, NEW below \in BOOLEAN,
         below => SameRow(b, a), ReadyAt(x, reg, n, found, c, a, tall, below)
  PROVE  ReadyAt(x, reg, n, found, c, b, tall, below)
BY RowAtSame DEF ReadyAt

LEMMA ReadyMoves ==
  ASSUME SpriteTypes, NEW n \in 1..MaxSprites, NEW plane \in 1..2, NEW line, NEW c \in Nat,
         NEW a, NEW tall, NEW below \in BOOLEAN,
         ReadyAt(sprite_xs[n], sprite_regs[n][plane], n, Taken(line), c, a, tall, below)
  PROVE  ReadyAt(Counted(n), ShiftedPlane(n, plane), n, Taken(line), c + 1, a, tall, below)
<1> DEFINE x == sprite_xs[n]
           reg == sprite_regs[n][plane]
           y == Counted(n)
           r == ShiftedPlane(n, plane)
           found == Taken(line)
<1>1. /\ y = IF x <= 1 THEN 0 ELSE x - 1
      /\ r = IF x <= 1 /\ reg.left > 0 THEN [reg EXCEPT !.left = reg.left - 1] ELSE reg
  BY DEF Counted, ShiftedPlane, Arrived
<1>2. reg \in Registers
  BY DEF SpriteTypes
<1>3. n \in DOMAIN found => found[n] \in Sprites
  BY TakenSprites DEF SpriteTypes
<1> HIDE DEF x, reg, y, r, found
<1>4. ReadyAt(x, reg, n, found, c, a, tall, below)
  BY DEF x, reg, found
<1>5. CASE n \in DOMAIN found
  <2>1. Placed(x, reg, found[n], c) /\ (below => Shows(reg, found[n], a, tall))
    BY <1>4, <1>5 DEF ReadyAt
  <2>2. /\ Placed(y, r, found[n], c + 1)
        /\ r.tile = reg.tile /\ r.row = reg.row /\ r.horiz = reg.horiz
    BY <1>1, <1>2, <1>3, <1>5, <2>1, PlacedMoves
  <2>3. below => Shows(r, found[n], a, tall)
    BY <2>1, <2>2 DEF Shows
  <2>4. ReadyAt(y, r, n, found, c + 1, a, tall, below)
    BY <1>5, <2>2, <2>3 DEF ReadyAt
  <2> QED
    BY <2>4 DEF y, r, found
<1>6. CASE n \notin DOMAIN found
  <2>1. reg.left = 0
    BY <1>4, <1>6 DEF ReadyAt
  <2>2. r = reg
    BY <1>1, <2>1
  <2>3. ReadyAt(y, r, n, found, c + 1, a, tall, below)
    BY <1>6, <2>1, <2>2 DEF ReadyAt
  <2> QED
    BY <2>3 DEF y, r, found
<1> QED
  BY <1>5, <1>6

LEMMA StepReady ==
  ASSUME SInv, SpriteTypes, PictureStep, Evaluated, Fetched, Ready
  PROVE  Ready'
<1> SUFFICES ASSUME quiet' = 2, sl' < VisibleLines, dot' <= DrawDots,
                    NEW line \in Nat, line = Preceding(sl'), NEW n \in 1..MaxSprites,
                    NEW plane \in 1..2
             PROVE  ReadyAt(sprite_xs'[n], sprite_regs'[n][plane], n, Taken(line)', Drawn(dot'), v',
                            ctrl'.tall, sl' > 0)
  BY DEF Ready, Preceding, Drawn
<1>1. Step /\ IInv /\ QuietWhere /\ FetchAndDrawSprites /\ v \in Nat /\ t \in Nat /\ oam' = oam /\ ctrl' = ctrl
  BY AddressNat DEF SInv, TypeOK, Scroll, PictureStep, Step
<1>2. /\ TileDots \in Nat \ {0} /\ FetchFirst \in Nat /\ FetchLast \in Nat /\ DrawDots \in Nat
      /\ Dots \in Nat /\ DrawDots + 2 < FetchFirst /\ FetchLast = FetchFirst + 2 * TileDots - 1
      /\ FetchLast + 1 < Dots /\ 5 \in 0..(TileDots - 1) /\ 7 \in 0..(TileDots - 1)
  BY TileSizes
<1>3. quiet = 2
  BY <1>1, QuietBefore
<1>4. sl \in Nat /\ dot \in Nat /\ sl <= PreRender /\ Rendering /\ LineLength \in {Dots - 1, Dots}
  BY <1>1, StepMoves, Dimensions
<1>5. Taken(line)' = Taken(line)
  BY <1>1, MemoryStays
<1>6. dot # FetchDot(n, 7) /\ dot # FetchDot(n, SlotOf(plane))
  <2>1. ~(dot \in (DrawDots + 1)..(FetchFirst - 1))
    BY <1>1, <1>2, <1>4, StepMoves
  <2> QED
    BY <1>2, <2>1, FetchDots DEF SlotOf
<1>7. CASE sl' = sl /\ dot' = dot + 1
  <2>1. sl < VisibleLines /\ dot <= DrawDots /\ dot # DrawDots + 1
    BY <1>2, <1>4, <1>7
  <2>2. SameRow(v', v)
    BY <1>1, <1>3, <2>1, VisibleRow
  <2>3. ReadyAt(sprite_xs[n], sprite_regs[n][plane], n, Taken(line), Drawn(dot), v, ctrl.tall, sl > 0)
    BY <1>3, <1>7, <2>1 DEF Ready
  <2> DEFINE c == Drawn(dot)
             below == sl > 0
  <2>4. c \in Nat /\ below \in BOOLEAN
    BY <1>4 DEF Drawn
  <2>5. ReadyAt(sprite_xs[n], sprite_regs[n][plane], n, Taken(line), c, v', ctrl.tall, below)
    <3>1. ReadyAt(sprite_xs[n], sprite_regs[n][plane], n, Taken(line), c, v, ctrl.tall, below)
      BY <2>3
    <3> HIDE DEF c, below
    <3>2. below => SameRow(v', v)
      BY <2>2
    <3> QED
      BY <2>4, <3>1, <3>2, ReadyOnRow
  <2> HIDE DEF c, below
  <2>6. CASE dot = 0
    <3>1. sprite_xs'[n] = sprite_xs[n] /\ sprite_regs'[n][plane] = sprite_regs[n][plane]
      <4>1. ~Drawing
        BY <2>6 DEF Drawing
      <4> QED
        BY <1>1, <1>4, <1>6, <4>1, RegisterStep, PlaneStep
    <3>2. Drawn(dot') = c
      BY <1>7, <2>6 DEF Drawn, c
    <3>3. (sl' > 0) = below
      BY <1>7 DEF below
    <3> QED
      BY <1>1, <1>5, <2>5, <3>1, <3>2, <3>3
  <2>7. CASE dot # 0
    <3>1. Drawing
      BY <1>2, <1>4, <2>1, <2>7 DEF Drawing
    <3>2. sprite_xs'[n] = Counted(n) /\ sprite_regs'[n][plane] = ShiftedPlane(n, plane)
      BY <1>1, <1>4, <3>1, RegisterStep, PlaneStep
    <3>3. Drawn(dot') = c + 1
      BY <1>4, <1>7, <2>7 DEF Drawn, c
    <3>4. ReadyAt(Counted(n), ShiftedPlane(n, plane), n, Taken(line), c + 1, v', ctrl.tall, below)
      BY <2>4, <2>5, ReadyMoves
    <3>5. (sl' > 0) = below
      BY <1>7 DEF below
    <3> QED
      BY <1>1, <1>5, <3>2, <3>3, <3>4, <3>5
  <2> QED
    BY <2>6, <2>7
<1>8. CASE /\ dot' = 0 /\ dot + 1 = LineLength
           /\ (sl' = sl + 1 /\ sl < PreRender) \/ (sl = PreRender /\ sl' = 0)
  <2>1. dot >= FetchFirst /\ dot > DrawDots + 2
    BY <1>2, <1>4, <1>8
  <2>2. ~Outside /\ line = LastEvaluated
    BY <1>4, <1>8, <2>1, <1>2, Dimensions DEF Outside, LastEvaluated, Preceding
  <2>3. sprite_xs'[n] = sprite_xs[n] /\ sprite_regs'[n][plane] = sprite_regs[n][plane]
    <3>1. ~Drawing
      BY <1>2, <2>1 DEF Drawing
    <3> QED
      BY <1>1, <1>4, <1>6, <3>1, RegisterStep, PlaneStep
  <2>4. eval_sprites = Taken(line)
    BY <1>3, <2>2 DEF Evaluated
  <2> DEFINE below == sl' > 0
             visible == sl < VisibleLines
  <2>5. below => visible
    BY <1>4, <1>8, Dimensions
  <2>6. ReadyAt(sprite_xs[n], sprite_regs[n][plane], n, eval_sprites, 0, v, ctrl.tall, visible)
    <3>1. quiet # 0
      BY <1>3
    <3> QED
      BY <1>4, <2>1, <2>2, <3>1, LoadedAtEnd, Zenon
  <2>7. (below => SameRow(v', v)) /\ below \in BOOLEAN
    BY <1>1, <1>2, <1>3, <2>1, <2>5, VisibleRow
  <2> HIDE DEF below, visible
  <2>8. ReadyAt(sprite_xs[n], sprite_regs[n][plane], n, Taken(line), 0, v, ctrl.tall, below)
    BY <2>4, <2>5, <2>6 DEF ReadyAt
  <2>9. ReadyAt(sprite_xs[n], sprite_regs[n][plane], n, Taken(line), 0, v', ctrl.tall, below)
    BY <2>7, <2>8, ReadyOnRow
  <2>10. Drawn(dot') = 0
    BY <1>8 DEF Drawn
  <2> QED
    BY <1>1, <1>5, <2>3, <2>9, <2>10 DEF below
<1> QED
  BY <1>1, <1>7, <1>8, StepMoves

-----------------------------------------------------------------------------
(* The sprite at a pixel                                                   *)
LEMMA LeastOf ==
  ASSUME NEW S, S \subseteq Nat, S # {}
  PROVE  \E x \in S : \A y \in S : x <= y
<1> DEFINE R == {ss \in Nat \X Nat : ss[1] < ss[2]}
<1>1. R = OpToRel(<, Nat)
  BY DEF OpToRel
<1>2. IsWellFoundedOn(R, Nat)
  BY <1>1, NatLessThanWellFounded
<1> HIDE DEF R
<1>3. PICK x \in S : \A y \in S : ~(<<y, x>> \in R)
  BY <1>2, WFMin
<1>4. ASSUME NEW y \in S PROVE x <= y
  <2>1. <<y, x>> \in R <=> y < x
    BY DEF R
  <2> QED
    BY <1>3, <2>1
<1> QED
  BY <1>4

(* The sprites found on a line that cover pixel c of the next              *)
InFront(line, c) ==
  {n \in DOMAIN Taken(line) : c - Left(Taken(line)[n]) \in 0..(TileDots - 1)}

LEMMA FrontSprite ==
  ASSUME SpriteTypes, NEW n \in 1..MaxSprites, NEW plane \in 1..2, NEW line,
         NEW c \in Nat, NEW a, NEW tall, NEW below \in BOOLEAN,
         ReadyAt(sprite_xs[n], sprite_regs[n][plane], n, Taken(line), c, a, tall, below)
  PROVE  /\ sprite_regs[n][plane].left \in Nat
         /\ n \in InFront(line, c) <=> Arrived(n) /\ sprite_regs[n][plane].left > 0
         /\ n \in InFront(line, c) =>
              /\ sprite_regs[n][plane].left = TileDots - (c - Left(Taken(line)[n]))
              /\ below => Shows(sprite_regs[n][plane], Taken(line)[n], a, tall)
<1> DEFINE x == sprite_xs[n]
           reg == sprite_regs[n][plane]
           m == reg.left
           found == Taken(line)
<1>1. TileDots \in Nat \ {0}
  BY TileSizes
<1>2. m \in Nat
  <2>1. reg \in Registers
    BY DEF SpriteTypes
  <2> QED
    BY <1>1, <2>1 DEF Registers
<1>3. n \in DOMAIN found => found[n] \in Sprites
  BY TakenSprites DEF SpriteTypes
<1> HIDE DEF x, reg, m, found
<1>4. ReadyAt(x, reg, n, found, c, a, tall, below) /\ (Arrived(n) <=> x <= 1) /\ m = reg.left
      /\ InFront(line, c) = {i \in DOMAIN found : c - Left(found[i]) \in 0..(TileDots - 1)}
  BY DEF x, reg, m, found, Arrived, InFront
<1>5. CASE n \in DOMAIN found
  <2> DEFINE s == found[n]
             z == s.x
             f == Left(s)
  <2>1. z \in Nat /\ f \in Nat /\ f = (IF z = 0 THEN 0 ELSE z - 1)
    <3>1. z \in 0..(ByteSpan - 1)
      BY <1>3, <1>5 DEF Sprites
    <3>2. f = (IF z = 0 THEN 0 ELSE z - 1)
      BY DEF Left
    <3> HIDE DEF f, z, s
    <3> QED
      BY <3>1, <3>2 DEF ByteSpan
  <2>2. /\ x = (IF z > c THEN z - c ELSE 0)
        /\ m = (IF c <= f THEN TileDots ELSE IF c < f + TileDots THEN f + TileDots - c ELSE 0)
        /\ below => Shows(reg, s, a, tall)
    BY <1>4, <1>5 DEF ReadyAt, Placed
  <2>3. n \in InFront(line, c) <=> c - f \in 0..(TileDots - 1)
    BY <1>4, <1>5
  <2> HIDE DEF s, z, f
  <2>4. x <= 1 <=> f <= c
    BY <2>1, <2>2
  <2>5. n \in InFront(line, c) <=> x <= 1 /\ m > 0
    BY <1>1, <2>1, <2>2, <2>3, <2>4
  <2>6. n \in InFront(line, c) => m = TileDots - (c - f)
    BY <1>1, <2>1, <2>2, <2>3
  <2> QED
    BY <1>2, <1>4, <2>2, <2>5, <2>6 DEF x, reg, m, found, s, f
<1>6. CASE n \notin DOMAIN found
  <2>1. m = 0 /\ n \notin InFront(line, c)
    BY <1>4, <1>6 DEF ReadyAt
  <2> QED
    BY <1>2, <2>1 DEF reg, m
<1> QED
  BY <1>5, <1>6

(* Of those with an opaque pixel the first is on top.                      *)
Solid == {n \in 1..MaxSprites : Arrived(n) /\ SpriteOpaque(n)}

LEMMA TopSprite ==
  /\ \A n : n \in OnTop <=> n \in Solid /\ \A o \in Solid : n <= o
  /\ OnTop = {} <=> Solid = {}
  /\ \A n \in OnTop : (CHOOSE i \in OnTop : TRUE) = n
<1>1. Solid \subseteq 1..MaxSprites
  BY DEF Solid
<1>2. MaxSprites \in Nat
  BY TileSizes
<1>3. OnTop = {n \in 1..MaxSprites : n \in Solid /\ \A o \in 1..(n - 1) : o \notin Solid}
  <2>1. \A n \in 1..MaxSprites : \A o \in 1..(n - 1) :
          o \in Solid <=> Arrived(o) /\ SpriteOpaque(o)
    BY <1>2 DEF Solid
  <2>2. \A n \in 1..MaxSprites : n \in Solid <=> Arrived(n) /\ SpriteOpaque(n)
    BY DEF Solid
  <2> QED
    BY <2>1, <2>2 DEF OnTop
<1>4. ASSUME NEW n PROVE n \in OnTop <=> n \in Solid /\ \A o \in Solid : n <= o
  <2>1. ASSUME n \in OnTop, NEW o \in Solid, ~(n <= o) PROVE FALSE
    <3>1. n \in 1..MaxSprites /\ o \in 1..MaxSprites /\ o \in 1..(n - 1)
      BY <1>1, <1>2, <1>3, <2>1
    <3> QED
      BY <1>3, <2>1, <3>1
  <2>2. ASSUME n \in Solid, \A o \in Solid : n <= o PROVE n \in OnTop
    <3>1. n \in 1..MaxSprites
      BY <1>1, <2>2
    <3>2. \A o \in 1..(n - 1) : ~(n <= o)
      BY <1>2, <3>1
    <3> QED
      BY <1>3, <2>2, <3>1, <3>2
  <2> QED
    BY <1>3, <2>1, <2>2
<1>5. ASSUME Solid # {} PROVE OnTop # {}
  <2>1. Solid \subseteq Nat
    BY <1>1, <1>2
  <2>2. PICK n \in Solid : \A o \in Solid : n <= o
    BY <1>5, <2>1, LeastOf
  <2> QED
    BY <1>4, <2>2
<1>6. OnTop = {} <=> Solid = {}
  BY <1>4, <1>5
<1>7. ASSUME NEW n \in OnTop PROVE (CHOOSE i \in OnTop : TRUE) = n
  <2>1. ASSUME NEW i \in OnTop PROVE i = n
    <3>1. i \in Solid /\ n \in Solid /\ i <= n /\ n <= i
      BY <1>4, <1>7, <2>1
    <3> QED
      BY <1>1, <1>2, <3>1
  <2>2. (CHOOSE i \in OnTop : TRUE) \in OnTop
    BY <1>7
  <2> QED
    BY <2>1, <2>2
<1> QED
  BY <1>4, <1>6, <1>7

-----------------------------------------------------------------------------
(* The row and the pixel that are the sprite's own                         *)
LEMMA OwnRow ==
  ASSUME NEW a \in Nat, NEW s \in Sprites, NEW line \in Nat, line + 1 < VisibleLines,
         Row(FineY(a), a) = line + 1, OnLine(s, line), ctrl.tall \in BOOLEAN
  PROVE  SpriteRow(a, s, ctrl.tall) = IF s.verti THEN Height - 1 - (line - s.y) ELSE line - s.y
<1> DEFINE f == FineY(a)
           y == CoarseY(a)
           ny == NtY(a)
           F == FineRows
           R == Rows
           p == F * y
           q == F * R
           z == s.y
           H == Height
<1>1. /\ f \in 0..(F - 1) /\ y \in Nat /\ ny \in 0..1 /\ F \in Nat \ {0} /\ R \in Nat \ {0}
      /\ VisibleLines \in Nat /\ VisibleLines <= q /\ 2 * F <= ByteSpan /\ p \in Nat /\ q \in Nat
  <2>1. f \in 0..(F - 1) /\ y \in Nat /\ ny \in 0..1 /\ F \in Nat \ {0} /\ R \in Nat \ {0}
    BY FieldRanges, FieldSizes
  <2>2. VisibleLines \in Nat /\ VisibleLines <= q /\ 2 * F <= ByteSpan
    BY Dimensions, SpriteAssumption
  <2>3. p \in Nat /\ q \in Nat
    BY <2>1
  <2> QED
    BY <2>1, <2>2, <2>3
<1>2. z \in Nat /\ z <= line /\ line < z + H /\ s.verti \in BOOLEAN
  BY DEF Sprites, OnLine, ByteSpan
<1>3. f + F * (y + R * ny) = line + 1
  BY DEF Row
<1>4. F * (y + R * ny) = p + q * ny
  <2> HIDE DEF F, y, R, ny
  <2> QED
    BY <1>1
<1> DEFINE o == F * (y + R * ny)
<1>5. p + f = line + 1
  <2>1. CASE ny = 0
    <3>1. q * ny = 0
      <4> HIDE DEF q, ny
      <4> QED
        BY <1>1, <2>1
    <3>2. o = p + q * ny /\ f + o = line + 1
      BY <1>3, <1>4
    <3> HIDE DEF o, p, q, f, ny
    <3>3. o = p
      BY <1>1, <3>1, <3>2
    <3> QED
      BY <1>1, <3>2, <3>3
  <2>2. CASE ny = 1
    <3>1. q * ny = q
      <4> HIDE DEF q, ny
      <4> QED
        BY <1>1, <2>2
    <3>2. o = p + q * ny /\ f + o = line + 1
      BY <1>3, <1>4
    <3> HIDE DEF o, p, q, f, ny
    <3> QED
      BY <1>1, <3>1, <3>2
  <2> QED
    BY <1>1, <2>1, <2>2
<1>6. y * F = p
  <2> HIDE DEF y, F
  <2> QED
    BY <1>1
<1> DEFINE e == y * F + f - 1 - z
           c == e % ByteSpan
<1>7. e = line - z
  <2> DEFINE g == y * F
  <2>1. g = p
    BY <1>6
  <2> HIDE DEF g, p, f, z
  <2>2. g + f - 1 - z = line - z
    BY <1>1, <1>2, <1>5, <2>1
  <2> QED
    BY <2>2 DEF g
<1>8. Offset(a, s) = c
  BY DEF Offset
<1>9. H = IF ctrl.tall THEN 2 * F ELSE F
  BY DEF Height
<1> DEFINE h == c \div F
           m == c % F
<1>10. SpriteRow(a, s, ctrl.tall) = IF ~s.verti THEN c
                                    ELSE IF ~ctrl.tall THEN (F - 1 - c) % ByteSpan
                                    ELSE F * OtherTile(h) + F - 1 - m
  BY <1>2, <1>8 DEF SpriteRow
<1> HIDE DEF e, F, z, H
<1>11. e \in 0..(H - 1) /\ e \in 0..(ByteSpan - 1)
  BY <1>1, <1>2, <1>7, <1>9 DEF ByteSpan
<1>12. c = e
  <2>1. ByteSpan \in Nat \ {0}
    BY DEF ByteSpan
  <2> QED
    BY <1>11, <2>1, SmallDigit
<1> HIDE DEF c
<1>13. ASSUME ~ctrl.tall PROVE (F - 1 - c) % ByteSpan = H - 1 - e
  <2>1. /\ ByteSpan \in Nat \ {0} /\ F - 1 - c \in 0..(ByteSpan - 1)
        /\ F - 1 - c = H - 1 - e
    BY <1>1, <1>9, <1>11, <1>12, <1>13 DEF ByteSpan
  <2> QED
    BY <2>1, SmallDigit
<1>14. ASSUME ctrl.tall PROVE F * OtherTile(h) + F - 1 - m = H - 1 - e
  <2>1. /\ h \in Nat /\ m \in 0..(F - 1) /\ h * F <= c /\ c = m + F * h
    <3>1. c \in Nat
      BY <1>11, <1>12
    <3> QED
      BY <1>1, <3>1, QuotientTimes
  <2> HIDE DEF h, m
  <2>2. c < 2 * F /\ c \in Nat /\ H = 2 * F
    BY <1>1, <1>9, <1>11, <1>12, <1>14
  <2>3. h = 0 \/ h = 1
    <3>1. ASSUME 2 <= h PROVE FALSE
      <4>1. 2 * F <= h * F /\ h * F \in Nat
        BY <1>1, <2>1, <3>1, TimesMonotone
      <4> DEFINE g == h * F
      <4>2. g <= c /\ 2 * F <= g /\ g \in Nat
        BY <2>1, <4>1
      <4> HIDE DEF g
      <4> QED
        BY <1>1, <2>2, <4>2
    <3> QED
      BY <2>1, <3>1
  <2>4. CASE h = 0
    <3>1. OtherTile(h) = 1 /\ F * h = 0
      BY <1>1, <2>4 DEF OtherTile
    <3>2. F * OtherTile(h) = F
      BY <1>1, <3>1
    <3> QED
      BY <1>1, <1>12, <2>1, <2>2, <3>1, <3>2
  <2>5. CASE h = 1
    <3>1. OtherTile(h) = 0 /\ F * h = F
      BY <1>1, <2>5 DEF OtherTile
    <3>2. F * OtherTile(h) = 0
      BY <1>1, <3>1
    <3> QED
      BY <1>1, <1>12, <2>1, <2>2, <3>1, <3>2
  <2> QED
    BY <2>3, <2>4, <2>5
<1> QED
  BY <1>2, <1>7, <1>10, <1>12, <1>13, <1>14 DEF z, H

(* What every register holds when a pixel is drawn                         *)
LEMMA DrawnSprites ==
  ASSUME SInv, SpriteTypes, PictureStep, Ready, Drawing, quiet = 2,
         NEW line \in Nat, line = Preceding(sl), NEW c \in Nat, c = dot - 1
  PROVE  /\ InFront(line, c) \subseteq 1..MaxSprites
         /\ \A n \in 1..MaxSprites, plane \in 1..2 :
              /\ n \in InFront(line, c) <=> Arrived(n) /\ sprite_regs[n][plane].left > 0
              /\ n \in InFront(line, c) =>
                   /\ sprite_regs[n][plane].left = TileDots - (c - Left(Taken(line)[n]))
                   /\ sl > 0 => Shows(sprite_regs[n][plane], Taken(line)[n], v, ctrl.tall)
<1> DEFINE below == sl > 0
<1>1. dot \in 1..DrawDots /\ sl < VisibleLines /\ sl \in Nat /\ DrawDots \in Nat
  BY Dimensions, StepMoves DEF Drawing, SInv, Scroll, PictureStep
<1>2. Drawn(dot) = c /\ below \in BOOLEAN
  BY <1>1 DEF Drawn
<1>3. ASSUME NEW n \in 1..MaxSprites, NEW plane \in 1..2
      PROVE  ReadyAt(sprite_xs[n], sprite_regs[n][plane], n, Taken(line), c, v, ctrl.tall, below)
  BY <1>1, <1>2 DEF Ready
<1> HIDE DEF below
<1>4. ASSUME NEW n \in 1..MaxSprites, NEW plane \in 1..2
      PROVE  /\ n \in InFront(line, c) <=> Arrived(n) /\ sprite_regs[n][plane].left > 0
             /\ n \in InFront(line, c) =>
                  /\ sprite_regs[n][plane].left = TileDots - (c - Left(Taken(line)[n]))
                  /\ below => Shows(sprite_regs[n][plane], Taken(line)[n], v, ctrl.tall)
  BY <1>2, <1>3, FrontSprite
<1>5. InFront(line, c) \subseteq 1..MaxSprites
  BY TakenSprites DEF InFront, SpriteTypes
<1> QED
  BY <1>4, <1>5 DEF below

(* The pixel of a sprite found on a line that it has at column c of the    *)
(* next, and the sprites for which it is opaque                            *)
Own(s, line, c) ==
  <<<<<<s.tile, ctrl.tall>>, IF s.verti THEN Height - 1 - (line - s.y) ELSE line - s.y>>,
    IF s.horiz THEN TileDots - 1 - (c - Left(s)) ELSE c - Left(s)>>

OwnSolid(s, line, c) == \E plane \in 1..2 : OpaqueIn(plane, Own(s, line, c))

Solids(line, c) == {n \in InFront(line, c) : OwnSolid(Taken(line)[n], line, c)}

(* Where the address register agrees with the line, both planes of a       *)
(* register have that pixel at their end.                                  *)
LEMMA PixelIsOwn ==
  ASSUME SpriteTypes, v \in Nat, ctrl.tall \in BOOLEAN,
         NEW line \in Nat, line + 1 < VisibleLines, Row(FineY(v), v) = line + 1,
         NEW c \in Nat, NEW n \in InFront(line, c), NEW reg,
         reg.left = TileDots - (c - Left(Taken(line)[n])),
         Shows(reg, Taken(line)[n], v, ctrl.tall)
  PROVE  SpritePixel(reg) = Own(Taken(line)[n], line, c)
<1> DEFINE s == Taken(line)[n]
           k == c - Left(s)
<1>1. s \in Sprites /\ OnLine(s, line) /\ k \in 0..(TileDots - 1)
  BY TakenSprites DEF InFront, SpriteTypes
<1>2. reg.left = TileDots - k /\ Shows(reg, s, v, ctrl.tall)
  OBVIOUS
<1>3. Own(s, line, c) = <<<<<<s.tile, ctrl.tall>>,
                            IF s.verti THEN Height - 1 - (line - s.y) ELSE line - s.y>>,
                          IF s.horiz THEN TileDots - 1 - k ELSE k>>
  BY DEF Own
<1> HIDE DEF s, k
<1>4. reg.row = IF s.verti THEN Height - 1 - (line - s.y) ELSE line - s.y
  <2>1. SpriteRow(v, s, ctrl.tall) = IF s.verti THEN Height - 1 - (line - s.y) ELSE line - s.y
    BY <1>1, OwnRow
  <2> QED
    BY <1>2, <2>1 DEF Shows
<1>5. reg.tile = <<s.tile, ctrl.tall>> /\ reg.horiz = s.horiz
  BY <1>2 DEF Shows
<1>6. reg.left - 1 = TileDots - 1 - k /\ TileDots - reg.left = k
  BY <1>1, <1>2, TileSizes
<1>7. SpritePixel(reg) = <<<<reg.tile, reg.row>>, IF s.horiz THEN TileDots - 1 - k ELSE k>>
  BY <1>5, <1>6 DEF SpritePixel
<1> QED
  BY <1>3, <1>4, <1>5, <1>7 DEF s

LEMMA SolidSprites ==
  ASSUME SInv, SpriteTypes, PictureStep, Ready, Drawing, quiet = 2,
         NEW line \in Nat, line = Preceding(sl), NEW c \in Nat, c = dot - 1,
         sl > 0, Row(FineY(v), v) = sl
  PROVE  /\ Solid = Solids(line, c)
         /\ \A n \in Solid, plane \in 1..2 :
              SpritePixel(sprite_regs[n][plane]) = Own(Taken(line)[n], line, c)
<1>1. v \in Nat /\ ctrl.tall \in BOOLEAN
  BY AddressNat DEF SInv, TypeOK
<1>2. line + 1 = sl /\ sl < VisibleLines
  <2>1. sl \in Nat
    BY Dimensions, StepMoves DEF SInv, Scroll, PictureStep
  <2> QED
    BY <2>1 DEF Preceding, Drawing
<1>3. /\ InFront(line, c) \subseteq 1..MaxSprites
      /\ \A n \in 1..MaxSprites, plane \in 1..2 :
           /\ n \in InFront(line, c) <=> Arrived(n) /\ sprite_regs[n][plane].left > 0
           /\ n \in InFront(line, c) =>
                /\ sprite_regs[n][plane].left = TileDots - (c - Left(Taken(line)[n]))
                /\ sl > 0 => Shows(sprite_regs[n][plane], Taken(line)[n], v, ctrl.tall)
  BY DrawnSprites
<1>4. ASSUME NEW n \in InFront(line, c), NEW plane \in 1..2
      PROVE  /\ Arrived(n) /\ sprite_regs[n][plane].left > 0
             /\ SpritePixel(sprite_regs[n][plane]) = Own(Taken(line)[n], line, c)
  <2>1. n \in 1..MaxSprites
    BY <1>3
  <2>2. /\ Arrived(n) /\ sprite_regs[n][plane].left > 0
        /\ sprite_regs[n][plane].left = TileDots - (c - Left(Taken(line)[n]))
        /\ Shows(sprite_regs[n][plane], Taken(line)[n], v, ctrl.tall)
    BY <1>3, <2>1
  <2>3. line + 1 < VisibleLines /\ Row(FineY(v), v) = line + 1
    BY <1>2
  <2> QED
    BY <1>1, <2>2, <2>3, PixelIsOwn
<1>5. ASSUME NEW n \in InFront(line, c)
      PROVE  SpriteOpaque(n) <=> OwnSolid(Taken(line)[n], line, c)
  BY <1>4 DEF SpriteOpaque, OwnSolid
<1>6. ASSUME NEW n \in Solid PROVE n \in InFront(line, c)
  <2>1. n \in 1..MaxSprites /\ Arrived(n) /\ SpriteOpaque(n)
    BY DEF Solid
  <2>2. PICK plane \in 1..2 : sprite_regs[n][plane].left > 0
    BY <2>1 DEF SpriteOpaque
  <2> QED
    BY <1>3, <2>1, <2>2
<1>7. Solid = Solids(line, c)
  <2>1. ASSUME NEW n \in Solid PROVE n \in Solids(line, c)
    BY <1>5, <1>6 DEF Solid, Solids
  <2>2. ASSUME NEW n \in Solids(line, c) PROVE n \in Solid
    <3>1. n \in InFront(line, c) /\ OwnSolid(Taken(line)[n], line, c)
      BY DEF Solids
    <3>2. n \in 1..MaxSprites /\ Arrived(n) /\ SpriteOpaque(n)
      BY <1>3, <1>4, <1>5, <3>1
    <3> QED
      BY <3>2 DEF Solid
  <2> QED
    BY <2>1, <2>2
<1> QED
  BY <1>4, <1>6, <1>7

(* What the step has drawn where                                           *)
LEMMA PixelShown ==
  ASSUME SInv, PictureStep, quiet' = 2, Drawing
  PROVE  /\ quiet = 2 /\ sl' = sl /\ dot' = dot + 1 /\ mask' = mask /\ oam' = oam /\ ctrl' = ctrl
         /\ sl \in Nat /\ sl < VisibleLines /\ dot \in 1..DrawDots /\ dot \in Nat
         /\ shown'.x = dot - 1 /\ shown'.y = sl
         /\ shown'.sprite = IF SpriteShown
                            THEN LET regs == sprite_regs[CHOOSE n \in OnTop : TRUE]
                                 IN  <<SpritePixel(regs[1]), SpritePixel(regs[2])>>
                            ELSE NoSprite
<1>1. Step /\ IInv /\ QuietWhere /\ DrawPixel /\ oam' = oam /\ ctrl' = ctrl
  BY DEF SInv, Scroll, PictureStep, Step
<1>2. dot \in 1..DrawDots /\ sl < VisibleLines /\ sl \in Nat /\ dot \in Nat
  BY <1>1, StepMoves, Dimensions DEF Drawing
<1>3. sl' = sl /\ dot' = dot + 1 /\ mask' = mask
  BY <1>1, <1>2, StepMoves, Dimensions
<1>4. quiet = 2
  BY <1>1, <1>2, <1>3, QuietBefore
<1>5. /\ shown'.x = dot - 1 /\ shown'.y = sl
      /\ shown'.sprite = IF SpriteShown
                         THEN LET regs == sprite_regs[CHOOSE n \in OnTop : TRUE]
                              IN  <<SpritePixel(regs[1]), SpritePixel(regs[2])>>
                         ELSE NoSprite
  BY <1>1 DEF DrawPixel, Drawing
<1> QED
  BY <1>1, <1>2, <1>3, <1>4, <1>5

(* The claims about the pixel shown, in the terms of the step              *)
LEMMA ShownOnLine ==
  ASSUME oam' = oam, ctrl' = ctrl, NEW line, line = Preceding(shown'.y), NEW c, shown'.x = c
  PROVE  /\ OnPreceding' = Taken(line)
         /\ OnLine(oam[1], Preceding(shown.y))' = OnLine(oam[1], line)
         /\ Covers(oam[1])' <=> c - Left(oam[1]) \in 0..(TileDots - 1)
         /\ shown'.y - 1 = line =>
              /\ \A n : OwnPixel(OnPreceding[n])' = Own(Taken(line)[n], line, c)
              /\ OwnOpaque(oam[1])' <=> OwnSolid(oam[1], line, c)
              /\ Covering' = Solids(line, c)
<1>1. OnPreceding' = Taken(line)
  <2>1. OnPreceding' = Taken(Preceding(shown.y))'
    BY DEF OnPreceding
  <2>2. Taken(Preceding(shown.y))' = Taken(line)
    BY DEF Taken, Rank, Found, OnLine, Height
  <2> QED
    BY <2>1, <2>2
<1>2. OnLine(oam[1], Preceding(shown.y))' = OnLine(oam[1], line)
  BY DEF OnLine, Height
<1>3. Covers(oam[1])' <=> c - Left(oam[1]) \in 0..(TileDots - 1)
  BY DEF Covers, Left
<1>4. ASSUME shown'.y - 1 = line
      PROVE  /\ \A n : OwnPixel(OnPreceding[n])' = Own(Taken(line)[n], line, c)
             /\ OwnOpaque(oam[1])' <=> OwnSolid(oam[1], line, c)
             /\ Covering' = Solids(line, c)
  <2>1. \A n : OwnPixel(OnPreceding[n])' = Own(Taken(line)[n], line, c)
    BY <1>1, <1>4 DEF OwnPixel, Own, Height, Left
  <2>2. OwnOpaque(oam[1])' <=> OwnSolid(oam[1], line, c)
    BY <1>4 DEF OwnOpaque, OwnSolid, OwnPixel, Own, Height, Left
  <2>3. Covering' = {n \in DOMAIN OnPreceding' :
                       /\ c - Left(OnPreceding'[n]) \in 0..(TileDots - 1)
                       /\ \E plane \in 1..2 : OpaqueIn(plane, OwnPixel(OnPreceding[n])')}
    BY DEF Covering, Covers, OwnOpaque, Left
  <2>4. Covering' = {n \in DOMAIN Taken(line) :
                       /\ c - Left(Taken(line)[n]) \in 0..(TileDots - 1)
                       /\ \E plane \in 1..2 : OpaqueIn(plane, Own(Taken(line)[n], line, c))}
    BY <1>1, <2>1, <2>3
  <2> QED
    BY <2>1, <2>2, <2>4 DEF Solids, InFront, OwnSolid
<1> QED
  BY <1>1, <1>2, <1>3, <1>4

(* Where the picture is not scrolled, it was not before the step either.   *)
LEMMA UnscrolledBefore ==
  ASSUME SInv, PictureStep, Drawing, quiet = 2, shown'.y = sl, Unscrolled'
  PROVE  sl > 0 /\ Row(FineY(v), v) = sl
<1>1. Step /\ IInv /\ QuietWhere /\ v \in Nat /\ t \in Nat
  BY AddressNat DEF SInv, TypeOK, Scroll, PictureStep
<1>2. sl > 0 /\ Row(FineY(v'), v') = sl
  BY DEF Unscrolled
<1>3. SameRow(v', v)
  <2>1. dot # DrawDots + 1 /\ quiet # 0 /\ sl < VisibleLines
    BY Dimensions DEF Drawing
  <2> QED
    BY <1>1, <2>1, VisibleRow
<1> QED
  BY <1>2, <1>3 DEF SameRow, Row

LEMMA StepSpriteShown ==
  ASSUME SInv, SpriteTypes, PictureStep, Ready
  PROVE  SpriteOnItsLines'
<1> SUFFICES ASSUME quiet' = 2, Unscrolled', ShownHere("sprite", "left_sprite")'
             PROVE  IF Covering' = {} THEN shown'.sprite = NoSprite
                    ELSE \E n \in Covering' :
                           /\ \A o \in Covering' : n <= o
                           /\ shown'.sprite = <<OwnPixel(OnPreceding[n])', OwnPixel(OnPreceding[n])'>>
  BY DEF SpriteOnItsLines
<1>1. Drawing
  <2>1. ASSUME ~Drawing PROVE FALSE
    <3>1. shown' = NothingShown
      BY <2>1 DEF PictureStep, DrawPixel
    <3>2. shown'.y = -1
      BY <3>1 DEF NothingShown
    <3>3. shown'.y > 0
      BY DEF Unscrolled
    <3> QED
      BY <3>2, <3>3
  <2> QED
    BY <2>1
<1>2. /\ quiet = 2 /\ sl' = sl /\ dot' = dot + 1 /\ mask' = mask /\ oam' = oam /\ ctrl' = ctrl
      /\ sl \in Nat /\ sl < VisibleLines /\ dot \in 1..DrawDots /\ dot \in Nat
      /\ shown'.x = dot - 1 /\ shown'.y = sl
      /\ shown'.sprite = IF SpriteShown
                         THEN LET regs == sprite_regs[CHOOSE n \in OnTop : TRUE]
                              IN  <<SpritePixel(regs[1]), SpritePixel(regs[2])>>
                         ELSE NoSprite
  BY <1>1, PixelShown
<1> PICK line \in Nat : line = Preceding(sl)
  BY <1>2, Dimensions DEF Preceding
<1> PICK c \in Nat : c = dot - 1
  BY <1>2
<1>3. sl > 0 /\ Row(FineY(v), v) = sl
  BY <1>1, <1>2, UnscrolledBefore
<1>4. shown'.y - 1 = line
  BY <1>2, <1>3 DEF Preceding
<1>5. /\ \A n : OwnPixel(OnPreceding[n])' = Own(Taken(line)[n], line, c)
      /\ Covering' = Solids(line, c)
  BY <1>2, <1>4, ShownOnLine
<1>6. /\ Solid = Solids(line, c)
      /\ \A n \in Solid, plane \in 1..2 :
           SpritePixel(sprite_regs[n][plane]) = Own(Taken(line)[n], line, c)
  BY <1>1, <1>2, <1>3, SolidSprites
<1>7. SpriteShown <=> OnTop # {}
  <2>1. DrawnHere("sprite", "left_sprite")
    BY <1>1, <1>2, ShownWhereDrawn
  <2> QED
    BY <2>1 DEF SpriteShown
<1>8. CASE Covering' = {}
  BY <1>2, <1>5, <1>6, <1>7, <1>8, TopSprite
<1>9. CASE Covering' # {}
  <2>1. PICK n : n \in OnTop
    BY <1>5, <1>6, <1>9, TopSprite
  <2>2. /\ n \in Solid /\ \A o \in Solid : n <= o
        /\ (CHOOSE i \in OnTop : TRUE) = n
    BY <2>1, TopSprite
  <2>3. shown'.sprite = <<SpritePixel(sprite_regs[n][1]), SpritePixel(sprite_regs[n][2])>>
    BY <1>2, <1>7, <2>1, <2>2
  <2>4. /\ SpritePixel(sprite_regs[n][1]) = Own(Taken(line)[n], line, c)
        /\ SpritePixel(sprite_regs[n][2]) = Own(Taken(line)[n], line, c)
    BY <1>6, <2>2
  <2>5. shown'.sprite = <<OwnPixel(OnPreceding[n])', OwnPixel(OnPreceding[n])'>>
    BY <1>5, <2>3, <2>4
  <2> QED
    BY <1>5, <1>6, <1>9, <2>2, <2>5
<1> QED
  BY <1>8, <1>9

LEMMA StepHit ==
  ASSUME SInv, SpriteTypes, PictureStep, Carried, Ready
  PROVE  Sprite0Hit'
<1> SUFFICES ASSUME quiet' = 2, shown' # NothingShown
             PROVE  LET Meets == /\ OnLine(oam[1], Preceding(shown.y))' /\ Covers(oam[1])'
                                 /\ ShownHere("sprite", "left_sprite")'
                                 /\ Opaque(shown'.bg) /\ shown'.x < DrawDots - 1
                    IN  /\ hitDue' => Meets
                        /\ Unscrolled' => (hitDue' <=> Meets /\ OwnOpaque(oam[1])')
  BY DEF Sprite0Hit, Opaque
<1>1. Step /\ DrawPixel
  BY DEF PictureStep
<1>2. Drawing
  BY <1>1 DEF DrawPixel
<1>3. /\ quiet = 2 /\ sl' = sl /\ dot' = dot + 1 /\ mask' = mask /\ oam' = oam /\ ctrl' = ctrl
      /\ sl \in Nat /\ sl < VisibleLines /\ dot \in 1..DrawDots /\ dot \in Nat
      /\ shown'.x = dot - 1 /\ shown'.y = sl
  BY <1>2, PixelShown
<1> PICK line \in Nat : line = Preceding(sl)
  BY <1>3, Dimensions DEF Preceding
<1> PICK c \in Nat : c = dot - 1
  BY <1>3
<1> DEFINE here == DrawnHere("sprite", "left_sprite")
           meets == OnLine(oam[1], line) /\ c - Left(oam[1]) \in 0..(TileDots - 1)
           rest == Opaque(shown'.bg) /\ shown'.x < DrawDots - 1
<1>4. hitDue' <=> here /\ 1 \in OnTop /\ OnLine(oam[1], line) /\ rest
  <2>1. hitDue' <=> SpriteShown /\ IsSprite0 /\ Opaque(shown'.bg) /\ MayRaiseHit
    BY <1>1, <1>2 DEF DrawPixel
  <2>2. MayRaiseHit <=> shown'.x < DrawDots - 1
    BY <1>3, Dimensions DEF MayRaiseHit
  <2>3. sprite0[2] = OnLine(oam[1], line)
    BY <1>3 DEF Carried
  <2>4. SpriteShown /\ IsSprite0 <=> here /\ 1 \in OnTop /\ sprite0[2]
    BY DEF SpriteShown, IsSprite0
  <2> QED
    BY <2>1, <2>2, <2>3, <2>4
<1>5. /\ OnLine(oam[1], Preceding(shown.y))' = OnLine(oam[1], line)
      /\ Covers(oam[1])' <=> c - Left(oam[1]) \in 0..(TileDots - 1)
      /\ shown'.y - 1 = line => (OwnOpaque(oam[1])' <=> OwnSolid(oam[1], line, c))
  BY <1>3, ShownOnLine
<1>6. ShownHere("sprite", "left_sprite")' <=> here
  BY <1>2, <1>3, ShownWhereDrawn
<1>7. ASSUME OnLine(oam[1], line)
      PROVE  /\ 1 \in InFront(line, c) <=> c - Left(oam[1]) \in 0..(TileDots - 1)
             /\ Taken(line)[1] = oam[1]
  BY <1>7, FirstOfMemory DEF InFront
<1>8. 1 \in OnTop <=> 1 \in Solid
  <2>1. Solid \subseteq 1..MaxSprites /\ MaxSprites \in Nat
    BY TileSizes DEF Solid
  <2>2. \A o \in Solid : 1 <= o
    BY <2>1
  <2> QED
    BY <2>2, TopSprite
<1>9. 1 \in Solid => 1 \in InFront(line, c)
  <2> SUFFICES ASSUME 1 \in Solid PROVE 1 \in InFront(line, c)
    OBVIOUS
  <2>1. 1 \in 1..MaxSprites /\ Arrived(1) /\ SpriteOpaque(1)
    BY DEF Solid
  <2>2. PICK plane \in 1..2 : sprite_regs[1][plane].left > 0
    BY <2>1 DEF SpriteOpaque
  <2> QED
    BY <1>2, <1>3, <2>1, <2>2, DrawnSprites
<1>10. hitDue' => meets /\ here /\ rest
  BY <1>4, <1>7, <1>8, <1>9
<1>11. ASSUME Unscrolled' PROVE hitDue' <=> meets /\ here /\ rest /\ OwnOpaque(oam[1])'
  <2>1. sl > 0 /\ Row(FineY(v), v) = sl
    BY <1>2, <1>3, <1>11, UnscrolledBefore
  <2>2. shown'.y - 1 = line
    BY <1>3, <2>1 DEF Preceding
  <2>3. Solid = Solids(line, c)
    BY <1>2, <1>3, <2>1, SolidSprites
  <2>4. ASSUME OnLine(oam[1], line)
        PROVE  1 \in OnTop <=> /\ c - Left(oam[1]) \in 0..(TileDots - 1)
                               /\ OwnSolid(oam[1], line, c)
    BY <1>7, <1>8, <2>3, <2>4 DEF Solids
  <2> QED
    BY <1>4, <1>5, <2>2, <2>4
<1> QED
  BY <1>5, <1>6, <1>10, <1>11

-----------------------------------------------------------------------------
(* What the other steps do to the sprites: nothing, but for object memory, *)
(* or the frame is disturbed.                                              *)
LEMMA OtherSteps ==
  ASSUME [PictureNext]_pvars
  PROVE  \/ PictureStep
         \/ /\ UNCHANGED sprites /\ (oam' = oam \/ oam' \in OamImages)
            /\ quiet' = 0 \/ UNCHANGED <<sl, dot, mask, ctrl, v, quiet, shown, oam, sprite0, hitDue>>
<1>1. CASE PictureStep
  BY <1>1
<1>2. CASE PictureGuest
  <2>1. UNCHANGED <<sprites, oam, shown>>
    BY <1>2 DEF PictureGuest
  <2>2. quiet' = 0 \/ UNCHANGED <<sl, dot, mask, ctrl, v, quiet, sprite0, hitDue>>
    BY <1>2
    DEF PictureGuest, Access, ReadStatus, WriteCtrl, WriteMask, WriteScroll, WriteAddr, AccessData
  <2> QED
    BY <2>1, <2>2
<1>3. CASE CopyOam
  BY <1>3 DEF CopyOam
<1>4. CASE PictureQuit
  BY <1>4 DEF PictureQuit, Quit, status
<1>5. CASE UNCHANGED pvars
  BY <1>5 DEF pvars, vars, status
<1> QED
  BY <1>1, <1>2, <1>3, <1>4, <1>5 DEF PictureNext

(* The inductive invariant of the sprites, beside the background's         *)
SpriteInv ==
  /\ PInv /\ SpriteTypes
  /\ Evaluated /\ Carried /\ Fetched /\ Ready
  /\ SpriteOnItsLines /\ Sprite0Hit

LEMMA SpriteInvInit == PictureInit => SpriteInv
<1> SUFFICES ASSUME PictureInit PROVE SpriteInv
  OBVIOUS
<1>1. quiet = 0
  BY DEF PictureInit, Init
<1> QED
  BY <1>1, PictureInvInit, SpriteTypesInit
  DEF SpriteInv, Evaluated, Carried, Fetched, Ready, SpriteOnItsLines, Sprite0Hit

LEMMA SpritesStay ==
  ASSUME SpriteInv, UNCHANGED <<sprites, sl, dot, mask, ctrl, v, quiet, shown, oam, sprite0, hitDue>>
  PROVE  Evaluated' /\ Carried' /\ Fetched' /\ Ready' /\ SpriteOnItsLines' /\ Sprite0Hit'
<1>1. /\ eval_sprites' = eval_sprites /\ sprite_regs' = sprite_regs /\ sprite_xs' = sprite_xs
      /\ sl' = sl /\ dot' = dot /\ mask' = mask /\ v' = v /\ quiet' = quiet /\ shown' = shown
      /\ oam' = oam /\ sprite0' = sprite0 /\ hitDue' = hitDue /\ ctrl' = ctrl
  BY DEF sprites
<1>2. \A line : Taken(line)' = Taken(line) /\ OnLine(oam[1], line)' = OnLine(oam[1], line)
  BY <1>1, MemoryStays
<1>3. Evaluated' /\ Carried'
  BY <1>1, <1>2 DEF SpriteInv, Evaluated, Carried, LastEvaluated, Preceding
<1>4. Fetched'
  BY <1>1 DEF SpriteInv, Fetched, Outside, FetchedSprite
<1>5. Ready'
  BY <1>1, <1>2 DEF SpriteInv, Ready, Preceding
<1>6. /\ \A s : OwnPixel(s)' = OwnPixel(s) /\ OwnOpaque(s)' = OwnOpaque(s) /\ Covers(s)' = Covers(s)
      /\ Unscrolled' = Unscrolled
      /\ ShownHere("sprite", "left_sprite")' = ShownHere("sprite", "left_sprite")
  BY <1>1 DEF OwnPixel, OwnOpaque, Covers, Unscrolled, ShownHere, Height
<1>7. OnPreceding' = OnPreceding /\ Covering' = Covering
  <2>1. OnPreceding' = OnPreceding
    BY <1>1 DEF OnPreceding, Taken, Rank, Found, OnLine, Height, Preceding
  <2> QED
    BY <1>1, <2>1 DEF Covering, Covers, OwnOpaque, OwnPixel, Height
<1>8. SpriteOnItsLines'
  <2> SUFFICES ASSUME quiet = 2, Unscrolled, ShownHere("sprite", "left_sprite")
               PROVE  IF Covering = {} THEN shown.sprite = NoSprite
                      ELSE \E n \in Covering :
                             /\ \A o \in Covering : n <= o
                             /\ shown.sprite = <<OwnPixel(OnPreceding[n])', OwnPixel(OnPreceding[n])'>>
    BY <1>1, <1>6, <1>7 DEF SpriteOnItsLines
  <2>1. \A n : OwnPixel(OnPreceding[n])' = OwnPixel(OnPreceding[n])
    BY <1>1, <1>7 DEF OwnPixel, Height
  <2> QED
    BY <2>1 DEF SpriteInv, SpriteOnItsLines
<1>9. Sprite0Hit'
  BY <1>1 DEF SpriteInv, Sprite0Hit, Covers, OnLine, Height, Preceding, Unscrolled, ShownHere,
              OwnOpaque, OwnPixel
<1> QED
  BY <1>3, <1>4, <1>5, <1>8, <1>9

LEMMA SpriteInvStep == SpriteInv /\ [PictureNext]_pvars => SpriteInv'
<1> SUFFICES ASSUME SpriteInv, [PictureNext]_pvars PROVE SpriteInv'
  OBVIOUS
<1>1. /\ PInv /\ SInv /\ SpriteTypes /\ Evaluated /\ Carried /\ Fetched /\ Ready
      /\ v \in Nat /\ dot \in Nat /\ ctrl.tall \in BOOLEAN
  BY AddressNat DEF SpriteInv, PInv, SInv, TypeOK
<1>2. PInv'
  BY <1>1, PictureInvStep
<1>3. CASE PictureStep
  <2>1. SpriteTypes'
    BY <1>1, <1>3, StepSpriteTypes
  <2>2. Evaluated' /\ Carried'
    BY <1>1, <1>3, StepEvaluated, StepCarried
  <2>3. Fetched'
    BY <1>1, <1>3, StepFetched
  <2>4. Ready'
    BY <1>1, <1>3, StepReady
  <2>5. SpriteOnItsLines'
    BY <1>1, <1>3, StepSpriteShown
  <2>6. Sprite0Hit'
    BY <1>1, <1>3, StepHit
  <2> QED
    BY <1>2, <2>1, <2>2, <2>3, <2>4, <2>5, <2>6 DEF SpriteInv
<1>4. ASSUME UNCHANGED sprites, oam' = oam \/ oam' \in OamImages PROVE SpriteTypes'
  <2>1. oam' \in [1..NSprites -> Sprites]
    BY <1>1, <1>4, SpriteAssumption DEF SpriteTypes
  <2>2. eval_sprites' = eval_sprites /\ sprite_regs' = sprite_regs /\ sprite_xs' = sprite_xs
    BY <1>4 DEF sprites
  <2> QED
    BY <1>1, <2>1, <2>2 DEF SpriteTypes
<1>5. CASE UNCHANGED sprites /\ (oam' = oam \/ oam' \in OamImages) /\ quiet' = 0
  BY <1>2, <1>4, <1>5
  DEF SpriteInv, Evaluated, Carried, Fetched, Ready, SpriteOnItsLines, Sprite0Hit
<1>6. CASE UNCHANGED <<sprites, sl, dot, mask, ctrl, v, quiet, shown, oam, sprite0, hitDue>>
  BY <1>2, <1>4, <1>6, SpritesStay DEF SpriteInv
<1> QED
  BY <1>3, <1>5, <1>6, OtherSteps

LEMMA SpriteInvHolds == PictureSpec => []SpriteInv
BY SpriteInvInit, SpriteInvStep, PTL DEF PictureSpec

(* The pipeline's state keeps its shape whatever the guest does: the shift *)
(* registers of ppu.c their lengths, the sprites found at most MaxSprites, *)
(* and no sprite's position is counted down below 0.                       *)
THEOREM PictureTypes == PictureSpec => []PictureTypeOK
<1>1. SpriteInv => PictureTypeOK
  <2> SUFFICES ASSUME SpriteInv PROVE PictureTypeOK
    OBVIOUS
  <2>1. TypeOK /\ PipeTypes /\ SpriteTypes
    BY DEF SpriteInv, PInv, SInv
  <2>2. DOMAIN bmp_regs = 1..(2 * TileDots) /\ DOMAIN attr_regs = 1..TileDots
    BY <2>1 DEF PipeTypes
  <2>3. DOMAIN eval_sprites \subseteq 1..MaxSprites
    BY <2>1 DEF SpriteTypes
  <2>4. \A n \in 1..MaxSprites, plane \in 1..2 : sprite_regs[n][plane].left \in 0..TileDots
    BY <2>1 DEF SpriteTypes, Registers
  <2> QED
    BY <2>1, <2>2, <2>3, <2>4 DEF PictureTypeOK, PipeTypes, SpriteTypes
<1> QED
  BY <1>1, SpriteInvHolds, PTL

(* On a line below the first whose row the address register agrees with,   *)
(* an undisturbed frame shows at every pixel the first sprite in object    *)
(* memory, of the MaxSprites first found on the line before, that covers   *)
(* the pixel with an opaque one of its own, and shows its own row and      *)
(* pixel in both planes, of one tile or two, flipped or not: evaluation,   *)
(* the fetches and the counting registers of ppu.c never mix up two        *)
(* sprites or two lines, for every object memory and every pattern.        *)
THEOREM SpritesOnTheirLines == PictureSpec => []SpriteOnItsLines
<1>1. SpriteInv => SpriteOnItsLines
  BY DEF SpriteInv
<1> QED
  BY <1>1, SpriteInvHolds, PTL

(* In an undisturbed frame a hit is due only where sprite 0 itself was     *)
(* found on the line before, covers the pixel, is drawn there (the switch  *)
(* of the left column included) and meets an opaque background pixel that  *)
(* is not the line's last; and where the picture is not scrolled, exactly  *)
(* where its own pixel there is opaque too.  So scanline_has_sprite0 is    *)
(* the flag of the line whose sprites are drawn, the first register holds  *)
(* sprite 0 then, and its two planes hold the row that belongs to it.      *)
THEOREM HitsAreSprite0s == PictureSpec => []Sprite0Hit
<1>1. SpriteInv => Sprite0Hit
  BY DEF SpriteInv
<1> QED
  BY <1>1, SpriteInvHolds, PTL
=============================================================================
