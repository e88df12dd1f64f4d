----------------------------- MODULE PpuProofs ------------------------------
(***************************************************************************)
(* Proofs about Ppu for every geometry that GeometryAssumption allows, the *)
(* 341 by 262 dots of the code among them, and every guest; and, in the    *)
(* last part, about Machine, for every set of instruction lengths and      *)
(* every length of a copy: what is proved of the picture unit alone holds  *)
(* in the machine, and the time of the picture and the handshake of        *)
(* PPUSTATUS follow from it.                                               *)
(***************************************************************************)
EXTENDS Machine, FiniteSetTheorems, TLAPS

(* The cursor is inside the frame.                                         *)
CursorInFrame == sl \in 0..PreRender /\ odd \in BOOLEAN /\ dot \in 0..(LineLength - 1)

(* What is due, with the type of overflow_dotnum.                          *)
Due == overflowDot \in OverflowDots \cup {0} /\ DueOnThisLine

IInv == CursorInFrame /\ VblankWindow /\ Due

-----------------------------------------------------------------------------
LEMMA Geometry ==
  /\ Dots \in Nat /\ DrawDots \in Nat /\ VisibleLines \in Nat
  /\ VblankLine \in Nat /\ PreRender \in Nat
  /\ 0 < VisibleLines /\ VisibleLines < VblankLine /\ VblankLine < PreRender
  /\ 1 < DrawDots /\ DrawDots + 4 < Dots
BY GeometryAssumption

LEMMA InitInv == Init => IInv
<1> SUFFICES ASSUME Init PROVE IInv
  OBVIOUS
<1>1. CursorInFrame
  <2>1. sl = PreRender /\ dot = 0 /\ odd = FALSE
    BY DEF Init
  <2>2. LineLength = Dots
    BY <2>1 DEF LineLength
  <2>3. sl \in 0..PreRender /\ dot \in 0..(LineLength - 1)
    BY <2>1, <2>2, Geometry
  <2> QED
    BY <2>1, <2>3 DEF CursorInFrame
<1>2. VblankWindow /\ Due
  BY DEF Init, VblankWindow, Due, DueOnThisLine
<1> QED
  BY <1>1, <1>2 DEF IInv

(* The CPU's accesses move neither the cursor nor what is due, and can     *)
(* only clear the vblank flag.                                             *)
LEMMA AccessInv ==
  ASSUME IInv, Guest
  PROVE  IInv'
<1>1. Access /\ (vblank' = vblank \/ vblank' = FALSE)
  BY DEF Guest, ReadStatus, WriteCtrl, WriteMask, WriteScroll, WriteAddr, AccessData
<1>2. UNCHANGED <<sl, dot, odd, hitDue, overflowDot>>
  BY <1>1 DEF Access
<1> QED
  BY <1>1, <1>2 DEF IInv, CursorInFrame, LineLength, VblankWindow, Due, DueOnThisLine

(* The three ways the cursor moves.                                        *)
LEMMA Moves ==
  ASSUME CursorInFrame, MoveCursor
  PROVE  \/ sl' = sl /\ odd' = odd /\ dot' = dot + 1 /\ dot + 1 < LineLength
         \/ sl < PreRender /\ sl' = sl + 1 /\ odd' = odd /\ dot' = 0 /\ dot + 1 = LineLength
         \/ sl = PreRender /\ sl' = 0 /\ odd' = ~odd /\ dot' = 0 /\ dot + 1 = LineLength
BY Geometry DEF CursorInFrame, MoveCursor, LineLength

LEMMA StepCursor ==
  ASSUME IInv, Step
  PROVE  CursorInFrame'
<1>1. CursorInFrame /\ MoveCursor
  BY DEF IInv, Step
<1>2. CASE sl' = sl /\ odd' = odd /\ dot' = dot + 1 /\ dot + 1 < LineLength
  <2>1. LineLength' = LineLength /\ LineLength \in Int
    BY <1>2, Geometry DEF LineLength
  <2> QED
    BY <1>1, <1>2, <2>1 DEF CursorInFrame
<1>3. CASE sl < PreRender /\ sl' = sl + 1 /\ odd' = odd /\ dot' = 0
  <2>1. LineLength' = Dots - 1 \/ LineLength' = Dots
    BY DEF LineLength
  <2>2. sl' \in 0..PreRender /\ dot' \in 0..(LineLength' - 1)
    BY <1>1, <1>3, <2>1, Geometry DEF CursorInFrame
  <2>3. odd' \in BOOLEAN
    BY <1>1, <1>3 DEF CursorInFrame
  <2> QED
    BY <2>2, <2>3 DEF CursorInFrame
<1>4. CASE sl = PreRender /\ sl' = 0 /\ odd' = ~odd /\ dot' = 0
  <2>1. LineLength' = Dots - 1 \/ LineLength' = Dots
    BY DEF LineLength
  <2>2. sl' \in 0..PreRender /\ dot' \in 0..(LineLength' - 1)
    BY <1>4, <2>1, Geometry
  <2>3. odd' \in BOOLEAN
    BY <1>4
  <2> QED
    BY <2>2, <2>3 DEF CursorInFrame
<1> QED
  BY <1>1, <1>2, <1>3, <1>4, Moves

LEMMA StepVblank ==
  ASSUME IInv, Step
  PROVE  VblankWindow'
<1>1. CursorInFrame /\ MoveCursor /\ VblankWindow
  BY DEF IInv, Step
<1>2. vblank' = (AtVblank \/ (vblank /\ ~AtClear))
  BY DEF Step
<1>3. LineLength >= 3
  BY Geometry DEF LineLength
<1>4. CASE AtVblank
  <2>1. sl' = VblankLine /\ dot' = 2
    BY <1>1, <1>3, <1>4, Moves DEF AtVblank
  <2> QED
    BY <2>1 DEF VblankWindow
<1>5. CASE vblank /\ ~AtClear
  BY <1>1, <1>3, <1>5, Moves, Geometry DEF VblankWindow, AtClear, CursorInFrame
<1>6. CASE ~(AtVblank \/ (vblank /\ ~AtClear))
  BY <1>2, <1>6 DEF VblankWindow
<1> QED
  BY <1>4, <1>5, <1>6

(* A line is longer than the dots at which anything is due.                *)
LEMMA StepDue ==
  ASSUME IInv, Step
  PROVE  Due'
<1>1. CursorInFrame /\ MoveCursor /\ Due
  BY DEF IInv, Step
<1>2. DrawDots + 1 < LineLength
  BY Geometry DEF LineLength
<1>3. OverflowDots \subseteq 1..DrawDots
  BY GeometryAssumption
<1>4. ASSUME hitDue' PROVE sl' < VisibleLines /\ 1 < dot' /\ dot' <= DrawDots
  <2>1. MayHit
    BY <1>4 DEF Step
  <2> QED
    BY <1>1, <1>2, <2>1, Moves, Geometry DEF MayHit, CursorInFrame
<1>5. CASE Evaluating
  <2>1. overflowDot' \in OverflowDots \cup {0}
    BY <1>1, <1>5 DEF Step, Due
  <2>2. sl' = sl /\ dot' = 1 /\ sl < VisibleLines
    BY <1>1, <1>2, <1>5, Moves, Geometry DEF Evaluating, CursorInFrame
  <2> QED
    BY <1>3, <1>4, <2>1, <2>2, Geometry DEF Due, DueOnThisLine
<1>6. CASE ~Evaluating
  <2>1. overflowDot' = IF dot = overflowDot THEN 0 ELSE overflowDot
    BY <1>6 DEF Step
  <2>2. overflowDot' \in OverflowDots \cup {0}
    BY <1>1, <2>1 DEF Due
  <2>3. ASSUME overflowDot' # 0
        PROVE  sl' < VisibleLines /\ 0 < dot' /\ dot' <= overflowDot'
    <3>1. overflowDot' = overflowDot /\ dot # overflowDot /\ overflowDot # 0
      BY <2>1, <2>3
    <3>2. sl < VisibleLines /\ 0 < dot /\ dot < overflowDot /\ overflowDot \in 1..DrawDots
      BY <1>1, <1>3, <3>1 DEF Due, DueOnThisLine, CursorInFrame
    <3> QED
      BY <1>1, <1>2, <3>1, <3>2, Moves, Geometry DEF CursorInFrame
  <2> QED
    BY <1>4, <2>2, <2>3 DEF Due, DueOnThisLine
<1> QED
  BY <1>5, <1>6

LEMMA StepInv == IInv /\ [Next]_vars => IInv'
<1> SUFFICES ASSUME IInv, [Next]_vars PROVE IInv'
  OBVIOUS
<1>1. CASE Step
  BY <1>1, StepCursor, StepVblank, StepDue DEF IInv
<1>2. CASE Quit \/ UNCHANGED vars
  <2>1. UNCHANGED <<sl, dot, odd, vblank, hitDue, overflowDot>>
    BY <1>2 DEF Quit, vars, status
  <2> QED
    BY <2>1 DEF IInv, CursorInFrame, LineLength, VblankWindow, Due, DueOnThisLine
<1>3. CASE Guest
  BY <1>3, AccessInv
<1> QED
  BY <1>1, <1>2, <1>3 DEF Next

LEMMA InvHolds == Spec => []IInv
BY InitInv, StepInv, PTL DEF Spec

(* The cursor never leaves the frame: the equality tests by which          *)
(* move_cursor ends a line and a frame cannot be stepped over, whichever   *)
(* lines are short.                                                        *)
THEOREM CursorStaysInFrame == Spec => []CursorInFrame
<1>1. IInv => CursorInFrame
  BY DEF IInv
<1> QED
  BY <1>1, InvHolds, PTL

(* The vblank flag is 1 only between the vblank dot and the clearing dot,  *)
(* wherever the guest's accesses fall.                                     *)
THEOREM VblankOnlyInWindow == Spec => []VblankWindow
<1>1. IInv => VblankWindow
  BY DEF IInv
<1> QED
  BY <1>1, InvHolds, PTL

(* An overflow or a sprite 0 hit that is due comes on the line that found  *)
(* it.                                                                     *)
THEOREM FlagsDueOnTheirLine == Spec => []DueOnThisLine
<1>1. IInv => DueOnThisLine
  BY DEF IInv, Due
<1> QED
  BY <1>1, InvHolds, PTL

-----------------------------------------------------------------------------
(* Products and quotients                                                  *)
LEMMA TimesMonotone ==
  ASSUME NEW a \in Nat, NEW b \in Nat, NEW d \in Nat, a <= b
  PROVE  a * d \in Nat /\ b * d \in Nat /\ a * d <= b * d
<1>1. PICK m \in Nat : b = a + m
  <2>1. b - a \in Nat /\ b = a + (b - a)
    OBVIOUS
  <2> QED
    BY <2>1
<1>2. b * d = a * d + m * d /\ m * d \in Nat /\ a * d \in Nat
  BY <1>1
<1> QED
  BY <1>2

LEMMA QuotientTimes ==
  ASSUME NEW x \in Nat, NEW d \in Nat \ {0}
  PROVE  /\ x \div d \in Nat /\ x % d \in 0..(d - 1)
         /\ (x \div d) * d <= x /\ x < (x \div d) * d + d
         /\ x = (x % d) + d * (x \div d)
OBVIOUS

LEMMA QuotientUnique ==
  ASSUME NEW p \in Nat, NEW q \in Nat, NEW d \in Nat, NEW x \in Nat,
         p * d <= x, x < p * d + d, q * d <= x, x < q * d + d
  PROVE  p = q
<1>1. ASSUME NEW i \in Nat, NEW j \in Nat, i + 1 <= j, i * d <= x, x < i * d + d, j * d <= x
      PROVE  FALSE
  <2>1. (i + 1) * d <= j * d /\ (i + 1) * d = i * d + d /\ i * d \in Nat /\ j * d \in Nat
    BY <1>1, TimesMonotone
  <2> QED
    BY <1>1, <2>1
<1>2. p + 1 <= q \/ q + 1 <= p \/ p = q
  OBVIOUS
<1> QED
  BY <1>1, <1>2

LEMMA QuotientIs ==
  ASSUME NEW x \in Nat, NEW q \in Nat, NEW d \in Nat \ {0}, q * d <= x, x < q * d + d
  PROVE  x \div d = q
<1> DEFINE p == x \div d
<1>1. p \in Nat /\ p * d <= x /\ x < p * d + d
  BY QuotientTimes
<1> HIDE DEF p
<1>2. p = q
  BY <1>1, QuotientUnique
<1> QED
  BY <1>2 DEF p

(* A number from its digit and the rest                                    *)
LEMMA DigitIs ==
  ASSUME NEW d \in Nat \ {0}, NEW x \in 0..(d - 1), NEW r \in Nat
  PROVE  x + d * r \in Nat /\ (x + d * r) \div d = r
<1> DEFINE a == x + d * r
<1>1. r * d \in Nat /\ d * r = r * d
  OBVIOUS
<1>2. a \in Nat /\ r * d <= a /\ a < r * d + d
  BY <1>1
<1> HIDE DEF a
<1>3. a \div d = r
  BY <1>2, QuotientIs
<1> QED
  BY <1>2, <1>3 DEF a

LEMMA DigitRemains ==
  ASSUME NEW d \in Nat \ {0}, NEW x \in 0..(d - 1), NEW r \in Nat
  PROVE  (x + d * r) % d = x
<1> DEFINE a == x + d * r
           m == a % d
           e == d * r
<1>1. a \in Nat /\ a \div d = r
  BY DigitIs
<1>2. a = m + d * (a \div d) /\ m \in Nat
  <2> HIDE DEF a
  <2> QED
    BY <1>1, QuotientTimes
<1>3. a = m + e /\ a = x + e /\ e \in Nat
  BY <1>1, <1>2
<1> HIDE DEF a, m, e
<1>4. m = x
  BY <1>2, <1>3
<1> QED
  BY <1>4 DEF m, a

LEMMA QuotientOfQuotient ==
  ASSUME NEW x \in Nat, NEW c \in Nat \ {0}, NEW d \in Nat \ {0}
  PROVE  x \div (c * d) = (x \div c) \div d
<1> DEFINE q == x \div c
           r == q \div d
<1>1. q \in Nat /\ q * c <= x /\ x < q * c + c
  BY QuotientTimes
<1>2. r \in Nat /\ r * d <= q /\ q < r * d + d
  <2> HIDE DEF q
  <2> QED
    BY <1>1, QuotientTimes
<1> HIDE DEF q, r
<1>3. r * d \in Nat /\ c * d \in Nat \ {0} /\ q * c \in Nat
  <2>1. \A a, b \in Nat : a * b \in Nat
    OBVIOUS
  <2>2. \A a, b \in Nat \ {0} : a * b \in Nat \ {0}
    OBVIOUS
  <2> QED
    BY <1>1, <1>2, <2>1, <2>2
<1>4. (r * d) * c <= q * c /\ (r * d) * c = r * (c * d) /\ r * (c * d) \in Nat
  <2>1. (r * d) * c <= q * c /\ (r * d) * c \in Nat
    BY <1>1, <1>2, <1>3, TimesMonotone
  <2>2. (r * d) * c = r * (c * d)
    BY <1>2
  <2> QED
    BY <2>1, <2>2
<1>5. (q + 1) * c <= (r * d + d) * c /\ (q + 1) * c = q * c + c
      /\ (r * d + d) * c = r * (c * d) + c * d
  <2>1. q + 1 \in Nat /\ r * d + d \in Nat /\ q + 1 <= r * d + d
    BY <1>1, <1>2, <1>3
  <2>2. (q + 1) * c <= (r * d + d) * c
    BY <2>1, TimesMonotone
  <2>3. (q + 1) * c = q * c + c
    BY <1>1
  <2>4. (r * d + d) * c = r * (c * d) + c * d
    <3>1. (r * d + d) * c = (r * d) * c + d * c /\ d * c = c * d
      BY <1>3
    <3> QED
      BY <1>4, <3>1
  <2> QED
    BY <2>2, <2>3, <2>4
<1> DEFINE e == c * d
           f == r * e
<1>6. e \in Nat \ {0} /\ f \in Nat /\ f <= x /\ x < f + e
  BY <1>1, <1>3, <1>4, <1>5
<1> HIDE DEF e
<1>7. x \div e = r
  BY <1>2, <1>6, QuotientIs
<1> QED
  BY <1>7 DEF e, r, q

(* The fields of an address register are the digits of its value.          *)
Q1(a) == a \div Cols
Q2(a) == Q1(a) \div CoarseRows
Q3(a) == Q2(a) \div 2
Q4(a) == Q3(a) \div 2

LEMMA FieldSizes ==
  /\ Cols \in Nat \ {0} /\ CoarseRows \in Nat \ {0} /\ FineRows \in Nat \ {0}
  /\ Rows \in Nat \ {0} /\ Rows <= CoarseRows
BY AddressAssumption

LEMMA Products ==
  ASSUME NEW c \in Nat \ {0}, NEW d \in Nat \ {0}
  PROVE  c * d \in Nat \ {0}
OBVIOUS

LEMMA Quotients ==
  ASSUME NEW a \in Nat
  PROVE  /\ Q1(a) \in Nat /\ Q2(a) \in Nat /\ Q3(a) \in Nat /\ Q4(a) \in Nat
         /\ CoarseY(a) = Q1(a) % CoarseRows /\ NtX(a) = Q2(a) % 2 /\ NtY(a) = Q3(a) % 2
         /\ FineY(a) = Q4(a) % FineRows /\ Top(a) = Q4(a) \div FineRows
<1> DEFINE C == Cols
           R == CoarseRows
           F == FineRows
           CR == C * R
           CR2 == CR * 2
           CR4 == CR2 * 2
<1> C \in Nat \ {0} /\ R \in Nat \ {0} /\ F \in Nat \ {0}
  BY FieldSizes
<1>1. CR \in Nat \ {0}
  <2> HIDE DEF C, R
  <2> QED
    BY Products
<1>2. CR2 \in Nat \ {0} /\ CR4 \in Nat \ {0}
  <2> HIDE DEF CR
  <2> QED
    BY <1>1
<1>3. a \div CR = Q2(a)
  <2>1. a \div (C * R) = (a \div C) \div R
    <3> HIDE DEF C, R
    <3> QED
      BY QuotientOfQuotient
  <2> QED
    BY <2>1 DEF Q1, Q2
<1>4. a \div CR2 = Q3(a)
  <2>1. a \div (CR * 2) = (a \div CR) \div 2
    <3> HIDE DEF CR
    <3> QED
      BY <1>1, QuotientOfQuotient
  <2> QED
    BY <2>1, <1>3 DEF Q3
<1>5. a \div CR4 = Q4(a)
  <2>1. a \div (CR2 * 2) = (a \div CR2) \div 2
    <3> HIDE DEF CR2
    <3> QED
      BY <1>2, QuotientOfQuotient
  <2> QED
    BY <2>1, <1>4 DEF Q4
<1>6. a \div (CR4 * F) = Q4(a) \div F
  <2>1. a \div (CR4 * F) = (a \div CR4) \div F
    <3> HIDE DEF CR4, F
    <3> QED
      BY <1>2, QuotientOfQuotient
  <2> QED
    BY <2>1, <1>5
<1>7. 2 * C * R = CR2 /\ 4 * C * R = CR4 /\ 4 * C * R * F = CR4 * F
  <2>1. 2 * C * R = CR2 /\ 4 * C * R = CR4
    <3> HIDE DEF C, R
    <3> QED
      OBVIOUS
  <2> HIDE DEF CR4
  <2> QED
    BY <2>1
<1>8. Q1(a) \in Nat
  <2> HIDE DEF R, F
  <2> QED
    BY QuotientTimes DEF Q1
<1>9. Q2(a) \in Nat
  <2> HIDE DEF C, F
  <2> QED
    BY <1>8, QuotientTimes DEF Q2
<1>10. Q3(a) \in Nat /\ Q4(a) \in Nat
  <2>1. Q3(a) \in Nat
    BY <1>9, QuotientTimes DEF Q3
  <2> QED
    BY <2>1, QuotientTimes DEF Q4
<1>11. CoarseY(a) = Q1(a) % CoarseRows
  BY DEF CoarseY, Q1
<1>12. NtX(a) = Q2(a) % 2
  BY <1>3 DEF NtX
<1>13. NtY(a) = Q3(a) % 2
  BY <1>4, <1>7 DEF NtY
<1>14. FineY(a) = Q4(a) % FineRows
  BY <1>5, <1>7 DEF FineY
<1>15. Top(a) = Q4(a) \div FineRows
  BY <1>6, <1>7 DEF Top
<1> QED
  BY <1>8, <1>9, <1>10, <1>11, <1>12, <1>13, <1>14, <1>15

LEMMA DigitNat ==
  ASSUME NEW d \in Nat \ {0}, NEW x \in 0..(d - 1), NEW r \in Nat
  PROVE  /\ x + d * r \in Nat /\ (x + d * r) \div d = r /\ (x + d * r) % d = x
BY DigitIs, DigitRemains

(* Fields in their ranges, and nothing said of the value they are put in.  *)
Fields(x, y, nx, ny, f, b) ==
  /\ x \in 0..(Cols - 1) /\ y \in 0..(CoarseRows - 1) /\ nx \in 0..1 /\ ny \in 0..1
  /\ f \in 0..(FineRows - 1) /\ b \in Nat

LEMMA AddrFields ==
  ASSUME NEW x, NEW y, NEW nx, NEW ny, NEW f, NEW b, Fields(x, y, nx, ny, f, b)
  PROVE  /\ Addr(x, y, nx, ny, f, b) \in Nat
         /\ CoarseX(Addr(x, y, nx, ny, f, b)) = x /\ CoarseY(Addr(x, y, nx, ny, f, b)) = y
         /\ NtX(Addr(x, y, nx, ny, f, b)) = nx /\ NtY(Addr(x, y, nx, ny, f, b)) = ny
         /\ FineY(Addr(x, y, nx, ny, f, b)) = f /\ Top(Addr(x, y, nx, ny, f, b)) = b
<1> DEFINE e5 == f + FineRows * b
           e4 == ny + 2 * e5
           e3 == nx + 2 * e4
           e2 == y + CoarseRows * e3
           a  == x + Cols * e2
<1>0. Addr(x, y, nx, ny, f, b) = a
  BY DEF Addr
<1>1. /\ x \in 0..(Cols - 1) /\ y \in 0..(CoarseRows - 1) /\ nx \in 0..1 /\ ny \in 0..1
      /\ f \in 0..(FineRows - 1) /\ b \in Nat
  BY DEF Fields
<1>2. e5 \in Nat /\ e5 \div FineRows = b /\ e5 % FineRows = f
  BY <1>1, FieldSizes, DigitNat
<1>3. e4 \in Nat /\ e4 \div 2 = e5 /\ e4 % 2 = ny
  <2> HIDE DEF e5
  <2>1. ny \in 0..(2 - 1) /\ 2 \in Nat \ {0}
    BY <1>1
  <2> QED
    BY <1>2, <2>1, DigitNat
<1>4. e3 \in Nat /\ e3 \div 2 = e4 /\ e3 % 2 = nx
  <2> HIDE DEF e4
  <2>1. nx \in 0..(2 - 1) /\ 2 \in Nat \ {0}
    BY <1>1
  <2> QED
    BY <1>3, <2>1, DigitNat
<1>5. e2 \in Nat /\ e2 \div CoarseRows = e3 /\ e2 % CoarseRows = y
  <2> HIDE DEF e3
  <2> QED
    BY <1>1, <1>4, FieldSizes, DigitNat
<1>6. a \in Nat /\ a \div Cols = e2 /\ a % Cols = x
  <2> HIDE DEF e2
  <2> QED
    BY <1>1, <1>5, FieldSizes, DigitNat
<1>7. Q1(a) = e2 /\ CoarseX(a) = x
  BY <1>6 DEF Q1, CoarseX
<1> HIDE DEF a
<1>8. Q2(a) = e3
  BY <1>7, <1>5 DEF Q2
<1> HIDE DEF e2
<1>9. Q3(a) = e4
  BY <1>8, <1>4 DEF Q3
<1> HIDE DEF e3
<1>10. Q4(a) = e5
  BY <1>9, <1>3 DEF Q4
<1> HIDE DEF e4, e5
<1>11. /\ CoarseY(a) = Q1(a) % CoarseRows /\ NtX(a) = Q2(a) % 2 /\ NtY(a) = Q3(a) % 2
       /\ FineY(a) = Q4(a) % FineRows /\ Top(a) = Q4(a) \div FineRows
  BY <1>6, Quotients
<1>12. CoarseY(a) = y
  BY <1>5, <1>7, <1>11
<1>13. NtX(a) = nx /\ NtY(a) = ny
  BY <1>4, <1>8, <1>3, <1>9, <1>11
<1>14. FineY(a) = f /\ Top(a) = b
  BY <1>2, <1>10, <1>11
<1> QED
  BY <1>0, <1>6, <1>7, <1>12, <1>13, <1>14

(* An address register is made of its fields.                              *)
LEMMA FieldsOf ==
  ASSUME NEW a \in Nat
  PROVE  /\ Fields(CoarseX(a), CoarseY(a), NtX(a), NtY(a), FineY(a), Top(a))
         /\ a = Addr(CoarseX(a), CoarseY(a), NtX(a), NtY(a), FineY(a), Top(a))
<1> DEFINE q1 == Q1(a)
           q2 == Q2(a)
           q3 == Q3(a)
           q4 == Q4(a)
<1>1. /\ q1 \in Nat /\ q2 \in Nat /\ q3 \in Nat /\ q4 \in Nat
      /\ CoarseY(a) = q1 % CoarseRows /\ NtX(a) = q2 % 2 /\ NtY(a) = q3 % 2
      /\ FineY(a) = q4 % FineRows /\ Top(a) = q4 \div FineRows
  BY Quotients
<1>2. CoarseX(a) \in 0..(Cols - 1) /\ a = CoarseX(a) + Cols * q1
  BY FieldSizes, QuotientTimes DEF CoarseX, Q1
<1>3. CoarseY(a) \in 0..(CoarseRows - 1) /\ q1 = CoarseY(a) + CoarseRows * q2
  <2>1. q2 = q1 \div CoarseRows
    BY DEF Q2
  <2> HIDE DEF q1, q2
  <2> QED
    BY <1>1, <2>1, FieldSizes, QuotientTimes
<1>4. NtX(a) \in 0..1 /\ q2 = NtX(a) + 2 * q3
  <2>1. q3 = q2 \div 2
    BY DEF Q3
  <2> HIDE DEF q2, q3
  <2>2. q2 % 2 \in 0..(2 - 1) /\ q2 = (q2 % 2) + 2 * (q2 \div 2)
    BY <1>1, QuotientTimes
  <2> QED
    BY <1>1, <2>1, <2>2
<1>5. NtY(a) \in 0..1 /\ q3 = NtY(a) + 2 * q4
  <2>1. q4 = q3 \div 2
    BY DEF Q4
  <2> HIDE DEF q3, q4
  <2>2. q3 % 2 \in 0..(2 - 1) /\ q3 = (q3 % 2) + 2 * (q3 \div 2)
    BY <1>1, QuotientTimes
  <2> QED
    BY <1>1, <2>1, <2>2
<1>6. /\ FineY(a) \in 0..(FineRows - 1) /\ q4 = FineY(a) + FineRows * Top(a)
      /\ Top(a) \in Nat
  <2> HIDE DEF q4
  <2> QED
    BY <1>1, FieldSizes, QuotientTimes
<1> HIDE DEF q1, q2, q3, q4
<1>7. Fields(CoarseX(a), CoarseY(a), NtX(a), NtY(a), FineY(a), Top(a))
  BY <1>2, <1>3, <1>4, <1>5, <1>6 DEF Fields
<1>8. a = CoarseX(a) + Cols * (CoarseY(a) + CoarseRows * (NtX(a)
            + 2 * (NtY(a) + 2 * (FineY(a) + FineRows * Top(a)))))
  BY <1>2, <1>3, <1>4, <1>5, <1>6, Zenon
<1> QED
  BY <1>7, <1>8 DEF Addr

(* Counting modulo m                                                       *)
LEMMA SmallDigit ==
  ASSUME NEW m \in Nat \ {0}, NEW x \in 0..(m - 1)
  PROVE  x % m = x
<1> DEFINE e == x + m * 0
<1>1. e = x
  OBVIOUS
<1>2. e % m = x
  BY DigitRemains
<1> HIDE DEF e
<1> QED
  BY <1>1, <1>2

LEMMA WholeTurn ==
  ASSUME NEW m \in Nat \ {0}
  PROVE  m % m = 0
<1> DEFINE e == 0 + m * 1
<1>1. e = m
  OBVIOUS
<1>2. e % m = 0
  BY DigitRemains
<1> HIDE DEF e
<1> QED
  BY <1>1, <1>2

(* A number of two digits, plus one                                        *)
LEMMA TwoDigits ==
  ASSUME NEW d \in Nat \ {0}, NEW n \in Nat \ {0}, NEW x \in 0..(d - 1), NEW r \in 0..(n - 1)
  PROVE  /\ x + d * r \in 0..(d * n - 1)
         /\ x # d - 1 => (x + d * r + 1) % (d * n) = (x + 1) + d * r
         /\ x = d - 1 /\ r # n - 1 => (x + d * r + 1) % (d * n) = 0 + d * (r + 1)
         /\ x = d - 1 /\ r = n - 1 => (x + d * r + 1) % (d * n) = 0 + d * 0
<1> DEFINE e == d * n
           g == d * r
           h == d * (r + 1)
<1>1. e \in Nat \ {0}
  BY Products
<1>2. g \in Nat /\ h = g + d
  OBVIOUS
<1>3. h <= e
  <2>1. (r + 1) * d <= n * d
    BY TimesMonotone
  <2>2. (r + 1) * d = h /\ n * d = e
    OBVIOUS
  <2> HIDE DEF h, e
  <2> QED
    BY <2>1, <2>2
<1>4. r # n - 1 => h + d <= e
  <2>1. SUFFICES ASSUME r # n - 1 PROVE h + d <= e
    OBVIOUS
  <2>2. r + 2 \in Nat /\ n \in Nat /\ r + 2 <= n
    BY <2>1
  <2>3. (r + 2) * d <= n * d
    BY <2>2, TimesMonotone
  <2>4. (r + 2) * d = h + d /\ n * d = e
    OBVIOUS
  <2> HIDE DEF h, e
  <2> QED
    BY <2>3, <2>4
<1>5. r = n - 1 => h = e
  OBVIOUS
<1>6. d * 0 = 0
  OBVIOUS
<1> HIDE DEF e, g, h
<1>7. x + g \in 0..(e - 1)
  BY <1>1, <1>2, <1>3
<1>8. x # d - 1 => (x + g + 1) % e = (x + 1) + g
  <2>1. SUFFICES ASSUME x # d - 1 PROVE (x + g + 1) % e = (x + 1) + g
    OBVIOUS
  <2>2. x + g + 1 \in 0..(e - 1) /\ x + g + 1 = (x + 1) + g
    BY <1>1, <1>2, <1>3, <2>1
  <2> QED
    BY <1>1, <2>2, SmallDigit
<1>9. x = d - 1 /\ r # n - 1 => (x + g + 1) % e = h
  <2>1. SUFFICES ASSUME x = d - 1, r # n - 1 PROVE (x + g + 1) % e = h
    OBVIOUS
  <2>2. h \in 0..(e - 1) /\ x + g + 1 = h
    BY <1>1, <1>2, <1>4, <2>1
  <2> QED
    BY <1>1, <2>2, SmallDigit
<1>10. x = d - 1 /\ r = n - 1 => (x + g + 1) % e = 0
  <2>1. SUFFICES ASSUME x = d - 1, r = n - 1 PROVE (x + g + 1) % e = 0
    OBVIOUS
  <2>2. x + g + 1 = e
    BY <1>2, <1>5, <2>1
  <2> QED
    BY <1>1, <2>2, WholeTurn
<1>11. h \in Nat /\ 0 + h = h
  BY <1>2
<1> QED
  BY <1>6, <1>7, <1>8, <1>9, <1>10, <1>11 DEF e, g, h

LEMMA NextDigit ==
  ASSUME NEW m \in Nat \ {0}, NEW n \in Nat
  PROVE  (n + 1) % m = IF n % m = m - 1 THEN 0 ELSE (n % m) + 1
<1> DEFINE r == n % m
           q == n \div m
           g == m * q
           h == m * (q + 1)
<1>1. r \in 0..(m - 1) /\ q \in Nat /\ n = r + g
  BY QuotientTimes
<1> HIDE DEF r, q
<1>2. g \in Nat /\ h = g + m
  BY <1>1
<1>3. ASSUME r = m - 1 PROVE (n + 1) % m = 0
  <2>1. n + 1 = 0 + h
    <3> HIDE DEF g, h
    <3> QED
      BY <1>1, <1>2, <1>3
  <2>2. 0 \in 0..(m - 1) /\ q + 1 \in Nat
    BY <1>1
  <2>3. (0 + h) % m = 0
    BY <2>2, DigitRemains
  <2> QED
    BY <2>1, <2>3
<1>4. ASSUME r # m - 1 PROVE (n + 1) % m = r + 1
  <2>1. n + 1 = (r + 1) + g
    <3> HIDE DEF g
    <3> QED
      BY <1>1, <1>2
  <2>2. r + 1 \in 0..(m - 1)
    BY <1>1, <1>4
  <2>3. ((r + 1) + g) % m = r + 1
    BY <1>1, <2>2, DigitRemains
  <2> QED
    BY <2>1, <2>3
<1> HIDE DEF g, h
<1>5. (n + 1) % m = IF r = m - 1 THEN 0 ELSE r + 1
  BY <1>3, <1>4
<1> QED
  BY <1>5 DEF r

LEMMA OneMore ==
  ASSUME NEW m \in Nat \ {0}, NEW n \in Nat, NEW x, x = n % m
  PROVE  (x + 1) % m = (n + 1) % m
<1>1. x \in 0..(m - 1)
  BY QuotientTimes
<1>2. x % m = x
  BY <1>1, SmallDigit
<1>3. x \in Nat
  BY <1>1
<1>4. (x + 1) % m = IF x % m = m - 1 THEN 0 ELSE (x % m) + 1
  BY <1>3, NextDigit
<1>5. (n + 1) % m = IF n % m = m - 1 THEN 0 ELSE (n % m) + 1
  BY NextDigit
<1> QED
  BY <1>2, <1>4, <1>5

(* What the operations on address registers do to the column and the row.  *)
SameRow(a, b) ==
  CoarseY(a) = CoarseY(b) /\ NtY(a) = NtY(b) /\ FineY(a) = FineY(b) /\ Top(a) = Top(b)
SameColumn(a, b) == CoarseX(a) = CoarseX(b) /\ NtX(a) = NtX(b) /\ Top(a) = Top(b)

LEMMA FieldRanges ==
  ASSUME NEW a \in Nat
  PROVE  /\ CoarseX(a) \in 0..(Cols - 1) /\ CoarseY(a) \in 0..(CoarseRows - 1)
         /\ NtX(a) \in 0..1 /\ NtY(a) \in 0..1 /\ FineY(a) \in 0..(FineRows - 1) /\ Top(a) \in Nat
BY FieldsOf DEF Fields

LEMMA IncXFields ==
  ASSUME NEW a \in Nat
  PROVE  /\ inc_coarse_x(a) \in Nat /\ SameRow(inc_coarse_x(a), a)
         /\ CoarseX(a) = Cols - 1 => /\ CoarseX(inc_coarse_x(a)) = 0
                                     /\ NtX(inc_coarse_x(a)) = 1 - NtX(a)
         /\ CoarseX(a) # Cols - 1 => /\ CoarseX(inc_coarse_x(a)) = CoarseX(a) + 1
                                     /\ NtX(inc_coarse_x(a)) = NtX(a)
<1> DEFINE x == CoarseX(a)
           y == CoarseY(a)
           nx == NtX(a)
           ny == NtY(a)
           f == FineY(a)
           b == Top(a)
           o == inc_coarse_x(a)
<1>1. Fields(x, y, nx, ny, f, b) /\ a = Addr(x, y, nx, ny, f, b)
  BY FieldsOf
<1>2. ASSUME x = Cols - 1
      PROVE  o \in Nat /\ SameRow(o, a) /\ CoarseX(o) = 0 /\ NtX(o) = 1 - nx
  <2>1. o = Addr(0, y, 1 - nx, ny, f, b)
    BY <1>2 DEF inc_coarse_x
  <2> HIDE DEF o, x, y, nx, ny, f, b
  <2>2. Fields(0, y, 1 - nx, ny, f, b)
    BY <1>1, FieldSizes DEF Fields
  <2> DEFINE nx1 == 1 - nx
  <2> HIDE DEF nx1
  <2>3. Fields(0, y, nx1, ny, f, b) /\ o = Addr(0, y, nx1, ny, f, b)
    BY <2>1, <2>2 DEF nx1
  <2>4. /\ o \in Nat /\ CoarseX(o) = 0 /\ CoarseY(o) = y /\ NtX(o) = nx1 /\ NtY(o) = ny
        /\ FineY(o) = f /\ Top(o) = b
    BY <2>3, AddrFields
  <2> QED
    BY <2>4 DEF SameRow, y, ny, f, b, nx1
<1>3. ASSUME x # Cols - 1
      PROVE  o \in Nat /\ SameRow(o, a) /\ CoarseX(o) = x + 1 /\ NtX(o) = nx
  <2>1. o = a + 1
    BY <1>3 DEF inc_coarse_x
  <2> HIDE DEF o, x, y, nx, ny, f, b
  <2> DEFINE x1 == x + 1
  <2>2. Fields(x1, y, nx, ny, f, b)
    BY <1>1, <1>3, FieldSizes DEF Fields
  <2>3. a + 1 = Addr(x1, y, nx, ny, f, b)
    <3> DEFINE rest == Cols * (y + CoarseRows * (nx + 2 * (ny + 2 * (f + FineRows * b))))
    <3>1. a = x + rest /\ Addr(x1, y, nx, ny, f, b) = x1 + rest
      BY <1>1 DEF Addr
    <3>2. rest = a - x
      <4>1. x \in Nat /\ y \in Nat /\ nx \in Nat /\ ny \in Nat /\ f \in Nat /\ b \in Nat
            /\ Cols \in Nat /\ CoarseRows \in Nat /\ FineRows \in Nat
        BY <1>1, FieldSizes DEF Fields
      <4>2. \A m, n \in Nat : m * n \in Nat /\ m + n \in Nat
        OBVIOUS
      <4>3. f + FineRows * b \in Nat
        BY <4>1, <4>2
      <4>4. ny + 2 * (f + FineRows * b) \in Nat
        BY <4>1, <4>3
      <4>5. nx + 2 * (ny + 2 * (f + FineRows * b)) \in Nat
        BY <4>1, <4>4
      <4> DEFINE r3 == nx + 2 * (ny + 2 * (f + FineRows * b))
      <4> HIDE DEF r3
      <4>6. r3 \in Nat
        BY <4>5 DEF r3
      <4>7. CoarseRows * r3 \in Nat
        BY <4>1, <4>2, <4>6
      <4>8. y + CoarseRows * r3 \in Nat
        BY <4>1, <4>2, <4>7
      <4>9. Cols * (y + CoarseRows * r3) \in Nat
        BY <4>1, <4>2, <4>8
      <4>10. rest \in Nat
        BY <4>9 DEF r3
      <4> HIDE DEF rest
      <4> QED
        BY <3>1, <4>1, <4>10
    <3> HIDE DEF rest
    <3>3. x \in Nat
      BY <1>1 DEF Fields
    <3> QED
      BY <3>1, <3>2, <3>3
  <2> HIDE DEF x1
  <2>4. o = Addr(x1, y, nx, ny, f, b)
    BY <2>1, <2>3
  <2>5. /\ o \in Nat /\ CoarseX(o) = x1 /\ CoarseY(o) = y /\ NtX(o) = nx /\ NtY(o) = ny
        /\ FineY(o) = f /\ Top(o) = b
    BY <2>2, <2>4, AddrFields
  <2> QED
    BY <2>5 DEF SameRow, y, ny, f, b, x1
<1> QED
  BY <1>2, <1>3

LEMMA IncXColumn ==
  ASSUME NEW a \in Nat
  PROVE  Column(inc_coarse_x(a)) = (Column(a) + 1) % (2 * Cols)
<1> DEFINE o == inc_coarse_x(a)
           x == CoarseX(a)
           nx == NtX(a)
           x1 == CoarseX(o)
           nx1 == NtX(o)
           C == Cols
<1>1. /\ x = C - 1 => x1 = 0 /\ nx1 = 1 - nx
      /\ x # C - 1 => x1 = x + 1 /\ nx1 = nx
  BY IncXFields
<1>2. x \in 0..(C - 1) /\ nx \in 0..(2 - 1) /\ C \in Nat \ {0} /\ 2 \in Nat \ {0}
  BY FieldRanges, FieldSizes
<1> HIDE DEF x, nx, x1, nx1, C, o
<1>3. /\ x # C - 1 => (x + C * nx + 1) % (C * 2) = (x + 1) + C * nx
      /\ x = C - 1 /\ nx # 2 - 1 => (x + C * nx + 1) % (C * 2) = 0 + C * (nx + 1)
      /\ x = C - 1 /\ nx = 2 - 1 => (x + C * nx + 1) % (C * 2) = 0 + C * 0
  BY <1>2, TwoDigits
<1>4. x1 + C * nx1 = (x + C * nx + 1) % (C * 2)
  <2>1. CASE x # C - 1
    BY <2>1, <1>1, <1>3, Zenon
  <2>2. CASE x = C - 1 /\ nx # 2 - 1
    <3>1. nx1 = nx + 1 /\ x1 = 0
      BY <2>2, <1>1, <1>2
    <3> QED
      BY <2>2, <3>1, <1>3, Zenon
  <2>3. CASE x = C - 1 /\ nx = 2 - 1
    <3>1. nx1 = 0 /\ x1 = 0
      BY <2>3, <1>1, <1>2
    <3> QED
      BY <2>3, <3>1, <1>3, Zenon
  <2> QED
    BY <2>1, <2>2, <2>3
<1>5. C * 2 = 2 * C
  BY <1>2
<1> QED
  BY <1>4, <1>5 DEF Column, x, nx, x1, nx1, C, o

LEMMA IncYFields ==
  ASSUME NEW a \in Nat
  PROVE  /\ inc_y(a) \in Nat /\ SameColumn(inc_y(a), a)
         /\ FineY(a) # FineRows - 1 =>
              /\ FineY(inc_y(a)) = FineY(a) + 1
              /\ CoarseY(inc_y(a)) = CoarseY(a) /\ NtY(inc_y(a)) = NtY(a)
         /\ FineY(a) = FineRows - 1 /\ CoarseY(a) = Rows - 1 =>
              /\ FineY(inc_y(a)) = 0 /\ CoarseY(inc_y(a)) = 0 /\ NtY(inc_y(a)) = 1 - NtY(a)
         /\ FineY(a) = FineRows - 1 /\ CoarseY(a) # Rows - 1 =>
              /\ FineY(inc_y(a)) = 0 /\ NtY(inc_y(a)) = NtY(a)
              /\ CoarseY(inc_y(a)) = (CoarseY(a) + 1) % CoarseRows
<1> DEFINE x == CoarseX(a)
           y == CoarseY(a)
           nx == NtX(a)
           ny == NtY(a)
           f == FineY(a)
           b == Top(a)
           o == inc_y(a)
           y1 == (y + 1) % CoarseRows
<1>1. Fields(x, y, nx, ny, f, b)
  BY FieldsOf
<1>2. ASSUME NEW y2 \in 0..(CoarseRows - 1), NEW ny2 \in 0..1, NEW f2 \in 0..(FineRows - 1),
             o = Addr(x, y2, nx, ny2, f2, b)
      PROVE  o \in Nat /\ SameColumn(o, a) /\ FineY(o) = f2 /\ CoarseY(o) = y2 /\ NtY(o) = ny2
  <2> HIDE DEF o, x, y, nx, ny, f, b
  <2>1. Fields(x, y2, nx, ny2, f2, b)
    BY <1>1 DEF Fields
  <2>2. /\ o \in Nat /\ CoarseX(o) = x /\ CoarseY(o) = y2 /\ NtX(o) = nx /\ NtY(o) = ny2
        /\ FineY(o) = f2 /\ Top(o) = b
    BY <1>2, <2>1, AddrFields
  <2> QED
    BY <2>2 DEF SameColumn, x, nx, b
<1>3. /\ y \in 0..(CoarseRows - 1) /\ 1 - ny \in 0..1 /\ ny \in 0..1
      /\ 0 \in 0..(CoarseRows - 1) /\ 0 \in 0..(FineRows - 1)
  <2> HIDE DEF x, y, nx, ny, f, b
  <2> QED
    BY <1>1, FieldSizes DEF Fields
<1>4. y1 \in 0..(CoarseRows - 1)
  <2>1. y + 1 \in Nat
    <3> HIDE DEF y
    <3> QED
      BY <1>3
  <2> QED
    BY <2>1, FieldSizes, QuotientTimes
<1>5. ASSUME f # FineRows - 1
      PROVE  o \in Nat /\ SameColumn(o, a) /\ FineY(o) = f + 1 /\ CoarseY(o) = y /\ NtY(o) = ny
  <2>1. o = Addr(x, y, nx, ny, f + 1, b)
    BY <1>5 DEF inc_y
  <2>2. f + 1 \in 0..(FineRows - 1)
    <3> HIDE DEF x, y, nx, ny, f, b
    <3> QED
      BY <1>1, <1>5, FieldSizes DEF Fields
  <2> HIDE DEF o, x, y, nx, ny, f, b
  <2> QED
    BY <1>2, <1>3, <2>1, <2>2
<1>6. ASSUME f = FineRows - 1, y = Rows - 1
      PROVE  o \in Nat /\ SameColumn(o, a) /\ FineY(o) = 0 /\ CoarseY(o) = 0 /\ NtY(o) = 1 - ny
  <2>1. o = Addr(x, 0, nx, 1 - ny, 0, b)
    BY <1>6 DEF inc_y
  <2> HIDE DEF o, x, y, nx, ny, f, b
  <2> QED
    BY <1>2, <1>3, <2>1
<1>7. ASSUME f = FineRows - 1, y # Rows - 1
      PROVE  o \in Nat /\ SameColumn(o, a) /\ FineY(o) = 0 /\ CoarseY(o) = y1 /\ NtY(o) = ny
  <2>1. o = Addr(x, y1, nx, ny, 0, b)
    BY <1>7 DEF inc_y
  <2> HIDE DEF o, x, y, nx, ny, f, b, y1
  <2> QED
    BY <1>2, <1>3, <1>4, <2>1
<1>8. f = FineRows - 1 \/ f # FineRows - 1
  OBVIOUS
<1>9. y = Rows - 1 \/ y # Rows - 1
  OBVIOUS
<1>10. o \in Nat /\ SameColumn(o, a)
  BY <1>5, <1>6, <1>7, <1>8, <1>9, Zenon
<1>11. f # FineRows - 1 => FineY(o) = f + 1 /\ CoarseY(o) = y /\ NtY(o) = ny
  BY <1>5, Zenon
<1>12. f = FineRows - 1 /\ y = Rows - 1 => FineY(o) = 0 /\ CoarseY(o) = 0 /\ NtY(o) = 1 - ny
  BY <1>6, Zenon
<1>13. f = FineRows - 1 /\ y # Rows - 1 => FineY(o) = 0 /\ NtY(o) = ny /\ CoarseY(o) = y1
  BY <1>7, Zenon
<1> QED
  BY <1>10, <1>11, <1>12, <1>13

LEMMA IncYRow ==
  ASSUME NEW a \in Nat, CoarseY(a) < Rows
  PROVE  /\ CoarseY(inc_y(a)) < Rows
         /\ Row(FineY(inc_y(a)), inc_y(a)) = (Row(FineY(a), a) + 1) % (2 * FineRows * Rows)
<1> DEFINE o == inc_y(a)
           y == CoarseY(a)
           ny == NtY(a)
           f == FineY(a)
           y1 == CoarseY(o)
           ny1 == NtY(o)
           f1 == FineY(o)
           R == Rows
           F == FineRows
<1>1. /\ y \in 0..(R - 1) /\ ny \in 0..(2 - 1) /\ f \in 0..(F - 1)
      /\ R \in Nat \ {0} /\ F \in Nat \ {0} /\ 2 \in Nat \ {0}
  <2>1. y \in 0..(CoarseRows - 1) /\ CoarseRows \in Nat /\ y < R
    BY FieldRanges, FieldSizes
  <2>2. ny \in 0..1 /\ f \in 0..(F - 1) /\ R \in Nat \ {0} /\ F \in Nat \ {0}
    BY FieldRanges, FieldSizes
  <2> HIDE DEF y, ny, f, R, F
  <2> QED
    BY <2>1, <2>2
<1>2. /\ f # F - 1 => f1 = f + 1 /\ y1 = y /\ ny1 = ny
      /\ f = F - 1 /\ y = R - 1 => f1 = 0 /\ y1 = 0 /\ ny1 = 1 - ny
      /\ f = F - 1 /\ y # R - 1 => f1 = 0 /\ ny1 = ny /\ y1 = (y + 1) % CoarseRows
  BY IncYFields
<1>3. y # R - 1 => (y + 1) % CoarseRows = y + 1
  <2>1. SUFFICES ASSUME y # R - 1 PROVE (y + 1) % CoarseRows = y + 1
    OBVIOUS
  <2>2. y + 1 \in 0..(CoarseRows - 1)
    <3>1. R <= CoarseRows /\ CoarseRows \in Nat
      BY FieldSizes
    <3> HIDE DEF y, R
    <3> QED
      BY <1>1, <2>1, <3>1
  <2> QED
    BY <2>2, FieldSizes, SmallDigit
<1> HIDE DEF o, y, ny, f, y1, ny1, f1, R, F
<1>4. f = F - 1 /\ y # R - 1 => f1 = 0 /\ ny1 = ny /\ y1 = y + 1
  BY <1>2, <1>3, Zenon
<1>5. y1 < R
  BY <1>1, <1>2, <1>4
<1> DEFINE L == y + R * ny
           L1 == y1 + R * ny1
           N == R * 2
<1>6. /\ L \in 0..(N - 1)
      /\ y # R - 1 => (L + 1) % N = (y + 1) + R * ny
      /\ y = R - 1 /\ ny # 2 - 1 => (L + 1) % N = 0 + R * (ny + 1)
      /\ y = R - 1 /\ ny = 2 - 1 => (L + 1) % N = 0 + R * 0
  BY <1>1, TwoDigits
<1>7. N \in Nat \ {0}
  BY <1>1, Products
<1>8. f # F - 1 => L1 = L /\ f1 = f + 1
  BY <1>2
<1>9. f = F - 1 => L1 = (L + 1) % N /\ f1 = 0
  <2>1. SUFFICES ASSUME f = F - 1 PROVE L1 = (L + 1) % N /\ f1 = 0
    OBVIOUS
  <2>2. ASSUME y # R - 1 PROVE L1 = (L + 1) % N /\ f1 = 0
    BY <2>1, <2>2, <1>4, <1>6, Zenon
  <2>3. ASSUME y = R - 1, ny # 2 - 1 PROVE L1 = (L + 1) % N /\ f1 = 0
    <3>1. ny1 = ny + 1 /\ y1 = 0 /\ f1 = 0
      <4> HIDE DEF L, L1, N
      <4> QED
        BY <2>1, <2>3, <1>1, <1>2
    <3> QED
      BY <2>3, <3>1, <1>6, Zenon
  <2>4. ASSUME y = R - 1, ny = 2 - 1 PROVE L1 = (L + 1) % N /\ f1 = 0
    <3>1. ny1 = 0 /\ y1 = 0 /\ f1 = 0
      <4> HIDE DEF L, L1, N
      <4> QED
        BY <2>1, <2>4, <1>1, <1>2
    <3> QED
      BY <2>4, <3>1, <1>6, Zenon
  <2> QED
    BY <2>2, <2>3, <2>4
<1> HIDE DEF L, L1, N
<1>10. /\ f # F - 1 => (f + F * L + 1) % (F * N) = (f + 1) + F * L
       /\ f = F - 1 /\ L # N - 1 => (f + F * L + 1) % (F * N) = 0 + F * (L + 1)
       /\ f = F - 1 /\ L = N - 1 => (f + F * L + 1) % (F * N) = 0 + F * 0
  BY <1>1, <1>6, <1>7, TwoDigits
<1>11. L # N - 1 => (L + 1) % N = L + 1
  <2>1. L # N - 1 => L + 1 \in 0..(N - 1)
    BY <1>6, <1>7
  <2> QED
    BY <2>1, <1>7, SmallDigit
<1>12. L = N - 1 => (L + 1) % N = 0
  <2>1. L = N - 1 => L + 1 = N
    BY <1>6, <1>7
  <2> QED
    BY <2>1, <1>7, WholeTurn
<1>13. f1 + F * L1 = (f + F * L + 1) % (F * N)
  <2>1. ASSUME f # F - 1 PROVE f1 + F * L1 = (f + F * L + 1) % (F * N)
    BY <2>1, <1>8, <1>10, Zenon
  <2>2. ASSUME f = F - 1, L # N - 1 PROVE f1 + F * L1 = (f + F * L + 1) % (F * N)
    BY <2>2, <1>9, <1>10, <1>11, Zenon
  <2>3. ASSUME f = F - 1, L = N - 1 PROVE f1 + F * L1 = (f + F * L + 1) % (F * N)
    BY <2>3, <1>9, <1>10, <1>12, Zenon
  <2> QED
    BY <2>1, <2>2, <2>3
<1>14. F * N = 2 * F * R
  <2>1. \A m, n \in Nat : m * (n * 2) = 2 * m * n
    OBVIOUS
  <2> QED
    BY <1>1, <2>1 DEF N
<1>15. f1 + F * L1 = (f + F * L + 1) % (2 * F * R)
  BY <1>13, <1>14
<1> QED
  BY <1>5, <1>15 DEF Row, L, L1, o, y, ny, f, y1, ny1, f1, R, F

(* The copies from the temporary register                                  *)
LEMMA CopyXFields ==
  ASSUME NEW a \in Nat, NEW c \in Nat
  PROVE  CopyX(a, c) \in Nat /\ SameRow(CopyX(a, c), a) /\ Column(CopyX(a, c)) = Column(c)
<1> DEFINE x == CoarseX(c)
           y == CoarseY(a)
           nx == NtX(c)
           ny == NtY(a)
           f == FineY(a)
           b == Top(a)
           o == CopyX(a, c)
<1>1. Fields(x, y, nx, ny, f, b)
  BY FieldRanges DEF Fields
<1>2. o = Addr(x, y, nx, ny, f, b)
  BY DEF CopyX
<1> HIDE DEF x, y, nx, ny, f, b, o
<1>3. /\ o \in Nat /\ CoarseX(o) = x /\ CoarseY(o) = y /\ NtX(o) = nx /\ NtY(o) = ny
      /\ FineY(o) = f /\ Top(o) = b
  BY <1>1, <1>2, AddrFields
<1> QED
  BY <1>3 DEF SameRow, Column, x, y, nx, ny, f, b, o

LEMMA EvenFineRows ==
  FineRows \div 2 \in Nat \ {0} /\ 2 * (FineRows \div 2) = FineRows
<1>1. FineRows \in Nat \ {0} /\ FineRows % 2 = 0
  BY AddressAssumption
<1>2. FineRows = (FineRows % 2) + 2 * (FineRows \div 2) /\ FineRows \div 2 \in Nat
  BY <1>1, QuotientTimes
<1> QED
  BY <1>1, <1>2

(* The y part, with the high bit of a's fine row                           *)
LEMMA CopyYFields ==
  ASSUME NEW a \in Nat, NEW c \in Nat
  PROVE  /\ CopyY(a, c) \in Nat /\ SameColumn(CopyY(a, c), a)
         /\ CoarseY(CopyY(a, c)) = CoarseY(c) /\ NtY(CopyY(a, c)) = NtY(c)
         /\ \E h \in 0..1 : FineY(CopyY(a, c)) = h * (FineRows \div 2) + (FineY(c) % (FineRows \div 2))
<1> DEFINE half == FineRows \div 2
           h == FineY(a) \div half
           r == FineY(c) % half
           fa == FineY(a)
           fc == FineY(c)
           x == CoarseX(a)
           y == CoarseY(c)
           nx == NtX(a)
           ny == NtY(c)
           b == Top(a)
           o == CopyY(a, c)
           f == half * h + r
<1>1. half \in Nat \ {0} /\ 2 * half = FineRows
  BY EvenFineRows
<1>2. fa \in 0..(FineRows - 1) /\ fc \in 0..(FineRows - 1)
  BY FieldRanges
<1>3. r \in 0..(half - 1)
  <2>1. fc \in Nat
    <3> HIDE DEF fc, half
    <3> QED
      BY <1>2
  <2> HIDE DEF half, fc
  <2>2. fc % half \in 0..(half - 1)
    BY <1>1, <2>1, QuotientTimes
  <2> QED
    BY <2>2 DEF fc
<1>4. h \in 0..1
  <2>1. fa \in Nat /\ fa < 2 * half
    <3> HIDE DEF fa, half
    <3> QED
      BY <1>1, <1>2
  <2> DEFINE q == fa \div half
  <2>2. q \in Nat /\ q * half <= fa
    <3> HIDE DEF fa, half
    <3> QED
      BY <1>1, <2>1, QuotientTimes
  <2>3. ASSUME 2 <= q PROVE FALSE
    <3> HIDE DEF fa, half, q
    <3>1. 2 * half <= q * half /\ q * half \in Nat
      BY <2>2, <2>3, <1>1, TimesMonotone
    <3> QED
      BY <3>1, <2>1, <2>2, <1>1
  <2>4. q \in 0..1
    <3> HIDE DEF q
    <3> QED
      BY <2>2, <2>3
  <2> QED
    BY <2>4 DEF fa, q
<1>5. o = Addr(x, y, nx, ny, f, b)
  BY DEF CopyY
<1>7. x \in 0..(Cols - 1) /\ y \in 0..(CoarseRows - 1) /\ nx \in 0..1 /\ ny \in 0..1 /\ b \in Nat
  BY FieldRanges
<1> HIDE DEF half, h, r, x, y, nx, ny, b, o
<1>8. f \in 0..(FineRows - 1) /\ f = h * half + r
  <2>1. h = 0 \/ h = 1
    BY <1>4
  <2>2. CASE h = 0
    <3>1. f = r
      BY <2>2, <1>1, <1>3
    <3> HIDE DEF f
    <3> QED
      BY <2>2, <3>1, <1>1, <1>3
  <2>3. CASE h = 1
    <3>1. f = half + r
      BY <2>3, <1>1, <1>3
    <3> HIDE DEF f
    <3> QED
      BY <2>3, <3>1, <1>1, <1>3
  <2> QED
    BY <2>1, <2>2, <2>3
<1> HIDE DEF f
<1>9. Fields(x, y, nx, ny, f, b)
  BY <1>7, <1>8 DEF Fields
<1>10. /\ o \in Nat /\ CoarseX(o) = x /\ CoarseY(o) = y /\ NtX(o) = nx /\ NtY(o) = ny
       /\ FineY(o) = f /\ Top(o) = b
  BY <1>5, <1>9, AddrFields
<1>11. SameColumn(o, a) /\ CoarseY(o) = CoarseY(c) /\ NtY(o) = NtY(c)
  BY <1>10 DEF SameColumn, x, y, nx, ny, b
<1>12. \E i \in 0..1 : FineY(o) = i * half + r
  BY <1>4, <1>8, <1>10
<1> QED
  BY <1>10, <1>11, <1>12 DEF o, half, r

(* The tiles passed so far                                                 *)
LEMMA TilesNone ==
  ASSUME NEW a \in Int, NEW b \in Int, b < a
  PROVE  TileSteps(a..b) = 0
<1>1. {d \in a..b : (d - 1) % TileDots = 0} = {}
  <2>1. a..b = {}
    OBVIOUS
  <2> QED
    BY <2>1
<1> QED
  BY <1>1, FS_EmptySet DEF TileSteps

LEMMA TilesNext ==
  ASSUME NEW a \in Nat, NEW b \in Nat, a <= b
  PROVE  /\ TileSteps(a..(b - 1)) \in Nat /\ TileSteps(a..b) \in Nat
         /\ (b - 1) % TileDots = 0 => TileSteps(a..b) = TileSteps(a..(b - 1)) + 1
         /\ (b - 1) % TileDots # 0 => TileSteps(a..b) = TileSteps(a..(b - 1))
<1> DEFINE P(d) == (d - 1) % TileDots = 0
           S == {d \in a..(b - 1) : P(d)}
           U == {d \in a..b : P(d)}
<1> HIDE DEF P
<1>1. IsFiniteSet(a..b) /\ IsFiniteSet(a..(b - 1))
  BY FS_Interval
<1>2. IsFiniteSet(S) /\ IsFiniteSet(U)
  <2>1. S \subseteq a..(b - 1) /\ U \subseteq a..b
    OBVIOUS
  <2> QED
    BY <1>1, <2>1, FS_Subset
<1>3. Cardinality(S) \in Nat /\ Cardinality(U) \in Nat
  BY <1>2, FS_CardinalityType
<1>4. a..b = (a..(b - 1)) \cup {b} /\ b \notin a..(b - 1)
  OBVIOUS
<1>5. ASSUME P(b) PROVE Cardinality(U) = Cardinality(S) + 1
  <2>1. U = S \cup {b} /\ b \notin S
    BY <1>4, <1>5
  <2> HIDE DEF S, U
  <2> QED
    BY <1>2, <2>1, FS_AddElement
<1>6. ASSUME ~P(b) PROVE U = S
  BY <1>4, <1>6
<1>7. TileSteps(a..b) = Cardinality(U) /\ TileSteps(a..(b - 1)) = Cardinality(S)
  BY DEF TileSteps, P
<1> HIDE DEF S, U
<1>8. P(b) <=> (b - 1) % TileDots = 0
  BY DEF P
<1> QED
  BY <1>3, <1>5, <1>6, <1>7, <1>8

LEMMA TilesNat ==
  ASSUME NEW a \in Nat, NEW b \in Int
  PROVE  TileSteps(a..b) \in Nat
<1>1. CASE b < a
  BY <1>1, TilesNone
<1>2. CASE ~(b < a)
  <2>1. b \in Nat /\ a <= b
    BY <1>2
  <2> QED
    BY <2>1, TilesNext
<1> QED
  BY <1>1, <1>2

(* The column n tiles, or the row n lines, further than the one the guest  *)
(* wrote to the temporary register                                         *)
ColumnIs(a, c, n) == Column(a) = (Column(c) + n) % (2 * Cols)
RowIs(a, c, n) ==
  /\ CoarseY(a) < Rows
  /\ \E h \in 0..1 :
       Row(FineY(a), a) = (Row(h * (FineRows \div 2) + (FineY(c) % (FineRows \div 2)), c) + n)
                            % (2 * FineRows * Rows)

LEMMA ColumnRange ==
  ASSUME NEW a \in Nat
  PROVE  Column(a) \in 0..(2 * Cols - 1) /\ 2 * Cols \in Nat \ {0}
<1> DEFINE x == CoarseX(a)
           nx == NtX(a)
           C == Cols
<1>1. x \in 0..(C - 1) /\ nx \in 0..(2 - 1) /\ C \in Nat \ {0} /\ 2 \in Nat \ {0}
  BY FieldRanges, FieldSizes
<1> HIDE DEF x, nx, C
<1>2. x + C * nx \in 0..(C * 2 - 1)
  BY <1>1, TwoDigits
<1>3. C * 2 = 2 * C /\ 2 * C \in Nat \ {0}
  BY <1>1
<1> QED
  BY <1>2, <1>3 DEF Column, x, nx, C

LEMMA RowRange ==
  ASSUME NEW a \in Nat, NEW f \in 0..(FineRows - 1)
  PROVE  /\ Row(f, a) \in Nat /\ 2 * FineRows * Rows \in Nat \ {0}
         /\ CoarseY(a) < Rows => Row(f, a) \in 0..(2 * FineRows * Rows - 1)
<1> DEFINE y == CoarseY(a)
           ny == NtY(a)
           R == Rows
           F == FineRows
           L == y + R * ny
           N == R * 2
           M == F * N
<1>1. /\ y \in Nat /\ ny \in 0..(2 - 1) /\ R \in Nat \ {0} /\ F \in Nat \ {0} /\ 2 \in Nat \ {0}
      /\ f \in 0..(F - 1)
  BY FieldRanges, FieldSizes
<1> HIDE DEF y, ny, R, F
<1>2. L \in Nat /\ N \in Nat \ {0}
  BY <1>1
<1>3. ASSUME y < R PROVE L \in 0..(N - 1)
  <2>1. y \in 0..(R - 1)
    BY <1>1, <1>3
  <2> QED
    BY <1>1, <2>1, TwoDigits
<1> HIDE DEF L, N
<1>4. M \in Nat \ {0} /\ F * L \in Nat
  <2>1. \A m, n \in Nat : m * n \in Nat
    OBVIOUS
  <2>2. M \in Nat \ {0}
    BY <1>1, <1>2, Products
  <2> HIDE DEF M
  <2> QED
    BY <1>1, <1>2, <2>1, <2>2
<1>5. ASSUME y < R PROVE f + F * L \in 0..(M - 1)
  <2>1. L \in 0..(N - 1)
    BY <1>3, <1>5
  <2> QED
    BY <1>1, <1>2, <2>1, TwoDigits
<1>6. M = 2 * F * R
  <2>1. \A m, n \in Nat : m * (n * 2) = 2 * m * n
    OBVIOUS
  <2> QED
    BY <1>1, <2>1 DEF N
<1>7. f + F * L \in Nat
  <2> DEFINE g == F * L
  <2>1. g \in Nat
    BY <1>4
  <2> HIDE DEF g
  <2>2. f + g \in Nat
    BY <1>1, <2>1
  <2> QED
    BY <2>2 DEF g
<1> HIDE DEF M
<1>8. Row(f, a) = f + F * L
  BY DEF Row, L, y, ny, R, F
<1>9. CoarseY(a) < Rows => f + F * L \in 0..(M - 1)
  BY <1>5 DEF y, R
<1>10. M = 2 * FineRows * Rows
  BY <1>6 DEF F, R
<1>11. M \in Nat \ {0}
  BY <1>4
<1> QED
  BY <1>7, <1>8, <1>9, <1>10, <1>11

LEMMA ColumnMoves ==
  ASSUME NEW a \in Nat, NEW c \in Nat, NEW n \in Nat, ColumnIs(a, c, n)
  PROVE  ColumnIs(inc_coarse_x(a), c, n + 1)
<1> DEFINE W == 2 * Cols
           k == Column(c) + n
           x == Column(a)
<1>1. W \in Nat \ {0} /\ k \in Nat
  <2>1. W \in Nat \ {0} /\ Column(c) \in 0..(W - 1)
    BY ColumnRange
  <2> HIDE DEF W
  <2> QED
    BY <2>1
<1>2. x = k % W
  BY DEF ColumnIs
<1>3. Column(inc_coarse_x(a)) = (x + 1) % W
  BY IncXColumn
<1>4. Column(c) + (n + 1) = k + 1
  <2>1. Column(c) \in Nat
    <3> HIDE DEF W, k, x
    <3> DEFINE z == Column(c)
    <3>1. z \in 0..(2 * Cols - 1)
      BY ColumnRange
    <3> HIDE DEF z
    <3>2. z \in Nat
      BY <3>1
    <3> QED
      BY <3>2 DEF z
  <2> QED
    BY <2>1
<1> HIDE DEF W, k, x
<1>5. (x + 1) % W = (k + 1) % W
  BY <1>1, <1>2, OneMore
<1>6. Column(inc_coarse_x(a)) = (Column(c) + (n + 1)) % W
  BY <1>3, <1>4, <1>5
<1> QED
  BY <1>6 DEF ColumnIs, W

LEMMA ColumnCopied ==
  ASSUME NEW a \in Nat, NEW c \in Nat
  PROVE  ColumnIs(CopyX(a, c), c, 0)
<1> DEFINE W == 2 * Cols
           z == Column(c)
<1>1. W \in Nat \ {0} /\ z \in 0..(W - 1)
  BY ColumnRange
<1>2. Column(CopyX(a, c)) = z
  BY CopyXFields
<1> HIDE DEF W, z
<1>3. z % W = z /\ z + 0 = z
  BY <1>1, SmallDigit
<1>4. Column(CopyX(a, c)) = (z + 0) % W
  BY <1>2, <1>3
<1> QED
  BY <1>4 DEF ColumnIs, W, z

LEMMA ColumnKept ==
  ASSUME NEW a, NEW b, NEW c, NEW n, ColumnIs(a, c, n), SameColumn(b, a)
  PROVE  ColumnIs(b, c, n)
BY DEF ColumnIs, SameColumn, Column

LEMMA RowKept ==
  ASSUME NEW a, NEW b, NEW c, NEW n, RowIs(a, c, n), SameRow(b, a)
  PROVE  RowIs(b, c, n)
BY DEF RowIs, SameRow, Row

(* A fine row with either high bit                                         *)
LEMMA HighBit ==
  ASSUME NEW c \in Nat, NEW h \in 0..1
  PROVE  h * (FineRows \div 2) + (FineY(c) % (FineRows \div 2)) \in 0..(FineRows - 1)
<1> DEFINE half == FineRows \div 2
           fc == FineY(c)
           r == fc % half
<1>1. half \in Nat \ {0} /\ 2 * half = FineRows
  BY EvenFineRows
<1>2. fc \in Nat
  <2>1. fc \in 0..(FineRows - 1)
    BY FieldRanges
  <2> HIDE DEF fc
  <2> QED
    BY <2>1
<1>3. r \in 0..(half - 1)
  <2> HIDE DEF half, fc
  <2> QED
    BY <1>1, <1>2, QuotientTimes
<1> HIDE DEF half, r
<1>4. h * half + r \in 0..(FineRows - 1)
  <2>1. h = 0 \/ h = 1
    OBVIOUS
  <2>2. CASE h = 0
    BY <2>2, <1>1, <1>3
  <2>3. CASE h = 1
    BY <2>3, <1>1, <1>3
  <2> QED
    BY <2>1, <2>2, <2>3
<1> QED
  BY <1>4 DEF half, r

LEMMA RowMoves ==
  ASSUME NEW a \in Nat, NEW c \in Nat, NEW n \in Nat, RowIs(a, c, n)
  PROVE  RowIs(inc_y(a), c, n + 1)
<1> DEFINE M == 2 * FineRows * Rows
           F(h) == h * (FineRows \div 2) + (FineY(c) % (FineRows \div 2))
           x == Row(FineY(a), a)
           o == inc_y(a)
<1>1. PICK h \in 0..1 : x = (Row(F(h), c) + n) % M
  BY DEF RowIs
<1>2. F(h) \in 0..(FineRows - 1)
  BY HighBit
<1> DEFINE z == Row(F(h), c)
           k == z + n
<1>3. z \in Nat /\ M \in Nat \ {0}
  <2> HIDE DEF F
  <2> QED
    BY <1>2, RowRange
<1>4. CoarseY(o) < Rows /\ Row(FineY(o), o) = (x + 1) % M
  BY IncYRow DEF RowIs
<1> HIDE DEF M, F, x, o
<1>5. k \in Nat /\ z + (n + 1) = k + 1 /\ x = k % M
  <2>1. x = k % M
    BY <1>1
  <2> HIDE DEF z
  <2> QED
    BY <1>3, <2>1
<1> HIDE DEF k, z
<1>6. (x + 1) % M = (k + 1) % M
  BY <1>3, <1>5, OneMore
<1>7. Row(FineY(o), o) = (Row(F(h), c) + (n + 1)) % M
  BY <1>4, <1>5, <1>6 DEF z
<1> QED
  BY <1>4, <1>7 DEF RowIs, F, M, o

LEMMA RowCopied ==
  ASSUME NEW a \in Nat, NEW c \in Nat, CoarseY(c) < Rows
  PROVE  RowIs(CopyY(a, c), c, 0)
<1> DEFINE M == 2 * FineRows * Rows
           F(h) == h * (FineRows \div 2) + (FineY(c) % (FineRows \div 2))
           o == CopyY(a, c)
<1>1. CoarseY(o) = CoarseY(c) /\ NtY(o) = NtY(c) /\ \E h \in 0..1 : FineY(o) = F(h)
  BY CopyYFields
<1>2. PICK h \in 0..1 : FineY(o) = F(h)
  BY <1>1
<1>3. F(h) \in 0..(FineRows - 1)
  BY HighBit
<1> DEFINE z == Row(F(h), c)
<1>4. Row(FineY(o), o) = z
  <2> HIDE DEF F, o
  <2> QED
    BY <1>1, <1>2 DEF Row
<1>5. M \in Nat \ {0} /\ z \in 0..(M - 1)
  <2> HIDE DEF F
  <2> QED
    BY <1>3, RowRange
<1>6. CoarseY(o) < Rows
  BY <1>1
<1> HIDE DEF M, o, F, z
<1>7. z % M = z /\ z + 0 = z
  BY <1>5, SmallDigit
<1>8. Row(FineY(o), o) = (z + 0) % M
  BY <1>4, <1>7
<1> QED
  BY <1>6, <1>8 DEF RowIs, M, o, F, z

-----------------------------------------------------------------------------
(* Where the address register is, at every dot of every line that no       *)
(* access disturbed: the conjuncts follow it from the last visible line,   *)
(* whose end copies the column back, through the prefetch and the vertical *)
(* copy of the pre-render line, into the lines of the next frame.          *)
Ahead == TileSteps(Prefetch..(Dots - 1))

QuietWhere ==
  /\ quiet \in 0..2 /\ (quiet # 0 => Rendering)
  /\ quiet = 1 => \/ sl = VisibleLines - 1 /\ dot >= 1
                  \/ sl \in VisibleLines..PreRender /\ (sl = PreRender => dot <= CopyLast)

LineColumn ==
  quiet = 2 /\ sl < VisibleLines /\ dot <= DrawDots + 1
    => ColumnIs(v, t, Ahead + TileSteps(2..(dot - 1)))
AheadColumn ==
  quiet # 0 /\ sl < VisibleLines /\ dot > DrawDots + 2
    => ColumnIs(v, t, TileSteps(Prefetch..(dot - 1)))
BlankColumn == quiet # 0 /\ sl >= VisibleLines => ColumnIs(v, t, Ahead)

LineRow ==
  quiet = 2 /\ sl < VisibleLines /\ dot <= DrawDots + 1 /\ CoarseY(t) < Rows => RowIs(v, t, sl)
NextLineRow ==
  quiet = 2 /\ sl < VisibleLines /\ dot >= DrawDots + 2 /\ CoarseY(t) < Rows => RowIs(v, t, sl + 1)
FrameRow ==
  quiet # 0 /\ sl = PreRender /\ dot > CopyFirst /\ CoarseY(t) < Rows => RowIs(v, t, 0)

Scroll == QuietWhere /\ LineColumn /\ AheadColumn /\ BlankColumn /\ LineRow /\ NextLineRow /\ FrameRow

LEMMA Dimensions ==
  /\ Dots \in Nat /\ VisibleLines \in Nat /\ VblankLine \in Nat /\ PreRender \in Nat
  /\ DrawDots \in Nat /\ CopyFirst \in Nat /\ CopyLast \in Nat /\ Prefetch \in Nat
  /\ 0 < VisibleLines /\ VisibleLines < PreRender
  /\ 1 < DrawDots /\ DrawDots + 2 < CopyFirst /\ CopyFirst <= CopyLast
  /\ CopyLast + 2 < Dots /\ DrawDots + 2 < Prefetch
BY GeometryAssumption

OnTile(d) == (d - 1) % TileDots = 0

LEMMA LineEndsOnTile == OnTile(DrawDots + 1)
<1>1. DrawDots % TileDots = 0 /\ DrawDots \in Nat
  BY AddressAssumption, GeometryAssumption
<1>2. DrawDots + 1 - 1 = DrawDots
  BY <1>1
<1> QED
  BY <1>1, <1>2 DEF OnTile

(* update_vram_addr on a visible line                                      *)
LEMMA ScrollVisible ==
  ASSUME Step, Rendering, sl < VisibleLines, dot \in Nat, sl \in Nat
  PROVE  /\ (dot >= Prefetch \/ dot <= DrawDots) /\ dot > 1 /\ OnTile(dot) => v' = inc_coarse_x(v)
         /\ dot = DrawDots + 1 => v' = inc_y(inc_coarse_x(v))
         /\ dot = DrawDots + 2 => v' = CopyX(v, t)
         /\ dot # DrawDots + 2 /\ (dot <= 1 \/ ~OnTile(dot) \/ (dot > DrawDots + 2 /\ dot < Prefetch))
              => v' = v
<1>1. v' = IF (dot >= Prefetch \/ dot <= DrawDots + 1) /\ dot > 1 /\ OnTile(dot)
           THEN IF dot = DrawDots + 1 THEN inc_y(inc_coarse_x(v)) ELSE inc_coarse_x(v)
           ELSE IF dot = DrawDots + 2 THEN CopyX(v, t) ELSE v
  <2>1. v' = Scrolled
    BY DEF Step
  <2>2. ~(sl >= VisibleLines)
    BY Dimensions
  <2> QED
    BY <2>1, <2>2 DEF Scrolled, OnTile
<1>2. OnTile(DrawDots + 1)
  BY LineEndsOnTile
<1> QED
  BY <1>1, <1>2, Dimensions

LEMMA ScrollBlank ==
  ASSUME Step, Rendering, sl >= VisibleLines, sl \in Nat
  PROVE  /\ sl = PreRender /\ dot \in CopyFirst..CopyLast => v' = CopyY(v, t)
         /\ ~(sl = PreRender /\ dot \in CopyFirst..CopyLast) => v' = v
<1>1. v' = Scrolled
  BY DEF Step
<1>2. ~(sl < VisibleLines)
  BY Dimensions
<1> QED
  BY <1>1, <1>2 DEF Scrolled

(* Everything a step of the cursor does that Scroll depends on             *)
LEMMA StepMoves ==
  ASSUME IInv, Step, QuietWhere
  PROVE  /\ sl \in 0..PreRender /\ dot \in Nat /\ dot < LineLength /\ t' = t
         /\ LineLength \in {Dots - 1, Dots} /\ (sl # PreRender => LineLength = Dots)
         /\ \/ sl' = sl /\ dot' = dot + 1 /\ dot + 1 < LineLength
            \/ sl < PreRender /\ sl' = sl + 1 /\ dot' = 0 /\ dot + 1 = LineLength
            \/ sl = PreRender /\ sl' = 0 /\ dot' = 0 /\ dot + 1 = LineLength
         /\ quiet' \in {quiet, 1, 2} /\ (quiet' # 0 => Rendering) /\ mask' = mask
         /\ quiet' = 1 /\ quiet # 1 => quiet = 0 /\ sl = VisibleLines - 1 /\ dot = 0
         /\ quiet' = 2 /\ quiet # 2 => quiet = 1 /\ sl = PreRender /\ dot = CopyLast
         /\ quiet = 1 /\ sl = PreRender /\ dot = CopyLast => quiet' = 2
<1>1. CursorInFrame /\ MoveCursor /\ t' = t /\ mask' = mask /\ quiet' = Undisturbed
  BY DEF IInv, Step
<1>2. LineLength \in {Dots - 1, Dots} /\ (sl # PreRender => LineLength = Dots)
  BY DEF LineLength
<1>3. sl \in 0..PreRender /\ dot \in 0..(LineLength - 1)
  BY <1>1 DEF CursorInFrame
<1>4. dot \in Nat /\ dot < LineLength
  BY <1>2, <1>3, Dimensions
<1>5. \/ sl' = sl /\ dot' = dot + 1 /\ dot + 1 < LineLength
      \/ sl < PreRender /\ sl' = sl + 1 /\ dot' = 0 /\ dot + 1 = LineLength
      \/ sl = PreRender /\ sl' = 0 /\ dot' = 0 /\ dot + 1 = LineLength
  BY <1>1, Moves
<1>6. quiet \in 0..2 /\ (quiet # 0 => Rendering)
  BY DEF QuietWhere
<1>7. /\ quiet' \in {quiet, 1, 2} /\ (quiet' # 0 => Rendering)
      /\ quiet' = 1 /\ quiet # 1 => quiet = 0 /\ sl = VisibleLines - 1 /\ dot = 0
      /\ quiet' = 2 /\ quiet # 2 => quiet = 1 /\ sl = PreRender /\ dot = CopyLast
      /\ quiet = 1 /\ sl = PreRender /\ dot = CopyLast => quiet' = 2
  BY <1>1, <1>6 DEF Undisturbed
<1> QED
  BY <1>1, <1>2, <1>3, <1>4, <1>5, <1>7

LEMMA StepQuiet ==
  ASSUME IInv, Step, QuietWhere
  PROVE  QuietWhere'
<1>1. quiet \in 0..2 /\ Rendering' = Rendering
  BY StepMoves DEF QuietWhere, Rendering
<1>2. quiet' \in 0..2 /\ (quiet' # 0 => Rendering')
  BY <1>1, StepMoves
<1>3. ASSUME quiet' = 1
      PROVE  \/ sl' = VisibleLines - 1 /\ dot' >= 1
             \/ sl' \in VisibleLines..PreRender /\ (sl' = PreRender => dot' <= CopyLast)
  <2>1. CASE quiet = 1
    <3>1. ~(sl = PreRender /\ dot = CopyLast)
      BY <1>3, <2>1, StepMoves
    <3> QED
      BY <2>1, <3>1, StepMoves, Dimensions DEF QuietWhere
  <2>2. CASE quiet # 1
    <3>1. sl = VisibleLines - 1 /\ dot = 0
      BY <1>3, <2>2, StepMoves
    <3> QED
      BY <3>1, StepMoves, Dimensions
  <2> QED
    BY <2>1, <2>2
<1> QED
  BY <1>2, <1>3 DEF QuietWhere

(* An undisturbed line: the address register moves one column when the     *)
(* tiles passed since dot a are one more.                                  *)
LEMMA TileColumn ==
  ASSUME NEW a \in Nat, NEW d \in Nat, a <= d, NEW m \in Nat, NEW x \in Nat, NEW y, NEW c \in Nat,
         ColumnIs(x, c, m + TileSteps(a..(d - 1))),
         OnTile(d) => y = inc_coarse_x(x), ~OnTile(d) => y = x
  PROVE  ColumnIs(y, c, m + TileSteps(a..d))
<1> DEFINE i == TileSteps(a..(d - 1))
           k == TileSteps(a..d)
<1>1. i \in Nat /\ (OnTile(d) => k = i + 1) /\ (~OnTile(d) => k = i)
  BY TilesNext DEF OnTile
<1>2. ColumnIs(x, c, m + i)
  OBVIOUS
<1> HIDE DEF i, k
<1>3. ASSUME OnTile(d) PROVE ColumnIs(y, c, m + k)
  <2>1. m + i \in Nat /\ (m + i) + 1 = m + k
    BY <1>1, <1>3
  <2>2. ColumnIs(inc_coarse_x(x), c, (m + i) + 1)
    BY <1>2, <2>1, ColumnMoves
  <2> QED
    BY <1>3, <2>1, <2>2
<1>4. ASSUME ~OnTile(d) PROVE ColumnIs(y, c, m + k)
  BY <1>1, <1>2, <1>4
<1>5. ColumnIs(y, c, m + k)
  BY <1>3, <1>4
<1> QED
  BY <1>5 DEF k

(* The last dot of a visible line completes the columns fetched ahead.     *)
LEMMA LineEnd ==
  ASSUME IInv, Step, QuietWhere, v \in Nat, t \in Nat, AheadColumn,
         quiet # 0, sl < VisibleLines, dot + 1 = Dots
  PROVE  ColumnIs(v', t, Ahead)
<1>1. sl \in Nat /\ dot \in Nat /\ dot > DrawDots + 2 /\ dot = Dots - 1 /\ Prefetch \in Nat
  BY StepMoves, Dimensions
<1>2. Rendering
  BY DEF QuietWhere
<1>3. ColumnIs(v, t, TileSteps(Prefetch..(dot - 1)))
  BY <1>1 DEF AheadColumn
<1>4. /\ dot >= Prefetch /\ OnTile(dot) => v' = inc_coarse_x(v)
      /\ dot < Prefetch \/ ~OnTile(dot) => v' = v
  BY <1>1, <1>2, ScrollVisible, Dimensions
<1>5. ASSUME Prefetch <= dot PROVE ColumnIs(v', t, TileSteps(Prefetch..dot))
  <2> DEFINE i == TileSteps(Prefetch..(dot - 1))
             k == TileSteps(Prefetch..dot)
  <2>1. i \in Nat /\ k \in Nat
    BY <1>1, <1>5, TilesNext
  <2>2. ColumnIs(v, t, 0 + i)
    <3> HIDE DEF i
    <3>1. 0 + i = i
      BY <2>1
    <3> QED
      BY <1>3, <3>1 DEF i
  <2>3. ColumnIs(v', t, 0 + k)
    BY <1>1, <1>4, <1>5, <2>2, TileColumn
  <2> HIDE DEF i, k
  <2>4. 0 + k = k
    BY <2>1
  <2> QED
    BY <2>3, <2>4 DEF k
<1>6. ASSUME dot < Prefetch PROVE ColumnIs(v', t, TileSteps(Prefetch..dot))
  <2>1. TileSteps(Prefetch..dot) = 0 /\ TileSteps(Prefetch..(dot - 1)) = 0
    BY <1>1, <1>6, TilesNone
  <2>2. v' = v
    BY <1>4, <1>6
  <2> QED
    BY <1>3, <2>1, <2>2
<1>7. ColumnIs(v', t, TileSteps(Prefetch..dot))
  BY <1>1, <1>5, <1>6
<1> QED
  BY <1>1, <1>7 DEF Ahead

LEMMA AheadNat == Ahead \in Nat /\ Ahead + TileSteps(2..(-1)) = Ahead /\ Ahead + TileSteps(2..0) = Ahead
                  /\ Ahead + TileSteps(2..1) = Ahead
<1>1. Ahead \in Nat
  <2>1. Prefetch \in Nat /\ Dots - 1 \in Int
    BY Dimensions
  <2> QED
    BY <2>1, TilesNat DEF Ahead
<1>2. TileSteps(2..(-1)) = 0 /\ TileSteps(2..0) = 0 /\ TileSteps(2..1) = 0
  BY TilesNone
<1> QED
  BY <1>1, <1>2

LEMMA StepLineColumn ==
  ASSUME IInv, Step, QuietWhere, v \in Nat, t \in Nat, LineColumn, AheadColumn, BlankColumn
  PROVE  LineColumn'
<1> SUFFICES ASSUME quiet' = 2, sl' < VisibleLines, dot' <= DrawDots + 1
             PROVE  ColumnIs(v', t, Ahead + TileSteps(2..(dot' - 1)))
  BY StepMoves DEF LineColumn, Ahead
<1>1. sl \in Nat /\ dot \in Nat /\ dot < LineLength /\ LineLength \in {Dots - 1, Dots}
  BY StepMoves, Dimensions
<1>2. quiet = 2
  <2>1. dot = CopyLast /\ sl = PreRender => dot' = dot + 1 /\ sl' = sl
    BY <1>1, StepMoves, Dimensions
  <2> QED
    BY <2>1, StepMoves, Dimensions
<1>3. Rendering
  BY <1>2 DEF QuietWhere
<1>4. ASSUME sl' = sl, dot' = dot + 1
      PROVE  ColumnIs(v', t, Ahead + TileSteps(2..(dot' - 1)))
  <2>1. sl < VisibleLines /\ dot <= DrawDots /\ dot' - 1 = dot
    BY <1>1, <1>4, Dimensions
  <2>2. ColumnIs(v, t, Ahead + TileSteps(2..(dot - 1)))
    BY <1>1, <1>2, <2>1, Dimensions DEF LineColumn
  <2>3. CASE dot > 1
    <3>1. (OnTile(dot) => v' = inc_coarse_x(v)) /\ (~OnTile(dot) => v' = v)
      BY <1>1, <1>3, <2>1, <2>3, ScrollVisible, Dimensions
    <3>2. Ahead \in Nat /\ 2 \in Nat /\ 2 <= dot
      BY <1>1, <2>3, AheadNat
    <3>3. ColumnIs(v', t, Ahead + TileSteps(2..dot))
      BY <1>1, <2>2, <3>1, <3>2, TileColumn
    <3> QED
      BY <2>1, <3>3
  <2>4. CASE dot <= 1
    <3>1. v' = v
      BY <1>1, <1>3, <2>1, <2>4, ScrollVisible, Dimensions
    <3>2. dot = 0 \/ dot = 1
      BY <1>1, <2>4
    <3>3. Ahead + TileSteps(2..(dot - 1)) = Ahead /\ Ahead + TileSteps(2..dot) = Ahead
      <4>1. CASE dot = 0
        <5>1. dot - 1 = -1
          BY <4>1
        <5> QED
          BY <4>1, <5>1, AheadNat
      <4>2. CASE dot = 1
        <5>1. dot - 1 = 0
          BY <4>2
        <5> QED
          BY <4>2, <5>1, AheadNat
      <4> QED
        BY <3>2, <4>1, <4>2
    <3> QED
      BY <2>1, <2>2, <3>1, <3>3
  <2> QED
    BY <1>1, <2>3, <2>4
<1>5. ASSUME dot' = 0, ColumnIs(v', t, Ahead)
      PROVE  ColumnIs(v', t, Ahead + TileSteps(2..(dot' - 1)))
  <2>1. dot' - 1 = -1
    BY <1>5
  <2> QED
    BY <1>5, <2>1, AheadNat
<1>6. ASSUME sl < PreRender, sl' = sl + 1, dot + 1 = LineLength
      PROVE  ColumnIs(v', t, Ahead)
  <2>1. sl < VisibleLines /\ dot + 1 = Dots
    BY <1>1, <1>6, StepMoves, Dimensions
  <2> QED
    BY <1>2, <2>1, LineEnd
<1>7. ASSUME sl = PreRender, sl' = 0, dot + 1 = LineLength
      PROVE  ColumnIs(v', t, Ahead)
  <2>1. sl >= VisibleLines /\ dot \notin CopyFirst..CopyLast
    BY <1>1, <1>7, Dimensions
  <2>2. v' = v
    BY <1>1, <1>3, <2>1, ScrollBlank
  <2>3. ColumnIs(v, t, Ahead)
    BY <1>2, <2>1 DEF BlankColumn
  <2> QED
    BY <2>2, <2>3
<1> QED
  BY <1>4, <1>5, <1>6, <1>7, StepMoves

LEMMA StepAheadColumn ==
  ASSUME IInv, Step, QuietWhere, v \in Nat, t \in Nat, AheadColumn
  PROVE  AheadColumn'
<1> SUFFICES ASSUME quiet' # 0, sl' < VisibleLines, dot' > DrawDots + 2
             PROVE  ColumnIs(v', t, TileSteps(Prefetch..(dot' - 1)))
  BY StepMoves DEF AheadColumn
<1>1. sl \in Nat /\ dot \in Nat /\ Prefetch \in Nat
  BY StepMoves, Dimensions
<1>2. sl' = sl /\ dot' = dot + 1 /\ sl < VisibleLines /\ dot >= DrawDots + 2 /\ dot' - 1 = dot
  BY <1>1, StepMoves, Dimensions
<1>3. quiet # 0
  BY <1>1, <1>2, StepMoves, Dimensions
<1>4. Rendering
  BY <1>3 DEF QuietWhere
<1>5. CASE dot = DrawDots + 2
  <2>1. v' = CopyX(v, t) /\ dot < Prefetch
    BY <1>1, <1>2, <1>4, <1>5, ScrollVisible, Dimensions
  <2>2. TileSteps(Prefetch..dot) = 0
    BY <1>1, <2>1, TilesNone
  <2>3. ColumnIs(v', t, 0)
    BY <2>1, ColumnCopied
  <2> QED
    BY <1>2, <2>2, <2>3
<1>6. CASE dot # DrawDots + 2
  <2>1. ColumnIs(v, t, TileSteps(Prefetch..(dot - 1)))
    BY <1>1, <1>2, <1>3, <1>6, Dimensions DEF AheadColumn
  <2>2. /\ dot >= Prefetch /\ OnTile(dot) => v' = inc_coarse_x(v)
        /\ dot < Prefetch \/ ~OnTile(dot) => v' = v
    BY <1>1, <1>2, <1>4, <1>6, ScrollVisible, Dimensions
  <2>3. CASE Prefetch <= dot
    <3> DEFINE i == TileSteps(Prefetch..(dot - 1))
               k == TileSteps(Prefetch..dot)
    <3>1. i \in Nat /\ k \in Nat
      BY <1>1, <2>3, TilesNext
    <3>2. ColumnIs(v, t, 0 + i)
      <4> HIDE DEF i
      <4>1. 0 + i = i
        BY <3>1
      <4> QED
        BY <2>1, <4>1 DEF i
    <3>3. ColumnIs(v', t, 0 + k)
      BY <1>1, <2>2, <2>3, <3>2, TileColumn
    <3> HIDE DEF i, k
    <3>4. 0 + k = k
      BY <3>1
    <3> QED
      BY <1>2, <3>3, <3>4 DEF k
  <2>4. CASE dot < Prefetch
    <3>1. TileSteps(Prefetch..dot) = 0 /\ TileSteps(Prefetch..(dot - 1)) = 0
      BY <1>1, <2>4, TilesNone
    <3>2. v' = v
      BY <2>2, <2>4
    <3> QED
      BY <1>2, <2>1, <3>1, <3>2
  <2> QED
    BY <1>1, <2>3, <2>4
<1> QED
  BY <1>5, <1>6

LEMMA StepBlankColumn ==
  ASSUME IInv, Step, QuietWhere, v \in Nat, t \in Nat, AheadColumn, BlankColumn
  PROVE  BlankColumn'
<1> SUFFICES ASSUME quiet' # 0, sl' >= VisibleLines
             PROVE  ColumnIs(v', t, Ahead)
  BY StepMoves DEF BlankColumn, Ahead
<1>1. sl \in Nat /\ dot \in Nat
  BY StepMoves, Dimensions
<1>2. CASE sl >= VisibleLines
  <2>1. quiet # 0
    BY <1>1, <1>2, StepMoves, Dimensions
  <2>2. Rendering
    BY <2>1 DEF QuietWhere
  <2>3. v' = v \/ v' = CopyY(v, t)
    BY <1>1, <1>2, <2>2, ScrollBlank
  <2>4. SameColumn(v, v) /\ SameColumn(CopyY(v, t), v)
    BY CopyYFields DEF SameColumn
  <2>5. ColumnIs(v, t, Ahead)
    BY <1>2, <2>1 DEF BlankColumn
  <2> QED
    BY <2>3, <2>4, <2>5, ColumnKept
<1>3. CASE sl < VisibleLines
  <2>1. sl = VisibleLines - 1 /\ dot + 1 = Dots
    BY <1>1, <1>3, StepMoves, Dimensions
  <2>2. quiet # 0
    BY <1>1, <2>1, StepMoves, Dimensions
  <2> QED
    BY <1>3, <2>1, <2>2, LineEnd
<1> QED
  BY <1>1, <1>2, <1>3, Dimensions

(* The row is kept by a step on a visible line but for its dot             *)
(* DrawDots + 1.                                                           *)
LEMMA VisibleRow ==
  ASSUME IInv, Step, QuietWhere, v \in Nat, t \in Nat, quiet # 0, sl < VisibleLines,
         dot # DrawDots + 1
  PROVE  SameRow(v', v)
<1>1. sl \in Nat /\ dot \in Nat /\ Rendering
  BY StepMoves, Dimensions DEF QuietWhere
<1>2. v' = v \/ v' = inc_coarse_x(v) \/ v' = CopyX(v, t)
  <2>1. CASE dot = DrawDots + 2
    BY <1>1, <2>1, ScrollVisible
  <2>2. CASE dot # DrawDots + 2 /\ (dot >= Prefetch \/ dot <= DrawDots) /\ dot > 1 /\ OnTile(dot)
    BY <1>1, <2>2, ScrollVisible
  <2>3. CASE dot # DrawDots + 2 /\ (dot <= 1 \/ ~OnTile(dot) \/ (dot > DrawDots + 2 /\ dot < Prefetch))
    BY <1>1, <2>3, ScrollVisible
  <2> QED
    BY <1>1, <2>1, <2>2, <2>3, Dimensions
<1>3. SameRow(v, v) /\ SameRow(inc_coarse_x(v), v) /\ SameRow(CopyX(v, t), v)
  BY IncXFields, CopyXFields DEF SameRow
<1> QED
  BY <1>2, <1>3

LEMMA StepLineRow ==
  ASSUME IInv, Step, QuietWhere, v \in Nat, t \in Nat, LineRow, NextLineRow, FrameRow
  PROVE  LineRow'
<1> SUFFICES ASSUME quiet' = 2, sl' < VisibleLines, dot' <= DrawDots + 1, CoarseY(t) < Rows
             PROVE  RowIs(v', t, sl')
  BY StepMoves DEF LineRow
<1>1. sl \in Nat /\ dot \in Nat /\ dot < LineLength /\ LineLength \in {Dots - 1, Dots}
  BY StepMoves, Dimensions
<1>2. quiet = 2
  <2>1. dot = CopyLast /\ sl = PreRender => dot' = dot + 1 /\ sl' = sl
    BY <1>1, StepMoves, Dimensions
  <2> QED
    BY <2>1, StepMoves, Dimensions
<1>3. ASSUME sl' = sl, dot' = dot + 1
      PROVE  RowIs(v', t, sl')
  <2>1. sl < VisibleLines /\ dot <= DrawDots /\ dot # DrawDots + 1
    BY <1>1, <1>3, Dimensions
  <2>2. RowIs(v, t, sl)
    BY <1>1, <1>2, <2>1, Dimensions DEF LineRow
  <2>3. SameRow(v', v)
    BY <1>2, <2>1, VisibleRow
  <2> QED
    BY <1>3, <2>2, <2>3, RowKept
<1>4. ASSUME sl < PreRender, sl' = sl + 1, dot + 1 = LineLength
      PROVE  RowIs(v', t, sl')
  <2>1. sl < VisibleLines /\ dot >= DrawDots + 2 /\ dot # DrawDots + 1
    BY <1>1, <1>4, Dimensions
  <2>2. RowIs(v, t, sl + 1)
    BY <1>2, <2>1 DEF NextLineRow
  <2>3. SameRow(v', v)
    BY <1>2, <2>1, VisibleRow
  <2> QED
    BY <1>4, <2>2, <2>3, RowKept
<1>5. ASSUME sl = PreRender, sl' = 0, dot + 1 = LineLength
      PROVE  RowIs(v', t, sl')
  <2>1. sl >= VisibleLines /\ dot \notin CopyFirst..CopyLast /\ dot > CopyFirst
    BY <1>1, <1>5, Dimensions
  <2>2. v' = v
    <3>1. Rendering
      BY <1>2 DEF QuietWhere
    <3> QED
      BY <1>1, <2>1, <3>1, ScrollBlank
  <2>3. RowIs(v, t, 0)
    BY <1>2, <1>5, <2>1 DEF FrameRow
  <2> QED
    BY <1>5, <2>2, <2>3
<1> QED
  BY <1>3, <1>4, <1>5, StepMoves

LEMMA StepNextLineRow ==
  ASSUME IInv, Step, QuietWhere, v \in Nat, t \in Nat, LineRow, NextLineRow
  PROVE  NextLineRow'
<1> SUFFICES ASSUME quiet' = 2, sl' < VisibleLines, dot' >= DrawDots + 2, CoarseY(t) < Rows
             PROVE  RowIs(v', t, sl' + 1)
  BY StepMoves DEF NextLineRow
<1>1. sl \in Nat /\ dot \in Nat
  BY StepMoves, Dimensions
<1>2. sl' = sl /\ dot' = dot + 1 /\ sl < VisibleLines /\ dot >= DrawDots + 1 /\ quiet = 2
  BY <1>1, StepMoves, Dimensions
<1>3. CASE dot = DrawDots + 1
  <2>1. Rendering
    BY <1>2 DEF QuietWhere
  <2>2. v' = inc_y(inc_coarse_x(v))
    BY <1>1, <1>2, <1>3, <2>1, ScrollVisible
  <2>3. RowIs(v, t, sl)
    BY <1>1, <1>2, <1>3, Dimensions DEF LineRow
  <2>4. inc_coarse_x(v) \in Nat /\ SameRow(inc_coarse_x(v), v)
    BY IncXFields
  <2>5. RowIs(inc_coarse_x(v), t, sl)
    BY <2>3, <2>4, RowKept
  <2>6. RowIs(inc_y(inc_coarse_x(v)), t, sl + 1)
    BY <1>1, <2>4, <2>5, RowMoves
  <2> QED
    BY <1>2, <2>2, <2>6
<1>4. CASE dot # DrawDots + 1
  <2>1. RowIs(v, t, sl + 1)
    BY <1>1, <1>2, <1>4, Dimensions DEF NextLineRow
  <2>2. SameRow(v', v)
    BY <1>2, <1>4, VisibleRow
  <2> QED
    BY <1>2, <2>1, <2>2, RowKept
<1> QED
  BY <1>3, <1>4

LEMMA StepFrameRow ==
  ASSUME IInv, Step, QuietWhere, v \in Nat, t \in Nat, FrameRow
  PROVE  FrameRow'
<1> SUFFICES ASSUME quiet' # 0, sl' = PreRender, dot' > CopyFirst, CoarseY(t) < Rows
             PROVE  RowIs(v', t, 0)
  BY StepMoves DEF FrameRow
<1>1. sl \in Nat /\ dot \in Nat
  BY StepMoves, Dimensions
<1>2. sl' = sl /\ dot' = dot + 1 /\ sl = PreRender /\ dot >= CopyFirst /\ sl >= VisibleLines
  BY <1>1, StepMoves, Dimensions
<1>3. quiet # 0
  BY <1>1, <1>2, StepMoves, Dimensions
<1>4. Rendering
  BY <1>3 DEF QuietWhere
<1>5. CASE dot <= CopyLast
  <2>1. v' = CopyY(v, t)
    BY <1>1, <1>2, <1>4, <1>5, ScrollBlank, Dimensions
  <2> QED
    BY <2>1, RowCopied
<1>6. CASE ~(dot <= CopyLast)
  <2>1. v' = v
    BY <1>1, <1>2, <1>4, <1>6, ScrollBlank, Dimensions
  <2>2. dot > CopyFirst
    BY <1>1, <1>6, Dimensions
  <2>3. RowIs(v, t, 0)
    BY <1>2, <1>3, <2>2 DEF FrameRow
  <2> QED
    BY <2>1, <2>3
<1> QED
  BY <1>5, <1>6

-----------------------------------------------------------------------------
(* The registers keep their 16 bits: the bits above the fine row are 0 or 1. *)
LEMMA AddressSize ==
  /\ AddrBits \in Nat \ {0} /\ LoSpan \in Nat \ {0} /\ AddrBits = LoSpan * (AddrBits \div LoSpan)
  /\ AddrBits \div LoSpan \in Nat
  /\ 4 * Cols * CoarseRows * FineRows \in Nat \ {0}
  /\ 4 * AddrBits = 2 * (4 * Cols * CoarseRows * FineRows)
<1> DEFINE C == Cols
           R == CoarseRows
           half == FineRows \div 2
           L == LoSpan
           B == AddrBits
<1>1. C \in Nat \ {0} /\ R \in Nat \ {0} /\ half \in Nat \ {0} /\ 2 * half = FineRows
  BY FieldSizes, EvenFineRows
<1>2. L \in Nat \ {0} /\ B % L = 0
  BY AddressAssumption
<1>3. B = 4 * C * R * half
  BY DEF AddrBits
<1>4. B \in Nat \ {0} /\ 4 * C * R * (2 * half) \in Nat \ {0} /\ 4 * B = 2 * (4 * C * R * (2 * half))
  <2> HIDE DEF C, R, half, B, L
  <2> DEFINE CR == C * R
             CRh == CR * half
  <2>1. CR \in Nat \ {0}
    BY <1>1, Products
  <2>2. CRh \in Nat \ {0}
    <3> HIDE DEF CR
    <3> QED
      BY <1>1, <2>1, Products
  <2>3. 4 * C * R * half = 4 * CRh /\ 4 * C * R * (2 * half) = 8 * CRh
    BY <1>1
  <2> HIDE DEF CRh
  <2> QED
    BY <1>3, <2>2, <2>3
<1>5. B = L * (B \div L) /\ B \div L \in Nat
  <2> HIDE DEF B, L
  <2>1. B \in Nat
    BY <1>4
  <2>2. B = (B % L) + L * (B \div L) /\ B \div L \in Nat
    BY <1>2, <2>1, QuotientTimes
  <2> DEFINE p == L * (B \div L)
             r == B % L
  <2>3. p \in Nat
    <3>1. \A m, n \in Nat : m * n \in Nat
      OBVIOUS
    <3> QED
      BY <1>2, <2>2, <3>1
  <2>4. B = r + p /\ r = 0
    BY <1>2, <2>2
  <2> HIDE DEF p, r
  <2>5. B = p
    BY <2>3, <2>4
  <2> QED
    BY <2>2, <2>5 DEF p
<1>6. 4 * C * R * FineRows \in Nat \ {0} /\ 4 * B = 2 * (4 * C * R * FineRows)
  BY <1>1, <1>4
<1> QED
  BY <1>2, <1>4, <1>5, <1>6

LEMMA TopIsBit ==
  ASSUME NEW a \in Nat
  PROVE  a \in Addresses <=> Top(a) \in 0..1
<1> DEFINE K == 4 * Cols * CoarseRows * FineRows
           q == a \div K
<1>1. K \in Nat \ {0} /\ 4 * AddrBits = 2 * K /\ AddrBits \in Nat
  BY AddressSize
<1> HIDE DEF K
<1>2. q \in Nat /\ q * K <= a /\ a < q * K + K
  BY <1>1, QuotientTimes
<1>3. Top(a) = q
  BY DEF Top, K
<1> HIDE DEF q
<1>4. ASSUME q \in 0..1 PROVE a < 2 * K
  <2>1. q = 0 \/ q = 1
    BY <1>4
  <2>2. CASE q = 0
    BY <2>2, <1>1, <1>2
  <2>3. CASE q = 1
    BY <2>3, <1>1, <1>2
  <2> QED
    BY <2>1, <2>2, <2>3
<1>5. ASSUME q \notin 0..1 PROVE ~(a < 2 * K)
  <2>1. 2 <= q
    BY <1>2, <1>5
  <2>2. 2 * K <= q * K /\ q * K \in Nat
    BY <1>1, <1>2, <2>1, TimesMonotone
  <2> QED
    BY <1>1, <1>2, <2>2
<1>6. a \in Addresses <=> a < 2 * K
  <2>1. a \in Addresses <=> a <= 4 * AddrBits - 1
    BY <1>1 DEF Addresses
  <2> HIDE DEF Addresses
  <2> QED
    BY <1>1, <2>1
<1> QED
  BY <1>3, <1>4, <1>5, <1>6

LEMMA AddressNat ==
  ASSUME NEW a \in Addresses
  PROVE  a \in Nat
BY AddressSize DEF Addresses

LEMMA AddrIsAddress ==
  ASSUME NEW x, NEW y, NEW nx, NEW ny, NEW f, NEW b, Fields(x, y, nx, ny, f, b), b \in 0..1
  PROVE  Addr(x, y, nx, ny, f, b) \in Addresses
<1> DEFINE a == Addr(x, y, nx, ny, f, b)
<1>1. a \in Nat /\ Top(a) = b
  BY AddrFields
<1> HIDE DEF a
<1>2. a \in Addresses
  BY <1>1, TopIsBit
<1> QED
  BY <1>2 DEF a

LEMMA ScrolledIsAddress ==
  ASSUME t \in Addresses, v \in Addresses, sl \in Nat
  PROVE  Scrolled \in Addresses /\ inc_y(inc_coarse_x(v)) \in Addresses
<1>1. t \in Nat /\ v \in Nat /\ Top(v) \in 0..1
  BY AddressNat, TopIsBit
<1>2. inc_coarse_x(v) \in Nat /\ Top(inc_coarse_x(v)) = Top(v)
  BY <1>1, IncXFields DEF SameRow
<1>3. inc_y(inc_coarse_x(v)) \in Nat /\ Top(inc_y(inc_coarse_x(v))) = Top(v)
  BY <1>2, IncYFields DEF SameColumn
<1>4. CopyX(v, t) \in Nat /\ Top(CopyX(v, t)) = Top(v)
  BY <1>1, CopyXFields DEF SameRow
<1>5. CopyY(v, t) \in Nat /\ Top(CopyY(v, t)) = Top(v)
  BY <1>1, CopyYFields DEF SameColumn
<1>6. /\ inc_coarse_x(v) \in Addresses /\ inc_y(inc_coarse_x(v)) \in Addresses
      /\ CopyX(v, t) \in Addresses /\ CopyY(v, t) \in Addresses
  BY <1>1, <1>2, <1>3, <1>4, <1>5, TopIsBit
<1>7. Scrolled \in Addresses
  <2>1. (sl < VisibleLines \/ sl >= VisibleLines) /\ ~(sl < VisibleLines /\ sl >= VisibleLines)
    BY Dimensions
  <2> QED
    BY <1>6, <2>1 DEF Scrolled
<1> QED
  BY <1>6, <1>7

LEMMA TypesInit == Init => TypeOK
<1> SUFFICES ASSUME Init PROVE TypeOK
  OBVIOUS
<1>1. CursorInFrame
  BY InitInv DEF IInv
<1>2. 0 \in Addresses
  BY AddressSize DEF Addresses
<1>3. sprite0 \in BOOLEAN \X BOOLEAN
  BY DEF Init
<1>4. ctrl \in [inc : BOOLEAN, nmi : BOOLEAN, tall : BOOLEAN]
  BY DEF Init
<1>5. /\ vblank \in BOOLEAN /\ hit \in BOOLEAN /\ overflow \in BOOLEAN /\ hitDue \in BOOLEAN
      /\ overflowDot \in OverflowDots \cup {0}
  BY DEF Init
<1>6. mask \in SUBSET MaskBits /\ events \in SUBSET {"nmi", "present"}
  BY DEF Init
<1>7. w \in BOOLEAN /\ open \in BOOLEAN
  BY DEF Init
<1>8. quiet \in 0..2 /\ t \in Addresses /\ v \in Addresses
  BY <1>2 DEF Init
<1> QED
  BY <1>1, <1>3, <1>4, <1>5, <1>6, <1>7, <1>8 DEF TypeOK, CursorInFrame

LEMMA StepTypes ==
  ASSUME IInv, TypeOK, Step
  PROVE  TypeOK'
<1>1. CursorInFrame' /\ Due'
  BY StepCursor, StepDue
<1>2. v' \in Addresses /\ t' \in Addresses
  <2>1. t \in Addresses /\ v \in Addresses /\ sl \in 0..PreRender
    BY DEF TypeOK
  <2>2. sl \in Nat
    BY <2>1, Dimensions
  <2> QED
    BY <2>1, <2>2, ScrolledIsAddress DEF Step
<1>3. vblank' \in BOOLEAN /\ hit' \in BOOLEAN /\ overflow' \in BOOLEAN /\ w' \in BOOLEAN
  BY DEF Step, TypeOK
<1>4. hitDue' \in BOOLEAN /\ events' \in SUBSET {"nmi", "present"}
  BY DEF Step
<1>5. sprite0' \in BOOLEAN \X BOOLEAN
  BY DEF Step, TypeOK
<1>6. quiet' \in 0..2
  BY DEF Step, TypeOK, Undisturbed
<1>7. mask' \in SUBSET MaskBits /\ ctrl' \in [inc : BOOLEAN, nmi : BOOLEAN, tall : BOOLEAN] /\ open' \in BOOLEAN
  BY DEF Step, TypeOK
<1> QED
  BY <1>1, <1>2, <1>3, <1>4, <1>5, <1>6, <1>7 DEF TypeOK, CursorInFrame, Due

(* What the guest's writes make of the temporary register                  *)
LEMMA WriteAddress ==
  ASSUME TypeOK, Guest
  PROVE  t' \in Addresses /\ v' \in Addresses
<1>1. t \in Addresses /\ v \in Addresses /\ t \in Nat /\ v \in Nat /\ sl \in Nat
  <2>1. t \in Addresses /\ v \in Addresses /\ sl \in 0..PreRender
    BY DEF TypeOK
  <2> QED
    BY <2>1, AddressNat, Dimensions
<1>2. Fields(CoarseX(t), CoarseY(t), NtX(t), NtY(t), FineY(t), Top(t)) /\ Top(t) \in 0..1
  BY <1>1, FieldsOf, TopIsBit
<1>3. CASE ReadStatus \/ \E m \in MaskWrites : WriteMask(m)
  BY <1>1, <1>3 DEF ReadStatus, WriteMask
<1>4. ASSUME NEW c \in CtrlWrites, WriteCtrl(c)
      PROVE  t' \in Addresses /\ v' \in Addresses
  <2>1. c.nt \in 0..3
    BY GuestAssumption
  <2> DEFINE nx == c.nt % 2
             ny == c.nt \div 2
  <2>2. nx \in 0..1 /\ ny \in 0..1
    BY <2>1
  <2>3. t' = Addr(CoarseX(t), CoarseY(t), nx, ny, FineY(t), Top(t)) /\ v' = v
    BY <1>4 DEF WriteCtrl
  <2> HIDE DEF nx, ny
  <2>4. Fields(CoarseX(t), CoarseY(t), nx, ny, FineY(t), Top(t))
    BY <1>2, <2>2 DEF Fields
  <2> QED
    BY <1>1, <1>2, <2>3, <2>4, AddrIsAddress
<1>5. ASSUME NEW s \in ScrollWrites, WriteScroll(s)
      PROVE  t' \in Addresses /\ v' \in Addresses
  <2>1. s.coarse \in 0..(CoarseRows - 1) /\ s.fine \in 0..(FineRows - 1)
    BY GuestAssumption
  <2> DEFINE x == s.coarse % Cols
  <2>2. x \in 0..(Cols - 1)
    <3>1. s.coarse \in Nat
      BY <2>1, FieldSizes
    <3> QED
      BY <3>1, FieldSizes, QuotientTimes
  <2>3. /\ v' = v
        /\ \/ t' = Addr(x, CoarseY(t), NtX(t), NtY(t), FineY(t), Top(t))
           \/ t' = Addr(CoarseX(t), s.coarse, NtX(t), NtY(t), s.fine, Top(t))
    BY <1>5 DEF WriteScroll
  <2> HIDE DEF x
  <2>4. /\ Fields(x, CoarseY(t), NtX(t), NtY(t), FineY(t), Top(t))
        /\ Fields(CoarseX(t), s.coarse, NtX(t), NtY(t), s.fine, Top(t))
    BY <1>2, <2>1, <2>2 DEF Fields
  <2> QED
    BY <1>1, <1>2, <2>3, <2>4, AddrIsAddress
<1>6. ASSUME NEW b \in AddrWrites, WriteAddr(b)
      PROVE  t' \in Addresses /\ v' \in Addresses
  <2> DEFINE S == AddrBits \div LoSpan
  <2>1. b.hi \in 0..(S - 1) /\ b.lo \in 0..(LoSpan - 1)
    BY GuestAssumption
  <2>2. /\ AddrBits \in Nat \ {0} /\ LoSpan \in Nat \ {0} /\ AddrBits = LoSpan * S /\ S \in Nat
    BY AddressSize
  <2> DEFINE B == AddrBits
             L == LoSpan
             q == t \div B
             r == t % L
             p == t \div L
  <2>3. t < 4 * B
    BY <1>1, <2>2 DEF Addresses
  <2> HIDE DEF S, B, L
  <2>4. ASSUME ~w PROVE B * q + L * b.hi + r \in 0..(4 * B - 1)
    <3>1. q \in Nat /\ q * B <= t /\ r \in 0..(L - 1)
      BY <1>1, <2>2, QuotientTimes DEF B, L
    <3>2. q <= 3
      <4> HIDE DEF q, r, p
      <4>1. ASSUME 4 <= q PROVE FALSE
        <5>1. 4 * B <= q * B /\ q * B \in Nat /\ B \in Nat
          BY <3>1, <4>1, <2>2, TimesMonotone DEF B
        <5> QED
          BY <5>1, <3>1, <2>3, <1>1
      <4> QED
        BY <3>1, <4>1
    <3> DEFINE h == b.hi
    <3>3. h \in Nat /\ h + 1 \in Nat /\ h + 1 <= S /\ S \in Nat
      BY <2>1, <2>2
    <3> HIDE DEF q, r, p, h
    <3>4. (h + 1) * L <= S * L /\ (h + 1) * L = h * L + L /\ h * L \in Nat /\ S * L = B
      <4>1. (h + 1) * L <= S * L
        BY <3>3, <2>2, TimesMonotone DEF L
      <4>2. (h + 1) * L = h * L + L /\ h * L \in Nat /\ S * L = L * S
        BY <3>3, <2>2 DEF L
      <4> QED
        BY <4>1, <4>2, <2>2 DEF B, L
    <3>5. q * B <= 3 * B /\ q * B \in Nat /\ B \in Nat
      BY <3>1, <3>2, <2>2, TimesMonotone DEF B
    <3>6. B * q = q * B /\ L * h = h * L
      BY <3>1, <3>3, <2>2 DEF B, L
    <3> DEFINE qB == q * B
               hL == h * L
    <3>7. qB \in Nat /\ qB <= 3 * B /\ hL \in Nat /\ hL + L <= B /\ L \in Nat
      BY <3>4, <3>5, <2>2 DEF L
    <3> HIDE DEF qB, hL
    <3>8. qB + hL + r \in 0..(4 * B - 1)
      BY <3>1, <3>5, <3>7
    <3> QED
      BY <3>6, <3>8 DEF qB, hL, h
  <2>5. ASSUME w PROVE L * p + b.lo \in 0..(4 * B - 1)
    <3>1. p \in Nat /\ p * L <= t
      BY <1>1, <2>2, QuotientTimes DEF L
    <3> DEFINE N == 4 * S
    <3>2. N \in Nat /\ N * L = 4 * B /\ L \in Nat \ {0} /\ B \in Nat
      <4>1. N * L = 4 * (L * S)
        BY <2>2 DEF L
      <4> QED
        BY <4>1, <2>2 DEF B, L
    <3> HIDE DEF p, N, q, r
    <3>3. p + 1 <= N
      <4>1. ASSUME N <= p PROVE FALSE
        <5>1. N * L <= p * L /\ p * L \in Nat
          BY <3>1, <3>2, <4>1, TimesMonotone
        <5> QED
          BY <5>1, <3>1, <3>2, <2>3, <1>1
      <4> QED
        BY <3>1, <3>2, <4>1
    <3>4. (p + 1) * L <= N * L /\ (p + 1) * L = p * L + L /\ p * L \in Nat /\ L * p = p * L
      <4>1. (p + 1) * L <= N * L
        BY <3>1, <3>2, <3>3, TimesMonotone
      <4>2. (p + 1) * L = p * L + L /\ p * L \in Nat /\ L * p = p * L
        BY <3>1, <3>2
      <4> QED
        BY <4>1, <4>2
    <3> DEFINE pL == p * L
               lo == b.lo
    <3>5. pL \in Nat /\ pL + L <= 4 * B /\ lo \in 0..(L - 1)
      BY <3>2, <3>4, <2>1 DEF L
    <3> HIDE DEF pL, lo
    <3>6. pL + lo \in 0..(4 * B - 1)
      BY <3>2, <3>5
    <3> QED
      BY <3>4, <3>6 DEF pL, lo
  <2>6. /\ t' = IF ~w THEN B * q + L * b.hi + r ELSE L * p + b.lo
        /\ v' = IF w THEN t' ELSE v
    BY <1>6 DEF WriteAddr, B, L
  <2>7. t' \in 0..(4 * B - 1)
    BY <2>4, <2>5, <2>6, Zenon
  <2>8. t' \in Addresses
    BY <2>7 DEF Addresses, B
  <2> QED
    BY <1>1, <2>6, <2>8, Zenon
<1>7. ASSUME AccessData
      PROVE  t' \in Addresses /\ v' \in Addresses
  <2>1. t' = t /\ v' = DataIncrement
    BY <1>7 DEF AccessData
  <2>2. (v + IF ctrl.inc THEN Cols ELSE 1) % (4 * AddrBits) \in Addresses
    <3> DEFINE k == v + IF ctrl.inc THEN Cols ELSE 1
               W == 4 * AddrBits
    <3>1. k \in Nat /\ W \in Nat \ {0}
      BY <1>1, AddressSize, FieldSizes
    <3> HIDE DEF k, W
    <3>2. k % W \in 0..(W - 1)
      BY <3>1, QuotientTimes
    <3> QED
      BY <3>2 DEF Addresses, k, W
  <2>3. inc_y(inc_coarse_x(v)) \in Addresses
    BY <1>1, ScrolledIsAddress
  <2>4. v' \in Addresses
    BY <2>1, <2>2, <2>3, Zenon DEF DataIncrement
  <2> QED
    BY <1>1, <2>1, <2>4
<1> QED
  BY <1>3, <1>4, <1>5, <1>6, <1>7 DEF Guest

LEMMA AccessTypes ==
  ASSUME IInv, TypeOK, Guest
  PROVE  TypeOK'
<1>1. CursorInFrame' /\ Due'
  BY AccessInv DEF IInv
<1>2. t' \in Addresses /\ v' \in Addresses
  BY WriteAddress
<1>3. hit' = hit /\ overflow' = overflow /\ sprite0' = sprite0 /\ open' = open /\ hitDue' = hitDue
  <2>1. Access
    BY DEF Guest, ReadStatus, WriteCtrl, WriteMask, WriteScroll, WriteAddr, AccessData
  <2> QED
    BY <2>1 DEF Access
<1>4. vblank' \in BOOLEAN /\ w' \in BOOLEAN /\ quiet' \in 0..2
  <2>1. vblank \in BOOLEAN /\ w \in BOOLEAN /\ quiet \in 0..2
    BY DEF TypeOK
  <2>2. (vblank' = vblank \/ vblank' = FALSE) /\ (w' = w \/ w' = FALSE \/ w' = ~w)
    BY DEF Guest, ReadStatus, WriteCtrl, WriteMask, WriteScroll, WriteAddr, AccessData
  <2>3. quiet' = quiet \/ quiet' = 0
    BY DEF Guest, ReadStatus, WriteCtrl, WriteMask, WriteScroll, WriteAddr, AccessData
  <2>4. vblank' \in BOOLEAN /\ w' \in BOOLEAN
    BY <2>1, <2>2
  <2> QED
    BY <2>1, <2>3, <2>4
<1>5. mask' \in SUBSET MaskBits
  BY GuestAssumption
  DEF Guest, ReadStatus, WriteCtrl, WriteMask, WriteScroll, WriteAddr, AccessData, TypeOK
<1>6. ctrl' \in [inc : BOOLEAN, nmi : BOOLEAN, tall : BOOLEAN]
  BY GuestAssumption
  DEF Guest, ReadStatus, WriteCtrl, WriteMask, WriteScroll, WriteAddr, AccessData, TypeOK
<1>7. events' \in SUBSET {"nmi", "present"}
  BY DEF Guest, ReadStatus, WriteCtrl, WriteMask, WriteScroll, WriteAddr, AccessData
<1>8. /\ hit' \in BOOLEAN /\ overflow' \in BOOLEAN /\ hitDue' \in BOOLEAN
      /\ sprite0' \in BOOLEAN \X BOOLEAN /\ open' \in BOOLEAN
  BY <1>3 DEF TypeOK
<1> QED
  BY <1>1, <1>2, <1>4, <1>5, <1>6, <1>7, <1>8 DEF TypeOK, CursorInFrame, Due

-----------------------------------------------------------------------------
SInv == IInv /\ TypeOK /\ Scroll

LEMMA ScrollInit == Init => SInv
<1> SUFFICES ASSUME Init PROVE SInv
  OBVIOUS
<1>1. quiet = 0
  BY DEF Init
<1>2. Scroll
  BY <1>1 DEF Scroll, QuietWhere, LineColumn, AheadColumn, BlankColumn, LineRow, NextLineRow, FrameRow
<1> QED
  BY <1>2, InitInv, TypesInit DEF SInv

LEMMA StepScroll ==
  ASSUME SInv, Step
  PROVE  Scroll'
<1>1. /\ IInv /\ TypeOK /\ QuietWhere /\ LineColumn /\ AheadColumn /\ BlankColumn
      /\ LineRow /\ NextLineRow /\ FrameRow
  BY DEF SInv, Scroll
<1>2. v \in Nat /\ t \in Nat
  BY <1>1, AddressNat DEF TypeOK
<1>3. QuietWhere'
  BY <1>1, StepQuiet
<1>4. LineColumn'
  BY <1>1, <1>2, StepLineColumn
<1>5. AheadColumn' /\ BlankColumn'
  BY <1>1, <1>2, StepAheadColumn, StepBlankColumn
<1>6. LineRow' /\ NextLineRow' /\ FrameRow'
  BY <1>1, <1>2, StepLineRow, StepNextLineRow, StepFrameRow
<1> QED
  BY <1>3, <1>4, <1>5, <1>6 DEF Scroll

(* Every access but a read of the status disturbs the frame.               *)
LEMMA AccessScroll ==
  ASSUME SInv, Guest
  PROVE  Scroll'
<1>1. Access /\ (quiet' = 0 \/ (quiet' = quiet /\ UNCHANGED <<mask, t, v>>))
  BY DEF Guest, ReadStatus, WriteCtrl, WriteMask, WriteScroll, WriteAddr, AccessData
<1>2. CASE quiet' = 0
  BY <1>2 DEF Scroll, QuietWhere, LineColumn, AheadColumn, BlankColumn, LineRow, NextLineRow, FrameRow
<1>3. CASE quiet' = quiet /\ UNCHANGED <<mask, t, v>>
  <2>1. sl' = sl /\ dot' = dot /\ quiet' = quiet /\ mask' = mask /\ t' = t /\ v' = v
    BY <1>1, <1>3 DEF Access
  <2>2. Scroll
    BY DEF SInv
  <2> QED
    BY <2>1, <2>2
    DEF Scroll, QuietWhere, LineColumn, AheadColumn, BlankColumn, LineRow, NextLineRow, FrameRow,
        Rendering, Ahead
<1> QED
  BY <1>1, <1>2, <1>3

LEMMA ScrollStep == SInv /\ [Next]_vars => SInv'
<1> SUFFICES ASSUME SInv, [Next]_vars PROVE SInv'
  OBVIOUS
<1>1. IInv /\ TypeOK /\ Scroll
  BY DEF SInv
<1>2. IInv'
  BY <1>1, StepInv
<1>3. CASE Step
  BY <1>1, <1>2, <1>3, StepTypes, StepScroll DEF SInv
<1>4. CASE Guest
  BY <1>1, <1>2, <1>4, AccessTypes, AccessScroll DEF SInv
<1>5. CASE Quit
  <2>1. UNCHANGED <<sl, dot, odd, vblank, hit, overflow, hitDue, overflowDot, sprite0, mask, ctrl,
                    w, t, v, quiet>>
    BY <1>5 DEF Quit, status
  <2>2. events' = {} /\ open' = FALSE
    BY <1>5 DEF Quit
  <2>3. TypeOK'
    BY <1>1, <2>1, <2>2 DEF TypeOK, LineLength
  <2>4. Scroll'
    BY <1>1, <2>1
    DEF Scroll, QuietWhere, LineColumn, AheadColumn, BlankColumn, LineRow, NextLineRow, FrameRow,
        Rendering, Ahead
  <2> QED
    BY <1>2, <2>3, <2>4 DEF SInv
<1>6. CASE UNCHANGED vars
  <2>1. UNCHANGED <<sl, dot, odd, vblank, hit, overflow, hitDue, overflowDot, sprite0, mask, ctrl,
                    w, t, v, quiet, events, open>>
    BY <1>6 DEF vars, status
  <2>2. TypeOK'
    BY <1>1, <2>1 DEF TypeOK, LineLength
  <2>3. Scroll'
    BY <1>1, <2>1
    DEF Scroll, QuietWhere, LineColumn, AheadColumn, BlankColumn, LineRow, NextLineRow, FrameRow,
        Rendering, Ahead
  <2> QED
    BY <1>2, <2>2, <2>3 DEF SInv
<1> QED
  BY <1>3, <1>4, <1>5, <1>6 DEF Next

LEMMA ScrollHolds == Spec => []SInv
BY ScrollInit, ScrollStep, PTL DEF Spec

(* Every register keeps to its width, among them the two address           *)
(* registers, which every increment, copy and write leaves in 16 bits.     *)
THEOREM PpuTypes == Spec => []TypeOK
<1>1. SInv => TypeOK
  BY DEF SInv
<1> QED
  BY <1>1, ScrollHolds, PTL

(* The scroll position at the dots of a line, from the invariant           *)
LEMMA LineScrolled == SInv => ScrollPosition
<1> SUFFICES ASSUME SInv, quiet = 2, sl < VisibleLines, dot <= DrawDots + 1, CoarseY(t) < Rows
             PROVE  /\ Column(v) = (Column(t) + TileSteps(Prefetch..(Dots - 1))
                                      + TileSteps(2..(dot - 1))) % (2 * Cols)
                    /\ \E high \in 0..1 :
                         Row(FineY(v), v) = (Row(high * (FineRows \div 2)
                                                   + (FineY(t) % (FineRows \div 2)), t) + sl)
                                              % (2 * FineRows * Rows)
  BY DEF ScrollPosition
<1>1. ColumnIs(v, t, Ahead + TileSteps(2..(dot - 1))) /\ RowIs(v, t, sl)
  BY DEF SInv, Scroll, LineColumn, LineRow
<1>2. Column(t) + (Ahead + TileSteps(2..(dot - 1))) = Column(t) + Ahead + TileSteps(2..(dot - 1))
  <2> DEFINE c == Column(t)
             i == TileSteps(2..(dot - 1))
             W == 2 * Cols
  <2>1. t \in Nat /\ dot \in 0..(LineLength - 1)
    BY AddressNat DEF SInv, TypeOK
  <2>2. dot - 1 \in Int
    BY <2>1, Dimensions DEF LineLength
  <2>3. c \in 0..(W - 1) /\ i \in Nat /\ Ahead \in Nat
    BY <2>1, <2>2, ColumnRange, TilesNat, AheadNat
  <2> HIDE DEF c, i, W
  <2>4. c + (Ahead + i) = c + Ahead + i
    BY <2>3
  <2> QED
    BY <2>4 DEF c, i
<1>3. Column(v) = (Column(t) + Ahead + TileSteps(2..(dot - 1))) % (2 * Cols)
  BY <1>1, <1>2 DEF ColumnIs
<1> QED
  BY <1>1, <1>3 DEF Ahead, RowIs

(* In a frame that no access disturbed, every line shows the row, and      *)
(* every tile the column, that the guest scrolled to, both wrapping around *)
(* the nametables: for every size of the picture and of the nametables,    *)
(* and whatever the guest wrote before.                                    *)
THEOREM ScrollAsWritten == Spec => []ScrollPosition
BY ScrollHolds, LineScrolled, PTL

-----------------------------------------------------------------------------
LEMMA CycleFacts ==
  DotsPerCycle \in Nat \ {0} /\ InstrCycles \subseteq Nat \ {0} /\ DmaBytes \in Nat \ {0}
BY CycleAssumption

-----------------------------------------------------------------------------
(* A step of the machine is a dot of the picture unit, an access to it, or *)
(* nothing to it.                                                          *)
LEMMA StepsOfThePpu == [MachineNext]_machineVars => [Next]_vars
<1> SUFFICES ASSUME [MachineNext]_machineVars PROVE [Next]_vars
  OBVIOUS
<1>1. ASSUME Poll \/ Write \/ Away PROVE [Next]_vars
  <2>1. CASE Poll
    BY <2>1 DEF Poll, Next, Guest
  <2>2. CASE Write
    BY <2>2 DEF Write, Next, Guest
  <2>3. CASE Away
    BY <2>3 DEF Away
  <2> QED
    BY <1>1, <2>1, <2>2, <2>3
<1>2. CASE Dot \/ WindowCloses
  BY <1>2 DEF Dot, WindowCloses, Next
<1>3. CASE \E c \in InstrCycles : Execute(c) \/ EndDma(c)
  BY <1>1, <1>3 DEF Execute, EndDma
<1>4. CASE \E page \in {"ram", "ppu"} : StartDma(page)
  BY <1>1, <1>4 DEF StartDma
<1>5. CASE Align \/ Put
  BY <1>1, <1>5 DEF Align, Put
<1>6. CASE Get
  <2>1. Poll \/ AccessData \/ Away
    BY <1>6 DEF Get
  <2> QED
    BY <1>1, <2>1 DEF Next, Guest
<1>7. CASE UNCHANGED machineVars
  BY <1>7 DEF machineVars
<1> QED
  BY <1>2, <1>3, <1>4, <1>5, <1>6, <1>7 DEF MachineNext

(* Every run of the machine is one that the picture unit's specification   *)
(* allows (the safety part of PpuIsFair), so what is proved of the picture *)
(* unit with a guest that acts at any dot holds with the program that is   *)
(* really there.                                                           *)
THEOREM ImplementsPpu == MachineSpec => Spec
<1>1. MachineInit => Init
  BY DEF MachineInit
<1> QED
  BY <1>1, StepsOfThePpu, PTL DEF MachineSpec, Spec

(* In the machine too the vblank flag is 1 only in the vblank.             *)
THEOREM MachineVblank == MachineSpec => []VblankWindow
BY ImplementsPpu, VblankOnlyInWindow, PTL

(* And its scroll registers stand where a program that leaves them alone   *)
(* for a frame scrolled to, its delayed flags are set on their line: with  *)
(* the cycles of instructions and copies between the dots as without.      *)
THEOREM MachineScroll == MachineSpec => [](TypeOK /\ ScrollPosition /\ DueOnThisLine)
BY ImplementsPpu, PpuTypes, ScrollAsWritten, FlagsDueOnTheirLine, PTL

LEMMA PpuInvHolds == MachineSpec => []IInv
BY ImplementsPpu, InvHolds, PTL

-----------------------------------------------------------------------------
(* The cursor counts the dots: a dot takes Position one further, modulo a  *)
(* pair of frames.                                                         *)
LEMMA LinesOfDots ==
  ASSUME NEW n \in Nat
  PROVE  n * Dots \in Nat /\ (n + 1) * Dots = n * Dots + Dots
BY Geometry

LEMMA PairIsLong == Frame \in Nat /\ Pair \in Nat /\ Pair = Frame + Frame - 1 /\ Frame > Dots
<1>1. Dots \in Nat /\ Dots > 1 /\ PreRender \in Nat /\ PreRender > 0
  BY Geometry
<1>2. PreRender * Dots \in Nat /\ (PreRender + 1) * Dots = PreRender * Dots + Dots
  BY <1>1, LinesOfDots
<1>3. PreRender * Dots > 0
  <2>1. (PreRender - 1) * Dots \in Nat /\ ((PreRender - 1) + 1) * Dots = (PreRender - 1) * Dots + Dots
    BY <1>1, LinesOfDots
  <2>2. (PreRender - 1) + 1 = PreRender
    BY <1>1
  <2> HIDE DEF Frame
  <2> QED
    BY <1>1, <2>1, <2>2
<1>4. Frame = PreRender * Dots + Dots
  BY <1>2 DEF Frame
<1>5. Pair = 2 * Frame - 1
  BY DEF Pair
<1> HIDE DEF Frame, Pair
<1> QED
  BY <1>1, <1>2, <1>3, <1>4, <1>5

LEMMA PositionAdvances ==
  ASSUME CursorInFrame, MoveCursor
  PROVE  /\ Position \in 0..(Pair - 1)
         /\ Position' = (Position + 1) % Pair
<1> DEFINE F == Frame
           P == Pair
           before == sl * Dots
<1>1. /\ sl \in 0..PreRender /\ odd \in BOOLEAN /\ dot \in 0..(LineLength - 1)
      /\ LineLength = IF sl = PreRender /\ odd THEN Dots - 1 ELSE Dots
  BY DEF CursorInFrame, LineLength
<1>2. Dots \in Nat /\ Dots > 4 /\ PreRender \in Nat /\ PreRender > 2
  BY Geometry
<1>3. before \in Nat /\ (sl + 1) * Dots = before + Dots
  BY <1>1, <1>2, LinesOfDots
<1>4. F \in Nat /\ P \in Nat /\ P = F + F - 1 /\ F > Dots
  BY PairIsLong
<1>5. sl = PreRender => before + Dots = F
  BY <1>3 DEF Frame
<1>6. sl < PreRender => before + Dots + Dots <= F
  <2> SUFFICES ASSUME sl < PreRender PROVE before + Dots + Dots <= F
    OBVIOUS
  <2>1. PICK m \in Nat : PreRender + 1 = sl + 2 + m
    <3>1. PreRender - 1 - sl \in Nat /\ PreRender + 1 = sl + 2 + (PreRender - 1 - sl)
      BY <1>1, <1>2
    <3> QED
      BY <3>1
  <2>2. F = (sl + 2 + m) * Dots
    BY <2>1 DEF Frame
  <2>3. \A a, b, d \in Nat : (a + 2 + b) * d = a * d + d + d + b * d /\ b * d \in Nat
    OBVIOUS
  <2>4. F = before + Dots + Dots + m * Dots /\ m * Dots \in Nat
    BY <1>1, <1>2, <2>2, <2>3
  <2> HIDE DEF F, before
  <2> QED
    BY <1>2, <1>3, <1>4, <2>4
<1>7. sl < PreRender /\ sl + 1 = PreRender => before + Dots + Dots = F
  <2>1. sl + 1 \in Nat /\ ((sl + 1) + 1) * Dots = (sl + 1) * Dots + Dots
    BY <1>1, <1>2, LinesOfDots
  <2> QED
    BY <1>3, <2>1 DEF Frame
<1>8. Position = CASE sl = PreRender /\ ~odd -> dot
                   [] sl = PreRender /\ odd  -> F + dot
                   [] sl # PreRender /\ odd  -> before + Dots + dot
                   [] sl # PreRender /\ ~odd -> F - 1 + (before + Dots) + dot
  BY <1>3 DEF Position
<1> HIDE DEF F, P, before
<1>9. Position \in 0..(P - 1)
  BY <1>1, <1>2, <1>3, <1>4, <1>5, <1>6, <1>8
<1>10. Position' = IF Position + 1 = P THEN 0 ELSE Position + 1
  <2>1. CASE sl' = sl /\ odd' = odd /\ dot' = dot + 1 /\ dot + 1 < LineLength
    <3>1. Position' = CASE sl = PreRender /\ ~odd -> dot + 1
                        [] sl = PreRender /\ odd  -> F + (dot + 1)
                        [] sl # PreRender /\ odd  -> before + Dots + (dot + 1)
                        [] sl # PreRender /\ ~odd -> F - 1 + (before + Dots) + (dot + 1)
      BY <1>3, <2>1 DEF Position, F, Frame
    <3>2. Position' = Position + 1
      BY <1>1, <1>2, <1>3, <1>4, <1>8, <3>1
    <3>3. Position + 1 # P
      BY <1>1, <1>2, <1>3, <1>4, <1>6, <1>8, <2>1
    <3> QED
      BY <3>2, <3>3
  <2>2. CASE sl < PreRender /\ sl' = sl + 1 /\ odd' = odd /\ dot' = 0 /\ dot + 1 = LineLength
    <3>1. (sl' + 1) * Dots = before + Dots + Dots
      <4>1. sl + 1 \in Nat /\ ((sl + 1) + 1) * Dots = (sl + 1) * Dots + Dots
        BY <1>1, <1>2, LinesOfDots
      <4> QED
        BY <1>3, <2>2, <4>1
    <3>2. Position' = CASE sl + 1 = PreRender /\ ~odd -> 0
                        [] sl + 1 = PreRender /\ odd  -> F + 0
                        [] sl + 1 # PreRender /\ odd  -> before + Dots + Dots + 0
                        [] sl + 1 # PreRender /\ ~odd -> F - 1 + (before + Dots + Dots) + 0
      BY <2>2, <3>1 DEF Position, F, Frame
    <3>3. dot + 1 = Dots
      BY <1>1, <2>2
    <3>4. before + Dots + Dots <= F
      BY <1>6, <2>2
    <3>5. CASE sl + 1 = PreRender
      BY <1>1, <1>2, <1>3, <1>4, <1>7, <1>8, <2>2, <3>2, <3>3, <3>5
    <3>6. CASE sl + 1 # PreRender
      <4>1. before + Dots + Dots + Dots <= F
        <5>1. PICK m \in Nat : PreRender + 1 = sl + 3 + m
          <6>1. PreRender - 2 - sl \in Nat /\ PreRender + 1 = sl + 3 + (PreRender - 2 - sl)
            BY <1>1, <1>2, <2>2, <3>6
          <6> QED
            BY <6>1
        <5>2. F = (sl + 3 + m) * Dots
          BY <5>1 DEF F, Frame
        <5>3. \A a, b, d \in Nat : (a + 3 + b) * d = a * d + d + d + d + b * d /\ b * d \in Nat
          OBVIOUS
        <5>4. F = before + Dots + Dots + Dots + m * Dots /\ m * Dots \in Nat
          BY <1>1, <1>2, <5>2, <5>3 DEF before
        <5> QED
          BY <1>2, <1>3, <1>4, <5>4
      <4> QED
        BY <1>1, <1>2, <1>3, <1>4, <1>8, <2>2, <3>2, <3>3, <3>6, <4>1
    <3> QED
      BY <3>5, <3>6
  <2>3. CASE sl = PreRender /\ sl' = 0 /\ odd' = ~odd /\ dot' = 0 /\ dot + 1 = LineLength
    <3>1. (sl' + 1) * Dots = Dots
      BY <1>2, <2>3
    <3>2. Position' = IF odd THEN F - 1 + Dots + 0 ELSE Dots + 0
      <4>1. sl' # PreRender
        BY <1>2, <2>3
      <4>2. CASE odd
        <5>1. ~odd'
          BY <2>3, <4>2
        <5> QED
          BY <2>3, <3>1, <4>1, <4>2, <5>1 DEF Position, F, Frame
      <4>3. CASE ~odd
        <5>1. odd'
          BY <2>3, <4>3
        <5>2. Position' = (sl' + 1) * Dots + dot'
          BY <4>1, <5>1 DEF Position
        <5> QED
          BY <2>3, <3>1, <4>3, <5>2
      <4> QED
        BY <4>2, <4>3
    <3>3. dot + 1 = IF odd THEN Dots - 1 ELSE Dots
      BY <1>1, <2>3
    <3> QED
      BY <1>1, <1>2, <1>4, <1>8, <2>3, <3>2, <3>3
  <2> QED
    BY <2>1, <2>2, <2>3, Moves
<1>11. \A p \in 0..(P - 1) : (p + 1) % P = IF p + 1 = P THEN 0 ELSE p + 1
  BY <1>4
<1> QED
  BY <1>9, <1>10, <1>11 DEF P

-----------------------------------------------------------------------------
(* The time of the picture.  Only a dot moves it, and the cursor with it.  *)
OnTime == CursorInFrame /\ PictureOnTime

LEMMA OnTimeInit == MachineInit => OnTime
<1> SUFFICES ASSUME MachineInit PROVE OnTime
  OBVIOUS
<1>1. sl = PreRender /\ dot = 0 /\ odd = FALSE /\ now = 0
  BY DEF MachineInit, Init
<1>2. CursorInFrame
  BY InitInv DEF MachineInit, IInv
<1>3. Position = dot
  BY <1>1 DEF Position
<1> QED
  BY <1>1, <1>2, <1>3 DEF OnTime, PictureOnTime

(* The other steps move neither the cursor nor the time.                   *)
Still == UNCHANGED <<sl, dot, odd, now>>

LEMMA OthersAreStill ==
  ASSUME [MachineNext]_machineVars, ~Dot
  PROVE  Still
<1>1. ASSUME Poll \/ Write \/ Away \/ AccessData PROVE UNCHANGED <<sl, dot, odd>>
  BY <1>1 DEF Poll, Write, Away, ReadStatus, WriteCtrl, WriteMask, AccessData, Access, vars
<1>2. CASE WindowCloses
  BY <1>2 DEF WindowCloses, Quit, Still
<1>3. CASE \E c \in InstrCycles : Execute(c) \/ EndDma(c)
  BY <1>1, <1>3 DEF Execute, EndDma, Still
<1>4. CASE \E page \in {"ram", "ppu"} : StartDma(page)
  BY <1>1, <1>4 DEF StartDma, Still
<1>5. CASE Align \/ Put
  BY <1>1, <1>5 DEF Align, Put, Still
<1>6. CASE Get
  <2>1. Poll \/ AccessData \/ Away
    BY <1>6 DEF Get
  <2> QED
    BY <1>1, <1>6, <2>1 DEF Get, Still
<1>7. CASE UNCHANGED machineVars
  BY <1>7 DEF machineVars, vars, Still
<1> QED
  BY <1>2, <1>3, <1>4, <1>5, <1>6, <1>7 DEF MachineNext

LEMMA OnTimeStep == IInv /\ OnTime /\ [MachineNext]_machineVars => OnTime'
<1> SUFFICES ASSUME IInv, OnTime, [MachineNext]_machineVars PROVE OnTime'
  OBVIOUS
<1>1. CASE Dot
  <2>1. Step /\ MoveCursor /\ now' = (now + 1) % Pair
    BY <1>1 DEF Dot, Step
  <2>2. Position' = (Position + 1) % Pair
    BY <2>1, PositionAdvances DEF OnTime
  <2>3. CursorInFrame'
    BY <2>1, StepCursor
  <2> QED
    BY <2>1, <2>2, <2>3 DEF OnTime, PictureOnTime
<1>2. CASE ~Dot
  BY <1>2, OthersAreStill
     DEF Still, OnTime, CursorInFrame, LineLength, PictureOnTime, Position
<1> QED
  BY <1>1, <1>2

(* The picture never drifts against the program: after any instructions,   *)
(* accesses and copies the cursor is where the clock alone has it, the     *)
(* short lines of odd frames included (ppu.c move_cursor).                 *)
THEOREM NeverDrifts == MachineSpec => []PictureOnTime
<1>1. OnTime => PictureOnTime
  BY DEF OnTime
<1> QED
  BY <1>1, OnTimeInit, OnTimeStep, PpuInvHolds, PTL DEF MachineSpec

-----------------------------------------------------------------------------
(* The handshake: inside the vblank the flag stands for a vblank that      *)
(* nobody has read, and it was read as often as it was found.              *)
InVblank == \/ sl = VblankLine /\ dot > 1
            \/ sl > VblankLine /\ sl < PreRender
            \/ sl = PreRender /\ dot <= 1

Handshake ==
  /\ polled \in BOOLEAN /\ seen \in 0..1
  /\ vblank => seen = 0
  /\ InVblank /\ polled => seen = 1
  /\ InVblank /\ ~polled => vblank

LEMMA HandshakeInit == MachineInit => Handshake
<1> SUFFICES ASSUME MachineInit PROVE Handshake
  OBVIOUS
<1> QED
  BY DEF MachineInit, Init, Handshake

LEMMA HandshakePoll ==
  ASSUME Handshake, CursorInFrame, Poll
  PROVE  Handshake'
<1>1. vblank' = FALSE /\ UNCHANGED <<sl, dot>>
  BY DEF Poll, ReadStatus, Access
<1>2. polled' = TRUE /\ seen' = IF vblank /\ seen < 2 THEN seen + 1 ELSE seen
  BY DEF Poll, Polled
<1>3. InVblank' = InVblank
  BY <1>1 DEF InVblank
<1>4. seen' \in 0..1 /\ (InVblank => seen' = 1)
  BY <1>2 DEF Handshake
<1> QED
  BY <1>1, <1>2, <1>3, <1>4 DEF Handshake

LEMMA HandshakeDot ==
  ASSUME Handshake, CursorInFrame, VblankWindow, Dot
  PROVE  Handshake'
<1>1. MoveCursor /\ vblank' = (AtVblank \/ (vblank /\ ~AtClear))
  BY DEF Dot, Step
<1>2. polled' = (polled /\ ~AtVblank) /\ seen' = IF AtVblank THEN 0 ELSE seen
  BY DEF Dot
<1>3. LineLength >= 3 /\ LineLength \in Int
  BY Geometry DEF LineLength
<1>4. InVblank' => AtVblank \/ (InVblank /\ ~AtClear)
  BY <1>1, <1>3, Moves, Geometry DEF InVblank, AtVblank, AtClear, CursorInFrame
<1>5. CASE AtVblank
  <2>1. polled' = FALSE /\ seen' = 0
    BY <1>2, <1>5
  <2>2. vblank'
    BY <1>1, <1>5
  <2>3. polled' \in BOOLEAN /\ ~polled'
    BY <2>1, Zenon
  <2>4. seen' \in 0..1
    BY <2>1
  <2> QED
    BY <2>1, <2>2, <2>3, <2>4, Zenon DEF Handshake
<1>6. CASE ~AtVblank
  <2>1. polled' = polled /\ seen' = seen
    <3>1. seen' = seen /\ polled \in BOOLEAN
      BY <1>2, <1>6 DEF Handshake
    <3>2. polled' = polled
      BY <1>2, <1>6, <3>1, Zenon
    <3> QED
      BY <3>1, <3>2
  <2>2. vblank' <=> vblank /\ ~AtClear
    BY <1>1, <1>6
  <2>3. polled' \in BOOLEAN /\ seen' \in 0..1 /\ (vblank' => seen' = 0)
    BY <2>1, <2>2 DEF Handshake
  <2>4. InVblank' => /\ polled' => seen' = 1
                     /\ ~polled' => vblank'
    BY <1>4, <1>6, <2>1, <2>2 DEF Handshake
  <2> QED
    BY <2>3, <2>4 DEF Handshake
<1> QED
  BY <1>5, <1>6

LEMMA HandshakeStep == IInv /\ Handshake /\ [MachineNext]_machineVars => Handshake'
<1> SUFFICES ASSUME IInv, Handshake, [MachineNext]_machineVars PROVE Handshake'
  OBVIOUS
<1>0. CursorInFrame /\ VblankWindow
  BY DEF IInv
<1>1. ASSUME UNCHANGED <<sl, dot, vblank>>, NotPolled PROVE Handshake'
  BY <1>1 DEF Handshake, InVblank, NotPolled
<1>2. ASSUME Write \/ Away \/ AccessData PROVE UNCHANGED <<sl, dot, vblank>>
  BY <1>2 DEF Write, Away, WriteCtrl, WriteMask, AccessData, Access, vars, status
<1>3. CASE Dot
  BY <1>0, <1>3, HandshakeDot
<1>4. CASE WindowCloses
  BY <1>1, <1>4 DEF WindowCloses, Quit, NotPolled, status
<1>5. CASE \E c \in InstrCycles : Execute(c) \/ EndDma(c)
  BY <1>0, <1>1, <1>2, <1>5, HandshakePoll DEF Execute, EndDma
<1>6. CASE \E page \in {"ram", "ppu"} : StartDma(page)
  BY <1>1, <1>2, <1>6 DEF StartDma
<1>7. CASE Align \/ Put
  BY <1>1, <1>2, <1>7 DEF Align, Put
<1>8. CASE Get
  <2>1. Poll \/ (AccessData /\ NotPolled) \/ (Away /\ NotPolled)
    BY <1>8 DEF Get
  <2> QED
    BY <1>0, <1>1, <1>2, <2>1, HandshakePoll
<1>9. CASE UNCHANGED machineVars
  BY <1>1, <1>9 DEF machineVars, vars, status, NotPolled
<1> QED
  BY <1>3, <1>4, <1>5, <1>6, <1>7, <1>8, <1>9 DEF MachineNext

(* The first read of PPUSTATUS after a vblank began sees it, up to the     *)
(* clearing of the flags, and no other read does -- a read by a copy from  *)
(* the register page included, which the program never gets to see         *)
(* (ppu.c:656, io_reg.c:89).                                               *)
THEOREM SeenOnce == MachineSpec => []VblankSeenOnce
<1>1. IInv /\ Handshake => VblankSeenOnce
  <2> SUFFICES ASSUME IInv, Handshake PROVE VblankSeenOnce
    OBVIOUS
  <2>1. sl \in (VblankLine + 1)..(PreRender - 1) \/ AtClear => InVblank
    BY Geometry DEF InVblank, AtClear, IInv, CursorInFrame
  <2> QED
    BY <2>1 DEF VblankSeenOnce, Handshake
<1> QED
  BY <1>1, HandshakeInit, HandshakeStep, PpuInvHolds, PTL DEF MachineSpec
=============================================================================
