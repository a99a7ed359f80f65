--------------------------- MODULE SpriteHitProofs ---------------------------
(***************************************************************************)
(* A poll of $2002 sees the sprite hit on time, for every screen, picture, *)
(* sprite and time the assumptions allow.                                  *)
(*                                                                         *)
(* The search keeps FoundRight: what has been found is right for the lines *)
(* drawn, in whichever pieces they were drawn and whether the picture is   *)
(* asked for (DrawRight).  A look draws as far as the hits that may be due *)
(* (NeededReaches) and leaves a next check no later than any of them       *)
(* (JudgeRight), so that the polls answered without a look are right, too  *)
(* (ReadRight).                                                            *)
(***************************************************************************)
EXTENDS MCSpriteHit, FiniteSetTheorems, WellFoundedInduction, TLAPS

\* the records a PPU is one of
States ==
    [lines : Int, found : Int, check : Int, next : Int, flag : BOOLEAN, old : BOOLEAN]

\* the types of the variables
Types ==
    /\ now \in 0..FrameLen /\ extra \in 0..(Overclock - 1)
    /\ ppu \in States /\ ppu.lines \in 0..Lines
    /\ spr \in Sprites /\ picture \in Pictures
    /\ on \in BOOLEAN /\ clip \in BOOLEAN /\ shown \in BOOLEAN /\ steady \in BOOLEAN

\* What a search of the lines before n has found: that there is no pixel, none
\* yet, or the first.
FoundRight(f, n) ==
    /\ ~on => f = 0
    /\ on => /\ f < 0 => Overlap = {}
             /\ f = 0 => \A p \in Shared : n <= p[1]
             /\ f > 0 => f \in Overlap /\ \A q \in Overlap : f <= q

\* The flag at cycle t, and the check until which it may stay down.
FlagRight(s, t) ==
    /\ s.flag => on /\ \E p \in Overlap : HitTime(p) <= Clock(t)
    /\ ~s.flag /\ on => \A p \in Overlap : Clock(s.check) <= HitTime(p)

\* Without a line drawn there is nothing found; the times tell whether the flag
\* is still that of the frame before.
ChecksRight(s) ==
    /\ s.lines = 0 => s.found = 0
    /\ s.old => s.check = 0 /\ s.next \in {0, VblEnd}
    /\ ~s.old => s.check > 0 /\ s.next \in {VblEnd, s.check}

\* the inductive invariant
IInv ==
    /\ Types /\ ChecksRight(ppu)
    /\ steady /\ Searchable => FoundRight(ppu.found, ppu.lines) /\ (~ppu.old => FlagRight(ppu, now))
    /\ HitOnTime

-----------------------------------------------------------------------------
(* Induction on the naturals                                               *)

\* A set of numbers that is not empty has a smallest one.
LEMMA Least ==
    ASSUME NEW T, T \subseteq Nat, T # {}
    PROVE  \E x \in T : \A y \in T : x <= y
<1>1. \E R : IsWellFoundedOn(R, Nat) /\ \A x, y \in Nat : <<x, y>> \in R <=> x < y
  <2>1. IsWellFoundedOn(OpToRel(<, Nat), Nat)
    BY NatLessThanWellFounded
  <2>2. \A x, y \in Nat : <<x, y>> \in OpToRel(<, Nat) <=> x < y
    BY DEF OpToRel
  <2> QED  BY <2>1, <2>2, Zenon
<1>2. PICK R : IsWellFoundedOn(R, Nat) /\ \A x, y \in Nat : <<x, y>> \in R <=> x < y
  BY <1>1
<1>3. PICK x \in T : \A y \in T : ~ (<<y, x>> \in R)
  <2>1. IsWellFoundedOn(R, Nat)
    BY <1>2
  <2> QED  BY <2>1, WFMin, Zenon
<1>4. \A y \in T : ~ (y < x)
  BY <1>2, <1>3
<1> QED  BY <1>4

\* Course-of-values induction.
LEMMA Induction ==
    ASSUME NEW S, \A n \in Nat : (\A m \in Nat : m < n => m \in S) => n \in S
    PROVE  Nat \subseteq S
<1> SUFFICES ASSUME Nat \ S # {} PROVE FALSE  OBVIOUS
<1>1. PICK x \in Nat \ S : \A y \in Nat \ S : x <= y
  BY Least
<1>2. \A m \in Nat : m < x => m \in S
  BY <1>1
<1> QED  BY <1>1, <1>2


\* Integers bounded from below, too.
LEMMA LeastInt ==
    ASSUME NEW T, T \subseteq Int, T # {}, NEW b \in Int, \A x \in T : b <= x
    PROVE  Min(T) \in T /\ \A y \in T : Min(T) <= y
<1> DEFINE U == {x - b : x \in T}
<1>1. U \subseteq Nat /\ U # {}
  <2>1. \A x \in T : x - b \in Nat /\ x - b \in U
    OBVIOUS
  <2>2. U \subseteq Nat
    BY <2>1
  <2>3. PICK x : x \in T
    OBVIOUS
  <2> HIDE DEF U
  <2> QED  BY <2>1, <2>2, <2>3
<1> HIDE DEF U
<1>2. PICK u \in U : \A w \in U : u <= w
  BY <1>1, Least
<1>3. PICK x \in T : u = x - b
  BY <1>2 DEF U
<1>4. \A y \in T : y - b \in U
  BY DEF U
<1>5. \A y \in T : x <= y
  BY <1>2, <1>3, <1>4
<1>6. \E z \in T : \A y \in T : z <= y
  BY <1>3, <1>5
<1> QED  BY <1>6, Zenon DEF Min

-----------------------------------------------------------------------------
(* Times and places                                                        *)

\* What the assumptions say of the sizes.
LEMMA Sizes ==
    /\ Lines \in Nat /\ Lines > 0 /\ LineLen \in Nat /\ LineLen > 0
    /\ Width \in Nat /\ Width > 0 /\ Height \in Nat /\ Height > 0
    /\ LastX \in Nat /\ LastX > 0 /\ LastX < LineLen
    /\ VblEnd \in Nat /\ VblEnd > 0 /\ FrameLen \in Nat /\ FrameLen > 0
    /\ Overclock \in Nat /\ Overclock > 0 /\ FirstLine \in Nat /\ HitOffset \in Nat
    /\ EarliestHit \in Nat /\ EarliestHit - LineLen \in Nat
    /\ Overclock * (VblEnd + 1) <= EarliestHit - LineLen
    /\ VblEnd < FrameLen
<1>1. /\ Lines \in Nat /\ Lines > 0 /\ LineLen \in Nat /\ LineLen > 0
      /\ Width \in Nat /\ Width > 0 /\ Height \in Nat /\ Height > 0
      /\ LastX \in Nat /\ LastX > 0 /\ LastX < LineLen
      /\ VblEnd \in Nat /\ VblEnd > 0 /\ FrameLen \in Nat /\ FrameLen > 0
      /\ Overclock \in Nat /\ Overclock > 0 /\ FirstLine \in Nat /\ HitOffset \in Nat
      /\ HitOffset < LineLen /\ LineLen - HitOffset < FirstLine
  BY GeometryAssumption
<1>2. EarliestHit = FirstLine + HitOffset
  BY DEF EarliestHit
<1>3. Overclock * (VblEnd + 1) <= EarliestHit - LineLen
  BY GeometryAssumption
<1>4. VblEnd < FrameLen
  <2>1. FirstLine + (Lines - 1) * LineLen < Overclock * FrameLen
    BY GeometryAssumption
  <2>2. (Lines - 1) * LineLen \in Nat
    BY <1>1
  <2>3. Overclock * (VblEnd + 1) < Overclock * FrameLen
    <3> DEFINE p == (Lines - 1) * LineLen  a == Overclock * (VblEnd + 1)
               c == Overclock * FrameLen
    <3>1. p \in Nat /\ a \in Int /\ c \in Int
      BY <1>1, <2>2
    <3>2. FirstLine + p < c /\ a <= FirstLine + HitOffset - LineLen
      BY <1>1, <1>2, <1>3, <2>1, <3>1
    <3> HIDE DEF p, a, c
    <3>3. a < c
      BY <1>1, <3>1, <3>2
    <3> QED  BY <3>3 DEF a, c
  <2>4. FrameLen <= VblEnd => Overclock * FrameLen <= Overclock * (VblEnd + 1)
    <3>1. SUFFICES ASSUME FrameLen <= VblEnd
                   PROVE  Overclock * FrameLen <= Overclock * (VblEnd + 1)
      OBVIOUS
    <3>2. VblEnd + 1 - FrameLen \in Nat
      BY <1>1, <3>1
    <3>3. Overclock * (VblEnd + 1 - FrameLen) \in Nat
      BY <1>1, <3>2
    <3>4. Overclock * (VblEnd + 1) = Overclock * FrameLen + Overclock * (VblEnd + 1 - FrameLen)
      BY <1>1
    <3> QED  BY <1>1, <3>3, <3>4
  <2>5. Overclock * (VblEnd + 1) \in Int /\ Overclock * FrameLen \in Int
    BY <1>1
  <2> QED  BY <1>1, <2>3, <2>4, <2>5
<1> QED  BY <1>1, <1>2, <1>3, <1>4

\* A number taken apart.
LEMMA Division ==
    ASSUME NEW x \in Int, NEW m \in Nat, m > 0
    PROVE  x \div m \in Int /\ x % m \in 0..(m - 1) /\ x = (x \div m) * m + (x % m)
<1>1. x \div m \in Int /\ x % m \in 0..(m - 1)
  OBVIOUS
<1>2. x = m * (x \div m) + (x % m)
  OBVIOUS
<1>3. m * (x \div m) = (x \div m) * m
  <2> DEFINE u == x \div m
  <2>1. u \in Int  BY <1>1
  <2> HIDE DEF u
  <2>2. m * u = u * m  BY <2>1
  <2> QED  BY <2>2 DEF u
<1> QED  BY <1>1, <1>2, <1>3

\* The clock of the cycle of a clock is not later; and is past the start when
\* the clock is one of a line's.
LEMMA CycleOf ==
    ASSUME Types, NEW p \in Int
    PROVE  /\ Cycle(p) \in Int /\ Clock(Cycle(p)) \in Int /\ Clock(Cycle(p)) <= p
           /\ p >= EarliestHit - LineLen => Cycle(p) > 0
<1> DEFINE q == (p - extra) \div Overclock  r == (p - extra) % Overclock
<1>1. extra \in 0..(Overclock - 1) /\ extra \in Int
  BY Sizes DEF Types
<1>2. q \in Int /\ r \in 0..(Overclock - 1) /\ p - extra = q * Overclock + r
  BY <1>1, Sizes, Division
<1>3. Cycle(p) = q /\ Clock(q) = q * Overclock + extra
  BY DEF Cycle, Clock
<1> HIDE DEF q, r
<1>4. q * Overclock \in Int
  BY <1>2, Sizes
<1>5. p >= EarliestHit - LineLen => q > 0
  <2>1. q <= 0 => q * Overclock <= 0
    BY <1>2, Sizes
  <2>2. Overclock * (VblEnd + 1) >= 2 * Overclock
    <3>1. Overclock * (VblEnd + 1) = 2 * Overclock + Overclock * (VblEnd - 1)
      BY Sizes
    <3>2. Overclock * (VblEnd - 1) \in Nat
      BY Sizes
    <3> QED  BY <3>1, <3>2, Sizes
  <2> DEFINE a == Overclock * (VblEnd + 1)
  <2>3. a \in Int /\ a >= 2 * Overclock /\ a <= EarliestHit - LineLen
    BY <2>2, Sizes
  <2> HIDE DEF a
  <2> QED  BY <1>1, <1>2, <1>4, <2>1, <2>3, Sizes
<1> QED  BY <1>1, <1>2, <1>3, <1>4, <1>5

\* Clocks follow cycles.
LEMMA ClockMonotone ==
    ASSUME Types, NEW s \in Int, NEW t \in Int, s <= t
    PROVE  Clock(s) \in Int /\ Clock(t) \in Int /\ Clock(s) <= Clock(t)
<1>1. extra \in Int
  BY Sizes DEF Types
<1>2. (t - s) * Overclock >= 0 /\ (t - s) * Overclock \in Int
  BY Sizes
<1>3. t * Overclock = s * Overclock + (t - s) * Overclock
  BY Sizes
<1> QED  BY <1>1, <1>2, <1>3, Sizes DEF Clock

\* A pixel of a line is before any pixel of a line below it.
LEMMA LinesInOrder ==
    ASSUME NEW a \in Int, NEW b \in Int, NEW x \in 0..LastX, NEW y \in 0..LastX
    PROVE  /\ Pixel(a, x) \in Int
           /\ a < b => Pixel(a, x) < Pixel(b, y)
           /\ a <= b => a * LineLen <= b * LineLen
<1>1. a * LineLen \in Int /\ b * LineLen \in Int /\ (b - a) * LineLen \in Int
  BY Sizes
<1>2. b * LineLen = a * LineLen + (b - a) * LineLen
  BY Sizes
<1>3. a < b => (b - a) * LineLen >= LineLen
  BY Sizes
<1>4. a <= b => (b - a) * LineLen >= 0
  BY Sizes
<1> QED  BY <1>1, <1>2, <1>3, <1>4, Sizes DEF Pixel

\* The lines begun are some of the lines there are.
LEMMA DueType ==
    ASSUME NEW t
    PROVE  Due(t) \in 0..Lines
<1> DEFINE D == {k \in 0..(Lines - 1) : LineTime(k) <= Clock(t)}
<1>1. IsFiniteSet(0..(Lines - 1)) /\ Cardinality(0..(Lines - 1)) = Lines
  <2>1. \A a, b \in Int : /\ IsFiniteSet(a..b)
                          /\ Cardinality(a..b) = IF a > b THEN 0 ELSE b - a + 1
    BY FS_Interval
  <2> QED  BY <2>1, Sizes
<1>2. D \subseteq 0..(Lines - 1)
  OBVIOUS
<1>3. IsFiniteSet(D) /\ Cardinality(D) <= Lines
  <2> DEFINE U == 0..(Lines - 1)
  <2>1. IsFiniteSet(U) /\ Cardinality(U) = Lines /\ D \subseteq U
    BY <1>1, <1>2
  <2> HIDE DEF U, D
  <2>2. IsFiniteSet(D) /\ Cardinality(D) <= Cardinality(U)
    BY <2>1, FS_Subset
  <2> QED  BY <2>1, <2>2
<1>4. Cardinality(D) \in Nat
  BY <1>3, FS_CardinalityType
<1> QED  BY <1>3, <1>4, Sizes DEF Due

-----------------------------------------------------------------------------
(* The search                                                              *)

\* What both pictures share is on the sprite and on the screen.
LEMMA SharedFacts ==
    ASSUME Types, NEW p \in Shared
    PROVE  /\ p \in picture /\ p = <<p[1], p[2]>>
           /\ p[1] \in 0..(Lines - 1) /\ p[2] \in 0..LastX
           /\ p[2] \in LeftEdge..(LastX - 1)
           /\ spr.y + 1 + FirstOpaque <= p[1] /\ p[1] <= spr.y + Height
           /\ spr.x <= p[2] /\ p[2] - spr.x \in 0..(Width - 1)
           /\ p[1] - spr.y - 1 \in 0..(Height - 1)
           /\ p[2] - spr.x \in spr.tile[p[1] - spr.y - 1]
           /\ FirstOpaque \in Nat
<1>1. spr \in SpriteType /\ picture \subseteq (0..(Lines - 1)) \X Columns
  BY GeometryAssumption DEF Types
<1>2. /\ p \in picture
      /\ p[1] - spr.y - 1 \in 0..(Height - 1)
      /\ p[2] - spr.x \in spr.tile[p[1] - spr.y - 1]
      /\ p[2] \in LeftEdge..(LastX - 1)
  BY DEF Shared
<1>3. p \in (0..(Lines - 1)) \X (0..LastX)
  BY <1>1, <1>2 DEF Columns
<1>4. p = <<p[1], p[2]>> /\ p[1] \in 0..(Lines - 1) /\ p[2] \in 0..LastX
  BY <1>3
<1>5. /\ spr.y \in Nat /\ spr.x \in Nat
      /\ \A k \in 0..(Height - 1) : spr.tile[k] \in SUBSET (0..(Width - 1))
  BY <1>1 DEF SpriteType
<1>6. p[2] - spr.x \in 0..(Width - 1)
  BY <1>2, <1>5
<1> DEFINE k == p[1] - spr.y - 1
           rows == {m \in 0..(Height - 1) : spr.tile[m] # {}}
<1>7. k \in 0..(Height - 1) /\ k \in rows
  BY <1>2
<1>8. Min(rows) \in rows /\ Min(rows) <= k
  <2>1. rows \subseteq Int /\ \A m \in rows : 0 <= m
    OBVIOUS
  <2>2. rows # {} /\ 0 \in Int
    BY <1>7
  <2> HIDE DEF rows
  <2>3. Min(rows) \in rows /\ \A m \in rows : Min(rows) <= m
    BY <2>1, <2>2, LeastInt, Zenon
  <2> QED  BY <1>7, <2>3
<1>9. FirstOpaque = Min(rows)
  BY <1>7 DEF FirstOpaque
<1>10. FirstOpaque \in 0..(Height - 1) /\ FirstOpaque <= k
  BY <1>8, <1>9
<1> QED  BY <1>2, <1>4, <1>5, <1>6, <1>7, <1>10, Sizes

\* A member of Overlap is the pixel of a place both pictures share.
LEMMA OverlapFacts ==
    ASSUME Types
    PROVE  /\ Overlap \subseteq Int
           /\ \A p \in Shared : Pixel(p[1], p[2]) \in Overlap
           /\ \A q \in Overlap : \E p \in Shared : q = Pixel(p[1], p[2])
<1>1. \A p \in Shared : Pixel(p[1], p[2]) \in Int
  BY SharedFacts, LinesInOrder, Sizes
<1> QED  BY <1>1 DEF Overlap

\* check_sprite_hit's rows and what it finds in them, for lines b to e - 1.
Skip(b)   == Larger(b - (spr.y + 1), 0)
Top(b)    == spr.y + 1 + Skip(b)
Tested(b, e) == Smaller(e - Top(b), Height)
TestedRow(b, i) == IF spr.flip THEN Skip(b) + Height - 1 - i ELSE Skip(b) + i
TestedLine(b, i) ==
    spr.y + 1 + (IF spr.flip THEN Height - 1 - TestedRow(b, i) ELSE TestedRow(b, i))
Places(b, e) ==
    {h \in (0..(Tested(b, e) - 1)) \X (0..(Width - 1)) :
        /\ h[2] \in Row(TestedRow(b, h[1]))
        /\ spr.x + h[2] \in LeftEdge..(LastX - 1)
        /\ <<Top(b) + h[1], spr.x + h[2]>> \in picture}
Hits(b, e) == {Pixel(TestedLine(b, h[1]), spr.x + h[2]) : h \in Places(b, e)}

\* check_sprite_hit is that search.
LEMMA SearchIs ==
    ASSUME NEW s, NEW b, NEW e
    PROVE  CheckSpriteHit(s, b, e) =
               IF Tested(b, e) <= 0 THEN s
               ELSE IF Hits(b, e) # {} THEN [s EXCEPT !.found = Min(Hits(b, e))]
               ELSE [s EXCEPT !.found = IF Tested(b, e) = Height THEN -1 ELSE 0]
BY Zenon DEF CheckSpriteHit, Hits, Places, TestedLine, TestedRow, Tested, Top, Skip

\* The numbers in a search.
LEMMA SearchTypes ==
    ASSUME Types, NEW b \in Int, NEW e \in Int
    PROVE  /\ spr.y \in Nat /\ spr.x \in Nat
           /\ Skip(b) \in Nat /\ Top(b) \in Nat /\ Tested(b, e) \in Int
           /\ spr.y + 1 <= Top(b) /\ Top(b) = spr.y + 1 + Skip(b)
           /\ Tested(b, e) <= Height /\ Tested(b, e) <= e - Top(b)
           /\ Tested(b, e) \in {Height, e - Top(b)}
           /\ b <= Top(b) /\ Top(b) \in {b, spr.y + 1}
           /\ Hits(b, e) \subseteq Int
           /\ \A q \in Hits(b, e) : (spr.y + 1 - Skip(b)) * LineLen <= q
           /\ (spr.y + 1 - Skip(b)) * LineLen \in Int
<1>1. spr \in SpriteType
  BY GeometryAssumption DEF Types
<1>2. spr.y \in Nat /\ spr.x \in Nat
  BY <1>1 DEF SpriteType
<1>3. /\ Skip(b) \in Nat /\ Top(b) \in Nat /\ Top(b) = spr.y + 1 + Skip(b)
      /\ b <= Top(b) /\ Top(b) \in {b, spr.y + 1}
  <2> DEFINE d == b - (spr.y + 1)
  <2>1. d \in Int /\ b = d + spr.y + 1
    BY <1>2
  <2> HIDE DEF d
  <2>2. Skip(b) = IF d < 0 THEN 0 ELSE d
    BY DEF Skip, Larger, d
  <2>3. Top(b) = spr.y + 1 + Skip(b)
    BY DEF Top
  <2> QED  BY <1>2, <2>1, <2>2, <2>3
<1>4. /\ Tested(b, e) \in Int /\ Tested(b, e) <= Height /\ Tested(b, e) <= e - Top(b)
      /\ Tested(b, e) \in {Height, e - Top(b)}
  BY <1>3, Sizes DEF Tested, Smaller
<1> DEFINE low == spr.y + 1 - Skip(b)
<1>5. low \in Int /\ low * LineLen \in Int
  BY <1>2, <1>3, Sizes
<1>6. ASSUME NEW h \in Places(b, e)
      PROVE  /\ Pixel(TestedLine(b, h[1]), spr.x + h[2]) \in Int
             /\ low * LineLen <= Pixel(TestedLine(b, h[1]), spr.x + h[2])
  <2>1. h \in (0..(Tested(b, e) - 1)) \X (0..(Width - 1))
    BY DEF Places
  <2>2. h[1] \in 0..(Tested(b, e) - 1) /\ h[2] \in 0..(Width - 1)
    BY <2>1
  <2>3. TestedLine(b, h[1]) \in Int /\ low <= TestedLine(b, h[1])
    BY <1>2, <1>3, <1>4, <2>2, Sizes DEF TestedLine, TestedRow
  <2>4. spr.x + h[2] \in Nat
    BY <1>2, <2>2, <1>4, Sizes
  <2> DEFINE n == TestedLine(b, h[1])  x == spr.x + h[2]
  <2>5. n \in Int /\ low <= n /\ x \in Nat
    BY <2>3, <2>4
  <2> HIDE DEF n, x, low
  <2>6. low * LineLen <= n * LineLen /\ n * LineLen \in Int
    <3>1. 0 \in 0..LastX
      BY Sizes
    <3> QED  BY <1>5, <2>5, <3>1, LinesInOrder, Sizes
  <2>7. Pixel(n, x) \in Int /\ low * LineLen <= Pixel(n, x)
    BY <1>5, <2>5, <2>6 DEF Pixel
  <2> QED  BY <2>7 DEF n, x
<1> QED  BY <1>2, <1>3, <1>4, <1>5, <1>6 DEF Hits

\* A search changes only what is found.
LEMMA SearchKeeps ==
    ASSUME Types, NEW s \in States, NEW b \in Int, NEW e \in Int
    PROVE  /\ CheckSpriteHit(s, b, e) \in States
           /\ CheckSpriteHit(s, b, e).lines = s.lines
           /\ CheckSpriteHit(s, b, e).check = s.check
           /\ CheckSpriteHit(s, b, e).next = s.next
           /\ CheckSpriteHit(s, b, e).flag = s.flag
           /\ CheckSpriteHit(s, b, e).old = s.old
<1>1. Hits(b, e) # {} => Min(Hits(b, e)) \in Int
  <2> DEFINE T == Hits(b, e)  low == (spr.y + 1 - Skip(b)) * LineLen
  <2>1. T \subseteq Int /\ low \in Int /\ \A q \in T : low <= q
    BY SearchTypes
  <2> HIDE DEF T, low
  <2>2. T # {} => Min(T) \in T
    BY <2>1, LeastInt, Zenon
  <2> QED  BY <2>1, <2>2 DEF T
<1>2. \/ CheckSpriteHit(s, b, e) = s
      \/ \E f \in Int : CheckSpriteHit(s, b, e) = [s EXCEPT !.found = f]
  BY <1>1, SearchIs
<1> QED  BY <1>2 DEF States

\* A sprite that is not flipped, with nothing behind its tile, is compared with
\* the lines it is on: what a search meets is what both share of those lines.
LEMMA HitsAreShared ==
    ASSUME Types, Searchable, NEW b \in Int, NEW e \in Int
    PROVE  /\ \A p \in Shared : p[1] \in Top(b)..(Top(b) + Tested(b, e) - 1) =>
                  Pixel(p[1], p[2]) \in Hits(b, e)
           /\ \A q \in Hits(b, e) : \E p \in Shared :
                  /\ q = Pixel(p[1], p[2])
                  /\ p[1] \in Top(b)..(Top(b) + Tested(b, e) - 1)
<1>1. /\ spr.y \in Nat /\ spr.x \in Nat /\ Skip(b) \in Nat /\ Top(b) \in Nat
      /\ Tested(b, e) \in Int /\ Top(b) = spr.y + 1 + Skip(b)
  BY SearchTypes
<1>2. ~spr.flip /\ spr.below = {}
  BY DEF Searchable
<1>3. \A i \in Int : /\ TestedRow(b, i) = Skip(b) + i
                     /\ TestedLine(b, i) = Top(b) + i
  BY <1>1, <1>2 DEF TestedRow, TestedLine
<1>4. ASSUME NEW p \in Shared, p[1] \in Top(b)..(Top(b) + Tested(b, e) - 1)
      PROVE  Pixel(p[1], p[2]) \in Hits(b, e)
  <2> DEFINE i == p[1] - Top(b)  c == p[2] - spr.x  h == <<i, c>>
  <2>1. /\ p \in picture /\ p = <<p[1], p[2]>>
        /\ p[1] \in 0..(Lines - 1) /\ p[2] \in 0..LastX
        /\ p[2] \in LeftEdge..(LastX - 1)
        /\ p[2] - spr.x \in 0..(Width - 1)
        /\ p[1] - spr.y - 1 \in 0..(Height - 1)
        /\ p[2] - spr.x \in spr.tile[p[1] - spr.y - 1]
    BY SharedFacts
  <2>2. i \in 0..(Tested(b, e) - 1) /\ c \in 0..(Width - 1) /\ i \in Int
    BY <1>1, <1>4, <2>1, Sizes
  <2>3. h \in (0..(Tested(b, e) - 1)) \X (0..(Width - 1)) /\ h[1] = i /\ h[2] = c
    BY <2>2
  <2>4. TestedRow(b, i) = p[1] - spr.y - 1 /\ TestedLine(b, i) = p[1]
    BY <1>1, <1>3, <2>1, <2>2
  <2>5. c \in Row(TestedRow(b, i))
    <3> DEFINE k == p[1] - spr.y - 1
    <3>1. k < Height /\ c \in spr.tile[k] /\ TestedRow(b, i) = k
      BY <2>1, <2>4, Sizes
    <3> HIDE DEF k, c
    <3> QED  BY <3>1 DEF Row
  <2>6. spr.x + c = p[2] /\ Top(b) + i = p[1]
    BY <1>1, <2>1
  <2> HIDE DEF i, c, h
  <2>7. h \in Places(b, e)
    BY <2>1, <2>3, <2>5, <2>6 DEF Places
  <2> QED  BY <2>3, <2>4, <2>6, <2>7 DEF Hits
<1>5. ASSUME NEW q \in Hits(b, e)
      PROVE  \E p \in Shared : /\ q = Pixel(p[1], p[2])
                               /\ p[1] \in Top(b)..(Top(b) + Tested(b, e) - 1)
  <2>1. PICK h \in Places(b, e) : q = Pixel(TestedLine(b, h[1]), spr.x + h[2])
    BY DEF Hits
  <2>2. /\ h \in (0..(Tested(b, e) - 1)) \X (0..(Width - 1))
        /\ h[2] \in Row(TestedRow(b, h[1]))
        /\ spr.x + h[2] \in LeftEdge..(LastX - 1)
        /\ <<Top(b) + h[1], spr.x + h[2]>> \in picture
    BY DEF Places
  <2>3. h[1] \in 0..(Tested(b, e) - 1) /\ h[1] \in Int /\ h[2] \in 0..(Width - 1)
    BY <1>1, <2>2
  <2> DEFINE p == <<Top(b) + h[1], spr.x + h[2]>>
  <2>4. TestedRow(b, h[1]) = Skip(b) + h[1] /\ TestedLine(b, h[1]) = Top(b) + h[1]
    BY <1>3, <2>3
  <2>5. Skip(b) + h[1] < Height /\ h[2] \in spr.tile[Skip(b) + h[1]]
    <3>1. h[2] \in (IF Skip(b) + h[1] < Height THEN spr.tile[Skip(b) + h[1]] ELSE {})
      BY <1>2, <2>2, <2>4 DEF Row
    <3> QED  BY <3>1
  <2>6. p \in picture /\ p[1] = Top(b) + h[1] /\ p[2] = spr.x + h[2]
    BY <2>2
  <2>7. p[1] - spr.y - 1 = Skip(b) + h[1] /\ p[2] - spr.x = h[2]
    BY <1>1, <2>3, <2>6, Sizes
  <2>8. Skip(b) + h[1] \in 0..(Height - 1)
    BY <1>1, <2>3, <2>5, Sizes
  <2>9. p \in Shared
    BY <2>2, <2>5, <2>6, <2>7, <2>8 DEF Shared
  <2>10. p[1] \in Top(b)..(Top(b) + Tested(b, e) - 1)
    BY <1>1, <2>3, <2>6
  <2> QED  BY <2>1, <2>4, <2>6, <2>9, <2>10
<1> QED  BY <1>4, <1>5

\* What a search finds is right for the lines up to e when there was nothing
\* above the line it begins with.
LEMMA SearchFinds ==
    ASSUME Types, Searchable, on, NEW s \in States, NEW b \in Int, NEW e \in Int,
           s.found = 0, \A p \in Shared : b <= p[1],
           NEW f, f = CheckSpriteHit(s, b, e).found
    PROVE  FoundRight(f, e)
<1> SUFFICES /\ f < 0 => Overlap = {}
             /\ f = 0 => \A p \in Shared : e <= p[1]
             /\ f > 0 => f \in Overlap /\ \A q \in Overlap : f <= q
  BY DEF FoundRight
<1> DEFINE n == Tested(b, e)  T == Hits(b, e)
<1>1. /\ spr.y \in Nat /\ Top(b) \in Nat /\ n \in Int /\ n <= Height
      /\ n \in {Height, e - Top(b)} /\ n <= e - Top(b)
      /\ spr.y + 1 <= Top(b) /\ Top(b) \in {b, spr.y + 1}
      /\ T \subseteq Int
  BY SearchTypes
<1>2. \A p \in Shared : /\ p[1] \in Int /\ Top(b) <= p[1]
                        /\ p[1] <= spr.y + Height /\ p[2] \in 0..LastX
  <2>1. \A p \in Shared : /\ p[1] \in Int /\ spr.y + 1 <= p[1]
                          /\ p[1] <= spr.y + Height /\ p[2] \in 0..LastX
    BY <1>1, SharedFacts, Sizes
  <2> QED  BY <1>1, <2>1
<1>3. /\ \A p \in Shared : p[1] \in Top(b)..(Top(b) + n - 1) => Pixel(p[1], p[2]) \in T
      /\ \A q \in T : \E p \in Shared : /\ q = Pixel(p[1], p[2])
                                        /\ p[1] \in Top(b)..(Top(b) + n - 1)
  BY HitsAreShared
<1>4. CASE n <= 0
  <2>1. f = 0
    BY <1>4, SearchIs
  <2>2. \A p \in Shared : e <= p[1]
    <3>1. e <= Top(b)
      BY <1>1, <1>4, Sizes
    <3> QED  BY <1>1, <1>2, <3>1
  <2> QED  BY <2>1, <2>2
<1>5. CASE n > 0 /\ T # {}
  <2>1. f = Min(T)
    BY <1>1, <1>5, SearchIs DEF States
  <2>2. f \in T /\ \A q \in T : f <= q
    <3>1. /\ (spr.y + 1 - Skip(b)) * LineLen \in Int
          /\ \A q \in T : (spr.y + 1 - Skip(b)) * LineLen <= q
      BY SearchTypes
    <3> HIDE DEF T
    <3>2. Min(T) \in T /\ \A q \in T : Min(T) <= q
      BY <1>1, <1>5, <3>1, LeastInt, Zenon
    <3> QED  BY <2>1, <3>2
  <2> HIDE DEF n, T
  <2>3. PICK p \in Shared : f = Pixel(p[1], p[2]) /\ p[1] \in Top(b)..(Top(b) + n - 1)
    BY <1>3, <2>2
  <2>4. f \in Overlap
    BY <2>3, OverlapFacts
  <2>5. f > 0
    <3>1. p[1] * LineLen >= LineLen /\ p[1] * LineLen \in Int
      <4>1. p[1] \in Int /\ p[1] >= 1
        BY <1>1, <1>2
      <4>2. (p[1] - 1) * LineLen \in Nat
        BY <4>1, Sizes
      <4>3. p[1] * LineLen = LineLen + (p[1] - 1) * LineLen
        BY <4>1, Sizes
      <4> QED  BY <4>2, <4>3, Sizes
    <3> QED  BY <1>2, <2>3, <3>1, Sizes DEF Pixel
  <2>6. ASSUME NEW q \in Overlap PROVE f <= q
    <3>1. PICK r \in Shared : q = Pixel(r[1], r[2])
      BY OverlapFacts
    <3>2. CASE r[1] \in Top(b)..(Top(b) + n - 1)
      BY <1>3, <2>2, <3>1, <3>2
    <3>3. CASE ~(r[1] \in Top(b)..(Top(b) + n - 1))
      <4>1. p[1] < r[1] /\ p[1] \in Int /\ r[1] \in Int
        BY <1>1, <1>2, <2>3, <3>3
      <4>2. p[2] \in 0..LastX /\ r[2] \in 0..LastX
        BY <1>2
      <4>3. Pixel(p[1], p[2]) < Pixel(r[1], r[2])
        BY <4>1, <4>2, LinesInOrder
      <4>4. f \in Int /\ q \in Int
        BY <2>4, OverlapFacts
      <4> QED  BY <2>3, <3>1, <4>3, <4>4
    <3> QED  BY <3>2, <3>3
  <2>7. f \in Int
    BY <2>4, OverlapFacts
  <2> QED  BY <2>4, <2>5, <2>6, <2>7
<1>6. CASE n > 0 /\ T = {}
  <2>1. f = IF n = Height THEN -1 ELSE 0
    <3>1. CheckSpriteHit(s, b, e) = [s EXCEPT !.found = IF n = Height THEN -1 ELSE 0]
      <4>1. ~(n <= 0) /\ ~(T # {})
        BY <1>1, <1>6
      <4> QED  BY <4>1, SearchIs, Zenon
    <3> DEFINE v == IF n = Height THEN -1 ELSE 0
    <3>2. CheckSpriteHit(s, b, e) = [s EXCEPT !.found = v]
      BY <3>1
    <3> HIDE DEF v
    <3>3. f = v
      BY <3>2 DEF States
    <3> QED  BY <3>3 DEF v
  <2>2. \A p \in Shared : ~(p[1] \in Top(b)..(Top(b) + n - 1))
    BY <1>3, <1>6
  <2>3. CASE n = Height
    <3>1. Shared = {}
      BY <1>1, <1>2, <2>2, <2>3, Sizes
    <3>2. Overlap = {}
      BY <3>1 DEF Overlap
    <3> QED  BY <2>1, <2>3, <3>2
  <2>4. CASE n # Height
    <3>1. Top(b) + n = e
      BY <1>1, <2>4
    <3>2. \A p \in Shared : e <= p[1]
      BY <1>1, <1>2, <2>2, <3>1
    <3> QED  BY <2>1, <2>4, <3>2
  <2> QED  BY <2>3, <2>4
<1> QED  BY <1>1, <1>4, <1>5, <1>6

\* Drawing changes the lines and what is found.
LEMMA DrawKeeps ==
    ASSUME Types, NEW s \in States, NEW e \in Int
    PROVE  /\ DrawTo(s, e) \in States
           /\ DrawTo(s, e).lines = e
           /\ DrawTo(s, e).check = s.check
           /\ DrawTo(s, e).next = s.next
           /\ DrawTo(s, e).flag = s.flag
           /\ DrawTo(s, e).old = s.old
           /\ DrawTo(s, e).found = IF shown THEN TestLines(s, s.lines, e).found
                                            ELSE TestHidden(s, s.lines, e).found
<1> DEFINE Same(r) == /\ r \in States /\ r.check = s.check /\ r.next = s.next
                      /\ r.flag = s.flag /\ r.old = s.old
<1>1. \A b, n \in Int : Same(TestLines(s, b, n))
  <2>1. \A b, n \in Int : Same(CheckSpriteHit(s, b, n))
    BY SearchKeeps
  <2>2. Same(s)
    OBVIOUS
  <2> HIDE DEF Same
  <2> QED  BY <2>1, <2>2 DEF TestLines
<1>2. \A b, n \in Int : Same(TestHidden(s, b, n))
  <2>1. \A b, n \in Int : Larger(b, n) \in Int /\ Smaller(b, n) \in Int
    BY DEF Larger, Smaller
  <2>2. spr.y + 1 \in Int
    BY SearchTypes
  <2>3. Same(s)
    OBVIOUS
  <2> HIDE DEF Same
  <2>4. SUFFICES ASSUME NEW b \in Int, NEW n \in Int PROVE Same(TestHidden(s, b, n))
    OBVIOUS
  <2> DEFINE from == Larger(b, Smaller(n, spr.y + 1))
             upto == from + Smaller(n - from, Height)
  <2>5. from \in Int
    BY <2>1, <2>2
  <2>6. upto \in Int
    <3> HIDE DEF from
    <3>1. n - from \in Int /\ Height \in Int
      BY <2>5, Sizes
    <3> QED  BY <2>1, <2>5, <3>1
  <2>7. TestHidden(s, b, n) = IF Possible(s, n) /\ upto > from
                              THEN TestLines(s, from, upto) ELSE s
    BY DEF TestHidden
  <2> HIDE DEF from, upto
  <2> QED  BY <1>1, <2>3, <2>5, <2>6, <2>7
<1> DEFINE r == IF shown THEN TestLines(s, s.lines, e) ELSE TestHidden(s, s.lines, e)
<1>3. Same(r)
  <2>1. s.lines \in Int
    BY DEF States
  <2> HIDE DEF Same
  <2> QED  BY <1>1, <1>2, <2>1
<1>4. DrawTo(s, e) = [r EXCEPT !.lines = e]
  BY DEF DrawTo
<1>5. r.found = IF shown THEN TestLines(s, s.lines, e).found
                         ELSE TestHidden(s, s.lines, e).found
  BY Zenon
<1> HIDE DEF r
<1> QED  BY <1>3, <1>4, <1>5 DEF States

\* A test of the lines from b to e, where none above b met.
LEMMA TestRight ==
    ASSUME Types, Searchable, NEW s \in States, NEW b \in Int, NEW e \in Int,
           FoundRight(s.found, b)
    PROVE  FoundRight(TestLines(s, b, e).found, e)
<1>1. s.found \in Int /\ spr.y \in Nat /\ on \in BOOLEAN
  BY SearchTypes DEF States, Types
<1>2. CASE Possible(s, e)
  <2>1. s.found = 0 /\ on
    BY <1>2 DEF Possible
  <2>2. \A p \in Shared : b <= p[1]
    BY <2>1 DEF FoundRight
  <2>3. TestLines(s, b, e) = CheckSpriteHit(s, b, e)
    BY <1>2 DEF TestLines
  <2> QED  BY <2>1, <2>2, <2>3, SearchFinds
<1>3. CASE ~Possible(s, e)
  <2>1. TestLines(s, b, e) = s
    BY <1>3 DEF TestLines
  <2>2. s.found = 0 /\ on => \A p \in Shared : e <= p[1]
    <3>1. s.found = 0 /\ on => e < spr.y
      BY <1>1, <1>3 DEF Possible
    <3>2. \A p \in Shared : spr.y + 1 <= p[1] /\ p[1] \in Int
      BY <1>1, SharedFacts, Sizes
    <3> QED  BY <1>1, <3>1, <3>2
  <2> QED  BY <2>1, <2>2 DEF FoundRight
<1> QED  BY <1>2, <1>3

\* The test without a picture is of the sprite's lines among them.
LEMMA HiddenRight ==
    ASSUME Types, Searchable, NEW s \in States, NEW b \in Int, NEW e \in Int, b <= e,
           FoundRight(s.found, b)
    PROVE  FoundRight(TestHidden(s, b, e).found, e)
<1> DEFINE from == Larger(b, Smaller(e, spr.y + 1))
           upto == from + Smaller(e - from, Height)
<1>1. s.found \in Int /\ spr.y \in Nat /\ on \in BOOLEAN
  BY SearchTypes DEF States, Types
<1>2. \A p \in Shared : /\ p[1] \in Int /\ spr.y + 1 <= p[1]
                        /\ p[1] <= spr.y + Height
  BY <1>1, SharedFacts, Sizes
<1>3. /\ from \in Int /\ from \in {b, e, spr.y + 1} /\ b <= from /\ from <= e
      /\ from = b \/ from <= spr.y + 1
      /\ from = e \/ from >= spr.y + 1
  BY <1>1 DEF Larger, Smaller
<1>4. TestHidden(s, b, e) = IF Possible(s, e) /\ upto > from
                            THEN TestLines(s, from, upto) ELSE s
  BY DEF TestHidden
<1>5. /\ upto \in Int
      /\ \/ upto = e
         \/ upto = from + Height /\ from >= spr.y + 1
  <2>1. upto = IF e - from < Height THEN from + (e - from) ELSE from + Height
    BY DEF Smaller
  <2> HIDE DEF from, upto
  <2> QED  BY <1>1, <1>3, <2>1, Sizes
<1> HIDE DEF from, upto
<1>6. FoundRight(s.found, from)
  <2>1. s.found = 0 /\ on => \A p \in Shared : from <= p[1]
    <3>1. s.found = 0 /\ on => \A p \in Shared : b <= p[1]
      BY DEF FoundRight
    <3> QED  BY <1>1, <1>2, <1>3, <3>1
  <2> QED  BY <2>1 DEF FoundRight
<1>7. CASE Possible(s, e) /\ upto > from
  <2> DEFINE f == TestLines(s, from, upto).found
  <2>1. FoundRight(f, upto)
    BY <1>3, <1>5, <1>6, TestRight
  <2>2. TestHidden(s, b, e).found = f
    BY <1>4, <1>7
  <2> HIDE DEF f
  <2>3. FoundRight(f, e)
    <3>1. f = 0 /\ on => \A p \in Shared : e <= p[1]
      <4>1. f = 0 /\ on => \A p \in Shared : upto <= p[1]
        BY <2>1 DEF FoundRight
      <4> QED  BY <1>1, <1>2, <1>3, <1>5, <4>1, Sizes
    <3> QED  BY <2>1, <3>1 DEF FoundRight
  <2> QED  BY <2>2, <2>3
<1>8. CASE ~(Possible(s, e) /\ upto > from)
  <2>1. TestHidden(s, b, e) = s
    BY <1>4, <1>8
  <2>2. s.found = 0 /\ on => \A p \in Shared : e <= p[1]
    <3>1. CASE Possible(s, e)
      <4>1. from = e
        BY <1>3, <1>5, <1>8, <3>1, Sizes
      <4> QED  BY <1>6, <4>1 DEF FoundRight
    <3>2. CASE ~Possible(s, e)
      <4>1. s.found = 0 /\ on => e < spr.y
        BY <1>1, <3>2 DEF Possible
      <4> QED  BY <1>1, <1>2, <4>1
    <3> QED  BY <3>1, <3>2
  <2>3. FoundRight(s.found, e)
    BY <1>6, <2>2 DEF FoundRight
  <2> QED  BY <2>1, <2>3
<1> QED  BY <1>7, <1>8

\* Drawing the lines up to e finds what is to be found in them.
LEMMA DrawRight ==
    ASSUME Types, Searchable, NEW s \in States, NEW e \in Int, s.lines <= e,
           FoundRight(s.found, s.lines)
    PROVE  FoundRight(DrawTo(s, e).found, e)
<1>1. s.lines \in Int
  BY DEF States
<1>2. FoundRight(TestLines(s, s.lines, e).found, e)
  BY <1>1, TestRight
<1>3. FoundRight(TestHidden(s, s.lines, e).found, e)
  BY <1>1, HiddenRight
<1>4. DrawTo(s, e).found = IF shown THEN TestLines(s, s.lines, e).found
                                    ELSE TestHidden(s, s.lines, e).found
  BY DrawKeeps
<1> QED  BY <1>2, <1>3, <1>4, Zenon

-----------------------------------------------------------------------------
(* Rendering                                                               *)

\* There is a function on the naturals with this first value and this step,
Recursive(S, seed, G) ==
    \E F \in [Nat -> S] :
        /\ F[0] = seed
        /\ \A k \in Nat : k > 0 => F[k] = G[<<k, F[k - 1]>>]

\* whatever they are.
LEMMA Recursion ==
    ASSUME NEW S, NEW seed \in S, NEW G \in [Nat \X S -> S]
    PROVE  Recursive(S, seed, G)
<1> DEFINE Agrees(f, n) ==
        /\ f \in [0..n -> S]
        /\ \A k \in 0..n : f[k] = IF k = 0 THEN seed ELSE G[<<k, f[k - 1]>>]
<1>1. ASSUME NEW f, NEW g, NEW m \in Nat, NEW n \in Nat, Agrees(f, m), Agrees(g, n)
      PROVE  \A k \in Nat : k <= m /\ k <= n => f[k] = g[k]
  <2> DEFINE T == {k \in Nat : k <= m /\ k <= n => f[k] = g[k]}
  <2>1. \A k \in Nat : (\A j \in Nat : j < k => j \in T) => k \in T
    <3> SUFFICES ASSUME NEW k \in Nat, \A j \in Nat : j < k => j \in T, k <= m, k <= n
                 PROVE  f[k] = g[k]
      OBVIOUS
    <3>1. k \in 0..m /\ k \in 0..n
      OBVIOUS
    <3>2. /\ f[k] = IF k = 0 THEN seed ELSE G[<<k, f[k - 1]>>]
          /\ g[k] = IF k = 0 THEN seed ELSE G[<<k, g[k - 1]>>]
      BY <1>1, <3>1
    <3>3. k # 0 => f[k - 1] = g[k - 1]
      <4>1. k # 0 => k - 1 \in Nat /\ k - 1 < k /\ k - 1 \in T
        OBVIOUS
      <4> QED  BY <4>1
    <3> QED  BY <3>2, <3>3, Zenon
  <2> HIDE DEF T
  <2>2. Nat \subseteq T
    BY <2>1, Induction
  <2> QED  BY <2>2 DEF T
<1>2. \A n \in Nat : \E f : Agrees(f, n)
  <2> DEFINE T == {n \in Nat : \E f : Agrees(f, n)}
  <2>1. \A n \in Nat : (\A m \in Nat : m < n => m \in T) => n \in T
    <3> SUFFICES ASSUME NEW n \in Nat, \A m \in Nat : m < n => m \in T
                 PROVE  \E f : Agrees(f, n)
      OBVIOUS
    <3>1. CASE n = 0
      <4> DEFINE f == [k \in 0..n |-> seed]
      <4>1. \A k \in 0..n : k = 0
        BY <3>1
      <4>2. f \in [0..n -> S] /\ \A k \in 0..n : f[k] = seed
        OBVIOUS
      <4> HIDE DEF f
      <4>3. Agrees(f, n)
        BY <4>1, <4>2
      <4> QED  BY <4>3
    <3>2. CASE n > 0
      <4>1. PICK f : Agrees(f, n - 1)
        <5>1. n - 1 \in Nat /\ n - 1 < n
          BY <3>2
        <5> QED  BY <5>1
      <4> DEFINE last == G[<<n, f[n - 1]>>]
                 g == [k \in 0..n |-> IF k < n THEN f[k] ELSE last]
      <4>2. \A k \in 0..n : k < n => k \in 0..(n - 1)
        OBVIOUS
      <4>3. last \in S
        <5>1. n - 1 \in 0..(n - 1)
          BY <3>2
        <5>2. f[n - 1] \in S
          BY <4>1, <5>1
        <5> QED  BY <5>2
      <4> HIDE DEF last
      <4>4. g \in [0..n -> S]
        <5>1. ASSUME NEW k \in 0..n PROVE (IF k < n THEN f[k] ELSE last) \in S
          BY <4>1, <4>2, <4>3
        <5> QED  BY <5>1
      <4>5. \A k \in 0..n : g[k] = IF k < n THEN f[k] ELSE last
        OBVIOUS
      <4> HIDE DEF g
      <4>6. ASSUME NEW k \in 0..n PROVE g[k] = IF k = 0 THEN seed ELSE G[<<k, g[k - 1]>>]
        <5>1. k # 0 => k - 1 \in 0..n /\ k - 1 < n
          OBVIOUS
        <5>2. k # 0 => g[k - 1] = f[k - 1]
          BY <4>5, <5>1
        <5>3. CASE k < n
          <6>1. k \in 0..(n - 1) /\ g[k] = f[k]
            BY <4>2, <4>5, <5>3
          <6>2. f[k] = IF k = 0 THEN seed ELSE G[<<k, f[k - 1]>>]
            BY <4>1, <6>1
          <6> QED  BY <5>2, <6>1, <6>2, Zenon
        <5>4. CASE k = n
          <6>1. k # 0 /\ g[k] = last
            BY <3>2, <4>5, <5>4
          <6> QED  BY <5>2, <5>4, <6>1 DEF last
        <5> QED  BY <5>3, <5>4
      <4>7. Agrees(g, n)
        BY <4>4, <4>6
      <4> QED  BY <4>7
    <3> HIDE DEF Agrees
    <3> QED  BY <3>1, <3>2
  <2> HIDE DEF T
  <2>2. Nat \subseteq T
    BY <2>1, Induction
  <2> QED  BY <2>2 DEF T
<1> DEFINE pick(n) == CHOOSE f : Agrees(f, n)
           F == [k \in Nat |-> pick(k)[k]]
<1>3. \A n \in Nat : Agrees(pick(n), n)
  BY <1>2, Zenon
<1>4. ASSUME NEW k \in Nat
      PROVE  F[k] \in S /\ F[k] = IF k = 0 THEN seed ELSE G[<<k, F[k - 1]>>]
  <2>1. Agrees(pick(k), k)
    BY <1>3
  <2>2. k \in 0..k /\ F[k] = pick(k)[k]
    OBVIOUS
  <2>3. k # 0 => F[k - 1] = pick(k)[k - 1]
    <3> SUFFICES ASSUME k # 0 PROVE F[k - 1] = pick(k)[k - 1]
      OBVIOUS
    <3>1. k - 1 \in Nat /\ k - 1 <= k
      OBVIOUS
    <3>2. Agrees(pick(k - 1), k - 1)
      BY <1>3, <3>1
    <3>3. F[k - 1] = pick(k - 1)[k - 1]
      BY <3>1
    <3> DEFINE f == pick(k - 1)  g == pick(k)  m == k - 1
    <3> HIDE DEF Agrees
    <3>4. Agrees(f, m) /\ Agrees(g, k)
      BY <2>1, <3>2
    <3> HIDE DEF f, g
    <3>7. m \in Nat /\ m <= m /\ m <= k
      BY <3>1
    <3> HIDE DEF m
    <3>5. \A j \in Nat : j <= m /\ j <= k => f[j] = g[j]
      BY <1>1, <3>4, <3>7
    <3>6. f[m] = g[m]
      BY <3>5, <3>7
    <3> QED  BY <3>3, <3>6 DEF f, g, m
  <2> DEFINE p == pick(k)
  <2>4. p \in [0..k -> S] /\ p[k] = IF k = 0 THEN seed ELSE G[<<k, p[k - 1]>>]
    BY <2>1, <2>2
  <2>5. F[k] = p[k] /\ (k # 0 => F[k - 1] = p[k - 1])
    BY <2>2, <2>3
  <2> HIDE DEF p, F
  <2> QED  BY <2>2, <2>4, <2>5
<1>5. F = [k \in Nat |-> F[k]]
  OBVIOUS
<1> HIDE DEF F
<1>6. F \in [Nat -> S]
  BY <1>4, <1>5
<1>7. F[0] = seed
  BY <1>4
<1>8. \A k \in Nat : k > 0 => F[k] = G[<<k, F[k - 1]>>]
  BY <1>4
<1> QED  BY <1>6, <1>7, <1>8 DEF Recursive

\* Drawing line after line.
LEMMA OneByOneIs ==
    ASSUME Types, NEW s \in States
    PROVE  /\ OneByOne(s)[0] = s
           /\ \A k \in Nat : OneByOne(s)[k] \in States
           /\ \A k \in Nat : k > 0 => OneByOne(s)[k] = DrawTo(OneByOne(s)[k - 1], s.lines + k)
<1> DEFINE G == [a \in Nat \X States |-> DrawTo(a[2], s.lines + a[1])]
<1>1. s.lines \in Int
  BY DEF States
<1>2. G \in [Nat \X States -> States]
  <2>1. ASSUME NEW a \in Nat \X States PROVE DrawTo(a[2], s.lines + a[1]) \in States
    <3>1. a[2] \in States /\ s.lines + a[1] \in Int
      BY <1>1
    <3> QED  BY <3>1, DrawKeeps
  <2> QED  BY <2>1
<1>3. \A k \in Nat, r \in States : G[<<k, r>>] = DrawTo(r, s.lines + k)
  OBVIOUS
<1> HIDE DEF G
<1>4. PICK F \in [Nat -> States] :
          F[0] = s /\ \A k \in Nat : k > 0 => F[k] = G[<<k, F[k - 1]>>]
  <2>1. Recursive(States, s, G)
    BY <1>2, Recursion
  <2> QED  BY <2>1 DEF Recursive
<1>5. \A k \in Nat : F[k] = IF k = 0 THEN s ELSE DrawTo(F[k - 1], s.lines + k)
  <2> SUFFICES ASSUME NEW k \in Nat, k > 0
               PROVE  F[k] = DrawTo(F[k - 1], s.lines + k)
    BY <1>4
  <2>1. F[k - 1] \in States
    OBVIOUS
  <2> QED  BY <1>3, <1>4, <2>1
<1>6. F = [k \in Nat |-> IF k = 0 THEN s ELSE DrawTo(F[k - 1], s.lines + k)]
  BY <1>5
<1>7. OneByOne(s) =
          [k \in Nat |-> IF k = 0 THEN s ELSE DrawTo(OneByOne(s)[k - 1], s.lines + k)]
  <2> DEFINE P(f) == f = [k \in Nat |-> IF k = 0 THEN s ELSE DrawTo(f[k - 1], s.lines + k)]
             C == CHOOSE f : P(f)
  <2>1. OneByOne(s) = C
    BY DEF OneByOne
  <2>2. P(F)
    BY <1>6
  <2> HIDE DEF P
  <2>3. P(C)
    BY <2>2
  <2> HIDE DEF C
  <2>4. P(OneByOne(s))
    BY <2>1, <2>3
  <2> QED  BY <2>4 DEF P
<1> DEFINE D == OneByOne(s)
<1>8. D = [k \in Nat |-> IF k = 0 THEN s ELSE DrawTo(D[k - 1], s.lines + k)]
  BY <1>7
<1> HIDE DEF D
<1>9. D[0] = s /\ \A k \in Nat : k > 0 => D[k] = DrawTo(D[k - 1], s.lines + k)
  BY <1>8
<1> DEFINE T == {k \in Nat : D[k] \in States}
<1>10. \A k \in Nat : (\A j \in Nat : j < k => j \in T) => k \in T
  <2> SUFFICES ASSUME NEW k \in Nat, \A j \in Nat : j < k => j \in T PROVE k \in T
    OBVIOUS
  <2>1. CASE k = 0
    BY <1>9, <2>1
  <2>2. CASE k > 0
    <3>1. k - 1 \in T
      BY <2>2
    <3>2. D[k - 1] \in States /\ s.lines + k \in Int
      BY <1>1, <3>1
    <3>3. D[k] \in States
      <4> DEFINE d == D[k - 1]  e == s.lines + k
      <4>1. d \in States /\ e \in Int /\ D[k] = DrawTo(d, e)
        BY <1>9, <2>2, <3>2
      <4> HIDE DEF d, e
      <4>2. DrawTo(d, e) \in States
        BY <4>1, DrawKeeps
      <4> QED  BY <4>1, <4>2
    <3> QED  BY <3>3
  <2> QED  BY <2>1, <2>2
<1> HIDE DEF T
<1>11. Nat \subseteq T
  BY <1>10, Induction
<1> QED  BY <1>9, <1>11 DEF T, D

\* What drawing more keeps, and how far it gets.
Further(s, r) ==
    /\ r \in States /\ r.lines \in s.lines..Lines
    /\ r.check = s.check /\ r.next = s.next /\ r.flag = s.flag /\ r.old = s.old
    /\ r.lines = s.lines => r = s
    /\ Searchable /\ FoundRight(s.found, s.lines) => FoundRight(r.found, r.lines)

\* Drawing up to a line gets there;
LEMMA FurtherOne ==
    ASSUME Types, NEW s \in States, NEW e \in Int, s.lines < e, e <= Lines
    PROVE  Further(s, DrawTo(s, e))
<1>1. s.lines \in Int
  BY DEF States
<1>2. Searchable /\ FoundRight(s.found, s.lines) => FoundRight(DrawTo(s, e).found, e)
  BY <1>1, DrawRight
<1> DEFINE r == DrawTo(s, e)
<1>3. /\ r \in States /\ r.lines = e /\ r.check = s.check /\ r.next = s.next
      /\ r.flag = s.flag /\ r.old = s.old
  BY DrawKeeps
<1> HIDE DEF r
<1>4. Searchable /\ FoundRight(s.found, s.lines) => FoundRight(r.found, e)
  BY <1>2 DEF r
<1>5. Further(s, r)
  BY <1>1, <1>3, <1>4, Sizes DEF Further
<1> QED  BY <1>5 DEF r

\* drawing nothing changes nothing;
LEMMA FurtherStays ==
    ASSUME NEW s \in States, s.lines <= Lines
    PROVE  Further(s, s)
<1>1. s.lines \in Int
  BY DEF States
<1> QED  BY <1>1, Sizes DEF Further

\* and one may draw in pieces.
LEMMA FurtherThen ==
    ASSUME NEW s \in States, NEW r, NEW q, Further(s, r), Further(r, q)
    PROVE  Further(s, q)
<1>1. s.lines \in Int /\ r.lines \in s.lines..Lines /\ q.lines \in r.lines..Lines
  BY DEF States, Further
<1>2. q.lines \in s.lines..Lines /\ (q.lines = s.lines => r.lines = s.lines /\ q.lines = r.lines)
  BY <1>1, Sizes
<1> QED  BY <1>2 DEF Further

\* render_bg_until draws the lines that have begun.
LEMMA RenderRight ==
    ASSUME Types, NEW s \in States, s.lines \in 0..Lines, NEW t
    PROVE  Further(s, RenderBgUntil(s, t))
<1>1. Due(t) \in 0..Lines
  BY DueType
<1>2. CASE LineTime(s.lines) < Clock(t) /\ Due(t) > s.lines
  <2>1. RenderBgUntil(s, t) = DrawTo(s, Due(t))
    BY <1>2 DEF RenderBgUntil
  <2> DEFINE e == Due(t)
  <2>2. e \in Int /\ s.lines < e /\ e <= Lines
    BY <1>1, <1>2, Sizes
  <2> HIDE DEF e
  <2>3. Further(s, DrawTo(s, e))
    BY <2>2, FurtherOne
  <2> QED  BY <2>1, <2>3 DEF e
<1>3. CASE ~(LineTime(s.lines) < Clock(t) /\ Due(t) > s.lines)
  <2>1. RenderBgUntil(s, t) = s
    BY <1>3 DEF RenderBgUntil
  <2>2. Further(s, s)
    BY FurtherStays, Sizes
  <2> QED  BY <2>1, <2>2
<1> QED  BY <1>2, <1>3

\* Line after line gets as far as that.
LEMMA OneByOneRight ==
    ASSUME Types, NEW s \in States, s.lines \in 0..Lines, NEW n \in Nat, s.lines + n <= Lines
    PROVE  /\ Further(s, OneByOne(s)[n])
           /\ OneByOne(s)[n].lines = s.lines + n
<1> DEFINE D == OneByOne(s)
           T == {k \in Nat : s.lines + k <= Lines =>
                                Further(s, D[k]) /\ D[k].lines = s.lines + k}
<1>1. /\ D[0] = s /\ \A k \in Nat : D[k] \in States
      /\ \A k \in Nat : k > 0 => D[k] = DrawTo(D[k - 1], s.lines + k)
  BY OneByOneIs
<1>2. s.lines \in Int /\ Lines \in Nat
  BY Sizes
<1> HIDE DEF D
<1>3. \A k \in Nat : (\A j \in Nat : j < k => j \in T) => k \in T
  <2> SUFFICES ASSUME NEW k \in Nat, \A j \in Nat : j < k => j \in T, s.lines + k <= Lines
               PROVE  Further(s, D[k]) /\ D[k].lines = s.lines + k
    OBVIOUS
  <2>1. CASE k = 0
    <3>1. Further(s, s)
      BY FurtherStays, Sizes
    <3> QED  BY <1>1, <1>2, <2>1, <3>1
  <2>2. CASE k > 0
    <3> DEFINE r == D[k - 1]  e == s.lines + k
    <3>1. k - 1 \in T /\ k - 1 \in Nat
      BY <2>2
    <3>2. r \in States /\ Further(s, r) /\ r.lines = s.lines + (k - 1)
      BY <1>1, <1>2, <3>1
    <3>3. D[k] = DrawTo(r, e)
      BY <1>1, <2>2
    <3>4. e \in Int /\ r.lines < e /\ e <= Lines
      BY <1>2, <3>2
    <3> HIDE DEF r, e
    <3>5. Further(r, D[k]) /\ D[k].lines = e
      <4>1. Further(r, DrawTo(r, e))
        BY <3>2, <3>4, FurtherOne
      <4>2. DrawTo(r, e).lines = e
        BY <3>2, <3>4, DrawKeeps
      <4> QED  BY <3>3, <4>1, <4>2
    <3>6. Further(s, D[k])
      BY <3>2, <3>5, FurtherThen
    <3> QED  BY <3>5, <3>6 DEF e
  <2> QED  BY <2>1, <2>2
<1> HIDE DEF T
<1>4. Nat \subseteq T
  BY <1>3, Induction
<1> QED  BY <1>4 DEF T, D

\* Rendering ahead gets to the line that is needed.
LEMMA AheadRight ==
    ASSUME Types, NEW s \in States, s.lines \in 0..Lines, NEW t,
           NEW needed \in Int, needed <= Lines
    PROVE  /\ Further(s, Ahead(s, t, needed))
           /\ needed <= Ahead(s, t, needed).lines
<1>1. CASE s.lines >= needed
  <2>1. Ahead(s, t, needed) = s
    BY <1>1 DEF Ahead
  <2>2. Further(s, s)
    BY FurtherStays, Sizes
  <2> QED  BY <1>1, <2>1, <2>2, Sizes
<1>2. CASE ~(s.lines >= needed)
  <2> DEFINE d == RenderBgUntil(s, t)  n == Larger(needed - d.lines, 0)
  <2>1. Ahead(s, t, needed) = OneByOne(d)[n]
    BY <1>2 DEF Ahead
  <2>2. Further(s, d)
    BY RenderRight
  <2> HIDE DEF d
  <2>3. d \in States /\ d.lines \in 0..Lines
    BY <2>2, Sizes DEF Further
  <2>4. n \in Nat /\ d.lines + n <= Lines /\ needed <= d.lines + n
    <3>1. n = IF needed - d.lines < 0 THEN 0 ELSE needed - d.lines
      BY DEF Larger
    <3> HIDE DEF n
    <3> QED  BY <2>3, <3>1, Sizes
  <2> HIDE DEF n
  <2>5. Further(d, OneByOne(d)[n]) /\ OneByOne(d)[n].lines = d.lines + n
    BY <2>3, <2>4, OneByOneRight
  <2>6. Further(s, OneByOne(d)[n])
    BY <2>2, <2>5, FurtherThen
  <2> QED  BY <2>1, <2>4, <2>5, <2>6
<1> QED  BY <1>1, <1>2

-----------------------------------------------------------------------------
(* The flag                                                                *)

\* A sprite without an opaque line has its height for the first.
LEMMA FirstOpaqueType == FirstOpaque \in Nat
<1> DEFINE rows == {k \in 0..(Height - 1) : spr.tile[k] # {}}
<1>1. rows # {} => Min(rows) \in rows
  <2>1. rows \subseteq Int /\ \A m \in rows : 0 <= m
    OBVIOUS
  <2>2. 0 \in Int
    OBVIOUS
  <2> HIDE DEF rows
  <2> QED  BY <2>1, <2>2, LeastInt, Zenon
<1>2. rows \subseteq Nat
  OBVIOUS
<1>3. FirstOpaque = IF rows = {} THEN Height ELSE Min(rows)
  BY DEF FirstOpaque
<1> HIDE DEF rows
<1> QED  BY <1>1, <1>2, <1>3, Sizes

\* The first pixel of the sprite's line n.
LEMMA LineHitType ==
    ASSUME Types, NEW n \in Int
    PROVE  /\ LineHit(n) \in Int
           /\ n >= 0 => EarliestHit - LineLen <= LineHit(n) /\ LineHit(0) <= LineHit(n)
           /\ LineHit(n) = LineHit(0) + n * LineLen /\ LineHit(0) \in Int
<1>1. spr.x \in Nat
  BY SearchTypes
<1>2. n * LineLen \in Int /\ 0 * LineLen = 0
  BY Sizes
<1>3. n >= 0 => n * LineLen >= 0
  BY Sizes
<1> QED  BY <1>1, <1>2, <1>3, Sizes DEF LineHit

\* A hit on a line is not before the first pixel of the sprite's line above.
LEMMA HitAfterLine ==
    ASSUME Types, NEW p \in Shared, NEW n \in Int, n < p[1]
    PROVE  /\ HitTime(Pixel(p[1], p[2])) \in Int
           /\ LineHit(n) <= HitTime(Pixel(p[1], p[2]))
<1>1. p[1] \in Int /\ p[2] \in Int /\ spr.x <= p[2] /\ spr.x \in Int
  <2>1. spr.x \in Nat
    BY SearchTypes
  <2>2. p[1] \in 0..(Lines - 1) /\ p[2] \in 0..LastX /\ spr.x <= p[2]
    BY SharedFacts
  <2> QED  BY <2>1, <2>2, Sizes
<1>2. /\ n * LineLen \in Int /\ p[1] * LineLen \in Int
      /\ n * LineLen + LineLen <= p[1] * LineLen
  <2>1. p[1] * LineLen = n * LineLen + LineLen + (p[1] - n - 1) * LineLen
    BY <1>1, Sizes
  <2>2. (p[1] - n - 1) * LineLen >= 0 /\ (p[1] - n - 1) * LineLen \in Int
    BY <1>1, Sizes
  <2>3. n * LineLen \in Int /\ p[1] * LineLen \in Int
    BY <1>1, Sizes
  <2> QED  BY <2>1, <2>2, <2>3, Sizes
<1> DEFINE a == n * LineLen  c == p[1] * LineLen
<1>3. LineHit(n) = EarliestHit + spr.x + a
  BY DEF LineHit
<1>4. HitTime(Pixel(p[1], p[2])) = EarliestHit + (c + p[2]) - LineLen
  BY DEF HitTime, Pixel
<1>5. a \in Int /\ c \in Int /\ a + LineLen <= c
  BY <1>2
<1> HIDE DEF a, c
<1> QED  BY <1>1, <1>3, <1>4, <1>5, Sizes

\* What a look at cycle t leaves: s before it, r after it.
Looked(s, r, t) ==
    /\ r \in States /\ r.lines \in 0..Lines /\ r.check > 0
    /\ r.old = s.old /\ r.next = s.next
    /\ (s.lines = 0 => s.found = 0) => (r.lines = 0 => r.found = 0)
    /\ Searchable /\ FoundRight(s.found, s.lines) =>
        /\ FoundRight(r.found, r.lines)
        /\ r.flag => \/ s.flag
                     \/ on /\ \E p \in Overlap : HitTime(p) <= Clock(t)
        /\ ~r.flag /\ on => \A p \in Overlap :
               Clock(r.check) <= HitTime(p) /\ Clock(t) <= HitTime(p)

\* The lines that are drawn for a look at a clock reach past its pixels.
LEMMA NeededReaches ==
    ASSUME Types, NEW t \in Nat, LineHit(0) <= Clock(t),
           NEW needed,
           needed = Smaller(Lines, 2 + (Clock(t) - LineHit(0)) \div LineLen)
    PROVE  /\ needed \in Int /\ 1 <= needed /\ needed <= Lines
           /\ \A p \in Shared : needed <= p[1] =>
                  Clock(t) <= HitTime(Pixel(p[1], p[2]))
<1> DEFINE c == Clock(t)  z == LineHit(0)  q == (c - z) \div LineLen  r == (c - z) % LineLen
<1>1. c \in Int /\ z \in Int /\ z <= c
  BY ClockMonotone, LineHitType
<1>2. q \in Int /\ r \in 0..(LineLen - 1) /\ c - z = q * LineLen + r
  <2> HIDE DEF c, z
  <2>1. c - z \in Int
    BY <1>1
  <2> QED  BY <2>1, Division, Sizes
<1>3. needed = Smaller(Lines, 2 + q)
  OBVIOUS
<1> HIDE DEF q, r
<1>4. q * LineLen \in Int /\ (q < 0 => q * LineLen <= -LineLen)
  <2>1. q < 0 => (-1 - q) * LineLen >= 0
    BY <1>2, Sizes
  <2>2. (-1 - q) * LineLen = -LineLen - q * LineLen
    BY <1>2, Sizes
  <2>3. q * LineLen \in Int
    BY <1>2, Sizes
  <2> QED  BY <2>1, <2>2, <2>3, Sizes
<1>5. q >= 0
  <2> HIDE DEF c, z
  <2> QED  BY <1>1, <1>2, <1>4, Sizes
<1>6. needed \in Int /\ 1 <= needed /\ needed <= Lines /\ needed \in {Lines, 2 + q}
  BY <1>2, <1>3, <1>5, Sizes DEF Smaller
<1>7. ASSUME NEW p \in Shared, needed <= p[1]
      PROVE  c <= HitTime(Pixel(p[1], p[2]))
  <2>1. p[1] \in 0..(Lines - 1)
    BY SharedFacts
  <2>2. 2 + q <= p[1] /\ p[1] \in Int
    BY <1>6, <1>7, <2>1, Sizes
  <2> DEFINE n == q + 1  h == HitTime(Pixel(p[1], p[2]))
  <2>3. n \in Int /\ n < p[1]
    BY <1>2, <2>2
  <2> HIDE DEF n
  <2>4. h \in Int /\ LineHit(n) <= h
    BY <2>3, HitAfterLine
  <2>5. LineHit(n) = z + n * LineLen
    BY <2>3, LineHitType
  <2>6. n * LineLen = q * LineLen + LineLen
    BY <1>2, Sizes DEF n
  <2> HIDE DEF h, c, z
  <2>7. c < z + q * LineLen + LineLen
    BY <1>1, <1>2, <1>4, Sizes
  <2>8. c <= h
    BY <1>1, <1>4, <2>4, <2>5, <2>6, <2>7, Sizes
  <2> QED  BY <2>8 DEF h
<1> HIDE DEF z
<1> QED  BY <1>6, <1>7 DEF c

\* The verdict after the lines that were needed.
LEMMA JudgeRight ==
    ASSUME Types, NEW s \in States, NEW t \in Nat, NEW a, Further(s, a), 1 <= a.lines,
           s.lines \in 0..Lines,
           \A p \in Shared : a.lines <= p[1] => Clock(t) <= HitTime(Pixel(p[1], p[2]))
    PROVE  Looked(s, Judge(a, t), t)
<1> DEFINE r == Judge(a, t)
<1>1. /\ a \in States /\ a.lines \in 1..Lines /\ a.found \in Int
      /\ a.check = s.check /\ a.next = s.next /\ a.flag = s.flag /\ a.old = s.old
  BY Sizes DEF Further, States
<1>2. Clock(t) \in Int
  BY ClockMonotone
<1>4. \A c \in Int :
        LET n == [a EXCEPT !.check = c] IN
        /\ n \in States /\ n.lines = a.lines /\ n.found = a.found /\ n.check = c
        /\ n.next = a.next /\ n.flag = a.flag /\ n.old = a.old
  BY <1>1 DEF States
<1>5. Never \in Int /\ Never > 0
  BY Sizes DEF Never
<1>6. Searchable /\ FoundRight(s.found, s.lines) => FoundRight(a.found, a.lines)
  BY DEF Further
<1>7. ASSUME NEW n \in States, NEW c \in Int, c > 0, n.check = c, n.lines = a.lines,
             n.found = a.found, n.next = a.next, n.old = a.old,
             Searchable /\ FoundRight(a.found, a.lines) =>
                /\ n.flag => \/ s.flag
                             \/ on /\ \E p \in Overlap : HitTime(p) <= Clock(t)
                /\ ~n.flag /\ on => \A p \in Overlap :
                       Clock(c) <= HitTime(p) /\ Clock(t) <= HitTime(p)
      PROVE  Looked(s, n, t)
  <2>1. n.lines \in 0..Lines /\ n.lines # 0
    BY <1>1, <1>7, Sizes
  <2>2. n.check > 0 /\ n.old = s.old /\ n.next = s.next
    BY <1>1, <1>7
  <2>3. Searchable /\ FoundRight(s.found, s.lines) =>
        /\ FoundRight(n.found, n.lines)
        /\ n.flag => \/ s.flag
                     \/ on /\ \E p \in Overlap : HitTime(p) <= Clock(t)
        /\ ~n.flag /\ on => \A p \in Overlap :
               Clock(n.check) <= HitTime(p) /\ Clock(t) <= HitTime(p)
    BY <1>6, <1>7
  <2> QED  BY <2>1, <2>2, <2>3 DEF Looked
<1>8. CASE a.found < 0
  <2>1. r = [a EXCEPT !.check = Never]
    BY <1>8 DEF Judge
  <2>2. FoundRight(a.found, a.lines) /\ on => Overlap = {}
    BY <1>8 DEF FoundRight
  <2>3. /\ r \in States /\ r.lines = a.lines /\ r.found = a.found /\ r.check = Never
        /\ r.next = a.next /\ r.flag = a.flag /\ r.old = a.old
    BY <1>4, <1>5, <2>1
  <2> HIDE DEF r
  <2>4. Looked(s, r, t)
    BY <1>1, <1>5, <1>7, <2>2, <2>3
  <2> QED  BY <2>4 DEF r
<1>9. CASE a.found = 0
  <2> DEFINE c == Cycle(LineHit(a.lines - 1))
  <2>1. r = [a EXCEPT !.check = c]
    BY <1>9 DEF Judge
  <2>2. a.lines - 1 \in Int /\ a.lines - 1 >= 0
    BY <1>1
  <2>3. /\ LineHit(a.lines - 1) \in Int
        /\ EarliestHit - LineLen <= LineHit(a.lines - 1)
    BY <2>2, LineHitType
  <2>4. c \in Int /\ c > 0 /\ Clock(c) \in Int /\ Clock(c) <= LineHit(a.lines - 1)
    BY <2>3, CycleOf
  <2> HIDE DEF c
  <2>5. /\ r \in States /\ r.lines = a.lines /\ r.found = a.found /\ r.check = c
        /\ r.next = a.next /\ r.flag = a.flag /\ r.old = a.old
    BY <1>4, <2>1, <2>4
  <2>6. ASSUME FoundRight(a.found, a.lines), on, NEW q \in Overlap
        PROVE  Clock(c) <= HitTime(q) /\ Clock(t) <= HitTime(q)
    <3>1. PICK p \in Shared : q = Pixel(p[1], p[2])
      BY OverlapFacts
    <3>2. a.lines <= p[1]
      BY <1>9, <2>6 DEF FoundRight
    <3>3. p[1] \in Int
      BY SharedFacts
    <3>4. a.lines - 1 < p[1]
      BY <1>1, <3>2, <3>3
    <3>5. HitTime(q) \in Int /\ LineHit(a.lines - 1) <= HitTime(q)
      BY <2>2, <3>1, <3>4, HitAfterLine
    <3>6. Clock(t) <= HitTime(q)
      BY <3>1, <3>2
    <3> QED  BY <2>3, <2>4, <3>5, <3>6
  <2> HIDE DEF r
  <2>7. Looked(s, r, t)
    BY <1>1, <1>7, <2>4, <2>5, <2>6
  <2> QED  BY <2>7 DEF r
<1>10. CASE a.found > 0
  <2> DEFINE h == HitTime(a.found)  c == Cycle(h)
  <2>1. h \in Int /\ h >= EarliestHit - LineLen
    BY <1>1, <1>10, Sizes DEF HitTime
  <2>2. c \in Int /\ c > 0 /\ Clock(c) \in Int /\ Clock(c) <= h
    BY <2>1, CycleOf
  <2>3. ASSUME FoundRight(a.found, a.lines)
        PROVE  /\ on /\ a.found \in Overlap
               /\ \A q \in Overlap : HitTime(q) \in Int /\ h <= HitTime(q)
    <3>1. on /\ a.found \in Overlap /\ \A q \in Overlap : a.found <= q
      BY <1>1, <1>10, <2>3 DEF FoundRight, Types
    <3>2. Overlap \subseteq Int
      BY OverlapFacts
    <3> QED  BY <1>1, <3>1, <3>2, Sizes DEF HitTime
  <2>4. CASE Clock(t) < h
    <3>1. r = [a EXCEPT !.check = c]
      BY <1>1, <1>10, <2>4 DEF Judge
    <3> HIDE DEF c, h
    <3>2. /\ r \in States /\ r.lines = a.lines /\ r.found = a.found /\ r.check = c
          /\ r.next = a.next /\ r.flag = a.flag /\ r.old = a.old
      BY <1>4, <2>2, <3>1
    <3>3. FoundRight(a.found, a.lines) =>
              \A q \in Overlap : Clock(c) <= HitTime(q) /\ Clock(t) <= HitTime(q)
      BY <1>2, <2>1, <2>2, <2>3, <2>4
    <3> HIDE DEF r
    <3>4. Looked(s, r, t)
      BY <1>1, <1>7, <2>2, <3>2, <3>3
    <3> QED  BY <3>4 DEF r
  <2>5. CASE ~(Clock(t) < h)
    <3>1. r = [a EXCEPT !.check = Never, !.flag = TRUE]
      BY <1>1, <1>10, <2>5 DEF Judge
    <3>2. /\ r \in States /\ r.lines = a.lines /\ r.found = a.found /\ r.check = Never
          /\ r.next = a.next /\ r.flag = TRUE /\ r.old = a.old
      <4>1. /\ a \in States /\ r = [a EXCEPT !.check = Never, !.flag = TRUE]
        BY <1>1, <3>1
      <4> HIDE DEF r
      <4> QED  BY <1>5, <4>1 DEF States
    <3>3. FoundRight(a.found, a.lines) =>
              on /\ \E p \in Overlap : HitTime(p) <= Clock(t)
      <4>1. h <= Clock(t)
        BY <1>2, <2>1, <2>5
      <4> QED  BY <2>3, <4>1
    <3> HIDE DEF r, h, c
    <3>4. Looked(s, r, t)
      BY <1>5, <1>7, <3>2, <3>3
    <3> QED  BY <3>4 DEF r
  <2> QED  BY <2>4, <2>5
<1> QED  BY <1>1, <1>8, <1>9, <1>10

\* update_sprite_hit, early or after drawing what it needs.
LEMMA UpdateRight ==
    ASSUME Types, NEW s \in States, s.lines \in 0..Lines, NEW t \in Nat
    PROVE  Looked(s, UpdateSpriteHit(s, t), t)
<1> DEFINE first == spr.y + FirstOpaque  e == LineHit(first)
           needed == Smaller(Lines, 2 + (Clock(t) - LineHit(0)) \div LineLen)
<1>1. first \in Nat /\ Clock(t) \in Int
  <2>1. spr.y \in Nat
    BY SearchTypes
  <2>2. Clock(t) \in Int
    BY ClockMonotone
  <2> QED  BY <2>1, <2>2, FirstOpaqueType
<1>2. /\ e \in Int /\ EarliestHit - LineLen <= e /\ LineHit(0) <= e
      /\ LineHit(0) \in Int
  <2> HIDE DEF first
  <2> QED  BY <1>1, LineHitType
<1>3. CASE Clock(t) < e
  <2> DEFINE c == Cycle(e)  r == [s EXCEPT !.check = c]
  <2>1. UpdateSpriteHit(s, t) = r
    BY <1>3 DEF UpdateSpriteHit
  <2>2. c \in Int /\ c > 0 /\ Clock(c) \in Int /\ Clock(c) <= e
    BY <1>2, CycleOf
  <2>3. ASSUME NEW q \in Overlap PROVE Clock(c) <= HitTime(q) /\ Clock(t) <= HitTime(q)
    <3>1. PICK p \in Shared : q = Pixel(p[1], p[2])
      BY OverlapFacts
    <3>2. first < p[1]
      <4>1. spr.y \in Nat
        BY SearchTypes
      <4>2. p[1] \in 0..(Lines - 1) /\ spr.y + 1 + FirstOpaque <= p[1]
        BY SharedFacts
      <4> QED  BY <4>1, <4>2, FirstOpaqueType, Sizes
    <3> HIDE DEF first, c
    <3>3. HitTime(q) \in Int /\ LineHit(first) <= HitTime(q)
      BY <1>1, <3>1, <3>2, HitAfterLine
    <3> QED  BY <1>1, <1>2, <1>3, <2>2, <3>3
  <2> HIDE DEF c
  <2>4. /\ r \in States /\ r.lines = s.lines /\ r.found = s.found /\ r.check = c
        /\ r.next = s.next /\ r.flag = s.flag /\ r.old = s.old
    BY <2>2 DEF States
  <2> HIDE DEF r
  <2>5. Looked(s, r, t)
    BY <2>2, <2>3, <2>4 DEF Looked
  <2> QED  BY <2>1, <2>5
<1>4. CASE ~(Clock(t) < e)
  <2>1. UpdateSpriteHit(s, t) = Judge(Ahead(s, t, needed), t)
    BY <1>4 DEF UpdateSpriteHit
  <2>2. LineHit(0) <= Clock(t)
    BY <1>1, <1>2, <1>4
  <2>3. /\ needed \in Int /\ 1 <= needed /\ needed <= Lines
        /\ \A p \in Shared : needed <= p[1] =>
               Clock(t) <= HitTime(Pixel(p[1], p[2]))
    BY <2>2, NeededReaches
  <2> HIDE DEF needed
  <2> DEFINE a == Ahead(s, t, needed)
  <2>4. Further(s, a) /\ needed <= a.lines
    BY <2>3, AheadRight
  <2> HIDE DEF a
  <2>5. a.lines \in Int /\ 1 <= a.lines
    BY <2>3, <2>4 DEF Further, States
  <2>6. \A p \in Shared : a.lines <= p[1] => Clock(t) <= HitTime(Pixel(p[1], p[2]))
    <3>1. \A p \in Shared : p[1] \in Int
      BY SharedFacts
    <3> QED  BY <2>3, <2>4, <2>5, <3>1
  <2>7. Looked(s, Judge(a, t), t)
    BY <2>4, <2>5, <2>6, JudgeRight
  <2> QED  BY <2>1, <2>7 DEF a
<1> QED  BY <1>3, <1>4

\* A look that was due, or was not: query_until.
LEMMA QueryRight ==
    ASSUME Types, NEW s \in States, s.lines \in 0..Lines, ChecksRight(s),
           NEW t \in Nat, t > VblEnd,
           steady /\ Searchable =>
               FoundRight(s.found, s.lines) /\ (~s.old => FlagRight(s, t)),
           NEW q, q = QueryUntil(s, t)
    PROVE  /\ q \in States /\ q.lines \in 0..Lines /\ ~q.old /\ q.check > 0
           /\ q.lines = 0 => q.found = 0
           /\ steady /\ Searchable =>
                  /\ FoundRight(q.found, q.lines) /\ FlagRight(q, t)
                  /\ ~q.flag /\ on => \A p \in Overlap : Clock(t) <= HitTime(p)
<1> DEFINE fl == s.flag /\ ~s.old
           b == [s EXCEPT !.flag = fl, !.old = FALSE]
<1>1. b \in States
  BY DEF States
<1>2. /\ b.lines = s.lines /\ b.found = s.found /\ b.check = s.check
      /\ b.next = s.next /\ b.old = FALSE
  BY DEF States
<1>3. b.flag <=> s.flag /\ ~s.old
  BY Zenon DEF States
<1>4. q = IF t > s.check THEN UpdateSpriteHit(b, t) ELSE b
  BY DEF QueryUntil
<1> HIDE DEF b, fl
<1>5. s.lines = 0 => s.found = 0
  BY DEF ChecksRight
<1>6. CASE t > s.check
  <2>1. Looked(b, q, t)
    <3>1. b.lines \in 0..Lines
      BY <1>2
    <3>2. Looked(b, UpdateSpriteHit(b, t), t)
      BY <1>1, <3>1, UpdateRight
    <3> QED  BY <1>4, <1>6, <3>2
  <2>2. /\ q \in States /\ q.lines \in 0..Lines /\ q.old = FALSE /\ q.check > 0
        /\ q.lines = 0 => q.found = 0
    BY <1>2, <1>5, <2>1 DEF Looked
  <2>3. ASSUME steady, Searchable
        PROVE  /\ FoundRight(q.found, q.lines)
               /\ q.flag => on /\ \E p \in Overlap : HitTime(p) <= Clock(t)
               /\ ~q.flag /\ on => \A p \in Overlap :
                      Clock(q.check) <= HitTime(p) /\ Clock(t) <= HitTime(p)
    <3>1. FoundRight(b.found, b.lines)
      BY <1>2, <2>3
    <3>2. b.flag => on /\ \E p \in Overlap : HitTime(p) <= Clock(t)
      BY <1>3, <2>3 DEF FlagRight
    <3> QED  BY <2>1, <2>3, <3>1, <3>2, Zenon DEF Looked
  <2> QED  BY <2>2, <2>3 DEF FlagRight
<1>7. CASE ~(t > s.check)
  <2>1. q = b /\ s.check \in Int /\ t <= s.check /\ VblEnd > 0
    BY <1>4, <1>7, Sizes DEF States
  <2>2. ~s.old /\ s.check > 0
    BY <2>1, Sizes DEF ChecksRight
  <2>3. q.flag <=> s.flag
    BY <1>3, <2>1, <2>2
  <2>4. ASSUME steady, Searchable
        PROVE  /\ FoundRight(q.found, q.lines) /\ FlagRight(q, t)
               /\ ~q.flag /\ on => \A p \in Overlap : Clock(t) <= HitTime(p)
    <3>1. FoundRight(q.found, q.lines)
      BY <1>2, <2>1, <2>4
    <3>2. FlagRight(q, t)
      BY <1>2, <2>1, <2>2, <2>3, <2>4 DEF FlagRight
    <3>3. ASSUME ~q.flag, on, NEW p \in Overlap PROVE Clock(t) <= HitTime(p)
      <4>1. Clock(s.check) <= HitTime(p)
        BY <1>2, <2>1, <3>2, <3>3 DEF FlagRight
      <4>2. Clock(t) <= Clock(s.check) /\ Clock(t) \in Int /\ Clock(s.check) \in Int
        BY <2>1, ClockMonotone
      <4>3. HitTime(p) \in Int
        BY OverlapFacts, Sizes DEF HitTime
      <4> QED  BY <4>1, <4>2, <4>3
    <3> QED  BY <3>1, <3>2, <3>3
  <2> QED  BY <1>1, <1>2, <1>5, <2>1, <2>2, <2>4
<1> QED  BY <1>6, <1>7

\* What a read at the present cycle answers.
LEMMA ReadRight ==
    ASSUME IInv, NEW r, r = ReadStatus(ppu, now)
    PROVE  /\ r \in States /\ r.lines \in 0..Lines /\ ChecksRight(r)
           /\ steady /\ Searchable =>
                 /\ FoundRight(r.found, r.lines) /\ (~r.old => FlagRight(r, now))
                 /\ now > VblEnd =>
                       /\ r.flag => on /\ \E p \in Overlap : HitTime(p) <= Clock(now)
                       /\ ~r.flag /\ on => \A p \in Overlap : Clock(now) <= HitTime(p)
<1>1. Types /\ ChecksRight(ppu)
  BY DEF IInv
<1>2. /\ ppu \in States /\ ppu.lines \in 0..Lines /\ now \in Nat /\ now \in Int
      /\ ppu.next \in Int /\ ppu.check \in Int /\ VblEnd \in Nat
  BY <1>1, Sizes DEF Types, States
<1>3. steady /\ Searchable =>
          FoundRight(ppu.found, ppu.lines) /\ (~ppu.old => FlagRight(ppu, now))
  BY DEF IInv
<1>4. ASSUME steady, Searchable, now > VblEnd, now <= ppu.next
      PROVE  /\ ~ppu.old
             /\ ppu.flag => on /\ \E p \in Overlap : HitTime(p) <= Clock(now)
             /\ ~ppu.flag /\ on => \A p \in Overlap : Clock(now) <= HitTime(p)
  <2>1. ~ppu.old /\ ppu.next = ppu.check
    BY <1>1, <1>2, <1>4 DEF ChecksRight
  <2>2. FlagRight(ppu, now)
    BY <1>3, <1>4, <2>1
  <2>3. ASSUME ~ppu.flag, on, NEW p \in Overlap PROVE Clock(now) <= HitTime(p)
    <3>1. Clock(ppu.check) <= HitTime(p)
      BY <2>2, <2>3 DEF FlagRight
    <3>2. Clock(now) <= Clock(ppu.check) /\ Clock(now) \in Int /\ Clock(ppu.check) \in Int
      BY <1>1, <1>2, <1>4, <2>1, ClockMonotone
    <3>3. HitTime(p) \in Int
      BY <1>1, OverlapFacts, Sizes DEF HitTime
    <3> QED  BY <3>1, <3>2, <3>3
  <2> QED  BY <2>1, <2>2, <2>3 DEF FlagRight
<1>5. CASE now < ppu.next - 1
  <2>1. r = ppu
    BY <1>5 DEF ReadStatus
  <2>2. now <= ppu.next
    BY <1>2, <1>5
  <2> QED  BY <1>1, <1>2, <1>3, <1>4, <2>1, <2>2
<1>6. CASE ~(now < ppu.next - 1) /\ now > ppu.next /\ now > VblEnd
  <2> DEFINE q == QueryUntil(ppu, now)
  <2>1. r = [q EXCEPT !.next = q.check]
    BY <1>6 DEF ReadStatus
  <2>2. /\ q \in States /\ q.lines \in 0..Lines /\ ~q.old /\ q.check > 0
        /\ q.lines = 0 => q.found = 0
        /\ steady /\ Searchable =>
               /\ FoundRight(q.found, q.lines) /\ FlagRight(q, now)
               /\ ~q.flag /\ on => \A p \in Overlap : Clock(now) <= HitTime(p)
    BY <1>1, <1>2, <1>3, <1>6, QueryRight
  <2> HIDE DEF q
  <2>3. /\ r \in States /\ r.lines = q.lines /\ r.found = q.found /\ r.check = q.check
        /\ r.next = q.check /\ r.flag = q.flag /\ r.old = q.old
    BY <2>1, <2>2 DEF States
  <2>4. ChecksRight(r)
    BY <2>2, <2>3 DEF ChecksRight
  <2>5. steady /\ Searchable => FlagRight(r, now)
    BY <2>2, <2>3 DEF FlagRight
  <2>6. steady /\ Searchable =>
            /\ r.flag => on /\ \E p \in Overlap : HitTime(p) <= Clock(now)
            /\ ~r.flag /\ on => \A p \in Overlap : Clock(now) <= HitTime(p)
    BY <2>2, <2>3, <2>5 DEF FlagRight
  <2> QED  BY <2>2, <2>3, <2>4, <2>5, <2>6
<1>7. CASE ~(now < ppu.next - 1) /\ ~(now > ppu.next /\ now > VblEnd)
  <2>1. r = [ppu EXCEPT !.next = VblEnd]
    BY <1>7 DEF ReadStatus
  <2>2. /\ r \in States /\ r.lines = ppu.lines /\ r.found = ppu.found
        /\ r.check = ppu.check /\ r.next = VblEnd /\ r.flag = ppu.flag /\ r.old = ppu.old
    BY <1>2, <2>1 DEF States
  <2>3. ChecksRight(r)
    BY <1>1, <2>2 DEF ChecksRight
  <2>4. steady /\ Searchable /\ ~r.old => FlagRight(r, now)
    BY <1>3, <2>2 DEF FlagRight
  <2>5. now > VblEnd => now <= ppu.next
    BY <1>2, <1>7
  <2> QED  BY <1>2, <1>3, <1>4, <2>2, <2>3, <2>4, <2>5
<1> QED  BY <1>5, <1>6, <1>7

-----------------------------------------------------------------------------
(* The invariant                                                           *)

\* A step that leaves sprite, picture and $2001 alone keeps the invariant when
\* its PPU state, its clock and what it saw are right.
LEMMA Kept ==
    ASSUME IInv, UNCHANGED <<extra, spr, picture, on, clip, steady>>,
           shown' \in BOOLEAN, now' \in 0..FrameLen,
           NEW r, ppu' = r, r \in States, r.lines \in 0..Lines, ChecksRight(r),
           NEW u, now' = u,
           steady /\ Searchable =>
               /\ FoundRight(r.found, r.lines) /\ (~r.old => FlagRight(r, u))
               /\ u > VblEnd =>
                     /\ seen' = "hit" => on /\ \E p \in Overlap : HitTime(p) <= Clock(u)
                     /\ seen' = "no hit" /\ on =>
                           \A p \in Overlap : Clock(u) <= HitTime(p)
    PROVE  IInv'
<1>1. Types'
  BY DEF IInv, Types
<1>2. Shared' = Shared
  BY DEF Shared, LeftEdge
<1>3. Overlap' = Overlap
  BY <1>2 DEF Overlap, Pixel
<1>4. Searchable' <=> Searchable
  BY DEF Searchable
<1>5. ChecksRight(ppu)'
  BY DEF ChecksRight
<1>6. steady' /\ Searchable' => FoundRight(ppu.found, ppu.lines)'
  BY <1>2, <1>3, <1>4 DEF FoundRight
<1>7. steady' /\ Searchable' /\ ~ppu'.old => FlagRight(ppu, now)'
  BY <1>3, <1>4 DEF FlagRight, Clock, HitTime
<1>8. HitOnTime'
  BY <1>3, <1>4 DEF HitOnTime, Clock, HitTime
<1> QED  BY <1>1, <1>5, <1>6, <1>7, <1>8 DEF IInv

\* A PPU that has drawn and looked for nothing is right for any sprite.
LEMMA Fresh ==
    ASSUME IInv, Types', steady' => ppu'.lines = 0 /\ ppu'.found = 0 /\ ppu'.old,
           ChecksRight(ppu'), seen' = "none"
    PROVE  IInv'
<1>1. \A p \in Shared' : 0 <= p[1]
  <2>1. picture' \subseteq (0..(Lines - 1)) \X Columns
    BY GeometryAssumption DEF Types
  <2>2. Shared' \subseteq picture'
    BY DEF Shared
  <2> QED  BY <2>1, <2>2
<1>2. steady' => FoundRight(ppu.found, ppu.lines)'
  BY <1>1 DEF FoundRight
<1>3. HitOnTime'
  BY DEF HitOnTime
<1>4. ChecksRight(ppu)'
  BY DEF ChecksRight
<1> QED  BY <1>2, <1>3, <1>4 DEF IInv

\* Sprites and $2001 are written after the lines that have begun are drawn.
LEMMA WriteRight ==
    ASSUME IInv, NEW t, Write(RenderBgUntil(ppu, t)),
           spr' \in Sprites, picture' = picture, on' \in BOOLEAN, clip' \in BOOLEAN,
           UNCHANGED <<now, extra, shown>>
    PROVE  IInv'
<1> DEFINE r == RenderBgUntil(ppu, t)
<1>1. Types /\ ChecksRight(ppu)
  BY DEF IInv
<1>2. ppu \in States /\ ppu.lines \in 0..Lines /\ steady \in BOOLEAN
  BY <1>1 DEF Types
<1>3. Further(ppu, r)
  BY <1>1, <1>2, RenderRight
<1>4. ppu' = r /\ seen' = "none" /\ steady' = (steady /\ r.lines = 0 /\ r.check = 0)
  BY DEF Write
<1> HIDE DEF r
<1>5. /\ r \in States /\ r.lines \in 0..Lines /\ r.lines >= ppu.lines
      /\ r.check = ppu.check /\ r.next = ppu.next /\ r.old = ppu.old
      /\ r.lines = ppu.lines => r = ppu
  BY <1>2, <1>3, Sizes DEF Further
<1>6. r.lines = 0 => r.found = 0
  BY <1>1, <1>2, <1>5 DEF ChecksRight
<1>7. ChecksRight(r)
  BY <1>1, <1>5, <1>6 DEF ChecksRight
<1>8. r.check = 0 => r.old
  BY <1>7 DEF ChecksRight
<1>9. Types'
  BY <1>1, <1>2, <1>4, <1>5, Zenon DEF Types
<1>10. ChecksRight(ppu')
  BY <1>4, <1>7
<1>11. steady' => ppu'.lines = 0 /\ ppu'.found = 0 /\ ppu'.old
  BY <1>4, <1>6, <1>8
<1> QED  BY <1>4, <1>9, <1>10, <1>11, Fresh

\* A frame begins with nothing drawn, found or due.
LEMMA NewFrameIs ==
    ASSUME NEW f \in BOOLEAN
    PROVE  LET n == NewFrame(f) IN
           /\ n \in States /\ n.lines \in 0..Lines /\ n.lines = 0 /\ n.found = 0
           /\ n.old /\ ChecksRight(n)
BY Sizes DEF NewFrame, States, ChecksRight

\* The invariant holds at first,
LEMMA InitRight == Init => IInv
<1> SUFFICES ASSUME Init PROVE IInv
  OBVIOUS
<1>1. /\ ppu \in States /\ ppu.lines \in 0..Lines /\ ppu.lines = 0 /\ ppu.found = 0
      /\ ppu.old /\ ChecksRight(ppu)
  BY NewFrameIs DEF Init
<1>2. Types
  <2>1. now \in 0..FrameLen
    BY Sizes DEF Init
  <2>2. /\ extra \in 0..(Overclock - 1) /\ spr \in Sprites /\ picture \in Pictures
        /\ clip \in BOOLEAN /\ shown \in BOOLEAN
    BY DEF Init
  <2>3. on \in BOOLEAN /\ steady \in BOOLEAN
    BY Zenon DEF Init
  <2> QED  BY <1>1, <2>1, <2>2, <2>3 DEF Types
<1>3. FoundRight(ppu.found, ppu.lines)
  <2>1. \A p \in Shared : 0 <= p[1]
    BY <1>2, SharedFacts
  <2> QED  BY <1>1, <2>1 DEF FoundRight
<1>4. HitOnTime
  BY DEF Init, HitOnTime
<1> QED  BY <1>1, <1>2, <1>3, <1>4 DEF IInv

\* and every step keeps it.
LEMMA NextRight == IInv /\ [Next]_vars => IInv'
<1> SUFFICES ASSUME IInv, [Next]_vars PROVE IInv'
  OBVIOUS
<1>1. Types /\ ChecksRight(ppu)
  BY DEF IInv
<1>2. /\ ppu \in States /\ ppu.lines \in 0..Lines /\ now \in 0..FrameLen /\ now \in Nat
      /\ FrameLen \in Nat /\ shown \in BOOLEAN
  BY <1>1, Sizes DEF Types
<1>3. steady /\ Searchable =>
          FoundRight(ppu.found, ppu.lines) /\ (~ppu.old => FlagRight(ppu, now))
  BY DEF IInv
<1>4. CASE Tick
  <2> DEFINE u == now + 1
  <2>1. /\ now' = u /\ u \in 0..FrameLen /\ u \in Int /\ now <= u /\ seen' = "none"
        /\ UNCHANGED <<extra, spr, picture, on, clip, steady, ppu, shown>>
    BY <1>2, <1>4 DEF Tick
  <2> HIDE DEF u
  <2>2. steady /\ Searchable /\ ~ppu.old => FlagRight(ppu, u)
    <3> SUFFICES ASSUME FlagRight(ppu, now) PROVE FlagRight(ppu, u)
      BY <1>3
    <3>1. Clock(now) <= Clock(u) /\ Clock(now) \in Int /\ Clock(u) \in Int
      BY <1>1, <1>2, <2>1, ClockMonotone
    <3>2. \A p \in Overlap : HitTime(p) \in Int
      BY <1>1, OverlapFacts, Sizes DEF HitTime
    <3> QED  BY <3>1, <3>2 DEF FlagRight
  <2> QED  BY <1>1, <1>2, <1>3, <2>1, <2>2, Kept
<1>5. CASE Read
  <2> DEFINE r == ReadStatus(ppu, now)
  <2>1. /\ ppu' = r /\ seen' = (IF r.flag THEN "hit" ELSE "no hit") /\ now' = now
        /\ UNCHANGED <<extra, spr, picture, on, clip, steady, shown>>
    BY <1>5 DEF Read
  <2>2. /\ r \in States /\ r.lines \in 0..Lines /\ ChecksRight(r)
        /\ steady /\ Searchable =>
              /\ FoundRight(r.found, r.lines) /\ (~r.old => FlagRight(r, now))
              /\ now > VblEnd =>
                    /\ r.flag => on /\ \E p \in Overlap : HitTime(p) <= Clock(now)
                    /\ ~r.flag /\ on => \A p \in Overlap : Clock(now) <= HitTime(p)
    BY ReadRight
  <2> HIDE DEF r
  <2>3. /\ seen' = "hit" => r.flag
        /\ seen' = "no hit" => ~r.flag
    BY <2>1
  <2> QED  BY <1>2, <2>1, <2>2, <2>3, Kept
<1>6. CASE Split
  <2> DEFINE r == RenderBgUntil(ppu, now)
  <2>1. /\ ppu' = r /\ seen' = "none" /\ now' = now
        /\ UNCHANGED <<extra, spr, picture, on, clip, steady, shown>>
    BY <1>6 DEF Split
  <2>2. Further(ppu, r)
    BY <1>1, <1>2, RenderRight
  <2> HIDE DEF r
  <2>3. /\ r \in States /\ r.lines \in 0..Lines /\ r.lines >= ppu.lines
        /\ r.check = ppu.check /\ r.next = ppu.next /\ r.old = ppu.old
        /\ r.flag = ppu.flag /\ (r.lines = ppu.lines => r = ppu)
    BY <1>2, <2>2, Sizes DEF Further
  <2>4. ChecksRight(r)
    BY <1>1, <1>2, <2>3 DEF ChecksRight
  <2>5. steady /\ Searchable =>
            FoundRight(r.found, r.lines) /\ (~r.old => FlagRight(r, now))
    BY <1>3, <2>2, <2>3 DEF Further, FlagRight
  <2> QED  BY <1>2, <2>1, <2>3, <2>4, <2>5, Kept
<1>7. CASE WriteSprite
  <2>1. /\ Write(RenderBgUntil(ppu, now)) /\ spr' \in Sprites
        /\ UNCHANGED <<now, extra, picture, on, clip, shown>>
    BY <1>7 DEF WriteSprite
  <2>2. on' \in BOOLEAN /\ clip' \in BOOLEAN
    BY <1>1, <2>1 DEF Types
  <2> QED  BY <2>1, <2>2, WriteRight
<1>8. CASE WriteMask
  <2>1. /\ Write(RenderBgUntil(ppu, now + 1))
        /\ UNCHANGED <<now, extra, spr, picture, shown>>
    BY <1>8 DEF WriteMask
  <2>2. on' \in BOOLEAN /\ clip' \in BOOLEAN
    BY <1>1, <1>8, Zenon DEF WriteMask, Types
  <2>3. spr' \in Sprites
    BY <1>1, <2>1 DEF Types
  <2> QED  BY <2>1, <2>2, <2>3, WriteRight
<1>9. CASE EndFrame
  <2> DEFINE r == RenderBgUntil(ppu, now)  q == QueryUntil(r, now)
  <2>1. /\ ppu' = NewFrame(q.flag) /\ now' = 0 /\ extra' \in 0..(Overclock - 1)
        /\ shown' \in BOOLEAN /\ steady' = TRUE /\ seen' = "none"
        /\ UNCHANGED <<spr, picture, on, clip>> /\ now = FrameLen
    BY <1>9 DEF EndFrame
  <2>2. Further(ppu, r)
    BY <1>1, <1>2, RenderRight
  <2>3. q.flag \in BOOLEAN
    <3>1. q = QueryUntil(r, now) /\ now > VblEnd
      BY <2>1, Sizes
    <3> HIDE DEF r, q
    <3>2. /\ r \in States /\ r.lines \in 0..Lines /\ r.lines >= ppu.lines
          /\ r.check = ppu.check /\ r.next = ppu.next /\ r.old = ppu.old
          /\ r.flag = ppu.flag /\ (r.lines = ppu.lines => r = ppu)
      BY <1>2, <2>2, Sizes DEF Further
    <3>3. ChecksRight(r)
      BY <1>1, <1>2, <3>2 DEF ChecksRight
    <3>4. steady /\ Searchable =>
              FoundRight(r.found, r.lines) /\ (~r.old => FlagRight(r, now))
      BY <1>3, <2>2, <3>2 DEF Further, FlagRight
    <3>5. q \in States
      BY <1>1, <1>2, <3>1, <3>2, <3>3, <3>4, QueryRight
    <3> QED  BY <3>5 DEF States
  <2> HIDE DEF q
  <2>4. /\ ppu' \in States /\ ppu'.lines \in 0..Lines /\ ppu'.lines = 0
        /\ ppu'.found = 0 /\ ppu'.old /\ ChecksRight(ppu')
    BY <2>1, <2>3, NewFrameIs
  <2>5. Types'
    <3>1. now' \in 0..FrameLen
      BY <1>2, <2>1
    <3> QED  BY <1>1, <2>1, <2>4, <3>1 DEF Types
  <2> QED  BY <2>1, <2>4, <2>5, Fresh
<1>10. CASE UNCHANGED vars
  <2>1. UNCHANGED <<now, extra, ppu, spr, picture, on, clip, shown, seen, steady>>
    BY <1>10 DEF vars
  <2>2. steady /\ Searchable /\ now > VblEnd =>
            /\ seen = "hit" => on /\ \E p \in Overlap : HitTime(p) <= Clock(now)
            /\ seen = "no hit" /\ on => \A p \in Overlap : Clock(now) <= HitTime(p)
    BY DEF IInv, HitOnTime
  <2> QED  BY <1>1, <1>2, <1>3, <2>1, <2>2, Kept
<1> QED  BY <1>4, <1>5, <1>6, <1>7, <1>8, <1>9, <1>10 DEF Next

\* The PPU's lines, its search, flag and next check stay right through polls,
\* register accesses, writes and frames.
THEOREM SearchInvariant == Spec => []IInv
BY InitRight, NextRight, PTL DEF Spec

\* A poll sees the hit from the clock of the first pixel that sprite and
\* background share, never before it and never later than the clock after it,
\* whatever was polled, rendered in which pieces, and with the picture drawn or
\* not.  This holds for a sprite that is not flipped and whose tile is followed
\* by a blank one (Searchable), in frames in which neither the sprite nor $2001
\* changes after the first line or poll (steady), and for these only.
THEOREM PollsOnTime == Spec => []HitOnTime
<1>1. IInv => HitOnTime
  BY DEF IInv
<1> QED  BY <1>1, SearchInvariant, PTL
=============================================================================
