------------------------------ MODULE ApuProofs ------------------------------
(***************************************************************************)
(* Proofs about the sound unit's interrupts.                               *)
(***************************************************************************)
EXTENDS MCApu, WellFoundedInduction, TLAPS

-----------------------------------------------------------------------------
(* Induction on the naturals, for the set of those with a property         *)

\* A set of naturals has a least element.
LEMMA Least ==
    ASSUME NEW T, T \subseteq Nat, T # {}
    PROVE  \E x \in T : \A y \in T : x <= y
<1>1. \E R : IsWellFoundedOn(R, Nat) /\ \A x, y \in Nat : <<x, y>> \in R <=> x < y
  <2>1. IsWellFoundedOn(OpToRel(<, Nat), Nat)
    BY NatLessThanWellFounded
  <2>2. \A x, y \in Nat : <<x, y>> \in OpToRel(<, Nat) <=> x < y
    BY DEF OpToRel
  <2> QED  BY <2>1, <2>2, Zenon
<1>2. PICK R : IsWellFoundedOn(R, Nat) /\ \A x, y \in Nat : <<x, y>> \in R <=> x < y
  BY <1>1
<1>3. PICK x \in T : \A y \in T : ~ (<<y, x>> \in R)
  <2>1. IsWellFoundedOn(R, Nat)
    BY <1>2
  <2> QED  BY <2>1, WFMin, Zenon
<1>4. \A y \in T : ~ (y < x)
  BY <1>2, <1>3
<1> QED  BY <1>4

\* Mathematical induction.
LEMMA Induction ==
    ASSUME NEW S, 0 \in S, \A n \in Nat : n \in S => n + 1 \in S
    PROVE  Nat \subseteq S
<1> SUFFICES ASSUME Nat \ S # {} PROVE FALSE  OBVIOUS
<1>1. PICK x \in Nat \ S : \A y \in Nat \ S : x <= y
  BY Least
<1>2. x # 0 /\ x - 1 \in Nat
  OBVIOUS
<1>3. x - 1 \in S
  BY <1>1, <1>2
<1> QED  BY <1>1, <1>2, <1>3

-----------------------------------------------------------------------------
(* Numbers                                                                 *)

\* What the assumptions say of the constants.
LEMMA Constants ==
    /\ FramePeriod \in Nat /\ FramePeriod > 3 /\ ByteBits \in Nat /\ ByteBits > 0
    /\ FrameLen \in Nat /\ FrameLen > 0 /\ Overshoot \in Nat /\ Overshoot < FrameLen
    /\ NoIrq \in Nat /\ NoIrq > 2 * FrameLen + 5 * FramePeriod
    /\ \A p \in Periods : p \in Nat /\ p > 0
    /\ \A n \in Lengths : n \in Nat /\ n > 0
    /\ 1 \in Lengths /\ Periods # {}
BY PeriodAssumption, FrameAssumption

\* Multiplication is monotonic.
LEMMA TimesMono == \A a, b, c \in Nat : a <= b => a * c <= b * c
OBVIOUS

\* The bits that end before a time: as many as fit, rounded up.
LEMMA BitsFit ==
    ASSUME NEW start \in Int, NEW end \in Int, NEW p \in Nat, p > 0
    PROVE  LET c == BitsUntil(start, end, p)
           IN  /\ c \in Nat
               /\ end <= start => c = 0
               /\ start < end => end <= start + c * p /\ start + c * p < end + p
<1>1. CASE end <= start
  BY <1>1 DEF BitsUntil
<1>2. CASE start < end
  <2> DEFINE x == end - start  q == (x + p - 1) \div p
  <2>1. x \in Nat /\ x > 0
    BY <1>2
  <2>2. q \in Nat /\ x <= q * p /\ q * p < x + p
    <3> HIDE DEF x
    <3> QED  BY <2>1
  <2>3. BitsUntil(start, end, p) = q
    BY <1>2 DEF BitsUntil
  <2>4. q * p \in Nat
    BY <2>2
  <2> HIDE DEF q
  <2> QED  BY <1>2, <2>2, <2>3, <2>4
<1> QED  BY <1>1, <1>2

\* The bits that end before a time are at most m where the bit after m others
\* ends no sooner.
LEMMA BitsAtMost ==
    ASSUME NEW start \in Int, NEW end \in Int, NEW p \in Nat, p > 0, NEW m \in Nat
    PROVE  BitsUntil(start, end, p) <= m <=> end <= start + m * p
<1> DEFINE c == BitsUntil(start, end, p)
<1>1. /\ c \in Nat
      /\ end <= start => c = 0
      /\ start < end => end <= start + c * p /\ start + c * p < end + p
  BY BitsFit
<1> HIDE DEF c
<1>2. c * p \in Nat /\ m * p \in Nat /\ (m + 1) * p = m * p + p
  BY <1>1
<1>3. CASE end <= start
  <2>1. c = 0 /\ c <= m /\ end <= start + m * p
    BY <1>1, <1>2, <1>3
  <2> QED  BY <2>1 DEF c
<1>4. CASE start < end
  <2>1. ASSUME c <= m PROVE end <= start + m * p
    <3>1. c * p <= m * p
      BY <1>1, <2>1, TimesMono
    <3> QED  BY <1>1, <1>2, <1>4, <3>1
  <2>2. ASSUME m < c PROVE start + m * p < end
    <3>1. (m + 1) * p <= c * p
      <4>1. m + 1 \in Nat /\ m + 1 <= c
        BY <1>1, <2>2
      <4> QED  BY <1>1, <4>1, TimesMono
    <3> QED  BY <1>1, <1>2, <1>4, <3>1
  <2>3. CASE c <= m
    BY <2>1, <2>3 DEF c
  <2>4. CASE m < c
    <3>1. ~(c <= m) /\ ~(end <= start + m * p)
      BY <1>1, <1>2, <2>2, <2>4
    <3> QED  BY <3>1 DEF c
  <2> QED  BY <1>1, <2>3, <2>4
<1> QED  BY <1>3, <1>4

\* One cycle later one more bit has ended where one ends at that time.
LEMMA BitsNext ==
    ASSUME NEW start \in Int, NEW end \in Int, NEW p \in Nat, p > 0
    PROVE  LET c == BitsUntil(start, end, p)
           IN  BitsUntil(start, end + 1, p) = IF end < start + c * p THEN c ELSE c + 1
<1> DEFINE c == BitsUntil(start, end, p)
           d == BitsUntil(start, end + 1, p)
<1>1. /\ c \in Nat
      /\ end <= start => c = 0
      /\ start < end => end <= start + c * p /\ start + c * p < end + p
  BY BitsFit
<1>2. d \in Nat
  BY BitsFit
<1>3. /\ d <= c <=> end + 1 <= start + c * p
      /\ d <= c + 1 <=> end + 1 <= start + (c + 1) * p
  BY <1>1, BitsAtMost
<1>4. c = 0 \/ (c - 1 \in Nat /\ (d <= c - 1 <=> end + 1 <= start + (c - 1) * p)
                              /\ (c <= c - 1 <=> end <= start + (c - 1) * p))
  <2>1. CASE c = 0
    BY <2>1
  <2>2. CASE c # 0
    <3>1. c - 1 \in Nat
      BY <1>1, <2>2
    <3> QED  BY <3>1, BitsAtMost
  <2> QED  BY <2>1, <2>2
<1> HIDE DEF c, d
<1>5. c * p \in Nat /\ (c + 1) * p = c * p + p
  BY <1>1
<1>6. c = 0 \/ (c - 1) * p \in Int
  BY <1>1, <1>4
<1>7. d <= c + 1
  BY <1>1, <1>3, <1>5
<1>8. c <= d
  BY <1>1, <1>2, <1>4, <1>6
<1> QED  BY <1>1, <1>2, <1>3, <1>5, <1>7, <1>8 DEF c, d

-----------------------------------------------------------------------------
(* Loops                                                                   *)

\* h holds the successive states of a loop of n turns
Turns(h, f, x, n) == h[0] = x /\ \A k \in 1..n : h[k] = f[h[k - 1]]

\* The successive states of a loop exist.
LEMMA Iteration ==
    ASSUME NEW S, NEW f \in [S -> S], NEW x \in S, NEW n \in Nat
    PROVE  \E h \in [0..n -> S] : Turns(h, f, x, n)
<1> DEFINE Rec(h, j) == h \in [0..j -> S] /\ h = [k \in 0..j |-> IF k = 0 THEN x ELSE f[h[k - 1]]]
           Some == {j \in Nat : \E h : Rec(h, j)}
<1>1. 0 \in Some
  <2>1. Rec([k \in 0..0 |-> x], 0)
    OBVIOUS
  <2> QED  BY <2>1
<1>2. ASSUME NEW j \in Nat, j \in Some PROVE j + 1 \in Some
  <2>1. PICK h : Rec(h, j)
    BY <1>2
  <2>2. h \in [0..j -> S] /\ \A k \in 0..j : h[k] = IF k = 0 THEN x ELSE f[h[k - 1]]
    BY <2>1
  <2> DEFINE g == [k \in 0..(j + 1) |-> IF k \in 0..j THEN h[k] ELSE f[h[j]]]
  <2>3. (\A k \in 0..j : g[k] = h[k]) /\ g[j + 1] = f[h[j]]
    OBVIOUS
  <2>4. g \in [0..(j + 1) -> S]
    <3>1. f[h[j]] \in S
      BY <2>2
    <3> QED  BY <2>2, <3>1
  <2>5. ASSUME NEW k \in 0..(j + 1)
        PROVE  g[k] = IF k = 0 THEN x ELSE f[g[k - 1]]
    <3> HIDE DEF g
    <3>1. CASE k = j + 1
      <4>1. k # 0 /\ k - 1 = j /\ g[j] = h[j]
        BY <3>1, <2>3
      <4> QED  BY <3>1, <4>1, <2>3
    <3>2. CASE k = 0
      BY <3>2, <2>2, <2>3
    <3>3. CASE k \in 1..j
      <4>1. k \in 0..j /\ k - 1 \in 0..j /\ k # 0
        BY <3>3
      <4>2. g[k] = h[k] /\ g[k - 1] = h[k - 1]
        BY <4>1, <2>3
      <4> QED  BY <4>1, <4>2, <2>2
    <3> QED  BY <3>1, <3>2, <3>3
  <2>6. Rec(g, j + 1)
    <3>1. g = [k \in 0..(j + 1) |-> g[k]]
      OBVIOUS
    <3> HIDE DEF g
    <3> QED  BY <3>1, <2>4, <2>5
  <2>7. \E h_1 : Rec(h_1, j + 1)
    <3> HIDE DEF Rec, g
    <3> QED  BY <2>6
  <2> QED  BY <2>7
<1>3. Nat \subseteq Some
  <2> HIDE DEF Some
  <2> QED  BY <1>1, <1>2, Induction
<1>4. PICK h : Rec(h, n)
  BY <1>3
<1>5. \A k \in 0..n : h[k] = IF k = 0 THEN x ELSE f[h[k - 1]]
  BY <1>4
<1>6. h[0] = x /\ \A k \in 1..n : h[k] = f[h[k - 1]]
  <2>1. 0 \in 0..n /\ \A k \in 1..n : k \in 0..n /\ k # 0
    OBVIOUS
  <2> QED  BY <1>5, <2>1
<1> QED  BY <1>4, <1>6 DEF Turns

-----------------------------------------------------------------------------
(* The unit's fields                                                       *)

Dmcs == [delay : Nat, len : Nat, bits : 1..ByteBits, full : BOOLEAN, on : BOOLEAN,
         irqOn : BOOLEAN, loop : BOOLEAN, period : Periods, sample : Lengths,
         flag : BOOLEAN, next : Int]

Units == [last : Int, lastDmc : Int, earliest : Int, nextIrq : Int, delay : Nat,
          frame : 0..3, five : BOOLEAN, irqOff : BOOLEAN, flag : BOOLEAN, dmc : Dmcs]

Armed(a) == a.dmc.irqOn /\ a.dmc.len > 0

\* earliest is what irq_changed computes
Fresh(a) == a.earliest = IF Line(a) THEN 0 ELSE Min2(a.dmc.next, a.nextIrq)

\* the bits left of an armed sample
BitsLeft(a) == (a.dmc.len - 1) * ByteBits + a.dmc.bits

\* what the DMC keeps true of itself but for its next interrupt
DmcRight(a) ==
    /\ a.dmc.len > 0 => a.dmc.full
    /\ ~(a.dmc.irqOn /\ a.dmc.loop)
    /\ a.dmc.flag => a.dmc.irqOn
    /\ \E n \in Lengths : a.dmc.len <= n

\* b is a where the DMC has changed, its registers apart
Beside(a, b) ==
    /\ b.last = a.last /\ b.nextIrq = a.nextIrq /\ b.delay = a.delay /\ b.frame = a.frame
    /\ b.five = a.five /\ b.irqOff = a.irqOff /\ b.flag = a.flag
    /\ b.dmc.irqOn = a.dmc.irqOn /\ b.dmc.loop = a.dmc.loop
    /\ b.dmc.period = a.dmc.period /\ b.dmc.sample = a.dmc.sample

\* An armed sample has a bit left; one, only at its last byte's last bit.
LEMMA BitsLeftIs ==
    ASSUME NEW a \in Units, Armed(a)
    PROVE  /\ BitsLeft(a) \in Nat /\ BitsLeft(a) >= 1
           /\ BitsLeft(a) = 1 <=> a.dmc.len = 1 /\ a.dmc.bits = 1
<1> DEFINE n == a.dmc.len - 1  m == n * ByteBits
<1>1. n \in Nat /\ a.dmc.bits \in 1..ByteBits /\ ByteBits \in Nat /\ ByteBits > 0
  BY Constants DEF Units, Dmcs, Armed
<1>2. m \in Nat /\ (n = 0 => m = 0)
  <2> HIDE DEF n
  <2> QED  BY <1>1
<1>3. n # 0 => m >= 1
  <2> HIDE DEF n
  <2>1. n # 0 => 1 <= n
    BY <1>1
  <2>2. n # 0 => 1 * ByteBits <= n * ByteBits
    BY <1>1, <2>1, TimesMono
  <2> QED  BY <1>1, <1>2, <2>2
<1>4. BitsLeft(a) = m + a.dmc.bits /\ (n = 0 <=> a.dmc.len = 1)
  BY DEF BitsLeft, Units, Dmcs
<1> HIDE DEF m, n
<1> QED  BY <1>1, <1>2, <1>3, <1>4

\* irq_changed computes the announced time and touches nothing else.
LEMMA IrqChangedIs ==
    ASSUME NEW a \in Units
    PROVE  LET b == IrqChanged(a)
           IN  b \in Units /\ Fresh(b) /\ b.dmc = a.dmc /\ b.lastDmc = a.lastDmc /\ Beside(a, b)
<1> DEFINE e == IF a.dmc.flag \/ a.flag THEN 0 ELSE Min2(a.dmc.next, a.nextIrq)
           b == [a EXCEPT !.earliest = e]
<1>1. e \in Int
  BY DEF Units, Dmcs, Min2
<1>2. e = IF Line(a) THEN 0 ELSE Min2(a.dmc.next, a.nextIrq)
  BY DEF Line
<1> HIDE DEF e
<1>3. b \in Units
  BY <1>1 DEF Units
<1>4. b.earliest = e /\ b.dmc = a.dmc /\ b.lastDmc = a.lastDmc /\ b.flag = a.flag /\ b.nextIrq = a.nextIrq
  BY DEF Units
<1>5. Fresh(b)
  BY <1>2, <1>4 DEF Fresh, Line
<1>6. Beside(a, b)
  BY DEF Beside, Units
<1> QED  BY <1>3, <1>4, <1>5, <1>6 DEF IrqChanged, e

\* b is a when fill_buffer has run
FilledTo(a, b) ==
    /\ b \in Units /\ Beside(a, b) /\ b.lastDmc = a.lastDmc
    /\ b.dmc.delay = a.dmc.delay /\ b.dmc.bits = a.dmc.bits
    /\ a.dmc.full \/ a.dmc.len = 0 => b = a
    /\ ~a.dmc.full /\ a.dmc.len > 1 =>
          /\ b.dmc.full /\ b.dmc.len = a.dmc.len - 1
          /\ b.dmc.flag = a.dmc.flag /\ b.dmc.next = a.dmc.next /\ b.earliest = a.earliest
    /\ ~a.dmc.full /\ a.dmc.len = 1 /\ a.dmc.loop =>
          /\ b.dmc.full /\ b.dmc.len = a.dmc.sample
          /\ b.dmc.flag = a.dmc.flag /\ b.dmc.next = a.dmc.next /\ b.earliest = a.earliest
    /\ ~a.dmc.full /\ a.dmc.len = 1 /\ ~a.dmc.loop =>
          /\ b.dmc.full /\ b.dmc.len = 0
          /\ b.dmc.flag = a.dmc.irqOn /\ b.dmc.next = NoIrq /\ Fresh(b)

\* What fill_buffer does.
LEMMA FillBufferIs ==
    ASSUME NEW a \in Units
    PROVE  FilledTo(a, FillBuffer(a))
<1> DEFINE b == FillBuffer(a)
<1> SUFFICES FilledTo(a, b)
  OBVIOUS
<1>1. a.dmc \in Dmcs
  BY DEF Units
<1>2. a.dmc.len \in Nat
  BY <1>1 DEF Dmcs
<1>3. CASE a.dmc.full \/ a.dmc.len = 0
  <2>1. b = a
    BY <1>3 DEF FillBuffer
  <2> HIDE DEF b
  <2> QED  BY <1>3, <2>1 DEF FilledTo, Beside
<1>4. CASE ~a.dmc.full /\ a.dmc.len > 1
  <2> DEFINE d == [a.dmc EXCEPT !.full = TRUE, !.len = @ - 1]
  <2>1. b = [a EXCEPT !.dmc.full = TRUE, !.dmc.len = @ - 1]
    BY <1>4 DEF FillBuffer
  <2>2. d \in Dmcs
    <3>1. a.dmc.len - 1 \in Nat
      BY <1>2, <1>4
    <3> QED  BY <1>1, <3>1 DEF Dmcs
  <2>3. b = [a EXCEPT !.dmc = d]
    BY <2>1 DEF Units
  <2> HIDE DEF b
  <2>4. b \in Units
    <3> HIDE DEF d
    <3> QED  BY <2>2, <2>3 DEF Units
  <2>5. /\ b.lastDmc = a.lastDmc /\ b.earliest = a.earliest /\ b.dmc.delay = a.dmc.delay
        /\ b.dmc.len = a.dmc.len - 1 /\ b.dmc.bits = a.dmc.bits /\ b.dmc.full
        /\ b.dmc.flag = a.dmc.flag /\ b.dmc.next = a.dmc.next
    BY <2>3 DEF Units, Dmcs
  <2>6. Beside(a, b)
    BY <2>3 DEF Units, Dmcs, Beside
  <2> QED  BY <1>2, <1>4, <2>4, <2>5, <2>6 DEF FilledTo
<1>5. CASE ~a.dmc.full /\ a.dmc.len = 1 /\ a.dmc.loop
  <2> DEFINE d == [a.dmc EXCEPT !.full = TRUE, !.len = a.dmc.sample]
  <2>1. b = [a EXCEPT !.dmc.full = TRUE, !.dmc.len = a.dmc.sample]
    BY <1>5 DEF FillBuffer
  <2>2. d \in Dmcs
    <3>1. a.dmc.sample \in Nat
      BY <1>1, Constants DEF Dmcs
    <3> QED  BY <1>1, <3>1 DEF Dmcs
  <2>3. b = [a EXCEPT !.dmc = d]
    BY <2>1 DEF Units
  <2> HIDE DEF b
  <2>4. b \in Units
    <3> HIDE DEF d
    <3> QED  BY <2>2, <2>3 DEF Units
  <2>5. /\ b.lastDmc = a.lastDmc /\ b.earliest = a.earliest /\ b.dmc.delay = a.dmc.delay
        /\ b.dmc.len = a.dmc.sample /\ b.dmc.bits = a.dmc.bits /\ b.dmc.full
        /\ b.dmc.flag = a.dmc.flag /\ b.dmc.next = a.dmc.next
    BY <2>3 DEF Units, Dmcs
  <2>6. Beside(a, b)
    BY <2>3 DEF Units, Dmcs, Beside
  <2> QED  BY <1>5, <2>4, <2>5, <2>6 DEF FilledTo
<1>6. CASE ~a.dmc.full /\ a.dmc.len = 1 /\ ~a.dmc.loop
  <2> DEFINE y == [a EXCEPT !.dmc.full = TRUE, !.dmc.len = 0, !.dmc.on = FALSE,
                            !.dmc.flag = a.dmc.irqOn, !.dmc.next = NoIrq]
             d == [a.dmc EXCEPT !.full = TRUE, !.len = 0, !.on = FALSE,
                                !.flag = a.dmc.irqOn, !.next = NoIrq]
  <2>1. b = IrqChanged(y)
    BY <1>6 DEF FillBuffer
  <2>2. d \in Dmcs
    <3>1. 0 \in Nat /\ NoIrq \in Int /\ a.dmc.irqOn \in BOOLEAN
      BY <1>1, Constants DEF Dmcs
    <3> QED  BY <1>1, <3>1 DEF Dmcs
  <2>3. y = [a EXCEPT !.dmc = d]
    BY DEF Units
  <2> HIDE DEF b, y
  <2>4. y \in Units
    <3> HIDE DEF d
    <3> QED  BY <2>2, <2>3 DEF Units
  <2>5. /\ y.lastDmc = a.lastDmc /\ y.dmc.delay = a.dmc.delay /\ y.dmc.bits = a.dmc.bits
        /\ y.dmc.len = 0 /\ y.dmc.full /\ y.dmc.flag = a.dmc.irqOn /\ y.dmc.next = NoIrq
    BY <2>3 DEF Units, Dmcs
  <2>6. Beside(a, y)
    BY <2>3 DEF Units, Dmcs, Beside
  <2>7. b \in Units /\ Fresh(b) /\ b.dmc = y.dmc /\ b.lastDmc = y.lastDmc /\ Beside(y, b)
    BY <2>1, <2>4, IrqChangedIs
  <2>8. Beside(a, b)
    BY <2>6, <2>7 DEF Beside
  <2> QED  BY <1>6, <2>5, <2>7, <2>8 DEF FilledTo
<1> QED  BY <1>2, <1>3, <1>4, <1>5, <1>6

\* b is a when one bit is over
BitOverTo(a, b) ==
    /\ b \in Units /\ DmcRight(b) /\ Beside(a, b)
    /\ b.lastDmc = a.lastDmc /\ b.dmc.delay = a.dmc.delay
    /\ Armed(a) /\ BitsLeft(a) = 1 =>
          ~Armed(b) /\ b.dmc.flag /\ b.dmc.next = NoIrq /\ Fresh(b)
    /\ Armed(a) /\ BitsLeft(a) # 1 =>
          /\ Armed(b) /\ BitsLeft(b) = BitsLeft(a) - 1
          /\ b.dmc.flag = a.dmc.flag /\ b.dmc.next = a.dmc.next /\ b.earliest = a.earliest
    /\ ~Armed(a) =>
          /\ ~Armed(b) /\ b.dmc.flag = a.dmc.flag /\ b.dmc.next = NoIrq
          /\ b.earliest = a.earliest \/ Fresh(b)

\* What one bit does to the DMC.
LEMMA BitOverIs ==
    ASSUME NEW a \in Units, DmcRight(a), ~Armed(a) => a.dmc.next = NoIrq
    PROVE  BitOverTo(a, BitOver(a))
<1> DEFINE b == BitOver(a)
<1> SUFFICES BitOverTo(a, b)
  OBVIOUS
<1>1. CASE a.dmc.bits > 1
  <2>1. b = [a EXCEPT !.dmc.bits = @ - 1]
    BY <1>1 DEF BitOver
  <2> HIDE DEF b
  <2>2. b \in Units
    BY <1>1, <2>1, Constants DEF Units, Dmcs
  <2>3. Armed(a) => BitsLeft(a) # 1
    BY <1>1, BitsLeftIs
  <2>4. BitsLeft(b) = BitsLeft(a) - 1
    BY <2>1, Constants DEF Units, Dmcs, BitsLeft
  <2> QED  BY <2>1, <2>2, <2>3, <2>4 
           DEF Units, Dmcs, Armed, Beside, DmcRight, BitOverTo, b
<1>2. CASE ~(a.dmc.bits > 1)
  <2> DEFINE x == [a EXCEPT !.dmc.bits = ByteBits, !.dmc.full = FALSE]
  <2>1. b = FillBuffer(x) /\ a.dmc.bits = 1
    BY <1>2, Constants DEF BitOver, Units, Dmcs
  <2> DEFINE d == [a.dmc EXCEPT !.bits = ByteBits, !.full = FALSE]
  <2>3. x = [a EXCEPT !.dmc = d]
    BY DEF Units
  <2>4. d \in Dmcs
    <3>1. a.dmc \in Dmcs
      BY DEF Units
    <3>2. ByteBits \in 1..ByteBits
      BY Constants
    <3> QED BY <3>1, <3>2 DEF Dmcs
  <2>2. x \in Units
    <3> HIDE DEF x, d
    <3> QED BY <2>3, <2>4 DEF Units
  <2>5. /\ x.lastDmc = a.lastDmc /\ x.earliest = a.earliest /\ x.dmc.delay = a.dmc.delay
        /\ x.dmc.len = a.dmc.len /\ x.dmc.bits = ByteBits /\ ~x.dmc.full
        /\ x.dmc.flag = a.dmc.flag /\ x.dmc.next = a.dmc.next
    BY DEF Units, Dmcs
  <2>6. Beside(a, x)
    BY DEF Units, Beside, Dmcs
  <2>7. Armed(x) <=> Armed(a)
    BY <2>5, <2>6 DEF Armed, Beside
  <2> HIDE DEF x, d, b
  <2>8. FilledTo(x, b)
    BY <2>1, <2>2, FillBufferIs
  <2>9. x.dmc.len \in Nat
    BY <2>2 DEF Units, Dmcs
  <2>10. Beside(a, b)
    BY <2>6, <2>8 DEF FilledTo, Beside
  <2>11. CASE x.dmc.len = 0
    BY <2>2, <2>5, <2>6, <2>7, <2>8, <2>11 DEF Armed, DmcRight, Beside, BitOverTo, FilledTo
  <2>12. CASE x.dmc.len > 1
    <3>1. (Armed(b) <=> Armed(a)) /\ DmcRight(b)
      BY <2>2, <2>5, <2>6, <2>8, <2>12, Constants
         DEF Armed, DmcRight, Beside, Units, Dmcs, FilledTo
    <3>2. Armed(a) => BitsLeft(a) # 1 /\ BitsLeft(b) = BitsLeft(a) - 1
      <4>1. a.dmc.len \in Nat /\ a.dmc.len - 2 \in Nat /\ ByteBits \in Nat
        BY <2>5, <2>9, <2>12, Constants DEF Units, Dmcs
      <4>2. (a.dmc.len - 1) * ByteBits = (a.dmc.len - 2) * ByteBits + ByteBits
        <5> DEFINE n == a.dmc.len - 2
        <5>1. a.dmc.len - 1 = n + 1 /\ n \in Nat
          BY <4>1
        <5> HIDE DEF n
        <5>2. (n + 1) * ByteBits = n * ByteBits + ByteBits
          BY <4>1, <5>1
        <5> QED  BY <5>1, <5>2 DEF n
      <4>3. (a.dmc.len - 2) * ByteBits \in Nat
        BY <4>1
      <4>4. b.dmc.len = a.dmc.len - 1 /\ b.dmc.bits = ByteBits
        BY <2>5, <2>8, <2>12 DEF FilledTo
      <4> QED  BY <2>1, <2>5, <2>12, <4>1, <4>2, <4>3, <4>4, Constants DEF BitsLeft, Units, Dmcs
    <3> QED  BY <2>2, <2>5, <2>8, <2>10, <2>12, <3>1, <3>2 DEF BitOverTo, FilledTo
  <2>13. CASE x.dmc.len = 1 /\ x.dmc.loop
    <3>1. ~Armed(b) /\ ~Armed(a) /\ DmcRight(b)
      BY <2>2, <2>5, <2>6, <2>8, <2>13, Constants
         DEF Armed, DmcRight, Beside, Units, Dmcs, FilledTo
    <3> QED  BY <2>5, <2>8, <2>10, <2>13, <3>1 DEF BitOverTo, FilledTo
  <2>14. CASE x.dmc.len = 1 /\ ~x.dmc.loop
    <3>1. ~Armed(b) /\ DmcRight(b)
      BY <2>5, <2>6, <2>8, <2>10, <2>14, Constants DEF Armed, DmcRight, Beside, FilledTo
    <3>2. Armed(a) => BitsLeft(a) = 1
      BY <2>1, <2>5, <2>14, BitsLeftIs
    <3> QED  BY <2>5, <2>6, <2>8, <2>10, <2>14, <3>1, <3>2
             DEF Armed, DmcRight, Beside, Units, Dmcs, BitOverTo, FilledTo
  <2> QED  BY <2>9, <2>11, <2>12, <2>13, <2>14
<1> QED  BY <1>1, <1>2

\* b is a when k bits are over
BitsTo(a, b, k) ==
    /\ b \in Units /\ DmcRight(b) /\ Beside(a, b)
    /\ b.lastDmc = a.lastDmc /\ b.dmc.delay = a.dmc.delay
    /\ Armed(a) /\ BitsLeft(a) <= k =>
          ~Armed(b) /\ b.dmc.flag /\ b.dmc.next = NoIrq /\ Fresh(b)
    /\ Armed(a) /\ k < BitsLeft(a) =>
          /\ Armed(b) /\ BitsLeft(b) = BitsLeft(a) - k
          /\ b.dmc.flag = a.dmc.flag /\ b.dmc.next = a.dmc.next /\ b.earliest = a.earliest
    /\ ~Armed(a) =>
          /\ ~Armed(b) /\ b.dmc.flag = a.dmc.flag /\ b.dmc.next = NoIrq
          /\ b.earliest = a.earliest \/ Fresh(b)

\* A bit more.
LEMMA BitMore ==
    ASSUME NEW a \in Units, NEW b, NEW c, NEW k \in Nat, BitsTo(a, b, k), BitOverTo(b, c)
    PROVE  BitsTo(a, c, k + 1)
<1>1. Beside(a, c) /\ c.lastDmc = a.lastDmc /\ c.dmc.delay = a.dmc.delay
  BY DEF BitsTo, BitOverTo, Beside
<1>2. CASE ~Armed(b)
  <2>1. c.earliest = b.earliest \/ Fresh(c)
    BY <1>2 DEF BitOverTo
  <2>2. Fresh(b) => Fresh(c)
    <3>1. b.dmc.next = NoIrq
      <4>1. Armed(a) => BitsLeft(a) \in Nat
        BY BitsLeftIs
      <4> QED  BY <1>2, <4>1 DEF BitsTo
    <3>2. c.dmc.next = NoIrq /\ c.dmc.flag = b.dmc.flag /\ c.flag = b.flag /\ c.nextIrq = b.nextIrq
      BY <1>2, <3>1 DEF BitOverTo, Beside
    <3> QED  BY <2>1, <3>1, <3>2 DEF Fresh, Line
  <2>3. Armed(a) => BitsLeft(a) <= k + 1
    <3>1. Armed(a) => BitsLeft(a) \in Nat
      BY BitsLeftIs
    <3> QED  BY <1>2, <3>1 DEF BitsTo
  <2>4. Armed(a) => BitsLeft(a) <= k /\ ~(k + 1 < BitsLeft(a))
    <3>1. Armed(a) => BitsLeft(a) \in Nat
      BY BitsLeftIs
    <3> QED  BY <1>2, <3>1 DEF BitsTo
  <2> QED  BY <1>1, <1>2, <2>1, <2>2, <2>3, <2>4 DEF BitsTo, BitOverTo
<1>3. CASE Armed(b)
  <2>1. Armed(a) /\ BitsLeft(a) \in Nat /\ k < BitsLeft(a) /\ BitsLeft(b) = BitsLeft(a) - k
    <3>1. Armed(a) => BitsLeft(a) \in Nat
      BY BitsLeftIs
    <3> QED  BY <1>3, <3>1 DEF BitsTo
  <2>2. CASE BitsLeft(b) = 1
    <3>1. BitsLeft(a) = k + 1
      BY <2>1, <2>2
    <3> QED  BY <1>1, <1>3, <2>1, <2>2, <3>1 DEF BitsTo, BitOverTo
  <2>3. CASE BitsLeft(b) # 1
    <3>1. k + 1 < BitsLeft(a)
      BY <2>1, <2>3
    <3>2. ~(BitsLeft(a) <= k + 1)
      BY <2>1, <3>1
    <3>3. BitsLeft(c) = BitsLeft(a) - (k + 1)
      BY <1>3, <2>1, <2>3 DEF BitOverTo
    <3> QED  BY <1>1, <1>3, <2>1, <2>3, <3>1, <3>2, <3>3 DEF BitsTo, BitOverTo
  <2> QED  BY <2>2, <2>3
<1> QED  BY <1>2, <1>3

\* the turns of run's loop
BitRun(a, n) == LET run[k \in 0..n] == IF k = 0 THEN a ELSE BitOver(run[k - 1]) IN run

\* The turns of run's loop, one bit each.
LEMMA BitRunIs ==
    ASSUME NEW a \in Units, DmcRight(a), ~Armed(a) => a.dmc.next = NoIrq, NEW n \in Nat
    PROVE  /\ BitRun(a, n)[0] = a
           /\ \A k \in 1..n : BitRun(a, n)[k] = BitOver(BitRun(a, n)[k - 1])
           /\ \A k \in 0..n : BitsTo(a, BitRun(a, n)[k], k)
<1> DEFINE S == {u \in Units : DmcRight(u) /\ (~Armed(u) => u.dmc.next = NoIrq)}
           f == [u \in S |-> BitOver(u)]
           h == BitRun(a, n)
<1>1. f \in [S -> S] /\ a \in S
  <2>1. ASSUME NEW u \in S PROVE BitOver(u) \in S
    <3>1. BitOverTo(u, BitOver(u))
      BY BitOverIs
    <3> QED  BY <3>1 DEF BitOverTo
  <2> QED  BY <2>1
<1>2. \E g : g = [k \in 0..n |-> IF k = 0 THEN a ELSE BitOver(g[k - 1])]
  <2>1. PICK g \in [0..n -> S] : Turns(g, f, a, n)
    <3> HIDE DEF f, S, h
    <3> QED  BY <1>1, Iteration
  <2>2. \A k \in 0..n : g[k] \in S
    BY <2>1
  <2>3. \A k \in 0..n : g[k] = IF k = 0 THEN a ELSE BitOver(g[k - 1])
    <3> SUFFICES ASSUME NEW k \in 0..n, k # 0 PROVE g[k] = BitOver(g[k - 1])
      BY <2>1 DEF Turns
    <3>1. k \in 1..n /\ k - 1 \in 0..n
      OBVIOUS
    <3>2. f[g[k - 1]] = BitOver(g[k - 1])
      BY <2>2, <3>1
    <3> QED  BY <2>1, <3>1, <3>2 DEF Turns
  <2>4. g = [k \in 0..n |-> g[k]]
    BY <2>1
  <2> QED  BY <2>3, <2>4
<1> DEFINE Rec(g) == g = [k \in 0..n |-> IF k = 0 THEN a ELSE BitOver(g[k - 1])]
<1>3. h = CHOOSE g : Rec(g)
  BY DEF BitRun
<1> HIDE DEF Rec, h
<1>4. Rec(h)
  <2>1. \E g : Rec(g)
    BY <1>2 DEF Rec
  <2> QED  BY <1>3, <2>1, Zenon
<1>5. \A k \in 0..n : h[k] = IF k = 0 THEN a ELSE BitOver(h[k - 1])
  BY <1>4 DEF Rec
<1>6. h[0] = a /\ \A k \in 1..n : h[k] = BitOver(h[k - 1])
  <2>1. 0 \in 0..n /\ \A k \in 1..n : k \in 0..n /\ k # 0
    OBVIOUS
  <2> QED  BY <1>5, <2>1
<1> DEFINE Done == {k \in Nat : k <= n => BitsTo(a, h[k], k)}
<1>7. 0 \in Done
  <2>1. BitsTo(a, a, 0)
    <3>1. Armed(a) => BitsLeft(a) \in Nat /\ BitsLeft(a) >= 1
      BY BitsLeftIs
    <3> QED  BY <3>1 DEF BitsTo, Beside
  <2> QED  BY <1>6, <2>1
<1>8. ASSUME NEW k \in Nat, k \in Done PROVE k + 1 \in Done
  <2> SUFFICES ASSUME k + 1 <= n PROVE BitsTo(a, h[k + 1], k + 1)
    OBVIOUS
  <2>1. BitsTo(a, h[k], k)
    BY <1>8
  <2>2. h[k + 1] = BitOver(h[k])
    <3>1. k + 1 \in 1..n /\ (k + 1) - 1 = k
      OBVIOUS
    <3> QED  BY <1>6, <3>1
  <2>3. BitOverTo(h[k], h[k + 1])
    <3>1. h[k] \in Units /\ DmcRight(h[k]) /\ (~Armed(h[k]) => h[k].dmc.next = NoIrq)
      <4>1. Armed(a) => BitsLeft(a) \in Nat
        BY BitsLeftIs
      <4> QED  BY <2>1, <4>1 DEF BitsTo
    <3> QED  BY <2>2, <3>1, BitOverIs
  <2> QED  BY <2>1, <2>3, BitMore
<1>9. Nat \subseteq Done
  <2> HIDE DEF Done
  <2> QED  BY <1>7, <1>8, Induction
<1>10. \A k \in 0..n : BitsTo(a, h[k], k)
  BY <1>9
<1> QED  BY <1>6, <1>10 DEF h

\* what the DMC keeps true of itself
DmcFine(a) ==
    /\ DmcRight(a)
    /\ \E p \in Periods : a.dmc.delay < p
    /\ a.dmc.next = IF Armed(a) THEN SampleEnd(a) ELSE NoIrq

\* b is a when the DMC has run up to end
DmcTo(a, b, end) ==
    /\ b \in Units /\ DmcFine(b) /\ Beside(a, b)
    /\ b.lastDmc = IF a.lastDmc >= end THEN a.lastDmc ELSE end
    /\ Armed(a) /\ SampleEnd(a) <= end => ~Armed(b) /\ b.dmc.flag /\ Fresh(b)
    /\ Armed(a) /\ ~(SampleEnd(a) <= end) =>
          /\ Armed(b) /\ SampleEnd(b) = SampleEnd(a)
          /\ b.dmc.flag = a.dmc.flag /\ b.earliest = a.earliest
    /\ ~Armed(a) =>
          ~Armed(b) /\ b.dmc.flag = a.dmc.flag /\ (b.earliest = a.earliest \/ Fresh(b))

\* The end of the sample by the bits left of it.
LEMMA SampleEndIs ==
    ASSUME NEW a \in Units, Armed(a)
    PROVE  /\ SampleEnd(a) = a.lastDmc + a.dmc.delay + (BitsLeft(a) - 1) * a.dmc.period + 1
           /\ (BitsLeft(a) - 1) * a.dmc.period \in Nat
           /\ SampleEnd(a) \in Int /\ SampleEnd(a) > a.lastDmc + a.dmc.delay
<1>1. BitsLeft(a) - 1 \in Nat /\ a.dmc.period \in Nat
  <2>1. BitsLeft(a) - 1 \in Nat
    BY BitsLeftIs
  <2>2. a.dmc.period \in Nat
    BY Constants DEF Units, Dmcs
  <2> QED  BY <2>1, <2>2
<1>2. SampleEnd(a) = a.lastDmc + a.dmc.delay + (BitsLeft(a) - 1) * a.dmc.period + 1
  <2> DEFINE m == (a.dmc.len - 1) * ByteBits
  <2>1. m \in Int /\ a.dmc.bits \in Int
    <3>1. a.dmc.len - 1 \in Int /\ ByteBits \in Int /\ a.dmc.bits \in Int
      BY Constants DEF Units, Dmcs
    <3> QED  BY <3>1
  <2> HIDE DEF m
  <2>2. m + (a.dmc.bits - 1) = (m + a.dmc.bits) - 1
    BY <2>1
  <2> QED  BY <2>2, Zenon DEF SampleEnd, BitsLeft, m
<1>3. (BitsLeft(a) - 1) * a.dmc.period \in Nat
  <2> DEFINE n == BitsLeft(a) - 1
  <2> HIDE DEF n
  <2>1. n * a.dmc.period \in Nat
    BY <1>1 DEF n
  <2> QED  BY <2>1 DEF n
<1>4. a.lastDmc \in Int /\ a.dmc.delay \in Nat
  BY DEF Units, Dmcs
<1> QED  BY <1>2, <1>3, <1>4

\* b is a where only the DMC's clock has moved
IsMoved(a, b, e, n) == b = [a EXCEPT !.lastDmc = e, !.dmc.delay = n]

\* Moving the DMC's clock touches nothing else.
LEMMA Moved ==
    ASSUME NEW a \in Units, NEW e \in Int, NEW n \in Nat,
           NEW b, IsMoved(a, b, e, n)
    PROVE  /\ b \in Units /\ Beside(a, b) /\ b.lastDmc = e /\ b.dmc.delay = n
           /\ b.earliest = a.earliest /\ b.dmc.flag = a.dmc.flag /\ b.dmc.next = a.dmc.next
           /\ (Armed(b) <=> Armed(a)) /\ (DmcRight(a) => DmcRight(b))
           /\ BitsLeft(b) = BitsLeft(a) /\ (Fresh(a) => Fresh(b))
<1> DEFINE d == [a.dmc EXCEPT !.delay = n]
<1>1. b = [a EXCEPT !.lastDmc = e, !.dmc = d]
  BY DEF Units, IsMoved
<1>2. d \in Dmcs
  BY DEF Units, Dmcs
<1>3. b \in Units
  <2> HIDE DEF d
  <2> QED  BY <1>1, <1>2 DEF Units
<1>4. /\ Beside(a, b) /\ b.lastDmc = e /\ b.dmc.delay = n
      /\ b.earliest = a.earliest /\ b.dmc.flag = a.dmc.flag /\ b.dmc.next = a.dmc.next
      /\ b.dmc.len = a.dmc.len /\ b.dmc.full = a.dmc.full /\ b.dmc.bits = a.dmc.bits
  BY DEF Units, Dmcs, Beside, IsMoved
<1>5. /\ (Armed(b) <=> Armed(a)) /\ (DmcRight(a) => DmcRight(b))
      /\ BitsLeft(b) = BitsLeft(a) /\ (Fresh(a) => Fresh(b))
  BY <1>4 DEF Armed, DmcRight, BitsLeft, Fresh, Line, Beside
<1> QED  BY <1>3, <1>4, <1>5

\* Where the DMC runs to.
LEMMA RunDmcIs ==
    ASSUME NEW a \in Units, DmcFine(a), NEW end \in Int
    PROVE  DmcTo(a, RunDmc(a, end), end)
<1> DEFINE b == RunDmc(a, end)
           start == a.lastDmc + a.dmc.delay
           p == a.dmc.period
           count == BitsUntil(start, end, p)
           delay == start + count * p - end
<1>1. /\ a.lastDmc \in Int /\ a.dmc.delay \in Nat /\ start \in Int /\ p \in Periods
      /\ p \in Nat /\ p > 0
  BY Constants DEF Units, Dmcs
<1>2. /\ count \in Nat /\ count * p \in Int
      /\ end <= start => count = 0 /\ count * p = 0
      /\ start < end => end <= start + count * p /\ start + count * p < end + p
  <2>1. /\ count \in Nat
        /\ end <= start => count = 0
        /\ start < end => end <= start + count * p /\ start + count * p < end + p
    <3> HIDE DEF start, p
    <3> QED  BY <1>1, BitsFit
  <2> HIDE DEF count, p
  <2>2. count * p \in Int /\ (count = 0 => count * p = 0)
    BY <1>1, <2>1
  <2> QED  BY <2>1, <2>2
<1> SUFFICES DmcTo(a, b, end)
  OBVIOUS
<1>3. CASE a.lastDmc >= end
  <2>1. b = a
    BY <1>3 DEF RunDmc
  <2>2. Armed(a) => ~(SampleEnd(a) <= end)
    BY <1>1, <1>3, SampleEndIs
  <2> HIDE DEF b
  <2> QED  BY <1>3, <2>1, <2>2 DEF DmcTo, Beside
<1>4. CASE a.lastDmc < end
  <2>1. delay \in Nat /\ \E q \in Periods : delay < q
    <3> HIDE DEF count, p
    <3>1. CASE end <= start
      <4>1. PICK q \in Periods : a.dmc.delay < q
        BY DEF DmcFine
      <4>2. delay \in Nat /\ delay < q
        BY <1>1, <1>2, <1>4, <3>1, <4>1, Constants
      <4> QED  BY <4>2
    <3>2. CASE start < end
      <4>1. delay \in Nat /\ delay < p
        BY <1>1, <1>2, <1>4, <3>2
      <4> QED  BY <1>1, <4>1
    <3> QED  BY <1>1, <3>1, <3>2
  <2>2. ~Armed(a) => a.dmc.next = NoIrq
    BY DEF DmcFine
  <2>3. DmcRight(a)
    BY DEF DmcFine
  <2>4. Armed(a) => (count < BitsLeft(a) <=> ~(SampleEnd(a) <= end))
    <3> SUFFICES ASSUME Armed(a) PROVE count < BitsLeft(a) <=> ~(SampleEnd(a) <= end)
      OBVIOUS
    <3> DEFINE m == BitsLeft(a) - 1
    <3>1. m \in Nat /\ BitsLeft(a) \in Nat
      BY BitsLeftIs
    <3>2. SampleEnd(a) = start + m * p + 1 /\ m * p \in Nat
      BY SampleEndIs
    <3>3. count <= m <=> end <= start + m * p
      <4> HIDE DEF m, start, p
      <4> QED  BY <1>1, <3>1, BitsAtMost
    <3>4. count < BitsLeft(a) <=> count <= m
      BY <1>2, <3>1
    <3> HIDE DEF m, start, p, count
    <3> QED  BY <1>1, <3>2, <3>3, <3>4
  <2> DEFINE ran == IF a.dmc.full THEN BitRun(a, count)[count]
                    ELSE [a EXCEPT !.dmc.bits =
                              ((@ - 1 + ByteBits - (count % ByteBits)) % ByteBits) + 1]
  <2>5. b = [ran EXCEPT !.lastDmc = end, !.dmc.delay = delay]
    BY <1>1, <1>4 DEF RunDmc, BitRun
  <2>6. BitsTo(a, ran, count)
    <3>1. CASE a.dmc.full
      <4> HIDE DEF count
      <4>1. BitsTo(a, BitRun(a, count)[count], count)
        BY <1>2, <2>2, <2>3, BitRunIs
      <4> QED  BY <3>1, <4>1
    <3>2. CASE ~a.dmc.full
      <4> DEFINE bits == ((a.dmc.bits - 1 + ByteBits - (count % ByteBits)) % ByteBits) + 1
      <4>1. bits \in 1..ByteBits
        <5> HIDE DEF count
        <5>1. count % ByteBits \in Int /\ a.dmc.bits \in Int
          BY <1>2, Constants DEF Units, Dmcs
        <5> DEFINE x == a.dmc.bits - 1 + ByteBits - (count % ByteBits)
        <5>2. x \in Int
          BY <5>1, Constants
        <5> HIDE DEF x
        <5> QED  BY <5>2, Constants DEF x
      <4>2. ran = [a EXCEPT !.dmc.bits = bits]
        BY <3>2
      <4> HIDE DEF ran, bits
      <4>3. ran \in Units
        BY <4>1, <4>2 DEF Units, Dmcs
      <4>4. /\ ran.lastDmc = a.lastDmc /\ ran.dmc.delay = a.dmc.delay /\ ran.dmc.len = a.dmc.len
            /\ ran.dmc.full = a.dmc.full /\ ran.dmc.flag = a.dmc.flag
            /\ ran.dmc.next = a.dmc.next /\ ran.earliest = a.earliest /\ Beside(a, ran)
        BY <4>2 DEF Units, Dmcs, Beside
      <4>5. ~Armed(a)
        BY <2>3, <3>2 DEF DmcRight, Armed
      <4> QED  BY <2>2, <2>3, <4>3, <4>4, <4>5 DEF BitsTo, DmcRight, Armed, Beside
    <3> QED  BY <3>1, <3>2
  <2> HIDE DEF b, ran, count, delay
  <2>7. /\ b \in Units /\ Beside(ran, b) /\ b.lastDmc = end /\ b.dmc.delay = delay
        /\ b.earliest = ran.earliest /\ b.dmc.flag = ran.dmc.flag /\ b.dmc.next = ran.dmc.next
        /\ (Armed(b) <=> Armed(ran)) /\ DmcRight(b)
        /\ BitsLeft(b) = BitsLeft(ran) /\ (Fresh(ran) => Fresh(b))
    <3>1. ran \in Units /\ delay \in Nat /\ DmcRight(ran)
      BY <2>1, <2>6 DEF BitsTo
    <3>2. IsMoved(ran, b, end, delay)
      BY <2>5 DEF IsMoved
    <3> QED  BY <3>1, <3>2, Moved
  <2>8. Beside(a, b)
    BY <2>6, <2>7 DEF BitsTo, Beside
  <2>9. Armed(b) <=> Armed(a) /\ ~(SampleEnd(a) <= end)
    BY <1>2, <2>4, <2>6, <2>7, BitsLeftIs DEF BitsTo
  <2>10. Armed(b) => SampleEnd(b) = SampleEnd(a)
    <3> SUFFICES ASSUME Armed(b) PROVE SampleEnd(b) = SampleEnd(a)
      OBVIOUS
    <3> DEFINE m == BitsLeft(a) - 1  n == BitsLeft(b) - 1
    <3>1. BitsLeft(b) = BitsLeft(a) - count
      BY <2>4, <2>6, <2>7, <2>9 DEF BitsTo
    <3>2. m \in Nat /\ n \in Nat /\ m = n + count
      BY <1>2, <2>7, <2>9, <3>1, BitsLeftIs
    <3>3. SampleEnd(a) = start + m * p + 1 /\ SampleEnd(b) = end + delay + n * p + 1
      <4>1. b.dmc.period = p
        BY <2>8 DEF Beside
      <4> QED  BY <2>7, <2>9, <4>1, SampleEndIs
    <3> HIDE DEF m, n, start, p
    <3>4. m * p = n * p + count * p
      BY <1>1, <1>2, <3>2
    <3>5. n * p \in Int
      BY <1>1, <3>2
    <3> QED  BY <1>1, <1>2, <3>3, <3>4, <3>5 DEF delay
  <2>11. b.dmc.next = IF Armed(b) THEN SampleEnd(b) ELSE NoIrq
    BY <1>2, <2>4, <2>6, <2>7, <2>9, <2>10, BitsLeftIs DEF BitsTo, DmcFine
  <2>12. DmcFine(b)
    BY <2>1, <2>7, <2>11 DEF DmcFine
  <2>13. ~(count < BitsLeft(a)) /\ Armed(a) => BitsLeft(a) <= count
    BY <1>2, BitsLeftIs
  <2> QED  BY <1>1, <1>4, <2>4, <2>6, <2>7, <2>8, <2>9, <2>10, <2>12, <2>13 DEF BitsTo, DmcTo
<1> QED  BY <1>1, <1>3, <1>4

-----------------------------------------------------------------------------
(* The frame counter                                                       *)

FrameOn(a) == ~a.five /\ ~a.irqOff

\* the time of the counter's next interrupt, when it is on
FrameTime(a) ==
    a.last + a.delay +
    (IF a.frame = 0 THEN 0 ELSE IF a.frame = 1 THEN 3 * FramePeriod - 2
     ELSE IF a.frame = 2 THEN 2 * FramePeriod ELSE FramePeriod)

\* what the frame counter keeps true of itself
FrameFine(a) ==
    /\ ~a.five => a.delay <= FramePeriod + (IF a.frame = 1 THEN 1 ELSE 0)
    /\ FrameOn(a) => FrameTime(a) + 1 <= a.nextIrq /\ a.nextIrq <= a.last + 4 * FramePeriod + 1
    /\ ~FrameOn(a) => a.nextIrq = NoIrq

\* b is a where only the frame counter has changed
Around(a, b) ==
    /\ b.lastDmc = a.lastDmc /\ b.earliest = a.earliest /\ b.dmc = a.dmc
    /\ b.five = a.five /\ b.irqOff = a.irqOff

\* no interrupt between a and b
Calm(a, b) ==
    b.flag = a.flag /\ b.nextIrq = a.nextIrq /\ (FrameOn(a) => FrameTime(b) = FrameTime(a))

\* an interrupt
Rings(a, b) == FrameOn(a) /\ b.flag /\ b.nextIrq = FrameTime(b) + 3

\* The interrupt is not before the unit's time.
LEMMA FrameTimeIs ==
    ASSUME NEW a \in Units
    PROVE  FrameTime(a) \in Int /\ a.last + a.delay <= FrameTime(a)
<1> DEFINE rest == IF a.frame = 0 THEN 0 ELSE IF a.frame = 1 THEN 3 * FramePeriod - 2
                   ELSE IF a.frame = 2 THEN 2 * FramePeriod ELSE FramePeriod
<1>1. rest \in Nat
  BY Constants
<1>2. FrameTime(a) = a.last + a.delay + rest
  BY DEF FrameTime
<1>3. a.last \in Int /\ a.delay \in Nat
  BY DEF Units
<1> HIDE DEF rest
<1> QED  BY <1>1, <1>2, <1>3

\* b is a where only the frame counter's clock has moved
IsClocked(a, b, time) == b = [a EXCEPT !.last = time, !.delay = @ - (time - a.last)]

\* The clock of the frame counter moves without an event.
LEMMA ClockMoved ==
    ASSUME NEW a \in Units, FrameFine(a), NEW time \in Int,
           a.last <= time, time <= a.last + a.delay,
           NEW b, IsClocked(a, b, time)
    PROVE  /\ b \in Units /\ Around(a, b) /\ FrameFine(b) /\ Calm(a, b)
           /\ b.last = time /\ b.delay = a.delay - (time - a.last) /\ b.frame = a.frame
<1>1. a.last \in Int /\ a.delay \in Nat
  BY DEF Units
<1>2. a.delay - (time - a.last) \in Nat
  BY <1>1
<1>3. b \in Units
  BY <1>2 DEF Units, IsClocked
<1>4. /\ Around(a, b) /\ b.last = time /\ b.delay = a.delay - (time - a.last)
      /\ b.frame = a.frame /\ b.flag = a.flag /\ b.nextIrq = a.nextIrq
      /\ (FrameOn(b) <=> FrameOn(a))
  BY DEF Units, Around, FrameOn, IsClocked
<1>5. FrameTime(b) = FrameTime(a)
  <2>1. b.last + b.delay = a.last + a.delay
    BY <1>1, <1>4
  <2> QED  BY <1>4, <2>1 DEF FrameTime
<1>6. b.nextIrq \in Int
  BY <1>3 DEF Units
<1>7. FrameFine(b)
  <2>1. ~b.five => b.delay <= FramePeriod + (IF b.frame = 1 THEN 1 ELSE 0)
    BY <1>1, <1>4, Constants DEF FrameFine, Around
  <2>2. FrameOn(b) => FrameTime(b) + 1 <= b.nextIrq /\ b.nextIrq <= b.last + 4 * FramePeriod + 1
    BY <1>1, <1>4, <1>5, <1>6, Constants DEF FrameFine
  <2>3. ~FrameOn(b) => b.nextIrq = NoIrq
    BY <1>4 DEF FrameFine
  <2> QED  BY <2>1, <2>2, <2>3 DEF FrameFine
<1> QED  BY <1>3, <1>4, <1>5, <1>7 DEF Calm

\* What an event of the frame counter does.
LEMMA FrameEventIs ==
    ASSUME NEW a \in Units, FrameFine(a), a.delay = 0
    PROVE  LET b == FrameEvent(a)
           IN  /\ b \in Units /\ Around(a, b) /\ FrameFine(b) /\ b.last = a.last /\ b.delay >= 2
               /\ IF FrameOn(a) /\ a.frame = 0 THEN Rings(a, b) /\ FrameTime(a) = a.last
                  ELSE Calm(a, b)
<1> DEFINE b == FrameEvent(a)
<1>1. a.last \in Int /\ a.frame \in 0..3 /\ a.nextIrq \in Int /\ a.flag \in BOOLEAN
  BY DEF Units
<1>2. CASE a.frame = 0
  <2> DEFINE irq == ~a.five /\ ~a.irqOff
  <2>1. b = [a EXCEPT !.frame = 1, !.delay = FramePeriod, !.flag = irq \/ @,
                      !.nextIrq = IF irq THEN a.last + 4 * FramePeriod + 1 ELSE @]
    BY <1>2 DEF FrameEvent
  <2>2. a.last + 4 * FramePeriod + 1 \in Int /\ FramePeriod \in Nat
    BY <1>1, Constants
  <2> HIDE DEF b
  <2>3. b \in Units
    <3> DEFINE flag == irq \/ a.flag
               next == IF irq THEN a.last + 4 * FramePeriod + 1 ELSE a.nextIrq
    <3>1. flag \in BOOLEAN /\ next \in Int /\ 1 \in 0..3
      BY <1>1, <2>2
    <3>2. b = [a EXCEPT !.frame = 1, !.delay = FramePeriod, !.flag = flag, !.nextIrq = next]
      BY <2>1
    <3> HIDE DEF irq, flag, next
    <3> QED  BY <2>2, <3>1, <3>2 DEF Units
  <2>4. /\ Around(a, b) /\ b.last = a.last /\ b.frame = 1 /\ b.delay = FramePeriod
        /\ (FrameOn(a) => b.flag) /\ (~FrameOn(a) => b.flag = a.flag) /\ (FrameOn(b) <=> FrameOn(a))
        /\ b.nextIrq = IF FrameOn(a) THEN a.last + 4 * FramePeriod + 1 ELSE a.nextIrq
    BY <2>1 DEF Units, Around, FrameOn
  <2>5. FrameTime(b) = a.last + 4 * FramePeriod - 2 /\ FrameTime(a) = a.last
    BY <1>1, <1>2, <2>4, Constants DEF FrameTime
  <2>6. FrameFine(b)
    BY <1>1, <2>4, <2>5, Constants DEF FrameFine, Around
  <2>7. FrameOn(a) => Rings(a, b)
    BY <1>1, <2>4, <2>5, Constants DEF Rings
  <2>8. ~FrameOn(a) => Calm(a, b)
    BY <1>1, <2>4 DEF Calm
  <2> QED  BY <1>2, <2>3, <2>4, <2>5, <2>6, <2>7, <2>8, Constants DEF b
<1>3. CASE a.frame # 0
  <2> DEFINE frame == IF a.frame = 3 THEN 0 ELSE a.frame + 1
             delay == IF a.frame = 1 THEN FramePeriod - 2
                      ELSE IF a.frame = 2 THEN FramePeriod
                      ELSE IF a.five THEN 2 * FramePeriod - 6 ELSE FramePeriod
  <2>1. b = [a EXCEPT !.frame = frame, !.delay = delay]
    <3>1. CASE a.frame = 1
      BY <3>1 DEF FrameEvent
    <3>2. CASE a.frame = 2
      BY <3>2 DEF FrameEvent
    <3>3. CASE a.frame = 3
      BY <3>3 DEF FrameEvent
    <3> QED  BY <1>1, <1>3, <3>1, <3>2, <3>3
  <2>2. frame \in 0..3 /\ delay \in Nat /\ delay >= 2
    BY <1>1, Constants
  <2>3. /\ FrameOn(a) => FrameTime(a) = a.last + delay +
              (IF frame = 0 THEN 0 ELSE IF frame = 1 THEN 3 * FramePeriod - 2
               ELSE IF frame = 2 THEN 2 * FramePeriod ELSE FramePeriod)
        /\ ~a.five => delay <= FramePeriod
        /\ frame # 1
    BY <1>1, <1>3, Constants DEF FrameTime, FrameOn
  <2> HIDE DEF b, frame, delay
  <2>4. b \in Units
    BY <2>1, <2>2 DEF Units
  <2>5. /\ Around(a, b) /\ b.last = a.last /\ b.frame = frame /\ b.delay = delay
        /\ b.flag = a.flag /\ (FrameOn(b) <=> FrameOn(a)) /\ b.nextIrq = a.nextIrq
    BY <2>1 DEF Units, Around, FrameOn
  <2>6. FrameOn(a) => FrameTime(b) = FrameTime(a)
    BY <2>3, <2>5 DEF FrameTime
  <2>7. FrameFine(b)
    BY <2>2, <2>3, <2>5, <2>6, Constants DEF FrameFine, Around
  <2> QED  BY <1>3, <2>2, <2>4, <2>5, <2>6, <2>7 DEF Calm, b
<1> QED  BY <1>2, <1>3

\* b is a one turn of run_until_'s loop later
FrameStepTo(a, b, end) ==
    /\ b \in Units /\ Around(a, b) /\ FrameFine(b) /\ a.last <= b.last /\ b.last <= end
    /\ b.last = end \/ (b.delay >= 2 /\ b.last = a.last + a.delay)
    /\ Calm(a, b) \/ (Rings(a, b) /\ FrameTime(a) < end)

\* One turn of run_until_'s loop.
LEMMA FrameStepIs ==
    ASSUME NEW a \in Units, FrameFine(a), NEW end \in Int, a.last <= end
    PROVE  FrameStepTo(a, FrameStep(a, end), end)
<1> DEFINE time == Min2(a.last + a.delay, end)
           ran == [a EXCEPT !.last = time, !.delay = @ - (time - a.last)]
           b == FrameStep(a, end)
<1> SUFFICES FrameStepTo(a, b, end)
  OBVIOUS
<1>1. a.last \in Int /\ a.delay \in Nat
  BY DEF Units
<1>2. time \in Int /\ a.last <= time /\ time <= a.last + a.delay /\ time <= end
  BY <1>1 DEF Min2
<1>3. /\ ran \in Units /\ Around(a, ran) /\ FrameFine(ran) /\ Calm(a, ran)
      /\ ran.last = time /\ ran.delay = a.delay - (time - a.last) /\ ran.frame = a.frame
  <2>1. IsClocked(a, ran, time)
    BY DEF IsClocked
  <2> HIDE DEF time, ran
  <2> QED  BY <1>2, <2>1, ClockMoved
<1>4. CASE time = end
  <2>1. b = ran
    BY <1>4 DEF FrameStep
  <2> HIDE DEF b, ran, time
  <2> QED  BY <1>2, <1>3, <1>4, <2>1 DEF FrameStepTo
<1>5. CASE time # end
  <2>1. b = FrameEvent(ran)
    BY <1>5 DEF FrameStep
  <2>2. time = a.last + a.delay /\ time < end
    BY <1>1, <1>5 DEF Min2
  <2> HIDE DEF b, ran, time
  <2>3. ran.delay = 0
    BY <1>1, <1>2, <1>3, <2>2
  <2>4. /\ b \in Units /\ Around(ran, b) /\ FrameFine(b) /\ b.last = ran.last /\ b.delay >= 2
        /\ IF FrameOn(ran) /\ ran.frame = 0 THEN Rings(ran, b) /\ FrameTime(ran) = ran.last
           ELSE Calm(ran, b)
    BY <1>3, <2>1, <2>3, FrameEventIs
  <2>5. Around(a, b) /\ (FrameOn(ran) <=> FrameOn(a))
    BY <1>3, <2>4 DEF Around, FrameOn
  <2>6. Calm(a, b) \/ (Rings(a, b) /\ FrameTime(a) < end)
    BY <1>3, <2>2, <2>4, <2>5 DEF Calm, Rings
  <2> QED  BY <1>2, <1>3, <2>2, <2>4, <2>5, <2>6 DEF FrameStepTo
<1> QED  BY <1>4, <1>5

\* b is a k turns of the loop later
FrameTo(a, b, end, k) ==
    /\ b \in Units /\ Around(a, b) /\ FrameFine(b) /\ a.last <= b.last /\ b.last <= end
    /\ k > 0 => b.last = end \/ (b.delay >= 2 /\ a.last + k - 1 <= b.last)
    /\ Calm(a, b) \/ (Rings(a, b) /\ FrameTime(a) < end)

\* A turn more.
LEMMA FrameMore ==
    ASSUME NEW a \in Units, NEW b, NEW c, NEW end \in Int, NEW k \in Nat,
           FrameTo(a, b, end, k), FrameStepTo(b, c, end)
    PROVE  FrameTo(a, c, end, k + 1)
<1>1. Around(a, c) /\ (FrameOn(b) <=> FrameOn(a))
  BY DEF FrameTo, FrameStepTo, Around, FrameOn
<1>2. a.last \in Int /\ b.last \in Int /\ c.last \in Int /\ b.delay \in Nat
  BY DEF FrameTo, FrameStepTo, Units
<1>3. c.last = end \/ (c.delay >= 2 /\ a.last + k <= c.last)
  BY <1>2 DEF FrameTo, FrameStepTo
<1>4. Calm(a, c) \/ (Rings(a, c) /\ FrameTime(a) < end)
  BY <1>1 DEF FrameTo, FrameStepTo, Calm, Rings
<1> QED  BY <1>1, <1>2, <1>3, <1>4 DEF FrameTo, FrameStepTo

\* the turns of run_until_'s loop
FrameRun(a, end, n) ==
    LET step[k \in 0..n] == IF k = 0 THEN a ELSE FrameStep(step[k - 1], end) IN step

\* The turns of run_until_'s loop, one event each.
LEMMA FrameRunIs ==
    ASSUME NEW a \in Units, FrameFine(a), NEW end \in Int, a.last <= end, NEW n \in Nat
    PROVE  /\ FrameRun(a, end, n)[0] = a
           /\ \A k \in 1..n : FrameRun(a, end, n)[k] = FrameStep(FrameRun(a, end, n)[k - 1], end)
           /\ \A k \in 0..n : FrameTo(a, FrameRun(a, end, n)[k], end, k)
<1> DEFINE S == {u \in Units : FrameFine(u) /\ u.last <= end}
           f == [u \in S |-> FrameStep(u, end)]
           h == FrameRun(a, end, n)
<1>1. f \in [S -> S] /\ a \in S
  <2>1. ASSUME NEW u \in S PROVE FrameStep(u, end) \in S
    <3>1. FrameStepTo(u, FrameStep(u, end), end)
      BY FrameStepIs
    <3> QED  BY <3>1 DEF FrameStepTo
  <2> QED  BY <2>1
<1>2. \E g : g = [k \in 0..n |-> IF k = 0 THEN a ELSE FrameStep(g[k - 1], end)]
  <2>1. PICK g \in [0..n -> S] : Turns(g, f, a, n)
    <3> HIDE DEF f, S, h
    <3> QED  BY <1>1, Iteration
  <2>2. \A k \in 0..n : g[k] \in S
    BY <2>1
  <2>3. \A k \in 0..n : g[k] = IF k = 0 THEN a ELSE FrameStep(g[k - 1], end)
    <3> SUFFICES ASSUME NEW k \in 0..n, k # 0 PROVE g[k] = FrameStep(g[k - 1], end)
      BY <2>1 DEF Turns
    <3>1. k \in 1..n /\ k - 1 \in 0..n
      OBVIOUS
    <3>2. f[g[k - 1]] = FrameStep(g[k - 1], end)
      BY <2>2, <3>1
    <3> QED  BY <2>1, <3>1, <3>2 DEF Turns
  <2>4. g = [k \in 0..n |-> g[k]]
    BY <2>1
  <2> QED  BY <2>3, <2>4
<1> DEFINE Rec(g) == g = [k \in 0..n |-> IF k = 0 THEN a ELSE FrameStep(g[k - 1], end)]
<1>3. h = CHOOSE g : Rec(g)
  BY DEF FrameRun
<1> HIDE DEF Rec, h
<1>4. Rec(h)
  <2>1. \E g : Rec(g)
    BY <1>2 DEF Rec
  <2> QED  BY <1>3, <2>1, Zenon
<1>5. \A k \in 0..n : h[k] = IF k = 0 THEN a ELSE FrameStep(h[k - 1], end)
  BY <1>4 DEF Rec
<1>6. h[0] = a /\ \A k \in 1..n : h[k] = FrameStep(h[k - 1], end)
  <2>1. 0 \in 0..n /\ \A k \in 1..n : k \in 0..n /\ k # 0
    OBVIOUS
  <2> QED  BY <1>5, <2>1
<1> DEFINE Done == {k \in Nat : k <= n => FrameTo(a, h[k], end, k)}
<1>7. 0 \in Done
  <2>1. FrameTo(a, a, end, 0)
    BY DEF FrameTo, Around, Calm, Units
  <2> QED  BY <1>6, <2>1
<1>8. ASSUME NEW k \in Nat, k \in Done PROVE k + 1 \in Done
  <2> SUFFICES ASSUME k + 1 <= n PROVE FrameTo(a, h[k + 1], end, k + 1)
    OBVIOUS
  <2>1. FrameTo(a, h[k], end, k)
    BY <1>8
  <2>2. h[k + 1] = FrameStep(h[k], end)
    <3>1. k + 1 \in 1..n /\ (k + 1) - 1 = k
      OBVIOUS
    <3> QED  BY <1>6, <3>1
  <2>3. FrameStepTo(h[k], h[k + 1], end)
    BY <2>1, <2>2, FrameStepIs DEF FrameTo
  <2> QED  BY <2>1, <2>3, FrameMore
<1>9. Nat \subseteq Done
  <2> HIDE DEF Done
  <2> QED  BY <1>7, <1>8, Induction
<1>10. \A k \in 0..n : FrameTo(a, h[k], end, k)
  BY <1>9
<1> QED  BY <1>6, <1>10 DEF h

\* b is a when the frame counter has run up to end
FrameRan(a, b, end) ==
    /\ b \in Units /\ Around(a, b) /\ FrameFine(b) /\ b.last = end
    /\ IF FrameOn(a) /\ FrameTime(a) < end THEN Rings(a, b) ELSE Calm(a, b)

\* Where the frame counter runs to.
LEMMA FrameRanIs ==
    ASSUME NEW a \in Units, FrameFine(a), NEW end \in Int, a.last < end
    PROVE  FrameRan(a, FrameRun(a, end, end - a.last + 1)[end - a.last + 1], end)
<1> DEFINE n == end - a.last + 1
           b == FrameRun(a, end, n)[n]
<1>1. a.last \in Int /\ n \in Nat /\ n > 1
  BY DEF Units
<1>2. FrameTo(a, b, end, n)
  <2> HIDE DEF n
  <2> QED  BY <1>1, FrameRunIs
<1> HIDE DEF b
<1>3. b.last = end
  <2>1. b.last \in Int
    BY <1>2 DEF FrameTo, Units
  <2> QED  BY <1>1, <1>2, <2>1 DEF FrameTo
<1>4. b.last + b.delay <= FrameTime(b) /\ FrameTime(b) \in Int /\ b.delay \in Nat
  BY <1>2, FrameTimeIs DEF FrameTo, Units
<1>5. FrameTime(a) \in Int
  BY FrameTimeIs
<1>6. IF FrameOn(a) /\ FrameTime(a) < end THEN Rings(a, b) ELSE Calm(a, b)
  BY <1>2, <1>3, <1>4, <1>5 DEF FrameTo, Calm, Rings
<1>7. FrameRan(a, b, end)
  BY <1>2, <1>3, <1>6 DEF FrameTo, FrameRan
<1> QED  BY <1>7 DEF b

-----------------------------------------------------------------------------
(* The unit                                                                *)

\* what the unit keeps true of itself
UnitFine(a) ==
    a \in Units /\ DmcFine(a) /\ FrameFine(a) /\ a.last <= a.lastDmc

\* the registers the games write are the same
SameRegisters(a, b) ==
    /\ b.five = a.five /\ b.irqOff = a.irqOff
    /\ b.dmc.irqOn = a.dmc.irqOn /\ b.dmc.loop = a.dmc.loop
    /\ b.dmc.period = a.dmc.period /\ b.dmc.sample = a.dmc.sample

\* b is a when the unit has run up to end
RanTo(a, b, end) ==
    /\ UnitFine(b) /\ SameRegisters(a, b)
    /\ b.last = end /\ b.lastDmc = IF a.lastDmc >= end THEN a.lastDmc ELSE end
    /\ Armed(a) /\ SampleEnd(a) <= end => ~Armed(b) /\ b.dmc.flag /\ b.earliest = 0
    /\ Armed(a) /\ ~(SampleEnd(a) <= end) =>
          Armed(b) /\ SampleEnd(b) = SampleEnd(a) /\ b.dmc.flag = a.dmc.flag
    /\ ~Armed(a) => ~Armed(b) /\ b.dmc.flag = a.dmc.flag
    /\ IF FrameOn(a) /\ FrameTime(a) < end THEN Rings(a, b) ELSE Calm(a, b)
    /\ \/ b.earliest = a.earliest
       \/ b.earliest = IF a.flag \/ b.dmc.flag THEN 0 ELSE Min2(b.dmc.next, a.nextIrq)

\* What the DMC leaves of the frame counter.
LEMMA BesideFrame ==
    ASSUME NEW a, NEW b, Beside(a, b)
    PROVE  /\ (FrameOn(b) <=> FrameOn(a)) /\ FrameTime(b) = FrameTime(a)
           /\ FrameFine(a) => FrameFine(b)
<1>1. (FrameOn(b) <=> FrameOn(a)) /\ FrameTime(b) = FrameTime(a)
  BY DEF Beside, FrameOn, FrameTime
<1>2. b.delay = a.delay /\ b.five = a.five /\ b.frame = a.frame /\ b.nextIrq = a.nextIrq /\ b.last = a.last
  BY DEF Beside
<1> QED  BY <1>1, <1>2 DEF FrameFine

\* What the frame counter leaves of the DMC.
LEMMA AroundDmc ==
    ASSUME NEW a, NEW b, Around(a, b)
    PROVE  /\ (Armed(b) <=> Armed(a)) /\ SampleEnd(b) = SampleEnd(a)
           /\ DmcFine(a) => DmcFine(b)
<1>1. (Armed(b) <=> Armed(a)) /\ SampleEnd(b) = SampleEnd(a)
  BY DEF Around, Armed, SampleEnd
<1>2. DmcRight(a) => DmcRight(b)
  BY DEF Around, DmcRight
<1>3. b.dmc = a.dmc
  BY DEF Around
<1> QED  BY <1>1, <1>2, <1>3 DEF DmcFine

\* run_until_ is the DMC's run and then the frame counter's.
LEMMA RunUntil_Is ==
    ASSUME NEW a \in Units, NEW end \in Int, a.last < end
    PROVE  RunUntil_(a, end) = FrameRun(RunDmc(a, end), end, end - a.last + 1)[end - a.last + 1]
<1>1. ~(end <= a.last)
  BY DEF Units
<1> QED  BY <1>1, Zenon DEF RunUntil_, FrameRun

\* Where the unit runs to.
LEMMA RunUntil_Right ==
    ASSUME NEW a, UnitFine(a), NEW end \in Int, a.last <= end
    PROVE  RanTo(a, RunUntil_(a, end), end)
<1>1. /\ a \in Units /\ DmcFine(a) /\ FrameFine(a) /\ a.last <= a.lastDmc
      /\ a.last \in Int /\ a.lastDmc \in Int /\ a.dmc.delay \in Nat /\ a.delay \in Nat
  BY DEF UnitFine, Units, Dmcs
<1>2. Armed(a) => SampleEnd(a) \in Int /\ SampleEnd(a) > a.lastDmc
  BY <1>1, SampleEndIs
<1>3. FrameTime(a) \in Int /\ a.last <= FrameTime(a)
  BY <1>1, FrameTimeIs
<1>4. CASE a.last = end
  <2>1. RunUntil_(a, end) = a
    BY <1>1, <1>4 DEF RunUntil_
  <2>2. Armed(a) => ~(SampleEnd(a) <= end)
    BY <1>1, <1>2, <1>4
  <2>3. ~(FrameTime(a) < end)
    BY <1>1, <1>3, <1>4
  <2>4. RanTo(a, a, end)
    BY <1>1, <1>4, <2>2, <2>3 DEF RanTo, UnitFine, SameRegisters, Calm
  <2> QED  BY <2>1, <2>4
<1>5. CASE a.last < end
  <2> DEFINE x == RunDmc(a, end)
             b == RunUntil_(a, end)
  <2>1. DmcTo(a, x, end)
    BY <1>1, RunDmcIs
  <2>2. b = FrameRun(x, end, end - a.last + 1)[end - a.last + 1]
    BY <1>1, <1>5, RunUntil_Is
  <2> SUFFICES RanTo(a, b, end)
    OBVIOUS
  <2> HIDE DEF x, b
  <2>3. /\ x \in Units /\ FrameFine(x) /\ x.last = a.last /\ DmcFine(x)
        /\ (FrameOn(x) <=> FrameOn(a)) /\ FrameTime(x) = FrameTime(a)
        /\ x.flag = a.flag /\ x.nextIrq = a.nextIrq
    BY <1>1, <2>1, BesideFrame DEF DmcTo, Beside
  <2>4. FrameRan(x, b, end)
    BY <1>5, <2>2, <2>3, FrameRanIs
  <2>5. (Armed(b) <=> Armed(x)) /\ SampleEnd(b) = SampleEnd(x) /\ DmcFine(b)
    BY <2>3, <2>4, AroundDmc DEF FrameRan
  <2>6. b.last = end /\ b.lastDmc = IF a.lastDmc >= end THEN a.lastDmc ELSE end
    BY <2>1, <2>4 DEF DmcTo, FrameRan, Around
  <2>7. UnitFine(b)
    BY <1>1, <2>4, <2>5, <2>6 DEF FrameRan, UnitFine
  <2>8. SameRegisters(a, b)
    BY <2>1, <2>4 DEF FrameRan, SameRegisters, DmcTo, Beside, Around
  <2>9. IF FrameOn(a) /\ FrameTime(a) < end THEN Rings(a, b) ELSE Calm(a, b)
    BY <2>3, <2>4 DEF FrameRan, Rings, Calm
  <2>10. b.earliest = x.earliest /\ b.dmc = x.dmc
    BY <2>4 DEF FrameRan, Around
  <2>11. Fresh(x) => b.earliest = IF a.flag \/ b.dmc.flag THEN 0 ELSE Min2(b.dmc.next, a.nextIrq)
    BY <2>3, <2>10 DEF Fresh, Line
  <2>12. x.earliest = a.earliest \/ Fresh(x)
    BY <2>1 DEF DmcTo
  <2>13. Armed(a) /\ SampleEnd(a) <= end => ~Armed(b) /\ b.dmc.flag /\ b.earliest = 0
    BY <2>1, <2>5, <2>10, <2>11 DEF DmcTo
  <2>14. Armed(a) /\ ~(SampleEnd(a) <= end) =>
            Armed(b) /\ SampleEnd(b) = SampleEnd(a) /\ b.dmc.flag = a.dmc.flag
    BY <2>1, <2>5, <2>10 DEF DmcTo
  <2>15. ~Armed(a) => ~Armed(b) /\ b.dmc.flag = a.dmc.flag
    BY <2>1, <2>5, <2>10 DEF DmcTo
  <2> QED  BY <2>6, <2>7, <2>8, <2>9, <2>10, <2>11, <2>12, <2>13, <2>14, <2>15 DEF RanTo
<1> QED  BY <1>1, <1>4, <1>5

-----------------------------------------------------------------------------
(* The time announced                                                      *)

\* The announced time promises no interrupt that does not come.
Sound(a) ==
    \/ Line(a) \/ a.earliest = NoIrq
    \/ Armed(a) /\ SampleEnd(a) <= a.earliest
    \/ FrameOn(a) /\ FrameTime(a) < a.earliest

\* the frame counter's own prediction is up to date
Predicted(a) == FrameOn(a) => FrameTime(a) + 2 <= a.nextIrq /\ a.nextIrq <= FrameTime(a) + 3

\* The announced time is early enough for the interrupts to come.
Announced(a) ==
    /\ Predicted(a)
    /\ Armed(a) => a.earliest <= SampleEnd(a)
    /\ FrameOn(a) /\ ~a.flag => a.earliest <= FrameTime(a) + 3

\* b follows a with no line raised that is not announced
Follows(a, b) ==
    /\ Line(b) => b.earliest = 0 \/ (Line(a) /\ b.earliest = a.earliest)
    /\ Announced(a) => Announced(b)

\* the frame counter is the same
SameFrame(a, b) ==
    /\ b.last = a.last /\ b.nextIrq = a.nextIrq /\ b.delay = a.delay /\ b.frame = a.frame
    /\ b.five = a.five /\ b.irqOff = a.irqOff

\* A sample ends before no_irq.
LEMMA SampleEndBelow ==
    ASSUME NEW a, UnitFine(a), a.lastDmc <= 2 * FrameLen, Armed(a)
    PROVE  SampleEnd(a) < NoIrq /\ a.dmc.next = SampleEnd(a)
<1>1. /\ a \in Units /\ a.lastDmc \in Int /\ a.dmc.delay \in Nat /\ a.dmc.len \in Nat
      /\ a.dmc.len > 0 /\ a.dmc.bits \in 1..ByteBits /\ a.dmc.period \in Periods
      /\ a.dmc.period \in Nat
  BY Constants DEF UnitFine, Units, Dmcs, Armed
<1>2. PICK p \in Periods : a.dmc.delay < p
  BY DEF UnitFine, DmcFine
<1>3. PICK n \in Lengths : a.dmc.len <= n
  BY DEF UnitFine, DmcFine, DmcRight
<1> DEFINE m == IF p <= a.dmc.period THEN a.dmc.period ELSE p
           bits == n * ByteBits
           left == BitsLeft(a) - 1
<1>4. /\ m \in Periods /\ m \in Nat /\ a.dmc.period <= m /\ a.dmc.delay + 1 <= m
      /\ n \in Nat /\ ByteBits \in Nat /\ p \in Nat
  BY <1>1, <1>2, <1>3, Constants
<1>5. left \in Nat /\ bits \in Nat /\ left + 1 <= bits
  <2>1. a.dmc.len * ByteBits <= bits
    BY <1>1, <1>3, <1>4, TimesMono
  <2>2. a.dmc.len * ByteBits = (a.dmc.len - 1) * ByteBits + ByteBits
    <3> DEFINE k == a.dmc.len - 1
    <3>1. k \in Nat /\ a.dmc.len = k + 1
      BY <1>1
    <3> HIDE DEF k
    <3>2. (k + 1) * ByteBits = k * ByteBits + ByteBits
      BY <1>4, <3>1
    <3> QED  BY <3>1, <3>2 DEF k
  <2>3. (a.dmc.len - 1) * ByteBits \in Int /\ a.dmc.len * ByteBits \in Int
    <3>1. a.dmc.len - 1 \in Int
      BY <1>1
    <3> QED  BY <1>1, <1>4, <3>1
  <2>4. BitsLeft(a) <= a.dmc.len * ByteBits
    BY <1>1, <1>4, <2>2, <2>3 DEF BitsLeft
  <2>5. BitsLeft(a) - 1 \in Nat /\ BitsLeft(a) \in Nat
    BY <1>1, BitsLeftIs
  <2>6. bits \in Nat
    BY <1>4
  <2> HIDE DEF bits
  <2> QED  BY <2>1, <2>3, <2>4, <2>5, <2>6
<1>6. SampleEnd(a) = a.lastDmc + a.dmc.delay + left * a.dmc.period + 1 /\ left * a.dmc.period \in Nat
  BY <1>1, SampleEndIs
<1>7. NoIrq > 2 * FrameLen + bits * m
  BY <1>4, <1>3, FrameAssumption
<1>8. (left + 1) * m <= bits * m /\ (left + 1) * m = left * m + m /\ left * a.dmc.period <= left * m
  <2> HIDE DEF left, bits, m
  <2>1. left + 1 \in Nat
    BY <1>5
  <2>2. (left + 1) * m <= bits * m
    BY <1>4, <1>5, <2>1, TimesMono
  <2>3. (left + 1) * m = left * m + m
    BY <1>4, <1>5
  <2>4. left * a.dmc.period = a.dmc.period * left /\ left * m = m * left
    BY <1>1, <1>4, <1>5
  <2>5. a.dmc.period * left <= m * left
    BY <1>1, <1>4, <1>5, TimesMono
  <2> QED  BY <2>2, <2>3, <2>4, <2>5
<1>9. left * m \in Nat /\ bits * m \in Nat
  <2> HIDE DEF left, bits, m
  <2> QED  BY <1>4, <1>5
<1>10. SampleEnd(a) < NoIrq
  <2> HIDE DEF left, bits, m
  <2> QED  BY <1>1, <1>4, <1>5, <1>6, <1>7, <1>8, <1>9, Constants
<1> QED  BY <1>10 DEF UnitFine, DmcFine

\* What irq_changed announces is sound, and early enough where the frame
\* counter's prediction is up to date.
LEMMA FreshFollows ==
    ASSUME NEW a, UnitFine(a), 0 <= a.last, Fresh(a)
    PROVE  /\ Sound(a)
           /\ Line(a) => a.earliest = 0
           /\ Predicted(a) => Announced(a)
<1>1. /\ a.last \in Int /\ a.lastDmc \in Int /\ a.delay \in Nat /\ a.dmc.delay \in Nat
      /\ a.nextIrq \in Int /\ a.dmc.next \in Int /\ a \in Units /\ a.last <= a.lastDmc
  BY DEF UnitFine, Units, Dmcs
<1>2. Armed(a) => SampleEnd(a) \in Int /\ SampleEnd(a) > 0 /\ a.dmc.next = SampleEnd(a)
  BY <1>1, SampleEndIs DEF UnitFine, DmcFine
<1>3. ~Armed(a) => a.dmc.next = NoIrq
  BY DEF UnitFine, DmcFine
<1>4. FrameTime(a) \in Int /\ FrameTime(a) >= 0
  BY <1>1, FrameTimeIs
<1>5. /\ FrameOn(a) => FrameTime(a) + 1 <= a.nextIrq
      /\ ~FrameOn(a) => a.nextIrq = NoIrq
  BY DEF UnitFine, FrameFine
<1>6. Line(a) => a.earliest = 0
  BY DEF Fresh
<1>7. ~Line(a) => /\ a.earliest = a.dmc.next \/ a.earliest = a.nextIrq
                  /\ a.earliest <= a.dmc.next /\ a.earliest <= a.nextIrq
  BY <1>1 DEF Fresh, Min2
<1>8. Sound(a)
  BY <1>1, <1>2, <1>3, <1>4, <1>5, <1>7 DEF Sound
<1>9. Predicted(a) => Announced(a)
  BY <1>1, <1>2, <1>4, <1>6, <1>7 DEF Announced, Predicted
<1> QED  BY <1>6, <1>8, <1>9

\* Where the announced time and what it is computed from stay the same, so
\* does what it promises.
LEMMA SteadyFollows ==
    ASSUME NEW a, NEW b, UnitFine(a), UnitFine(b), a.lastDmc <= 2 * FrameLen,
           b.lastDmc <= 2 * FrameLen, SameFrame(a, b), b.flag = a.flag,
           b.earliest = a.earliest, b.dmc.next = a.dmc.next, b.dmc.flag => a.dmc.flag
    PROVE  /\ Follows(a, b)
           /\ b.dmc.flag = a.dmc.flag => (Sound(b) <=> Sound(a))
<1>1. (FrameOn(b) <=> FrameOn(a)) /\ FrameTime(b) = FrameTime(a)
  BY DEF SameFrame, FrameOn, FrameTime
<1>2. (Armed(a) => SampleEnd(a) < NoIrq /\ a.dmc.next = SampleEnd(a)) /\ (~Armed(a) => a.dmc.next = NoIrq)
  BY SampleEndBelow DEF UnitFine, DmcFine
<1>3. (Armed(b) => SampleEnd(b) < NoIrq /\ b.dmc.next = SampleEnd(b)) /\ (~Armed(b) => b.dmc.next = NoIrq)
  BY SampleEndBelow DEF UnitFine, DmcFine
<1>4. (Armed(b) <=> Armed(a)) /\ (Armed(a) => SampleEnd(b) = SampleEnd(a))
  BY <1>2, <1>3, Constants
<1>5. Follows(a, b)
  BY <1>1, <1>4 DEF Follows, Line, Announced, Predicted, SameFrame
<1>6. b.dmc.flag = a.dmc.flag => (Sound(b) <=> Sound(a))
  BY <1>1, <1>4 DEF Sound, Line
<1> QED  BY <1>5, <1>6

-----------------------------------------------------------------------------
(* Register writes                                                         *)

\* all that UnitFine asks but for the time of the DMC's next interrupt
Readied(a) ==
    /\ a \in Units /\ DmcRight(a) /\ FrameFine(a) /\ a.last <= a.lastDmc
    /\ \E p \in Periods : a.dmc.delay < p

\* b is a where the sample and the DMC's clock are the same
SameSample(a, b) ==
    /\ b.lastDmc = a.lastDmc /\ b.dmc.delay = a.dmc.delay /\ b.dmc.len = a.dmc.len
    /\ b.dmc.bits = a.dmc.bits /\ b.dmc.full = a.dmc.full /\ b.dmc.on = a.dmc.on

\* b is a where only the DMC's next interrupt has been computed
IsTimed(a, b, next) == b = [a EXCEPT !.dmc.next = next]

\* Storing the time of the DMC's next interrupt touches nothing else.
LEMMA Timed ==
    ASSUME NEW a \in Units, NEW next \in Int, NEW b, IsTimed(a, b, next)
    PROVE  /\ b \in Units /\ Beside(a, b) /\ SameSample(a, b)
           /\ b.dmc.next = next /\ b.dmc.flag = a.dmc.flag /\ b.earliest = a.earliest
<1> DEFINE d == [a.dmc EXCEPT !.next = next]
<1>1. b = [a EXCEPT !.dmc = d]
  BY DEF Units, IsTimed
<1>2. d \in Dmcs
  BY DEF Units, Dmcs
<1>3. b \in Units
  <2> HIDE DEF d
  <2> QED  BY <1>1, <1>2 DEF Units
<1>4. /\ Beside(a, b) /\ SameSample(a, b)
      /\ b.dmc.next = next /\ b.dmc.flag = a.dmc.flag /\ b.earliest = a.earliest
  BY <1>1 DEF Units, Dmcs, Beside, SameSample
<1> QED  BY <1>3, <1>4

\* A sample and registers that are the same end at the same time.
LEMMA SameEnd ==
    ASSUME NEW a, NEW b, SameSample(a, b), Beside(a, b)
    PROVE  /\ (Armed(b) <=> Armed(a)) /\ SampleEnd(b) = SampleEnd(a) /\ SameFrame(a, b)
           /\ (DmcRight(a) /\ b.dmc.flag = a.dmc.flag => DmcRight(b))
           /\ FrameFine(a) => FrameFine(b)
<1>1. (Armed(b) <=> Armed(a)) /\ SampleEnd(b) = SampleEnd(a)
  BY DEF SameSample, Beside, Armed, SampleEnd
<1>2. DmcRight(a) /\ b.dmc.flag = a.dmc.flag => DmcRight(b)
  BY DEF SameSample, Beside, DmcRight
<1>3. SameFrame(a, b)
  BY DEF SameFrame, Beside
<1> QED  BY <1>1, <1>2, <1>3, BesideFrame

\* recalc_irq stores when the sample ends, and announces it if that is news.
LEMMA RecalcIs ==
    ASSUME NEW a, Readied(a)
    PROVE  LET b == RecalcIrq(a)
           IN  /\ UnitFine(b) /\ Beside(a, b) /\ SameSample(a, b) /\ SameFrame(a, b)
               /\ b.dmc.flag = a.dmc.flag /\ (b = a \/ Fresh(b))
<1> DEFINE irq == IF a.dmc.irqOn /\ a.dmc.len > 0 THEN SampleEnd(a) ELSE NoIrq
           b == RecalcIrq(a)
<1>1. a \in Units
  BY DEF Readied
<1>2. irq = (IF Armed(a) THEN SampleEnd(a) ELSE NoIrq) /\ irq \in Int
  BY <1>1, SampleEndIs, Constants DEF Armed
<1>3. CASE irq = a.dmc.next
  <2>1. b = a
    BY <1>3 DEF RecalcIrq
  <2>2. UnitFine(a)
    BY <1>2, <1>3 DEF Readied, UnitFine, DmcFine
  <2>3. Beside(a, a) /\ SameSample(a, a) /\ SameFrame(a, a)
    BY DEF Beside, SameSample, SameFrame
  <2> HIDE DEF b
  <2>4. UnitFine(b) /\ Beside(a, b) /\ SameSample(a, b) /\ SameFrame(a, b) /\ b.dmc.flag = a.dmc.flag
    BY <2>1, <2>2, <2>3
  <2> QED  BY <2>1, <2>4 DEF b
<1>4. CASE irq # a.dmc.next
  <2> DEFINE x == [a EXCEPT !.dmc.next = irq]
  <2>1. b = IrqChanged(x)
    BY <1>4 DEF RecalcIrq
  <2>2. IsTimed(a, x, irq)
    BY DEF IsTimed
  <2> HIDE DEF b, x, irq
  <2>3. /\ x \in Units /\ Beside(a, x) /\ SameSample(a, x)
        /\ x.dmc.next = irq /\ x.dmc.flag = a.dmc.flag /\ x.earliest = a.earliest
    BY <1>1, <1>2, <2>2, Timed
  <2>4. b \in Units /\ Fresh(b) /\ b.dmc = x.dmc /\ b.lastDmc = x.lastDmc /\ Beside(x, b)
    BY <2>1, <2>3, IrqChangedIs
  <2>5. Beside(a, b) /\ SameSample(a, b) /\ b.dmc.flag = a.dmc.flag /\ b.dmc.next = irq
    BY <2>3, <2>4 DEF Beside, SameSample
  <2>6. /\ (Armed(b) <=> Armed(a)) /\ SampleEnd(b) = SampleEnd(a) /\ SameFrame(a, b)
        /\ DmcRight(b) /\ FrameFine(b)
    BY <2>5, SameEnd DEF Readied
  <2>7. DmcFine(b)
    BY <1>2, <2>5, <2>6 DEF DmcFine, Readied, SameSample
  <2>8. b.last <= b.lastDmc
    BY <2>5 DEF Readied, Beside, SameSample
  <2>9. UnitFine(b)
    BY <2>4, <2>6, <2>7, <2>8 DEF UnitFine
  <2> QED  BY <2>4, <2>5, <2>6, <2>9 DEF b
<1> QED  BY <1>3, <1>4

\* b is a register write at a's time: what the announced time promises holds
\* on, and the line is not raised unannounced
Wrote(a, b) ==
    /\ UnitFine(b) /\ b.last = a.last /\ b.lastDmc = a.lastDmc /\ Follows(a, b)
    /\ Sound(b) \/ (~Sound(a) /\ b.earliest = a.earliest)
    /\ Fresh(a) => Fresh(b)

\* A write after which the announced time is computed, or all of it is as it was.
LEMMA WroteIs ==
    ASSUME NEW a, NEW b, UnitFine(a), UnitFine(b), 0 <= a.last, a.lastDmc <= 2 * FrameLen,
           b.lastDmc = a.lastDmc, SameFrame(a, b),
           \/ Fresh(b)
           \/ /\ b.flag = a.flag /\ b.earliest = a.earliest /\ b.dmc.next = a.dmc.next
              /\ b.dmc.flag = a.dmc.flag
    PROVE  Wrote(a, b)
<1>1. b.last = a.last
  BY DEF SameFrame
<1>2. CASE Fresh(b)
  <2>1. Sound(b) /\ (Line(b) => b.earliest = 0) /\ (Predicted(b) => Announced(b))
    BY <1>1, <1>2, FreshFollows
  <2>2. Predicted(a) => Predicted(b)
    BY DEF SameFrame, Predicted, FrameOn, FrameTime
  <2> QED  BY <1>1, <1>2, <2>1, <2>2 DEF Wrote, Follows, Announced
<1>3. CASE /\ b.flag = a.flag /\ b.earliest = a.earliest /\ b.dmc.next = a.dmc.next
           /\ b.dmc.flag = a.dmc.flag
  <2>1. Follows(a, b) /\ (Sound(b) <=> Sound(a))
    BY <1>3, SteadyFollows
  <2>2. Fresh(a) => Fresh(b)
    BY <1>3 DEF Fresh, Line, SameFrame
  <2> QED  BY <1>1, <1>3, <2>1, <2>2 DEF Wrote
<1> QED  BY <1>2, <1>3

\* What a $4010 write does.
LEMMA Put4010Is ==
    ASSUME NEW a, UnitFine(a), 0 <= a.last, a.lastDmc <= 2 * FrameLen,
           NEW irqOn \in BOOLEAN, NEW loop \in BOOLEAN, ~(irqOn /\ loop), NEW period \in Periods
    PROVE  LET b == Put4010(a, irqOn, loop, period)
           IN  /\ UnitFine(b) /\ SameFrame(a, b) /\ SameSample(a, b) /\ b.flag = a.flag
               /\ b.dmc.irqOn = irqOn /\ b.dmc.loop = loop /\ b.dmc.period = period
               /\ b.dmc.sample = a.dmc.sample /\ b.dmc.flag = (a.dmc.flag /\ irqOn)
               /\ Follows(a, b)
               /\ ~(a.dmc.flag /\ ~irqOn) => Wrote(a, b)
<1> DEFINE flag == a.dmc.flag /\ irqOn
           x == [a EXCEPT !.dmc.irqOn = irqOn, !.dmc.loop = loop, !.dmc.period = period,
                          !.dmc.flag = @ /\ irqOn]
           d == [a.dmc EXCEPT !.irqOn = irqOn, !.loop = loop, !.period = period, !.flag = flag]
           b == Put4010(a, irqOn, loop, period)
<1>1. a \in Units /\ DmcFine(a) /\ DmcRight(a) /\ FrameFine(a) /\ a.last <= a.lastDmc
  BY DEF UnitFine, DmcFine
<1>2. b = RecalcIrq(x)
  BY DEF Put4010
<1>3. x = [a EXCEPT !.dmc = d]
  BY <1>1 DEF Units
<1>4. d \in Dmcs
  <2>1. a.dmc \in Dmcs
    BY <1>1 DEF Units
  <2>2. flag \in BOOLEAN
    OBVIOUS
  <2> HIDE DEF flag
  <2> QED  BY <2>1, <2>2 DEF Dmcs
<1> HIDE DEF x, b
<1>5. x \in Units
  <2> HIDE DEF d
  <2> QED  BY <1>1, <1>3, <1>4 DEF Units
<1>6. /\ SameFrame(a, x) /\ SameSample(a, x) /\ x.flag = a.flag
      /\ x.dmc.irqOn = irqOn /\ x.dmc.loop = loop /\ x.dmc.period = period
      /\ x.dmc.sample = a.dmc.sample /\ x.dmc.flag = (a.dmc.flag /\ irqOn)
      /\ x.earliest = a.earliest /\ x.dmc.next = a.dmc.next
  <2>1. a.dmc \in Dmcs
    BY <1>1 DEF Units
  <2>2. x.dmc = d
    BY <1>1, <1>3 DEF Units
  <2>3. SameFrame(a, x) /\ x.flag = a.flag /\ x.earliest = a.earliest /\ x.lastDmc = a.lastDmc
    <3> HIDE DEF d
    <3> QED  BY <1>1, <1>3 DEF Units, SameFrame
  <2>4. /\ d.irqOn = irqOn /\ d.loop = loop /\ d.period = period /\ d.flag = flag
        /\ d.sample = a.dmc.sample /\ d.next = a.dmc.next /\ d.delay = a.dmc.delay
        /\ d.len = a.dmc.len /\ d.bits = a.dmc.bits /\ d.full = a.dmc.full /\ d.on = a.dmc.on
    BY <2>1 DEF Dmcs
  <2> HIDE DEF d
  <2> QED  BY <2>2, <2>3, <2>4 DEF SameSample
<1>7. DmcRight(x)
  BY <1>1, <1>6 DEF DmcRight, SameSample
<1>8. FrameFine(x)
  <2>1. (FrameOn(x) <=> FrameOn(a)) /\ FrameTime(x) = FrameTime(a)
    BY <1>6 DEF SameFrame, FrameOn, FrameTime
  <2> QED  BY <1>1, <1>6, <2>1 DEF FrameFine, SameFrame
<1>9. Readied(x)
  BY <1>1, <1>5, <1>6, <1>7, <1>8 DEF Readied, DmcFine, SameSample, SameFrame
<1>10. /\ UnitFine(b) /\ Beside(x, b) /\ SameSample(x, b) /\ SameFrame(x, b)
       /\ b.dmc.flag = x.dmc.flag /\ (b = x \/ Fresh(b))
  BY <1>2, <1>9, RecalcIs
<1>11. /\ SameFrame(a, b) /\ SameSample(a, b) /\ b.flag = a.flag
       /\ b.dmc.irqOn = irqOn /\ b.dmc.loop = loop /\ b.dmc.period = period
       /\ b.dmc.sample = a.dmc.sample /\ b.dmc.flag = (a.dmc.flag /\ irqOn)
  BY <1>6, <1>10 DEF SameFrame, SameSample, Beside
<1>12. b.lastDmc = a.lastDmc
  BY <1>11 DEF SameSample
<1>13. ~(a.dmc.flag /\ ~irqOn) => Wrote(a, b)
  <2>1. a.dmc.flag \in BOOLEAN
    BY <1>1 DEF Units, Dmcs
  <2>2. ~(a.dmc.flag /\ ~irqOn) => b.dmc.flag = a.dmc.flag
    BY <1>11, <2>1
  <2> QED  BY <1>6, <1>10, <1>11, <1>12, <2>2, WroteIs
<1>14. Follows(a, b)
  <2>1. CASE Fresh(b)
    BY <1>10, <1>11, <1>12, <2>1, WroteIs DEF Wrote
  <2>2. CASE b = x
    <3>1. b.earliest = a.earliest /\ b.dmc.next = a.dmc.next
      BY <1>6, <2>2
    <3>2. b.dmc.flag => a.dmc.flag
      BY <1>11
    <3> QED  BY <1>10, <1>11, <1>12, <3>1, <3>2, SteadyFollows
  <2> QED  BY <1>10, <2>1, <2>2
<1> QED  BY <1>10, <1>11, <1>13, <1>14 DEF b

\* irq_changed keeps what the unit keeps true of itself.
LEMMA ChangedFine ==
    ASSUME NEW a, UnitFine(a)
    PROVE  LET b == IrqChanged(a)
           IN  /\ UnitFine(b) /\ Fresh(b) /\ SameFrame(a, b) /\ b.flag = a.flag
               /\ b.lastDmc = a.lastDmc /\ b.dmc = a.dmc
<1> DEFINE b == IrqChanged(a)
<1>1. b \in Units /\ Fresh(b) /\ b.dmc = a.dmc /\ b.lastDmc = a.lastDmc /\ Beside(a, b)
  BY IrqChangedIs DEF UnitFine
<1> HIDE DEF b
<1>2. SameSample(a, b)
  BY <1>1 DEF SameSample
<1>3. (Armed(b) <=> Armed(a)) /\ SampleEnd(b) = SampleEnd(a) /\ SameFrame(a, b) /\ DmcRight(b) /\ FrameFine(b)
  BY <1>1, <1>2, SameEnd DEF UnitFine, DmcFine
<1>4. DmcFine(b) /\ b.last <= b.lastDmc /\ b.flag = a.flag
  BY <1>1, <1>3 DEF DmcFine, UnitFine, Beside
<1> QED  BY <1>1, <1>3, <1>4 DEF UnitFine, b

\* b is a where only the length of the sample has changed
IsLong(a, b, n) == b = [a EXCEPT !.dmc.len = n]

\* Starting a sample touches its length alone.
LEMMA Lengthened ==
    ASSUME NEW a \in Units, NEW n \in Nat, NEW b, IsLong(a, b, n)
    PROVE  /\ b \in Units /\ Beside(a, b) /\ b.lastDmc = a.lastDmc
           /\ b.dmc.delay = a.dmc.delay /\ b.dmc.len = n /\ b.dmc.full = a.dmc.full
           /\ b.dmc.flag = a.dmc.flag /\ b.dmc.next = a.dmc.next /\ b.earliest = a.earliest
<1> DEFINE d == [a.dmc EXCEPT !.len = n]
<1>1. b = [a EXCEPT !.dmc = d]
  BY DEF Units, IsLong
<1>2. d \in Dmcs
  BY DEF Units, Dmcs
<1>3. b \in Units
  <2> HIDE DEF d
  <2> QED  BY <1>1, <1>2 DEF Units
<1>4. /\ Beside(a, b) /\ b.lastDmc = a.lastDmc
      /\ b.dmc.delay = a.dmc.delay /\ b.dmc.len = n /\ b.dmc.full = a.dmc.full
      /\ b.dmc.flag = a.dmc.flag /\ b.dmc.next = a.dmc.next /\ b.earliest = a.earliest
  BY <1>1 DEF Units, Dmcs, Beside
<1> QED  BY <1>3, <1>4

\* What starting the sample does to a DMC without an interrupt.
LEMMA StartIs ==
    ASSUME NEW a, Readied(a), ~a.dmc.flag
    PROVE  LET b == StartDmc(a)
           IN  /\ UnitFine(b) /\ Beside(a, b) /\ SameFrame(a, b) /\ b.lastDmc = a.lastDmc
               /\ \/ Fresh(b)
                  \/ ~b.dmc.flag /\ b.dmc.next = a.dmc.next /\ b.earliest = a.earliest
<1> DEFINE y == [a EXCEPT !.dmc.len = a.dmc.sample]
           z == FillBuffer(y)
           b == StartDmc(a)
<1>1. a \in Units /\ a.dmc.sample \in Lengths /\ a.dmc.sample \in Nat /\ a.dmc.sample > 0
  BY Constants DEF Readied, Units, Dmcs
<1>2. b = RecalcIrq(z) /\ IsLong(a, y, a.dmc.sample)
  BY DEF StartDmc, IsLong
<1> HIDE DEF y
<1>3. /\ y \in Units /\ Beside(a, y) /\ y.lastDmc = a.lastDmc
      /\ y.dmc.delay = a.dmc.delay /\ y.dmc.len = a.dmc.sample /\ y.dmc.full = a.dmc.full
      /\ y.dmc.flag = a.dmc.flag /\ y.dmc.next = a.dmc.next /\ y.earliest = a.earliest
  BY <1>1, <1>2, Lengthened
<1>4. FilledTo(y, z)
  BY <1>3, FillBufferIs
<1> HIDE DEF z, b
<1>5. z \in Units /\ Beside(a, z) /\ z.lastDmc = a.lastDmc /\ z.dmc.delay = a.dmc.delay
  BY <1>3, <1>4 DEF FilledTo, Beside
<1>6. /\ z.dmc.len > 0 => z.dmc.full
      /\ z.dmc.len <= a.dmc.sample
      /\ z.dmc.flag => z.dmc.irqOn
      /\ Fresh(z) \/ (~z.dmc.flag /\ z.dmc.next = a.dmc.next /\ z.earliest = a.earliest)
  <2>1. CASE a.dmc.full
    <3>1. z = y
      BY <1>3, <1>4, <2>1 DEF FilledTo
    <3>2. /\ z.dmc.len = a.dmc.sample /\ z.dmc.full = a.dmc.full /\ z.dmc.flag = a.dmc.flag
          /\ z.dmc.next = a.dmc.next /\ z.earliest = a.earliest
      BY <1>3, <3>1
    <3> QED  BY <1>1, <2>1, <3>2
  <2>2. CASE ~a.dmc.full /\ a.dmc.sample > 1
    <3>1. /\ z.dmc.full /\ z.dmc.len = a.dmc.sample - 1
          /\ z.dmc.flag = a.dmc.flag /\ z.dmc.next = a.dmc.next /\ z.earliest = a.earliest
      BY <1>3, <1>4, <2>2 DEF FilledTo
    <3> QED  BY <1>1, <3>1
  <2>3. CASE ~a.dmc.full /\ a.dmc.sample = 1 /\ y.dmc.loop
    <3>1. /\ z.dmc.full /\ z.dmc.len = y.dmc.sample
          /\ z.dmc.flag = a.dmc.flag /\ z.dmc.next = a.dmc.next /\ z.earliest = a.earliest
      BY <1>3, <1>4, <2>3 DEF FilledTo
    <3>2. y.dmc.sample = a.dmc.sample
      BY <1>3 DEF Beside
    <3> QED  BY <1>1, <3>1, <3>2
  <2>4. CASE ~a.dmc.full /\ a.dmc.sample = 1 /\ ~y.dmc.loop
    <3>1. z.dmc.full /\ z.dmc.len = 0 /\ z.dmc.flag = y.dmc.irqOn /\ Fresh(z)
      BY <1>3, <1>4, <2>4 DEF FilledTo
    <3>2. z.dmc.irqOn = y.dmc.irqOn
      BY <1>4 DEF FilledTo, Beside
    <3> QED  BY <1>1, <3>1, <3>2
  <2> QED  BY <1>1, <2>1, <2>2, <2>3, <2>4
<1>7. Readied(z)
  <2>1. DmcRight(z)
    BY <1>1, <1>5, <1>6 DEF DmcRight, Beside, Readied
  <2>2. FrameFine(z)
    BY <1>5, BesideFrame DEF Readied
  <2>3. z.last <= z.lastDmc
    BY <1>5 DEF Readied, Beside
  <2> QED  BY <1>5, <2>1, <2>2, <2>3 DEF Readied
<1>8. /\ UnitFine(b) /\ Beside(z, b) /\ SameSample(z, b) /\ SameFrame(z, b)
      /\ b.dmc.flag = z.dmc.flag /\ (b = z \/ Fresh(b))
  BY <1>2, <1>7, RecalcIs
<1>9. Beside(a, b) /\ SameFrame(a, b) /\ b.lastDmc = a.lastDmc
  BY <1>5, <1>8 DEF Beside, SameFrame, SameSample
<1> QED  BY <1>6, <1>8, <1>9 DEF b

\* What a $4015 write does.
LEMMA Put4015Is ==
    ASSUME NEW a, UnitFine(a), 0 <= a.last, a.lastDmc <= 2 * FrameLen, NEW on \in BOOLEAN
    PROVE  LET b == Put4015(a, on)
           IN  /\ UnitFine(b) /\ Beside(a, b) /\ SameFrame(a, b) /\ b.lastDmc = a.lastDmc
               /\ Wrote(a, b) /\ (~on => b.dmc.len = 0)
<1> DEFINE d == [a.dmc EXCEPT !.on = on, !.len = IF on THEN @ ELSE 0, !.flag = FALSE]
           c == [Enabled(a, on) EXCEPT !.dmc.flag = FALSE]
           b == Put4015(a, on)
<1>1. /\ a \in Units /\ DmcFine(a) /\ DmcRight(a) /\ FrameFine(a) /\ a.last <= a.lastDmc
      /\ a.dmc \in Dmcs /\ a.dmc.flag \in BOOLEAN
  BY DEF UnitFine, DmcFine, Units, Dmcs
<1>2. c = [a EXCEPT !.dmc = d]
  BY <1>1 DEF Enabled, Units, Dmcs
<1>3. d \in Dmcs
  <2> DEFINE len == IF on THEN a.dmc.len ELSE 0
  <2>1. len \in Nat
    BY <1>1 DEF Dmcs
  <2>2. d = [a.dmc EXCEPT !.on = on, !.len = len, !.flag = FALSE]
    OBVIOUS
  <2> HIDE DEF len, d
  <2> QED  BY <1>1, <2>1, <2>2 DEF Dmcs
<1>4. b = LET recalc == a.dmc.flag \/ ~on
              set    == IF ~on THEN [c EXCEPT !.dmc.next = NoIrq]
                        ELSE IF ~a.dmc.on THEN StartDmc(c) ELSE c
          IN  IF recalc THEN IrqChanged(set) ELSE set
  BY DEF Put4015
<1> HIDE DEF c, b
<1>5. c \in Units
  <2> HIDE DEF d
  <2> QED  BY <1>1, <1>2, <1>3 DEF Units
<1>6. /\ Beside(a, c) /\ SameFrame(a, c) /\ c.lastDmc = a.lastDmc /\ c.dmc.delay = a.dmc.delay
      /\ c.dmc.len = (IF on THEN a.dmc.len ELSE 0) /\ c.dmc.bits = a.dmc.bits
      /\ c.dmc.full = a.dmc.full /\ ~c.dmc.flag
      /\ c.dmc.next = a.dmc.next /\ c.earliest = a.earliest
  <2>1. /\ d.irqOn = a.dmc.irqOn /\ d.loop = a.dmc.loop /\ d.period = a.dmc.period
        /\ d.sample = a.dmc.sample /\ d.delay = a.dmc.delay /\ d.bits = a.dmc.bits
        /\ d.len = (IF on THEN a.dmc.len ELSE 0) /\ d.full = a.dmc.full /\ ~d.flag
        /\ d.next = a.dmc.next
    BY <1>1 DEF Dmcs
  <2> HIDE DEF d
  <2>2. /\ c.dmc = d /\ c.last = a.last /\ c.nextIrq = a.nextIrq /\ c.delay = a.delay
        /\ c.frame = a.frame /\ c.five = a.five /\ c.irqOff = a.irqOff /\ c.flag = a.flag
        /\ c.lastDmc = a.lastDmc /\ c.earliest = a.earliest
    BY <1>1, <1>2 DEF Units
  <2> QED  BY <2>1, <2>2 DEF Beside, SameFrame
<1>7. Readied(c)
  <2>1. DmcRight(c)
    <3>1. a.dmc.len \in Nat
      BY <1>1 DEF Dmcs
    <3> QED  BY <1>1, <1>6, <3>1, Constants DEF DmcRight, Beside
  <2>2. FrameFine(c)
    BY <1>1, <1>6, BesideFrame
  <2> QED  BY <1>1, <1>5, <1>6, <2>1, <2>2 DEF Readied, DmcFine, SameFrame
<1>8. CASE ~on
  <2> DEFINE set == [c EXCEPT !.dmc.next = NoIrq]
  <2>1. b = IrqChanged(set) /\ IsTimed(c, set, NoIrq)
    BY <1>4, <1>8 DEF IsTimed
  <2> HIDE DEF set
  <2>2. /\ set \in Units /\ Beside(c, set) /\ SameSample(c, set)
        /\ set.dmc.next = NoIrq /\ set.dmc.flag = c.dmc.flag /\ set.earliest = c.earliest
    BY <1>5, <2>1, Timed, Constants
  <2>3. SameFrame(c, set) /\ DmcRight(set) /\ FrameFine(set)
    BY <1>7, <2>2, SameEnd DEF Readied
  <2>4. ~Armed(set) /\ set.dmc.len = 0 /\ set.lastDmc = c.lastDmc /\ set.dmc.delay = c.dmc.delay
    BY <1>6, <1>8, <2>2 DEF Armed, SameSample
  <2>5. UnitFine(set)
    BY <1>7, <2>2, <2>3, <2>4 DEF UnitFine, DmcFine, Readied, SameFrame
  <2>6. /\ UnitFine(b) /\ Fresh(b) /\ SameFrame(set, b) /\ b.flag = set.flag
        /\ b.lastDmc = set.lastDmc /\ b.dmc = set.dmc
    BY <2>1, <2>5, ChangedFine
  <2>7. Beside(a, b) /\ SameFrame(a, b) /\ b.lastDmc = a.lastDmc
    BY <1>6, <2>2, <2>3, <2>4, <2>6 DEF Beside, SameFrame
  <2>8. Wrote(a, b)
    BY <2>6, <2>7, WroteIs
  <2> QED  BY <2>4, <2>6, <2>7, <2>8 DEF b
<1>9. CASE on
  <2> DEFINE set == IF ~a.dmc.on THEN StartDmc(c) ELSE c
  <2>1. b = IF a.dmc.flag THEN IrqChanged(set) ELSE set
    BY <1>4, <1>9
  <2>2. /\ UnitFine(set) /\ Beside(a, set) /\ SameFrame(a, set) /\ set.lastDmc = a.lastDmc
        /\ \/ Fresh(set)
           \/ ~set.dmc.flag /\ set.dmc.next = a.dmc.next /\ set.earliest = a.earliest
    <3>1. CASE ~a.dmc.on
      <4> DEFINE w == StartDmc(c)
      <4>1. /\ UnitFine(w) /\ Beside(c, w) /\ SameFrame(c, w) /\ w.lastDmc = c.lastDmc
            /\ \/ Fresh(w)
               \/ ~w.dmc.flag /\ w.dmc.next = c.dmc.next /\ w.earliest = c.earliest
        BY <1>6, <1>7, StartIs
      <4> HIDE DEF w
      <4>2. /\ UnitFine(w) /\ Beside(a, w) /\ SameFrame(a, w) /\ w.lastDmc = a.lastDmc
            /\ \/ Fresh(w)
               \/ ~w.dmc.flag /\ w.dmc.next = a.dmc.next /\ w.earliest = a.earliest
        BY <1>6, <4>1 DEF Beside, SameFrame
      <4> QED  BY <3>1, <4>2 DEF w
    <3>2. CASE a.dmc.on
      <4>2. (Armed(c) <=> Armed(a)) /\ SampleEnd(c) = SampleEnd(a)
        BY <1>6, <1>9 DEF Armed, SampleEnd, Beside
      <4>3. UnitFine(c)
        BY <1>1, <1>6, <1>7, <4>2 DEF Readied, UnitFine, DmcFine
      <4> QED  BY <1>6, <3>2, <4>3
    <3> QED  BY <3>1, <3>2
  <2> HIDE DEF set
  <2>3. CASE a.dmc.flag
    <3>1. b = IrqChanged(set)
      BY <2>1, <2>3
    <3>2. /\ UnitFine(b) /\ Fresh(b) /\ SameFrame(set, b) /\ b.flag = set.flag
          /\ b.lastDmc = set.lastDmc /\ b.dmc = set.dmc
      BY <2>2, <3>1, ChangedFine
    <3>3. Beside(a, b) /\ SameFrame(a, b) /\ b.lastDmc = a.lastDmc
      BY <2>2, <3>2 DEF Beside, SameFrame
    <3>4. Wrote(a, b)
      BY <3>2, <3>3, WroteIs
    <3> QED  BY <1>9, <3>2, <3>3, <3>4 DEF b
  <2>4. CASE ~a.dmc.flag
    <3>1. b = set
      BY <2>1, <2>4
    <3>2. set.flag = a.flag /\ set.dmc.flag \in BOOLEAN
      BY <2>2 DEF Beside, UnitFine, Units, Dmcs
    <3>3. Wrote(a, set)
      <4>1. CASE Fresh(set)
        BY <2>2, <4>1, WroteIs
      <4>2. CASE ~set.dmc.flag /\ set.dmc.next = a.dmc.next /\ set.earliest = a.earliest
        <5>1. set.dmc.flag = a.dmc.flag
          BY <1>1, <2>4, <3>2, <4>2
        <5> QED  BY <2>2, <3>2, <4>2, <5>1, WroteIs
      <4> QED  BY <2>2, <4>1, <4>2
    <3> QED  BY <1>9, <2>2, <3>1, <3>3 DEF b
  <2> QED  BY <1>1, <2>3, <2>4
<1> QED  BY <1>8, <1>9

\* What a $4017 write does.
LEMMA Put4017Is ==
    ASSUME NEW a \in Units, DmcFine(a), a.last <= a.lastDmc, 0 <= a.last,
           NEW five \in BOOLEAN, NEW irqOff \in BOOLEAN
    PROVE  LET b == Put4017(a, five, irqOff, a.last)
           IN  /\ UnitFine(b) /\ b.last = a.last /\ b.lastDmc = a.lastDmc /\ b.dmc = a.dmc
               /\ b.five = five /\ b.irqOff = irqOff /\ b.flag = (a.flag /\ ~irqOff)
               /\ Sound(b) /\ (Line(b) => b.earliest = 0) /\ Announced(b) /\ Fresh(b)
               /\ FrameOn(b) => /\ b.last + 4 * FramePeriod <= b.nextIrq
                                /\ b.nextIrq <= b.last + 4 * FramePeriod + 1
<1> DEFINE b == Put4017(a, five, irqOff, a.last)
           delay == IF five THEN a.delay % 2 ELSE (a.delay % 2) + FramePeriod
           flag == a.flag /\ ~irqOff
           frame == IF five THEN 0 ELSE 1
           next == IF five \/ irqOff THEN NoIrq ELSE a.last + delay + 3 * FramePeriod
           x == [a EXCEPT !.five = five, !.irqOff = irqOff, !.flag = flag, !.frame = frame,
                          !.delay = delay, !.nextIrq = next]
<1>1. b = IrqChanged(x)
  BY DEF Put4017
<1>2. a.last \in Int /\ a.delay \in Nat /\ a.delay % 2 \in 0..1
  BY DEF Units
<1>3. delay \in Nat /\ frame \in 0..3 /\ flag \in BOOLEAN /\ next \in Int
  BY <1>2, Constants
<1>4. x \in Units
  <2> HIDE DEF delay, flag, frame, next
  <2> QED  BY <1>3 DEF Units
<1>5. /\ x.last = a.last /\ x.lastDmc = a.lastDmc /\ x.dmc = a.dmc /\ x.five = five
      /\ x.irqOff = irqOff /\ x.flag = flag /\ x.frame = frame /\ x.delay = delay
      /\ x.nextIrq = next
  <2> HIDE DEF delay, flag, frame, next
  <2> QED  BY DEF Units
<1> HIDE DEF b, x
<1>6. FrameOn(x) => FrameTime(x) = a.last + delay + 3 * FramePeriod - 2 /\ x.nextIrq = a.last + delay + 3 * FramePeriod
  BY <1>5 DEF FrameOn, FrameTime
<1>7. ~five => FramePeriod <= delay /\ delay <= FramePeriod + 1
  BY <1>2, Constants
<1>8. FrameFine(x)
  <2>1. ~x.five => x.delay <= FramePeriod + (IF x.frame = 1 THEN 1 ELSE 0)
    BY <1>3, <1>5, <1>7, Constants
  <2>2. FrameOn(x) => FrameTime(x) + 1 <= x.nextIrq /\ x.nextIrq <= x.last + 4 * FramePeriod + 1
    <3> HIDE DEF delay
    <3> QED  BY <1>2, <1>3, <1>5, <1>6, <1>7, Constants DEF FrameOn
  <2>3. ~FrameOn(x) => x.nextIrq = NoIrq
    BY <1>5 DEF FrameOn
  <2> QED  BY <2>1, <2>2, <2>3 DEF FrameFine
<1>9. Predicted(x) /\ (FrameOn(x) => x.last + 4 * FramePeriod <= x.nextIrq)
  <2> HIDE DEF delay
  <2> QED  BY <1>2, <1>3, <1>5, <1>6, <1>7, Constants DEF FrameOn, Predicted
<1>10. DmcFine(x)
  <2>1. (Armed(x) <=> Armed(a)) /\ SampleEnd(x) = SampleEnd(a)
    BY <1>5 DEF Armed, SampleEnd
  <2> QED  BY <1>5, <2>1 DEF DmcFine, DmcRight
<1>11. UnitFine(x)
  BY <1>4, <1>5, <1>8, <1>10 DEF UnitFine
<1>12. /\ UnitFine(b) /\ Fresh(b) /\ SameFrame(x, b) /\ b.flag = x.flag
       /\ b.lastDmc = x.lastDmc /\ b.dmc = x.dmc
  BY <1>1, <1>11, ChangedFine
<1>13. Sound(b) /\ (Line(b) => b.earliest = 0) /\ (Predicted(b) => Announced(b))
  BY <1>5, <1>12, FreshFollows DEF SameFrame
<1>14. /\ Predicted(b)
       /\ FrameOn(b) => /\ b.last + 4 * FramePeriod <= b.nextIrq
                        /\ b.nextIrq <= b.last + 4 * FramePeriod + 1
  BY <1>8, <1>9, <1>12 DEF SameFrame, Predicted, FrameOn, FrameTime, FrameFine
<1>15. /\ b.last = a.last /\ b.five = five /\ b.irqOff = irqOff /\ b.flag = (a.flag /\ ~irqOff)
       /\ b.lastDmc = a.lastDmc /\ b.dmc = a.dmc
  BY <1>5, <1>12 DEF SameFrame
<1> QED  BY <1>12, <1>13, <1>14, <1>15 DEF b

\* What reading the status does.
LEMMA AcknowledgeIs ==
    ASSUME NEW a, UnitFine(a), 0 <= a.last, a.lastDmc <= 2 * FrameLen
    PROVE  Wrote(a, Acknowledge(a))
<1> DEFINE b == Acknowledge(a)
<1> SUFFICES Wrote(a, b)
  OBVIOUS
<1>1. CASE a.flag
  <2> DEFINE x == [a EXCEPT !.flag = FALSE]
  <2>1. b = IrqChanged(x)
    BY <1>1 DEF Acknowledge
  <2>2. a \in Units
    BY DEF UnitFine
  <2>3. /\ x \in Units /\ x.dmc = a.dmc /\ x.lastDmc = a.lastDmc /\ SameFrame(a, x)
    BY <2>2 DEF Units, SameFrame
  <2> HIDE DEF x, b
  <2>4. DmcFine(x)
    <3>1. (Armed(x) <=> Armed(a)) /\ SampleEnd(x) = SampleEnd(a)
      BY <2>3 DEF Armed, SampleEnd
    <3> QED  BY <2>3, <3>1 DEF DmcFine, DmcRight, UnitFine
  <2>5. FrameFine(x)
    <3>1. (FrameOn(x) <=> FrameOn(a)) /\ FrameTime(x) = FrameTime(a)
      BY <2>3 DEF SameFrame, FrameOn, FrameTime
    <3> QED  BY <2>3, <3>1 DEF FrameFine, SameFrame, UnitFine
  <2>6. UnitFine(x)
    BY <2>3, <2>4, <2>5 DEF UnitFine, SameFrame
  <2>7. /\ UnitFine(b) /\ Fresh(b) /\ SameFrame(x, b) /\ b.lastDmc = x.lastDmc
    BY <2>1, <2>6, ChangedFine
  <2>8. SameFrame(a, b) /\ b.lastDmc = a.lastDmc
    BY <2>3, <2>7 DEF SameFrame
  <2> QED  BY <2>7, <2>8, WroteIs
<1>2. CASE ~a.flag
  <2>1. b = a
    BY <1>2 DEF Acknowledge
  <2>2. SameFrame(a, a)
    BY DEF SameFrame
  <2> QED  BY <2>1, <2>2, WroteIs
<1> QED  BY <1>1, <1>2

\* What a $4013 write does.
LEMMA Put4013Is ==
    ASSUME NEW a, UnitFine(a), 0 <= a.last, a.lastDmc <= 2 * FrameLen, NEW n \in Lengths
    PROVE  Wrote(a, [a EXCEPT !.dmc.sample = n])
<1> DEFINE b == [a EXCEPT !.dmc.sample = n]
           d == [a.dmc EXCEPT !.sample = n]
<1>1. a \in Units /\ a.dmc \in Dmcs
  BY DEF UnitFine, Units
<1>2. b = [a EXCEPT !.dmc = d]
  BY <1>1 DEF Units
<1>3. d \in Dmcs
  BY <1>1 DEF Dmcs
<1> SUFFICES Wrote(a, b)
  OBVIOUS
<1> HIDE DEF b
<1>4. b \in Units /\ SameFrame(a, b) /\ b.lastDmc = a.lastDmc /\ b.dmc = d
      /\ b.flag = a.flag /\ b.earliest = a.earliest
  <2> HIDE DEF d
  <2> QED  BY <1>1, <1>2, <1>3 DEF Units, SameFrame
<1>5. /\ d.irqOn = a.dmc.irqOn /\ d.loop = a.dmc.loop /\ d.period = a.dmc.period
      /\ d.flag = a.dmc.flag /\ d.next = a.dmc.next /\ d.delay = a.dmc.delay
      /\ d.len = a.dmc.len /\ d.bits = a.dmc.bits /\ d.full = a.dmc.full
  BY <1>1 DEF Dmcs
<1> HIDE DEF d
<1>6. (Armed(b) <=> Armed(a)) /\ SampleEnd(b) = SampleEnd(a)
  BY <1>4, <1>5 DEF Armed, SampleEnd
<1>7. DmcFine(b)
  BY <1>4, <1>5, <1>6 DEF DmcFine, DmcRight, UnitFine
<1>8. FrameFine(b)
  <2>1. (FrameOn(b) <=> FrameOn(a)) /\ FrameTime(b) = FrameTime(a)
    BY <1>4 DEF SameFrame, FrameOn, FrameTime
  <2> QED  BY <1>4, <2>1 DEF FrameFine, SameFrame, UnitFine
<1>9. UnitFine(b)
  BY <1>4, <1>7, <1>8 DEF UnitFine, SameFrame
<1> QED  BY <1>4, <1>5, <1>9, WroteIs

\* What running the DMC ahead does.
LEMMA RunUntilIs ==
    ASSUME NEW a, UnitFine(a), 0 <= a.last, a.lastDmc <= 2 * FrameLen,
           NEW end \in Int, end <= 2 * FrameLen
    PROVE  LET b == RunUntil(a, end)
           IN  /\ UnitFine(b) /\ SameFrame(a, b) /\ b.flag = a.flag /\ Follows(a, b)
               /\ Sound(b) \/ (~Sound(a) /\ b.earliest = a.earliest)
               /\ b.lastDmc = a.lastDmc \/ (a.lastDmc < end /\ b.lastDmc = end)
               /\ Armed(a) /\ SampleEnd(a) <= end => b.dmc.flag \/ b = a
               /\ Armed(a) => b.dmc.flag \/ (Armed(b) /\ SampleEnd(b) = SampleEnd(a))
               /\ a.dmc.flag => b.dmc.flag
<1> DEFINE b == RunUntil(a, end)
<1>1. SameFrame(a, a) /\ Wrote(a, a)
  <2>1. SameFrame(a, a)
    BY DEF SameFrame
  <2> QED  BY <2>1, WroteIs
<1>2. CASE b = a
  <2> HIDE DEF b
  <2>1. /\ UnitFine(b) /\ SameFrame(a, b) /\ b.flag = a.flag /\ Follows(a, b)
        /\ Sound(b) \/ (~Sound(a) /\ b.earliest = a.earliest)
        /\ b.lastDmc = a.lastDmc /\ SampleEnd(b) = SampleEnd(a) /\ (Armed(a) => Armed(b))
        /\ b.dmc.flag = a.dmc.flag
    BY <1>1, <1>2 DEF Wrote
  <2> QED  BY <1>2, <2>1 DEF b
<1>3. CASE b # a
  <2>1. b = RunDmc(a, end)
    BY <1>3 DEF RunUntil
  <2> HIDE DEF b
  <2>2. /\ a \in Units /\ DmcFine(a) /\ a.lastDmc \in Int /\ a.last <= a.lastDmc /\ a.last \in Int
        /\ a.dmc.flag \in BOOLEAN
    BY DEF UnitFine, Units, Dmcs
  <2>3. DmcTo(a, b, end)
    BY <2>1, <2>2, RunDmcIs
  <2>4. b.lastDmc = a.lastDmc \/ (a.lastDmc < end /\ b.lastDmc = end)
    BY <2>2, <2>3 DEF DmcTo
  <2>5. SameFrame(a, b) /\ FrameFine(b) /\ b.flag = a.flag
    <3>1. Beside(a, b)
      BY <2>3 DEF DmcTo
    <3>2. FrameFine(b)
      BY <3>1, BesideFrame DEF UnitFine
    <3> QED  BY <3>1, <3>2 DEF Beside, SameFrame
  <2>6. UnitFine(b)
    BY <2>2, <2>3, <2>4, <2>5 DEF DmcTo, UnitFine, SameFrame
  <2>7. b.lastDmc <= 2 * FrameLen
    BY <2>4
  <2>8. Follows(a, b) /\ (Sound(b) \/ (~Sound(a) /\ b.earliest = a.earliest))
    <3>1. CASE Fresh(b)
      <4>1. Sound(b) /\ (Line(b) => b.earliest = 0) /\ (Predicted(b) => Announced(b))
        BY <2>5, <2>6, <3>1, FreshFollows DEF SameFrame
      <4>2. Predicted(a) => Predicted(b)
        BY <2>5 DEF SameFrame, Predicted, FrameOn, FrameTime
      <4> QED  BY <4>1, <4>2 DEF Follows, Announced
    <3>2. CASE ~Fresh(b)
      <4>1. b.dmc.flag = a.dmc.flag /\ b.earliest = a.earliest
        BY <2>3, <3>2 DEF DmcTo
      <4>2. b.dmc.next = a.dmc.next
        BY <2>3, <3>2 DEF DmcTo, DmcFine, UnitFine
      <4> QED  BY <2>5, <2>6, <2>7, <4>1, <4>2, SteadyFollows
    <3> QED  BY <3>1, <3>2
  <2>9. /\ Armed(a) /\ SampleEnd(a) <= end => b.dmc.flag
        /\ Armed(a) => b.dmc.flag \/ (Armed(b) /\ SampleEnd(b) = SampleEnd(a))
        /\ a.dmc.flag => b.dmc.flag
    BY <2>3 DEF DmcTo
  <2> QED  BY <2>4, <2>5, <2>6, <2>8, <2>9 DEF b
<1> QED  BY <1>2, <1>3

-----------------------------------------------------------------------------
(* Reset, states and the end of a frame                                    *)

\* There is a slowest period: no_irq is beyond all of them.
LEMMA SlowestPeriodIs == SlowestPeriod \in Periods
<1> DEFINE T == {n \in Nat : \E p \in Periods : n = NoIrq - p}
<1>1. \A p \in Periods : p \in Nat /\ p > 0 /\ p < NoIrq
  <2> SUFFICES ASSUME NEW p \in Periods PROVE p \in Nat /\ p > 0 /\ p < NoIrq
    OBVIOUS
  <2>1. p \in Nat /\ p > 0 /\ ByteBits \in Nat /\ ByteBits > 0 /\ FrameLen \in Nat /\ NoIrq \in Nat
    BY Constants
  <2>2. NoIrq > 2 * FrameLen + 1 * ByteBits * p
    BY FrameAssumption, Constants
  <2>3. 1 * p <= ByteBits * p /\ ByteBits * p \in Nat
    BY <2>1, TimesMono
  <2> QED  BY <2>1, <2>2, <2>3
<1>2. T \subseteq Nat /\ T # {}
  <2>1. PICK p \in Periods : TRUE
    BY Constants
  <2>2. NoIrq - p \in T
    BY <1>1, Constants
  <2> QED  BY <2>2
<1>3. PICK n \in T : \A m \in T : n <= m
  <2> HIDE DEF T
  <2> QED  BY <1>2, Least
<1>4. PICK p \in Periods : n = NoIrq - p
  BY <1>3
<1>5. \A q \in Periods : q <= p
  <2> SUFFICES ASSUME NEW q \in Periods PROVE q <= p
    OBVIOUS
  <2>1. NoIrq - q \in T
    BY <1>1, Constants
  <2>2. n <= NoIrq - q
    BY <1>3, <2>1
  <2> QED  BY <1>1, <1>4, <2>2, Constants
<1>6. \E p_1 \in Periods : \A q \in Periods : q <= p_1
  BY <1>5
<1> QED  BY <1>6 DEF SlowestPeriod

\* a unit after its $4017, $4015 and $4010 are written at time 0
Reload(a, five, irqOff, on, irqOn, loop, period) ==
    Put4010(Put4015(Put4017(a, five, irqOff, 0), on), irqOn, loop, period)

\* b is a unit with the registers written
ReloadedTo(b, five, irqOff, irqOn, loop, period) ==
    /\ UnitFine(b) /\ b.last = 0 /\ b.lastDmc = 0
    /\ b.five = five /\ b.irqOff = irqOff /\ ~Line(b)
    /\ b.dmc.irqOn = irqOn /\ b.dmc.loop = loop /\ b.dmc.period = period
    /\ Sound(b) /\ Announced(b) /\ Fresh(b)
    /\ FrameOn(b) => 4 * FramePeriod <= b.nextIrq /\ b.nextIrq <= 4 * FramePeriod + 1

\* Where a $4017 write, a $4015 write and a $4010 write bring a unit at time 0
\* with the DMC's interrupt off.
LEMMA ReloadIs ==
    ASSUME NEW a \in Units, DmcFine(a), a.last = 0, a.lastDmc = 0, ~a.flag, ~a.dmc.irqOn,
           NEW five \in BOOLEAN, NEW irqOff \in BOOLEAN, NEW on \in BOOLEAN,
           NEW irqOn \in BOOLEAN, NEW loop \in BOOLEAN, ~(irqOn /\ loop), NEW period \in Periods
    PROVE  ReloadedTo(Reload(a, five, irqOff, on, irqOn, loop, period),
                      five, irqOff, irqOn, loop, period)
<1> DEFINE x == Put4017(a, five, irqOff, 0)
           y == Put4015(x, on)
           b == Put4010(y, irqOn, loop, period)
<1>1. FrameLen \in Nat /\ 0 <= 2 * FrameLen /\ a.flag \in BOOLEAN /\ a.dmc.flag \in BOOLEAN
  BY Constants DEF Units, Dmcs
<1>2. /\ UnitFine(x) /\ x.last = 0 /\ x.lastDmc = 0 /\ x.dmc = a.dmc
      /\ x.five = five /\ x.irqOff = irqOff /\ x.flag = (a.flag /\ ~irqOff)
      /\ Sound(x) /\ Announced(x) /\ (Line(x) => x.earliest = 0)
      /\ FrameOn(x) => 0 + 4 * FramePeriod <= x.nextIrq /\ x.nextIrq <= 0 + 4 * FramePeriod + 1
  BY Put4017Is
<1>3. Fresh(x)
  BY Put4017Is
<1> HIDE DEF x
<1>4. UnitFine(y) /\ Beside(x, y) /\ SameFrame(x, y) /\ y.lastDmc = x.lastDmc /\ Wrote(x, y)
  BY <1>1, <1>2, Put4015Is
<1> HIDE DEF y
<1>5. ~y.flag /\ ~y.dmc.flag /\ y.last = 0 /\ y.lastDmc = 0
  BY <1>1, <1>2, <1>4 DEF Beside, UnitFine, DmcFine, DmcRight
<1>6. /\ UnitFine(b) /\ SameFrame(y, b) /\ SameSample(y, b) /\ b.flag = y.flag
      /\ b.dmc.irqOn = irqOn /\ b.dmc.loop = loop /\ b.dmc.period = period
      /\ b.dmc.flag = (y.dmc.flag /\ irqOn) /\ Wrote(y, b)
  BY <1>1, <1>4, <1>5, Put4010Is
<1> HIDE DEF b
<1>7. b.five = five /\ b.irqOff = irqOff /\ b.nextIrq = x.nextIrq /\ b.last = 0 /\ b.lastDmc = 0
  BY <1>2, <1>4, <1>5, <1>6 DEF SameFrame, SameSample
<1>8. ~Line(b)
  BY <1>5, <1>6 DEF Line
<1>9. Sound(b) /\ Announced(b) /\ Fresh(b)
  BY <1>2, <1>3, <1>4, <1>6 DEF Wrote, Follows
<1>10. FrameOn(b) => 4 * FramePeriod <= b.nextIrq /\ b.nextIrq <= 4 * FramePeriod + 1
  BY <1>2, <1>7, Constants DEF FrameOn
<1> QED  BY <1>6, <1>7, <1>8, <1>9, <1>10 DEF b, y, x, Reload, ReloadedTo

\* A unit just reset.
LEMMA ResetIs ==
    LET b == ResetApu
    IN  /\ UnitFine(b) /\ b.last = 0 /\ b.lastDmc = 0 /\ ~Line(b) /\ ~b.dmc.irqOn
        /\ Sound(b) /\ Announced(b)
<1> DEFINE blank == [last |-> 0, lastDmc |-> 0, earliest |-> NoIrq, nextIrq |-> NoIrq,
                     delay |-> 1, frame |-> 0, five |-> FALSE, irqOff |-> FALSE, flag |-> FALSE,
                     dmc |-> [delay |-> 0, len |-> 0, bits |-> 1, full |-> FALSE, on |-> FALSE,
                              irqOn |-> FALSE, loop |-> FALSE, period |-> SlowestPeriod,
                              sample |-> 1, flag |-> FALSE, next |-> NoIrq]]
<1>1. ResetApu = Reload(blank, FALSE, FALSE, FALSE, FALSE, FALSE, SlowestPeriod)
  BY DEF ResetApu, Reload
<1>2. blank \in Units
  <2>1. 1 \in 1..ByteBits /\ NoIrq \in Int /\ SlowestPeriod \in Periods /\ 1 \in Lengths /\ 0 \in 0..3
    BY Constants, SlowestPeriodIs
  <2> QED  BY <2>1 DEF Units, Dmcs
<1>3. /\ blank.last = 0 /\ blank.lastDmc = 0 /\ ~blank.flag /\ ~blank.dmc.irqOn
      /\ blank.dmc.len = 0 /\ blank.dmc.delay = 0 /\ ~blank.dmc.flag /\ blank.dmc.next = NoIrq
  OBVIOUS
<1> HIDE DEF blank
<1>4. DmcFine(blank)
  BY <1>3, SlowestPeriodIs, Constants DEF DmcFine, DmcRight, Armed
<1>5. ASSUME NEW off \in BOOLEAN, ~off
      PROVE  LET b == Reload(blank, off, off, off, off, off, SlowestPeriod)
             IN  /\ UnitFine(b) /\ b.last = 0 /\ b.lastDmc = 0 /\ ~Line(b) /\ ~b.dmc.irqOn
                 /\ Sound(b) /\ Announced(b)
  BY <1>2, <1>3, <1>4, <1>5, SlowestPeriodIs, ReloadIs DEF ReloadedTo
<1> DEFINE off == FALSE
<1>6. off \in BOOLEAN /\ ~off /\ ResetApu = Reload(blank, off, off, off, off, off, SlowestPeriod)
  BY <1>1
<1> HIDE DEF off
<1> QED  BY <1>5, <1>6

\* b is a with every time counted from end
ShiftedTo(a, b, end) ==
    /\ UnitFine(b) /\ b.last = a.last - end /\ b.lastDmc = a.lastDmc - end
    /\ (Line(b) <=> Line(a))
    /\ Sound(a) => Sound(b)
    /\ Announced(a) => Announced(b)
    /\ (Armed(b) <=> Armed(a)) /\ (Armed(a) => SampleEnd(b) = SampleEnd(a) - end)
    /\ (FrameOn(b) <=> FrameOn(a)) /\ FrameTime(b) = FrameTime(a) - end
    /\ b.earliest = IF a.earliest = NoIrq THEN NoIrq
                    ELSE IF a.earliest < end THEN 0 ELSE a.earliest - end
    /\ b.delay = a.delay /\ b.frame = a.frame /\ b.five = a.five
    /\ b.irqOff = a.irqOff /\ b.flag = a.flag
    /\ b.dmc = [a.dmc EXCEPT !.next = IF Armed(a) THEN SampleEnd(b) ELSE NoIrq]

\* The end of a frame subtracts its length from every time but no_irq, and
\* announces no time before the next one.
LEMMA ShiftIs ==
    ASSUME NEW a, UnitFine(a), NEW end \in Int, end <= a.last, a.lastDmc <= 2 * FrameLen
    PROVE  ShiftedTo(a, ShiftTimes(a, end), end)
<1> DEFINE nextIrq == Later(a.nextIrq, end)
           next == Later(a.dmc.next, end)
           earliest == IF a.earliest = NoIrq THEN NoIrq
                       ELSE IF a.earliest < end THEN 0 ELSE a.earliest - end
           d == [a.dmc EXCEPT !.next = next]
           b == ShiftTimes(a, end)
<1>1. /\ a \in Units /\ a.dmc \in Dmcs /\ a.last \in Int /\ a.lastDmc \in Int /\ a.nextIrq \in Int
      /\ a.dmc.next \in Int /\ a.earliest \in Int /\ a.delay \in Nat /\ a.dmc.delay \in Nat
      /\ a.last <= a.lastDmc
  BY DEF UnitFine, Units, Dmcs
<1>2. nextIrq \in Int /\ next \in Int /\ earliest \in Int
  BY <1>1, Constants DEF Later
<1>3. b = [a EXCEPT !.last = a.last - end, !.lastDmc = a.lastDmc - end, !.nextIrq = nextIrq,
                    !.earliest = earliest, !.dmc = d]
  BY <1>1 DEF ShiftTimes, Units
<1>4. d \in Dmcs /\ d.next = next /\ d.delay = a.dmc.delay /\ d.len = a.dmc.len /\ d.bits = a.dmc.bits
      /\ d.full = a.dmc.full /\ d.irqOn = a.dmc.irqOn /\ d.loop = a.dmc.loop
      /\ d.period = a.dmc.period /\ d.flag = a.dmc.flag
  <2> HIDE DEF next
  <2> QED  BY <1>1, <1>2 DEF Dmcs
<1> HIDE DEF b, d, next, nextIrq, earliest
<1>5. b \in Units
  <2>1. a.last - end \in Int /\ a.lastDmc - end \in Int
    BY <1>1
  <2> QED  BY <1>1, <1>2, <1>3, <1>4, <2>1 DEF Units
<1>6. /\ b.last = a.last - end /\ b.lastDmc = a.lastDmc - end /\ b.nextIrq = nextIrq
      /\ b.earliest = earliest /\ b.dmc = d /\ b.delay = a.delay /\ b.frame = a.frame
      /\ b.five = a.five /\ b.irqOff = a.irqOff /\ b.flag = a.flag
  BY <1>1, <1>3 DEF Units
<1>7. (Armed(b) <=> Armed(a)) /\ (FrameOn(b) <=> FrameOn(a)) /\ (Line(b) <=> Line(a))
  BY <1>4, <1>6 DEF Armed, FrameOn, Line
<1>8. FrameTime(b) = FrameTime(a) - end
  <2> DEFINE rest == IF a.frame = 0 THEN 0 ELSE IF a.frame = 1 THEN 3 * FramePeriod - 2
                     ELSE IF a.frame = 2 THEN 2 * FramePeriod ELSE FramePeriod
  <2>1. FrameTime(a) = a.last + a.delay + rest /\ FrameTime(b) = a.last - end + a.delay + rest
    BY <1>6 DEF FrameTime
  <2>2. rest \in Int
    BY Constants
  <2> HIDE DEF rest
  <2> QED  BY <1>1, <2>1, <2>2
<1>9. Armed(a) => SampleEnd(b) = SampleEnd(a) - end
  <2> SUFFICES ASSUME Armed(a) PROVE SampleEnd(b) = SampleEnd(a) - end
    OBVIOUS
  <2>1. BitsLeft(b) = BitsLeft(a)
    BY <1>4, <1>6 DEF BitsLeft
  <2>2. /\ SampleEnd(a) = a.lastDmc + a.dmc.delay + (BitsLeft(a) - 1) * a.dmc.period + 1
        /\ (BitsLeft(a) - 1) * a.dmc.period \in Nat
    BY <1>1, SampleEndIs
  <2>3. SampleEnd(b) = b.lastDmc + a.dmc.delay + (BitsLeft(a) - 1) * a.dmc.period + 1
    BY <1>4, <1>5, <1>6, <1>7, <2>1, SampleEndIs
  <2> DEFINE m == (BitsLeft(a) - 1) * a.dmc.period
  <2> HIDE DEF m
  <2>4. SampleEnd(a) = a.lastDmc + a.dmc.delay + m + 1 /\ SampleEnd(b) = b.lastDmc + a.dmc.delay + m + 1 /\ m \in Nat
    BY <2>2, <2>3 DEF m
  <2> QED  BY <1>1, <1>6, <2>4
<1>10. /\ Armed(a) => a.dmc.next = SampleEnd(a) /\ SampleEnd(a) < NoIrq
       /\ ~Armed(a) => a.dmc.next = NoIrq
       /\ Armed(a) => SampleEnd(a) \in Int /\ SampleEnd(a) > a.lastDmc
  BY <1>1, SampleEndBelow, SampleEndIs DEF UnitFine, DmcFine
<1>11. FrameTime(a) \in Int /\ a.last <= FrameTime(a)
  BY <1>1, FrameTimeIs
<1>12. /\ FrameOn(a) => /\ FrameTime(a) + 1 <= a.nextIrq
                        /\ a.nextIrq <= a.last + 4 * FramePeriod + 1 /\ a.nextIrq < NoIrq
       /\ ~FrameOn(a) => a.nextIrq = NoIrq
  BY <1>1, Constants DEF UnitFine, FrameFine
<1>13. next = IF Armed(a) THEN SampleEnd(b) ELSE NoIrq
  BY <1>9, <1>10, Constants DEF next, Later
<1>14. nextIrq = IF FrameOn(a) THEN a.nextIrq - end ELSE NoIrq
  BY <1>12, Constants DEF nextIrq, Later
<1>15. DmcFine(b)
  BY <1>4, <1>6, <1>7, <1>13 DEF UnitFine, DmcFine, DmcRight
<1>16. FrameFine(b)
  <2>1. FrameOn(b) => FrameTime(b) + 1 <= b.nextIrq /\ b.nextIrq <= b.last + 4 * FramePeriod + 1
    BY <1>1, <1>6, <1>7, <1>8, <1>11, <1>12, <1>14, Constants
  <2>2. ~b.five => b.delay <= FramePeriod + (IF b.frame = 1 THEN 1 ELSE 0)
    BY <1>6 DEF UnitFine, FrameFine
  <2> QED  BY <1>6, <1>7, <1>14, <2>1, <2>2 DEF FrameFine
<1>17. UnitFine(b)
  BY <1>1, <1>5, <1>6, <1>15, <1>16 DEF UnitFine
<1>18. Sound(a) => Sound(b)
  <2>1. a.earliest = NoIrq => b.earliest = NoIrq
    BY <1>6 DEF earliest
  <2>2. ASSUME a.earliest # NoIrq, Armed(a), SampleEnd(a) <= a.earliest
        PROVE  SampleEnd(b) <= b.earliest
    BY <1>1, <1>6, <1>9, <1>10, <2>2 DEF earliest
  <2>3. ASSUME a.earliest # NoIrq, FrameTime(a) < a.earliest
        PROVE  FrameTime(b) < b.earliest
    BY <1>1, <1>6, <1>8, <1>11, <2>3 DEF earliest
  <2> QED  BY <1>7, <2>1, <2>2, <2>3 DEF Sound
<1>19. Announced(a) => Announced(b)
  <2> SUFFICES ASSUME Announced(a) PROVE Announced(b)
    OBVIOUS
  <2>1. Predicted(b)
    BY <1>1, <1>6, <1>7, <1>8, <1>11, <1>14 DEF Announced, Predicted
  <2>2. Armed(a) => a.earliest <= SampleEnd(a) /\ a.earliest # NoIrq
    BY <1>1, <1>10, Constants DEF Announced
  <2>3. Armed(a) => b.earliest <= SampleEnd(b)
    BY <1>1, <1>6, <1>9, <1>10, <2>2 DEF earliest
  <2>4. FrameOn(a) /\ ~a.flag => a.earliest <= FrameTime(a) + 3 /\ a.earliest # NoIrq
    <3>1. FrameOn(a) => FrameTime(a) + 3 < NoIrq
      BY <1>1, <1>11, <1>12, Constants DEF Announced, Predicted
    <3> QED  BY <1>1, <1>11, <3>1, Constants DEF Announced
  <2>5. FrameOn(a) /\ ~a.flag => b.earliest <= FrameTime(b) + 3
    BY <1>1, <1>6, <1>8, <1>11, <2>4 DEF earliest
  <2> QED  BY <1>6, <1>7, <2>1, <2>3, <2>5 DEF Announced
<1>20. b.dmc = [a.dmc EXCEPT !.next = IF Armed(a) THEN SampleEnd(b) ELSE NoIrq]
  BY <1>6, <1>13 DEF d
<1>21. ShiftedTo(a, b, end)
  <2> HIDE DEF b
  <2> QED  BY <1>6, <1>7, <1>8, <1>9, <1>17, <1>18, <1>19, <1>20 DEF earliest, ShiftedTo
<1> QED  BY <1>21 DEF b

\* Loading a state brings back every field but the two predictions, and the
\* time announced promises no interrupt that does not come.
LEMMA LoadIs ==
    ASSUME NEW s, UnitFine(s), NEW time \in Nat, s.last = time, s.lastDmc = time
    PROVE  LET b == LoadState(s, time)
           IN  /\ UnitFine(b) /\ b.last = time /\ b.lastDmc = time /\ Sound(b)
               /\ (Line(b) <=> Line(s))
               /\ [b EXCEPT !.earliest = s.earliest, !.nextIrq = s.nextIrq] = s
<1> DEFINE r == Reloaded(s)
           d == Restored(r.dmc, s.dmc)
           x == [r EXCEPT !.delay = s.delay, !.frame = s.frame, !.flag = s.flag, !.dmc = d]
           c == RecalcIrq(x)
           b == LoadState(s, time)
<1>1. /\ s \in Units /\ s.dmc \in Dmcs /\ DmcFine(s) /\ DmcRight(s) /\ FrameFine(s)
      /\ s.dmc.irqOn \in BOOLEAN /\ s.dmc.loop \in BOOLEAN /\ s.dmc.on \in BOOLEAN
      /\ s.five \in BOOLEAN /\ s.irqOff \in BOOLEAN /\ s.dmc.period \in Periods
      /\ s.delay \in Nat /\ s.frame \in 0..3 /\ s.flag \in BOOLEAN /\ s.dmc.delay \in Nat
  BY DEF UnitFine, DmcFine, Units, Dmcs
<1>2. /\ UnitFine(r) /\ r.last = 0 /\ r.lastDmc = 0 /\ r.five = s.five /\ r.irqOff = s.irqOff
      /\ ~Line(r) /\ r.dmc.irqOn = s.dmc.irqOn /\ r.dmc.loop = s.dmc.loop
      /\ r.dmc.period = s.dmc.period /\ Fresh(r)
      /\ FrameOn(r) => 4 * FramePeriod <= r.nextIrq /\ r.nextIrq <= 4 * FramePeriod + 1
  <2>1. r = Reload(ResetApu, s.five, s.irqOff, s.dmc.on, s.dmc.irqOn, s.dmc.loop, s.dmc.period)
    BY DEF Reloaded, Reload
  <2>2. /\ ResetApu \in Units /\ DmcFine(ResetApu) /\ ResetApu.last = 0 /\ ResetApu.lastDmc = 0
        /\ ~ResetApu.flag /\ ~ResetApu.dmc.irqOn
    BY ResetIs DEF UnitFine, Line
  <2>3. ~(s.dmc.irqOn /\ s.dmc.loop)
    BY <1>1 DEF DmcRight
  <2>4. ReloadedTo(r, s.five, s.irqOff, s.dmc.irqOn, s.dmc.loop, s.dmc.period)
    <3> DEFINE u == ResetApu  five == s.five  irqOff == s.irqOff  on == s.dmc.on
               irqOn == s.dmc.irqOn  loop == s.dmc.loop  period == s.dmc.period
    <3>1. /\ u \in Units /\ DmcFine(u) /\ u.last = 0 /\ u.lastDmc = 0 /\ ~u.flag /\ ~u.dmc.irqOn
          /\ five \in BOOLEAN /\ irqOff \in BOOLEAN /\ on \in BOOLEAN /\ irqOn \in BOOLEAN
          /\ loop \in BOOLEAN /\ ~(irqOn /\ loop) /\ period \in Periods
      BY <1>1, <2>2, <2>3
    <3>2. r = Reload(u, five, irqOff, on, irqOn, loop, period)
      BY <2>1
    <3> HIDE DEF r, u, five, irqOff, on, irqOn, loop, period
    <3>3. ReloadedTo(Reload(u, five, irqOff, on, irqOn, loop, period),
                     five, irqOff, irqOn, loop, period)
      BY <3>1, ReloadIs
    <3>4. ReloadedTo(r, five, irqOff, irqOn, loop, period)
      BY <3>2, <3>3
    <3> QED  BY <3>4 DEF five, irqOff, irqOn, loop, period
  <2> HIDE DEF r
  <2> QED  BY <2>4 DEF ReloadedTo
<1>3. b = ShiftTimes(c, -time)
  BY DEF LoadState
<1> HIDE DEF r
<1>4. r \in Units /\ r.dmc \in Dmcs /\ r.nextIrq \in Int
  BY <1>2 DEF UnitFine, Units
<1>5. d = [s.dmc EXCEPT !.next = r.dmc.next]
  <2>1. /\ d \in Dmcs /\ d.delay = s.dmc.delay /\ d.len = s.dmc.len /\ d.bits = s.dmc.bits
        /\ d.full = s.dmc.full /\ d.flag = s.dmc.flag /\ d.sample = s.dmc.sample
        /\ d.on = s.dmc.on /\ d.irqOn = r.dmc.irqOn /\ d.loop = r.dmc.loop
        /\ d.period = r.dmc.period /\ d.next = r.dmc.next
    BY <1>1, <1>4 DEF Dmcs, Restored
  <2> DEFINE e == [s.dmc EXCEPT !.next = r.dmc.next]
  <2>2. /\ e \in Dmcs /\ e.delay = s.dmc.delay /\ e.len = s.dmc.len /\ e.bits = s.dmc.bits
        /\ e.full = s.dmc.full /\ e.flag = s.dmc.flag /\ e.sample = s.dmc.sample
        /\ e.on = s.dmc.on /\ e.irqOn = s.dmc.irqOn /\ e.loop = s.dmc.loop
        /\ e.period = s.dmc.period /\ e.next = r.dmc.next
    BY <1>1, <1>4 DEF Dmcs
  <2> HIDE DEF d, e
  <2>3. d = e
    BY <1>2, <2>1, <2>2 DEF Dmcs
  <2> QED  BY <2>3 DEF e
<1> HIDE DEF d
<1>6. /\ d \in Dmcs /\ d.delay = s.dmc.delay /\ d.len = s.dmc.len /\ d.bits = s.dmc.bits
      /\ d.full = s.dmc.full /\ d.flag = s.dmc.flag /\ d.sample = s.dmc.sample
      /\ d.on = s.dmc.on /\ d.irqOn = s.dmc.irqOn /\ d.loop = s.dmc.loop
      /\ d.period = s.dmc.period /\ d.next = r.dmc.next
  BY <1>1, <1>4, <1>5 DEF Dmcs
<1>7. /\ x \in Units /\ x.last = 0 /\ x.lastDmc = 0 /\ x.earliest = r.earliest
      /\ x.nextIrq = r.nextIrq /\ x.delay = s.delay /\ x.frame = s.frame /\ x.five = s.five
      /\ x.irqOff = s.irqOff /\ x.flag = s.flag /\ x.dmc = d
  BY <1>1, <1>2, <1>4, <1>6 DEF Units
<1> HIDE DEF x
<1>8. DmcRight(x) /\ \E p \in Periods : x.dmc.delay < p
  BY <1>1, <1>6, <1>7 DEF DmcRight, DmcFine
<1>9. FrameFine(x)
  <2>1. (FrameOn(x) <=> FrameOn(s)) /\ (FrameOn(x) <=> FrameOn(r))
    BY <1>2, <1>7 DEF FrameOn
  <2>2. FrameOn(x) => FrameTime(x) + 1 <= 4 * FramePeriod
    <3>1. ~s.five => s.delay <= FramePeriod + (IF s.frame = 1 THEN 1 ELSE 0)
      BY <1>1 DEF FrameFine
    <3> QED  BY <1>1, <1>7, <3>1, Constants DEF FrameTime, FrameOn
  <2>3. FrameTime(x) \in Int
    BY <1>7, FrameTimeIs
  <2>4. FrameOn(x) => FrameTime(x) + 1 <= x.nextIrq /\ x.nextIrq <= x.last + 4 * FramePeriod + 1
    BY <1>2, <1>4, <1>7, <2>1, <2>2, <2>3, Constants
  <2>5. ~FrameOn(x) => x.nextIrq = NoIrq
    BY <1>2, <1>7, <2>1 DEF UnitFine, FrameFine
  <2>6. ~x.five => x.delay <= FramePeriod + (IF x.frame = 1 THEN 1 ELSE 0)
    BY <1>1, <1>7 DEF FrameFine
  <2> QED  BY <2>4, <2>5, <2>6 DEF FrameFine
<1>10. Readied(x)
  BY <1>7, <1>8, <1>9 DEF Readied
<1>11. /\ UnitFine(c) /\ Beside(x, c) /\ SameSample(x, c) /\ SameFrame(x, c)
       /\ c.dmc.flag = x.dmc.flag /\ (c = x \/ Fresh(c))
  BY <1>10, RecalcIs
<1> HIDE DEF c, b
<1>12. Sound(c)
  <2>1. c.last = 0
    BY <1>7, <1>11 DEF SameFrame
  <2>2. CASE Fresh(c)
    BY <1>11, <2>1, <2>2, FreshFollows
  <2>3. CASE c = x /\ ~Line(c)
    <3>1. c.earliest = Min2(c.dmc.next, c.nextIrq)
      BY <1>2, <1>6, <1>7, <2>3 DEF Fresh
    <3>2. Fresh(c)
      BY <2>3, <3>1 DEF Fresh
    <3> QED  BY <1>11, <2>1, <3>2, FreshFollows
  <2> QED  BY <1>11, <2>2, <2>3 DEF Sound
<1>13. c.last = 0 /\ c.lastDmc = 0 /\ -time \in Int /\ -time <= c.last /\ c.lastDmc <= 2 * FrameLen
  BY <1>7, <1>11, Constants DEF SameFrame, SameSample
<1>14. /\ UnitFine(b) /\ b.last = c.last - (-time) /\ b.lastDmc = c.lastDmc - (-time)
       /\ (Line(b) <=> Line(c)) /\ Sound(b) /\ (Armed(b) <=> Armed(c))
       /\ b.delay = c.delay /\ b.frame = c.frame /\ b.five = c.five
       /\ b.irqOff = c.irqOff /\ b.flag = c.flag
       /\ b.dmc = [c.dmc EXCEPT !.next = IF Armed(c) THEN SampleEnd(b) ELSE NoIrq]
  <2>1. ShiftedTo(c, b, -time)
    BY <1>3, <1>11, <1>13, ShiftIs
  <2> QED  BY <1>12, <2>1 DEF ShiftedTo
<1>15. b.last = time /\ b.lastDmc = time /\ b \in Units /\ b.dmc \in Dmcs /\ c.dmc \in Dmcs
  BY <1>11, <1>13, <1>14 DEF UnitFine, Units
<1>16. /\ b.delay = s.delay /\ b.frame = s.frame /\ b.five = s.five
       /\ b.irqOff = s.irqOff /\ b.flag = s.flag
  BY <1>7, <1>11, <1>14 DEF Beside
<1>17. /\ b.dmc.delay = s.dmc.delay /\ b.dmc.len = s.dmc.len /\ b.dmc.bits = s.dmc.bits
       /\ b.dmc.full = s.dmc.full /\ b.dmc.flag = s.dmc.flag /\ b.dmc.sample = s.dmc.sample
       /\ b.dmc.on = s.dmc.on /\ b.dmc.irqOn = s.dmc.irqOn /\ b.dmc.loop = s.dmc.loop
       /\ b.dmc.period = s.dmc.period
  <2>1. /\ c.dmc.delay = s.dmc.delay /\ c.dmc.len = s.dmc.len /\ c.dmc.bits = s.dmc.bits
        /\ c.dmc.full = s.dmc.full /\ c.dmc.flag = s.dmc.flag /\ c.dmc.sample = s.dmc.sample
        /\ c.dmc.on = s.dmc.on /\ c.dmc.irqOn = s.dmc.irqOn /\ c.dmc.loop = s.dmc.loop
        /\ c.dmc.period = s.dmc.period
    BY <1>6, <1>7, <1>11 DEF Beside, SameSample
  <2> DEFINE next == IF Armed(c) THEN SampleEnd(b) ELSE NoIrq
  <2>2. b.dmc = [c.dmc EXCEPT !.next = next]
    BY <1>14
  <2> HIDE DEF next
  <2> QED  BY <1>15, <2>1, <2>2 DEF Dmcs
<1>18. b.dmc.next = s.dmc.next
  <2>1. (Armed(b) <=> Armed(s)) /\ SampleEnd(b) = SampleEnd(s)
    BY <1>15, <1>17 DEF Armed, SampleEnd
  <2> QED  BY <1>1, <1>14, <2>1 DEF UnitFine, DmcFine
<1>19. b.dmc = s.dmc
  BY <1>1, <1>15, <1>17, <1>18 DEF Dmcs
<1>20. [b EXCEPT !.earliest = s.earliest, !.nextIrq = s.nextIrq] = s
  <2> DEFINE e == [b EXCEPT !.earliest = s.earliest, !.nextIrq = s.nextIrq]
  <2>1. /\ e \in Units /\ e.earliest = s.earliest /\ e.nextIrq = s.nextIrq /\ e.last = b.last
        /\ e.lastDmc = b.lastDmc /\ e.delay = b.delay /\ e.frame = b.frame /\ e.five = b.five
        /\ e.irqOff = b.irqOff /\ e.flag = b.flag /\ e.dmc = b.dmc
    BY <1>1, <1>15 DEF Units
  <2> HIDE DEF e
  <2>2. e = s
    BY <1>1, <1>15, <1>16, <1>19, <2>1 DEF Units
  <2> QED  BY <2>2 DEF e
<1>21. Line(b) <=> Line(s)
  BY <1>16, <1>19 DEF Line
<1> QED  BY <1>14, <1>15, <1>20, <1>21 DEF b

-----------------------------------------------------------------------------
(* The inductive invariant                                                 *)

\* where the unit is, and how far its DMC has run ahead of it
Placed ==
    /\ now \in 0..(FrameLen + Overshoot) /\ inFrame \in BOOLEAN
    /\ 0 <= apu.last /\ apu.last <= now
    /\ apu.lastDmc <= now \/ apu.lastDmc = apu.last + 1
    /\ ~inFrame => apu.last = now /\ apu.lastDmc = now

\* what the announced time promises
Promised ==
    /\ dropped \in BOOLEAN /\ (~dropped => Sound(apu))
    /\ stale \in BOOLEAN /\ (~stale => Announced(apu))

\* w cycles have passed since an interrupt of a came up at the latest
Since(a, w) ==
    \/ Line(a)
    \/ Armed(a) /\ SampleEnd(a) - 1 + w <= now
    \/ FrameOn(a) /\ FrameTime(a) + w <= now

\* how long the line can have been up
Waited ==
    /\ waited \in 0..Slack
    /\ waited > 0 => Since(apu, waited)
    /\ ~stale /\ Line(apu) => apu.earliest + waited <= now + Slack

IInv == UnitFine(apu) /\ Placed /\ Promised /\ Waited

\* b is a run up to a time: a promise of the announced time is kept, or a
\* broken one unchanged
Kept(a, b) ==
    /\ Sound(b) \/ (~Sound(a) /\ b.earliest = a.earliest)
    /\ Announced(a) => Announced(b)

\* Running the unit keeps what the announced time promises.
LEMMA RanKept ==
    ASSUME NEW a, UnitFine(a), NEW t \in Int, 0 <= a.last, a.last <= t, NEW b, RanTo(a, b, t)
    PROVE  Kept(a, b)
<1>1. /\ UnitFine(b) /\ b.last = t /\ SameRegisters(a, b) /\ 0 <= b.last
      /\ b \in Units /\ b.dmc.next \in Int /\ a.nextIrq \in Int /\ b.last \in Int
      /\ b.last <= b.lastDmc /\ b.lastDmc \in Int /\ b.dmc.delay \in Nat
  BY DEF RanTo, UnitFine, Units, Dmcs
<1>2. (FrameOn(b) <=> FrameOn(a)) /\ FrameTime(a) \in Int /\ FrameTime(b) \in Int
  BY <1>1, FrameTimeIs DEF SameRegisters, FrameOn, UnitFine
<1>3. Armed(b) => /\ Armed(a) /\ SampleEnd(b) = SampleEnd(a) /\ b.dmc.next = SampleEnd(b)
                  /\ SampleEnd(b) \in Int /\ SampleEnd(b) > 0 /\ b.dmc.flag = a.dmc.flag
  BY <1>1, SampleEndIs DEF RanTo, UnitFine, DmcFine
<1>4. CASE FrameOn(a) /\ FrameTime(a) < t
  <2>1. Rings(a, b)
    BY <1>4 DEF RanTo
  <2>2. Sound(b) /\ Predicted(b)
    BY <1>2, <2>1 DEF Rings, Sound, Line, Predicted
  <2>3. Announced(a) /\ Armed(b) => b.earliest <= SampleEnd(b)
    <3> SUFFICES ASSUME Announced(a), Armed(b) PROVE b.earliest <= SampleEnd(b)
      OBVIOUS
    <3>1. a.earliest <= SampleEnd(b)
      BY <1>3 DEF Announced
    <3>2. (IF a.flag \/ b.dmc.flag THEN 0 ELSE Min2(b.dmc.next, a.nextIrq)) <= SampleEnd(b)
      BY <1>1, <1>3 DEF Min2
    <3> QED  BY <3>1, <3>2 DEF RanTo
  <2> QED  BY <2>1, <2>2, <2>3 DEF Announced, Rings, Kept
<1>5. CASE ~(FrameOn(a) /\ FrameTime(a) < t)
  <2>1. Calm(a, b)
    BY <1>5 DEF RanTo
  <2>2. CASE Fresh(b)
    <3>1. Sound(b) /\ (Predicted(b) => Announced(b))
      BY <1>1, <2>2, FreshFollows
    <3>2. Predicted(a) => Predicted(b)
      BY <1>2, <2>1 DEF Calm, Predicted
    <3> QED  BY <3>1, <3>2 DEF Announced, Kept
  <2>3. CASE ~Fresh(b)
    <3>1. b.earliest = a.earliest
      BY <2>1, <2>3 DEF RanTo, Fresh, Line, Calm
    <3>2. CASE Armed(a) /\ SampleEnd(a) <= t
      <4>1. b.dmc.flag /\ b.earliest = 0
        BY <3>2 DEF RanTo
      <4> QED  BY <2>3, <4>1 DEF Fresh, Line
    <3>3. CASE ~(Armed(a) /\ SampleEnd(a) <= t)
      <4>1. (Armed(b) <=> Armed(a)) /\ b.dmc.flag = a.dmc.flag
        BY <3>3 DEF RanTo
      <4>2. Armed(a) => SampleEnd(b) = SampleEnd(a)
        BY <1>3, <4>1
      <4> QED  BY <1>2, <2>1, <3>1, <4>1, <4>2 DEF Calm, Sound, Line, Announced, Predicted, Kept
    <3> QED  BY <3>2, <3>3
  <2> QED  BY <2>2, <2>3
<1> QED  BY <1>4, <1>5

\* An interrupt that is up when the unit has run was announced soon enough.
LEMMA RanWaited ==
    ASSUME IInv, NEW b, RanTo(apu, b, now), ~stale, Line(b)
    PROVE  b.earliest + waited <= now + Slack
<1>1. /\ UnitFine(apu) /\ apu \in Units /\ apu.earliest \in Int /\ apu.nextIrq \in Int
      /\ now \in Int /\ 0 <= now /\ waited \in 0..3 /\ Slack = 3
      /\ b.dmc.next \in Int /\ b.earliest \in Int
  BY DEF IInv, Placed, Waited, Slack, UnitFine, Units, Dmcs, RanTo
<1>2. Announced(apu)
  BY DEF IInv, Promised
<1>3. FrameTime(apu) \in Int /\ (Armed(apu) => SampleEnd(apu) \in Int)
  BY <1>1, FrameTimeIs, SampleEndIs
<1>4. CASE b.earliest = 0
  BY <1>1, <1>4
<1>5. CASE Line(apu) /\ b.earliest = apu.earliest
  BY <1>1, <1>5 DEF IInv, Waited
<1>6. CASE ~Line(apu) /\ b.earliest # 0
  <2>1. ~(Armed(apu) /\ SampleEnd(apu) <= now) /\ ~b.dmc.flag
    BY <1>6 DEF RanTo, Line
  <2>2. b.flag /\ ~apu.flag
    BY <1>6, <2>1 DEF Line
  <2>3. FrameOn(apu) /\ FrameTime(apu) < now
    BY <2>2 DEF RanTo, Calm
  <2>4. b.earliest <= FrameTime(apu) + 3
    <3>1. apu.earliest <= FrameTime(apu) + 3 /\ apu.nextIrq <= FrameTime(apu) + 3
      BY <1>2, <2>2, <2>3 DEF Announced, Predicted
    <3>2. Min2(b.dmc.next, apu.nextIrq) <= apu.nextIrq
      BY <1>1 DEF Min2
    <3>3. Min2(b.dmc.next, apu.nextIrq) \in Int
      BY <1>1 DEF Min2
    <3>4. b.earliest = apu.earliest \/ b.earliest = Min2(b.dmc.next, apu.nextIrq)
      BY <2>1, <2>2 DEF RanTo
    <3> QED  BY <1>1, <1>3, <3>1, <3>2, <3>3, <3>4
  <2>5. FrameTime(apu) + waited <= now
    <3>1. CASE waited = 0
      BY <1>1, <1>3, <2>3, <3>1
    <3>2. CASE waited > 0
      <4>1. Since(apu, waited)
        BY <3>2 DEF IInv, Waited
      <4> QED  BY <1>1, <1>3, <1>6, <2>1, <3>2, <4>1 DEF Since
    <3> QED  BY <1>1, <3>1, <3>2
  <2> QED  BY <1>1, <1>3, <2>4, <2>5
<1>7. CASE Line(apu) /\ b.earliest # apu.earliest
  <2>1. apu.flag \/ b.dmc.flag
    BY <1>7 DEF RanTo, Line
  <2>2. b.earliest = 0
    BY <1>7, <2>1 DEF RanTo
  <2> QED  BY <1>4, <2>2
<1> QED  BY <1>4, <1>5, <1>6, <1>7

\* An interrupt that has come up is up when the unit has run.
LEMMA SinceLine ==
    ASSUME UnitFine(apu), NEW t \in Int, NEW b, RanTo(apu, b, t)
    PROVE  /\ Line(apu) => Line(b)
           /\ Armed(apu) /\ SampleEnd(apu) <= t => Line(b)
           /\ FrameOn(apu) /\ FrameTime(apu) < t => Line(b)
<1>1. apu.dmc.flag => b.dmc.flag
  BY DEF RanTo
<1>2. apu.flag => b.flag
  BY DEF RanTo, Rings, Calm
<1>3. FrameOn(apu) /\ FrameTime(apu) < t => b.flag
  BY DEF RanTo, Rings
<1>4. Armed(apu) /\ SampleEnd(apu) <= t => b.dmc.flag
  BY DEF RanTo
<1> QED  BY <1>1, <1>2, <1>3, <1>4 DEF Line

\* The numbers of a state.
LEMMA StateIs ==
    ASSUME IInv
    PROVE  /\ UnitFine(apu) /\ apu \in Units /\ apu.earliest \in Int /\ apu.last \in Int
           /\ apu.lastDmc \in Int /\ now \in Int /\ waited \in Int /\ Slack = 3
           /\ 0 <= apu.last /\ apu.last <= now /\ now < 2 * FrameLen /\ apu.last <= apu.lastDmc
           /\ apu.lastDmc <= 2 * FrameLen /\ 0 <= waited /\ waited <= 3
           /\ apu.lastDmc <= now \/ apu.lastDmc = apu.last + 1
           /\ FrameTime(apu) \in Int /\ apu.last <= FrameTime(apu)
           /\ Armed(apu) => SampleEnd(apu) \in Int /\ SampleEnd(apu) > apu.lastDmc
<1>1. /\ UnitFine(apu) /\ apu \in Units /\ apu.earliest \in Int /\ apu.last \in Int
      /\ apu.lastDmc \in Int /\ apu.delay \in Nat /\ apu.dmc.delay \in Nat /\ apu.last <= apu.lastDmc
  BY DEF IInv, UnitFine, Units, Dmcs
<1>2. FrameLen \in Nat /\ FrameLen > 0 /\ Overshoot \in 0..(FrameLen - 1)
  BY FrameAssumption
<1>3. /\ now \in Int /\ 0 <= apu.last /\ apu.last <= now /\ now < 2 * FrameLen
      /\ apu.lastDmc <= now \/ apu.lastDmc = apu.last + 1
  BY <1>2 DEF IInv, Placed
<1>4. waited \in Int /\ 0 <= waited /\ waited <= 3 /\ Slack = 3
  BY DEF IInv, Waited, Slack
<1>5. FrameTime(apu) \in Int /\ apu.last <= FrameTime(apu)
  BY <1>1, FrameTimeIs
<1>6. Armed(apu) => SampleEnd(apu) \in Int /\ SampleEnd(apu) > apu.lastDmc
  BY <1>1, SampleEndIs
<1>7. apu.lastDmc <= 2 * FrameLen
  BY <1>1, <1>2, <1>3
<1> QED  BY <1>1, <1>3, <1>4, <1>5, <1>6, <1>7

\* the unit run up to now, when the CPU touches it
Present(b) ==
    /\ RanTo(apu, b, now) /\ UnitFine(b) /\ Kept(apu, b)
    /\ b.last = now /\ (apu.lastDmc <= now => b.lastDmc = now)
    /\ ~stale /\ Line(b) => b.earliest + waited <= now + Slack

\* Running the unit up to now.
LEMMA PresentIs ==
    ASSUME IInv
    PROVE  Present(RunUntil_(apu, now))
<1> DEFINE b == RunUntil_(apu, now)
<1>1. RanTo(apu, b, now)
  BY StateIs, RunUntil_Right
<1> HIDE DEF b
<1>2. Kept(apu, b)
  BY <1>1, StateIs, RanKept
<1>3. ~stale /\ Line(b) => b.earliest + waited <= now + Slack
  BY <1>1, RanWaited
<1>4. b.last = now /\ UnitFine(b) /\ b.lastDmc = IF apu.lastDmc >= now THEN apu.lastDmc ELSE now
  BY <1>1 DEF RanTo
<1>5. apu.lastDmc <= now => b.lastDmc = now
  BY <1>4, StateIs
<1> QED  BY <1>1, <1>2, <1>3, <1>4, <1>5 DEF Present, b

\* A unit at now, after an access: what it must have kept for the invariant to
\* hold on.
LEMMA AccessKeeps ==
    ASSUME IInv, inFrame, UNCHANGED <<now, inFrame>>, NEW put, BecomeAfter(put),
           UnitFine(put), put.last = now, put.lastDmc = now \/ put.lastDmc = now + 1,
           dropped' \in BOOLEAN, ~dropped' => Sound(put),
           stale' \in BOOLEAN, ~stale' => Announced(put),
           ~stale' /\ Line(put) => put.earliest + waited <= now + Slack
    PROVE  IInv'
<1>1. apu' = put /\ now' = now /\ inFrame' = inFrame
  BY DEF BecomeAfter
<1>2. RunUntil_(put, now) = put
  BY StateIs DEF RunUntil_
<1>3. waited' = IF Line(put) THEN waited ELSE 0
  BY <1>2 DEF BecomeAfter
<1>4. UnitFine(apu')
  BY <1>1
<1>5. Placed'
  <2>1. now \in 0..(FrameLen + Overshoot)
    BY DEF IInv, Placed
  <2> QED  BY <1>1, <2>1, StateIs DEF Placed
<1>6. Promised'
  BY <1>1 DEF Promised
<1>7. Waited'
  <2>1. waited' \in 0..Slack
    BY <1>3, StateIs
  <2>2. waited' > 0 => Line(apu')
    BY <1>1, <1>3
  <2>3. ~stale' /\ Line(apu') => apu'.earliest + waited' <= now' + Slack
    BY <1>1, <1>3
  <2> QED  BY <2>1, <2>2, <2>3 DEF Waited, Since
<1> QED  BY <1>4, <1>5, <1>6, <1>7 DEF IInv

\* A write that keeps the announced time's promises keeps the invariant.
LEMMA WroteKeeps ==
    ASSUME IInv, NEW ran, Present(ran), NEW put, UnitFine(put), put.last = now,
           put.lastDmc = now \/ put.lastDmc = now + 1, Follows(ran, put),
           Sound(put) \/ (~Sound(ran) /\ put.earliest = ran.earliest),
           inFrame, UNCHANGED <<now, inFrame, stale>>, After(put)
    PROVE  IInv'
<1>1. BecomeAfter(put) /\ dropped' = (dropped /\ put.earliest = apu.earliest)
  BY DEF After
<1>2. Kept(apu, ran) /\ (~stale /\ Line(ran) => ran.earliest + waited <= now + Slack)
  BY DEF Present
<1>3. dropped \in BOOLEAN /\ stale' \in BOOLEAN /\ stale' = stale
  BY DEF IInv, Promised
<1>4. dropped' \in BOOLEAN
  BY <1>1, <1>3
<1>5. ~dropped' => Sound(put)
  BY <1>1, <1>2 DEF IInv, Promised, Kept
<1>6. ~stale => Announced(put)
  BY <1>2 DEF IInv, Promised, Kept, Follows
<1>7. ~stale /\ Line(put) => put.earliest + waited <= now + Slack
  BY <1>2, StateIs DEF Follows
<1> QED  BY <1>1, <1>3, <1>4, <1>5, <1>6, <1>7, AccessKeeps

\* What two writes in a row promise.
LEMMA FollowsOn ==
    ASSUME NEW a, NEW b, NEW c, Follows(a, b), Follows(b, c)
    PROVE  Follows(a, c)
BY DEF Follows

\* An access runs the unit, and the DMC with it.
LEMMA AccessIs ==
    ASSUME IInv, Access
    PROVE  LET ran == RunUntil_(apu, now)
           IN  /\ Present(ran) /\ UnitFine(ran) /\ ran.last = now /\ ran.lastDmc = now
               /\ 0 <= ran.last /\ ran.lastDmc <= 2 * FrameLen
               /\ now + 1 \in Int /\ now + 1 <= 2 * FrameLen
<1>1. apu.last < now
  BY DEF Access
<1>2. apu.lastDmc <= now
  BY <1>1, StateIs
<1>3. Present(RunUntil_(apu, now))
  BY PresentIs
<1>4. FrameLen \in Nat
  BY FrameAssumption
<1> QED  BY <1>2, <1>3, <1>4, StateIs DEF Present

\* $4013 sets the length of the next sample.
LEMMA Write4013Keeps ==
    ASSUME IInv, Write4013
    PROVE  IInv'
<1> DEFINE ran == RunUntil_(apu, now)
<1>1. PICK n \in Lengths : After([ran EXCEPT !.dmc.sample = n])
  BY DEF Write4013
<1> DEFINE put == [ran EXCEPT !.dmc.sample = n]
<1>2. Access /\ inFrame /\ UNCHANGED <<now, inFrame, stale>>
  BY DEF Write4013, Access
<1>3. /\ Present(ran) /\ UnitFine(ran) /\ ran.last = now /\ ran.lastDmc = now
      /\ 0 <= ran.last /\ ran.lastDmc <= 2 * FrameLen
  BY <1>2, AccessIs
<1> HIDE DEF ran
<1>4. Wrote(ran, put)
  BY <1>3, Put4013Is
<1>5. After(put)
  BY <1>1
<1> HIDE DEF put
<1> QED  BY <1>2, <1>3, <1>4, <1>5, WroteKeeps DEF Wrote

\* $4010 sets the DMC's rate and may take its flag down unannounced.
LEMMA Write4010Keeps ==
    ASSUME IInv, Write4010
    PROVE  IInv'
<1> DEFINE ran == RunUntil_(apu, now)
<1>1. PICK p \in Periods, k \in {"irq", "loop", "off"} :
          LET put == RunUntil(Put4010(ran, k = "irq", k = "loop", p), now + 1)
          IN  /\ BecomeAfter(put)
              /\ dropped' = \/ ran.dmc.flag /\ k # "irq"
                            \/ dropped /\ put.earliest = apu.earliest
  BY DEF Write4010
<1> DEFINE irqOn == k = "irq"
           loop == k = "loop"
           x == Put4010(ran, irqOn, loop, p)
           put == RunUntil(x, now + 1)
<1>2. Access /\ inFrame /\ UNCHANGED <<now, inFrame, stale>>
  BY DEF Write4010, Access
<1>3. /\ Present(ran) /\ UnitFine(ran) /\ ran.last = now /\ ran.lastDmc = now
      /\ 0 <= ran.last /\ ran.lastDmc <= 2 * FrameLen /\ now + 1 \in Int /\ now + 1 <= 2 * FrameLen
  BY <1>2, AccessIs
<1>4. /\ BecomeAfter(put)
      /\ dropped' = ((ran.dmc.flag /\ ~irqOn) \/ (dropped /\ put.earliest = apu.earliest))
  BY <1>1
<1>5. irqOn \in BOOLEAN /\ loop \in BOOLEAN /\ ~(irqOn /\ loop)
  OBVIOUS
<1> HIDE DEF ran, irqOn, loop
<1>6. /\ UnitFine(x) /\ SameFrame(ran, x) /\ SameSample(ran, x) /\ Follows(ran, x)
      /\ ~(ran.dmc.flag /\ ~irqOn) => Wrote(ran, x)
  BY <1>3, <1>5, Put4010Is
<1> HIDE DEF x
<1>7. x.last = now /\ x.lastDmc = now /\ 0 <= x.last /\ x.lastDmc <= 2 * FrameLen
  BY <1>3, <1>6 DEF SameFrame, SameSample
<1>8. /\ UnitFine(put) /\ SameFrame(x, put) /\ Follows(x, put)
      /\ Sound(put) \/ (~Sound(x) /\ put.earliest = x.earliest)
      /\ put.lastDmc = x.lastDmc \/ (x.lastDmc < now + 1 /\ put.lastDmc = now + 1)
  BY <1>3, <1>6, <1>7, RunUntilIs
<1> HIDE DEF put
<1>9. Follows(ran, put) /\ put.last = now /\ (put.lastDmc = now \/ put.lastDmc = now + 1)
  BY <1>6, <1>7, <1>8, FollowsOn DEF SameFrame
<1>10. CASE ran.dmc.flag /\ ~irqOn
  <2>1. dropped'
    BY <1>4, <1>10
  <2>2. stale' = stale /\ stale' \in BOOLEAN
    BY <1>2 DEF IInv, Promised
  <2>3. ~stale => Announced(put)
    BY <1>3, <1>9 DEF IInv, Promised, Present, Kept, Follows
  <2>4. ~stale /\ Line(put) => put.earliest + waited <= now + Slack
    BY <1>3, <1>9, StateIs DEF Present, Follows
  <2>5. dropped' \in BOOLEAN
    BY <1>4, <1>10
  <2> QED  BY <1>2, <1>4, <1>8, <1>9, <2>1, <2>2, <2>3, <2>4, <2>5, AccessKeeps
<1>11. CASE ~(ran.dmc.flag /\ ~irqOn)
  <2>1. Sound(put) \/ (~Sound(ran) /\ put.earliest = ran.earliest)
    BY <1>6, <1>8, <1>11 DEF Wrote
  <2>2. After(put)
    BY <1>4, <1>11 DEF After, IInv, Promised
  <2> QED  BY <1>2, <1>3, <1>8, <1>9, <2>1, <2>2, WroteKeeps
<1> QED  BY <1>10, <1>11

\* $4015 starts or ends the sample.
LEMMA Write4015Keeps ==
    ASSUME IInv, Write4015
    PROVE  IInv'
<1> DEFINE ran == RunUntil_(apu, now)
<1>1. PICK on \in BOOLEAN :
          LET put == Put4015(ran, on)
          IN  After(IF on THEN RunUntil(put, now + 1) ELSE put)
  BY DEF Write4015
<1> DEFINE x == Put4015(ran, on)
           put == RunUntil(x, now + 1)
<1>2. Access /\ inFrame /\ UNCHANGED <<now, inFrame, stale>>
  BY DEF Write4015, Access
<1>3. /\ Present(ran) /\ UnitFine(ran) /\ ran.last = now /\ ran.lastDmc = now
      /\ 0 <= ran.last /\ ran.lastDmc <= 2 * FrameLen /\ now + 1 \in Int /\ now + 1 <= 2 * FrameLen
  BY <1>2, AccessIs
<1>4. After(IF on THEN put ELSE x)
  BY <1>1
<1> HIDE DEF ran
<1>5. Wrote(ran, x)
  BY <1>3, Put4015Is
<1> HIDE DEF x
<1>6. UnitFine(x) /\ x.last = now /\ x.lastDmc = now /\ 0 <= x.last /\ x.lastDmc <= 2 * FrameLen
  BY <1>3, <1>5 DEF Wrote
<1>7. /\ UnitFine(put) /\ SameFrame(x, put) /\ Follows(x, put)
      /\ Sound(put) \/ (~Sound(x) /\ put.earliest = x.earliest)
      /\ put.lastDmc = x.lastDmc \/ (x.lastDmc < now + 1 /\ put.lastDmc = now + 1)
  BY <1>3, <1>6, RunUntilIs
<1> HIDE DEF put
<1>8. Follows(ran, put) /\ put.last = now /\ (put.lastDmc = now \/ put.lastDmc = now + 1)
  BY <1>5, <1>6, <1>7, FollowsOn DEF SameFrame, Wrote
<1>9. Sound(put) \/ (~Sound(ran) /\ put.earliest = ran.earliest)
  BY <1>5, <1>7 DEF Wrote
<1>10. CASE on
  BY <1>2, <1>3, <1>4, <1>7, <1>8, <1>9, <1>10, WroteKeeps
<1>11. CASE ~on
  BY <1>2, <1>3, <1>4, <1>5, <1>6, <1>11, WroteKeeps DEF Wrote
<1> QED  BY <1>10, <1>11

\* $4017 sets the frame counter's mode.
LEMMA Write4017Keeps ==
    ASSUME IInv, Write4017
    PROVE  IInv'
<1> DEFINE ran == RunUntil_(apu, now)
<1>1. PICK five \in BOOLEAN, irqOff \in BOOLEAN : After(Put4017(ran, five, irqOff, now))
  BY DEF Write4017
<1> DEFINE put == Put4017(ran, five, irqOff, now)
<1>2. Access /\ inFrame /\ UNCHANGED <<now, inFrame>> /\ stale' = FALSE
  BY DEF Write4017, Access
<1>3. /\ Present(ran) /\ UnitFine(ran) /\ ran.last = now /\ ran.lastDmc = now
      /\ 0 <= ran.last
  BY <1>2, AccessIs
<1>4. After(put)
  BY <1>1
<1> HIDE DEF ran
<1>5. ran \in Units /\ DmcFine(ran) /\ ran.last <= ran.lastDmc
  BY <1>3 DEF UnitFine
<1>6. put = Put4017(ran, five, irqOff, ran.last)
  BY <1>3
<1> HIDE DEF put
<1>7. /\ UnitFine(put) /\ put.last = ran.last /\ put.lastDmc = ran.lastDmc
      /\ Sound(put) /\ (Line(put) => put.earliest = 0) /\ Announced(put)
  BY <1>3, <1>5, <1>6, Put4017Is
<1>8. BecomeAfter(put) /\ dropped' \in BOOLEAN
  BY <1>4 DEF After, IInv, Promised
<1>9. Line(put) => put.earliest + waited <= now + Slack
  BY <1>7, StateIs
<1> QED  BY <1>2, <1>3, <1>7, <1>8, <1>9, AccessKeeps

\* Reading the status takes the frame counter's flag down.
LEMMA ReadStatusKeeps ==
    ASSUME IInv, ReadStatus
    PROVE  IInv'
<1> DEFINE ran == RunUntil_(apu, now)
           put == Acknowledge(ran)
<1>1. Access /\ inFrame /\ UNCHANGED <<now, inFrame, stale>> /\ After(put)
  BY DEF ReadStatus, Access
<1>2. /\ Present(ran) /\ UnitFine(ran) /\ ran.last = now /\ ran.lastDmc = now
      /\ 0 <= ran.last /\ ran.lastDmc <= 2 * FrameLen
  BY <1>1, AccessIs
<1> HIDE DEF ran
<1>3. Wrote(ran, put)
  BY <1>2, AcknowledgeIs
<1> HIDE DEF put
<1> QED  BY <1>1, <1>2, <1>3, WroteKeeps DEF Wrote

\* The CPU's loop runs the DMC alone when it is due to read memory.
LEMMA DmcReadKeeps ==
    ASSUME IInv, DmcRead
    PROVE  IInv'
<1> DEFINE b == RunUntil(apu, now)
<1>1. inFrame /\ BecomeAfter(b) /\ UNCHANGED <<now, stale, inFrame>>
      /\ dropped' = (dropped /\ b.earliest = apu.earliest)
  BY DEF DmcRead, After
<1>2. /\ UnitFine(b) /\ SameFrame(apu, b) /\ b.flag = apu.flag /\ Follows(apu, b)
      /\ Sound(b) \/ (~Sound(apu) /\ b.earliest = apu.earliest)
      /\ b.lastDmc = apu.lastDmc \/ (apu.lastDmc < now /\ b.lastDmc = now)
      /\ Armed(apu) => b.dmc.flag \/ (Armed(b) /\ SampleEnd(b) = SampleEnd(apu))
      /\ apu.dmc.flag => b.dmc.flag
  <2>1. UnitFine(apu) /\ 0 <= apu.last /\ apu.lastDmc <= 2 * FrameLen /\ now \in Int /\ now <= 2 * FrameLen
    BY StateIs, FrameAssumption
  <2> QED  BY <2>1, RunUntilIs
<1>3. apu' = b /\ waited' = IF Line(RunUntil_(b, now)) THEN waited ELSE 0
  BY <1>1 DEF BecomeAfter
<1> HIDE DEF b
<1>4. UnitFine(apu')
  BY <1>2, <1>3
<1>5. Placed'
  <2>1. now \in 0..(FrameLen + Overshoot) /\ inFrame \in BOOLEAN
    BY DEF IInv, Placed
  <2>2. b.last = apu.last
    BY <1>2 DEF SameFrame
  <2>3. b.lastDmc <= now \/ b.lastDmc = b.last + 1
    BY <1>2, <2>2, StateIs
  <2> QED  BY <1>1, <1>3, <2>1, <2>2, <2>3, StateIs DEF Placed
<1>6. Promised'
  <2>1. dropped \in BOOLEAN /\ stale \in BOOLEAN /\ (~dropped => Sound(apu)) /\ (~stale => Announced(apu))
    BY DEF IInv, Promised
  <2>2. dropped' \in BOOLEAN /\ (~dropped' => Sound(b))
    BY <1>1, <1>2, <2>1
  <2>3. ~stale => Announced(b)
    BY <1>2, <2>1 DEF Follows
  <2> QED  BY <1>1, <1>3, <2>1, <2>2, <2>3 DEF Promised
<1>7. Waited'
  <2>1. waited' = waited \/ waited' = 0
    BY <1>3
  <2>2. Since(apu, waited) => Since(b, waited)
    <3>1. (FrameOn(b) <=> FrameOn(apu)) /\ FrameTime(b) = FrameTime(apu)
      BY <1>2 DEF SameFrame, FrameOn, FrameTime
    <3> QED  BY <1>2, <3>1 DEF Since, Line
  <2>3. waited' > 0 => Since(b, waited)
    BY <2>1, <2>2, StateIs DEF IInv, Waited
  <2>4. ~stale /\ Line(b) => b.earliest + waited <= now + Slack
    <3>1. ~stale /\ Line(apu) => apu.earliest + waited <= now + Slack
      BY DEF IInv, Waited
    <3> QED  BY <1>2, <3>1, StateIs DEF Follows
  <2>5. b.earliest \in Int
    BY <1>2 DEF UnitFine, Units
  <2>6. waited' \in 0..Slack
    BY <2>1, StateIs
  <2>7. waited' > 0 => Since(apu, waited)'
    <3>1. waited' > 0 => waited' = waited
      BY <2>1, StateIs
    <3> QED  BY <1>1, <1>3, <2>3, <3>1 DEF Since
  <2>8. ~stale' /\ Line(apu') => apu'.earliest + waited' <= now' + Slack
    BY <1>1, <1>3, <2>1, <2>4, <2>5, StateIs
  <2> QED  BY <2>6, <2>7, <2>8 DEF Waited
<1> QED  BY <1>4, <1>5, <1>6, <1>7 DEF IInv

\* A cycle passes.
LEMMA TickKeeps ==
    ASSUME IInv, Tick
    PROVE  IInv'
<1> DEFINE b == RunUntil_(apu, now + 1)
<1>1. /\ now < FrameLen + Overshoot /\ now' = now + 1 /\ inFrame' = TRUE /\ apu' = apu
      /\ stale' = stale /\ dropped' = dropped
      /\ waited' = IF Line(b) THEN Min2(waited + 1, Slack) ELSE 0
  BY DEF Tick
<1>2. RanTo(apu, b, now + 1)
  BY StateIs, RunUntil_Right
<1> HIDE DEF b
<1>3. UnitFine(apu')
  BY <1>1, StateIs
<1>4. Placed'
  <2>1. now' \in 0..(FrameLen + Overshoot)
    BY <1>1, StateIs, FrameAssumption
  <2> QED  BY <1>1, <2>1, StateIs DEF Placed
<1>5. Promised'
  BY <1>1 DEF IInv, Promised
<1>6. waited' \in 0..Slack
  BY <1>1, StateIs DEF Min2
<1>7. waited' > 0 => Since(apu, waited)'
  <2> SUFFICES ASSUME waited' > 0, ~Line(apu) PROVE Since(apu, waited)'
    BY <1>1 DEF Since
  <2>1. Line(b) /\ waited' <= waited + 1
    BY <1>1, StateIs DEF Min2
  <2>2. CASE waited = 0
    <3>1. \/ Armed(apu) /\ SampleEnd(apu) <= now + 1
          \/ FrameOn(apu) /\ FrameTime(apu) < now + 1
      BY <1>2, <2>1 DEF RanTo, Line, Calm
    <3>2. \/ Armed(apu) /\ SampleEnd(apu) - 1 + waited' <= now + 1
          \/ FrameOn(apu) /\ FrameTime(apu) + waited' <= now + 1
      BY <1>6, <2>1, <2>2, <3>1, StateIs
    <3> QED  BY <1>1, <3>2 DEF Since
  <2>3. CASE waited > 0
    <3>1. Since(apu, waited)
      BY <2>3 DEF IInv, Waited
    <3>2. \/ Armed(apu) /\ SampleEnd(apu) - 1 + waited' <= now + 1
          \/ FrameOn(apu) /\ FrameTime(apu) + waited' <= now + 1
      BY <1>6, <2>1, <3>1, StateIs DEF Since
    <3> QED  BY <1>1, <3>2 DEF Since
  <2> QED  BY <2>2, <2>3, StateIs
<1>8. ~stale' /\ Line(apu') => apu'.earliest + waited' <= now' + Slack
  <2>1. ~stale /\ Line(apu) => apu.earliest + waited <= now + Slack
    BY DEF IInv, Waited
  <2>2. waited' <= waited + 1 /\ waited' \in Int
    BY <1>1, <1>6, StateIs DEF Min2
  <2> QED  BY <1>1, <2>1, <2>2, StateIs
<1>9. Waited'
  BY <1>6, <1>7, <1>8 DEF Waited
<1> QED  BY <1>3, <1>4, <1>5, <1>9 DEF IInv

\* The frame ends.
LEMMA EndFrameKeeps ==
    ASSUME IInv, EndFrame
    PROVE  IInv'
<1> DEFINE ran == RunUntil_(apu, now)
           b == ShiftTimes(ran, FrameLen)
<1>1. /\ now >= FrameLen /\ apu.lastDmc <= now /\ apu' = b /\ now' = now - FrameLen
      /\ inFrame' = FALSE /\ UNCHANGED <<waited, stale, dropped>>
  BY DEF EndFrame
<1>2. Present(ran)
  BY PresentIs
<1> HIDE DEF ran
<1>3. UnitFine(ran) /\ ran.last = now /\ ran.lastDmc = now /\ RanTo(apu, ran, now) /\ ran.earliest \in Int
  BY <1>1, <1>2 DEF Present, UnitFine, Units
<1>4. FrameLen \in Nat /\ FrameLen > 0 /\ Overshoot \in 0..(FrameLen - 1) /\ NoIrq > 2 * FrameLen + 3 /\ NoIrq \in Nat
  BY FrameAssumption, PeriodAssumption
<1>5. /\ UnitFine(b) /\ b.last = ran.last - FrameLen /\ b.lastDmc = ran.lastDmc - FrameLen
      /\ (Line(b) <=> Line(ran)) /\ (Sound(ran) => Sound(b)) /\ (Announced(ran) => Announced(b))
      /\ b.earliest = IF ran.earliest = NoIrq THEN NoIrq
                      ELSE IF ran.earliest < FrameLen THEN 0 ELSE ran.earliest - FrameLen
  <2>1. UnitFine(ran) /\ FrameLen \in Int /\ FrameLen <= ran.last /\ ran.lastDmc <= 2 * FrameLen
    BY <1>1, <1>3, <1>4, StateIs
  <2>2. ShiftedTo(ran, b, FrameLen)
    BY <2>1, ShiftIs
  <2> HIDE DEF b
  <2> QED  BY <2>2 DEF ShiftedTo
<1> HIDE DEF b
<1>6. UnitFine(apu')
  BY <1>1, <1>5
<1>7. Placed'
  <2>1. now' \in 0..(FrameLen + Overshoot)
    <3>1. now \in 0..(FrameLen + Overshoot)
      BY DEF IInv, Placed
    <3> QED  BY <1>1, <1>4, <3>1
  <2>2. b.last = now' /\ b.lastDmc = now' /\ now' \in Int /\ 0 <= now'
    BY <1>1, <1>3, <1>4, <1>5, StateIs
  <2>3. inFrame' \in BOOLEAN
    BY <1>1, Zenon
  <2> QED  BY <1>1, <2>1, <2>2, <2>3 DEF Placed
<1>8. Promised'
  <2>1. dropped \in BOOLEAN /\ stale \in BOOLEAN /\ (~dropped => Sound(apu)) /\ (~stale => Announced(apu))
    BY DEF IInv, Promised
  <2>2. (Sound(apu) => Sound(ran)) /\ (Announced(apu) => Announced(ran))
    BY <1>2 DEF Present, Kept
  <2> QED  BY <1>1, <1>5, <2>1, <2>2 DEF Promised
<1>9. Waited'
  <2>1. waited > 0 => Line(b)
    <3> SUFFICES ASSUME waited > 0 PROVE Line(ran)
      BY <1>5
    <3>1. Since(apu, waited)
      BY DEF IInv, Waited
    <3>2. \/ Line(apu)
          \/ Armed(apu) /\ SampleEnd(apu) <= now
          \/ FrameOn(apu) /\ FrameTime(apu) < now
      BY <3>1, StateIs DEF Since
    <3> QED  BY <1>3, <3>2, StateIs, SinceLine
  <2>2. ~stale /\ Line(b) => b.earliest + waited <= now' + Slack
    <3>1. ~stale /\ Line(b) => ran.earliest + waited <= now + Slack
      BY <1>2, <1>5 DEF Present
    <3> QED  BY <1>1, <1>3, <1>4, <1>5, <3>1, StateIs
  <2> QED  BY <1>1, <2>1, <2>2 DEF IInv, Waited, Since
<1> QED  BY <1>6, <1>7, <1>8, <1>9 DEF IInv

\* A unit just reset has promised nothing.
LEMMA ResetKeeps ==
    ASSUME NEW b, b = ResetApu
    PROVE  /\ UnitFine(b) /\ b.last = 0 /\ b.lastDmc = 0 /\ ~Line(b) /\ Sound(b) /\ Announced(b)
           /\ 0 \in 0..(FrameLen + Overshoot) /\ 0 \in 0..Slack
<1>1. 0 \in 0..(FrameLen + Overshoot) /\ 0 \in 0..Slack
  BY FrameAssumption DEF Slack
<1> QED  BY <1>1, ResetIs

\* The unit starts.
LEMMA Starts == Init => IInv
<1> SUFFICES ASSUME Init PROVE IInv
  OBVIOUS
<1>1. /\ UnitFine(apu) /\ apu.last = 0 /\ apu.lastDmc = 0 /\ ~Line(apu) /\ Sound(apu)
      /\ Announced(apu) /\ 0 \in 0..(FrameLen + Overshoot) /\ 0 \in 0..Slack
  BY ResetKeeps DEF Init
<1>2. Placed
  <2>1. now = 0
    BY DEF Init
  <2>2. inFrame \in BOOLEAN
    BY Zenon DEF Init
  <2> QED  BY <1>1, <2>1, <2>2 DEF Placed
<1>3. Promised
  BY <1>1 DEF Init, Promised
<1>4. Waited
  BY <1>1 DEF Init, Waited
<1> QED  BY <1>1, <1>2, <1>3, <1>4 DEF IInv

\* A reset starts it again.
LEMMA ResetActionKeeps ==
    ASSUME IInv, Reset
    PROVE  IInv'
<1>1. /\ UnitFine(apu') /\ apu'.last = 0 /\ apu'.lastDmc = 0 /\ ~Line(apu') /\ Sound(apu')
      /\ Announced(apu') /\ 0 \in 0..(FrameLen + Overshoot) /\ 0 \in 0..Slack
  BY ResetKeeps DEF Reset
<1>2. Placed'
  BY <1>1 DEF Reset, IInv, Placed
<1>3. Promised'
  BY <1>1 DEF Reset, Promised
<1>4. Waited'
  BY <1>1 DEF Reset, Waited
<1> QED  BY <1>1, <1>2, <1>3, <1>4 DEF IInv

\* Between frames no interrupt is to come at a time already past, so one that
\* has been up is up in the state saved, and in the state loaded.
LEMMA LoadKeeps ==
    ASSUME IInv, Load
    PROVE  IInv'
<1> DEFINE b == LoadState(apu, now)
<1>1. /\ ~inFrame /\ apu' = b /\ stale' = TRUE /\ dropped' = FALSE
      /\ UNCHANGED <<now, waited, inFrame>>
  BY DEF Load
<1>2. apu.last = now /\ apu.lastDmc = now /\ now \in Nat
  BY <1>1, StateIs DEF IInv, Placed
<1>3. /\ UnitFine(b) /\ b.last = now /\ b.lastDmc = now /\ Sound(b) /\ (Line(b) <=> Line(apu))
  BY <1>2, StateIs, LoadIs
<1> HIDE DEF b
<1>4. UnitFine(apu')
  BY <1>1, <1>3
<1>5. Placed'
  BY <1>1, <1>2, <1>3 DEF IInv, Placed
<1>6. Promised'
  BY <1>1, <1>3 DEF Promised
<1>7. waited > 0 => Line(apu)
  <2> SUFFICES ASSUME waited > 0 PROVE Line(apu)
    OBVIOUS
  <2>1. Since(apu, waited)
    BY DEF IInv, Waited
  <2> QED  BY <1>2, <2>1, StateIs DEF Since
<1>8. Waited'
  BY <1>1, <1>3, <1>7 DEF IInv, Waited, Since
<1> QED  BY <1>4, <1>5, <1>6, <1>8 DEF IInv

\* A step that changes nothing keeps the invariant.
LEMMA StutterKeeps ==
    ASSUME IInv, UNCHANGED vars
    PROVE  IInv'
<1>1. UnitFine(apu') /\ Placed' /\ Promised'
  BY DEF IInv, Placed, Promised, vars
<1>2. Waited'
  BY DEF IInv, Waited, Since, vars
<1> QED  BY <1>1, <1>2 DEF IInv

\* What the sound unit's times promise holds on through every access, frame,
\* reset and loaded state.
THEOREM UnitKeepsItsTimes == Spec => []IInv
<1>1. Init => IInv
  BY Starts
<1>2. IInv /\ [Next]_vars => IInv'
  <2> SUFFICES ASSUME IInv, [Next]_vars PROVE IInv'
    OBVIOUS
  <2>1. CASE Next
    BY <2>1, Write4010Keeps, Write4013Keeps, Write4015Keeps, Write4017Keeps, ReadStatusKeeps,
       DmcReadKeeps, TickKeeps, EndFrameKeeps, ResetActionKeeps, LoadKeeps DEF Next
  <2>2. CASE UNCHANGED vars
    BY <2>2, StutterKeeps
  <2> QED  BY <2>1, <2>2
<1> QED  BY <1>1, <1>2, PTL DEF Spec

-----------------------------------------------------------------------------
(* What the CPU is told                                                    *)

\* The CPU is never told of an interrupt that is not there: irq_changed's
\* minimum, the predictions it is taken over and the flags the unit raises
\* when it runs agree on every time announced, a $4010 write that takes the
\* DMC's flag down apart.
THEOREM IrqNeverSpurious == Spec => []NeverSpurious
<1>1. IInv => NeverSpurious
  <2> SUFFICES ASSUME IInv, apu.earliest <= now, ~dropped PROVE Line(RunUntil_(apu, now))
    BY DEF NeverSpurious
  <2> DEFINE ran == RunUntil_(apu, now)
  <2>1. RanTo(apu, ran, now)
    BY PresentIs DEF Present
  <2> HIDE DEF ran
  <2>2. Sound(apu)
    BY DEF IInv, Promised
  <2>3. apu.earliest # NoIrq
    BY StateIs, Constants, FrameAssumption
  <2>4. \/ Line(apu)
        \/ Armed(apu) /\ SampleEnd(apu) <= now
        \/ FrameOn(apu) /\ FrameTime(apu) < now
    BY <2>2, <2>3, StateIs DEF Sound
  <2>5. Line(ran)
    BY <2>1, <2>4, StateIs, SinceLine
  <2> QED  BY <2>5 DEF ran
<1> QED  BY <1>1, UnitKeepsItsTimes, PTL

\* No interrupt stays up for three cycles unannounced, unless a loaded state
\* left the frame counter's next time stale: Nes_Apu trusts next_irq, and the
\* CPU trusts earliest_irq_, through every write, read and end of a frame.
THEOREM IrqNeverMissed == Spec => []NeverMissed
<1>1. IInv => NeverMissed
  <2> SUFFICES ASSUME IInv, waited = Slack, ~stale PROVE apu.earliest <= now
    BY DEF NeverMissed
  <2>1. Since(apu, 3) /\ Announced(apu)
    BY StateIs DEF IInv, Waited, Promised
  <2>2. CASE Line(apu)
    <3>1. apu.earliest + waited <= now + Slack
      BY <2>2 DEF IInv, Waited
    <3> QED  BY <3>1, StateIs
  <2>3. CASE ~Line(apu)
    <3>1. ~apu.flag
      BY <2>3 DEF Line
    <3> QED  BY <2>1, <2>3, <3>1, StateIs DEF Since, Announced
  <2> QED  BY <2>2, <2>3
<1> QED  BY <1>1, UnitKeepsItsTimes, PTL

\* A state saved between frames restores every field of the unit but the two
\* predictions of the frame interrupt, though load_state rewrites $4017, $4015
\* and $4010 on a unit just reset and recomputes the DMC's time.
THEOREM ApuLoadRestores == Spec => []LoadRestores
<1>1. IInv => LoadRestores
  <2> SUFFICES ASSUME IInv, ~inFrame
               PROVE  [LoadState(apu, now) EXCEPT !.earliest = apu.earliest, !.nextIrq = apu.nextIrq] = apu
    BY DEF LoadRestores
  <2>1. UnitFine(apu) /\ apu.last = now /\ apu.lastDmc = now /\ now \in Nat
    BY StateIs DEF IInv, Placed
  <2> QED  BY <2>1, LoadIs
<1> QED  BY <1>1, UnitKeepsItsTimes, PTL

-----------------------------------------------------------------------------
(* The bits left of a byte                                                 *)

\* A remainder.
LEMMA ModIs ==
    ASSUME NEW m \in Nat, m > 0, NEW q \in Int, NEW r \in 0..(m - 1)
    PROVE  (q * m + r) % m = r
<1> DEFINE z == q * m + r  u == z \div m  v == z % m
<1>1. z \in Int /\ q * m \in Int
  OBVIOUS
<1>2. u \in Int /\ v \in 0..(m - 1) /\ z = m * u + v
  <2> HIDE DEF z
  <2> QED  BY <1>1
<1>3. z = q * m + r
  OBVIOUS
<1> SUFFICES v = r
  OBVIOUS
<1> HIDE DEF z, u, v
<1> DEFINE e == q - u
<1>4. e \in Int /\ q = e + u
  BY <1>2
<1>5. q * m = e * m + m * u /\ e * m \in Int
  <2> HIDE DEF e
  <2>1. (e + u) * m = e * m + m * u
    BY <1>2, <1>4
  <2> QED  BY <1>4, <2>1
<1> HIDE DEF e
<1>6. e * m + r = v
  BY <1>1, <1>2, <1>3, <1>5
<1>7. e >= 1 => e * m >= m
  BY <1>4
<1>8. e <= -1 => e * m <= -m
  BY <1>4
<1>9. e = 0 => e * m = 0
  BY <1>4
<1> QED  BY <1>2, <1>4, <1>5, <1>6, <1>7, <1>8, <1>9

\* The remainder of the next number.
LEMMA ModNext ==
    ASSUME NEW m \in Nat, m > 0, NEW n \in Nat
    PROVE  /\ n % m \in 0..(m - 1)
           /\ (n + 1) % m = IF n % m = m - 1 THEN 0 ELSE (n % m) + 1
<1> DEFINE q == n \div m  r == n % m
<1>1. q \in Int /\ r \in 0..(m - 1) /\ n = m * q + r
  OBVIOUS
<1> HIDE DEF q, r
<1>2. m * q = q * m /\ q * m \in Int /\ (q + 1) * m = q * m + m
  BY <1>1
<1>3. CASE r = m - 1
  <2>1. n + 1 = (q + 1) * m + 0 /\ q + 1 \in Int /\ 0 \in 0..(m - 1)
    BY <1>1, <1>2, <1>3
  <2>2. ((q + 1) * m + 0) % m = 0
    BY <2>1, ModIs
  <2> QED  BY <1>1, <1>3, <2>1, <2>2 DEF r
<1>4. CASE r # m - 1
  <2>1. n + 1 = q * m + (r + 1) /\ r + 1 \in 0..(m - 1)
    BY <1>1, <1>2, <1>4
  <2>2. (q * m + (r + 1)) % m = r + 1
    BY <1>1, <2>1, ModIs
  <2> QED  BY <1>1, <1>4, <2>1, <2>2 DEF r
<1> QED  BY <1>3, <1>4

\* the bits left of a byte of m when n more are over, counted down and around from b
Left(m, b, n) == ((b - 1 + m - (n % m)) % m) + 1

\* The bits of a silent byte, counted down and around.
LEMMA SilentBits ==
    ASSUME NEW m \in Nat, m > 0, NEW b \in 1..m, NEW c \in Nat
    PROVE  /\ Left(m, b, c) \in 1..m
           /\ Left(m, b, 0) = b
           /\ Left(m, b, c + 1) = IF Left(m, b, c) > 1 THEN Left(m, b, c) - 1 ELSE m
<1> DEFINE left(n) == Left(m, b, n)
<1>1. ASSUME NEW r \in 0..(m - 1)
      PROVE  (b - 1 + m - r) % m = IF b - 1 < r THEN b - 1 + m - r ELSE b - 1 - r
  <2>1. CASE b - 1 < r
    <3>1. b - 1 + m - r = 0 * m + (b - 1 + m - r) /\ b - 1 + m - r \in 0..(m - 1)
      BY <2>1
    <3>2. (0 * m + (b - 1 + m - r)) % m = b - 1 + m - r
      BY <3>1, ModIs
    <3> QED  BY <2>1, <3>1, <3>2
  <2>2. CASE ~(b - 1 < r)
    <3>1. b - 1 + m - r = 1 * m + (b - 1 - r) /\ b - 1 - r \in 0..(m - 1)
      BY <2>2
    <3>2. (1 * m + (b - 1 - r)) % m = b - 1 - r
      BY <3>1, ModIs
    <3> QED  BY <2>2, <3>1, <3>2
  <2> QED  BY <2>1, <2>2
<1>2. c % m \in 0..(m - 1) /\ (c + 1) % m = IF c % m = m - 1 THEN 0 ELSE (c % m) + 1
  BY ModNext
<1>3. 0 % m = 0
  <2>1. 0 \in 0..(m - 1) /\ 0 = 0 * m + 0
    OBVIOUS
  <2>2. (0 * m + 0) % m = 0
    BY <2>1, ModIs
  <2> QED  BY <2>1, <2>2
<1>4. (c + 1) % m \in 0..(m - 1) /\ 0 % m \in 0..(m - 1)
  BY <1>2, <1>3
<1>5. /\ left(c) = (IF b - 1 < c % m THEN b - 1 + m - (c % m) ELSE b - 1 - (c % m)) + 1
      /\ left(c + 1) = (IF b - 1 < (c + 1) % m THEN b - 1 + m - ((c + 1) % m) ELSE b - 1 - ((c + 1) % m)) + 1
      /\ left(0) = (IF b - 1 < 0 % m THEN b - 1 + m - (0 % m) ELSE b - 1 - (0 % m)) + 1
  BY <1>1, <1>2, <1>4, Zenon DEF Left
<1> HIDE DEF left
<1>6. left(c) \in 1..m /\ left(0) = b /\ (left(c + 1) = IF left(c) > 1 THEN left(c) - 1 ELSE m)
  <2> DEFINE r == c % m  s == (c + 1) % m  z == 0 % m
  <2>1. /\ r \in 0..(m - 1) /\ s = (IF r = m - 1 THEN 0 ELSE r + 1) /\ z = 0
        /\ left(c) = (IF b - 1 < r THEN b - 1 + m - r ELSE b - 1 - r) + 1
        /\ left(c + 1) = (IF b - 1 < s THEN b - 1 + m - s ELSE b - 1 - s) + 1
        /\ left(0) = (IF b - 1 < z THEN b - 1 + m - z ELSE b - 1 - z) + 1
    BY <1>2, <1>3, <1>5
  <2> HIDE DEF r, s, z
  <2> QED  BY <2>1
<1> QED  BY <1>6 DEF left

-----------------------------------------------------------------------------
(* The DMC one cycle at a time                                             *)

\* the frame counters of a and b are the same
FramesAgree(a, b) == SameFrame(a, b) /\ b.flag = a.flag

\* b is a with the DMC d
IsDmc(a, b, d) == b = [a EXCEPT !.dmc = d]

\* Another DMC touches nothing else.
LEMMA DmcReplaced ==
    ASSUME NEW a \in Units, NEW d \in Dmcs, NEW b, IsDmc(a, b, d)
    PROVE  b \in Units /\ b.dmc = d /\ b.lastDmc = a.lastDmc /\ FramesAgree(a, b)
BY DEF IsDmc, Units, FramesAgree, SameFrame

\* the DMC d a bit later
NextBit(d) ==
    IF d.bits > 1 THEN [d EXCEPT !.bits = @ - 1]
    ELSE IF d.len = 0 THEN [d EXCEPT !.bits = ByteBits, !.full = FALSE]
    ELSE IF d.len > 1 THEN [d EXCEPT !.bits = ByteBits, !.full = TRUE, !.len = @ - 1]
    ELSE IF d.loop THEN [d EXCEPT !.bits = ByteBits, !.full = TRUE, !.len = d.sample]
    ELSE [d EXCEPT !.bits = ByteBits, !.full = TRUE, !.len = 0, !.on = FALSE,
                   !.flag = d.irqOn, !.next = NoIrq]

\* A DMC stays one.
LEMMA NextBitType ==
    ASSUME NEW d \in Dmcs
    PROVE  NextBit(d) \in Dmcs /\ NextBit(d).delay = d.delay /\ NextBit(d).period = d.period
<1>1. /\ d.bits \in 1..ByteBits /\ d.len \in Nat /\ d.sample \in Nat /\ d.irqOn \in BOOLEAN
      /\ ByteBits \in 1..ByteBits /\ NoIrq \in Int
  BY Constants DEF Dmcs
<1>2. CASE d.bits > 1
  <2>1. NextBit(d) = [d EXCEPT !.bits = @ - 1] /\ d.bits - 1 \in 1..ByteBits
    BY <1>1, <1>2 DEF NextBit
  <2> QED  BY <2>1 DEF Dmcs
<1>3. CASE ~(d.bits > 1) /\ d.len = 0
  BY <1>1, <1>3 DEF NextBit, Dmcs
<1>4. CASE ~(d.bits > 1) /\ d.len > 1
  <2>1. NextBit(d) = [d EXCEPT !.bits = ByteBits, !.full = TRUE, !.len = @ - 1] /\ d.len - 1 \in Nat
    BY <1>1, <1>4 DEF NextBit
  <2> QED  BY <1>1, <2>1 DEF Dmcs
<1>5. CASE ~(d.bits > 1) /\ d.len = 1 /\ d.loop
  <2>1. NextBit(d) = [d EXCEPT !.bits = ByteBits, !.full = TRUE, !.len = d.sample]
    BY <1>1, <1>5 DEF NextBit
  <2> QED  BY <1>1, <2>1 DEF Dmcs
<1>6. CASE ~(d.bits > 1) /\ d.len = 1 /\ ~d.loop
  <2>1. NextBit(d) = [d EXCEPT !.bits = ByteBits, !.full = TRUE, !.len = 0, !.on = FALSE,
                               !.flag = d.irqOn, !.next = NoIrq]
    BY <1>1, <1>6 DEF NextBit
  <2>2. [d EXCEPT !.bits = ByteBits, !.full = TRUE, !.len = 0] \in Dmcs
    BY <1>1 DEF Dmcs
  <2> DEFINE e == [d EXCEPT !.bits = ByteBits, !.full = TRUE, !.len = 0]
  <2>3. NextBit(d) = [e EXCEPT !.on = FALSE, !.flag = d.irqOn, !.next = NoIrq]
    BY <2>1 DEF Dmcs
  <2>4. e.delay = d.delay /\ e.period = d.period
    BY DEF Dmcs
  <2> DEFINE flag == d.irqOn  c == NextBit(d)
  <2>5. e \in Dmcs /\ flag \in BOOLEAN /\ c = [e EXCEPT !.on = FALSE, !.flag = flag, !.next = NoIrq]
    BY <1>1, <2>2, <2>3
  <2> HIDE DEF e, flag, c
  <2>6. c \in Dmcs /\ c.delay = e.delay /\ c.period = e.period
    BY <1>1, <2>5 DEF Dmcs
  <2> QED  BY <2>4, <2>6 DEF c
<1> QED  BY <1>1, <1>2, <1>3, <1>4, <1>5, <1>6

\* A bit does not depend on the DMC's clock.
LEMMA NextBitClock ==
    ASSUME NEW d \in Dmcs, NEW n \in Nat
    PROVE  NextBit([d EXCEPT !.delay = n]) = [NextBit(d) EXCEPT !.delay = n]
<1> DEFINE e == [d EXCEPT !.delay = n]
<1>1. /\ e.bits = d.bits /\ e.len = d.len /\ e.loop = d.loop /\ e.sample = d.sample
      /\ e.irqOn = d.irqOn
  BY DEF Dmcs
<1>2. CASE d.bits > 1
  <2>1. NextBit(e) = [e EXCEPT !.bits = @ - 1] /\ NextBit(d) = [d EXCEPT !.bits = @ - 1]
    BY <1>1, <1>2 DEF NextBit
  <2> QED  BY <2>1 DEF Dmcs
<1>3. CASE ~(d.bits > 1) /\ d.len = 0
  <2>1. /\ NextBit(e) = [e EXCEPT !.bits = ByteBits, !.full = FALSE]
        /\ NextBit(d) = [d EXCEPT !.bits = ByteBits, !.full = FALSE]
    BY <1>1, <1>3, Zenon DEF NextBit
  <2> QED  BY <2>1 DEF Dmcs
<1>4. CASE ~(d.bits > 1) /\ d.len # 0 /\ d.len > 1
  <2>1. /\ NextBit(e) = [e EXCEPT !.bits = ByteBits, !.full = TRUE, !.len = @ - 1]
        /\ NextBit(d) = [d EXCEPT !.bits = ByteBits, !.full = TRUE, !.len = @ - 1]
    BY <1>1, <1>4, Zenon DEF NextBit
  <2> QED  BY <2>1 DEF Dmcs
<1>5. CASE ~(d.bits > 1) /\ d.len # 0 /\ ~(d.len > 1) /\ d.loop
  <2>1. /\ NextBit(e) = [e EXCEPT !.bits = ByteBits, !.full = TRUE, !.len = e.sample]
        /\ NextBit(d) = [d EXCEPT !.bits = ByteBits, !.full = TRUE, !.len = d.sample]
    BY <1>1, <1>5, Zenon DEF NextBit
  <2> QED  BY <1>1, <2>1 DEF Dmcs
<1>6. CASE ~(d.bits > 1) /\ d.len # 0 /\ ~(d.len > 1) /\ ~d.loop
  <2>1. /\ NextBit(e) = [e EXCEPT !.bits = ByteBits, !.full = TRUE, !.len = 0, !.on = FALSE,
                                  !.flag = e.irqOn, !.next = NoIrq]
        /\ NextBit(d) = [d EXCEPT !.bits = ByteBits, !.full = TRUE, !.len = 0, !.on = FALSE,
                                  !.flag = d.irqOn, !.next = NoIrq]
    BY <1>1, <1>6, Zenon DEF NextBit
  <2> DEFINE flag == d.irqOn  u == NextBit(e)  v == NextBit(d)
  <2>2. /\ e = [d EXCEPT !.delay = n]
        /\ u = [e EXCEPT !.bits = ByteBits, !.full = TRUE, !.len = 0, !.on = FALSE,
                         !.flag = flag, !.next = NoIrq]
        /\ v = [d EXCEPT !.bits = ByteBits, !.full = TRUE, !.len = 0, !.on = FALSE,
                         !.flag = flag, !.next = NoIrq]
    BY <1>1, <2>1
  <2> HIDE DEF e, flag, u, v
  <2>3. u = [v EXCEPT !.delay = n]
    BY <2>2 DEF Dmcs
  <2> QED  BY <2>3 DEF u, v, e
<1> QED  BY <1>2, <1>3, <1>4, <1>5, <1>6

\* One turn of run's loop is a bit of the DMC.
LEMMA NextBitIs ==
    ASSUME NEW a \in Units
    PROVE  LET b == BitOver(a)
           IN  /\ b \in Units /\ b.dmc = NextBit(a.dmc) /\ b.lastDmc = a.lastDmc
               /\ FramesAgree(a, b)
<1> DEFINE b == BitOver(a)
           d == NextBit(a.dmc)
           y == [a EXCEPT !.dmc = d]
<1>1. a.dmc \in Dmcs /\ d \in Dmcs
  BY NextBitType DEF Units
<1>2. /\ a.dmc.bits \in 1..ByteBits /\ a.dmc.len \in Nat /\ a.dmc.irqOn \in BOOLEAN
  BY <1>1 DEF Dmcs
<1>3. y \in Units /\ y.dmc = d /\ y.lastDmc = a.lastDmc /\ FramesAgree(a, y)
  <2> HIDE DEF d
  <2>1. IsDmc(a, y, d)
    BY DEF IsDmc
  <2> HIDE DEF y
  <2> QED  BY <1>1, <2>1, DmcReplaced
<1>4. b = y \/ b = IrqChanged(y)
  <2>1. CASE a.dmc.bits > 1
    <3>1. d = [a.dmc EXCEPT !.bits = @ - 1]
      BY <2>1 DEF NextBit
    <3>2. b = [a EXCEPT !.dmc.bits = @ - 1]
      BY <2>1 DEF BitOver
    <3> QED  BY <3>1, <3>2 DEF Units
  <2> DEFINE x == [a EXCEPT !.dmc.bits = ByteBits, !.dmc.full = FALSE]
             e == [a.dmc EXCEPT !.bits = ByteBits, !.full = FALSE]
  <2>2. x = [a EXCEPT !.dmc = e]
    BY DEF Units
  <2>3. /\ ~e.full /\ e.len = a.dmc.len /\ e.loop = a.dmc.loop /\ e.sample = a.dmc.sample
        /\ e.irqOn = a.dmc.irqOn
    BY <1>1 DEF Dmcs
  <2>4. x.dmc = e
    BY <2>2 DEF Units
  <2>5. ~(a.dmc.bits > 1) => b = FillBuffer(x)
    BY DEF BitOver
  <2>6. CASE ~(a.dmc.bits > 1) /\ a.dmc.len = 0
    <3>1. d = e
      BY <2>6 DEF NextBit
    <3>2. b = x
      <4> HIDE DEF x, e, b
      <4> QED  BY <2>3, <2>4, <2>5, <2>6 DEF FillBuffer
    <3> QED  BY <2>2, <3>1, <3>2
  <2>7. CASE ~(a.dmc.bits > 1) /\ a.dmc.len > 1
    <3>1. d = [e EXCEPT !.full = TRUE, !.len = @ - 1]
      <4> DEFINE z == a.dmc
      <4>1. NextBit(z) = [z EXCEPT !.bits = ByteBits, !.full = TRUE, !.len = @ - 1]
        BY <1>2, <2>7 DEF NextBit
      <4>2. z \in Dmcs
        BY <1>1
      <4> HIDE DEF z
      <4>3. NextBit(z) = [[z EXCEPT !.bits = ByteBits, !.full = FALSE] EXCEPT !.full = TRUE, !.len = @ - 1]
        BY <4>1, <4>2 DEF Dmcs
      <4> QED  BY <4>3 DEF z
    <3>2. b = [x EXCEPT !.dmc.full = TRUE, !.dmc.len = @ - 1]
      <4> HIDE DEF x, e, b
      <4> QED  BY <1>2, <2>3, <2>4, <2>5, <2>7 DEF FillBuffer
    <3> HIDE DEF x, e, b, d
    <3> QED  BY <2>2, <3>1, <3>2 DEF Units
  <2>8. CASE ~(a.dmc.bits > 1) /\ a.dmc.len = 1 /\ a.dmc.loop
    <3>1. d = [e EXCEPT !.full = TRUE, !.len = e.sample]
      <4> DEFINE z == a.dmc
      <4>1. NextBit(z) = [z EXCEPT !.bits = ByteBits, !.full = TRUE, !.len = z.sample]
        BY <1>2, <2>8 DEF NextBit
      <4>2. z \in Dmcs
        BY <1>1
      <4> HIDE DEF z
      <4>3. NextBit(z) = [[z EXCEPT !.bits = ByteBits, !.full = FALSE] EXCEPT !.full = TRUE,
                         !.len = [z EXCEPT !.bits = ByteBits, !.full = FALSE].sample]
        BY <4>1, <4>2 DEF Dmcs
      <4> QED  BY <4>3 DEF z
    <3>2. b = [x EXCEPT !.dmc.full = TRUE, !.dmc.len = x.dmc.sample]
      <4> HIDE DEF x, e, b
      <4>1. ~x.dmc.full /\ x.dmc.len # 0 /\ ~(x.dmc.len > 1) /\ x.dmc.loop
        <5>1. x.dmc.loop
          BY <2>3, <2>4, <2>8, Zenon
        <5> QED  BY <2>3, <2>4, <2>8, <5>1
      <4> QED  BY <2>5, <2>8, <4>1 DEF FillBuffer
    <3> HIDE DEF x, e, b, d
    <3> QED  BY <2>2, <2>4, <3>1, <3>2 DEF Units
  <2>9. CASE ~(a.dmc.bits > 1) /\ a.dmc.len = 1 /\ ~a.dmc.loop
    <3>1. d = [e EXCEPT !.full = TRUE, !.len = 0, !.on = FALSE, !.flag = e.irqOn, !.next = NoIrq]
      <4> DEFINE z == a.dmc
      <4>1. NextBit(z) = [z EXCEPT !.bits = ByteBits, !.full = TRUE, !.len = 0, !.on = FALSE,
                          !.flag = z.irqOn, !.next = NoIrq]
        BY <1>2, <2>9 DEF NextBit
      <4>2. z \in Dmcs
        BY <1>1
      <4> HIDE DEF z
      <4>3. NextBit(z) = [[z EXCEPT !.bits = ByteBits, !.full = FALSE] EXCEPT !.full = TRUE,
                         !.len = 0, !.on = FALSE,
                         !.flag = [z EXCEPT !.bits = ByteBits, !.full = FALSE].irqOn,
                         !.next = NoIrq]
        BY <4>1, <4>2 DEF Dmcs
      <4> QED  BY <4>3 DEF z
    <3>2. b = IrqChanged([x EXCEPT !.dmc.full = TRUE, !.dmc.len = 0, !.dmc.on = FALSE,
                                   !.dmc.flag = x.dmc.irqOn, !.dmc.next = NoIrq])
      <4> HIDE DEF x, e, b
      <4> QED  BY <1>2, <2>3, <2>4, <2>5, <2>9 DEF FillBuffer
    <3>3. [x EXCEPT !.dmc.full = TRUE, !.dmc.len = 0, !.dmc.on = FALSE,
                    !.dmc.flag = x.dmc.irqOn, !.dmc.next = NoIrq] = y
      <4> HIDE DEF x, e, b, d
      <4> QED  BY <2>2, <2>4, <3>1 DEF Units
    <3> QED  BY <3>2, <3>3
  <2> QED  BY <1>2, <2>1, <2>6, <2>7, <2>8, <2>9
<1> HIDE DEF b, d, y
<1>5. CASE b = IrqChanged(y)
  <2>1. b \in Units /\ b.dmc = y.dmc /\ b.lastDmc = y.lastDmc /\ Beside(y, b)
    BY <1>3, <1>5, IrqChangedIs
  <2> QED  BY <1>3, <2>1 DEF Beside, FramesAgree, SameFrame, b, d
<1> QED  BY <1>3, <1>4, <1>5 DEF b, d

\* the DMC c bits later, as run has it: bit by bit, or in one go where it is silent
BitsOn(a, c) ==
    IF a.dmc.full THEN BitRun(a, c)[c].dmc
    ELSE [a.dmc EXCEPT !.bits = ((@ - 1 + ByteBits - (c % ByteBits)) % ByteBits) + 1]

\* The turns of run's loop do not depend on how many there will be.
LEMMA BitRunPrefix ==
    ASSUME NEW a \in Units, DmcRight(a), ~Armed(a) => a.dmc.next = NoIrq, NEW n \in Nat
    PROVE  \A k \in 0..n : BitRun(a, n + 1)[k] = BitRun(a, n)[k]
<1> DEFINE g == BitRun(a, n)
           h == BitRun(a, n + 1)
<1>1. g[0] = a /\ \A k \in 1..n : g[k] = BitOver(g[k - 1])
  BY BitRunIs
<1>2. h[0] = a /\ \A k \in 1..(n + 1) : h[k] = BitOver(h[k - 1])
  <2>1. n + 1 \in Nat
    OBVIOUS
  <2> QED  BY <2>1, BitRunIs
<1> HIDE DEF g, h
<1> DEFINE Done == {k \in Nat : k <= n => h[k] = g[k]}
<1>3. 0 \in Done
  BY <1>1, <1>2
<1>4. ASSUME NEW k \in Nat, k \in Done PROVE k + 1 \in Done
  <2> SUFFICES ASSUME k + 1 <= n PROVE h[k + 1] = g[k + 1]
    OBVIOUS
  <2>1. k + 1 \in 1..n /\ k + 1 \in 1..(n + 1) /\ (k + 1) - 1 = k /\ h[k] = g[k]
    BY <1>4
  <2>2. h[k + 1] = BitOver(h[(k + 1) - 1]) /\ g[k + 1] = BitOver(g[(k + 1) - 1])
    BY <1>1, <1>2, <2>1
  <2> QED  BY <2>1, <2>2
<1>5. Nat \subseteq Done
  <2> HIDE DEF Done
  <2> QED  BY <1>3, <1>4, Induction
<1>6. \A k \in 0..n : h[k] = g[k]
  BY <1>5
<1> QED  BY <1>6 DEF g, h

\* However run gets there, c bits later is c times a bit later.
LEMMA BitsOnIs ==
    ASSUME NEW a \in Units, DmcRight(a), ~Armed(a) => a.dmc.next = NoIrq, NEW c \in Nat
    PROVE  /\ BitsOn(a, c) \in Dmcs /\ BitsOn(a, 0) = a.dmc
           /\ BitsOn(a, c + 1) = NextBit(BitsOn(a, c))
           /\ BitsOn(a, c).delay = a.dmc.delay /\ BitsOn(a, c).period = a.dmc.period
<1>1. a.dmc \in Dmcs /\ a.dmc.bits \in 1..ByteBits /\ ByteBits \in Nat /\ ByteBits > 0 /\ c + 1 \in Nat
      /\ a.dmc.len \in Nat /\ a.dmc.full \in BOOLEAN
  BY Constants DEF Units, Dmcs
<1>2. CASE a.dmc.full
  <2> DEFINE g == BitRun(a, c)
             h == BitRun(a, c + 1)
  <2>1. /\ g[0] = a /\ BitsTo(a, g[c], c)
        /\ h[c + 1] = BitOver(h[c])
        /\ BitRun(a, 0)[0] = a
    <3>1. g[0] = a /\ \A k \in 0..c : BitsTo(a, g[k], k)
      BY BitRunIs
    <3>2. \A k \in 1..(c + 1) : h[k] = BitOver(h[k - 1])
      BY <1>1, BitRunIs
    <3>3. c \in 0..c /\ c + 1 \in 1..(c + 1) /\ (c + 1) - 1 = c
      OBVIOUS
    <3>4. BitRun(a, 0)[0] = a
      <4>1. 0 \in Nat
        OBVIOUS
      <4> QED  BY <4>1, BitRunIs
    <3> HIDE DEF g, h
    <3>5. h[c + 1] = BitOver(h[(c + 1) - 1])
      BY <3>2, <3>3
    <3> QED  BY <3>1, <3>3, <3>4, <3>5
  <2>2. h[c] = g[c]
    <3>1. c \in 0..c
      OBVIOUS
    <3> QED  BY <3>1, BitRunPrefix
  <2>3. BitsOn(a, c) = g[c].dmc /\ BitsOn(a, c + 1) = h[c + 1].dmc /\ BitsOn(a, 0) = BitRun(a, 0)[0].dmc
    BY <1>2 DEF BitsOn
  <2> HIDE DEF g, h
  <2>4. g[c] \in Units /\ g[c].dmc.delay = a.dmc.delay /\ g[c].dmc.period = a.dmc.period
    BY <2>1 DEF BitsTo, Beside
  <2>5. g[c].dmc \in Dmcs
    BY <2>4 DEF Units
  <2>6. h[c + 1].dmc = NextBit(g[c].dmc)
    <3>1. BitOver(g[c]).dmc = NextBit(g[c].dmc)
      BY <2>4, NextBitIs
    <3> QED  BY <2>1, <2>2, <3>1
  <2> QED  BY <2>1, <2>3, <2>4, <2>5, <2>6
<1>3. CASE ~a.dmc.full
  <2> DEFINE d == a.dmc
             left(n) == Left(ByteBits, d.bits, n)
  <2>1. /\ left(c) \in 1..ByteBits /\ left(0) = d.bits
        /\ left(c + 1) = IF left(c) > 1 THEN left(c) - 1 ELSE ByteBits
    <3> DEFINE b == d.bits  m == ByteBits
    <3>1. b \in 1..m /\ m \in Nat /\ m > 0
      BY <1>1
    <3> HIDE DEF d, b, m
    <3>2. /\ Left(m, b, c) \in 1..m /\ Left(m, b, 0) = b
          /\ Left(m, b, c + 1) = IF Left(m, b, c) > 1 THEN Left(m, b, c) - 1 ELSE m
      BY <3>1, SilentBits
    <3> QED  BY <3>2 DEF b, m
  <2>2. /\ BitsOn(a, c) = [d EXCEPT !.bits = left(c)]
        /\ BitsOn(a, c + 1) = [d EXCEPT !.bits = left(c + 1)]
        /\ BitsOn(a, 0) = [d EXCEPT !.bits = left(0)]
    BY <1>3 DEF BitsOn, Left
  <2>3. d.len = 0 /\ d \in Dmcs /\ ~d.full /\ d.full \in BOOLEAN
    BY <1>1, <1>3 DEF DmcRight
  <2> DEFINE l == left(c)  m == left(c + 1)  e == [d EXCEPT !.bits = l]
  <2>4. BitsOn(a, c) = e /\ BitsOn(a, c + 1) = [d EXCEPT !.bits = m] /\ l \in 1..ByteBits
        /\ m = IF l > 1 THEN l - 1 ELSE ByteBits
    BY <2>1, <2>2
  <2>5. BitsOn(a, 0) = d
    <3> DEFINE z == left(0)
    <3>1. z = d.bits /\ BitsOn(a, 0) = [d EXCEPT !.bits = z]
      BY <2>1, <2>2
    <3> HIDE DEF z
    <3> QED  BY <2>3, <3>1 DEF Dmcs
  <2> HIDE DEF d, l, m, left
  <2>6. e \in Dmcs /\ e.bits = l /\ e.len = 0 /\ ~e.full /\ e.delay = d.delay /\ e.period = d.period
    BY <2>3, <2>4 DEF Dmcs
  <2>7. NextBit(e) = [d EXCEPT !.bits = m]
    <3>1. CASE l > 1
      <4>1. NextBit(e) = [e EXCEPT !.bits = @ - 1]
        BY <2>6, <3>1 DEF NextBit
      <4> QED  BY <2>3, <2>4, <3>1, <4>1 DEF Dmcs
    <3>2. CASE ~(l > 1)
      <4>1. NextBit(e) = [e EXCEPT !.bits = ByteBits, !.full = FALSE]
        <5> HIDE DEF e
        <5> QED  BY <2>6, <3>2 DEF NextBit
      <4>2. d.full = FALSE
        BY <2>3
      <4> QED  BY <2>3, <2>4, <3>2, <4>1, <4>2 DEF Dmcs
    <3> QED  BY <3>1, <3>2
  <2> HIDE DEF e
  <2> QED  BY <2>4, <2>5, <2>6, <2>7 DEF d
<1> QED  BY <1>1, <1>2, <1>3

\* the DMC d a cycle later
NextCycle(d) ==
    IF d.delay > 0 THEN [d EXCEPT !.delay = @ - 1]
    ELSE [NextBit(d) EXCEPT !.delay = d.period - 1]

\* A DMC stays one.
LEMMA NextCycleType ==
    ASSUME NEW d \in Dmcs
    PROVE  NextCycle(d) \in Dmcs
<1>1. d.delay \in Nat /\ d.period \in Periods /\ d.period \in Nat /\ d.period > 0
  BY Constants DEF Dmcs
<1>2. CASE d.delay > 0
  <2>1. NextCycle(d) = [d EXCEPT !.delay = @ - 1] /\ d.delay - 1 \in Nat
    BY <1>1, <1>2 DEF NextCycle
  <2> QED  BY <2>1 DEF Dmcs
<1>3. CASE ~(d.delay > 0)
  <2>1. NextCycle(d) = [NextBit(d) EXCEPT !.delay = d.period - 1] /\ d.period - 1 \in Nat
    BY <1>1, <1>3 DEF NextCycle
  <2>2. NextBit(d) \in Dmcs
    BY NextBitType
  <2> QED  BY <2>1, <2>2 DEF Dmcs
<1> QED  BY <1>2, <1>3

\* b is a with the DMC d, run up to e
IsTicked(a, b, e, d) == b = [a EXCEPT !.lastDmc = e, !.dmc = d]

\* A DMC run on touches nothing else.
LEMMA Ticked ==
    ASSUME NEW a \in Units, NEW e \in Int, NEW d \in Dmcs, NEW b, IsTicked(a, b, e, d)
    PROVE  b \in Units /\ b.dmc = d /\ b.lastDmc = e /\ FramesAgree(a, b)
BY DEF IsTicked, Units, FramesAgree, SameFrame

\* One cycle of the DMC.
LEMMA CycleDmcIs ==
    ASSUME NEW a \in Units
    PROVE  LET b == CycleDmc(a)
           IN  /\ b \in Units /\ b.dmc = NextCycle(a.dmc) /\ b.lastDmc = a.lastDmc + 1
               /\ FramesAgree(a, b)
<1> DEFINE d == NextCycle(a.dmc)
           b == CycleDmc(a)
<1>1. a.dmc \in Dmcs /\ d \in Dmcs /\ a.lastDmc \in Int
  BY NextCycleType DEF Units
<1>2. CASE a.dmc.delay > 0
  <2>1. b = [a EXCEPT !.lastDmc = @ + 1, !.dmc.delay = @ - 1]
    BY <1>2 DEF CycleDmc
  <2>2. d = [a.dmc EXCEPT !.delay = @ - 1]
    BY <1>2 DEF NextCycle
  <2>3. b = [a EXCEPT !.lastDmc = @ + 1, !.dmc = d]
    BY <2>1, <2>2 DEF Units
  <2>4. IsTicked(a, b, a.lastDmc + 1, d)
    BY <2>3 DEF IsTicked
  <2> HIDE DEF b, d
  <2>5. b \in Units /\ b.dmc = d /\ b.lastDmc = a.lastDmc + 1 /\ FramesAgree(a, b)
    BY <1>1, <2>4, Ticked
  <2> QED  BY <2>5 DEF b, d
<1>3. CASE ~(a.dmc.delay > 0)
  <2> DEFINE c == BitOver(a)
  <2>1. b = [c EXCEPT !.lastDmc = @ + 1, !.dmc.delay = a.dmc.period - 1]
    BY <1>3 DEF CycleDmc
  <2>2. d = [NextBit(a.dmc) EXCEPT !.delay = a.dmc.period - 1]
    BY <1>3 DEF NextCycle
  <2>3. c \in Units /\ c.dmc = NextBit(a.dmc) /\ c.lastDmc = a.lastDmc /\ FramesAgree(a, c)
    BY NextBitIs
  <2> HIDE DEF b, c, d
  <2>4. b = [c EXCEPT !.lastDmc = @ + 1, !.dmc = d]
    BY <2>1, <2>2, <2>3 DEF Units
  <2>5. b \in Units /\ b.dmc = d /\ b.lastDmc = a.lastDmc + 1 /\ FramesAgree(c, b)
    <3>1. IsTicked(c, b, a.lastDmc + 1, d)
      BY <2>3, <2>4 DEF IsTicked
    <3> QED  BY <1>1, <2>3, <3>1, Ticked
  <2>6. FramesAgree(a, b)
    BY <2>3, <2>5 DEF FramesAgree, SameFrame
  <2> QED  BY <2>5, <2>6 DEF b, d
<1> QED  BY <1>2, <1>3

\* the bits over when the DMC has run to end, and when the next one is
BitsOver(a, end) == BitsUntil(a.lastDmc + a.dmc.delay, end, a.dmc.period)
NextDelay(a, end) == a.lastDmc + a.dmc.delay + BitsOver(a, end) * a.dmc.period - end

\* The DMC that run leaves.
LEMMA DmcAt ==
    ASSUME NEW a \in Units, DmcFine(a), NEW end \in Int, a.lastDmc <= end
    PROVE  /\ RunDmc(a, end).lastDmc = end
           /\ RunDmc(a, end).dmc = [BitsOn(a, BitsOver(a, end)) EXCEPT !.delay = NextDelay(a, end)]
           /\ BitsOver(a, end) \in Nat /\ NextDelay(a, end) \in Nat
<1> DEFINE start == a.lastDmc + a.dmc.delay
           p == a.dmc.period
           c == BitsOver(a, end)
           n == NextDelay(a, end)
           b == RunDmc(a, end)
<1>1. /\ a.dmc \in Dmcs /\ a.lastDmc \in Int /\ a.dmc.delay \in Nat /\ start \in Int
      /\ p \in Nat /\ p > 0 /\ start >= a.lastDmc
  BY Constants DEF Units, Dmcs
<1>2. /\ c \in Nat
      /\ end <= start => c = 0
      /\ start < end => end <= start + c * p
  <2> HIDE DEF start, p
  <2>1. /\ BitsUntil(start, end, p) \in Nat
        /\ end <= start => BitsUntil(start, end, p) = 0
        /\ start < end => end <= start + BitsUntil(start, end, p) * p
    BY <1>1, BitsFit
  <2> QED  BY <2>1 DEF BitsOver, start, p
<1>3. n = start + c * p - end /\ n \in Nat
  <2>1. n = start + c * p - end
    BY DEF NextDelay
  <2> HIDE DEF start, c, p, n
  <2>2. c * p \in Nat /\ (c = 0 => c * p = 0)
    BY <1>1, <1>2
  <2> QED  BY <1>1, <1>2, <2>1, <2>2
<1>4. DmcRight(a) /\ (~Armed(a) => a.dmc.next = NoIrq)
  BY DEF DmcFine
<1>5. CASE a.lastDmc = end
  <2>1. b = a
    BY <1>1, <1>5 DEF RunDmc
  <2>2. c = 0
    BY <1>1, <1>2, <1>5
  <2>3. n = a.dmc.delay
    <3> HIDE DEF c, n
    <3>1. c * p = 0
      BY <1>1, <2>2
    <3> QED  BY <1>1, <1>3, <1>5, <3>1
  <2>4. BitsOn(a, c) = a.dmc
    <3> HIDE DEF c
    <3> QED  BY <1>2, <1>4, <2>2, BitsOnIs
  <2> HIDE DEF b, c, n
  <2>5. [a.dmc EXCEPT !.delay = n] = a.dmc
    BY <1>1, <2>3 DEF Dmcs
  <2>6. b.lastDmc = end /\ b.dmc = [BitsOn(a, c) EXCEPT !.delay = n]
    BY <1>5, <2>1, <2>4, <2>5
  <2> QED  BY <1>2, <1>3, <2>6 DEF b, c, n
<1>6. CASE a.lastDmc < end
  <2> DEFINE ran == IF a.dmc.full THEN BitRun(a, c)[c]
                    ELSE [a EXCEPT !.dmc.bits =
                              ((@ - 1 + ByteBits - (c % ByteBits)) % ByteBits) + 1]
  <2>1. b = [ran EXCEPT !.lastDmc = end, !.dmc.delay = n]
    <3>1. ~(a.lastDmc >= end)
      BY <1>1, <1>6
    <3>2. b = [ran EXCEPT !.lastDmc = end, !.dmc.delay = start + c * p - end]
      BY <3>1, Zenon DEF RunDmc, BitRun, BitsOver
    <3> HIDE DEF n, ran, b, start, c, p
    <3> QED  BY <1>3, <3>2
  <2>2. ran.dmc = BitsOn(a, c) /\ ran \in Units
    <3>1. CASE a.dmc.full
      <4>1. ran = BitRun(a, c)[c] /\ BitsOn(a, c) = BitRun(a, c)[c].dmc
        BY <3>1 DEF BitsOn
      <4>2. BitsTo(a, BitRun(a, c)[c], c)
        <5> HIDE DEF c
        <5>1. c \in 0..c
          BY <1>2
        <5> QED  BY <1>2, <1>4, <5>1, BitRunIs
      <4> HIDE DEF c, ran
      <4> QED  BY <4>1, <4>2 DEF BitsTo
    <3>2. CASE ~a.dmc.full
      <4> DEFINE l == Left(ByteBits, a.dmc.bits, c)
      <4>1. ran = [a EXCEPT !.dmc.bits = l] /\ BitsOn(a, c) = [a.dmc EXCEPT !.bits = l]
        BY <3>2 DEF BitsOn, Left
      <4>2. l \in 1..ByteBits
        <5> DEFINE m == ByteBits  i == a.dmc.bits
        <5>1. i \in 1..m /\ m \in Nat /\ m > 0
          BY <1>1, Constants DEF Dmcs
        <5> HIDE DEF m, i, c
        <5>2. Left(m, i, c) \in 1..m
          BY <1>2, <5>1, SilentBits
        <5> QED  BY <5>2 DEF m, i
      <4> HIDE DEF ran, l, c
      <4> QED  BY <1>1, <4>1, <4>2 DEF Units, Dmcs
    <3> QED  BY <3>1, <3>2
  <2> HIDE DEF ran, b, c, n
  <2>3. b.lastDmc = end /\ b.dmc = [BitsOn(a, c) EXCEPT !.delay = n]
    BY <2>1, <2>2 DEF Units
  <2> QED  BY <1>2, <1>3, <2>3 DEF b, c, n
<1> QED  BY <1>1, <1>5, <1>6

\* Run a cycle further, the DMC is what a cycle makes of it.
LEMMA DmcNext ==
    ASSUME NEW a \in Units, DmcFine(a), NEW end \in Int, a.lastDmc <= end
    PROVE  RunDmc(a, end + 1).dmc = NextCycle(RunDmc(a, end).dmc)
<1> DEFINE start == a.lastDmc + a.dmc.delay
           p == a.dmc.period
           c == BitsOver(a, end)
           n == NextDelay(a, end)
           e == BitsOn(a, c)
<1>1. /\ a.lastDmc \in Int /\ a.dmc.delay \in Nat /\ start \in Int
      /\ p \in Nat /\ p > 0 /\ end + 1 \in Int /\ a.lastDmc <= end + 1
  BY Constants DEF Units, Dmcs
<1>2. /\ RunDmc(a, end).dmc = [e EXCEPT !.delay = n]
      /\ c \in Nat /\ n \in Nat
  BY DmcAt
<1>3. /\ RunDmc(a, end + 1).dmc
            = [BitsOn(a, BitsOver(a, end + 1)) EXCEPT !.delay = NextDelay(a, end + 1)]
      /\ BitsOver(a, end + 1) \in Nat /\ NextDelay(a, end + 1) \in Nat
  BY <1>1, DmcAt
<1>4. /\ n = start + c * p - end
      /\ NextDelay(a, end + 1) = start + BitsOver(a, end + 1) * p - (end + 1)
  BY DEF NextDelay
<1>5. BitsOver(a, end + 1) = IF end < start + c * p THEN c ELSE c + 1
  <2> HIDE DEF start, p
  <2> DEFINE k == BitsUntil(start, end, p)
  <2>1. BitsUntil(start, end + 1, p) = IF end < start + k * p THEN k ELSE k + 1
    BY <1>1, BitsNext
  <2> QED  BY <2>1 DEF BitsOver, start, p
<1>6. /\ e \in Dmcs /\ BitsOn(a, c + 1) = NextBit(e)
      /\ e.period = p
  <2>1. DmcRight(a) /\ (~Armed(a) => a.dmc.next = NoIrq)
    BY DEF DmcFine
  <2> HIDE DEF c
  <2> QED  BY <1>2, <2>1, BitsOnIs
<1> HIDE DEF start, p, c, n, e
<1>7. c * p \in Int /\ (c + 1) * p = c * p + p
  BY <1>1, <1>2
<1> DEFINE x == [e EXCEPT !.delay = n]
<1>8. x \in Dmcs /\ x.delay = n /\ x.period = p
  BY <1>2, <1>6 DEF Dmcs
<1>9. CASE n > 0
  <2>1. BitsOver(a, end + 1) = c /\ NextDelay(a, end + 1) = n - 1
    BY <1>1, <1>2, <1>4, <1>5, <1>7, <1>9
  <2>2. RunDmc(a, end + 1).dmc = [e EXCEPT !.delay = n - 1]
    BY <1>3, <2>1 DEF e
  <2>3. NextCycle(x) = [x EXCEPT !.delay = @ - 1]
    BY <1>8, <1>9 DEF NextCycle
  <2>4. [x EXCEPT !.delay = @ - 1] = [e EXCEPT !.delay = n - 1]
    BY <1>6 DEF Dmcs
  <2> QED  BY <1>2, <2>2, <2>3, <2>4
<1>10. CASE n = 0
  <2>1. BitsOver(a, end + 1) = c + 1 /\ NextDelay(a, end + 1) = p - 1
    BY <1>1, <1>2, <1>4, <1>5, <1>7, <1>10
  <2>2. RunDmc(a, end + 1).dmc = [NextBit(e) EXCEPT !.delay = p - 1]
    BY <1>3, <1>6, <2>1
  <2>3. NextCycle(x) = [NextBit(x) EXCEPT !.delay = p - 1]
    <3> HIDE DEF x
    <3> QED  BY <1>8, <1>10 DEF NextCycle
  <2>4. NextBit(x) = [NextBit(e) EXCEPT !.delay = n]
    BY <1>2, <1>6, NextBitClock
  <2>5. NextBit(e) \in Dmcs
    BY <1>6, NextBitType
  <2>6. [[NextBit(e) EXCEPT !.delay = n] EXCEPT !.delay = p - 1] = [NextBit(e) EXCEPT !.delay = p - 1]
    BY <2>5 DEF Dmcs
  <2> QED  BY <1>2, <2>2, <2>3, <2>4, <2>6
<1> QED  BY <1>2, <1>9, <1>10

-----------------------------------------------------------------------------
(* The frame counter one cycle at a time                                   *)

\* A clock moves the same in both.
LEMMA ClocksAgree ==
    ASSUME NEW a \in Units, NEW b \in Units, FramesAgree(a, b), NEW time \in Int,
           NEW c, IsClocked(a, c, time), NEW d, IsClocked(b, d, time)
    PROVE  FramesAgree(c, d)
BY DEF IsClocked, FramesAgree, SameFrame, Units

\* An event does not depend on the DMC.
LEMMA EventsAgree ==
    ASSUME NEW a \in Units, NEW b \in Units, FramesAgree(a, b)
    PROVE  FramesAgree(FrameEvent(a), FrameEvent(b))
<1>1. /\ b.last = a.last /\ b.nextIrq = a.nextIrq /\ b.frame = a.frame /\ b.five = a.five
      /\ b.irqOff = a.irqOff /\ b.flag = a.flag /\ a.frame \in 0..3
  BY DEF FramesAgree, SameFrame, Units
<1> DEFINE c == FrameEvent(a)
           d == FrameEvent(b)
<1>2. CASE a.frame = 0
  <2> DEFINE irq == ~a.five /\ ~a.irqOff
             flag == irq \/ a.flag
             next == IF irq THEN a.last + 4 * FramePeriod + 1 ELSE a.nextIrq
  <2>1. /\ c = [a EXCEPT !.frame = 1, !.delay = FramePeriod, !.flag = flag, !.nextIrq = next]
        /\ d = [b EXCEPT !.frame = 1, !.delay = FramePeriod, !.flag = flag, !.nextIrq = next]
    BY <1>1, <1>2 DEF FrameEvent
  <2> HIDE DEF c, d, flag, next
  <2>2. FramesAgree(c, d)
    BY <1>1, <2>1 DEF FramesAgree, SameFrame, Units
  <2> QED  BY <2>2 DEF c, d
<1>3. CASE a.frame # 0
  <2> DEFINE frame == IF a.frame = 3 THEN 0 ELSE a.frame + 1
             delay == IF a.frame = 1 THEN FramePeriod - 2
                      ELSE IF a.frame = 2 THEN FramePeriod
                      ELSE IF a.five THEN 2 * FramePeriod - 6 ELSE FramePeriod
  <2>1. /\ c = [a EXCEPT !.frame = frame, !.delay = delay]
        /\ d = [b EXCEPT !.frame = frame, !.delay = delay]
    <3>1. CASE a.frame = 1
      BY <1>1, <3>1 DEF FrameEvent
    <3>2. CASE a.frame = 2
      BY <1>1, <3>2 DEF FrameEvent
    <3>3. CASE a.frame = 3
      BY <1>1, <3>3 DEF FrameEvent
    <3> QED  BY <1>1, <1>3, <3>1, <3>2, <3>3
  <2> HIDE DEF c, d, frame, delay
  <2>2. FramesAgree(c, d)
    BY <1>1, <2>1 DEF FramesAgree, SameFrame, Units
  <2> QED  BY <2>2 DEF c, d
<1> QED  BY <1>2, <1>3

\* A turn of run_until_'s loop stops at end, or at an event before it.
LEMMA FrameTurnIs ==
    ASSUME NEW a \in Units, NEW end \in Int, a.last <= end
    PROVE  /\ end <= a.last + a.delay => IsClocked(a, FrameStep(a, end), end)
           /\ a.last + a.delay < end =>
                 \E b : IsClocked(a, b, a.last + a.delay) /\ FrameStep(a, end) = FrameEvent(b)
<1>1. a.last \in Int /\ a.delay \in Nat
  BY DEF Units
<1> DEFINE time == Min2(a.last + a.delay, end)
           ran == [a EXCEPT !.last = time, !.delay = @ - (time - a.last)]
<1>2. IsClocked(a, ran, time)
  BY DEF IsClocked
<1>3. FrameStep(a, end) = IF time = end THEN ran ELSE FrameEvent(ran)
  BY DEF FrameStep
<1>4. /\ end <= a.last + a.delay => time = end
      /\ a.last + a.delay < end => time = a.last + a.delay /\ time # end
  BY <1>1 DEF Min2
<1> HIDE DEF time, ran
<1> QED  BY <1>2, <1>3, <1>4

\* A cycle of the frame counter is a turn, with the event at its start.
LEMMA CycleFrameIs ==
    ASSUME NEW a \in Units, FrameFine(a)
    PROVE  LET b == CycleFrame(a)
               from == IF a.delay > 0 THEN a ELSE FrameEvent(a)
           IN  /\ from \in Units /\ FrameFine(from) /\ from.last = a.last /\ from.delay > 0
               /\ IsClocked(from, b, a.last + 1)
               /\ b \in Units /\ FrameFine(b) /\ Around(a, b) /\ b.last = a.last + 1
<1> DEFINE b == CycleFrame(a)
           from == IF a.delay > 0 THEN a ELSE FrameEvent(a)
<1>1. /\ from \in Units /\ FrameFine(from) /\ from.last = a.last /\ from.delay > 0 /\ Around(a, from)
  <2>1. CASE a.delay > 0
    <3>1. from = a
      BY <2>1
    <3> HIDE DEF from
    <3> QED  BY <2>1, <3>1 DEF Around
  <2>2. CASE ~(a.delay > 0)
    <3>1. from = FrameEvent(a) /\ a.delay = 0
      BY <2>2 DEF Units
    <3> HIDE DEF from
    <3>2. /\ from \in Units /\ FrameFine(from) /\ from.last = a.last /\ from.delay >= 2
          /\ Around(a, from)
      BY <3>1, FrameEventIs
    <3>3. from.delay \in Nat
      BY <3>2 DEF Units
    <3> QED  BY <3>2, <3>3
  <2> QED  BY <2>1, <2>2
<1>2. b = [from EXCEPT !.last = @ + 1, !.delay = @ - 1]
  BY DEF CycleFrame
<1> HIDE DEF from, b
<1>3. from.last \in Int /\ from.delay \in Nat /\ a.last \in Int
  BY <1>1 DEF Units
<1>4. IsClocked(from, b, a.last + 1)
  <2> DEFINE e == from.last + 1
             n == from.delay - 1
  <2>1. e = a.last + 1 /\ n = from.delay - ((a.last + 1) - from.last)
    BY <1>1, <1>3
  <2>2. b = [from EXCEPT !.last = e, !.delay = n]
    BY <1>2
  <2> HIDE DEF e, n
  <2> QED  BY <2>1, <2>2 DEF IsClocked
<1>5. /\ b \in Units /\ Around(from, b) /\ FrameFine(b) /\ b.last = a.last + 1
  <2> DEFINE e == a.last + 1
  <2>1. e \in Int /\ from.last <= e /\ e <= from.last + from.delay
    BY <1>1, <1>3
  <2>2. IsClocked(from, b, e)
    BY <1>4
  <2> HIDE DEF e
  <2>3. b \in Units /\ Around(from, b) /\ FrameFine(b) /\ b.last = e
    BY <1>1, <2>1, <2>2, ClockMoved
  <2> QED  BY <2>3 DEF e
<1>6. Around(a, b)
  BY <1>1, <1>5 DEF Around
<1> QED  BY <1>1, <1>4, <1>5, <1>6 DEF b, from

\* A cycle of the frame counter does not depend on the DMC.
LEMMA CyclesAgree ==
    ASSUME NEW a \in Units, FrameFine(a), NEW b \in Units, FrameFine(b), FramesAgree(a, b)
    PROVE  FramesAgree(CycleFrame(a), CycleFrame(b))
<1> DEFINE x == IF a.delay > 0 THEN a ELSE FrameEvent(a)
           y == IF b.delay > 0 THEN b ELSE FrameEvent(b)
<1>1. b.delay = a.delay /\ b.last = a.last /\ a.last \in Int
  BY DEF FramesAgree, SameFrame, Units
<1>2. FramesAgree(x, y)
  <2>1. FramesAgree(FrameEvent(a), FrameEvent(b))
    BY EventsAgree
  <2> QED  BY <1>1, <2>1
<1>3. x \in Units /\ IsClocked(x, CycleFrame(a), a.last + 1)
  BY CycleFrameIs
<1>4. y \in Units /\ IsClocked(y, CycleFrame(b), a.last + 1)
  BY <1>1, CycleFrameIs
<1> HIDE DEF x, y
<1>5. a.last + 1 \in Int
  BY <1>1
<1> QED  BY <1>2, <1>3, <1>4, <1>5, ClocksAgree

\* b, on its way to the cycle after end, is where a is on its way to end, or
\* where a is at end and b a cycle or the event of that cycle further
Ahead(a, b, end) ==
    /\ a \in Units /\ FrameFine(a) /\ a.last <= end
    /\ b \in Units /\ FrameFine(b) /\ b.last <= end + 1
    /\ \/ FramesAgree(a, b)
       \/ a.last = end /\ a.delay = 0 /\ FramesAgree(b, FrameEvent(a))
       \/ a.last = end /\ b.last = end + 1 /\ FramesAgree(b, CycleFrame(a))

\* Agreement goes both ways and on.
LEMMA Agreeing ==
    ASSUME NEW a, NEW b, FramesAgree(a, b)
    PROVE  /\ FramesAgree(b, a)
           /\ \A c : FramesAgree(b, c) => FramesAgree(a, c)
BY DEF FramesAgree, SameFrame

\* What a's frame counter keeps true, b's does.
LEMMA AgreeFine ==
    ASSUME NEW a, NEW b, FramesAgree(a, b), FrameFine(a)
    PROVE  FrameFine(b)
<1>1. (FrameOn(b) <=> FrameOn(a)) /\ FrameTime(b) = FrameTime(a)
  BY DEF FramesAgree, SameFrame, FrameOn, FrameTime
<1>2. b.delay = a.delay /\ b.five = a.five /\ b.frame = a.frame /\ b.nextIrq = a.nextIrq /\ b.last = a.last
  BY DEF FramesAgree, SameFrame
<1> QED  BY <1>1, <1>2 DEF FrameFine

\* The clock at end moves nowhere.
LEMMA ClockStays ==
    ASSUME NEW a \in Units, NEW b, IsClocked(a, b, a.last)
    PROVE  b = a
<1>1. a.delay - (a.last - a.last) = a.delay
  BY DEF Units
<1>2. b = [a EXCEPT !.last = a.last, !.delay = a.delay]
  BY <1>1 DEF IsClocked
<1> QED  BY <1>2 DEF Units

\* A turn of each loop keeps b where it was to a.
LEMMA AheadTurn ==
    ASSUME NEW a, NEW b, NEW end \in Int, Ahead(a, b, end)
    PROVE  Ahead(FrameStep(a, end), FrameStep(b, end + 1), end)
<1> DEFINE c == FrameStep(a, end)
           d == FrameStep(b, end + 1)
<1>1. /\ a \in Units /\ FrameFine(a) /\ a.last <= end /\ a.last \in Int /\ a.delay \in Nat
      /\ b \in Units /\ FrameFine(b) /\ b.last <= end + 1 /\ b.last \in Int /\ b.delay \in Nat
      /\ end + 1 \in Int
  BY DEF Ahead, Units
<1>2. /\ c \in Units /\ FrameFine(c) /\ c.last <= end
      /\ d \in Units /\ FrameFine(d) /\ d.last <= end + 1
  <2>1. FrameStepTo(a, c, end) /\ FrameStepTo(b, d, end + 1)
    BY <1>1, FrameStepIs
  <2> HIDE DEF c, d
  <2> QED  BY <2>1 DEF FrameStepTo
<1>3. /\ end <= a.last + a.delay => IsClocked(a, c, end)
      /\ a.last + a.delay < end =>
            \E u : IsClocked(a, u, a.last + a.delay) /\ c = FrameEvent(u)
  BY <1>1, FrameTurnIs
<1>4. /\ end + 1 <= b.last + b.delay => IsClocked(b, d, end + 1)
      /\ b.last + b.delay < end + 1 =>
            \E v : IsClocked(b, v, b.last + b.delay) /\ d = FrameEvent(v)
  BY <1>1, FrameTurnIs
<1> SUFFICES \/ FramesAgree(c, d)
             \/ c.last = end /\ c.delay = 0 /\ FramesAgree(d, FrameEvent(c))
             \/ c.last = end /\ d.last = end + 1 /\ FramesAgree(d, CycleFrame(c))
  BY <1>2 DEF Ahead
<1> HIDE DEF c, d
<1>5. CASE FramesAgree(a, b)
  <2>1. b.last = a.last /\ b.delay = a.delay
    BY <1>5 DEF FramesAgree, SameFrame
  <2>2. CASE a.last + a.delay < end
    <3>1. PICK u : IsClocked(a, u, a.last + a.delay) /\ c = FrameEvent(u)
      BY <1>3, <2>2
    <3>2. b.last + b.delay < end + 1
      BY <1>1, <2>1, <2>2
    <3>3. PICK v : IsClocked(b, v, a.last + a.delay) /\ d = FrameEvent(v)
      BY <1>4, <2>1, <3>2
    <3> DEFINE t == a.last + a.delay
    <3>4. t \in Int /\ a.last <= t /\ t <= a.last + a.delay /\ b.last <= t /\ t <= b.last + b.delay
      BY <1>1, <2>1
    <3>5. IsClocked(a, u, t) /\ IsClocked(b, v, t)
      BY <3>1, <3>3
    <3> HIDE DEF t
    <3>6. u \in Units /\ v \in Units
      BY <1>1, <3>4, <3>5, ClockMoved
    <3>7. FramesAgree(u, v)
      BY <1>1, <1>5, <3>4, <3>5, ClocksAgree
    <3>8. FramesAgree(c, d)
      BY <3>1, <3>3, <3>6, <3>7, EventsAgree
    <3> QED  BY <3>8
  <2>3. CASE a.last + a.delay = end
    <3>1. IsClocked(a, c, end)
      BY <1>1, <1>3, <2>3
    <3>2. b.last + b.delay < end + 1 /\ b.last + b.delay = end
      BY <1>1, <2>1, <2>3
    <3>3. PICK v : IsClocked(b, v, end) /\ d = FrameEvent(v)
      BY <1>4, <3>2
    <3>4. /\ c.last = end /\ c.delay = a.delay - (end - a.last) /\ v \in Units
      BY <1>1, <2>1, <2>3, <3>1, <3>3, ClockMoved
    <3>5. c.delay = 0
      BY <1>1, <2>3, <3>4
    <3>6. FramesAgree(c, v)
      BY <1>1, <1>5, <3>1, <3>3, ClocksAgree
    <3>7. FramesAgree(FrameEvent(c), d)
      BY <1>2, <3>3, <3>4, <3>6, EventsAgree
    <3> QED  BY <3>4, <3>5, <3>7, Agreeing
  <2>4. CASE end < a.last + a.delay
    <3>1. IsClocked(a, c, end)
      BY <1>1, <1>3, <2>4
    <3>2. IsClocked(b, d, end + 1)
      BY <1>1, <1>4, <2>1, <2>4
    <3>3. c.last = end /\ c.delay = a.delay - (end - a.last)
      BY <1>1, <2>4, <3>1, ClockMoved
    <3>4. d.last = end + 1
      BY <1>1, <2>1, <2>4, <3>2, ClockMoved
    <3>5. c.delay > 0
      BY <1>1, <2>4, <3>3
    <3>6. IsClocked(c, CycleFrame(c), end + 1)
      BY <1>2, <3>3, <3>5, CycleFrameIs
    <3>7. FramesAgree(d, CycleFrame(c))
      <4> DEFINE e == CycleFrame(c)
      <4>1. IsClocked(c, e, end + 1)
        BY <3>6
      <4> HIDE DEF e
      <4>2. /\ e.last = end + 1 /\ e.delay = c.delay - ((end + 1) - c.last)
            /\ e.nextIrq = c.nextIrq /\ e.frame = c.frame /\ e.five = c.five
            /\ e.irqOff = c.irqOff /\ e.flag = c.flag
        BY <1>2, <4>1 DEF IsClocked, Units
      <4>3. /\ c.nextIrq = a.nextIrq /\ c.frame = a.frame /\ c.five = a.five
            /\ c.irqOff = a.irqOff /\ c.flag = a.flag
        BY <1>1, <3>1 DEF IsClocked, Units
      <4>4. /\ d.last = end + 1 /\ d.delay = b.delay - ((end + 1) - b.last)
            /\ d.nextIrq = b.nextIrq /\ d.frame = b.frame /\ d.five = b.five
            /\ d.irqOff = b.irqOff /\ d.flag = b.flag
        BY <1>1, <3>2 DEF IsClocked, Units
      <4>5. e.delay = d.delay
        BY <1>1, <2>1, <3>3, <4>2, <4>4
      <4>6. FramesAgree(d, e)
        BY <1>5, <4>2, <4>3, <4>4, <4>5 DEF FramesAgree, SameFrame
      <4> QED  BY <4>6 DEF e
    <3> QED  BY <3>3, <3>4, <3>7
  <2> QED  BY <1>1, <2>2, <2>3, <2>4
<1>6. ASSUME a.last = end PROVE c = a
  <2>1. IsClocked(a, c, a.last)
    BY <1>1, <1>3, <1>6
  <2> QED  BY <1>1, <2>1, ClockStays
<1>7. CASE a.last = end /\ a.delay = 0 /\ FramesAgree(b, FrameEvent(a))
  <2> DEFINE e == FrameEvent(a)
             f == CycleFrame(a)
  <2>1. e \in Units /\ e.last = end /\ e.delay >= 2
    BY <1>1, <1>7, FrameEventIs
  <2>2. IsClocked(e, f, end + 1)
    <3>1. ~(a.delay > 0)
      BY <1>7
    <3> QED  BY <1>1, <1>7, <3>1, CycleFrameIs
  <2>3. FramesAgree(b, e)
    BY <1>7
  <2> HIDE DEF e, f
  <2>4. b.last = end /\ b.delay >= 2
    BY <2>1, <2>3 DEF FramesAgree, SameFrame
  <2>5. IsClocked(b, d, end + 1)
    BY <1>1, <1>4, <2>4
  <2>6. FramesAgree(d, f)
    BY <1>1, <2>1, <2>2, <2>3, <2>5, ClocksAgree
  <2>7. d.last = end + 1
    BY <1>1, <2>5 DEF IsClocked, Units
  <2> QED  BY <1>6, <1>7, <2>6, <2>7 DEF f
<1>8. CASE a.last = end /\ b.last = end + 1 /\ FramesAgree(b, CycleFrame(a))
  <2>1. IsClocked(b, d, b.last)
    BY <1>1, <1>4, <1>8
  <2>2. d = b
    BY <1>1, <2>1, ClockStays
  <2> QED  BY <1>6, <1>8, <2>2
<1> QED  BY <1>5, <1>7, <1>8 DEF Ahead

-----------------------------------------------------------------------------
(* The unit one cycle at a time                                            *)

\* a and b are the same but for the time announced
Agree(a, b) == FramesAgree(a, b) /\ b.lastDmc = a.lastDmc /\ b.dmc = a.dmc

\* b is a a cycle later, but for the time announced
ACycleOn(a, b) ==
    /\ FramesAgree(CycleFrame(a), b)
    /\ b.dmc = IF a.lastDmc = a.last THEN NextCycle(a.dmc) ELSE a.dmc
    /\ b.lastDmc = IF a.lastDmc = a.last THEN a.lastDmc + 1 ELSE a.lastDmc

\* run_until_ is the two runs even where it has nowhere to run.
LEMMA RunUntil_Runs ==
    ASSUME NEW a, UnitFine(a), NEW end \in Int, a.last <= end
    PROVE  RunUntil_(a, end) = FrameRun(RunDmc(a, end), end, end - a.last + 1)[end - a.last + 1]
<1>1. a \in Units /\ FrameFine(a) /\ a.last <= a.lastDmc /\ a.last \in Int /\ a.lastDmc \in Int
      /\ a.delay \in Nat
  BY DEF UnitFine, Units
<1>2. CASE a.last < end
  BY <1>1, <1>2, RunUntil_Is
<1>3. CASE a.last = end
  <2>1. RunUntil_(a, end) = a
    BY <1>1, <1>3 DEF RunUntil_
  <2>2. RunDmc(a, end) = a
    BY <1>1, <1>3 DEF RunDmc
  <2>3. end - a.last + 1 = 1
    BY <1>1, <1>3
  <2> DEFINE h == FrameRun(a, end, 1)
  <2>4. h[0] = a /\ \A k \in 1..1 : h[k] = FrameStep(h[k - 1], end)
    <3>1. 1 \in Nat
      OBVIOUS
    <3> QED  BY <1>1, <3>1, FrameRunIs
  <2> HIDE DEF h
  <2>5. h[1] = FrameStep(a, end)
    <3>1. 1 \in 1..1 /\ 1 - 1 = 0
      OBVIOUS
    <3>2. h[1] = FrameStep(h[1 - 1], end)
      BY <2>4, <3>1
    <3> QED  BY <2>4, <3>1, <3>2
  <2>6. IsClocked(a, FrameStep(a, end), a.last)
    BY <1>1, <1>3, FrameTurnIs
  <2>7. FrameStep(a, end) = a
    BY <1>1, <2>6, ClockStays
  <2> QED  BY <2>1, <2>2, <2>3, <2>5, <2>7 DEF h
<1> QED  BY <1>1, <1>2, <1>3

\* The frame counter run to the next time is a cycle ahead of itself run to end.
LEMMA FramesNext ==
    ASSUME NEW a \in Units, FrameFine(a), NEW b \in Units, FramesAgree(a, b),
           NEW end \in Int, a.last <= end
    PROVE  LET n == end - a.last + 1
           IN  FramesAgree(CycleFrame(FrameRun(a, end, n)[n]),
                           FrameRun(b, end + 1, n + 1)[n + 1])
<1> DEFINE n == end - a.last + 1
           g == FrameRun(a, end, n)
           h == FrameRun(b, end + 1, n + 1)
<1>1. /\ a.last \in Int /\ n \in Nat /\ n + 1 \in Nat /\ n >= 1 /\ end + 1 \in Int
      /\ FrameFine(b) /\ b.last = a.last /\ b.last <= end + 1 /\ b.last < end + 1
      /\ n + 1 = (end + 1) - b.last + 1
  <2>1. b.last = a.last /\ a.last \in Int
    BY DEF Units, FramesAgree, SameFrame
  <2> QED  BY <2>1, AgreeFine
<1>2. g[0] = a /\ \A k \in 1..n : g[k] = FrameStep(g[k - 1], end)
  <2> HIDE DEF n
  <2> QED  BY <1>1, FrameRunIs
<1>3. /\ h[0] = b /\ \A k \in 1..(n + 1) : h[k] = FrameStep(h[k - 1], end + 1)
  <2> HIDE DEF n
  <2> DEFINE m == n + 1  e == end + 1
  <2>1. m \in Nat /\ e \in Int /\ b.last <= e
    BY <1>1
  <2> HIDE DEF m, e
  <2>2. FrameRun(b, e, m)[0] = b
        /\ \A k \in 1..m : FrameRun(b, e, m)[k] = FrameStep(FrameRun(b, e, m)[k - 1], e)
    BY <1>1, <2>1, FrameRunIs
  <2> QED  BY <2>2 DEF m, e
<1>4. g[n].last = end
  <2>1. FrameTo(a, g[n], end, n)
    <3> HIDE DEF n
    <3>1. n \in 0..n
      BY <1>1
    <3> QED  BY <1>1, <3>1, FrameRunIs
  <2> HIDE DEF g
  <2>2. g[n].last \in Int
    BY <2>1 DEF FrameTo, Units
  <2> QED  BY <1>1, <2>1, <2>2 DEF FrameTo
<1>5. h[n + 1].last = end + 1
  <2> DEFINE e == end + 1  m == e - b.last + 1
  <2>1. e \in Int /\ b.last < e /\ m = n + 1
    BY <1>1
  <2>2. FrameRan(b, FrameRun(b, e, m)[m], e)
    <3> HIDE DEF e
    <3> QED  BY <1>1, <2>1, FrameRanIs
  <2> HIDE DEF n, m
  <2>3. FrameRan(b, h[n + 1], end + 1)
    BY <2>1, <2>2
  <2> QED  BY <2>3 DEF FrameRan
<1> HIDE DEF g, h
<1>6. ASSUME NEW k \in Nat, k <= n PROVE Ahead(g[k], h[k], end)
  <2> DEFINE Done == {j \in Nat : j <= n => Ahead(g[j], h[j], end)}
  <2>1. 0 \in Done
    <3>1. Ahead(a, b, end)
      BY <1>1 DEF Ahead
    <3> QED  BY <1>2, <1>3, <3>1
  <2>2. ASSUME NEW j \in Nat, j \in Done PROVE j + 1 \in Done
    <3> SUFFICES ASSUME j + 1 <= n PROVE Ahead(g[j + 1], h[j + 1], end)
      OBVIOUS
    <3>1. Ahead(g[j], h[j], end)
      BY <1>1, <2>2
    <3>2. j + 1 \in 1..n /\ j + 1 \in 1..(n + 1) /\ (j + 1) - 1 = j
      BY <1>1
    <3>3. g[j + 1] = FrameStep(g[(j + 1) - 1], end) /\ h[j + 1] = FrameStep(h[(j + 1) - 1], end + 1)
      BY <1>2, <1>3, <3>2
    <3>4. g[j + 1] = FrameStep(g[j], end) /\ h[j + 1] = FrameStep(h[j], end + 1)
      BY <3>2, <3>3
    <3> QED  BY <3>1, <3>4, AheadTurn
  <2>3. Nat \subseteq Done
    <3> HIDE DEF Done
    <3> QED  BY <2>1, <2>2, Induction
  <2> QED  BY <1>6, <2>3
<1>7. Ahead(g[n], h[n], end)
  BY <1>1, <1>6
<1>8. h[n + 1] = FrameStep(h[n], end + 1)
  <2>1. n + 1 \in 1..(n + 1) /\ (n + 1) - 1 = n
    BY <1>1
  <2>2. h[n + 1] = FrameStep(h[(n + 1) - 1], end + 1)
    BY <1>3, <2>1
  <2> QED  BY <2>1, <2>2
<1> DEFINE x == g[n]  y == h[n + 1]
<1>9. Ahead(FrameStep(x, end), y, end)
  BY <1>7, <1>8, AheadTurn
<1>10. x.last = end /\ y.last = end + 1 /\ x \in Units /\ FrameFine(x)
  BY <1>4, <1>5, <1>7 DEF Ahead
<1> HIDE DEF x, y
<1>11. FrameStep(x, end) = x
  <2>1. x.delay \in Nat /\ x.last \in Int
    BY <1>10 DEF Units
  <2>2. IsClocked(x, FrameStep(x, end), x.last)
    BY <1>10, <2>1, FrameTurnIs
  <2> QED  BY <1>10, <2>2, ClockStays
<1>12. FramesAgree(CycleFrame(x), y)
  <2>1. ~FramesAgree(x, y)
    BY <1>10 DEF FramesAgree, SameFrame
  <2>2. ~(x.delay = 0 /\ FramesAgree(y, FrameEvent(x)))
    <3> SUFFICES ASSUME x.delay = 0, FramesAgree(y, FrameEvent(x)) PROVE FALSE
      OBVIOUS
    <3>1. FrameEvent(x).last = x.last
      BY <1>10, FrameEventIs
    <3> QED  BY <1>10, <3>1 DEF FramesAgree, SameFrame
  <2>3. FramesAgree(y, CycleFrame(x))
    BY <1>9, <1>11, <2>1, <2>2 DEF Ahead
  <2> QED  BY <2>3, Agreeing
<1> QED  BY <1>12 DEF x, y, g, h

\* Run a cycle further, the unit is a cycle on.
LEMMA RunNext ==
    ASSUME NEW a, UnitFine(a), NEW end \in Int, a.last <= end
    PROVE  ACycleOn(RunUntil_(a, end), RunUntil_(a, end + 1))
<1> DEFINE x == RunDmc(a, end)
           y == RunDmc(a, end + 1)
           n == end - a.last + 1
           u == FrameRun(x, end, n)[n]
           v == FrameRun(y, end + 1, n + 1)[n + 1]
<1>1. /\ a \in Units /\ DmcFine(a) /\ FrameFine(a) /\ a.last <= a.lastDmc
      /\ a.last \in Int /\ a.lastDmc \in Int /\ end + 1 \in Int /\ a.last < end + 1
      /\ a.last <= end + 1
  BY DEF UnitFine, Units
<1>2. RunUntil_(a, end) = u
  BY RunUntil_Runs
<1>3. RunUntil_(a, end + 1) = v
  <2>1. n + 1 = (end + 1) - a.last + 1
    BY <1>1
  <2> DEFINE e == end + 1  m == e - a.last + 1
  <2>2. e \in Int /\ a.last <= e
    BY <1>1
  <2> HIDE DEF e
  <2>3. RunUntil_(a, e) = FrameRun(RunDmc(a, e), e, m)[m]
    BY <2>2, RunUntil_Runs
  <2>4. m = n + 1
    BY <2>1 DEF e
  <2> HIDE DEF m, n
  <2> QED  BY <2>3, <2>4 DEF e
<1>4. DmcTo(a, x, end) /\ DmcTo(a, y, end + 1)
  BY <1>1, RunDmcIs
<1>5. /\ RanTo(a, u, end) /\ RanTo(a, v, end + 1)
  BY <1>1, <1>2, <1>3, RunUntil_Right
<1>6. u.dmc = x.dmc /\ v.dmc = y.dmc
  <2>1. FrameFine(x) /\ FrameFine(y) /\ x \in Units /\ y \in Units /\ x.last = a.last /\ y.last = a.last
    BY <1>1, <1>4, BesideFrame DEF DmcTo, Beside
  <2> HIDE DEF x, y
  <2>2. n \in Nat /\ n \in 0..n /\ n + 1 \in Nat /\ n + 1 \in 0..(n + 1)
    BY <1>1
  <2> HIDE DEF n
  <2>3. FrameTo(x, u, end, n)
    BY <2>1, <2>2, FrameRunIs
  <2> DEFINE m == n + 1  e == end + 1
  <2>4. m \in Nat /\ m \in 0..m /\ e \in Int /\ y.last <= e
    BY <1>1, <2>1, <2>2
  <2> HIDE DEF m, e
  <2>5. FrameTo(y, FrameRun(y, e, m)[m], e, m)
    BY <2>1, <2>4, FrameRunIs
  <2>6. FrameTo(y, v, e, m)
    BY <2>5 DEF m, e
  <2> HIDE DEF u, v
  <2> QED  BY <2>3, <2>6 DEF FrameTo, Around
<1>7. FramesAgree(x, y) /\ x \in Units /\ y \in Units /\ FrameFine(x) /\ x.last = a.last
  <2>1. Beside(a, x) /\ Beside(a, y) /\ x \in Units /\ y \in Units
    BY <1>4 DEF DmcTo
  <2> HIDE DEF x, y
  <2> QED  BY <1>1, <2>1, BesideFrame DEF Beside, FramesAgree, SameFrame
<1>8. FramesAgree(CycleFrame(u), v)
  <2> HIDE DEF x, y
  <2>1. LET m == end - x.last + 1
        IN  FramesAgree(CycleFrame(FrameRun(x, end, m)[m]), FrameRun(y, end + 1, m + 1)[m + 1])
    BY <1>1, <1>7, FramesNext
  <2> QED  BY <1>7, <2>1
<1>9. u.last = end /\ u.lastDmc = (IF a.lastDmc >= end THEN a.lastDmc ELSE end)
      /\ v.lastDmc = (IF a.lastDmc >= end + 1 THEN a.lastDmc ELSE end + 1)
  BY <1>5 DEF RanTo
<1>10. CASE a.lastDmc <= end
  <2>1. y.dmc = NextCycle(x.dmc)
    BY <1>1, <1>10, DmcNext
  <2> HIDE DEF x, y, u, v
  <2>2. u.lastDmc = u.last /\ v.lastDmc = u.lastDmc + 1
    BY <1>1, <1>9, <1>10
  <2> QED  BY <1>2, <1>3, <1>6, <1>8, <2>1, <2>2 DEF ACycleOn
<1>11. CASE a.lastDmc > end
  <2>1. x = a /\ y = a
    BY <1>1, <1>11 DEF RunDmc
  <2> HIDE DEF x, y, u, v
  <2>2. u.lastDmc # u.last /\ v.lastDmc = u.lastDmc
    BY <1>1, <1>9, <1>11
  <2> QED  BY <1>2, <1>3, <1>6, <1>8, <2>1, <2>2 DEF ACycleOn
<1> QED  BY <1>1, <1>10, <1>11

\* A cycle leaves a unit a cycle on.
LEMMA CycleIs ==
    ASSUME NEW a \in Units, FrameFine(a)
    PROVE  Cycle(a) \in Units /\ FrameFine(Cycle(a)) /\ ACycleOn(a, Cycle(a))
<1> DEFINE x == IF a.lastDmc = a.last THEN CycleDmc(a) ELSE a
           b == CycleFrame(x)
           c == CycleFrame(a)
<1>1. Cycle(a) = b
  BY DEF Cycle
<1>2. /\ x \in Units /\ FramesAgree(a, x)
      /\ x.dmc = IF a.lastDmc = a.last THEN NextCycle(a.dmc) ELSE a.dmc
      /\ x.lastDmc = IF a.lastDmc = a.last THEN a.lastDmc + 1 ELSE a.lastDmc
  <2>1. CASE a.lastDmc = a.last
    <3>1. x = CycleDmc(a)
      BY <2>1
    <3>2. LET y == CycleDmc(a)
          IN  /\ y \in Units /\ y.dmc = NextCycle(a.dmc) /\ y.lastDmc = a.lastDmc + 1
              /\ FramesAgree(a, y)
      BY CycleDmcIs
    <3> HIDE DEF x
    <3> QED  BY <2>1, <3>1, <3>2
  <2>2. CASE a.lastDmc # a.last
    <3>1. x = a
      BY <2>2
    <3> HIDE DEF x
    <3> QED  BY <2>2, <3>1 DEF FramesAgree, SameFrame
  <2> QED  BY <2>1, <2>2
<1> HIDE DEF x
<1>3. FrameFine(x)
  BY <1>2, AgreeFine
<1>4. b \in Units /\ FrameFine(b) /\ Around(x, b)
  BY <1>2, <1>3, CycleFrameIs
<1>5. FramesAgree(c, b)
  BY <1>2, <1>3, CyclesAgree
<1> HIDE DEF b, c
<1>6. b.dmc = x.dmc /\ b.lastDmc = x.lastDmc
  BY <1>4 DEF Around
<1>7. ACycleOn(a, b)
  BY <1>2, <1>5, <1>6 DEF ACycleOn, c
<1> QED  BY <1>1, <1>4, <1>7

\* Units that agree agree a cycle on.
LEMMA AgreeOn ==
    ASSUME NEW a \in Units, FrameFine(a), NEW b \in Units, FrameFine(b), Agree(a, b),
           NEW c, ACycleOn(a, c), NEW d, ACycleOn(b, d)
    PROVE  Agree(c, d)
<1>1. FramesAgree(a, b) /\ b.lastDmc = a.lastDmc /\ b.dmc = a.dmc /\ b.last = a.last
  BY DEF Agree, FramesAgree, SameFrame
<1>2. FramesAgree(CycleFrame(a), CycleFrame(b))
  BY <1>1, CyclesAgree
<1>3. FramesAgree(c, CycleFrame(a)) /\ FramesAgree(CycleFrame(b), d)
  BY Agreeing DEF ACycleOn
<1>4. FramesAgree(c, d)
  BY <1>2, <1>3, Agreeing
<1>5. d.dmc = c.dmc /\ d.lastDmc = c.lastDmc
  BY <1>1 DEF ACycleOn
<1> QED  BY <1>4, <1>5 DEF Agree

\* the unit after each of n cycles
CycleRun(a, n) == LET run[k \in 0..n] == IF k = 0 THEN a ELSE Cycle(run[k - 1]) IN run

\* The turns of the loop over the cycles.
LEMMA CycleRunIs ==
    ASSUME NEW a \in Units, FrameFine(a), NEW n \in Nat
    PROVE  /\ CycleRun(a, n)[0] = a
           /\ \A k \in 1..n : CycleRun(a, n)[k] = Cycle(CycleRun(a, n)[k - 1])
           /\ \A k \in 0..n : CycleRun(a, n)[k] \in Units /\ FrameFine(CycleRun(a, n)[k])
<1> DEFINE S == {u \in Units : FrameFine(u)}
           f == [u \in S |-> Cycle(u)]
           h == CycleRun(a, n)
<1>1. f \in [S -> S] /\ a \in S
  <2>1. ASSUME NEW u \in S PROVE Cycle(u) \in S
    BY CycleIs
  <2> QED  BY <2>1
<1>2. \E g : /\ g = [k \in 0..n |-> IF k = 0 THEN a ELSE Cycle(g[k - 1])]
  <2>1. PICK g \in [0..n -> S] : Turns(g, f, a, n)
    <3> HIDE DEF f, S, h
    <3> QED  BY <1>1, Iteration
  <2>2. \A k \in 0..n : g[k] \in S
    BY <2>1
  <2>3. \A k \in 0..n : g[k] = IF k = 0 THEN a ELSE Cycle(g[k - 1])
    <3> SUFFICES ASSUME NEW k \in 0..n, k # 0 PROVE g[k] = Cycle(g[k - 1])
      BY <2>1 DEF Turns
    <3>1. k \in 1..n /\ k - 1 \in 0..n
      OBVIOUS
    <3>2. f[g[k - 1]] = Cycle(g[k - 1])
      BY <2>2, <3>1
    <3> QED  BY <2>1, <3>1, <3>2 DEF Turns
  <2>4. g = [k \in 0..n |-> g[k]]
    BY <2>1
  <2> QED  BY <2>3, <2>4
<1> DEFINE Rec(g) == g = [k \in 0..n |-> IF k = 0 THEN a ELSE Cycle(g[k - 1])]
<1>3. h = CHOOSE g : Rec(g)
  BY DEF CycleRun
<1> HIDE DEF Rec, h
<1>4. Rec(h)
  <2>1. \E g : Rec(g)
    BY <1>2 DEF Rec
  <2> QED  BY <1>3, <2>1, Zenon
<1>5. \A k \in 0..n : h[k] = IF k = 0 THEN a ELSE Cycle(h[k - 1])
  BY <1>4 DEF Rec
<1>6. h[0] = a /\ \A k \in 1..n : h[k] = Cycle(h[k - 1])
  <2>1. 0 \in 0..n /\ \A k \in 1..n : k \in 0..n /\ k # 0
    OBVIOUS
  <2> QED  BY <1>5, <2>1
<1> DEFINE Done == {k \in Nat : k <= n => h[k] \in S}
<1>7. 0 \in Done
  BY <1>1, <1>6
<1>8. ASSUME NEW k \in Nat, k \in Done PROVE k + 1 \in Done
  <2> SUFFICES ASSUME k + 1 <= n PROVE h[k + 1] \in S
    OBVIOUS
  <2>1. h[k] \in S
    BY <1>8
  <2>2. h[k + 1] = Cycle(h[k])
    <3>1. k + 1 \in 1..n /\ (k + 1) - 1 = k
      OBVIOUS
    <3>2. h[k + 1] = Cycle(h[(k + 1) - 1])
      BY <1>6, <3>1
    <3> QED  BY <3>1, <3>2
  <2>3. Cycle(h[k]) \in S
    BY <2>1, CycleIs
  <2> QED  BY <2>2, <2>3
<1>9. Nat \subseteq Done
  <2> HIDE DEF Done
  <2> QED  BY <1>7, <1>8, Induction
<1>10. \A k \in 0..n : h[k] \in S
  BY <1>9
<1> QED  BY <1>6, <1>10 DEF h

\* Run up to any time at once, the unit is where its cycles one by one lead.
LEMMA RunIsCycles ==
    ASSUME NEW a, UnitFine(a), NEW end \in Int, a.last <= end
    PROVE  /\ Agree(RunUntil_(a, end), CycleByCycle(a, end))
           /\ RunUntil_(a, end) \in Units /\ CycleByCycle(a, end) \in Units
<1>1. a \in Units /\ FrameFine(a) /\ a.last \in Int /\ a.delay \in Nat
  BY DEF UnitFine, Units
<1> DEFINE n == end - a.last
           h == CycleRun(a, n)
           at(k) == RunUntil_(a, a.last + k)
<1>2. n \in Nat /\ a.last + n = end
  BY <1>1
<1>3. /\ h[0] = a /\ \A k \in 1..n : h[k] = Cycle(h[k - 1])
      /\ \A k \in 0..n : h[k] \in Units /\ FrameFine(h[k])
  <2> HIDE DEF n
  <2> QED  BY <1>1, <1>2, CycleRunIs
<1>4. CycleByCycle(a, end) = h[n]
  BY DEF CycleByCycle, CycleRun
<1>5. \A k \in Nat : at(k) \in Units /\ FrameFine(at(k)) /\ ACycleOn(at(k), at(k + 1))
  <2> TAKE k \in Nat
  <2> DEFINE t == a.last + k
  <2>1. t \in Int /\ a.last <= t /\ t + 1 = a.last + (k + 1)
    BY <1>1
  <2> HIDE DEF t
  <2>2. RanTo(a, RunUntil_(a, t), t) /\ ACycleOn(RunUntil_(a, t), RunUntil_(a, t + 1))
    BY <2>1, RunUntil_Right, RunNext
  <2>3. RunUntil_(a, t) \in Units /\ FrameFine(RunUntil_(a, t))
    BY <2>2 DEF RanTo, UnitFine
  <2>4. ACycleOn(RunUntil_(a, t), RunUntil_(a, a.last + (k + 1)))
    BY <2>1, <2>2
  <2> QED  BY <2>3, <2>4 DEF t
<1> DEFINE Done == {k \in Nat : k <= n => Agree(at(k), h[k])}
<1>6. 0 \in Done
  <2>1. at(0) = a
    BY <1>1 DEF RunUntil_
  <2> HIDE DEF at, h
  <2>2. Agree(at(0), h[0])
    BY <1>3, <2>1 DEF Agree, FramesAgree, SameFrame
  <2> QED  BY <2>2
<1> HIDE DEF h, at, n
<1>7. ASSUME NEW k \in Nat, k \in Done PROVE k + 1 \in Done
  <2> SUFFICES ASSUME k + 1 <= n PROVE Agree(at(k + 1), h[k + 1])
    OBVIOUS
  <2>1. Agree(at(k), h[k])
    BY <1>2, <1>7
  <2>2. k \in 0..n /\ k + 1 \in 1..n /\ (k + 1) - 1 = k
    BY <1>2
  <2>3. h[k + 1] = Cycle(h[k])
    <3>1. h[k + 1] = Cycle(h[(k + 1) - 1])
      BY <1>3, <2>2
    <3> QED  BY <2>2, <3>1
  <2>4. h[k] \in Units /\ FrameFine(h[k])
    BY <1>3, <2>2
  <2>5. ACycleOn(h[k], h[k + 1])
    BY <2>3, <2>4, CycleIs
  <2>6. at(k) \in Units /\ FrameFine(at(k)) /\ ACycleOn(at(k), at(k + 1))
    BY <1>5
  <2> QED  BY <2>1, <2>4, <2>5, <2>6, AgreeOn
<1>8. Nat \subseteq Done
  <2> HIDE DEF Done
  <2> QED  BY <1>6, <1>7, Induction
<1>9. Agree(at(n), h[n]) /\ h[n] \in Units /\ at(n) \in Units
  <2>1. n \in Done /\ n \in 0..n
    BY <1>2, <1>8
  <2> QED  BY <1>2, <1>3, <1>5, <2>1
<1>10. at(n) = RunUntil_(a, end)
  BY <1>2 DEF at
<1> QED  BY <1>4, <1>9, <1>10

\* Units that agree differ in the time announced alone.
LEMMA AgreeIs ==
    ASSUME NEW a \in Units, NEW b \in Units, Agree(a, b)
    PROVE  Unannounced(a) = Unannounced(b)
<1>1. /\ b.last = a.last /\ b.nextIrq = a.nextIrq /\ b.delay = a.delay /\ b.frame = a.frame
      /\ b.five = a.five /\ b.irqOff = a.irqOff /\ b.flag = a.flag
      /\ b.lastDmc = a.lastDmc /\ b.dmc = a.dmc
  BY DEF Agree, FramesAgree, SameFrame
<1> QED  BY <1>1 DEF Unannounced, Units

\* Running the unit lazily loses nothing: run_until_ in one go, Nes_Dmc::run's
\* rounding of the bits and its jump over a silent stretch leave every field
\* but the announced time as cycle after cycle would.
THEOREM LazyIsCycle == Spec => []LazyIsCycleByCycle
<1>1. IInv => LazyIsCycleByCycle
  <2> SUFFICES ASSUME IInv, NEW t \in {now + FramePeriod + 1, now + 3 * FramePeriod}
               PROVE  Unannounced(RunUntil_(apu, t)) = Unannounced(CycleByCycle(apu, t))
    BY DEF LazyIsCycleByCycle
  <2>1. UnitFine(apu) /\ t \in Int /\ apu.last <= t
    BY StateIs, Constants
  <2> QED  BY <2>1, RunIsCycles, AgreeIs
<1> QED  BY <1>1, UnitKeepsItsTimes, PTL

=============================================================================
