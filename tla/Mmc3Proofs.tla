----------------------------- MODULE Mmc3Proofs -----------------------------
(***************************************************************************)
(* What the MMC3's lazy counter promises, for every size of a scanline, a  *)
(* frame and a latch.  The argument has three parts.  Passed(t), the       *)
(* number of scanlines behind at a CPU time t, makes the loop of run_until *)
(* a count.  Clocking k scanlines then obeys three laws: it goes on from   *)
(* any registers it has reached (ClockedShift), it commutes with one more  *)
(* clock (ClockFirst), and it raises the flag exactly after the remaining  *)
(* lines (FlagAfterRemain).  With them the invariant says that the         *)
(* registers are never ahead of the CPU, that only an enabled mapper has   *)
(* its flag up, and that the IRQ time last told is early enough.           *)
(***************************************************************************)
EXTENDS Mmc3, WellFoundedInduction, FiniteSetTheorems, TLAPS

-----------------------------------------------------------------------------
(* Induction on the naturals, for the set of those with a property         *)

\* A set of naturals has a least element.
LEMMA Least ==
    ASSUME NEW T, T \subseteq Nat, T # {}
    PROVE  \E x \in T : \A y \in T : x <= y
<1>1. \E R : IsWellFoundedOn(R, Nat) /\ \A x, y \in Nat : <<x, y>> \in R <=> x < y
  <2>1. IsWellFoundedOn(OpToRel(<, Nat), Nat)
    BY NatLessThanWellFounded
  <2>2. \A x, y \in Nat : <<x, y>> \in OpToRel(<, Nat) <=> x < y
    BY DEF OpToRel
  <2> QED  BY <2>1, <2>2, Zenon
<1>2. PICK R : IsWellFoundedOn(R, Nat) /\ \A x, y \in Nat : <<x, y>> \in R <=> x < y
  BY <1>1
<1>3. PICK x \in T : \A y \in T : ~ (<<y, x>> \in R)
  <2>1. IsWellFoundedOn(R, Nat)
    BY <1>2
  <2> QED  BY <2>1, WFMin, Zenon
<1>4. \A y \in T : ~ (y < x)
  BY <1>2, <1>3
<1> QED  BY <1>4

\* Mathematical induction.
LEMMA Induction ==
    ASSUME NEW S, 0 \in S, \A n \in Nat : n \in S => n + 1 \in S
    PROVE  Nat \subseteq S
<1> SUFFICES ASSUME Nat \ S # {} PROVE FALSE  OBVIOUS
<1>1. PICK x \in Nat \ S : \A y \in Nat \ S : x <= y
  BY Least
<1>2. x # 0 /\ x - 1 \in Nat
  OBVIOUS
<1>3. x - 1 \in S
  BY <1>1, <1>2
<1> QED  BY <1>1, <1>2, <1>3

-----------------------------------------------------------------------------

\* the dot at which line k of a frame is clocked

Dot(k) == FirstLine + k * LineLen

\* what the assumptions say of each constant
LEMMA ConstantTypes ==
    /\ Overclock \in Nat /\ Overclock > 0
    /\ LineLen \in Nat /\ LineLen > 0 /\ Overclock <= LineLen
    /\ FirstLine \in Nat /\ FirstLine > 0
    /\ Lines \in Nat /\ Lines > 0
    /\ FrameLen \in Nat /\ FrameLen > 0
    /\ Overshoot \in Nat
BY TimeAssumption

\* the dots of the lines are numbers
LEMMA DotTypes == \A k \in Nat : Dot(k) \in Nat
BY ConstantTypes DEF Dot

\* from first_scanline to last_scanline
LEMMA DotEnds == Dot(0) = FirstLine /\ Dot(Lines) = LastLine
BY ConstantTypes DEF Dot, LastLine

\* the loop's next_time + k * scanline_len is a line's dot again
LEMMA DotSum == \A j, k \in Nat : Dot(j) + k * LineLen = Dot(j + k)
BY ConstantTypes DEF Dot

\* a product grows with its factor
LEMMA TimesMono == \A a, b, c \in Nat : a <= b => a * c <= b * c
OBVIOUS

\* two lines are at least a CPU cycle apart
LEMMA DotApart == \A j, k \in Nat : j < k => Dot(j) + Overclock <= Dot(k)
<1> SUFFICES ASSUME NEW j \in Nat, NEW k \in Nat, j < k
             PROVE  Dot(j) + Overclock <= Dot(k)
  OBVIOUS
<1>1. (j + 1) * LineLen <= k * LineLen
  BY TimesMono, ConstantTypes
<1>2. (j + 1) * LineLen = j * LineLen + LineLen
  BY ConstantTypes
<1>3. j * LineLen \in Nat /\ k * LineLen \in Nat
  BY ConstantTypes
<1> QED  BY <1>1, <1>2, <1>3, ConstantTypes DEF Dot

\* next_irq's time / ppu_overclock + 1 is the first cycle past a dot
LEMMA DueTime ==
    \A d, t \in Nat : d < t * Overclock <=> d \div Overclock + 1 <= t
<1> SUFFICES ASSUME NEW d \in Nat, NEW t \in Nat
             PROVE  d < t * Overclock <=> d \div Overclock + 1 <= t
  OBVIOUS
<1> DEFINE q == d \div Overclock
<1>1. q \in Nat /\ q * Overclock <= d /\ d < (q + 1) * Overclock
  BY ConstantTypes
<1> HIDE DEF q
<1>2. CASE q + 1 <= t
  BY <1>1, <1>2, TimesMono, ConstantTypes
<1>3. CASE ~ (q + 1 <= t)
  BY <1>1, <1>3, TimesMono, ConstantTypes
<1> QED  BY <1>2, <1>3 DEF q

\* how many scanlines of a frame are behind at the CPU time t
Passed(t) ==
    CHOOSE p \in 0..(Lines + 1) :
        \A i \in 0..Lines : Dot(i) < t * Overclock <=> i < p

\* there is such a number
LEMMA PassedCounts ==
    \A t \in Nat : /\ Passed(t) \in 0..(Lines + 1)
                   /\ \A i \in 0..Lines : Dot(i) < t * Overclock <=> i < Passed(t)
<1> SUFFICES ASSUME NEW t \in Nat
             PROVE  \E p \in 0..(Lines + 1) :
                        \A i \in 0..Lines : Dot(i) < t * Overclock <=> i < p
  BY Zenon DEF Passed
<1> DEFINE Ahead == {i \in Nat : i = Lines + 1 \/ ~ (Dot(i) < t * Overclock)}
<1>1. Lines + 1 \in Ahead
  BY ConstantTypes
<1>2. PICK p \in Ahead : \A i \in Ahead : p <= i
  BY <1>1, Least
<1>3. p \in 0..(Lines + 1)
  BY <1>1, <1>2, ConstantTypes
<1>4. ASSUME NEW i \in 0..Lines, i < p PROVE Dot(i) < t * Overclock
  <2>1. i \in Nat /\ i # Lines + 1 /\ ~ (p <= i)
    BY <1>3, <1>4, ConstantTypes
  <2> QED  BY <2>1, <1>2
<1>5. ASSUME NEW i \in 0..Lines, ~ (i < p) PROVE ~ (Dot(i) < t * Overclock)
  <2>1. i \in Nat /\ p \in Nat /\ p <= i /\ p # Lines + 1
    BY <1>3, <1>5, ConstantTypes
  <2>2. ~ (Dot(p) < t * Overclock)
    BY <1>2, <2>1
  <2>3. p = i \/ Dot(p) + Overclock <= Dot(i)
    BY <2>1, DotApart
  <2>4. Dot(p) \in Nat /\ Dot(i) \in Nat /\ t * Overclock \in Nat
    BY <2>1, DotTypes, ConstantTypes
  <2> QED  BY <2>2, <2>3, <2>4, ConstantTypes
<1> QED  BY <1>3, <1>4, <1>5, Zenon

\* it is a number
LEMMA PassedType == \A t \in Nat : Passed(t) \in 0..(Lines + 1) /\ Passed(t) \in Nat
BY PassedCounts, ConstantTypes

\* a count of lines is known from the lines it counts
LEMMA CountUnique ==
    ASSUME NEW p \in 0..(Lines + 1), NEW q \in 0..(Lines + 1),
           \A i \in 0..Lines : i < p <=> i < q
    PROVE  p = q
<1>1. CASE p < q
  <2>1. p \in 0..Lines
    BY <1>1, ConstantTypes
  <2> QED  BY <1>1, <2>1, ConstantTypes
<1>2. CASE q < p
  <2>1. q \in 0..Lines
    BY <1>2, ConstantTypes
  <2> QED  BY <1>2, <2>1, ConstantTypes
<1> QED  BY <1>1, <1>2, ConstantTypes

\* it never falls as time passes
LEMMA PassedMono == \A t, u \in Nat : t <= u => Passed(t) <= Passed(u)
<1> SUFFICES ASSUME NEW t \in Nat, NEW u \in Nat, t <= u, Passed(u) < Passed(t)
             PROVE  FALSE
  BY PassedType
<1>1. Passed(u) \in 0..Lines
  BY PassedType, ConstantTypes
<1>2. Dot(Passed(u)) < t * Overclock /\ ~ (Dot(Passed(u)) < u * Overclock)
  BY <1>1, PassedCounts, PassedType
<1>3. t * Overclock <= u * Overclock
  BY TimesMono, ConstantTypes
<1>4. Dot(Passed(u)) \in Nat /\ t * Overclock \in Nat /\ u * Overclock \in Nat
  BY DotTypes, PassedType, ConstantTypes
<1> QED  BY <1>2, <1>3, <1>4

\* early in a frame no scanline has passed
LEMMA PassedEarly == \A t \in 0..Overshoot : Passed(t) = 0
<1> SUFFICES ASSUME NEW t \in 0..Overshoot PROVE ~ (0 < Passed(t))
  BY PassedType, ConstantTypes
<1>1. t * Overclock <= Overshoot * Overclock
  BY TimesMono, ConstantTypes
<1>2. ~ (Dot(0) < t * Overclock)
  BY <1>1, DotEnds, ConstantTypes, TimeAssumption
<1>3. t \in Nat /\ 0 \in 0..Lines
  BY ConstantTypes
<1> QED  BY <1>2, <1>3, PassedCounts

\* the CPU times at which a line is clocked
LineTimes == {(FirstLine + k * LineLen) \div Overclock + 1 : k \in 0..Lines}

\* a cycle passes at most one scanline, and one exactly at the line times
LEMMA PassedStep ==
    \A t \in Nat : Passed(t + 1) = Passed(t) + (IF t + 1 \in LineTimes THEN 1 ELSE 0)
<1> SUFFICES ASSUME NEW t \in Nat
             PROVE  Passed(t + 1) = Passed(t) + (IF t + 1 \in LineTimes THEN 1 ELSE 0)
  OBVIOUS
<1> DEFINE p == Passed(t)  q == Passed(t + 1)
<1>1. p \in 0..(Lines + 1) /\ q \in 0..(Lines + 1) /\ p <= q
  BY PassedType, PassedMono, ConstantTypes
<1>2. \A i \in 0..Lines : i < p <=> Dot(i) \div Overclock + 1 <= t
  BY PassedCounts, DueTime, DotTypes
<1>3. \A i \in 0..Lines : i < q <=> Dot(i) \div Overclock + 1 <= t + 1
  <2>1. t + 1 \in Nat
    OBVIOUS
  <2> QED  BY <2>1, PassedCounts, DueTime, DotTypes
<1>4. \A i \in 0..Lines : Dot(i) \div Overclock \in Nat
  BY DotTypes, ConstantTypes
<1>5. \A i \in 0..Lines : (p <= i /\ i < q) <=> Dot(i) \div Overclock = t
  <2> SUFFICES ASSUME NEW i \in 0..Lines
               PROVE  (p <= i /\ i < q) <=> Dot(i) \div Overclock = t
    OBVIOUS
  <2>1. i < p <=> Dot(i) \div Overclock + 1 <= t
    BY <1>2
  <2>2. i < q <=> Dot(i) \div Overclock + 1 <= t + 1
    BY <1>3
  <2>3. Dot(i) \div Overclock \in Nat
    BY <1>4
  <2> HIDE DEF p, q
  <2> QED  BY <2>1, <2>2, <2>3, <1>1, ConstantTypes
<1>6. q <= p + 1
  <2> SUFFICES ASSUME p + 1 < q PROVE FALSE
    BY <1>1, ConstantTypes
  <2>1. p \in 0..Lines /\ p + 1 \in 0..Lines /\ p <= p + 1 /\ p < q
    BY <1>1, ConstantTypes
  <2>2. Dot(p) \div Overclock = t /\ Dot(p + 1) \div Overclock = t
    BY <2>1, <1>5
  <2>3. p \in Nat /\ p + 1 \in Nat
    BY <1>1, ConstantTypes
  <2>4. Dot(p) + Overclock <= Dot(p + 1)
    BY <2>3, DotApart
  <2>5. Dot(p) \in Nat /\ Dot(p + 1) \in Nat
    BY <2>3, DotTypes
  <2>6. ~ (Dot(p) < t * Overclock) /\ Dot(p + 1) < (t + 1) * Overclock
    BY <2>2, <2>5, DueTime
  <2>7. (t + 1) * Overclock = t * Overclock + Overclock /\ t * Overclock \in Nat
    BY ConstantTypes
  <2> QED  BY <2>4, <2>5, <2>6, <2>7, ConstantTypes
<1>7. t + 1 \in LineTimes <=> \E i \in 0..Lines : Dot(i) \div Overclock = t
  <2>1. t + 1 \in LineTimes <=> \E i \in 0..Lines : t + 1 = Dot(i) \div Overclock + 1
    BY DEF LineTimes, Dot
  <2> QED  BY <2>1, <1>4
<1>8. t + 1 \in LineTimes <=> p < q
  <2>1. ASSUME p < q PROVE t + 1 \in LineTimes
    <3>1. p \in 0..Lines /\ p <= p
      BY <1>1, <2>1, ConstantTypes
    <3> QED  BY <3>1, <2>1, <1>5, <1>7
  <2>2. ASSUME t + 1 \in LineTimes PROVE p < q
    <3>1. PICK i \in 0..Lines : Dot(i) \div Overclock = t
      BY <2>2, <1>7
    <3>2. p <= i /\ i < q
      BY <3>1, <1>5
    <3> HIDE DEF p, q
    <3> QED  BY <3>2, <1>1, ConstantTypes
  <2> QED  BY <2>1, <2>2
<1> HIDE DEF p, q
<1>9. q = p + (IF t + 1 \in LineTimes THEN 1 ELSE 0)
  BY <1>1, <1>6, <1>8, ConstantTypes
<1> QED  BY <1>9 DEF p, q

-----------------------------------------------------------------------------
(* The registers, and the lines the loop of run_until finds due.           *)

\* the values of the registers
Machines ==
    [next : {Dot(j) : j \in 0..(Lines + 1)}, ctr : 0..255, latch : Latches,
     enabled : BOOLEAN, flag : BOOLEAN]

\* line j of the frame is the next to clock, and no line before it is ahead of t
At(m, j, t) == m.next = Dot(j) /\ j \in 0..(Lines + 1) /\ j <= Passed(t)

\* the loop passes the lines that are behind t and not yet clocked
LEMMA DueCount ==
    ASSUME NEW m, NEW t \in Nat, NEW j, At(m, j, t)
    PROVE  DueLines(m, t) = Passed(t) - j /\ DueLines(m, t) \in 0..(Lines + 1)
<1> DEFINE n == Passed(t) - j
           due == {k \in 0..Lines : /\ m.next + k * LineLen < t * Overclock
                                    /\ m.next + k * LineLen <= LastLine}
<1>1. n \in 0..(Lines + 1) /\ j \in Nat /\ Passed(t) \in 0..(Lines + 1)
  BY PassedType, ConstantTypes DEF At
<1>2. ASSUME NEW k \in 0..Lines
      PROVE  (m.next + k * LineLen < t * Overclock /\ m.next + k * LineLen <= LastLine)
             <=> k < n
  <2>1. m.next + k * LineLen = Dot(j + k) /\ j + k \in Nat
    BY <1>1, DotSum, ConstantTypes DEF At
  <2>2. CASE j + k \in 0..Lines
    <3>1. Dot(j + k) < t * Overclock <=> j + k < Passed(t)
      BY <2>2, PassedCounts
    <3>2. Dot(j + k) <= LastLine
      <4>1. j + k = Lines \/ j + k < Lines
        BY <2>2, ConstantTypes
      <4>2. j + k < Lines => Dot(j + k) + Overclock <= Dot(Lines)
        BY <2>1, DotApart, ConstantTypes
      <4>3. Dot(j + k) \in Nat /\ Dot(Lines) \in Nat
        BY <2>1, DotTypes, ConstantTypes
      <4> QED  BY <4>1, <4>2, <4>3, DotEnds, ConstantTypes
    <3>3. j + k < Passed(t) <=> k < n
      BY <1>1, ConstantTypes
    <3> QED  BY <2>1, <3>1, <3>2, <3>3
  <2>3. CASE j + k \notin 0..Lines
    <3>1. Lines < j + k
      BY <2>3, <2>1, ConstantTypes
    <3>2. Dot(Lines) + Overclock <= Dot(j + k)
      BY <3>1, <2>1, DotApart, ConstantTypes
    <3>3. Dot(j + k) \in Nat /\ Dot(Lines) \in Nat
      BY <2>1, DotTypes, ConstantTypes
    <3>4. ~ (Dot(j + k) <= LastLine)
      BY <3>2, <3>3, DotEnds, ConstantTypes
    <3>5. ~ (k < n)
      BY <3>1, <1>1, ConstantTypes
    <3> QED  BY <2>1, <3>4, <3>5
  <2> QED  BY <2>2, <2>3
<1>3. due = 0..(n - 1)
  <2> HIDE DEF n
  <2>1. due = {k \in 0..Lines : k < n}
    BY <1>2
  <2> HIDE DEF due
  <2> QED  BY <2>1, <1>1, ConstantTypes
<1>4. DueLines(m, t) = Cardinality(due)
  BY DEF DueLines
<1>5. Cardinality(0..(n - 1)) = n
  <2> HIDE DEF n
  <2>1. n - 1 \in Int /\ 0 \in Int
    BY <1>1
  <2>2. Cardinality(0..(n - 1)) = IF 0 > n - 1 THEN 0 ELSE (n - 1) - 0 + 1
    <3>1. \A a, b \in Int : Cardinality(a..b) = IF a > b THEN 0 ELSE b - a + 1
      BY FS_Interval
    <3> QED  BY <2>1, <3>1
  <2>3. n \in Nat
    BY <1>1
  <2>4. CASE n = 0
    BY <2>2, <2>4
  <2>5. CASE n # 0
    <3>1. ~(0 > n - 1) /\ (n - 1) - 0 + 1 = n
      BY <2>3, <2>5
    <3> QED  BY <2>2, <3>1
  <2> QED  BY <2>4, <2>5
<1> QED  BY <1>1, <1>3, <1>4, <1>5

-----------------------------------------------------------------------------
(* Clocking the counter line by line.                                      *)

\* the recursion of Clocked has a solution, so Clocked is one
LEMMA ClockedFunction ==
    ASSUME NEW m, NEW on \in BOOLEAN
    PROVE  \A k \in 0..(Lines + 1) :
               Clocked(m, on)[k] =
                   IF k = 0 \/ ~on THEN m ELSE ClockCounter(Clocked(m, on)[k - 1])
<1> DEFINE Rec(f, n) ==
        f = [k \in 0..n |-> IF k = 0 \/ ~on THEN m ELSE ClockCounter(f[k - 1])]
           Some == {n \in Nat : \E f : Rec(f, n)}
<1>1. 0 \in Some
  <2>1. Rec([k \in 0..0 |-> m], 0)
    OBVIOUS
  <2> QED  BY <2>1
<1>2. ASSUME NEW n \in Nat, n \in Some PROVE n + 1 \in Some
  <2>1. PICK f : Rec(f, n)
    BY <1>2
  <2> DEFINE g == [k \in 0..(n + 1) |->
                      IF k \in 0..n THEN f[k]
                      ELSE IF ~on THEN m ELSE ClockCounter(f[n])]
  <2>2. \A k \in 0..n : f[k] = IF k = 0 \/ ~on THEN m ELSE ClockCounter(f[k - 1])
    BY <2>1
  <2>3. \A k \in 0..n : g[k] = f[k]
    OBVIOUS
  <2>4. g[n + 1] = IF ~on THEN m ELSE ClockCounter(f[n])
    OBVIOUS
  <2>5. ASSUME NEW k \in 0..(n + 1)
        PROVE  g[k] = IF k = 0 \/ ~on THEN m ELSE ClockCounter(g[k - 1])
    <3>1. CASE k = n + 1
      <4>1. k # 0 /\ k - 1 = n /\ g[n] = f[n]
        BY <3>1, <2>3
      <4> HIDE DEF g
      <4> QED  BY <3>1, <4>1, <2>4
    <3>2. CASE k = 0
      BY <3>2, <2>2, <2>3
    <3>3. CASE k \in 1..n
      <4>1. k \in 0..n /\ k - 1 \in 0..n
        BY <3>3
      <4>2. g[k] = f[k] /\ g[k - 1] = f[k - 1]
        BY <4>1, <2>3
      <4> HIDE DEF g
      <4> QED  BY <4>1, <4>2, <2>2
    <3> QED  BY <3>1, <3>2, <3>3
  <2>6. Rec(g, n + 1)
    <3>1. g = [k \in 0..(n + 1) |-> g[k]]
      OBVIOUS
    <3> HIDE DEF g
    <3> QED  BY <3>1, <2>5
  <2>7. \E h : Rec(h, n + 1)
    <3> HIDE DEF Rec, g
    <3> QED  BY <2>6
  <2> QED  BY <2>7
<1>3. Nat \subseteq Some
  <2> HIDE DEF Some
  <2> QED  BY <1>1, <1>2, Induction
<1>4. \E f : Rec(f, Lines + 1)
  BY <1>3, ConstantTypes
<1>5. Clocked(m, on) = CHOOSE f : Rec(f, Lines + 1)
  BY DEF Clocked
<1> HIDE DEF Rec
<1>6. Rec(Clocked(m, on), Lines + 1)
  BY <1>4, <1>5, Zenon
<1> DEFINE c == Clocked(m, on)
<1> HIDE DEF c
<1>7. Rec(c, Lines + 1)
  BY <1>6 DEF c
<1>8. \A k \in 0..(Lines + 1) : c[k] = IF k = 0 \/ ~on THEN m ELSE ClockCounter(c[k - 1])
  BY <1>7 DEF Rec
<1> QED  BY <1>8 DEF c

\* its first value, and each from the one before
LEMMA ClockedSteps ==
    ASSUME NEW m, NEW on \in BOOLEAN
    PROVE  /\ Clocked(m, on)[0] = m
           /\ \A k \in Nat : k <= Lines =>
                 Clocked(m, on)[k + 1] = IF on THEN ClockCounter(Clocked(m, on)[k]) ELSE m
<1> DEFINE c == Clocked(m, on)
<1>1. \A k \in 0..(Lines + 1) : c[k] = IF k = 0 \/ ~on THEN m ELSE ClockCounter(c[k - 1])
  BY ClockedFunction
<1> HIDE DEF c
<1>2. c[0] = m
  BY <1>1, ConstantTypes
<1>3. ASSUME NEW k \in Nat, k <= Lines
      PROVE  c[k + 1] = IF on THEN ClockCounter(c[k]) ELSE m
  <2>1. k + 1 \in 0..(Lines + 1) /\ k + 1 # 0 /\ (k + 1) - 1 = k
    BY <1>3, ConstantTypes
  <2> QED  BY <2>1, <1>1
<1> QED  BY <1>2, <1>3 DEF c

\* the registers the counter is made of
Same(a, b) == a.ctr = b.ctr /\ a.latch = b.latch /\ a.enabled = b.enabled /\ a.flag = b.flag

\* with next_time they are all of them
LEMMA SameEqual ==
    ASSUME NEW a \in Machines, NEW b \in Machines, Same(a, b), a.next = b.next
    PROVE  a = b
BY DEF Machines, Same

\* the fields of the registers
LEMMA MachineFields ==
    ASSUME NEW m \in Machines
    PROVE  /\ m.next \in {Dot(j) : j \in 0..(Lines + 1)}
           /\ m.ctr \in 0..255 /\ m.latch \in Latches /\ m.latch \in 0..255
           /\ m.enabled \in BOOLEAN /\ m.flag \in BOOLEAN
BY LatchAssumption DEF Machines

\* clock_counter, field by field
LEMMA ClockCounterFields ==
    ASSUME NEW m \in Machines
    PROVE  LET r == ClockCounter(m) IN
           /\ r \in Machines
           /\ r.next = m.next /\ r.latch = m.latch /\ r.enabled = m.enabled
           /\ r.ctr = IF m.ctr = 0 THEN m.latch ELSE m.ctr - 1
           /\ r.flag = IF r.ctr = 0 THEN m.enabled ELSE m.flag
<1> DEFINE c == IF m.ctr = 0 THEN m.latch ELSE m.ctr - 1
           f == IF c = 0 THEN m.enabled ELSE m.flag
<1>1. ClockCounter(m) = [m EXCEPT !.ctr = c, !.flag = f]
  BY DEF ClockCounter
<1>2. c \in 0..255 /\ f \in BOOLEAN
  BY MachineFields
<1> HIDE DEF c, f
<1>3. /\ ClockCounter(m) \in Machines
      /\ ClockCounter(m).next = m.next /\ ClockCounter(m).latch = m.latch
      /\ ClockCounter(m).enabled = m.enabled
      /\ ClockCounter(m).ctr = c /\ ClockCounter(m).flag = f
  BY <1>1, <1>2 DEF Machines
<1> QED  BY <1>3 DEF c, f

\* clock_counter reads and writes only the counter's registers
LEMMA SameClock ==
    ASSUME NEW a \in Machines, NEW b \in Machines, Same(a, b)
    PROVE  Same(ClockCounter(a), ClockCounter(b))
BY ClockCounterFields DEF Same

\* clocking lines leaves next_time, the latch and the enable bit alone
LEMMA ClockedFields ==
    ASSUME NEW m \in Machines, NEW on \in BOOLEAN
    PROVE  \A k \in 0..(Lines + 1) :
               LET r == Clocked(m, on)[k] IN
               /\ r \in Machines
               /\ r.next = m.next /\ r.latch = m.latch /\ r.enabled = m.enabled
<1> DEFINE c == Clocked(m, on)
           Kept(k) == /\ c[k] \in Machines
                      /\ c[k].next = m.next /\ c[k].latch = m.latch
                      /\ c[k].enabled = m.enabled
           S == {k \in Nat : k <= Lines + 1 => Kept(k)}
<1>1. 0 \in S
  BY ClockedSteps
<1>2. ASSUME NEW k \in Nat, k \in S PROVE k + 1 \in S
  <2> SUFFICES ASSUME k + 1 <= Lines + 1 PROVE Kept(k + 1)
    OBVIOUS
  <2>1. k <= Lines /\ Kept(k)
    BY <1>2, ConstantTypes
  <2>2. c[k + 1] = IF on THEN ClockCounter(c[k]) ELSE m
    BY <2>1, ClockedSteps
  <2> HIDE DEF c
  <2>3. CASE on
    BY <2>1, <2>2, <2>3, ClockCounterFields
  <2>4. CASE ~on
    BY <2>2, <2>4
  <2> QED  BY <2>3, <2>4
<1>3. Nat \subseteq S
  <2> HIDE DEF S
  <2> QED  BY <1>1, <1>2, Induction
<1>4. \A k \in 0..(Lines + 1) : Kept(k)
  BY <1>3, ConstantTypes
<1> QED  BY <1>4

\* the counter goes on from any registers it has reached
LEMMA ClockedShift ==
    ASSUME NEW m \in Machines, NEW b \in Machines, NEW on \in BOOLEAN,
           NEW p \in 0..(Lines + 1), Same(Clocked(m, on)[p], b)
    PROVE  \A k \in Nat : p + k <= Lines + 1 =>
               Same(Clocked(m, on)[p + k], Clocked(b, on)[k])
<1> DEFINE c == Clocked(m, on)  d == Clocked(b, on)
           S == {k \in Nat : p + k <= Lines + 1 => Same(c[p + k], d[k])}
<1>1. 0 \in S
  <2>1. d[0] = b /\ p + 0 = p
    BY ClockedSteps
  <2> QED  BY <2>1
<1>2. ASSUME NEW k \in Nat, k \in S PROVE k + 1 \in S
  <2> SUFFICES ASSUME p + (k + 1) <= Lines + 1 PROVE Same(c[p + (k + 1)], d[k + 1])
    OBVIOUS
  <2>1. /\ p + k \in Nat /\ p + k <= Lines /\ k <= Lines /\ p + (k + 1) = (p + k) + 1
        /\ p + k \in 0..(Lines + 1) /\ k \in 0..(Lines + 1) /\ p + k <= Lines + 1
    BY ConstantTypes
  <2>2. Same(c[p + k], d[k])
    BY <1>2, <2>1
  <2>3. c[p + (k + 1)] = IF on THEN ClockCounter(c[p + k]) ELSE m
    BY <2>1, ClockedSteps
  <2>4. d[k + 1] = IF on THEN ClockCounter(d[k]) ELSE b
    BY <2>1, ClockedSteps
  <2>5. c[p + k] \in Machines /\ d[k] \in Machines
    BY <2>1, ClockedFields
  <2>6. CASE on
    <3> HIDE DEF c, d
    <3> QED  BY <2>2, <2>3, <2>4, <2>5, <2>6, SameClock
  <2>7. CASE ~on
    <3>1. c[p] = IF p = 0 \/ ~on THEN m ELSE ClockCounter(c[p - 1])
      BY ClockedFunction
    <3>2. Same(m, b)
      BY <3>1, <2>7
    <3> QED  BY <3>2, <2>3, <2>4, <2>7
  <2> QED  BY <2>6, <2>7
<1>3. Nat \subseteq S
  <2> HIDE DEF S
  <2> QED  BY <1>1, <1>2, Induction
<1> QED  BY <1>3

\* one clock more before the lines is one clock more after them
LEMMA ClockFirst ==
    ASSUME NEW m \in Machines, NEW on \in BOOLEAN
    PROVE  \A k \in 0..(Lines + 1) :
               Same(Clocked(ClockCounter(m), on)[k], ClockCounter(Clocked(m, on)[k]))
<1> DEFINE c == Clocked(m, on)  d == Clocked(ClockCounter(m), on)
           S == {k \in Nat : k <= Lines + 1 => Same(d[k], ClockCounter(c[k]))}
<1>1. 0 \in S
  BY ClockedSteps DEF Same
<1>2. ASSUME NEW k \in Nat, k \in S PROVE k + 1 \in S
  <2> SUFFICES ASSUME k + 1 <= Lines + 1 PROVE Same(d[k + 1], ClockCounter(c[k + 1]))
    OBVIOUS
  <2>1. k <= Lines /\ k \in 0..(Lines + 1) /\ Same(d[k], ClockCounter(c[k]))
    BY <1>2, ConstantTypes
  <2>2. c[k + 1] = IF on THEN ClockCounter(c[k]) ELSE m
    BY <2>1, ClockedSteps
  <2>3. d[k + 1] = IF on THEN ClockCounter(d[k]) ELSE ClockCounter(m)
    BY <2>1, ClockedSteps
  <2>4. c[k] \in Machines /\ d[k] \in Machines /\ ClockCounter(c[k]) \in Machines
    BY <2>1, ClockedFields, ClockCounterFields
  <2>5. CASE on
    <3> HIDE DEF c, d
    <3> QED  BY <2>1, <2>2, <2>3, <2>4, <2>5, SameClock
  <2>6. CASE ~on
    BY <2>2, <2>3, <2>6 DEF Same
  <2> QED  BY <2>5, <2>6
<1>3. Nat \subseteq S
  <2> HIDE DEF S
  <2> QED  BY <1>1, <1>2, Induction
<1> QED  BY <1>3, ConstantTypes

\* a raised flag stays raised while the counter may raise it
LEMMA FlagStays ==
    ASSUME NEW m \in Machines, NEW on \in BOOLEAN, m.flag = m.enabled
    PROVE  \A k \in 0..(Lines + 1) : Clocked(m, on)[k].flag = m.flag
<1> DEFINE c == Clocked(m, on)
           S == {k \in Nat : k <= Lines + 1 => c[k].flag = m.flag}
<1>1. 0 \in S
  BY ClockedSteps
<1>2. ASSUME NEW k \in Nat, k \in S PROVE k + 1 \in S
  <2> SUFFICES ASSUME k + 1 <= Lines + 1 PROVE c[k + 1].flag = m.flag
    OBVIOUS
  <2>1. k <= Lines /\ k \in 0..(Lines + 1) /\ c[k].flag = m.flag
    BY <1>2, ConstantTypes
  <2>2. c[k + 1] = IF on THEN ClockCounter(c[k]) ELSE m
    BY <2>1, ClockedSteps
  <2>3. c[k] \in Machines /\ c[k].enabled = m.enabled
    BY <2>1, ClockedFields
  <2> HIDE DEF c
  <2>4. ClockCounter(c[k]).flag = c[k].flag
    BY <2>1, <2>3, ClockCounterFields
  <2> QED  BY <2>1, <2>2, <2>4
<1>3. Nat \subseteq S
  <2> HIDE DEF S
  <2> QED  BY <1>1, <1>2, Induction
<1> QED  BY <1>3, ConstantTypes

\* the scanline after the remaining ones is the first to raise the flag
LEMMA FlagAfterRemain ==
    ASSUME NEW m \in Machines, m.enabled, ~m.flag
    PROVE  \A k \in 0..(Lines + 1) : Clocked(m, TRUE)[k].flag <=> Remain(m) < k
<1> DEFINE c == Clocked(m, TRUE)
           R == Remain(m)
           P(k) == /\ c[k].flag <=> R < k
                   /\ 1 <= k /\ k <= R + 1 => c[k].ctr = R + 1 - k
           S == {k \in Nat : k <= Lines + 1 => P(k)}
<1>0. R \in Nat /\ R = IF m.ctr = 0 THEN m.latch ELSE m.ctr - 1
  BY MachineFields DEF Remain
<1>1. 0 \in S
  <2>1. c[0] = m
    BY ClockedSteps
  <2> HIDE DEF c, R
  <2> QED  BY <2>1, <1>0
<1>2. ASSUME NEW k \in Nat, k \in S PROVE k + 1 \in S
  <2> SUFFICES ASSUME k + 1 <= Lines + 1 PROVE P(k + 1)
    <3> HIDE DEF P
    <3> QED  OBVIOUS
  <2>1. k <= Lines /\ k \in 0..(Lines + 1) /\ P(k)
    <3> HIDE DEF P
    <3> QED  BY <1>2, ConstantTypes
  <2>2. c[k + 1] = ClockCounter(c[k])
    BY <2>1, ClockedSteps
  <2>3. c[k] \in Machines /\ c[k].enabled = m.enabled /\ c[k].latch = m.latch
    BY <2>1, ClockedFields
  <2>4. /\ c[k].ctr \in 0..255 /\ c[k].latch \in 0..255 /\ c[k].flag \in BOOLEAN
        /\ m.ctr \in 0..255 /\ m.latch \in 0..255
    BY <2>3, MachineFields
  <2>5. /\ c[k + 1].ctr = IF c[k].ctr = 0 THEN c[k].latch ELSE c[k].ctr - 1
        /\ c[k + 1].flag = IF c[k + 1].ctr = 0 THEN m.enabled ELSE c[k].flag
    BY <2>2, <2>3, ClockCounterFields
  <2>6. k = 0 => c[k] = m
    BY ClockedSteps
  <2> HIDE DEF c, R
  <2>7. k + 1 <= R + 1 => c[k + 1].ctr = R + 1 - (k + 1)
    <3>1. CASE k = 0
      BY <3>1, <2>5, <2>6, <1>0
    <3>2. CASE 1 <= k /\ k <= R
      <4>1. c[k].ctr = R + 1 - k
        BY <3>2, <2>1, <1>0
      <4> QED  BY <4>1, <3>2, <2>5, <1>0
    <3> QED  BY <3>1, <3>2, <1>0
  <2>8. c[k + 1].flag <=> R < k + 1
    <3>1. CASE R < k
      <4>1. c[k].flag
        BY <3>1, <2>1
      <4>2. c[k + 1].flag
        BY <4>1, <2>5
      <4> QED  BY <4>2, <3>1, <1>0
    <3>2. CASE R = k
      <4>1. c[k + 1].ctr = 0
        BY <3>2, <2>7, <1>0
      <4>2. c[k + 1].flag = m.enabled
        BY <4>1, <2>5
      <4>3. R < k + 1
        BY <3>2, <1>0
      <4> QED  BY <4>2, <4>3, Zenon
    <3>3. CASE k < R
      <4>1. c[k + 1].ctr = R - k /\ R - k # 0
        BY <3>3, <2>7, <1>0
      <4>2. c[k + 1].flag = c[k].flag
        BY <4>1, <2>5
      <4>3. ~c[k].flag
        BY <3>3, <2>1, <1>0
      <4> QED  BY <4>2, <4>3, <3>3, <1>0
    <3> QED  BY <3>1, <3>2, <3>3, <1>0
  <2> QED  BY <2>7, <2>8
<1>3. Nat \subseteq S
  <2> HIDE DEF S
  <2> QED  BY <1>1, <1>2, Induction
<1>4. \A k \in 0..(Lines + 1) : P(k)
  <2> HIDE DEF P
  <2> QED  BY <1>3, ConstantTypes
<1> QED  BY <1>4

\* with the IRQ disabled no scanline raises it
LEMMA FlagNever ==
    ASSUME NEW m \in Machines, ~m.enabled, ~m.flag, NEW on \in BOOLEAN
    PROVE  \A k \in 0..(Lines + 1) : ~ Clocked(m, on)[k].flag
<1>1. m.flag = m.enabled
  BY MachineFields, Zenon
<1> QED  BY <1>1, FlagStays, Zenon

-----------------------------------------------------------------------------
(* run_until.                                                              *)

\* what run_until leaves: the lines clocked, and the next line of the frame
LEMMA RunFields ==
    ASSUME NEW m \in Machines, NEW on \in BOOLEAN, NEW t \in Nat, NEW j, At(m, j, t)
    PROVE  LET r == RunUntil(m, t, on) IN
           /\ r \in Machines
           /\ Same(r, Clocked(m, on)[Passed(t) - j])
           /\ r.next = Dot(Passed(t))
           /\ r.latch = m.latch /\ r.enabled = m.enabled
           /\ Passed(t) - j \in 0..(Lines + 1)
<1> DEFINE n == Passed(t) - j
           d == Clocked(m, on)[n]
           x == m.next + n * LineLen
<1>1. n \in 0..(Lines + 1) /\ DueLines(m, t) = n
  BY DueCount
<1>2. RunUntil(m, t, on) = [d EXCEPT !.next = x]
  BY <1>1 DEF RunUntil
<1>3. d \in Machines /\ d.latch = m.latch /\ d.enabled = m.enabled
  BY <1>1, ClockedFields
<1>4. x = Dot(Passed(t)) /\ Passed(t) \in 0..(Lines + 1)
  <2>1. j \in Nat /\ n \in Nat /\ j + n = Passed(t) /\ Passed(t) \in 0..(Lines + 1)
    BY <1>1, PassedType, ConstantTypes DEF At
  <2> HIDE DEF n
  <2>2. Dot(j) + n * LineLen = Dot(j + n)
    BY <2>1, DotSum
  <2> QED  BY <2>1, <2>2 DEF At
<1> HIDE DEF d, x
<1>5. /\ RunUntil(m, t, on) \in Machines
      /\ Same(RunUntil(m, t, on), d)
      /\ RunUntil(m, t, on).next = x
      /\ RunUntil(m, t, on).latch = d.latch /\ RunUntil(m, t, on).enabled = d.enabled
  <2>1. x \in {Dot(i) : i \in 0..(Lines + 1)}
    BY <1>4
  <2> QED  BY <1>2, <1>3, <2>1 DEF Machines, Same
<1> QED  BY <1>1, <1>3, <1>4, <1>5 DEF d

\* it is never ahead of the CPU
LEMMA RunAt ==
    ASSUME NEW m \in Machines, NEW on \in BOOLEAN, NEW t \in Nat, NEW j, At(m, j, t),
           NEW u \in Nat, t <= u
    PROVE  At(RunUntil(m, t, on), Passed(t), u)
BY RunFields, PassedType, PassedMono DEF At

\* a mapper run to the present stays as it is when run to the present again
LEMMA RunNow ==
    ASSUME NEW m \in Machines, NEW on \in BOOLEAN, NEW t \in Nat, At(m, Passed(t), t)
    PROVE  RunUntil(m, t, on) = m
<1>1. Passed(t) - Passed(t) = 0
  BY PassedType, ConstantTypes
<1>2. Same(RunUntil(m, t, on), Clocked(m, on)[0]) /\ RunUntil(m, t, on) \in Machines
  BY <1>1, RunFields
<1>3. RunUntil(m, t, on).next = m.next
  BY RunFields DEF At
<1>4. Clocked(m, on)[0] = m
  BY ClockedSteps
<1> QED  BY <1>2, <1>3, <1>4, SameEqual

\* running in two steps is running in one
LEMMA RunRun ==
    ASSUME NEW m \in Machines, NEW on \in BOOLEAN, NEW t \in Nat, NEW j, At(m, j, t),
           NEW u \in Nat, t <= u
    PROVE  RunUntil(RunUntil(m, t, on), u, on) = RunUntil(m, u, on)
<1> DEFINE r == RunUntil(m, t, on)
           a == Passed(t) - j
           b == Passed(u) - Passed(t)
<1>1. At(m, j, u) /\ At(r, Passed(t), u) /\ j \in Nat
  BY RunAt, PassedMono, PassedType, ConstantTypes DEF At
<1>2. /\ r \in Machines /\ Same(r, Clocked(m, on)[a])
      /\ a \in 0..(Lines + 1)
  BY RunFields
<1>3. /\ RunUntil(r, u, on) \in Machines
      /\ Same(RunUntil(r, u, on), Clocked(r, on)[b])
      /\ RunUntil(r, u, on).next = Dot(Passed(u))
      /\ b \in 0..(Lines + 1)
  <2> HIDE DEF r
  <2> QED  BY <1>1, <1>2, RunFields
<1>4. /\ RunUntil(m, u, on) \in Machines
      /\ Same(RunUntil(m, u, on), Clocked(m, on)[Passed(u) - j])
      /\ RunUntil(m, u, on).next = Dot(Passed(u))
      /\ Passed(u) - j \in 0..(Lines + 1)
  BY <1>1, RunFields
<1>5. a + b = Passed(u) - j
  BY <1>1, PassedType
<1>6. Same(Clocked(m, on)[a + b], Clocked(r, on)[b])
  <2>1. Same(Clocked(m, on)[a], r)
    BY <1>2 DEF Same
  <2>2. b \in Nat /\ a + b <= Lines + 1
    BY <1>3, <1>4, <1>5, ConstantTypes
  <2> HIDE DEF r, a, b
  <2> QED  BY <2>1, <2>2, <1>2, ClockedShift
<1>7. Same(RunUntil(r, u, on), RunUntil(m, u, on))
  BY <1>3, <1>4, <1>5, <1>6 DEF Same
<1> QED  BY <1>3, <1>4, <1>7, SameEqual

-----------------------------------------------------------------------------
(* next_irq.                                                               *)

\* no_irq is later than any time of a frame
LEMMA NoIrqLate == NoIrq \in Nat /\ FrameLen + Overshoot < NoIrq
<1>1. Overshoot < FrameLen
  <2> SUFFICES ASSUME FrameLen <= Overshoot PROVE FALSE
    BY ConstantTypes
  <2>1. FrameLen * Overclock <= Overshoot * Overclock
    BY TimesMono, ConstantTypes
  <2>2. FrameLen * Overclock \in Nat /\ Overshoot * Overclock \in Nat /\ Lines * LineLen \in Nat
    BY ConstantTypes
  <2> QED  BY <2>1, <2>2, TimeAssumption, ConstantTypes
<1>2. FrameLen <= FrameLen * Overclock /\ FrameLen * Overclock \in Nat
  <2>1. 1 * FrameLen <= Overclock * FrameLen
    BY TimesMono, ConstantTypes
  <2> QED  BY <2>1, ConstantTypes
<1> QED  BY <1>1, <1>2, ConstantTypes DEF NoIrq

\* next_irq's formula names the first moment at which the flag would be found
LEMMA Prediction ==
    ASSUME NEW m \in Machines, m.flag => m.enabled, NEW on \in BOOLEAN,
           NEW now0 \in Nat, At(m, Passed(now0), now0),
           NEW t \in Nat, now0 <= t, t <= FrameLen + Overshoot
    PROVE  RunUntil(m, t, on).flag <=> NextIrq(m, on) <= t
<1> DEFINE j == Passed(now0)
           n == Passed(t) - j
<1>1. /\ At(m, j, t) /\ j \in 0..(Lines + 1) /\ j \in Nat
      /\ Passed(t) \in Nat /\ Passed(t) <= Lines + 1
  BY PassedMono, PassedType, ConstantTypes DEF At
<1>2. RunUntil(m, t, on).flag = Clocked(m, on)[n].flag /\ n \in 0..(Lines + 1)
  BY <1>1, RunFields DEF Same
<1>3. m.flag \in BOOLEAN /\ m.enabled \in BOOLEAN
  BY MachineFields
<1>4. ~ (NoIrq <= t)
  BY NoIrqLate, ConstantTypes
<1>5. CASE ~m.enabled
  <2>1. ~ Clocked(m, on)[n].flag
    BY <1>2, <1>5, FlagNever
  <2>2. NextIrq(m, on) = NoIrq
    BY <1>5 DEF NextIrq
  <2> QED  BY <2>1, <2>2, <1>2, <1>4
<1>6. CASE m.enabled /\ m.flag
  <2>1. m.flag = m.enabled
    BY <1>6, <1>3, Zenon
  <2>2. Clocked(m, on)[n].flag
    BY <2>1, <1>2, <1>6, FlagStays
  <2>3. NextIrq(m, on) = 0
    BY <1>6 DEF NextIrq
  <2> QED  BY <2>2, <2>3, <1>2
<1>7. CASE m.enabled /\ ~m.flag /\ ~on
  <2>1. Clocked(m, on)[n] = IF n = 0 \/ ~on THEN m ELSE ClockCounter(Clocked(m, on)[n - 1])
    BY <1>2, ClockedFunction
  <2>2. ~ Clocked(m, on)[n].flag
    BY <2>1, <1>7
  <2>3. NextIrq(m, on) = NoIrq
    BY <1>7 DEF NextIrq
  <2> QED  BY <2>2, <2>3, <1>2, <1>4
<1>8. CASE m.enabled /\ ~m.flag /\ on
  <2> DEFINE R == Remain(m)  i == j + R
  <2>1. R \in Nat
    BY MachineFields DEF Remain
  <2>2. Clocked(m, on)[n].flag <=> R < n
    <3>1. on = TRUE
      BY <1>8
    <3> QED  BY <3>1, <1>2, <1>8, FlagAfterRemain
  <2>3. R < n <=> i < Passed(t)
    BY <2>1, <1>1
  <2>4. i \in Nat /\ R * LineLen + m.next = Dot(i) /\ Dot(i) \in Nat
    <3>1. m.next = Dot(j) /\ Dot(j) \in Nat
      BY <1>1, DotTypes DEF At
    <3>2. Dot(j) + R * LineLen = Dot(i) /\ R * LineLen \in Nat /\ i \in Nat
      BY <1>1, <2>1, DotSum, ConstantTypes
    <3>3. Dot(i) \in Nat
      BY <3>2, DotTypes
    <3> HIDE DEF i, R, j
    <3> QED  BY <3>1, <3>2, <3>3
  <2>5. NextIrq(m, on) = IF Dot(i) > LastLine THEN NoIrq ELSE Dot(i) \div Overclock + 1
    <3> HIDE DEF i
    <3> QED  BY <2>4, <1>8 DEF NextIrq
  <2> HIDE DEF R, i, n, j
  <2>6. CASE i \in 0..Lines
    <3>1. i = Lines \/ Dot(i) + Overclock <= Dot(Lines)
      BY <2>4, <2>6, DotApart, ConstantTypes
    <3>2. ~ (Dot(i) > LastLine)
      BY <3>1, <2>4, DotEnds, DotTypes, ConstantTypes
    <3>3. i < Passed(t) <=> Dot(i) < t * Overclock
      BY <2>6, PassedCounts
    <3>4. Dot(i) < t * Overclock <=> Dot(i) \div Overclock + 1 <= t
      BY <2>4, DueTime
    <3> QED  BY <3>2, <3>3, <3>4, <2>5, <2>2, <2>3, <1>2
  <2>7. CASE i \notin 0..Lines
    <3>1. Lines < i
      BY <2>4, <2>7, ConstantTypes
    <3>2. Dot(Lines) + Overclock <= Dot(i) /\ Dot(Lines) \in Nat
      BY <3>1, <2>4, DotApart, DotTypes, ConstantTypes
    <3>3. Dot(i) > LastLine
      BY <3>2, <2>4, DotEnds, ConstantTypes
    <3>4. ~ (i < Passed(t))
      BY <3>1, <2>4, <1>1, ConstantTypes
    <3> QED  BY <3>3, <3>4, <2>5, <2>2, <2>3, <1>2, <1>4
  <2> QED  BY <2>6, <2>7
<1> QED  BY <1>3, <1>5, <1>6, <1>7, <1>8

\* next_irq returns a time
LEMMA NextIrqType == ASSUME NEW m \in Machines, NEW on \in BOOLEAN PROVE NextIrq(m, on) \in Nat
<1>1. PICK j \in 0..(Lines + 1) : m.next = Dot(j)
  BY MachineFields
<1>2. m.next \in Nat
  BY <1>1, DotTypes, ConstantTypes
<1>3. Remain(m) \in Nat
  BY MachineFields DEF Remain
<1> DEFINE time == Remain(m) * LineLen + m.next
<1>4. time \in Nat
  BY <1>2, <1>3, ConstantTypes
<1> HIDE DEF time
<1>5. time \div Overclock + 1 \in Nat
  BY <1>4, ConstantTypes
<1> QED  BY <1>5, NoIrqLate DEF NextIrq, time

-----------------------------------------------------------------------------
(* Registers a run of the mapper can be in at the CPU time t, and an IRQ   *)
(* time that is not later than the first moment of theirs.                 *)

\* the flag only with the enable bit, and no line clocked before its time
Sound(m, t) == m \in Machines /\ (m.flag => m.enabled) /\ \E j : At(m, j, t)

\* the time irq is no later than the first at which the flag would be found
Told(m, t, on, irq) ==
    \A u \in t..(FrameLen + Overshoot) : RunUntil(m, u, on).flag => irq <= u

\* run_until keeps the registers sound
LEMMA RunSound ==
    ASSUME NEW t \in Nat, NEW u \in Nat, t <= u, NEW m, Sound(m, t), NEW on \in BOOLEAN
    PROVE  /\ Sound(RunUntil(m, t, on), u)
           /\ At(RunUntil(m, t, on), Passed(t), t)
           /\ RunUntil(m, t, on) \in Machines
           /\ RunUntil(m, t, on).flag => RunUntil(m, t, on).enabled
           /\ RunUntil(m, t, on).latch = m.latch /\ RunUntil(m, t, on).enabled = m.enabled
<1> DEFINE r == RunUntil(m, t, on)
<1>1. m \in Machines /\ (m.flag => m.enabled)
  BY DEF Sound
<1>2. PICK j : At(m, j, t)
  BY DEF Sound
<1>3. /\ r \in Machines /\ r.latch = m.latch /\ r.enabled = m.enabled
      /\ r.flag = Clocked(m, on)[Passed(t) - j].flag
      /\ Passed(t) - j \in 0..(Lines + 1)
  BY <1>1, <1>2, RunFields DEF Same
<1>4. At(r, Passed(t), t) /\ At(r, Passed(t), u)
  BY <1>1, <1>2, RunAt
<1>5. r.flag => r.enabled
  <2> SUFFICES ASSUME ~m.enabled PROVE ~r.flag
    BY <1>3, Zenon
  <2>1. ~m.flag
    BY <1>1
  <2> QED  BY <2>1, <1>1, <1>3, FlagNever
<1>6. Sound(r, u)
  BY <1>3, <1>4, <1>5, Zenon DEF Sound
<1> QED  BY <1>3, <1>4, <1>5, <1>6

\* and is the same in two steps
LEMMA RunSoundRun ==
    ASSUME NEW t \in Nat, NEW u \in Nat, t <= u, NEW m, Sound(m, t), NEW on \in BOOLEAN
    PROVE  RunUntil(RunUntil(m, t, on), u, on) = RunUntil(m, u, on)
<1>1. PICK j : At(m, j, t)
  BY DEF Sound
<1> QED  BY <1>1, RunRun DEF Sound

\* so does an A12 edge
LEMMA ClockSound ==
    ASSUME NEW t, NEW m, Sound(m, t)
    PROVE  Sound(ClockCounter(m), t)
<1>1. m \in Machines /\ (m.flag => m.enabled) /\ \E j : At(m, j, t)
  BY DEF Sound
<1> DEFINE r == ClockCounter(m)
<1>2. /\ r \in Machines /\ r.next = m.next /\ r.enabled = m.enabled
      /\ r.flag = IF r.ctr = 0 THEN m.enabled ELSE m.flag
  BY <1>1, ClockCounterFields
<1> HIDE DEF r
<1>3. r.flag => r.enabled
  BY <1>1, <1>2
<1>4. \E j : At(r, j, t)
  BY <1>1, <1>2 DEF At
<1> QED  BY <1>2, <1>3, <1>4 DEF Sound, r

\* an IRQ time asked for now is right until the mapper is touched again
LEMMA TellSound ==
    ASSUME NEW t \in Nat, t <= FrameLen + Overshoot, NEW m, Sound(m, t), NEW on \in BOOLEAN
    PROVE  LET r == RunUntil(m, t, on) IN Told(r, t, on, NextIrq(r, on))
<1> DEFINE r == RunUntil(m, t, on)
<1>1. r \in Machines /\ (r.flag => r.enabled) /\ At(r, Passed(t), t)
  BY RunSound
<1> HIDE DEF r
<1>2. ASSUME NEW u \in t..(FrameLen + Overshoot)
      PROVE  RunUntil(r, u, on).flag => NextIrq(r, on) <= u
  <2>1. u \in Nat /\ t <= u /\ u <= FrameLen + Overshoot
    BY ConstantTypes
  <2> QED  BY <1>1, <2>1, Prediction
<1> QED  BY <1>2 DEF Told, r

-----------------------------------------------------------------------------
(* The inductive invariant.                                                *)

\* a saved flag only with the saved enable bit
SavedInv == saved # << >> => (saved.flag => saved.enabled)
\* between frames the clock is back at the overshoot, the lines at the first
IdleInv == ~running => now <= Overshoot /\ nextTime = FirstLine
\* while the CPU runs it has been told in time
ToldInv == running => Told(Regs, now, rendering, cpuIrq)

IInv == TypeOK /\ Sound(Regs, now) /\ SavedInv /\ IdleInv /\ ToldInv

\* what every step inside a frame leaves true of the registers and the IRQ time
RegsInv == Sound(Regs, now) /\ Told(Regs, now, rendering, cpuIrq) /\ cpuIrq \in Nat

\* the facts of TypeOK the steps use
LEMMA Types ==
    ASSUME TypeOK
    PROVE  /\ now \in Nat /\ now <= FrameLen + Overshoot
           /\ Regs \in Machines
           /\ enabled \in BOOLEAN /\ flag \in BOOLEAN /\ rendering \in BOOLEAN
           /\ running \in BOOLEAN /\ cpuIrq \in Nat
<1>1. nextTime \in {Dot(k) : k \in 0..(Lines + 1)}
  BY DEF TypeOK, Dot
<1>2. /\ ctr \in 0..255 /\ latch \in Latches
      /\ enabled \in BOOLEAN /\ flag \in BOOLEAN /\ rendering \in BOOLEAN
      /\ running \in BOOLEAN /\ cpuIrq \in Nat
  BY DEF TypeOK
<1>3. now \in Nat /\ now <= FrameLen + Overshoot
  BY ConstantTypes DEF TypeOK
<1>4. Regs \in Machines
  BY <1>1, <1>2 DEF Regs, Machines
<1> QED  BY <1>2, <1>3, <1>4

\* assigning the registers one by one assigns the record
LEMMA BecomeRegs ==
    ASSUME NEW m \in Machines, Become(m) PROVE Regs' = m
BY DEF Machines, Become, Regs

\* types again, once the registers are known to be a machine's
LEMMA TypesAgain ==
    ASSUME Regs' \in Machines, now' \in 0..(FrameLen + Overshoot),
           rendering' \in BOOLEAN, running' \in BOOLEAN, cpuIrq' \in Nat,
           saved' # << >> => saved' \in [now : 0..Overshoot, ctr : 0..255, latch : Latches,
               enabled : BOOLEAN, flag : BOOLEAN, rendering : BOOLEAN]
    PROVE  TypeOK'
<1>1. /\ Regs'.next = nextTime' /\ Regs'.ctr = ctr' /\ Regs'.latch = latch'
      /\ Regs'.enabled = enabled' /\ Regs'.flag = flag'
  BY DEF Regs
<1>2. /\ nextTime' \in {Dot(k) : k \in 0..(Lines + 1)}
      /\ ctr' \in 0..255 /\ latch' \in Latches
      /\ enabled' \in BOOLEAN /\ flag' \in BOOLEAN
  BY <1>1 DEF Machines
<1>3. nextTime' \in {FirstLine + k * LineLen : k \in 0..(Lines + 1)}
  BY <1>2 DEF Dot
<1> QED  BY <1>2, <1>3 DEF TypeOK

\* asking for the IRQ time
LEMMA IrqChangedStep ==
    ASSUME TypeOK, NEW m, Sound(m, now), NEW on \in BOOLEAN, IrqChanged(m, on),
           now' = now, rendering' = on
    PROVE  RegsInv' /\ Regs' = RunUntil(m, now, on)
<1> DEFINE r == RunUntil(m, now, on)
<1>1. Sound(r, now) /\ r \in Machines /\ Told(r, now, on, NextIrq(r, on))
  BY Types, RunSound, TellSound
<1>2. Become(r) /\ cpuIrq' = NextIrq(r, on)
  BY DEF IrqChanged
<1> HIDE DEF r
<1>3. Regs' = r /\ cpuIrq' \in Nat
  BY <1>1, <1>2, BecomeRegs, NextIrqType
<1> QED  BY <1>1, <1>2, <1>3 DEF RegsInv, r

\* write_irq and a12_clocked
LEMMA NotifyStep ==
    ASSUME TypeOK, NEW m, Sound(m, now), Notify(m), now' = now, rendering' = rendering
    PROVE  /\ RegsInv'
           /\ RunUntil(Regs', now', rendering') = RunUntil(m, now, rendering)
<1>0. m \in Machines /\ (m.flag => m.enabled) /\ \E j : At(m, j, now)
  BY DEF Sound
<1>1. CASE m.enabled
  <2>1. IrqChanged(m, rendering)
    BY <1>1 DEF Notify
  <2>2. RegsInv' /\ Regs' = RunUntil(m, now, rendering)
    BY <2>1, Types, IrqChangedStep
  <2>3. RunUntil(RunUntil(m, now, rendering), now, rendering) = RunUntil(m, now, rendering)
    BY Types, RunSoundRun
  <2> QED  BY <2>2, <2>3
<1>2. CASE ~m.enabled
  <2>1. Become(m) /\ cpuIrq' = cpuIrq
    BY <1>2 DEF Notify
  <2>2. Regs' = m
    BY <2>1, <1>0, BecomeRegs
  <2>3. ASSUME NEW u \in now..(FrameLen + Overshoot)
        PROVE  ~ RunUntil(m, u, rendering).flag
    <3>1. u \in Nat /\ now <= u
      BY Types, ConstantTypes
    <3>2. PICK j : At(m, j, now)
      BY <1>0
    <3>3. At(m, j, u)
      BY <3>1, <3>2, Types, PassedMono, PassedType, ConstantTypes DEF At
    <3>4. /\ RunUntil(m, u, rendering).flag = Clocked(m, rendering)[Passed(u) - j].flag
          /\ Passed(u) - j \in 0..(Lines + 1)
      BY <3>1, <3>3, <1>0, Types, RunFields DEF Same
    <3>5. ~m.flag
      BY <1>0, <1>2
    <3> QED  BY <3>4, <3>5, <1>0, <1>2, Types, FlagNever
  <2>4. Told(m, now, rendering, cpuIrq)
    BY <2>3 DEF Told
  <2> QED  BY <2>1, <2>2, <2>4, Types DEF RegsInv
<1> QED  BY <1>1, <1>2

\* the mapper run to the present, as every register write begins
LEMMA SyncedSound ==
    ASSUME TypeOK, Sound(Regs, now)
    PROVE  /\ Sound(Synced, now) /\ At(Synced, Passed(now), now)
           /\ Synced \in Machines /\ (Synced.flag => Synced.enabled)
           /\ Synced.latch = latch /\ Synced.enabled = enabled
<1>1. Regs.latch = latch /\ Regs.enabled = enabled
  BY DEF Regs
<1> QED  BY <1>1, Types, RunSound DEF Synced

\* steps inside a frame
LEMMA FrameStep ==
    ASSUME IInv, InFrame, RegsInv', rendering' \in BOOLEAN
    PROVE  IInv'
<1>1. now' = now /\ running' = running /\ saved' = saved /\ running
  BY DEF InFrame
<1>2. Regs' \in Machines
  BY DEF RegsInv, Sound
<1>3. TypeOK'
  BY <1>1, <1>2, TypesAgain DEF IInv, TypeOK, RegsInv
<1>4. SavedInv'
  BY <1>1 DEF IInv, SavedInv
<1> QED  BY <1>1, <1>3, <1>4 DEF IInv, IdleInv, ToldInv, RegsInv

\* the edit of one register, and what the mapper is then
LEMMA EditStep ==
    ASSUME IInv, InFrame, UNCHANGED rendering, NEW m \in Machines, m.flag => m.enabled,
           m.next = Synced.next, Notify(m)
    PROVE  IInv' /\ Synced' = m
<1>1. At(m, Passed(now), now) /\ Sound(m, now)
  BY SyncedSound, Zenon DEF IInv, At, Sound
<1>2. now' = now /\ rendering' = rendering /\ now \in Nat /\ rendering \in BOOLEAN
  BY Types DEF IInv, InFrame
<1>3. RegsInv' /\ RunUntil(Regs', now', rendering') = RunUntil(m, now, rendering)
  BY <1>1, <1>2, NotifyStep DEF IInv
<1>4. RunUntil(m, now, rendering) = m
  BY <1>1, <1>2, RunNow
<1>5. Synced' = m
  BY <1>3, <1>4 DEF Synced
<1> QED  BY <1>2, <1>3, <1>5, FrameStep

\* the four register writes, field by field: $C000
LEMMA SetLatchFields ==
    ASSUME NEW m \in Machines, NEW d \in Latches
    PROVE  LET r == [m EXCEPT !.latch = d] IN
           /\ r \in Machines /\ r.next = m.next /\ r.flag = m.flag
           /\ r.enabled = m.enabled /\ r.ctr = m.ctr /\ r.latch = d
BY DEF Machines

\* $C001
LEMMA ReloadFields ==
    ASSUME NEW m \in Machines
    PROVE  LET r == [m EXCEPT !.ctr = 0] IN
           /\ r \in Machines /\ r.next = m.next /\ r.flag = m.flag
           /\ r.enabled = m.enabled /\ r.ctr = 0 /\ r.latch = m.latch
BY DEF Machines

\* $E000
LEMMA DisableFields ==
    ASSUME NEW m \in Machines
    PROVE  LET r == [m EXCEPT !.flag = FALSE, !.enabled = FALSE] IN
           /\ r \in Machines /\ r.next = m.next /\ r.flag = FALSE
           /\ r.enabled = FALSE /\ r.ctr = m.ctr /\ r.latch = m.latch
BY DEF Machines

\* $E001
LEMMA EnableFields ==
    ASSUME NEW m \in Machines
    PROVE  LET r == [m EXCEPT !.enabled = TRUE] IN
           /\ r \in Machines /\ r.next = m.next /\ r.flag = m.flag
           /\ r.enabled = TRUE /\ r.ctr = m.ctr /\ r.latch = m.latch
BY DEF Machines

-----------------------------------------------------------------------------
(* Each action keeps the invariant and is a step of ScanlineCounter, or a  *)
(* stutter of it.                                                          *)

Simulates == Scanline!Next \/ UNCHANGED Scanline!vars

\* the registers that are visible as variables too
LEMMA Visible ==
    ASSUME IInv
    PROVE  Synced.latch = latch /\ Synced.enabled = enabled
BY SyncedSound DEF IInv

\* and after a step
LEMMA VisibleNext ==
    ASSUME IInv'
    PROVE  Synced'.latch = latch' /\ Synced'.enabled = enabled'
<1>1. TypeOK' /\ Sound(Regs, now)'
  BY DEF IInv
<1>2. /\ Regs' \in Machines /\ now' \in Nat /\ rendering' \in BOOLEAN
      /\ Sound(Regs', now')
  BY <1>1, ConstantTypes DEF TypeOK, Sound
<1>3. Regs'.latch = latch' /\ Regs'.enabled = enabled'
  BY DEF Regs
<1>4. /\ RunUntil(Regs', now', rendering').latch = Regs'.latch
      /\ RunUntil(Regs', now', rendering').enabled = Regs'.enabled
  BY <1>2, RunSound
<1> QED  BY <1>3, <1>4 DEF Synced

\* a latch write is a latch write
LEMMA WriteC000Step == ASSUME IInv, WriteC000 PROVE IInv' /\ Simulates
<1>1. PICK data \in Latches : Notify([Synced EXCEPT !.latch = data])
  BY DEF WriteC000
<1> DEFINE m == [Synced EXCEPT !.latch = data]
<1>2. Synced \in Machines /\ (Synced.flag => Synced.enabled)
  BY SyncedSound DEF IInv
<1>3. /\ m \in Machines /\ m.next = Synced.next /\ m.flag = Synced.flag
      /\ m.enabled = Synced.enabled /\ m.ctr = Synced.ctr /\ m.latch = data
  BY <1>2, SetLatchFields
<1>4. Notify(m)
  BY <1>1
<1> HIDE DEF m
<1>5. IInv' /\ Synced' = m
  BY <1>2, <1>3, <1>4, EditStep DEF WriteC000
<1>6. Scanline!SetLatch /\ UNCHANGED saved
  BY <1>3, <1>5, Visible, VisibleNext DEF WriteC000, InFrame, Scanline!SetLatch
<1> QED  BY <1>5, <1>6 DEF Simulates, Scanline!Next

\* a reload is a reload
LEMMA WriteC001Step == ASSUME IInv, WriteC001 PROVE IInv' /\ Simulates
<1> DEFINE m == [Synced EXCEPT !.ctr = 0]
<1>2. Synced \in Machines /\ (Synced.flag => Synced.enabled)
  BY SyncedSound DEF IInv
<1>3. /\ m \in Machines /\ m.next = Synced.next /\ m.flag = Synced.flag
      /\ m.enabled = Synced.enabled /\ m.ctr = 0 /\ m.latch = Synced.latch
  BY <1>2, ReloadFields
<1>4. Notify(m)
  BY DEF WriteC001
<1> HIDE DEF m
<1>5. IInv' /\ Synced' = m
  BY <1>2, <1>3, <1>4, EditStep DEF WriteC001
<1>6. Scanline!Reload /\ UNCHANGED saved
  BY <1>3, <1>5, Visible, VisibleNext DEF WriteC001, InFrame, Scanline!Reload
<1> QED  BY <1>5, <1>6 DEF Simulates, Scanline!Next

\* disabling takes the flag down
LEMMA WriteE000Step == ASSUME IInv, WriteE000 PROVE IInv' /\ Simulates
<1> DEFINE m == [Synced EXCEPT !.flag = FALSE, !.enabled = FALSE]
<1>2. Synced \in Machines
  BY SyncedSound DEF IInv
<1>3. /\ m \in Machines /\ m.next = Synced.next /\ m.flag = FALSE
      /\ m.enabled = FALSE /\ m.ctr = Synced.ctr /\ m.latch = Synced.latch
  BY <1>2, DisableFields
<1>4. Notify(m)
  BY DEF WriteE000
<1> HIDE DEF m
<1>5. IInv' /\ Synced' = m
  BY <1>3, <1>4, EditStep DEF WriteE000
<1>6. Scanline!Disable /\ UNCHANGED saved
  BY <1>3, <1>5, Visible, VisibleNext DEF WriteE000, InFrame, Scanline!Disable
<1> QED  BY <1>5, <1>6 DEF Simulates, Scanline!Next

\* enabling leaves the flag alone
LEMMA WriteE001Step == ASSUME IInv, WriteE001 PROVE IInv' /\ Simulates
<1> DEFINE m == [Synced EXCEPT !.enabled = TRUE]
<1>2. Synced \in Machines
  BY SyncedSound DEF IInv
<1>3. /\ m \in Machines /\ m.next = Synced.next /\ m.flag = Synced.flag
      /\ m.enabled = TRUE /\ m.ctr = Synced.ctr /\ m.latch = Synced.latch
  BY <1>2, EnableFields
<1>4. Notify(m)
  BY DEF WriteE001
<1> HIDE DEF m
<1>5. IInv' /\ Synced' = m
  BY <1>3, <1>4, EditStep DEF WriteE001
<1>6. Scanline!Enable /\ UNCHANGED saved
  BY <1>3, <1>5, Visible, VisibleNext DEF WriteE001, InFrame, Scanline!Enable
<1> QED  BY <1>5, <1>6 DEF Simulates, Scanline!Next

\* an A12 edge clocks registers that may be behind: the lines they are behind
\* by give the same counter whether they come before or after the edge
LEMMA A12ClockedStep == ASSUME IInv, A12Clocked PROVE IInv' /\ Simulates
<1> DEFINE m == ClockCounter(Regs)  c == ClockCounter(Synced)
<1>1. /\ now' = now /\ rendering' = rendering /\ saved' = saved
      /\ now \in Nat /\ rendering \in BOOLEAN
  BY Types DEF IInv, A12Clocked, InFrame
<1>2. Regs \in Machines /\ Sound(Regs, now) /\ Sound(m, now)
  BY Types, ClockSound DEF IInv
<1>3. /\ RegsInv'
      /\ RunUntil(Regs', now', rendering') = RunUntil(m, now, rendering)
  BY <1>1, <1>2, NotifyStep DEF IInv, A12Clocked
<1>4. IInv'
  BY <1>1, <1>3, FrameStep DEF A12Clocked
<1>5. PICK j : At(Regs, j, now)
  BY <1>2 DEF Sound
<1> DEFINE n == Passed(now) - j
<1>6. /\ Synced \in Machines
      /\ Same(Synced, Clocked(Regs, rendering)[n]) /\ n \in 0..(Lines + 1)
  BY <1>1, <1>2, <1>5, RunFields DEF Synced
<1>7. m.next = Regs.next /\ m \in Machines
  BY <1>2, ClockCounterFields
<1>8. Same(RunUntil(m, now, rendering), Clocked(m, rendering)[n])
  <2>1. At(m, j, now)
    BY <1>5, <1>7 DEF At
  <2> HIDE DEF m
  <2> QED  BY <2>1, <1>1, <1>7, RunFields
<1>9. Same(Clocked(m, rendering)[n], ClockCounter(Clocked(Regs, rendering)[n]))
  BY <1>1, <1>2, <1>6, ClockFirst
<1>10. Same(ClockCounter(Clocked(Regs, rendering)[n]), c)
  <2>1. Clocked(Regs, rendering)[n] \in Machines
    BY <1>1, <1>2, <1>6, ClockedFields
  <2>2. Same(Clocked(Regs, rendering)[n], Synced)
    BY <1>6 DEF Same
  <2> QED  BY <2>1, <2>2, <1>6, SameClock
<1>11. Same(Synced', c)
  BY <1>3, <1>8, <1>9, <1>10 DEF Same, Synced
<1>12. /\ c.latch = Synced.latch /\ c.enabled = Synced.enabled
       /\ c.ctr = IF Synced.ctr = 0 THEN Synced.latch ELSE Synced.ctr - 1
       /\ c.flag = IF c.ctr = 0 THEN Synced.enabled ELSE Synced.flag
  BY <1>6, ClockCounterFields
<1> HIDE DEF c, m, n
<1>13. /\ Synced'.ctr = IF Synced.ctr = 0 THEN latch ELSE Synced.ctr - 1
       /\ Synced'.flag = IF Synced'.ctr = 0 THEN enabled ELSE Synced.flag
       /\ latch' = latch /\ enabled' = enabled
  BY <1>4, <1>11, <1>12, Visible, VisibleNext DEF Same
<1>14. Scanline!A12Rise
  BY <1>1, <1>13 DEF Scanline!A12Rise, Scanline!Clock
<1> QED  BY <1>1, <1>4, <1>14 DEF Simulates, Scanline!Next

\* the lines before the mask change run under the old mask
LEMMA WriteMaskStep == ASSUME IInv, WriteMask PROVE IInv' /\ Simulates
<1>1. /\ now' = now /\ rendering' = ~rendering /\ saved' = saved
      /\ now \in Nat /\ rendering' \in BOOLEAN /\ rendering \in BOOLEAN
  BY Types DEF IInv, WriteMask, InFrame
<1>2. Sound(Synced, now) /\ At(Synced, Passed(now), now) /\ Synced \in Machines
  BY SyncedSound DEF IInv
<1>3. RunUntil(Synced, now, rendering') = Synced
  BY <1>1, <1>2, RunNow
<1>4. IrqChanged(Synced, ~rendering)
  BY DEF WriteMask
<1>5. (~rendering) \in BOOLEAN /\ TypeOK
  BY DEF IInv
<1>6. RegsInv' /\ Regs' = RunUntil(Synced, now, ~rendering)
  BY <1>1, <1>2, <1>4, <1>5, IrqChangedStep
<1>7. Regs' = Synced
  BY <1>1, <1>3, <1>6
<1>8. IInv'
  BY <1>1, <1>6, FrameStep DEF WriteMask
<1>9. Synced' = Synced
  BY <1>1, <1>3, <1>7 DEF Synced
<1>10. Scanline!Toggle
  BY <1>1, <1>8, <1>9, Visible, VisibleNext DEF Scanline!Toggle
<1> QED  BY <1>1, <1>8, <1>10 DEF Simulates, Scanline!Next

\* asking for the IRQ time changes nothing a game sees
LEMMA PollStep == ASSUME IInv, Poll PROVE IInv' /\ Simulates
<1>1. /\ now' = now /\ rendering' = rendering /\ saved' = saved
      /\ now \in Nat /\ rendering \in BOOLEAN
  BY Types DEF IInv, Poll, InFrame
<1>2. Sound(Regs, now)
  BY DEF IInv
<1>3. RegsInv' /\ Regs' = RunUntil(Regs, now, rendering)
  BY <1>1, <1>2, IrqChangedStep DEF IInv, Poll
<1>4. IInv'
  BY <1>1, <1>3, FrameStep DEF Poll
<1>5. Synced' = Synced
  BY <1>1, <1>2, <1>3, RunSoundRun DEF Synced
<1>6. UNCHANGED Scanline!vars
  BY <1>1, <1>4, <1>5, Visible, VisibleNext DEF Scanline!vars, Scanline!counter
<1> QED  BY <1>4, <1>6 DEF Simulates

\* a cycle passes one line or none, and the registers it will have if asked
\* follow
LEMMA ExecuteStep == ASSUME IInv, Execute PROVE IInv' /\ Simulates
<1>1. /\ now' = now + 1 /\ now < FrameLen + Overshoot /\ running /\ running' = running
      /\ nextTime' = nextTime /\ ctr' = ctr /\ latch' = latch /\ enabled' = enabled
      /\ flag' = flag /\ rendering' = rendering /\ cpuIrq' = cpuIrq /\ saved' = saved
  BY DEF Execute, regs
<1>2. Regs' = Regs
  BY <1>1 DEF Regs
<1>3. /\ now \in Nat /\ now' \in Nat /\ now <= now' /\ rendering \in BOOLEAN
      /\ Sound(Regs, now) /\ Regs \in Machines
  BY <1>1, Types DEF IInv
<1>4. TypeOK'
  <2>1. now' \in 0..(FrameLen + Overshoot)
    BY <1>1, <1>3, ConstantTypes
  <2> QED  BY <1>1, <1>2, <1>3, <2>1, TypesAgain DEF IInv, TypeOK
<1>5. Sound(Regs, now')
  <2>1. PICK j : At(Regs, j, now)
    BY <1>3 DEF Sound
  <2>2. At(Regs, j, now')
    BY <2>1, <1>3, PassedMono, PassedType, ConstantTypes DEF At
  <2> QED  BY <2>2, <1>3, Zenon DEF Sound
<1>6. Told(Regs, now', rendering, cpuIrq)
  <2>1. Told(Regs, now, rendering, cpuIrq)
    BY <1>1 DEF IInv, ToldInv
  <2>2. \A u \in now'..(FrameLen + Overshoot) : u \in now..(FrameLen + Overshoot)
    BY <1>1, <1>3, ConstantTypes
  <2> QED  BY <2>1, <2>2 DEF Told
<1>7. IInv'
  <2>1. Sound(Regs, now)'
    BY <1>2, <1>5
  <2>2. SavedInv' /\ IdleInv'
    BY <1>1 DEF IInv, SavedInv, IdleInv
  <2>3. ToldInv'
    BY <1>1, <1>2, <1>6 DEF ToldInv
  <2> QED  BY <1>4, <2>1, <2>2, <2>3 DEF IInv
<1>8. Synced' = RunUntil(Synced, now', rendering)
  BY <1>1, <1>2, <1>3, RunSoundRun DEF Synced
<1>9. /\ Synced \in Machines /\ At(Synced, Passed(now), now) /\ Sound(Synced, now)
      /\ Synced.latch = latch /\ Synced.enabled = enabled
  BY SyncedSound DEF IInv
<1> DEFINE n == Passed(now') - Passed(now)
<1>10. n = IF now' \in LineTimes THEN 1 ELSE 0
  <2>1. Passed(now') = Passed(now) + (IF now' \in LineTimes THEN 1 ELSE 0)
    BY <1>1, <1>3, PassedStep
  <2> QED  BY <2>1, <1>3, PassedType
<1>11. Same(Synced', Clocked(Synced, rendering)[n])
  <2>1. At(Synced, Passed(now), now')
    BY <1>3, <1>9, PassedMono DEF At
  <2> QED  BY <2>1, <1>3, <1>8, <1>9, RunFields
<1>12. /\ Clocked(Synced, rendering)[0] = Synced
       /\ Clocked(Synced, rendering)[1] =
              IF rendering THEN ClockCounter(Synced) ELSE Synced
  <2>1. 0 \in Nat /\ 0 <= Lines /\ 0 + 1 = 1
    BY ConstantTypes
  <2> QED  BY <2>1, <1>3, ClockedSteps
<1>13. LET c == ClockCounter(Synced) IN
       /\ c.ctr = IF Synced.ctr = 0 THEN latch ELSE Synced.ctr - 1
       /\ c.flag = IF c.ctr = 0 THEN enabled ELSE Synced.flag
  BY <1>9, ClockCounterFields
<1> HIDE DEF n
<1>14. CASE now' \in LineTimes /\ rendering
  <2>1. Same(Synced', ClockCounter(Synced))
    BY <1>10, <1>11, <1>12, <1>14
  <2>2. Scanline!Clock
    BY <2>1, <1>13 DEF Same, Scanline!Clock
  <2>3. Scanline!Tick
    BY <2>2, <1>1, <1>14 DEF Scanline!Tick, LineTimes
  <2> QED  BY <1>1, <1>7, <2>3 DEF Simulates, Scanline!Next
<1>15. CASE ~ (now' \in LineTimes /\ rendering)
  <2>1. Same(Synced', Synced)
    BY <1>10, <1>11, <1>12, <1>15
  <2>2. Synced'.ctr = Synced.ctr /\ Synced'.flag = Synced.flag
    BY <2>1 DEF Same
  <2>3. Scanline!Tick
    BY <2>2, <1>1, <1>15 DEF Scanline!Tick, LineTimes
  <2> QED  BY <1>1, <1>7, <2>3 DEF Simulates, Scanline!Next
<1> QED  BY <1>14, <1>15

\* registers at the start of a frame: no scanline is behind
LEMMA FrameStart ==
    ASSUME NEW m \in Machines, m.flag => m.enabled, m.next = FirstLine,
           NEW t \in 0..Overshoot, NEW on \in BOOLEAN
    PROVE  t \in Nat /\ Sound(m, t) /\ RunUntil(m, t, on) = m
<1>1. t \in Nat /\ Passed(t) = 0
  BY PassedEarly, ConstantTypes
<1>2. At(m, Passed(t), t)
  BY <1>1, DotEnds, ConstantTypes DEF At
<1> QED  BY <1>1, <1>2, RunNow, Zenon DEF Sound

\* the lines of the frame are run before next_time goes back
LEMMA EndFrameStep == ASSUME IInv, EndFrame PROVE IInv' /\ Simulates
<1> DEFINE m == [Synced EXCEPT !.next = FirstLine]
<1>1. /\ now >= FrameLen /\ now' = now - FrameLen /\ running' = FALSE
      /\ rendering' = rendering /\ cpuIrq' = cpuIrq /\ saved' = saved
      /\ Become(m)
  BY DEF EndFrame, EndFrameRegs
<1>2. Synced \in Machines /\ (Synced.flag => Synced.enabled)
  BY SyncedSound DEF IInv
<1>3. /\ m \in Machines /\ m.next = FirstLine /\ m.ctr = Synced.ctr
      /\ m.latch = Synced.latch /\ m.enabled = Synced.enabled /\ m.flag = Synced.flag
  <2>1. FirstLine \in {Dot(j) : j \in 0..(Lines + 1)}
    BY DotEnds, ConstantTypes
  <2> QED  BY <1>2, <2>1 DEF Machines
<1> HIDE DEF m
<1>4. Regs' = m
  BY <1>1, <1>3, BecomeRegs
<1>5. now' \in 0..Overshoot /\ now \in FrameLen..(FrameLen + Overshoot)
  BY <1>1, Types, ConstantTypes DEF IInv
<1>6. rendering \in BOOLEAN /\ cpuIrq \in Nat
  BY Types DEF IInv
<1>7. Sound(m, now') /\ RunUntil(m, now', rendering) = m
  BY <1>2, <1>3, <1>5, <1>6, FrameStart
<1>8. TypeOK'
  <2>1. now' \in 0..(FrameLen + Overshoot)
    BY <1>5, ConstantTypes
  <2> QED  BY <2>1, <1>1, <1>3, <1>4, <1>6, TypesAgain DEF IInv, TypeOK
<1>9. IInv'
  <2>1. nextTime' = FirstLine
    BY <1>3, <1>4 DEF Regs
  <2>2. IdleInv' /\ SavedInv' /\ ToldInv'
    BY <1>1, <1>5, <2>1 DEF IInv, IdleInv, SavedInv, ToldInv
  <2> QED  BY <2>2, <1>4, <1>7, <1>8 DEF IInv
<1>10. Synced' = m
  BY <1>1, <1>4, <1>7 DEF Synced
<1>11. Scanline!NextFrame
  BY <1>1, <1>3, <1>5, <1>9, <1>10, Visible, VisibleNext DEF Scanline!NextFrame
<1> QED  BY <1>1, <1>9, <1>11 DEF Simulates, Scanline!Next

\* the loop's poll tells the CPU before it runs
LEMMA BeginFrameStep == ASSUME IInv, BeginFrame PROVE IInv' /\ Simulates
<1>1. /\ now' = now /\ rendering' = rendering /\ saved' = saved /\ running' = TRUE
      /\ now \in Nat /\ rendering \in BOOLEAN /\ IrqChanged(Regs, rendering)
  BY Types DEF IInv, BeginFrame
<1>2. Sound(Regs, now)
  BY DEF IInv
<1>3. RegsInv' /\ Regs' = RunUntil(Regs, now, rendering)
  BY <1>1, <1>2, IrqChangedStep DEF IInv
<1>4. Regs' \in Machines
  BY <1>3 DEF RegsInv, Sound
<1>5. TypeOK'
  BY <1>1, <1>3, <1>4, TypesAgain DEF IInv, TypeOK, RegsInv
<1>6. IInv'
  BY <1>1, <1>3, <1>5 DEF IInv, SavedInv, IdleInv, ToldInv, RegsInv
<1>7. Synced' = Synced
  BY <1>1, <1>2, <1>3, RunSoundRun DEF Synced
<1>8. UNCHANGED Scanline!vars
  BY <1>1, <1>6, <1>7, Visible, VisibleNext DEF Scanline!vars, Scanline!counter
<1> QED  BY <1>6, <1>8 DEF Simulates

\* between frames the registers are up to date
LEMMA IdleSynced == ASSUME IInv, ~running PROVE Synced = Regs /\ now \in 0..Overshoot
<1>1. now \in 0..Overshoot /\ Regs.next = FirstLine
  BY Types, ConstantTypes DEF IInv, IdleInv, Regs
<1>2. Regs \in Machines /\ (Regs.flag => Regs.enabled) /\ rendering \in BOOLEAN
  BY Types DEF IInv, Sound
<1> QED  BY <1>1, <1>2, FrameStart DEF Synced

\* a state taken between frames misses nothing but next_time
LEMMA SaveStateStep == ASSUME IInv, SaveState PROVE IInv' /\ Simulates
<1>1. /\ ~running /\ saved' = Saved /\ now' = now /\ rendering' = rendering
      /\ cpuIrq' = cpuIrq /\ running' = running
      /\ nextTime' = nextTime /\ ctr' = ctr /\ latch' = latch /\ enabled' = enabled
      /\ flag' = flag
  BY DEF SaveState, regs
<1>2. Regs' = Regs
  BY <1>1 DEF Regs
<1>3. Synced = Regs /\ now \in 0..Overshoot
  BY <1>1, IdleSynced
<1>4. saved' = [now |-> now, ctr |-> Synced.ctr, latch |-> latch, enabled |-> enabled,
                flag |-> Synced.flag, rendering |-> rendering]
  BY <1>1, <1>3 DEF Saved, Regs
<1>5. saved' \in [now : 0..Overshoot, ctr : 0..255, latch : Latches,
                  enabled : BOOLEAN, flag : BOOLEAN, rendering : BOOLEAN]
  BY <1>1, <1>3 DEF Saved, IInv, TypeOK
<1>6. TypeOK'
  BY <1>1, <1>5 DEF IInv, TypeOK
<1>7. SavedInv'
  <2>1. flag => enabled
    BY DEF IInv, Sound, Regs
  <2> QED  BY <2>1, <1>1 DEF SavedInv, Saved
<1>8. IInv'
  BY <1>1, <1>2, <1>6, <1>7 DEF IInv, IdleInv, ToldInv
<1>9. Synced' = Synced
  BY <1>1, <1>2 DEF Synced
<1>10. Scanline!Save
  BY <1>1, <1>4, <1>9 DEF Scanline!Save, Scanline!counter
<1> QED  BY <1>8, <1>10 DEF Simulates, Scanline!Next

\* apply_mapping on registers restored or cleared
LEMMA RestoreStep ==
    ASSUME IInv, NEW s, Restore(s), s.flag => s.enabled,
           s.now \in 0..Overshoot, s.ctr \in 0..255, s.latch \in Latches,
           s.enabled \in BOOLEAN, s.flag \in BOOLEAN, s.rendering \in BOOLEAN
    PROVE  /\ IInv'
           /\ now' = s.now /\ Synced'.ctr = s.ctr /\ latch' = s.latch
           /\ enabled' = s.enabled /\ Synced'.flag = s.flag /\ rendering' = s.rendering
           /\ saved' = saved
<1>1. /\ ~running /\ now' = s.now /\ rendering' = s.rendering
      /\ nextTime' = FirstLine /\ ctr' = s.ctr /\ latch' = s.latch
      /\ enabled' = s.enabled /\ flag' = s.flag
      /\ cpuIrq' = cpuIrq /\ running' = running /\ saved' = saved
  BY DEF Restore, Become
<1>2. /\ Regs' \in Machines /\ Regs'.next = FirstLine /\ Regs'.ctr = s.ctr
      /\ Regs'.flag = s.flag /\ Regs'.enabled = s.enabled
  <2>1. FirstLine \in {Dot(j) : j \in 0..(Lines + 1)}
    BY DotEnds, ConstantTypes
  <2> QED  BY <1>1, <2>1 DEF Regs, Machines
<1>3. Sound(Regs', now') /\ RunUntil(Regs', now', rendering') = Regs'
  BY <1>1, <1>2, FrameStart
<1>4. TypeOK'
  <2>1. now' \in 0..(FrameLen + Overshoot)
    BY <1>1, ConstantTypes
  <2>2. /\ rendering' \in BOOLEAN /\ running' \in BOOLEAN /\ cpuIrq' \in Nat
        /\ saved' # << >> => saved' \in [now : 0..Overshoot, ctr : 0..255, latch : Latches,
               enabled : BOOLEAN, flag : BOOLEAN, rendering : BOOLEAN]
    BY <1>1 DEF IInv, TypeOK
  <2> QED  BY <2>1, <2>2, <1>2, TypesAgain
<1>5. SavedInv' /\ ToldInv' /\ IdleInv'
  BY <1>1, ConstantTypes DEF IInv, SavedInv, ToldInv, IdleInv
<1>6. IInv'
  BY <1>3, <1>4, <1>5 DEF IInv
<1>7. Synced' = Regs'
  BY <1>3 DEF Synced
<1> QED  BY <1>1, <1>2, <1>6, <1>7

\* and next_time between frames is the first line
LEMMA LoadStateStep == ASSUME IInv, LoadState PROVE IInv' /\ Simulates
<1>1. saved # << >> /\ Restore(saved)
  BY DEF LoadState
<1>2. /\ saved.now \in 0..Overshoot /\ saved.ctr \in 0..255 /\ saved.latch \in Latches
      /\ saved.enabled \in BOOLEAN /\ saved.flag \in BOOLEAN /\ saved.rendering \in BOOLEAN
      /\ saved.flag => saved.enabled
  BY <1>1 DEF IInv, TypeOK, SavedInv
<1>3. /\ IInv'
      /\ now' = saved.now /\ Synced'.ctr = saved.ctr /\ latch' = saved.latch
      /\ enabled' = saved.enabled /\ Synced'.flag = saved.flag
      /\ rendering' = saved.rendering /\ saved' = saved
  BY <1>1, <1>2, RestoreStep
<1>4. Scanline!Load
  BY <1>1, <1>3 DEF Scanline!Load
<1> QED  BY <1>3, <1>4 DEF Simulates, Scanline!Next

\* a reset clears the registers
LEMMA ResetStep == ASSUME IInv, Reset PROVE IInv' /\ Simulates
<1>1. Restore(Clear)
  BY DEF Reset
<1>2. /\ Clear.now = 0 /\ Clear.ctr = 0 /\ Clear.latch = 0 /\ Clear.enabled = FALSE
      /\ Clear.flag = FALSE /\ Clear.rendering = FALSE
  BY DEF Clear
<1>3. 0 \in 0..Overshoot /\ 0 \in 0..255 /\ 0 \in Latches
  BY ConstantTypes, LatchAssumption
<1>4. /\ IInv'
      /\ now' = 0 /\ Synced'.ctr = 0 /\ latch' = 0
      /\ enabled' = FALSE /\ Synced'.flag = FALSE
      /\ rendering' = FALSE /\ saved' = saved
  BY <1>1, <1>2, <1>3, RestoreStep
<1>5. Scanline!Reset
  BY <1>4 DEF Scanline!Reset
<1> QED  BY <1>4, <1>5 DEF Simulates, Scanline!Next

\* the machine at power-on
LEMMA InitStep == ASSUME Init PROVE IInv /\ Scanline!Init
<1>1. /\ now = 0 /\ nextTime = FirstLine /\ ctr = 0 /\ latch = 0 /\ enabled = FALSE
      /\ flag = FALSE /\ rendering = FALSE /\ cpuIrq = NoIrq /\ running = FALSE
      /\ saved = << >>
  BY DEF Init
<1>2. 0 \in 0..Overshoot /\ 0 \in 0..255 /\ 0 \in Latches /\ now \in 0..(FrameLen + Overshoot)
  BY <1>1, ConstantTypes, LatchAssumption
<1>3. FirstLine \in {Dot(j) : j \in 0..(Lines + 1)}
  BY DotEnds, ConstantTypes
<1>4. /\ Regs \in Machines /\ Regs.next = FirstLine /\ Regs.ctr = 0
      /\ Regs.flag = FALSE /\ Regs.enabled = FALSE
  BY <1>1, <1>2, <1>3 DEF Regs, Machines
<1>5. Sound(Regs, now) /\ RunUntil(Regs, now, rendering) = Regs
  BY <1>1, <1>2, <1>4, FrameStart
<1>6. TypeOK
  <2>1. nextTime \in {FirstLine + k * LineLen : k \in 0..(Lines + 1)}
    BY <1>1, <1>3 DEF Dot
  <2> QED  BY <2>1, <1>1, <1>2, NoIrqLate DEF TypeOK
<1>7. IInv
  BY <1>1, <1>5, <1>6, ConstantTypes DEF IInv, SavedInv, IdleInv, ToldInv
<1>8. Scanline!Init
  BY <1>1, <1>2, <1>4, <1>5 DEF Scanline!Init, Synced
<1> QED  BY <1>7, <1>8

\* a stuttering step
LEMMA StutterStep == ASSUME IInv, UNCHANGED vars PROVE IInv' /\ Simulates
<1>1. /\ now' = now /\ nextTime' = nextTime /\ ctr' = ctr /\ latch' = latch
      /\ enabled' = enabled /\ flag' = flag /\ rendering' = rendering
      /\ cpuIrq' = cpuIrq /\ running' = running /\ saved' = saved
  BY DEF vars
<1>2. Regs' = Regs
  BY <1>1 DEF Regs
<1>3. Synced' = Synced
  BY <1>1, <1>2 DEF Synced
<1>4. IInv'
  BY <1>1, <1>2 DEF IInv, TypeOK, SavedInv, IdleInv, ToldInv
<1>5. UNCHANGED Scanline!vars
  BY <1>1, <1>3 DEF Scanline!vars, Scanline!counter
<1> QED  BY <1>4, <1>5 DEF Simulates

\* every step
LEMMA NextStep == ASSUME IInv, [Next]_vars PROVE IInv' /\ Simulates
BY WriteC000Step, WriteC001Step, WriteE000Step, WriteE001Step, A12ClockedStep,
   WriteMaskStep, ExecuteStep, PollStep, EndFrameStep, BeginFrameStep,
   SaveStateStep, LoadStateStep, ResetStep, StutterStep DEF Next

-----------------------------------------------------------------------------
\* The inductive invariant holds in every reachable state.
THEOREM InvHolds == Spec => []IInv
<1>1. Init => IInv
  BY InitStep
<1>2. IInv /\ [Next]_vars => IInv'
  BY NextStep
<1> QED  BY <1>1, <1>2, PTL DEF Spec

\* Every register keeps its type: the counter and the latch a byte,
\* next_time the dot of a line of this frame, the IRQ time a number.
THEOREM TypeCorrect == Spec => []TypeOK
<1>1. IInv => TypeOK
  BY DEF IInv
<1> QED  BY <1>1, InvHolds, PTL

\* next_irq's closed formula names exactly the first cycle at which clocking
\* line by line would find the flag up, in every reachable state.
THEOREM PredictionRight == Spec => []PredictionExact
<1>1. ASSUME IInv PROVE PredictionExact
  <2>1. /\ Synced \in Machines /\ (Synced.flag => Synced.enabled)
        /\ At(Synced, Passed(now), now) /\ now \in Nat /\ rendering \in BOOLEAN
    BY <1>1, SyncedSound, Types DEF IInv
  <2>2. ASSUME NEW t \in now..(FrameLen + Overshoot)
        PROVE  RunUntil(Synced, t, rendering).flag <=> NextIrq(Synced, rendering) <= t
    <3>1. t \in Nat /\ now <= t /\ t <= FrameLen + Overshoot
      BY <2>1, ConstantTypes
    <3> QED  BY <2>1, <3>1, Prediction
  <2> QED  BY <2>2 DEF PredictionExact
<1> QED  BY <1>1, InvHolds, PTL

\* The CPU is never told an IRQ time later than the true one, whatever the
\* game writes between two polls.
THEOREM ToldInTime == Spec => []CpuToldInTime
<1>1. ASSUME IInv PROVE CpuToldInTime
  <2> SUFFICES ASSUME running, NEW t \in now..(FrameLen + Overshoot),
                      NextIrq(Synced, rendering) <= t
               PROVE  cpuIrq <= t
    BY DEF CpuToldInTime
  <2>1. /\ Synced \in Machines /\ (Synced.flag => Synced.enabled)
        /\ At(Synced, Passed(now), now) /\ now \in Nat /\ rendering \in BOOLEAN
        /\ Sound(Regs, now)
    BY <1>1, SyncedSound, Types DEF IInv
  <2>2. t \in Nat /\ now <= t /\ t <= FrameLen + Overshoot
    BY <2>1, ConstantTypes
  <2>3. RunUntil(Synced, t, rendering).flag
    BY <2>1, <2>2, Prediction
  <2>4. RunUntil(Synced, t, rendering) = RunUntil(Regs, t, rendering)
    BY <2>1, <2>2, RunSoundRun DEF Synced
  <2>5. Told(Regs, now, rendering, cpuIrq)
    BY <1>1 DEF IInv, ToldInv
  <2> QED  BY <2>3, <2>4, <2>5 DEF Told
<1> QED  BY <1>1, InvHolds, PTL

\* The batched counter implements the counter clocked line by line: no
\* write, A12 edge, mask change, frame end, save or load can tell them apart.
THEOREM LazyCounter == Spec => LazyIsScanline
<1>1. Init => Scanline!Init
  BY InitStep
<1>2. IInv /\ [Next]_vars => [Scanline!Next]_(Scanline!vars)
  BY NextStep DEF Simulates
<1> QED  BY <1>1, <1>2, InvHolds, PTL DEF Spec, LazyIsScanline, Scanline!Spec
=============================================================================
