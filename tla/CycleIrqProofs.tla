--------------------------- MODULE CycleIrqProofs ---------------------------
(***************************************************************************)
(* The timers of CycleIrq are right, for every size of a counter, length   *)
(* of a frame and set of delays the assumption allows.                     *)
(*                                                                         *)
(* The heart is one relation: a timer m, run for the last time some cycles *)
(* ago, Follows the timer c that counted every cycle until t when running  *)
(* m to t would give c, and c has raised an IRQ the game must see only if  *)
(* m has one pending or its expiry has come.  One more cycle keeps it      *)
(* (FollowsCycle, for each chip), so any number does (FollowsCycles), so   *)
(* every action does.                                                      *)
(***************************************************************************)
EXTENDS MCCycleIrq, WellFoundedInduction, TLAPS

-----------------------------------------------------------------------------
(* Induction on the naturals, for the set of those with a property         *)

\* A set of naturals has a least element.
LEMMA Least ==
    ASSUME NEW T, T \subseteq Nat, T # {}
    PROVE  \E x \in T : \A y \in T : x <= y
<1>1. \E R : IsWellFoundedOn(R, Nat) /\ \A x, y \in Nat : <<x, y>> \in R <=> x < y
  <2>1. IsWellFoundedOn(OpToRel(<, Nat), Nat)
    BY NatLessThanWellFounded
  <2>2. \A x, y \in Nat : <<x, y>> \in OpToRel(<, Nat) <=> x < y
    BY DEF OpToRel
  <2> QED  BY <2>1, <2>2, Zenon
<1>2. PICK R : IsWellFoundedOn(R, Nat) /\ \A x, y \in Nat : <<x, y>> \in R <=> x < y
  BY <1>1
<1>3. PICK x \in T : \A y \in T : ~ (<<y, x>> \in R)
  <2>1. IsWellFoundedOn(R, Nat)
    BY <1>2
  <2> QED  BY <2>1, WFMin, Zenon
<1>4. \A y \in T : ~ (y < x)
  BY <1>2, <1>3
<1> QED  BY <1>4

\* Mathematical induction.
LEMMA Induction ==
    ASSUME NEW S, 0 \in S, \A n \in Nat : n \in S => n + 1 \in S
    PROVE  Nat \subseteq S
<1> SUFFICES ASSUME Nat \ S # {} PROVE FALSE  OBVIOUS
<1>1. PICK x \in Nat \ S : \A y \in Nat \ S : x <= y
  BY Least
<1>2. x # 0 /\ x - 1 \in Nat
  OBVIOUS
<1>3. x - 1 \in S
  BY <1>1, <1>2
<1> QED  BY <1>1, <1>2, <1>3

-----------------------------------------------------------------------------

\* What the assumption says of the constants, in the form the provers use.
LEMMA ConstantTypes ==
    /\ LowSize \in Nat /\ LowSize > 1 /\ Word \in Nat /\ Word >= LowSize + LowSize
    /\ FrameLen \in Nat /\ Overshoot \in Nat /\ Vector \in Nat /\ Vector >= 1
    /\ Chips \subseteq {"FME7", "Namco", "VRC6"}
    /\ \A b \in Bytes : b \in 0..(LowSize - 1)
    /\ \A d \in Delays : d \in Nat /\ d > 0 /\ FrameLen + Overshoot + d < Word
<1>1. LowSize \in Nat /\ LowSize > 1
  BY TimerAssumption
<1>2. LowSize * LowSize >= LowSize + LowSize
  BY <1>1
<1>3. Word \in Nat /\ Word >= LowSize + LowSize
  BY <1>1, <1>2 DEF Word
<1>4. FrameLen \in Nat /\ Overshoot \in Nat
  BY TimerAssumption
<1>5. Vector \in Nat /\ Vector >= 1
  BY <1>4, TimerAssumption
<1> QED  BY <1>1, <1>3, <1>4, <1>5, TimerAssumption

\* Multiplication is monotone.
LEMMA TimesMono == \A a, b, c \in Nat : a <= b => a * c <= b * c
OBVIOUS

\* Bit 15 of a counter.
LEMMA HalfWord == Word \div 2 \in Nat /\ 0 < Word \div 2 /\ Word \div 2 < Word
BY ConstantTypes

\* A counter with one byte written is a counter still.
LEMMA ByteWritten ==
    ASSUME NEW count \in 0..(Word - 1), NEW high \in BOOLEAN, NEW b \in Bytes
    PROVE  WithByte(count, high, b) \in 0..(Word - 1)
<1> DEFINE q == count \div LowSize  r == count % LowSize
<1>1. /\ q \in Nat /\ r \in 0..(LowSize - 1) /\ count = q * LowSize + r
  BY ConstantTypes
<1> HIDE DEF q, r
<1>2. q <= LowSize - 1
  <2> SUFFICES ASSUME LowSize <= q PROVE FALSE
    BY <1>1, ConstantTypes
  <2>1. LowSize * LowSize <= q * LowSize
    BY <1>1, TimesMono, ConstantTypes
  <2>2. q * LowSize \in Nat
    BY <1>1, ConstantTypes
  <2> QED  BY <2>1, <2>2, <1>1, ConstantTypes DEF Word
<1>3. \A x \in 0..(LowSize - 1), y \in 0..(LowSize - 1) : x * LowSize + y \in 0..(Word - 1)
  <2> SUFFICES ASSUME NEW x \in 0..(LowSize - 1), NEW y \in 0..(LowSize - 1)
               PROVE  x * LowSize + y \in 0..(Word - 1)
    OBVIOUS
  <2>1. (x + 1) * LowSize <= LowSize * LowSize
    BY TimesMono, ConstantTypes
  <2>2. (x + 1) * LowSize = x * LowSize + LowSize /\ x * LowSize \in Nat
    BY ConstantTypes
  <2> QED  BY <2>1, <2>2, ConstantTypes DEF Word
<1>4. b \in 0..(LowSize - 1)
  BY ConstantTypes
<1>5. b * LowSize + r \in 0..(Word - 1)
  BY <1>1, <1>3, <1>4
<1>6. q * LowSize + b \in 0..(Word - 1)
  BY <1>1, <1>2, <1>3, <1>4, ConstantTypes
<1>7. count - r + b = q * LowSize + b
  <2>1. q * LowSize \in Nat
    BY <1>1, ConstantTypes
  <2> QED  BY <1>1, <1>4, <2>1, ConstantTypes
<1> QED  BY <1>5, <1>6, <1>7 DEF WithByte, r

\* What x & 0xFFFF does to a number that is at most one turn below zero.
LEMMA Remainder ==
    \A x \in Int : /\ x % Word \in 0..(Word - 1)
                   /\ x \in 0..(Word - 1) => x % Word = x
                   /\ x \in (-Word)..(-1) => x % Word = x + Word
BY ConstantTypes

\* The first multiple of r that is not below a: run_until of VRC6.
LEMMA RoundUp ==
    ASSUME NEW a \in Nat, NEW r \in Nat, r > 0
    PROVE  LET q == (a + r - 1) \div r
           IN  q \in Nat /\ a <= q * r /\ q * r < a + r
OBVIOUS

\* Two multiples of r in one window of r are one.
LEMMA SameTurn ==
    ASSUME NEW p \in Nat, NEW q \in Nat, NEW r \in Nat, r > 0, NEW lo \in Int, NEW x \in Int,
           lo <= x + p * r, x + p * r < lo + r, lo <= x + q * r, x + q * r < lo + r
    PROVE  p = q
<1>0. p * r \in Nat /\ q * r \in Nat /\ (p + 1) * r = p * r + r /\ (q + 1) * r = q * r + r
  OBVIOUS
<1>1. ASSUME p < q PROVE FALSE
  <2>1. (p + 1) * r <= q * r
    BY <1>1, TimesMono
  <2> QED  BY <2>1, <1>0
<1>2. ASSUME q < p PROVE FALSE
  <2>1. (q + 1) * r <= p * r
    BY <1>2, TimesMono
  <2> QED  BY <2>1, <1>0
<1> QED  BY <1>1, <1>2

-----------------------------------------------------------------------------
(* The timers, and those that count every cycle.                           *)

Clock == 0..(FrameLen + Overshoot)

Timers == [count : 0..(Word - 1), last : Clock, on : BOOLEAN, irq : BOOLEAN,
           reload : Delays, pending : BOOLEAN]

Lives == [count : 0..(Word - 1), on : BOOLEAN, irq : BOOLEAN,
          reload : Delays, must : BOOLEAN, may : BOOLEAN]

\* The types of a timer's registers.
LEMMA TimerFields ==
    ASSUME NEW m \in Timers
    PROVE  /\ m.count \in 0..(Word - 1) /\ m.count \in Nat
           /\ m.last \in Clock /\ m.last \in Nat
           /\ m.on \in BOOLEAN /\ m.irq \in BOOLEAN
           /\ m.reload \in Delays /\ m.reload \in Nat /\ m.reload > 0
           /\ FrameLen + Overshoot + m.reload < Word
           /\ m.pending \in BOOLEAN
<1>1. /\ m.count \in 0..(Word - 1) /\ m.last \in Clock
      /\ m.on \in BOOLEAN /\ m.irq \in BOOLEAN
      /\ m.reload \in Delays /\ m.pending \in BOOLEAN
  BY DEF Timers
<1> QED  BY <1>1, ConstantTypes DEF Clock

\* run_until of Mapper_Fme7, register by register.
LEMMA Fme7Fields ==
    ASSUME NEW m \in Timers, NEW t \in Clock
    PROVE  LET r == RunFme7(m, t)  count == m.count - (t - m.last) IN
           /\ r \in Timers /\ r.last = t
           /\ r.on = m.on /\ r.irq = m.irq /\ r.reload = m.reload
           /\ r.count = IF m.on THEN count % Word ELSE m.count
           /\ r.pending = (m.pending \/ (m.on /\ m.irq /\ count <= 0))
<1> DEFINE count == m.count - (t - m.last)
           p == m.pending \/ (m.on /\ m.irq /\ count <= 0)
           c == IF m.on THEN count % Word ELSE m.count
<1>1. count \in Int /\ t \in Int
  BY TimerFields, ConstantTypes DEF Clock
<1>2. c \in 0..(Word - 1) /\ p \in BOOLEAN
  BY <1>1, TimerFields, Remainder
<1>3. RunFme7(m, t) = [m EXCEPT !.last = t, !.pending = p, !.count = c]
  BY DEF RunFme7
<1> HIDE DEF p, c
<1>4. LET r == RunFme7(m, t) IN
      /\ r \in Timers /\ r.last = t
      /\ r.on = m.on /\ r.irq = m.irq /\ r.reload = m.reload
      /\ r.count = c /\ r.pending = p
  BY <1>2, <1>3 DEF Timers
<1> QED  BY <1>4 DEF p, c

Top(m) == IF m.count >= Word \div 2 THEN Word - 1 ELSE (Word \div 2) - 1

\* run_until of Mapper_Namco106, register by register.
LEMMA NamcoFields ==
    ASSUME NEW m \in Timers, NEW t \in Clock, m.last <= t
    PROVE  LET r == RunNamco(m, t)  count == m.count + (t - m.last) IN
           /\ r \in Timers /\ r.last = t
           /\ r.on = m.on /\ r.irq = m.irq /\ r.reload = m.reload
           /\ r.count = IF count > Top(m) THEN Top(m) ELSE count
           /\ r.pending = (m.pending \/ (m.count >= Word \div 2 /\ count > Top(m)))
<1> DEFINE count == m.count + (t - m.last)
           p == m.pending \/ (m.count >= Word \div 2 /\ count > Top(m))
           c == IF count > Top(m) THEN Top(m) ELSE count
<1>1. count \in Nat /\ Top(m) \in 0..(Word - 1)
  BY TimerFields, ConstantTypes, HalfWord DEF Clock, Top
<1>2. c \in 0..(Word - 1) /\ p \in BOOLEAN
  <2> HIDE DEF count
  <2> QED  BY <1>1, TimerFields, ConstantTypes
<1>3. RunNamco(m, t) = [m EXCEPT !.last = t, !.count = c, !.pending = p]
  BY DEF RunNamco, Top
<1> HIDE DEF p, c
<1>4. LET r == RunNamco(m, t) IN
      /\ r \in Timers /\ r.last = t
      /\ r.on = m.on /\ r.irq = m.irq /\ r.reload = m.reload
      /\ r.count = c /\ r.pending = p
  BY <1>2, <1>3 DEF Timers
<1> QED  BY <1>4 DEF p, c

\* run_until of Mapper_Vrc6, register by register.
LEMMA Vrc6Fields ==
    ASSUME NEW m \in Timers, NEW t \in Clock
    PROVE  LET r == RunVrc6(m, t) IN
           /\ r \in Timers /\ r.last = m.last
           /\ r.on = m.on /\ r.irq = m.irq /\ r.reload = m.reload
           /\ ~m.on \/ m.count >= t => r = m
           /\ m.on /\ m.count < t =>
                 /\ r.pending
                 /\ t <= r.count /\ r.count < t + m.reload
                 /\ \E n \in Nat : r.count = m.count + n * m.reload
<1> DEFINE r == RunVrc6(m, t)
<1>1. CASE ~m.on \/ m.count >= t
  <2>1. r = m
    BY <1>1 DEF RunVrc6
  <2>2. ~ (m.on /\ m.count < t)
    BY <1>1, TimerFields DEF Clock
  <2> HIDE DEF r
  <2>3. r \in Timers /\ r.last = m.last /\ r.on = m.on /\ r.irq = m.irq /\ r.reload = m.reload
    BY <2>1
  <2> QED  BY <2>1, <2>2, <2>3 DEF r
<1>2. CASE ~ (~m.on \/ m.count >= t)
  <2> DEFINE times == (t - m.count + m.reload - 1) \div m.reload
             c == (m.count + times * m.reload) % Word
  <2>1. m.on /\ m.count < t /\ t - m.count \in Nat /\ t \in Nat /\ t <= FrameLen + Overshoot
    BY <1>2, TimerFields, ConstantTypes DEF Clock
  <2>2. times \in Nat /\ t - m.count <= times * m.reload
        /\ times * m.reload < (t - m.count) + m.reload
    BY <2>1, TimerFields, RoundUp
  <2>3. r = [m EXCEPT !.pending = TRUE, !.count = c]
    BY <1>2 DEF RunVrc6
  <2> HIDE DEF times
  <2>4. times * m.reload \in Nat
    BY <2>2, TimerFields
  <2>5. /\ m.count + times * m.reload \in 0..(Word - 1)
        /\ t <= m.count + times * m.reload /\ m.count + times * m.reload < t + m.reload
    <3> DEFINE y == times * m.reload
    <3> HIDE DEF y
    <3>1. y \in Nat /\ t - m.count <= y /\ y < (t - m.count) + m.reload
      BY <2>2, <2>4 DEF y
    <3>2. m.count + y \in 0..(Word - 1) /\ t <= m.count + y /\ m.count + y < t + m.reload
      BY <3>1, <2>1, TimerFields, ConstantTypes
    <3> QED  BY <3>2 DEF y
  <2>6. c = m.count + times * m.reload
    <3>1. m.count + times * m.reload \in Int
      BY <2>5
    <3> QED  BY <3>1, <2>5, Remainder
  <2>7. c \in 0..(Word - 1)
    BY <2>5, <2>6
  <2> HIDE DEF c, r
  <2>8. /\ r \in Timers /\ r.last = m.last /\ r.on = m.on /\ r.irq = m.irq
        /\ r.reload = m.reload /\ r.pending = TRUE /\ r.count = c
    BY <2>3, <2>7 DEF Timers
  <2> QED  BY <1>2, <2>1, <2>2, <2>5, <2>6, <2>8 DEF r
<1> QED  BY <1>1, <1>2

-----------------------------------------------------------------------------
(* A timer touched for the last time some cycles ago follows one that      *)
(* counts every cycle.                                                     *)

\* next_irq, were no IRQ pending
Expiry(m) ==
    CASE chip = "FME7"  /\ m.on /\ m.irq -> m.last + m.count + 1
      [] chip = "Namco" /\ m.count >= Word \div 2 -> Word - m.count + m.last
      [] chip = "VRC6"  /\ m.on -> m.count + 1
      [] OTHER -> NoIrq

Alike(m, c) == c.on = m.on /\ c.irq = m.irq /\ c.reload = m.reload

\* the IRQ the game must see was pending, or its time has come
Late(m, c, t) == c.must => m.pending \/ Expiry(m) <= t

Follows(m, c, t) == Agree(RunUntil(m, t), c, t) /\ Late(m, c, t)

\* The types of the timer that counts every cycle.
LEMMA LiveFields ==
    ASSUME NEW c \in Lives
    PROVE  /\ c.count \in 0..(Word - 1) /\ c.count \in Nat
           /\ c.on \in BOOLEAN /\ c.irq \in BOOLEAN
           /\ c.reload \in Delays /\ c.reload \in Nat /\ c.reload > 0
           /\ FrameLen + Overshoot + c.reload < Word
           /\ c.must \in BOOLEAN /\ c.may \in BOOLEAN
<1>1. /\ c.count \in 0..(Word - 1) /\ c.on \in BOOLEAN /\ c.irq \in BOOLEAN
      /\ c.reload \in Delays /\ c.must \in BOOLEAN /\ c.may \in BOOLEAN
  BY DEF Lives
<1> QED  BY <1>1, ConstantTypes

\* An IRQ raised, or not, field by field.
LEMMA RaiseFields ==
    ASSUME NEW c \in Lives, NEW yes \in BOOLEAN
    PROVE  LET d == Raise(c, yes) IN
           /\ d \in Lives /\ d.count = c.count /\ d.on = c.on /\ d.irq = c.irq
           /\ d.reload = c.reload
           /\ d.must = (c.must \/ yes) /\ d.may = (c.may \/ yes)
BY DEF Raise, Lives

\* A count set, field by field.
LEMMA CountFields ==
    ASSUME NEW c \in Lives, NEW n \in 0..(Word - 1)
    PROVE  LET d == [c EXCEPT !.count = n] IN
           /\ d \in Lives /\ d.count = n /\ d.on = c.on /\ d.irq = c.irq
           /\ d.reload = c.reload /\ d.must = c.must /\ d.may = c.may
BY DEF Lives

\* A zero that may be noticed, field by field.
LEMMA NoticedFields ==
    ASSUME NEW c \in Lives
    PROVE  LET d == Noticed(c) IN
           /\ d \in Lives /\ d.count = c.count /\ d.on = c.on /\ d.irq = c.irq
           /\ d.reload = c.reload /\ d.must = c.must
           /\ d.may = (c.may \/ (chip = "FME7" /\ c.on /\ c.irq /\ c.count = 0))
<1> DEFINE y == c.may \/ (chip = "FME7" /\ c.on /\ c.irq /\ c.count = 0)
<1>1. Noticed(c) = [c EXCEPT !.may = y]
  BY DEF Noticed
<1>2. y \in BOOLEAN
  BY LiveFields
<1> HIDE DEF y
<1>3. LET d == Noticed(c) IN
      /\ d \in Lives /\ d.count = c.count /\ d.on = c.on /\ d.irq = c.irq
      /\ d.reload = c.reload /\ d.must = c.must /\ d.may = y
  BY <1>1, <1>2 DEF Lives
<1> QED  BY <1>3 DEF y

\* The cycle of an FME-7.
LEMMA CycleFme7 ==
    ASSUME NEW c \in Lives, chip = "FME7"
    PROVE  LET d == Cycle(c) IN
           /\ d \in Lives /\ d.on = c.on /\ d.irq = c.irq /\ d.reload = c.reload
           /\ ~c.on => d = c
           /\ c.on => /\ d.count = (c.count - 1) % Word
                      /\ d.must = (c.must \/ (c.irq /\ c.count = 0))
                      /\ d.may = (\/ c.may \/ (c.irq /\ c.count = 0)
                                  \/ (c.irq /\ d.count = 0))
<1>1. CASE ~c.on
  BY <1>1 DEF Cycle
<1>2. CASE c.on
  <2> DEFINE e == Raise(c, c.irq /\ c.count = 0)
             n == (c.count - 1) % Word
             f == [e EXCEPT !.count = n]
  <2>1. (c.irq /\ c.count = 0) \in BOOLEAN
    BY LiveFields
  <2>2. /\ e \in Lives /\ e.count = c.count /\ e.on = c.on /\ e.irq = c.irq
        /\ e.reload = c.reload
        /\ e.must = (c.must \/ (c.irq /\ c.count = 0))
        /\ e.may = (c.may \/ (c.irq /\ c.count = 0))
    BY <2>1, RaiseFields
  <2>3. n \in 0..(Word - 1)
    BY LiveFields, Remainder
  <2>4. Cycle(c) = Noticed([e EXCEPT !.count = (@ - 1) % Word])
    BY <1>2 DEF Cycle
  <2>5. Cycle(c) = Noticed(f)
    BY <2>2, <2>4
  <2> HIDE DEF e, n
  <2>6. /\ f \in Lives /\ f.count = n /\ f.on = e.on /\ f.irq = e.irq
        /\ f.reload = e.reload /\ f.must = e.must /\ f.may = e.may
    BY <2>2, <2>3, CountFields
  <2> HIDE DEF f
  <2>7. /\ Noticed(f) \in Lives /\ Noticed(f).count = n /\ Noticed(f).on = c.on
        /\ Noticed(f).irq = c.irq /\ Noticed(f).reload = c.reload
        /\ Noticed(f).must = e.must
        /\ Noticed(f).may = (e.may \/ (chip = "FME7" /\ c.on /\ c.irq /\ n = 0))
    BY <2>2, <2>6, NoticedFields
  <2>8. (chip = "FME7" /\ c.on /\ c.irq /\ n = 0) = (c.irq /\ n = 0)
    BY <1>2, LiveFields
  <2> QED  BY <1>2, <2>2, <2>5, <2>7, <2>8 DEF n
<1> QED  BY <1>1, <1>2, LiveFields

\* The cycle of a Namco 106.
LEMMA CycleNamco ==
    ASSUME NEW c \in Lives, chip = "Namco"
    PROVE  LET d == Cycle(c) IN
           /\ d \in Lives /\ d.on = c.on /\ d.irq = c.irq /\ d.reload = c.reload
           /\ d.count = IF c.count \in {(Word \div 2) - 1, Word - 1} THEN c.count
                        ELSE c.count + 1
           /\ d.must = (c.must \/ (c.count = Word - 1 /\ c.count # (Word \div 2) - 1))
           /\ d.may = (c.may \/ (c.count = Word - 1 /\ c.count # (Word \div 2) - 1))
<1>1. CASE c.count = (Word \div 2) - 1
  BY <1>1, LiveFields DEF Cycle
<1>2. CASE c.count # (Word \div 2) - 1 /\ c.count = Word - 1
  <2>1. Cycle(c) = Raise(c, TRUE)
    BY <1>2 DEF Cycle
  <2> DEFINE d == Raise(c, TRUE)
  <2>2. /\ d \in Lives /\ d.count = c.count /\ d.on = c.on /\ d.irq = c.irq
        /\ d.reload = c.reload /\ d.must = TRUE /\ d.may = TRUE
    BY RaiseFields, LiveFields
  <2> HIDE DEF d
  <2>3. (c.must \/ (c.count = Word - 1 /\ c.count # (Word \div 2) - 1)) = TRUE
    BY <1>2
  <2>4. (c.may \/ (c.count = Word - 1 /\ c.count # (Word \div 2) - 1)) = TRUE
    BY <1>2
  <2>5. c.count \in {(Word \div 2) - 1, Word - 1}
    BY <1>2
  <2>6. Cycle(c) = d
    BY <2>1 DEF d
  <2> QED  BY <2>2, <2>3, <2>4, <2>5, <2>6
<1>3. CASE c.count # (Word \div 2) - 1 /\ c.count # Word - 1
  <2>1. Cycle(c) = [c EXCEPT !.count = c.count + 1]
    BY <1>3 DEF Cycle
  <2>2. c.count + 1 \in 0..(Word - 1)
    BY <1>3, LiveFields, ConstantTypes
  <2>3. LET d == Cycle(c) IN
        /\ d \in Lives /\ d.count = c.count + 1 /\ d.on = c.on /\ d.irq = c.irq
        /\ d.reload = c.reload /\ d.must = c.must /\ d.may = c.may
    BY <2>1, <2>2, CountFields
  <2> QED  BY <1>3, <2>3, LiveFields
<1> QED  BY <1>1, <1>2, <1>3

\* The cycle of a VRC6.
LEMMA CycleVrc6 ==
    ASSUME NEW c \in Lives, chip = "VRC6"
    PROVE  LET d == Cycle(c) IN
           /\ d \in Lives /\ d.on = c.on /\ d.irq = c.irq /\ d.reload = c.reload
           /\ ~c.on => d = c
           /\ c.on => /\ d.count = IF c.count = 0 THEN c.reload - 1 ELSE c.count - 1
                      /\ d.must = (c.must \/ c.count = 0)
                      /\ d.may = (c.may \/ c.count = 0)
<1>1. CASE ~c.on
  BY <1>1 DEF Cycle
<1>2. CASE c.on /\ c.count = 0
  <2>1. Cycle(c) = [Raise(c, TRUE) EXCEPT !.count = c.reload - 1]
    BY <1>2 DEF Cycle
  <2>2. c.reload - 1 \in 0..(Word - 1)
    BY LiveFields, ConstantTypes
  <2> DEFINE e == Raise(c, TRUE)  n == c.reload - 1  f == [e EXCEPT !.count = n]
  <2>3. /\ e \in Lives /\ e.count = c.count /\ e.on = c.on /\ e.irq = c.irq
        /\ e.reload = c.reload /\ e.must = TRUE /\ e.may = TRUE
    BY RaiseFields, LiveFields
  <2>4. Cycle(c) = f
    BY <2>1
  <2> HIDE DEF e, n
  <2>5. n \in 0..(Word - 1)
    BY <2>2 DEF n
  <2>6. /\ f \in Lives /\ f.count = n /\ f.on = c.on /\ f.irq = c.irq
        /\ f.reload = c.reload /\ f.must = TRUE /\ f.may = TRUE
    BY <2>3, <2>5, CountFields
  <2> HIDE DEF f
  <2> QED  BY <1>2, <2>4, <2>6, LiveFields DEF n
<1>3. CASE c.on /\ c.count # 0
  <2>1. Cycle(c) = [c EXCEPT !.count = c.count - 1]
    BY <1>3 DEF Cycle
  <2>2. c.count - 1 \in 0..(Word - 1)
    BY <1>3, LiveFields, ConstantTypes
  <2>3. LET d == Cycle(c) IN
        /\ d \in Lives /\ d.count = c.count - 1 /\ d.on = c.on /\ d.irq = c.irq
        /\ d.reload = c.reload /\ d.must = c.must /\ d.may = c.may
    BY <2>1, <2>2, CountFields
  <2> QED  BY <1>3, <2>3, LiveFields
<1> QED  BY <1>1, <1>2, <1>3, LiveFields

\* a timer and one that counts every cycle, at a time of the run
Pair(m, c, t) ==
    /\ m \in Timers /\ c \in Lives /\ Alike(m, c)
    /\ t \in Nat /\ m.last <= t /\ t <= FrameLen + Overshoot

\* What Pair gives.
LEMMA PairFacts ==
    ASSUME NEW m, NEW c, NEW t, Pair(m, c, t)
    PROVE  /\ m \in Timers /\ c \in Lives
           /\ c.on = m.on /\ c.irq = m.irq /\ c.reload = m.reload
           /\ t \in Nat /\ m.last <= t /\ t <= FrameLen + Overshoot /\ t < Word
           /\ t \in Clock
<1>1. /\ m \in Timers /\ c \in Lives /\ c.on = m.on /\ c.irq = m.irq /\ c.reload = m.reload
      /\ t \in Nat /\ m.last <= t /\ t <= FrameLen + Overshoot
  BY DEF Pair, Alike
<1> QED  BY <1>1, TimerFields, ConstantTypes DEF Clock

\* An FME-7 follows for one more cycle.
LEMMA FollowsFme7 ==
    ASSUME NEW m, NEW c, NEW t, Pair(m, c, t), Pair(m, c, t + 1),
           chip = "FME7", Follows(m, c, t)
    PROVE  Follows(m, Cycle(c), t + 1)
<1> DEFINE r == RunFme7(m, t)  s == RunFme7(m, t + 1)  d == Cycle(c)
           n == m.count - (t - m.last)  k == m.count - ((t + 1) - m.last)
<1>1. /\ m \in Timers /\ c \in Lives /\ c.on = m.on /\ c.irq = m.irq
      /\ t \in Nat /\ m.last <= t /\ t < Word /\ t \in Clock /\ t + 1 \in Clock
  BY PairFacts
<1>2. /\ m.count \in 0..(Word - 1) /\ m.last \in Nat /\ m.on \in BOOLEAN /\ m.irq \in BOOLEAN
      /\ m.pending \in BOOLEAN /\ Word \in Nat
  BY <1>1, TimerFields, ConstantTypes
<1>3. /\ n \in (-Word)..(Word - 1) /\ k = n - 1 /\ n \in Int /\ n > -Word
      /\ k \in (-Word)..(Word - 1) /\ k \in Int
  BY <1>1, <1>2
<1>4. /\ r.count = (IF m.on THEN n % Word ELSE m.count)
      /\ r.pending = (m.pending \/ (m.on /\ m.irq /\ n <= 0))
  BY <1>1, Fme7Fields
<1>5. /\ s.count = (IF m.on THEN k % Word ELSE m.count)
      /\ s.pending = (m.pending \/ (m.on /\ m.irq /\ k <= 0))
  BY <1>1, Fme7Fields
<1>6. /\ RunUntil(m, t) = r /\ RunUntil(m, t + 1) = s
  BY DEF RunUntil
<1>7. /\ r.count = c.count /\ (c.must => r.pending) /\ (r.pending => c.may)
      /\ c.must => m.pending \/ Expiry(m) <= t
  BY <1>6 DEF Follows, Agree, Late
<1>8. /\ ~c.on => d = c
      /\ c.on => /\ d.count = (c.count - 1) % Word
                 /\ d.must = (c.must \/ (c.irq /\ c.count = 0))
                 /\ d.may = (\/ c.may \/ (c.irq /\ c.count = 0)
                             \/ (c.irq /\ d.count = 0))
  BY <1>1, CycleFme7
<1>9. Expiry(m) = (IF m.on /\ m.irq THEN m.last + m.count + 1 ELSE NoIrq) /\ NoIrq \in Nat
  BY ConstantTypes DEF Expiry, NoIrq
<1>10. c.count \in 0..(Word - 1) /\ c.must \in BOOLEAN /\ c.may \in BOOLEAN
  BY <1>1, LiveFields
<1> HIDE DEF r, s, d
<1>11. CASE ~m.on
  <2>1. s.count = d.count /\ (d.must => s.pending) /\ (s.pending => d.may)
    BY <1>11, <1>1, <1>4, <1>5, <1>7, <1>8, Zenon
  <2>2. d.must => m.pending \/ Expiry(m) <= t + 1
    BY <1>11, <1>1, <1>2, <1>7, <1>8, <1>9
  <2> QED  BY <2>1, <2>2, <1>6 DEF Follows, Agree, Late, d
<1>12. CASE m.on
  <2>1. /\ n >= 0 => c.count = n
        /\ n < 0 => c.count = n + Word
    BY <1>12, <1>3, <1>4, <1>7, Remainder
  <2>2. /\ k >= 0 => s.count = k
        /\ k < 0 => s.count = k + Word
    <3> HIDE DEF k, n
    <3>1. s.count = k % Word
      BY <1>12, <1>5
    <3>2. k >= 0 => k \in 0..(Word - 1)
      BY <1>2, <1>3
    <3>3. k < 0 => k \in (-Word)..(-1)
      BY <1>2, <1>3
    <3> QED  BY <3>1, <3>2, <3>3, <1>3, Remainder
  <2>3. d.count = s.count
    <3>1. d.count = (c.count - 1) % Word
      BY <1>1, <1>8, <1>12
    <3>2. CASE n >= 1
      <4> HIDE DEF k, n
      <4>1. c.count - 1 = k /\ k \in 0..(Word - 1) /\ k >= 0
        BY <3>2, <2>1, <1>2, <1>3
      <4> QED  BY <3>1, <4>1, <2>2, <1>3, Remainder
    <3>3. CASE n = 0
      BY <3>1, <3>3, <2>1, <2>2, <1>2, <1>3, Remainder
    <3>4. CASE n < 0
      <4>1. c.count - 1 = k + Word /\ k + Word \in 0..(Word - 1) /\ k < 0
        BY <3>4, <2>1, <1>2, <1>3
      <4> QED  BY <3>1, <4>1, <2>2, Remainder
    <3> QED  BY <3>2, <3>3, <3>4, <1>3
  <2> HIDE DEF n, k
  <2>4. ASSUME d.must PROVE s.pending
    <3>1. CASE c.must
      <4>1. m.pending \/ (m.on /\ m.irq /\ n <= 0)
        BY <3>1, <1>4, <1>7, Zenon
      <4>2. n <= 0 => k <= 0
        BY <1>3
      <4> QED  BY <4>1, <4>2, <1>5, Zenon
    <3>2. CASE c.irq /\ c.count = 0
      <4>1. k <= 0
        BY <3>2, <2>1, <1>2, <1>3
      <4> QED  BY <4>1, <3>2, <1>1, <1>5, <1>12, Zenon
    <3> QED  BY <2>4, <3>1, <3>2, <1>1, <1>8, <1>12, Zenon
  <2>5. ASSUME s.pending PROVE d.may
    <3>1. CASE m.pending \/ (m.irq /\ n <= 0)
      <4>1. c.may
        BY <3>1, <1>4, <1>7, <1>12, Zenon
      <4> QED  BY <4>1, <1>1, <1>8, <1>12, Zenon
    <3>2. CASE m.irq /\ k <= 0 /\ ~ (n <= 0)
      <4>1. d.count = 0
        BY <3>2, <2>2, <2>3, <1>3
      <4> QED  BY <4>1, <3>2, <1>1, <1>8, <1>12, Zenon
    <3> QED  BY <2>5, <3>1, <3>2, <1>5, <1>12, Zenon
  <2>6. ASSUME d.must PROVE m.pending \/ Expiry(m) <= t + 1
    <3>1. CASE c.must
      BY <3>1, <1>1, <1>2, <1>7, <1>9
    <3>2. CASE c.irq /\ c.count = 0
      <4>1. m.last + m.count + 1 <= t + 1
        BY <3>2, <2>1, <1>1, <1>2, <1>3 DEF n
      <4> QED  BY <4>1, <3>2, <1>1, <1>9, <1>12
    <3> QED  BY <2>6, <3>1, <3>2, <1>1, <1>8, <1>12, Zenon
  <2> QED  BY <2>3, <2>4, <2>5, <2>6, <1>6 DEF Follows, Agree, Late, d
<1> QED  BY <1>2, <1>11, <1>12

\* A Namco 106 follows for one more cycle.
LEMMA FollowsNamco ==
    ASSUME NEW m, NEW c, NEW t, Pair(m, c, t), Pair(m, c, t + 1),
           chip = "Namco", Follows(m, c, t)
    PROVE  Follows(m, Cycle(c), t + 1)
<1> DEFINE r == RunNamco(m, t)  s == RunNamco(m, t + 1)  d == Cycle(c)
           n == m.count + (t - m.last)  k == m.count + ((t + 1) - m.last)
           H == Word \div 2
<1>1. /\ m \in Timers /\ c \in Lives
      /\ t \in Nat /\ m.last <= t /\ m.last <= t + 1 /\ t \in Clock /\ t + 1 \in Clock
  BY PairFacts DEF Pair
<1>2. /\ m.count \in 0..(Word - 1) /\ m.last \in Nat /\ m.pending \in BOOLEAN
      /\ Word \in Nat /\ H \in Nat /\ 0 < H /\ H < Word
  BY <1>1, TimerFields, ConstantTypes, HalfWord
<1>3. n \in Nat /\ k = n + 1 /\ m.count <= n
  BY <1>1, <1>2
<1>4. /\ r.count = (IF n > Top(m) THEN Top(m) ELSE n)
      /\ r.pending = (m.pending \/ (m.count >= H /\ n > Top(m)))
  BY <1>1, NamcoFields
<1>5. /\ s.count = (IF k > Top(m) THEN Top(m) ELSE k)
      /\ s.pending = (m.pending \/ (m.count >= H /\ k > Top(m)))
  BY <1>1, NamcoFields
<1>6. /\ RunUntil(m, t) = r /\ RunUntil(m, t + 1) = s
  BY DEF RunUntil
<1>7. /\ r.count = c.count /\ (c.must => r.pending) /\ (r.pending => c.may)
      /\ c.must => m.pending \/ Expiry(m) <= t
  BY <1>6 DEF Follows, Agree, Late
<1>8. /\ d.count = (IF c.count \in {H - 1, Word - 1} THEN c.count ELSE c.count + 1)
      /\ d.must = (c.must \/ (c.count = Word - 1 /\ c.count # H - 1))
      /\ d.may = (c.may \/ (c.count = Word - 1 /\ c.count # H - 1))
  BY <1>1, CycleNamco
<1>9. /\ Expiry(m) = (IF m.count >= H THEN Word - m.count + m.last ELSE NoIrq)
      /\ NoIrq \in Nat
  BY ConstantTypes DEF Expiry, NoIrq
<1>10. Top(m) = (IF m.count >= H THEN Word - 1 ELSE H - 1) /\ m.count <= Top(m)
  BY <1>2 DEF Top
<1> HIDE DEF r, s, d, n, k, H
<1>11. s.count = d.count
  BY <1>2, <1>3, <1>4, <1>5, <1>7, <1>8, <1>10
<1>12. c.count = Word - 1 /\ c.count # H - 1 <=> m.count >= H /\ k > Top(m)
  BY <1>2, <1>3, <1>4, <1>7, <1>10
<1>13. n > Top(m) => k > Top(m)
  BY <1>2, <1>3, <1>10
<1>14. (d.must => s.pending) /\ (s.pending => d.may)
  <2>1. d.must => c.must \/ (m.count >= H /\ k > Top(m))
    BY <1>8, <1>12, Zenon
  <2>2. c.must => m.pending \/ (m.count >= H /\ k > Top(m))
    BY <1>4, <1>7, <1>13, Zenon
  <2>3. m.pending => c.may
    BY <1>4, <1>7, Zenon
  <2>4. s.pending => c.may \/ (m.count >= H /\ k > Top(m))
    BY <1>5, <2>3, Zenon
  <2> QED  BY <2>1, <2>2, <2>4, <1>5, <1>8, <1>12, Zenon
<1>15. ASSUME d.must PROVE m.pending \/ Expiry(m) <= t + 1
  <2>1. CASE c.must
    BY <2>1, <1>1, <1>2, <1>7, <1>9
  <2>2. CASE m.count >= H /\ k > Top(m)
    BY <2>2, <1>1, <1>2, <1>9, <1>10 DEF k
  <2> QED  BY <1>15, <2>1, <2>2, <1>8, <1>12, Zenon
<1> QED  BY <1>6, <1>11, <1>14, <1>15 DEF Follows, Agree, Late, d

\* A VRC6 follows for one more cycle.
LEMMA FollowsVrc6 ==
    ASSUME NEW m, NEW c, NEW t, Pair(m, c, t), Pair(m, c, t + 1),
           chip = "VRC6", Follows(m, c, t)
    PROVE  Follows(m, Cycle(c), t + 1)
<1> DEFINE r == RunVrc6(m, t)  s == RunVrc6(m, t + 1)  d == Cycle(c)
<1>1. /\ m \in Timers /\ c \in Lives /\ c.on = m.on /\ c.reload = m.reload
      /\ t \in Nat /\ t \in Clock /\ t + 1 \in Clock
  BY PairFacts
<1>2. /\ m.count \in Nat /\ m.on \in BOOLEAN /\ m.reload \in Nat /\ m.reload > 0
  BY <1>1, TimerFields
<1>3. /\ r \in Timers /\ r.on = m.on
      /\ ~m.on \/ m.count >= t => r = m
      /\ m.on /\ m.count < t =>
            /\ r.pending /\ t <= r.count /\ r.count < t + m.reload
            /\ \E n \in Nat : r.count = m.count + n * m.reload
  BY <1>1, Vrc6Fields
<1>4. /\ s \in Timers /\ s.on = m.on
      /\ ~m.on \/ m.count >= t + 1 => s = m
      /\ m.on /\ m.count < t + 1 =>
            /\ s.pending /\ t + 1 <= s.count /\ s.count < t + 1 + m.reload
            /\ \E n \in Nat : s.count = m.count + n * m.reload
  BY <1>1, Vrc6Fields
<1>5. /\ RunUntil(m, t) = r /\ RunUntil(m, t + 1) = s
  BY DEF RunUntil
<1>6. /\ m.on => r.count - t = c.count
      /\ (c.must => r.pending) /\ (r.pending => c.may)
      /\ c.must => m.pending \/ Expiry(m) <= t
  BY <1>3, <1>5 DEF Follows, Agree, Late
<1>7. /\ ~c.on => d = c
      /\ c.on => /\ d.count = (IF c.count = 0 THEN c.reload - 1 ELSE c.count - 1)
                 /\ d.must = (c.must \/ c.count = 0)
                 /\ d.may = (c.may \/ c.count = 0)
  BY <1>1, CycleVrc6
<1>8. Expiry(m) = (IF m.on THEN m.count + 1 ELSE NoIrq) /\ NoIrq \in Nat
  BY ConstantTypes DEF Expiry, NoIrq
<1>9. c.count \in Nat /\ r.count \in Nat /\ s.count \in Nat
  BY <1>1, <1>3, <1>4, LiveFields, TimerFields
<1> HIDE DEF r, s, d
<1>10. CASE ~m.on
  <2>1. r = m /\ s = m /\ d = c
    BY <1>10, <1>1, <1>3, <1>4, <1>7
  <2>2. d.must => m.pending \/ Expiry(m) <= t + 1
    BY <2>1, <1>1, <1>6, <1>8
  <2> QED  BY <2>1, <2>2, <1>5, <1>6, <1>10 DEF Follows, Agree, Late, d
<1>11. CASE m.on /\ m.count >= t + 1
  <2>1. r = m /\ s = m
    BY <1>11, <1>1, <1>2, <1>3, <1>4
  <2>2. c.count # 0 /\ d.count = c.count - 1
    BY <2>1, <1>1, <1>2, <1>6, <1>7, <1>9, <1>11
  <2>3. (d.must => c.must) /\ (c.may => d.may)
    BY <2>2, <1>1, <1>7, <1>11
  <2>4. s.count - (t + 1) = d.count
    BY <2>1, <2>2, <1>1, <1>2, <1>6, <1>9, <1>11
  <2>5. d.must => m.pending \/ Expiry(m) <= t + 1
    BY <2>3, <1>1, <1>2, <1>6, <1>8
  <2> QED  BY <2>1, <2>3, <2>4, <2>5, <1>5, <1>6, <1>11 DEF Follows, Agree, Late, d
<1>12. CASE m.on /\ m.count < t + 1
  <2>1. PICK p \in Nat : r.count = m.count + p * m.reload
    <3>1. m.count < t \/ r.count = m.count + 0 * m.reload
      BY <1>1, <1>2, <1>3, <1>12
    <3> QED  BY <3>1, <1>3, <1>12
  <2>2. t <= r.count /\ r.count < t + m.reload
    BY <1>1, <1>2, <1>3, <1>12
  <2>3. PICK q \in Nat : s.count = m.count + q * m.reload
    BY <1>4, <1>12
  <2>4. s.pending /\ t + 1 <= s.count /\ s.count < t + 1 + m.reload
    BY <1>4, <1>12
  <2>5. p * m.reload \in Nat /\ q * m.reload \in Nat /\ (p + 1) * m.reload = p * m.reload + m.reload
    BY <1>2
  <2>6. CASE c.count = 0
    <3>1. r.count = t
      BY <2>6, <1>1, <1>6, <1>9, <1>12
    <3>2. /\ t + 1 <= m.count + (p + 1) * m.reload
          /\ m.count + (p + 1) * m.reload < (t + 1) + m.reload
      BY <3>1, <2>1, <2>5, <1>1, <1>2
    <3>3. p + 1 = q
      <4>1. /\ t + 1 <= m.count + q * m.reload
            /\ m.count + q * m.reload < (t + 1) + m.reload
        BY <2>3, <2>4
      <4>2. p + 1 \in Nat /\ t + 1 \in Int /\ m.count \in Int
        BY <1>1, <1>2
      <4> QED  BY <3>2, <4>1, <4>2, <1>2, SameTurn
    <3>4. s.count - (t + 1) = d.count
      BY <3>1, <3>3, <2>1, <2>3, <2>5, <2>6, <1>1, <1>2, <1>7, <1>12
    <3>5. d.may
      BY <2>6, <1>1, <1>7, <1>12
    <3> QED  BY <3>4, <3>5, <2>4, <1>1, <1>2, <1>4, <1>5, <1>8, <1>12 DEF Follows, Agree, Late, d
  <2>7. CASE c.count # 0
    <3>1. t + 1 <= r.count
      BY <2>7, <2>2, <1>1, <1>6, <1>9, <1>12
    <3>2. p = q
      <4>1. /\ t + 1 <= m.count + p * m.reload
            /\ m.count + p * m.reload < (t + 1) + m.reload
        BY <3>1, <2>1, <2>2, <1>1, <1>2
      <4>2. /\ t + 1 <= m.count + q * m.reload
            /\ m.count + q * m.reload < (t + 1) + m.reload
        BY <2>3, <2>4
      <4>3. t + 1 \in Int /\ m.count \in Int
        BY <1>1, <1>2
      <4> QED  BY <4>1, <4>2, <4>3, <1>2, SameTurn
    <3>3. s.count - (t + 1) = d.count
      BY <3>2, <2>1, <2>3, <2>5, <2>7, <1>1, <1>2, <1>6, <1>7, <1>9, <1>12
    <3>4. m.count < t
      BY <3>1, <1>1, <1>2, <1>3, <1>12
    <3>5. c.may /\ d.may
      BY <3>4, <1>1, <1>3, <1>6, <1>7, <1>12
    <3> QED  BY <3>3, <3>5, <2>4, <1>1, <1>2, <1>4, <1>5, <1>8, <1>12 DEF Follows, Agree, Late, d
  <2> QED  BY <2>6, <2>7
<1> QED  BY <1>1, <1>2, <1>10, <1>11, <1>12

\* the live timer keeps its type and its mode
LEMMA CycleAlike ==
    ASSUME NEW m, NEW c, NEW t, Pair(m, c, t), chip \in Chips
    PROVE  Cycle(c) \in Lives /\ Alike(m, Cycle(c))
<1>1. c \in Lives /\ Alike(m, c)
  BY DEF Pair
<1>2. chip = "FME7" \/ chip = "Namco" \/ chip = "VRC6"
  BY ConstantTypes
<1> QED  BY <1>1, <1>2, CycleFme7, CycleNamco, CycleVrc6 DEF Alike

\* Any of the timers follows for one more cycle.
LEMMA FollowsCycle ==
    ASSUME NEW m, NEW c, NEW t, Pair(m, c, t), t < FrameLen + Overshoot,
           chip \in Chips, Follows(m, c, t)
    PROVE  Pair(m, Cycle(c), t + 1) /\ Follows(m, Cycle(c), t + 1)
<1>1. Pair(m, c, t + 1)
  BY PairFacts, TimerFields, ConstantTypes DEF Pair
<1>2. chip = "FME7" \/ chip = "Namco" \/ chip = "VRC6"
  BY ConstantTypes
<1>3. Follows(m, Cycle(c), t + 1)
  BY <1>1, <1>2, FollowsFme7, FollowsNamco, FollowsVrc6
<1>4. Pair(m, Cycle(c), t + 1)
  BY <1>1, CycleAlike DEF Pair
<1> QED  BY <1>3, <1>4

-----------------------------------------------------------------------------
(* Many cycles.                                                            *)

After(c, n) ==
    LET after[k \in 0..n] == IF k = 0 THEN c ELSE Cycle(after[k - 1]) IN after

\* the recursion of Cycles has a solution
LEMMA AfterFunction ==
    ASSUME NEW c, NEW n \in Nat
    PROVE  \A k \in 0..n : After(c, n)[k] = IF k = 0 THEN c ELSE Cycle(After(c, n)[k - 1])
<1> DEFINE Rec(f, j) == f = [k \in 0..j |-> IF k = 0 THEN c ELSE Cycle(f[k - 1])]
           Some == {j \in Nat : \E f : Rec(f, j)}
<1>1. 0 \in Some
  <2>1. Rec([k \in 0..0 |-> c], 0)
    OBVIOUS
  <2> QED  BY <2>1
<1>2. ASSUME NEW j \in Nat, j \in Some PROVE j + 1 \in Some
  <2>1. PICK f : Rec(f, j)
    BY <1>2
  <2> DEFINE g == [k \in 0..(j + 1) |-> IF k \in 0..j THEN f[k] ELSE Cycle(f[j])]
  <2>2. \A k \in 0..j : f[k] = IF k = 0 THEN c ELSE Cycle(f[k - 1])
    BY <2>1
  <2>3. (\A k \in 0..j : g[k] = f[k]) /\ g[j + 1] = Cycle(f[j])
    OBVIOUS
  <2>4. ASSUME NEW k \in 0..(j + 1) PROVE g[k] = IF k = 0 THEN c ELSE Cycle(g[k - 1])
    <3> HIDE DEF g
    <3>1. CASE k = j + 1
      <4>1. k # 0 /\ k - 1 = j /\ g[j] = f[j]
        BY <3>1, <2>3
      <4> QED  BY <3>1, <4>1, <2>3
    <3>2. CASE k = 0
      BY <3>2, <2>2, <2>3
    <3>3. CASE k \in 1..j
      <4>1. k \in 0..j /\ k - 1 \in 0..j /\ k # 0
        BY <3>3
      <4>2. g[k] = f[k] /\ g[k - 1] = f[k - 1]
        BY <4>1, <2>3
      <4> QED  BY <4>1, <4>2, <2>2
    <3> QED  BY <3>1, <3>2, <3>3
  <2>5. Rec(g, j + 1)
    <3>1. g = [k \in 0..(j + 1) |-> g[k]]
      OBVIOUS
    <3> HIDE DEF g
    <3> QED  BY <3>1, <2>4
  <2>6. \E h : Rec(h, j + 1)
    <3> HIDE DEF Rec, g
    <3> QED  BY <2>5
  <2> QED  BY <2>6
<1>3. Nat \subseteq Some
  <2> HIDE DEF Some
  <2> QED  BY <1>1, <1>2, Induction
<1>4. \E f : Rec(f, n)
  BY <1>3
<1>5. After(c, n) = CHOOSE f : Rec(f, n)
  BY DEF After
<1> HIDE DEF Rec
<1>6. Rec(After(c, n), n)
  BY <1>4, <1>5, Zenon
<1> DEFINE h == After(c, n)
<1> HIDE DEF h
<1>7. Rec(h, n)
  BY <1>6 DEF h
<1>8. \A k \in 0..n : h[k] = IF k = 0 THEN c ELSE Cycle(h[k - 1])
  BY <1>7 DEF Rec
<1> QED  BY <1>8 DEF h

\* after so many cycles a timer still follows
LEMMA FollowsCycles ==
    ASSUME NEW m, NEW c, NEW t, Pair(m, c, t), chip \in Chips, Follows(m, c, t),
           NEW n \in Nat, t + n <= FrameLen + Overshoot
    PROVE  Pair(m, Cycles(c, n), t + n) /\ Follows(m, Cycles(c, n), t + n)
<1> DEFINE h == After(c, n)
           P(k) == Pair(m, h[k], t + k) /\ Follows(m, h[k], t + k)
           S == {k \in Nat : k <= n => P(k)}
<1>0. t \in Nat
  BY PairFacts
<1>1. \A k \in 0..n : h[k] = IF k = 0 THEN c ELSE Cycle(h[k - 1])
  BY AfterFunction
<1>2. 0 \in S
  <2>1. h[0] = c /\ t + 0 = t
    BY <1>0, <1>1
  <2> QED  BY <2>1
<1>3. ASSUME NEW k \in Nat, k \in S PROVE k + 1 \in S
  <2> SUFFICES ASSUME k + 1 <= n PROVE P(k + 1)
    OBVIOUS
  <2>1. P(k)
    BY <1>3
  <2>2. h[k + 1] = Cycle(h[k])
    <3>1. k + 1 \in 0..n /\ k + 1 # 0 /\ (k + 1) - 1 = k
      OBVIOUS
    <3> HIDE DEF h
    <3> QED  BY <3>1, <1>1
  <2>3. t + k < FrameLen + Overshoot /\ (t + k) + 1 = t + (k + 1)
    BY <1>0, ConstantTypes
  <2> HIDE DEF h
  <2>4. Pair(m, Cycle(h[k]), (t + k) + 1) /\ Follows(m, Cycle(h[k]), (t + k) + 1)
    BY <2>1, <2>3, FollowsCycle
  <2> QED  BY <2>2, <2>3, <2>4
<1>4. Nat \subseteq S
  <2> HIDE DEF S
  <2> QED  BY <1>2, <1>3, Induction
<1>5. P(n)
  BY <1>4
<1>6. Cycles(c, n) = h[n]
  BY DEF Cycles, After
<1> QED  BY <1>5, <1>6

-----------------------------------------------------------------------------
(* A timer just run.                                                       *)

\* The chips there are.
LEMMA Known == ASSUME chip \in Chips PROVE chip = "FME7" \/ chip = "Namco" \/ chip = "VRC6"
BY ConstantTypes

\* A timer is its registers.
LEMMA SameTimer ==
    ASSUME NEW m \in Timers, NEW r \in Timers, m.count = r.count, m.last = r.last,
           m.on = r.on, m.irq = r.irq, m.reload = r.reload, m.pending = r.pending
    PROVE  m = r
<1>1. /\ m = [count |-> m.count, last |-> m.last, on |-> m.on, irq |-> m.irq,
              reload |-> m.reload, pending |-> m.pending]
      /\ r = [count |-> r.count, last |-> r.last, on |-> r.on, irq |-> r.irq,
              reload |-> r.reload, pending |-> r.pending]
  BY DEF Timers
<1> QED  BY <1>1

\* A timer just run has nothing left to count: running it again changes nothing.
LEMMA RunTwice ==
    ASSUME NEW m \in Timers, NEW t \in Clock, m.last <= t, chip \in Chips
    PROVE  LET r == RunUntil(m, t) IN
           /\ r \in Timers /\ r.on = m.on /\ r.irq = m.irq /\ r.reload = m.reload
           /\ r.last = IF chip = "VRC6" THEN m.last ELSE t
           /\ chip = "VRC6" /\ r.on => t <= r.count
           /\ RunUntil(r, t) = r
<1> DEFINE r == RunUntil(m, t)
<1>0. t \in Nat
  BY ConstantTypes DEF Clock
<1>1. CASE chip = "FME7"
  <2>1. r = RunFme7(m, t)
    BY <1>1 DEF RunUntil
  <2> DEFINE n == m.count - (t - m.last)
  <2>2. /\ r \in Timers /\ r.last = t /\ r.on = m.on /\ r.irq = m.irq
        /\ r.reload = m.reload
        /\ r.count = (IF m.on THEN n % Word ELSE m.count)
        /\ r.pending = (m.pending \/ (m.on /\ m.irq /\ n <= 0))
    BY <2>1, Fme7Fields
  <2>3. n \in Int /\ n > -Word /\ n <= Word - 1
    BY <1>0, TimerFields, ConstantTypes DEF Clock
  <2>4. RunUntil(r, t) = RunFme7(r, t)
    BY <1>1 DEF RunUntil
  <2> HIDE DEF r, n
  <2> DEFINE s == RunFme7(r, t)  k == r.count - (t - r.last)
  <2>5. /\ s \in Timers /\ s.last = t /\ s.on = r.on /\ s.irq = r.irq
        /\ s.reload = r.reload
        /\ s.count = (IF r.on THEN k % Word ELSE r.count)
        /\ s.pending = (r.pending \/ (r.on /\ r.irq /\ k <= 0))
    BY <2>2, Fme7Fields
  <2>6. k = r.count /\ r.count \in 0..(Word - 1)
    BY <2>2, <1>0, TimerFields
  <2> HIDE DEF s, k
  <2>7. s.count = r.count
    BY <2>5, <2>6, Remainder
  <2>8. m.on /\ k <= 0 => n <= 0
    <3> SUFFICES ASSUME m.on, k <= 0, n > 0 PROVE FALSE
      BY <2>3, <2>6
    <3>1. n \in 0..(Word - 1)
      BY <2>3
    <3>2. r.count = n
      BY <3>1, <2>2, Remainder
    <3> QED  BY <3>2, <2>6, <2>3
  <2>9. s.pending = r.pending
    <3>1. r.on /\ r.irq /\ k <= 0 => r.pending
      BY <2>2, <2>8, Zenon
    <3>2. r.pending \in BOOLEAN
      BY <2>2, TimerFields
    <3> QED  BY <3>1, <3>2, <2>5
  <2>10. s = r
    BY <2>2, <2>5, <2>7, <2>9, SameTimer
  <2> QED  BY <1>1, <2>2, <2>4, <2>10 DEF r, s
<1>2. CASE chip = "Namco"
  <2>1. r = RunNamco(m, t)
    BY <1>2 DEF RunUntil
  <2> DEFINE n == m.count + (t - m.last)
  <2>2. /\ r \in Timers /\ r.last = t /\ r.on = m.on /\ r.irq = m.irq
        /\ r.reload = m.reload
        /\ r.count = (IF n > Top(m) THEN Top(m) ELSE n)
    BY <2>1, NamcoFields
  <2>3. n \in Nat /\ m.count <= n /\ m.count \in 0..(Word - 1)
    BY <1>0, TimerFields, ConstantTypes DEF Clock
  <2>4. RunUntil(r, t) = RunNamco(r, t)
    BY <1>2 DEF RunUntil
  <2> HIDE DEF r, n
  <2> DEFINE s == RunNamco(r, t)  k == r.count + (t - r.last)
  <2>5. /\ s \in Timers /\ s.last = t /\ s.on = r.on /\ s.irq = r.irq
        /\ s.reload = r.reload
        /\ s.count = (IF k > Top(r) THEN Top(r) ELSE k)
        /\ s.pending = (r.pending \/ (r.count >= Word \div 2 /\ k > Top(r)))
    BY <2>2, <1>0, NamcoFields
  <2>6. k = r.count /\ r.count \in 0..(Word - 1)
    BY <2>2, <1>0, TimerFields
  <2>7. ~ (k > Top(r))
    BY <2>6, HalfWord, ConstantTypes DEF Top
  <2> HIDE DEF s, k
  <2>8. s.count = r.count
    BY <2>5, <2>6, <2>7
  <2>9. s.pending = r.pending
    <3>1. r.pending \in BOOLEAN
      BY <2>2, TimerFields
    <3> QED  BY <3>1, <2>5, <2>7
  <2>10. s = r
    BY <2>2, <2>5, <2>8, <2>9, SameTimer
  <2> QED  BY <1>2, <2>2, <2>4, <2>10 DEF r, s
<1>3. CASE chip = "VRC6"
  <2>1. r = RunVrc6(m, t)
    BY <1>3 DEF RunUntil
  <2>2. /\ r \in Timers /\ r.last = m.last /\ r.on = m.on /\ r.irq = m.irq
        /\ r.reload = m.reload /\ (~m.on \/ m.count >= t => r = m)
        /\ m.on /\ m.count < t => t <= r.count
    BY <2>1, Vrc6Fields
  <2>3. r.on => t <= r.count
    <3>1. r.count \in Nat /\ m.count \in Nat
      BY <2>2, TimerFields
    <3> HIDE DEF r
    <3> QED  BY <2>2, <3>1, <1>0
  <2>4. RunUntil(r, t) = r
    <3>1. ~r.on \/ r.count >= t
      BY <2>2, <2>3, TimerFields
    <3> HIDE DEF r
    <3>2. RunUntil(r, t) = RunVrc6(r, t)
      BY <1>3 DEF RunUntil
    <3> QED  BY <3>1, <3>2, <2>2, Vrc6Fields
  <2> QED  BY <1>3, <2>2, <2>3, <2>4
<1> QED  BY <1>1, <1>2, <1>3, Known

\* The expiry of a timer just run is still to come.
LEMMA ExpiryLater ==
    ASSUME NEW m \in Timers, NEW t \in Clock, chip \in Chips,
           chip # "VRC6" => m.last = t, chip = "VRC6" /\ m.on => t <= m.count
    PROVE  Expiry(m) \in 0..NoIrq /\ t < Expiry(m)
<1>1. /\ m.count \in 0..(Word - 1) /\ m.last \in Clock /\ Word \in Nat /\ t \in Nat
      /\ t < Word /\ FrameLen + Overshoot < Word
  <2>1. FrameLen + Overshoot < Word
    BY TimerFields, ConstantTypes
  <2> QED  BY <2>1, TimerFields, ConstantTypes DEF Clock
<1>2. /\ NoIrq = 4 * Word
      /\ \/ Expiry(m) = m.last + m.count + 1 /\ chip = "FME7"
         \/ Expiry(m) = Word - m.count + m.last /\ chip = "Namco"
         \/ Expiry(m) = m.count + 1 /\ chip = "VRC6" /\ m.on
         \/ Expiry(m) = NoIrq
  BY DEF Expiry, NoIrq
<1> QED  BY <1>1, <1>2 DEF Clock

\* next_irq is the expiry, unless an IRQ is pending.
LEMMA NextIrqIs ==
    ASSUME NEW m \in Timers, chip \in Chips
    PROVE  /\ Expiry(m) \in 0..NoIrq
           /\ NextIrq(m) = IF m.pending THEN 0 ELSE Expiry(m)
           /\ NextIrq(m) \in 0..NoIrq
<1>1. /\ m.count \in 0..(Word - 1) /\ m.last \in 0..(Word - 1) /\ Word \in Nat
      /\ m.pending \in BOOLEAN
  BY TimerFields, ConstantTypes DEF Clock
<1>2. /\ NoIrq = 4 * Word
      /\ \/ Expiry(m) = m.last + m.count + 1
         \/ Expiry(m) = Word - m.count + m.last
         \/ Expiry(m) = m.count + 1
         \/ Expiry(m) = NoIrq
  BY DEF Expiry, NoIrq
<1>3. Expiry(m) \in 0..NoIrq
  BY <1>1, <1>2
<1>4. NextIrq(m) = IF m.pending THEN 0 ELSE Expiry(m)
  BY DEF NextIrq, Expiry
<1>5. NoIrq \in Nat /\ 0 \in 0..NoIrq
  BY <1>1 DEF NoIrq
<1> QED  BY <1>1, <1>3, <1>4, <1>5

-----------------------------------------------------------------------------
(* The inductive invariant.                                                *)

\* the CPU is not told too late
Warned == cpuIrq <= Expiry(timer) /\ (timer.pending => cpuIrq <= now)

Small ==
    /\ chip \in Chips /\ cpuIrq \in 0..NoIrq
    /\ running \in BOOLEAN /\ exact \in BOOLEAN /\ told \in BOOLEAN
    /\ chip = "VRC6" => timer.last = 0

IInv ==
    /\ Small
    /\ Pair(timer, live, now)
    /\ exact => Follows(timer, live, now)
    /\ running /\ told => Warned

\* the chip stays
LEMMA SameChip ==
    ASSUME chip' = chip
    PROVE  /\ Follows(timer, live, now)' = Follows(timer', live', now')
           /\ Pair(timer, live, now)' = Pair(timer', live', now')
           /\ Expiry(timer)' = Expiry(timer')
<1>1. Expiry(timer)' = Expiry(timer')
  BY DEF Expiry, NoIrq, Word
<1>2. Late(timer, live, now)' = Late(timer', live', now')
  BY <1>1 DEF Late
<1>3. RunUntil(timer, now)' = RunUntil(timer', now')
  BY DEF RunUntil, RunFme7, RunNamco, RunVrc6
<1>4. Agree(RunUntil(timer, now), live, now)' = Agree(RunUntil(timer', now'), live', now')
  BY <1>3 DEF Agree
<1>5. Pair(timer, live, now)' = Pair(timer', live', now')
  BY DEF Pair, Alike, Timers, Lives, Clock, Word
<1> QED  BY <1>1, <1>2, <1>4, <1>5 DEF Follows

\* what the game has to leave
LEMMA Kept ==
    ASSUME Small, chip' = chip, cpuIrq' \in 0..NoIrq, running' \in BOOLEAN,
           exact' \in BOOLEAN, told' \in BOOLEAN, chip = "VRC6" => timer'.last = 0,
           Pair(timer', live', now'), exact' => Follows(timer', live', now'),
           running' /\ told' => cpuIrq' <= Expiry(timer') /\ (timer'.pending => cpuIrq' <= now')
    PROVE  IInv'
<1>1. Small'
  BY DEF Small, NoIrq, Word
<1>2. Pair(timer, live, now)' /\ (exact => Follows(timer, live, now))'
  BY SameChip
<1>3. (running /\ told => Warned)'
  BY SameChip DEF Warned
<1> QED  BY <1>1, <1>2, <1>3 DEF IInv

\* the timer as it is, and as it is when run
LEMMA TimerNow ==
    ASSUME IInv
    PROVE  /\ timer \in Timers /\ live \in Lives /\ Alike(timer, live)
           /\ now \in Nat /\ now \in Clock /\ timer.last <= now /\ chip \in Chips
           /\ Synced \in Timers /\ Synced.on = timer.on /\ Synced.irq = timer.irq
           /\ Synced.reload = timer.reload
           /\ Synced.last = IF chip = "VRC6" THEN 0 ELSE now
           /\ chip = "VRC6" /\ Synced.on => now <= Synced.count
           /\ RunUntil(Synced, now) = Synced
           /\ exact => Agree(Synced, live, now)
<1>1. /\ timer \in Timers /\ live \in Lives /\ Alike(timer, live)
      /\ now \in Nat /\ now \in Clock /\ timer.last <= now /\ chip \in Chips
      /\ chip = "VRC6" => timer.last = 0
  <2>1. Pair(timer, live, now)
    BY DEF IInv
  <2> QED  BY <2>1, PairFacts DEF IInv, Small, Pair
<1>2. exact => Agree(Synced, live, now)
  BY DEF IInv, Follows, Synced
<1> QED  BY <1>1, <1>2, RunTwice DEF Synced

\* the CPU told the time of the timer as it is now
LEMMA Told ==
    ASSUME Small, timer' \in Timers, cpuIrq' = NextIrq(timer'), now' \in Nat
    PROVE  /\ cpuIrq' \in 0..NoIrq /\ cpuIrq' <= Expiry(timer')
           /\ timer'.pending => cpuIrq' <= now'
<1>1. /\ Expiry(timer') \in 0..NoIrq
      /\ NextIrq(timer') = IF timer'.pending THEN 0 ELSE Expiry(timer')
      /\ NextIrq(timer') \in 0..NoIrq
  BY NextIrqIs DEF Small
<1>2. NoIrq \in Nat
  BY ConstantTypes DEF NoIrq
<1> QED  BY <1>1, <1>2

-----------------------------------------------------------------------------
(* The game's accesses.                                                    *)

\* every access of the game leaves the CPU and the clock
LEMMA OnAccess ==
    ASSUME IInv, Access, exact' \in BOOLEAN, told' \in BOOLEAN, cpuIrq' \in 0..NoIrq,
           timer' \in Timers, live' \in Lives, Alike(timer', live'), timer'.last <= now,
           chip = "VRC6" => timer'.last = 0,
           exact' => Agree(RunUntil(timer', now), live', now) /\ Late(timer', live', now),
           told' => cpuIrq' <= Expiry(timer') /\ (timer'.pending => cpuIrq' <= now)
    PROVE  IInv'
<1>1. /\ Small /\ chip' = chip /\ now' = now /\ running' = running /\ running \in BOOLEAN
  BY DEF IInv, Access, Small
<1>2. Pair(timer', live', now')
  BY <1>1, TimerNow DEF Pair, Clock
<1>3. exact' => Follows(timer', live', now')
  BY <1>1 DEF Follows
<1> QED  BY <1>1, <1>2, <1>3, Kept

\* The mode of an FME-7: the IRQ is acknowledged, and due when the count is zero.
LEMMA OnFme7Mode == ASSUME IInv, WriteFme7Mode PROVE IInv'
<1>1. /\ Small /\ Access /\ chip = "FME7" /\ exact' = exact /\ exact \in BOOLEAN
  BY DEF WriteFme7Mode, IInv, Small
<1>2. PICK on \in BOOLEAN, irq \in BOOLEAN :
        /\ timer' = [Synced EXCEPT !.on = on, !.irq = irq, !.pending = FALSE]
        /\ Tell(timer')
        /\ live' = Noticed([live EXCEPT !.on = on, !.irq = irq, !.must = FALSE, !.may = FALSE])
  BY DEF WriteFme7Mode
<1>3. /\ timer' \in Timers /\ timer'.count = Synced.count /\ timer'.last = now
      /\ timer'.on = on /\ timer'.irq = irq /\ timer'.reload = Synced.reload
      /\ timer'.pending = FALSE
  BY <1>1, <1>2, TimerNow DEF Timers
<1> DEFINE c == [live EXCEPT !.on = on, !.irq = irq, !.must = FALSE, !.may = FALSE]
<1>4. /\ c \in Lives /\ c.count = live.count /\ c.on = on /\ c.irq = irq
      /\ c.reload = live.reload /\ c.must = FALSE /\ c.may = FALSE
  BY TimerNow DEF Lives
<1>5. live' = Noticed(c)
  BY <1>2
<1> HIDE DEF c
<1>6. /\ live' \in Lives /\ live'.count = live.count /\ live'.on = on /\ live'.irq = irq
      /\ live'.reload = live.reload /\ live'.must = FALSE
      /\ live'.may = (chip = "FME7" /\ on /\ irq /\ live.count = 0)
  BY <1>4, <1>5, NoticedFields
<1>7. Alike(timer', live')
  BY <1>3, <1>6, TimerNow DEF Alike
<1> DEFINE s == RunUntil(timer', now)
<1>8. /\ s.count = timer'.count
      /\ s.pending = (on /\ irq /\ timer'.count <= 0)
  <2> DEFINE r == RunFme7(timer', now)  k == timer'.count - (now - timer'.last)
  <2>1. /\ r.count = (IF on THEN k % Word ELSE timer'.count)
        /\ r.pending = (timer'.pending \/ (on /\ irq /\ k <= 0))
    BY <1>3, TimerNow, Fme7Fields
  <2>2. k = timer'.count /\ timer'.count \in 0..(Word - 1)
    BY <1>3, TimerNow, TimerFields
  <2>3. s = r
    BY <1>1 DEF RunUntil
  <2> HIDE DEF k, r, s
  <2>4. k % Word = timer'.count
    BY <2>2, Remainder
  <2> QED  BY <1>3, <2>1, <2>2, <2>3, <2>4
<1>9. ASSUME exact PROVE Agree(s, live', now)
  <2>1. timer'.count = live.count /\ timer'.count \in Nat
    BY <1>1, <1>3, <1>9, TimerNow, TimerFields DEF Agree
  <2>2. s.count = live'.count
    BY <1>6, <1>8, <2>1
  <2>3. s.pending => live'.may
    BY <1>1, <1>6, <1>8, <2>1
  <2> HIDE DEF s
  <2> QED  BY <1>1, <1>6, <2>2, <2>3 DEF Agree
<1>10. Late(timer', live', now)
  BY <1>6 DEF Late
<1>11. cpuIrq' = NextIrq(timer') /\ told' = TRUE
  BY <1>2 DEF Tell
<1>12. /\ cpuIrq' \in 0..NoIrq /\ cpuIrq' <= Expiry(timer')
       /\ timer'.pending => cpuIrq' <= now
  <2>1. now' = now /\ now \in Nat
    BY <1>1, TimerNow DEF Access
  <2> QED  BY <1>1, <1>3, <1>11, <2>1, Told
<1>13. timer'.last <= now
  BY <1>3, TimerNow
<1> QED  BY <1>1, <1>3, <1>6, <1>7, <1>9, <1>10, <1>11, <1>12, <1>13, OnAccess

\* The count of an FME-7: the CPU is not told.
LEMMA OnFme7Count == ASSUME IInv, WriteFme7Count PROVE IInv'
<1>1. /\ Small /\ Access /\ chip = "FME7" /\ exact' = exact /\ exact \in BOOLEAN
      /\ told' = FALSE /\ cpuIrq' = cpuIrq /\ cpuIrq \in 0..NoIrq
  BY DEF WriteFme7Count, IInv, Small
<1>2. PICK high \in BOOLEAN, b \in Bytes :
        /\ timer' = [Synced EXCEPT !.count = WithByte(@, high, b)]
        /\ live' = Noticed([live EXCEPT !.count = WithByte(@, high, b)])
  BY DEF WriteFme7Count
<1> DEFINE w == WithByte(Synced.count, high, b)  v == WithByte(live.count, high, b)
<1>3. w \in 0..(Word - 1) /\ v \in 0..(Word - 1)
  BY TimerNow, TimerFields, LiveFields, ByteWritten
<1>4. timer' = [Synced EXCEPT !.count = w] /\ live' = Noticed([live EXCEPT !.count = v])
  BY <1>2
<1>5. exact => w = v
  BY <1>1, TimerNow DEF Agree
<1> HIDE DEF w, v
<1>6. /\ timer' \in Timers /\ timer'.count = w /\ timer'.last = now
      /\ timer'.on = Synced.on /\ timer'.irq = Synced.irq /\ timer'.reload = Synced.reload
      /\ timer'.pending = Synced.pending
  BY <1>1, <1>3, <1>4, TimerNow DEF Timers
<1> DEFINE c == [live EXCEPT !.count = v]
<1>7. /\ c \in Lives /\ c.count = v /\ c.on = live.on /\ c.irq = live.irq
      /\ c.reload = live.reload /\ c.must = live.must /\ c.may = live.may
  BY <1>3, TimerNow, CountFields
<1>8. live' = Noticed(c)
  BY <1>4
<1> HIDE DEF c
<1>9. /\ live' \in Lives /\ live'.count = v /\ live'.on = live.on /\ live'.irq = live.irq
      /\ live'.reload = live.reload /\ live'.must = live.must
      /\ live'.may = (live.may \/ (chip = "FME7" /\ live.on /\ live.irq /\ v = 0))
  BY <1>7, <1>8, NoticedFields
<1>10. Alike(timer', live')
  BY <1>6, <1>9, TimerNow DEF Alike
<1> DEFINE s == RunUntil(timer', now)
<1>11. /\ s.count = w
       /\ s.pending = (timer'.pending \/ (timer'.on /\ timer'.irq /\ w <= 0))
  <2> DEFINE r == RunFme7(timer', now)  k == timer'.count - (now - timer'.last)
  <2>1. /\ r.count = (IF timer'.on THEN k % Word ELSE timer'.count)
        /\ r.pending = (timer'.pending \/ (timer'.on /\ timer'.irq /\ k <= 0))
    BY <1>6, TimerNow, Fme7Fields
  <2>2. k = w
    BY <1>3, <1>6, TimerNow
  <2>3. s = r
    BY <1>1 DEF RunUntil
  <2> HIDE DEF k, r, s
  <2>4. k % Word = w
    BY <1>3, <2>2, Remainder
  <2> QED  BY <1>6, <2>1, <2>2, <2>3, <2>4
<1>12. ASSUME exact PROVE Agree(s, live', now) /\ Late(timer', live', now)
  <2>1. (live.must => Synced.pending) /\ (Synced.pending => live.may)
    BY <1>12, TimerNow DEF Agree
  <2>2. s.count = live'.count
    BY <1>5, <1>9, <1>11, <1>12
  <2>3. live'.must => s.pending
    BY <1>6, <1>9, <1>11, <2>1
  <2>4. s.pending => live'.may
    <3>1. w <= 0 => v = 0
      BY <1>3, <1>5, <1>12
    <3>2. timer'.on = live.on /\ timer'.irq = live.irq
      BY <1>9, <1>10 DEF Alike
    <3> QED  BY <1>1, <1>6, <1>9, <1>11, <2>1, <3>1, <3>2
  <2>5. Late(timer', live', now)
    BY <1>6, <1>9, <2>1 DEF Late
  <2> HIDE DEF s
  <2> QED  BY <1>1, <2>2, <2>3, <2>4, <2>5 DEF Agree
<1>13. timer'.last <= now
  BY <1>6, TimerNow
<1> QED  BY <1>1, <1>6, <1>9, <1>10, <1>12, <1>13, OnAccess

\* The count of a Namco 106: `exact' records whether the timer was run.
LEMMA OnWriteNamco == ASSUME IInv, WriteNamco PROVE IInv'
<1>1. /\ Small /\ Access /\ chip = "Namco"
      /\ exact' = Agree(RunUntil(timer', now), live', now)
      /\ cpuIrq' = NextIrq(timer') /\ told' = TRUE
  BY DEF WriteNamco, IInv, Tell
<1>2. PICK high \in BOOLEAN, b \in Bytes :
        /\ timer' = [timer EXCEPT !.count = WithByte(@, high, b), !.pending = FALSE]
        /\ live' = [live EXCEPT !.count = WithByte(@, high, b), !.must = FALSE, !.may = FALSE]
  BY DEF WriteNamco
<1> DEFINE w == WithByte(timer.count, high, b)  v == WithByte(live.count, high, b)
<1>3. w \in 0..(Word - 1) /\ v \in 0..(Word - 1)
  BY TimerNow, TimerFields, LiveFields, ByteWritten
<1>4. /\ timer' = [timer EXCEPT !.count = w, !.pending = FALSE]
      /\ live' = [live EXCEPT !.count = v, !.must = FALSE, !.may = FALSE]
  BY <1>2
<1> HIDE DEF w, v
<1>5. /\ timer' \in Timers /\ timer'.last = timer.last /\ timer'.on = timer.on
      /\ timer'.irq = timer.irq /\ timer'.reload = timer.reload /\ timer'.pending = FALSE
  BY <1>3, <1>4, TimerNow DEF Timers
<1>6. /\ live' \in Lives /\ live'.on = live.on /\ live'.irq = live.irq
      /\ live'.reload = live.reload /\ live'.must = FALSE
  BY <1>3, <1>4, TimerNow DEF Lives
<1>7. Alike(timer', live') /\ timer'.last <= now
  BY <1>5, <1>6, TimerNow DEF Alike
<1>8. exact' \in BOOLEAN /\ told' \in BOOLEAN /\ chip # "VRC6"
  BY <1>1 DEF Agree
<1>9. Late(timer', live', now)
  BY <1>6 DEF Late
<1>10. /\ cpuIrq' \in 0..NoIrq /\ cpuIrq' <= Expiry(timer')
       /\ timer'.pending => cpuIrq' <= now
  <2>1. now' = now /\ now \in Nat
    BY <1>1, TimerNow DEF Access
  <2> QED  BY <1>1, <1>5, <2>1, Told
<1> QED  BY <1>1, <1>5, <1>6, <1>7, <1>8, <1>9, <1>10, OnAccess

\* Reading a Namco 106 acknowledges, and leaves the expiry.
LEMMA OnReadNamco == ASSUME IInv, ReadNamco PROVE IInv'
<1>1. /\ Small /\ Access /\ chip = "Namco" /\ running \in BOOLEAN /\ told \in BOOLEAN
      /\ exact' = Agree(RunUntil(timer', now), live', now)
      /\ cpuIrq' = cpuIrq /\ told' = told /\ cpuIrq \in 0..NoIrq /\ running
      /\ timer' = [timer EXCEPT !.pending = FALSE]
      /\ live' = [live EXCEPT !.must = FALSE, !.may = FALSE]
      /\ told => Warned
  BY DEF ReadNamco, IInv, Small, Access
<1>2. /\ timer' \in Timers /\ timer'.count = timer.count /\ timer'.last = timer.last
      /\ timer'.on = timer.on /\ timer'.irq = timer.irq /\ timer'.reload = timer.reload
      /\ timer'.pending = FALSE
  BY <1>1, TimerNow DEF Timers
<1>3. /\ live' \in Lives /\ live'.on = live.on /\ live'.irq = live.irq
      /\ live'.reload = live.reload /\ live'.must = FALSE
  BY <1>1, TimerNow DEF Lives
<1>4. Alike(timer', live') /\ timer'.last <= now
  BY <1>2, <1>3, TimerNow DEF Alike
<1>5. exact' \in BOOLEAN /\ chip # "VRC6"
  BY <1>1 DEF Agree
<1>6. Late(timer', live', now)
  BY <1>3 DEF Late
<1>7. Expiry(timer') = Expiry(timer)
  BY <1>2 DEF Expiry
<1>8. told' => cpuIrq' <= Expiry(timer') /\ (timer'.pending => cpuIrq' <= now)
  BY <1>1, <1>2, <1>7 DEF Warned
<1> QED  BY <1>1, <1>2, <1>3, <1>4, <1>5, <1>6, <1>8, OnAccess

\* The reload of a VRC6: the expiry stays.
LEMMA OnVrc6Reload == ASSUME IInv, WriteVrc6Reload PROVE IInv'
<1>1. /\ Small /\ Access /\ chip = "VRC6" /\ exact' = exact /\ exact \in BOOLEAN
      /\ cpuIrq' = NextIrq(timer') /\ told' = TRUE
  BY DEF WriteVrc6Reload, IInv, Small, Tell
<1>2. PICK d \in Delays :
        timer' = [Synced EXCEPT !.reload = d] /\ live' = [live EXCEPT !.reload = d]
  BY DEF WriteVrc6Reload
<1>3. /\ timer' \in Timers /\ timer'.count = Synced.count /\ timer'.last = 0
      /\ timer'.on = Synced.on /\ timer'.irq = Synced.irq /\ timer'.reload = d
      /\ timer'.pending = Synced.pending
  BY <1>1, <1>2, TimerNow DEF Timers
<1>4. /\ live' \in Lives /\ live'.count = live.count /\ live'.on = live.on
      /\ live'.irq = live.irq /\ live'.reload = d
      /\ live'.must = live.must /\ live'.may = live.may
  BY <1>2, TimerNow DEF Lives
<1>5. Alike(timer', live') /\ timer'.last <= now
  BY <1>3, <1>4, TimerNow DEF Alike
<1>6. RunUntil(timer', now) = timer'
  <2>1. ~timer'.on \/ timer'.count >= now
    BY <1>1, <1>3, TimerNow, TimerFields
  <2> QED  BY <1>1, <1>3, <2>1, TimerNow, Vrc6Fields DEF RunUntil
<1>7. ASSUME exact PROVE Agree(timer', live', now) /\ Late(timer', live', now)
  <2>1. Agree(Synced, live, now)
    BY <1>7, TimerNow
  <2> QED  BY <1>1, <1>3, <1>4, <2>1 DEF Agree, Late
<1>8. /\ cpuIrq' \in 0..NoIrq /\ cpuIrq' <= Expiry(timer')
      /\ timer'.pending => cpuIrq' <= now
  <2>1. now' = now /\ now \in Nat
    BY <1>1, TimerNow DEF Access
  <2> QED  BY <1>1, <1>3, <2>1, Told
<1> QED  BY <1>1, <1>3, <1>4, <1>5, <1>6, <1>7, <1>8, OnAccess

\* The mode of a VRC6: a new expiry if it is on.
LEMMA OnVrc6Mode == ASSUME IInv, WriteVrc6Mode PROVE IInv'
<1>1. /\ Small /\ Access /\ chip = "VRC6" /\ exact \in BOOLEAN
      /\ cpuIrq' = NextIrq(timer') /\ told' = TRUE
  BY DEF WriteVrc6Mode, IInv, Small, Tell
<1>2. PICK on \in BOOLEAN, irq \in BOOLEAN :
        /\ timer' = [Synced EXCEPT !.on = on, !.irq = irq, !.pending = FALSE,
                                   !.count = IF on THEN (now + timer.reload) % Word ELSE @]
        /\ live' = [live EXCEPT !.on = on, !.irq = irq, !.must = FALSE, !.may = FALSE,
                                !.count = IF on THEN live.reload ELSE @]
        /\ exact' = (exact \/ on)
  BY DEF WriteVrc6Mode
<1> DEFINE w == IF on THEN (now + timer.reload) % Word ELSE Synced.count
           v == IF on THEN live.reload ELSE live.count
<1>3. /\ timer.reload = live.reload /\ live.reload \in Nat /\ now \in Nat
      /\ now + timer.reload \in 0..(Word - 1) /\ live.reload \in 0..(Word - 1)
      /\ Synced.count \in 0..(Word - 1) /\ live.count \in 0..(Word - 1)
  BY TimerNow, TimerFields, LiveFields, ConstantTypes DEF Clock, Alike
<1>4. /\ w \in 0..(Word - 1) /\ v \in 0..(Word - 1)
      /\ on => w = now + live.reload /\ v = live.reload
  <2>1. (now + timer.reload) % Word = now + timer.reload
    BY <1>3, Remainder
  <2> QED  BY <1>3, <2>1
<1>5. /\ timer' = [Synced EXCEPT !.on = on, !.irq = irq, !.pending = FALSE, !.count = w]
      /\ live' = [live EXCEPT !.on = on, !.irq = irq, !.must = FALSE, !.may = FALSE, !.count = v]
  BY <1>2
<1> HIDE DEF w, v
<1>6. /\ timer' \in Timers /\ timer'.count = w /\ timer'.last = 0
      /\ timer'.on = on /\ timer'.irq = irq /\ timer'.reload = Synced.reload
      /\ timer'.pending = FALSE
  BY <1>1, <1>4, <1>5, TimerNow DEF Timers
<1>7. /\ live' \in Lives /\ live'.count = v /\ live'.on = on /\ live'.irq = irq
      /\ live'.reload = live.reload /\ live'.must = FALSE
  BY <1>4, <1>5, TimerNow DEF Lives
<1>8. Alike(timer', live') /\ timer'.last <= now
  BY <1>6, <1>7, TimerNow DEF Alike
<1>9. RunUntil(timer', now) = timer'
  <2>1. ~timer'.on \/ timer'.count >= now
    BY <1>3, <1>4, <1>6
  <2> QED  BY <1>1, <1>6, <2>1, TimerNow, Vrc6Fields DEF RunUntil
<1>10. Agree(timer', live', now) /\ Late(timer', live', now)
  <2>1. timer'.on => timer'.count - now = live'.count
    BY <1>3, <1>4, <1>6, <1>7
  <2> QED  BY <1>1, <1>6, <1>7, <2>1 DEF Agree, Late
<1>11. exact' \in BOOLEAN
  BY <1>1, <1>2
<1>12. /\ cpuIrq' \in 0..NoIrq /\ cpuIrq' <= Expiry(timer')
       /\ timer'.pending => cpuIrq' <= now
  <2>1. now' = now /\ now \in Nat
    BY <1>1, TimerNow DEF Access
  <2> QED  BY <1>1, <1>6, <2>1, Told
<1> QED  BY <1>1, <1>6, <1>7, <1>8, <1>9, <1>10, <1>11, <1>12, OnAccess

\* Acknowledging a VRC6, which may turn it on with an old expiry.
LEMMA OnVrc6Ack == ASSUME IInv, WriteVrc6Ack PROVE IInv'
<1>1. /\ Small /\ Access /\ chip = "VRC6" /\ exact \in BOOLEAN
      /\ timer' = [Synced EXCEPT !.on = timer.irq, !.pending = FALSE]
      /\ live' = [live EXCEPT !.on = live.irq, !.must = FALSE, !.may = FALSE]
      /\ exact' = (exact /\ (timer.irq => timer.on))
      /\ cpuIrq' = NextIrq(timer') /\ told' = TRUE
  BY DEF WriteVrc6Ack, IInv, Small, Tell
<1>2. timer.irq \in BOOLEAN /\ live.irq \in BOOLEAN /\ timer.irq = live.irq
  BY TimerNow, TimerFields, LiveFields DEF Alike
<1>3. /\ timer' \in Timers /\ timer'.count = Synced.count /\ timer'.last = 0
      /\ timer'.on = timer.irq /\ timer'.irq = Synced.irq /\ timer'.reload = Synced.reload
      /\ timer'.pending = FALSE
  BY <1>1, <1>2, TimerNow DEF Timers
<1>4. /\ live' \in Lives /\ live'.count = live.count /\ live'.on = live.irq
      /\ live'.irq = live.irq /\ live'.reload = live.reload /\ live'.must = FALSE
  BY <1>1, <1>2, TimerNow DEF Lives
<1>5. Alike(timer', live') /\ timer'.last <= now
  BY <1>2, <1>3, <1>4, TimerNow DEF Alike
<1>6. ASSUME exact' PROVE /\ RunUntil(timer', now) = timer'
                          /\ Agree(timer', live', now) /\ Late(timer', live', now)
  <2>1. exact /\ (timer.irq => timer.on)
    BY <1>1, <1>6
  <2>2. ~timer'.on \/ timer'.count >= now
    BY <1>1, <1>2, <1>3, <2>1, TimerNow, TimerFields
  <2>3. RunUntil(timer', now) = timer'
    <3>1. RunUntil(timer', now) = RunVrc6(timer', now)
      BY <1>1 DEF RunUntil
    <3> QED  BY <1>3, <2>2, <3>1, TimerNow, Vrc6Fields
  <2>4. timer'.on => timer'.count - now = live'.count
    BY <1>1, <1>2, <1>3, <1>4, <2>1, TimerNow DEF Agree
  <2> QED  BY <1>1, <1>3, <1>4, <2>3, <2>4 DEF Agree, Late
<1>7. exact' \in BOOLEAN
  BY <1>1
<1>8. /\ cpuIrq' \in 0..NoIrq /\ cpuIrq' <= Expiry(timer')
      /\ timer'.pending => cpuIrq' <= now
  <2>1. now' = now /\ now \in Nat
    BY <1>1, TimerNow DEF Access
  <2> QED  BY <1>1, <1>3, <2>1, Told
<1> QED  BY <1>1, <1>3, <1>4, <1>5, <1>6, <1>7, <1>8, OnAccess

\* $2001: the timer is run, and the CPU told.
LEMMA OnMask == ASSUME IInv, WriteMask PROVE IInv'
<1>1. /\ Small /\ Access /\ exact' = exact /\ exact \in BOOLEAN /\ live' = live
      /\ timer' = Synced /\ cpuIrq' = NextIrq(timer') /\ told' = TRUE
  BY DEF WriteMask, IInv, Small, Tell
<1>2. Alike(timer', live') /\ timer'.last <= now /\ (chip = "VRC6" => timer'.last = 0)
  BY <1>1, TimerNow DEF Alike
<1>3. exact => Agree(RunUntil(timer', now), live', now) /\ Late(timer', live', now)
  BY <1>1, TimerNow DEF Agree, Late
<1>4. /\ cpuIrq' \in 0..NoIrq /\ cpuIrq' <= Expiry(timer')
      /\ timer'.pending => cpuIrq' <= now
  <2>1. now' = now /\ now \in Nat
    BY <1>1, TimerNow DEF Access
  <2> QED  BY <1>1, <2>1, TimerNow, Told
<1> QED  BY <1>1, <1>2, <1>3, <1>4, TimerNow, OnAccess

\* The CPU is told again.
LEMMA OnPoll == ASSUME IInv, Poll PROVE IInv'
<1>1. /\ Small /\ Access /\ exact' = exact /\ exact \in BOOLEAN /\ live' = live
      /\ timer' = timer /\ cpuIrq' = NextIrq(timer') /\ told' = TRUE
      /\ exact => Follows(timer, live, now)
  BY DEF Poll, IInv, Small, Tell
<1>2. exact => Agree(RunUntil(timer', now), live', now) /\ Late(timer', live', now)
  BY <1>1 DEF Follows
<1>3. /\ cpuIrq' \in 0..NoIrq /\ cpuIrq' <= Expiry(timer')
      /\ timer'.pending => cpuIrq' <= now
  <2>1. now' = now /\ now \in Nat
    BY <1>1, TimerNow DEF Access
  <2> QED  BY <1>1, <2>1, TimerNow, Told
<1>4. chip = "VRC6" => timer.last = 0
  BY <1>1 DEF Small
<1> QED  BY <1>1, <1>2, <1>3, <1>4, TimerNow, OnAccess

-----------------------------------------------------------------------------
(* The CPU, and the ends of frames.                                        *)

\* One cycle, of which the mapper is told nothing.
LEMMA OnExecute == ASSUME IInv, Execute PROVE IInv'
<1>1. /\ Small /\ Pair(timer, live, now) /\ (exact => Follows(timer, live, now))
      /\ running /\ (told => Warned) /\ now < FrameLen + Overshoot
      /\ now' = now + 1 /\ live' = Cycle(live) /\ chip' = chip /\ timer' = timer
      /\ cpuIrq' = cpuIrq /\ running' = running /\ exact' = exact /\ told' = told
  BY DEF Execute, IInv
<1>2. chip \in Chips /\ now \in Nat
  BY TimerNow
<1>3. Pair(timer, live', now')
  <2>1. Pair(timer, live, now + 1)
    BY <1>1, <1>2, TimerNow, TimerFields, ConstantTypes DEF Pair
  <2> QED  BY <1>1, <1>2, <2>1, CycleAlike DEF Pair
<1>4. exact => Follows(timer, live', now')
  BY <1>1, <1>2, FollowsCycle
<1>5. told' => cpuIrq' <= Expiry(timer') /\ (timer'.pending => cpuIrq' <= now')
  <2>1. cpuIrq \in Nat
    BY <1>1, ConstantTypes DEF Small, NoIrq
  <2> QED  BY <1>1, <1>2, <2>1 DEF Warned
<1>6. /\ cpuIrq' \in 0..NoIrq /\ running' \in BOOLEAN /\ exact' \in BOOLEAN
      /\ told' \in BOOLEAN /\ (chip = "VRC6" => timer'.last = 0)
  BY <1>1 DEF Small
<1> QED  BY <1>1, <1>3, <1>4, <1>5, <1>6, Kept

\* what Cycles keeps whether the timer follows or not
LEMMA CyclesAlike ==
    ASSUME NEW m, NEW c, NEW t, Pair(m, c, t), chip \in Chips, NEW n \in Nat
    PROVE  Pair(m, Cycles(c, n), t)
<1> DEFINE h == After(c, n)
           S == {k \in Nat : k <= n => Pair(m, h[k], t)}
<1>1. \A k \in 0..n : h[k] = IF k = 0 THEN c ELSE Cycle(h[k - 1])
  BY AfterFunction
<1>2. 0 \in S
  BY <1>1
<1>3. ASSUME NEW k \in Nat, k \in S PROVE k + 1 \in S
  <2> SUFFICES ASSUME k + 1 <= n PROVE Pair(m, h[k + 1], t)
    OBVIOUS
  <2>1. Pair(m, h[k], t)
    BY <1>3
  <2>2. h[k + 1] = Cycle(h[k])
    <3>1. k + 1 \in 0..n /\ k + 1 # 0 /\ (k + 1) - 1 = k
      OBVIOUS
    <3> HIDE DEF h
    <3> QED  BY <3>1, <1>1
  <2> HIDE DEF h
  <2>3. Cycle(h[k]) \in Lives /\ Alike(m, Cycle(h[k]))
    BY <2>1, CycleAlike
  <2> QED  BY <2>1, <2>2, <2>3 DEF Pair
<1>4. Nat \subseteq S
  <2> HIDE DEF S
  <2> QED  BY <1>2, <1>3, Induction
<1>5. Pair(m, h[n], t)
  BY <1>4
<1>6. Cycles(c, n) = h[n]
  BY DEF Cycles, After
<1> QED  BY <1>5, <1>6

\* The IRQ is taken: the timer is run, and the CPU told before.
LEMMA OnTake == ASSUME IInv, Take PROVE IInv'
<1>1. /\ Small /\ running /\ now >= NextIrq(timer)
      /\ now + Vector <= FrameLen + Overshoot /\ cpuIrq' = NextIrq(timer) /\ told' = TRUE
      /\ timer' = Synced /\ now' = now + Vector /\ live' = Cycles(live, Vector)
      /\ chip' = chip /\ running' = running /\ exact' = exact
  BY DEF Take, IInv, Tell
<1>2. /\ chip \in Chips /\ now \in Nat /\ now \in Clock /\ timer \in Timers
      /\ Synced \in Timers /\ Vector \in Nat /\ Vector >= 1
      /\ Synced.last <= now /\ (chip = "VRC6" => Synced.last = 0)
  BY TimerNow, ConstantTypes
<1>3. Pair(Synced, live, now)
  BY <1>2, TimerNow DEF Pair, Alike, Clock
<1>4. Pair(timer', live', now')
  <2>1. Pair(Synced, live, now + Vector)
    BY <1>1, <1>2, <1>3, TimerFields DEF Pair
  <2> QED  BY <1>1, <1>2, <2>1, CyclesAlike
<1>5. ASSUME exact PROVE Follows(timer', live', now')
  <2>1. Follows(Synced, live, now)
    BY <1>5, TimerNow DEF Follows, Agree, Late
  <2> QED  BY <1>1, <1>2, <1>3, <2>1, FollowsCycles
<1>6. NextIrq(timer) \in 0..NoIrq /\ NoIrq \in Nat
  BY <1>2, NextIrqIs, ConstantTypes DEF NoIrq
<1>7. Expiry(timer') \in 0..NoIrq /\ now < Expiry(timer')
  <2>1. Expiry(Synced) \in 0..NoIrq /\ now < Expiry(Synced)
    BY TimerNow, ExpiryLater
  <2> QED  BY <1>1, <2>1
<1>8. cpuIrq' \in 0..NoIrq /\ cpuIrq' <= Expiry(timer') /\ cpuIrq' <= now'
  BY <1>1, <1>2, <1>6, <1>7
<1>9. /\ running' \in BOOLEAN /\ exact' \in BOOLEAN /\ told' \in BOOLEAN
      /\ (chip = "VRC6" => timer'.last = 0)
  BY <1>1, <1>2 DEF Small
<1> QED  BY <1>1, <1>4, <1>5, <1>8, <1>9, Kept

\* The first poll of a frame.
LEMMA OnBeginFrame == ASSUME IInv, BeginFrame PROVE IInv'
<1>1. /\ Small /\ Pair(timer, live, now) /\ (exact => Follows(timer, live, now))
      /\ running' = TRUE /\ cpuIrq' = NextIrq(timer) /\ told' = TRUE
      /\ chip' = chip /\ now' = now /\ timer' = timer /\ live' = live /\ exact' = exact
  BY DEF BeginFrame, IInv, Tell
<1>2. /\ cpuIrq' \in 0..NoIrq /\ cpuIrq' <= Expiry(timer')
      /\ timer'.pending => cpuIrq' <= now'
  <2>1. timer' \in Timers /\ now' \in Nat /\ cpuIrq' = NextIrq(timer')
    BY <1>1, TimerNow
  <2> QED  BY <1>1, <2>1, Told
<1>3. /\ running' \in BOOLEAN /\ exact' \in BOOLEAN /\ told' \in BOOLEAN
      /\ (chip = "VRC6" => timer'.last = 0)
  BY <1>1 DEF Small
<1> QED  BY <1>1, <1>2, <1>3, Kept

\* The timer told that the frame is over is one that follows at time 0.
LEMMA EndedFollows ==
    ASSUME IInv
    PROVE  /\ Ended(timer) \in Timers /\ Alike(Ended(timer), live) /\ Ended(timer).last = 0
           /\ exact => Follows(Ended(timer), live, 0)
<1> DEFINE m == Ended(timer)
<1>0. /\ now \in Nat /\ now < Word /\ now \in 0..(FrameLen + Overshoot) /\ 0 \in Clock
      /\ chip \in Chips
  BY TimerNow, TimerFields, ConstantTypes DEF Clock
<1>1. CASE chip = "VRC6"
  <2> DEFINE w == (Synced.count - now) % Word
  <2>1. Synced.count \in 0..(Word - 1) /\ Synced.on \in BOOLEAN
    BY TimerNow, TimerFields
  <2>2. w \in 0..(Word - 1) /\ (now <= Synced.count => w = Synced.count - now)
    <3> DEFINE x == Synced.count - now
    <3>1. x \in Int /\ (now <= Synced.count => x \in 0..(Word - 1))
      BY <1>0, <2>1, ConstantTypes
    <3> HIDE DEF x
    <3>2. x % Word \in 0..(Word - 1) /\ (now <= Synced.count => x % Word = x)
      BY <3>1, Remainder
    <3> QED  BY <3>2 DEF x
  <2>3. m = [Synced EXCEPT !.count = w]
    BY <1>1 DEF Ended, Synced
  <2> HIDE DEF m, w
  <2>4. /\ m \in Timers /\ m.count = w /\ m.last = 0 /\ m.on = Synced.on
        /\ m.irq = Synced.irq /\ m.reload = Synced.reload /\ m.pending = Synced.pending
    BY <1>1, <2>2, <2>3, TimerNow DEF Timers
  <2>5. RunUntil(m, 0) = m
    <3>1. m.count >= 0
      BY <2>2, <2>4
    <3>2. RunUntil(m, 0) = RunVrc6(m, 0)
      BY <1>1 DEF RunUntil
    <3> QED  BY <1>0, <2>4, <3>1, <3>2, Vrc6Fields
  <2>6. ASSUME exact PROVE Follows(m, live, 0)
    <3>1. Agree(Synced, live, now)
      BY <2>6, TimerNow
    <3>2. m.on => m.count - 0 = live.count
      BY <1>0, <1>1, <2>1, <2>2, <2>4, <3>1, TimerNow DEF Agree
    <3>3. Agree(m, live, 0) /\ Late(m, live, 0)
      BY <1>1, <2>4, <3>1, <3>2 DEF Agree, Late
    <3> QED  BY <2>5, <3>3 DEF Follows
  <2>7. Alike(m, live)
    BY <2>4, TimerNow DEF Alike
  <2> QED  BY <2>4, <2>6, <2>7 DEF m
<1>2. CASE chip # "VRC6"
  <2>1. m = [Synced EXCEPT !.last = Synced.last - now] /\ Synced.last - now = 0
    BY <1>0, <1>2, TimerNow DEF Ended, Synced
  <2>2. m = [Synced EXCEPT !.last = 0]
    BY <2>1
  <2> HIDE DEF m
  <2>3. /\ m \in Timers /\ m.count = Synced.count /\ m.last = 0 /\ m.on = Synced.on
        /\ m.irq = Synced.irq /\ m.reload = Synced.reload /\ m.pending = Synced.pending
    BY <1>0, <2>2, TimerNow DEF Timers
  <2> DEFINE r == RunUntil(m, 0)  s == RunUntil(Synced, now)
  <2>4. r.count = s.count /\ r.pending = s.pending
    <3>1. CASE chip = "FME7"
      <4>1. r = RunFme7(m, 0) /\ s = RunFme7(Synced, now)
        BY <3>1 DEF RunUntil
      <4>2. m.count - (0 - m.last) = Synced.count - (now - Synced.last)
        BY <1>0, <1>2, <2>3, TimerNow, TimerFields
      <4> HIDE DEF r, s
      <4> QED  BY <1>0, <2>3, <4>1, <4>2, TimerNow, Fme7Fields
    <3>2. CASE chip = "Namco"
      <4>1. r = RunNamco(m, 0) /\ s = RunNamco(Synced, now)
        BY <3>2 DEF RunUntil
      <4>2. m.count + (0 - m.last) = Synced.count + (now - Synced.last)
        BY <1>0, <1>2, <2>3, TimerNow, TimerFields
      <4>3. Top(m) = Top(Synced)
        BY <2>3 DEF Top
      <4>4. m.last <= 0 /\ Synced.last <= now
        BY <1>0, <1>2, <2>3, TimerNow
      <4> HIDE DEF r, s
      <4> QED  BY <1>0, <2>3, <4>1, <4>2, <4>3, <4>4, TimerNow, NamcoFields
    <3> QED  BY <1>0, <1>2, <3>1, <3>2, Known
  <2>5. s = Synced
    BY TimerNow
  <2> HIDE DEF r, s
  <2>6. ASSUME exact PROVE Agree(r, live, 0) /\ Late(m, live, 0)
    <3>1. Agree(Synced, live, now)
      BY <2>6, TimerNow
    <3> QED  BY <1>2, <2>3, <2>4, <2>5, <3>1 DEF Agree, Late
  <2>7. Alike(m, live)
    BY <2>3, TimerNow DEF Alike
  <2> QED  BY <2>3, <2>6, <2>7 DEF m, r, Follows
<1> QED  BY <1>1, <1>2

\* The end of a frame: both timers count what was left over, again.
LEMMA OnEndFrame == ASSUME IInv, EndFrame PROVE IInv'
<1>1. /\ Small /\ running' = FALSE /\ now >= FrameLen /\ now' = now - FrameLen
      /\ timer' = Ended(timer) /\ live' = Cycles(live, now')
      /\ chip' = chip /\ cpuIrq' = cpuIrq /\ exact' = exact /\ told' = told
  BY DEF EndFrame, IInv
<1>2. /\ now' \in Nat /\ now' <= FrameLen + Overshoot /\ 0 + now' = now' /\ chip \in Chips
  BY <1>1, TimerNow, ConstantTypes DEF Clock
<1>3. Pair(timer', live, 0)
  BY <1>1, EndedFollows, TimerNow, ConstantTypes DEF Pair
<1>4. Pair(timer', live', now')
  <2>1. Pair(timer', live, now')
    BY <1>1, <1>2, <1>3, EndedFollows DEF Pair
  <2> QED  BY <1>1, <1>2, <2>1, CyclesAlike
<1>5. ASSUME exact PROVE Follows(timer', live', now')
  <2>1. Follows(timer', live, 0)
    BY <1>1, <1>5, EndedFollows
  <2> QED  BY <1>1, <1>2, <1>3, <2>1, FollowsCycles
<1>6. /\ cpuIrq' \in 0..NoIrq /\ running' \in BOOLEAN /\ exact' \in BOOLEAN
      /\ told' \in BOOLEAN /\ (chip = "VRC6" => timer'.last = 0)
  BY <1>1, EndedFollows DEF Small
<1> QED  BY <1>1, <1>4, <1>5, <1>6, Kept

\* The invariant holds at reset.
LEMMA InvInit == Init => IInv
<1> SUFFICES ASSUME Init PROVE IInv
  OBVIOUS
<1>1. PICK d \in Delays :
        timer = [count |-> IF chip = "FME7" THEN Word - 1 ELSE 0, last |-> 0,
                 on |-> FALSE, irq |-> FALSE, reload |-> d, pending |-> FALSE]
  BY DEF Init
<1>2. /\ chip \in Chips /\ now = 0 /\ cpuIrq = NoIrq /\ running = FALSE /\ exact = TRUE
      /\ told = TRUE
      /\ live = [count |-> timer.count, on |-> FALSE, irq |-> FALSE,
                 reload |-> timer.reload, must |-> FALSE, may |-> FALSE]
  BY DEF Init
<1>3. /\ timer.count = IF chip = "FME7" THEN Word - 1 ELSE 0
      /\ timer.count \in 0..(Word - 1)
      /\ timer.last = 0 /\ timer.on = FALSE /\ timer.irq = FALSE /\ timer.reload = d
      /\ timer.pending = FALSE
  BY <1>1, ConstantTypes
<1>4. timer \in Timers /\ 0 \in Clock
  BY <1>1, <1>3, ConstantTypes DEF Timers, Clock
<1>5. live \in Lives /\ Alike(timer, live)
  BY <1>2, <1>3 DEF Lives, Alike
<1>6. Pair(timer, live, now)
  BY <1>2, <1>3, <1>4, <1>5, ConstantTypes DEF Pair
<1> DEFINE r == RunUntil(timer, 0)
<1>7. chip # "VRC6" => r.count = timer.count /\ r.pending = FALSE
  <2>1. CASE chip = "FME7"
    <3> DEFINE k == timer.count - (0 - timer.last)
    <3>1. r.count = (IF timer.on THEN k % Word ELSE timer.count)
          /\ r.pending = (timer.pending \/ (timer.on /\ timer.irq /\ k <= 0))
      BY <2>1, <1>4, Fme7Fields DEF RunUntil
    <3> HIDE DEF r, k
    <3> QED  BY <1>3, <3>1
  <2>2. CASE chip = "Namco"
    <3> DEFINE k == timer.count + (0 - timer.last)
    <3>1. r.count = (IF k > Top(timer) THEN Top(timer) ELSE k)
          /\ r.pending = (timer.pending \/ (timer.count >= Word \div 2 /\ k > Top(timer)))
      BY <2>2, <1>3, <1>4, NamcoFields DEF RunUntil
    <3>2. k = 0 /\ timer.count = 0
      BY <2>2, <1>3
    <3> HIDE DEF r, k
    <3>3. ~ (0 > Top(timer)) /\ ~ (0 >= Word \div 2)
      BY HalfWord, ConstantTypes, <3>2 DEF Top
    <3> QED  BY <1>3, <3>1, <3>2, <3>3
  <2> QED  BY <1>2, <2>1, <2>2, Known
<1>8. chip = "VRC6" => r.pending = FALSE
  BY <1>3, <1>4, Vrc6Fields DEF RunUntil
<1> HIDE DEF r
<1>9. Agree(r, live, now) /\ Late(timer, live, now)
  <2>1. live.count = timer.count /\ live.must = FALSE /\ live.may = FALSE
    BY <1>2
  <2>2. CASE chip = "VRC6"
    <3>1. r.on = FALSE
      BY <2>2, <1>3, <1>4, Vrc6Fields DEF RunUntil, r
    <3> QED  BY <1>8, <2>1, <2>2, <3>1 DEF Agree, Late
  <2>3. CASE chip # "VRC6"
    BY <1>7, <2>1, <2>3 DEF Agree, Late
  <2> QED  BY <2>2, <2>3
<1>10. Small
  <2>1. NoIrq \in Nat /\ cpuIrq \in 0..NoIrq
    BY <1>2, ConstantTypes DEF NoIrq
  <2> QED  BY <1>2, <1>3, <2>1 DEF Small
<1> QED  BY <1>2, <1>6, <1>9, <1>10 DEF IInv, Follows, r

\* Every step keeps the invariant.
LEMMA InvStep == IInv /\ [Next]_vars => IInv'
<1> SUFFICES ASSUME IInv, [Next]_vars PROVE IInv'
  OBVIOUS
<1>1. CASE Next
  BY <1>1, OnFme7Mode, OnFme7Count, OnWriteNamco, OnReadNamco, OnVrc6Reload, OnVrc6Mode,
     OnVrc6Ack, OnMask, OnExecute, OnPoll, OnTake, OnEndFrame, OnBeginFrame DEF Next
<1>2. CASE UNCHANGED vars
  <2>1. /\ Small /\ Pair(timer, live, now) /\ (exact => Follows(timer, live, now))
        /\ (running /\ told => Warned)
        /\ chip' = chip /\ now' = now /\ timer' = timer /\ cpuIrq' = cpuIrq
        /\ running' = running /\ live' = live /\ exact' = exact /\ told' = told
    BY <1>2 DEF IInv, vars
  <2>2. running' /\ told' => cpuIrq' <= Expiry(timer') /\ (timer'.pending => cpuIrq' <= now')
    BY <2>1 DEF Warned
  <2> QED  BY <2>1, <2>2, Kept DEF Small
<1> QED  BY <1>1, <1>2

\* The inductive invariant holds.
THEOREM InvHolds == Spec => []IInv
<1> QED  BY InvInit, InvStep, PTL DEF Spec

\* The registers of the timers, the clock and the IRQ time stay in range.
THEOREM TypeCorrect == Spec => []TypeOK
<1>1. IInv => TypeOK
  <2> SUFFICES ASSUME IInv PROVE TypeOK
    OBVIOUS
  <2>1. /\ chip \in Chips /\ now \in Clock /\ cpuIrq \in 0..NoIrq
        /\ running \in BOOLEAN /\ exact \in BOOLEAN /\ told \in BOOLEAN
    BY TimerNow DEF IInv, Small
  <2>2. /\ timer.count \in 0..(Word - 1) /\ timer.last \in Clock /\ timer.reload \in Delays
        /\ timer.on \in BOOLEAN /\ timer.irq \in BOOLEAN /\ timer.pending \in BOOLEAN
    BY TimerNow, TimerFields
  <2>3. live.count \in 0..(Word - 1) /\ live.must \in BOOLEAN /\ live.may \in BOOLEAN
    BY TimerNow, LiveFields
  <2> QED  BY <2>1, <2>2, <2>3 DEF TypeOK, Clock
<1> QED  BY <1>1, InvHolds, PTL

\* Run whenever the game likes, or not at all for a frame, a timer has what
\* counting every cycle gives: the arithmetic of run_until, of the writes that
\* run it first and of end_frame.  Only where an access ignored that the timer
\* was behind (`exact') is nothing said.
THEOREM TimerRight == Spec => []TimerExact
<1>1. IInv => TimerExact
  BY TimerNow DEF TimerExact
<1> QED  BY <1>1, InvHolds, PTL

\* The IRQ time the CPU was told is never after the cycle in which the timer
\* raises its IRQ: next_irq, and every place that calls irq_changed.
THEOREM ToldInTime == Spec => []TimerToldInTime
<1>1. IInv => TimerToldInTime
  <2> SUFFICES ASSUME IInv, running, exact, told,
                      NEW k \in 0..(FrameLen + Overshoot - now), Cycles(live, k).must
               PROVE  cpuIrq <= now + k
    BY DEF TimerToldInTime
  <2>1. /\ Pair(timer, live, now) /\ Follows(timer, live, now) /\ Warned
        /\ cpuIrq \in 0..NoIrq /\ chip \in Chips
    BY DEF IInv, Small
  <2>2. now \in Nat /\ now <= FrameLen + Overshoot /\ k \in Nat
        /\ now + k <= FrameLen + Overshoot
    BY TimerNow, ConstantTypes DEF Clock
  <2>3. Follows(timer, Cycles(live, k), now + k)
    BY <2>1, <2>2, FollowsCycles
  <2>4. timer.pending \/ Expiry(timer) <= now + k
    BY <2>3 DEF Follows, Late
  <2>5. Expiry(timer) \in 0..NoIrq /\ cpuIrq \in Int /\ NoIrq \in Nat
    BY <2>1, TimerNow, NextIrqIs, ConstantTypes DEF NoIrq
  <2> QED  BY <2>1, <2>2, <2>4, <2>5 DEF Warned
<1> QED  BY <1>1, InvHolds, PTL
=============================================================================
