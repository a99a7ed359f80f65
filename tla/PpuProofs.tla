------------------------------ MODULE PpuProofs ------------------------------
(***************************************************************************)
(* The PPU's two halves: its address registers and the lines rendered late *)
(* from them (PpuScroll), then its memory and tile cache (PpuMemory), each *)
(* for every size their assumptions allow.                                 *)
(*                                                                         *)
(* The heart of the first is one relation, Good: the lazy state is behind  *)
(* the PPU that counts on time by exactly the loads, lines and blanks that *)
(* are due, so catching up (CatchesUp) leaves the address of that PPU and  *)
(* draws each line from the address it began with.  A clock that passes    *)
(* keeps it (ClockIs), an access catches up first (Accessed).              *)
(*                                                                         *)
(* In the second CacheCurrent is inductive once the types are known: a     *)
(* page that differs from its decoded tiles is marked, and the flag that   *)
(* update_tiles asks for first is up.                                      *)
(***************************************************************************)
EXTENDS MCPpuScroll, PpuMemory, WellFoundedInduction, TLAPS

-----------------------------------------------------------------------------
(* Induction on the naturals                                               *)

\* A set of numbers that is not empty has a smallest one.
LEMMA Least ==
    ASSUME NEW T, T \subseteq Nat, T # {}
    PROVE  \E x \in T : \A y \in T : x <= y
<1>1. \E R : IsWellFoundedOn(R, Nat) /\ \A x, y \in Nat : <<x, y>> \in R <=> x < y
  <2>1. IsWellFoundedOn(OpToRel(<, Nat), Nat)
    BY NatLessThanWellFounded
  <2>2. \A x, y \in Nat : <<x, y>> \in OpToRel(<, Nat) <=> x < y
    BY DEF OpToRel
  <2> QED  BY <2>1, <2>2, Zenon
<1>2. PICK R : IsWellFoundedOn(R, Nat) /\ \A x, y \in Nat : <<x, y>> \in R <=> x < y
  BY <1>1
<1>3. PICK x \in T : \A y \in T : ~ (<<y, x>> \in R)
  <2>1. IsWellFoundedOn(R, Nat)
    BY <1>2
  <2> QED  BY <2>1, WFMin, Zenon
<1>4. \A y \in T : ~ (y < x)
  BY <1>2, <1>3
<1> QED  BY <1>4

\* Course-of-values induction.
LEMMA Induction ==
    ASSUME NEW S, \A n \in Nat : (\A m \in Nat : m < n => m \in S) => n \in S
    PROVE  Nat \subseteq S
<1> SUFFICES ASSUME Nat \ S # {} PROVE FALSE  OBVIOUS
<1>1. PICK x \in Nat \ S : \A y \in Nat \ S : x <= y
  BY Least
<1>2. \A m \in Nat : m < x => m \in S
  BY <1>1
<1> QED  BY <1>1, <1>2

-----------------------------------------------------------------------------
(* Quotients                                                               *)

\* A number taken apart.
LEMMA Division ==
    ASSUME NEW x \in Int, NEW m \in Nat, m > 0
    PROVE  x \div m \in Int /\ x % m \in 0..(m - 1) /\ x = (x \div m) * m + (x % m)
<1>1. x \div m \in Int /\ x % m \in 0..(m - 1)
  OBVIOUS
<1>2. x = m * (x \div m) + (x % m)
  OBVIOUS
<1>3. m * (x \div m) = (x \div m) * m
  <2> DEFINE u == x \div m
  <2>1. u \in Int  BY <1>1
  <2> HIDE DEF u
  <2>2. m * u = u * m  BY <2>1
  <2> QED  BY <2>2 DEF u
<1> QED  BY <1>1, <1>2, <1>3

\* A number put together has its parts.
LEMMA Divided ==
    ASSUME NEW m \in Nat, m > 0, NEW q \in Int, NEW r \in 0..(m - 1),
           NEW z, z = q * m + r
    PROVE  z \div m = q /\ z % m = r
<1> DEFINE u == z \div m  v == z % m
<1>1. z \in Int /\ q * m \in Int
  OBVIOUS
<1>2. u \in Int /\ v \in 0..(m - 1) /\ z = u * m + v
  BY <1>1, Division
<1>3. z = q * m + r
  OBVIOUS
<1> SUFFICES u = q /\ v = r
  OBVIOUS
<1> HIDE DEF u, v
<1> DEFINE e == q - u
<1>4. e \in Int /\ q = e + u
  BY <1>2
<1>5. q * m = e * m + u * m /\ e * m \in Int
  <2> HIDE DEF e
  <2>1. (e + u) * m = e * m + u * m
    BY <1>2, <1>4
  <2> QED  BY <1>4, <2>1
<1> HIDE DEF e
<1>6. e * m + r = v
  BY <1>1, <1>2, <1>3, <1>5
<1>7. e >= 1 => e * m >= m
  BY <1>4
<1>8. e <= -1 => e * m <= -m
  BY <1>4
<1>9. e = 0 => e * m = 0
  BY <1>4
<1> QED  BY <1>2, <1>4, <1>5, <1>6, <1>7, <1>8, <1>9

-----------------------------------------------------------------------------
(* Addresses                                                               *)

\* What the assumptions say of the sizes.
LEMMA Sizes ==
    /\ Cols \in Nat /\ Cols > 0 /\ Rows \in Nat /\ Rows > 0 /\ Fine \in Nat /\ Fine > 0
    /\ Visible \in 1..(Rows - 1)
    /\ Nt \in Nat /\ Nt > 0 /\ Nt = Rows * Cols /\ 2 * Nt \in Nat /\ Row = 4 * Nt
    /\ Row \in Nat /\ Row > 0 /\ AddrSize \in Nat /\ AddrSize = Fine * Row /\ AddrSize >= Row
<1>1. /\ Cols \in Nat /\ Cols > 0 /\ Rows \in Nat /\ Rows > 0 /\ Fine \in Nat /\ Fine > 0
      /\ Visible \in 1..(Rows - 1)
  BY SizeAssumption
<1>2. Nt \in Nat /\ Nt > 0 /\ Nt = Rows * Cols
  BY <1>1 DEF Nt
<1>3. Row \in Nat /\ Row > 0 /\ Row = 4 * Nt
  BY <1>2 DEF Row
<1>4. AddrSize \in Nat /\ AddrSize = Fine * Row /\ AddrSize >= Row
  <2>1. Fine * Row >= Row /\ Fine * Row \in Nat
    BY <1>1, <1>3
  <2> QED  BY <2>1 DEF AddrSize
<1> QED  BY <1>1, <1>2, <1>3, <1>4

\* The place of an address below its fine y.
LEMMA BelowFine ==
    ASSUME NEW v \in 0..1, NEW h \in 0..1, NEW y \in 0..(Rows - 1), NEW c \in 0..(Cols - 1)
    PROVE  /\ y * Cols + c \in 0..(Nt - 1)
           /\ h * Nt + y * Cols + c \in 0..(2 * Nt - 1)
           /\ v * 2 * Nt + h * Nt + y * Cols + c \in 0..(Row - 1)
<1>1. y * Cols \in Nat /\ (Rows - 1) * Cols = Rows * Cols - Cols
  BY Sizes
<1>2. y * Cols <= (Rows - 1) * Cols
  BY Sizes
<1>3. y * Cols + c \in 0..(Nt - 1)
  BY Sizes, <1>1, <1>2
<1> QED  BY Sizes, <1>3

\* An address of any fine y has the fields it is put together from.
LEMMA Fields ==
    ASSUME NEW f \in Int, NEW v \in 0..1, NEW h \in 0..1,
           NEW y \in 0..(Rows - 1), NEW c \in 0..(Cols - 1),
           NEW a \in Int, a = Address(f, v, h, y, c)
    PROVE  /\ a \div Row = f /\ NtV(a) = v /\ NtH(a) = h
           /\ CoarseY(a) = y /\ a % Cols = c
<1>1. PICK p \in 0..(Nt - 1) : p = y * Cols + c
  BY BelowFine
<1>2. PICK low \in 0..(2 * Nt - 1) : low = h * Nt + y * Cols + c
  BY BelowFine
<1>3. PICK all \in 0..(Row - 1) : all = v * 2 * Nt + h * Nt + y * Cols + c
  BY BelowFine
<1>4. PICK k \in Int : k = f * 2 + v
  OBVIOUS
<1>5. PICK j \in Int : j = k * 2 + h
  BY <1>4
<1>6. PICK i \in Int : i = j * Rows + y
  BY <1>5, Sizes
<1>7. a = f * Row + all
  <2>1. f * Row \in Int /\ v * 2 * Nt \in Int /\ h * Nt \in Int /\ y * Cols \in Int
    BY Sizes
  <2> QED  BY <1>3, <2>1 DEF Address
<1>8. a = k * (2 * Nt) + low
  <2>1. f * Row = 4 * (f * Nt) /\ f * Nt \in Int /\ v * 2 * Nt = 2 * (v * Nt)
        /\ v * Nt \in Int /\ h * Nt \in Int /\ y * Cols \in Int
    BY Sizes
  <2>2. (f * 2 + v) * (2 * Nt) = 4 * (f * Nt) + 2 * (v * Nt)
    BY Sizes
  <2> QED  BY <1>2, <1>3, <1>4, <1>7, <2>1, <2>2
<1>9. a = j * Nt + p
  <2>1. k * (2 * Nt) = 2 * (k * Nt) /\ k * Nt \in Int
    BY <1>4, Sizes
  <2>2. (k * 2 + h) * Nt = 2 * (k * Nt) + h * Nt /\ h * Nt \in Int /\ y * Cols \in Int
    BY <1>4, Sizes
  <2> QED  BY <1>1, <1>2, <1>5, <1>8, <2>1, <2>2
<1>10. a = i * Cols + c
  <2>1. j * Nt = (j * Rows) * Cols /\ j * Rows \in Int
    BY <1>5, Sizes
  <2>2. (j * Rows + y) * Cols = (j * Rows) * Cols + y * Cols /\ y * Cols \in Int
    BY <2>1, Sizes
  <2>3. i * Cols = (j * Rows + y) * Cols
    BY <1>6
  <2>4. j * Nt \in Int /\ i * Cols = j * Nt + y * Cols
    BY <2>1, <2>2, <2>3, <1>5, Sizes
  <2>5. y * Cols \in Int
    BY <2>2
  <2> QED  BY <1>1, <1>9, <2>4, <2>5
<1>11. a \div Row = f
  BY <1>3, <1>7, Divided, Sizes
<1>12. a \div (2 * Nt) = k
  BY <1>2, <1>4, <1>8, Divided, Sizes
<1>13. a \div Nt = j
  BY <1>1, <1>5, <1>9, Divided, Sizes
<1>14. a \div Cols = i /\ a % Cols = c
  BY <1>6, <1>10, Divided, Sizes
<1>15. k % 2 = v /\ j % 2 = h
  BY <1>4, <1>5
<1>16. i % Rows = y
  <2>1. i = j * Rows + y
    BY <1>6
  <2>2. j \in Int /\ i \in Int
    BY <1>5, <1>6
  <2>3. Rows \in Nat /\ Rows > 0
    BY Sizes
  <2>4. y \in 0..(Rows - 1)
    OBVIOUS
  <2> QED  BY <2>1, <2>2, <2>3, <2>4, Divided
<1> QED  BY <1>11, <1>12, <1>13, <1>14, <1>15, <1>16 DEF NtV, NtH, CoarseY

\* Any number is the address of its fields.
LEMMA Parts ==
    ASSUME NEW a \in Int
    PROVE  /\ a \div Row \in Int /\ NtV(a) \in 0..1 /\ NtH(a) \in 0..1
           /\ CoarseY(a) \in 0..(Rows - 1) /\ a % Cols \in 0..(Cols - 1)
           /\ a = Address(a \div Row, NtV(a), NtH(a), CoarseY(a), a % Cols)
<1> USE Sizes
<1>1. PICK i \in Int, c \in 0..(Cols - 1) : a = i * Cols + c
  BY Division, ZenonT(60)
<1>2. PICK j \in Int, y \in 0..(Rows - 1) : i = j * Rows + y
  BY Division, ZenonT(60)
<1>3. PICK k \in Int, h \in 0..1 : j = k * 2 + h
  <2>1. j \div 2 \in Int /\ j % 2 \in 0..1 /\ j = (j \div 2) * 2 + (j % 2)
    OBVIOUS
  <2> QED  BY <2>1
<1>4. PICK f \in Int, v \in 0..1 : k = f * 2 + v
  <2>1. k \div 2 \in Int /\ k % 2 \in 0..1 /\ k = (k \div 2) * 2 + (k % 2)
    OBVIOUS
  <2> QED  BY <2>1
<1>5. j * Nt = f * Row + v * 2 * Nt + h * Nt
  <2>1. f * Row = 4 * (f * Nt) /\ f * Nt \in Int /\ v * 2 * Nt = 2 * (v * Nt)
        /\ v * Nt \in Int /\ h * Nt \in Int
    OBVIOUS
  <2>2. j = 4 * f + 2 * v + h
    BY <1>3, <1>4
  <2>3. (4 * f + 2 * v + h) * Nt = 4 * (f * Nt) + 2 * (v * Nt) + h * Nt
    OBVIOUS
  <2> QED  BY <2>1, <2>2, <2>3
<1>6. i * Cols = j * Nt + y * Cols
  <2>1. (j * Rows) * Cols = j * Nt /\ j * Rows \in Int
    OBVIOUS
  <2>2. (j * Rows + y) * Cols = (j * Rows) * Cols + y * Cols
    BY <2>1
  <2> QED  BY <1>2, <2>1, <2>2
<1>7. a = Address(f, v, h, y, c)
  BY <1>1, <1>5, <1>6 DEF Address
<1>8. a \div Row = f /\ NtV(a) = v /\ NtH(a) = h /\ CoarseY(a) = y /\ a % Cols = c
  BY <1>1, <1>2, <1>3, <1>4, <1>7, Fields, SMTT(60)
<1> QED  BY <1>7, <1>8

-----------------------------------------------------------------------------
(* Carrying                                                                *)

\* A function defined by recursion on smaller numbers exists.
LEMMA Recursion ==
    ASSUME NEW Step \in [Nat -> Nat], NEW N \in Nat,
           \A a \in Nat : a >= N => Step[a] < a
    PROVE  \E F : F = [a \in Nat |-> IF a < N THEN a ELSE F[Step[a]]]
<1> DEFINE Agrees(f, n) ==
        /\ f \in [0..n -> Nat]
        /\ \A a \in 0..n : f[a] = IF a < N THEN a ELSE f[Step[a]]
<1>1. ASSUME NEW f, NEW g, NEW m \in Nat, NEW n \in Nat, Agrees(f, m), Agrees(g, n)
      PROVE  \A a \in Nat : a <= m /\ a <= n => f[a] = g[a]
  <2> DEFINE S == {a \in Nat : a <= m /\ a <= n => f[a] = g[a]}
  <2>1. \A a \in Nat : (\A b \in Nat : b < a => b \in S) => a \in S
    <3> SUFFICES ASSUME NEW a \in Nat, \A b \in Nat : b < a => b \in S, a <= m, a <= n
                 PROVE  f[a] = g[a]
      OBVIOUS
    <3>1. a \in 0..m /\ a \in 0..n
      OBVIOUS
    <3>2. /\ f[a] = IF a < N THEN a ELSE f[Step[a]]
          /\ g[a] = IF a < N THEN a ELSE g[Step[a]]
      BY <1>1, <3>1
    <3>3. a >= N => Step[a] \in Nat /\ Step[a] < a /\ Step[a] \in S
      OBVIOUS
    <3> QED  BY <3>2, <3>3
  <2> HIDE DEF S
  <2>2. Nat \subseteq S
    BY <2>1, Induction
  <2> QED  BY <2>2 DEF S
<1>2. \A n \in Nat : \E f : Agrees(f, n)
  <2> DEFINE S == {n \in Nat : \E f : Agrees(f, n)}
  <2>1. \A n \in Nat : (\A m \in Nat : m < n => m \in S) => n \in S
    <3> SUFFICES ASSUME NEW n \in Nat, \A m \in Nat : m < n => m \in S
                 PROVE  \E f : Agrees(f, n)
      OBVIOUS
    <3>1. CASE n = 0
      <4> DEFINE f == [a \in 0..n |-> a]
      <4>1. 0 < N \/ N = 0
        OBVIOUS
      <4>2. N # 0
        <5>1. N = 0 => Step[0] < 0 /\ Step[0] \in Nat
          OBVIOUS
        <5> QED  BY <5>1
      <4>3. Agrees(f, n)
        BY <3>1, <4>1, <4>2
      <4> QED  BY <4>3
    <3>2. CASE n > 0
      <4>1. PICK f : Agrees(f, n - 1)
        <5>1. n - 1 \in Nat /\ n - 1 < n
          BY <3>2
        <5> QED  BY <5>1
      <4> DEFINE g == [a \in 0..n |-> IF a < n THEN f[a] ELSE IF a < N THEN a ELSE f[Step[a]]]
      <4>2. \A a \in 0..n : a < n => a \in 0..(n - 1)
        OBVIOUS
      <4>3. n >= N => Step[n] \in 0..(n - 1)
        OBVIOUS
      <4>4. g \in [0..n -> Nat]
        <5>1. ASSUME NEW a \in 0..n
              PROVE  (IF a < n THEN f[a] ELSE IF a < N THEN a ELSE f[Step[a]]) \in Nat
          <6>1. CASE a < n
            BY <4>1, <4>2, <6>1
          <6>2. CASE a = n
            BY <4>1, <4>3, <6>2
          <6> QED  BY <6>1, <6>2
        <5> QED  BY <5>1
      <4>5. ASSUME NEW a \in 0..n PROVE g[a] = IF a < N THEN a ELSE g[Step[a]]
        <5>1. a >= N => Step[a] \in Nat /\ Step[a] < a /\ Step[a] \in 0..n
          OBVIOUS
        <5>2. a >= N => g[Step[a]] = f[Step[a]]
          BY <5>1
        <5>3. CASE a < n
          <6>1. a \in 0..(n - 1) /\ g[a] = f[a]
            BY <4>2, <5>3
          <6>2. f[a] = IF a < N THEN a ELSE f[Step[a]]
            BY <4>1, <6>1
          <6> HIDE DEF g
          <6> QED  BY <5>2, <6>1, <6>2
        <5>4. CASE a = n
          BY <5>2, <5>4
        <5> QED  BY <5>3, <5>4
      <4> HIDE DEF g
      <4>6. Agrees(g, n)
        BY <4>4, <4>5
      <4> QED  BY <4>6
    <3> HIDE DEF Agrees
    <3> QED  BY <3>1, <3>2
  <2> HIDE DEF S
  <2>2. Nat \subseteq S
    BY <2>1, Induction
  <2> QED  BY <2>2 DEF S
<1> DEFINE pick(n) == CHOOSE f : Agrees(f, n)
           F == [a \in Nat |-> pick(a)[a]]
<1>3. \A n \in Nat : Agrees(pick(n), n)
  BY <1>2
<1>4. ASSUME NEW a \in Nat PROVE F[a] = IF a < N THEN a ELSE F[Step[a]]
  <2>1. F[a] = pick(a)[a] /\ a \in 0..a
    OBVIOUS
  <2>2. pick(a)[a] = IF a < N THEN a ELSE pick(a)[Step[a]]
    <3> HIDE DEF pick
    <3> QED  BY <1>3, <2>1
  <2>3. CASE a >= N
    <3>1. Step[a] \in Nat /\ Step[a] < a /\ Step[a] <= Step[a]
      BY <2>3
    <3>2. F[Step[a]] = pick(Step[a])[Step[a]]
      BY <3>1
    <3> HIDE DEF F, pick, Agrees
    <3>3. pick(a)[Step[a]] = pick(Step[a])[Step[a]]
      <4>1. Agrees(pick(a), a) /\ Agrees(pick(Step[a]), Step[a])
        BY <1>3, <3>1
      <4>2. Step[a] <= a
        BY <3>1
      <4> QED  BY <1>1, <3>1, <4>1, <4>2
    <3> QED  BY <2>1, <2>2, <2>3, <3>2, <3>3
  <2> HIDE DEF F, pick
  <2> QED  BY <2>1, <2>2, <2>3
<1>5. F = [a \in Nat |-> F[a]]
  OBVIOUS
<1> HIDE DEF F, pick, Agrees
<1>6. F = [a \in Nat |-> IF a < N THEN a ELSE F[Step[a]]]
  BY <1>4, <1>5
<1> QED  BY <1>6

\* what is carried at once
CarryStep(a) ==
    LET row  == (CoarseY(a) + 1) % Rows
        rest == a - AddrSize - CoarseY(a) * Cols
    IN  IF row = Visible THEN FlipV(rest) ELSE rest + row * Cols

\* An address of fine y f lies between f rows and the next.
LEMMA Between ==
    ASSUME NEW f \in Int, NEW v \in 0..1, NEW h \in 0..1,
           NEW y \in 0..(Rows - 1), NEW c \in 0..(Cols - 1)
    PROVE  LET a == Address(f, v, h, y, c) IN
           a \in Int /\ f * Row <= a /\ a < f * Row + Row /\ f * Row \in Int
<1>1. PICK all \in 0..(Row - 1) : all = v * 2 * Nt + h * Nt + y * Cols + c
  BY BelowFine
<1>2. f * Row \in Int /\ v * 2 * Nt \in Int /\ h * Nt \in Int /\ y * Cols \in Int
  BY Sizes
<1>3. Address(f, v, h, y, c) = f * Row + all
  BY <1>1, <1>2 DEF Address
<1> QED  BY <1>1, <1>2, <1>3, Sizes

\* An address of the fine y there are is an address of the PPU, others are not.
LEMMA InSize ==
    ASSUME NEW f \in Int, NEW v \in 0..1, NEW h \in 0..1,
           NEW y \in 0..(Rows - 1), NEW c \in 0..(Cols - 1)
    PROVE  LET a == Address(f, v, h, y, c) IN
           (f >= 0 <=> a >= 0) /\ (f < Fine <=> a < AddrSize)
<1> DEFINE a == Address(f, v, h, y, c)
<1>1. a \in Int /\ f * Row <= a /\ a < f * Row + Row /\ f * Row \in Int
  BY Between
<1> HIDE DEF a
<1>2. Row \in Nat /\ Row > 0 /\ Fine \in Nat
  BY Sizes
<1>3. f >= 0 => f * Row >= 0
  BY <1>2
<1>4. f < 0 => f * Row <= -Row
  BY <1>2
<1>5. AddrSize = Fine * Row /\ Fine * Row \in Int
  BY <1>2, Sizes
<1>6. f < Fine => f * Row + Row <= Fine * Row
  <2>1. f < Fine => (f + 1) * Row <= Fine * Row
    BY <1>2
  <2>2. (f + 1) * Row = f * Row + Row
    BY <1>2
  <2> QED  BY <2>1, <2>2
<1>7. f >= Fine => f * Row >= Fine * Row
  BY <1>2
<1>8. (f >= 0 <=> a >= 0) /\ (f < Fine <=> a < AddrSize)
  BY <1>1, <1>2, <1>3, <1>4, <1>5, <1>6, <1>7
<1> QED  BY <1>8 DEF a

\* A row more is a fine y more.
LEMMA RowMore ==
    ASSUME NEW f \in Int, NEW v \in 0..1, NEW h \in 0..1,
           NEW y \in 0..(Rows - 1), NEW c \in 0..(Cols - 1), NEW g \in Int, g = f + 1
    PROVE  Address(f, v, h, y, c) + Row = Address(g, v, h, y, c)
<1>1. g * Row = f * Row + Row /\ f * Row \in Int /\ Row \in Int
  BY Sizes
<1>2. v * 2 * Nt \in Int /\ h * Nt \in Int /\ y * Cols \in Int
  BY Sizes
<1> QED  BY <1>1, <1>2 DEF Address

\* What a carry does to the fields.
LEMMA StepIs ==
    ASSUME NEW a \in Int, NEW f \in Int, NEW v \in 0..1, NEW h \in 0..1,
           NEW y \in 0..(Rows - 1), NEW c \in 0..(Cols - 1), a = Address(f, v, h, y, c)
    PROVE  CarryStep(a) = IF y + 1 = Visible THEN Address(f - Fine, 1 - v, h, 0, c)
                          ELSE Address(f - Fine, v, h, (y + 1) % Rows, c)
<1>1. NtV(a) = v /\ NtH(a) = h /\ CoarseY(a) = y /\ a % Cols = c
  BY Fields
<1> DEFINE row == (y + 1) % Rows
<1>2. row \in 0..(Rows - 1) /\ (row = Visible <=> y + 1 = Visible)
  BY Sizes
<1> HIDE DEF row
<1> DEFINE rest == a - AddrSize - y * Cols
<1>3. /\ (f - Fine) * Row = f * Row - AddrSize /\ f * Row \in Int /\ y * Cols \in Int
      /\ v * 2 * Nt \in Int /\ h * Nt \in Int /\ AddrSize \in Int /\ row * Cols \in Int
      /\ (1 - v) * 2 * Nt = 2 * Nt - v * 2 * Nt /\ 0 * Cols = 0 /\ f - Fine \in Int
  <2>1. (f - Fine) * Row = f * Row - Fine * Row
    BY Sizes
  <2> QED  BY <1>2, <2>1, Sizes
<1>4. rest = Address(f - Fine, v, h, 0, c)
  BY <1>3 DEF Address
<1>5. rest + row * Cols = Address(f - Fine, v, h, row, c)
  BY <1>3, <1>4 DEF Address
<1>6. rest \in Int
  BY <1>3
<1>7. FlipV(rest) = Address(f - Fine, 1 - v, h, 0, c)
  <2>1. 0 \in 0..(Rows - 1)
    BY Sizes
  <2> HIDE DEF rest
  <2>2. NtV(rest) = v
    BY <1>3, <1>4, <1>6, <2>1, Fields
  <2>3. v = 0 \/ v = 1
    OBVIOUS
  <2>4. 0 * 2 * Nt = 0 /\ 1 * 2 * Nt = 2 * Nt /\ 2 * Nt \in Int
    BY Sizes
  <2>5. CASE v = 0
    <3>1. FlipV(rest) = rest + 2 * Nt
      BY <2>2, <2>5 DEF FlipV
    <3> QED  BY <1>3, <1>4, <1>6, <2>4, <2>5, <3>1 DEF Address
  <2>6. CASE v = 1
    <3>1. FlipV(rest) = rest - 2 * Nt
      BY <2>2, <2>6 DEF FlipV
    <3> QED  BY <1>3, <1>4, <1>6, <2>4, <2>6, <3>1 DEF Address
  <2> QED  BY <2>3, <2>5, <2>6
<1>8. CarryStep(a) = IF row = Visible THEN FlipV(rest) ELSE rest + row * Cols
  BY <1>1 DEF CarryStep, row
<1> QED  BY <1>2, <1>5, <1>7, <1>8 DEF row

\* A carry leaves a smaller number.
LEMMA StepLess ==
    ASSUME NEW a \in Nat, a >= AddrSize
    PROVE  /\ CarryStep(a) \in Nat /\ CarryStep(a) < a
           /\ NtH(CarryStep(a)) = NtH(a) /\ CarryStep(a) % Cols = a % Cols
           /\ CarryStep(a + Row) = CarryStep(a) + Row
<1>1. PICK f \in Int, v \in 0..1, h \in 0..1, y \in 0..(Rows - 1), c \in 0..(Cols - 1) :
          /\ a = Address(f, v, h, y, c)
          /\ NtH(a) = h /\ a % Cols = c
  <2>1. a \in Int
    OBVIOUS
  <2>2. /\ a \div Row \in Int /\ NtV(a) \in 0..1 /\ NtH(a) \in 0..1
        /\ CoarseY(a) \in 0..(Rows - 1) /\ a % Cols \in 0..(Cols - 1)
        /\ a = Address(a \div Row, NtV(a), NtH(a), CoarseY(a), a % Cols)
    BY <2>1, Parts
  <2> QED  BY <2>2, Zenon
<1>2. PICK w \in 0..1, z \in 0..(Rows - 1) :
          /\ w = IF y + 1 = Visible THEN 1 - v ELSE v
          /\ z = IF y + 1 = Visible THEN 0 ELSE (y + 1) % Rows
  <2>1. (y + 1) % Rows \in 0..(Rows - 1) /\ 0 \in 0..(Rows - 1) /\ 1 - v \in 0..1
    BY <1>1, Sizes
  <2> QED  BY <1>1, <2>1
<1>3. PICK e \in Int, g \in Int, e1 \in Int : e = f - Fine /\ g = f + 1 /\ e1 = g - Fine
  BY <1>1, Sizes
<1>4. CarryStep(a) = Address(e, w, h, z, c)
  BY <1>1, <1>2, <1>3, StepIs, SMTT(60)
<1>5. a + Row = Address(g, v, h, y, c) /\ a + Row \in Int
  <2>1. Address(f, v, h, y, c) + Row = Address(g, v, h, y, c)
    BY <1>1, <1>3, RowMore
  <2> QED  BY <1>1, <2>1, Sizes
<1>6. CarryStep(a + Row) = Address(e1, w, h, z, c)
  <2>1. CarryStep(a + Row) = IF y + 1 = Visible THEN Address(g - Fine, 1 - v, h, 0, c)
                             ELSE Address(g - Fine, v, h, (y + 1) % Rows, c)
    BY <1>1, <1>3, <1>5, StepIs
  <2> QED  BY <1>2, <1>3, <2>1
<1>7. e >= 0
  <2>1. ~ (f < Fine)
    BY <1>1, InSize, Sizes
  <2> QED  BY <1>1, <1>3, <2>1, Sizes
<1>8. CarryStep(a) \in Int /\ CarryStep(a) >= 0
  <2>1. Address(e, w, h, z, c) \in Int
    BY <1>1, <1>2, <1>3, Between
  <2>2. Address(e, w, h, z, c) >= 0
    BY <1>1, <1>2, <1>3, <1>7, InSize
  <2> QED  BY <1>4, <2>1, <2>2
<1>9. CarryStep(a) < a
  <2>1. /\ Address(e, w, h, z, c) < e * Row + Row
        /\ Address(e, w, h, z, c) \in Int /\ e * Row \in Int
    BY <1>1, <1>2, <1>3, Between
  <2>2. f * Row <= Address(f, v, h, y, c) /\ Address(f, v, h, y, c) \in Int /\ f * Row \in Int
    BY <1>1, Between
  <2>3. e * Row + Row <= f * Row
    <3>1. e * Row = f * Row - Fine * Row
      BY <1>1, <1>3, Sizes
    <3>2. Fine * Row = AddrSize /\ AddrSize >= Row /\ AddrSize \in Int /\ Row \in Int
      BY Sizes
    <3> QED  BY <2>2, <3>1, <3>2
  <2>4. Row \in Int
    BY Sizes
  <2> QED  BY <1>1, <1>4, <2>1, <2>2, <2>3, <2>4
<1>10. NtH(CarryStep(a)) = h /\ CarryStep(a) % Cols = c
  BY <1>1, <1>2, <1>3, <1>4, <1>8, Fields
<1>11. CarryStep(a + Row) = CarryStep(a) + Row
  <2>1. e1 = e + 1
    BY <1>1, <1>3, Sizes
  <2>2. Address(e, w, h, z, c) + Row = Address(e1, w, h, z, c)
    BY <1>1, <1>2, <1>3, <2>1, RowMore
  <2> QED  BY <1>4, <1>6, <2>2
<1> QED  BY <1>1, <1>8, <1>9, <1>10, <1>11

\* Carrying goes on until there is nothing to carry.
LEMMA CarryIs ==
    \A a \in Nat : CarryRows[a] = IF a < AddrSize THEN a ELSE CarryRows[CarryStep(a)]
<1> DEFINE Step == [a \in Nat |-> IF a < AddrSize THEN 0 ELSE CarryStep(a)]
<1>1. Step \in [Nat -> Nat]
  BY StepLess, Sizes
<1>2. \A a \in Nat : a >= AddrSize => Step[a] < a /\ Step[a] = CarryStep(a)
  BY StepLess, Sizes
<1>3. \E F : F = [a \in Nat |-> IF a < AddrSize THEN a ELSE F[Step[a]]]
  <2> HIDE DEF Step
  <2> QED  BY <1>1, <1>2, Recursion, Sizes
<1>4. PICK F : F = [a \in Nat |-> IF a < AddrSize THEN a ELSE F[Step[a]]]
  BY <1>3
<1> HIDE DEF Step
<1>5. \A a \in Nat : (IF a < AddrSize THEN a ELSE F[Step[a]])
                    = IF a < AddrSize THEN a ELSE F[CarryStep(a)]
  BY <1>2, Sizes
<1>6. F = [a \in Nat |-> IF a < AddrSize THEN a ELSE F[CarryStep(a)]]
  BY <1>4, <1>5
<1>7. CarryRows = [a \in Nat |-> IF a < AddrSize THEN a ELSE CarryRows[CarryStep(a)]]
  BY <1>6 DEF CarryRows, CarryStep
<1> QED  BY <1>7

\* What is carried is an address of the same column, and carrying later is as
\* good as carrying now.
LEMMA Carried ==
    \A a \in Nat :
        /\ CarryRows[a] \in 0..(AddrSize - 1)
        /\ NtH(CarryRows[a]) = NtH(a) /\ CarryRows[a] % Cols = a % Cols
        /\ CarryRows[a + Row] = CarryRows[CarryRows[a] + Row]
<1> DEFINE S == {a \in Nat :
        /\ CarryRows[a] \in 0..(AddrSize - 1)
        /\ NtH(CarryRows[a]) = NtH(a) /\ CarryRows[a] % Cols = a % Cols
        /\ CarryRows[a + Row] = CarryRows[CarryRows[a] + Row]}
<1>1. \A a \in Nat : (\A b \in Nat : b < a => b \in S) => a \in S
  <2> SUFFICES ASSUME NEW a \in Nat, \A b \in Nat : b < a => b \in S
               PROVE  a \in S
    OBVIOUS
  <2>1. CASE a < AddrSize
    <3>1. CarryRows[a] = a
      BY <2>1, CarryIs
    <3>2. a \in 0..(AddrSize - 1)
      BY <2>1, Sizes
    <3> QED  BY <3>1, <3>2
  <2>2. CASE a >= AddrSize
    <3>1. PICK b \in Nat : /\ b = CarryStep(a) /\ b < a
                           /\ NtH(b) = NtH(a) /\ b % Cols = a % Cols
                           /\ CarryStep(a + Row) = b + Row
      BY <2>2, StepLess
    <3>2. ~ (a < AddrSize) /\ ~ (a + Row < AddrSize) /\ a + Row \in Nat
      BY <2>2, Sizes
    <3>3. CarryRows[a] = CarryRows[b]
      BY <3>1, <3>2, CarryIs
    <3>4. CarryRows[a + Row] = CarryRows[b + Row]
      BY <3>1, <3>2, CarryIs
    <3>5. /\ CarryRows[b] \in 0..(AddrSize - 1)
          /\ NtH(CarryRows[b]) = NtH(b) /\ CarryRows[b] % Cols = b % Cols
          /\ CarryRows[b + Row] = CarryRows[CarryRows[b] + Row]
      BY <3>1
    <3> QED  BY <3>1, <3>3, <3>4, <3>5
  <2> QED  BY <2>1, <2>2, Sizes
<1> HIDE DEF S
<1>2. Nat \subseteq S
  BY <1>1, Induction
<1> QED  BY <1>2 DEF S

-----------------------------------------------------------------------------
(* Lines down                                                              *)

\* two addresses in the same line of the same row
SameRow(a, b) == FineY(a) = FineY(b) /\ NtV(a) = NtV(b) /\ CoarseY(a) = CoarseY(b)

\* an address at the left edge that another gives
Edge(a, t) == Address(FineY(a), NtV(a), NtH(t), CoarseY(a), t % Cols)

\* The edge of a line is in that line.
LEMMA EdgeIs ==
    ASSUME NEW a \in Int, NEW t \in Int
    PROVE  /\ Edge(a, t) \in 0..(AddrSize - 1)
           /\ SameRow(Edge(a, t), a)
           /\ NtH(Edge(a, t)) = NtH(t) /\ Edge(a, t) % Cols = t % Cols
<1>1. PICK f \in 0..(Fine - 1), v \in 0..1, y \in 0..(Rows - 1) :
          f = FineY(a) /\ v = NtV(a) /\ y = CoarseY(a)
  <2>1. a \div Row \in Int /\ NtV(a) \in 0..1 /\ CoarseY(a) \in 0..(Rows - 1)
    BY Parts
  <2>2. FineY(a) \in 0..(Fine - 1)
    BY <2>1, Sizes DEF FineY
  <2> QED  BY <2>1, <2>2
<1>2. PICK h \in 0..1, c \in 0..(Cols - 1) : h = NtH(t) /\ c = t % Cols
  BY Parts
<1>3. Edge(a, t) = Address(f, v, h, y, c)
  BY <1>1, <1>2 DEF Edge
<1>4. f \in Int /\ f >= 0 /\ f < Fine
  BY <1>1, Sizes
<1>5. Edge(a, t) \in Int /\ Edge(a, t) >= 0 /\ Edge(a, t) < AddrSize
  <2>1. Address(f, v, h, y, c) \in Int
    BY <1>1, <1>2, <1>4, Between
  <2>2. Address(f, v, h, y, c) >= 0 /\ Address(f, v, h, y, c) < AddrSize
    BY <1>1, <1>2, <1>4, InSize
  <2> QED  BY <1>3, <2>1, <2>2
<1>6. /\ Edge(a, t) \div Row = f /\ NtV(Edge(a, t)) = v /\ NtH(Edge(a, t)) = h
      /\ CoarseY(Edge(a, t)) = y /\ Edge(a, t) % Cols = c
  BY <1>1, <1>2, <1>3, <1>4, <1>5, Fields
<1>7. f % Fine = f
  BY <1>4, Sizes
<1>8. FineY(Edge(a, t)) = f
  BY <1>6, <1>7 DEF FineY
<1> QED  BY <1>1, <1>2, <1>5, <1>6, <1>8, Sizes DEF SameRow

\* An address of the PPU at an edge is its line's there.
LEMMA AtEdge ==
    ASSUME NEW a \in 0..(AddrSize - 1), NEW t \in Int, NtH(a) = NtH(t), a % Cols = t % Cols
    PROVE  Edge(a, t) = a
<1>1. a \in Int
  OBVIOUS
<1>2. /\ a \div Row \in Int /\ NtV(a) \in 0..1 /\ NtH(a) \in 0..1
      /\ CoarseY(a) \in 0..(Rows - 1) /\ a % Cols \in 0..(Cols - 1)
      /\ a = Address(a \div Row, NtV(a), NtH(a), CoarseY(a), a % Cols)
  BY <1>1, Parts
<1>3. a \div Row >= 0 /\ a \div Row < Fine
  BY <1>2, InSize, Sizes
<1>4. FineY(a) = a \div Row
  BY <1>2, <1>3, Sizes DEF FineY
<1> QED  BY <1>2, <1>4 DEF Edge

\* Edges depend on the line alone.
LEMMA SameEdge ==
    ASSUME NEW a, NEW b, NEW t, SameRow(a, b)
    PROVE  Edge(a, t) = Edge(b, t) /\ Down(a, t) = Down(b, t)
           /\ \A n : Below(a, t, n) = Below(b, t, n)
BY DEF Edge, SameRow, Down, Below

\* One line down, by carrying or as the PPU counts.
LEMMA OneDown ==
    ASSUME NEW a \in 0..(AddrSize - 1), NEW t \in Int, NtH(a) = NtH(t), a % Cols = t % Cols
    PROVE  CarryRows[a + Row] = Down(a, t)
<1>1. PICK f \in Int, v \in 0..1, h \in 0..1, y \in 0..(Rows - 1), c \in 0..(Cols - 1) :
          /\ a = Address(f, v, h, y, c)
          /\ f = a \div Row /\ NtV(a) = v /\ NtH(a) = h /\ CoarseY(a) = y /\ a % Cols = c
  <2>1. a \in Int
    OBVIOUS
  <2>2. /\ a \div Row \in Int /\ NtV(a) \in 0..1 /\ NtH(a) \in 0..1
        /\ CoarseY(a) \in 0..(Rows - 1) /\ a % Cols \in 0..(Cols - 1)
        /\ a = Address(a \div Row, NtV(a), NtH(a), CoarseY(a), a % Cols)
    BY <2>1, Parts
  <2> QED  BY <2>2, Zenon
<1>2. f >= 0 /\ f < Fine
  BY <1>1, InSize, Sizes
<1>3. FineY(a) = f
  BY <1>1, <1>2, Sizes DEF FineY
<1>4. PICK g \in Int : g = f + 1
  BY <1>1
<1>5. a + Row = Address(g, v, h, y, c) /\ a + Row \in Nat
  <2>1. Address(f, v, h, y, c) + Row = Address(g, v, h, y, c)
    BY <1>1, <1>4, RowMore
  <2> QED  BY <1>1, <2>1, Sizes
<1>6. g <= Fine /\ g >= 0
  BY <1>1, <1>2, <1>4, Sizes
<1>7. CASE g < Fine
  <2>1. CarryRows[a + Row] = a + Row
    <3>1. a + Row < AddrSize
      BY <1>1, <1>4, <1>5, <1>7, InSize
    <3> QED  BY <1>5, <3>1, CarryIs
  <2>2. (f + 1) % Fine = g
    BY <1>4, <1>6, <1>7, Sizes
  <2>3. Down(a, t) = Address(g, v, h, y, c)
    BY <1>1, <1>3, <1>4, <1>7, <2>2 DEF Down
  <2> QED  BY <1>5, <2>1, <2>3
<1>8. CASE g = Fine
  <2>1. PICK w \in 0..1, z \in 0..(Rows - 1) :
            /\ w = IF y + 1 = Visible THEN 1 - v ELSE v
            /\ z = IF y + 1 = Visible THEN 0 ELSE (y + 1) % Rows
    <3>1. (y + 1) % Rows \in 0..(Rows - 1) /\ 0 \in 0..(Rows - 1) /\ 1 - v \in 0..1
      BY <1>1, Sizes
    <3> QED  BY <1>1, <3>1
  <2>2. CarryStep(a + Row) = Address(0, w, h, z, c)
    <3>1. a + Row \in Int
      BY <1>5
    <3>2. CarryStep(a + Row) = IF y + 1 = Visible THEN Address(g - Fine, 1 - v, h, 0, c)
                               ELSE Address(g - Fine, v, h, (y + 1) % Rows, c)
      BY <1>1, <1>4, <1>5, <3>1, StepIs
    <3>3. g - Fine = 0
      BY <1>8, Sizes
    <3> QED  BY <2>1, <3>2, <3>3
  <2>3. CarryRows[a + Row] = CarryRows[CarryStep(a + Row)]
    <3>1. ~ (a + Row < AddrSize)
      <4>1. ~ (g < Fine)
        BY <1>8, Sizes
      <4> QED  BY <1>1, <1>4, <1>5, <4>1, InSize
    <3> QED  BY <1>5, <3>1, CarryIs
  <2>4. CarryRows[Address(0, w, h, z, c)] = Address(0, w, h, z, c)
    <3>1. 0 \in Int /\ 0 >= 0 /\ 0 < Fine
      BY Sizes
    <3>2. Address(0, w, h, z, c) \in Int
      BY <1>1, <2>1, <3>1, Between
    <3>3. Address(0, w, h, z, c) >= 0 /\ Address(0, w, h, z, c) < AddrSize
      BY <1>1, <2>1, <3>1, InSize
    <3> QED  BY <3>2, <3>3, CarryIs
  <2>5. Down(a, t) = Address(0, w, h, z, c)
    <3>1. (f + 1) % Fine = 0 /\ ~ (f + 1 < Fine)
      BY <1>4, <1>8, Sizes
    <3> QED  BY <1>1, <1>3, <2>1, <3>1 DEF Down
  <2> QED  BY <2>2, <2>3, <2>4, <2>5
<1> QED  BY <1>4, <1>6, <1>7, <1>8, Sizes

\* So many lines down is a line down so many times.
LEMMA BelowIs ==
    ASSUME NEW a \in Int, NEW t \in Int, NEW n \in Nat
    PROVE  /\ Below(a, t, 0) = Edge(a, t)
           /\ Below(a, t, n) \in 0..(AddrSize - 1)
           /\ Edge(Below(a, t, n), t) = Below(a, t, n)
           /\ Below(a, t, n + 1) = Down(Below(a, t, n), t)
<1>1. /\ Edge(a, t) \in 0..(AddrSize - 1)
      /\ NtH(Edge(a, t)) = NtH(t) /\ Edge(a, t) % Cols = t % Cols
  BY EdgeIs
<1>2. n * Row \in Nat /\ (n + 1) * Row = n * Row + Row /\ 0 * Row = 0
  BY Sizes
<1>3. PICK b \in Nat : b = Edge(a, t) + n * Row
  BY <1>1, <1>2
<1>4. /\ Below(a, t, n) = CarryRows[b]
      /\ Below(a, t, n + 1) = CarryRows[b + Row]
      /\ Below(a, t, 0) = CarryRows[Edge(a, t)]
  <2>1. b + Row = Edge(a, t) + (n + 1) * Row /\ Edge(a, t) + 0 * Row = Edge(a, t)
    BY <1>1, <1>2, <1>3, Sizes
  <2>2. \A k : Below(a, t, k) = CarryRows[Edge(a, t) + k * Row]
    BY DEF Below, Edge
  <2> QED  BY <1>3, <2>1, <2>2
<1>5. CarryRows[Edge(a, t)] = Edge(a, t)
  BY <1>1, CarryIs, Sizes
<1>6. NtH(b) = NtH(t) /\ b % Cols = t % Cols
  <2>1. PICK f \in Int, v \in 0..1, h \in 0..1, y \in 0..(Rows - 1), c \in 0..(Cols - 1) :
            /\ Edge(a, t) = Address(f, v, h, y, c)
            /\ h = NtH(t) /\ c = t % Cols
    <3>1. Edge(a, t) \in Int
      BY <1>1
    <3>2. PICK e \in Int : e = Edge(a, t)
      BY <3>1
    <3>3. /\ e \div Row \in Int /\ NtV(e) \in 0..1 /\ NtH(e) \in 0..1
          /\ CoarseY(e) \in 0..(Rows - 1) /\ e % Cols \in 0..(Cols - 1)
          /\ e = Address(e \div Row, NtV(e), NtH(e), CoarseY(e), e % Cols)
      BY <3>2, Parts
    <3> QED  BY <1>1, <3>2, <3>3, Zenon
  <2>2. PICK g \in Int : g = f + n
    BY <2>1
  <2>3. Address(f, v, h, y, c) + n * Row = Address(g, v, h, y, c)
    <3>1. g * Row = f * Row + n * Row /\ f * Row \in Int /\ n * Row \in Int
      BY <2>1, <2>2, Sizes
    <3>2. v * 2 * Nt \in Int /\ h * Nt \in Int /\ y * Cols \in Int
      BY <2>1, Sizes
    <3> QED  BY <2>1, <3>1, <3>2 DEF Address
  <2>4. b = Address(g, v, h, y, c) /\ b \in Int
    BY <1>3, <2>1, <2>3
  <2>5. NtH(b) = h /\ b % Cols = c
    BY <2>1, <2>2, <2>4, Fields
  <2> QED  BY <2>1, <2>5
<1>7. PICK d \in 0..(AddrSize - 1) :
          /\ d = CarryRows[b] /\ NtH(d) = NtH(t) /\ d % Cols = t % Cols
          /\ CarryRows[b + Row] = CarryRows[d + Row]
  BY <1>3, <1>6, Carried
<1>8. CarryRows[d + Row] = Down(d, t)
  BY <1>7, OneDown
<1>9. Edge(d, t) = d
  BY <1>7, AtEdge
<1> QED  BY <1>4, <1>5, <1>7, <1>8, <1>9

\* Lines down add up.
LEMMA BelowAdds ==
    ASSUME NEW a \in Int, NEW t \in Int, NEW m \in Nat
    PROVE  \A n \in Nat : Below(Below(a, t, m), t, n) = Below(a, t, m + n)
<1> DEFINE S == {n \in Nat : Below(Below(a, t, m), t, n) = Below(a, t, m + n)}
<1>1. Below(a, t, m) \in Int
  BY BelowIs, Sizes
<1>2. \A n \in Nat : (\A k \in Nat : k < n => k \in S) => n \in S
  <2> SUFFICES ASSUME NEW n \in Nat, \A k \in Nat : k < n => k \in S
               PROVE  n \in S
    OBVIOUS
  <2>1. CASE n = 0
    <3>1. Below(Below(a, t, m), t, 0) = Below(a, t, m)
      BY <1>1, BelowIs
    <3>2. m + 0 = m
      OBVIOUS
    <3> QED  BY <2>1, <3>1, <3>2
  <2>2. CASE n > 0
    <3>1. PICK k \in Nat : n = k + 1
      <4>1. n - 1 \in Nat /\ n = (n - 1) + 1
        BY <2>2
      <4> QED  BY <4>1
    <3>2. Below(Below(a, t, m), t, k) = Below(a, t, m + k)
      BY <3>1
    <3>3. Below(Below(a, t, m), t, k + 1) = Down(Below(Below(a, t, m), t, k), t)
      BY <1>1, BelowIs
    <3>4. PICK i \in Nat : i = m + k /\ m + n = i + 1
      BY <3>1
    <3>5. Below(a, t, i + 1) = Down(Below(a, t, i), t)
      BY BelowIs
    <3> QED  BY <3>1, <3>2, <3>3, <3>4, <3>5
  <2> QED  BY <2>1, <2>2
<1> HIDE DEF S
<1>3. Nat \subseteq S
  BY <1>2, Induction
<1> QED  BY <1>3 DEF S

\* A line down from any address of the line.
LEMMA BelowOne ==
    ASSUME NEW a \in Int, NEW t \in Int
    PROVE  Below(a, t, 1) = Down(a, t)
<1>1. Below(a, t, 0 + 1) = Down(Edge(a, t), t)
  BY BelowIs
<1>2. Down(Edge(a, t), t) = Down(a, t)
  BY EdgeIs, SameEdge
<1> QED  BY <1>1, <1>2

\* An address lines further down is a number.
LEMMA BelowInt ==
    ASSUME NEW a \in Int, NEW t \in Int, NEW n \in Nat
    PROVE  Below(a, t, n) \in Int
<1>1. Below(a, t, n) \in 0..(AddrSize - 1)
  BY BelowIs
<1> QED  BY <1>1, Sizes

-----------------------------------------------------------------------------
(* Times                                                                   *)

\* when line k begins, and the blank after it
LT(k) == FirstLine + k * LineLen
BT(k) == LT(k) + HblankIn

\* the lines that began, and the blanks after them, before t
LinesBefore(t)  == CHOOSE n \in 0..Lines :
                      (n > 0 => LT(n - 1) < t) /\ (n < Lines => t <= LT(n))
BlanksBefore(t) == CHOOSE n \in 0..Lines :
                      (n > 0 => BT(n - 1) < t) /\ (n < Lines => t <= BT(n))

\* What the assumptions say of times.
LEMMA Durations ==
    /\ Lines \in Nat /\ Lines > 0 /\ LineLen \in Nat /\ HblankIn \in Nat /\ HblankIn > 0
    /\ HblankIn + 2 < LineLen
    /\ LoadTime \in Nat /\ LoadTime > 0 /\ DotTime \in Nat /\ LoadTime < DotTime
    /\ FirstLine \in Nat /\ DotTime < FirstLine
BY SizeAssumption

\* Lines follow each other a line's length apart.
LEMMA TimeOf ==
    /\ LT(0) = FirstLine
    /\ \A k \in Int : LT(k) \in Int /\ BT(k) \in Int /\ BT(k) = LT(k) + HblankIn
    /\ \A k \in Int : LT(k + 1) = LT(k) + LineLen /\ BT(k + 1) = BT(k) + LineLen
    /\ \A j, k \in Int : j < k => LT(j) + LineLen <= LT(k) /\ BT(j) + LineLen <= BT(k)
    /\ \A j, k \in Int : j <= k => LT(j) <= LT(k) /\ BT(j) <= BT(k)
    /\ FrameEnd = BT(Lines - 1) + 2 /\ FrameEnd \in Nat /\ FrameEnd < LT(Lines)
<1>1. LT(0) = FirstLine
  BY Durations DEF LT
<1>2. \A k \in Int : LT(k) \in Int /\ BT(k) \in Int /\ BT(k) = LT(k) + HblankIn
  BY Durations DEF LT, BT
<1>3. \A k \in Int : LT(k + 1) = LT(k) + LineLen
  <2>1. \A k \in Int : (k + 1) * LineLen = k * LineLen + LineLen /\ k * LineLen \in Int
    BY Durations
  <2> QED  BY <2>1, Durations DEF LT
<1>4. ASSUME NEW j \in Int, NEW k \in Int, j < k
      PROVE  LT(j) + LineLen <= LT(k)
  <2>1. (j + 1) * LineLen <= k * LineLen /\ (j + 1) * LineLen = j * LineLen + LineLen
        /\ j * LineLen \in Int /\ k * LineLen \in Int
    BY <1>4, Durations
  <2> QED  BY <2>1, Durations DEF LT
<1>5. FrameEnd = BT(Lines - 1) + 2
  <2>1. (Lines - 1) * LineLen \in Int
    BY Durations
  <2> QED  BY <2>1, Durations DEF FrameEnd, LastEvent, BT, LT
<1>6. LT(Lines - 1) >= FirstLine
  <2>1. (Lines - 1) * LineLen >= 0
    BY Durations
  <2> QED  BY <2>1, Durations DEF LT
<1>7. Lines - 1 \in Int /\ (Lines - 1) + 1 = Lines
  BY Durations
<1>8. FrameEnd \in Nat /\ FrameEnd < LT(Lines)
  BY <1>2, <1>3, <1>5, <1>6, <1>7, Durations
<1>9. \A k \in Int : BT(k + 1) = BT(k) + LineLen
  BY <1>2, <1>3, Durations
<1>10. ASSUME NEW j \in Int, NEW k \in Int, j < k
       PROVE  BT(j) + LineLen <= BT(k)
  BY <1>2, <1>4, <1>10, Durations
<1>11. ASSUME NEW j \in Int, NEW k \in Int, j <= k
       PROVE  LT(j) <= LT(k) /\ BT(j) <= BT(k)
  <2>1. CASE j = k
    BY <1>2, <2>1
  <2>2. CASE j < k
    BY <1>2, <1>4, <1>10, <2>2, Durations
  <2> QED  BY <1>11, <2>1, <2>2
<1> QED  BY <1>1, <1>2, <1>3, <1>4, <1>5, <1>8, <1>9, <1>10, <1>11

\* A line and the one before it.
LEMMA TimesAt ==
    ASSUME NEW k \in Int
    PROVE  /\ LT(k) \in Int /\ BT(k) \in Int /\ BT(k) = LT(k) + HblankIn
           /\ LT(k - 1) \in Int /\ BT(k - 1) \in Int /\ BT(k - 1) = LT(k - 1) + HblankIn
           /\ LT(k - 1) + LineLen = LT(k) /\ BT(k - 1) + LineLen = BT(k)
           /\ LT(0) = FirstLine /\ BT(0) = FirstLine + HblankIn
           /\ k >= 0 => LT(0) <= LT(k)
<1>1. PICK j \in Int : j = k - 1 /\ k = j + 1
  OBVIOUS
<1>2. LT(j + 1) = LT(j) + LineLen /\ BT(j + 1) = BT(j) + LineLen
  BY <1>1, TimeOf
<1>3. /\ LT(k) \in Int /\ BT(k) \in Int /\ BT(k) = LT(k) + HblankIn
      /\ LT(j) \in Int /\ BT(j) \in Int /\ BT(j) = LT(j) + HblankIn
      /\ LT(0) = FirstLine /\ BT(0) = LT(0) + HblankIn
  <2>1. LT(k) \in Int /\ BT(k) \in Int /\ BT(k) = LT(k) + HblankIn
    BY TimeOf
  <2>2. LT(j) \in Int /\ BT(j) \in Int /\ BT(j) = LT(j) + HblankIn
    BY <1>1, TimeOf
  <2>3. LT(0) = FirstLine /\ BT(0) = LT(0) + HblankIn
    BY TimeOf
  <2> QED  BY <2>1, <2>2, <2>3
<1>4. k >= 0 => LT(0) <= LT(k)
  BY TimeOf
<1> QED  BY <1>1, <1>2, <1>3, <1>4, Durations

\* The lines and blanks before a time are counted.
LEMMA LinesCounted ==
    ASSUME NEW t \in Int
    PROVE  /\ LinesBefore(t) \in 0..Lines
           /\ LinesBefore(t) > 0 => LT(LinesBefore(t) - 1) < t
           /\ LinesBefore(t) < Lines => t <= LT(LinesBefore(t))
<1> DEFINE T == {n \in 0..Lines : n < Lines => t <= LT(n)}
<1>1. T \subseteq Nat /\ Lines \in T
  BY Durations
<1>2. PICK n \in T : \A m \in T : n <= m
  BY <1>1, Least
<1>3. n > 0 => LT(n - 1) < t
  <2> SUFFICES ASSUME n > 0, ~ (LT(n - 1) < t) PROVE FALSE
    OBVIOUS
  <2>1. n - 1 \in 0..Lines /\ n - 1 \in Int
    BY <1>2, Durations
  <2>2. n - 1 \in T
    BY <2>1, TimeOf
  <2> QED  BY <1>2, <2>1, <2>2
<1>4. \E k \in 0..Lines : (k > 0 => LT(k - 1) < t) /\ (k < Lines => t <= LT(k))
  BY <1>2, <1>3
<1> QED  BY <1>4 DEF LinesBefore

\* The number of blanks before a time has its definition.
LEMMA BlanksCounted ==
    ASSUME NEW t \in Int
    PROVE  /\ BlanksBefore(t) \in 0..Lines
           /\ BlanksBefore(t) > 0 => BT(BlanksBefore(t) - 1) < t
           /\ BlanksBefore(t) < Lines => t <= BT(BlanksBefore(t))
<1> DEFINE T == {n \in 0..Lines : n < Lines => t <= BT(n)}
<1>1. T \subseteq Nat /\ Lines \in T
  BY Durations
<1>2. PICK n \in T : \A m \in T : n <= m
  BY <1>1, Least
<1>3. n > 0 => BT(n - 1) < t
  <2> SUFFICES ASSUME n > 0, ~ (BT(n - 1) < t) PROVE FALSE
    OBVIOUS
  <2>1. n - 1 \in 0..Lines /\ n - 1 \in Int
    BY <1>2, Durations
  <2>2. n - 1 \in T
    BY <2>1, TimeOf
  <2> QED  BY <1>2, <2>1, <2>2
<1>4. \E k \in 0..Lines : (k > 0 => BT(k - 1) < t) /\ (k < Lines => t <= BT(k))
  BY <1>2, <1>3
<1> QED  BY <1>4 DEF BlanksBefore

\* ... in one way.
LEMMA LinesAre ==
    ASSUME NEW t \in Int, NEW n \in 0..Lines,
           n > 0 => LT(n - 1) < t, n < Lines => t <= LT(n)
    PROVE  LinesBefore(t) = n
<1> DEFINE m == LinesBefore(t)
<1>1. m \in 0..Lines /\ (m > 0 => LT(m - 1) < t) /\ (m < Lines => t <= LT(m))
  BY LinesCounted
<1> HIDE DEF m
<1>2. ~ (m < n)
  <2> SUFFICES ASSUME m < n PROVE FALSE
    OBVIOUS
  <2>1. m \in Int /\ n - 1 \in Int /\ m < Lines /\ n > 0
    BY <1>1, Durations
  <2>2. LT(m) <= LT(n - 1)
    <3>1. m <= n - 1
      BY <2>1
    <3> QED  BY <2>1, <3>1, TimeOf
  <2> QED  BY <1>1, <2>1, <2>2, TimeOf
<1>3. ~ (n < m)
  <2> SUFFICES ASSUME n < m PROVE FALSE
    OBVIOUS
  <2>1. n \in Int /\ m - 1 \in Int /\ n < Lines /\ m > 0
    BY <1>1, Durations
  <2>2. LT(n) <= LT(m - 1)
    <3>1. n <= m - 1
      BY <1>1, <2>1
    <3> QED  BY <2>1, <3>1, TimeOf
  <2> QED  BY <1>1, <2>1, <2>2, TimeOf
<1> QED  BY <1>1, <1>2, <1>3, Durations DEF m

\* A number of blanks that fits a time is the one.
LEMMA BlanksAre ==
    ASSUME NEW t \in Int, NEW n \in 0..Lines,
           n > 0 => BT(n - 1) < t, n < Lines => t <= BT(n)
    PROVE  BlanksBefore(t) = n
<1> DEFINE m == BlanksBefore(t)
<1>1. m \in 0..Lines /\ (m > 0 => BT(m - 1) < t) /\ (m < Lines => t <= BT(m))
  BY BlanksCounted
<1> HIDE DEF m
<1>2. ~ (m < n)
  <2> SUFFICES ASSUME m < n PROVE FALSE
    OBVIOUS
  <2>1. m \in Int /\ n - 1 \in Int /\ m < Lines /\ n > 0
    BY <1>1, Durations
  <2>2. BT(m) <= BT(n - 1)
    <3>1. m <= n - 1
      BY <2>1
    <3> QED  BY <2>1, <3>1, TimeOf
  <2> QED  BY <1>1, <2>1, <2>2, TimeOf
<1>3. ~ (n < m)
  <2> SUFFICES ASSUME n < m PROVE FALSE
    OBVIOUS
  <2>1. n \in Int /\ m - 1 \in Int /\ n < Lines /\ m > 0
    BY <1>1, Durations
  <2>2. BT(n) <= BT(m - 1)
    <3>1. n <= m - 1
      BY <1>1, <2>1
    <3> QED  BY <2>1, <3>1, TimeOf
  <2> QED  BY <1>1, <2>1, <2>2, TimeOf
<1> QED  BY <1>1, <1>2, <1>3, Durations DEF m

\* A clock later a line more has begun, if one begins now.
LEMMA LinesLater ==
    ASSUME NEW t \in Int
    PROVE  /\ LineAt(t) \subseteq {LinesBefore(t)}
           /\ LinesBefore(t + 1) = LinesBefore(t) + (IF LineAt(t) = {} THEN 0 ELSE 1)
<1> DEFINE n == LinesBefore(t)
<1>1. n \in 0..Lines /\ (n > 0 => LT(n - 1) < t) /\ (n < Lines => t <= LT(n))
  BY LinesCounted
<1>2. LineAt(t) = {k \in 0..(Lines - 1) : t = LT(k)}
  BY DEF LineAt, LT
<1> HIDE DEF n
<1>3. \A k \in 0..(Lines - 1) : t = LT(k) => k = n
  <2> SUFFICES ASSUME NEW k \in 0..(Lines - 1), t = LT(k) PROVE k = n
    OBVIOUS
  <2>1. k \in Int /\ n \in Int /\ n - 1 \in Int
    BY <1>1, Durations
  <2>2. ~ (k < n)
    <3> SUFFICES ASSUME k < n PROVE FALSE
      OBVIOUS
    <3>1. k <= n - 1
      BY <2>1
    <3>2. LT(k) <= LT(n - 1)
      BY <2>1, <3>1, TimeOf
    <3> QED  BY <1>1, <2>1, <3>2, TimeOf
  <2>3. ~ (n < k)
    <3> SUFFICES ASSUME n < k PROVE FALSE
      OBVIOUS
    <3>1. LT(n) + LineLen <= LT(k)
      BY <2>1, TimeOf
    <3>2. n < Lines
      BY <2>1, Durations
    <3> QED  BY <1>1, <2>1, <3>1, <3>2, TimeOf, Durations, SMTT(60)
  <2> QED  BY <2>1, <2>2, <2>3
<1>4. CASE LineAt(t) = {}
  <2>1. n < Lines => t # LT(n)
    BY <1>1, <1>2, <1>4, Durations
  <2>2. (n > 0 => LT(n - 1) < t + 1) /\ (n < Lines => t + 1 <= LT(n))
    <3>1. n \in Int /\ n - 1 \in Int
      BY <1>1, Durations
    <3>2. LT(n) \in Int /\ LT(n - 1) \in Int
      BY <3>1, TimeOf
    <3> QED  BY <1>1, <2>1, <3>2
  <2>3. LinesBefore(t + 1) = n
    BY <1>1, <2>2, LinesAre
  <2> QED  BY <1>1, <1>4, <2>3, Durations DEF n
<1>5. CASE LineAt(t) # {}
  <2>1. n \in 0..(Lines - 1) /\ t = LT(n)
    BY <1>2, <1>3, <1>5
  <2>2. n + 1 \in 0..Lines /\ (n + 1) - 1 = n
    BY <2>1, Durations
  <2>3. t + 1 <= LT(n + 1)
    BY <2>1, TimeOf, Durations
  <2>4. LinesBefore(t + 1) = n + 1
    BY <2>1, <2>2, <2>3, LinesAre
  <2>5. LineAt(t) \subseteq {n}
    BY <1>2, <1>3
  <2> QED  BY <1>5, <2>4, <2>5 DEF n
<1> QED  BY <1>4, <1>5

\* The same of blanks.
LEMMA BlanksLater ==
    ASSUME NEW t \in Int
    PROVE  BlanksBefore(t + 1) = BlanksBefore(t) + (IF BlankAt(t) = {} THEN 0 ELSE 1)
<1> DEFINE n == BlanksBefore(t)
<1>1. n \in 0..Lines /\ (n > 0 => BT(n - 1) < t) /\ (n < Lines => t <= BT(n))
  BY BlanksCounted
<1>2. BlankAt(t) = {k \in 0..(Lines - 1) : t = BT(k)}
  BY DEF BlankAt, BT, LT
<1> HIDE DEF n
<1>3. \A k \in 0..(Lines - 1) : t = BT(k) => k = n
  <2> SUFFICES ASSUME NEW k \in 0..(Lines - 1), t = BT(k) PROVE k = n
    OBVIOUS
  <2>1. k \in Int /\ n \in Int /\ n - 1 \in Int
    BY <1>1, Durations
  <2>2. ~ (k < n)
    <3> SUFFICES ASSUME k < n PROVE FALSE
      OBVIOUS
    <3>1. k <= n - 1
      BY <2>1
    <3>2. BT(k) <= BT(n - 1)
      BY <2>1, <3>1, TimeOf
    <3> QED  BY <1>1, <2>1, <3>2, TimeOf
  <2>3. ~ (n < k)
    <3> SUFFICES ASSUME n < k PROVE FALSE
      OBVIOUS
    <3>1. BT(n) + LineLen <= BT(k)
      BY <2>1, TimeOf
    <3>2. n < Lines
      BY <2>1, Durations
    <3> QED  BY <1>1, <2>1, <3>1, <3>2, TimeOf, Durations, SMTT(60)
  <2> QED  BY <2>1, <2>2, <2>3
<1>4. CASE BlankAt(t) = {}
  <2>1. n < Lines => t # BT(n)
    BY <1>1, <1>2, <1>4, Durations
  <2>2. (n > 0 => BT(n - 1) < t + 1) /\ (n < Lines => t + 1 <= BT(n))
    <3>1. n \in Int /\ n - 1 \in Int
      BY <1>1, Durations
    <3>2. BT(n) \in Int /\ BT(n - 1) \in Int
      BY <3>1, TimeOf
    <3> QED  BY <1>1, <2>1, <3>2
  <2>3. BlanksBefore(t + 1) = n
    BY <1>1, <2>2, BlanksAre
  <2> QED  BY <1>1, <1>4, <2>3, Durations DEF n
<1>5. CASE BlankAt(t) # {}
  <2>1. n \in 0..(Lines - 1) /\ t = BT(n)
    BY <1>2, <1>3, <1>5
  <2>2. n + 1 \in 0..Lines /\ (n + 1) - 1 = n
    BY <2>1, Durations
  <2>3. t + 1 <= BT(n + 1)
    BY <2>1, TimeOf, Durations
  <2>4. BlanksBefore(t + 1) = n + 1
    BY <2>1, <2>2, <2>3, BlanksAre
  <2> QED  BY <1>5, <2>4 DEF n
<1> QED  BY <1>4, <1>5

-----------------------------------------------------------------------------
(* Rendering, operation by operation                                       *)

LazyT == [vram : Int, phase : Int, scan : Int, hblank : Int, count : Int,
          next : Int, drawn : Seq(Int)]

\* vtemp->vaddr changes the address of a background that is on.
LEMMA LoadIs ==
    ASSUME NEW s \in LazyT, temp \in Int
    PROVE  /\ Load(s) \in LazyT
           /\ Load(s).phase = IF s.phase > 0 THEN s.phase ELSE 1
           /\ Load(s).vram = IF s.phase > 0 \/ ~bg THEN s.vram ELSE temp
           /\ Load(s).scan = s.scan /\ Load(s).hblank = s.hblank
           /\ Load(s).count = s.count /\ Load(s).next = s.next /\ Load(s).drawn = s.drawn
<1>1. CASE s.phase > 0
  BY <1>1 DEF Load
<1>2. CASE ~ (s.phase > 0)
  <2>1. Load(s) = [s EXCEPT !.phase = 1, !.vram = IF bg THEN temp ELSE s.vram]
    BY <1>2 DEF Load
  <2>2. PICK v \in Int : v = IF bg THEN temp ELSE s.vram
    BY DEF LazyT
  <2>3. PICK x : x = [s EXCEPT !.phase = 1]
    OBVIOUS
  <2>4. x \in LazyT
    BY <2>3, SMTT(60) DEF LazyT
  <2>6. x.phase = 1 /\ x.vram = s.vram /\ x.scan = s.scan /\ x.hblank = s.hblank
        /\ x.count = s.count /\ x.next = s.next /\ x.drawn = s.drawn
    BY <2>3 DEF LazyT
  <2>5. Load(s) = [x EXCEPT !.vram = v]
    BY <2>1, <2>2, <2>3
  <2> QED  BY <1>2, <2>2, <2>4, <2>5, <2>6 DEF LazyT
<1> QED  BY <1>1, <1>2

\* run_hblank changes the address alone.
LEMMA HblankIs ==
    ASSUME NEW s \in LazyT, temp \in Int, NEW n \in Nat
    PROVE  /\ RunHblank(s, n) \in LazyT
           /\ RunHblank(s, n).vram = IF bg THEN Below(s.vram, temp, n) ELSE s.vram
           /\ RunHblank(s, n).phase = s.phase
           /\ RunHblank(s, n).scan = s.scan /\ RunHblank(s, n).hblank = s.hblank
           /\ RunHblank(s, n).count = s.count /\ RunHblank(s, n).next = s.next
           /\ RunHblank(s, n).drawn = s.drawn
<1>1. s.vram \in Int
  BY DEF LazyT
<1>2. Below(s.vram, temp, n) \in Int
  BY <1>1, BelowInt
<1> QED  BY <1>1, <1>2 DEF RunHblank, LazyT

\* The blank that is due before the next line.
LEMMA BeforeIs ==
    ASSUME NEW s \in LazyT, temp \in Int
    PROVE  /\ BlankBefore(s) \in LazyT
           /\ BlankBefore(s).vram = IF s.hblank < s.scan /\ bg THEN Below(s.vram, temp, 1)
                                    ELSE s.vram
           /\ BlankBefore(s).hblank = IF s.hblank < s.scan THEN s.hblank + LineLen ELSE s.hblank
           /\ BlankBefore(s).phase = s.phase /\ BlankBefore(s).scan = s.scan
           /\ BlankBefore(s).count = s.count /\ BlankBefore(s).next = s.next
           /\ BlankBefore(s).drawn = s.drawn
<1> DEFINE u == [s EXCEPT !.hblank = @ + LineLen]
<1>1. u \in LazyT /\ u.vram = s.vram /\ u.phase = s.phase /\ u.scan = s.scan
      /\ u.hblank = s.hblank + LineLen /\ u.count = s.count /\ u.next = s.next
      /\ u.drawn = s.drawn
  <2>1. PICK h \in Int : h = s.hblank + LineLen
    BY Durations DEF LazyT
  <2>2. u = [s EXCEPT !.hblank = h]
    BY <2>1
  <2> HIDE DEF u
  <2> QED  BY <2>1, <2>2 DEF LazyT
<1>2. BlankBefore(s) = IF s.hblank < s.scan THEN RunHblank(u, 1) ELSE s
  BY DEF BlankBefore
<1> HIDE DEF u
<1>3. CASE s.hblank < s.scan
  <2>1. BlankBefore(s) = RunHblank(u, 1)
    BY <1>2, <1>3
  <2>2. 1 \in Nat
    OBVIOUS
  <2> QED  BY <1>1, <1>3, <2>1, <2>2, HblankIs
<1>4. CASE ~ (s.hblank < s.scan)
  BY <1>2, <1>4
<1> QED  BY <1>3, <1>4

\* The blank that is due after the lines, and what is waited for next.
LEMMA AfterIs ==
    ASSUME NEW s \in LazyT, temp \in Int, NEW t \in Int
    PROVE  /\ BlankAfter(s, t) \in LazyT
           /\ BlankAfter(s, t).vram = IF s.hblank < t /\ bg THEN Below(s.vram, temp, 1)
                                      ELSE s.vram
           /\ BlankAfter(s, t).hblank = IF s.hblank < t THEN s.hblank + LineLen ELSE s.hblank
           /\ BlankAfter(s, t).next = IF s.hblank < t THEN s.scan ELSE s.hblank
           /\ BlankAfter(s, t).phase = s.phase /\ BlankAfter(s, t).scan = s.scan
           /\ BlankAfter(s, t).count = s.count /\ BlankAfter(s, t).drawn = s.drawn
<1> DEFINE u == [s EXCEPT !.hblank = @ + LineLen]
<1>1. u \in LazyT /\ u.vram = s.vram /\ u.phase = s.phase /\ u.scan = s.scan
      /\ u.hblank = s.hblank + LineLen /\ u.count = s.count /\ u.next = s.next
      /\ u.drawn = s.drawn
  <2>1. PICK h \in Int : h = s.hblank + LineLen
    BY Durations DEF LazyT
  <2>2. u = [s EXCEPT !.hblank = h]
    BY <2>1
  <2> HIDE DEF u
  <2> QED  BY <2>1, <2>2 DEF LazyT
<1> DEFINE r == RunHblank(u, 1)
<1>2. BlankAfter(s, t) = IF s.hblank < t THEN [r EXCEPT !.next = s.scan]
                         ELSE [s EXCEPT !.next = s.hblank]
  BY DEF BlankAfter
<1> HIDE DEF u
<1>3. /\ r \in LazyT /\ r.vram = IF bg THEN Below(s.vram, temp, 1) ELSE s.vram
      /\ r.phase = s.phase /\ r.scan = s.scan
      /\ r.hblank = s.hblank + LineLen /\ r.count = s.count /\ r.next = s.next
      /\ r.drawn = s.drawn
  <2>1. 1 \in Nat
    OBVIOUS
  <2> QED  BY <1>1, <2>1, HblankIs
<1> HIDE DEF r
<1> QED  BY <1>2, <1>3 DEF LazyT

\* The lines drawn together, and the blanks between them.
LEMMA ScanlinesIs ==
    ASSUME NEW s \in LazyT, temp \in Int, NEW t \in Int, s.scan < t
    PROVE  LET n == (t - s.scan + LineLen) \div LineLen
               v == BlankBefore(s).vram
               r == Scanlines(s, t)
           IN  /\ n \in Nat /\ n > 0
               /\ n * LineLen - LineLen <= t - s.scan /\ t - s.scan < n * LineLen
               /\ r \in LazyT
               /\ r.vram = IF bg THEN Below(v, temp, n - 1) ELSE v
               /\ r.phase = s.phase /\ r.count = s.count + n /\ r.next = s.next
               /\ r.scan = s.scan + n * LineLen
               /\ r.hblank = BlankBefore(s).hblank + (n - 1) * LineLen
               /\ r.drawn = [i \in 1..n |-> IF bg /\ i > 1 THEN Below(v, temp, i - 1) ELSE v]
<1> DEFINE n == (t - s.scan + LineLen) \div LineLen
           d == t - s.scan + LineLen
           b == BlankBefore(s)
<1>1. s.scan \in Int /\ s.count \in Int
  BY DEF LazyT
<1>2. d \in Int /\ d > LineLen /\ LineLen \in Nat /\ LineLen > 0
  BY <1>1, Durations
<1>3. n \in Int /\ d % LineLen \in 0..(LineLen - 1) /\ d = n * LineLen + (d % LineLen)
  <2> HIDE DEF d
  <2>1. d \div LineLen \in Int /\ d % LineLen \in 0..(LineLen - 1)
        /\ d = (d \div LineLen) * LineLen + (d % LineLen)
    BY <1>2, Division
  <2> QED  BY <2>1 DEF d
<1>4. n * LineLen \in Int
  <2> HIDE DEF n
  <2> QED  BY <1>2, <1>3
<1>5. n * LineLen - LineLen <= t - s.scan /\ t - s.scan < n * LineLen
  <2> HIDE DEF n
  <2> QED  BY <1>1, <1>2, <1>3, <1>4
<1>6. n > 0
  <2> HIDE DEF n
  <2>1. n <= 0 => n * LineLen <= 0
    BY <1>2, <1>3
  <2> QED  BY <1>1, <1>3, <1>4, <1>5, <2>1
<1>7. /\ b \in LazyT /\ b.phase = s.phase /\ b.scan = s.scan
      /\ b.count = s.count /\ b.next = s.next
  BY BeforeIs
<1> DEFINE lines == [i \in 1..n |-> IF bg /\ i > 1 THEN Below(b.vram, temp, i - 1) ELSE b.vram]
<1> HIDE DEF n, b
<1>8. lines \in Seq(Int)
  <2>1. b.vram \in Int
    BY <1>7 DEF LazyT
  <2>2. \A i \in 1..n : i > 1 => Below(b.vram, temp, i - 1) \in Int
    <3> SUFFICES ASSUME NEW i \in 1..n, i > 1 PROVE Below(b.vram, temp, i - 1) \in Int
      OBVIOUS
    <3>1. i - 1 \in Nat
      BY <1>3
    <3> QED  BY <2>1, <3>1, BelowInt
  <2>3. \A i \in 1..n : lines[i] \in Int
    BY <2>1, <2>2
  <2>4. n \in Nat /\ lines = [i \in 1..n |-> lines[i]]
    BY <1>3, <1>6
  <2> HIDE DEF lines
  <2> QED  BY <2>3, <2>4
<1> DEFINE u == [Draw(b, n) EXCEPT !.scan = @ + n * LineLen, !.hblank = @ + (n - 1) * LineLen]
<1>9. (n - 1) * LineLen \in Int
  BY <1>2, <1>3
<1>10. /\ u \in LazyT /\ u.vram = b.vram /\ u.phase = s.phase /\ u.count = s.count + n
       /\ u.next = s.next /\ u.scan = s.scan + n * LineLen
       /\ u.hblank = b.hblank + (n - 1) * LineLen /\ u.drawn = lines
  <2>1. Draw(b, n) = [b EXCEPT !.count = @ + n, !.drawn = lines]
    BY DEF Draw
  <2> HIDE DEF lines
  <2>2. PICK c \in Int, e \in Int, h \in Int :
            c = s.count + n /\ e = s.scan + n * LineLen /\ h = b.hblank + (n - 1) * LineLen
    <3>1. b.hblank \in Int
      BY <1>7 DEF LazyT
    <3> QED  BY <1>1, <1>3, <1>4, <1>9, <3>1
  <2>3. PICK x : x = [b EXCEPT !.count = c]
    OBVIOUS
  <2>4. /\ x \in LazyT /\ x.phase = s.phase /\ x.vram = b.vram /\ x.scan = s.scan
        /\ x.hblank = b.hblank /\ x.count = c /\ x.next = s.next
    BY <1>7, <2>2, <2>3 DEF LazyT
  <2>5. PICK y : y = [x EXCEPT !.drawn = lines]
    OBVIOUS
  <2>6. /\ y \in LazyT /\ y.phase = s.phase /\ y.vram = b.vram /\ y.scan = s.scan
        /\ y.hblank = b.hblank /\ y.count = c /\ y.next = s.next /\ y.drawn = lines
    BY <1>8, <2>4, <2>5 DEF LazyT
  <2>7. Draw(b, n) = y
    BY <1>7, <2>1, <2>2, <2>3, <2>5
  <2>8. PICK z : z = [y EXCEPT !.scan = e]
    OBVIOUS
  <2>9. /\ z \in LazyT /\ z.phase = s.phase /\ z.vram = b.vram /\ z.scan = e
        /\ z.hblank = b.hblank /\ z.count = c /\ z.next = s.next /\ z.drawn = lines
    BY <2>2, <2>6, <2>8 DEF LazyT
  <2>10. u = [z EXCEPT !.hblank = h]
    BY <2>2, <2>6, <2>7, <2>8, <2>9
  <2> HIDE DEF u
  <2> QED  BY <2>2, <2>9, <2>10 DEF LazyT
<1>11. Scanlines(s, t) = RunHblank(u, n - 1)
  <2>1. ~ (s.scan >= t)
    BY <1>1
  <2> QED  BY <2>1 DEF Scanlines, n, b
<1> HIDE DEF u, lines
<1>12. n - 1 \in Nat
  BY <1>3, <1>6
<1>13. /\ Scanlines(s, t) \in LazyT
       /\ Scanlines(s, t).vram = IF bg THEN Below(b.vram, temp, n - 1) ELSE b.vram
       /\ Scanlines(s, t).phase = s.phase /\ Scanlines(s, t).count = s.count + n
       /\ Scanlines(s, t).next = s.next /\ Scanlines(s, t).scan = s.scan + n * LineLen
       /\ Scanlines(s, t).hblank = b.hblank + (n - 1) * LineLen
       /\ Scanlines(s, t).drawn = lines
  BY <1>10, <1>11, <1>12, HblankIs, SMTT(60)
<1> QED  BY <1>3, <1>5, <1>6, <1>13 DEF n, b, lines

-----------------------------------------------------------------------------
(* The invariant                                                           *)

\* before the picture; after the dot with no line drawn; between the blank and
\* the next line; between a line and its blank
Early(s)   == s.phase \in 0..1 /\ s.count = 0 /\ s.hblank = BT(0)
                /\ s.next = IF s.phase = 0 THEN LoadTime ELSE DotTime
Waits(s)   == s.phase = 2 /\ s.count = 0 /\ s.hblank = BT(0) /\ s.next = BT(0)
Blanked(s) == s.phase = 2 /\ s.count > 0 /\ s.hblank = BT(s.count) /\ s.next = s.scan
Drawn(s)   == s.phase = 2 /\ s.count > 0 /\ s.hblank = BT(s.count - 1) /\ s.next = s.hblank

\* the blanks behind s
Passed(s) == IF s.hblank < s.scan THEN s.count - 1 ELSE s.count

Shape(s) ==
    /\ s \in LazyT /\ s.count \in 0..Lines /\ s.scan = LT(s.count)
    /\ Early(s) \/ Waits(s) \/ Blanked(s) \/ Drawn(s)

\* what s did was due
InTime(s, t) ==
    /\ s.phase > 0 => LoadTime < t
    /\ s.phase = 2 => DotTime < t
    /\ s.count > 0 => LT(s.count - 1) <= t
    /\ Passed(s) > 0 => BT(Passed(s) - 1) < t

\* the address, loaded from w if b, and n lines further down
From(s, t, w, b)     == IF s.phase = 0 /\ LoadTime < t /\ b THEN w ELSE s.vram
Moved(s, n, t, w, b) == IF b /\ n > 0 THEN Below(From(s, t, w, b), w, n) ELSE From(s, t, w, b)

\* a is the address, once what is due is done, but for its column between a
\* line and its blank
LiveIs(s, a, t, w, b) ==
    \/ a = Moved(s, BlanksBefore(t) - Passed(s), t, w, b)
    \/ s.hblank < s.scan /\ b /\ BlanksBefore(t) = Passed(s) /\ SameRow(a, s.vram)

\* the lines that began are those due, from the addresses they began with
Owed(s, t) == IF s.count < LinesBefore(t) THEN LinesBefore(t) - s.count ELSE 0
LinesOf(s, lines, t, w, b) ==
    \A i \in 1..Len(lines) :
        (i = 1 /\ FirstMissed(s)) \/ lines[i] = Moved(s, s.count + i - 1 - Passed(s), t, w, b)

Good(s, lines, a, e, t, w, b) ==
    /\ Shape(s) /\ InTime(s, t) /\ t \in 0..FrameEnd
    /\ a \in Int /\ w \in Int /\ b \in BOOLEAN
    /\ lines \in Seq(Int) /\ Len(lines) = Owed(s, t)
    /\ e => LiveIs(s, a, t, w, b) /\ LinesOf(s, lines, t, w, b)

\* nothing is due
Settled(s, t) == Shape(s) /\ InTime(s, t) /\ t <= s.next

\* What the shape says of blanks.
LEMMA ShapeIs ==
    ASSUME NEW s, Shape(s)
    PROVE  /\ s.hblank = BT(Passed(s)) /\ Passed(s) \in 0..Lines
           /\ s.hblank < s.scan <=> Drawn(s)
           /\ Drawn(s) => Passed(s) = s.count - 1
           /\ ~ Drawn(s) => Passed(s) = s.count
           /\ FirstMissed(s) <=> Waits(s)
           /\ s.count \in Int /\ s.scan \in Int /\ s.hblank \in Int /\ s.vram \in Int
<1>1. /\ s.count \in Int /\ s.scan \in Int /\ s.hblank \in Int /\ s.vram \in Int
      /\ s.count \in 0..Lines /\ s.scan = LT(s.count) /\ s.count - 1 \in Int
  BY DEF Shape, LazyT
<1>2. /\ LT(0) = FirstLine /\ BT(0) = LT(0) + HblankIn
      /\ BT(s.count) = LT(s.count) + HblankIn
      /\ BT(s.count - 1) = LT(s.count - 1) + HblankIn
      /\ LT(s.count - 1) + LineLen <= LT(s.count)
      /\ LT(s.count) \in Int /\ LT(s.count - 1) \in Int /\ LT(0) \in Int
  <2>1. PICK k \in Int : k = s.count
    BY <1>1
  <2>2. /\ LT(k) \in Int /\ BT(k) = LT(k) + HblankIn
        /\ LT(k - 1) \in Int /\ BT(k - 1) = LT(k - 1) + HblankIn
        /\ LT(k - 1) + LineLen = LT(k) /\ LT(0) = FirstLine /\ BT(0) = FirstLine + HblankIn
    BY TimesAt
  <2> QED  BY <2>1, <2>2, Durations
<1>3. Drawn(s) => s.hblank < s.scan
  BY <1>1, <1>2, Durations DEF Drawn
<1>4. Early(s) \/ Waits(s) \/ Blanked(s) => ~ (s.hblank < s.scan)
  BY <1>1, <1>2, Durations DEF Early, Waits, Blanked
<1>5. s.hblank < s.scan <=> Drawn(s)
  BY <1>3, <1>4 DEF Shape
<1>6. Drawn(s) => Passed(s) = s.count - 1
  BY <1>5 DEF Passed
<1>7. ~ Drawn(s) => Passed(s) = s.count
  BY <1>5 DEF Passed
<1>8. s.hblank = BT(Passed(s)) /\ Passed(s) \in 0..Lines
  <2>1. CASE Drawn(s)
    <3>1. s.count - 1 \in 0..Lines /\ s.hblank = BT(s.count - 1)
      BY <1>1, <2>1, Durations DEF Drawn
    <3> QED  BY <1>6, <2>1, <3>1
  <2>2. CASE ~ Drawn(s)
    <3>1. s.hblank = BT(s.count)
      BY <1>1, <2>2 DEF Shape, Early, Waits, Blanked
    <3> QED  BY <1>1, <1>7, <2>2, <3>1
  <2> QED  BY <2>1, <2>2
<1>9. FirstMissed(s) <=> Waits(s)
  <2>1. Waits(s) => FirstMissed(s)
    BY <1>2, Durations DEF Waits, FirstMissed
  <2>2. FirstMissed(s) => Waits(s)
    BY DEF Waits, FirstMissed, Shape, Early, Blanked, Drawn
  <2> QED  BY <2>1, <2>2
<1> QED  BY <1>1, <1>5, <1>6, <1>7, <1>8, <1>9

\* A state with nothing due has counted right.
LEMMA SettledIs ==
    ASSUME NEW s, NEW t \in 0..FrameEnd, NEW w, NEW b, Settled(s, t)
    PROVE  /\ BlanksBefore(t) = Passed(s)
           /\ LinesBefore(t) <= s.count \/ (Waits(s) /\ LinesBefore(t) <= 1)
           /\ From(s, t, w, b) = s.vram
<1>1. Shape(s) /\ InTime(s, t) /\ t <= s.next /\ t \in Int
  BY DEF Settled
<1>2. /\ s.hblank = BT(Passed(s)) /\ Passed(s) \in 0..Lines
      /\ s.count \in Int /\ s.scan \in Int /\ s.hblank \in Int
      /\ s.count \in 0..Lines /\ s.scan = LT(s.count) /\ s.next \in Int
  BY <1>1, ShapeIs DEF Shape, LazyT
<1>3. /\ LT(0) = FirstLine /\ BT(0) = LT(0) + HblankIn /\ LT(0) \in Int
      /\ BT(s.count) = LT(s.count) + HblankIn /\ LT(s.count) \in Int
      /\ BT(s.count - 1) = LT(s.count - 1) + HblankIn /\ LT(s.count - 1) \in Int
      /\ LT(s.count - 1) + LineLen = LT(s.count) /\ LT(0) <= LT(s.count)
  <2>1. PICK k \in Int : k = s.count /\ k >= 0
    BY <1>2
  <2>2. /\ LT(k) \in Int /\ BT(k) = LT(k) + HblankIn
        /\ LT(k - 1) \in Int /\ BT(k - 1) = LT(k - 1) + HblankIn
        /\ LT(k - 1) + LineLen = LT(k) /\ LT(0) = FirstLine /\ BT(0) = FirstLine + HblankIn
        /\ (k >= 0 => LT(0) <= LT(k))
    BY TimesAt
  <2> QED  BY <2>1, <2>2, Durations
<1>4. t <= s.hblank
  <2>1. CASE Early(s)
    BY <1>1, <1>2, <1>3, <2>1, Durations DEF Early
  <2>2. CASE Waits(s)
    BY <1>1, <2>2 DEF Waits
  <2>3. CASE Blanked(s)
    BY <1>1, <1>2, <1>3, <2>3, Durations DEF Blanked
  <2>4. CASE Drawn(s)
    BY <1>1, <2>4 DEF Drawn
  <2> QED  BY <1>1, <2>1, <2>2, <2>3, <2>4 DEF Shape
<1>5. BlanksBefore(t) = Passed(s)
  BY <1>1, <1>2, <1>4, BlanksAre DEF InTime
<1>6. From(s, t, w, b) = s.vram
  <2>1. s.phase = 0 => t <= LoadTime
    BY <1>1 DEF Shape, Early, Waits, Blanked, Drawn
  <2> QED  BY <1>1, <2>1, Durations DEF From
<1>7. LinesBefore(t) <= s.count \/ (Waits(s) /\ LinesBefore(t) <= 1)
  <2> DEFINE n == LinesBefore(t)
  <2>1. n \in 0..Lines /\ (n > 0 => LT(n - 1) < t)
    BY <1>1, LinesCounted
  <2> HIDE DEF n
  <2>2. n \in Int /\ n - 1 \in Int /\ LT(n - 1) \in Int
    BY <2>1, TimeOf
  <2>3. CASE Early(s)
    <3>1. t <= LT(0)
      BY <1>1, <1>2, <1>3, <2>3, Durations DEF Early
    <3>2. n > 0 => LT(0) <= LT(n - 1)
      BY <2>2, TimeOf
    <3>3. ~ (n > 0)
      BY <1>1, <1>3, <2>1, <2>2, <3>1, <3>2
    <3> QED  BY <1>2, <2>1, <2>2, <3>3 DEF n
  <2>4. CASE Waits(s)
    <3>1. n > 1 => LT(0) + LineLen <= LT(n - 1)
      BY <2>2, TimeOf
    <3>2. t <= LT(0) + HblankIn
      BY <1>1, <1>3, <2>4 DEF Waits
    <3>3. ~ (n > 1)
      BY <1>1, <1>3, <2>1, <2>2, <3>1, <3>2, Durations
    <3> QED  BY <2>2, <2>4, <3>3 DEF n
  <2>5. CASE Blanked(s) \/ Drawn(s)
    <3>1. t <= LT(s.count)
      BY <1>1, <1>2, <1>3, <2>5, Durations DEF Blanked, Drawn
    <3>2. n > s.count => LT(s.count) <= LT(n - 1)
      <4>1. PICK k \in Int, m \in Int : k = s.count /\ m = n - 1
        BY <1>2, <2>2
      <4>2. k <= m => LT(k) <= LT(m)
        BY TimeOf
      <4> QED  BY <2>2, <4>1, <4>2
    <3>3. ~ (n > s.count)
      BY <1>1, <1>2, <1>3, <2>1, <2>2, <3>1, <3>2
    <3> QED  BY <1>2, <2>2, <3>3 DEF n
  <2> QED  BY <1>1, <2>3, <2>4, <2>5 DEF Shape
<1> QED  BY <1>5, <1>6, <1>7

-----------------------------------------------------------------------------
(* Up to the dot                                                           *)

\* Moving on is moving by the sum.
LEMMA MovedOn ==
    ASSUME NEW s, s.vram \in Int, NEW t \in Int, NEW w \in Int, NEW b \in BOOLEAN,
           NEW n \in Nat, NEW m \in Nat
    PROVE  /\ Moved(s, n, t, w, b) \in Int /\ From(s, t, w, b) \in Int
           /\ Moved(s, n + m, t, w, b) = IF b /\ m > 0 THEN Below(Moved(s, n, t, w, b), w, m)
                                         ELSE Moved(s, n, t, w, b)
<1>1. From(s, t, w, b) \in Int
  BY DEF From
<1>2. PICK f \in Int : f = From(s, t, w, b)
  BY <1>1
<1>3. /\ Moved(s, n, t, w, b) = IF b /\ n > 0 THEN Below(f, w, n) ELSE f
      /\ Moved(s, n + m, t, w, b) = IF b /\ n + m > 0 THEN Below(f, w, n + m) ELSE f
  BY <1>2 DEF Moved
<1>4. Below(f, w, n) \in Int
  BY BelowInt
<1>5. Moved(s, n, t, w, b) \in Int
  BY <1>3, <1>4
<1>6. Below(Below(f, w, n), w, m) = Below(f, w, n + m)
  BY BelowAdds
<1>7. Moved(s, n + m, t, w, b) = IF b /\ m > 0 THEN Below(Moved(s, n, t, w, b), w, m)
                                 ELSE Moved(s, n, t, w, b)
  <2>1. CASE m = 0
    <3>1. n + m = n
      BY <2>1
    <3> QED  BY <2>1, <3>1
  <2>2. CASE m > 0 /\ n > 0
    <3>1. n + m > 0
      BY <2>2
    <3> QED  BY <1>3, <1>6, <2>2, <3>1
  <2>3. CASE m > 0 /\ n = 0
    <3>1. n + m = m
      BY <2>3
    <3> QED  BY <1>3, <2>3, <3>1
  <2> QED  BY <2>1, <2>2, <2>3
<1> QED  BY <1>1, <1>5, <1>7

\* What catching up does: nothing is due any more, the address is the one
\* on time, but for its column between a line and its blank, and the lines
\* rendered are from the addresses they began with.
CaughtUp(s, r, lines, a, e, t, b) ==
    /\ Settled(r, t)
    /\ e => a = r.vram \/ (Drawn(r) /\ b /\ SameRow(a, r.vram))
    /\ IF r.drawn = <<>> THEN r.count = s.count
       ELSE Len(lines) <= Len(r.drawn) /\ LinesBefore(t) <= r.count
    /\ e => \A i \in DOMAIN r.drawn :
            \/ i = 1 /\ FirstMissed(s)
            \/ IF i <= Len(lines) THEN r.drawn[i] = lines[i]
               ELSE r.drawn[i] = a /\ LineAt(t) # {}

\* When nothing is due, nothing happens.
LEMMA NothingDue ==
    ASSUME NEW s, NEW lines, NEW a, NEW e, NEW t, NEW w, NEW b,
           Good(s, lines, a, e, t, w, b), s.drawn = <<>>, ~ (t > s.next)
    PROVE  CaughtUp(s, s, lines, a, e, t, b)
<1>1. Shape(s) /\ InTime(s, t) /\ t \in 0..FrameEnd /\ w \in Int
  BY DEF Good
<1>2. s.next \in Int /\ t \in Int
  BY <1>1, TimeOf DEF Shape, LazyT
<1>3. Settled(s, t)
  BY <1>1, <1>2 DEF Settled
<1>4. BlanksBefore(t) = Passed(s) /\ From(s, t, w, b) = s.vram
  BY <1>1, <1>3, SettledIs
<1>5. Passed(s) \in 0..Lines /\ (s.hblank < s.scan <=> Drawn(s))
  BY <1>1, ShapeIs
<1>6. Moved(s, BlanksBefore(t) - Passed(s), t, w, b) = s.vram
  <2>1. BlanksBefore(t) - Passed(s) = 0
    BY <1>4, <1>5
  <2> QED  BY <1>4, <2>1 DEF Moved
<1>7. e => a = s.vram \/ (Drawn(s) /\ b /\ SameRow(a, s.vram))
  BY <1>5, <1>6 DEF Good, LiveIs
<1>8. \A i \in DOMAIN s.drawn : FALSE
  OBVIOUS
<1> QED  BY <1>3, <1>7, <1>8 DEF CaughtUp

\* Before the dot only the address is loaded.
LEMMA LoadDue ==
    ASSUME NEW s, NEW lines, NEW a, NEW e, NEW t, temp \in Int, bg \in BOOLEAN,
           Good(s, lines, a, e, t, temp, bg), s.drawn = <<>>, t > s.next,
           s.phase <= 1, t <= DotTime
    PROVE  CaughtUp(s, [Load(s) EXCEPT !.next = DotTime], lines, a, e, t, bg)
<1>1. Shape(s) /\ InTime(s, t) /\ t \in 0..FrameEnd
  BY DEF Good
<1>2. /\ s.next \in Int /\ t \in Int /\ s.phase \in Int /\ s.count \in Int
      /\ s.vram \in Int /\ s \in LazyT
  BY <1>1, TimeOf DEF Shape, LazyT
<1>3. Early(s) /\ s.phase = 0 /\ LoadTime < t
  <2>1. Early(s)
    BY <1>1 DEF Shape, Waits, Blanked, Drawn
  <2> QED  BY <1>2, <2>1 DEF Early
<1>4. PICK l : l = Load(s)
  OBVIOUS
<1>5. /\ l \in LazyT /\ l.phase = 1 /\ l.vram = (IF bg THEN temp ELSE s.vram)
      /\ l.scan = s.scan /\ l.hblank = s.hblank /\ l.count = s.count /\ l.drawn = <<>>
  BY <1>2, <1>3, <1>4, LoadIs
<1>6. PICK r : r = [l EXCEPT !.next = DotTime]
  OBVIOUS
<1>7. /\ r \in LazyT /\ r.phase = 1 /\ r.vram = (IF bg THEN temp ELSE s.vram)
      /\ r.scan = s.scan /\ r.hblank = s.hblank /\ r.count = s.count /\ r.drawn = <<>>
      /\ r.next = DotTime
  BY <1>5, <1>6, Durations, SMTT(60) DEF LazyT
<1>8. s.count = 0 /\ s.hblank = BT(0) /\ s.scan = LT(s.count) /\ s.count \in 0..Lines
  BY <1>1, <1>3 DEF Early, Shape
<1>9. Shape(r)
  BY <1>7, <1>8 DEF Shape, Early
<1>10. ~ Drawn(s)
  BY <1>3 DEF Drawn
<1>11. Passed(s) = 0 /\ ~ (s.hblank < s.scan)
  BY <1>1, <1>8, <1>10, ShapeIs
<1>12. Passed(r) = 0
  BY <1>7, <1>11, <1>8 DEF Passed
<1>13. Settled(r, t)
  BY <1>2, <1>3, <1>7, <1>8, <1>9, <1>12 DEF Settled, InTime
<1>14. BlanksBefore(t) = 0
  BY <1>1, <1>12, <1>13, SettledIs
<1>15. Moved(s, BlanksBefore(t) - Passed(s), t, temp, bg) = r.vram
  <2>1. BlanksBefore(t) - Passed(s) = 0
    BY <1>11, <1>14
  <2> QED  BY <1>3, <1>7, <2>1 DEF Moved, From
<1>16. e => a = r.vram
  BY <1>11, <1>15 DEF Good, LiveIs
<1>17. \A i \in DOMAIN r.drawn : FALSE
  BY <1>7
<1>18. CaughtUp(s, r, lines, a, e, t, bg)
  BY <1>7, <1>13, <1>16, <1>17 DEF CaughtUp
<1> QED  BY <1>4, <1>6, <1>18

\* the lazy state once the dot is passed
AfterDot(s) == [Load(s) EXCEPT !.phase = 2]

\* What passing the dot changes: the phase, and the address when the load was due.
LEMMA AfterDotIs ==
    ASSUME NEW s, NEW t, temp \in Int, bg \in BOOLEAN, Shape(s), InTime(s, t),
           t \in 0..FrameEnd, s.phase = 2 \/ t > DotTime
    PROVE  /\ AfterDot(s) \in LazyT /\ AfterDot(s).vram = From(s, t, temp, bg)
           /\ AfterDot(s).phase = 2 /\ AfterDot(s).scan = s.scan
           /\ AfterDot(s).hblank = s.hblank /\ AfterDot(s).count = s.count
           /\ AfterDot(s).next = s.next /\ AfterDot(s).drawn = s.drawn
           /\ DotTime < t /\ LoadTime < t /\ s.phase \in 0..2
<1>1. s \in LazyT /\ t \in Int /\ s.phase \in Int
  BY TimeOf DEF Shape, LazyT
<1>2. s.phase \in 0..2
  BY DEF Shape, Early, Waits, Blanked, Drawn
<1>3. DotTime < t /\ LoadTime < t
  BY <1>1, Durations DEF InTime
<1>4. PICK l : l = Load(s)
  OBVIOUS
<1>5. /\ l \in LazyT /\ l.vram = From(s, t, temp, bg)
      /\ l.scan = s.scan /\ l.hblank = s.hblank /\ l.count = s.count
      /\ l.next = s.next /\ l.drawn = s.drawn
  <2>1. l.vram = IF s.phase > 0 \/ ~bg THEN s.vram ELSE temp
    BY <1>1, <1>4, LoadIs
  <2>2. l.vram = From(s, t, temp, bg)
    BY <1>2, <1>3, <2>1 DEF From
  <2> QED  BY <1>1, <1>4, <2>2, LoadIs
<1>6. PICK r : r = [l EXCEPT !.phase = 2]
  OBVIOUS
<1>7. /\ r \in LazyT /\ r.vram = l.vram /\ r.phase = 2 /\ r.scan = l.scan
      /\ r.hblank = l.hblank /\ r.count = l.count /\ r.next = l.next /\ r.drawn = l.drawn
  BY <1>5, <1>6, SMTT(60) DEF LazyT
<1>8. AfterDot(s) = r
  BY <1>4, <1>6 DEF AfterDot
<1> QED  BY <1>2, <1>3, <1>5, <1>7, <1>8

-----------------------------------------------------------------------------
(* Lines and blanks in a batch                                             *)

\* With no line due, the blank before the next one may be, or the dot is
\* passed and nothing is.
LEMMA BlankDue ==
    ASSUME NEW s, NEW lines, NEW a, NEW e, NEW t, temp \in Int, bg \in BOOLEAN,
           Good(s, lines, a, e, t, temp, bg), s.drawn = <<>>, t > s.next,
           s.phase = 2 \/ t > DotTime, ~ (s.scan < t)
    PROVE  CaughtUp(s, BlankAfter(AfterDot(s), t), lines, a, e, t, bg)
<1>1. Shape(s) /\ InTime(s, t) /\ t \in 0..FrameEnd /\ t \in Int
  BY TimeOf DEF Good
<1>2. PICK q : q = AfterDot(s)
  OBVIOUS
<1>3. /\ q \in LazyT /\ q.vram = From(s, t, temp, bg) /\ q.phase = 2 /\ q.scan = s.scan
      /\ q.hblank = s.hblank /\ q.count = s.count /\ q.next = s.next /\ q.drawn = <<>>
      /\ DotTime < t /\ LoadTime < t
  BY <1>1, <1>2, AfterDotIs
<1>4. PICK r : r = BlankAfter(q, t)
  OBVIOUS
<1>5. /\ r \in LazyT
      /\ r.vram = (IF s.hblank < t /\ bg THEN Below(q.vram, temp, 1) ELSE q.vram)
      /\ r.hblank = (IF s.hblank < t THEN s.hblank + LineLen ELSE s.hblank)
      /\ r.next = (IF s.hblank < t THEN s.scan ELSE s.hblank)
      /\ r.phase = 2 /\ r.scan = s.scan /\ r.count = s.count /\ r.drawn = <<>>
  <2>1. /\ r \in LazyT
        /\ r.vram = (IF q.hblank < t /\ bg THEN Below(q.vram, temp, 1) ELSE q.vram)
        /\ r.hblank = (IF q.hblank < t THEN q.hblank + LineLen ELSE q.hblank)
        /\ r.next = (IF q.hblank < t THEN q.scan ELSE q.hblank)
        /\ r.phase = q.phase /\ r.scan = q.scan /\ r.count = q.count /\ r.drawn = q.drawn
    BY <1>1, <1>3, <1>4, AfterIs
  <2> QED  BY <1>3, <2>1
<1>6. /\ s.hblank = BT(Passed(s)) /\ Passed(s) \in 0..Lines
      /\ (s.hblank < s.scan <=> Drawn(s))
      /\ (Drawn(s) => Passed(s) = s.count - 1) /\ (~ Drawn(s) => Passed(s) = s.count)
      /\ s.count \in Int /\ s.scan \in Int /\ s.hblank \in Int /\ s.vram \in Int
  BY <1>1, ShapeIs
<1>7. s.count \in 0..Lines /\ s.scan = LT(s.count) /\ s.next \in Int /\ s.phase \in Int
  BY <1>1 DEF Shape, LazyT
<1>8. PICK k \in 0..Lines : k = s.count /\ k \in Int
  BY <1>7
<1>9. /\ LT(k) \in Int /\ BT(k) \in Int /\ BT(k) = LT(k) + HblankIn
      /\ LT(k - 1) \in Int /\ BT(k - 1) \in Int /\ BT(k - 1) = LT(k - 1) + HblankIn
      /\ LT(k - 1) + LineLen = LT(k) /\ BT(k - 1) + LineLen = BT(k)
  BY <1>8, TimesAt
<1>10. \A i \in DOMAIN r.drawn : FALSE
  BY <1>5
<1>11. e => LiveIs(s, a, t, temp, bg)
  BY DEF Good
<1>12. t <= LT(k)
  BY <1>1, <1>6, <1>7, <1>8
<1>13. CASE s.hblank < t
  <2>1. Drawn(s)
    BY <1>6, <1>13, <1>12, <1>8, <1>7, <1>1
  <2>2. Passed(s) = k - 1 /\ s.hblank = BT(k - 1) /\ k > 0
    BY <2>1, <1>6, <1>8 DEF Drawn
  <2>3. r.hblank = BT(k) /\ r.next = r.scan /\ r.scan = LT(k) /\ r.count = k
    BY <1>13, <1>5, <2>2, <1>9, <1>7, <1>8
  <2>4. Blanked(r)
    BY <2>2, <2>3, <1>5 DEF Blanked
  <2>5. Shape(r)
    BY <1>5, <2>3, <2>4, <1>8 DEF Shape
  <2>6. Passed(r) = k
    BY <2>3, <1>9, Durations DEF Passed
  <2>7. Settled(r, t)
    <3>1. LT(k - 1) <= t
      BY <1>1, <1>8, <2>2 DEF InTime
    <3> QED  BY <1>1, <1>3, <1>5, <1>12, <1>13, <2>2, <2>3, <2>5, <2>6, <3>1
                DEF Settled, InTime
  <2>8. BlanksBefore(t) = k
    BY <1>1, <2>6, <2>7, SettledIs
  <2>9. BlanksBefore(t) - Passed(s) = 1 /\ BlanksBefore(t) # Passed(s)
    BY <2>2, <2>8, <1>8
  <2>10. Moved(s, 1, t, temp, bg) = r.vram
    BY <1>5, <1>3, <1>13 DEF Moved
  <2>11. e => a = r.vram
    BY <1>11, <2>9, <2>10 DEF LiveIs
  <2> QED  BY <1>2, <1>4, <1>5, <1>10, <2>7, <2>11 DEF CaughtUp
<1>14. CASE ~ (s.hblank < t)
  <2>1. Early(s)
    <3>1. ~ Waits(s)
      BY <1>14, <1>1, <1>6, <1>7 DEF Waits
    <3>2. ~ Drawn(s)
      BY <1>14, <1>1, <1>6, <1>7 DEF Drawn
    <3>3. ~ Blanked(s)
      BY <1>12, <1>1, <1>8, <1>7, <1>9 DEF Blanked
    <3> QED  BY <1>1, <3>1, <3>2, <3>3 DEF Shape
  <2>2. s.count = 0 /\ s.hblank = BT(0) /\ ~ Drawn(s) /\ Passed(s) = 0
    BY <2>1, <1>6 DEF Early, Drawn
  <2>3. r.hblank = BT(0) /\ r.next = BT(0) /\ r.count = 0 /\ r.scan = LT(0)
    BY <2>2, <1>5, <1>7, <1>14
  <2>4. Waits(r) /\ Shape(r)
    BY <2>3, <1>5, <1>7, <1>8, <2>2 DEF Waits, Shape
  <2>5. Passed(r) = 0
    BY <2>2, <2>3, <1>5, <1>6 DEF Passed
  <2>6. Settled(r, t)
    BY <1>1, <1>3, <1>5, <1>6, <1>14, <2>2, <2>3, <2>4, <2>5 DEF Settled, InTime
  <2>7. BlanksBefore(t) = 0
    BY <1>1, <2>5, <2>6, SettledIs
  <2>8. BlanksBefore(t) - Passed(s) = 0
    BY <2>2, <2>7
  <2>9. Moved(s, 0, t, temp, bg) = r.vram
    BY <1>5, <1>3, <1>14 DEF Moved
  <2>10. e => a = r.vram
    BY <1>11, <2>8, <2>9, <2>2, <1>6 DEF LiveIs
  <2> QED  BY <1>2, <1>4, <1>5, <1>10, <2>6, <2>10 DEF CaughtUp
<1> QED  BY <1>13, <1>14

\* Sums times a length.
LEMMA Sums ==
    ASSUME NEW k \in Int, NEW n \in Int, NEW l \in Int
    PROVE  /\ (k + n) * l = k * l + n * l /\ (k + n - 1) * l = k * l + (n - 1) * l
           /\ k * l \in Int /\ n * l \in Int /\ (n - 1) * l \in Int
OBVIOUS

\* The last of the lines that are due begins at most at t, the next after it.
LEMMA Batch ==
    ASSUME NEW k \in 0..Lines, NEW t \in 0..FrameEnd, NEW n \in Nat, n > 0,
           n * LineLen - LineLen <= t - LT(k), t - LT(k) < n * LineLen
    PROVE  /\ k + n \in 1..Lines
           /\ LT(k + n) = LT(k) + n * LineLen
           /\ BT(k + n - 1) = BT(k) + (n - 1) * LineLen
           /\ LT(k + n - 1) <= t /\ t < LT(k + n)
<1>1. k \in Int /\ n \in Int /\ LineLen \in Int /\ t \in Int /\ FrameEnd \in Int
      /\ t <= FrameEnd /\ FrameEnd < LT(Lines)
  BY Durations, TimeOf
<1>2. /\ (k + n) * LineLen = k * LineLen + n * LineLen
      /\ (k + n - 1) * LineLen = k * LineLen + (n - 1) * LineLen
      /\ k * LineLen \in Int /\ n * LineLen \in Int /\ (n - 1) * LineLen \in Int
  BY <1>1, Sums
<1>3. PICK a \in Int, b \in Int, e \in Int :
          a = k * LineLen /\ b = n * LineLen /\ e = (n - 1) * LineLen
  BY <1>2
<1>4. /\ (k + n) * LineLen = a + b /\ (k + n - 1) * LineLen = a + e
      /\ b - LineLen <= t - LT(k) /\ t - LT(k) < b
  BY <1>2, <1>3, Zenon
<1>5. /\ LT(k) = FirstLine + a /\ LT(k + n) = FirstLine + (a + b)
      /\ LT(k + n - 1) = FirstLine + (a + e)
      /\ BT(k) = FirstLine + a + HblankIn /\ BT(k + n - 1) = FirstLine + (a + e) + HblankIn
  BY <1>3, <1>4, Zenon DEF LT, BT
<1>6. e = b - LineLen
  <2>1. (n - 1) * LineLen = n * LineLen - LineLen
    BY <1>1
  <2> QED  BY <1>3, <2>1, Zenon
<1>7. a \in Int /\ b \in Int /\ e \in Int
  BY <1>3
<1>8. LT(k + n) = LT(k) + b /\ BT(k + n - 1) = BT(k) + e
  BY <1>5, <1>7, Durations
<1>9. LT(k + n - 1) <= t /\ t < LT(k + n)
  BY <1>1, <1>4, <1>5, <1>6, <1>7, Durations
<1>10. k + n \in 1..Lines
  <2>1. PICK h \in Int : h = k + n - 1 /\ h >= 0 /\ k + n = h + 1
    BY <1>1
  <2>2. Lines \in Int /\ LT(Lines) \in Int /\ LT(h) \in Int
        /\ (Lines <= h => LT(Lines) <= LT(h))
    <3>1. PICK f \in Int : f = Lines
      BY Durations
    <3>2. LT(f) \in Int /\ LT(h) \in Int /\ (f <= h => LT(f) <= LT(h))
      BY TimeOf
    <3> QED  BY <3>1, <3>2
  <2>3. LT(h) <= t
    BY <1>9, <2>1
  <2> QED  BY <1>1, <2>1, <2>2, <2>3
<1> QED  BY <1>3, <1>8, <1>9, <1>10, Zenon

\* The lines that are due are rendered together, from the addresses they
\* began with.
LEMMA LinesDue ==
    ASSUME NEW s, NEW lines, NEW a, NEW e, NEW t, temp \in Int, bg \in BOOLEAN,
           Good(s, lines, a, e, t, temp, bg), s.drawn = <<>>,
           s.phase = 2 \/ t > DotTime, s.scan < t
    PROVE  CaughtUp(s, BlankAfter(Scanlines(AfterDot(s), t), t), lines, a, e, t, bg)
<1>1. Shape(s) /\ InTime(s, t) /\ t \in 0..FrameEnd /\ t \in Int /\ FrameEnd \in Int
      /\ FrameEnd < LT(Lines) /\ lines \in Seq(Int) /\ Len(lines) = Owed(s, t)
  BY TimeOf DEF Good
<1>2. PICK q : q = AfterDot(s)
  OBVIOUS
<1>3. /\ q \in LazyT /\ q.vram = From(s, t, temp, bg) /\ q.phase = 2 /\ q.scan = s.scan
      /\ q.hblank = s.hblank /\ q.count = s.count /\ q.next = s.next /\ q.drawn = <<>>
      /\ DotTime < t /\ LoadTime < t
  BY <1>1, <1>2, AfterDotIs
<1>4. /\ s.hblank = BT(Passed(s)) /\ Passed(s) \in 0..Lines
      /\ (s.hblank < s.scan <=> Drawn(s))
      /\ (Drawn(s) => Passed(s) = s.count - 1) /\ (~ Drawn(s) => Passed(s) = s.count)
      /\ s.count \in Int /\ s.scan \in Int /\ s.hblank \in Int /\ s.vram \in Int
  BY <1>1, ShapeIs
<1>5. s.count \in 0..Lines /\ s.scan = LT(s.count)
  BY <1>1 DEF Shape, LazyT
<1>6. PICK k \in Int, p \in Int, d \in Nat :
          k = s.count /\ p = Passed(s) /\ d = k - p /\ d <= 1 /\ (Drawn(s) <=> d = 1)
          /\ k \in 0..Lines /\ p >= 0 /\ (d = 1 => k > 0)
  <2> DEFINE u == s.count  v == Passed(s)
  <2>1. u \in Int /\ v \in Int /\ v >= 0 /\ u \in 0..Lines
    <3>1. Passed(s) \in Int /\ Passed(s) >= 0
      BY <1>4, Durations
    <3> QED  BY <1>4, <1>5, <3>1
  <2>2. Drawn(s) => v = u - 1 /\ u > 0
    BY <1>4 DEF Drawn
  <2>3. ~ Drawn(s) => v = u
    BY <1>4
  <2> HIDE DEF u, v
  <2>4. PICK w \in Nat : w = u - v /\ w <= 1 /\ (Drawn(s) <=> w = 1) /\ (w = 1 => u > 0)
    <3>1. CASE Drawn(s)
      <4>1. 1 \in Nat /\ 1 = u - v /\ u > 0
        BY <2>1, <2>2, <3>1
      <4> QED  BY <3>1, <4>1
    <3>2. CASE ~ Drawn(s)
      <4>1. 0 \in Nat /\ 0 = u - v
        BY <2>1, <2>3, <3>2
      <4> QED  BY <3>2, <4>1
    <3> QED  BY <3>1, <3>2, Zenon
  <2> QED  BY <2>1, <2>4, Zenon DEF u, v
<1>7. PICK n : n = (t - s.scan + LineLen) \div LineLen
  OBVIOUS
<1>34. n \in Nat /\ n > 0 /\ n * LineLen - LineLen <= t - s.scan /\ t - s.scan < n * LineLen
  BY <1>1, <1>3, <1>7, ScanlinesIs
<1>31. n \in Nat /\ n > 0
  BY <1>34, Zenon
<1>35. k \in 0..Lines /\ k \in Int /\ s.scan = LT(k)
  BY <1>5, <1>6
<1>8. PICK v \in Int : v = BlankBefore(q).vram
          /\ BlankBefore(q).hblank = BT(k)
          /\ v = Moved(s, d, t, temp, bg)
  <2>1. /\ BlankBefore(q) \in LazyT
        /\ BlankBefore(q).vram = (IF q.hblank < q.scan /\ bg THEN Below(q.vram, temp, 1)
                                  ELSE q.vram)
        /\ BlankBefore(q).hblank = (IF q.hblank < q.scan THEN q.hblank + LineLen ELSE q.hblank)
    BY <1>3, BeforeIs
  <2>2. BlankBefore(q).vram \in Int
    BY <2>1 DEF LazyT
  <2>3. CASE Drawn(s)
    <3>1. BT(k - 1) + LineLen = BT(k) /\ q.hblank = BT(k - 1)
      BY <1>3, <1>4, <1>6, <2>3, TimesAt DEF Drawn
    <3>2. BlankBefore(q).hblank = BT(k)
      BY <1>3, <1>4, <2>1, <2>3, <3>1
    <3>3. d = 1
      BY <1>6, <2>3
    <3>4. BlankBefore(q).vram = Moved(s, d, t, temp, bg)
      BY <1>3, <1>4, <2>1, <2>3, <3>3 DEF Moved
    <3> QED  BY <2>2, <3>2, <3>4
  <2>4. CASE ~ Drawn(s)
    <3>1. d = 0 /\ p = k
      BY <1>6, <2>4
    <3>2. BlankBefore(q).hblank = BT(k)
      BY <1>3, <1>4, <1>6, <2>1, <2>4, <3>1
    <3>3. BlankBefore(q).vram = Moved(s, d, t, temp, bg)
      BY <1>3, <1>4, <2>1, <2>4, <3>1 DEF Moved
    <3> QED  BY <2>2, <3>2, <3>3
  <2> QED  BY <2>3, <2>4
<1>9. PICK m : m = Scanlines(q, t)
  OBVIOUS
<1>10. /\ m \in LazyT /\ m.phase = 2 /\ m.count = k + n
       /\ m.vram = (IF bg THEN Below(v, temp, n - 1) ELSE v)
       /\ m.scan = s.scan + n * LineLen /\ m.hblank = BT(k) + (n - 1) * LineLen
       /\ m.drawn = [i \in 1..n |-> IF bg /\ i > 1 THEN Below(v, temp, i - 1) ELSE v]
  <2>1. /\ m \in LazyT /\ m.phase = q.phase /\ m.count = q.count + n
        /\ m.vram = (IF bg THEN Below(BlankBefore(q).vram, temp, n - 1) ELSE BlankBefore(q).vram)
        /\ m.scan = q.scan + n * LineLen
        /\ m.hblank = BlankBefore(q).hblank + (n - 1) * LineLen
        /\ m.drawn = [i \in 1..n |-> IF bg /\ i > 1 THEN Below(BlankBefore(q).vram, temp, i - 1)
                                     ELSE BlankBefore(q).vram]
    <3>1. q.scan < t /\ n = (t - q.scan + LineLen) \div LineLen
      BY <1>3, <1>7, Zenon
    <3> QED  BY <1>1, <1>3, <1>9, <3>1, ScanlinesIs
  <2> QED  BY <1>3, <1>6, <1>8, <2>1
<1>11. PICK c \in Int : c = k + n /\ c - 1 = k + n - 1
  BY <1>35, <1>31
<1>12. LT(c) = s.scan + n * LineLen /\ BT(c - 1) = BT(k) + (n - 1) * LineLen
       /\ c \in 1..Lines /\ LT(c - 1) <= t /\ t < LT(c)
  BY <1>1, <1>11, <1>31, <1>34, <1>35, Batch
<1>15. c \in 1..Lines /\ c \in Int /\ c >= 1
  BY <1>12, Durations
<1>14. LT(c - 1) <= t /\ t < LT(c)
  BY <1>12, Zenon
<1>13. /\ LT(c) \in Int /\ BT(c) \in Int /\ BT(c) = LT(c) + HblankIn
       /\ LT(c - 1) \in Int /\ BT(c - 1) \in Int /\ BT(c - 1) = LT(c - 1) + HblankIn
       /\ LT(c - 1) + LineLen = LT(c) /\ BT(c - 1) + LineLen = BT(c)
       /\ c - 1 \in Int
  <2>1. c \in Int
    BY <1>15
  <2>2. c - 1 \in Int
    BY <2>1
  <2> QED  BY <2>1, <2>2, TimesAt
<1>36. k \in Int /\ p \in Int /\ d \in Nat /\ n \in Int /\ n >= 1 /\ c \in Int /\ c = k + n /\ d = k - p
       /\ s.vram \in Int /\ t \in Int
  BY <1>1, <1>4, <1>6, <1>11, <1>15, <1>31
<1>16. PICK r : r = BlankAfter(m, t)
  OBVIOUS
<1>17. /\ r \in LazyT
       /\ r.vram = (IF BT(c - 1) < t /\ bg THEN Below(m.vram, temp, 1) ELSE m.vram)
       /\ r.hblank = (IF BT(c - 1) < t THEN BT(c) ELSE BT(c - 1))
       /\ r.next = (IF BT(c - 1) < t THEN LT(c) ELSE BT(c - 1))
       /\ r.phase = 2 /\ r.scan = LT(c) /\ r.count = c /\ r.drawn = m.drawn
  <2>1. m.hblank = BT(c - 1) /\ m.scan = LT(c) /\ m.count = c
    BY <1>10, <1>11, <1>12
  <2>2. /\ r \in LazyT
        /\ r.vram = (IF m.hblank < t /\ bg THEN Below(m.vram, temp, 1) ELSE m.vram)
        /\ r.hblank = (IF m.hblank < t THEN m.hblank + LineLen ELSE m.hblank)
        /\ r.next = (IF m.hblank < t THEN m.scan ELSE m.hblank)
        /\ r.phase = m.phase /\ r.scan = m.scan /\ r.count = m.count /\ r.drawn = m.drawn
    BY <1>1, <1>10, <1>16, AfterIs
  <2> QED  BY <1>10, <1>13, <2>1, <2>2
<1>18. \A i \in Nat : /\ bg /\ i > 0 => Moved(s, d + i, t, temp, bg) = Below(v, temp, i)
                      /\ ~ (bg /\ i > 0) => Moved(s, d + i, t, temp, bg) = v
  <2> SUFFICES ASSUME NEW i \in Nat
               PROVE  /\ bg /\ i > 0 => Moved(s, d + i, t, temp, bg) = Below(v, temp, i)
                      /\ ~ (bg /\ i > 0) => Moved(s, d + i, t, temp, bg) = v
    OBVIOUS
  <2>1. PICK f \in Int : f = From(s, t, temp, bg)
    BY <1>36 DEF From
  <2>2. d + i \in Nat /\ d \in Nat
    BY <1>36
  <2>3. v = Moved(s, d, t, temp, bg)
    BY <1>8
  <2>4. CASE bg
    <3>1. Moved(s, d + i, t, temp, bg) = IF d + i > 0 THEN Below(f, temp, d + i) ELSE f
      BY <2>1, <2>4 DEF Moved
    <3>2. v = IF d > 0 THEN Below(f, temp, d) ELSE f
      BY <2>1, <2>3, <2>4 DEF Moved
    <3>3. Below(Below(f, temp, d), temp, i) = Below(f, temp, d + i)
      BY <2>1, <2>2, BelowAdds
    <3>4. CASE i = 0
      <4>1. d + i = d
        BY <2>2, <3>4
      <4> QED  BY <2>3, <3>4, <4>1
    <3>5. CASE i > 0 /\ d = 0
      <4>1. d + i = i
        BY <2>2, <3>5
      <4>2. Moved(s, i, t, temp, bg) = Below(v, temp, i)
        BY <2>1, <2>4, <3>2, <3>5 DEF Moved
      <4> QED  BY <2>4, <3>5, <4>1, <4>2
    <3>6. CASE i > 0 /\ d > 0
      <4>1. d + i > 0
        BY <2>2, <3>6
      <4> QED  BY <2>4, <3>1, <3>2, <3>3, <3>6, <4>1
    <3> QED  BY <2>2, <3>4, <3>5, <3>6
  <2>5. CASE ~ bg
    BY <2>3, <2>5 DEF Moved
  <2> QED  BY <2>4, <2>5
<1>19. DOMAIN r.drawn = 1..n
       /\ \A i \in 1..n : r.drawn[i] = Moved(s, k + i - 1 - p, t, temp, bg)
  <2>1. DOMAIN r.drawn = 1..n
    BY <1>10, <1>17
  <2>2. ASSUME NEW i \in 1..n PROVE r.drawn[i] = Moved(s, k + i - 1 - p, t, temp, bg)
    <3>1. PICK j \in Nat : j = i - 1 /\ d + j = k + i - 1 - p /\ (j > 0 <=> i > 1)
      BY <1>36
    <3>2. r.drawn[i] = IF bg /\ i > 1 THEN Below(v, temp, i - 1) ELSE v
      BY <1>10, <1>17
    <3>3. /\ bg /\ j > 0 => Moved(s, d + j, t, temp, bg) = Below(v, temp, j)
          /\ ~ (bg /\ j > 0) => Moved(s, d + j, t, temp, bg) = v
      BY <1>18, <3>1
    <3> QED  BY <3>1, <3>2, <3>3
  <2> QED  BY <2>1, <2>2
<1>20. PICK j \in Nat : j = n - 1 /\ d + j = c - 1 - p /\ (j = 0 \/ j > 0)
  <2>1. n - 1 \in Nat /\ (n - 1 = 0 \/ n - 1 > 0)
    BY <1>36
  <2>2. d + (n - 1) = c - 1 - p
    BY <1>36
  <2> QED  BY <2>1, <2>2
<1>37. PICK g : g = Moved(s, d + j, t, temp, bg)
  OBVIOUS
<1>38. /\ bg /\ j > 0 => g = Below(v, temp, j)
       /\ ~ (bg /\ j > 0) => g = v
  BY <1>18, <1>20, <1>37
<1>21. m.vram \in Int /\ (bg => SameRow(m.vram, g)) /\ (~ bg => m.vram = g)
  <2>1. m.vram \in Int
    BY <1>10 DEF LazyT
  <2>2. CASE bg
    <3>1. m.vram = Below(v, temp, j)
      BY <1>10, <1>20, <2>2
    <3>2. CASE j = 0
      <4>1. Below(v, temp, 0) = Edge(v, temp)
        BY <1>8, BelowIs
      <4>2. SameRow(Edge(v, temp), v)
        BY <1>8, EdgeIs
      <4>3. g = v
        BY <1>38, <3>2
      <4> QED  BY <2>1, <2>2, <3>1, <3>2, <4>1, <4>2, <4>3
    <3>3. CASE j > 0
      <4>1. m.vram = g
        BY <1>38, <2>2, <3>1, <3>3
      <4> QED  BY <2>1, <2>2, <4>1 DEF SameRow
    <3> QED  BY <1>20, <3>2, <3>3, Zenon
  <2>3. CASE ~ bg
    BY <1>10, <1>38, <2>1, <2>3
  <2> QED  BY <2>2, <2>3
<1>22. Settled(r, t) /\ BlanksBefore(t) = Passed(r)
       /\ Passed(r) = (IF BT(c - 1) < t THEN c ELSE c - 1)
       /\ (~ (BT(c - 1) < t) => Drawn(r))
  <2>1. CASE BT(c - 1) < t
    <3>1. Blanked(r) /\ Shape(r)
      BY <1>15, <1>17, <2>1, <1>11 DEF Blanked, Shape
    <3>2. Passed(r) = c
      BY <1>13, <1>17, <2>1, Durations DEF Passed
    <3>3. Settled(r, t)
      BY <1>1, <1>3, <1>14, <1>17, <1>13, <2>1, <3>1, <3>2 DEF Settled, InTime
    <3> QED  BY <1>1, <2>1, <3>2, <3>3, SettledIs
  <2>2. CASE ~ (BT(c - 1) < t)
    <3>1. Drawn(r) /\ Shape(r)
      BY <1>15, <1>17, <2>2, <1>11 DEF Drawn, Shape
    <3>2. Passed(r) = c - 1
      BY <3>1, <1>17, ShapeIs
    <3>3. BT((c - 1) - 1) < t
      <4>1. PICK f \in Int : f = c - 1
        BY <1>13
      <4>2. BT(f - 1) \in Int /\ BT(f - 1) + LineLen = BT(f) /\ BT(f) = LT(f) + HblankIn
            /\ LT(f) \in Int
        BY <4>1, TimesAt
      <4>3. PICK y \in Int : y = BT(f - 1)
        BY <4>2
      <4>4. PICK z \in Int : z = LT(f)
        BY <4>2
      <4>5. z <= t /\ t \in Int
        BY <1>14, <1>36, <4>1, <4>4
      <4>6. y + LineLen = z + HblankIn
        BY <4>2, <4>3, <4>4
      <4>7. y < t
        BY <4>3, <4>4, <4>5, <4>6, Durations
      <4> QED  BY <4>1, <4>3, <4>7
    <3>4. Settled(r, t)
      BY <1>1, <1>3, <1>14, <1>17, <1>13, <2>2, <3>1, <3>2, <3>3 DEF Settled, InTime
    <3> QED  BY <1>1, <2>2, <3>1, <3>2, <3>4, SettledIs
  <2> QED  BY <2>1, <2>2
<1>23. e => a = Moved(s, BlanksBefore(t) - p, t, temp, bg)
  <2>1. Drawn(s) => BlanksBefore(t) # p
    <3>1. Drawn(s) => p = k - 1 /\ BlanksBefore(t) \in {c, c - 1}
      BY <1>6, <1>22
    <3> QED  BY <1>36, <3>1
  <2>2. e => LiveIs(s, a, t, temp, bg)
    BY DEF Good
  <2> QED  BY <1>4, <1>6, <2>1, <2>2 DEF LiveIs
<1>24. e => a = r.vram \/ (Drawn(r) /\ bg /\ SameRow(a, r.vram))
  <2>1. CASE BT(c - 1) < t
    <3>1. BlanksBefore(t) - p = d + n /\ d + n \in Nat /\ n = j + 1
      BY <1>36, <1>20, <1>22, <2>1
    <3>2. Moved(s, d + n, t, temp, bg) = r.vram
      <4>1. n > 0 /\ n \in Nat
        BY <1>36
      <4>2. CASE bg
        <5>1. Below(m.vram, temp, 1) = Below(g, temp, 1)
          <6>1. SameRow(m.vram, g)
            BY <1>21, <4>2, Zenon
          <6> QED  BY <6>1 DEF SameRow, Below
        <5>2. Moved(s, d + n, t, temp, bg) = Below(v, temp, n)
          BY <1>18, <4>1, <4>2
        <5>3. r.vram = Below(g, temp, 1)
          BY <1>17, <2>1, <4>2, <5>1
        <5>4. CASE j = 0
          BY <1>20, <1>38, <3>1, <5>2, <5>3, <5>4
        <5>5. CASE j > 0
          <6>1. 1 \in Nat
            OBVIOUS
          <6>2. Below(Below(v, temp, j), temp, 1) = Below(v, temp, j + 1)
            BY <1>8, <1>20, <6>1, BelowAdds
          <6>3. g = Below(v, temp, j)
            BY <1>38, <4>2, <5>5
          <6> QED  BY <3>1, <5>2, <5>3, <6>2, <6>3
        <5> QED  BY <1>20, <5>4, <5>5, Zenon
      <4>3. CASE ~ bg
        <5>1. Moved(s, d + n, t, temp, bg) = v
          BY <1>18, <4>1, <4>3
        <5> QED  BY <1>17, <1>21, <1>38, <4>3, <5>1
      <4> QED  BY <4>2, <4>3
    <3> QED  BY <1>23, <3>1, <3>2
  <2>2. CASE ~ (BT(c - 1) < t)
    <3>1. e => a = g
      BY <1>20, <1>22, <1>23, <1>37, <2>2
    <3>2. r.vram = m.vram
      BY <1>17, <2>2
    <3> QED  BY <1>21, <1>22, <2>2, <3>1, <3>2 DEF SameRow
  <2> QED  BY <2>1, <2>2
<1>25. PICK o \in Int : o = LinesBefore(t) /\ o \in 0..Lines /\ (o < Lines => t <= LT(o)) /\ o <= c
  <2>1. LinesBefore(t) \in 0..Lines /\ (LinesBefore(t) < Lines => t <= LT(LinesBefore(t)))
    BY <1>1, LinesCounted
  <2>2. ~ Waits(r)
    <3>1. r.count = c /\ c >= 1 /\ c \in Int
      BY <1>15, <1>17, Zenon
    <3> QED  BY <3>1 DEF Waits
  <2>3. LinesBefore(t) <= c
    BY <1>1, <1>17, <1>22, <2>2, SettledIs
  <2> QED  BY <2>1, <2>3, Durations
<1>26. Len(lines) = IF k < o THEN o - k ELSE 0
  BY <1>1, <1>6, <1>25 DEF Owed
<1>27. Len(r.drawn) = n /\ r.drawn # <<>>
  <2>1. r.drawn \in Seq(Int)
    BY <1>17 DEF LazyT
  <2>2. Len(r.drawn) = n
    BY <1>31, <1>19, <2>1
  <2> QED  BY <1>31, <2>2
<1>28. ASSUME NEW i \in 1..n, e
       PROVE  \/ i = 1 /\ FirstMissed(s)
              \/ IF i <= Len(lines) THEN r.drawn[i] = lines[i]
                 ELSE r.drawn[i] = a /\ LineAt(t) # {}
  <2>1. r.drawn[i] = Moved(s, k + i - 1 - p, t, temp, bg)
    BY <1>19
  <2>2. CASE i <= Len(lines)
    <3>1. i \in 1..Len(lines)
      BY <2>2, <1>26
    <3>2. (i = 1 /\ FirstMissed(s)) \/ lines[i] = Moved(s, k + i - 1 - p, t, temp, bg)
      BY <1>6, <1>28, <3>1 DEF Good, LinesOf
    <3> QED  BY <2>1, <2>2, <3>2
  <2>3. CASE ~ (i <= Len(lines))
    <3>1. PICK h \in Int : h = k + i - 1 /\ o <= h /\ h <= c - 1
      BY <1>36, <1>25, <1>26, <2>3
    <3>2. LT(o) <= LT(h) /\ LT(h) <= LT(c - 1) /\ (h < c - 1 => LT(h) + LineLen <= LT(c - 1))
          /\ LT(h) \in Int /\ LT(o) \in Int
      <4>1. PICK f \in Int : f = c - 1
        BY <1>13
      <4> QED  BY <3>1, <4>1, TimeOf
    <3>3. t <= LT(o)
      BY <1>15, <1>25, <1>11, <3>1, Durations
    <3>4. h = c - 1 /\ t = LT(c - 1)
      <4>1. t \in Int
        BY <1>1
      <4>2. ~ (h < c - 1)
        <5>1. LineLen \in Int /\ LineLen > 0
          BY Durations
        <5>2. LT(c - 1) \in Int /\ LT(c - 1) <= t
          BY <1>13, <1>14
        <5> QED  BY <3>2, <3>3, <4>1, <5>1, <5>2
      <4>3. h = c - 1
        BY <1>13, <3>1, <4>2
      <4> QED  BY <1>13, <1>14, <3>2, <3>3, <4>1, <4>3
    <3>5. LineAt(t) # {}
      <4>1. c - 1 \in 0..(Lines - 1)
        BY <1>15, Durations
      <4> QED  BY <3>4, <4>1 DEF LineAt, LT
    <3>6. BlanksBefore(t) = c - 1
      BY <1>1, <1>13, <1>22, <3>4, Durations
    <3>7. a = Moved(s, k + i - 1 - p, t, temp, bg)
      BY <1>23, <1>28, <3>1, <3>4, <3>6
    <3> QED  BY <2>1, <2>3, <3>5, <3>7
  <2> QED  BY <2>2, <2>3
<1>29. Len(lines) <= n
  <2>1. o - k <= n /\ 0 <= n
    BY <1>36, <1>25
  <2> QED  BY <1>26, <2>1
<1>30. CaughtUp(s, r, lines, a, e, t, bg)
  <2>1. r.drawn # <<>> /\ Len(lines) <= Len(r.drawn) /\ LinesBefore(t) <= r.count
    BY <1>17, <1>25, <1>27, <1>29
  <2>2. \A i \in DOMAIN r.drawn : e =>
            \/ i = 1 /\ FirstMissed(s)
            \/ IF i <= Len(lines) THEN r.drawn[i] = lines[i]
               ELSE r.drawn[i] = a /\ LineAt(t) # {}
    BY <1>19, <1>28
  <2> QED  BY <1>22, <1>24, <2>1, <2>2 DEF CaughtUp
<1> QED  BY <1>2, <1>9, <1>16, <1>30

-----------------------------------------------------------------------------
(* Catching up                                                             *)

\* Rendering until now catches up.
LEMMA CatchesUp ==
    ASSUME NEW s, NEW lines, NEW a, NEW e, NEW t, temp \in Int, bg \in BOOLEAN,
           Good(s, lines, a, e, t, temp, bg), s.drawn = <<>>
    PROVE  CaughtUp(s, RenderBgUntil(s, t), lines, a, e, t, bg)
<1>1. t \in Int /\ FrameEnd \in Int /\ t <= FrameEnd /\ Shape(s) /\ InTime(s, t) /\ t \in 0..FrameEnd
  BY TimeOf DEF Good
<1>2. s.phase \in 0..2 /\ s.scan \in Int /\ s.next \in Int
  BY <1>1 DEF Shape, LazyT, Early, Waits, Blanked, Drawn
<1>3. RenderBgUntil(s, t) = IF t > s.next THEN RenderBgUntil_(s, t) ELSE s
  <2>1. (IF t < FrameEnd THEN t ELSE FrameEnd) = t
    BY <1>1
  <2> QED  BY <2>1 DEF RenderBgUntil
<1>4. CASE ~ (t > s.next)
  BY <1>3, <1>4, NothingDue
<1>5. CASE t > s.next /\ s.phase <= 1 /\ t <= DotTime
  <2>1. RenderBgUntil(s, t) = [Load(s) EXCEPT !.next = DotTime]
    BY <1>3, <1>5 DEF RenderBgUntil_
  <2> QED  BY <1>5, <2>1, LoadDue
<1>6. CASE t > s.next /\ ~ (s.phase <= 1 /\ t <= DotTime)
  <2>1. s.phase = 2 \/ t > DotTime
    BY <1>1, <1>2, <1>6, Durations
  <2>2. RenderBgUntil(s, t) = BlankAfter(Scanlines(AfterDot(s), t), t)
    BY <1>3, <1>6 DEF RenderBgUntil_, AfterDot
  <2>3. CASE s.scan < t
    BY <2>1, <2>2, <2>3, LinesDue
  <2>4. CASE ~ (s.scan < t)
    <3>1. AfterDot(s).scan = s.scan
      BY <1>1, <2>1, AfterDotIs
    <3>2. Scanlines(AfterDot(s), t) = AfterDot(s)
      <4>1. AfterDot(s).scan >= t
        BY <1>1, <1>2, <2>4, <3>1
      <4> QED  BY <4>1 DEF Scanlines
    <3> QED  BY <1>6, <2>1, <2>2, <2>4, <3>2, BlankDue
  <2> QED  BY <2>3, <2>4
<1> QED  BY <1>4, <1>5, <1>6

\* r as the lazy state of the next moment, with address x
Fresh(r, x) == [vram |-> x, phase |-> r.phase, scan |-> r.scan, hblank |-> r.hblank,
                count |-> r.count, next |-> r.next, drawn |-> <<>>]

\* An access that writes the address leaves the rest of the lazy state in shape.
LEMMA FreshIs ==
    ASSUME NEW r, NEW t, NEW x \in Int, Shape(r), InTime(r, t)
    PROVE  /\ Shape(Fresh(r, x)) /\ InTime(Fresh(r, x), t)
           /\ Passed(Fresh(r, x)) = Passed(r) /\ Fresh(r, x).count = r.count
           /\ Fresh(r, x).next = r.next /\ Fresh(r, x).vram = x
           /\ (Drawn(Fresh(r, x)) <=> Drawn(r)) /\ (Waits(Fresh(r, x)) <=> Waits(r))
           /\ Fresh(r, x).drawn = <<>>
<1>1. PICK q : q = Fresh(r, x)
  OBVIOUS
<1>2. /\ q.phase = r.phase /\ q.scan = r.scan /\ q.hblank = r.hblank /\ q.count = r.count
      /\ q.next = r.next /\ q.vram = x /\ q.drawn = <<>>
  BY <1>1 DEF Fresh
<1>3. q \in LazyT
  BY <1>1 DEF Shape, LazyT, Fresh
<1>4. Passed(q) = Passed(r)
  BY <1>2 DEF Passed
<1>5. (Drawn(q) <=> Drawn(r)) /\ (Waits(q) <=> Waits(r))
  BY <1>2 DEF Drawn, Waits
<1>6. (Early(q) <=> Early(r)) /\ (Blanked(q) <=> Blanked(r))
  BY <1>2 DEF Early, Blanked
<1>7. Shape(q)
  BY <1>2, <1>3, <1>5, <1>6 DEF Shape
<1>8. InTime(q, t)
  BY <1>2, <1>4 DEF InTime
<1> QED  BY <1>1, <1>2, <1>4, <1>5, <1>7, <1>8

\* An access that has caught up may change the address, or what it is loaded
\* from, if the PPU on time does the same.
LEMMA AccessIs ==
    ASSUME NEW s, NEW r, NEW lines, NEW a, NEW e, NEW t, NEW w, NEW b,
           Good(s, lines, a, e, t, w, b), CaughtUp(s, r, lines, a, e, t, b),
           NEW x \in Int, NEW a2 \in Int, NEW e2, NEW w2 \in Int, NEW b2 \in BOOLEAN,
           e2 => a2 = x \/ (Drawn(r) /\ b2 /\ SameRow(a2, x))
    PROVE  Good(Fresh(r, x), SubSeq(lines, Len(r.drawn) + 1, Len(lines)), a2, e2, t, w2, b2)
<1>1. Settled(r, t) /\ Shape(r) /\ InTime(r, t) /\ t <= r.next
  BY DEF CaughtUp, Settled
<1>2. t \in 0..FrameEnd /\ t \in Int /\ lines \in Seq(Int) /\ Len(lines) = Owed(s, t)
  BY TimeOf DEF Good
<1>3. PICK q : q = Fresh(r, x)
  OBVIOUS
<1>4. /\ Shape(q) /\ InTime(q, t) /\ Passed(q) = Passed(r) /\ q.count = r.count
      /\ q.next = r.next /\ q.vram = x
      /\ (Drawn(q) <=> Drawn(r)) /\ (Waits(q) <=> Waits(r))
  BY <1>1, <1>3, FreshIs
<1>5. Settled(q, t)
  BY <1>1, <1>4 DEF Settled
<1>6. BlanksBefore(t) = Passed(q) /\ From(q, t, w2, b2) = x
      /\ (LinesBefore(t) <= q.count \/ (Waits(q) /\ LinesBefore(t) <= 1))
  BY <1>2, <1>4, <1>5, SettledIs
<1>7. Passed(q) \in 0..Lines /\ (q.hblank < q.scan <=> Drawn(q)) /\ (FirstMissed(q) <=> Waits(q))
      /\ q.count \in Int
  BY <1>4, ShapeIs
<1>8. e2 => LiveIs(q, a2, t, w2, b2)
  <2>1. BlanksBefore(t) - Passed(q) = 0
    BY <1>6, <1>7
  <2>2. Moved(q, BlanksBefore(t) - Passed(q), t, w2, b2) = x
    BY <1>6, <2>1 DEF Moved
  <2> QED  BY <1>4, <1>6, <1>7, <2>2 DEF LiveIs
<1>9. PICK o \in Int : o = LinesBefore(t) /\ o \in 0..Lines
  BY <1>2, LinesCounted, Durations
<1>10. PICK rest : rest = SubSeq(lines, Len(r.drawn) + 1, Len(lines))
  OBVIOUS
<1>11. rest \in Seq(Int) /\ Len(rest) = Owed(q, t)
       /\ (Len(rest) > 0 => Len(rest) = 1 /\ Waits(q))
  <2>1. CASE r.drawn = <<>>
    <3>1. rest = lines
      BY <1>2, <1>10, <2>1
    <3>2. q.count = s.count
      BY <1>4, <2>1 DEF CaughtUp
    <3>3. Len(rest) = Owed(q, t)
      BY <1>2, <3>1, <3>2 DEF Owed
    <3>4. Len(rest) = IF q.count < o THEN o - q.count ELSE 0
      BY <1>9, <3>3 DEF Owed
    <3>5. Waits(q) => q.count = 0
      BY DEF Waits
    <3>6. Len(rest) > 0 => Len(rest) = 1 /\ Waits(q)
      <4>1. o <= q.count \/ (Waits(q) /\ o <= 1 /\ q.count = 0)
        BY <1>6, <1>9, <3>5, Zenon
      <4>2. q.count \in Int /\ o \in Int
        BY <1>7, <1>9
      <4> QED  BY <3>4, <4>1, <4>2
    <3> QED  BY <1>2, <3>1, <3>3, <3>6
  <2>2. CASE r.drawn # <<>>
    <3>1. Len(lines) <= Len(r.drawn) /\ o <= q.count
      BY <1>4, <1>9, <2>2 DEF CaughtUp
    <3>2. Len(r.drawn) \in Nat /\ Len(lines) \in Nat
      <4>1. r.drawn \in Seq(Int)
        BY <1>1 DEF Shape, LazyT
      <4> QED  BY <1>2, <4>1
    <3>3. rest = <<>>
      BY <1>2, <1>10, <3>1, <3>2
    <3>4. Owed(q, t) = 0
      BY <1>7, <1>9, <3>1 DEF Owed
    <3> QED  BY <3>3, <3>4
  <2> QED  BY <2>1, <2>2
<1>12. LinesOf(q, rest, t, w2, b2)
  <2> SUFFICES ASSUME NEW i \in 1..Len(rest) PROVE i = 1 /\ FirstMissed(q)
    BY DEF LinesOf
  <2>1. Len(rest) \in Nat /\ Len(rest) > 0
    BY <1>11
  <2> QED  BY <1>7, <1>11, <2>1
<1>13. Good(q, rest, a2, e2, t, w2, b2)
  BY <1>2, <1>4, <1>8, <1>11, <1>12 DEF Good
<1> QED  BY <1>3, <1>10, <1>13

-----------------------------------------------------------------------------
(* A clock passes                                                          *)

\* No line begins with a load, nor just after a load or a blank; and the blanks
\* before a line are those of the lines before it.
LEMMA Apart ==
    ASSUME NEW t \in Int
    PROVE  /\ LineAt(t + 1) # {} => BlankAt(t) = {} /\ t # LoadTime
           /\ t <= LoadTime + 1 => LineAt(t) = {} /\ BlankAt(t) = {}
                                   /\ LinesBefore(t) = 0 /\ BlanksBefore(t) = 0
           /\ LineAt(t) # {} => BlanksBefore(t) = LinesBefore(t) /\ LoadTime + 1 < t
                                /\ LinesBefore(t) < Lines /\ t = LT(LinesBefore(t))
<1>1. \A k \in 0..(Lines - 1) :
          LT(k) \in Int /\ BT(k) = LT(k) + HblankIn /\ LT(k) >= FirstLine /\ k \in Int
  <2> SUFFICES ASSUME NEW k \in 0..(Lines - 1)
               PROVE  LT(k) \in Int /\ BT(k) = LT(k) + HblankIn /\ LT(k) >= FirstLine /\ k \in Int
    OBVIOUS
  <2>1. k \in Int /\ k >= 0
    BY Durations
  <2> QED  BY <2>1, TimesAt, Durations
<1>2. LineAt(t) = {k \in 0..(Lines - 1) : t = LT(k)}
      /\ LineAt(t + 1) = {k \in 0..(Lines - 1) : t + 1 = LT(k)}
      /\ BlankAt(t) = {k \in 0..(Lines - 1) : t = BT(k)}
  BY DEF LineAt, BlankAt, LT, BT
<1>3. ASSUME LineAt(t + 1) # {} PROVE BlankAt(t) = {} /\ t # LoadTime
  <2>1. PICK j \in 0..(Lines - 1) : t + 1 = LT(j)
    BY <1>2, <1>3
  <2>2. t # LoadTime
    BY <1>1, <2>1, Durations
  <2>3. ASSUME NEW k \in 0..(Lines - 1), t = BT(k) PROVE FALSE
    <3>1. /\ LT(j) \in Int /\ LT(k) \in Int /\ j \in Int /\ k \in Int
          /\ BT(k) = LT(k) + HblankIn
      BY <1>1
    <3>2. CASE j <= k
      <4>1. LT(j) <= LT(k)
        BY <3>1, <3>2, TimeOf
      <4> QED  BY <2>1, <2>3, <3>1, <4>1, Durations
    <3>3. CASE k < j
      <4>1. LT(k) + LineLen <= LT(j)
        BY <3>1, <3>3, TimeOf
      <4> QED  BY <2>1, <2>3, <3>1, <4>1, Durations
    <3> QED  BY <3>1, <3>2, <3>3
  <2> QED  BY <1>2, <2>2, <2>3
<1>4. ASSUME t <= LoadTime + 1
      PROVE  LineAt(t) = {} /\ BlankAt(t) = {} /\ LinesBefore(t) = 0 /\ BlanksBefore(t) = 0
  <2>1. t < FirstLine
    BY <1>4, Durations
  <2>2. LineAt(t) = {} /\ BlankAt(t) = {}
    BY <1>1, <1>2, <2>1, Durations
  <2>3. LT(0) = FirstLine /\ BT(0) = FirstLine + HblankIn
    BY TimesAt
  <2>4. t <= LT(0) /\ t <= BT(0) /\ 0 \in 0..Lines
    BY <2>1, <2>3, Durations
  <2>5. LinesBefore(t) = 0
    BY <2>4, LinesAre
  <2>6. BlanksBefore(t) = 0
    BY <2>4, BlanksAre
  <2> QED  BY <2>2, <2>5, <2>6
<1>5. ASSUME LineAt(t) # {}
      PROVE  BlanksBefore(t) = LinesBefore(t) /\ LoadTime + 1 < t
             /\ LinesBefore(t) < Lines /\ t = LT(LinesBefore(t))
  <2>1. PICK n \in 0..(Lines - 1) : n = LinesBefore(t) /\ t = LT(n)
    BY <1>2, <1>5, LinesLater
  <2>2. n \in Int /\ n \in 0..Lines /\ n < Lines /\ n >= 0
    BY Durations
  <2>3. /\ LT(n) \in Int /\ BT(n) = LT(n) + HblankIn /\ LT(n) >= FirstLine
        /\ BT(n - 1) = LT(n - 1) + HblankIn /\ LT(n - 1) + LineLen = LT(n) /\ LT(n - 1) \in Int
    <3>1. BT(n - 1) = LT(n - 1) + HblankIn /\ LT(n - 1) + LineLen = LT(n) /\ LT(n - 1) \in Int
      BY <2>2, TimesAt
    <3> QED  BY <1>1, <3>1
  <2>4. t <= BT(n) /\ BT(n - 1) < t
    BY <2>1, <2>3, Durations
  <2>5. BlanksBefore(t) = n
    BY <2>2, <2>4, BlanksAre
  <2>6. LoadTime + 1 < t
    <3>1. FirstLine <= t
      BY <2>1, <2>3
    <3> QED  BY <3>1, Durations
  <2> QED  BY <2>1, <2>2, <2>5, <2>6
<1> QED  BY <1>3, <1>4, <1>5

\* A clock later, the lines begun are one more if one begins that is not drawn.
LEMMA LinesClock ==
    ASSUME NEW s, NEW lines, NEW a \in Int, NEW t \in Int, s.count \in 0..Lines,
           lines \in Seq(Int), Len(lines) = Owed(s, t)
    PROVE  LET more == \E k \in LineAt(t) : s.count <= k
               then == IF more THEN Append(lines, a) ELSE lines
           IN  /\ then \in Seq(Int) /\ Len(then) = Owed(s, t + 1)
               /\ more => LineAt(t) # {} /\ s.count <= LinesBefore(t)
                          /\ Len(lines) = LinesBefore(t) - s.count
<1> DEFINE more == \E k \in LineAt(t) : s.count <= k
           then == IF more THEN Append(lines, a) ELSE lines
<1>1. PICK n \in Int : n = LinesBefore(t)
  BY LinesCounted, Durations
<1>2. PICK m \in Int : m = LinesBefore(t + 1)
  BY LinesCounted, Durations
<1>3. LineAt(t) \subseteq {n} /\ m = n + (IF LineAt(t) = {} THEN 0 ELSE 1)
  BY <1>1, <1>2, LinesLater
<1>4. s.count \in Int
  BY Durations
<1>5. Len(lines) = IF s.count < n THEN n - s.count ELSE 0
  BY <1>1 DEF Owed
<1>6. Owed(s, t + 1) = IF s.count < m THEN m - s.count ELSE 0
  BY <1>2 DEF Owed
<1>7. CASE more
  <2>1. LineAt(t) # {} /\ s.count <= n
    BY <1>3, <1>7
  <2>2. m = n + 1
    BY <1>3, <2>1
  <2>3. Len(lines) = n - s.count
    BY <1>4, <1>5, <2>1
  <2>4. Owed(s, t + 1) = Len(lines) + 1
    BY <1>4, <1>6, <2>1, <2>2, <2>3
  <2>5. then = Append(lines, a)
    BY <1>7
  <2>6. then \in Seq(Int) /\ Len(then) = Len(lines) + 1
    BY <2>5
  <2> HIDE DEF more, then
  <2> QED  BY <1>1, <2>1, <2>3, <2>4, <2>6 DEF more, then
<1>8. CASE ~ more
  <2>1. then = lines
    BY <1>8
  <2>2. CASE LineAt(t) = {}
    <3>1. m = n
      BY <1>3, <2>2
    <3> QED  BY <1>5, <1>6, <1>8, <2>1, <3>1
  <2>3. CASE LineAt(t) # {}
    <3>1. ~ (s.count <= n) /\ m = n + 1
      BY <1>3, <1>8, <2>3
    <3>2. Len(lines) = 0 /\ Owed(s, t + 1) = 0
      BY <1>4, <1>5, <1>6, <3>1
    <3> QED  BY <1>8, <2>1, <3>2
  <2> QED  BY <2>2, <2>3
<1> QED  BY <1>7, <1>8

\* A clock later the PPU on time is one more clock on, and so is what the lazy
\* one owes.
LEMMA ClockIs ==
    ASSUME NEW s, NEW lines, NEW a, NEW e, NEW t, NEW w, NEW b,
           Good(s, lines, a, e, t, w, b), t < FrameEnd
    PROVE  LET more == \E k \in LineAt(t) : s.count <= k
               then == IF more THEN Append(lines, a) ELSE lines
               on   == IF ~ b THEN a ELSE IF t = LoadTime THEN w
                       ELSE IF BlankAt(t) # {} THEN Down(a, w) ELSE a
           IN  /\ Good(s, then, on, e \/ (t = LoadTime /\ b), t + 1, w, b)
               /\ LineAt(t + 1) # {} => on = a
<1> DEFINE more == \E k \in LineAt(t) : s.count <= k
           then == IF more THEN Append(lines, a) ELSE lines
           on   == IF ~ b THEN a ELSE IF t = LoadTime THEN w
                   ELSE IF BlankAt(t) # {} THEN Down(a, w) ELSE a
           known == e \/ (t = LoadTime /\ b)
<1>1. /\ Shape(s) /\ InTime(s, t) /\ t \in Int /\ t + 1 \in 0..FrameEnd /\ t + 1 \in Int
      /\ a \in Int /\ w \in Int /\ b \in BOOLEAN /\ lines \in Seq(Int) /\ Len(lines) = Owed(s, t)
  BY TimeOf DEF Good
<1>2. e => LiveIs(s, a, t, w, b) /\ LinesOf(s, lines, t, w, b)
  BY DEF Good
<1>3. /\ s.hblank = BT(Passed(s)) /\ Passed(s) \in 0..Lines
      /\ (s.hblank < s.scan <=> Drawn(s))
      /\ (Drawn(s) => Passed(s) = s.count - 1) /\ (~ Drawn(s) => Passed(s) = s.count)
      /\ s.count \in Int /\ s.scan \in Int /\ s.hblank \in Int /\ s.vram \in Int
      /\ s.count \in 0..Lines /\ s.phase \in 0..2
  BY <1>1, ShapeIs DEF Shape, Early, Waits, Blanked, Drawn
<1>4. /\ then \in Seq(Int) /\ Len(then) = Owed(s, t + 1)
      /\ (more => LineAt(t) # {} /\ s.count <= LinesBefore(t)
                  /\ Len(lines) = LinesBefore(t) - s.count)
  BY <1>1, <1>3, LinesClock
<1>5. LineAt(t + 1) # {} => on = a
  BY <1>1, Apart
<1>6. Down(a, w) \in Int
  BY <1>1, BelowOne, BelowInt
<1>7. on \in Int
  BY <1>1, <1>6
<1>8. InTime(s, t + 1)
  <2>1. /\ (s.count > 0 => LT(s.count - 1) \in Int)
        /\ (Passed(s) > 0 => BT(Passed(s) - 1) \in Int)
    <3>1. PICK k \in Int, p \in Int : k = s.count - 1 /\ p = Passed(s) - 1
      BY <1>3
    <3>2. LT(k) \in Int /\ BT(p) \in Int
      BY TimeOf
    <3> QED  BY <3>1, <3>2
  <2> QED  BY <1>1, <2>1, Durations DEF InTime
<1> HIDE DEF more, then, on
<1>9. known => LiveIs(s, on, t + 1, w, b) /\ LinesOf(s, then, t + 1, w, b)
  <2>1. CASE t = LoadTime
    <3>1. s.phase = 0 /\ s.count = 0 /\ ~ Drawn(s) /\ Passed(s) = 0
      BY <1>1, <1>3, <2>1 DEF InTime, Shape, Early, Waits, Blanked, Drawn
    <3>2. LineAt(t) = {} /\ BlankAt(t) = {} /\ LinesBefore(t + 1) = 0
          /\ BlanksBefore(t) = 0 /\ BlanksBefore(t + 1) = 0
      <4>1. t <= LoadTime + 1 /\ t + 1 <= LoadTime + 1
        BY <1>1, <2>1, Durations
      <4> QED  BY <1>1, <4>1, Apart
    <3>3. Owed(s, t + 1) = 0
      BY <3>1, <3>2 DEF Owed
    <3>4. LinesOf(s, then, t + 1, w, b)
      BY <1>4, <3>3 DEF LinesOf
    <3>5. BlanksBefore(t + 1) - Passed(s) = 0 /\ BlanksBefore(t) - Passed(s) = 0
      BY <3>1, <3>2
    <3>6. CASE b
      <4>1. From(s, t + 1, w, b) = w
        BY <1>1, <2>1, <3>1, <3>6, Durations DEF From
      <4>2. on = w
        BY <2>1, <3>6 DEF on
      <4>3. LiveIs(s, on, t + 1, w, b)
        BY <3>5, <4>1, <4>2 DEF LiveIs, Moved
      <4> QED  BY <3>4, <4>3
    <3>7. CASE ~ b
      <4>1. From(s, t + 1, w, b) = s.vram /\ From(s, t, w, b) = s.vram
        BY <3>7 DEF From
      <4>2. on = a
        BY <3>7 DEF on
      <4>3. e => a = s.vram
        BY <1>2, <3>7, <4>1 DEF LiveIs, Moved
      <4>4. known => LiveIs(s, on, t + 1, w, b)
        BY <3>7, <4>1, <4>2, <4>3 DEF LiveIs, Moved
      <4> QED  BY <3>4, <4>4
    <3> QED  BY <1>1, <3>6, <3>7
  <2>2. CASE t # LoadTime
    <3> SUFFICES ASSUME e PROVE LiveIs(s, on, t + 1, w, b) /\ LinesOf(s, then, t + 1, w, b)
      BY <2>2
    <3>1. From(s, t + 1, w, b) = From(s, t, w, b)
      <4>1. LoadTime < t + 1 <=> LoadTime < t
        BY <1>1, <2>2, Durations
      <4> QED  BY <4>1 DEF From
    <3>2. \A n : Moved(s, n, t + 1, w, b) = Moved(s, n, t, w, b)
      BY <3>1 DEF Moved
    <3>3. LinesOf(s, lines, t + 1, w, b)
      BY <1>2, <3>2 DEF LinesOf
    <3>4. PICK n \in Nat, p \in Nat, g \in Nat :
              n = BlanksBefore(t) /\ p = Passed(s) /\ p <= n /\ g = n - p
      <4>1. BlanksBefore(t) \in 0..Lines
            /\ (BlanksBefore(t) < Lines => t <= BT(BlanksBefore(t)))
        BY <1>1, BlanksCounted
      <4>2. PICK h \in Int, p \in Int : h = BlanksBefore(t) /\ p = Passed(s)
              /\ h \in 0..Lines /\ p \in 0..Lines
        BY <1>3, <4>1, Durations
      <4>3. p <= h
        <5> SUFFICES ASSUME h < p PROVE FALSE
          BY <4>2
        <5>1. h < Lines /\ p > 0
          BY <4>2, Durations
        <5>2. t <= BT(h) /\ BT(p - 1) < t
          BY <1>1, <4>1, <4>2, <5>1 DEF InTime
        <5>3. PICK f \in Int : f = p - 1 /\ h <= f
          BY <4>2
        <5>4. BT(h) <= BT(f) /\ BT(h) \in Int /\ BT(f) \in Int
          BY <4>2, <5>3, TimeOf
        <5> QED  BY <1>1, <5>2, <5>3, <5>4
      <4> QED  BY <4>2, <4>3
    <3>5. LiveIs(s, on, t + 1, w, b)
      <4>1. CASE BlankAt(t) = {}
        <5>1. BlanksBefore(t + 1) = BlanksBefore(t)
          <6>1. BlanksBefore(t + 1) = BlanksBefore(t) + (IF BlankAt(t) = {} THEN 0 ELSE 1)
            BY <1>1, BlanksLater
          <6>2. BlanksBefore(t) \in Int
            BY <3>4
          <6> QED  BY <4>1, <6>1, <6>2
        <5>2. on = a
          BY <2>2, <4>1 DEF on
        <5> QED  BY <1>2, <3>2, <5>1, <5>2 DEF LiveIs
      <4>2. CASE BlankAt(t) # {}
        <5>1. BlanksBefore(t + 1) - Passed(s) = g + 1
          <6>1. BlanksBefore(t + 1) = BlanksBefore(t) + (IF BlankAt(t) = {} THEN 0 ELSE 1)
            BY <1>1, BlanksLater
          <6>2. BlanksBefore(t + 1) = n + 1
            BY <3>4, <4>2, <6>1
          <6> QED  BY <3>4, <6>2
        <5>2. CASE ~ b
          <6>1. on = a
            BY <5>2 DEF on
          <6>2. a = From(s, t, w, b)
            BY <1>2, <5>2 DEF LiveIs, Moved
          <6> QED  BY <3>1, <5>2, <6>1, <6>2 DEF LiveIs, Moved
        <5>3. CASE b
          <6>1. on = Down(a, w)
            BY <2>2, <4>2, <5>3 DEF on
          <6>2. PICK f \in Int : f = From(s, t, w, b)
            BY <1>1, <1>3 DEF From
          <6>3. Moved(s, g + 1, t, w, b) = Below(f, w, g + 1)
            <7>1. g + 1 > 0
              BY <3>4
            <7> QED  BY <5>3, <6>2, <7>1 DEF Moved
          <6>4. Down(a, w) = Below(f, w, g + 1)
            <7>1. CASE a = Moved(s, g, t, w, b)
              <8>1. CASE g = 0
                <9>1. a = f
                  BY <6>2, <7>1, <8>1 DEF Moved
                <9> QED  BY <1>1, <6>2, <8>1, <9>1, BelowOne
              <8>2. CASE g > 0
                <9>1. a = Below(f, w, g)
                  BY <5>3, <6>2, <7>1, <8>2 DEF Moved
                <9> QED  BY <1>1, <3>4, <6>2, <9>1, BelowIs
              <8> QED  BY <3>4, <8>1, <8>2
            <7>2. CASE s.hblank < s.scan /\ BlanksBefore(t) = Passed(s) /\ SameRow(a, s.vram)
              <8>1. g = 0
                BY <3>4, <7>2
              <8>2. f = s.vram
                BY <1>3, <6>2, <7>2 DEF From, Drawn
              <8>3. Down(a, w) = Down(f, w)
                BY <7>2, <8>2, SameEdge
              <8> QED  BY <1>1, <6>2, <8>1, <8>3, BelowOne
            <7> QED  BY <1>2, <3>4, <7>1, <7>2 DEF LiveIs
          <6>5. on = Moved(s, BlanksBefore(t + 1) - Passed(s), t + 1, w, b)
            BY <3>2, <5>1, <6>1, <6>3, <6>4
          <6> QED  BY <6>5 DEF LiveIs
        <5> QED  BY <1>1, <5>2, <5>3
      <4> QED  BY <4>1, <4>2
    <3>6. CASE ~ more
      <4>1. then = lines
        BY <3>6 DEF then
      <4> QED  BY <3>3, <3>5, <4>1
    <3>7. CASE more
      <4>1. then = Append(lines, a)
        BY <3>7 DEF then
      <4>2. LineAt(t) # {} /\ s.count <= LinesBefore(t) /\ Len(lines) = LinesBefore(t) - s.count
        BY <1>4, <3>7
      <4>3. LinesBefore(t) = n
        BY <1>1, <3>4, <4>2, Apart
      <4>4. a = Moved(s, n - p, t, w, b)
        <5>1. ~ (Drawn(s) /\ n = p)
          BY <1>3, <3>4, <4>2, <4>3
        <5> QED  BY <1>2, <1>3, <3>4, <5>1 DEF LiveIs
      <4>5. ASSUME NEW i \in 1..Len(then)
            PROVE  (i = 1 /\ FirstMissed(s))
                   \/ then[i] = Moved(s, s.count + i - 1 - Passed(s), t + 1, w, b)
        <5>1. Len(then) = Len(lines) + 1 /\ Len(lines) \in Nat
          BY <1>1, <4>1
        <5>2. CASE i <= Len(lines)
          <6>1. i \in 1..Len(lines) /\ then[i] = lines[i]
            BY <1>1, <4>1, <5>1, <5>2
          <6> QED  BY <3>3, <6>1 DEF LinesOf
        <5>3. CASE ~ (i <= Len(lines))
          <6>1. i = Len(lines) + 1
            BY <5>1, <5>3
          <6>2. then[i] = a
            BY <1>1, <4>1, <6>1
          <6>3. s.count + i - 1 - Passed(s) = n - p
            <7>1. PICK k \in Int, l \in Int : k = s.count /\ l = Len(lines) /\ l = n - k /\ i = l + 1
              BY <1>3, <4>2, <4>3, <5>1, <6>1
            <7>2. k + i - 1 - p = n - p
              <8>1. n \in Int /\ p \in Int
                BY <3>4
              <8>2. k \in Int /\ l \in Int /\ l = n - k /\ i = l + 1
                BY <7>1
              <8>3. PICK j \in Int : j = l + 1
                BY <8>2
              <8>4. j = n - k + 1
                BY <8>2, <8>3
              <8>5. k + j - 1 - p = n - p
                BY <8>1, <8>2, <8>3, <8>4
              <8> QED  BY <8>2, <8>3, <8>5
            <7> QED  BY <3>4, <7>1, <7>2
          <6> QED  BY <3>2, <4>4, <6>2, <6>3
        <5> QED  BY <5>2, <5>3
      <4> QED  BY <3>5, <4>5 DEF LinesOf
    <3> QED  BY <3>6, <3>7
  <2> QED  BY <2>1, <2>2
<1>10. Good(s, then, on, known, t + 1, w, b)
  BY <1>1, <1>4, <1>7, <1>8, <1>9 DEF Good
<1> QED  BY <1>5, <1>10 DEF then, on, more

-----------------------------------------------------------------------------
(* The invariant of the module                                             *)

\* The invariant.
Registers == second \in BOOLEAN /\ inc \in Int /\ bg \in BOOLEAN /\ exact \in BOOLEAN
IInv == Good(Lazy, begun, live, exact, time, temp, bg) /\ right = TRUE /\ Registers

\* An address put together is a number.
LEMMA AddressInt ==
    ASSUME NEW f \in Int, NEW v \in Int, NEW h \in Int, NEW y \in Int, NEW x \in Int
    PROVE  Address(f, v, h, y, x) \in Int
<1>1. \A m \in Int, n \in Int : m * n \in Int
  OBVIOUS
<1>2. /\ f * Row \in Int /\ v * 2 \in Int /\ h * Nt \in Int /\ y * Cols \in Int
  BY <1>1, Sizes
<1>3. v * 2 * Nt \in Int
  BY <1>1, <1>2, Sizes
<1> QED  BY <1>2, <1>3 DEF Address

\* The parts of an address are numbers.
LEMMA TypesInt ==
    ASSUME NEW a \in Int
    PROVE  /\ FineY(a) \in Int /\ NtV(a) \in Int /\ NtH(a) \in Int /\ CoarseY(a) \in Int
           /\ a % Cols \in Int /\ (a + 2) % Word \in Int /\ FrameTweak(a) \in Int
           /\ a % Low \in Int
<1>1. Word \in Nat /\ Word > 0
  BY Sizes DEF Word
<1>2. Low \in Nat /\ Low > 0
  BY Sizes, SizeAssumption
<1>3. (a + 2) % Word \in Int
  <2>1. a + 2 \in Int
    OBVIOUS
  <2> QED  BY <1>1, <2>1, Division
<1>4. a % Low \in Int
  BY <1>2, Division
<1>5. a \div Row \in Int
  BY Sizes, Division
<1>6. FineY(a) \in Int
  BY <1>5, Sizes, Division DEF FineY
<1>7. NtV(a) \in Int /\ NtH(a) \in Int /\ CoarseY(a) \in Int /\ a % Cols \in Int
  BY Parts, Sizes
<1>8. FrameTweak(a) \in Int
  <2>1. a + Nt \in Int /\ a - Nt \in Int /\ Cols - 2 \in Int
    BY Sizes
  <2> QED  BY <1>3, <2>1 DEF FrameTweak
<1> QED  BY <1>3, <1>4, <1>6, <1>7, <1>8

\* The lazy state is the variables that hold it.
LEMMA LazyFields ==
    /\ Lazy.vram = vram /\ Lazy.phase = phase /\ Lazy.scan = scan /\ Lazy.hblank = hblank
    /\ Lazy.count = count /\ Lazy.next = next /\ Lazy.drawn = <<>>
BY DEF Lazy

\* What an access leaves behind is the lazy state of the next moment.
LEMMA Becomes ==
    ASSUME NEW r, Become(r)
    PROVE  Lazy' = Fresh(r, r.vram)
BY DEF Become, Lazy, Fresh

\* The invariant at once: what an access catches up with, and that the lines
\* rendered are right.
LEMMA NowIs ==
    ASSUME IInv
    PROVE  /\ CaughtUp(Lazy, Now, begun, live, exact, time, bg)
           /\ Now.vram \in Int /\ time \in 0..FrameEnd /\ temp \in Int /\ live \in Int
           /\ Lazy.drawn = <<>> /\ vram \in Int
           /\ Registers
<1>1. /\ time \in 0..FrameEnd /\ temp \in Int /\ live \in Int /\ bg \in BOOLEAN
      /\ Good(Lazy, begun, live, exact, time, temp, bg) /\ Shape(Lazy)
  BY DEF IInv, Good, Registers
<1>2. CaughtUp(Lazy, Now, begun, live, exact, time, bg)
  BY <1>1, LazyFields, CatchesUp DEF Now
<1>3. Now.vram \in Int
  BY <1>2 DEF CaughtUp, Settled, Shape, LazyT
<1>4. vram \in Int
  BY <1>1, LazyFields DEF Shape, LazyT
<1> QED  BY <1>1, <1>2, <1>3, <1>4, LazyFields DEF IInv

\* The lines that catching up renders are right.
LEMMA RenderedRight ==
    ASSUME NEW r, NEW lines, NEW a, NEW e, NEW t, NEW b, CaughtUp(Lazy, r, lines, a, e, t, b),
           exact => e, LineAt(t) # {} => a = live, right = TRUE, Rendered(r, lines)
    PROVE  /\ right' = TRUE
           /\ begun' = SubSeq(lines, Len(r.drawn) + 1, Len(lines))
<1>1. ASSUME exact, NEW i \in DOMAIN r.drawn
      PROVE  (i = 1 /\ FirstMissed(Lazy)) \/ RightLine(lines, i, r.drawn[i])
  BY <1>1 DEF CaughtUp, RightLine
<1>2. (exact => \A i \in DOMAIN r.drawn :
                    (i = 1 /\ FirstMissed(Lazy)) \/ RightLine(lines, i, r.drawn[i])) = TRUE
  BY <1>1
<1> QED  BY <1>2 DEF Rendered

\* An access that has caught up keeps the invariant.
LEMMA Accessed ==
    ASSUME IInv, NEW x \in Int, CatchUp([Now EXCEPT !.vram = x]),
           time' = time, bg' = bg, second' \in BOOLEAN, inc' \in Int, exact' \in BOOLEAN,
           live' \in Int, temp' \in Int,
           exact' => exact /\ (live' = x \/ (live' = live /\ x = Now.vram))
    PROVE  IInv'
<1>1. /\ CaughtUp(Lazy, Now, begun, live, exact, time, bg)
      /\ Good(Lazy, begun, live, exact, time, temp, bg) /\ right = TRUE /\ bg \in BOOLEAN
  BY NowIs DEF IInv, Registers
<1>2. PICK r : r = [Now EXCEPT !.vram = x]
  OBVIOUS
<1>3. Now \in LazyT
  BY <1>1 DEF CaughtUp, Settled, Shape
<1>4. r.drawn = Now.drawn /\ r.vram = x
  BY <1>2, <1>3 DEF LazyT
<1>5. Fresh(r, x) = Fresh(Now, x)
  BY <1>2, <1>3 DEF LazyT, Fresh
<1>6. Become(r) /\ Rendered(r, begun)
  BY <1>2 DEF CatchUp
<1>7. Rendered(Now, begun)
  BY <1>4, <1>6 DEF Rendered
<1>8. right' = TRUE /\ begun' = SubSeq(begun, Len(Now.drawn) + 1, Len(begun))
  BY <1>1, <1>7, RenderedRight
<1>9. Lazy' = Fresh(Now, x)
  BY <1>4, <1>5, <1>6, Becomes
<1>10. exact' => live' = x \/ (Drawn(Now) /\ bg /\ SameRow(live', x))
  BY <1>1 DEF CaughtUp
<1>11. Good(Fresh(Now, x), SubSeq(begun, Len(Now.drawn) + 1, Len(begun)),
            live', exact', time, temp', bg)
  BY <1>1, <1>10, AccessIs
<1>12. Good(Lazy, begun, live, exact, time, temp, bg)'
  BY <1>8, <1>9, <1>11
<1> QED  BY <1>1, <1>8, <1>12 DEF IInv, Registers

\* An access that does not catch up keeps it, if it changes nothing the lazy
\* state depends on.
LEMMA Untouched ==
    ASSUME IInv, CatchUp(Lazy), UNCHANGED <<time, temp, live, exact, bg>>,
           second' \in BOOLEAN, inc' \in Int
    PROVE  IInv'
<1>1. Good(Lazy, begun, live, exact, time, temp, bg) /\ right = TRUE /\ Registers /\ begun \in Seq(Int)
  BY DEF IInv, Good
<1>2. Become(Lazy) /\ Rendered(Lazy, begun)
  BY DEF CatchUp
<1>3. Lazy' = Lazy
  BY <1>2, LazyFields DEF Become, Lazy
<1>4. \A i \in DOMAIN Lazy.drawn : FALSE
  BY LazyFields
<1>5. right' = TRUE
  BY <1>1, <1>2, <1>4 DEF Rendered
<1>6. begun' = begun
  BY <1>1, <1>2, LazyFields DEF Rendered
<1>7. Good(Lazy, begun, live, exact, time, temp, bg)'
  BY <1>1, <1>3, <1>6
<1> QED  BY <1>1, <1>5, <1>7 DEF IInv, Registers

\* What the lazy state depends on may change where it has not caught up, if
\* the address counts as exact no longer.
LEMMA Unknown ==
    ASSUME NEW s, NEW lines, NEW a, NEW e, NEW t, NEW w, NEW b,
           Good(s, lines, a, e, t, w, b), NEW w2 \in Int, NEW b2 \in BOOLEAN
    PROVE  Good(s, lines, a, FALSE, t, w2, b2)
BY DEF Good

\* Less may be known of it.
LEMMA Known ==
    ASSUME NEW s, NEW lines, NEW a, NEW e, NEW t, NEW w, NEW b,
           Good(s, lines, a, e, t, w, b), NEW e2, e2 => e
    PROVE  Good(s, lines, a, e2, t, w, b)
BY DEF Good

\* An access that renders nothing leaves the lines as they are.
LEMMA NothingRendered ==
    ASSUME NEW lines, lines \in Seq(Int), right = TRUE, Become(Lazy), Rendered(Lazy, lines)
    PROVE  Lazy' = Lazy /\ right' = TRUE /\ begun' = lines
<1>1. Lazy' = Lazy
  BY LazyFields DEF Become, Lazy
<1>2. \A i \in DOMAIN Lazy.drawn : FALSE
  BY LazyFields
<1>3. right' = TRUE
  BY <1>2 DEF Rendered
<1>4. begun' = lines
  BY LazyFields DEF Rendered
<1> QED  BY <1>1, <1>3, <1>4

\* render_until catches up or does nothing.
LEMMA RenderUntilIs ==
    ASSUME NEW t
    PROVE  RenderUntil(t) = RenderBgUntil(Lazy, t) \/ RenderUntil(t) = Lazy
BY DEF RenderUntil

-----------------------------------------------------------------------------
(* Every action keeps it                                                   *)

\* What goes with the addresses that may be written.
LEMMA DataInt ==
    /\ \A nt \in NtData : nt[1] \in Int /\ nt[2] \in Int
    /\ \A x \in XData : x \in Int
    /\ \A y \in YData : y[1] \in Int /\ y[2] \in Int
    /\ \A a \in AddrData : a \in Int
    /\ Cols \in Int /\ Word \in Nat /\ Word > 0 /\ Low \in Nat /\ Low > 0
<1>1. NtData \subseteq (0..1) \X (0..1) /\ XData \subseteq 0..(Cols - 1)
      /\ YData \subseteq (0..(Fine - 1)) \X (0..(Rows - 1)) /\ AddrData \subseteq 0..(BusSize - 1)
  BY SizeAssumption
<1>2. Low \in Nat /\ Low > 0
  BY SizeAssumption, Sizes
<1>3. Word \in Nat /\ Word > 0
  BY Sizes DEF Word
<1>4. \A y \in YData : y[1] \in 0..(Fine - 1) /\ y[2] \in 0..(Rows - 1)
  BY <1>1
<1>5. \A nt \in NtData : nt[1] \in 0..1 /\ nt[2] \in 0..1
  BY <1>1
<1> QED  BY <1>1, <1>2, <1>3, <1>4, <1>5, Sizes

\* A PPU that catches up and keeps its address is one that caught up.
LEMMA NowItself ==
    ASSUME IInv
    PROVE  [Now EXCEPT !.vram = Now.vram] = Now
<1>1. Now \in LazyT
  BY NowIs DEF CaughtUp, Settled, Shape
<1> QED  BY <1>1 DEF LazyT

\* The invariant holds when a frame begins.
LEMMA InitGood ==
    ASSUME Init
    PROVE  IInv
<1>1. /\ time = 0 /\ second = FALSE /\ inc = 1 /\ bg \in BOOLEAN /\ vram = temp /\ live = temp
      /\ phase = 0 /\ scan = FirstLine /\ hblank = FirstLine + HblankIn
      /\ count = 0 /\ next = LoadTime /\ begun = <<>> /\ exact = TRUE /\ right = TRUE
  BY DEF Init
<1>2. temp \in Int
  <2>1. PICK y \in YData : temp = Address(y[1], 0, 0, y[2], 0)
    BY DEF Init
  <2>2. y[1] \in Int /\ y[2] \in Int /\ 0 \in Int
    BY DataInt
  <2> QED  BY <2>1, <2>2, AddressInt
<1>3. LT(0) = FirstLine /\ BT(0) = FirstLine + HblankIn
  BY TimesAt
<1>4. Lazy \in LazyT
  BY <1>1, <1>2, Durations DEF Lazy, LazyT
<1>5. Shape(Lazy)
  BY <1>1, <1>3, <1>4, LazyFields, Durations DEF Shape, Early
<1>6. ~ Drawn(Lazy)
  BY <1>1, LazyFields DEF Drawn
<1>7. Passed(Lazy) = 0
  BY <1>1, <1>5, <1>6, LazyFields, ShapeIs
<1>8. InTime(Lazy, 0)
  BY <1>1, <1>7, LazyFields DEF InTime
<1>9. 0 \in 0..FrameEnd /\ 0 \in Int
  BY TimeOf
<1>10. LinesBefore(0) = 0 /\ BlanksBefore(0) = 0
  <2>1. 0 <= LoadTime + 1
    BY Durations
  <2> QED  BY <1>9, <2>1, Apart
<1>11. Len(begun) = Owed(Lazy, 0) /\ begun \in Seq(Int)
  BY <1>1, <1>10, LazyFields DEF Owed
<1>12. LinesOf(Lazy, begun, 0, temp, bg)
  BY <1>1 DEF LinesOf
<1>13. From(Lazy, 0, temp, bg) = vram
  BY LazyFields, Durations DEF From
<1>14. LiveIs(Lazy, live, 0, temp, bg)
  <2>1. BlanksBefore(0) - Passed(Lazy) = 0
    BY <1>7, <1>10
  <2> QED  BY <1>1, <1>13, <2>1 DEF LiveIs, Moved
<1>15. Good(Lazy, begun, live, exact, 0, temp, bg)
  BY <1>1, <1>2, <1>5, <1>8, <1>9, <1>11, <1>12, <1>14 DEF Good
<1>16. Good(Lazy, begun, live, exact, time, temp, bg)
  BY <1>1, <1>15
<1>17. Registers
  <2>1. inc \in Int
    BY <1>1
  <2>2. second \in BOOLEAN /\ exact \in BOOLEAN /\ bg \in BOOLEAN
    BY <1>1, Zenon
  <2> QED  BY <2>1, <2>2 DEF Registers
<1> QED  BY <1>1, <1>16, <1>17 DEF IInv

\* A clock that passes with nothing rendered keeps the invariant.
LEMMA TickGood ==
    ASSUME IInv, Tick
    PROVE  IInv'
<1>1. /\ time < FrameEnd /\ time' = time + 1 /\ live' = LiveAfter(time) /\ begun' = Begin
      /\ exact' = (exact \/ (time = LoadTime /\ bg))
      /\ UNCHANGED <<lazy, temp, second, inc, bg, right, accesses>>
  BY DEF Tick, Pass
<1>2. Good(Lazy, begun, live, exact, time, temp, bg) /\ right = TRUE /\ Registers
  BY DEF IInv
<1>3. Lazy' = Lazy
  BY <1>1 DEF Lazy, lazy
<1>4. Good(Lazy, Begin, LiveAfter(time), exact \/ (time = LoadTime /\ bg), time + 1, temp, bg)
  BY <1>1, <1>2, ClockIs, LazyFields DEF Begin, LiveAfter
<1>5. Good(Lazy, begun, live, exact, time, temp, bg)'
  BY <1>1, <1>3, <1>4
<1>6. Registers'
  BY <1>1, <1>2 DEF Registers
<1> QED  BY <1>1, <1>2, <1>5, <1>6 DEF IInv

\* $2001 catches up before the background is turned on or off, or the address
\* counts as exact no longer.
LEMMA WriteMaskGood ==
    ASSUME IInv, WriteMask
    PROVE  IInv'
<1> DEFINE on    == LiveAfter(time)
           known == exact \/ (time = LoadTime /\ bg)
           t     == time + 1
<1>1. PICK r : r = RenderBgUntil(Lazy, time + 1)
  OBVIOUS
<1>2. PICK s \in {r, Lazy}, flip \in BOOLEAN :
        /\ time < FrameEnd /\ time' = time + 1 /\ live' = on /\ Become(s) /\ Rendered(s, Begin)
        /\ exact' = (exact /\ (flip => s = r /\ live' = vram')) /\ bg' = (bg # flip)
        /\ UNCHANGED <<temp, second, inc>>
  <2>1. PICK changed \in SUBSET {"bg", "clip", "sprites", "colors"} :
          LET drawn == changed \cap {"sprites", "colors"} # {}
              s     == IF "sprites" \notin changed /\ changed \cap {"bg", "clip"} # {} THEN r
                       ELSE IF drawn THEN RenderUntil(time + 1) ELSE Lazy
          IN  /\ Become(s) /\ Rendered(s, Begin)
              /\ exact' = (exact /\ ("bg" \in changed => s = r /\ live' = vram'))
              /\ bg' = (bg # ("bg" \in changed))
              /\ UNCHANGED <<temp, second, inc>>
    BY <1>1 DEF WriteMask
  <2> DEFINE drawn == changed \cap {"sprites", "colors"} # {}
             s == IF "sprites" \notin changed /\ changed \cap {"bg", "clip"} # {} THEN r
                  ELSE IF drawn THEN RenderUntil(time + 1) ELSE Lazy
  <2>2. s \in {r, Lazy}
    BY <1>1, RenderUntilIs
  <2>3. time < FrameEnd /\ time' = time + 1 /\ live' = on
    BY DEF WriteMask, Pass
  <2>4. /\ Become(s) /\ Rendered(s, Begin)
        /\ exact' = (exact /\ ("bg" \in changed => s = r /\ live' = vram'))
        /\ bg' = (bg # ("bg" \in changed)) /\ UNCHANGED <<temp, second, inc>>
    BY <2>1
  <2>5. PICK flip \in BOOLEAN : flip = ("bg" \in changed)
    <3>1. ("bg" \in changed) \in BOOLEAN
      OBVIOUS
    <3> QED  BY <3>1, Zenon
  <2> HIDE DEF s, drawn, on
  <2>6. /\ exact' = (exact /\ (flip => s = r /\ live' = vram')) /\ bg' = (bg # flip)
    BY <2>4, <2>5, Zenon
  <2> QED  BY <2>2, <2>3, <2>4, <2>5, <2>6, Zenon
<1>3. Good(Lazy, begun, live, exact, time, temp, bg) /\ right = TRUE /\ Registers
      /\ temp \in Int /\ bg \in BOOLEAN
  BY DEF IInv, Registers, Good
<1>4. Good(Lazy, Begin, on, known, t, temp, bg) /\ (LineAt(t) # {} => on = live)
  BY <1>2, <1>3, ClockIs, LazyFields DEF Begin, LiveAfter
<1> HIDE DEF on, known
<1>5. CaughtUp(Lazy, r, Begin, on, known, t, bg)
  BY <1>1, <1>3, <1>4, LazyFields, CatchesUp
<1>6. exact => known
  BY DEF known
<1>7. bg' \in BOOLEAN /\ exact' \in BOOLEAN /\ (~flip => bg' = bg)
  BY <1>2, <1>3, Zenon DEF Registers
<1>8. Good(Lazy, begun, live, exact, time, temp, bg)' /\ right' = TRUE
  <2>1. CASE s = r
    <3>1. right' = TRUE /\ begun' = SubSeq(Begin, Len(r.drawn) + 1, Len(Begin))
      BY <1>2, <1>3, <1>4, <1>5, <1>6, <2>1, RenderedRight
    <3>2. r.vram \in Int /\ on \in Int
      BY <1>4, <1>5 DEF CaughtUp, Settled, Shape, LazyT, Good
    <3>3. Lazy' = Fresh(r, r.vram) /\ vram' = r.vram
      BY <1>2, <2>1, Becomes DEF Become
    <3>4. Good(Fresh(r, r.vram), SubSeq(Begin, Len(r.drawn) + 1, Len(Begin)),
                on, exact', t, temp, bg')
      <4>1. exact' => on = r.vram \/ (Drawn(r) /\ bg' /\ SameRow(on, r.vram))
        <5>1. CASE flip
          BY <1>2, <3>3, <5>1
        <5>2. CASE ~flip
          BY <1>2, <1>5, <1>6, <1>7, <5>2 DEF CaughtUp
        <5> QED  BY <5>1, <5>2
      <4> QED  BY <1>3, <1>4, <1>5, <1>7, <3>2, <4>1, AccessIs, ZenonT(60)
    <3> QED  BY <1>2, <3>1, <3>3, <3>4
  <2>2. CASE s = Lazy
    <3>1. Begin \in Seq(Int)
      BY <1>4 DEF Good
    <3>2. Lazy' = Lazy /\ right' = TRUE /\ begun' = Begin
      BY <1>2, <1>3, <2>2, <3>1, NothingRendered
    <3>3. CASE flip /\ s # r
      <4>1. exact' = FALSE
        BY <1>2, <3>3
      <4>2. Good(Lazy, Begin, on, FALSE, t, temp, bg')
        BY <1>3, <1>4, <1>7, Unknown
      <4> QED  BY <1>2, <3>2, <4>1, <4>2
    <3>4. CASE ~flip
      <4>1. Good(Lazy, Begin, on, exact', t, temp, bg)
        <5>1. exact' => known
          BY <1>2, <1>6
        <5> QED  BY <1>4, <5>1, Known
      <4> QED  BY <1>2, <1>7, <3>2, <3>4, <4>1
    <3> QED  BY <2>1, <3>3, <3>4
  <2> QED  BY <1>2, <2>1, <2>2
<1>9. Registers'
  BY <1>2, <1>3, <1>7 DEF Registers
<1> QED  BY <1>8, <1>9 DEF IInv

\* $2000 catches up before the nametable of what is loaded changes, or the
\* address counts as exact no longer.
LEMMA WriteControlGood ==
    ASSUME IInv, WriteControl
    PROVE  IInv'
<1>1. PICK nt \in NtData, i \in {1, Cols}, s \in {Now, Lazy} :
        /\ temp' = Address(FineY(temp), nt[1], nt[2], CoarseY(temp), temp % Cols)
        /\ CatchUp(s) /\ exact' = (exact /\ (temp' = temp \/ s = Now))
        /\ inc' = i
        /\ UNCHANGED <<time, second, bg, live>>
  BY RenderUntilIs DEF WriteControl, Now
<1>2. temp \in Int /\ live \in Int /\ Registers /\ Now.vram \in Int /\ right = TRUE
      /\ Good(Lazy, begun, live, exact, time, temp, bg) /\ begun \in Seq(Int)
  BY NowIs DEF IInv, Good
<1>3. temp' \in Int
  <2>1. FineY(temp) \in Int /\ CoarseY(temp) \in Int /\ temp % Cols \in Int
    BY <1>2, TypesInt
  <2>2. nt[1] \in Int /\ nt[2] \in Int
    BY DataInt
  <2> QED  BY <1>1, <2>1, <2>2, AddressInt
<1>4. inc' \in Int
  BY <1>1, DataInt
<1>5. second' \in BOOLEAN /\ live' \in Int /\ live' = live /\ time' = time /\ bg' = bg
      /\ bg' \in BOOLEAN
  BY <1>1, <1>2 DEF Registers
<1>6. exact' \in BOOLEAN /\ (exact' => exact)
  <2>1. exact \in BOOLEAN
    BY <1>2 DEF Registers
  <2> QED  BY <1>1, <2>1, Zenon
<1>7. CASE s = Now
  <2>1. CatchUp([Now EXCEPT !.vram = Now.vram])
    BY <1>1, <1>7, NowItself
  <2> QED  BY <1>2, <1>3, <1>4, <1>5, <1>6, <2>1, Accessed
<1>8. CASE s = Lazy
  <2>1. Lazy' = Lazy /\ right' = TRUE /\ begun' = begun
    BY <1>1, <1>2, <1>8, NothingRendered DEF CatchUp
  <2>2. CASE temp' = temp
    <3>1. Good(Lazy, begun, live, exact', time, temp, bg)
      BY <1>2, <1>6, Known
    <3>2. Good(Lazy, begun, live, exact, time, temp, bg)'
      BY <1>5, <2>1, <2>2, <3>1
    <3> QED  BY <1>4, <1>5, <1>6, <2>1, <3>2 DEF IInv, Registers
  <2>3. CASE temp' # temp /\ s # Now
    <3>1. exact' = FALSE
      BY <1>1, <2>3
    <3>2. Good(Lazy, begun, live, FALSE, time, temp', bg')
      BY <1>2, <1>3, <1>5, Unknown
    <3>3. Good(Lazy, begun, live, exact, time, temp, bg)'
      BY <1>5, <2>1, <3>1, <3>2
    <3> QED  BY <1>4, <1>5, <1>6, <2>1, <3>3 DEF IInv, Registers
  <2> QED  BY <1>7, <2>2, <2>3
<1> QED  BY <1>1, <1>7, <1>8

\* $2002 resets the write toggle alone.
LEMMA ReadStatusGood ==
    ASSUME IInv, ReadStatus
    PROVE  IInv'
<1>1. UNCHANGED <<lazy, time, temp, inc, bg, live, begun, exact, right>> /\ second' = FALSE
  BY DEF ReadStatus
<1>2. Lazy' = Lazy
  BY <1>1 DEF Lazy, lazy
<1>3. Good(Lazy, begun, live, exact, time, temp, bg)'
  BY <1>1, <1>2 DEF IInv
<1> QED  BY <1>1, <1>3 DEF IInv, Registers

\* $2005 catches up before what is loaded changes.
LEMMA WriteScrollGood ==
    ASSUME IInv, WriteScroll
    PROVE  IInv'
<1>1. /\ CatchUp(Now) /\ second' = ~ second /\ UNCHANGED <<time, inc, bg, live, exact>>
      /\ \/ \E x \in XData : temp' = temp - (temp % Cols) + x
         \/ \E y \in YData : temp' = Address(y[1], NtV(temp), NtH(temp), y[2], temp % Cols)
  BY DEF WriteScroll
<1>2. temp \in Int /\ live \in Int /\ Registers /\ Now.vram \in Int
  BY NowIs
<1>3. NtV(temp) \in Int /\ NtH(temp) \in Int /\ temp % Cols \in Int
  BY <1>2, TypesInt
<1>4. temp' \in Int
  <2>1. CASE \E x \in XData : temp' = temp - (temp % Cols) + x
    <3>1. PICK x \in XData : temp' = temp - (temp % Cols) + x
      BY <2>1
    <3>2. x \in Int
      BY DataInt
    <3> QED  BY <1>2, <1>3, <3>1, <3>2
  <2>2. CASE \E y \in YData : temp' = Address(y[1], NtV(temp), NtH(temp), y[2], temp % Cols)
    <3>1. PICK y \in YData : temp' = Address(y[1], NtV(temp), NtH(temp), y[2], temp % Cols)
      BY <2>2
    <3>2. y[1] \in Int /\ y[2] \in Int
      BY DataInt
    <3> QED  BY <1>3, <3>1, <3>2, AddressInt
  <2> QED  BY <1>1, <2>1, <2>2
<1>5. /\ second' \in BOOLEAN /\ exact' \in BOOLEAN /\ live' \in Int /\ exact' = exact
      /\ live' = live /\ time' = time /\ bg' = bg /\ inc' \in Int
  BY <1>1, <1>2 DEF Registers
<1>6. CatchUp([Now EXCEPT !.vram = Now.vram])
  BY <1>1, NowItself
<1> QED  BY <1>2, <1>4, <1>5, <1>6, Accessed

\* An access that only catches up keeps the invariant.
LEMMA OtherAccessGood ==
    ASSUME IInv, OtherAccess
    PROVE  IInv'
<1>1. PICK s \in {Now, Lazy} :
        CatchUp(s) /\ UNCHANGED <<time, temp, second, inc, bg, live, exact>>
  BY RenderUntilIs DEF OtherAccess, Now
<1>2. temp \in Int /\ live \in Int /\ Registers /\ Now.vram \in Int
  BY NowIs
<1>3. /\ second' \in BOOLEAN /\ inc' \in Int /\ exact' \in BOOLEAN /\ live' \in Int
      /\ temp' \in Int /\ time' = time /\ bg' = bg /\ exact' = exact /\ live' = live
  BY <1>1, <1>2 DEF Registers
<1>4. CASE s = Now
  <2>1. CatchUp([Now EXCEPT !.vram = Now.vram])
    BY <1>1, <1>4, NowItself
  <2> QED  BY <1>2, <1>3, <2>1, Accessed
<1>5. CASE s = Lazy
  BY <1>1, <1>3, <1>5, Untouched
<1> QED  BY <1>1, <1>4, <1>5

\* $2006 catches up before the address changes.
LEMMA WriteAddressGood ==
    ASSUME IInv, WriteAddress
    PROVE  IInv'
<1>1. PICK a \in AddrData :
        /\ second' = ~ second
        /\ IF second
           THEN /\ temp' = temp - (temp % Low) + (a % Low)
                /\ CatchUp([Now EXCEPT !.vram = temp'])
                /\ live' = temp'
           ELSE /\ temp' = (a - (a % Low)) + (temp % Low)
                /\ CatchUp(Now) /\ UNCHANGED live
        /\ UNCHANGED <<time, inc, bg, exact>>
  BY DEF WriteAddress
<1>2. temp \in Int /\ live \in Int /\ Registers /\ Now.vram \in Int
  BY NowIs
<1>3. a \in Int /\ a % Low \in Int /\ temp % Low \in Int
  BY <1>2, DataInt, TypesInt
<1>4. temp' \in Int
  BY <1>1, <1>2, <1>3
<1>5. /\ second' \in BOOLEAN /\ exact' \in BOOLEAN /\ exact' = exact
      /\ time' = time /\ bg' = bg /\ inc' \in Int
  BY <1>1, <1>2 DEF Registers
<1>6. CASE second
  <2>1. CatchUp([Now EXCEPT !.vram = temp']) /\ live' = temp'
    BY <1>1, <1>6
  <2> QED  BY <1>4, <1>5, <2>1, Accessed
<1>7. CASE ~ second
  <2>1. CatchUp([Now EXCEPT !.vram = Now.vram]) /\ live' = live
    BY <1>1, <1>7, NowItself
  <2> QED  BY <1>2, <1>4, <1>5, <2>1, Accessed
<1> QED  BY <1>6, <1>7

\* Reading $2007 catches up before the address moves on.
LEMMA ReadDataGood ==
    ASSUME IInv, ReadData
    PROVE  IInv'
<1>1. /\ CatchUp([Now EXCEPT !.vram = (@ + inc) % Word])
      /\ live' = (live + inc) % Word /\ exact' = (exact /\ live = Now.vram)
      /\ UNCHANGED <<time, temp, second, inc, bg>>
  BY DEF ReadData
<1>2. temp \in Int /\ live \in Int /\ Registers /\ Now.vram \in Int
  BY NowIs
<1>3. inc \in Int /\ live + inc \in Int /\ Now.vram + inc \in Int
  BY <1>2 DEF Registers
<1>4. live' \in Int /\ (Now.vram + inc) % Word \in Int
  <2>1. PICK y \in Int, z \in Int : y = live + inc /\ z = Now.vram + inc
    BY <1>3
  <2>2. y % Word \in Int /\ z % Word \in Int
    BY DataInt, Division
  <2> QED  BY <1>1, <2>1, <2>2
<1>5. CatchUp([Now EXCEPT !.vram = (Now.vram + inc) % Word])
  BY <1>1
<1>6. /\ second' \in BOOLEAN /\ exact' \in BOOLEAN /\ temp' \in Int
      /\ time' = time /\ bg' = bg /\ inc' \in Int
  BY <1>1, <1>2 DEF Registers
<1>7. exact' => exact /\ live' = (Now.vram + inc) % Word
  BY <1>1
<1> QED  BY <1>4, <1>5, <1>6, <1>7, Accessed

\* Writing $2007 moves the address on without catching up: the address counts
\* as exact only when nothing was due.
LEMMA WriteDataGood ==
    ASSUME IInv, WriteData
    PROVE  IInv'
<1>1. /\ CatchUp([Lazy EXCEPT !.vram = (@ + inc) % Word])
      /\ live' = (live + inc) % Word /\ exact' = (exact /\ Now = Lazy /\ live = vram)
      /\ UNCHANGED <<time, temp, second, inc, bg>>
  BY DEF WriteData
<1>2. /\ temp \in Int /\ live \in Int /\ Registers /\ vram \in Int
      /\ CaughtUp(Lazy, Now, begun, live, exact, time, bg)
  BY NowIs
<1>3. /\ Good(Lazy, begun, live, exact, time, temp, bg) /\ right = TRUE /\ begun \in Seq(Int)
      /\ Shape(Lazy) /\ InTime(Lazy, time) /\ time \in 0..FrameEnd /\ Len(begun) = Owed(Lazy, time)
  BY DEF IInv, Good
<1>4. PICK x \in Int : x = (vram + inc) % Word
  <2>1. PICK y \in Int : y = vram + inc
    BY <1>2 DEF Registers
  <2>2. y % Word \in Int
    BY DataInt, Division
  <2> QED  BY <2>1, <2>2
<1>5. live' \in Int
  <2>1. PICK y \in Int : y = live + inc
    BY <1>2 DEF Registers
  <2>2. y % Word \in Int
    BY DataInt, Division
  <2> QED  BY <1>1, <2>1, <2>2
<1>6. PICK r : r = [Lazy EXCEPT !.vram = x]
  OBVIOUS
<1>7. CatchUp(r)
  BY <1>1, <1>4, <1>6, LazyFields
<1>8. Lazy \in LazyT
  BY <1>3 DEF Shape
<1>9. r.drawn = <<>> /\ r.vram = x /\ Fresh(r, x) = Fresh(Lazy, x)
  BY <1>6, <1>8, LazyFields DEF LazyT, Fresh
<1>10. Become(r) /\ Rendered(r, begun)
  BY <1>7 DEF CatchUp
<1>11. Lazy' = Fresh(Lazy, x)
  BY <1>9, <1>10, Becomes
<1>12. right' = TRUE
  <2>1. \A i \in DOMAIN r.drawn : FALSE
    BY <1>9
  <2> QED  BY <1>3, <1>10, <2>1 DEF Rendered
<1>13. begun' = SubSeq(begun, Len(Lazy.drawn) + 1, Len(begun)) /\ begun' = begun
  BY <1>3, <1>9, <1>10, LazyFields DEF Rendered
<1>14. CASE exact'
  <2>1. exact /\ Now = Lazy /\ live' = x
    BY <1>1, <1>4, <1>14
  <2>2. CaughtUp(Lazy, Lazy, begun, live, exact, time, bg)
    BY <1>2, <2>1
  <2>3. bg \in BOOLEAN
    BY <1>2 DEF Registers
  <2>4. Good(Fresh(Lazy, x), SubSeq(begun, Len(Lazy.drawn) + 1, Len(begun)),
             live', exact', time, temp, bg)
    BY <1>2, <1>3, <1>5, <2>1, <2>2, <2>3, AccessIs, ZenonT(60)
  <2>5. Good(Lazy, begun, live, exact, time, temp, bg)'
    BY <1>1, <1>11, <1>13, <2>4
  <2> QED  BY <1>1, <1>2, <1>12, <2>5 DEF IInv, Registers
<1>15. CASE ~ exact'
  <2>1. PICK q : q = Fresh(Lazy, x)
    OBVIOUS
  <2>2. Shape(q) /\ InTime(q, time) /\ q.count = Lazy.count
    BY <1>3, <2>1, FreshIs
  <2>3. Len(begun) = Owed(q, time)
    BY <1>3, <2>2 DEF Owed
  <2>4. bg \in BOOLEAN
    BY <1>2 DEF Registers
  <2>5. Good(q, begun, live', exact', time, temp, bg)
    BY <1>2, <1>3, <1>5, <1>15, <2>2, <2>3, <2>4 DEF Good
  <2>6. Good(Lazy, begun, live, exact, time, temp, bg)'
    BY <1>1, <1>11, <1>13, <2>1, <2>5
  <2> QED  BY <1>1, <1>2, <1>12, <2>6 DEF IInv, Registers
<1> QED  BY <1>14, <1>15

\* At the end of a frame every line is drawn and the blank after it passed.
LEMMA FrameDone ==
    ASSUME IInv, time = FrameEnd
    PROVE  /\ Now.count = Lines /\ (exact => live = Now.vram)
           /\ SubSeq(begun, Len(Now.drawn) + 1, Len(begun)) = <<>>
<1>1. /\ CaughtUp(Lazy, Now, begun, live, exact, time, bg)
      /\ begun \in Seq(Int) /\ Len(begun) = Owed(Lazy, time)
  BY NowIs DEF IInv, Good
<1>2. Settled(Now, FrameEnd) /\ Shape(Now) /\ FrameEnd <= Now.next
  BY <1>1 DEF CaughtUp, Settled
<1>3. /\ Now.count \in 0..Lines /\ Now.count \in Int /\ Now.scan = LT(Now.count)
      /\ Now.next \in Int /\ Now.drawn \in Seq(Int)
  BY <1>2, Durations DEF Shape, LazyT
<1>4. /\ FrameEnd \in Int /\ FrameEnd \in 0..FrameEnd /\ FrameEnd = BT(Lines - 1) + 2
      /\ FrameEnd < LT(Lines)
  BY TimeOf
<1>5. PICK l \in Int : l = Lines - 1 /\ l >= 0 /\ Lines \in 0..Lines /\ Lines > 0
  BY Durations
<1>6. LT(l) \in Int /\ BT(l) \in Int /\ BT(l) = LT(l) + HblankIn /\ LT(l) >= LT(0)
      /\ LT(0) = FirstLine /\ BT(0) = FirstLine + HblankIn
  BY <1>5, TimesAt
<1>7. LinesBefore(FrameEnd) = Lines
  <2>1. LT(Lines - 1) < FrameEnd
    BY <1>4, <1>5, <1>6, Durations
  <2> QED  BY <1>4, <1>5, <2>1, LinesAre
<1>8. ~ Waits(Now)
  <2>1. Waits(Now) => FrameEnd <= BT(0)
    BY <1>2 DEF Waits
  <2>2. BT(0) \in Int /\ BT(0) <= BT(l)
    BY <1>6, Durations
  <2> QED  BY <1>4, <1>5, <1>6, <2>1, <2>2
<1>9. Now.count = Lines
  <2>1. LinesBefore(FrameEnd) <= Now.count
    BY <1>2, <1>4, <1>8, SettledIs
  <2> QED  BY <1>3, <1>7, <2>1, Durations
<1>10. ~ Drawn(Now)
  <2>1. Drawn(Now) => Now.next = BT(Lines - 1)
    BY <1>9 DEF Drawn
  <2> QED  BY <1>2, <1>3, <1>4, <1>5, <1>6, <2>1
<1>11. exact => live = Now.vram
  BY <1>1, <1>10 DEF CaughtUp
<1>12. SubSeq(begun, Len(Now.drawn) + 1, Len(begun)) = <<>>
  <2>1. Len(begun) <= Len(Now.drawn)
    <3>1. CASE Now.drawn = <<>>
      <4>1. Lazy.count = Lines
        BY <1>1, <1>9, <3>1 DEF CaughtUp
      <4>2. Len(begun) = 0
        BY <1>1, <1>7, <4>1, Durations DEF Owed
      <4> QED  BY <1>3, <4>2
    <3>2. CASE Now.drawn # <<>>
      BY <1>1, <3>2 DEF CaughtUp
    <3> QED  BY <3>1, <3>2
  <2>2. Len(Now.drawn) \in Nat /\ Len(begun) \in Nat
    BY <1>1, <1>3
  <2> QED  BY <1>1, <2>1, <2>2
<1> QED  BY <1>9, <1>11, <1>12

\* The end of a frame renders what is left, and the next begins in shape.
LEMMA NextFrameGood ==
    ASSUME IInv, NextFrame
    PROVE  IInv'
<1>1. /\ time = FrameEnd /\ time' = 0 /\ live' = FrameTweak(live)
      /\ Become(NewFrame(FrameTweak(Now.vram))) /\ Rendered(Now, begun)
      /\ UNCHANGED <<temp, second, inc, bg, exact, accesses>>
  BY DEF NextFrame
<1>2. /\ temp \in Int /\ live \in Int /\ Registers /\ Now.vram \in Int
      /\ CaughtUp(Lazy, Now, begun, live, exact, time, bg) /\ right = TRUE
  BY NowIs DEF IInv
<1>3. (exact => live = Now.vram) /\ SubSeq(begun, Len(Now.drawn) + 1, Len(begun)) = <<>>
  BY <1>1, FrameDone
<1>4. right' = TRUE /\ begun' = <<>>
  <2>1. LineAt(FrameEnd) = {}
    <3>1. FrameEnd \in Int /\ FrameEnd < LT(Lines) /\ Lines - 1 \in Int
          /\ FrameEnd = BT(Lines - 1) + 2 /\ BT(Lines - 1) = LT(Lines - 1) + HblankIn
          /\ LT(Lines - 1) \in Int
      <4>1. PICK l \in Int : l = Lines - 1
        BY Durations
      <4>2. BT(l) = LT(l) + HblankIn /\ LT(l) \in Int
        BY TimeOf
      <4> QED  BY <4>1, <4>2, TimeOf
    <3>2. ASSUME NEW k \in 0..(Lines - 1), FrameEnd = LT(k) PROVE FALSE
      <4>1. LT(k) <= LT(Lines - 1)
        <5>1. k \in Int /\ k <= Lines - 1
          BY Durations
        <5> QED  BY <3>1, <5>1, TimeOf
      <4> QED  BY <3>1, <3>2, <4>1, Durations
    <3> QED  BY <3>2 DEF LineAt, LT
  <2>2. right' = TRUE /\ begun' = SubSeq(begun, Len(Now.drawn) + 1, Len(begun))
    BY <1>1, <1>2, <2>1, RenderedRight
  <2> QED  BY <1>3, <2>2
<1>5. PICK v \in Int : v = FrameTweak(Now.vram)
  BY <1>2, TypesInt
<1>6. live' \in Int /\ (exact' => live' = v)
  BY <1>1, <1>2, <1>3, <1>5, TypesInt
<1>7. PICK q : q = NewFrame(v)
  OBVIOUS
<1>8. /\ q.vram = v /\ q.phase = 0 /\ q.scan = FirstLine /\ q.hblank = FirstLine + HblankIn
      /\ q.count = 0 /\ q.next = LoadTime /\ q.drawn = <<>>
  BY <1>7 DEF NewFrame
<1>9. Lazy' = q
  BY <1>1, <1>5, <1>7 DEF Become, Lazy, NewFrame
<1>10. LT(0) = FirstLine /\ BT(0) = FirstLine + HblankIn
  BY TimesAt
<1>11. q \in LazyT
  BY <1>7, Durations DEF NewFrame, LazyT
<1>12. Shape(q)
  BY <1>8, <1>10, <1>11, Durations DEF Shape, Early
<1>13. Passed(q) = 0
  <2>1. ~ Drawn(q)
    BY <1>8 DEF Drawn
  <2> QED  BY <1>8, <1>12, <2>1, ShapeIs
<1>14. InTime(q, 0)
  BY <1>8, <1>13 DEF InTime
<1>15. 0 \in 0..FrameEnd /\ LinesBefore(0) = 0 /\ BlanksBefore(0) = 0
  <2>1. 0 <= LoadTime + 1 /\ 0 \in Int
    BY Durations
  <2> QED  BY <2>1, TimeOf, Apart
<1>16. Owed(q, 0) = 0
  BY <1>8, <1>15 DEF Owed
<1>17. From(q, 0, temp, bg) = v
  BY <1>8, Durations DEF From
<1>18. exact' => LiveIs(q, live', 0, temp, bg)
  <2>1. BlanksBefore(0) - Passed(q) = 0
    BY <1>13, <1>15
  <2> QED  BY <1>6, <1>17, <2>1 DEF LiveIs, Moved
<1>19. LinesOf(q, <<>>, 0, temp, bg)
  BY DEF LinesOf
<1>20. bg \in BOOLEAN
  BY <1>2 DEF Registers
<1>21. Good(q, <<>>, live', exact', 0, temp, bg)
  <2>1. <<>> \in Seq(Int) /\ Len(<<>>) = Owed(q, 0)
    BY <1>16
  <2> QED  BY <1>2, <1>6, <1>12, <1>14, <1>15, <1>18, <1>19, <1>20, <2>1 DEF Good
<1>22. Good(Lazy, begun, live, exact, time, temp, bg)'
  BY <1>1, <1>4, <1>9, <1>21
<1> QED  BY <1>1, <1>2, <1>4, <1>22 DEF IInv, Registers

-----------------------------------------------------------------------------
(* The theorems                                                            *)

\* The lazy state is, at every moment of every run, behind by exactly what is
\* due: caught up, it gives the address of the PPU that counts on time, and
\* the lines that began from the addresses they began with.
THEOREM ScrollInvariant == Spec => []IInv
<1>1. ASSUME IInv, [Next]_vars PROVE IInv'
  <2>1. CASE Tick
    BY <1>1, <2>1, TickGood
  <2>2. CASE WriteControl
    BY <1>1, <2>2, WriteControlGood
  <2>3. CASE WriteMask
    BY <1>1, <2>3, WriteMaskGood
  <2>4. CASE ReadStatus
    BY <1>1, <2>4, ReadStatusGood
  <2>5. CASE WriteScroll
    BY <1>1, <2>5, WriteScrollGood
  <2>6. CASE WriteAddress
    BY <1>1, <2>6, WriteAddressGood
  <2>7. CASE ReadData
    BY <1>1, <2>7, ReadDataGood
  <2>8. CASE WriteData
    BY <1>1, <2>8, WriteDataGood
  <2>9. CASE NextFrame
    BY <1>1, <2>9, NextFrameGood
  <2>11. CASE OtherAccess
    BY <1>1, <2>11, OtherAccessGood
  <2>10. CASE UNCHANGED vars
    <3>1. UNCHANGED <<time, second, inc, bg, live, begun, exact, right, temp>>
          /\ UNCHANGED lazy
      BY <2>10 DEF vars, lazy
    <3>2. Lazy' = Lazy
      BY <3>1 DEF Lazy, lazy
    <3>3. Good(Lazy, begun, live, exact, time, temp, bg)'
      BY <1>1, <3>1, <3>2 DEF IInv
    <3> QED  BY <1>1, <3>1, <3>3 DEF IInv, Registers
  <2> QED  BY <1>1, <2>1, <2>2, <2>3, <2>4, <2>5, <2>6, <2>7, <2>8, <2>9, <2>10,
         <2>11 DEF Next
<1> QED  BY <1>1, InitGood, PTL DEF Spec

\* A line rendered late, in a batch, is rendered from the address it began with;
\* not said of a first line after an access between the dot and it, nor after an
\* access that uses or changes the address without catching up.
THEOREM RenderedFromWhereTheyBegan == Spec => []LinesRight
<1>1. IInv => LinesRight
  BY DEF IInv, LinesRight
<1> QED  BY <1>1, ScrollInvariant, PTL

\* The vertical position is the one of a PPU that counts its lines on time, until
\* an access uses or changes the address without catching up.
THEOREM VerticalOnTime == Spec => []VerticalRight
<1>1. ASSUME IInv PROVE VerticalRight
  <2>1. exact => live = Now.vram \/ SameRow(live, Now.vram)
    BY <1>1, NowIs DEF CaughtUp
  <2> QED  BY <2>1 DEF VerticalRight, SameRow
<1> QED  BY <1>1, ScrollInvariant, PTL

\* Every line of the picture is rendered once, however late.
THEOREM EveryLineRendered == Spec => []EveryLine
<1>1. ASSUME IInv PROVE EveryLine
  BY <1>1, FrameDone DEF EveryLine
<1> QED  BY <1>1, ScrollInvariant, PTL

-----------------------------------------------------------------------------
(* Bit 12                                                                  *)

\* Numbers that differ in the low byte alone have the same bit 12.
LEMMA LowByte ==
    \E m \in Nat : m > 0 /\ \A x \in Int : x \div Row = (x \div Low) \div m
<1>1. Low \in Nat /\ Low > 0 /\ Nt \in Nat /\ Nt > 0 /\ Row = 4 * Nt /\ Nt % Low = 0
  BY SizeAssumption, Sizes
<1>2. PICK n \in Int : n = Nt \div Low /\ Nt = n * Low
  <2>1. Nt \div Low \in Int /\ Nt = (Nt \div Low) * Low + (Nt % Low)
    BY <1>1, Division
  <2>2. (Nt \div Low) * Low \in Int
    BY <1>1, <2>1
  <2>3. Nt = (Nt \div Low) * Low
    BY <1>1, <2>1, <2>2
  <2> QED  BY <2>1, <2>3
<1>3. n > 0
  <2>1. n <= 0 => n * Low <= 0
    BY <1>1
  <2> QED  BY <1>1, <1>2, <2>1
<1>4. PICK m \in Nat : m = 4 * n /\ m > 0
  BY <1>3
<1>5. Row = m * Low
  <2>1. m * Low = 4 * (n * Low)
    BY <1>1, <1>4
  <2> QED  BY <1>1, <1>2, <2>1
<1>6. ASSUME NEW x \in Int PROVE x \div Row = (x \div Low) \div m
  <2>1. PICK q \in Int, r \in 0..(Low - 1) : q = x \div Low /\ x = q * Low + r
    BY <1>1, Division
  <2>2. PICK k \in Int, o \in 0..(m - 1) : k = q \div m /\ q = k * m + o
    BY <1>4, <2>1, Division, ZenonT(60)
  <2>3. PICK z \in 0..(Row - 1) : z = o * Low + r
    <3>1. o \in Int /\ o >= 0 /\ o <= m - 1 /\ r \in Int /\ r >= 0 /\ r <= Low - 1 /\ m \in Int
          /\ Low \in Int /\ Low > 0
      BY <1>1, <1>4, <2>1, <2>2
    <3>2. o * Low \in Int /\ o * Low >= 0 /\ o * Low <= (m - 1) * Low
      BY <3>1
    <3>3. (m - 1) * Low = m * Low - Low /\ m * Low \in Int
      BY <3>1
    <3> QED  BY <1>5, <3>1, <3>2, <3>3
  <2>4. x = k * Row + z
    <3>1. k \in Int /\ m \in Int /\ Low \in Int /\ o \in Int /\ r \in Int
      BY <1>1, <1>4, <2>1, <2>2
    <3>2. (k * m + o) * Low = k * (m * Low) + o * Low
      BY <3>1
    <3>3. k * (m * Low) \in Int /\ o * Low \in Int
      BY <3>1
    <3>4. x = (k * m + o) * Low + r
      BY <2>1, <2>2, Zenon
    <3>5. x = k * (m * Low) + o * Low + r
      BY <3>2, <3>4, Zenon
    <3>6. PICK u \in Int, v \in Int : u = k * (m * Low) /\ v = o * Low
      BY <3>3
    <3>7. x = u + v + r
      BY <3>5, <3>6, Zenon
    <3>8. z = v + r
      BY <2>3, <3>6, Zenon
    <3>9. x = u + z
      BY <3>1, <3>6, <3>7, <3>8
    <3> QED  BY <1>5, <3>6, <3>9, Zenon
  <2>5. x \div Row = k
    <3>1. Row \in Nat /\ Row > 0
      BY Sizes
    <3>2. k \in Int /\ z \in 0..(Row - 1)
      BY <2>2, <2>3
    <3> QED  BY <2>4, <3>1, <3>2, Divided, Zenon
  <2> QED  BY <2>1, <2>2, <2>5
<1> QED  BY <1>4, <1>6

\* Changing the low byte keeps the bits above.
LEMMA SameHigh ==
    ASSUME NEW x \in Int, NEW a \in Int
    PROVE  (x - (x % Low) + (a % Low)) \div Row = x \div Row
<1>1. Low \in Nat /\ Low > 0
  BY DataInt
<1>2. PICK q \in Int, r \in Int : q = x \div Low /\ r = x % Low /\ x = q * Low + r
  BY <1>1, Division
<1>3. PICK o \in 0..(Low - 1) : o = a % Low
  BY <1>1, Division
<1>4. PICK y \in Int : y = x - (x % Low) + (a % Low)
  BY <1>2, <1>3
<1>5. y = q * Low + o
  <2>1. q * Low \in Int /\ o \in Int
    BY <1>1, <1>2, <1>3
  <2>2. PICK u \in Int : u = q * Low
    BY <2>1
  <2>3. x = u + r /\ y = x - r + o
    BY <1>2, <1>3, <1>4, <2>2, Zenon
  <2>5. o \in Int /\ r \in Int /\ u \in Int
    BY <1>2, <1>3, <2>2
  <2>4. y = u + o
    BY <2>3, <2>5
  <2> QED  BY <2>2, <2>4, Zenon
<1>6. y \div Low = q
  <2>1. q \in Int
    BY <1>2
  <2> QED  BY <1>1, <1>3, <1>5, <2>1, Divided, Zenon
<1>7. PICK m \in Nat : \A k \in Int : k \div Row = (k \div Low) \div m
  BY LowByte
<1>8. x \div Row = q \div m /\ y \div Row = q \div m
  BY <1>2, <1>6, <1>7, <1>4
<1> QED  BY <1>4, <1>8

\* The parity of a sum with an even number.
LEMMA Parity ==
    ASSUME NEW a \in Int, NEW b \in Int
    PROVE  (2 * a + b) % 2 = b % 2
<1>1. PICK q \in Int, r \in 0..1 : b = 2 * q + r /\ r = b % 2
  <2>1. 2 \in Nat /\ 2 > 0 /\ 2 - 1 = 1
    OBVIOUS
  <2> QED  BY <2>1, Division
<1>2. PICK h \in Int : h = a + q
  OBVIOUS
<1>3. 2 * a + b = h * 2 + r
  BY <1>1, <1>2
<1>4. (h * 2 + r) % 2 = r
  <2>1. 2 \in Nat /\ 2 > 0 /\ r \in 0..(2 - 1) /\ h \in Int
    OBVIOUS
  <2> QED  BY <2>1, Divided
<1> QED  BY <1>1, <1>3, <1>4

\* The word an address is counted in does not reach bit 12.
LEMMA WordKeeps ==
    ASSUME NEW x \in Int
    PROVE  ((x % Word) \div Row) % 2 = (x \div Row) % 2
<1>1. Word \in Nat /\ Word > 0 /\ Row \in Nat /\ Row > 0 /\ Fine \in Nat /\ Word = 2 * (Fine * Row)
  BY Sizes, DataInt DEF Word
<1>2. PICK k \in Int, z \in Int : z = x % Word /\ x = k * Word + z
  BY <1>1, Division
<1>3. PICK p \in Int, r \in 0..(Row - 1) : p = z \div Row /\ z = p * Row + r
  BY <1>1, <1>2, Division
<1>4. PICK h \in Int : h = k * Fine
  BY <1>1, <1>2
<1>5. PICK g \in Int : g = 2 * h + p
  BY <1>3, <1>4
<1>6. x = g * Row + r
  <2>1. k \in Int /\ Fine \in Int /\ Row \in Int /\ p \in Int /\ r \in Int /\ h \in Int /\ g \in Int
    BY <1>1, <1>2, <1>3, <1>4, <1>5
  <2>2. k * (2 * (Fine * Row)) = 2 * ((k * Fine) * Row)
    BY <2>1
  <2>3. (2 * h + p) * Row = 2 * (h * Row) + p * Row
    BY <2>1
  <2>4. PICK u \in Int, v \in Int : u = h * Row /\ v = p * Row
    BY <2>1
  <2>5. x = 2 * u + (v + r)
    BY <1>1, <1>2, <1>3, <1>4, <2>2, <2>4, Zenon
  <2>6. g * Row = 2 * u + v
    BY <1>5, <2>3, <2>4, Zenon
  <2>7. PICK f \in Int : f = g * Row
    BY <2>1
  <2>8. f = 2 * u + v
    BY <2>6, <2>7, Zenon
  <2>9. x = f + r
    BY <2>1, <2>4, <2>5, <2>7, <2>8
  <2> QED  BY <2>7, <2>9, Zenon
<1>7. x \div Row = g
  <2>1. g \in Int /\ Row \in Nat /\ Row > 0
    BY <1>1, <1>5
  <2> QED  BY <1>3, <1>6, <2>1, Divided, Zenon
<1>8. g % 2 = p % 2
  BY <1>3, <1>4, <1>5, Parity
<1> QED  BY <1>2, <1>3, <1>7, <1>8

\* Two addresses of the same fine y have the same bit 12.
LEMMA SameBit ==
    ASSUME NEW a \in Int, NEW b \in Int, FineY(a) = FineY(b)
    PROVE  (a \div Row) % 2 = (b \div Row) % 2
<1>1. Fine \in Nat /\ Fine > 0 /\ Fine % 2 = 0 /\ Row \in Nat /\ Row > 0
  BY Sizes, SizeAssumption
<1>2. PICK f \in Int : Fine = 2 * f
  <2>1. 2 \in Nat /\ 2 > 0
    OBVIOUS
  <2>2. Fine \div 2 \in Int /\ Fine = (Fine \div 2) * 2 + (Fine % 2)
    BY <1>1, <2>1, Division
  <2> QED  BY <1>1, <2>2
<1>3. ASSUME NEW x \in Int PROVE (x \div Row) % 2 = FineY(x) % 2
  <2>1. PICK q \in Int : q = x \div Row
    BY <1>1, Division
  <2>2. PICK k \in Int, r \in Int : r = q % Fine /\ q = k * Fine + r
    BY <1>1, <2>1, Division
  <2>3. PICK h \in Int : h = k * f
    BY <1>2, <2>2
  <2>4. k * (2 * f) = 2 * (k * f)
    BY <1>2, <2>2
  <2>5. q = 2 * h + r
    BY <1>2, <2>2, <2>3, <2>4, Zenon
  <2>6. q % 2 = r % 2
    BY <2>2, <2>3, <2>5, Parity
  <2> QED  BY <2>1, <2>2, <2>6 DEF FineY
<1> QED  BY <1>3

\* The mapper hears of every rise of bit 12 that an access makes in the address of
\* the PPU on time, with the same exception.
THEOREM RisesHeard == Spec => RisesClocked
<1>1. ASSUME IInv, [Next]_vars PROVE
          [time' = time /\ exact' /\ ~ A12(live) /\ A12(live') => clocked']_vars
  <2> SUFFICES ASSUME time' = time, exact', ~ A12(live), A12(live') PROVE clocked'
    OBVIOUS
  <2>1. /\ temp \in Int /\ live \in Int /\ Registers /\ Now.vram \in Int
        /\ CaughtUp(Lazy, Now, begun, live, exact, time, bg) /\ vram \in Int
        /\ time \in Int
    BY <1>1, NowIs, TimeOf
  <2>2. live' # live
    OBVIOUS
  <2>3. \A x \in Int : (x \div Row) % 2 = 0 \/ (x \div Row) % 2 = 1
    <3>1. ASSUME NEW x \in Int PROVE (x \div Row) % 2 \in 0..1
      <4>1. Row \in Nat /\ Row > 0 /\ 2 \in Nat /\ 2 > 0
        BY Sizes
      <4>2. PICK q \in Int : q = x \div Row
        BY <4>1, Division
      <4>3. q % 2 \in 0..(2 - 1)
        BY <4>1, Division
      <4> QED  BY <4>2, <4>3
    <3> QED  BY <3>1
  <2>4. (live \div Row) % 2 = 0 /\ (live' \div Row) % 2 = 1
    BY <2>1, <2>3 DEF A12
  <2>5. CASE Tick \/ WriteMask
    <3>1. time' = time + 1
      BY <2>5 DEF Tick, WriteMask, Pass
    <3> QED  BY <2>1, <3>1
  <2>6. CASE NextFrame
    <3>1. FrameEnd # 0
      <4>1. PICK l \in Int : l = Lines - 1 /\ l >= 0
        BY Durations
      <4>2. BT(l) = LT(l) + HblankIn /\ LT(l) \in Int /\ LT(0) <= LT(l) /\ LT(0) = FirstLine
        BY <4>1, TimesAt
      <4>3. FrameEnd = BT(l) + 2
        BY <4>1, TimeOf
      <4> QED  BY <4>2, <4>3, Durations
    <3> QED  BY <2>6, <3>1 DEF NextFrame
  <2>7. CASE WriteControl \/ ReadStatus \/ WriteScroll \/ OtherAccess \/ UNCHANGED vars
    BY <2>2, <2>7 DEF WriteControl, ReadStatus, WriteScroll, OtherAccess, vars
  <2>8. CASE WriteAddress
    <3>1. PICK a \in AddrData :
              /\ second => /\ temp' = temp - (temp % Low) + (a % Low)
                           /\ live' = temp' /\ clocked' = Rises(Now.vram, temp)
              /\ ~ second => UNCHANGED live
              /\ exact' = exact
      BY <2>8 DEF WriteAddress
    <3>2. second /\ exact
      BY <2>2, <3>1
    <3>3. a \in Int
      BY DataInt
    <3>4. (temp \div Row) % 2 = 1
      BY <2>1, <2>4, <3>1, <3>2, <3>3, SameHigh
    <3>5. FineY(live) = FineY(Now.vram)
      BY <2>1, <3>2 DEF CaughtUp, SameRow
    <3>6. (Now.vram \div Row) % 2 = 0
      BY <2>1, <2>4, <3>5, SameBit
    <3> QED  BY <3>1, <3>2, <3>4, <3>6 DEF Rises
  <2>9. CASE ReadData
    <3>1. /\ live' = (live + inc) % Word /\ live = Now.vram
          /\ clocked' = Rises(Now.vram, Now.vram + inc)
      BY <2>9 DEF ReadData
    <3>2. PICK y \in Int : y = live + inc
      BY <2>1 DEF Registers
    <3>3. (y \div Row) % 2 = 1
      BY <2>4, <3>1, <3>2, WordKeeps
    <3> QED  BY <2>4, <3>1, <3>2, <3>3 DEF Rises
  <2>10. CASE WriteData
    <3>1. /\ live' = (live + inc) % Word /\ live = vram
          /\ clocked' = Toggles(vram, vram + inc)
      BY <2>10 DEF WriteData
    <3>2. PICK y \in Int : y = live + inc
      BY <2>1 DEF Registers
    <3>3. (y \div Row) % 2 = 1
      BY <2>4, <3>1, <3>2, WordKeeps
    <3>4. vram + inc = y /\ (vram \div Row) % 2 = 0
      BY <2>4, <3>1, <3>2
    <3>5. Toggles(vram, vram + inc)
      BY <3>3, <3>4 DEF Toggles
    <3> QED  BY <3>1, <3>5
  <2>11. \/ Tick \/ WriteControl \/ WriteMask \/ ReadStatus \/ WriteScroll \/ OtherAccess
         \/ WriteAddress \/ ReadData \/ WriteData \/ NextFrame \/ UNCHANGED vars
    BY <1>1 DEF Next
  <2> QED  BY <2>5, <2>6, <2>7, <2>8, <2>9, <2>10, <2>11
<1> QED  BY <1>1, ScrollInvariant, PTL DEF Spec, RisesClocked

-----------------------------------------------------------------------------
(* The memory                                                              *)

\* What a bank register holds is wrapped into the CHR of the cartridge.
LEMMA WrapLemma == \A a \in Nat, n \in Nat : n > 0 => a % n \in 0..(n - 1)
OBVIOUS

\* The mapper maps pages that exist (Nes_Ppu_Impl::set_chr_bank) and screens
\* that exist, whatever its registers hold.
LEMMA MappedLemma ==
    ASSUME NEW c \in Carts, NEW r \in Regs
    PROVE  /\ MappedPages(c, r) \in [Page -> 0..(ChrSize(c) - 1)]
           /\ MappedScreens(c, r) \in [Screen -> Screen]
<1>1. c \in Cart /\ Pages \in Nat /\ Pages >= 2 /\ (c.chr = 0 \/ c.chr >= Pages)
  BY PageAssumption
<1>2. ChrSize(c) \in Nat /\ ChrSize(c) >= Pages
  BY <1>1 DEF ChrSize, Cart
<1>3. MappedPages(c, r) \in [Page -> 0..(ChrSize(c) - 1)]
  <2>1. Direct \in [Page -> 0..(ChrSize(c) - 1)]
    BY <1>1, <1>2 DEF Direct, Page
  <2>2. \A p \in Page : r.chr[p] \in Nat
    BY DEF Regs
  <2>3. \A p \in Page : r.chr[p] % ChrSize(c) \in 0..(ChrSize(c) - 1)
    BY <1>1, <1>2, <2>2, WrapLemma
  <2> QED
    BY <2>1, <2>3 DEF MappedPages
<1>4. MappedScreens(c, r) \in [Screen -> Screen]
  <2>1. Soldered(c) \in [Screen -> Screen]
    BY <1>1 DEF Soldered, Cart, Full, Vert, Horiz, Manually, Screen
  <2> QED
    BY <2>1 DEF MappedScreens, Regs
<1> QED
  BY <1>3, <1>4

\* A reset leaves the mapper registers it may hold (reset_state).
LEMMA ResetLemma == ASSUME NEW c \in Carts PROVE ResetRegs(c) \in Regs
<1>1. \A p \in Page : p \in Nat
  BY PageAssumption DEF Page
<1>2. Direct \in [Page -> Nat] /\ [p \in Page |-> 0] \in [Page -> Nat]
  BY <1>1 DEF Direct
<1>3. /\ Horiz \in [Screen -> Screen] /\ Vert \in [Screen -> Screen]
      /\ Single(0) \in [Screen -> Screen]
  BY DEF Horiz, Vert, Single, Manually, Screen
<1> QED
  BY <1>2, <1>3 DEF ResetRegs, Regs

\* What a mirroring register may be given is an arrangement of the screens.
LEMMA MirroringsLemma ==
    ASSUME NEW c \in Carts
    PROVE  Mirrorings(c) \subseteq [Screen -> Screen]
<1>1. c \in Cart /\ Manual \subseteq [Screen -> Screen]
  BY PageAssumption
<1>2. /\ Horiz \in [Screen -> Screen] /\ Vert \in [Screen -> Screen]
      /\ Single(0) \in [Screen -> Screen] /\ Single(1) \in [Screen -> Screen]
  BY DEF Horiz, Vert, Single, Manually, Screen
<1> QED
  BY <1>1, <1>2 DEF Mirrorings, Cart
-----------------------------------------------------------------------------

\* The mapping a registers' change leaves is in order.
LEMMA ApplyLemma ==
    ASSUME NEW c \in Carts, NEW r \in Regs, ApplyMapping(c, r)
    PROVE  /\ regs' \in Regs
           /\ chr_pages' \in [Page -> 0..(ChrSize(c) - 1)]
           /\ nt_banks' \in [Screen -> Screen]
BY MappedLemma DEF ApplyMapping

\* The pages that are decoded are those of the cartridge, and a cartridge with
\* RAM has one for each page of the pattern tables.
LEMMA PagesLemma == chr_is_writable => ChrPages = Page
BY DEF chr_is_writable, ChrPages, ChrSize, Page

\* Type correctness: banks and screens are within the memory there is, the
\* cache within the tiles there are, whatever is written, loaded or opened.
THEOREM TypeCorrect == MemorySpec => []TypeOK
<1>1. MemoryInit => TypeOK
  <2> SUFFICES ASSUME MemoryInit PROVE TypeOK
    OBVIOUS
  <2>1. cart \in Carts /\ regs \in Regs
    BY ResetLemma DEF MemoryInit
  <2>2. /\ chr_pages \in [Page -> ChrPages]
        /\ nt_banks \in [Screen -> Screen]
    BY <2>1, MappedLemma DEF MemoryInit, ChrPages
  <2>3. state.saved => state.mapper \in Regs /\ DOMAIN state.chr = Page
    BY DEF MemoryInit, NoState
  <2>4. writes \in 0..MaxWrites
    BY PageAssumption DEF MemoryInit
  <2> QED
    BY <2>1, <2>2, <2>3, <2>4 DEF MemoryInit, TypeOK
<1>2. TypeOK /\ [MemoryNext]_memory_vars => TypeOK'
  <2> SUFFICES ASSUME TypeOK, [MemoryNext]_memory_vars PROVE TypeOK'
    OBVIOUS
  <2>1. ASSUME NEW p \in Page, NEW bank \in Banks, SetChrBank(p, bank) PROVE TypeOK'
    <3>1. [regs EXCEPT !.chr[p] = bank] \in Regs
      BY PageAssumption DEF TypeOK, Regs
    <3>2. ApplyMapping(cart, [regs EXCEPT !.chr[p] = bank])
      BY <2>1 DEF SetChrBank
    <3>3. /\ regs' \in Regs
          /\ chr_pages' \in [Page -> 0..(ChrSize(cart) - 1)]
          /\ nt_banks' \in [Screen -> Screen]
      BY <3>1, <3>2, ApplyLemma DEF TypeOK
    <3> QED
      BY <2>1, <3>3 DEF SetChrBank, TypeOK, memory, cache, ChrPages
  <2>2. ASSUME NEW screens \in Mirrorings(cart), SetMirroring(screens) PROVE TypeOK'
    <3>1. screens \in [Screen -> Screen]
      BY <2>2, MirroringsLemma DEF TypeOK
    <3>2. [regs EXCEPT !.nt = screens] \in Regs
      BY <3>1 DEF TypeOK, Regs
    <3>3. ApplyMapping(cart, [regs EXCEPT !.nt = screens])
      BY <2>2 DEF SetMirroring
    <3>4. /\ regs' \in Regs
          /\ chr_pages' \in [Page -> 0..(ChrSize(cart) - 1)]
          /\ nt_banks' \in [Screen -> Screen]
      BY <3>2, <3>3, ApplyLemma DEF TypeOK
    <3> QED
      BY <2>2, <3>4 DEF SetMirroring, TypeOK, memory, cache, ChrPages
  <2>3. CASE DrawScanlines
    <3>1. /\ DOMAIN tile_cache' = ChrPages
          /\ any_tiles_modified' \in BOOLEAN
          /\ modified_tiles' \subseteq Page
      BY <2>3 DEF DrawScanlines, UpdateTiles, TypeOK, cache
    <3> QED
      BY <2>3, <3>1 DEF DrawScanlines, TypeOK, mapping, memory, ChrPages
  <2>4. ASSUME NEW data \in Values, WriteMemory(data) PROVE TypeOK'
    <3>1. /\ DOMAIN chr_ram' = Page
          /\ DOMAIN tile_cache' = ChrPages
          /\ any_tiles_modified' \in BOOLEAN
          /\ modified_tiles' \subseteq Page
      BY <2>4 DEF WriteMemory, WritePattern, Mark, WriteScreen, WritePalette, TypeOK, cache
    <3>2. writes' \in 0..MaxWrites
      BY <2>4, PageAssumption DEF WriteMemory, TypeOK
    <3> QED
      BY <2>4, <3>1, <3>2 DEF WriteMemory, TypeOK, mapping, ChrPages
  <2>5. CASE ReadMemory
    BY <2>5 DEF ReadMemory, TypeOK, mapping, cache, ChrPages
  <2>6. CASE SaveState
    <3>1. state'.mapper \in Regs
      BY <2>6 DEF SaveState, Save, TypeOK
    <3>2. DOMAIN state'.chr = Page
      BY <2>6 DEF SaveState, Save, TypeOK
    <3> QED
      BY <2>6, <3>1, <3>2 DEF SaveState, TypeOK, mapping, memory, cache, ChrPages
  <2>7. CASE LoadState
    <3>1. PICK r \in ReadAs(cart) : ApplyMapping(cart, r)
      BY <2>7 DEF LoadState
    <3>4. r \in Regs
      <4>1. state.mapper \in Regs /\ ResetRegs(cart) \in Regs
        BY <2>7, ResetLemma DEF LoadState, TypeOK
      <4>2. Mirrorings(cart) \subseteq [Screen -> Screen]
        BY MirroringsLemma DEF TypeOK
      <4>3. Banks \subseteq Nat
        BY PageAssumption
      <4> QED  BY <3>1, <4>1, <4>2, <4>3 DEF ReadAs, LoadedRegs, Regs
    <3>2. /\ regs' \in Regs
          /\ chr_pages' \in [Page -> 0..(ChrSize(cart) - 1)]
          /\ nt_banks' \in [Screen -> Screen]
      BY <3>1, <3>4, ApplyLemma DEF TypeOK
    <3>3. /\ DOMAIN chr_ram' = Page
          /\ any_tiles_modified' \in BOOLEAN
          /\ modified_tiles' \subseteq Page
      BY <2>7 DEF LoadState, LoadTiles, AllTilesModified, TypeOK
    <3> QED
      BY <2>7, <3>2, <3>3 DEF LoadState, TypeOK, ChrPages
  <2>8. ASSUME NEW full \in BOOLEAN, Reset(full) PROVE TypeOK'
    <3>1. /\ regs' \in Regs
          /\ chr_pages' \in [Page -> 0..(ChrSize(cart) - 1)]
          /\ nt_banks' \in [Screen -> Screen]
      BY <2>8, ResetLemma, ApplyLemma DEF Reset, TypeOK
    <3> QED
      BY <2>8, <3>1 DEF Reset, Clear, AllTilesModified, TypeOK, ChrPages
  <2>9. ASSUME NEW c \in Carts, Open(c) PROVE TypeOK'
    <3>1. /\ regs' \in Regs
          /\ chr_pages' \in [Page -> 0..(ChrSize(c) - 1)]
          /\ nt_banks' \in [Screen -> Screen]
      BY <2>9, ResetLemma, ApplyLemma DEF Open
    <3> QED
      BY <2>9, <3>1 DEF Open, Clear, AllTilesModified, TypeOK, ChrPages
  <2>10. CASE UNCHANGED memory_vars
    BY <2>10 DEF TypeOK, memory_vars, mapping, memory, cache, ChrPages
  <2> QED
    BY <2>1, <2>2, <2>3, <2>4, <2>5, <2>6, <2>7, <2>8, <2>9, <2>10 DEF MemoryNext
<1> QED
  BY <1>1, <1>2, PTL DEF MemorySpec
-----------------------------------------------------------------------------

\* The tile cache is current: whatever program, mapper and script do, a page
\* whose tiles differ from the decoded ones is marked to be decoded again, and
\* the flag that lets update_tiles run is up.
THEOREM CacheIsCurrent == MemorySpec => []CacheCurrent
<1>1. MemoryInit => CacheCurrent
  BY PagesLemma DEF MemoryInit, CacheCurrent, ChrData, chr_is_writable
<1>2. TypeOK /\ CacheCurrent /\ [MemoryNext]_memory_vars => CacheCurrent'
  <2> SUFFICES ASSUME TypeOK, CacheCurrent, [MemoryNext]_memory_vars,
                      NEW p \in ChrPages'
               PROVE  \/ tile_cache'[p] = ChrData(p)'
                      \/ /\ chr_is_writable' /\ any_tiles_modified'
                         /\ p \in modified_tiles'
    BY DEF CacheCurrent
  <2>0. CASE cart' = cart /\ chr_ram' = chr_ram /\ UNCHANGED cache
    <3>1. p \in ChrPages
      BY <2>0 DEF ChrPages
    <3> QED
      BY <2>0, <3>1 DEF CacheCurrent, ChrData, chr_is_writable, cache
  <2>1. ASSUME NEW q \in Page, NEW bank \in Banks, SetChrBank(q, bank)
        PROVE  cart' = cart /\ chr_ram' = chr_ram /\ UNCHANGED cache
    BY <2>1 DEF SetChrBank, memory
  <2>2. ASSUME NEW screens \in Mirrorings(cart), SetMirroring(screens)
        PROVE  cart' = cart /\ chr_ram' = chr_ram /\ UNCHANGED cache
    BY <2>2 DEF SetMirroring, memory
  <2>3. ASSUME DrawScanlines, any_tiles_modified /\ chr_is_writable
        PROVE  tile_cache'[p] = ChrData(p)'
    <3>1. cart' = cart /\ chr_ram' = chr_ram /\ p \in ChrPages
      BY <2>3 DEF DrawScanlines, memory, ChrPages
    <3>2. tile_cache'[p] = IF p \in modified_tiles THEN ChrData(p) ELSE tile_cache[p]
      BY <2>3, <3>1 DEF DrawScanlines, UpdateTiles
    <3> QED
      BY <3>1, <3>2 DEF CacheCurrent, ChrData, chr_is_writable
  <2>4. ASSUME DrawScanlines, ~(any_tiles_modified /\ chr_is_writable)
        PROVE  cart' = cart /\ chr_ram' = chr_ram /\ UNCHANGED cache
    BY <2>4 DEF DrawScanlines, memory
  <2>5. ASSUME NEW data \in Values, NEW q \in Page, WritePattern(q, data), cart' = cart
        PROVE  \/ tile_cache'[p] = ChrData(p)'
               \/ chr_is_writable' /\ any_tiles_modified' /\ p \in modified_tiles'
    <3>1. p \in ChrPages /\ chr_is_writable' = chr_is_writable
      BY <2>5 DEF ChrPages, chr_is_writable
    <3>2. q # p => chr_ram'[p] = chr_ram[p] \/ ~chr_is_writable
      BY <2>5, <3>1, PagesLemma DEF WritePattern, TypeOK
    <3>3. /\ any_tiles_modified' /\ q \in modified_tiles'
          /\ modified_tiles \subseteq modified_tiles' /\ tile_cache' = tile_cache
      BY <2>5 DEF WritePattern, Mark
    <3>4. CASE chr_is_writable
      BY <3>1, <3>2, <3>3, <3>4 DEF CacheCurrent, ChrData
    <3>5. CASE ~chr_is_writable
      BY <3>1, <3>3, <3>5 DEF CacheCurrent, ChrData
    <3> QED
      BY <3>4, <3>5
  <2>6. ASSUME NEW data \in Values, WriteMemory(data)
        PROVE  \/ tile_cache'[p] = ChrData(p)'
               \/ chr_is_writable' /\ any_tiles_modified' /\ p \in modified_tiles'
    <3>1. CASE \E q \in Page : WritePattern(q, data)
      BY <2>5, <2>6, <3>1 DEF WriteMemory
    <3>2. CASE \E i \in Screen : WriteScreen(i, data)
      BY <2>0, <2>6, <3>2 DEF WriteMemory, WriteScreen
    <3>3. CASE WritePalette(data)
      BY <2>0, <2>6, <3>3 DEF WriteMemory, WritePalette
    <3> QED
      BY <2>6, <3>1, <3>2, <3>3 DEF WriteMemory
  <2>7. ASSUME ReadMemory \/ SaveState
        PROVE  cart' = cart /\ chr_ram' = chr_ram /\ UNCHANGED cache
    BY <2>7 DEF ReadMemory, SaveState, memory
  <2>8. ASSUME chr_is_writable', tile_cache' = tile_cache, AllTilesModified
        PROVE  chr_is_writable' /\ any_tiles_modified' /\ p \in modified_tiles'
    BY <2>8, PagesLemma DEF AllTilesModified, ChrPages, ChrSize, chr_is_writable, Page
  <2>9. ASSUME ~chr_is_writable, cart' = cart, tile_cache' = tile_cache
        PROVE  tile_cache'[p] = ChrData(p)'
    BY <2>9 DEF CacheCurrent, ChrData, chr_is_writable, ChrPages
  <2>10. ASSUME LoadState
         PROVE  \/ tile_cache'[p] = ChrData(p)'
                \/ chr_is_writable' /\ any_tiles_modified' /\ p \in modified_tiles'
    <3>1. CASE chr_is_writable /\ state.chr_size > 0
      BY <2>8, <2>10, <3>1 DEF LoadState, LoadTiles, chr_is_writable
    <3>2. CASE ~(chr_is_writable /\ state.chr_size > 0)
      BY <2>0, <2>10, <3>2 DEF LoadState, cache
    <3> QED
      BY <3>1, <3>2
  <2>11. ASSUME NEW full \in BOOLEAN, Reset(full)
         PROVE  \/ tile_cache'[p] = ChrData(p)'
                \/ chr_is_writable' /\ any_tiles_modified' /\ p \in modified_tiles'
    <3>1. cart' = cart /\ tile_cache' = tile_cache /\ AllTilesModified
      BY <2>11 DEF Reset
    <3> QED
      BY <2>8, <2>9, <3>1 DEF chr_is_writable
  <2>12. ASSUME NEW c \in Carts, Open(c)
         PROVE  \/ tile_cache'[p] = ChrData(p)'
                \/ chr_is_writable' /\ any_tiles_modified' /\ p \in modified_tiles'
    <3>1. CASE c.chr = 0
      BY <2>12, <3>1 DEF Open, AllTilesModified, ChrPages, ChrSize, chr_is_writable, Page
    <3>2. CASE c.chr # 0
      BY <2>12, <3>2 DEF Open, ChrData, chr_is_writable, ChrPages
    <3> QED
      BY <3>1, <3>2
  <2>13. ASSUME UNCHANGED memory_vars
         PROVE  cart' = cart /\ chr_ram' = chr_ram /\ UNCHANGED cache
    BY <2>13 DEF memory_vars, memory
  <2> QED
    BY <2>0, <2>1, <2>2, <2>3, <2>4, <2>6, <2>7, <2>10, <2>11, <2>12, <2>13 DEF MemoryNext
<1> QED
  BY <1>1, <1>2, TypeCorrect, PTL DEF MemorySpec

\* Whatever is mapped where, a batch of lines is drawn from tiles decoded from
\* the page mapped there now (draw_scanlines, update_tiles).
THEOREM DrawsRight == MemorySpec => DrawnRight
<1>1. TypeOK /\ CacheCurrent
      => [DrawScanlines => \A p \in Page : tile_cache'[chr_pages[p]] = ChrData(chr_pages[p])]_memory_vars
  <2> SUFFICES ASSUME TypeOK, CacheCurrent, DrawScanlines, NEW p \in Page
               PROVE  tile_cache'[chr_pages[p]] = ChrData(chr_pages[p])
    OBVIOUS
  <2> DEFINE at == chr_pages[p]
  <2>1. at \in ChrPages
    BY DEF TypeOK
  <2>2. CASE any_tiles_modified /\ chr_is_writable
    <3>1. tile_cache'[at] = IF at \in modified_tiles THEN ChrData(at) ELSE tile_cache[at]
      BY <2>1, <2>2 DEF DrawScanlines, UpdateTiles
    <3> QED
      BY <2>1, <3>1 DEF CacheCurrent
  <2>3. CASE ~(any_tiles_modified /\ chr_is_writable)
    BY <2>1, <2>3 DEF DrawScanlines, cache, CacheCurrent
  <2> QED
    BY <2>2, <2>3
<1> QED
  BY <1>1, TypeCorrect, CacheIsCurrent, PTL DEF DrawnRight
=============================================================================
