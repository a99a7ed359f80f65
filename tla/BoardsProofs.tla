----------------------------- MODULE BoardsProofs -----------------------------
(***************************************************************************)
(* The memory map of the eighteen boards follows their registers, for      *)
(* every size of the cartridge's memories, every byte written and any      *)
(* number of writes, resets, saves and loads.                              *)
(*                                                                         *)
(* A map can be reached by many sequences of bank switches, and most       *)
(* writes touch only a part of it.  So the invariant does not compare it   *)
(* with what apply_mapping makes, but with a description of each part in   *)
(* terms of the registers alone (PrgOf, ChrOf, ExOf, NtOf, LowOf), which   *)
(* says nothing of how it came to be.  Follows relates a map to registers  *)
(* by them.  Each write keeps it, apply_mapping makes it of the map at     *)
(* power up and of one that follows the registers already (ApplyGood),     *)
(* and two maps that follow the same registers look the same (GoodSame).   *)
(* The boards with a part of the map for each register have it register by *)
(* register (Right), so that writing them all in order, an induction over  *)
(* their number, gives all of it (InOrderGood).                            *)
(***************************************************************************)
EXTENDS MCBoards, WellFoundedInduction, TLAPS

-----------------------------------------------------------------------------
(* Induction on the naturals, for the set of those with a property         *)

\* A set of naturals has a least element.
LEMMA Least ==
    ASSUME NEW T, T \subseteq Nat, T # {}
    PROVE  \E x \in T : \A y \in T : x <= y
<1>1. \E R : IsWellFoundedOn(R, Nat) /\ \A x, y \in Nat : <<x, y>> \in R <=> x < y
  <2>1. IsWellFoundedOn(OpToRel(<, Nat), Nat)
    BY NatLessThanWellFounded
  <2>2. \A x, y \in Nat : <<x, y>> \in OpToRel(<, Nat) <=> x < y
    BY DEF OpToRel
  <2> QED  BY <2>1, <2>2, Zenon
<1>2. PICK R : IsWellFoundedOn(R, Nat) /\ \A x, y \in Nat : <<x, y>> \in R <=> x < y
  BY <1>1
<1>3. PICK x \in T : \A y \in T : ~ (<<y, x>> \in R)
  <2>1. IsWellFoundedOn(R, Nat)
    BY <1>2
  <2> QED  BY <2>1, WFMin, Zenon
<1>4. \A y \in T : ~ (y < x)
  BY <1>2, <1>3
<1> QED  BY <1>4

\* Mathematical induction.
LEMMA Induction ==
    ASSUME NEW S, 0 \in S, \A n \in Nat : n \in S => n + 1 \in S
    PROVE  Nat \subseteq S
<1> SUFFICES ASSUME Nat \ S # {} PROVE FALSE  OBVIOUS
<1>1. PICK x \in Nat \ S : \A y \in Nat \ S : x <= y
  BY Least
<1>2. x # 0 /\ x - 1 \in Nat
  OBVIOUS
<1>3. x - 1 \in S
  BY <1>1, <1>2
<1> QED  BY <1>1, <1>2, <1>3

-----------------------------------------------------------------------------

\* the registers, the banks, what may be at $6000, the maps
Regs == [0..(RegCount - 1) -> Byte]

PrgBanks == 0..(PrgPages - 1)
ChrBanks == 0..(ChrPages - 1)

Lows == {<<"sram">>, <<"read only">>, <<"open bus">>, <<"filler">>}
        \cup ({"prg"} \X PrgBanks)

Maps == [prg : [0..3 -> PrgBanks], chr : [0..7 -> ChrBanks], ex : [0..7 -> ChrBanks],
         nt : [1..4 -> 0..3], low : Lows, lrom : BOOLEAN]

\* What the assumption says of the sizes of the memories.
LEMMA Sizes ==
    /\ PrgPages \in Nat /\ PrgPages > 0 /\ PrgPages % 4 = 0
    /\ ChrPages \in Nat /\ ChrPages > 0 /\ ChrPages % 8 = 0
    /\ 0 \in PrgBanks /\ 0 \in ChrBanks
<1>1. /\ PrgPages \in Nat /\ PrgPages > 0 /\ PrgPages % 4 = 0
      /\ ChrPages \in Nat /\ ChrPages > 0 /\ ChrPages % 8 = 0
  BY BoardAssumption
<1> QED  BY <1>1 DEF PrgBanks, ChrBanks

\* The parts of a map.
LEMMA MapFields ==
    ASSUME NEW m \in Maps
    PROVE  /\ m.prg \in [0..3 -> PrgBanks] /\ m.chr \in [0..7 -> ChrBanks]
           /\ m.ex \in [0..7 -> ChrBanks] /\ m.nt \in [1..4 -> 0..3]
           /\ m.low \in Lows /\ m.lrom \in BOOLEAN
BY DEF Maps

\* A multiple of n below a multiple of n leaves room for n.
LEMMA Room ==
    ASSUME NEW n \in Nat, n > 0, NEW k \in Nat, NEW y \in Int, 0 <= y, y < k
    PROVE  y * n \in Nat /\ y * n + n <= k * n
<1>1. (k - y) \in Nat /\ (k - y) >= 1
  OBVIOUS
<1>2. \A z \in Nat : z >= 1 => z * n >= n
  OBVIOUS
<1>3. (k - y) * n >= n
  BY <1>1, <1>2
<1>4. (k - y) * n = k * n - y * n /\ y * n \in Nat /\ k * n \in Nat
  OBVIOUS
<1> QED  BY <1>3, <1>4

\* Quotient and remainder.
LEMMA Division ==
    ASSUME NEW x \in Nat, NEW c \in Nat, c > 0
    PROVE  x \div c \in Nat /\ x % c \in 0..(c - 1) /\ x = (x \div c) * c + (x % c)
<1>1. x \div c \in Nat /\ x % c \in 0..(c - 1)
  OBVIOUS
<1>2. x = (x \div c) * c + (x % c)
  BY SMTT(30)
<1> QED  BY <1>1, <1>2

\* The bank of a page: banks of n pages fit into the memory.
LEMMA PrgFits ==
    ASSUME NEW n \in {1, 2, 4}, NEW bank \in Int, NEW i \in 0..(n - 1)
    PROVE  (bank % (PrgPages \div n)) * n + i \in PrgBanks
<1> DEFINE k == PrgPages \div n  y == bank % k
<1>1. k \in Nat /\ k > 0 /\ k * n = PrgPages
  BY Sizes
<1>2. y \in Int /\ 0 <= y /\ y < k
  <2> HIDE DEF k
  <2> QED  BY <1>1
<1> HIDE DEF k, y
<1>3. n \in Nat /\ n > 0
  OBVIOUS
<1>4. y * n \in Nat /\ y * n + n <= PrgPages
  BY <1>1, <1>2, <1>3, Room
<1>5. y * n + i \in PrgBanks
  BY <1>3, <1>4, Sizes DEF PrgBanks
<1> QED  BY <1>5 DEF y, k

\* The same for tiles, whose bank is reduced after the multiplication.
LEMMA ChrFits ==
    ASSUME NEW n \in {1, 2, 4, 8}, NEW bank \in Nat, NEW i \in 0..(n - 1)
    PROVE  ((bank * n) % ChrPages) + i \in ChrBanks
<1> DEFINE k == ChrPages \div n
<1>1. k \in Nat /\ k > 0 /\ k * n = ChrPages /\ n \in Nat /\ n > 0
  BY Sizes
<1>2. ChrPages \in Nat /\ ChrPages > 0 /\ bank * n \in Nat
  BY <1>1, Sizes
<1> HIDE DEF k
<1>3. PICK x \in Nat : x = bank * n
  BY <1>2
<1>4. PICK q \in Nat, z \in 0..(ChrPages - 1) : x = q * ChrPages + z /\ z = x % ChrPages
  BY <1>2, Division
<1>5. q * ChrPages = (q * k) * n /\ q * k \in Nat
  BY <1>1
<1>6. PICK u \in Nat : u = q * k
  BY <1>5
<1>7. PICK y \in Int : y = bank - u
  OBVIOUS
<1>8. y * n = bank * n - u * n
  BY <1>1, <1>7
<1>9. z = y * n
  <2>1. bank * n \in Nat /\ u * n \in Nat
    BY <1>1
  <2> QED  BY <2>1, <1>3, <1>4, <1>5, <1>6, <1>8
<1>10. 0 <= y /\ y < k
  <2>1. y * n >= 0 /\ y * n < k * n
    <3>1. z >= 0 /\ z < ChrPages
      BY <1>2, <1>4
    <3> QED  BY <1>1, <1>9, <3>1, Zenon
  <2>2. ASSUME y < 0 PROVE FALSE
    <3>1. \A v \in Int : v < 0 => v * n < 0
      BY <1>1
    <3> QED  BY <2>1, <2>2, <3>1
  <2>3. ASSUME k <= y PROVE FALSE
    <3>1. \A a, b \in Nat : a <= b => a * n <= b * n
      BY <1>1
    <3>2. k * n <= y * n
      BY <2>3, <3>1, <1>1
    <3>3. k * n \in Nat /\ y * n \in Int
      BY <1>1
    <3> QED  BY <2>1, <3>2, <3>3
  <2> QED  BY <2>2, <2>3, <1>1
<1>11. y * n \in Nat /\ y * n + n <= ChrPages
  BY <1>1, <1>10, Room
<1>12. y * n + i \in ChrBanks
  BY <1>1, <1>11, Sizes DEF ChrBanks
<1> QED  BY <1>3, <1>4, <1>9, <1>12

-----------------------------------------------------------------------------
(* The writes to the map, part by part.                                    *)

\* page i of a bank of n pages
PrgAt(n, bank, i) == ((bank % (PrgPages \div n)) * n) + i
ChrAt(n, bank, i) == ((bank * n) % ChrPages) + i

\* a is m with a bank of n pages set in one part, and nothing else.
PrgSet(a, m, page, n, bank) ==
    /\ a \in Maps
    /\ \A p \in 0..3 : p \in page..(page + n - 1) => a.prg[p] = PrgAt(n, bank, p - page)
    /\ \A p \in 0..3 : p \notin page..(page + n - 1) => a.prg[p] = m.prg[p]
    /\ a.chr = m.chr /\ a.ex = m.ex /\ a.nt = m.nt /\ a.low = m.low /\ a.lrom = m.lrom
ChrSet(a, m, page, n, bank) ==
    /\ a \in Maps
    /\ \A p \in 0..7 : p \in page..(page + n - 1) => a.chr[p] = ChrAt(n, bank, p - page)
    /\ \A p \in 0..7 : p \notin page..(page + n - 1) => a.chr[p] = m.chr[p]
    /\ a.prg = m.prg /\ a.ex = m.ex /\ a.nt = m.nt /\ a.low = m.low /\ a.lrom = m.lrom
ExSet(a, m, page, n, bank) ==
    /\ a \in Maps
    /\ \A p \in 0..7 : p \in page..(page + n - 1) => a.ex[p] = ChrAt(n, bank, p - page)
    /\ \A p \in 0..7 : p \notin page..(page + n - 1) => a.ex[p] = m.ex[p]
    /\ a.prg = m.prg /\ a.chr = m.chr /\ a.nt = m.nt /\ a.low = m.low /\ a.lrom = m.lrom

\* set_prg_bank changes its pages of the PRG only.
LEMMA SetPrgFields ==
    ASSUME NEW m \in Maps, NEW page \in 0..3, NEW n \in {1, 2, 4}, NEW bank \in Int
    PROVE  PrgSet(SetPrg(m, page, n, bank), m, page, n, bank)
<1> DEFINE f == [p \in 0..3 |-> IF p \in page..(page + n - 1)
                                THEN ((bank % (PrgPages \div n)) * n) + p - page ELSE m.prg[p]]
<1>1. ASSUME NEW p \in 0..3
      PROVE  /\ f[p] = IF p \in page..(page + n - 1) THEN PrgAt(n, bank, p - page) ELSE m.prg[p]
             /\ f[p] \in PrgBanks
  <2>1. CASE p \in page..(page + n - 1)
    <3>1. p - page \in 0..(n - 1)
      BY <2>1
    <3>2. PrgAt(n, bank, p - page) \in PrgBanks
      BY <3>1, PrgFits DEF PrgAt
    <3> DEFINE x == (bank % (PrgPages \div n)) * n
    <3>3. x \in Int
      <4>1. PrgPages \div n \in Nat /\ PrgPages \div n > 0
        BY Sizes
      <4> QED  BY <4>1
    <3>4. f[p] = x + p - page
      BY <2>1
    <3>5. PrgAt(n, bank, p - page) = x + (p - page)
      BY DEF PrgAt
    <3> HIDE DEF f, x
    <3>6. x + p - page = x + (p - page)
      BY <3>3
    <3> QED  BY <2>1, <3>2, <3>4, <3>5, <3>6
  <2>2. CASE p \notin page..(page + n - 1)
    BY <2>2, MapFields
  <2> QED  BY <2>1, <2>2
<1>2. SetPrg(m, page, n, bank) = [m EXCEPT !.prg = f]
  BY DEF SetPrg
<1>3. f \in [0..3 -> PrgBanks]
  BY <1>1
<1> HIDE DEF f
<1>4. LET a == SetPrg(m, page, n, bank) IN
      /\ a \in Maps /\ a.prg = f
      /\ a.chr = m.chr /\ a.ex = m.ex /\ a.nt = m.nt /\ a.low = m.low /\ a.lrom = m.lrom
  BY <1>2, <1>3 DEF Maps
<1> QED  BY <1>1, <1>4 DEF PrgSet

\* f is g with one bank of tiles set.
IsPaged(f, g, page, n, bank) ==
    /\ f \in [0..7 -> ChrBanks]
    /\ \A p \in 0..7 : p \in page..(page + n - 1) => f[p] = ChrAt(n, bank, p - page)
    /\ \A p \in 0..7 : p \notin page..(page + n - 1) => f[p] = g[p]

\* The tiles' pages, one bank of them set.
LEMMA PagedFields ==
    ASSUME NEW pages \in [0..7 -> ChrBanks], NEW page \in 0..7, NEW n \in {1, 2, 4, 8},
           NEW bank \in Nat
    PROVE  IsPaged(Paged(pages, page, n, bank), pages, page, n, bank)
<1> DEFINE f == Paged(pages, page, n, bank)
<1>1. ASSUME NEW p \in 0..7
      PROVE  /\ f[p] = IF p \in page..(page + n - 1) THEN ChrAt(n, bank, p - page) ELSE pages[p]
             /\ f[p] \in ChrBanks
  <2>1. CASE p \in page..(page + n - 1)
    <3>1. p - page \in 0..(n - 1)
      BY <2>1
    <3>2. ChrAt(n, bank, p - page) \in ChrBanks
      BY <3>1, ChrFits DEF ChrAt
    <3> DEFINE x == (bank * n) % ChrPages
    <3>3. x \in Int
      <4>1. ChrPages \in Nat /\ ChrPages > 0 /\ bank * n \in Nat
        BY Sizes
      <4> QED  BY <4>1, Division
    <3>4. f[p] = x + p - page
      BY <2>1 DEF Paged
    <3>5. ChrAt(n, bank, p - page) = x + (p - page)
      BY DEF ChrAt
    <3> HIDE DEF f, x
    <3>6. x + p - page = x + (p - page)
      BY <3>3
    <3> QED  BY <2>1, <3>2, <3>4, <3>5, <3>6
  <2>2. CASE p \notin page..(page + n - 1)
    BY <2>2 DEF Paged
  <2> QED  BY <2>1, <2>2
<1>2. f = [p \in 0..7 |-> f[p]]
  BY DEF Paged
<1> HIDE DEF f
<1>3. f \in [0..7 -> ChrBanks]
  BY <1>1, <1>2
<1> QED  BY <1>1, <1>3 DEF f, IsPaged

\* set_chr_bank changes its pages of the tiles only.
LEMMA SetChrFields ==
    ASSUME NEW m \in Maps, NEW page \in 0..7, NEW n \in {1, 2, 4, 8}, NEW bank \in Nat
    PROVE  ChrSet(SetChr(m, page, n, bank), m, page, n, bank)
<1> DEFINE f == Paged(m.chr, page, n, bank)
<1>1. /\ f \in [0..7 -> ChrBanks]
      /\ \A p \in 0..7 : p \in page..(page + n - 1) => f[p] = ChrAt(n, bank, p - page)
      /\ \A p \in 0..7 : p \notin page..(page + n - 1) => f[p] = m.chr[p]
  <2>1. m.chr \in [0..7 -> ChrBanks]
    BY MapFields
  <2>2. IsPaged(f, m.chr, page, n, bank)
    BY <2>1, PagedFields
  <2> HIDE DEF f
  <2> QED  BY <2>2 DEF IsPaged
<1>2. SetChr(m, page, n, bank) = [m EXCEPT !.chr = f]
  BY DEF SetChr
<1> HIDE DEF f
<1>3. LET a == SetChr(m, page, n, bank) IN
      /\ a \in Maps /\ a.chr = f
      /\ a.prg = m.prg /\ a.ex = m.ex /\ a.nt = m.nt /\ a.low = m.low /\ a.lrom = m.lrom
  <2>1. f \in [0..7 -> ChrBanks]
    BY <1>1
  <2> QED  BY <1>2, <2>1 DEF Maps
<1> QED  BY <1>1, <1>3 DEF ChrSet

\* set_chr_bank_ex changes the second set of tiles only.
LEMMA SetChrExFields ==
    ASSUME NEW m \in Maps, NEW page \in 0..7, NEW n \in {1, 2, 4, 8}, NEW bank \in Nat
    PROVE  ExSet(SetChrEx(m, page, n, bank), m, page, n, bank)
<1> DEFINE f == Paged(m.ex, page, n, bank)
<1>1. /\ f \in [0..7 -> ChrBanks]
      /\ \A p \in 0..7 : p \in page..(page + n - 1) => f[p] = ChrAt(n, bank, p - page)
      /\ \A p \in 0..7 : p \notin page..(page + n - 1) => f[p] = m.ex[p]
  <2>1. m.ex \in [0..7 -> ChrBanks]
    BY MapFields
  <2>2. IsPaged(f, m.ex, page, n, bank)
    BY <2>1, PagedFields
  <2> HIDE DEF f
  <2> QED  BY <2>2 DEF IsPaged
<1>2. SetChrEx(m, page, n, bank) = [m EXCEPT !.ex = f]
  BY DEF SetChrEx
<1> HIDE DEF f
<1>3. LET a == SetChrEx(m, page, n, bank) IN
      /\ a \in Maps /\ a.ex = f
      /\ a.prg = m.prg /\ a.chr = m.chr /\ a.nt = m.nt /\ a.low = m.low /\ a.lrom = m.lrom
  <2>1. f \in [0..7 -> ChrBanks]
    BY <1>1
  <2> QED  BY <1>2, <2>1 DEF Maps
<1> QED  BY <1>1, <1>3 DEF ExSet

\* The name tables, and nothing else.
LEMMA NtFields ==
    ASSUME NEW m \in Maps, NEW t \in [1..4 -> 0..3]
    PROVE  LET a == [m EXCEPT !.nt = t] IN
           /\ a \in Maps /\ a.nt = t
           /\ a.prg = m.prg /\ a.chr = m.chr /\ a.ex = m.ex /\ a.low = m.low /\ a.lrom = m.lrom
BY DEF Maps

-----------------------------------------------------------------------------
(* What the registers r of a board k, in a cartridge with mirroring bits   *)
(* c, make of each part of the map, however it came to be.                 *)

\* PRG in two banks of 16K, in one of 32K, in four of 8K
Prg2(low, high)  == [p \in 0..3 |-> IF p < 2 THEN PrgAt(2, low, p) ELSE PrgAt(2, high, p - 2)]
Prg4(bank)       == [p \in 0..3 |-> PrgAt(4, bank, p)]
Prg1(a, b, c, d) == [p \in 0..3 |-> PrgAt(1, IF p = 0 THEN a ELSE IF p = 1 THEN b
                                             ELSE IF p = 2 THEN c ELSE d, 0)]

\* tiles in one bank of 8K, in two of 4K, in eight of 1K
Chr8(bank)      == [p \in 0..7 |-> ChrAt(8, bank, p)]
Chr4(low, high) == [p \in 0..7 |-> IF p < 4 THEN ChrAt(4, low, p) ELSE ChrAt(4, high, p - 4)]
Chr1(r)         == [p \in 0..7 |-> ChrAt(1, r[p], 0)]
Chr0            == [p \in 0..7 |-> 0]

HorizNt       == <<0, 0, 1, 1>>
VertNt        == <<0, 1, 0, 1>>
SingleNt(p)   == <<p, p, p, p>>
MirrorNt(x)   == IF x THEN HorizNt ELSE VertNt
DefaultNt(c)  == IF Bit(c, 3) THEN <<0, 1, 2, 3>> ELSE MirrorNt(~Bit(c, 0))

M78Nt(r) == IF r[1] = 1 THEN SingleNt(Bits(r[0], 3, 1))
            ELSE IF r[1] = 2 THEN MirrorNt(~Bit(r[0], 3)) ELSE SingleNt(1)

Mmc1PrgOf(r) ==
    LET bank == 16 * Bits(r[1], 4, 1) + Bits(r[3], 0, 4)
        half == 16 * Bits(bank, 4, 1)
    IN  IF ~Bit(r[0], 3) THEN Prg4(bank \div 2)
        ELSE IF Bit(r[0], 2) THEN Prg2(bank, half + 15) ELSE Prg2(half, bank)
Mmc1ChrOf(r) == IF Bit(r[0], 4) THEN Chr4(r[1], r[2]) ELSE Chr8(r[1] \div 2)
Mmc1NtOf(r)  == IF Bits(r[0], 0, 2) < 2 THEN SingleNt(Bits(r[0], 0, 2))
                ELSE MirrorNt(Bits(r[0], 0, 2) = 3)

Mmc3PrgOf(r) == IF Bit(r[8], 6) THEN Prg1(-2, r[7], r[6], -1) ELSE Prg1(r[6], r[7], -2, -1)
Mmc3ChrOf(r) ==
    [p \in 0..7 |->
        LET q == IF Bit(r[8], 7) THEN (p + 4) % 8 ELSE p
        IN  IF q < 2 THEN ChrAt(2, r[0] \div 2, q)
            ELSE IF q < 4 THEN ChrAt(2, r[1] \div 2, q - 2) ELSE ChrAt(1, r[q - 2], 0)]
Mmc3LowOf(r) ==
    IF Bits(r[10], 0, 6) = 48 THEN <<"sram">>
    ELSE IF ~Bit(r[10], 7) THEN <<"open bus">>
    ELSE IF Bit(r[10], 6) THEN <<"read only">> ELSE <<"sram">>

Fme7NtOf(r)  == IF Bit(r[12], 1) THEN SingleNt(Bits(r[12], 0, 1)) ELSE MirrorNt(Bit(r[12], 0))
Fme7LowOf(r) == IF Bits(r[8], 6, 2) = 3 THEN <<"sram">>
                ELSE IF Bits(r[8], 6, 2) = 0 THEN <<"prg", Bits(r[8], 0, 6) % PrgPages>>
                ELSE <<"open bus">>

Vrc6PrgOf(r) == [p \in 0..3 |-> IF p < 2 THEN PrgAt(2, r[8], p)
                                ELSE PrgAt(1, IF p = 2 THEN r[9] ELSE -1, 0)]
Vrc6NtOf(r) ==
    LET page == Bits(r[10], 5, 1)
    IN  IF Bit(r[10], 3) THEN SingleNt((Bits(r[10], 2, 1) + page) % 2)
        ELSE IF Bit(r[10], 2) THEN <<page, page, 1 - page, 1 - page>>
        ELSE <<page, 1 - page, page, 1 - page>>

PrgOf(k, r) ==
    CASE k \in {"UNROM", "MMC4", "Camerica"} -> Prg2(r[0], -1)
      [] k = "AOROM"       -> Prg4(Bits(r[0], 0, 3))
      [] k = "Nina1"       -> Prg4(r[0])
      [] k = "GNROM"       -> Prg4(Bits(r[0], 4, 2))
      [] k = "ColorDreams" -> Prg4(Bits(r[0], 0, 4))
      [] k = "Quattro"     -> Prg2(4 * Bits(r[0], 3, 2) + Bits(r[1], 0, 2), 4 * Bits(r[0], 3, 2) + 3)
      [] k = "M78"         -> Prg2(Bits(r[0], 0, 3), -1)
      [] k = "MMC1"        -> Mmc1PrgOf(r)
      [] k = "MMC2"        -> Prg1(r[0], 13, 14, 15)
      [] k = "MMC3"        -> Mmc3PrgOf(r)
      [] k = "FME7"        -> Prg1(r[9], r[10], r[11], -1)
      [] k = "Namco"       -> Prg1(Bits(r[12], 0, 6), Bits(r[13], 0, 6), Bits(r[14], 0, 6), -1)
      [] k = "VRC6"        -> Vrc6PrgOf(r)
      [] OTHER             -> Prg2(0, -1)

ChrOf(k, r) ==
    CASE k = "CNROM" -> Chr8(Bits(r[0], 0, 3))
      [] k = "GNROM" -> Chr8(Bits(r[0], 0, 2))
      [] k \in {"ColorDreams", "M78"} -> Chr8(Bits(r[0], 4, 4))
      [] k = "MMC1"  -> Mmc1ChrOf(r)
      [] k \in {"MMC2", "MMC4"} -> Chr4(r[1], r[3])
      [] k = "MMC3"  -> Mmc3ChrOf(r)
      [] k \in {"FME7", "Namco", "VRC6"} -> Chr1(r)
      [] OTHER -> Chr8(0)

ExOf(k, r) == IF k \in {"MMC2", "MMC4"} THEN Chr4(r[2], r[4]) ELSE Chr0

NtOf(k, c, r) ==
    CASE k = "AOROM"    -> SingleNt(Bits(r[0], 4, 1))
      [] k = "Camerica" -> IF Bit(r[1], 7) THEN SingleNt(Bits(r[1], 4, 1)) ELSE DefaultNt(c)
      [] k = "M78"      -> M78Nt(r)
      [] k = "MMC1"     -> Mmc1NtOf(r)
      [] k \in {"MMC2", "MMC4"} -> MirrorNt(Bit(r[5], 0))
      [] k = "MMC3"     -> IF Bit(c, 3) THEN DefaultNt(c) ELSE MirrorNt(Bit(r[9], 0))
      [] k = "FME7"     -> Fme7NtOf(r)
      [] k = "VRC6"     -> Vrc6NtOf(r)
      [] OTHER -> DefaultNt(c)

LowOf(k, r) ==
    CASE k = "MMC3" -> Mmc3LowOf(r)
      [] k = "FME7" -> Fme7LowOf(r)
      [] OTHER      -> <<"sram">>

\* The map m is the one of the registers r, in all that they decide.
Follows(k, c, m, r) ==
    /\ m.prg = PrgOf(k, r)
    /\ k # "M87" => m.chr = ChrOf(k, r)
    /\ m.ex = ExOf(k, r)
    /\ k # "Namco" => m.nt = NtOf(k, c, r)
    /\ k \in Decides("low") => Seen(m).low = LowOf(k, r)

\* What every step keeps: map and registers of their types, the registers of
\* the boards that have fewer values, the map the one of the registers, and
\* the map that was saved the one of the registers that were.
RegsOk(k, r) == r \in Regs /\ (k = "FME7" => r[13] \in 0..12)

IInv ==
    /\ kind \in Kinds /\ cart \in Mirrors
    /\ map \in Maps /\ RegsOk(kind, regs) /\ Follows(kind, cart, map, regs)
    /\ \/ saved = None
       \/ then \in Maps /\ RegsOk(kind, saved) /\ Follows(kind, cart, then, saved)
    /\ loaded \in BOOLEAN /\ (loaded => saved # None /\ regs = saved)
    /\ writes \in 0..MaxWrites[kind]

-----------------------------------------------------------------------------
(* The map's operations on these shapes of its parts                       *)

OnlyPrg(a, m) == a \in Maps /\ a.chr = m.chr /\ a.ex = m.ex /\ a.nt = m.nt /\ a.low = m.low
OnlyChr(a, m) == a \in Maps /\ a.prg = m.prg /\ a.ex = m.ex /\ a.nt = m.nt /\ a.low = m.low
OnlyEx(a, m)  == a \in Maps /\ a.prg = m.prg /\ a.chr = m.chr /\ a.nt = m.nt /\ a.low = m.low
OnlyNt(a, m)  == a \in Maps /\ a.prg = m.prg /\ a.chr = m.chr /\ a.ex = m.ex /\ a.low = m.low
OnlyLow(a, m) == a \in Maps /\ a.prg = m.prg /\ a.chr = m.chr /\ a.ex = m.ex /\ a.nt = m.nt

\* One bank of 32K.
LEMMA SetPrg4 ==
    ASSUME NEW m \in Maps, NEW bank \in Int
    PROVE  LET a == SetPrg(m, 0, 4, bank) IN OnlyPrg(a, m) /\ a.prg = Prg4(bank)
<1> DEFINE a == SetPrg(m, 0, 4, bank)
<1>1. PrgSet(a, m, 0, 4, bank)
  BY SetPrgFields
<1> HIDE DEF a
<1>2. a.prg \in [0..3 -> PrgBanks]
  BY <1>1, MapFields DEF PrgSet
<1>3. \A p \in 0..3 : a.prg[p] = PrgAt(4, bank, p)
  BY <1>1 DEF PrgSet
<1>4. a.prg = Prg4(bank)
  BY <1>2, <1>3 DEF Prg4
<1> QED  BY <1>1, <1>4 DEF OnlyPrg, PrgSet, a

\* The lower of two banks of 16K.
LEMMA SetPrgLower ==
    ASSUME NEW m \in Maps, NEW bank \in Int, NEW low, NEW high, m.prg = Prg2(low, high)
    PROVE  LET a == SetPrg(m, 0, 2, bank) IN OnlyPrg(a, m) /\ a.prg = Prg2(bank, high)
<1> DEFINE a == SetPrg(m, 0, 2, bank)
<1>1. PrgSet(a, m, 0, 2, bank)
  BY SetPrgFields
<1> HIDE DEF a
<1>2. a.prg \in [0..3 -> PrgBanks]
  BY <1>1, MapFields DEF PrgSet
<1>3. /\ a.prg[0] = PrgAt(2, bank, 0) /\ a.prg[1] = PrgAt(2, bank, 1)
      /\ a.prg[2] = PrgAt(2, high, 0) /\ a.prg[3] = PrgAt(2, high, 1)
  BY <1>1 DEF Prg2, PrgSet
<1>4. \A p \in 0..3 : a.prg[p] = Prg2(bank, high)[p]
  BY <1>3 DEF Prg2
<1>5. a.prg = Prg2(bank, high)
  BY <1>2, <1>4 DEF Prg2
<1> QED  BY <1>1, <1>5 DEF OnlyPrg, PrgSet, a

\* Both banks of 16K.
LEMMA SetPrgBoth ==
    ASSUME NEW m \in Maps, NEW low \in Int, NEW high \in Int
    PROVE  LET a == SetPrg(SetPrg(m, 0, 2, low), 2, 2, high)
           IN  OnlyPrg(a, m) /\ a.prg = Prg2(low, high)
<1> DEFINE b == SetPrg(m, 0, 2, low)
<1>1. PrgSet(b, m, 0, 2, low)
  BY SetPrgFields
<1> HIDE DEF b
<1> DEFINE a == SetPrg(b, 2, 2, high)
<1>2. PrgSet(a, b, 2, 2, high)
  <2>1. b \in Maps
    BY <1>1 DEF PrgSet
  <2> QED  BY <2>1, SetPrgFields
<1> HIDE DEF a
<1>3. a.prg \in [0..3 -> PrgBanks]
  BY <1>2, MapFields DEF PrgSet
<1>4. /\ a.prg[0] = PrgAt(2, low, 0) /\ a.prg[1] = PrgAt(2, low, 1)
      /\ a.prg[2] = PrgAt(2, high, 0) /\ a.prg[3] = PrgAt(2, high, 1)
  BY <1>1, <1>2 DEF PrgSet
<1>5. \A p \in 0..3 : a.prg[p] = Prg2(low, high)[p]
  BY <1>4 DEF Prg2
<1>6. a.prg = Prg2(low, high)
  BY <1>3, <1>5 DEF Prg2
<1>7. OnlyPrg(a, m)
  BY <1>1, <1>2 DEF OnlyPrg, PrgSet
<1> QED  BY <1>6, <1>7 DEF a, b

\* One of four banks of 8K.
LEMMA SetPrg1 ==
    ASSUME NEW m \in Maps, NEW page \in 0..3, NEW bank \in Int
    PROVE  LET a == SetPrg(m, page, 1, bank) IN
           /\ OnlyPrg(a, m) /\ a.prg[page] = PrgAt(1, bank, 0)
           /\ \A p \in (0..3) \ {page} : a.prg[p] = m.prg[p]
<1> DEFINE a == SetPrg(m, page, 1, bank)
<1>1. PrgSet(a, m, page, 1, bank)
  BY SetPrgFields
<1> HIDE DEF a
<1>2. a.prg[page] = PrgAt(1, bank, 0)
  BY <1>1 DEF PrgSet
<1>3. \A p \in (0..3) \ {page} : a.prg[p] = m.prg[p]
  BY <1>1 DEF PrgSet
<1> QED  BY <1>1, <1>2, <1>3 DEF OnlyPrg, PrgSet, a

\* The last 8K, as a bank of its own and as half of one.
LEMMA LastBank == PrgAt(2, -1, 1) = PrgAt(1, -1, 0)
<1>1. PICK q \in Nat : PrgPages = 4 * q /\ q > 0
  <2>1. PrgPages = 4 * (PrgPages \div 4) /\ PrgPages \div 4 \in Nat /\ PrgPages \div 4 > 0
    BY Sizes
  <2> QED  BY <2>1
<1>2. PrgPages \div 2 = 2 * q /\ PrgPages \div 1 = 4 * q
  BY <1>1
<1>3. (-1) % (2 * q) = 2 * q - 1 /\ (-1) % (4 * q) = 4 * q - 1
  BY <1>1
<1> QED  BY <1>1, <1>2, <1>3 DEF PrgAt

\* One bank of 8K of tiles.
LEMMA SetChr8 ==
    ASSUME NEW m \in Maps, NEW bank \in Nat
    PROVE  LET a == SetChr(m, 0, 8, bank) IN OnlyChr(a, m) /\ a.chr = Chr8(bank)
<1> DEFINE a == SetChr(m, 0, 8, bank)
<1>1. ChrSet(a, m, 0, 8, bank)
  BY SetChrFields
<1> HIDE DEF a
<1>2. a.chr \in [0..7 -> ChrBanks]
  BY <1>1, MapFields DEF ChrSet
<1>3. \A p \in 0..7 : a.chr[p] = ChrAt(8, bank, p)
  BY <1>1 DEF ChrSet
<1>4. a.chr = Chr8(bank)
  BY <1>2, <1>3 DEF Chr8
<1> QED  BY <1>1, <1>4 DEF OnlyChr, ChrSet, a

\* The lower, the upper and both banks of 4K.
LEMMA SetChrHalf ==
    ASSUME NEW m \in Maps, NEW page \in {0, 4}, NEW bank \in Nat
    PROVE  LET a == SetChr(m, page, 4, bank) IN
           /\ OnlyChr(a, m)
           /\ \A p \in 0..3 : a.chr[page + p] = ChrAt(4, bank, p)
           /\ \A p \in 0..3 : a.chr[4 - page + p] = m.chr[4 - page + p]
<1> DEFINE a == SetChr(m, page, 4, bank)
<1>1. ChrSet(a, m, page, 4, bank)
  BY SetChrFields
<1> HIDE DEF a
<1>2. \A p \in 0..3 : a.chr[page + p] = ChrAt(4, bank, p)
  <2>1. ASSUME NEW p \in 0..3 PROVE a.chr[page + p] = ChrAt(4, bank, (page + p) - page)
    BY <1>1 DEF ChrSet
  <2>2. \A p \in 0..3 : (page + p) - page = p
    OBVIOUS
  <2> QED  BY <2>1, <2>2
<1>3. \A p \in 0..3 : a.chr[4 - page + p] = m.chr[4 - page + p]
  BY <1>1 DEF ChrSet
<1> QED  BY <1>1, <1>2, <1>3 DEF OnlyChr, ChrSet, a
\* 4K of tiles at the lower half.
LEMMA SetChrLower ==
    ASSUME NEW m \in Maps, NEW bank \in Nat, NEW low, NEW high, m.chr = Chr4(low, high)
    PROVE  LET a == SetChr(m, 0, 4, bank) IN OnlyChr(a, m) /\ a.chr = Chr4(bank, high)
<1> DEFINE a == SetChr(m, 0, 4, bank)
<1>1. /\ OnlyChr(a, m)
      /\ \A p \in 0..3 : a.chr[p] = ChrAt(4, bank, p)
      /\ \A p \in 0..3 : a.chr[4 + p] = m.chr[4 + p]
  BY SetChrHalf
<1> HIDE DEF a
<1>2. a.chr \in [0..7 -> ChrBanks]
  BY <1>1, MapFields DEF OnlyChr
<1>3. \A p \in 0..3 : a.chr[p] = ChrAt(4, bank, p) /\ a.chr[4 + p] = ChrAt(4, high, p)
  BY <1>1 DEF Chr4
<1>4. a.chr = Chr4(bank, high)
  BY <1>2, <1>3 DEF Chr4
<1> QED  BY <1>1, <1>4 DEF a
\* 4K of tiles at the upper half.
LEMMA SetChrUpper ==
    ASSUME NEW m \in Maps, NEW bank \in Nat, NEW low, NEW high, m.chr = Chr4(low, high)
    PROVE  LET a == SetChr(m, 4, 4, bank) IN OnlyChr(a, m) /\ a.chr = Chr4(low, bank)
<1> DEFINE a == SetChr(m, 4, 4, bank)
<1>1. /\ OnlyChr(a, m)
      /\ \A p \in 0..3 : a.chr[4 + p] = ChrAt(4, bank, p)
      /\ \A p \in 0..3 : a.chr[p] = m.chr[p]
  BY SetChrHalf
<1> HIDE DEF a
<1>2. a.chr \in [0..7 -> ChrBanks]
  BY <1>1, MapFields DEF OnlyChr
<1>3. \A p \in 0..3 : a.chr[p] = ChrAt(4, low, p) /\ a.chr[4 + p] = ChrAt(4, bank, p)
  BY <1>1 DEF Chr4
<1>4. a.chr = Chr4(low, bank)
  BY <1>2, <1>3 DEF Chr4
<1> QED  BY <1>1, <1>4 DEF a
\* 4K of tiles at both halves, one after the other.
LEMMA SetChrBoth ==
    ASSUME NEW m \in Maps, NEW low \in Nat, NEW high \in Nat
    PROVE  LET a == SetChr(SetChr(m, 0, 4, low), 4, 4, high)
           IN  OnlyChr(a, m) /\ a.chr = Chr4(low, high)
<1> DEFINE b == SetChr(m, 0, 4, low)
<1>1. OnlyChr(b, m) /\ \A p \in 0..3 : b.chr[p] = ChrAt(4, low, p)
  BY SetChrHalf
<1> HIDE DEF b
<1> DEFINE a == SetChr(b, 4, 4, high)
<1>2. /\ OnlyChr(a, b)
      /\ \A p \in 0..3 : a.chr[4 + p] = ChrAt(4, high, p)
      /\ \A p \in 0..3 : a.chr[p] = b.chr[p]
  <2>1. b \in Maps
    BY <1>1 DEF OnlyChr
  <2> QED  BY <2>1, SetChrHalf
<1> HIDE DEF a
<1>3. a.chr \in [0..7 -> ChrBanks]
  BY <1>2, MapFields DEF OnlyChr
<1>4. \A p \in 0..3 : a.chr[p] = ChrAt(4, low, p) /\ a.chr[4 + p] = ChrAt(4, high, p)
  BY <1>1, <1>2
<1>5. a.chr = Chr4(low, high)
  BY <1>3, <1>4 DEF Chr4
<1>6. OnlyChr(a, m)
  BY <1>1, <1>2 DEF OnlyChr
<1> QED  BY <1>5, <1>6 DEF a, b

\* The lower, the upper and both banks of 4K.
LEMMA SetChrExHalf ==
    ASSUME NEW m \in Maps, NEW page \in {0, 4}, NEW bank \in Nat
    PROVE  LET a == SetChrEx(m, page, 4, bank) IN
           /\ OnlyEx(a, m)
           /\ \A p \in 0..3 : a.ex[page + p] = ChrAt(4, bank, p)
           /\ \A p \in 0..3 : a.ex[4 - page + p] = m.ex[4 - page + p]
<1> DEFINE a == SetChrEx(m, page, 4, bank)
<1>1. ExSet(a, m, page, 4, bank)
  BY SetChrExFields
<1> HIDE DEF a
<1>2. \A p \in 0..3 : a.ex[page + p] = ChrAt(4, bank, p)
  <2>1. ASSUME NEW p \in 0..3 PROVE a.ex[page + p] = ChrAt(4, bank, (page + p) - page)
    BY <1>1 DEF ExSet
  <2>2. \A p \in 0..3 : (page + p) - page = p
    OBVIOUS
  <2> QED  BY <2>1, <2>2
<1>3. \A p \in 0..3 : a.ex[4 - page + p] = m.ex[4 - page + p]
  BY <1>1 DEF ExSet
<1> QED  BY <1>1, <1>2, <1>3 DEF OnlyEx, ExSet, a
\* 4K of MMC2's and MMC4's second tiles at the lower half.
LEMMA SetChrExLower ==
    ASSUME NEW m \in Maps, NEW bank \in Nat, NEW low, NEW high, m.ex = Chr4(low, high)
    PROVE  LET a == SetChrEx(m, 0, 4, bank) IN OnlyEx(a, m) /\ a.ex = Chr4(bank, high)
<1> DEFINE a == SetChrEx(m, 0, 4, bank)
<1>1. /\ OnlyEx(a, m)
      /\ \A p \in 0..3 : a.ex[p] = ChrAt(4, bank, p)
      /\ \A p \in 0..3 : a.ex[4 + p] = m.ex[4 + p]
  BY SetChrExHalf
<1> HIDE DEF a
<1>2. a.ex \in [0..7 -> ChrBanks]
  BY <1>1, MapFields DEF OnlyEx
<1>3. \A p \in 0..3 : a.ex[p] = ChrAt(4, bank, p) /\ a.ex[4 + p] = ChrAt(4, high, p)
  BY <1>1 DEF Chr4
<1>4. a.ex = Chr4(bank, high)
  BY <1>2, <1>3 DEF Chr4
<1> QED  BY <1>1, <1>4 DEF a
\* 4K of the second tiles at the upper half.
LEMMA SetChrExUpper ==
    ASSUME NEW m \in Maps, NEW bank \in Nat, NEW low, NEW high, m.ex = Chr4(low, high)
    PROVE  LET a == SetChrEx(m, 4, 4, bank) IN OnlyEx(a, m) /\ a.ex = Chr4(low, bank)
<1> DEFINE a == SetChrEx(m, 4, 4, bank)
<1>1. /\ OnlyEx(a, m)
      /\ \A p \in 0..3 : a.ex[4 + p] = ChrAt(4, bank, p)
      /\ \A p \in 0..3 : a.ex[p] = m.ex[p]
  BY SetChrExHalf
<1> HIDE DEF a
<1>2. a.ex \in [0..7 -> ChrBanks]
  BY <1>1, MapFields DEF OnlyEx
<1>3. \A p \in 0..3 : a.ex[p] = ChrAt(4, low, p) /\ a.ex[4 + p] = ChrAt(4, bank, p)
  BY <1>1 DEF Chr4
<1>4. a.ex = Chr4(low, bank)
  BY <1>2, <1>3 DEF Chr4
<1> QED  BY <1>1, <1>4 DEF a
\* 4K of the second tiles at both halves.
LEMMA SetChrExBoth ==
    ASSUME NEW m \in Maps, NEW low \in Nat, NEW high \in Nat
    PROVE  LET a == SetChrEx(SetChrEx(m, 0, 4, low), 4, 4, high)
           IN  OnlyEx(a, m) /\ a.ex = Chr4(low, high)
<1> DEFINE b == SetChrEx(m, 0, 4, low)
<1>1. OnlyEx(b, m) /\ \A p \in 0..3 : b.ex[p] = ChrAt(4, low, p)
  BY SetChrExHalf
<1> HIDE DEF b
<1> DEFINE a == SetChrEx(b, 4, 4, high)
<1>2. /\ OnlyEx(a, b)
      /\ \A p \in 0..3 : a.ex[4 + p] = ChrAt(4, high, p)
      /\ \A p \in 0..3 : a.ex[p] = b.ex[p]
  <2>1. b \in Maps
    BY <1>1 DEF OnlyEx
  <2> QED  BY <2>1, SetChrExHalf
<1> HIDE DEF a
<1>3. a.ex \in [0..7 -> ChrBanks]
  BY <1>2, MapFields DEF OnlyEx
<1>4. \A p \in 0..3 : a.ex[p] = ChrAt(4, low, p) /\ a.ex[4 + p] = ChrAt(4, high, p)
  BY <1>1, <1>2
<1>5. a.ex = Chr4(low, high)
  BY <1>3, <1>4 DEF Chr4
<1>6. OnlyEx(a, m)
  BY <1>1, <1>2 DEF OnlyEx
<1> QED  BY <1>5, <1>6 DEF a, b

\* One bank of 1K or 2K of tiles.
LEMMA SetChr1 ==
    ASSUME NEW m \in Maps, NEW page \in 0..7, NEW bank \in Nat
    PROVE  LET a == SetChr(m, page, 1, bank) IN
           /\ OnlyChr(a, m) /\ a.chr[page] = ChrAt(1, bank, 0)
           /\ \A p \in (0..7) \ {page} : a.chr[p] = m.chr[p]
<1> DEFINE a == SetChr(m, page, 1, bank)
<1>1. ChrSet(a, m, page, 1, bank)
  BY SetChrFields
<1> HIDE DEF a
<1>2. a.chr[page] = ChrAt(1, bank, 0)
  BY <1>1 DEF ChrSet
<1>3. \A p \in (0..7) \ {page} : a.chr[p] = m.chr[p]
  BY <1>1 DEF ChrSet
<1> QED  BY <1>1, <1>2, <1>3 DEF OnlyChr, ChrSet, a
\* 2K of tiles.
LEMMA SetChr2 ==
    ASSUME NEW m \in Maps, NEW page \in 0..6, NEW bank \in Nat
    PROVE  LET a == SetChr(m, page, 2, bank) IN
           /\ OnlyChr(a, m) /\ a.chr[page] = ChrAt(2, bank, 0) /\ a.chr[page + 1] = ChrAt(2, bank, 1)
           /\ \A p \in (0..7) \ {page, page + 1} : a.chr[p] = m.chr[p]
<1> DEFINE a == SetChr(m, page, 2, bank)
<1>1. ChrSet(a, m, page, 2, bank)
  BY SetChrFields
<1> HIDE DEF a
<1>2. a.chr[page] = ChrAt(2, bank, 0) /\ a.chr[page + 1] = ChrAt(2, bank, 1)
  <2>1. a.chr[page] = ChrAt(2, bank, page - page)
    BY <1>1 DEF ChrSet
  <2>2. a.chr[page + 1] = ChrAt(2, bank, (page + 1) - page)
    BY <1>1 DEF ChrSet
  <2>3. page - page = 0 /\ (page + 1) - page = 1
    OBVIOUS
  <2> QED  BY <2>1, <2>2, <2>3
<1>3. \A p \in (0..7) \ {page, page + 1} : a.chr[p] = m.chr[p]
  BY <1>1 DEF ChrSet
<1> QED  BY <1>1, <1>2, <1>3 DEF OnlyChr, ChrSet, a

\* Mirroring sets the name tables only.
LEMMA Mirroring ==
    ASSUME NEW m \in Maps
    PROVE  /\ \A p \in 0..1 :
                /\ OnlyNt(Horiz(m, p), m) /\ Horiz(m, p).nt = <<p, p, 1 - p, 1 - p>>
                /\ OnlyNt(Vert(m, p), m) /\ Vert(m, p).nt = <<p, 1 - p, p, 1 - p>>
                /\ OnlyNt(Single(m, p), m) /\ Single(m, p).nt = SingleNt(p)
           /\ OnlyNt(Full(m), m) /\ Full(m).nt = <<0, 1, 2, 3>>
           /\ \A x \in BOOLEAN : OnlyNt(MirrorBy(m, x), m) /\ MirrorBy(m, x).nt = MirrorNt(x)
<1>1. ASSUME NEW p \in 0..1
      PROVE  /\ <<p, p, 1 - p, 1 - p>> \in [1..4 -> 0..3]
             /\ <<p, 1 - p, p, 1 - p>> \in [1..4 -> 0..3]
             /\ <<p, p, p, p>> \in [1..4 -> 0..3]
  OBVIOUS
<1>2. <<0, 1, 2, 3>> \in [1..4 -> 0..3]
  OBVIOUS
<1>3. ASSUME NEW p \in 0..1
      PROVE  /\ OnlyNt(Horiz(m, p), m) /\ Horiz(m, p).nt = <<p, p, 1 - p, 1 - p>>
             /\ OnlyNt(Vert(m, p), m) /\ Vert(m, p).nt = <<p, 1 - p, p, 1 - p>>
             /\ OnlyNt(Single(m, p), m) /\ Single(m, p).nt = SingleNt(p)
  <2>1. OnlyNt(Horiz(m, p), m) /\ Horiz(m, p).nt = <<p, p, 1 - p, 1 - p>>
    BY <1>1, NtFields DEF Horiz, OnlyNt
  <2>2. OnlyNt(Vert(m, p), m) /\ Vert(m, p).nt = <<p, 1 - p, p, 1 - p>>
    BY <1>1, NtFields DEF Vert, OnlyNt
  <2>3. OnlyNt(Single(m, p), m) /\ Single(m, p).nt = SingleNt(p)
    BY <1>1, NtFields DEF Single, OnlyNt, SingleNt
  <2> QED  BY <2>1, <2>2, <2>3
<1>4. OnlyNt(Full(m), m) /\ Full(m).nt = <<0, 1, 2, 3>>
  BY <1>2, NtFields DEF Full, OnlyNt
<1>5. ASSUME NEW x \in BOOLEAN PROVE OnlyNt(MirrorBy(m, x), m) /\ MirrorBy(m, x).nt = MirrorNt(x)
  <2>1. /\ OnlyNt(Horiz(m, 0), m) /\ Horiz(m, 0).nt = <<0, 0, 1 - 0, 1 - 0>>
        /\ OnlyNt(Vert(m, 0), m) /\ Vert(m, 0).nt = <<0, 1 - 0, 0, 1 - 0>>
    BY <1>3
  <2>2. CASE x
    BY <2>1, <2>2 DEF MirrorBy, MirrorNt, HorizNt
  <2>3. CASE ~x
    BY <2>1, <2>3 DEF MirrorBy, MirrorNt, VertNt
  <2> QED  BY <2>2, <2>3
<1> QED  BY <1>3, <1>4, <1>5

\* What is at $6000, and nothing else.
LEMMA LowFields ==
    ASSUME NEW m \in Maps, NEW x \in Lows
    PROVE  OnlyLow([m EXCEPT !.low = x], m) /\ [m EXCEPT !.low = x].low = x
BY DEF Maps, OnlyLow

\* The memory at $6000.
LEMMA Low ==
    ASSUME NEW m \in Maps
    PROVE  /\ OnlyLow(Sram(m), m) /\ Sram(m).low = <<"sram">>
           /\ OnlyLow(SramReadOnly(m), m) /\ SramReadOnly(m).low = <<"read only">>
           /\ OnlyLow(Unmapped(m), m) /\ Unmapped(m).low \in {<<"open bus">>, <<"filler">>}
           /\ \A bank \in Nat : /\ OnlyLow(SetPrgLow(m, bank), m)
                                 /\ SetPrgLow(m, bank).low = <<"prg", bank % PrgPages>>
<1>1. \A bank \in Nat : bank % PrgPages \in PrgBanks
  BY Sizes DEF PrgBanks
<1>2. /\ <<"sram">> \in Lows /\ <<"read only">> \in Lows
      /\ <<"open bus">> \in Lows /\ <<"filler">> \in Lows
      /\ \A x \in PrgBanks : <<"prg", x>> \in Lows
  BY DEF Lows
<1>3. OnlyLow(Sram(m), m) /\ Sram(m).low = <<"sram">>
  <2> DEFINE x == <<"sram">>
  <2>1. x \in Lows /\ Sram(m) = [m EXCEPT !.low = x]
    BY <1>2 DEF Sram
  <2> HIDE DEF x
  <2>2. OnlyLow(Sram(m), m) /\ Sram(m).low = x
    BY <2>1, LowFields
  <2> QED  BY <2>2 DEF x
<1>4. OnlyLow(SramReadOnly(m), m) /\ SramReadOnly(m).low = <<"read only">>
  <2> DEFINE x == <<"read only">>
  <2>1. x \in Lows /\ SramReadOnly(m) = [m EXCEPT !.low = x]
    BY <1>2 DEF SramReadOnly
  <2> HIDE DEF x
  <2>2. OnlyLow(SramReadOnly(m), m) /\ SramReadOnly(m).low = x
    BY <2>1, LowFields
  <2> QED  BY <2>2 DEF x
<1>5. OnlyLow(Unmapped(m), m) /\ Unmapped(m).low \in {<<"open bus">>, <<"filler">>}
  <2> DEFINE x == IF m.lrom THEN <<"filler">> ELSE <<"open bus">>
  <2>1. x \in Lows /\ Unmapped(m) = [m EXCEPT !.low = x]
    BY <1>2 DEF Unmapped
  <2>2. x \in {<<"open bus">>, <<"filler">>}
    BY Zenon
  <2> HIDE DEF x
  <2>3. OnlyLow(Unmapped(m), m) /\ Unmapped(m).low = x
    BY <2>1, LowFields
  <2> QED  BY <2>2, <2>3
<1>6. ASSUME NEW bank \in Nat
      PROVE  OnlyLow(SetPrgLow(m, bank), m) /\ SetPrgLow(m, bank).low = <<"prg", bank % PrgPages>>
  <2> DEFINE x == <<"prg", bank % PrgPages>>  y == TRUE
  <2>1. x \in Lows /\ y \in BOOLEAN /\ SetPrgLow(m, bank) = [m EXCEPT !.low = x, !.lrom = y]
    BY <1>1, <1>2 DEF SetPrgLow
  <2> HIDE DEF x, y
  <2> DEFINE a == SetPrgLow(m, bank)
  <2> HIDE DEF a
  <2>2. a = [m EXCEPT !.low = x, !.lrom = y]
    BY <2>1 DEF a
  <2>3. OnlyLow(a, m) /\ a.low = x
    BY <2>1, <2>2 DEF Maps, OnlyLow
  <2> QED  BY <2>3 DEF a, x
<1> QED  BY <1>3, <1>4, <1>5, <1>6

\* How a map's memory at $6000 is seen.
LEMMA SeenFields ==
    ASSUME NEW m \in Maps
    PROVE  /\ Seen(m).prg = m.prg /\ Seen(m).chr = m.chr /\ Seen(m).ex = m.ex /\ Seen(m).nt = m.nt
           /\ Seen(m).low = IF m.low = <<"filler">> THEN <<"open bus">> ELSE m.low
<1> DEFINE x == IF m.low = <<"filler">> THEN <<"open bus">> ELSE m.low
<1>1. Seen(m) = [m EXCEPT !.low = x]
  BY DEF Seen
<1>2. x \in Lows
  BY MapFields DEF Lows
<1> HIDE DEF x
<1>3. OnlyLow(Seen(m), m) /\ Seen(m).low = x
  BY <1>1, <1>2, LowFields
<1> QED  BY <1>3 DEF OnlyLow, x

\* What is seen of the memory at $6000, case by case.
LEMMA SeenLow ==
    ASSUME NEW m \in Maps
    PROVE  /\ m.low = <<"sram">> => Seen(m).low = <<"sram">>
           /\ m.low = <<"read only">> => Seen(m).low = <<"read only">>
           /\ m.low \in {<<"open bus">>, <<"filler">>} => Seen(m).low = <<"open bus">>
           /\ \A x : m.low = <<"prg", x>> => Seen(m).low = <<"prg", x>>
<1>1. <<"sram">> # <<"filler">> /\ <<"read only">> # <<"filler">>
  OBVIOUS
<1>2. \A x : <<"prg", x>> # <<"filler">>
  <2>1. ASSUME NEW x, <<"prg", x>> = <<"filler">> PROVE FALSE
    <3>1. <<"prg", x>>[1] = "prg" /\ <<"filler">>[1] = "filler"
      OBVIOUS
    <3> QED  BY <2>1, <3>1
  <2> QED  BY <2>1
<1>3. Seen(m).low = IF m.low = <<"filler">> THEN <<"open bus">> ELSE m.low
  BY SeenFields
<1> QED  BY <1>1, <1>2, <1>3, Zenon

-----------------------------------------------------------------------------
(* Registers                                                               *)

\* Maps with the same low page are seen to have the same.
LEMMA SameLow ==
    \A a \in Maps : \A m \in Maps : a.low = m.low => Seen(a).low = Seen(m).low
BY SeenFields

\* Registers are bytes.
LEMMA RegsAre ==
    ASSUME NEW r \in Regs
    PROVE  \A i \in 0..15 : r[i] \in 0..255 /\ r[i] \in Nat /\ r[i] \in Int
<1>1. r \in [0..15 -> 0..255]
  BY DEF Regs, RegCount, Byte
<1>2. ASSUME NEW i \in 0..15 PROVE r[i] \in 0..255
  BY <1>1
<1>3. \A x \in 0..255 : x \in Nat /\ x \in Int
  OBVIOUS
<1> QED  BY <1>2, <1>3, Zenon

\* s is r with one register written.
Written(s, r, i, d) == s \in Regs /\ s[i] = d /\ \A j \in (0..15) \ {i} : s[j] = r[j]

\* A byte written to one register.
LEMMA RegWritten ==
    ASSUME NEW r \in Regs, NEW i \in 0..15, NEW d \in 0..255
    PROVE  Written([r EXCEPT ![i] = d], r, i, d)
<1> DEFINE s == [r EXCEPT ![i] = d]
<1>1. r \in [0..15 -> 0..255]
  BY DEF Regs, RegCount, Byte
<1>2. s \in [0..15 -> 0..255]
  BY <1>1
<1>3. s[i] = d /\ \A j \in (0..15) \ {i} : s[j] = r[j]
  BY <1>1
<1>4. s \in Regs
  BY <1>2 DEF Regs, RegCount, Byte
<1> QED  BY <1>3, <1>4 DEF Written

\* The fields of a register.
LEMMA BitsAre ==
    ASSUME NEW v \in Nat
    PROVE  /\ Bits(v, 0, 1) \in 0..1 /\ Bits(v, 1, 1) \in 0..1 /\ Bits(v, 2, 1) \in 0..1
           /\ Bits(v, 3, 1) \in 0..1 /\ Bits(v, 4, 1) \in 0..1 /\ Bits(v, 5, 1) \in 0..1
           /\ Bits(v, 6, 1) \in 0..1 /\ Bits(v, 7, 1) \in 0..1
           /\ Bits(v, 0, 2) \in 0..3 /\ Bits(v, 4, 2) \in 0..3 /\ Bits(v, 3, 2) \in 0..3
           /\ Bits(v, 6, 2) \in 0..3
           /\ Bits(v, 0, 3) \in 0..7 /\ Bits(v, 0, 4) \in 0..15 /\ Bits(v, 4, 4) \in 0..15
           /\ Bits(v, 0, 6) \in 0..63
BY DEF Bits

\* Every field of the complement differs.
LEMMA Complement ==
    ASSUME NEW x \in 0..255
    PROVE  /\ 255 - x \in 0..255
           /\ Bits(255 - x, 0, 4) # Bits(x, 0, 4) /\ Bits(255 - x, 4, 1) # Bits(x, 4, 1)
           /\ Bits(255 - x, 4, 2) # Bits(x, 4, 2) /\ Bits(255 - x, 0, 2) # Bits(x, 0, 2)
           /\ Bits(255 - x, 4, 4) # Bits(x, 4, 4) /\ Bits(255 - x, 0, 3) # Bits(x, 0, 3)
           /\ Bits(255 - x, 3, 1) # Bits(x, 3, 1)
BY DEF Bits

\* The bank of AOROM is within the field compared.
LEMMA Narrower ==
    ASSUME NEW x \in 0..255, NEW y \in 0..255, Bits(x, 0, 4) = Bits(y, 0, 4)
    PROVE  Bits(x, 0, 3) = Bits(y, 0, 3)
BY DEF Bits

-----------------------------------------------------------------------------
(* The map at power up                                                     *)

\* what default_reset_state leaves: the first and the last 16K, the first tiles
Default(k, c, m) ==
    /\ m \in Maps /\ m.prg = Prg2(0, -1) /\ m.chr = Chr8(0) /\ m.nt = DefaultNt(c)
    /\ k \notin {"MMC2", "MMC4"} => m.ex = Chr0

\* default_reset_state gives the map at power up and leaves $6000 alone.
LEMMA DefaultIs ==
    ASSUME NEW m \in Maps, kind \notin {"MMC2", "MMC4"} => m.ex = Chr0
    PROVE  Default(kind, cart, DefaultMap(m)) /\ DefaultMap(m).low = m.low
<1> DEFINE n == IF Bit(cart, 3) THEN Full(m) ELSE IF Bit(cart, 0) THEN Vert(m, 0) ELSE Horiz(m, 0)
<1>1. OnlyNt(n, m) /\ n.nt = DefaultNt(cart)
  <2>1. CASE Bit(cart, 3)
    BY <2>1, Mirroring DEF DefaultNt
  <2>2. CASE ~Bit(cart, 3) /\ Bit(cart, 0)
    <3>1. OnlyNt(Vert(m, 0), m) /\ Vert(m, 0).nt = <<0, 1 - 0, 0, 1 - 0>>
      BY Mirroring
    <3> QED  BY <2>2, <3>1 DEF DefaultNt, MirrorNt, VertNt
  <2>3. CASE ~Bit(cart, 3) /\ ~Bit(cart, 0)
    <3>1. OnlyNt(Horiz(m, 0), m) /\ Horiz(m, 0).nt = <<0, 0, 1 - 0, 1 - 0>>
      BY Mirroring
    <3> QED  BY <2>3, <3>1 DEF DefaultNt, MirrorNt, HorizNt
  <2> QED  BY <2>1, <2>2, <2>3
<1> DEFINE b == SetChr(n, 0, 8, 0)
<1> DEFINE a == SetPrg(SetPrg(b, 0, 2, 0), 2, 2, -1)
<1>2. DefaultMap(m) = a
  BY DEF DefaultMap
<1> HIDE DEF n
<1>3. OnlyChr(b, n) /\ b.chr = Chr8(0)
  <2>1. n \in Maps
    BY <1>1 DEF OnlyNt
  <2> QED  BY <2>1, SetChr8
<1> HIDE DEF b
<1>4. OnlyPrg(a, b) /\ a.prg = Prg2(0, -1)
  <2>1. b \in Maps
    BY <1>3 DEF OnlyChr
  <2> QED  BY <2>1, SetPrgBoth
<1> HIDE DEF a
<1> QED  BY <1>1, <1>2, <1>3, <1>4 DEF Default, OnlyNt, OnlyChr, OnlyPrg

-----------------------------------------------------------------------------
(* What following the registers means for each board: Follows, with the    *)
(* board's own row of each table.                                          *)

LEMMA FollowsNROM ==
    ASSUME NEW c, NEW m, NEW r
    PROVE  Follows("NROM", c, m, r) <=>
           /\ m.prg = Prg2(0, -1)
           /\ m.ex = Chr0
           /\ m.chr = Chr8(0)
           /\ m.nt = DefaultNt(c)
BY DEF Follows, PrgOf, ChrOf, ExOf, NtOf, LowOf, Decides

LEMMA FollowsUNROM ==
    ASSUME NEW c, NEW m, NEW r
    PROVE  Follows("UNROM", c, m, r) <=>
           /\ m.prg = Prg2(r[0], -1)
           /\ m.ex = Chr0
           /\ m.chr = Chr8(0)
           /\ m.nt = DefaultNt(c)
           /\ Seen(m).low = <<"sram">>
BY DEF Follows, PrgOf, ChrOf, ExOf, NtOf, LowOf, Decides

LEMMA FollowsAOROM ==
    ASSUME NEW c, NEW m, NEW r
    PROVE  Follows("AOROM", c, m, r) <=>
           /\ m.prg = Prg4(Bits(r[0], 0, 3))
           /\ m.ex = Chr0
           /\ m.chr = Chr8(0)
           /\ m.nt = SingleNt(Bits(r[0], 4, 1))
BY DEF Follows, PrgOf, ChrOf, ExOf, NtOf, LowOf, Decides

LEMMA FollowsCNROM ==
    ASSUME NEW c, NEW m, NEW r
    PROVE  Follows("CNROM", c, m, r) <=>
           /\ m.prg = Prg2(0, -1)
           /\ m.ex = Chr0
           /\ m.chr = Chr8(Bits(r[0], 0, 3))
           /\ m.nt = DefaultNt(c)
BY DEF Follows, PrgOf, ChrOf, ExOf, NtOf, LowOf, Decides

LEMMA FollowsNina1 ==
    ASSUME NEW c, NEW m, NEW r
    PROVE  Follows("Nina1", c, m, r) <=>
           /\ m.prg = Prg4(r[0])
           /\ m.ex = Chr0
           /\ m.chr = Chr8(0)
           /\ m.nt = DefaultNt(c)
BY DEF Follows, PrgOf, ChrOf, ExOf, NtOf, LowOf, Decides

LEMMA FollowsGNROM ==
    ASSUME NEW c, NEW m, NEW r
    PROVE  Follows("GNROM", c, m, r) <=>
           /\ m.prg = Prg4(Bits(r[0], 4, 2))
           /\ m.ex = Chr0
           /\ m.chr = Chr8(Bits(r[0], 0, 2))
           /\ m.nt = DefaultNt(c)
BY DEF Follows, PrgOf, ChrOf, ExOf, NtOf, LowOf, Decides

LEMMA FollowsColorDreams ==
    ASSUME NEW c, NEW m, NEW r
    PROVE  Follows("ColorDreams", c, m, r) <=>
           /\ m.prg = Prg4(Bits(r[0], 0, 4))
           /\ m.ex = Chr0
           /\ m.chr = Chr8(Bits(r[0], 4, 4))
           /\ m.nt = DefaultNt(c)
BY DEF Follows, PrgOf, ChrOf, ExOf, NtOf, LowOf, Decides

LEMMA FollowsM87 ==
    ASSUME NEW c, NEW m, NEW r
    PROVE  Follows("M87", c, m, r) <=>
           /\ m.prg = Prg2(0, -1)
           /\ m.ex = Chr0
           /\ m.nt = DefaultNt(c)
BY DEF Follows, PrgOf, ChrOf, ExOf, NtOf, LowOf, Decides

LEMMA FollowsCamerica ==
    ASSUME NEW c, NEW m, NEW r
    PROVE  Follows("Camerica", c, m, r) <=>
           /\ m.prg = Prg2(r[0], -1)
           /\ m.ex = Chr0
           /\ m.chr = Chr8(0)
           /\ m.nt = (IF Bit(r[1], 7) THEN SingleNt(Bits(r[1], 4, 1)) ELSE DefaultNt(c))
BY DEF Follows, PrgOf, ChrOf, ExOf, NtOf, LowOf, Decides

LEMMA FollowsQuattro ==
    ASSUME NEW c, NEW m, NEW r
    PROVE  Follows("Quattro", c, m, r) <=>
           /\ m.prg = Prg2(4 * Bits(r[0], 3, 2) + Bits(r[1], 0, 2), 4 * Bits(r[0], 3, 2) + 3)
           /\ m.ex = Chr0
           /\ m.chr = Chr8(0)
           /\ m.nt = DefaultNt(c)
BY DEF Follows, PrgOf, ChrOf, ExOf, NtOf, LowOf, Decides

LEMMA FollowsM78 ==
    ASSUME NEW c, NEW m, NEW r
    PROVE  Follows("M78", c, m, r) <=>
           /\ m.prg = Prg2(Bits(r[0], 0, 3), -1)
           /\ m.ex = Chr0
           /\ m.chr = Chr8(Bits(r[0], 4, 4))
           /\ m.nt = M78Nt(r)
BY DEF Follows, PrgOf, ChrOf, ExOf, NtOf, LowOf, Decides

LEMMA FollowsMMC1 ==
    ASSUME NEW c, NEW m, NEW r
    PROVE  Follows("MMC1", c, m, r) <=>
           /\ m.prg = Mmc1PrgOf(r)
           /\ m.ex = Chr0
           /\ m.chr = Mmc1ChrOf(r)
           /\ m.nt = Mmc1NtOf(r)
           /\ Seen(m).low = <<"sram">>
BY DEF Follows, PrgOf, ChrOf, ExOf, NtOf, LowOf, Decides

LEMMA FollowsMMC2 ==
    ASSUME NEW c, NEW m, NEW r
    PROVE  Follows("MMC2", c, m, r) <=>
           /\ m.prg = Prg1(r[0], 13, 14, 15)
           /\ m.ex = Chr4(r[2], r[4])
           /\ m.chr = Chr4(r[1], r[3])
           /\ m.nt = MirrorNt(Bit(r[5], 0))
BY DEF Follows, PrgOf, ChrOf, ExOf, NtOf, LowOf, Decides

LEMMA FollowsMMC4 ==
    ASSUME NEW c, NEW m, NEW r
    PROVE  Follows("MMC4", c, m, r) <=>
           /\ m.prg = Prg2(r[0], -1)
           /\ m.ex = Chr4(r[2], r[4])
           /\ m.chr = Chr4(r[1], r[3])
           /\ m.nt = MirrorNt(Bit(r[5], 0))
           /\ Seen(m).low = <<"sram">>
BY DEF Follows, PrgOf, ChrOf, ExOf, NtOf, LowOf, Decides

LEMMA FollowsMMC3 ==
    ASSUME NEW c, NEW m, NEW r
    PROVE  Follows("MMC3", c, m, r) <=>
           /\ m.prg = Mmc3PrgOf(r)
           /\ m.ex = Chr0
           /\ m.chr = Mmc3ChrOf(r)
           /\ m.nt = (IF Bit(c, 3) THEN DefaultNt(c) ELSE MirrorNt(Bit(r[9], 0)))
           /\ Seen(m).low = Mmc3LowOf(r)
BY DEF Follows, PrgOf, ChrOf, ExOf, NtOf, LowOf, Decides

LEMMA FollowsFME7 ==
    ASSUME NEW c, NEW m, NEW r
    PROVE  Follows("FME7", c, m, r) <=>
           /\ m.prg = Prg1(r[9], r[10], r[11], -1)
           /\ m.ex = Chr0
           /\ m.chr = Chr1(r)
           /\ m.nt = Fme7NtOf(r)
           /\ Seen(m).low = Fme7LowOf(r)
BY DEF Follows, PrgOf, ChrOf, ExOf, NtOf, LowOf, Decides

LEMMA FollowsNamco ==
    ASSUME NEW c, NEW m, NEW r
    PROVE  Follows("Namco", c, m, r) <=>
           /\ m.prg = Prg1(Bits(r[12], 0, 6), Bits(r[13], 0, 6), Bits(r[14], 0, 6), -1)
           /\ m.ex = Chr0
           /\ m.chr = Chr1(r)
           /\ Seen(m).low = <<"sram">>
BY DEF Follows, PrgOf, ChrOf, ExOf, NtOf, LowOf, Decides

LEMMA FollowsVRC6 ==
    ASSUME NEW c, NEW m, NEW r
    PROVE  Follows("VRC6", c, m, r) <=>
           /\ m.prg = Vrc6PrgOf(r)
           /\ m.ex = Chr0
           /\ m.chr = Chr1(r)
           /\ m.nt = Vrc6NtOf(r)
           /\ Seen(m).low = <<"sram">>
BY DEF Follows, PrgOf, ChrOf, ExOf, NtOf, LowOf, Decides

-----------------------------------------------------------------------------
(* The simple boards: apply_mapping and each write give the map of the     *)
(* registers, from the one at power up or one that was theirs already.     *)

\* a map that follows, and one that apply_mapping may start from
Good(k, c, m, r)  == m \in Maps /\ Follows(k, c, m, r)
Start(k, c, m, r) == Default(k, c, m) \/ Good(k, c, m, r)

\* UNROM: apply_mapping, and a write, which leaves $6000 alone.
LEMMA UnromGood ==
    ASSUME NEW c, NEW m, NEW r \in Regs
    PROVE  /\ Start("UNROM", c, m, r) => Good("UNROM", c, Unrom(m, r), r)
           /\ \A s : Good("UNROM", c, m, s) => Good("UNROM", c, SetPrg(m, 0, 2, r[0]), r)
<1>1. r[0] \in Int
  BY RegsAre
<1>2. ASSUME Start("UNROM", c, m, r) PROVE Good("UNROM", c, Unrom(m, r), r)
  <2>1. /\ m \in Maps /\ m.chr = Chr8(0) /\ m.ex = Chr0 /\ m.nt = DefaultNt(c)
        /\ m.prg = Prg2(0, -1) \/ m.prg = Prg2(r[0], -1)
    BY <1>2, FollowsUNROM DEF Start, Default, Good
  <2>2. PICK low : m.prg = Prg2(low, -1)
    BY <2>1
  <2> DEFINE b == Sram(m)  a == SetPrg(b, 0, 2, r[0])
  <2>3. OnlyLow(b, m) /\ b.low = <<"sram">>
    BY <2>1, Low
  <2> HIDE DEF b
  <2>4. OnlyPrg(a, b) /\ a.prg = Prg2(r[0], -1)
    <3>1. b \in Maps /\ b.prg = Prg2(low, -1)
      BY <2>2, <2>3 DEF OnlyLow
    <3> QED  BY <1>1, <3>1, SetPrgLower
  <2> HIDE DEF a
  <2>5. a \in Maps /\ a.low = <<"sram">> /\ a.chr = Chr8(0) /\ a.ex = Chr0 /\ a.nt = DefaultNt(c)
    BY <2>1, <2>3, <2>4 DEF OnlyPrg, OnlyLow
  <2>6. Seen(a).low = <<"sram">>
    BY <2>5, SeenLow
  <2>7. Good("UNROM", c, a, r)
    BY <2>4, <2>5, <2>6, FollowsUNROM DEF Good
  <2> QED  BY <2>7 DEF Unrom, a, b
<1>3. ASSUME NEW s, Good("UNROM", c, m, s) PROVE Good("UNROM", c, SetPrg(m, 0, 2, r[0]), r)
  <2>1. /\ m \in Maps /\ m.chr = Chr8(0) /\ m.ex = Chr0 /\ m.nt = DefaultNt(c)
        /\ m.prg = Prg2(s[0], -1) /\ Seen(m).low = <<"sram">>
    BY <1>3, FollowsUNROM DEF Good
  <2> DEFINE a == SetPrg(m, 0, 2, r[0])
  <2>2. OnlyPrg(a, m) /\ a.prg = Prg2(r[0], -1)
    BY <1>1, <2>1, SetPrgLower
  <2> HIDE DEF a
  <2>3. Seen(a).low = Seen(m).low
    BY <2>1, <2>2, SeenFields DEF OnlyPrg
  <2>4. Good("UNROM", c, a, r)
    BY <2>1, <2>2, <2>3, FollowsUNROM DEF Good, OnlyPrg
  <2> QED  BY <2>4 DEF a
<1> QED  BY <1>2, <1>3

\* The updates of AOROM: where what a write compares has not changed, the
\* map has what it should.
LEMMA AoromGood ==
    ASSUME NEW c, NEW m \in Maps, NEW r \in Regs, NEW old \in 0..255,
           m.chr = Chr8(0), m.ex = Chr0,
           Bits(old, 4, 1) = Bits(r[0], 4, 1) => m.nt = SingleNt(Bits(old, 4, 1)),
           Bits(old, 0, 4) = Bits(r[0], 0, 4) => m.prg = Prg4(Bits(old, 0, 3))
    PROVE  Good("AOROM", c, Aorom(m, r, old), r)
<1> DEFINE n == IF Bit(old, 4) # Bit(r[0], 4) THEN Single(m, Bits(r[0], 4, 1)) ELSE m
<1> DEFINE a == IF Bits(old, 0, 4) # Bits(r[0], 0, 4) THEN SetPrg(n, 0, 4, Bits(r[0], 0, 3)) ELSE n
<1>1. /\ r[0] \in 0..255 /\ Bits(r[0], 4, 1) \in 0..1 /\ Bits(old, 4, 1) \in 0..1
      /\ Bits(r[0], 0, 3) \in Int
  <2>1. r[0] \in 0..255
    BY RegsAre
  <2>2. r[0] \in Nat /\ old \in Nat
    BY <2>1
  <2>3. Bits(r[0], 4, 1) \in 0..1 /\ Bits(r[0], 0, 3) \in 0..7
    BY <2>2, BitsAre
  <2>4. Bits(old, 4, 1) \in 0..1
    BY <2>2, BitsAre
  <2> QED  BY <2>1, <2>3, <2>4
<1>2. (Bit(old, 4) # Bit(r[0], 4)) <=> Bits(old, 4, 1) # Bits(r[0], 4, 1)
  BY <1>1 DEF Bit
<1>3. OnlyNt(n, m) /\ n.nt = SingleNt(Bits(r[0], 4, 1))
  <2>1. CASE Bit(old, 4) # Bit(r[0], 4)
    BY <1>1, <2>1, Mirroring
  <2>2. CASE ~(Bit(old, 4) # Bit(r[0], 4))
    BY <1>2, <2>2 DEF OnlyNt
  <2> QED  BY <2>1, <2>2
<1> HIDE DEF n
<1>4. OnlyPrg(a, n) /\ a.prg = Prg4(Bits(r[0], 0, 3))
  <2>1. n \in Maps /\ n.prg = m.prg
    BY <1>3 DEF OnlyNt
  <2>2. CASE Bits(old, 0, 4) # Bits(r[0], 0, 4)
    BY <1>1, <2>1, <2>2, SetPrg4
  <2>3. CASE Bits(old, 0, 4) = Bits(r[0], 0, 4)
    <3>1. Bits(old, 0, 3) = Bits(r[0], 0, 3)
      BY <1>1, <2>3, Narrower
    <3> QED  BY <2>1, <2>3, <3>1 DEF OnlyPrg
  <2> QED  BY <2>2, <2>3
<1> HIDE DEF a
<1>5. Good("AOROM", c, a, r)
  BY <1>3, <1>4, FollowsAOROM DEF Good, OnlyPrg, OnlyNt
<1> QED  BY <1>5 DEF Aorom, a, n

\* CNROM, whose write is its apply_mapping.
LEMMA CnromGood ==
    ASSUME NEW c, NEW m, NEW r \in Regs, NEW s, Default("CNROM", c, m) \/ Good("CNROM", c, m, s)
    PROVE  Good("CNROM", c, Cnrom(m, r), r)
<1>1. m \in Maps /\ m.prg = Prg2(0, -1) /\ m.ex = Chr0 /\ m.nt = DefaultNt(c)
  BY FollowsCNROM DEF Default, Good
<1>2. Bits(r[0], 0, 3) \in Nat
  BY RegsAre, BitsAre
<1> DEFINE a == SetChr(m, 0, 8, Bits(r[0], 0, 3))
<1>3. OnlyChr(a, m) /\ a.chr = Chr8(Bits(r[0], 0, 3))
  BY <1>1, <1>2, SetChr8
<1> HIDE DEF a
<1>4. Good("CNROM", c, a, r)
  BY <1>1, <1>3, FollowsCNROM DEF Good, OnlyChr
<1> QED  BY <1>4 DEF Cnrom, a

\* Nina-1, the same way.
LEMMA Nina1Good ==
    ASSUME NEW c, NEW m, NEW r \in Regs, NEW s, Default("Nina1", c, m) \/ Good("Nina1", c, m, s)
    PROVE  Good("Nina1", c, Nina1(m, r), r)
<1>1. m \in Maps /\ m.chr = Chr8(0) /\ m.ex = Chr0 /\ m.nt = DefaultNt(c)
  BY FollowsNina1 DEF Default, Good
<1>2. r[0] \in Int
  BY RegsAre
<1> DEFINE a == SetPrg(m, 0, 4, r[0])
<1>3. OnlyPrg(a, m) /\ a.prg = Prg4(r[0])
  BY <1>1, <1>2, SetPrg4
<1> HIDE DEF a
<1>4. Good("Nina1", c, a, r)
  BY <1>1, <1>3, FollowsNina1 DEF Good, OnlyPrg
<1> QED  BY <1>4 DEF Nina1, a

\* GNROM: two banks in one register, each updated where its field changed.
LEMMA GnromGood ==
    ASSUME NEW c, NEW m \in Maps, NEW r \in Regs, NEW old \in 0..255,
           m.ex = Chr0, m.nt = DefaultNt(c),
           Bits(old, 4, 2) = Bits(r[0], 4, 2) => m.prg = Prg4(Bits(old, 4, 2)),
           Bits(old, 0, 2) = Bits(r[0], 0, 2) => m.chr = Chr8(Bits(old, 0, 2))
    PROVE  Good("GNROM", c, Gnrom(m, r, old), r)
<1> DEFINE n == IF Bits(old, 4, 2) # Bits(r[0], 4, 2) THEN SetPrg(m, 0, 4, Bits(r[0], 4, 2)) ELSE m
<1> DEFINE a == IF Bits(old, 0, 2) # Bits(r[0], 0, 2) THEN SetChr(n, 0, 8, Bits(r[0], 0, 2)) ELSE n
<1>1. Bits(r[0], 4, 2) \in Int /\ Bits(r[0], 0, 2) \in Nat
  BY RegsAre, BitsAre
<1>2. OnlyPrg(n, m) /\ n.prg = Prg4(Bits(r[0], 4, 2))
  <2>1. CASE Bits(old, 4, 2) # Bits(r[0], 4, 2)
    BY <1>1, <2>1, SetPrg4
  <2>2. CASE Bits(old, 4, 2) = Bits(r[0], 4, 2)
    BY <2>2 DEF OnlyPrg
  <2> QED  BY <2>1, <2>2
<1> HIDE DEF n
<1>3. OnlyChr(a, n) /\ a.chr = Chr8(Bits(r[0], 0, 2))
  <2>1. n \in Maps /\ n.chr = m.chr
    BY <1>2 DEF OnlyPrg
  <2>2. CASE Bits(old, 0, 2) # Bits(r[0], 0, 2)
    BY <1>1, <2>1, <2>2, SetChr8
  <2>3. CASE Bits(old, 0, 2) = Bits(r[0], 0, 2)
    BY <2>1, <2>3 DEF OnlyChr
  <2> QED  BY <2>2, <2>3
<1> HIDE DEF a
<1>4. Good("GNROM", c, a, r)
  BY <1>2, <1>3, FollowsGNROM DEF Good, OnlyPrg, OnlyChr
<1> QED  BY <1>4 DEF Gnrom, a, n

\* Color Dreams, with the fields the other way round.
LEMMA ColorDreamsGood ==
    ASSUME NEW c, NEW m \in Maps, NEW r \in Regs, NEW old \in 0..255,
           m.ex = Chr0, m.nt = DefaultNt(c),
           Bits(old, 0, 4) = Bits(r[0], 0, 4) => m.prg = Prg4(Bits(old, 0, 4)),
           Bits(old, 4, 4) = Bits(r[0], 4, 4) => m.chr = Chr8(Bits(old, 4, 4))
    PROVE  Good("ColorDreams", c, ColorDreams(m, r, old), r)
<1> DEFINE n == IF Bits(old, 0, 4) # Bits(r[0], 0, 4) THEN SetPrg(m, 0, 4, Bits(r[0], 0, 4)) ELSE m
<1> DEFINE a == IF Bits(old, 4, 4) # Bits(r[0], 4, 4) THEN SetChr(n, 0, 8, Bits(r[0], 4, 4)) ELSE n
<1>1. Bits(r[0], 0, 4) \in Int /\ Bits(r[0], 4, 4) \in Nat
  BY RegsAre, BitsAre
<1>2. OnlyPrg(n, m) /\ n.prg = Prg4(Bits(r[0], 0, 4))
  <2>1. CASE Bits(old, 0, 4) # Bits(r[0], 0, 4)
    BY <1>1, <2>1, SetPrg4
  <2>2. CASE Bits(old, 0, 4) = Bits(r[0], 0, 4)
    BY <2>2 DEF OnlyPrg
  <2> QED  BY <2>1, <2>2
<1> HIDE DEF n
<1>3. OnlyChr(a, n) /\ a.chr = Chr8(Bits(r[0], 4, 4))
  <2>1. n \in Maps /\ n.chr = m.chr
    BY <1>2 DEF OnlyPrg
  <2>2. CASE Bits(old, 4, 4) # Bits(r[0], 4, 4)
    BY <1>1, <2>1, <2>2, SetChr8
  <2>3. CASE Bits(old, 4, 4) = Bits(r[0], 4, 4)
    BY <2>1, <2>3 DEF OnlyChr
  <2> QED  BY <2>2, <2>3
<1> HIDE DEF a
<1>4. Good("ColorDreams", c, a, r)
  BY <1>2, <1>3, FollowsColorDreams DEF Good, OnlyPrg, OnlyChr
<1> QED  BY <1>4 DEF ColorDreams, a, n

\* Mapper 87: only its write sets the tiles, which its state does not restore.
LEMMA M87Good ==
    ASSUME NEW c, NEW m, NEW r \in Regs, NEW s, Good("M87", c, m, s)
    PROVE  Good("M87", c, M87(m, r), r)
<1>1. m \in Maps /\ m.prg = Prg2(0, -1) /\ m.ex = Chr0 /\ m.nt = DefaultNt(c)
  BY FollowsM87 DEF Good
<1>2. r[0] \div 2 \in Nat
  BY RegsAre
<1> DEFINE a == SetChr(m, 0, 8, r[0] \div 2)
<1>3. OnlyChr(a, m)
  BY <1>1, <1>2, SetChr8
<1> HIDE DEF a
<1>4. Good("M87", c, a, r)
  BY <1>1, <1>3, FollowsM87 DEF Good, OnlyChr
<1> QED  BY <1>4 DEF M87, a

\* The second register counts from its first write on, the first always.
LEMMA CamericaGood ==
    ASSUME NEW c, NEW m, NEW r \in Regs, Start("Camerica", c, m, r)
    PROVE  Good("Camerica", c, Camerica(m, r), r)
<1>1. /\ m \in Maps /\ m.chr = Chr8(0) /\ m.ex = Chr0 /\ (~Bit(r[1], 7) => m.nt = DefaultNt(c))
      /\ m.prg = Prg2(0, -1) \/ m.prg = Prg2(r[0], -1)
  BY FollowsCamerica DEF Start, Default, Good
<1>2. PICK low : m.prg = Prg2(low, -1)
  BY <1>1
<1>3. r[0] \in Int /\ Bits(r[1], 4, 1) \in 0..1
  BY RegsAre, BitsAre
<1> DEFINE n == SetPrg(m, 0, 2, r[0])
<1> DEFINE a == IF Bit(r[1], 7) THEN Single(n, Bits(r[1], 4, 1)) ELSE n
<1>4. OnlyPrg(n, m) /\ n.prg = Prg2(r[0], -1)
  BY <1>1, <1>2, <1>3, SetPrgLower
<1> HIDE DEF n
<1>5. OnlyNt(a, n) /\ (IF Bit(r[1], 7) THEN a.nt = SingleNt(Bits(r[1], 4, 1)) ELSE a.nt = n.nt)
  <2>1. n \in Maps
    BY <1>4 DEF OnlyPrg
  <2>2. CASE Bit(r[1], 7)
    BY <1>3, <2>1, <2>2, Mirroring
  <2>3. CASE ~Bit(r[1], 7)
    BY <2>1, <2>3 DEF OnlyNt
  <2> QED  BY <2>2, <2>3
<1> HIDE DEF a
<1>6. a.nt = (IF Bit(r[1], 7) THEN SingleNt(Bits(r[1], 4, 1)) ELSE DefaultNt(c))
  BY <1>1, <1>4, <1>5 DEF OnlyPrg
<1>7. Good("Camerica", c, a, r)
  BY <1>1, <1>4, <1>5, <1>6, FollowsCamerica DEF Good, OnlyPrg, OnlyNt
<1> QED  BY <1>7 DEF Camerica, a, n

\* A write of the bank.
LEMMA CamericaBank ==
    ASSUME NEW c, NEW m, NEW s, NEW r \in Regs, Good("Camerica", c, m, s), r[1] = s[1]
    PROVE  Good("Camerica", c, SetPrg(m, 0, 2, r[0]), r)
<1>1. /\ m \in Maps /\ m.chr = Chr8(0) /\ m.ex = Chr0 /\ m.prg = Prg2(s[0], -1)
      /\ m.nt = (IF Bit(s[1], 7) THEN SingleNt(Bits(s[1], 4, 1)) ELSE DefaultNt(c))
  BY FollowsCamerica DEF Good
<1>2. r[0] \in Int
  BY RegsAre
<1> DEFINE a == SetPrg(m, 0, 2, r[0])
<1>3. OnlyPrg(a, m) /\ a.prg = Prg2(r[0], -1)
  BY <1>1, <1>2, SetPrgLower
<1> HIDE DEF a
<1>4. Good("Camerica", c, a, r)
  BY <1>1, <1>3, FollowsCamerica DEF Good, OnlyPrg
<1> QED  BY <1>4 DEF a

\* A write of the mirroring, which sets the bit that says so.
LEMMA CamericaMirror ==
    ASSUME NEW c, NEW m, NEW s, NEW r \in Regs, Good("Camerica", c, m, s), r[0] = s[0],
           Bit(r[1], 7)
    PROVE  Good("Camerica", c, Single(m, Bits(r[1], 4, 1)), r)
<1>1. m \in Maps /\ m.chr = Chr8(0) /\ m.ex = Chr0 /\ m.prg = Prg2(r[0], -1)
  BY FollowsCamerica DEF Good
<1>2. Bits(r[1], 4, 1) \in 0..1
  BY RegsAre, BitsAre
<1> DEFINE a == Single(m, Bits(r[1], 4, 1))
<1>3. OnlyNt(a, m) /\ a.nt = SingleNt(Bits(r[1], 4, 1))
  BY <1>1, <1>2, Mirroring
<1> HIDE DEF a
<1>4. Good("Camerica", c, a, r)
  BY <1>1, <1>3, FollowsCamerica DEF Good, OnlyNt
<1> QED  BY <1>4 DEF a

\* Quattro: any write sets both halves.
LEMMA QuattroGood ==
    ASSUME NEW c, NEW m, NEW s, NEW r \in Regs,
           Default("Quattro", c, m) \/ Good("Quattro", c, m, s)
    PROVE  Good("Quattro", c, Quattro(m, r), r)
<1>1. m \in Maps /\ m.chr = Chr8(0) /\ m.ex = Chr0 /\ m.nt = DefaultNt(c)
  BY FollowsQuattro DEF Default, Good
<1> DEFINE low  == 4 * Bits(r[0], 3, 2) + Bits(r[1], 0, 2)
           high == 4 * Bits(r[0], 3, 2) + 3
           a    == SetPrg(SetPrg(m, 0, 2, low), 2, 2, high)
<1>2. low \in Int /\ high \in Int
  <2>1. Bits(r[0], 3, 2) \in 0..3 /\ Bits(r[1], 0, 2) \in 0..3
    BY RegsAre, BitsAre
  <2> QED  BY <2>1
<1>3. Quattro(m, r) = a
  BY DEF Quattro
<1>4. Prg2(low, high) = Prg2(4 * Bits(r[0], 3, 2) + Bits(r[1], 0, 2), 4 * Bits(r[0], 3, 2) + 3)
  OBVIOUS
<1> HIDE DEF low, high
<1>5. OnlyPrg(a, m) /\ a.prg = Prg2(low, high)
  BY <1>1, <1>2, SetPrgBoth
<1> HIDE DEF a
<1>6. Good("Quattro", c, a, r)
  BY <1>1, <1>4, <1>5, FollowsQuattro DEF Good, OnlyPrg
<1> QED  BY <1>3, <1>6

\* Mapper 78: three fields, each updated where it changed.
LEMMA M78Good ==
    ASSUME NEW c, NEW m \in Maps, NEW r \in Regs, NEW old \in 0..255, NEW low,
           m.ex = Chr0, m.prg = Prg2(low, -1),
           Bits(old, 0, 3) = Bits(r[0], 0, 3) => low = Bits(old, 0, 3),
           Bits(old, 4, 4) = Bits(r[0], 4, 4) => m.chr = Chr8(Bits(old, 4, 4)),
           Bits(old, 3, 1) = Bits(r[0], 3, 1) => m.nt = M78Nt(r)
    PROVE  Good("M78", c, M78(m, r, old), r)
<1>1. Bits(r[0], 0, 3) \in Int /\ Bits(r[0], 4, 4) \in Nat /\ Bits(r[0], 3, 1) \in 0..1
  <2>1. r[0] \in Nat
    BY RegsAre
  <2>2. Bits(r[0], 0, 3) \in 0..7 /\ Bits(r[0], 4, 4) \in 0..15 /\ Bits(r[0], 3, 1) \in 0..1
    BY <2>1, BitsAre
  <2> QED  BY <2>2
<1> DEFINE n == IF Bits(old, 0, 3) # Bits(r[0], 0, 3) THEN SetPrg(m, 0, 2, Bits(r[0], 0, 3)) ELSE m
<1> DEFINE o == IF Bits(old, 4, 4) # Bits(r[0], 4, 4) THEN SetChr(n, 0, 8, Bits(r[0], 4, 4)) ELSE n
<1> DEFINE w == CASE r[1] = 1 -> Single(o, Bits(r[0], 3, 1))
                  [] r[1] = 2 -> MirrorBy(o, ~Bit(r[0], 3))
                  [] OTHER    -> Single(o, 1)
<1> DEFINE a == IF ~(Bits(old, 3, 1) # Bits(r[0], 3, 1)) THEN o ELSE w
<1>2. OnlyPrg(n, m) /\ n.prg = Prg2(Bits(r[0], 0, 3), -1)
  <2>1. CASE Bits(old, 0, 3) # Bits(r[0], 0, 3)
    BY <1>1, <2>1, SetPrgLower
  <2>2. CASE Bits(old, 0, 3) = Bits(r[0], 0, 3)
    BY <2>2 DEF OnlyPrg
  <2> QED  BY <2>1, <2>2
<1>3. M78(m, r, old) = a
  BY DEF M78
<1> HIDE DEF n
<1>4. OnlyChr(o, n) /\ o.chr = Chr8(Bits(r[0], 4, 4))
  <2>1. n \in Maps /\ n.chr = m.chr
    BY <1>2 DEF OnlyPrg
  <2>2. CASE Bits(old, 4, 4) # Bits(r[0], 4, 4)
    BY <1>1, <2>1, <2>2, SetChr8
  <2>3. CASE Bits(old, 4, 4) = Bits(r[0], 4, 4)
    BY <2>1, <2>3 DEF OnlyChr
  <2> QED  BY <2>2, <2>3
<1> HIDE DEF o
<1>5. OnlyNt(w, o) /\ w.nt = M78Nt(r)
  <2>1. o \in Maps
    BY <1>4 DEF OnlyChr
  <2>2. CASE r[1] = 1
    <3>1. w = Single(o, Bits(r[0], 3, 1)) /\ M78Nt(r) = SingleNt(Bits(r[0], 3, 1))
      BY <2>2 DEF M78Nt
    <3> HIDE DEF w
    <3> QED  BY <1>1, <2>1, <3>1, Mirroring
  <2>3. CASE r[1] = 2
    <3>1. w = MirrorBy(o, ~Bit(r[0], 3)) /\ M78Nt(r) = MirrorNt(~Bit(r[0], 3))
      BY <2>3 DEF M78Nt
    <3> DEFINE x == ~Bit(r[0], 3)
    <3>2. x \in BOOLEAN
      BY DEF Bit
    <3>3. w = MirrorBy(o, x) /\ M78Nt(r) = MirrorNt(x)
      BY <3>1
    <3> HIDE DEF w, x
    <3> QED  BY <2>1, <3>2, <3>3, Mirroring
  <2>4. CASE r[1] # 1 /\ r[1] # 2
    <3>1. w = Single(o, 1) /\ M78Nt(r) = SingleNt(1)
      BY <2>4 DEF M78Nt
    <3> HIDE DEF w
    <3> QED  BY <2>1, <3>1, Mirroring
  <2> QED  BY <2>2, <2>3, <2>4
<1> HIDE DEF w
<1>6. OnlyNt(a, o) /\ a.nt = M78Nt(r)
  <2>1. CASE Bits(old, 3, 1) # Bits(r[0], 3, 1)
    BY <1>5, <2>1
  <2>2. CASE Bits(old, 3, 1) = Bits(r[0], 3, 1)
    <3>1. a = o /\ o.nt = m.nt /\ o \in Maps
      BY <1>2, <1>4, <2>2 DEF OnlyPrg, OnlyChr
    <3> QED  BY <2>2, <3>1 DEF OnlyNt
  <2> QED  BY <2>1, <2>2
<1> HIDE DEF a
<1>7. Good("M78", c, a, r)
  BY <1>2, <1>4, <1>6, FollowsM78 DEF Good, OnlyPrg, OnlyChr, OnlyNt
<1> QED  BY <1>3, <1>7

-----------------------------------------------------------------------------
(* MMC1, MMC2 and MMC4                                                     *)

\* The banks of MMC1's PRG.
LEMMA Mmc1PrgIs ==
    ASSUME NEW m \in Maps, NEW r \in Regs
    PROVE  OnlyPrg(Mmc1Prg(m, r), m) /\ Mmc1Prg(m, r).prg = Mmc1PrgOf(r)
<1> DEFINE bank == 16 * Bits(r[1], 4, 1) + Bits(r[3], 0, 4)
           half == 16 * Bits(bank, 4, 1)
<1>1. bank \in Nat
  <2>1. r[1] \in Nat /\ r[3] \in Nat
    BY RegsAre
  <2>2. Bits(r[1], 4, 1) \in 0..1 /\ Bits(r[3], 0, 4) \in 0..15
    BY <2>1, BitsAre
  <2> QED  BY <2>2
<1>2. /\ Mmc1PrgOf(r) = (IF ~Bit(r[0], 3) THEN Prg4(bank \div 2)
                         ELSE IF Bit(r[0], 2) THEN Prg2(bank, half + 15) ELSE Prg2(half, bank))
      /\ Mmc1Prg(m, r) = (CASE ~Bit(r[0], 3) -> SetPrg(m, 0, 4, bank \div 2)
                            [] Bit(r[0], 3) /\ Bit(r[0], 2) ->
                                  SetPrg(SetPrg(m, 0, 2, bank), 2, 2, half + 15)
                            [] OTHER -> SetPrg(SetPrg(m, 0, 2, half), 2, 2, bank))
  BY DEF Mmc1PrgOf, Mmc1Prg
<1> HIDE DEF bank
<1>3. half \in Nat /\ half + 15 \in Int /\ bank \div 2 \in Int /\ bank \in Int
  <2>1. Bits(bank, 4, 1) \in 0..1
    BY <1>1, BitsAre
  <2> QED  BY <1>1, <2>1
<1> HIDE DEF half
<1>4. CASE ~Bit(r[0], 3)
  <2>1. Mmc1Prg(m, r) = SetPrg(m, 0, 4, bank \div 2) /\ Mmc1PrgOf(r) = Prg4(bank \div 2)
    BY <1>2, <1>4
  <2> QED  BY <1>3, <2>1, SetPrg4
<1>5. CASE Bit(r[0], 3) /\ Bit(r[0], 2)
  <2>1. /\ Mmc1Prg(m, r) = SetPrg(SetPrg(m, 0, 2, bank), 2, 2, half + 15)
        /\ Mmc1PrgOf(r) = Prg2(bank, half + 15)
    BY <1>2, <1>5
  <2> QED  BY <1>3, <2>1, SetPrgBoth
<1>6. CASE Bit(r[0], 3) /\ ~Bit(r[0], 2)
  <2>1. /\ Mmc1Prg(m, r) = SetPrg(SetPrg(m, 0, 2, half), 2, 2, bank)
        /\ Mmc1PrgOf(r) = Prg2(half, bank)
    BY <1>2, <1>6
  <2> QED  BY <1>3, <2>1, SetPrgBoth
<1> QED  BY <1>4, <1>5, <1>6

\* What register_changed leaves out for a register, it does not decide.
LEMMA Mmc1Good ==
    ASSUME NEW c, NEW m \in Maps, NEW r \in Regs, NEW reg \in 0..3,
           m.ex = Chr0, Seen(m).low = <<"sram">>,
           reg # 0 => m.nt = Mmc1NtOf(r), reg = 3 => m.chr = Mmc1ChrOf(r)
    PROVE  Good("MMC1", c, Mmc1(m, r, reg), r)
<1>1. /\ r[1] \in Nat /\ r[2] \in Nat /\ r[1] \div 2 \in Nat
      /\ Bits(r[0], 0, 2) \in 0..3 /\ (Bits(r[0], 0, 2) = 3) \in BOOLEAN
  <2>1. r[0] \in Nat /\ r[1] \in Nat /\ r[2] \in Nat
    BY RegsAre
  <2>2. Bits(r[0], 0, 2) \in 0..3
    BY <2>1, BitsAre
  <2> QED  BY <2>1, <2>2
<1> DEFINE mode == Bits(r[0], 0, 2)
           n == CASE reg # 0 -> m
                  [] reg = 0 /\ mode < 2 -> Single(m, mode)
                  [] OTHER -> MirrorBy(m, mode = 3)
           o == CASE reg = 3 -> n
                  [] reg # 3 /\ Bit(r[0], 4) -> SetChr(SetChr(n, 0, 4, r[1]), 4, 4, r[2])
                  [] OTHER -> SetChr(n, 0, 8, r[1] \div 2)
<1>2. Mmc1(m, r, reg) = Mmc1Prg(o, r)
  BY DEF Mmc1
<1>3. OnlyNt(n, m) /\ n.nt = Mmc1NtOf(r)
  <2>1. CASE reg # 0
    <3>1. n = m
      BY <2>1
    <3> HIDE DEF n
    <3> QED  BY <2>1, <3>1 DEF OnlyNt
  <2>2. CASE reg = 0 /\ mode < 2
    <3>1. n = Single(m, mode) /\ Mmc1NtOf(r) = SingleNt(mode) /\ mode \in 0..1
      BY <1>1, <2>2 DEF Mmc1NtOf
    <3> HIDE DEF n, mode
    <3> QED  BY <3>1, Mirroring
  <2>3. CASE reg = 0 /\ ~(mode < 2)
    <3> DEFINE x == mode = 3
    <3>1. n = MirrorBy(m, x) /\ Mmc1NtOf(r) = MirrorNt(x) /\ x \in BOOLEAN
      BY <1>1, <2>3 DEF Mmc1NtOf
    <3> HIDE DEF n, mode, x
    <3> QED  BY <3>1, Mirroring
  <2> QED  BY <2>1, <2>2, <2>3
<1> HIDE DEF n, mode
<1>4. n \in Maps
  BY <1>3 DEF OnlyNt
<1>5. OnlyChr(o, n) /\ o.chr = Mmc1ChrOf(r)
  <2>1. CASE reg = 3
    <3>1. o = n
      BY <2>1
    <3> HIDE DEF o
    <3> QED  BY <1>3, <1>4, <2>1, <3>1 DEF OnlyChr, OnlyNt
  <2>2. CASE reg # 3 /\ Bit(r[0], 4)
    <3>1. o = SetChr(SetChr(n, 0, 4, r[1]), 4, 4, r[2]) /\ Mmc1ChrOf(r) = Chr4(r[1], r[2])
      BY <2>2 DEF Mmc1ChrOf
    <3> HIDE DEF o
    <3> QED  BY <1>1, <1>4, <3>1, SetChrBoth
  <2>3. CASE reg # 3 /\ ~Bit(r[0], 4)
    <3>1. o = SetChr(n, 0, 8, r[1] \div 2) /\ Mmc1ChrOf(r) = Chr8(r[1] \div 2)
      BY <2>3 DEF Mmc1ChrOf
    <3> HIDE DEF o
    <3> QED  BY <1>1, <1>4, <3>1, SetChr8
  <2> QED  BY <2>1, <2>2, <2>3
<1> HIDE DEF o
<1> DEFINE a == Mmc1Prg(o, r)
<1>6. OnlyPrg(a, o) /\ a.prg = Mmc1PrgOf(r)
  <2>1. o \in Maps
    BY <1>5 DEF OnlyChr
  <2> QED  BY <2>1, Mmc1PrgIs
<1> HIDE DEF a
<1>7. a \in Maps /\ a.ex = Chr0 /\ a.chr = Mmc1ChrOf(r) /\ a.nt = Mmc1NtOf(r) /\ a.low = m.low
  BY <1>3, <1>5, <1>6 DEF OnlyNt, OnlyChr, OnlyPrg
<1>8. Seen(a).low = Seen(m).low
  BY <1>7, SeenFields
<1>9. Good("MMC1", c, a, r)
  BY <1>6, <1>7, <1>8, FollowsMMC1 DEF Good
<1> QED  BY <1>2, <1>9 DEF a

\* Both sets of tiles of MMC2 and MMC4.
LEMMA Mmc24ChrIs ==
    ASSUME NEW m \in Maps, NEW r \in Regs
    PROVE  LET a == Mmc24Chr(m, r) IN
           /\ a \in Maps /\ a.prg = m.prg /\ a.nt = m.nt /\ a.low = m.low
           /\ a.chr = Chr4(r[1], r[3]) /\ a.ex = Chr4(r[2], r[4])
<1>1. r[1] \in Nat /\ r[2] \in Nat /\ r[3] \in Nat /\ r[4] \in Nat
  BY RegsAre
<1> DEFINE n == SetChr(SetChr(m, 0, 4, r[1]), 4, 4, r[3])
           a == SetChrEx(SetChrEx(n, 0, 4, r[2]), 4, 4, r[4])
<1>2. OnlyChr(n, m) /\ n.chr = Chr4(r[1], r[3])
  BY <1>1, SetChrBoth
<1>3. Mmc24Chr(m, r) = a
  BY DEF Mmc24Chr
<1> HIDE DEF n
<1>4. OnlyEx(a, n) /\ a.ex = Chr4(r[2], r[4])
  <2>1. n \in Maps
    BY <1>2 DEF OnlyChr
  <2> QED  BY <1>1, <2>1, SetChrExBoth
<1> HIDE DEF a
<1> QED  BY <1>2, <1>3, <1>4 DEF OnlyChr, OnlyEx

\* MMC2 sets every part of the map, whatever it was.
LEMMA Mmc2Good ==
    ASSUME NEW c, NEW m \in Maps, NEW r \in Regs
    PROVE  Good("MMC2", c, Mmc2(m, r), r)
<1>1. r[0] \in Int /\ Bit(r[5], 0) \in BOOLEAN
  <2>1. Bit(r[5], 0) \in BOOLEAN
    BY DEF Bit
  <2> QED  BY <2>1, RegsAre
<1> DEFINE h == MirrorBy(m, Bit(r[5], 0))
<1>2. OnlyNt(h, m) /\ h.nt = MirrorNt(Bit(r[5], 0)) /\ h \in Maps
  <2>1. OnlyNt(h, m) /\ h.nt = MirrorNt(Bit(r[5], 0))
    BY <1>1, Mirroring
  <2> QED  BY <2>1 DEF OnlyNt
<1> HIDE DEF h
<1> DEFINE n == SetPrg(h, 0, 1, r[0])
<1>3. OnlyPrg(n, h) /\ n.prg[0] = PrgAt(1, r[0], 0) /\ n \in Maps
  <2>1. OnlyPrg(n, h) /\ n.prg[0] = PrgAt(1, r[0], 0)
    BY <1>1, <1>2, SetPrg1
  <2> QED  BY <2>1 DEF OnlyPrg
<1> HIDE DEF n
<1> DEFINE o == SetPrg(n, 1, 1, 13)
<1>4. /\ OnlyPrg(o, n) /\ o.prg[1] = PrgAt(1, 13, 0) /\ o \in Maps
      /\ \A p \in (0..3) \ {1} : o.prg[p] = n.prg[p]
  <2>1. /\ OnlyPrg(o, n) /\ o.prg[1] = PrgAt(1, 13, 0)
        /\ \A p \in (0..3) \ {1} : o.prg[p] = n.prg[p]
    BY <1>3, SetPrg1
  <2> QED  BY <2>1 DEF OnlyPrg
<1> HIDE DEF o
<1> DEFINE w == SetPrg(o, 2, 1, 14)
<1>5. /\ OnlyPrg(w, o) /\ w.prg[2] = PrgAt(1, 14, 0) /\ w \in Maps
      /\ \A p \in (0..3) \ {2} : w.prg[p] = o.prg[p]
  <2>1. /\ OnlyPrg(w, o) /\ w.prg[2] = PrgAt(1, 14, 0)
        /\ \A p \in (0..3) \ {2} : w.prg[p] = o.prg[p]
    BY <1>4, SetPrg1
  <2> QED  BY <2>1 DEF OnlyPrg
<1> HIDE DEF w
<1> DEFINE b == SetPrg(w, 3, 1, 15)
<1>6. /\ OnlyPrg(b, w) /\ b.prg[3] = PrgAt(1, 15, 0) /\ b \in Maps
      /\ \A p \in (0..3) \ {3} : b.prg[p] = w.prg[p]
  <2>1. /\ OnlyPrg(b, w) /\ b.prg[3] = PrgAt(1, 15, 0)
        /\ \A p \in (0..3) \ {3} : b.prg[p] = w.prg[p]
    BY <1>5, SetPrg1
  <2> QED  BY <2>1 DEF OnlyPrg
<1>7. Mmc2(m, r) = Mmc24Chr(b, r)
  BY DEF Mmc2, b, w, o, n, h
<1> HIDE DEF b
<1>8. b.prg = Prg1(r[0], 13, 14, 15)
  <2>1. b.prg \in [0..3 -> PrgBanks]
    BY <1>6, MapFields
  <2>2. /\ b.prg[0] = PrgAt(1, r[0], 0) /\ b.prg[1] = PrgAt(1, 13, 0)
        /\ b.prg[2] = PrgAt(1, 14, 0) /\ b.prg[3] = PrgAt(1, 15, 0)
    BY <1>3, <1>4, <1>5, <1>6
  <2> QED  BY <2>1, <2>2 DEF Prg1
<1>9. b.nt = MirrorNt(Bit(r[5], 0))
  BY <1>2, <1>3, <1>4, <1>5, <1>6 DEF OnlyPrg
<1> DEFINE a == Mmc24Chr(b, r)
<1>10. /\ a \in Maps /\ a.prg = b.prg /\ a.nt = b.nt /\ a.low = b.low
       /\ a.chr = Chr4(r[1], r[3]) /\ a.ex = Chr4(r[2], r[4])
  BY <1>6, Mmc24ChrIs
<1> HIDE DEF a
<1>11. Good("MMC2", c, a, r)
  BY <1>8, <1>9, <1>10, FollowsMMC2 DEF Good
<1> QED  BY <1>7, <1>11 DEF a

\* MMC4 sets all but the last 16K of PRG.
LEMMA Mmc4Good ==
    ASSUME NEW c, NEW m \in Maps, NEW r \in Regs, NEW low, m.prg = Prg2(low, -1)
    PROVE  Good("MMC4", c, Mmc4(m, r), r)
<1>1. r[0] \in Int /\ Bit(r[5], 0) \in BOOLEAN
  <2>1. Bit(r[5], 0) \in BOOLEAN
    BY DEF Bit
  <2> QED  BY <2>1, RegsAre
<1> DEFINE h == Sram(m)
<1>2. OnlyLow(h, m) /\ h.low = <<"sram">>
  BY Low
<1> HIDE DEF h
<1> DEFINE n == MirrorBy(h, Bit(r[5], 0))
<1>3. OnlyNt(n, h) /\ n.nt = MirrorNt(Bit(r[5], 0))
  <2>1. h \in Maps
    BY <1>2 DEF OnlyLow
  <2> QED  BY <1>1, <2>1, Mirroring
<1> HIDE DEF n
<1> DEFINE b == SetPrg(n, 0, 2, r[0])
<1>4. OnlyPrg(b, n) /\ b.prg = Prg2(r[0], -1)
  <2>1. n \in Maps /\ n.prg = Prg2(low, -1)
    BY <1>2, <1>3 DEF OnlyLow, OnlyNt
  <2> QED  BY <1>1, <2>1, SetPrgLower
<1>5. Mmc4(m, r) = Mmc24Chr(b, r)
  BY DEF Mmc4, b, n, h
<1> HIDE DEF b
<1>6. b \in Maps /\ b.nt = MirrorNt(Bit(r[5], 0)) /\ b.low = <<"sram">>
  BY <1>2, <1>3, <1>4 DEF OnlyPrg, OnlyNt, OnlyLow
<1> DEFINE a == Mmc24Chr(b, r)
<1>7. /\ a \in Maps /\ a.prg = b.prg /\ a.nt = b.nt /\ a.low = b.low
      /\ a.chr = Chr4(r[1], r[3]) /\ a.ex = Chr4(r[2], r[4])
  BY <1>6, Mmc24ChrIs
<1> HIDE DEF a
<1>8. Seen(a).low = <<"sram">>
  BY <1>6, <1>7, SeenLow
<1>9. Good("MMC4", c, a, r)
  BY <1>4, <1>6, <1>7, <1>8, FollowsMMC4 DEF Good
<1> QED  BY <1>5, <1>9 DEF a

\* A write to one of their registers changes its part.
LEMMA Mmc24WriteGood ==
    ASSUME kind \in {"MMC2", "MMC4"}, NEW c, NEW m, NEW s \in Regs, Good(kind, c, m, s),
           NEW i \in 0..5, NEW d \in 0..255, NEW r, Written(r, s, i, d)
    PROVE  Good(kind, c, Mmc24Write(m, r, i), r)
<1> DEFINE a == Mmc24Write(m, r, i)
<1>1. /\ m \in Maps /\ m.chr = Chr4(s[1], s[3]) /\ m.ex = Chr4(s[2], s[4])
      /\ m.nt = MirrorNt(Bit(s[5], 0))
      /\ m.prg = (IF kind = "MMC2" THEN Prg1(s[0], 13, 14, 15) ELSE Prg2(s[0], -1))
      /\ kind = "MMC4" => Seen(m).low = <<"sram">>
  BY FollowsMMC2, FollowsMMC4 DEF Good
<1>2. ASSUME NEW b \in Maps, b.low = m.low, b.chr = Chr4(r[1], r[3]), b.ex = Chr4(r[2], r[4]),
             b.nt = MirrorNt(Bit(r[5], 0)),
             b.prg = (IF kind = "MMC2" THEN Prg1(r[0], 13, 14, 15) ELSE Prg2(r[0], -1))
      PROVE  Good(kind, c, b, r)
  <2>1. Seen(b).low = Seen(m).low
    BY <1>1, <1>2, SeenFields
  <2> QED  BY <1>1, <1>2, <2>1, FollowsMMC2, FollowsMMC4 DEF Good
<1>3. r \in Regs /\ r[i] = d /\ d \in Nat /\ d \in Int /\ \A j \in (0..15) \ {i} : r[j] = s[j]
  BY DEF Written
<1>4. CASE i = 0
  <2>1. r[1] = s[1] /\ r[2] = s[2] /\ r[3] = s[3] /\ r[4] = s[4] /\ r[5] = s[5] /\ r[0] = d
    BY <1>3, <1>4
  <2>2. CASE kind = "MMC2"
    <3> DEFINE b == SetPrg(m, 0, 1, d)
    <3>1. /\ OnlyPrg(b, m) /\ b.prg[0] = PrgAt(1, d, 0)
          /\ \A p \in (0..3) \ {0} : b.prg[p] = m.prg[p]
      BY <1>1, <1>3, SetPrg1
    <3>2. a = b
      BY <1>4, <2>1, <2>2 DEF Mmc24Write
    <3> HIDE DEF a, b
    <3>3. b.prg \in [0..3 -> PrgBanks] /\ b \in Maps
      BY <3>1, MapFields DEF OnlyPrg
    <3>4. /\ b.prg[0] = PrgAt(1, d, 0) /\ b.prg[1] = PrgAt(1, 13, 0)
          /\ b.prg[2] = PrgAt(1, 14, 0) /\ b.prg[3] = PrgAt(1, 15, 0)
      BY <1>1, <2>2, <3>1 DEF Prg1
    <3>5. b.prg = Prg1(r[0], 13, 14, 15)
      BY <2>1, <3>3, <3>4 DEF Prg1
    <3>6. Good(kind, c, b, r)
      BY <1>1, <1>2, <2>1, <2>2, <3>1, <3>3, <3>5 DEF OnlyPrg
    <3> QED  BY <3>2, <3>6 DEF a
  <2>3. CASE kind = "MMC4"
    <3> DEFINE b == SetPrg(m, 0, 2, d)
    <3>1. OnlyPrg(b, m) /\ b.prg = Prg2(d, -1)
      BY <1>1, <1>3, <2>3, SetPrgLower
    <3>2. a = b
      BY <1>4, <2>1, <2>3 DEF Mmc24Write
    <3> HIDE DEF a, b
    <3>3. b \in Maps
      BY <3>1 DEF OnlyPrg
    <3>4. Good(kind, c, b, r)
      BY <1>1, <1>2, <2>1, <2>3, <3>1, <3>3 DEF OnlyPrg
    <3> QED  BY <3>2, <3>4 DEF a
  <2> QED  BY <2>2, <2>3
<1>5. CASE i = 1
  <2>1. r[0] = s[0] /\ r[2] = s[2] /\ r[3] = s[3] /\ r[4] = s[4] /\ r[5] = s[5] /\ r[1] = d
    BY <1>3, <1>5
  <2> DEFINE b == SetChr(m, 0, 4, d)
  <2>2. OnlyChr(b, m) /\ b.chr = Chr4(d, s[3])
    BY <1>1, <1>3, SetChrLower
  <2>3. a = b
    BY <1>5, <2>1 DEF Mmc24Write
  <2> HIDE DEF a, b
  <2>4. b \in Maps
    BY <2>2 DEF OnlyChr
  <2>5. Good(kind, c, b, r)
    BY <1>1, <1>2, <2>1, <2>2, <2>4 DEF OnlyChr
  <2> QED  BY <2>3, <2>5 DEF a
<1>6. CASE i = 2
  <2>1. r[0] = s[0] /\ r[1] = s[1] /\ r[3] = s[3] /\ r[4] = s[4] /\ r[5] = s[5] /\ r[2] = d
    BY <1>3, <1>6
  <2> DEFINE b == SetChrEx(m, 0, 4, d)
  <2>2. OnlyEx(b, m) /\ b.ex = Chr4(d, s[4])
    BY <1>1, <1>3, SetChrExLower
  <2>3. a = b
    BY <1>6, <2>1 DEF Mmc24Write
  <2> HIDE DEF a, b
  <2>4. b \in Maps
    BY <2>2 DEF OnlyEx
  <2>5. Good(kind, c, b, r)
    BY <1>1, <1>2, <2>1, <2>2, <2>4 DEF OnlyEx
  <2> QED  BY <2>3, <2>5 DEF a
<1>7. CASE i = 3
  <2>1. r[0] = s[0] /\ r[1] = s[1] /\ r[2] = s[2] /\ r[4] = s[4] /\ r[5] = s[5] /\ r[3] = d
    BY <1>3, <1>7
  <2> DEFINE b == SetChr(m, 4, 4, d)
  <2>2. OnlyChr(b, m) /\ b.chr = Chr4(s[1], d)
    BY <1>1, <1>3, SetChrUpper
  <2>3. a = b
    BY <1>7, <2>1 DEF Mmc24Write
  <2> HIDE DEF a, b
  <2>4. b \in Maps
    BY <2>2 DEF OnlyChr
  <2>5. Good(kind, c, b, r)
    BY <1>1, <1>2, <2>1, <2>2, <2>4 DEF OnlyChr
  <2> QED  BY <2>3, <2>5 DEF a
<1>8. CASE i = 4
  <2>1. r[0] = s[0] /\ r[1] = s[1] /\ r[2] = s[2] /\ r[3] = s[3] /\ r[5] = s[5] /\ r[4] = d
    BY <1>3, <1>8
  <2> DEFINE b == SetChrEx(m, 4, 4, d)
  <2>2. OnlyEx(b, m) /\ b.ex = Chr4(s[2], d)
    BY <1>1, <1>3, SetChrExUpper
  <2>3. a = b
    BY <1>8, <2>1 DEF Mmc24Write
  <2> HIDE DEF a, b
  <2>4. b \in Maps
    BY <2>2 DEF OnlyEx
  <2>5. Good(kind, c, b, r)
    BY <1>1, <1>2, <2>1, <2>2, <2>4 DEF OnlyEx
  <2> QED  BY <2>3, <2>5 DEF a
<1>9. CASE i = 5
  <2>1. r[0] = s[0] /\ r[1] = s[1] /\ r[2] = s[2] /\ r[3] = s[3] /\ r[4] = s[4]
    BY <1>3, <1>9
  <2> DEFINE x == Bit(r[5], 0)  b == MirrorBy(m, x)
  <2>2. x \in BOOLEAN
    BY DEF Bit
  <2>3. a = b
    BY <1>9 DEF Mmc24Write
  <2>4. MirrorNt(x) = MirrorNt(Bit(r[5], 0))
    OBVIOUS
  <2> HIDE DEF a, x
  <2>5. OnlyNt(b, m) /\ b.nt = MirrorNt(x)
    BY <1>1, <2>2, Mirroring
  <2> HIDE DEF b
  <2>6. b \in Maps
    BY <2>5 DEF OnlyNt
  <2>7. Good(kind, c, b, r)
    BY <1>1, <1>2, <2>1, <2>4, <2>5, <2>6 DEF OnlyNt
  <2> QED  BY <2>3, <2>7 DEF a
<1> QED  BY <1>4, <1>5, <1>6, <1>7, <1>8, <1>9

-----------------------------------------------------------------------------
(* MMC3                                                                    *)

\* Two banks of 2K and four of 1K, the halves as they lie.
SixTiles(m, h, b0, b1, b2, b3, b4, b5) ==
    SetChr(SetChr(SetChr(SetChr(SetChr(SetChr(m, h, 2, b0), h + 2, 2, b1),
        4 - h, 1, b2), 5 - h, 1, b3), 6 - h, 1, b4), 7 - h, 1, b5)
SixSet(a, m, h, b0, b1, b2, b3, b4, b5) ==
    /\ OnlyChr(a, m)
    /\ a.chr[h] = ChrAt(2, b0, 0) /\ a.chr[h + 1] = ChrAt(2, b0, 1)
    /\ a.chr[h + 2] = ChrAt(2, b1, 0) /\ a.chr[h + 3] = ChrAt(2, b1, 1)
    /\ a.chr[4 - h] = ChrAt(1, b2, 0) /\ a.chr[5 - h] = ChrAt(1, b3, 0)
    /\ a.chr[6 - h] = ChrAt(1, b4, 0) /\ a.chr[7 - h] = ChrAt(1, b5, 0)

\* The six banks of MMC3's tiles cover all eight pages.
LEMMA SixBanks ==
    ASSUME NEW m \in Maps, NEW h \in {0, 4},
           NEW b0 \in Nat, NEW b1 \in Nat, NEW b2 \in Nat, NEW b3 \in Nat, NEW b4 \in Nat, NEW b5 \in Nat
    PROVE  SixSet(SixTiles(m, h, b0, b1, b2, b3, b4, b5), m, h, b0, b1, b2, b3, b4, b5)
<1>0. /\ h \in 0..6 /\ h + 2 \in 0..6 /\ 4 - h \in 0..7 /\ 5 - h \in 0..7
      /\ 6 - h \in 0..7 /\ 7 - h \in 0..7
  OBVIOUS
<1> DEFINE x1 == SetChr(m, h, 2, b0)
<1>1. /\ OnlyChr(x1, m) /\ x1.chr[h] = ChrAt(2, b0, 0) /\ x1.chr[h + 1] = ChrAt(2, b0, 1)
      /\ x1 \in Maps
  <2>1. OnlyChr(x1, m) /\ x1.chr[h] = ChrAt(2, b0, 0) /\ x1.chr[h + 1] = ChrAt(2, b0, 1)
    BY <1>0, SetChr2
  <2> QED  BY <2>1 DEF OnlyChr
<1> HIDE DEF x1
<1> DEFINE q == h + 2  x2 == SetChr(x1, q, 2, b1)
<1>2. /\ OnlyChr(x2, x1) /\ x2.chr[q] = ChrAt(2, b1, 0) /\ x2.chr[q + 1] = ChrAt(2, b1, 1)
      /\ x2 \in Maps
      /\ \A p \in (0..7) \ {q, q + 1} : x2.chr[p] = x1.chr[p]
  <2>1. q \in 0..6
    BY <1>0
  <2> HIDE DEF q
  <2>2. /\ OnlyChr(x2, x1) /\ x2.chr[q] = ChrAt(2, b1, 0) /\ x2.chr[q + 1] = ChrAt(2, b1, 1)
        /\ \A p \in (0..7) \ {q, q + 1} : x2.chr[p] = x1.chr[p]
    BY <1>1, <2>1, SetChr2
  <2> QED  BY <2>2 DEF OnlyChr
<1> HIDE DEF x2
<1> DEFINE p3 == 4 - h  x3 == SetChr(x2, p3, 1, b2)
<1>3. /\ OnlyChr(x3, x2) /\ x3.chr[p3] = ChrAt(1, b2, 0) /\ x3 \in Maps
      /\ \A p \in (0..7) \ {p3} : x3.chr[p] = x2.chr[p]
  <2>1. p3 \in 0..7
    BY <1>0
  <2> HIDE DEF p3
  <2>2. /\ OnlyChr(x3, x2) /\ x3.chr[p3] = ChrAt(1, b2, 0)
        /\ \A p \in (0..7) \ {p3} : x3.chr[p] = x2.chr[p]
    BY <1>2, <2>1, SetChr1
  <2> QED  BY <2>2 DEF OnlyChr
<1> HIDE DEF x3
<1> DEFINE p4 == 5 - h  x4 == SetChr(x3, p4, 1, b3)
<1>4. /\ OnlyChr(x4, x3) /\ x4.chr[p4] = ChrAt(1, b3, 0) /\ x4 \in Maps
      /\ \A p \in (0..7) \ {p4} : x4.chr[p] = x3.chr[p]
  <2>1. p4 \in 0..7
    BY <1>0
  <2> HIDE DEF p4
  <2>2. /\ OnlyChr(x4, x3) /\ x4.chr[p4] = ChrAt(1, b3, 0)
        /\ \A p \in (0..7) \ {p4} : x4.chr[p] = x3.chr[p]
    BY <1>3, <2>1, SetChr1
  <2> QED  BY <2>2 DEF OnlyChr
<1> HIDE DEF x4
<1> DEFINE p5 == 6 - h  x5 == SetChr(x4, p5, 1, b4)
<1>5. /\ OnlyChr(x5, x4) /\ x5.chr[p5] = ChrAt(1, b4, 0) /\ x5 \in Maps
      /\ \A p \in (0..7) \ {p5} : x5.chr[p] = x4.chr[p]
  <2>1. p5 \in 0..7
    BY <1>0
  <2> HIDE DEF p5
  <2>2. /\ OnlyChr(x5, x4) /\ x5.chr[p5] = ChrAt(1, b4, 0)
        /\ \A p \in (0..7) \ {p5} : x5.chr[p] = x4.chr[p]
    BY <1>4, <2>1, SetChr1
  <2> QED  BY <2>2 DEF OnlyChr
<1> HIDE DEF x5
<1> DEFINE p6 == 7 - h  x6 == SetChr(x5, p6, 1, b5)
<1>6. /\ OnlyChr(x6, x5) /\ x6.chr[p6] = ChrAt(1, b5, 0) /\ x6 \in Maps
      /\ \A p \in (0..7) \ {p6} : x6.chr[p] = x5.chr[p]
  <2>1. p6 \in 0..7
    BY <1>0
  <2> HIDE DEF p6
  <2>2. /\ OnlyChr(x6, x5) /\ x6.chr[p6] = ChrAt(1, b5, 0)
        /\ \A p \in (0..7) \ {p6} : x6.chr[p] = x5.chr[p]
    BY <1>5, <2>1, SetChr1
  <2> QED  BY <2>2 DEF OnlyChr
<1> HIDE DEF x6
<1>7. x6 = SixTiles(m, h, b0, b1, b2, b3, b4, b5)
  BY DEF SixTiles, x1, x2, x3, x4, x5, x6, q, p3, p4, p5, p6
<1>8. OnlyChr(x6, m)
  BY <1>1, <1>2, <1>3, <1>4, <1>5, <1>6 DEF OnlyChr
<1>9. CASE h = 0
  <2>1. q = 2 /\ p3 = 4 /\ p4 = 5 /\ p5 = 6 /\ p6 = 7
    BY <1>9
  <2> HIDE DEF q, p3, p4, p5, p6
  <2>2. /\ x6.chr[0] = ChrAt(2, b0, 0) /\ x6.chr[1] = ChrAt(2, b0, 1)
        /\ x6.chr[2] = ChrAt(2, b1, 0) /\ x6.chr[3] = ChrAt(2, b1, 1)
        /\ x6.chr[4] = ChrAt(1, b2, 0) /\ x6.chr[5] = ChrAt(1, b3, 0)
        /\ x6.chr[6] = ChrAt(1, b4, 0) /\ x6.chr[7] = ChrAt(1, b5, 0)
    BY <1>1, <1>2, <1>3, <1>4, <1>5, <1>6, <1>9, <2>1
  <2>3. /\ h + 1 = 1 /\ h + 2 = 2 /\ h + 3 = 3 /\ 4 - h = 4 /\ 5 - h = 5 /\ 6 - h = 6 /\ 7 - h = 7
    BY <1>9
  <2>4. SixSet(x6, m, h, b0, b1, b2, b3, b4, b5)
    BY <1>8, <1>9, <2>2, <2>3 DEF SixSet
  <2> QED  BY <1>7, <2>4
<1>10. CASE h = 4
  <2>1. q = 6 /\ p3 = 0 /\ p4 = 1 /\ p5 = 2 /\ p6 = 3
    BY <1>10
  <2> HIDE DEF q, p3, p4, p5, p6
  <2>2. /\ x6.chr[4] = ChrAt(2, b0, 0) /\ x6.chr[5] = ChrAt(2, b0, 1)
        /\ x6.chr[6] = ChrAt(2, b1, 0) /\ x6.chr[7] = ChrAt(2, b1, 1)
        /\ x6.chr[0] = ChrAt(1, b2, 0) /\ x6.chr[1] = ChrAt(1, b3, 0)
        /\ x6.chr[2] = ChrAt(1, b4, 0) /\ x6.chr[3] = ChrAt(1, b5, 0)
    BY <1>1, <1>2, <1>3, <1>4, <1>5, <1>6, <1>10, <2>1
  <2>3. /\ h + 1 = 5 /\ h + 2 = 6 /\ h + 3 = 7 /\ 4 - h = 0 /\ 5 - h = 1 /\ 6 - h = 2 /\ 7 - h = 3
    BY <1>10
  <2>4. SixSet(x6, m, h, b0, b1, b2, b3, b4, b5)
    BY <1>8, <1>10, <2>2, <2>3 DEF SixSet
  <2> QED  BY <1>7, <2>4
<1> QED  BY <1>9, <1>10

\* update_chr_banks of MMC3.
LEMMA Mmc3ChrIs ==
    ASSUME NEW m \in Maps, NEW r \in Regs
    PROVE  OnlyChr(Mmc3Chr(m, r), m) /\ Mmc3Chr(m, r).chr = Mmc3ChrOf(r)
<1> DEFINE b0 == r[0] \div 2  b1 == r[1] \div 2
<1>1. /\ b0 \in Nat /\ b1 \in Nat /\ r[2] \in Nat /\ r[3] \in Nat /\ r[4] \in Nat /\ r[5] \in Nat
  BY RegsAre
<1> HIDE DEF b0, b1
<1>2. ASSUME NEW h \in {0, 4}
      PROVE  SixSet(SixTiles(m, h, b0, b1, r[2], r[3], r[4], r[5]),
                    m, h, b0, b1, r[2], r[3], r[4], r[5])
  BY <1>1, SixBanks
<1>3. CASE Bit(r[8], 7)
  <2> DEFINE a == SixTiles(m, 4, b0, b1, r[2], r[3], r[4], r[5])
  <2>1. SixSet(a, m, 4, b0, b1, r[2], r[3], r[4], r[5])
    BY <1>2
  <2>2. Mmc3Chr(m, r) = a
    BY <1>3 DEF Mmc3Chr, SixTiles, b0, b1
  <2> HIDE DEF a
  <2>3. /\ OnlyChr(a, m)
        /\ a.chr[4] = ChrAt(2, b0, 0) /\ a.chr[5] = ChrAt(2, b0, 1)
        /\ a.chr[6] = ChrAt(2, b1, 0) /\ a.chr[7] = ChrAt(2, b1, 1)
        /\ a.chr[0] = ChrAt(1, r[2], 0) /\ a.chr[1] = ChrAt(1, r[3], 0)
        /\ a.chr[2] = ChrAt(1, r[4], 0) /\ a.chr[3] = ChrAt(1, r[5], 0)
    BY <2>1 DEF SixSet
  <2>4. a.chr \in [0..7 -> ChrBanks]
    BY <2>3, MapFields DEF OnlyChr
  <2>5. \A p \in 0..7 : Mmc3ChrOf(r)[p] = (IF (p + 4) % 8 < 2 THEN ChrAt(2, b0, (p + 4) % 8)
            ELSE IF (p + 4) % 8 < 4 THEN ChrAt(2, b1, ((p + 4) % 8) - 2)
            ELSE ChrAt(1, r[((p + 4) % 8) - 2], 0))
    BY <1>3 DEF Mmc3ChrOf, b0, b1
  <2>6. \A p \in 0..7 : a.chr[p] = Mmc3ChrOf(r)[p]
    BY <2>3, <2>5
  <2>7. a.chr = Mmc3ChrOf(r)
    BY <2>4, <2>6 DEF Mmc3ChrOf
  <2> QED  BY <2>2, <2>3, <2>7 DEF a
<1>4. CASE ~Bit(r[8], 7)
  <2> DEFINE a == SixTiles(m, 0, b0, b1, r[2], r[3], r[4], r[5])
  <2>1. SixSet(a, m, 0, b0, b1, r[2], r[3], r[4], r[5])
    BY <1>2
  <2>2. Mmc3Chr(m, r) = a
    BY <1>4 DEF Mmc3Chr, SixTiles, b0, b1
  <2> HIDE DEF a
  <2>3. /\ OnlyChr(a, m)
        /\ a.chr[0] = ChrAt(2, b0, 0) /\ a.chr[1] = ChrAt(2, b0, 1)
        /\ a.chr[2] = ChrAt(2, b1, 0) /\ a.chr[3] = ChrAt(2, b1, 1)
        /\ a.chr[4] = ChrAt(1, r[2], 0) /\ a.chr[5] = ChrAt(1, r[3], 0)
        /\ a.chr[6] = ChrAt(1, r[4], 0) /\ a.chr[7] = ChrAt(1, r[5], 0)
    BY <2>1 DEF SixSet
  <2>4. a.chr \in [0..7 -> ChrBanks]
    BY <2>3, MapFields DEF OnlyChr
  <2>5. \A p \in 0..7 : Mmc3ChrOf(r)[p] = (IF p < 2 THEN ChrAt(2, b0, p)
            ELSE IF p < 4 THEN ChrAt(2, b1, p - 2) ELSE ChrAt(1, r[p - 2], 0))
    BY <1>4 DEF Mmc3ChrOf, b0, b1
  <2>6. \A p \in 0..7 : a.chr[p] = Mmc3ChrOf(r)[p]
    BY <2>3, <2>5
  <2>7. a.chr = Mmc3ChrOf(r)
    BY <2>4, <2>6 DEF Mmc3ChrOf
  <2> QED  BY <2>2, <2>3, <2>7 DEF a
<1> QED  BY <1>3, <1>4

\* The last page of PRG stays what it was at power up.
LEMMA Mmc3PrgIs ==
    ASSUME NEW m \in Maps, NEW r \in Regs, m.prg[3] = PrgAt(1, -1, 0)
    PROVE  OnlyPrg(Mmc3Prg(m, r), m) /\ Mmc3Prg(m, r).prg = Mmc3PrgOf(r)
<1> DEFINE page == 2 * Bits(r[8], 6, 1)
<1>1. r[6] \in Int /\ r[7] \in Int /\ page \in {0, 2} /\ (page = 2 <=> Bit(r[8], 6))
  <2>1. r[6] \in Int /\ r[7] \in Int /\ r[8] \in Nat
    BY RegsAre
  <2>2. Bits(r[8], 6, 1) \in 0..1
    BY <2>1, BitsAre
  <2> QED  BY <2>1, <2>2 DEF Bit
<1> DEFINE n == SetPrg(m, 1, 1, r[7])  o == SetPrg(n, page, 1, r[6])  a == SetPrg(o, 2 - page, 1, -2)
<1>2. Mmc3Prg(m, r) = a
  BY DEF Mmc3Prg
<1> HIDE DEF page
<1>3. /\ OnlyPrg(n, m) /\ n.prg[1] = PrgAt(1, r[7], 0) /\ n \in Maps
      /\ \A p \in (0..3) \ {1} : n.prg[p] = m.prg[p]
  <2>1. /\ OnlyPrg(n, m) /\ n.prg[1] = PrgAt(1, r[7], 0)
        /\ \A p \in (0..3) \ {1} : n.prg[p] = m.prg[p]
    BY <1>1, SetPrg1
  <2> QED  BY <2>1 DEF OnlyPrg
<1> HIDE DEF n
<1>4. /\ OnlyPrg(o, n) /\ o.prg[page] = PrgAt(1, r[6], 0) /\ o \in Maps
      /\ \A p \in (0..3) \ {page} : o.prg[p] = n.prg[p]
  <2>1. page \in 0..3
    BY <1>1
  <2>2. /\ OnlyPrg(o, n) /\ o.prg[page] = PrgAt(1, r[6], 0)
        /\ \A p \in (0..3) \ {page} : o.prg[p] = n.prg[p]
    BY <1>1, <1>3, <2>1, SetPrg1
  <2> QED  BY <2>2 DEF OnlyPrg
<1> HIDE DEF o
<1>5. /\ OnlyPrg(a, o) /\ a.prg[2 - page] = PrgAt(1, -2, 0) /\ a \in Maps
      /\ \A p \in (0..3) \ {2 - page} : a.prg[p] = o.prg[p]
  <2> DEFINE q == 2 - page
  <2>1. q \in 0..3
    BY <1>1
  <2> HIDE DEF q
  <2>2. /\ OnlyPrg(SetPrg(o, q, 1, -2), o) /\ SetPrg(o, q, 1, -2).prg[q] = PrgAt(1, -2, 0)
        /\ \A p \in (0..3) \ {q} : SetPrg(o, q, 1, -2).prg[p] = o.prg[p]
    BY <1>4, <2>1, SetPrg1
  <2> QED  BY <2>2 DEF OnlyPrg, q
<1> HIDE DEF a
<1>6. a.prg \in [0..3 -> PrgBanks] /\ OnlyPrg(a, m)
  BY <1>3, <1>4, <1>5, MapFields DEF OnlyPrg
<1>7. a.prg = Mmc3PrgOf(r)
  <2>1. CASE page = 2
    <3>1. /\ a.prg[0] = PrgAt(1, -2, 0) /\ a.prg[1] = PrgAt(1, r[7], 0)
          /\ a.prg[2] = PrgAt(1, r[6], 0) /\ a.prg[3] = PrgAt(1, -1, 0)
      BY <1>3, <1>4, <1>5, <2>1
    <3>2. a.prg = Prg1(-2, r[7], r[6], -1)
      BY <1>6, <3>1 DEF Prg1
    <3> QED  BY <1>1, <2>1, <3>2 DEF Mmc3PrgOf
  <2>2. CASE page = 0
    <3>1. /\ a.prg[0] = PrgAt(1, r[6], 0) /\ a.prg[1] = PrgAt(1, r[7], 0)
          /\ a.prg[2] = PrgAt(1, -2, 0) /\ a.prg[3] = PrgAt(1, -1, 0)
      BY <1>3, <1>4, <1>5, <2>2
    <3>2. a.prg = Prg1(r[6], r[7], -2, -1)
      BY <1>6, <3>1 DEF Prg1
    <3> QED  BY <1>1, <2>2, <3>2 DEF Mmc3PrgOf
  <2> QED  BY <1>1, <2>1, <2>2
<1> QED  BY <1>2, <1>6, <1>7

\* The last page is the power-up one in any map of the board.
LEMMA Mmc3Last ==
    ASSUME NEW r
    PROVE  Prg2(0, -1)[3] = PrgAt(1, -1, 0) /\ Mmc3PrgOf(r)[3] = PrgAt(1, -1, 0)
BY LastBank DEF Prg2, Mmc3PrgOf, Prg1

\* A write to $A001 of MMC3.
LEMMA Mmc3SramIs ==
    ASSUME NEW m \in Maps, NEW r
    PROVE  OnlyLow(Mmc3Sram(m, r), m) /\ Seen(Mmc3Sram(m, r)).low = Mmc3LowOf(r)
<1>1. CASE Bits(r[10], 0, 6) = 48
  <2>1. Mmc3Sram(m, r) = Sram(m) /\ Mmc3LowOf(r) = <<"sram">>
    BY <1>1 DEF Mmc3Sram, Mmc3LowOf
  <2>2. OnlyLow(Sram(m), m) /\ Sram(m).low = <<"sram">> /\ Sram(m) \in Maps
    BY Low DEF OnlyLow
  <2>3. Seen(Sram(m)).low = <<"sram">>
    BY <2>2, SeenLow
  <2> QED  BY <2>1, <2>2, <2>3
<1>2. CASE Bits(r[10], 0, 6) # 48 /\ ~Bit(r[10], 7)
  <2>1. Mmc3Sram(m, r) = Unmapped(m) /\ Mmc3LowOf(r) = <<"open bus">>
    BY <1>2 DEF Mmc3Sram, Mmc3LowOf
  <2>2. /\ OnlyLow(Unmapped(m), m) /\ Unmapped(m).low \in {<<"open bus">>, <<"filler">>}
        /\ Unmapped(m) \in Maps
    BY Low DEF OnlyLow
  <2>3. Seen(Unmapped(m)).low = <<"open bus">>
    BY <2>2, SeenLow
  <2> QED  BY <2>1, <2>2, <2>3
<1>3. CASE Bits(r[10], 0, 6) # 48 /\ Bit(r[10], 7) /\ Bit(r[10], 6)
  <2>1. Mmc3Sram(m, r) = SramReadOnly(m) /\ Mmc3LowOf(r) = <<"read only">>
    BY <1>3 DEF Mmc3Sram, Mmc3LowOf
  <2>2. /\ OnlyLow(SramReadOnly(m), m) /\ SramReadOnly(m).low = <<"read only">>
        /\ SramReadOnly(m) \in Maps
    BY Low DEF OnlyLow
  <2>3. Seen(SramReadOnly(m)).low = <<"read only">>
    BY <2>2, SeenLow
  <2> QED  BY <2>1, <2>2, <2>3
<1>4. CASE Bits(r[10], 0, 6) # 48 /\ Bit(r[10], 7) /\ ~Bit(r[10], 6)
  <2>1. Mmc3Sram(m, r) = Sram(m) /\ Mmc3LowOf(r) = <<"sram">>
    BY <1>4 DEF Mmc3Sram, Mmc3LowOf
  <2>2. OnlyLow(Sram(m), m) /\ Sram(m).low = <<"sram">> /\ Sram(m) \in Maps
    BY Low DEF OnlyLow
  <2>3. Seen(Sram(m)).low = <<"sram">>
    BY <2>2, SeenLow
  <2> QED  BY <2>1, <2>2, <2>3
<1> QED  BY <1>1, <1>2, <1>3, <1>4

\* With four screens nothing mirrors.
LEMMA Mmc3MirrorIs ==
    ASSUME NEW m \in Maps, NEW r, Bit(cart, 3) => m.nt = DefaultNt(cart)
    PROVE  /\ OnlyNt(Mmc3Mirror(m, r), m)
           /\ Mmc3Mirror(m, r).nt = (IF Bit(cart, 3) THEN DefaultNt(cart) ELSE MirrorNt(Bit(r[9], 0)))
<1>1. CASE Bit(cart, 3)
  BY <1>1 DEF Mmc3Mirror, OnlyNt
<1>2. CASE ~Bit(cart, 3)
  <2> DEFINE x == Bit(r[9], 0)
  <2>1. x \in BOOLEAN
    BY DEF Bit
  <2>2. Mmc3Mirror(m, r) = MirrorBy(m, x) /\ MirrorNt(Bit(r[9], 0)) = MirrorNt(x)
    BY <1>2 DEF Mmc3Mirror
  <2> HIDE DEF x
  <2> QED  BY <1>2, <2>1, <2>2, Mirroring
<1> QED  BY <1>1, <1>2

\* MMC3's apply_mapping.
LEMMA Mmc3Good ==
    ASSUME NEW m, NEW r \in Regs, Start("MMC3", cart, m, r)
    PROVE  Good("MMC3", cart, Mmc3(m, r), r)
<1>1. /\ m \in Maps /\ m.ex = Chr0 /\ (Bit(cart, 3) => m.nt = DefaultNt(cart))
      /\ m.prg = Prg2(0, -1) \/ m.prg = Mmc3PrgOf(r)
  BY FollowsMMC3 DEF Start, Default, Good
<1> DEFINE h == Mmc3Mirror(m, r)  n == Mmc3Sram(h, r)  o == Mmc3Chr(n, r)  a == Mmc3Prg(o, r)
<1>2. Mmc3(m, r) = a
  BY DEF Mmc3
<1>3. /\ OnlyNt(h, m) /\ h \in Maps
      /\ h.nt = (IF Bit(cart, 3) THEN DefaultNt(cart) ELSE MirrorNt(Bit(r[9], 0)))
  <2>1. /\ OnlyNt(h, m)
        /\ h.nt = (IF Bit(cart, 3) THEN DefaultNt(cart) ELSE MirrorNt(Bit(r[9], 0)))
    BY <1>1, Mmc3MirrorIs
  <2> QED  BY <2>1 DEF OnlyNt
<1> HIDE DEF h
<1>4. OnlyLow(n, h) /\ Seen(n).low = Mmc3LowOf(r) /\ n \in Maps
  <2>1. OnlyLow(n, h) /\ Seen(n).low = Mmc3LowOf(r)
    BY <1>3, Mmc3SramIs
  <2> QED  BY <2>1 DEF OnlyLow
<1> HIDE DEF n
<1>5. OnlyChr(o, n) /\ o.chr = Mmc3ChrOf(r) /\ o \in Maps
  <2>1. OnlyChr(o, n) /\ o.chr = Mmc3ChrOf(r)
    BY <1>4, Mmc3ChrIs
  <2> QED  BY <2>1 DEF OnlyChr
<1> HIDE DEF o
<1>6. OnlyPrg(a, o) /\ a.prg = Mmc3PrgOf(r)
  <2>1. o.prg = m.prg
    BY <1>3, <1>4, <1>5 DEF OnlyNt, OnlyLow, OnlyChr
  <2>2. o.prg[3] = PrgAt(1, -1, 0)
    BY <1>1, <2>1, Mmc3Last
  <2> QED  BY <1>5, <2>2, Mmc3PrgIs
<1> HIDE DEF a
<1>7. Seen(a).low = Seen(n).low
  <2>1. a \in Maps /\ a.low = n.low
    BY <1>5, <1>6 DEF OnlyPrg, OnlyChr
  <2> QED  BY <1>4, <2>1, SeenFields
<1>8. a \in Maps /\ a.ex = Chr0 /\ a.chr = Mmc3ChrOf(r) /\ a.nt = h.nt
  BY <1>1, <1>3, <1>4, <1>5, <1>6 DEF OnlyNt, OnlyLow, OnlyChr, OnlyPrg
<1>9. Good("MMC3", cart, a, r)
  BY <1>3, <1>4, <1>6, <1>7, <1>8, FollowsMMC3 DEF Good
<1> QED  BY <1>2, <1>9

\* A write of $8000, and the maps before, between and after its two updates.
Mmc3ModeWritten(m, s, d, r, x, a) ==
    /\ s \in Regs /\ d \in 0..255 /\ Written(r, s, 8, d)
    /\ Good("MMC3", cart, m, s)
    /\ x = (IF Bit(s[8], 7) # Bit(d, 7) THEN Mmc3Chr(m, r) ELSE m)
    /\ a = (IF Bit(s[8], 6) # Bit(d, 6) THEN Mmc3Prg(x, r) ELSE x)

\* $8000 updates the halves it swapped.
LEMMA Mmc3ModeGood ==
    ASSUME NEW m, NEW s, NEW d, NEW r, NEW x, NEW a, Mmc3ModeWritten(m, s, d, r, x, a)
    PROVE  Good("MMC3", cart, a, r)
<1>0. /\ s \in Regs /\ d \in 0..255 /\ Written(r, s, 8, d)
      /\ Good("MMC3", cart, m, s)
      /\ x = (IF Bit(s[8], 7) # Bit(d, 7) THEN Mmc3Chr(m, r) ELSE m)
      /\ a = (IF Bit(s[8], 6) # Bit(d, 6) THEN Mmc3Prg(x, r) ELSE x)
  BY DEF Mmc3ModeWritten
<1>1. /\ r \in Regs /\ r[8] = d /\ r[0] = s[0] /\ r[1] = s[1] /\ r[2] = s[2] /\ r[3] = s[3]
      /\ r[4] = s[4] /\ r[5] = s[5] /\ r[6] = s[6] /\ r[7] = s[7] /\ r[9] = s[9] /\ r[10] = s[10]
  BY <1>0 DEF Written
<1>2. /\ m \in Maps /\ m.prg = Mmc3PrgOf(s) /\ m.chr = Mmc3ChrOf(s) /\ m.ex = Chr0
      /\ m.nt = (IF Bit(cart, 3) THEN DefaultNt(cart) ELSE MirrorNt(Bit(s[9], 0)))
      /\ Seen(m).low = Mmc3LowOf(s)
  BY <1>0, FollowsMMC3 DEF Good
<1>3. Mmc3LowOf(r) = Mmc3LowOf(s)
  BY <1>1 DEF Mmc3LowOf
<1>4. OnlyChr(x, m) /\ x.chr = Mmc3ChrOf(r)
  <2>1. CASE Bit(s[8], 7) # Bit(d, 7)
    BY <1>0, <1>1, <1>2, <2>1, Mmc3ChrIs
  <2>2. CASE Bit(s[8], 7) = Bit(d, 7)
    <3>1. x = m
      BY <1>0, <2>2
    <3>2. Mmc3ChrOf(r) = Mmc3ChrOf(s)
      <4>1. \A p \in 0..7 : Mmc3ChrOf(r)[p] = Mmc3ChrOf(s)[p]
        BY <1>1, <2>2 DEF Mmc3ChrOf
      <4> QED  BY <4>1 DEF Mmc3ChrOf
    <3> QED  BY <1>2, <3>1, <3>2 DEF OnlyChr
  <2> QED  BY <2>1, <2>2
<1>5. x \in Maps /\ x.prg = m.prg
  BY <1>4 DEF OnlyChr
<1>6. OnlyPrg(a, x) /\ a.prg = Mmc3PrgOf(r)
  <2>1. CASE Bit(s[8], 6) # Bit(d, 6)
    <3>1. x.prg[3] = PrgAt(1, -1, 0)
      BY <1>2, <1>5, Mmc3Last
    <3>2. a = Mmc3Prg(x, r)
      BY <1>0, <2>1
    <3> QED  BY <1>1, <1>5, <3>1, <3>2, Mmc3PrgIs
  <2>2. CASE Bit(s[8], 6) = Bit(d, 6)
    <3>1. a = x
      BY <1>0, <2>2
    <3>2. Mmc3PrgOf(r) = Mmc3PrgOf(s)
      BY <1>1, <2>2 DEF Mmc3PrgOf
    <3> QED  BY <1>2, <1>5, <3>1, <3>2 DEF OnlyPrg
  <2> QED  BY <2>1, <2>2
<1>7. a \in Maps /\ a.ex = Chr0 /\ a.chr = Mmc3ChrOf(r) /\ a.nt = m.nt /\ a.low = m.low
  BY <1>2, <1>4, <1>6 DEF OnlyChr, OnlyPrg
<1>8. Seen(a).low = Mmc3LowOf(r)
  <2>1. m \in Maps /\ a \in Maps /\ a.low = m.low
    BY <1>2, <1>7
  <2>2. Seen(a).low = Seen(m).low
    BY <2>1, SameLow, Zenon
  <2> QED  BY <1>2, <1>3, <2>2
<1> QED  BY <1>1, <1>2, <1>6, <1>7, <1>8, FollowsMMC3 DEF Good

\* $8001 updates the tiles or the PRG, whichever the bank is of.
LEMMA Mmc3BankGood ==
    ASSUME NEW m, NEW s \in Regs, Good("MMC3", cart, m, s), NEW d \in 0..255,
           NEW i \in 0..7, NEW r, Written(r, s, i, d),
           NEW a, a = (IF i < 6 THEN Mmc3Chr(m, r) ELSE Mmc3Prg(m, r))
    PROVE  Good("MMC3", cart, a, r)
<1>1. r \in Regs /\ \A j \in (0..15) \ {i} : r[j] = s[j]
  BY DEF Written
<1>2. /\ m \in Maps /\ m.prg = Mmc3PrgOf(s) /\ m.chr = Mmc3ChrOf(s) /\ m.ex = Chr0
      /\ m.nt = (IF Bit(cart, 3) THEN DefaultNt(cart) ELSE MirrorNt(Bit(s[9], 0)))
      /\ Seen(m).low = Mmc3LowOf(s)
  BY FollowsMMC3 DEF Good
<1>3. r[8] = s[8] /\ r[9] = s[9] /\ r[10] = s[10]
  BY <1>1
<1>4. Mmc3LowOf(r) = Mmc3LowOf(s)
  BY <1>3 DEF Mmc3LowOf
<1>5. CASE i < 6
  <2>1. OnlyChr(a, m) /\ a.chr = Mmc3ChrOf(r)
    BY <1>1, <1>2, <1>5, Mmc3ChrIs
  <2>2. r[6] = s[6] /\ r[7] = s[7]
    BY <1>1, <1>5
  <2>3. Mmc3PrgOf(r) = Mmc3PrgOf(s)
    BY <1>3, <2>2 DEF Mmc3PrgOf
  <2>4. a \in Maps /\ a.ex = Chr0 /\ a.prg = Mmc3PrgOf(r) /\ a.nt = m.nt /\ a.low = m.low
    BY <1>2, <2>1, <2>3 DEF OnlyChr
  <2>5. Seen(a).low = Mmc3LowOf(r)
    BY <1>2, <1>4, <2>4, SeenFields
  <2> QED  BY <1>2, <1>3, <2>1, <2>4, <2>5, FollowsMMC3 DEF Good
<1>6. CASE ~(i < 6)
  <2>1. OnlyPrg(a, m) /\ a.prg = Mmc3PrgOf(r)
    <3>1. m.prg[3] = PrgAt(1, -1, 0)
      BY <1>2, Mmc3Last
    <3> QED  BY <1>1, <1>2, <1>6, <3>1, Mmc3PrgIs
  <2>2. /\ r[0] = s[0] /\ r[1] = s[1] /\ r[2] = s[2] /\ r[3] = s[3] /\ r[4] = s[4] /\ r[5] = s[5]
    BY <1>1, <1>6
  <2>3. Mmc3ChrOf(r) = Mmc3ChrOf(s)
    <3>1. \A p \in 0..7 : Mmc3ChrOf(r)[p] = Mmc3ChrOf(s)[p]
      BY <1>3, <2>2 DEF Mmc3ChrOf
    <3> QED  BY <3>1 DEF Mmc3ChrOf
  <2>4. a \in Maps /\ a.ex = Chr0 /\ a.chr = Mmc3ChrOf(r) /\ a.nt = m.nt /\ a.low = m.low
    BY <1>2, <2>1, <2>3 DEF OnlyPrg
  <2>5. Seen(a).low = Mmc3LowOf(r)
    BY <1>2, <1>4, <2>4, SeenFields
  <2> QED  BY <1>2, <1>3, <2>1, <2>4, <2>5, FollowsMMC3 DEF Good
<1> QED  BY <1>5, <1>6

\* $A000 and $A001.
LEMMA Mmc3OtherGood ==
    ASSUME NEW m, NEW s \in Regs, Good("MMC3", cart, m, s), NEW d \in 0..255,
           NEW i \in {9, 10}, NEW r, Written(r, s, i, d),
           NEW a, a = (IF i = 9 THEN Mmc3Mirror(m, r) ELSE Mmc3Sram(m, r))
    PROVE  Good("MMC3", cart, a, r)
<1>1. /\ r \in Regs /\ r[8] = s[8] /\ r[0] = s[0] /\ r[1] = s[1] /\ r[2] = s[2] /\ r[3] = s[3]
      /\ r[4] = s[4] /\ r[5] = s[5] /\ r[6] = s[6] /\ r[7] = s[7]
      /\ (i = 9 => r[10] = s[10]) /\ (i = 10 => r[9] = s[9])
  BY DEF Written
<1>2. /\ m \in Maps /\ m.prg = Mmc3PrgOf(s) /\ m.chr = Mmc3ChrOf(s) /\ m.ex = Chr0
      /\ m.nt = (IF Bit(cart, 3) THEN DefaultNt(cart) ELSE MirrorNt(Bit(s[9], 0)))
      /\ Seen(m).low = Mmc3LowOf(s)
  BY FollowsMMC3 DEF Good
<1>3. Mmc3PrgOf(r) = Mmc3PrgOf(s) /\ Mmc3ChrOf(r) = Mmc3ChrOf(s)
  <2>1. Mmc3PrgOf(r) = Mmc3PrgOf(s)
    BY <1>1 DEF Mmc3PrgOf
  <2>2. \A p \in 0..7 : Mmc3ChrOf(r)[p] = Mmc3ChrOf(s)[p]
    BY <1>1 DEF Mmc3ChrOf
  <2>3. Mmc3ChrOf(r) = Mmc3ChrOf(s)
    BY <2>2 DEF Mmc3ChrOf
  <2> QED  BY <2>1, <2>3
<1>4. CASE i = 9
  <2>1. /\ OnlyNt(a, m)
        /\ a.nt = (IF Bit(cart, 3) THEN DefaultNt(cart) ELSE MirrorNt(Bit(r[9], 0)))
    BY <1>2, <1>4, Mmc3MirrorIs
  <2>2. a \in Maps /\ a.low = m.low
    BY <2>1 DEF OnlyNt
  <2>3. Seen(a).low = Mmc3LowOf(r)
    <3>1. Mmc3LowOf(r) = Mmc3LowOf(s)
      BY <1>1, <1>4 DEF Mmc3LowOf
    <3> QED  BY <1>2, <2>2, <3>1, SeenFields
  <2> QED  BY <1>2, <1>3, <2>1, <2>2, <2>3, FollowsMMC3 DEF Good, OnlyNt
<1>5. CASE i = 10
  <2>1. OnlyLow(a, m) /\ Seen(a).low = Mmc3LowOf(r)
    <3>1. a = Mmc3Sram(m, r)
      BY <1>5
    <3> QED  BY <1>2, <3>1, Mmc3SramIs
  <2> QED  BY <1>1, <1>2, <1>3, <1>5, <2>1, FollowsMMC3 DEF Good, OnlyLow
<1> QED  BY <1>4, <1>5

-----------------------------------------------------------------------------
(* FME-7, Namco 106 and VRC6: each register has a part of the map to       *)
(* itself, and apply_mapping writes them one after the other.              *)

Ordered == {"FME7", "Namco", "VRC6"}
Last(k) == IF k = "FME7" THEN 12 ELSE IF k = "Namco" THEN 15 ELSE 10

\* The part of register i is the register's.
Right(k, i, m, r) ==
    /\ i < 8 => m.chr[i] = ChrAt(1, r[i], 0)
    /\ k = "FME7" /\ i \in 9..11 => m.prg[i - 9] = PrgAt(1, r[i], 0)
    /\ k = "FME7" /\ i = 12 => m.nt = Fme7NtOf(r)
    /\ k = "FME7" /\ i = 8 => Seen(m).low = Fme7LowOf(r)
    /\ k = "Namco" /\ i \in 12..14 => m.prg[i - 12] = PrgAt(1, Bits(r[i], 0, 6), 0)
    /\ k = "VRC6" /\ i = 8 => m.prg[0] = PrgAt(2, r[8], 0) /\ m.prg[1] = PrgAt(2, r[8], 1)
    /\ k = "VRC6" /\ i = 9 => m.prg[2] = PrgAt(1, r[9], 0)
    /\ k = "VRC6" /\ i = 10 => m.nt = Vrc6NtOf(r)

\* What no register decides.
Rest(k, m) ==
    /\ m \in Maps /\ m.ex = Chr0 /\ m.prg[3] = PrgAt(1, -1, 0)
    /\ k # "FME7" => Seen(m).low = <<"sram">>

\* The map of the registers is that of each of them.
LEMMA GoodByParts ==
    ASSUME NEW k \in Ordered, NEW c, NEW m, NEW r
    PROVE  Good(k, c, m, r) <=> Rest(k, m) /\ \A i \in 0..Last(k) : Right(k, i, m, r)
<1>1. ASSUME Good(k, c, m, r) PROVE Rest(k, m) /\ \A i \in 0..Last(k) : Right(k, i, m, r)
  <2>1. m \in Maps /\ m.ex = Chr0 /\ m.chr = Chr1(r) /\ (k # "FME7" => Seen(m).low = <<"sram">>)
    BY <1>1, FollowsFME7, FollowsNamco, FollowsVRC6 DEF Good, Ordered
  <2>2. \A i \in 0..7 : m.chr[i] = ChrAt(1, r[i], 0)
    BY <2>1 DEF Chr1
  <2>3. ASSUME k = "FME7"
        PROVE  /\ m.prg[0] = PrgAt(1, r[9], 0) /\ m.prg[1] = PrgAt(1, r[10], 0)
               /\ m.prg[2] = PrgAt(1, r[11], 0) /\ m.prg[3] = PrgAt(1, -1, 0)
               /\ m.nt = Fme7NtOf(r) /\ Seen(m).low = Fme7LowOf(r)
    <3>1. m.prg = Prg1(r[9], r[10], r[11], -1) /\ m.nt = Fme7NtOf(r) /\ Seen(m).low = Fme7LowOf(r)
      BY <1>1, <2>3, FollowsFME7 DEF Good
    <3> QED  BY <3>1 DEF Prg1
  <2>4. ASSUME k = "Namco"
        PROVE  /\ m.prg[0] = PrgAt(1, Bits(r[12], 0, 6), 0)
               /\ m.prg[1] = PrgAt(1, Bits(r[13], 0, 6), 0)
               /\ m.prg[2] = PrgAt(1, Bits(r[14], 0, 6), 0) /\ m.prg[3] = PrgAt(1, -1, 0)
    <3>1. m.prg = Prg1(Bits(r[12], 0, 6), Bits(r[13], 0, 6), Bits(r[14], 0, 6), -1)
      BY <1>1, <2>4, FollowsNamco DEF Good
    <3> QED  BY <3>1 DEF Prg1
  <2>5. ASSUME k = "VRC6"
        PROVE  /\ m.prg[0] = PrgAt(2, r[8], 0) /\ m.prg[1] = PrgAt(2, r[8], 1)
               /\ m.prg[2] = PrgAt(1, r[9], 0) /\ m.prg[3] = PrgAt(1, -1, 0)
               /\ m.nt = Vrc6NtOf(r)
    <3>1. m.prg = Vrc6PrgOf(r) /\ m.nt = Vrc6NtOf(r)
      BY <1>1, <2>5, FollowsVRC6 DEF Good
    <3> QED  BY <3>1 DEF Vrc6PrgOf
  <2>6. Rest(k, m)
    BY <2>1, <2>3, <2>4, <2>5 DEF Rest, Ordered
  <2>7. ASSUME NEW i \in 0..Last(k) PROVE Right(k, i, m, r)
    <3>1. i \in 0..15 /\ (k = "FME7" => i \in 0..12) /\ (k = "VRC6" => i \in 0..10)
      BY DEF Last, Ordered
    <3>2. i < 8 => m.chr[i] = ChrAt(1, r[i], 0)
      BY <2>2, <3>1
    <3>3. k = "FME7" /\ i \in 9..11 => m.prg[i - 9] = PrgAt(1, r[i], 0)
      BY <2>3, <3>1
    <3>4. k = "Namco" /\ i \in 12..14 => m.prg[i - 12] = PrgAt(1, Bits(r[i], 0, 6), 0)
      BY <2>4, <3>1
    <3> QED  BY <2>3, <2>5, <3>2, <3>3, <3>4 DEF Right
  <2> QED  BY <2>6, <2>7
<1>2. ASSUME Rest(k, m), \A i \in 0..Last(k) : Right(k, i, m, r) PROVE Good(k, c, m, r)
  <2>1. m \in Maps /\ m.ex = Chr0 /\ (k # "FME7" => Seen(m).low = <<"sram">>) /\ m.prg[3] = PrgAt(1, -1, 0)
    BY <1>2 DEF Rest
  <2>2. m.chr \in [0..7 -> ChrBanks] /\ m.prg \in [0..3 -> PrgBanks]
    BY <2>1, MapFields
  <2>3. \A i \in 0..10 : Right(k, i, m, r)
    BY <1>2 DEF Last, Ordered
  <2>4. \A i \in 0..7 : m.chr[i] = ChrAt(1, r[i], 0)
    BY <2>3 DEF Right
  <2>5. m.chr = Chr1(r)
    BY <2>2, <2>4 DEF Chr1
  <2>6. CASE k = "FME7"
    <3>1. Right(k, 8, m, r) /\ Right(k, 9, m, r) /\ Right(k, 10, m, r) /\ Right(k, 11, m, r) /\ Right(k, 12, m, r)
      BY <1>2, <2>6 DEF Last
    <3>2. /\ m.prg[9 - 9] = PrgAt(1, r[9], 0) /\ m.prg[10 - 9] = PrgAt(1, r[10], 0)
          /\ m.prg[11 - 9] = PrgAt(1, r[11], 0)
          /\ m.nt = Fme7NtOf(r) /\ Seen(m).low = Fme7LowOf(r)
      BY <2>6, <3>1 DEF Right
    <3>3. m.prg = Prg1(r[9], r[10], r[11], -1)
      BY <2>1, <2>2, <3>2 DEF Prg1
    <3> QED  BY <2>1, <2>5, <2>6, <3>2, <3>3, FollowsFME7 DEF Good
  <2>7. CASE k = "Namco"
    <3>1. Right(k, 12, m, r) /\ Right(k, 13, m, r) /\ Right(k, 14, m, r)
      BY <1>2, <2>7 DEF Last
    <3>2. /\ m.prg[12 - 12] = PrgAt(1, Bits(r[12], 0, 6), 0)
          /\ m.prg[13 - 12] = PrgAt(1, Bits(r[13], 0, 6), 0)
          /\ m.prg[14 - 12] = PrgAt(1, Bits(r[14], 0, 6), 0)
      BY <2>7, <3>1 DEF Right
    <3>3. m.prg = Prg1(Bits(r[12], 0, 6), Bits(r[13], 0, 6), Bits(r[14], 0, 6), -1)
      BY <2>1, <2>2, <3>2 DEF Prg1
    <3> QED  BY <2>1, <2>5, <2>7, <3>3, FollowsNamco DEF Good
  <2>8. CASE k = "VRC6"
    <3>1. Right(k, 8, m, r) /\ Right(k, 9, m, r) /\ Right(k, 10, m, r)
      BY <2>3
    <3>2. /\ m.prg[0] = PrgAt(2, r[8], 0) /\ m.prg[1] = PrgAt(2, r[8], 1)
          /\ m.prg[2] = PrgAt(1, r[9], 0) /\ m.nt = Vrc6NtOf(r)
      BY <2>8, <3>1 DEF Right
    <3>3. m.prg = Vrc6PrgOf(r)
      BY <2>1, <2>2, <3>2 DEF Vrc6PrgOf
    <3> QED  BY <2>1, <2>5, <2>8, <3>2, <3>3, FollowsVRC6 DEF Good
  <2> QED  BY <2>6, <2>7, <2>8 DEF Ordered
<1> QED  BY <1>1, <1>2

\* a is m with register i of r written: its part right, the others' kept.
IsWritten(k, i, a, m, r) ==
    /\ Rest(k, a) /\ Right(k, i, a, r)
    /\ \A j \in (0..15) \ {i} : \A s : Right(k, j, m, s) => Right(k, j, a, s)

\* A bank of tiles of one register.
LEMMA ChrRegister ==
    ASSUME NEW k \in Ordered, NEW m, Rest(k, m), NEW r \in Regs, NEW i \in 0..7
    PROVE  IsWritten(k, i, SetChr(m, i, 1, r[i]), m, r)
<1>1. m \in Maps /\ r[i] \in Nat
  BY RegsAre DEF Rest
<1> DEFINE a == SetChr(m, i, 1, r[i])
<1>2. /\ OnlyChr(a, m) /\ a.chr[i] = ChrAt(1, r[i], 0)
      /\ \A p \in (0..7) \ {i} : a.chr[p] = m.chr[p]
  BY <1>1, SetChr1
<1> HIDE DEF a
<1>3. Seen(a).low = Seen(m).low
  <2>1. a \in Maps /\ a.low = m.low
    BY <1>2 DEF OnlyChr
  <2> QED  BY <1>1, <2>1, SeenFields
<1>4. Rest(k, a)
  BY <1>2, <1>3 DEF Rest, OnlyChr
<1>5. Right(k, i, a, r)
  BY <1>2 DEF Right
<1>6. ASSUME NEW j \in (0..15) \ {i}, NEW s, Right(k, j, m, s) PROVE Right(k, j, a, s)
  <2>1. j < 8 => a.chr[j] = m.chr[j]
    BY <1>2
  <2> QED  BY <1>2, <1>3, <1>6, <2>1 DEF Right, OnlyChr
<1> QED  BY <1>4, <1>5, <1>6 DEF IsWritten, a

\* A register of an FME-7.
LEMMA Fme7Written ==
    ASSUME NEW m, Rest("FME7", m), NEW r \in Regs, NEW i \in 0..12
    PROVE  IsWritten("FME7", i, Fme7Register(m, r, i), m, r)
<1> DEFINE a == Fme7Register(m, r, i)
<1>1. m \in Maps /\ m.prg[3] = PrgAt(1, -1, 0) /\ m.ex = Chr0
  BY DEF Rest
<1>2. CASE i < 8
  <2>1. i \in 0..7
    BY <1>2
  <2>2. a = SetChr(m, i, 1, r[i])
    BY <2>1 DEF Fme7Register
  <2> HIDE DEF a
  <2>3. IsWritten("FME7", i, a, m, r)
    BY <2>1, <2>2, ChrRegister DEF Ordered
  <2> QED  BY <2>3 DEF a
<1>3. CASE i \in 9..11
  <2> DEFINE q == i - 9  bank == r[i]
  <2>1. q \in 0..2 /\ bank \in Int /\ q \in 0..3
    BY <1>3, RegsAre
  <2>2. a = SetPrg(m, q, 1, bank)
    BY <1>3 DEF Fme7Register
  <2> HIDE DEF a, q, bank
  <2>3. /\ OnlyPrg(a, m) /\ a.prg[q] = PrgAt(1, bank, 0)
        /\ \A p \in (0..3) \ {q} : a.prg[p] = m.prg[p]
    BY <1>1, <2>1, <2>2, SetPrg1
  <2>4. a \in Maps /\ Seen(a).low = Seen(m).low
    <3>1. a \in Maps /\ a.low = m.low
      BY <2>3 DEF OnlyPrg
    <3> QED  BY <1>1, <3>1, SeenFields
  <2>5. Rest("FME7", a)
    BY <1>1, <2>1, <2>3, <2>4 DEF Rest, OnlyPrg
  <2>6. Right("FME7", i, a, r)
    BY <1>3, <2>3 DEF Right, q, bank
  <2>7. ASSUME NEW j \in (0..15) \ {i}, NEW s, Right("FME7", j, m, s) PROVE Right("FME7", j, a, s)
    <3>1. ASSUME j \in 9..11 PROVE a.prg[j - 9] = m.prg[j - 9]
      <4>1. j - 9 \in (0..3) \ {q}
        BY <1>3, <3>1 DEF q
      <4> QED  BY <2>3, <4>1
    <3> QED  BY <2>3, <2>4, <2>7, <3>1 DEF Right, OnlyPrg
  <2>8. IsWritten("FME7", i, a, m, r)
    BY <2>5, <2>6, <2>7 DEF IsWritten
  <2> QED  BY <2>8 DEF a
<1>4. CASE i = 12
  <2>1. OnlyNt(a, m) /\ a.nt = Fme7NtOf(r)
    <3>1. CASE Bit(r[12], 1)
      <4> DEFINE x == Bits(r[12], 0, 1)
      <4>1. a = Single(m, x) /\ Fme7NtOf(r) = SingleNt(x)
        BY <1>4, <3>1 DEF Fme7Register, Fme7NtOf
      <4>2. x \in 0..1
        BY RegsAre, BitsAre
      <4> HIDE DEF a, x
      <4> QED  BY <1>1, <4>1, <4>2, Mirroring
    <3>2. CASE ~Bit(r[12], 1)
      <4> DEFINE x == Bit(r[12], 0)
      <4>1. a = MirrorBy(m, x) /\ Fme7NtOf(r) = MirrorNt(x)
        BY <1>4, <3>2 DEF Fme7Register, Fme7NtOf
      <4>2. x \in BOOLEAN
        BY DEF Bit
      <4> HIDE DEF a, x
      <4> QED  BY <1>1, <4>1, <4>2, Mirroring
    <3> QED  BY <3>1, <3>2
  <2> HIDE DEF a
  <2>2. a \in Maps /\ Seen(a).low = Seen(m).low
    <3>1. a \in Maps /\ a.low = m.low
      BY <2>1 DEF OnlyNt
    <3> QED  BY <1>1, <3>1, SeenFields
  <2>3. Rest("FME7", a) /\ Right("FME7", i, a, r)
    BY <1>1, <1>4, <2>1, <2>2 DEF Rest, Right, OnlyNt
  <2>4. ASSUME NEW j \in (0..15) \ {i}, NEW s, Right("FME7", j, m, s) PROVE Right("FME7", j, a, s)
    BY <1>4, <2>1, <2>2, <2>4 DEF Right, OnlyNt
  <2>5. IsWritten("FME7", i, a, m, r)
    BY <2>3, <2>4 DEF IsWritten
  <2> QED  BY <2>5 DEF a
<1>5. CASE i = 8
  <2>1. OnlyLow(a, m) /\ Seen(a).low = Fme7LowOf(r)
    <3>1. CASE Bits(r[8], 6, 2) = 3
      <4>1. a = Sram(m) /\ Fme7LowOf(r) = <<"sram">>
        BY <1>5, <3>1 DEF Fme7Register, Fme7LowOf
      <4>2. OnlyLow(Sram(m), m) /\ Sram(m).low = <<"sram">> /\ Sram(m) \in Maps
        BY <1>1, Low DEF OnlyLow
      <4>3. Seen(Sram(m)).low = <<"sram">>
        BY <4>2, SeenLow
      <4> QED  BY <4>1, <4>2, <4>3
    <3>2. CASE Bits(r[8], 6, 2) = 0
      <4> DEFINE bank == Bits(r[8], 0, 6)
      <4>1. a = SetPrgLow(m, bank) /\ Fme7LowOf(r) = <<"prg", bank % PrgPages>>
        BY <1>5, <3>2 DEF Fme7Register, Fme7LowOf
      <4>2. bank \in Nat
        BY RegsAre, BitsAre
      <4> HIDE DEF a, bank
      <4>3. OnlyLow(a, m) /\ a.low = <<"prg", bank % PrgPages>>
        BY <1>1, <4>1, <4>2, Low
      <4>4. a \in Maps
        BY <4>3 DEF OnlyLow
      <4>5. Seen(a).low = <<"prg", bank % PrgPages>>
        BY <4>3, <4>4, SeenLow
      <4> QED  BY <4>1, <4>3, <4>5
    <3>3. CASE Bits(r[8], 6, 2) # 3 /\ Bits(r[8], 6, 2) # 0
      <4>1. a = Unmapped(m) /\ Fme7LowOf(r) = <<"open bus">>
        <5>1. ~(i \in 9..11) /\ ~(i < 8) /\ i # 12
          BY <1>5
        <5>2. a = Unmapped(m)
          BY <3>3, <5>1 DEF Fme7Register
        <5>3. Fme7LowOf(r) = <<"open bus">>
          BY <3>3 DEF Fme7LowOf
        <5> QED  BY <5>2, <5>3
      <4>2. /\ OnlyLow(Unmapped(m), m) /\ Unmapped(m).low \in {<<"open bus">>, <<"filler">>}
            /\ Unmapped(m) \in Maps
        BY <1>1, Low DEF OnlyLow
      <4>3. Seen(Unmapped(m)).low = <<"open bus">>
        BY <4>2, SeenLow
      <4> QED  BY <4>1, <4>2, <4>3
    <3> QED  BY <3>1, <3>2, <3>3
  <2> HIDE DEF a
  <2>2. Rest("FME7", a) /\ Right("FME7", i, a, r)
    BY <1>1, <1>5, <2>1 DEF Rest, Right, OnlyLow
  <2>3. ASSUME NEW j \in (0..15) \ {i}, NEW s, Right("FME7", j, m, s) PROVE Right("FME7", j, a, s)
    BY <1>5, <2>1, <2>3 DEF Right, OnlyLow
  <2>4. IsWritten("FME7", i, a, m, r)
    BY <2>2, <2>3 DEF IsWritten
  <2> QED  BY <2>4 DEF a
<1> QED  BY <1>2, <1>3, <1>4, <1>5

\* A register of a Namco 106.
LEMMA NamcoWritten ==
    ASSUME NEW m, Rest("Namco", m), NEW r \in Regs, NEW i \in 0..15
    PROVE  IsWritten("Namco", i, NamcoRegister(m, r, i), m, r)
<1> DEFINE a == NamcoRegister(m, r, i)
<1>1. /\ m \in Maps /\ m.prg[3] = PrgAt(1, -1, 0) /\ m.ex = Chr0 /\ Seen(m).low = <<"sram">>
  BY DEF Rest
<1>2. CASE i < 8
  <2>1. i \in 0..7
    BY <1>2
  <2>2. a = SetChr(m, i, 1, r[i])
    BY <2>1 DEF NamcoRegister
  <2> HIDE DEF a
  <2>3. IsWritten("Namco", i, a, m, r)
    BY <2>1, <2>2, ChrRegister DEF Ordered
  <2> QED  BY <2>3 DEF a
<1>3. CASE i \in 12..14
  <2> DEFINE q == i - 12  bank == Bits(r[i], 0, 6)
             n == IF i = 12 /\ Bit(r[12], 6) THEN Vert(m, 0) ELSE m
  <2>1. q \in 0..2 /\ q \in 0..3
    BY <1>3
  <2>2. bank \in Int
    <3>1. r[i] \in Nat
      BY RegsAre
    <3> QED  BY <3>1, BitsAre
  <2>3. a = SetPrg(n, q, 1, bank)
    BY <1>3 DEF NamcoRegister
  <2>4. OnlyNt(n, m)
    <3>1. CASE i = 12 /\ Bit(r[12], 6)
      BY <1>1, <3>1, Mirroring
    <3>2. CASE ~(i = 12 /\ Bit(r[12], 6))
      BY <1>1, <3>2 DEF OnlyNt
    <3> QED  BY <3>1, <3>2
  <2> HIDE DEF a, q, bank, n
  <2>5. /\ OnlyPrg(a, n) /\ a.prg[q] = PrgAt(1, bank, 0)
        /\ \A p \in (0..3) \ {q} : a.prg[p] = n.prg[p]
    <3>1. n \in Maps
      BY <2>4 DEF OnlyNt
    <3> QED  BY <2>1, <2>2, <2>3, <3>1, SetPrg1
  <2>6. /\ a \in Maps /\ a.chr = m.chr /\ a.ex = m.ex /\ a.low = m.low
        /\ \A p \in (0..3) \ {q} : a.prg[p] = m.prg[p]
    BY <2>4, <2>5 DEF OnlyPrg, OnlyNt
  <2>7. Seen(a).low = Seen(m).low
    BY <1>1, <2>6, SeenFields
  <2>8. Rest("Namco", a)
    BY <1>1, <2>1, <2>6, <2>7 DEF Rest
  <2>9. Right("Namco", i, a, r)
    BY <1>3, <2>5 DEF Right, q, bank
  <2>10. ASSUME NEW j \in (0..15) \ {i}, NEW s, Right("Namco", j, m, s) PROVE Right("Namco", j, a, s)
    <3>1. ASSUME j \in 12..14 PROVE a.prg[j - 12] = m.prg[j - 12]
      <4>1. j - 12 \in (0..3) \ {q}
        BY <1>3, <3>1 DEF q
      <4> QED  BY <2>6, <4>1
    <3> QED  BY <2>6, <2>7, <2>10, <3>1 DEF Right
  <2>11. IsWritten("Namco", i, a, m, r)
    BY <2>8, <2>9, <2>10 DEF IsWritten
  <2> QED  BY <2>11 DEF a
<1>4. CASE i \in 8..11 \/ i = 15
  <2>1. OnlyNt(a, m)
    <3>1. CASE i \in 8..11
      <4> DEFINE t == <<r[8] % 2, r[9] % 2, r[10] % 2, r[11] % 2>>
      <4>1. r[8] \in Nat /\ r[9] \in Nat /\ r[10] \in Nat /\ r[11] \in Nat
        BY RegsAre
      <4>2. t \in [1..4 -> 0..3]
        BY <4>1
      <4>3. a = [m EXCEPT !.nt = t]
        BY <3>1 DEF NamcoRegister
      <4> HIDE DEF a, t
      <4> QED  BY <1>1, <4>2, <4>3, NtFields DEF OnlyNt
    <3>2. CASE i = 15
      BY <1>1, <3>2 DEF NamcoRegister, OnlyNt
    <3> QED  BY <1>4, <3>1, <3>2
  <2> HIDE DEF a
  <2>2. a \in Maps /\ Seen(a).low = Seen(m).low
    <3>1. a \in Maps /\ a.low = m.low
      BY <2>1 DEF OnlyNt
    <3> QED  BY <1>1, <3>1, SeenFields
  <2>3. Rest("Namco", a) /\ Right("Namco", i, a, r)
    BY <1>1, <1>4, <2>1, <2>2 DEF Rest, Right, OnlyNt
  <2>4. ASSUME NEW j \in (0..15) \ {i}, NEW s, Right("Namco", j, m, s) PROVE Right("Namco", j, a, s)
    BY <2>1, <2>2, <2>4 DEF Right, OnlyNt
  <2>5. IsWritten("Namco", i, a, m, r)
    BY <2>3, <2>4 DEF IsWritten
  <2> QED  BY <2>5 DEF a
<1> QED  BY <1>2, <1>3, <1>4

\* A register of a VRC6.
LEMMA Vrc6Written ==
    ASSUME NEW m, Rest("VRC6", m), NEW r \in Regs, NEW i \in 0..10
    PROVE  IsWritten("VRC6", i, Vrc6Register(m, r, i), m, r)
<1> DEFINE a == Vrc6Register(m, r, i)
<1>1. /\ m \in Maps /\ m.prg[3] = PrgAt(1, -1, 0) /\ m.ex = Chr0 /\ Seen(m).low = <<"sram">>
  BY DEF Rest
<1>2. CASE i < 8
  <2>1. i \in 0..7
    BY <1>2
  <2>2. a = SetChr(m, i, 1, r[i])
    BY <2>1 DEF Vrc6Register
  <2> HIDE DEF a
  <2>3. IsWritten("VRC6", i, a, m, r)
    BY <2>1, <2>2, ChrRegister DEF Ordered
  <2> QED  BY <2>3 DEF a
<1>3. CASE i = 8
  <2>1. r[8] \in Int
    BY RegsAre
  <2>2. a = SetPrg(m, 0, 2, r[8])
    BY <1>3 DEF Vrc6Register
  <2> HIDE DEF a
  <2>3. PrgSet(a, m, 0, 2, r[8])
    BY <1>1, <2>1, <2>2, SetPrgFields
  <2>4. /\ OnlyPrg(a, m) /\ a.prg[0] = PrgAt(2, r[8], 0) /\ a.prg[1] = PrgAt(2, r[8], 1)
        /\ a.prg[2] = m.prg[2] /\ a.prg[3] = m.prg[3]
    BY <2>3 DEF PrgSet, OnlyPrg
  <2>5. a \in Maps /\ Seen(a).low = Seen(m).low
    <3>1. a \in Maps /\ a.low = m.low
      BY <2>4 DEF OnlyPrg
    <3> QED  BY <1>1, <3>1, SeenFields
  <2>6. Rest("VRC6", a) /\ Right("VRC6", i, a, r)
    BY <1>1, <1>3, <2>4, <2>5 DEF Rest, Right, OnlyPrg
  <2>7. ASSUME NEW j \in (0..15) \ {i}, NEW s, Right("VRC6", j, m, s) PROVE Right("VRC6", j, a, s)
    BY <1>3, <2>4, <2>5, <2>7 DEF Right, OnlyPrg
  <2>8. IsWritten("VRC6", i, a, m, r)
    BY <2>6, <2>7 DEF IsWritten
  <2> QED  BY <2>8 DEF a
<1>4. CASE i = 9
  <2>1. r[9] \in Int
    BY RegsAre
  <2>2. a = SetPrg(m, 2, 1, r[9])
    BY <1>4 DEF Vrc6Register
  <2> HIDE DEF a
  <2>3. /\ OnlyPrg(a, m) /\ a.prg[2] = PrgAt(1, r[9], 0)
        /\ \A p \in (0..3) \ {2} : a.prg[p] = m.prg[p]
    BY <1>1, <2>1, <2>2, SetPrg1
  <2>4. a.prg[0] = m.prg[0] /\ a.prg[1] = m.prg[1] /\ a.prg[3] = m.prg[3]
    BY <2>3
  <2>5. a \in Maps /\ Seen(a).low = Seen(m).low
    <3>1. a \in Maps /\ a.low = m.low
      BY <2>3 DEF OnlyPrg
    <3> QED  BY <1>1, <3>1, SeenFields
  <2>6. Rest("VRC6", a) /\ Right("VRC6", i, a, r)
    BY <1>1, <1>4, <2>3, <2>4, <2>5 DEF Rest, Right, OnlyPrg
  <2>7. ASSUME NEW j \in (0..15) \ {i}, NEW s, Right("VRC6", j, m, s) PROVE Right("VRC6", j, a, s)
    BY <1>4, <2>3, <2>4, <2>5, <2>7 DEF Right, OnlyPrg
  <2>8. IsWritten("VRC6", i, a, m, r)
    BY <2>6, <2>7 DEF IsWritten
  <2> QED  BY <2>8 DEF a
<1>5. CASE i = 10
  <2> DEFINE page == Bits(r[10], 5, 1)  one == (Bits(r[10], 2, 1) + page) % 2
  <2>1. page \in 0..1 /\ one \in 0..1
    <3>1. r[10] \in Nat
      BY RegsAre
    <3>2. page \in 0..1 /\ Bits(r[10], 2, 1) \in 0..1
      BY <3>1, BitsAre
    <3> QED  BY <3>2
  <2>2. a = (IF Bit(r[10], 3) THEN Single(m, one)
             ELSE IF Bit(r[10], 2) THEN Horiz(m, page) ELSE Vert(m, page))
    BY <1>5 DEF Vrc6Register, Vrc6Mirror
  <2>3. Vrc6NtOf(r) = (IF Bit(r[10], 3) THEN SingleNt(one)
                       ELSE IF Bit(r[10], 2) THEN <<page, page, 1 - page, 1 - page>>
                       ELSE <<page, 1 - page, page, 1 - page>>)
    BY DEF Vrc6NtOf
  <2> HIDE DEF a, page, one
  <2>4. OnlyNt(a, m) /\ a.nt = Vrc6NtOf(r)
    <3>1. CASE Bit(r[10], 3)
      <4>1. a = Single(m, one) /\ Vrc6NtOf(r) = SingleNt(one)
        BY <2>2, <2>3, <3>1
      <4> QED  BY <1>1, <2>1, <4>1, Mirroring
    <3>2. CASE ~Bit(r[10], 3) /\ Bit(r[10], 2)
      <4>1. a = Horiz(m, page) /\ Vrc6NtOf(r) = <<page, page, 1 - page, 1 - page>>
        BY <2>2, <2>3, <3>2
      <4> QED  BY <1>1, <2>1, <4>1, Mirroring
    <3>3. CASE ~Bit(r[10], 3) /\ ~Bit(r[10], 2)
      <4>1. a = Vert(m, page) /\ Vrc6NtOf(r) = <<page, 1 - page, page, 1 - page>>
        BY <2>2, <2>3, <3>3
      <4> QED  BY <1>1, <2>1, <4>1, Mirroring
    <3> QED  BY <3>1, <3>2, <3>3
  <2>5. a \in Maps /\ Seen(a).low = Seen(m).low
    <3>1. a \in Maps /\ a.low = m.low
      BY <2>4 DEF OnlyNt
    <3> QED  BY <1>1, <3>1, SeenFields
  <2>6. Rest("VRC6", a) /\ Right("VRC6", i, a, r)
    BY <1>1, <1>5, <2>4, <2>5 DEF Rest, Right, OnlyNt
  <2>7. ASSUME NEW j \in (0..15) \ {i}, NEW s, Right("VRC6", j, m, s) PROVE Right("VRC6", j, a, s)
    BY <1>5, <2>4, <2>5, <2>7 DEF Right, OnlyNt
  <2>8. IsWritten("VRC6", i, a, m, r)
    BY <2>6, <2>7 DEF IsWritten
  <2> QED  BY <2>8 DEF a
<1> QED  BY <1>2, <1>3, <1>4, <1>5

\* A register of any of the three.
LEMMA RegisterWritten ==
    ASSUME kind \in Ordered, NEW m, Rest(kind, m), NEW r \in Regs, NEW i \in 0..Last(kind)
    PROVE  IsWritten(kind, i, Register(m, r, i), m, r)
<1>1. CASE kind = "FME7"
  <2>1. i \in 0..12 /\ Register(m, r, i) = Fme7Register(m, r, i)
    BY <1>1 DEF Last, Register
  <2> QED  BY <1>1, <2>1, Fme7Written
<1>2. CASE kind = "Namco"
  <2>1. i \in 0..15 /\ Register(m, r, i) = NamcoRegister(m, r, i)
    BY <1>2 DEF Last, Register
  <2> QED  BY <1>2, <2>1, NamcoWritten
<1>3. CASE kind = "VRC6"
  <2>1. i \in 0..10 /\ Register(m, r, i) = Vrc6Register(m, r, i)
    BY <1>3 DEF Last, Register
  <2> QED  BY <1>3, <2>1, Vrc6Written
<1> QED  BY <1>1, <1>2, <1>3 DEF Ordered

\* A part looks at its own register only.
LEMMA RightAlike ==
    ASSUME NEW k \in Ordered, NEW i \in 0..15, NEW m, NEW r, NEW s, r[i] = s[i], Right(k, i, m, s)
    PROVE  Right(k, i, m, r)
<1>1. i = 12 => Fme7NtOf(r) = Fme7NtOf(s)
  BY DEF Fme7NtOf
<1>2. i = 8 => Fme7LowOf(r) = Fme7LowOf(s)
  BY DEF Fme7LowOf
<1>3. i = 10 => Vrc6NtOf(r) = Vrc6NtOf(s)
  BY DEF Vrc6NtOf
<1> QED  BY <1>1, <1>2, <1>3 DEF Right

\* A write to a register of a map that follows them.
LEMMA RegisterGood ==
    ASSUME kind \in Ordered, NEW c, NEW m, NEW s, Good(kind, c, m, s), NEW i \in 0..Last(kind),
           NEW d, NEW r, Written(r, s, i, d)
    PROVE  Good(kind, c, Register(m, r, i), r)
<1> DEFINE a == Register(m, r, i)
<1>1. Rest(kind, m) /\ \A j \in 0..Last(kind) : Right(kind, j, m, s)
  BY GoodByParts
<1>2. r \in Regs /\ \A j \in (0..15) \ {i} : r[j] = s[j]
  BY DEF Written
<1>3. \A j \in 0..Last(kind) : j \in 0..15
  BY DEF Last
<1>4. IsWritten(kind, i, a, m, r)
  BY <1>1, <1>2, RegisterWritten
<1> HIDE DEF a
<1>5. ASSUME NEW j \in 0..Last(kind) PROVE Right(kind, j, a, r)
  <2>1. CASE j = i
    BY <1>4, <2>1 DEF IsWritten
  <2>2. CASE j # i
    <3>1. j \in (0..15) \ {i}
      BY <1>3, <2>2
    <3>2. Right(kind, j, a, s)
      BY <1>1, <1>4, <3>1 DEF IsWritten
    <3> QED  BY <1>2, <3>1, <3>2, RightAlike
  <2> QED  BY <2>1, <2>2
<1>6. Rest(kind, a)
  BY <1>4 DEF IsWritten
<1>7. Good(kind, c, a, r)
  BY <1>5, <1>6, GoodByParts
<1> QED  BY <1>7 DEF a

\* the recursion of InOrder has a solution
OrderedTo(m, r, n) ==
    LET to[k \in 0..n] == IF k = 0 THEN m ELSE Register(to[k - 1], r, k - 1) IN to

\* It is the function its recursion describes.
LEMMA OrderedFunction ==
    ASSUME NEW m, NEW r, NEW n \in Nat
    PROVE  \A k \in 0..n : OrderedTo(m, r, n)[k] =
               IF k = 0 THEN m ELSE Register(OrderedTo(m, r, n)[k - 1], r, k - 1)
<1> DEFINE Rec(f, j) == f = [k \in 0..j |-> IF k = 0 THEN m ELSE Register(f[k - 1], r, k - 1)]
           Some == {j \in Nat : \E f : Rec(f, j)}
<1>1. 0 \in Some
  <2>1. Rec([k \in 0..0 |-> m], 0)
    OBVIOUS
  <2> QED  BY <2>1
<1>2. ASSUME NEW j \in Nat, j \in Some PROVE j + 1 \in Some
  <2>1. PICK f : Rec(f, j)
    BY <1>2
  <2> DEFINE g == [k \in 0..(j + 1) |-> IF k \in 0..j THEN f[k] ELSE Register(f[j], r, j)]
  <2>2. \A k \in 0..j : f[k] = IF k = 0 THEN m ELSE Register(f[k - 1], r, k - 1)
    BY <2>1
  <2>3. (\A k \in 0..j : g[k] = f[k]) /\ g[j + 1] = Register(f[j], r, j)
    OBVIOUS
  <2>4. ASSUME NEW k \in 0..(j + 1)
        PROVE  g[k] = IF k = 0 THEN m ELSE Register(g[k - 1], r, k - 1)
    <3> HIDE DEF g
    <3>1. CASE k = j + 1
      <4>1. k # 0 /\ k - 1 = j /\ g[j] = f[j]
        BY <3>1, <2>3
      <4> QED  BY <3>1, <4>1, <2>3
    <3>2. CASE k = 0
      BY <3>2, <2>2, <2>3
    <3>3. CASE k \in 1..j
      <4>1. k \in 0..j /\ k - 1 \in 0..j /\ k # 0
        BY <3>3
      <4>2. g[k] = f[k] /\ g[k - 1] = f[k - 1]
        BY <4>1, <2>3
      <4> QED  BY <4>1, <4>2, <2>2
    <3> QED  BY <3>1, <3>2, <3>3
  <2>5. Rec(g, j + 1)
    <3>1. g = [k \in 0..(j + 1) |-> g[k]]
      OBVIOUS
    <3> HIDE DEF g
    <3> QED  BY <3>1, <2>4
  <2>6. \E h : Rec(h, j + 1)
    <3> HIDE DEF Rec, g
    <3> QED  BY <2>5
  <2> QED  BY <2>6
<1>3. Nat \subseteq Some
  <2> HIDE DEF Some
  <2> QED  BY <1>1, <1>2, Induction
<1>4. \E f : Rec(f, n)
  BY <1>3
<1>5. OrderedTo(m, r, n) = CHOOSE f : Rec(f, n)
  BY DEF OrderedTo
<1> HIDE DEF Rec
<1>6. Rec(OrderedTo(m, r, n), n)
  BY <1>4, <1>5, Zenon
<1> DEFINE h == OrderedTo(m, r, n)
<1> HIDE DEF h
<1>7. Rec(h, n)
  BY <1>6 DEF h
<1>8. \A k \in 0..n : h[k] = IF k = 0 THEN m ELSE Register(h[k - 1], r, k - 1)
  BY <1>7 DEF Rec
<1> QED  BY <1>8 DEF h

\* All registers written one after the other give their map.
LEMMA InOrderGood ==
    ASSUME kind \in Ordered, NEW c, NEW m, Rest(kind, m), NEW r \in Regs
    PROVE  Good(kind, c, InOrder(m, r, Last(kind) + 1), r)
<1> DEFINE n == Last(kind) + 1
           h == OrderedTo(m, r, n)
           P(k) == Rest(kind, h[k]) /\ \A i \in 0..(k - 1) : Right(kind, i, h[k], r)
           S == {k \in Nat : k <= n => P(k)}
<1>1. n \in Nat /\ n - 1 = Last(kind) /\ \A i \in 0..Last(kind) : i \in 0..15
  BY DEF Last
<1>2. \A k \in 0..n : h[k] = IF k = 0 THEN m ELSE Register(h[k - 1], r, k - 1)
  BY <1>1, OrderedFunction
<1>3. InOrder(m, r, n) = h[n]
  BY DEF InOrder, OrderedTo
<1> HIDE DEF n, h
<1>4. 0 \in S
  <2>1. h[0] = m
    BY <1>1, <1>2
  <2> QED  BY <2>1
<1>5. ASSUME NEW k \in Nat, k \in S PROVE k + 1 \in S
  <2>1. SUFFICES ASSUME k + 1 <= n PROVE P(k + 1)
    OBVIOUS
  <2>2. k \in 0..Last(kind) /\ k \in 0..15 /\ k + 1 \in 0..n /\ k + 1 # 0 /\ (k + 1) - 1 = k
    BY <1>1, <2>1
  <2>3. P(k)
    BY <1>1, <1>5, <2>1
  <2>4. h[k + 1] = Register(h[k], r, k)
    BY <1>2, <2>2
  <2>5. IsWritten(kind, k, h[k + 1], h[k], r)
    BY <2>2, <2>3, <2>4, RegisterWritten
  <2>6. ASSUME NEW i \in 0..k PROVE Right(kind, i, h[k + 1], r)
    <3>1. CASE i = k
      BY <2>5, <3>1 DEF IsWritten
    <3>2. CASE i # k
      <4>1. i \in 0..(k - 1) /\ i \in (0..15) \ {k}
        BY <2>2, <3>2
      <4> QED  BY <2>3, <2>5, <4>1 DEF IsWritten
    <3> QED  BY <3>1, <3>2
  <2>7. Rest(kind, h[k + 1])
    BY <2>5 DEF IsWritten
  <2> QED  BY <2>2, <2>6, <2>7
<1>6. Nat \subseteq S
  <2> HIDE DEF S
  <2> QED  BY <1>4, <1>5, Induction
<1>7. P(n)
  <2>1. n \in S
    BY <1>1, <1>6
  <2>2. n <= n
    BY <1>1
  <2> QED  BY <2>1, <2>2
<1>8. Good(kind, c, h[n], r)
  BY <1>1, <1>7, GoodByParts
<1>9. Good(kind, c, InOrder(m, r, n), r)
  BY <1>3, <1>8
<1> QED  BY <1>9 DEF n

-----------------------------------------------------------------------------
(* apply_mapping: from the map at power up, or from one that follows the   *)
(* registers already, it makes the one that follows them.                  *)

\* What both starts have in common.
LEMMA StartParts ==
    ASSUME NEW k, NEW c, NEW m, NEW r, Start(k, c, m, r)
    PROVE  m \in Maps /\ (k \notin {"MMC2", "MMC4"} => m.ex = Chr0)
BY DEF Start, Default, Good, Follows, ExOf

\* Nothing changes the last bank of the boards with registers in order.
LEMMA StartRest ==
    ASSUME NEW k \in Ordered, NEW c, NEW m, NEW r, Start(k, c, m, r)
    PROVE  /\ k = "FME7" => Rest(k, m)
           /\ k # "FME7" => Rest(k, Sram(m))
<1>1. m \in Maps /\ m.ex = Chr0
  BY StartParts DEF Ordered
<1>2. m.prg[3] = PrgAt(1, -1, 0)
  <2>1. CASE Default(k, c, m)
    BY <2>1, Mmc3Last DEF Default
  <2>2. CASE Good(k, c, m, r)
    BY <2>2, GoodByParts DEF Rest
  <2> QED  BY <2>1, <2>2 DEF Start
<1>3. OnlyLow(Sram(m), m) /\ Sram(m).low = <<"sram">>
  BY <1>1, Low
<1>4. Sram(m) \in Maps /\ Seen(Sram(m)).low = <<"sram">>
  BY <1>3, SeenLow DEF OnlyLow
<1> QED  BY <1>1, <1>2, <1>3, <1>4 DEF Rest, OnlyLow

\* The boards that write their registers one after the other.
LEMMA ApplyOrdered ==
    ASSUME kind \in Ordered, NEW m, NEW r \in Regs, Start(kind, cart, m, r)
    PROVE  Good(kind, cart, ApplyMapping(m, r), r)
<1>1. CASE kind = "FME7"
  <2>1. Rest(kind, m) /\ Last(kind) + 1 = 13
    BY <1>1, StartRest DEF Last, Ordered
  <2>2. ApplyMapping(m, r) = InOrder(m, r, 13)
    BY <1>1 DEF ApplyMapping
  <2> QED  BY <2>1, <2>2, InOrderGood
<1>2. CASE kind = "Namco"
  <2>1. Rest(kind, Sram(m)) /\ Last(kind) + 1 = 16
    BY <1>2, StartRest DEF Last, Ordered
  <2>2. ApplyMapping(m, r) = InOrder(Sram(m), r, 16)
    BY <1>2 DEF ApplyMapping
  <2> QED  BY <2>1, <2>2, InOrderGood
<1>3. CASE kind = "VRC6"
  <2>1. Rest(kind, Sram(m)) /\ Last(kind) + 1 = 11
    BY <1>3, StartRest DEF Last, Ordered
  <2>2. ApplyMapping(m, r) = InOrder(Sram(m), r, 11)
    BY <1>3 DEF ApplyMapping
  <2> QED  BY <2>1, <2>2, InOrderGood
<1> QED  BY <1>1, <1>2, <1>3 DEF Ordered

\* The boards that update only what changed, on the complemented register.
LEMMA ApplyComplement ==
    ASSUME kind \in {"AOROM", "GNROM", "ColorDreams", "M78"}, NEW m, NEW r \in Regs,
           Start(kind, cart, m, r)
    PROVE  Good(kind, cart, ApplyMapping(m, r), r)
<1>1. m \in Maps /\ m.ex = Chr0
  BY StartParts
<1> DEFINE old == 255 - r[0]
<1>2. /\ old \in 0..255
      /\ Bits(old, 0, 4) # Bits(r[0], 0, 4) /\ Bits(old, 4, 1) # Bits(r[0], 4, 1)
      /\ Bits(old, 4, 2) # Bits(r[0], 4, 2) /\ Bits(old, 0, 2) # Bits(r[0], 0, 2)
      /\ Bits(old, 4, 4) # Bits(r[0], 4, 4) /\ Bits(old, 0, 3) # Bits(r[0], 0, 3)
      /\ Bits(old, 3, 1) # Bits(r[0], 3, 1)
  <2>1. r[0] \in 0..255
    BY RegsAre
  <2> QED  BY <2>1, Complement
<1> HIDE DEF old
<1>3. CASE kind = "AOROM"
  <2>1. m.chr = Chr8(0)
    BY <1>3, FollowsAOROM DEF Start, Default, Good
  <2>2. Good("AOROM", cart, Aorom(m, r, old), r)
    BY <1>1, <1>2, <2>1, AoromGood
  <2>3. ApplyMapping(m, r) = Aorom(m, r, old)
    BY <1>3 DEF ApplyMapping, old
  <2> QED  BY <1>3, <2>2, <2>3
<1>4. CASE kind = "GNROM"
  <2>1. m.nt = DefaultNt(cart)
    BY <1>4, FollowsGNROM DEF Start, Default, Good
  <2>2. Good("GNROM", cart, Gnrom(m, r, old), r)
    BY <1>1, <1>2, <2>1, GnromGood
  <2>3. ApplyMapping(m, r) = Gnrom(m, r, old)
    BY <1>4 DEF ApplyMapping, old
  <2> QED  BY <1>4, <2>2, <2>3
<1>5. CASE kind = "ColorDreams"
  <2>1. m.nt = DefaultNt(cart)
    BY <1>5, FollowsColorDreams DEF Start, Default, Good
  <2>2. Good("ColorDreams", cart, ColorDreams(m, r, old), r)
    BY <1>1, <1>2, <2>1, ColorDreamsGood
  <2>3. ApplyMapping(m, r) = ColorDreams(m, r, old)
    BY <1>5 DEF ApplyMapping, old
  <2> QED  BY <1>5, <2>2, <2>3
<1>6. CASE kind = "M78"
  <2>1. m.prg = Prg2(0, -1) \/ m.prg = Prg2(Bits(r[0], 0, 3), -1)
    BY <1>6, FollowsM78 DEF Start, Default, Good
  <2>2. PICK low : m.prg = Prg2(low, -1)
    BY <2>1
  <2>3. Good("M78", cart, M78(m, r, old), r)
    BY <1>1, <1>2, <2>2, M78Good
  <2>4. ApplyMapping(m, r) = M78(m, r, old)
    BY <1>6 DEF ApplyMapping, old
  <2> QED  BY <1>6, <2>3, <2>4
<1> QED  BY <1>3, <1>4, <1>5, <1>6

\* The boards that write all they have.
LEMMA ApplyPlain ==
    ASSUME kind \in {"NROM", "UNROM", "CNROM", "Nina1", "M87", "Camerica", "Quattro"},
           NEW m, NEW r \in Regs, Start(kind, cart, m, r)
    PROVE  Good(kind, cart, ApplyMapping(m, r), r)
<1>1. CASE kind = "NROM"
  <2>1. Good("NROM", cart, m, r)
    <3>1. Start("NROM", cart, m, r)
      BY <1>1
    <3>2. /\ m \in Maps /\ m.prg = Prg2(0, -1) /\ m.chr = Chr8(0) /\ m.ex = Chr0
          /\ m.nt = DefaultNt(cart)
      BY <3>1, FollowsNROM DEF Start, Default, Good
    <3> QED  BY <3>2, FollowsNROM DEF Good
  <2>2. ApplyMapping(m, r) = m
    BY <1>1 DEF ApplyMapping
  <2> QED  BY <1>1, <2>1, <2>2
<1>2. CASE kind = "M87"
  <2>1. Good("M87", cart, m, r)
    <3>1. Start("M87", cart, m, r)
      BY <1>2
    <3>2. /\ m \in Maps /\ m.prg = Prg2(0, -1) /\ m.ex = Chr0 /\ m.nt = DefaultNt(cart)
      BY <3>1, FollowsM87 DEF Start, Default, Good
    <3> QED  BY <3>2, FollowsM87 DEF Good
  <2>2. ApplyMapping(m, r) = m
    BY <1>2 DEF ApplyMapping
  <2> QED  BY <1>2, <2>1, <2>2
<1>3. CASE kind = "UNROM"
  <2>1. Good("UNROM", cart, Unrom(m, r), r)
    BY <1>3, UnromGood
  <2>2. ApplyMapping(m, r) = Unrom(m, r)
    BY <1>3 DEF ApplyMapping
  <2> QED  BY <1>3, <2>1, <2>2
<1>4. CASE kind = "CNROM"
  <2>1. Good("CNROM", cart, Cnrom(m, r), r)
    BY <1>4, CnromGood DEF Start
  <2>2. ApplyMapping(m, r) = Cnrom(m, r)
    BY <1>4 DEF ApplyMapping
  <2> QED  BY <1>4, <2>1, <2>2
<1>5. CASE kind = "Nina1"
  <2>1. Good("Nina1", cart, Nina1(m, r), r)
    BY <1>5, Nina1Good DEF Start
  <2>2. ApplyMapping(m, r) = Nina1(m, r)
    BY <1>5 DEF ApplyMapping
  <2> QED  BY <1>5, <2>1, <2>2
<1>6. CASE kind = "Camerica"
  <2>1. Good("Camerica", cart, Camerica(m, r), r)
    BY <1>6, CamericaGood
  <2>2. ApplyMapping(m, r) = Camerica(m, r)
    BY <1>6 DEF ApplyMapping
  <2> QED  BY <1>6, <2>1, <2>2
<1>7. CASE kind = "Quattro"
  <2>1. Good("Quattro", cart, Quattro(m, r), r)
    BY <1>7, QuattroGood DEF Start
  <2>2. ApplyMapping(m, r) = Quattro(m, r)
    BY <1>7 DEF ApplyMapping
  <2> QED  BY <1>7, <2>1, <2>2
<1> QED  BY <1>1, <1>2, <1>3, <1>4, <1>5, <1>6, <1>7

\* MMC1 to MMC4.
LEMMA ApplyMmc ==
    ASSUME kind \in {"MMC1", "MMC2", "MMC3", "MMC4"}, NEW m, NEW r \in Regs,
           Start(kind, cart, m, r)
    PROVE  Good(kind, cart, ApplyMapping(m, r), r)
<1>1. m \in Maps
  BY StartParts
<1>2. CASE kind = "MMC1"
  <2>1. m.ex = Chr0
    BY <1>2, StartParts
  <2>2. OnlyLow(Sram(m), m) /\ Sram(m).low = <<"sram">>
    BY <1>1, Low
  <2>3. Sram(m) \in Maps /\ Sram(m).ex = Chr0 /\ Seen(Sram(m)).low = <<"sram">>
    BY <2>1, <2>2, SeenLow DEF OnlyLow
  <2>4. Good("MMC1", cart, Mmc1(Sram(m), r, 0), r)
    BY <2>3, Mmc1Good
  <2>5. ApplyMapping(m, r) = Mmc1(Sram(m), r, 0)
    BY <1>2 DEF ApplyMapping
  <2> QED  BY <1>2, <2>4, <2>5
<1>3. CASE kind = "MMC2"
  <2>1. Good("MMC2", cart, Mmc2(m, r), r)
    BY <1>1, Mmc2Good
  <2>2. ApplyMapping(m, r) = Mmc2(m, r)
    BY <1>3 DEF ApplyMapping
  <2> QED  BY <1>3, <2>1, <2>2
<1>4. CASE kind = "MMC3"
  <2>1. Good("MMC3", cart, Mmc3(m, r), r)
    BY <1>4, Mmc3Good
  <2>2. ApplyMapping(m, r) = Mmc3(m, r)
    BY <1>4 DEF ApplyMapping
  <2> QED  BY <1>4, <2>1, <2>2
<1>5. CASE kind = "MMC4"
  <2>1. m.prg = Prg2(0, -1) \/ m.prg = Prg2(r[0], -1)
    BY <1>5, FollowsMMC4 DEF Start, Default, Good
  <2>2. PICK low : m.prg = Prg2(low, -1)
    BY <2>1
  <2>3. Good("MMC4", cart, Mmc4(m, r), r)
    BY <1>1, <2>2, Mmc4Good
  <2>4. ApplyMapping(m, r) = Mmc4(m, r)
    BY <1>5 DEF ApplyMapping
  <2> QED  BY <1>5, <2>3, <2>4
<1> QED  BY <1>2, <1>3, <1>4, <1>5

\* apply_mapping of every board.
LEMMA ApplyGood ==
    ASSUME kind \in AllKinds, NEW m, NEW r \in Regs, Start(kind, cart, m, r)
    PROVE  Good(kind, cart, ApplyMapping(m, r), r)
BY ApplyOrdered, ApplyComplement, ApplyPlain, ApplyMmc, Zenon DEF AllKinds, Ordered

-----------------------------------------------------------------------------
(* What the invariant says of the properties the runs check                *)

\* Two maps that follow the same registers look the same.
LEMMA GoodSame ==
    ASSUME NEW a, NEW b, NEW r, Good(kind, cart, a, r), Good(kind, cart, b, r)
    PROVE  Same(a, b)
<1>1. a \in Maps /\ b \in Maps /\ Follows(kind, cart, a, r) /\ Follows(kind, cart, b, r)
  BY DEF Good
<1>2. /\ a.prg = b.prg /\ a.ex = b.ex /\ (kind # "M87" => a.chr = b.chr)
      /\ kind # "Namco" => a.nt = b.nt
      /\ kind \in Decides("low") => Seen(a).low = Seen(b).low
  BY <1>1 DEF Follows
<1>3. /\ Seen(a).prg = a.prg /\ Seen(a).chr = a.chr /\ Seen(a).ex = a.ex /\ Seen(a).nt = a.nt
      /\ Seen(b).prg = b.prg /\ Seen(b).chr = b.chr /\ Seen(b).ex = b.ex /\ Seen(b).nt = b.nt
  BY <1>1, SeenFields
<1>4. (kind \in Decides("chr") => kind # "M87") /\ (kind \in Decides("nt") => kind # "Namco")
  BY DEF Decides
<1>5. /\ Seen(a)["prg"] = Seen(b)["prg"] /\ Seen(a)["ex"] = Seen(b)["ex"]
      /\ kind \in Decides("chr") => Seen(a)["chr"] = Seen(b)["chr"]
      /\ kind \in Decides("nt") => Seen(a)["nt"] = Seen(b)["nt"]
      /\ kind \in Decides("low") => Seen(a)["low"] = Seen(b)["low"]
  BY <1>2, <1>3, <1>4
<1> QED  BY <1>5 DEF Same

\* What the assumption says of the board.
LEMMA BoardKnown ==
    ASSUME kind \in Kinds
    PROVE  kind \in AllKinds /\ MaxWrites[kind] \in Nat /\ \A d \in Data[kind] : d \in 0..255
BY BoardAssumption DEF Byte

\* The map at power up is one apply_mapping starts from.
LEMMA DefaultStarts ==
    ASSUME NEW m \in Maps, kind \notin {"MMC2", "MMC4"} => m.ex = Chr0, NEW r
    PROVE  Start(kind, cart, DefaultMap(m), r)
BY DefaultIs DEF Start

\* Parts of the invariant, spelt out.
LEMMA InvType == IInv => TypeOK
<1> SUFFICES ASSUME IInv PROVE TypeOK
  OBVIOUS
<1>1. /\ kind \in Kinds /\ cart \in Mirrors /\ map \in Maps /\ regs \in Regs
      /\ saved = None \/ saved \in Regs
      /\ loaded \in BOOLEAN /\ writes \in 0..MaxWrites[kind]
  BY DEF IInv, RegsOk
<1>2. /\ map.prg \in [0..3 -> PrgBanks] /\ map.chr \in [0..7 -> ChrBanks]
      /\ map.ex \in [0..7 -> ChrBanks] /\ map.nt \in [1..4 -> 0..3]
      /\ map.low \in Lows /\ map.lrom \in BOOLEAN
  BY <1>1, MapFields
<1> QED  BY <1>1, <1>2 DEF TypeOK, Regs, PrgBanks, ChrBanks, Lows

\* Power up and apply_mapping would give a map that follows the registers,
\* and the map does already.
LEMMA InvFollows == IInv => MapFollowsRegisters
<1> SUFFICES ASSUME IInv PROVE MapFollowsRegisters
  OBVIOUS
<1>1. kind \in Kinds /\ regs \in Regs /\ Good(kind, cart, map, regs)
  BY DEF IInv, RegsOk, Good
<1>2. kind \in AllKinds
  BY <1>1, BoardKnown
<1>3. map \in Maps /\ (kind \notin {"MMC2", "MMC4"} => map.ex = Chr0)
  BY <1>1, StartParts DEF Start
<1>4. Good(kind, cart, ApplyMapping(DefaultMap(map), regs), regs)
  BY <1>1, <1>2, <1>3, DefaultStarts, ApplyGood
<1> QED  BY <1>1, <1>4, GoodSame DEF MapFollowsRegisters

\* After a load the registers are the saved ones, and both maps follow them.
LEMMA InvRestores == IInv => LoadRestores
<1> SUFFICES ASSUME IInv, loaded PROVE Same(map, then)
  BY DEF LoadRestores
<1>1. regs = saved /\ Good(kind, cart, map, regs) /\ Good(kind, cart, then, saved)
  BY DEF IInv, Good
<1> QED  BY <1>1, GoodSame

-----------------------------------------------------------------------------
(* The steps                                                               *)

\* A step to a map that follows the registers it leaves.
LEMMA Becomes ==
    ASSUME IInv, NEW m, NEW r, Become(m, r), RegsOk(kind, r), Good(kind, cart, m, r),
           loaded' = FALSE, UNCHANGED <<kind, cart, saved, then>>,
           writes' \in 0..MaxWrites[kind]
    PROVE  IInv'
BY DEF IInv, Become, Good

\* The same for a write of the game, which is counted.
LEMMA WriteBecomes ==
    ASSUME IInv, NEW boards, Write(boards), NEW m, NEW r, Become(m, r),
           RegsOk(kind, r), Good(kind, cart, m, r)
    PROVE  IInv'
<1>1. writes \in 0..MaxWrites[kind] /\ MaxWrites[kind] \in Nat
  BY BoardKnown DEF IInv
<1>2. /\ loaded' = FALSE /\ UNCHANGED <<kind, cart, saved, then>>
      /\ writes < MaxWrites[kind] /\ writes' = writes + 1
  BY DEF Write
<1>3. writes' \in 0..MaxWrites[kind]
  BY <1>1, <1>2
<1> QED  BY <1>2, <1>3, Becomes

\* A register other than an FME-7's command takes any byte.
LEMMA RegsOkWritten ==
    ASSUME NEW s, RegsOk(kind, s), NEW i \in 0..15, NEW d, NEW r, Written(r, s, i, d),
           kind = "FME7" => i # 13
    PROVE  RegsOk(kind, r)
<1>1. kind = "FME7" => r[13] = s[13]
  BY DEF Written
<1> QED  BY <1>1 DEF RegsOk, Written

\* What the steps start from.
LEMMA Now ==
    ASSUME IInv
    PROVE  /\ kind \in AllKinds /\ regs \in Regs /\ RegsOk(kind, regs)
           /\ map \in Maps /\ Good(kind, cart, map, regs)
           /\ \A d \in Data[kind] : d \in 0..255
BY BoardKnown DEF IInv, RegsOk, Good

\* A byte written to a register.
LEMMA ByteWritten ==
    ASSUME IInv
    PROVE  \A i \in 0..15 : \A d \in 0..255 : Written([regs EXCEPT ![i] = d], regs, i, d)
<1>1. regs \in Regs
  BY Now
<1> QED  BY <1>1, RegWritten

\* The boards with one register.
LEMMA SimpleKeeps == IInv /\ WriteSimple => IInv'
<1> SUFFICES ASSUME IInv, WriteSimple PROVE IInv'
  OBVIOUS
<1>1. /\ regs \in Regs /\ RegsOk(kind, regs) /\ map \in Maps
      /\ Good(kind, cart, map, regs) /\ \A d \in Data[kind] : d \in 0..255
  BY Now
<1> DEFINE boards == {"UNROM", "AOROM", "CNROM", "Nina1", "GNROM", "ColorDreams", "M87"}
<1>2. kind \in boards /\ Write(boards)
  BY DEF WriteSimple, Write
<1>3. PICK d \in Data[kind] :
        LET r == [regs EXCEPT ![0] = d]
        IN  Become(CASE kind = "UNROM" -> SetPrg(map, 0, 2, d)
                     [] kind = "AOROM" -> Aorom(map, r, regs[0])
                     [] kind = "CNROM" -> Cnrom(map, r)
                     [] kind = "Nina1" -> Nina1(map, r)
                     [] kind = "GNROM" -> Gnrom(map, r, regs[0])
                     [] kind = "M87"   -> M87(map, r)
                     [] kind = "ColorDreams" -> ColorDreams(map, r, regs[0]), r)
  BY DEF WriteSimple
<1> DEFINE r == [regs EXCEPT ![0] = d]
           a == CASE kind = "UNROM" -> SetPrg(map, 0, 2, d)
                  [] kind = "AOROM" -> Aorom(map, r, regs[0])
                  [] kind = "CNROM" -> Cnrom(map, r)
                  [] kind = "Nina1" -> Nina1(map, r)
                  [] kind = "GNROM" -> Gnrom(map, r, regs[0])
                  [] kind = "M87"   -> M87(map, r)
                  [] kind = "ColorDreams" -> ColorDreams(map, r, regs[0])
<1>4. Become(a, r)
  BY <1>3
<1>5. d \in 0..255 /\ regs[0] \in 0..255
  BY <1>1, RegsAre
<1>6. Written(r, regs, 0, d)
  <2>1. 0 \in 0..15
    OBVIOUS
  <2> QED  BY <2>1, <1>5, ByteWritten
<1> HIDE DEF r
<1>7. r \in Regs /\ r[0] = d
  BY <1>6 DEF Written
<1>8. RegsOk(kind, r)
  BY <1>1, <1>6, RegsOkWritten
<1>9. Good(kind, cart, a, r)
  <2>1. CASE kind = "UNROM"
    <3>1. a = SetPrg(map, 0, 2, r[0])
      BY <1>7, <2>1
    <3> HIDE DEF a
    <3> QED  BY <1>1, <1>7, <2>1, <3>1, UnromGood
  <2>2. CASE kind = "AOROM"
    <3>1. a = Aorom(map, r, regs[0])
      BY <2>2
    <3> HIDE DEF a
    <3>2. /\ map.chr = Chr8(0) /\ map.ex = Chr0 /\ map.nt = SingleNt(Bits(regs[0], 4, 1))
          /\ map.prg = Prg4(Bits(regs[0], 0, 3))
      BY <1>1, <2>2, FollowsAOROM DEF Good
    <3>3. Good("AOROM", cart, Aorom(map, r, regs[0]), r)
      BY <1>1, <1>5, <1>7, <3>2, AoromGood
    <3> QED  BY <2>2, <3>1, <3>3
  <2>3. CASE kind = "CNROM"
    <3>1. a = Cnrom(map, r)
      BY <2>3
    <3> HIDE DEF a
    <3> QED  BY <1>1, <1>7, <2>3, <3>1, CnromGood
  <2>4. CASE kind = "Nina1"
    <3>1. a = Nina1(map, r)
      BY <2>4
    <3> HIDE DEF a
    <3> QED  BY <1>1, <1>7, <2>4, <3>1, Nina1Good
  <2>5. CASE kind = "GNROM"
    <3>1. a = Gnrom(map, r, regs[0])
      BY <2>5
    <3> HIDE DEF a
    <3>2. /\ map.ex = Chr0 /\ map.nt = DefaultNt(cart)
          /\ map.prg = Prg4(Bits(regs[0], 4, 2)) /\ map.chr = Chr8(Bits(regs[0], 0, 2))
      BY <1>1, <2>5, FollowsGNROM DEF Good
    <3>3. Good("GNROM", cart, Gnrom(map, r, regs[0]), r)
      BY <1>1, <1>5, <1>7, <3>2, GnromGood
    <3> QED  BY <2>5, <3>1, <3>3
  <2>6. CASE kind = "M87"
    <3>1. a = M87(map, r)
      BY <2>6
    <3> HIDE DEF a
    <3> QED  BY <1>1, <1>7, <2>6, <3>1, M87Good
  <2>7. CASE kind = "ColorDreams"
    <3>1. a = ColorDreams(map, r, regs[0])
      BY <2>7
    <3> HIDE DEF a
    <3>2. /\ map.ex = Chr0 /\ map.nt = DefaultNt(cart)
          /\ map.prg = Prg4(Bits(regs[0], 0, 4)) /\ map.chr = Chr8(Bits(regs[0], 4, 4))
      BY <1>1, <2>7, FollowsColorDreams DEF Good
    <3>3. Good("ColorDreams", cart, ColorDreams(map, r, regs[0]), r)
      BY <1>1, <1>5, <1>7, <3>2, ColorDreamsGood
    <3> QED  BY <2>7, <3>1, <3>3
  <2> HIDE DEF a
  <2> QED  BY <1>2, <2>1, <2>2, <2>3, <2>4, <2>5, <2>6, <2>7
<1> HIDE DEF a, boards
<1> QED  BY <1>2, <1>4, <1>8, <1>9, WriteBecomes

\* Camerica: the bank, or the mirroring with its marker bit.
LEMMA CamericaKeeps == IInv /\ WriteCamerica => IInv'
<1> SUFFICES ASSUME IInv, WriteCamerica PROVE IInv'
  OBVIOUS
<1>1. /\ regs \in Regs /\ RegsOk(kind, regs) /\ map \in Maps
      /\ Good(kind, cart, map, regs) /\ \A d \in Data[kind] : d \in 0..255
  BY Now
<1>2. kind = "Camerica" /\ Write({"Camerica"})
  BY DEF WriteCamerica, Write
<1>3. PICK d \in Data[kind] :
        \/ Become(SetPrg(map, 0, 2, d), [regs EXCEPT ![0] = d])
        \/ Become(Single(map, Bits(d, 4, 1)), [regs EXCEPT ![1] = 128 + (d % 128)])
  BY DEF WriteCamerica
<1>4. d \in 0..255
  BY <1>1
<1>5. CASE Become(SetPrg(map, 0, 2, d), [regs EXCEPT ![0] = d])
  <2> DEFINE r == [regs EXCEPT ![0] = d]
  <2>1. Written(r, regs, 0, d)
    <3>1. 0 \in 0..15
      OBVIOUS
    <3> QED  BY <3>1, <1>4, ByteWritten
  <2>2. Become(SetPrg(map, 0, 2, d), r)
    BY <1>5
  <2> HIDE DEF r
  <2>3. r \in Regs /\ r[0] = d /\ r[1] = regs[1]
    BY <2>1 DEF Written
  <2>4. RegsOk(kind, r)
    BY <1>1, <1>2, <2>1, RegsOkWritten
  <2>5. Good("Camerica", cart, SetPrg(map, 0, 2, r[0]), r)
    BY <1>1, <1>2, <2>3, CamericaBank
  <2> QED  BY <1>2, <2>2, <2>3, <2>4, <2>5, WriteBecomes
<1>6. CASE Become(Single(map, Bits(d, 4, 1)), [regs EXCEPT ![1] = 128 + (d % 128)])
  <2> DEFINE x == 128 + (d % 128)
             r == [regs EXCEPT ![1] = x]
  <2>1. x \in 0..255 /\ Bits(x, 4, 1) = Bits(d, 4, 1) /\ Bit(x, 7)
    BY <1>4 DEF Bit, Bits
  <2>2. Become(Single(map, Bits(x, 4, 1)), r)
    BY <1>6, <2>1
  <2> HIDE DEF x
  <2>3. Written(r, regs, 1, x)
    <3>1. 1 \in 0..15
      OBVIOUS
    <3> QED  BY <3>1, <2>1, ByteWritten
  <2> HIDE DEF r
  <2>4. r \in Regs /\ r[1] = x /\ r[0] = regs[0]
    BY <2>3 DEF Written
  <2>5. RegsOk(kind, r)
    BY <1>1, <1>2, <2>3, RegsOkWritten
  <2>6. Good("Camerica", cart, Single(map, Bits(r[1], 4, 1)), r)
    BY <1>1, <1>2, <2>1, <2>4, CamericaMirror
  <2> QED  BY <1>2, <2>2, <2>4, <2>5, <2>6, WriteBecomes
<1> QED  BY <1>3, <1>5, <1>6

\* Quattro: either of its registers.
LEMMA QuattroKeeps == IInv /\ WriteQuattro => IInv'
<1> SUFFICES ASSUME IInv, WriteQuattro PROVE IInv'
  OBVIOUS
<1>1. RegsOk(kind, regs) /\ Good(kind, cart, map, regs) /\ \A d \in Data[kind] : d \in 0..255
  BY Now
<1>2. kind = "Quattro" /\ Write({"Quattro"})
  BY DEF WriteQuattro, Write
<1>3. PICK d \in Data[kind], i \in 0..1 :
        Become(Quattro(map, [regs EXCEPT ![i] = d]), [regs EXCEPT ![i] = d])
  BY DEF WriteQuattro
<1> DEFINE r == [regs EXCEPT ![i] = d]
<1>4. i \in 0..15 /\ d \in 0..255
  BY <1>1
<1>5. Written(r, regs, i, d)
  BY <1>4, ByteWritten
<1>6. Become(Quattro(map, r), r)
  BY <1>3
<1> HIDE DEF r
<1>7. r \in Regs
  BY <1>5 DEF Written
<1>8. RegsOk(kind, r)
  BY <1>1, <1>2, <1>4, <1>5, RegsOkWritten
<1>9. Good("Quattro", cart, Quattro(map, r), r)
  BY <1>1, <1>2, <1>7, QuattroGood
<1> QED  BY <1>2, <1>6, <1>8, <1>9, WriteBecomes

\* r is s with two registers written, or one of MMC1's and its serial port.
TwoAre(r, s, i, d, j, e) ==
    r \in Regs /\ r[i] = d /\ r[j] = e /\ \A x \in (0..15) \ {i, j} : r[x] = s[x]
PortCleared(r, s, i, d) ==
    r \in Regs /\ r[i] = d /\ \A x \in (0..3) \ {i} : r[x] = s[x]

\* Two registers at once.
LEMMA TwoWritten ==
    ASSUME NEW s \in Regs, NEW i \in 0..15, NEW d \in 0..255, NEW j \in (0..15) \ {i},
           NEW e \in 0..255
    PROVE  TwoAre([s EXCEPT ![i] = d, ![j] = e], s, i, d, j, e)
<1> DEFINE r == [s EXCEPT ![i] = d, ![j] = e]
<1>1. s \in [0..15 -> 0..255]
  BY DEF Regs, RegCount, Byte
<1>2. r \in [0..15 -> 0..255]
  BY <1>1
<1>3. r[i] = d /\ r[j] = e
  BY <1>1
<1>4. ASSUME NEW x \in (0..15) \ {i, j} PROVE r[x] = s[x]
  BY <1>1
<1> QED  BY <1>2, <1>3, <1>4 DEF Regs, RegCount, Byte, TwoAre

\* MMC1's register, and its port cleared.
LEMMA PortWritten ==
    ASSUME NEW s \in Regs, NEW i \in 0..3, NEW d \in 0..255
    PROVE  PortCleared([s EXCEPT ![i] = d, ![4] = 0, ![5] = 0], s, i, d)
<1> DEFINE r == [s EXCEPT ![i] = d, ![4] = 0, ![5] = 0]
           q == [s EXCEPT ![i] = d, ![4] = 0]
<1>1. r = [q EXCEPT ![5] = 0]
  OBVIOUS
<1>2. i \in 0..15 /\ 4 \in (0..15) \ {i} /\ 5 \in 0..15 /\ 0 \in 0..255
  OBVIOUS
<1>3. TwoAre(q, s, i, d, 4, 0)
  BY <1>2, TwoWritten
<1> HIDE DEF q, r
<1>4. q \in Regs /\ q[i] = d /\ \A x \in (0..15) \ {i, 4} : q[x] = s[x]
  BY <1>3 DEF TwoAre
<1>5. Written(r, q, 5, 0)
  BY <1>1, <1>2, <1>4, RegWritten
<1>6. r \in Regs /\ \A x \in (0..15) \ {5} : r[x] = q[x]
  BY <1>5 DEF Written
<1>7. PortCleared(r, s, i, d)
  BY <1>4, <1>6 DEF PortCleared
<1> QED  BY <1>7 DEF r

\* Mapper 78: before its type is known, the write complements the old register,
\* so that every part is set.
LEMMA M78Keeps == IInv /\ WriteM78 => IInv'
<1> SUFFICES ASSUME IInv, WriteM78 PROVE IInv'
  OBVIOUS
<1>1. regs \in Regs /\ map \in Maps /\ \A d \in Data[kind] : d \in 0..255
  BY Now
<1>2. kind = "M78" /\ Write({"M78"})
  BY DEF WriteM78, Write
<1>3. /\ map.ex = Chr0 /\ map.prg = Prg2(Bits(regs[0], 0, 3), -1)
      /\ map.chr = Chr8(Bits(regs[0], 4, 4)) /\ map.nt = M78Nt(regs)
  <2>1. Good("M78", cart, map, regs)
    BY <1>2, Now
  <2> QED  BY <2>1, FollowsM78 DEF Good
<1> DEFINE known == regs[1] # 0
           R(d) == [regs EXCEPT ![0] = d, ![1] = IF known THEN @ ELSE IF d = 0 THEN 2 ELSE 1]
           Old(d) == IF known THEN regs[0] ELSE 255 - d
<1>4. PICK d \in Data[kind] : Become(M78(map, R(d), Old(d)), R(d))
  BY DEF WriteM78
<1> DEFINE e == IF known THEN regs[1] ELSE IF d = 0 THEN 2 ELSE 1
           r == [regs EXCEPT ![0] = d, ![1] = e]
           old == Old(d)
<1>5. d \in 0..255 /\ e \in 0..255 /\ regs[0] \in 0..255
  BY <1>1, RegsAre
<1>6. R(d) = r
  <2>1. regs \in [0..15 -> 0..255]
    BY <1>1 DEF Regs, RegCount, Byte
  <2> QED  BY <2>1
<1>7. Become(M78(map, r, old), r)
  BY <1>4, <1>6
<1>8. r \in Regs /\ r[0] = d /\ r[1] = e
  <2>1. 0 \in 0..15 /\ 1 \in (0..15) \ {0}
    OBVIOUS
  <2> HIDE DEF e
  <2>2. TwoAre(r, regs, 0, d, 1, e)
    BY <1>1, <1>5, <2>1, TwoWritten
  <2> HIDE DEF r
  <2> QED  BY <2>2 DEF TwoAre
<1>9. /\ old \in 0..255
      /\ known => old = regs[0] /\ r[1] = regs[1]
      /\ ~known => /\ Bits(old, 0, 3) # Bits(r[0], 0, 3) /\ Bits(old, 4, 4) # Bits(r[0], 4, 4)
                   /\ Bits(old, 3, 1) # Bits(r[0], 3, 1)
  <2>1. CASE known
    <3> HIDE DEF r
    <3> QED  BY <1>5, <1>8, <2>1
  <2>2. CASE ~known
    <3>1. old = 255 - r[0]
      BY <1>8, <2>2
    <3>2. 255 - d \in 0..255 /\ Bits(255 - d, 0, 3) # Bits(d, 0, 3)
          /\ Bits(255 - d, 4, 4) # Bits(d, 4, 4) /\ Bits(255 - d, 3, 1) # Bits(d, 3, 1)
      BY <1>5, Complement
    <3> HIDE DEF r, old
    <3> QED  BY <1>8, <2>2, <3>1, <3>2
  <2> QED  BY <2>1, <2>2
<1> HIDE DEF r, old, e, known
<1>10. Bits(old, 0, 3) = Bits(r[0], 0, 3) => Bits(regs[0], 0, 3) = Bits(old, 0, 3)
  BY <1>9
<1>11. Bits(old, 4, 4) = Bits(r[0], 4, 4) => map.chr = Chr8(Bits(old, 4, 4))
  BY <1>3, <1>9
<1>12. ASSUME Bits(old, 3, 1) = Bits(r[0], 3, 1) PROVE map.nt = M78Nt(r)
  <2>1. Bits(regs[0], 3, 1) = Bits(r[0], 3, 1) /\ r[1] = regs[1]
    BY <1>9, <1>12
  <2> QED  BY <1>3, <2>1 DEF M78Nt, Bit
<1>13. Good("M78", cart, M78(map, r, old), r)
  BY <1>1, <1>3, <1>8, <1>9, <1>10, <1>11, <1>12, M78Good
<1>14. RegsOk(kind, r)
  BY <1>2, <1>8 DEF RegsOk
<1> QED  BY <1>2, <1>7, <1>13, <1>14, WriteBecomes

\* The serial port's own registers decide nothing.
LEMMA Mmc1Alike ==
    ASSUME NEW c, NEW m, NEW r, NEW s, \A i \in 0..3 : r[i] = s[i], Good("MMC1", c, m, s)
    PROVE  Good("MMC1", c, m, r)
<1>1. r[0] = s[0] /\ r[1] = s[1] /\ r[2] = s[2] /\ r[3] = s[3]
  OBVIOUS
<1>2. Mmc1PrgOf(r) = Mmc1PrgOf(s) /\ Mmc1ChrOf(r) = Mmc1ChrOf(s) /\ Mmc1NtOf(r) = Mmc1NtOf(s)
  BY <1>1 DEF Mmc1PrgOf, Mmc1ChrOf, Mmc1NtOf
<1> QED  BY <1>2, FollowsMMC1 DEF Good

\* A bit to MMC1's port: what was collected stays below 16.
LEMMA SerialKeeps == IInv /\ SerialWrite => IInv'
<1> SUFFICES ASSUME IInv, SerialWrite PROVE IInv'
  OBVIOUS
<1>1. regs \in Regs /\ \A d \in Data[kind] : d \in 0..255
  BY Now
<1>2. /\ kind = "MMC1" /\ regs[5] < 4 /\ loaded' = FALSE
      /\ UNCHANGED <<kind, cart, saved, then, writes>>
  BY DEF SerialWrite
<1>3. PICK b \in 0..1 :
        /\ \E d \in Data[kind] : (d % 2^(regs[5] + 1)) = regs[4] + b * 2^regs[5]
        /\ Become(map, [regs EXCEPT ![4] = @ + b * 2^regs[5], ![5] = @ + 1])
  BY DEF SerialWrite
<1>4. PICK d \in Data[kind] : (d % 2^(regs[5] + 1)) = regs[4] + b * 2^regs[5]
  BY <1>3
<1> DEFINE x == regs[4] + b * 2^regs[5]
           y == regs[5] + 1
           r == [regs EXCEPT ![4] = x, ![5] = y]
<1>5. regs[5] \in 0..3 /\ d \in 0..255
  <2>1. 5 \in 0..15
    OBVIOUS
  <2>2. regs[5] \in 0..255
    BY <1>1, <2>1, RegsAre
  <2> QED  BY <1>1, <1>2, <2>2
<1>6. x \in 0..255
  <2>1. 2^1 = 2 /\ 2^2 = 4 /\ 2^3 = 8 /\ 2^4 = 16
    OBVIOUS
  <2> DEFINE n == regs[5] + 1
  <2>2. n \in {1, 2, 3, 4}
    BY <1>5
  <2>3. x = d % 2^n
    BY <1>4
  <2> HIDE DEF n, x
  <2>4. 2^n \in {2, 4, 8, 16}
    BY <2>1, <2>2
  <2>5. PICK c \in {2, 4, 8, 16} : x = d % c
    BY <2>3, <2>4
  <2> QED  BY <1>5, <2>5
<1>7. y \in 0..255
  BY <1>5
<1>8. Become(map, r)
  <2>1. regs \in [0..15 -> 0..255]
    BY <1>1 DEF Regs, RegCount, Byte
  <2>2. [regs EXCEPT ![4] = @ + b * 2^regs[5], ![5] = @ + 1] = r
    BY <2>1
  <2> QED  BY <1>3, <2>2
<1>9. r \in Regs /\ \A i \in (0..15) \ {4, 5} : r[i] = regs[i]
  <2>1. 4 \in 0..15 /\ 5 \in (0..15) \ {4}
    OBVIOUS
  <2> HIDE DEF x, y
  <2>2. TwoAre(r, regs, 4, x, 5, y)
    BY <1>1, <1>6, <1>7, <2>1, TwoWritten
  <2> HIDE DEF r
  <2> QED  BY <2>2 DEF TwoAre
<1> HIDE DEF r
<1>10. Good("MMC1", cart, map, r)
  <2>1. \A i \in 0..3 : r[i] = regs[i]
    BY <1>9
  <2>2. Good("MMC1", cart, map, regs)
    BY <1>2, Now
  <2> QED  BY <2>1, <2>2, Mmc1Alike
<1>11. RegsOk(kind, r)
  BY <1>2, <1>9 DEF RegsOk
<1>12. writes' \in 0..MaxWrites[kind]
  BY <1>2 DEF IInv
<1> QED  BY <1>2, <1>8, <1>10, <1>11, <1>12, Becomes

\* The fifth bit, and the reset of the port: a register and the port are written.
LEMMA Mmc1Keeps == IInv /\ WriteMmc1 => IInv'
<1> SUFFICES ASSUME IInv, WriteMmc1 PROVE IInv'
  OBVIOUS
<1>1. regs \in Regs /\ map \in Maps /\ \A d \in Data[kind] : d \in 0..255
  BY Now
<1>2. kind = "MMC1" /\ Write({"MMC1"})
  BY DEF WriteMmc1, Write
<1>3. /\ map.ex = Chr0 /\ Seen(map).low = <<"sram">>
      /\ map.nt = Mmc1NtOf(regs) /\ map.chr = Mmc1ChrOf(regs)
  <2>1. Good("MMC1", cart, map, regs)
    BY <1>2, Now
  <2> QED  BY <2>1, FollowsMMC1 DEF Good
<1> DEFINE R(i, d) == [regs EXCEPT ![i] = d, ![4] = 0, ![5] = 0]
<1>4. ASSUME NEW i \in 0..3, NEW d \in 0..255, Become(Mmc1(map, R(i, d), i), R(i, d)) PROVE IInv'
  <2> DEFINE r == R(i, d)
  <2>1. r \in Regs /\ r[i] = d /\ \A x \in (0..3) \ {i} : r[x] = regs[x]
    <3>1. PortCleared(r, regs, i, d)
      BY <1>1, PortWritten
    <3> HIDE DEF r, R
    <3> QED  BY <3>1 DEF PortCleared
  <2>2. Become(Mmc1(map, r, i), r)
    BY <1>4
  <2> HIDE DEF r, R
  <2>3. ASSUME i # 0 PROVE map.nt = Mmc1NtOf(r)
    <3>1. r[0] = regs[0]
      BY <2>1, <2>3
    <3> QED  BY <1>3, <3>1 DEF Mmc1NtOf
  <2>4. ASSUME i = 3 PROVE map.chr = Mmc1ChrOf(r)
    <3>1. r[0] = regs[0] /\ r[1] = regs[1] /\ r[2] = regs[2]
      BY <2>1, <2>4
    <3> QED  BY <1>3, <3>1 DEF Mmc1ChrOf
  <2>5. Good("MMC1", cart, Mmc1(map, r, i), r)
    BY <1>1, <1>3, <2>1, <2>3, <2>4, Mmc1Good
  <2>6. RegsOk(kind, r)
    BY <1>2, <2>1 DEF RegsOk
  <2> QED  BY <1>2, <2>2, <2>5, <2>6, WriteBecomes
<1>5. \/ \E i \in 0..3, d \in Data[kind] : Become(Mmc1(map, R(i, d), i), R(i, d))
      \/ Become(Mmc1(map, R(0, regs[0] - 4 * Bits(regs[0], 2, 2) + 12), 0),
                R(0, regs[0] - 4 * Bits(regs[0], 2, 2) + 12))
  BY DEF WriteMmc1
<1>6. regs[0] - 4 * Bits(regs[0], 2, 2) + 12 \in 0..255
  <2>1. regs[0] \in 0..255
    BY <1>1, RegsAre
  <2> QED  BY <2>1 DEF Bits
<1> HIDE DEF R
<1> QED  BY <1>1, <1>4, <1>5, <1>6

\* MMC2 and MMC4.
LEMMA Mmc24Keeps == IInv /\ WriteMmc24 => IInv'
<1> SUFFICES ASSUME IInv, WriteMmc24 PROVE IInv'
  OBVIOUS
<1>1. regs \in Regs /\ RegsOk(kind, regs) /\ Good(kind, cart, map, regs)
      /\ \A d \in Data[kind] : d \in 0..255
  BY Now
<1>2. kind \in {"MMC2", "MMC4"} /\ Write({"MMC2", "MMC4"})
  BY DEF WriteMmc24, Write
<1>3. PICK d \in Data[kind], i \in 0..5 :
        Become(Mmc24Write(map, [regs EXCEPT ![i] = d], i), [regs EXCEPT ![i] = d])
  BY DEF WriteMmc24
<1> DEFINE r == [regs EXCEPT ![i] = d]
<1>4. i \in 0..15 /\ d \in 0..255
  BY <1>1
<1>5. Written(r, regs, i, d)
  BY <1>4, ByteWritten
<1>6. Become(Mmc24Write(map, r, i), r)
  BY <1>3
<1> HIDE DEF r
<1>7. RegsOk(kind, r)
  BY <1>1, <1>2, <1>4, <1>5, RegsOkWritten
<1>8. Good(kind, cart, Mmc24Write(map, r, i), r)
  BY <1>1, <1>2, <1>4, <1>5, Mmc24WriteGood
<1> QED  BY <1>2, <1>6, <1>7, <1>8, WriteBecomes

\* MMC3's mode: banks move only where its two top bits changed.
LEMMA Mmc3ModeKeeps == IInv /\ WriteMmc3Mode => IInv'
<1> SUFFICES ASSUME IInv, WriteMmc3Mode PROVE IInv'
  OBVIOUS
<1>1. regs \in Regs /\ RegsOk(kind, regs) /\ \A d \in Data[kind] : d \in 0..255
  BY Now
<1>2. kind = "MMC3" /\ Write({"MMC3"})
  BY DEF WriteMmc3Mode, Write
<1>3. Good("MMC3", cart, map, regs)
  BY <1>2, Now
<1> DEFINE R(d) == [regs EXCEPT ![8] = d]
           X(d) == IF Bit(regs[8], 7) # Bit(d, 7) THEN Mmc3Chr(map, R(d)) ELSE map
           A(d) == IF Bit(regs[8], 6) # Bit(d, 6) THEN Mmc3Prg(X(d), R(d)) ELSE X(d)
<1>4. PICK d \in Data[kind] : Become(A(d), R(d))
  BY DEF WriteMmc3Mode
<1> DEFINE r == R(d)  x == X(d)  a == A(d)
<1>5. d \in 0..255
  BY <1>1
<1>6. Written(r, regs, 8, d)
  <2>1. 8 \in 0..15
    OBVIOUS
  <2> QED  BY <1>5, <2>1, ByteWritten
<1>7. /\ Become(a, r)
      /\ x = (IF Bit(regs[8], 7) # Bit(d, 7) THEN Mmc3Chr(map, r) ELSE map)
      /\ a = (IF Bit(regs[8], 6) # Bit(d, 6) THEN Mmc3Prg(x, r) ELSE x)
  BY <1>4
<1> HIDE DEF r, x, a
<1>8. Good("MMC3", cart, a, r)
  <2>1. regs \in Regs
    BY <1>1
  <2>2. /\ x = (IF Bit(regs[8], 7) # Bit(d, 7) THEN Mmc3Chr(map, r) ELSE map)
        /\ a = (IF Bit(regs[8], 6) # Bit(d, 6) THEN Mmc3Prg(x, r) ELSE x)
    BY <1>7
  <2>3. Mmc3ModeWritten(map, regs, d, r, x, a)
    BY <1>3, <1>5, <1>6, <2>1, <2>2 DEF Mmc3ModeWritten
  <2> QED  BY <2>3, Mmc3ModeGood
<1>9. RegsOk(kind, r)
  BY <1>2, <1>6 DEF RegsOk, Written
<1> QED  BY <1>2, <1>7, <1>8, <1>9, WriteBecomes

\* MMC3's banks.
LEMMA Mmc3BankKeeps == IInv /\ WriteMmc3Bank => IInv'
<1> SUFFICES ASSUME IInv, WriteMmc3Bank PROVE IInv'
  OBVIOUS
<1>1. regs \in Regs /\ RegsOk(kind, regs) /\ \A d \in Data[kind] : d \in 0..255
  BY Now
<1>2. kind = "MMC3" /\ Write({"MMC3"})
  BY DEF WriteMmc3Bank, Write
<1>3. Good("MMC3", cart, map, regs)
  BY <1>2, Now
<1> DEFINE bank == Bits(regs[8], 0, 3)
           R(d) == [regs EXCEPT ![bank] = d]
           A(d) == IF bank < 6 THEN Mmc3Chr(map, R(d)) ELSE Mmc3Prg(map, R(d))
<1>4. PICK d \in Data[kind] : Become(A(d), R(d))
  BY DEF WriteMmc3Bank
<1> DEFINE r == R(d)  a == A(d)
<1>5. d \in 0..255 /\ bank \in 0..7
  <2>1. 8 \in 0..15
    OBVIOUS
  <2>2. regs[8] \in Nat
    BY <1>1, <2>1, RegsAre
  <2> QED  BY <1>1, <2>2, BitsAre
<1> HIDE DEF bank
<1>6. Written(r, regs, bank, d)
  <2>1. bank \in 0..15
    BY <1>5
  <2> QED  BY <1>5, <2>1, ByteWritten
<1>7. Become(a, r) /\ a = (IF bank < 6 THEN Mmc3Chr(map, r) ELSE Mmc3Prg(map, r))
  BY <1>4
<1> HIDE DEF r, a
<1>8. Good("MMC3", cart, a, r)
  BY <1>1, <1>3, <1>5, <1>6, <1>7, Mmc3BankGood
<1>9. RegsOk(kind, r)
  BY <1>2, <1>6 DEF RegsOk, Written
<1> QED  BY <1>2, <1>7, <1>8, <1>9, WriteBecomes

\* MMC3's mirroring and its memory at $6000.
LEMMA Mmc3OtherKeeps == IInv /\ WriteMmc3Other => IInv'
<1> SUFFICES ASSUME IInv, WriteMmc3Other PROVE IInv'
  OBVIOUS
<1>1. regs \in Regs /\ RegsOk(kind, regs) /\ \A d \in Data[kind] : d \in 0..255
  BY Now
<1>2. kind = "MMC3" /\ Write({"MMC3"})
  BY DEF WriteMmc3Other, Write
<1>3. Good("MMC3", cart, map, regs)
  BY <1>2, Now
<1> DEFINE R(i, d) == [regs EXCEPT ![i] = d]
           A(i, d) == IF i = 9 THEN Mmc3Mirror(map, R(i, d)) ELSE Mmc3Sram(map, R(i, d))
<1>4. ASSUME NEW d \in 0..255, NEW i \in {9, 10}, Become(A(i, d), R(i, d)) PROVE IInv'
  <2> DEFINE r == R(i, d)  a == A(i, d)
  <2>1. Written(r, regs, i, d)
    <3>1. i \in 0..15
      OBVIOUS
    <3> QED  BY <3>1, ByteWritten
  <2>2. Become(a, r) /\ a = (IF i = 9 THEN Mmc3Mirror(map, r) ELSE Mmc3Sram(map, r))
    BY <1>4
  <2> HIDE DEF r, a, R, A
  <2>3. Good("MMC3", cart, a, r)
    BY <1>1, <1>3, <2>1, <2>2, Mmc3OtherGood
  <2>4. RegsOk(kind, r)
    BY <1>2, <2>1 DEF RegsOk, Written
  <2> QED  BY <1>2, <2>2, <2>3, <2>4, WriteBecomes
<1>5. PICK d \in Data[kind] :
        \/ Become(Mmc3Mirror(map, R(9, d)), R(9, d))
        \/ Become(Mmc3Sram(map, R(10, d)), R(10, d))
  BY DEF WriteMmc3Other
<1>6. Become(A(9, d), R(9, d)) \/ Become(A(10, d), R(10, d))
  BY <1>5
<1> HIDE DEF A, R
<1> QED  BY <1>1, <1>4, <1>6

\* An FME-7's command decides nothing.
LEMMA CommandAlike ==
    ASSUME NEW c, NEW m, NEW r, NEW s, \A i \in (0..15) \ {13} : r[i] = s[i], Good("FME7", c, m, s)
    PROVE  Good("FME7", c, m, r)
<1>1. \A i \in 0..12 : r[i] = s[i]
  OBVIOUS
<1>2. "FME7" \in Ordered /\ Last("FME7") = 12
  BY DEF Ordered, Last
<1>3. Rest("FME7", m) /\ \A i \in 0..12 : Right("FME7", i, m, s)
  BY <1>2, GoodByParts
<1>4. ASSUME NEW i \in 0..12 PROVE Right("FME7", i, m, r)
  <2>1. i \in 0..15 /\ r[i] = s[i]
    BY <1>1
  <2> QED  BY <1>2, <1>3, <2>1, RightAlike
<1> QED  BY <1>2, <1>3, <1>4, GoodByParts

\* Selecting an FME-7's register.
LEMMA CommandKeeps == IInv /\ Command => IInv'
<1> SUFFICES ASSUME IInv, Command PROVE IInv'
  OBVIOUS
<1>1. /\ kind = "FME7" /\ loaded' = FALSE
      /\ UNCHANGED <<kind, cart, saved, then, writes>>
  BY DEF Command
<1>2. PICK i \in Commands : Become(map, [regs EXCEPT ![13] = i])
  BY DEF Command
<1> DEFINE r == [regs EXCEPT ![13] = i]
<1>3. i \in 0..12
  BY BoardAssumption
<1>4. Written(r, regs, 13, i)
  <2>1. 13 \in 0..15 /\ i \in 0..255
    BY <1>3
  <2> QED  BY <2>1, ByteWritten
<1>5. Become(map, r)
  BY <1>2
<1> HIDE DEF r
<1>6. r \in Regs /\ r[13] = i /\ \A j \in (0..15) \ {13} : r[j] = regs[j]
  BY <1>4 DEF Written
<1>7. Good("FME7", cart, map, r)
  <2>1. Good("FME7", cart, map, regs)
    BY <1>1, Now
  <2> QED  BY <1>6, <2>1, CommandAlike
<1>8. RegsOk(kind, r)
  BY <1>3, <1>6 DEF RegsOk
<1>9. writes' \in 0..MaxWrites[kind]
  BY <1>1 DEF IInv
<1> QED  BY <1>1, <1>5, <1>7, <1>8, <1>9, Becomes

\* A write to a register of the boards that have a part for each.
LEMMA RegisterKeeps ==
    ASSUME IInv, kind \in Ordered, Write({kind}), NEW i \in 0..Last(kind), NEW d \in Data[kind],
           Become(Register(map, [regs EXCEPT ![i] = d], i), [regs EXCEPT ![i] = d])
    PROVE  IInv'
<1>1. RegsOk(kind, regs) /\ Good(kind, cart, map, regs) /\ d \in 0..255
  BY Now
<1>2. i \in 0..15 /\ (kind = "FME7" => i # 13)
  BY DEF Last
<1> DEFINE r == [regs EXCEPT ![i] = d]
<1>3. Written(r, regs, i, d)
  BY <1>1, <1>2, ByteWritten
<1>4. Become(Register(map, r, i), r)
  OBVIOUS
<1> HIDE DEF r
<1>5. RegsOk(kind, r)
  BY <1>1, <1>2, <1>3, RegsOkWritten
<1>6. Good(kind, cart, Register(map, r, i), r)
  BY <1>1, <1>3, RegisterGood
<1> QED  BY <1>4, <1>5, <1>6, WriteBecomes

\* FME-7, Namco 106 and VRC6: a write to any register.
LEMMA OrderedKeeps == IInv /\ (WriteFme7 \/ WriteNamco \/ WriteVrc6) => IInv'
<1> SUFFICES ASSUME IInv, WriteFme7 \/ WriteNamco \/ WriteVrc6 PROVE IInv'
  OBVIOUS
<1>1. CASE WriteFme7
  <2>1. kind = "FME7" /\ Write({kind})
    BY <1>1 DEF WriteFme7, Write
  <2>2. PICK d \in Data[kind] :
          Become(Register(map, [regs EXCEPT ![regs[13]] = d], regs[13]), [regs EXCEPT ![regs[13]] = d])
    BY <1>1 DEF WriteFme7
  <2>3. regs[13] \in 0..Last(kind) /\ kind \in Ordered
    BY <2>1, Now DEF RegsOk, Last, Ordered
  <2> QED  BY <2>1, <2>2, <2>3, RegisterKeeps
<1>2. CASE WriteNamco
  <2>1. kind = "Namco" /\ Write({kind})
    BY <1>2 DEF WriteNamco, Write
  <2>2. PICK d \in Data[kind], i \in 0..15 :
          Become(Register(map, [regs EXCEPT ![i] = d], i), [regs EXCEPT ![i] = d])
    BY <1>2 DEF WriteNamco
  <2>3. i \in 0..Last(kind) /\ kind \in Ordered
    BY <2>1 DEF Last, Ordered
  <2> QED  BY <2>1, <2>2, <2>3, RegisterKeeps
<1>3. CASE WriteVrc6
  <2>1. kind = "VRC6" /\ Write({kind})
    BY <1>3 DEF WriteVrc6, Write
  <2>2. PICK d \in Data[kind], i \in 0..10 :
          Become(Register(map, [regs EXCEPT ![i] = d], i), [regs EXCEPT ![i] = d])
    BY <1>3 DEF WriteVrc6
  <2>3. i \in 0..Last(kind) /\ kind \in Ordered
    BY <2>1 DEF Last, Ordered
  <2> QED  BY <2>1, <2>2, <2>3, RegisterKeeps
<1> QED  BY <1>1, <1>2, <1>3

\* The registers of a reset.
LEMMA InitialOk ==
    ASSUME kind \in AllKinds, cart \in Nat
    PROVE  RegsOk(kind, InitialRegs)
<1> DEFINE zero == [i \in 0..(RegCount - 1) |-> 0]
<1>1. /\ zero \in Regs /\ \A i \in 0..15 : zero[i] = 0
      /\ {0, 2, 1, 8, 13, 14, 9} \subseteq 0..15 /\ {15, 1, 3, 64, 254} \subseteq 0..255
  BY DEF Regs, RegCount, Byte
<1>2. CASE kind = "MMC1"
  <2> DEFINE q == [zero EXCEPT ![0] = 15]
             r == [q EXCEPT ![2] = 1]
  <2>1. InitialRegs = r
    BY <1>2 DEF InitialRegs
  <2> HIDE DEF zero
  <2>2. 0 \in 0..15 /\ 15 \in 0..255 /\ 2 \in 0..15 /\ 1 \in 0..255 /\ zero \in [0..15 -> 0..255]
    BY <1>1 DEF Regs, RegCount, Byte
  <2>3. q \in [0..15 -> 0..255]
    BY <2>2
  <2> HIDE DEF q
  <2>4. r \in [0..15 -> 0..255]
    BY <2>2, <2>3
  <2> HIDE DEF r
  <2> QED  BY <1>2, <2>1, <2>4 DEF RegsOk, Regs, RegCount, Byte
<1>3. CASE kind = "Quattro"
  <2> DEFINE r == [zero EXCEPT ![1] = 3]
  <2>1. InitialRegs = r
    BY <1>3 DEF InitialRegs
  <2> HIDE DEF zero
  <2>2. Written(r, zero, 1, 3)
    BY <1>1, RegWritten
  <2> HIDE DEF r
  <2> QED  BY <1>3, <2>1, <2>2 DEF RegsOk, Written
<1>4. CASE kind = "MMC3"
  <2> DEFINE f == [i \in 0..9 |-> <<0, 2, 4, 5, 6, 7, 0, 1, 0, 1 - (cart % 2)>>[i + 1]]
             r == [i \in 0..(RegCount - 1) |-> IF i \in DOMAIN f THEN f[i] ELSE 0]
  <2>1. InitialRegs = r
    BY <1>4 DEF InitialRegs
  <2>2. \A i \in 0..9 : f[i] \in 0..255
    BY DEF f
  <2>3. DOMAIN f = 0..9
    OBVIOUS
  <2> HIDE DEF f
  <2>4. r \in [0..15 -> 0..255]
    BY <2>2, <2>3 DEF RegCount
  <2> HIDE DEF r
  <2> QED  BY <1>4, <2>1, <2>4 DEF RegsOk, Regs, RegCount, Byte
<1>5. CASE kind = "FME7"
  <2> DEFINE r == [zero EXCEPT ![8] = 64]
  <2>1. InitialRegs = r
    BY <1>5 DEF InitialRegs
  <2> HIDE DEF zero
  <2>2. Written(r, zero, 8, 64)
    BY <1>1, RegWritten
  <2> HIDE DEF r
  <2>3. r \in Regs /\ r[13] = zero[13]
    BY <2>2 DEF Written
  <2>4. zero[13] = 0
    BY <1>1
  <2> QED  BY <2>1, <2>3, <2>4 DEF RegsOk
<1>6. CASE kind = "Namco"
  <2> DEFINE q == [zero EXCEPT ![13] = 1]
             r == [q EXCEPT ![14] = 254]
  <2>1. InitialRegs = r
    BY <1>6 DEF InitialRegs
  <2> HIDE DEF zero
  <2>2. 13 \in 0..15 /\ 1 \in 0..255 /\ 14 \in 0..15 /\ 254 \in 0..255 /\ zero \in [0..15 -> 0..255]
    BY <1>1 DEF Regs, RegCount, Byte
  <2>3. q \in [0..15 -> 0..255]
    BY <2>2
  <2> HIDE DEF q
  <2>4. r \in [0..15 -> 0..255]
    BY <2>2, <2>3
  <2> HIDE DEF r
  <2> QED  BY <1>6, <2>1, <2>4 DEF RegsOk, Regs, RegCount, Byte
<1>7. CASE kind = "VRC6"
  <2> DEFINE r == [zero EXCEPT ![9] = 254]
  <2>1. InitialRegs = r
    BY <1>7 DEF InitialRegs
  <2> HIDE DEF zero
  <2>2. Written(r, zero, 9, 254)
    <3>1. zero \in Regs /\ 9 \in 0..15 /\ 254 \in 0..255
      BY <1>1
    <3> QED  BY <3>1, RegWritten
  <2> HIDE DEF r
  <2> QED  BY <1>7, <2>1, <2>2 DEF RegsOk, Written
<1>8. CASE kind \notin {"MMC1", "Quattro", "MMC3", "FME7", "Namco", "VRC6"}
  <2>1. InitialRegs = zero
    BY <1>8 DEF InitialRegs
  <2> HIDE DEF zero
  <2> QED  BY <1>1, <1>8, <2>1 DEF RegsOk
<1> QED  BY <1>2, <1>3, <1>4, <1>5, <1>6, <1>7, <1>8

\* The registers applied to the map at power up.
LEMMA PoweredUp ==
    ASSUME kind \in AllKinds, NEW m \in Maps, kind \notin {"MMC2", "MMC4"} => m.ex = Chr0,
           NEW r \in Regs
    PROVE  Good(kind, cart, ApplyMapping(DefaultMap(m), r), r)
BY DefaultStarts, ApplyGood

\* A cartridge just reset.
LEMMA InitHolds == Init => IInv
<1> SUFFICES ASSUME Init PROVE IInv
  OBVIOUS
<1>1. /\ kind \in Kinds /\ cart \in Mirrors /\ regs = InitialRegs
      /\ saved = None /\ loaded = FALSE /\ writes = 0
  BY DEF Init
<1>2. kind \in AllKinds /\ cart \in Nat /\ MaxWrites[kind] \in Nat
  BY <1>1, BoardKnown, BoardAssumption
<1>3. RegsOk(kind, regs)
  BY <1>1, <1>2, InitialOk
<1> DEFINE zero == [p \in 0..7 |-> 0]
           m == [prg |-> [p \in 0..3 |-> 0], chr |-> zero, ex |-> zero,
                 nt |-> <<0, 0, 0, 0>>, low |-> <<"open bus">>, lrom |-> FALSE]
<1>4. map = ApplyMapping(DefaultMap(m), regs)
  BY DEF Init
<1>5. m \in Maps /\ m.ex = Chr0
  <2>1. zero \in [0..7 -> ChrBanks] /\ [p \in 0..3 |-> 0] \in [0..3 -> PrgBanks]
    BY Sizes
  <2>2. <<0, 0, 0, 0>> \in [1..4 -> 0..3]
    OBVIOUS
  <2>3. <<"open bus">> \in Lows
    BY DEF Lows
  <2> QED  BY <2>1, <2>2, <2>3 DEF Maps, Chr0
<1> HIDE DEF m
<1>6. regs \in Regs
  BY <1>3 DEF RegsOk
<1>7. Good(kind, cart, map, regs)
  BY <1>2, <1>4, <1>5, <1>6, PoweredUp
<1>8. map \in Maps /\ Follows(kind, cart, map, regs)
  BY <1>7 DEF Good
<1>9. writes \in 0..MaxWrites[kind]
  BY <1>1, <1>2
<1>10. loaded \in BOOLEAN /\ ~loaded
  BY <1>1
<1> QED  BY <1>1, <1>3, <1>8, <1>9, <1>10, Zenon DEF IInv

\* A reset, of the console or of the cartridge only.
LEMMA ResetKeeps ==
    ASSUME IInv, NEW full \in BOOLEAN, Reset(full)
    PROVE  IInv'
<1>1. /\ kind \in Kinds /\ kind \in AllKinds /\ cart \in Nat /\ writes \in 0..MaxWrites[kind]
      /\ map \in Maps /\ Good(kind, cart, map, regs)
  BY Now, BoardAssumption DEF IInv
<1> DEFINE m == IF full THEN [map EXCEPT !.low = <<"open bus">>, !.lrom = FALSE] ELSE map
           a == ApplyMapping(DefaultMap(m), InitialRegs)
<1>2. /\ Become(a, InitialRegs) /\ loaded' = FALSE
      /\ UNCHANGED <<kind, cart, saved, then, writes>>
  BY DEF Reset
<1>3. m \in Maps /\ m.ex = map.ex
  <2>1. <<"open bus">> \in Lows
    BY DEF Lows
  <2> QED  BY <1>1, <2>1 DEF Maps
<1> HIDE DEF m
<1>4. kind \notin {"MMC2", "MMC4"} => m.ex = Chr0
  BY <1>1, <1>3, StartParts DEF Start
<1>5. RegsOk(kind, InitialRegs) /\ InitialRegs \in Regs
  BY <1>1, InitialOk DEF RegsOk
<1>6. Good(kind, cart, a, InitialRegs)
  BY <1>1, <1>3, <1>4, <1>5, PoweredUp
<1> HIDE DEF a
<1>7. writes' \in 0..MaxWrites[kind]
  BY <1>1, <1>2
<1> QED  BY <1>2, <1>5, <1>6, <1>7, Becomes

\* Saving takes map and registers as they are.
LEMMA SaveKeeps == IInv /\ Save => IInv'
BY DEF IInv, Save

\* A state loaded: the registers applied twice, the first time to the map at
\* power up, the second to a map that follows them.
LEMMA LoadedGood ==
    ASSUME kind \in AllKinds, NEW m \in Maps, kind \notin {"MMC2", "MMC4"} => m.ex = Chr0,
           NEW r \in Regs
    PROVE  Good(kind, cart, LoadedMap(m, r), r)
<1> DEFINE b == SetChr(m, 0, 8, 0)  n == Single(b, 0)  s == Sram(n)
           a == ApplyMapping(DefaultMap(s), r)
<1>1. LoadedMap(m, r) = ApplyMapping(a, r)
  BY DEF LoadedMap
<1>2. b \in Maps /\ b.ex = m.ex
  BY SetChr8 DEF OnlyChr
<1> HIDE DEF b
<1>3. n \in Maps /\ n.ex = m.ex
  <2>1. 0 \in 0..1
    OBVIOUS
  <2> QED  BY <1>2, <2>1, Mirroring DEF OnlyNt
<1> HIDE DEF n
<1>4. s \in Maps /\ s.ex = m.ex
  BY <1>3, Low DEF OnlyLow
<1> HIDE DEF s
<1>5. Good(kind, cart, a, r)
  BY <1>4, PoweredUp
<1> HIDE DEF a
<1> QED  BY <1>1, <1>5, ApplyGood DEF Start

\* Loading, whatever the map was.
LEMMA LoadKeeps == IInv /\ Load => IInv'
<1> SUFFICES ASSUME IInv, Load PROVE IInv'
  OBVIOUS
<1>1. /\ saved # None /\ loaded' = TRUE /\ UNCHANGED <<kind, cart, saved, then, writes>>
      /\ map' = LoadedMap(map, saved) /\ regs' = saved
  BY DEF Load, Become
<1>2. /\ kind \in AllKinds /\ map \in Maps /\ Good(kind, cart, map, regs)
      /\ RegsOk(kind, saved) /\ saved \in Regs
  BY <1>1, Now DEF IInv, RegsOk
<1>3. kind \notin {"MMC2", "MMC4"} => map.ex = Chr0
  BY <1>2, StartParts DEF Start
<1>4. Good(kind, cart, LoadedMap(map, saved), saved)
  BY <1>2, <1>3, LoadedGood
<1> DEFINE m == LoadedMap(map, saved)
<1>5. m \in Maps /\ Follows(kind, cart, m, saved) /\ map' = m
  BY <1>1, <1>4 DEF Good
<1> HIDE DEF m
<1> QED  BY <1>1, <1>2, <1>5 DEF IInv

\* Every step keeps the invariant.
LEMMA StepKeeps == IInv /\ [Next]_vars => IInv'
<1> SUFFICES ASSUME IInv, [Next]_vars PROVE IInv'
  OBVIOUS
<1>1. CASE UNCHANGED vars
  BY <1>1 DEF vars, IInv
<1>2. CASE Next
  <2>1. CASE WriteSimple \/ WriteCamerica \/ WriteQuattro \/ WriteM78
    BY <2>1, SimpleKeeps, CamericaKeeps, QuattroKeeps, M78Keeps
  <2>2. CASE SerialWrite \/ WriteMmc1 \/ WriteMmc24
    BY <2>2, SerialKeeps, Mmc1Keeps, Mmc24Keeps
  <2>3. CASE WriteMmc3Mode \/ WriteMmc3Bank \/ WriteMmc3Other
    BY <2>3, Mmc3ModeKeeps, Mmc3BankKeeps, Mmc3OtherKeeps
  <2>4. CASE Command \/ WriteFme7 \/ WriteNamco \/ WriteVrc6
    BY <2>4, CommandKeeps, OrderedKeeps
  <2>5. CASE Reset(TRUE) \/ Reset(FALSE)
    BY <2>5, ResetKeeps
  <2>6. CASE Save \/ Load
    BY <2>6, SaveKeeps, LoadKeeps
  <2> QED  BY <1>2, <2>1, <2>2, <2>3, <2>4, <2>5, <2>6 DEF Next
<1> QED  BY <1>1, <1>2

-----------------------------------------------------------------------------
(* The theorems                                                            *)

\* In every state the map is the one its registers make of it, board by
\* board, and so is the one that was saved.
THEOREM InvHolds == Spec => []IInv
BY InitHolds, StepKeeps, PTL DEF Spec

\* Registers are bytes and every page of the map is a bank of the memory.
THEOREM TypeCorrect == Spec => []TypeOK
BY InvHolds, InvType, PTL

\* Updating only what a write changed never leaves the memory map behind the
\* registers: at any time it is the one apply_mapping would make of them.
THEOREM FollowsRegisters == Spec => []MapFollowsRegisters
BY InvHolds, InvFollows, PTL

\* Loading a state gives the memory map back that the game had when it was
\* saved, whatever it did to the registers since.
THEOREM StatesRestore == Spec => []LoadRestores
BY InvHolds, InvRestores, PTL
=============================================================================
