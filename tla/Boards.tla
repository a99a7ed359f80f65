-------------------------------- MODULE Boards --------------------------------
(***************************************************************************)
(* The cartridge boards (mappers): what a game's writes make of the CPU's  *)
(* and the PPU's memory map, and what a saved state makes of it again.     *)
(* (Nes_Mapper.cpp, nes_mappers.cpp, misc_mappers.cpp, Nes_Mmc1.cpp,       *)
(* Nes_Mmc3.cpp, Mmc24.cpp, Mapper_Fme7.cpp, Mapper_Namco106.cpp,          *)
(* Mapper_Vrc6.cpp; the map itself in Nes_Core.cpp and Nes_Ppu_Impl.cpp.)  *)
(*                                                                         *)
(* The map is a record: prg holds the 8K bank of each of the four pages    *)
(* from $8000, chr the 1K bank of each page of the tiles, ex the second    *)
(* set of them that MMC2 and MMC4 switch to, nt the name table of each     *)
(* quarter, low what is in place at $6000, and lrom whether $6000 was ever *)
(* given to the ROM (lrom_readable, which nothing but a reset clears).     *)
(* The IRQ counters are in Mmc3 and CycleIrq, the sound chips left out.    *)
(***************************************************************************)
EXTENDS Integers, FiniteSets

CONSTANTS
    Kinds,    \* the boards of the run
    PrgPages, \* 8K banks of PRG
    ChrPages, \* 1K banks of CHR
    Mirrors,  \* cart->mirroring()
    Commands, \* registers selected on an FME-7
    Data,     \* Data[k]: the bytes written to registers of board k
    MaxWrites \* bound: MaxWrites[k] register writes in a run of board k

AllKinds == {"NROM", "UNROM", "AOROM", "CNROM", "Nina1", "GNROM", "ColorDreams",
             "M87", "Camerica", "Quattro", "M78", "MMC1", "MMC2", "MMC3", "MMC4",
             "FME7", "Namco", "VRC6"}
Byte     == 0..255
RegCount == 16

ASSUME BoardAssumption ==
    /\ Kinds \subseteq AllKinds
    /\ PrgPages \in Nat \ {0} /\ PrgPages % 4 = 0
    /\ ChrPages \in Nat \ {0} /\ ChrPages % 8 = 0
    /\ Mirrors \subseteq Nat /\ Commands \subseteq 0..12
    /\ \A k \in Kinds : Data[k] \subseteq Byte /\ MaxWrites[k] \in Nat

VARIABLES
    kind,   \* the board, never changed
    cart,   \* its mirroring() bits
    regs,   \* the registered state of the mapper
    map,    \* the memory map
    saved,  \* the registers of the saved state
    then,   \* ghost: the memory map when it was saved
    loaded, \* ghost: the last step loaded it
    writes  \* ghost: so far

vars == <<kind, cart, regs, map, saved, then, loaded, writes>>

None == <<>>
-----------------------------------------------------------------------------
(* The map                                                                 *)

\* set_prg_bank: bank of n pages of 8K at a page from $8000; negative banks
\* count from the end
SetPrg_NoWrap(m, page, n, bank) ==
    [m EXCEPT !.prg = [p \in 0..3 |-> IF p \in page..(page + n - 1)
        THEN (bank * n) + p - page ELSE @[p]]]
SetPrg(m, page, n, bank) ==
    [m EXCEPT !.prg = [p \in 0..3 |-> IF p \in page..(page + n - 1)
        THEN ((bank % (PrgPages \div n)) * n) + p - page ELSE @[p]]]

\* set_chr_bank, set_chr_bank_ex: bank of n pages of 1K at a page of the tiles
Paged(pages, page, n, bank) ==
    [p \in 0..7 |-> IF p \in page..(page + n - 1)
        THEN ((bank * n) % ChrPages) + p - page ELSE pages[p]]
SetChr(m, page, n, bank)   == [m EXCEPT !.chr = Paged(@, page, n, bank)]
SetChrEx(m, page, n, bank) == [m EXCEPT !.ex = Paged(@, page, n, bank)]

\* mirror_horiz, mirror_vert, mirror_single, mirror_full
Horiz(m, p)  == [m EXCEPT !.nt = <<p, p, 1 - p, 1 - p>>]
Vert(m, p)   == [m EXCEPT !.nt = <<p, 1 - p, p, 1 - p>>]
Single(m, p) == [m EXCEPT !.nt = <<p, p, p, p>>]
Full(m)      == [m EXCEPT !.nt = <<0, 1, 2, 3>>]
MirrorBy(m, horiz) == IF horiz THEN Horiz(m, 0) ELSE Vert(m, 0)

\* enable_sram; without it, reads find the open bus, or the filler of the
\* unmapped page where lrom_readable still lets them through
Sram(m)         == [m EXCEPT !.low = <<"sram">>]
SramReadOnly(m) == [m EXCEPT !.low = <<"read only">>]
Unmapped(m)     == [m EXCEPT !.low = IF m.lrom THEN <<"filler">> ELSE <<"open bus">>]

\* set_prg_bank at $6000, and enable_prg_6000
SetPrgLow(m, bank) == [m EXCEPT !.low = <<"prg", bank % PrgPages>>, !.lrom = TRUE]

Bits(v, from, size) == (v \div 2^from) % 2^size
Bit(v, k) == Bits(v, k, 1) = 1

-----------------------------------------------------------------------------
(* The simple boards: on their registers r and the map m.  Where a board   *)
(* only updates what changed, old is its register before the write.        *)

Unrom(m, r) == SetPrg(Sram(m), 0, 2, r[0])

Aorom_OnlyBank(m, r, old) ==
    IF Bits(old, 0, 4) # Bits(r[0], 0, 4)
    THEN SetPrg(Single(m, Bits(r[0], 4, 1)), 0, 4, Bits(r[0], 0, 3)) ELSE m
Aorom(m, r, old) ==
    LET n == IF Bit(old, 4) # Bit(r[0], 4) THEN Single(m, Bits(r[0], 4, 1)) ELSE m
    IN  IF Bits(old, 0, 4) # Bits(r[0], 0, 4) THEN SetPrg(n, 0, 4, Bits(r[0], 0, 3)) ELSE n

Cnrom(m, r) == SetChr(m, 0, 8, Bits(r[0], 0, 3))

Nina1(m, r) == SetPrg(m, 0, 4, r[0])

Gnrom(m, r, old) ==
    LET n == IF Bits(old, 4, 2) # Bits(r[0], 4, 2) THEN SetPrg(m, 0, 4, Bits(r[0], 4, 2)) ELSE m
    IN  IF Bits(old, 0, 2) # Bits(r[0], 0, 2) THEN SetChr(n, 0, 8, Bits(r[0], 0, 2)) ELSE n

ColorDreams(m, r, old) ==
    LET n == IF Bits(old, 0, 4) # Bits(r[0], 0, 4) THEN SetPrg(m, 0, 4, Bits(r[0], 0, 4)) ELSE m
    IN  IF Bits(old, 4, 4) # Bits(r[0], 4, 4) THEN SetChr(n, 0, 8, Bits(r[0], 4, 4)) ELSE n

\* write_intercepted at $6000
M87(m, r) == SetChr(m, 0, 8, r[0] \div 2)

\* the second register only mirrors once it was written, which its top bit tells
Camerica(m, r) ==
    LET n == SetPrg(m, 0, 2, r[0])
    IN  IF Bit(r[1], 7) THEN Single(n, Bits(r[1], 4, 1)) ELSE n

Quattro(m, r) ==
    LET bank == 4 * Bits(r[0], 3, 2)
    IN  SetPrg(SetPrg(m, 0, 2, bank + Bits(r[1], 0, 2)), 2, 2, bank + 3)

\* r[1] is the type of the board: 0 not known yet, 1 cosmo carrier, 2 holy
\* diver
M78(m, r, old) ==
    LET Changed(from, size) == Bits(old, from, size) # Bits(r[0], from, size)
        n == IF Changed(0, 3) THEN SetPrg(m, 0, 2, Bits(r[0], 0, 3)) ELSE m
        o == IF Changed(4, 4) THEN SetChr(n, 0, 8, Bits(r[0], 4, 4)) ELSE n
    IN  IF ~Changed(3, 1) THEN o
        ELSE CASE r[1] = 1 -> Single(o, Bits(r[0], 3, 1))
               [] r[1] = 2 -> MirrorBy(o, ~Bit(r[0], 3))
               [] OTHER    -> Single(o, 1)

-----------------------------------------------------------------------------
(* MMC1: r[4] and r[5] are buf and bit of its serial port                  *)

\* register_changed: PRG always, tiles and mirroring for their registers
Mmc1Prg(m, r) ==
    LET bank == 16 * Bits(r[1], 4, 1) + Bits(r[3], 0, 4)
    IN  CASE ~Bit(r[0], 3) -> SetPrg(m, 0, 4, bank \div 2)
          [] Bit(r[0], 3) /\ Bit(r[0], 2) ->
                SetPrg(SetPrg(m, 0, 2, bank), 2, 2, 16 * Bits(bank, 4, 1) + 15)
          [] OTHER -> SetPrg(SetPrg(m, 0, 2, 16 * Bits(bank, 4, 1)), 2, 2, bank)
Mmc1(m, r, reg) ==
    LET mode == Bits(r[0], 0, 2)
        n == CASE reg # 0 -> m
               [] reg = 0 /\ mode < 2 -> Single(m, mode)
               [] OTHER -> MirrorBy(m, mode = 3)
        o == CASE reg = 3 -> n
               [] reg # 3 /\ Bit(r[0], 4) -> SetChr(SetChr(n, 0, 4, r[1]), 4, 4, r[2])
               [] OTHER -> SetChr(n, 0, 8, r[1] \div 2)
    IN  Mmc1Prg(o, r)

-----------------------------------------------------------------------------
(* MMC2 and MMC4                                                           *)

Mmc24Chr(m, r) ==
    LET n == SetChr(SetChr(m, 0, 4, r[1]), 4, 4, r[3])
    IN  SetChrEx(SetChrEx(n, 0, 4, r[2]), 4, 4, r[4])

Mmc2(m, r) ==
    LET n == SetPrg(MirrorBy(m, Bit(r[5], 0)), 0, 1, r[0])
    IN  Mmc24Chr(SetPrg(SetPrg(SetPrg(n, 1, 1, 13), 2, 1, 14), 3, 1, 15), r)

Mmc4(m, r) == Mmc24Chr(SetPrg(MirrorBy(Sram(m), Bit(r[5], 0)), 0, 2, r[0]), r)

\* what a write to register i, of the six from $A000, changes
Mmc24Write(m, r, i) ==
    CASE i = 0 -> SetPrg(m, 0, IF kind = "MMC2" THEN 1 ELSE 2, r[0])
      [] i = 5 -> MirrorBy(m, Bit(r[5], 0))
      [] i \in {1, 3} -> SetChr(m, 2 * (i - 1), 4, r[i])
      [] i \in {2, 4} -> SetChrEx(m, 2 * (i - 2), 4, r[i])

-----------------------------------------------------------------------------
(* MMC3: banks in r[0] to r[7], then mode, mirror and sram_mode            *)

\* update_chr_banks: mode's top bit swaps the halves
Mmc3Chr(m, r) ==
    LET Page(p) == IF Bit(r[8], 7) THEN (p + 4) % 8 ELSE p
        n == SetChr(SetChr(m, Page(0), 2, r[0] \div 2), Page(2), 2, r[1] \div 2)
    IN  SetChr(SetChr(SetChr(SetChr(n, Page(4), 1, r[2]), Page(5), 1, r[3]),
               Page(6), 1, r[4]), Page(7), 1, r[5])

\* update_prg_banks
Mmc3Prg(m, r) ==
    LET page == 2 * Bits(r[8], 6, 1)
    IN  SetPrg(SetPrg(SetPrg(m, 1, 1, r[7]), page, 1, r[6]), 2 - page, 1, -2)

\* writes to $A000 and $A001
Mmc3Mirror(m, r) == IF Bit(cart, 3) THEN m ELSE MirrorBy(m, Bit(r[9], 0))
Mmc3Sram(m, r) ==
    IF Bits(r[10], 0, 6) = 48 THEN Sram(m)
    ELSE IF ~Bit(r[10], 7) THEN Unmapped(m)
    ELSE IF Bit(r[10], 6) THEN SramReadOnly(m) ELSE Sram(m)

Mmc3(m, r) == Mmc3Prg(Mmc3Chr(Mmc3Sram(Mmc3Mirror(m, r), r), r), r)

-----------------------------------------------------------------------------
(* FME-7, with the command in r[13]; Namco 106; VRC6, with the 16K bank in *)
(* r[8], the 8K bank in r[9] and the mirroring in r[10]                    *)

\* write_register
Fme7Register(m, r, i) ==
    CASE i \in 9..11 -> SetPrg(m, i - 9, 1, r[i])
      [] i < 8  -> SetChr(m, i, 1, r[i])
      [] i = 12 -> IF Bit(r[12], 1) THEN Single(m, Bits(r[12], 0, 1)) ELSE MirrorBy(m, Bit(r[12], 0))
      [] i = 8 /\ Bits(r[8], 6, 2) = 3 -> Sram(m)
      [] i = 8 /\ Bits(r[8], 6, 2) = 0 -> SetPrgLow(m, Bits(r[8], 0, 6))
      [] OTHER  -> Unmapped(m)

NamcoRegister(m, r, i) ==
    CASE i \in 12..14 -> SetPrg(IF i = 12 /\ Bit(r[12], 6) THEN Vert(m, 0) ELSE m,
                                i - 12, 1, Bits(r[i], 0, 6))
      [] i < 8 -> SetChr(m, i, 1, r[i])
      [] i \in 8..11 -> [m EXCEPT !.nt = <<r[8] % 2, r[9] % 2, r[10] % 2, r[11] % 2>>]
      [] OTHER -> m

\* write_bank at $B003
Vrc6Mirror(m, r) ==
    LET page == Bits(r[10], 5, 1)
    IN  IF Bit(r[10], 3) THEN Single(m, (Bits(r[10], 2, 1) + page) % 2)
        ELSE IF Bit(r[10], 2) THEN Horiz(m, page) ELSE Vert(m, page)

Vrc6Register(m, r, i) ==
    CASE i < 8  -> SetChr(m, i, 1, r[i])
      [] i = 8  -> SetPrg(m, 0, 2, r[8])
      [] i = 9  -> SetPrg(m, 2, 1, r[9])
      [] i = 10 -> Vrc6Mirror(m, r)

Register(m, r, i) ==
    CASE kind = "FME7"  -> Fme7Register(m, r, i)
      [] kind = "Namco" -> NamcoRegister(m, r, i)
      [] kind = "VRC6"  -> Vrc6Register(m, r, i)

\* the first n registers written one after the other, as apply_mapping does
InOrder(m, r, n) ==
    LET to[k \in 0..n] == IF k = 0 THEN m ELSE Register(to[k - 1], r, k - 1)
    IN  to[n]

-----------------------------------------------------------------------------
(* What all boards have                                                    *)

\* default_reset_state, which also clears the registers
DefaultMap(m) ==
    LET n == IF Bit(cart, 3) THEN Full(m) ELSE IF Bit(cart, 0) THEN Vert(m, 0) ELSE Horiz(m, 0)
    IN  SetPrg(SetPrg(SetChr(n, 0, 8, 0), 0, 2, 0), 2, 2, -1)

\* reset_state, on registers cleared
InitialRegs ==
    LET zero == [i \in 0..(RegCount - 1) |-> 0]
        Set(f) == [i \in 0..(RegCount - 1) |-> IF i \in DOMAIN f THEN f[i] ELSE 0]
    IN  CASE kind = "MMC1"    -> [zero EXCEPT ![0] = 15, ![2] = 1]
          [] kind = "Quattro" -> [zero EXCEPT ![1] = 3]
          [] kind = "MMC3"    -> Set([i \in 0..9 |-> <<0, 2, 4, 5, 6, 7, 0, 1, 0, 1 - (cart % 2)>>[i + 1]])
          [] kind = "FME7"    -> [zero EXCEPT ![8] = 64]
          [] kind = "Namco"   -> [zero EXCEPT ![13] = 1, ![14] = 254]
          [] kind = "VRC6"    -> [zero EXCEPT ![9] = 254]
          [] OTHER -> zero

\* apply_mapping.  GNROM and its like complement the register first, to force
\* the update.  Mapper_87 calls write, which is empty, and not
\* write_intercepted.
ApplyMapping(m, r) ==
    CASE kind = "NROM"     -> m
      [] kind = "UNROM"    -> Unrom(m, r)
      [] kind = "AOROM"    -> Aorom(m, r, 255 - r[0])
      [] kind = "CNROM"    -> Cnrom(m, r)
      [] kind = "Nina1"    -> Nina1(m, r)
      [] kind = "GNROM"    -> Gnrom(m, r, 255 - r[0])
      [] kind = "ColorDreams" -> ColorDreams(m, r, 255 - r[0])
      [] kind = "M87"      -> m
      [] kind = "Camerica" -> Camerica(m, r)
      [] kind = "Quattro"  -> Quattro(m, r)
      [] kind = "M78"      -> M78(m, r, 255 - r[0])
      [] kind = "MMC1"     -> Mmc1(Sram(m), r, 0)
      [] kind = "MMC2"     -> Mmc2(m, r)
      [] kind = "MMC3"     -> Mmc3(m, r)
      [] kind = "MMC4"     -> Mmc4(m, r)
      [] kind = "FME7"     -> InOrder(m, r, 13)
      [] kind = "Namco"    -> InOrder(Sram(m), r, 16)
      [] kind = "VRC6"     -> InOrder(Sram(m), r, 11)

Become(m, r) == map' = m /\ regs' = r

\* Nes_Mapper::reset, after Nes_Core::reset, which unmaps $6000 if full
Reset(full) ==
    LET m == IF full THEN [map EXCEPT !.low = <<"open bus">>, !.lrom = FALSE] ELSE map
    IN  /\ Become(ApplyMapping(DefaultMap(m), InitialRegs), InitialRegs)
        /\ loaded' = FALSE
        /\ UNCHANGED <<kind, cart, saved, then, writes>>

\* save_state
Save ==
    /\ saved = None
    /\ saved' = regs /\ then' = map
    /\ loaded' = FALSE
    /\ UNCHANGED <<kind, cart, regs, map, writes>>

\* load_state of the core and the mapper: tiles and name tables of page 0,
\* SRAM on, the power-up map, and the saved registers applied, twice
LoadedMap_NoDefault(m, r) ==
    ApplyMapping(ApplyMapping(Sram(Single(SetChr(m, 0, 8, 0), 0)), r), r)
LoadedMap(m, r) ==
    LET ppu == Single(SetChr(m, 0, 8, 0), 0)
    IN  ApplyMapping(ApplyMapping(DefaultMap(Sram(ppu)), r), r)

Load ==
    /\ saved # None /\ ~loaded
    /\ Become(LoadedMap(map, saved), saved)
    /\ loaded' = TRUE
    /\ UNCHANGED <<kind, cart, saved, then, writes>>

-----------------------------------------------------------------------------
(* A game's writes                                                         *)

Write(boards) ==
    /\ kind \in boards /\ writes < MaxWrites[kind] /\ writes' = writes + 1
    /\ loaded' = FALSE
    /\ UNCHANGED <<kind, cart, saved, then>>

\* a write of d to register i, of those the board has
WriteSimple ==
    /\ Write({"UNROM", "AOROM", "CNROM", "Nina1", "GNROM", "ColorDreams", "M87"})
    /\ \E d \in Data[kind] :
        LET r == [regs EXCEPT ![0] = d]
        IN  Become(CASE kind = "UNROM" -> SetPrg(map, 0, 2, d)
                     [] kind = "AOROM" -> Aorom(map, r, regs[0])
                     [] kind = "CNROM" -> Cnrom(map, r)
                     [] kind = "Nina1" -> Nina1(map, r)
                     [] kind = "GNROM" -> Gnrom(map, r, regs[0])
                     [] kind = "M87"   -> M87(map, r)
                     [] kind = "ColorDreams" -> ColorDreams(map, r, regs[0]), r)

WriteCamerica == Write({"Camerica"}) /\
    \E d \in Data[kind] :
        \/ LET r == [regs EXCEPT ![0] = d] IN Become(SetPrg(map, 0, 2, d), r)
        \/ LET r == [regs EXCEPT ![1] = 128 + (d % 128)]
           IN  Become(Single(map, Bits(d, 4, 1)), r)

WriteQuattro == Write({"Quattro"}) /\
    \E d \in Data[kind], i \in 0..1 :
        LET r == [regs EXCEPT ![i] = d] IN Become(Quattro(map, r), r)

\* the first byte written tells the type
WriteM78 == Write({"M78"}) /\
    \E d \in Data[kind] :
        LET known == regs[1] # 0
            r == [regs EXCEPT ![0] = d, ![1] = IF known THEN @ ELSE IF d = 0 THEN 2 ELSE 1]
        IN  Become(M78(map, r, IF known THEN regs[0] ELSE 255 - d), r)

\* five bits to a register; the address of the last chooses it
SerialWrite ==
    /\ kind = "MMC1" /\ regs[5] < 4
    /\ \E b \in 0..1 :
        /\ \E d \in Data[kind] : (d % 2^(regs[5] + 1)) = regs[4] + b * 2^regs[5]
        /\ Become(map, [regs EXCEPT ![4] = @ + b * 2^regs[5], ![5] = @ + 1])
    /\ loaded' = FALSE
    /\ UNCHANGED <<kind, cart, saved, then, writes>>

WriteMmc1 == Write({"MMC1"}) /\
    \/ /\ regs[5] = 4
       /\ \E i \in 0..3, d \in Data[kind] :
            /\ (d % 16) = regs[4]
            /\ LET r == [regs EXCEPT ![i] = d, ![4] = 0, ![5] = 0] IN Become(Mmc1(map, r, i), r)
    \/ LET r == [regs EXCEPT ![0] = @ - 4 * Bits(@, 2, 2) + 12, ![4] = 0, ![5] = 0]
       IN  Become(Mmc1(map, r, 0), r)

WriteMmc24 == Write({"MMC2", "MMC4"}) /\
    \E d \in Data[kind], i \in 0..5 :
        LET r == [regs EXCEPT ![i] = d] IN Become(Mmc24Write(map, r, i), r)

\* $8000: the mode, and which bank $8001 sets
WriteMmc3Mode == Write({"MMC3"}) /\
    \E d \in Data[kind] :
        LET r == [regs EXCEPT ![8] = d]
            m == IF Bit(regs[8], 7) # Bit(d, 7) THEN Mmc3Chr(map, r) ELSE map
        IN  Become(IF Bit(regs[8], 6) # Bit(d, 6) THEN Mmc3Prg(m, r) ELSE m, r)

WriteMmc3Bank == Write({"MMC3"}) /\
    \E d \in Data[kind] :
        LET bank == Bits(regs[8], 0, 3)
            r == [regs EXCEPT ![bank] = d]
        IN  Become(IF bank < 6 THEN Mmc3Chr(map, r) ELSE Mmc3Prg(map, r), r)

WriteMmc3Other == Write({"MMC3"}) /\
    \E d \in Data[kind] :
        \/ LET r == [regs EXCEPT ![9] = d] IN Become(Mmc3Mirror(map, r), r)
        \/ LET r == [regs EXCEPT ![10] = d] IN Become(Mmc3Sram(map, r), r)

\* $8000 and $A000 of an FME-7
Command ==
    /\ kind = "FME7"
    /\ \E i \in Commands : Become(map, [regs EXCEPT ![13] = i])
    /\ loaded' = FALSE
    /\ UNCHANGED <<kind, cart, saved, then, writes>>
WriteFme7 == Write({"FME7"}) /\
    \E d \in Data[kind] :
        LET r == [regs EXCEPT ![regs[13]] = d] IN Become(Register(map, r, regs[13]), r)

WriteNamco == Write({"Namco"}) /\
    \E d \in Data[kind], i \in 0..15 :
        LET r == [regs EXCEPT ![i] = d] IN Become(Register(map, r, i), r)

WriteVrc6 == Write({"VRC6"}) /\
    \E d \in Data[kind], i \in 0..10 :
        LET r == [regs EXCEPT ![i] = d] IN Become(Register(map, r, i), r)

-----------------------------------------------------------------------------
\* a cartridge just opened and reset
Init ==
    /\ kind \in Kinds /\ cart \in Mirrors
    /\ regs = InitialRegs
    /\ LET zero == [p \in 0..7 |-> 0]
           m == [prg |-> [p \in 0..3 |-> 0], chr |-> zero, ex |-> zero,
                 nt |-> <<0, 0, 0, 0>>, low |-> <<"open bus">>, lrom |-> FALSE]
       IN  map = ApplyMapping(DefaultMap(m), regs)
    /\ saved = None /\ then = None /\ loaded = FALSE /\ writes = 0

Next ==
    \/ WriteSimple \/ WriteCamerica \/ WriteQuattro \/ WriteM78
    \/ SerialWrite \/ WriteMmc1 \/ WriteMmc24
    \/ WriteMmc3Mode \/ WriteMmc3Bank \/ WriteMmc3Other
    \/ Command \/ WriteFme7 \/ WriteNamco \/ WriteVrc6
    \/ Reset(TRUE) \/ Reset(FALSE) \/ Save \/ Load

Spec == Init /\ [][Next]_vars
=============================================================================
