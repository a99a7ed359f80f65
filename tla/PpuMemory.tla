------------------------------ MODULE PpuMemory ------------------------------
(***************************************************************************)
(* The memory behind $2007 (Nes_Ppu_Impl.h, Nes_Ppu_Impl.cpp): pattern     *)
(* pages and nametables as the cartridge's mapper arranges them, the cache *)
(* of decoded tiles the renderer draws from, and what of it a state saves  *)
(* and restores.  A page is 1K, the size of a nametable, and stands for    *)
(* its 64 tiles with one value; the palette stands for its entries.        *)
(*                                                                         *)
(* The address register is PpuScroll's: here an access is to any address.  *)
(* The latches of MMC2 and MMC4 are left out.                              *)
(***************************************************************************)
EXTENDS Integers

CONSTANTS
    Pages,     \* in the pattern tables, chr_addr_size / chr_page_size
    Carts,     \* that may be opened
    Values,    \* that may be written
    Fill,      \* 0xff
    Rom(_),    \* the contents of a page of CHR ROM
    Garbage,   \* in newly allocated memory
    Banks,     \* that may be written to a bank register
    Manual,    \* arrangements of nametables MMC5 may be given
    MaxWrites  \* bound: $2007 writes

Page   == 0..(Pages - 1)
Screen == 0..3
\* A cart: the code of its mapper, the pages of its CHR ROM, zero when it has
\* RAM instead, and the mirroring bits of its header.
Cart   == [mapper : {"nrom", "mmc1", "mmc3", "mmc5"}, chr : Nat, mirroring : {"full", "vert", "horiz"}]

ASSUME PageAssumption ==
    /\ Pages \in Nat /\ Pages >= 2 /\ MaxWrites \in Nat
    /\ Carts \subseteq Cart /\ \A c \in Carts : c.chr = 0 \/ c.chr >= Pages
    /\ Banks \subseteq Nat /\ Manual \subseteq [Screen -> Screen]

VARIABLES
    cart,
    regs,     \* the mapper's registers: the bank of each page, the nametables
    chr_ram,
    nt_ram,
    palette,
    r2007,    \* the read buffer
    chr_pages,
    nt_banks,
    any_tiles_modified,
    modified_tiles,
    tile_cache,
    state,    \* the Nes_State a script saves to
    writes    \* ghost: so far

mapping == <<regs, chr_pages, nt_banks>>
memory  == <<chr_ram, nt_ram, palette, r2007>>
cache   == <<any_tiles_modified, modified_tiles, tile_cache>>
memory_vars == <<cart, mapping, memory, cache, state, writes>>

chr_is_writable == cart.chr = 0
ChrSize(c)      == IF c.chr = 0 THEN Pages ELSE c.chr
\* The pages of chr_data, and one of them
ChrPages        == 0..(ChrSize(cart) - 1)
ChrData(p)      == IF chr_is_writable THEN chr_ram[p] ELSE Rom(p)

-----------------------------------------------------------------------------
(* The mapper                                                              *)

Manually(a, b, c, d) == [i \in Screen |-> CASE i = 0 -> a [] i = 1 -> b [] i = 2 -> c [] i = 3 -> d]
Horiz     == Manually(0, 0, 1, 1)
Vert      == Manually(0, 1, 0, 1)
Single(p) == Manually(p, p, p, p)
Full      == Manually(0, 1, 2, 3)

Soldered(c) == CASE c.mirroring = "full" -> Full
                 [] c.mirroring = "vert" -> Vert
                 [] c.mirroring = "horiz" -> Horiz

Direct == [p \in Page |-> p]

\* What can be written to a mapper's mirroring register
Mirrorings(c) == CASE c.mapper = "nrom" -> {}
                   [] c.mapper = "mmc1" -> {Single(0), Single(1), Vert, Horiz}
                   [] c.mapper = "mmc3" -> {Vert, Horiz}
                   [] c.mapper = "mmc5" -> Manual

\* reset_state, after the registers are cleared
ResetRegs(c) ==
    [chr |-> IF c.mapper = "mmc5" THEN [p \in Page |-> 0] ELSE Direct,
     nt  |-> CASE c.mapper = "mmc5" -> Single(0)
               [] c.mapper = "mmc3" /\ c.mirroring = "vert" -> Vert
               [] OTHER -> Horiz]

\* set_chr_bank keeps a bank within the CHR there is.  MMC1 leaves CHR RAM
\* alone, the others do not ask.
MappedPages_NoWrap(c, r) ==
    IF c.mapper = "nrom" \/ (c.mapper = "mmc1" /\ c.chr = 0) THEN Direct ELSE r.chr
MappedPages(c, r) ==
    IF c.mapper = "nrom" \/ (c.mapper = "mmc1" /\ c.chr = 0)
    THEN Direct
    ELSE [p \in Page |-> r.chr[p] % ChrSize(c)]

MappedScreens(c, r) ==
    IF c.mapper = "nrom" \/ (c.mapper = "mmc3" /\ c.mirroring = "full") THEN Soldered(c) ELSE r.nt

\* default_reset_state and apply_mapping
ApplyMapping(c, r) ==
    /\ regs' = r
    /\ chr_pages' = MappedPages(c, r)
    /\ nt_banks' = MappedScreens(c, r)

\* Mapper writes
SetChrBank(p, bank) ==
    /\ cart.mapper # "nrom"
    /\ ApplyMapping(cart, [regs EXCEPT !.chr[p] = bank])
    /\ UNCHANGED <<cart, memory, cache, state, writes>>

SetMirroring(screens) ==
    /\ screens \in Mirrorings(cart)
    /\ ApplyMapping(cart, [regs EXCEPT !.nt = screens])
    /\ UNCHANGED <<cart, memory, cache, state, writes>>

-----------------------------------------------------------------------------
(* The tile cache                                                          *)

AllTilesModified == any_tiles_modified' = TRUE /\ modified_tiles' = Page

\* draw_scanlines, with the background or the sprites on
UpdateTiles_Half ==
    [p \in ChrPages |-> IF p \in modified_tiles /\ p # Pages - 1 THEN ChrData(p) ELSE tile_cache[p]]
UpdateTiles == [p \in ChrPages |-> IF p \in modified_tiles THEN ChrData(p) ELSE tile_cache[p]]

DrawScanlines ==
    /\ IF any_tiles_modified /\ chr_is_writable
       THEN /\ any_tiles_modified' = FALSE
            /\ tile_cache' = UpdateTiles
            /\ modified_tiles' = {}
       ELSE UNCHANGED cache
    /\ UNCHANGED <<cart, mapping, memory, state, writes>>

-----------------------------------------------------------------------------
(* $2007                                                                   *)

\* write_2007.  A write to the pattern tables goes to chr_ram at the address
\* as it is, whatever is mapped there, and is marked even when nobody reads it.
Mark_NoFlag(p) == modified_tiles' = modified_tiles \union {p} /\ UNCHANGED any_tiles_modified
Mark(p)        == modified_tiles' = modified_tiles \union {p} /\ any_tiles_modified' = TRUE

WritePattern(p, data) ==
    /\ chr_ram' = [chr_ram EXCEPT ![p] = data]
    /\ Mark(p)
    /\ UNCHANGED <<nt_ram, palette, tile_cache>>

WriteScreen(i, data) ==
    /\ nt_ram' = [nt_ram EXCEPT ![nt_banks[i]] = data]
    /\ UNCHANGED <<chr_ram, palette, cache>>

WritePalette(data) == palette' = data /\ UNCHANGED <<chr_ram, nt_ram, cache>>

WriteMemory(data) ==
    /\ writes < MaxWrites
    /\ writes' = writes + 1
    /\ \/ \E p \in Page : WritePattern(p, data)
       \/ \E i \in Screen : WriteScreen(i, data)
       \/ WritePalette(data)
    /\ UNCHANGED <<cart, mapping, r2007, state>>

\* read_2007: what the address maps to is for the next read; reading the
\* palette buffers the nametable under it
ReadMemory ==
    /\ \/ \E p \in Page : r2007' = ChrData(chr_pages[p])
       \/ \E i \in Screen : r2007' = nt_ram[nt_banks[i]]
    /\ UNCHANGED <<cart, mapping, chr_ram, nt_ram, palette, cache, state, writes>>

-----------------------------------------------------------------------------
(* Saved states                                                            *)

NoState == [saved |-> FALSE]

\* The RAM the program can get to, now or by writing to its mapper
Reachable(c, r) ==
    {MappedScreens(c, [r EXCEPT !.nt = m])[i] : m \in Mirrorings(c) \union {r.nt}, i \in Screen}
Contents ==
    [nt  |-> [b \in Reachable(cart, regs) |-> nt_ram[b]],
     chr |-> IF chr_is_writable THEN chr_ram ELSE <<>>,
     pal |-> palette, buf |-> r2007, pages |-> chr_pages, banks |-> nt_banks]

\* save_state, of the core and of the PPU: nametables beyond the first two go
\* to the buffer for CHR RAM, which is then saved over them.
Save_TwoScreens ==
    [saved |-> TRUE, nametable_size |-> 2, nametable |-> [b \in 0..1 |-> nt_ram[b]],
     chr_size |-> IF chr_is_writable THEN Pages ELSE 0,
     chr      |-> IF chr_is_writable THEN chr_ram ELSE [p \in Page |-> Garbage],
     palette |-> palette, r2007 |-> r2007, mapper |-> regs, cart |-> cart, contents |-> Contents]
Save ==
    LET extra == nt_banks[3] >= 3 IN
    [saved |-> TRUE,
     nametable_size |-> IF extra THEN 4 ELSE 2,
     nametable |-> [b \in 0..1 |-> nt_ram[b]],
     chr_size |-> IF chr_is_writable THEN Pages ELSE 0,
     chr |-> CASE chr_is_writable -> chr_ram
               [] extra /\ ~chr_is_writable -> [p \in Page |-> IF p < 2 THEN nt_ram[2 + p] ELSE Garbage]
               [] OTHER -> [p \in Page |-> Garbage],
     palette  |-> palette,
     r2007    |-> r2007,
     mapper   |-> regs,
     cart     |-> cart,        \* ghosts: whose state it is,
     contents |-> Contents]    \* and all it should bring back

SaveState ==
    /\ state' = Save
    /\ UNCHANGED <<cart, mapping, memory, cache, writes>>

\* load_state: memory first, the mapper last
LoadedRegs_Stale(s) == [s.mapper EXCEPT !.nt = regs.nt]
LoadedRegs(s)       == s.mapper

\* The registers in a state.  Those of another mapper are read as some of the
\* banks and arrangements this one has.
ReadAs(c) ==
    IF state.cart.mapper = c.mapper THEN {LoadedRegs(state)}
    ELSE IF c.mapper = "nrom" THEN {ResetRegs(c)}
    ELSE [chr : [Page -> Banks], nt : Mirrorings(c)]

LoadTiles_Unmarked(s) == chr_ram' = s.chr /\ UNCHANGED <<any_tiles_modified, modified_tiles>>
LoadTiles(s)          == chr_ram' = s.chr /\ AllTilesModified

LoadState ==
    /\ state.saved
    /\ palette' = state.palette
    /\ r2007' = state.r2007
    /\ nt_ram' = [b \in Screen |-> CASE b < 2 -> state.nametable[b]
                                     [] b >= 2 /\ state.nametable_size > 2 -> state.chr[b - 2]
                                     [] OTHER -> nt_ram[b]]
    /\ IF chr_is_writable /\ state.chr_size > 0
       THEN LoadTiles(state)
       ELSE UNCHANGED <<chr_ram, any_tiles_modified, modified_tiles>>
    /\ \E r \in ReadAs(cart) : ApplyMapping(cart, r)
    /\ UNCHANGED <<cart, tile_cache, state, writes>>

-----------------------------------------------------------------------------
(* Reset and open                                                          *)

Clear ==
    /\ chr_ram' = [p \in Page |-> Fill]
    /\ nt_ram' = [b \in Screen |-> Fill]
    /\ palette' = Fill

\* The console's reset button and power: the mapper starts over in both
Reset(full) ==
    /\ IF full THEN Clear ELSE UNCHANGED <<chr_ram, nt_ram, palette>>
    /\ r2007' = 0
    /\ AllTilesModified
    /\ ApplyMapping(cart, ResetRegs(cart))
    /\ UNCHANGED <<cart, tile_cache, state, writes>>

\* Nes_Core::open: open_chr decodes ROM at once, then a full reset
Open(c) ==
    /\ cart' = c
    /\ tile_cache' = [p \in 0..(ChrSize(c) - 1) |-> IF c.chr = 0 THEN Garbage ELSE Rom(p)]
    /\ Clear
    /\ r2007' = 0
    /\ AllTilesModified
    /\ ApplyMapping(c, ResetRegs(c))
    /\ UNCHANGED <<state, writes>>

MemoryInit ==
    /\ cart \in Carts
    /\ regs = ResetRegs(cart)
    /\ chr_pages = MappedPages(cart, regs)
    /\ nt_banks = MappedScreens(cart, regs)
    /\ chr_ram = [p \in Page |-> Fill]
    /\ nt_ram = [b \in Screen |-> Fill]
    /\ palette = Fill /\ r2007 = 0
    /\ any_tiles_modified = TRUE /\ modified_tiles = Page
    /\ tile_cache = [p \in ChrPages |-> IF chr_is_writable THEN Garbage ELSE Rom(p)]
    /\ state = NoState
    /\ writes = 0

MemoryNext ==
    \/ \E p \in Page, bank \in Banks : SetChrBank(p, bank)
    \/ \E screens \in Mirrorings(cart) : SetMirroring(screens)
    \/ DrawScanlines
    \/ \E data \in Values : WriteMemory(data)
    \/ ReadMemory
    \/ SaveState
    \/ LoadState
    \/ \E full \in BOOLEAN : Reset(full)
    \/ \E c \in Carts : Open(c)

MemorySpec == MemoryInit /\ [][MemoryNext]_memory_vars

-----------------------------------------------------------------------------
(* Properties                                                              *)

Regs == [chr : [Page -> Nat], nt : [Screen -> Screen]]

\* Every bank stays within the CHR the cartridge has (set_chr_bank wraps),
\* every screen within nametable RAM, and the cache is as large as the CHR.
TypeOK ==
    /\ cart \in Carts
    /\ regs \in Regs
    /\ DOMAIN chr_ram = Page
    /\ state.saved => state.mapper \in Regs /\ DOMAIN state.chr = Page
    /\ chr_pages \in [Page -> ChrPages]
    /\ nt_banks \in [Screen -> Screen]
    /\ DOMAIN tile_cache = ChrPages
    /\ any_tiles_modified \in BOOLEAN
    /\ modified_tiles \subseteq Page
    /\ writes \in 0..MaxWrites

\* A decoded tile is that of the CHR it was decoded from, or it is marked and
\* will be decoded again before anything is drawn: through every write, reset,
\* loaded state and change of cartridge (any_tiles_modified, modified_tiles).
CacheCurrent ==
    \A p \in ChrPages :
        \/ tile_cache[p] = ChrData(p)
        \/ chr_is_writable /\ any_tiles_modified /\ p \in modified_tiles

\* What is drawn is what is mapped: once a batch of lines is drawn, each page
\* of the pattern tables is drawn from tiles decoded from the page mapped there.
DrawnRight ==
    [][DrawScanlines => \A p \in Page : tile_cache'[chr_pages[p]] = ChrData(chr_pages[p])]_memory_vars

\* Loading a state into the cartridge it was saved from brings back all the
\* memory the program can get to at $2007, and how it is mapped.
RoundTrip ==
    [][LoadState /\ state.cart = cart => Contents' = state.contents]_memory_vars

=============================================================================
