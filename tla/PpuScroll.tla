------------------------------ MODULE PpuScroll ------------------------------
(***************************************************************************)
(* The PPU's address registers and the background it renders from them     *)
(* (Nes_Ppu.cpp, Nes_Ppu_Impl.cpp).  Lines are rendered late and in        *)
(* batches: a register access first catches up with the time it happens    *)
(* at, where somebody thought of it, and one that asks for the sprites too *)
(* does so once in a line.  Beside the lazy state the module               *)
(* keeps, as ghosts, the address of a PPU that loads it, begins each line  *)
(* and blanks after it on time, and the address of each line it began.     *)
(*                                                                         *)
(* An address is fine y, vertical and horizontal nametable, coarse y and   *)
(* coarse x, from the top; the sizes of the fields are constants.  Times   *)
(* are clocks since the start of the frame, with one clock to a CPU cycle. *)
(* Rendering ahead of time for sprite 0 (update_sprite_hit) is left out.   *)
(***************************************************************************)
EXTENDS Integers, SequencesExt

CONSTANTS
    Cols,      \* coarse x, 0x20
    Rows,      \* coarse y, 0x20
    Visible,   \* rows in a nametable, 30
    Fine,      \* fine y, 8
    Low,       \* the low byte of an address, 0x100
    Lines,     \* image_height
    LineLen,   \* scanline_len
    LoadTime,  \* t_to_v_time
    DotTime,   \* even_odd_time
    FirstLine, \* first_scanline_time
    HblankIn,  \* from a line to the blank after it
    NtData,    \* <<vertical, horizontal>> that may be written
    XData,     \* coarse x that may be written
    YData,     \* <<fine y, coarse y>> that may be written
    AddrData,  \* addresses that may be written
    MaxAccesses \* bound: register accesses

Nt         == Cols * Rows              \* 0x400
Row        == 4 * Nt                   \* 0x1000, also vaddr_clock_mask
AddrSize   == Fine * Row               \* 0x8000
BusSize    == AddrSize \div 2          \* 0x4000
Word       == 2 * AddrSize             \* uint16_t
LastEvent  == FirstLine + (Lines - 1) * LineLen + HblankIn
FrameEnd   == LastEvent + 2

ASSUME SizeAssumption ==
    /\ {Cols, Rows, Fine, Lines, LineLen, LoadTime, DotTime, FirstLine, HblankIn} \subseteq Nat \ {0}
    /\ Low \in Nat /\ Low > Cols /\ Low % Cols = 0 /\ Nt % Low = 0
    /\ Visible \in 1..(Rows - 1) /\ Fine % 2 = 0
    /\ LoadTime < DotTime /\ DotTime < FirstLine /\ HblankIn + 2 < LineLen
    /\ XData \subseteq 0..(Cols - 1) /\ YData \subseteq (0..(Fine - 1)) \X (0..(Rows - 1))
    /\ NtData \subseteq (0..1) \X (0..1) /\ AddrData \subseteq 0..(BusSize - 1)
    /\ MaxAccesses \in Nat

VARIABLES
    time,
    vram,     \* vram_addr, loopy_v
    temp,     \* vram_temp, loopy_t
    second,   \* second_write
    inc,      \* addr_inc
    bg,       \* bit 3 of w2001
    phase,    \* frame_phase
    scan,     \* scanline_time
    hblank,   \* hblank_time
    count,    \* scanline_count
    next,     \* next_bg_time
    sprites,  \* next_sprites_time
    live,     \* ghost: the address, rendered on time
    begun,    \* ghost: the addresses of the lines begun and not yet rendered
    exact,    \* ghost: since the address was loaded no access has used it, or
              \* changed what it moves by, where the code had not caught up
    right,    \* ghost: every line was rendered from the address it began with
    clocked,  \* ghost: the last access called a12_clocked
    accesses  \* ghost: so far

lazy == <<vram, phase, scan, hblank, count, next>>
vars == <<time, vram, temp, second, inc, bg, phase, scan, hblank, count, next, sprites,
          live, begun, exact, right, clocked, accesses>>

-----------------------------------------------------------------------------
(* Addresses                                                               *)

FineY(a)   == (a \div Row) % Fine
CoarseY(a) == (a \div Cols) % Rows
NtV(a)     == (a \div (2 * Nt)) % 2
NtH(a)     == (a \div Nt) % 2

Address(fineY, v, h, coarseY, x) ==
    fineY * Row + v * 2 * Nt + h * Nt + coarseY * Cols + x

FlipV(a) == IF NtV(a) = 0 THEN a + 2 * Nt ELSE a - 2 * Nt

\* fine y carried into rows; below the last one is the other nametable, but
\* the rows under the picture wrap around in their own
CarryRows_NoFlip[a \in Nat] ==
    IF a < AddrSize THEN a
    ELSE LET row  == (CoarseY(a) + 1) % Rows
         IN  CarryRows_NoFlip[a - AddrSize - CoarseY(a) * Cols + row * Cols]
CarryRows[a \in Nat] ==
    IF a < AddrSize THEN a
    ELSE LET row  == (CoarseY(a) + 1) % Rows
             rest == a - AddrSize - CoarseY(a) * Cols
         IN  CarryRows[IF row = Visible THEN FlipV(rest) ELSE rest + row * Cols]

\* run_hblank: so many lines down, at the left edge again
Below_NoFlip(a, t, lines) ==
    CarryRows_NoFlip[Address(FineY(a), NtV(a), NtH(t), CoarseY(a), t % Cols) + lines * Row]
Below(a, t, lines) ==
    CarryRows[Address(FineY(a), NtV(a), NtH(t), CoarseY(a), t % Cols) + lines * Row]

\* one line down, as the PPU counts
Down(a, t) ==
    LET fine == FineY(a) + 1
        row  == CoarseY(a) + 1
        to   == IF fine < Fine THEN <<NtV(a), CoarseY(a)>>
                ELSE IF row = Visible THEN <<1 - NtV(a), 0>>
                ELSE <<NtV(a), row % Rows>>
    IN  Address(fine % Fine, to[1], NtH(t), to[2], t % Cols)

-----------------------------------------------------------------------------
(* Rendering.  The lazy state is a record, with the addresses of the lines *)
(* rendered on the way.                                                    *)

Lazy == [vram |-> vram, phase |-> phase, scan |-> scan, hblank |-> hblank,
         count |-> count, next |-> next, drawn |-> <<>>]

NewFrame(v) ==
    [vram |-> v, phase |-> 0, scan |-> FirstLine, hblank |-> FirstLine + HblankIn,
     count |-> 0, next |-> LoadTime, drawn |-> <<>>]

RunHblank(s, lines) ==
    IF bg THEN [s EXCEPT !.vram = Below(@, temp, lines)] ELSE s

\* vtemp->vaddr
Load(s) ==
    IF s.phase > 0 THEN s
    ELSE [s EXCEPT !.phase = 1, !.vram = IF bg THEN temp ELSE @]

\* "hblank before next scanline"
BlankBefore(s) ==
    IF s.hblank < s.scan THEN RunHblank([s EXCEPT !.hblank = @ + LineLen], 1) ELSE s

\* draw_background: line by line, from vram_addr and from the edge
Draw_OneLess(s, n) ==
    [s EXCEPT !.count = @ + n - 1, !.drawn = [i \in 1..(n - 1) |->
        IF bg /\ i > 1 THEN Below(s.vram, temp, i - 1) ELSE s.vram]]
Draw_SameEdge(s, n) ==
    [s EXCEPT !.count = @ + n, !.drawn = [i \in 1..n |->
        IF bg /\ i > 1 THEN Below(s.vram, s.vram, i - 1) ELSE s.vram]]
Draw(s, n) ==
    [s EXCEPT !.count = @ + n, !.drawn = [i \in 1..n |->
        IF bg /\ i > 1 THEN Below(s.vram, temp, i - 1) ELSE s.vram]]

\* the lines that began before t, but for the first also one beginning at t
Scanlines(s, t) ==
    IF s.scan >= t THEN s
    ELSE LET n == (t - s.scan + LineLen) \div LineLen
         IN  RunHblank([Draw(BlankBefore(s), n) EXCEPT
                !.scan = @ + n * LineLen, !.hblank = @ + (n - 1) * LineLen], n - 1)

BlankAfter(s, t) ==
    IF s.hblank < t
    THEN [RunHblank([s EXCEPT !.hblank = @ + LineLen], 1) EXCEPT !.next = s.scan]
    ELSE [s EXCEPT !.next = s.hblank]

\* "variable-length scanline" in between
RenderBgUntil_(s, t) ==
    IF s.phase <= 1 /\ t <= DotTime
    THEN [Load(s) EXCEPT !.next = DotTime]
    ELSE BlankAfter(Scanlines([Load(s) EXCEPT !.phase = 2], t), t)

\* render_bg_until
RenderBgUntil(s, t) ==
    LET u == IF t < FrameEnd THEN t ELSE FrameEnd
    IN  IF t > s.next THEN RenderBgUntil_(s, u) ELSE s

\* The first line is waited for as if its blank came first, after an access
\* between the dot and the line.
FirstMissed(s) == s.phase = 2 /\ s.count = 0 /\ s.next > FirstLine

\* was a line rendered from the address it began with, or, beginning at this
\* very clock, from the present one
RightLine(lines, i, a) == a = (IF i <= Len(lines) THEN lines[i] ELSE live)

\* the lines s has rendered, of those begun
Rendered(s, lines) ==
    /\ begun' = SubSeq(lines, Len(s.drawn) + 1, Len(lines))
    /\ right' = (right /\ (exact => \A i \in DOMAIN s.drawn :
                    (i = 1 /\ FirstMissed(Lazy)) \/ RightLine(lines, i, s.drawn[i])))

Become(s) ==
    /\ vram' = s.vram /\ phase' = s.phase /\ scan' = s.scan
    /\ hblank' = s.hblank /\ count' = s.count /\ next' = s.next

CatchUp(s) == Rendered(s, begun) /\ Become(s)

\* render_until: the background, then the sprites of the lines so rendered;
\* nothing until the next line begins
RenderUntil(t)  == IF t > sprites THEN RenderBgUntil(Lazy, t) ELSE Lazy
SpritesUntil(t) == IF t > sprites THEN RenderBgUntil(Lazy, t).scan ELSE sprites

\* what happens at clock t to the PPU that is on time
LineAt(t)  == {k \in 0..(Lines - 1) : t = FirstLine + k * LineLen}
BlankAt(t) == {k \in 0..(Lines - 1) : t = FirstLine + k * LineLen + HblankIn}

LiveAfter(t) ==
    IF ~bg THEN live
    ELSE IF t = LoadTime THEN temp
    ELSE IF BlankAt(t) # {} THEN Down(live, temp)
    ELSE live

Begin == IF \E k \in LineAt(time) : count <= k THEN Append(begun, live) ELSE begun

Pass ==
    /\ time < FrameEnd /\ time' = time + 1
    /\ live' = LiveAfter(time)

-----------------------------------------------------------------------------
(* Register accesses.  The ghost PPU makes the same access.                *)

Now == RenderBgUntil(Lazy, time)

Access == accesses < MaxAccesses /\ accesses' = accesses + 1

Tick ==
    /\ Pass
    /\ begun' = Begin
    /\ exact' = (exact \/ (time = LoadTime /\ bg))
    /\ clocked' = FALSE
    /\ UNCHANGED <<lazy, sprites, temp, second, inc, bg, right, accesses>>

\* $2000: the nametable, after catching up if it or a pattern table changes;
\* and addr_inc.  A change of the sprites' table or height asks render_until,
\* and then nobody asks for the nametable.
WriteControl == Access /\
    \E nt \in NtData, i \in {1, Cols}, tables \in SUBSET {"bg", "sprites"} :
        /\ temp' = Address(FineY(temp), nt[1], nt[2], CoarseY(temp), temp % Cols)
        /\ LET s == IF "sprites" \in tables THEN RenderUntil(time)
                    ELSE IF "bg" \in tables \/ temp' # temp THEN Now ELSE Lazy
           IN  CatchUp(s) /\ exact' = (exact /\ (temp' = temp \/ s = Now))
        /\ sprites' = IF "sprites" \in tables THEN SpritesUntil(time) ELSE sprites
        /\ inc' = i /\ clocked' = FALSE
        /\ UNCHANGED <<time, second, bg, live>>

\* $2001: the background on or off, after catching up past this cycle.  A
\* change of the sprites' bits or of the colours asks render_until, and with
\* the former nobody asks for the background.
WriteMask == Access /\ Pass /\
    LET all == RenderBgUntil(Lazy, time + 1) IN
    \E changed \in SUBSET {"bg", "clip", "sprites", "colors"} :
        LET drawn == changed \cap {"sprites", "colors"} # {}
            s     == IF "sprites" \notin changed /\ changed \cap {"bg", "clip"} # {} THEN all
                     ELSE IF drawn THEN RenderUntil(time + 1) ELSE Lazy
        IN  /\ Become(s) /\ Rendered(s, Begin)
            /\ exact' = (exact /\ ("bg" \in changed => s = all /\ live' = vram'))
            /\ bg' = (bg # ("bg" \in changed)) /\ clocked' = FALSE
            /\ sprites' = IF drawn THEN SpritesUntil(time + 1) ELSE sprites
            /\ UNCHANGED <<temp, second, inc>>

\* a $2002 read resets the latch
ReadStatus ==
    /\ Access /\ second' = FALSE /\ clocked' = FALSE
    /\ UNCHANGED <<lazy, sprites, time, temp, inc, bg, live, begun, exact, right>>

\* $2005: x, then y
WriteScroll ==
    /\ Access
    /\ \/ ~second /\ \E x \in XData : temp' = temp - (temp % Cols) + x
       \/ second /\ \E y \in YData :
            temp' = Address(y[1], NtV(temp), NtH(temp), y[2], temp % Cols)
    /\ second' = ~second /\ CatchUp(Now) /\ clocked' = FALSE
    /\ UNCHANGED <<sprites, time, inc, bg, live, exact>>

\* $2004, sprite DMA and the mapper's bank switches catch up, and leave the
\* address alone
OtherAccess == Access /\
    \E drawn \in BOOLEAN :
        /\ CatchUp(IF drawn THEN RenderUntil(time) ELSE Now) /\ clocked' = FALSE
        /\ sprites' = IF drawn THEN SpritesUntil(time) ELSE sprites
        /\ UNCHANGED <<time, temp, second, inc, bg, live, exact>>

Rises_FromHigh(a, b) == (a \div Row) % 2 = 1 /\ (b \div Row) % 2 = 1
Rises(a, b) == (a \div Row) % 2 = 0 /\ (b \div Row) % 2 = 1
Toggles(a, b) == (a \div Row) % 2 # (b \div Row) % 2

\* $2006: the high byte, without its top bits, then the low one
WriteAddress == Access /\
    \E a \in AddrData :
        /\ second' = ~second
        /\ IF second
           THEN /\ temp' = temp - (temp % Low) + (a % Low)
                /\ CatchUp([Now EXCEPT !.vram = temp'])
                /\ live' = temp'
                /\ clocked' = Rises(Now.vram, temp)
           ELSE /\ temp' = (a - (a % Low)) + (temp % Low)
                /\ CatchUp(Now) /\ clocked' = FALSE /\ UNCHANGED live
        /\ UNCHANGED <<sprites, time, inc, bg, exact>>

\* a $2007 read catches up, a write (Nes_Core::cpu_write_2007) does not
ReadData ==
    /\ Access
    /\ CatchUp([Now EXCEPT !.vram = (@ + inc) % Word])
    /\ live' = (live + inc) % Word
    /\ exact' = (exact /\ live = Now.vram)
    /\ clocked' = Rises(Now.vram, Now.vram + inc)
    /\ UNCHANGED <<sprites, time, temp, second, inc, bg>>

WriteData ==
    /\ Access
    /\ CatchUp([Lazy EXCEPT !.vram = (@ + inc) % Word])
    /\ live' = (live + inc) % Word
    /\ exact' = (exact /\ Now = Lazy /\ live = vram)
    /\ clocked' = Toggles(vram, vram + inc)
    /\ UNCHANGED <<sprites, time, temp, second, inc, bg>>

-----------------------------------------------------------------------------
(* Frames                                                                  *)

\* "to do: do more PPU RE to get exact behavior"
FrameTweak(a) ==
    IF ~bg THEN a
    ELSE IF a % Low < Low - 2 THEN (a + 2) % Word
    ELSE (IF NtH(a) = 0 THEN a + Nt ELSE a - Nt) - (Cols - 2)

\* end_frame, and begin_frame for the next; a difference not yet healed stays
NextFrame ==
    /\ time = FrameEnd /\ time' = 0
    /\ Become(NewFrame(FrameTweak(Now.vram))) /\ Rendered(Now, begun)
    /\ live' = FrameTweak(live)
    /\ sprites' = 0 /\ clocked' = FALSE
    /\ UNCHANGED <<temp, second, inc, bg, exact, accesses>>

\* a frame of a program that has set its scroll registers
Init ==
    /\ time = 0 /\ second = FALSE /\ inc = 1 /\ bg \in BOOLEAN
    /\ \E y \in YData : temp = Address(y[1], 0, 0, y[2], 0)
    /\ vram = temp /\ live = temp
    /\ phase = 0 /\ scan = FirstLine /\ hblank = FirstLine + HblankIn
    /\ count = 0 /\ next = LoadTime /\ sprites = 0
    /\ begun = <<>> /\ exact = TRUE /\ right = TRUE /\ clocked = FALSE
    /\ accesses = 0

Next ==
    \/ Tick \/ WriteControl \/ WriteMask \/ ReadStatus \/ WriteScroll \/ OtherAccess
    \/ WriteAddress \/ ReadData \/ WriteData \/ NextFrame

\* time passes
Spec == Init /\ [][Next]_vars /\ WF_vars(Tick \/ NextFrame)
=============================================================================
