------------------------------- MODULE SpriteHit -------------------------------
(***************************************************************************)
(* Bit 6 of $2002, the sprite 0 hit (Nes_Ppu.cpp, Nes_Ppu_Rendering.cpp).  *)
(* The flag rises at the first pixel where sprite 0 and the background are *)
(* both opaque, a time games wait for in a loop.  The PPU looks for the    *)
(* pixel in the lines it happens to render together, renders ahead of time *)
(* to find it, and skips the polls it believes too early: this module is   *)
(* about the flag a poll sees, whatever was polled and rendered before.    *)
(*                                                                         *)
(* Times are in PPU clocks, but for what the comments call cycles.  A line *)
(* is rendered by the first access after it begins; the blanks in between  *)
(* are in PpuScroll.  The other events that end the skipping of polls, the *)
(* sprite overflow and the decay of the open bus, only make it end sooner. *)
(***************************************************************************)
EXTENDS Integers, FiniteSets, FiniteSetsExt

CONSTANTS
    Lines,     \* image_height
    LineLen,   \* scanline_len
    Width,     \* of a sprite and of the clipped left edge, 8
    Height,    \* sprite_height()
    LastX,     \* the column where a hit is ignored, 255
    VblEnd,    \* vbl_end_time, in cycles
    FirstLine, \* first_scanline_time
    HitOffset, \* from there to earliest_sprite_hit
    FrameLen,  \* frame_length(), in cycles
    Overclock, \* clocks in a cycle
    Pictures,  \* sets of opaque background pixels <<line, column>>
    Sprites,   \* sprites 0
    MaxWrites  \* bound: writes to the sprites and to $2001

EarliestHit == FirstLine + HitOffset   \* earliest_sprite_hit
Never       == FrameLen + 1            \* indefinite_time, in cycles
Columns     == 0..LastX

\* tile: the opaque columns of its rows; below: of the rows after it in the
\* tile cache
SpriteType ==
    [y : Nat, x : Nat, flip : BOOLEAN,
     tile : [0..(Height - 1) -> SUBSET (0..(Width - 1))], below : SUBSET (0..(Width - 1))]

ASSUME GeometryAssumption ==
    /\ {Lines, LineLen, Width, Height, LastX, VblEnd, FirstLine, FrameLen, Overclock}
           \subseteq Nat \ {0}
    /\ HitOffset \in Nat /\ LastX < LineLen /\ HitOffset < LineLen /\ LineLen - HitOffset < FirstLine
    /\ Overclock * (VblEnd + 1) <= EarliestHit - LineLen
    /\ FirstLine + (Lines - 1) * LineLen < Overclock * FrameLen
    /\ Pictures \subseteq SUBSET ((0..(Lines - 1)) \X Columns)
    /\ Sprites \subseteq SpriteType /\ MaxWrites \in Nat

VARIABLES
    now,     \* the cycle
    extra,   \* extra_clocks: clocks of the last frame's last cycle in this one
    ppu,     \* lines: scanline_count; found: sprite_hit_found; check:
             \* next_sprite_hit_check; next: next_status_event, which
             \* ppu_2002_time follows; flag: r2002 & 0x40; old: end_vbl_mask,
             \* the flag is of the frame before
    spr,     \* sprite 0
    picture, \* the background
    on,      \* $2001: background and sprites both shown
    clip,    \* $2001: either hidden at the left edge
    shown,   \* host_pixels is not NULL
    seen,    \* ghost: the flag a read returned just now, "none" without one
    steady,  \* ghost: sprite and $2001 are as before the first line and poll
    writes   \* ghost: so far

vars == <<now, extra, ppu, spr, picture, on, clip, shown, seen, steady, writes>>

Clock(t) == t * Overclock + extra               \* ppu_time
Cycle(p) == (p - extra) \div Overclock          \* nes_time
Larger(a, b)  == IF a < b THEN b ELSE a
Smaller(a, b) == IF a < b THEN a ELSE b
-----------------------------------------------------------------------------
(* Looking for the pixel.  found is 0 before, -1 once it cannot be, else   *)
(* the line times LineLen plus the column.                                 *)

Row(k) == IF k < Height THEN spr.tile[k] ELSE spr.below

Pixel(line, x) == line * LineLen + x

LeftEdge == IF clip THEN Width ELSE 0

\* check_sprite_hit, for lines begin to end - 1; skip: rows of the sprite that
\* are above them.  A flipped sprite is tested from its last row plus skip.
CheckSpriteHit(s, begin, end) ==
    LET skip    == Larger(begin - (spr.y + 1), 0)
        top     == spr.y + 1 + skip
        visible == Smaller(end - top, Height)
        row(i)  == IF spr.flip THEN skip + Height - 1 - i ELSE skip + i
        line(i) == spr.y + 1 + (IF spr.flip THEN Height - 1 - row(i) ELSE row(i))
        hits    == {Pixel(line(h[1]), spr.x + h[2]) : h \in
                    {h \in (0..(visible - 1)) \X (0..(Width - 1)) :
                        /\ h[2] \in Row(row(h[1]))
                        /\ spr.x + h[2] \in LeftEdge..(LastX - 1)
                        /\ <<top + h[1], spr.x + h[2]>> \in picture}}
    IN  IF visible <= 0 THEN s
        ELSE IF hits # {} THEN [s EXCEPT !.found = Min(hits)]
        ELSE [s EXCEPT !.found = IF visible = Height THEN -1 ELSE 0]

\* sprite_hit_possible
Possible(s, line) == s.found = 0 /\ spr.y <= line /\ on

TestLines(s, begin, end) ==
    IF Possible(s, end) THEN CheckSpriteHit(s, begin, end) ELSE s

\* "not rendering, but still handle sprite hit": only its lines are drawn
TestHidden(s, begin, end) ==
    LET from == Larger(begin, Smaller(end, spr.y + 1))
        upto == from + Smaller(end - from, Height)
    IN  IF Possible(s, end) /\ upto > from THEN TestLines(s, from, upto) ELSE s

\* draw_background, up to the line end
DrawTo(s, end) ==
    [(IF shown THEN TestLines(s, s.lines, end) ELSE TestHidden(s, s.lines, end))
        EXCEPT !.lines = end]

\* the lines that have begun, or begin at this very clock
LineTime(k) == FirstLine + k * LineLen
Due(t) == Cardinality({k \in 0..(Lines - 1) : LineTime(k) <= Clock(t)})

\* nothing is drawn for a line that just begins, but it is drawn with others
RenderBgUntil(s, t) ==
    IF LineTime(s.lines) < Clock(t) /\ Due(t) > s.lines THEN DrawTo(s, Due(t)) ELSE s
-----------------------------------------------------------------------------
(* The flag                                                                *)

\* first_opaque_sprite_line, which does not know of flipping
FirstOpaque ==
    LET rows == {k \in 0..(Height - 1) : spr.tile[k] # {}}
    IN  IF rows = {} THEN Height ELSE Min(rows)

\* where a hit in the first column of the sprite's line would be
LineHit(line) == EarliestHit + spr.x + line * LineLen

\* k lines more, one by one
OneByOne(s) ==
    LET drawn[k \in Nat] == IF k = 0 THEN s ELSE DrawTo(drawn[k - 1], s.lines + k)
    IN  drawn

\* "render scanline and compare pixels": all that are due, then one by one
Ahead(s, t, needed) ==
    IF s.lines >= needed THEN s
    ELSE LET due == RenderBgUntil(s, t)
         IN  OneByOne(due)[Larger(needed - due.lines, 0)]

HitTime(found) == EarliestHit + found - LineLen

\* update_sprite_hit, before and after the lines it needs
Judge_NextLine(s, t) ==
    IF s.found < 0 THEN [s EXCEPT !.check = Never]
    ELSE IF s.found = 0 THEN [s EXCEPT !.check = Cycle(LineHit(s.lines))]
    ELSE IF Clock(t) < HitTime(s.found) THEN [s EXCEPT !.check = Cycle(HitTime(s.found))]
    ELSE [s EXCEPT !.check = Never, !.flag = TRUE]
Judge(s, t) ==
    IF s.found < 0 THEN [s EXCEPT !.check = Never]
    ELSE IF s.found = 0 THEN [s EXCEPT !.check = Cycle(LineHit(s.lines - 1))]
    ELSE IF Clock(t) < HitTime(s.found) THEN [s EXCEPT !.check = Cycle(HitTime(s.found))]
    ELSE [s EXCEPT !.check = Never, !.flag = TRUE]

UpdateSpriteHit(s, t) ==
    LET earliest == LineHit(spr.y + FirstOpaque)
        needed   == Smaller(Lines, 2 + (Clock(t) - LineHit(0)) \div LineLen)
    IN  IF Clock(t) < earliest THEN [s EXCEPT !.check = Cycle(earliest)]
        ELSE Judge(Ahead(s, t, needed), t)

\* query_until; end_vblank first
QueryUntil(s, t) ==
    LET begun == [s EXCEPT !.flag = @ /\ ~s.old, !.old = FALSE]
    IN  IF t > s.check THEN UpdateSpriteHit(begun, t) ELSE begun

\* A read: nes_cpu_io answers from r2002 while next is more than a cycle off.
ReadStatus(s, t) ==
    IF t < s.next - 1 THEN s
    ELSE IF t > s.next /\ t > VblEnd
    THEN LET q == QueryUntil(s, t) IN [q EXCEPT !.next = q.check]
    ELSE [s EXCEPT !.next = VblEnd]

\* begin_frame
NewFrame(flag) ==
    [lines |-> 0, found |-> 0, check |-> 0, next |-> 0, flag |-> flag, old |-> TRUE]
-----------------------------------------------------------------------------
Tick ==
    /\ now < FrameLen /\ now' = now + 1 /\ seen' = "none"
    /\ UNCHANGED <<extra, ppu, spr, picture, on, clip, shown, steady, writes>>

Read ==
    /\ ppu' = ReadStatus(ppu, now)
    /\ seen' = IF ppu'.flag THEN "hit" ELSE "no hit"
    /\ UNCHANGED <<now, extra, spr, picture, on, clip, shown, steady, writes>>

\* the register accesses that call render_bg_until and change no sprite
Split ==
    /\ ppu' = RenderBgUntil(ppu, now) /\ seen' = "none"
    /\ UNCHANGED <<now, extra, spr, picture, on, clip, shown, steady, writes>>

\* what has been rendered before the write stays
Write(s) ==
    /\ writes < MaxWrites /\ writes' = writes + 1
    /\ ppu' = s /\ seen' = "none"
    /\ steady' = (steady /\ s.lines = 0 /\ s.check = 0)

\* dma_sprites, a $2004 write.  render_until does nothing before the line
\* after the one it last stopped at begins: then no line is due either.
WriteSprite ==
    /\ Write(RenderBgUntil(ppu, now)) /\ spr' \in Sprites
    /\ UNCHANGED <<now, extra, picture, on, clip, shown>>

\* $2001 takes effect after this cycle
WriteMask ==
    /\ Write(RenderBgUntil(ppu, now + 1))
    /\ \/ on' = ~on /\ UNCHANGED clip
       \/ clip' = ~clip /\ UNCHANGED on
    /\ UNCHANGED <<now, extra, spr, picture, shown>>

\* end_frame and begin_frame; the host may ask for the next frame's pixels
EndFrame ==
    /\ now = FrameLen /\ now' = 0
    /\ ppu' = NewFrame(QueryUntil(RenderBgUntil(ppu, now), now).flag)
    /\ extra' \in 0..(Overclock - 1) /\ shown' \in BOOLEAN
    /\ steady' = TRUE /\ seen' = "none" /\ writes' = 0
    /\ UNCHANGED <<spr, picture, on, clip>>

Init ==
    /\ now = 0 /\ extra \in 0..(Overclock - 1) /\ ppu = NewFrame(FALSE)
    /\ spr \in Sprites /\ picture \in Pictures
    /\ on = TRUE /\ clip \in BOOLEAN /\ shown \in BOOLEAN
    /\ seen = "none" /\ steady = TRUE /\ writes = 0

Next == Tick \/ Read \/ Split \/ WriteSprite \/ WriteMask \/ EndFrame

Spec == Init /\ [][Next]_vars
=============================================================================
