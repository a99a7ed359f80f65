----------------------------- MODULE MCPpuScroll -----------------------------
(***************************************************************************)
(* The properties of the scroll registers and lazy rendering.              *)
(***************************************************************************)
EXTENDS PpuScroll

MCYData  == {<<3, 2>>, <<2, 3>>}
MCNtData == {<<1, 1>>}

\* A line rendered late, in a batch, is rendered from the address it began
\* with: the accesses that change what lines begin with catch up first.  It is
\* not said of a frame's first line after an access between the dot and that
\* line (FirstMissed), nor after an access that uses or changes the address,
\* or what it moves by, without catching up ($2007 writes; $2000 and $2001
\* writes whose catching up render_until has had its turn in), until a frame
\* loads the address again.
LinesRight == right

\* The vertical position is at every clock the one of a PPU that counts its
\* lines on time, whatever was rendered when; again until an access uses or
\* changes the address without catching up.
VerticalRight ==
    exact => LET now == Now.vram
             IN  /\ FineY(now) = FineY(live)
                 /\ NtV(now) = NtV(live) /\ CoarseY(now) = CoarseY(live)

\* Every line of the picture is rendered once, however late the frame is
\* caught up with and whatever render_until put off.
EveryLine == time = FrameEnd => Now.count = Lines

A12(a) == (a \div Row) % 2 = 1

\* The mapper hears of every rise of bit 12 that a $2006 or $2007 access makes
\* in the address of the PPU on time, with the same exception.
RisesClocked ==
    [][time' = time /\ exact' /\ ~A12(live) /\ A12(live') => clocked']_vars
=============================================================================
