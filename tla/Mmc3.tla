-------------------------------- MODULE Mmc3 --------------------------------
(***************************************************************************)
(* The IRQ side of the MMC3 mapper (Nes_Mmc3.cpp).  The counter is run     *)
(* lazily: scanlines are clocked in a batch when the CPU writes an IRQ     *)
(* register, when background rendering is switched, when an IRQ time is    *)
(* asked for, and at the end of a frame.  Between those moments the CPU    *)
(* relies on the IRQ time it was last told.                                *)
(*                                                                         *)
(* Times: now and cpuIrq are CPU cycles, nextTime is PPU dots, Overclock   *)
(* dots to a cycle.  LineLen, FirstLine and Lines are scaled down.         *)
(***************************************************************************)
EXTENDS Integers, FiniteSets

CONSTANTS
    Latches,   \* values a game writes to the latch
    Overclock, \* ppu_overclock
    LineLen,   \* Nes_Ppu::scanline_len
    FirstLine, \* first_scanline
    Lines,     \* visible scanlines (240)
    FrameLen,  \* CPU cycles in a frame
    Overshoot  \* bound: how far the last instruction runs past the frame

ASSUME TimeAssumption ==
    /\ {Overclock, LineLen, FirstLine, Lines, FrameLen} \subseteq Nat \ {0}
    /\ Overshoot \in Nat
    /\ Overclock <= LineLen \* a scanline is longer than a cycle: 341 dots and 3
    /\ FrameLen * Overclock > FirstLine + Lines * LineLen
    /\ Overshoot * Overclock < FirstLine
ASSUME LatchAssumption == Latches \subseteq 0..255 /\ 0 \in Latches

VARIABLES
    now,       \* cpu_time()
    nextTime,  \* next_time: the next scanline to clock
    ctr,       \* irq_ctr
    latch,     \* irq_latch
    enabled,   \* irq_enabled
    flag,      \* irq_flag
    rendering, \* ppu_enabled(): bit 3 of w2001
    cpuIrq,    \* the IRQ time the CPU was last told
    running,   \* inside emulate_frame
    saved      \* a saved state, << >> if none

regs == <<nextTime, ctr, latch, enabled, flag>>
vars == <<now, nextTime, ctr, latch, enabled, flag, rendering, cpuIrq, running, saved>>

LastLine == FirstLine + Lines * LineLen
NoIrq    == FrameLen * Overclock * 4  \* later than any time of a run

-----------------------------------------------------------------------------
(* clock_counter, run_until and next_irq on a record of the registers; on  *)
(* says whether background rendering is enabled.                           *)

Regs == [next |-> nextTime, ctr |-> ctr, latch |-> latch,
         enabled |-> enabled, flag |-> flag]

\* `!irq_ctr--` with the reload, zero raising the flag when enabled
ClockCounter(m) ==
    LET c == IF m.ctr = 0 THEN m.latch ELSE m.ctr - 1
    IN  [m EXCEPT !.ctr = c, !.flag = IF c = 0 THEN m.enabled ELSE @]

\* how many scanlines the loop of run_until(t) passes
DueLines_NoLimit(m, t) ==
    Cardinality({k \in 0..Lines : m.next + k * LineLen < t * Overclock})
DueLines(m, t) ==
    Cardinality({k \in 0..Lines : /\ m.next + k * LineLen < t * Overclock
                                  /\ m.next + k * LineLen <= LastLine})

\* the counter after 0, 1, 2, ... scanlines of the loop
Clocked(m, on) ==
    LET clocked[k \in 0..(Lines + 1)] ==
            IF k = 0 \/ ~on THEN m ELSE ClockCounter(clocked[k - 1])
    IN  clocked

RunUntil(m, t, on) ==
    [Clocked(m, on)[DueLines(m, t)] EXCEPT !.next = m.next + DueLines(m, t) * LineLen]

\* the scanlines left before the one that makes the counter zero
Remain_NoReload(m) == IF m.ctr = 0 THEN 0 ELSE m.ctr - 1
Remain(m) == IF m.ctr = 0 THEN m.latch ELSE m.ctr - 1

\* next_irq, on a mapper already run to the present
NextIrq(m, on) ==
    LET time == Remain(m) * LineLen + m.next IN
    IF ~m.enabled THEN NoIrq
    ELSE IF m.flag THEN 0
    ELSE IF ~on \/ time > LastLine THEN NoIrq
    ELSE time \div Overclock + 1

Become(m) ==
    /\ nextTime' = m.next /\ ctr' = m.ctr /\ latch' = m.latch
    /\ enabled' = m.enabled /\ flag' = m.flag

\* irq_changed: next_irq runs the mapper to the present, and the CPU is told
IrqChanged(m, on) ==
    LET synced == RunUntil(m, now, on)
    IN  Become(synced) /\ cpuIrq' = NextIrq(synced, on)

-----------------------------------------------------------------------------
InFrame == running /\ UNCHANGED <<now, running, saved>>

\* the tail of write_irq and of a12_clocked: `if ( irq_enabled ) irq_changed()`
Notify_Never(m) == Become(m) /\ UNCHANGED cpuIrq
Notify(m) ==
    IF m.enabled THEN IrqChanged(m, rendering) ELSE Become(m) /\ UNCHANGED cpuIrq

\* write to an IRQ register: run_until(time), then write_irq
Synced == RunUntil(Regs, now, rendering)

WriteC000 ==
    /\ InFrame
    /\ \E data \in Latches : Notify([Synced EXCEPT !.latch = data])
    /\ UNCHANGED rendering

WriteC001 ==
    /\ InFrame
    /\ Notify([Synced EXCEPT !.ctr = 0])
    /\ UNCHANGED rendering

WriteE000 ==
    /\ InFrame
    /\ Notify([Synced EXCEPT !.flag = FALSE, !.enabled = FALSE])
    /\ UNCHANGED rendering

WriteE001 ==
    /\ InFrame
    /\ Notify([Synced EXCEPT !.enabled = TRUE])
    /\ UNCHANGED rendering

\* a $2006 or $2007 access moved A12; the mapper is not run first
A12Clocked ==
    /\ InFrame
    /\ Notify(ClockCounter(Regs))
    /\ UNCHANGED rendering

\* $2001 with bit 3 changed: run_until under the old mask, the new mask, and
\* irq_changed
WriteMask ==
    /\ InFrame
    /\ rendering' = ~rendering
    /\ IrqChanged(Synced, ~rendering)

\* the CPU executes; the mapper is not touched
Execute ==
    /\ running /\ now < FrameLen + Overshoot
    /\ now' = now + 1
    /\ UNCHANGED <<regs, rendering, cpuIrq, running, saved>>

\* the top of emulate_frame_'s loop: earliest_irq, and cpu_set_irq_time
Poll == InFrame /\ IrqChanged(Regs, rendering) /\ UNCHANGED rendering

\* ppu.end_frame sets the clock back, mapper->end_frame runs to the old time
EndFrameRegs_Late == [Regs EXCEPT !.next = FirstLine]
EndFrameRegs == [Synced EXCEPT !.next = FirstLine]

EndFrame ==
    /\ running /\ now >= FrameLen
    /\ Become(EndFrameRegs)
    /\ now' = now - FrameLen
    /\ running' = FALSE
    /\ UNCHANGED <<rendering, cpuIrq, saved>>

\* the next emulate_frame enters the loop, which polls before the CPU runs
BeginFrame ==
    /\ ~running /\ running' = TRUE
    /\ IrqChanged(Regs, rendering)
    /\ UNCHANGED <<now, rendering, saved>>

\* Between frames.  A state holds the registers but not next_time, which
\* apply_mapping sets; the CPU is told nothing.
Saved ==
    [now |-> now, ctr |-> ctr, latch |-> latch, enabled |-> enabled, flag |-> flag,
     rendering |-> rendering]

SaveState ==
    /\ ~running /\ saved' = Saved
    /\ UNCHANGED <<now, regs, rendering, cpuIrq, running>>

Restore(s) ==
    /\ ~running
    /\ now' = s.now /\ rendering' = s.rendering
    /\ Become([next |-> FirstLine, ctr |-> s.ctr, latch |-> s.latch,
               enabled |-> s.enabled, flag |-> s.flag])
    /\ UNCHANGED <<cpuIrq, running, saved>>

LoadState == saved # << >> /\ Restore(saved)

\* reset_state, on registers cleared
Clear ==
    [now |-> 0, ctr |-> 0, latch |-> 0, enabled |-> FALSE, flag |-> FALSE,
     rendering |-> FALSE]

Reset == Restore(Clear)

Init ==
    /\ now = 0 /\ nextTime = FirstLine
    /\ ctr = 0 /\ latch = 0 /\ enabled = FALSE /\ flag = FALSE
    /\ rendering = FALSE /\ cpuIrq = NoIrq /\ running = FALSE /\ saved = << >>

Next ==
    \/ WriteC000 \/ WriteC001 \/ WriteE000 \/ WriteE001 \/ A12Clocked
    \/ WriteMask \/ Execute \/ Poll \/ EndFrame \/ BeginFrame
    \/ SaveState \/ LoadState \/ Reset

Spec == Init /\ [][Next]_vars

-----------------------------------------------------------------------------
TypeOK ==
    /\ now \in 0..(FrameLen + Overshoot)
    /\ nextTime \in {FirstLine + k * LineLen : k \in 0..(Lines + 1)}
    /\ ctr \in 0..255 /\ latch \in Latches
    /\ {enabled, flag, rendering, running} \subseteq BOOLEAN
    /\ cpuIrq \in Nat
    /\ saved # << >> => saved \in [now : 0..Overshoot, ctr : 0..255, latch : Latches,
            enabled : BOOLEAN, flag : BOOLEAN, rendering : BOOLEAN]

\* next_irq's closed formula names exactly the first moment at which running
\* the scanlines one by one would find the flag raised, from every state and
\* for every later time of the frame.
PredictionExact ==
    \A t \in now..(FrameLen + Overshoot) :
        RunUntil(Synced, t, rendering).flag <=> NextIrq(Synced, rendering) <= t

\* While the CPU runs, the IRQ time it holds is never later than the true
\* one: no write, A12 edge or mask change makes it miss an IRQ.
CpuToldInTime ==
    running => \A t \in now..(FrameLen + Overshoot) :
                  NextIrq(Synced, rendering) <= t => cpuIrq <= t

\* Whatever is batched, saved and loaded, the registers a game can observe
\* are those of a counter clocked scanline by scanline (ScanlineCounter).
Scanline == INSTANCE ScanlineCounter WITH
    ctr <- Synced.ctr, flag <- Synced.flag,
    LineTimes <- {(FirstLine + k * LineLen) \div Overclock + 1 : k \in 0..Lines},
    FrameEnds <- FrameLen..(FrameLen + Overshoot)

LazyIsScanline == Scanline!Spec
=============================================================================
