-------------------------- MODULE ScanlineCounter --------------------------
(***************************************************************************)
(* What an MMC3 promises a game: a counter that a visible scanline clocks  *)
(* at the moment it passes, and an IRQ flag raised when the counter        *)
(* reaches zero.  Module Mmc3 shows that the emulator's lazy counter       *)
(* behaves like this one.                                                  *)
(***************************************************************************)
EXTENDS Integers

CONSTANTS
    Latches,   \* values of the reload latch
    LineTimes, \* CPU times at which a scanline clocks the counter
    FrameEnds, \* CPU times at which a frame may end
    FrameLen   \* CPU cycles the clock is set back by at the end of a frame

VARIABLES now, ctr, latch, enabled, flag, rendering, saved

counter == <<now, ctr, latch, enabled, flag, rendering>>
vars    == <<counter, saved>>

Init ==
    /\ now = 0
    /\ ctr \in Latches /\ latch \in Latches
    /\ enabled = FALSE /\ flag = FALSE /\ rendering = FALSE /\ saved = << >>

\* reload from the latch at zero, otherwise count down; zero raises the flag
Clock ==
    /\ ctr' = IF ctr = 0 THEN latch ELSE ctr - 1
    /\ flag' = IF ctr' = 0 THEN enabled ELSE flag

Tick ==
    /\ now' = now + 1
    /\ IF now' \in LineTimes /\ rendering THEN Clock ELSE UNCHANGED <<ctr, flag>>
    /\ UNCHANGED <<latch, enabled, rendering>>

SetLatch ==
    /\ latch' \in Latches
    /\ UNCHANGED <<now, ctr, enabled, flag, rendering>>

Reload ==
    /\ ctr' = 0
    /\ UNCHANGED <<now, latch, enabled, flag, rendering>>

Disable ==
    /\ enabled' = FALSE /\ flag' = FALSE
    /\ UNCHANGED <<now, ctr, latch, rendering>>

Enable ==
    /\ enabled' = TRUE
    /\ UNCHANGED <<now, ctr, latch, flag, rendering>>

Toggle ==
    /\ rendering' = ~rendering
    /\ UNCHANGED <<now, ctr, latch, enabled, flag>>

A12Rise == Clock /\ UNCHANGED <<now, latch, enabled, rendering>>

NextFrame ==
    /\ now \in FrameEnds
    /\ now' = now - FrameLen
    /\ UNCHANGED <<ctr, latch, enabled, flag, rendering>>

\* the whole machine is saved and comes back; or it is reset
Save ==
    /\ saved' = [now |-> now, ctr |-> ctr, latch |-> latch, enabled |-> enabled,
                 flag |-> flag, rendering |-> rendering]
    /\ UNCHANGED counter

Load ==
    /\ saved # << >>
    /\ now' = saved.now /\ ctr' = saved.ctr /\ latch' = saved.latch
    /\ enabled' = saved.enabled /\ flag' = saved.flag /\ rendering' = saved.rendering
    /\ UNCHANGED saved

Reset ==
    /\ now' = 0 /\ ctr' = 0 /\ latch' = 0
    /\ enabled' = FALSE /\ flag' = FALSE /\ rendering' = FALSE
    /\ UNCHANGED saved

Next ==
    \/ UNCHANGED saved /\ (\/ Tick \/ SetLatch \/ Reload \/ Disable \/ Enable
                           \/ Toggle \/ A12Rise \/ NextFrame)
    \/ Save \/ Load \/ Reset

Spec == Init /\ [][Next]_vars
=============================================================================
