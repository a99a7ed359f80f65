--------------------------------- MODULE Apu ---------------------------------
(***************************************************************************)
(* The interrupts of the sound unit (Nes_Apu.cpp, the DMC of Nes_Oscs.cpp, *)
(* apu_state.cpp).  The unit runs only when the CPU touches it or a frame  *)
(* ends; in between, the CPU trusts the time `earliest_irq_` that          *)
(* irq_changed last computed.                                              *)
(*                                                                         *)
(* Sound is off (enable_sound(false)), so the DMC is silent whenever it    *)
(* runs, and the other four channels have no part in an interrupt.  Times  *)
(* are CPU cycles since the start of the frame.                            *)
(***************************************************************************)
EXTENDS Integers

CONSTANTS
    FramePeriod,  \* frame_period, 7458
    ByteBits,     \* bits in a sample byte, 8
    Periods,      \* DMC periods a game selects
    Lengths,      \* sample lengths a game selects, in bytes
    FrameLen,     \* CPU cycles in a video frame
    Overshoot,    \* bound: how far the last instruction runs past it
    NoIrq         \* no_irq

ASSUME PeriodAssumption ==
    /\ FramePeriod \in Nat /\ FramePeriod > 3 /\ ByteBits \in Nat \ {0}
    /\ Periods \subseteq Nat \ {0} /\ Lengths \subseteq Nat \ {0}
    /\ 1 \in Lengths /\ Periods # {}
ASSUME FrameAssumption ==
    /\ FrameLen \in Nat \ {0} /\ Overshoot \in 0..(FrameLen - 1)
    /\ NoIrq \in Nat /\ NoIrq > 2 * FrameLen + 5 * FramePeriod
    /\ \A p \in Periods, n \in Lengths : NoIrq > 2 * FrameLen + n * ByteBits * p

VARIABLES
    apu,     \* the unit's fields, a record
    now,     \* the CPU's clock
    waited,  \* ghost: cycles the interrupt line has been up, capped at Slack
    stale,   \* ghost: a state was loaded and $4017 not written since
    dropped, \* ghost: a $4010 write took the DMC's flag down, and the announced
             \* time has not changed since
    inFrame  \* the CPU has run since the frame began

vars == <<apu, now, waited, stale, dropped, inFrame>>

\* frame interrupts are announced up to this many cycles after the flag rises
Slack == 3

Min2(a, b) == IF a < b THEN a ELSE b
-----------------------------------------------------------------------------
(* irq_changed, the DMC and the frame counter, on the record of the fields *)

IrqChanged(a) ==
    [a EXCEPT !.earliest = IF a.dmc.flag \/ a.flag THEN 0 ELSE Min2(a.dmc.next, a.nextIrq)]

\* the end of the sample, in closed form
SampleEnd_ByteLate(a) ==
    a.lastDmc + a.dmc.delay + (a.dmc.len * ByteBits + a.dmc.bits - 1) * a.dmc.period + 1
SampleEnd(a) ==
    a.lastDmc + a.dmc.delay + ((a.dmc.len - 1) * ByteBits + a.dmc.bits - 1) * a.dmc.period + 1

RecalcIrq(a) ==
    LET irq == IF a.dmc.irqOn /\ a.dmc.len > 0 THEN SampleEnd(a) ELSE NoIrq
    IN  IF irq = a.dmc.next THEN a ELSE IrqChanged([a EXCEPT !.dmc.next = irq])

\* fill_buffer: the last byte reloads the sample or ends it
FillBuffer(a) ==
    IF a.dmc.full \/ a.dmc.len = 0 THEN a
    ELSE IF a.dmc.len > 1 THEN [a EXCEPT !.dmc.full = TRUE, !.dmc.len = @ - 1]
    ELSE IF a.dmc.loop THEN [a EXCEPT !.dmc.full = TRUE, !.dmc.len = a.dmc.sample]
    ELSE IrqChanged([a EXCEPT !.dmc.full = TRUE, !.dmc.len = 0, !.dmc.on = FALSE,
                              !.dmc.flag = a.dmc.irqOn, !.dmc.next = NoIrq])

\* one turn of run's loop: a bit is over
BitOver(a) ==
    IF a.dmc.bits > 1 THEN [a EXCEPT !.dmc.bits = @ - 1]
    ELSE FillBuffer([a EXCEPT !.dmc.bits = ByteBits, !.dmc.full = FALSE])

\* the bits that end before `end`
BitsUntil_RoundsDown(start, end, period) ==
    IF start < end THEN (end - start) \div period ELSE 0
BitsUntil(start, end, period) ==
    IF start < end THEN (end - start + period - 1) \div period ELSE 0

\* Nes_Dmc::run up to `end`: silent and empty it skips in one go
RunDmc(a, end) ==
    LET d     == a.dmc
        start == a.lastDmc + d.delay
        count == BitsUntil(start, end, d.period)
        run[k \in 0..count] == IF k = 0 THEN a ELSE BitOver(run[k - 1])
        ran   == IF d.full THEN run[count]
                 ELSE [a EXCEPT !.dmc.bits = ((@ - 1 + ByteBits - (count % ByteBits)) % ByteBits) + 1]
    IN  IF a.lastDmc >= end THEN a
        ELSE [ran EXCEPT !.lastDmc = end, !.dmc.delay = start + count * d.period - end]

NextDmcRead(a) ==
    IF a.dmc.len = 0 THEN NoIrq
    ELSE a.lastDmc + a.dmc.delay + (a.dmc.bits - 1) * a.dmc.period

\* run_until: the DMC alone, and only if it will read memory
RunUntil(a, end) == IF end > NextDmcRead(a) THEN RunDmc(a, end) ELSE a

\* the switch in run_until_ when frame_delay is over
FrameEvent(a) ==
    CASE a.frame = 0 ->
            LET irq == ~a.five /\ ~a.irqOff
            IN  [a EXCEPT !.frame = 1, !.delay = FramePeriod, !.flag = irq \/ @,
                          !.nextIrq = IF irq THEN a.last + 4 * FramePeriod + 1 ELSE @]
      [] a.frame = 1 -> [a EXCEPT !.frame = 2, !.delay = FramePeriod - 2]
      [] a.frame = 2 -> [a EXCEPT !.frame = 3, !.delay = FramePeriod]
      [] a.frame = 3 -> [a EXCEPT !.frame = 0,
                            !.delay = IF a.five THEN 2 * FramePeriod - 6 ELSE FramePeriod]

\* one turn of run_until_'s loop; at `end` it changes nothing
FrameStep(a, end) ==
    LET time == Min2(a.last + a.delay, end)
        ran  == [a EXCEPT !.last = time, !.delay = @ - (time - a.last)]
    IN  IF time = end THEN ran ELSE FrameEvent(ran)

RunUntil_(a, end) ==
    LET step[k \in 0..(end - a.last + 1)] ==
            IF k = 0 THEN RunDmc(a, end) ELSE FrameStep(step[k - 1], end)
    IN  IF end <= a.last THEN a ELSE step[end - a.last + 1]
-----------------------------------------------------------------------------
(* register writes, on a unit that has run up to the write                 *)

Put4010(a, irqOn, loop, period) ==
    RecalcIrq([a EXCEPT !.dmc.irqOn = irqOn, !.dmc.loop = loop, !.dmc.period = period,
                        !.dmc.flag = @ /\ irqOn])

StartDmc(a) == RecalcIrq(FillBuffer([a EXCEPT !.dmc.len = a.dmc.sample]))

\* clearing a channel's enable bit ends its note
Enabled(a, on) == [a EXCEPT !.dmc.on = on, !.dmc.len = IF on THEN @ ELSE 0]

Put4015(a, on) ==
    LET recalc  == a.dmc.flag \/ ~on
        cleared == [Enabled(a, on) EXCEPT !.dmc.flag = FALSE]
        set     == IF ~on THEN [cleared EXCEPT !.dmc.next = NoIrq]
                   ELSE IF ~a.dmc.on THEN StartDmc(cleared) ELSE cleared
    IN  IF recalc THEN IrqChanged(set) ELSE set

Put4017(a, five, irqOff, time) ==
    LET delay == IF five THEN a.delay % 2 ELSE (a.delay % 2) + FramePeriod
    IN  IrqChanged([a EXCEPT !.five = five, !.irqOff = irqOff, !.flag = @ /\ ~irqOff,
                        !.frame = IF five THEN 0 ELSE 1, !.delay = delay,
                        !.nextIrq = IF five \/ irqOff THEN NoIrq
                                    ELSE time + delay + 3 * FramePeriod])

SlowestPeriod == CHOOSE p \in Periods : \A q \in Periods : q <= p

\* reset: $4017 and $4015 are written, then the channel registers
ResetApu ==
    LET blank == [last |-> 0, lastDmc |-> 0, earliest |-> NoIrq, nextIrq |-> NoIrq,
                  delay |-> 1, frame |-> 0, five |-> FALSE, irqOff |-> FALSE, flag |-> FALSE,
                  dmc |-> [delay |-> 0, len |-> 0, bits |-> 1, full |-> FALSE, on |-> FALSE,
                           irqOn |-> FALSE, loop |-> FALSE, period |-> SlowestPeriod,
                           sample |-> 1, flag |-> FALSE, next |-> NoIrq]]
    IN  Put4010(Put4015(Put4017(blank, FALSE, FALSE, 0), FALSE), FALSE, FALSE, SlowestPeriod)

\* load_state: reset, the registers written at time 0, then the fields saved;
\* and the end_frame with the negative time at which Nes_Core resumes
Reloaded(s) ==
    Put4010(Put4015(Put4017(ResetApu, s.five, s.irqOff, 0), s.dmc.on),
            s.dmc.irqOn, s.dmc.loop, s.dmc.period)

Later(time, end) == IF time = NoIrq THEN NoIrq ELSE time - end

ShiftTimes(a, end) ==
    [a EXCEPT !.last = @ - end, !.lastDmc = @ - end,
              !.nextIrq = Later(@, end), !.dmc.next = Later(@, end),
              !.earliest = IF @ = NoIrq THEN NoIrq ELSE IF @ < end THEN 0 ELSE @ - end]

\* `osc_enables = state.apu.w4015; // DMC clears bit 4`
Restored_NoEnables(d, s) ==
    [d EXCEPT !.delay = s.delay, !.len = s.len, !.bits = s.bits, !.full = s.full,
              !.flag = s.flag, !.sample = s.sample]
Restored(d, s) ==
    [d EXCEPT !.delay = s.delay, !.len = s.len, !.bits = s.bits, !.full = s.full,
              !.flag = s.flag, !.sample = s.sample, !.on = s.on]

LoadState(s, time) ==
    LET r == Reloaded(s)
        d == Restored(r.dmc, s.dmc)
    IN  ShiftTimes(RecalcIrq([r EXCEPT !.delay = s.delay, !.frame = s.frame,
                                       !.flag = s.flag, !.dmc = d]), -time)
-----------------------------------------------------------------------------
Line(a) == a.flag \/ a.dmc.flag

\* A CPU access happens at a cycle of its own, later than the last one.
Access == inFrame /\ apu.last < now /\ UNCHANGED <<now, inFrame>>

BecomeAfter(a) ==
    /\ apu' = a
    /\ waited' = IF Line(RunUntil_(a, now)) THEN waited ELSE 0

After(a) == BecomeAfter(a) /\ dropped' = (dropped /\ a.earliest = apu.earliest)

Write4010 ==
    /\ Access /\ UNCHANGED stale
    /\ \E p \in Periods, k \in {"irq", "loop", "off"} :
          LET ran == RunUntil_(apu, now)
              put == RunUntil(Put4010(ran, k = "irq", k = "loop", p), now + 1)
          IN  /\ BecomeAfter(put)
              /\ dropped' = \/ ran.dmc.flag /\ k # "irq"
                            \/ dropped /\ put.earliest = apu.earliest

Write4013 ==
    /\ Access /\ UNCHANGED stale
    /\ \E n \in Lengths : After([RunUntil_(apu, now) EXCEPT !.dmc.sample = n])

Write4015 ==
    /\ Access /\ UNCHANGED stale
    /\ \E on \in BOOLEAN :
          LET put == Put4015(RunUntil_(apu, now), on)
          IN  After(IF on THEN RunUntil(put, now + 1) ELSE put)

Write4017 ==
    /\ Access /\ stale' = FALSE
    /\ \E five \in BOOLEAN, irqOff \in BOOLEAN :
          After(Put4017(RunUntil_(apu, now), five, irqOff, now))

\* reading takes the frame flag down
Acknowledge_Silent(a) == [a EXCEPT !.flag = FALSE]
Acknowledge(a) == IF a.flag THEN IrqChanged([a EXCEPT !.flag = FALSE]) ELSE a

ReadStatus ==
    /\ Access /\ UNCHANGED stale
    /\ After(Acknowledge(RunUntil_(apu, now)))

\* emulate_frame_ runs the DMC when its next read is due
DmcRead ==
    /\ inFrame /\ After(RunUntil(apu, now))
    /\ UNCHANGED <<now, stale, inFrame>>

Tick ==
    /\ now < FrameLen + Overshoot
    /\ now' = now + 1 /\ inFrame' = TRUE
    /\ waited' = IF Line(RunUntil_(apu, now + 1)) THEN Min2(waited + 1, Slack) ELSE 0
    /\ UNCHANGED <<apu, stale, dropped>>

\* between instructions, so later than a write that ran the DMC one ahead
EndFrame ==
    /\ inFrame /\ now >= FrameLen /\ apu.lastDmc <= now
    /\ apu' = ShiftTimes(RunUntil_(apu, now), FrameLen)
    /\ now' = now - FrameLen /\ inFrame' = FALSE
    /\ UNCHANGED <<waited, stale, dropped>>

Reset ==
    /\ ~inFrame
    /\ apu' = ResetApu /\ now' = 0 /\ waited' = 0 /\ stale' = FALSE /\ dropped' = FALSE
    /\ UNCHANGED inFrame

\* A state saved between frames is loaded.  load_state resets all it does not
\* restore, so the state saved just now stands for any saved earlier.
Load ==
    /\ ~inFrame
    /\ apu' = LoadState(apu, now) /\ stale' = TRUE /\ dropped' = FALSE
    /\ UNCHANGED <<now, waited, inFrame>>

Init ==
    /\ apu = ResetApu /\ now = 0 /\ waited = 0 /\ stale = FALSE /\ dropped = FALSE
    /\ inFrame = FALSE

Next ==
    \/ Write4010 \/ Write4013 \/ Write4015 \/ Write4017 \/ ReadStatus \/ DmcRead
    \/ Tick \/ EndFrame \/ Reset \/ Load

Spec == Init /\ [][Next]_vars
=============================================================================
