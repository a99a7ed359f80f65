------------------------------- MODULE MCApu -------------------------------
(***************************************************************************)
(* The properties of the sound unit's interrupts, and the unit that runs   *)
(* one cycle at a time they compare it with.                               *)
(***************************************************************************)
EXTENDS Apu

\* One CPU cycle of the DMC and of the frame counter, each by its countdown.
CycleDmc(a) ==
    IF a.dmc.delay > 0 THEN [a EXCEPT !.lastDmc = @ + 1, !.dmc.delay = @ - 1]
    ELSE LET b == BitOver(a)
         IN  [b EXCEPT !.lastDmc = @ + 1, !.dmc.delay = a.dmc.period - 1]

CycleFrame(a) ==
    LET b == IF a.delay > 0 THEN a ELSE FrameEvent(a)
    IN  [b EXCEPT !.last = @ + 1, !.delay = @ - 1]

Cycle(a) == CycleFrame(IF a.lastDmc = a.last THEN CycleDmc(a) ELSE a)

CycleByCycle(a, end) ==
    LET run[k \in 0..(end - a.last)] == IF k = 0 THEN a ELSE Cycle(run[k - 1])
    IN  run[end - a.last]

Unannounced(a) == [a EXCEPT !.earliest = 0]

\* Run in one go up to any later time, the unit is where running it cycle by
\* cycle would have brought it (run_until_ and Nes_Dmc::run, with its jump
\* over a silent stretch).
LazyIsCycleByCycle ==
    \A t \in {now + FramePeriod + 1, now + 3 * FramePeriod} :
        Unannounced(RunUntil_(apu, t)) = Unannounced(CycleByCycle(apu, t))

\* The CPU is never told of an interrupt that is not there: at the announced
\* time the unit, run up to then, has a flag up, unless a $4010 write just
\* took it down.
NeverSpurious == apu.earliest <= now /\ ~dropped => Line(RunUntil_(apu, now))

\* An interrupt that has been up for three cycles has been announced, unless
\* a loaded state left the frame counter's next time stale.
NeverMissed == waited = Slack /\ ~stale => apu.earliest <= now

\* What save_state stores is enough: a loaded unit has every field the saved
\* one had, but for the two times that predict the frame interrupt.
LoadRestores ==
    ~inFrame =>
        LET r == LoadState(apu, now)
        IN  [r EXCEPT !.earliest = apu.earliest, !.nextIrq = apu.nextIrq] = apu

\* "If IRQ is already pending returns irq_waiting": the time the unit tells
\* the CPU is past while a flag is up.
WaitingWhenPending == waited = Slack => apu.earliest <= now
=============================================================================
