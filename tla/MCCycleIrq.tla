------------------------------ MODULE MCCycleIrq ------------------------------
(***************************************************************************)
(* The properties of the cycle timers.                                     *)
(***************************************************************************)
EXTENDS CycleIrq

AllChips == {"FME7", "Namco", "VRC6"}

TypeOK ==
    /\ chip \in Chips /\ now \in 0..(FrameLen + Overshoot)
    /\ timer.count \in 0..(Word - 1) /\ timer.last \in 0..(FrameLen + Overshoot)
    /\ timer.reload \in Delays /\ cpuIrq \in 0..NoIrq
    /\ {timer.on, timer.irq, timer.pending, running, exact, told, live.must, live.may} \subseteq BOOLEAN
    /\ live.count \in 0..(Word - 1)

\* Whenever a timer is run, it has counted what one that counts every cycle
\* has, and has an IRQ pending if that one must and only if it may.
TimerExact == exact => Agree(Synced, live, now)

\* While the CPU runs, the IRQ time it was told is not after the cycle in
\* which the timer raises its IRQ.
TimerToldInTime ==
    running /\ exact /\ told =>
        \A k \in 0..(FrameLen + Overshoot - now) :
            Cycles(live, k).must => cpuIrq <= now + k

=============================================================================
