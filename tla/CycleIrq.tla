------------------------------- MODULE CycleIrq -------------------------------
(***************************************************************************)
(* The IRQ timers that count CPU cycles: FME-7 counts down, Namco 106 up   *)
(* (Mapper_Fme7.cpp, Mapper_Namco106.cpp), VRC6 keeps the time of its next *)
(* expiry (Mapper_Vrc6.cpp).  A timer is run when the game accesses it, in *)
(* most places, and at the end of a frame; in between the CPU runs to the  *)
(* IRQ time it was last told.  Beside the timer the module keeps one that  *)
(* counts every cycle as it passes.                                        *)
(*                                                                         *)
(* A frame ends at the first instruction past FrameLen, and the next one   *)
(* begins at the time left over; but the mappers are told to go back by    *)
(* the whole time run, so their timers count what was left over twice.     *)
(* The timer that counts every cycle does so too: see EndFrame.            *)
(***************************************************************************)
EXTENDS Integers

CONSTANTS
    Chips,     \* of those of the run
    LowSize,   \* values of a byte of a counter, 0x100
    Bytes,     \* bytes written to a counter
    Delays,    \* cycles to an expiry a VRC6 may be set to
    FrameLen,  \* CPU cycles in a frame
    Overshoot, \* bound: how far the last instruction runs past the frame
    Vector     \* cycles an interrupt takes

Word == LowSize * LowSize

ASSUME TimerAssumption ==
    /\ Chips \subseteq {"FME7", "Namco", "VRC6"}
    /\ LowSize \in Nat /\ LowSize > 1 /\ LowSize % 2 = 0
    /\ Bytes \subseteq 0..(LowSize - 1) /\ Delays \subseteq Nat \ {0}
    /\ {FrameLen, Overshoot} \subseteq Nat /\ Vector \in 1..Overshoot
    /\ \A d \in Delays : Overshoot < d /\ FrameLen + Overshoot + d < Word

VARIABLES
    chip,    \* never changed
    now,     \* cpu_time()
    timer,   \* the registers of the mapper
    cpuIrq,  \* the IRQ time the CPU was last told
    running, \* inside emulate_frame
    live,    \* ghost: the timer that counts every cycle
    exact,   \* ghost: no access since found the timer behind, and ignored it
    told     \* ghost: the CPU was told since an FME-7's count was written

vars == <<chip, now, timer, cpuIrq, running, live, exact, told>>

NoIrq == 4 * Word
-----------------------------------------------------------------------------
(* The timers.  count is irq_count, irq_ctr or next_time; on and irq are   *)
(* bits 0 and 7 of FME-7's mode, bits 1 and 0 of VRC6's.                   *)

\* run_until of each chip
RunFme7_NoWrap(m, t) ==
    LET count == m.count - (t - m.last)
    IN  [m EXCEPT !.last = t, !.pending = @ \/ (m.on /\ m.irq /\ count <= 0),
                  !.count = IF m.on THEN count ELSE @]
RunFme7(m, t) ==
    LET count == m.count - (t - m.last)
    IN  [m EXCEPT !.last = t, !.pending = @ \/ (m.on /\ m.irq /\ count <= 0),
                  !.count = IF m.on THEN count % Word ELSE @]

RunNamco(m, t) ==
    LET count == m.count + (t - m.last)
        top   == IF m.count >= Word \div 2 THEN Word - 1 ELSE (Word \div 2) - 1
    IN  [m EXCEPT !.last = t, !.count = IF count > top THEN top ELSE count,
                  !.pending = @ \/ (m.count >= Word \div 2 /\ count > top)]

\* each expiry before t, from the one before
RunVrc6(m, t) ==
    LET times == (t - m.count + m.reload - 1) \div m.reload
    IN  IF ~m.on \/ m.count >= t THEN m
        ELSE [m EXCEPT !.pending = TRUE, !.count = (@ + times * m.reload) % Word]

RunUntil(m, t) ==
    CASE chip = "FME7"  -> RunFme7(m, t)
      [] chip = "Namco" -> RunNamco(m, t)
      [] chip = "VRC6"  -> RunVrc6(m, t)

NextIrq_OneLate(m) ==
    IF m.pending THEN 0
    ELSE CASE chip = "FME7"  /\ m.on /\ m.irq -> m.last + m.count + 2
           [] chip = "Namco" /\ m.count >= Word \div 2 -> Word - m.count + m.last
           [] chip = "VRC6"  /\ m.on -> m.count + 1
           [] OTHER -> NoIrq
\* next_irq: 0, or for some the present time, when one is pending
NextIrq(m) ==
    IF m.pending THEN 0
    ELSE CASE chip = "FME7"  /\ m.on /\ m.irq -> m.last + m.count + 1
           [] chip = "Namco" /\ m.count >= Word \div 2 -> Word - m.count + m.last
           [] chip = "VRC6"  /\ m.on -> m.count + 1
           [] OTHER -> NoIrq

Synced == RunUntil(timer, now)

-----------------------------------------------------------------------------
(* The timer that counts every cycle.  For VRC6 its count is what is left  *)
(* to the expiry.  An FME-7's IRQ is due when the count passes zero, but   *)
(* the emulator may notice it when it reaches it: must and may.            *)

\* a count of zero may be noticed
Noticed(c) ==
    [c EXCEPT !.may = @ \/ (chip = "FME7" /\ c.on /\ c.irq /\ c.count = 0)]

Raise(c, yes) == [c EXCEPT !.must = @ \/ yes, !.may = @ \/ yes]

Cycle(c) ==
    CASE chip = "FME7" ->
            IF ~c.on THEN c
            ELSE Noticed([Raise(c, c.irq /\ c.count = 0) EXCEPT !.count = (@ - 1) % Word])
      [] chip = "Namco" ->
            IF c.count = (Word \div 2) - 1 THEN c
            ELSE IF c.count = Word - 1 THEN Raise(c, TRUE)
            ELSE [c EXCEPT !.count = @ + 1]
      [] chip = "VRC6" ->
            IF ~c.on THEN c
            ELSE IF c.count = 0 THEN [Raise(c, TRUE) EXCEPT !.count = c.reload - 1]
            ELSE [c EXCEPT !.count = @ - 1]

Cycles(c, n) ==
    LET after[k \in 0..n] == IF k = 0 THEN c ELSE Cycle(after[k - 1])
    IN  after[n]

\* a timer run to time t is the one that counted every cycle
Agree(m, c, t) ==
    /\ CASE chip = "VRC6" -> m.on => m.count - t = c.count
         [] OTHER -> m.count = c.count
    /\ c.must => m.pending
    /\ m.pending => c.may

-----------------------------------------------------------------------------
Access == running /\ UNCHANGED <<chip, now, running>>

\* irq_changed: the CPU is told the time, of the timer as it is
Tell(m) == cpuIrq' = NextIrq(m) /\ told' = TRUE

\* the game sets the mode of an FME-7, by $8000 and $A000
WriteFme7Mode_NotRun ==
    /\ chip = "FME7" /\ Access
    /\ \E on, irq \in BOOLEAN :
        /\ timer' = [timer EXCEPT !.on = on, !.irq = irq, !.pending = FALSE]
        /\ Tell(timer')
        /\ live' = Noticed([live EXCEPT !.on = on, !.irq = irq, !.must = FALSE, !.may = FALSE])
    /\ UNCHANGED exact
WriteFme7Mode ==
    /\ chip = "FME7" /\ Access
    /\ \E on, irq \in BOOLEAN :
        /\ timer' = [Synced EXCEPT !.on = on, !.irq = irq, !.pending = FALSE]
        /\ Tell(timer')
        /\ live' = Noticed([live EXCEPT !.on = on, !.irq = irq, !.must = FALSE, !.may = FALSE])
    /\ UNCHANGED exact

\* a byte of a counter
WithByte(count, high, b) ==
    IF high THEN b * LowSize + (count % LowSize) ELSE count - (count % LowSize) + b

\* ... of an FME-7: the timer is run first, but the CPU is not told
WriteFme7Count ==
    /\ chip = "FME7" /\ Access
    /\ \E high \in BOOLEAN, b \in Bytes :
        /\ timer' = [Synced EXCEPT !.count = WithByte(@, high, b)]
        /\ live' = Noticed([live EXCEPT !.count = WithByte(@, high, b)])
    /\ told' = FALSE
    /\ UNCHANGED <<cpuIrq, exact>>

\* ... of a Namco 106, at $5000 or $5800: the CPU is told, but the timer is
\* not run first, so the cycles before the write count on
WriteNamco ==
    /\ chip = "Namco" /\ Access
    /\ \E high \in BOOLEAN, b \in Bytes :
        /\ timer' = [timer EXCEPT !.count = WithByte(@, high, b), !.pending = FALSE]
        /\ live' = [live EXCEPT !.count = WithByte(@, high, b), !.must = FALSE, !.may = FALSE]
    /\ Tell(timer')
    /\ exact' = Agree(RunUntil(timer', now), live', now)

\* reading it acknowledges the IRQ of the timer as it is
ReadNamco ==
    /\ chip = "Namco" /\ Access
    /\ timer' = [timer EXCEPT !.pending = FALSE]
    /\ live' = [live EXCEPT !.must = FALSE, !.may = FALSE]
    /\ exact' = Agree(RunUntil(timer', now), live', now)
    /\ UNCHANGED <<cpuIrq, told>>

\* $F000 of a VRC6
WriteVrc6Reload ==
    /\ chip = "VRC6" /\ Access
    /\ \E d \in Delays :
        /\ timer' = [Synced EXCEPT !.reload = d]
        /\ live' = [live EXCEPT !.reload = d]
    /\ Tell(timer')
    /\ UNCHANGED exact

\* $F001: the mode, and a new expiry if it enables the timer
WriteVrc6Mode ==
    /\ chip = "VRC6" /\ Access
    /\ \E on, irq \in BOOLEAN :
        /\ timer' = [Synced EXCEPT !.on = on, !.irq = irq, !.pending = FALSE,
                                   !.count = IF on THEN (now + timer.reload) % Word ELSE @]
        /\ live' = [live EXCEPT !.on = on, !.irq = irq, !.must = FALSE, !.may = FALSE,
                                !.count = IF on THEN live.reload ELSE @]
        /\ exact' = (exact \/ on)
    /\ Tell(timer')

\* $F002: acknowledge, and enable again if the mode says so.  A timer that
\* was off has the expiry it had when it was on last.
WriteVrc6Ack ==
    /\ chip = "VRC6" /\ Access
    /\ timer' = [Synced EXCEPT !.on = timer.irq, !.pending = FALSE]
    /\ live' = [live EXCEPT !.on = live.irq, !.must = FALSE, !.may = FALSE]
    /\ exact' = (exact /\ (timer.irq => timer.on))
    /\ Tell(timer')

\* $2001 with bit 3 changed runs the mapper, and tells the CPU
WriteMask ==
    /\ Access
    /\ timer' = Synced
    /\ Tell(timer')
    /\ UNCHANGED <<live, exact>>

\* the CPU executes; the mapper is not touched
Execute ==
    /\ running /\ now < FrameLen + Overshoot
    /\ now' = now + 1
    /\ live' = Cycle(live)
    /\ UNCHANGED <<chip, timer, cpuIrq, running, exact, told>>

\* the top of emulate_frame_'s loop
Poll ==
    /\ Access
    /\ Tell(timer)
    /\ UNCHANGED <<timer, live, exact>>

\* the IRQ is taken: the timer is run, and the interrupt takes its time
Take ==
    /\ running /\ now >= NextIrq(timer) /\ now + Vector <= FrameLen + Overshoot
    /\ Tell(timer)
    /\ timer' = Synced
    /\ now' = now + Vector
    /\ live' = Cycles(live, Vector)
    /\ UNCHANGED <<chip, running, exact>>

\* end_frame of the mapper, told the time the CPU ran to.  It goes back by
\* that time, the CPU only by FrameLen.
Ended(m) ==
    LET s == RunUntil(m, now)
    IN  IF chip = "VRC6" THEN [s EXCEPT !.count = (@ - now) % Word]
        ELSE [s EXCEPT !.last = @ - now]

EndFrame ==
    /\ running /\ running' = FALSE
    /\ now >= FrameLen /\ now' = now - FrameLen
    /\ timer' = Ended(timer)
    /\ live' = Cycles(live, now')
    /\ UNCHANGED <<chip, cpuIrq, exact, told>>

\* the next emulate_frame enters the loop, which polls before the CPU runs
BeginFrame ==
    /\ ~running /\ running' = TRUE
    /\ Tell(timer)
    /\ UNCHANGED <<chip, now, timer, live, exact>>

\* reset_state and apply_mapping; VRC6 takes a reload of 0 for the longest
Init ==
    /\ chip \in Chips /\ now = 0
    /\ \E d \in Delays :
        /\ \A e \in Delays : e <= d
        /\ timer = [count |-> IF chip = "FME7" THEN Word - 1 ELSE 0, last |-> 0,
                    on |-> FALSE, irq |-> FALSE, reload |-> d, pending |-> FALSE]
    /\ live = [count |-> timer.count, on |-> FALSE, irq |-> FALSE,
               reload |-> timer.reload, must |-> FALSE, may |-> FALSE]
    /\ cpuIrq = NoIrq /\ running = FALSE /\ exact = TRUE /\ told = TRUE

Next ==
    \/ WriteFme7Mode \/ WriteFme7Count \/ WriteNamco \/ ReadNamco
    \/ WriteVrc6Reload \/ WriteVrc6Mode \/ WriteVrc6Ack
    \/ WriteMask \/ Execute \/ Poll \/ Take \/ EndFrame \/ BeginFrame

Spec == Init /\ [][Next]_vars
=============================================================================
