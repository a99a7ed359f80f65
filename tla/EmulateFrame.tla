---------------------------- MODULE EmulateFrame ----------------------------
(***************************************************************************)
(* Nes_Core::emulate_frame_, the stretches of instructions Nes_Cpu::run    *)
(* executes for it (Nes_CpuRun.h), and the vertical blank flag and NMI of  *)
(* the PPU (Nes_Ppu.cpp).  The CPU looks for an interrupt only when its    *)
(* clock reaches clock_limit; emulate_frame_ sets the limit to the next    *)
(* event or interrupt, and whatever changes either must move the limit.    *)
(*                                                                         *)
(* Times are cpu_time(), cycles since the start of the frame.  The code    *)
(* keeps the limits relative to cpu_time_offset, which is left out.        *)
(***************************************************************************)
EXTENDS Integers

CONSTANTS
    FrameLen,      \* ppu.frame_length()
    VblEnd,        \* vbl_end_time
    Lengths,       \* cycles of an instruction
    VectorCycles,  \* 7
    IrqDelays,     \* an access makes the IRQ due now or that much later
    Never          \* no_irq, indefinite_time

\* A frame is 29780 or 29781 cycles, the blank's part of it 2272; the longest
\* instruction, a write to $4014, takes some 520.
ASSUME TimeAssumption ==
    /\ FrameLen \in Nat /\ VblEnd \in Nat
    /\ \A n \in Lengths \cup {VectorCycles} :
          VblEnd + 2 + n < FrameLen /\ 4 * n <= FrameLen
    /\ Lengths \subseteq Nat \ {0, 1} /\ Lengths # {} /\ VectorCycles \in Nat \ {0, 1}
    /\ IrqDelays \subseteq Nat
    /\ Never \in Nat /\ Never > 4 * FrameLen
    /\ \A n \in Lengths, d \in IrqDelays : Never > FrameLen + 5 * n + 2 * VectorCycles + d

VARIABLES
    mode,     \* "top" of the loop, "run"ning the CPU, or "between" frames;
              \* "vectored": between frames, having taken an NMI on the way out
    clock,    \* cpu_time()
    inhibit,  \* the I flag
    result,   \* last_result
    extra,    \* extra_instructions
    endTime,  \* end_time_
    irqTime,  \* irq_time_
    limit,    \* clock_limit
    irqDue,   \* what earliest_irq() answers
    nmi,      \* nmi_time_
    nmiOn,    \* bit 7 of w2000
    vbl,      \* bit 7 of r2002
    vblOver,  \* end_vbl_mask was applied
    ended,    \* frame_ended
    clocks,   \* extra_clocks: the PPU clocks of a cycle gone when the frame begins
    tail,     \* frame_length_extra: those left of its last cycle
    last      \* ghost: "nmi" or "irq" if that was just taken; or the last
              \* instruction, if it changed I late, "cli" or "sei"; or "other"

thirds == <<clocks, tail>>
cpu  == <<endTime, irqTime, limit>>
ppu  == <<nmi, nmiOn, vbl, vblOver, ended>>
vars == <<mode, clock, inhibit, result, extra, endTime, irqTime, limit, irqDue,
          nmi, nmiOn, vbl, vblOver, ended, clocks, tail, last>>

Min2(a, b) == IF a < b THEN a ELSE b

-----------------------------------------------------------------------------
(* The limits.  Every change ends with clock_limit as update_clock_limit   *)
(* would set it; irq is irq_time_, i the I flag.                           *)

SetLimits(end, irq, i) ==
    /\ endTime' = end /\ irqTime' = irq
    /\ limit' = IF ~i /\ irq < end THEN irq ELSE end

\* earliest_event: the frame's end or the NMI, or earlier for a DMC read or
\* in single instruction mode
EarliestEvent(present, nmiTime) ==
    LET event == Min2(FrameLen, nmiTime) IN {event} \cup (present + 1)..event

-----------------------------------------------------------------------------
(* Nes_Cpu::run: one instruction                                           *)

Instruction ==
    /\ mode = "run" /\ clock < limit
    /\ \E n \in Lengths : clock' = clock + n
    /\ UNCHANGED <<extra, thirds>>

Continues == mode' = "run" /\ UNCHANGED result
Stops(r)  == mode' = "top" /\ result' = r

Plain ==
    /\ Instruction /\ Continues /\ last' = "other"
    /\ UNCHANGED <<endTime, irqTime, limit, inhibit, irqDue, ppu>>

\* CLI, or PLP that clears I (handle_cli).  The limit of a CLI with an IRQ
\* due lets one more instruction run.
DelayIrq(irq) == IF clock' >= irq THEN clock' + 1 ELSE irq

Cli ==
    /\ Instruction /\ inhibit /\ inhibit' = FALSE /\ last' = "cli"
    /\ IF clock' >= endTime
       THEN Stops("cli") /\ UNCHANGED <<endTime, irqTime, limit>>
       ELSE /\ Continues /\ UNCHANGED endTime
            /\ IF endTime <= irqTime
               THEN UNCHANGED <<irqTime, limit>>
               ELSE irqTime' = DelayIrq(irqTime) /\ limit' = DelayIrq(irqTime)
    /\ UNCHANGED <<irqDue, ppu>>

\* SEI, or PLP that sets I (handle_sei): an IRQ already due is still taken
Sei ==
    /\ Instruction /\ ~inhibit /\ inhibit' = TRUE /\ last' = "sei"
    /\ irqTime' = irqTime /\ limit' = endTime
    /\ IF clock' < irqTime THEN Continues ELSE Stops("sei")
    /\ UNCHANGED <<endTime, irqDue, ppu>>

\* RTI that changes I, and BRK, which sets it (i_flag_changed): at once
RtiBrk ==
    /\ Instruction /\ Continues /\ last' = "other"
    /\ inhibit' \in BOOLEAN /\ (inhibit' \/ inhibit)
    /\ SetLimits(endTime, irqTime, inhibit')
    /\ UNCHANGED <<irqDue, ppu>>

\* An access to the sound unit or the mapper moves the IRQ line; they call
\* irq_changed.
IrqAccess ==
    /\ Instruction /\ Continues /\ last' = "other"
    /\ irqDue' \in {clock' + d : d \in IrqDelays} \cup {Never}
    /\ SetLimits(endTime, irqDue', inhibit)
    /\ UNCHANGED <<inhibit, ppu>>

\* run_end_frame at time t, on <<nmi, vbl, ended>>
RunEndFrame_EvenIfEnded(t, f) ==
    IF t < FrameLen THEN f
    ELSE [nmi |-> IF nmiOn THEN FrameLen + 2 - (tail \div 2) ELSE f.nmi,
          vbl |-> TRUE, ended |-> TRUE]
RunEndFrame(t, f) ==
    IF f.ended \/ t < FrameLen THEN f
    ELSE [nmi |-> IF nmiOn THEN FrameLen + 2 - (tail \div 2) ELSE f.nmi,
          vbl |-> TRUE, ended |-> TRUE]

Flags == [nmi |-> nmi, vbl |-> vbl, ended |-> ended]

\* end_vblank, the first time after the blank is over
EndVblank(over) ==
    [Flags EXCEPT !.vbl = IF over /\ ~vblOver THEN FALSE ELSE @]

BecomeFlags(f) == nmi' = f.nmi /\ vbl' = f.vbl /\ ended' = f.ended

\* A write to $2000 that changes bit 7, at the last cycle of an instruction
WriteControl ==
    /\ Instruction /\ Continues /\ last' = "other"
    /\ LET t    == clock' - 1
           over == t > VblEnd + (IF clocks = 0 THEN 1 ELSE 0)
           f    == EndVblank(over)
           on   == ~nmiOn /\ f.vbl
           g    == [f EXCEPT !.nmi = IF on THEN t + 2 ELSE @]
       IN  /\ BecomeFlags(RunEndFrame(t - 1 + (clocks % 2), g))
           /\ vblOver' = (vblOver \/ over) /\ nmiOn' = ~nmiOn
           /\ IF on
              THEN \E end \in EarliestEvent(clock', t + 2) : SetLimits(end, irqTime, inhibit)
              ELSE UNCHANGED <<endTime, irqTime, limit>>
    /\ UNCHANGED <<inhibit, irqDue>>

\* A read of $2002 clears the flag; read as the flag is set, it suppresses
\* the NMI, or, a third of a cycle earlier, the flag
ReadStatus ==
    /\ Instruction /\ Continues /\ last' = "other"
    /\ LET t    == clock' - 1
           over == t > VblEnd
           f    == RunEndFrame(t, EndVblank(over))
       IN  /\ BecomeFlags(
                IF ~over THEN [f EXCEPT !.vbl = FALSE]
                ELSE IF clocks # 1 /\ t = FrameLen THEN [f EXCEPT !.vbl = FALSE, !.nmi = Never]
                ELSE IF clocks = 1 /\ t = FrameLen - 1
                     THEN [f EXCEPT !.vbl = FALSE, !.ended = TRUE, !.nmi = Never]
                ELSE [f EXCEPT !.vbl = FALSE])
           /\ vblOver' = (vblOver \/ over)
    /\ UNCHANGED <<endTime, irqTime, limit, inhibit, irqDue, nmiOn>>

Stop_KeepsResult ==
    /\ mode = "run" /\ clock >= limit /\ mode' = "top"
    /\ UNCHANGED <<clock, inhibit, result, extra, cpu, irqDue, ppu, thirds, last>>
Stop ==
    /\ mode = "run" /\ clock >= limit /\ Stops("cycles")
    /\ UNCHANGED <<clock, inhibit, extra, cpu, irqDue, ppu, thirds, last>>

-----------------------------------------------------------------------------
(* emulate_frame_: the loop                                                *)

NmiNextFrame == nmiOn /\ vbl

MoreInstructions ==
    \/ result \in {"cli", "sei"}
    \/ nmi # Never /\ ~NmiNextFrame

\* the ways out at the end of a frame
Return ==
    /\ mode = "top" /\ clock >= FrameLen
    /\ \/ nmi <= clock /\ NmiNextFrame /\ mode' = "between"
       \/ nmi > clock /\ (extra > 2 \/ ~MoreInstructions) /\ mode' = "between"
    /\ UNCHANGED <<clock, inhibit, result, extra, cpu, irqDue, ppu, thirds, last>>

ReturnVectored ==
    /\ mode = "top" /\ clock >= FrameLen
    /\ nmi <= clock /\ ~NmiNextFrame
    /\ mode' = "vectored" /\ clock' = clock + VectorCycles
    /\ inhibit' = TRUE /\ last' = "nmi"
    /\ UNCHANGED <<result, extra, cpu, irqDue, ppu, thirds>>

\* to the next instruction, `n` of them extra
Enter(present, n, irq) ==
    /\ mode' = "run" /\ extra' = n
    /\ \E end \in IF n > 0 THEN {present + 1} ELSE EarliestEvent(present, nmi') :
          SetLimits(end, irq, inhibit')
    /\ UNCHANGED <<result, irqDue, nmiOn, vbl, vblOver, ended, thirds>>

Loops ==
    /\ mode = "top"
    /\ clock >= FrameLen => nmi > clock /\ extra <= 2 /\ MoreInstructions
Extra_Always == extra + 1
Extra_Never == extra
Extra == IF clock >= FrameLen THEN extra + 1 ELSE extra

TakeNmi ==
    /\ Loops /\ nmi <= clock
    /\ nmi' = Never /\ clock' = clock + VectorCycles /\ inhibit' = TRUE
    /\ last' = "nmi"
    /\ Enter(clock, Extra, irqDue)

TakesIrq_NotAfterSei == irqDue <= clock /\ ~inhibit
TakesIrq == irqDue <= clock /\ (~inhibit \/ result = "sei")

TakeIrq ==
    /\ Loops /\ nmi > clock /\ TakesIrq /\ result # "cli"
    /\ clock' = clock + VectorCycles /\ inhibit' = TRUE /\ last' = "irq"
    /\ UNCHANGED nmi
    /\ Enter(clock, Extra, irqDue)

\* "CLI delays IRQ"
TakeNone ==
    /\ Loops /\ nmi > clock /\ (TakesIrq => result = "cli")
    /\ UNCHANGED <<nmi, clock, inhibit, last>>
    /\ Enter(clock, Extra, IF TakesIrq THEN clock + 1 ELSE irqDue)

\* emulate_frame's ppu.end_frame and, for the next one, ppu.begin_frame: the
\* clocks left over are counted from the next frame on, and the number it
\* will leave depends on them and on the clock skipped in odd frames.
NextFrame ==
    /\ mode \in {"between", "vectored"}
    /\ LET f == RunEndFrame(clock, EndVblank(TRUE))
       IN  /\ clocks' = tail /\ tail' \in 0..2 \ {clocks'}
           /\ vbl' = f.vbl /\ ended' = FALSE /\ vblOver' = FALSE
           /\ nmi' = IF nmiOn /\ f.vbl THEN 2 - (clocks' \div 2) ELSE Never
    /\ clock' = clock - FrameLen
    /\ irqDue' = IF irqDue = Never THEN Never ELSE IF irqDue < FrameLen THEN 0 ELSE irqDue - FrameLen
    /\ mode' = "top" /\ result' = "cycles" /\ extra' = 0
    /\ UNCHANGED <<inhibit, cpu, nmiOn, last>>

Init ==
    /\ mode = "top" /\ clock = 0 /\ inhibit = TRUE /\ result = "cycles" /\ extra = 0
    /\ endTime = Never /\ irqTime = Never /\ limit = 0 /\ irqDue = Never
    /\ nmi = Never /\ nmiOn = FALSE /\ vbl = FALSE /\ vblOver = FALSE
    /\ ended = FALSE /\ clocks = 0 /\ tail \in {1, 2} /\ last = "other"

Next ==
    \/ Plain \/ Cli \/ Sei \/ RtiBrk \/ IrqAccess \/ WriteControl \/ ReadStatus
    \/ Stop \/ Return \/ ReturnVectored \/ TakeNmi \/ TakeIrq \/ TakeNone \/ NextFrame

Spec == Init /\ [][Next]_vars /\ WF_vars(Next)
=============================================================================
