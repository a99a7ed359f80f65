---------------------------- MODULE InterruptRule ----------------------------
(***************************************************************************)
(* When a 6502 takes an interrupt: looked at between every two             *)
(* instructions.  CLI, SEI and PLP change the I flag one instruction later *)
(* than they say; RTI and BRK change it at once.                           *)
(***************************************************************************)
EXTENDS Integers

CONSTANTS
    Never,         \* a time later than any other
    FrameLen,      \* cycles in a frame; times start again with each
    VectorCycles   \* cycles to take an interrupt

VARIABLES
    time,    \* of the next instruction
    inhibit, \* the I flag
    last,    \* the last step: "cli" or "sei" if it was an instruction that
             \* changed I late, "other" for another instruction, "nmi" or "irq"
    irqDue,  \* the interrupt line is up from then on
    nmiDue   \* a non-maskable interrupt is requested for then

vars == <<time, inhibit, last, irqDue, nmiDue>>

\* the I flag that counts now
Inhibited == IF last \in {"cli", "sei"} THEN last = "cli" ELSE inhibit

NmiNow == nmiDue <= time
IrqNow == irqDue <= time /\ ~Inhibited

Execute ==
    /\ ~NmiNow /\ ~IrqNow
    /\ time' > time
    /\ last' \in {"cli", "sei", "other"}
    /\ last' = "cli" => inhibit /\ ~inhibit'
    /\ last' = "sei" => ~inhibit /\ inhibit'
    /\ inhibit' \in BOOLEAN /\ irqDue' \in Nat /\ nmiDue' \in Nat

Vector ==
    /\ time' = time + VectorCycles
    /\ inhibit' = TRUE /\ irqDue' = irqDue

TakeNmi == NmiNow /\ Vector /\ last' = "nmi" /\ nmiDue' = Never

TakeIrq == ~NmiNow /\ IrqNow /\ Vector /\ last' = "irq" /\ nmiDue' = nmiDue

\* a frame ends; a request that was not served is made again
NextFrame ==
    /\ time >= FrameLen /\ time' = time - FrameLen
    /\ irqDue' = IF irqDue = Never THEN Never ELSE IF irqDue < FrameLen THEN 0 ELSE irqDue - FrameLen
    /\ nmiDue' \in Nat /\ (nmiDue # Never => nmiDue' # Never)
    /\ UNCHANGED <<inhibit, last>>

Init ==
    /\ time = 0 /\ inhibit = TRUE /\ last = "other" /\ irqDue = Never /\ nmiDue \in Nat

Next == Execute \/ TakeNmi \/ TakeIrq \/ NextFrame

Spec == Init /\ [][Next]_vars
=============================================================================
