------------------------- MODULE EmulateFrameProofs -------------------------
(***************************************************************************)
(* Proofs about emulate_frame_ and Nes_Cpu::run: interrupts are taken by   *)
(* the rule of InterruptRule, for every frame length, blank and            *)
(* instruction length that TimeAssumption allows.                          *)
(***************************************************************************)
EXTENDS MCEmulateFrame, TLAPS

InLoop == mode \in {"top", "run"}

\* Each extra pass takes a quarter of a frame at most.
ClockBounds ==
    /\ InLoop => /\ extra = 0 => 4 * clock < 5 * FrameLen
                 /\ extra = 1 => 4 * clock < 6 * FrameLen
                 /\ extra = 2 => 4 * clock < 7 * FrameLen
                 /\ extra = 3 => 4 * clock < 8 * FrameLen
                 /\ extra > 0 => clock >= FrameLen
    /\ mode = "between" => clock >= FrameLen /\ clock < 2 * FrameLen
    /\ mode = "vectored" => clock >= FrameLen /\ 4 * clock < 9 * FrameLen

\* The limit is what update_clock_limit makes it; irq_time_ is the interrupt's
\* time, or lies behind, or CLI has just put it off; and the run ends before
\* the next NMI.  An extra pass runs one instruction at most.
RunInv == mode = "run" =>
    /\ limit = IF ~inhibit /\ irqTime < endTime THEN irqTime ELSE endTime
    /\ irqDue <= irqTime
    /\ irqTime = irqDue \/ irqTime <= clock \/ (irqTime = clock + 1 /\ last = "cli")
    /\ extra = 0 => endTime <= FrameLen
    /\ endTime <= nmi \/ clock >= endTime
    /\ last = "cli" => clock < limit
    /\ last = "sei" => irqDue > clock
    /\ extra > 0 /\ clock < limit =>
          /\ clock + 1 = endTime /\ extra < 3 /\ (extra = 2 => ~inhibit)
          /\ extra = 1 => 4 * clock < 5 * FrameLen
          /\ extra = 2 => 4 * clock < 6 * FrameLen
    /\ extra > 0 /\ clock >= limit => clock >= FrameLen + 2

\* The I flag after CLI and SEI.
LateInv == (last = "cli" => ~inhibit) /\ (last = "sei" => inhibit)

\* The flag survives the blank's end only if the next blank has begun.
VblInv ==
    /\ ended => vblOver
    /\ vbl /\ vblOver => ended
    /\ ended => clock >= FrameLen

\* An NMI is due early in the frame, where the frame's end cannot be reached
\* before it is taken, or after the frame's end.
NmiInv == InLoop =>
    /\ nmi <= VblEnd + 3 \/ nmi >= FrameLen + 2 - (tail \div 2)
    /\ nmi <= VblEnd + 3 => clock < FrameLen \/ (mode = "top" /\ last = "nmi")
    /\ \/ nmi = Never
       \/ nmi <= FrameLen + 2
       \/ /\ clock >= FrameLen /\ NmiNextFrame
          /\ mode = "run" => clock >= limit
          /\ mode = "top" => result = "cycles"

\* last_result tells of the last instruction, except at the start of a frame,
\* where an NMI is due instead; and what the extra passes leave.
TopInv == mode = "top" =>
    /\ extra > 0 => clock >= FrameLen + 2
    /\ last = "cli" => result = "cli" \/ (nmi <= clock /\ clock < FrameLen)
    /\ last = "sei" /\ irqDue <= clock => result = "sei" \/ (nmi <= clock /\ clock < FrameLen)
    /\ result = "cli" => last = "cli"
    /\ result = "sei" => last = "sei" /\ irqDue <= clock
    /\ extra = 2 => result # "cli"
    /\ extra = 3 => result = "cycles"

\* Between frames: what is still to be served is served by the next frame's NMI.
OutInv ==
    /\ mode = "between" =>
          /\ nmi = Never \/ NmiNextFrame
          /\ last = "cli" \/ (last = "sei" /\ irqDue <= clock)
                => NmiNextFrame /\ clock >= FrameLen + 2 - (tail \div 2)
    /\ mode = "vectored" => ~NmiNextFrame /\ last = "nmi"

IInv ==
    /\ TypeOK /\ ClockBounds /\ RunInv /\ LateInv
    /\ VblInv /\ NmiInv /\ TopInv /\ OutInv

-----------------------------------------------------------------------------
\* What the assumption says of the times.
LEMMA Times ==
    /\ FrameLen \in Nat /\ VblEnd \in Nat /\ VectorCycles \in Nat /\ VectorCycles >= 2
    /\ VblEnd + 2 + VectorCycles < FrameLen /\ 4 * VectorCycles <= FrameLen
    /\ Never \in Nat /\ Never > 4 * FrameLen
    /\ \A n \in Lengths : n \in Nat /\ n >= 2 /\ VblEnd + 2 + n < FrameLen /\ 4 * n <= FrameLen
    /\ \A d \in IrqDelays : d \in Nat
BY TimeAssumption

\* The invariant's parts, spelt out.
LEMMA Typed ==
    ASSUME TypeOK
    PROVE  /\ mode \in {"top", "run", "between", "vectored"}
           /\ clock \in Nat /\ endTime \in Nat /\ irqTime \in Nat /\ limit \in Nat
           /\ irqDue \in Nat /\ nmi \in Nat
           /\ inhibit \in BOOLEAN /\ nmiOn \in BOOLEAN /\ vbl \in BOOLEAN
           /\ vblOver \in BOOLEAN /\ ended \in BOOLEAN
           /\ result \in {"cycles", "cli", "sei"}
           /\ last \in {"other", "cli", "sei", "nmi", "irq"}
           /\ extra \in 0..3 /\ clocks \in 0..2 /\ tail \in 0..2
BY DEF TypeOK

\* What every instruction does
LEMMA InstructionFacts ==
    ASSUME IInv, Instruction
    PROVE  /\ mode = "run" /\ clock < limit /\ limit <= endTime /\ clock < nmi
           /\ clock' \in Nat /\ clock' >= clock + 2
           /\ extra' = extra /\ clocks' = clocks /\ tail' = tail
           /\ nmi <= VblEnd + 3 => clock' < FrameLen
           /\ extra = 0 => endTime <= FrameLen
           /\ extra > 0 => clock' > endTime /\ clock' >= FrameLen + 2
           /\ extra < 3
           /\ irqDue <= clock => (inhibit /\ last # "sei") \/ last = "cli"
           /\ mode' \in {"run", "top"} => ClockBounds'
<1> USE DEF IInv
<1>1. PICK n \in Lengths : clock' = clock + n
  BY DEF Instruction
<1>2. /\ mode = "run" /\ clock < limit 
      /\ extra' = extra /\ clocks' = clocks /\ tail' = tail
  BY DEF Instruction, thirds
<1>3. /\ clock \in Nat /\ endTime \in Nat /\ irqTime \in Nat /\ limit \in Nat
      /\ irqDue \in Nat /\ nmi \in Nat /\ inhibit \in BOOLEAN /\ extra \in 0..3
  BY Typed
<1>4. limit <= endTime /\ (~inhibit => limit <= irqTime)
  BY <1>2, <1>3 DEF RunInv
<1>5. clock < nmi
  BY <1>2, <1>3, <1>4 DEF RunInv
<1>6. clock' \in Nat /\ clock' >= clock + 2
  BY <1>1, <1>3, Times
<1>7. nmi <= VblEnd + 3 => clock' < FrameLen
  BY <1>1, <1>3, <1>5, Times
<1>8. /\ extra = 0 => endTime <= FrameLen
      /\ extra > 0 => clock + 1 = endTime /\ extra < 3 /\ clock >= FrameLen
  BY <1>2 DEF RunInv, ClockBounds, InLoop
<1>9. extra > 0 => clock' > endTime /\ clock' >= FrameLen + 2
  BY <1>3, <1>6, <1>8, Times
<1>10. irqDue <= clock => (inhibit /\ last # "sei") \/ last = "cli"
  BY <1>2, <1>3, <1>4 DEF RunInv
<1>11. ASSUME mode' \in {"run", "top"} PROVE ClockBounds'
  <2>1. /\ extra = 0 => 4 * clock' < 5 * FrameLen
        /\ extra = 1 => 4 * clock' < 6 * FrameLen
        /\ extra = 2 => 4 * clock' < 7 * FrameLen
    <3>1. /\ extra = 0 => 4 * clock < 4 * FrameLen
          /\ extra = 1 => 4 * clock < 5 * FrameLen
          /\ extra = 2 => 4 * clock < 6 * FrameLen
      <4>1. extra = 0 => clock < FrameLen
        BY <1>2, <1>3, <1>4, <1>8, Times
      <4>2. /\ extra = 1 => 4 * clock < 5 * FrameLen
            /\ extra = 2 => 4 * clock < 6 * FrameLen
        BY <1>2 DEF RunInv
      <4> QED  BY <4>1, <4>2, <1>3, Times
    <3>2. n \in Nat /\ 4 * n <= FrameLen /\ FrameLen \in Nat /\ clock \in Nat
      BY <1>3, Times
    <3>3. 4 * clock' = 4 * clock + 4 * n
      BY <1>1, <3>2
    <3> QED  BY <3>1, <3>2, <3>3
  <2>2. extra < 3 /\ (extra > 0 => clock' >= FrameLen)
    BY <1>3, <1>6, <1>8, <1>9, Times
  <2> QED  BY <1>2, <1>3, <1>11, <2>1, <2>2 DEF ClockBounds, InLoop
<1> HIDE DEF IInv
<1> QED  BY <1>2, <1>3, <1>4, <1>5, <1>6, <1>7, <1>8, <1>9, <1>10, <1>11

\* An instruction is one the rule would let run.
LEMMA Executes ==
    ASSUME IInv, Instruction, mode' \in {"run", "top"},
           last' \in {"cli", "sei", "other"}, last' = "cli" => inhibit /\ ~inhibit',
           last' = "sei" => ~inhibit /\ inhibit', inhibit' \in BOOLEAN,
           irqDue' \in Nat, nmi' \in Nat
    PROVE  Rule!Execute
<1>1. TypeOK
  BY DEF IInv
<1>2. ~Rule!NmiNow /\ ~Rule!IrqNow
  BY <1>1, InstructionFacts, Typed DEF Rule!NmiNow, Rule!IrqNow, Rule!Inhibited
<1>3. clock' > clock
  BY <1>1, InstructionFacts, Typed
<1> QED  BY <1>2, <1>3 DEF Rule!Execute

\* An instruction after which the CPU's loop goes on: the relations between
\* its times that the invariant needs.
LEMMA RunKept ==
    ASSUME IInv, Instruction, mode' = "run",
           inhibit' \in BOOLEAN, irqTime' \in Nat, endTime' \in Nat, irqDue' \in Nat, nmi' \in Nat,
           limit' = IF ~inhibit' /\ irqTime' < endTime' THEN irqTime' ELSE endTime',
           irqDue' <= irqTime',
           irqTime' = irqDue' \/ irqTime' <= clock' \/ (irqTime' = clock' + 1 /\ last' = "cli"),
           extra = 0 => endTime' <= FrameLen,
           extra > 0 => endTime' <= clock',
           endTime' <= nmi' \/ clock' >= endTime',
           last' = "cli" => clock' < limit',
           last' = "sei" => irqDue' > clock'
    PROVE  RunInv' /\ TopInv' /\ OutInv'
<1>1. clock' \in Nat /\ extra' = extra /\ extra \in 0..3 /\ (extra > 0 => clock' >= FrameLen + 2)
  BY InstructionFacts, Typed DEF IInv
<1>2. limit' \in Nat /\ limit' <= endTime'
  OBVIOUS
<1>3. extra > 0 => ~(clock' < limit')
  BY <1>1, <1>2
<1>4. RunInv'
  BY <1>1, <1>2, <1>3 DEF RunInv
<1> QED  BY <1>4 DEF TopInv, OutInv

\* The PPU's flags stand.
LEMMA PpuKept ==
    ASSUME IInv, Instruction, mode' \in {"run", "top"}, UNCHANGED ppu
    PROVE  VblInv' /\ NmiInv'
<1>1. /\ mode = "run" /\ clock < limit /\ clock' \in Nat /\ clock' >= clock + 2 /\ tail' = tail
      /\ nmi <= VblEnd + 3 => clock' < FrameLen
  BY InstructionFacts
<1>2. nmi' = nmi /\ nmiOn' = nmiOn /\ vbl' = vbl /\ vblOver' = vblOver /\ ended' = ended
  BY DEF ppu
<1>3. clock \in Nat /\ nmi \in Nat /\ limit \in Nat /\ FrameLen \in Nat
  BY Typed, Times DEF IInv
<1>4. VblInv'
  BY <1>1, <1>2, <1>3 DEF VblInv, IInv
<1>5. /\ nmi <= VblEnd + 3 \/ nmi >= FrameLen + 2 - (tail \div 2)
      /\ nmi = Never \/ nmi <= FrameLen + 2
  BY <1>1, <1>3 DEF NmiInv, IInv, InLoop
<1>6. NmiInv'
  BY <1>1, <1>2, <1>5 DEF NmiInv, InLoop
<1> QED  BY <1>4, <1>6

\* The types of what an instruction leaves.
LEMMA TypeKept ==
    ASSUME IInv, Instruction, mode' \in {"run", "top"},
           inhibit' \in BOOLEAN, irqTime' \in Nat, endTime' \in Nat, limit' \in Nat,
           irqDue' \in Nat, nmi' \in Nat, nmiOn' \in BOOLEAN, vbl' \in BOOLEAN,
           vblOver' \in BOOLEAN, ended' \in BOOLEAN, result' \in {"cycles", "cli", "sei"},
           last' \in {"other", "cli", "sei"}
    PROVE  TypeOK'
<1>1. clock' \in Nat /\ extra' = extra /\ clocks' = clocks /\ tail' = tail
  BY InstructionFacts
<1>2. extra \in 0..3 /\ clocks \in 0..2 /\ tail \in 0..2
  BY Typed DEF IInv
<1> QED  BY <1>1, <1>2 DEF TypeOK

\* An instruction after which the CPU runs on, the PPU untouched.
LEMMA RunsOn ==
    ASSUME IInv, Instruction, mode' = "run", UNCHANGED <<result, ppu>>,
           inhibit' \in BOOLEAN, irqTime' \in Nat, endTime' = endTime, irqDue' \in Nat,
           limit' = IF ~inhibit' /\ irqTime' < endTime' THEN irqTime' ELSE endTime',
           irqDue' <= irqTime',
           irqTime' = irqDue' \/ irqTime' <= clock' \/ (irqTime' = clock' + 1 /\ last' = "cli"),
           last' \in {"other", "cli", "sei"},
           last' = "cli" => clock' < limit' /\ inhibit /\ ~inhibit',
           last' = "sei" => irqDue' > clock' /\ ~inhibit /\ inhibit'
    PROVE  IInv' /\ Rule!Next
<1>1. nmi' = nmi /\ nmiOn' = nmiOn /\ vbl' = vbl /\ vblOver' = vblOver /\ ended' = ended
  BY DEF ppu
<1>2. /\ clock \in Nat /\ endTime \in Nat /\ nmi \in Nat
      /\ nmiOn \in BOOLEAN /\ vbl \in BOOLEAN /\ vblOver \in BOOLEAN /\ ended \in BOOLEAN
      /\ result \in {"cycles", "cli", "sei"} /\ extra \in 0..3
  BY Typed DEF IInv
<1>3. endTime' \in Nat /\ limit' \in Nat
  BY <1>2
<1>4. TypeOK'
  BY <1>1, <1>2, <1>3, TypeKept
<1>5. ClockBounds' /\ VblInv' /\ NmiInv'
  BY InstructionFacts, PpuKept
<1>6. LateInv'
  BY DEF LateInv
<1>7. RunInv' /\ TopInv' /\ OutInv'
  <2>1. /\ mode = "run" /\ clock < limit /\ clock' \in Nat /\ clock' >= clock + 2
        /\ extra = 0 => endTime <= FrameLen
        /\ extra > 0 => endTime <= clock'
    BY <1>2, InstructionFacts
  <2>2. endTime <= nmi \/ clock >= endTime
    BY <2>1 DEF IInv, RunInv
  <2>3. endTime <= nmi \/ clock' >= endTime
    BY <1>2, <2>1, <2>2
  <2> QED  BY <1>1, <1>2, <1>3, <2>1, <2>3, RunKept
<1>8. Rule!Execute
  BY <1>1, <1>2, Executes
<1> QED  BY <1>4, <1>5, <1>6, <1>7, <1>8 DEF IInv, Rule!Next

\* The limits before an instruction.
LEMMA LimitFacts ==
    ASSUME IInv, mode = "run"
    PROVE  /\ clock \in Nat /\ endTime \in Nat /\ irqTime \in Nat /\ limit \in Nat
           /\ irqDue \in Nat /\ inhibit \in BOOLEAN
           /\ limit = IF ~inhibit /\ irqTime < endTime THEN irqTime ELSE endTime
           /\ irqDue <= irqTime
           /\ irqTime = irqDue \/ irqTime <= clock \/ (irqTime = clock + 1 /\ last = "cli")
BY Typed DEF IInv, RunInv

\* An instruction that touches no interrupt.
LEMMA PlainStep == ASSUME IInv, Plain PROVE IInv' /\ Rule!Next
<1>1. /\ Instruction /\ mode' = "run" /\ UNCHANGED <<result, ppu>> /\ last' = "other"
      /\ endTime' = endTime /\ irqTime' = irqTime /\ limit' = limit /\ inhibit' = inhibit
      /\ irqDue' = irqDue
  BY DEF Plain, Continues
<1>2. mode = "run" /\ clock' \in Nat /\ clock' >= clock + 2
  BY <1>1, InstructionFacts
<1>3. irqTime' = irqDue' \/ irqTime' <= clock'
  BY <1>1, <1>2, LimitFacts
<1> QED  BY <1>1, <1>2, <1>3, LimitFacts, RunsOn

\* An instruction that sets the inhibit flag, or clears it at once.
LEMMA RtiBrkStep == ASSUME IInv, RtiBrk PROVE IInv' /\ Rule!Next
<1>1. /\ Instruction /\ mode' = "run" /\ UNCHANGED <<result, ppu>> /\ last' = "other"
      /\ endTime' = endTime /\ irqTime' = irqTime /\ irqDue' = irqDue
      /\ inhibit' \in BOOLEAN
      /\ limit' = IF ~inhibit' /\ irqTime < endTime THEN irqTime ELSE endTime
  BY DEF RtiBrk, Continues, SetLimits
<1>2. mode = "run" /\ clock' \in Nat /\ clock' >= clock + 2
  BY <1>1, InstructionFacts
<1>3. irqTime' = irqDue' \/ irqTime' <= clock'
  BY <1>1, <1>2, LimitFacts
<1> QED  BY <1>1, <1>2, <1>3, LimitFacts, RunsOn

\* An access that moves the IRQ time.
LEMMA IrqAccessStep == ASSUME IInv, IrqAccess PROVE IInv' /\ Rule!Next
<1>1. /\ Instruction /\ mode' = "run" /\ UNCHANGED <<result, ppu>> /\ last' = "other"
      /\ endTime' = endTime /\ irqTime' = irqDue' /\ inhibit' = inhibit
      /\ irqDue' \in {clock' + d : d \in IrqDelays} \cup {Never}
      /\ limit' = IF ~inhibit /\ irqDue' < endTime THEN irqDue' ELSE endTime
  BY DEF IrqAccess, Continues, SetLimits
<1>2. mode = "run" /\ clock' \in Nat
  BY <1>1, InstructionFacts
<1>3. irqDue' \in Nat
  BY <1>1, <1>2, Times
<1> QED  BY <1>1, <1>2, <1>3, LimitFacts, RunsOn

\* An instruction that leaves the loop of Nes_Cpu::run at once.
LEMMA Leaves ==
    ASSUME IInv, Instruction, mode' = "top", UNCHANGED ppu,
           inhibit' \in BOOLEAN, UNCHANGED <<irqTime, endTime, irqDue>>, limit' \in Nat,
           \/ last' = "cli" /\ result' = "cli" /\ inhibit /\ ~inhibit'
           \/ last' = "sei" /\ result' = "sei" /\ ~inhibit /\ inhibit' /\ irqDue <= clock'
    PROVE  IInv' /\ Rule!Next
<1>1. nmi' = nmi /\ nmiOn' = nmiOn /\ vbl' = vbl /\ vblOver' = vblOver /\ ended' = ended
  BY DEF ppu
<1>2. /\ clock \in Nat /\ endTime \in Nat /\ irqTime \in Nat /\ irqDue \in Nat /\ nmi \in Nat
      /\ nmiOn \in BOOLEAN /\ vbl \in BOOLEAN /\ vblOver \in BOOLEAN /\ ended \in BOOLEAN
      /\ extra \in 0..3
  BY Typed DEF IInv
<1>3. TypeOK'
  BY <1>1, <1>2, TypeKept
<1>4. ClockBounds' /\ VblInv' /\ NmiInv'
  BY InstructionFacts, PpuKept
<1>5. LateInv'
  BY DEF LateInv
<1>6. RunInv' /\ OutInv'
  BY DEF RunInv, OutInv
<1>7. TopInv'
  <2>1. /\ mode = "run" /\ clock < limit /\ extra' = extra /\ extra < 3
        /\ extra > 0 => clock' >= FrameLen + 2
    BY InstructionFacts
  <2>2. extra = 2 => ~inhibit
    BY <1>2, <2>1 DEF IInv, RunInv
  <2>3. extra' # 3 /\ (extra' = 2 => result' # "cli")
    BY <1>2, <2>1, <2>2
  <2> QED  BY <1>2, <2>1, <2>3 DEF TopInv
<1>8. Rule!Execute
  BY <1>1, <1>2, Executes
<1> QED  BY <1>3, <1>4, <1>5, <1>6, <1>7, <1>8 DEF IInv, Rule!Next

\* CLI, whose effect waits for one instruction.
LEMMA CliStep == ASSUME IInv, Cli PROVE IInv' /\ Rule!Next
<1>1. /\ Instruction /\ inhibit /\ inhibit' = FALSE /\ last' = "cli"
      /\ UNCHANGED ppu /\ irqDue' = irqDue
  BY DEF Cli
<1>2. mode = "run" /\ clock' \in Nat /\ clock' >= clock + 2
  BY <1>1, InstructionFacts
<1>3. CASE clock' >= endTime
  <2>1. mode' = "top" /\ result' = "cli" /\ UNCHANGED <<endTime, irqTime, limit>>
    BY <1>3 DEF Cli, Stops
  <2> QED  BY <1>1, <1>2, <2>1, LimitFacts, Leaves
<1>4. CASE ~(clock' >= endTime) /\ endTime <= irqTime
  <2>1. mode' = "run" /\ UNCHANGED <<result, endTime, irqTime, limit>>
    BY <1>4 DEF Cli, Continues
  <2>2. limit = endTime /\ clock' < endTime /\ irqTime = irqDue
    <3>1. clock \in Nat /\ endTime \in Nat /\ irqTime \in Nat
      BY <1>2, LimitFacts
    <3>2. clock' < endTime /\ ~(irqTime < endTime) /\ irqTime > clock + 1
      BY <1>2, <1>4, <3>1
    <3>3. limit = endTime
      BY <1>2, <3>2, LimitFacts
    <3> QED  BY <1>2, <3>1, <3>2, <3>3, LimitFacts
  <2>3. /\ limit' = IF ~inhibit' /\ irqTime' < endTime' THEN irqTime' ELSE endTime'
        /\ clock' < limit'
    BY <1>2, <1>4, <2>1, <2>2, LimitFacts
  <2> QED  BY <1>1, <1>2, <2>1, <2>2, <2>3, LimitFacts, RunsOn
<1>5. CASE ~(clock' >= endTime) /\ ~(endTime <= irqTime)
  <2>1. /\ mode' = "run" /\ UNCHANGED <<result, endTime>>
        /\ irqTime' = DelayIrq(irqTime) /\ limit' = irqTime'
    BY <1>5 DEF Cli, Continues
  <2>2. /\ clock \in Nat /\ endTime \in Nat /\ irqTime \in Nat /\ irqDue \in Nat
        /\ clock' < endTime /\ irqTime < endTime /\ irqDue <= irqTime
    <3>1. /\ clock \in Nat /\ endTime \in Nat /\ irqTime \in Nat /\ irqDue \in Nat
          /\ irqDue <= irqTime
      BY <1>2, LimitFacts
    <3> QED  BY <1>2, <1>5, <3>1
  <2>3. /\ irqTime' \in Nat /\ irqDue <= irqTime' /\ clock' < irqTime' /\ irqTime' <= endTime
        /\ irqTime' = irqDue \/ clock' + 1 = irqTime'
    <3>1. CASE clock' >= irqTime
      <4>1. clock' + 1 = irqTime'
        BY <2>1, <3>1 DEF DelayIrq
      <4> QED  BY <1>2, <2>2, <3>1, <4>1
    <3>2. CASE ~(clock' >= irqTime)
      <4>1. irqTime' = irqTime
        BY <2>1, <3>2 DEF DelayIrq
      <4>2. irqTime = irqDue
        BY <1>2, <2>2, <3>2, LimitFacts
      <4> QED  BY <1>2, <2>2, <3>2, <4>1, <4>2
    <3> QED  BY <3>1, <3>2
  <2>4. limit' = IF ~inhibit' /\ irqTime' < endTime' THEN irqTime' ELSE endTime'
    BY <1>1, <2>1, <2>3, LimitFacts, <1>2
  <2> QED  BY <1>1, <1>2, <2>1, <2>3, <2>4, LimitFacts, RunsOn
<1> QED  BY <1>3, <1>4, <1>5

\* SEI, the same.
LEMMA SeiStep == ASSUME IInv, Sei PROVE IInv' /\ Rule!Next
<1>1. /\ Instruction /\ ~inhibit /\ inhibit' = TRUE /\ last' = "sei"
      /\ UNCHANGED ppu /\ irqDue' = irqDue /\ endTime' = endTime
      /\ irqTime' = irqTime /\ limit' = endTime
  BY DEF Sei
<1>2. mode = "run" /\ clock' \in Nat /\ clock' >= clock + 2
  BY <1>1, InstructionFacts
<1>3. CASE clock' < irqTime
  <2>1. mode' = "run" /\ result' = result
    BY <1>3 DEF Sei, Continues
  <2>2. irqTime = irqDue
    BY <1>2, <1>3, LimitFacts
  <2> QED  BY <1>1, <1>2, <1>3, <2>1, <2>2, LimitFacts, RunsOn
<1>4. CASE ~(clock' < irqTime)
  <2>1. mode' = "top" /\ result' = "sei"
    BY <1>4 DEF Sei, Stops
  <2>2. irqDue <= clock'
    BY <1>2, <1>4, LimitFacts
  <2> QED  BY <1>1, <1>2, <2>1, <2>2, LimitFacts, Leaves
<1> QED  BY <1>3, <1>4

\* The fields run_end_frame leaves.
LEMMA EndFrameFields ==
    ASSUME NEW t, NEW f
    PROVE  /\ (f.ended \/ t < FrameLen) => RunEndFrame(t, f) = f
           /\ ~(f.ended \/ t < FrameLen) =>
                 /\ RunEndFrame(t, f).nmi = (IF nmiOn THEN FrameLen + 2 - (tail \div 2) ELSE f.nmi)
                 /\ RunEndFrame(t, f).vbl = TRUE /\ RunEndFrame(t, f).ended = TRUE
BY DEF RunEndFrame

\* What the end of vblank leaves alone.
LEMMA EndVblankFields ==
    ASSUME NEW over
    PROVE  /\ EndVblank(over).nmi = nmi /\ EndVblank(over).ended = ended
           /\ EndVblank(over).vbl = (IF over /\ ~vblOver THEN FALSE ELSE vbl)
BY DEF EndVblank, Flags

\* A step of the PPU within an instruction: the flags it may leave.
LEMMA PpuChanged ==
    ASSUME IInv, Instruction, mode' = "run", UNCHANGED <<result, inhibit, irqTime, irqDue>>,
           last' = "other", endTime' \in Nat,
           limit' = IF ~inhibit /\ irqTime < endTime' THEN irqTime ELSE endTime',
           extra = 0 => endTime' <= FrameLen,
           extra > 0 => endTime' <= clock',
           endTime' <= nmi' \/ clock' >= endTime',
           nmi' \in Nat, nmiOn' \in BOOLEAN, vbl' \in BOOLEAN, vblOver' \in BOOLEAN,
           ended' \in BOOLEAN, VblInv',
           nmi' <= VblEnd + 3 \/ nmi' >= FrameLen + 2 - (tail \div 2),
           nmi' <= VblEnd + 3 => clock' < FrameLen,
           \/ nmi' = Never \/ nmi' <= FrameLen + 2
           \/ clock' >= FrameLen /\ nmiOn' /\ vbl' /\ clock' >= limit'
    PROVE  IInv' /\ Rule!Next
<1>1. /\ clock \in Nat /\ endTime \in Nat /\ irqTime \in Nat /\ irqDue \in Nat
      /\ inhibit \in BOOLEAN /\ result \in {"cycles", "cli", "sei"} /\ extra \in 0..3
  BY Typed DEF IInv
<1>2. /\ mode = "run" /\ clock < limit /\ clock' \in Nat /\ clock' >= clock + 2 /\ tail' = tail
      /\ ClockBounds'
  BY InstructionFacts
<1>3. limit' \in Nat
  BY <1>1
<1>4. TypeOK'
  BY <1>1, <1>3, TypeKept
<1>5. LateInv'
  BY DEF LateInv
<1>6. NmiInv'
  BY <1>2 DEF NmiInv, InLoop, NmiNextFrame
<1>7. RunInv' /\ TopInv' /\ OutInv'
  <2>1. irqDue <= irqTime /\ (irqTime = irqDue \/ irqTime <= clock + 1)
    BY <1>1, <1>2, LimitFacts
  <2>2. irqTime = irqDue \/ irqTime <= clock'
    BY <1>1, <1>2, <2>1
  <2> QED  BY <1>1, <2>1, <2>2, RunKept
<1>8. Rule!Execute
  BY <1>1, Executes
<1> QED  BY <1>2, <1>4, <1>5, <1>6, <1>7, <1>8 DEF IInv, Rule!Next

\* The NMI's time and the flags before an instruction.
LEMMA PpuFacts ==
    ASSUME IInv, mode = "run", clock < limit
    PROVE  /\ nmi \in Nat /\ clock \in Nat /\ endTime \in Nat /\ limit \in Nat /\ FrameLen \in Nat
           /\ clocks \in 0..2 /\ tail \in 0..2 /\ extra \in 0..3
           /\ nmiOn \in BOOLEAN /\ vbl \in BOOLEAN /\ vblOver \in BOOLEAN /\ ended \in BOOLEAN
           /\ nmi <= VblEnd + 3 \/ nmi >= FrameLen + 2 - (tail \div 2)
           /\ nmi = Never \/ nmi <= FrameLen + 2
           /\ (ended => vblOver) /\ (vbl /\ vblOver => ended) /\ (ended => clock >= FrameLen)
           /\ endTime <= nmi \/ clock >= endTime
<1>1. /\ nmi \in Nat /\ clock \in Nat /\ endTime \in Nat /\ limit \in Nat /\ FrameLen \in Nat
      /\ clocks \in 0..2 /\ tail \in 0..2 /\ extra \in 0..3
      /\ nmiOn \in BOOLEAN /\ vbl \in BOOLEAN /\ vblOver \in BOOLEAN /\ ended \in BOOLEAN
  BY Typed, Times DEF IInv
<1>2. /\ nmi <= VblEnd + 3 \/ nmi >= FrameLen + 2 - (tail \div 2)
      /\ nmi = Never \/ nmi <= FrameLen + 2
  BY <1>1 DEF IInv, NmiInv, InLoop
<1>3. (ended => vblOver) /\ (vbl /\ vblOver => ended) /\ (ended => clock >= FrameLen)
  BY DEF IInv, VblInv
<1>4. endTime <= nmi \/ clock >= endTime
  BY DEF IInv, RunInv
<1> QED  BY <1>1, <1>2, <1>3, <1>4

\* A read of $2002.
LEMMA ReadStatusStep == ASSUME IInv, ReadStatus PROVE IInv' /\ Rule!Next
<1>1. /\ Instruction /\ mode' = "run" /\ UNCHANGED <<result, inhibit, irqTime, irqDue>>
      /\ last' = "other" /\ endTime' = endTime /\ limit' = limit /\ nmiOn' = nmiOn
  BY DEF ReadStatus, Continues
<1>2. /\ mode = "run" /\ clock < limit /\ clock' \in Nat /\ clock' >= clock + 2
      /\ nmi <= VblEnd + 3 => clock' < FrameLen
      /\ extra = 0 => endTime <= FrameLen
      /\ extra > 0 => clock' > endTime
  BY <1>1, InstructionFacts
<1> DEFINE T    == clock' - 1
           over == T > VblEnd
           f    == RunEndFrame(T, EndVblank(over))
<1>3. /\ vbl' = FALSE /\ vblOver' = (vblOver \/ over)
      /\ \/ nmi' = f.nmi /\ ended' = f.ended
         \/ over /\ nmi' = Never /\ (ended' = f.ended \/ (ended' = TRUE /\ T = FrameLen - 1))
  <2> DEFINE keeps == [f EXCEPT !.vbl = FALSE]
             drops == [f EXCEPT !.vbl = FALSE, !.nmi = Never]
             early == [f EXCEPT !.vbl = FALSE, !.ended = TRUE, !.nmi = Never]
  <2>1. vblOver' = (vblOver \/ over)
    BY DEF ReadStatus
  <2>2. \/ BecomeFlags(keeps)
        \/ over /\ BecomeFlags(drops)
        \/ over /\ T = FrameLen - 1 /\ BecomeFlags(early)
    BY DEF ReadStatus
  <2>3. DOMAIN f = {"nmi", "vbl", "ended"}
    BY DEF RunEndFrame, EndVblank, Flags
  <2> HIDE DEF f, over, T
  <2>4. /\ keeps.nmi = f.nmi /\ keeps.ended = f.ended /\ keeps.vbl = FALSE
        /\ drops.nmi = Never /\ drops.ended = f.ended /\ drops.vbl = FALSE
        /\ early.nmi = Never /\ early.ended = TRUE /\ early.vbl = FALSE
    BY <2>3
  <2> HIDE DEF keeps, drops, early
  <2> QED  BY <2>1, <2>2, <2>4 DEF BecomeFlags
<1>4. /\ T \in Nat /\ T + 1 = clock' /\ T >= clock + 1
      /\ over <=> T > VblEnd
  <2>1. clock \in Nat
    BY <1>2, PpuFacts
  <2>2. clock' - 1 \in Nat /\ (clock' - 1) + 1 = clock' /\ clock' - 1 >= clock + 1
    <3>1. \A c, d \in Nat : d >= c + 2 => d - 1 \in Nat /\ (d - 1) + 1 = d /\ d - 1 >= c + 1
      OBVIOUS
    <3> QED  BY <1>2, <2>1, <3>1
  <2> QED  BY <2>2
<1>5. \/ ended' = ended /\ nmi' = nmi
      \/ ended' = ended /\ nmi' = Never
      \/ /\ ended' = TRUE /\ T >= FrameLen - 1 /\ over
         /\ nmi' = Never \/ nmi' = nmi \/ nmi' = FrameLen + 2 - (tail \div 2)
  <2> HIDE DEF T, over
  <2>1. /\ EndVblank(over).nmi = nmi /\ EndVblank(over).ended = ended
    BY EndVblankFields
  <2>2. CASE ended \/ T < FrameLen
    <3>1. f.nmi = nmi /\ f.ended = ended
      BY <2>1, <2>2, EndFrameFields
    <3> HIDE DEF f
    <3> QED  BY <1>2, <1>3, <1>4, <3>1, PpuFacts
  <2>3. CASE ~(ended \/ T < FrameLen)
    <3>1. /\ f.ended = TRUE
          /\ f.nmi = FrameLen + 2 - (tail \div 2) \/ f.nmi = nmi
      BY <2>1, <2>3, EndFrameFields
    <3>2. T >= FrameLen /\ over
      BY <1>2, <1>4, <2>3, PpuFacts, Times
    <3> HIDE DEF f
    <3> QED  BY <1>2, <1>3, <1>4, <3>1, <3>2, PpuFacts
  <2> QED  BY <2>2, <2>3
<1> HIDE DEF T, over, f
<1>6. nmi' \in Nat /\ ended' \in BOOLEAN /\ vbl' \in BOOLEAN /\ vblOver' \in BOOLEAN
  <2>1. nmi \in Nat /\ FrameLen + 2 - (tail \div 2) \in Nat /\ Never \in Nat
    BY <1>2, PpuFacts, Times
  <2>2. nmi' \in Nat
    BY <1>5, <2>1
  <2>3. ended' \in BOOLEAN
    BY <1>2, <1>5, PpuFacts
  <2>4. vblOver' \in BOOLEAN
    BY <1>3
  <2> QED  BY <1>3, <2>2, <2>3, <2>4
<1>7. VblInv'
  <2>1. ended' => vblOver'
    BY <1>2, <1>3, <1>4, <1>5, PpuFacts
  <2>2. ended' => clock' >= FrameLen
    <3>1. ended => clock' >= FrameLen
      BY <1>2, PpuFacts
    <3>2. T >= FrameLen - 1 => clock' >= FrameLen
      BY <1>2, <1>4, PpuFacts
    <3> QED  BY <1>5, <3>1, <3>2
  <2> QED  BY <1>3, <2>1, <2>2 DEF VblInv
<1>8. nmi' = Never \/ nmi' = nmi \/ nmi' = FrameLen + 2 - (tail \div 2)
  BY <1>5
<1>9. /\ nmi' <= VblEnd + 3 \/ nmi' >= FrameLen + 2 - (tail \div 2)
      /\ nmi' <= VblEnd + 3 => clock' < FrameLen
      /\ nmi' = Never \/ nmi' <= FrameLen + 2
  BY <1>2, <1>8, PpuFacts, Times
<1>10. endTime' <= nmi' \/ clock' >= endTime'
  BY <1>1, <1>2, <1>8, PpuFacts, Times
<1>11. /\ endTime' \in Nat
       /\ limit' = IF ~inhibit /\ irqTime < endTime' THEN irqTime ELSE endTime'
       /\ extra = 0 => endTime' <= FrameLen
       /\ extra > 0 => endTime' <= clock'
  BY <1>1, <1>2, LimitFacts
<1>12. nmiOn' \in BOOLEAN
  BY <1>1, <1>2, PpuFacts
<1> QED  BY <1>1, <1>6, <1>7, <1>9, <1>10, <1>11, <1>12, PpuChanged

\* A write of $2000.
LEMMA WriteControlStep == ASSUME IInv, WriteControl PROVE IInv' /\ Rule!Next
<1> DEFINE T    == clock' - 1
           over == T > VblEnd + (IF clocks = 0 THEN 1 ELSE 0)
           f    == EndVblank(over)
           on   == ~nmiOn /\ f.vbl
           g    == [f EXCEPT !.nmi = IF on THEN T + 2 ELSE @]
           h    == RunEndFrame(T - 1 + (clocks % 2), g)
<1>1. /\ Instruction /\ mode' = "run" /\ UNCHANGED <<result, inhibit, irqDue>>
      /\ last' = "other" /\ vblOver' = (vblOver \/ over) /\ nmiOn' = ~nmiOn
      /\ nmi' = h.nmi /\ vbl' = h.vbl /\ ended' = h.ended
      /\ \/ on /\ \E end \in EarliestEvent(clock', T + 2) : SetLimits(end, irqTime, inhibit)
         \/ ~on /\ UNCHANGED <<endTime, irqTime, limit>>
  BY DEF WriteControl, Continues, BecomeFlags
<1>2. /\ mode = "run" /\ clock < limit /\ clock' \in Nat /\ clock' >= clock + 2
      /\ nmi <= VblEnd + 3 => clock' < FrameLen
      /\ extra = 0 => endTime <= FrameLen
      /\ extra > 0 => clock' > endTime /\ clock' >= FrameLen + 2
  BY <1>1, InstructionFacts
<1>3. T \in Nat /\ T + 1 = clock' /\ T >= clock + 1
  <2>1. \A c, d \in Nat : d >= c + 2 => d - 1 \in Nat /\ (d - 1) + 1 = d /\ d - 1 >= c + 1
    OBVIOUS
  <2>2. clock \in Nat
    BY <1>2, PpuFacts
  <2> QED  BY <1>2, <2>1, <2>2
<1>4. T > VblEnd + 1 => over
  <2>1. VblEnd \in Nat
    BY Times
  <2> HIDE DEF T
  <2> QED  BY <1>3, <2>1
<1>5. on <=> ~nmiOn /\ vbl /\ ~(over /\ ~vblOver)
  <2> HIDE DEF over
  <2> QED  BY <1>2, EndVblankFields, PpuFacts
<1>6. /\ g.nmi = (IF on THEN T + 2 ELSE nmi) /\ g.ended = ended
      /\ g.vbl = (IF over /\ ~vblOver THEN FALSE ELSE vbl)
  BY EndVblankFields DEF EndVblank, Flags
<1>7. \/ /\ ended' = ended /\ vbl' = (IF over /\ ~vblOver THEN FALSE ELSE vbl)
         /\ nmi' = (IF on THEN T + 2 ELSE nmi)
      \/ /\ ended' = TRUE /\ vbl' = TRUE /\ T >= FrameLen /\ over
         /\ nmi' = (IF nmiOn THEN FrameLen + 2 - (tail \div 2) ELSE IF on THEN T + 2 ELSE nmi)
  <2> DEFINE u == T - 1 + (clocks % 2)
  <2> HIDE DEF T, on, g
  <2>1. CASE g.ended \/ u < FrameLen
    <3>1. h = g
      BY <2>1, EndFrameFields
    <3> QED  BY <1>1, <1>6, <3>1
  <2>2. CASE ~(g.ended \/ u < FrameLen)
    <3>1. /\ h.nmi = (IF nmiOn THEN FrameLen + 2 - (tail \div 2) ELSE g.nmi)
          /\ h.vbl = TRUE /\ h.ended = TRUE
      BY <2>2, EndFrameFields
    <3>2. T >= FrameLen
      BY <1>2, <1>3, <2>2, PpuFacts
    <3>3. over
      BY <1>2, <1>3, <1>4, <3>2, PpuFacts, Times
    <3> HIDE DEF over
    <3> QED  BY <1>1, <1>6, <3>1, <3>2, <3>3
  <2> QED  BY <2>1, <2>2
<1> HIDE DEF T, over, f, on, g, h
<1>8. VblInv'
  <2>1. ended' => vblOver'
    BY <1>1, <1>2, <1>7, PpuFacts
  <2>2. vbl' /\ vblOver' => ended'
    BY <1>1, <1>2, <1>7, PpuFacts
  <2>3. ended' => clock' >= FrameLen
    <3>1. ended => clock' >= FrameLen
      BY <1>2, PpuFacts
    <3>2. T >= FrameLen => clock' >= FrameLen
      BY <1>2, <1>3, PpuFacts
    <3> QED  BY <1>7, <3>1, <3>2
  <2> QED  BY <2>1, <2>2, <2>3 DEF VblInv
<1>9. /\ nmiOn' \in BOOLEAN /\ vbl' \in BOOLEAN /\ vblOver' \in BOOLEAN /\ ended' \in BOOLEAN
  BY <1>1, <1>2, <1>7, PpuFacts
<1>10. CASE on
  <2>1. nmi' = T + 2 /\ vbl' /\ nmiOn' /\ (vblOver' => ended')
    BY <1>1, <1>2, <1>5, <1>7, <1>8, <1>10, PpuFacts DEF VblInv
  <2>2. T <= VblEnd + 1 \/ T >= FrameLen
    <3>1. CASE ~over
      BY <1>3, <1>4, <3>1, Times
    <3>2. CASE over
      <4>1. vblOver /\ vbl
        BY <1>2, <1>5, <1>10, <3>2, PpuFacts
      <4> QED  BY <1>2, <1>3, <4>1, PpuFacts
    <3> QED  BY <3>1, <3>2
  <2>3. PICK end \in EarliestEvent(clock', T + 2) : SetLimits(end, irqTime, inhibit)
    BY <1>1, <1>10
  <2>4. /\ end \in Nat /\ end <= FrameLen /\ end <= T + 2
    BY <1>2, <1>3, <2>3, PpuFacts DEF EarliestEvent, Min2
  <2>5. /\ endTime' = end /\ irqTime' = irqTime
        /\ limit' = IF ~inhibit /\ irqTime < end THEN irqTime ELSE end
    BY <2>3 DEF SetLimits
  <2>6. /\ extra > 0 => endTime' <= clock'
        /\ endTime' <= nmi'
    BY <1>2, <2>1, <2>4, <2>5, PpuFacts
  <2>7. /\ nmi' \in Nat /\ nmi' > clock'
        /\ nmi' <= VblEnd + 3 \/ nmi' >= FrameLen + 2 - (tail \div 2)
        /\ nmi' <= VblEnd + 3 => clock' < FrameLen
    <3>1. nmi' \in Nat /\ clock' + 1 = nmi'
      BY <1>3, <2>1
    <3> QED  BY <1>2, <1>3, <2>1, <2>2, <3>1, PpuFacts, Times
  <2>8. limit' <= end
    BY <1>2, <2>4, <2>5, LimitFacts
  <2>9. nmi' <= FrameLen + 2 \/ (clock' >= FrameLen /\ clock' >= limit')
    <3>1. limit' \in Nat
      BY <1>2, <2>4, <2>5, LimitFacts
    <3> QED  BY <1>2, <1>3, <2>1, <2>4, <2>8, <3>1, PpuFacts
  <2> QED  BY <1>1, <1>8, <1>9, <2>1, <2>4, <2>5, <2>6, <2>7, <2>9, PpuChanged
<1>11. CASE ~on
  <2>1. UNCHANGED <<endTime, irqTime, limit>>
    BY <1>1, <1>11
  <2>2. nmi' = nmi \/ (nmi' = FrameLen + 2 - (tail \div 2))
    BY <1>7, <1>11
  <2>3. /\ nmi' \in Nat
        /\ nmi' <= VblEnd + 3 \/ nmi' >= FrameLen + 2 - (tail \div 2)
        /\ nmi' <= VblEnd + 3 => clock' < FrameLen
        /\ nmi' = Never \/ nmi' <= FrameLen + 2
    BY <1>2, <2>2, PpuFacts, Times
  <2>4. endTime' <= nmi' \/ clock' >= endTime'
    BY <1>2, <2>1, <2>2, PpuFacts, Times
  <2>5. /\ endTime' \in Nat
        /\ limit' = IF ~inhibit /\ irqTime < endTime' THEN irqTime ELSE endTime'
        /\ extra = 0 => endTime' <= FrameLen
        /\ extra > 0 => endTime' <= clock'
    BY <1>2, <2>1, LimitFacts
  <2> QED  BY <1>1, <1>8, <1>9, <2>1, <2>3, <2>4, <2>5, PpuChanged
<1> QED  BY <1>10, <1>11

\* The CPU stops at its end time.
LEMMA StopStep == ASSUME IInv, Stop PROVE IInv' /\ UNCHANGED Rule!vars
<1>1. /\ mode = "run" /\ clock >= limit /\ mode' = "top" /\ result' = "cycles"
      /\ UNCHANGED <<clock, inhibit, extra, endTime, irqTime, limit, irqDue>>
      /\ UNCHANGED <<nmi, nmiOn, vbl, vblOver, ended, clocks, tail, last>>
  BY DEF Stop, Stops, cpu, ppu, thirds
<1>2. TypeOK'
  BY <1>1 DEF IInv, TypeOK
<1>3. ClockBounds' /\ LateInv' /\ VblInv'
  BY <1>1 DEF IInv, ClockBounds, InLoop, LateInv, VblInv
<1>4. NmiInv'
  BY <1>1 DEF IInv, NmiInv, InLoop, NmiNextFrame
<1>5. TopInv'
  <2>1. extra \in 0..3 /\ clock \in Nat /\ limit \in Nat /\ irqDue \in Nat
    BY Typed DEF IInv
  <2>2. /\ last # "cli" /\ (last = "sei" => irqDue > clock)
        /\ extra > 0 => clock >= FrameLen + 2
    BY <1>1, <2>1 DEF IInv, RunInv
  <2> QED  BY <1>1, <2>1, <2>2 DEF TopInv
<1>6. RunInv' /\ OutInv'
  BY <1>1 DEF RunInv, OutInv
<1>7. UNCHANGED Rule!vars
  BY <1>1 DEF Rule!vars
<1> QED  BY <1>2, <1>3, <1>4, <1>5, <1>6, <1>7 DEF IInv

\* What holds at the top of the loop.
LEMMA TopFacts ==
    ASSUME IInv, mode = "top"
    PROVE  /\ clock \in Nat /\ irqDue \in Nat /\ nmi \in Nat /\ extra \in 0..3 /\ tail \in 0..2
           /\ inhibit \in BOOLEAN /\ nmiOn \in BOOLEAN /\ vbl \in BOOLEAN
           /\ result \in {"cycles", "cli", "sei"}
           /\ extra = 0 => 4 * clock < 5 * FrameLen
           /\ extra = 1 => 4 * clock < 6 * FrameLen
           /\ extra = 2 => 4 * clock < 7 * FrameLen
           /\ extra = 3 => 4 * clock < 8 * FrameLen
           /\ extra > 0 => clock >= FrameLen + 2
           /\ nmi <= VblEnd + 3 \/ nmi >= FrameLen + 2 - (tail \div 2)
           /\ nmi <= VblEnd + 3 => clock < FrameLen \/ last = "nmi"
           /\ \/ nmi = Never \/ nmi <= FrameLen + 2
              \/ clock >= FrameLen /\ NmiNextFrame /\ result = "cycles"
           /\ last = "cli" => ~inhibit /\ (result = "cli" \/ (nmi <= clock /\ clock < FrameLen))
           /\ last = "sei" => inhibit
           /\ last = "sei" /\ irqDue <= clock => result = "sei" \/ (nmi <= clock /\ clock < FrameLen)
           /\ result = "cli" => last = "cli"
           /\ result = "sei" => last = "sei" /\ irqDue <= clock
           /\ extra = 2 => result # "cli"
           /\ extra = 3 => result = "cycles"
<1>1. /\ clock \in Nat /\ irqDue \in Nat /\ nmi \in Nat /\ extra \in 0..3 /\ tail \in 0..2
      /\ inhibit \in BOOLEAN /\ nmiOn \in BOOLEAN /\ vbl \in BOOLEAN
      /\ result \in {"cycles", "cli", "sei"}
  BY Typed DEF IInv
<1>2. /\ extra = 0 => 4 * clock < 5 * FrameLen
      /\ extra = 1 => 4 * clock < 6 * FrameLen
      /\ extra = 2 => 4 * clock < 7 * FrameLen
      /\ extra = 3 => 4 * clock < 8 * FrameLen
  BY DEF IInv, ClockBounds, InLoop
<1>3. /\ nmi <= VblEnd + 3 \/ nmi >= FrameLen + 2 - (tail \div 2)
      /\ nmi <= VblEnd + 3 => clock < FrameLen \/ last = "nmi"
      /\ \/ nmi = Never \/ nmi <= FrameLen + 2
         \/ clock >= FrameLen /\ NmiNextFrame /\ result = "cycles"
  BY DEF IInv, NmiInv, InLoop
<1>4. (last = "cli" => ~inhibit) /\ (last = "sei" => inhibit)
  BY DEF IInv, LateInv
<1>5. /\ extra > 0 => clock >= FrameLen + 2
      /\ last = "cli" => result = "cli" \/ (nmi <= clock /\ clock < FrameLen)
      /\ last = "sei" /\ irqDue <= clock => result = "sei" \/ (nmi <= clock /\ clock < FrameLen)
      /\ result = "cli" => last = "cli"
      /\ result = "sei" => last = "sei" /\ irqDue <= clock
      /\ extra = 2 => result # "cli"
      /\ extra = 3 => result = "cycles"
  BY DEF IInv, TopInv
<1> QED  BY <1>1, <1>2, <1>3, <1>4, <1>5, Zenon

\* After an extra instruction a pending NMI is one for the next frame, and
\* after three no I flag change is left to serve.
LEMMA NoMoreNeeded ==
    ASSUME IInv, mode = "top", nmi > clock
    PROVE  /\ extra > 0 /\ nmi # Never => NmiNextFrame
           /\ extra > 2 => ~MoreInstructions
<1>1. extra > 0 /\ nmi # Never => NmiNextFrame
  BY TopFacts, Times
<1>2. extra > 2 => result = "cycles"
  BY TopFacts
<1> QED  BY <1>1, <1>2, TopFacts DEF MoreInstructions

\* The CPU's loop returns to the frame's.
LEMMA ReturnStep == ASSUME IInv, Return PROVE IInv' /\ UNCHANGED Rule!vars
<1>1. /\ mode = "top" /\ clock >= FrameLen /\ mode' = "between"
      /\ \/ nmi <= clock /\ NmiNextFrame
         \/ nmi > clock /\ ~MoreInstructions
      /\ UNCHANGED <<clock, inhibit, result, extra, endTime, irqTime, limit, irqDue>>
      /\ UNCHANGED <<nmi, nmiOn, vbl, vblOver, ended, clocks, tail, last>>
  BY NoMoreNeeded DEF Return, cpu, ppu, thirds
<1>2. TypeOK'
  BY <1>1 DEF IInv, TypeOK
<1>3. LateInv' /\ VblInv'
  BY <1>1 DEF IInv, LateInv, VblInv
<1>4. ClockBounds'
  <2>1. clock < 2 * FrameLen
    <3>1. 4 * clock < 8 * FrameLen
      BY <1>1, TopFacts, Times
    <3> QED  BY <1>1, <3>1, TopFacts, Times
  <2> QED  BY <1>1, <2>1 DEF ClockBounds, InLoop
<1>5. OutInv'
  <2>1. nmi = Never \/ NmiNextFrame
    BY <1>1 DEF MoreInstructions
  <2>2. ASSUME last = "cli" \/ (last = "sei" /\ irqDue <= clock)
        PROVE  NmiNextFrame /\ clock >= FrameLen + 2 - (tail \div 2)
    <3>1. result \in {"cli", "sei"}
      BY <1>1, <2>2, TopFacts, Times
    <3>2. nmi <= clock /\ NmiNextFrame
      BY <1>1, <3>1 DEF MoreInstructions
    <3>3. ~(nmi <= VblEnd + 3)
      BY <1>1, <2>2, TopFacts, Times
    <3>4. nmi >= FrameLen + 2 - (tail \div 2)
      BY <1>1, <3>3, TopFacts
    <3> QED  BY <1>1, <3>2, <3>4, TopFacts, Times
  <2> QED  BY <1>1, <2>1, <2>2 DEF OutInv, NmiNextFrame
<1>6. RunInv' /\ TopInv' /\ NmiInv'
  BY <1>1 DEF RunInv, TopInv, NmiInv, InLoop
<1>7. UNCHANGED Rule!vars
  BY <1>1 DEF Rule!vars
<1> QED  BY <1>2, <1>3, <1>4, <1>5, <1>6, <1>7 DEF IInv

\* The same, having started an interrupt itself.
LEMMA ReturnVectoredStep == ASSUME IInv, ReturnVectored PROVE IInv' /\ Rule!Next
<1>1. /\ mode = "top" /\ clock >= FrameLen /\ nmi <= clock /\ ~NmiNextFrame
      /\ mode' = "vectored" /\ clock' = clock + VectorCycles
      /\ inhibit' = TRUE /\ last' = "nmi"
      /\ UNCHANGED <<result, extra, endTime, irqTime, limit, irqDue>>
      /\ UNCHANGED <<nmi, nmiOn, vbl, vblOver, ended, clocks, tail>>
  BY DEF ReturnVectored, cpu, ppu, thirds
<1>2. clock' \in Nat /\ clock' >= clock
  BY <1>1, TopFacts, Times
<1>3. TypeOK'
  BY <1>1, <1>2 DEF IInv, TypeOK
<1>4. LateInv'
  BY <1>1 DEF LateInv
<1>5. VblInv'
  BY <1>1, <1>2, TopFacts, Times DEF IInv, VblInv
<1>6. ClockBounds'
  <2>1. 4 * clock < 8 * FrameLen
    BY <1>1, TopFacts, Times
  <2>2. 4 * clock' < 9 * FrameLen /\ clock' >= FrameLen
    BY <1>1, <1>2, <2>1, TopFacts, Times
  <2> QED  BY <1>1, <2>2 DEF ClockBounds, InLoop
<1>7. OutInv' /\ RunInv' /\ TopInv' /\ NmiInv'
  BY <1>1 DEF OutInv, NmiNextFrame, RunInv, TopInv, NmiInv, InLoop
<1>8. Rule!TakeNmi
  BY <1>1 DEF Rule!TakeNmi, Rule!NmiNow, Rule!Vector
<1> QED  BY <1>3, <1>4, <1>5, <1>6, <1>7, <1>8 DEF IInv, Rule!Next

\* The earlier of two times.
LEMMA EarliestFacts ==
    ASSUME NEW present \in Nat, NEW time \in Nat, NEW end \in EarliestEvent(present, time)
    PROVE  /\ end \in Nat /\ end <= FrameLen /\ end <= time
           /\ present < FrameLen /\ present < time => present < end
BY Times DEF EarliestEvent, Min2

\* The passes that run an instruction, with no NMI due.
LEMMA LoopFacts ==
    ASSUME IInv, Loops, nmi > clock
    PROVE  /\ mode = "top" /\ Extra \in 0..3
           /\ \/ clock < FrameLen /\ extra = 0 /\ Extra = 0
              \/ /\ clock >= FrameLen /\ extra <= 2 /\ Extra = extra + 1
                 /\ extra > 0 => result \in {"cli", "sei"}
           /\ nmi = Never \/ nmi <= FrameLen + 2
           /\ nmi <= VblEnd + 3 => clock + VectorCycles < FrameLen
<1>1. mode = "top" /\ (clock >= FrameLen => extra <= 2 /\ MoreInstructions)
  BY DEF Loops
<1>2. nmi = Never \/ nmi <= FrameLen + 2
  BY <1>1, TopFacts DEF MoreInstructions
<1>3. nmi <= VblEnd + 3 => clock + VectorCycles < FrameLen
  <2>1. clock \in Nat /\ nmi \in Nat
    BY <1>1, TopFacts
  <2> QED  BY <2>1, Times
<1>4. CASE clock < FrameLen
  <2>1. extra = 0
    BY <1>1, <1>4, TopFacts, Times
  <2>2. Extra = 0
    BY <1>1, <1>4, <2>1, TopFacts, Times DEF Extra
  <2> QED  BY <1>1, <1>2, <1>3, <1>4, <2>1, <2>2
<1>5. CASE ~(clock < FrameLen)
  <2>1. clock >= FrameLen
    BY <1>1, <1>5, TopFacts, Times
  <2>2. Extra = extra + 1 /\ extra <= 2 /\ extra \in 0..3
    BY <1>1, <2>1, TopFacts DEF Extra
  <2>3. extra > 0 => result \in {"cli", "sei"}
    BY <1>1, <2>1, NoMoreNeeded DEF MoreInstructions
  <2> QED  BY <1>1, <1>2, <1>3, <2>1, <2>2, <2>3
<1> QED  BY <1>4, <1>5

\* The frame's loop starts an NMI.
LEMMA TakeNmiStep == ASSUME IInv, TakeNmi PROVE IInv' /\ Rule!Next
<1>1. /\ mode = "top" /\ nmi <= clock /\ nmi' = Never /\ clock' = clock + VectorCycles
      /\ inhibit' = TRUE /\ last' = "nmi" /\ mode' = "run" /\ extra' = Extra
      /\ UNCHANGED <<result, irqDue, nmiOn, vbl, vblOver, ended, clocks, tail>>
      /\ \E end \in IF Extra > 0 THEN {clock + 1} ELSE EarliestEvent(clock, nmi') :
            SetLimits(end, irqDue, inhibit')
  BY DEF TakeNmi, Loops, Enter, thirds
<1>2. clock \in Nat /\ irqDue \in Nat /\ nmi \in Nat /\ extra \in 0..3 /\ FrameLen \in Nat
  BY <1>1, TopFacts, Times
<1>3. clock < FrameLen
  <2>1. clock >= FrameLen => nmi > clock
    BY DEF TakeNmi, Loops
  <2> QED  BY <1>1, <1>2, <2>1
<1>4. extra = 0 /\ Extra = 0
  BY <1>1, <1>2, <1>3, TopFacts, Times DEF Extra
<1>5. PICK end \in EarliestEvent(clock, Never) : SetLimits(end, irqDue, inhibit')
  <2>1. ~(Extra > 0)
    BY <1>4
  <2> QED  BY <1>1, <2>1, Zenon
<1>6. /\ end \in Nat /\ end <= FrameLen /\ endTime' = end /\ irqTime' = irqDue /\ limit' = end
  BY <1>1, <1>2, <1>5, EarliestFacts, Times DEF SetLimits
<1>7. clock' \in Nat /\ clock' >= clock /\ 4 * clock' < 5 * FrameLen
  BY <1>1, <1>2, <1>3, Times
<1>8. TypeOK'
  BY <1>1, <1>2, <1>4, <1>6, <1>7, Times DEF IInv, TypeOK
<1>9. ClockBounds' /\ LateInv'
  BY <1>1, <1>4, <1>7 DEF ClockBounds, InLoop, LateInv
<1>10. VblInv'
  BY <1>1, <1>2, <1>7 DEF IInv, VblInv
<1>11. NmiInv'
  <2>1. ~(Never <= VblEnd + 3) /\ Never >= FrameLen + 2 - (tail \div 2)
    BY <1>1, TopFacts, Times
  <2> QED  BY <1>1, <2>1 DEF NmiInv, InLoop
<1>12. RunInv'
  <2>1. end <= Never
    BY <1>2, <1>6, Times
  <2> QED  BY <1>1, <1>2, <1>4, <1>6, <1>7, <2>1 DEF RunInv
<1>13. TopInv' /\ OutInv'
  BY <1>1 DEF TopInv, OutInv
<1>14. Rule!TakeNmi
  BY <1>1 DEF Rule!TakeNmi, Rule!NmiNow, Rule!Vector
<1> QED  BY <1>8, <1>9, <1>10, <1>11, <1>12, <1>13, <1>14 DEF IInv, Rule!Next

\* Entering an instruction keeps what does not concern the limits.
LEMMA EnterKept ==
    ASSUME IInv, Loops, nmi > clock, mode' = "run", extra' = Extra,
           clock' = clock \/ clock' = clock + VectorCycles,
           UNCHANGED <<result, irqDue, nmi, nmiOn, vbl, vblOver, ended, clocks, tail>>,
           inhibit' \in BOOLEAN, last' \in {"other", "cli", "sei", "nmi", "irq"},
           endTime' \in Nat, irqTime' \in Nat, limit' \in Nat, LateInv'
    PROVE  /\ TypeOK' /\ ClockBounds' /\ VblInv' /\ NmiInv' /\ TopInv' /\ OutInv'
           /\ clock' \in Nat /\ clock' >= clock
<1>1. mode = "top"
  BY DEF Loops
<1>2. /\ clock \in Nat /\ irqDue \in Nat /\ nmi \in Nat /\ extra \in 0..3 /\ FrameLen \in Nat
      /\ VectorCycles \in Nat /\ 4 * VectorCycles <= FrameLen
  BY <1>1, TopFacts, Times
<1>3. clock' \in Nat /\ clock' >= clock /\ clock' <= clock + VectorCycles
  BY <1>2
<1>4. TypeOK'
  BY <1>2, <1>3, LoopFacts DEF IInv, TypeOK
<1>5. ClockBounds'
  <2>1. \A c \in Nat : c <= clock + VectorCycles => 4 * c <= 4 * clock + FrameLen
    BY <1>2
  <2>2. CASE clock < FrameLen /\ extra = 0 /\ Extra = 0
    <3>1. 4 * clock + FrameLen < 5 * FrameLen
      BY <1>2, <2>2
    <3>2. \A c \in Nat : c <= clock + VectorCycles => 4 * c < 5 * FrameLen
      BY <1>2, <2>1, <3>1
    <3>3. 4 * clock' < 5 * FrameLen
      BY <1>3, <3>2
    <3> QED  BY <2>2, <3>3 DEF ClockBounds, InLoop
  <2>3. CASE clock >= FrameLen /\ extra <= 2 /\ Extra = extra + 1
    <3>1. /\ extra = 0 => 4 * clock' < 6 * FrameLen
          /\ extra = 1 => 4 * clock' < 7 * FrameLen
          /\ extra = 2 => 4 * clock' < 8 * FrameLen
      <4>1. /\ extra = 0 => 4 * clock + FrameLen < 6 * FrameLen
            /\ extra = 1 => 4 * clock + FrameLen < 7 * FrameLen
            /\ extra = 2 => 4 * clock + FrameLen < 8 * FrameLen
        BY <1>1, <1>2, TopFacts
      <4>2. \A c \in Nat : c <= clock + VectorCycles =>
               /\ extra = 0 => 4 * c < 6 * FrameLen
               /\ extra = 1 => 4 * c < 7 * FrameLen
               /\ extra = 2 => 4 * c < 8 * FrameLen
        BY <1>2, <2>1, <4>1
      <4> QED  BY <1>3, <4>2
    <3>2. clock' >= FrameLen
      BY <1>2, <1>3, <2>3
    <3>3. /\ extra' \in 1..3 /\ (extra' = 1 => extra = 0) /\ (extra' = 2 => extra = 1)
          /\ extra' = 3 => extra = 2
      BY <1>2, <2>3
    <3> QED  BY <3>1, <3>2, <3>3 DEF ClockBounds, InLoop
  <2> QED  BY <2>2, <2>3, LoopFacts
<1>6. VblInv'
  BY <1>2, <1>3 DEF IInv, VblInv
<1>7. NmiInv'
  <2>1. nmi <= VblEnd + 3 => clock' < FrameLen
    BY <1>2, <1>3, LoopFacts
  <2>2. nmi <= VblEnd + 3 \/ nmi >= FrameLen + 2 - (tail \div 2)
    BY <1>1, TopFacts
  <2> QED  BY <2>1, <2>2, LoopFacts DEF NmiInv, InLoop
<1> QED  BY <1>3, <1>4, <1>5, <1>6, <1>7 DEF TopInv, OutInv

\* The frame's loop starts an IRQ.
LEMMA TakeIrqStep == ASSUME IInv, TakeIrq PROVE IInv' /\ Rule!Next
<1>1. /\ Loops /\ nmi > clock /\ TakesIrq /\ result # "cli"
      /\ clock' = clock + VectorCycles /\ inhibit' = TRUE /\ last' = "irq"
      /\ mode' = "run" /\ extra' = Extra
      /\ UNCHANGED <<result, irqDue, nmi, nmiOn, vbl, vblOver, ended, clocks, tail>>
      /\ \E end \in IF Extra > 0 THEN {clock + 1} ELSE EarliestEvent(clock, nmi) :
            SetLimits(end, irqDue, inhibit')
  BY DEF TakeIrq, Enter, thirds
<1>2. mode = "top" /\ clock \in Nat /\ irqDue \in Nat /\ nmi \in Nat /\ inhibit \in BOOLEAN
  BY <1>1, TopFacts DEF Loops
<1>3. PICK end \in IF Extra > 0 THEN {clock + 1} ELSE EarliestEvent(clock, nmi) :
         SetLimits(end, irqDue, inhibit')
  BY <1>1
<1>4. endTime' = end /\ irqTime' = irqDue /\ limit' = end
  BY <1>1, <1>3 DEF SetLimits
<1>5. ASSUME Extra > 0 PROVE IInv'
  <2>1. end = clock + 1
    BY <1>3, <1>5
  <2>2. clock' > end
    BY <1>1, <1>2, <2>1, Times
  <2>3. LateInv' /\ end \in Nat
    BY <1>1, <1>2, <2>1 DEF LateInv
  <2>4. TypeOK' /\ ClockBounds' /\ VblInv' /\ NmiInv' /\ TopInv' /\ OutInv' /\ clock' \in Nat
    BY <1>1, <1>2, <1>4, <2>3, EnterKept
  <2>5. clock' >= FrameLen + 2
    BY <1>1, <1>2, <1>5, LoopFacts, Times
  <2>6. RunInv'
    BY <1>1, <1>2, <1>4, <1>5, <2>2, <2>3, <2>4, <2>5 DEF RunInv
  <2> QED  BY <2>3, <2>4, <2>6 DEF IInv
<1>6. ASSUME ~(Extra > 0) PROVE IInv'
  <2>1. end \in EarliestEvent(clock, nmi)
    BY <1>3, <1>6
  <2>2. end \in Nat /\ end <= FrameLen /\ end <= nmi
    BY <1>2, <2>1, EarliestFacts
  <2>3. LateInv'
    BY <1>1 DEF LateInv
  <2>4. TypeOK' /\ ClockBounds' /\ VblInv' /\ NmiInv' /\ TopInv' /\ OutInv' /\ clock' \in Nat
    BY <1>1, <1>2, <1>4, <2>2, <2>3, EnterKept
  <2>5. RunInv'
    BY <1>1, <1>2, <1>4, <1>6, <2>2, <2>4 DEF RunInv
  <2> QED  BY <2>3, <2>4, <2>5 DEF IInv
<1>7. Rule!TakeIrq
  <2>1. ~(nmi <= clock)
    BY <1>1, <1>2
  <2>2. irqDue <= clock /\ (~inhibit \/ result = "sei")
    BY <1>1 DEF TakesIrq
  <2>3. last # "cli" /\ (last = "sei" \/ ~inhibit)
    BY <1>1, <1>2, <2>1, <2>2, TopFacts
  <2>4. Rule!IrqNow
    BY <2>2, <2>3, <1>2 DEF Rule!IrqNow, Rule!Inhibited
  <2> QED  BY <1>1, <1>2, <2>1, <2>4 DEF Rule!TakeIrq, Rule!NmiNow, Rule!Vector
<1> QED  BY <1>5, <1>6, <1>7 DEF Rule!Next

\* It starts none.
LEMMA TakeNoneStep == ASSUME IInv, TakeNone PROVE IInv' /\ UNCHANGED Rule!vars
<1> DEFINE irq == IF TakesIrq THEN clock + 1 ELSE irqDue
<1>1. /\ Loops /\ nmi > clock /\ (TakesIrq => result = "cli")
      /\ UNCHANGED <<nmi, clock, inhibit, last>>
      /\ mode' = "run" /\ extra' = Extra
      /\ UNCHANGED <<result, irqDue, nmiOn, vbl, vblOver, ended, clocks, tail>>
      /\ \E end \in IF Extra > 0 THEN {clock + 1} ELSE EarliestEvent(clock, nmi) :
            SetLimits(end, irq, inhibit)
  BY DEF TakeNone, Enter, thirds
<1>2. /\ mode = "top" /\ clock \in Nat /\ irqDue \in Nat /\ nmi \in Nat /\ inhibit \in BOOLEAN
      /\ FrameLen \in Nat /\ extra \in 0..3
  BY <1>1, TopFacts, Times DEF Loops
<1>3. PICK end \in IF Extra > 0 THEN {clock + 1} ELSE EarliestEvent(clock, nmi) :
         SetLimits(end, irq, inhibit)
  BY <1>1
<1>4. /\ end \in Nat /\ clock < end
      /\ Extra > 0 => end = clock + 1
      /\ ~(Extra > 0) => end <= FrameLen /\ end <= nmi
  <2>1. CASE Extra > 0
    BY <1>2, <1>3, <2>1
  <2>2. CASE ~(Extra > 0)
    <3>1. end \in EarliestEvent(clock, nmi) /\ clock < FrameLen
      BY <1>1, <1>3, <2>2, LoopFacts, <1>2
    <3> QED  BY <1>1, <1>2, <2>2, <3>1, EarliestFacts
  <2> QED  BY <2>1, <2>2
<1>5. /\ irq \in Nat /\ irqDue <= irq
      /\ irq = irqDue \/ (irq = clock + 1 /\ last = "cli")
      /\ inhibit \/ irq > clock
  <2>1. CASE TakesIrq
    <3>1. irqDue <= clock /\ last = "cli" /\ irq = clock + 1
      BY <1>1, <1>2, <2>1, TopFacts DEF TakesIrq
    <3> HIDE DEF irq
    <3> QED  BY <1>2, <3>1
  <2>2. CASE ~TakesIrq
    <3>1. irq = irqDue /\ (inhibit \/ ~(irqDue <= clock))
      BY <2>2 DEF TakesIrq
    <3> HIDE DEF irq
    <3> QED  BY <1>2, <3>1
  <2> QED  BY <2>1, <2>2
<1>6. /\ endTime' = end /\ irqTime' = irq
      /\ limit' = (IF ~inhibit /\ irq < end THEN irq ELSE end)
  BY <1>3 DEF SetLimits
<1> HIDE DEF irq
<1>7. limit' \in Nat /\ clock < limit'
  BY <1>2, <1>4, <1>5, <1>6
<1>8. last \in {"other", "cli", "sei", "nmi", "irq"} /\ LateInv'
  BY <1>1, Typed DEF IInv, LateInv
<1>9. TypeOK' /\ ClockBounds' /\ VblInv' /\ NmiInv' /\ TopInv' /\ OutInv'
  BY <1>1, <1>2, <1>4, <1>5, <1>6, <1>7, <1>8, EnterKept
<1>10. ~(result = "sei")
  BY <1>1, <1>2, TopFacts DEF TakesIrq
<1>11. last = "sei" => irqDue > clock
  BY <1>1, <1>2, <1>10, TopFacts
<1>12. Extra > 0 =>
          /\ Extra < 3 /\ (Extra = 2 => ~inhibit)
          /\ Extra = 1 => 4 * clock < 5 * FrameLen
          /\ Extra = 2 => 4 * clock < 6 * FrameLen
  <2> SUFFICES ASSUME Extra > 0
               PROVE  /\ Extra < 3 /\ (Extra = 2 => ~inhibit)
                      /\ Extra = 1 => 4 * clock < 5 * FrameLen
                      /\ Extra = 2 => 4 * clock < 6 * FrameLen
    OBVIOUS
  <2>1. /\ Extra = extra + 1 /\ extra <= 2
        /\ extra > 0 => result = "cli"
    BY <1>1, <1>2, <1>10, LoopFacts
  <2>2. extra # 2 /\ (extra = 1 => ~inhibit)
    BY <1>2, <2>1, TopFacts
  <2>3. /\ extra = 0 => 4 * clock < 5 * FrameLen
        /\ extra = 1 => 4 * clock < 6 * FrameLen
    BY <1>2, TopFacts
  <2>4. (Extra = 1 => extra = 0) /\ (Extra = 2 => extra = 1) /\ Extra < 3
    BY <1>2, <2>1, <2>2
  <2> QED  BY <2>2, <2>3, <2>4
<1>13. RunInv'
  <2>1. /\ irqTime' = irqDue' \/ irqTime' <= clock' \/ (irqTime' = clock' + 1 /\ last' = "cli")
    BY <1>1, <1>5, <1>6
  <2>2. extra' = 0 => endTime' <= FrameLen
    BY <1>1, <1>4, <1>6
  <2>3. endTime' <= nmi'
    BY <1>1, <1>2, <1>4, <1>6
  <2>4. ~(clock' >= limit') /\ clock' < limit'
    BY <1>1, <1>2, <1>7
  <2>5. extra' > 0 => clock' + 1 = endTime'
    BY <1>1, <1>4, <1>6
  <2> QED  BY <1>1, <1>2, <1>5, <1>6, <1>7, <1>11, <1>12, <2>1, <2>2, <2>3, <2>4, <2>5 DEF RunInv
<1>14. UNCHANGED Rule!vars
  BY <1>1, <1>2 DEF Rule!vars
<1> QED  BY <1>8, <1>9, <1>13, <1>14 DEF IInv

\* The next frame.
LEMMA NextFrameStep == ASSUME IInv, NextFrame PROVE IInv' /\ Rule!Next
<1> DEFINE f == RunEndFrame(clock, EndVblank(TRUE))
<1>1. /\ mode \in {"between", "vectored"}
      /\ clocks' = tail /\ tail' \in 0..2
      /\ vbl' = f.vbl /\ ended' = FALSE /\ vblOver' = FALSE
      /\ nmi' = (IF nmiOn /\ f.vbl THEN 2 - (tail \div 2) ELSE Never)
      /\ clock' = clock - FrameLen
      /\ irqDue' = (IF irqDue = Never THEN Never
                    ELSE IF irqDue < FrameLen THEN 0 ELSE irqDue - FrameLen)
      /\ mode' = "top" /\ result' = "cycles" /\ extra' = 0
      /\ UNCHANGED <<inhibit, endTime, irqTime, limit, nmiOn, last>>
  BY DEF NextFrame, cpu
<1>2. /\ clock \in Nat /\ irqDue \in Nat /\ nmi \in Nat /\ tail \in 0..2 /\ FrameLen \in Nat
      /\ nmiOn \in BOOLEAN /\ vbl \in BOOLEAN /\ vblOver \in BOOLEAN /\ ended \in BOOLEAN
  BY Typed, Times DEF IInv
<1>3. /\ clock >= FrameLen /\ 4 * clock < 9 * FrameLen
      /\ mode = "between" => clock < 2 * FrameLen
  BY <1>1, <1>2 DEF IInv, ClockBounds
\* the flag the next frame begins with
<1>4. f.vbl = (~ended \/ vbl)
  <2>1. CASE ended
    <3>1. f = EndVblank(TRUE)
      BY <2>1, EndVblankFields, EndFrameFields
    <3>2. vblOver
      BY <2>1 DEF IInv, VblInv
    <3>3. f.vbl = vbl
      BY <3>1, <3>2, EndVblankFields
    <3> HIDE DEF f
    <3> QED  BY <1>2, <2>1, <3>3
  <2>2. CASE ~ended
    <3>1. ~(EndVblank(TRUE).ended \/ clock < FrameLen)
      <4>1. EndVblank(TRUE).ended = ended
        BY EndVblankFields
      <4>2. ~(clock < FrameLen)
        BY <1>2, <1>3
      <4> QED  BY <2>2, <4>1, <4>2
    <3>2. f.vbl = TRUE
      BY <3>1, EndFrameFields
    <3> HIDE DEF f
    <3> QED  BY <1>2, <2>2, <3>2
  <2> QED  BY <2>1, <2>2
<1> HIDE DEF f
<1>5. /\ clock' \in Nat /\ 4 * clock' < 5 * FrameLen
      /\ mode = "between" => clock' < FrameLen
  BY <1>1, <1>2, <1>3
<1>6. /\ nmi' \in Nat /\ vbl' \in BOOLEAN /\ irqDue' \in Nat
      /\ nmi' = Never \/ nmi' <= 2
  BY <1>1, <1>2, <1>4, Times
<1>7. TypeOK'
  <2>1. /\ endTime \in Nat /\ irqTime \in Nat /\ limit \in Nat /\ inhibit \in BOOLEAN
        /\ last \in {"other", "cli", "sei", "nmi", "irq"}
    BY Typed DEF IInv
  <2>2. {clock', endTime', irqTime', limit', irqDue', nmi'} \subseteq Nat
    BY <1>1, <1>5, <1>6, <2>1
  <2>3. {inhibit', nmiOn', vbl', vblOver', ended'} \subseteq BOOLEAN
    BY <1>1, <1>2, <1>6, <2>1
  <2>4. extra' \in 0..3 /\ {clocks', tail'} \subseteq 0..2
    BY <1>1, <1>2
  <2> QED  BY <1>1, <2>1, <2>2, <2>3, <2>4 DEF TypeOK
<1>8. ClockBounds' /\ LateInv' /\ VblInv'
  BY <1>1, <1>5 DEF IInv, ClockBounds, InLoop, LateInv, VblInv
<1>9. RunInv' /\ OutInv'
  BY <1>1 DEF RunInv, OutInv
<1>10. NmiInv'
  <2>1. mode = "vectored" => last = "nmi"
    BY DEF IInv, OutInv
  <2>2. nmi' <= VblEnd + 3 => clock' < FrameLen \/ last' = "nmi"
    BY <1>1, <1>5, <2>1
  <2>3. tail' \in 0..2
    BY <1>1
  <2>4. nmi' <= VblEnd + 3 \/ nmi' >= FrameLen + 2 - (tail' \div 2)
    <3>1. \A k \in 0..2 : Never >= FrameLen + 2 - (k \div 2)
      BY Times
    <3>2. 2 <= VblEnd + 3
      BY Times
    <3>3. CASE nmi' = Never
      <4>1. Never >= FrameLen + 2 - (tail' \div 2)
        BY <2>3, <3>1, Zenon
      <4> QED  BY <3>3, <4>1, Zenon
    <3>4. CASE nmi' <= 2
      BY <1>6, <3>2, <3>4, Times
    <3> QED  BY <1>6, <3>3, <3>4
  <2>5. nmi' = Never \/ nmi' <= FrameLen + 2
    BY <1>2, <1>6
  <2> QED  BY <1>1, <2>2, <2>4, <2>5 DEF NmiInv, InLoop
\* An instruction that changed I late and stopped the run is followed by an
\* NMI, which is now due at once.
<1>11. ASSUME last = "cli" \/ (last = "sei" /\ irqDue <= clock)
       PROVE  nmi' <= clock' /\ clock' < FrameLen
  <2>1. mode = "between"
    BY <1>1, <1>11 DEF IInv, OutInv
  <2>2. NmiNextFrame /\ clock >= FrameLen + 2 - (tail \div 2)
    BY <1>11, <2>1 DEF IInv, OutInv
  <2>3. nmi' = 2 - (tail \div 2)
    BY <1>1, <1>4, <2>2 DEF NmiNextFrame
  <2>4. 2 - (tail \div 2) <= clock - FrameLen
    BY <1>2, <2>2
  <2> QED  BY <1>1, <1>5, <2>1, <2>3, <2>4
<1>12. irqDue' <= clock' => irqDue <= clock
  BY <1>1, <1>2, <1>3
<1>13. TopInv'
  BY <1>1, <1>11, <1>12 DEF TopInv
<1>14. Rule!NextFrame
  <2>1. mode = "between" /\ nmi # Never => nmi' # Never
    <3>1. mode = "between" /\ nmi # Never => NmiNextFrame
      BY DEF IInv, OutInv
    <3>2. 2 - (tail \div 2) # Never
      BY <1>2, Times
    <3> QED  BY <1>1, <1>4, <3>1, <3>2 DEF NmiNextFrame
  <2> QED  BY <1>1, <1>3, <1>6, <2>1 DEF Rule!NextFrame
<1> QED  BY <1>7, <1>8, <1>9, <1>10, <1>13, <1>14 DEF IInv, Rule!Next

\* The first instruction.
LEMMA InitInv == Init => IInv /\ Rule!Init
<1> SUFFICES ASSUME Init PROVE IInv /\ Rule!Init  OBVIOUS
<1>1. TypeOK
  <2>1. {clock, endTime, irqTime, limit, irqDue, nmi} \subseteq Nat
    BY Times DEF Init
  <2>2. {inhibit, nmiOn, vbl, vblOver, ended} \subseteq BOOLEAN
    BY DEF Init
  <2>3. extra \in 0..3 /\ {clocks, tail} \subseteq 0..2
    BY DEF Init
  <2> QED  BY <2>1, <2>2, <2>3 DEF Init, TypeOK
<1>2. ClockBounds /\ RunInv /\ LateInv /\ VblInv /\ TopInv /\ OutInv
  BY Times DEF Init, ClockBounds, InLoop, RunInv, LateInv, VblInv, TopInv, OutInv
<1>3. NmiInv
  BY Times DEF Init, NmiInv, InLoop
<1>4. Rule!Init
  BY Times DEF Init, Rule!Init
<1> QED  BY <1>1, <1>2, <1>3, <1>4 DEF IInv

\* A step that changes nothing.
LEMMA UnchangedInv == IInv /\ UNCHANGED vars => IInv' /\ UNCHANGED Rule!vars
BY DEF IInv, vars, TypeOK, ClockBounds, InLoop, RunInv, LateInv, VblInv, NmiInv, NmiNextFrame,
       TopInv, OutInv, Rule!vars

\* Every step keeps the invariant and is a step of the rule, or none.
LEMMA StepInv == IInv /\ [Next]_vars => IInv' /\ [Rule!Next]_Rule!vars
BY UnchangedInv, PlainStep, CliStep, SeiStep, RtiBrkStep, IrqAccessStep, WriteControlStep,
   ReadStatusStep, StopStep, ReturnStep, ReturnVectoredStep, TakeNmiStep, TakeIrqStep,
   TakeNoneStep, NextFrameStep DEF Next

\* Every state of the loop satisfies the invariant.
THEOREM InvHolds == Spec => []IInv
BY InitInv, StepInv, PTL DEF Spec

\* The loop's times, flags and results keep their types.
THEOREM TypeCorrect == Spec => []TypeOK
<1>1. IInv => TypeOK
  BY DEF IInv
<1> QED  BY <1>1, InvHolds, PTL

\* check( last_result != result_sei && last_result != result_cli ): after
\* three extra instructions nothing calls for a fourth.
THEOREM ThreeSuffice == Spec => []ThreeExtraSuffice
<1>1. IInv => ThreeExtraSuffice
  BY NoMoreNeeded DEF ThreeExtraSuffice
<1> QED  BY <1>1, InvHolds, PTL

\* An NMI taken on the way out of a frame is not raised again by the next.
THEOREM NmiOnce == Spec => NmiNotTwice
<1>1. IInv /\ [Next]_vars
         => [mode = "vectored" /\ ended /\ mode' = "top" => nmi' = Never]_vars
  <2> SUFFICES ASSUME IInv, [Next]_vars, mode = "vectored", ended, mode' = "top"
               PROVE  nmi' = Never
    OBVIOUS
  <2>1. NextFrame
    BY DEF Next, vars, Plain, Cli, Sei, RtiBrk, IrqAccess, WriteControl, ReadStatus, Instruction,
           Stop, Return, ReturnVectored, TakeNmi, TakeIrq, TakeNone, Loops
  <2>2. ~NmiNextFrame /\ vblOver
    BY DEF IInv, OutInv, VblInv
  <2>3. RunEndFrame(clock, EndVblank(TRUE)).vbl = vbl
    BY <2>2, EndVblankFields, EndFrameFields
  <2> QED  BY <2>1, <2>2, <2>3 DEF NextFrame, NmiNextFrame
<1> QED  BY <1>1, InvHolds, PTL DEF Spec, NmiNotTwice

\* emulate_frame_ takes interrupts exactly where a CPU that looks between
\* every two instructions does.
THEOREM TakesByRule == Spec => TakenByRule
BY InitInv, StepInv, InvHolds, PTL DEF Spec, TakenByRule, Rule!Spec

=============================================================================
