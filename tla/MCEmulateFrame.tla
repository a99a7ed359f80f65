--------------------------- MODULE MCEmulateFrame ---------------------------
(***************************************************************************)
(* The properties of the frame loop.                                       *)
(***************************************************************************)
EXTENDS EmulateFrame

TypeOK ==
    /\ mode \in {"top", "run", "between", "vectored"}
    /\ {clock, endTime, irqTime, limit, irqDue, nmi} \subseteq Nat
    /\ {inhibit, nmiOn, vbl, vblOver, ended} \subseteq BOOLEAN
    /\ result \in {"cycles", "cli", "sei"} /\ last \in {"other", "cli", "sei", "nmi", "irq"}
    /\ extra \in 0..3 /\ {clocks, tail} \subseteq 0..2

\* Interrupts are taken exactly where a CPU that looked between every two
\* instructions would take them.
Rule == INSTANCE InterruptRule WITH
    time <- clock, nmiDue <- IF mode = "vectored" THEN Never ELSE nmi

TakenByRule == Rule!Spec

\* check( last_result != result_sei && last_result != result_cli ) and
\* check( nmi_time() >= 0x10000 || (w2000 & 0x80 & r2002) ): after three
\* extra instructions nothing is left that a fourth would be needed for.
ThreeExtraSuffice ==
    mode = "top" /\ clock >= FrameLen /\ nmi > clock /\ extra > 2 => ~MoreInstructions

\* "If NMI will occur normally, let it occur next frame, otherwise vector it
\* now": the NMI of a blank that began before its frame returned, vectored at
\* the return, is not raised again by the next frame.
NmiNotTwice ==
    [][mode = "vectored" /\ ended /\ mode' = "top" => nmi' = Never]_vars

\* Every frame ends.
FramesEnd == []<>(mode \in {"between", "vectored"})

=============================================================================
