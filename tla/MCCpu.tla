-------------------------------- MODULE MCCpu --------------------------------
(***************************************************************************)
(* The properties of the CPU's instructions: what they compute is what a   *)
(* 6502 with plain flags computes.                                         *)
(***************************************************************************)
EXTENDS Cpu

TypeOK ==
    /\ {r.a, r.x, r.y} \subseteq Byte /\ r.sp \in Size..(2 * Size - 1)
    /\ {r.c, r.nz} \subseteq Int /\ r.status \in {0, Mask(St.i), Mask(St.v), Mask(St.i) + Mask(St.v)}
    /\ r.pc \in 0..(PcSize + 2) /\ r.stack \in [Byte -> Byte]
    /\ ran.wrote \in Byte \cup {-1}

FlagsOf(q) ==
    {f \in {"N", "V", "I", "Z", "C"} :
        CASE f = "N" -> IsNeg(q.nz)
          [] f = "V" -> Bit(q.status, St.v)
          [] f = "I" -> Bit(q.status, St.i)
          [] f = "Z" -> IsZero(q.nz)
          [] f = "C" -> Bit(q.c, Width)}

Plain == INSTANCE PlainCpu WITH
    cpu <- [a |-> r.a, x |-> r.x, y |-> r.y, s |-> GetSp(r), flags |-> FlagsOf(r),
            pc |-> Here(r), stack |-> r.stack]

\* Every instruction does to the packed flags, the stack pointer with the page
\* in it and the program counter what it does to plain ones; a branch takes the
\* clocks it should, and an operand comes from the address, after the
\* register accesses and in the clocks, that the 6502's own accesses give.
RunsLikeA6502 == Plain!Spec
=============================================================================
