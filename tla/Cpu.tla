--------------------------------- MODULE Cpu ---------------------------------
(***************************************************************************)
(* The instructions of Nes_Cpu::run (Nes_CpuRun.h, Nes_Cpu.cpp).  The run  *)
(* keeps the flags packed: C is one bit of an integer, N and Z are made of *)
(* the last result, and only V, D and I are bits of a status byte.  The    *)
(* stack pointer is one ahead, with the page in it.                        *)
(*                                                                         *)
(* Bytes have Width bits; a byte with a bit too many is a carry.  Left out *)
(* are D, which does nothing, B and R, the unstable stores (SHA, SHX, SHY, *)
(* SHS), LAS and the instructions that do nothing.                         *)
(***************************************************************************)
EXTENDS Bytes, Sequences, SequencesExt

CONSTANTS
    Operands,  \* bytes that are read
    Indices,   \* index registers for addressing
    Targets,   \* addresses jumped to
    StartPc,
    MaxSteps   \* bound: instructions run

ASSUME InputAssumption ==
    /\ Operands \subseteq Byte /\ Indices \subseteq Byte /\ MaxSteps \in Nat
    /\ Targets \subseteq 0..(Size * Size - 1) /\ StartPc \in 0..(Size * Size - 1)

VARIABLES
    r,      \* a, x, y, sp, c, nz, status, pc; and the stack page
    ran,    \* the last instruction: op, data, to, inMemory, wrote, extra
    access, \* the last operand: how it was addressed, and the accesses made
    steps   \* ghost: instructions run

vars == <<r, ran, access, steps>>

\* bits of a status byte
St == [c |-> 0, z |-> 1, i |-> 2, v |-> Width - 2, n |-> Width - 1]
Mask(k) == 2^k
Has(v, k) == IF Bit(v, k) THEN Mask(k) ELSE 0

IsNeg(nz)  == Bit(nz, Width - 1) \/ Bit(nz, Width + 3)
IsZero(nz) == Low(nz) = 0
CarryIn(q) == IF Bit(q.c, Width) THEN 1 ELSE 0

SetStatus_ZeroOnNeg(q, in) ==
    [q EXCEPT !.status = Has(in, St.v) + Has(in, St.i), !.c = in * Size,
              !.nz = Has(in, St.n)]
SetStatus(q, in) ==
    [q EXCEPT !.status = Has(in, St.v) + Has(in, St.i), !.c = in * Size,
              !.nz = Has(16 * in, Width + 3) + (Mask(St.z) - Has(in, St.z))]

CalcStatus(q) ==
    q.status + CarryIn(q) + (IF IsNeg(q.nz) THEN Mask(St.n) ELSE 0)
             + (IF IsZero(q.nz) THEN Mask(St.z) ELSE 0)

\* status &= ~st; status |= st if on
SetBit(q, k, on) ==
    [q EXCEPT !.status = @ - Has(@, k) + (IF on THEN Mask(k) ELSE 0)]

-----------------------------------------------------------------------------
(* Operations on a byte read                                               *)

Load(q, reg, v) == [q EXCEPT ![reg] = v, !.nz = v]

\* nz = reg - data; c = ~nz; nz &= 0xFF
Cmp(q, reg, v) == [q EXCEPT !.nz = Low(q[reg] - v), !.c = -1 - (q[reg] - v)]

Adc(q, v) ==
    LET nz == q.a + v + CarryIn(q)
        ov == Xor(q.a, Half) + CarryIn(q) + Signed(v)
    IN  [SetBit(q, St.v, Bit(ov, Width)) EXCEPT !.c = nz, !.nz = nz, !.a = Low(nz)]

\* "result must be zero, even if N bit is set"
BitTest_NegLost(q, v) ==
    [SetBit(q, St.v, Bit(v, St.v)) EXCEPT
        !.nz = IF And(q.a, v) # 0 THEN v ELSE 0]
BitTest(q, v) ==
    [SetBit(q, St.v, Bit(v, St.v)) EXCEPT
        !.nz = IF And(q.a, v) # 0 THEN v ELSE Has(16 * v, Width + 3)]

\* ROR A and, with c = 0, LSR A
RorA(q) == LET nz == Half * CarryIn(q) + q.a \div 2
           IN  [q EXCEPT !.nz = nz, !.c = q.a * Size, !.a = nz]

Arr(q, v) ==
    LET a == And(v, q.a) \div 2 + Half * CarryIn(q)
    IN  [SetBit(q, St.v, Bit(Xor(a, Low(2 * a)), St.v)) EXCEPT !.a = a, !.nz = a, !.c = 4 * a]

\* data is unsigned
Sbx(q, v) == LET d == And(q.a, q.x) - v
             IN  [q EXCEPT !.c = IF d \in Byte THEN Size ELSE 0, !.x = Low(d), !.nz = Low(d)]

Reads(q, op, v) ==
    CASE op = "lda" -> Load(q, "a", v)
      [] op = "ldx" -> Load(q, "x", v)
      [] op = "ldy" -> Load(q, "y", v)
      [] op = "lax" -> Load(Load(q, "a", v), "x", v)
      [] op = "and" -> Load(q, "a", And(q.a, v))
      [] op = "ora" -> Load(q, "a", Or(q.a, v))
      [] op = "eor" -> Load(q, "a", Xor(q.a, v))
      [] op = "adc" -> Adc(q, v)
      [] op = "sbc" -> Adc(q, Xor(v, Size - 1))
      [] op = "cmp" -> Cmp(q, "a", v)
      [] op = "cpx" -> Cmp(q, "x", v)
      [] op = "cpy" -> Cmp(q, "y", v)
      [] op = "bit" -> BitTest(q, v)
      [] op = "alr" -> RorA([Load(q, "a", And(q.a, v)) EXCEPT !.c = 0])
      [] op = "anc" -> LET a == And(q.a, v) IN [Load(q, "a", a) EXCEPT !.c = 2 * a]
      [] op = "arr" -> Arr(q, v)
      [] op = "sbx" -> Sbx(q, v)

ReadOps == {"lda", "ldx", "ldy", "lax", "and", "ora", "eor", "adc", "sbc", "cmp", "cpx",
            "cpy", "bit", "alr", "anc", "arr", "sbx"}

-----------------------------------------------------------------------------
(* Operations that write back what they read, changed: nz before it is cut *)
(* to a byte, and c                                                        *)

LeftBy(q, v, c)  == [q EXCEPT !.nz = 2 * v + c, !.c = 2 * v]
RightBy(q, v, c) == [q EXCEPT !.nz = v \div 2 + Half * c, !.c = v * Size]

Changed(q, op, v) ==
    CASE op \in {"asl", "slo"} -> LeftBy(q, v, 0)
      [] op \in {"rol", "rla"} -> LeftBy(q, v, CarryIn(q))
      [] op \in {"lsr", "sre"} -> RightBy(q, v, 0)
      [] op \in {"ror", "rra"} -> RightBy(q, v, CarryIn(q))
      [] op \in {"inc", "isc"} -> [q EXCEPT !.nz = v + 1]
      [] op \in {"dec", "dcp"} -> [q EXCEPT !.nz = v - 1]

\* the second half of the unofficial ones
Combined(q, op) ==
    LET w == Low(q.nz)
    IN  CASE op = "slo" -> Load(q, "a", Or(q.a, w))
          [] op = "rla" -> Load(q, "a", And(q.a, w))
          [] op = "sre" -> Load(q, "a", Xor(q.a, w))
          [] op = "rra" -> Adc(q, w)
          [] op = "isc" -> Adc(q, Xor(w, Size - 1))
          [] op = "dcp" -> Cmp(q, "a", w)
          [] OTHER      -> q

Official   == {"asl", "lsr", "rol", "ror", "inc", "dec"}
Unofficial == {"slo", "rla", "sre", "rra", "isc", "dcp"}

-----------------------------------------------------------------------------
(* Operations on registers                                                 *)

\* SET_SP, GET_SP, and `v | 0x100` of a stack address with a bit too many
InPage(v) == Size + Low(v)
SetSp_NoPage(q, v) == [q EXCEPT !.sp = v + 1]
SetSp(q, v) == [q EXCEPT !.sp = InPage(v + 1)]
GetSp(q) == Low(q.sp - 1)

Step(q, reg, n) == [q EXCEPT ![reg] = Low(@ + n), !.nz = q[reg] + n]

Shifted(q, op) ==
    CASE op \in {"asl", "rol"} -> LET s == Changed(q, op, q.a) IN [s EXCEPT !.a = Low(s.nz)]
      [] op = "lsr" -> RorA([q EXCEPT !.c = 0])
      [] op = "ror" -> RorA(q)

Transferred(q, op) ==
    CASE op = "tax" -> Load([q EXCEPT !.x = q.a], "a", q.a)
      [] op = "txa" -> Load(q, "a", q.x)
      [] op = "tay" -> Load([q EXCEPT !.y = q.a], "a", q.a)
      [] op = "tya" -> Load(q, "a", q.y)
      [] op = "tsx" -> Load(q, "x", GetSp(q))
      [] op = "txs" -> SetSp(q, q.x)
      [] op = "inx" -> Step(q, "x", 1)
      [] op = "dex" -> Step(q, "x", -1)
      [] op = "iny" -> Step(q, "y", 1)
      [] op = "dey" -> Step(q, "y", -1)

Flagged(q, op) ==
    CASE op = "sec" -> [q EXCEPT !.c = -1]
      [] op = "clc" -> [q EXCEPT !.c = 0]
      [] op = "clv" -> SetBit(q, St.v, FALSE)
      [] op = "sei" -> SetBit(q, St.i, TRUE)
      [] op = "cli" -> SetBit(q, St.i, FALSE)

ShiftOps    == {"asl", "lsr", "rol", "ror"}
TransferOps == {"tax", "txa", "tay", "tya", "tsx", "txs", "inx", "dex", "iny", "dey"}
FlagOps     == {"sec", "clc", "clv", "sei", "cli"}

-----------------------------------------------------------------------------
(* The stack.  A cell is addressed with the page; the array has one page.  *)

Store(q, at, v) == [q EXCEPT !.stack[at - Size] = Low(v)]
Cell(q, at)     == q.stack[at - Size]

\* the byte n below the top, and its address: sp - 0xFF is a step up
Up(q, n)   == InPage(q.sp - (Size - n))
Pop(q, n)  == [q EXCEPT !.sp = Up(q, n)]
Top(q, n)  == IF n = 1 THEN Cell(q, q.sp) ELSE Cell(q, Up(q, n - 1))

Push(q, v) == LET sp == InPage(q.sp - 1) IN Store([q EXCEPT !.sp = sp], sp, v)

Jsr(q, to) ==
    LET pc == q.pc + 1
        p  == Store(q, InPage(q.sp - 1), pc \div Size)
        sp == InPage(q.sp - 2)
    IN  [Store([p EXCEPT !.sp = sp], sp, pc) EXCEPT !.pc = to]

Rts(q) == [Pop(q, 2) EXCEPT !.pc = 1 + Top(q, 1) + Size * Top(q, 2)]

Rti(q) == SetStatus([Pop(q, 3) EXCEPT !.pc = Top(q, 2) + Size * Top(q, 3)], Top(q, 1))

Brk_OneShort(q, to) ==
    LET p == Store(Store(q, InPage(q.sp - 1), q.pc \div Size), InPage(q.sp - 2), q.pc)
        sp == InPage(q.sp - 3)
    IN  SetBit([Store([p EXCEPT !.sp = sp], sp, CalcStatus(q)) EXCEPT !.pc = to], St.i, TRUE)
Brk(q, to) ==
    LET pc == q.pc + 1
        p  == Store(Store(q, InPage(q.sp - 1), pc \div Size), InPage(q.sp - 2), pc)
        sp == InPage(q.sp - 3)
    IN  SetBit([Store([p EXCEPT !.sp = sp], sp, CalcStatus(q)) EXCEPT !.pc = to], St.i, TRUE)

\* The run ends, Nes_Core::vector_interrupt pushes with the registers it left
\* behind, and the next run unpacks the status.
Interrupt(q, to) ==
    LET s == GetSp(q)
        p == Store(Store(Store(q, Size + s, q.pc \div Size), Size + Low(s - 1), q.pc),
                   Size + Low(s - 2), CalcStatus(q))
    IN  SetStatus(SetSp([p EXCEPT !.pc = to], Low(s - 3)),
                  CalcStatus(q) - Has(CalcStatus(q), St.i) + Mask(St.i))

Stacks(q, op, to) ==
    CASE op = "pha" -> Push(q, q.a)
      [] op = "pla" -> Load(Pop(q, 1), "a", Top(q, 1))
      [] op = "php" -> Push(q, CalcStatus(q))
      [] op = "plp" -> SetStatus(Pop(q, 1), Top(q, 1))
      [] op = "jsr" -> Jsr(q, to)
      [] op = "rts" -> Rts(q)
      [] op = "rti" -> Rti(q)
      [] op = "brk" -> Brk(q, to)

StackOps == {"pha", "pla", "php", "plp", "jsr", "rts", "rti", "brk"}

\* BRANCH: the condition of each
Conditions(q) ==
    [bpl |-> ~IsNeg(q.nz), bmi |-> IsNeg(q.nz), bne |-> ~IsZero(q.nz), beq |-> IsZero(q.nz),
     bvc |-> ~Bit(q.status, St.v), bvs |-> Bit(q.status, St.v),
     bcc |-> ~Bit(q.c, Width), bcs |-> Bit(q.c, Width)]


Crossing_Unsigned(pc, offset) == IF Bit(Low(pc) + Low(offset), Width) THEN 1 ELSE 0
Crossing(pc, offset) == IF Bit(Low(pc) + offset, Width) THEN 1 ELSE 0

-----------------------------------------------------------------------------
(* Addressing                                                              *)

TableClocks ==  \* clock_table
    [read   |-> [imm |-> 2, zp |-> 3, zpi |-> 4, abs |-> 4, absi |-> 4, indx |-> 6, indy |-> 5],
     write  |-> [zp |-> 3, zpi |-> 4, abs |-> 4, absi |-> 5, indx |-> 6, indy |-> 6],
     modify |-> [zp |-> 5, zpi |-> 6, abs |-> 6, absi |-> 7, indx |-> 8, indy |-> 8],
     jump   |-> [abs |-> 3, ind |-> 5]]

\* addresses where an access has effects, and where LDA looks beyond memory
Io     == (PcSize \div 8) .. ((3 * PcSize) \div 8 - 1)
Beyond == (PcSize \div 8) .. (PcSize \div 2 - 1)

RD(at) == <<"read", at % PcSize>>
WR(at) == <<"write", at % PcSize>>
Noticed(accesses) == SelectSeq(accesses, LAMBDA acc : acc[2] \in Io)

\* The reads before the operand's own, of an instruction that indexes an
\* address whose low byte became `data`
IndexedReads_AfterCarry(path, data, high) ==
    IF path \in {"write", "modify"} THEN <<RD(data + Size * high)>> ELSE <<>>
IndexedReads(path, data, high) ==
    LET full == data + Size * high
    IN  IF path \in {"write", "modify"} THEN <<RD(IF data >= Size THEN full - Size ELSE full)>>
        ELSE IF data >= Size /\ (path = "lda" => full \in Beyond) THEN <<RD(full - Size)>>
        ELSE <<>>

\* What is then done at the address.  Only LDA reads from the code map.
Accesses(path, mode, at) ==
    CASE path = "lda" /\ mode \in {"absi", "indy"} /\ at \notin Beyond -> <<>>
      [] path = "write"  -> <<WR(at)>>
      [] path = "modify" -> <<RD(at), WR(at), WR(at)>>
      [] OTHER -> <<RD(at)>>

-----------------------------------------------------------------------------
Instr(op, data, to, inMemory, wrote, extra) ==
    [op |-> op, data |-> data, to |-> to, inMemory |-> inMemory, wrote |-> wrote, extra |-> extra]

Run(op, data, to) == Instr(op, data, to, FALSE, -1, 0)

Steps == steps < MaxSteps /\ steps' = steps + 1 /\ UNCHANGED access

\* past the last address the opcode fetched is page_wrap_opcode
Here(q) == q.pc % PcSize

ExecRead == Steps /\
    \E op \in ReadOps, v \in Operands :
        r' = Reads(r, op, v) /\ ran' = Run(op, v, 0)

ExecModify == Steps /\
    \E op \in Official \cup Unofficial, v \in Operands :
        LET q == Changed(r, op, v)
        IN  /\ r' = Combined(q, op)
            /\ ran' = Instr(op, v, 0, TRUE, Low(q.nz), 0)

ExecShift    == Steps /\ \E op \in ShiftOps : r' = Shifted(r, op) /\ ran' = Run(op, 0, 0)
ExecTransfer == Steps /\ \E op \in TransferOps : r' = Transferred(r, op) /\ ran' = Run(op, 0, 0)
ExecFlag     == Steps /\ \E op \in FlagOps : r' = Flagged(r, op) /\ ran' = Run(op, 0, 0)

ExecStack == Steps /\
    \E op \in StackOps, to \in Targets :
        r' = Stacks([r EXCEPT !.pc = Here(r) + 1], op, to) /\ ran' = Run(op, 0, to)

ExecBranch == Steps /\
    \E op \in DOMAIN Conditions(r), v \in Operands :
        LET pc    == Here(r) + 2
            taken == Conditions(r)[op]
        IN  /\ r' = [r EXCEPT !.pc = IF taken THEN (pc + Signed(v)) % PcSize ELSE pc]
            /\ ran' = Instr(op, v, 0, FALSE, -1, IF taken THEN Crossing(pc, Signed(v)) ELSE -1)

VectorInterrupt == Steps /\
    \E to \in Targets : r' = Interrupt(r, to) /\ ran' = Run("irq", 0, to)

\* The operand of an instruction; LDA has code of its own.  What it does
\* next is no matter: the run ends.
Fetch ==
    /\ steps = 0 /\ steps' = MaxSteps /\ UNCHANGED <<r, ran>>
    /\ \E path \in {"lda", "read", "write", "modify", "jump"}, index \in {r.x, r.y} :
        LET kind == IF path = "lda" THEN "read" ELSE path
        IN  \E mode \in DOMAIN TableClocks[kind] :
            \E bytes \in Operands \X (IF mode \in {"abs", "absi", "ind"} THEN Operands ELSE {0}),
               pointed \in IF mode \in {"indx", "indy", "ind"} THEN Operands \X Operands ELSE {<<0, 0>>} :
            LET indexed == mode \in {"absi", "indy"}
                data == CASE mode \in {"zpi", "indx"} -> Low(bytes[1] + index)
                          [] mode = "absi" -> bytes[1] + index
                          [] mode = "indy" -> pointed[1] + index
                          [] OTHER -> bytes[1]
                high == IF mode = "indy" THEN pointed[2] ELSE bytes[2]
                word == CASE mode \in {"zp", "zpi"} -> data
                          [] mode \in {"indx", "ind"} -> pointed[1] + Size * pointed[2]
                          [] OTHER -> data + Size * high
                from == CASE mode = "indx" -> <<data, Low(data + 1)>>
                          [] mode = "indy" -> <<bytes[1], Low(bytes[1] + 1)>>
                          [] mode = "ind"  -> <<bytes[1] + Size * bytes[2], Size * bytes[2] + Low(bytes[1] + 1)>>
                          [] OTHER -> <<>>
            IN  access' =
                [mode |-> mode, kind |-> kind, index |-> index, bytes |-> bytes,
                 pointed |-> pointed, from |-> from,
                 at |-> IF mode = "imm" THEN 0 ELSE word % PcSize,
                 bus |-> Noticed(CASE mode = "ind" -> <<RD(from[1]), RD(from[2])>>
                                   [] mode = "imm" \/ kind = "jump" -> <<>>
                                   [] indexed -> IndexedReads(path, data, high)
                                                    \o Accesses(path, mode, word)
                                   [] OTHER -> Accesses(path, mode, word)),
                 clocks |-> TableClocks[kind][mode] +
                    (IF indexed /\ kind = "read" THEN data \div Size ELSE 0)]

Init ==
    /\ \E a \in Operands, x \in Indices, in \in {0, Size - 1} :
        r = SetSp(SetStatus([a |-> a, x |-> x, y |-> Half, sp |-> 0, c |-> 0, nz |-> 0,
                       status |-> 0, pc |-> StartPc, stack |-> [k \in Byte |-> k]], in), Size - 3)
    /\ ran = Run("none", 0, 0) /\ access = [mode |-> "none"] /\ steps = 0

Next == \/ ExecRead \/ ExecModify \/ ExecShift \/ ExecTransfer \/ ExecFlag
        \/ ExecStack \/ ExecBranch \/ VectorInterrupt \/ Fetch

Spec == Init /\ [][Next]_vars
=============================================================================
