------------------------------ MODULE PlainCpu ------------------------------
(***************************************************************************)
(* The 6502 as its manual has it: five flags, each a flag; a stack pointer *)
(* of a byte that wraps; a program counter of two.  An instruction is its  *)
(* name, its operand byte and an address; `ran` says which one ran, what   *)
(* it wrote to memory and the clocks it took beyond its usual ones.        *)
(*                                                                         *)
(* The decimal flag has no effect in this console and is left out, as are  *)
(* the two bits of a pushed status that are no flags.                      *)
(***************************************************************************)
EXTENDS Bytes, Sequences, SequencesExt

VARIABLES
    cpu,   \* a, x, y, s, flags, pc and the stack page
    ran,   \* the last instruction: op, data, to, inMemory, wrote, extra
    access \* the last operand: how it was addressed, and the accesses made

Flags   == {"N", "V", "I", "Z", "C"}
Place   == [C |-> 0, Z |-> 1, I |-> 2, V |-> Width - 2, N |-> Width - 1]
Pack(F) == Value({Place[f] : f \in F})
Unpack(v) == {f \in Flags : Bit(v, Place[f])}

Set(p, f, on) == [p EXCEPT !.flags = IF on THEN @ \cup {f} ELSE @ \ {f}]
Carry(p)      == IF "C" \in p.flags THEN 1 ELSE 0
NZ(p, v)      == Set(Set(p, "N", v >= Half), "Z", v = 0)

Put(p, r, v)  == NZ([p EXCEPT ![r] = v], v)

Compare(p, r, v) == Set(NZ(p, Low(p[r] - v)), "C", p[r] >= v)

AddTo(p, v) ==
    LET sum == p.a + v + Carry(p)
        signed == Signed(p.a) + Signed(v) + Carry(p)
    IN  Set(Set(Put(p, "a", Low(sum)), "C", sum >= Size), "V", signed \notin (-Half)..(Half - 1))

\* Reading instructions
Reading == {"lda", "ldx", "ldy", "lax", "and", "ora", "eor", "adc", "sbc",
            "cmp", "cpx", "cpy", "bit", "alr", "anc", "arr", "sbx"}

Read(p, op, v) ==
    CASE op = "lda" -> Put(p, "a", v)
      [] op = "ldx" -> Put(p, "x", v)
      [] op = "ldy" -> Put(p, "y", v)
      [] op = "lax" -> Put(Put(p, "a", v), "x", v)
      [] op = "and" -> Put(p, "a", And(p.a, v))
      [] op = "ora" -> Put(p, "a", Or(p.a, v))
      [] op = "eor" -> Put(p, "a", Xor(p.a, v))
      [] op = "adc" -> AddTo(p, v)
      [] op = "sbc" -> AddTo(p, Not(v))
      [] op = "cmp" -> Compare(p, "a", v)
      [] op = "cpx" -> Compare(p, "x", v)
      [] op = "cpy" -> Compare(p, "y", v)
      [] op = "bit" -> Set(Set(Set(p, "Z", And(p.a, v) = 0), "N", v >= Half), "V", Bit(v, Width - 2))
      [] op = "alr" -> LET w == And(p.a, v)
                       IN  Set(Put(p, "a", w \div 2), "C", w % 2 = 1)
      [] op = "anc" -> LET w == And(p.a, v) IN Set(Put(p, "a", w), "C", w >= Half)
      [] op = "arr" -> LET w == And(p.a, v) \div 2 + Carry(p) * Half
                       IN  Set(Set(Put(p, "a", w), "C", Bit(w, Width - 2)),
                               "V", Bit(w, Width - 2) # Bit(w, Width - 3))
      [] op = "sbx" -> LET w == And(p.a, p.x)
                       IN  Set(Put(p, "x", Low(w - v)), "C", w >= v)

\* Instructions that change memory: the new value, and the flags
Shifting  == {"asl", "lsr", "rol", "ror"}
Modifying == Shifting \cup {"inc", "dec", "dcp", "isc", "slo", "rla", "sre", "rra"}

Left(v, in)  == Low(2 * v + in)
Right(v, in) == v \div 2 + in * Half

New(p, op, v) ==
    CASE op \in {"asl", "slo"} -> Left(v, 0)
      [] op \in {"rol", "rla"} -> Left(v, Carry(p))
      [] op \in {"lsr", "sre"} -> Right(v, 0)
      [] op \in {"ror", "rra"} -> Right(v, Carry(p))
      [] op \in {"inc", "isc"} -> Low(v + 1)
      [] op \in {"dec", "dcp"} -> Low(v - 1)

Modify(p, op, v) ==
    LET w == New(p, op, v)
        q == CASE op \in {"asl", "rol", "slo", "rla"} -> Set(p, "C", v >= Half)
               [] op \in {"lsr", "ror", "sre", "rra"} -> Set(p, "C", v % 2 = 1)
               [] OTHER -> p
    IN  CASE op \in Shifting \cup {"inc", "dec"} -> NZ(q, w)
          [] op = "slo" -> Read(q, "ora", w)
          [] op = "rla" -> Read(q, "and", w)
          [] op = "sre" -> Read(q, "eor", w)
          [] op = "rra" -> Read(q, "adc", w)
          [] op = "isc" -> Read(q, "sbc", w)
          [] op = "dcp" -> Read(q, "cmp", w)

\* Instructions without an operand
Implied == Shifting \cup {"tax", "txa", "tay", "tya", "tsx", "txs", "inx", "dex", "iny", "dey",
            "sec", "clc", "clv", "sei", "cli"}

Plainly(p, op) ==
    CASE op \in Shifting -> LET w == New(p, op, p.a) IN [Modify(p, op, p.a) EXCEPT !.a = w]
      [] op = "tax" -> Put(p, "x", p.a)
      [] op = "txa" -> Put(p, "a", p.x)
      [] op = "tay" -> Put(p, "y", p.a)
      [] op = "tya" -> Put(p, "a", p.y)
      [] op = "tsx" -> Put(p, "x", p.s)
      [] op = "txs" -> [p EXCEPT !.s = p.x]
      [] op = "inx" -> Put(p, "x", Low(p.x + 1))
      [] op = "dex" -> Put(p, "x", Low(p.x - 1))
      [] op = "iny" -> Put(p, "y", Low(p.y + 1))
      [] op = "dey" -> Put(p, "y", Low(p.y - 1))
      [] op = "sec" -> Set(p, "C", TRUE)
      [] op = "clc" -> Set(p, "C", FALSE)
      [] op = "clv" -> Set(p, "V", FALSE)
      [] op = "sei" -> Set(p, "I", TRUE)
      [] op = "cli" -> Set(p, "I", FALSE)

\* The stack
Push(p, v)   == [p EXCEPT !.stack[p.s] = v, !.s = Low(@ - 1)]
Pulled(p, n) == p.stack[Low(p.s + n)]
Pull(p, n)   == [p EXCEPT !.s = Low(@ + n)]

PushPc(p, to) == Push(Push(p, to \div Size), Low(to))
Wrapped(to)   == to % PcSize

\* A branch: what it tests; a clock if taken, one more into another page
Tests == [bpl |-> <<"N", FALSE>>, bmi |-> <<"N", TRUE>>, bvc |-> <<"V", FALSE>>,
          bvs |-> <<"V", TRUE>>, bcc |-> <<"C", FALSE>>, bcs |-> <<"C", TRUE>>,
          bne |-> <<"Z", FALSE>>, beq |-> <<"Z", TRUE>>]

Branches == DOMAIN Tests
Takes(p, op) == (Tests[op][1] \in p.flags) = Tests[op][2]

\* Stack and flow, with what follows the opcode already fetched but for BRK's
Stacking == {"pha", "pla", "php", "plp", "jsr", "rts", "rti", "brk", "irq"}

Stacks(p, op, to) ==
    CASE op = "pha" -> Push(p, p.a)
      [] op = "pla" -> Put(Pull(p, 1), "a", Pulled(p, 1))
      [] op = "php" -> Push(p, Pack(p.flags))
      [] op = "plp" -> [Pull(p, 1) EXCEPT !.flags = Unpack(Pulled(p, 1))]
      [] op = "jsr" -> [PushPc(p, Wrapped(p.pc - 1)) EXCEPT !.pc = to]
      [] op = "rts" -> [Pull(p, 2) EXCEPT !.pc = Wrapped(1 + Pulled(p, 1) + Size * Pulled(p, 2))]
      [] op = "rti" -> [Pull(p, 3) EXCEPT !.flags = Unpack(Pulled(p, 1)),
                            !.pc = Pulled(p, 2) + Size * Pulled(p, 3)]
      [] op = "brk" -> Set([Push(PushPc(p, Wrapped(p.pc + 1)), Pack(p.flags)) EXCEPT !.pc = to], "I", TRUE)
      [] op = "irq" -> Set([Push(PushPc(p, p.pc), Pack(p.flags)) EXCEPT !.pc = to], "I", TRUE)

\* bytes after the opcode
Fetched(op) == IF op = "jsr" THEN 2 ELSE IF op \in Branches THEN 1 ELSE 0

-----------------------------------------------------------------------------
(* Addressing.  What is `noticed` are accesses to the registers; a clock   *)
(* goes by with every access the 6502 makes, useful or not.                *)

Registers == (PcSize \div 8) .. ((3 * PcSize) \div 8 - 1)
Noticed(accesses) == SelectSeq(accesses, LAMBDA acc : acc[2] \in Registers)

Word(w)      == w[1] + Size * w[2]
Pointed(i)   == i.mode \in {"indx", "indy", "ind"}
Indexed(i)   == i.mode \in {"absi", "indy"}
Immediate(i) == i.mode = "imm"

\* where the pointer is; the two bytes it, or the instruction, holds
Pointer(i) ==
    CASE i.mode = "indx" -> <<Low(i.bytes[1] + i.index), Low(i.bytes[1] + i.index + 1)>>
      [] i.mode = "indy" -> <<i.bytes[1], Low(i.bytes[1] + 1)>>
      [] i.mode = "ind"  -> <<Word(i.bytes), Word(<<Low(i.bytes[1] + 1), i.bytes[2]>>)>>
      [] OTHER           -> <<>>
Base(i)    == IF Pointed(i) THEN i.pointed ELSE i.bytes
Crosses(i) == Indexed(i) /\ Base(i)[1] + i.index >= Size

Effective(i) ==
    CASE i.mode = "zp"  -> i.bytes[1]
      [] i.mode = "zpi" -> Low(i.bytes[1] + i.index)
      [] Indexed(i)     -> Wrapped(Word(Base(i)) + i.index)
      [] OTHER          -> Word(Base(i))

\* An indexed address is looked at before the carry reaches its high byte.
Looks(i)     == Indexed(i) /\ (i.kind # "read" \/ Crosses(i))
Uncarried(i) == Word(<<Low(Base(i)[1] + i.index), Base(i)[2]>>)

On(what, at) == <<what, at>>
Done(i) == [read   |-> <<"read">>, write |-> <<"write">>,
            modify |-> <<"read", "write", "write">>, jump |-> <<>>][i.kind]

Bus(i) ==
    (IF i.mode = "ind" THEN <<On("read", Pointer(i)[1]), On("read", Pointer(i)[2])>> ELSE <<>>)
    \o (IF Looks(i) THEN <<On("read", Uncarried(i))>> ELSE <<>>)
    \o (IF Immediate(i) THEN <<>>
        ELSE [k \in DOMAIN Done(i) |-> On(Done(i)[k], Effective(i))])

\* opcode and operand, pointer, the byte added to in the zero page, the rest
Clocks(i) ==
    1 + (IF i.mode \in {"abs", "absi", "ind"} THEN 2 ELSE 1)
      + (IF Pointed(i) THEN 2 ELSE 0)
      + (IF i.mode \in {"zpi", "indx"} THEN 1 ELSE 0)
      + (IF Looks(i) THEN 1 ELSE 0)
      + (IF Immediate(i) THEN 0 ELSE Len(Done(i)))

Address(i) ==
    /\ i.from = Pointer(i) /\ i.bus = Noticed(Bus(i)) /\ i.clocks = Clocks(i)
    /\ Immediate(i) \/ i.at = Effective(i)

-----------------------------------------------------------------------------
\* The program counter moves in Stacking and Branches only: which operand
\* bytes the other instructions have is no matter here.
Execute(i) ==
    LET p == [cpu EXCEPT !.pc = Wrapped(@ + (IF i.op = "irq" THEN 0 ELSE 1) + Fetched(i.op))]
        to == Wrapped(p.pc + Signed(i.data))
    IN  \/ /\ i.op \in Reading
           /\ cpu' = Read(cpu, i.op, i.data) /\ ran' = i
        \/ /\ i.op \in Modifying /\ i.inMemory
           /\ cpu' = Modify(cpu, i.op, i.data)
           /\ ran' = [i EXCEPT !.wrote = New(cpu, i.op, i.data)]
        \/ /\ i.op \in Implied /\ ~i.inMemory
           /\ cpu' = Plainly(cpu, i.op) /\ ran' = i
        \/ /\ i.op \in Stacking
           /\ cpu' = Stacks(p, i.op, i.to) /\ ran' = i
        \/ /\ i.op \in Branches /\ Takes(cpu, i.op)
           /\ cpu' = [p EXCEPT !.pc = to]
           /\ ran' = [i EXCEPT !.extra = IF to \div Size = p.pc \div Size THEN 0 ELSE 1]
        \/ /\ i.op \in Branches /\ ~Takes(cpu, i.op)
           /\ cpu' = p /\ ran' = [i EXCEPT !.extra = -1]

Init == ran.op = "none" /\ access.mode = "none"
Next == \/ Execute(ran') /\ UNCHANGED access
        \/ access'.mode # "none" /\ Address(access') /\ UNCHANGED <<cpu, ran>>
Spec == Init /\ [][Next]_<<cpu, ran, access>>
=============================================================================
