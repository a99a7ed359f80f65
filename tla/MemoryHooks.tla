---------------------------- MODULE MemoryHooks ----------------------------
(***************************************************************************)
(* memory.registerexec / memory.registerwrite (src/nesl/memory.cpp): the   *)
(* per-address tables of hook numbers, the vector of hooks, the Lua        *)
(* registry slots that hold the callbacks, and the trace callback that     *)
(* the traced CPU calls on every instruction fetch and every write.        *)
(*                                                                         *)
(* Addresses are scaled: TableSize stands for 0xFFFF, the length of each   *)
(* table, so the CPU's addresses are 0..TableSize, one more than a table   *)
(* has.  The two tables are adjacent rows of one array.                    *)
(***************************************************************************)
EXTENDS Integers, Sequences, FiniteSets, SequencesExt

CONSTANTS
    Callbacks,  \* the Lua functions a script registers
    Nil,        \* Lua nil, no callback
    TableSize,  \* entries of a table (0xFFFF)
    Starts,     \* first arguments of a registration
    Lengths,    \* length arguments
    Junk,       \* what a read past the vector may yield as a reference
    MaxHooks    \* bound: hooks registered in one run

ASSUME SizeAssumption == TableSize \in Nat \ {0} /\ MaxHooks \in Nat
ASSUME ArgAssumption ==
    Starts \subseteq Nat /\ Lengths \subseteq (1 - TableSize)..(TableSize + 1)
ASSUME JunkAssumption == Junk \subseteq (1..MaxHooks) \cup {-1}
\* nil is neither a function nor a number
ASSUME NilAssumption == Nil \notin Callbacks \cup Nat

VARIABLES
    regs,     \* hookregistrations[type][addr]: 0 or a hook number
    hooks,    \* the hooks vector: the registry reference and count of each
    total,    \* hookregistrations_total[type]
    slot,     \* the Lua registry's integer slots; slot[0] heads its free list
    tracing,  \* Nes_Cpu::tracing
    call,     \* what the last traced access did
    asked,    \* ghost: the exec callback a script last asked for at an address
    missed,   \* ghost: addresses the ranges asked for and laid down differ at
    freed     \* ghost: some registry slot was released

ghosts     == <<asked, missed>>
hooks_vars == <<regs, hooks, total, slot, tracing, call, ghosts, freed>>

Exec  == 0
Write == 1
Types == {Exec, Write}
Addrs == 0..(TableSize - 1)
CpuAddrs == 0..TableSize
NoCall == [kind |-> "none", addr |-> 0, got |-> Nil]

(***************************************************************************)
(* The Lua registry: luaL_ref pops the free list or extends the array,     *)
(* luaL_unref pushes.  A slot holds a callback, or the next free number.   *)
(***************************************************************************)
AsInteger(v) == IF v \in Nat THEN v ELSE 0

Borders(s) == {n \in 0..(MaxHooks - 1) : (n = 0 \/ s[n] # Nil) /\ s[n + 1] = Nil}

NewRefs(s) == IF AsInteger(s[0]) # 0 THEN {s[0]} ELSE {n + 1 : n \in Borders(s)}

Ref(s, ref, cb) ==
    IF AsInteger(s[0]) # 0 THEN [s EXCEPT ![0] = s[ref], ![ref] = cb]
                           ELSE [s EXCEPT ![ref] = cb]

Unref(s, ref) ==
    IF ref >= 0 THEN [[s EXCEPT ![ref] = s[0]] EXCEPT ![0] = ref] ELSE s

(***************************************************************************)
(* memory_registerhook.  The range is swapped when the length is negative, *)
(* and the loops stop before `end`.                                        *)
(***************************************************************************)
LastAddr(start, n) == start + n - 1
Lower(start, n) == IF LastAddr(start, n) < start THEN LastAddr(start, n) ELSE start
Upper(start, n) == IF LastAddr(start, n) < start THEN start ELSE LastAddr(start, n)

Covered(start, n) ==
    {i % TableSize : i \in Lower(start, n)..(Upper(start, n) - 1)}

CoveredSeq(start, n) ==
    [k \in 1..(Upper(start, n) - Lower(start, n)) |->
        (Lower(start, n) + k - 1) % TableSize]

\* What the caller asks for: the same range with its end, of CPU addresses.
Requested(start, n) ==
    {i % (TableSize + 1) : i \in Lower(start, n)..Upper(start, n)}

\* ghosts: the script asks for cb, Nil to remove one; write hooks never run
Ask(type, start, n, cb) ==
    LET A == Requested(start, n)
        R == Covered(start, n)
    IN  IF type = Exec
        THEN /\ asked' = [a \in CpuAddrs |-> IF a \in A THEN cb ELSE asked[a]]
             /\ missed' = (missed \cup A \cup R) \ (A \cap R)
        ELSE UNCHANGED ghosts

\* Entries of R with no hook yet, and with one; the number of a hook about to
\* be pushed.  (The names with an underscore are mutated forms, see README.)
Fresh(type, R) == {a \in R : regs[type][a] = 0}
Taken_All(type, R) == R
Taken(type, R) == {a \in R : regs[type][a] # 0}

HookNumber_BeforePush == IF hooks = << >> THEN 1 ELSE Len(hooks)
HookNumber_Skips == Len(hooks) + 2
HookNumber == Len(hooks) + 1

Assign(f, type, R, v) ==
    [f EXCEPT ![type] = [a \in Addrs |-> IF a \in R THEN v ELSE f[type][a]]]

SetTracing_Stale == tracing' = (total[Exec] + total[Exec] > 0)
SetTracing == tracing' = (total'[Exec] + total'[Exec] > 0)

\* The branch with a callback: the new hook's number is the vector's size
\* after the push.
Register(type, start, n, cb) ==
    LET R == Covered(start, n) IN
    /\ n # 0
    /\ Len(hooks) < MaxHooks
    /\ \E ref \in NewRefs(slot) :
        /\ slot' = Ref(slot, ref, cb)
        /\ hooks' = Append(hooks, [id |-> ref,
                       registrations |-> Upper(start, n) - Lower(start, n)])
    /\ regs' = Assign(regs, type, R, HookNumber)
    /\ total' = [total EXCEPT ![type] = @ + Cardinality(Fresh(type, R))]
    /\ Ask(type, start, n, cb)
    /\ SetTracing
    /\ call' = NoCall
    /\ UNCHANGED freed

\* hooks[hook_idx] is the hook AFTER the one the table names, a copy of it is
\* decremented, and past the end of the vector it is whatever is there (junk).
DoomedRef(k, junk) ==
    IF k < Len(hooks)
    THEN IF hooks[k + 1].registrations - 1 <= 0 THEN hooks[k + 1].id ELSE -1
    ELSE junk

\* The branch with nil.
Unregister(type, start, n, junk) ==
    LET R   == Covered(start, n)
        ids == [k \in DOMAIN CoveredSeq(start, n) |->
                   LET a == CoveredSeq(start, n)[k]
                   IN  IF a \in Taken(type, R) THEN DoomedRef(regs[type][a], junk) ELSE -1]
    IN
    /\ n # 0
    /\ regs' = Assign(regs, type, R, 0)
    /\ total' = [total EXCEPT ![type] = @ - Cardinality(Taken(type, R))]
    /\ slot' = FoldLeft(Unref, slot, ids)
    /\ freed' = (freed \/ \E k \in DOMAIN ids : ids[k] >= 0)
    /\ Ask(type, start, n, Nil)
    /\ SetTracing
    /\ call' = NoCall
    /\ UNCHANGED hooks

(***************************************************************************)
(* memory_tracecb(0, addr, ..), which a traced run calls both when it      *)
(* fetches an instruction and when it writes.  The hook number itself is   *)
(* used as registry reference.  Address TableSize is past the exec row:    *)
(* the entry read is the write row's first.                                *)
(***************************************************************************)
Entry(addr) == IF addr = TableSize THEN regs[Write][0] ELSE regs[Exec][addr]

Access(kind, addr) ==
    /\ tracing
    /\ call' = [kind |-> kind, addr |-> addr,
                got |-> IF Entry(addr) = 0 THEN Nil ELSE slot[Entry(addr)]]
    /\ UNCHANGED <<regs, hooks, total, slot, tracing, ghosts, freed>>

\* nothing initialises Nes_Cpu::tracing
HooksInit ==
    /\ regs = [t \in Types |-> [a \in Addrs |-> 0]]
    /\ hooks = << >>
    /\ total = [t \in Types |-> 0]
    /\ slot = [r \in 0..MaxHooks |-> Nil]
    /\ tracing \in BOOLEAN
    /\ call = NoCall
    /\ asked = [a \in CpuAddrs |-> Nil]
    /\ missed = {}
    /\ freed = FALSE

\* ranges that do not reach below address 0, where the tables end
Ranges == {r \in Starts \X Lengths : LastAddr(r[1], r[2]) >= 0}

HooksNext ==
    \/ \E t \in Types, r \in Ranges, cb \in Callbacks :
          Register(t, r[1], r[2], cb)
    \/ \E t \in Types, r \in Ranges, junk \in Junk :
          Unregister(t, r[1], r[2], junk)
    \/ \E kind \in {"exec", "write"}, addr \in CpuAddrs : Access(kind, addr)

HooksSpec == HooksInit /\ [][HooksNext]_hooks_vars

-----------------------------------------------------------------------------
HooksTypeOK ==
    /\ regs \in [Types -> [Addrs -> Nat]]
    /\ hooks \in Seq([id : Int, registrations : Int])
    /\ total \in [Types -> Nat]
    /\ tracing \in BOOLEAN
    /\ asked \in [CpuAddrs -> Callbacks \cup {Nil}]
    /\ missed \subseteq CpuAddrs
    /\ freed \in BOOLEAN

Occupied(row) == {a \in Addrs : row[a] # 0}

\* Every table entry names a hook that was pushed on the vector, so the
\* number the trace callback reads was once handed out.
EntriesNameHooks ==
    \A t \in Types, a \in Addrs : regs[t][a] \in 0..Len(hooks)

\* The running totals are exactly the number of occupied entries, whatever
\* ranges were laid over each other, removed twice or wrapped around.
TotalsCount ==
    \A t \in Types : total[t] = Cardinality(Occupied(regs[t]))

\* Once a script has registered anything, the CPU traces exactly while some
\* address has an exec hook: it neither stays slow nor misses a hook.
TracingIffHooked ==
    Len(hooks) > 0 => (tracing <=> Occupied(regs[Exec]) # {})

\* A traced access runs the exec callback its script last asked for at that
\* address, and none where none was asked for or the last was removed, though
\* the hook number doubles as Lua registry reference: until a slot is released
\* the numberings agree.  Left out are the addresses where the range laid down
\* is not the one asked for: each range's last one, and the CPU's last.
CallsWhatWasAsked ==
    call.kind # "none" /\ ~freed /\ call.addr \notin missed \cup {TableSize} =>
        call.got = asked[call.addr]

=============================================================================
