------------------------------- MODULE MCBoards -------------------------------
(***************************************************************************)
(* The properties of the boards, and the bytes written to each.            *)
(***************************************************************************)
EXTENDS Boards

MCData == [k \in AllKinds |->
    CASE k \in {"AOROM", "GNROM", "ColorDreams", "Camerica", "M78"} -> {0, 5, 16, 18, 35, 171}
      [] k = "MMC1" -> {0, 9, 30}
      [] k = "MMC3" -> {6, 48, 135, 192}
      [] k = "FME7" -> {3, 64, 193}
      [] k = "Namco" -> {1, 66}
      [] k = "VRC6" -> {6, 32, 45}
      [] OTHER -> {0, 5, 18, 171}]
MCMaxWrites == [k \in AllKinds |-> IF k \in {"MMC1", "MMC2", "MMC4", "FME7", "Namco", "VRC6"} THEN 2 ELSE 3]

TypeOK ==
    /\ kind \in Kinds /\ cart \in Mirrors
    /\ regs \in [0..(RegCount - 1) -> Byte]
    /\ saved = None \/ saved \in [0..(RegCount - 1) -> Byte]
    /\ map.prg \in [0..3 -> 0..(PrgPages - 1)]
    /\ {map.chr, map.ex} \subseteq [0..7 -> 0..(ChrPages - 1)]
    /\ map.nt \in [1..4 -> 0..3]
    /\ map.low \in {<<"sram">>, <<"read only">>, <<"open bus">>, <<"filler">>}
                  \cup ({"prg"} \X (0..(PrgPages - 1)))
    /\ {map.lrom, loaded} \subseteq BOOLEAN /\ writes \in 0..MaxWrites[kind]

\* What registers decide: the memory at $6000 only where the board has
\* something to do with it, tiles but for Mapper_87, which applies nothing,
\* and name tables but for Namco 106, where the last of two registers counts.
Decides(part) ==
    CASE part = "low" -> {"UNROM", "MMC1", "MMC3", "MMC4", "FME7", "Namco", "VRC6"}
      [] part = "chr" -> AllKinds \ {"M87"}
      [] part = "nt"  -> AllKinds \ {"Namco"}
      [] OTHER        -> AllKinds

\* unmapped memory is unmapped whatever it reads as
Seen(m) == [m EXCEPT !.low = IF @ = <<"filler">> THEN <<"open bus">> ELSE @]

Same(a, b) ==
    \A part \in {"prg", "chr", "ex", "nt", "low"} :
        kind \in Decides(part) => Seen(a)[part] = Seen(b)[part]

\* Updating only what a write changed never leaves the memory map behind the
\* registers: at any time it is the one apply_mapping would make of them.
MapFollowsRegisters == Same(map, ApplyMapping(DefaultMap(map), regs))

\* Loading a state gives the memory map back that the game had when it was
\* saved, whatever it did to the registers since.
LoadRestores == loaded => Same(map, then)

=============================================================================
