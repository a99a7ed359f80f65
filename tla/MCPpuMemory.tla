----------------------------- MODULE MCPpuMemory -----------------------------
(***************************************************************************)
(* Small cartridges for PpuMemory.                                         *)
(***************************************************************************)
EXTENDS PpuMemory

MCRom(p) == 10 + p

Board(mapper, chr, mirroring) == [mapper |-> mapper, chr |-> chr, mirroring |-> mirroring]

\* Boards whose states can be saved whole
MCCarts   == {Board("nrom", 0, "vert"), Board("mmc1", 3, "horiz"), Board("nrom", 2, "full")}
\* what a game may set the mirroring to
MCScreens == {Full, Manually(2, 3, 2, 0), Vert}
=============================================================================
