----------------------------- MODULE MCReflash -----------------------------
(***************************************************************************)
(* Reflash with the flash maps of Application/ECTool/FWUpdate.c.  The five *)
(* cells are the stretches between the borders of the three maps:          *)
(*   0x00000  0x3C000  0x40000  0x79000  0x7F000  0x80000                  *)
(***************************************************************************)
EXTENDS Reflash

CONSTANTS c00000, c3C000, c40000, c79000, c7F000

MCCells == {c00000, c3C000, c40000, c79000, c7F000}

Part(n, cs, s) == [name |-> n, cells |-> cs, skip |-> s]

HxRegions ==
  << Part("RO", {c00000}, FALSE), Part("RO_VPD", {c3C000}, TRUE),
     Part("RW", {c40000}, FALSE), Part("RW_VPD", {c79000, c7F000}, TRUE) >>

NpcxRegions ==
  << Part("RO", {c00000, c3C000}, FALSE), Part("RW", {c40000, c79000}, FALSE),
     Part("SPI_FLAGS", {c7F000}, TRUE) >>

UnknownRegions ==
  << Part("RO", {c00000, c3C000}, FALSE),
     Part("RW", {c40000, c79000, c7F000}, FALSE) >>

\* hx20 stands for both hx boards, azalea for all boards with an NPCX, other
\* for a board that is not in the table.
MCBoards == {"hx20", "azalea", "other"}
MCImageIds == MCBoards \union {""}
MCNoMap == [unlock |-> FALSE, regions |-> <<>>]
MCUnknownMap == [unlock |-> TRUE, regions |-> UnknownRegions]

\* AsciiStrnCmp over no characters finds the first entry, hx20.
MCMap == [id \in MCImageIds |->
            CASE id \in {"hx20", ""} -> [unlock |-> TRUE, regions |-> HxRegions]
              [] id = "azalea" -> [unlock |-> FALSE, regions |-> NpcxRegions]
              [] OTHER -> MCNoMap]
=============================================================================
