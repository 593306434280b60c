------------------------------- MODULE MCSCSI -------------------------------
(***************************************************************************)
(* SCSI for TLC: a disk of seven sectors, a memory of five cells, hosts    *)
(* that transfer two or four sectors at a time, 6-byte commands of up to   *)
(* four sectors (the real limit is 256), a table of two entries; a sector  *)
(* size that is not known, right, too large or too small.                  *)
(***************************************************************************)
EXTENDS SCSI

Op(cmd, ptr, len) == [cmd |-> cmd, ptr |-> ptr, len |-> len]

MCPieces == {2, 4}
MCSizes == {0, 256, 512, 1024}

MCTibs == {
  \* A loop over neighbours, which are merged.
  <<Op("scInc", 0, 1), Op("scLoop", -1, 4), Op("scStop", 0, 0)>>,
  \* Two cells that are not neighbours.
  <<Op("scNoInc", 3, 1), Op("scNoInc", 1, 1), Op("scStop", 0, 0)>>,
  \* A pointer that the program moves, first to a neighbour of the last cell.
  <<Op("scAdd", 3, 1), Op("scMove", 3, 4), Op("scNoInc", 1, 1), Op("scNoInc", 0, 2),
    Op("scStop", 0, 0)>>,
  \* Too many entries, and an opcode that is not known.
  <<Op("scNoInc", 0, 1), Op("scNoInc", 2, 1), Op("scNoInc", 4, 1), Op("scStop", 0, 0)>>,
  <<Op("scNoInc", 4, 1), Op("scComp", 0, 0)>> }
=============================================================================
