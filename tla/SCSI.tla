-------------------------------- MODULE SCSI --------------------------------
(***************************************************************************)
(* The SCSI Manager (scsi.cpp) and the transfer it makes of a transaction  *)
(* (scsi_windows.cpp).  The Mac calls SCSIGet, SCSISelect, SCSICmd,        *)
(* SCSIRead or SCSIWrite and SCSIComplete, in whatever order; nothing goes *)
(* to the device before SCSIComplete.  SCSIRead and SCSIWrite run a little *)
(* program, the TIB, which fills a scatter/gather table; the command is    *)
(* then sent in pieces the host can transfer, each with its own block      *)
(* address written into the command, and a 6-byte command that is refused  *)
(* is sent again as a 10-byte one.                                         *)
(*                                                                         *)
(* A unit of data is a sector; the Mac asks for as many sectors as its TIB *)
(* moves.                                                                  *)
(***************************************************************************)
EXTENDS Integers, Sequences, FiniteSetsExt, SequencesExt

CONSTANTS Targets,          \* the IDs with a device
          Absent,           \* an ID without one
          NSectors,         \* of the device
          NCells,           \* of the Mac's memory
          Lbas,             \* where the Mac's commands begin
          Counts,           \* how many sectors they ask for
          Wide,             \* 256, the sectors a 6-byte command means by 0
          SectorBytes,      \* the size of the device's sectors
          SectorSizes,      \* what SCSIInit may have taken it for; 0: not known
          Pieces,           \* how many sectors the host may transfer at a time
          Tibs,             \* the programs of the Mac
          SG_TABLE_SIZE,
          MaxTransactions   \* calls of SCSIGet that take the bus

ASSUME SizesArePositive == /\ NSectors \in Nat \ {0} /\ NCells \in Nat \ {0}
                           /\ Wide \in Nat \ {0} /\ SG_TABLE_SIZE \in Nat \ {0}
                           /\ Pieces \subseteq Nat \ {0} /\ Counts \subseteq 1 .. Wide
                           /\ Lbas \subseteq Nat
                           /\ SectorBytes \in Nat \ {0} /\ SectorSizes \subseteq Nat

\* The sizes are powers of two, and a full piece is a whole number of any of them.
ASSUME PiecesAreAligned ==
  \A s \in SectorSizes \ {0} : /\ s % SectorBytes = 0 \/ SectorBytes % s = 0
                              /\ \A m \in Pieces : (m * SectorBytes) % s = 0

\* A TIB ends with an instruction that stops it, loops inside itself, moves at
\* least nothing, and changes no pointers but those of its moves.
Moves(p) == {i \in DOMAIN p : p[i].cmd \in {"scInc", "scNoInc"}}

WellFormed(p) ==
  /\ p \in Seq([cmd : STRING, ptr : Int, len : Int])
  /\ p # << >> /\ p[Len(p)].cmd \in {"scStop", "scComp"}
  /\ \A i \in DOMAIN p :
       /\ i \in Moves(p) => p[i].len \in Nat
       /\ p[i].cmd = "scAdd" => p[i].ptr \in Moves(p)
       /\ p[i].cmd = "scMove" => p[i].ptr \in DOMAIN p /\ p[i].len \in Moves(p)
       /\ p[i].cmd = "scLoop" => i + p[i].ptr \in DOMAIN p

ASSUME TibsAreWellFormed == \A p \in Tibs : WellFormed(p)

Sector == 0 .. NSectors - 1
Cell == 0 .. NCells - 1

\* What is where at first: everything different; junk is what no one has written.
Sectors == [l \in Sector |-> <<"disk", l>>]
Cells == [a \in Cell |-> <<"mac", a>>]
Junk == <<"junk", 0>>
Contents == {Sectors[l] : l \in Sector} \union {Cells[a] : a \in Cell} \union {Junk}

Phases == {"free", "arbitrated", "selected", "transfer"}

VARIABLES
  phase, fake_status, target_id, reading,
  sg,               \* sg_ptr and sg_len up to sg_index
  sg_total_length,
  command,          \* scsi_command, as long as it counts: wide means ten bytes
  stage, tib, ip,   \* exec_tib: the program, which changes itself
  split,            \* sync_exec_split: sectors left and done, where, the blocks' bytes
  buffer,
  disk, mem,
  device,           \* max_transfer, the cached sector_size, 6-byte commands supported
  result,           \* of the SCSIComplete that has just ended
  request,          \* history: what the Mac asked for in this transaction
  retried,          \* history: "no", "first" or "late": the piece that was refused
  transactions      \* history: their number

busVars == <<phase, fake_status, target_id>>
sgVars == <<reading, sg, sg_total_length>>
tibVars == <<tib, ip>>
ioVars == <<split, buffer, disk, mem>>
histVars == <<request, retried>>
scsiVars == <<busVars, sgVars, command, stage, tibVars, ioVars, device, result, histVars,
          transactions>>

NoCommand == [op |-> "none", wide |-> FALSE, lba |-> 0, count |-> 0]
NoSplit == [todo |-> 0, done |-> 0, lba |-> 0, unit |-> 1, multi |-> FALSE]
NoRequest == [op |-> "none", lba |-> 0, n |-> 0, cells |-> << >>, disk |-> Sectors, mem |-> Cells]

ScsiInit ==
  /\ phase = "free" /\ fake_status = "free" /\ target_id = 8
  /\ reading = FALSE /\ sg = << >> /\ sg_total_length = 0
  /\ command = NoCommand
  /\ stage = "mac" /\ tib = << >> /\ ip = 1
  /\ split = NoSplit /\ buffer = << >> /\ disk = Sectors /\ mem = Cells
  /\ device \in [max_transfer : Pieces, sector_size : SectorSizes, six : BOOLEAN]
  /\ result = "none"
  /\ request = NoRequest /\ retried = "no" /\ transactions = 0

-----------------------------------------------------------------------------
(* The calls up to the command.                                            *)

SCSIReset ==
  /\ stage = "mac"
  /\ phase' = "free" /\ fake_status' = "free" /\ target_id' = 8
  /\ sg' = << >>
  /\ command' = NoCommand
  /\ request' = NoRequest /\ retried' = "no"
  /\ UNCHANGED <<reading, sg_total_length, stage, tibVars, ioVars, device, result, transactions>>

\* The flag of the last transaction is left.
MutSCSIGet ==
  /\ stage = "mac" /\ phase = "free" /\ transactions < MaxTransactions
  /\ phase' = "arbitrated" /\ fake_status' = "busy"
  /\ sg' = << >> /\ sg_total_length' = 0
  /\ request' = [NoRequest EXCEPT !.disk = disk, !.mem = mem]
  /\ retried' = "no"
  /\ transactions' = transactions + 1
  /\ UNCHANGED <<target_id, reading, command, stage, tibVars, ioVars, device, result>>

\* The call returns scMgrBusyErr, and changes nothing, unless the bus is free.
SCSIGet ==
  /\ stage = "mac" /\ phase = "free" /\ transactions < MaxTransactions
  /\ phase' = "arbitrated" /\ fake_status' = "busy"
  /\ reading' = FALSE /\ sg' = << >> /\ sg_total_length' = 0
  /\ request' = [NoRequest EXCEPT !.disk = disk, !.mem = mem]
  /\ retried' = "no"
  /\ transactions' = transactions + 1
  /\ UNCHANGED <<target_id, command, stage, tibVars, ioVars, device, result>>

SCSISelect ==
  /\ stage = "mac" /\ phase = "arbitrated"
  /\ \E id \in Targets \union {Absent} :
       /\ target_id' = id
       /\ phase' = IF id \in Targets THEN "selected" ELSE "free"
       /\ fake_status' = IF id \in Targets THEN "command" ELSE "free"
  /\ UNCHANGED <<sgVars, command, stage, tibVars, ioVars, device, result, histVars, transactions>>

\* A command of a wrong length is refused and the bus stays as it is; a unit
\* that is not there sets it free.
SCSICmd ==
  /\ stage = "mac" /\ phase = "selected"
  /\ \E op \in {"read", "write"}, wide \in BOOLEAN, lba \in Lbas, n \in Counts :
       /\ command' = [op |-> op, wide |-> wide, lba |-> lba,
                      count |-> IF wide \/ n < Wide THEN n ELSE 0]
       /\ request' = [request EXCEPT !.op = op, !.lba = lba, !.n = n]
  /\ \/ phase' = "transfer" /\ fake_status' = "data"
     \/ phase' = "free" /\ fake_status' = "free"
  /\ UNCHANGED <<target_id, sgVars, stage, tibVars, ioVars, device, result, retried, transactions>>

-----------------------------------------------------------------------------
(* SCSIRead and SCSIWrite: exec_tib().                                     *)

\* Assumed of the Mac: it calls the one that goes with its command, and not again
\* when all is there; a TIB may fail, or move more or less than the command says.
Begins(call) ==
  /\ stage = "mac" /\ phase = "transfer"
  /\ request.op = call /\ Len(request.cells) < request.n
  /\ tib' \in Tibs /\ ip' = 1
  /\ stage' = "tib"
  /\ UNCHANGED <<busVars, sg, sg_total_length, command, ioVars, device, result, histVars,
                 transactions>>

SCSIRead == Begins("read") /\ reading' = TRUE
SCSIWrite == Begins("write") /\ UNCHANGED reading

tibUnchanged == UNCHANGED <<busVars, reading, command, ioVars, device, result, retried,
                            transactions>>

\* A table entry is lengthened when the data follows it in memory.
Follows(ptr) == sg # << >> /\ ptr = Last(sg).ptr + Last(sg).len

Added(ptr, len) ==
  IF Follows(ptr)
  THEN [sg EXCEPT ![Len(sg)].len = @ + len]
  ELSE Append(sg, [ptr |-> ptr, len |-> len])

Span(ptr, len) == [i \in 1 .. len |-> ptr + i - 1]

\* scInc and scNoInc; the table may be full.
Move ==
  /\ stage = "tib" /\ tib[ip].cmd \in {"scInc", "scNoInc"}
  /\ LET ptr == tib[ip].ptr
         len == tib[ip].len
     IN /\ tib' = IF tib[ip].cmd = "scInc" THEN [tib EXCEPT ![ip].ptr = ptr + len] ELSE tib
        /\ IF Follows(ptr) \/ Len(sg) < SG_TABLE_SIZE
           THEN /\ sg' = Added(ptr, len)
                /\ sg_total_length' = sg_total_length + len
                /\ request' = [request EXCEPT !.cells = @ \o Span(ptr, len)]
                /\ ip' = ip + 1
                /\ UNCHANGED stage
           ELSE /\ stage' = "full"
                /\ UNCHANGED <<sg, sg_total_length, request, ip>>
  /\ tibUnchanged

\* scAdd and scMove work on the Mac's memory: here, on the pointers of the TIB.
Modify ==
  /\ stage = "tib" /\ tib[ip].cmd \in {"scAdd", "scMove"}
  /\ tib' = IF tib[ip].cmd = "scAdd"
            THEN [tib EXCEPT ![tib[ip].ptr].ptr = @ + tib[ip].len]
            ELSE [tib EXCEPT ![tib[ip].len].ptr = tib[tib[ip].ptr].ptr]
  /\ ip' = ip + 1
  /\ UNCHANGED <<stage, sg, sg_total_length, request>>
  /\ tibUnchanged

Loop ==
  /\ stage = "tib" /\ tib[ip].cmd = "scLoop"
  /\ tib' = [tib EXCEPT ![ip].len = @ - 1]
  /\ ip' = IF tib[ip].len - 1 > 0 THEN ip + tib[ip].ptr ELSE ip + 1
  /\ UNCHANGED <<stage, sg, sg_total_length, request>>
  /\ tibUnchanged

\* scStop; a full table, scComp and unknown opcodes are errors.
Stop ==
  /\ stage = "full" \/ (stage = "tib" /\ tib[ip].cmd \in {"scStop", "scComp"})
  /\ stage' = "mac" /\ tib' = << >> /\ ip' = 1
  /\ UNCHANGED <<sg, sg_total_length, request>>
  /\ tibUnchanged

-----------------------------------------------------------------------------
(* SCSIComplete.                                                           *)

\* The cells of the table, in its order.
Expanded == FlattenSeq([i \in DOMAIN sg |-> Span(sg[i].ptr, sg[i].len)])

Gathered == [i \in DOMAIN Expanded |-> mem[Expanded[i]]]

\* A later cell of the table may be an earlier one again.
Scattered ==
  [a \in Cell |-> LET at == {i \in DOMAIN Expanded : Expanded[i] = a}
                  IN IF at = {} THEN mem[a] ELSE buffer[Max(at)]]

Blocks(cmd) == IF ~ cmd.wide /\ cmd.count = 0 THEN Wide ELSE cmd.count

\* How sync_exec_split sets out: a command that takes several pieces is cut into
\* blocks of the cached size, or if there is none, of the size it seems to mean.
Unit(cmd, length) ==
  IF device.sector_size # 0 THEN device.sector_size ELSE (length * SectorBytes) \div Blocks(cmd)

Set(cmd, length) ==
  LET multi == length > device.max_transfer
  IN [todo |-> length, done |-> 0, lba |-> cmd.lba, multi |-> multi,
      unit |-> IF multi THEN Unit(cmd, length) ELSE SectorBytes]

\* Both divisions have a divisor.
Divides(cmd, length) ==
  length > device.max_transfer => Blocks(cmd) # 0 /\ Unit(cmd, length) # 0

\* Without one, Basilisk is gone.
SetsOut(cmd) ==
  \/ /\ Divides(cmd, sg_total_length)
     /\ split' = Set(cmd, sg_total_length)
     /\ stage' = "exec"
  \/ /\ ~ Divides(cmd, sg_total_length)
     /\ split' = NoSplit
     /\ stage' = "crashed"

\* A Mac may also complete a transaction whose TIB failed or moved nothing.
SCSIComplete ==
  /\ stage = "mac" /\ phase = "transfer"
  /\ buffer' = IF reading THEN [i \in 1 .. sg_total_length |-> Junk] ELSE Gathered
  /\ SetsOut(command)
  /\ UNCHANGED <<busVars, sgVars, command, tibVars, disk, mem, device, result, histVars,
                 transactions>>

\* The next piece, in sectors and in blocks; what goes over the bus is rounded up.
bytes == Min({device.max_transfer, split.todo})
InBlocks == (bytes * SectorBytes) \div split.unit
Aligned(n) == LET k == device.sector_size \div SectorBytes
              IN IF k > 1 THEN n + ((- n) % k) ELSE n

\* The address is left.
MutPatched ==
  IF ~ split.multi THEN command
  ELSE [command EXCEPT !.count = IF ~ command.wide /\ InBlocks >= Wide THEN 0 ELSE InBlocks]

\* The command for the next piece.
Patched ==
  IF ~ split.multi THEN command
  ELSE [command EXCEPT !.lba = split.lba,
                       !.count = IF ~ command.wide /\ InBlocks >= Wide THEN 0 ELSE InBlocks]

\* The device does what the command says, as far as the host's buffer goes.
Accepts(cmd) == /\ cmd.wide \/ device.six
                /\ bytes # 0 => cmd.op = (IF reading THEN "read" ELSE "write")
                /\ cmd.lba + Blocks(cmd) <= NSectors

Into(cmd) ==
  [i \in DOMAIN buffer |->
     IF i \in split.done + 1 .. split.done + Aligned(bytes)
     THEN LET k == i - split.done - 1 IN IF k < Blocks(cmd) THEN disk[cmd.lba + k] ELSE Junk
     ELSE buffer[i]]

Onto(cmd) ==
  [l \in Sector |->
     IF l \in cmd.lba .. cmd.lba + Min({Blocks(cmd), Aligned(bytes)}) - 1
     THEN IF l < cmd.lba + bytes THEN buffer[split.done + l - cmd.lba + 1] ELSE Junk
     ELSE disk[l]]

\* One piece goes through.
Piece ==
  /\ stage = "exec"
  /\ command' = Patched
  /\ Accepts(command')
  /\ IF reading
     THEN buffer' = Into(command') /\ UNCHANGED disk
     ELSE disk' = Onto(command') /\ UNCHANGED buffer
  /\ split' = [split EXCEPT !.todo = @ - bytes, !.done = @ + bytes,
                            !.lba = @ + InBlocks]
  /\ stage' = IF split'.todo = 0 THEN "done" ELSE "exec"
  /\ UNCHANGED <<busVars, sgVars, tibVars, mem, device, result, histVars, transactions>>

Free == phase' = "free" /\ fake_status' = "free" /\ UNCHANGED target_id

\* It is refused, or fails; a 6-byte command, as the pieces have left it, is made a 10-byte
\* one with the same address and length byte.
Refused ==
  /\ stage = "exec"
  /\ IF Patched.wide
     THEN /\ Free
          /\ stage' = "complete" /\ result' = "scCommErr"
          /\ split' = NoSplit /\ buffer' = << >> /\ command' = NoCommand
          /\ UNCHANGED retried
     ELSE /\ retried' = IF split.done = 0 THEN "first" ELSE "late"
          /\ command' = [Patched EXCEPT !.wide = TRUE]
          /\ SetsOut(command')
          /\ UNCHANGED <<busVars, result, buffer>>
  /\ UNCHANGED <<sgVars, tibVars, disk, mem, device, request, transactions>>

\* All pieces have gone through: the data goes where the table says.
Done ==
  /\ stage = "done"
  /\ mem' = IF reading THEN Scattered ELSE mem
  /\ Free
  /\ stage' = "complete" /\ result' = "noErr"
  /\ split' = NoSplit /\ buffer' = << >> /\ command' = NoCommand
  /\ UNCHANGED <<sgVars, tibVars, disk, device, histVars, transactions>>

\* SCSIComplete is back.
Completed ==
  /\ stage = "complete"
  /\ stage' = "mac" /\ result' = "none"
  /\ UNCHANGED <<busVars, sgVars, command, tibVars, ioVars, device, histVars, transactions>>

ScsiNext ==
  \/ SCSIReset \/ SCSIGet \/ SCSISelect \/ SCSICmd \/ SCSIRead \/ SCSIWrite
  \/ Move \/ Modify \/ Loop \/ Stop
  \/ SCSIComplete \/ Piece \/ Refused \/ Done \/ Completed

ScsiSpec == ScsiInit /\ [][ScsiNext]_scsiVars
-----------------------------------------------------------------------------
(* Properties.                                                             *)

\* The type invariant.
ScsiTypeOK ==
  /\ phase \in Phases
  /\ fake_status \in {"free", "busy", "command", "data"}
  /\ target_id \in Targets \union {Absent, 8}
  /\ reading \in BOOLEAN
  /\ sg \in Seq([ptr : Cell, len : 1 .. NCells]) /\ Len(sg) <= SG_TABLE_SIZE
  /\ sg_total_length \in Nat
  /\ command \in [op : {"none", "read", "write"}, wide : BOOLEAN, lba : Nat, count : Nat]
  /\ stage \in {"mac", "tib", "full", "exec", "done", "complete", "crashed"}
  /\ ip \in Nat \ {0}
  /\ split \in [todo : Nat, done : Nat, lba : Nat, unit : Nat \ {0}, multi : BOOLEAN]
  /\ disk \in [Sector -> Contents] /\ mem \in [Cell -> Contents]
  /\ buffer \in Seq(Contents)
  /\ result \in {"none", "noErr", "scCommErr"}
  /\ retried \in {"no", "first", "late"}
  /\ transactions \in 0 .. MaxTransactions

\* What SCSIComplete has to go by is what the transaction was: the table stands
\* for the cells the TIBs named, one after the other, through loops, pointers the
\* TIB moves, several calls and a full table, and the flag says which way they go
\* (exec_tib merges entries and counts twice; SCSIWrite does not set the flag).
TransactionIsExact ==
  /\ phase # "free" => /\ Expanded = request.cells
                       /\ sg_total_length = Len(request.cells)
  /\ stage = "exec" /\ request.cells # << >> => reading = (request.op = "read")

\* A 6-byte command was sent again with what the pieces had made of it: from the
\* middle, or with the count of one piece for all, or with 256 sectors as none; or
\* the pieces were cut by a cached sector size that is not the device's.
Spoilt ==
  \/ retried = "late"
  \/ /\ retried = "first"
     /\ IF request.n > device.max_transfer THEN device.sector_size = 0 ELSE request.n = Wide
  \/ request.n > device.max_transfer /\ device.sector_size \notin {0, SectorBytes}

ReadIsRight ==
  /\ disk = request.disk
  /\ mem = [a \in Cell |->
              LET at == {i \in DOMAIN request.cells : request.cells[i] = a}
              IN IF at = {} THEN request.mem[a] ELSE request.disk[request.lba + Max(at) - 1]]

WriteIsRight ==
  /\ mem = request.mem
  /\ disk = [l \in Sector |->
               IF l \in request.lba .. request.lba + request.n - 1
               THEN request.mem[request.cells[l - request.lba + 1]]
               ELSE request.disk[l]]

\* When SCSIComplete returns noErr the sectors the Mac named, and no others, have
\* been read into the cells it named, or written from them - whatever the pieces,
\* and with 10-byte commands in place of 6-byte ones, but for the four cases of
\* Spoilt (scsi_send_cmd and sync_exec_split work on one copy of the command, and
\* sync_exec_split believes SCSIInit), and if the TIBs moved as much as the command
\* says (scsi_windows.cpp:1375 assumes it and nothing tests it).
TransferIsRight ==
  stage = "complete" /\ result = "noErr" /\ sg_total_length = request.n /\ ~ Spoilt =>
    IF request.op = "read" THEN ReadIsRight ELSE WriteIsRight
=============================================================================
