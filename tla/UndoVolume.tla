----------------------------- MODULE UndoVolume -----------------------------
(***************************************************************************)
(* A hard disk image that is mounted with an undo file: Sys_open,          *)
(* Sys_read, Sys_write and Sys_close of a file (sys_windows.cpp),          *)
(* undoable_read, undoable_write and undo_commit (undo_windows.cpp) and    *)
(* the class undo_buffer (undo_buffer.cpp).  The blocks the Mac writes go  *)
(* to the undo file; a hash table of lists tells where each block is, and  *)
(* neighbours on both sides are read, written and committed in one piece.  *)
(*                                                                         *)
(* The calls come one at a time from the CPU thread.  The window thread    *)
(* may quit the program, which kills the CPU thread wherever it is and     *)
(* then closes the image; the host may refuse any of the file operations   *)
(* or stop altogether.                                                     *)
(***************************************************************************)
EXTENDS Naturals, Sequences, FiniteSets, FiniteSetsExt

CONSTANTS NBlocks,      \* blocks of the image
          NBuckets,     \* UB_MAX_BUCKETS
          Joined,       \* JOIN_BLOCK_COUNT
          MaxWrites     \* calls of Sys_write in a run

ASSUME SizesAreNat == /\ NBlocks \in Nat \ {0}
                      /\ NBuckets \in Nat \ {0}
                      /\ Joined \in Nat \ {0}
                      /\ MaxWrites \in Nat

Block == 0 .. NBlocks - 1
Bucket == 0 .. NBuckets - 1

\* The n-th write of a run writes n; 0 is what the image held.
Data == 0 .. MaxWrites

INVALID == NBlocks + 1      \* the neighbour of no block
Entry == [mac : Block \union {INVALID}, host : Nat]

Overlays == {"nonpersistent", "undoable", "undoable_auto"}
Modes == Overlays \union {"persistent"}
NoPiece == [slot |-> 0, size |-> 0, new |-> FALSE]

Statuses == {"healthy", "out_of_space", "corruption"}

VARIABLES
  file,             \* the image file
  mount_mode, read_only,
  yes_all, no_all, is_shutting_down,
  m_table,          \* the lists of the hash table
  m_next_offset, m_status, m_dirty,
  m_file,           \* the undo file is open
  host,             \* what it holds
  pc,               \* where the thread in the Sys_ call is
  offset, length,   \* the blocks of the Sys_read or Sys_write
  did,              \* how many of them undoable_read or undoable_write has done
  piece,            \* the blocks put_n is about to write
  buffer,           \* what Sys_read has read
  misread,          \* history: the undo file could not be read in this Sys_read
  bucket, index,    \* commit's position
  closing,          \* Sys_close called the commit
  commit,           \* history: "none", "begun", "done" or "failed"
  writes            \* history: the calls of Sys_write so far

tableVars == <<m_table, m_next_offset, m_status, m_dirty, m_file, host>>
mountVars == <<mount_mode, read_only>>
answerVars == <<yes_all, no_all, is_shutting_down>>
callVars == <<offset, length>>
ioVars == <<callVars, did, piece, buffer, misread>>
commitVars == <<bucket, index, closing, commit>>
vars == <<file, mountVars, answerVars, tableVars, pc, ioVars, writes, commitVars>>

Empty == [i \in Bucket |-> << >>]

\* Sys_open(): an image that may not be written is mounted nonpersistent.
Sys_open(wants, user_wants_ro, path_ro) ==
  /\ mount_mode = IF /\ wants \in {"undoable", "undoable_auto"}
                     /\ path_ro
                  THEN "nonpersistent" ELSE wants
  /\ read_only = (/\ user_wants_ro \/ path_ro
                  /\ wants # "nonpersistent")

Init ==
  /\ file = [b \in Block |-> 0]
  /\ \E wants \in Modes, user_wants_ro, path_ro \in BOOLEAN :
        Sys_open(wants, user_wants_ro, path_ro)
  /\ yes_all = FALSE /\ no_all = FALSE /\ is_shutting_down = FALSE
  /\ m_table = Empty
  /\ m_next_offset = 0 /\ m_status = "healthy" /\ m_dirty = FALSE
  /\ m_file = (mount_mode \in Overlays)
  /\ host = << >>
  /\ pc = "idle"
  /\ offset = 0 /\ length = 0 /\ did = 0 /\ piece = NoPiece
  /\ buffer = << >> /\ misread = FALSE /\ writes = 0
  /\ bucket = 0 /\ index = 1 /\ closing = FALSE /\ commit = "none"

-----------------------------------------------------------------------------
(* The hash table.                                                         *)

hash_func(b) == (b \div Joined) % NBuckets

\* The places of block b in its list; find_entry() returns the first.
Places(b) == {i \in DOMAIN m_table[hash_func(b)] : m_table[hash_func(b)][i].mac = b}
Known(b) == Places(b) # {}
find_entry(b) == Min(Places(b))

\* The entries from place i on that are neighbours on both sides, at most limit.
Neighbours(q, i, limit) ==
  Max({n \in 1 .. limit :
         /\ i + n - 1 \in DOMAIN q
         /\ \A k \in i .. i + n - 2 : /\ q[k+1].host = q[k].host + 1
                                      /\ q[k+1].mac = q[k].mac + 1})

\* Blocks that have an entry are not looked for.
MutFresh(b, limit) ==
  Max({n \in 1 .. limit : \A k \in b + 1 .. b + n - 1 : hash_func(k) = hash_func(b)})

\* The blocks from b on that put_n adds at a time.
Fresh(b, limit) ==
  Max({n \in 1 .. limit :
         \A k \in b + 1 .. b + n - 1 : hash_func(k) = hash_func(b) /\ ~ Known(k)})

\* new_entry(), for a run of blocks.
Entries(b, slot, n) == [i \in 1 .. n |-> [mac |-> b + i - 1, host |-> slot + i - 1]]

\* A file of which n blocks from slot on are written.
Overwritten(f, slot, n, d) ==
  [i \in 1 .. Max({Len(f), IF n = 0 THEN 0 ELSE slot + n}) |->
     IF i \in slot + 1 .. slot + n THEN d ELSE f[i]]

Holds(slot, n) == slot + n <= Len(host)
Piece(slot, n) == SubSeq(host, slot + 1, slot + n)

\* The image file, of which n blocks from b on are written.
Stored(b, n, d) == [c \in Block |-> IF c \in b .. b + n - 1 THEN d ELSE file[c]]

-----------------------------------------------------------------------------
(* The calls.                                                              *)

\* The Mac's transfers lie within the disk.
Called == \E b \in Block : \E n \in 1 .. NBlocks - b : offset' = b /\ length' = n

\* Back to the Mac: what the call worked with is gone.
Return == /\ pc' = "idle"
          /\ offset' = 0 /\ length' = 0 /\ did' = 0
          /\ piece' = NoPiece /\ buffer' = << >> /\ misread' = FALSE

at == offset + did
left == length - did

-----------------------------------------------------------------------------
(* Sys_write.                                                              *)

Sys_write ==
  /\ pc = "idle" /\ ~ read_only /\ writes < MaxWrites
  /\ mount_mode = "persistent" \/ m_status = "healthy"
  /\ Called
  /\ writes' = writes + 1
  /\ pc' = IF mount_mode = "persistent" THEN "direct" ELSE "put"
  /\ UNCHANGED <<file, mountVars, answerVars, tableVars, did, piece, buffer, misread,
                 commitVars>>

putUnchanged == UNCHANGED <<file, mountVars, answerVars, m_next_offset, m_status, m_dirty,
                            m_file, host, callVars, did, buffer, misread, writes, commitVars>>

\* put_n() looks the block up, or adds an entry for it, and sees how far it can go.
Put ==
  /\ pc = "put"
  /\ LET h == hash_func(at)
         q == m_table[h]
     IN IF Known(at)
        THEN /\ piece' = [slot |-> q[find_entry(at)].host, new |-> FALSE,
                          size |-> Neighbours(q, find_entry(at), left)]
             /\ UNCHANGED m_table
        ELSE /\ piece' = [slot |-> m_next_offset, new |-> TRUE, size |-> Fresh(at, left)]
             /\ m_table' = [m_table EXCEPT ![h] = q \o Entries(at, m_next_offset, 1)]
  /\ pc' = "write"
  /\ putUnchanged

Written ==
  /\ pc = "write"
  /\ host' = Overwritten(host, piece.slot, piece.size, writes)
  /\ IF piece.new
     THEN /\ m_table' = [m_table EXCEPT ![hash_func(at)] =
                           @ \o Entries(at + 1, piece.slot + 1, piece.size - 1)]
          /\ m_next_offset' = m_next_offset + piece.size
     ELSE UNCHANGED <<m_table, m_next_offset>>
  /\ m_dirty' = TRUE
  /\ IF did + piece.size = length
     THEN Return
     ELSE /\ did' = did + piece.size
          /\ pc' = "put"
          /\ UNCHANGED <<callVars, piece, buffer, misread>>
  /\ UNCHANGED <<file, mountVars, answerVars, m_status, m_file, writes, commitVars>>

\* What becomes of the call when the undo file could not be written.
AfterFailure ==
  IF m_status' = "out_of_space" /\ mount_mode # "nonpersistent"
  THEN pc' = "ask" /\ UNCHANGED ioVars
  ELSE Return

failedUnchanged == UNCHANGED <<file, mountVars, answerVars, m_dirty, m_file, writes, commitVars>>

\* WriteFile fails, or succeeds with some of the blocks only and then tells how
\* many; only a new entry makes the failure known.
WriteFailed ==
  /\ pc = "write"
  /\ \E n \in 0 .. piece.size - 1 :
        /\ host' = Overwritten(host, piece.slot, n, writes)
        /\ \/ UNCHANGED m_next_offset
           \/ piece.new /\ m_next_offset' = m_next_offset + n
  /\ IF piece.new
     THEN LET h == hash_func(at)
          IN /\ m_table' = [m_table EXCEPT ![h][Len(m_table[h])].mac = INVALID]
             /\ m_status' \in {"out_of_space", "corruption"}
     ELSE UNCHANGED <<m_table, m_status>>
  /\ AfterFailure
  /\ failedUnchanged

\* Begin the commit when there is something to commit, else go on at next.
Begin(next) ==
  IF m_dirty /\ m_file
  THEN /\ pc' = "commit"
       /\ bucket' = 0 /\ index' = 1
       /\ commit' = "begun"
  ELSE /\ pc' = next
       /\ UNCHANGED <<bucket, index, commit>>

\* DLG_ASK_COMMIT_NOW: commit, and write to the image from now on.
CommitNow ==
  /\ pc = "ask"
  /\ m_status' = "healthy"
  /\ Begin("again")
  /\ UNCHANGED <<file, mountVars, answerVars, m_table, m_next_offset, m_dirty, m_file, host,
                 ioVars, writes, closing>>

NotNow ==
  /\ pc = "ask"
  /\ Return
  /\ UNCHANGED <<file, mountVars, answerVars, tableVars, writes, commitVars>>

do_it_again ==
  /\ pc = "again"
  /\ mount_mode' = "persistent"
  /\ pc' = "direct"
  /\ UNCHANGED <<file, read_only, answerVars, tableVars, ioVars, writes, commitVars>>

\* The write to the image itself, which may fail half-way.
Direct ==
  /\ pc = "direct"
  /\ \E n \in 0 .. length : file' = Stored(offset, n, writes)
  /\ Return
  /\ UNCHANGED <<mountVars, answerVars, tableVars, writes, commitVars>>

-----------------------------------------------------------------------------
(* Sys_read.                                                               *)

Sys_read ==
  /\ pc = "idle"
  /\ Called
  /\ pc' = IF mount_mode = "persistent" THEN "file" ELSE "get"
  /\ UNCHANGED <<file, mountVars, answerVars, tableVars, did, piece, buffer, misread, writes,
                 commitVars>>

Image(b, n) == [i \in 1 .. n |-> file[b + i - 1]]

Got(blocks) ==
  /\ buffer' = buffer \o blocks
  /\ did' = did + Len(blocks)
  /\ pc' = IF did' = length THEN "returned" ELSE "get"

\* Everything, from the first block on that is not found.
MutSkip == left

\* How many blocks from the one that is sought on are to be read from the image.
skip_blocks ==
  Max({n \in 1 .. left : \A k \in at + 1 .. at + n - 1 : ~ Known(k)})

readUnchanged == UNCHANGED <<file, mountVars, answerVars, tableVars, callVars, piece, writes,
                             commitVars>>

\* get_n() finds the blocks in the undo file ...
Get ==
  /\ pc = "get" /\ m_file /\ Known(at)
  /\ LET q == m_table[hash_func(at)]
         n == Neighbours(q, find_entry(at), left)
         slot == q[find_entry(at)].host
     IN Holds(slot, n) /\ Got(Piece(slot, n))
  /\ UNCHANGED misread
  /\ readUnchanged

\* ... and those it does not find, or cannot read, are taken from the image.
GetImage ==
  /\ pc = "get"
  /\ Got(Image(at, skip_blocks))
  /\ misread' = (misread \/ Known(at))
  /\ readUnchanged

\* Read straight from the image (mount_mode persistent).
ReadImage ==
  /\ pc = "file"
  /\ Got(Image(offset, length))
  /\ UNCHANGED misread
  /\ readUnchanged

\* The data is there, or reading the image failed and fewer blocks are.
ReadReturns ==
  /\ pc \in {"get", "file", "returned"}
  /\ Return
  /\ UNCHANGED <<file, mountVars, answerVars, tableVars, writes, commitVars>>

-----------------------------------------------------------------------------
(* undo_buffer::commit.                                                    *)

list == m_table[bucket]

\* The entries that are copied in one piece.
Joint == Neighbours(list, index, Joined)

stepUnchanged == UNCHANGED <<mountVars, answerVars, tableVars, pc, ioVars, writes, closing,
                             commit>>

NextBucket ==
  /\ pc = "commit" /\ bucket \in Bucket
  /\ index > Len(list)
  /\ bucket' = bucket + 1 /\ index' = 1
  /\ UNCHANGED file
  /\ stepUnchanged

Skipped ==
  /\ pc = "commit" /\ bucket \in Bucket
  /\ index \in DOMAIN list /\ list[index].mac = INVALID
  /\ index' = index + 1
  /\ UNCHANGED <<file, bucket>>
  /\ stepUnchanged

\* The image, of which n blocks are copied from the undo file.
Copied(e, n) ==
  [b \in Block |-> IF b \in e.mac .. e.mac + n - 1 THEN host[e.host + b - e.mac + 1] ELSE file[b]]

\* One entry too many is passed over.
MutCopyPiece ==
  /\ pc = "commit" /\ bucket \in Bucket
  /\ index \in DOMAIN list /\ list[index].mac # INVALID
  /\ Holds(list[index].host, Joint)
  /\ file' = Copied(list[index], Joint)
  /\ index' = index + Joint + 1
  /\ UNCHANGED bucket
  /\ stepUnchanged

CopyPiece ==
  /\ pc = "commit" /\ bucket \in Bucket
  /\ index \in DOMAIN list /\ list[index].mac # INVALID
  /\ Holds(list[index].host, Joint)
  /\ file' = Copied(list[index], Joint)
  /\ index' = index + Joint
  /\ UNCHANGED bucket
  /\ stepUnchanged

\* delete_entries(), close(): whatever the outcome.
Finish(outcome) ==
  /\ m_table' = Empty
  /\ m_next_offset' = 0 /\ m_dirty' = FALSE
  /\ m_file' = FALSE /\ host' = << >>
  /\ commit' = outcome
  /\ pc' = IF closing THEN "cleanup" ELSE "again"
  /\ bucket' = 0 /\ index' = 1
  /\ UNCHANGED <<mountVars, answerVars, m_status, ioVars, writes, closing>>

CommitDone ==
  /\ pc = "commit" /\ bucket \notin Bucket
  /\ Finish("done")
  /\ UNCHANGED file

\* The undo file cannot be read, or the image takes some of the blocks only.
CommitFailed ==
  /\ pc = "commit" /\ bucket \in Bucket
  /\ index \in DOMAIN list /\ list[index].mac # INVALID
  /\ \/ UNCHANGED file
     \/ /\ Holds(list[index].host, Joint)
        /\ \E n \in 1 .. Joint - 1 : file' = Copied(list[index], n)
  /\ Finish("failed")

-----------------------------------------------------------------------------
(* Quitting.                                                               *)

\* The images closed before this one may have been answered for all.
Closing ==
  /\ \E all \in {"yes", "no", "ask"} : yes_all' = (all = "yes") /\ no_all' = (all = "no")
  /\ pc' = "close"
  /\ offset' = 0 /\ length' = 0 /\ did' = 0 /\ piece' = NoPiece
  /\ buffer' = << >> /\ misread' = FALSE
  /\ UNCHANGED <<file, mountVars, tableVars, writes, commitVars>>

\* EMUL_OP_SHUTDOWN: the CPU thread ends itself and posts the rest.
Shutdown ==
  /\ pc = "idle"
  /\ is_shutting_down' = TRUE
  /\ Closing

\* QuitEmulator() on the window thread terminates the CPU thread.
KillCPU ==
  /\ \/ pc \in {"idle", "put", "write", "ask", "again", "direct", "get", "file"}
     \/ pc = "commit" /\ ~ closing
  /\ UNCHANGED is_shutting_down
  /\ Closing

is_commit_needed ==
  /\ m_dirty
  /\ \/ ~ no_all /\ mount_mode \in {"undoable", "undoable_auto"}
     \/ is_shutting_down /\ mount_mode = "undoable_auto"

\* The user's answers, or the one that is taken for granted.
Answers ==
  IF yes_all THEN {"yes_all"}
  ELSE IF is_shutting_down /\ mount_mode = "undoable_auto" THEN {"yes"}
  ELSE {"yes", "no", "yes_all", "no_all"}

\* Sys_close(): Sys_commit_if_needed() and undo_cleanup().
Sys_close ==
  /\ pc = "close"
  /\ IF mount_mode # "persistent" /\ is_commit_needed /\ m_status = "healthy"
     THEN \E answer \in Answers :
            /\ IF answer \in {"yes", "yes_all"}
               THEN Begin("cleanup") /\ closing' = TRUE
               ELSE pc' = "cleanup" /\ UNCHANGED commitVars
            /\ no_all' = (no_all \/ answer = "no_all")
            /\ yes_all' = (yes_all \/ answer = "yes_all")
     ELSE pc' = "cleanup" /\ UNCHANGED <<yes_all, no_all, commitVars>>
  /\ UNCHANGED <<file, mountVars, is_shutting_down, tableVars, ioVars, writes>>

\* The file_handle is deleted, with the undo_buffer in it.
Gone ==
  /\ pc' = "closed"
  /\ m_table' = Empty /\ m_next_offset' = 0 /\ m_dirty' = FALSE
  /\ m_file' = FALSE /\ host' = << >>
  /\ offset' = 0 /\ length' = 0 /\ did' = 0 /\ piece' = NoPiece
  /\ buffer' = << >> /\ misread' = FALSE
  /\ bucket' = 0 /\ index' = 1
  /\ UNCHANGED <<file, mountVars, answerVars, m_status, writes, closing, commit>>

undo_cleanup == pc = "cleanup" /\ Gone

\* The host stops.
Crash == pc # "closed" /\ Gone

Next ==
  \/ Sys_write \/ Put \/ Written \/ WriteFailed \/ CommitNow \/ NotNow \/ do_it_again \/ Direct
  \/ Sys_read \/ Get \/ GetImage \/ ReadImage \/ ReadReturns
  \/ NextBucket \/ Skipped \/ CopyPiece \/ CommitDone \/ CommitFailed
  \/ Shutdown \/ KillCPU \/ Sys_close \/ undo_cleanup \/ Crash

Spec == Init /\ [][Next]_vars

-----------------------------------------------------------------------------
(* Properties.                                                             *)

Tables == [Bucket -> Seq(Entry)]

\* The type invariant.
TypeOK ==
  /\ file \in [Block -> Data]
  /\ mount_mode \in Modes /\ read_only \in BOOLEAN
  /\ yes_all \in BOOLEAN /\ no_all \in BOOLEAN /\ is_shutting_down \in BOOLEAN
  /\ m_table \in Tables
  /\ m_next_offset \in Nat /\ m_status \in Statuses
  /\ m_dirty \in BOOLEAN /\ m_file \in BOOLEAN
  /\ host \in Seq(Data)
  /\ pc \in {"idle", "put", "write", "ask", "again", "direct", "get", "file", "returned",
             "commit", "close", "cleanup", "closed"}
  /\ offset \in Block /\ length \in 0 .. NBlocks - offset /\ did \in 0 .. length
  /\ piece \in [slot : Nat, size : Nat, new : BOOLEAN]
  /\ buffer \in Seq(Data) /\ misread \in BOOLEAN
  /\ writes \in Data
  /\ bucket \in 0 .. NBuckets /\ index \in Nat \ {0}
  /\ closing \in BOOLEAN
  /\ commit \in {"none", "begun", "done", "failed"}

\* The table is exact: every block has one entry at most, in the list its hash
\* tells, every entry a place of its own in the undo file, and what is written
\* there is all there, the one entry excepted that put_n is about to fill
\* (undo_buffer::put_n; the lists outlive a failed write and a killed thread).
AllEntries == {p \in Bucket \X (1 .. NBlocks + 1) : p[2] \in DOMAIN m_table[p[1]]}
EntryAt(p) == m_table[p[1]][p[2]]
Valid == {p \in AllEntries : EntryAt(p).mac # INVALID}

TableIsExact ==
  /\ \A p \in Valid : p[1] = hash_func(EntryAt(p).mac)
  /\ \A p, q \in Valid : p # q => /\ EntryAt(p).mac # EntryAt(q).mac
                                  /\ EntryAt(p).host # EntryAt(q).host
  /\ \A p \in Valid : EntryAt(p).host < m_next_offset \/ ~ Holds(EntryAt(p).host, 1)
  /\ Cardinality({p \in Valid : ~ Holds(EntryAt(p).host, 1)}) <= 1

\* The disk as the Mac sees it: the undo file over the image.
View == [b \in Block |->
           IF m_file /\ Known(b) /\ Holds(m_table[hash_func(b)][find_entry(b)].host, 1)
           THEN host[m_table[hash_func(b)][find_entry(b)].host + 1]
           ELSE file[b]]

\* What Sys_read returns is what the disk holds, unless the undo file could not
\* be read: then undoable_read takes the block of the image instead.
ReadsAreCurrent ==
  ~ misread =>
    \A i \in DOMAIN buffer : buffer[i] = View[offset + i - 1]

\* The image with its undo file as the disk of Volume.
Phase == IF pc = "closed" THEN "closed"
         ELSE IF commit = "begun" THEN "saving"
         ELSE IF m_file /\ mount_mode # "persistent" THEN "overlay"
         ELSE "direct"
Torn == commit = "failed" \/ (commit = "begun" /\ pc = "closed")

Disk == INSTANCE Volume WITH view <- View, phase <- Phase, torn <- Torn

\* The image with its undo file behaves like the disk of Volume: what the Mac
\* has written it reads, the image file changes only when the user says so, then
\* gets everything, and the rest is torn openly (undo_buffer::commit, Sys_write,
\* Sys_close, with the CPU thread killed anywhere and the host refusing anything).
ImplementsVolume == Disk!Spec
=============================================================================
