-------------------------- MODULE UndoVolume_proofs --------------------------
(***************************************************************************)
(* Proofs about UndoVolume: the table of an image with an undo file is     *)
(* exact, reads return what the disk holds, and the image implements the   *)
(* disk of Volume, for any number of blocks, lists and writes.             *)
(*                                                                         *)
(* The argument is about blocks and not about places in lists: a block is  *)
(* known or not, and has a slot in the undo file when it is.  Only Lists   *)
(* is about the lists themselves.                                          *)
(***************************************************************************)
EXTENDS UndoVolume, SequenceTheorems, FiniteSetTheorems, WellFoundedInduction, TLAPS

USE SizesAreNat

-----------------------------------------------------------------------------
(* What a table t says of block b.                                         *)

PlacesIn(t, b) == {i \in DOMAIN t[hash_func(b)] : t[hash_func(b)][i].mac = b}
KnownIn(t, b) == PlacesIn(t, b) # {}
PlaceIn(t, b) == Min(PlacesIn(t, b))
SlotIn(t, b) == t[hash_func(b)][PlaceIn(t, b)].host

\* A block is in the list that its hash tells, and there once.
ListsIn(t) ==
  \A h \in Bucket : \A i \in DOMAIN t[h] :
    t[h][i].mac # INVALID =>
      /\ hash_func(t[h][i].mac) = h
      /\ \A j \in DOMAIN t[h] : t[h][j].mac = t[h][i].mac => j = i

\* No two blocks have the same slot.
OneToOneIn(t) ==
  \A b, c \in Block : KnownIn(t, b) /\ KnownIn(t, c) /\ SlotIn(t, b) = SlotIn(t, c) => b = c

-----------------------------------------------------------------------------
(* The inductive invariant.                                                *)

Slot(b) == SlotIn(m_table, b)
IsKnown(b) == KnownIn(m_table, b)
InUndo(b) == IsKnown(b) /\ Slot(b) < Len(host)

\* A call is under way, or the Mac is between two calls.
Running == pc \notin {"again", "commit", "close", "cleanup", "closed"}

\* put_n waits for the write that a new entry is for.
Adding == pc = "write" /\ piece.new

\* The undo file exists until it is committed or the image is closed.
Mounting ==
  /\ Running /\ mount_mode # "persistent" => m_file /\ commit = "none"
  /\ pc \in {"put", "write"} => mount_mode # "persistent" /\ m_status = "healthy"
  /\ pc = "ask" => mount_mode # "persistent"
  /\ pc = "again" => ~ m_dirty /\ commit # "begun"
  /\ pc \in {"direct", "file"} => mount_mode = "persistent"
  /\ pc = "commit" => commit = "begun"
  /\ commit = "begun" /\ pc # "closed" =>
       m_dirty /\ m_file /\ pc \in {"commit", "close", "cleanup"}
  /\ commit \in {"done", "failed"} => ~ m_dirty /\ ~ m_file
  /\ mount_mode = "persistent" => ~ m_dirty

\* Where a call is.
Calling ==
  /\ pc \in {"put", "write", "get", "file"} => did < length
  /\ pc \in {"idle", "close", "cleanup", "closed"} => did = 0
  /\ pc = "file" => did = 0
  /\ Len(buffer) = IF pc \in {"get", "file", "returned"} THEN did ELSE 0
  /\ pc = "write" => piece.size \in 1 .. length - did

\* Sys_close commits after the last call.
Ending == closing => did = 0 /\ pc \in {"commit", "cleanup", "closed"}

\* The slots of the blocks are those that the undo file was written to.
Undo ==
  /\ ListsIn(m_table) /\ OneToOneIn(m_table)
  /\ m_next_offset <= Len(host)
  /\ \A b \in Block : IsKnown(b) =>
       \/ Slot(b) < m_next_offset
       \/ Slot(b) = m_next_offset /\ Len(host) = m_next_offset
  /\ Running /\ mount_mode # "persistent" =>
       /\ m_status = "healthy" => Len(host) = m_next_offset
       /\ ~ Adding => \A b \in Block : IsKnown(b) => Slot(b) < m_next_offset
  /\ ~ m_dirty => \A b \in Block : ~ InUndo(b)

\* The blocks that put_n is about to write.
Putting ==
  pc = "write" =>
    IF piece.new
    THEN /\ IsKnown(at) /\ Slot(at) = piece.slot /\ piece.slot = m_next_offset
         /\ LET q == m_table[hash_func(at)] IN q # <<>> /\ q[Len(q)].mac = at
         /\ \A k \in 1 .. piece.size - 1 :
              hash_func(at + k) = hash_func(at) /\ ~ IsKnown(at + k)
    ELSE \A k \in 0 .. piece.size - 1 : IsKnown(at + k) /\ Slot(at + k) = piece.slot + k

\* What commit has passed is in the image.
Passed(b) == \/ hash_func(b) < bucket
             \/ hash_func(b) = bucket /\ PlaceIn(m_table, b) < index
Committing ==
  pc = "commit" =>
    \A b \in Block : InUndo(b) /\ Passed(b) => file[b] = host[Slot(b) + 1]

IInv == /\ TypeOK /\ Mounting /\ Calling /\ Ending /\ Undo /\ Putting /\ Committing
        /\ ReadsAreCurrent
-----------------------------------------------------------------------------
(* Numbers.                                                                *)

\* Every set of numbers that is not empty has a least one.
LEMMA LeastNumber ==
  ASSUME NEW S, S \subseteq Nat, S # {}
  PROVE  \E x \in S : \A y \in S : x <= y
<1>1. PICK x \in S : \A y \in S : ~ (<<y, x>> \in OpToRel(<, Nat))
  BY WFMin, NatLessThanWellFounded
<1>2. ASSUME NEW y \in S PROVE x <= y
  <2>1. <<y, x>> \in Nat \X Nat /\ <<y, x>>[1] = y /\ <<y, x>>[2] = x
    OBVIOUS
  <2>2. y < x => <<y, x>> \in OpToRel(<, Nat)
    BY <2>1, Zenon DEF OpToRel
  <2>3. ~ (y < x)
    BY <1>1, <1>2, <2>2, Zenon
  <2>4. y \in Nat /\ x \in Nat
    OBVIOUS
  <2>5. QED
    BY <2>3, <2>4
<1>3. QED
  BY <1>2

\* What is true from 0 on, and of the next whenever of one, is true of all.
LEMMA Upwards ==
  ASSUME NEW n \in Nat, NEW S, n > 0 => 0 \in S,
         \A k \in 0 .. n - 1 : k \in S /\ k + 1 < n => k + 1 \in S
  PROVE  0 .. n - 1 \subseteq S
<1> DEFINE T == {k \in 0 .. n - 1 : k \notin S}
<1>1. SUFFICES ASSUME T # {} PROVE FALSE
  OBVIOUS
<1>2. T \subseteq Nat
  OBVIOUS
<1> HIDE DEF T
<1>3. PICK x \in T : \A y \in T : x <= y
  BY <1>1, <1>2, LeastNumber
<1>4. x # 0 /\ x \in 0 .. n - 1
  BY DEF T
<1>5. x - 1 \in 0 .. n - 1 /\ x - 1 \notin T
  BY <1>2, <1>3, <1>4
<1>6. QED
  BY <1>4, <1>5 DEF T

\* Max of a set of numbers up to a limit.
LEMMA MaxUpTo ==
  ASSUME NEW limit \in Nat, NEW S, S \subseteq 1 .. limit, S # {}
  PROVE  Max(S) \in S /\ \A y \in S : y <= Max(S)
<1> DEFINE T == {limit - x : x \in S}
<1>1. T \subseteq Nat /\ T # {}
  OBVIOUS
<1>2. PICK z \in T : \A y \in T : z <= y
  BY <1>1, LeastNumber
<1>3. PICK x \in S : z = limit - x
  BY <1>2
<1>4. ASSUME NEW y \in S PROVE y <= x
  <2>1. limit - y \in T
    OBVIOUS
  <2>2. z <= limit - y
    BY <2>1, <1>2
  <2>3. QED
    BY <2>2, <1>3
<1>5. \E x0 \in S : \A y \in S : x0 >= y
  BY <1>4
<1>6. QED
  BY <1>5 DEF Max

LEMMA MinOfOne == ASSUME NEW i \in Nat PROVE Min({i}) = i
<1>1. \E x \in {i} : \A y \in {i} : x <= y
  OBVIOUS
<1>2. QED
  BY <1>1 DEF Min

LEMMA HashRange == \A b \in Nat : hash_func(b) \in Bucket
  BY DEF hash_func, Bucket

-----------------------------------------------------------------------------
(* The lists.                                                              *)

\* An entry is where its block is looked for.
LEMMA Found ==
  ASSUME NEW t \in Tables, ListsIn(t), NEW h \in Bucket, NEW i \in DOMAIN t[h],
         t[h][i].mac # INVALID
  PROVE  /\ t[h][i].mac \in Block /\ hash_func(t[h][i].mac) = h
         /\ KnownIn(t, t[h][i].mac) /\ PlaceIn(t, t[h][i].mac) = i
         /\ SlotIn(t, t[h][i].mac) = t[h][i].host
<1> DEFINE b == t[h][i].mac
<1>1. t[h] \in Seq(Entry) /\ i \in Nat /\ t[h][i] \in Entry
  BY DEF Tables
<1>2. b \in Block
  BY <1>1 DEF Entry
<1>3. hash_func(b) = h /\ \A j \in DOMAIN t[h] : t[h][j].mac = b => j = i
  BY DEF ListsIn
<1>4. PlacesIn(t, b) = {i}
  BY <1>3 DEF PlacesIn
<1>5. QED
  BY <1>1, <1>2, <1>3, <1>4, MinOfOne DEF KnownIn, PlaceIn, SlotIn

\* A known block has an entry.
LEMMA KnownHasEntry ==
  ASSUME NEW t \in Tables, ListsIn(t), NEW b \in Block, KnownIn(t, b)
  PROVE  /\ hash_func(b) \in Bucket
         /\ PlaceIn(t, b) \in DOMAIN t[hash_func(b)] /\ PlaceIn(t, b) \in Nat \ {0}
         /\ t[hash_func(b)][PlaceIn(t, b)] \in Entry
         /\ t[hash_func(b)][PlaceIn(t, b)].mac = b
         /\ t[hash_func(b)][PlaceIn(t, b)].host = SlotIn(t, b)
         /\ SlotIn(t, b) \in Nat
<1>1. hash_func(b) \in Bucket
  BY HashRange DEF Block
<1>2. PICK i \in DOMAIN t[hash_func(b)] : t[hash_func(b)][i].mac = b
  BY DEF KnownIn, PlacesIn
<1>3. b # INVALID
  BY DEF Block, INVALID
<1>4. PlaceIn(t, b) = i
  BY <1>1, <1>2, <1>3, Found
<1>5. t[hash_func(b)] \in Seq(Entry) /\ i \in Nat \ {0} /\ t[hash_func(b)][i] \in Entry
  BY <1>1, <1>2 DEF Tables
<1>6. QED
  BY <1>1, <1>2, <1>4, <1>5 DEF SlotIn, Entry

\* The entries that are neighbours on both sides.
LEMMA NeighboursJoin ==
  ASSUME NEW q \in Seq(Entry), NEW i \in DOMAIN q, NEW limit \in Nat \ {0}
  PROVE  LET n == Neighbours(q, i, limit)
         IN  /\ n \in 1 .. limit
             /\ \A k \in 0 .. n - 1 : /\ i + k \in DOMAIN q
                                      /\ q[i + k].host = q[i].host + k
                                      /\ q[i + k].mac = q[i].mac + k
<1> DEFINE S == {n \in 1 .. limit :
                   /\ i + n - 1 \in DOMAIN q
                   /\ \A k \in i .. i + n - 2 : /\ q[k+1].host = q[k].host + 1
                                                /\ q[k+1].mac = q[k].mac + 1}
           n == Neighbours(q, i, limit)
<1>1. S \subseteq 1 .. limit /\ n = Max(S)
  BY DEF Neighbours
<1>2. 1 \in S
  OBVIOUS
<1>3. n \in S
  BY <1>1, <1>2, MaxUpTo
<1>4. /\ n \in 1 .. limit /\ i + n - 1 \in DOMAIN q
      /\ \A k \in i .. i + n - 2 : /\ q[k+1].host = q[k].host + 1
                                   /\ q[k+1].mac = q[k].mac + 1
  BY <1>3
<1>5. n \in Nat /\ n >= 1 /\ i \in Nat /\ i \in 1 .. Len(q)
  BY <1>4
<1> HIDE DEF n, S
<1>6. \A j \in DOMAIN q : q[j] \in Entry
  BY SMT
<1>7. \A e \in Entry : e.host \in Nat /\ e.mac \in Nat
  BY DEF Entry, Block, INVALID
<1>8. \A k \in 0 .. n - 1 : i + k \in DOMAIN q /\ i + k \in Nat
  BY <1>4, <1>5
<1> DEFINE T == {k \in Nat : /\ q[i + k].host = q[i].host + k
                             /\ q[i + k].mac = q[i].mac + k}
<1>9. 0 \in T
  BY <1>5, <1>6, <1>7
<1>10. ASSUME NEW k \in 0 .. n - 1, k \in T /\ k + 1 < n PROVE k + 1 \in T
  <2> DEFINE j == i + k
  <2>1. j \in i .. i + n - 2 /\ j \in Nat /\ k \in Nat
    BY <1>5, <1>10
  <2>2. q[j + 1].host = q[j].host + 1 /\ q[j + 1].mac = q[j].mac + 1
    BY <1>4, <2>1
  <2>3. q[j].host = q[i].host + k /\ q[j].mac = q[i].mac + k
    BY <1>10
  <2>4. j + 1 = i + (k + 1) /\ k + 1 \in Nat
    BY <1>5, <2>1
  <2>5. q[i].host \in Nat /\ q[i].mac \in Nat
    BY <1>5, <1>6, <1>7
  <2> HIDE DEF j
  <2>6. \A a \in Nat : (a + k) + 1 = a + (k + 1)
    BY <2>1
  <2>7. q[j + 1].host = q[i].host + (k + 1) /\ q[j + 1].mac = q[i].mac + (k + 1)
    BY <2>2, <2>3, <2>5, <2>6, Zenon
  <2>8. QED
    BY <2>4, <2>7
<1> HIDE DEF T
<1>11. 0 .. n - 1 \subseteq T
  BY <1>5, <1>9, <1>10, Upwards
<1>12. QED
  BY <1>4, <1>8, <1>11 DEF n, T

\* The run of blocks that put_n adds.
LEMMA FreshRun ==
  ASSUME NEW b \in Nat, NEW limit \in Nat \ {0}
  PROVE  /\ Fresh(b, limit) \in 1 .. limit
         /\ \A k \in 1 .. Fresh(b, limit) - 1 : /\ hash_func(b + k) = hash_func(b)
                                                /\ ~ IsKnown(b + k)
<1> DEFINE S == {n \in 1 .. limit :
                   \A k \in b + 1 .. b + n - 1 : hash_func(k) = hash_func(b) /\ ~ Known(k)}
<1>1. S \subseteq 1 .. limit /\ Fresh(b, limit) = Max(S)
  BY DEF Fresh
<1>2. 1 \in S
  OBVIOUS
<1>3. Fresh(b, limit) \in S
  BY <1>1, <1>2, MaxUpTo
<1>4. \A k \in Nat : Known(k) <=> IsKnown(k)
  BY DEF Known, Places, IsKnown, KnownIn, PlacesIn
<1>5. ASSUME NEW k \in 1 .. Fresh(b, limit) - 1
      PROVE  hash_func(b + k) = hash_func(b) /\ ~ IsKnown(b + k)
  <2>1. b + k \in b + 1 .. b + Fresh(b, limit) - 1 /\ b + k \in Nat
    BY <1>1, <1>3
  <2>2. QED
    BY <1>3, <1>4, <2>1
<1>6. QED
  BY <1>1, <1>3, <1>5

\* The blocks that get_n leaves to the image.
LEMMA SkipRun ==
  ASSUME at \in Nat, left \in Nat \ {0}
  PROVE  /\ skip_blocks \in 1 .. left
         /\ \A k \in 1 .. skip_blocks - 1 : ~ IsKnown(at + k)
<1> DEFINE S == {n \in 1 .. left : \A k \in at + 1 .. at + n - 1 : ~ Known(k)}
<1> HIDE DEF at, left
<1>1. S \subseteq 1 .. left /\ skip_blocks = Max(S)
  BY DEF skip_blocks
<1>2. 1 \in S
  OBVIOUS
<1>3. skip_blocks \in S
  BY <1>1, <1>2, MaxUpTo
<1>4. \A k \in Nat : Known(k) <=> IsKnown(k)
  BY DEF Known, Places, IsKnown, KnownIn, PlacesIn
<1>5. ASSUME NEW k \in 1 .. skip_blocks - 1
      PROVE  ~ IsKnown(at + k)
  <2>1. at + k \in at + 1 .. at + skip_blocks - 1 /\ at + k \in Nat
    BY <1>1, <1>3
  <2>2. QED
    BY <1>3, <1>4, <2>1
<1>6. QED
  BY <1>1, <1>3, <1>5

\* No block is known to the empty table.
LEMMA EmptyTable ==
  /\ Empty \in Tables /\ ListsIn(Empty) /\ OneToOneIn(Empty)
  /\ \A b \in Block : ~ KnownIn(Empty, b)
<1>1. \A h \in Bucket : Empty[h] = << >>
  BY DEF Empty
<1>2. Empty \in Tables
  BY DEF Empty, Tables
<1>3. ListsIn(Empty)
  BY <1>1 DEF ListsIn
<1>4. \A b \in Block : ~ KnownIn(Empty, b)
  BY <1>1, HashRange DEF Block, KnownIn, PlacesIn
<1>5. QED
  BY <1>2, <1>3, <1>4 DEF OneToOneIn

\* u is t with entries for n blocks from b on, and slots from slot on.
AddedIn(t, u, b, slot, n) ==
  /\ u \in Tables /\ ListsIn(u)
  /\ \A c \in Block : KnownIn(u, c) <=> KnownIn(t, c) \/ c \in b .. b + n - 1
  /\ \A c \in Block : KnownIn(t, c) => SlotIn(u, c) = SlotIn(t, c)
  /\ \A c \in b .. b + n - 1 : SlotIn(u, c) = slot + (c - b)
  /\ LET h == hash_func(b) IN n = 1 => u[h] # << >> /\ u[h][Len(u[h])].mac = b

\* Entries for a run of blocks that the table does not know.
LEMMA Added ==
  ASSUME NEW t \in Tables, ListsIn(t), NEW h \in Bucket,
         NEW b \in Nat, NEW slot \in Nat, NEW n \in Nat, b + n <= NBlocks,
         \A c \in b .. b + n - 1 : hash_func(c) = h /\ ~ KnownIn(t, c)
  PROVE  AddedIn(t, [t EXCEPT ![h] = t[h] \o Entries(b, slot, n)], b, slot, n)
<1> DEFINE E == Entries(b, slot, n)
           q == t[h]
           L == Len(q)
           u == [t EXCEPT ![h] = q \o E]
           New == b .. b + n - 1
<1>1. q \in Seq(Entry) /\ L \in Nat
  BY LenProperties DEF Tables
<1>2. /\ E \in Seq(Entry) /\ Len(E) = n
      /\ \A i \in 1 .. n : E[i].mac = b + i - 1 /\ E[i].host = slot + i - 1
  BY DEF Entries, Entry, Block, INVALID
<1>3. \A c \in New : c \in Block /\ c # INVALID
  BY DEF Block, INVALID
<1> HIDE DEF E
<1>4. /\ q \o E \in Seq(Entry) /\ Len(q \o E) = L + n
      /\ \A i \in 1 .. L + n : (q \o E)[i] = IF i <= L THEN q[i] ELSE E[i - L]
  BY <1>1, <1>2, ConcatProperties
<1>5. /\ u \in Tables
      /\ u[h] = q \o E
      /\ \A g \in Bucket : g # h => u[g] = t[g]
  BY <1>4 DEF Tables
<1> DEFINE r == u[h]
<1>6. /\ r \in Seq(Entry) /\ Len(r) = L + n /\ DOMAIN r = 1 .. L + n /\ DOMAIN q = 1 .. L
      /\ \A i \in 1 .. L : i \in 1 .. L + n /\ r[i] = q[i]
      /\ \A i \in L + 1 .. L + n : r[i] = E[i - L] /\ i - L \in 1 .. n
  <2>1. r = q \o E
    BY <1>5
  <2>2. r \in Seq(Entry) /\ Len(r) = L + n
    BY <1>4, <2>1
  <2>3. DOMAIN r = 1 .. L + n /\ DOMAIN q = 1 .. L
    BY <1>1, <2>2, LenProperties
  <2>4. ASSUME NEW i \in 1 .. L PROVE i \in 1 .. L + n /\ r[i] = q[i]
    <3>1. i \in 1 .. L + n /\ i <= L
      BY <1>1
    <3>2. QED
      BY <1>4, <2>1, <3>1, Zenon
  <2>5. ASSUME NEW i \in L + 1 .. L + n PROVE r[i] = E[i - L] /\ i - L \in 1 .. n
    <3>1. i \in 1 .. L + n /\ ~ (i <= L) /\ i - L \in 1 .. n
      BY <1>1
    <3>2. QED
      BY <1>4, <2>1, <3>1, Zenon
  <2>6. QED
    BY <2>2, <2>3, <2>4, <2>5
<1> HIDE DEF u, q, L
<1>7. \A i \in L + 1 .. L + n : /\ r[i].mac = b + (i - L) - 1 /\ r[i].mac \in New
                                /\ r[i].host = slot + (i - L) - 1
  <2>1. SUFFICES ASSUME NEW i \in L + 1 .. L + n
                 PROVE  /\ r[i].mac = b + (i - L) - 1 /\ r[i].mac \in New
                        /\ r[i].host = slot + (i - L) - 1
    OBVIOUS
  <2> DEFINE k == i - L
  <2>2. k \in 1 .. n /\ r[i] = E[k]
    BY <1>6
  <2> HIDE DEF k
  <2>3. r[i].mac = b + k - 1 /\ r[i].host = slot + k - 1 /\ k \in Nat
    BY <1>2, <2>2
  <2>4. b + k - 1 \in New
    BY <2>2
  <2>5. QED
    BY <2>3, <2>4 DEF k
<1>8. \A i \in 1 .. L : q[i].mac # INVALID => q[i].mac \notin New
  BY <1>1, <1>6, Found DEF q
<1>9. ListsIn(u)
  <2>1. SUFFICES ASSUME NEW g \in Bucket, NEW i \in DOMAIN u[g], u[g][i].mac # INVALID
                 PROVE  /\ hash_func(u[g][i].mac) = g
                        /\ \A j \in DOMAIN u[g] : u[g][j].mac = u[g][i].mac => j = i
    BY DEF ListsIn
  <2>2. CASE g # h
    <3>1. u[g] = t[g]
      BY <1>5, <2>2
    <3>2. QED
      BY <3>1, <2>1 DEF ListsIn
  <2>3. ASSUME g = h, i <= L
        PROVE  /\ hash_func(r[i].mac) = h
               /\ \A j \in DOMAIN r : r[j].mac = r[i].mac => j = i
    <3>1. i \in 1 .. L /\ r[i] = q[i] /\ i \in DOMAIN q
      BY <1>1, <1>6, <2>1, <2>3
    <3>2. hash_func(q[i].mac) = h /\ \A j \in DOMAIN q : q[j].mac = q[i].mac => j = i
      BY <2>1, <2>3, <3>1 DEF ListsIn, q
    <3>3. ASSUME NEW j \in DOMAIN r, r[j].mac = r[i].mac PROVE j = i
      <4>1. j \in 1 .. L + n
        BY <1>6
      <4>2. j \notin L + 1 .. L + n
        BY <1>7, <1>8, <2>1, <2>3, <3>1, <3>3
      <4>3. j \in 1 .. L
        BY <1>1, <4>1, <4>2
      <4>4. QED
        BY <1>6, <3>1, <3>2, <3>3, <4>3
    <3>4. QED
      BY <3>1, <3>2, <3>3
  <2>4. ASSUME g = h, ~ (i <= L)
        PROVE  /\ hash_func(r[i].mac) = h
               /\ \A j \in DOMAIN r : r[j].mac = r[i].mac => j = i
    <3>1. i \in L + 1 .. L + n
      BY <1>1, <1>6, <2>1, <2>4
    <3>2. r[i].mac \in New /\ r[i].mac = b + (i - L) - 1
      BY <1>7, <3>1
    <3>3. ASSUME NEW j \in DOMAIN r, r[j].mac = r[i].mac PROVE j = i
      <4>1. j \in 1 .. L + n
        BY <1>6
      <4>2. j \notin 1 .. L
        BY <1>3, <1>6, <1>8, <3>2, <3>3
      <4>3. j \in L + 1 .. L + n
        BY <1>1, <4>1, <4>2
      <4>4. b + (j - L) - 1 = b + (i - L) - 1
        BY <1>7, <3>2, <3>3, <4>3
      <4>5. j \in Int /\ i \in Int
        BY <1>1, <3>1, <4>3
      <4>6. QED
        BY <1>1, <4>4, <4>5
    <3>4. QED
      BY <3>2, <3>3
  <2>5. QED
    BY <2>1, <2>2, <2>3, <2>4
<1>10. ASSUME NEW c \in Block, KnownIn(t, c)
       PROVE  KnownIn(u, c) /\ SlotIn(u, c) = SlotIn(t, c)
  <2> DEFINE g == hash_func(c)
             i == PlaceIn(t, c)
  <2>1. /\ g \in Bucket /\ i \in DOMAIN t[g] /\ t[g][i].mac = c
        /\ t[g][i].host = SlotIn(t, c)
    BY <1>10, KnownHasEntry
  <2> HIDE DEF g, i
  <2>2. i \in DOMAIN u[g] /\ u[g][i] = t[g][i]
    BY <1>5, <1>6, <2>1 DEF q
  <2>3. c # INVALID
    BY DEF Block, INVALID
  <2>4. QED
    BY <1>5, <1>9, <2>1, <2>2, <2>3, Found
<1>11. ASSUME NEW c \in New
       PROVE  KnownIn(u, c) /\ SlotIn(u, c) = slot + (c - b)
  <2> DEFINE i == L + 1 + (c - b)
  <2>1. i \in L + 1 .. L + n /\ i - L = c - b + 1
    BY <1>1
  <2> HIDE DEF i
  <2>2. i \in DOMAIN r
    BY <1>1, <1>6, <2>1
  <2>3. r[i].mac = b + (c - b + 1) - 1 /\ r[i].host = slot + (c - b + 1) - 1
    BY <1>7, <2>1
  <2>4. b + (c - b + 1) - 1 = c /\ slot + (c - b + 1) - 1 = slot + (c - b)
    OBVIOUS
  <2>5. i \in DOMAIN u[h] /\ u[h][i].mac = c /\ u[h][i].host = slot + (c - b) /\ c # INVALID
    BY <1>3, <2>2, <2>3, <2>4
  <2>6. QED
    BY <1>5, <1>9, <2>5, Found
<1>12. ASSUME NEW c \in Block, KnownIn(u, c), c \notin New
       PROVE  KnownIn(t, c)
  <2> DEFINE g == hash_func(c)
             i == PlaceIn(u, c)
  <2>1. g \in Bucket /\ i \in DOMAIN u[g] /\ u[g][i].mac = c
    BY <1>5, <1>9, <1>12, KnownHasEntry
  <2> HIDE DEF g, i
  <2>2. c # INVALID
    BY DEF Block, INVALID
  <2>3. i \in DOMAIN t[g] /\ t[g][i].mac = c
    <3>1. CASE g # h
      BY <1>5, <2>1, <3>1
    <3>2. CASE g = h
      <4>1. i \in 1 .. L + n /\ i \notin L + 1 .. L + n
        BY <1>6, <1>7, <1>12, <2>1, <3>2
      <4>2. i \in 1 .. L
        BY <1>1, <4>1
      <4>3. QED
        BY <1>6, <2>1, <3>2, <4>2 DEF q
    <3>3. QED
      BY <3>1, <3>2
  <2>4. QED
    BY <2>1, <2>2, <2>3, Found
<1>13. n = 1 => r # << >> /\ r[Len(r)].mac = b /\ hash_func(b) = h
  BY <1>1, <1>6, <1>7
<1>14. AddedIn(t, u, b, slot, n)
  BY <1>3, <1>5, <1>9, <1>10, <1>11, <1>12, <1>13 DEF AddedIn
<1>15. QED
  BY <1>14 DEF u, q, E

\* u is t without block b.
DroppedIn(t, u, b) ==
  /\ u \in Tables /\ ListsIn(u)
  /\ \A c \in Block : KnownIn(u, c) <=> KnownIn(t, c) /\ c # b
  /\ \A c \in Block : KnownIn(u, c) => SlotIn(u, c) = SlotIn(t, c)

\* An entry that was taken back.
LEMMA Dropped ==
  ASSUME NEW t \in Tables, ListsIn(t), NEW h \in Bucket, t[h] # << >>,
         NEW b \in Block, t[h][Len(t[h])].mac = b
  PROVE  DroppedIn(t, [t EXCEPT ![h][Len(t[h])].mac = INVALID], b)
<1> DEFINE q == t[h]
           L == Len(q)
           e == [q[L] EXCEPT !.mac = INVALID]
           u == [t EXCEPT ![h][Len(t[h])].mac = INVALID]
<1>1. q \in Seq(Entry) /\ L \in DOMAIN q /\ L \in Nat /\ q[L] \in Entry
  BY LenProperties DEF Tables
<1>2. e \in Entry /\ e.mac = INVALID
  BY <1>1 DEF Entry
<1> HIDE DEF e
<1>3. [q EXCEPT ![L] = e] \in Seq(Entry)
  BY <1>1, <1>2, ExceptSeq
<1>4. u \in Tables /\ u = [t EXCEPT ![h] = [q EXCEPT ![L] = e]]
  BY <1>3 DEF Tables, e
<1>5. ASSUME NEW g \in Bucket, NEW i \in DOMAIN u[g], u[g][i].mac # INVALID
      PROVE  i \in DOMAIN t[g] /\ u[g][i] = t[g][i] /\ t[g][i].mac # INVALID
             /\ (t[g][i].mac = b => FALSE)
  <2>1. CASE g # h
    <3>1. u[g] = t[g]
      BY <1>4, <2>1 DEF Tables
    <3>2. b # INVALID /\ hash_func(b) = h
      BY <1>1, Found DEF Block, INVALID
    <3>3. QED
      BY <1>5, <2>1, <3>1, <3>2, Found
  <2>2. ASSUME g = h
        PROVE  i \in DOMAIN q /\ u[g][i] = q[i] /\ q[i].mac # b
    <3>1. u[g] = [q EXCEPT ![L] = e]
      BY <1>4, <2>2 DEF Tables
    <3>2. i # L /\ i \in DOMAIN q /\ u[g][i] = q[i]
      BY <1>1, <1>2, <1>5, <3>1
    <3>3. b # INVALID
      BY DEF Block, INVALID
    <3>4. QED
      BY <1>1, <3>2, <3>3 DEF ListsIn
  <2>3. QED
    BY <1>5, <2>1, <2>2
<1> HIDE DEF u
<1>6. ListsIn(u)
  BY <1>5 DEF ListsIn
<1>7. ASSUME NEW c \in Block, KnownIn(u, c)
      PROVE  KnownIn(t, c) /\ c # b /\ SlotIn(u, c) = SlotIn(t, c)
  <2> DEFINE g == hash_func(c)
             i == PlaceIn(u, c)
  <2>1. g \in Bucket /\ i \in DOMAIN u[g] /\ u[g][i].mac = c /\ u[g][i].host = SlotIn(u, c)
    BY <1>4, <1>6, <1>7, KnownHasEntry
  <2> HIDE DEF g, i
  <2>2. c # INVALID
    BY DEF Block, INVALID
  <2>3. i \in DOMAIN t[g] /\ t[g][i].mac = c /\ t[g][i].host = SlotIn(u, c) /\ c # b
    BY <1>5, <2>1, <2>2
  <2>4. QED
    BY <2>1, <2>2, <2>3, Found
<1>8. ASSUME NEW c \in Block, KnownIn(t, c), c # b
      PROVE  KnownIn(u, c)
  <2> DEFINE g == hash_func(c)
             i == PlaceIn(t, c)
  <2>1. g \in Bucket /\ i \in DOMAIN t[g] /\ t[g][i].mac = c
    BY <1>8, KnownHasEntry
  <2> HIDE DEF g, i
  <2>2. i \in DOMAIN u[g] /\ u[g][i].mac = c
    BY <1>1, <1>4, <1>8, <2>1 DEF u, Tables
  <2>3. i \in PlacesIn(u, c)
    BY <2>2 DEF PlacesIn, g
  <2>4. QED
    BY <2>3 DEF KnownIn
<1>9. QED
  BY <1>4, <1>6, <1>7, <1>8 DEF DroppedIn, u

-----------------------------------------------------------------------------
(* The undo file.                                                          *)

LEMMA MaxOfTwo ==
  ASSUME NEW m \in Nat, NEW n \in Nat
  PROVE  Max({m, n}) = IF m < n THEN n ELSE m
<1>1. {m, n} \subseteq Nat
  OBVIOUS
<1>2. \E x \in {m, n} : \A y \in {m, n} : x >= y
  OBVIOUS
<1>3. Max({m, n}) \in {m, n} /\ \A y \in {m, n} : Max({m, n}) >= y
  BY <1>2 DEF Max
<1> DEFINE x == Max({m, n})
<1>4. (x = m \/ x = n) /\ x >= m /\ x >= n
  BY <1>3
<1> HIDE DEF x
<1>5. x = IF m < n THEN n ELSE m
  BY <1>4
<1>6. QED
  BY <1>5 DEF x

\* g is f with n blocks written from slot on.
WrittenIn(f, g, slot, n, d) ==
  /\ g \in Seq(Data) /\ Len(g) \in Nat
  /\ Len(g) = IF Len(f) < slot + n THEN slot + n ELSE Len(f)
  /\ \A i \in slot + 1 .. slot + n : g[i] = d
  /\ \A i \in 1 .. Len(f) : i \notin slot + 1 .. slot + n => g[i] = f[i]
  /\ n = 0 => g = f

\* What is written is there, and the rest is as it was.
LEMMA HostWritten ==
  ASSUME NEW f \in Seq(Data), NEW slot \in Nat, NEW n \in Nat, NEW d \in Data,
         slot <= Len(f)
  PROVE  WrittenIn(f, Overwritten(f, slot, n, d), slot, n, d)
<1> DEFINE g == Overwritten(f, slot, n, d)
           m == IF Len(f) < slot + n THEN slot + n ELSE Len(f)
<1>1. Len(f) \in Nat /\ DOMAIN f = 1 .. Len(f) /\ \A i \in 1 .. Len(f) : f[i] \in Data
  BY LenProperties
<1>2. m = Max({Len(f), IF n = 0 THEN 0 ELSE slot + n}) /\ m \in Nat
  <2>1. (IF n = 0 THEN 0 ELSE slot + n) \in Nat
    OBVIOUS
  <2>2. Max({Len(f), IF n = 0 THEN 0 ELSE slot + n})
          = IF Len(f) < (IF n = 0 THEN 0 ELSE slot + n) THEN (IF n = 0 THEN 0 ELSE slot + n)
            ELSE Len(f)
    BY <1>1, <2>1, MaxOfTwo
  <2>3. QED
    BY <1>1, <2>2
<1> HIDE DEF m
<1>3. g = [i \in 1 .. m |-> IF i \in slot + 1 .. slot + n THEN d ELSE f[i]]
  BY <1>2 DEF Overwritten
<1>4. \A i \in 1 .. m : i \in slot + 1 .. slot + n \/ i \in 1 .. Len(f)
  BY <1>1 DEF m
<1>5. \A i \in slot + 1 .. slot + n : i \in 1 .. m
  BY <1>1 DEF m
<1>6. \A i \in 1 .. Len(f) : i \in 1 .. m
  BY <1>1 DEF m
<1> HIDE DEF g
<1>7. g \in Seq(Data) /\ Len(g) = m
  <2>1. \A i \in 1 .. m : g[i] \in Data
    BY <1>1, <1>3, <1>4
  <2>2. g \in [1 .. m -> Data]
    BY <1>3, <2>1, Zenon
  <2>3. g \in Seq(Data)
    BY <1>2, <2>2, SeqDef, Zenon
  <2>4. DOMAIN g = 1 .. m
    BY <2>2, Zenon
  <2>5. QED
    BY <1>2, <2>3, <2>4, LenProperties
<1>8. n = 0 => g = f
  <2>1. SUFFICES ASSUME n = 0 PROVE g = f
    OBVIOUS
  <2>2. slot + n = slot /\ ~ (Len(f) < slot)
    BY <1>1, <2>1
  <2>3. m = Len(f)
    BY <2>2 DEF m
  <2>4. \A i \in 1 .. m : g[i] = f[i]
    BY <1>3, <2>1
  <2>5. QED
    BY <1>1, <1>7, <2>3, <2>4, SeqEqual
<1>9. QED
  BY <1>2, <1>3, <1>5, <1>6, <1>7, <1>8 DEF WrittenIn, g, m

-----------------------------------------------------------------------------
(* What the steps of a write do, in terms of blocks.                       *)

\* The disk, with slots for places.
ViewFact ==
  /\ View \in [Block -> Data]
  /\ \A b \in Block : View[b] = IF m_file /\ InUndo(b) THEN host[Slot(b) + 1] ELSE file[b]
  /\ \A b \in Block : InUndo(b) => Slot(b) \in Nat /\ Slot(b) + 1 \in 1 .. Len(host)

LEMMA ViewIs == TypeOK /\ ListsIn(m_table) => ViewFact
<1> SUFFICES ASSUME TypeOK, ListsIn(m_table) PROVE ViewFact
  OBVIOUS
<1>1. m_table \in Tables /\ host \in Seq(Data) /\ file \in [Block -> Data]
  BY DEF TypeOK
<1>2. Len(host) \in Nat /\ \A i \in 1 .. Len(host) : host[i] \in Data
  BY <1>1, LenProperties, ElementOfSeq
<1>3. \A b : Places(b) = PlacesIn(m_table, b) /\ find_entry(b) = PlaceIn(m_table, b)
  BY DEF Places, PlacesIn, find_entry, PlaceIn
<1>4. \A b : /\ Known(b) <=> IsKnown(b)
             /\ m_table[hash_func(b)][find_entry(b)].host = Slot(b)
  BY <1>3 DEF Known, IsKnown, KnownIn, Slot, SlotIn
<1>5. \A b \in Block : IsKnown(b) => Slot(b) \in Nat
  BY <1>1, KnownHasEntry DEF IsKnown, Slot
<1>6. \A b \in Block : InUndo(b) => Slot(b) \in Nat /\ Slot(b) + 1 \in 1 .. Len(host)
  BY <1>2, <1>5 DEF InUndo
<1>7. \A b \in Block : IsKnown(b) => (Holds(Slot(b), 1) <=> Slot(b) < Len(host))
  BY <1>2, <1>5 DEF Holds
<1>8. \A b \in Block :
        View[b] = IF m_file /\ IsKnown(b) /\ Holds(Slot(b), 1) THEN host[Slot(b) + 1] ELSE file[b]
  BY <1>4, Zenon DEF View
<1>9. \A b \in Block : View[b] = IF m_file /\ InUndo(b) THEN host[Slot(b) + 1] ELSE file[b]
  BY <1>7, <1>8, Zenon DEF InUndo
<1>10. \A b \in Block : View[b] \in Data
  BY <1>1, <1>2, <1>6, <1>9
<1>11. View \in [Block -> Data]
  <2>1. View = [b \in Block |-> View[b]]
    BY Zenon DEF View
  <2>2. QED
    BY <1>10, <2>1, Zenon
<1>12. QED
  BY <1>6, <1>9, <1>11 DEF ViewFact

\* Where a call is, lies within the disk.
LEMMA Within ==
  TypeOK /\ Calling /\ pc \in {"put", "write", "get"} =>
    /\ at \in Block /\ at \in Nat /\ left \in Nat \ {0} /\ at + left <= NBlocks
    /\ hash_func(at) \in Bucket
    /\ \A k \in 0 .. left - 1 : at + k \in Block
<1> SUFFICES ASSUME TypeOK, Calling, pc \in {"put", "write", "get"}
             PROVE  /\ at \in Block /\ at \in Nat /\ left \in Nat \ {0} /\ at + left <= NBlocks
                    /\ hash_func(at) \in Bucket
                    /\ \A k \in 0 .. left - 1 : at + k \in Block
  OBVIOUS
<1>1. offset \in Block /\ length \in 0 .. NBlocks - offset /\ did \in 0 .. length
  BY DEF TypeOK
<1>2. did < length
  BY DEF Calling
<1>3. at \in Nat /\ left \in Nat \ {0} /\ at + left <= NBlocks
  BY <1>1, <1>2 DEF at, left, Block
<1> HIDE DEF at, left
<1>4. \A k \in 0 .. left - 1 : at + k \in Block
  BY <1>3 DEF Block
<1>5. QED
  BY <1>3, <1>4, HashRange DEF Block

\* put_n finds the block and its neighbours, or adds an entry for it.
PutFinds ==
  /\ ~ piece'.new /\ m_table' = m_table
  /\ \A k \in 0 .. piece'.size - 1 : IsKnown(at + k) /\ Slot(at + k) = piece'.slot + k

PutAdds ==
  /\ piece'.new /\ piece'.slot = m_next_offset
  /\ ~ IsKnown(at)
  /\ m_table' \in Tables /\ ListsIn(m_table')
  /\ \A c \in Block : KnownIn(m_table', c) <=> IsKnown(c) \/ c = at
  /\ \A c \in Block : IsKnown(c) => SlotIn(m_table', c) = Slot(c)
  /\ SlotIn(m_table', at) = m_next_offset
  /\ LET q == m_table'[hash_func(at)] IN q # << >> /\ q[Len(q)].mac = at
  /\ \A k \in 1 .. piece'.size - 1 : /\ hash_func(at + k) = hash_func(at)
                                     /\ ~ IsKnown(at + k) /\ at + k \in Block

LEMMA PutStep ==
  IInv /\ Put =>
    /\ at \in Block
    /\ piece' \in [slot : Nat, size : Nat, new : BOOLEAN] /\ piece'.size \in 1 .. left
    /\ PutFinds \/ PutAdds
<1> SUFFICES ASSUME IInv, Put
             PROVE  /\ at \in Block
                    /\ piece' \in [slot : Nat, size : Nat, new : BOOLEAN]
                    /\ piece'.size \in 1 .. left
                    /\ PutFinds \/ PutAdds
  OBVIOUS
<1> DEFINE h == hash_func(at)
           q == m_table[h]
<1>1. /\ at \in Block /\ at \in Nat /\ left \in Nat \ {0} /\ at + left <= NBlocks
      /\ h \in Bucket
      /\ \A k \in 0 .. left - 1 : at + k \in Block
  BY Within DEF IInv, Put
<1>2. m_table \in Tables /\ ListsIn(m_table) /\ m_next_offset \in Nat
  BY DEF IInv, TypeOK, Undo
<1>3. Places(at) = PlacesIn(m_table, at)
  BY DEF Places, PlacesIn
<1>4. find_entry(at) = PlaceIn(m_table, at) /\ (Known(at) <=> IsKnown(at))
  BY <1>3 DEF find_entry, PlaceIn, Known, IsKnown, KnownIn
<1>5. ASSUME Known(at)
      PROVE  /\ piece' \in [slot : Nat, size : Nat, new : BOOLEAN]
             /\ piece'.size \in 1 .. left /\ PutFinds
  <2> DEFINE i == find_entry(at)
             n == Neighbours(q, i, left)
  <2>1. piece' = [slot |-> q[i].host, new |-> FALSE, size |-> n] /\ m_table' = m_table
    BY <1>5 DEF Put
  <2>2. KnownIn(m_table, at)
    BY <1>4, <1>5 DEF IsKnown
  <2>3. i \in DOMAIN q /\ q[i].mac = at /\ q[i].host = Slot(at) /\ Slot(at) \in Nat
    BY <1>1, <1>2, <1>4, <2>2, KnownHasEntry DEF Slot
  <2>4. q \in Seq(Entry)
    BY <1>1, <1>2 DEF Tables
  <2> HIDE DEF i, n, h, q
  <2>5. /\ n \in 1 .. left
        /\ \A k \in 0 .. n - 1 : /\ i + k \in DOMAIN q
                                 /\ q[i + k].host = q[i].host + k
                                 /\ q[i + k].mac = q[i].mac + k
    BY <1>1, <2>3, <2>4, NeighboursJoin DEF n
  <2>6. ASSUME NEW k \in 0 .. n - 1
        PROVE  IsKnown(at + k) /\ Slot(at + k) = q[i].host + k
    <3>1. i + k \in DOMAIN q /\ q[i + k].host = q[i].host + k /\ q[i + k].mac = at + k
      BY <2>3, <2>5
    <3>2. at + k \in Block
      BY <1>1, <2>5
    <3>3. at + k # INVALID
      BY <3>2 DEF Block, INVALID
    <3>4. KnownIn(m_table, at + k) /\ SlotIn(m_table, at + k) = q[i].host + k
      BY <1>1, <1>2, <3>1, <3>3, Found DEF q
    <3>5. QED
      BY <3>4 DEF IsKnown, Slot
  <2>7. n \in Nat /\ n \in 1 .. left
    BY <1>1, <2>5
  <2>8. QED
    BY <2>1, <2>3, <2>6, <2>7 DEF PutFinds
<1>6. ASSUME ~ Known(at)
      PROVE  /\ piece' \in [slot : Nat, size : Nat, new : BOOLEAN]
             /\ piece'.size \in 1 .. left /\ PutAdds
  <2> DEFINE n == Fresh(at, left)
  <2>1. /\ piece' = [slot |-> m_next_offset, new |-> TRUE, size |-> n]
        /\ m_table' = [m_table EXCEPT ![h] = m_table[h] \o Entries(at, m_next_offset, 1)]
    BY <1>6 DEF Put
  <2>2. /\ n \in 1 .. left
        /\ \A k \in 1 .. n - 1 : hash_func(at + k) = h /\ ~ IsKnown(at + k)
    BY <1>1, FreshRun
  <2>3. \A c \in at .. at + 1 - 1 : c = at /\ hash_func(c) = h /\ ~ KnownIn(m_table, c)
    BY <1>1, <1>4, <1>6 DEF IsKnown
  <2>4. 1 \in Nat /\ at + 1 <= NBlocks
    BY <1>1
  <2>5. at \in at .. at + 1 - 1 /\ m_next_offset + (at - at) = m_next_offset
    BY <1>1, <1>2
  <2> HIDE DEF n, h
  <2>6. /\ m_table' \in Tables /\ ListsIn(m_table')
        /\ \A c \in Block : KnownIn(m_table', c) <=> KnownIn(m_table, c) \/ c \in at .. at + 1 - 1
        /\ \A c \in Block : KnownIn(m_table, c) => SlotIn(m_table', c) = SlotIn(m_table, c)
        /\ \A c \in at .. at + 1 - 1 : SlotIn(m_table', c) = m_next_offset + (c - at)
        /\ m_table'[h] # << >> /\ m_table'[h][Len(m_table'[h])].mac = at
    <3>1. \A c \in at .. at + 1 - 1 : hash_func(c) = h /\ ~ KnownIn(m_table, c)
      BY <2>3
    <3>2. /\ m_table \in Tables /\ ListsIn(m_table) /\ h \in Bucket /\ at \in Nat
          /\ m_next_offset \in Nat /\ 1 \in Nat /\ at + 1 <= NBlocks
      BY <1>1, <1>2, <2>4
    <3>3. AddedIn(m_table, m_table', at, m_next_offset, 1)
      BY <2>1, <3>1, <3>2, Added
    <3>4. QED
      BY <3>3 DEF AddedIn, h
  <2>7. \A c \in Block : KnownIn(m_table', c) <=> IsKnown(c) \/ c = at
    BY <2>3, <2>5, <2>6 DEF IsKnown
  <2>8. /\ \A c \in Block : IsKnown(c) => SlotIn(m_table', c) = Slot(c)
        /\ SlotIn(m_table', at) = m_next_offset
    BY <2>5, <2>6 DEF IsKnown, Slot
  <2>9. \A k \in 1 .. n - 1 : at + k \in Block
    BY <1>1, <2>2
  <2>10. /\ piece' \in [slot : Nat, size : Nat, new : BOOLEAN]
         /\ piece'.size = n /\ piece'.slot = m_next_offset /\ piece'.new /\ n \in 1 .. left
    BY <1>1, <1>2, <2>1, <2>2
  <2>11. PutAdds
    BY <1>4, <1>6, <2>2, <2>6, <2>7, <2>8, <2>9, <2>10 DEF PutAdds, h
  <2>12. QED
    BY <2>10, <2>11
<1>7. QED
  BY <1>1, <1>5, <1>6

\* The blocks from at on are written to the undo file, n of them completely.
HostTakes(n) ==
  /\ m_table' \in Tables /\ ListsIn(m_table') /\ OneToOneIn(m_table')
  /\ host' \in Seq(Data)
  /\ m_next_offset' \in Nat /\ m_next_offset' <= Len(host')
  /\ \A c \in Block : KnownIn(m_table', c) => SlotIn(m_table', c) < m_next_offset'
  /\ \A c \in at .. at + n - 1 : /\ KnownIn(m_table', c)
                                 /\ SlotIn(m_table', c) < Len(host')
                                 /\ host'[SlotIn(m_table', c) + 1] = writes
  /\ \A c \in Block : c \notin at .. at + n - 1 =>
       /\ KnownIn(m_table', c) /\ SlotIn(m_table', c) < Len(host') <=> InUndo(c)
       /\ InUndo(c) => /\ SlotIn(m_table', c) = Slot(c)
                       /\ host'[Slot(c) + 1] = host[Slot(c) + 1]

\* Before the write.
Ready ==
  /\ at \in Block /\ at \in Nat /\ hash_func(at) \in Bucket
  /\ \A k \in 0 .. piece.size - 1 : at + k \in Block
  /\ at + piece.size <= NBlocks
  /\ piece.size \in Nat \ {0} /\ piece.slot \in Nat /\ piece.new \in BOOLEAN
  /\ m_table \in Tables /\ ListsIn(m_table) /\ OneToOneIn(m_table)
  /\ host \in Seq(Data) /\ Len(host) \in Nat /\ writes \in Data
  /\ m_next_offset = Len(host)
  /\ \A c \in Block : IsKnown(c) => Slot(c) \in Nat /\ Slot(c) <= Len(host)
  /\ ~ piece.new => \A c \in Block : IsKnown(c) => Slot(c) < Len(host)

LEMMA WriteIsReady == IInv /\ pc = "write" => Ready
<1> SUFFICES ASSUME IInv, pc = "write" PROVE Ready
  OBVIOUS
<1>1. /\ at \in Block /\ at \in Nat /\ left \in Nat \ {0} /\ at + left <= NBlocks
      /\ hash_func(at) \in Bucket
      /\ \A k \in 0 .. left - 1 : at + k \in Block
  BY Within DEF IInv
<1>2. piece.size \in 1 .. left
  BY DEF IInv, Calling, left
<1>3. /\ piece.slot \in Nat /\ piece.new \in BOOLEAN /\ m_table \in Tables
      /\ host \in Seq(Data) /\ writes \in Data /\ m_next_offset \in Nat
  BY DEF IInv, TypeOK
<1>4. ListsIn(m_table) /\ OneToOneIn(m_table)
  BY DEF IInv, Undo
<1>5. Running /\ mount_mode # "persistent" /\ m_status = "healthy"
  BY DEF IInv, Mounting, Running
<1>6. m_next_offset = Len(host) /\ Len(host) \in Nat
  BY <1>3, <1>5 DEF IInv, Undo
<1>7. ~ piece.new => \A c \in Block : IsKnown(c) => Slot(c) < Len(host)
  BY <1>5, <1>6 DEF IInv, Undo, Adding
<1>8. \A c \in Block : IsKnown(c) => Slot(c) \in Nat /\ Slot(c) <= Len(host)
  <2>1. ASSUME NEW c \in Block, IsKnown(c) PROVE Slot(c) \in Nat /\ Slot(c) <= Len(host)
    <3>1. Slot(c) \in Nat
      BY <1>3, <1>4, <2>1, KnownHasEntry DEF IsKnown, Slot
    <3>2. Slot(c) < m_next_offset \/ Slot(c) = m_next_offset
      BY <2>1 DEF IInv, Undo
    <3>3. QED
      BY <1>6, <3>1, <3>2
  <2>2. QED
    BY <2>1
<1> HIDE DEF at, left
<1>9. /\ \A k \in 0 .. piece.size - 1 : at + k \in Block
      /\ at + piece.size <= NBlocks /\ piece.size \in Nat \ {0}
  BY <1>1, <1>2
<1>10. QED
  BY <1>1, <1>3, <1>4, <1>6, <1>7, <1>8, <1>9 DEF Ready

\* The blocks from at on had no entries, or at's only.
LEMMA NewTakes ==
  ASSUME Ready, IsKnown(at), Slot(at) = piece.slot, piece.slot = m_next_offset,
         NEW n \in Nat, n >= 1,
         host' = Overwritten(host, piece.slot, n, writes),
         AddedIn(m_table, m_table', at + 1, piece.slot + 1, n - 1),
         \A k \in 1 .. n - 1 : ~ IsKnown(at + k),
         at + n <= NBlocks,
         m_next_offset' = m_next_offset + n
  PROVE  HostTakes(n) /\ Len(host') = m_next_offset'
<1>1. /\ at \in Block /\ at \in Nat /\ piece.slot \in Nat /\ host \in Seq(Data)
      /\ Len(host) \in Nat /\ writes \in Data /\ m_next_offset = Len(host)
      /\ OneToOneIn(m_table)
      /\ \A c \in Block : IsKnown(c) => Slot(c) \in Nat /\ Slot(c) <= Len(host)
  BY DEF Ready
<1> DEFINE a == at
           s == piece.slot
<1> HIDE DEF a
<1>2. WrittenIn(host, host', s, n, writes)
  BY <1>1, HostWritten
<1>3. /\ host' \in Seq(Data) /\ Len(host') = s + n
      /\ \A i \in s + 1 .. s + n : host'[i] = writes
      /\ \A i \in 1 .. s : host'[i] = host[i]
  BY <1>1, <1>2 DEF WrittenIn
<1>4. /\ m_table' \in Tables /\ ListsIn(m_table')
      /\ \A c \in Block : KnownIn(m_table', c) <=> IsKnown(c) \/ c \in at + 1 .. at + 1 + (n - 1) - 1
      /\ \A c \in Block : IsKnown(c) => SlotIn(m_table', c) = Slot(c)
      /\ \A c \in at + 1 .. at + 1 + (n - 1) - 1 : SlotIn(m_table', c) = s + 1 + (c - (at + 1))
  BY DEF AddedIn, IsKnown, Slot
<1>5. /\ at + 1 + (n - 1) - 1 = at + n - 1
      /\ \A c \in at + 1 .. at + n - 1 : s + 1 + (c - (at + 1)) = s + (c - at)
  BY <1>1
<1>6. ASSUME NEW c \in at .. at + n - 1
      PROVE  c \in Block /\ KnownIn(m_table', c) /\ SlotIn(m_table', c) = s + (c - at)
  <2>1. c \in Block
    BY <1>1 DEF Block
  <2>2. CASE c = at
    BY <1>1, <1>4, <2>2
  <2>3. ASSUME c # at
        PROVE  KnownIn(m_table', c) /\ SlotIn(m_table', c) = s + (c - at)
    <3>1. c \in at + 1 .. at + n - 1
      BY <1>1, <2>3
    <3>2. QED
      BY <1>4, <1>5, <2>1, <3>1
  <2>4. QED
    BY <2>1, <2>2, <2>3
<1>7. ASSUME NEW c \in Block, c \notin at .. at + n - 1
      PROVE  /\ KnownIn(m_table', c) <=> IsKnown(c)
             /\ IsKnown(c) => /\ SlotIn(m_table', c) = Slot(c)
                              /\ Slot(c) \in Nat /\ Slot(c) < s
                              /\ host'[Slot(c) + 1] = host[Slot(c) + 1]
  <2>1. c \notin at + 1 .. at + n - 1 /\ c # at
    BY <1>1, <1>7
  <2>2. KnownIn(m_table', c) <=> IsKnown(c)
    BY <1>4, <1>5, <2>1
  <2>3. ASSUME IsKnown(c)
        PROVE  /\ SlotIn(m_table', c) = Slot(c)
               /\ Slot(c) \in Nat /\ Slot(c) < s
               /\ host'[Slot(c) + 1] = host[Slot(c) + 1]
    <3>1. Slot(c) # Slot(at)
      BY <1>1, <2>1, <2>3 DEF OneToOneIn, IsKnown, Slot
    <3>2. Slot(c) \in Nat /\ Slot(c) < s
      BY <1>1, <2>3, <3>1
    <3>3. Slot(c) + 1 \in 1 .. s
      BY <1>1, <3>2
    <3>4. QED
      BY <1>3, <1>4, <2>3, <3>2, <3>3
  <2>4. QED
    BY <2>2, <2>3
<1>8. m_next_offset' = s + n /\ m_next_offset' \in Nat
  BY <1>1
<1>9. \A c \in at .. at + n - 1 : s + (c - at) < s + n /\ s + (c - at) + 1 \in s + 1 .. s + n
  BY <1>1
<1>10. \A c \in Block : KnownIn(m_table', c) => SlotIn(m_table', c) < m_next_offset'
  <2>1. SUFFICES ASSUME NEW c \in Block, KnownIn(m_table', c)
                 PROVE  SlotIn(m_table', c) < s + n
    BY <1>8
  <2>2. CASE c \in at .. at + n - 1
    BY <1>6, <1>9, <2>2
  <2>3. CASE c \notin at .. at + n - 1
    <3>1. SlotIn(m_table', c) \in Nat /\ SlotIn(m_table', c) < s
      BY <1>7, <2>1, <2>3
    <3>2. QED
      BY <1>1, <3>1
  <2>4. QED
    BY <2>2, <2>3
<1>11. \A c \in at .. at + n - 1 : /\ SlotIn(m_table', c) < Len(host')
                                   /\ host'[SlotIn(m_table', c) + 1] = writes
  BY <1>3, <1>6, <1>9
<1>12. ASSUME NEW c \in Block, c \notin at .. at + n - 1
       PROVE  /\ KnownIn(m_table', c) /\ SlotIn(m_table', c) < Len(host') <=> InUndo(c)
              /\ InUndo(c) => /\ SlotIn(m_table', c) = Slot(c)
                              /\ host'[Slot(c) + 1] = host[Slot(c) + 1]
  <2>1. IsKnown(c) => Slot(c) < Len(host) /\ Slot(c) < s + n
    BY <1>1, <1>7, <1>12
  <2>2. QED
    BY <1>3, <1>7, <1>12, <2>1 DEF InUndo
<1>13. OneToOneIn(m_table')
  <2>1. SUFFICES ASSUME NEW b \in Block, NEW c \in Block,
                        KnownIn(m_table', b), KnownIn(m_table', c),
                        SlotIn(m_table', b) = SlotIn(m_table', c)
                 PROVE  b = c
    BY DEF OneToOneIn
  <2>2. CASE b \in at .. at + n - 1 /\ c \in at .. at + n - 1
    <3>1. s + (b - at) = s + (c - at)
      BY <1>6, <2>1, <2>2
    <3>2. QED
      BY <1>1, <2>2, <3>1
  <2>3. CASE b \in at .. at + n - 1 /\ c \notin at .. at + n - 1
    <3>1. SlotIn(m_table', c) < s /\ SlotIn(m_table', c) \in Nat
      BY <1>7, <2>1, <2>3
    <3>2. SlotIn(m_table', c) = s + (b - at)
      BY <1>6, <2>1, <2>3
    <3>3. QED
      BY <1>1, <2>3, <3>1, <3>2
  <2>4. CASE b \notin at .. at + n - 1 /\ c \in at .. at + n - 1
    <3>1. SlotIn(m_table', b) < s /\ SlotIn(m_table', b) \in Nat
      BY <1>7, <2>1, <2>4
    <3>2. SlotIn(m_table', b) = s + (c - at)
      BY <1>6, <2>1, <2>4
    <3>3. QED
      BY <1>1, <2>4, <3>1, <3>2
  <2>5. CASE b \notin at .. at + n - 1 /\ c \notin at .. at + n - 1
    BY <1>1, <1>7, <2>1, <2>5 DEF OneToOneIn, IsKnown, Slot
  <2>6. QED
    BY <2>2, <2>3, <2>4, <2>5
<1>14. m_next_offset' <= Len(host') /\ Len(host') = m_next_offset'
  BY <1>3, <1>8
<1>15. QED
  BY <1>3, <1>4, <1>6, <1>8, <1>10, <1>11, <1>12, <1>13, <1>14 DEF HostTakes

\* The blocks from at on have entries and slots.
LEMMA OldTakes ==
  ASSUME Ready, ~ piece.new,
         \A k \in 0 .. piece.size - 1 : IsKnown(at + k) /\ Slot(at + k) = piece.slot + k,
         NEW n \in 0 .. piece.size,
         host' = Overwritten(host, piece.slot, n, writes),
         m_table' = m_table,
         m_next_offset' = m_next_offset
  PROVE  HostTakes(n) /\ Len(host') = m_next_offset'
<1>1. /\ at \in Block /\ at \in Nat /\ piece.slot \in Nat /\ host \in Seq(Data)
      /\ Len(host) \in Nat /\ writes \in Data /\ m_next_offset = Len(host)
      /\ ListsIn(m_table) /\ OneToOneIn(m_table) /\ m_table \in Tables
      /\ piece.size \in Nat \ {0}
      /\ \A k \in 0 .. piece.size - 1 : at + k \in Block
      /\ \A c \in Block : IsKnown(c) => Slot(c) \in Nat /\ Slot(c) < Len(host)
  BY DEF Ready
<1> DEFINE s == piece.slot
<1>2. ASSUME NEW c \in at .. at + n - 1
      PROVE  c \in Block /\ IsKnown(c) /\ Slot(c) = s + (c - at) /\ Slot(c) < Len(host)
             /\ s + (c - at) + 1 \in s + 1 .. s + n
  <2>1. c - at \in 0 .. piece.size - 1 /\ at + (c - at) = c
    BY <1>1
  <2>2. c \in Block /\ IsKnown(c) /\ Slot(c) = s + (c - at)
    BY <1>1, <2>1
  <2>3. s + (c - at) + 1 \in s + 1 .. s + n
    BY <1>1
  <2>4. QED
    BY <1>1, <2>2, <2>3
<1>3. s + n <= Len(host) /\ s <= Len(host)
  <2>1. CASE n = 0
    <3>1. 0 \in 0 .. piece.size - 1 /\ at + 0 = at /\ s + 0 = s
      BY <1>1
    <3>2. IsKnown(at) /\ Slot(at) = s
      BY <3>1
    <3>3. s < Len(host)
      BY <1>1, <3>2
    <3>4. QED
      BY <1>1, <2>1, <3>3
  <2>2. CASE n # 0
    <3> DEFINE c == at + n - 1
    <3>1. c \in at .. at + n - 1 /\ c - at = n - 1
      BY <1>1, <2>2
    <3> HIDE DEF c
    <3>2. Slot(c) = s + (c - at) /\ Slot(c) < Len(host)
      BY <1>2, <3>1
    <3>3. s + (n - 1) < Len(host)
      BY <3>1, <3>2
    <3>4. QED
      BY <1>1, <2>2, <3>3
  <2>3. QED
    BY <2>1, <2>2
<1>4. WrittenIn(host, host', s, n, writes)
  BY <1>1, <1>3, HostWritten
<1>5. /\ host' \in Seq(Data) /\ Len(host') = Len(host)
      /\ \A i \in s + 1 .. s + n : host'[i] = writes
      /\ \A i \in 1 .. Len(host) : i \notin s + 1 .. s + n => host'[i] = host[i]
  BY <1>1, <1>3, <1>4 DEF WrittenIn
<1>6. \A c : (KnownIn(m_table', c) <=> IsKnown(c)) /\ SlotIn(m_table', c) = Slot(c)
  BY DEF IsKnown, Slot
<1>7. \A c \in at .. at + n - 1 : host'[Slot(c) + 1] = writes
  BY <1>2, <1>5
<1>8. ASSUME NEW c \in Block, c \notin at .. at + n - 1, IsKnown(c)
      PROVE  host'[Slot(c) + 1] = host[Slot(c) + 1]
  <2>1. Slot(c) \in Nat /\ Slot(c) + 1 \in 1 .. Len(host)
    BY <1>1, <1>8
  <2>2. ASSUME Slot(c) + 1 \in s + 1 .. s + n PROVE FALSE
    <3> DEFINE k == Slot(c) - s
    <3>1. k \in 0 .. n - 1 /\ s + k = Slot(c)
      <4>1. s \in Nat /\ n \in Nat /\ Slot(c) \in Nat
        BY <1>1, <2>1
      <4>2. QED
        BY <4>1, <2>2
    <3> HIDE DEF k
    <3>2. k \in 0 .. piece.size - 1 /\ at + k \in at .. at + n - 1
      <4>1. n \in Nat /\ n <= piece.size /\ at \in Nat /\ piece.size \in Nat
        BY <1>1
      <4>2. QED
        BY <4>1, <3>1
    <3>3. IsKnown(at + k) /\ Slot(at + k) = Slot(c) /\ at + k \in Block
      BY <1>1, <3>1, <3>2
    <3>4. at + k = c
      BY <1>1, <1>8, <3>3 DEF OneToOneIn, IsKnown, Slot
    <3>5. QED
      BY <1>8, <3>2, <3>4
  <2>3. QED
    BY <1>5, <2>1, <2>2
<1>9. QED
  BY <1>1, <1>2, <1>5, <1>6, <1>7, <1>8 DEF HostTakes, InUndo

LEMMA WrittenStep ==
  IInv /\ Written => /\ at \in Block /\ piece.size \in 1 .. left
                     /\ HostTakes(piece.size) /\ Len(host') = m_next_offset'
<1> SUFFICES ASSUME IInv, Written
             PROVE  /\ at \in Block /\ piece.size \in 1 .. left
                    /\ HostTakes(piece.size) /\ Len(host') = m_next_offset'
  OBVIOUS
<1>1. pc = "write" /\ host' = Overwritten(host, piece.slot, piece.size, writes)
  BY DEF Written
<1>2. Ready
  BY <1>1, WriteIsReady
<1>3. /\ at \in Block /\ at \in Nat /\ piece.size \in Nat \ {0} /\ piece.slot \in Nat
      /\ m_table \in Tables /\ ListsIn(m_table) /\ hash_func(at) \in Bucket
      /\ at + piece.size <= NBlocks
  BY <1>2 DEF Ready
<1>4. piece.size \in 1 .. left
  BY <1>1 DEF IInv, Calling, left
<1>5. ASSUME piece.new PROVE HostTakes(piece.size) /\ Len(host') = m_next_offset'
  <2> DEFINE n == piece.size
             h == hash_func(at)
  <2>1. /\ IsKnown(at) /\ Slot(at) = piece.slot /\ piece.slot = m_next_offset
        /\ \A k \in 1 .. n - 1 : hash_func(at + k) = h /\ ~ IsKnown(at + k)
    BY <1>1, <1>5 DEF IInv, Putting
  <2>2. /\ m_table' = [m_table EXCEPT ![h] = m_table[h] \o Entries(at + 1, piece.slot + 1, n - 1)]
        /\ m_next_offset' = m_next_offset + n
    BY <1>5 DEF Written
  <2> HIDE DEF n, h
  <2>3. /\ n \in Nat /\ n >= 1 /\ n - 1 \in Nat /\ at + 1 \in Nat /\ piece.slot + 1 \in Nat
        /\ at + 1 + (n - 1) <= NBlocks /\ h \in Bucket
    BY <1>3 DEF n, h
  <2>4. ASSUME NEW c \in at + 1 .. at + 1 + (n - 1) - 1
        PROVE  hash_func(c) = h /\ ~ KnownIn(m_table, c)
    <3>1. c - at \in 1 .. n - 1 /\ at + (c - at) = c
      BY <1>3, <2>3
    <3>2. QED
      BY <2>1, <3>1 DEF IsKnown
  <2>5. AddedIn(m_table, m_table', at + 1, piece.slot + 1, n - 1)
    BY <1>3, <2>2, <2>3, <2>4, Added
  <2>6. n = piece.size
    BY DEF n
  <2>7. QED
    BY <1>1, <1>2, <1>3, <2>1, <2>2, <2>3, <2>5, <2>6, NewTakes
<1>6. ASSUME ~ piece.new PROVE HostTakes(piece.size) /\ Len(host') = m_next_offset'
  <2>1. \A k \in 0 .. piece.size - 1 : IsKnown(at + k) /\ Slot(at + k) = piece.slot + k
    BY <1>1, <1>6 DEF IInv, Putting
  <2>2. m_table' = m_table /\ m_next_offset' = m_next_offset
    BY <1>6 DEF Written
  <2>3. piece.size \in 0 .. piece.size
    BY <1>3
  <2>4. QED
    BY <1>1, <1>2, <1>6, <2>1, <2>2, <2>3, OldTakes
<1>7. QED
  BY <1>3, <1>4, <1>5, <1>6

\* A write that fails takes the new entry back; of old ones some may be written.
LEMMA WriteFailedStep ==
  IInv /\ WriteFailed =>
    /\ at \in Block /\ piece.size \in 1 .. left
    /\ \E n \in 0 .. left : HostTakes(n) /\ (n > 0 => m_dirty)
    /\ m_status' = "healthy" => Len(host') = m_next_offset'
<1> SUFFICES ASSUME IInv, WriteFailed
             PROVE  /\ at \in Block /\ piece.size \in 1 .. left
                    /\ \E n \in 0 .. left : HostTakes(n) /\ (n > 0 => m_dirty)
                    /\ m_status' = "healthy" => Len(host') = m_next_offset'
  OBVIOUS
<1>1. pc = "write"
  BY DEF WriteFailed
<1>2. PICK n \in 0 .. piece.size - 1 :
        /\ host' = Overwritten(host, piece.slot, n, writes)
        /\ \/ UNCHANGED m_next_offset
           \/ piece.new /\ m_next_offset' = m_next_offset + n
  BY DEF WriteFailed
<1>3. Ready
  BY <1>1, WriteIsReady
<1>4. /\ at \in Block /\ at \in Nat /\ piece.size \in Nat \ {0} /\ piece.slot \in Nat
      /\ m_table \in Tables /\ ListsIn(m_table) /\ OneToOneIn(m_table)
      /\ hash_func(at) \in Bucket
      /\ host \in Seq(Data) /\ Len(host) \in Nat /\ writes \in Data
      /\ m_next_offset = Len(host)
      /\ \A c \in Block : IsKnown(c) => Slot(c) \in Nat /\ Slot(c) <= Len(host)
  BY <1>3 DEF Ready
<1>5. piece.size \in 1 .. left /\ left \in Nat
  BY <1>1, Within DEF IInv, Calling, left
<1>6. ASSUME piece.new
      PROVE  HostTakes(0) /\ (m_status' = "healthy" => Len(host') = m_next_offset')
  <2> DEFINE h == hash_func(at)
  <2>1. /\ IsKnown(at) /\ Slot(at) = piece.slot /\ piece.slot = m_next_offset
        /\ m_table[h] # << >> /\ m_table[h][Len(m_table[h])].mac = at
    BY <1>1, <1>6 DEF IInv, Putting
  <2>2. /\ m_table' = [m_table EXCEPT ![h][Len(m_table[h])].mac = INVALID]
        /\ m_status' # "healthy"
    BY <1>6 DEF WriteFailed
  <2> HIDE DEF h
  <2>3. h \in Bucket
    BY <1>4 DEF h
  <2>4. DroppedIn(m_table, m_table', at)
    BY <1>4, <2>1, <2>2, <2>3, Dropped
  <2>5. /\ m_table' \in Tables /\ ListsIn(m_table')
        /\ \A c \in Block : KnownIn(m_table', c) => /\ IsKnown(c) /\ c # at
                                                    /\ SlotIn(m_table', c) = Slot(c)
    BY <2>4 DEF DroppedIn, IsKnown, Slot
  <2>6. WrittenIn(host, host', piece.slot, n, writes)
    <3>1. n \in Nat /\ piece.slot <= Len(host)
      BY <1>4, <2>1
    <3>2. QED
      BY <1>2, <1>4, <3>1, HostWritten
  <2>7. /\ host' \in Seq(Data) /\ Len(host') = Len(host) + n
        /\ \A i \in 1 .. Len(host) : host'[i] = host[i]
    <3>1. \A i \in 1 .. Len(host) : i \notin piece.slot + 1 .. piece.slot + n
      BY <1>4, <2>1
    <3>2. QED
      BY <1>4, <2>1, <2>6, <3>1 DEF WrittenIn
  <2>8. m_next_offset' \in Nat /\ m_next_offset' <= Len(host') /\ Len(host) <= m_next_offset'
    BY <1>2, <1>4, <2>7
  <2>9. ASSUME NEW c \in Block, IsKnown(c), c # at
        PROVE  Slot(c) \in Nat /\ Slot(c) < Len(host) /\ Slot(c) + 1 \in 1 .. Len(host)
    <3>1. Slot(c) # Slot(at)
      BY <1>4, <2>1, <2>9 DEF OneToOneIn, IsKnown, Slot
    <3>2. QED
      BY <1>4, <2>1, <2>9, <3>1
  <2>10. \A c \in Block : KnownIn(m_table', c) => SlotIn(m_table', c) < m_next_offset'
    BY <1>4, <2>5, <2>8, <2>9
  <2>11. OneToOneIn(m_table')
    BY <1>4, <2>5 DEF OneToOneIn, IsKnown, Slot
  <2>12. ASSUME NEW c \in Block, InUndo(c)
         PROVE  c # at /\ KnownIn(m_table', c)
    <3>1. c # at
      BY <1>4, <2>1, <2>12 DEF InUndo
    <3>2. KnownIn(m_table', c)
      BY <2>4, <2>12, <3>1 DEF DroppedIn, InUndo, IsKnown
    <3>3. QED
      BY <3>1, <3>2
  <2>13. at .. at + 0 - 1 = {}
    BY <1>4
  <2>14. ASSUME NEW c \in Block
         PROVE  /\ KnownIn(m_table', c) /\ SlotIn(m_table', c) < Len(host') <=> InUndo(c)
                /\ InUndo(c) => /\ SlotIn(m_table', c) = Slot(c)
                                /\ host'[Slot(c) + 1] = host[Slot(c) + 1]
    <3>1. ASSUME KnownIn(m_table', c)
          PROVE  InUndo(c) /\ SlotIn(m_table', c) < Len(host')
      <4>1. SlotIn(m_table', c) = Slot(c) /\ Slot(c) \in Nat /\ Slot(c) < Len(host) /\ IsKnown(c)
        BY <2>5, <2>9, <3>1
      <4>2. QED
        BY <1>4, <2>7, <4>1 DEF InUndo
    <3>2. ASSUME InUndo(c)
          PROVE  /\ KnownIn(m_table', c) /\ SlotIn(m_table', c) = Slot(c)
                 /\ host'[Slot(c) + 1] = host[Slot(c) + 1]
      BY <2>5, <2>7, <2>9, <2>12, <3>2 DEF InUndo
    <3>3. QED
      BY <3>1, <3>2
  <2>15. HostTakes(0)
    BY <2>5, <2>7, <2>8, <2>10, <2>11, <2>13, <2>14 DEF HostTakes
  <2>16. QED
    BY <2>2, <2>15
<1>7. ASSUME ~ piece.new
      PROVE  HostTakes(n) /\ m_dirty /\ Len(host') = m_next_offset'
  <2>1. \A k \in 0 .. piece.size - 1 : IsKnown(at + k) /\ Slot(at + k) = piece.slot + k
    BY <1>1, <1>7 DEF IInv, Putting
  <2>2. m_table' = m_table /\ m_next_offset' = m_next_offset
    BY <1>2, <1>7 DEF WriteFailed
  <2>3. n \in 0 .. piece.size
    BY <1>4
  <2>4. m_dirty
    <3>1. 0 \in 0 .. piece.size - 1 /\ at + 0 = at
      BY <1>4
    <3>2. IsKnown(at) /\ Slot(at) < Len(host)
      BY <1>3, <1>4, <1>7, <2>1, <3>1 DEF Ready
    <3>3. QED
      BY <1>4, <3>2 DEF IInv, Undo, InUndo
  <2>5. QED
    BY <1>2, <1>3, <1>7, <2>1, <2>2, <2>3, <2>4, OldTakes
<1>8. n \in 0 .. left /\ 0 \in 0 .. left
  BY <1>4, <1>5
<1>9. QED
  BY <1>4, <1>5, <1>6, <1>7, <1>8

-----------------------------------------------------------------------------
(* What the steps of a read do.                                            *)

\* n more blocks are read, those of the disk unless the undo file fails.
Reads(n) ==
  /\ did' = did + n
  /\ buffer' \in Seq(Data) /\ Len(buffer') = did + n
  /\ \A i \in 1 .. did : buffer'[i] = buffer[i]
  /\ ~ misread' => /\ ~ misread
                   /\ \A i \in did + 1 .. did + n : buffer'[i] = View[offset + i - 1]

\* Blocks that are got are put behind those that were.
LEMMA GotMore ==
  ASSUME did \in Nat, buffer \in Seq(Data), Len(buffer) = did, offset \in Nat, NEW n \in Nat,
         NEW q, q \in [1 .. n -> Data], Got(q),
         ~ misread' => ~ misread /\ \A i \in 1 .. n : q[i] = View[at + i - 1]
  PROVE  Reads(n)
<1>1. q \in Seq(Data)
  BY SeqDef, Zenon
<1>2. Len(q) = n
  <2>1. DOMAIN q = 1 .. n
    OBVIOUS
  <2>2. QED
    BY <1>1, <2>1, LenProperties
<1>3. did' = did + n /\ buffer' = buffer \o q
  BY <1>2 DEF Got
<1>4. /\ buffer' \in Seq(Data) /\ Len(buffer') = did + n
      /\ \A i \in 1 .. did + n : buffer'[i] = IF i <= did THEN buffer[i] ELSE q[i - did]
  BY <1>1, <1>2, <1>3, ConcatProperties
<1>5. \A i \in 1 .. did : i \in 1 .. did + n /\ i <= did
  OBVIOUS
<1>6. ASSUME ~ misread', NEW i \in did + 1 .. did + n
      PROVE  buffer'[i] = View[offset + i - 1]
  <2> DEFINE k == i - did
  <2>1. i \in 1 .. did + n /\ ~ (i <= did) /\ k \in 1 .. n
    OBVIOUS
  <2>2. at + k - 1 = offset + i - 1
    BY DEF at
  <2>3. buffer'[i] = q[k]
    BY <1>4, <2>1
  <2> HIDE DEF k
  <2>4. q[k] = View[at + k - 1]
    BY <1>6, <2>1
  <2>5. QED
    BY <2>2, <2>3, <2>4
<1>7. \A i \in 1 .. did : buffer'[i] = buffer[i]
  BY <1>4, <1>5
<1>8. QED
  BY <1>3, <1>4, <1>6, <1>7 DEF Reads

\* A block that is not in the undo file is read from the image.
LEMMA ImageIsView ==
  ASSUME TypeOK, ListsIn(m_table), NEW b \in Block, ~ IsKnown(b) \/ ~ InUndo(b)
  PROVE  file[b] = View[b]
  BY ViewIs DEF ViewFact, InUndo

LEMMA GetStep ==
  IInv /\ Get => \E n \in 1 .. left : Reads(n)
<1> SUFFICES ASSUME IInv, Get PROVE \E n \in 1 .. left : Reads(n)
  OBVIOUS
<1> DEFINE q == m_table[hash_func(at)]
           i == find_entry(at)
           n == Neighbours(q, i, left)
           slot == q[i].host
<1>1. /\ pc = "get" /\ m_file /\ Known(at) /\ Holds(slot, n) /\ Got(Piece(slot, n))
      /\ misread' = misread
  BY DEF Get
<1>2. /\ at \in Block /\ at \in Nat /\ left \in Nat \ {0} /\ hash_func(at) \in Bucket
      /\ \A k \in 0 .. left - 1 : at + k \in Block
  BY <1>1, Within DEF IInv
<1>3. /\ m_table \in Tables /\ ListsIn(m_table) /\ host \in Seq(Data) /\ offset \in Nat
      /\ did \in Nat /\ buffer \in Seq(Data)
  BY DEF IInv, TypeOK, Undo, Block
<1>4. Len(buffer) = did
  BY <1>1 DEF IInv, Calling
<1>5. Places(at) = PlacesIn(m_table, at)
  BY DEF Places, PlacesIn
<1>6. i = PlaceIn(m_table, at) /\ KnownIn(m_table, at)
  BY <1>1, <1>5 DEF find_entry, PlaceIn, Known, KnownIn
<1>7. /\ i \in DOMAIN q /\ q[i].mac = at /\ slot = Slot(at) /\ slot \in Nat
      /\ q \in Seq(Entry)
  BY <1>2, <1>3, <1>6, KnownHasEntry DEF Slot, Tables
<1> HIDE DEF i, n, q
<1>8. /\ n \in 1 .. left
      /\ \A k \in 0 .. n - 1 : /\ i + k \in DOMAIN q
                               /\ q[i + k].host = q[i].host + k
                               /\ q[i + k].mac = q[i].mac + k
  BY <1>2, <1>7, NeighboursJoin DEF n
<1> HIDE DEF slot
<1>9. n \in Nat \ {0} /\ Len(host) \in Nat /\ slot + n <= Len(host)
  BY <1>1, <1>2, <1>3, <1>8, LenProperties DEF Holds
<1>10. ASSUME NEW k \in 0 .. n - 1
       PROVE  at + k \in Block /\ host[slot + k + 1] = View[at + k]
  <2>1. i + k \in DOMAIN q /\ q[i + k].host = slot + k /\ q[i + k].mac = at + k
    BY <1>7, <1>8 DEF slot
  <2>2. at + k \in Block /\ k \in Nat
    BY <1>2, <1>8
  <2>3. at + k # INVALID
    BY <2>2 DEF Block, INVALID
  <2>4. KnownIn(m_table, at + k) /\ SlotIn(m_table, at + k) = slot + k
    BY <1>2, <1>3, <2>1, <2>3, Found DEF q
  <2>5. InUndo(at + k) /\ Slot(at + k) = slot + k
    BY <1>7, <1>9, <2>2, <2>4 DEF InUndo, IsKnown, Slot
  <2>6. View[at + k] = host[Slot(at + k) + 1]
    BY <1>1, <1>3, <2>2, <2>5, ViewIs DEF ViewFact, IInv
  <2>7. QED
    BY <2>2, <2>5, <2>6
<1>11. /\ Piece(slot, n) \in Seq(Data) /\ Len(Piece(slot, n)) = n
       /\ \A j \in 1 .. n : Piece(slot, n)[j] = host[slot + j]
  <2> DEFINE a == slot + 1
             z == slot + n
  <2>1. /\ a \in Int /\ z \in Int /\ a <= z /\ z - a + 1 = n
        /\ \A j \in a .. z : j \in 1 .. Len(host)
        /\ \A j \in 1 .. n : a + j - 1 = slot + j
    BY <1>7, <1>9
  <2>2. Piece(slot, n) = SubSeq(host, a, z)
    BY DEF Piece
  <2> HIDE DEF a, z
  <2>3. \A j \in a .. z : host[j] \in Data
    BY <1>3, <2>1, ElementOfSeq
  <2>4. /\ SubSeq(host, a, z) \in Seq(Data) /\ Len(SubSeq(host, a, z)) = z - a + 1
        /\ \A j \in 1 .. z - a + 1 : SubSeq(host, a, z)[j] = host[a + j - 1]
    BY <2>1, <2>3, SubSeqProperties
  <2>5. QED
    BY <2>1, <2>2, <2>4
<1>12. Piece(slot, n) \in [1 .. n -> Data]
  BY <1>11, LenProperties
<1>13. ASSUME NEW j \in 1 .. n PROVE Piece(slot, n)[j] = View[at + j - 1]
  <2> DEFINE k == j - 1
  <2>1. k \in 0 .. n - 1 /\ slot + k + 1 = slot + j /\ at + k = at + j - 1
    BY <1>2, <1>7, <1>9
  <2>2. host[slot + k + 1] = View[at + k]
    BY <1>10, <2>1
  <2> HIDE DEF k
  <2>3. Piece(slot, n)[j] = host[slot + j]
    BY <1>11
  <2>4. QED
    BY <2>1, <2>2, <2>3
<1> DEFINE r == Piece(slot, n)
<1>14. r \in [1 .. n -> Data] /\ Got(r) /\ \A j \in 1 .. n : r[j] = View[at + j - 1]
  BY <1>1, <1>12, <1>13
<1> HIDE DEF r
<1>15. Reads(n)
  BY <1>1, <1>3, <1>4, <1>9, <1>14, GotMore
<1>16. QED
  BY <1>8, <1>15

LEMMA ImageStep ==
  IInv /\ (GetImage \/ ReadImage) => \E n \in 1 .. left : Reads(n)
<1> SUFFICES ASSUME IInv, GetImage \/ ReadImage PROVE \E n \in 1 .. left : Reads(n)
  OBVIOUS
<1>1. /\ file \in [Block -> Data] /\ m_table \in Tables /\ ListsIn(m_table) /\ offset \in Nat
      /\ offset \in Block /\ length \in 0 .. NBlocks - offset /\ length \in Nat
      /\ did \in Nat /\ buffer \in Seq(Data) /\ misread \in BOOLEAN
  BY DEF IInv, TypeOK, Undo, Block
<1>2. ASSUME NEW b \in Nat, NEW n \in Nat, \A k \in 0 .. n - 1 : b + k \in Block
      PROVE  /\ Image(b, n) \in [1 .. n -> Data]
             /\ \A i \in 1 .. n : b + i - 1 \in Block /\ Image(b, n)[i] = file[b + i - 1]
  <2>1. \A i \in 1 .. n : i - 1 \in 0 .. n - 1 /\ b + (i - 1) = b + i - 1
    OBVIOUS
  <2>2. \A i \in 1 .. n : b + i - 1 \in Block
    BY <1>2, <2>1
  <2>3. QED
    BY <1>1, <2>2 DEF Image
<1>3. ASSUME GetImage PROVE \E n \in 1 .. left : Reads(n)
  <2> DEFINE n == skip_blocks
  <2>1. pc = "get" /\ Got(Image(at, n)) /\ misread' = (misread \/ Known(at))
    BY <1>3 DEF GetImage
  <2>2. /\ at \in Block /\ at \in Nat /\ left \in Nat \ {0}
        /\ \A k \in 0 .. left - 1 : at + k \in Block
    BY <2>1, Within DEF IInv
  <2>3. n \in 1 .. left /\ \A k \in 1 .. n - 1 : ~ IsKnown(at + k)
    BY <2>2, SkipRun
  <2> HIDE DEF n
  <2>4. Len(buffer) = did
    BY <2>1 DEF IInv, Calling
  <2>5. n \in Nat /\ \A k \in 0 .. n - 1 : at + k \in Block
    BY <2>2, <2>3
  <2> DEFINE r == Image(at, n)
  <2>6. /\ r \in [1 .. n -> Data]
        /\ \A i \in 1 .. n : at + i - 1 \in Block /\ r[i] = file[at + i - 1]
    BY <1>2, <2>2, <2>5
  <2>7. Got(r)
    BY <2>1
  <2> HIDE DEF r
  <2>8. ASSUME ~ misread', NEW i \in 1 .. n PROVE r[i] = View[at + i - 1]
    <3>1. ~ Known(at)
      BY <1>1, <2>1, <2>8
    <3>2. Places(at) = PlacesIn(m_table, at)
      BY DEF Places, PlacesIn
    <3>3. ~ IsKnown(at)
      BY <3>1, <3>2 DEF Known, IsKnown, KnownIn
    <3>4. ~ IsKnown(at + i - 1)
      <4>1. CASE i = 1
        <5>1. at + i - 1 = at
          BY <2>2, <4>1
        <5>2. QED
          BY <3>3, <5>1
      <4>2. CASE i # 1
        <5>1. i - 1 \in 1 .. n - 1 /\ at + (i - 1) = at + i - 1
          BY <2>2, <2>5, <4>2
        <5>2. QED
          BY <2>3, <5>1
      <4>3. QED
        BY <4>1, <4>2
    <3>5. at + i - 1 \in Block /\ r[i] = file[at + i - 1]
      BY <2>6
    <3>6. QED
      BY <1>1, <3>4, <3>5, ImageIsView DEF IInv
  <2>9. ~ misread' => ~ misread
    BY <1>1, <2>1
  <2>10. Reads(n)
    BY <1>1, <2>4, <2>5, <2>6, <2>7, <2>8, <2>9, GotMore
  <2>11. QED
    BY <2>3, <2>10
<1>4. ASSUME ReadImage PROVE \E n \in 1 .. left : Reads(n)
  <2>1. pc = "file" /\ Got(Image(offset, length)) /\ misread' = misread
    BY <1>4 DEF ReadImage
  <2>2. did = 0 /\ Len(buffer) = did /\ did < length
    BY <2>1 DEF IInv, Calling
  <2>3. at = offset /\ left = length
    BY <1>1, <2>2 DEF at, left
  <2>4. \A k \in 0 .. length - 1 : offset + k \in Block
    BY <1>1 DEF Block
  <2> DEFINE r == Image(offset, length)
  <2>5. /\ r \in [1 .. length -> Data]
        /\ \A i \in 1 .. length : offset + i - 1 \in Block /\ r[i] = file[offset + i - 1]
    BY <1>1, <1>2, <2>4
  <2>6. Got(r)
    BY <2>1
  <2> HIDE DEF r
  <2>7. mount_mode = "persistent"
    BY <2>1 DEF IInv, Mounting
  <2>8. ~ m_dirty
    BY <2>7 DEF IInv, Mounting
  <2>9. \A b \in Block : ~ InUndo(b)
    BY <2>8 DEF IInv, Undo
  <2>10. ASSUME NEW i \in 1 .. length PROVE r[i] = View[at + i - 1]
    <3>1. offset + i - 1 \in Block /\ r[i] = file[offset + i - 1]
      BY <2>5
    <3>2. QED
      BY <1>1, <2>3, <2>9, <3>1, ImageIsView DEF IInv
  <2>11. Reads(length)
    BY <1>1, <2>1, <2>2, <2>5, <2>6, <2>10, GotMore
  <2>12. length \in 1 .. left
    BY <1>1, <2>2, <2>3
  <2>13. QED
    BY <2>11, <2>12
<1>5. QED
  BY <1>3, <1>4

-----------------------------------------------------------------------------
(* What the steps of a commit do.                                          *)

\* The blocks of the piece at hand, m of them at most.
Here(b, m) == b \in list[index].mac .. list[index].mac + m - 1

\* The piece that is copied is a run of blocks, each in its place in the list and
\* each read from its slot.
LEMMA PieceFact ==
  ASSUME TypeOK, ListsIn(m_table), bucket \in Bucket, index \in DOMAIN list,
         list[index].mac # INVALID, Holds(list[index].host, Joint), NEW m \in 1 .. Joint
  PROVE  /\ \A b \in Block : Here(b, m) =>
              /\ InUndo(b) /\ hash_func(b) = bucket
              /\ Copied(list[index], m)[b] = host[Slot(b) + 1]
         /\ \A b \in Block : ~ Here(b, m) => Copied(list[index], m)[b] = file[b]
         /\ \A b \in Block : /\ InUndo(b) /\ hash_func(b) = bucket
                             /\ PlaceIn(m_table, b) \in index .. index + Joint - 1
                             => Here(b, Joint)
         /\ Joint \in 1 .. Joined
<1> DEFINE q == list
           i == index
           n == Joint
           e == q[i]
<1>1. /\ m_table \in Tables /\ host \in Seq(Data) /\ Len(host) \in Nat /\ i \in Nat
  BY LenProperties DEF TypeOK
<1>2. q \in Seq(Entry) /\ q = m_table[bucket]
  BY <1>1 DEF Tables, list
<1>3. Joined \in Nat \ {0} /\ n = Neighbours(q, i, Joined)
  BY DEF Joint
<1>4. e.mac # INVALID /\ e = q[i] /\ i \in DOMAIN q /\ Holds(e.host, n) /\ m \in 1 .. n
  OBVIOUS
<1> HIDE DEF q, i, n
<1>5. /\ n \in 1 .. Joined
      /\ \A k \in 0 .. n - 1 : /\ i + k \in DOMAIN q
                               /\ q[i + k].host = q[i].host + k
                               /\ q[i + k].mac = q[i].mac + k
  BY <1>2, <1>3, <1>4, NeighboursJoin
<1>6. \A x \in Entry : /\ x.mac \in Block \union {INVALID} /\ x.host \in Nat
                       /\ x.mac \in Nat /\ x.mac # NBlocks
  BY DEF Entry, Block, INVALID
<1>7. \A j \in DOMAIN q : q[j] \in Entry
  BY <1>2
<1> HIDE DEF e
<1>8. e.mac \in Nat /\ e.host \in Nat /\ e.mac \in Block /\ n \in Nat \ {0} /\ m \in Nat
  BY <1>3, <1>4, <1>5, <1>6, <1>7
<1>9. e.host + n <= Len(host)
  BY <1>4 DEF Holds
<1>10. ASSUME NEW k \in 0 .. n - 1
       PROVE  /\ e.mac + k \in Block
              /\ InUndo(e.mac + k) /\ hash_func(e.mac + k) = bucket
              /\ Slot(e.mac + k) = e.host + k /\ PlaceIn(m_table, e.mac + k) = i + k
  <2>1. i + k \in DOMAIN q /\ q[i + k].host = e.host + k /\ q[i + k].mac = e.mac + k
    BY <1>4, <1>5
  <2>2. e.mac + k # INVALID
    <3>1. CASE k = 0
      BY <1>4, <1>8, <3>1
    <3>2. ASSUME k # 0, e.mac + k = INVALID PROVE FALSE
      <4>1. k - 1 \in 0 .. n - 1 /\ e.mac + (k - 1) = NBlocks
        BY <1>8, <3>2 DEF INVALID
      <4>2. i + (k - 1) \in DOMAIN q /\ q[i + (k - 1)].mac = e.mac + (k - 1)
        BY <1>4, <1>5, <4>1
      <4>3. QED
        BY <1>6, <1>7, <4>1, <4>2
    <3>3. QED
      BY <3>1, <3>2
  <2>3. /\ e.mac + k \in Block /\ hash_func(e.mac + k) = bucket
        /\ KnownIn(m_table, e.mac + k) /\ PlaceIn(m_table, e.mac + k) = i + k
        /\ SlotIn(m_table, e.mac + k) = e.host + k
    BY <1>1, <1>2, <2>1, <2>2, Found
  <2>4. e.host + k < Len(host)
    BY <1>1, <1>8, <1>9
  <2>5. QED
    BY <2>3, <2>4 DEF InUndo, IsKnown, Slot
<1>11. ASSUME NEW b \in Block, b \in e.mac .. e.mac + m - 1
       PROVE  /\ InUndo(b) /\ hash_func(b) = bucket
              /\ Copied(e, m)[b] = host[Slot(b) + 1]
  <2> DEFINE k == b - e.mac
  <2>1. k \in 0 .. n - 1 /\ e.mac + k = b /\ e.host + b - e.mac + 1 = e.host + k + 1
    BY <1>4, <1>8, <1>11 DEF Block
  <2>2. Copied(e, m)[b] = host[e.host + b - e.mac + 1]
    BY <1>11 DEF Copied
  <2> HIDE DEF k
  <2>3. InUndo(b) /\ hash_func(b) = bucket /\ Slot(b) = e.host + k
    BY <1>10, <2>1
  <2>4. QED
    BY <2>1, <2>2, <2>3
<1>12. ASSUME NEW b \in Block, b \notin e.mac .. e.mac + m - 1
       PROVE  Copied(e, m)[b] = file[b]
  BY <1>12 DEF Copied
<1>13. ASSUME NEW b \in Block, InUndo(b), hash_func(b) = bucket,
              PlaceIn(m_table, b) \in i .. i + n - 1
       PROVE  b \in e.mac .. e.mac + n - 1
  <2> DEFINE k == PlaceIn(m_table, b) - i
  <2>1. k \in 0 .. n - 1 /\ i + k = PlaceIn(m_table, b)
    BY <1>1, <1>8, <1>13
  <2> HIDE DEF k
  <2>2. q[PlaceIn(m_table, b)].mac = b
    BY <1>1, <1>2, <1>13, KnownHasEntry DEF InUndo, IsKnown
  <2>3. b = e.mac + k
    BY <1>4, <1>5, <2>1, <2>2
  <2>4. QED
    BY <1>8, <2>1, <2>3
<1>14. e = list[index] /\ n = Joint /\ i = index
  BY DEF e, n, i, q
<1>15. QED
  BY <1>5, <1>11, <1>12, <1>13, <1>14 DEF Here

\* Copying a piece, or a part of it, leaves the disk as it is.
Copies(m) ==
  /\ m \in 1 .. Joint
  /\ file' = Copied(list[index], m) /\ file' \in [Block -> Data]
  /\ \A b \in Block : ~ InUndo(b) => file'[b] = file[b]
  /\ \A b \in Block : InUndo(b) => file'[b] \in {file[b], host[Slot(b) + 1]}
  /\ \A b \in Block : Here(b, m) => InUndo(b) /\ file'[b] = host[Slot(b) + 1]
  /\ \A b \in Block : ~ Here(b, m) => file'[b] = file[b]

LEMMA CopyStep ==
  ASSUME TypeOK, ListsIn(m_table), bucket \in Bucket, index \in DOMAIN list,
         list[index].mac # INVALID, Holds(list[index].host, Joint), NEW m \in 1 .. Joint,
         file' = Copied(list[index], m)
  PROVE  Copies(m)
<1>1. /\ \A b \in Block : Here(b, m) => InUndo(b) /\ file'[b] = host[Slot(b) + 1]
      /\ \A b \in Block : ~ Here(b, m) => file'[b] = file[b]
  BY PieceFact
<1>2. \A b \in Block : InUndo(b) => Slot(b) + 1 \in 1 .. Len(host)
  BY ViewIs DEF ViewFact
<1>3. host \in Seq(Data) /\ file \in [Block -> Data]
  BY DEF TypeOK
<1>4. \A b \in Block : file'[b] \in Data
  BY <1>1, <1>2, <1>3, ElementOfSeq
<1>5. file' = [b \in Block |-> file'[b]]
  BY DEF Copied
<1>6. file' \in [Block -> Data]
  BY <1>4, <1>5, Zenon
<1>7. QED
  BY <1>1, <1>6, Zenon DEF Copies

-----------------------------------------------------------------------------
(* The types and the control state.                                        *)

LEMMA TypesInit == Init => TypeOK
<1> SUFFICES ASSUME Init PROVE TypeOK
  OBVIOUS
<1>1. file \in [Block -> Data] /\ 0 \in Block /\ 0 \in Data
  BY DEF Init, Block, Data
<1>2. mount_mode \in Modes /\ read_only \in BOOLEAN
  BY DEF Init, Sys_open, Modes, Overlays
<1>3. m_table \in Tables
  BY EmptyTable DEF Init
<1>4. QED
  BY <1>1, <1>2, <1>3 DEF Init, TypeOK, Block, Statuses, NoPiece

\* The parts of the type invariant.
DataTypes ==
  /\ file \in [Block -> Data] /\ m_table \in Tables /\ host \in Seq(Data)
  /\ buffer \in Seq(Data) /\ m_next_offset \in Nat
ModeTypes ==
  /\ mount_mode \in Modes /\ read_only \in BOOLEAN
  /\ yes_all \in BOOLEAN /\ no_all \in BOOLEAN /\ is_shutting_down \in BOOLEAN
  /\ m_status \in Statuses /\ m_dirty \in BOOLEAN /\ m_file \in BOOLEAN
  /\ misread \in BOOLEAN /\ writes \in Data
CallTypes ==
  /\ pc \in {"idle", "put", "write", "ask", "again", "direct", "get", "file", "returned",
             "commit", "close", "cleanup", "closed"}
  /\ offset \in Block /\ length \in 0 .. NBlocks - offset /\ did \in 0 .. length
  /\ piece \in [slot : Nat, size : Nat, new : BOOLEAN]
CommitTypes ==
  /\ bucket \in 0 .. NBuckets /\ index \in Nat \ {0}
  /\ closing \in BOOLEAN
  /\ commit \in {"none", "begun", "done", "failed"}

LEMMA TypesParts == TypeOK <=> DataTypes /\ ModeTypes /\ CallTypes /\ CommitTypes
  BY Zenon DEF TypeOK, DataTypes, ModeTypes, CallTypes, CommitTypes

LEMMA DataTypesKept == IInv /\ [Next]_vars => DataTypes'
<1> SUFFICES ASSUME IInv, [Next]_vars PROVE DataTypes'
  OBVIOUS
<1>1. /\ file \in [Block -> Data] /\ m_table \in Tables /\ host \in Seq(Data)
      /\ buffer \in Seq(Data) /\ m_next_offset \in Nat
      /\ << >> \in Seq(Data) /\ Empty \in Tables /\ ListsIn(m_table) /\ writes \in Data
  BY EmptyTable DEF IInv, TypeOK, Undo
<1>2. CASE UNCHANGED <<file, m_table, m_next_offset, host, buffer>>
  BY <1>1, <1>2 DEF DataTypes
<1>3. CASE UNCHANGED <<file, m_table, m_next_offset, host>> /\ buffer' = << >>
  BY <1>1, <1>3 DEF DataTypes
<1>4. CASE Put
  <2>1. m_table' \in Tables
    BY <1>1, <1>4, PutStep DEF PutFinds, PutAdds
  <2>2. QED
    BY <1>1, <1>4, <2>1 DEF Put, putUnchanged, DataTypes
<1>5. CASE Written
  <2>1. m_table' \in Tables /\ host' \in Seq(Data) /\ m_next_offset' \in Nat
    BY <1>5, WrittenStep DEF HostTakes
  <2>2. UNCHANGED file /\ (buffer' = << >> \/ buffer' = buffer)
    BY <1>5 DEF Written, Return
  <2>3. QED
    BY <1>1, <2>1, <2>2 DEF DataTypes
<1>6. CASE WriteFailed
  <2>1. m_table' \in Tables /\ host' \in Seq(Data) /\ m_next_offset' \in Nat
    BY <1>6, WriteFailedStep DEF HostTakes
  <2>2. UNCHANGED file /\ (buffer' = << >> \/ buffer' = buffer)
    BY <1>6 DEF WriteFailed, failedUnchanged, AfterFailure, Return, ioVars
  <2>3. QED
    BY <1>1, <2>1, <2>2 DEF DataTypes
<1>7. CASE Direct
  <2>1. file' \in [Block -> Data]
    BY <1>1, <1>7 DEF Direct, Stored
  <2>2. QED
    BY <1>1, <1>7, <2>1 DEF Direct, tableVars, Return, DataTypes
<1>8. CASE Get \/ GetImage \/ ReadImage
  <2>1. buffer' \in Seq(Data)
    BY <1>8, GetStep, ImageStep DEF Reads
  <2>2. UNCHANGED <<file, m_table, m_next_offset, host>>
    BY <1>8 DEF Get, GetImage, ReadImage, readUnchanged, tableVars
  <2>3. QED
    BY <1>1, <2>1, <2>2 DEF DataTypes
<1>9. CASE CopyPiece
  <2>1. /\ bucket \in Bucket /\ index \in DOMAIN list /\ list[index].mac # INVALID
        /\ Holds(list[index].host, Joint) /\ file' = Copied(list[index], Joint)
    BY <1>9 DEF CopyPiece
  <2>2. Joint \in 1 .. Joint
    <3>1. list \in Seq(Entry)
      BY <1>1, <2>1 DEF list, Tables
    <3>2. Joint \in 1 .. Joined
      BY <2>1, <3>1, NeighboursJoin DEF Joint
    <3>3. QED
      BY <3>2
  <2>3. file' \in [Block -> Data]
    BY <1>1, <2>1, <2>2, CopyStep DEF Copies, IInv
  <2>4. QED
    BY <1>1, <1>9, <2>3 DEF CopyPiece, stepUnchanged, tableVars, ioVars, DataTypes
<1>10. CASE CommitFailed
  <2>1. file' \in [Block -> Data]
    <3>1. CASE UNCHANGED file
      BY <1>1, <3>1
    <3>2. ASSUME Holds(list[index].host, Joint),
                 NEW n \in 1 .. Joint - 1, file' = Copied(list[index], n)
          PROVE  file' \in [Block -> Data]
      <4>1. bucket \in Bucket /\ index \in DOMAIN list /\ list[index].mac # INVALID
        BY <1>10 DEF CommitFailed
      <4>2. list \in Seq(Entry)
        BY <1>1, <4>1 DEF list, Tables
      <4>3. Joint \in 1 .. Joined
        BY <4>1, <4>2, NeighboursJoin DEF Joint
      <4>4. n \in 1 .. Joint
        BY <4>3
      <4>5. QED
        BY <1>1, <3>2, <4>1, <4>4, CopyStep DEF Copies, IInv
    <3>3. QED
      BY <1>10, <3>1, <3>2 DEF CommitFailed
  <2>2. QED
    BY <1>1, <1>10, <2>1 DEF CommitFailed, Finish, ioVars, DataTypes
<1>11. CASE CommitDone \/ undo_cleanup \/ Crash
  <2>1. /\ UNCHANGED file /\ m_table' = Empty /\ m_next_offset' = 0 /\ host' = << >>
        /\ buffer' = buffer \/ buffer' = << >>
    BY <1>11 DEF CommitDone, Finish, undo_cleanup, Crash, Gone, ioVars
  <2>2. QED
    BY <1>1, <2>1 DEF DataTypes
<1>12. Sys_write \/ CommitNow \/ do_it_again \/ Sys_read \/ NextBucket \/ Skipped \/ Sys_close
         => UNCHANGED <<file, m_table, m_next_offset, host, buffer>>
  BY DEF Sys_write, CommitNow, do_it_again, Sys_read, NextBucket, Skipped, Sys_close,
         stepUnchanged, tableVars, ioVars
<1>13. NotNow \/ ReadReturns \/ Shutdown \/ KillCPU
         => UNCHANGED <<file, m_table, m_next_offset, host>> /\ buffer' = << >>
  BY DEF NotNow, ReadReturns, Shutdown, KillCPU, Closing, Return, tableVars
<1>14. UNCHANGED vars => UNCHANGED <<file, m_table, m_next_offset, host, buffer>>
  BY DEF vars, tableVars, ioVars
<1>15. QED
  BY <1>2, <1>3, <1>4, <1>5, <1>6, <1>7, <1>8, <1>9, <1>10, <1>11, <1>12, <1>13, <1>14 DEF Next

LEMMA ModeTypesKept == IInv /\ [Next]_vars => ModeTypes'
<1> SUFFICES ASSUME IInv, [Next]_vars PROVE ModeTypes'
  OBVIOUS
<1>1. ModeTypes
  BY TypesParts DEF IInv
<1> DEFINE Same == UNCHANGED <<mount_mode, read_only, yes_all, no_all, is_shutting_down,
                               m_status, m_dirty, m_file, misread, writes>>
<1>2. Same => ModeTypes'
  BY <1>1 DEF ModeTypes
<1>3. CASE Sys_write
  BY <1>1, <1>3 DEF Sys_write, ModeTypes, mountVars, answerVars, tableVars, Data
<1>4. CASE Written
  BY <1>1, <1>4 DEF Written, Return, ModeTypes, mountVars, answerVars
<1>5. CASE WriteFailed
  BY <1>1, <1>5 DEF WriteFailed, AfterFailure, failedUnchanged, Return, ModeTypes, mountVars,
                    answerVars, ioVars, Statuses
<1>6. CASE CommitNow
  BY <1>1, <1>6 DEF CommitNow, Begin, ModeTypes, mountVars, answerVars, ioVars, Statuses
<1>7. CASE do_it_again
  BY <1>1, <1>7 DEF do_it_again, ModeTypes, answerVars, tableVars, ioVars, Modes
<1>8. CASE NotNow \/ Direct \/ ReadReturns
  BY <1>1, <1>8 DEF NotNow, Direct, ReadReturns, Return, ModeTypes, mountVars, answerVars,
                    tableVars
<1>9. CASE Get \/ GetImage \/ ReadImage
  BY <1>1, <1>9 DEF Get, GetImage, ReadImage, readUnchanged, ModeTypes, mountVars, answerVars,
                    tableVars
<1>10. CASE CommitDone \/ CommitFailed
  BY <1>1, <1>10 DEF CommitDone, CommitFailed, Finish, ModeTypes, mountVars, answerVars, ioVars
<1>11. CASE Shutdown \/ KillCPU
  BY <1>1, <1>11 DEF Shutdown, KillCPU, Closing, ModeTypes, mountVars, tableVars
<1>12. CASE Sys_close
  <2>1. yes_all' \in BOOLEAN /\ no_all' \in BOOLEAN
    BY <1>1, <1>12 DEF Sys_close, ModeTypes
  <2>2. QED
    BY <1>1, <1>12, <2>1 DEF Sys_close, ModeTypes, mountVars, tableVars, ioVars
<1>13. CASE undo_cleanup \/ Crash
  BY <1>1, <1>13 DEF undo_cleanup, Crash, Gone, ModeTypes, mountVars, answerVars
<1>14. Put \/ Sys_read \/ NextBucket \/ Skipped \/ CopyPiece \/ UNCHANGED vars => Same
  BY DEF Put, putUnchanged, Sys_read, NextBucket, Skipped, CopyPiece, stepUnchanged, vars,
         mountVars, answerVars, tableVars, ioVars
<1>15. QED
  BY <1>2, <1>3, <1>4, <1>5, <1>6, <1>7, <1>8, <1>9, <1>10, <1>11, <1>12, <1>13, <1>14 DEF Next

\* The blocks of a call, or none.
LEMMA CallTypesKept == IInv /\ [Next]_vars => CallTypes'
<1> SUFFICES ASSUME IInv, [Next]_vars PROVE CallTypes'
  OBVIOUS
<1>1. CallTypes
  BY TypesParts DEF IInv
<1>2. /\ offset \in Block /\ length \in 0 .. NBlocks - offset /\ did \in 0 .. length
      /\ piece \in [slot : Nat, size : Nat, new : BOOLEAN]
      /\ offset \in Nat /\ length \in Nat /\ did \in Nat
  BY <1>1 DEF CallTypes, Block
<1>3. 0 \in Block /\ 0 \in 0 .. NBlocks - 0 /\ 0 \in 0 .. 0
  BY DEF Block
<1>4. NoPiece \in [slot : Nat, size : Nat, new : BOOLEAN]
  BY DEF NoPiece
<1> DEFINE Pcs == {"idle", "put", "write", "ask", "again", "direct", "get", "file", "returned",
                   "commit", "close", "cleanup", "closed"}
           Gives == offset' = 0 /\ length' = 0 /\ did' = 0 /\ piece' = NoPiece
           Keeps == UNCHANGED <<offset, length, did, piece>>
<1>5. pc' \in Pcs /\ Gives => CallTypes'
  BY <1>3, <1>4 DEF CallTypes
<1>6. pc' \in Pcs /\ Keeps => CallTypes'
  BY <1>2 DEF CallTypes
<1> HIDE DEF Pcs
<1>7. "idle" \in Pcs /\ "put" \in Pcs /\ "write" \in Pcs /\ "ask" \in Pcs /\ "again" \in Pcs
      /\ "direct" \in Pcs /\ "get" \in Pcs /\ "file" \in Pcs /\ "returned" \in Pcs
      /\ "commit" \in Pcs /\ "close" \in Pcs /\ "cleanup" \in Pcs /\ "closed" \in Pcs
      /\ pc \in Pcs
  BY <1>1 DEF Pcs, CallTypes
<1>8. CASE Sys_write \/ Sys_read
  <2>1. PICK b \in Block : \E n \in 1 .. NBlocks - b : offset' = b /\ length' = n
    BY <1>8 DEF Sys_write, Sys_read, Called
  <2>2. did' = 0 /\ piece' = piece
    BY <1>8 DEF Sys_write, Sys_read, IInv, Calling
  <2>3. offset' \in Block /\ length' \in 0 .. NBlocks - offset' /\ 0 \in 0 .. length'
    BY <2>1 DEF Block
  <2>4. pc' \in Pcs
    BY <1>7, <1>8 DEF Sys_write, Sys_read
  <2>5. QED
    BY <1>2, <2>1, <2>2, <2>3, <2>4 DEF CallTypes, Pcs
<1>9. CASE Put
  <2>1. pc' \in Pcs /\ UNCHANGED <<offset, length, did>>
    BY <1>7, <1>9 DEF Put, putUnchanged, callVars
  <2>2. piece' \in [slot : Nat, size : Nat, new : BOOLEAN]
    BY <1>9, PutStep
  <2>3. QED
    BY <1>2, <2>1, <2>2 DEF CallTypes, Pcs
<1>10. CASE Written
  <2>1. CASE did + piece.size = length
    <3>1. pc' \in Pcs /\ Gives
      BY <1>7, <1>10, <2>1 DEF Written, Return
    <3>2. QED
      BY <1>5, <3>1
  <2>2. CASE did + piece.size # length
    <3>1. pc' \in Pcs /\ UNCHANGED <<offset, length, piece>> /\ did' = did + piece.size
      BY <1>7, <1>10, <2>2 DEF Written, callVars
    <3>2. piece.size \in 1 .. length - did
      BY <1>10, WrittenStep DEF left
    <3>3. did' \in 0 .. length
      BY <1>2, <3>1, <3>2
    <3>4. QED
      BY <1>2, <3>1, <3>3 DEF CallTypes, Pcs
  <2>3. QED
    BY <2>1, <2>2
<1>11. CASE WriteFailed
  <2>1. pc' \in Pcs /\ (Keeps \/ Gives)
    BY <1>7, <1>11 DEF WriteFailed, AfterFailure, Return, ioVars, callVars
  <2>2. QED
    BY <1>5, <1>6, <2>1
<1>12. CASE Get \/ GetImage \/ ReadImage
  <2>1. PICK n \in 1 .. left : Reads(n)
    BY <1>12, GetStep, ImageStep
  <2>2. did' = did + n
    BY <2>1 DEF Reads
  <2>3. did' \in 0 .. length
    BY <1>2, <2>1, <2>2 DEF left
  <2>4. pc' \in Pcs /\ UNCHANGED <<offset, length, piece>>
    BY <1>7, <1>12 DEF Get, GetImage, ReadImage, Got, readUnchanged, callVars
  <2>5. QED
    BY <1>2, <2>3, <2>4 DEF CallTypes, Pcs
<1>13. NotNow \/ Direct \/ ReadReturns \/ Shutdown \/ KillCPU \/ undo_cleanup \/ Crash
         => pc' \in Pcs /\ Gives
  BY <1>7 DEF NotNow, Direct, ReadReturns, Shutdown, KillCPU, Closing, Return, undo_cleanup,
              Crash, Gone
<1>14. CommitNow \/ do_it_again \/ Sys_close
         => pc' \in Pcs /\ Keeps
  BY <1>7 DEF CommitNow, do_it_again, Sys_close, Begin, commitVars, ioVars, callVars
<1>15. NextBucket \/ Skipped \/ CopyPiece \/ CommitDone \/ CommitFailed \/ UNCHANGED vars
         => pc' \in Pcs /\ Keeps
  BY <1>7 DEF NextBucket, Skipped, CopyPiece, stepUnchanged, CommitDone, CommitFailed, Finish,
              vars, ioVars, callVars
<1> HIDE DEF Gives, Keeps
<1>16. QED
  BY <1>5, <1>6, <1>8, <1>9, <1>10, <1>11, <1>12, <1>13, <1>14, <1>15 DEF Next

LEMMA CommitTypesKept == IInv /\ [Next]_vars => CommitTypes'
<1> SUFFICES ASSUME IInv, [Next]_vars PROVE CommitTypes'
  OBVIOUS
<1>1. CommitTypes
  BY TypesParts DEF IInv
<1>2. 0 \in 0 .. NBuckets /\ 1 \in Nat \ {0}
  OBVIOUS
<1>3. CASE CommitNow
  BY <1>1, <1>2, <1>3 DEF CommitTypes, CommitNow, Begin
<1>4. CASE Sys_close
  BY <1>1, <1>2, <1>4 DEF CommitTypes, Sys_close, Begin, commitVars
<1>5. CASE NextBucket
  <2>1. bucket' \in 0 .. NBuckets
    BY <1>1, <1>5 DEF CommitTypes, NextBucket, Bucket
  <2>2. QED
    BY <1>1, <1>2, <1>5, <2>1 DEF CommitTypes, NextBucket, stepUnchanged
<1>6. CASE Skipped
  <2>1. index' \in Nat \ {0}
    BY <1>1, <1>6 DEF CommitTypes, Skipped
  <2>2. QED
    BY <1>1, <1>6, <2>1 DEF CommitTypes, Skipped, stepUnchanged
<1>7. CASE CopyPiece
  <2>1. list \in Seq(Entry)
    BY <1>7 DEF IInv, TypeOK, Tables, list, CopyPiece
  <2>2. Joint \in 1 .. Joined
    BY <1>7, <2>1, NeighboursJoin DEF Joint, CopyPiece
  <2>3. index' \in Nat \ {0}
    BY <1>1, <1>7, <2>2 DEF CommitTypes, CopyPiece
  <2>4. QED
    BY <1>1, <1>7, <2>3 DEF CommitTypes, CopyPiece, stepUnchanged
<1>8. CASE CommitDone \/ CommitFailed
  <2>1. bucket' = 0 /\ index' = 1 /\ closing' = closing /\ commit' \in {"done", "failed"}
    BY <1>8 DEF CommitDone, CommitFailed, Finish
  <2>2. QED
    BY <1>1, <1>2, <2>1 DEF CommitTypes
<1>9. CASE undo_cleanup \/ Crash
  <2>1. UNCHANGED <<closing, commit>> /\ bucket' = 0 /\ index' = 1
    BY <1>9 DEF undo_cleanup, Crash, Gone
  <2>2. QED
    BY <1>1, <1>2, <2>1 DEF CommitTypes
<1>10. Sys_write \/ Put \/ Written \/ WriteFailed \/ NotNow \/ do_it_again \/ Direct
       \/ Sys_read \/ Get \/ GetImage \/ ReadImage \/ ReadReturns \/ Shutdown \/ KillCPU
       \/ UNCHANGED vars
         => UNCHANGED commitVars
  BY DEF Sys_write, Put, putUnchanged, Written, WriteFailed, failedUnchanged, NotNow,
         do_it_again, Direct, Sys_read, Get, GetImage, ReadImage, readUnchanged, ReadReturns,
         Shutdown, KillCPU, Closing, vars
<1>11. UNCHANGED commitVars => CommitTypes'
  BY <1>1 DEF CommitTypes, commitVars
<1>12. QED
  BY <1>3, <1>4, <1>5, <1>6, <1>7, <1>8, <1>9, <1>10, <1>11 DEF Next

LEMMA TypesKept == IInv /\ [Next]_vars => TypeOK'
  BY DataTypesKept, ModeTypesKept, CallTypesKept, CommitTypesKept
     DEF TypeOK, DataTypes, ModeTypes, CallTypes, CommitTypes

LEMMA MountingInit == Init => Mounting
  BY DEF Init, Mounting, Sys_open, Modes, Overlays, Running

\* What the steps leave of the mount; the steps of a call, of the commit and the
\* others one by one.
LEMMA MountingKept == IInv /\ [Next]_vars => Mounting'
<1> SUFFICES ASSUME IInv, [Next]_vars PROVE Mounting'
  OBVIOUS
<1>1. Mounting /\ TypeOK
  BY DEF IInv
<1> DEFINE Same == UNCHANGED <<mount_mode, m_status, m_dirty, m_file, commit>>
<1>2. ASSUME Same, pc' = pc PROVE Mounting'
  BY <1>1, <1>2 DEF Mounting, Running
<1>3. ASSUME Same, Running,
             pc' \in {"idle", "returned", "close", "cleanup", "closed"} PROVE Mounting'
  BY <1>1, <1>3 DEF Mounting, Running
<1>4. CASE Sys_write \/ Sys_read
  <2>1. /\ Same /\ pc = "idle"
        /\ pc' \in {"put", "direct", "get", "file"}
        /\ pc' \in {"direct", "file"} <=> mount_mode = "persistent"
        /\ pc' = "put" => m_status = "healthy"
    BY <1>4 DEF Sys_write, Sys_read, mountVars, tableVars, commitVars
  <2>2. QED
    BY <1>1, <2>1 DEF Mounting, Running
<1>5. CASE Put
  <2>1. Same /\ pc = "put" /\ pc' = "write"
    BY <1>5 DEF Put, putUnchanged, mountVars, commitVars
  <2>2. QED
    BY <1>1, <2>1 DEF Mounting, Running
<1>6. CASE Written
  <2>1. /\ UNCHANGED <<mount_mode, m_status, m_file, commit>> /\ m_dirty' = TRUE
        /\ pc = "write" /\ pc' \in {"idle", "put"}
    BY <1>6 DEF Written, Return, mountVars, commitVars
  <2>2. QED
    BY <1>1, <2>1 DEF Mounting, Running
<1>7. CASE WriteFailed
  <2>1. /\ UNCHANGED <<mount_mode, m_dirty, m_file, commit>>
        /\ pc = "write" /\ pc' \in {"idle", "ask"}
    BY <1>7 DEF WriteFailed, AfterFailure, failedUnchanged, Return, mountVars, commitVars
  <2>2. QED
    BY <1>1, <2>1 DEF Mounting, Running
<1>8. CASE CommitNow
  <2>1. /\ UNCHANGED <<mount_mode, m_dirty, m_file>> /\ pc = "ask" /\ m_status' = "healthy"
        /\ IF m_dirty /\ m_file THEN pc' = "commit" /\ commit' = "begun"
           ELSE pc' = "again" /\ commit' = commit
    BY <1>8 DEF CommitNow, Begin, mountVars
  <2>2. QED
    BY <1>1, <2>1 DEF Mounting, Running
<1>9. CASE do_it_again
  <2>1. /\ UNCHANGED <<m_status, m_dirty, m_file, commit>> /\ pc = "again"
        /\ mount_mode' = "persistent" /\ pc' = "direct"
    BY <1>9 DEF do_it_again, tableVars, commitVars
  <2>2. QED
    BY <1>1, <2>1 DEF Mounting, Running
<1>10. CASE Get \/ GetImage \/ ReadImage
  <2>1. /\ Same /\ pc \in {"get", "file"} /\ pc' \in {"returned", "get"}
    BY <1>10 DEF Get, GetImage, ReadImage, Got, readUnchanged, mountVars, tableVars, commitVars
  <2>2. QED
    BY <1>1, <2>1 DEF Mounting, Running
<1>11. CASE CommitDone \/ CommitFailed
  <2>1. /\ UNCHANGED <<mount_mode, m_status>> /\ pc = "commit"
        /\ ~ m_dirty' /\ ~ m_file' /\ commit' \in {"done", "failed"}
        /\ pc' \in {"cleanup", "again"}
    BY <1>11 DEF CommitDone, CommitFailed, Finish, mountVars
  <2>2. QED
    BY <1>1, <2>1 DEF Mounting, Running
<1>12. CASE Shutdown \/ KillCPU
  <2>1. /\ Same /\ pc' = "close"
        /\ pc \in {"idle", "put", "write", "ask", "again", "direct", "get", "file", "commit"}
    BY <1>12 DEF Shutdown, KillCPU, Closing, mountVars, tableVars, commitVars
  <2>2. QED
    BY <1>1, <2>1 DEF Mounting, Running
<1>13. CASE Sys_close
  <2>1. /\ UNCHANGED <<mount_mode, m_status, m_dirty, m_file>> /\ pc = "close"
        /\ \/ pc' = "commit" /\ commit' = "begun" /\ m_dirty /\ m_file
           \/ pc' = "cleanup" /\ commit' = commit
    BY <1>13 DEF Sys_close, Begin, mountVars, tableVars, commitVars
  <2>2. QED
    BY <1>1, <2>1 DEF Mounting, Running
<1>14. CASE undo_cleanup \/ Crash
  <2>1. /\ UNCHANGED <<mount_mode, m_status, commit>> /\ ~ m_dirty' /\ ~ m_file'
        /\ pc' = "closed"
    BY <1>14 DEF undo_cleanup, Crash, Gone, mountVars
  <2>2. QED
    BY <1>1, <2>1 DEF Mounting, Running
<1>15. NotNow \/ Direct \/ ReadReturns
         => Same /\ Running /\ pc' \in {"idle", "returned", "close", "cleanup", "closed"}
  BY DEF NotNow, Direct, ReadReturns, Return, mountVars, tableVars, commitVars, Running
<1>16. NextBucket \/ Skipped \/ CopyPiece \/ UNCHANGED vars
         => Same /\ pc' = pc
  BY DEF NextBucket, Skipped, CopyPiece, stepUnchanged, mountVars, tableVars, commitVars, vars
<1> HIDE DEF Same
<1>17. QED
  BY <1>2, <1>3, <1>4, <1>5, <1>6, <1>7, <1>8, <1>9, <1>10, <1>11, <1>12, <1>13, <1>14, <1>15,
     <1>16 DEF Next

LEMMA CallingInit == Init => Calling
  BY EmptySeq DEF Init, Calling

LEMMA CallingKept == IInv /\ [Next]_vars => Calling'
<1> SUFFICES ASSUME IInv, [Next]_vars PROVE Calling'
  OBVIOUS
<1>1. Calling /\ Len(<< >>) = 0 /\ did \in Nat /\ length \in Nat /\ did <= length
  BY EmptySeq DEF IInv, TypeOK, Block
<1> DEFINE Same == UNCHANGED <<length, did, piece, buffer>>
<1>2. ASSUME Same, pc' = pc PROVE Calling'
  BY <1>1, <1>2 DEF Calling
<1>3. ASSUME did' = 0, buffer' = << >>, pc' \in {"idle", "close", "closed"} PROVE Calling'
  BY <1>1, <1>3 DEF Calling
<1>4. ASSUME Same, Len(buffer) = 0, pc' \in {"ask", "again", "direct", "commit"} PROVE Calling'
  BY <1>1, <1>4 DEF Calling
<1>5. ASSUME Same, Len(buffer) = 0, did = 0, pc' = "cleanup" PROVE Calling'
  BY <1>1, <1>5 DEF Calling
<1>6. CASE Sys_write \/ Sys_read
  <2>1. PICK b \in Block : \E n \in 1 .. NBlocks - b : offset' = b /\ length' = n
    BY <1>6 DEF Sys_write, Sys_read, Called
  <2>2. length' \in Nat /\ 0 < length'
    BY <2>1 DEF Block
  <2>3. /\ UNCHANGED <<did, piece, buffer>> /\ pc = "idle"
        /\ pc' \in {"put", "direct", "get", "file"}
    BY <1>6 DEF Sys_write, Sys_read
  <2>4. QED
    BY <1>1, <2>2, <2>3 DEF Calling
<1>7. CASE Put
  <2>1. /\ UNCHANGED <<length, did, buffer>> /\ pc = "put" /\ pc' = "write"
        /\ piece'.size \in 1 .. left
    BY <1>7, PutStep DEF Put, putUnchanged, callVars
  <2>2. QED
    BY <1>1, <2>1 DEF Calling, left
<1>8. CASE Written
  <2>1. /\ piece.size \in 1 .. length - did /\ pc = "write" /\ Len(buffer) = 0
    BY <1>8 DEF Written, IInv, Calling
  <2>2. CASE did + piece.size = length
    BY <1>3, <1>8, <2>2 DEF Written, Return
  <2>3. CASE did + piece.size # length
    <3>1. UNCHANGED <<length, buffer>> /\ pc' = "put" /\ did' = did + piece.size
      BY <1>8, <2>3 DEF Written, callVars
    <3>2. did' < length'
      BY <1>1, <2>1, <2>3, <3>1
    <3>3. QED
      BY <1>1, <2>1, <3>1, <3>2 DEF Calling
  <2>4. QED
    BY <2>2, <2>3
<1>9. CASE WriteFailed
  <2>1. Len(buffer) = 0
    BY <1>9 DEF WriteFailed, IInv, Calling
  <2>2. \/ Same /\ pc' = "ask"
        \/ did' = 0 /\ buffer' = << >> /\ pc' = "idle"
    BY <1>9 DEF WriteFailed, AfterFailure, Return, ioVars, callVars
  <2>3. QED
    BY <1>3, <1>4, <2>1, <2>2
<1>10. CASE Get \/ GetImage \/ ReadImage
  <2>1. PICK n \in 1 .. left : Reads(n)
    BY <1>10, GetStep, ImageStep
  <2>2. did' = did + n /\ Len(buffer') = did + n
    BY <2>1 DEF Reads
  <2>3. /\ length' = length /\ pc' = IF did' = length THEN "returned" ELSE "get"
    BY <1>10 DEF Get, GetImage, ReadImage, Got, readUnchanged, callVars
  <2>4. did + n <= length /\ n \in Nat
    BY <1>1, <2>1 DEF left
  <2>5. did' # length => did' < length
    BY <1>1, <2>2, <2>4
  <2>6. QED
    BY <2>2, <2>3, <2>5 DEF Calling
<1>11. CASE CommitDone \/ CommitFailed
  <2>1. Same /\ pc = "commit" /\ pc' = IF closing THEN "cleanup" ELSE "again"
    BY <1>11 DEF CommitDone, CommitFailed, Finish, ioVars, callVars
  <2>2. closing => did = 0
    BY <2>1 DEF IInv, Ending
  <2>3. QED
    BY <1>1, <1>4, <1>5, <2>1, <2>2 DEF Calling
<1>12. CASE Sys_close
  <2>1. /\ Same /\ pc = "close" /\ pc' \in {"commit", "cleanup"}
    BY <1>12 DEF Sys_close, Begin, ioVars, callVars
  <2>2. QED
    BY <1>1, <1>4, <1>5, <2>1 DEF Calling
<1>13. CASE CommitNow \/ do_it_again
  <2>1. Same /\ pc \in {"ask", "again"} /\ pc' \in {"commit", "again", "direct"}
    BY <1>13 DEF CommitNow, do_it_again, Begin, ioVars, callVars
  <2>2. QED
    BY <1>1, <1>4, <2>1 DEF Calling
<1>14. NotNow \/ Direct \/ ReadReturns \/ Shutdown \/ KillCPU \/ undo_cleanup \/ Crash
         => did' = 0 /\ buffer' = << >> /\ pc' \in {"idle", "close", "closed"}
  BY DEF NotNow, Direct, ReadReturns, Shutdown, KillCPU, Closing, Return, undo_cleanup, Crash,
         Gone
<1>15. NextBucket \/ Skipped \/ CopyPiece \/ UNCHANGED vars => Same /\ pc' = pc
  BY DEF NextBucket, Skipped, CopyPiece, stepUnchanged, vars, ioVars, callVars
<1> HIDE DEF Same
<1>16. QED
  BY <1>2, <1>3, <1>4, <1>5, <1>6, <1>7, <1>8, <1>9, <1>10, <1>11, <1>12, <1>13, <1>14, <1>15
     DEF Next

LEMMA EndingKept == IInv /\ [Next]_vars => Ending'
<1> SUFFICES ASSUME IInv, [Next]_vars PROVE Ending'
  OBVIOUS
<1>1. Ending
  BY DEF IInv
<1>2. CASE Sys_close
  <2>1. pc' \in {"commit", "cleanup"} /\ did' = did /\ did = 0
    BY <1>2 DEF Sys_close, Begin, ioVars, IInv, Calling
  <2>2. QED
    BY <2>1 DEF Ending
<1>3. CASE CommitDone \/ CommitFailed
  <2>1. UNCHANGED <<closing, did>> /\ pc' = IF closing THEN "cleanup" ELSE "again"
    BY <1>3 DEF CommitDone, CommitFailed, Finish, ioVars
  <2>2. QED
    BY <1>1, <2>1 DEF Ending
<1>4. CASE undo_cleanup \/ Crash
  <2>1. closing' = closing /\ did' = 0 /\ pc' = "closed"
    BY <1>4 DEF undo_cleanup, Crash, Gone
  <2>2. QED
    BY <2>1 DEF Ending
<1>5. NextBucket \/ Skipped \/ CopyPiece \/ UNCHANGED vars => UNCHANGED <<closing, did, pc>>
  BY DEF NextBucket, Skipped, CopyPiece, stepUnchanged, vars, ioVars, commitVars
<1>6. Sys_write \/ Put \/ Written \/ WriteFailed \/ CommitNow \/ NotNow \/ do_it_again
      \/ Direct \/ Sys_read \/ Get \/ GetImage \/ ReadImage \/ ReadReturns \/ Shutdown
      \/ KillCPU
        => closing' = closing /\ (closing => pc \notin {"commit", "cleanup", "closed"})
  BY DEF Sys_write, Put, putUnchanged, Written, WriteFailed, failedUnchanged, CommitNow, NotNow,
         do_it_again, Direct, Sys_read, Get, GetImage, ReadImage, readUnchanged, ReadReturns,
         Shutdown, KillCPU, Closing, commitVars
<1>7. QED
  BY <1>1, <1>2, <1>3, <1>4, <1>5, <1>6 DEF Next, Ending

-----------------------------------------------------------------------------
(* The undo file and what is read from it.                                 *)

LEMMA UndoInit == Init => Undo
<1> SUFFICES ASSUME Init PROVE Undo
  OBVIOUS
<1>1. m_table = Empty /\ m_next_offset = 0 /\ Len(host) = 0
  BY EmptySeq DEF Init
<1>2. QED
  BY <1>1, EmptyTable DEF Undo, IsKnown, InUndo

LEMMA UndoKept == IInv /\ [Next]_vars => Undo'
<1> SUFFICES ASSUME IInv, [Next]_vars PROVE Undo'
  OBVIOUS
<1>1. Undo /\ m_table \in Tables /\ host \in Seq(Data) /\ m_next_offset \in Nat
      /\ Len(host) \in Nat
  BY LenProperties DEF IInv, TypeOK
<1> DEFINE Same == UNCHANGED <<m_table, m_next_offset, m_dirty, host>>
           Runs == Running /\ mount_mode # "persistent"
<1>2. ASSUME Same, Runs' => Runs /\ m_status' = m_status /\ (~ Adding' => ~ Adding)
      PROVE  Undo'
  <2>1. /\ ListsIn(m_table') /\ OneToOneIn(m_table')
        /\ m_next_offset' <= Len(host')
    BY <1>1, <1>2 DEF Undo
  <2>2. \A b \in Block : IsKnown(b)' =>
          \/ Slot(b)' < m_next_offset'
          \/ Slot(b)' = m_next_offset' /\ Len(host') = m_next_offset'
    BY <1>1, <1>2 DEF Undo, IsKnown, Slot
  <2>3. ~ m_dirty' => \A b \in Block : ~ InUndo(b)'
    BY <1>1, <1>2 DEF Undo, InUndo, IsKnown, Slot
  <2>4. Runs' => /\ m_status' = "healthy" => Len(host') = m_next_offset'
                 /\ ~ Adding' => \A b \in Block : IsKnown(b)' => Slot(b)' < m_next_offset'
    <3>1. Runs => /\ m_status = "healthy" => Len(host) = m_next_offset
                  /\ ~ Adding => \A b \in Block : IsKnown(b) => Slot(b) < m_next_offset
      BY <1>1 DEF Undo
    <3> HIDE DEF Runs
    <3>2. \A b \in Block : (IsKnown(b)' <=> IsKnown(b)) /\ Slot(b)' = Slot(b)
      BY <1>2 DEF IsKnown, Slot
    <3>3. QED
      BY <1>2, <3>1, <3>2
  <2>5. QED
    BY <2>1, <2>2, <2>3, <2>4 DEF Undo
<1>3. ASSUME m_table' = Empty, m_next_offset' = 0, host' = << >> PROVE Undo'
  <2>1. Len(host') = 0
    BY <1>3, EmptySeq
  <2>2. QED
    BY <1>3, <2>1, EmptyTable DEF Undo, IsKnown, InUndo
<1>4. ASSUME NEW n \in Nat, HostTakes(n), ~ Adding', n > 0 => m_dirty',
             m_status' = "healthy" => Len(host') = m_next_offset',
             m_dirty => m_dirty', at \in Nat
      PROVE  Undo'
  <2>1. /\ ListsIn(m_table') /\ OneToOneIn(m_table') /\ m_next_offset' <= Len(host')
        /\ \A c \in Block : IsKnown(c)' => Slot(c)' < m_next_offset'
    BY <1>4 DEF HostTakes, IsKnown, Slot
  <2>2. ~ m_dirty' => \A b \in Block : ~ InUndo(b)'
    <3>1. SUFFICES ASSUME ~ m_dirty', NEW b \in Block PROVE ~ InUndo(b)'
      OBVIOUS
    <3>2. at .. at + n - 1 = {} /\ ~ m_dirty
      BY <1>4, <3>1
    <3>3. ~ InUndo(b)
      BY <1>1, <3>2 DEF Undo
    <3>4. QED
      BY <1>4, <3>2, <3>3 DEF HostTakes, InUndo, IsKnown, Slot
  <2>3. QED
    BY <1>4, <2>1, <2>2 DEF Undo
<1>5. CASE Put
  <2>1. /\ pc = "put" /\ pc' = "write" /\ UNCHANGED <<m_next_offset, m_dirty, host, mount_mode, m_status>>
    BY <1>5 DEF Put, putUnchanged, mountVars
  <2>2. Runs /\ m_status = "healthy" /\ ~ Adding
    BY <2>1 DEF IInv, Mounting, Running, Adding
  <2>3. /\ Len(host) = m_next_offset
        /\ \A b \in Block : IsKnown(b) => Slot(b) < m_next_offset
    BY <1>1, <2>2 DEF Undo
  <2>4. at \in Block /\ (PutFinds \/ PutAdds)
    BY <1>5, PutStep
  <2>5. CASE PutFinds
    <3>1. Same /\ ~ Adding'
      BY <2>1, <2>5 DEF PutFinds, Adding
    <3>2. QED
      BY <1>2, <2>1, <2>2, <3>1
  <2>6. CASE PutAdds
    <3>1. /\ m_table' \in Tables /\ ListsIn(m_table') /\ ~ IsKnown(at)
          /\ \A c \in Block : KnownIn(m_table', c) <=> IsKnown(c) \/ c = at
          /\ \A c \in Block : IsKnown(c) => SlotIn(m_table', c) = Slot(c)
          /\ SlotIn(m_table', at) = m_next_offset
          /\ piece'.new
      BY <2>6 DEF PutAdds
    <3>2. \A b \in Block : IsKnown(b) => Slot(b) \in Nat
      BY <1>1, KnownHasEntry DEF IsKnown, Slot, Undo
    <3>3. OneToOneIn(m_table')
      <4>1. SUFFICES ASSUME NEW b \in Block, NEW c \in Block,
                            KnownIn(m_table', b), KnownIn(m_table', c),
                            SlotIn(m_table', b) = SlotIn(m_table', c)
                     PROVE  b = c
        BY DEF OneToOneIn
      <4>2. CASE IsKnown(b) /\ IsKnown(c)
        BY <1>1, <3>1, <4>1, <4>2 DEF Undo, OneToOneIn, IsKnown, Slot
      <4>3. CASE ~ IsKnown(b) /\ ~ IsKnown(c)
        BY <3>1, <4>1, <4>3
      <4>4. ASSUME IsKnown(b), ~ IsKnown(c) PROVE FALSE
        <5>1. SlotIn(m_table', c) = m_next_offset /\ SlotIn(m_table', b) = Slot(b)
          BY <3>1, <4>1, <4>4
        <5>2. Slot(b) \in Nat /\ Slot(b) < m_next_offset /\ m_next_offset \in Nat
          BY <1>1, <2>3, <3>2, <4>4
        <5>3. SlotIn(m_table', b) = SlotIn(m_table', c)
          BY <4>1
        <5>4. QED
          BY <5>1, <5>2, <5>3
      <4>5. ASSUME ~ IsKnown(b), IsKnown(c) PROVE FALSE
        <5>1. SlotIn(m_table', b) = m_next_offset /\ SlotIn(m_table', c) = Slot(c)
          BY <3>1, <4>1, <4>5
        <5>2. Slot(c) \in Nat /\ Slot(c) < m_next_offset /\ m_next_offset \in Nat
          BY <1>1, <2>3, <3>2, <4>5
        <5>3. SlotIn(m_table', b) = SlotIn(m_table', c)
          BY <4>1
        <5>4. QED
          BY <5>1, <5>2, <5>3
      <4>6. QED
        BY <4>2, <4>3, <4>4, <4>5
    <3>4. \A b \in Block : IsKnown(b)' =>
            \/ Slot(b)' < m_next_offset'
            \/ Slot(b)' = m_next_offset' /\ Len(host') = m_next_offset'
      BY <2>1, <2>3, <3>1 DEF IsKnown, Slot
    <3>5. ~ m_dirty' => \A b \in Block : ~ InUndo(b)'
      <4>1. SUFFICES ASSUME ~ m_dirty, NEW b \in Block, InUndo(b)' PROVE FALSE
        BY <2>1
      <4>2. KnownIn(m_table', b) /\ SlotIn(m_table', b) < Len(host)
        BY <2>1, <4>1 DEF InUndo, IsKnown, Slot
      <4>3. IsKnown(b)
        BY <1>1, <2>3, <3>1, <4>2
      <4>4. InUndo(b)
        BY <3>1, <4>2, <4>3 DEF InUndo
      <4>5. QED
        BY <1>1, <4>1, <4>4 DEF Undo
    <3>6. Adding' /\ m_next_offset' <= Len(host') /\ Len(host') = m_next_offset'
      BY <1>1, <2>1, <2>3, <3>1 DEF Adding
    <3>7. QED
      BY <3>1, <3>3, <3>4, <3>5, <3>6 DEF Undo
  <2>7. QED
    BY <2>4, <2>5, <2>6
<1>6. CASE Written
  <2>1. /\ HostTakes(piece.size) /\ Len(host') = m_next_offset' /\ piece.size \in 1 .. left
        /\ at \in Block
    BY <1>6, WrittenStep
  <2>2. m_dirty' = TRUE /\ pc' \in {"idle", "put"}
    BY <1>6 DEF Written, Return
  <2>3. piece.size \in Nat /\ at \in Nat
    BY <2>1 DEF Block
  <2>4. QED
    BY <1>4, <2>1, <2>2, <2>3 DEF Adding
<1>7. CASE WriteFailed
  <2>1. PICK n \in 0 .. left : HostTakes(n) /\ (n > 0 => m_dirty)
    BY <1>7, WriteFailedStep
  <2>2. /\ m_dirty' = m_dirty /\ pc' \in {"idle", "ask"}
    BY <1>7 DEF WriteFailed, AfterFailure, failedUnchanged, Return
  <2>3. at \in Nat /\ n \in Nat /\ (m_status' = "healthy" => Len(host') = m_next_offset')
    BY <1>7, <2>1, WriteFailedStep DEF Block
  <2>4. QED
    BY <1>4, <2>1, <2>2, <2>3 DEF Adding
<1>8. CommitDone \/ CommitFailed \/ undo_cleanup \/ Crash
        => m_table' = Empty /\ m_next_offset' = 0 /\ host' = << >>
  BY DEF CommitDone, CommitFailed, Finish, undo_cleanup, Crash, Gone
<1>9. CASE Sys_write \/ Sys_read \/ NotNow \/ Direct \/ ReadReturns
  <2>1. Same /\ UNCHANGED <<mount_mode, m_status>>
    BY <1>9 DEF Sys_write, Sys_read, NotNow, Direct, ReadReturns, tableVars, mountVars
  <2>2. Running /\ ~ Adding
    BY <1>9 DEF Sys_write, Sys_read, NotNow, Direct, ReadReturns, Running, Adding
  <2>3. QED
    BY <1>2, <2>1, <2>2
<1>10. CASE Get \/ GetImage \/ ReadImage
  <2>1. Same /\ UNCHANGED <<mount_mode, m_status>> /\ pc \in {"get", "file"}
    BY <1>10 DEF Get, GetImage, ReadImage, readUnchanged, tableVars, mountVars
  <2>2. QED
    BY <1>2, <2>1 DEF Running, Adding
<1>11. CASE CommitNow \/ do_it_again \/ Shutdown \/ KillCPU \/ Sys_close
  <2>1. Same
    BY <1>11 DEF CommitNow, do_it_again, Shutdown, KillCPU, Closing, Sys_close, tableVars
  <2>2. pc' \in {"commit", "again", "close", "cleanup"} \/ mount_mode' = "persistent"
    BY <1>11 DEF CommitNow, do_it_again, Shutdown, KillCPU, Closing, Sys_close, Begin
  <2>3. QED
    BY <1>2, <2>1, <2>2 DEF Running
<1>12. CASE NextBucket \/ Skipped \/ CopyPiece \/ UNCHANGED vars
  <2>1. Same /\ UNCHANGED <<mount_mode, m_status, pc, piece>>
    BY <1>12 DEF NextBucket, Skipped, CopyPiece, stepUnchanged, vars, tableVars, mountVars, ioVars
  <2>2. QED
    BY <1>2, <2>1 DEF Running, Adding
<1>13. QED
  BY <1>3, <1>5, <1>6, <1>7, <1>8, <1>9, <1>10, <1>11, <1>12 DEF Next

LEMMA PuttingKept == IInv /\ [Next]_vars => Putting'
<1> SUFFICES ASSUME IInv, [Next]_vars, pc' = "write" PROVE Putting'
  BY DEF Putting
<1>1. CASE Put
  <2>1. at' = at /\ m_next_offset' = m_next_offset
    BY <1>1 DEF Put, putUnchanged, callVars, at
  <2>2. at \in Block /\ piece'.size \in 1 .. left /\ left \in Nat /\ (PutFinds \/ PutAdds)
    <3>1. left \in Nat
      BY <1>1, Within DEF IInv, Put
    <3>2. QED
      BY <1>1, <3>1, PutStep
  <2>3. CASE PutFinds
    <3>1. \A k \in 0 .. piece'.size - 1 : /\ KnownIn(m_table', at + k)
                                           /\ SlotIn(m_table', at + k) = piece'.slot + k
      BY <2>1, <2>3 DEF PutFinds, IsKnown, Slot
    <3>2. ~ piece'.new
      BY <2>3 DEF PutFinds
    <3>3. QED
      BY <2>1, <3>1, <3>2 DEF Putting, IsKnown, Slot
  <2>4. CASE PutAdds
    <3>1. /\ piece'.new /\ piece'.slot = m_next_offset
          /\ \A c \in Block : KnownIn(m_table', c) <=> IsKnown(c) \/ c = at
          /\ SlotIn(m_table', at) = m_next_offset
          /\ m_table'[hash_func(at)] # << >>
          /\ m_table'[hash_func(at)][Len(m_table'[hash_func(at)])].mac = at
          /\ \A k \in 1 .. piece'.size - 1 : /\ hash_func(at + k) = hash_func(at)
                                             /\ ~ IsKnown(at + k) /\ at + k \in Block
      BY <2>4 DEF PutAdds
    <3>2. KnownIn(m_table', at)
      BY <2>2, <3>1
    <3>3. \A k \in 1 .. piece'.size - 1 : at + k # at
      BY <2>2 DEF Block
    <3>4. \A k \in 1 .. piece'.size - 1 : hash_func(at + k) = hash_func(at)
                                          /\ ~ KnownIn(m_table', at + k)
      BY <3>1, <3>3
    <3>5. QED
      BY <2>1, <3>1, <3>2, <3>4 DEF Putting, IsKnown, Slot
  <2>5. QED
    BY <2>2, <2>3, <2>4
<1>2. CASE UNCHANGED vars
  <2>1. UNCHANGED <<pc, offset, did, piece, m_table, m_next_offset>>
    BY <1>2 DEF vars, ioVars, callVars, tableVars
  <2>2. at' = at
    BY <2>1 DEF at
  <2>3. Putting
    BY DEF IInv
  <2>4. QED
    BY <2>1, <2>2, <2>3 DEF Putting, IsKnown, Slot
<1>3. CASE NextBucket \/ Skipped \/ CopyPiece
  BY <1>3 DEF NextBucket, Skipped, CopyPiece, stepUnchanged
<1>4. ~ (\/ Sys_write \/ Written \/ WriteFailed \/ CommitNow \/ NotNow \/ do_it_again
         \/ Direct \/ Sys_read \/ Get \/ GetImage \/ ReadImage \/ ReadReturns)
  BY DEF Sys_write, Written, WriteFailed, AfterFailure, CommitNow, Begin, NotNow, do_it_again,
         Direct, Sys_read, Get, GetImage, ReadImage, Got, ReadReturns, Return
<1>5. ~ (CommitDone \/ CommitFailed \/ Shutdown \/ KillCPU \/ Sys_close \/ undo_cleanup \/ Crash)
  BY DEF CommitDone, CommitFailed, Finish, Shutdown, KillCPU, Closing, Sys_close, Begin,
         undo_cleanup, Crash, Gone
<1>6. QED
  BY <1>1, <1>2, <1>3, <1>4, <1>5 DEF Next

LEMMA CommittingKept == IInv /\ [Next]_vars => Committing'
<1> SUFFICES ASSUME IInv, [Next]_vars, pc' = "commit" PROVE Committing'
  BY DEF Committing
<1>1. TypeOK /\ ListsIn(m_table) /\ m_table \in Tables /\ bucket \in 0 .. NBuckets /\ index \in Nat \ {0}
  BY DEF IInv, TypeOK, Undo
<1>2. \A b \in Block : IsKnown(b) => /\ hash_func(b) \in Bucket
                                     /\ PlaceIn(m_table, b) \in DOMAIN m_table[hash_func(b)]
                                     /\ PlaceIn(m_table, b) \in Nat \ {0}
                                     /\ m_table[hash_func(b)][PlaceIn(m_table, b)].mac = b
  BY <1>1, KnownHasEntry DEF IsKnown
<1>3. ASSUME UNCHANGED <<m_table, host>>,
             \A b \in Block : InUndo(b) /\ Passed(b)' => file'[b] = host[Slot(b) + 1]
      PROVE  Committing'
  BY <1>3 DEF Committing, InUndo, IsKnown, Slot
<1>4. pc = "commit" => \A b \in Block : InUndo(b) /\ Passed(b) => file[b] = host[Slot(b) + 1]
  BY DEF IInv, Committing
<1>5. ASSUME bucket' = 0, index' = 1, m_table' = m_table,
             NEW b \in Block, InUndo(b), Passed(b)'
      PROVE  FALSE
  BY <1>2, <1>5 DEF Passed, InUndo, Bucket
<1>6. CASE CommitNow \/ Sys_close
  <2>1. UNCHANGED <<m_table, host>> /\ bucket' = 0 /\ index' = 1
    BY <1>6 DEF CommitNow, Sys_close, Begin, tableVars
  <2>2. QED
    BY <1>3, <1>5, <2>1
<1>7. CASE NextBucket
  <2>1. /\ UNCHANGED <<m_table, host, file>> /\ bucket' = bucket + 1 /\ index' = 1
        /\ pc = "commit" /\ index > Len(list) /\ bucket \in Bucket
    BY <1>7 DEF NextBucket, stepUnchanged, tableVars
  <2>2. m_table[bucket] \in Seq(Entry) /\ list = m_table[bucket]
    BY <1>1, <2>1 DEF Tables, list
  <2>3. DOMAIN m_table[bucket] = 1 .. Len(list) /\ Len(list) \in Nat
    BY <2>2, LenProperties
  <2>4. ASSUME NEW b \in Block, InUndo(b), Passed(b)' PROVE Passed(b)
    <3>1. /\ hash_func(b) \in Bucket /\ PlaceIn(m_table, b) \in DOMAIN m_table[hash_func(b)]
          /\ PlaceIn(m_table, b) \in Nat \ {0}
      BY <1>2, <2>4 DEF InUndo
    <3>2. \/ hash_func(b) < bucket + 1
          \/ hash_func(b) = bucket + 1 /\ PlaceIn(m_table, b) < 1
      BY <2>1, <2>4 DEF Passed
    <3>3. hash_func(b) < bucket \/ hash_func(b) = bucket
      BY <1>1, <3>1, <3>2 DEF Bucket
    <3>4. hash_func(b) = bucket => PlaceIn(m_table, b) < index
      BY <1>1, <2>1, <2>3, <3>1
    <3>5. QED
      BY <3>3, <3>4 DEF Passed
  <2>5. QED
    BY <1>3, <1>4, <2>1, <2>4
<1>8. CASE Skipped
  <2>1. /\ UNCHANGED <<m_table, host, file, bucket>> /\ index' = index + 1
        /\ pc = "commit" /\ list[index].mac = INVALID
    BY <1>8 DEF Skipped, stepUnchanged, tableVars
  <2>2. ASSUME NEW b \in Block, InUndo(b), Passed(b)' PROVE Passed(b)
    <3>1. /\ PlaceIn(m_table, b) \in Nat /\ m_table[hash_func(b)][PlaceIn(m_table, b)].mac = b
      BY <1>2, <2>2 DEF InUndo
    <3>2. \/ hash_func(b) < bucket
          \/ hash_func(b) = bucket /\ PlaceIn(m_table, b) < index + 1
      BY <2>1, <2>2 DEF Passed
    <3>3. hash_func(b) = bucket => PlaceIn(m_table, b) # index
      BY <2>1, <3>1 DEF list, Block, INVALID
    <3>4. QED
      BY <1>1, <3>1, <3>2, <3>3 DEF Passed
  <2>3. QED
    BY <1>3, <1>4, <2>1, <2>2
<1>9. CASE CopyPiece
  <2>1. /\ UNCHANGED <<m_table, host, bucket>> /\ index' = index + Joint
        /\ pc = "commit" /\ bucket \in Bucket /\ index \in DOMAIN list
        /\ list[index].mac # INVALID /\ Holds(list[index].host, Joint)
        /\ file' = Copied(list[index], Joint)
    BY <1>9 DEF CopyPiece, stepUnchanged, tableVars
  <2>2. Joint \in 1 .. Joined
    <3>1. list \in Seq(Entry)
      BY <1>1, <2>1 DEF list, Tables
    <3>2. QED
      BY <2>1, <3>1, NeighboursJoin DEF Joint
  <2>3. Joint \in 1 .. Joint /\ Joint \in Nat
    BY <2>2
  <2>4. Copies(Joint)
    BY <1>1, <2>1, <2>3, CopyStep
  <2>5. \A b \in Block : /\ InUndo(b) /\ hash_func(b) = bucket
                         /\ PlaceIn(m_table, b) \in index .. index + Joint - 1
                         => Here(b, Joint)
    BY <1>1, <2>1, <2>3, PieceFact
  <2>6. ASSUME NEW b \in Block, InUndo(b), Passed(b)' PROVE file'[b] = host[Slot(b) + 1]
    <3>1. PlaceIn(m_table, b) \in Nat
      BY <1>2, <2>6 DEF InUndo
    <3>2. \/ hash_func(b) < bucket
          \/ hash_func(b) = bucket /\ PlaceIn(m_table, b) < index + Joint
      BY <2>1, <2>6 DEF Passed
    <3>3. CASE Passed(b)
      <4>1. file[b] = host[Slot(b) + 1]
        BY <1>4, <2>1, <2>6, <3>3
      <4>2. QED
        BY <2>4, <2>6, <4>1 DEF Copies
    <3>4. CASE ~ Passed(b)
      <4>1. hash_func(b) = bucket /\ PlaceIn(m_table, b) \in index .. index + Joint - 1
        BY <1>1, <2>3, <3>1, <3>2, <3>4 DEF Passed
      <4>2. QED
        BY <2>4, <2>5, <2>6, <4>1 DEF Copies
    <3>5. QED
      BY <3>3, <3>4
  <2>7. QED
    BY <1>3, <2>1, <2>6
<1>10. CASE UNCHANGED vars
  <2>1. UNCHANGED <<pc, m_table, host, file, bucket, index>>
    BY <1>10 DEF vars, tableVars, commitVars
  <2>2. QED
    BY <1>3, <1>4, <2>1 DEF Passed
<1>11. ~ (\/ Sys_write \/ Put \/ Written \/ WriteFailed \/ NotNow \/ do_it_again
          \/ Direct \/ Sys_read \/ Get \/ GetImage \/ ReadImage \/ ReadReturns)
  BY DEF Sys_write, Put, Written, WriteFailed, AfterFailure, NotNow, do_it_again,
         Direct, Sys_read, Get, GetImage, ReadImage, Got, ReadReturns, Return
<1>12. ~ (CommitDone \/ CommitFailed \/ Shutdown \/ KillCPU \/ undo_cleanup \/ Crash)
  BY DEF CommitDone, CommitFailed, Finish, Shutdown, KillCPU, Closing, undo_cleanup, Crash, Gone
<1>13. QED
  BY <1>6, <1>7, <1>8, <1>9, <1>10, <1>11, <1>12 DEF Next

\* The buffer holds what the disk holds: the reads put it there, and nothing else
\* happens meanwhile.
LEMMA ReadsKept == IInv /\ [Next]_vars => ReadsAreCurrent'
<1> SUFFICES ASSUME IInv, [Next]_vars PROVE ReadsAreCurrent'
  OBVIOUS
<1>1. TypeOK /\ ListsIn(m_table) /\ ReadsAreCurrent /\ did \in Nat
  BY DEF IInv, Undo, TypeOK
<1>2. buffer' \in Seq(Data) /\ Len(buffer') = IF pc' \in {"get", "file", "returned"} THEN did' ELSE 0
  BY TypesKept, CallingKept DEF TypeOK, Calling
<1>3. DOMAIN buffer' = 1 .. Len(buffer')
  BY <1>2, LenProperties
<1>4. ASSUME Len(buffer') = 0 PROVE ReadsAreCurrent'
  <2>1. DOMAIN buffer' = {}
    BY <1>3, <1>4
  <2>2. QED
    BY <2>1 DEF ReadsAreCurrent
<1>5. CASE Get \/ GetImage \/ ReadImage
  <2>1. PICK n \in 1 .. left : Reads(n)
    BY <1>5, GetStep, ImageStep
  <2>2. UNCHANGED <<file, m_table, m_file, host, offset>> /\ pc \in {"get", "file"}
    BY <1>5 DEF Get, GetImage, ReadImage, readUnchanged, tableVars, callVars
  <2>3. View' = View
    BY <2>2, Zenon DEF View, Known, Places, find_entry, Holds
  <2>4. Len(buffer) = did /\ DOMAIN buffer = 1 .. did
    <3>1. Len(buffer) = did /\ buffer \in Seq(Data)
      BY <1>1, <2>2 DEF IInv, Calling, TypeOK
    <3>2. QED
      BY <3>1, LenProperties
  <2>5. ASSUME ~ misread', NEW i \in 1 .. did + n PROVE buffer'[i] = View[offset + i - 1]
    <3>1. CASE i \in 1 .. did
      BY <1>1, <2>1, <2>4, <2>5, <3>1 DEF Reads, ReadsAreCurrent
    <3>2. CASE i \notin 1 .. did
      <4>1. i \in did + 1 .. did + n
        BY <1>1, <3>2
      <4>2. QED
        BY <2>1, <2>5, <4>1 DEF Reads
    <3>3. QED
      BY <3>1, <3>2
  <2>6. DOMAIN buffer' = 1 .. did + n
    BY <1>3, <2>1 DEF Reads
  <2>7. QED
    BY <2>2, <2>3, <2>5, <2>6 DEF ReadsAreCurrent
<1>6. CASE Sys_read
  <2>1. Len(buffer) = 0 /\ buffer' = buffer
    BY <1>6 DEF Sys_read, IInv, Calling
  <2>2. QED
    BY <1>4, <2>1
<1>7. CASE UNCHANGED vars
  <2>1. UNCHANGED <<file, m_table, m_file, host, offset, buffer, misread>>
    BY <1>7 DEF vars, tableVars, ioVars, callVars
  <2>2. View' = View
    BY <2>1, Zenon DEF View, Known, Places, find_entry, Holds
  <2>3. QED
    BY <1>1, <2>1, <2>2 DEF ReadsAreCurrent
<1>8. CASE NextBucket \/ Skipped \/ CopyPiece
  <2>1. pc' = "commit"
    BY <1>8 DEF NextBucket, Skipped, CopyPiece, stepUnchanged
  <2>2. QED
    BY <1>2, <1>4, <2>1
<1>9. \/ Sys_write \/ Put \/ Written \/ WriteFailed \/ CommitNow \/ NotNow \/ do_it_again
      \/ Direct \/ ReadReturns
   => pc' \in {"put", "direct", "write", "idle", "ask", "commit", "again"}
  BY DEF Sys_write, Put, Written, WriteFailed, AfterFailure, CommitNow, Begin, NotNow,
         do_it_again, Direct, ReadReturns, Return
<1>10. CommitDone \/ CommitFailed \/ Shutdown \/ KillCPU \/ Sys_close \/ undo_cleanup \/ Crash
   => pc' \in {"cleanup", "again", "close", "commit", "closed"}
  BY DEF CommitDone, CommitFailed, Finish, Shutdown, KillCPU, Closing, Sys_close, Begin,
         undo_cleanup, Crash, Gone
<1>11. pc' \notin {"get", "file", "returned"} => ReadsAreCurrent'
  BY <1>2, <1>4
<1>12. QED
  BY <1>5, <1>6, <1>7, <1>8, <1>9, <1>10, <1>11 DEF Next

-----------------------------------------------------------------------------
(* The invariant.                                                          *)

LEMMA IInvInit == Init => IInv
<1> SUFFICES ASSUME Init PROVE IInv
  OBVIOUS
<1>1. Putting /\ Committing /\ Ending
  BY DEF Init, Putting, Committing, Ending
<1>2. ReadsAreCurrent
  <2>1. DOMAIN buffer = {}
    BY DEF Init
  <2>2. QED
    BY <2>1 DEF ReadsAreCurrent
<1>3. QED
  BY <1>1, <1>2, TypesInit, MountingInit, CallingInit, UndoInit DEF IInv

LEMMA IInvKept == IInv /\ [Next]_vars => IInv'
  BY TypesKept, MountingKept, CallingKept, EndingKept, UndoKept, PuttingKept, CommittingKept,
     ReadsKept DEF IInv

\* The invariant of the image: its table and its undo file fit each other, the
\* blocks a commit has passed are in the image, and what was read is what the disk
\* holds (undo_buffer, undoable_read, undoable_write, Sys_write, Sys_close).
THEOREM Invariance == Spec => []IInv
<1>1. Init => IInv
  BY IInvInit
<1>2. IInv /\ [Next]_vars => IInv'
  BY IInvKept
<1>3. QED
  BY <1>1, <1>2, PTL DEF Spec

\* What Sys_read returns is what the disk holds, the blocks of a failing undo file
\* excepted (undo_buffer::get_n, undoable_read).
THEOREM ReadsAreCurrentHolds == Spec => []ReadsAreCurrent
<1>1. IInv => ReadsAreCurrent
  BY DEF IInv
<1>2. QED
  BY <1>1, Invariance, PTL

\* The type invariant.
THEOREM TypeCorrect == Spec => []TypeOK
<1>1. IInv => TypeOK
  BY DEF IInv
<1>2. QED
  BY <1>1, Invariance, PTL

LEMMA TableFromInvariant == IInv => TableIsExact
<1> SUFFICES ASSUME IInv PROVE TableIsExact
  OBVIOUS
<1>1. /\ m_table \in Tables /\ ListsIn(m_table) /\ OneToOneIn(m_table)
      /\ m_next_offset \in Nat /\ host \in Seq(Data) /\ Len(host) \in Nat
      /\ m_next_offset <= Len(host)
  BY LenProperties DEF IInv, TypeOK, Undo
<1>2. ASSUME NEW p \in Valid
      PROVE  /\ p \in Bucket \X (1 .. NBlocks + 1)
             /\ p = <<p[1], p[2]>> /\ EntryAt(p).mac \in Block
             /\ p[1] = hash_func(EntryAt(p).mac)
             /\ p[2] = PlaceIn(m_table, EntryAt(p).mac)
             /\ KnownIn(m_table, EntryAt(p).mac)
             /\ EntryAt(p).host = SlotIn(m_table, EntryAt(p).mac)
             /\ EntryAt(p).host \in Nat
  <2>1. /\ p \in Bucket \X (1 .. NBlocks + 1) /\ p[2] \in DOMAIN m_table[p[1]]
        /\ EntryAt(p).mac # INVALID
    BY DEF Valid, AllEntries
  <2>2. p[1] \in Bucket /\ p = <<p[1], p[2]>>
    BY <2>1
  <2>3. EntryAt(p) = m_table[p[1]][p[2]]
    BY DEF EntryAt
  <2>4. /\ EntryAt(p).mac \in Block /\ hash_func(EntryAt(p).mac) = p[1]
        /\ KnownIn(m_table, EntryAt(p).mac) /\ PlaceIn(m_table, EntryAt(p).mac) = p[2]
        /\ SlotIn(m_table, EntryAt(p).mac) = EntryAt(p).host
    BY <1>1, <2>1, <2>2, <2>3, Found
  <2>5. SlotIn(m_table, EntryAt(p).mac) \in Nat
    BY <1>1, <2>4, KnownHasEntry
  <2>6. QED
    BY <2>1, <2>2, <2>4, <2>5
<1>3. ASSUME NEW p \in Valid, NEW q \in Valid,
             EntryAt(p).mac = EntryAt(q).mac \/ EntryAt(p).host = EntryAt(q).host
      PROVE  p = q
  <2>1. EntryAt(p).mac = EntryAt(q).mac
    BY <1>1, <1>2, <1>3 DEF OneToOneIn
  <2>2. p[1] = q[1] /\ p[2] = q[2]
    BY <1>2, <2>1
  <2>3. p = <<p[1], p[2]>> /\ q = <<q[1], q[2]>>
    BY <1>2
  <2>4. QED
    BY <2>2, <2>3
<1>4. ASSUME NEW p \in Valid
      PROVE  \/ EntryAt(p).host < m_next_offset
             \/ EntryAt(p).host = m_next_offset /\ ~ Holds(EntryAt(p).host, 1)
  <2> DEFINE b == EntryAt(p).mac
  <2>1. b \in Block /\ IsKnown(b) /\ Slot(b) = EntryAt(p).host /\ Slot(b) \in Nat
    BY <1>2 DEF IsKnown, Slot
  <2> HIDE DEF b
  <2>2. Slot(b) < m_next_offset \/ (Slot(b) = m_next_offset /\ Len(host) = m_next_offset)
    BY <2>1 DEF IInv, Undo
  <2>3. QED
    BY <1>1, <2>1, <2>2 DEF Holds
<1> DEFINE Unheld == {p \in Valid : ~ Holds(EntryAt(p).host, 1)}
<1>5. ASSUME NEW p \in Unheld, NEW q \in Unheld PROVE p = q
  <2>1. \A r \in Unheld : EntryAt(r).host = m_next_offset
    <3>1. SUFFICES ASSUME NEW r \in Unheld PROVE ~ (EntryAt(r).host < m_next_offset)
      BY <1>4
    <3>2. r \in Valid /\ EntryAt(r).host \in Nat /\ ~ (EntryAt(r).host + 1 <= Len(host))
      BY <1>2 DEF Holds
    <3>3. QED
      BY <1>1, <3>2
  <2>2. EntryAt(p).host = EntryAt(q).host
    BY <2>1
  <2>3. QED
    BY <1>3, <2>2
<1> HIDE DEF Unheld
<1>6. Cardinality(Unheld) <= 1
  <2>1. CASE Unheld = {}
    <3>1. Cardinality(Unheld) = 0
      BY <2>1, FS_EmptySet
    <3>2. QED
      BY <3>1
  <2>2. ASSUME NEW p \in Unheld PROVE Cardinality(Unheld) <= 1
    <3>1. Unheld = {p}
      BY <1>5
    <3>2. Cardinality(Unheld) = 1
      BY <3>1, FS_Singleton
    <3>3. QED
      BY <3>2
  <2>3. QED
    BY <2>1, <2>2
<1>7. \A p \in Valid : p[1] = hash_func(EntryAt(p).mac)
  BY <1>2
<1>8. \A p, q \in Valid : p # q => /\ EntryAt(p).mac # EntryAt(q).mac
                                   /\ EntryAt(p).host # EntryAt(q).host
  BY <1>3
<1>9. \A p \in Valid : EntryAt(p).host < m_next_offset \/ ~ Holds(EntryAt(p).host, 1)
  BY <1>4
<1>10. QED
  BY <1>6, <1>7, <1>8, <1>9 DEF TableIsExact, Unheld

\* Every block has one entry at most, in its list and with a slot of its own
\* (undo_buffer::put_n, with failing writes and a killed thread).
THEOREM TableIsExactHolds == Spec => []TableIsExact
  BY Invariance, TableFromInvariant, PTL

-----------------------------------------------------------------------------
(* The image implements the disk of Volume.                                *)

\* The disk is a function of the image and of what is in the undo file.
LEMMA SameView ==
  ASSUME ViewFact, ViewFact',
         \A b \in Block : (m_file /\ InUndo(b))' <=> m_file /\ InUndo(b),
         \A b \in Block : m_file /\ InUndo(b) =>
            host'[SlotIn(m_table', b) + 1] = host[Slot(b) + 1],
         \A b \in Block : ~ (m_file /\ InUndo(b)) => file'[b] = file[b]
  PROVE  View' = View
<1>1. ASSUME NEW b \in Block PROVE View'[b] = View[b]
  BY DEF ViewFact, Slot
<1>2. View \in [Block -> Data] /\ View' \in [Block -> Data]
  BY DEF ViewFact
<1> HIDE DEF View
<1>3. QED
  BY <1>1, <1>2

\* Without an undo file, or when nothing was written to it, the disk is the image.
LEMMA PlainView ==
  ASSUME ViewFact, file \in [Block -> Data],
         ~ m_file \/ \A b \in Block : ~ InUndo(b)
  PROVE  View = file
<1>1. \A b \in Block : View[b] = file[b]
  BY DEF ViewFact
<1>2. View \in [Block -> Data]
  BY DEF ViewFact
<1> HIDE DEF View
<1>3. QED
  BY <1>1, <1>2

\* The disk only looks at these.
LEMMA UntouchedView ==
  UNCHANGED <<file, m_table, m_file, host>> => View' = View
<1>1. SUFFICES ASSUME file' = file, m_table' = m_table, m_file' = m_file, host' = host
               PROVE  View' = View
  OBVIOUS
<1>2. QED
  BY <1>1, Zenon DEF View, Known, Places, find_entry, Holds

\* The steps of Volume that leave the file alone.
Stutters == UNCHANGED <<file, View, Phase, Torn>>

LEMMA StuttersImplement == Stutters => [Disk!Next]_(Disk!vars)
  BY Zenon DEF Stutters, Disk!vars

\* n blocks from b on are written to the disk, in one of the two phases.
Wrote(b, n) ==
  /\ Phase \in {"overlay", "direct"} /\ UNCHANGED <<Phase, Torn>>
  /\ View' = [c \in Block |-> IF c \in b .. b + n - 1 THEN writes ELSE View[c]]
  /\ file' = IF Phase = "direct" THEN View' ELSE file

LEMMA WroteImplements ==
  ASSUME NEW b \in Block, NEW n \in Nat \ {0}, b + n <= NBlocks, writes \in Data, Wrote(b, n)
  PROVE  [Disk!Next]_(Disk!vars)
<1> DEFINE to == b + n - 1
<1>1. to \in Block
  BY DEF Block
<1> HIDE DEF to
<1>2. View' = [c \in Block |-> IF c \in b .. to THEN writes ELSE View[c]]
  BY Zenon DEF Wrote, to
<1>3. \E f, t \in Block, d \in Data :
        View' = [c \in Block |-> IF c \in f .. t THEN d ELSE View[c]]
  BY <1>1, <1>2, Zenon
<1>4. Disk!Write
  BY <1>3, Zenon DEF Wrote, Disk!Write
<1>5. QED
  BY <1>4, Zenon DEF Disk!Next

\* Some blocks are copied from the disk to the file.
SomeCopied ==
  \E done \in SUBSET Block : file' = [b \in Block |-> IF b \in done THEN View[b] ELSE file[b]]

LEMMA SaveImplements ==
  ASSUME Phase \in {"overlay", "saving"}, Phase' = "saving", SomeCopied, UNCHANGED <<View, Torn>>
  PROVE  [Disk!Next]_(Disk!vars)
<1>1. Disk!Copied
  BY Zenon DEF SomeCopied, Disk!Copied
<1>2. Disk!Save
  BY <1>1, Zenon DEF Disk!Save
<1>3. QED
  BY <1>2, Zenon DEF Disk!Next

LEMMA SavedImplements ==
  ASSUME Phase \in {"overlay", "saving"}, Phase' = "direct", file = View,
         UNCHANGED <<file, View, Torn>>
  PROVE  [Disk!Next]_(Disk!vars)
<1>1. Disk!Saved
  BY Zenon DEF Disk!Saved
<1>2. QED
  BY <1>1, Zenon DEF Disk!Next

LEMMA SaveFailedImplements ==
  ASSUME Phase = "saving", Phase' = "direct", SomeCopied, View' = file', Torn' = TRUE
  PROVE  [Disk!Next]_(Disk!vars)
<1>1. Disk!Copied
  BY Zenon DEF SomeCopied, Disk!Copied
<1>2. Disk!SaveFailed
  BY <1>1, Zenon DEF Disk!SaveFailed
<1>3. QED
  BY <1>2, Zenon DEF Disk!Next

LEMMA CloseImplements ==
  ASSUME Phase # "closed", Phase' = "closed", View' = file, Torn' = (Torn \/ Phase = "saving"),
         UNCHANGED file
  PROVE  [Disk!Next]_(Disk!vars)
<1>1. Disk!Close
  BY Zenon DEF Disk!Close
<1>2. QED
  BY <1>1, Zenon DEF Disk!Next

\* The disk in terms of blocks, before and after a step.
LEMMA Views == IInv /\ IInv' => ViewFact /\ ViewFact'
<1>1. TypeOK /\ ListsIn(m_table) => ViewFact
  BY ViewIs
<1>2. (TypeOK /\ ListsIn(m_table) => ViewFact)'
  BY <1>1, ViewIs, PTL
<1>3. IInv => TypeOK /\ ListsIn(m_table)
  BY DEF IInv, Undo
<1>4. IInv' => TypeOK' /\ ListsIn(m_table')
  BY DEF IInv, Undo
<1>5. QED
  BY <1>1, <1>2, <1>3, <1>4

LEMMA InitImplements == Init => Disk!Init
<1> SUFFICES ASSUME Init PROVE Disk!Init
  OBVIOUS
<1>1. IInv
  BY IInvInit
<1>2. ViewFact /\ file \in [Block -> Data]
  BY <1>1, ViewIs DEF IInv, Undo, TypeOK
<1>3. \A b \in Block : ~ InUndo(b)
  BY EmptyTable DEF Init, InUndo, IsKnown
<1>4. View = file
  BY <1>2, <1>3, PlainView
<1>5. Phase \in {"overlay", "direct"} /\ Torn = FALSE
  BY DEF Init, Phase, Torn
<1>6. QED
  BY <1>2, <1>4, <1>5, Zenon DEF Disk!Init

LEMMA WriteImplements == IInv /\ IInv' /\ (Written \/ WriteFailed) => [Disk!Next]_(Disk!vars)
<1> SUFFICES ASSUME IInv, IInv', Written \/ WriteFailed PROVE [Disk!Next]_(Disk!vars)
  OBVIOUS
<1>1. ViewFact /\ ViewFact'
  BY Views
<1>2. pc = "write" /\ pc' \in {"idle", "put", "ask"}
      /\ UNCHANGED <<file, m_file, mount_mode, commit>>
  BY DEF Written, WriteFailed, AfterFailure, failedUnchanged, Return, mountVars, commitVars
<1>3. m_file /\ mount_mode # "persistent" /\ commit = "none"
  BY <1>2 DEF IInv, Mounting, Running
<1>4. Phase = "overlay" /\ Phase' = "overlay" /\ Torn' = Torn
  BY <1>2, <1>3 DEF Phase, Torn
<1>5. at \in Block /\ left \in Nat /\ at + left <= NBlocks /\ at \in Nat
      /\ writes \in Data
  BY <1>2, Within DEF IInv, TypeOK
<1>6. PICK n \in 0 .. left : HostTakes(n)
  <2>1. CASE Written
    <3>1. HostTakes(piece.size) /\ piece.size \in 1 .. left
      BY <2>1, WrittenStep
    <3>2. piece.size \in 0 .. left
      BY <1>5, <3>1
    <3>3. QED
      BY <3>1, <3>2
  <2>2. CASE WriteFailed
    BY <2>2, WriteFailedStep
  <2>3. QED
    BY <2>1, <2>2
<1>7. ASSUME NEW c \in Block
      PROVE  View'[c] = IF c \in at .. at + n - 1 THEN writes ELSE View[c]
  <2>1. View'[c] = IF KnownIn(m_table', c) /\ SlotIn(m_table', c) < Len(host')
                   THEN host'[SlotIn(m_table', c) + 1] ELSE file[c]
    BY <1>1, <1>2, <1>3 DEF ViewFact, InUndo, IsKnown, Slot
  <2>2. View[c] = IF InUndo(c) THEN host[Slot(c) + 1] ELSE file[c]
    BY <1>1, <1>3 DEF ViewFact
  <2>3. CASE c \in at .. at + n - 1
    BY <1>6, <2>1, <2>3 DEF HostTakes
  <2>4. CASE c \notin at .. at + n - 1
    BY <1>6, <2>1, <2>2, <2>4 DEF HostTakes
  <2>5. QED
    BY <2>3, <2>4
<1>8. View \in [Block -> Data] /\ View' \in [Block -> Data]
  BY <1>1 DEF ViewFact
<1>9. CASE n = 0
  <2>1. \A c \in Block : c \notin at .. at + n - 1
    BY <1>5, <1>9 DEF Block
  <2>2. \A c \in Block : View'[c] = View[c]
    BY <1>7, <2>1
  <2>3. View' = View
    BY <1>8, <2>2
  <2>4. QED
    BY <1>2, <1>4, <2>3, StuttersImplement DEF Stutters
<1>10. CASE n # 0
  <2>1. View' = [c \in Block |-> IF c \in at .. at + n - 1 THEN writes ELSE View[c]]
    BY <1>7, <1>8
  <2>2. Wrote(at, n)
    BY <1>2, <1>4, <2>1, Zenon DEF Wrote
  <2>3. n \in Nat \ {0} /\ at + n <= NBlocks
    BY <1>5, <1>10
  <2>4. QED
    BY <1>5, <2>2, <2>3, WroteImplements
<1>11. QED
  BY <1>9, <1>10

LEMMA DirectImplements == IInv /\ IInv' /\ Direct => [Disk!Next]_(Disk!vars)
<1> SUFFICES ASSUME IInv, IInv', Direct PROVE [Disk!Next]_(Disk!vars)
  OBVIOUS
<1>1. ViewFact /\ ViewFact'
  BY Views
<1>2. PICK n \in 0 .. length : file' = Stored(offset, n, writes)
  BY DEF Direct
<1>3. /\ pc = "direct" /\ pc' = "idle"
      /\ UNCHANGED <<m_file, mount_mode, commit, m_table, host, m_dirty>>
  BY DEF Direct, Return, mountVars, commitVars, tableVars
<1>4. /\ file \in [Block -> Data] /\ file' \in [Block -> Data] /\ writes \in Data
      /\ offset \in Block /\ length \in 0 .. NBlocks - offset
  BY DEF IInv, TypeOK
<1>5. mount_mode = "persistent" /\ ~ m_dirty /\ ~ m_dirty'
  BY <1>3 DEF IInv, Mounting
<1>6. \A b \in Block : ~ InUndo(b) /\ ~ InUndo(b)'
  BY <1>5 DEF IInv, Undo
<1>7. View = file
  BY <1>1, <1>4, <1>6, PlainView
<1>8. View' = file'
  <2>1. \A b \in Block : View'[b] = file'[b]
    BY <1>1, <1>6 DEF ViewFact
  <2>2. View' \in [Block -> Data]
    BY <1>1 DEF ViewFact
  <2>3. QED
    BY <1>4, <2>1, <2>2
<1>9. Phase = "direct" /\ Phase' = "direct" /\ Torn' = Torn
  BY <1>3, <1>5 DEF Phase, Torn, IInv, Mounting
<1>10. file' = [c \in Block |-> IF c \in offset .. offset + n - 1 THEN writes ELSE file[c]]
  BY <1>2 DEF Stored
<1>11. CASE n = 0
  <2>1. \A c \in Block : c \notin offset .. offset + n - 1
    BY <1>4, <1>11 DEF Block
  <2>2. \A c \in Block : file'[c] = file[c]
    BY <1>10, <2>1
  <2>3. file' = file
    BY <1>4, <2>2
  <2>4. QED
    BY <1>7, <1>8, <1>9, <2>3, StuttersImplement DEF Stutters
<1>12. CASE n # 0
  <2>1. Wrote(offset, n)
    BY <1>7, <1>8, <1>9, <1>10, Zenon DEF Wrote
  <2>2. offset \in Nat /\ n \in Nat \ {0} /\ offset + n <= NBlocks
    BY <1>4, <1>12 DEF Block
  <2>3. QED
    BY <1>4, <2>1, <2>2, WroteImplements
<1>13. QED
  BY <1>11, <1>12

LEMMA PutImplements == IInv /\ IInv' /\ Put => [Disk!Next]_(Disk!vars)
<1> SUFFICES ASSUME IInv, IInv', Put PROVE [Disk!Next]_(Disk!vars)
  OBVIOUS
<1>1. ViewFact /\ ViewFact'
  BY Views
<1>2. /\ pc = "put" /\ pc' = "write"
      /\ UNCHANGED <<file, m_file, mount_mode, commit, host, m_next_offset>>
  BY DEF Put, putUnchanged, mountVars, commitVars
<1>3. Phase' = Phase /\ Torn' = Torn
  BY <1>2 DEF Phase, Torn
<1>4. Len(host) = m_next_offset /\ m_next_offset \in Nat
  <2>1. Running /\ mount_mode # "persistent" /\ m_status = "healthy"
    BY <1>2 DEF IInv, Mounting, Running
  <2>2. QED
    BY <2>1 DEF IInv, TypeOK, Undo
<1>5. at \in Block /\ (PutFinds \/ PutAdds)
  BY PutStep
<1>6. CASE PutFinds
  <2>1. View' = View
    BY <1>2, <1>6, UntouchedView DEF PutFinds
  <2>2. QED
    BY <1>2, <1>3, <2>1, StuttersImplement DEF Stutters
<1>7. CASE PutAdds
  <2>1. /\ \A c \in Block : KnownIn(m_table', c) <=> IsKnown(c) \/ c = at
        /\ \A c \in Block : IsKnown(c) => SlotIn(m_table', c) = Slot(c)
        /\ SlotIn(m_table', at) = m_next_offset /\ ~ IsKnown(at)
    BY <1>7 DEF PutAdds
  <2>2. \A c \in Block : /\ InUndo(c)' <=> InUndo(c)
                         /\ InUndo(c) => SlotIn(m_table', c) = Slot(c)
    BY <1>2, <1>4, <2>1 DEF InUndo, IsKnown, Slot
  <2>3. View' = View
    BY <1>1, <1>2, <2>2, SameView
  <2>4. QED
    BY <1>2, <1>3, <2>3, StuttersImplement DEF Stutters
<1>8. QED
  BY <1>5, <1>6, <1>7

\* A piece that was copied, or a part of it, is where the disk already was.
LEMMA CopiedIsSomeCopied ==
  ASSUME ViewFact, m_file, NEW m, Copies(m), file \in [Block -> Data]
  PROVE  SomeCopied
<1> DEFINE done == {b \in Block : Here(b, m)}
<1>1. \A b \in Block : file'[b] = IF b \in done THEN View[b] ELSE file[b]
  BY DEF ViewFact, Copies
<1>2. file' \in [Block -> Data] /\ done \subseteq Block
  BY DEF Copies
<1> HIDE DEF done
<1>3. file' = [b \in Block |-> IF b \in done THEN View[b] ELSE file[b]]
  BY <1>1, <1>2
<1>4. QED
  BY <1>2, <1>3, Zenon DEF SomeCopied

\* The view when something is copied.
LEMMA NothingCopied == file \in [Block -> Data] /\ file' = file => SomeCopied
<1> SUFFICES ASSUME file \in [Block -> Data], file' = file PROVE SomeCopied
  OBVIOUS
<1>1. file' = [b \in Block |-> IF b \in {} THEN View[b] ELSE file[b]]
  OBVIOUS
<1>2. {} \in SUBSET Block
  OBVIOUS
<1>3. QED
  BY <1>1, <1>2, Zenon DEF SomeCopied

LEMMA CopyImplements == IInv /\ IInv' /\ CopyPiece => [Disk!Next]_(Disk!vars)
<1> SUFFICES ASSUME IInv, IInv', CopyPiece PROVE [Disk!Next]_(Disk!vars)
  OBVIOUS
<1>1. ViewFact /\ ViewFact'
  BY Views
<1>2. /\ pc = "commit" /\ UNCHANGED <<m_table, m_file, host, pc, mount_mode, commit>>
      /\ bucket \in Bucket /\ index \in DOMAIN list /\ list[index].mac # INVALID
      /\ Holds(list[index].host, Joint) /\ file' = Copied(list[index], Joint)
  BY DEF CopyPiece, stepUnchanged, tableVars, mountVars
<1>3. TypeOK /\ ListsIn(m_table) /\ file \in [Block -> Data] /\ m_table \in Tables
  BY DEF IInv, Undo, TypeOK
<1>4. Joint \in 1 .. Joint
  <2>1. list \in Seq(Entry)
    BY <1>2, <1>3 DEF list, Tables
  <2>2. Joint \in 1 .. Joined
    BY <1>2, <2>1, NeighboursJoin DEF Joint
  <2>3. QED
    BY <2>2
<1>5. Copies(Joint)
  BY <1>2, <1>3, <1>4, CopyStep
<1>6. commit = "begun" /\ m_file
  BY <1>2 DEF IInv, Mounting
<1>7. Phase = "saving" /\ Phase' = "saving" /\ Torn' = Torn
  BY <1>2, <1>6 DEF Phase, Torn
<1>8. View' = View
  <2>1. \A b \in Block : /\ InUndo(b)' <=> InUndo(b)
                         /\ SlotIn(m_table', b) = Slot(b)
    BY <1>2 DEF InUndo, IsKnown, Slot
  <2>2. \A b \in Block : ~ InUndo(b) => file'[b] = file[b]
    BY <1>5 DEF Copies
  <2>3. QED
    BY <1>1, <1>2, <1>6, <2>1, <2>2, SameView
<1>9. SomeCopied
  BY <1>1, <1>3, <1>5, <1>6, CopiedIsSomeCopied
<1>10. QED
  BY <1>7, <1>8, <1>9, SaveImplements

LEMMA FinishImplements ==
  IInv /\ IInv' /\ (CommitDone \/ CommitFailed) => [Disk!Next]_(Disk!vars)
<1> SUFFICES ASSUME IInv, IInv', CommitDone \/ CommitFailed PROVE [Disk!Next]_(Disk!vars)
  OBVIOUS
<1>1. ViewFact /\ ViewFact'
  BY Views
<1>2. /\ pc = "commit" /\ pc' \in {"cleanup", "again"} /\ m_file' = FALSE
      /\ UNCHANGED mount_mode /\ commit' \in {"done", "failed"}
  BY DEF CommitDone, CommitFailed, Finish, mountVars
<1>3. /\ TypeOK /\ ListsIn(m_table) /\ file \in [Block -> Data] /\ file' \in [Block -> Data]
      /\ m_table \in Tables
  BY DEF IInv, Undo, TypeOK
<1>4. commit = "begun" /\ m_file
  BY <1>2 DEF IInv, Mounting
<1>5. Phase = "saving" /\ Phase' = "direct" /\ Torn = FALSE /\ Torn' = (commit' = "failed")
  BY <1>2, <1>4 DEF Phase, Torn
<1>6. View' = file'
  <2>1. \A b \in Block : View'[b] = file'[b]
    BY <1>1, <1>2 DEF ViewFact
  <2>2. View' \in [Block -> Data]
    BY <1>1 DEF ViewFact
  <2>3. QED
    BY <1>3, <2>1, <2>2
<1>7. CASE CommitDone
  <2>1. bucket \notin Bucket /\ file' = file /\ commit' = "done"
    BY <1>7 DEF CommitDone, Finish
  <2>2. ASSUME NEW b \in Block, InUndo(b) PROVE file[b] = host[Slot(b) + 1]
    <3>1. hash_func(b) \in Bucket
      BY HashRange DEF Block
    <3>2. bucket \in 0 .. NBuckets
      BY DEF IInv, TypeOK
    <3>3. hash_func(b) < bucket
      BY <2>1, <3>1, <3>2 DEF Bucket
    <3>4. QED
      BY <1>2, <2>2, <3>3 DEF IInv, Committing, Passed
  <2>3. \A b \in Block : View[b] = file[b]
    BY <1>1, <2>2 DEF ViewFact
  <2>4. View \in [Block -> Data]
    BY <1>1 DEF ViewFact
  <2>5. file = View
    BY <1>3, <2>3, <2>4
  <2>6. Torn' = Torn /\ View' = View
    BY <1>5, <1>6, <2>1, <2>5
  <2>7. QED
    BY <1>5, <2>1, <2>5, <2>6, SavedImplements
<1>8. CASE CommitFailed
  <2>1. commit' = "failed"
    BY <1>8 DEF CommitFailed, Finish
  <2>2. SomeCopied
    <3>1. CASE UNCHANGED file
      BY <1>3, <3>1, NothingCopied
    <3>2. ASSUME Holds(list[index].host, Joint),
                 NEW n \in 1 .. Joint - 1, file' = Copied(list[index], n)
          PROVE  SomeCopied
      <4>1. bucket \in Bucket /\ index \in DOMAIN list /\ list[index].mac # INVALID
        BY <1>8 DEF CommitFailed
      <4>2. list \in Seq(Entry)
        BY <1>3, <4>1 DEF list, Tables
      <4>3. Joint \in 1 .. Joined
        BY <4>1, <4>2, NeighboursJoin DEF Joint
      <4>4. n \in 1 .. Joint
        BY <4>3
      <4>5. Copies(n)
        BY <1>3, <3>2, <4>1, <4>4, CopyStep
      <4>6. QED
        BY <1>1, <1>3, <1>4, <4>5, CopiedIsSomeCopied
    <3>3. QED
      BY <1>8, <3>1, <3>2 DEF CommitFailed
  <2>3. QED
    BY <1>5, <1>6, <2>1, <2>2, SaveFailedImplements
<1>9. QED
  BY <1>7, <1>8

LEMMA GoneImplements ==
  IInv /\ IInv' /\ (undo_cleanup \/ Crash) => [Disk!Next]_(Disk!vars)
<1> SUFFICES ASSUME IInv, IInv', undo_cleanup \/ Crash PROVE [Disk!Next]_(Disk!vars)
  OBVIOUS
<1>1. ViewFact /\ ViewFact'
  BY Views
<1>2. /\ pc # "closed" /\ pc' = "closed" /\ m_file' = FALSE
      /\ UNCHANGED <<file, mount_mode, commit>>
  BY DEF undo_cleanup, Crash, Gone, mountVars
<1>3. file \in [Block -> Data]
  BY DEF IInv, TypeOK
<1>4. View' = file
  <2>1. \A b \in Block : View'[b] = file[b]
    BY <1>1, <1>2 DEF ViewFact
  <2>2. View' \in [Block -> Data]
    BY <1>1 DEF ViewFact
  <2>3. QED
    BY <1>3, <2>1, <2>2
<1>5. Phase # "closed" /\ Phase' = "closed" /\ (Phase = "saving" <=> commit = "begun")
  BY <1>2 DEF Phase
<1>6. Torn' = (Torn \/ Phase = "saving")
  BY <1>2, <1>5 DEF Torn
<1>7. QED
  BY <1>2, <1>4, <1>5, <1>6, CloseImplements

\* The steps that touch neither the image nor the undo file may only begin a commit,
\* or turn to the image itself.
LEMMA OthersImplement ==
  ASSUME IInv, IInv',
         \/ Sys_write \/ CommitNow \/ NotNow \/ do_it_again \/ Sys_read \/ Get \/ GetImage
         \/ ReadImage \/ ReadReturns \/ NextBucket \/ Skipped \/ Shutdown \/ KillCPU
         \/ Sys_close \/ UNCHANGED vars
  PROVE  [Disk!Next]_(Disk!vars)
<1>1. ViewFact /\ ViewFact'
  BY Views
<1>2. UNCHANGED <<file, m_table, m_file, host, m_dirty>>
  BY DEF Sys_write, CommitNow, NotNow, do_it_again, Sys_read, Get, GetImage, ReadImage,
         readUnchanged, ReadReturns, NextBucket, Skipped, stepUnchanged, Shutdown, KillCPU,
         Closing, Sys_close, vars, tableVars
<1>3. View' = View
  BY <1>2, UntouchedView
<1>4. file \in [Block -> Data]
  BY DEF IInv, TypeOK
<1>5. SomeCopied
  BY <1>2, <1>4, NothingCopied
<1>6. ASSUME Phase' = Phase, Torn' = Torn PROVE [Disk!Next]_(Disk!vars)
  BY <1>2, <1>3, <1>6, StuttersImplement DEF Stutters
<1>7. CASE CommitNow \/ Sys_close
  <2>1. /\ mount_mode' = mount_mode /\ pc \in {"ask", "close"}
        /\ \/ /\ m_dirty /\ m_file /\ pc' = "commit" /\ commit' = "begun"
              /\ mount_mode # "persistent"
           \/ pc' \in {"again", "cleanup"} /\ commit' = commit
    BY <1>7 DEF CommitNow, Sys_close, Begin, mountVars, commitVars, IInv, Mounting
  <2>2. CASE commit' = commit
    <3>1. Phase' = Phase /\ Torn' = Torn
      BY <1>2, <2>1, <2>2 DEF Phase, Torn
    <3>2. QED
      BY <1>6, <3>1
  <2>3. CASE commit' # commit
    <3>1. /\ m_dirty /\ m_file /\ pc' = "commit" /\ commit' = "begun" /\ commit # "begun"
          /\ mount_mode # "persistent"
      BY <2>1, <2>3
    <3>2. commit \notin {"done", "failed"}
      BY <3>1 DEF IInv, Mounting
    <3>3. Phase = "overlay" /\ Phase' = "saving" /\ Torn' = Torn
      BY <2>1, <3>1, <3>2 DEF Phase, Torn
    <3>4. QED
      BY <1>3, <1>5, <3>3, SaveImplements
  <2>4. QED
    BY <2>2, <2>3
<1>8. CASE do_it_again
  <2>1. /\ pc = "again" /\ pc' = "direct" /\ mount_mode' = "persistent" /\ commit' = commit
    BY <1>8 DEF do_it_again, commitVars
  <2>2. ~ m_dirty /\ commit # "begun"
    BY <2>1 DEF IInv, Mounting
  <2>3. \A b \in Block : ~ InUndo(b)
    BY <2>2 DEF IInv, Undo
  <2>4. View = file
    BY <1>1, <1>4, <2>3, PlainView
  <2>5. Phase' = "direct" /\ Phase \in {"overlay", "direct"} /\ Torn' = Torn
    BY <2>1, <2>2 DEF Phase, Torn
  <2>6. CASE Phase = "overlay"
    BY <1>2, <1>3, <2>4, <2>5, <2>6, SavedImplements
  <2>7. CASE Phase = "direct"
    BY <1>6, <2>5, <2>7
  <2>8. QED
    BY <2>5, <2>6, <2>7
<1>9. CASE NextBucket \/ Skipped \/ UNCHANGED vars
  <2>1. UNCHANGED <<pc, mount_mode, commit>>
    BY <1>9 DEF NextBucket, Skipped, stepUnchanged, vars, mountVars, commitVars
  <2>2. Phase' = Phase /\ Torn' = Torn
    BY <1>2, <2>1 DEF Phase, Torn
  <2>3. QED
    BY <1>6, <2>2
<1>10. CASE \/ Sys_write \/ NotNow \/ Sys_read \/ Get \/ GetImage \/ ReadImage \/ ReadReturns
            \/ Shutdown \/ KillCPU
  <2>1. UNCHANGED <<mount_mode, commit>> /\ pc # "closed" /\ pc' # "closed"
    BY <1>10 DEF Sys_write, NotNow, Sys_read, Get, GetImage, ReadImage, Got, readUnchanged,
                 ReadReturns, Return, Shutdown, KillCPU, Closing, mountVars, commitVars
  <2>2. Phase' = Phase /\ Torn' = Torn
    BY <1>2, <2>1 DEF Phase, Torn
  <2>3. QED
    BY <1>6, <2>2
<1>11. QED
  BY <1>7, <1>8, <1>9, <1>10

LEMMA NextImplements == IInv /\ IInv' /\ [Next]_vars => [Disk!Next]_(Disk!vars)
  BY WriteImplements, DirectImplements, PutImplements, CopyImplements, FinishImplements,
     GoneImplements, OthersImplement DEF Next

\* The image with its undo file behaves like the disk of Volume: every step of the
\* code is a step of the disk, or none that can be seen.
THEOREM Implementation == Spec => ImplementsVolume
<1>1. Init => Disk!Init
  BY InitImplements
<1>2. IInv /\ IInv' /\ [Next]_vars => [Disk!Next]_(Disk!vars)
  BY NextImplements
<1>3. QED
  BY <1>1, <1>2, Invariance, PTL DEF Spec, ImplementsVolume, Disk!Spec

=============================================================================
