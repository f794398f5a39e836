--------------------------- MODULE FlashBoardProofs ---------------------------
(***************************************************************************)
(* Flashes of any number of boards from any images: what is written agrees *)
(* with the table, spares what the user asked to keep, and leaves no files *)
(* behind.                                                                 *)
(***************************************************************************)
EXTENDS FlashBoard, WellFoundedInduction, FiniteSetTheorems, SequenceTheorems, TLAPS

-----------------------------------------------------------------------------
(* The partition arithmetic.                                               *)

LBA     == 0..(Word - 1)
Extents == [first : LBA, last : LBA]

\* Unsigned arithmetic stays in its words.
LEMMA WrapType == ASSUME NEW n \in Int PROVE Wrap(n) \in LBA /\ Wrap(n) \in Int
  BY WordType DEF Wrap, LBA

\* What fits a word is a number.
LEMMA LBAType == 0 \in LBA /\ \A n \in LBA : n \in Int /\ n \in Nat
  BY WordType DEF LBA

\* A set of numbers that is not empty has a smallest one.
LEMMA SmallestExists ==
  ASSUME NEW S, S \subseteq Nat, S # {}
  PROVE  \E i \in S : \A j \in S : i <= j
  <1>1. PICK i \in S : \A j \in S : ~(<<j, i>> \in OpToRel(<, Nat))
    BY NatLessThanWellFounded, WFMin
  <1>2. \A j \in S : ~(j < i) BY <1>1 DEF OpToRel
  <1> QED BY <1>2

\* A set of places in a sequence that is not empty has a last one.
LEMMA LastExists ==
  ASSUME NEW n \in Nat, NEW S, S \subseteq 1..n, S # {}
  PROVE  \E i \in S : \A j \in S : j <= i
  <1> DEFINE T == {n - i : i \in S}
  <1>1. \A i \in S : n - i \in Nat OBVIOUS
  <1>2. PICK k \in T : \A j \in T : k <= j BY <1>1, SmallestExists
  <1>3. PICK i \in S : k = n - i OBVIOUS
  <1>4. \A j \in S : n - i <= n - j BY <1>2, <1>3
  <1> QED BY <1>3, <1>4

Named(t, name) == {i \in UsedEntries(t) : t.entries[i].name = name}

\* A partition that is found is the last entry of its name.
LEMMA FindNamed ==
  ASSUME NEW t \in PartitionTables, NEW name, Named(t, name) # {}
  PROVE  \E i \in DOMAIN t.entries :
            /\ i = CHOOSE k \in Named(t, name) : \A j \in Named(t, name) : j <= k
            /\ t.entries[i].name = name
            /\ Find(t, name) = [first |-> t.entries[i].first, last |-> t.entries[i].last]
  <1> DEFINE S == Named(t, name)
             e == CHOOSE k \in S : \A j \in S : j <= k
  <1>1. Len(t.entries) \in Nat /\ DOMAIN t.entries = 1..Len(t.entries)
    BY DEF PartitionTables
  <1>2. S \subseteq 1..Len(t.entries) BY <1>1 DEF Named, UsedEntries
  <1>3. \E k \in S : \A j \in S : j <= k BY <1>1, <1>2, LastExists
  <1>4. e \in S BY <1>3
  <1>5. e \in DOMAIN t.entries /\ t.entries[e].name = name BY <1>4 DEF Named, UsedEntries
  <1>6. Find(t, name) = [first |-> t.entries[e].first, last |-> t.entries[e].last]
    BY DEF Find, Named
  <1> QED BY <1>5, <1>6

\* What is found is a partition.
LEMMA FindType ==
  ASSUME NEW t \in PartitionTables, NEW name
  PROVE  Find(t, name) \in Extents
  <1>1. CASE Named(t, name) = {}
    <2>1. Find(t, name) = Absent BY <1>1 DEF Find, Named
    <2> QED BY <2>1, WordType DEF Absent, Extents, LBA
  <1>2. CASE Named(t, name) # {}
    <2>1. PICK i \in DOMAIN t.entries :
            Find(t, name) = [first |-> t.entries[i].first, last |-> t.entries[i].last]
      BY <1>2, FindNamed
    <2>2. t.entries \in Seq(Entries) BY DEF PartitionTables
    <2>3. t.entries[i] \in Entries BY <2>2
    <2> QED BY <2>1, <2>3 DEF Extents, Entries, LBA
  <1> QED BY <1>1, <1>2

\* The entries of a table.
LEMMA EntriesType ==
  ASSUME NEW t \in PartitionTables
  PROVE  /\ t = [lastLBA |-> t.lastLBA, num |-> t.num, entries |-> t.entries]
         /\ t.lastLBA \in LBA /\ t.num \in Nat /\ t.entries \in Seq(Entries)
         /\ Len(t.entries) \in Nat /\ DOMAIN t.entries = 1..Len(t.entries)
         /\ \A i \in DOMAIN t.entries : t.entries[i] \in Entries
  <1> DEFINE q == t.entries
  <1>1. /\ t = [lastLBA |-> t.lastLBA, num |-> t.num, entries |-> t.entries]
        /\ t.lastLBA \in LBA /\ t.num \in Nat /\ q \in Seq(Entries)
    BY DEF PartitionTables, LBA
  <1> HIDE DEF q
  <1>2. DOMAIN q = 1..Len(q) /\ Len(q) \in Nat /\ \A i \in DOMAIN q : q[i] \in Entries
    BY <1>1
  <1> QED BY <1>1, <1>2 DEF q

\* The entry at a place, when the partition of one name is moved.
Moving(q, name, first, last) ==
    [i \in DOMAIN q |->
        IF q[i].name = name THEN [name |-> name, first |-> first, last |-> last] ELSE q[i]]

\* Moving a partition makes entries of the same names.
LEMMA MovingType ==
  ASSUME NEW q \in Seq(Entries), NEW name \in Label, NEW first \in LBA, NEW last \in LBA
  PROVE  /\ Moving(q, name, first, last) \in Seq(Entries)
         /\ DOMAIN Moving(q, name, first, last) = DOMAIN q
         /\ \A i \in DOMAIN q : Moving(q, name, first, last)[i].name = q[i].name
  <1> DEFINE p == [name |-> name, first |-> first, last |-> last]
             e == Moving(q, name, first, last)
  <1>1. p \in Entries /\ p.name = name BY DEF Entries, LBA
  <1>2. DOMAIN q = 1..Len(q) /\ Len(q) \in Nat /\ \A i \in DOMAIN q : q[i] \in Entries
    OBVIOUS
  <1>3. DOMAIN e = DOMAIN q /\ \A i \in DOMAIN q : e[i] = IF q[i].name = name THEN p ELSE q[i]
    BY DEF Moving
  <1>4. e = [i \in 1..Len(q) |-> e[i]] BY <1>2 DEF Moving
  <1> HIDE DEF p, e
  <1>5. \A i \in 1..Len(q) : e[i] \in Entries BY <1>1, <1>2, <1>3
  <1>6. e \in [1..Len(q) -> Entries] BY <1>4, <1>5
  <1>7. e \in Seq(Entries) BY <1>2, <1>6, SeqDef
  <1>8. \A i \in DOMAIN q : e[i].name = q[i].name BY <1>1, <1>3
  <1> QED BY <1>3, <1>7, <1>8 DEF e

\* Moving a partition makes a table of the same names.
LEMMA PutType ==
  ASSUME NEW t \in PartitionTables, NEW name \in Label, NEW first \in LBA, NEW last \in LBA
  PROVE  /\ Put(t, name, first, last) \in PartitionTables
         /\ Put(t, name, first, last).entries = Moving(t.entries, name, first, last)
  <1> DEFINE e == Moving(t.entries, name, first, last)
  <1>1. Put(t, name, first, last) = [t EXCEPT !.entries = e] BY DEF Put, Moving
  <1>2. e \in Seq(Entries) BY EntriesType, MovingType
  <1> HIDE DEF e
  <1>3. [t EXCEPT !.entries = e] = [lastLBA |-> t.lastLBA, num |-> t.num, entries |-> e]
    BY EntriesType
  <1>4. [lastLBA |-> t.lastLBA, num |-> t.num, entries |-> e] \in PartitionTables
    BY <1>2, EntriesType DEF PartitionTables, LBA
  <1> QED BY <1>1, <1>3, <1>4 DEF e

\* What is named so, is named so after a partition was moved.
LEMMA PutNames ==
  ASSUME NEW t \in PartitionTables, NEW name \in Label, NEW first \in LBA, NEW last \in LBA,
         NEW other
  PROVE  Named(Put(t, name, first, last), other) = Named(t, other)
  <1> DEFINE u == Put(t, name, first, last)
  <1>1. u.entries = Moving(t.entries, name, first, last) BY PutType
  <1>2. DOMAIN u.entries = DOMAIN t.entries
        /\ \A i \in DOMAIN t.entries : u.entries[i].name = t.entries[i].name
    BY <1>1, EntriesType, MovingType
  <1>3. \A i \in DOMAIN t.entries : \A j \in 1..i : j \in DOMAIN t.entries
    BY EntriesType
  <1> HIDE DEF u
  <1>4. UsedEntries(u) = UsedEntries(t) BY <1>2, <1>3 DEF UsedEntries
  <1>5. \A i \in UsedEntries(t) : u.entries[i].name = t.entries[i].name
    BY <1>2 DEF UsedEntries
  <1> QED BY <1>4, <1>5 DEF Named, u

\* Moving one partition moves no other ...
LEMMA FindOther ==
  ASSUME NEW t \in PartitionTables, NEW name \in Label, NEW first \in LBA, NEW last \in LBA,
         NEW other, other # name
  PROVE  Find(Put(t, name, first, last), other) = Find(t, other)
  <1> DEFINE u == Put(t, name, first, last)
  <1>1. u \in PartitionTables /\ Named(u, other) = Named(t, other) BY PutType, PutNames
  <1>2. CASE Named(t, other) = {} BY <1>1, <1>2 DEF Find, Named
  <1>3. CASE Named(t, other) # {}
    <2>1. PICK i \in DOMAIN t.entries :
            /\ i = CHOOSE k \in Named(t, other) : \A j \in Named(t, other) : j <= k
            /\ t.entries[i].name = other
            /\ Find(t, other) = [first |-> t.entries[i].first, last |-> t.entries[i].last]
      BY <1>3, FindNamed
    <2>2. u.entries = Moving(t.entries, name, first, last) BY PutType
    <2>3. u.entries[i] = t.entries[i] BY <2>1, <2>2 DEF Moving
    <2> HIDE DEF u
    <2>4. Named(u, other) # {} BY <1>1, <1>3
    <2>5. Find(u, other) = [first |-> u.entries[i].first, last |-> u.entries[i].last]
      <3>1. PICK e \in DOMAIN u.entries :
              /\ e = CHOOSE k \in Named(u, other) : \A j \in Named(u, other) : j <= k
              /\ Find(u, other) = [first |-> u.entries[e].first, last |-> u.entries[e].last]
        BY <1>1, <2>4, FindNamed
      <3>2. e = i BY <1>1, <2>1, <3>1
      <3> QED BY <3>1, <3>2
    <2> QED BY <2>1, <2>3, <2>5 DEF u
  <1> QED BY <1>2, <1>3

\* ... and that one to where it is put.
LEMMA FindPut ==
  ASSUME NEW t \in PartitionTables, NEW name \in Label, NEW first \in LBA, NEW last \in LBA,
         Named(t, name) # {}
  PROVE  Find(Put(t, name, first, last), name) = [first |-> first, last |-> last]
  <1> DEFINE u == Put(t, name, first, last)
  <1>1. u \in PartitionTables /\ Named(u, name) = Named(t, name) BY PutType, PutNames
  <1>2. PICK i \in DOMAIN u.entries :
          /\ u.entries[i].name = name
          /\ Find(u, name) = [first |-> u.entries[i].first, last |-> u.entries[i].last]
    BY <1>1, FindNamed
  <1>3. u.entries = Moving(t.entries, name, first, last) BY PutType
  <1>4. DOMAIN u.entries = DOMAIN t.entries
        /\ u.entries[i] = IF t.entries[i].name = name
                          THEN [name |-> name, first |-> first, last |-> last] ELSE t.entries[i]
    BY <1>2, <1>3 DEF Moving
  <1>5. u.entries[i] = [name |-> name, first |-> first, last |-> last]
    BY <1>2, <1>4
  <1> QED BY <1>2, <1>5

\* The partitions that are moved.
LEMMA Names == /\ "rootfs" \in Label /\ "userdata" \in Label /\ "rootfs" # "userdata"
  BY LabelType

\* ResizeRoot leaves the root where it was, and of the size it is given.
LEMMA ResizedRoot ==
  ASSUME NEW t \in PartitionTables, Named(t, "rootfs") # {}, NEW s \in LBA
  PROVE  /\ Resized(t, s) \in PartitionTables
         /\ Find(Resized(t, s), "rootfs") =
              [first |-> Find(t, "rootfs").first, last |-> RootLast(Find(t, "rootfs").first, s)]
  <1> USE Names
  <1> DEFINE first == Find(t, "rootfs").first
             last  == RootLast(first, s)
             u     == Put(t, "rootfs", first, last)
  <1>1. first \in LBA BY FindType DEF Extents
  <1>2. s \div Sector \in Int /\ first \in Int BY <1>1, WordType DEF LBA
  <1>3. last \in LBA /\ last \in Int BY <1>2, WrapType DEF RootLast
  <1>4. Wrap(last + 1) \in LBA BY <1>3, WrapType
  <1>5. u \in PartitionTables BY <1>1, <1>3, PutType
  <1>6. Find(u, "rootfs") = [first |-> first, last |-> last] BY <1>1, <1>3, FindPut
  <1>7. Resized(t, s) = Put(u, "userdata", Wrap(last + 1), last) BY DEF Resized
  <1>8. Find(Put(u, "userdata", Wrap(last + 1), last), "rootfs") = Find(u, "rootfs")
    BY <1>3, <1>4, <1>5, FindOther
  <1> QED BY <1>3, <1>4, <1>5, <1>6, <1>7, <1>8, PutType

\* Growing the user partition to the end of the disk moves no root.
LEMMA GrownRoot ==
  ASSUME NEW t \in PartitionTables, NEW last \in LBA
  PROVE  /\ Grown(t, last) \in PartitionTables
         /\ Find(Grown(t, last), "rootfs") = Find(t, "rootfs")
  <1> USE Names
  <1> DEFINE first == Find(t, "userdata").first
             u     == Put(t, "userdata", first, last)
             g     == Grown(t, last)
  <1>1. first \in LBA BY FindType DEF Extents
  <1>2. u \in PartitionTables BY <1>1, PutType
  <1>3. g = [u EXCEPT !.lastLBA = last] BY DEF Grown
  <1>4. g.entries = u.entries /\ g \in PartitionTables
    BY <1>2, <1>3 DEF PartitionTables, LBA
  <1>5. Find(g, "rootfs") = Find(u, "rootfs") BY <1>4 DEF Find, UsedEntries
  <1> QED BY <1>1, <1>4, <1>5, FindOther

-----------------------------------------------------------------------------
(* The types.                                                              *)

Seen == [lastLBA : LBA, num : Nat, count : Nat, root : Extents, user : Extents]
Devices == [table : PartitionTables, root : Extents, data : LBA, whole : BOOLEAN]
Names3 == {"rawprogram0.xml", "rawprogram0.nouser.xml", "rawprogram0_resized.xml"}

TypeInv ==
    /\ TypeOK
    /\ table \in [Call -> Seen]
    /\ prog \in [Call -> Names3]
    /\ loaded \in [Call -> Programs]
    /\ dump \in [Dir -> SUBSET PartitionTables]
    /\ gptFile \in [Dir -> SUBSET PartitionTables]
    /\ progFile \in [Dir -> SUBSET Programs]
    /\ device \in [Board -> Devices]
    /\ \A c \in Call : pc[c] = "move" => "gpt" \in made[c]

\* What a call does.
Step(c) ==
    \/ Begin(c) \/ ReadBoard(c) \/ TakeTable(c) \/ Undump(c)
    \/ Refuse(c) \/ Preserve(c) \/ Ask(c) \/ Size(c)
    \/ WriteTable(c) \/ WriteProgram(c) \/ Load(c) \/ Flash(c) \/ Finish(c) \/ Crash(c)

LEMMA NextIsStep == Next <=> \E c \in Call : Step(c)
  BY DEF Next, Step

\* There is a request, and every request has a board and a directory.
LEMMA RequestType ==
  /\ (CHOOSE r \in Request : r.rootSize = 0) \in Request
  /\ \A r \in Request : /\ r.board \in Board /\ r.dir \in Dir /\ r.preserve \in BOOLEAN
                        /\ r.rootSize \in LBA /\ r.rootSize \in Int /\ r.daemon \in BOOLEAN
                        /\ r.rootSize = 0 \/ r.rootSize >= Sector
  <1>1. PICK b \in Board, d \in Dir : TRUE BY BoardsType
  <1> DEFINE r0 == [board |-> b, dir |-> d, preserve |-> FALSE, rootSize |-> 0, daemon |-> FALSE]
  <1>2. r0 \in Request /\ r0.rootSize = 0 BY <1>1 DEF Request
  <1>3. \E r \in Request : r.rootSize = 0 BY <1>2
  <1>4. \A s \in RootSizes \cup {0} : s \in LBA /\ s \in Int /\ (s = 0 \/ s >= Sector)
    <2>1. GiB \in Nat /\ Word \in Nat /\ 0 \in LBA BY WordType DEF LBA
    <2>2. MinRootSize \in Nat /\ MinRootSize >= Sector BY <2>1, WordType DEF MinRootSize
    <2> QED BY <2>1, <2>2, RootSizesType, WordType DEF LBA
  <1>5. \A r \in Request : /\ r.board \in Board /\ r.dir \in Dir /\ r.preserve \in BOOLEAN
                           /\ r.rootSize \in RootSizes \cup {0} /\ r.daemon \in BOOLEAN
    BY DEF Request
  <1> QED BY <1>3, <1>4, <1>5

\* What is read from a board is well typed.
LEMMA ParsedType == ASSUME NEW t \in PartitionTables PROVE Parsed(t) \in Seen
  <1>1. UsedEntries(t) \subseteq 1..Len(t.entries) /\ Len(t.entries) \in Nat
    BY EntriesType DEF UsedEntries
  <1>2. IsFiniteSet(1..Len(t.entries)) BY <1>1, FS_Interval
  <1>3. IsFiniteSet(UsedEntries(t)) BY <1>1, <1>2, FS_Subset
  <1>4. Cardinality(UsedEntries(t)) \in Nat BY <1>3, FS_CardinalityType
  <1> QED BY <1>4, FindType, EntriesType DEF Parsed, Seen

\* So are sizes,
LEMMA SizeType == ASSUME NEW p \in Extents PROVE SizeInBytes(p) \in LBA
  <1>1. p.first \in Int /\ p.last \in Int /\ Sector \in Int BY WordType DEF Extents, LBA
  <1>2. Wrap(p.last - p.first + 1) \in Int BY <1>1, WrapType
  <1>3. Wrap(p.last - p.first + 1) * Sector \in Int BY <1>1, <1>2
  <1> QED BY <1>3, WrapType DEF SizeInBytes

\* the default of a variant,
LEMMA DefaultType ==
  ASSUME NEW n
  PROVE  DefaultRootSize(n) \in LBA /\ (DefaultRootSize(n) = 0 \/ DefaultRootSize(n) >= Sector)
  <1> DEFINE holding == {v \in Variants : v.capacity >= n}
             S       == {v.capacity : v \in holding}
  <1>1. CASE holding = {} BY <1>1, WordType DEF DefaultRootSize, LBA
  <1>2. CASE holding # {}
    <2>1. S \subseteq Nat /\ S # {} BY <1>2, VariantsType
    <2>2. PICK m \in S : \A j \in S : m <= j BY <2>1, SmallestExists
    <2>3. \E v \in holding : \A w \in holding : v.capacity <= w.capacity BY <2>2
    <2> DEFINE chosen == CHOOSE v \in holding : \A w \in holding : v.capacity <= w.capacity
    <2>4. chosen \in Variants BY <2>3
    <2>5. DefaultRootSize(n) = chosen.default BY <1>2 DEF DefaultRootSize
    <2> HIDE DEF chosen
    <2>6. chosen.default \in {0} \cup (Sector..(Word - 1)) BY <2>4, VariantsType
    <2> QED BY <2>5, <2>6, WordType DEF LBA
  <1> QED BY <1>1, <1>2

\* the programs that are moved, and what is flashed.
LEMMA MovedType ==
  ASSUME NEW p \in Programs, NEW s \in LBA
  PROVE  /\ Moved(p, s) \in Programs
         /\ Moved(p, s).rootStart = p.rootStart /\ Moved(p, s).user = p.user
         /\ Moved(p, s).rootSectors = s \div Sector
         /\ Moved(p, s).userStart = Wrap(p.rootStart + s \div Sector)
         /\ Moved(p, s).gpt = "gpt_main0_resized.bin"
  <1>1. s \div Sector \in Nat /\ p.rootStart \in Int
    <2>1. s \in Nat /\ Sector \in Nat \ {0} BY LBAType, WordType
    <2>3. p.rootStart \in LBA BY DEF LBA, Programs
    <2>2. s \div Sector \in Nat BY <2>1
    <2> QED BY <2>2, <2>3, LBAType
  <1>2. Wrap(p.rootStart + s \div Sector) \in LBA BY <1>1, WrapType
  <1>3. Moved(p, s) = [p EXCEPT !.rootSectors = s \div Sector,
                                !.userStart = Wrap(p.rootStart + s \div Sector),
                                !.gpt = "gpt_main0_resized.bin"]
    BY DEF Moved
  <1> QED BY <1>1, <1>2, <1>3 DEF Programs, LBA

\* The programs a call can find.
LEMMA ProgramType ==
  ASSUME TypeInv, NEW c \in Call, NEW p \in Program(req[c].dir, prog[c])
  PROVE  p \in Programs
  <1>1. req[c].dir \in Dir /\ prog[c] \in Names3 BY RequestType DEF TypeInv, TypeOK
  <1> QED BY <1>1, ImagesType DEF Program, Names3, TypeInv

\* What a flash makes of a board, to the end or not.
LEMMA FlashedType ==
  ASSUME TypeInv, NEW c \in Call
  PROVE  Flashed(c) \in Devices /\ \A half \in HalfFlashed(c) : half \in Devices /\ ~half.whole
  <1> DEFINE p == loaded[c]  d == req[c].dir  b == req[c].board
             found == TableFile(d, p.gpt)
             start == [first |-> p.rootStart, last |-> Wrap(p.rootStart + p.rootSectors - 1)]
  <1>1. d \in Dir /\ b \in Board /\ p \in Programs /\ device[b] \in Devices
    BY RequestType DEF TypeInv, TypeOK
  <1>2. found \subseteq PartitionTables
    BY <1>1, ImagesType DEF TableFile, TypeInv
  <1>3. Disk[b] \in LBA BY <1>1, BoardsType DEF LBA
  <1>4. Flashed(c).table \in PartitionTables
    <2>1. CASE found = {} BY <1>1, <2>1 DEF Flashed, Devices
    <2>2. CASE found # {}
      <3>1. (CHOOSE t \in found : TRUE) \in PartitionTables BY <1>2, <2>2
      <3>2. Flashed(c).table = Grown(CHOOSE t \in found : TRUE, Disk[b])
        BY <2>2 DEF Flashed
      <3> QED BY <1>3, <3>1, <3>2, GrownRoot
    <2> QED BY <2>1, <2>2
  <1>5. start \in Extents
    <2> HIDE DEF p
    <2>1. p.rootStart \in LBA /\ p.rootStart \in Int /\ p.rootSectors \in Int
      <3>1. p.rootStart \in LBA /\ p.rootSectors \in Nat BY <1>1 DEF Programs, LBA
      <3> QED BY <3>1, LBAType
    <2>2. Wrap(p.rootStart + p.rootSectors - 1) \in LBA BY <2>1, WrapType
    <2> QED BY <2>1, <2>2 DEF Extents
  <1>6. /\ Flashed(c) = [table |-> Flashed(c).table, root |-> start,
                         data |-> IF p.user THEN p.userStart ELSE device[b].data, whole |-> TRUE]
    BY DEF Flashed
  <1>7. Flashed(c) \in Devices
    <2> DEFINE kept == IF p.user THEN p.userStart ELSE device[b].data
               t    == Flashed(c).table
    <2>1. kept \in LBA BY <1>1 DEF Programs, Devices, LBA
    <2> HIDE DEF kept, t, start
    <2>2. [table |-> t, root |-> start, data |-> kept, whole |-> TRUE] \in Devices
      BY <1>4, <1>5, <2>1 DEF Devices, t
    <2> QED BY <1>6, <2>2 DEF kept, t
  <1>8. ASSUME NEW half \in HalfFlashed(c) PROVE half \in Devices /\ ~half.whole
    <2>1. PICK t \in {device[b].table, Flashed(c).table} :
            half = [table |-> t, root |-> device[b].root, whole |-> FALSE,
                    data |-> IF p.user THEN Lost ELSE device[b].data]
      BY DEF HalfFlashed
    <2>2. t \in PartitionTables /\ device[b].root \in Extents /\ device[b].data \in LBA
          /\ Lost \in LBA
      BY <1>1, <1>4, WordType DEF Devices, Lost, LBA
    <2> QED BY <2>1, <2>2 DEF Devices
  <1> QED BY <1>7, <1>8

\* A file is there or it is not.
LEMMA OneFile == Cardinality({}) <= 1 /\ \A x : Cardinality({x}) <= 1
  BY FS_EmptySet, FS_Singleton

\* Nobody has begun.
LEMMA InitType == Init => TypeInv
  <1> SUFFICES ASSUME Init PROVE TypeInv
    OBVIOUS
  <1> USE DEF Init
  <1>1. req \in [Call -> Request] BY RequestType
  <1>2. NoTable \in Seen BY LBAType DEF NoTable, Seen, Absent, Extents
  <1>3. NoProgram \in Programs BY LBAType DEF NoProgram, Programs, LBA
  <1>4. \A b \in Board : \A t \in OnBoard[b] : Shipped(t) \in Devices
    <2> SUFFICES ASSUME NEW b \in Board, NEW t \in OnBoard[b] PROVE Shipped(t) \in Devices
      OBVIOUS
    <2>1. t \in PartitionTables BY BoardsType
    <2>2. Find(t, "rootfs") \in Extents /\ Find(t, "userdata") \in Extents BY <2>1, FindType
    <2>3. Find(t, "userdata").first \in LBA BY <2>2 DEF Extents
    <2> QED BY <2>1, <2>2, <2>3 DEF Shipped, Devices
  <1>5. device \in [Board -> Devices] BY <1>4
  <1>6. TypeOK
    <2>1. \A d \in Dir : \A file \in {dump[d], gptFile[d], progFile[d]} : Cardinality(file) <= 1
      BY OneFile
    <2> QED BY <1>1, <2>1, LBAType DEF TypeOK, Phases, Files, LBA
  <1> QED BY <1>2, <1>3, <1>5, <1>6 DEF TypeInv, Names3

\* Every step keeps the types.
LEMMA TypeStep ==
  ASSUME TypeInv, [Next]_vars
  PROVE  TypeInv'
  <1> USE DEF TypeInv, TypeOK, callVars, fileVars
  <1>1. CASE UNCHANGED vars BY <1>1 DEF vars
  <1>2. ASSUME NEW c \in Call, Step(c) PROVE TypeInv'
    <2>0. req[c] \in Request /\ req[c].dir \in Dir /\ req[c].board \in Board
          /\ req[c].rootSize \in LBA
      BY RequestType
    <2> USE DEF Goto, Fail, Spoil, Phases, Files, LBA
    <2>1. CASE Begin(c)
      <3>1. /\ \E r \in Request : req' = [req EXCEPT ![c] = r]
            /\ \E phase \in {"read", "program", "return"} : pc' = [pc EXCEPT ![c] = phase]
            /\ err' = err \/ err' = [err EXCEPT ![c] = TRUE]
        BY <2>1 DEF Begin
      <3>2. UNCHANGED <<table, prog, size, made, confirmed, loaded, dump, gptFile, progFile, device, history>>
        BY <2>1 DEF Begin
      <3>3. req' \in [Call -> Request] BY <3>1
      <3>4. pc' \in [Call -> Phases] BY <3>1
      <3>5. err' \in [Call -> BOOLEAN] BY <3>1
      <3>6. \A o \in Call : pc'[o] \in {"resize", "move"} => pc'[o] = pc[o] BY <3>1
      <3>7. \A o \in Call : pc'[o] \in {"resize", "move"} => size'[o] > 0 BY <3>2, <3>6
      <3>8. \A o \in Call : pc'[o] = "move" => "gpt" \in made'[o] BY <3>2, <3>6
      <3> QED BY <3>2, <3>3, <3>4, <3>5, <3>7, <3>8
    <2>2. CASE ReadBoard(c)
      <3> DEFINE written == [dump EXCEPT ![req[c].dir] = {device[req[c].board].table}]
      <3>1. device[req[c].board].table \in PartitionTables BY <2>0 DEF Devices
      <3>2. written \in [Dir -> SUBSET PartitionTables] BY <2>0, <3>1
      <3>3. \A d \in Dir : Cardinality(written[d]) <= 1 BY OneFile
      <3>4. dump' \in {dump, written} BY <2>2 DEF ReadBoard
      <3>0. /\ pc' = [pc EXCEPT ![c] = "table"] \/ pc' = [pc EXCEPT ![c] = "return"]
            /\ err' = err \/ err' = [err EXCEPT ![c] = TRUE]
            /\ history' = history \/ history' = [history EXCEPT !.spoiled = @ \cup {req[c].dir}]
        BY <2>2 DEF ReadBoard
      <3>5. /\ UNCHANGED <<req, table, prog, size, made, confirmed, loaded, gptFile, progFile, device>>
            /\ pc' \in [Call -> Phases] /\ err' \in [Call -> BOOLEAN]
            /\ history' \in [wiped : SUBSET Call, spoiled : SUBSET Dir]
            /\ \A o \in Call : pc'[o] = pc[o] \/ pc'[o] \in {"table", "return"}
        <4>1. UNCHANGED <<req, table, prog, size, made, confirmed, loaded, gptFile, progFile, device>>
          BY <2>2 DEF ReadBoard
        <4>2. pc' \in [Call -> Phases] BY <3>0
        <4>3. err' \in [Call -> BOOLEAN] BY <3>0
        <4>4. history' \in [wiped : SUBSET Call, spoiled : SUBSET Dir] BY <2>0, <3>0
        <4>5. \A o \in Call : pc'[o] = pc[o] \/ pc'[o] \in {"table", "return"} BY <3>0
        <4> QED BY <4>1, <4>2, <4>3, <4>4, <4>5
      <3> HIDE DEF written
      <3>6. \A d \in Dir : \A file \in {dump'[d], gptFile'[d], progFile'[d]} : Cardinality(file) <= 1
        BY <3>3, <3>4, <3>5
      <3> QED BY <3>2, <3>4, <3>5, <3>6
    <2>3. CASE TakeTable(c)
      <3>1. \A raw \in dump[req[c].dir] : Parsed(raw) \in Seen BY <2>0, ParsedType
      <3>2. table' \in [Call -> Seen] BY <2>3, <3>1 DEF TakeTable
      <3> QED BY <2>3, <3>2 DEF TakeTable
    <2>4. CASE Undump(c)
      <3>1. dump' = [dump EXCEPT ![req[c].dir] = {}] BY <2>4 DEF Undump
      <3>2. dump' \in [Dir -> SUBSET PartitionTables] BY <3>1
      <3>3. \A d \in Dir : Cardinality(dump'[d]) <= 1 BY <3>1, OneFile
      <3> QED BY <2>4, <3>2, <3>3 DEF Undump
    <2>5. CASE Refuse(c) BY <2>5 DEF Refuse
    <2>6. CASE Preserve(c)
      <3>1. SizeInBytes(table[c].root) \in LBA BY SizeType DEF Seen
      <3>2. 0 \in LBA BY LBAType
      <3> QED BY <2>6, <3>1, <3>2 DEF Preserve, Decided, After, Names3
    <2>7. CASE Ask(c)
      <3>1. /\ \E yes \in BOOLEAN : confirmed' = [confirmed EXCEPT ![c] = yes]
            /\ pc' = [pc EXCEPT ![c] = "program"] \/ pc' = [pc EXCEPT ![c] = "return"]
            /\ err' = err \/ err' = [err EXCEPT ![c] = TRUE]
            /\ UNCHANGED <<req, table, prog, size, made, loaded, dump, gptFile, progFile, device, history>>
        BY <2>7 DEF Ask
      <3> QED BY <3>1
    <2>8. CASE Size(c)
      <3>1. DefaultRootSize(BoardSize(table[c])) \in LBA BY DefaultType
      <3> QED BY <2>0, <2>8, <3>1 DEF Size, Decided, After
    <2>9. CASE WriteTable(c)
      <3> DEFINE u == Resized(Image[req[c].dir].table, size[c])
      <3>1. u \in PartitionTables
        BY <2>0, ImagesType, ResizedRoot DEF Named
      <3>2. gptFile' = [gptFile EXCEPT ![req[c].dir] = {u}] BY <2>9 DEF WriteTable
      <3> HIDE DEF u
      <3>3. gptFile' \in [Dir -> SUBSET PartitionTables] BY <3>1, <3>2
      <3>4. \A d \in Dir : Cardinality(gptFile'[d]) <= 1 BY <3>2, OneFile
      <3>5. \/ /\ made' = [made EXCEPT ![c] = @ \cup {"gpt"}]
               /\ pc' = [pc EXCEPT ![c] = "move"] /\ UNCHANGED <<err, history>>
            \/ /\ pc' = [pc EXCEPT ![c] = "return"] /\ err' = [err EXCEPT ![c] = TRUE]
               /\ history' = [history EXCEPT !.spoiled = @ \cup {req[c].dir}] /\ UNCHANGED made
        BY <2>9 DEF WriteTable
      <3>6. pc[c] = "resize"
            /\ UNCHANGED <<req, table, prog, size, confirmed, loaded, dump, progFile, device>>
        BY <2>9 DEF WriteTable
      <3>7. pc' \in [Call -> Phases] BY <3>5
      <3>8. made' \in [Call -> SUBSET Files] BY <3>5
      <3>9. err' \in [Call -> BOOLEAN] BY <3>5
      <3>10. history' \in [wiped : SUBSET Call, spoiled : SUBSET Dir] BY <2>0, <3>5
      <3>11. \A o \in Call : pc'[o] \in {"resize", "move"} => size'[o] > 0 BY <3>5, <3>6
      <3>12. \A o \in Call : "prog" \in made'[o] => "gpt" \in made'[o] BY <3>5
      <3>13. \A o \in Call : pc'[o] = "move" => "gpt" \in made'[o] BY <3>5
      <3> QED BY <3>3, <3>4, <3>6, <3>7, <3>8, <3>9, <3>10, <3>11, <3>12, <3>13
    <2>10. CASE WriteProgram(c)
      <3>1. PICK p \in Program(req[c].dir, prog[c]) :
              progFile' = [progFile EXCEPT ![req[c].dir] = {Moved(p, size[c])}]
        BY <2>10 DEF WriteProgram, MovedBySize
      <3> DEFINE u == Moved(p, size[c])
      <3>2. u \in Programs BY ProgramType, MovedType
      <3> HIDE DEF u
      <3>3. progFile' \in [Dir -> SUBSET Programs] BY <3>1, <3>2 DEF u
      <3>4. \A d \in Dir : Cardinality(progFile'[d]) <= 1 BY <3>1, OneFile
      <3>5. \/ /\ made' = [made EXCEPT ![c] = @ \cup {"prog"}]
               /\ prog' = [prog EXCEPT ![c] = "rawprogram0_resized.xml"]
               /\ pc' = [pc EXCEPT ![c] = "program"] /\ UNCHANGED <<err, history>>
            \/ /\ pc' = [pc EXCEPT ![c] = "return"] /\ err' = [err EXCEPT ![c] = TRUE]
               /\ history' = [history EXCEPT !.spoiled = @ \cup {req[c].dir}]
               /\ UNCHANGED <<made, prog>>
        BY <2>10 DEF WriteProgram
      <3>6. pc[c] = "move" /\ "gpt" \in made[c]
            /\ UNCHANGED <<req, table, size, confirmed, loaded, dump, gptFile, device>>
        BY <2>10 DEF WriteProgram
      <3>7. pc' \in [Call -> Phases] BY <3>5
      <3>8. made' \in [Call -> SUBSET Files] BY <3>5
      <3>9. err' \in [Call -> BOOLEAN] BY <3>5
      <3>10. history' \in [wiped : SUBSET Call, spoiled : SUBSET Dir] BY <2>0, <3>5
      <3>11. \A o \in Call : pc'[o] \in {"resize", "move"} => size'[o] > 0 BY <3>5, <3>6
      <3>12. \A o \in Call : "prog" \in made'[o] => "gpt" \in made'[o] BY <3>5, <3>6
      <3>13. \A o \in Call : pc'[o] = "move" => "gpt" \in made'[o] BY <3>5, <3>6
      <3>14. prog' \in [Call -> Names3] BY <3>5 DEF Names3
      <3> QED BY <3>3, <3>4, <3>6, <3>7, <3>8, <3>9, <3>10, <3>11, <3>12, <3>13, <3>14
    <2>11. CASE Load(c)
      <3>1. loaded' \in [Call -> Programs] BY <2>11, ProgramType DEF Load
      <3> QED BY <2>11, <3>1 DEF Load
    <2>12. CASE Flash(c)
      <3>1. device' \in [Board -> Devices] BY <2>0, <2>12, FlashedType DEF Flash
      <3> QED BY <2>12, <3>1 DEF Flash, Wipe
    <2>13. CASE Finish(c)
      <3>1. /\ gptFile' \in {gptFile, [gptFile EXCEPT ![req[c].dir] = {}]}
            /\ progFile' \in {progFile, [progFile EXCEPT ![req[c].dir] = {}]}
        BY <2>13 DEF Finish
      <3>2. gptFile' \in [Dir -> SUBSET PartitionTables] /\ progFile' \in [Dir -> SUBSET Programs]
        BY <3>1
      <3>3. \A d \in Dir : Cardinality(gptFile'[d]) <= 1 /\ Cardinality(progFile'[d]) <= 1
        BY <3>1, OneFile
      <3> QED BY <2>13, <3>2, <3>3 DEF Finish
    <2>14. CASE Crash(c)
      <3>1. device' \in [Board -> Devices] BY <2>0, <2>14, FlashedType DEF Crash
      <3> QED BY <2>0, <2>14, <3>1 DEF Crash, Wipe
    <2> QED BY <1>2, <2>1, <2>2, <2>3, <2>4, <2>5, <2>6, <2>7, <2>8, <2>9, <2>10, <2>11, <2>12, <2>13,
               <2>14 DEF Step
  <1> QED BY <1>1, <1>2, NextIsStep

\* What is written, seen and removed has its type.
LEMMA TypeHolds == Spec => []TypeInv
  BY InitType, TypeStep, PTL DEF Spec

-----------------------------------------------------------------------------
(* Calls beside each other.                                                *)

\* A step of a call changes what is its own, and files of its directory.
LEMMA Frame ==
  ASSUME TypeInv, NEW o \in Call, Step(o)
  PROVE  /\ \A c \in Call : c # o =>
              /\ pc'[c] = pc[c] /\ req'[c] = req[c] /\ prog'[c] = prog[c] /\ size'[c] = size[c]
              /\ made'[c] = made[c] /\ confirmed'[c] = confirmed[c] /\ loaded'[c] = loaded[c]
         /\ \A d \in Dir : d # req'[o].dir =>
              dump'[d] = dump[d] /\ gptFile'[d] = gptFile[d] /\ progFile'[d] = progFile[d]
  <1> USE DEF TypeInv, TypeOK, callVars, fileVars, Goto, Fail
  <1>0. pc[o] # "idle" => req'[o] = req[o] /\ UNCHANGED req
    BY DEF Step, Begin, ReadBoard, TakeTable, Undump, Refuse, Preserve, Ask, Size, WriteTable,
           WriteProgram, Load, Flash, Finish, Crash, Running
  <1>1. CASE Begin(o)
    <2>1. \E r \in Request : req' = [req EXCEPT ![o] = r] BY <1>1 DEF Begin
    <2>2. \E phase \in {"read", "program", "return"} : pc' = [pc EXCEPT ![o] = phase]
      BY <1>1 DEF Begin
    <2>3. UNCHANGED <<prog, size, made, confirmed, loaded, dump, gptFile, progFile>>
      BY <1>1 DEF Begin
    <2> QED BY <2>1, <2>2, <2>3
  <1>2. CASE ReadBoard(o) BY <1>2 DEF ReadBoard
  <1>3. CASE TakeTable(o) BY <1>3 DEF TakeTable
  <1>4. CASE Undump(o) BY <1>4 DEF Undump
  <1>5. CASE Refuse(o) BY <1>5 DEF Refuse
  <1>6. CASE Preserve(o) BY <1>6 DEF Preserve, Decided
  <1>7. CASE Ask(o) BY <1>7 DEF Ask
  <1>8. CASE Size(o) BY <1>8 DEF Size, Decided
  <1>9. CASE WriteTable(o) BY <1>9 DEF WriteTable
  <1>10. CASE WriteProgram(o) BY <1>10 DEF WriteProgram
  <1>11. CASE Load(o) BY <1>11 DEF Load
  <1>12. CASE Flash(o) BY <1>12 DEF Flash
  <1>13. CASE Finish(o) BY <1>13 DEF Finish
  <1>14. CASE Crash(o) BY <1>14 DEF Crash
  <1> QED BY <1>1, <1>2, <1>3, <1>4, <1>5, <1>6, <1>7, <1>8, <1>9, <1>10, <1>11, <1>12, <1>13, <1>14 DEF Step

\* Calls that run are for different boards, and in different directories if those are
\* not shared.
OwnInv ==
    \A c, o \in Call : c # o /\ Running(c) /\ Running(o) =>
        req[c].board # req[o].board /\ (SharedDirs \/ req[c].dir # req[o].dir)

LEMMA OwnStep == ASSUME TypeInv, OwnInv, NEW c \in Call, Step(c) PROVE OwnInv'
  <1>0. \A o \in Call : o # c => pc'[o] = pc[o] /\ req'[o] = req[o] BY Frame
  <1>1. CASE Begin(c)
    <2>1. PICK r \in Request :
            /\ \A o \in Call : Running(o) => req[o].board # r.board /\ (SharedDirs \/ req[o].dir # r.dir)
            /\ req' = [req EXCEPT ![c] = r]
      BY <1>1 DEF Begin
    <2>2. req'[c] = r /\ pc[c] = "idle" BY <1>1, <2>1 DEF Begin, TypeInv, TypeOK
    <2> QED BY <1>0, <2>1, <2>2 DEF OwnInv, Running
  <1>2. CASE ~Begin(c)
    <2>1. Running(c) /\ UNCHANGED req
      BY <1>2 DEF Step, ReadBoard, TakeTable, Undump, Refuse, Preserve, Ask, Size, WriteTable,
           WriteProgram, Load, Flash, Finish, Crash, Running, callVars
    <2> QED BY <1>0, <2>1 DEF OwnInv, Running
  <1> QED BY <1>1, <1>2

-----------------------------------------------------------------------------
(* The files beside the image.                                             *)

\* Whatever is there will be removed by a call that runs.
Removes(c, d, file) == Running(c) /\ req[c].dir = d /\ file \in made[c]
TidyInv ==
    \A d \in Dir : d \notin history.spoiled =>
        /\ dump[d] # {} => \E c \in Call : pc[c] \in {"table", "undump"} /\ req[c].dir = d
        /\ gptFile[d] # {} => \E c \in Call : Removes(c, d, "gpt")
        /\ progFile[d] # {} => \E c \in Call : Removes(c, d, "prog")

LEMMA TidyStep == ASSUME TypeInv, TidyInv, NEW c \in Call, Step(c) PROVE TidyInv'
  <1>0. PICK D \in Dir : D = req'[c].dir
    BY TypeStep, NextIsStep, RequestType DEF TypeInv, TypeOK
  <1>1. /\ \A o \in Call : o # c => pc'[o] = pc[o] /\ req'[o] = req[o] /\ made'[o] = made[o]
        /\ \A d \in Dir : d # D => dump'[d] = dump[d] /\ gptFile'[d] = gptFile[d] /\ progFile'[d] = progFile[d]
    BY <1>0, Frame
  <1>2. history.spoiled \subseteq history'.spoiled
    BY DEF Step, Begin, ReadBoard, TakeTable, Undump, Refuse, Preserve, Ask, Size, WriteTable,
           WriteProgram, Load, Flash, Finish, Crash, TypeInv, TypeOK, Spoil
  <1>3. CASE Begin(c)
    <2>1. pc[c] = "idle" /\ ~Running(c)
          /\ UNCHANGED <<dump, gptFile, progFile, made, history>>
      BY <1>3 DEF Begin, Running, fileVars
    <2> QED BY <1>1, <2>1 DEF TidyInv, Removes, Running
  <1>4. CASE ~Begin(c)
    <2>1. Running(c) /\ UNCHANGED req /\ D = req[c].dir
      BY <1>0, <1>4 DEF Step, ReadBoard, TakeTable, Undump, Refuse, Preserve, Ask, Size, WriteTable,
           WriteProgram, Load, Flash, Finish, Crash, Running, callVars
    <2>2. ASSUME NEW d \in Dir, d # D, d \notin history'.spoiled
          PROVE  /\ dump'[d] # {} => \E o \in Call : pc'[o] \in {"table", "undump"} /\ req'[o].dir = d
                 /\ gptFile'[d] # {} => \E o \in Call : Removes(o, d, "gpt")'
                 /\ progFile'[d] # {} => \E o \in Call : Removes(o, d, "prog")'
      BY <1>1, <1>2, <2>1, <2>2 DEF TidyInv, Removes, Running
    <2>3. ASSUME D \notin history'.spoiled
          PROVE  /\ dump'[D] # {} => \E o \in Call : pc'[o] \in {"table", "undump"} /\ req'[o].dir = D
                 /\ gptFile'[D] # {} => \E o \in Call : Removes(o, D, "gpt")'
                 /\ progFile'[D] # {} => \E o \in Call : Removes(o, D, "prog")'
      <3> USE <2>1 DEF TypeInv, TypeOK, callVars, fileVars, Goto, Fail, Spoil, Running
      <3>1. /\ dump[D] # {} => \E o \in Call : pc[o] \in {"table", "undump"} /\ req[o].dir = D
            /\ gptFile[D] # {} => \E o \in Call : Removes(o, D, "gpt")
            /\ progFile[D] # {} => \E o \in Call : Removes(o, D, "prog")
        BY <1>2, <2>3 DEF TidyInv
      <3>2. ~Crash(c) BY <2>3 DEF Crash
      <3>3. \/ dump'[D] = {}
            \/ pc'[c] \in {"table", "undump"}
            \/ dump'[D] = dump[D] /\ pc[c] \notin {"table", "undump"}
        BY <1>4, <2>3, <3>2 DEF Step, ReadBoard, TakeTable, Undump, Refuse, Preserve, Ask, Size, WriteTable,
             WriteProgram, Load, Flash, Finish, Decided, After
      <3>4. dump'[D] # {} => \E o \in Call : pc'[o] \in {"table", "undump"} /\ req'[o].dir = D
        BY <1>1, <3>1, <3>3
      <3>5. CASE Finish(c)
        <4>1. /\ "gpt" \in made[c] => gptFile'[D] = {}
              /\ "gpt" \notin made[c] => gptFile'[D] = gptFile[D]
              /\ "prog" \in made[c] => progFile'[D] = {}
              /\ "prog" \notin made[c] => progFile'[D] = progFile[D]
          BY <3>5 DEF Finish, Removed
        <4>2. ASSUME gptFile'[D] # {} PROVE \E o \in Call : Removes(o, D, "gpt")'
          <5>1. "gpt" \notin made[c] /\ gptFile[D] # {} BY <4>1, <4>2
          <5>2. PICK o \in Call : Removes(o, D, "gpt") BY <3>1, <5>1
          <5>3. o # c BY <5>1, <5>2 DEF Removes
          <5> QED BY <1>1, <5>2, <5>3 DEF Removes
        <4>3. ASSUME progFile'[D] # {} PROVE \E o \in Call : Removes(o, D, "prog")'
          <5>1. "prog" \notin made[c] /\ progFile[D] # {} BY <4>1, <4>3
          <5>2. PICK o \in Call : Removes(o, D, "prog") BY <3>1, <5>1
          <5>3. o # c BY <5>1, <5>2 DEF Removes
          <5> QED BY <1>1, <5>2, <5>3 DEF Removes
        <4> QED BY <3>4, <4>2, <4>3
      <3>6. CASE ~Finish(c)
        <4>1. pc'[c] \notin {"idle", "done", "dead"}
          BY <1>4, <3>2, <3>6 DEF Step, ReadBoard, TakeTable, Undump, Refuse, Preserve, Ask, Size, WriteTable,
               WriteProgram, Load, Flash, Decided, After
        <4>2. made[c] \subseteq made'[c]
          BY <1>4, <3>2, <3>6 DEF Step, ReadBoard, TakeTable, Undump, Refuse, Preserve, Ask, Size, WriteTable,
               WriteProgram, Load, Flash, Decided
        <4>3. gptFile'[D] = gptFile[D] \/ "gpt" \in made'[c]
          BY <1>4, <2>3, <3>2, <3>6 DEF Step, ReadBoard, TakeTable, Undump, Refuse, Preserve, Ask, Size,
               WriteTable, WriteProgram, Load, Flash, Decided
        <4>4. progFile'[D] = progFile[D] \/ "prog" \in made'[c]
          BY <1>4, <2>3, <3>2, <3>6 DEF Step, ReadBoard, TakeTable, Undump, Refuse, Preserve, Ask, Size,
               WriteTable, WriteProgram, Load, Flash, Decided
        <4>5. ASSUME gptFile'[D] # {} PROVE \E o \in Call : Removes(o, D, "gpt")'
          <5>1. CASE "gpt" \in made'[c] BY <4>1, <5>1 DEF Removes
          <5>2. CASE "gpt" \notin made'[c]
            <6>1. gptFile[D] # {} BY <4>3, <4>5, <5>2
            <6>2. PICK o \in Call : Removes(o, D, "gpt") BY <3>1, <6>1
            <6>3. o # c BY <4>2, <5>2, <6>2 DEF Removes
            <6> QED BY <1>1, <6>2, <6>3 DEF Removes
          <5> QED BY <5>1, <5>2
        <4>6. ASSUME progFile'[D] # {} PROVE \E o \in Call : Removes(o, D, "prog")'
          <5>1. CASE "prog" \in made'[c] BY <4>1, <5>1 DEF Removes
          <5>2. CASE "prog" \notin made'[c]
            <6>1. progFile[D] # {} BY <4>4, <4>6, <5>2
            <6>2. PICK o \in Call : Removes(o, D, "prog") BY <3>1, <6>1
            <6>3. o # c BY <4>2, <5>2, <6>2 DEF Removes
            <6> QED BY <1>1, <6>2, <6>3 DEF Removes
          <5> QED BY <5>1, <5>2
        <4> QED BY <3>4, <4>5, <4>6
      <3> QED BY <3>5, <3>6
    <2>4. ASSUME NEW d \in Dir, d \notin history'.spoiled
          PROVE  /\ dump'[d] # {} => \E o \in Call : pc'[o] \in {"table", "undump"} /\ req'[o].dir = d
                 /\ gptFile'[d] # {} => \E o \in Call : Removes(o, d, "gpt")'
                 /\ progFile'[d] # {} => \E o \in Call : Removes(o, d, "prog")'
      <3>1. CASE d = D BY <2>3, <2>4, <3>1
      <3>2. CASE d # D BY <2>2, <2>4, <3>2
      <3> QED BY <3>1, <3>2
    <2> QED BY <2>4 DEF TidyInv
  <1> QED BY <1>3, <1>4

-----------------------------------------------------------------------------
(* What is chosen to be flashed.                                           *)

\* The programs the image ships for what the call was asked and the user agreed to.
Ours(c) == IF req[c].preserve /\ ~confirmed[c] THEN Image[req[c].dir].nouser
                                               ELSE {Image[req[c].dir].full}

\* The resized table is beside the image, and the program that was moved with it.
TableIs(c)   == gptFile[req[c].dir] = {Resized(Image[req[c].dir].table, size[c])}
ProgramIs(c) == \E p \in Ours(c) : progFile[req[c].dir] = {Moved(p, size[c])}

ResizedProgram == "rawprogram0_resized.xml"

Plan(c) ==
    /\ pc[c] \in {"idle", "read", "table", "undump", "decide"} =>
         prog[c] = "rawprogram0.xml" /\ ~confirmed[c]
    /\ pc[c] \in {"resize", "move"} => prog[c] # ResizedProgram
    /\ pc[c] \in {"resize", "move", "program"} /\ prog[c] # ResizedProgram =>
         Program(req[c].dir, prog[c]) = Ours(c)
    /\ pc[c] = "move" => TableIs(c)
    /\ pc[c] = "program" /\ prog[c] = ResizedProgram => TableIs(c) /\ ProgramIs(c)
    /\ pc[c] = "flash" =>
         \/ loaded[c] \in Ours(c)
         \/ TableIs(c) /\ \E p \in Ours(c) : loaded[c] = Moved(p, size[c])
PlanInv == \A c \in Call : Plan(c)

\* The calls beside it leave the plan of a call alone, in directories that are not shared.
LEMMA PlanElsewhere ==
  ASSUME ~SharedDirs, TypeInv, OwnInv, OwnInv', NEW o \in Call, Step(o),
         NEW c \in Call, c # o, Plan(c)
  PROVE  Plan(c)'
  <1>1. /\ pc'[c] = pc[c] /\ req'[c] = req[c] /\ prog'[c] = prog[c] /\ size'[c] = size[c]
        /\ confirmed'[c] = confirmed[c] /\ loaded'[c] = loaded[c]
    BY Frame
  <1>2. CASE pc[c] \in {"idle", "return", "done", "dead"} BY <1>1, <1>2 DEF Plan
  <1>3. CASE Running(c) /\ Running(o)'
    <2>1. req[c].dir \in Dir BY RequestType DEF TypeInv, TypeOK
    <2>2. req[c].dir # req'[o].dir BY <1>1, <1>3 DEF OwnInv, Running
    <2>3. gptFile'[req[c].dir] = gptFile[req[c].dir] /\ progFile'[req[c].dir] = progFile[req[c].dir]
      BY <2>1, <2>2, Frame
    <2>4. Ours(c)' = Ours(c) BY <1>1 DEF Ours
    <2>5. TableIs(c)' = TableIs(c) /\ ProgramIs(c)' = ProgramIs(c)
      BY <1>1, <2>3, <2>4 DEF TableIs, ProgramIs
    <2>6. Program(req[c].dir, prog[c])' = Program(req[c].dir, prog[c])
      BY <1>1, <2>3 DEF Program
    <2> QED BY <1>1, <2>4, <2>5, <2>6 DEF Plan
  <1>4. CASE Running(c) /\ ~Running(o)'
    <2>1. Finish(o) \/ Crash(o)
      BY <1>4, RequestType DEF Step, Begin, ReadBoard, TakeTable, Undump, Refuse, Preserve, Ask, Size,
         WriteTable, WriteProgram, Load, Flash, Goto, Fail, Decided, After, Running, TypeInv, TypeOK
    <2>2. Running(o) /\ req'[o] = req[o]
      BY <2>1 DEF Finish, Crash, Running, callVars
    <2>3. req[c].dir # req'[o].dir BY <1>4, <2>2 DEF OwnInv
    <2>4. req[c].dir \in Dir BY RequestType DEF TypeInv, TypeOK
    <2>5. gptFile'[req[c].dir] = gptFile[req[c].dir] /\ progFile'[req[c].dir] = progFile[req[c].dir]
      BY <2>3, <2>4, Frame
    <2>6. Ours(c)' = Ours(c) BY <1>1 DEF Ours
    <2>7. TableIs(c)' = TableIs(c) /\ ProgramIs(c)' = ProgramIs(c)
      BY <1>1, <2>5, <2>6 DEF TableIs, ProgramIs
    <2>8. Program(req[c].dir, prog[c])' = Program(req[c].dir, prog[c])
      BY <1>1, <2>5 DEF Program
    <2> QED BY <1>1, <2>6, <2>7, <2>8 DEF Plan
  <1> QED BY <1>2, <1>3, <1>4 DEF Running, TypeInv, TypeOK, Phases

\* A call follows its plan.
LEMMA PlanStep ==
  ASSUME TypeInv, NEW c \in Call, Step(c), Plan(c)
  PROVE  Plan(c)'
  <1> USE DEF TypeInv, TypeOK, callVars, fileVars, Goto, Fail, ResizedProgram
  <1>1. CASE Begin(c)
    <2>1. PICK r \in Request : /\ req' = [req EXCEPT ![c] = r]
                               /\ \/ pc'[c] \in {"read", "return"}
                                  \/ pc'[c] = "program" /\ ~r.preserve
      BY <1>1 DEF Begin
    <2>2. req'[c] = r /\ prog'[c] = "rawprogram0.xml" /\ ~confirmed'[c]
      BY <1>1, <2>1 DEF Begin, Plan
    <2>3. pc'[c] = "program" => Ours(c)' = {Image[r.dir].full} BY <2>1, <2>2 DEF Ours
    <2>4. Program(req[c].dir, prog[c])' = {Image[r.dir].full} BY <2>2 DEF Program
    <2> QED BY <2>1, <2>2, <2>3, <2>4 DEF Plan
  <1>2. CASE ReadBoard(c) \/ TakeTable(c) \/ Undump(c) \/ Refuse(c)
    <2>1. /\ pc[c] \in {"read", "table", "undump", "decide"}
          /\ pc'[c] \in {"table", "undump", "decide", "return"}
          /\ UNCHANGED <<prog, confirmed>>
      BY <1>2 DEF ReadBoard, TakeTable, Undump, Refuse
    <2> QED BY <2>1 DEF Plan
  <1>3. CASE Preserve(c)
    <2>1. /\ prog'[c] = "rawprogram0.nouser.xml" /\ ~confirmed'[c] /\ req'[c] = req[c]
          /\ req[c].preserve /\ pc'[c] \in {"resize", "program", "return"}
      BY <1>3 DEF Preserve, Decided, After, Plan
    <2>2. Ours(c)' = Image[req[c].dir].nouser BY <2>1 DEF Ours
    <2>3. Program(req[c].dir, prog[c])' = Image[req[c].dir].nouser BY <2>1 DEF Program
    <2> QED BY <2>1, <2>2, <2>3 DEF Plan
  <1>4. CASE Ask(c) \/ Size(c)
    <2>1. /\ prog'[c] = "rawprogram0.xml" /\ req'[c] = req[c]
          /\ \/ pc'[c] = "return"
             \/ pc'[c] \in {"resize", "program"} /\ (confirmed'[c] \/ ~req[c].preserve)
      BY <1>4 DEF Ask, Size, Agreed, Decided, After, Plan
    <2>2. pc'[c] # "return" => Ours(c)' = {Image[req[c].dir].full} BY <2>1 DEF Ours
    <2>3. Program(req[c].dir, prog[c])' = {Image[req[c].dir].full} BY <2>1 DEF Program
    <2> QED BY <2>1, <2>2, <2>3 DEF Plan
  <1>5. CASE WriteTable(c)
    <2>0. req[c].dir \in Dir BY RequestType
    <2>1. /\ pc[c] = "resize" /\ pc'[c] \in {"move", "return"}
          /\ gptFile' = [gptFile EXCEPT ![req[c].dir] = {Resized(Image[req[c].dir].table, size[c])}]
          /\ UNCHANGED <<req, prog, size, confirmed, progFile>>
      BY <1>5 DEF WriteTable
    <2>2. TableIs(c)' BY <2>0, <2>1 DEF TableIs
    <2>3. Ours(c)' = Ours(c) /\ Program(req[c].dir, prog[c])' = Program(req[c].dir, prog[c])
      BY <2>1 DEF Ours, Program
    <2> QED BY <2>1, <2>2, <2>3 DEF Plan
  <1>6. CASE WriteProgram(c)
    <2>0. req[c].dir \in Dir BY RequestType
    <2>1. pc[c] = "move" /\ Program(req[c].dir, prog[c]) = Ours(c) /\ TableIs(c)
      BY <1>6 DEF WriteProgram, Plan
    <2>2. PICK p \in Ours(c) : progFile' = [progFile EXCEPT ![req[c].dir] = {Moved(p, size[c])}]
      BY <1>6, <2>1 DEF WriteProgram, MovedBySize
    <2>3. /\ UNCHANGED <<req, size, confirmed, gptFile>>
          /\ \/ pc'[c] = "return"
             \/ pc'[c] = "program" /\ prog'[c] = ResizedProgram
      <3>1. UNCHANGED <<req, size, confirmed, gptFile>> BY <1>6 DEF WriteProgram
      <3>2. \/ pc' = [pc EXCEPT ![c] = "return"]
            \/ pc' = [pc EXCEPT ![c] = "program"] /\ prog' = [prog EXCEPT ![c] = ResizedProgram]
        BY <1>6 DEF WriteProgram
      <3>3. pc \in [Call -> Phases] /\ prog \in [Call -> Names3] OBVIOUS
      <3>4. CASE pc' = [pc EXCEPT ![c] = "return"] BY <3>1, <3>3, <3>4
      <3>5. CASE pc' = [pc EXCEPT ![c] = "program"] /\ prog' = [prog EXCEPT ![c] = ResizedProgram]
        BY <3>1, <3>3, <3>5
      <3> QED BY <3>2, <3>4, <3>5
    <2>4. Ours(c)' = Ours(c) BY <2>3 DEF Ours
    <2>5. progFile'[req[c].dir] = {Moved(p, size[c])} BY <2>0, <2>2
    <2>6. TableIs(c)' /\ ProgramIs(c)' BY <2>1, <2>3, <2>4, <2>5 DEF TableIs, ProgramIs
    <2> QED BY <2>3, <2>6 DEF Plan
  <1>7. CASE Load(c)
    <2>1. /\ pc[c] = "program" /\ UNCHANGED <<req, size, prog, confirmed, gptFile>>
          /\ \/ pc'[c] = "return"
             \/ pc'[c] = "flash" /\ loaded'[c] \in Program(req[c].dir, prog[c])
      BY <1>7 DEF Load
    <2>2. Ours(c)' = Ours(c) /\ TableIs(c)' = TableIs(c) BY <2>1 DEF Ours, TableIs
    <2>3. CASE prog[c] # ResizedProgram BY <2>1, <2>2, <2>3 DEF Plan
    <2>4. CASE prog[c] = ResizedProgram
      <3>1. TableIs(c) /\ ProgramIs(c) BY <2>1, <2>4 DEF Plan
      <3>2. Program(req[c].dir, prog[c]) = progFile[req[c].dir] BY <2>4 DEF Program
      <3> QED BY <2>1, <2>2, <3>1, <3>2 DEF Plan, ProgramIs
    <2> QED BY <2>3, <2>4
  <1>8. CASE Flash(c) \/ Finish(c) \/ Crash(c)
    <2>1. pc'[c] \in {"return", "done", "dead"} BY <1>8 DEF Flash, Finish, Crash
    <2> QED BY <2>1 DEF Plan
  <1> QED BY <1>1, <1>2, <1>3, <1>4, <1>5, <1>6, <1>7, <1>8 DEF Step

\* What a call flashes is of its plan.
LEMMA PlanFlashed ==
  ASSUME TypeInv, NEW c \in Call, Plan(c), pc[c] = "flash"
  PROVE  /\ Flashed(c).root = Find(Flashed(c).table, "rootfs")
         /\ req[c].preserve /\ ~confirmed[c] => ~loaded[c].user
  <1> DEFINE d == req[c].dir  r == Find(Image[d].table, "rootfs")
  <1>0. d \in Dir /\ req[c].board \in Board /\ size[c] \in LBA
    BY RequestType DEF TypeInv, TypeOK, LBA
  <1>1. Disk[req[c].board] \in LBA BY <1>0, BoardsType DEF LBA
  <1>2. ASSUME NEW p \in Ours(c)
        PROVE  /\ p \in Programs /\ p.gpt = "gpt_main0.bin"
               /\ r = [first |-> p.rootStart, last |-> Wrap(p.rootStart + p.rootSectors - 1)]
               /\ req[c].preserve /\ ~confirmed[c] => ~p.user
    BY <1>0, <1>2, ImagesType DEF Ours
  <1>3. Image[d].table \in PartitionTables /\ Named(Image[d].table, "rootfs") # {}
    BY <1>0, ImagesType DEF Named
  <1>4. Flashed(c).root = [first |-> loaded[c].rootStart,
                           last |-> Wrap(loaded[c].rootStart + loaded[c].rootSectors - 1)]
    BY DEF Flashed
  <1>5. ASSUME NEW t, TableFile(d, loaded[c].gpt) = {t}
        PROVE  Flashed(c).table = Grown(t, Disk[req[c].board])
    BY <1>5 DEF Flashed
  <1>6. CASE loaded[c] \in Ours(c)
    <2>1. TableFile(d, loaded[c].gpt) = {Image[d].table} BY <1>2, <1>6 DEF TableFile
    <2>2. Find(Flashed(c).table, "rootfs") = r BY <1>1, <1>3, <1>5, <2>1, GrownRoot
    <2> QED BY <1>2, <1>4, <1>6, <2>2
  <1>7. CASE TableIs(c) /\ \E p \in Ours(c) : loaded[c] = Moved(p, size[c])
    <2>1. PICK p \in Ours(c) : loaded[c] = Moved(p, size[c]) BY <1>7
    <2> DEFINE u == Resized(Image[d].table, size[c])
    <2>2. /\ loaded[c].rootStart = p.rootStart /\ loaded[c].rootSectors = size[c] \div Sector
          /\ loaded[c].gpt = "gpt_main0_resized.bin" /\ loaded[c].user = p.user
      <3>1. p \in Programs BY <1>2
      <3> QED BY <1>0, <2>1, <3>1, MovedType
    <2>3. TableFile(d, loaded[c].gpt) = {u} BY <1>7, <2>2 DEF TableFile, TableIs
    <2>4. /\ u \in PartitionTables
          /\ Find(u, "rootfs") = [first |-> r.first, last |-> RootLast(r.first, size[c])]
      BY <1>0, <1>3, ResizedRoot
    <2>5. Flashed(c).table = Grown(u, Disk[req[c].board]) BY <1>5, <2>3
    <2>6. Find(Flashed(c).table, "rootfs") = Find(u, "rootfs") BY <1>1, <2>4, <2>5, GrownRoot
    <2>7. r.first = p.rootStart
      <3>1. r = [first |-> p.rootStart, last |-> Wrap(p.rootStart + p.rootSectors - 1)] BY <1>2
      <3> HIDE DEF r
      <3> QED BY <3>1
    <2> QED BY <1>2, <1>4, <2>2, <2>4, <2>6, <2>7 DEF RootLast
  <1> QED BY <1>6, <1>7 DEF Plan

-----------------------------------------------------------------------------
(* Where the user's data are.                                              *)

\* Arithmetic: division is exact, monotone, and small numbers do not wrap.
LEMMA DivisionFacts ==
  ASSUME NEW n \in Nat, NEW m \in Nat, NEW s \in Nat \ {0}
  PROVE  /\ (n * s) \div s = n
         /\ n <= m => n \div s <= m \div s
         /\ (n \div s) * s <= n /\ n \div s \in Nat
         /\ n <= n * s
         /\ n * s = m * s => n = m
  <1>1. (n * s) \div s = n OBVIOUS
  <1>2. n <= m => n \div s <= m \div s OBVIOUS
  <1>3. (n \div s) * s <= n /\ n \div s \in Nat OBVIOUS
  <1>4. n <= n * s OBVIOUS
  <1>5. n * s = m * s => n = m OBVIOUS
  <1> QED BY <1>1, <1>2, <1>3, <1>4, <1>5

LEMMA WrapSmall == ASSUME NEW n \in Nat, n < Word PROVE Wrap(n) = n
  BY WordType DEF Wrap

\* The partitions of a table, as numbers.
LEMMA PartitionsType ==
  ASSUME NEW t \in PartitionTables, NEW name
  PROVE  LET p == Find(t, name)
         IN  /\ p.first \in LBA /\ p.last \in LBA /\ p.first \in Nat /\ p.last \in Nat
             /\ p.first < Word /\ p.last < Word
  <1> DEFINE p == Find(t, name)
  <1>1. p \in Extents BY FindType
  <1> HIDE DEF p
  <1>2. p.first \in LBA /\ p.last \in LBA BY <1>1 DEF Extents
  <1>3. p.first < Word /\ p.last < Word BY <1>2, WordType DEF LBA
  <1> QED BY <1>2, <1>3, LBAType DEF p

\* The size of a root that is where it should be is its number of sectors.
LEMMA AlignedSize ==
  ASSUME NEW t \in PartitionTables, Aligned(t)
  PROVE  LET root == Find(t, "rootfs")
             n    == root.last - root.first + 1
         IN  n \in Nat \ {0} /\ SizeInBytes(root) = n * Sector
  <1> DEFINE root == Find(t, "rootfs")
             n    == root.last - root.first + 1
  <1>1. root.first \in Nat /\ root.last \in Nat BY PartitionsType
  <1>2. root.first <= root.last /\ n * Sector < Word BY DEF Aligned
  <1> HIDE DEF root
  <1>3. n \in Nat /\ n # 0 BY <1>1, <1>2
  <1> HIDE DEF n
  <1>4. Sector \in Nat \ {0} /\ Word \in Nat BY WordType
  <1>5. n <= n * Sector /\ n * Sector \in Nat BY <1>3, <1>4, DivisionFacts
  <1>6. n < Word BY <1>2, <1>3, <1>4, <1>5
  <1>7. Wrap(n) = n /\ Wrap(n * Sector) = n * Sector BY <1>2, <1>3, <1>5, <1>6, WrapSmall
  <1>8. SizeInBytes(root) = n * Sector BY <1>7 DEF SizeInBytes, n
  <1> QED BY <1>3, <1>8 DEF root, n

\* What ResizeRoot does to the table of an image keeps it so, and puts the user partition
\* where MoveUserdata puts the data.
LEMMA ResizedAligned ==
  ASSUME NEW d \in Dir, NEW s \in LBA, s >= Sector
  PROVE  LET i == Image[d].table
             u == Resized(i, s)
             first == Find(i, "rootfs").first
         IN  /\ u \in PartitionTables /\ Aligned(u) /\ Named(u, "userdata") # {}
             /\ Find(u, "userdata").first = first + s \div Sector
             /\ Wrap(first + s \div Sector) = first + s \div Sector
  <1> DEFINE i     == Image[d].table
             first == Find(i, "rootfs").first
             last  == RootLast(first, s)
             k     == s \div Sector
             v     == Put(i, "rootfs", first, last)
             u     == Resized(i, s)
  <1>1. /\ i \in PartitionTables /\ Aligned(i)
        /\ Named(i, "rootfs") # {} /\ Named(i, "userdata") # {}
        /\ 1 <= first /\ first + Word \div Sector < Word
    BY ImagesType DEF Named
  <1>2. first \in Nat /\ first \in LBA BY <1>1, PartitionsType
  <1>3. \A e \in Dir : first = Find(Image[e].table, "rootfs").first BY <1>1 DEF Aligned
  <1> HIDE DEF i, first
  <1>4. s \in Nat /\ Word \in Nat /\ s <= Word /\ Sector \in Nat \ {0} /\ s < Word
    BY WordType DEF LBA
  <1>5. k \in Nat /\ k >= 1 /\ k * Sector <= s /\ k <= Word \div Sector
    <2>1. (1 * Sector) \div Sector = 1 BY <1>4, DivisionFacts
    <2>2. 1 * Sector = Sector /\ Sector \in Nat BY <1>4
    <2>3. Sector \div Sector <= k BY <1>4, <2>2, DivisionFacts
    <2> QED BY <1>4, <2>1, <2>2, <2>3, DivisionFacts
  <1> HIDE DEF k
  <1>6. Word \div Sector \in Nat BY <1>4, DivisionFacts
  <1>7. first + k < Word /\ first + k - 1 \in Nat /\ first + k \in Nat
    BY <1>1, <1>2, <1>4, <1>5, <1>6
  <1>8. last = first + k - 1
    <2>1. first + k - 1 < Word BY <1>2, <1>4, <1>5, <1>7
    <2> QED BY <1>7, <2>1, WrapSmall DEF RootLast, k
  <1>9. Wrap(first + k) = first + k BY <1>7, WrapSmall
  <1>10. last \in LBA /\ Wrap(last + 1) = first + k /\ first + k \in LBA
    <2>1. last + 1 = first + k BY <1>2, <1>5, <1>8
    <2>2. last \in 0..(Word - 1) /\ first + k \in 0..(Word - 1)
      BY <1>2, <1>4, <1>5, <1>7, <1>8
    <2> QED BY <1>9, <2>1, <2>2 DEF LBA
  <1> HIDE DEF last
  <1>11. v \in PartitionTables BY <1>1, <1>2, <1>10, Names, PutType
  <1>12. Named(v, "userdata") = Named(i, "userdata") BY <1>1, <1>2, <1>10, Names, PutNames
  <1>13. u = Put(v, "userdata", first + k, last) BY <1>10 DEF Resized, first, last
  <1> HIDE DEF v
  <1>14. u \in PartitionTables BY <1>10, <1>11, <1>13, Names, PutType
  <1>15. Find(u, "userdata") = [first |-> first + k, last |-> last]
    BY <1>1, <1>10, <1>11, <1>12, <1>13, Names, FindPut
  <1>16. Named(u, "userdata") # {} BY <1>1, <1>10, <1>11, <1>12, <1>13, Names, PutNames
  <1>17. Find(u, "rootfs") = [first |-> first, last |-> last]
    BY <1>1, ResizedRoot DEF first, last
  <1> HIDE DEF u
  <1>18. Aligned(u)
    <2>1. last - first + 1 = k /\ last + 1 = first + k /\ first <= last
      BY <1>2, <1>5, <1>8
    <2>2. k * Sector < Word BY <1>4, <1>5
    <2> QED BY <1>3, <1>15, <1>17, <2>1, <2>2 DEF Aligned
  <1> QED BY <1>9, <1>14, <1>15, <1>16, <1>18 DEF u, i, first, k

\* Growing the user partition moves neither its first sector nor the root.
LEMMA GrownAligned ==
  ASSUME NEW t \in PartitionTables, NEW last \in LBA, Named(t, "userdata") # {}
  PROVE  /\ Find(Grown(t, last), "userdata").first = Find(t, "userdata").first
         /\ Find(Grown(t, last), "rootfs") = Find(t, "rootfs")
         /\ Aligned(t) => Aligned(Grown(t, last))
  <1> DEFINE first == Find(t, "userdata").first
             u     == Put(t, "userdata", first, last)
             g     == Grown(t, last)
  <1>1. first \in LBA BY PartitionsType
  <1>2. u \in PartitionTables BY <1>1, Names, PutType
  <1>3. g = [u EXCEPT !.lastLBA = last] BY DEF Grown
  <1>4. g.entries = u.entries BY <1>2, <1>3 DEF PartitionTables
  <1>5. Find(g, "userdata") = Find(u, "userdata") BY <1>4 DEF Find, UsedEntries
  <1>6. Find(u, "userdata") = [first |-> first, last |-> last] BY <1>1, Names, FindPut
  <1>7. Find(g, "userdata").first = first BY <1>5, <1>6
  <1>8. Find(g, "rootfs") = Find(t, "rootfs") BY GrownRoot
  <1> HIDE DEF g
  <1>9. Aligned(t) => Aligned(g) BY <1>7, <1>8 DEF Aligned
  <1> QED BY <1>7, <1>8, <1>9 DEF g

\* The data on a board are where its table has them.
Sound(x) ==
    /\ x.data # Lost => /\ x.data = Find(x.table, "userdata").first
                        /\ Find(x.table, "rootfs").last < Find(x.table, "userdata").first
    /\ Preservable(Parsed(x.table)) => Aligned(x.table)
SoundInv == \A b \in Board : Sound(device[b])

Keeping(c)  == req[c].preserve /\ ~confirmed[c]
OnTable(c)  == SizeInBytes(table[c].root)
Resizing(c) == \/ pc[c] \in {"resize", "move"}
               \/ pc[c] = "program" /\ prog[c] = ResizedProgram
               \/ pc[c] = "flash" /\ loaded[c] \notin Ours(c)
Chosen      == {"resize", "move", "program", "flash"}

\* What a call knows of its board is still so, and a root is kept as it is there.
Known(c) ==
    LET t == device[req[c].board].table
    IN  /\ pc[c] = "table" => dump[req[c].dir] \subseteq {t}
        /\ pc[c] = "undump" /\ ~err[c] => table[c] = Parsed(t)
        /\ pc[c] \in {"decide"} \cup Chosen /\ req[c].preserve => table[c] = Parsed(t)
        /\ pc[c] \in Chosen /\ Keeping(c) =>
             /\ Preservable(table[c])
             /\ size[c] = IF OnTable(c) = OnImage(c) THEN 0 ELSE OnTable(c)
             /\ Resizing(c) <=> size[c] > 0
        /\ pc[c] \in Chosen /\ Resizing(c) => size[c] >= Sector
KnownInv == \A c \in Call : Known(c)

\* What a call flashes keeps the data where the table has them.
LEMMA FlashedSound ==
  ASSUME TypeInv, NEW c \in Call, Plan(c), Known(c), pc[c] = "flash", Sound(device[req[c].board])
  PROVE  Sound(Flashed(c)) /\ \A half \in HalfFlashed(c) : Sound(half)
  <1> DEFINE d     == req[c].dir
             i     == Image[d].table
             s     == size[c]
             p     == loaded[c]
             old   == device[req[c].board]
             new   == Flashed(c)
             first == Find(i, "rootfs").first
  <1>0. /\ d \in Dir /\ req[c].board \in Board /\ s \in LBA /\ old \in Devices
        /\ new \in Devices /\ p \in Programs
    BY RequestType, FlashedType DEF TypeInv, TypeOK, LBA
  <1>1. Disk[req[c].board] \in LBA BY <1>0, BoardsType DEF LBA
  <1>2. /\ i \in PartitionTables /\ Aligned(i) /\ Named(i, "userdata") # {}
        /\ \A q \in Ours(c) :
              /\ q \in Programs /\ q.gpt = "gpt_main0.bin" /\ q.rootStart = first
              /\ q.user => q.userStart = Find(i, "userdata").first
              /\ ~q.user => Keeping(c)
    <2>1. ASSUME NEW q \in {Image[d].full} \cup Image[d].nouser
          PROVE  /\ q \in Programs /\ q.gpt = "gpt_main0.bin" /\ q.rootStart = first
      <3>1. /\ q \in Programs /\ q.gpt = "gpt_main0.bin"
            /\ Find(i, "rootfs") = [first |-> q.rootStart, last |-> Wrap(q.rootStart + q.rootSectors - 1)]
        BY <1>0, ImagesType
      <3> QED BY <3>1
    <2>2. /\ Image[d].full.user /\ Image[d].full.userStart = Find(i, "userdata").first
          /\ \A q \in Image[d].nouser : ~q.user
      BY <1>0, ImagesType
    <2>3. i \in PartitionTables /\ Aligned(i) /\ Named(i, "userdata") # {}
      BY <1>0, ImagesType DEF Named
    <2>4. Keeping(c) => Ours(c) = Image[d].nouser BY DEF Keeping, Ours
    <2>5. ~Keeping(c) => Ours(c) = {Image[d].full} BY DEF Keeping, Ours
    <2> HIDE DEF d, i, first
    <2>6. CASE Keeping(c) BY <2>1, <2>2, <2>3, <2>4, <2>6
    <2>7. CASE ~Keeping(c) BY <2>1, <2>2, <2>3, <2>5, <2>7
    <2> QED BY <2>6, <2>7
  <1>3. ASSUME NEW t, TableFile(d, p.gpt) = {t}
        PROVE  new.table = Grown(t, Disk[req[c].board])
    BY <1>3 DEF Flashed
  <1>4. new.data = (IF p.user THEN p.userStart ELSE old.data)
    BY DEF Flashed
  <1>5. /\ Aligned(new.table)
        /\ p.user => p.userStart = Find(new.table, "userdata").first
        /\ ~p.user => Keeping(c)
        /\ Find(new.table, "userdata").first =
              IF p \in Ours(c) THEN Find(i, "userdata").first ELSE first + s \div Sector
    <2>1. CASE p \in Ours(c)
      <3>1. TableFile(d, p.gpt) = {i} BY <1>2, <2>1 DEF TableFile
      <3>2. new.table = Grown(i, Disk[req[c].board]) BY <1>3, <3>1
      <3>3. Aligned(new.table) /\ Find(new.table, "userdata").first = Find(i, "userdata").first
        BY <1>1, <1>2, <3>2, GrownAligned
      <3> QED BY <1>2, <2>1, <3>3
    <2>2. CASE p \notin Ours(c)
      <3>1. TableIs(c) /\ \E q \in Ours(c) : p = Moved(q, s) BY <2>2 DEF Plan
      <3>2. PICK q \in Ours(c) : p = Moved(q, s) BY <3>1
      <3>3. q \in Programs /\ q.rootStart = first /\ (~q.user => Keeping(c)) BY <1>2
      <3>4. /\ p.user = q.user /\ p.gpt = "gpt_main0_resized.bin"
            /\ p.userStart = Wrap(first + s \div Sector)
        <4> HIDE DEF first
        <4> QED BY <1>0, <3>2, <3>3, MovedType
      <3> DEFINE u == Resized(i, s)
      <3>5. TableFile(d, p.gpt) = {u} BY <3>1, <3>4 DEF TableFile, TableIs
      <3>6. new.table = Grown(u, Disk[req[c].board]) BY <1>3, <3>5
      <3>0. s >= Sector BY <2>2 DEF Known, Resizing, Chosen
      <3>7. /\ u \in PartitionTables /\ Aligned(u) /\ Named(u, "userdata") # {}
            /\ Find(u, "userdata").first = first + s \div Sector
            /\ Wrap(first + s \div Sector) = first + s \div Sector
        BY <1>0, <3>0, ResizedAligned
      <3> HIDE DEF u, first
      <3>8. Aligned(new.table) /\ Find(new.table, "userdata").first = first + s \div Sector
        BY <1>1, <3>6, <3>7, GrownAligned
      <3> QED BY <2>2, <3>3, <3>4, <3>7, <3>8
    <2> QED BY <2>1, <2>2
  <1>6. Find(new.table, "rootfs").last < Find(new.table, "userdata").first
    <2>1. new.table \in PartitionTables BY <1>0 DEF Devices
    <2> HIDE DEF new
    <2> QED BY <1>5, <2>1, PartitionsType DEF Aligned
  <1>7. ASSUME ~p.user, old.data # Lost
        PROVE  Find(new.table, "userdata").first = Find(old.table, "userdata").first
    <2> DEFINE was == Find(old.table, "rootfs")
               is  == Find(i, "rootfs")
               n   == was.last - was.first + 1
               m   == is.last - is.first + 1
    <2>1. Keeping(c) BY <1>5, <1>7
    <2>2. old.table \in PartitionTables BY <1>0 DEF Devices
    <2>3. table[c] = Parsed(old.table) /\ Preservable(table[c])
          /\ s = IF OnTable(c) = OnImage(c) THEN 0 ELSE OnTable(c)
      BY <2>1 DEF Known, Keeping, Chosen
    <2>4. Aligned(old.table) BY <2>3 DEF Sound
    <2>5. table[c].root = was BY <2>3 DEF Parsed
    <2>6. n \in Nat \ {0} /\ OnTable(c) = n * Sector BY <2>2, <2>4, <2>5, AlignedSize DEF OnTable
    <2>7. m \in Nat \ {0} /\ OnImage(c) = m * Sector BY <1>2, AlignedSize DEF OnImage
    <2>8. was.first = first BY <1>0, <2>4 DEF Aligned
    <2>9. /\ Find(old.table, "userdata").first = was.last + 1
          /\ Find(i, "userdata").first = is.last + 1
      BY <1>2, <2>4 DEF Aligned
    <2>10. was.first \in Nat /\ was.last \in Nat /\ is.first \in Nat /\ is.last \in Nat
      BY <1>2, <2>2, PartitionsType
    <2>11. is.first = first OBVIOUS
    <2>12. Find(new.table, "userdata").first =
              IF p \in Ours(c) THEN Find(i, "userdata").first ELSE first + s \div Sector
      BY <1>5
    <2>13. p \in Ours(c) <=> s = 0
      <3>1. Resizing(c) <=> s > 0 BY <2>1 DEF Known, Chosen
      <3>2. Resizing(c) <=> p \notin Ours(c) BY DEF Resizing
      <3>3. s \in Nat BY <1>0, LBAType
      <3> QED BY <3>1, <3>2, <3>3
    <2>14. Sector \in Nat \ {0} BY WordType
    <2> HIDE DEF was, is, n, m, first, new, p, s, i, old
    <2>16. CASE p \in Ours(c)
      <3>1. n * Sector = m * Sector \/ n * Sector = 0 BY <2>3, <2>6, <2>7, <2>13, <2>16
      <3>2. n <= n * Sector /\ (n * Sector = m * Sector => n = m) BY <2>6, <2>7, <2>14, DivisionFacts
      <3>3. n = m BY <2>6, <2>14, <3>1, <3>2
      <3>4. was.last = is.last BY <2>8, <2>10, <2>11, <3>3 DEF n, m
      <3> QED BY <2>9, <2>12, <2>16, <3>4
    <2>17. CASE p \notin Ours(c)
      <3>1. s = n * Sector BY <2>3, <2>6, <2>13, <2>17
      <3>2. s \div Sector = n BY <2>6, <2>14, <3>1, DivisionFacts
      <3>3. first + n = was.last + 1 BY <2>8, <2>10 DEF n
      <3> QED BY <2>9, <2>12, <2>17, <3>2, <3>3
    <2> QED BY <2>16, <2>17
  <1>8. Sound(new)
    <2> HIDE DEF new, p, old
    <2>1. CASE p.user BY <1>4, <1>5, <1>6, <2>1 DEF Sound
    <2>2. CASE ~p.user BY <1>4, <1>5, <1>6, <1>7, <2>2 DEF Sound, old
    <2> QED BY <2>1, <2>2
  <1>9. ASSUME NEW half \in HalfFlashed(c) PROVE Sound(half)
    <2>1. PICK t \in {old.table, new.table} :
            half = [table |-> t, root |-> old.root, whole |-> FALSE,
                    data |-> IF p.user THEN Lost ELSE old.data]
      BY DEF HalfFlashed
    <2>2. half.table = t /\ half.data = IF p.user THEN Lost ELSE old.data BY <2>1
    <2> HIDE DEF new, p, old
    <2>3. Preservable(Parsed(t)) => Aligned(t) BY <1>5, <2>1 DEF Sound, old
    <2>4. CASE p.user BY <2>2, <2>3, <2>4 DEF Sound
    <2>5. CASE ~p.user
      <3>1. CASE t = old.table BY <2>2, <2>3, <2>5, <3>1 DEF Sound, old
      <3>2. CASE t = new.table BY <1>6, <1>7, <2>2, <2>3, <2>5, <3>2 DEF Sound, old
      <3> QED BY <2>1, <3>1, <3>2
    <2> QED BY <2>4, <2>5
  <1> QED BY <1>8, <1>9

\* A step changes no board but its own, and that by a flash.
LEMMA DeviceFrame ==
  ASSUME TypeInv, NEW o \in Call, Step(o)
  PROVE  /\ \A c \in Call : c # o => table'[c] = table[c] /\ err'[c] = err[c]
         /\ \A b \in Board : device'[b] = device[b] \/ (b = req[o].board /\ pc[o] = "flash")
         /\ \A b \in Board :
               \/ device'[b] = device[b]
               \/ device'[b] = Flashed(o) /\ Flash(o)
               \/ device'[b] \in HalfFlashed(o) /\ pc[o] = "flash" /\ pc'[o] \in {"return", "dead"}
  <1> USE DEF TypeInv, TypeOK, callVars, fileVars, Goto, Fail
  <1>1. CASE Flash(o)
    <2>1. \/ device' = [device EXCEPT ![req[o].board] = Flashed(o)]
          \/ /\ pc' = [pc EXCEPT ![o] = "return"]
             /\ \E half \in HalfFlashed(o) : device' = [device EXCEPT ![req[o].board] = half]
      BY <1>1 DEF Flash
    <2>2. pc[o] = "flash" /\ UNCHANGED table /\ \A c \in Call : c # o => err'[c] = err[c]
      BY <1>1 DEF Flash
    <2> QED BY <1>1, <2>1, <2>2
  <1>2. CASE Crash(o)
    <2>1. \/ UNCHANGED device
          \/ \E half \in HalfFlashed(o) : device' = [device EXCEPT ![req[o].board] = half] /\ pc[o] = "flash"
      BY <1>2 DEF Crash
    <2>2. UNCHANGED <<table, err>> /\ pc' = [pc EXCEPT ![o] = "dead"] BY <1>2 DEF Crash
    <2> QED BY <2>1, <2>2
  <1>3. CASE ~Flash(o) /\ ~Crash(o)
    <2>1. UNCHANGED device
      BY <1>3 DEF Step, Begin, ReadBoard, TakeTable, Undump, Refuse, Preserve, Ask, Size, WriteTable,
         WriteProgram, Load, Finish
    <2>2. \A c \in Call : c # o => table'[c] = table[c]
      BY <1>3 DEF Step, Begin, ReadBoard, TakeTable, Undump, Refuse, Preserve, Ask, Size, WriteTable,
         WriteProgram, Load, Finish
    <2>3. \A c \in Call : c # o => err'[c] = err[c]
      BY <1>3 DEF Step, Begin, ReadBoard, TakeTable, Undump, Refuse, Preserve, Ask, Size, WriteTable,
         WriteProgram, Load, Finish, Decided
    <2> QED BY <2>1, <2>2, <2>3
  <1> QED BY <1>1, <1>2, <1>3

\* The calls beside it leave what a call knows alone, in directories that are not shared.
LEMMA KnownElsewhere ==
  ASSUME ~SharedDirs, TypeInv, OwnInv, OwnInv', NEW o \in Call, Step(o),
         NEW c \in Call, c # o, Known(c)
  PROVE  Known(c)'
  <1>1. /\ pc'[c] = pc[c] /\ req'[c] = req[c] /\ prog'[c] = prog[c] /\ size'[c] = size[c]
        /\ confirmed'[c] = confirmed[c] /\ loaded'[c] = loaded[c]
        /\ table'[c] = table[c] /\ err'[c] = err[c]
    BY Frame, DeviceFrame
  <1>2. /\ Keeping(c)' = Keeping(c) /\ OnTable(c)' = OnTable(c) /\ OnImage(c)' = OnImage(c)
        /\ Ours(c)' = Ours(c)
    BY <1>1 DEF Keeping, OnTable, OnImage, Ours
  <1>3. Resizing(c)' <=> Resizing(c) BY <1>1, <1>2 DEF Resizing
  <1>4. CASE pc[c] \in {"idle", "return", "done", "dead"} BY <1>1, <1>4 DEF Known, Chosen
  <1>5. CASE Running(c)
    <2>1. req[c].board \in Board /\ req[c].dir \in Dir BY RequestType DEF TypeInv, TypeOK
    <2>2. device'[req[c].board] = device[req[c].board]
      BY <1>5, <2>1, DeviceFrame DEF OwnInv, Running
    <2>3. Running(c)' BY <1>1, <1>5 DEF Running
    <2>4. req[c].dir # req'[o].dir
      <3>1. CASE Running(o)' BY <1>1, <2>3, <3>1 DEF OwnInv
      <3>2. CASE ~Running(o)'
        <4>1. Running(o) /\ req'[o] = req[o]
          BY <3>2, RequestType DEF Step, Begin, ReadBoard, TakeTable, Undump, Refuse, Preserve, Ask, Size,
             WriteTable, WriteProgram, Load, Flash, Finish, Crash, Goto, Fail, Decided, After, Running,
             TypeInv, TypeOK, callVars
        <4> QED BY <1>5, <4>1 DEF OwnInv
      <3> QED BY <3>1, <3>2
    <2>5. dump'[req[c].dir] = dump[req[c].dir] BY <2>1, <2>4, Frame
    <2> QED BY <1>1, <1>2, <1>3, <2>2, <2>5 DEF Known
  <1> QED BY <1>4, <1>5 DEF Running

\* A program is loaded as it was chosen.
LEMMA LoadedResizing ==
  ASSUME TypeInv, NEW c \in Call, Plan(c), pc[c] = "program",
         UNCHANGED <<req, size, confirmed, prog>>,
         pc'[c] = "flash", loaded'[c] \in Program(req[c].dir, prog[c])
  PROVE  Resizing(c)' <=> Resizing(c)
  <1>0. req[c].dir \in Dir BY RequestType DEF TypeInv, TypeOK
  <1>1. Ours(c)' = Ours(c) BY DEF Ours
  <1>2. CASE prog[c] = ResizedProgram
    <2>1. PICK q \in Ours(c) : loaded'[c] = Moved(q, size[c])
      BY <1>2 DEF Plan, ProgramIs, Program, ResizedProgram
    <2>2. \A p \in Ours(c) : p \in Programs /\ p.gpt = "gpt_main0.bin"
      BY <1>0, ImagesType DEF Ours
    <2>3. loaded'[c].gpt = "gpt_main0_resized.bin"
      <3>1. q \in Programs /\ size[c] \in LBA BY <2>2 DEF TypeInv, TypeOK, LBA
      <3> QED BY <2>1, <3>1, MovedType
    <2>4. loaded'[c] \notin Ours(c) BY <2>2, <2>3
    <2> QED BY <1>1, <1>2, <2>4 DEF Resizing
  <1>3. CASE prog[c] # ResizedProgram
    <2>1. loaded'[c] \in Ours(c) BY <1>3 DEF Plan
    <2> QED BY <1>1, <1>3, <2>1 DEF Resizing
  <1> QED BY <1>2, <1>3

\* A call does what it knows to be right.
LEMMA KnownStep ==
  ASSUME TypeInv, NEW c \in Call, Step(c), Plan(c), Known(c), Sound(device[req[c].board])
  PROVE  Known(c)'
  <1> USE DEF TypeInv, TypeOK, callVars, fileVars, Goto, Fail, Chosen
  <1>0. req[c].dir \in Dir /\ req[c].board \in Board BY RequestType
  <1>1. CASE Begin(c)
    <2>1. PICK r \in Request : /\ req' = [req EXCEPT ![c] = r]
                               /\ \/ pc'[c] \in {"read", "return"}
                                  \/ pc'[c] = "program" /\ ~r.preserve
      BY <1>1 DEF Begin
    <2>2. req'[c] = r /\ prog'[c] = "rawprogram0.xml" BY <1>1, <2>1 DEF Begin, Plan
    <2>3. pc'[c] = "program" => ~Keeping(c)' /\ ~Resizing(c)'
      BY <2>1, <2>2 DEF Keeping, Resizing, ResizedProgram
    <2> QED BY <2>1, <2>2, <2>3 DEF Known
  <1>2. CASE ReadBoard(c)
    <2>1. pc'[c] \in {"table", "return"} /\ UNCHANGED <<req, device>> BY <1>2 DEF ReadBoard
    <2>2. pc'[c] = "table" => dump'[req[c].dir] \subseteq {device[req[c].board].table}
      BY <1>0, <1>2 DEF ReadBoard
    <2> QED BY <2>1, <2>2 DEF Known
  <1>3. CASE TakeTable(c)
    <2>1. /\ pc'[c] \in {"undump", "return"} /\ UNCHANGED <<req, device>>
          /\ pc'[c] = "undump" /\ ~err'[c] => \E raw \in dump[req[c].dir] : table'[c] = Parsed(raw)
      BY <1>3 DEF TakeTable
    <2>2. dump[req[c].dir] \subseteq {device[req[c].board].table} BY <1>3 DEF TakeTable, Known
    <2> QED BY <2>1, <2>2 DEF Known
  <1>4. CASE Undump(c)
    <2>1. /\ pc'[c] \in {"decide", "return"} /\ UNCHANGED <<req, device, table>>
          /\ pc'[c] = "decide" => table[c] = Parsed(device[req[c].board].table)
      BY <1>4 DEF Undump, Known
    <2> QED BY <2>1 DEF Known
  <1>5. CASE Preserve(c)
    <2> DEFINE t == device[req[c].board].table
               s == IF OnTable(c) = OnImage(c) THEN 0 ELSE OnTable(c)
    <2>1. /\ table[c] = Parsed(t) /\ Preservable(table[c])
          /\ UNCHANGED <<req, device, table, confirmed>>
          /\ prog'[c] # ResizedProgram /\ size'[c] = s
          /\ \/ pc'[c] = "return"
             \/ pc'[c] = After(s)
      BY <1>5 DEF Preserve, Known, Keepable, Decided, OnTable, OnImage, ResizedProgram
    <2>2. OnTable(c) \in Nat /\ OnTable(c) >= Sector
      <3>1. t \in PartitionTables BY <1>0 DEF Devices
      <3>2. Aligned(t) BY <2>1 DEF Sound
      <3> DEFINE root == Find(t, "rootfs")
                 n    == root.last - root.first + 1
      <3>3. n \in Nat \ {0} /\ SizeInBytes(root) = n * Sector BY <3>1, <3>2, AlignedSize
      <3>4. OnTable(c) = n * Sector BY <2>1, <3>3 DEF OnTable, Parsed
      <3>5. Sector \in Nat BY WordType
      <3> HIDE DEF n
      <3>6. n * Sector \in Nat /\ n * Sector >= Sector BY <3>3, <3>5
      <3> QED BY <3>4, <3>6
    <2>3. s \in Nat /\ (s > 0 => s >= Sector) BY <2>2
    <2>4. OnTable(c)' = OnTable(c) /\ OnImage(c)' = OnImage(c) BY <2>1 DEF OnTable, OnImage
    <2> HIDE DEF s, t
    <2>5. pc'[c] # "return" => (Resizing(c)' <=> size'[c] > 0) /\ pc'[c] \in {"resize", "program"}
      BY <2>1 DEF Resizing, After
    <2> QED BY <2>1, <2>3, <2>4, <2>5 DEF Known, s, t
  <1>6. CASE Ask(c) \/ Size(c) \/ Refuse(c)
    <2>1. /\ UNCHANGED <<req, device, table>> /\ prog'[c] # ResizedProgram
          /\ pc[c] = "decide"
      BY <1>6 DEF Ask, Size, Refuse, Plan, ResizedProgram
    <2>2. CASE Ask(c)
      <3>1. pc'[c] = "return" \/ (pc'[c] = "program" /\ confirmed'[c])
        BY <2>2 DEF Ask, Agreed
      <3>2. pc'[c] = "program" => ~Keeping(c)' /\ ~Resizing(c)'
        BY <2>1, <3>1 DEF Keeping, Resizing
      <3> QED BY <2>1, <3>1, <3>2 DEF Known
    <2>3. CASE Size(c)
      <3> DEFINE s == IF req[c].rootSize > 0 THEN req[c].rootSize ELSE DefaultRootSize(BoardSize(table[c]))
      <3>1. s \in Nat /\ (s > 0 => s >= Sector)
        <4>1. /\ req[c].rootSize \in LBA /\ (req[c].rootSize = 0 \/ req[c].rootSize >= Sector)
              /\ DefaultRootSize(BoardSize(table[c])) \in LBA
              /\ DefaultRootSize(BoardSize(table[c])) = 0 \/ DefaultRootSize(BoardSize(table[c])) >= Sector
          BY RequestType, DefaultType
        <4> QED BY <4>1, LBAType
      <3>2. /\ ~req[c].preserve /\ size'[c] = s
            /\ \/ pc'[c] = "return"
               \/ pc'[c] = After(s)
        BY <2>3 DEF Size, Decided
      <3> HIDE DEF s
      <3>3. ~Keeping(c)' BY <2>1, <3>2 DEF Keeping
      <3>4. pc'[c] # "return" => (Resizing(c)' <=> s > 0) /\ pc'[c] \in {"resize", "program"}
        BY <2>1, <3>2 DEF Resizing, After
      <3> QED BY <2>1, <3>1, <3>2, <3>3, <3>4 DEF Known
    <2>4. CASE Refuse(c)
      <3>1. pc'[c] = "return" BY <2>4 DEF Refuse
      <3> QED BY <3>1 DEF Known
    <2> QED BY <1>6, <2>2, <2>3, <2>4
  <1>7. CASE WriteTable(c) \/ WriteProgram(c)
    <2>1. /\ pc[c] \in {"resize", "move"} /\ UNCHANGED <<req, device, table, size, confirmed>>
          /\ \/ pc'[c] \in {"move", "return"}
             \/ pc'[c] = "program" /\ prog'[c] = ResizedProgram
      BY <1>7 DEF WriteTable, WriteProgram, ResizedProgram
    <2>2. Resizing(c) /\ (pc'[c] # "return" => Resizing(c)') BY <2>1 DEF Resizing
    <2>3. OnTable(c)' = OnTable(c) /\ OnImage(c)' = OnImage(c) /\ Keeping(c)' = Keeping(c)
      BY <2>1 DEF OnTable, OnImage, Keeping
    <2> QED BY <2>1, <2>2, <2>3 DEF Known
  <1>8. CASE Load(c)
    <2>1. /\ pc[c] = "program" /\ UNCHANGED <<req, device, table, size, confirmed, prog>>
          /\ \/ pc'[c] = "return"
             \/ pc'[c] = "flash" /\ loaded'[c] \in Program(req[c].dir, prog[c])
      BY <1>8 DEF Load
    <2>2. OnTable(c)' = OnTable(c) /\ OnImage(c)' = OnImage(c) /\ Keeping(c)' = Keeping(c)
          /\ Ours(c)' = Ours(c)
      BY <2>1 DEF OnTable, OnImage, Keeping, Ours
    <2>3. ASSUME pc'[c] = "flash" PROVE Resizing(c)' <=> Resizing(c)
      BY <2>1, <2>3, LoadedResizing
    <2> QED BY <2>1, <2>2, <2>3 DEF Known
  <1>9. CASE Flash(c) \/ Finish(c) \/ Crash(c)
    <2>1. pc'[c] \in {"return", "done", "dead"} BY <1>9 DEF Flash, Finish, Crash
    <2> QED BY <2>1 DEF Known
  <1> QED BY <1>1, <1>2, <1>3, <1>4, <1>5, <1>6, <1>7, <1>8, <1>9 DEF Step

-----------------------------------------------------------------------------
(* Every flash.                                                            *)

\* Who wrote over data has returned or was killed, and was not to keep them.
WipedInv ==
    \A c \in history.wiped :
        pc[c] \in {"return", "done", "dead"} /\ (req[c].preserve => confirmed[c])

LEMMA WipedStep ==
  ASSUME TypeInv, WipedInv, NEW o \in Call, Step(o), Plan(o)
  PROVE  WipedInv'
  <1> USE DEF TypeInv, TypeOK, callVars, fileVars, Goto, Fail, Spoil
  <1>0. history.wiped \subseteq Call OBVIOUS
  <1>1. \A c \in Call : c # o =>
           pc'[c] = pc[c] /\ req'[c] = req[c] /\ confirmed'[c] = confirmed[c]
    BY Frame
  <1>2. CASE pc[o] = "flash"
    <2>1. Flash(o) \/ Crash(o)
      BY <1>2 DEF Step, Begin, ReadBoard, TakeTable, Undump, Refuse, Preserve, Ask, Size, WriteTable,
         WriteProgram, Load, Finish
    <2>2. /\ history'.wiped \subseteq history.wiped \cup Wipe(o)
          /\ UNCHANGED <<req, confirmed>> /\ pc'[o] \in {"return", "dead"}
      BY <2>1 DEF Flash, Crash
    <2>3. Wipe(o) = {} \/ (Wipe(o) = {o} /\ (req[o].preserve => confirmed[o]))
      BY <1>2, PlanFlashed DEF Wipe
    <2>4. o \notin history.wiped BY <1>2 DEF WipedInv
    <2> QED BY <1>0, <1>1, <2>2, <2>3, <2>4 DEF WipedInv
  <1>3. CASE pc[o] # "flash"
    <2>1. history'.wiped = history.wiped
      BY <1>3 DEF Step, Begin, ReadBoard, TakeTable, Undump, Refuse, Preserve, Ask, Size, WriteTable,
         WriteProgram, Load, Flash, Finish, Crash
    <2>2. ASSUME o \in history.wiped
          PROVE  pc'[o] \in {"return", "done", "dead"} /\ UNCHANGED <<req, confirmed>>
      <3>1. pc[o] \in {"return", "done", "dead"} BY <2>2 DEF WipedInv
      <3>2. Finish(o) \/ Crash(o)
        BY <3>1 DEF Step, Begin, ReadBoard, TakeTable, Undump, Refuse, Preserve, Ask, Size, WriteTable,
           WriteProgram, Load, Flash
      <3> QED BY <3>2 DEF Finish, Crash
    <2> QED BY <1>0, <1>1, <2>1, <2>2 DEF WipedInv
  <1> QED BY <1>2, <1>3

BoardInv ==
    /\ TypeInv /\ OwnInv /\ PlanInv /\ KnownInv
    /\ SoundInv /\ TableMatchesProgram /\ WipedInv

\* Boards are shipped so.
LEMMA BoardInit == Init => BoardInv
  <1> SUFFICES ASSUME Init PROVE BoardInv
    OBVIOUS
  <1>1. TypeInv BY InitType
  <1>2. /\ \A c \in Call : pc[c] = "idle" /\ prog[c] = "rawprogram0.xml" /\ ~confirmed[c]
        /\ history.wiped = {}
    BY DEF Init
  <1>3. OwnInv BY <1>2 DEF OwnInv, Running
  <1>4. PlanInv BY <1>2 DEF PlanInv, Plan
  <1>5. KnownInv BY <1>2 DEF KnownInv, Known, Chosen
  <1>6. WipedInv BY <1>2 DEF WipedInv
  <1>7. ASSUME NEW b \in Board
        PROVE  Sound(device[b]) /\ device[b].root = Find(device[b].table, "rootfs")
    <2>0. \E e \in Board : \E t \in OnBoard[e] : device[b] = Shipped(t) BY DEF Init
    <2>1. PICK e \in Board : \E t \in OnBoard[e] : device[b] = Shipped(t) BY <2>0
    <2>5. PICK t \in OnBoard[e] : device[b] = Shipped(t) BY <2>1
    <2>2. device[b] = [table |-> t, root |-> Find(t, "rootfs"),
                       data |-> Find(t, "userdata").first, whole |-> TRUE]
      BY <2>5 DEF Shipped
    <2>3. /\ device[b].table = t /\ device[b].root = Find(t, "rootfs")
          /\ device[b].data = Find(t, "userdata").first
      BY <2>2
    <2>4. /\ Find(t, "rootfs").last < Find(t, "userdata").first
          /\ Preservable(Parsed(t)) => Aligned(t)
      BY <2>5, TablesType DEF Preservable
    <2> QED BY <2>3, <2>4 DEF Sound
  <1> QED BY <1>1, <1>3, <1>4, <1>5, <1>6, <1>7 DEF BoardInv, SoundInv, TableMatchesProgram

\* A step keeps it, in directories that are not shared.
LEMMA BoardStep ==
  ASSUME ~SharedDirs, BoardInv, [Next]_vars
  PROVE  BoardInv'
  <1>1. CASE UNCHANGED vars
    <2>1. TypeInv' BY <1>1, TypeStep DEF BoardInv
    <2>2. UNCHANGED <<pc, req, table, prog, size, confirmed, err, loaded, dump, gptFile, progFile,
                      device, history>>
      BY <1>1 DEF vars, callVars, fileVars
    <2>3. OwnInv' BY <2>2 DEF BoardInv, OwnInv, Running
    <2>4. PlanInv' BY <2>2 DEF BoardInv, PlanInv, Plan, Program, Ours, TableIs, ProgramIs
    <2>5. KnownInv'
      BY <2>2 DEF BoardInv, KnownInv, Known, Keeping, OnTable, OnImage, Resizing, Ours
    <2>6. SoundInv' /\ TableMatchesProgram' BY <2>2 DEF BoardInv, SoundInv, TableMatchesProgram
    <2>7. WipedInv' BY <2>2 DEF BoardInv, WipedInv
    <2> QED BY <2>1, <2>3, <2>4, <2>5, <2>6, <2>7 DEF BoardInv
  <1>2. CASE Next
    <2> USE DEF BoardInv
    <2>1. PICK o \in Call : Step(o) BY <1>2, NextIsStep
    <2>2. Plan(o) /\ Known(o) BY DEF PlanInv, KnownInv
    <2>3. req[o].board \in Board BY RequestType DEF TypeInv, TypeOK
    <2>4. Sound(device[req[o].board]) BY <2>3 DEF SoundInv
    <2>5. TypeInv' BY TypeStep
    <2>6. OwnInv' BY <2>1, OwnStep
    <2>7. PlanInv'
      <3>1. Plan(o)' BY <2>1, <2>2, PlanStep
      <3>2. \A c \in Call : c # o => Plan(c)' BY <2>1, <2>6, PlanElsewhere DEF PlanInv
      <3> QED BY <3>1, <3>2 DEF PlanInv
    <2>8. KnownInv'
      <3>1. Known(o)' BY <2>1, <2>2, <2>4, KnownStep
      <3>2. \A c \in Call : c # o => Known(c)' BY <2>1, <2>6, KnownElsewhere DEF KnownInv
      <3> QED BY <3>1, <3>2 DEF KnownInv
    <2>9. ASSUME NEW b \in Board
          PROVE  /\ Sound(device'[b])
                 /\ device'[b].whole => device'[b].root = Find(device'[b].table, "rootfs")
      <3>1. CASE device'[b] = device[b] BY <3>1 DEF SoundInv, TableMatchesProgram
      <3>2. CASE device'[b] = Flashed(o) /\ pc[o] = "flash"
        BY <2>2, <2>4, <3>2, FlashedSound, PlanFlashed
      <3>3. CASE device'[b] \in HalfFlashed(o) /\ pc[o] = "flash"
        BY <2>2, <2>4, <3>3, FlashedSound, FlashedType
      <3>4. Flash(o) => pc[o] = "flash" BY DEF Flash
      <3> QED BY <2>1, <3>1, <3>2, <3>3, <3>4, DeviceFrame
    <2>10. SoundInv' /\ TableMatchesProgram' BY <2>9 DEF SoundInv, TableMatchesProgram
    <2>11. WipedInv' BY <2>1, <2>2, WipedStep
    <2> QED BY <2>5, <2>6, <2>7, <2>8, <2>10, <2>11
  <1> QED BY <1>1, <1>2

\* Flashes from directories of their own keep it.
LEMMA BoardHolds == ASSUME ~SharedDirs PROVE Spec => []BoardInv
  <1>1. Init => BoardInv BY BoardInit
  <1>2. BoardInv /\ [Next]_vars => BoardInv' BY BoardStep
  <1> QED BY <1>1, <1>2, PTL DEF Spec

-----------------------------------------------------------------------------
(* The size of the root.                                                   *)

\* The tables of boards that are sized end with the disk, and no root that can be kept
\* is under the floor.
Large(b, t) ==
    /\ t.lastLBA = Disk[b]
    /\ Preservable(Parsed(t)) => SizeInBytes(Find(t, "rootfs")) >= MinRootSize
LargeInv == \A b \in Sizable : Large(b, device[b].table)

Whole(s) == s = 0 \/ (s >= MinRootSize /\ (s \div Sector) * Sector = s)

\* The size a call has chosen is the one it was asked for.
Meant(c) ==
    /\ Whole(size[c])
    /\ req[c].rootSize > 0 =>
         /\ size[c] = req[c].rootSize /\ Fits(req[c], table[c])
         /\ req[c].board \in Sizable /\ table[c].lastLBA = Disk[req[c].board]
    /\ ~req[c].preserve /\ req[c].rootSize = 0 => size[c] = DefaultOf(c)
    /\ Keeping(c) => /\ size[c] = IF OnTable(c) = OnImage(c) THEN 0 ELSE OnTable(c)
                     /\ OnTable(c) >= MinRootSize

\* A table has the root that was chosen, and beyond a resized one the user partition.
Written(c, t) ==
    /\ SizeInBytes(Find(t, "rootfs")) = IF size[c] = 0 THEN OnImage(c) ELSE size[c]
    /\ size[c] > 0 => Find(t, "userdata").first =
                        Find(Image[req[c].dir].table, "rootfs").first + size[c] \div Sector

Sized(c) ==
    /\ pc[c] \in {"idle", "read", "table", "undump", "decide"} => size[c] = 0
    /\ pc[c] \in {"read", "table", "undump", "decide"} => req[c].board \in Sizable
    /\ pc[c] = "decide" => table[c] = Parsed(OnDevice(c))
    /\ pc[c] \in Chosen => Meant(c) /\ (Resizing(c) <=> size[c] > 0)
    /\ Succeeded(c) => Meant(c) /\ Written(c, OnDevice(c))
SizedInv == \A c \in Call : Sized(c)

\* The floor is above a sector, and below it there is nothing.
LEMMA FloorType ==
  /\ MinRootSize \in Nat /\ MinRootSize >= Sector /\ MinRootSize > 0 /\ Sector \in Nat \ {0}
  /\ MinUserPartitionSize \in Nat /\ SystemReservedBytes \in Nat
  BY WordType DEF MinRootSize, MinUserPartitionSize, SystemReservedBytes

\* What is flashed has the root that was chosen.
LEMMA FlashedSize ==
  ASSUME TypeInv, NEW c \in Call, Plan(c), Sized(c), pc[c] = "flash"
  PROVE  /\ Written(c, Flashed(c).table)
         /\ Flashed(c).table.lastLBA = Disk[req[c].board]
         /\ SizeInBytes(Find(Flashed(c).table, "rootfs")) >= MinRootSize
  <1> DEFINE d     == req[c].dir
             i     == Image[d].table
             s     == size[c]
             new   == Flashed(c).table
             first == Find(i, "rootfs").first
             disk  == Disk[req[c].board]
  <1>0. d \in Dir /\ req[c].board \in Board /\ s \in LBA /\ s \in Nat
    BY RequestType, LBAType DEF TypeInv, TypeOK, LBA
  <1>1. disk \in LBA BY <1>0, BoardsType DEF LBA
  <1>2. Whole(s) /\ (loaded[c] \notin Ours(c) <=> s > 0)
    BY DEF Sized, Chosen, Meant, Resizing
  <1>3. /\ i \in PartitionTables /\ Named(i, "userdata") # {}
        /\ SizeInBytes(Find(i, "rootfs")) >= MinRootSize
    BY <1>0, ImagesType, SizesType DEF Named
  <1>4. ASSUME NEW t, TableFile(d, loaded[c].gpt) = {t}
        PROVE  new = Grown(t, disk)
    BY <1>4 DEF Flashed
  <1>5. ASSUME NEW t \in PartitionTables PROVE Grown(t, disk).lastLBA = disk
    <2> DEFINE u == Put(t, "userdata", Find(t, "userdata").first, disk)
    <2>1. Find(t, "userdata").first \in LBA BY PartitionsType
    <2>2. u \in PartitionTables BY <1>1, <2>1, Names, PutType
    <2>3. Grown(t, disk) = [u EXCEPT !.lastLBA = disk] BY DEF Grown
    <2> HIDE DEF u
    <2> QED BY <2>2, <2>3 DEF PartitionTables
  <1>6. CASE s = 0
    <2>1. loaded[c] \in Ours(c) BY <1>2, <1>6
    <2>2. loaded[c].gpt = "gpt_main0.bin" BY <1>0, <2>1, ImagesType DEF Ours
    <2>3. TableFile(d, loaded[c].gpt) = {i} BY <2>2 DEF TableFile
    <2>4. new = Grown(i, disk) BY <1>4, <2>3
    <2>5. Find(new, "rootfs") = Find(i, "rootfs") BY <1>1, <1>3, <2>4, GrownAligned
    <2>6. new.lastLBA = disk BY <1>3, <1>5, <2>4
    <2> HIDE DEF new, i
    <2> QED BY <1>3, <1>6, <2>5, <2>6 DEF Written, OnImage, new, i
  <1>7. CASE s > 0
    <2> DEFINE u == Resized(i, s)
    <2>1. TableIs(c) /\ \E q \in Ours(c) : loaded[c] = Moved(q, s)
      BY <1>2, <1>7 DEF Plan
    <2>2. PICK q \in Ours(c) : loaded[c] = Moved(q, s) BY <2>1
    <2>3. q \in Programs BY <1>0, ImagesType DEF Ours
    <2>4. loaded[c].gpt = "gpt_main0_resized.bin" BY <1>0, <2>2, <2>3, MovedType
    <2>5. TableFile(d, loaded[c].gpt) = {u} BY <2>1, <2>4 DEF TableFile, TableIs
    <2>6. new = Grown(u, disk) BY <1>4, <2>5
    <2>7. s >= MinRootSize /\ (s \div Sector) * Sector = s BY <1>2, <1>7 DEF Whole
    <2>8. s >= Sector BY <1>0, <2>7, FloorType
    <2>9. /\ u \in PartitionTables /\ Aligned(u) /\ Named(u, "userdata") # {}
          /\ Find(u, "userdata").first = first + s \div Sector
      BY <1>0, <2>8, ResizedAligned
    <2>10. Find(u, "rootfs").first = first BY <1>0, <1>3, ImagesType, ResizedRoot DEF Named
    <2> HIDE DEF u, i, new, first
    <2>11. /\ Find(new, "rootfs") = Find(u, "rootfs")
           /\ Find(new, "userdata").first = first + s \div Sector
      BY <1>1, <2>6, <2>9, GrownAligned
    <2>12. SizeInBytes(Find(u, "rootfs")) = s
      <3> DEFINE root == Find(u, "rootfs")
                 n    == root.last - root.first + 1
      <3>1. n \in Nat \ {0} /\ SizeInBytes(root) = n * Sector BY <2>9, AlignedSize
      <3>2. root.first \in Nat /\ root.last \in Nat BY <2>9, PartitionsType
      <3>3. first + s \div Sector = root.last + 1 BY <2>9 DEF Aligned
      <3>4. s \div Sector \in Nat BY <1>0, FloorType, DivisionFacts
      <3>5. n = s \div Sector BY <2>10, <3>2, <3>3, <3>4
      <3> QED BY <2>7, <3>1, <3>5
    <2>13. new.lastLBA = disk BY <1>5, <2>6, <2>9
    <2> QED BY <1>7, <2>7, <2>11, <2>12, <2>13 DEF Written, new, i, first
  <1> QED BY <1>0, <1>6, <1>7

\* The calls beside it leave what a call knows of its sizes alone.
LEMMA SizedElsewhere ==
  ASSUME TypeInv, OwnInv, NEW o \in Call, Step(o), NEW c \in Call, c # o, Sized(c)
  PROVE  Sized(c)'
  <1>1. /\ pc'[c] = pc[c] /\ req'[c] = req[c] /\ prog'[c] = prog[c] /\ size'[c] = size[c]
        /\ confirmed'[c] = confirmed[c] /\ loaded'[c] = loaded[c]
        /\ table'[c] = table[c] /\ err'[c] = err[c]
    BY Frame, DeviceFrame
  <1>2. /\ Keeping(c)' = Keeping(c) /\ OnTable(c)' = OnTable(c) /\ OnImage(c)' = OnImage(c)
        /\ Ours(c)' = Ours(c) /\ DefaultOf(c)' = DefaultOf(c) /\ Succeeded(c)' = Succeeded(c)
    BY <1>1 DEF Keeping, OnTable, OnImage, Ours, DefaultOf, Succeeded
  <1>3. Resizing(c)' <=> Resizing(c) BY <1>1, <1>2 DEF Resizing
  <1>4. Meant(c)' <=> Meant(c) BY <1>1, <1>2 DEF Meant
  <1>5. Running(c) => OnDevice(c)' = OnDevice(c)
    <2>1. req[c].board \in Board BY RequestType DEF TypeInv, TypeOK
    <2>2. pc[o] = "flash" => Running(o) BY DEF Running
    <2>3. Running(c) => device'[req[c].board] = device[req[c].board]
      BY <2>1, <2>2, DeviceFrame DEF OwnInv
    <2> QED BY <1>1, <2>3 DEF OnDevice
  <1>6. Running(c) => (Written(c, OnDevice(c))' <=> Written(c, OnDevice(c)))
    BY <1>1, <1>2, <1>5 DEF Written
  <1>7. pc[c] = "decide" \/ Succeeded(c) => Running(c) BY DEF Running, Succeeded
  <1> QED BY <1>1, <1>2, <1>3, <1>4, <1>5, <1>6, <1>7 DEF Sized

\* What is asked for are whole sectors.
LEMMA WholeSizes ==
  /\ \A r \in Request : Whole(r.rootSize)
  /\ \A n : Whole(DefaultRootSize(n))
  <1>1. Whole(0) BY DEF Whole
  <1>2. ASSUME NEW r \in Request PROVE Whole(r.rootSize)
    <2>1. r.rootSize \in RootSizes \cup {0} BY DEF Request
    <2> QED BY <1>1, <2>1, SizesType DEF Whole
  <1>3. ASSUME NEW n PROVE Whole(DefaultRootSize(n))
    <2> DEFINE holding == {v \in Variants : v.capacity >= n}
    <2>1. CASE holding = {} BY <1>1, <2>1 DEF DefaultRootSize
    <2>2. CASE holding # {}
      <3> DEFINE S == {v.capacity : v \in holding}
      <3>1. S \subseteq Nat /\ S # {} BY <2>2, VariantsType
      <3>2. PICK k \in S : \A j \in S : k <= j BY <3>1, SmallestExists
      <3>3. \E v \in holding : \A w \in holding : v.capacity <= w.capacity BY <3>2
      <3>4. PICK v \in holding : DefaultRootSize(n) = v.default BY <2>2, <3>3 DEF DefaultRootSize
      <3> QED BY <3>4, SizesType DEF Whole
    <2> QED BY <2>1, <2>2
  <1> QED BY <1>2, <1>3

\* A call chooses the size it was asked for, and makes its root of that size.
LEMMA SizedStep ==
  ASSUME TypeInv, NEW c \in Call, Step(c), Plan(c), Known(c), Sized(c),
         Sound(device[req[c].board]), LargeInv
  PROVE  Sized(c)'
  <1> USE DEF TypeInv, TypeOK, callVars, fileVars, Goto, Fail, Chosen
  <1>0. req[c].dir \in Dir /\ req[c].board \in Board BY RequestType
  <1>1. CASE Begin(c)
    <2>1. PICK r \in Request :
            /\ req' = [req EXCEPT ![c] = r]
            /\ \/ pc'[c] = "read" /\ r.board \in Sizable
               \/ pc'[c] = "return" /\ err'[c]
               \/ pc'[c] = "program" /\ ~r.preserve /\ r.rootSize = 0 /\ r.board \notin Sizable
      BY <1>1 DEF Begin
    <2>2. req'[c] = r /\ prog'[c] = "rawprogram0.xml" /\ size'[c] = 0
      BY <1>1, <2>1 DEF Begin, Plan, Sized
    <2>3. ASSUME pc'[c] = "program" PROVE Meant(c)' /\ ~Resizing(c)'
      <3>1. ~Keeping(c)' /\ DefaultOf(c)' = 0 BY <2>1, <2>2, <2>3 DEF Keeping, DefaultOf
      <3>2. ~Resizing(c)' BY <2>2, <2>3 DEF Resizing, ResizedProgram
      <3>3. ~(0 > 0) OBVIOUS
      <3> QED BY <2>1, <2>2, <2>3, <3>1, <3>2, <3>3 DEF Meant, Whole
    <2> QED BY <2>1, <2>2, <2>3 DEF Sized, Succeeded
  <1>2. CASE ReadBoard(c) \/ TakeTable(c)
    <2>1. /\ pc[c] \in {"read", "table"} /\ UNCHANGED <<req, size, device>>
          /\ pc'[c] \in {"table", "undump"} \/ (pc'[c] = "return" /\ err'[c])
      BY <1>2 DEF ReadBoard, TakeTable
    <2> QED BY <2>1 DEF Sized, Succeeded
  <1>3. CASE Undump(c)
    <2>1. /\ pc[c] = "undump" /\ UNCHANGED <<req, size, device, table, err>>
          /\ pc'[c] = IF err[c] THEN "return" ELSE "decide"
      BY <1>3 DEF Undump
    <2>2. ~err[c] => table[c] = Parsed(OnDevice(c)) BY <2>1 DEF Known, OnDevice
    <2>3. OnDevice(c)' = OnDevice(c) BY <2>1 DEF OnDevice
    <2> QED BY <2>1, <2>2, <2>3 DEF Sized, Succeeded
  <1>4. CASE Refuse(c)
    <2>1. pc'[c] = "return" /\ err'[c] BY <1>4 DEF Refuse
    <2> QED BY <2>1 DEF Sized, Succeeded
  <1>5. CASE Preserve(c)
    <2> DEFINE t == OnDevice(c)
               s == IF OnTable(c) = OnImage(c) THEN 0 ELSE OnTable(c)
               root == Find(t, "rootfs")
               n    == root.last - root.first + 1
    <2>1. /\ pc[c] = "decide" /\ req[c].preserve
          /\ table[c] = Parsed(t) /\ Preservable(table[c])
          /\ UNCHANGED <<req, device, table, confirmed>>
          /\ prog'[c] # ResizedProgram /\ size'[c] = s
          /\ \/ pc'[c] = "return" /\ err'[c]
             \/ pc'[c] = After(s)
      BY <1>5 DEF Preserve, Sized, Keepable, Decided, OnTable, OnImage, ResizedProgram
    <2>2. req[c].board \in Sizable /\ req[c].rootSize = 0
      <3>1. req[c] \in Request BY DEF TypeOK
      <3>2. req[c].rootSize > 0 => ~req[c].preserve BY <3>1 DEF Request
      <3> QED BY <2>1, <3>1, <3>2, RequestType, LBAType DEF Sized
    <2>3. t \in PartitionTables /\ Aligned(t) BY <1>0, <2>1 DEF Devices, Sound, OnDevice
    <2>4. n \in Nat \ {0} /\ SizeInBytes(root) = n * Sector BY <2>3, AlignedSize
    <2>5. OnTable(c) = SizeInBytes(root) BY <2>1 DEF OnTable, Parsed
    <2>6. SizeInBytes(root) >= MinRootSize BY <2>1, <2>2 DEF LargeInv, Large, OnDevice
    <2>7. (OnTable(c) \div Sector) * Sector = OnTable(c)
      BY <2>4, <2>5, FloorType, DivisionFacts
    <2>8. OnTable(c) \in Nat /\ OnTable(c) > 0 /\ Whole(s)
      <3> HIDE DEF n
      <3>1. n * Sector \in Nat BY <2>4, FloorType
      <3>2. OnTable(c) \in Nat /\ OnTable(c) >= MinRootSize BY <2>4, <2>5, <2>6, <3>1
      <3>3. OnTable(c) > 0 BY <3>2, FloorType
      <3> QED BY <2>7, <3>2, <3>3 DEF Whole
    <2>9. OnTable(c)' = OnTable(c) /\ OnImage(c)' = OnImage(c) /\ Keeping(c)' = Keeping(c)
      BY <2>1 DEF OnTable, OnImage, Keeping
    <2>10. Meant(c)'
      <3>1. Whole(size[c])' BY <2>1, <2>8
      <3>2. req'[c].preserve /\ ~(req'[c].rootSize > 0) BY <2>1, <2>2
      <3>3. size'[c] = (IF OnTable(c)' = OnImage(c)' THEN 0 ELSE OnTable(c)') BY <2>1, <2>9
      <3>4. OnTable(c)' >= MinRootSize BY <2>5, <2>6, <2>9
      <3> QED BY <3>1, <3>2, <3>3, <3>4 DEF Meant
    <2> HIDE DEF s, t
    <2>11. s \in Nat /\ (pc'[c] # "return" => (Resizing(c)' <=> s > 0) /\ pc'[c] \in {"resize", "program"})
      BY <2>1, <2>8 DEF Resizing, After, s
    <2>12. CASE pc'[c] = "return" /\ err'[c] BY <2>12 DEF Sized, Succeeded
    <2>13. CASE pc'[c] = After(s)
      <3>1. pc'[c] \in {"resize", "program"} BY <2>13 DEF After
      <3> QED BY <2>1, <2>10, <2>11, <3>1 DEF Sized, Succeeded
    <2> QED BY <2>1, <2>12, <2>13
  <1>6. CASE Ask(c)
    <2>1. /\ pc[c] = "decide" /\ UNCHANGED <<req, device, table, size>> /\ size[c] = 0
          /\ prog'[c] # ResizedProgram /\ req[c].preserve
          /\ \/ pc'[c] = "return" /\ err'[c]
             \/ pc'[c] = "program" /\ confirmed'[c]
      BY <1>6 DEF Ask, Agreed, Sized, Plan, ResizedProgram
    <2>2. req[c].rootSize = 0
      <3>1. req[c] \in Request BY DEF TypeOK
      <3>2. req[c].rootSize > 0 => ~req[c].preserve BY <3>1 DEF Request
      <3> QED BY <2>1, <3>1, <3>2, RequestType, LBAType
    <2>3. pc'[c] = "program" => ~Keeping(c)' /\ ~Resizing(c)'
      BY <2>1 DEF Keeping, Resizing
    <2>4. ~(0 > 0) OBVIOUS
    <2>5. pc'[c] = "program" => Meant(c)'
      BY <2>1, <2>2, <2>3, <2>4 DEF Meant, Whole
    <2> QED BY <2>1, <2>3, <2>4, <2>5 DEF Sized, Succeeded
  <1>7. CASE Size(c)
    <2> DEFINE s == IF req[c].rootSize > 0 THEN req[c].rootSize ELSE DefaultRootSize(BoardSize(table[c]))
    <2>1. /\ pc[c] = "decide" /\ ~req[c].preserve /\ size'[c] = s
          /\ req[c].rootSize > 0 => Fits(req[c], table[c])
          /\ UNCHANGED <<req, prog, table, confirmed, device>>
          /\ \/ pc'[c] = "return" /\ err'[c]
             \/ pc'[c] = After(s)
      BY <1>7 DEF Size, Decided
    <2>2. prog'[c] # ResizedProgram BY <2>1 DEF Plan, ResizedProgram
    <2>3. req[c].board \in Sizable /\ table[c].lastLBA = Disk[req[c].board]
      BY <2>1 DEF Sized, LargeInv, Large, OnDevice, Parsed
    <2>4. Whole(s) BY WholeSizes
    <2>5. ~Keeping(c)' /\ DefaultOf(c)' = DefaultRootSize(BoardSize(table[c]))
      BY <2>1, <2>3 DEF Keeping, DefaultOf
    <2>6. Meant(c)'
      <3>1. req[c].rootSize > 0 => s = req[c].rootSize OBVIOUS
      <3>2. req[c].rootSize = 0 => s = DefaultRootSize(BoardSize(table[c])) OBVIOUS
      <3> HIDE DEF s
      <3> QED BY <2>1, <2>3, <2>4, <2>5, <3>1, <3>2 DEF Meant
    <2> HIDE DEF s
    <2>7. pc'[c] # "return" => (Resizing(c)' <=> s > 0) /\ pc'[c] \in {"resize", "program"}
      BY <2>1, <2>2 DEF Resizing, After
    <2>8. CASE pc'[c] = "return" /\ err'[c] BY <2>8 DEF Sized, Succeeded
    <2>9. CASE pc'[c] = After(s)
      <3>1. pc'[c] \in {"resize", "program"} BY <2>9 DEF After
      <3> QED BY <2>1, <2>6, <2>7, <3>1 DEF Sized, Succeeded
    <2> QED BY <2>1, <2>8, <2>9
  <1>8. CASE WriteTable(c) \/ WriteProgram(c)
    <2>1. /\ pc[c] \in {"resize", "move"} /\ UNCHANGED <<req, device, table, size, confirmed>>
          /\ \/ pc'[c] = "return" /\ err'[c]
             \/ pc'[c] = "move"
             \/ pc'[c] = "program" /\ prog'[c] = ResizedProgram
      BY <1>8 DEF WriteTable, WriteProgram, ResizedProgram
    <2>2. Resizing(c) /\ (pc'[c] # "return" => Resizing(c)') BY <2>1 DEF Resizing
    <2>3. /\ OnTable(c)' = OnTable(c) /\ OnImage(c)' = OnImage(c) /\ Keeping(c)' = Keeping(c)
          /\ DefaultOf(c)' = DefaultOf(c)
      BY <2>1 DEF OnTable, OnImage, Keeping, DefaultOf
    <2>4. Meant(c)' BY <2>1, <2>3 DEF Meant, Sized
    <2> QED BY <2>1, <2>2, <2>4 DEF Sized, Succeeded
  <1>9. CASE Load(c)
    <2>1. /\ pc[c] = "program" /\ UNCHANGED <<req, device, table, size, confirmed, prog>>
          /\ \/ pc'[c] = "return" /\ err'[c]
             \/ pc'[c] = "flash" /\ loaded'[c] \in Program(req[c].dir, prog[c])
      BY <1>9 DEF Load
    <2>2. /\ OnTable(c)' = OnTable(c) /\ OnImage(c)' = OnImage(c) /\ Keeping(c)' = Keeping(c)
          /\ DefaultOf(c)' = DefaultOf(c) /\ Ours(c)' = Ours(c)
      BY <2>1 DEF OnTable, OnImage, Keeping, DefaultOf, Ours
    <2>3. ASSUME pc'[c] = "flash" PROVE Resizing(c)' <=> Resizing(c)
      BY <2>1, <2>3, LoadedResizing
    <2>4. Meant(c)' BY <2>1, <2>2 DEF Meant, Sized
    <2> QED BY <2>1, <2>3, <2>4 DEF Sized, Succeeded
  <1>10. CASE Flash(c)
    <2>1. /\ pc[c] = "flash" /\ UNCHANGED <<req, table, size, confirmed>>
          /\ \/ pc'[c] = "return" /\ err'[c]
             \/ pc'[c] = "return" /\ device' = [device EXCEPT ![req[c].board] = Flashed(c)]
      BY <1>10 DEF Flash
    <2>2. /\ OnTable(c)' = OnTable(c) /\ OnImage(c)' = OnImage(c) /\ Keeping(c)' = Keeping(c)
          /\ DefaultOf(c)' = DefaultOf(c)
      BY <2>1 DEF OnTable, OnImage, Keeping, DefaultOf
    <2>3. Meant(c)' BY <2>1, <2>2 DEF Meant, Sized
    <2>4. ASSUME device' = [device EXCEPT ![req[c].board] = Flashed(c)]
          PROVE  Written(c, OnDevice(c))'
      <3>1. OnDevice(c)' = Flashed(c).table BY <1>0, <2>1, <2>4 DEF OnDevice
      <3>2. Written(c, Flashed(c).table) BY <2>1, FlashedSize
      <3> QED BY <2>1, <2>2, <3>1, <3>2 DEF Written
    <2> QED BY <2>1, <2>3, <2>4 DEF Sized, Succeeded
  <1>11. CASE Finish(c) \/ Crash(c)
    <2>1. pc'[c] \in {"done", "dead"} BY <1>11 DEF Finish, Crash
    <2> QED BY <2>1 DEF Sized, Succeeded
  <1> QED BY <1>1, <1>2, <1>3, <1>4, <1>5, <1>6, <1>7, <1>8, <1>9, <1>10, <1>11 DEF Step

SizeInv == SizedInv /\ LargeInv

\* At first no size is chosen.
LEMMA SizeInit == Init => SizeInv
  <1> SUFFICES ASSUME Init PROVE SizeInv
    OBVIOUS
  <1>1. \A c \in Call : pc[c] = "idle" /\ size[c] = 0 BY DEF Init
  <1>2. SizedInv BY <1>1 DEF SizedInv, Sized, Chosen, Succeeded
  <1>3. ASSUME NEW b \in Sizable PROVE Large(b, device[b].table)
    <2>1. b \in Board BY BoardsType
    <2>2. device[b].table \in OnBoard[b] BY <2>1 DEF Init
    <2> QED BY <2>2, SizesType DEF Large, Preservable
  <1> QED BY <1>2, <1>3 DEF SizeInv, LargeInv

\* A step keeps the sizes.
LEMMA SizeStep ==
  ASSUME BoardInv, SizeInv, [Next]_vars
  PROVE  SizeInv'
  <1>1. CASE UNCHANGED vars
    <2>1. UNCHANGED <<pc, req, table, prog, size, confirmed, err, loaded, device>>
      BY <1>1 DEF vars, callVars
    <2>2. LargeInv' BY <2>1 DEF SizeInv, LargeInv
    <2>3. ASSUME NEW c \in Call PROVE Sized(c)'
      <3>1. /\ Keeping(c)' = Keeping(c) /\ OnTable(c)' = OnTable(c) /\ OnImage(c)' = OnImage(c)
            /\ Ours(c)' = Ours(c) /\ DefaultOf(c)' = DefaultOf(c)
            /\ Succeeded(c)' = Succeeded(c) /\ OnDevice(c)' = OnDevice(c)
        BY <2>1 DEF Keeping, OnTable, OnImage, Ours, DefaultOf, Succeeded, OnDevice
      <3>2. Resizing(c)' <=> Resizing(c) BY <2>1, <3>1 DEF Resizing
      <3>3. Meant(c)' <=> Meant(c) BY <2>1, <3>1 DEF Meant
      <3>4. Written(c, OnDevice(c))' <=> Written(c, OnDevice(c)) BY <2>1, <3>1 DEF Written
      <3>5. Sized(c) BY DEF SizeInv, SizedInv
      <3> QED BY <2>1, <3>1, <3>2, <3>3, <3>4, <3>5 DEF Sized
    <2> QED BY <2>2, <2>3 DEF SizeInv, SizedInv
  <1>2. CASE Next
    <2> USE DEF BoardInv, SizeInv
    <2>1. PICK o \in Call : Step(o) BY <1>2, NextIsStep
    <2>2. Plan(o) /\ Known(o) /\ Sized(o) BY DEF PlanInv, KnownInv, SizedInv
    <2>3. req[o].board \in Board BY RequestType DEF TypeInv, TypeOK
    <2>4. Sound(device[req[o].board]) BY <2>3 DEF SoundInv
    <2>5. SizedInv'
      <3>1. Sized(o)' BY <2>1, <2>2, <2>4, SizedStep
      <3>2. \A c \in Call : c # o => Sized(c)' BY <2>1, SizedElsewhere DEF SizedInv
      <3> QED BY <3>1, <3>2 DEF SizedInv
    <2>6. ASSUME NEW b \in Sizable PROVE Large(b, device'[b].table)
      <3>0. b \in Board /\ Large(b, device[b].table) BY BoardsType DEF LargeInv
      <3>1. CASE device'[b] = device[b] BY <3>0, <3>1
      <3>2. CASE b = req[o].board /\ pc[o] = "flash"
        <4>1. Large(b, Flashed(o).table) BY <2>2, <3>2, FlashedSize DEF Large
        <4>2. \A half \in HalfFlashed(o) : Large(b, half.table)
          <5>1. ASSUME NEW half \in HalfFlashed(o)
                PROVE  half.table \in {device[b].table, Flashed(o).table}
            BY <3>2 DEF HalfFlashed
          <5> QED BY <3>0, <4>1, <5>1
        <4> QED BY <2>1, <3>0, <4>1, <4>2, DeviceFrame
      <3> QED BY <2>1, <3>0, <3>1, <3>2, DeviceFrame
    <2> QED BY <2>5, <2>6 DEF LargeInv
  <1> QED BY <1>1, <1>2

\* Beside a root that fits there is room for a user partition: what is reserved for the
\* system covers what precedes the root.
LEMMA RoomBeside ==
  ASSUME NEW r \in Request, NEW t \in Seen, Fits(r, t), r.rootSize > 0, NEW d \in Dir,
         r.board \in Sizable, t.lastLBA = Disk[r.board],
         (r.rootSize \div Sector) * Sector = r.rootSize
  PROVE  (Disk[r.board] - (Find(Image[d].table, "rootfs").first + r.rootSize \div Sector) + 1) * Sector
            >= MinUserPartitionSize
  <1> DEFINE last  == Disk[r.board]
             first == Find(Image[d].table, "rootfs").first
             k     == r.rootSize \div Sector
             all   == (last + 1) * Sector
  <1>1. last \in Nat /\ first \in Nat /\ r.rootSize \in Nat
    BY BoardsType, ImagesType, PartitionsType, RequestType, LBAType DEF LBA
  <1>2. k \in Nat /\ k * Sector = r.rootSize BY <1>1, FloorType, DivisionFacts
  <1>3. /\ all < Word /\ all >= MinUserPartitionSize + SystemReservedBytes
        /\ first * Sector <= SystemReservedBytes
    BY SizesType
  <1>4. all \in Nat /\ last + 1 \in Nat /\ last + 1 <= all /\ last + 1 < Word
    <2>1. last + 1 \in Nat BY <1>1
    <2> DEFINE m == last + 1
    <2>2. all = m * Sector OBVIOUS
    <2> HIDE DEF m, all
    <2>3. m <= m * Sector /\ m * Sector \in Nat BY <2>1, FloorType, DivisionFacts DEF m
    <2>4. all \in Nat /\ m <= all BY <2>2, <2>3
    <2> QED BY <1>3, <2>1, <2>4, WordType DEF m
  <1>5. BoardSize(t) = all BY <1>3, <1>4, WrapSmall DEF BoardSize
  <1> DEFINE room == all - MinUserPartitionSize - SystemReservedBytes
  <1>6. Wrap(room) = room
    <2>1. room \in Nat /\ room < Word BY <1>3, <1>4, FloorType, WordType
    <2> QED BY <2>1, WrapSmall
  <1>7. k * Sector <= room BY <1>2, <1>5, <1>6 DEF Fits
  <1>8. (last - (first + k) + 1) * Sector = all - first * Sector - k * Sector
    <2> HIDE DEF last, first, k
    <2> QED BY <1>1, <1>2, FloorType
  <1>9. first * Sector \in Nat /\ k * Sector \in Nat BY <1>1, <1>2, FloorType, DivisionFacts
  <1> HIDE DEF all, last, first, k
  <1>10. all - first * Sector - k * Sector >= MinUserPartitionSize
    BY <1>3, <1>4, <1>7, <1>9, FloorType DEF room
  <1> QED BY <1>8, <1>10 DEF last, first, k

\* A size that was chosen for what was asked and written is what was asked.
LEMMA AsAsked == BoardInv /\ SizeInv => RootIsAsAsked
  <1> SUFFICES ASSUME BoardInv, SizeInv, NEW c \in Call, Succeeded(c)
               PROVE  /\ req[c].rootSize > 0 => RootSize(c) = req[c].rootSize
                      /\ req[c].preserve /\ ~confirmed[c] => RootSize(c) = SizeInBytes(table[c].root)
                      /\ ~req[c].preserve /\ req[c].rootSize = 0 =>
                           RootSize(c) = IF DefaultOf(c) > 0 THEN DefaultOf(c) ELSE OnImage(c)
                      /\ req[c].board \in Sizable => RootSize(c) >= MinRootSize
                      /\ req[c].rootSize > 0 =>
                           (Disk[req[c].board] - Find(OnDevice(c), "userdata").first + 1) * Sector
                              >= MinUserPartitionSize
    BY DEF RootIsAsAsked
  <1>1. Meant(c) /\ Written(c, OnDevice(c)) BY DEF SizeInv, SizedInv, Sized
  <1>2. RootSize(c) = IF size[c] = 0 THEN OnImage(c) ELSE size[c]
    BY <1>1 DEF Written, RootSize
  <1>3. /\ size[c] \in Nat /\ req[c] \in Request /\ req[c].dir \in Dir /\ req[c].rootSize \in Nat
        /\ table[c] \in Seen
    BY RequestType, LBAType DEF BoardInv, TypeInv, TypeOK, LBA
  <1>4. OnImage(c) >= MinRootSize BY <1>3, SizesType DEF OnImage
  <1>5. size[c] # 0 => size[c] >= MinRootSize /\ (size[c] \div Sector) * Sector = size[c]
    BY <1>1 DEF Meant, Whole
  <1>6. ASSUME req[c].rootSize > 0
        PROVE  /\ RootSize(c) = req[c].rootSize
               /\ (Disk[req[c].board] - Find(OnDevice(c), "userdata").first + 1) * Sector
                     >= MinUserPartitionSize
    <2>1. /\ size[c] = req[c].rootSize /\ Fits(req[c], table[c])
          /\ req[c].board \in Sizable /\ table[c].lastLBA = Disk[req[c].board]
      BY <1>1, <1>6 DEF Meant
    <2>2. size[c] # 0 /\ size[c] > 0 BY <1>6, <2>1
    <2>3. Find(OnDevice(c), "userdata").first =
             Find(Image[req[c].dir].table, "rootfs").first + req[c].rootSize \div Sector
      BY <1>1, <2>1, <2>2 DEF Written
    <2>4. (req[c].rootSize \div Sector) * Sector = req[c].rootSize BY <1>5, <2>1, <2>2
    <2>5. (Disk[req[c].board] - (Find(Image[req[c].dir].table, "rootfs").first
                                   + req[c].rootSize \div Sector) + 1) * Sector
            >= MinUserPartitionSize
      BY <1>3, <1>6, <2>1, <2>4, RoomBeside
    <2> QED BY <1>2, <2>1, <2>2, <2>3, <2>5
  <1>7. ASSUME req[c].preserve, ~confirmed[c]
        PROVE  RootSize(c) = SizeInBytes(table[c].root)
    <2>1. /\ size[c] = IF OnTable(c) = OnImage(c) THEN 0 ELSE OnTable(c)
          /\ OnTable(c) >= MinRootSize
      BY <1>1, <1>7 DEF Meant, Keeping
    <2>2. OnTable(c) # 0
      <3>1. ~(0 >= MinRootSize) BY FloorType
      <3> QED BY <2>1, <3>1
    <2> QED BY <1>2, <2>1, <2>2 DEF OnTable
  <1>8. ASSUME ~req[c].preserve, req[c].rootSize = 0
        PROVE  RootSize(c) = IF DefaultOf(c) > 0 THEN DefaultOf(c) ELSE OnImage(c)
    <2>1. size[c] = DefaultOf(c) BY <1>1, <1>8 DEF Meant
    <2> QED BY <1>2, <1>3, <2>1
  <1>9. RootSize(c) >= MinRootSize BY <1>2, <1>4, <1>5
  <1> QED BY <1>6, <1>7, <1>8, <1>9

-----------------------------------------------------------------------------
(* The theorems.                                                           *)

\* Every variable has its type, a size to write comes with a table to write it into, and
\* a call removes only what it wrote.
THEOREM TypeCorrect == Spec => []TypeOK
  <1>1. TypeInv => TypeOK BY DEF TypeInv
  <1> QED BY <1>1, TypeHolds, PTL

\* No call leaves a file in a directory where no write failed and no call was killed,
\* even if others work there.
THEOREM DirectoryTidy == Spec => []DirectoryIsTidy
  <1>1. Init => TidyInv BY DEF Init, TidyInv
  <1>2. TypeInv /\ TidyInv /\ [Next]_vars => TidyInv'
    <2> SUFFICES ASSUME TypeInv, TidyInv, [Next]_vars PROVE TidyInv'
      OBVIOUS
    <2>1. CASE UNCHANGED vars
      BY <2>1 DEF vars, callVars, fileVars, TidyInv, Removes, Running
    <2>2. CASE Next BY <2>2, NextIsStep, TidyStep
    <2> QED BY <2>1, <2>2
  <1>3. TidyInv => DirectoryIsTidy
    BY DEF TidyInv, DirectoryIsTidy, Removes, Running
  <1> QED BY <1>1, <1>2, <1>3, TypeHolds, PTL DEF Spec

\* A call that was asked to preserve the user partition writes over it only if the user
\* said so, in directories that are not shared.
THEOREM AskedKept == ASSUME ~SharedDirs PROVE Spec => []AskedToKeep
  <1>1. BoardInv => AskedToKeep BY DEF BoardInv, WipedInv, AskedToKeep
  <1> QED BY <1>1, BoardHolds, PTL

\* The table on a board that was flashed to the end describes the root that was written,
\* to the sector, in directories that are not shared.
THEOREM TableMatches == ASSUME ~SharedDirs PROVE Spec => []TableMatchesProgram
  <1>1. BoardInv => TableMatchesProgram BY DEF BoardInv
  <1> QED BY <1>1, BoardHolds, PTL

\* The user's data, those kept and those a flash wrote, are where the table of the board
\* says the user partition is, and beyond the root, in directories that are not shared.
THEOREM DataReachable == ASSUME ~SharedDirs PROVE Spec => []DataIsReachable
  <1>1. BoardInv => DataIsReachable
    BY DEF BoardInv, SoundInv, Sound, DataIsReachable
  <1> QED BY <1>1, BoardHolds, PTL

\* A flash that succeeds leaves the root the user asked for, or that the board had, or that
\* the variant or the image has, none under the floor, and room for the user beside it,
\* in directories that are not shared.
THEOREM RootAsAsked == ASSUME ~SharedDirs PROVE Spec => []RootIsAsAsked
  <1>1. Init => SizeInv BY SizeInit
  <1>2. BoardInv /\ SizeInv /\ [Next]_vars => SizeInv' BY SizeStep
  <1> QED BY <1>1, <1>2, AsAsked, BoardHolds, PTL DEF Spec
=============================================================================
