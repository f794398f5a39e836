--------------------------- MODULE PartitionTable ---------------------------
(***************************************************************************)
(* The partition arithmetic of a flash (internal/updater/parsegpt.go and   *)
(* the sizes of flasher.go), in unsigned words as the code computes it.    *)
(***************************************************************************)
EXTENDS Integers, Sequences, FiniteSets

CONSTANTS
    Word,        \* 2^64: what unsigned arithmetic wraps at
    Sector,      \* the bytes of a sector: 512
    GiB,         \* the bytes of a GiB
    Label        \* the names partitions have

ASSUME LabelType == {"rootfs", "userdata"} \subseteq Label
ASSUME WordType == Word \in Nat \ {0} /\ Sector \in 1..(Word - 1) /\ GiB \in Sector..(Word - 1)

Wrap(n) == n % Word

MinRootSize          == 9 * GiB
MinUserPartitionSize == 2 * GiB
SystemReservedBytes  == GiB

-----------------------------------------------------------------------------
(* A table: its last usable sector, the entries it says it has room for,   *)
(* and the entries; the first unused one ends them.                        *)

Unused == "unused"
Absent == [first |-> 0, last |-> 0]   \* what Go leaves in a partition not found

Entries         == [name : Label, first : 0..(Word - 1), last : 0..(Word - 1)]
PartitionTables == [lastLBA : 0..(Word - 1), num : Nat, entries : Seq(Entries)]

UsedEntries(t) ==
    {i \in DOMAIN t.entries : \A j \in 1..i : t.entries[j].name # Unused}

\* The last entry of that name, as the loop leaves it.
Find(t, name) ==
    LET named == {i \in UsedEntries(t) : t.entries[i].name = name}
    IN  IF named = {} THEN Absent
        ELSE LET i == CHOOSE i \in named : \A j \in named : j <= i
             IN  [first |-> t.entries[i].first, last |-> t.entries[i].last]

\* ParseGptTable.
Parsed(t) == [lastLBA |-> t.lastLBA,
              num     |-> t.num,
              count   |-> Cardinality(UsedEntries(t)),
              root    |-> Find(t, "rootfs"),
              user    |-> Find(t, "userdata")]

SizeInBytes(p) == Wrap(Wrap(p.last - p.first + 1) * Sector)
BoardSize(t)   == Wrap(Wrap(t.lastLBA + 1) * Sector)

\* The table with the partition of that name at another place.
Put(t, name, first, last) ==
    [t EXCEPT !.entries =
        [i \in DOMAIN t.entries |->
            IF t.entries[i].name = name THEN [name |-> name, first |-> first, last |-> last]
                                        ELSE t.entries[i]]]

\* ResizeRoot: the user partition begins after the root and is left empty, for
\* qdl to grow.
\* (Mutant: the last sector of the root is one too many.)
RootEnd(first, size) == Wrap(first + size \div Sector)
RootLast(first, size) == Wrap(first + size \div Sector - 1)

Resized(t, size) ==
    LET first == Find(t, "rootfs").first
        last  == RootLast(first, size)
    IN  Put(Put(t, "rootfs", first, last), "userdata", Wrap(last + 1), last)

\* A raw program says where the root goes, how many sectors it has, where the
\* user data goes if it is written at all, and which file holds the table.

\* MoveUserdata.
Moved(p, size) ==
    [p EXCEPT !.rootSectors = size \div Sector,
              !.userStart   = Wrap(p.rootStart + size \div Sector),
              !.gpt         = "gpt_main0_resized.bin"]
=============================================================================
