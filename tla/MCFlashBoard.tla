---------------------------- MODULE MCFlashBoard ----------------------------
(***************************************************************************)
(* Boards and images for TLC, in units in which a sector has 2 bytes and a *)
(* GiB has 8, so that a variant of 16 GB has 119 and one of 32 GB has 238. *)
(***************************************************************************)
EXTENDS FlashBoard, TLC

Symmetry == Permutations(Call)

Partition(n, f, l) == [name |-> n, first |-> f, last |-> l]
System   == Partition("boot", 1, 3)
NoEntry  == Partition(Unused, 0, 0)

\* A table with its root at sector 4, and of n sectors.
Table(n, last) ==
    [lastLBA |-> last, num |-> 4,
     entries |-> <<System, Partition("rootfs", 4, 3 + n), Partition("userdata", 4 + n, last),
                   NoEntry>>]

\* What an image ships has no user partition yet.
ShippedTable(n) == [Table(n, 3 + n) EXCEPT !.lastLBA = 0]
Raw(n, user)    == [rootStart |-> 4, rootSectors |-> n, userStart |-> 4 + n, user |-> user,
                    gpt |-> "gpt_main0.bin"]

\* An image whose root has 10 GiB, and an old one of 11 GiB that cannot keep data.
Images ==
    [d \in {"new", "old"} |->
        IF d = "new" THEN [table |-> ShippedTable(40), full |-> Raw(40, TRUE),
                           nouser |-> {Raw(40, FALSE)}]
                     ELSE [table |-> ShippedTable(44), full |-> Raw(44, TRUE), nouser |-> {}]]

Storage   == [b \in {"q16", "q32", "v"} |-> IF b = "q32" THEN 115 ELSE 57]
Variants2 == {[capacity |-> 119, default |-> 0], [capacity |-> 238, default |-> 160]}

\* The table of a Debian image R0, which has another partition before the root.
TableR0(last) ==
    [lastLBA |-> last, num |-> 5,
     entries |-> <<System, Partition("extra", 4, 5), Partition("rootfs", 6, 45),
                   Partition("userdata", 46, last), NoEntry>>]
CountsR0 == [count |-> 4, num |-> 5]

Tables(n, b) == Table(n, Storage[b])
InUse ==
    [b \in {"q16", "q32", "v"} |->
        CASE b = "q16" -> {Tables(40, b), TableR0(Storage[b])}
          [] b = "q32" -> {Tables(40, b), Tables(80, b)}
          [] b = "v"   -> {Tables(40, b)}]
=============================================================================
