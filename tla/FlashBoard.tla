----------------------------- MODULE FlashBoard -----------------------------
(***************************************************************************)
(* FlashBoard (internal/updater/flasher.go): what is written to a board,   *)
(* decided from the request, the partition table qdl reads from the board  *)
(* and the one the image ships with, through files beside the image that   *)
(* other flashes of a local image directory use too.                       *)
(***************************************************************************)
EXTENDS PartitionTable

CONSTANTS
    Call,          \* calls of FlashBoard
    Board,         \* the boards connected
    Sizable,       \* those whose model has PreserveUser: their table is read
    Disk,          \* Disk[b]: the last usable sector of board b
    OnBoard,       \* OnBoard[b]: the tables it may have at first
    Dir,           \* image directories
    Image,         \* Image[d]: the table and the raw programs of an image
    Variants,      \* the variants of a sizable board: capacity, default root
    RootSizes,     \* the root sizes users ask for
    R0,            \* the counts of partitions of a Debian image R0
    SharedDirs     \* whether calls that overlap may name one directory

\* The commands and the wizard refuse a smaller root.
ASSUME RootSizesType == \A s \in RootSizes : s \in MinRootSize..(Word - 1)
ASSUME BoardsType ==
    /\ Board # {} /\ Dir # {} /\ Sizable \subseteq Board /\ DOMAIN Image = Dir
    /\ \A b \in Board : Disk[b] \in 0..(Word - 1) /\ OnBoard[b] \subseteq PartitionTables
ASSUME VariantsType ==
    \A v \in Variants : v.capacity \in Nat \ {0} /\ v.default \in {0} \cup (Sector..(Word - 1))

Programs ==
    [rootStart : 0..(Word - 1), rootSectors : Nat, userStart : 0..(Word - 1), user : BOOLEAN,
     gpt : {"", "gpt_main0.bin", "gpt_main0_resized.bin"}]

\* The root starts where images have it, and the user partition follows it.
Aligned(t) ==
    LET root == Find(t, "rootfs")
        user == Find(t, "userdata")
    IN  /\ \A d \in Dir : root.first = Find(Image[d].table, "rootfs").first
        /\ user.first = root.last + 1 /\ root.first <= root.last
        /\ (root.last - root.first + 1) * Sector < Word

\* The table of an image has both, its root starts where no root size makes it wrap, and
\* its programs write what it says; that for keeping the user's data writes none.
ASSUME ImagesType ==
    \A d \in Dir :
        LET t == Image[d].table
            root == Find(t, "rootfs")
        IN  /\ t \in PartitionTables /\ Aligned(t)
            /\ \A name \in {"rootfs", "userdata"} : \E i \in UsedEntries(t) : t.entries[i].name = name
            /\ 1 <= root.first /\ root.first + Word \div Sector < Word
            /\ \A p \in {Image[d].full} \cup Image[d].nouser :
                  /\ p \in Programs /\ p.gpt = "gpt_main0.bin"
                  /\ root = [first |-> p.rootStart, last |-> Wrap(p.rootStart + p.rootSectors - 1)]
            /\ Image[d].full.user /\ Image[d].full.userStart = Find(t, "userdata").first
            /\ \A p \in Image[d].nouser : ~p.user

VARIABLES
    pc,            \* how far each call has come
    req,           \* what it was asked
    table,         \* the table of the board, as it parsed it
    prog,          \* the raw program it chose
    size,          \* the root size it is going to write, 0 for the image's
    made,          \* the files it has to remove
    confirmed,     \* whether the user gave up his data
    err,           \* whether it fails
    loaded,        \* the raw program qdl has loaded
    dump,          \* dump[d]: dump.bin, {} if there is none
    gptFile,       \* gptFile[d]: gpt_main0_resized.bin
    progFile,      \* progFile[d]: rawprogram0_resized.xml
    device,        \* device[b]: the table of a board, where the root and the
                   \* user's data were written, whether the flash was finished
    history        \* the calls that wrote over the user's data, and the
                   \* directories where a write failed or a call was killed

callVars == <<req, table, prog, size, made, confirmed, err, loaded>>
fileVars == <<dump, gptFile, progFile>>
vars     == <<pc, callVars, fileVars, device, history>>

Request ==
    {r \in [board : Board, dir : Dir, preserve : BOOLEAN, rootSize : RootSizes \cup {0},
            daemon : BOOLEAN] : r.rootSize > 0 => ~r.preserve /\ ~r.daemon}

NoProgram == [rootStart |-> 0, rootSectors |-> 0, userStart |-> 0, user |-> FALSE, gpt |-> ""]
NoTable   == [lastLBA |-> 0, num |-> 0, count |-> 0, root |-> Absent, user |-> Absent]

\* A board with a table: the root and the data are where it says.
Lost == 0   \* where no user data are
Shipped(t) == [table |-> t, root |-> Find(t, "rootfs"), data |-> Find(t, "userdata").first,
               whole |-> TRUE]

Running(c) == pc[c] \notin {"idle", "done", "dead"}

Init ==
    /\ pc = [c \in Call |-> "idle"]
    /\ req \in [Call -> {CHOOSE r \in Request : r.rootSize = 0}]
    /\ table = [c \in Call |-> NoTable]
    /\ prog = [c \in Call |-> "rawprogram0.xml"]
    /\ size = [c \in Call |-> 0]
    /\ made = [c \in Call |-> {}]
    /\ confirmed = [c \in Call |-> FALSE]
    /\ err = [c \in Call |-> FALSE]
    /\ loaded = [c \in Call |-> NoProgram]
    /\ dump = [d \in Dir |-> {}]
    /\ gptFile = [d \in Dir |-> {}]
    /\ progFile = [d \in Dir |-> {}]
    /\ device \in [Board -> UNION {{Shipped(t) : t \in OnBoard[b]} : b \in Board}]
    /\ \A b \in Board : device[b].table \in OnBoard[b]
    /\ history = [wiped |-> {}, spoiled |-> {}]

-----------------------------------------------------------------------------
Goto(c, phase) == pc' = [pc EXCEPT ![c] = phase]
Fail(c) == Goto(c, "return") /\ err' = [err EXCEPT ![c] = TRUE]
Spoil(d) == history' = [history EXCEPT !.spoiled = @ \cup {d}]

\* Up to the first step that depends on the board.  Two calls that run do not
\* name one board: qdl has it to itself.
Begin(c) ==
    /\ pc[c] = "idle"
    /\ \E r \in Request :
         /\ \A o \in Call :
              Running(o) => req[o].board # r.board /\ (SharedDirs \/ req[o].dir # r.dir)
         /\ req' = [req EXCEPT ![c] = r]
         /\ \/ r.board \in Sizable /\ Goto(c, "read") /\ UNCHANGED err
            \/ /\ r.board \notin Sizable /\ ~r.preserve /\ r.rootSize = 0
               /\ Goto(c, "program") /\ UNCHANGED err
            \/ Fail(c)
    /\ UNCHANGED <<table, prog, size, made, confirmed, loaded, fileVars, device, history>>

\* qdl reads the table of the board into dump.bin; when it fails, what it wrote
\* stays there.  That it reads nothing and does not say so is taken to happen only
\* where no earlier dump.bin is, which is when the code can tell.
ReadBoard(c) ==
    LET written == [dump EXCEPT ![req[c].dir] = {device[req[c].board].table}]
    IN  /\ pc[c] = "read"
        /\ \/ /\ \/ dump' = written
                 \/ dump[req[c].dir] = {} /\ UNCHANGED dump
              /\ Goto(c, "table") /\ UNCHANGED <<err, history>>
           \/ dump' \in {dump, written} /\ Spoil(req[c].dir) /\ Fail(c)
        /\ UNCHANGED <<req, table, prog, size, made, confirmed, loaded, gptFile, progFile, device>>

TakeTable(c) ==
    /\ pc[c] = "table"
    /\ \/ dump[req[c].dir] = {} /\ Fail(c) /\ UNCHANGED table
       \/ \E raw \in dump[req[c].dir] :
            /\ Goto(c, "undump")
            /\ \/ table' = [table EXCEPT ![c] = Parsed(raw)] /\ UNCHANGED err
               \/ err' = [err EXCEPT ![c] = TRUE] /\ UNCHANGED table
    /\ UNCHANGED <<req, prog, size, made, confirmed, loaded, fileVars, device, history>>

\* The deferred removal.
Undump(c) ==
    /\ pc[c] = "undump"
    /\ dump' = [dump EXCEPT ![req[c].dir] = {}]
    /\ Goto(c, IF err[c] THEN "return" ELSE "decide")
    /\ UNCHANGED <<callVars, gptFile, progFile, device, history>>

-----------------------------------------------------------------------------
(* What to flash.                                                          *)

\* (Mutant: the check does not count the system partitions.)
FitsUser(r, t) == r.rootSize <= Wrap(BoardSize(t) - MinUserPartitionSize)
Fits(r, t) == r.rootSize <= Wrap(BoardSize(t) - MinUserPartitionSize - SystemReservedBytes)

\* VariantByCapacity: the default of the smallest variant that can hold it, 0
\* for an unknown one.
DefaultRootSize(reported) ==
    LET holding == {v \in Variants : v.capacity >= reported}
    IN  IF holding = {} THEN 0
        ELSE (CHOOSE v \in holding : \A w \in holding : v.capacity <= w.capacity).default

\* checkUserPartitionPreservation.
\* (Mutant: every table is taken to support it.)
AlwaysPreservable(t) == TRUE
OfR0(t) == t.count = R0.count /\ t.num = R0.num
Preservable(t) == ~OfR0(t)

\* Boards that do not have the table of an R0 image have their root where images have it.
ASSUME TablesType ==
    \A b \in Board : \A t \in OnBoard[b] :
        /\ Find(t, "rootfs").last < Find(t, "userdata").first
        /\ OfR0(Parsed(t)) \/ Aligned(t)

\* Sizes are whole sectors and not under the floor, what precedes the root fits what is
\* reserved for it, and a board has room for that and the user beside a root.
ASSUME SizesType ==
    /\ \A s \in RootSizes \cup {v.default : v \in Variants} :
          s = 0 \/ (s >= MinRootSize /\ (s \div Sector) * Sector = s)
    /\ \A d \in Dir :
          LET root == Find(Image[d].table, "rootfs")
          IN  SizeInBytes(root) >= MinRootSize /\ root.first * Sector <= SystemReservedBytes
    /\ \A b \in Sizable :
          /\ (Disk[b] + 1) * Sector >= MinUserPartitionSize + SystemReservedBytes
          /\ (Disk[b] + 1) * Sector < Word
          /\ \A t \in OnBoard[b] :
                /\ t.lastLBA = Disk[b]
                /\ OfR0(Parsed(t)) \/ SizeInBytes(Find(t, "rootfs")) >= MinRootSize

Keepable(c) == Preservable(table[c]) /\ Image[req[c].dir].nouser # {}

Refuse(c) ==
    /\ pc[c] = "decide"
    /\ \/ req[c].rootSize > 0 /\ ~Fits(req[c], table[c])
       \/ req[c].preserve /\ ~Keepable(c) /\ req[c].daemon
    /\ Fail(c)
    /\ UNCHANGED <<req, table, prog, size, made, confirmed, loaded, fileVars, device, history>>

\* (Mutant: the tables are resized whatever the size.)
ResizeAlways(s) == "resize"
After(s) == IF s > 0 THEN "resize" ELSE "program"

\* On with a root of s bytes, 0 for the image's, unless its table cannot be read.
Decided(c, s) ==
    /\ size' = [size EXCEPT ![c] = s]
    /\ \/ Goto(c, After(s)) /\ UNCHANGED err
       \/ Fail(c)

\* A flash that keeps the user partition also keeps the size of the root.
Preserve(c) ==
    LET onBoard == SizeInBytes(table[c].root)
        onImage == SizeInBytes(Find(Image[req[c].dir].table, "rootfs"))
    IN  /\ pc[c] = "decide" /\ req[c].preserve /\ Keepable(c)
        /\ prog' = [prog EXCEPT ![c] = "rawprogram0.nouser.xml"]
        /\ Decided(c, IF onBoard = onImage THEN 0 ELSE onBoard)
        /\ UNCHANGED <<req, table, made, confirmed, loaded, fileVars, device, history>>

\* (Mutant: the answer is not looked at.)
GoesOn(yes) == TRUE
Agreed(yes) == yes

\* Data that cannot be kept is given up only by the user.
Ask(c) ==
    /\ pc[c] = "decide" /\ req[c].preserve /\ ~Keepable(c) /\ ~req[c].daemon
    /\ \E yes \in BOOLEAN :
         /\ confirmed' = [confirmed EXCEPT ![c] = yes]
         /\ IF Agreed(yes) THEN Goto(c, "program") /\ UNCHANGED err ELSE Fail(c)
    /\ UNCHANGED <<req, table, prog, size, made, loaded, fileVars, device, history>>

\* A full flash, of the size asked for or the default.
Size(c) ==
    LET r == req[c]
    IN  /\ pc[c] = "decide" /\ ~r.preserve
        /\ r.rootSize > 0 => Fits(r, table[c])
        /\ Decided(c, IF r.rootSize > 0 THEN r.rootSize ELSE DefaultRootSize(BoardSize(table[c])))
        /\ UNCHANGED <<req, table, prog, made, confirmed, loaded, fileVars, device, history>>

-----------------------------------------------------------------------------
(* The files beside the image.                                             *)

\* Image directories are as they are shipped; the programs by their names.
Program(d, name) ==
    CASE name = "rawprogram0.xml"         -> {Image[d].full}
      [] name = "rawprogram0.nouser.xml"  -> Image[d].nouser
      [] name = "rawprogram0_resized.xml" -> progFile[d]

\* Writing may fail, and leave a part of the file.
WriteTable(c) ==
    LET d == req[c].dir
    IN  /\ pc[c] = "resize"
        /\ gptFile' = [gptFile EXCEPT ![d] = {Resized(Image[d].table, size[c])}]
        /\ \/ made' = [made EXCEPT ![c] = @ \cup {"gpt"}] /\ Goto(c, "move")
              /\ UNCHANGED <<err, history>>
           \/ Spoil(d) /\ Fail(c) /\ UNCHANGED made
        /\ UNCHANGED <<req, table, prog, size, confirmed, loaded, dump, progFile, device>>

\* (Mutant: the program is moved by the size of the image's root.)
MovedByImage(c, p) == Moved(p, SizeInBytes(Find(Image[req[c].dir].table, "rootfs")))
MovedBySize(c, p) == Moved(p, size[c])

WriteProgram(c) ==
    LET d == req[c].dir
    IN  /\ pc[c] = "move"
        /\ \E p \in Program(d, prog[c]) :
             progFile' = [progFile EXCEPT ![d] = {MovedBySize(c, p)}]
        /\ \/ /\ made' = [made EXCEPT ![c] = @ \cup {"prog"}]
              /\ prog' = [prog EXCEPT ![c] = "rawprogram0_resized.xml"]
              /\ Goto(c, "program") /\ UNCHANGED <<err, history>>
           \/ Spoil(d) /\ Fail(c) /\ UNCHANGED <<made, prog>>
        /\ UNCHANGED <<req, table, size, confirmed, loaded, dump, gptFile, device>>

-----------------------------------------------------------------------------
(* The flash.                                                              *)

\* The raw program is read, by getTotalPartition and by qdl.
Load(c) ==
    LET programs == Program(req[c].dir, prog[c])
    IN  /\ pc[c] = "program"
        /\ \/ \E p \in programs : loaded' = [loaded EXCEPT ![c] = p]
              /\ Goto(c, "flash") /\ UNCHANGED err
           \/ Fail(c) /\ UNCHANGED loaded
        /\ UNCHANGED <<req, table, prog, size, made, confirmed, fileVars, device, history>>

\* The tables qdl finds under the name the program gives; with --allow-missing it
\* goes on without one.
TableFile(d, name) == IF name = "gpt_main0.bin" THEN {Image[d].table} ELSE gptFile[d]

\* qdl writes the table, grown to the disk, the root and perhaps the user data.
\* When it fails, or is killed, it wrote any part of them.
Grown(t, last) ==
    [Put(t, "userdata", Find(t, "userdata").first, last) EXCEPT !.lastLBA = last]

Flashed(c) ==
    LET r     == req[c]
        p     == loaded[c]
        found == TableFile(r.dir, p.gpt)
    IN  [table |-> IF found = {} THEN device[r.board].table
                   ELSE Grown(CHOOSE t \in found : TRUE, Disk[r.board]),
         root  |-> [first |-> p.rootStart, last |-> Wrap(p.rootStart + p.rootSectors - 1)],
         data  |-> IF p.user THEN p.userStart ELSE device[r.board].data,
         whole |-> TRUE]

HalfFlashed(c) ==
    LET old == device[req[c].board]
        new == Flashed(c)
    IN  {[table |-> t, root |-> old.root, whole |-> FALSE,
          data |-> IF loaded[c].user THEN Lost ELSE old.data] : t \in {old.table, new.table}}

Wipe(c) == IF loaded[c].user THEN {c} ELSE {}

Flash(c) ==
    LET b == req[c].board
    IN  /\ pc[c] = "flash"
        /\ \/ /\ device' = [device EXCEPT ![b] = Flashed(c)]
              /\ Goto(c, "return") /\ UNCHANGED err
           \/ \E half \in HalfFlashed(c) : device' = [device EXCEPT ![b] = half] /\ Fail(c)
        /\ history' = [history EXCEPT !.wiped = @ \cup Wipe(c)]
        /\ UNCHANGED <<req, table, prog, size, made, confirmed, loaded, fileVars>>

\* The deferred removals.
\* (Mutant: the cleanup of the program replaces that of the table.)
LastMadeRemoved(c, file) ==
    IF file = "gpt" THEN made[c] = {"gpt"} ELSE file \in made[c]
Removed(c, file) == file \in made[c]

Finish(c) ==
    LET d == req[c].dir
    IN  /\ pc[c] = "return"
        /\ gptFile'  = IF Removed(c, "gpt") THEN [gptFile EXCEPT ![d] = {}] ELSE gptFile
        /\ progFile' = IF Removed(c, "prog") THEN [progFile EXCEPT ![d] = {}] ELSE progFile
        /\ Goto(c, "done")
        /\ UNCHANGED <<callVars, dump, device, history>>

\* The process is killed; the files stay, and qdl may have written.
Crash(c) ==
    /\ Running(c)
    /\ Goto(c, "dead")
    /\ \/ UNCHANGED device /\ Spoil(req[c].dir)
       \/ /\ pc[c] = "flash"
          /\ \E half \in HalfFlashed(c) : device' = [device EXCEPT ![req[c].board] = half]
          /\ history' = [wiped   |-> history.wiped \cup Wipe(c),
                         spoiled |-> history.spoiled \cup {req[c].dir}]
    /\ UNCHANGED <<callVars, fileVars>>

Next ==
    \E c \in Call :
        \/ Begin(c) \/ ReadBoard(c) \/ TakeTable(c) \/ Undump(c)
        \/ Refuse(c) \/ Preserve(c) \/ Ask(c) \/ Size(c)
        \/ WriteTable(c) \/ WriteProgram(c) \/ Load(c) \/ Flash(c) \/ Finish(c) \/ Crash(c)

Spec == Init /\ [][Next]_vars

-----------------------------------------------------------------------------
(* Properties.                                                             *)

Phases == {"idle", "read", "table", "undump", "decide", "resize", "move", "program",
           "flash", "return", "done", "dead"}
Files  == {"gpt", "prog"}

\* Every variable has its type, a size to write comes with a table to write it
\* into, and a call removes only what it wrote.
TypeOK ==
    /\ pc \in [Call -> Phases]
    /\ req \in [Call -> Request]
    /\ size \in [Call -> 0..(Word - 1)]
    /\ made \in [Call -> SUBSET Files]
    /\ \A c \in Call : pc[c] \in {"resize", "move"} => size[c] > 0
    /\ \A c \in Call : "prog" \in made[c] => "gpt" \in made[c]
    /\ confirmed \in [Call -> BOOLEAN] /\ err \in [Call -> BOOLEAN]
    /\ \A d \in Dir : \A file \in {dump[d], gptFile[d], progFile[d]} : Cardinality(file) <= 1
    /\ history \in [wiped : SUBSET Call, spoiled : SUBSET Dir]

\* The partitions of the tables that reach a board do not overlap, and the user's
\* data, those kept and those a flash wrote, are where its table says the user
\* partition is, through any sequence of flashes, failed and killed ones too.
DataIsReachable ==
    \A b \in Board :
        LET root == Find(device[b].table, "rootfs")
            user == Find(device[b].table, "userdata")
        IN  device[b].data # Lost => device[b].data = user.first /\ root.last < user.first

\* The table on a board that was flashed to the end describes the root that was
\* written, to the sector: the table and the raw program are resized apart.
TableMatchesProgram ==
    \A b \in Board : device[b].whole => device[b].root = Find(device[b].table, "rootfs")

\* "Silently ignoring these would wipe data the user asked to keep": a call that
\* was asked to preserve the user partition writes over it only if the user said
\* so when told that it cannot be kept.
AskedToKeep == \A c \in history.wiped : req[c].preserve => confirmed[c]

Succeeded(c) == pc[c] = "return" /\ ~err[c]
OnDevice(c)  == device[req[c].board].table
RootSize(c)  == SizeInBytes(Find(OnDevice(c), "rootfs"))
OnImage(c)   == SizeInBytes(Find(Image[req[c].dir].table, "rootfs"))
DefaultOf(c) == IF req[c].board \in Sizable THEN DefaultRootSize(BoardSize(table[c])) ELSE 0

\* A flash that succeeds leaves the root the user asked for; one that keeps the
\* user's data, the root the board had; one of which nothing was asked, the root
\* the variant or the image has; none a root under the floor.  Beside a root that
\* was asked for there is a user partition of at least the minimal size.
RootIsAsAsked ==
    \A c \in Call : Succeeded(c) =>
        /\ req[c].rootSize > 0 => RootSize(c) = req[c].rootSize
        /\ req[c].preserve /\ ~confirmed[c] => RootSize(c) = SizeInBytes(table[c].root)
        /\ ~req[c].preserve /\ req[c].rootSize = 0 =>
             RootSize(c) = IF DefaultOf(c) > 0 THEN DefaultOf(c) ELSE OnImage(c)
        /\ req[c].board \in Sizable => RootSize(c) >= MinRootSize
        /\ req[c].rootSize > 0 =>
             (Disk[req[c].board] - Find(OnDevice(c), "userdata").first + 1) * Sector
                >= MinUserPartitionSize

\* No call leaves a file in a directory where no write failed and no call was
\* killed: the next flash from it finds what was shipped.
DirectoryIsTidy ==
    \A d \in Dir : d \notin history.spoiled /\ (\A c \in Call : Running(c) => req[c].dir # d) =>
        dump[d] = {} /\ gptFile[d] = {} /\ progFile[d] = {}

\* "DefaultRootSize is the root size to use when none was requested."
DefaultIsApplied ==
    \A c \in Call :
        Succeeded(c) /\ c \in history.wiped /\ req[c].rootSize = 0 /\ DefaultOf(c) > 0 =>
            RootSize(c) = DefaultOf(c)
=============================================================================
