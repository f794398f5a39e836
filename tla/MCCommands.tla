----------------------------- MODULE MCCommands -----------------------------
(***************************************************************************)
(* Command lines, images and disks for TLC.  A GiB has 8 units here, so    *)
(* that a variant of 16 GB has 119 of them and one of 32 GB has 238.       *)
(***************************************************************************)
EXTENDS Commands

Release(b, v) == [path |-> "", board |-> b, version |-> v]
Catalogs ==
    {{}, {Release("unoq", "v1")}, {Release("unoq", "v1"), Release("unoq", "v2")},
     {Release("unoq", "v2"), Release("ventunoq", "v1")}}

Ranks      == [v \in {"v1", "v2"} |-> IF v = "v1" THEN 1 ELSE 2]
Capacities == [b \in {"unoq", "ventunoq"} |-> IF b = "unoq" THEN {119, 238} ELSE {}]

\* Files that have the names of a board and of a version, too.
Files == [w \in {"archive", "folder", "unoq", "v1"} |->
             IF w \in {"archive", "v1"} THEN "archive" ELSE "directory"]

\* Enough for all, for an extraction only, and on one of the disks only.
Spaces == {[home |-> 12, other |-> 12], [home |-> 11, other |-> 9], [home |-> 1, other |-> 12]}

Plain(c) ==
    [command |-> c, windows |-> FALSE, format |-> "text", board |-> "", image |-> "",
     version |-> "", serial |-> NoSerial, yes |-> FALSE, preserve |-> FALSE,
     rootSize |-> Blank, cache |-> FALSE, temp |-> "home", dest |-> ""]
On(board) == [Plain("flash") EXCEPT !.board = board, !.yes = TRUE]

Number(prefixed, digits) == [prefixed |-> prefixed, digits |-> digits]
Serials ==
    {Number(FALSE, <<1, 6>>), Number(TRUE, <<1, 6>>), Number(FALSE, <<1, 10>>),
     Number(TRUE, <<>>), Number(FALSE, <<7>>), Number(FALSE, <<1, 0, 0>>)}

Arguments ==
    {[On(b) EXCEPT !.image = i, !.version = v] :
        b \in {"unoq", "ventunoq", "latest", "v1", "archive", "nothing"},
        i \in {"", "archive", "folder", "nothing"}, v \in {"", "v1"}}
Consents ==
    {[On(b) EXCEPT !.yes = y, !.preserve = p, !.rootSize = r, !.format = f] :
        b \in {"unoq", "ventunoq"}, y \in BOOLEAN, p \in BOOLEAN,
        r \in {Blank, Text("number", 96)}, f \in {"text", "json"}}
Sizes  == {[On("unoq") EXCEPT !.rootSize = r] : r \in {Text("junk", 0), Text("number", 40)}}
Boxes  == {[On("unoq") EXCEPT !.serial = s, !.image = "folder"] : s \in Serials}
Spots  == {[On("unoq") EXCEPT !.cache = k, !.temp = t] : k \in BOOLEAN, t \in Disks}
OnWindows == {[On("unoq") EXCEPT !.windows = TRUE, !.image = "folder", !.format = f] :
                 f \in {"text", "json"}}
Downloads ==
    {[Plain("download") EXCEPT !.board = b, !.version = v, !.dest = d] :
        b \in {"", "unoq", "ventunoq", "latest", "v1", "archive", "nothing"},
        v \in {"", "v1"}, d \in {"", "folder", "archive"}}
Others ==
    {[Plain(c) EXCEPT !.format = f, !.board = b] :
        c \in {"list", "cache list", "cache clear", "version", "daemon"},
        f \in {"text", "json", "yaml"}, b \in {"", "nothing"}}

EveryUse ==
    UNION {Arguments, Consents, Sizes, Boxes, Spots, {Plain("flash")}, OnWindows, Downloads,
           Others}
=============================================================================
