---------------------------- MODULE CommandLine ----------------------------
(***************************************************************************)
(* What the commands have in common: their arguments, the indexes they     *)
(* read, the interrupt of the terminal, and how they end.                  *)
(***************************************************************************)
EXTENDS Numerals, Feedback

CONSTANTS
    Boards,        \* the ids of the supported boards
    UnoQ,          \* the board the deprecated arguments meant
    Sizable,       \* the boards with PreserveUser, whose table is read
    Versions,      \* what matches the pattern of a version
    Rank,          \* Rank[v]: where version v stands among them
    OnDisk,        \* OnDisk[w]: what is on the disk at the path w, for such words
    None,          \* no word
    MaxSerial,     \* the greatest number of a serial, 2^63 - 1
    CommandLines,  \* bound: the command lines that are tried
    Published      \* bound: what the indexes may hold

ASSUME UnoQType == UnoQ \in Boards /\ Sizable \subseteq Boards
ASSUME WordsDiffer ==
    /\ Boards \cap Versions = {}
    /\ {None, "latest"} \cap (Boards \cup Versions) = {} /\ None # "latest"
ASSUME RankType == \A v \in Versions : Rank[v] \in Nat
\* There are finitely many, so one is the newest.
ASSUME NewestExists ==
    \A S \in SUBSET Versions : S # {} => \E v \in S : \A u \in S : Rank[u] <= Rank[v]
ASSUME CommandsType ==
    \A a \in CommandLines :
        a.command \in {"flash", "download", "list", "cache list", "cache clear", "version", "daemon"}
ASSUME SerialsType ==
    \A a \in CommandLines :
        a.serial \in [prefixed : BOOLEAN, digits : Seq(0..15)]
ASSUME MaxSerialType == MaxSerial \in Nat
ASSUME OnDiskType == \A w \in DOMAIN OnDisk : OnDisk[w] \in {"archive", "directory"}

VARIABLES
    args,          \* the command line
    pc,            \* how far the command has come, "end" when the process has exited
    io,            \* what was said, and the exit status
    published,     \* the releases in the indexes
    interrupted    \* whether Ctrl-C has cancelled the context

cmdVars == <<args, pc, io, published, interrupted>>

\* An image is a release, or something on the disk that says nothing of itself.
Releases  == [path : {None}, board : Boards, version : Versions]
LocalImage(w) == [path |-> w, board |-> None, version |-> None]
NoImage   == LocalImage(None)

ASSUME PublishedType == Published \subseteq SUBSET Releases

InitCommand ==
    /\ args \in CommandLines
    /\ pc = "start"
    /\ io = Silent
    /\ published \in Published
    /\ interrupted = FALSE

-----------------------------------------------------------------------------
Continue(p) == io' = io /\ pc' = p
Leave(said) == io' = Quit(said) /\ pc' = "end"
Die(e)      == io' = Fatal(io, e) /\ pc' = "end"

\* Shapes of a step: nothing but the command moves.
Own == UNCHANGED <<args, published, interrupted>>

First ==
    CASE args.command = "flash" -> IF args.windows THEN "drivers" ELSE "arguments"
      [] args.command = "download" -> "download command"
      [] OTHER -> args.command

PersistentPreRun ==
    /\ pc = "start"
    /\ \/ /\ args.format \in Formats
          /\ io' = SetFormat(io, args.format)
          /\ pc' = First
       \/ args.format \notin Formats /\ Die("invalid format")
    /\ Own

\* What Fetch may return: whatever an index holds that could be read, and whether
\* one failed.  Registry has it in detail.
Snapshots ==
    {s \in [releases : SUBSET published, failed : BOOLEAN] :
        /\ s.failed \/ s.releases = published
        /\ interrupted => s.failed /\ s.releases = {}}

Warned(s) == IF s.failed THEN Warn(io, "index failed") ELSE io

Resolved(rs, board, version) ==
    {r \in rs : /\ r.board = board
                /\ IF version # None THEN r.version = version
                   ELSE \A q \in rs : q.board = board => Rank[q.version] <= Rank[r.version]}

-----------------------------------------------------------------------------
(* Deprecated arguments.  A word is [board, image, version].               *)

Conflict(w) == w.board \in Versions /\ w.version # None

IsPath(w) == w.image = None /\ w.board \in DOMAIN OnDisk

\* (Mutant: what is on the disk is looked for first.)
PathFirst(w) ==
    CASE IsPath(w) -> [w EXCEPT !.board = UnoQ, !.image = w.board]
      [] w.board = "latest" -> [w EXCEPT !.board = UnoQ]
      [] w.board \in Versions -> [w EXCEPT !.board = UnoQ, !.version = w.board]
      [] OTHER -> w
LegacyArgs(w) ==
    CASE w.board \in Boards \cup {None} -> w
      [] w.board = "latest" -> [w EXCEPT !.board = UnoQ]
      [] w.board \in Versions -> [w EXCEPT !.board = UnoQ, !.version = w.board]
      [] OTHER -> IF IsPath(w) THEN [w EXCEPT !.board = UnoQ, !.image = w.board] ELSE w

\* io after its warning.
Translated(w) == IF LegacyArgs(w) # w THEN Warn(io, "deprecated") ELSE io

-----------------------------------------------------------------------------
(* Serial numbers: digits, after a prefix or not.  No digits is any text   *)
(* that is not a number.                                                   *)

NoSerial == [prefixed |-> FALSE, digits |-> <<>>]

AllDecimal(digits)  == \A i \in DOMAIN digits : digits[i] < 10

\* FromNum: the numbers it may return, none when it returns an error.
FromNum(s) ==
    IF s.prefixed \/ s.digits = <<>> \/ ~AllDecimal(s.digits) THEN {}
    ELSE {Value(s.digits, 10)} \cap 0..MaxSerial
FromHex(s) == IF s.digits = <<>> THEN {} ELSE {Value(s.digits, 16)} \cap 0..MaxSerial

Parse(s) == IF FromNum(s) # {} THEN FromNum(s) ELSE FromHex(s)

Decimal(n) == [prefixed |-> FALSE, digits |-> Digits(n)]
=============================================================================
