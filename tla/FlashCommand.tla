---------------------------- MODULE FlashCommand ----------------------------
(***************************************************************************)
(* The flash command: from its arguments, or from the form of the wizard,  *)
(* over the questions it asks and the space it needs to the board.  What   *)
(* FlashBoard decides from a partition table is in FlashBoard.             *)
(***************************************************************************)
EXTENDS Drivers, Wizard

CONSTANTS
    Connected,     \* the serial numbers of the boards connected
    Rooms,         \* Rooms[_][d]: the GiB that may be free on disk d
    ArchiveSize,   \* the GiB of an archive and of what is in it, at most
    ImageSize

\* The user cache is on the disk "home", and so is the default parent of the
\* scratch directory.
Disks == {"home", "other"}

ASSUME ConnectedType == Connected \subseteq Nat
ASSUME TempType == \A a \in CommandLines : a.temp \in Disks
\* What is asked for is enough, DownloadDiskSpace and ExtractDiskSpace.
ASSUME SizesType ==
    /\ ArchiveSize \in Nat /\ ImageSize \in Nat
    /\ ImageSize <= 10 /\ ArchiveSize + ImageSize <= 12
ASSUME RoomsType == Rooms \subseteq [Disks -> Nat]

VARIABLES
    job,           \* what FlashBoard and those before it are called with
    consent,       \* history: what the user agreed to after it was shown to him
    err,           \* the error that is returned, "" for none
    temp,          \* the temporary directories there are
    source,        \* where the archive comes from
    cached,        \* the releases with a usable archive in the cache
    room,          \* the GiB that are free
    early,         \* history: interrupted before the image was extracted
    device         \* what was written to each board

workVars  == <<consent, err, temp, source>>
worldVars == <<cached, room, early, device>>
flashVars == <<job, workVars, worldVars>>

NoJob == [image |-> NoImage, board |-> None, serial |-> NoSerial, preserve |-> FALSE,
          size |-> 0, keep |-> FALSE, temp |-> "home", yes |-> FALSE, program |-> "full"]

Untouched == [image |-> NoImage, data |-> "kept"]

InitFlash ==
    /\ job = NoJob
    /\ consent = {} /\ err = "" /\ temp = {} /\ source = "none"
    /\ cached \in SUBSET published
    /\ room \in Rooms
    /\ early = FALSE
    /\ device = [d \in Connected |-> Untouched]

-----------------------------------------------------------------------------
(* The arguments.                                                          *)

Words == [board |-> args.board, image |-> args.image, version |-> args.version]

\* "Normalize the CLI input to decimal": what reads it next takes it for decimal.
\* (Mutant: the digits are kept as they are written.)
AsWritten(s) == [s EXCEPT !.prefixed = FALSE]
Normal(s) == IF s = NoSerial THEN s ELSE Decimal(CHOOSE n \in Parse(s) : TRUE)

BadSerial == args.serial # NoSerial /\ Parse(args.serial) = {}
BadRoot   == /\ args.rootSize # Blank
             /\ args.preserve \/ args.rootSize.kind = "junk" \/ args.rootSize.n < MinRootSize

CheckArguments ==
    /\ pc = "arguments"
    /\ CASE BadSerial -> Die("bad serial") /\ UNCHANGED job
         [] ~BadSerial /\ args.board = None -> Continue("wizard") /\ UNCHANGED job
         [] ~BadSerial /\ args.board # None /\ BadRoot -> Die("bad root size") /\ UNCHANGED job
         [] OTHER ->
              /\ job' = [job EXCEPT !.serial = Normal(args.serial), !.preserve = args.preserve,
                                    !.size = args.rootSize.n, !.keep = args.cache,
                                    !.temp = args.temp, !.yes = args.yes]
              /\ Continue("translate")
    /\ Own /\ UNCHANGED <<workVars, worldVars>>

Translate ==
    LET w == LegacyArgs(Words)
    IN  /\ pc = "translate"
        /\ IF Conflict(Words) THEN Die("two versions") /\ UNCHANGED job
           ELSE IF w.board \notin Boards THEN Die("not a board") /\ UNCHANGED job
           ELSE IF w.image \notin DOMAIN OnDisk \cup {None} THEN
                /\ io' = Fatal(Translated(Words), "no image at the path")
                /\ pc' = "end" /\ UNCHANGED job
           ELSE /\ job' = [job EXCEPT !.board = w.board,
                                      !.image = [LocalImage(w.image) EXCEPT !.version = w.version]]
                /\ io' = Translated(Words)
                /\ pc' = IF w.image = None THEN "resolve" ELSE "ask"
        /\ Own /\ UNCHANGED <<workVars, worldVars>>

Resolve ==
    /\ pc = "resolve"
    /\ \E s \in Snapshots :
         LET rel == Resolved(s.releases, job.board, job.image.version)
         IN  \/ /\ rel = {}
                /\ io' = Fatal(Warned(s), "no such image") /\ pc' = "end" /\ UNCHANGED job
             \/ /\ \E r \in rel : job' = [job EXCEPT !.image = r]
                /\ io' = Warned(s) /\ pc' = "ask"
    /\ Own /\ UNCHANGED <<workVars, worldVars>>

NotAsked(j) == j.yes \/ j.preserve

Ask ==
    /\ pc = "ask"
    /\ IF NotAsked(job) THEN Continue("prepare")
       ELSE io' = Say(Warn(io, "data is erased"), "proceed?") /\ pc' = "answer"
    /\ Own /\ UNCHANGED flashVars

\* An answer to a question that was on the screen is a consent.
Agree(what) == consent' = IF "proceed?" \in io.shown THEN consent \cup {what} ELSE consent

\* The context is not looked at while the answer is awaited.
Answer ==
    /\ pc = "answer"
    /\ \/ Continue("prepare") /\ Agree("erase")
       \/ Leave(io) /\ UNCHANGED consent
       \/ Die("no answer") /\ UNCHANGED consent
    /\ Own /\ UNCHANGED <<job, err, temp, source, worldVars>>

\* The wizard passes on what it asked for, and nothing of the command line.
TakeForm ==
    /\ pc = "take form"
    /\ job' = [NoJob EXCEPT !.image = form.image, !.board = form.image.board,
                            !.preserve = form.preserve, !.size = RootSize(form),
                            !.keep = form.keep]
    /\ Continue("prepare")
    /\ Own /\ UNCHANGED <<workVars, worldVars>>

-----------------------------------------------------------------------------
(* DownloadAndFlash and FlashImage.                                        *)

IsLocal(i)     == i.path # None
IsDirectory(i) == IsLocal(i) /\ OnDisk[i.path] = "directory"

Fail(e) == err' = e /\ pc' = "unwind" /\ io' = io

\* A directory is flashed where it is; anything else needs a scratch directory.
Prepare ==
    /\ pc = "prepare"
    /\ \/ IsDirectory(job.image) /\ Continue("install") /\ UNCHANGED <<err, temp, source>>
       \/ /\ ~IsDirectory(job.image)
          /\ temp' = {"scratch"}
          /\ source' = IF IsLocal(job.image) THEN "local" ELSE "cache"
          /\ Continue(IF IsLocal(job.image) THEN "space" ELSE "lookup")
          /\ UNCHANGED err
       \/ ~IsDirectory(job.image) /\ Fail("no scratch") /\ UNCHANGED <<temp, source>>
    /\ Own /\ UNCHANGED <<job, consent, worldVars>>

LookupCache ==
    /\ pc = "lookup"
    /\ \/ /\ ~interrupted
          /\ source' = IF job.image \in cached THEN "cache" ELSE "download"
          /\ Continue("space") /\ UNCHANGED err
       \/ Fail("no archive") /\ UNCHANGED source
    /\ Own /\ UNCHANGED <<job, consent, temp, worldVars>>

\* DownloadDiskSpace and ExtractDiskSpace, in GiB.
\* (Mutant: the space of the archive is not counted.)
ToExtract(from) == 10
Needed(from) == IF from = "download" THEN 12 ELSE 10

CheckFreeSpace ==
    /\ pc = "space"
    /\ \/ /\ room[job.temp] >= Needed(source)
          /\ Continue(IF source = "download" THEN "download" ELSE "extract") /\ UNCHANGED err
       \/ Fail("too little space")
    /\ Own /\ UNCHANGED <<job, consent, temp, source, worldVars>>

\* Where a download goes, and what it takes of the scratch directory's disk.
DownloadDisk == IF job.keep THEN "home" ELSE job.temp
Taken == IF source = "download" /\ DownloadDisk = job.temp THEN ArchiveSize ELSE 0

\* DownloadImageToCache or DownloadImage.
Download ==
    /\ pc = "download"
    /\ \/ /\ ~interrupted /\ room[DownloadDisk] >= ArchiveSize
          /\ cached' = IF job.keep THEN cached \cup {job.image} ELSE cached
          /\ Continue("extract") /\ UNCHANGED err
       \/ room[DownloadDisk] < ArchiveSize /\ Fail("disk full") /\ UNCHANGED cached
       \/ Fail("no archive") /\ UNCHANGED cached
    /\ Own /\ UNCHANGED <<job, consent, temp, source, room, early, device>>

\* The archive in the cache may be cleared before it is opened.
Gone == (source = "cache" \/ (source = "download" /\ job.keep)) /\ job.image \notin cached

\* (Mutant: what was extracted is flashed, whether or not that was all.)
Regardless == TRUE
ToTheEnd == ~interrupted

ExtractImage ==
    /\ pc = "extract"
    /\ \/ /\ ToTheEnd /\ ~Gone /\ room[job.temp] - Taken >= ImageSize
          /\ io' = Say(io, "files") /\ pc' = "install" /\ UNCHANGED err
       \/ room[job.temp] - Taken < ImageSize /\ Fail("disk full")
       \/ Fail("not extracted")
    /\ Own /\ UNCHANGED <<job, consent, temp, source, worldVars>>

-----------------------------------------------------------------------------
(* FlashBoard.                                                             *)

\* The temporary directory of qdl is removed only if all went well in it.
InstallQdl ==
    /\ pc = "install"
    /\ \/ temp' = temp \cup {"qdl"} /\ Continue("support") /\ UNCHANGED err
       \/ temp' \in {temp, temp \cup {"qdl"}} /\ Fail("no qdl")
    /\ Own /\ UNCHANGED <<job, consent, source, worldVars>>

\* (Mutant: what the board cannot do is ignored.)
Ignored(j) == TRUE
Supported(j) == j.board \in Sizable \/ (~j.preserve /\ j.size = 0)

\* The `flash' directory is looked for first, and there may be none or several.
CheckSupport ==
    /\ pc = "support"
    /\ \/ /\ Supported(job)
          /\ IF job.board \in Sizable THEN io' = Say(io, "connect the board") /\ pc' = "read"
                                      ELSE Continue("streams")
          /\ UNCHANGED err
       \/ ~Supported(job) /\ Fail("not supported")
       \/ Fail("no flash directory")
    /\ Own /\ UNCHANGED <<job, consent, temp, source, worldVars>>

\* The boards qdl may speak to: without a serial number any of those connected.
Selected == IF job.serial = NoSerial THEN Connected ELSE FromNum(job.serial) \cap Connected

\* qdl waits for the board, until it is killed.
\* (Mutant: it is not run within the context.)
NeverKilled == FALSE
Killed == interrupted

ReadBoard ==
    /\ pc = "read"
    /\ \/ Selected # {} /\ Continue("decide") /\ UNCHANGED err
       \/ (Selected # {} \/ Killed) /\ Fail("board not read")
    /\ Own /\ UNCHANGED <<job, consent, temp, source, worldVars>>

\* From here on, `program' says whether the user data are written over.
Decide ==
    /\ pc = "decide"
    /\ \/ job.preserve /\ job' = [job EXCEPT !.program = "nouser"]
          /\ Continue("streams") /\ UNCHANGED err
       \/ ~job.preserve /\ Continue("streams") /\ UNCHANGED <<job, err>>
       \/ /\ job.preserve
          /\ io' = Say(Say(io, "data cannot be kept"), "proceed?") /\ pc' = "answer again"
          /\ UNCHANGED <<job, err>>
       \/ Fail("refused") /\ UNCHANGED job
    /\ Own /\ UNCHANGED <<consent, temp, source, worldVars>>

\* --yes does not answer this one.
AnswerAgain ==
    /\ pc = "answer again"
    /\ \/ Continue("streams") /\ Agree("give up") /\ UNCHANGED err
       \/ Fail("not confirmed") /\ UNCHANGED consent
    /\ Own /\ UNCHANGED <<job, temp, source, worldVars>>

OpenStreams ==
    /\ pc = "streams"
    /\ \/ HasStreams(io) /\ Continue("qdl") /\ UNCHANGED err
       \/ Fail("text only")
    /\ Own /\ UNCHANGED <<job, consent, temp, source, worldVars>>

Written(d) ==
    [device EXCEPT ![d] = [image |-> job.image,
                           data  |-> IF job.program = "full" THEN "gone" ELSE @.data]]

\* An interrupt kills qdl, at any moment.
RunQdl ==
    /\ pc = "qdl"
    /\ \/ /\ \E d \in Selected : device' = Written(d)
          /\ pc' = "unwind" /\ io' = io /\ err' \in {"", "flash failed"}
       \/ (Selected # {} \/ Killed) /\ Fail("flash failed") /\ UNCHANGED device
    /\ Own /\ UNCHANGED <<job, consent, temp, source, cached, room, early>>

\* The deferred removals, and what the command makes of the error.
\* (Mutant: the scratch directory is removed when all went well.)
RemovedOnSuccess(e) == IF e = "" THEN {"scratch", "qdl"} ELSE {"qdl"}
Deferred(e) == IF e = "no qdl" THEN {"scratch"} ELSE {"scratch", "qdl"}

Unwind ==
    /\ pc = "unwind"
    /\ temp' = temp \ Deferred(err)
    /\ IF err # "" THEN Die(err) ELSE Leave(Say(io, "flashed"))
    /\ Own /\ UNCHANGED <<job, consent, err, source, worldVars>>

FlashStep ==
    \/ CheckArguments \/ Translate \/ Resolve \/ Ask \/ Answer \/ TakeForm
    \/ Prepare \/ LookupCache \/ CheckFreeSpace \/ Download \/ ExtractImage
    \/ InstallQdl \/ CheckSupport \/ ReadBoard \/ Decide \/ AnswerAgain \/ OpenStreams
    \/ RunQdl \/ Unwind

-----------------------------------------------------------------------------
(* The environment.                                                        *)

Ended == pc \in {"end", "dead", "panicked"}
Extracted == pc \in {"install", "support", "read", "decide", "answer again", "streams",
                     "qdl", "unwind"}

\* The first Ctrl-C cancels the context,
Interrupt ==
    /\ ~Ended /\ ~interrupted
    /\ interrupted' = TRUE
    /\ early' = ~Extracted
    /\ UNCHANGED <<args, pc, io, published, job, workVars, cached, room, device>>

\* and the next one kills the process, with qdl.
Kill ==
    /\ ~Ended /\ interrupted
    /\ pc' = "dead"
    /\ \/ pc = "qdl" /\ \E d \in Selected : device' = Written(d)
       \/ UNCHANGED device
    /\ Own /\ UNCHANGED <<io, job, workVars, cached, room, early>>

\* Another process clears the cache.
ClearCache ==
    /\ pc \in {"space", "download", "extract"} /\ cached # {}
    /\ cached' = {}
    /\ Own /\ UNCHANGED <<pc, io, job, workVars, room, early, device>>
=============================================================================
