------------------------------ MODULE Commands ------------------------------
(***************************************************************************)
(* The whole command line: flash, with its wizard and drivers, and the     *)
(* commands that download, list, clear, tell the version and serve.        *)
(***************************************************************************)
EXTENDS FlashCommand

VARIABLE saved     \* the image the download command has left at its path

vars == <<cmdVars, form, driverVars, flashVars, saved>>

Init == InitCommand /\ InitDrivers /\ InitWizard /\ InitFlash /\ saved = NoImage

-----------------------------------------------------------------------------
(* download.  It has no second word, and a directory given to it is on the *)
(* disk "other".                                                           *)

StartDownload ==
    LET w == LegacyArgs(Words)
        usable == args.dest = None \/ (args.dest \in DOMAIN OnDisk /\ OnDisk[args.dest] = "directory")
        wrong  == IF usable THEN "not a board" ELSE "not a directory"
    IN  /\ pc = "download command"
        /\ \/ Conflict(Words) /\ Die("two versions") /\ UNCHANGED job
           \/ /\ ~Conflict(Words)
              /\ job' = [job EXCEPT !.board = w.board, !.image.version = w.version,
                                    !.keep = args.dest = None, !.temp = "other"]
              /\ \/ /\ usable /\ w.board \in Boards \cup {None}
                    /\ io' = Translated(Words)
                    /\ pc' = IF w.board = None THEN "which board" ELSE "which image"
                 \/ /\ ~usable \/ w.board \notin Boards \cup {None}
                    /\ io' = Fatal(Translated(Words), wrong) /\ pc' = "end"
        /\ Own /\ UNCHANGED <<form, workVars, worldVars, saved>>

AskWhich ==
    /\ pc = "which board"
    /\ FetchImages("select image", FALSE, args.version = None, Die("no image is published"))
    /\ UNCHANGED <<flashVars, saved>>

\* One form for both; the version is asked for unless it was given.
SelectImage ==
    /\ pc = "select image"
    /\ \/ /\ ~interrupted \/ (OneBoard /\ args.version # None)
          /\ \E r \in form.offered :
               job' = [job EXCEPT !.board = r.board,
                                  !.image.version = IF args.version = None THEN r.version
                                                    ELSE args.version]
          /\ Continue("which image")
       \/ /\ ~(OneBoard /\ args.version # None)
          /\ IF interrupted THEN Die("wizard failed") ELSE Leave(Say(io, "canceled"))
          /\ UNCHANGED job
    /\ Own /\ UNCHANGED <<form, workVars, worldVars, saved>>

\* The indexes are read, once more after a form.
ResolveDownload ==
    /\ pc = "which image"
    /\ \E s \in Snapshots :
         LET rel == Resolved(s.releases, job.board, job.image.version)
         IN  \/ /\ rel = {}
                /\ io' = Fatal(Warned(s), "no such image") /\ pc' = "end" /\ UNCHANGED job
             \/ /\ \E r \in rel : job' = [job EXCEPT !.image = r]
                /\ io' = Warned(s) /\ pc' = "save"
    /\ Own /\ UNCHANGED <<form, workVars, worldVars, saved>>

\* Store reuses what it has; the directory given holds the archive afterwards.
SaveImage ==
    /\ pc = "save"
    /\ \/ /\ ~interrupted
          /\ (job.keep /\ job.image \in cached) \/ room[DownloadDisk] >= ArchiveSize
          /\ saved' = job.image
          /\ cached' = IF job.keep THEN cached \cup {job.image} ELSE cached
          /\ Leave(Say(io, "path"))
       \/ Die("no archive") /\ UNCHANGED <<saved, cached>>
    /\ Own /\ UNCHANGED <<form, job, workVars, room, early, device>>

DownloadStep == StartDownload \/ AskWhich \/ SelectImage \/ ResolveDownload \/ SaveImage

-----------------------------------------------------------------------------
(* The commands that only tell something.                                  *)

Tell(said, result) == io' = Quit(ShowResult(said, result)) /\ pc' = "end"

ListImages ==
    /\ pc = "list"
    /\ IF args.board \notin Boards \cup {None} THEN Die("not a board")
       ELSE \E s \in Snapshots, inventory \in BOOLEAN :
              IF s.failed /\ s.releases = {}
              THEN io' = Fatal(Warned(s), "no index") /\ pc' = "end"
              ELSE Tell(IF inventory THEN Warned(s) ELSE Warn(Warned(s), "no inventory"), "images")
    /\ Own /\ UNCHANGED cached

ListCache ==
    /\ pc = "cache list"
    /\ Tell(io, "inventory") \/ Die("no inventory")
    /\ Own /\ UNCHANGED cached

\* A Clear that fails may have removed a part; Cache.Clear is in ImageCache.
ClearAll ==
    /\ pc = "cache clear"
    /\ \/ cached' = {} /\ Tell(io, "cleared")
       \/ cached' \in SUBSET cached /\ Die("not cleared")
    /\ Own

\* The answer about updates comes after the result.
TellVersion ==
    /\ pc = "version"
    /\ \E found \in {{}, {"newer release"}, {"update check failed"}} :
         LET told == ShowResult(io, "version")
         IN  io' = Quit(IF found = {} THEN told ELSE Warn(told, CHOOSE w \in found : TRUE))
    /\ pc' = "end"
    /\ Own /\ UNCHANGED cached

\* The daemon does not look at the context.
Listen ==
    /\ pc = "daemon"
    /\ \/ io' = ShowResult(io, "address") /\ pc' = "serving"
       \/ Die("no port")
    /\ Own /\ UNCHANGED cached

Serve ==
    /\ pc = "serving"
    /\ Die("not served")
    /\ Own /\ UNCHANGED cached

TellStep == ListImages \/ ListCache \/ ClearAll \/ TellVersion \/ Listen \/ Serve

-----------------------------------------------------------------------------
CommandStep ==
    \/ PersistentPreRun /\ UNCHANGED <<form, driverVars, flashVars, saved>>
    \/ DriverStep /\ UNCHANGED <<form, flashVars, saved>>
    \/ WizardStep /\ UNCHANGED <<driverVars, flashVars, saved>>
    \/ FlashStep /\ UNCHANGED <<form, driverVars, saved>>
    \/ DownloadStep /\ UNCHANGED driverVars
    \/ TellStep /\ UNCHANGED <<form, driverVars, job, workVars, room, early, device, saved>>

Next ==
    \/ CommandStep
    \/ (Interrupt \/ Kill \/ ClearCache) /\ UNCHANGED <<form, driverVars, saved>>

\* A command goes on, except where it waits for the user, whom a cancelled context
\* replaces in a form but not at a question, or serves.
InForm  == OnPage \/ pc \in {"pick board", "select image"}
Waiting == pc \in {"answer", "answer again", "serving"} \/ (InForm /\ ~interrupted)

Spec == Init /\ [][Next]_vars /\ WF_vars(~Waiting /\ CommandStep)

-----------------------------------------------------------------------------
(* Properties.                                                             *)

Flashed    == {d \in Connected : device[d].image # NoImage}
FromWizard == args.command = "flash" /\ args.board = None

\* What a command line means, by its documentation.
MeantBoard   == IF args.board \in Boards THEN args.board ELSE UnoQ
MeantVersion == IF args.board \in Versions THEN args.board ELSE args.version
MeantPath    ==
    IF args.board \notin Boards \cup Versions \cup {"latest", None} THEN args.board ELSE args.image

NewestOf(i) ==
    \A r \in published : r.board = i.board => Rank[r.version] <= Rank[i.version]

Meant(i) ==
    CASE FromWizard -> i = form.image
      [] ~FromWizard /\ MeantPath # None /\ args.command = "flash" ->
           i.path = MeantPath /\ job.board = MeantBoard
      [] OTHER -> /\ ~IsLocal(i)
                  /\ args.board # None => i.board = MeantBoard
                  /\ MeantVersion # None => i.version = MeantVersion
                  /\ args.board # None /\ MeantVersion = None /\ "index failed" \notin io.said =>
                       NewestOf(i)

\* "Digit-only values are treated as decimal; prefix with 0x to force hexadecimal".
MeantSerial(s) == Value(s.digits, IF ~s.prefixed /\ AllDecimal(s.digits) THEN 10 ELSE 16)

\* What is on a board, or was downloaded, is what the command line meant, through
\* the arguments it took before boards were named, the names that files on the disk
\* share with boards and versions, and an index that failed, of which the user is
\* told; and it is on the board with the serial number given, in either notation.
FlashedIsMeant ==
    /\ \A d \in Flashed :
         /\ Meant(device[d].image)
         /\ args.serial # NoSerial /\ ~FromWizard => d = MeantSerial(args.serial)
    /\ saved # NoImage => Meant(saved)

KeepAsked == IF FromWizard THEN form.preserve ELSE args.preserve

\* Data on a board are gone only if the user agreed to a question he could see: to
\* lose them, or that what was to be kept cannot be; or by --yes, if they were not
\* to be kept, or by the last page of the wizard that said so.
ErasedWithConsent ==
    \A d \in Connected : device[d].data = "gone" =>
        \/ "give up" \in consent
        \/ ~KeepAsked /\ (args.yes \/ FromWizard \/ "erase" \in consent)

\* What the last page of the wizard shows is what is flashed, and a root it takes
\* fits the variant that is chosen in the end: pages may be left forth and back,
\* and the size was typed for another variant, or before the page was hidden.
WizardIsHonoured ==
    FromWizard /\ job.image # NoImage =>
        /\ Summary(form) = [board |-> job.board, version |-> job.image.version,
                            cached |-> job.keep, preserved |-> job.preserve, root |-> job.size]
        /\ job.size > 0 =>
             ~job.preserve /\ job.size >= MinRootSize /\ LeavesRoom(job.size, form.capacity)

\* A command that ends leaves no temporary directory, whatever failed, but that of a
\* qdl that could not be written; and the log of the drivers only if they failed.
NothingTemporaryStays ==
    pc = "end" => /\ temp \subseteq IF err = "no qdl" THEN {"qdl"} ELSE {}
                  /\ log \in {"empty", "written"} => ~Installed(pnputil)

\* A flash that found the space it asked for does not run out of it, unless it keeps
\* the archive on another disk than the one it looked at.
RoomIsEnough == err = "disk full" => source = "download" /\ job.keep /\ job.temp # "home"

\* Ctrl-C before the image is extracted leaves the boards alone, also at a prompt,
\* which does not see it; an image that is a directory is not extracted.
InterruptSparesBoard == early /\ ~IsDirectory(job.image) => Flashed = {}

\* What a command has said is shown when it ends, if it fails or only lists,
\* whatever the format: JSON holds it back for the document at the end.
NothingIsLost ==
    pc = "end" /\ (io.exit = "failed" \/ InText(io) \/ args.command \in {"list", "cache list"}) =>
        io.said \subseteq io.shown

\* A command that is interrupted ends, or asks a question, or serves: also one that
\* waits for a board nobody connects, which by itself goes on for ever.
InterruptEnds == interrupted ~> (Ended \/ Waiting)
=============================================================================
