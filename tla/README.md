# A verification of arduino-flasher-cli

Arduino Flasher downloads Linux images for Arduino boards, keeps them in a
cache, and flashes them through `qdl`. It is a command line tool and a gRPC
daemon over the same packages. This directory holds TLA+ modules of its parts,
the TLC configurations that check them, and theorems about them checked by
TLAPS.

To check a run: `tlc -config <name>.cfg <module>`; to check the proofs: `tlapm` on
each of `ImageCacheProofs`, `CacheContractProofs`, `CacheInventoryProofs`,
`FlashServiceProofs`, `FlashBoardProofs`, `SequenceLemmas`, `RegistryProofs` and
`CommandsProofs`. `PROJECT.json` lists runs, mutants (the plausible bugs each property is known to catch), the source lines
behind each definition, hazards, findings and theorems.

## Inventory

| component | state it keeps | operations | who it meets |
|---|---|---|---|
| image cache (`internal/cache`) | one directory per release under the user cache directory, `.download-*` staging directories, lock files under `.locks` | `Lookup`, `Store`, `Clear`, the publication lock | other calls in the same daemon, and any number of other processes, through the file system only |
| cache inventory (`inventory.go`) | none | `List`, `Contains` | reads what Store and Clear change |
| downloads (`updater/download_image.go`, `registry.Client.DownloadFile`) | the archive being written | download, verify, extract | the callback of Store, the caller who opens the returned path |
| registry (`registry/*.go`) | none (a snapshot per fetch) | `Fetch`, `Filter`, `Resolve`, `OSes`, sorting, `markLatest`, `VariantByCapacity` | index servers, one of which may fail |
| flash service (`service/service_flash.go`) | one request: context with a cause, stream, scratch directory | `Flash`, the synchronised sender | the client's stream, callbacks from the download and from qdl, the cache, the board |
| board flasher (`updater/flasher.go`, `parsegpt.go`, `parseqdl.go`) | files it writes beside the image, the board | `FlashBoard`, GPT reading and resizing, moving the user partition | qdl, the image directory the user may share |
| list and memory requests, rpc messages | none | stateless wrappers | |
| command line (`cmd/arduino-flasher-cli`) | one process: arguments, form, prompts, temporary directories, the context Ctrl-C cancels | `flash`, its wizard and drivers, `download`, `list`, `cache`, `version`, `daemon` | the user, the registry, the cache, the disks, qdl and the boards connected |
| output and helpers (`cmd/feedback`, `argparse`, `types/serial`) | the format, what is held back for the JSON document | say, warn, show a result, die; deprecated arguments; serial numbers | every command |

What is hard here:

* **concurrency without a server**: the cache is coordinated by renames, an
  advisory lock and re-checking; Clear takes no lock at all;
* **partial failure**: every file system or network step can fail, the context
  can be cancelled at any check, a process can die with files half written and
  the lock held;
* **checked, then used**: Lookup verifies an archive and its caller opens it
  later; Store looks an entry up, waits, looks again, removes, renames;
* **one stream, several goroutines**: progress callbacks, a failing Send that
  cancels the request, and an irreversible flash in the middle;
* **one process, a user in no hurry**: prompts that do not see the interrupt, a
  form that is walked forth and back with what was filled in, fatal errors that
  skip deferred calls, output held back in one of the formats;
* **arithmetic on what a board reports**: 64-bit sizes and sector numbers.

What makes each part correct: the cache hands out only verified archives, never
damages a complete entry by publishing, serialises publishers, leaves no staging
directory, always finishes; a Clear that succeeds has cleared; a flash request
never flashes after it saw the client go, and always removes its own directory
only; a flash never writes a partition table that does not fit the board; a
release resolved as latest is the newest of its line in every index read; a
command flashes what its arguments, or the last page of the wizard, said, on the
board they said, erases nothing the user did not agree to lose, and leaves
nothing behind.

## Modules

| module | what it is |
|---|---|
| `ImageCache` | the cache: state machine of Store, Lookup and Clear, its properties and the refinement mapping to the contract |
| `CacheContract` | the abstract specification: what the cache promises, without directories, staging or locks |
| `MCImageCache` | the small instances of the cache TLC checks |
| `CacheInventory`, `MCCacheInventory` | List, measuring and marking what the cache holds while it changes; it extends `ImageCache` |
| `ImageCacheProofs` | the inductive invariant of the cache and the theorems |
| `CacheContractProofs` | undisturbed requests, and the refinement of `CacheContract`; it extends `ImageCacheProofs` |
| `CacheInventoryProofs` | what List reports; it extends `CacheContractProofs` |
| `FlashService` | a Flash request of the daemon: handler, sender, callbacks, qdl |
| `FlashServiceProofs` | its inductive invariant and the theorems |
| `Numerals` | numbers as they are written, in digits |
| `Versions` | the comparison of versions against the order of their numbers; it extends `Numerals` |
| `Registry`, `MCRegistry` | fetching and merging the indexes, and what requests and commands answer from the snapshot; it extends `Versions` |
| `SequenceLemmas` | what the proofs need of sequences, finite sets, orders and digits, and induction |
| `RegistryProofs` | the order of versions, the inductive invariant of the registry and the theorems; it extends `MCRegistry`, for the run states the order there |
| `PartitionTable` | partition tables, sizes in unsigned words, resizing the root |
| `FlashBoard`, `MCFlashBoard` | the decisions of FlashBoard, its files beside the image and what is written to boards; it extends `PartitionTable` |
| `FlashBoardProofs` | the partition arithmetic, the inductive invariants of FlashBoard and the theorems |
| `Feedback` | what a command says, and what of it reaches the user |
| `CommandLine` | arguments, serial numbers, indexes as a command sees them, and how it ends; it extends `Feedback` and `Numerals` |
| `Drivers`, `Wizard` | the drivers of Windows; the wizard page by page; both extend `CommandLine` |
| `FlashCommand` | the flash command over `Drivers` and `Wizard`, down to the boards |
| `Commands`, `MCCommands` | all commands, their specification and properties |
| `CommandsProofs` | the phases of the commands, their inductive invariants and the theorems |

### ImageCache

Every call is an actor (a *storer*, *reader* or *clearer*), and actors
interleave at every file system operation, as goroutines of one daemon or as
different processes; the code coordinates both in the same way, through files.

A directory has a name and an identity. `at[n]` is the directory the name `n`
refers to, `file[d]` what the directory `d` holds: an archive and a `meta.json`,
each absent, good or bad (a bad archive has the wrong checksum, bad metadata does
not decode or does not match the release). Two identities matter because an open
handle keeps one through a rename: a Clear that opened a staging directory keeps
unlinking its files after Store renamed it under the key. Staging directories
are private to their storer, so the storer names its own.

`RemoveAll` is modelled as it works on POSIX systems: open the directory, read
its names, unlink them one by one, `rmdir` by name, which fails if the directory
now at that name is not empty. That is what `RemoveAllStep` and `RemoveAllEnd`
are, shared by Clear, by the removal of an unusable entry, and by the deferred
removal of the staging directory.

| code | actions |
|---|---|
| `Lookup` (cache.go:72) | `Begin`, `ReadMetadata`, `VerifyEntry`; the second Lookup of Store is `ReadMetadata`, `VerifyEntry` in the phases `relookup`, `reverify` |
| `Store` (cache.go:111) | `MakeStaging`, `StartDownload`, `FinishDownload`, `CheckStaging`, `WriteMetadata`, then the lock, `RemoveOld`, `Publish` |
| `lockPublication` (publication_lock.go:25) | `OpenLockFile`, `Acquire`; a round of the polling loop that finds the lock taken changes nothing |
| deferred `Close`, `RemoveAll` (cache.go:165, 131) | `Unlock`, `Cleanup`, in that order, on every return |
| every `ctx.Err()` check and failing operation | `Interrupt`, which takes the error path of the phase |
| death of the process | `Crash`: the lock is released, everything on disk stays |
| the caller opens the path (download_image.go:119, service_flash.go:154) | `Open` |
| `Clear` (clear.go:21) | `ClearList`, `ClearOpen`, `ClearUnlink`, `ClearRmdir`, `ClearDone`, `ClearStop` |

`lockFile[k]` is the file under `.locks` by the storer that created it, and
`owner` is the flock of each such *file*, so that a lock file replaced under
waiters would break mutual exclusion in the model as it would in reality.

Abstractions, all on the side of more behaviour or of data nothing depends on:

* cancellation needs no variable, because it may arrive at any moment before the
  check that sees it: it is the same as that check failing;
* an entry holds exactly the two files Store writes; other files a user puts
  there would only make Clear fail with an error;
* the cache directory exists; the code treats a missing one as an empty one;
* the download callback is not trusted: it may return nil having written
  anything (the real one checks the checksum itself, Store checks it again);
* the deferred `RemoveAll` of the staging directory meets no I/O error. With
  one, the directory stays, which the code accepts (it ignores the result);
* nothing but these calls changes the files while they run. Whatever damage
  happened before is covered by the initial states: any of the contents in
  `Leftover` under any key;
* crashes and interruptions before the staging directory exists are the same as
  an error return, which is what the guard of `Crash` leaves out.

The history variable `disturbed` holds the requests that overlapped a Clear, or
the publication of a directory a Clear had emptied. The second half is needed,
and TLC found why: a Lookup reads `meta.json` and then the archive, by name. If
a Clear removes the entry between the two, and a storer that was itself disturbed
publishes in its place a directory with an archive but no metadata, the Lookup
succeeds on two different directories; the next storer finds that entry
unusable and removes it, before the reader opens the path it was promised.

### CacheContract

An entry is complete or unusable; a request waits, is promised a path, and
finds the image, or nothing if it was disturbed; it may miss only when the entry
is unusable. Entries get lost only while a Clear runs. `ImageCache` implements
it under the mapping `Contract`: an entry is complete when its directory holds
matching metadata and a matching archive.

### CacheInventory

List takes no lock either. `InventoryNext` interleaves its steps with those of
`ImageCache`, of which it changes nothing: `ListOpen` reads the names,
`ReadEntry` and `SizeArchive` are the two halves of `readEntry`, between which
the directory under the name may become another one; `StartWalk`,
`WalkDirectory`, `WalkFile` are WalkDir, which reads the root again and includes
staging directories; `Show` is what the listings do with the result. A damaged
archive may still have the size its metadata states, which List cannot tell
(`SizeMatches` is then either). Metadata is taken to be as Store writes it, or
unusable for Lookup and List alike; their checks differ in `downloaded_at` and
`size`, which Lookup does not read. Of the total, `owed` keeps what a property
needs: the files that stayed where they are and are not in it yet. The history
variables follow the other calls in `Watch`.

### FlashService

One request, from the checked arguments to its answer. The handler is a sequence
of steps, each an action; beside it run the client, which may leave
(`Disconnect`) at any time, the cache that others clear (`CacheChanges`), the qdl
process and, while it lives, the goroutine that passes its output on
(`OutputLine`).

Every message is sent in the steps the code takes: wait for the mutex of
`SynchronizedSender` (`LockSender`), look at the cause of the context
(`CheckCause`), call Send, which succeeds, fails or fails when the stream ends
(`Deliver`, `FailSend`), and unlock (`FinishSend`). A failed Send becomes the
cause that cancels the context (`SendErrorKept`). Callbacks drop the error of
their Send; the handler finds it as the cause at its next check
(`ReturnCauseOr`). Between the last check (`Confirm`) and the answer the handler
runs qdl twice (`RunQdl`): to read the table, and to flash. A process is killed
when the context is done (`KillQdl`), and Wait returns when it is dead and its
output has been copied (`Joined`, `QdlDone`).

`sent` is the conversation the client saw; `board`, `scratch` and `broken` say
what became of the board, the private directory and the stream. What FlashBoard
decides between the two runs of qdl is only its possible failure here
(`PlanFlash`); `FlashBoard` models it.

### Versions and Registry

A version is a sequence of parts and a part a sequence of digits. `PadVersion`
widens and joins them as the code does, `TextBefore` is the comparison of
strings, `NumberedBefore` the reference. TLC compares them on all pairs of
bounded versions (`OrderIsNumeric` in `MCRegistry`), for small bounds; the theorem
holds for any. Loops that filter a list or look for its first element are `Kept` and
`FirstOf` the places that qualify, which say the outcome and can be reasoned about
without following the loop.

`Registry` reads one index after the other (`Load`); each is missing, fails or
holds releases, of which `Parse` keeps the usable ones, sorted. `Merge` sorts
the snapshot again and flags the latest of every line. Then one of
`Resolve` (the flash and download commands, the Flash request), `List` (the List
request and the command), `Wizard`, or the form of the download command uses it.
The latter reads the indexes twice: `Choose` picks an image of the first snapshot,
`FetchAgain` reads the indexes again, of which one may fail or hold more by then,
and `Download` resolves the choice in the second snapshot. The sort is a stable one
(`Place`), since `byVersion` returns the first of equal versions and so the
index that comes first decides. The reference the properties compare with is
`Published`: the usable releases in the order in which the indexes list them.
Names of distributions are taken to be in lower case, where the code folds case.

### PartitionTable and FlashBoard

A table has its last sector, the room it says it has for entries, and entries up
to the first unused one. `Find` returns the zero partition when there is none of
that name, as the code does. All sizes are computed modulo `Word`.

A call of FlashBoard goes through `Begin`, `ReadBoard`, `TakeTable`, `Undump`,
then one of `Refuse`, `Preserve`, `Ask`, `Size`, then perhaps `WriteTable` and
`WriteProgram`, and `Load`, `Flash`, `Finish`. `dump`, `gptFile` and `progFile`
are the three files it makes at fixed names in the image directory, which for a
local image is the user's own. `made[c]` are the files whose deferred removal the
call has registered: a file that failed to be written is not among them, and the
directory is recorded as spoiled. `device[b]` is a board: its table, where the
root was written, where the user's data begin (`Lost` after a full flash that
failed), and whether the last flash was finished. What qdl does is external:
it writes the table the raw program names, grows the user partition to the
end of the disk (patch0.xml), writes the root where the program says, and the user
data if the program has them; if it fails it has done any part of that.

Environment: two calls that run at once are for different boards; the root sizes
asked for are at least `MinRootSize`, which the command and the wizard check; qdl
does not succeed without writing dump.bin where an earlier one is left. What images
and boards look like are the assumptions `ImagesType`, `TablesType` and `SizesType`: an image has
a root and a user partition that follows it, its programs write the root where its
table says, and that for keeping data writes no user partition; all images, and
all boards but those of an R0 image, start the root at one sector, low enough that no
size makes it wrap; sizes are whole sectors, the floor is respected by images and by boards,
and a board whose table is read is at least 3 GiB. The code checks none of it: an image laid
out in another way would put the user's data out of reach (flasher.go:166). `Label` is the set of the
names partitions have. `SharedDirs` lets running calls share a directory;
it is off in `board_flashes`, and `board_shared_dir` shows what happens with it.

### Feedback, CommandLine, Drivers, Wizard, FlashCommand, Commands

One process of the command line, from its arguments to its end, against a user
who answers anything or interrupts at any moment, a cache another process
clears, indexes that fail, and disks that fill.

| code | definitions |
|---|---|
| `feedback` (feedback.go, stdio.go) | `io`, and the operators `Say`, `Warn`, `ShowResult`, `Fatal`, `HasStreams` on it; `said` is history |
| `PersistentPreRun` (main.go:38) | `PersistentPreRun` |
| `LegacyArgs` (argparse.go:27) | `LegacyArgs`, `Conflict`, `Translated` |
| `serial.Parse`, `Decimal`, `appendBoardSerial` | `Parse`, `Normal`, `Selected` |
| `checkDriversInstalled`, `InstallDrivers` (flash.go:125, drivers_windows.go:33) | `InstallDirectly`, or `MakeLogFile`, `RunElevated`, `PrintDriverLog` |
| `interactive.Run` (interactive.go:32) | `StartWizard`, `PickBoard`, `OpenForm`, `TurnPage`, `AbortForm`, `Confirm`, then `TakeForm` |
| `runFlashCommand` (flash.go:187) | `CheckArguments`, `Translate`, `Resolve`, `Ask`, `Answer`, `Unwind` |
| `DownloadAndFlash`, `FlashImage`, `downloadAndExtract` | `Prepare`, `LookupCache`, `CheckFreeSpace`, `Download`, `ExtractImage` |
| `FlashBoard` | `InstallQdl`, `CheckSupport`, `ReadBoard`, `Decide`, `AnswerAgain`, `OpenStreams`, `RunQdl`; the deferred calls in `Unwind` |
| `runDownloadCommand`, `SelectImage` | `StartDownload`, `AskWhich`, `SelectImage`, `ResolveDownload`, `SaveImage` |
| `list`, `cache list`, `cache clear`, `version`, `daemon` | `ListImages`, `ListCache`, `ClearAll`, `TellVersion`, `Listen`, `Serve` |
| `InterruptableContext` (main.go:62) | `Interrupt`, which cancels the context, and `Kill`, the interrupt after it |

`args` is the command line. A word of it is a model value; `OnDisk` says which
words are also the name of a file or a directory, so that a file may be called as
a board or a version is. A serial number keeps its digits, because the notation
decides its value: what is no decimal number, or does not fit in 63 bits (`MaxSerial`)
as one, is read as a hexadecimal one, and is an error if it does not fit either. Signs
are left out: no board has a negative serial number. `form` is what the wizard offers and what was filled in, which
outlives the page it was typed on. `job` is what FlashBoard is called with; `temp`
the temporary directories there are; `log` that of the drivers; `device[d]` the
image on board `d` and whether the user's data are still there. `consent`, `early`
and `said` are history.

Abstractions:

* the indexes do not change while a command runs; each reading of them (`Snapshots`)
  may miss any of it and then has failed. What grows between two readings, and the
  distributions of a board, are in `Registry`: here a board has one;
* what FlashBoard makes of the tables is a choice here (`Decide`), and its
  arithmetic and files are in `FlashBoard`; Store, Lookup and Clear are one step
  each, `ImageCache` has their interleavings;
* what a command says is a name for it; JSON and its minified form are one format;
* the free space changes through the command alone, and an archive and what is in
  it take no more than `ArchiveSize` and `ImageSize` GiB. The space check is in
  whole GiB, as in the code;
* `--os` is left out with the distributions; cobra's own errors are left out;
* pages of the wizard are left valid, forwards and back, as the form library does
  it; what it does with the keys is external (`TurnPage`).

## Runs

`CHECK_DEADLOCK FALSE` in all of them: calls are made once, and the system stops
when all have returned.

| run | instance | shows |
|---|---|---|
| `cache_race` | 1 release, 2 storers, 1 reader, 1 Clear, an entry of which at most one file was damaged or lost | all safety properties of the cache, what a successful Clear has done, and `CompleteKept`, with every interleaving of publication, reuse and removal |
| `cache_finish` | 1 release, 2 storers, 1 Clear, fairness | every request finishes; refinement of the contract, publication racing with publication |
| `cache_inventory` | 2 releases, one of them only a leftover, 1 storer, 1 Clear, 1 List, leftovers complete or with a damaged archive | that an inventory has what stayed, marks what can be used, and never fails because of the others |
| `cache_published_together` | 1 storer, 1 Clear | *violated*: see Findings |
| `cache_path_is_directory` | 1 storer, 1 Clear | *violated*: see Findings |
| `flash_service` | one request, all failures, fairness | what the client is told, what becomes of the board and of the scratch directory, that nothing is sent once the stream failed or the handler returned, and that a request whose client is lost ends, although nothing makes qdl end by itself |
| `registry_two` | 2 indexes of up to 2 of 7 releases; for the order, versions of up to 2 parts of up to 2 digits of 0, 1, 9 | all properties of the snapshot and of what is answered from it |
| `registry_nothing` | the same | *violated*: see Findings |
| `board_flashes` | 2 calls, 3 boards (16 GB, 32 GB, one that cannot be sized), 2 images | the user's data, the root and the image directory through any two flashes |
| `board_default` | 1 call | *violated*: see Findings |
| `board_shared_dir` | 2 calls | *violated*: see Findings |
| `commands` | about 160 command lines, 4 contents of the indexes, 3 states of two disks, 2 boards whose serial numbers are 16 and 22, of which 0x16 is the other notation, none greater than 99, 2 versions, 2 kinds of boards of which one can keep data, fairness | that what is flashed or downloaded is what was meant, where it was meant; consent; the wizard's promise; temporary directories; space; interrupts; output |

Why this is enough: the calls interact only through one key's directory, its
lock and the staging directories, and releases only through the list of a Clear
or of a List. A second Clear would do to the first what a publisher does that
removes an unusable entry: take files and directories from under its `RemoveAll`.
Two storers give one waiter and one holder; the interesting third party is a
reader or a Clear, and each of them is there. The theorems below do not depend
on these numbers. Storers of one release are interchangeable, which `cache_race`
uses as a symmetry; it is not used where liveness is checked.

Two indexes of two releases have every case of the merge: equal and different
versions, in one index and across both, of one line and of several, beside an
entry that is passed over. For versions, `Width` 2 has parts that are widened,
full and empty, and 9 against 10 and 19. For `board_flashes` the second call
meets whatever the first left: on a board of its own table, a resized one, one
of an R0 image, one whose flash was cut short. Units are small there: a sector
has 2 bytes and a GiB 8, so all sizes keep their proportions (16 GB is 119), and
`Word` is 65536, far from any size but a negative one, as 2^64 is.

For `commands`, the command lines are chosen per question: all combinations of
words for the deprecated arguments, of consent, preservation, size and format,
of serial notations (among them one that fits in no notation), of places for archives. One command at a time runs; what two
processes do to each other is in `ImageCache` and `FlashBoard`. Of the
percentages, one is valid for both variants, one too low and one too high for that of
16 GB alone, and one too high for both. Of the disks, one has room for an
extraction and not for a download beside it.

Fairness of `Commands`: weak fairness of the steps of the command, except while it waits for
the user or serves; so a program that has something to do goes on. A form leaves when
its context is cancelled; a question read by `fmt.Scanf` and the daemon do not, which
is why `InterruptEnds` excepts them. qdl ends by itself only if a board is selected.

Fairness of `FlashService`: weak fairness of the handler's steps, of the kill
that follows the end of the context, and of the return of Send once the stream is
over. Nothing is assumed about qdl, which waits for a board as long as it takes,
nor that a Send to a client that is there but does not read ever returns.

Fairness of `ImageCache` (`FairSpec`): weak fairness of `Progress(r)` for each request, that is,
the operating system runs every live process; a waiter polls every 25 ms, so it
does find a lock that stays free, and since every request takes and releases the
lock once, weak fairness is enough although flock promises no order. Nothing is
assumed about crashes, interruptions or Clears.

## What is proved

The theorems hold for every value of the constants under the named assumptions of the
modules, which TLC evaluates in the runs. Every invariant and every action property
of a passing run, and the refinement, is among them.

### The cache

For any sets of releases, storers, readers, clearers and lists and any leftovers,
from `RolesAreDisjoint`, `NoneIsNoName`, `KeyOfType` and `LeftoverType`:

| theorem | property | module |
|---|---|---|
| `TypeCorrect` | `TypeOK` | `ImageCacheProofs` |
| `PublishersExclude` | `MutualExclusion` | |
| `StagingIsRemoved` | `NoStagingLeft` | |
| `RenameIsFree` | `RenameTargetFree` | |
| `VerifiedIsServed` | `ServedIsVerified` | |
| `UnusableIsRemoved` | `OnlyUnusableRemoved` | |
| `EntriesAreKept` | `CompleteKept` | |
| `ListedIsRemoved` | `ClearRemovesListed` | |
| `UndisturbedServed` | `UndisturbedIsServed` | `CacheContractProofs` |
| `ContractImplemented` | `ImplementsContract` | |
| `StayedListed` | `StayedIsListed` | `CacheInventoryProofs` |
| `MarkedUsable` | `MarkedIsUsable` | |

None of these is inductive by itself. The argument has four layers, whose
conjunction is `IInv`:

1. `LockInv`: whoever waits for or holds the lock of a key has *the* lock file of
   that key open, because nothing replaces it; a holder owns its flock. Two
   holders would own one flock.
2. `DirInv`: a staging directory is under its own name until it is published; a
   key names its leftover or the directory of a storer of that key that is past
   publication (`PlaceInv`); a publisher that is removing an entry has open what
   is under the key, with every file of it still to unlink (`RemovalInv`). With
   mutual exclusion nobody puts another directory under the key between the
   removal and the rename.
3. `ContentInv`: nothing published, or verified and not yet published, holds a
   wrong archive, and what is promised is not wrong. It survives Clear because
   unlinking turns good files into absent ones and never into wrong ones, and
   survives publication because the entry being replaced is unusable.
4. `AimInv`: every entry a Clear found is empty or still awaits it, with all its
   files on the Clear's list if it has the directory open; published
   directories are written no more.

`RequestStep` and `ClearerStep` say once what any step of a request or of a Clear
does to the keys, and carry the last two theorems of the first module.

On top of `IInv`, `ServeInv` is about the requests that are not disturbed: what they
wrote or verified is where they left it, and the two files a Lookup reads are of one
entry. It needs that a Clear at work disturbs every active request, and that publishing
leaves the complete entries of the others alone (`EntriesStay`). The refinement then
maps each action of `ImageCache` to an action of the contract or to none: the
answer of the phase before a return is the contract's answer (`Goes`), unlinking a file
of an entry is a loss, anything else leaves `Contract!vars` as they are.

`ListInv` of the inventory says that what stayed is still ahead of the walk (`AheadInv`),
that a call fails only if it was hurt (`HurtInv`), and that without a Clear no archive is
read beside the metadata of another publication (`CalmInv`).

### The registry

`RegistryProofs`, for any number of indexes of any length, any labels, distributions,
archives and versions, from `IndexesType`, `BoardOfType`, `DefaultOsType`,
`VersionType`, `AnswersType`, `WidthType` and `BoundsType`. The order is proved of
versions of any number of parts, made of any digits, no part wider than `Width`; the other
theorems do not even need that bound:

| theorem | property |
|---|---|
| `OrderIsNumericHolds` | `OrderIsNumeric` |
| `FailureIsContainedHolds` | `FailureIsContained` |
| `LatestIsNewestHolds` | `LatestIsNewest` |
| `ResolvedIsPublishedHolds` | `ResolvedIsPublished` |
| `ListIsCompleteHolds` | `ListIsComplete` |
| `ChosenIsDownloadedHolds` | `ChosenIsDownloaded` |

The order first. The comparison of texts is a strict order in which any two different
texts compare (`TextIrreflexive`, `TextTransitive`, `TextTotal`), so `Older` is one of
releases, up to equal texts (`OlderIsOrder`); that is all the sort needs. That it is the
right order is `PaddedOrderIsNumeric`: padded parts have one width, so a text is
compared part by part (`TextsCompare`, `TextGoesOn`), and of parts of one width the one
with the smaller digit where they first differ spells the smaller number
(`PartsCompare`, `NumbersCompare`).

Then the data. `Rearranged(t, s)` says that one sequence has the elements of another, up
to the flag, each as often, and those of one version in the same order;
sorting is one (`SortedRearranges`), so is flagging, and they pass through `\o` and
through the joining of all answers (`JoinedRearranges`, `FlattenRearranges`). So the
snapshot is a rearrangement of `Published`, whatever the indexes. From a
rearrangement follow how often a release occurs (`OccursAsOften`), and which
is the first of its version (`ByVersionIsFirst`): the two facts behind the theorems.

`IInv` has four parts: `ReadOf` (what was read so far, with its errors, is what the
answers so far publish), `SnapshotOf` (after the merge it is also sorted and flagged),
`ChosenAsked` (what the user picked was in a snapshot, and the request is what its row
says) and `Answered` (what an answer is of the snapshot it was given from). Only the
last needs the third, since a download reads the indexes again.

`SequenceLemmas` does what the induction theorems of the library would: they take a
predicate as a parameter, which the provers cannot instantiate. `Least` (a set of
naturals has a least element, from the well-foundedness of the order) and `Inductive`
are about sets instead, so a statement about every length becomes one about the set of
lengths of which it holds. Recursive functions (`Value`, `Digits`, the library's
`FlattenSeq`) are shown to exist in this way and then used through what one step of
them does (`Reads`, `Joins`).

### The Flash request

`FlashServiceProofs`, for any number of progress messages (`MaxUpdatesType`):

| theorem | property |
|---|---|
| `TypeCorrect` | `TypeOK` |
| `StreamLeftAlone` | `StreamIsLeftAlone` |
| `EarlyLossSpared` | `EarlyLossSparesBoard` |
| `ScratchKept` | `ScratchOutlivesWork` |
| `SuccessTrue` | `SuccessIsTrue` |
| `ConversationKept` | `Conversation` |

The invariant has a conjunct per question: `ThreadInv` (what a thread may be sending in
which phase; a failed Send has ended the context before the mutex was free), `BoardInv`
(in which phases qdl runs and the board is written; a context that ended before them
keeps the handler out), `ScratchInv`, `AnswerInv` (an answer is the last message, or
there is an error), `OrderInv` (which words may have been said before a phase) and
`TellInv` (what a phase owes the client was said, is being said, or cannot be).
`HandlerEffect` says what any step of the handler does; the six step lemmas rest on it.

### Flashing a board

`FlashBoardProofs`, for any number of calls, boards, images, tables and sizes, from
`WordType`, `LabelType`, `RootSizesType`, `BoardsType`, `VariantsType`, `ImagesType`,
`TablesType` and, for the last one, `SizesType`:

| theorem | property | assuming also |
|---|---|---|
| `TypeCorrect` | `TypeOK` | |
| `DirectoryTidy` | `DirectoryIsTidy` | |
| `AskedKept` | `AskedToKeep` | `~SharedDirs` |
| `TableMatches` | `TableMatchesProgram` | `~SharedDirs` |
| `DataReachable` | `DataIsReachable` | `~SharedDirs` |
| `RootAsAsked` | `RootIsAsAsked` | `~SharedDirs` |

Lemmas on tables come first: what `Find` finds after `Put`, that `Resized` leaves the
root in its place and puts the user partition where `Moved` puts the data
(`ResizedAligned`), that growing moves neither, and that the size of a partition,
computed with wrapping, divides back to its sectors (`AlignedSize`). The invariant
`BoardInv` is then `OwnInv` (calls that run have boards, and directories if not shared,
of their own), `PlanInv` (what is loaded, or will be, is what the image ships for
what was asked, or that moved by `size`, beside the table resized by `size`), `KnownInv`
(the table a call has read is still that of its board, and a root that is kept has
the size of the board's), `SoundInv` (the data are where the table has them) and
`WipedInv` (who wrote over data has returned, with consent if it was to keep them). The
two halves of each step are the call itself (`PlanStep`, `KnownStep`) and the others
(`PlanElsewhere`, `KnownElsewhere`), which is where `~SharedDirs` is used, and needed: the
finding below is its failure. `TidyInv` alone carries `DirectoryTidy`: whatever lies in
a directory that was not spoiled will be removed by a call that runs.

`SizeInv`, relative to `BoardInv`, is for the last theorem: the size a call has chosen is
the one it was asked for (`Meant`), a root of that size is flashed exactly if it is not 0,
and what is on the board when the call returns has it (`Written`). `RoomBeside` is the
arithmetic of the check at flasher.go:155: what it reserves for the system covers what
precedes the root, if the difference does not wrap.

### The commands

For any boards, versions, releases, variants, files on the disk, connected boards and
command lines, from `NewestExists` (of finitely many versions one is the newest),
`CommandsType`, `PublishedType`, `TempType`, `RoomsType` and `SizesType` (what flash asks
for holds an archive and what is in it):

| theorem | property |
|---|---|
| `NothingTemporary` | `NothingTemporaryStays` |
| `RoomSuffices` | `RoomIsEnough` |
| `InterruptSpares` | `InterruptSparesBoard` |
| `NothingLost` | `NothingIsLost` |
| `Consented` | `ErasedWithConsent` |
| `WizardHonoured` | `WizardIsHonoured` |
| `WhatIsMeant` | `FlashedIsMeant` |

The last assumes also `UnoQType`, `WordsDiffer` (no name of a board is a version),
`SerialsType` and `MaxSerialType`.

`CommandsInv` is a conjunction of invariants with a step lemma each. `PhaseInv` says
which phase belongs to which command line; it rests on lemmas that say where a step
may lead (`FormMoves`, `FlashMoves`, `DownloadMoves`, ...), and makes the others
independent of the commands they are not about. `OutputInv` is an account of what was
said: shown or held back, and all shown once the process failed; `Later` relates the
output before and after a step. `TempInv`, `LogInv` and `RoomInv` follow what flash holds;
`SpareInv` says that nothing is written before qdl runs, which it does not do for an
archive whose extraction was interrupted. `ConsentInv` adds what `ErasedWithConsent` needs
while there is nothing erased yet: in text the question is on the screen when it is
answered, the work begins with what was asked for and agreed to, and only text gets as
far as qdl. `WizardInv` says why a size that was typed for another variant does not get
through: from a page before that of the size to one after it leads no way but where the
size is hidden, and then it does not count (`SizeIsPassed`, `PageStep`).

`MeantInv` follows what the command line means to the board. `WordsAreMeant` says it of
the translation of deprecated arguments, `Named` of what is to be resolved, and
`ResolvedIsMeant` of the release found: the newest of all that are published, or of those
that could be read with the user told of the rest, which is why the invariant relates it to
what was said. `SerialIsMeant` is the round trip of the serial number: `Decimal` writes
what was parsed, qdl gets the text, and the text is read as the same number, whatever
the notation given. It needs that `Value` reads back what `Digits` spells, and that a number which
does not fit as a decimal does not fit as a hexadecimal one either (`ValueGrows`): were it
otherwise, digits alone could be read as another board's number.

### Only model-checked

Liveness under fairness is beyond the prover: `RequestsFinish`, `AbandonedReturns`,
`InterruptEnds`. All other properties of the passing runs are theorems.

## Findings

* **Published together** (cache.go:108, `PublishedTogether`): the comment on
  `Store` says archive and metadata are published together. `Clear` takes no
  lock and removes the files of staging directories too; between verification and
  rename it makes `Store` publish an incomplete directory and return, without an
  error, a path where there is nothing. No wrong archive is served, and the next
  Store replaces the entry.
* **Path is directory** (http_client.go:83, `PathIsDirectory`): the staging
  directory can be gone before the download starts, and the check for it is an
  assertion that panics, which in the daemon ends the other requests too.
* **Wizard without images** (interactive.go:37, `WizardHasBoard`): when nothing is
  published, which Fetch documents as no releases and no error, the flash wizard
  indexes an empty list and panics. `SelectImage` has the check.
* **Default after refusal** (flasher.go:158, `DefaultIsApplied`): the full flash
  a user accepts when the data cannot be kept does not use the default root size.
* **Shared directory** (flasher.go:183, `AskedToKeep`): two flashes at once from
  one local image directory use each other's raw program, and the one asked to
  keep the user's data may write over them. With directories of their own, they cannot:
  `AskedKept`.

Noticed while modelling, and kept out of the runs:

* on a blank board the available space, an unsigned difference (flasher.go:155), wraps
  and admits any size; and if its data are to be kept it is not refused either, its
  root being taken to have one sector (flasher.go:169). `board_flashes` has no blank
  boards, and `RootIsAsAsked` fails with them;
* dump.bin is not removed before the board is read (flasher.go:359): its existence
  does not say that this call wrote it, which is why the model has to assume so;
* the wizard says that a blank size leaves the split to the image
  (interactive.go:393), while a 32 GB board gets the default of its variant
  (flasher.go:161);
* releases that name no distribution are offered under the empty name, which
  filters nothing, so that what follows is not "a single distribution"
  (interactive.go:56);
* an image that names no distribution is listed, but "a row reads back into the next
  command" (list.go:142) does not hold for it: the commands put the default
  distribution of the board in its place (download.go:97), as they do when it was
  picked in the form, and find another image or none. `ChosenIsDownloaded` is
  therefore about images that name one;
* List has the same window as Lookup: metadata of an entry that is about to be
  replaced and an archive that was published without its metadata, after a Clear
  had emptied the staging directory, make an entry that is marked as cached
  (inventory.go:148); `MarkedIsUsable` excludes such publications. Its total counts a
  file twice if its staging directory is renamed, over an entry that was there,
  between the two (inventory.go:80);
* the backup partition table of an image is flashed as it was shipped, whatever the
  root of the main one was resized to (parsegpt.go:172);
* the wizard takes `--cache` alone from the command line (flash.go:85,
  interactive.go:187): `flash --serial X` and `--temp-dir D` without a board are
  parsed and dropped, and with two boards connected qdl picks one. `FlashedIsMeant`
  therefore speaks of the serial number only where a board was named;
* `--yes`, "Automatically confirm all prompts" (flash.go:116), does not answer the
  second prompt, of data that cannot be kept (flasher.go:192);
* with `--format json` flash asks a question nobody sees, waits for the answer,
  downloads, extracts, and always fails where it wants the streams
  (flasher.go:272). `ErasedWithConsent` rests on that. The path a download is
  saved to and the update `version` has found are said and never shown, because
  no result follows them: `NothingIsLost` excepts successful commands that do not list;
* `download <path>` with a path that exists, a file or a directory, is translated
  as a deprecated image argument, whose image is dropped: the newest UNO Q image is
  downloaded (argparse.go:52, download.go:64); `--version` is ignored by `flash` when
  an image is given;
* Fatal exits without deferred calls: the drivers' log stays when installing them
  failed (flash.go:157); qdl's directory stays when it cannot be written
  (flasher.go:326); what the elevated child meets before it runs pnputil is not
  mirrored, so that only its exit code is told (drivers_windows.go:35-57);
* the space check asks for 12 GiB on the scratch disk also when `--cache` puts the
  archive on another one, which is not looked at (download_image.go:48);
* Ctrl-C at a question is seen after the answer: an archive is then not extracted,
  but an image that is a directory gets as far as starting qdl, which is then
  killed. The daemon ignores the first Ctrl-C;
* the wizard checks a percentage of the advertised capacity, while FlashBoard looks
  at the table of the board, which is smaller, and may refuse it after the download.

## Plan

1. Distributions and two snapshots in `Commands`, as far as they meet the
   wizard; the checks of the arguments of the Flash request.
2. Proofs: that the steps `Commands` makes of Store, of Fetch and of FlashBoard
   (`Download`, `Snapshots`, `Decide` and `RunQdl`) allow all that the detailed modules do.

### Not modelled

The generated rpc code and its three constructors of messages; tables, layout,
colours and translations; HTTP headers and the request of the update check; the
contents of archives and the qdl protocol (external); GetAvailableMemory, a
stateless query of a disk; the backup partition table and patch0.xml, whose effect
is outside the repository.
