----------------------------- MODULE ImageCache -----------------------------
(***************************************************************************)
(* The image cache of internal/cache: one directory per release identity,  *)
(* shared by every process of the user.  Storers call Store, readers call  *)
(* Lookup, clearers call Clear; each call is one actor of the model and    *)
(* interleaves with the others at every file system operation.             *)
(*                                                                         *)
(* A directory has a NAME, which a rename changes, and an IDENTITY, which  *)
(* an open handle keeps.  Staging directories are private (MkdirTemp), so  *)
(* the storer itself stands for the name and the identity of its own; the  *)
(* directory an earlier run left under a key is named by that key.         *)
(***************************************************************************)
EXTENDS FiniteSets

CONSTANTS
    Key,      \* release identities, the names entryDir derives
    Storer,   \* calls of Store
    Reader,   \* calls of Lookup whose result is opened by the caller
    Clearer,  \* calls of Clear
    KeyOf,    \* the release each Store or Lookup asks for
    Leftover, \* what a directory found under a key at the start may hold
    None      \* no directory, no file, nobody

Request == Storer \cup Reader
Actor   == Request \cup Clearer
Name    == Key \cup Storer
File    == {"archive", "meta"}
Content == {"none", "bad", "good"}

ASSUME RolesAreDisjoint ==
    /\ Key \cap (Request \cup Clearer) = {}
    /\ Storer \cap Reader = {}
    /\ Request \cap Clearer = {}
ASSUME NoneIsNoName == None \notin Name
ASSUME KeyOfType == KeyOf \in [Request -> Key]
ASSUME LeftoverType == Leftover \subseteq [File -> Content]

VARIABLES
    at,         \* at[n]: the directory named n in the cache, or None
    file,       \* file[d][f]: what directory d holds as its archive and meta.json
    lockFile,   \* lockFile[k]: the file .locks/<k>.publish.lock, by its creator
    opened,     \* opened[r]: the lock file r has open
    owner,      \* owner[l]: the storer holding the flock of lock file l
    pc,         \* how far each request has come
    ret,        \* what Store or Lookup is going to return
    got,        \* what the caller found at the path it was given
    rmDir,      \* rmDir[a]: the directory a's RemoveAll has open
    rmTodo,     \* rmTodo[a]: the files it read there and has still to unlink
    cpc,        \* how far each Clear has come
    list,       \* list[c]: the names c has still to remove
    cur,        \* cur[c]: the name c is removing
    aim,        \* history: the entries c found when it listed the cache
    disturbed   \* history: requests that overlapped a Clear, or the publication of
                \* a directory that a Clear had emptied

dirVars   == <<at, file>>
lockVars  == <<lockFile, opened, owner>>
callVars  == <<pc, ret, got>>
rmVars    == <<rmDir, rmTodo>>
clearVars == <<cpc, list, cur, aim>>
vars      == <<dirVars, lockVars, callVars, rmVars, clearVars, disturbed>>

Finished == {"reading", "missed", "failed", "dead"}

\* Everything between taking the publication lock and closing it.
Holding == {"relookup", "reverify", "remove", "publish", "unlock"}

\* Before MkdirTemp a request has nothing on disk.
Early == {"lookup", "verify", "stage"}

Phase == {"idle", "download", "fetch", "check", "describe", "lockfile", "acquire",
          "cleanup", "answer"}
         \cup Early \cup Holding \cup Finished

Active(r) == pc[r] \notin Finished \cup {"idle"}
Running   == {r \in Request : Active(r)}
Sweeping  == \E c \in Clearer : cpc[c] = "sweep"

Files(d)     == {f \in File : file[d][f] # "none"}
Contents(n)  == IF at[n] = None THEN {} ELSE Files(at[n])
Removable(n) == Contents(n) = {}
Has(n, f)    == at[n] # None /\ file[at[n]][f] = "good"

\* A complete entry: what Lookup accepts.
Complete(n) == Has(n, "meta") /\ Has(n, "archive")

-----------------------------------------------------------------------------
(***************************************************************************)
(* A cache directory that exists and holds whatever earlier runs, older    *)
(* versions or a damaged disk left under each key.  No call has begun.     *)
(***************************************************************************)
Empty == [f \in File |-> "none"]

Init ==
    /\ at \in [Name -> Name \cup {None}]
    /\ \A s \in Storer : at[s] = None
    /\ \A k \in Key : at[k] \in {k, None}
    /\ file \in [Name -> Leftover \cup {Empty}]
    /\ \A n \in Name : IF at[n] = None THEN file[n] = Empty ELSE file[n] \in Leftover
    /\ lockFile = [k \in Key |-> None]
    /\ opened = [r \in Storer |-> None]
    /\ owner = [l \in Storer |-> None]
    /\ pc = [r \in Request |-> "idle"]
    /\ ret = [r \in Request |-> "none"]
    /\ got = [r \in Request |-> "none"]
    /\ rmDir = [a \in Actor |-> None]
    /\ rmTodo = [a \in Actor |-> {}]
    /\ cpc = [c \in Clearer |-> "idle"]
    /\ list = [c \in Clearer |-> {}]
    /\ cur = [c \in Clearer |-> None]
    /\ aim = [c \in Clearer |-> {}]
    /\ disturbed = {}

-----------------------------------------------------------------------------
(* Shared steps of a request.                                              *)

Goto(r, phase) == pc' = [pc EXCEPT ![r] = phase]

\* (Mutant: the names left to unlink outlive the removal.)
CloseDirectory(a) == rmDir' = [rmDir EXCEPT ![a] = None] /\ UNCHANGED rmTodo
StopRemoval(a) ==
    /\ rmDir' = [rmDir EXCEPT ![a] = None]
    /\ rmTodo' = [rmTodo EXCEPT ![a] = {}]

\* Where an error return leads: the deferred calls of Store still have to run,
\* Close of the lock first, then RemoveAll of the staging directory.
\* (Mutant: the error path of Store leaves its staging directory behind.)
ErrorPathKeepsStaging(r) ==
    IF pc[r] \in Holding THEN "unlock" ELSE "failed"
ErrorPath(r) ==
    IF pc[r] \in Early THEN "failed"
    ELSE IF pc[r] \in Holding THEN "unlock" ELSE "cleanup"

Fail(r) ==
    /\ Goto(r, ErrorPath(r))
    /\ ret' = [ret EXCEPT ![r] = "error"]
    /\ StopRemoval(r)
    /\ opened' = [l \in Storer |-> IF l = r /\ pc[r] = "acquire" THEN None ELSE opened[l]]
    /\ UNCHANGED <<dirVars, lockFile, owner, got, clearVars, disturbed>>

\* RemoveAll(n) by actor a, as package os does it: open the directory, read
\* its names, unlink them one at a time, then rmdir by name.  Only the last
\* step looks the name up again, and fails if the directory it finds there
\* is not empty.
RemoveAllStep(a, n) ==
    \/ /\ rmDir[a] = None
       /\ at[n] # None
       /\ rmDir' = [rmDir EXCEPT ![a] = at[n]]
       /\ rmTodo' = [rmTodo EXCEPT ![a] = Contents(n)]
       /\ UNCHANGED dirVars
    \/ \E f \in rmTodo[a] :
         /\ file' = [file EXCEPT ![rmDir[a]][f] = "none"]
         /\ rmTodo' = [rmTodo EXCEPT ![a] = @ \ {f}]
         /\ UNCHANGED <<at, rmDir>>

RemoveAllEnd(a, n) ==
    /\ rmTodo[a] = {}
    /\ rmDir[a] # None \/ at[n] = None
    /\ rmDir' = [rmDir EXCEPT ![a] = None]
    /\ at' = [at EXCEPT ![n] = IF Removable(n) THEN None ELSE @]
    /\ UNCHANGED <<file, rmTodo>>

-----------------------------------------------------------------------------
(* Lookup: on its own for a reader, twice inside Store for a storer.       *)

Begin(r) ==
    /\ pc[r] = "idle"
    /\ Goto(r, "lookup")
    /\ disturbed' = IF Sweeping THEN disturbed \cup {r} ELSE disturbed
    /\ UNCHANGED <<dirVars, lockVars, ret, got, rmVars, clearVars>>

Locked(r) == pc[r] \in Holding

AfterMiss(r) ==
    IF Locked(r) THEN "remove" ELSE IF r \in Storer THEN "stage" ELSE "missed"

ReadMetadata(r) ==
    /\ pc[r] \in {"lookup", "relookup"}
    /\ Goto(r, IF ~Has(KeyOf[r], "meta") THEN AfterMiss(r)
               ELSE IF Locked(r) THEN "reverify" ELSE "verify")
    /\ UNCHANGED <<dirVars, lockVars, ret, got, rmVars, clearVars, disturbed>>

ArchiveGone(n) == "archive" \notin Contents(n)

\* (Mutant: an archive that exists is accepted without hashing it.)
VerifiedWithoutHashing(n) == ~ArchiveGone(n)
Verified(n) == Has(n, "archive")

VerifyEntry(r) ==
    /\ pc[r] \in {"verify", "reverify"}
    /\ IF Verified(KeyOf[r])
       THEN /\ Goto(r, IF Locked(r) THEN "unlock" ELSE "answer")
            /\ ret' = [ret EXCEPT ![r] = "path"]
       ELSE Goto(r, AfterMiss(r)) /\ UNCHANGED ret
    /\ UNCHANGED <<dirVars, lockVars, got, rmVars, clearVars, disturbed>>

-----------------------------------------------------------------------------
(* Store: staging, download, verification, metadata.                       *)

MakeStaging(r) ==
    /\ pc[r] = "stage"
    /\ at' = [at EXCEPT ![r] = r]
    /\ Goto(r, "download")
    /\ UNCHANGED <<file, lockVars, ret, got, rmVars, clearVars, disturbed>>

\* DownloadFile asserts that the directory exists, and panics when it does not.
StartDownload(r) ==
    /\ pc[r] = "download"
    /\ IF at[r] # None
       THEN file' = [file EXCEPT ![r]["archive"] = "bad"] /\ Goto(r, "fetch")
       ELSE UNCHANGED file /\ Goto(r, "dead")
    /\ UNCHANGED <<at, lockVars, ret, got, rmVars, clearVars, disturbed>>

\* The callback returns nil.  Store does not trust it to have written the
\* right bytes; bytes written to an unlinked file are in no directory.
FinishDownload(r) ==
    /\ pc[r] = "fetch"
    /\ \E content \in {"bad", "good"} :
         file' = [file EXCEPT ![r]["archive"] = IF @ = "none" THEN @ ELSE content]
    /\ Goto(r, "check")
    /\ UNCHANGED <<at, lockVars, ret, got, rmVars, clearVars, disturbed>>

CheckStaging(r) ==
    /\ pc[r] = "check"
    /\ IF Verified(r)
       THEN /\ Goto(r, "describe")
            /\ UNCHANGED <<dirVars, lockVars, ret, got, rmVars, clearVars, disturbed>>
       ELSE Fail(r)

WriteMetadata(r) ==
    /\ pc[r] = "describe"
    /\ IF at[r] # None
       THEN /\ file' = [file EXCEPT ![r]["meta"] = "good"]
            /\ Goto(r, "lockfile")
            /\ UNCHANGED <<at, lockVars, ret, got, rmVars, clearVars, disturbed>>
       ELSE Fail(r)

-----------------------------------------------------------------------------
(* Store: publication.                                                     *)

\* O_CREATE: the first publisher of a key creates its lock file.
OpenLockFile(r) ==
    /\ pc[r] = "lockfile"
    /\ LET k == KeyOf[r]
           l == IF lockFile[k] = None THEN r ELSE lockFile[k]
       IN  /\ lockFile' = [lockFile EXCEPT ![k] = l]
           /\ opened' = [opened EXCEPT ![r] = l]
    /\ Goto(r, "acquire")
    /\ UNCHANGED <<dirVars, owner, ret, got, rmVars, clearVars, disturbed>>

\* (Mutant: tryPublicationLock reports success whatever flock answered.)
LockAlwaysTaken(l) == TRUE
LockFree(l) == owner[l] = None

\* (Mutant: no second Lookup once the lock is held.)
RemoveAtOnce(r) == Goto(r, "remove")
LookAgain(r) == Goto(r, "relookup")

\* A round of the polling loop that finds the lock free; a round that finds it
\* taken changes nothing.
Acquire(r) ==
    /\ pc[r] = "acquire"
    /\ LockFree(opened[r])
    /\ owner' = [owner EXCEPT ![opened[r]] = r]
    /\ LookAgain(r)
    /\ UNCHANGED <<dirVars, lockFile, opened, ret, got, rmVars, clearVars, disturbed>>

\* (Mutant: the unusable entry is left in place for the rename to meet.)
RenameOver(r) ==
    /\ pc[r] = "remove"
    /\ Goto(r, "publish")
    /\ UNCHANGED <<dirVars, lockVars, ret, got, rmVars, clearVars, disturbed>>

RemoveOld(r) ==
    /\ pc[r] = "remove"
    /\ \/ RemoveAllStep(r, KeyOf[r]) /\ UNCHANGED pc
       \/ RemoveAllEnd(r, KeyOf[r]) /\ Goto(r, "publish")
    /\ UNCHANGED <<lockVars, ret, got, clearVars, disturbed>>

\* rename(2) replaces an empty directory, and refuses a target that is not
\* empty and a source that is gone.
Publish(r) ==
    /\ pc[r] = "publish"
    /\ IF at[r] # None /\ Removable(KeyOf[r])
       THEN /\ at' = [at EXCEPT ![KeyOf[r]] = r, ![r] = None]
            /\ ret' = [ret EXCEPT ![r] = "path"]
            /\ disturbed' = IF Complete(r) THEN disturbed ELSE disturbed \cup Running
            /\ Goto(r, "unlock")
            /\ UNCHANGED <<file, lockVars, got, rmVars, clearVars>>
       ELSE Fail(r)

\* Closing the file releases the flock, as the death of the process does.
\* (Mutant: the file is never closed.)
CloseForgotten(r) == UNCHANGED <<owner, opened>>
CloseLock(r) ==
    /\ owner' = [l \in Storer |-> IF owner[l] = r THEN None ELSE owner[l]]
    /\ opened' = [l \in Storer |-> IF l = r THEN None ELSE opened[l]]

Unlock(r) ==
    /\ pc[r] = "unlock"
    /\ CloseLock(r)
    /\ Goto(r, "cleanup")
    /\ UNCHANGED <<dirVars, lockFile, ret, got, rmVars, clearVars, disturbed>>

Cleanup(r) ==
    /\ pc[r] = "cleanup"
    /\ \/ RemoveAllStep(r, r) /\ UNCHANGED pc
       \/ RemoveAllEnd(r, r) /\ Goto(r, IF ret[r] = "path" THEN "answer" ELSE "failed")
    /\ UNCHANGED <<lockVars, ret, got, clearVars, disturbed>>

-----------------------------------------------------------------------------
(* The caller, the context and the process.                                *)

\* The caller opens the path it was given, to extract the archive.
Open(r) ==
    /\ pc[r] = "answer"
    /\ LET k == KeyOf[r]
       IN  IF ArchiveGone(k)
           THEN Goto(r, "failed") /\ got' = [got EXCEPT ![r] = "missing"]
           ELSE Goto(r, "reading") /\ got' = [got EXCEPT ![r] = file[at[k]]["archive"]]
    /\ UNCHANGED <<dirVars, lockVars, ret, rmVars, clearVars, disturbed>>

\* An operation of the file system or the network fails, or one of the checks
\* of the context finds it cancelled: both take the error path from wherever
\* the request is.  A cancellation needs no state of its own, since it may
\* arrive at any moment before the check that sees it.
Interrupt(r) ==
    /\ Active(r) /\ pc[r] \notin {"unlock", "cleanup", "answer"}
    /\ Fail(r)

\* The process dies.  Before staging, and for a reader, that is no different
\* from an error return.
Crash(r) ==
    /\ Active(r) /\ pc[r] \notin Early \cup {"answer"}
    /\ Goto(r, "dead")
    /\ ret' = [ret EXCEPT ![r] = "none"]
    /\ CloseLock(r)
    /\ StopRemoval(r)
    /\ UNCHANGED <<dirVars, lockFile, got, clearVars, disturbed>>

-----------------------------------------------------------------------------
(* Clear.                                                                  *)

ClearList(c) ==
    /\ cpc[c] = "idle"
    /\ cpc' = [cpc EXCEPT ![c] = "sweep"]
    /\ list' = [list EXCEPT ![c] = {n \in Name : at[n] # None}]
    /\ aim' = [aim EXCEPT ![c] = {at[k] : k \in Key} \ {None}]
    /\ disturbed' = disturbed \cup Running
    /\ UNCHANGED <<dirVars, lockVars, callVars, rmVars, cur>>

\* ReadDir sorts by name: ".download-*" comes before ".locks" and the keys.
First(names) == IF names \cap Storer = {} THEN names ELSE names \cap Storer

ClearOpen(c) ==
    /\ cpc[c] = "sweep" /\ cur[c] = None
    /\ \E n \in First(list[c]) :
         IF at[n] = None
         THEN list' = [list EXCEPT ![c] = @ \ {n}] /\ UNCHANGED <<dirVars, rmVars, cur>>
         ELSE cur' = [cur EXCEPT ![c] = n] /\ RemoveAllStep(c, n) /\ UNCHANGED list
    /\ UNCHANGED <<lockVars, callVars, cpc, aim, disturbed>>

ClearUnlink(c) ==
    /\ cur[c] # None /\ rmDir[c] # None
    /\ RemoveAllStep(c, cur[c])
    /\ UNCHANGED <<lockVars, callVars, clearVars, disturbed>>

\* A directory that filled up again ends the whole Clear with an error.
ClearRmdir(c) ==
    /\ cur[c] # None
    /\ RemoveAllEnd(c, cur[c])
    /\ list' = [list EXCEPT ![c] = @ \ {cur[c]}]
    /\ cpc' = [cpc EXCEPT ![c] = IF Removable(cur[c]) THEN @ ELSE "failed"]
    /\ cur' = [cur EXCEPT ![c] = None]
    /\ UNCHANGED <<lockVars, callVars, aim, disturbed>>

\* (Mutant: the loop ends at ".locks" where it should skip it.)
StoppedAtLocks(c) == list[c] \cap Storer = {}
AllRemoved(c) == list[c] = {}

\* (Mutant: ".locks" is removed with everything else.)
LocksRemoved == lockFile' = [k \in Key |-> None] /\ UNCHANGED <<opened, owner>>
LocksSkipped == UNCHANGED lockVars

ClearDone(c) ==
    /\ cpc[c] = "sweep" /\ cur[c] = None
    /\ AllRemoved(c)
    /\ cpc' = [cpc EXCEPT ![c] = "done"]
    /\ LocksSkipped
    /\ UNCHANGED <<dirVars, callVars, rmVars, list, cur, aim, disturbed>>

\* Cancellation, a file system error or the death of the process.
ClearStop(c) ==
    /\ cpc[c] = "sweep"
    /\ cpc' = [cpc EXCEPT ![c] = "failed"]
    /\ list' = [list EXCEPT ![c] = {}]
    /\ cur' = [cur EXCEPT ![c] = None]
    /\ StopRemoval(c)
    /\ UNCHANGED <<dirVars, lockVars, callVars, aim, disturbed>>

-----------------------------------------------------------------------------
StoreStep(r) ==
    \/ MakeStaging(r) \/ StartDownload(r) \/ FinishDownload(r) \/ CheckStaging(r)
    \/ WriteMetadata(r) \/ OpenLockFile(r) \/ Acquire(r) \/ RemoveOld(r)
    \/ Publish(r) \/ Unlock(r) \/ Cleanup(r)

\* What a running process does of itself.
Progress(r) ==
    \/ ReadMetadata(r) \/ VerifyEntry(r) \/ Open(r)
    \/ r \in Storer /\ StoreStep(r)

\* What happens to it.
Environment(r) == Begin(r) \/ Interrupt(r) \/ Crash(r)

ClearStep(c) ==
    ClearList(c) \/ ClearOpen(c) \/ ClearUnlink(c) \/ ClearRmdir(c) \/ ClearDone(c) \/ ClearStop(c)

Next ==
    \/ \E r \in Request : Progress(r) \/ Environment(r)
    \/ \E c \in Clearer : ClearStep(c)

Spec == Init /\ [][Next]_vars
FairSpec == Spec /\ \A r \in Request : WF_vars(Progress(r))

-----------------------------------------------------------------------------
(* Properties.                                                             *)

\* Every variable has its type; in particular an entry holds one of the two
\* files Store writes, and a removal in progress has a directory open.
TypeOK ==
    /\ at \in [Name -> Name \cup {None}]
    /\ file \in [Name -> [File -> Content]]
    /\ lockFile \in [Key -> Storer \cup {None}]
    /\ opened \in [Storer -> Storer \cup {None}]
    /\ owner \in [Storer -> Storer \cup {None}]
    /\ pc \in [Request -> Phase]
    /\ ret \in [Request -> {"none", "path", "error"}]
    /\ got \in [Request -> Content \cup {"missing"}]
    /\ rmDir \in [Actor -> Name \cup {None}]
    /\ rmTodo \in [Actor -> SUBSET File]
    /\ cpc \in [Clearer -> {"idle", "sweep", "done", "failed"}]
    /\ list \in [Clearer -> SUBSET Name]
    /\ cur \in [Clearer -> Name \cup {None}]
    /\ aim \in [Clearer -> SUBSET Name]
    /\ disturbed \in SUBSET Request
    /\ \A a \in Actor : rmDir[a] = None => rmTodo[a] = {}

\* Store and Lookup hand out verified archives: whatever was left under a key,
\* downloaded, replaced or cleared meanwhile, nobody who opens the path he was
\* given finds bytes that do not match the checksum.
ServedIsVerified == \A r \in Request : got[r] # "bad"

\* A verified path stays good until its caller has opened it: only a request
\* that overlapped a Clear, or the publication of a directory that a Clear had
\* emptied, may find nothing there.  Other publishers of the same release,
\* crashes and leftovers cannot take the archive away.
UndisturbedIsServed ==
    \A r \in Request : got[r] = "missing" => r \in disturbed

\* lockPublication: at most one publisher of a key is between taking and closing
\* the lock, whoever created, kept or cleared the directory meanwhile.
MutualExclusion ==
    \A r, s \in Storer :
        Locked(r) /\ Locked(s) /\ KeyOf[r] = KeyOf[s] => r = s

\* "Only an unusable entry can reach this point": what the second Lookup found
\* is still true when RemoveAll and Rename act on it.
OnlyUnusableRemoved ==
    \A r \in Storer : pc[r] \in {"remove", "publish"} => ~Complete(KeyOf[r])

\* The rename never meets a directory at its destination, which Windows would
\* refuse to replace.
RenameTargetFree ==
    \A r \in Storer : pc[r] = "publish" => at[KeyOf[r]] = None

\* The deferred RemoveAll: a call that returned, whatever happened, has left no
\* staging directory; only a dead process does.
NoStagingLeft ==
    \A s \in Storer :
        pc[s] \in {"answer", "reading", "missed", "failed"} => at[s] = None

\* A Clear that reports success has emptied every entry it found, also those
\* that publishers replaced while it was running.
ClearRemovesListed ==
    \A c \in Clearer : cpc[c] = "done" => \A d \in aim[c] : Files(d) = {}

\* A complete entry is only ever broken by a Clear that has opened its
\* directory; a publisher preserves it, "even if it is open for flashing".
CompleteKept ==
    [][\A k \in Key : Complete(k) /\ ~Complete(k)' =>
           /\ at'[k] = at[k]
           /\ \E c \in Clearer : cpc[c] = "sweep" /\ rmDir[c] = at[k]]_vars

\* Every call that has begun ends, also the ones that wait for the lock, if
\* running processes keep running; crashes, cancellation and I/O errors are
\* free to happen or not.
RequestsFinish ==
    \A r \in Request : pc[r] = "lookup" ~> pc[r] \in Finished

\* What the comment on Store and the README promise: the archive and its
\* metadata are published together.  A Clear that empties the staging directory
\* between verification and rename makes it false.
PublishedTogether ==
    [][\A k \in Key : at'[k] # at[k] /\ at'[k] # None => Complete(k)']_vars

\* What DownloadFile asserts: it is given a directory.  A Clear that removes the
\* staging directory before the download starts makes the assertion panic.
PathIsDirectory == \A r \in Storer : pc[r] = "download" => at[r] # None

-----------------------------------------------------------------------------
(* The contract this implements.                                           *)

EntryState == [k \in Key |-> IF Complete(k) THEN "complete" ELSE "unusable"]

AnswerOf(r) ==
    CASE pc[r] \in {"idle", "missed", "dead"} -> pc[r]
      [] pc[r] = "answer"  -> "promised"
      [] pc[r] = "reading" -> IF got[r] = "good" THEN "image" ELSE "junk"
      [] pc[r] = "failed"  -> IF got[r] = "missing" THEN "gone" ELSE "error"
      [] OTHER -> "waiting"

Contract == INSTANCE CacheContract WITH
    entry <- EntryState, clearing <- Sweeping, disturbed <- disturbed,
    answer <- [r \in Request |-> AnswerOf(r)]

\* Store, Lookup and Clear together implement the contract of the cache.
ImplementsContract == Contract!Spec
=============================================================================
