--------------------------- MODULE CacheInventory ---------------------------
(***************************************************************************)
(* List (internal/cache/inventory.go) inspects the cache entry by entry    *)
(* and then measures it file by file, without a lock, while the calls of   *)
(* ImageCache rename and remove what it looks at.  The release listings    *)
(* mark what it found as CACHED.                                           *)
(***************************************************************************)
EXTENDS ImageCache

CONSTANT Lister   \* calls of List, with the command that shows the result

VARIABLES
    lpc,      \* how far each call has come
    names,    \* names[l]: the directories it has still to read, or to walk
    look,     \* look[l]: the directory it is at
    inside,   \* inside[l]: the files of that directory it has still to measure
    images,   \* images[l]: the entries of its inventory
    due,      \* history: the entries that have been complete since it began and
              \* are not in its inventory yet
    owed,     \* what matters of its total: the files that have stayed where they
              \* are since it began to measure and are not in it yet
    sound,    \* history: the entries of its inventory whose archive matched the
              \* checksum when it looked
    calm,     \* history: whether no Clear has been at work since it began, and no
              \* directory was published that a Clear had emptied
    hurt      \* history: whether the file system failed, or it was cancelled

walkVars    == <<lpc, names, look, inside, images>>
historyVars == <<due, owed, sound, calm, hurt>>
listVars    == <<walkVars, historyVars>>
allVars     == <<vars, listVars>>

NamedFiles(n) == {n} \X Contents(n)

InventoryInit ==
    /\ Init
    /\ lpc = [l \in Lister |-> "idle"]
    /\ names = [l \in Lister |-> {}]
    /\ look = [l \in Lister |-> None]
    /\ inside = [l \in Lister |-> {}]
    /\ images = [l \in Lister |-> {}]
    /\ due = [l \in Lister |-> {}]
    /\ owed = [l \in Lister |-> {}]
    /\ sound = [l \in Lister |-> {}]
    /\ calm = [l \in Lister |-> TRUE]
    /\ hurt = [l \in Lister |-> FALSE]

-----------------------------------------------------------------------------
(* The entries.                                                            *)

\* openRoot and ReadDir, past the directories whose names begin with a dot.
ListOpen(l) ==
    /\ lpc[l] = "idle"
    /\ lpc' = [lpc EXCEPT ![l] = "scan"]
    /\ names' = [names EXCEPT ![l] = {k \in Key : at[k] # None}]
    /\ due' = [due EXCEPT ![l] = {k \in Key : Complete(k)}]
    /\ calm' = [calm EXCEPT ![l] = ~Sweeping]
    /\ UNCHANGED <<look, inside, images, owed, sound, hurt>>

\* (Mutant: the loop ends at a miss where it should go on.)
StopAtMiss(todo, n) == {}
SkipMiss(todo, n) == todo \ {n}

\* readEntry up to the identity: a file that is gone, that is not JSON or that
\* names another release is a miss.
ReadEntry(l) ==
    /\ lpc[l] = "scan" /\ look[l] = None
    /\ \E n \in names[l] :
         IF Has(n, "meta")
         THEN look' = [look EXCEPT ![l] = n] /\ UNCHANGED names
         ELSE names' = [names EXCEPT ![l] = SkipMiss(@, n)] /\ UNCHANGED look
    /\ UNCHANGED <<lpc, inside, images, historyVars>>

\* readEntry compares the size of the archive with that in the metadata, which
\* an archive that was damaged in place still has.
\* (Mutant: an entry is listed for its metadata.)
DescribedOnly(n) == {TRUE}
SizeMatches(n) ==
    IF ArchiveGone(n) THEN {FALSE} ELSE IF Has(n, "archive") THEN {TRUE} ELSE BOOLEAN

Damaged(n) == at[n] # None /\ file[at[n]]["archive"] = "bad"

SizeArchive(l) ==
    LET n == look[l]
    IN  /\ lpc[l] = "scan" /\ n # None
        /\ \E matches \in SizeMatches(n) :
             IF matches
             THEN /\ images' = [images EXCEPT ![l] = @ \cup {n}]
                  /\ sound' = [sound EXCEPT ![l] =
                         IF Damaged(n) THEN @ ELSE @ \cup {n}]
                  /\ due' = [due EXCEPT ![l] = @ \ {n}]
             ELSE UNCHANGED <<images, sound, due>>
        /\ names' = [names EXCEPT ![l] = @ \ {n}]
        /\ look' = [look EXCEPT ![l] = None]
        /\ UNCHANGED <<lpc, inside, owed, calm, hurt>>

-----------------------------------------------------------------------------
(* The total.                                                              *)

\* WalkDir reads the root again, staging directories included; what is in
\* ".locks" has no size.
\* (Mutant: the walk leaves out what the inventory does.)
HiddenLeftOut == {k \in Key : at[k] # None}
Everything == {n \in Name : at[n] # None}

StartWalk(l) ==
    /\ lpc[l] = "scan" /\ names[l] = {}
    /\ lpc' = [lpc EXCEPT ![l] = "measure"]
    /\ names' = [names EXCEPT ![l] = Everything]
    /\ owed' = [owed EXCEPT ![l] = UNION {NamedFiles(n) : n \in Name}]
    /\ UNCHANGED <<look, inside, images, due, sound, calm, hurt>>

\* (Mutant: what vanished ends the walk with an error.)
VanishedIsError(l) == lpc' = [lpc EXCEPT ![l] = "failed"]
VanishedIsSkipped(l) == UNCHANGED lpc

WalkDirectory(l) ==
    /\ lpc[l] = "measure" /\ inside[l] = {}
    /\ \E n \in First(names[l]) :
         /\ IF at[n] = None THEN VanishedIsSkipped(l) ELSE UNCHANGED lpc
         /\ look' = [look EXCEPT ![l] = n]
         /\ inside' = [inside EXCEPT ![l] = Contents(n)]
         /\ names' = [names EXCEPT ![l] = @ \ {n}]
    /\ UNCHANGED <<images, historyVars>>

WalkFile(l) ==
    /\ lpc[l] = "measure"
    /\ \E f \in inside[l] :
         /\ owed' = [owed EXCEPT ![l] = @ \ {<<look[l], f>>}]
         /\ inside' = [inside EXCEPT ![l] = @ \ {f}]
    /\ UNCHANGED <<lpc, names, look, images, due, sound, calm, hurt>>

ListDone(l) ==
    /\ lpc[l] = "measure" /\ names[l] = {} /\ inside[l] = {}
    /\ lpc' = [lpc EXCEPT ![l] = "listed"]
    /\ look' = [look EXCEPT ![l] = None]
    /\ UNCHANGED <<names, inside, images, historyVars>>

\* A cancellation or an error of the file system other than that a name is gone.
ListStop(l) ==
    /\ lpc[l] \in {"idle", "scan", "measure"}
    /\ lpc' = [lpc EXCEPT ![l] = "failed"]
    /\ names' = [names EXCEPT ![l] = {}]
    /\ look' = [look EXCEPT ![l] = None]
    /\ inside' = [inside EXCEPT ![l] = {}]
    /\ hurt' = [hurt EXCEPT ![l] = TRUE]
    /\ UNCHANGED <<images, due, owed, sound, calm>>

-----------------------------------------------------------------------------
(* The caller.                                                             *)

\* What the listings mark as CACHED.
Shown(l) == IF lpc[l] = "failed" THEN {} ELSE images[l]

\* (The history of the call ends here too.)
Show(l) ==
    /\ lpc[l] \in {"listed", "failed"}
    /\ images' = [images EXCEPT ![l] = Shown(l)]
    /\ lpc' = [lpc EXCEPT ![l] = "shown"]
    /\ due' = [due EXCEPT ![l] = {}]
    /\ owed' = [owed EXCEPT ![l] = {}]
    /\ sound' = [sound EXCEPT ![l] = @ \cap Shown(l)]
    /\ UNCHANGED <<names, look, inside, calm, hurt>>

ListStep(l) ==
    \/ ListOpen(l) \/ ReadEntry(l) \/ SizeArchive(l)
    \/ StartWalk(l) \/ WalkDirectory(l) \/ WalkFile(l) \/ ListDone(l)
    \/ ListStop(l) \/ Show(l)

EmptiedPublished ==
    \E k \in Key : at'[k] # at[k] /\ at'[k] # None /\ ~Complete(k)'

\* The history of a listing during a step of another call.
Watch ==
    /\ due' = [l \in Lister |-> {k \in due[l] : Complete(k)'}]
    /\ owed' = [l \in Lister |-> {p \in owed[l] : p[2] \in Contents(p[1])'}]
    /\ calm' = [l \in Lister |-> calm[l] /\ ~Sweeping' /\ ~EmptiedPublished]
    /\ UNCHANGED <<sound, hurt>>

InventoryNext ==
    \/ Next /\ Watch /\ UNCHANGED walkVars
    \/ (\E l \in Lister : ListStep(l)) /\ UNCHANGED vars

InventorySpec == InventoryInit /\ [][InventoryNext]_allVars

-----------------------------------------------------------------------------
(* Properties.                                                             *)

\* An image that can be used throughout the call is in the inventory, and a file that
\* stays where it is while the cache is measured is in the total, whatever entries,
\* files and directories beside them miss, appear or vanish meanwhile.  Listing fails
\* when the file system does or it is cancelled, and never because of Store or Clear;
\* what it has read by then is not shown.
StayedIsListed ==
    \A l \in Lister :
        /\ lpc[l] = "measure" => due[l] = {}
        /\ lpc[l] = "listed" => owed[l] = {}
        /\ lpc[l] = "failed" => hurt[l]
        /\ lpc[l] = "shown" /\ hurt[l] => images[l] = {}

\* An image marked as CACHED can be used at once, if its archive was not damaged
\* in place, no Clear has been at work since and none had emptied what was
\* published: publishers that replace an entry between the reading of its metadata
\* and that of its archive do not mislead the listing.
MarkedIsUsable ==
    \A l \in Lister : lpc[l] = "shown" /\ calm[l] =>
        \A k \in images[l] \cap sound[l] : Complete(k)
=============================================================================
