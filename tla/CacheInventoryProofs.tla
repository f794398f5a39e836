------------------------ MODULE CacheInventoryProofs ------------------------
(***************************************************************************)
(* What List reports of a cache that others use and clear meanwhile, for   *)
(* any number of releases, calls and clearers and any leftover entries.    *)
(***************************************************************************)
EXTENDS CacheInventory, CacheContractProofs

-----------------------------------------------------------------------------
(* The invariants.                                                         *)

\* The inspection goes through keys only.
WalkType ==
    /\ lpc \in [Lister -> {"idle", "scan", "measure", "listed", "failed", "shown"}]
    /\ names \in [Lister -> SUBSET Name]
    /\ look \in [Lister -> Name \cup {None}]
    /\ inside \in [Lister -> SUBSET File]
    /\ images \in [Lister -> SUBSET Key]
    /\ due \in [Lister -> SUBSET Key]
    /\ owed \in [Lister -> SUBSET (Name \X File)]
    /\ sound \in [Lister -> SUBSET Key]
    /\ calm \in [Lister -> BOOLEAN]
    /\ hurt \in [Lister -> BOOLEAN]
    /\ \A l \in Lister :
          /\ sound[l] \subseteq images[l]
          /\ lpc[l] = "idle" => look[l] = None /\ images[l] = {}
          /\ lpc[l] = "scan" => names[l] \subseteq Key /\ look[l] \in names[l] \cup {None}

\* What is still to be reported is still there, and still ahead of the walk.
AheadInv ==
    \A l \in Lister :
        /\ \A k \in due[l] : Complete(k)
        /\ lpc[l] = "scan" => due[l] \subseteq names[l]
        /\ lpc[l] = "measure" => due[l] = {}
        /\ \A p \in owed[l] : p[2] \in Contents(p[1])
        /\ lpc[l] = "measure" => \A p \in owed[l] :
              p[1] \in names[l] \/ (p[1] = look[l] /\ p[2] \in inside[l])
        /\ lpc[l] = "listed" => owed[l] = {}

\* A call that fails was hurt, and one that was hurt shows nothing.
HurtInv ==
    \A l \in Lister :
        /\ lpc[l] = "failed" => hurt[l]
        /\ hurt[l] => lpc[l] \in {"failed", "shown"}
        /\ lpc[l] = "shown" /\ hurt[l] => images[l] = {}

\* Without a Clear, an archive that matches is never beside the metadata of another
\* publication.
Calm(l) ==
    /\ ~Sweeping
    /\ \A k \in images[l] \cap sound[l] : Complete(k)
    /\ lpc[l] = "scan" /\ look[l] # None /\ Has(look[l], "archive") => Complete(look[l])
CalmInv == \A l \in Lister : calm[l] => Calm(l)

ListInv == WalkType /\ AheadInv /\ HurtInv /\ CalmInv

-----------------------------------------------------------------------------
(* The cache under a listing.                                              *)

\* What an observed cache does is what the cache does.
LEMMA CacheOfInventory == InventorySpec => []IInv
  <1>1. InventoryInit => Init BY DEF InventoryInit
  <1>2. [InventoryNext]_allVars => [Next]_vars
    BY DEF InventoryNext, allVars
  <1>3. InventorySpec => Spec BY <1>1, <1>2, PTL DEF InventorySpec, Spec
  <1> QED BY <1>3, Inductive, PTL

\* A step that leaves the listing calm keeps complete entries, and puts under a key only
\* what is complete.
LEMMA CalmStep ==
  ASSUME IInv, Next, ~Sweeping, ~Sweeping', ~EmptiedPublished, NEW k \in Key
  PROVE  /\ Complete(k) => Complete(k)'
         /\ (Has(k, "archive") => Complete(k)) => (Has(k, "archive")' => Complete(k)')
  <1>1. PICK r \in Request : Progress(r) \/ Environment(r)
    <2>1. ASSUME NEW c \in Clearer, ClearStep(c) PROVE FALSE
      <3>1. CASE ClearList(c)
        <4>1. cpc'[c] = "sweep" BY <3>1 DEF ClearList, IInv, TypeOK
        <4> QED BY <4>1 DEF Sweeping
      <3>2. CASE ~ClearList(c)
        BY <2>1, <3>2 DEF ClearStep, ClearOpen, ClearUnlink, ClearRmdir, ClearDone, ClearStop, Sweeping,
           IInv, DirInv, ClearInv
      <3> QED BY <3>1, <3>2
    <2> QED BY <2>1 DEF Next
  <1>2. Complete(k) => Complete(k)'
    BY <1>1, RequestStep DEF RequestEffect, Complete, Has, File
  <1>3. CASE Publishes(r)
    <2>1. at'[k] = at[k] => UNCHANGED file
      BY <1>3 DEF Publishes, Publish
    <2>2. CASE at'[k] = at[k] BY <1>2, <2>1, <2>2 DEF Has
    <2>3. CASE at'[k] # at[k]
      <3>1. at'[k] = None \/ Complete(k)' BY <2>3 DEF EmptiedPublished
      <3> QED BY <1>2, <3>1 DEF Has
    <2> QED BY <2>2, <2>3
  <1>4. CASE ~Publishes(r) BY <1>1, <1>2, <1>4, HasStep DEF File
  <1> QED BY <1>2, <1>3, <1>4

-----------------------------------------------------------------------------
(* The invariants are inductive.                                           *)

\* Before its call a listing has nothing.
LEMMA InitList == InventoryInit => ListInv
  <1> SUFFICES ASSUME InventoryInit PROVE ListInv
    OBVIOUS
  <1> USE DEF InventoryInit
  <1>1. WalkType BY DEF WalkType
  <1>2. AheadInv BY DEF AheadInv
  <1>3. HurtInv BY DEF HurtInv
  <1>4. CalmInv
    <2>1. ~Sweeping BY DEF Init, Sweeping
    <2> QED BY <2>1 DEF CalmInv, Calm
  <1> QED BY <1>1, <1>2, <1>3, <1>4 DEF ListInv

\* Steps of the cache can only take from what a listing owes.
LEMMA WatchStep ==
  ASSUME IInv, ListInv, Next, Watch, UNCHANGED walkVars
  PROVE  ListInv'
  <1> USE DEF ListInv, walkVars
  <1>1. /\ \A l \in Lister : /\ due'[l] = {k \in due[l] : Complete(k)'}
                             /\ owed'[l] = {p \in owed[l] : p[2] \in Contents(p[1])'}
                             /\ calm'[l] = (calm[l] /\ ~Sweeping' /\ ~EmptiedPublished)
        /\ UNCHANGED <<lpc, names, look, inside, images, sound, hurt>>
    BY DEF Watch
  <1>2. WalkType'
    <2>1. /\ due' \in [Lister -> SUBSET Key] /\ owed' \in [Lister -> SUBSET (Name \X File)]
          /\ calm' \in [Lister -> BOOLEAN]
      BY DEF Watch, WalkType
    <2> QED BY <1>1, <2>1 DEF WalkType
  <1>3. AheadInv' BY <1>1 DEF AheadInv
  <1>4. HurtInv' BY <1>1 DEF HurtInv
  <1>5. ASSUME NEW l \in Lister, calm'[l] PROVE Calm(l)'
    <2>1. calm[l] /\ ~Sweeping' /\ ~EmptiedPublished BY <1>1, <1>5
    <2>2. ~Sweeping BY <2>1 DEF CalmInv, Calm
    <2>3. ASSUME NEW k \in images[l] \cap sound[l] PROVE Complete(k)'
      <3>1. k \in Key /\ Complete(k) BY <2>1, <2>3 DEF CalmInv, Calm, WalkType
      <3> QED BY <2>1, <2>2, <3>1, CalmStep
    <2>4. ASSUME lpc[l] = "scan", look[l] # None, Has(look[l], "archive")' PROVE Complete(look[l])'
      <3>1. look[l] \in Key /\ (Has(look[l], "archive") => Complete(look[l]))
        BY <2>1, <2>4 DEF CalmInv, Calm, WalkType
      <3> QED BY <2>1, <2>2, <2>4, <3>1, CalmStep
    <2> QED BY <1>1, <2>1, <2>3, <2>4 DEF Calm
  <1> QED BY <1>2, <1>3, <1>4, <1>5 DEF CalmInv

\* What is complete is neither skipped nor lost by the inspection, and what it finds to
\* match is complete.
LEMMA ListerStep ==
  ASSUME IInv, ListInv, NEW l \in Lister, ListStep(l), UNCHANGED vars
  PROVE  ListInv'
  <1> USE DEF ListInv, walkVars, historyVars
  <1>0. /\ TypeOK /\ UNCHANGED <<at, file, cpc>> /\ Sweeping' = Sweeping
        /\ \A n, f : Has(n, f)' <=> Has(n, f)
        /\ \A n : Contents(n)' = Contents(n)
        /\ \A k : Complete(k)' <=> Complete(k)
        /\ Key \subseteq Name
    BY DEF IInv, vars, dirVars, clearVars, Sweeping, Has, Contents, Files, Complete, Name
  <1> USE DEF Calm
  <1>1. CASE ListOpen(l)
    <2>1. /\ lpc' = [lpc EXCEPT ![l] = "scan"]
          /\ names' = [names EXCEPT ![l] = {k \in Key : at[k] # None}]
          /\ due' = [due EXCEPT ![l] = {k \in Key : Complete(k)}]
          /\ calm' = [calm EXCEPT ![l] = ~Sweeping]
          /\ lpc[l] = "idle" /\ UNCHANGED <<look, inside, images, owed, sound, hurt>>
      BY <1>1 DEF ListOpen
    <2>2. {k \in Key : at[k] # None} \subseteq Key /\ {k \in Key : Complete(k)} \subseteq Key
      OBVIOUS
    <2>3. \A k \in Key : Complete(k) => at[k] # None BY DEF Complete, Has
    <2>4. WalkType' BY <1>0, <2>1, <2>2 DEF WalkType
    <2>5. AheadInv' BY <1>0, <2>1, <2>3 DEF AheadInv, WalkType
    <2>6. HurtInv' BY <2>1 DEF HurtInv, WalkType
    <2>7. CalmInv'
      <3> SUFFICES ASSUME NEW m \in Lister, calm'[m] PROVE Calm(m)'
        BY DEF CalmInv
      <3>1. CASE m # l BY <1>0, <2>1, <3>1 DEF CalmInv, WalkType
      <3>2. CASE m = l
        <4>1. look'[l] = None /\ ~Sweeping BY <2>1, <3>2 DEF WalkType
        <4>2. \A k \in images'[l] \cap sound'[l] : Complete(k)'
          BY <1>0, <2>1 DEF WalkType
        <4> QED BY <1>0, <3>2, <4>1, <4>2
      <3> QED BY <3>1, <3>2
    <2> QED BY <2>4, <2>5, <2>6, <2>7
  <1>2. CASE ReadEntry(l)
    <2>1. PICK n \in names[l] :
            IF Has(n, "meta")
            THEN look' = [look EXCEPT ![l] = n] /\ UNCHANGED names
            ELSE names' = [names EXCEPT ![l] = SkipMiss(@, n)] /\ UNCHANGED look
      BY <1>2 DEF ReadEntry
    <2>2. /\ lpc[l] = "scan" /\ look[l] = None /\ n \in Key
          /\ UNCHANGED <<lpc, inside, images, due, owed, sound, calm, hurt>>
      BY <1>2, <2>1 DEF ReadEntry, WalkType
    <2>3. CASE Has(n, "meta")
      <3>1. look' = [look EXCEPT ![l] = n] /\ UNCHANGED names BY <2>1, <2>3
      <3>2. Has(n, "archive") => Complete(n) BY <2>3 DEF Complete
      <3>3. WalkType' BY <1>0, <2>2, <3>1 DEF WalkType
      <3>4. AheadInv' BY <1>0, <2>2, <3>1 DEF AheadInv
      <3>5. HurtInv' BY <2>2 DEF HurtInv
      <3>6. CalmInv' BY <1>0, <2>2, <3>1, <3>2 DEF CalmInv, WalkType
      <3> QED BY <3>3, <3>4, <3>5, <3>6
    <2>4. CASE ~Has(n, "meta")
      <3>1. names' = [names EXCEPT ![l] = @ \ {n}] /\ UNCHANGED look BY <2>1, <2>4 DEF SkipMiss
      <3>2. n \notin due[l] BY <2>4 DEF AheadInv, Complete
      <3>3. WalkType' BY <2>2, <3>1 DEF WalkType
      <3>4. AheadInv' BY <1>0, <2>2, <3>1, <3>2 DEF AheadInv, WalkType
      <3>5. HurtInv' BY <2>2 DEF HurtInv
      <3>6. CalmInv' BY <1>0, <2>2, <3>1 DEF CalmInv
      <3> QED BY <3>3, <3>4, <3>5, <3>6
    <2> QED BY <2>3, <2>4
  <1>3. CASE SizeArchive(l)
    <2> DEFINE n == look[l]
    <2>1. /\ lpc[l] = "scan" /\ n # None /\ n \in Key /\ n \in names[l]
          /\ names' = [names EXCEPT ![l] = @ \ {n}]
          /\ look' = [look EXCEPT ![l] = None]
          /\ UNCHANGED <<lpc, inside, owed, calm, hurt>>
      BY <1>3 DEF SizeArchive, WalkType
    <2>2. PICK matches \in SizeMatches(n) :
             IF matches
             THEN /\ images' = [images EXCEPT ![l] = @ \cup {n}]
                  /\ sound' = [sound EXCEPT ![l] = IF Damaged(n) THEN @ ELSE @ \cup {n}]
                  /\ due' = [due EXCEPT ![l] = @ \ {n}]
             ELSE UNCHANGED <<images, sound, due>>
      BY <1>3 DEF SizeArchive
    <2>3. HurtInv'
      <3>1. \A m \in Lister : m = l \/ images'[m] = images[m]
        BY <2>2 DEF WalkType
      <3> QED BY <2>1, <3>1 DEF HurtInv
    <2>4. CASE matches
      <3>1. /\ images' = [images EXCEPT ![l] = @ \cup {n}]
            /\ sound' = [sound EXCEPT ![l] = IF Damaged(n) THEN @ ELSE @ \cup {n}]
            /\ due' = [due EXCEPT ![l] = @ \ {n}]
        BY <2>2, <2>4
      <3>2. WalkType' BY <2>1, <3>1 DEF WalkType
      <3>3. AheadInv' BY <1>0, <2>1, <3>1 DEF AheadInv, WalkType
      <3>4. ~Damaged(n) => Has(n, "archive")
        <4>1. ~ArchiveGone(n) BY <2>2, <2>4 DEF SizeMatches
        <4>2. at[n] # None /\ file[at[n]]["archive"] # "none" /\ file[at[n]]["archive"] \in Content
          BY <1>0, <2>1, <4>1 DEF ArchiveGone, Contents, Files, File, TypeOK
        <4> QED BY <4>2 DEF Damaged, Has, Content
      <3>5. CalmInv'
        <4> SUFFICES ASSUME NEW m \in Lister, calm'[m] PROVE Calm(m)'
          BY DEF CalmInv
        <4>1. CASE m # l
          BY <1>0, <2>1, <3>1, <4>1 DEF CalmInv, WalkType
        <4>2. CASE m = l
          <5>1. calm[l] /\ look'[l] = None /\ images'[l] = images[l] \cup {n}
            BY <2>1, <3>1, <4>2 DEF WalkType
          <5>2. CASE Damaged(n)
            <6>1. sound'[l] = sound[l] BY <3>1, <5>2 DEF WalkType
            <6>2. sound[l] \subseteq images[l] BY DEF WalkType
            <6>3. \A k \in images'[l] \cap sound'[l] : Complete(k)'
              BY <1>0, <5>1, <6>1, <6>2 DEF CalmInv
            <6>4. ~Sweeping BY <5>1 DEF CalmInv
            <6> QED BY <1>0, <4>2, <5>1, <6>3, <6>4
          <5>3. CASE ~Damaged(n)
            <6>1. Complete(n) BY <2>1, <3>4, <5>1, <5>3 DEF CalmInv
            <6>2. sound'[l] = sound[l] \cup {n} BY <3>1, <5>3 DEF WalkType
            <6> QED BY <1>0, <4>2, <5>1, <6>1, <6>2 DEF CalmInv
          <5> QED BY <5>2, <5>3
        <4> QED BY <4>1, <4>2
      <3> QED BY <2>3, <3>2, <3>3, <3>5
    <2>5. CASE ~matches
      <3>1. UNCHANGED <<images, sound, due>> BY <2>2, <2>5
      <3>2. ~Has(n, "archive")
        <4>1. matches \in {FALSE} \/ matches \in BOOLEAN BY <2>2 DEF SizeMatches
        <4>2. Has(n, "archive") => ~ArchiveGone(n)
          BY DEF Has, ArchiveGone, Contents, Files, File
        <4> QED BY <2>2, <2>5, <4>2 DEF SizeMatches
      <3>3. n \notin due[l] BY <3>2 DEF AheadInv, Complete
      <3>4. WalkType' BY <2>1, <3>1 DEF WalkType
      <3>5. AheadInv' BY <1>0, <2>1, <3>1, <3>3 DEF AheadInv, WalkType
      <3>6. CalmInv' BY <1>0, <2>1, <3>1 DEF CalmInv, WalkType
      <3> QED BY <2>3, <3>4, <3>5, <3>6
    <2> QED BY <2>4, <2>5
  <1>4. CASE StartWalk(l)
    <2>1. /\ lpc[l] = "scan" /\ names[l] = {}
          /\ lpc' = [lpc EXCEPT ![l] = "measure"]
          /\ names' = [names EXCEPT ![l] = {n \in Name : at[n] # None}]
          /\ owed' = [owed EXCEPT ![l] = UNION {NamedFiles(n) : n \in Name}]
          /\ UNCHANGED <<look, inside, images, due, sound, calm, hurt>>
      BY <1>4 DEF StartWalk, Everything
    <2>2. \A n \in Name : Contents(n) \subseteq File /\ (Contents(n) # {} => at[n] # None)
      BY DEF Contents, Files
    <2>3. \A p \in UNION {NamedFiles(n) : n \in Name} :
            p \in Name \X File /\ p[2] \in Contents(p[1]) /\ at[p[1]] # None
      BY <2>2 DEF NamedFiles
    <2>4. WalkType'
      <3>1. owed' \in [Lister -> SUBSET (Name \X File)] BY <2>1, <2>3 DEF WalkType
      <3> QED BY <2>1, <3>1 DEF WalkType
    <2>5. AheadInv' BY <1>0, <2>1, <2>3 DEF AheadInv, WalkType
    <2>6. HurtInv' BY <2>1 DEF HurtInv, WalkType
    <2>7. CalmInv' BY <1>0, <2>1 DEF CalmInv, WalkType
    <2> QED BY <2>4, <2>5, <2>6, <2>7
  <1>5. CASE WalkDirectory(l)
    <2>1. PICK n \in First(names[l]) :
            /\ look' = [look EXCEPT ![l] = n]
            /\ inside' = [inside EXCEPT ![l] = Contents(n)]
            /\ names' = [names EXCEPT ![l] = @ \ {n}]
      BY <1>5 DEF WalkDirectory
    <2>2. /\ lpc[l] = "measure" /\ inside[l] = {} /\ n \in names[l] /\ n \in Name
          /\ UNCHANGED <<lpc, images, due, owed, sound, calm, hurt>>
      BY <1>5, <2>1 DEF WalkDirectory, VanishedIsSkipped, First, WalkType
    <2>3. Contents(n) \subseteq File BY DEF Contents, Files
    <2>4. WalkType' BY <2>1, <2>2, <2>3 DEF WalkType
    <2>5. AheadInv' BY <1>0, <2>1, <2>2 DEF AheadInv, WalkType
    <2>6. HurtInv' BY <2>2 DEF HurtInv
    <2>7. CalmInv' BY <1>0, <2>1, <2>2 DEF CalmInv, WalkType
    <2> QED BY <2>4, <2>5, <2>6, <2>7
  <1>6. CASE WalkFile(l)
    <2>1. PICK f \in inside[l] :
            /\ owed' = [owed EXCEPT ![l] = @ \ {<<look[l], f>>}]
            /\ inside' = [inside EXCEPT ![l] = @ \ {f}]
      BY <1>6 DEF WalkFile
    <2>2. lpc[l] = "measure" /\ UNCHANGED <<lpc, names, look, images, due, sound, calm, hurt>>
      BY <1>6 DEF WalkFile
    <2>3. WalkType' BY <2>1, <2>2 DEF WalkType
    <2>4. AheadInv'
      <3>1. \A p \in owed[l] : p = <<p[1], p[2]>> BY DEF WalkType
      <3> QED BY <1>0, <2>1, <2>2, <3>1 DEF AheadInv, WalkType
    <2>5. HurtInv' BY <2>2 DEF HurtInv
    <2>6. CalmInv' BY <1>0, <2>2 DEF CalmInv
    <2> QED BY <2>3, <2>4, <2>5, <2>6
  <1>7. CASE ListDone(l)
    <2>1. /\ lpc[l] = "measure" /\ names[l] = {} /\ inside[l] = {}
          /\ lpc' = [lpc EXCEPT ![l] = "listed"]
          /\ look' = [look EXCEPT ![l] = None]
          /\ UNCHANGED <<names, inside, images, due, owed, sound, calm, hurt>>
      BY <1>7 DEF ListDone
    <2>2. WalkType' BY <2>1 DEF WalkType
    <2>3. AheadInv' BY <1>0, <2>1 DEF AheadInv, WalkType
    <2>4. HurtInv' BY <2>1 DEF HurtInv, WalkType
    <2>5. CalmInv' BY <1>0, <2>1 DEF CalmInv, WalkType
    <2> QED BY <2>2, <2>3, <2>4, <2>5
  <1>8. CASE ListStop(l)
    <2>1. /\ lpc[l] \in {"idle", "scan", "measure"}
          /\ lpc' = [lpc EXCEPT ![l] = "failed"]
          /\ names' = [names EXCEPT ![l] = {}]
          /\ look' = [look EXCEPT ![l] = None]
          /\ inside' = [inside EXCEPT ![l] = {}]
          /\ hurt' = [hurt EXCEPT ![l] = TRUE]
          /\ UNCHANGED <<images, due, owed, sound, calm>>
      BY <1>8 DEF ListStop
    <2>2. WalkType' BY <2>1 DEF WalkType
    <2>3. AheadInv' BY <1>0, <2>1 DEF AheadInv, WalkType
    <2>4. HurtInv' BY <2>1 DEF HurtInv, WalkType
    <2>5. CalmInv' BY <1>0, <2>1 DEF CalmInv, WalkType
    <2> QED BY <2>2, <2>3, <2>4, <2>5
  <1>9. CASE Show(l)
    <2>1. /\ lpc[l] \in {"listed", "failed"}
          /\ images' = [images EXCEPT ![l] = Shown(l)]
          /\ lpc' = [lpc EXCEPT ![l] = "shown"]
          /\ due' = [due EXCEPT ![l] = {}]
          /\ owed' = [owed EXCEPT ![l] = {}]
          /\ sound' = [sound EXCEPT ![l] = @ \cap Shown(l)]
          /\ UNCHANGED <<names, look, inside, calm, hurt>>
      BY <1>9 DEF Show
    <2>2. Shown(l) \subseteq images[l] /\ (lpc[l] = "failed" => Shown(l) = {})
      BY DEF Shown
    <2>3. WalkType' BY <2>1, <2>2 DEF WalkType
    <2>4. AheadInv' BY <1>0, <2>1 DEF AheadInv, WalkType
    <2>5. HurtInv' BY <2>1, <2>2 DEF HurtInv, WalkType
    <2>6. CalmInv' BY <1>0, <2>1, <2>2 DEF CalmInv, WalkType
    <2> QED BY <2>3, <2>4, <2>5, <2>6
  <1> QED BY <1>1, <1>2, <1>3, <1>4, <1>5, <1>6, <1>7, <1>8, <1>9 DEF ListStep

\* The invariant of the listings rests on that of the cache.
LEMMA ListHolds == InventorySpec => []ListInv
  <1>1. ASSUME IInv, ListInv, [InventoryNext]_allVars PROVE ListInv'
    <2>1. CASE UNCHANGED allVars
      <3>1. UNCHANGED <<at, file, cpc, lpc, names, look, inside, images, due, owed, sound, calm, hurt>>
        BY <2>1 DEF allVars, listVars, walkVars, historyVars, vars, dirVars, clearVars
      <3>2. /\ Sweeping' = Sweeping
            /\ \A n, f : Has(n, f)' <=> Has(n, f)
            /\ \A n : Contents(n)' = Contents(n)
            /\ \A k : Complete(k)' <=> Complete(k)
        BY <3>1 DEF Sweeping, Has, Contents, Files, Complete
      <3>3. WalkType' BY <1>1, <3>1 DEF ListInv, WalkType
      <3>4. AheadInv' BY <1>1, <3>1, <3>2 DEF ListInv, AheadInv
      <3>5. HurtInv' BY <1>1, <3>1 DEF ListInv, HurtInv
      <3>6. CalmInv' BY <1>1, <3>1, <3>2 DEF ListInv, CalmInv, Calm
      <3> QED BY <3>3, <3>4, <3>5, <3>6 DEF ListInv
    <2> QED BY <1>1, <2>1, WatchStep, ListerStep DEF InventoryNext
  <1> QED BY <1>1, InitList, CacheOfInventory, PTL DEF InventorySpec

-----------------------------------------------------------------------------
(* The properties of CacheInventory.                                       *)

\* Nothing that stays is missing from the list or from its total, whatever calls of
\* Store and Clear do beside it, and they never make the listing fail.
THEOREM StayedListed == InventorySpec => []StayedIsListed
  <1>1. ListInv => StayedIsListed
    BY DEF ListInv, AheadInv, HurtInv, StayedIsListed
  <1> QED BY <1>1, ListHolds, PTL

\* What is marked as CACHED can be used, unless it was damaged in place or a Clear has
\* been at work.
THEOREM MarkedUsable == InventorySpec => []MarkedIsUsable
  <1>1. ListInv => MarkedIsUsable
    BY DEF ListInv, CalmInv, Calm, MarkedIsUsable
  <1> QED BY <1>1, ListHolds, PTL
=============================================================================
