-------------------------- MODULE ImageCacheProofs --------------------------
(***************************************************************************)
(* Proofs about ImageCache: what TLC checks on the instances of            *)
(* MCImageCache holds for any number of keys, requests and clearers and    *)
(* any leftover entries.                                                   *)
(***************************************************************************)
EXTENDS ImageCache, TLAPS

-----------------------------------------------------------------------------
(* Types.                                                                  *)

\* At the start every variable has its type.
LEMMA InitType == Init => TypeOK
  BY NoneIsNoName, LeftoverType
  DEF Init, TypeOK, Empty, Phase, Early, Holding, Finished, Name, Actor, Request, Content

\* The steps of RemoveAll keep the types, whoever takes them.
LEMMA RemovalType ==
  ASSUME TypeOK, NEW a \in Actor, NEW n \in Name,
         RemoveAllStep(a, n) \/ RemoveAllEnd(a, n)
  PROVE  /\ at' \in [Name -> Name \cup {None}]
         /\ file' \in [Name -> [File -> Content]]
         /\ rmDir' \in [Actor -> Name \cup {None}]
         /\ rmTodo' \in [Actor -> SUBSET File]
         /\ \A b \in Actor : rmDir'[b] = None => rmTodo'[b] = {}
  <1>1. CASE rmDir[a] = None /\ RemoveAllStep(a, n)
    <2>1. rmTodo[a] = {}
      BY <1>1 DEF TypeOK
    <2>2. /\ at[n] # None /\ UNCHANGED <<at, file>>
          /\ rmDir' = [rmDir EXCEPT ![a] = at[n]]
          /\ rmTodo' = [rmTodo EXCEPT ![a] = Contents(n)]
      BY <1>1, <2>1 DEF RemoveAllStep, dirVars
    <2>3. at[n] \in Name /\ Contents(n) \in SUBSET File
      BY <2>2 DEF TypeOK, Contents, Files
    <2>4. rmTodo' \in [Actor -> SUBSET File] /\ rmDir' \in [Actor -> Name \cup {None}]
      BY <2>2, <2>3 DEF TypeOK
    <2>5. \A b \in Actor : rmDir'[b] = None => rmTodo'[b] = {}
      BY <2>2, <2>3 DEF TypeOK
    <2> QED BY <2>2, <2>4, <2>5 DEF TypeOK
  <1>2. CASE rmDir[a] # None /\ RemoveAllStep(a, n)
    <2>1. PICK f \in rmTodo[a] :
            /\ file' = [file EXCEPT ![rmDir[a]][f] = "none"]
            /\ rmTodo' = [rmTodo EXCEPT ![a] = @ \ {f}]
            /\ UNCHANGED <<at, rmDir>>
      BY <1>2 DEF RemoveAllStep
    <2>2. file' \in [Name -> [File -> Content]]
      BY <2>1 DEF TypeOK, Content
    <2> QED BY <1>2, <2>1, <2>2 DEF TypeOK
  <1>3. CASE RemoveAllEnd(a, n)
    BY <1>3 DEF TypeOK, RemoveAllEnd
  <1> QED BY <1>1, <1>2, <1>3

\* Writing one file of a directory keeps the type of the others.
LEMMA WriteType ==
  ASSUME TypeOK, NEW d, NEW f, NEW v \in Content, file' = [file EXCEPT ![d][f] = v]
  PROVE  file' \in [Name -> [File -> Content]]
  BY DEF TypeOK

\* An error return keeps the types, from whatever phase it is taken.
LEMMA FailType ==
  ASSUME TypeOK, NEW r \in Request, Fail(r)
  PROVE  TypeOK'
  BY DEF TypeOK, Fail, Goto, ErrorPath, StopRemoval, dirVars, clearVars, Phase, Early, Holding,
         Finished, Request, Actor

\* Every step keeps the types.
LEMMA NextType == TypeOK /\ [Next]_vars => TypeOK'
  <1> SUFFICES ASSUME TypeOK, [Next]_vars PROVE TypeOK'
    OBVIOUS
  <1> USE DEF Goto, Phase, Early, Holding, Finished, dirVars, lockVars, callVars, rmVars, clearVars
  <1>1. ASSUME NEW r \in Request, Begin(r) PROVE TypeOK'
    BY <1>1 DEF Begin, TypeOK
  <1>2. ASSUME NEW r \in Request, ReadMetadata(r) PROVE TypeOK'
    BY <1>2 DEF ReadMetadata, AfterMiss, Locked, TypeOK
  <1>3. ASSUME NEW r \in Request, VerifyEntry(r) PROVE TypeOK'
    BY <1>3 DEF VerifyEntry, AfterMiss, Locked, TypeOK
  <1>4. ASSUME NEW r \in Storer, MakeStaging(r) PROVE TypeOK'
    BY <1>4 DEF MakeStaging, TypeOK, Name, Request
  <1>5. ASSUME NEW r \in Storer, StartDownload(r) PROVE TypeOK'
    <2>1. CASE at[r] # None
      <3>1. file' \in [Name -> [File -> Content]]
        BY <1>5, <2>1, WriteType DEF StartDownload, Content
      <3> QED BY <1>5, <2>1, <3>1 DEF StartDownload, TypeOK, Request
    <2>2. CASE at[r] = None
      BY <1>5, <2>2 DEF StartDownload, TypeOK, Request
    <2> QED BY <2>1, <2>2
  <1>6. ASSUME NEW r \in Storer, FinishDownload(r) PROVE TypeOK'
    <2>1. PICK content \in {"bad", "good"} :
            file' = [file EXCEPT ![r]["archive"] = IF @ = "none" THEN @ ELSE content]
      BY <1>6 DEF FinishDownload
    <2>2. file' \in [Name -> [File -> Content]]
      BY <2>1 DEF TypeOK, Content, File, Name
    <2> QED BY <1>6, <2>2 DEF FinishDownload, TypeOK, Request
  <1>7. ASSUME NEW r \in Storer, CheckStaging(r) PROVE TypeOK'
    <2>1. CASE Verified(r)
      BY <1>7, <2>1 DEF CheckStaging, TypeOK, Request
    <2>2. CASE ~Verified(r)
      BY <1>7, <2>2, FailType DEF CheckStaging, Request
    <2> QED BY <2>1, <2>2
  <1>8. ASSUME NEW r \in Storer, WriteMetadata(r) PROVE TypeOK'
    <2>1. CASE at[r] # None
      <3>1. file' \in [Name -> [File -> Content]]
        BY <1>8, <2>1, WriteType DEF WriteMetadata, Content
      <3> QED BY <1>8, <2>1, <3>1 DEF WriteMetadata, TypeOK, Request
    <2>2. CASE at[r] = None
      BY <1>8, <2>2, FailType DEF WriteMetadata, Request
    <2> QED BY <2>1, <2>2
  <1>9. ASSUME NEW r \in Storer, OpenLockFile(r) PROVE TypeOK'
    BY <1>9, KeyOfType DEF OpenLockFile, TypeOK, Request
  <1>10. ASSUME NEW r \in Storer, Acquire(r) PROVE TypeOK'
    BY <1>10 DEF Acquire, LookAgain, TypeOK, Request
  <1>11. ASSUME NEW r \in Storer, RemoveOld(r) PROVE TypeOK'
    <2>1. KeyOf[r] \in Name /\ r \in Actor /\ r \in Request
      BY KeyOfType DEF Name, Actor, Request
    <2> QED BY <1>11, <2>1, RemovalType DEF RemoveOld, TypeOK
  <1>12. ASSUME NEW r \in Storer, Publish(r) PROVE TypeOK'
    <2>1. r \in Request /\ r \in Name /\ KeyOf[r] \in Name
      BY KeyOfType DEF Request, Name
    <2>2. CASE at[r] # None /\ Removable(KeyOf[r])
      <3>1. at' \in [Name -> Name \cup {None}]
        <4>1. at' = [at EXCEPT ![KeyOf[r]] = r, ![r] = None]
          BY <1>12, <2>2 DEF Publish
        <4> QED BY <2>1, <4>1 DEF TypeOK
      <3>2. disturbed' \in SUBSET Request
        BY <1>12, <2>2 DEF Publish, TypeOK, Running
      <3>3. /\ pc' = [pc EXCEPT ![r] = "unlock"] /\ ret' = [ret EXCEPT ![r] = "path"]
            /\ UNCHANGED <<file, lockFile, opened, owner, got, rmDir, rmTodo, cpc, list, cur, aim>>
        BY <1>12, <2>2 DEF Publish
      <3>4. pc' \in [Request -> Phase] /\ ret' \in [Request -> {"none", "path", "error"}]
        BY <3>3 DEF TypeOK
      <3> QED BY <3>1, <3>2, <3>3, <3>4 DEF TypeOK
    <2>3. CASE ~(at[r] # None /\ Removable(KeyOf[r]))
      BY <1>12, <2>1, <2>3, FailType DEF Publish
    <2> QED BY <2>2, <2>3
  <1>13. ASSUME NEW r \in Storer, Unlock(r) PROVE TypeOK'
    BY <1>13 DEF Unlock, CloseLock, TypeOK, Request
  <1>14. ASSUME NEW r \in Storer, Cleanup(r) PROVE TypeOK'
    <2>1. r \in Name /\ r \in Actor /\ r \in Request
      BY DEF Name, Actor, Request
    <2> QED BY <1>14, <2>1, RemovalType DEF Cleanup, TypeOK
  <1>15. ASSUME NEW r \in Request, Open(r) PROVE TypeOK'
    <2>1. CASE ArchiveGone(KeyOf[r])
      BY <1>15, <2>1 DEF Open, TypeOK
    <2>2. CASE ~ArchiveGone(KeyOf[r])
      <3>1. file[at[KeyOf[r]]]["archive"] \in Content
        BY <2>2, KeyOfType DEF ArchiveGone, Contents, TypeOK, Name, File
      <3> QED BY <1>15, <2>2, <3>1 DEF Open, TypeOK
    <2> QED BY <2>1, <2>2
  <1>16. ASSUME NEW r \in Request, Interrupt(r) PROVE TypeOK'
    BY <1>16, FailType DEF Interrupt
  <1>17. ASSUME NEW r \in Request, Crash(r) PROVE TypeOK'
    BY <1>17 DEF Crash, CloseLock, StopRemoval, TypeOK
  <1>18. ASSUME NEW c \in Clearer, ClearList(c) PROVE TypeOK'
    <2>1. {at[k] : k \in Key} \ {None} \subseteq Name
      BY DEF TypeOK, Name
    <2> QED BY <1>18, <2>1 DEF ClearList, TypeOK, Running
  <1>19. ASSUME NEW c \in Clearer, ClearOpen(c) PROVE TypeOK'
    <2>1. PICK n \in First(list[c]) :
            IF at[n] = None
            THEN list' = [list EXCEPT ![c] = @ \ {n}] /\ UNCHANGED <<dirVars, rmVars, cur>>
            ELSE cur' = [cur EXCEPT ![c] = n] /\ RemoveAllStep(c, n) /\ UNCHANGED list
      BY <1>19 DEF ClearOpen
    <2>2. n \in Name /\ c \in Actor
      BY DEF First, TypeOK, Actor
    <2>3. CASE at[n] = None
      BY <1>19, <2>1, <2>2, <2>3 DEF ClearOpen, TypeOK
    <2>4. CASE at[n] # None
      BY <1>19, <2>1, <2>2, <2>4, RemovalType DEF ClearOpen, TypeOK
    <2> QED BY <2>3, <2>4
  <1>20. ASSUME NEW c \in Clearer, ClearUnlink(c) PROVE TypeOK'
    <2>1. cur[c] \in Name /\ c \in Actor
      BY <1>20 DEF ClearUnlink, TypeOK, Actor
    <2> QED BY <1>20, <2>1, RemovalType DEF ClearUnlink, TypeOK
  <1>21. ASSUME NEW c \in Clearer, ClearRmdir(c) PROVE TypeOK'
    <2>1. cur[c] \in Name /\ c \in Actor
      BY <1>21 DEF ClearRmdir, TypeOK, Actor
    <2> QED BY <1>21, <2>1, RemovalType DEF ClearRmdir, TypeOK
  <1>22. ASSUME NEW c \in Clearer, ClearDone(c) PROVE TypeOK'
    BY <1>22 DEF ClearDone, LocksSkipped, TypeOK
  <1>23. ASSUME NEW c \in Clearer, ClearStop(c) PROVE TypeOK'
    BY <1>23 DEF ClearStop, StopRemoval, TypeOK, Actor
  <1>24. CASE UNCHANGED vars
    BY <1>24 DEF vars, TypeOK
  <1> QED
    BY <1>1, <1>2, <1>3, <1>4, <1>5, <1>6, <1>7, <1>8, <1>9, <1>10, <1>11, <1>12, <1>13, <1>14,
       <1>15, <1>16, <1>17, <1>18, <1>19, <1>20, <1>21, <1>22, <1>23, <1>24
    DEF Next, Progress, StoreStep, Environment, ClearStep

\* Every reachable state is well typed.
THEOREM TypeCorrect == Spec => []TypeOK
  BY InitType, NextType, PTL DEF Spec

-----------------------------------------------------------------------------
(* Mutual exclusion of the publishers of a key.                            *)

\* Whoever waits for or holds a lock has the one lock file of its key open, for
\* nothing ever replaces that file, and a holder owns its flock.
LockInv ==
    \A r \in Storer :
        /\ pc[r] \in Holding \cup {"acquire"} =>
               opened[r] \in Storer /\ opened[r] = lockFile[KeyOf[r]]
        /\ Locked(r) => owner[opened[r]] = r

\* One lock file per key, with one owner, means one publisher per key.
LEMMA LockExcludes == LockInv => MutualExclusion
  BY DEF LockInv, MutualExclusion, Locked

\* At the start nobody waits for a lock.
LEMMA InitLock == Init => LockInv
  BY DEF Init, LockInv, Locked, Holding, Request

\* An error return closes the lock file of a call that was waiting for it, and
\* leaves that of a holder to the deferred Close.
LEMMA FailLock ==
  ASSUME TypeOK, LockInv, NEW r \in Request, Fail(r)
  PROVE  LockInv'
  BY DEF TypeOK, LockInv, Fail, Goto, ErrorPath, Locked, Holding, Early, Request

\* Every step keeps the lock discipline.
LEMMA NextLock == TypeOK /\ LockInv /\ [Next]_vars => LockInv'
  <1> SUFFICES ASSUME TypeOK, LockInv, [Next]_vars PROVE LockInv'
    OBVIOUS
  <1> USE DEF Goto, LockInv, Locked, Holding, dirVars, lockVars, callVars, rmVars, clearVars
  <1>1. ASSUME NEW r \in Request, Begin(r) \/ ReadMetadata(r) \/ VerifyEntry(r) \/ Open(r)
        PROVE  LockInv'
    <2>1. UNCHANGED lockVars
      BY <1>1 DEF Begin, ReadMetadata, VerifyEntry, Open
    <2>2. ASSUME NEW s \in Storer, pc'[s] \in Holding \cup {"acquire"}
          PROVE  pc[s] = pc'[s] \/ (Locked(s) /\ Locked(s)')
      BY <1>1, <2>2 DEF Begin, ReadMetadata, VerifyEntry, Open, AfterMiss, TypeOK, Request
    <2> QED BY <2>1, <2>2
  <1>2. ASSUME NEW r \in Storer,
               \/ MakeStaging(r) \/ StartDownload(r) \/ FinishDownload(r)
               \/ RemoveOld(r) \/ Cleanup(r)
        PROVE  LockInv'
    <2>1. UNCHANGED lockVars
      BY <1>2 DEF MakeStaging, StartDownload, FinishDownload, RemoveOld, Cleanup
    <2>2. ASSUME NEW s \in Storer, pc'[s] \in Holding \cup {"acquire"}
          PROVE  pc[s] = pc'[s] \/ (Locked(s) /\ Locked(s)')
      BY <1>2, <2>2 DEF MakeStaging, StartDownload, FinishDownload, RemoveOld, Cleanup, TypeOK, Request
    <2> QED BY <2>1, <2>2
  <1>3. ASSUME NEW r \in Storer, CheckStaging(r) \/ WriteMetadata(r) PROVE LockInv'
    <2>1. CASE Fail(r)
      BY <2>1, FailLock DEF Request
    <2>2. CASE ~Fail(r)
      BY <1>3, <2>2 DEF CheckStaging, WriteMetadata, TypeOK, Request
    <2> QED BY <2>1, <2>2
  <1>4. ASSUME NEW r \in Storer, OpenLockFile(r) PROVE LockInv'
    <2>1. ASSUME NEW s \in Storer, pc[s] \in Holding \cup {"acquire"}
          PROVE  lockFile'[KeyOf[s]] = lockFile[KeyOf[s]] /\ s # r
      BY <1>4, <2>1, NoneIsNoName, KeyOfType DEF OpenLockFile, TypeOK, Name, Request
    <2>2. pc' = [pc EXCEPT ![r] = "acquire"] /\ owner' = owner
      BY <1>4 DEF OpenLockFile
    <2>3. /\ opened'[r] \in Storer
          /\ opened'[r] = lockFile'[KeyOf[r]]
          /\ \A s \in Storer \ {r} : opened'[s] = opened[s]
      <3> DEFINE l == IF lockFile[KeyOf[r]] = None THEN r ELSE lockFile[KeyOf[r]]
      <3>1. /\ lockFile' = [lockFile EXCEPT ![KeyOf[r]] = l]
            /\ opened' = [opened EXCEPT ![r] = l]
        BY <1>4 DEF OpenLockFile
      <3>2. KeyOf[r] \in Key /\ l \in Storer
        BY KeyOfType DEF TypeOK, Request
      <3> HIDE DEF l
      <3> QED BY <3>1, <3>2 DEF TypeOK
    <2>4. ASSUME NEW s \in Storer
          PROVE  /\ pc'[s] \in Holding \cup {"acquire"} =>
                        opened'[s] \in Storer /\ opened'[s] = lockFile'[KeyOf[s]]
                 /\ pc'[s] \in Holding => owner'[opened'[s]] = s
      <3>1. CASE s = r
        BY <2>2, <2>3, <3>1 DEF TypeOK, Request
      <3>2. CASE s # r
        BY <2>1, <2>2, <2>3, <3>2 DEF TypeOK, Request
      <3> QED BY <3>1, <3>2
    <2> QED BY <2>4
  <1>5. ASSUME NEW r \in Storer, Acquire(r) PROVE LockInv'
    BY <1>5, NoneIsNoName DEF Acquire, LockFree, LookAgain, TypeOK, Name, Request
  <1>6. ASSUME NEW r \in Storer, Publish(r) PROVE LockInv'
    <2>1. CASE Fail(r)
      BY <2>1, FailLock DEF Request
    <2>2. CASE ~Fail(r)
      BY <1>6, <2>2 DEF Publish, TypeOK, Request
    <2> QED BY <2>1, <2>2
  <1>7. ASSUME NEW r \in Request, Unlock(r) \/ Crash(r) PROVE LockInv'
    BY <1>7 DEF Unlock, Crash, CloseLock, TypeOK, Request
  <1>8. ASSUME NEW r \in Request, Interrupt(r) PROVE LockInv'
    BY <1>8, FailLock DEF Interrupt
  <1>9. ASSUME NEW c \in Clearer, ClearStep(c) PROVE LockInv'
    <2>1. UNCHANGED <<lockVars, callVars>>
      BY <1>9 DEF ClearStep, ClearList, ClearOpen, ClearUnlink, ClearRmdir, ClearDone,
                  LocksSkipped, ClearStop
    <2> QED BY <2>1
  <1>10. CASE UNCHANGED vars
    BY <1>10 DEF vars
  <1> QED
    BY <1>1, <1>2, <1>3, <1>4, <1>5, <1>6, <1>7, <1>8, <1>9, <1>10
    DEF Next, Progress, StoreStep, Environment, Request

\* At most one publisher of a key is between taking and closing its lock, also
\* when others crash, are interrupted or have the cache cleared under them.
THEOREM PublishersExclude == Spec => []MutualExclusion
  BY InitType, NextType, InitLock, NextLock, LockExcludes, PTL DEF Spec

-----------------------------------------------------------------------------
(* Where directories are.                                                  *)

\* The phases in which a storer may have a staging directory, and those it can
\* be in once it has published.
HasStaging == Holding \cup {"download", "fetch", "check", "describe", "lockfile", "acquire",
                            "cleanup", "dead"}
Published  == Finished \cup {"unlock", "cleanup", "answer"}

\* A staging directory is under its own name until it is published, a key names
\* its leftover or what one of its storers published.
PlaceInv ==
    /\ \A s \in Storer : at[s] # None => at[s] = s /\ pc[s] \in HasStaging
    /\ \A k \in Key : at[k] # None => at[k] = k \/ (at[k] \in Storer /\ KeyOf[at[k]] = k)
    /\ \A k \in Key, s \in Storer : at[k] = s => at[s] = None /\ pc[s] \in Published

\* A publisher removes what is under its key, and finds nothing added to it; a
\* returning storer removes its own staging directory.
RemovalInv ==
    /\ \A r \in Request : rmDir[r] # None => r \in Storer /\ pc[r] \in {"remove", "cleanup"}
    /\ \A s \in Storer : pc[s] = "remove" /\ rmDir[s] # None =>
          LET k == KeyOf[s]
              d == rmDir[s]
          IN  /\ d = k \/ (d \in Storer /\ KeyOf[d] = k /\ pc[d] \in Published)
              /\ at[k] # None => at[k] = d
              /\ Files(d) \subseteq rmTodo[s]
    /\ \A s \in Storer : pc[s] = "cleanup" /\ rmDir[s] # None =>
          /\ rmDir[s] = s
          /\ \A k \in Key : at[k] # s
          /\ Files(s) \subseteq rmTodo[s]

\* A Clear removes one name at a time.
ClearInv ==
    \A c \in Clearer :
        /\ cur[c] # None => cpc[c] = "sweep" /\ rmDir[c] # None
        /\ cur[c] = None => rmDir[c] = None

DirInv == PlaceInv /\ RemovalInv /\ ClearInv /\ RenameTargetFree

\* At the start nobody has a staging directory or a removal in progress.
LEMMA InitDir == Init => DirInv
  BY NoneIsNoName, RolesAreDisjoint
  DEF Init, DirInv, PlaceInv, RemovalInv, ClearInv, RenameTargetFree, Request, Actor, Name

\* A request moves on without touching a directory or having one open.
LEMMA MoveDir ==
  ASSUME TypeOK, DirInv, NEW r \in Request, NEW p,
         UNCHANGED <<at, file, cpc, cur>>,
         pc' = [pc EXCEPT ![r] = p],
         rmDir' = [rmDir EXCEPT ![r] = None],
         \A a \in Actor \ {r} : rmTodo'[a] = rmTodo[a],
         pc[r] \in HasStaging => p \in HasStaging,
         pc[r] \in Published => p \in Published,
         p = "publish" => pc[r] = "publish"
  PROVE  DirInv'
  <1>1. PlaceInv'
    BY DEF DirInv, PlaceInv, TypeOK, Request
  <1>2. RemovalInv'
    BY DEF DirInv, RemovalInv, Files, TypeOK, Request, Actor
  <1>3. ClearInv'
    BY RolesAreDisjoint DEF DirInv, ClearInv, TypeOK, Actor
  <1>4. RenameTargetFree'
    BY DEF DirInv, RenameTargetFree, TypeOK, Request
  <1> QED BY <1>1, <1>2, <1>3, <1>4 DEF DirInv

\* A storer writes to its own staging directory and moves on.
LEMMA WriteDir ==
  ASSUME TypeOK, DirInv, NEW r \in Storer, NEW p,
         UNCHANGED <<at, cpc, cur, rmDir, rmTodo>>,
         \A d \in Name \ {r} : file'[d] = file[d],
         pc' = [pc EXCEPT ![r] = p],
         pc[r] \in {"download", "fetch", "describe"},
         p \in HasStaging \ {"publish", "cleanup"}
  PROVE  DirInv'
  <1>1. PlaceInv'
    BY DEF DirInv, PlaceInv, TypeOK, Request, Published, Finished
  <1>2. RemovalInv'
    <2>1. rmDir[r] = None
      BY DEF DirInv, RemovalInv, Request
    <2>2. ASSUME NEW s \in Storer, pc'[s] \in {"remove", "cleanup"}, rmDir[s] # None
          PROVE  s # r /\ pc[s] = pc'[s] /\ rmDir[s] # r
      <3>1. s # r /\ pc[s] = pc'[s]
        BY <2>1, <2>2 DEF TypeOK, Request
      <3>2. CASE pc[s] = "cleanup"
        BY <2>2, <3>1, <3>2 DEF DirInv, RemovalInv
      <3>3. CASE pc[s] = "remove"
        <4>1. \/ rmDir[s] = KeyOf[s]
              \/ rmDir[s] \in Storer /\ pc[rmDir[s]] \in Published
          BY <2>2, <3>3 DEF DirInv, RemovalInv
        <4>2. KeyOf[s] # r
          BY RolesAreDisjoint, KeyOfType DEF Request
        <4> QED BY <3>1, <4>1, <4>2 DEF Published, Finished
      <3> QED BY <2>2, <3>1, <3>2, <3>3
    <2>3. ASSUME NEW d \in Name \ {r} PROVE Files(d)' = Files(d)
      BY <2>3 DEF Files
    <2>4. \A s \in Storer : rmDir[s] # None => rmDir[s] \in Name
      BY DEF TypeOK, Actor, Request
    <2>5. \A d \in Storer : pc[d] \in Published => pc'[d] \in Published
      BY DEF TypeOK, Request, Published, Finished
    <2> QED BY <2>1, <2>2, <2>3, <2>4, <2>5 DEF DirInv, RemovalInv, TypeOK, Request
  <1>3. ClearInv'
    BY DEF DirInv, ClearInv
  <1>4. RenameTargetFree'
    BY DEF DirInv, RenameTargetFree, TypeOK, Request
  <1> QED BY <1>1, <1>2, <1>3, <1>4 DEF DirInv

\* A file is unlinked by a removal in progress, whoever's it is.
LEMMA UnlinkDir ==
  ASSUME TypeOK, DirInv, NEW a \in Actor, NEW f \in rmTodo[a],
         file' = [file EXCEPT ![rmDir[a]][f] = "none"],
         rmTodo' = [rmTodo EXCEPT ![a] = @ \ {f}],
         UNCHANGED <<at, rmDir, pc, cpc, cur>>
  PROVE  DirInv'
  <1>1. ASSUME NEW d \in Name PROVE Files(d)' \subseteq Files(d)
    BY DEF Files, TypeOK
  <1>2. rmDir[a] \in Name => Files(rmDir[a])' \subseteq Files(rmDir[a]) \ {f}
    BY DEF Files, TypeOK, File
  <1>3. ASSUME NEW s \in Storer, rmDir[s] # None, Files(rmDir[s]) \subseteq rmTodo[s]
        PROVE  Files(rmDir[s])' \subseteq rmTodo'[s]
    <2>1. rmDir[s] \in Name /\ s \in Actor
      BY <1>3 DEF TypeOK, Actor, Request
    <2> QED BY <1>1, <1>2, <1>3, <2>1 DEF TypeOK
  <1>4. RemovalInv'
    <2>1. ASSUME NEW s \in Storer, pc[s] = "cleanup", rmDir[s] # None
          PROVE  Files(s)' \subseteq rmTodo'[s]
      BY <1>3, <2>1 DEF DirInv, RemovalInv
    <2>2. ASSUME NEW s \in Storer, pc[s] = "remove", rmDir[s] # None
          PROVE  Files(rmDir[s])' \subseteq rmTodo'[s]
      BY <1>3, <2>2 DEF DirInv, RemovalInv
    <2> QED BY <2>1, <2>2 DEF DirInv, RemovalInv
  <1> QED BY <1>4 DEF DirInv, PlaceInv, ClearInv, RenameTargetFree

\* A removal ends: at most the name goes, and its actor has nothing open.
LEMMA EndDir ==
  ASSUME TypeOK, DirInv, NEW a \in Actor, NEW n \in Name,
         rmDir' = [rmDir EXCEPT ![a] = None],
         at' = [at EXCEPT ![n] = IF Removable(n) THEN None ELSE @],
         UNCHANGED <<file, rmTodo>>,
         \A s \in Storer : pc'[s] # pc[s] =>
             /\ s = a
             /\ at'[s] = None \/ pc'[s] \in HasStaging
             /\ pc[s] \in Published => pc'[s] \in Published
             /\ pc'[s] = "publish" => at'[KeyOf[s]] = None
  PROVE  PlaceInv' /\ RemovalInv' /\ RenameTargetFree'
  <1>1. \A m \in Name : at'[m] = None \/ at'[m] = at[m]
    BY DEF TypeOK
  <1>2. \A d : Files(d)' = Files(d)
    BY DEF Files
  <1>3. PlaceInv'
    BY <1>1, NoneIsNoName DEF DirInv, PlaceInv, Name
  <1>4. RemovalInv'
    <2>1. \A b \in Actor : rmDir'[b] # None => rmDir'[b] = rmDir[b] /\ b # a
      BY DEF TypeOK
    <2>2. \A s \in Storer : s \in Actor /\ s \in Request /\ KeyOf[s] \in Name
      BY KeyOfType DEF Actor, Request, Name
    <2>3. \A s \in Storer : pc[s] \in Published => pc'[s] \in Published
      OBVIOUS
    <2> QED
      BY <1>1, <1>2, <2>1, <2>2, <2>3, NoneIsNoName DEF DirInv, RemovalInv, Name, Actor
  <1>5. RenameTargetFree'
    BY <1>1, KeyOfType DEF DirInv, RenameTargetFree, Name, Request
  <1> QED BY <1>3, <1>4, <1>5

\* Every step keeps directories in their places.
LEMMA NextDir == TypeOK /\ LockInv /\ DirInv /\ [Next]_vars => DirInv'
  <1> SUFFICES ASSUME TypeOK, LockInv, DirInv, [Next]_vars PROVE DirInv'
    OBVIOUS
  <1> USE DEF Goto, dirVars, lockVars, callVars, rmVars, clearVars
  <1>0. ASSUME NEW r \in Request, rmDir[r] # None PROVE r \in Storer /\ pc[r] \in {"remove", "cleanup"}
    BY <1>0 DEF DirInv, RemovalInv
  <1>1. ASSUME NEW r \in Request,
               \/ Begin(r) \/ ReadMetadata(r) \/ VerifyEntry(r) \/ Open(r)
        PROVE  DirInv'
    <2>1. PICK p : pc' = [pc EXCEPT ![r] = p]
      BY <1>1 DEF Begin, ReadMetadata, VerifyEntry, Open
    <2>2. UNCHANGED <<at, file, cpc, cur, rmDir, rmTodo>> /\ rmDir[r] = None
      BY <1>0, <1>1 DEF Begin, ReadMetadata, VerifyEntry, Open
    <2>3. /\ pc[r] \in HasStaging => p \in HasStaging
          /\ pc[r] \in Published => p \in Published
          /\ p = "publish" => pc[r] = "publish"
      BY <1>1, <2>1 DEF Begin, ReadMetadata, VerifyEntry, Open, AfterMiss, Locked, TypeOK,
                        HasStaging, Published, Holding, Finished
    <2>4. rmDir' = [rmDir EXCEPT ![r] = None]
      BY <2>2 DEF TypeOK
    <2> QED BY <2>1, <2>2, <2>3, <2>4, MoveDir
  <1>2. ASSUME NEW r \in Storer, OpenLockFile(r) \/ Acquire(r) \/ Unlock(r) PROVE DirInv'
    <2>1. PICK p : pc' = [pc EXCEPT ![r] = p]
      BY <1>2 DEF OpenLockFile, Acquire, LookAgain, Unlock
    <2>2. UNCHANGED <<at, file, cpc, cur, rmDir, rmTodo>> /\ rmDir[r] = None /\ r \in Request
      BY <1>0, <1>2 DEF OpenLockFile, Acquire, Unlock, Request
    <2>3. /\ pc[r] \in HasStaging => p \in HasStaging
          /\ pc[r] \in Published => p \in Published
          /\ p = "publish" => pc[r] = "publish"
      BY <1>2, <2>1, <2>2 DEF OpenLockFile, Acquire, LookAgain, Unlock, TypeOK,
                        HasStaging, Published, Holding, Finished
    <2>4. rmDir' = [rmDir EXCEPT ![r] = None]
      BY <2>2 DEF TypeOK
    <2> QED BY <2>1, <2>2, <2>3, <2>4, MoveDir
  <1>3. ASSUME NEW r \in Request, Fail(r), Active(r), pc[r] \notin {"unlock", "cleanup", "answer"}
        PROVE  DirInv'
    <2> DEFINE p == ErrorPath(r)
    <2>1. /\ pc' = [pc EXCEPT ![r] = p]
          /\ UNCHANGED <<at, file, cpc, cur>>
          /\ rmDir' = [rmDir EXCEPT ![r] = None]
          /\ \A a \in Actor \ {r} : rmTodo'[a] = rmTodo[a]
      BY <1>3 DEF Fail, StopRemoval, TypeOK
    <2>2. /\ pc[r] \in HasStaging => p \in HasStaging
          /\ pc[r] \in Published => p \in Published
          /\ p # "publish"
      BY <1>3 DEF ErrorPath, Active, HasStaging, Published, Holding, Finished, Early
    <2> HIDE DEF p
    <2> QED BY <2>1, <2>2, MoveDir
  <1>4. ASSUME NEW r \in Request, Crash(r) PROVE DirInv'
    <2>1. /\ pc' = [pc EXCEPT ![r] = "dead"]
          /\ UNCHANGED <<at, file, cpc, cur>>
          /\ rmDir' = [rmDir EXCEPT ![r] = None]
          /\ \A a \in Actor \ {r} : rmTodo'[a] = rmTodo[a]
      BY <1>4 DEF Crash, StopRemoval, TypeOK
    <2>2. "dead" \in HasStaging /\ "dead" \in Published
      BY DEF HasStaging, Published, Finished
    <2> QED BY <2>1, <2>2, MoveDir
  <1>5. ASSUME NEW r \in Storer, MakeStaging(r) PROVE DirInv'
    <2>1. at[r] = None /\ rmDir[r] = None /\ r \in Request /\ \A k \in Key : at[k] # r
      BY <1>0, <1>5 DEF MakeStaging, DirInv, PlaceInv, HasStaging, Holding, Published, Finished, Request
    <2>2. /\ at' = [at EXCEPT ![r] = r] /\ pc' = [pc EXCEPT ![r] = "download"]
          /\ UNCHANGED <<file, rmDir, rmTodo, cpc, cur>>
      BY <1>5 DEF MakeStaging
    <2>3. /\ \A k \in Key : at'[k] = at[k]
          /\ \A s \in Storer \ {r} : at'[s] = at[s] /\ pc'[s] = pc[s]
          /\ at'[r] = r /\ pc'[r] = "download" /\ pc[r] = "stage"
      BY <1>5, <2>1, <2>2, RolesAreDisjoint DEF MakeStaging, TypeOK, Name, Request
    <2>4. PlaceInv'
      BY <2>1, <2>3 DEF DirInv, PlaceInv, HasStaging, Published, Finished
    <2>5. RemovalInv'
      <3>1. \A d : Files(d)' = Files(d)
        BY <2>2 DEF Files
      <3>2. \A s \in Storer : pc[s] \in Published => pc'[s] \in Published
        BY <2>3 DEF Published, Finished
      <3>3. \A s \in Request : rmDir[s] # None => pc'[s] = pc[s] /\ s # r
        BY <2>1, <2>2 DEF TypeOK
      <3> QED BY <2>1, <2>2, <2>3, <3>1, <3>2, <3>3, KeyOfType DEF DirInv, RemovalInv, Request
    <2>6. ClearInv' /\ RenameTargetFree'
      BY <2>2, <2>3, KeyOfType DEF DirInv, ClearInv, RenameTargetFree, Request
    <2> QED BY <2>4, <2>5, <2>6 DEF DirInv
  <1>6. ASSUME NEW r \in Storer, StartDownload(r) \/ FinishDownload(r) PROVE DirInv'
    <2>1. CASE pc' = [pc EXCEPT ![r] = "dead"] /\ UNCHANGED file
      <3>1. UNCHANGED <<at, cpc, cur, rmDir, rmTodo>> /\ rmDir[r] = None /\ r \in Request
        BY <1>0, <1>6 DEF StartDownload, FinishDownload, Request
      <3>2. "dead" \in HasStaging /\ "dead" \in Published
        BY DEF HasStaging, Published, Finished
      <3>3. rmDir' = [rmDir EXCEPT ![r] = None]
        BY <3>1 DEF TypeOK
      <3> QED BY <2>1, <3>1, <3>2, <3>3, MoveDir
    <2>2. CASE ~(pc' = [pc EXCEPT ![r] = "dead"] /\ UNCHANGED file)
      <3>1. PICK p \in {"fetch", "check"} : pc' = [pc EXCEPT ![r] = p]
        BY <1>6, <2>2 DEF StartDownload, FinishDownload
      <3>2. /\ UNCHANGED <<at, cpc, cur, rmDir, rmTodo>>
            /\ \A d \in Name \ {r} : file'[d] = file[d]
            /\ pc[r] \in {"download", "fetch"}
        BY <1>6 DEF StartDownload, FinishDownload, TypeOK
      <3>3. p \in HasStaging \ {"publish", "cleanup"}
        BY DEF HasStaging
      <3> QED BY <3>1, <3>2, <3>3, WriteDir
    <2> QED BY <2>1, <2>2
  <1>7. ASSUME NEW r \in Storer, WriteMetadata(r) PROVE DirInv'
    <2>1. CASE at[r] = None
      <3>1. Fail(r) /\ Active(r) /\ r \in Request /\ pc[r] = "describe"
        BY <1>7, <2>1 DEF WriteMetadata, Active, Finished, Request
      <3> QED BY <1>3, <3>1
    <2>2. CASE at[r] # None
      <3>1. /\ pc' = [pc EXCEPT ![r] = "lockfile"] /\ pc[r] = "describe"
            /\ UNCHANGED <<at, cpc, cur, rmDir, rmTodo>>
            /\ \A d \in Name \ {r} : file'[d] = file[d]
        BY <1>7, <2>2 DEF WriteMetadata, TypeOK
      <3>2. "lockfile" \in HasStaging \ {"publish", "cleanup"}
        BY DEF HasStaging
      <3> QED BY <3>1, <3>2, WriteDir
    <2> QED BY <2>1, <2>2
  <1>8. ASSUME NEW r \in Storer, CheckStaging(r) PROVE DirInv'
    <2>1. CASE Verified(r)
      <3>1. /\ pc' = [pc EXCEPT ![r] = "describe"] /\ pc[r] = "check"
            /\ UNCHANGED <<at, file, cpc, cur, rmDir, rmTodo>>
            /\ rmDir[r] = None /\ r \in Request
        BY <1>0, <1>8, <2>1 DEF CheckStaging, Request
      <3>2. /\ "describe" \in HasStaging /\ "check" \notin Published
            /\ rmDir' = [rmDir EXCEPT ![r] = None]
        BY <3>1 DEF HasStaging, Published, Finished, TypeOK
      <3> QED BY <3>1, <3>2, MoveDir
    <2>2. CASE ~Verified(r)
      <3>1. Fail(r) /\ Active(r) /\ r \in Request /\ pc[r] = "check"
        BY <1>8, <2>2 DEF CheckStaging, Active, Finished, Request
      <3> QED BY <1>3, <3>1
    <2> QED BY <2>1, <2>2
  <1>9. ASSUME NEW r \in Storer, RemoveOld(r) PROVE DirInv'
    <2> DEFINE k == KeyOf[r]
    <2>1. /\ r \in Request /\ r \in Actor /\ k \in Key /\ k \in Name /\ pc[r] = "remove"
          /\ UNCHANGED <<cpc, cur>>
      BY <1>9, KeyOfType DEF RemoveOld, Request, Actor, Name
    <2> HIDE DEF k
    <2>2. CASE RemoveAllStep(r, k) /\ UNCHANGED pc /\ rmDir[r] = None
      <3>1. /\ at[k] # None
            /\ rmDir' = [rmDir EXCEPT ![r] = at[k]]
            /\ rmTodo' = [rmTodo EXCEPT ![r] = Files(at[k])]
            /\ UNCHANGED <<at, file>>
        BY <2>1, <2>2 DEF RemoveAllStep, Contents, TypeOK
      <3>2. at[k] = k \/ (at[k] \in Storer /\ KeyOf[at[k]] = k /\ pc[at[k]] \in Published)
        BY <2>1, <3>1 DEF DirInv, PlaceInv
      <3>3. \A d : Files(d)' = Files(d)
        BY <3>1 DEF Files
      <3>4. ASSUME NEW s \in Storer, s # r
            PROVE  rmDir'[s] = rmDir[s] /\ rmTodo'[s] = rmTodo[s]
        BY <3>1, <3>4 DEF TypeOK, Actor, Request
      <3>5. rmDir'[r] = at[k] /\ rmTodo'[r] = Files(at[k])
        BY <2>1, <3>1 DEF TypeOK
      <3>6. RemovalInv'
        <4>1. ASSUME NEW s \in Request, rmDir'[s] # None
              PROVE  s \in Storer /\ pc[s] \in {"remove", "cleanup"}
          BY <1>0, <2>1, <3>1, <4>1 DEF TypeOK, Actor
        <4>2. ASSUME NEW s \in Storer, pc[s] = "remove", rmDir'[s] # None
              PROVE  /\ \/ rmDir'[s] = KeyOf[s]
                        \/ /\ rmDir'[s] \in Storer
                           /\ KeyOf[rmDir'[s]] = KeyOf[s]
                           /\ pc[rmDir'[s]] \in Published
                     /\ at[KeyOf[s]] # None => at[KeyOf[s]] = rmDir'[s]
                     /\ Files(rmDir'[s]) \subseteq rmTodo'[s]
          <5>1. CASE s = r
            BY <3>2, <3>5, <5>1 DEF k
          <5>2. CASE s # r
            BY <3>4, <4>2, <5>2 DEF DirInv, RemovalInv
          <5> QED BY <5>1, <5>2
        <4>3. ASSUME NEW s \in Storer, pc[s] = "cleanup", rmDir'[s] # None
              PROVE  /\ rmDir'[s] = s
                     /\ \A l \in Key : at[l] # s
                     /\ Files(s) \subseteq rmTodo'[s]
          BY <2>1, <3>4, <4>3 DEF DirInv, RemovalInv
        <4> QED BY <2>2, <3>1, <3>3, <4>1, <4>2, <4>3 DEF RemovalInv
      <3>7. PlaceInv' /\ ClearInv' /\ RenameTargetFree'
        BY <2>1, <2>2, <3>1, RolesAreDisjoint
        DEF DirInv, PlaceInv, ClearInv, RenameTargetFree, TypeOK, Actor
      <3> QED BY <3>6, <3>7 DEF DirInv
    <2>3. CASE RemoveAllStep(r, k) /\ UNCHANGED pc /\ rmDir[r] # None
      BY <2>1, <2>3, UnlinkDir DEF RemoveAllStep
    <2>4. CASE RemoveAllEnd(r, k) /\ pc' = [pc EXCEPT ![r] = "publish"]
      <3>1. Removable(k)
        <4>1. at[k] # None => at[k] = rmDir[r] /\ Files(rmDir[r]) \subseteq {}
          BY <2>1, <2>4 DEF RemoveAllEnd, DirInv, RemovalInv, k
        <4> QED BY <4>1 DEF Removable, Contents
      <3>2. /\ at' = [at EXCEPT ![k] = IF Removable(k) THEN None ELSE @]
            /\ rmDir' = [rmDir EXCEPT ![r] = None]
            /\ UNCHANGED <<file, rmTodo>>
        BY <2>4 DEF RemoveAllEnd
      <3>3. at'[k] = None
        BY <2>1, <3>1, <3>2 DEF TypeOK
      <3>4. \A s \in Storer : pc'[s] # pc[s] =>
              /\ s = r
              /\ at'[s] = None \/ pc'[s] \in HasStaging
              /\ pc[s] \in Published => pc'[s] \in Published
              /\ pc'[s] = "publish" => at'[KeyOf[s]] = None
        BY <2>1, <2>4, <3>3 DEF TypeOK, HasStaging, Holding, Published, Finished, k
      <3>5. PlaceInv' /\ RemovalInv' /\ RenameTargetFree'
        BY <2>1, <3>2, <3>4, EndDir
      <3>6. ClearInv'
        BY <2>1, <3>2, RolesAreDisjoint DEF DirInv, ClearInv, TypeOK, Actor
      <3> QED BY <3>5, <3>6 DEF DirInv
    <2> QED BY <1>9, <2>2, <2>3, <2>4 DEF RemoveOld, k
  <1>10. ASSUME NEW r \in Storer, Cleanup(r) PROVE DirInv'
    <2>1. /\ r \in Request /\ r \in Actor /\ r \in Name /\ r \notin Key
          /\ pc[r] = "cleanup"
          /\ UNCHANGED <<cpc, cur>>
      BY <1>10, RolesAreDisjoint DEF Cleanup, Request, Actor, Name
    <2>2. CASE RemoveAllStep(r, r) /\ UNCHANGED pc /\ rmDir[r] = None
      <3>1. /\ at[r] = r
            /\ rmDir' = [rmDir EXCEPT ![r] = r]
            /\ rmTodo' = [rmTodo EXCEPT ![r] = Files(r)]
            /\ UNCHANGED <<at, file>>
        BY <2>1, <2>2 DEF RemoveAllStep, Contents, TypeOK, DirInv, PlaceInv
      <3>2. \A l \in Key : at[l] # r
        BY <3>1, NoneIsNoName DEF DirInv, PlaceInv, Name
      <3>3. \A d : Files(d)' = Files(d)
        BY <3>1 DEF Files
      <3>4. ASSUME NEW s \in Request, s # r
            PROVE  rmDir'[s] = rmDir[s] /\ rmTodo'[s] = rmTodo[s]
        BY <3>1, <3>4 DEF TypeOK, Actor
      <3>5. rmDir'[r] = r /\ rmTodo'[r] = Files(r)
        BY <2>1, <3>1 DEF TypeOK
      <3>6. RemovalInv'
        BY <2>1, <2>2, <3>1, <3>2, <3>3, <3>4, <3>5 DEF DirInv, RemovalInv, Request
      <3>7. PlaceInv' /\ ClearInv' /\ RenameTargetFree'
        BY <2>1, <2>2, <3>1, RolesAreDisjoint
        DEF DirInv, PlaceInv, ClearInv, RenameTargetFree, TypeOK, Actor
      <3> QED BY <3>6, <3>7 DEF DirInv
    <2>3. CASE RemoveAllStep(r, r) /\ UNCHANGED pc /\ rmDir[r] # None
      BY <2>1, <2>3, UnlinkDir DEF RemoveAllStep
    <2>4. CASE RemoveAllEnd(r, r) /\ pc' = [pc EXCEPT ![r] = IF ret[r] = "path" THEN "answer" ELSE "failed"]
      <3>1. Removable(r)
        <4>1. at[r] # None => at[r] = r /\ Files(r) \subseteq {}
          BY <2>1, <2>4 DEF RemoveAllEnd, DirInv, RemovalInv, PlaceInv
        <4> QED BY <4>1 DEF Removable, Contents
      <3>2. /\ at' = [at EXCEPT ![r] = IF Removable(r) THEN None ELSE @]
            /\ rmDir' = [rmDir EXCEPT ![r] = None]
            /\ UNCHANGED <<file, rmTodo>>
        BY <2>4 DEF RemoveAllEnd
      <3>3. at'[r] = None
        BY <2>1, <3>1, <3>2 DEF TypeOK
      <3>4. \A s \in Storer : pc'[s] # pc[s] =>
              /\ s = r
              /\ at'[s] = None \/ pc'[s] \in HasStaging
              /\ pc[s] \in Published => pc'[s] \in Published
              /\ pc'[s] = "publish" => at'[KeyOf[s]] = None
        BY <2>1, <2>4, <3>3 DEF TypeOK, Published, Finished
      <3>5. PlaceInv' /\ RemovalInv' /\ RenameTargetFree'
        BY <2>1, <3>2, <3>4, EndDir
      <3>6. ClearInv'
        BY <2>1, <3>2, RolesAreDisjoint DEF DirInv, ClearInv, TypeOK, Actor
      <3> QED BY <3>5, <3>6 DEF DirInv
    <2> QED BY <1>10, <2>2, <2>3, <2>4 DEF Cleanup
  <1>11. ASSUME NEW r \in Storer, Publish(r) PROVE DirInv'
    <2> DEFINE k == KeyOf[r]
    <2>1. /\ r \in Request /\ k \in Key /\ r \notin Key /\ pc[r] = "publish"
          /\ at[k] = None /\ rmDir[r] = None
      BY <1>0, <1>11, KeyOfType, RolesAreDisjoint DEF Publish, Request, DirInv, RenameTargetFree
    <2>2. CASE at[r] = None
      <3>1. Fail(r) /\ Active(r)
        BY <1>11, <2>1, <2>2 DEF Publish, Active, Finished
      <3> QED BY <1>3, <2>1, <3>1
    <2>3. CASE at[r] # None
      <3>1. /\ at' = [at EXCEPT ![k] = r, ![r] = None]
            /\ pc' = [pc EXCEPT ![r] = "unlock"]
            /\ UNCHANGED <<file, rmDir, rmTodo, cpc, cur>>
        BY <1>11, <2>1, <2>3 DEF Publish, Removable, Contents
      <3> HIDE DEF k
      <3>2. /\ at'[k] = r /\ at'[r] = None /\ at[r] = r /\ k # r
            /\ \A n \in Name \ {k, r} : at'[n] = at[n]
            /\ pc'[r] = "unlock" /\ \A s \in Storer \ {r} : pc'[s] = pc[s]
        BY <2>1, <2>3, <3>1 DEF TypeOK, DirInv, PlaceInv, Name, Request
      <3>3. PlaceInv'
        <4>1. \A s \in Storer : s \in Name /\ s # k /\ s # None
          BY <2>1, RolesAreDisjoint, NoneIsNoName DEF Name, Request
        <4>2. \A l \in Key : l \in Name /\ l # r
          BY <2>1 DEF Name
        <4>3. KeyOf[r] = k /\ pc[r] \notin Published /\ "unlock" \in Published
          BY <2>1 DEF k, Published, Finished
        <4> QED BY <2>1, <3>2, <4>1, <4>2, <4>3 DEF DirInv, PlaceInv
      <3>4. RemovalInv'
        <4>1. \A d : Files(d)' = Files(d)
          BY <3>1 DEF Files
        <4>2. \A s \in Storer : pc[s] \in Published => pc'[s] \in Published
          BY <2>1, <3>2 DEF Published, Finished
        <4>3. \A s \in Storer : pc[s] = "remove" => KeyOf[s] # k
          BY <2>1, LockExcludes DEF MutualExclusion, Locked, Holding, k
        <4>4. ASSUME NEW s \in Storer, pc'[s] = "remove", rmDir[s] # None
              PROVE  /\ \/ rmDir[s] = KeyOf[s]
                        \/ /\ rmDir[s] \in Storer
                           /\ KeyOf[rmDir[s]] = KeyOf[s]
                           /\ pc'[rmDir[s]] \in Published
                     /\ at'[KeyOf[s]] # None => at'[KeyOf[s]] = rmDir[s]
                     /\ Files(rmDir[s]) \subseteq rmTodo[s]
          <5>1. pc[s] = "remove" /\ s # r
            BY <3>2, <4>4
          <5>2. KeyOf[s] \in Name \ {k, r}
            BY <4>3, <5>1, KeyOfType, RolesAreDisjoint DEF Name, Request
          <5>3. at'[KeyOf[s]] = at[KeyOf[s]]
            BY <3>2, <5>2
          <5> QED BY <4>2, <4>4, <5>1, <5>3 DEF DirInv, RemovalInv
        <4>5. ASSUME NEW s \in Storer, pc'[s] = "cleanup", rmDir[s] # None
              PROVE  /\ rmDir[s] = s
                     /\ \A l \in Key : at'[l] # s
                     /\ Files(s) \subseteq rmTodo[s]
          <5>1. pc[s] = "cleanup" /\ s # r
            BY <3>2, <4>5
          <5> QED BY <2>1, <3>2, <4>5, <5>1 DEF DirInv, RemovalInv, Name
        <4>6. ASSUME NEW s \in Request, rmDir[s] # None
              PROVE  s \in Storer /\ pc'[s] \in {"remove", "cleanup"}
          BY <1>0, <2>1, <3>2, <4>6
        <4> QED BY <3>1, <4>1, <4>4, <4>5, <4>6 DEF RemovalInv
      <3>5. ClearInv'
        BY <3>1 DEF DirInv, ClearInv
      <3>6. RenameTargetFree'
        <4>1. \A s \in Storer \ {r} : pc[s] = "publish" => KeyOf[s] \in Name \ {k, r}
          BY <2>1, LockExcludes, KeyOfType, RolesAreDisjoint
          DEF MutualExclusion, Locked, Holding, k, Name, Request
        <4> QED BY <3>2, <4>1 DEF DirInv, RenameTargetFree
      <3> QED BY <3>3, <3>4, <3>5, <3>6 DEF DirInv
    <2> QED BY <2>2, <2>3
  <1>12. ASSUME NEW c \in Clearer, ClearList(c) \/ ClearDone(c) PROVE DirInv'
    <2>1. /\ UNCHANGED <<at, file, pc, rmDir, rmTodo, cur>>
          /\ cur[c] # None => cpc'[c] = cpc[c]
          /\ \A b \in Clearer \ {c} : cpc'[b] = cpc[b]
      BY <1>12 DEF ClearList, ClearDone, TypeOK, DirInv, ClearInv
    <2> QED BY <2>1 DEF DirInv, PlaceInv, RemovalInv, ClearInv, RenameTargetFree, Files
  <1>13. ASSUME NEW c \in Clearer, NEW n \in Name, RemoveAllStep(c, n), rmDir[c] = None,
                cur' = [cur EXCEPT ![c] = n], cpc[c] = "sweep", UNCHANGED <<pc, cpc>>
         PROVE  DirInv'
    <2>1. c \in Actor /\ \A r \in Request : r # c
      BY RolesAreDisjoint DEF Actor
    <2>2. /\ UNCHANGED <<at, file>> /\ rmDir'[c] # None /\ cur'[c] # None
          /\ \A a \in Actor \ {c} : rmDir'[a] = rmDir[a] /\ rmTodo'[a] = rmTodo[a]
          /\ \A a \in Clearer \ {c} : cur'[a] = cur[a]
      BY <1>13, <2>1, NoneIsNoName DEF RemoveAllStep, TypeOK
    <2>3. \A r \in Request : rmDir'[r] = rmDir[r] /\ rmTodo'[r] = rmTodo[r]
      BY <2>1, <2>2 DEF Actor
    <2>4. \A d : Files(d)' = Files(d)
      BY <2>2 DEF Files
    <2>5. RemovalInv'
      BY <1>13, <2>2, <2>3, <2>4 DEF DirInv, RemovalInv, Request
    <2>6. ClearInv'
      BY <1>13, <2>2 DEF DirInv, ClearInv, Actor
    <2> QED BY <1>13, <2>2, <2>5, <2>6 DEF DirInv, PlaceInv, RenameTargetFree
  <1>14. ASSUME NEW c \in Clearer, ClearOpen(c) PROVE DirInv'
    <2>1. PICK n \in First(list[c]) :
            IF at[n] = None
            THEN list' = [list EXCEPT ![c] = @ \ {n}] /\ UNCHANGED <<dirVars, rmVars, cur>>
            ELSE cur' = [cur EXCEPT ![c] = n] /\ RemoveAllStep(c, n) /\ UNCHANGED list
      BY <1>14 DEF ClearOpen
    <2>2. n \in Name /\ rmDir[c] = None /\ cpc[c] = "sweep" /\ UNCHANGED <<pc, cpc>>
      BY <1>14 DEF ClearOpen, First, TypeOK, DirInv, ClearInv
    <2>3. CASE at[n] = None
      BY <2>1, <2>2, <2>3 DEF DirInv, PlaceInv, RemovalInv, ClearInv, RenameTargetFree, Files
    <2>4. CASE at[n] # None
      BY <1>13, <2>1, <2>2, <2>4
    <2> QED BY <2>3, <2>4
  <1>15. ASSUME NEW c \in Clearer, ClearUnlink(c) PROVE DirInv'
    <2>1. c \in Actor /\ rmDir[c] # None /\ RemoveAllStep(c, cur[c]) /\ UNCHANGED <<pc, cpc, cur>>
      BY <1>15 DEF ClearUnlink, Actor
    <2> QED BY <2>1, UnlinkDir DEF RemoveAllStep
  <1>16. ASSUME NEW c \in Clearer, ClearRmdir(c) PROVE DirInv'
    <2>1. /\ c \in Actor /\ cur[c] \in Name /\ UNCHANGED pc
          /\ rmDir' = [rmDir EXCEPT ![c] = None]
          /\ at' = [at EXCEPT ![cur[c]] = IF Removable(cur[c]) THEN None ELSE @]
          /\ UNCHANGED <<file, rmTodo>>
      BY <1>16 DEF ClearRmdir, RemoveAllEnd, Actor, TypeOK
    <2>2. PlaceInv' /\ RemovalInv' /\ RenameTargetFree'
      BY <2>1, EndDir
    <2>3. /\ cur'[c] = None /\ rmDir'[c] = None
          /\ \A b \in Clearer \ {c} : cur'[b] = cur[b] /\ cpc'[b] = cpc[b] /\ rmDir'[b] = rmDir[b]
      BY <1>16, <2>1 DEF ClearRmdir, TypeOK, Actor
    <2>4. ClearInv'
      BY <2>3 DEF DirInv, ClearInv
    <2> QED BY <2>2, <2>4 DEF DirInv
  <1>17. ASSUME NEW c \in Clearer, ClearStop(c) PROVE DirInv'
    <2>1. /\ UNCHANGED <<at, file, pc>> /\ cur'[c] = None /\ rmDir'[c] = None
          /\ \A b \in Clearer \ {c} : cur'[b] = cur[b] /\ cpc'[b] = cpc[b] /\ rmDir'[b] = rmDir[b]
          /\ \A r \in Request : rmDir'[r] = rmDir[r] /\ rmTodo'[r] = rmTodo[r]
      BY <1>17, RolesAreDisjoint DEF ClearStop, StopRemoval, TypeOK, Actor
    <2>2. \A d : Files(d)' = Files(d)
      BY <2>1 DEF Files
    <2>3. RemovalInv'
      BY <2>1, <2>2 DEF DirInv, RemovalInv, Request
    <2> QED BY <2>1, <2>3 DEF DirInv, PlaceInv, ClearInv, RenameTargetFree
  <1>18. CASE UNCHANGED vars
    BY <1>18 DEF vars, DirInv, PlaceInv, RemovalInv, ClearInv, RenameTargetFree, Files
  <1>19. ASSUME NEW r \in Request, Interrupt(r) PROVE DirInv'
    BY <1>3, <1>19 DEF Interrupt
  <1> QED
    BY <1>1, <1>2, <1>4, <1>5, <1>6, <1>7, <1>8, <1>9, <1>10, <1>11, <1>12, <1>14, <1>15, <1>16,
       <1>17, <1>18, <1>19
    DEF Next, Progress, StoreStep, Environment, ClearStep

\* A storer with a staging directory is in a call that has not returned.
LEMMA DirStagingLeft == DirInv => NoStagingLeft
  BY DEF DirInv, PlaceInv, HasStaging, Holding, NoStagingLeft

\* Every directory is where PlaceInv says, and every removal in progress has
\* open what RemovalInv and ClearInv say, whatever the calls and their order.
THEOREM DirsInPlace == Spec => [](TypeOK /\ LockInv /\ DirInv)
  BY InitType, NextType, InitLock, NextLock, InitDir, NextDir, PTL DEF Spec

\* A call that returned has left no staging directory, however it ended.
THEOREM StagingIsRemoved == Spec => []NoStagingLeft
  BY DirsInPlace, DirStagingLeft, PTL

\* Rename never meets a directory under its key.
THEOREM RenameIsFree == Spec => []RenameTargetFree
  <1>1. DirInv => RenameTargetFree
    BY DEF DirInv
  <1> QED BY <1>1, DirsInPlace, PTL
-----------------------------------------------------------------------------
(* What directories hold.                                                  *)

\* The phases in which a storer that has its answer is still cleaning up.
Returning == {"unlock", "cleanup", "answer"}

\* The phases between the verification of the staging directory and its rename.
Checked == {"describe", "lockfile", "acquire", "relookup", "reverify", "remove", "publish"}

\* What was checked stays free of bad archives on its way to a key and from
\* there to a caller, and nobody is about to remove an entry that can be used.
ContentInv ==
    /\ \A s \in Storer : pc[s] \in Checked => file[s]["archive"] # "bad"
    /\ \A k \in Key, s \in Storer : at[k] = s => file[s]["archive"] # "bad"
    /\ \A r \in Request : 
          ret[r] = "path" /\ pc[r] \in Returning /\ at[KeyOf[r]] # None
          => file[at[KeyOf[r]]]["archive"] # "bad"
    /\ \A r \in Request : pc[r] = "answer" => ret[r] = "path"
    /\ OnlyUnusableRemoved
    /\ ServedIsVerified

\* At the start nothing has been verified, promised or found.
LEMMA InitContent == Init => ContentInv
  BY NoneIsNoName, RolesAreDisjoint
  DEF Init, ContentInv, Checked, Returning, OnlyUnusableRemoved, ServedIsVerified, Request, Name

\* A step, of a request r or of something else, that adds nothing to a
\* directory and puts none under a key.
LEMMA ShrinkContent ==
  ASSUME TypeOK, ContentInv, NEW r,
         \A k \in Key : at'[k] = at[k] \/ at'[k] = None,
         \A d \in Name, f \in File : file'[d][f] = file[d][f] \/ file'[d][f] = "none",
         \A s \in Request \ {r} : pc'[s] = pc[s] /\ ret'[s] = ret[s] /\ got'[s] = got[s],
         r \in Storer /\ pc'[r] \in Checked => pc[r] \in Checked \/ file[r]["archive"] # "bad",
         r \in Request /\ ret'[r] = "path" /\ pc'[r] \in Returning =>
             (ret[r] = "path" /\ pc[r] \in Returning) \/ Verified(KeyOf[r]),
         r \in Request /\ pc'[r] = "answer" => ret'[r] = "path",
         r \in Storer /\ pc'[r] \in {"remove", "publish"} =>
             pc[r] \in {"remove", "publish"} \/ ~Complete(KeyOf[r]),
         r \in Request => got'[r] # "bad"
  PROVE  ContentInv'
  <1>1. \A s \in Request : KeyOf[s] \in Key
    BY KeyOfType
  <1>2. \A s \in Storer : s \in Request /\ s \in Name
    BY DEF Request, Name
  <1>3. ASSUME NEW k \in Key, at'[k] # None
        PROVE  /\ at'[k] = at[k] /\ at[k] \in Name
               /\ \A f \in File : file'[at[k]][f] # "none" => file'[at[k]][f] = file[at[k]][f]
    BY <1>3 DEF TypeOK, Name
  <1>4. \A k \in Key : Complete(k)' => Complete(k)
    BY <1>3 DEF Complete, Has, File
  <1>5. \A s \in Storer : pc'[s] \in Checked => file'[s]["archive"] # "bad"
    BY <1>2 DEF ContentInv, File
  <1>6. \A k \in Key, s \in Storer : at'[k] = s => file'[s]["archive"] # "bad"
    BY <1>2, NoneIsNoName DEF ContentInv, File
  <1>7. \A s \in Request :
          ret'[s] = "path" /\ pc'[s] \in Returning /\ at'[KeyOf[s]] # None
          => file'[at'[KeyOf[s]]]["archive"] # "bad"
    BY <1>1, <1>3 DEF ContentInv, Verified, Has, File
  <1>8. \A s \in Request : pc'[s] = "answer" => ret'[s] = "path"
    BY DEF ContentInv
  <1>9. OnlyUnusableRemoved'
    BY <1>1, <1>2, <1>4 DEF ContentInv, OnlyUnusableRemoved
  <1>10. ServedIsVerified'
    BY DEF ContentInv, ServedIsVerified
  <1> QED BY <1>5, <1>6, <1>7, <1>8, <1>9, <1>10 DEF ContentInv

\* A storer writes to a directory that no key names.
LEMMA WriteContent ==
  ASSUME TypeOK, ContentInv, NEW r \in Storer,
         UNCHANGED <<at, ret, got>>,
         \A k \in Key : at[k] # r,
         \A d \in Name \ {r} : file'[d] = file[d],
         \A s \in Request \ {r} : pc'[s] = pc[s],
         pc'[r] \notin {"remove", "publish", "answer"} \cup Returning,
         pc'[r] \in Checked => file'[r]["archive"] # "bad"
  PROVE  ContentInv'
  <1>1. \A s \in Request : KeyOf[s] \in Key
    BY KeyOfType
  <1>2. \A s \in Storer : s \in Request /\ s \in Name
    BY DEF Request, Name
  <1>3. \A k \in Key : at[k] # None => at[k] \in Name /\ file'[at[k]] = file[at[k]]
    BY DEF TypeOK, Name
  <1>4. \A k \in Key : Complete(k)' <=> Complete(k)
    BY <1>3 DEF Complete, Has
  <1>5. OnlyUnusableRemoved'
    BY <1>1, <1>2, <1>4 DEF ContentInv, OnlyUnusableRemoved
  <1>6. ServedIsVerified'
    BY DEF ContentInv, ServedIsVerified
  <1>7. \A s \in Request :
          ret'[s] = "path" /\ pc'[s] \in Returning /\ at'[KeyOf[s]] # None
          => file'[at'[KeyOf[s]]]["archive"] # "bad"
    BY <1>1, <1>3 DEF ContentInv
  <1> QED BY <1>2, <1>3, <1>5, <1>6, <1>7 DEF ContentInv, Returning
\* A step of RemoveAll adds no file, and no directory to the cache.
LEMMA RemovalShrinks ==
  ASSUME TypeOK, NEW a \in Actor, NEW n \in Name,
         RemoveAllStep(a, n) \/ RemoveAllEnd(a, n)
  PROVE  /\ \A m \in Name : at'[m] = at[m] \/ at'[m] = None
         /\ \A d \in Name, f \in File : file'[d][f] = file[d][f] \/ file'[d][f] = "none"
  <1>1. CASE UNCHANGED dirVars
    BY <1>1 DEF dirVars
  <1>2. CASE \E f \in rmTodo[a] : file' = [file EXCEPT ![rmDir[a]][f] = "none"] /\ UNCHANGED at
    BY <1>2 DEF TypeOK
  <1>3. CASE RemoveAllEnd(a, n)
    BY <1>3 DEF RemoveAllEnd, TypeOK
  <1> QED BY <1>1, <1>2, <1>3 DEF RemoveAllStep

\* Every step keeps what has been verified, promised or found.
LEMMA NextContent == TypeOK /\ LockInv /\ DirInv /\ ContentInv /\ [Next]_vars => ContentInv'
  <1> SUFFICES ASSUME TypeOK, LockInv, DirInv, ContentInv, [Next]_vars PROVE ContentInv'
    OBVIOUS
  <1> USE DEF Goto, dirVars, lockVars, callVars, rmVars, clearVars
  <1>0. /\ \A s \in Storer : s \in Request /\ s \in Name /\ s \in Actor
        /\ \A s \in Request : KeyOf[s] \in Key /\ KeyOf[s] \in Name
        /\ \A k \in Key : k \in Name
        /\ \A s \in Request : got[s] # "bad"
    BY KeyOfType DEF Request, Name, Actor, ContentInv, ServedIsVerified
  <1>1. ASSUME NEW r \in Request, Begin(r) \/ ReadMetadata(r) \/ VerifyEntry(r) PROVE ContentInv'
    <2>1. /\ UNCHANGED <<at, file, got>>
          /\ \A s \in Request \ {r} : pc'[s] = pc[s] /\ ret'[s] = ret[s]
      BY <1>1 DEF Begin, ReadMetadata, VerifyEntry, TypeOK
    <2>2. /\ r \in Storer /\ pc'[r] \in Checked => pc[r] \in Checked
          /\ ret'[r] = "path" /\ pc'[r] \in Returning => Verified(KeyOf[r])
          /\ pc'[r] = "answer" => ret'[r] = "path"
          /\ pc'[r] \in {"remove", "publish"} => ~Complete(KeyOf[r])
      BY <1>1 DEF Begin, ReadMetadata, VerifyEntry, AfterMiss, Locked, Holding, TypeOK,
                  Checked, Returning, Complete, Verified
    <2> QED BY <1>0, <2>1, <2>2, ShrinkContent
  <1>2. ASSUME NEW r \in Request, Open(r) PROVE ContentInv'
    <2>1. /\ UNCHANGED <<at, file, ret>> /\ pc[r] = "answer" /\ pc'[r] \in {"failed", "reading"}
          /\ \A s \in Request \ {r} : pc'[s] = pc[s] /\ got'[s] = got[s]
      BY <1>2 DEF Open, TypeOK
    <2>2. got'[r] # "bad"
      <3>1. CASE ArchiveGone(KeyOf[r])
        BY <1>2, <3>1 DEF Open, TypeOK
      <3>2. CASE ~ArchiveGone(KeyOf[r])
        <4>1. at[KeyOf[r]] # None /\ ret[r] = "path" /\ pc[r] \in Returning
          BY <2>1, <3>2 DEF ArchiveGone, Contents, ContentInv, Returning
        <4>2. got'[r] = file[at[KeyOf[r]]]["archive"]
          BY <1>2, <3>2 DEF Open, TypeOK
        <4> QED BY <4>1, <4>2 DEF ContentInv
      <3> QED BY <3>1, <3>2
    <2> QED BY <1>0, <2>1, <2>2, ShrinkContent DEF Checked, Returning
  <1>3. ASSUME NEW r \in Storer, MakeStaging(r) \/ OpenLockFile(r) \/ Acquire(r) \/ Unlock(r)
        PROVE  ContentInv'
    <2>1. /\ UNCHANGED <<file, got, ret>> /\ \A k \in Key : at'[k] = at[k]
          /\ \A s \in Request \ {r} : pc'[s] = pc[s]
      BY <1>3, RolesAreDisjoint
      DEF MakeStaging, OpenLockFile, Acquire, LookAgain, Unlock, TypeOK, Request, Name
    <2>2. /\ pc'[r] \in Checked => pc[r] \in Checked
          /\ pc'[r] \in Returning => pc[r] \in Returning
          /\ pc'[r] \notin {"answer", "remove", "publish"}
      BY <1>0, <1>3 DEF MakeStaging, OpenLockFile, Acquire, LookAgain, Unlock, TypeOK, Checked, Returning
    <2> QED BY <1>0, <2>1, <2>2, ShrinkContent
  <1>4. ASSUME NEW r \in Request, Fail(r) \/ Crash(r) PROVE ContentInv'
    <2>1. /\ UNCHANGED <<at, file, got>>
          /\ \A s \in Request \ {r} : pc'[s] = pc[s] /\ ret'[s] = ret[s]
          /\ ret'[r] # "path"
      BY <1>4 DEF Fail, Crash, TypeOK
    <2>2. pc'[r] \notin Checked \cup {"answer", "remove", "publish"}
      BY <1>4 DEF Fail, ErrorPath, Crash, TypeOK, Checked
    <2> QED BY <1>0, <2>1, <2>2, ShrinkContent
  <1>5. ASSUME NEW r \in Storer, pc[r] \in {"download", "fetch", "describe"} PROVE \A k \in Key : at[k] # r
    BY <1>5 DEF DirInv, PlaceInv, Published, Finished
  <1>6. ASSUME NEW r \in Storer, StartDownload(r) \/ FinishDownload(r) PROVE ContentInv'
    <2>1. /\ UNCHANGED <<at, got, ret>>
          /\ \A d \in Name \ {r} : file'[d] = file[d]
          /\ \A s \in Request \ {r} : pc'[s] = pc[s]
          /\ pc'[r] \in {"fetch", "dead", "check"}
          /\ pc[r] \in {"download", "fetch"}
      BY <1>0, <1>6 DEF StartDownload, FinishDownload, TypeOK
    <2> QED BY <1>5, <2>1, WriteContent DEF Checked, Returning
  <1>7. ASSUME NEW r \in Storer, CheckStaging(r) PROVE ContentInv'
    <2>1. CASE Verified(r)
      <3>1. /\ UNCHANGED <<at, file, got, ret>>
            /\ \A s \in Request \ {r} : pc'[s] = pc[s]
            /\ pc'[r] = "describe"
        BY <1>0, <1>7, <2>1 DEF CheckStaging, TypeOK
      <3>2. file[r]["archive"] # "bad"
        BY <2>1 DEF Verified, Has, DirInv, PlaceInv
      <3> QED BY <1>0, <3>1, <3>2, ShrinkContent DEF Returning
    <2>2. CASE ~Verified(r)
      BY <1>0, <1>4, <1>7, <2>2 DEF CheckStaging
    <2> QED BY <2>1, <2>2
  <1>8. ASSUME NEW r \in Storer, WriteMetadata(r) PROVE ContentInv'
    <2>1. CASE at[r] # None
      <3>0. /\ UNCHANGED <<at, got, ret>> /\ pc[r] = "describe"
            /\ file' = [file EXCEPT ![r]["meta"] = "good"]
            /\ pc' = [pc EXCEPT ![r] = "lockfile"]
        BY <1>8, <2>1 DEF WriteMetadata
      <3>1. /\ UNCHANGED <<at, got, ret>>
            /\ \A d \in Name \ {r} : file'[d] = file[d]
            /\ file'[r]["archive"] = file[r]["archive"]
            /\ \A s \in Request \ {r} : pc'[s] = pc[s]
            /\ pc'[r] = "lockfile" /\ pc[r] = "describe"
        <4>1. file'[r]["archive"] = file[r]["archive"]
          BY <1>0, <3>0 DEF TypeOK, File
        <4>2. \A d \in Name \ {r} : file'[d] = file[d]
          BY <1>0, <3>0 DEF TypeOK
        <4> QED BY <1>0, <3>0, <4>1, <4>2 DEF TypeOK
      <3>2. file[r]["archive"] # "bad"
        BY <3>1 DEF ContentInv, Checked
      <3> QED BY <1>5, <3>1, <3>2, WriteContent DEF Returning
    <2>2. CASE at[r] = None
      BY <1>0, <1>4, <1>8, <2>2 DEF WriteMetadata
    <2> QED BY <2>1, <2>2
  <1>9. ASSUME NEW r \in Storer, RemoveOld(r) \/ Cleanup(r) PROVE ContentInv'
    <2>1. /\ UNCHANGED <<got, ret>> /\ \A s \in Request \ {r} : pc'[s] = pc[s]
          /\ pc'[r] \in Checked => pc[r] \in Checked
          /\ pc'[r] \in Returning => pc[r] \in Returning
          /\ pc'[r] = "answer" => ret'[r] = "path"
          /\ pc'[r] \in {"remove", "publish"} => pc[r] \in {"remove", "publish"}
      BY <1>0, <1>9 DEF RemoveOld, Cleanup, TypeOK, Checked, Returning
    <2>2. /\ \A m \in Name : at'[m] = at[m] \/ at'[m] = None
          /\ \A d \in Name, f \in File : file'[d][f] = file[d][f] \/ file'[d][f] = "none"
      BY <1>0, <1>9, RemovalShrinks DEF RemoveOld, Cleanup
    <2> QED BY <1>0, <2>1, <2>2, ShrinkContent
  <1>10. ASSUME NEW r \in Storer, Publish(r) PROVE ContentInv'
    <2> DEFINE k == KeyOf[r]
    <2>1. CASE ~(at[r] # None /\ Removable(k))
      BY <1>0, <1>4, <1>10, <2>1 DEF Publish
    <2>2. CASE at[r] # None /\ Removable(k)
      <3>1. /\ at'[k] = r /\ \A l \in Key \ {k} : at'[l] = at[l]
            /\ UNCHANGED <<file, got>>
            /\ \A s \in Request \ {r} : pc'[s] = pc[s] /\ ret'[s] = ret[s]
            /\ pc'[r] = "unlock" /\ pc[r] = "publish"
        BY <1>0, <1>10, <2>2, RolesAreDisjoint DEF Publish, TypeOK, Request
      <3>2. file[r]["archive"] # "bad"
        BY <3>1 DEF ContentInv, Checked
      <3>3. \A s \in Storer \ {r} : pc[s] \in {"remove", "publish"} => KeyOf[s] # k
        BY <3>1, LockExcludes DEF MutualExclusion, Locked, Holding
      <3> HIDE DEF k
      <3>4. \A l \in Key \ {k} : Complete(l)' <=> Complete(l)
        BY <3>1 DEF Complete, Has
      <3>5. OnlyUnusableRemoved'
        BY <1>0, <3>1, <3>3, <3>4 DEF ContentInv, OnlyUnusableRemoved
      <3>6. ServedIsVerified'
        BY <3>1 DEF ContentInv, ServedIsVerified
      <3>7. \A s \in Request :
              ret'[s] = "path" /\ pc'[s] \in Returning /\ at'[KeyOf[s]] # None
              => file'[at'[KeyOf[s]]]["archive"] # "bad"
        BY <1>0, <3>1, <3>2 DEF ContentInv, k
      <3>8. \A l \in Key, s \in Storer : at'[l] = s => file'[s]["archive"] # "bad"
        BY <3>1, <3>2 DEF ContentInv
      <3>9. \A s \in Storer : pc'[s] \in Checked => file'[s]["archive"] # "bad"
        BY <1>0, <3>1 DEF ContentInv, Checked
      <3>10. \A s \in Request : pc'[s] = "answer" => ret'[s] = "path"
        BY <3>1 DEF ContentInv
      <3> QED BY <3>5, <3>6, <3>7, <3>8, <3>9, <3>10 DEF ContentInv
    <2> QED BY <2>1, <2>2
  <1>11. ASSUME NEW c \in Clearer, ClearStep(c) PROVE ContentInv'
    <2>1. UNCHANGED callVars /\ c \notin Request /\ c \in Actor
      BY <1>11, RolesAreDisjoint
      DEF ClearStep, ClearList, ClearOpen, ClearUnlink, ClearRmdir, ClearDone, ClearStop, Actor
    <2>2. \/ UNCHANGED <<at, file>>
          \/ \E n \in Name : RemoveAllStep(c, n) \/ RemoveAllEnd(c, n)
      BY <1>11 DEF ClearStep, ClearList, ClearOpen, ClearUnlink, ClearRmdir, ClearDone, ClearStop,
                   First, TypeOK
    <2>3. /\ \A m \in Name : at'[m] = at[m] \/ at'[m] = None
          /\ \A d \in Name, f \in File : file'[d][f] = file[d][f] \/ file'[d][f] = "none"
      BY <2>1, <2>2, RemovalShrinks
    <2> QED BY <1>0, <2>1, <2>3, ShrinkContent
  <1>12. CASE UNCHANGED vars
    BY <1>12 DEF vars, ContentInv, OnlyUnusableRemoved, ServedIsVerified, Complete, Has
  <1> QED
    BY <1>0, <1>1, <1>2, <1>3, <1>4, <1>6, <1>7, <1>8, <1>9, <1>10, <1>11, <1>12
    DEF Next, Progress, StoreStep, Environment, Interrupt

\* The inductive invariant.
IInv == TypeOK /\ LockInv /\ DirInv /\ ContentInv

\* The invariant the theorems below rest on: types, the lock discipline, the
\* places of directories and what has been verified, which no single property
\* keeps by itself.
THEOREM Inductive == Spec => []IInv
  <1>1. Init => IInv
    BY InitType, InitLock, InitDir, InitContent DEF IInv
  <1>2. IInv /\ [Next]_vars => IInv'
    BY NextType, NextLock, NextDir, NextContent DEF IInv
  <1> QED BY <1>1, <1>2, PTL DEF Spec

\* Nobody who opens the path he was given finds a wrong archive there.
THEOREM VerifiedIsServed == Spec => []ServedIsVerified
  <1>1. IInv => ServedIsVerified
    BY DEF IInv, ContentInv
  <1> QED BY <1>1, Inductive, PTL

\* What the second Lookup found is still true when the entry is removed.
THEOREM UnusableIsRemoved == Spec => []OnlyUnusableRemoved
  <1>1. IInv => OnlyUnusableRemoved
    BY DEF IInv, ContentInv
  <1> QED BY <1>1, Inductive, PTL
-----------------------------------------------------------------------------
(* What each step does to the keys.                                        *)

\* A step of a request changes only what its key names, adds files only to a
\* staging directory, and takes nothing away from a complete entry.
RequestEffect(r) ==
    /\ UNCHANGED clearVars
    /\ \A a \in Actor \ {r} : rmDir'[a] = rmDir[a] /\ rmTodo'[a] = rmTodo[a]
    /\ \A s \in Storer : pc[s] \in Published => pc'[s] \in Published
    /\ \A d \in Name : Files(d)' \subseteq Files(d) \/ (d \in Storer /\ pc[d] \notin Published)
    /\ \A k \in Key : at'[k] # at[k] => k = KeyOf[r] /\ Contents(k) = {}
    /\ \A k \in Key : Complete(k) =>
          at'[k] = at[k] /\ \A f \in File : file'[at[k]][f] = file[at[k]][f]

\* Every step of a request, an error return and a crash included, is of that kind.
LEMMA RequestStep ==
  ASSUME IInv, NEW r \in Request, Progress(r) \/ Environment(r)
  PROVE  RequestEffect(r)
  <1> USE DEF Goto, dirVars, lockVars, callVars, rmVars, clearVars
  <1>0. /\ TypeOK /\ LockInv /\ PlaceInv /\ RemovalInv /\ RenameTargetFree /\ OnlyUnusableRemoved
        /\ \A s \in Storer : s \in Request /\ s \in Name /\ s \in Actor /\ s \notin Key
        /\ KeyOf[r] \in Key /\ r \in Actor
        /\ \A k \in Key : k \in Name
    BY KeyOfType, RolesAreDisjoint DEF IInv, DirInv, ContentInv, Request, Name, Actor
  <1>1. CASE Begin(r) \/ ReadMetadata(r) \/ VerifyEntry(r) \/ Open(r) \/ Crash(r) \/ (Fail(r) /\ Interrupt(r))
    <2>1. UNCHANGED <<dirVars, clearVars>> /\ \A a \in Actor \ {r} : rmDir'[a] = rmDir[a] /\ rmTodo'[a] = rmTodo[a]
      BY <1>0, <1>1 DEF Begin, ReadMetadata, VerifyEntry, Open, Fail, StopRemoval, Crash, TypeOK
    <2>2. \A s \in Storer : pc[s] \in Published => pc'[s] \in Published
      BY <1>0, <1>1 DEF Begin, ReadMetadata, VerifyEntry, Open, Interrupt, Active, Fail, Crash, TypeOK,
                        Published, Finished
    <2> QED BY <2>1, <2>2 DEF Files, Complete, Has, RequestEffect
  <1>2. CASE Fail(r) /\ pc[r] \in {"check", "describe", "publish"}
    <2>1. UNCHANGED <<dirVars, clearVars>> /\ \A a \in Actor \ {r} : rmDir'[a] = rmDir[a] /\ rmTodo'[a] = rmTodo[a]
      BY <1>0, <1>2 DEF Fail, StopRemoval, TypeOK
    <2>2. \A s \in Storer : pc[s] \in Published => pc'[s] \in Published
      BY <1>0, <1>2 DEF Fail, TypeOK, Published, Finished
    <2> QED BY <2>1, <2>2 DEF Files, Complete, Has, RequestEffect
  <1>3. CASE r \in Storer /\ (MakeStaging(r) \/ OpenLockFile(r) \/ Acquire(r) \/ Unlock(r)
                              \/ (CheckStaging(r) /\ ~Fail(r)))
    <2>1. /\ UNCHANGED <<file, rmVars, clearVars>>
          /\ \A k \in Key : at'[k] = at[k]
      BY <1>0, <1>3 DEF MakeStaging, OpenLockFile, Acquire, Unlock, CheckStaging, TypeOK
    <2>2. \A s \in Storer : pc[s] \in Published => pc'[s] \in Published
      BY <1>0, <1>3 DEF MakeStaging, OpenLockFile, Acquire, LookAgain, Unlock, CheckStaging, TypeOK,
                        Published, Finished
    <2> QED BY <2>1, <2>2 DEF Files, Complete, Has, RequestEffect
  <1>4. CASE r \in Storer /\ (StartDownload(r) \/ FinishDownload(r) \/ (WriteMetadata(r) /\ ~Fail(r)))
    <2>1. /\ UNCHANGED <<at, rmVars, clearVars>>
          /\ \A d \in Name \ {r} : file'[d] = file[d]
          /\ pc[r] \in {"download", "fetch", "describe"}
      BY <1>0, <1>4 DEF StartDownload, FinishDownload, WriteMetadata, TypeOK
    <2>2. \A s \in Storer : pc[s] \in Published => pc'[s] \in Published
      BY <1>0, <1>4 DEF StartDownload, FinishDownload, WriteMetadata, TypeOK, Published, Finished
    <2>3. pc[r] \notin Published /\ \A k \in Key : at[k] # r
      BY <1>0, <1>4, <2>1 DEF PlaceInv, Published, Finished
    <2>4. \A d \in Name \ {r} : Files(d)' = Files(d)
      BY <2>1 DEF Files
    <2>5. \A k \in Key : Complete(k) => at[k] \in Name \ {r}
      BY <1>0, <2>3 DEF Complete, Has, TypeOK
    <2> QED BY <1>4, <2>1, <2>2, <2>3, <2>4, <2>5 DEF RequestEffect
  <1>5. CASE r \in Storer /\ (RemoveOld(r) \/ Cleanup(r))
    <2> DEFINE n == IF pc[r] = "remove" THEN KeyOf[r] ELSE r
    <2>1. /\ UNCHANGED clearVars /\ n \in Name /\ pc[r] \in {"remove", "cleanup"}
          /\ RemoveAllStep(r, n) \/ RemoveAllEnd(r, n)
      BY <1>0, <1>5 DEF RemoveOld, Cleanup
    <2>2. \A s \in Storer : pc[s] \in Published => pc'[s] \in Published
      BY <1>0, <1>5 DEF RemoveOld, Cleanup, TypeOK, Published, Finished
    <2>3. /\ \A a \in Actor \ {r} : rmDir'[a] = rmDir[a] /\ rmTodo'[a] = rmTodo[a]
          /\ \A m \in Name : at'[m] # at[m] => m = n /\ Removable(n)
          /\ \A d \in Name : file'[d] # file[d] => d = rmDir[r] /\ rmDir[r] # None
      <3>1. CASE RemoveAllEnd(r, n)
        BY <1>0, <2>1, <3>1 DEF RemoveAllEnd, TypeOK
      <3>2. CASE RemoveAllStep(r, n) /\ rmDir[r] = None
        BY <1>0, <2>1, <3>2 DEF RemoveAllStep, TypeOK
      <3>3. CASE RemoveAllStep(r, n) /\ rmDir[r] # None
        BY <1>0, <2>1, <3>3 DEF RemoveAllStep, TypeOK
      <3> QED BY <2>1, <3>1, <3>2, <3>3
    <2>4. \A d \in Name, f \in File : file'[d][f] = file[d][f] \/ file'[d][f] = "none"
      BY <1>0, <2>1, RemovalShrinks
    <2>5. \A d \in Name : Files(d)' \subseteq Files(d)
      BY <2>4 DEF Files
    <2>6. ASSUME NEW k \in Key, Complete(k)
          PROVE  at[k] \in Name /\ at[k] # rmDir[r] /\ at'[k] = at[k]
      <3>1. at[k] \in Name /\ (at[k] = k \/ (at[k] \in Storer /\ KeyOf[at[k]] = k))
        BY <1>0, <2>6 DEF Complete, Has, PlaceInv, TypeOK
      <3>2. CASE pc[r] = "cleanup"
        <4>1. n = r /\ n # k
          BY <1>0, <1>5, <3>2
        <4>2. rmDir[r] # None => rmDir[r] = r /\ at[k] # r
          BY <1>0, <1>5, <3>2 DEF RemovalInv
        <4>3. at[k] # None
          BY <2>6 DEF Complete, Has
        <4> QED BY <1>0, <2>3, <3>1, <4>1, <4>2, <4>3
      <3>3. CASE pc[r] = "remove"
        <4>1. n = KeyOf[r] /\ k # KeyOf[r]
          BY <1>0, <1>5, <2>6, <3>3 DEF OnlyUnusableRemoved
        <4>2. rmDir[r] # None => rmDir[r] = KeyOf[r] \/ (rmDir[r] \in Storer /\ KeyOf[rmDir[r]] = KeyOf[r])
          BY <1>0, <1>5, <3>3 DEF RemovalInv
        <4>3. at[k] # None
          BY <2>6 DEF Complete, Has
        <4> QED BY <1>0, <2>3, <3>1, <4>1, <4>2, <4>3
      <3> QED BY <2>1, <3>2, <3>3
    <2>7. \A k \in Key : at'[k] # at[k] => k = KeyOf[r] /\ Contents(k) = {}
      BY <1>0, <1>5, <2>3 DEF Removable
    <2> QED BY <2>1, <2>2, <2>3, <2>5, <2>6, <2>7 DEF RequestEffect
  <1>6. CASE r \in Storer /\ Publish(r) /\ ~Fail(r)
    <2>1. /\ UNCHANGED <<file, rmVars, clearVars>>
          /\ at' = [at EXCEPT ![KeyOf[r]] = r, ![r] = None]
          /\ pc' = [pc EXCEPT ![r] = "unlock"] /\ pc[r] = "publish"
      BY <1>6 DEF Publish
    <2>2. at[KeyOf[r]] = None
      BY <1>0, <1>6, <2>1 DEF RenameTargetFree
    <2>3. \A k \in Key : at'[k] # at[k] => k = KeyOf[r]
      BY <1>0, <1>6, <2>1 DEF TypeOK
    <2>4. \A s \in Storer : pc[s] \in Published => pc'[s] \in Published
      BY <1>0, <2>1 DEF TypeOK, Published
    <2>5. \A k \in Key : Complete(k) => k # KeyOf[r]
      BY <2>2 DEF Complete, Has
    <2> QED BY <2>1, <2>2, <2>3, <2>4, <2>5 DEF Files, Contents, RequestEffect
  <1>7. /\ CheckStaging(r) /\ Fail(r) => Fail(r) /\ pc[r] \in {"check", "describe", "publish"}
        /\ WriteMetadata(r) /\ Fail(r) => Fail(r) /\ pc[r] \in {"check", "describe", "publish"}
        /\ Publish(r) /\ Fail(r) => Fail(r) /\ pc[r] \in {"check", "describe", "publish"}
        /\ Interrupt(r) => Fail(r) /\ Interrupt(r)
    BY DEF CheckStaging, WriteMetadata, Publish, Interrupt
  <1> HIDE DEF Goto, dirVars, lockVars, callVars, rmVars, clearVars
  <1> QED
    BY <1>1, <1>2, <1>3, <1>4, <1>5, <1>6, <1>7 DEF Progress, StoreStep, Environment

\* A step of a Clear leaves the requests alone, adds nothing to any directory
\* and unlinks files only in the directory it has open.
LEMMA ClearerStep ==
  ASSUME IInv, NEW c \in Clearer, ClearStep(c)
  PROVE  /\ UNCHANGED callVars
         /\ \A a \in Actor \ {c} : rmDir'[a] = rmDir[a] /\ rmTodo'[a] = rmTodo[a]
         /\ \A b \in Clearer \ {c} :
               cpc'[b] = cpc[b] /\ list'[b] = list[b] /\ cur'[b] = cur[b] /\ aim'[b] = aim[b]
         /\ \A d \in Name : Files(d)' \subseteq Files(d)
         /\ \A m \in Name : at'[m] # at[m] => Contents(m) = {}
         /\ \A d \in Name : file'[d] # file[d] =>
               d = rmDir[c] /\ rmDir[c] # None /\ UNCHANGED at
         /\ (~ UNCHANGED dirVars) => cpc[c] = "sweep"
  <1> USE DEF dirVars, lockVars, callVars, rmVars, clearVars
  <1>0. TypeOK /\ ClearInv /\ c \in Actor
    BY DEF IInv, DirInv, Actor
  <1>1. CASE ClearList(c) \/ ClearDone(c) \/ ClearStop(c)
    <2>1. UNCHANGED <<dirVars, callVars>>
      BY <1>1 DEF ClearList, ClearDone, ClearStop
    <2>2. /\ \A a \in Actor \ {c} : rmDir'[a] = rmDir[a] /\ rmTodo'[a] = rmTodo[a]
          /\ \A b \in Clearer \ {c} :
                cpc'[b] = cpc[b] /\ list'[b] = list[b] /\ cur'[b] = cur[b] /\ aim'[b] = aim[b]
      <3>1. CASE ClearList(c)
        BY <1>0, <3>1 DEF ClearList, TypeOK
      <3>2. CASE ClearDone(c)
        BY <1>0, <3>2 DEF ClearDone, TypeOK
      <3>3. CASE ClearStop(c)
        BY <1>0, <3>3 DEF ClearStop, StopRemoval, TypeOK
      <3> QED BY <1>1, <3>1, <3>2, <3>3
    <2> QED BY <2>1, <2>2 DEF Files
  <1>2. CASE ClearOpen(c)
    <2>1. /\ UNCHANGED dirVars
          /\ \A a \in Actor \ {c} : rmDir'[a] = rmDir[a] /\ rmTodo'[a] = rmTodo[a]
      BY <1>0, <1>2 DEF ClearOpen, ClearInv, RemoveAllStep, TypeOK
    <2> QED BY <1>0, <1>2, <2>1 DEF ClearOpen, TypeOK, Files
  <1>3. CASE ClearUnlink(c)
    <2>1. cpc[c] = "sweep" /\ UNCHANGED <<at, rmDir, callVars, clearVars>>
      BY <1>0, <1>3 DEF ClearUnlink, ClearInv, RemoveAllStep
    <2>2. /\ \A a \in Actor \ {c} : rmTodo'[a] = rmTodo[a]
          /\ \A d \in Name : file'[d] # file[d] => d = rmDir[c] /\ rmDir[c] # None
      BY <1>0, <1>3 DEF ClearUnlink, RemoveAllStep, TypeOK
    <2>3. \A d \in Name, f \in File : file'[d][f] = file[d][f] \/ file'[d][f] = "none"
      BY <1>0, <1>3, RemovalShrinks DEF ClearUnlink, TypeOK
    <2> QED BY <2>1, <2>2, <2>3 DEF Files
  <1>4. CASE ClearRmdir(c)
    <2>1. /\ cpc[c] = "sweep" /\ UNCHANGED <<file, rmTodo, callVars, aim>>
          /\ rmDir' = [rmDir EXCEPT ![c] = None]
          /\ at' = [at EXCEPT ![cur[c]] = IF Removable(cur[c]) THEN None ELSE @]
      BY <1>0, <1>4 DEF ClearRmdir, ClearInv, RemoveAllEnd
    <2>2. \A b \in Clearer \ {c} : cpc'[b] = cpc[b] /\ list'[b] = list[b] /\ cur'[b] = cur[b]
      BY <1>0, <1>4 DEF ClearRmdir, TypeOK
    <2> QED BY <1>0, <2>1, <2>2 DEF Files, Removable, TypeOK
  <1> QED BY <1>1, <1>2, <1>3, <1>4 DEF ClearStep
\* A publisher never damages a complete entry, nor does a reader, a failure or
\* a crash: only a Clear that has opened the directory does.
THEOREM EntriesAreKept == Spec => CompleteKept
  <1> DEFINE Kept == \A k \in Key : Complete(k) /\ ~Complete(k)' =>
                       /\ at'[k] = at[k]
                       /\ \E c \in Clearer : cpc[c] = "sweep" /\ rmDir[c] = at[k]
  <1>1. ASSUME IInv, [Next]_vars PROVE [Kept]_vars
    <2> SUFFICES ASSUME Next, NEW k \in Key, Complete(k), ~Complete(k)'
                 PROVE  /\ at'[k] = at[k]
                        /\ \E c \in Clearer : cpc[c] = "sweep" /\ rmDir[c] = at[k]
      BY <1>1
    <2>1. at[k] \in Name /\ k \in Name /\ Contents(k) # {}
      BY <1>1 DEF IInv, DirInv, TypeOK, Complete, Has, Contents, Files, File, Name
    <2>2. ~ (at'[k] = at[k] /\ \A f \in File : file'[at[k]][f] = file[at[k]][f])
      BY <2>1 DEF Complete, Has, File
    <2>3. ASSUME NEW r \in Request, Progress(r) \/ Environment(r) PROVE FALSE
      BY <1>1, <2>2, <2>3, RequestStep DEF RequestEffect
    <2>4. PICK c \in Clearer : ClearStep(c)
      BY <2>3 DEF Next
    <2>5. /\ at'[k] = at[k]
          /\ file'[at[k]] # file[at[k]]
      BY <1>1, <2>1, <2>2, <2>4, ClearerStep
    <2>6. at[k] = rmDir[c]
      BY <1>1, <2>1, <2>4, <2>5, ClearerStep
    <2>7. cpc[c] = "sweep"
      BY <1>1, <2>4, <2>5, ClearerStep DEF dirVars
    <2> QED BY <2>5, <2>6, <2>7
  <1> QED BY <1>1, Inductive, PTL DEF Spec, CompleteKept
-----------------------------------------------------------------------------
(* What a Clear leaves behind.                                             *)

\* Directory d is empty, or is still under a key that Clear c has to remove; and
\* if c is removing that key, then it has d open and every file of d to unlink.
AwaitsClear(c, d) ==
    \/ Files(d) = {}
    \/ \E k \in Key :
          /\ at[k] = d /\ k \in list[c]
          /\ cur[c] = k => rmDir[c] = d /\ Files(d) \subseteq rmTodo[c]

\* The entries a Clear found were published, so that nothing is written to them
\* any more, and await it.
AimInv ==
    \A c \in Clearer :
        /\ cpc[c] = "done" => list[c] = {}
        /\ cpc[c] \in {"sweep", "done"} => \A d \in aim[c] :
              /\ d \in Storer => pc[d] \in Published
              /\ AwaitsClear(c, d)

\* When nothing awaits a finished Clear, what it found is empty.
LEMMA AimListed == AimInv => ClearRemovesListed
  BY DEF AimInv, AwaitsClear, ClearRemovesListed

\* At the start no Clear has listed anything.
LEMMA InitAim == Init => AimInv
  BY DEF Init, AimInv

\* What does not touch c's own removal cannot fill, move or hide its entries.
LEMMA OthersAim ==
  ASSUME TypeOK, NEW c \in Clearer, NEW d \in Name, AwaitsClear(c, d),
         rmDir'[c] = rmDir[c], rmTodo'[c] = rmTodo[c], list'[c] = list[c], cur'[c] = cur[c],
         Files(d)' \subseteq Files(d),
         \A k \in Key : at'[k] # at[k] => Contents(k) = {}
  PROVE  AwaitsClear(c, d)'
  <1>1. CASE Files(d) = {}
    BY <1>1 DEF AwaitsClear
  <1>2. CASE Files(d) # {}
    <2>1. PICK k \in Key : /\ at[k] = d /\ k \in list[c]
                           /\ cur[c] = k => rmDir[c] = d /\ Files(d) \subseteq rmTodo[c]
      BY <1>2 DEF AwaitsClear
    <2>2. at'[k] = d
      BY <1>2, <2>1, NoneIsNoName DEF Contents
    <2> QED BY <2>1, <2>2 DEF AwaitsClear
  <1> QED BY <1>1, <1>2

\* The steps of c itself.
LEMMA OwnAim ==
  ASSUME IInv, NEW c \in Clearer, ClearStep(c), cpc[c] = "sweep", cpc'[c] \in {"sweep", "done"},
         NEW d \in Name, AwaitsClear(c, d)
  PROVE  AwaitsClear(c, d)'
  <1> USE DEF dirVars, rmVars, clearVars
  <1>0. /\ TypeOK /\ ClearInv /\ c \in Actor
        /\ cur[c] = None => rmDir[c] = None /\ rmTodo[c] = {}
        /\ Files(d)' \subseteq Files(d)
        /\ \A k \in Key : k \in Name /\ k # None
    BY ClearerStep, NoneIsNoName DEF IInv, DirInv, ClearInv, TypeOK, Actor, Name
  <1>1. CASE Files(d) = {}
    BY <1>0, <1>1 DEF AwaitsClear
  <1>2. CASE Files(d) # {}
    <2>1. PICK k \in Key : /\ at[k] = d /\ k \in list[c]
                           /\ cur[c] = k => rmDir[c] = d /\ Files(d) \subseteq rmTodo[c]
      BY <1>2 DEF AwaitsClear
    <2>2. k # None /\ d # None
      BY <1>0, NoneIsNoName
    <2>3. CASE ClearOpen(c)
      <3>1. PICK n \in First(list[c]) :
              IF at[n] = None
              THEN list' = [list EXCEPT ![c] = @ \ {n}] /\ UNCHANGED <<dirVars, rmVars, cur>>
              ELSE cur' = [cur EXCEPT ![c] = n] /\ RemoveAllStep(c, n) /\ UNCHANGED list
        BY <2>3 DEF ClearOpen
      <3>2. cur[c] = None
        BY <2>3 DEF ClearOpen
      <3>3. CASE at[n] = None
        BY <1>0, <2>1, <2>2, <3>1, <3>2, <3>3 DEF AwaitsClear, TypeOK, Files
      <3>4. CASE at[n] # None
        <4>1. /\ rmDir'[c] = at[n] /\ rmTodo'[c] = Files(at[n]) /\ UNCHANGED <<at, file, list>>
              /\ cur'[c] = n
          BY <1>0, <3>1, <3>2, <3>4 DEF RemoveAllStep, Contents, TypeOK
        <4> QED BY <2>1, <4>1 DEF AwaitsClear, Files
      <3> QED BY <3>3, <3>4
    <2>4. CASE ClearUnlink(c)
      <3>1. UNCHANGED <<at, rmDir, list, cur>> /\ rmDir[c] # None
        BY <2>4 DEF ClearUnlink, RemoveAllStep
      <3>2. PICK f \in rmTodo[c] : /\ file' = [file EXCEPT ![rmDir[c]][f] = "none"]
                                   /\ rmTodo' = [rmTodo EXCEPT ![c] = @ \ {f}]
        BY <2>4 DEF ClearUnlink, RemoveAllStep
      <3>3. cur[c] = k => Files(d)' \subseteq Files(d) \ {f}
        BY <1>0, <2>1, <3>1, <3>2 DEF TypeOK, Files
      <3>4. rmTodo'[c] = rmTodo[c] \ {f}
        BY <1>0, <3>2 DEF TypeOK
      <3> QED BY <1>0, <2>1, <3>1, <3>3, <3>4 DEF AwaitsClear
    <2>5. CASE ClearRmdir(c)
      <3>1. /\ at' = [at EXCEPT ![cur[c]] = IF Removable(cur[c]) THEN None ELSE @]
            /\ rmTodo[c] = {} /\ list'[c] = list[c] \ {cur[c]} /\ cur'[c] = None
        BY <1>0, <2>5 DEF ClearRmdir, RemoveAllEnd, TypeOK
      <3>2. cur[c] # k
        BY <1>2, <2>1, <3>1
      <3>3. at'[k] = at[k]
        BY <1>0, <3>1, <3>2 DEF TypeOK
      <3> QED BY <2>1, <2>2, <3>1, <3>2, <3>3 DEF AwaitsClear
    <2>6. CASE ClearDone(c)
      BY <2>1, <2>6 DEF ClearDone, AllRemoved
    <2>7. CASE ClearStop(c) \/ ClearList(c)
      BY <1>0, <2>7 DEF ClearStop, ClearList, TypeOK
    <2> QED BY <2>3, <2>4, <2>5, <2>6, <2>7 DEF ClearStep
  <1> QED BY <1>1, <1>2

\* Every step keeps the entries of a Clear waiting for it.
LEMMA NextAim == IInv /\ AimInv /\ [Next]_vars => AimInv'
  <1> SUFFICES ASSUME IInv, AimInv, [Next]_vars PROVE AimInv'
    OBVIOUS
  <1>0. /\ TypeOK /\ PlaceInv
        /\ \A c \in Clearer : c \in Actor /\ c \notin Request
    BY RolesAreDisjoint DEF IInv, DirInv, Actor
  <1>1. ASSUME NEW r \in Request, Progress(r) \/ Environment(r) PROVE AimInv'
    <2>1. RequestEffect(r)
      BY <1>1, RequestStep
    <2>2. \A c \in Clearer : /\ cpc'[c] = cpc[c] /\ list'[c] = list[c] /\ cur'[c] = cur[c] /\ aim'[c] = aim[c]
                             /\ rmDir'[c] = rmDir[c] /\ rmTodo'[c] = rmTodo[c]
      BY <1>0, <2>1 DEF RequestEffect, clearVars
    <2>3. ASSUME NEW c \in Clearer, cpc[c] \in {"sweep", "done"}, NEW d \in aim[c]
          PROVE  (d \in Storer => pc'[d] \in Published) /\ AwaitsClear(c, d)'
      <3>1. d \in Name /\ (d \in Storer => pc[d] \in Published) /\ AwaitsClear(c, d)
        BY <1>0, <2>3 DEF AimInv, TypeOK
      <3>2. Files(d)' \subseteq Files(d) /\ \A k \in Key : at'[k] # at[k] => Contents(k) = {}
        BY <2>1, <3>1 DEF RequestEffect
      <3>3. d \in Storer => pc'[d] \in Published
        BY <2>1, <3>1 DEF RequestEffect
      <3> QED BY <1>0, <2>2, <3>1, <3>2, <3>3, OthersAim
    <2> QED BY <2>2, <2>3 DEF AimInv
  <1>2. ASSUME NEW c \in Clearer, ClearStep(c) PROVE AimInv'
    <2>1. UNCHANGED pc /\ \A d \in Name : Files(d)' \subseteq Files(d)
      BY <1>2, ClearerStep DEF callVars
    <2>2. ASSUME NEW b \in Clearer, b # c
          PROVE  /\ cpc'[b] = "done" => list'[b] = {}
                 /\ cpc'[b] \in {"sweep", "done"} => \A d \in aim'[b] :
                       (d \in Storer => pc'[d] \in Published) /\ AwaitsClear(b, d)'
      <3>1. /\ cpc'[b] = cpc[b] /\ list'[b] = list[b] /\ cur'[b] = cur[b] /\ aim'[b] = aim[b]
            /\ rmDir'[b] = rmDir[b] /\ rmTodo'[b] = rmTodo[b]
            /\ \A k \in Key : at'[k] # at[k] => Contents(k) = {}
        BY <1>0, <1>2, <2>2, ClearerStep DEF Name
      <3>2. ASSUME cpc[b] \in {"sweep", "done"}, NEW d \in aim[b] PROVE AwaitsClear(b, d)'
        <4>1. d \in Name /\ AwaitsClear(b, d)
          BY <1>0, <3>2 DEF AimInv, TypeOK
        <4> QED BY <1>0, <2>1, <3>1, <4>1, OthersAim
      <3> QED BY <2>1, <3>1, <3>2 DEF AimInv
    <2>3. CASE cpc[c] = "idle"
      <3>1. ClearList(c) /\ cpc'[c] = "sweep" /\ list'[c] = {n \in Name : at[n] # None}
            /\ aim'[c] = {at[k] : k \in Key} \ {None} /\ UNCHANGED <<at, file, cur>>
        BY <1>0, <1>2, <2>3 DEF ClearStep, ClearList, ClearOpen, ClearUnlink, ClearRmdir, ClearDone, ClearStop,
                                IInv, DirInv, ClearInv, TypeOK, dirVars
      <3>2. cur'[c] = None
        BY <1>0, <2>3, <3>1 DEF IInv, DirInv, ClearInv, TypeOK
      <3>3. ASSUME NEW d \in aim'[c] PROVE (d \in Storer => pc'[d] \in Published) /\ AwaitsClear(c, d)'
        <4>1. PICK k \in Key : at[k] = d /\ at[k] # None
          BY <3>1, <3>3
        <4>2. d \in Storer => pc[d] \in Published
          BY <1>0, <4>1 DEF PlaceInv
        <4>3. k \in list'[c] /\ cur'[c] # k /\ at'[k] = d
          BY <3>1, <3>2, <4>1, NoneIsNoName DEF Name
        <4> QED BY <2>1, <4>2, <4>3 DEF AwaitsClear
      <3> QED BY <2>2, <3>1, <3>3 DEF AimInv
    <2>4. CASE cpc[c] # "idle"
      <3>1. cpc[c] = "sweep" /\ aim'[c] = aim[c] /\ (cpc'[c] = "done" => list'[c] = {})
        BY <1>0, <1>2, <2>4 DEF ClearStep, ClearList, ClearOpen, ClearUnlink, ClearRmdir, ClearDone, ClearStop,
                                AllRemoved, IInv, DirInv, ClearInv, TypeOK, clearVars
      <3>2. ASSUME cpc'[c] \in {"sweep", "done"}, NEW d \in aim[c]
            PROVE  (d \in Storer => pc'[d] \in Published) /\ AwaitsClear(c, d)'
        <4>1. d \in Name /\ (d \in Storer => pc[d] \in Published) /\ AwaitsClear(c, d)
          BY <1>0, <3>1, <3>2 DEF AimInv, TypeOK
        <4> QED BY <1>2, <2>1, <3>1, <3>2, <4>1, OwnAim
      <3> QED BY <2>2, <3>1, <3>2 DEF AimInv
    <2> QED BY <2>3, <2>4
  <1>3. CASE UNCHANGED vars
    BY <1>3 DEF AimInv, AwaitsClear, Files, vars, dirVars, callVars, rmVars, clearVars
  <1> QED BY <1>1, <1>2, <1>3 DEF Next

\* A Clear that reports success has emptied every entry it found.
THEOREM ListedIsRemoved == Spec => []ClearRemovesListed
  BY Inductive, InitAim, NextAim, AimListed, PTL DEF Spec
=============================================================================
