------------------------ MODULE CacheContractProofs ------------------------
(***************************************************************************)
(* The cache of ImageCache implements CacheContract, for any number of     *)
(* keys, requests and clearers and any leftover entries, and a request     *)
(* that no Clear disturbed finds what it was promised.                     *)
(***************************************************************************)
EXTENDS ImageCacheProofs

-----------------------------------------------------------------------------
(* The invariant of undisturbed requests.                                  *)

\* Storers whose staging directory holds the archive, and then both files.
Described == Checked \ {"describe"}

\* Until the caller has opened the path, nothing has been found.
GotInv ==
    \A r \in Request :
        /\ Active(r) \/ pc[r] = "idle" => got[r] = "none"
        /\ pc[r] = "reading" => got[r] = "good"

\* While a Clear is at work every request is disturbed.  The others find what they
\* verified or wrote where they left it, and what they have read of an entry is not of
\* one entry and the rest of another.
ServeInv ==
    /\ \A r \in Request : Sweeping /\ Active(r) => r \in disturbed
    /\ \A r \in Request \ disturbed :
          /\ r \in Storer /\ pc[r] \in Checked => Has(r, "archive")
          /\ r \in Storer /\ pc[r] \in Described => Has(r, "meta")
          /\ pc[r] \in {"verify", "reverify"} /\ Has(KeyOf[r], "archive") => Complete(KeyOf[r])
          /\ pc[r] \in Returning /\ ret[r] = "path" => Complete(KeyOf[r])
          /\ got[r] # "missing"

\* Storer r renames its staging directory to its key.
Publishes(r) == r \in Storer /\ Publish(r) /\ ~Fail(r)

\* At the start nobody is disturbed, has staged anything or has been promised anything.
LEMMA InitServe == Init => GotInv /\ ServeInv
  BY DEF Init, GotInv, ServeInv, Active, Finished, Sweeping, Checked, Described, Returning, Request

\* A step of one request leaves the state of the others, and every Clear, alone.
LEMMA OneRequest ==
  ASSUME IInv, NEW r \in Request, Progress(r) \/ Environment(r)
  PROVE  /\ \A s \in Request \ {r} : pc'[s] = pc[s] /\ ret'[s] = ret[s] /\ got'[s] = got[s]
         /\ Sweeping' = Sweeping
         /\ disturbed \subseteq disturbed'
         /\ Begin(r) \/ Publishes(r) \/ UNCHANGED disturbed
  <1> USE DEF Goto, dirVars, lockVars, callVars, rmVars, clearVars
  <1>0. TypeOK BY DEF IInv
  <1>1. CASE Fail(r) BY <1>0, <1>1 DEF Fail, TypeOK, Sweeping
  <1>2. CASE Begin(r) \/ ReadMetadata(r) \/ VerifyEntry(r) \/ Open(r) \/ Crash(r)
    BY <1>0, <1>2 DEF Begin, ReadMetadata, VerifyEntry, Open, Crash, TypeOK, Sweeping
  <1>3. CASE r \in Storer /\ ~Fail(r) /\ (CheckStaging(r) \/ WriteMetadata(r))
    BY <1>0, <1>3 DEF CheckStaging, WriteMetadata, TypeOK, Sweeping
  <1>4. CASE r \in Storer /\ (MakeStaging(r) \/ StartDownload(r) \/ FinishDownload(r))
    BY <1>0, <1>4 DEF MakeStaging, StartDownload, FinishDownload, TypeOK, Sweeping
  <1>5. CASE r \in Storer /\ (OpenLockFile(r) \/ Acquire(r) \/ RemoveOld(r) \/ Unlock(r) \/ Cleanup(r))
    BY <1>0, <1>5 DEF OpenLockFile, Acquire, LookAgain, RemoveOld, Unlock, Cleanup, TypeOK, Sweeping
  <1>6. CASE Publishes(r)
    BY <1>0, <1>6 DEF Publishes, Publish, TypeOK, Sweeping
  <1> HIDE DEF Goto, dirVars, lockVars, callVars, rmVars, clearVars
  <1> QED BY <1>1, <1>2, <1>3, <1>4, <1>5, <1>6 DEF Progress, StoreStep, Environment, Interrupt, Publishes

\* Only a publication puts a file under a key, and nobody touches a staging directory
\* that has been described but its storer, to publish it.
LEMMA HasStep ==
  ASSUME IInv, NEW r \in Request, Progress(r) \/ Environment(r)
  PROVE  /\ ~Publishes(r) => \A k \in Key, f \in File : Has(k, f)' => Has(k, f)
         /\ \A s \in Storer :
               pc[s] \in Checked /\ (s = r => pc[r] \in Described /\ ~Publishes(r)) =>
                  at'[s] = at[s] /\ file'[s] = file[s]
  <1> USE DEF Goto, dirVars, lockVars, callVars, rmVars, clearVars
  <1>0. /\ TypeOK /\ PlaceInv /\ RemovalInv
        /\ \A s \in Storer : s \in Request /\ s \in Name /\ s \in Actor /\ s \notin Key
        /\ KeyOf[r] \in Key /\ r \in Actor
        /\ \A k \in Key : k \in Name
    BY KeyOfType, RolesAreDisjoint DEF IInv, DirInv, Request, Name, Actor
  <1>1. CASE /\ UNCHANGED file /\ \A n \in Name \ {r} : at'[n] = at[n]
             /\ pc[r] \in Described => at'[r] = at[r]
    BY <1>0, <1>1, RolesAreDisjoint DEF Has, Request
  <1>2. CASE r \in Storer /\ (StartDownload(r) \/ FinishDownload(r) \/ (WriteMetadata(r) /\ ~Fail(r)))
    <2>1. /\ UNCHANGED at
          /\ \A d \in Name \ {r} : file'[d] = file[d]
          /\ pc[r] \in {"download", "fetch", "describe"}
      BY <1>0, <1>2 DEF StartDownload, FinishDownload, WriteMetadata, TypeOK
    <2>2. \A k \in Key : at[k] # r
      BY <1>0, <1>2, <2>1 DEF PlaceInv, Published, Finished
    <2>3. \A k \in Key, f \in File : Has(k, f)' => Has(k, f)
      BY <1>0, <2>1, <2>2 DEF Has, TypeOK
    <2> QED BY <1>0, <2>1, <2>3 DEF Described, Checked
  <1>3. CASE r \in Storer /\ (RemoveOld(r) \/ Cleanup(r))
    <2> DEFINE n == IF pc[r] = "remove" THEN KeyOf[r] ELSE r
    <2>1. /\ n \in Name /\ pc[r] \in {"remove", "cleanup"}
          /\ RemoveAllStep(r, n) \/ RemoveAllEnd(r, n)
      BY <1>0, <1>3 DEF RemoveOld, Cleanup
    <2>2. \A d \in Name, f \in File : file'[d][f] = file[d][f] \/ file'[d][f] = "none"
      BY <1>0, <2>1, RemovalShrinks
    <2>3. /\ \A m \in Name : at'[m] # at[m] => m = n /\ at'[m] = None
          /\ \A d \in Name : file'[d] # file[d] => d = rmDir[r] /\ rmDir[r] # None
      <3>1. CASE RemoveAllEnd(r, n)
        BY <1>0, <2>1, <3>1 DEF RemoveAllEnd, TypeOK
      <3>2. CASE RemoveAllStep(r, n) /\ rmDir[r] = None
        BY <1>0, <2>1, <3>2 DEF RemoveAllStep, TypeOK
      <3>3. CASE RemoveAllStep(r, n) /\ rmDir[r] # None
        BY <1>0, <2>1, <3>3 DEF RemoveAllStep, TypeOK
      <3> QED BY <2>1, <3>1, <3>2, <3>3
    <2>4. ASSUME NEW k \in Key, NEW f \in File, Has(k, f)' PROVE Has(k, f)
      <3>1. at'[k] = at[k] /\ at[k] # None BY <1>0, <2>3, <2>4 DEF Has
      <3>2. at[k] \in Name BY <1>0, <3>1 DEF TypeOK
      <3> QED BY <2>2, <2>4, <3>1, <3>2 DEF Has
    <2>5. ASSUME NEW s \in Storer, pc[s] \in Checked, s = r => pc[r] \in Described
          PROVE  at'[s] = at[s] /\ file'[s] = file[s]
      <3>1. at'[s] = at[s] BY <1>0, <2>1, <2>3, <2>5 DEF Described, Checked
      <3>2. pc[s] \notin Published BY <2>5 DEF Published, Finished, Checked
      <3>3. rmDir[r] # None => rmDir[r] # s
        BY <1>0, <1>3, <2>1, <2>5, <3>2 DEF RemovalInv, Described, Checked
      <3> QED BY <1>0, <2>3, <3>1, <3>3
    <2> QED BY <2>4, <2>5
  <1>4. CASE Publishes(r)
    <2>1. at' = [at EXCEPT ![KeyOf[r]] = r, ![r] = None] /\ UNCHANGED file
      BY <1>4 DEF Publishes, Publish
    <2> QED BY <1>0, <1>4, <2>1 DEF TypeOK
  <1>5. CASE Fail(r) \/ Begin(r) \/ ReadMetadata(r) \/ VerifyEntry(r) \/ Open(r) \/ Crash(r)
    BY <1>1, <1>5 DEF Fail, Begin, ReadMetadata, VerifyEntry, Open, Crash
  <1>6. CASE r \in Storer /\ (MakeStaging(r) \/ OpenLockFile(r) \/ Acquire(r) \/ Unlock(r)
                              \/ (CheckStaging(r) /\ ~Fail(r)))
    BY <1>0, <1>1, <1>6 DEF MakeStaging, OpenLockFile, Acquire, Unlock, CheckStaging, TypeOK,
                                Described, Checked
  <1> HIDE DEF Goto, dirVars, lockVars, callVars, rmVars, clearVars
  <1> QED BY <1>2, <1>3, <1>4, <1>5, <1>6 DEF Progress, StoreStep, Environment, Interrupt, Publishes

\* A step that publishes nothing leaves every entry complete that was, and no other.
LEMMA EntriesStay ==
  ASSUME IInv, NEW r \in Request, Progress(r) \/ Environment(r), ~Publishes(r), NEW k \in Key
  PROVE  Complete(k)' <=> Complete(k)
  <1>1. Complete(k) => Complete(k)'
    BY RequestStep DEF RequestEffect, Complete, Has, File
  <1>2. Complete(k)' => Complete(k)
    BY HasStep DEF Complete, File
  <1> QED BY <1>1, <1>2

\* What an undisturbed storer publishes is complete, and makes its key so alone.
LEMMA PublishedEntry ==
  ASSUME IInv, ServeInv, NEW r \in Request, Publishes(r)
  PROVE  /\ pc[r] = "publish" /\ Active(r) /\ pc' = [pc EXCEPT ![r] = "unlock"]
         /\ UNCHANGED <<file, got, cpc>>
         /\ disturbed' = IF Complete(r) THEN disturbed ELSE disturbed \cup Running
         /\ ~Complete(KeyOf[r])
         /\ Complete(KeyOf[r])' <=> Complete(r)
         /\ \A k \in Key \ {KeyOf[r]} : at'[k] = at[k]
         /\ r \notin disturbed => Complete(r)
  <1>0. TypeOK /\ RenameTargetFree /\ r \in Storer /\ r \in Name /\ r \notin Key /\ KeyOf[r] \in Key
    BY KeyOfType, RolesAreDisjoint DEF IInv, DirInv, Name, Request, Publishes
  <1>1. /\ pc[r] = "publish" /\ pc' = [pc EXCEPT ![r] = "unlock"]
        /\ at[r] # None /\ at' = [at EXCEPT ![KeyOf[r]] = r, ![r] = None]
        /\ disturbed' = IF Complete(r) THEN disturbed ELSE disturbed \cup Running
        /\ UNCHANGED <<file, got, cpc>>
    BY DEF Publishes, Publish, Goto, clearVars
  <1>2. at[r] = r /\ ~Complete(KeyOf[r])
    BY <1>0, <1>1 DEF IInv, DirInv, PlaceInv, RenameTargetFree, Complete, Has
  <1>3. at'[KeyOf[r]] = r /\ \A k \in Key \ {KeyOf[r]} : at'[k] = at[k]
    BY <1>0, <1>1 DEF TypeOK, Name
  <1>4. Complete(KeyOf[r])' <=> Complete(r)
    BY <1>1, <1>2, <1>3 DEF Complete, Has
  <1>5. r \notin disturbed => Complete(r)
    BY <1>0, <1>1 DEF ServeInv, Checked, Described, Complete
  <1>6. Active(r) BY <1>1 DEF Active, Finished
  <1> QED BY <1>1, <1>2, <1>3, <1>4, <1>5, <1>6

\* What a caller finds at his path was there when it was promised.
LEMMA GotStep ==
  ASSUME IInv, GotInv, [Next]_vars
  PROVE  GotInv'
  <1> USE DEF Goto, dirVars, lockVars, callVars, rmVars, clearVars, GotInv, Active, Finished
  <1>0. TypeOK BY DEF IInv
  <1>1. ASSUME NEW r \in Request, Progress(r) \/ Environment(r) PROVE GotInv'
    <2>1. \A s \in Request \ {r} : pc'[s] = pc[s] /\ got'[s] = got[s] BY <1>1, OneRequest
    <2>2. CASE Open(r)
      <3>1. CASE ArchiveGone(KeyOf[r]) BY <1>0, <2>1, <2>2, <3>1 DEF Open, TypeOK
      <3>2. CASE ~ArchiveGone(KeyOf[r])
        <4>1. /\ got'[r] = file[at[KeyOf[r]]]["archive"] /\ pc'[r] = "reading"
              /\ pc[r] = "answer" /\ at[KeyOf[r]] # None
          BY <1>0, <2>2, <3>2 DEF Open, TypeOK, ArchiveGone, Contents
        <4>2. file[at[KeyOf[r]]]["archive"] \notin {"none", "bad"}
          BY <3>2, <4>1 DEF IInv, ContentInv, Returning, ArchiveGone, Contents, Files
        <4>3. file[at[KeyOf[r]]]["archive"] \in Content
          BY <1>0, <4>1, KeyOfType DEF TypeOK, Name, File
        <4> QED BY <2>1, <4>1, <4>2, <4>3 DEF Content
      <3> QED BY <3>1, <3>2
    <2>3. CASE ~Open(r)
      <3>1. UNCHANGED got /\ (pc'[r] \notin {"dead", "failed", "missed"} => Active(r)' \/ pc'[r] = "idle")
        <4>1. CASE Fail(r) BY <1>0, <4>1 DEF Fail, ErrorPath, TypeOK
        <4>2. CASE Begin(r) \/ ReadMetadata(r) \/ VerifyEntry(r) \/ Crash(r)
          BY <1>0, <4>2 DEF Begin, ReadMetadata, VerifyEntry, Crash, AfterMiss, TypeOK
        <4>3. CASE /\ r \in Storer /\ ~Fail(r)
                   /\ MakeStaging(r) \/ StartDownload(r) \/ FinishDownload(r) \/ CheckStaging(r)
                      \/ WriteMetadata(r) \/ Publish(r)
          BY <1>0, <4>3 DEF MakeStaging, StartDownload, FinishDownload, CheckStaging, WriteMetadata, Publish, TypeOK
        <4>4. CASE r \in Storer /\ (OpenLockFile(r) \/ Acquire(r) \/ RemoveOld(r) \/ Unlock(r) \/ Cleanup(r))
          BY <1>0, <4>4 DEF OpenLockFile, Acquire, LookAgain, RemoveOld, Unlock, Cleanup, TypeOK
        <4> QED BY <1>1, <2>3, <4>1, <4>2, <4>3, <4>4 DEF Progress, StoreStep, Environment, Interrupt
      <3>2. Active(r) \/ pc[r] = "idle"
        BY <1>1 DEF Progress, StoreStep, Environment, Begin, Interrupt, Crash, ReadMetadata, VerifyEntry, Open,
           MakeStaging, StartDownload, FinishDownload, CheckStaging, WriteMetadata, Publish,
           OpenLockFile, Acquire, RemoveOld, Unlock, Cleanup
      <3> QED BY <2>1, <3>1, <3>2
    <2> QED BY <2>2, <2>3
  <1>2. ASSUME NEW c \in Clearer, ClearStep(c) PROVE GotInv'
    BY <1>2, ClearerStep
  <1>3. CASE UNCHANGED vars BY <1>3 DEF vars
  <1> QED BY <1>1, <1>2, <1>3 DEF Next

\* What an undisturbed request has read or written stays: others publish complete
\* entries, or disturb it.
LEMMA ServeStep ==
  ASSUME IInv, GotInv, ServeInv, [Next]_vars
  PROVE  ServeInv'
  <1> USE DEF dirVars, lockVars, callVars, rmVars, clearVars
  <1>0. /\ TypeOK /\ PlaceInv /\ ClearInv
        /\ \A s \in Storer : s \in Request /\ s \in Name
        /\ \A s \in Request : KeyOf[s] \in Key
        /\ Described \subseteq Checked
    BY KeyOfType DEF IInv, DirInv, Request, Name, Described
  <1> DEFINE Served(s) ==
          /\ s \in Storer /\ pc[s] \in Checked => Has(s, "archive")
          /\ s \in Storer /\ pc[s] \in Described => Has(s, "meta")
          /\ pc[s] \in {"verify", "reverify"} /\ Has(KeyOf[s], "archive") => Complete(KeyOf[s])
          /\ pc[s] \in Returning /\ ret[s] = "path" => Complete(KeyOf[s])
          /\ got[s] # "missing"
  <1>1. ASSUME NEW r \in Request, Progress(r) \/ Environment(r), ~Publishes(r) PROVE ServeInv'
    <2>1. \A s \in Storer : pc[s] \in Checked /\ (s # r \/ pc[s] \in Described) =>
            (Has(s, "archive")' <=> Has(s, "archive")) /\ (Has(s, "meta")' <=> Has(s, "meta"))
      <3> SUFFICES ASSUME NEW s \in Storer, pc[s] \in Checked, s # r \/ pc[s] \in Described
                   PROVE  (Has(s, "archive")' <=> Has(s, "archive")) /\ (Has(s, "meta")' <=> Has(s, "meta"))
        OBVIOUS
      <3>1. at'[s] = at[s] /\ file'[s] = file[s] BY <1>1, HasStep
      <3>2. at[s] # None => at[s] = s BY <1>0 DEF PlaceInv
      <3> QED BY <3>1, <3>2 DEF Has
    <2>2. \A k \in Key : (Has(k, "archive")' => Has(k, "archive")) /\ (Complete(k)' <=> Complete(k))
      BY <1>1, HasStep, EntriesStay DEF File
    <2>3. /\ \A s \in Request \ {r} : pc'[s] = pc[s] /\ ret'[s] = ret[s] /\ got'[s] = got[s]
          /\ Sweeping' = Sweeping /\ disturbed \subseteq disturbed'
      BY <1>1, OneRequest
    <2>4. ASSUME NEW s \in Request \ disturbed', s # r PROVE Served(s)'
      <3>1. Served(s) BY <2>3, <2>4 DEF ServeInv
      <3> QED BY <1>0, <2>1, <2>2, <2>3, <2>4, <3>1
    <2>5. ASSUME r \notin disturbed' PROVE Served(r)'
      <3>1. Served(r) BY <2>3, <2>5 DEF ServeInv
      <3> USE DEF Goto, Checked, Described, Returning
      <3>2. CASE Fail(r) BY <1>0, <3>1, <3>2 DEF Fail, ErrorPath, TypeOK
      <3>3. CASE Begin(r) \/ Crash(r) BY <1>0, <3>1, <3>3 DEF Begin, Crash, TypeOK
      <3>4. CASE ReadMetadata(r)
        <4>1. pc'[r] \in {"verify", "reverify"} => Has(KeyOf[r], "meta")
          BY <1>0, <3>4 DEF ReadMetadata, AfterMiss, TypeOK
        <4>2. /\ UNCHANGED <<ret, got>> /\ pc'[r] \notin Returning
              /\ pc'[r] \in Checked => pc[r] \in Described
          BY <1>0, <3>4 DEF ReadMetadata, AfterMiss, Locked, Holding, TypeOK
        <4>3. pc'[r] \in {"verify", "reverify"} /\ Has(KeyOf[r], "archive")' => Complete(KeyOf[r])'
          BY <1>0, <2>2, <4>1 DEF Complete
        <4> QED BY <2>1, <3>1, <4>2, <4>3
      <3>5. CASE VerifyEntry(r)
        <4>1. CASE Verified(KeyOf[r])
          <5>1. /\ pc'[r] \in {"unlock", "answer"} /\ UNCHANGED got
                /\ Complete(KeyOf[r])
            BY <1>0, <3>1, <3>5, <4>1 DEF VerifyEntry, Verified, TypeOK
          <5> QED BY <1>0, <2>2, <3>1, <5>1
        <4>2. CASE ~Verified(KeyOf[r])
          <5>1. /\ pc'[r] \in {"remove", "stage", "missed"} /\ UNCHANGED <<ret, got>>
                /\ pc'[r] = "remove" => pc[r] \in Described
            BY <1>0, <3>5, <4>2 DEF VerifyEntry, AfterMiss, Locked, Holding, TypeOK
          <5> QED BY <2>1, <3>1, <5>1
        <4> QED BY <4>1, <4>2
      <3>6. CASE Open(r)
        <4>1. pc[r] = "answer" /\ pc'[r] \in {"failed", "reading"} BY <1>0, <3>6 DEF Open, TypeOK
        <4>2. Complete(KeyOf[r]) BY <3>1, <4>1 DEF IInv, ContentInv
        <4>3. ~ArchiveGone(KeyOf[r]) BY <4>2 DEF Complete, Has, ArchiveGone, Contents, Files, File
        <4>4. got'[r] = file[at[KeyOf[r]]]["archive"] BY <1>0, <3>6, <4>3 DEF Open, TypeOK
        <4> QED BY <4>1, <4>2, <4>4 DEF Complete, Has
      <3>7. CASE r \in Storer /\ (MakeStaging(r) \/ StartDownload(r) \/ FinishDownload(r))
        BY <1>0, <3>1, <3>7 DEF MakeStaging, StartDownload, FinishDownload, TypeOK
      <3>8. CASE r \in Storer /\ CheckStaging(r) /\ ~Fail(r)
        <4>1. Has(r, "archive") /\ pc'[r] = "describe" /\ UNCHANGED <<at, file, ret, got>>
          BY <1>0, <3>8 DEF CheckStaging, Verified, TypeOK
        <4> QED BY <3>1, <4>1 DEF Has
      <3>9. CASE r \in Storer /\ WriteMetadata(r) /\ ~Fail(r)
        <4>1. /\ pc[r] = "describe" /\ pc'[r] = "lockfile" /\ at[r] # None /\ UNCHANGED <<at, ret, got>>
              /\ file' = [file EXCEPT ![r]["meta"] = "good"]
          BY <1>0, <3>9 DEF WriteMetadata, TypeOK
        <4>2. at[r] = r /\ r \in Name BY <1>0, <3>9, <4>1 DEF PlaceInv
        <4>3. file'[r]["archive"] = file[r]["archive"] /\ file'[r]["meta"] = "good"
          BY <1>0, <4>1, <4>2 DEF TypeOK, File
        <4> QED BY <3>1, <3>9, <4>1, <4>2, <4>3 DEF Has
      <3>10. CASE r \in Storer /\ (OpenLockFile(r) \/ Acquire(r))
        <4>1. pc[r] \in Described /\ pc'[r] \in {"acquire", "relookup"} /\ UNCHANGED <<ret, got>>
          BY <1>0, <3>10 DEF OpenLockFile, Acquire, LookAgain, TypeOK
        <4> QED BY <2>1, <3>1, <4>1
      <3>11. CASE r \in Storer /\ RemoveOld(r)
        <4>1. pc[r] = "remove" /\ pc'[r] \in {"remove", "publish"} /\ UNCHANGED <<ret, got>>
          BY <1>0, <3>11 DEF RemoveOld, TypeOK
        <4> QED BY <2>1, <3>1, <4>1
      <3>12. CASE r \in Storer /\ (Unlock(r) \/ Cleanup(r))
        <4>1. /\ pc[r] \in Returning /\ pc'[r] \in {"cleanup", "answer", "failed"}
              /\ UNCHANGED <<ret, got>>
          BY <1>0, <3>12 DEF Unlock, Cleanup, TypeOK
        <4> QED BY <1>0, <2>2, <3>1, <4>1
      <3> HIDE DEF Goto, Checked, Described, Returning, Served
      <3> QED BY <1>1, <3>2, <3>3, <3>4, <3>5, <3>6, <3>7, <3>8, <3>9, <3>10, <3>11, <3>12
              DEF Progress, StoreStep, Environment, Interrupt, Publishes
    <2>6. ASSUME NEW s \in Request, Sweeping', Active(s)' PROVE s \in disturbed'
      <3>1. CASE s # r BY <2>3, <2>6, <3>1 DEF ServeInv, Active
      <3>2. CASE Begin(r) /\ s = r BY <2>3, <2>6, <3>2 DEF Begin
      <3>3. CASE ~Begin(r) /\ s = r
        <4>1. Active(r)
          BY <1>1, <3>3 DEF Progress, StoreStep, Environment, Interrupt, Crash, ReadMetadata, VerifyEntry, Open,
             MakeStaging, StartDownload, FinishDownload, CheckStaging, WriteMetadata, Publish,
             OpenLockFile, Acquire, RemoveOld, Unlock, Cleanup, Active, Finished
        <4> QED BY <2>3, <2>6, <3>3, <4>1 DEF ServeInv
      <3> QED BY <3>1, <3>2, <3>3
    <2> QED BY <2>4, <2>5, <2>6 DEF ServeInv
  <1>2. ASSUME NEW r \in Request, Progress(r) \/ Environment(r), Publishes(r) PROVE ServeInv'
    <2>1. /\ \A s \in Request \ {r} : pc'[s] = pc[s] /\ ret'[s] = ret[s]
          /\ Sweeping' = Sweeping /\ disturbed \subseteq disturbed'
      BY <1>2, OneRequest
    <2>2. /\ pc[r] = "publish" /\ Active(r) /\ pc'[r] = "unlock" /\ UNCHANGED <<file, got>>
          /\ disturbed' = IF Complete(r) THEN disturbed ELSE disturbed \cup Running
          /\ Complete(KeyOf[r])' <=> Complete(r)
          /\ \A k \in Key \ {KeyOf[r]} : at'[k] = at[k]
          /\ r \notin disturbed => Complete(r)
      BY <1>0, <1>2, PublishedEntry DEF TypeOK
    <2>3. ASSUME NEW s \in Request \ disturbed', s # r, Active(s) PROVE Served(s)'
      <3>1. Served(s) /\ Complete(KeyOf[r])'
        BY <2>1, <2>2, <2>3 DEF ServeInv, Running
      <3>2. s \in Storer /\ pc[s] \in Checked => at'[s] = at[s] /\ file'[s] = file[s]
        BY <1>2, <2>3, HasStep
      <3>3. s \in Storer /\ pc[s] \in Checked =>
              (Has(s, "archive")' <=> Has(s, "archive")) /\ (Has(s, "meta")' <=> Has(s, "meta"))
        BY <1>0, <3>2 DEF Has, PlaceInv
      <3>4. CASE KeyOf[s] = KeyOf[r] BY <1>0, <2>1, <2>2, <2>3, <3>1, <3>3, <3>4
      <3>5. CASE KeyOf[s] # KeyOf[r]
        <4>1. /\ Has(KeyOf[s], "archive")' <=> Has(KeyOf[s], "archive")
              /\ Complete(KeyOf[s])' <=> Complete(KeyOf[s])
          BY <1>0, <2>2, <3>5 DEF Has, Complete
        <4> QED BY <1>0, <2>1, <2>2, <2>3, <3>1, <3>3, <4>1
      <3> QED BY <3>4, <3>5
    <2>4. ASSUME NEW s \in Request \ disturbed', ~Active(s) PROVE Served(s)'
      <3>1. s # r /\ got[s] # "missing" BY <2>1, <2>2, <2>4 DEF ServeInv
      <3> QED BY <2>1, <2>2, <2>4, <3>1 DEF Active, Finished, Checked, Described, Returning
    <2>5. r \notin disturbed' => Served(r)'
      <3>1. r \notin disturbed' => Complete(KeyOf[r])' /\ got[r] # "missing"
        BY <2>1, <2>2 DEF ServeInv
      <3> QED BY <2>2, <3>1 DEF Checked, Described
    <2>6. \A s \in Request : Sweeping' /\ Active(s)' => s \in disturbed'
      BY <2>1, <2>2 DEF ServeInv, Active
    <2> HIDE DEF Served
    <2>7. \A s \in Request \ disturbed' : Served(s)' BY <2>3, <2>4, <2>5
    <2> QED BY <2>6, <2>7 DEF ServeInv, Served
  <1>3. ASSUME NEW c \in Clearer, ClearStep(c) PROVE ServeInv'
    <2>1. UNCHANGED <<pc, ret, got>> BY <1>3, ClearerStep
    <2>2. disturbed \subseteq disturbed' /\ \A s \in Request : Active(s) => s \in disturbed'
      <3>1. CASE ClearList(c) BY <3>1 DEF ClearList, Running
      <3>2. CASE ~ClearList(c)
        <4>1. Sweeping /\ UNCHANGED disturbed
          BY <1>0, <1>3, <3>2 DEF ClearStep, ClearOpen, ClearUnlink, ClearRmdir, ClearDone, ClearStop, Sweeping, ClearInv
        <4> QED BY <4>1 DEF ServeInv
      <3> QED BY <3>1, <3>2
    <2>3. ASSUME NEW s \in Request \ disturbed' PROVE Served(s)'
      <3>1. ~Active(s) /\ got[s] # "missing" BY <2>2, <2>3 DEF ServeInv
      <3> QED BY <2>1, <3>1 DEF Active, Finished, Checked, Described, Returning
    <2> QED BY <2>1, <2>2, <2>3 DEF ServeInv, Active
  <1>4. CASE UNCHANGED vars
    <2>1. /\ UNCHANGED <<pc, ret, got, disturbed, cpc>> /\ Sweeping' = Sweeping
          /\ \A n \in Name, f \in File : Has(n, f)' <=> Has(n, f)
      BY <1>4 DEF vars, Has, Sweeping
    <2>2. \A n \in Name : Complete(n)' <=> Complete(n) BY <2>1 DEF Complete, File
    <2> QED BY <1>0, <2>1, <2>2 DEF ServeInv, Active, File, Name
  <1> QED BY <1>1, <1>2, <1>3, <1>4 DEF Next

\* What no single property keeps: the invariant of the cache and that of its callers.
LEMMA ServedInductive == Spec => [](IInv /\ GotInv /\ ServeInv)
  <1>1. GotInv /\ ServeInv /\ IInv /\ IInv' /\ [Next]_vars => GotInv' /\ ServeInv'
    BY GotStep, ServeStep
  <1> QED BY <1>1, InitServe, Inductive, PTL DEF Spec

\* A request that overlaps no Clear, nor the publication of what a Clear had emptied,
\* finds the archive it was promised, whatever other publishers do.
THEOREM UndisturbedServed == Spec => []UndisturbedIsServed
  <1>1. ServeInv => UndisturbedIsServed BY DEF ServeInv, UndisturbedIsServed
  <1> QED BY <1>1, ServedInductive, PTL

-----------------------------------------------------------------------------
(* The cache implements its contract.                                      *)

\* How a request stands, by phase.
LEMMA AnswerCases ==
  ASSUME NEW r
  PROVE  /\ pc[r] \in {"idle", "missed", "dead"} => AnswerOf(r) = pc[r]
         /\ pc[r] = "answer" => AnswerOf(r) = "promised"
         /\ pc[r] = "reading" /\ got[r] = "good" => AnswerOf(r) = "image"
         /\ pc[r] = "failed" /\ got[r] = "missing" => AnswerOf(r) = "gone"
         /\ pc[r] = "failed" /\ got[r] # "missing" => AnswerOf(r) = "error"
         /\ Active(r) /\ pc[r] # "answer" => AnswerOf(r) = "waiting"
  BY DEF AnswerOf, Active, Finished

\* And after a step.
LEMMA AnswerCasesNext ==
  ASSUME NEW r
  PROVE  /\ pc'[r] \in {"idle", "missed", "dead"} => AnswerOf(r)' = pc'[r]
         /\ pc'[r] = "answer" => AnswerOf(r)' = "promised"
         /\ pc'[r] = "reading" /\ got'[r] = "good" => AnswerOf(r)' = "image"
         /\ pc'[r] = "failed" /\ got'[r] = "missing" => AnswerOf(r)' = "gone"
         /\ pc'[r] = "failed" /\ got'[r] # "missing" => AnswerOf(r)' = "error"
         /\ Active(r)' /\ pc'[r] # "answer" => AnswerOf(r)' = "waiting"
  BY DEF AnswerOf, Active, Finished

\* At the start nothing was asked of the cache.
LEMMA ContractInit == Init => Contract!Init
  <1> SUFFICES ASSUME Init PROVE Contract!Init
    OBVIOUS
  <1>1. \A r \in Request : AnswerOf(r) = "idle" BY AnswerCases DEF Init
  <1>2. ~Sweeping BY DEF Init, Sweeping
  <1>3. EntryState \in [Key -> {"complete", "unusable"}] BY DEF EntryState
  <1> QED BY <1>1, <1>2, <1>3 DEF Contract!Init, Init

\* The requests the contract waits for are those that run.
LEMMA PendingRuns ==
  ASSUME GotInv PROVE Contract!Pending = Running
  <1> SUFFICES ASSUME NEW r \in Request
               PROVE  AnswerOf(r) \in {"waiting", "promised"} <=> Active(r)
    BY DEF Contract!Pending, Running
  <1>1. CASE Active(r)
    <2>1. pc[r] = "answer" => AnswerOf(r) = "promised" BY AnswerCases
    <2>2. pc[r] # "answer" => AnswerOf(r) = "waiting" BY <1>1, AnswerCases
    <2> QED BY <1>1, <2>1, <2>2
  <1>2. CASE ~Active(r)
    <2>1. pc[r] \in {"idle", "missed", "dead"} => AnswerOf(r) \in {"idle", "missed", "dead"}
      BY AnswerCases
    <2>2. pc[r] = "reading" => AnswerOf(r) = "image" BY AnswerCases DEF GotInv
    <2>3. pc[r] = "failed" => AnswerOf(r) \in {"gone", "error"} BY AnswerCases
    <2>4. pc[r] \in {"idle", "missed", "dead", "reading", "failed"} BY <1>2 DEF Active, Finished
    <2> QED BY <1>2, <2>1, <2>2, <2>3, <2>4
  <1> QED BY <1>1, <1>2

\* A request that neither begins, publishes nor opens its path goes on, gives up, or
\* answers; it reports a miss only of an entry that is not complete.
LEMMA Goes ==
  ASSUME IInv, NEW r \in Request, Progress(r) \/ Environment(r),
         ~Begin(r), ~Publishes(r), ~Open(r)
  PROVE  /\ Active(r) /\ pc[r] # "answer" /\ pc'[r] \notin {"idle", "reading"}
         /\ UNCHANGED <<got, disturbed>>
         /\ pc'[r] = "missed" => ~Complete(KeyOf[r])
  <1> USE DEF Goto, Active, Finished, callVars, clearVars
  <1>0. TypeOK BY DEF IInv
  <1>1. CASE Interrupt(r)
    BY <1>0, <1>1 DEF Interrupt, Fail, ErrorPath, TypeOK
  <1>2. CASE Crash(r) BY <1>0, <1>2 DEF Crash, TypeOK
  <1>3. CASE ReadMetadata(r)
    BY <1>0, <1>3 DEF ReadMetadata, AfterMiss, Complete, TypeOK
  <1>4. CASE VerifyEntry(r)
    BY <1>0, <1>4 DEF VerifyEntry, AfterMiss, Verified, Complete, TypeOK
  <1>5. CASE r \in Storer /\ (CheckStaging(r) \/ WriteMetadata(r) \/ Publish(r)) /\ Fail(r)
    BY <1>0, <1>5 DEF CheckStaging, WriteMetadata, Publish, Fail, ErrorPath, TypeOK
  <1>6. CASE r \in Storer /\ (CheckStaging(r) \/ WriteMetadata(r)) /\ ~Fail(r)
    BY <1>0, <1>6 DEF CheckStaging, WriteMetadata, TypeOK
  <1>7. CASE r \in Storer /\ (MakeStaging(r) \/ StartDownload(r) \/ FinishDownload(r))
    BY <1>0, <1>7 DEF MakeStaging, StartDownload, FinishDownload, TypeOK
  <1>8. CASE r \in Storer /\ (OpenLockFile(r) \/ Acquire(r) \/ RemoveOld(r) \/ Unlock(r) \/ Cleanup(r))
    BY <1>0, <1>8 DEF OpenLockFile, Acquire, LookAgain, RemoveOld, Unlock, Cleanup, TypeOK
  <1> HIDE DEF Goto, Active, Finished, callVars, clearVars
  <1> QED BY <1>1, <1>2, <1>3, <1>4, <1>5, <1>6, <1>7, <1>8
          DEF Progress, StoreStep, Environment, Publishes

\* What a request does is a step of the contract, or nothing to it.
LEMMA ContractRequest ==
  ASSUME IInv, GotInv, ServeInv, IInv', ServeInv',
         NEW r \in Request, Progress(r) \/ Environment(r)
  PROVE  Contract!Next \/ UNCHANGED Contract!vars
  <1> DEFINE answers == [s \in Request |-> AnswerOf(s)]
             k == KeyOf[r]
  <1>0. TypeOK /\ k \in Key BY KeyOfType DEF IInv
  <1>1. answers' = [answers EXCEPT ![r] = AnswerOf(r)']
    <2>1. ASSUME NEW s \in Request \ {r} PROVE AnswerOf(s)' = AnswerOf(s)
      <3>1. pc'[s] = pc[s] /\ got'[s] = got[s] BY OneRequest
      <3> QED BY <3>1 DEF AnswerOf
    <2> QED BY <2>1
  <1>2. Sweeping' = Sweeping BY OneRequest
  <1>3. ~Publishes(r) => EntryState' = EntryState
    BY EntriesStay DEF EntryState
  <1>4. EntryState[k] = IF Complete(k) THEN "complete" ELSE "unusable"
    BY <1>0 DEF EntryState
  <1>5. CASE Begin(r)
    <2>1. /\ pc[r] = "idle" /\ pc'[r] = "lookup" /\ ~Publishes(r)
          /\ disturbed' = IF Sweeping THEN disturbed \cup {r} ELSE disturbed
      BY <1>0, <1>5 DEF Begin, Goto, TypeOK, Publishes, Publish
    <2>2. AnswerOf(r) = "idle" /\ AnswerOf(r)' = "waiting"
      BY <2>1, AnswerCases, AnswerCasesNext DEF Active, Finished
    <2>3. Contract!Begin(r)
      BY <1>1, <1>2, <1>3, <2>1, <2>2 DEF Contract!Begin, Contract!Become
    <2> QED BY <2>3 DEF Contract!Next
  <1>6. CASE Publishes(r)
    <2>1. /\ pc[r] = "publish" /\ Active(r) /\ pc'[r] = "unlock"
          /\ disturbed' = IF Complete(r) THEN disturbed ELSE disturbed \cup Running
          /\ ~Complete(k) /\ (Complete(k)' <=> Complete(r))
          /\ UNCHANGED file /\ \A l \in Key \ {k} : at'[l] = at[l]
          /\ r \notin disturbed => Complete(r)
      BY <1>0, <1>6, PublishedEntry DEF TypeOK
    <2>2. AnswerOf(r) = "waiting" /\ AnswerOf(r)' = "waiting"
      BY <2>1, AnswerCases, AnswerCasesNext DEF Active, Finished
    <2>3. answers' = answers BY <1>1, <2>2
    <2>4. \A l \in Key \ {k} : Complete(l)' <=> Complete(l) BY <2>1 DEF Complete, Has
    <2>5. CASE Complete(r)
      <3>1. EntryState' = [EntryState EXCEPT ![k] = "complete"]
        BY <1>0, <2>1, <2>4, <2>5 DEF EntryState
      <3>2. Contract!Publish(r)
        BY <1>2, <1>4, <2>1, <2>2, <2>3, <2>5, <3>1 DEF Contract!Publish
      <3> QED BY <3>2 DEF Contract!Next
    <2>6. CASE ~Complete(r)
      <3>1. EntryState' = EntryState BY <1>0, <2>1, <2>4, <2>6 DEF EntryState
      <3>2. Contract!Spoil(r)
        BY <1>2, <1>4, <2>1, <2>2, <2>3, <2>6, <3>1, PendingRuns DEF Contract!Spoil
      <3> QED BY <3>2 DEF Contract!Next
    <2> QED BY <2>5, <2>6
  <1>7. CASE Open(r)
    <2>1. /\ pc[r] = "answer" /\ ~Publishes(r) /\ UNCHANGED disturbed
          /\ \/ pc'[r] = "failed" /\ got'[r] = "missing" /\ ~Complete(k)
             \/ pc'[r] = "reading"
      BY <1>0, <1>7 DEF Open, Goto, TypeOK, Publishes, Publish, ArchiveGone, Complete, Has, Contents, Files, File
    <2>2. AnswerOf(r) = "promised" BY <2>1, AnswerCases
    <2>3. Complete(k) \/ r \in disturbed
      BY <2>1 DEF ServeInv, IInv, ContentInv, Returning
    <2>4. CASE pc'[r] = "failed" /\ got'[r] = "missing" /\ ~Complete(k)
      <3>1. AnswerOf(r)' = "gone" BY <2>4, AnswerCasesNext
      <3>2. Contract!Read(r)
        BY <1>1, <1>2, <1>3, <2>1, <2>2, <2>3, <2>4, <3>1 DEF Contract!Read, Contract!Become
      <3> QED BY <3>2 DEF Contract!Next
    <2>5. CASE pc'[r] = "reading"
      <3>1. GotInv' BY GotStep DEF Next
      <3>2. AnswerOf(r)' = "image" BY <2>5, <3>1, AnswerCasesNext DEF GotInv
      <3>3. Contract!Read(r)
        BY <1>1, <1>2, <1>3, <1>4, <2>1, <2>2, <2>3, <3>2 DEF Contract!Read, Contract!Become, Contract!Usable
      <3> QED BY <3>3 DEF Contract!Next
    <2> QED BY <2>1, <2>4, <2>5
  <1>8. CASE ~Begin(r) /\ ~Publishes(r) /\ ~Open(r)
    <2>1. /\ Active(r) /\ pc[r] # "answer" /\ pc'[r] \notin {"idle", "reading"}
          /\ UNCHANGED <<got, disturbed>>
          /\ pc'[r] = "missed" => ~Complete(k)
      BY <1>8, Goes
    <2>2. AnswerOf(r) = "waiting" BY <2>1, AnswerCases
    <2>3. UNCHANGED <<EntryState, Sweeping, disturbed>> BY <1>2, <1>3, <1>8, <2>1
    <2>4. CASE Active(r)' /\ pc'[r] # "answer"
      <3>1. answers' = answers BY <1>1, <2>2, <2>4, AnswerCasesNext
      <3> QED BY <2>3, <3>1 DEF Contract!vars
    <2>5. CASE pc'[r] = "answer"
      <3>1. AnswerOf(r)' = "promised" BY <2>5, AnswerCasesNext
      <3>2. Complete(k)' \/ r \in disturbed'
        BY <2>5 DEF ServeInv, IInv, ContentInv, Returning
      <3>3. Complete(k) \/ r \in disturbed BY <1>0, <1>8, <2>3, <3>2, EntriesStay
      <3>4. Contract!Promise(r)
        BY <1>1, <1>4, <2>2, <2>3, <3>1, <3>3 DEF Contract!Promise, Contract!Become, Contract!Usable
      <3> QED BY <3>4 DEF Contract!Next
    <2>6. CASE pc'[r] = "missed"
      <3>1. AnswerOf(r)' = "missed" BY <2>6, AnswerCasesNext
      <3>2. Contract!Miss(r)
        BY <1>1, <1>4, <2>1, <2>2, <2>3, <2>6, <3>1 DEF Contract!Miss, Contract!Become
      <3> QED BY <3>2 DEF Contract!Next
    <2>7. CASE pc'[r] \in {"failed", "dead"}
      <3>1. got'[r] # "missing" BY <2>1 DEF GotInv
      <3>2. AnswerOf(r)' \in {"error", "dead"} BY <2>7, <3>1, AnswerCasesNext
      <3>3. Contract!GiveUp(r)
        BY <1>1, <2>2, <2>3, <3>2 DEF Contract!GiveUp, Contract!Become
      <3> QED BY <3>3 DEF Contract!Next
    <2> QED BY <2>1, <2>4, <2>5, <2>6, <2>7 DEF Active, Finished
  <1> QED BY <1>5, <1>6, <1>7, <1>8

\* So is what a Clear does: it starts, loses one entry at a time, and ends.
LEMMA ContractClear ==
  ASSUME IInv, GotInv, NEW c \in Clearer, ClearStep(c)
  PROVE  Contract!Next \/ UNCHANGED Contract!vars
  <1> DEFINE answers == [s \in Request |-> AnswerOf(s)]
  <1>0. TypeOK /\ PlaceInv /\ ClearInv /\ \A k \in Key : k \in Name
    BY DEF IInv, DirInv, Name
  <1>1. answers' = answers BY ClearerStep DEF AnswerOf, callVars
  <1>2. CASE ClearList(c)
    <2>1. Sweeping' /\ disturbed' = disturbed \cup Running /\ UNCHANGED dirVars
      BY <1>0, <1>2 DEF ClearList, Sweeping, TypeOK
    <2>2. EntryState' = EntryState BY <2>1 DEF dirVars, EntryState, Complete, Has
    <2>3. Contract!ClearStart BY <1>1, <2>1, <2>2, PendingRuns DEF Contract!ClearStart
    <2> QED BY <2>3 DEF Contract!Next
  <1>3. CASE ClearUnlink(c)
    <2>1. Sweeping /\ Sweeping' /\ UNCHANGED <<at, disturbed>>
      BY <1>0, <1>3 DEF ClearUnlink, ClearInv, Sweeping, clearVars, RemoveAllStep
    <2>2. \A d \in Name : file'[d] # file[d] => d = rmDir[c] BY <1>3, ClearerStep
    <2>3. \A d \in Name, f \in File : file'[d][f] = file[d][f] \/ file'[d][f] = "none"
      <3>1. c \in Actor /\ cur[c] \in Name BY <1>0, <1>3 DEF ClearUnlink, TypeOK, Actor
      <3> QED BY <1>0, <1>3, <3>1, RemovalShrinks DEF ClearUnlink
    <2>4. \A k \in Key : Complete(k)' => Complete(k)
      BY <1>0, <2>1, <2>3 DEF Complete, Has, TypeOK, File
    <2>5. CASE \A k \in Key : Complete(k) => Complete(k)'
      <3>1. EntryState' = EntryState BY <2>4, <2>5 DEF EntryState
      <3> QED BY <1>1, <2>1, <3>1 DEF Contract!vars
    <2>6. ASSUME NEW k \in Key, Complete(k), ~Complete(k)' PROVE Contract!Lose(k)
      <3>1. \A l \in Key : Complete(l) => at[l] \in Name /\ at'[l] = at[l]
        BY <1>0, <2>1 DEF Complete, Has, TypeOK
      <3>2. at[k] = rmDir[c] BY <2>2, <2>6, <3>1 DEF Complete, Has
      <3>3. \A l \in Key \ {k} : Complete(l) => at[l] # at[k]
        BY <1>0, <2>6, RolesAreDisjoint DEF PlaceInv, Complete, Has, Request
      <3>4. \A l \in Key \ {k} : Complete(l) => Complete(l)'
        BY <2>2, <3>1, <3>2, <3>3 DEF Complete, Has
      <3>5. EntryState' = [EntryState EXCEPT ![k] = "unusable"]
        BY <2>4, <2>6, <3>4 DEF EntryState
      <3>6. EntryState[k] = "complete" BY <2>6 DEF EntryState
      <3> QED BY <1>1, <2>1, <3>5, <3>6 DEF Contract!Lose
    <2> QED BY <2>5, <2>6 DEF Contract!Next
  <1>4. CASE ClearOpen(c) \/ ClearRmdir(c) \/ ClearDone(c) \/ ClearStop(c)
    <2>1. /\ Sweeping /\ UNCHANGED disturbed /\ UNCHANGED file
          /\ \A k \in Key : at'[k] # at[k] => Contents(k) = {} /\ at'[k] = None
      <3>1. CASE ClearOpen(c)
        <4>1. cpc[c] = "sweep" /\ rmTodo[c] = {} /\ UNCHANGED disturbed
          BY <1>0, <3>1 DEF ClearOpen, ClearInv, TypeOK, Actor
        <4>2. UNCHANGED dirVars BY <3>1, <4>1 DEF ClearOpen, RemoveAllStep
        <4> QED BY <4>1, <4>2 DEF Sweeping, dirVars
      <3>2. CASE ClearRmdir(c)
        <4>1. /\ Sweeping /\ UNCHANGED <<disturbed, file>>
              /\ at' = [at EXCEPT ![cur[c]] = IF Removable(cur[c]) THEN None ELSE @]
          BY <1>0, <3>2 DEF ClearRmdir, ClearInv, Sweeping, RemoveAllEnd
        <4> QED BY <1>0, <4>1 DEF Removable, TypeOK
      <3>3. CASE ClearDone(c) \/ ClearStop(c)
        BY <1>0, <3>3 DEF ClearDone, ClearStop, Sweeping, dirVars
      <3> QED BY <1>4, <3>1, <3>2, <3>3
    <2>2. \A k \in Key : Complete(k)' <=> Complete(k)
      BY <2>1 DEF Complete, Has, Contents, Files, File
    <2>3. EntryState' = EntryState BY <2>2 DEF EntryState
    <2>4. CASE Sweeping' BY <1>1, <2>1, <2>3, <2>4 DEF Contract!vars
    <2>5. CASE ~Sweeping'
      <3>1. Contract!ClearEnd BY <1>1, <2>1, <2>3, <2>5 DEF Contract!ClearEnd
      <3> QED BY <3>1 DEF Contract!Next
    <2> QED BY <2>4, <2>5
  <1> QED BY <1>2, <1>3, <1>4 DEF ClearStep

\* Every behaviour of the cache is one its contract allows: an entry appears whole, a
\* promise holds unless a Clear broke it, and a miss is reported of what is unusable.
THEOREM ContractImplemented == Spec => ImplementsContract
  <1>1. Init => Contract!Init BY ContractInit
  <1>2. ASSUME IInv, GotInv, ServeInv, IInv', ServeInv', [Next]_vars
        PROVE  [Contract!Next]_(Contract!vars)
    <2>1. CASE UNCHANGED vars
      <3>1. UNCHANGED <<EntryState, Sweeping, disturbed, [s \in Request |-> AnswerOf(s)]>>
        BY <2>1 DEF vars, dirVars, callVars, clearVars, EntryState, Complete, Has, Sweeping, AnswerOf
      <3> QED BY <3>1 DEF Contract!vars
    <2> QED BY <1>2, <2>1, ContractRequest, ContractClear DEF Next
  <1> QED BY <1>1, <1>2, ServedInductive, PTL DEF Spec, ImplementsContract, Contract!Spec
=============================================================================
