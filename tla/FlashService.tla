---------------------------- MODULE FlashService ----------------------------
(***************************************************************************)
(* One Flash request of the daemon (service/service_flash.go): the handler *)
(* and the goroutine that reads the output of qdl, which both report to    *)
(* the client through the synchronised sender, against a client that may   *)
(* go away, a cache that others clear and a board that may not answer.     *)
(*                                                                         *)
(* FlashBoard is here only as its order of steps; what it decides is not   *)
(* the service's business.                                                 *)
(***************************************************************************)
EXTENDS Naturals, Sequences

CONSTANTS
    MaxUpdates   \* bound: progress messages of one kind in a request

ASSUME MaxUpdatesType == MaxUpdates \in Nat

VARIABLES
    req,      \* what was asked for: keep the archive, a board with a table to read
    pc,       \* how far the handler has come
    err,      \* what it is going to return, "none" for success
    cause,    \* context.Cause: "none", "cancelled" or "send"
    call,     \* call[t]: the Send of thread t in progress
    lock,     \* the thread holding the mutex of the sender, or "nobody"
    sendErr,  \* sendErr[t]: what the last Send of t returned
    broken,   \* whether stream.Send has failed
    sent,     \* the messages the client was sent
    updates,  \* how many progress messages the current step may still produce
    inCache,  \* whether the cache holds the verified archive
    archive,  \* where the archive to extract is: "nowhere", "cache" or "scratch"
    scratch,  \* whether the private scratch directory exists
    qdl,      \* the qdl process: "none", "running", "ok" or "failed"
    board,    \* "untouched", "writing", "flashed" or "partial"
    early     \* history: the client was lost before the board was turned to

Thread == {"main", "output"}
Msg == {"start", "update", "end_ok", "end_failed", "extract", "extracted",
        "flash", "line", "flashed", "result"}

ctxVars  == <<cause, early>>
sendVars == <<call, lock, sendErr, broken, sent>>
diskVars == <<inCache, archive, scratch>>
hwVars   == <<qdl, board>>
vars     == <<req, pc, err, ctxVars, sendVars, updates, diskVars, hwVars>>

Quiet == [step |-> "idle", msg |-> "start"]

\* Up to the last look at the context before FlashBoard.
Preparing == {"begin", "fetch", "mkdir", "start", "lookup", "stat", "refused", "download",
              "end_ok", "end_failed", "failed", "ended", "open", "extract", "extracting",
              "flash", "confirm"}
Flashing  == {"install", "reading", "plan", "writing", "flashed", "result", "sent"}
Phase     == Preparing \cup Flashing \cup {"return", "done"}

Init ==
    /\ req \in [cache : BOOLEAN, table : BOOLEAN]
    /\ pc = "begin"
    /\ err = "none"
    /\ cause = "none"
    /\ early = FALSE
    /\ call = [t \in Thread |-> Quiet]
    /\ lock = "nobody"
    /\ sendErr = [t \in Thread |-> "none"]
    /\ broken = FALSE
    /\ sent = <<>>
    /\ updates = MaxUpdates
    /\ inCache \in BOOLEAN
    /\ archive = "nowhere"
    /\ scratch = FALSE
    /\ qdl = "none"
    /\ board = "untouched"

-----------------------------------------------------------------------------
(* The context and the sender.                                             *)

\* CancelCause keeps the first reason.
Cancel(reason) ==
    /\ cause' = IF cause = "none" THEN reason ELSE cause
    /\ early' = (early \/ pc \in Preparing)

\* The client goes away, or gives up.
Disconnect ==
    /\ pc # "done" /\ cause = "none"
    /\ Cancel("cancelled")
    /\ UNCHANGED <<req, pc, err, sendVars, updates, diskVars, hwVars>>

\* Thread t calls the sender.
StartSend(t, m) == call' = [call EXCEPT ![t] = [step |-> "lock", msg |-> m]]

LockSender(t) ==
    /\ call[t].step = "lock" /\ lock = "nobody"
    /\ lock' = t
    /\ call' = [call EXCEPT ![t].step = "check"]
    /\ UNCHANGED <<req, pc, err, ctxVars, sendErr, broken, sent, updates, diskVars, hwVars>>

\* The deferred Unlock, and the return.
\* (Mutant: the error path returns with the mutex held.)
UnlockForgotten(t, e) ==
    /\ lock' = IF e = "none" THEN "nobody" ELSE lock
    /\ call' = [call EXCEPT ![t] = Quiet]
    /\ sendErr' = [sendErr EXCEPT ![t] = e]
FinishSend(t, e) ==
    /\ lock' = "nobody"
    /\ call' = [call EXCEPT ![t] = Quiet]
    /\ sendErr' = [sendErr EXCEPT ![t] = e]

CheckCause(t) ==
    /\ call[t].step = "check"
    /\ IF cause = "none"
       THEN call' = [call EXCEPT ![t].step = "send"] /\ UNCHANGED <<lock, sendErr>>
       ELSE FinishSend(t, cause)
    /\ UNCHANGED <<req, pc, err, ctxVars, broken, sent, updates, diskVars, hwVars>>

\* (Mutant: a failed Send is reported to the caller alone, who ignores it.)
SendErrorDropped == UNCHANGED ctxVars
SendErrorKept == Cancel("send")

\* stream.Send hands the message over, or fails; once failed it is not expected
\* to work again.
Deliver(t) ==
    /\ call[t].step = "send" /\ ~broken
    /\ sent' = Append(sent, call[t].msg)
    /\ FinishSend(t, "none")
    /\ UNCHANGED <<req, pc, err, ctxVars, broken, updates, diskVars, hwVars>>

FailSend(t) ==
    /\ call[t].step = "send"
    /\ broken' = TRUE
    /\ SendErrorKept
    /\ FinishSend(t, "send")
    /\ UNCHANGED <<req, pc, err, sent, updates, diskVars, hwVars>>

-----------------------------------------------------------------------------
(* Shapes of a step of the handler, which does nothing during a Send.      *)

At(phase) == pc = phase /\ call["main"].step = "idle"

\* Local: no message, nothing done to the context or to the board.
Local == UNCHANGED <<req, ctxVars, sendVars, hwVars>>

Goto(phase) ==
    /\ pc' = phase
    /\ updates' = MaxUpdates
    /\ UNCHANGED err

Return(e) ==
    /\ pc' = "return"
    /\ err' = e
    /\ UNCHANGED updates

\* if err := context.Cause(ctx); err != nil { return err }
ReturnCauseOr(phase) == IF cause # "none" THEN Return(cause) ELSE Goto(phase)

\* Send m, then go on at the given phase whatever Send returned.
Say(m, phase) ==
    /\ StartSend("main", m)
    /\ Goto(phase)
    /\ UNCHANGED <<req, ctxVars, lock, sendErr, broken, sent, diskVars, hwVars>>

\* One of any number of progress messages.
Update(m) ==
    /\ updates > 0
    /\ updates' = updates - 1
    /\ StartSend("main", m)
    /\ UNCHANGED <<req, pc, err, ctxVars, lock, sendErr, broken, sent, diskVars, hwVars>>

-----------------------------------------------------------------------------
(* The handler, up to the archive.                                         *)

Start ==
    /\ At("begin")
    /\ ReturnCauseOr("fetch")
    /\ Local /\ UNCHANGED diskVars

\* Fetch and Resolve; no index can be read once the context is cancelled.
FetchRelease ==
    /\ At("fetch")
    /\ (cause = "none" /\ Goto("mkdir")) \/ Return("failed")
    /\ Local /\ UNCHANGED diskVars

MakeScratch ==
    /\ At("mkdir")
    /\ \/ scratch' = TRUE /\ Goto("start")
       \/ scratch' = scratch /\ Return("failed")
    /\ Local /\ UNCHANGED <<inCache, archive>>

SayStart == At("start") /\ Say("start", "lookup")

Lookup ==
    /\ At("lookup")
    /\ \/ cause = "none" /\ inCache /\ archive' = "cache" /\ Goto("stat")
       \/ cause = "none" /\ ~inCache /\ archive' = archive /\ Goto("download")
       \/ archive' = archive /\ Goto("end_failed")
    /\ Local /\ UNCHANGED <<inCache, scratch>>

\* The user has no cache directory: the error itself is returned.
NoCache == At("lookup") /\ Say("end_failed", "refused")

Present == IF archive = "cache" THEN inCache ELSE scratch

\* (Mutant: the error of Stat is reported and then forgotten.)
StatForgotten ==
    /\ At("stat")
    /\ IF Present THEN Say("update", "end_ok") ELSE Say("end_failed", "end_ok")
StatCached ==
    /\ At("stat")
    /\ IF Present THEN Say("update", "end_ok") ELSE Say("end_failed", "refused")

Refuse ==
    /\ At("refused")
    /\ Return("failed")
    /\ Local /\ UNCHANGED diskVars

\* DownloadFile or Store: progress, and then an archive in the cache or in the
\* scratch directory.  What Store publishes may have been cleared already.
Download ==
    /\ At("download")
    /\ \/ Update("update")
       \/ /\ Goto("end_ok")
          /\ IF req.cache
             THEN archive' = "cache" /\ inCache' \in BOOLEAN
             ELSE archive' = "scratch" /\ UNCHANGED inCache
          /\ Local /\ UNCHANGED scratch
       \/ Goto("end_failed") /\ Local /\ UNCHANGED diskVars

\* (Mutant: only a success is announced.)
EndUnsaid    == At("end_failed") /\ Goto("failed") /\ Local /\ UNCHANGED diskVars
SayEndFailed == At("end_failed") /\ Say("end_failed", "failed")
SayEndOk     == At("end_ok") /\ Say("end_ok", "ended")

\* The client has been told; the cause, if there is one, wins over the error.
DownloadFailed ==
    /\ At("failed")
    /\ Return(IF cause # "none" THEN cause ELSE "failed")
    /\ Local /\ UNCHANGED diskVars

DownloadEnded ==
    /\ At("ended")
    /\ ReturnCauseOr("open")
    /\ Local /\ UNCHANGED diskVars

-----------------------------------------------------------------------------
(* Extraction.                                                             *)

OpenArchive ==
    /\ At("open")
    /\ (Present /\ Goto("extract")) \/ Return("failed")
    /\ Local /\ UNCHANGED diskVars

SayExtract == At("extract") /\ Say("extract", "extracting")

\* The open archive can be read to its end even if the cache is cleared.
Extract ==
    /\ At("extracting")
    /\ \/ Update("extract")
       \/ Say("extracted", "flash")
       \/ Return("failed") /\ Local /\ UNCHANGED diskVars

SayFlash == At("flash") /\ Say("flash", "confirm")

\* (Mutant: straight from the message to the board.)
ConfirmSkipped == Goto("install")
Confirmed == ReturnCauseOr("install")

\* The last look at the context before the board is turned to.
Confirm ==
    /\ At("confirm")
    /\ Confirmed
    /\ Local /\ UNCHANGED diskVars

-----------------------------------------------------------------------------
(* FlashBoard: qdl reads the table of a board that has one, then writes.   *)

\* RunWithinContext: the process starts even if the context is cancelled.
RunQdl(phase, state) ==
    /\ qdl' = "running"
    /\ board' = state
    /\ Goto(phase)
    /\ UNCHANGED <<req, ctxVars, sendVars, diskVars>>

InstallQdl ==
    /\ At("install")
    /\ \/ req.table /\ RunQdl("reading", board)
       \/ ~req.table /\ Goto("plan") /\ Local /\ UNCHANGED diskVars
       \/ Return("failed") /\ Local /\ UNCHANGED diskVars

\* The process ends by itself; nothing says that it ever does, since qdl waits
\* for a board to be connected.
QdlExits ==
    /\ qdl = "running"
    /\ \E verdict \in {"ok", "failed"} :
         /\ qdl' = verdict
         /\ board' = IF board # "writing" THEN board
                     ELSE IF verdict = "ok" THEN "flashed" ELSE "partial"
    /\ UNCHANGED <<req, pc, err, ctxVars, sendVars, updates, diskVars>>

\* (Mutant: qdl is run in a context of its own.)
ContextIgnored == FALSE
ContextDone == cause # "none"

KillQdl ==
    /\ qdl = "running" /\ ContextDone
    /\ qdl' = "failed"
    /\ board' = IF board = "writing" THEN "partial" ELSE board
    /\ UNCHANGED <<req, pc, err, ctxVars, sendVars, updates, diskVars>>

\* Wait returns when the process has ended and the goroutine that copies its
\* output has passed everything on.
\* (Mutant: Wait returns with the process, whatever its output still waits for.)
NotJoined == qdl \in {"ok", "failed"}
Joined == qdl \in {"ok", "failed"} /\ call["output"].step = "idle"

\* (Mutant: the exit status of qdl is not looked at.)
StatusIgnored == TRUE
Succeeded == qdl = "ok"

QdlDone(phase) ==
    /\ Joined
    /\ IF Succeeded THEN Goto(phase) ELSE Return("failed")
    /\ Local /\ UNCHANGED diskVars

ReadTable == At("reading") /\ QdlDone("plan")

\* What FlashBoard decides may still refuse the flash.
PlanFlash ==
    /\ At("plan")
    /\ \/ RunQdl("writing", "writing")
       \/ Return("failed") /\ Local /\ UNCHANGED diskVars

\* A line of the output, passed on as it comes.
OutputLine ==
    /\ pc = "writing" /\ call["output"].step = "idle"
    /\ updates > 0
    /\ updates' = updates - 1
    /\ StartSend("output", "line")
    /\ UNCHANGED <<req, pc, err, ctxVars, lock, sendErr, broken, sent, diskVars, hwVars>>

WriteBoard == At("writing") /\ QdlDone("flashed")

-----------------------------------------------------------------------------
(* The answer.                                                             *)

SayFlashed == At("flashed") /\ Say("flashed", "result")
SayResult  == At("result") /\ Say("result", "sent")

Answer ==
    /\ At("sent")
    /\ Return(sendErr["main"])
    /\ Local /\ UNCHANGED diskVars

\* The deferred calls.
\* (Mutant: the scratch directory is removed only after a success.)
RemovedOnSuccess == scratch' = (scratch /\ err # "none")
RemoveScratch == scratch' = FALSE

Finish ==
    /\ At("return")
    /\ RemoveScratch
    /\ pc' = "done"
    /\ UNCHANGED <<req, err, ctxVars, sendVars, updates, inCache, archive, hwVars>>

\* Other requests and processes store and clear the archive of this release.
CacheChanges ==
    /\ pc \in Preparing
    /\ inCache' = ~inCache
    /\ UNCHANGED <<req, pc, err, ctxVars, sendVars, updates, archive, scratch, hwVars>>

-----------------------------------------------------------------------------
Handler ==
    \/ Start \/ FetchRelease \/ MakeScratch \/ SayStart \/ Lookup \/ NoCache
    \/ StatCached \/ Refuse \/ Download \/ SayEndFailed \/ SayEndOk \/ DownloadFailed
    \/ DownloadEnded \/ OpenArchive \/ SayExtract \/ Extract \/ SayFlash \/ Confirm
    \/ InstallQdl \/ ReadTable \/ PlanFlash \/ WriteBoard
    \/ SayFlashed \/ SayResult \/ Answer \/ Finish

SendStep(t) == LockSender(t) \/ CheckCause(t) \/ Deliver(t) \/ FailSend(t)

Next ==
    \/ Handler
    \/ \E t \in Thread : SendStep(t)
    \/ OutputLine \/ QdlExits \/ KillQdl \/ Disconnect \/ CacheChanges

Spec == Init /\ [][Next]_vars

\* A Send returns at the latest when the context of its stream is done; every
\* call the handler makes takes the context, or does not wait.
FairSpec ==
    /\ Spec
    /\ WF_vars(Handler)
    /\ WF_vars(KillQdl)
    /\ \A t \in Thread :
         /\ WF_vars(LockSender(t) \/ CheckCause(t))
         /\ WF_vars(cause # "none" /\ (Deliver(t) \/ FailSend(t)))

-----------------------------------------------------------------------------
(* Properties.                                                             *)

Was(m) == \E i \in DOMAIN sent : sent[i] = m

\* Every variable has its type, and the mutex is held by the thread between its
\* Lock and its Unlock.
TypeOK ==
    /\ req \in [cache : BOOLEAN, table : BOOLEAN]
    /\ pc \in Phase
    /\ err \in {"none", "failed", "cancelled", "send"}
    /\ cause \in {"none", "cancelled", "send"}
    /\ early \in BOOLEAN
    /\ call \in [Thread -> [step : {"idle", "lock", "check", "send"}, msg : Msg]]
    /\ lock \in Thread \cup {"nobody"}
    /\ sendErr \in [Thread -> {"none", "cancelled", "send"}]
    /\ broken \in BOOLEAN
    /\ sent \in Seq(Msg)
    /\ updates \in 0..MaxUpdates
    /\ inCache \in BOOLEAN
    /\ archive \in {"nowhere", "cache", "scratch"}
    /\ scratch \in BOOLEAN
    /\ qdl \in {"none", "running", "ok", "failed"}
    /\ board \in {"untouched", "writing", "flashed", "partial"}
    /\ \A t \in Thread : lock = t <=> call[t].step \in {"check", "send"}

\* A client that is lost before the board is turned to, by cancellation or by a
\* Send that failed, finds its board untouched.
EarlyLossSparesBoard == early => board = "untouched"

\* Success is reported, by the Result message or by the status of the call, if
\* and only if the board was flashed to the end and the client could be told.
SuccessIsTrue ==
    /\ Was("result") => board = "flashed"
    /\ pc = "done" => (err = "none" <=> Was("result"))

\* What the client is sent is a conversation: the download is started before
\* anything and ended exactly once, a failed one is the last word, and each
\* stage follows the one before.  While the client listens, every download that
\* was announced is ended.
Stage == [start |-> 1, update |-> 2, end_failed |-> 9, end_ok |-> 3, extract |-> 4,
          extracted |-> 5, flash |-> 6, line |-> 7, flashed |-> 8, result |-> 9]
Repeated == {"update", "extract", "line"}
Conversation ==
    /\ \A i, j \in DOMAIN sent : i < j =>
         Stage[sent[i]] < Stage[sent[j]] \/ (sent[i] = sent[j] /\ sent[i] \in Repeated)
    /\ sent # <<>> => sent[1] = "start"
    /\ Was("extract") => Was("end_ok")
    /\ Was("result") => Was("flashed")
    /\ pc = "done" /\ cause = "none" /\ Was("start") => Was("end_ok") \/ Was("end_failed")

\* The scratch directory is there as long as anything works in it, and never
\* after the call.
ScratchOutlivesWork ==
    /\ qdl = "running" \/ pc = "extracting" => scratch
    /\ pc = "done" => ~scratch

\* "Stop work if the client can no longer receive progress": after a Send has
\* failed, no thread calls stream.Send again, and once the handler has returned,
\* nobody uses its stream or its context.
StreamIsLeftAlone ==
    \A t \in Thread : /\ broken => call[t].step # "send"
                      /\ pc = "done" => call[t].step = "idle"

\* A client that leaves, at any point, does not keep the daemon busy: the call
\* returns, with qdl stopped and the scratch directory removed.
AbandonedReturns == cause # "none" ~> pc = "done"
=============================================================================
