------------------------- MODULE FlashServiceProofs -------------------------
(***************************************************************************)
(* Proofs about FlashService: what TLC checks for a few progress messages  *)
(* holds for any number of them.                                           *)
(***************************************************************************)
EXTENDS FlashService, TLAPS

Returned == {"return", "done"}
Begun    == {"begin", "fetch", "mkdir", "start"}

\* From the last look at the context after the download on.
Extracting == {"open", "extract", "extracting", "flash", "confirm"} \cup Flashing

\* What the client has been sent.
Words == {sent[i] : i \in DOMAIN sent}

Pending(m) == call["main"].step # "idle" /\ call["main"].msg = m

-----------------------------------------------------------------------------
(* The invariants.                                                         *)

\* What a thread may be sending, by the phase the handler is in meanwhile.
Announcements ==
    {<<"lookup", "start">>, <<"refused", "end_failed">>, <<"failed", "end_failed">>,
     <<"download", "update">>, <<"end_ok", "update">>, <<"ended", "end_ok">>,
     <<"extracting", "extract">>, <<"flash", "extracted">>, <<"confirm", "flash">>,
     <<"result", "flashed">>, <<"sent", "result">>}

\* The main thread sends what its phase is for, the output of qdl is passed on while
\* it writes, and a failed Send has ended the context before the mutex was free.
ThreadInv ==
    /\ call["main"].step # "idle" => <<pc, call["main"].msg>> \in Announcements
    /\ call["output"].step # "idle" => pc = "writing" /\ call["output"].msg = "line"
    /\ broken => cause # "none" /\ \A t \in Thread : call[t].step # "send"

\* qdl runs in two phases, the board is written in one of them, and a context that
\* ended before them keeps the handler from getting there.
BoardInv ==
    /\ pc \in Preparing \cup {"install", "reading", "plan"} => board = "untouched"
    /\ qdl = "running" => pc \in {"reading", "writing"}
    /\ pc = "writing" => <<qdl, board>> \in
         {<<"running", "writing">>, <<"ok", "flashed">>, <<"failed", "partial">>}
    /\ pc \in {"flashed", "result", "sent"} => board = "flashed"
    /\ early => cause # "none" /\ board = "untouched" /\ pc \in Preparing \cup Returned

ScratchInv ==
    /\ pc \notin {"begin", "fetch", "mkdir"} \cup Returned => scratch
    /\ pc = "done" => ~scratch

\* The answer is the last message, or the reason there is none.
AnswerInv ==
    /\ "result" \in Words => board = "flashed" /\ pc \in {"sent"} \cup Returned
    /\ Pending("result") => "result" \notin Words
    /\ pc \notin Returned => err = "none"
    /\ pc = "sent" /\ call["main"].step = "idle" => (sendErr["main"] = "none" <=> "result" \in Words)
    /\ pc \in Returned => (err = "none" <=> "result" \in Words)

\* What may have been said before a phase, and what has not while it is being said.
OrderInv ==
    /\ "start" \in Words      => pc \notin Begun
    /\ "update" \in Words     => pc \notin Begun \cup {"lookup", "stat"}
    /\ "end_ok" \in Words     => pc \in {"ended"} \cup Extracting \cup Returned
    /\ "end_failed" \in Words => pc \in {"refused", "failed"} \cup Returned
    /\ "extract" \in Words    => pc \in (Extracting \ {"open", "extract"}) \cup Returned
    /\ "extracted" \in Words  => pc \in {"flash", "confirm"} \cup Flashing \cup Returned
    /\ "flash" \in Words      => pc \in {"confirm"} \cup Flashing \cup Returned
    /\ "line" \in Words       => pc \in {"writing", "flashed", "result", "sent"} \cup Returned
    /\ "flashed" \in Words    => pc \in {"result", "sent"} \cup Returned
    /\ "result" \in Words     => pc \in {"sent"} \cup Returned
    /\ \A m \in Msg \ Repeated : Pending(m) => m \notin Words
    /\ \A i, j \in DOMAIN sent : i < j =>
         Stage[sent[i]] < Stage[sent[j]] \/ (sent[i] = sent[j] /\ sent[i] \in Repeated)

\* What a phase owes the client has been said, is being said, or cannot be said.
Told(m) == m \in Words \/ Pending(m) \/ cause # "none"
TellInv ==
    /\ sent # <<>> => sent[1] = "start"
    /\ pc \notin Begun \cup Returned => sent # <<>> \/ Told("start")
    /\ \A t \in Thread : call[t].step = "send" /\ call[t].msg # "start" => sent # <<>>
    /\ pc \in {"refused", "failed"} => Told("end_failed")
    /\ pc = "ended" => Told("end_ok")
    /\ pc \in Extracting => "end_ok" \in Words
    /\ "extract" \in Words => "end_ok" \in Words
    /\ pc \in {"result", "sent"} => Told("flashed")
    /\ call["main"].step = "send" /\ call["main"].msg = "result" => "flashed" \in Words
    /\ "result" \in Words => "flashed" \in Words
    /\ pc \in Returned /\ cause = "none" /\ "start" \in Words => "end_ok" \in Words \/ "end_failed" \in Words

IInv == TypeOK /\ ThreadInv /\ BoardInv /\ ScratchInv /\ AnswerInv /\ OrderInv /\ TellInv

-----------------------------------------------------------------------------
(* What a step of the handler does.                                        *)

\* The phases between which nothing is sent, and the ones where something is.
Moves ==
    {<<"begin", "fetch">>, <<"fetch", "mkdir">>, <<"mkdir", "start">>, <<"lookup", "stat">>,
     <<"lookup", "download">>, <<"lookup", "end_failed">>, <<"download", "end_ok">>,
     <<"download", "end_failed">>, <<"ended", "open">>, <<"open", "extract">>,
     <<"confirm", "install">>, <<"install", "reading">>, <<"install", "plan">>,
     <<"reading", "plan">>, <<"plan", "writing">>, <<"writing", "flashed">>,
     <<"return", "done">>}

Failing == {"begin", "fetch", "mkdir", "refused", "failed", "ended", "open", "extracting",
            "confirm", "install", "reading", "plan", "writing"}

Says ==
    {<<"start", "lookup", "start">>, <<"lookup", "refused", "end_failed">>,
     <<"stat", "end_ok", "update">>, <<"stat", "refused", "end_failed">>,
     <<"download", "download", "update">>, <<"end_failed", "failed", "end_failed">>,
     <<"end_ok", "ended", "end_ok">>, <<"extract", "extracting", "extract">>,
     <<"extracting", "extracting", "extract">>, <<"extracting", "flash", "extracted">>,
     <<"flash", "confirm", "flash">>, <<"flashed", "result", "flashed">>,
     <<"result", "sent", "result">>}

\* Where the handler goes: on, with something to say or not, or back.
Advances == <<pc, pc'>> \in Moves /\ err' = err /\ UNCHANGED call
Speaks   == \E m \in Msg : <<pc, pc', m>> \in Says /\ err' = err /\ StartSend("main", m)
Fails    == /\ pc \in Failing /\ pc' = "return" /\ UNCHANGED call
            /\ err' \in {"failed", "cancelled", "send"}
            /\ pc \in {"begin", "ended"} => cause # "none"
Answers  == pc = "sent" /\ pc' = "return" /\ err' = sendErr["main"] /\ UNCHANGED call

Effect ==
    /\ call["main"].step = "idle"
    /\ Advances \/ Speaks \/ Fails \/ Answers
    /\ pc \in {"ended", "confirm"} /\ pc' # "return" => cause = "none"
    /\ pc \in {"reading", "writing"} =>
         qdl \in {"ok", "failed"} /\ call["output"].step = "idle" /\ (pc' # "return" => qdl = "ok")
    /\ \/ UNCHANGED hwVars /\ pc' \notin {"reading", "writing"}
       \/ pc = "install" /\ pc' = "reading" /\ qdl' = "running" /\ UNCHANGED board
       \/ pc = "plan" /\ pc' = "writing" /\ qdl' = "running" /\ board' = "writing"
    /\ pc = "mkdir" /\ pc' = "start" => scratch' = TRUE
    /\ pc = "return" => scratch' = FALSE
    /\ pc \notin {"mkdir", "return"} => UNCHANGED scratch
    /\ updates' \in 0..MaxUpdates /\ inCache' \in BOOLEAN /\ scratch' \in BOOLEAN
    /\ archive' \in {"nowhere", "cache", "scratch"}
    /\ UNCHANGED <<req, ctxVars, lock, sendErr, broken, sent>>

\* Every step of the handler is of this kind.
LEMMA HandlerEffect ==
  ASSUME TypeOK, Handler
  PROVE  Effect
  <1> USE MaxUpdatesType DEF TypeOK, Advances, Speaks, Fails, Answers, Msg, Thread, Moves, Says, Failing,
          At, Local, Goto, Return, ReturnCauseOr, Say, Update, StartSend, ctxVars, sendVars, hwVars
  <1> USE DEF diskVars, Effect
  <1>1. CASE Start BY <1>1 DEF Start
  <1>2. CASE FetchRelease BY <1>2 DEF FetchRelease
  <1>3. CASE MakeScratch
    <2>1. CASE scratch' = TRUE /\ Goto("start") BY <1>3, <2>1 DEF MakeScratch
    <2>2. CASE scratch' = scratch /\ Return("failed") BY <1>3, <2>2 DEF MakeScratch
    <2> QED BY ONLY <1>3, <2>1, <2>2 DEF MakeScratch
  <1>4. CASE SayStart BY <1>4 DEF SayStart
  <1>5. CASE Lookup BY <1>5 DEF Lookup
  <1>6. CASE NoCache BY <1>6 DEF NoCache
  <1>7. CASE StatCached BY <1>7 DEF StatCached
  <1>8. CASE Refuse BY <1>8 DEF Refuse
  <1>9. CASE Download BY <1>9 DEF Download
  <1>10. CASE SayEndFailed BY <1>10 DEF SayEndFailed
  <1>11. CASE SayEndOk BY <1>11 DEF SayEndOk
  <1>12. CASE DownloadFailed BY <1>12 DEF DownloadFailed
  <1>13. CASE DownloadEnded BY <1>13 DEF DownloadEnded
  <1>14. CASE OpenArchive BY <1>14 DEF OpenArchive
  <1>15. CASE SayExtract BY <1>15 DEF SayExtract
  <1>16. CASE Extract BY <1>16 DEF Extract
  <1>17. CASE SayFlash BY <1>17 DEF SayFlash
  <1>18. CASE Confirm BY <1>18 DEF Confirm, Confirmed
  <1>19. CASE InstallQdl BY <1>19 DEF InstallQdl, RunQdl
  <1>20. CASE ReadTable BY <1>20 DEF ReadTable, QdlDone, Joined, Succeeded
  <1>21. CASE PlanFlash BY <1>21 DEF PlanFlash, RunQdl
  <1>22. CASE WriteBoard BY <1>22 DEF WriteBoard, QdlDone, Joined, Succeeded
  <1>23. CASE SayFlashed BY <1>23 DEF SayFlashed
  <1>24. CASE SayResult BY <1>24 DEF SayResult
  <1>25. CASE Answer BY <1>25 DEF Answer
  <1>26. CASE Finish BY <1>26 DEF Finish, RemoveScratch
  <1>27. QED
    <2> HIDE DEF Effect
    <2> QED BY <1>1, <1>2, <1>3, <1>4, <1>5, <1>6, <1>7, <1>8, <1>9, <1>10, <1>11, <1>12, <1>13, <1>14,
               <1>15, <1>16, <1>17, <1>18, <1>19, <1>20, <1>21, <1>22, <1>23, <1>24, <1>25, <1>26
            DEF Handler

-----------------------------------------------------------------------------
(* What is sent.                                                           *)

\* The messages as a set say the same as the history.
LEMMA WasWord ==
  ASSUME NEW m PROVE Was(m) <=> m \in Words
  BY DEF Was, Words

\* A delivered message is added to the messages, whatever was there.
LEMMA NewWord ==
  ASSUME TypeOK, NEW t \in Thread, Deliver(t)
  PROVE  /\ sent' \in Seq(Msg) /\ Len(sent') = Len(sent) + 1
         /\ sent'[Len(sent) + 1] = call[t].msg
         /\ \A i \in DOMAIN sent : i \in DOMAIN sent' /\ sent'[i] = sent[i]
         /\ Words' = Words \cup {call[t].msg}
  <1>1. call[t].msg \in Msg /\ sent \in Seq(Msg) /\ sent' = Append(sent, call[t].msg)
    BY DEF TypeOK, Deliver
  <1>2. /\ sent' \in Seq(Msg) /\ Len(sent') = Len(sent) + 1
        /\ sent'[Len(sent) + 1] = call[t].msg
        /\ \A i \in DOMAIN sent : i \in DOMAIN sent' /\ sent'[i] = sent[i]
        /\ DOMAIN sent' = DOMAIN sent \cup {Len(sent) + 1}
    BY <1>1
  <1> QED BY ONLY <1>2 DEF Words

-----------------------------------------------------------------------------
(* The invariants are inductive.                                           *)

\* Every step keeps the types, and the mutex with the thread that locked it.
LEMMA TypeStep ==
  ASSUME TypeOK, [Next]_vars
  PROVE  TypeOK'
  <1> USE MaxUpdatesType DEF TypeOK, Thread, ctxVars, sendVars, diskVars, hwVars
  <1>1. CASE Handler
    <2>1. Effect BY <1>1, HandlerEffect
    <2>2. pc' \in Phase /\ err' \in {"none", "failed", "cancelled", "send"}
      BY <2>1 DEF Effect, Advances, Speaks, Fails, Answers, Moves, Says, Phase, Preparing, Flashing
    <2>3. /\ call' \in [Thread -> [step : {"idle", "lock", "check", "send"}, msg : Msg]]
          /\ \A t \in Thread : lock' = t <=> call'[t].step \in {"check", "send"}
      <3>1. CASE UNCHANGED call BY <2>1, <3>1 DEF Effect
      <3>2. ASSUME NEW m \in Msg, StartSend("main", m)
            PROVE  /\ call' \in [Thread -> [step : {"idle", "lock", "check", "send"}, msg : Msg]]
                   /\ \A t \in Thread : lock' = t <=> call'[t].step \in {"check", "send"}
        BY <2>1, <3>2 DEF Effect, StartSend
      <3> QED BY <2>1, <3>1, <3>2 DEF Effect, Advances, Speaks, Fails, Answers
    <2>4. qdl' \in {"none", "running", "ok", "failed"} /\ board' \in {"untouched", "writing", "flashed", "partial"}
      BY <2>1 DEF Effect
    <2> QED BY <2>1, <2>2, <2>3, <2>4 DEF Effect
  <1>2. ASSUME NEW t \in Thread, LockSender(t) PROVE TypeOK'
    BY <1>2 DEF LockSender
  <1>3. ASSUME NEW t \in Thread, CheckCause(t) PROVE TypeOK'
    BY <1>3 DEF CheckCause, FinishSend, Quiet, Msg
  <1>4. ASSUME NEW t \in Thread, Deliver(t) PROVE TypeOK'
    BY <1>4, NewWord DEF Deliver, FinishSend, Quiet, Msg
  <1>5. ASSUME NEW t \in Thread, FailSend(t) PROVE TypeOK'
    BY <1>5 DEF FailSend, SendErrorKept, Cancel, FinishSend, Quiet, Msg
  <1>6. CASE OutputLine BY <1>6 DEF OutputLine, StartSend, Msg
  <1>7. CASE QdlExits BY <1>7 DEF QdlExits
  <1>8. CASE KillQdl BY <1>8 DEF KillQdl
  <1>9. CASE Disconnect BY <1>9 DEF Disconnect, Cancel
  <1>10. CASE CacheChanges BY <1>10 DEF CacheChanges
  <1>11. CASE UNCHANGED vars BY <1>11 DEF vars
  <1> QED BY <1>1, <1>2, <1>3, <1>4, <1>5, <1>6, <1>7, <1>8, <1>9, <1>10, <1>11 DEF Next, SendStep

\* Two threads never hold the mutex, so none is past its look at the context
\* when the Send of the other fails.
LEMMA ThreadStep ==
  ASSUME TypeOK, ThreadInv, [Next]_vars
  PROVE  ThreadInv'
  <1> USE DEF TypeOK, ThreadInv, Thread, ctxVars, sendVars, diskVars, hwVars
  <1>1. CASE Handler
    <2>1. Effect BY <1>1, HandlerEffect
    <2>2. CASE Speaks
      <3>1. PICK m \in Msg : <<pc, pc', m>> \in Says /\ StartSend("main", m)
        BY <2>2 DEF Speaks
      <3>2. <<pc', m>> \in Announcements /\ pc # "writing" /\ pc' # "writing"
        BY <3>1 DEF Says, Announcements
      <3> QED BY <2>1, <3>1, <3>2 DEF Effect, StartSend
    <2>3. CASE UNCHANGED call
      BY <2>1, <2>3 DEF Effect
    <2> QED BY <2>1, <2>2, <2>3 DEF Effect, Advances, Fails, Answers
  <1>2. ASSUME NEW t \in Thread, LockSender(t) PROVE ThreadInv'
    BY <1>2 DEF LockSender
  <1>3. ASSUME NEW t \in Thread, CheckCause(t) PROVE ThreadInv'
    <2>1. CASE cause = "none" BY <1>3, <2>1 DEF CheckCause
    <2>2. CASE cause # "none" BY <1>3, <2>2 DEF CheckCause, FinishSend, Quiet
    <2> QED BY <2>1, <2>2
  <1>4. ASSUME NEW t \in Thread, Deliver(t) PROVE ThreadInv'
    BY <1>4 DEF Deliver, FinishSend, Quiet
  <1>5. ASSUME NEW t \in Thread, FailSend(t) PROVE ThreadInv'
    BY <1>5 DEF FailSend, SendErrorKept, Cancel, FinishSend, Quiet
  <1>6. CASE OutputLine BY <1>6 DEF OutputLine, StartSend
  <1>7. CASE QdlExits BY <1>7 DEF QdlExits
  <1>8. CASE KillQdl BY <1>8 DEF KillQdl
  <1>9. CASE Disconnect BY <1>9 DEF Disconnect, Cancel
  <1>10. CASE CacheChanges BY <1>10 DEF CacheChanges
  <1>11. CASE UNCHANGED vars BY <1>11 DEF vars
  <1> QED BY <1>1, <1>2, <1>3, <1>4, <1>5, <1>6, <1>7, <1>8, <1>9, <1>10, <1>11 DEF Next, SendStep

\* The board is turned to only after the last look at the context, and left only
\* when qdl has ended.
LEMMA BoardStep ==
  ASSUME TypeOK, BoardInv, [Next]_vars
  PROVE  BoardInv'
  <1> USE DEF TypeOK, BoardInv, Preparing, Returned, ctxVars, sendVars, diskVars, hwVars
  <1>1. CASE Handler
    <2>1. Effect BY <1>1, HandlerEffect
    <2>2. CASE Advances BY <2>1, <2>2 DEF Effect, Advances, Moves
    <2>3. CASE Speaks BY <2>1, <2>3 DEF Effect, Speaks, Says
    <2>4. CASE Fails \/ Answers BY <2>1, <2>4 DEF Effect, Fails, Answers, Failing
    <2> QED BY <2>1, <2>2, <2>3, <2>4 DEF Effect
  <1>2. ASSUME NEW t \in Thread, LockSender(t) \/ CheckCause(t) \/ Deliver(t) PROVE BoardInv'
    BY <1>2 DEF LockSender, CheckCause, Deliver
  <1>3. ASSUME NEW t \in Thread, FailSend(t) PROVE BoardInv'
    BY <1>3 DEF FailSend, SendErrorKept, Cancel
  <1>4. CASE OutputLine BY <1>4 DEF OutputLine
  <1>5. CASE QdlExits BY <1>5 DEF QdlExits
  <1>6. CASE KillQdl BY <1>6 DEF KillQdl
  <1>7. CASE Disconnect BY <1>7 DEF Disconnect, Cancel
  <1>8. CASE CacheChanges BY <1>8 DEF CacheChanges
  <1>9. CASE UNCHANGED vars BY <1>9 DEF vars
  <1> QED BY <1>1, <1>2, <1>3, <1>4, <1>5, <1>6, <1>7, <1>8, <1>9 DEF Next, SendStep

\* The scratch directory comes with the first phase that needs it and goes last.
LEMMA ScratchStep ==
  ASSUME TypeOK, ScratchInv, [Next]_vars
  PROVE  ScratchInv'
  <1> USE DEF ScratchInv, Returned, ctxVars, sendVars, diskVars, hwVars
  <1>1. CASE Handler
    <2>1. Effect BY <1>1, HandlerEffect
    <2>2. CASE Advances BY <2>1, <2>2 DEF Effect, Advances, Moves
    <2>3. CASE Speaks BY <2>1, <2>3 DEF Effect, Speaks, Says
    <2>4. CASE Fails \/ Answers BY <2>1, <2>4 DEF Effect, Fails, Answers, Failing
    <2> QED BY <2>1, <2>2, <2>3, <2>4 DEF Effect
  <1>2. ASSUME NEW t \in Thread, SendStep(t) PROVE ScratchInv'
    BY <1>2 DEF SendStep, LockSender, CheckCause, Deliver, FailSend
  <1>3. CASE OutputLine \/ QdlExits \/ KillQdl BY <1>3 DEF OutputLine, QdlExits, KillQdl
  <1>4. CASE Disconnect \/ CacheChanges BY <1>4 DEF Disconnect, CacheChanges
  <1>5. CASE UNCHANGED vars BY <1>5 DEF vars
  <1> QED BY <1>1, <1>2, <1>3, <1>4, <1>5 DEF Next

\* The word a thread is about to deliver goes after all those delivered.
LEMMA WordIsNext ==
  ASSUME TypeOK, ThreadInv, OrderInv, NEW t \in Thread, call[t].step # "idle",
         NEW x \in Words
  PROVE  \/ Stage[x] < Stage[call[t].msg]
         \/ x = call[t].msg /\ x \in Repeated
  <1>1. x \in Msg BY DEF TypeOK, Words
  <1>2. x \in {"start", "update", "end_failed", "end_ok", "extract", "extracted", "flash", "line",
               "flashed", "result"}
    BY <1>1 DEF Msg
  <1>3. CASE t = "output"
    <2>1. pc = "writing" /\ call[t].msg = "line" BY <1>3 DEF ThreadInv
    <2> QED BY <1>2, <2>1 DEF OrderInv, Stage, Repeated, Returned
  <1>4. CASE t = "main"
    <2>1. <<pc, call[t].msg>> \in Announcements BY <1>4 DEF ThreadInv
    <2>2. Pending(call[t].msg) BY <1>4 DEF Pending
    <2>3. call[t].msg \notin Repeated => call[t].msg \notin Words
      BY <2>1, <2>2 DEF OrderInv, Announcements, Msg
    <2> QED BY <1>2, <2>1, <2>3 DEF Announcements, OrderInv, Stage, Repeated, Returned, Begun, Extracting, Flashing
  <1> QED BY <1>3, <1>4 DEF Thread

\* The order of the phases is the order of the words.
LEMMA OrderStep ==
  ASSUME TypeOK, ThreadInv, OrderInv, [Next]_vars
  PROVE  OrderInv'
  <1> USE DEF Thread, ctxVars, sendVars, diskVars, hwVars
  <1> DEFINE Placed ==
        /\ "start" \in Words      => pc \notin Begun
        /\ "update" \in Words     => pc \notin Begun \cup {"lookup", "stat"}
        /\ "end_ok" \in Words     => pc \in {"ended"} \cup Extracting \cup Returned
        /\ "end_failed" \in Words => pc \in {"refused", "failed"} \cup Returned
        /\ "extract" \in Words    => pc \in (Extracting \ {"open", "extract"}) \cup Returned
        /\ "extracted" \in Words  => pc \in {"flash", "confirm"} \cup Flashing \cup Returned
        /\ "flash" \in Words      => pc \in {"confirm"} \cup Flashing \cup Returned
        /\ "line" \in Words       => pc \in {"writing", "flashed", "result", "sent"} \cup Returned
        /\ "flashed" \in Words    => pc \in {"result", "sent"} \cup Returned
        /\ "result" \in Words     => pc \in {"sent"} \cup Returned
        Fresh == \A m \in Msg \ Repeated : Pending(m) => m \notin Words
        Sorted == \A i, j \in DOMAIN sent : i < j =>
                    Stage[sent[i]] < Stage[sent[j]] \/ (sent[i] = sent[j] /\ sent[i] \in Repeated)
  <1>0. OrderInv <=> Placed /\ Fresh /\ Sorted BY DEF OrderInv
  <1>1. CASE Handler
    <2>1. Effect BY <1>1, HandlerEffect
    <2>2. UNCHANGED sent /\ Words' = Words BY <2>1 DEF Effect, Words
    <2>3. Placed'
      <3> USE <1>0, <2>2 DEF Begun, Extracting, Flashing, Returned
      <3>1. CASE Advances BY <3>1 DEF Advances, Moves
      <3>2. CASE Speaks BY <3>2 DEF Speaks, Says
      <3>3. CASE Fails \/ Answers BY <3>3 DEF Fails, Answers, Failing
      <3> QED BY <2>1, <3>1, <3>2, <3>3 DEF Effect
    <2>4. Fresh'
      <3>1. CASE UNCHANGED call BY <1>0, <2>2, <3>1 DEF Pending
      <3>2. ASSUME NEW m \in Msg, <<pc, pc', m>> \in Says, StartSend("main", m) PROVE Fresh'
        <4>1. call'["main"].msg = m BY <3>2 DEF StartSend, TypeOK
        <4>2. m \in Repeated \/ m \notin Words
          BY <1>0, <3>2 DEF Says, Repeated, Begun, Extracting, Flashing, Returned
        <4> QED BY <2>2, <4>1, <4>2 DEF Pending
      <3> QED BY <2>1, <3>1, <3>2 DEF Effect, Advances, Speaks, Fails, Answers
    <2>5. Sorted' BY <1>0, <2>2
    <2> QED BY <2>3, <2>4, <2>5 DEF OrderInv
  <1>2. ASSUME NEW t \in Thread, LockSender(t) \/ CheckCause(t) \/ FailSend(t) PROVE OrderInv'
    <2>1. UNCHANGED <<pc, sent>> /\ Words' = Words
      BY <1>2 DEF LockSender, CheckCause, FailSend, Words
    <2>2. \A m \in Msg : Pending(m)' => Pending(m)
      <3>1. CASE LockSender(t) BY <3>1 DEF LockSender, Pending, TypeOK
      <3>2. CASE CheckCause(t) BY <3>2 DEF CheckCause, FinishSend, Quiet, Pending, TypeOK
      <3>3. CASE FailSend(t) BY <3>3 DEF FailSend, FinishSend, Quiet, Pending, TypeOK
      <3> QED BY <1>2, <3>1, <3>2, <3>3
    <2>3. Placed' BY <1>0, <2>1
    <2>4. Fresh' BY <1>0, <2>1, <2>2
    <2>5. Sorted' BY <1>0, <2>1
    <2> QED BY <2>3, <2>4, <2>5 DEF OrderInv
  <1>3. ASSUME NEW t \in Thread, Deliver(t) PROVE OrderInv'
    <2> DEFINE w == call[t].msg
    <2>1. /\ w \in Msg /\ call[t].step # "idle" /\ UNCHANGED pc
          /\ call' = [call EXCEPT ![t] = Quiet]
      BY <1>3 DEF Deliver, FinishSend, TypeOK
    <2>2. <<pc, w>> \in Announcements \cup {<<"writing", "line">>}
      BY <2>1 DEF ThreadInv
    <2>3. Placed'
      BY <1>0, <1>3, <2>1, <2>2, NewWord DEF Announcements, Begun, Extracting, Flashing, Returned
    <2>4. Fresh'
      <3>1. CASE t = "main" BY <2>1, <3>1 DEF Pending, Quiet, TypeOK
      <3>2. CASE t = "output"
        <4>1. w = "line" BY <2>1, <3>2 DEF ThreadInv
        <4>2. call'["main"] = call["main"] BY <2>1, <3>2 DEF TypeOK
        <4> QED BY <1>0, <1>3, <4>1, <4>2, NewWord DEF Pending, Repeated
      <3> QED BY <3>1, <3>2
    <2>5. Sorted'
      <3> SUFFICES ASSUME NEW i \in DOMAIN sent', NEW j \in DOMAIN sent', i < j
                   PROVE  \/ Stage[sent'[i]] < Stage[sent'[j]]
                          \/ sent'[i] = sent'[j] /\ sent'[i] \in Repeated
        OBVIOUS
      <3>1. i \in 1..Len(sent) /\ j \in 1..Len(sent) + 1 /\ DOMAIN sent = 1..Len(sent)
        BY <1>3, NewWord DEF TypeOK
      <3>2. CASE j \in DOMAIN sent BY <1>0, <1>3, <3>1, <3>2, NewWord
      <3>3. CASE j = Len(sent) + 1
        <4>1. sent'[i] \in Words /\ sent'[j] = w BY <1>3, <3>1, <3>3, NewWord DEF Words
        <4> QED BY <2>1, <4>1, WordIsNext
      <3> QED BY <3>1, <3>2, <3>3
    <2> QED BY <2>3, <2>4, <2>5 DEF OrderInv
  <1>4. ASSUME UNCHANGED <<pc, sent>>, call'["main"] = call["main"] PROVE OrderInv'
    <2>1. Words' = Words /\ UNCHANGED sent /\ UNCHANGED pc BY <1>4 DEF Words
    <2>2. Placed' /\ Sorted' BY <1>0, <2>1
    <2>3. Fresh' BY <1>0, <1>4, <2>1 DEF Pending
    <2> QED BY <2>2, <2>3 DEF OrderInv
  <1>5. CASE OutputLine
    <2>1. call'["main"] = call["main"] /\ UNCHANGED <<pc, sent>>
      BY <1>5 DEF OutputLine, StartSend, TypeOK
    <2> QED BY <1>4, <2>1
  <1>6. CASE QdlExits \/ KillQdl \/ Disconnect \/ CacheChanges \/ UNCHANGED vars
    BY <1>4, <1>6 DEF QdlExits, KillQdl, Disconnect, CacheChanges, vars
  <1> QED BY <1>1, <1>2, <1>3, <1>5, <1>6 DEF Next, SendStep

\* Nothing is delivered but what a thread is sending, and the handler says nothing
\* of a board that qdl has not finished with.
LEMMA AnswerStep ==
  ASSUME TypeOK, ThreadInv, BoardInv, OrderInv, AnswerInv, [Next]_vars
  PROVE  AnswerInv'
  <1> USE DEF TypeOK, AnswerInv, Thread, Returned, ctxVars, sendVars, diskVars, hwVars
  <1>1. CASE Handler
    <2>1. Effect BY <1>1, HandlerEffect
    <2>2. UNCHANGED sent /\ Words' = Words BY <2>1 DEF Effect, Words
    <2>3. CASE Advances BY <2>1, <2>2, <2>3 DEF Effect, Advances, Moves, Pending
    <2>4. CASE Speaks
      <3>1. PICK m \in Msg : <<pc, pc', m>> \in Says /\ err' = err /\ StartSend("main", m)
        BY <2>4 DEF Speaks
      <3>2. call'["main"].step = "lock" /\ call'["main"].msg = m BY <3>1 DEF StartSend
      <3> QED BY <2>1, <2>2, <3>1, <3>2 DEF Effect, Says, Pending
    <2>5. CASE Fails BY <2>1, <2>2, <2>5 DEF Effect, Fails, Failing, Pending
    <2>6. CASE Answers BY <2>1, <2>2, <2>6 DEF Effect, Answers, Pending
    <2> QED BY <2>1, <2>3, <2>4, <2>5, <2>6 DEF Effect
  <1>2. ASSUME NEW t \in Thread, LockSender(t) PROVE AnswerInv'
    BY <1>2 DEF LockSender, Pending, Words
  <1>3. ASSUME NEW t \in Thread, CheckCause(t) PROVE AnswerInv'
    <2>1. Words' = Words BY <1>3 DEF CheckCause, Words
    <2>2. CASE cause = "none" BY <1>3, <2>1, <2>2 DEF CheckCause, Pending
    <2>3. CASE cause # "none"
      <3>1. CASE t = "output" BY <1>3, <2>1, <2>3, <3>1 DEF CheckCause, FinishSend, Quiet, Pending, ThreadInv
      <3>2. CASE t = "main"
        BY <1>3, <2>1, <2>3, <3>2 DEF CheckCause, FinishSend, Quiet, Pending, ThreadInv, Announcements
      <3> QED BY <3>1, <3>2
    <2> QED BY <2>2, <2>3
  <1>4. ASSUME NEW t \in Thread, Deliver(t) PROVE AnswerInv'
    <2>1. Words' = Words \cup {call[t].msg} BY <1>4, NewWord
    <2>2. CASE t = "output" BY <1>4, <2>1, <2>2 DEF Deliver, FinishSend, Quiet, Pending, ThreadInv
    <2>3. CASE t = "main"
      <3>1. <<pc, call["main"].msg>> \in Announcements BY <1>4, <2>3 DEF Deliver, ThreadInv
      <3>2. pc = "sent" <=> call["main"].msg = "result" BY <3>1 DEF Announcements
      <3>3. pc \notin Returned BY <3>1 DEF Announcements
      <3>4. pc = "sent" => board = "flashed" BY DEF BoardInv
      <3> QED BY <1>4, <2>1, <2>3, <3>2, <3>3, <3>4 DEF Deliver, FinishSend, Quiet, Pending
    <2> QED BY <2>2, <2>3
  <1>5. ASSUME NEW t \in Thread, FailSend(t) PROVE AnswerInv'
    <2>1. Words' = Words BY <1>5 DEF FailSend, Words
    <2>2. CASE t = "output" BY <1>5, <2>1, <2>2 DEF FailSend, FinishSend, Quiet, Pending, ThreadInv
    <2>3. CASE t = "main"
      BY <1>5, <2>1, <2>3 DEF FailSend, FinishSend, Quiet, Pending, ThreadInv, Announcements
    <2> QED BY <2>2, <2>3
  <1>6. CASE OutputLine BY <1>6 DEF OutputLine, StartSend, Pending, Words
  <1>7. CASE QdlExits BY <1>7 DEF QdlExits, Pending, Words, BoardInv
  <1>8. CASE KillQdl BY <1>8 DEF KillQdl, Pending, Words, BoardInv
  <1>9. CASE Disconnect BY <1>9 DEF Disconnect, Pending, Words
  <1>10. CASE CacheChanges BY <1>10 DEF CacheChanges, Pending, Words
  <1>11. CASE UNCHANGED vars BY <1>11 DEF vars, Pending, Words
  <1> QED BY <1>1, <1>2, <1>3, <1>4, <1>5, <1>6, <1>7, <1>8, <1>9, <1>10, <1>11 DEF Next, SendStep

\* The phases that follow a message are reached with it sent, or without a client.
LEMMA TellStep ==
  ASSUME TypeOK, ThreadInv, OrderInv, TellInv, [Next]_vars
  PROVE  TellInv'
  <1> USE DEF TypeOK, TellInv, Thread, Told, Returned, Begun, Extracting, Flashing,
              ctxVars, sendVars, diskVars, hwVars
  <1>1. CASE Handler
    <2>1. Effect BY <1>1, HandlerEffect
    <2>2. UNCHANGED <<sent, cause>> /\ Words' = Words BY <2>1 DEF Effect, Words
    <2>3. CASE Advances BY <2>1, <2>2, <2>3 DEF Effect, Advances, Moves, Pending
    <2>4. CASE Speaks
      <3>1. PICK m \in Msg : <<pc, pc', m>> \in Says /\ err' = err /\ StartSend("main", m)
        BY <2>4 DEF Speaks
      <3>2. /\ call'["main"].step = "lock" /\ call'["main"].msg = m
            /\ call'["output"] = call["output"]
        BY <3>1 DEF StartSend
      <3> QED BY <2>1, <2>2, <3>1, <3>2 DEF Effect, Says, Pending
    <2>5. CASE Fails BY <2>1, <2>2, <2>5 DEF Effect, Fails, Failing, Pending, OrderInv
    <2>6. CASE Answers BY <2>1, <2>2, <2>6 DEF Effect, Answers, Pending
    <2> QED BY <2>1, <2>3, <2>4, <2>5, <2>6 DEF Effect
  <1>2. ASSUME NEW t \in Thread, LockSender(t) PROVE TellInv'
    BY <1>2 DEF LockSender, Pending, Words
  <1>3. ASSUME NEW t \in Thread, CheckCause(t) PROVE TellInv'
    <2>1. UNCHANGED <<pc, sent, cause>> /\ Words' = Words BY <1>3 DEF CheckCause, Words
    <2>2. CASE cause = "none"
      <3>1. call' = [call EXCEPT ![t].step = "send"] /\ call[t].step = "check" BY <1>3, <2>2 DEF CheckCause
      <3>2. \A m \in Msg : Pending(m)' <=> Pending(m) BY <3>1 DEF Pending
      <3>3. <<pc, call[t].msg>> \in Announcements \cup {<<"writing", "line">>} BY <3>1 DEF ThreadInv
      <3>4. call[t].msg # "start" => ~Pending("start")
        <4>1. CASE t = "main" BY <4>1 DEF Pending
        <4>2. CASE t = "output" BY <3>1, <4>2 DEF Pending, ThreadInv, Announcements
        <4> QED BY <4>1, <4>2
      <3>5. call[t].msg # "start" => sent # <<>>
        <4>1. pc \notin Begun \cup Returned BY <3>3 DEF Announcements
        <4>2. "start" \in Words => sent # <<>> BY DEF Words
        <4> QED BY <2>2, <3>4, <4>1, <4>2
      <3>6. call[t].msg = "result" => "flashed" \in Words
        <4>1. t = "output" => call[t].msg = "line" BY <3>1 DEF ThreadInv
        <4>2. call[t].msg = "result" => pc = "sent" /\ ~Pending("flashed") BY <3>3, <4>1 DEF Announcements, Pending
        <4> QED BY <2>2, <4>2
      <3> QED BY <2>1, <3>1, <3>2, <3>5, <3>6 DEF Msg
    <2>3. CASE cause # "none"
      BY <1>3, <2>1, <2>3 DEF CheckCause, FinishSend, Quiet, Pending
    <2> QED BY <2>2, <2>3
  <1>4. ASSUME NEW t \in Thread, Deliver(t) PROVE TellInv'
    <2>0. sent' # <<>>
      <3>1. Len(sent) \in Nat /\ Len(sent') = Len(sent) + 1 BY <1>4, NewWord
      <3> QED BY ONLY <3>1
    <2>1. /\ Words' = Words \cup {call[t].msg} /\ sent' # <<>>
          /\ UNCHANGED <<pc, cause>> /\ call[t].step = "send"
          /\ call' = [call EXCEPT ![t] = Quiet]
      BY <1>4, <2>0, NewWord DEF Deliver, FinishSend
    <2>2. sent'[1] = "start"
      <3>1. CASE sent = <<>> BY <1>4, <2>1, <3>1, NewWord
      <3>2. CASE sent # <<>> BY <1>4, <3>2, NewWord
      <3> QED BY <3>1, <3>2
    <2>3. \A m \in Msg : m \in Words \/ Pending(m) => m \in Words' \/ Pending(m)'
      <3>1. CASE t = "main" BY <2>1, <3>1 DEF Pending
      <3>2. CASE t = "output" BY <2>1, <3>2 DEF Pending
      <3> QED BY <3>1, <3>2
    <2>4. <<pc, call[t].msg>> \in Announcements \cup {<<"writing", "line">>} BY <2>1 DEF ThreadInv
    <2>5. call[t].msg = "extract" => "end_ok" \in Words BY <2>4 DEF Announcements
    <2>6. call[t].msg = "result" => "flashed" \in Words
      <3>1. t = "output" => call[t].msg = "line" BY <2>1 DEF ThreadInv
      <3> QED BY <2>1, <3>1
    <2>7. pc \notin Returned BY <2>4 DEF Announcements
    <2>8. \A u \in Thread : call'[u].step = "send" => call'[u] = call[u] BY <2>1 DEF Quiet
    <2> QED BY <2>1, <2>2, <2>3, <2>5, <2>6, <2>7, <2>8 DEF Msg
  <1>5. ASSUME NEW t \in Thread, FailSend(t) PROVE TellInv'
    <2>1. UNCHANGED <<pc, sent>> /\ Words' = Words /\ cause' # "none"
      BY <1>5 DEF FailSend, SendErrorKept, Cancel, Words
    <2> QED BY <1>5, <2>1 DEF FailSend, FinishSend, Quiet
  <1>6. CASE OutputLine BY <1>6 DEF OutputLine, StartSend, Pending, Words
  <1>7. CASE QdlExits BY <1>7 DEF QdlExits, Pending, Words
  <1>8. CASE KillQdl BY <1>8 DEF KillQdl, Pending, Words
  <1>9. CASE Disconnect BY <1>9 DEF Disconnect, Cancel, Pending, Words
  <1>10. CASE CacheChanges BY <1>10 DEF CacheChanges, Pending, Words
  <1>11. CASE UNCHANGED vars BY <1>11 DEF vars, Pending, Words
  <1> QED BY <1>1, <1>2, <1>3, <1>4, <1>5, <1>6, <1>7, <1>8, <1>9, <1>10, <1>11 DEF Next, SendStep

\* A request begins with the invariant.
LEMMA InitIInv ==
  ASSUME Init PROVE IInv
  <1> USE MaxUpdatesType DEF Init
  <1>1. Words = {} BY DEF Words
  <1>2. TypeOK
    <2>1. /\ call \in [Thread -> [step : {"idle", "lock", "check", "send"}, msg : Msg]]
          /\ \A t \in Thread : lock = t <=> call[t].step \in {"check", "send"}
          /\ sendErr \in [Thread -> {"none", "cancelled", "send"}]
      BY DEF Thread, Quiet, Msg
    <2>2. sent \in Seq(Msg) /\ updates \in 0..MaxUpdates /\ pc \in Phase
      BY DEF Phase, Preparing
    <2>3. /\ err \in {"none", "failed", "cancelled", "send"}
          /\ cause \in {"none", "cancelled", "send"}
          /\ early \in BOOLEAN /\ broken \in BOOLEAN /\ scratch \in BOOLEAN /\ inCache \in BOOLEAN
          /\ archive \in {"nowhere", "cache", "scratch"}
          /\ qdl \in {"none", "running", "ok", "failed"}
          /\ board \in {"untouched", "writing", "flashed", "partial"}
      OBVIOUS
    <2>4. lock \in Thread \cup {"nobody"} OBVIOUS
    <2>5. req \in [cache : BOOLEAN, table : BOOLEAN] OBVIOUS
    <2> QED BY <2>1, <2>2, <2>3, <2>4, <2>5 DEF TypeOK
  <1>3. ThreadInv /\ BoardInv /\ ScratchInv BY DEF ThreadInv, BoardInv, ScratchInv, Thread, Quiet, Preparing
  <1>4. AnswerInv /\ OrderInv /\ TellInv
    BY <1>1 DEF AnswerInv, OrderInv, TellInv, Pending, Thread, Quiet, Begun, Returned, Extracting, Flashing, Told
  <1> QED BY <1>2, <1>3, <1>4 DEF IInv

\* And keeps it.
LEMMA InvariantHolds == Spec => []IInv
  <1>1. Init => IInv BY InitIInv
  <1>2. IInv /\ [Next]_vars => IInv'
    BY TypeStep, ThreadStep, BoardStep, ScratchStep, AnswerStep, OrderStep, TellStep DEF IInv
  <1> QED BY <1>1, <1>2, PTL DEF Spec

-----------------------------------------------------------------------------
(* The properties of FlashService.                                         *)

\* Type correctness, with the mutex of the sender (service_flash.go:39) held by
\* exactly the thread that is between its Lock and its Unlock.
THEOREM TypeCorrect == Spec => []TypeOK
  <1>1. IInv => TypeOK BY DEF IInv
  <1> QED BY <1>1, InvariantHolds, PTL

\* After a failed Send no thread calls stream.Send again, and nothing uses the
\* stream once the handler has returned.
THEOREM StreamLeftAlone == Spec => []StreamIsLeftAlone
  <1>1. IInv => StreamIsLeftAlone
    <2> SUFFICES ASSUME IInv, NEW t \in Thread
                 PROVE  /\ broken => call[t].step # "send"
                        /\ pc = "done" => call[t].step = "idle"
      BY DEF StreamIsLeftAlone
    <2>1. CASE t = "main" BY <2>1 DEF IInv, ThreadInv, Announcements
    <2>2. CASE t = "output" BY <2>2 DEF IInv, ThreadInv
    <2> QED BY <2>1, <2>2 DEF Thread
  <1> QED BY <1>1, InvariantHolds, PTL

\* A client that is lost while the image is prepared finds its board untouched.
THEOREM EarlyLossSpared == Spec => []EarlyLossSparesBoard
  <1>1. IInv => EarlyLossSparesBoard BY DEF IInv, BoardInv, EarlyLossSparesBoard
  <1> QED BY <1>1, InvariantHolds, PTL

\* The scratch directory is there for qdl and for the extraction, and is removed
\* whatever the outcome.
THEOREM ScratchKept == Spec => []ScratchOutlivesWork
  <1>1. IInv => ScratchOutlivesWork
    BY DEF IInv, BoardInv, ScratchInv, ScratchOutlivesWork, Returned
  <1> QED BY <1>1, InvariantHolds, PTL

\* Success is said, in either way, exactly of a board that was flashed to the end.
THEOREM SuccessTrue == Spec => []SuccessIsTrue
  <1>1. IInv => SuccessIsTrue BY WasWord DEF IInv, AnswerInv, SuccessIsTrue, Returned
  <1> QED BY <1>1, InvariantHolds, PTL

\* The messages of a request are a conversation, whatever fails and whoever leaves.
THEOREM ConversationKept == Spec => []Conversation
  <1>1. IInv => Conversation BY WasWord DEF IInv, OrderInv, TellInv, Conversation, Returned
  <1> QED BY <1>1, InvariantHolds, PTL
=============================================================================
